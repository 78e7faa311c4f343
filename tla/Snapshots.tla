------------------------------ MODULE Snapshots ------------------------------
(***************************************************************************)
(* What the stops of internal/strategy are evaluated on: snapshots of      *)
(* positions.  Prices are integers and a stop is a price times Scale, so   *)
(* that a price changed by a percentage is exact, as it is in the code's   *)
(* decimals.                                                               *)
(***************************************************************************)
EXTENDS Integers

CONSTANTS
  Positions,  \* position identifiers
  Prices,     \* the current prices in the snapshots
  NoConfig    \* a configuration pointer that is nil

Scale == 100

ASSUME PricesAreNumbers == Prices \subseteq Int
=============================================================================

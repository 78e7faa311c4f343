---------------------------- MODULE StopRatchet ----------------------------
(***************************************************************************)
(* What a stop-loss component promises about a position, independently of  *)
(* how it computes its stop: while the position stays armed the stop level *)
(* only rises, and a price that is acted on fires the stop exactly when it *)
(* is at or below the level then in force; a fired stop stays fired, with  *)
(* its level, until the position is armed afresh or disarmed.              *)
(***************************************************************************)
EXTENDS Integers

CONSTANTS
  Positions,  \* the position identifiers
  Scale       \* a level is a price times Scale, so that percentages stay exact

VARIABLES
  armed,  \* the positions with a stop
  level,  \* [Positions -> Int] the stop, times Scale; 0 while disarmed
  fired,  \* the positions whose stop has fired
  seen    \* [Positions -> Int] the last price acted on since arming; 0 for none

vars == <<armed, level, fired, seen>>

Init ==
  /\ armed = {}
  /\ level = [p \in Positions |-> 0]
  /\ fired = {}
  /\ seen = [p \in Positions |-> 0]

\* The step changes f to g, an integer, at p and nowhere else.
ChangesAt(p, f, g) == g[p] \in Int /\ g = [f EXCEPT ![p] = g[p]]

\* A position gets a stop, or has its stop set up afresh.
Arm(p) ==
  /\ armed' = armed \cup {p}
  /\ fired' = fired \ {p}
  /\ ChangesAt(p, level, level')
  /\ seen' = [seen EXCEPT ![p] = 0]

\* A price is acted on: the level may rise first, then decides.
Observe(p) ==
  /\ p \in armed \ fired
  /\ ChangesAt(p, level, level')
  /\ ChangesAt(p, seen, seen')
  /\ level'[p] >= level[p]
  /\ fired' = IF Scale * seen'[p] <= level'[p] THEN fired \cup {p} ELSE fired
  /\ UNCHANGED armed

Disarm(p) ==
  /\ armed' = armed \ {p}
  /\ fired' = fired \ {p}
  /\ level' = [level EXCEPT ![p] = 0]
  /\ seen' = [seen EXCEPT ![p] = 0]

Next == \E p \in Positions : Arm(p) \/ Observe(p) \/ Disarm(p)

Spec == Init /\ [][Next]_vars
=============================================================================

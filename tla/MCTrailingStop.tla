--------------------------- MODULE MCTrailingStop ---------------------------
(***************************************************************************)
(* TrailingStop on a few prices around the activation and stop levels of   *)
(* two valid configurations, a disabled one and one UpdateConfig should    *)
(* have refused.                                                           *)
(***************************************************************************)
EXTENDS TrailingStop

Config(on, i, t, a) == [enabled |-> on, initial |-> i, trailing |-> t, activation |-> a]

Tight == Config(TRUE, -20, 10, 10)    \* a tight stop, activated early
Wide == Config(TRUE, 0, 50, 100)      \* the default initial stop, a wide trail
Paused == Config(FALSE, -20, 10, 10)  \* disabled, with percentages in range
Off == Config(FALSE, 0, 0, 0)         \* disabled, nothing else filled in
Inverted == Config(TRUE, 10, 10, 10)  \* an initial stop above the entry price

AllConfigs == {Tight, Wide, Paused, Off, Inverted}
=============================================================================

----------------------------- MODULE MCStopLoss -----------------------------
(***************************************************************************)
(* StopLoss with an entry price of 10 and prices at, above and below the   *)
(* stops and the activation level of each configuration.                   *)
(***************************************************************************)
EXTENDS StopLoss, TLC

MCEntry == [p \in Positions |-> 10]

Config(on, pct, tr, dist, act) ==
  [enabled |-> on, percent |-> pct, trailing |-> tr,
   trailingPercent |-> dist, trailingActivate |-> act]

Plain == Config(TRUE, -20, FALSE, 0, 0)
Trail == Config(TRUE, -50, TRUE, 10, 40)
Defaults == Config(TRUE, 0, TRUE, 0, 0)

MCStopLossConfigs == {Trail, Plain, Defaults}

\* A cell by what it holds and the evaluations that point to it.
Cell(o) == IF o = None THEN None ELSE <<heap[o], {e \in Evaluators : call[e].state = o}>>

\* What makes a difference: not which cell GetState has taken, nor what one that
\* nothing points to was left with, nor a local variable that is not read any more.
\* No property looks at any of these.
Live ==
  <<stopConfig, triggered, pc, stopPanicked, signals, retired,
    [p \in Positions |-> Cell(trailingStates[p])],
    [e \in Evaluators |->
       <<Position(e), Price(e), Cell(call[e].state), call[e].raced,
         IF pc[e] \in {"mark", "pending", "readStop", "setStop", "compare"}
           THEN 0 ELSE call[e].entryStop,
         IF pc[e] = "setStop" THEN call[e].newStop ELSE 0>>]>>

EvaluatorSymmetry == Permutations(Evaluators)
=============================================================================

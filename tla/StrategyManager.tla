-------------------------- MODULE StrategyManager --------------------------
(***************************************************************************)
(* internal/strategy/manager.go: the manager that keeps the active         *)
(* positions and their evaluation history under one RWMutex, and drives    *)
(* the take profit, stop loss and trailing stop strategies, which have     *)
(* locks of their own.  EvaluateExit takes the manager's lock twice and    *)
(* evaluates the strategies in between without it; EvaluateAll calls       *)
(* EvaluateExit with the read lock held.                                   *)
(*                                                                         *)
(* A strategy is here the positions it holds data about; TrailingStop and  *)
(* StopLoss model what that data is.  All three are enabled.               *)
(***************************************************************************)
EXTENDS Integers, FiniteSets

CONSTANTS
  Positions,     \* position identifiers
  Threads,       \* goroutines that call the manager
  None,          \* no position
  HistoryLimit,  \* how many results a history is to keep: 100 in the code
  MaxHistory     \* bound: no evaluation starts for a position with a longer history

ASSUME LimitsAreNumbers == HistoryLimit \in Nat \ {0} /\ MaxHistory \in Nat
ASSUME NoneIsNoPosition == None \notin Positions

VARIABLES
  active,    \* the keys of m.activePositions
  trailing,  \* the keys of m.trailingStop.states
  highs,     \* the keys of m.takeProfit.highestPrices
  tracked,   \* the keys of m.stopLoss.trailingStates
  stopped,   \* the keys of m.stopLoss.triggered
  history,   \* [Positions -> Nat] how many results m.evaluationHistory holds
  thread,    \* [Threads -> where the call is, its position, EvaluateAll's list]
  readers,   \* the threads that hold the read lock
  removal    \* history: [Positions -> how the position was last removed]

strategies == <<trailing, highs, tracked, stopped>>
vars == <<active, strategies, history, thread, readers, removal>>

\* The calls by what they do next; those of LockSteps wait in m.mu.Lock(), those
\* at "all" in m.mu.RLock().
LockSteps == {"update", "record", "add", "modify", "remove"}
Steps == LockSteps \cup {"idle", "takeProfit", "stopLoss", "all", "list", "next"}

Idle == [at |-> "idle", position |-> None, todo |-> {}]

Init ==
  /\ active = {} /\ trailing = {} /\ highs = {} /\ tracked = {} /\ stopped = {}
  /\ history = [p \in Positions |-> 0]
  /\ thread = [t \in Threads |-> Idle]
  /\ readers = {}
  /\ removal = [p \in Positions |-> "none"]

---------------------------------------------------------------------------
(* The lock: a critical section under Lock is one step, so that only read     *)
(* locks are ever held between steps.  A waiting writer keeps new readers     *)
(* out, and lets those that wait in when it unlocks.                          *)

CanLock(t, step) == thread[t].at = step /\ readers = {}
CanRLock(t, step) == thread[t].at = step /\ \A u \in Threads : thread[u].at \notin LockSteps

Goto(t, step) == thread' = [thread EXCEPT ![t].at = step]

\* The writer t goes on as r.
UnlockTo(t, r) ==
  /\ readers' = {u \in Threads : thread[u].at = "all"}
  /\ thread' = [u \in Threads |->
       IF u = t THEN r
       ELSE IF thread[u].at = "all" THEN [thread[u] EXCEPT !.at = "list"]
       ELSE thread[u]]

UnlockAndReturn(t) == UnlockTo(t, Idle)

\* A call about p begins; from here on p may be there again.
Begin(t, step, p) ==
  /\ thread[t].at = "idle"
  /\ thread' = [thread EXCEPT ![t].at = step, ![t].position = p]
  /\ removal' = [removal EXCEPT ![p] = "none"]
  /\ UNCHANGED <<active, strategies, history, readers>>

---------------------------------------------------------------------------
(* EvaluateExit *)

EvaluateExit(t, p) == history[p] <= MaxHistory /\ Begin(t, "update", p)

\* The snapshot becomes the active position, whether or not it was one.
updatePositionSnapshot(t) ==
  /\ CanLock(t, "update")
  /\ active' = active \cup {thread[t].position}
  /\ UnlockTo(t, [thread[t] EXCEPT !.at = "takeProfit"])
  /\ UNCHANGED <<strategies, history, removal>>

TakeProfit(t) ==
  /\ thread[t].at = "takeProfit"
  /\ highs' = highs \cup {thread[t].position}
  /\ Goto(t, "stopLoss")
  /\ UNCHANGED <<active, trailing, tracked, stopped, history, readers, removal>>

\* A position that has triggered is left alone; another gets its trailing state
\* and may trigger.
StopLoss(t) ==
  /\ thread[t].at = "stopLoss"
  /\ LET p == thread[t].position IN
       IF p \in stopped THEN UNCHANGED <<tracked, stopped>>
       ELSE /\ tracked' = tracked \cup {p}
            /\ \E triggers \in BOOLEAN :
                 stopped' = IF triggers THEN stopped \cup {p} ELSE stopped
  /\ Goto(t, "record")
  /\ UNCHANGED <<active, trailing, highs, history, readers, removal>>

\* Mutant: a helper takes the lock again while it is held.
recordEvaluation_Reentrant(t) ==
  /\ CanLock(t, "record")
  /\ CanRLock(t, "record")
  /\ history' = [history EXCEPT ![thread[t].position] = @ + 2]
  /\ UnlockAndReturn(t)
  /\ UNCHANGED <<active, strategies, removal>>

\* Two results come in; beyond the limit one goes out.
recordEvaluation(t) ==
  /\ CanLock(t, "record")
  /\ history' = [history EXCEPT ![thread[t].position] =
       IF @ + 2 > HistoryLimit THEN @ + 1 ELSE @ + 2]
  /\ UnlockAndReturn(t)
  /\ UNCHANGED <<active, strategies, removal>>

---------------------------------------------------------------------------
(* EvaluateAll *)

EvaluateAll(t) ==
  /\ thread[t].at = "idle"
  /\ Goto(t, "all")
  /\ UNCHANGED <<active, strategies, history, readers, removal>>

\* The read lock is taken, and kept until the function returns.
ReadLock(t) ==
  /\ CanRLock(t, "all")
  /\ readers' = readers \cup {t}
  /\ Goto(t, "list")
  /\ UNCHANGED <<active, strategies, history, removal>>

ListPositions(t) ==
  /\ thread[t].at = "list"
  /\ thread' = [thread EXCEPT ![t].at = "next", ![t].todo = active]
  /\ UNCHANGED <<active, strategies, history, readers, removal>>

\* EvaluateExit of the next position, or the return.
NextPosition(t) ==
  /\ thread[t].at = "next"
  /\ IF thread[t].todo = {}
       THEN Goto(t, "idle") /\ readers' = readers \ {t}
       ELSE /\ \E p \in thread[t].todo :
                 thread' = [thread EXCEPT ![t] =
                   [at |-> "update", position |-> p, todo |-> @.todo \ {p}]]
            /\ UNCHANGED readers
  /\ UNCHANGED <<active, strategies, history, removal>>

---------------------------------------------------------------------------
(* The positions *)

\* Mutant: the position is tracked only when its trailing stop can be set up, the
\* stop whether or not it is.
AddPosition_StopFirst(t) ==
  /\ CanLock(t, "add")
  /\ trailing' = trailing \cup {thread[t].position}
  /\ \E valid \in BOOLEAN :
       active' = IF valid THEN active \cup {thread[t].position} ELSE active
  /\ UnlockAndReturn(t)
  /\ UNCHANGED <<highs, tracked, stopped, history, removal>>

\* A failure to initialize the trailing stop is logged and forgotten.
AddPosition(t) ==
  /\ CanLock(t, "add")
  /\ active' = active \cup {thread[t].position}
  /\ \E valid \in BOOLEAN :
       trailing' = IF valid THEN trailing \cup {thread[t].position} ELSE trailing
  /\ UnlockAndReturn(t)
  /\ UNCHANGED <<highs, tracked, stopped, history, removal>>

\* The trailing stop is updated where there is one, and never created.
UpdatePosition(t) ==
  /\ CanLock(t, "modify")
  /\ active' = active \cup {thread[t].position}
  /\ UnlockAndReturn(t)
  /\ UNCHANGED <<strategies, history, removal>>

HowRemoved(t, p) ==
  IF \E u \in Threads \ {t} : thread[u].position = p THEN "overlapped" ELSE "quiet"

\* Mutant: the take profit data stays.
RemovePosition_KeepsHigh(t) ==
  LET p == thread[t].position
  IN  /\ CanLock(t, "remove")
      /\ active' = active \ {p}
      /\ trailing' = trailing \ {p}
      /\ tracked' = tracked \ {p}
      /\ stopped' = stopped \ {p}
      /\ removal' = [removal EXCEPT ![p] = HowRemoved(t, p)]
      /\ UnlockAndReturn(t)
      /\ UNCHANGED <<highs, history>>

\* The strategies forget the position; its evaluation history stays.
RemovePosition(t) ==
  LET p == thread[t].position
  IN  /\ CanLock(t, "remove")
      /\ active' = active \ {p}
      /\ trailing' = trailing \ {p}
      /\ highs' = highs \ {p}
      /\ tracked' = tracked \ {p}
      /\ stopped' = stopped \ {p}
      /\ removal' = [removal EXCEPT ![p] = HowRemoved(t, p)]
      /\ UnlockAndReturn(t)
      /\ UNCHANGED history

---------------------------------------------------------------------------
Step(t) ==
  \/ updatePositionSnapshot(t) \/ TakeProfit(t) \/ StopLoss(t) \/ recordEvaluation(t)
  \/ ReadLock(t) \/ ListPositions(t) \/ NextPosition(t)
  \/ AddPosition(t) \/ UpdatePosition(t) \/ RemovePosition(t)

Call(t) ==
  \/ EvaluateAll(t)
  \/ \E p \in Positions :
       EvaluateExit(t, p) \/ \E step \in {"add", "modify", "remove"} : Begin(t, step, p)

Next == \E t \in Threads : Step(t) \/ Call(t)

Spec == Init /\ [][Next]_vars

\* A call that can go on does, also one whose lock is free only now and then: the
\* Go scheduler runs every goroutine, and a mutex hands over to one that has
\* waited for long (its starvation mode).
Fairness == \A t \in Threads : SF_vars(Step(t))

FairSpec == Spec /\ Fairness

---------------------------------------------------------------------------
(* Properties *)

TypeOK ==
  /\ active \subseteq Positions /\ trailing \subseteq Positions
  /\ highs \subseteq Positions /\ tracked \subseteq Positions /\ stopped \subseteq Positions
  /\ history \in [Positions -> Nat]
  /\ thread \in [Threads -> [at : Steps, position : Positions \cup {None},
                             todo : SUBSET Positions]]
  /\ readers \subseteq Threads
  /\ removal \in [Positions -> {"none", "quiet", "overlapped"}]

Data(p) == p \in active \cup trailing \cup highs \cup tracked \cup stopped

\* "RemovePosition removes a position from tracking": when no other call about it
\* was under way, nothing in the manager or its strategies remembers the position
\* until the next call about it.
RemovedIsForgotten == \A p \in Positions : removal[p] = "quiet" => ~Data(p)

\* A trailing stop belongs to an active position, however the calls interleave.
TrailingFollowsPositions == trailing \subseteq active

\* EvaluateAll holds the read lock and waits for the write lock.
SelfDeadlocked(t) == t \in readers /\ thread[t].at = "update"

\* The lock protocol of all the rest is sound: every call returns, unless an
\* EvaluateAll has got hold of the lock for good.
CallsReturn ==
  \A t \in Threads :
    thread[t].at # "idle" ~>
      thread[t].at = "idle" \/ \E u \in Threads : SelfDeadlocked(u)

=============================================================================

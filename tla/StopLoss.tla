------------------------------ MODULE StopLoss ------------------------------
(***************************************************************************)
(* internal/strategy/stop_loss.go: stop losses evaluated by concurrent     *)
(* callers.  sl.mu guards the two maps but not the trailing state they     *)
(* point to, and not the gap between isTriggered and markTriggered, so an  *)
(* evaluation is a sequence of steps.  The states live in a heap, because  *)
(* an evaluation keeps its pointer across a Cleanup.                       *)
(*                                                                         *)
(* A read or a write of one price field is atomic here.                    *)
(***************************************************************************)
EXTENDS Snapshots, FiniteSets

CONSTANTS
  Evaluators,       \* goroutines that call Evaluate
  Entry,            \* [Positions -> Int] the entry price in every snapshot of a position
  StopLossConfigs,  \* the configurations that callers pass in
  Objects,          \* heap cells for trailing states
  None              \* nil: no trailing state, no evaluation

StopLossConfig ==
  [enabled : BOOLEAN, percent : Int, trailing : BOOLEAN,
   trailingPercent : Int, trailingActivate : Int]

TrailingState ==
  [activated : BOOLEAN, activationPrice : Int, stopPrice : Int,
   highestPrice : Int, initialStopPrice : Int]

ASSUME EntryIsAPrice == Entry \in [Positions -> Int]
ASSUME StopLossConfigsAreTyped ==
  StopLossConfigs \subseteq StopLossConfig /\ NoConfig \notin StopLossConfig
ASSUME NoneIsNothing == None \notin Positions \cup Objects \cup TrailingState
ASSUME EnoughObjects ==
  /\ IsFiniteSet(Positions) /\ IsFiniteSet(Evaluators) /\ IsFiniteSet(Objects)
  /\ Cardinality(Objects) >= Cardinality(Positions) + Cardinality(Evaluators)

VARIABLES
  stopConfig,      \* sl.config
  trailingStates,  \* [Positions -> Objects \cup {None}] sl.trailingStates
  heap,            \* [Objects -> TrailingState \cup {None}] the states pointed to
  triggered,       \* sl.triggered
  pc,              \* [Evaluators -> step] where each evaluation is
  call,            \* [Evaluators -> snapshot and local variables]
  stopPanicked,    \* the process died of a nil dereference
  signals,         \* history: sell signals per position since it was last cleaned up
  retired          \* history: positions cleaned up and not evaluated since

stopVars == <<stopConfig, trailingStates, heap, triggered, pc, call, stopPanicked,
              signals, retired>>

Steps == {"idle", "entryStop", "checkEntry", "getState", "readHigh", "setHigh", "activate",
          "pending", "readStop", "setStop", "compare", "mark"}

---------------------------------------------------------------------------
(* Configuration *)

\* What UpdateConfig accepts; a nil or a disabled configuration is not read.
validateStopLossConfig(c) ==
  c # NoConfig /\ c.enabled =>
    /\ c.percent < 0
    /\ c.trailing => c.trailingPercent > 0 /\ c.trailingActivate > 0

\* NewStopLossStrategy fills in what the configuration leaves at zero.
WithDefaults(c) ==
  [c EXCEPT
    !.percent = IF @ = 0 THEN -50 ELSE @,
    !.trailingPercent = IF c.trailing /\ @ = 0 THEN 10 ELSE @,
    !.trailingActivate = IF c.trailing /\ @ = 0 THEN 10 ELSE @]

calculateEntryStopPrice(entry, c) == entry * (Scale + c.percent)

---------------------------------------------------------------------------
(* The state *)

Position(e) == call[e].position
Price(e) == call[e].price
State(e) == heap[call[e].state]

\* raced is a history: another evaluation of the position has run at the same time.
Idle == [position |-> None, price |-> 0, entryStop |-> 0, state |-> None, newStop |-> 0,
         raced |-> FALSE]

Evaluating(p) == {e \in Evaluators : Position(e) = p}

\* Heap cells nothing points to: the garbage collector may hand them out again.
FreeObjects ==
  {o \in Objects : /\ \A p \in Positions : trailingStates[p] # o
                   /\ \A e \in Evaluators : call[e].state # o}

StopInit ==
  /\ stopConfig \in {WithDefaults(c) : c \in StopLossConfigs}
  /\ trailingStates = [p \in Positions |-> None]
  /\ heap = [o \in Objects |-> None]
  /\ triggered = {}
  /\ pc = [e \in Evaluators |-> "idle"]
  /\ call = [e \in Evaluators |-> Idle]
  /\ stopPanicked = FALSE
  /\ signals = [p \in Positions |-> 0]
  /\ retired = {}

Goto(e, step) == pc' = [pc EXCEPT ![e] = step]

Return(e) == Goto(e, "idle") /\ call' = [call EXCEPT ![e] = Idle]

\* The evaluation dereferences sl.config, which must not be nil.
WithConfig(e, step) == pc[e] = step /\ stopConfig # NoConfig

---------------------------------------------------------------------------
(* Evaluate, step by step *)

\* The enabled check and isTriggered; when either fails Evaluate returns at once.
Evaluate(e, p, price) ==
  /\ ~stopPanicked
  /\ pc[e] = "idle"
  /\ stopConfig # NoConfig /\ stopConfig.enabled
  /\ p \notin triggered
  /\ call' = [f \in Evaluators |->
                IF f = e THEN [Idle EXCEPT !.position = p, !.price = price,
                                           !.raced = Evaluating(p) # {}]
                ELSE [call[f] EXCEPT !.raced = @ \/ f \in Evaluating(p)]]
  /\ Goto(e, "entryStop")
  /\ retired' = retired \ {p}
  /\ UNCHANGED <<stopConfig, trailingStates, heap, triggered, stopPanicked, signals>>

EntryStop(e) ==
  /\ ~stopPanicked
  /\ WithConfig(e, "entryStop")
  /\ call' = [call EXCEPT ![e].entryStop =
                calculateEntryStopPrice(Entry[Position(e)], stopConfig)]
  /\ Goto(e, "checkEntry")
  /\ UNCHANGED <<stopConfig, trailingStates, heap, triggered, stopPanicked, signals, retired>>

\* evaluateTrailing or the regular check, as the configuration says by now.
CheckEntry(e) ==
  /\ ~stopPanicked
  /\ WithConfig(e, "checkEntry")
  /\ IF stopConfig.trailing
       THEN Goto(e, "getState") /\ UNCHANGED call
     ELSE IF Scale * Price(e) <= call[e].entryStop
       THEN Goto(e, "mark") /\ UNCHANGED call
     ELSE Return(e)
  /\ UNCHANGED <<stopConfig, trailingStates, heap, triggered, stopPanicked, signals, retired>>

\* getOrCreateTrailingState, under the lock.
GetState(e) ==
  /\ ~stopPanicked
  /\ pc[e] = "getState"
  /\ LET p == Position(e) IN
       IF trailingStates[p] # None
         THEN /\ call' = [call EXCEPT ![e].state = trailingStates[p]]
              /\ UNCHANGED <<trailingStates, heap>>
         ELSE LET o == CHOOSE x \in FreeObjects : TRUE IN
              /\ trailingStates' = [trailingStates EXCEPT ![p] = o]
              /\ heap' = [heap EXCEPT ![o] =
                   [activated |-> FALSE, activationPrice |-> 0,
                    stopPrice |-> call[e].entryStop, highestPrice |-> Entry[p],
                    initialStopPrice |-> call[e].entryStop]]
              /\ call' = [call EXCEPT ![e].state = o]
  /\ Goto(e, "readHigh")
  /\ UNCHANGED <<stopConfig, triggered, stopPanicked, signals, retired>>

\* From here on the state is read and written without the lock.
ReadHigh(e) ==
  /\ ~stopPanicked
  /\ pc[e] = "readHigh"
  /\ Goto(e, IF Price(e) > State(e).highestPrice THEN "setHigh" ELSE "activate")
  /\ UNCHANGED <<stopConfig, trailingStates, heap, triggered, call, stopPanicked, signals, retired>>

SetHigh(e) ==
  /\ ~stopPanicked
  /\ pc[e] = "setHigh"
  /\ heap' = [heap EXCEPT ![call[e].state].highestPrice = Price(e)]
  /\ Goto(e, "activate")
  /\ UNCHANGED <<stopConfig, trailingStates, triggered, call, stopPanicked, signals, retired>>

\* Activation, and on to the trailing or the entry-based check.
Activate(e) ==
  LET reached == Scale * Price(e) >= Entry[Position(e)] * (Scale + stopConfig.trailingActivate)
  IN  /\ ~stopPanicked
      /\ WithConfig(e, "activate")
      /\ IF State(e).activated
           THEN Goto(e, "readStop") /\ UNCHANGED <<heap, call>>
         ELSE IF reached
           THEN /\ heap' = [heap EXCEPT ![call[e].state] =
                     [@ EXCEPT !.activated = TRUE, !.activationPrice = Price(e)]]
                /\ Goto(e, "readStop")
                /\ UNCHANGED call
         ELSE IF Scale * Price(e) <= call[e].entryStop
           THEN Goto(e, "mark") /\ UNCHANGED <<heap, call>>
         ELSE Goto(e, "pending") /\ UNCHANGED <<heap, call>>
      /\ UNCHANGED <<stopConfig, trailingStates, triggered, stopPanicked, signals, retired>>

\* The result that nothing is sold takes its text from the configuration.
Pending(e) ==
  /\ ~stopPanicked
  /\ WithConfig(e, "pending")
  /\ Return(e)
  /\ UNCHANGED <<stopConfig, trailingStates, heap, triggered, stopPanicked, signals, retired>>

\* Mutant: the new stop is set without comparing it.
ReadStop_Always(e) ==
  /\ ~stopPanicked
  /\ WithConfig(e, "readStop")
  /\ call' = [call EXCEPT ![e].newStop =
                State(e).highestPrice * (Scale - stopConfig.trailingPercent)]
  /\ Goto(e, "setStop")
  /\ UNCHANGED <<stopConfig, trailingStates, heap, triggered, stopPanicked, signals, retired>>

\* The new trailing stop, compared with the one in the state.
ReadStop(e) ==
  LET new == State(e).highestPrice * (Scale - stopConfig.trailingPercent)
  IN  /\ ~stopPanicked
      /\ WithConfig(e, "readStop")
      /\ call' = [call EXCEPT ![e].newStop = new]
      /\ Goto(e, IF new > State(e).stopPrice THEN "setStop" ELSE "compare")
      /\ UNCHANGED <<stopConfig, trailingStates, heap, triggered, stopPanicked, signals, retired>>

SetStop(e) ==
  /\ ~stopPanicked
  /\ pc[e] = "setStop"
  /\ heap' = [heap EXCEPT ![call[e].state].stopPrice = call[e].newStop]
  /\ Goto(e, "compare")
  /\ UNCHANGED <<stopConfig, trailingStates, triggered, call, stopPanicked, signals, retired>>

Compare(e) ==
  /\ ~stopPanicked
  /\ pc[e] = "compare"
  /\ IF Scale * Price(e) <= State(e).stopPrice
       THEN Goto(e, "mark") /\ UNCHANGED call
       ELSE Return(e)
  /\ UNCHANGED <<stopConfig, trailingStates, heap, triggered, stopPanicked, signals, retired>>

\* The result that tells the caller to sell; its text takes the configuration.
SignalSell(e) ==
  IF stopConfig = NoConfig
    THEN stopPanicked' = TRUE /\ UNCHANGED <<pc, call, signals>>
    ELSE /\ signals' = [signals EXCEPT ![Position(e)] = @ + 1]
         /\ Return(e)
         /\ UNCHANGED stopPanicked

\* Mutant: the position is not marked.
Mark_Forgotten(e) ==
  /\ ~stopPanicked
  /\ pc[e] = "mark"
  /\ SignalSell(e)
  /\ UNCHANGED <<stopConfig, trailingStates, heap, triggered, retired>>

\* markTriggered, then the sell signal.
Mark(e) ==
  /\ ~stopPanicked
  /\ pc[e] = "mark"
  /\ triggered' = triggered \cup {Position(e)}
  /\ SignalSell(e)
  /\ UNCHANGED <<stopConfig, trailingStates, heap, retired>>

\* A configuration set to nil in mid-evaluation.
EvaluateNil(e) ==
  /\ ~stopPanicked
  /\ pc[e] \in {"entryStop", "checkEntry", "activate", "pending", "readStop"}
  /\ stopConfig = NoConfig
  /\ stopPanicked' = TRUE
  /\ UNCHANGED <<stopConfig, trailingStates, heap, triggered, pc, call, signals, retired>>

---------------------------------------------------------------------------
(* The other operations *)

\* Reset and Cleanup do the same to the maps.
Cleanup(p) ==
  /\ ~stopPanicked
  /\ triggered' = triggered \ {p}
  /\ trailingStates' = [trailingStates EXCEPT ![p] = None]
  /\ signals' = [signals EXCEPT ![p] = 0]
  /\ retired' = retired \cup {p}
  /\ UNCHANGED <<stopConfig, heap, pc, call, stopPanicked>>

UpdateStopLossConfig(c) ==
  /\ ~stopPanicked
  /\ validateStopLossConfig(c)
  /\ stopConfig' = c
  /\ UNCHANGED <<trailingStates, heap, triggered, pc, call, stopPanicked, signals, retired>>

Step(e) ==
  \/ EntryStop(e) \/ CheckEntry(e) \/ GetState(e) \/ ReadHigh(e) \/ SetHigh(e)
  \/ Activate(e) \/ Pending(e) \/ ReadStop(e) \/ SetStop(e) \/ Compare(e) \/ Mark(e)
  \/ EvaluateNil(e)

StopNext ==
  \/ \E e \in Evaluators :
       Step(e) \/ \E p \in Positions, price \in Prices : Evaluate(e, p, price)
  \/ \E p \in Positions : Cleanup(p)
  \/ \E c \in StopLossConfigs \cup {NoConfig} : UpdateStopLossConfig(c)

StopSpec == StopInit /\ [][StopNext]_stopVars

---------------------------------------------------------------------------
(* Properties *)

StopTypeOK ==
  /\ stopConfig \in StopLossConfig \cup {NoConfig}
  /\ trailingStates \in [Positions -> Objects \cup {None}]
  /\ heap \in [Objects -> TrailingState \cup {None}]
  /\ triggered \subseteq Positions
  /\ pc \in [Evaluators -> Steps]
  /\ call \in [Evaluators -> [position : Positions \cup {None}, price : Int,
       entryStop : Int, state : Objects \cup {None}, newStop : Int, raced : BOOLEAN]]
  /\ stopPanicked \in BOOLEAN
  /\ signals \in [Positions -> Nat]
  /\ retired \subseteq Positions

\* However evaluations interleave, a position gets at most one sell signal from
\* each goroutine that was past the check when the stop triggered; with a single
\* goroutine it is sold once.
SellsBounded == \A p \in Positions : signals[p] <= Cardinality(Evaluators)

InUse(o) == o \notin FreeObjects

Raced(o) == \E e \in Evaluators : call[e].state = o /\ call[e].raced

\* "Only raise the stop, never lower it": the stop price of a state, or its highest
\* price, is only ever lowered while an evaluation is under way that another of
\* the same position overlapped (evaluateTrailing).
StopNeverLowered ==
  [][\A o \in Objects : InUse(o) /\ heap[o] # None /\ ~Raced(o) =>
       /\ heap'[o].stopPrice >= heap[o].stopPrice
       /\ heap'[o].highestPrice >= heap[o].highestPrice]_stopVars

\* GetStopPrice: what the position is sold at right now.
GetStopPrice(p) ==
  IF trailingStates[p] # None /\ heap[trailingStates[p]].activated
    THEN heap[trailingStates[p]].stopPrice
    ELSE calculateEntryStopPrice(Entry[p], stopConfig)

\* The state of the position was set up under a configuration with a lower stop.
Outdated(p) ==
  /\ trailingStates[p] # None
  /\ heap[trailingStates[p]].initialStopPrice < calculateEntryStopPrice(Entry[p], stopConfig)

\* The price a position would be sold at, as GetStopPrice reports it, only rises
\* while the configuration stays, the position is not cleaned up and evaluations
\* of it do not overlap; in particular, activating the trailing stop does not give
\* protection away.  The exception is a configuration with a closer stop than the
\* one the trailing state was created under: the state keeps the earlier stop.
EffectiveStopOnlyRises ==
  [][\A p \in Positions :
       (/\ stopConfig # NoConfig /\ stopConfig' = stopConfig
        /\ p \notin retired' /\ ~Raced(trailingStates[p]) /\ ~Outdated(p))
         => GetStopPrice(p)' >= GetStopPrice(p)]_stopVars
=============================================================================

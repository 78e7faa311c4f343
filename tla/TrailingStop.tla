---------------------------- MODULE TrailingStop ----------------------------
(***************************************************************************)
(* internal/strategy/trailing.go: the trailing stops of the open           *)
(* positions.  Initialize sets a stop below the entry price, Update raises *)
(* it behind the highest price once the position is in enough profit and   *)
(* triggers it, and UpdateConfig may swap the percentages at any time.     *)
(*                                                                         *)
(* Everything under ts.mu is one step; the enabled check of Initialize     *)
(* runs before the lock is taken and is a step of its own.                 *)
(***************************************************************************)
EXTENDS Snapshots

CONSTANTS
  Configs,  \* the configurations that callers pass in
  NoState   \* "not in ts.states"

ConfigType == [enabled : BOOLEAN, initial : Int, trailing : Int, activation : Int]

TrailState ==
  [entryPrice : Int, initialStopPrice : Int, currentStopPrice : Int,
   highestPrice : Int, activated : BOOLEAN, activationPrice : Int,
   triggered : BOOLEAN]

ASSUME ConfigsAreTyped == Configs \subseteq ConfigType /\ NoConfig \notin ConfigType
ASSUME NoStateIsNoState == NoState \notin TrailState

VARIABLES
  config,    \* ts.config
  states,    \* ts.states
  entering,  \* [Positions -> Int] entry price of an Initialize past its check, or 0
  panicked,  \* the process died of a nil dereference
  seen       \* history: the last price Update acted on since the stop was set up

vars == <<config, states, entering, panicked, seen>>

---------------------------------------------------------------------------
(* Configuration *)

Active(c) == c # NoConfig /\ c.enabled

TrailingInRange(c) == c.trailing > 0 /\ c.trailing <= 50
ActivationInRange(c) == c.activation > 0 /\ c.activation <= 100
InitialInRange(c) == c.initial >= -50 /\ c.initial <= 0

\* What UpdateConfig accepts: a nil or a disabled configuration unread.
validateConfigInternal(c) ==
  Active(c) => TrailingInRange(c) /\ ActivationInRange(c)

\* What NewManager insists on; only here is the initial percentage checked.
ValidateConfig(c) ==
  Active(c) => TrailingInRange(c) /\ ActivationInRange(c) /\ InitialInRange(c)

---------------------------------------------------------------------------
(* The arithmetic of one position's stop *)

calculateInitialStop(entry, c) ==
  entry * (Scale + (IF c.initial = 0 THEN -10 ELSE c.initial))

\* The price that puts the position in enough profit for its stop to trail.
ReachesActivation(st, price, c) ==
  Scale * price >= st.entryPrice * (Scale + c.activation)

activate(st, price) == [st EXCEPT !.activated = TRUE, !.activationPrice = price]

\* Mutant: the stop follows the new level downwards too.
updateStopPrice_Unguarded(st, c) ==
  [st EXCEPT !.currentStopPrice = st.highestPrice * (Scale - c.trailing)]

\* Mutant: the stop is put at the high itself, without the trailing distance.
updateStopPrice_AtTheHigh(st, c) ==
  [st EXCEPT !.currentStopPrice = IF st.highestPrice * Scale > @
                                    THEN st.highestPrice * Scale ELSE @]

updateStopPrice(st, c) ==
  LET newStopPrice == st.highestPrice * (Scale - c.trailing)
  IN  [st EXCEPT !.currentStopPrice = IF newStopPrice > @ THEN newStopPrice ELSE @]

\* Mutant: the high that activates the stop does not move it yet.
RaiseHighest_NextTime(st, price, c) ==
  LET high == [st EXCEPT !.highestPrice = price]
  IN  IF high.activated THEN updateStopPrice(high, c)
      ELSE IF ReachesActivation(high, price, c) THEN activate(high, price)
      ELSE high

\* Everything Update does because of a new high.
RaiseHighest(st, price, c) ==
  LET high == [st EXCEPT !.highestPrice = price]
      live == IF ~high.activated /\ ReachesActivation(high, price, c)
                THEN activate(high, price) ELSE high
  IN  IF live.activated THEN updateStopPrice(live, c) ELSE live

trigger(st, price) == [st EXCEPT !.triggered = Scale * price <= st.currentStopPrice]

Observe(st, price, c) ==
  trigger(IF price > st.highestPrice THEN RaiseHighest(st, price, c) ELSE st, price)

Fresh(entry, stop) ==
  [entryPrice |-> entry, initialStopPrice |-> stop, currentStopPrice |-> stop,
   highestPrice |-> entry, activated |-> FALSE, activationPrice |-> 0,
   triggered |-> FALSE]

---------------------------------------------------------------------------
(* Operations *)

Tracked(p) == states[p] # NoState

Init ==
  /\ config \in {c \in Configs : ValidateConfig(c)}
  /\ states = [p \in Positions |-> NoState]
  /\ entering = [p \in Positions |-> 0]
  /\ panicked = FALSE
  /\ seen = [p \in Positions |-> 0]

\* Initialize up to ts.mu.Lock: the enabled and the price checks.
BeginInitialize(p, entry) ==
  /\ ~panicked
  /\ Active(config)
  /\ entry > 0
  /\ entering[p] = 0
  /\ entering' = [entering EXCEPT ![p] = entry]
  /\ UNCHANGED <<config, states, panicked, seen>>

\* The locked rest of Initialize, with the configuration in force by then.
Initialize(p) ==
  /\ ~panicked
  /\ entering[p] # 0
  /\ config # NoConfig
  /\ states' = [states EXCEPT ![p] =
       Fresh(entering[p], calculateInitialStop(entering[p], config))]
  /\ entering' = [entering EXCEPT ![p] = 0]
  /\ seen' = [seen EXCEPT ![p] = 0]
  /\ UNCHANGED <<config, panicked>>

\* The same with a configuration that became nil after the check.
InitializeNil(p) ==
  /\ ~panicked
  /\ entering[p] # 0
  /\ config = NoConfig
  /\ panicked' = TRUE
  /\ UNCHANGED <<config, states, entering, seen>>

Update(p, price) ==
  /\ ~panicked
  /\ price > 0
  /\ Tracked(p)
  /\ ~states[p].triggered
  /\ config = NoConfig => price <= states[p].highestPrice
  /\ states' = [states EXCEPT ![p] = Observe(@, price, config)]
  /\ seen' = [seen EXCEPT ![p] = price]
  /\ UNCHANGED <<config, entering, panicked>>

\* A new high needs the percentages: with a nil configuration it is raised,
\* then the dereference panics.
UpdateNil(p, price) ==
  /\ ~panicked
  /\ price > 0
  /\ Tracked(p)
  /\ ~states[p].triggered
  /\ config = NoConfig /\ price > states[p].highestPrice
  /\ states' = [states EXCEPT ![p].highestPrice = price]
  /\ panicked' = TRUE
  /\ UNCHANGED <<config, entering, seen>>

Remove(p) ==
  /\ ~panicked
  /\ Tracked(p)
  /\ states' = [states EXCEPT ![p] = NoState]
  /\ seen' = [seen EXCEPT ![p] = 0]
  /\ UNCHANGED <<config, entering, panicked>>

Reset(p) ==
  /\ ~panicked
  /\ Tracked(p)
  /\ states' = [states EXCEPT ![p] = Fresh(@.entryPrice, @.initialStopPrice)]
  /\ seen' = [seen EXCEPT ![p] = 0]
  /\ UNCHANGED <<config, entering, panicked>>

UpdateConfig(c) ==
  /\ ~panicked
  /\ validateConfigInternal(c)
  /\ config' = c
  /\ UNCHANGED <<states, entering, panicked, seen>>

Next ==
  \/ \E p \in Positions :
       \/ Initialize(p) \/ InitializeNil(p) \/ Remove(p) \/ Reset(p)
       \/ \E price \in Prices :
            BeginInitialize(p, price) \/ Update(p, price) \/ UpdateNil(p, price)
  \/ \E c \in Configs \cup {NoConfig} : UpdateConfig(c)

Spec == Init /\ [][Next]_vars
---------------------------------------------------------------------------
(* Properties *)

TypeOK ==
  /\ config \in Configs \cup {NoConfig}
  /\ states \in [Positions -> TrailState \cup {NoState}]
  /\ entering \in [Positions -> Int]
  /\ panicked \in BOOLEAN
  /\ seen \in [Positions -> Int]

\* Whatever configurations come and go, a tracked position's stop is never
\* below the one it was given on entry, and the high-water mark covers every
\* price acted on (Update and updateStopPrice: "only raise the stop").
StopAboveFloor ==
  \A p \in Positions : Tracked(p) =>
    /\ states[p].currentStopPrice >= states[p].initialStopPrice
    /\ states[p].highestPrice >= states[p].entryPrice
    /\ seen[p] # 0 => states[p].highestPrice >= seen[p]

\* Once trailing is activated its gain is locked in: the stop stays within
\* some configuration's trailing distance of the activation price, even after
\* UpdateConfig has replaced the configuration that activated it.
LockedIn ==
  \A p \in Positions : Tracked(p) /\ states[p].activated =>
    \E c \in Configs : states[p].currentStopPrice
                        >= states[p].activationPrice * (Scale - c.trailing)

\* The stop has triggered exactly when the last price acted on was at or below
\* it: no price that reaches the stop is missed, none above it triggers, and
\* nothing moves either of them afterwards (Update returns early).
FiresExactly ==
  \A p \in Positions : Tracked(p) =>
    states[p].triggered = (seen[p] # 0 /\ Scale * seen[p] <= states[p].currentStopPrice)

\* A price above every earlier one never triggers the stop, so that no position
\* is sold at its high, whichever configurations were in force before: all it
\* takes is an initial stop below the entry and a trailing distance by now.
NewHighNeverTriggers ==
  [][\A p \in Positions :
       (/\ Tracked(p) /\ Tracked(p)'
        /\ states[p].initialStopPrice < Scale * states[p].entryPrice
        /\ config # NoConfig /\ config.trailing > 0
        /\ states'[p].highestPrice > states[p].highestPrice
        /\ seen' # seen)
       => ~states'[p].triggered]_vars

\* The trailing stop keeps the promise of StopRatchet: its stop only rises while
\* armed, and fires exactly when an observed price reaches it.
Ratchet == INSTANCE StopRatchet WITH
  armed <- {p \in Positions : Tracked(p)},
  level <- [p \in Positions |-> IF Tracked(p) THEN states[p].currentStopPrice ELSE 0],
  fired <- {p \in Positions : Tracked(p) /\ states[p].triggered}

KeepsPromise == Ratchet!Spec
=============================================================================

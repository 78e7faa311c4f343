--------------------------- MODULE EntryDecision ---------------------------
(***************************************************************************)
(* internal/strategy/manager.go: EvaluateEntry and AssessRisk over the     *)
(* entry criteria and the position sizer.  A caller takes the portfolio    *)
(* into its context, evaluates, and opens a position of the size decided;  *)
(* what it opens and closes is the environment's, which nothing in the     *)
(* repository does yet.  No lock is held anywhere in an evaluation, so     *)
(* that another goroutine's change falls between any two reads.            *)
(***************************************************************************)
EXTENDS EntryCriteria, PositionSizing

CONSTANTS
  Callers,        \* goroutines that evaluate entries
  Tokens,         \* the tokens there are
  Candidates,     \* those of them that are evaluated
  Criteria,       \* criteria callers install
  Items,          \* what they put on the lists and take off them
  StrategyConfigs,\* [limits, buyAmount] callers install
  NoLimits,       \* a nil *PositionLimits
  PortfolioBound  \* bound: positions ever opened

ASSUME InputsAreTyped ==
  /\ IsFiniteSet(Callers) /\ Callers # {} /\ Tokens # {}
  /\ Candidates \subseteq Tokens /\ Tokens \subseteq TokenInfo /\ Items \subseteq Names
  /\ Criteria \subseteq {NoCriteria} \cup EntryCriteriaConfig
  /\ StrategyConfigs \subseteq [limits : {NoLimits} \cup PositionLimits, buyAmount : Int]

VARIABLES
  criteria,    \* m.entryCriteria.criteria
  config,      \* m.config
  sizer,       \* m.positionSizer.config
  portfolio,   \* the positions the callers keep
  pc,          \* [Callers -> step]
  ctx,         \* [Callers -> the token and the portfolio of the context]
  decided,     \* [Callers -> the amount of the last StrategyResult]
  panicked     \* the process died of a nil dereference

entryVars == <<criteria, config, sizer, portfolio, pc, ctx, decided, panicked>>

Position == [token : Names, amount : Nat, status : {"open", "closed"}]

\* An evaluation is at one of the criteria, or past them.
EntrySteps == Range(Reasons) \cup {"idle", "limits", "compare", "size", "decided"}

EntryTypeOK ==
  /\ criteria \in {NoCriteria} \cup EntryCriteriaConfig
  /\ config \in [limits : {NoLimits} \cup PositionLimits, buyAmount : Int]
  /\ sizer \in PositionLimits
  /\ portfolio \in Seq(Position)
  /\ pc \in [Callers -> EntrySteps]
  /\ ctx \in [Callers -> [token : Tokens, portfolio : Seq(Position)]]
  /\ decided \in [Callers -> Nat]
  /\ panicked \in BOOLEAN

NoContext == [token |-> CHOOSE t \in Tokens : TRUE, portfolio |-> <<>>]

ZeroLimits == [maxPositions |-> 0, maxPerToken |-> 0, maxTotalValue |-> 0, maxPerTrade |-> 0,
               maxPortfolioRisk |-> 0]

\* NewManager: the sizer shares the limits of the first configuration, the filter
\* its criteria, and the manager never tells either of another.  That the sizer has
\* an UpdatePositionLimits of its own, which nothing calls, is left out.
EntryInit ==
  /\ \E new \in StrategyConfigs :
       /\ sizer = WithDefaults(IF new.limits = NoLimits THEN ZeroLimits ELSE new.limits)
       /\ config = [new EXCEPT !.limits = IF @ = NoLimits THEN @ ELSE sizer]
  /\ criteria \in {c \in Criteria : ValidateConfig(c)} \ {NoCriteria}
  /\ portfolio = <<>>
  /\ pc = [c \in Callers |-> "idle"]
  /\ ctx = [c \in Callers |-> NoContext]
  /\ decided = [c \in Callers |-> 0]
  /\ panicked = FALSE

Continue(c, step) == pc' = [pc EXCEPT ![c] = step]

\* The evaluation is over: its context and result are forgotten.
Done(c) ==
  /\ Continue(c, "idle")
  /\ ctx' = [ctx EXCEPT ![c] = NoContext]
  /\ decided' = [decided EXCEPT ![c] = 0]

---------------------------------------------------------------------------
(* EvaluateEntry *)

EvaluateEntry(c, t) ==
  /\ ~panicked /\ pc[c] = "idle"
  /\ ctx' = [ctx EXCEPT ![c] = [token |-> t, portfolio |-> portfolio]]
  /\ Continue(c, Reasons[1])
  /\ UNCHANGED <<criteria, config, sizer, portfolio, decided, panicked>>

\* Each of the eight checks reads the criteria for itself, and may meet others than
\* the one before.
CheckCriteria(c) ==
  /\ ~panicked
  /\ \E i \in DOMAIN Reasons :
       /\ pc[c] = Reasons[i]
       /\ IF criteria = NoCriteria THEN panicked' = TRUE /\ UNCHANGED <<pc, ctx, decided>>
          ELSE /\ IF ~Checks(criteria, ctx[c].token)[i] THEN Done(c)
                  ELSE /\ Continue(c, IF i = Len(Reasons) THEN "limits" ELSE Reasons[i + 1])
                       /\ UNCHANGED <<ctx, decided>>
               /\ UNCHANGED panicked
  /\ UNCHANGED <<criteria, config, sizer, portfolio>>

\* The nil checks of EvaluateEntry and of checkPositionLimits.
CheckNil(c) ==
  /\ ~panicked /\ pc[c] = "limits"
  /\ Continue(c, IF config.limits = NoLimits THEN "size" ELSE "compare")
  /\ UNCHANGED <<criteria, config, sizer, portfolio, ctx, decided, panicked>>

\* The limit on the number counts closed positions, the one on the value does not.
LimitReached(l, p) ==
  \/ l.maxPositions > 0 /\ Len(p) >= l.maxPositions
  \/ l.maxTotalValue # 0 /\ OpenValue(p) >= l.maxTotalValue

checkPositionLimits(c) ==
  /\ ~panicked /\ pc[c] = "compare"
  /\ IF config.limits = NoLimits THEN panicked' = TRUE /\ UNCHANGED <<pc, ctx, decided>>
     ELSE /\ IF LimitReached(config.limits, ctx[c].portfolio)
             THEN Done(c)
             ELSE Continue(c, "size") /\ UNCHANGED <<ctx, decided>>
          /\ UNCHANGED panicked
  /\ UNCHANGED <<criteria, config, sizer, portfolio>>

\* ShouldTrade is set whatever the size, zero included.
Size(c) ==
  /\ ~panicked /\ pc[c] = "size"
  /\ IF config.buyAmount <= 0 THEN Done(c)
     ELSE /\ Continue(c, "decided")
          /\ UNCHANGED ctx
          /\ decided' = [decided EXCEPT ![c] =
                CalculatePositionSize(sizer, ctx[c].portfolio, ctx[c].token.address,
                                      config.buyAmount)]
  /\ UNCHANGED <<criteria, config, sizer, portfolio, panicked>>

---------------------------------------------------------------------------
(* AssessRisk *)

\* Mutant: a better score adds to the risk.
calculateRiskScore_Adds(l, t, amount) ==
  AtMost(50 + t.score \div 2
         + (IF l = NoLimits \/ l.maxPerTrade = 0 THEN 0 ELSE (amount * 10) \div l.maxPerTrade), 100)

\* Half a point for each point of the token's score, ten for a full-sized trade.
calculateRiskScore(l, t, amount) ==
  LET score == 50 - t.score \div 2
               + IF l = NoLimits \/ l.maxPerTrade = 0 THEN 0 ELSE (amount * 10) \div l.maxPerTrade
  IN  IF score < 0 THEN 0 ELSE AtMost(score, 100)

RiskLevel(score) ==
  CASE score < 30 -> 0 [] score \in 30 .. 59 -> 1 [] score \in 60 .. 79 -> 2 [] OTHER -> 3

---------------------------------------------------------------------------
(* The owner: positions, configuration, criteria *)

Open(c) ==
  /\ ~panicked /\ pc[c] = "decided"
  /\ Len(portfolio) < PortfolioBound
  /\ portfolio' = IF decided[c] = 0 THEN portfolio
                  ELSE Append(portfolio, [token |-> ctx[c].token.address,
                                          amount |-> decided[c], status |-> "open"])
  /\ Done(c)
  /\ UNCHANGED <<criteria, config, sizer, panicked>>

Close(i) ==
  /\ ~panicked /\ portfolio[i].status = "open"
  /\ portfolio' = [portfolio EXCEPT ![i].status = "closed"]
  /\ UNCHANGED <<criteria, config, sizer, pc, ctx, decided, panicked>>

\* Manager.UpdateConfig replaces its configuration and nothing else.
UpdateConfig(new) ==
  /\ ~panicked
  /\ config' = new
  /\ UNCHANGED <<criteria, sizer, portfolio, pc, ctx, decided, panicked>>

\* A nil criteria passes the validation.
UpdateCriteria(new) ==
  /\ ~panicked /\ ValidateConfig(new)
  /\ criteria' = new
  /\ UNCHANGED <<config, sizer, portfolio, pc, ctx, decided, panicked>>

\* The four changes of a list dereference the criteria.
ChangeList(item) ==
  /\ ~panicked
  /\ IF criteria = NoCriteria THEN panicked' = TRUE /\ UNCHANGED criteria
     ELSE /\ criteria' \in {AddToBlacklist(criteria, item), AddToWhitelist(criteria, item),
                            RemoveFromBlacklist(criteria, item),
                            RemoveFromWhitelist(criteria, item)}
          /\ UNCHANGED panicked
  /\ UNCHANGED <<config, sizer, portfolio, pc, ctx, decided>>

EntryNext ==
  \/ \E c \in Callers : \/ \E t \in Candidates : EvaluateEntry(c, t)
                        \/ CheckCriteria(c) \/ CheckNil(c) \/ checkPositionLimits(c)
                        \/ Size(c) \/ Open(c)
  \/ \E i \in DOMAIN portfolio : Close(i)
  \/ \E new \in StrategyConfigs : UpdateConfig(new)
  \/ \E new \in Criteria : UpdateCriteria(new)
  \/ \E item \in Items : ChangeList(item)

EntrySpec == EntryInit /\ [][EntryNext]_entryVars

---------------------------------------------------------------------------
(* Properties *)

\* The limit of a trade, which an amount rounded up to the minimum may exceed.
LargestTrade ==
  LET trade == AtMost(MaxRiskAmount, sizer.maxPerTrade)
  IN  IF trade < MinPositionSize THEN MinPositionSize ELSE trade

\* Contexts are copies of the portfolio, so decisions may be taken of a portfolio
\* that has grown since.  What is open, with what is decided and still to be opened,
\* exceeds the limit the sizer was built with by one trade for every caller
\* but one and by what rounding up to the minimum adds, whatever configuration
\* the manager is given (checkPositionLimits, applyMaxTotalValue, UpdateConfig).
ExposureBounded ==
  OpenValue(portfolio) + SumFunction(decided)
    <= sizer.maxTotalValue + (Cardinality(Callers) - 1) * LargestTrade + MinPositionSize - 1

Requests == {1, MinPositionSize, MaxRiskAmount, 4 * MaxRiskAmount}

\* Every size CalculatePositionSize and CalculateOptimalSize give passes
\* ValidatePositionSize, unless it is zero or was rounded up to the minimum; what
\* CalculatePyramidSize adds to a winning position keeps it, and all of them
\* together, within their limits.
SizesValidate ==
  \A address \in {t.address : t \in Tokens}, amount \in Requests :
    LET sizes == {CalculatePositionSize(sizer, portfolio, address, amount)}
                 \cup {CalculateOptimalSize(sizer, portfolio, address, rate, 3, 2) :
                         rate \in {20, 60, 100}}
        more == CalculatePyramidSize(sizer, portfolio, address, amount, 10)
    IN  /\ \A s \in sizes :
             s > MinPositionSize => ValidatePositionSize(sizer, portfolio, address, s)
        /\ more > 0 => /\ ExistingPosition(portfolio, address) + more <= sizer.maxPerToken
                       /\ OpenValue(portfolio) + more <= sizer.maxTotalValue

\* A token that is known as well and better in every respect is not refused
\* for a reason the other passed, and is no riskier in AssessRisk.
Better(t, u) ==
  /\ t.address = u.address /\ t.symbol = u.symbol /\ t.marketCap = u.marketCap
  /\ t.liquidity >= u.liquidity /\ t.score >= u.score
  /\ u.socials = Unknown \/ (t.socials # Unknown /\ u.socials \subseteq t.socials)
  /\ IF u.holders = <<>> THEN t.holders = <<>>
     ELSE TopHolderPercent(t) <= TopHolderPercent(u)
  /\ u.launch = Unknown => t.launch = Unknown
  /\ u.launch # Unknown /\ t.launch # Unknown => t.launch <= u.launch

BetterIsNeverWorse ==
  \A t, u \in Tokens : Better(t, u) =>
    /\ criteria # NoCriteria => (Evaluate(criteria, u) = "passed"
                                 => Evaluate(criteria, t) = "passed")
    /\ \A amount \in Requests :
         RiskLevel(calculateRiskScore(config.limits, t, amount))
           <= RiskLevel(calculateRiskScore(config.limits, u, amount))

=============================================================================

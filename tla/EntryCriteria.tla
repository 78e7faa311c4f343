--------------------------- MODULE EntryCriteria ---------------------------
(***************************************************************************)
(* internal/strategy/entry_criteria.go: what a token must satisfy before   *)
(* the strategy buys it.  Decimals are integers, names are compared with   *)
(* Fold, which maps a name to its lower case as strings.EqualFold does,    *)
(* and zero means "not configured" or "not known" as it does in the code.  *)
(***************************************************************************)
EXTENDS Integers, Sequences, FiniteSetsExt, Functions

CONSTANTS
  Names,       \* addresses and symbols
  Fold,        \* [Names -> their lower case]
  Unknown,     \* a nil Socials, a zero LaunchTime
  TopHolders,  \* 10 in the code
  NoCriteria   \* a nil *EntryCriteria

EntryCriteriaConfig ==
  [minLiquidity : Nat, maxHolderConcentration : Int, minScore : Int, requireSocials : BOOLEAN,
   maxAge : Nat, minMarketCap : Nat, maxMarketCap : Nat,
   blacklist : SUBSET Names, whitelist : SUBSET Names]

\* holders lists percentages; a launch is the time since it, socials the accounts given.
TokenInfo ==
  [address : Names, symbol : Names, marketCap : Nat, liquidity : Nat, score : Int,
   socials : {Unknown} \cup SUBSET {"twitter", "telegram", "discord", "website"},
   holders : Seq(Nat), launch : {Unknown} \cup Nat]

---------------------------------------------------------------------------
(* The eight checks *)

Named(t, names) == \E n \in names : Fold[n] \in {Fold[t.address], Fold[t.symbol]}

checkBlacklist(c, t) == ~Named(t, c.blacklist)

checkWhitelist(c, t) == c.whitelist = {} \/ Named(t, c.whitelist)

checkMinLiquidity(c, t) ==
  c.minLiquidity = 0 \/ (t.liquidity # 0 /\ t.liquidity >= c.minLiquidity)

TopHolderPercent(t) ==
  SumFunctionOnSet(t.holders, {i \in DOMAIN t.holders : i <= TopHolders})

\* Without holder data the check passes.
checkHolderConcentration(c, t) ==
  \/ c.maxHolderConcentration = 0
  \/ t.holders = <<>>
  \/ TopHolderPercent(t) <= c.maxHolderConcentration

checkMinScore(c, t) == c.minScore = 0 \/ t.score >= c.minScore

checkSocials(c, t) == c.requireSocials => t.socials \notin {Unknown, {}}

\* Without a launch time the check passes.
checkAge(c, t) == c.maxAge = 0 \/ t.launch = Unknown \/ t.launch <= c.maxAge

checkMarketCap(c, t) ==
  \/ c.minMarketCap = 0 /\ c.maxMarketCap = 0
  \/ /\ t.marketCap # 0
     /\ c.minMarketCap # 0 => t.marketCap >= c.minMarketCap
     /\ c.maxMarketCap # 0 => t.marketCap <= c.maxMarketCap

\* The checks in their order, and the reason that one of them fails for.
Checks(c, t) ==
  <<checkBlacklist(c, t), checkWhitelist(c, t), checkMinLiquidity(c, t),
    checkHolderConcentration(c, t), checkMinScore(c, t), checkSocials(c, t),
    checkAge(c, t), checkMarketCap(c, t)>>

Reasons == <<"blacklist", "whitelist", "liquidity", "holder_concentration",
             "score", "socials", "age", "market_cap">>

\* The first check that fails is the reason, and later ones are not made.
Evaluate(c, t) ==
  LET failed == {i \in DOMAIN Reasons : ~Checks(c, t)[i]}
  IN  IF failed = {} THEN "passed" ELSE Reasons[Min(failed)]

---------------------------------------------------------------------------
(* Changes of the criteria *)

\* ValidateConfig and validateCriteriaInternal make the same checks.
ValidateConfig(c) ==
  c # NoCriteria =>
    /\ c.minMarketCap # 0 /\ c.maxMarketCap # 0 => c.minMarketCap <= c.maxMarketCap
    /\ c.maxHolderConcentration \in 0 .. 100
    /\ c.minScore \in 0 .. 100

Holds(list, item) == \E n \in list : Fold[n] = Fold[item]

AddTo(list, item) == IF Holds(list, item) THEN list ELSE list \cup {item}

RemoveFrom(list, item) == {n \in list : Fold[n] # Fold[item]}

AddToBlacklist(c, item) == [c EXCEPT !.blacklist = AddTo(@, item)]
AddToWhitelist(c, item) == [c EXCEPT !.whitelist = AddTo(@, item)]
RemoveFromBlacklist(c, item) == [c EXCEPT !.blacklist = RemoveFrom(@, item)]
RemoveFromWhitelist(c, item) == [c EXCEPT !.whitelist = RemoveFrom(@, item)]

=============================================================================

-------------------------- MODULE MCEntryDecision --------------------------
(* Small values of the constants of EntryDecision. *)
EXTENDS EntryDecision

MCFold == [n \in {"meme", "MEME", "doge"} |-> IF n = "doge" THEN "doge" ELSE "meme"]

Meme == [address |-> "doge", symbol |-> "MEME", marketCap |-> 50, liquidity |-> 10, score |-> 60,
         socials |-> {"twitter"}, holders |-> <<20, 20, 20>>, launch |-> 5]

\* The same token known better or worse, one of another name, and another one.
MCTokens ==
  {Meme, [Meme EXCEPT !.liquidity = 9, !.launch = Unknown, !.holders = <<>>],
   [Meme EXCEPT !.liquidity = 11, !.score = 90, !.holders = <<20, 10, 30>>],
   [Meme EXCEPT !.socials = {"twitter", "website"}, !.launch = 4, !.score = 61],
   [Meme EXCEPT !.symbol = "doge"], [Meme EXCEPT !.score = 10],
   [Meme EXCEPT !.address = "meme", !.symbol = "meme", !.socials = {}, !.marketCap = 0]}

Open0 == [minLiquidity |-> 0, maxHolderConcentration |-> 0, minScore |-> 0,
          requireSocials |-> FALSE, maxAge |-> 0, minMarketCap |-> 0, maxMarketCap |-> 0,
          blacklist |-> {}, whitelist |-> {}]

\* Most things configured, and an invalid range of market caps.
MCCriteria ==
  {NoCriteria,
   [Open0 EXCEPT !.minLiquidity = 10, !.maxHolderConcentration = 40, !.minScore = 60,
                 !.requireSocials = TRUE, !.maxAge = 5, !.minMarketCap = 50,
                 !.blacklist = {"meme"}],
   [Open0 EXCEPT !.minMarketCap = 60, !.maxMarketCap = 50]}

MCDefaultLimits == [maxPositions |-> 0, maxPerToken |-> 6, maxTotalValue |-> 5,
                    maxPerTrade |-> 5, maxPortfolioRisk |-> 0]

MCStrategyConfigs ==
  {[limits |-> NoLimits, buyAmount |-> 4],
   [limits |-> [MCDefaultLimits EXCEPT !.maxPositions = 2, !.maxTotalValue = 7, !.maxPerToken = 0],
    buyAmount |-> 5]}

MCCandidates == {Meme}

CallerSymmetry == Permutations(Callers)

=============================================================================

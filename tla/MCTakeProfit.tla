---------------------------- MODULE MCTakeProfit ----------------------------
(* Small values of the constants of TakeProfit. *)
EXTENDS TakeProfit

Tier(n, percent, portion) ==
  [tier |-> n, percent |-> percent, sellPortion |-> portion, enabled |-> TRUE]

Off(tier) == [tier EXCEPT !.enabled = FALSE]

MCPrices == {90, 150, 300}

\* In order with one tier off, out of order, with a duplicate UpdateConfig accepts
\* and ValidateConfig refuses, and a disabled one nobody validates.
MCConfigs ==
  {[enabled |-> TRUE, tiers |-> <<Tier(1, 50, 50), Off(Tier(2, 100, 30)), Tier(3, 100, 20)>>],
   [enabled |-> TRUE, tiers |-> <<Tier(2, 50, 50), Tier(1, 50, 50)>>],
   [enabled |-> TRUE, tiers |-> <<Tier(1, 0, 0), Tier(1, 200, 100)>>],
   [enabled |-> FALSE, tiers |-> <<Tier(1, 100, 150)>>]}

=============================================================================

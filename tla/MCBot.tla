------------------------------- MODULE MCBot -------------------------------
(***************************************************************************)
(* Bot with one event it can trade on, one without a mint and one without  *)
(* a trader.                                                               *)
(***************************************************************************)
EXTENDS Bot

CONSTANTS token, noMint, noTrader

MCEvents == {token, noMint, noTrader}
MCTradable == {token, noMint}
MCMalformed == {noMint, noTrader}
=============================================================================

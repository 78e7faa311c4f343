------------------------- MODULE MCStrategyManager -------------------------
(***************************************************************************)
(* StrategyManager with a history limit two evaluations can exceed.        *)
(***************************************************************************)
EXTENDS StrategyManager
=============================================================================

---------------------------- MODULE MCPortfolio -----------------------------
(* Small values of the constants of Portfolio are in the configuration.      *)
EXTENDS Portfolio
=============================================================================

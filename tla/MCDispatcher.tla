---------------------------- MODULE MCDispatcher ----------------------------
(***************************************************************************)
(* Dispatcher with one event per case: one the filter lets through and one *)
(* it refuses, two goroutines on every side, and channels of one place.    *)
(***************************************************************************)
EXTENDS Dispatcher
=============================================================================

--------------------------- MODULE MCLogsMonitor ---------------------------
(***************************************************************************)
(* LogsMonitor with channels of one place, so that both fill up, two       *)
(* programs, so that Stop can come between two subscriptions, and one      *)
(* connection lost and one dial failed, so that the loop reconnects.       *)
(***************************************************************************)
EXTENDS LogsMonitor
=============================================================================

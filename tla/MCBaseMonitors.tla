-------------------------- MODULE MCBaseMonitors --------------------------
(* Small values of the constants of BaseMonitors. *)
EXTENDS BaseMonitors

\* Two transactions of one sender, the second outbidding the first.
MCSender == [h \in Hashes |-> IF h = "other" THEN "b" ELSE "a"]
MCPrice == [h \in Hashes |-> IF h = "second" THEN 2 ELSE 1]

=============================================================================

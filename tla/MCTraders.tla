----------------------------- MODULE MCTraders -----------------------------
(* Values of the constants of Traders. *)
EXTENDS Traders

\* In tenths of a gwei, above any cap; the tracker begins with an ordinary one.
MCBaseFees == {10000}

\* One trade above the threshold of the automatic choice, one below, priced differently.
MCSources == [c \in Callers |-> IF c = "large" THEN {"suggested"} ELSE {"builder", "critical"}]
MCSize == [c \in Callers |-> IF c = "large" THEN 100 ELSE 1]

=============================================================================

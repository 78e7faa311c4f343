----------------------------- MODULE MCRpcPool -----------------------------
(* RpcPool as TLC checks it: all its constants are given in the configuration. *)
EXTENDS RpcPool

=============================================================================

----------------------------- MODULE MCSessions -----------------------------
(* One account, its administrators and the replicas handling its requests. *)
EXTENDS Sessions
=============================================================================

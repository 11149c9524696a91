---------------------------- MODULE MCRequestApi -----------------------------
(* Instances of RequestApi for TLC. *)
EXTENDS RequestApi

CONSTANTS k, s, sBad  \* request_ids

(* Every signature is with the key of k. *)
SignsK == [id \in SignId |-> k]
=============================================================================

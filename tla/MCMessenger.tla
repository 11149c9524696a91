----------------------------- MODULE MCMessenger -----------------------------
(* Instances of Messenger for TLC. *)
EXTENDS Messenger, TLC

CONSTANTS s1, s2, p1, p2, p3

(* Everybody reads from the beginning, as the MPC servers do. *)
FromStart == [t \in Subscriber |-> NoId]

(* s2 resumes after the first event. *)
Resuming == [t \in Subscriber |-> IF t = s2 THEN 0 ELSE NoId]
=============================================================================

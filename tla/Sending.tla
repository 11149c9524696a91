------------------------------- MODULE Sending -------------------------------
(***************************************************************************)
(* What a coordinator may rely on when it sends: the abstract life of its  *)
(* outgoing messages, one step per message.  Its actions bear the names of *)
(* the actions of module Coordinator that send; Transport implements it.   *)
(***************************************************************************)
CONSTANT Message

VARIABLES outbox,  \* handed over by the players and signers, not yet settled
          sink,    \* whether another message can be sent
          up,      \* the coordinator runs
          sent     \* what the broker has published

svars == <<outbox, sink, up, sent>>

Init == outbox = {} /\ sink = "ready" /\ up = TRUE /\ sent = {}

enqueue(m) ==
    /\ up /\ m \notin outbox \cup sent
    /\ outbox' = outbox \cup {m}
    /\ UNCHANGED <<sink, up, sent>>

send_one(m) ==
    /\ up /\ sink = "ready" /\ m \in outbox
    /\ outbox' = outbox \ {m}
    /\ sent' = sent \cup {m}
    /\ UNCHANGED <<sink, up>>

(* It cannot be encrypted: the sink is not touched. *)
encrypt_fails(m) ==
    /\ up /\ m \in outbox
    /\ outbox' = outbox \ {m}
    /\ UNCHANGED <<sink, up, sent>>

(* Nobody notices that the broker has not taken it. *)
send_lost(m) ==
    /\ up /\ sink = "ready" /\ m \in outbox
    /\ outbox' = outbox \ {m}
    /\ UNCHANGED <<sink, up, sent>>

(* The sender is told of a failure, and its sink is of no use any more;
   the message may have been published all the same. *)
send_fails(m) ==
    /\ up /\ sink = "ready" /\ m \in outbox
    /\ outbox' = outbox \ {m}
    /\ sink' = "broken"
    /\ sent' \in {sent, sent \cup {m}}
    /\ UNCHANGED up

(* Sending once more ends the coordinator, and what it has not sent is gone. *)
send_panics ==
    /\ up /\ sink = "broken" /\ outbox # {}
    /\ up' = FALSE
    /\ outbox' = {}
    /\ UNCHANGED <<sink, sent>>

(* The stream ends, or a request or an incoming message makes it panic. *)
stops ==
    /\ up
    /\ up' = FALSE
    /\ outbox' = {}
    /\ UNCHANGED <<sink, sent>>

Next ==
    \/ \E m \in Message : \/ enqueue(m) \/ send_one(m) \/ encrypt_fails(m)
                          \/ send_lost(m) \/ send_fails(m)
    \/ send_panics
    \/ stops

Spec == Init /\ [][Next]_svars
=============================================================================

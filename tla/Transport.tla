------------------------------ MODULE Transport ------------------------------
(***************************************************************************)
(* One coordinator's connection to the broker (src/transport, send_one of  *)
(* src/actors/coordinator.rs), step by step: what Coordinator does in one  *)
(* step when it sends takes here an actix future, a critical section, an   *)
(* HTTP request or a Redis PUBLISH, and its answer.                        *)
(*                                                                         *)
(* The actor's event loop polls the mailbox, the spawned futures and the   *)
(* incoming stream only while no critical section is open (ctx.wait); the  *)
(* broker and the other servers run beside it.  What an incoming message   *)
(* does once it is handled is in Coordinator, but for the panic that ends  *)
(* the actor.                                                              *)
(***************************************************************************)
EXTENDS Naturals, Sequences

CONSTANTS Message,     \* CoreMessages the local actors hand over
          GoodText,    \* texts of other servers: signed WireMessages,
          FatalText,   \* some of them for a receiver in a group without us,
          ForgedText,  \* not a WireMessage, or its signature is wrong,
          ErrorText,   \* and frames the stream itself calls an error
          FaultKinds,  \* which faults may happen
          MaxFaults    \* how many faults may happen in all

Text == GoodText \cup ForgedText \cup ErrorText
End == "end of stream"

ASSUME TransportAssumption ==
    /\ Message \cap Text = {} /\ End \notin Message \cup Text
    /\ GoodText \cap ForgedText = {} /\ GoodText \cap ErrorText = {}
    /\ FatalText \subseteq GoodText
    /\ FaultKinds \subseteq {"refuse", "cut", "hang", "end", "encrypt", "request"}
    /\ MaxFaults \in Nat

VARIABLES
    broker,     \* "messenger" or "redis", as configured
    \* the Coordinator actor
    mailbox,    \* Outgoing messages not yet handled
    spawned,    \* encrypted, their send_one futures not yet polled
    wait,       \* send_one futures in the critical section
    sink,       \* Some(sink) with its state, without it ("broken"), or taken
    flight,     \* the request the sink has sent, and its answer
    up,         \* the actor lives
    handled,    \* texts of others it has handled
    panicked,   \* what it panicked on
    \* the broker
    log,        \* messages of this server published, in order
    feed,       \* texts on their way to this server
    \* bookkeeping
    queued,     \* messages handed over
    arrived,    \* texts published by others
    faults,
    happened    \* kinds of the faults so far

loopVars == <<mailbox, spawned, wait, sink, up, panicked>>
vars == <<broker, loopVars, flight, handled, log, feed, queued, arrived,
          faults, happened>>

NoFlight == [answer |-> "idle"]
Answer == {"none", "ok", "status", "cut", "hung"}

Fault(kind) ==
    /\ kind \in FaultKinds /\ faults < MaxFaults
    /\ faults' = faults + 1 /\ happened' = happened \cup {kind}

NoFault == UNCHANGED <<faults, happened>>

-----------------------------------------------------------------------------
(* Joining. *)

(* The messenger, asked without a Last-Event-ID, starts with its history;
   Redis with nothing. *)
messenger_history == {<<t>> : t \in Text} \cup {<< >>}
redis_history == {<< >>}

Init ==
    /\ broker \in {"messenger", "redis"}
    /\ feed \in IF broker = "messenger" THEN messenger_history ELSE redis_history
    /\ arrived = {feed[i] : i \in DOMAIN feed}
    /\ mailbox = {} /\ spawned = {} /\ wait = {} /\ sink = "ready"
    /\ up = TRUE /\ panicked = "no" /\ flight = NoFlight /\ handled = {}
    /\ log = << >> /\ queued = {} /\ faults = 0 /\ happened = {}

-----------------------------------------------------------------------------
(* The event loop. *)

(* The actor stops, or panics: mailbox, futures and stream go with its
   context. *)
Ends(cause) ==
    /\ up' = FALSE /\ panicked' = cause
    /\ mailbox' = {} /\ spawned' = {} /\ wait' = {}
    /\ feed' = << >>

(* do_send of a player or signer, to an actor that lives. *)
enqueue(m) ==
    /\ up /\ m \notin queued
    /\ queued' = queued \cup {m}
    /\ mailbox' = mailbox \cup {m}
    /\ UNCHANGED <<broker, spawned, wait, sink, up, panicked, flight, handled,
                   log, feed, arrived>>
    /\ NoFault

(* Mutant: send_one without its critical_section. *)
may_always_poll == up

(* The loop gets to mailbox, items and stream only between two critical
   sections. *)
may_poll == up /\ wait = {}

(* CoordinatorMessage::Outgoing: spawn send_one. *)
handle_outgoing(m) ==
    /\ may_poll /\ m \in mailbox
    /\ mailbox' = mailbox \ {m}
    /\ spawned' = spawned \cup {m}
    /\ UNCHANGED <<broker, wait, sink, up, panicked, flight, handled, log, feed,
                   queued, arrived>>
    /\ NoFault

(* maybe_encrypt fails: the message is only logged. *)
encrypt_fails(m) ==
    /\ Fault("encrypt")
    /\ may_poll /\ m \in mailbox
    /\ mailbox' = mailbox \ {m}
    /\ UNCHANGED <<broker, spawned, wait, sink, up, panicked, flight, handled,
                   log, feed, queued, arrived>>

(* A spawned future is polled: critical_section puts the rest of it into
   the context's wait list. *)
enter(m) ==
    /\ may_poll /\ m \in spawned
    /\ spawned' = spawned \ {m}
    /\ wait' = wait \cup {m}
    /\ UNCHANGED <<broker, mailbox, sink, up, panicked, flight, handled, log,
                   feed, queued, arrived>>
    /\ NoFault

(* The critical section starts: take the sink out, panic if there is none
   ("Sink to be present") or if it has lost its state; else the request is
   on its way. *)
take_sink(m) ==
    /\ up /\ m \in wait /\ (flight # NoFlight => flight.msg # m)
    /\ CASE sink = "taken" -> Ends("take") /\ UNCHANGED <<sink, flight>>
         [] sink = "broken" -> Ends("send") /\ UNCHANGED <<sink, flight>>
         [] sink = "ready" ->
              /\ sink' = "taken"
              /\ flight' = [msg |-> m, answer |-> "none"]
              /\ UNCHANGED <<mailbox, spawned, wait, feed, up, panicked>>
    /\ UNCHANGED <<broker, handled, log, queued, arrived>>
    /\ NoFault

Answered == flight.answer \in {"ok", "status", "cut"}

(* Mutant: a failed send is tried once more. *)
settle_and_resend ==
    /\ up /\ Answered
    /\ sink' = "ready"
    /\ wait' = wait \ {flight.msg}
    /\ spawned' = IF flight.answer = "cut" THEN spawned \cup {flight.msg} ELSE spawned
    /\ flight' = NoFlight
    /\ UNCHANGED <<broker, mailbox, up, panicked, handled, log, feed, queued,
                   arrived>>
    /\ NoFault

(* Mutant: the sink is as good as before whatever the answer. *)
settle_revived ==
    /\ up /\ Answered
    /\ sink' = "ready"
    /\ wait' = wait \ {flight.msg}
    /\ flight' = NoFlight
    /\ UNCHANGED <<broker, mailbox, spawned, up, panicked, handled, log, feed,
                   queued, arrived>>
    /\ NoFault

(* The answer: an HTTP status is as good as any other, an error ends the
   unfold sink's state.  The sink is put back in both cases. *)
settle ==
    /\ up /\ Answered
    /\ sink' = IF flight.answer = "cut" THEN "broken" ELSE "ready"
    /\ wait' = wait \ {flight.msg}
    /\ flight' = NoFlight
    /\ UNCHANGED <<broker, mailbox, spawned, up, panicked, handled, log, feed,
                   queued, arrived>>
    /\ NoFault

(* A request that does not list this server panics (Coordinator). *)
request_panics ==
    /\ Fault("request")
    /\ may_poll
    /\ Ends("get_i")
    /\ UNCHANGED <<broker, sink, flight, handled, log, queued, arrived>>

-----------------------------------------------------------------------------
(* The broker. *)

Publish(m) ==
    /\ log' = Append(log, m)
    /\ feed' = Append(feed, m)

answer(a) == flight' = [flight EXCEPT !.answer = a]

(* It takes the request and answers OK, or a Redis integer. *)
broadcast ==
    /\ flight.answer = "none"
    /\ Publish(flight.msg)
    /\ answer("ok")
    /\ UNCHANGED <<broker, loopVars, handled, queued, arrived>>
    /\ NoFault

(* An HTTP error status: surf reports no error for it. *)
messenger_refuses ==
    /\ Fault("refuse")
    /\ broker = "messenger"
    /\ flight.answer = "none"
    /\ answer("status")
    /\ UNCHANGED <<broker, loopVars, handled, log, feed, queued, arrived>>

(* A Redis error reply is an error of publish(). *)
redis_refuses ==
    /\ Fault("refuse")
    /\ broker = "redis"
    /\ flight.answer = "none"
    /\ answer("cut")
    /\ UNCHANGED <<broker, loopVars, handled, log, feed, queued, arrived>>

(* The connection breaks, before or after the message was published. *)
connection_breaks ==
    /\ Fault("cut")
    /\ flight.answer = "none"
    /\ Publish(flight.msg) \/ UNCHANGED <<log, feed>>
    /\ answer("cut")
    /\ UNCHANGED <<broker, loopVars, handled, queued, arrived>>

(* The broker never answers, and the client has no timeout. *)
broker_hangs ==
    /\ Fault("hang")
    /\ flight.answer = "none"
    /\ answer("hung")
    /\ UNCHANGED <<broker, loopVars, handled, log, feed, queued, arrived>>

(* What another participant of the channel has published arrives. *)
arrive(t) ==
    /\ up /\ t \notin arrived
    /\ arrived' = arrived \cup {t}
    /\ feed' = Append(feed, t)
    /\ UNCHANGED <<broker, loopVars, flight, handled, log, queued>>
    /\ NoFault

(* The subscription breaks off; what it has delivered can still be read. *)
subscription_ends ==
    /\ Fault("end")
    /\ up /\ End \notin {feed[i] : i \in DOMAIN feed}
    /\ feed' = Append(feed, End)
    /\ UNCHANGED <<broker, loopVars, flight, handled, log, queued, arrived>>

-----------------------------------------------------------------------------
(* The incoming stream. *)

(* Mutant: keeps the server's own messages instead. *)
take_owned(t) == t \notin GoodText \cup ForgedText

(* take_non_owned: everything but the server's own messages. *)
take_non_owned(t) == t \notin Message

(* parse_signed: a stream error is left out, a text that cannot be parsed or
   verified becomes an Err, which StreamHandler ignores. *)
parse_signed(t) ==
    IF t \in ErrorText THEN {} ELSE IF t \in ForgedText THEN {"Err"} ELSE {t}

(* Mutant: an Err from the stream stops the actor. *)
Stops(t) == t = End \/ t \in ForgedText

(* StreamHandler::finished. *)
Finishes(t) == t = End

(* The stream ends, or hands over its next text. *)
read ==
    /\ may_poll /\ feed # << >>
    /\ LET t == Head(feed)
       IN  IF Finishes(t)
           THEN Ends("no") /\ UNCHANGED handled
           ELSE /\ feed' = Tail(feed)
                /\ handled' = handled \cup
                     {w \in parse_signed(t) : w # "Err" /\ take_non_owned(w)}
                /\ UNCHANGED <<mailbox, spawned, wait, up, panicked>>
    /\ UNCHANGED <<broker, sink, flight, log, queued, arrived>>
    /\ NoFault

(* handle_incoming of a text whose group is in the store: get_i panics. *)
read_panics ==
    /\ may_poll /\ feed # << >>
    /\ Head(feed) \in FatalText
    /\ Ends("get_i")
    /\ UNCHANGED <<broker, sink, flight, handled, log, queued, arrived>>
    /\ NoFault

(* handle_retry of one that had to wait for its group: the same. *)
retry_panics ==
    /\ may_poll /\ handled \cap FatalText # {}
    /\ Ends("get_i")
    /\ UNCHANGED <<broker, sink, flight, handled, log, queued, arrived>>
    /\ NoFault

-----------------------------------------------------------------------------
Next ==
    \/ \E m \in Message : \/ enqueue(m) \/ handle_outgoing(m) \/ encrypt_fails(m)
                          \/ enter(m) \/ take_sink(m)
    \/ settle \/ request_panics
    \/ broadcast \/ messenger_refuses \/ redis_refuses
    \/ connection_breaks \/ broker_hangs
    \/ \E t \in Text : arrive(t)
    \/ subscription_ends
    \/ read \/ read_panics \/ retry_panics

Spec == Init /\ [][Next]_vars

(* The executor polls the actor, which works through its mailbox and its
   futures and reads its stream; the broker answers, unless it hangs. *)
Fairness ==
    /\ \A m \in Message : WF_vars(handle_outgoing(m)) /\ WF_vars(enter(m))
    /\ \A m \in Message : WF_vars(take_sink(m))
    /\ WF_vars(settle) /\ WF_vars(read \/ read_panics) /\ WF_vars(broadcast)

FairSpec == Spec /\ Fairness
-----------------------------------------------------------------------------
(* Properties. *)

(* Every variable has its type. *)
TypeOK ==
    /\ broker \in {"messenger", "redis"}
    /\ mailbox \subseteq Message /\ spawned \subseteq Message
    /\ wait \subseteq Message
    /\ sink \in {"ready", "broken", "taken"}
    /\ flight \in {NoFlight} \cup [msg: Message, answer: Answer]
    /\ up \in BOOLEAN /\ panicked \in {"no", "take", "send", "get_i"}
    /\ handled \subseteq GoodText
    /\ log \in Seq(Message) /\ feed \in Seq(Message \cup Text \cup {End})
    /\ queued \subseteq Message /\ arrived \subseteq Text
    /\ faults \in Nat /\ happened \subseteq FaultKinds

(* send_one never finds the sink taken: its expect("Sink to be present")
   holds although the futures of several messages run at a time and each of
   them awaits the network while the sink is out. *)
SinkPresent == panicked # "take"

(* The broker publishes each message at most once, also when its answer is
   lost after publishing (send_one does not send again). *)
PublishedOnce == \A i, j \in DOMAIN log : log[i] = log[j] => i = j

(* The ways to end the actor are these: its subscription ended, a send
   failed, a request did not list it, or a server signed a message for a
   receiver in a group that does not list it.  No text that is not signed, no
   error of the stream, no other message and no interleaving of its sends
   does (parse_signed, StreamHandler, send_one, get_i). *)
StopsForCause ==
    ~up => \/ happened \cap {"cut", "refuse", "end", "request"} # {}
           \/ arrived \cap FatalText # {}

(* Where a message is that is neither published nor lost. *)
outbox == mailbox \cup spawned \cup
    IF Answered THEN wait \ {flight.msg} ELSE wait

(* Whether a next message can be sent, as soon as the answer is known. *)
NextSink ==
    IF sink # "taken" THEN sink
    ELSE IF flight.answer = "cut" THEN "broken" ELSE "ready"

S == INSTANCE Sending WITH sink <- NextSink, sent <- {log[i] : i \in DOMAIN log}

(* Futures, critical section and answers together implement Sending: for the
   rest of the coordinator each message is sent, lost or fails in one step
   (send_one). *)
SendingSpec == S!Spec

(* Every message handed over leaves the server or is given up, and every
   text of the others that arrives is handled, unless the actor has stopped
   or the broker hangs: the sends and the stream do not starve each other. *)
LoopProgress ==
    /\ \A m \in Message : m \in outbox ~> (m \notin outbox \/ ~up \/ "hang" \in happened)
    /\ \A t \in GoodText :
         t \in arrived ~> (t \in handled \/ ~up \/ "hang" \in happened)
=============================================================================

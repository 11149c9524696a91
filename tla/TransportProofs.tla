--------------------------- MODULE TransportProofs ---------------------------
(***************************************************************************)
(* Theorems about Transport: its type invariant, the two promises of       *)
(* send_one, and that it implements Sending, for any messages, texts and   *)
(* faults.                                                                 *)
(***************************************************************************)
EXTENDS Transport, TLAPS

Published == {log[i] : i \in DOMAIN log}

(* The inductive invariant.  At most one future is in the critical section,
   the sink is out exactly while its request is in flight, and a message is
   in one place only: a published one is gone but for its answer. *)
Inv ==
    /\ TypeOK
    /\ sink = "taken" <=> flight # NoFlight
    /\ flight # NoFlight => up /\ wait = {flight.msg}
    /\ \A m1, m2 \in wait : m1 = m2
    /\ panicked # "take"
    /\ mailbox \cap spawned = {} /\ mailbox \cap wait = {} /\ spawned \cap wait = {}
    /\ mailbox \cup spawned \cup wait \cup Published \subseteq queued
    /\ Published \cap (mailbox \cup spawned) = {}
    /\ Published \cap wait # {} => flight.answer \in {"ok", "cut"}
    /\ PublishedOnce

(* What appending to a sequence does to its domain and its elements. *)
LEMMA AppendFacts ==
    ASSUME NEW A, NEW s \in Seq(A), NEW x \in A
    PROVE  /\ Append(s, x) \in Seq(A)
           /\ {Append(s, x)[i] : i \in DOMAIN Append(s, x)}
                = {s[i] : i \in DOMAIN s} \cup {x}
           /\ (\A i, j \in DOMAIN s : s[i] = s[j] => i = j)
                /\ x \notin {s[i] : i \in DOMAIN s}
              => \A i, j \in DOMAIN Append(s, x) :
                   Append(s, x)[i] = Append(s, x)[j] => i = j
<1>1. /\ Append(s, x) \in Seq(A)
      /\ DOMAIN Append(s, x) = 1..(Len(s) + 1)
      /\ DOMAIN s = 1..Len(s)
      /\ Len(s) \in Nat
      /\ \A i \in DOMAIN s : Append(s, x)[i] = s[i]
      /\ Append(s, x)[Len(s) + 1] = x
  OBVIOUS
<1>2. DOMAIN Append(s, x) = DOMAIN s \cup {Len(s) + 1} /\ Len(s) + 1 \notin DOMAIN s
  BY <1>1
<1> DEFINE t == Append(s, x)
<1>3. {t[i] : i \in DOMAIN t} = {s[i] : i \in DOMAIN s} \cup {x}
  <2>1. ASSUME NEW i \in DOMAIN t PROVE t[i] \in {s[j] : j \in DOMAIN s} \cup {x}
    BY <1>1, <1>2
  <2>2. ASSUME NEW i \in DOMAIN s PROVE s[i] \in {t[j] : j \in DOMAIN t}
    BY <1>1, <1>2
  <2>3. x \in {t[j] : j \in DOMAIN t}
    BY <1>1, <1>2
  <2>4. QED
    BY <2>1, <2>2, <2>3
<1>4. ASSUME \A i, j \in DOMAIN s : s[i] = s[j] => i = j,
             x \notin {s[i] : i \in DOMAIN s},
             NEW i \in DOMAIN t, NEW j \in DOMAIN t, t[i] = t[j]
      PROVE  i = j
  BY <1>1, <1>2, <1>4
<1>5. QED
  BY <1>1, <1>3, <1>4

(* The first element of a queue and the rest of it are of its type. *)
LEMMA TailFacts ==
    ASSUME NEW A, NEW s \in Seq(A), s # << >>
    PROVE  Head(s) \in A /\ Tail(s) \in Seq(A)
OBVIOUS

(* The inductive invariant holds at the start. *)
LEMMA InitInv == Init => Inv
<1> SUFFICES ASSUME Init PROVE Inv
  OBVIOUS
<1>1. log = << >> /\ DOMAIN log = {}
  BY DEF Init
<1>2. feed \in Seq(Message \cup Text \cup {End}) /\ arrived \subseteq Text
  <2>1. feed = << >> \/ \E t \in Text : feed = <<t>>
    BY DEF Init, messenger_history, redis_history
  <2>2. CASE feed = << >>
    BY <2>2 DEF Init
  <2>3. CASE \E t \in Text : feed = <<t>>
    <3>1. PICK t \in Text : feed = <<t>>
      BY <2>3
    <3>2. DOMAIN feed = {1} /\ feed[1] = t
      BY <3>1
    <3>3. QED
      BY <3>1, <3>2 DEF Init
  <2>4. QED
    BY <2>1, <2>2, <2>3
<1>3. QED
  BY <1>1, <1>2 DEF Init, Inv, TypeOK, Published, PublishedOnce, NoFlight

-----------------------------------------------------------------------------
(* Every step preserves the invariant. *)

(* The loop's steps before the sink is taken keep it. *)
LEMMA LoopInv ==
    ASSUME Inv, NEW m \in Message,
           enqueue(m) \/ handle_outgoing(m) \/ encrypt_fails(m) \/ enter(m)
    PROVE  Inv'
<1>1. TypeOK'
  BY DEF Inv, TypeOK, enqueue, handle_outgoing, encrypt_fails, enter, Fault, NoFault
<1>2. Published' = Published /\ PublishedOnce' = PublishedOnce
  BY DEF Published, PublishedOnce, enqueue, handle_outgoing, encrypt_fails, enter
<1>3. CASE enqueue(m)
  BY <1>1, <1>2, <1>3 DEF Inv, TypeOK, enqueue
<1>4. CASE handle_outgoing(m)
  BY <1>1, <1>2, <1>4 DEF Inv, TypeOK, handle_outgoing, may_poll
<1>5. CASE encrypt_fails(m)
  BY <1>1, <1>2, <1>5 DEF Inv, TypeOK, encrypt_fails, may_poll
<1>6. CASE enter(m)
  BY <1>1, <1>2, <1>6 DEF Inv, TypeOK, enter, may_poll
<1>7. QED
  BY <1>3, <1>4, <1>5, <1>6

(* The end of the actor keeps it. *)
LEMMA EndsInv ==
    ASSUME Inv, flight = NoFlight, NEW cause \in {"no", "send", "get_i"}, Ends(cause),
           UNCHANGED <<broker, sink, flight, handled, log, queued, arrived>>,
           faults' \in Nat, happened' \subseteq FaultKinds
    PROVE  Inv'
<1>1. /\ up' = FALSE /\ panicked' = cause /\ feed' = << >>
      /\ mailbox' = {} /\ spawned' = {} /\ wait' = {}
  BY DEF Ends
<1>2. Published' = Published /\ PublishedOnce' = PublishedOnce
  BY DEF Published, PublishedOnce
<1>3. feed' \in Seq(Message \cup Text \cup {End})
  BY <1>1
<1>4. panicked' \in {"no", "take", "send", "get_i"} /\ panicked' # "take"
  BY <1>1
<1>5. TypeOK'
  <2>1. TypeOK
    BY DEF Inv
  <2>2. up' \in BOOLEAN /\ mailbox' \subseteq Message /\ spawned' \subseteq Message
        /\ wait' \subseteq Message
    BY <1>1
  <2>3. QED
    BY <1>3, <1>4, <2>1, <2>2 DEF TypeOK
<1>6. QED
  BY <1>1, <1>2, <1>4, <1>5 DEF Inv

(* Taking the sink keeps it. *)
LEMMA TakeSinkInv ==
    ASSUME Inv, NEW m \in Message, take_sink(m)
    PROVE  Inv'
<1>1. sink \in {"ready", "broken", "taken"} /\ sink # "taken" /\ flight = NoFlight
  BY DEF Inv, TypeOK, take_sink
<1>2. wait = {m}
  BY DEF Inv, TypeOK, take_sink
<1>3. Published' = Published /\ PublishedOnce' = PublishedOnce
  BY DEF Published, PublishedOnce, take_sink
<1>4. m \notin Published
  BY <1>1, <1>2 DEF Inv, NoFlight
<1>5. UNCHANGED <<broker, handled, log, queued, arrived, faults, happened>>
  BY DEF take_sink, NoFault
<1>6. CASE sink = "broken"
  <2>1. Ends("send") /\ UNCHANGED <<sink, flight>>
    BY <1>6 DEF take_sink
  <2>2. faults' \in Nat /\ happened' \subseteq FaultKinds
    BY <1>5 DEF Inv, TypeOK
  <2>3. QED
    BY <1>1, <1>5, <2>1, <2>2, EndsInv
<1>7. CASE sink = "ready"
  <2>1. /\ sink' = "taken" /\ flight' = [msg |-> m, answer |-> "none"]
        /\ UNCHANGED <<mailbox, spawned, wait, feed, up, panicked>> /\ up
    BY <1>7 DEF take_sink
  <2>2. flight' # NoFlight /\ flight' \in [msg: Message, answer: Answer]
        /\ flight'.msg = m
    BY <2>1 DEF NoFlight, Answer
  <2>3. TypeOK'
    BY <1>5, <2>1, <2>2 DEF Inv, TypeOK
  <2>4. QED
    BY <1>1, <1>2, <1>3, <1>4, <1>5, <2>1, <2>2, <2>3 DEF Inv
<1>8. QED
  BY <1>1, <1>6, <1>7

(* A request in flight. *)
LEMMA FlightFacts ==
    ASSUME Inv, flight.answer # "idle"
    PROVE  /\ flight # NoFlight /\ flight \in [msg: Message, answer: Answer]
           /\ up /\ wait = {flight.msg} /\ sink = "taken"
BY DEF Inv, TypeOK, NoFlight

(* Putting the sink back keeps it. *)
LEMMA SettleInv ==
    ASSUME Inv, settle
    PROVE  Inv'
<1>1. /\ flight # NoFlight /\ flight \in [msg: Message, answer: Answer]
      /\ up /\ wait = {flight.msg} /\ sink = "taken"
  BY FlightFacts DEF settle, Answered
<1>2. Published' = Published /\ PublishedOnce' = PublishedOnce
  BY DEF Published, PublishedOnce, settle
<1>3. wait' = {} /\ flight' = NoFlight /\ sink' \in {"ready", "broken"}
  BY <1>1 DEF settle
<1>4. QED
  BY <1>1, <1>2, <1>3 DEF Inv, TypeOK, settle, NoFault, NoFlight

BrokerStep == broadcast \/ messenger_refuses \/ redis_refuses
                \/ connection_breaks \/ broker_hangs

(* What the broker does to a request: it publishes the message or not, and
   answers or not. *)
LEMMA BrokerFacts ==
    ASSUME Inv, BrokerStep
    PROVE  /\ flight.answer = "none"
           /\ flight \in [msg: Message, answer: Answer]
           /\ flight' \in [msg: Message, answer: Answer] /\ flight' # NoFlight
           /\ flight'.msg = flight.msg
           /\ up /\ wait = {flight.msg} /\ sink = "taken"
           /\ flight.msg \notin Published
           /\ UNCHANGED <<broker, loopVars, handled, queued, arrived>>
           /\ faults' \in Nat /\ happened' \subseteq FaultKinds
           /\ \/ UNCHANGED <<log, feed>>
              \/ Publish(flight.msg) /\ flight'.answer \in {"ok", "cut"}
<1>1. flight.answer = "none"
  BY DEF BrokerStep, broadcast, messenger_refuses, redis_refuses,
         connection_breaks, broker_hangs
<1>2. /\ flight \in [msg: Message, answer: Answer]
      /\ up /\ wait = {flight.msg} /\ sink = "taken"
  BY <1>1, FlightFacts
<1>3. flight.msg \notin Published
  BY <1>1, <1>2 DEF Inv
<1>4. \E a \in {"ok", "status", "cut", "hung"} : answer(a)
  BY DEF BrokerStep, broadcast, messenger_refuses, redis_refuses,
         connection_breaks, broker_hangs
<1>5. /\ flight' \in [msg: Message, answer: Answer] /\ flight' # NoFlight
      /\ flight'.msg = flight.msg
  BY <1>2, <1>4 DEF answer, Answer, NoFlight
<1>6. \/ UNCHANGED <<log, feed>>
      \/ Publish(flight.msg) /\ flight'.answer \in {"ok", "cut"}
  BY <1>2 DEF BrokerStep, broadcast, messenger_refuses, redis_refuses,
              connection_breaks, broker_hangs, answer
<1>7. /\ UNCHANGED <<broker, loopVars, handled, queued, arrived>>
      /\ faults' \in Nat /\ happened' \subseteq FaultKinds
  BY DEF BrokerStep, broadcast, messenger_refuses, redis_refuses,
         connection_breaks, broker_hangs, Fault, NoFault, Inv, TypeOK
<1>8. QED
  BY <1>1, <1>2, <1>3, <1>5, <1>6, <1>7

(* The broker's answers keep it. *)
LEMMA BrokerInv ==
    ASSUME Inv, BrokerStep
    PROVE  Inv'
<1> DEFINE m == flight.msg
<1>1. m \in Message /\ m \in wait /\ m \in queued
  BY BrokerFacts DEF Inv
<1>2. CASE UNCHANGED <<log, feed>>
  <2>1. Published' = Published /\ PublishedOnce' = PublishedOnce
    BY <1>2 DEF Published, PublishedOnce
  <2>2. TypeOK'
    BY <1>2, BrokerFacts DEF Inv, TypeOK, loopVars
  <2>3. QED
    BY <1>2, <2>1, <2>2, BrokerFacts DEF Inv, loopVars
<1>3. CASE Publish(m) /\ flight'.answer \in {"ok", "cut"}
  <2>1. /\ log' \in Seq(Message) /\ Published' = Published \cup {m}
        /\ PublishedOnce'
    <3>1. log \in Seq(Message) /\ PublishedOnce /\ m \notin Published
      BY BrokerFacts DEF Inv, TypeOK
    <3>2. log' = Append(log, m)
      BY <1>3 DEF Publish
    <3>3. QED
      BY <1>1, <3>1, <3>2, AppendFacts DEF Published, PublishedOnce
  <2>2. feed' \in Seq(Message \cup Text \cup {End})
    <3>1. feed \in Seq(Message \cup Text \cup {End})
      BY DEF Inv, TypeOK
    <3>2. feed' = Append(feed, m)
      BY <1>3 DEF Publish
    <3>3. QED
      BY <1>1, <3>1, <3>2
  <2>3. TypeOK'
    BY <2>1, <2>2, BrokerFacts DEF Inv, TypeOK, loopVars
  <2>4. QED
    BY <1>1, <1>3, <2>1, <2>3, BrokerFacts DEF Inv, loopVars
<1>4. QED
  BY <1>2, <1>3, BrokerFacts

(* The actor panics over a request or a message. *)
LEMMA PanicFacts ==
    ASSUME Inv, request_panics \/ read_panics \/ retry_panics
    PROVE  /\ up /\ flight = NoFlight /\ Ends("get_i")
           /\ UNCHANGED <<broker, sink, flight, handled, log, queued, arrived>>
           /\ faults' \in Nat /\ happened' \subseteq FaultKinds
<1>1. may_poll /\ Ends("get_i")
      /\ UNCHANGED <<broker, sink, flight, handled, log, queued, arrived>>
  BY DEF request_panics, read_panics, retry_panics
<1>2. flight = NoFlight /\ up
  BY <1>1 DEF may_poll, Inv
<1>3. faults' \in Nat /\ happened' \subseteq FaultKinds
  BY DEF request_panics, read_panics, retry_panics, Fault, NoFault, Inv, TypeOK
<1>4. QED
  BY <1>1, <1>2, <1>3

(* The incoming stream keeps it. *)
LEMMA StreamInv ==
    ASSUME Inv, (\E t \in Text : arrive(t)) \/ subscription_ends \/ read
    PROVE  Inv'
<1>1. Published' = Published /\ PublishedOnce' = PublishedOnce
  BY DEF Published, PublishedOnce, arrive, subscription_ends, read
<1>2. feed \in Seq(Message \cup Text \cup {End})
  BY DEF Inv, TypeOK
<1>3. CASE \E t \in Text : arrive(t)
  <2>1. PICK t \in Text : arrive(t)
    BY <1>3
  <2>2. feed' \in Seq(Message \cup Text \cup {End})
    BY <1>2, <2>1 DEF arrive
  <2>3. TypeOK'
    BY <2>1, <2>2 DEF Inv, TypeOK, arrive, loopVars, NoFault
  <2>4. QED
    BY <1>1, <2>1, <2>3 DEF Inv, arrive, loopVars
<1>4. CASE subscription_ends
  <2>1. feed' \in Seq(Message \cup Text \cup {End})
    BY <1>2, <1>4 DEF subscription_ends
  <2>2. TypeOK'
    BY <1>4, <2>1 DEF Inv, TypeOK, subscription_ends, loopVars, Fault
  <2>3. QED
    BY <1>1, <1>4, <2>2 DEF Inv, subscription_ends, loopVars
<1>5. CASE read
  <2>1. wait = {} /\ flight = NoFlight /\ up
    BY <1>5 DEF read, may_poll, Inv
  <2>7. CASE Finishes(Head(feed))
    <3>1. /\ Ends("no") /\ faults' \in Nat /\ happened' \subseteq FaultKinds
          /\ UNCHANGED <<broker, sink, flight, handled, log, queued, arrived>>
      BY <1>5, <2>7 DEF read, NoFault, Inv, TypeOK
    <3>2. QED
      BY <2>1, <3>1, EndsInv
  <2> SUFFICES ASSUME ~Finishes(Head(feed)) PROVE Inv'
    BY <2>7
  <2>8. UNCHANGED <<mailbox, spawned, wait, up, panicked>> /\ feed' = Tail(feed)
    BY <1>5 DEF read
  <2>2. feed # << >> /\ Head(feed) \in Message \cup Text \cup {End}
        /\ Tail(feed) \in Seq(Message \cup Text \cup {End})
    BY <1>2, <1>5, TailFacts DEF read
  <2>3. feed' \in Seq(Message \cup Text \cup {End})
    BY <2>2, <2>8
  <2>4. handled' \subseteq GoodText
    <3>1. ASSUME NEW t \in Message \cup Text, NEW w \in parse_signed(t),
                 w # "Err", take_non_owned(w)
          PROVE  w \in GoodText
      BY <3>1 DEF parse_signed, take_non_owned, Text
    <3>2. Head(feed) \in Message \cup Text
      BY <2>2 DEF Finishes
    <3>3. handled' = handled \cup {w \in parse_signed(Head(feed)) :
                                    w # "Err" /\ take_non_owned(w)}
      BY <1>5 DEF read
    <3>4. QED
      BY <3>1, <3>2, <3>3 DEF Inv, TypeOK
  <2>9. UNCHANGED <<broker, sink, flight, log, queued, arrived, faults, happened>>
    BY <1>5 DEF read, NoFault
  <2>5. TypeOK'
    BY <2>3, <2>4, <2>8, <2>9 DEF Inv, TypeOK
  <2>6. QED
    BY <1>1, <2>1, <2>5, <2>8, <2>9 DEF Inv
<1>6. QED
  BY <1>3, <1>4, <1>5

(* A stutter keeps it. *)
LEMMA StutterInv == Inv /\ UNCHANGED vars => Inv'
BY DEF Inv, TypeOK, Published, PublishedOnce, vars, loopVars

(* Every step keeps it. *)
LEMMA NextInv == Inv /\ [Next]_vars => Inv'
<1> SUFFICES ASSUME Inv, [Next]_vars PROVE Inv'
  OBVIOUS
<1>1. CASE request_panics \/ read_panics \/ retry_panics
  BY <1>1, PanicFacts, EndsInv
<1>2. QED
  BY <1>1, LoopInv, TakeSinkInv, SettleInv, BrokerInv, StreamInv, StutterInv
     DEF Next, BrokerStep

(* It is an invariant. *)
LEMMA InvHolds == Spec => []Inv
BY InitInv, NextInv, PTL DEF Spec

(* Every variable has its type, whatever the messages, texts and faults. *)
THEOREM TypeCorrect == Spec => []TypeOK
<1>1. Inv => TypeOK
  BY DEF Inv
<1>2. QED
  BY <1>1, InvHolds, PTL

(* However many futures of send_one there are, none of them finds the sink
   taken by another. *)
THEOREM SinkPresentHolds == Spec => []SinkPresent
<1>1. Inv => SinkPresent
  BY DEF Inv, SinkPresent
<1>2. QED
  BY <1>1, InvHolds, PTL

(* No message is published twice, whatever fails. *)
THEOREM PublishedOnceHolds == Spec => []PublishedOnce
<1>1. Inv => PublishedOnce
  BY DEF Inv
<1>2. QED
  BY <1>1, InvHolds, PTL

-----------------------------------------------------------------------------
(* Why an actor stops.  A fault is remembered, so whatever follows from one,
   a sink without its state or the end of a stream, still shows its cause;
   and no text is read or handled that did not arrive. *)

Queue == {feed[i] : i \in DOMAIN feed}

StopCause ==
    /\ StopsForCause
    /\ Queue \cap Text \subseteq arrived /\ handled \subseteq arrived
    /\ sink = "broken" \/ flight.answer = "cut" => happened \cap {"cut", "refuse"} # {}
    /\ End \in Queue => "end" \in happened

(* Taking the first element of a sequence adds none. *)
LEMMA TailElements ==
    ASSUME NEW A, NEW s \in Seq(A), s # << >>
    PROVE  /\ {Tail(s)[i] : i \in DOMAIN Tail(s)} \subseteq {s[i] : i \in DOMAIN s}
           /\ Head(s) \in {s[i] : i \in DOMAIN s}
<1>1. /\ DOMAIN s = 1..Len(s) /\ Len(s) \in Nat \ {0}
      /\ DOMAIN Tail(s) = 1..(Len(s) - 1)
      /\ \A i \in 1..(Len(s) - 1) : Tail(s)[i] = s[i + 1]
      /\ Head(s) = s[1]
  OBVIOUS
<1>2. ASSUME NEW i \in DOMAIN Tail(s) PROVE Tail(s)[i] \in {s[j] : j \in DOMAIN s}
  <2>1. i + 1 \in DOMAIN s /\ Tail(s)[i] = s[i + 1]
    BY <1>1
  <2>2. QED
    BY <2>1
<1>3. QED
  BY <1>1, <1>2

(* What is on its way came from a server, or is the end a fault brought. *)
LEMMA QueueStep ==
    ASSUME Inv, StopCause, Next
    PROVE  /\ happened \subseteq happened' /\ arrived \subseteq arrived'
           /\ End \in Queue' => "end" \in happened'
           /\ Queue' \cap Text \subseteq arrived'
<1>0. feed \in Seq(Message \cup Text \cup {End})
  BY DEF Inv, TypeOK
<1>1. happened \subseteq happened' /\ arrived \subseteq arrived'
  <2>1. CASE BrokerStep
    BY <2>1, BrokerFacts DEF BrokerStep, broadcast, messenger_refuses, redis_refuses,
             connection_breaks, broker_hangs, Fault, NoFault
  <2>2. CASE ~BrokerStep
    BY <2>2 DEF Next, BrokerStep, enqueue, handle_outgoing, encrypt_fails, enter,
                take_sink, settle, arrive, subscription_ends, read, request_panics,
                read_panics, retry_panics, Fault, NoFault
  <2>3. QED
    BY <2>1, <2>2
<1>2. CASE feed' = feed
  BY <1>1, <1>2 DEF StopCause, Queue
<1>3. CASE \E m \in Message : feed' = Append(feed, m)
  <2>1. PICK m \in Message : feed' = Append(feed, m)
    BY <1>3
  <2>2. Queue' = Queue \cup {m} /\ m # End /\ m \notin Text
    BY <1>0, <2>1, AppendFacts, TransportAssumption DEF Queue
  <2>3. QED
    BY <1>1, <2>2 DEF StopCause
<1>4. CASE subscription_ends
  <2>1. Queue' = Queue \cup {End} /\ End \notin Text /\ "end" \in happened'
    BY <1>0, <1>4, AppendFacts, TransportAssumption DEF Queue, subscription_ends, Fault
  <2>2. QED
    BY <1>1, <2>1 DEF StopCause
<1>5. CASE feed # << >> /\ feed' = Tail(feed)
  <2>1. Queue' \subseteq Queue
    BY <1>0, <1>5, TailElements DEF Queue
  <2>2. QED
    BY <1>1, <2>1 DEF StopCause
<1>6. CASE \E t \in Text : arrive(t)
  <2>1. PICK t \in Text : arrive(t)
    BY <1>6
  <2>2. Queue' = Queue \cup {t} /\ t # End /\ arrived' = arrived \cup {t}
    BY <1>0, <2>1, AppendFacts, TransportAssumption DEF Queue, arrive
  <2>3. QED
    BY <1>1, <2>2 DEF StopCause
<1>7. CASE feed' = << >>
  <2>1. Queue' = {}
    BY <1>7 DEF Queue
  <2>2. QED
    BY <1>1, <2>1
<1>8. \/ feed' = feed
      \/ \E m \in Message : feed' = Append(feed, m)
      \/ subscription_ends \/ \E t \in Text : arrive(t)
      \/ feed # << >> /\ feed' = Tail(feed)
      \/ feed' = << >>
  <2>1. CASE BrokerStep
    BY <2>1, BrokerFacts DEF Publish
  <2>2. CASE \E m \in Message : take_sink(m)
    <3>1. PICK m \in Message : take_sink(m)
      BY <2>2
    <3>2. sink \in {"ready", "broken", "taken"}
      BY DEF Inv, TypeOK
    <3>3. QED
      BY <3>1, <3>2 DEF take_sink, Ends
  <2>3. CASE request_panics \/ read_panics \/ retry_panics
    BY <2>3, PanicFacts DEF Ends
  <2>4. CASE read
    BY <2>4 DEF read, Ends
  <2>5. CASE settle \/ \E m \in Message : \/ enqueue(m) \/ handle_outgoing(m)
                                          \/ encrypt_fails(m) \/ enter(m)
    BY <2>5 DEF enqueue, handle_outgoing, encrypt_fails, enter, settle
  <2>6. QED
    BY <2>1, <2>2, <2>3, <2>4, <2>5 DEF Next, BrokerStep
<1>9. QED
  BY <1>2, <1>3, <1>4, <1>5, <1>6, <1>7, <1>8

(* Only texts that arrived are handled. *)
LEMMA HandledStep ==
    ASSUME Inv, StopCause, Next
    PROVE  handled' \subseteq arrived'
<1>1. handled \subseteq arrived'
  BY QueueStep DEF StopCause
<1>2. CASE read
  <2>1. feed \in Seq(Message \cup Text \cup {End}) /\ feed # << >>
    BY <1>2 DEF Inv, TypeOK, read
  <2>2. Head(feed) \in Queue
    BY <2>1, TailElements DEF Queue
  <2>3. Head(feed) \in Message \cup Text \cup {End}
    BY <2>1, TailFacts
  <2>4. CASE Finishes(Head(feed))
    BY <1>1, <1>2, <2>4 DEF read
  <2>5. CASE ~Finishes(Head(feed))
    <3>1. handled' = handled \cup {w \in parse_signed(Head(feed)) :
                                    w # "Err" /\ take_non_owned(w)}
      BY <1>2, <2>5 DEF read
    <3>2. \A w \in parse_signed(Head(feed)) : w # "Err" => w = Head(feed)
      BY DEF parse_signed
    <3>3. ASSUME take_non_owned(Head(feed)) PROVE Head(feed) \in arrived
      BY <2>2, <2>3, <2>5, <3>3 DEF take_non_owned, Finishes, StopCause
    <3>4. arrived' = arrived
      BY <1>2 DEF read
    <3>5. QED
      BY <1>1, <3>1, <3>2, <3>3, <3>4
  <2>6. QED
    BY <2>4, <2>5
<1>3. CASE ~read
  <2>1. CASE BrokerStep
    BY <1>1, <2>1, BrokerFacts
  <2>2. CASE ~BrokerStep
    <3>1. handled' = handled
      BY <1>3, <2>2 DEF Next, BrokerStep, enqueue, handle_outgoing, encrypt_fails,
               enter, take_sink, settle, arrive, subscription_ends, request_panics,
               read_panics, retry_panics
    <3>2. QED
      BY <1>1, <3>1
  <2>3. QED
    BY <2>1, <2>2
<1>4. QED
  BY <1>2, <1>3

(* The sink loses its state only with a failed send. *)
LEMMA SinkStep ==
    ASSUME Inv, StopCause, Next
    PROVE  sink' = "broken" \/ flight'.answer = "cut"
             => happened' \cap {"cut", "refuse"} # {}
<1>1. happened \subseteq happened'
  BY QueueStep
<1>2. CASE \E m \in Message : take_sink(m)
  <2>1. PICK m \in Message : take_sink(m)
    BY <1>2
  <2>2. (sink \in {"ready", "broken", "taken"} /\ flight = NoFlight) \/ sink = "taken"
    BY DEF Inv, TypeOK
  <2>3. CASE sink = "ready"
    <3>1. sink' = "taken" /\ flight'.answer = "none"
      BY <2>1, <2>3 DEF take_sink
    <3>2. QED
      BY <3>1
  <2>4. CASE sink # "ready"
    <3>1. UNCHANGED <<sink, flight>>
      BY <2>1, <2>2, <2>4 DEF take_sink
    <3>2. QED
      BY <1>1, <3>1 DEF StopCause
  <2>5. QED
    BY <2>3, <2>4
<1>3. CASE settle
  <2>1. flight'.answer = "idle"
    BY <1>3 DEF settle, NoFlight
  <2>2. sink' = "broken" => flight.answer = "cut"
    BY <1>3 DEF settle
  <2>3. QED
    BY <1>1, <2>1, <2>2 DEF StopCause
<1>4. CASE BrokerStep
  <2>1. /\ flight \in [msg: Message, answer: Answer] /\ flight.answer = "none"
        /\ sink' = "taken"
    BY <1>4, BrokerFacts DEF loopVars
  <2>2. flight'.answer = "cut" => happened' \cap {"cut", "refuse"} # {}
    BY <1>4, <2>1 DEF BrokerStep, broadcast, messenger_refuses, redis_refuses,
                      connection_breaks, broker_hangs, answer, Fault
  <2>3. QED
    BY <2>1, <2>2
<1>5. CASE UNCHANGED <<sink, flight>>
  BY <1>1, <1>5 DEF StopCause
<1>6. ASSUME ~settle, ~BrokerStep, ~\E m \in Message : take_sink(m)
      PROVE  UNCHANGED <<sink, flight>>
  BY <1>6 DEF Next, BrokerStep, enqueue, handle_outgoing, encrypt_fails, enter, arrive,
              subscription_ends, read, request_panics, read_panics, retry_panics, loopVars
<1>7. QED
  BY <1>2, <1>3, <1>4, <1>5, <1>6

(* A step that ends the actor has its cause. *)
LEMMA EndStep ==
    ASSUME Inv, StopCause, Next, up, ~up'
    PROVE  \/ happened' \cap {"cut", "refuse", "end", "request"} # {}
           \/ arrived' \cap FatalText # {}
<1>1. happened \subseteq happened' /\ arrived \subseteq arrived'
  BY QueueStep
<1>2. CASE \E m \in Message : take_sink(m)
  <2>1. PICK m \in Message : take_sink(m)
    BY <1>2
  <2>2. sink = "broken"
    BY <2>1 DEF Inv, TypeOK, take_sink
  <2>3. QED
    BY <1>1, <2>2 DEF StopCause
<1>3. CASE request_panics
  BY <1>3 DEF request_panics, Fault
<1>4. CASE read
  <2>1. Finishes(Head(feed))
    BY <1>4 DEF read
  <2>2. feed \in Seq(Message \cup Text \cup {End}) /\ feed # << >>
    BY <1>4 DEF Inv, TypeOK, read
  <2>3. End \in Queue
    BY <2>1, <2>2, TailElements DEF Finishes, Queue
  <2>4. QED
    BY <1>1, <2>3 DEF StopCause
<1>5. CASE read_panics
  <2>1. feed \in Seq(Message \cup Text \cup {End}) /\ feed # << >>
        /\ Head(feed) \in FatalText
    BY <1>5 DEF Inv, TypeOK, read_panics
  <2>2. Head(feed) \in Queue \cap Text
    BY <2>1, TailElements, TransportAssumption DEF Queue, Text
  <2>3. QED
    BY <1>1, <2>1, <2>2 DEF StopCause
<1>6. CASE retry_panics
  BY <1>1, <1>6 DEF retry_panics, StopCause
<1>7. ASSUME ~request_panics, ~read, ~read_panics, ~retry_panics,
             ~\E m \in Message : take_sink(m)
      PROVE  up' = up
  <2>1. CASE BrokerStep
    BY <2>1, BrokerFacts DEF loopVars
  <2>2. CASE ~BrokerStep
    BY <1>7, <2>2 DEF Next, BrokerStep, enqueue, handle_outgoing, encrypt_fails, enter,
                      arrive, subscription_ends, settle, loopVars
  <2>3. QED
    BY <2>1, <2>2
<1>8. QED
  BY <1>2, <1>3, <1>4, <1>5, <1>6, <1>7

(* Every step keeps StopCause. *)
LEMMA StopCauseStep ==
    ASSUME Inv, StopCause, [Next]_vars
    PROVE  StopCause'
<1>1. CASE UNCHANGED vars
  BY <1>1 DEF StopCause, StopsForCause, Queue, vars, loopVars
<1>2. CASE Next
  <2>1. StopsForCause'
    <3>1. happened \subseteq happened' /\ arrived \subseteq arrived'
      BY <1>2, QueueStep
    <3>2. CASE up
      BY <1>2, <3>2, EndStep DEF StopsForCause
    <3>3. CASE ~up
      BY <3>1, <3>3 DEF StopCause, StopsForCause
    <3>4. QED
      BY <3>2, <3>3
  <2>2. QED
    BY <1>2, <2>1, QueueStep, HandledStep, SinkStep DEF StopCause
<1>3. QED
  BY <1>1, <1>2

(* Nothing ends the actor but the end of its subscription, a failed send, a
   request that does not list it, and a signed message for a receiver in a
   group without it: no unsigned text, no stream error, no other message and
   no order of its own sends. *)
THEOREM StopsForCauseHolds == Spec => []StopsForCause
<1>1. Init => StopCause
  <2> SUFFICES ASSUME Init PROVE StopCause
    OBVIOUS
  <2>1. feed = << >> \/ \E t \in Text : feed = <<t>>
    BY DEF Init, messenger_history, redis_history
  <2>2. End \notin Queue
    BY <2>1, TransportAssumption DEF Queue
  <2>3. arrived = Queue
    BY DEF Init, Queue
  <2>4. QED
    BY <2>2, <2>3 DEF Init, StopCause, StopsForCause, NoFlight
<1>2. Inv /\ StopCause /\ [Next]_vars => StopCause'
  BY StopCauseStep
<1>3. StopCause => StopsForCause
  BY DEF StopCause
<1>4. QED
  BY <1>1, <1>2, <1>3, InvHolds, PTL DEF Spec

-----------------------------------------------------------------------------
(* The refinement. *)

(* Outside of a request the sink and the messages are what they seem. *)
LEMMA IdleFacts ==
    ASSUME Inv, flight = NoFlight
    PROVE  outbox = mailbox \cup spawned \cup wait /\ NextSink = sink
BY DEF Inv, outbox, Answered, NextSink, NoFlight

(* A message handed over is one in Sending. *)
LEMMA EnqueueRefines ==
    ASSUME Inv, NEW m \in Message, enqueue(m)
    PROVE  S!enqueue(m)
<1>1. Published' = Published /\ NextSink' = NextSink
  BY DEF enqueue, Published, NextSink
<1>2. outbox' = outbox \cup {m}
  BY DEF enqueue, outbox, Answered
<1>3. m \notin outbox \cup Published
  BY DEF Inv, enqueue, outbox
<1>4. QED
  BY <1>1, <1>2, <1>3 DEF S!enqueue, enqueue, Published

(* Handling, spawning and entering are stutters of Sending, or a failed encryption. *)
LEMMA PollRefines ==
    ASSUME Inv, NEW m \in Message, handle_outgoing(m) \/ encrypt_fails(m) \/ enter(m)
    PROVE  S!encrypt_fails(m) \/ UNCHANGED S!svars
<1>1. flight = NoFlight /\ wait = {} /\ up /\ UNCHANGED <<flight, sink, up, log>>
  BY DEF Inv, handle_outgoing, encrypt_fails, enter, may_poll
<1>2. outbox = mailbox \cup spawned /\ outbox' = (mailbox \cup spawned \cup wait)'
  BY <1>1 DEF outbox, Answered, NoFlight
<1>3. UNCHANGED <<NextSink, up, Published>>
  BY <1>1 DEF NextSink, Published
<1>4. CASE handle_outgoing(m) \/ enter(m)
  <2>1. outbox' = outbox
    BY <1>1, <1>2, <1>4 DEF handle_outgoing, enter
  <2>2. QED
    BY <1>3, <2>1 DEF S!svars, Published
<1>5. CASE encrypt_fails(m)
  <2>1. m \in outbox /\ outbox' = outbox \ {m}
    BY <1>1, <1>2, <1>5 DEF encrypt_fails, Inv
  <2>2. QED
    BY <1>1, <1>3, <2>1 DEF S!encrypt_fails, Published
<1>6. QED
  BY <1>4, <1>5

(* The end of the actor is one of Sending. *)
LEMMA EndsRefines ==
    ASSUME Inv, flight = NoFlight, up, NEW cause, Ends(cause),
           UNCHANGED <<sink, flight, log>>
    PROVE  S!stops
<1>1. outbox' = {}
  BY DEF Ends, outbox
<1>2. up' = FALSE /\ NextSink' = NextSink
  BY DEF Ends, NextSink
<1>3. QED
  BY <1>1, <1>2 DEF S!stops

(* Taking the sink is a stutter of Sending, or its panic. *)
LEMMA TakeSinkRefines ==
    ASSUME Inv, NEW m \in Message, take_sink(m)
    PROVE  S!send_panics \/ UNCHANGED S!svars
<1>1. sink \in {"ready", "broken"} /\ flight = NoFlight /\ up /\ m \in wait
  BY DEF Inv, TypeOK, take_sink
<1>2. Published' = Published
  BY DEF take_sink, Published
<1>3. CASE sink = "broken"
  <2>1. Ends("send") /\ UNCHANGED <<sink, flight>>
    BY <1>3 DEF take_sink
  <2>2. outbox # {} /\ NextSink = "broken"
    BY <1>1, <1>3, IdleFacts
  <2>3. outbox' = {} /\ NextSink' = NextSink /\ up' = FALSE
    BY <2>1 DEF outbox, NextSink, Ends
  <2>4. QED
    BY <1>1, <1>2, <2>2, <2>3 DEF S!send_panics, Published
<1>4. CASE sink = "ready"
  <2>1. /\ sink' = "taken" /\ flight' = [msg |-> m, answer |-> "none"]
        /\ UNCHANGED <<mailbox, spawned, wait, up>>
    BY <1>4 DEF take_sink
  <2>2. flight'.answer = "none"
    BY <2>1
  <2>3. NextSink = "ready" /\ NextSink' = "ready"
    BY <1>4, <2>1, <2>2 DEF NextSink
  <2>4. outbox' = outbox
    BY <1>1, <2>1, <2>2 DEF outbox, Answered, NoFlight
  <2>5. QED
    BY <1>2, <2>1, <2>3, <2>4 DEF S!svars, Published
<1>5. QED
  BY <1>1, <1>3, <1>4

(* Putting the sink back is a stutter of Sending. *)
LEMMA SettleRefines ==
    ASSUME Inv, settle
    PROVE  UNCHANGED S!svars
<1>1. /\ wait = {flight.msg} /\ sink = "taken" /\ flight' = NoFlight /\ wait' = {}
  BY FlightFacts DEF settle, Answered
<1>2. outbox' = outbox
  BY <1>1 DEF outbox, settle, Answered, NoFlight
<1>3. NextSink' = NextSink
  BY <1>1 DEF NextSink, settle, Answered
<1>4. QED
  BY <1>2, <1>3 DEF S!svars, settle

(* The broker's answer is the step of Sending. *)
LEMMA BrokerRefines ==
    ASSUME Inv, BrokerStep
    PROVE  (\E m \in Message : S!send_one(m) \/ S!send_lost(m) \/ S!send_fails(m))
             \/ UNCHANGED S!svars
<1>0. PICK x \in Message : x = flight.msg
  BY BrokerFacts
<1>1. /\ flight \in [msg: Message, answer: Answer] /\ flight.answer = "none"
      /\ x = flight.msg /\ up /\ wait = {x} /\ sink = "taken"
      /\ UNCHANGED <<mailbox, spawned, wait, sink, up>>
  BY <1>0, BrokerFacts DEF loopVars
<1>2. x \notin mailbox \cup spawned
  BY <1>1 DEF Inv
<1>3. x \in outbox /\ NextSink = "ready"
  BY <1>1 DEF outbox, Answered, NextSink
<1>4. ASSUME flight'.answer \in {"ok", "status", "cut"}
      PROVE  outbox' = outbox \ {x}
  BY <1>1, <1>2, <1>4, BrokerFacts DEF outbox, Answered
<1>5. NextSink' = IF flight'.answer = "cut" THEN "broken" ELSE "ready"
  BY <1>1 DEF NextSink
<1>6. ASSUME Publish(x) PROVE Published' = Published \cup {x}
  <2>1. log \in Seq(Message) /\ log' = Append(log, x)
    BY <1>6 DEF Inv, TypeOK, Publish
  <2>2. QED
    BY <1>1, <2>1, AppendFacts DEF Published
<1>7. CASE broadcast
  <2>1. Publish(x) /\ flight'.answer = "ok"
    BY <1>0, <1>1, <1>7 DEF broadcast, answer
  <2>2. S!send_one(x)
    BY <1>1, <1>3, <1>4, <1>5, <1>6, <2>1 DEF S!send_one, Published
  <2>3. QED
    BY <1>1, <2>2
<1>8. CASE messenger_refuses
  <2>1. log' = log /\ flight'.answer = "status"
    BY <1>1, <1>8 DEF messenger_refuses, answer
  <2>2. S!send_lost(x)
    BY <1>1, <1>3, <1>4, <1>5, <2>1 DEF S!send_lost
  <2>3. QED
    BY <1>1, <2>2
<1>9. CASE redis_refuses \/ connection_breaks
  <2>1. (log' = log \/ Publish(x)) /\ flight'.answer = "cut"
    BY <1>1, <1>9 DEF redis_refuses, connection_breaks, answer
  <2>2. Published' \in {Published, Published \cup {x}}
    BY <1>6, <2>1 DEF Published
  <2>3. S!send_fails(x)
    BY <1>1, <1>3, <1>4, <1>5, <2>1, <2>2 DEF S!send_fails, Published
  <2>4. QED
    BY <1>1, <2>3
<1>10. CASE broker_hangs
  <2>1. log' = log /\ flight'.answer = "hung"
    BY <1>1, <1>10 DEF broker_hangs, answer
  <2>2. outbox' = outbox /\ NextSink' = NextSink
    BY <1>1, <1>3, <1>5, <2>1 DEF outbox, Answered
  <2>3. QED
    BY <1>1, <2>1, <2>2 DEF S!svars
<1>11. QED
  BY <1>7, <1>8, <1>9, <1>10 DEF BrokerStep

(* The stream and the panics only ever end Sending. *)
LEMMA StreamRefines ==
    ASSUME Inv, \/ (\E t \in Text : arrive(t)) \/ subscription_ends \/ read
                \/ request_panics \/ read_panics \/ retry_panics
    PROVE  S!stops \/ UNCHANGED S!svars
<1>1. CASE request_panics \/ read_panics \/ retry_panics
  BY <1>1, PanicFacts, EndsRefines
<1>2. CASE (\E t \in Text : arrive(t)) \/ subscription_ends
  <2>1. UNCHANGED <<mailbox, spawned, wait, sink, up, flight, log>>
    BY <1>2 DEF arrive, subscription_ends, loopVars
  <2>2. UNCHANGED <<outbox, NextSink>>
    BY <2>1 DEF outbox, Answered, NextSink
  <2>3. QED
    BY <2>1, <2>2 DEF S!svars
<1>3. CASE read
  <2>1. up /\ flight = NoFlight /\ UNCHANGED <<sink, flight, log>>
    BY <1>3 DEF read, may_poll, Inv
  <2>2. CASE Finishes(Head(feed))
    <3>1. Ends("no")
      BY <1>3, <2>2 DEF read
    <3>2. QED
      BY <2>1, <3>1, EndsRefines
  <2>3. CASE ~Finishes(Head(feed))
    <3>1. UNCHANGED <<mailbox, spawned, wait, up>>
      BY <1>3, <2>3 DEF read
    <3>2. UNCHANGED <<outbox, NextSink>>
      BY <2>1, <3>1 DEF outbox, Answered, NextSink
    <3>3. QED
      BY <2>1, <3>1, <3>2 DEF S!svars
  <2>4. QED
    BY <2>2, <2>3
<1>4. QED
  BY <1>1, <1>2, <1>3

(* What the transport does with its futures, its critical section and its
   connection is, message by message, what Sending allows: Coordinator may
   take each send as one step. *)
THEOREM TransportImplementsSending == Spec => SendingSpec
<1>1. Init => S!Init
  BY DEF Init, S!Init, outbox, Answered, NextSink, NoFlight
<1>2. Inv /\ [Next]_vars => [S!Next]_S!svars
  <2> SUFFICES ASSUME Inv, [Next]_vars PROVE S!Next \/ UNCHANGED S!svars
    OBVIOUS
  <2>1. CASE UNCHANGED vars
    BY <2>1 DEF vars, loopVars, S!svars, outbox, Answered, NextSink
  <2>2. CASE \E m \in Message : enqueue(m)
    BY <2>2, EnqueueRefines DEF S!Next
  <2>3. CASE \E m \in Message : handle_outgoing(m) \/ encrypt_fails(m) \/ enter(m)
    BY <2>3, PollRefines DEF S!Next
  <2>4. CASE \E m \in Message : take_sink(m)
    BY <2>4, TakeSinkRefines DEF S!Next
  <2>5. CASE settle
    BY <2>5, SettleRefines
  <2>6. CASE BrokerStep
    BY <2>6, BrokerRefines DEF S!Next
  <2>7. CASE \/ (\E t \in Text : arrive(t)) \/ subscription_ends \/ read
             \/ request_panics \/ read_panics \/ retry_panics
    BY <2>7, StreamRefines DEF S!Next
  <2>8. QED
    BY <2>1, <2>2, <2>3, <2>4, <2>5, <2>6, <2>7 DEF Next, BrokerStep
<1>3. QED
  BY <1>1, <1>2, InvHolds, PTL DEF Spec, SendingSpec, S!Spec
=============================================================================

--------------------------- MODULE MessengerProofs ---------------------------
(***************************************************************************)
(* Theorems about Messenger: for any number of subscribers and publishers, *)
(* any history and any number of event ids.                                *)
(***************************************************************************)
EXTENDS Messenger, FiniteSetTheorems, TLAPS

(* The requests that are past the lookup of their room. *)
Settled == {t \in Task : pc[t] \notin {"start", "create", "insert"}}

(* Rooms are created one per request at most, and a request that reads or
   writes a history holds a room. *)
RoomsInv ==
    /\ current <= made /\ made <= Cardinality(Settled)
    /\ \A t \in Task : pc[t] \in {"found", "open", "waiting"} => room[t] \in RoomId
    /\ \A t \in Task : pc[t] \in {"open", "waiting"} => t \in Subscriber

(* The event ids suffice for a subscription: its room's history is shorter
   than the range of ids, and so was the one it resumes. *)
EnoughIds(t) ==
    /\ Len(messages[room[t]]) < EventIds
    /\ LastSeen[t] # NoId => LastSeen[t] + 1 < EventIds

(* What a subscription has yielded, and where it goes on. *)
InOrder(t) ==
    /\ next_event[t] = FirstEvent(t) + Len(received[t])
    /\ Len(received[t]) + FirstEvent(t) <= Len(messages[room[t]]) \/ received[t] = << >>
    /\ \A x \in DOMAIN received[t] :
          received[t][x] = messages[room[t]][FirstEvent(t) + x]

OrderInv ==
    /\ \A t \in Subscriber : pc[t] \notin {"open", "waiting", "closed"} => received[t] = << >>
    /\ \A t \in Live : EnoughIds(t) => InOrder(t)

Inv == TypeOK /\ RoomsInv /\ CountExact /\ NoLostWakeup /\ OrderInv

-----------------------------------------------------------------------------
(* Operators. *)

(* There is a room id for every count of tasks. *)
LEMMA RoomIdFacts ==
    /\ Cardinality(Task) \in Nat
    /\ RoomId \subseteq Nat \ {0}
    /\ \A r \in Nat : 1 <= r /\ r <= Cardinality(Task) => r \in RoomId
BY MessengerAssumption, FS_CardinalityType DEF RoomId

(* The cursor after an event: the next id, or 0 after the last. *)
LEMMA Advance ==
    ASSUME NEW e \in 0..(EventIds - 1)
    PROVE  /\ advance(e) \in 0..(EventIds - 1)
           /\ e + 1 < EventIds => advance(e) = e + 1
BY MessengerAssumption DEF advance

(* A set of requests is finite; adding one and taking one away. *)
LEMMA CountTasks ==
    ASSUME NEW S \in SUBSET Task, NEW t \in Task
    PROVE  /\ IsFiniteSet(S) /\ Cardinality(S) \in Nat
           /\ t \notin S => Cardinality(S \cup {t}) = Cardinality(S) + 1
           /\ t \in S => Cardinality(S \ {t}) = Cardinality(S) - 1
           /\ t \in S => Cardinality(S) >= 1
<1>1. IsFiniteSet(Task)
  BY MessengerAssumption
<1>2. IsFiniteSet(S)
  BY <1>1, FS_Subset
<1>3. Cardinality(S) \in Nat /\ Cardinality(S \ {t}) \in Nat
  BY <1>2, FS_RemoveElement, FS_CardinalityType
<1>4. /\ t \notin S => Cardinality(S \cup {t}) = Cardinality(S) + 1
      /\ t \in S => Cardinality(S \ {t}) = Cardinality(S) - 1
  BY <1>2, FS_AddElement, FS_RemoveElement
<1> QED BY <1>2, <1>3, <1>4

(* The inductive invariant holds at the start. *)
LEMMA InitInv == Init => Inv
<1> SUFFICES ASSUME Init PROVE Inv
  OBVIOUS
<1>1. Live = {}
  BY DEF Init, Live, Task
<1>2. Settled = {} /\ Cardinality(Settled) = 0
  BY FS_EmptySet DEF Init, Settled
<1>3. TypeOK
  <2>1. << >> \in Seq(Publisher) /\ 0 \in 0..(EventIds - 1)
    BY MessengerAssumption
  <2> QED BY <2>1 DEF Init, TypeOK
<1>4. CountExact
  BY <1>1, FS_EmptySet DEF CountExact, Watching, Init
<1> QED BY <1>1, <1>2, <1>3, <1>4 DEF Init, Inv, RoomsInv, NoLostWakeup, OrderInv

-----------------------------------------------------------------------------
(* The steps of a request on its way to a room: nobody reads or waits for
   anything else than before. *)

(* A step that changes no subscription and no history. *)
LEMMA QuietStep ==
    ASSUME Inv, TypeOK', NEW t \in Task,
           pc[t] \notin {"open", "waiting", "closed"}, pc'[t] \notin {"open", "waiting"},
           \A q \in Task \ {t} : pc'[q] = pc[q] /\ room'[q] = room[q],
           UNCHANGED <<messages, subscribers, next_event, received>>
    PROVE  CountExact' /\ NoLostWakeup' /\ OrderInv'
<1>1. Live' = Live /\ \A q \in Live : room'[q] = room[q] /\ pc'[q] = pc[q]
  BY DEF Live, Task
<1>2. \A r \in RoomId : Watching(r)' = Watching(r)
  BY <1>1 DEF Watching
<1>3. CountExact'
  BY <1>2 DEF Inv, CountExact
<1>4. NoLostWakeup'
  BY <1>1 DEF Inv, NoLostWakeup, Available
<1>5. OrderInv'
  BY <1>1 DEF Inv, OrderInv, EnoughIds, InOrder, FirstEvent, Task
<1> QED BY <1>3, <1>4, <1>5

(* Looking a room up keeps it. *)
LEMMA FindRoomInv ==
    ASSUME Inv, NEW t \in Task, find_room(t) \/ check_room(t)
    PROVE  Inv'
<1>0. TypeOK /\ RoomsInv
  BY DEF Inv
<1>1. TypeOK'
  BY <1>0 DEF TypeOK, find_room, check_room
<1>2. /\ pc[t] \in {"start", "create"} /\ pc'[t] \in {"found", "create", "insert"}
      /\ pc' = [pc EXCEPT ![t] = pc'[t]]
      /\ room' = room \/ room' = [room EXCEPT ![t] = current]
      /\ pc'[t] = "found" => current # 0 /\ room'[t] = current
      /\ UNCHANGED <<current, made, messages, subscribers, next_event, received>>
  BY <1>0 DEF TypeOK, find_room, check_room
<1>3. CountExact' /\ NoLostWakeup' /\ OrderInv'
  <2>1. \A q \in Task \ {t} : pc'[q] = pc[q] /\ room'[q] = room[q]
    BY <1>0, <1>2 DEF TypeOK
  <2> QED BY <1>1, <1>2, <2>1, QuietStep
<1>4. RoomsInv'
  <2>1. Settled' = Settled \/ Settled' = Settled \cup {t}
    BY <1>0, <1>2 DEF TypeOK, Settled
  <2>2. t \notin Settled
    BY <1>2 DEF Settled
  <2>3. /\ Cardinality(Settled) \in Nat
        /\ Cardinality(Settled') \in {Cardinality(Settled), Cardinality(Settled) + 1}
    <3>1. Settled \in SUBSET Task
      BY DEF Settled
    <3> QED BY <2>1, <2>2, <3>1, CountTasks
  <2>4. made \in Nat /\ current \in Nat
    BY <1>0, RoomIdFacts DEF TypeOK
  <2>5. current' <= made' /\ made' <= Cardinality(Settled')
    BY <1>0, <1>2, <2>3, <2>4 DEF RoomsInv
  <2>6. ASSUME NEW q \in Task, pc'[q] \in {"found", "open", "waiting"}
        PROVE  room'[q] \in RoomId
    BY <1>0, <1>2, <2>6 DEF TypeOK, RoomsInv
  <2>7. ASSUME NEW q \in Task, pc'[q] \in {"open", "waiting"}
        PROVE  q \in Subscriber
    BY <1>0, <1>2, <2>7 DEF TypeOK, RoomsInv
  <2> QED BY <2>5, <2>6, <2>7 DEF RoomsInv
<1> QED BY <1>1, <1>3, <1>4 DEF Inv

(* Inserting a room keeps it. *)
LEMMA InsertRoomInv ==
    ASSUME Inv, NEW t \in Task, insert_room(t)
    PROVE  Inv'
<1>0. TypeOK /\ RoomsInv
  BY DEF Inv
<1>1. made \in Nat /\ current \in Nat
  BY <1>0, RoomIdFacts DEF TypeOK
<1>2. Settled' = Settled \cup {t} /\ t \notin Settled
  BY <1>0 DEF TypeOK, Settled, insert_room
<1>3. /\ Cardinality(Settled) \in Nat
      /\ Cardinality(Settled') = Cardinality(Settled) + 1
  BY <1>2, CountTasks DEF Settled
<1>4. Cardinality(Settled') <= Cardinality(Task)
  <2>1. Settled' \in SUBSET Task
    BY DEF Settled
  <2> QED BY <2>1, MessengerAssumption, FS_Subset
<1>5. made + 1 \in RoomId
  BY <1>0, <1>1, <1>3, <1>4, RoomIdFacts DEF RoomsInv
<1>6. TypeOK'
  BY <1>0, <1>5 DEF TypeOK, insert_room
<1>7. CountExact' /\ NoLostWakeup' /\ OrderInv'
  <2>1. /\ pc[t] = "insert" /\ pc'[t] = "found"
        /\ \A q \in Task \ {t} : pc'[q] = pc[q] /\ room'[q] = room[q]
        /\ UNCHANGED <<messages, subscribers, next_event, received>>
    BY <1>0 DEF TypeOK, insert_room
  <2> QED BY <1>6, <2>1, QuietStep
<1>8. RoomsInv'
  <2>1. current' <= made' /\ made' <= Cardinality(Settled')
    BY <1>0, <1>1, <1>3 DEF RoomsInv, insert_room
  <2>2. /\ pc' = [pc EXCEPT ![t] = "found"]
        /\ room' = [room EXCEPT ![t] = made + 1]
    BY DEF insert_room
  <2> QED BY <1>0, <1>5, <2>1, <2>2 DEF TypeOK, RoomsInv
<1> QED BY <1>6, <1>7, <1>8 DEF Inv

(* Steps of requests that are past the lookup keep the bounds on rooms. *)
LEMMA RoomsStep ==
    ASSUME Inv, UNCHANGED <<current, made, room>>, TypeOK',
           \A q \in Task : pc'[q] # pc[q] =>
              /\ pc[q] \in {"found", "open", "waiting"}
              /\ pc'[q] \in {"open", "waiting", "closed"}
              /\ pc'[q] # "closed" => q \in Subscriber
    PROVE  RoomsInv'
<1>1. Settled' = Settled
  BY DEF Settled
<1> QED BY <1>1 DEF Inv, RoomsInv

-----------------------------------------------------------------------------
(* Subscriptions. *)

(* A subscription joins the watchers of its room. *)
LEMMA SubscribeInv ==
    ASSUME Inv, NEW t \in Task, subscribe(t)
    PROVE  Inv'
<1> DEFINE r == room[t]
<1>0. /\ TypeOK /\ RoomsInv /\ CountExact /\ NoLostWakeup /\ OrderInv
      /\ pc[t] = "found" /\ t \in Subscriber
      /\ pc' = [pc EXCEPT ![t] = "open"]
      /\ subscribers' = [subscribers EXCEPT ![r] = @ + 1]
      /\ UNCHANGED <<current, made, writer, messages, room, received>>
  BY DEF Inv, subscribe
<1>1. r \in RoomId
  BY <1>0 DEF RoomsInv
<1>2. /\ next_event' = [next_event EXCEPT ![t] = next_event'[t]]
      /\ next_event'[t] \in 0..(EventIds - 1)
      /\ EnoughIds(t) => next_event'[t] = FirstEvent(t)
  <2>1. LastSeen[t] \in 0..(EventIds - 1) \cup {NoId}
    BY <1>0, MessengerAssumption
  <2>2. next_event' = [next_event EXCEPT ![t] =
                         IF LastSeen[t] = NoId THEN 0 ELSE advance(LastSeen[t])]
    BY DEF subscribe
  <2>3. CASE LastSeen[t] = NoId
    BY <1>0, <2>2, <2>3, MessengerAssumption DEF TypeOK, FirstEvent
  <2>4. CASE LastSeen[t] # NoId
    <3>1. LastSeen[t] \in 0..(EventIds - 1)
      BY <2>1, <2>4
    <3> QED BY <1>0, <2>2, <2>4, <3>1, Advance DEF TypeOK, FirstEvent, EnoughIds
  <2> QED BY <2>3, <2>4
<1>3. TypeOK'
  <2>1. next_event' \in [Subscriber -> 0..(EventIds - 1)]
    BY <1>0, <1>2 DEF TypeOK
  <2>2. subscribers' \in [RoomId -> Nat]
    BY <1>0, <1>1 DEF TypeOK
  <2>3. pc' \in [Task -> {"start", "create", "insert", "found", "open", "waiting",
                         "closed"}]
    BY <1>0 DEF TypeOK
  <2> QED BY <1>0, <2>1, <2>2, <2>3 DEF TypeOK
<1>4. Live' = Live \cup {t} /\ t \notin Live
  BY <1>0 DEF Live, TypeOK, Task
<1>5. CountExact'
  <2> SUFFICES ASSUME NEW x \in RoomId PROVE subscribers'[x] = Cardinality(Watching(x)')
    BY DEF CountExact
  <2>1. Watching(x) \in SUBSET Task /\ t \notin Watching(x)
    BY <1>4 DEF Watching, Live, Task
  <2>2. Watching(x)' = IF x = r THEN Watching(x) \cup {t} ELSE Watching(x)
    BY <1>0, <1>4 DEF Watching
  <2>3. subscribers[x] = Cardinality(Watching(x))
    BY <1>0 DEF CountExact
  <2>4. subscribers'[x] = IF x = r THEN subscribers[x] + 1 ELSE subscribers[x]
    BY <1>0, <1>1 DEF TypeOK
  <2> QED BY <2>1, <2>2, <2>3, <2>4, CountTasks
<1>6. NoLostWakeup'
  <2>1. \A q \in Live : pc'[q] = pc[q] /\ (Available(q)' <=> Available(q))
    BY <1>0, <1>2, <1>4 DEF TypeOK, Live, Available
  <2>2. pc'[t] = "open"
    BY <1>0 DEF TypeOK
  <2> QED BY <1>0, <1>4, <2>1, <2>2 DEF NoLostWakeup
<1>7. OrderInv'
  <2>1. ASSUME NEW q \in Live, EnoughIds(q)' PROVE InOrder(q)'
    <3>1. q \in Subscriber /\ q # t
      BY <1>4 DEF Live
    <3>2. next_event'[q] = next_event[q]
      BY <1>0, <1>2, <3>1 DEF TypeOK
    <3> QED BY <1>0, <2>1, <3>2 DEF OrderInv, EnoughIds, InOrder, FirstEvent
  <2>2. ASSUME EnoughIds(t)' PROVE InOrder(t)'
    <3>1. received[t] = << >>
      BY <1>0 DEF OrderInv
    <3> QED BY <1>0, <1>2, <2>2, <3>1 DEF EnoughIds, InOrder, FirstEvent
  <2>3. \A q \in Subscriber : pc'[q] \notin {"open", "waiting", "closed"} =>
           received'[q] = << >>
    BY <1>0 DEF OrderInv, TypeOK, Task
  <2> QED BY <1>4, <2>1, <2>2, <2>3 DEF OrderInv
<1>8. RoomsInv'
  BY <1>0, <1>3, RoomsStep DEF TypeOK
<1> QED BY <1>3, <1>5, <1>6, <1>7, <1>8 DEF Inv

(* A broadcast is appended to the history and wakes everybody who waits for
   it. *)
LEMMA PublishInv ==
    ASSUME Inv, NEW t \in Task, publish(t)
    PROVE  Inv'
<1> DEFINE r == room[t]
<1>0. /\ TypeOK /\ RoomsInv /\ CountExact /\ NoLostWakeup /\ OrderInv
      /\ pc[t] = "found" /\ t \in Publisher /\ t \notin Subscriber
      /\ messages' = [messages EXCEPT ![r] = Append(@, t)]
      /\ pc' = [q \in Task |-> IF q = t THEN "closed"
                               ELSE IF q \in notify_waiters(r) THEN "open"
                               ELSE pc[q]]
      /\ UNCHANGED <<current, made, writer, subscribers, room, next_event, received>>
  BY MessengerAssumption DEF Inv, publish
<1>1. r \in RoomId
  BY <1>0 DEF RoomsInv
<1>2. /\ messages[r] \in Seq(Publisher) /\ messages'[r] = Append(messages[r], t)
      /\ \A x \in RoomId \ {r} : messages'[x] = messages[x]
      /\ messages' \in [RoomId -> Seq(Publisher)]
  BY <1>0, <1>1 DEF TypeOK
<1>3. TypeOK'
  BY <1>0, <1>2 DEF TypeOK
<1>4. /\ Live' = Live
      /\ \A q \in Subscriber : pc'[q] = IF q \in notify_waiters(r) THEN "open" ELSE pc[q]
  <2>1. \A q \in Subscriber : q \in Task /\ q # t
    BY <1>0 DEF Task
  <2>2. \A q \in Subscriber : pc'[q] = IF q \in notify_waiters(r) THEN "open" ELSE pc[q]
    BY <1>0, <2>1
  <2> QED BY <2>2 DEF Live, notify_waiters, Watching
<1>5. CountExact'
  <2>1. \A x \in RoomId : Watching(x)' = Watching(x)
    BY <1>0, <1>4 DEF Watching
  <2> QED BY <1>0, <2>1 DEF CountExact
<1>6. NoLostWakeup'
  <2> SUFFICES ASSUME NEW q \in Live, pc'[q] = "waiting" PROVE ~Available(q)'
    BY <1>4 DEF NoLostWakeup
  <2>1. q \in Subscriber /\ q \in Task /\ pc[q] = "waiting" /\ q \notin notify_waiters(r)
    BY <1>4 DEF Live, Task
  <2>2. room[q] \in RoomId /\ room[q] # r
    BY <1>0, <2>1 DEF notify_waiters, Watching, RoomsInv
  <2> QED BY <1>0, <1>2, <2>1, <2>2 DEF NoLostWakeup, Available
<1>7. OrderInv'
  <2>1. \A q \in Subscriber : pc'[q] \notin {"open", "waiting", "closed"} =>
           received'[q] = << >>
    BY <1>0, <1>4 DEF OrderInv
  <2>2. ASSUME NEW q \in Live, EnoughIds(q)' PROVE InOrder(q)'
    <3>1. q \in Subscriber /\ q \in Task /\ room[q] \in RoomId
      BY <1>0 DEF Live, Task, RoomsInv
    <3>2. CASE room[q] # r
      <4>1. messages'[room[q]] = messages[room[q]]
        BY <1>2, <3>1, <3>2
      <4>2. EnoughIds(q)
        BY <1>0, <2>2, <4>1 DEF EnoughIds
      <4>3. InOrder(q)
        BY <1>0, <4>2 DEF OrderInv
      <4>4. FirstEvent(q)' = FirstEvent(q)
        BY DEF FirstEvent
      <4> QED BY <1>0, <4>1, <4>3, <4>4 DEF InOrder
    <3>3. CASE room[q] = r
      <4> DEFINE h == messages[r]
                 g == received[q]
                 f == FirstEvent(q)
      <4>1. h \in Seq(Publisher) /\ messages'[r] = Append(h, t) /\ g \in Seq(Publisher)
        BY <1>0, <1>2, <3>1 DEF TypeOK
      <4>2. f \in Nat
        <5>1. LastSeen[q] \in 0..(EventIds - 1) \cup {NoId}
          BY <3>1, MessengerAssumption
        <5> QED BY <5>1, MessengerAssumption DEF FirstEvent
      <4>3. Len(Append(h, t)) = Len(h) + 1 /\ Len(h) \in Nat
        BY <4>1
      <4>4. EnoughIds(q)
        BY <1>0, <2>2, <3>3, <4>1, <4>3, MessengerAssumption DEF EnoughIds
      <4>5. InOrder(q)
        BY <1>0, <4>4 DEF OrderInv
      <4>6. ASSUME NEW x \in DOMAIN g
            PROVE  g[x] = Append(h, t)[f + x]
        <5>1. x \in 1..Len(g) /\ Len(g) \in Nat /\ g # << >>
          BY <4>1
        <5>2. f + x \in 1..Len(h)
          BY <3>3, <4>2, <4>3, <4>5, <5>1 DEF InOrder
        <5>3. Append(h, t)[f + x] = h[f + x]
          BY <4>1, <5>2
        <5> QED BY <3>3, <4>5, <4>6, <5>3 DEF InOrder
      <4>7. Len(g) + f <= Len(h) + 1 \/ g = << >>
        <5>1. Len(g) \in Nat
          BY <4>1
        <5> QED BY <3>3, <4>2, <4>3, <4>5, <5>1 DEF InOrder
      <4> QED BY <1>0, <3>3, <4>1, <4>3, <4>5, <4>6, <4>7 DEF InOrder, FirstEvent
    <3> QED BY <3>2, <3>3
  <2> QED BY <1>4, <2>1, <2>2 DEF OrderInv
<1>8. RoomsInv'
  <2>1. ASSUME NEW q \in Task, pc'[q] # pc[q]
        PROVE  /\ pc[q] \in {"found", "open", "waiting"}
               /\ pc'[q] \in {"open", "waiting", "closed"}
               /\ pc'[q] # "closed" => q \in Subscriber
    BY <1>0, <2>1 DEF notify_waiters, Watching, Live
  <2> QED BY <1>0, <1>3, <2>1, RoomsStep
<1> QED BY <1>3, <1>5, <1>6, <1>7, <1>8 DEF Inv

(* A subscription reads the next event, or waits for one. *)
LEMMA NextEventInv ==
    ASSUME Inv, NEW t \in Task, next(t)
    PROVE  Inv'
<1> DEFINE r == room[t]
           h == messages[r]
           e == next_event[t]
<1>0. /\ TypeOK /\ RoomsInv /\ CountExact /\ NoLostWakeup /\ OrderInv
      /\ pc[t] = "open"
      /\ UNCHANGED <<current, made, writer, messages, subscribers, room>>
  BY DEF Inv, next
<1>1. t \in Subscriber /\ r \in RoomId /\ t \in Live
  BY <1>0 DEF RoomsInv, Live
<1>2. h \in Seq(Publisher) /\ e \in 0..(EventIds - 1) /\ received[t] \in Seq(Publisher)
  BY <1>0, <1>1 DEF TypeOK
<1>3. CASE Available(t)
  <2>1. /\ received' = [received EXCEPT ![t] = Append(@, h[e + 1])]
        /\ next_event' = [next_event EXCEPT ![t] = advance(@)]
        /\ pc' = pc
    BY <1>3 DEF next
  <2>2. e + 1 \in DOMAIN h /\ h[e + 1] \in Publisher
    BY <1>2, <1>3, MessengerAssumption DEF Available
  <2>3. /\ received'[t] = Append(received[t], h[e + 1])
        /\ next_event'[t] = advance(e)
        /\ \A q \in Subscriber \ {t} : /\ received'[q] = received[q]
                                       /\ next_event'[q] = next_event[q]
    BY <1>0, <1>1, <2>1 DEF TypeOK
  <2>4. TypeOK'
    <3>1. advance(e) \in 0..(EventIds - 1)
      BY <1>2, Advance
    <3>2. Append(received[t], h[e + 1]) \in Seq(Publisher)
      BY <1>2, <2>2
    <3>3. next_event' \in [Subscriber -> 0..(EventIds - 1)]
      BY <1>0, <2>1, <3>1 DEF TypeOK
    <3>4. received' \in [Subscriber -> Seq(Publisher)]
      BY <1>0, <2>1, <3>2 DEF TypeOK
    <3> QED BY <1>0, <2>1, <3>3, <3>4 DEF TypeOK
  <2>5. Live' = Live /\ \A x \in RoomId : Watching(x)' = Watching(x)
    BY <1>0, <2>1 DEF Live, Watching
  <2>6. CountExact'
    BY <1>0, <2>5 DEF CountExact
  <2>7. NoLostWakeup'
    BY <1>0, <2>1, <2>3, <2>5 DEF NoLostWakeup, Available, Live
  <2>8. OrderInv'
    <3>1. ASSUME NEW q \in Live \ {t}, EnoughIds(q)' PROVE InOrder(q)'
      BY <1>0, <2>3, <3>1 DEF OrderInv, EnoughIds, InOrder, FirstEvent, Live
    <3>2. ASSUME EnoughIds(t)' PROVE InOrder(t)'
      <4> DEFINE g == received[t]
                 f == FirstEvent(t)
      <4>1. EnoughIds(t) /\ InOrder(t)
        BY <1>0, <1>1, <3>2 DEF OrderInv, EnoughIds
      <4>2. f \in Nat /\ Len(g) \in Nat /\ Len(h) \in Nat
        <5>1. LastSeen[t] \in 0..(EventIds - 1) \cup {NoId}
          BY <1>1, MessengerAssumption
        <5> QED BY <1>2, <5>1, MessengerAssumption DEF FirstEvent
      <4>3. e = f + Len(g) /\ e < Len(h) /\ Len(h) < EventIds
        BY <1>3, <4>1 DEF InOrder, EnoughIds, Available
      <4>4. advance(e) = e + 1
        <5>1. e + 1 < EventIds
          BY <4>2, <4>3, MessengerAssumption
        <5> HIDE DEF e
        <5> QED BY <1>2, <5>1, Advance
      <4>5. /\ Len(received'[t]) = Len(g) + 1
            /\ DOMAIN received'[t] = 1..(Len(g) + 1)
            /\ \A x \in 1..Len(g) : received'[t][x] = g[x]
            /\ received'[t][Len(g) + 1] = h[e + 1]
        BY <1>2, <2>2, <2>3
      <4>6. ASSUME NEW x \in DOMAIN received'[t] PROVE received'[t][x] = h[f + x]
        <5>1. CASE x = Len(g) + 1
          BY <4>2, <4>3, <4>5, <5>1
        <5>2. CASE x # Len(g) + 1
          <6>1. x \in 1..Len(g) /\ x \in DOMAIN g
            BY <1>2, <4>2, <4>5, <5>2
          <6> QED BY <4>1, <4>5, <6>1 DEF InOrder
        <5> QED BY <5>1, <5>2
      <4>7. FirstEvent(t)' = f /\ messages'[room'[t]] = h
        BY <1>0 DEF FirstEvent
      <4>8. next_event'[t] = f + (Len(g) + 1) /\ (Len(g) + 1) + f <= Len(h)
        <5> HIDE DEF e, f, g, h
        <5> QED BY <2>3, <4>2, <4>3, <4>4
      <4> QED BY <4>5, <4>6, <4>7, <4>8 DEF InOrder
    <3>3. \A q \in Subscriber : pc'[q] \notin {"open", "waiting", "closed"} =>
             received'[q] = << >>
      BY <1>0, <2>1, <2>3 DEF OrderInv
    <3> QED BY <2>5, <3>1, <3>2, <3>3 DEF OrderInv
  <2>9. RoomsInv'
    BY <1>0, <2>1, <2>4, RoomsStep
  <2> QED BY <2>4, <2>6, <2>7, <2>8, <2>9 DEF Inv
<1>4. CASE ~Available(t)
  <2>1. pc' = [pc EXCEPT ![t] = "waiting"] /\ UNCHANGED <<received, next_event>>
    BY <1>4 DEF next
  <2>2. TypeOK'
    BY <1>0, <2>1 DEF TypeOK
  <2>3. Live' = Live /\ \A x \in RoomId : Watching(x)' = Watching(x)
    BY <1>0, <1>1, <2>1 DEF Live, Watching, TypeOK, Task
  <2>4. CountExact'
    BY <1>0, <2>3 DEF CountExact
  <2>5. NoLostWakeup'
    BY <1>0, <1>4, <2>1, <2>3 DEF NoLostWakeup, Available, Live, TypeOK, Task
  <2>6. OrderInv'
    BY <1>0, <2>1, <2>3 DEF OrderInv, EnoughIds, InOrder, FirstEvent, TypeOK, Task
  <2>7. RoomsInv'
    BY <1>0, <1>1, <2>1, <2>2, RoomsStep DEF TypeOK
  <2> QED BY <2>2, <2>4, <2>5, <2>6, <2>7 DEF Inv
<1> QED BY <1>3, <1>4

(* A subscription is dropped. *)
LEMMA DropInv ==
    ASSUME Inv, NEW t \in Task, drop(t)
    PROVE  Inv'
<1> DEFINE r == room[t]
<1>0. /\ TypeOK /\ RoomsInv /\ CountExact /\ NoLostWakeup /\ OrderInv
      /\ t \in Live
      /\ pc' = [pc EXCEPT ![t] = "closed"]
      /\ subscribers' = [subscribers EXCEPT ![r] = @ - 1]
      /\ UNCHANGED <<current, made, writer, messages, room, next_event, received>>
  BY DEF Inv, drop, discount
<1>1. r \in RoomId /\ pc[t] \in {"open", "waiting"} /\ t \in Subscriber
  BY <1>0 DEF RoomsInv, Live
<1>2. Live' = Live \ {t} /\ \A q \in Live' : pc'[q] = pc[q]
  BY <1>0 DEF Live, TypeOK, Task
<1>3. ASSUME NEW x \in RoomId
      PROVE  /\ Watching(x) \in SUBSET Task
             /\ Watching(x)' = IF x = r THEN Watching(x) \ {t} ELSE Watching(x)
             /\ x = r => t \in Watching(x)
  BY <1>0, <1>2 DEF Watching, Live, Task
<1>4. subscribers[r] - 1 \in Nat
  <2>1. subscribers[r] = Cardinality(Watching(r))
    BY <1>0, <1>1 DEF CountExact
  <2> QED BY <1>1, <1>3, <2>1, CountTasks
<1>5. TypeOK'
  BY <1>0, <1>1, <1>4 DEF TypeOK
<1>6. CountExact'
  <2> SUFFICES ASSUME NEW x \in RoomId PROVE subscribers'[x] = Cardinality(Watching(x)')
    BY DEF CountExact
  <2>1. subscribers[x] = Cardinality(Watching(x))
    BY <1>0 DEF CountExact
  <2>2. subscribers'[x] = IF x = r THEN subscribers[x] - 1 ELSE subscribers[x]
    BY <1>0, <1>1 DEF TypeOK
  <2> QED BY <1>3, <2>1, <2>2, CountTasks
<1>7. NoLostWakeup'
  BY <1>0, <1>2 DEF NoLostWakeup, Available
<1>8. OrderInv'
  BY <1>0, <1>2 DEF OrderInv, EnoughIds, InOrder, FirstEvent, TypeOK, Task
<1>9. RoomsInv'
  BY <1>0, <1>1, <1>5, RoomsStep DEF TypeOK
<1> QED BY <1>5, <1>6, <1>7, <1>8, <1>9 DEF Inv

(* A stutter keeps it. *)
LEMMA StutterInv == Inv /\ UNCHANGED vars => Inv'
<1> SUFFICES ASSUME Inv, UNCHANGED vars PROVE Inv'
  OBVIOUS
<1>1. TypeOK' /\ RoomsInv'
  BY DEF Inv, TypeOK, RoomsInv, Settled, vars
<1>2. Live' = Live /\ \A r \in RoomId : Watching(r)' = Watching(r)
  BY DEF Live, Watching, vars
<1>3. CountExact' /\ NoLostWakeup'
  BY <1>2 DEF Inv, CountExact, NoLostWakeup, Available, vars
<1>4. \A t \in Live : /\ EnoughIds(t)' <=> EnoughIds(t)
                      /\ InOrder(t)' <=> InOrder(t)
  BY DEF EnoughIds, InOrder, FirstEvent, vars
<1>5. OrderInv'
  BY <1>2, <1>4 DEF Inv, OrderInv, vars
<1> QED BY <1>1, <1>3, <1>5 DEF Inv

(* It is an invariant. *)
LEMMA InvHolds == Spec => []Inv
<1>1. Inv /\ [Next]_vars => Inv'
  BY FindRoomInv, InsertRoomInv, SubscribeInv, PublishInv, NextEventInv, DropInv,
     StutterInv DEF Next
<1> QED BY <1>1, InitInv, PTL DEF Spec

-----------------------------------------------------------------------------
(* Every variable has its type; in particular a subscriber count never goes
   below zero, and the requests never create more rooms than there are
   requests. *)
THEOREM TypeCorrect == Spec => []TypeOK
<1>1. Inv => TypeOK
  BY DEF Inv
<1> QED BY <1>1, InvHolds, PTL

(* However subscribe and drop interleave, a room's count is the number of its
   watchers, so is_abandoned never throws a watched room away by a count that
   has drifted. *)
THEOREM CountExactHolds == Spec => []CountExact
<1>1. Inv => CountExact
  BY DEF Inv
<1> QED BY <1>1, InvHolds, PTL

(* No publisher slips between a subscription's look at the history and its
   wait. *)
THEOREM NoLostWakeupHolds == Spec => []NoLostWakeup
<1>1. Inv => NoLostWakeup
  BY DEF Inv
<1> QED BY <1>1, InvHolds, PTL

-----------------------------------------------------------------------------
(* Reading in order, from a bound on the constants. *)

(* There are more event ids than broadcasts, and nobody resumes after the
   last id. *)
IdsSuffice ==
    /\ Cardinality(Publisher) < EventIds
    /\ \A t \in Subscriber : LastSeen[t] # NoId => LastSeen[t] + 1 < EventIds

(* The broadcasts that have been answered. *)
Answered == {p \in Publisher : pc[p] = "closed"}

(* Every broadcast is in one history at most, once. *)
HistoryInv == \A r \in RoomId : Len(messages[r]) <= Cardinality(Answered)

(* A step that publishes nothing. *)
LEMMA HistoryKept ==
    ASSUME HistoryInv, messages' = messages,
           \A p \in Publisher : pc'[p] = "closed" <=> pc[p] = "closed"
    PROVE  HistoryInv'
<1>1. Answered' = Answered
  BY DEF Answered
<1> QED BY <1>1 DEF HistoryInv

(* A broadcast makes one history one longer, and is answered. *)
LEMMA HistoryGrows ==
    ASSUME Inv, HistoryInv, NEW t \in Task, publish(t)
    PROVE  HistoryInv'
<1>0. TypeOK /\ RoomsInv /\ t \in Publisher /\ pc[t] = "found"
  BY DEF Inv, publish
<1>1. room[t] \in RoomId
  BY <1>0 DEF RoomsInv
<1>2. Answered' = Answered \cup {t} /\ t \notin Answered
  <2>1. /\ pc'[t] = "closed"
        /\ \A p \in Publisher \ {t} : pc'[p] = pc[p]
    <3>1. \A p \in Publisher : p \in Task /\ p \notin notify_waiters(room[t])
      BY MessengerAssumption DEF Task, notify_waiters, Watching, Live
    <3> QED BY <1>0, <3>1 DEF publish
  <2> QED BY <1>0, <2>1 DEF Answered
<1>3. /\ Cardinality(Answered) \in Nat
      /\ Cardinality(Answered') = Cardinality(Answered) + 1
  <2>1. Answered \in SUBSET Task
    BY DEF Answered, Task
  <2> QED BY <1>2, <2>1, CountTasks
<1>4. ASSUME NEW r \in RoomId
      PROVE  Len(messages'[r]) <= Cardinality(Answered')
  <2>1. messages[r] \in Seq(Publisher) /\ Len(messages[r]) \in Nat
    BY <1>0 DEF TypeOK
  <2>2. messages'[r] = messages[r] \/ messages'[r] = Append(messages[r], t)
    BY <1>0, <1>1 DEF TypeOK, publish
  <2>3. Len(messages'[r]) \in {Len(messages[r]), Len(messages[r]) + 1}
    BY <1>0, <2>1, <2>2
  <2>4. Len(messages[r]) <= Cardinality(Answered)
    BY DEF HistoryInv
  <2> QED BY <1>3, <2>1, <2>3, <2>4
<1> QED BY <1>4 DEF HistoryInv

(* No history is longer than the number of broadcasts that were answered. *)
LEMMA HistoryHolds == Spec => []HistoryInv
<1>1. Init => HistoryInv
  <2> SUFFICES ASSUME Init, NEW r \in RoomId PROVE Len(messages[r]) <= Cardinality(Answered)
    BY DEF HistoryInv
  <2>1. Answered = {}
    BY DEF Init, Answered, Task
  <2>2. Len(messages[r]) = 0
    BY DEF Init
  <2> QED BY <2>1, <2>2, FS_EmptySet
<1>2. Inv /\ HistoryInv /\ [Next]_vars => HistoryInv'
  <2> SUFFICES ASSUME Inv, HistoryInv, [Next]_vars PROVE HistoryInv'
    OBVIOUS
  <2>t. TypeOK /\ RoomsInv
    BY DEF Inv
  <2>1. ASSUME NEW t \in Task, find_room(t) \/ check_room(t) \/ insert_room(t)
        PROVE  HistoryInv'
    <3>1. /\ messages' = messages /\ pc[t] # "closed" /\ pc'[t] # "closed"
          /\ \A q \in Task : q # t => pc'[q] = pc[q]
      BY <2>t, <2>1 DEF TypeOK, find_room, check_room, insert_room
    <3> QED BY <3>1, HistoryKept DEF Task
  <2>2. ASSUME NEW t \in Task, subscribe(t) \/ next(t) \/ drop(t)
        PROVE  HistoryInv'
    <3>1. messages' = messages /\ t \in Subscriber
      BY <2>t, <2>2 DEF RoomsInv, subscribe, next, drop, Live
    <3>2. \A q \in Task : q # t => pc'[q] = pc[q]
      BY <2>t, <2>2 DEF TypeOK, subscribe, next, drop
    <3>3. \A p \in Publisher : p \in Task /\ p # t
      BY <3>1, MessengerAssumption DEF Task
    <3> QED BY <3>1, <3>2, <3>3, HistoryKept
  <2>3. CASE UNCHANGED vars
    <3>1. messages' = messages /\ pc' = pc
      BY <2>3 DEF vars
    <3> QED BY <3>1, HistoryKept
  <2> QED BY <2>1, <2>2, <2>3, HistoryGrows DEF Next
<1> QED BY <1>1, <1>2, InvHolds, PTL DEF Spec

(* When there are more event ids than broadcasts and nobody resumes after the
   last id, subscriptions read in order and without gaps (Subscription::next).
   Without this hypothesis it is false: the u16 cursor wraps. *)
THEOREM ReadInOrderHolds == ASSUME IdsSuffice PROVE Spec => []ReadInOrder
<1>1. Inv /\ HistoryInv => ReadInOrder
  <2> SUFFICES ASSUME Inv, HistoryInv PROVE ReadInOrder
    OBVIOUS
  <2>1. Cardinality(Answered) <= Cardinality(Publisher) /\ Cardinality(Answered) \in Nat
        /\ Cardinality(Publisher) \in Nat
    <3>1. IsFiniteSet(Publisher) /\ Answered \subseteq Publisher
      BY MessengerAssumption, FS_Subset DEF Task, Answered
    <3> QED BY <3>1, FS_Subset, FS_CardinalityType
  <2>2. ASSUME NEW t \in Live PROVE EnoughIds(t)
    <3>1. t \in Subscriber /\ room[t] \in RoomId
      BY DEF Live, Inv, RoomsInv, Task
    <3>2. Len(messages[room[t]]) <= Cardinality(Answered)
      BY <3>1 DEF HistoryInv
    <3>3. Len(messages[room[t]]) \in Nat
      BY <3>1 DEF Inv, TypeOK
    <3> QED BY <2>1, <3>1, <3>2, <3>3, MessengerAssumption DEF IdsSuffice, EnoughIds
  <2> QED BY <2>2 DEF Inv, OrderInv, InOrder, ReadInOrder
<1> QED BY <1>1, InvHolds, HistoryHolds, PTL
=============================================================================

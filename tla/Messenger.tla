------------------------------ MODULE Messenger ------------------------------
(***************************************************************************)
(* The messenger (messenger/src/main.rs): the broker through which the MPC *)
(* servers broadcast.  Every HTTP request is a task on a multi-threaded    *)
(* runtime; the tasks share the map of rooms (one default room), guarded   *)
(* by an RwLock, and each room's history and atomic subscriber count.      *)
(*                                                                         *)
(* A step is what a task does between two points where others can act: the *)
(* lookup under the read lock, the check and the insertion under the write *)
(* lock, the atomic count, the history under its own lock.                 *)
(***************************************************************************)
EXTENDS Naturals, Sequences, FiniteSets

CONSTANTS Subscriber,      \* requests to /subscribe
          Publisher,       \* requests to /broadcast, each its own message
          LastSeen,        \* the Last-Event-ID of each subscriber, or NoId
          NoId,
          EventIds         \* number of event ids (65536)

Task == Subscriber \cup Publisher

ASSUME MessengerAssumption ==
    /\ IsFiniteSet(Task) /\ Subscriber \cap Publisher = {}
    /\ EventIds \in Nat \ {0}
    /\ NoId \notin Nat
    /\ LastSeen \in [Subscriber -> 0..(EventIds - 1) \cup {NoId}]

(* Every request creates at most one room; 0 is "no room". *)
RoomId == 1..Cardinality(Task)
Free == "free"

VARIABLES
    current,      \* the room in Db.rooms
    made,         \* rooms created so far
    writer,       \* who holds the write lock of Db.rooms between two steps
    messages,     \* history of each room
    subscribers,  \* AtomicU16 of each room
    pc,           \* where each request is
    room,         \* the Arc<Room> each request holds
    next_event,   \* of each subscription
    received      \* events each subscription has yielded

vars == <<current, made, writer, messages, subscribers, pc, room, next_event, received>>

(* The subscriptions of a room that have not been dropped. *)
Live == {t \in Subscriber : pc[t] \in {"open", "waiting"}}
Watching(r) == {t \in Live : room[t] = r}

is_abandoned(r) == subscribers[r] = 0

Init ==
    /\ current = 0 /\ made = 0 /\ writer = Free
    /\ messages = [r \in RoomId |-> << >>]
    /\ subscribers = [r \in RoomId |-> 0]
    /\ pc = [t \in Task |-> "start"]
    /\ room = [t \in Task |-> 0]
    /\ next_event = [t \in Subscriber |-> 0]
    /\ received = [t \in Subscriber |-> << >>]

-----------------------------------------------------------------------------
(* get_room_or_create_empty, with the read lock: the room in use, or on to
   the write lock. *)
find_room(t) ==
    /\ pc[t] = "start" /\ writer = Free
    /\ IF current # 0 /\ ~is_abandoned(current)
       THEN /\ room' = [room EXCEPT ![t] = current]
            /\ pc' = [pc EXCEPT ![t] = "found"]
       ELSE /\ pc' = [pc EXCEPT ![t] = "create"]
            /\ UNCHANGED room
    /\ UNCHANGED <<current, made, writer, messages, subscribers, next_event, received>>

(* With the write lock: look again ... *)
check_room(t) ==
    /\ pc[t] = "create" /\ writer = Free
    /\ IF current # 0 /\ ~is_abandoned(current)
       THEN /\ room' = [room EXCEPT ![t] = current]
            /\ pc' = [pc EXCEPT ![t] = "found"]
            /\ UNCHANGED writer
       ELSE /\ writer' = t
            /\ pc' = [pc EXCEPT ![t] = "insert"]
            /\ UNCHANGED room
    /\ UNCHANGED <<current, made, messages, subscribers, next_event, received>>

(* ... and put a new room in the place of none or of an abandoned one. *)
insert_room(t) ==
    /\ pc[t] = "insert" /\ writer = t
    /\ made' = made + 1
    /\ current' = made + 1
    /\ room' = [room EXCEPT ![t] = made + 1]
    /\ pc' = [pc EXCEPT ![t] = "found"]
    /\ writer' = Free
    /\ UNCHANGED <<messages, subscribers, next_event, received>>

-----------------------------------------------------------------------------
(* Mutant: the cursor stays. *)
stay(e) == e

(* u16 addition in a release build, which the Dockerfile makes: it wraps. *)
advance(e) == (e + 1) % EventIds

(* Room::subscribe. *)
subscribe(t) ==
    /\ pc[t] = "found" /\ t \in Subscriber
    /\ subscribers' = [subscribers EXCEPT ![room[t]] = @ + 1]
    /\ pc' = [pc EXCEPT ![t] = "open"]
    /\ next_event' = [next_event EXCEPT ![t] =
         IF LastSeen[t] = NoId THEN 0 ELSE advance(LastSeen[t])]
    /\ UNCHANGED <<current, made, writer, messages, room, received>>

(* Mutant: nobody is notified. *)
notify_nobody(r) == {}

(* notify_waiters: the subscriptions of the room that wait. *)
notify_waiters(r) == {t \in Watching(r) : pc[t] = "waiting"}

(* Room::publish, under the write lock of the history. *)
publish(t) ==
    /\ pc[t] = "found" /\ t \in Publisher
    /\ messages' = [messages EXCEPT ![room[t]] = Append(@, t)]
    /\ pc' = [q \in Task |-> IF q = t THEN "closed"
                             ELSE IF q \in notify_waiters(room[t]) THEN "open"
                             ELSE pc[q]]
    /\ UNCHANGED <<current, made, writer, subscribers, room, next_event, received>>

(* history.get(next_event) is there. *)
Available(t) == next_event[t] < Len(messages[room[t]])

(* Subscription::next: yield the next event, or register for a notification
   while the history is still locked. *)
next(t) ==
    /\ pc[t] = "open"
    /\ \/ /\ Available(t)
          /\ received' = [received EXCEPT ![t] =
               Append(@, messages[room[t]][next_event[t] + 1])]
          /\ next_event' = [next_event EXCEPT ![t] = advance(@)]
          /\ UNCHANGED pc
       \/ /\ ~Available(t)
          /\ pc' = [pc EXCEPT ![t] = "waiting"]
          /\ UNCHANGED <<received, next_event>>
    /\ UNCHANGED <<current, made, writer, messages, subscribers, room>>

(* Mutants: the subscriber is not discounted, or twice. *)
no_discount(t) == subscribers
discount_twice(t) == [subscribers EXCEPT ![room[t]] = @ - 2]

(* Drop for Subscription. *)
discount(t) == [subscribers EXCEPT ![room[t]] = @ - 1]

(* The client goes away, or the server shuts down. *)
drop(t) ==
    /\ t \in Live
    /\ subscribers' = discount(t)
    /\ pc' = [pc EXCEPT ![t] = "closed"]
    /\ UNCHANGED <<current, made, writer, messages, room, next_event, received>>

-----------------------------------------------------------------------------
Next == \E t \in Task :
          \/ find_room(t) \/ check_room(t) \/ insert_room(t)
          \/ subscribe(t) \/ publish(t) \/ next(t) \/ drop(t)

Spec == Init /\ [][Next]_vars

(* The runtime runs every task that can go on, and the locks are fair (tokio
   queues their waiters); clients need not disconnect. *)
Fairness == \A t \in Task :
    /\ SF_vars(find_room(t)) /\ SF_vars(check_room(t)) /\ WF_vars(insert_room(t))
    /\ WF_vars(subscribe(t)) /\ WF_vars(publish(t)) /\ WF_vars(next(t))

FairSpec == Spec /\ Fairness
-----------------------------------------------------------------------------
(* Properties. *)

(* Every variable has its type. *)
TypeOK ==
    /\ current \in RoomId \cup {0} /\ made \in RoomId \cup {0}
    /\ writer \in Task \cup {Free}
    /\ messages \in [RoomId -> Seq(Publisher)]
    /\ subscribers \in [RoomId -> Nat]
    /\ pc \in [Task -> {"start", "create", "insert", "found", "open", "waiting",
                        "closed"}]
    /\ room \in [Task -> RoomId \cup {0}]
    /\ next_event \in [Subscriber -> 0..(EventIds - 1)]
    /\ received \in [Subscriber -> Seq(Publisher)]

(* Where a subscription began to read. *)
FirstEvent(t) == IF LastSeen[t] = NoId THEN 0 ELSE LastSeen[t] + 1

(* A subscription yields its room's messages in the order they were
   published, from the one after its Last-Event-ID, each exactly once
   (Subscription::next, while event ids do not run out). *)
ReadInOrder ==
    \A t \in Live :
        /\ Len(received[t]) + FirstEvent(t) <= Len(messages[room[t]]) \/ received[t] = << >>
        /\ \A x \in DOMAIN received[t] :
              received[t][x] = messages[room[t]][FirstEvent(t) + x]

(* No lost wakeup: a subscription that waits has nothing to read, although
   publishers run between its look at the history and its await
   (Room::publish, Subscription::next). *)
NoLostWakeup == \A t \in Live : pc[t] = "waiting" => ~Available(t)

(* A room counts as abandoned exactly when nobody watches it: no interleaving
   of subscribe and drop makes the count drift (is_abandoned decides whether
   a room and its history are thrown away). *)
CountExact == \A r \in RoomId : subscribers[r] = Cardinality(Watching(r))

(* A subscription that stays gets every message that is published to its
   room after the events it has already seen. *)
EventuallyRead ==
    \A t \in Subscriber, p \in Publisher :
        (/\ t \in Live /\ pc[p] = "closed" /\ room[p] = room[t]
         /\ \E x \in DOMAIN messages[room[t]] :
               messages[room[t]][x] = p /\ x > FirstEvent(t))
          ~> \/ pc[t] = "closed"
             \/ \E x \in DOMAIN received[t] : received[t][x] = p

(* Only a room that no one is watching is thrown away: whoever watches,
   watches the room that broadcasts go to (the comment in
   get_room_or_create_empty). *)
WatchersInRoom == \A t \in Live : room[t] = current
=============================================================================

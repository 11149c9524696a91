---------------------------- MODULE DeliveryProofs -----------------------------
(***************************************************************************)
(* Theorems about the way of a message: encrypting it never fails, its     *)
(* body is decrypted once, and while a server's first coordinator runs no  *)
(* message for it vanishes without being counted.                          *)
(***************************************************************************)
EXTENDS LifecycleProofs

(* A published message that server n is to act on, as in NothingLost. *)
Owed(n, m) ==
    /\ WellNamed(m.room) /\ m.key # n /\ Me(n, m.room) # None
    /\ m.receiver \in {None, Me(n, m.room)}

(* The servers NothingLost speaks of: their first coordinator runs. *)
Watched == {q \in Node \ restarted : up[q]}

(* A message routed on server n ends up in a mailbox, a timer or the count of
   dropped ones, and nothing else moves but the timer it came from; passed
   says whether it has been checked. *)
Lands(n, rest, env, passed) ==
    /\ \A q \in Node : inbox[q] \subseteq inbox'[q] /\ dropped[q] \subseteq dropped'[q]
    /\ \A q \in Node \ {n} : timers'[q] = timers[q]
    /\ rest \subseteq timers'[n]
    /\ \A q \in Node : \A e \in inbox'[q] :
          e \in inbox[q] \/ (q = n /\ e = env /\ passed)
    /\ \A x \in timers'[n] : x \in rest \/ (x.env = env /\ x.check_passed = passed)
    /\ \/ env \in inbox'[n]
       \/ env.msg \in dropped'[n]
       \/ \E x \in timers'[n] : x.env = env

-----------------------------------------------------------------------------
(* Groups: a group id names one list of servers. *)

(* No two lists of servers share a group id. *)
LEMMA GroupIdInjective ==
    ASSUME NEW g \in Seq(Node), NEW h \in Seq(Node), group_id(g) = group_id(h)
    PROVE  g = h
<1>1. DOMAIN g = DOMAIN group_id(g) /\ DOMAIN h = DOMAIN group_id(h)
  BY DEF group_id
<1>2. DOMAIN g = DOMAIN h
  BY <1>1
<1>3. ASSUME NEW i \in DOMAIN g PROVE g[i] = h[i]
  <2>1. group_id(g)[i] = Prefix[g[i]] /\ group_id(h)[i] = Prefix[h[i]]
    BY <1>2 DEF group_id
  <2>2. g[i] \in Node /\ h[i] \in Node
    BY <1>2
  <2> QED BY <2>1, <2>2, GroupsAssumption
<1> QED BY <1>2, <1>3

(* The only group a server can find for a well named room is the room's own. *)
LEMMA KnownGroup ==
    ASSUME TypeOK, NEW n \in Node, NEW room \in Room, WellNamed(room),
           NEW g \in RetrieveGroup(n, extract_group_id(room))
    PROVE  g = Members(room)
<1>1. room[2] = group_id(Members(room))
  <2>1. room = RoomOf(room[1])
    BY RoomFacts
  <2>2. RoomOf(room[1])[2] = group_id(participant_public_keys[room[1]])
    BY DEF RoomOf, make_room_id
  <2> QED BY <2>1, <2>2 DEF Members
<1>2. group_id(g) = room[2] /\ g \in group_store[n]
  BY DEF RetrieveGroup, extract_group_id, WellNamed
<1>3. g \in Seq(Node)
  BY <1>2 DEF TypeOK
<1> QED BY <1>1, <1>2, <1>3, RoomFacts, GroupIdInjective

(* A server of a room finds its own digits in the room's name. *)
LEMMA OwnRoom ==
    ASSUME NEW n \in Node, NEW room \in Room, Me(n, room) # None
    PROVE  RoomContains(room, n)
<1>1. Me(n, room) \in Parties(room) /\ Members(room)[Me(n, room)] = n
  BY MeType
<1>2. room[2] = group_id(Members(room))
  <2>1. room = RoomOf(room[1])
    BY RoomFacts
  <2>2. RoomOf(room[1])[2] = group_id(participant_public_keys[room[1]])
    BY DEF RoomOf, make_room_id
  <2> QED BY <2>1, <2>2 DEF Members
<1>3. /\ Me(n, room) \in DOMAIN room[2]
      /\ room[2][Me(n, room)] = Prefix[n]
  BY <1>1, <1>2 DEF group_id, Parties
<1> QED BY <1>3 DEF RoomContains

(* The check of an owed message succeeds, or waits for the group. *)
LEMMA OwedIsValid ==
    ASSUME TypeOK, NEW n \in Node, NEW m \in Msg, Owed(n, m)
    PROVE  valid_sender_and_receiver(n, m) \in {"ok", "retry"}
<1> DEFINE known == {g \in RetrieveGroup(n, extract_group_id(m.room)) :
                       get_index(g, m.key) # None}
<1>1. m.room \in Room
  BY DEF Msg
<1>2. \A g \in known : g = Members(m.room)
  BY <1>1, KnownGroup DEF Owed
<1>3. get_i(n, Members(m.room)) = Me(n, m.room)
  BY DEF Me
<1>4. m.receiver # None => \A g \in known :
         get_i(n, g) # None /\ m.receiver = get_i(n, g)
  BY <1>2, <1>3 DEF Owed
<1> QED BY <1>4 DEF valid_sender_and_receiver

(* The receiver can decrypt it: it is sealed with its key. *)
LEMMA OwedOpens ==
    ASSUME NEW n \in Node, NEW env \in Envelope, Owed(n, env.msg), SealedRight(env)
    PROVE  maybe_decrypt(n, env) # {}
<1>1. CASE env.msg.receiver = None
  BY <1>1 DEF maybe_decrypt
<1>2. CASE env.msg.receiver # None
  <2>1. env.msg.room \in Room
    BY DEF Envelope, Msg
  <2>2. env.msg.receiver = Me(n, env.msg.room) /\ WellNamed(env.msg.room)
    BY <1>2 DEF Owed
  <2>3. Members(env.msg.room)[Me(n, env.msg.room)] = n
    BY <1>2, <2>1, <2>2, MeType
  <2>4. env.lock = n
    BY <1>2, <2>2, <2>3 DEF SealedRight
  <2> QED BY <1>2, <2>4 DEF maybe_decrypt
<1> QED BY <1>1, <1>2

(* What has been decrypted is plain. *)
LEMMA OpenIsPlain ==
    ASSUME NEW n, NEW env \in Envelope, SealedRight(env), NEW e \in maybe_decrypt(n, env)
    PROVE  e \in Envelope /\ e.lock = Plain /\ e.msg = env.msg
<1>1. CASE env.msg.receiver = None
  BY <1>1 DEF maybe_decrypt, SealedRight
<1>2. CASE env.msg.receiver # None
  BY <1>2 DEF maybe_decrypt, Envelope
<1> QED BY <1>1, <1>2

(* What is encrypted is sealed for the receiver it names. *)
LEMMA EncryptSeals ==
    ASSUME TypeOK, NEW n \in Node, NEW m \in Msg, NEW e \in maybe_encrypt(n, m)
    PROVE  SealedRight(e)
<1>1. CASE m.receiver = None
  BY <1>1 DEF maybe_encrypt, SealedRight
<1>2. CASE m.receiver # None
  <2>1. PICK g \in RetrieveGroup(n, extract_group_id(m.room)) :
          \E pk \in get_public_key(g, m.receiver) : e = [msg |-> m, lock |-> pk]
    BY <1>2 DEF maybe_encrypt
  <2>2. PICK pk \in get_public_key(g, m.receiver) : e = [msg |-> m, lock |-> pk]
    BY <2>1
  <2>3. g \in Seq(Node)
    BY <2>1 DEF RetrieveGroup, TypeOK
  <2>4. m.receiver \in DOMAIN g /\ pk = g[m.receiver] /\ pk \in Node
    BY <2>2, <2>3 DEF get_public_key
  <2>5. e.msg = m /\ e.lock = pk
    BY <2>2
  <2>6. e.lock # Plain
    BY <2>4, <2>5, PlainAssumption
  <2>7. m.room \in Room
    BY DEF Msg
  <2>8. WellNamed(m.room) => g = Members(m.room)
    BY <2>1, <2>7, KnownGroup
  <2> QED BY <1>2, <2>4, <2>5, <2>6, <2>8 DEF SealedRight, Parties
<1> QED BY <1>1, <1>2

-----------------------------------------------------------------------------
(* Where a routed message goes. *)

(* A retried message waits in a timer or is counted as dropped. *)
LEMMA RetryLands ==
    ASSUME TypeOK, NEW n \in Node, NEW rest, NEW env, NEW attempts, NEW passed,
           retry(n, rest, env, attempts, passed), inbox' = inbox
    PROVE  Lands(n, rest, env, passed)
<1>0. timers \in [Node -> SUBSET RetryMessage] /\ dropped \in [Node -> SUBSET Msg]
  BY DEF TypeOK
<1>1. CASE attempts > MaxAttempts
  <2>1. /\ timers' = [timers EXCEPT ![n] = rest]
        /\ dropped' = [dropped EXCEPT ![n] = @ \cup {env.msg}]
    BY <1>1 DEF retry
  <2> QED BY <1>0, <2>1 DEF Lands
<1>2. CASE ~(attempts > MaxAttempts)
  <2> DEFINE x == [env |-> env, attempts |-> attempts, check_passed |-> passed]
  <2>1. timers' = [timers EXCEPT ![n] = rest \cup {x}] /\ dropped' = dropped
    BY <1>2 DEF retry
  <2>2. x.env = env /\ x.check_passed = passed
    OBVIOUS
  <2> HIDE DEF x
  <2>3. timers'[n] = rest \cup {x} /\ \A q \in Node \ {n} : timers'[q] = timers[q]
    BY <1>0, <2>1
  <2> QED BY <2>1, <2>2, <2>3 DEF Lands
<1> QED BY <1>1, <1>2

(* A dispatched message gets to an actor or is retried. *)
LEMMA DispatchLands ==
    ASSUME TypeOK, NEW n \in Node, NEW rest, NEW env, NEW attempts,
           handle_incoming_unsafe(n, rest, env, attempts)
    PROVE  Lands(n, rest, env, TRUE)
<1>1. CASE HasHandler(n, env.msg)
  <2>1. /\ timers \in [Node -> SUBSET RetryMessage]
        /\ inbox \in [Node -> SUBSET Envelope]
    BY DEF TypeOK
  <2>2. /\ inbox' = [inbox EXCEPT ![n] = @ \cup {env}]
        /\ timers' = [timers EXCEPT ![n] = rest]
        /\ dropped' = dropped
    BY <1>1 DEF handle_incoming_unsafe
  <2> QED BY <2>1, <2>2 DEF Lands
<1>2. CASE ~HasHandler(n, env.msg)
  <2>1. retry(n, rest, env, attempts + 1, TRUE) /\ inbox' = inbox
    BY <1>2 DEF handle_incoming_unsafe
  <2> QED BY <2>1, RetryLands
<1> QED BY <1>1, <1>2

(* An incoming message is dropped only if this server is not owed it, unless
   it ends the coordinator. *)
LEMMA IncomingLands ==
    ASSUME TypeOK, NEW n \in Node, NEW env \in wire[n], SealedRight(env),
           handle_incoming(n, env), ~StopCoordinator(n)
    PROVE  \/ DropIncoming /\ ~Owed(n, env.msg)
           \/ Lands(n, timers[n], env, FALSE)
           \/ \E e \in maybe_decrypt(n, env) : Lands(n, timers[n], e, TRUE)
<1> DEFINE v == valid_sender_and_receiver(n, env.msg)
<1>0. env \in Envelope /\ env.msg \in Msg /\ env.msg.room \in Room
  BY DEF TypeOK, Envelope, Msg
<1>1. /\ Owed(n, env.msg) => /\ RoomContains(env.msg.room, n)
                             /\ v \in {"ok", "retry"}
                             /\ maybe_decrypt(n, env) # {}
  BY <1>0, OwnRoom, OwedIsValid, OwedOpens DEF Owed
<1>2. \/ DropIncoming /\ ~RoomContains(env.msg.room, n)
      \/ DropIncoming /\ v = "ok" /\ maybe_decrypt(n, env) = {}
      \/ DropIncoming /\ v = "NotForMe"
      \/ \E e \in maybe_decrypt(n, env) : handle_incoming_unsafe(n, timers[n], e, 0)
      \/ retry(n, timers[n], env, 1, FALSE) /\ UNCHANGED inbox
  <2>1. v \in {"ok", "retry", "panic", "NotForMe"}
    BY DEF valid_sender_and_receiver
  <2> HIDE DEF v
  <2>2. v = valid_sender_and_receiver(n, env.msg)
    BY DEF v
  <2>3. Route(n, env) /\ ~(RoomContains(env.msg.room, n) /\ v = "panic")
    BY <2>2 DEF handle_incoming
  <2> QED BY <2>1, <2>2, <2>3 DEF Route
<1>3. CASE \E e \in maybe_decrypt(n, env) : handle_incoming_unsafe(n, timers[n], e, 0)
  BY <1>3, DispatchLands
<1>4. CASE retry(n, timers[n], env, 1, FALSE) /\ UNCHANGED inbox
  BY <1>4, RetryLands
<1> QED BY <1>1, <1>2, <1>3, <1>4

(* A message whose timer fires is routed, unless it ends the coordinator. *)
LEMMA TimerLands ==
    ASSUME TypeOK, NEW n \in Node, NEW x \in timers[n], handle_retry(n, x),
           ~StopCoordinator(n)
    PROVE  \/ x.check_passed /\ Lands(n, timers[n] \ {x}, x.env, TRUE)
           \/ ~x.check_passed /\ Lands(n, timers[n] \ {x}, x.env, FALSE)
           \/ /\ ~x.check_passed
              /\ \E e \in maybe_decrypt(n, x.env) : Lands(n, timers[n] \ {x}, e, TRUE)
<1>1. \/ x.check_passed /\ handle_incoming_unsafe(n, timers[n] \ {x}, x.env, x.attempts)
      \/ /\ ~x.check_passed
         /\ retry(n, timers[n] \ {x}, x.env, x.attempts + 1, FALSE) /\ inbox' = inbox
      \/ /\ ~x.check_passed
         /\ \E e \in maybe_decrypt(n, x.env) :
              handle_incoming_unsafe(n, timers[n] \ {x}, e, x.attempts)
  BY DEF handle_retry, RouteAgain
<1>3. ASSUME NEW e, handle_incoming_unsafe(n, timers[n] \ {x}, e, x.attempts)
      PROVE  Lands(n, timers[n] \ {x}, e, TRUE)
  BY <1>3, DispatchLands
<1>4. ASSUME retry(n, timers[n] \ {x}, x.env, x.attempts + 1, FALSE), inbox' = inbox
      PROVE  Lands(n, timers[n] \ {x}, x.env, FALSE)
  BY <1>4, RetryLands
<1> QED BY <1>1, <1>3, <1>4

-----------------------------------------------------------------------------
(* A group is forgotten only with the players that need it, and a player     *)
(* starts with its group saved.                                              *)

(* No step but a restart takes a group out of a store. *)
LEMMA GroupsGrow ==
    ASSUME TypeOK, [Next]_vars, \A n \in Node : ~restart(n)
    PROVE  \A q \in Node : group_store[q] \subseteq group_store'[q]
<1> USE DEF storeVars
<1>t. group_store \in [Node -> SUBSET Seq(Node)]
  BY DEF TypeOK
<1>1. ASSUME NEW n \in Node, NEW req \in Req,
             handle_keygen_request(n, req) \/ handle_sign_request(n, req)
      PROVE  \A q \in Node : group_store[q] \subseteq group_store'[q]
  <2>1. group_store' = group_store \/ save_group(n, participant_public_keys[req])
    BY <1>1, KeygenEffects, SignEffects
  <2> QED BY <1>t, <2>1 DEF save_group
<1>2. ASSUME NEW n \in Node, NEW m \in outbox[n],
             \/ send_one(n, m) \/ encrypt_fails(n, m)
             \/ send_lost(n, m) \/ send_fails(n, m)
      PROVE  group_store' = group_store
  BY <1>2, SendEffects DEF TakeOut
<1>3. ASSUME NEW n \in Node, NEW env \in wire[n], handle_incoming(n, env)
      PROVE  group_store' = group_store
  BY <1>3, IncomingEffects
<1>4. ASSUME NEW n \in Node, NEW x \in timers[n], handle_retry(n, x)
      PROVE  group_store' = group_store
  BY <1>4, RetriedEffects
<1>5. ASSUME NEW n \in Node, NEW env \in errors[n], handle_protocol_error(n, env)
      PROVE  group_store' = group_store
  BY <1>5 DEF handle_protocol_error
<1>6. ASSUME NEW n \in Node, NEW env \in inbox[n],
             player_handle(n, env) \/ player_proceed_fails(n, env) \/ signer_handle(n, env)
      PROVE  group_store' = group_store
  <2>1. CASE player_handle(n, env)
    BY <2>1 DEF player_handle
  <2>2. CASE player_proceed_fails(n, env)
    BY <2>2 DEF player_proceed_fails
  <2>3. CASE signer_handle(n, env)
    BY <2>3 DEF signer_handle
  <2> QED BY <1>6, <2>1, <2>2, <2>3
<1>7. ASSUME NEW n \in Node, NEW room \in Room,
             \/ player_maybe_proceed(n, room) \/ handle_output_keygen(n, room)
             \/ handle_output_keygen_unsaved(n, room)
             \/ handle_output_offline(n, room) \/ handle_output_sign(n, room)
      PROVE  group_store' = group_store
  BY <1>7 DEF player_maybe_proceed, handle_output_keygen, handle_output_keygen_unsaved,
     handle_output_offline, handle_output_sign
<1>8. ASSUME NEW n \in Node, NEW req \in Req, request_lost(n, req)
      PROVE  group_store' = group_store
  BY <1>8 DEF request_lost
<1>9. ASSUME NEW n \in Node, send_panics(n) \/ stream_finished(n)
      PROVE  group_store' = group_store
  BY <1>9 DEF send_panics, stream_finished
<1>10. ASSUME NEW n \in Node, NEW env \in sent, redeliver(n, env)
       PROVE  group_store' = group_store
  BY <1>10 DEF redeliver
<1>11. CASE UNCHANGED vars
  BY <1>11 DEF vars
<1> QED BY <1>1, <1>2, <1>3, <1>4, <1>5, <1>6, <1>7, <1>8, <1>9, <1>10, <1>11
        DEF Next, NodeStep, RequestStep, FaultStep

(* A request ends the coordinator, starts no player or saves its group first. *)
LEMMA StartSaves ==
    ASSUME NEW n \in Node, NEW req \in Req,
           handle_keygen_request(n, req) \/ handle_sign_request(n, req)
    PROVE  \/ StopCoordinator(n)
           \/ player' = player
           \/ /\ player' = [player EXCEPT ![n][RoomOf(req)] = NewPlayer]
              /\ save_group(n, participant_public_keys[req])
<1>1. CASE handle_keygen_request(n, req)
  BY <1>1 DEF handle_keygen_request, StartPlayer, memoryVars, actorVars
<1>2. CASE handle_sign_request(n, req)
  BY <1>2 DEF handle_sign_request, StartPlayer, memoryVars, actorVars
<1> QED BY <1>1, <1>2

(* A saved group, or one of the same id, is found again. *)
LEMMA SavedGroup ==
    ASSUME TypeOK, NEW n \in Node, NEW req \in Req,
           save_group(n, participant_public_keys[req])
    PROVE  GroupKnown(n, RoomOf(req))'
<1> DEFINE g == participant_public_keys[req]
<1>1. RoomOf(req)[2] = group_id(g)
  BY DEF RoomOf, make_room_id
<1>2. group_store \in [Node -> SUBSET Seq(Node)]
  BY DEF TypeOK
<1>3. CASE RetrieveGroup(n, group_id(g)) = {}
  <2>1. group_store' = [group_store EXCEPT ![n] = @ \cup {g}]
    BY <1>3 DEF save_group
  <2> HIDE DEF g
  <2>2. g \in group_store'[n]
    BY <1>2, <2>1
  <2> QED BY <1>1, <2>2 DEF GroupKnown
<1>4. CASE RetrieveGroup(n, group_id(g)) # {}
  <2>1. group_store' = group_store
    BY <1>4 DEF save_group
  <2>2. \E h \in group_store[n] : group_id(h) = group_id(g)
    BY <1>4 DEF RetrieveGroup
  <2> QED BY <1>1, <2>1, <2>2 DEF GroupKnown
<1> QED BY <1>3, <1>4

(* GroupsKnown is kept when every new player comes with its group and every
   new message names a receiver of a group that is known. *)
LEMMA KeepGroups ==
    ASSUME GroupsKnown, \A q \in Node : group_store[q] \subseteq group_store'[q],
           \A q \in Node, room \in Room : player'[q][room].phase # "none" =>
              player[q][room].phase # "none" \/ GroupKnown(q, room)',
           \A q \in Node : \A m \in outbox'[q] :
              \/ m \in outbox[q]
              \/ m.receiver # None =>
                   m.receiver \in Parties(m.room) /\ GroupKnown(q, m.room)
    PROVE  GroupsKnown'
<1>1. \A q \in Node : \A room : GroupKnown(q, room) => GroupKnown(q, room)'
  BY DEF GroupKnown
<1>2. ASSUME NEW q \in Node, NEW room \in Room, player'[q][room].phase # "none"
      PROVE  GroupKnown(q, room)'
  BY <1>1, <1>2 DEF GroupsKnown
<1>3. ASSUME NEW q \in Node, NEW m \in outbox'[q], m.receiver # None
      PROVE  m.receiver \in Parties(m.room) /\ GroupKnown(q, m.room)'
  <2>1. m.receiver \in Parties(m.room) /\ GroupKnown(q, m.room)
    BY <1>3 DEF GroupsKnown
  <2> QED BY <1>1, <2>1
<1> QED BY <1>2, <1>3 DEF GroupsKnown

(* A server that loses its memory needs no group any more. *)
LEMMA LoseGroups ==
    ASSUME TypeOK, GroupsKnown, NEW n \in Node, LoseMemory(n),
           \A q \in Node : q # n => group_store'[q] = group_store[q]
    PROVE  GroupsKnown'
<1>1. player'[n] = [room \in Room |-> NoPlayer] /\ outbox'[n] = {}
  BY DEF LoseMemory, TypeOK
<1>2. \A q \in Node : q # n => player'[q] = player[q] /\ outbox'[q] = outbox[q]
  BY DEF LoseMemory, TypeOK
<1>3. ASSUME NEW q \in Node, NEW room, q # n, GroupKnown(q, room)
      PROVE  GroupKnown(q, room)'
  <2>1. group_store'[q] = group_store[q]
    BY <1>3
  <2> QED BY <1>3, <2>1 DEF GroupKnown
<1>4. ASSUME NEW q \in Node, NEW room \in Room, player'[q][room].phase # "none"
      PROVE  GroupKnown(q, room)'
  <2>1. q # n
    BY <1>1, <1>4 DEF NoPlayer
  <2>2. GroupKnown(q, room)
    BY <1>2, <1>4, <2>1 DEF GroupsKnown
  <2> QED BY <1>3, <2>1, <2>2
<1>5. ASSUME NEW q \in Node, NEW m \in outbox'[q], m.receiver # None
      PROVE  m.receiver \in Parties(m.room) /\ GroupKnown(q, m.room)'
  <2>1. q # n
    BY <1>1, <1>5
  <2>2. m.receiver \in Parties(m.room) /\ GroupKnown(q, m.room)
    BY <1>2, <1>5, <2>1 DEF GroupsKnown
  <2> QED BY <1>3, <2>1, <2>2
<1> QED BY <1>4, <1>5 DEF GroupsKnown

(* The receivers a player's queue names. *)
LEMMA QueuedReceiver ==
    ASSUME NEW n, NEW room, NEW i, NEW r0, NEW r,
           NEW m \in QueuedMsgs(room, i, n, r0, r)
    PROVE  m.receiver = None \/ m.receiver \in Parties(room)
<1>1. PICK k \in (r0 + 1)..r : m \in RoundMsgs(room, PlayerKind(room), k, i, n)
  BY DEF QueuedMsgs
<1>2. \E j \in Parties(room) \cup {None} : m = Message(room, PlayerKind(room), k, i, j, n)
  BY <1>1 DEF RoundMsgs
<1> QED BY <1>2 DEF Message

(* What maybe_proceed does to the store, the phase and the outbox. *)
LEMMA ProceedEffects ==
    ASSUME TypeOK, NEW n \in Node, NEW room \in Room, NEW store, NEW heard,
           maybe_proceed(n, room, store, heard)
    PROVE  /\ \A q \in Node, o \in Room :
                IF q = n /\ o = room THEN player'[q][o].store = store
                ELSE player'[q][o] = player[q][o]
           /\ \A q \in Node : \A m \in outbox'[q] :
                \/ m \in outbox[q]
                \/ /\ q = n /\ m.room = room /\ m.kind # "S"
                   /\ m.receiver = None \/ m.receiver \in Parties(room)
<1> DEFINE p == player[n][room]
           i == Me(n, room)
<1>0. /\ player \in [Node -> [Room -> PlayerState]] /\ p \in PlayerState
      /\ outbox \in [Node -> SUBSET Msg]
  BY DEF TypeOK
<1>1. CASE p.phase = "gone"
  <2>1. /\ player' = [player EXCEPT ![n][room].store = store,
                                     ![n][room].heard = heard]
        /\ outbox' = outbox
    BY <1>1 DEF maybe_proceed
  <2> QED BY <1>0, <2>1 DEF PlayerState
<1>2. CASE p.phase # "gone"
  <2>1. PICK r \in 1..(LastRound(room) + 1) :
          /\ player' = [player EXCEPT ![n][room] =
               [phase |-> StateLeft(room, r), round |-> r,
                store |-> store, heard |-> heard]]
          /\ outbox' = [outbox EXCEPT ![n] = @ \cup QueuedMsgs(room, i, n, p.round, r)]
    BY <1>2 DEF maybe_proceed
  <2>2. \A q \in Node, o \in Room :
           IF q = n /\ o = room THEN player'[q][o].store = store
           ELSE player'[q][o] = player[q][o]
    BY <1>0, <2>1
  <2>3. ASSUME NEW m \in QueuedMsgs(room, i, n, p.round, r)
        PROVE  /\ m.room = room /\ m.kind # "S"
               /\ m.receiver = None \/ m.receiver \in Parties(room)
    <3>1. i \in Nat /\ p.round \in Nat /\ r \in Nat
      BY <1>0, MeType, RoomFacts DEF PlayerState
    <3> QED BY <3>1, <2>3, QueuedForm, QueuedReceiver
  <2>4. \A q \in Node : \A m \in outbox'[q] :
           m \in outbox[q] \/ (q = n /\ m \in QueuedMsgs(room, i, n, p.round, r))
    BY <1>0, <2>1
  <2> QED BY <2>2, <2>3, <2>4
<1> QED BY <1>1, <1>2

(* Every step keeps GroupsKnown. *)
LEMMA GroupsStep == Provenance /\ Lifecycle /\ GroupsKnown /\ [Next]_vars => GroupsKnown'
<1> SUFFICES ASSUME Provenance, Lifecycle, GroupsKnown, [Next]_vars PROVE GroupsKnown'
  OBVIOUS
<1>7. ASSUME NEW n \in Node, restart(n)
      PROVE  GroupsKnown'
  <2>1. group_store \in [Node -> SUBSET Seq(Node)]
    BY DEF Provenance, TypeOK
  <2>2. LoseMemory(n) /\ \A q \in Node : q # n => group_store'[q] = group_store[q]
    BY <1>7, <2>1 DEF restart, ReopenShares
  <2> QED BY <2>2, LoseGroups DEF Provenance
<1> SUFFICES ASSUME \A n \in Node : ~restart(n) PROVE GroupsKnown'
  BY <1>7
<1> USE DEF storeVars, apiVars, nodeVars, runnerVars, retryVars, mailVars,
            actorVars, brokerVars, faultVars
<1>t. /\ TypeOK /\ player \in [Node -> [Room -> PlayerState]]
      /\ outbox \in [Node -> SUBSET Msg] /\ inbox \in [Node -> SUBSET Envelope]
  BY DEF Provenance, TypeOK
<1>g. \A q \in Node : group_store[q] \subseteq group_store'[q]
  BY <1>t, GroupsGrow
<1>s. ASSUME NEW n \in Node, StopCoordinator(n), group_store' = group_store
      PROVE  GroupsKnown'
  BY <1>t, <1>s, LoseGroups DEF StopCoordinator
<1>k. ASSUME player' = player, Within(outbox', outbox)
      PROVE  GroupsKnown'
  BY <1>g, <1>k, KeepGroups DEF Within
<1>1. ASSUME NEW n \in Node, NEW req \in Req,
             handle_keygen_request(n, req) \/ handle_sign_request(n, req)
      PROVE  GroupsKnown'
  <2>1. StopCoordinator(n) \/ outbox' = outbox
    BY <1>1, KeygenEffects, SignEffects
  <2>4. CASE StopCoordinator(n)
    <3>1. group_store' = group_store \/ save_group(n, participant_public_keys[req])
      BY <1>1, KeygenEffects, SignEffects
    <3>2. group_store \in [Node -> SUBSET Seq(Node)]
      BY <1>t DEF TypeOK
    <3>3. \A q \in Node : q # n => group_store'[q] = group_store[q]
      BY <3>1, <3>2 DEF save_group
    <3> QED BY <1>t, <2>4, <3>3, LoseGroups DEF StopCoordinator
  <2> SUFFICES ASSUME ~StopCoordinator(n) PROVE GroupsKnown'
    BY <2>4
  <2>2. CASE player' = player
    BY <1>k, <2>1, <2>2 DEF Within
  <2>3. CASE /\ player' = [player EXCEPT ![n][RoomOf(req)] = NewPlayer]
             /\ save_group(n, participant_public_keys[req])
    <3>1. GroupKnown(n, RoomOf(req))'
      BY <1>t, <2>3, SavedGroup
    <3>2. \A q \in Node, room \in Room :
             ~(q = n /\ room = RoomOf(req)) => player'[q][room] = player[q][room]
      BY <1>t, <2>3, RoomOfType
    <3>3. \A q \in Node, room \in Room : player'[q][room].phase # "none" =>
              player[q][room].phase # "none" \/ GroupKnown(q, room)'
      BY <3>1, <3>2
    <3> QED BY <1>g, <2>1, <3>3, KeepGroups
  <2> QED BY <1>1, <2>2, <2>3, StartSaves
<1>2. ASSUME NEW n \in Node, NEW m \in outbox[n],
             \/ send_one(n, m) \/ encrypt_fails(n, m)
             \/ send_lost(n, m) \/ send_fails(n, m)
      PROVE  GroupsKnown'
  <2>1. player' = player /\ outbox' = [outbox EXCEPT ![n] = @ \ {m}]
    BY <1>2, SendEffects DEF TakeOut
  <2>2. Within(outbox', outbox)
    BY <1>t, <2>1 DEF Within
  <2> QED BY <1>k, <2>1, <2>2
<1>p. ASSUME NEW n \in Node, NEW room \in Room, NEW store, NEW heard,
             player[n][room].phase # "none", maybe_proceed(n, room, store, heard)
      PROVE  GroupsKnown'
  <2>1. GroupKnown(n, room)
    BY <1>p DEF GroupsKnown
  <2>2. /\ \A q \in Node, o \in Room :
             IF q = n /\ o = room THEN player'[q][o].store = store
             ELSE player'[q][o] = player[q][o]
        /\ \A q \in Node : \A m \in outbox'[q] :
             \/ m \in outbox[q]
             \/ /\ q = n /\ m.room = room /\ m.kind # "S"
                /\ m.receiver = None \/ m.receiver \in Parties(room)
    BY <1>t, <1>p, ProceedEffects
  <2>3. \A q \in Node, o \in Room : player'[q][o].phase # "none" =>
              player[q][o].phase # "none" \/ GroupKnown(q, o)'
    BY <1>p, <2>2
  <2>4. \A q \in Node : \A m \in outbox'[q] :
              \/ m \in outbox[q]
              \/ m.receiver # None =>
                   m.receiver \in Parties(m.room) /\ GroupKnown(q, m.room)
    BY <2>1, <2>2
  <2> QED BY <1>g, <2>3, <2>4, KeepGroups
<1>3. ASSUME NEW n \in Node, NEW room \in Room, player_maybe_proceed(n, room)
      PROVE  GroupsKnown'
  BY <1>p, <1>3 DEF player_maybe_proceed
<1>4. ASSUME NEW n \in Node, NEW env \in inbox[n], player_handle(n, env)
      PROVE  GroupsKnown'
  <2> DEFINE room == env.msg.room
  <2>1. room \in Room
    BY <1>t DEF Envelope, Msg
  <2>2. /\ env.msg.kind # "S"
        /\ \/ UNCHANGED <<player, outbox>>
           \/ maybe_proceed(n, room, player[n][room].store, TRUE)
           \/ maybe_proceed(n, room, StoreWith(player[n][room], env.msg), TRUE)
    BY <1>4 DEF player_handle
  <2>3. player[n][room].phase # "none"
    BY <2>2 DEF Lifecycle, RunnersStarted
  <2>4. CASE UNCHANGED <<player, outbox>>
    BY <1>k, <2>4 DEF Within
  <2> HIDE DEF room
  <2> QED BY <1>p, <2>1, <2>2, <2>3, <2>4
<1>5. ASSUME NEW n \in Node, NEW env \in inbox[n], player_proceed_fails(n, env)
      PROVE  GroupsKnown'
  <2> DEFINE room == env.msg.room
             p == player[n][room]
  <2>1. /\ outbox' = outbox /\ p.phase = "live"
        /\ player' = [player EXCEPT ![n][room] =
             [phase |-> "gone", round |-> p.round + 1,
              store |-> StoreWith(p, env.msg), heard |-> TRUE]]
    BY <1>5 DEF player_proceed_fails
  <2>2. \A q \in Node, o \in Room :
           player'[q][o].phase # "none" => player[q][o].phase # "none"
    BY <1>t, <2>1
  <2> QED BY <1>g, <2>1, <2>2, KeepGroups
<1>6. ASSUME NEW n \in Node, NEW room \in Room, handle_output_offline(n, room)
      PROVE  GroupsKnown'
  <2>1. /\ player' = player
        /\ outbox' = [outbox EXCEPT ![n] = @ \cup {MyPartialSignature(n, room)}]
    BY <1>6 DEF handle_output_offline
  <2>2. MyPartialSignature(n, room).receiver = None
    BY DEF MyPartialSignature, Message
  <2>3. \A q \in Node : \A m \in outbox'[q] : m \in outbox[q] \/ m.receiver = None
    BY <1>t, <2>1, <2>2
  <2> QED BY <1>g, <2>1, <2>3, KeepGroups
<1>8. ASSUME NEW n \in Node,
             \/ \E env \in wire[n] : handle_incoming(n, env)
             \/ \E x \in timers[n] : handle_retry(n, x)
             \/ \E env \in errors[n] : handle_protocol_error(n, env)
             \/ \E env \in inbox[n] : signer_handle(n, env)
             \/ \E env \in sent : redeliver(n, env)
      PROVE  GroupsKnown'
  <2>1. ASSUME NEW env \in wire[n], handle_incoming(n, env)
        PROVE  GroupsKnown'
    <3>1. group_store' = group_store /\ (StopCoordinator(n) \/ UNCHANGED <<player, outbox>>)
      BY <2>1, IncomingEffects
    <3> QED BY <1>k, <1>s, <3>1 DEF Within
  <2>2. ASSUME NEW x \in timers[n], handle_retry(n, x)
        PROVE  GroupsKnown'
    <3>1. group_store' = group_store /\ (StopCoordinator(n) \/ UNCHANGED <<player, outbox>>)
      BY <2>2, RetriedEffects
    <3> QED BY <1>k, <1>s, <3>1 DEF Within
  <2>3. ASSUME NEW env \in errors[n], handle_protocol_error(n, env)
        PROVE  UNCHANGED <<player, outbox>>
    BY <2>3 DEF handle_protocol_error
  <2>4. ASSUME NEW env \in inbox[n], signer_handle(n, env)
        PROVE  UNCHANGED <<player, outbox>>
    BY <2>4 DEF signer_handle
  <2>5. ASSUME NEW env \in sent, redeliver(n, env)
        PROVE  UNCHANGED <<player, outbox>>
    BY <2>5 DEF redeliver
  <2>6. UNCHANGED <<player, outbox>> => GroupsKnown'
    BY <1>k DEF Within
  <2> QED BY <1>8, <2>1, <2>2, <2>3, <2>4, <2>5, <2>6
<1>9. ASSUME NEW n \in Node,
             \/ \E req \in Req : request_lost(n, req)
             \/ \E room \in Room : \/ handle_output_keygen(n, room)
                                   \/ handle_output_keygen_unsaved(n, room)
                                   \/ handle_output_sign(n, room)
      PROVE  GroupsKnown'
  <2>1. UNCHANGED <<player, outbox>>
    BY <1>9 DEF request_lost, handle_output_keygen, handle_output_keygen_unsaved,
       handle_output_sign
  <2> QED BY <1>k, <2>1 DEF Within
<1>11. ASSUME NEW n \in Node, send_panics(n) \/ stream_finished(n)
       PROVE  GroupsKnown'
  BY <1>s, <1>11 DEF send_panics, stream_finished
<1>10. CASE UNCHANGED vars
  <2>1. UNCHANGED <<player, outbox>>
    BY <1>10 DEF vars
  <2> QED BY <1>k, <2>1 DEF Within
<1> QED BY <1>1, <1>2, <1>3, <1>4, <1>5, <1>6, <1>8, <1>9, <1>10, <1>11
        DEF Next, NodeStep, RequestStep, FaultStep

-----------------------------------------------------------------------------
(* Seals. *)

(* New messages are sealed right, and what passed the check is plain. *)
LEMMA KeepSeals ==
    ASSUME Seals,
           \A e \in sent' : e \in sent \/ SealedRight(e),
           \A q \in Node : \A e \in wire'[q] : e \in wire[q] \/ SealedRight(e),
           \A q \in Node : \A e \in inbox'[q] \cup errors'[q] :
              e \in inbox[q] \cup errors[q] \/ e.lock = Plain,
           \A q \in Node : \A x \in timers'[q] :
              x \in timers[q] \/ IF x.check_passed THEN x.env.lock = Plain
                                 ELSE SealedRight(x.env)
    PROVE  Seals'
<1>1. \A e \in sent' : SealedRight(e)
  BY DEF Seals
<1>2. \A q \in Node : \A e \in wire'[q] : SealedRight(e)
  BY DEF Seals
<1>3. \A q \in Node : \A e \in inbox'[q] \cup errors'[q] : e.lock = Plain
  BY DEF Seals
<1>4. \A q \in Node : \A x \in timers'[q] :
         IF x.check_passed THEN x.env.lock = Plain ELSE SealedRight(x.env)
  BY DEF Seals
<1>5. \A e : SealedRight(e) <=> SealedRight(e)'
  BY DEF SealedRight
<1> QED BY <1>1, <1>2, <1>3, <1>4, <1>5 DEF Seals

(* A message that is routed in the state it should be in. *)
LEMMA LandSeals ==
    ASSUME Seals, NEW n \in Node, NEW rest, rest \subseteq timers[n], NEW env,
           NEW passed \in BOOLEAN, Lands(n, rest, env, passed),
           IF passed THEN env.lock = Plain ELSE SealedRight(env),
           sent' = sent, Within(wire', wire), Within(errors', errors)
    PROVE  Seals'
<1>1. \A q \in Node : \A e \in inbox'[q] : e \in inbox[q] \/ e.lock = Plain
  BY DEF Lands
<1>2. \A q \in Node : \A x \in timers'[q] :
         x \in timers[q] \/ (x.env = env /\ x.check_passed = passed)
  BY DEF Lands
<1>3. \A q \in Node : \A x \in timers'[q] :
         x \in timers[q] \/ IF x.check_passed THEN x.env.lock = Plain
                            ELSE SealedRight(x.env)
  BY <1>2
<1> QED BY <1>1, <1>3, KeepSeals DEF Within

(* A server that loses its memory keeps nothing that could be sealed wrong. *)
LEMMA LoseSeals ==
    ASSUME TypeOK, Seals, NEW n \in Node, LoseMemory(n), sent' = sent,
           \A q \in Node : wire'[q] \subseteq wire[q] \cup sent
    PROVE  Seals'
<1>1. \A q \in Node : /\ inbox'[q] \subseteq inbox[q]
                      /\ errors'[q] \subseteq errors[q]
                      /\ timers'[q] \subseteq timers[q]
  BY DEF LoseMemory, TypeOK
<1>2. \A q \in Node : \A e \in wire'[q] : e \in wire[q] \/ SealedRight(e)
  BY DEF Seals
<1> QED BY <1>1, <1>2, KeepSeals

(* Every step keeps Seals. *)
LEMMA SealsStep == Provenance /\ Seals /\ [Next]_vars => Seals'
<1> SUFFICES ASSUME Provenance, Seals, [Next]_vars PROVE Seals'
  OBVIOUS
<1> USE DEF storeVars, apiVars, nodeVars, runnerVars, retryVars, mailVars,
            actorVars, brokerVars, faultVars
<1>t. /\ TypeOK
      /\ wire \in [Node -> SUBSET Envelope] /\ inbox \in [Node -> SUBSET Envelope]
      /\ errors \in [Node -> SUBSET Envelope] /\ timers \in [Node -> SUBSET RetryMessage]
  BY DEF Provenance, TypeOK
<1>k. ASSUME UNCHANGED <<sent, wire, errors, timers>>, Within(inbox', inbox)
      PROVE  Seals'
  BY <1>k, KeepSeals DEF Within
<1>s. ASSUME NEW n \in Node, StopCoordinator(n), sent' = sent
      PROVE  Seals'
  <2>1. LoseMemory(n) /\ \A q \in Node : wire'[q] \subseteq wire[q] \cup sent
    BY <1>t, <1>s DEF StopCoordinator
  <2> QED BY <1>t, <1>s, <2>1, LoseSeals
<1>1. ASSUME NEW n \in Node, NEW env \in wire[n], handle_incoming(n, env)
      PROVE  Seals'
  <2>0. env \in Envelope /\ SealedRight(env)
    BY <1>t DEF Seals
  <2>6. sent' = sent
    BY <1>1, IncomingEffects
  <2> SUFFICES ASSUME ~StopCoordinator(n) PROVE Seals'
    BY <1>s, <2>6
  <2>1. /\ UNCHANGED <<sent, errors>>
        /\ wire' = [wire EXCEPT ![n] = @ \ {env}]
    BY <1>1, IncomingEffects
  <2>2. Within(wire', wire) /\ Within(errors', errors)
    BY <1>t, <2>1 DEF Within
  <2>3. CASE DropIncoming
    BY <2>1, <2>2, <2>3, KeepSeals DEF DropIncoming, Within
  <2>4. CASE Lands(n, timers[n], env, FALSE)
    <3>1. timers[n] \subseteq timers[n]
      OBVIOUS
    <3> QED BY <2>0, <2>1, <2>2, <2>4, <3>1, LandSeals
  <2>5. ASSUME NEW e \in maybe_decrypt(n, env), Lands(n, timers[n], e, TRUE)
        PROVE  Seals'
    <3>1. timers[n] \subseteq timers[n] /\ e.lock = Plain
      BY <2>0, OpenIsPlain
    <3> QED BY <2>1, <2>2, <2>5, <3>1, LandSeals
  <2> QED BY <1>t, <1>1, <2>0, <2>3, <2>4, <2>5, IncomingLands
<1>2. ASSUME NEW n \in Node, NEW x \in timers[n], handle_retry(n, x)
      PROVE  Seals'
  <2>0. /\ x.env \in Envelope
        /\ IF x.check_passed THEN x.env.lock = Plain ELSE SealedRight(x.env)
    BY <1>t DEF Seals, RetryMessage
  <2>7. sent' = sent
    BY <1>2, RetriedEffects
  <2> SUFFICES ASSUME ~StopCoordinator(n) PROVE Seals'
    BY <1>s, <2>7
  <2>1. UNCHANGED <<sent, errors, wire>>
    BY <1>2, RetriedEffects
  <2> DEFINE rest == timers[n] \ {x}
  <2>2. Within(wire', wire) /\ Within(errors', errors) /\ rest \subseteq timers[n]
    BY <2>1 DEF Within
  <2>4. CASE x.check_passed /\ Lands(n, timers[n] \ {x}, x.env, TRUE)
    BY <2>0, <2>1, <2>2, <2>4, LandSeals
  <2>5. CASE ~x.check_passed /\ Lands(n, timers[n] \ {x}, x.env, FALSE)
    BY <2>0, <2>1, <2>2, <2>5, LandSeals
  <2>6. ASSUME ~x.check_passed, NEW e \in maybe_decrypt(n, x.env),
               Lands(n, timers[n] \ {x}, e, TRUE)
        PROVE  Seals'
    <3>1. e.lock = Plain
      BY <2>0, <2>6, OpenIsPlain
    <3> QED BY <2>1, <2>2, <2>6, <3>1, LandSeals
  <2> QED BY <1>t, <1>2, <2>4, <2>5, <2>6, TimerLands
<1>3. ASSUME NEW n \in Node, NEW env \in errors[n], handle_protocol_error(n, env)
      PROVE  Seals'
  <2>1. /\ UNCHANGED <<sent, wire, inbox>>
        /\ errors' = [errors EXCEPT ![n] = @ \ {env}]
        /\ retry(n, timers[n], env, 1, TRUE)
    BY <1>3 DEF handle_protocol_error
  <2>2. Within(wire', wire) /\ Within(errors', errors) /\ timers[n] \subseteq timers[n]
    BY <1>t, <2>1 DEF Within
  <2>3. env.lock = Plain
    BY DEF Seals
  <2>4. Lands(n, timers[n], env, TRUE)
    BY <1>t, <2>1, RetryLands
  <2> QED BY <2>1, <2>2, <2>3, <2>4, LandSeals
<1>4. ASSUME NEW n \in Node, NEW m \in outbox[n],
             \/ send_one(n, m) \/ encrypt_fails(n, m)
             \/ send_lost(n, m) \/ send_fails(n, m)
      PROVE  Seals'
  <2>1. TakeOut(n, m) /\ (Broadcast(n, m) \/ UNCHANGED brokerVars)
    BY <1>4, SendEffects
  <2>2. UNCHANGED <<errors, timers, inbox>>
    BY <2>1 DEF TakeOut
  <2>3. m \in Msg
    BY <1>t DEF TypeOK
  <2>4. \A e \in maybe_encrypt(n, m) : SealedRight(e)
    BY <1>t, <2>3, EncryptSeals
  <2>5. \A e \in sent' : e \in sent \/ SealedRight(e)
    BY <2>1, <2>4 DEF Broadcast
  <2>6. \A q \in Node : \A e \in wire'[q] : e \in wire[q] \/ SealedRight(e)
    BY <2>1, <2>4 DEF Broadcast
  <2> QED BY <2>2, <2>5, <2>6, KeepSeals
<1>5. ASSUME NEW n \in Node, NEW env \in inbox[n], player_handle(n, env)
      PROVE  Seals'
  <2>1. /\ UNCHANGED <<sent, wire, timers>>
        /\ inbox' = [inbox EXCEPT ![n] = @ \ {env}]
        /\ errors' = errors \/ errors' = [errors EXCEPT ![n] = @ \cup {env}]
    BY <1>5 DEF player_handle
  <2>2. env.lock = Plain
    BY DEF Seals
  <2>3. \A q \in Node : \A e \in inbox'[q] \cup errors'[q] :
              e \in inbox[q] \cup errors[q] \/ e.lock = Plain
    BY <1>t, <2>1, <2>2
  <2> QED BY <2>1, <2>3, KeepSeals
<1>6. ASSUME NEW n \in Node, NEW env \in inbox[n],
             player_proceed_fails(n, env) \/ signer_handle(n, env)
      PROVE  Seals'
  <2>1. /\ UNCHANGED <<sent, wire, errors, timers>>
        /\ inbox' = [inbox EXCEPT ![n] = @ \ {env}]
    BY <1>6 DEF player_proceed_fails, signer_handle
  <2>2. Within(inbox', inbox)
    BY <1>t, <2>1 DEF Within
  <2> QED BY <1>k, <2>1, <2>2
<1>7. ASSUME NEW n \in Node, NEW env \in sent, redeliver(n, env)
      PROVE  Seals'
  <2> DEFINE d == [env EXCEPT !.msg.copy = faults']
  <2>1. /\ UNCHANGED <<sent, inbox, errors, timers>>
        /\ wire' = [wire EXCEPT ![n] = @ \cup {d}]
    BY <1>7 DEF redeliver
  <2>2. env \in Envelope /\ SealedRight(env)
    BY <1>t DEF TypeOK, Seals
  <2>3. /\ d.lock = env.lock /\ d.msg.receiver = env.msg.receiver
        /\ d.msg.room = env.msg.room
    BY <2>2 DEF Envelope, Msg
  <2> HIDE DEF d
  <2>4. SealedRight(d)
    BY <2>2, <2>3 DEF SealedRight
  <2>5. \A q \in Node : \A e \in wire'[q] : e \in wire[q] \/ e = d
    BY <1>t, <2>1
  <2> QED BY <2>1, <2>4, <2>5, KeepSeals
<1>8. ASSUME NEW n \in Node, restart(n)
      PROVE  Seals'
  <2>1. sent' = sent /\ LoseMemory(n) /\ Resubscribe(n)
    BY <1>8 DEF restart
  <2>2. \A q \in Node : wire'[q] \subseteq wire[q] \cup sent
    BY <1>t, <2>1 DEF Resubscribe
  <2> QED BY <1>t, <2>1, <2>2, LoseSeals
<1>9. ASSUME NEW n \in Node, NEW req \in Req,
             \/ request_lost(n, req)
             \/ handle_keygen_request(n, req) \/ handle_sign_request(n, req)
      PROVE  Seals'
  <2>1. sent' = sent /\ (StopCoordinator(n) \/ UNCHANGED <<wire, errors, timers, inbox>>)
    BY <1>9, KeygenEffects, SignEffects DEF request_lost
  <2> QED BY <1>k, <1>s, <2>1 DEF Within
<1>10. ASSUME NEW n \in Node, NEW room \in Room,
              \/ player_maybe_proceed(n, room)
              \/ handle_output_keygen(n, room) \/ handle_output_keygen_unsaved(n, room)
              \/ handle_output_offline(n, room) \/ handle_output_sign(n, room)
       PROVE  Seals'
  <2>1. UNCHANGED <<sent, wire, errors, timers, inbox>>
    BY <1>10 DEF player_maybe_proceed, handle_output_keygen,
       handle_output_keygen_unsaved, handle_output_offline, handle_output_sign
  <2> QED BY <1>k, <2>1 DEF Within
<1>11. ASSUME NEW n \in Node, send_panics(n) \/ stream_finished(n)
       PROVE  Seals'
  BY <1>s, <1>11 DEF send_panics, stream_finished
<1>12. CASE UNCHANGED vars
  <2>1. UNCHANGED <<sent, wire, errors, timers, inbox>>
    BY <1>12 DEF vars
  <2> QED BY <1>k, <2>1 DEF Within
<1> QED BY <1>1, <1>2, <1>3, <1>4, <1>5, <1>6, <1>7, <1>8, <1>9, <1>10, <1>11, <1>12
        DEF Next, NodeStep, RequestStep, FaultStep

-----------------------------------------------------------------------------
(* No message is lost. *)

(* A message stays held if each place that holds it still does, or another
   one does. *)
LEMMA KeepHeld ==
    ASSUME NEW n \in Node, NEW m, Held(n, m),
           \A e \in wire[n] \cup inbox[n] \cup errors[n] :
              e.msg = m => e \in wire'[n] \cup inbox'[n] \cup errors'[n] \/ Held(n, m)',
           \A x \in timers[n] : x.env.msg = m => x \in timers'[n] \/ Held(n, m)',
           dropped[n] \subseteq dropped'[n],
           player[n][m.room].store \subseteq player'[n][m.room].store,
           \A x \in DOMAIN partial_sigs[n][m.room] :
              /\ x \in DOMAIN partial_sigs'[n][m.room]
              /\ partial_sigs'[n][m.room][x] = partial_sigs[n][m.room][x]
    PROVE  Held(n, m)'
<1>1. CASE \E e \in wire[n] \cup inbox[n] \cup errors[n] : e.msg = m
  BY <1>1 DEF Held
<1>2. CASE \E x \in timers[n] : x.env.msg = m
  BY <1>2 DEF Held
<1>3. CASE m \in dropped[n]
  BY <1>3 DEF Held
<1>4. CASE m.kind = "S" /\ \E x \in DOMAIN partial_sigs[n][m.room] :
                              partial_sigs[n][m.room][x] = m
  BY <1>4 DEF Held
<1>5. CASE m.kind # "S" /\ <<m.sender, m.round>> \in player[n][m.room].store
  BY <1>5 DEF Held
<1> QED BY <1>1, <1>2, <1>3, <1>4, <1>5 DEF Held

(* NothingLost in terms of Owed. *)
LEMMA NothingLostOwed ==
    NothingLost <=> \A n \in Watched : \A e \in sent :
                       Owed(n, e.msg) => Held(n, e.msg)
  BY DEF NothingLost, Owed, Watched

(* The same of the next state: what is owed does not change. *)
LEMMA NothingLostOwedNext ==
    NothingLost' <=> \A n \in Watched' : \A e \in sent' :
                       Owed(n, e.msg) => Held(n, e.msg)'
  BY DEF NothingLost, Owed, Watched

(* A step that leaves the coordinators alone watches the same servers. *)
LEMMA SameWatched == ASSUME UNCHANGED <<up, restarted>> PROVE Watched' = Watched
  BY DEF Watched

(* A step that keeps every owed message held, and publishes nothing. *)
LEMMA KeepNothingLost ==
    ASSUME NothingLost, TypeOK, sent' = sent, Watched' \subseteq Watched,
           \A n \in Node, m \in Msg :
              /\ n \in Watched' /\ Owed(n, m) /\ Held(n, m)
              /\ \E e \in sent : e.msg = m
              => Held(n, m)'
    PROVE  NothingLost'
<1>1. ASSUME NEW n \in Watched', NEW e \in sent', Owed(n, e.msg)
      PROVE  Held(n, e.msg)'
  <2>1. e.msg \in Msg /\ e \in sent
    BY DEF TypeOK, Envelope
  <2>2. n \in Node /\ Held(n, e.msg)
    BY <1>1, NothingLostOwed DEF Watched
  <2> QED BY <1>1, <2>1, <2>2
<1> QED BY <1>1, NothingLostOwedNext

(* A step that empties no mailbox and takes nothing back from an actor. *)
LEMMA GrowKeepsHeld ==
    ASSUME NothingLost, TypeOK, sent' = sent, Watched' \subseteq Watched,
           \A n \in Node : /\ wire[n] \subseteq wire'[n]
                           /\ inbox[n] \subseteq inbox'[n]
                           /\ errors[n] \subseteq errors'[n]
                           /\ timers[n] \subseteq timers'[n]
                           /\ dropped[n] \subseteq dropped'[n],
           \A n \in Node, room \in Room :
              /\ player[n][room].store \subseteq player'[n][room].store
              /\ partial_sigs'[n][room] = partial_sigs[n][room]
    PROVE  NothingLost'
<1>1. ASSUME NEW n \in Node, n \in Watched', NEW m \in Msg, Owed(n, m), Held(n, m)
      PROVE  Held(n, m)'
  <2>1. m.room \in Room
    BY DEF Msg
  <2> QED BY <1>1, <2>1, KeepHeld
<1> QED BY <1>1, KeepNothingLost

(* A message that is routed stays held. *)
LEMMA LandHeld ==
    ASSUME NEW n \in Node, NEW rest, NEW env, NEW passed, Lands(n, rest, env, passed)
    PROVE  Held(n, env.msg)'
<1>1. CASE env \in inbox'[n]
  BY <1>1 DEF Held
<1>2. CASE env.msg \in dropped'[n]
  BY <1>2 DEF Held
<1>3. CASE \E x \in timers'[n] : x.env = env
  BY <1>3 DEF Held
<1> QED BY <1>1, <1>2, <1>3 DEF Lands

(* Routing a message taken from the wire, a timer or the errors keeps every
   owed message held: the one that moves lands, the others stay. *)
LEMMA LandKeepsHeld ==
    ASSUME NothingLost, TypeOK, NEW n \in Node, NEW rest, NEW env, NEW passed,
           Lands(n, rest, env, passed),
           UNCHANGED <<sent, up, restarted, player, partial_sigs>>,
           \A q \in Node \ {n} : wire'[q] = wire[q] /\ errors'[q] = errors[q],
           \A e \in wire[n] \cup errors[n] :
              e \in wire'[n] \cup errors'[n] \/ e.msg = env.msg,
           \A x \in timers[n] : x \in rest \/ x.env.msg = env.msg
    PROVE  NothingLost'
<1>0. Watched' \subseteq Watched
  BY SameWatched
<1>1. ASSUME NEW q \in Node, q \in Watched', NEW m \in Msg, Owed(q, m), Held(q, m)
      PROVE  Held(q, m)'
  <2>1. inbox[q] \subseteq inbox'[q] /\ dropped[q] \subseteq dropped'[q]
    BY DEF Lands
  <2>2. CASE q # n
    <3>1. timers'[q] = timers[q] /\ wire'[q] = wire[q] /\ errors'[q] = errors[q]
      BY <2>2 DEF Lands
    <3> QED BY <1>1, <2>1, <3>1, KeepHeld
  <2>3. CASE q = n
    <3>1. Held(n, env.msg)'
      BY LandHeld
    <3>2. rest \subseteq timers'[n]
      BY DEF Lands
    <3>3. \A e \in wire[q] \cup inbox[q] \cup errors[q] :
             e.msg = m => e \in wire'[q] \cup inbox'[q] \cup errors'[q] \/ Held(q, m)'
      BY <2>1, <2>3, <3>1
    <3>4. \A x \in timers[q] : x.env.msg = m => x \in timers'[q] \/ Held(q, m)'
      BY <2>3, <3>1, <3>2
    <3> QED BY <1>1, <2>1, <3>3, <3>4, KeepHeld
  <2> QED BY <2>2, <2>3
<1> QED BY <1>0, <1>1, KeepNothingLost

(* A coordinator that stops, or whose server restarts, takes its own messages
   with it, and no one else's. *)
LEMMA LoseOnlyOwn ==
    ASSUME NothingLost, TypeOK, NEW n \in Node, LoseMemory(n), sent' = sent,
           \A q \in Node \ {n} : wire'[q] = wire[q],
           Watched' \subseteq Watched \ {n}
    PROVE  NothingLost'
<1>1. ASSUME NEW q \in Node, q # n
      PROVE  /\ inbox'[q] = inbox[q] /\ errors'[q] = errors[q]
             /\ timers'[q] = timers[q] /\ dropped'[q] = dropped[q]
             /\ player'[q] = player[q] /\ partial_sigs'[q] = partial_sigs[q]
  BY <1>1 DEF LoseMemory, TypeOK
<1>2. ASSUME NEW q \in Node, q \in Watched', NEW m \in Msg, Held(q, m)
      PROVE  Held(q, m)'
  <2>1. q # n
    BY <1>2
  <2>2. wire'[q] = wire[q]
    BY <2>1
  <2> QED BY <1>1, <1>2, <2>1, <2>2, KeepHeld
<1> QED BY <1>2, KeepNothingLost

(* A coordinator stops. *)
LEMMA StopLosesOnlyOwn ==
    ASSUME NothingLost, TypeOK, NEW n \in Node, StopCoordinator(n),
           UNCHANGED <<sent, restarted>>
    PROVE  NothingLost'
<1>1. LoseMemory(n) /\ \A q \in Node \ {n} : wire'[q] = wire[q]
  BY DEF StopCoordinator, TypeOK
<1>2. \A q \in Node : up'[q] = (up[q] /\ q # n)
  BY DEF StopCoordinator, TypeOK
<1>3. Watched' \subseteq Watched \ {n}
  BY <1>2 DEF Watched
<1> QED BY <1>1, <1>3, LoseOnlyOwn

(* An owed message is from someone else, whatever index it claims. *)
LEMMA OwedFromOther ==
    ASSUME TypeOK, Lifecycle, NEW n \in Node, NEW e \in sent, Owed(n, e.msg)
    PROVE  e.msg.sender # Me(n, e.msg.room)
<1> DEFINE m == e.msg
<1>1. m \in Msg /\ m.key \in Node /\ m.room \in Room
  BY DEF TypeOK, Envelope, Msg
<1>2. m.sender # None /\ m.sender = Me(m.key, m.room)
  BY DEF Lifecycle, MessagesFromParties, FromParty
<1>3. Members(m.room)[m.sender] = m.key
  <2> HIDE DEF m
  <2> QED BY <1>1, <1>2, MeType
<1>4. Members(m.room)[Me(n, m.room)] = n /\ m.key # n
  BY <1>1, MeType DEF Owed
<1> QED BY <1>3, <1>4

(* Publishing a message puts it on the wire of every other server whose
   coordinator runs. *)
LEMMA BroadcastHeld ==
    ASSUME NothingLost, Provenance, Lifecycle, NEW n \in Node, NEW m \in outbox[n],
           Broadcast(n, m), UNCHANGED <<inbox, errors, timers, dropped, player,
                                        partial_sigs, up, restarted>>
    PROVE  NothingLost'
<1>0. TypeOK /\ m \in Msg /\ m.key = n
  BY DEF Provenance, TypeOK, Lifecycle, MessagesFromParties
<1>1. \A q \in Node : wire[q] \subseteq wire'[q]
  BY DEF Broadcast
<1>2. ASSUME NEW q \in Watched', NEW e \in sent', Owed(q, e.msg)
      PROVE  Held(q, e.msg)'
  <2>0. q \in Node /\ q \in Watched /\ up[q]
    BY DEF Watched
  <2>1. CASE e \in sent
    <3>1. Held(q, e.msg)
      BY <1>2, <2>0, <2>1, NothingLostOwed
    <3>2. e.msg.room \in Room
      BY <1>0, <2>1 DEF TypeOK, Envelope, Msg
    <3> QED BY <1>1, <2>0, <3>1, <3>2, KeepHeld
  <2>2. CASE e \in maybe_encrypt(n, m)
    <3>1. e.msg = m
      BY <1>0, <2>2, EncryptType
    <3>2. q # n
      BY <1>0, <1>2, <3>1 DEF Owed
    <3>3. e \in wire'[q]
      BY <2>0, <2>2, <3>2 DEF Broadcast
    <3> QED BY <3>3 DEF Held
  <2> QED BY <2>1, <2>2 DEF Broadcast
<1> QED BY <1>2, NothingLostOwedNext

(* A player takes a message in, or gives it back as an error. *)
LEMMA TakenHeld ==
    ASSUME NothingLost, Provenance, Lifecycle, NEW n \in Node, NEW env \in inbox[n],
           env.msg.kind # "S", inbox' = [inbox EXCEPT ![n] = @ \ {env}],
           UNCHANGED <<sent, wire, timers, dropped, partial_sigs, up, restarted>>,
           \A q \in Node : errors[q] \subseteq errors'[q],
           \A q \in Node, room \in Room : player[q][room].store \subseteq player'[q][room].store,
           \/ env.msg.sender = Me(n, env.msg.room)
           \/ env.msg.receiver \notin {None, Me(n, env.msg.room)}
           \/ env \in errors'[n]
           \/ <<env.msg.sender, env.msg.round>> \in player'[n][env.msg.room].store
    PROVE  NothingLost'
<1>0. TypeOK /\ inbox \in [Node -> SUBSET Envelope] /\ Watched' \subseteq Watched
  BY SameWatched DEF Provenance, TypeOK
<1>1. ASSUME NEW q \in Node, q \in Watched', NEW m \in Msg, NEW d \in sent, d.msg = m,
             Owed(q, m), Held(q, m)
      PROVE  Held(q, m)'
  <2>1. m.room \in Room
    BY DEF Msg
  <2>2. \A e \in inbox[q] : e \in inbox'[q] \/ (q = n /\ e = env)
    BY <1>0
  <2>3. CASE q = n /\ env.msg = m
    <3>1. env.msg.sender # Me(n, env.msg.room)
      BY <1>0, <1>1, <2>3, OwedFromOther
    <3>2. env.msg.receiver \in {None, Me(n, env.msg.room)}
      BY <1>1, <2>3 DEF Owed
    <3> QED BY <2>3, <3>1, <3>2 DEF Held
  <2>4. CASE ~(q = n /\ env.msg = m)
    BY <1>1, <2>1, <2>2, <2>4, KeepHeld
  <2> QED BY <2>3, <2>4
<1> QED BY <1>0, <1>1, KeepNothingLost

(* Appending keeps what a sequence holds and adds one element. *)
LEMMA AppendHolds ==
    ASSUME NEW S, NEW old \in Seq(S), NEW x \in S
    PROVE  LET sigs == Append(old, x)
           IN  /\ \A k \in DOMAIN old : k \in DOMAIN sigs /\ sigs[k] = old[k]
               /\ Len(old) + 1 \in DOMAIN sigs /\ sigs[Len(old) + 1] = x
  OBVIOUS

(* A signer takes a partial signature in. *)
LEMMA SignedHeld ==
    ASSUME NothingLost, Provenance, Lifecycle, NEW n \in Node, NEW env \in inbox[n],
           signer_handle(n, env)
    PROVE  NothingLost'
<1> USE DEF storeVars, apiVars, nodeVars, runnerVars, retryVars, mailVars,
            brokerVars, faultVars
<1> DEFINE room == env.msg.room
           old == partial_sigs[n][room]
           sigs == Append(old, env.msg)
<1>0. /\ TypeOK /\ inbox \in [Node -> SUBSET Envelope]
      /\ partial_sigs \in [Node -> [Room -> Seq(Msg)]]
  BY DEF Provenance, TypeOK
<1>1. /\ UNCHANGED <<sent, wire, errors, timers, dropped, player, up, restarted>>
      /\ inbox' = [inbox EXCEPT ![n] = @ \ {env}]
      /\ env.msg.kind = "S"
      /\ IF env.msg.sender = Me(n, room) THEN partial_sigs' = partial_sigs
         ELSE partial_sigs' = [partial_sigs EXCEPT ![n][room] = sigs]
  BY DEF signer_handle
<1>2. env.msg \in Msg /\ room \in Room
  BY <1>0 DEF Envelope, Msg
<1>3. /\ \A x \in DOMAIN old : x \in DOMAIN sigs /\ sigs[x] = old[x]
      /\ Len(old) + 1 \in DOMAIN sigs /\ sigs[Len(old) + 1] = env.msg
  <2>1. old \in Seq(Msg)
    BY <1>0, <1>2
  <2> HIDE DEF old
  <2> QED BY <1>2, <2>1, AppendHolds
<1>4. \A q \in Node, o \in Room :
         \/ partial_sigs'[q][o] = partial_sigs[q][o]
         \/ q = n /\ o = room /\ partial_sigs'[q][o] = sigs
  <2> HIDE DEF sigs, room
  <2> QED BY <1>0, <1>1, <1>2
<1>5. env.msg.sender # Me(n, room) => partial_sigs'[n][room] = sigs
  <2> HIDE DEF sigs, room
  <2> QED BY <1>0, <1>1, <1>2
<1>6. \A q \in Node, o \in Room : \A x \in DOMAIN partial_sigs[q][o] :
         /\ x \in DOMAIN partial_sigs'[q][o]
         /\ partial_sigs'[q][o][x] = partial_sigs[q][o][x]
  <2> HIDE DEF sigs, room, old
  <2>1. old = partial_sigs[n][room]
    BY DEF old
  <2> QED BY <1>3, <1>4, <2>1
<1>7. ASSUME NEW q \in Node, q \in Watched', NEW m \in Msg, NEW d \in sent, d.msg = m,
             Owed(q, m), Held(q, m)
      PROVE  Held(q, m)'
  <2>1. m.room \in Room
    BY DEF Msg
  <2>2. \A e \in inbox[q] : e \in inbox'[q] \/ (q = n /\ e = env)
    BY <1>0, <1>1
  <2>3. CASE q = n /\ env.msg = m
    <3>1. m.sender # Me(n, room)
      BY <1>0, <1>7, <2>3, OwedFromOther
    <3>2. partial_sigs'[n][m.room] = sigs /\ m.kind = "S" /\ sigs[Len(old) + 1] = m
      BY <1>1, <1>3, <1>5, <2>3, <3>1
    <3> HIDE DEF sigs, old
    <3> QED BY <1>3, <2>3, <3>2 DEF Held
  <2>4. CASE ~(q = n /\ env.msg = m)
    <3>1. \A x \in DOMAIN partial_sigs[q][m.room] :
             /\ x \in DOMAIN partial_sigs'[q][m.room]
             /\ partial_sigs'[q][m.room][x] = partial_sigs[q][m.room][x]
      BY <1>6, <2>1
    <3> QED BY <1>1, <1>7, <2>2, <2>4, <3>1, KeepHeld
  <2> QED BY <2>3, <2>4
<1>8. Watched' \subseteq Watched
  BY <1>1, SameWatched
<1> QED BY <1>0, <1>1, <1>7, <1>8, KeepNothingLost

(* A message that a server drops was not owed to it. *)
LEMMA DropKeepsHeld ==
    ASSUME NothingLost, TypeOK, NEW n \in Node, NEW gone, ~Owed(n, gone),
           UNCHANGED <<sent, inbox, errors, dropped, player, partial_sigs, up, restarted>>,
           timers' = timers,
           \A q \in Node : \A e \in wire[q] : e \in wire'[q] \/ (q = n /\ e.msg = gone)
    PROVE  NothingLost'
<1>0. Watched' \subseteq Watched
  BY SameWatched
<1>1. ASSUME NEW q \in Node, q \in Watched', NEW m \in Msg, Owed(q, m), Held(q, m)
      PROVE  Held(q, m)'
  <2>1. \A e \in wire[q] \cup inbox[q] \cup errors[q] :
           e.msg = m => e \in wire'[q] \cup inbox'[q] \cup errors'[q]
    BY <1>1
  <2> QED BY <1>1, <2>1, KeepHeld
<1> QED BY <1>0, <1>1, KeepNothingLost

(* A step of the coordinator's routing loses nothing that is owed. *)
LEMMA RoutingLosesNothing ==
    ASSUME NothingLost, Provenance, Seals, NEW n \in Node,
           \/ \E env \in wire[n] : handle_incoming(n, env)
           \/ \E x \in timers[n] : handle_retry(n, x)
           \/ \E env \in errors[n] : handle_protocol_error(n, env)
    PROVE  NothingLost'
<1> USE DEF storeVars, apiVars, nodeVars, runnerVars, retryVars, mailVars,
            actorVars, brokerVars, faultVars
<1>t. /\ TypeOK
      /\ wire \in [Node -> SUBSET Envelope] /\ errors \in [Node -> SUBSET Envelope]
      /\ timers \in [Node -> SUBSET RetryMessage]
  BY DEF Provenance, TypeOK
<1>1. ASSUME NEW env \in wire[n], handle_incoming(n, env)
      PROVE  NothingLost'
  <2>0. env \in Envelope /\ SealedRight(env)
    BY <1>t DEF Seals
  <2>6. UNCHANGED <<sent, restarted>>
    BY <1>1, IncomingEffects
  <2> SUFFICES ASSUME ~StopCoordinator(n) PROVE NothingLost'
    BY <1>t, <2>6, StopLosesOnlyOwn
  <2>1. /\ UNCHANGED <<sent, errors, up, restarted, player, partial_sigs>>
        /\ wire' = [wire EXCEPT ![n] = @ \ {env}]
    BY <1>1, IncomingEffects
  <2>2. /\ \A q \in Node \ {n} : wire'[q] = wire[q] /\ errors'[q] = errors[q]
        /\ \A e \in wire[n] \cup errors[n] : e \in wire'[n] \cup errors'[n] \/ e = env
    BY <1>t, <2>1
  <2>3. CASE DropIncoming /\ ~Owed(n, env.msg)
    <3>1. UNCHANGED <<inbox, timers, dropped>>
      BY <2>3 DEF DropIncoming
    <3>2. \A q \in Node : \A e \in wire[q] : e \in wire'[q] \/ (q = n /\ e.msg = env.msg)
      BY <1>t, <2>1
    <3> QED BY <1>t, <2>1, <2>3, <3>1, <3>2, DropKeepsHeld
  <2>4. CASE Lands(n, timers[n], env, FALSE)
    BY <1>t, <2>1, <2>2, <2>4, LandKeepsHeld
  <2>5. ASSUME NEW e \in maybe_decrypt(n, env), Lands(n, timers[n], e, TRUE)
        PROVE  NothingLost'
    <3>1. e.msg = env.msg
      BY <2>0, OpenIsPlain
    <3> QED BY <1>t, <2>1, <2>2, <2>5, <3>1, LandKeepsHeld
  <2> QED BY <1>t, <1>1, <2>0, <2>3, <2>4, <2>5, IncomingLands
<1>2. ASSUME NEW x \in timers[n], handle_retry(n, x)
      PROVE  NothingLost'
  <2> DEFINE rest == timers[n] \ {x}
  <2>0. /\ x.env \in Envelope
        /\ x.check_passed \/ SealedRight(x.env)
        /\ \A y \in timers[n] : y \in rest \/ y = x
    BY <1>t DEF Seals, RetryMessage
  <2>3. UNCHANGED <<sent, restarted>>
    BY <1>2, RetriedEffects
  <2> SUFFICES ASSUME ~StopCoordinator(n) PROVE NothingLost'
    BY <1>t, <2>3, StopLosesOnlyOwn
  <2>1. UNCHANGED <<sent, errors, wire, up, restarted, player, partial_sigs>>
    BY <1>2, RetriedEffects
  <2>4. ASSUME NEW e, NEW passed, Lands(n, rest, e, passed), e.msg = x.env.msg
        PROVE  NothingLost'
    <3>1. \A y \in timers[n] : y \in rest \/ y.env.msg = e.msg
      BY <2>0, <2>4
    <3> HIDE DEF rest
    <3> QED BY <1>t, <2>1, <2>4, <3>1, LandKeepsHeld
  <2>5. ASSUME ~x.check_passed, NEW e \in maybe_decrypt(n, x.env),
               Lands(n, timers[n] \ {x}, e, TRUE)
        PROVE  NothingLost'
    <3>1. x.env \in Envelope /\ SealedRight(x.env)
      BY <2>0, <2>5
    <3>2. e.msg = x.env.msg
      BY <3>1, OpenIsPlain
    <3> QED BY <2>4, <2>5, <3>2
  <2>6. CASE x.check_passed /\ Lands(n, timers[n] \ {x}, x.env, TRUE)
    BY <2>4, <2>6
  <2>7. CASE ~x.check_passed /\ Lands(n, timers[n] \ {x}, x.env, FALSE)
    BY <2>4, <2>7
  <2> QED BY <1>t, <1>2, <2>5, <2>6, <2>7, TimerLands
<1>3. ASSUME NEW env \in errors[n], handle_protocol_error(n, env)
      PROVE  NothingLost'
  <2>1. /\ UNCHANGED <<sent, wire, inbox, up, restarted, player, partial_sigs>>
        /\ errors' = [errors EXCEPT ![n] = @ \ {env}]
        /\ retry(n, timers[n], env, 1, TRUE)
    BY <1>3 DEF handle_protocol_error
  <2>2. /\ \A q \in Node \ {n} : wire'[q] = wire[q] /\ errors'[q] = errors[q]
        /\ \A e \in wire[n] \cup errors[n] : e \in wire'[n] \cup errors'[n] \/ e = env
    BY <1>t, <2>1
  <2>3. Lands(n, timers[n], env, TRUE)
    BY <1>t, <2>1, RetryLands
  <2> QED BY <1>t, <2>1, <2>2, <2>3, LandKeepsHeld
<1> QED BY <1>1, <1>2, <1>3

(* What player_proceed_fails does to the mailboxes. *)
LEMMA ProceedFailsEffect ==
    ASSUME NEW n, NEW env, player_proceed_fails(n, env)
    PROVE  /\ UNCHANGED <<sent, wire, timers, dropped, errors, partial_sigs, up, restarted>>
           /\ inbox' = [inbox EXCEPT ![n] = @ \ {env}]
           /\ env.msg.kind # "S"
<1>1. env.msg.kind # "S" /\ inbox' = [inbox EXCEPT ![n] = @ \ {env}]
  BY DEF player_proceed_fails
<1>2. UNCHANGED <<retryVars, mailVars, brokerVars>>
  BY DEF player_proceed_fails
<1>3. UNCHANGED <<partial_sigs, nodeVars, restarted>>
  BY DEF player_proceed_fails
<1> QED BY <1>1, <1>2, <1>3 DEF retryVars, mailVars, brokerVars, nodeVars

(* A player's step loses nothing: a message it takes in is ignored for good
   reason, given back, or counted. *)
LEMMA PlayerLosesNothing ==
    ASSUME NothingLost, Provenance, Lifecycle, NEW n \in Node,
           \/ \E room \in Room : player_maybe_proceed(n, room)
           \/ \E env \in inbox[n] : player_handle(n, env)
           \/ \E env \in inbox[n] : player_proceed_fails(n, env)
    PROVE  NothingLost'
<1> USE DEF storeVars, apiVars, nodeVars, runnerVars, retryVars, mailVars,
            actorVars, brokerVars, faultVars
<1>t. /\ TypeOK /\ player \in [Node -> [Room -> PlayerState]]
      /\ inbox \in [Node -> SUBSET Envelope] /\ errors \in [Node -> SUBSET Envelope]
  BY DEF Provenance, TypeOK
<1>p. ASSUME NEW room \in Room, NEW store, NEW heard,
             player[n][room].store \subseteq store, maybe_proceed(n, room, store, heard)
      PROVE  /\ \A q \in Node, o \in Room : player[q][o].store \subseteq player'[q][o].store
             /\ player'[n][room].store = store
  <2>1. \A q \in Node, o \in Room :
           IF q = n /\ o = room THEN player'[q][o].store = store
           ELSE player'[q][o] = player[q][o]
    BY <1>t, <1>p, ProceedEffects
  <2> QED BY <1>p, <2>1
<1>1. ASSUME NEW room \in Room, player_maybe_proceed(n, room)
      PROVE  NothingLost'
  <2>1. /\ UNCHANGED <<sent, wire, inbox, errors, timers, dropped, partial_sigs, up, restarted>>
        /\ maybe_proceed(n, room, player[n][room].store, FALSE)
    BY <1>1 DEF player_maybe_proceed
  <2>2. \A q \in Node, o \in Room : player[q][o].store \subseteq player'[q][o].store
    BY <1>p, <2>1
  <2> QED BY <1>t, <2>1, <2>2, SameWatched, GrowKeepsHeld
<1>2. ASSUME NEW env \in inbox[n], player_handle(n, env)
      PROVE  NothingLost'
  <2> DEFINE room == env.msg.room
             p == player[n][room]
  <2>1. /\ UNCHANGED <<sent, wire, timers, dropped, partial_sigs, up, restarted>>
        /\ inbox' = [inbox EXCEPT ![n] = @ \ {env}]
        /\ env.msg.kind # "S"
        /\ errors' = errors \/ errors' = [errors EXCEPT ![n] = @ \cup {env}]
        /\ \/ player' = player /\ env.msg.sender = Me(n, room)
           \/ player' = player /\ env.msg.receiver \notin {None, Me(n, room)}
           \/ /\ errors' = [errors EXCEPT ![n] = @ \cup {env}]
              /\ maybe_proceed(n, room, p.store, TRUE)
           \/ maybe_proceed(n, room, StoreWith(p, env.msg), TRUE)
    BY <1>2 DEF player_handle
  <2>2. room \in Room
    BY <1>t DEF Envelope, Msg
  <2>3. \A q \in Node : errors[q] \subseteq errors'[q]
    BY <1>t, <2>1
  <2>4. CASE /\ player' = player
             /\ \/ env.msg.sender = Me(n, room)
                \/ env.msg.receiver \notin {None, Me(n, room)}
    BY <2>1, <2>3, <2>4, TakenHeld
  <2>5. CASE /\ errors' = [errors EXCEPT ![n] = @ \cup {env}]
             /\ maybe_proceed(n, room, p.store, TRUE)
    <3>1. \A q \in Node, o \in Room : player[q][o].store \subseteq player'[q][o].store
      BY <1>p, <2>2, <2>5
    <3>2. env \in errors'[n]
      BY <1>t, <2>5
    <3> QED BY <2>1, <2>3, <3>1, <3>2, TakenHeld
  <2>6. CASE maybe_proceed(n, room, StoreWith(p, env.msg), TRUE)
    <3>1. /\ p.store \subseteq StoreWith(p, env.msg)
          /\ <<env.msg.sender, env.msg.round>> \in StoreWith(p, env.msg)
      BY DEF StoreWith
    <3>2. /\ \A q \in Node, o \in Room : player[q][o].store \subseteq player'[q][o].store
          /\ player'[n][room].store = StoreWith(p, env.msg)
      BY <1>p, <2>2, <2>6, <3>1
    <3>3. <<env.msg.sender, env.msg.round>> \in player'[n][room].store
      BY <3>1, <3>2
    <3> QED BY <2>1, <2>3, <3>2, <3>3, TakenHeld
  <2> QED BY <2>1, <2>4, <2>5, <2>6
<1>3. ASSUME NEW env \in inbox[n], player_proceed_fails(n, env)
      PROVE  NothingLost'
  <2> DEFINE room == env.msg.room
             p == player[n][room]
             new == [phase |-> "gone", round |-> p.round + 1,
                     store |-> StoreWith(p, env.msg), heard |-> TRUE]
  <2>1. /\ UNCHANGED <<sent, wire, timers, dropped, errors, partial_sigs, up, restarted>>
        /\ inbox' = [inbox EXCEPT ![n] = @ \ {env}]
        /\ env.msg.kind # "S"
    BY <1>3, ProceedFailsEffect
  <2>2. player' = [player EXCEPT ![n][room] = new]
    BY <1>3 DEF player_proceed_fails
  <2>3. \A q \in Node : errors[q] \subseteq errors'[q]
    BY <2>1
  <2>4. room \in Room
    BY <1>t DEF Envelope, Msg
  <2>5. /\ p.store \subseteq new.store
        /\ <<env.msg.sender, env.msg.round>> \in new.store
    BY DEF StoreWith
  <2> HIDE DEF new, room
  <2>6. /\ player'[n][room] = new
        /\ \A q \in Node, o \in Room :
             ~(q = n /\ o = room) => player'[q][o] = player[q][o]
    BY <1>t, <2>2, <2>4
  <2>7. \A q \in Node, o \in Room : player[q][o].store \subseteq player'[q][o].store
    BY <2>5, <2>6
  <2>8. <<env.msg.sender, env.msg.round>> \in player'[n][env.msg.room].store
    BY <2>5, <2>6 DEF room
  <2> HIDE DEF p
  <2>9. UNCHANGED <<sent, wire, timers, dropped, partial_sigs, up, restarted>>
    BY <2>1
  <2> QED BY <1>3, <2>1, <2>7, <2>8, <2>3, <2>9, TakenHeld
<1> QED BY <1>1, <1>2, <1>3

(* Every step keeps NothingLost. *)
LEMMA NothingLostStep ==
    Provenance /\ Lifecycle /\ Seals /\ NothingLost /\ [Next]_vars => NothingLost'
<1> SUFFICES ASSUME Provenance, Lifecycle, Seals, NothingLost, [Next]_vars
             PROVE  NothingLost'
  OBVIOUS
<1> USE DEF storeVars, apiVars, nodeVars, runnerVars, retryVars, mailVars,
            brokerVars, faultVars
<1>t. /\ TypeOK /\ player \in [Node -> [Room -> PlayerState]]
      /\ partial_sigs \in [Node -> [Room -> Seq(Msg)]]
      /\ wire \in [Node -> SUBSET Envelope]
  BY DEF Provenance, TypeOK
<1>k. ASSUME UNCHANGED <<sent, wire, inbox, errors, timers, dropped, player,
                         partial_sigs, up, restarted>>
      PROVE  NothingLost'
  BY <1>t, <1>k, SameWatched, GrowKeepsHeld
<1>1. ASSUME NEW n \in Node,
             \/ \E env \in wire[n] : handle_incoming(n, env)
             \/ \E x \in timers[n] : handle_retry(n, x)
             \/ \E env \in errors[n] : handle_protocol_error(n, env)
      PROVE  NothingLost'
  BY <1>1, RoutingLosesNothing
<1>2. ASSUME NEW n \in Node,
             \/ \E room \in Room : player_maybe_proceed(n, room)
             \/ \E env \in inbox[n] : player_handle(n, env)
             \/ \E env \in inbox[n] : player_proceed_fails(n, env)
      PROVE  NothingLost'
  BY <1>2, PlayerLosesNothing
<1>3. ASSUME NEW n \in Node, NEW env \in inbox[n], signer_handle(n, env)
      PROVE  NothingLost'
  BY <1>3, SignedHeld
<1>4. ASSUME NEW n \in Node, NEW m \in outbox[n],
             \/ send_one(n, m) \/ encrypt_fails(n, m)
             \/ send_lost(n, m) \/ send_fails(n, m)
      PROVE  NothingLost'
  <2>1. TakeOut(n, m) /\ (Broadcast(n, m) \/ UNCHANGED brokerVars)
    BY <1>4, SendEffects
  <2>2. UNCHANGED <<inbox, errors, timers, dropped, player, partial_sigs, up, restarted>>
    BY <2>1 DEF TakeOut, actorVars
  <2>3. CASE Broadcast(n, m)
    BY <2>2, <2>3, BroadcastHeld
  <2>4. CASE UNCHANGED brokerVars
    BY <1>k, <2>2, <2>4
  <2> QED BY <2>1, <2>3, <2>4
<1>5. ASSUME NEW n \in Node, NEW req \in Req,
             handle_keygen_request(n, req) \/ handle_sign_request(n, req)
      PROVE  NothingLost'
  <2>4. UNCHANGED <<sent, restarted>>
    BY <1>5, KeygenEffects, SignEffects
  <2> SUFFICES ASSUME ~StopCoordinator(n) PROVE NothingLost'
    BY <1>t, <2>4, StopLosesOnlyOwn
  <2>1. UNCHANGED <<sent, wire, inbox, errors, timers, dropped, partial_sigs, up, restarted>>
    BY <1>5, KeygenEffects, SignEffects
  <2>2. CASE player' = player
    BY <1>k, <2>1, <2>2
  <2>3. CASE player' = [player EXCEPT ![n][RoomOf(req)] = NewPlayer]
    <3>1. RoomOf(req) \in Room /\ req \in Req \ handled[n]
      BY <1>5, RoomOfType, KeygenEffects, SignEffects
    <3>2. player[n][RoomOf(req)].store = {}
      <4>1. player[n][RoomOf(req)].phase = "none"
        BY <1>t, <3>1, FreshRoom
      <4> QED BY <3>1, <4>1 DEF Lifecycle, RoomsLive, RoomLife, PlayerLife
    <3>3. \A q \in Node, o \in Room :
             player'[q][o] = player[q][o] \/ (q = n /\ o = RoomOf(req))
      BY <1>t, <2>3, <3>1
    <3>4. \A q \in Node, o \in Room : player[q][o].store \subseteq player'[q][o].store
      BY <3>2, <3>3
    <3> QED BY <1>t, <2>1, <3>4, SameWatched, GrowKeepsHeld
  <2> QED BY <1>5, <2>2, <2>3, StartSaves
<1>6. ASSUME NEW n \in Node, NEW room \in Room, handle_output_offline(n, room)
      PROVE  NothingLost'
  <2>1. /\ UNCHANGED <<sent, wire, inbox, errors, timers, dropped, player, up, restarted>>
        /\ <<"O", room>> \in outputs[n]
        /\ partial_sigs' = [partial_sigs EXCEPT ![n][room] = << >>]
    BY <1>6 DEF handle_output_offline
  <2>2. OutputLife(n, room, "O") /\ SignerLife(n, room)
    BY <2>1 DEF Lifecycle, RoomsLive, RoomLife
  <2>3. partial_sigs[n][room] = << >>
    BY <2>2 DEF OutputLife, SignerLife
  <2>4. \A q \in Node, o \in Room : partial_sigs'[q][o] = partial_sigs[q][o]
    BY <1>t, <2>1, <2>3
  <2> QED BY <1>t, <2>1, <2>4, SameWatched, GrowKeepsHeld
<1>7. ASSUME NEW n \in Node, NEW env \in sent, redeliver(n, env)
      PROVE  NothingLost'
  <2>1. /\ UNCHANGED <<sent, inbox, errors, timers, dropped, player, partial_sigs, up, restarted>>
        /\ wire' = [wire EXCEPT ![n] = @ \cup {[env EXCEPT !.msg.copy = faults']}]
    BY <1>7 DEF redeliver, actorVars
  <2>2. \A q \in Node : wire[q] \subseteq wire'[q]
    BY <1>t, <2>1
  <2> QED BY <1>t, <2>1, <2>2, SameWatched, GrowKeepsHeld
<1>8. ASSUME NEW n \in Node, restart(n)
      PROVE  NothingLost'
  <2>1. /\ sent' = sent /\ restarted' = restarted \cup {n}
        /\ LoseMemory(n) /\ Resubscribe(n) /\ up' = [up EXCEPT ![n] = TRUE]
    BY <1>8 DEF restart
  <2>2. \A q \in Node \ {n} : wire'[q] = wire[q] /\ up'[q] = up[q]
    BY <1>t, <2>1 DEF Resubscribe, TypeOK
  <2>3. Watched' \subseteq Watched \ {n}
    BY <2>1, <2>2 DEF Watched
  <2> QED BY <1>t, <2>1, <2>2, <2>3, LoseOnlyOwn
<1>9. ASSUME NEW n \in Node,
             \/ \E room \in Room : \/ handle_output_keygen(n, room)
                                   \/ handle_output_keygen_unsaved(n, room)
                                   \/ handle_output_sign(n, room)
             \/ \E req \in Req : request_lost(n, req)
      PROVE  NothingLost'
  <2>1. UNCHANGED <<sent, wire, inbox, errors, timers, dropped, player,
                    partial_sigs, up, restarted>>
    BY <1>9 DEF handle_output_keygen, handle_output_keygen_unsaved, handle_output_sign,
       request_lost, actorVars
  <2> QED BY <1>k, <2>1
<1>11. ASSUME NEW n \in Node, send_panics(n) \/ stream_finished(n)
       PROVE  NothingLost'
  BY <1>t, <1>11, StopLosesOnlyOwn DEF send_panics, stream_finished
<1>10. CASE UNCHANGED vars
  BY <1>k, <1>10 DEF vars, actorVars
<1> QED BY <1>1, <1>2, <1>3, <1>4, <1>5, <1>6, <1>7, <1>8, <1>9, <1>10, <1>11
        DEF Next, NodeStep, RequestStep, FaultStep

-----------------------------------------------------------------------------
(* The theorems. *)

(* At the start there is nothing on its way. *)
LEMMA DeliveryInit == Init => Delivery
<1> SUFFICES ASSUME Init PROVE Delivery
  OBVIOUS
<1>1. /\ sent = {}
      /\ \A n \in Node : /\ wire[n] = {} /\ inbox[n] = {} /\ errors[n] = {}
                        /\ timers[n] = {} /\ outbox[n] = {}
      /\ \A n \in Node, room \in Room : player[n][room].phase = "none"
  <2>1. NoPlayer.phase = "none"
    BY DEF NoPlayer
  <2>2. \A n \in Node, room \in Room : player[n][room] = NoPlayer
    BY DEF Init
  <2>3. \A n \in Node : /\ wire[n] = {} /\ inbox[n] = {} /\ errors[n] = {}
                       /\ timers[n] = {} /\ outbox[n] = {}
    BY DEF Init
  <2> QED BY <2>1, <2>2, <2>3 DEF Init
<1>2. GroupsKnown
  BY <1>1 DEF GroupsKnown
<1>3. Seals
  BY <1>1 DEF Seals
<1>4. NothingLost
  BY <1>1 DEF NothingLost
<1> QED BY <1>2, <1>3, <1>4 DEF Delivery

(* The inductive invariant of a message's way: every group that is needed is
   known, what is sealed is sealed for its receiver, and what is owed is held. *)
THEOREM DeliveryHolds == Spec => [](Provenance /\ Lifecycle /\ Delivery)
<1>1. Init => Provenance /\ Lifecycle /\ Delivery
  BY ProvenanceInit, LifecycleInit, DeliveryInit
<1>2. Provenance /\ Lifecycle /\ Delivery /\ [Next]_vars
        => (Provenance /\ Lifecycle /\ Delivery)'
  <2>1. Provenance /\ Lifecycle /\ [Next]_vars => Provenance' /\ Lifecycle'
    BY ProvenanceStep, LifecycleStep
  <2>2. Provenance /\ Lifecycle /\ Delivery /\ [Next]_vars => Delivery'
    BY GroupsStep, SealsStep, NothingLostStep DEF Delivery
  <2> QED BY <2>1, <2>2
<1> QED BY <1>1, <1>2, PTL DEF Spec

(* A body is decrypted exactly once: what a player or signer is given, gives
   back or will be given again is open, and what still waits for its check is
   sealed if it names a receiver. *)
THEOREM DecryptOnceHolds == Spec => []DecryptOnce
<1>1. Delivery => DecryptOnce
  BY DEF Delivery, Seals, SealedRight, DecryptOnce
<1> QED BY <1>1, DeliveryHolds, PTL

(* Encrypting an outgoing message never fails for want of its group, whatever
   was restarted or lost in between. *)
THEOREM EncryptNeverFailsHolds == Spec => []EncryptNeverFails
<1>1. Provenance /\ Delivery => EncryptNeverFails
  <2> SUFFICES ASSUME Provenance, Delivery, NEW n \in Node, NEW m \in outbox[n],
                      WellNamed(m.room)
               PROVE  maybe_encrypt(n, m) # {}
    BY DEF EncryptNeverFails, Sendable
  <2>1. TypeOK /\ m \in Msg /\ m.room \in Room
    <3>1. TypeOK
      BY DEF Provenance
    <3>2. m \in Msg
      BY <3>1 DEF TypeOK
    <3> QED BY <3>1, <3>2 DEF Msg
  <2>2. CASE m.receiver = None
    BY <2>2 DEF maybe_encrypt
  <2>3. CASE m.receiver # None
    <3>1. m.receiver \in Parties(m.room) /\ GroupKnown(n, m.room)
      BY <2>3 DEF Delivery, GroupsKnown
    <3>2. PICK g \in RetrieveGroup(n, extract_group_id(m.room)) : TRUE
      BY <3>1 DEF GroupKnown, RetrieveGroup, extract_group_id, WellNamed
    <3>3. g = Members(m.room)
      BY <2>1, KnownGroup
    <3>4. g[m.receiver] \in get_public_key(g, m.receiver)
      BY <3>1, <3>3 DEF get_public_key, Parties
    <3>5. [msg |-> m, lock |-> g[m.receiver]] \in maybe_encrypt(n, m)
      BY <2>3, <3>2, <3>4 DEF maybe_encrypt
    <3> QED BY <3>5
  <2> QED BY <2>2, <2>3
<1> QED BY <1>1, DeliveryHolds, PTL

(* No message for a participant vanishes without being counted while the
   first coordinator of its server runs: whatever the order in which it, its
   request, its round and its signer arrive, it waits somewhere, was used, or
   was given up by retry with its attempts used up.  A coordinator that stops
   takes only its own messages with it. *)
THEOREM NothingLostHolds == Spec => []NothingLost
<1>1. Delivery => NothingLost
  BY DEF Delivery
<1> QED BY <1>1, DeliveryHolds, PTL
=============================================================================

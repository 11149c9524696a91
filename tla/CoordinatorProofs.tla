-------------------------- MODULE CoordinatorProofs --------------------------
(***************************************************************************)
(* Theorems about Coordinator, for every set of servers and requests, any  *)
(* number of rounds, retries and faults.                                   *)
(***************************************************************************)
EXTENDS CoordinatorInv, WellFoundedInduction, TLAPS

(* A set of natural numbers that is not empty has a smallest member. *)
LEMMA SmallestMember ==
    ASSUME NEW S, S \subseteq Nat, S # {}
    PROVE  \E i \in S : \A j \in S : i <= j
<1> DEFINE R == {ss \in Nat \X Nat : ss[1] < ss[2]}
<1>1. IsWellFoundedOn(R, Nat)
  BY NatLessThanWellFounded, Zenon DEF OpToRel
<1>2. PICK i \in S : \A j \in S : ~(<<j, i>> \in R)
  <2> HIDE DEF R
  <2> QED BY <1>1, WFMin
<1>3. ASSUME NEW j \in S PROVE i <= j
  <2>1. i \in Nat /\ j \in Nat
    OBVIOUS
  <2>2. ASSUME j < i PROVE FALSE
    <3>1. <<j, i>> \in R
      BY <2>1, <2>2
    <3> QED BY <1>2, <3>1
  <2> QED BY <2>1, <2>2
<1> QED BY <1>3

(* get_index is None or an index of the list. *)
LEMMA IndexType ==
    ASSUME NEW pks \in Seq(Node), NEW pk
    PROVE  /\ get_index(pks, pk) \in Nat
           /\ get_index(pks, pk) # None => /\ get_index(pks, pk) \in DOMAIN pks
                                           /\ pks[get_index(pks, pk)] = pk
<1> DEFINE S == {i \in DOMAIN pks : pks[i] = pk}
<1>0. DOMAIN pks = 1..Len(pks) /\ Len(pks) \in Nat
  OBVIOUS
<1>1. CASE S = {}
  BY <1>1 DEF get_index, None
<1>2. CASE S # {}
  <2>1. S \subseteq Nat
    BY <1>0
  <2>2. \E i \in S : \A j \in S : i <= j
    <3> HIDE DEF S
    <3> QED BY <2>1, <1>2, SmallestMember
  <2>3. \E i \in DOMAIN pks : pks[i] = pk /\ \A j \in DOMAIN pks : pks[j] = pk => i <= j
    BY <2>2
  <2>4. get_index(pks, pk) \in DOMAIN pks /\ pks[get_index(pks, pk)] = pk
    BY <2>3 DEF get_index
  <2> QED BY <2>4, <1>0
<1> QED BY <1>1, <1>2

(* A room belongs to one request, whose participants are a list of servers. *)
LEMMA RoomFacts ==
    ASSUME NEW room \in Room
    PROVE  /\ room[1] \in Req /\ room = RoomOf(room[1])
           /\ Members(room) \in Seq(Node)
           /\ Parties(room) \subseteq Nat \ {0}
           /\ LastRound(room) \in Nat \ {0}
           /\ PlayerKind(room) \in Kind
<1>1. PICK req \in Req : room = RoomOf(req)
  BY DEF Room
<1>2. room[1] = req
  BY <1>1 DEF RoomOf, make_room_id
<1>3. Members(room) \in Seq(Node)
  BY <1>2, GroupsAssumption DEF Members
<1>4. Parties(room) \subseteq Nat \ {0}
  BY <1>3 DEF Parties
<1>5. PlayerKind(room) \in {"KG", "O"}
  BY DEF PlayerKind
<1>6. LastRound(room) \in Nat \ {0}
  BY <1>5, PlayerAssumption DEF LastRound, Rounds
<1> QED BY <1>1, <1>2, <1>3, <1>4, <1>5, <1>6 DEF Kind

(* Every request has its room. *)
LEMMA RoomOfType == ASSUME NEW req \in Req PROVE RoomOf(req) \in Room
  BY DEF Room

(* A server's index in a room. *)
LEMMA MeType ==
    ASSUME NEW n \in Node, NEW room \in Room
    PROVE  /\ Me(n, room) \in Nat
           /\ Me(n, room) # None => /\ Me(n, room) \in Parties(room)
                                    /\ Members(room)[Me(n, room)] = n
  BY RoomFacts, IndexType DEF Me, get_i, Parties

(* A message made for a room is well formed. *)
LEMMA MessageType ==
    ASSUME NEW room \in Room, NEW kind \in Kind, NEW k \in Nat,
           NEW i \in Nat, NEW j \in Nat, NEW n \in Node
    PROVE  Message(room, kind, k, i, j, n) \in Msg
  BY DEF Message, Msg

(* The messages a player queues are well formed. *)
LEMMA QueuedType ==
    ASSUME NEW n \in Node, NEW room \in Room, NEW i \in Nat,
           NEW r0 \in Nat, NEW r \in Nat
    PROVE  QueuedMsgs(room, i, n, r0, r) \subseteq Msg
<1>1. ASSUME NEW k \in (r0 + 1)..r
      PROVE  RoundMsgs(room, PlayerKind(room), k, i, n) \subseteq Msg
  <2>1. k \in Nat /\ PlayerKind(room) \in Kind /\ Parties(room) \subseteq Nat
    BY RoomFacts
  <2>2. \A j \in Parties(room) \cup {None} :
           Message(room, PlayerKind(room), k, i, j, n) \in Msg
    BY <2>1, MessageType DEF None
  <2> QED BY <2>2 DEF RoundMsgs
<1> QED BY <1>1 DEF QueuedMsgs

-----------------------------------------------------------------------------
(* Encrypting and decrypting keep the message. *)
LEMMA EncryptType ==
    ASSUME TypeOK, NEW n \in Node, NEW m \in Msg, NEW e \in maybe_encrypt(n, m)
    PROVE  e \in Envelope /\ e.msg = m
<1>1. CASE m.receiver = None
  BY <1>1 DEF maybe_encrypt, Envelope
<1>2. CASE m.receiver # None
  <2>1. PICK g \in RetrieveGroup(n, extract_group_id(m.room)) :
          \E pk \in get_public_key(g, m.receiver) : e = [msg |-> m, lock |-> pk]
    BY <1>2 DEF maybe_encrypt
  <2>2. PICK pk \in get_public_key(g, m.receiver) : e = [msg |-> m, lock |-> pk]
    BY <2>1
  <2>3. g \in Seq(Node)
    BY <2>1 DEF RetrieveGroup, TypeOK
  <2>4. pk \in Node
    BY <2>2, <2>3 DEF get_public_key
  <2> QED BY <2>2, <2>4 DEF Envelope
<1> QED BY <1>1, <1>2

(* Decrypting opens the lock and leaves the message as it is. *)
LEMMA DecryptType ==
    ASSUME NEW n \in Node, NEW e0 \in Envelope, NEW e \in maybe_decrypt(n, e0)
    PROVE  e \in Envelope /\ e.msg = e0.msg /\ (e = e0 \/ e.lock = Plain)
  BY DEF maybe_decrypt, Envelope


-----------------------------------------------------------------------------
(* Type correctness. *)

(* The initial state has the types. *)
LEMMA TypeInit == Init => TypeOK
<1> SUFFICES ASSUME Init PROVE TypeOK
  OBVIOUS
<1>1. group_store \in [Node -> SUBSET Seq(Node)]
  BY GroupsAssumption, CoordinatorAssumption DEF Init, Req
<1>2. player \in [Node -> [Room -> PlayerState]]
  BY DEF Init, NoPlayer, PlayerState
<1>3. report \in [Node -> [Req -> Status]]
  BY DEF Init, Status
<1>4. /\ local_share_store \in [Node -> SUBSET KeygenReq]
      /\ handled \in [Node -> SUBSET Req]
  BY CoordinatorAssumption DEF Init, Req
<1>5. partial_sigs \in [Node -> [Room -> Seq(Msg)]]
  BY DEF Init
<1> QED BY <1>1, <1>2, <1>3, <1>4, <1>5 DEF Init, TypeOK

(* Replacing one value of a function from servers to sets. *)
LEMMA SetUpdate ==
    ASSUME NEW S, NEW f \in [Node -> SUBSET S], NEW n \in Node, NEW X \in SUBSET S
    PROVE  [f EXCEPT ![n] = X] \in [Node -> SUBSET S]
  OBVIOUS

(* Updating one room of one server keeps a function's type. *)
LEMMA RoomUpdate ==
    ASSUME NEW S, NEW f \in [Node -> [Room -> S]], NEW n \in Node,
           NEW room \in Room, NEW x \in S
    PROVE  [f EXCEPT ![n][room] = x] \in [Node -> [Room -> S]]
  OBVIOUS

(* retry keeps the types of what it assigns. *)
LEMMA RetryType ==
    ASSUME TypeOK, NEW n \in Node, NEW rest \in SUBSET RetryMessage,
           NEW env \in Envelope, NEW attempts \in Nat \ {0},
           NEW check_passed \in BOOLEAN,
           retry(n, rest, env, attempts, check_passed)
    PROVE  /\ timers' \in [Node -> SUBSET RetryMessage]
           /\ dropped' \in [Node -> SUBSET Msg]
<1>1. env.msg \in Msg
  BY DEF Envelope
<1>2. attempts <= MaxAttempts => [env |-> env, attempts |-> attempts,
         check_passed |-> check_passed] \in RetryMessage
  BY CoordinatorAssumption DEF RetryMessage
<1>3. /\ timers \in [Node -> SUBSET RetryMessage]
      /\ dropped \in [Node -> SUBSET Msg]
  BY DEF TypeOK
<1>4. CASE attempts > MaxAttempts
  <2>1. /\ timers' = [timers EXCEPT ![n] = rest]
        /\ dropped' = [dropped EXCEPT ![n] = @ \cup {env.msg}]
    BY <1>4 DEF retry
  <2> QED BY <2>1, <1>1, <1>3
<1>5. CASE ~(attempts > MaxAttempts)
  <2> DEFINE x == [env |-> env, attempts |-> attempts, check_passed |-> check_passed]
  <2>1. timers' = [timers EXCEPT ![n] = rest \cup {x}] /\ dropped' = dropped
    BY <1>5 DEF retry
  <2>2. x \in RetryMessage
    BY <1>2, <1>5, CoordinatorAssumption
  <2> HIDE DEF x
  <2> QED BY <2>1, <2>2, <1>3
<1> QED BY <1>4, <1>5

(* handle_incoming_unsafe keeps the types of what it assigns. *)
LEMMA DispatchType ==
    ASSUME TypeOK, NEW n \in Node, NEW rest \in SUBSET RetryMessage,
           NEW env \in Envelope, NEW attempts \in Nat,
           handle_incoming_unsafe(n, rest, env, attempts)
    PROVE  /\ timers' \in [Node -> SUBSET RetryMessage]
           /\ dropped' \in [Node -> SUBSET Msg]
           /\ inbox' \in [Node -> SUBSET Envelope]
<1>0. /\ timers \in [Node -> SUBSET RetryMessage]
      /\ dropped \in [Node -> SUBSET Msg]
      /\ inbox \in [Node -> SUBSET Envelope]
  BY DEF TypeOK
<1>1. CASE HasHandler(n, env.msg)
  BY <1>0, <1>1 DEF handle_incoming_unsafe
<1>2. CASE ~HasHandler(n, env.msg)
  <2>1. retry(n, rest, env, attempts + 1, TRUE) /\ UNCHANGED inbox
    BY <1>2 DEF handle_incoming_unsafe
  <2>2. attempts + 1 \in Nat \ {0}
    OBVIOUS
  <2> QED BY <1>0, <2>1, <2>2, RetryType
<1> QED BY <1>1, <1>2

(* maybe_proceed keeps the types of what it assigns. *)
LEMMA ProceedType ==
    ASSUME TypeOK, NEW n \in Node, NEW room \in Room,
           NEW store \in SUBSET (Nat \X Nat), NEW heard \in BOOLEAN,
           maybe_proceed(n, room, store, heard)
    PROVE  /\ player' \in [Node -> [Room -> PlayerState]]
           /\ outbox' \in [Node -> SUBSET Msg]
           /\ outputs' \in [Node -> SUBSET Output]
<1> DEFINE p == player[n][room]
           i == Me(n, room)
<1>0. p \in PlayerState /\ i \in Nat
  BY MeType DEF TypeOK
<1>1. CASE p.phase = "gone"
  <2>1. /\ player' = [player EXCEPT ![n][room].store = store,
                                     ![n][room].heard = heard]
        /\ outbox' = outbox /\ outputs' = outputs
    BY <1>1 DEF maybe_proceed
  <2>2. player' = [player EXCEPT ![n] = [@ EXCEPT ![room] =
                     [p EXCEPT !.store = store, !.heard = heard]]]
    BY <2>1 DEF TypeOK
  <2>3. [p EXCEPT !.store = store, !.heard = heard] \in PlayerState
    BY <1>0 DEF PlayerState
  <2>4. player' \in [Node -> [Room -> PlayerState]]
    BY <2>2, <2>3 DEF TypeOK
  <2> QED BY <2>1, <2>4 DEF TypeOK
<1>2. CASE p.phase # "gone"
  <2>1. PICK r \in 1..(LastRound(room) + 1) :
          /\ player' = [player EXCEPT ![n][room] =
               [phase |-> StateLeft(room, r), round |-> r,
                store |-> store, heard |-> heard]]
          /\ outbox' = [outbox EXCEPT ![n] = @ \cup QueuedMsgs(room, i, n, p.round, r)]
          /\ outputs' = [outputs EXCEPT ![n] = @ \cup
               (IF Finished(room, r) THEN {<<PlayerKind(room), room>>} ELSE {})]
    BY <1>2 DEF maybe_proceed
  <2>2. r \in Nat /\ p.round \in Nat
    BY <1>0, RoomFacts DEF PlayerState
  <2>3. QueuedMsgs(room, i, n, p.round, r) \subseteq Msg
    BY <1>0, <2>2, QueuedType
  <2>4. <<PlayerKind(room), room>> \in Output
    BY DEF Output
  <2>5. player' \in [Node -> [Room -> PlayerState]]
    BY <2>1, <2>2 DEF TypeOK, PlayerState, StateLeft
  <2>6. outbox' \in [Node -> SUBSET Msg]
    BY <2>1, <2>3 DEF TypeOK
  <2>7. outputs' \in [Node -> SUBSET Output]
    BY <2>1, <2>4 DEF TypeOK
  <2> QED BY <2>5, <2>6, <2>7
<1> QED BY <1>1, <1>2


-----------------------------------------------------------------------------
(* The part of TypeOK about what a server keeps in memory. *)
MemoryTyped ==
    /\ sink \in [Node -> {"ready", "broken"}]
    /\ keygen_runners \in [Node -> SUBSET Room]
    /\ offline_state_runners \in [Node -> SUBSET Room]
    /\ signers \in [Node -> SUBSET Room]
    /\ timers \in [Node -> SUBSET RetryMessage]
    /\ dropped \in [Node -> SUBSET Msg]
    /\ outbox \in [Node -> SUBSET Msg]
    /\ outputs \in [Node -> SUBSET Output]
    /\ errors \in [Node -> SUBSET Envelope]
    /\ inbox \in [Node -> SUBSET Envelope]
    /\ player \in [Node -> [Room -> PlayerState]]
    /\ partial_sigs \in [Node -> [Room -> Seq(Msg)]]

(* A server that loses its memory keeps its types. *)
LEMMA LoseType ==
    ASSUME TypeOK, NEW n \in Node, LoseMemory(n)
    PROVE  MemoryTyped'
<1>1. player' \in [Node -> [Room -> PlayerState]]
  BY DEF TypeOK, LoseMemory, NoPlayer, PlayerState
<1>2. partial_sigs' \in [Node -> [Room -> Seq(Msg)]]
  BY DEF TypeOK, LoseMemory
<1>3. /\ sink' \in [Node -> {"ready", "broken"}]
      /\ keygen_runners' \in [Node -> SUBSET Room]
      /\ offline_state_runners' \in [Node -> SUBSET Room]
      /\ signers' \in [Node -> SUBSET Room]
  BY DEF TypeOK, LoseMemory
<1>4. /\ timers' \in [Node -> SUBSET RetryMessage]
      /\ dropped' \in [Node -> SUBSET Msg]
      /\ outbox' \in [Node -> SUBSET Msg]
      /\ outputs' \in [Node -> SUBSET Output]
      /\ errors' \in [Node -> SUBSET Envelope]
      /\ inbox' \in [Node -> SUBSET Envelope]
  BY DEF TypeOK, LoseMemory
<1> QED BY <1>1, <1>2, <1>3, <1>4 DEF MemoryTyped

(* So does one whose coordinator stops, if its databases keep theirs. *)
LEMMA StopType ==
    ASSUME TypeOK, NEW n \in Node, StopCoordinator(n),
           group_store' \in [Node -> SUBSET Seq(Node)],
           handled' \in [Node -> SUBSET Req], report' \in [Node -> [Req -> Status]],
           UNCHANGED <<local_share_store, sent, restarted>>, faults' \in Nat
    PROVE  TypeOK'
<1>1. MemoryTyped'
  BY LoseType DEF StopCoordinator
<1>2. /\ up' \in [Node -> BOOLEAN] /\ wire' \in [Node -> SUBSET Envelope]
      /\ local_share_store' \in [Node -> SUBSET KeygenReq]
      /\ sent' \subseteq Envelope /\ restarted' \subseteq Node
  BY DEF TypeOK, StopCoordinator
<1> QED BY <1>1, <1>2 DEF TypeOK, MemoryTyped

(* A coordinator that stops for another reason than a request. *)
LEMMA StopOnlyType ==
    ASSUME TypeOK, NEW n \in Node, StopCoordinator(n),
           UNCHANGED <<storeVars, apiVars, sent, restarted>>, faults' \in Nat
    PROVE  TypeOK'
<1>1. /\ group_store' \in [Node -> SUBSET Seq(Node)]
      /\ handled' \in [Node -> SUBSET Req] /\ report' \in [Node -> [Req -> Status]]
      /\ UNCHANGED <<local_share_store, sent, restarted>>
  BY DEF TypeOK, storeVars, apiVars
<1> QED BY <1>1, StopType

(* What handle_keygen_request does to each variable: it stops the
   coordinator, starts a player or does neither. *)
LEMMA KeygenEffects ==
    ASSUME NEW n \in Node, NEW req \in Req, handle_keygen_request(n, req)
    PROVE  /\ req \in KeygenReq \ handled[n]
           /\ handled' = [handled EXCEPT ![n] = @ \cup {req}]
           /\ report' = [report EXCEPT ![n][req] = "processing"]
           /\ group_store' = group_store \/ save_group(n, participant_public_keys[req])
           /\ UNCHANGED <<local_share_store, sent, faultVars>>
           /\ \/ StopCoordinator(n)
              \/ /\ UNCHANGED <<nodeVars, offline_state_runners, signers, retryVars,
                                mailVars, partial_sigs, inbox, wire>>
                 /\ \/ player' = player /\ keygen_runners' = keygen_runners
                    \/ /\ player' = [player EXCEPT ![n][RoomOf(req)] = NewPlayer]
                       /\ keygen_runners' =
                            [keygen_runners EXCEPT ![n] = @ \cup {RoomOf(req)}]
                       /\ get_i(n, participant_public_keys[req]) # None
  BY DEF handle_keygen_request, StartPlayer, nodeVars, memoryVars, runnerVars,
         mailVars, actorVars

(* What handle_sign_request assigns, whichever way it ends. *)
LEMMA SignEffects ==
    ASSUME NEW n \in Node, NEW req \in Req, handle_sign_request(n, req)
    PROVE  /\ req \in SignReq \ handled[n]
           /\ handled' = [handled EXCEPT ![n] = @ \cup {req}]
           /\ \/ report' = report
              \/ /\ report' = [report EXCEPT ![n][req] = "processing"]
                 /\ public_key[req] \in local_share_store[n]
           /\ group_store' = group_store \/ save_group(n, participant_public_keys[req])
           /\ UNCHANGED <<local_share_store, sent, faultVars>>
           /\ \/ StopCoordinator(n)
              \/ /\ UNCHANGED <<nodeVars, keygen_runners, signers, retryVars,
                                mailVars, partial_sigs, inbox, wire>>
                 /\ \/ /\ player' = player
                       /\ offline_state_runners' = offline_state_runners
                    \/ /\ player' = [player EXCEPT ![n][RoomOf(req)] = NewPlayer]
                       /\ offline_state_runners' =
                            [offline_state_runners EXCEPT ![n] = @ \cup {RoomOf(req)}]
                       /\ report' = [report EXCEPT ![n][req] = "processing"]
                       /\ get_i(n, participant_public_keys[req]) # None
<1>1. \A key : has_share(n, key) <=> key \in local_share_store[n]
  BY DEF has_share
<1> QED BY <1>1 DEF handle_sign_request, StartPlayer, nodeVars, memoryVars,
                    runnerVars, mailVars, actorVars

(* What becomes of a message read from the stream. *)
LEMMA IncomingEffects ==
    ASSUME NEW n \in Node, NEW env, handle_incoming(n, env)
    PROVE  /\ UNCHANGED <<storeVars, apiVars, sent, faultVars>>
           /\ \/ StopCoordinator(n)
              \/ /\ wire' = [wire EXCEPT ![n] = @ \ {env}]
                 /\ UNCHANGED <<nodeVars, runnerVars, mailVars, actorVars>>
                 /\ \/ DropIncoming
                    \/ \E e \in maybe_decrypt(n, env) :
                          handle_incoming_unsafe(n, timers[n], e, 0)
                    \/ retry(n, timers[n], env, 1, FALSE) /\ UNCHANGED inbox
<1>1. Route(n, env)
      /\ ~(RoomContains(env.msg.room, n)
           /\ valid_sender_and_receiver(n, env.msg) = "panic")
        => \/ DropIncoming
           \/ \E e \in maybe_decrypt(n, env) :
                 handle_incoming_unsafe(n, timers[n], e, 0)
           \/ retry(n, timers[n], env, 1, FALSE) /\ UNCHANGED inbox
  <2>1. valid_sender_and_receiver(n, env.msg) \in {"ok", "NotForMe", "retry", "panic"}
    BY DEF valid_sender_and_receiver
  <2> QED BY <2>1 DEF Route
<1> QED BY <1>1 DEF handle_incoming

(* What becomes of a message whose timer is up. *)
LEMMA RetriedEffects ==
    ASSUME NEW n \in Node, NEW x, handle_retry(n, x)
    PROVE  /\ UNCHANGED <<storeVars, apiVars, sent, faultVars>>
           /\ \/ StopCoordinator(n)
              \/ /\ UNCHANGED <<nodeVars, runnerVars, mailVars, actorVars, wire>>
                 /\ \/ \E e \in {x.env} \cup maybe_decrypt(n, x.env) :
                          handle_incoming_unsafe(n, timers[n] \ {x}, e, x.attempts)
                    \/ /\ retry(n, timers[n] \ {x}, x.env, x.attempts + 1, FALSE)
                       /\ UNCHANGED inbox
  BY DEF handle_retry, RouteAgain

(* Saving a group keeps the type of the store. *)
LEMMA SaveGroupType ==
    ASSUME TypeOK, NEW n \in Node, NEW req \in Req,
           group_store' = group_store \/ save_group(n, participant_public_keys[req])
    PROVE  group_store' \in [Node -> SUBSET Seq(Node)]
<1>1. participant_public_keys[req] \in Seq(Node)
  BY GroupsAssumption
<1>2. group_store \in [Node -> SUBSET Seq(Node)]
  BY DEF TypeOK
<1> QED BY <1>1, <1>2 DEF save_group

(* A new player has its type. *)
LEMMA StartType ==
    ASSUME TypeOK, NEW n \in Node, NEW req \in Req
    PROVE  [player EXCEPT ![n][RoomOf(req)] = NewPlayer] \in [Node -> [Room -> PlayerState]]
<1>1. player \in [Node -> [Room -> PlayerState]] /\ RoomOf(req) \in Room
  BY RoomOfType DEF TypeOK
<1>2. NewPlayer \in PlayerState
  BY DEF NewPlayer, PlayerState
<1> QED BY <1>1, <1>2

(* However a message leaves the outbox, it is published or it is not. *)
LEMMA SendEffects ==
    ASSUME NEW n \in Node, NEW m,
           \/ send_one(n, m) \/ encrypt_fails(n, m)
           \/ send_lost(n, m) \/ send_fails(n, m)
    PROVE  /\ TakeOut(n, m)
           /\ Broadcast(n, m) \/ UNCHANGED brokerVars
           /\ sink' = sink \/ sink' = [sink EXCEPT ![n] = "broken"]
           /\ faults' = faults \/ faults' = faults + 1
  BY DEF send_one, encrypt_fails, send_lost, send_fails, Fault

(* Every step keeps the types. *)
LEMMA TypeStep == TypeOK /\ [Next]_vars => TypeOK'
<1> SUFFICES ASSUME TypeOK, [Next]_vars PROVE TypeOK'
  OBVIOUS
<1> USE DEF storeVars, apiVars, nodeVars, runnerVars, retryVars, mailVars,
            actorVars, brokerVars, faultVars
<1>a. player \in [Node -> [Room -> PlayerState]]
  BY DEF TypeOK
<1>b. keygen_runners \in [Node -> SUBSET Room] /\ offline_state_runners \in [Node -> SUBSET Room]
  BY DEF TypeOK
<1>c. handled \in [Node -> SUBSET Req] /\ up \in [Node -> BOOLEAN]
  BY DEF TypeOK
<1>d. inbox \in [Node -> SUBSET Envelope] /\ errors \in [Node -> SUBSET Envelope]
  BY DEF TypeOK
<1>e. partial_sigs \in [Node -> [Room -> Seq(Msg)]]
  BY DEF TypeOK
<1>1. ASSUME NEW n \in Node, NEW req \in Req, request_lost(n, req)
      PROVE  TypeOK'
  BY <1>1 DEF TypeOK, request_lost
<1>2. ASSUME NEW n \in Node, NEW req \in Req, handle_keygen_request(n, req)
      PROVE  TypeOK'
  <2>1. group_store' \in [Node -> SUBSET Seq(Node)]
    BY <1>2, KeygenEffects, SaveGroupType
  <2>2. handled' \in [Node -> SUBSET Req]
    <3>1. handled' = [handled EXCEPT ![n] = @ \cup {req}]
      BY <1>2, KeygenEffects
    <3> QED BY <1>c, <3>1
  <2>3. report' \in [Node -> [Req -> Status]]
    <3>1. report \in [Node -> [Req -> Status]] /\ "processing" \in Status
      BY DEF TypeOK, Status
    <3>2. report' = report \/ report' = [report EXCEPT ![n][req] = "processing"]
      BY <1>2, KeygenEffects
    <3> QED BY <3>1, <3>2
  <2>4. UNCHANGED <<local_share_store, sent, faultVars>> /\ faults \in Nat
    BY <1>2, KeygenEffects DEF TypeOK
  <2>5. CASE StopCoordinator(n)
    BY <2>1, <2>2, <2>3, <2>4, <2>5, StopType
  <2>6. CASE ~StopCoordinator(n)
    <3>1. player' \in [Node -> [Room -> PlayerState]]
      BY <1>a, <1>2, <2>6, KeygenEffects, StartType
    <3>2. keygen_runners' \in [Node -> SUBSET Room]
      BY <1>b, <1>2, <2>6, KeygenEffects, RoomOfType
    <3>3. UNCHANGED <<nodeVars, offline_state_runners, signers, retryVars,
                      mailVars, partial_sigs, inbox, wire>>
      BY <1>2, <2>6, KeygenEffects
    <3> QED BY <2>1, <2>2, <2>3, <2>4, <3>1, <3>2, <3>3 DEF TypeOK
  <2> QED BY <2>5, <2>6
<1>3. ASSUME NEW n \in Node, NEW req \in Req, handle_sign_request(n, req)
      PROVE  TypeOK'
  <2>1. group_store' \in [Node -> SUBSET Seq(Node)]
    BY <1>3, SignEffects, SaveGroupType
  <2>2. handled' \in [Node -> SUBSET Req]
    <3>1. handled' = [handled EXCEPT ![n] = @ \cup {req}]
      BY <1>3, SignEffects
    <3> QED BY <1>c, <3>1
  <2>3. report' \in [Node -> [Req -> Status]]
    <3>1. report \in [Node -> [Req -> Status]] /\ "processing" \in Status
      BY DEF TypeOK, Status
    <3>2. report' = report \/ report' = [report EXCEPT ![n][req] = "processing"]
      BY <1>3, SignEffects
    <3> QED BY <3>1, <3>2
  <2>4. UNCHANGED <<local_share_store, sent, faultVars>> /\ faults \in Nat
    BY <1>3, SignEffects DEF TypeOK
  <2>5. CASE StopCoordinator(n)
    BY <2>1, <2>2, <2>3, <2>4, <2>5, StopType
  <2>6. CASE ~StopCoordinator(n)
    <3>1. player' \in [Node -> [Room -> PlayerState]]
      BY <1>a, <1>3, <2>6, SignEffects, StartType
    <3>2. offline_state_runners' \in [Node -> SUBSET Room]
      BY <1>b, <1>3, <2>6, SignEffects, RoomOfType
    <3>3. UNCHANGED <<nodeVars, keygen_runners, signers, retryVars,
                      mailVars, partial_sigs, inbox, wire>>
      BY <1>3, <2>6, SignEffects
    <3> QED BY <2>1, <2>2, <2>3, <2>4, <3>1, <3>2, <3>3 DEF TypeOK
  <2> QED BY <2>5, <2>6
<1>4. ASSUME NEW n \in Node, NEW env \in wire[n], handle_incoming(n, env)
      PROVE  TypeOK'
  <2>0. env \in Envelope
    BY <1>4 DEF TypeOK
  <2>1. /\ timers \in [Node -> SUBSET RetryMessage]
        /\ dropped \in [Node -> SUBSET Msg]
        /\ inbox \in [Node -> SUBSET Envelope]
        /\ timers[n] \in SUBSET RetryMessage
    BY DEF TypeOK
  <2>2. /\ UNCHANGED <<storeVars, apiVars, sent, faultVars>>
        /\ \/ StopCoordinator(n)
           \/ /\ wire' = [wire EXCEPT ![n] = @ \ {env}]
              /\ UNCHANGED <<nodeVars, runnerVars, mailVars, actorVars>>
              /\ \/ DropIncoming
                 \/ \E e \in maybe_decrypt(n, env) :
                       handle_incoming_unsafe(n, timers[n], e, 0)
                 \/ retry(n, timers[n], env, 1, FALSE) /\ UNCHANGED inbox
    BY <1>4, IncomingEffects
  <2>3. CASE StopCoordinator(n)
    <3>1. faults \in Nat
      BY DEF TypeOK
    <3> QED BY <2>2, <2>3, <3>1, StopOnlyType
  <2>4. CASE ~StopCoordinator(n)
    <3>1. /\ timers' \in [Node -> SUBSET RetryMessage]
          /\ dropped' \in [Node -> SUBSET Msg]
          /\ inbox' \in [Node -> SUBSET Envelope]
      <4>1. CASE DropIncoming
        BY <4>1, <2>1 DEF DropIncoming
      <4>2. CASE \E e \in maybe_decrypt(n, env) :
                    handle_incoming_unsafe(n, timers[n], e, 0)
        BY <4>2, <2>0, <2>1, DecryptType, DispatchType
      <4>3. CASE retry(n, timers[n], env, 1, FALSE) /\ UNCHANGED inbox
        <5>1. 1 \in Nat \ {0} /\ FALSE \in BOOLEAN
          OBVIOUS
        <5> QED BY <5>1, <4>3, <2>0, <2>1, RetryType
      <4> QED BY <2>2, <2>4, <4>1, <4>2, <4>3
    <3>2. /\ UNCHANGED <<storeVars, apiVars, sent, faultVars>>
          /\ wire' = [wire EXCEPT ![n] = @ \ {env}]
          /\ UNCHANGED <<nodeVars, runnerVars, mailVars, actorVars>>
      BY <2>2, <2>4
    <3> QED BY <3>1, <3>2 DEF TypeOK
  <2> QED BY <2>3, <2>4
<1>5. ASSUME NEW n \in Node, NEW x \in timers[n], handle_retry(n, x)
      PROVE  TypeOK'
  <2>0. x.env \in Envelope /\ x.attempts \in Nat \ {0} /\ x.attempts + 1 \in Nat \ {0}
    BY <1>5, CoordinatorAssumption DEF TypeOK, RetryMessage
  <2>1. /\ inbox \in [Node -> SUBSET Envelope]
        /\ timers[n] \ {x} \in SUBSET RetryMessage
    BY DEF TypeOK
  <2>2. /\ UNCHANGED <<storeVars, apiVars, sent, faultVars>>
        /\ \/ StopCoordinator(n)
           \/ /\ UNCHANGED <<nodeVars, runnerVars, mailVars, actorVars, wire>>
              /\ \/ \E e \in {x.env} \cup maybe_decrypt(n, x.env) :
                       handle_incoming_unsafe(n, timers[n] \ {x}, e, x.attempts)
                 \/ /\ retry(n, timers[n] \ {x}, x.env, x.attempts + 1, FALSE)
                    /\ UNCHANGED inbox
    BY <1>5, RetriedEffects
  <2>3. CASE StopCoordinator(n)
    <3>1. faults \in Nat
      BY DEF TypeOK
    <3> QED BY <2>2, <2>3, <3>1, StopOnlyType
  <2>4. CASE ~StopCoordinator(n)
    <3>1. /\ timers' \in [Node -> SUBSET RetryMessage]
          /\ dropped' \in [Node -> SUBSET Msg]
          /\ inbox' \in [Node -> SUBSET Envelope]
      BY <2>0, <2>1, <2>2, <2>4, DecryptType, DispatchType, RetryType
    <3>2. /\ UNCHANGED <<storeVars, apiVars, sent, faultVars>>
          /\ UNCHANGED <<nodeVars, runnerVars, mailVars, actorVars, wire>>
      BY <2>2, <2>4
    <3> QED BY <3>1, <3>2 DEF TypeOK
  <2> QED BY <2>3, <2>4
<1>6. ASSUME NEW n \in Node, NEW env \in errors[n], handle_protocol_error(n, env)
      PROVE  TypeOK'
  <2>1. /\ timers' \in [Node -> SUBSET RetryMessage]
        /\ dropped' \in [Node -> SUBSET Msg]
    <3>1. /\ timers[n] \in SUBSET RetryMessage /\ env \in Envelope
          /\ 1 \in Nat \ {0} /\ TRUE \in BOOLEAN
      BY DEF TypeOK
    <3>2. retry(n, timers[n], env, 1, TRUE)
      BY <1>6 DEF handle_protocol_error
    <3> QED BY <3>1, <3>2, RetryType
  <2> QED BY <1>6, <2>1 DEF TypeOK, handle_protocol_error
<1>7. ASSUME NEW n \in Node, NEW m \in outbox[n],
             \/ send_one(n, m) \/ encrypt_fails(n, m)
             \/ send_lost(n, m) \/ send_fails(n, m)
      PROVE  TypeOK'
  <2>1. maybe_encrypt(n, m) \subseteq Envelope
    BY EncryptType DEF TypeOK
  <2>2. /\ TakeOut(n, m)
        /\ Broadcast(n, m) \/ UNCHANGED brokerVars
        /\ sink' = sink \/ sink' = [sink EXCEPT ![n] = "broken"]
        /\ faults' = faults \/ faults' = faults + 1
    BY <1>7, SendEffects
  <2>3. sent' \subseteq Envelope /\ wire' \in [Node -> SUBSET Envelope]
    <3>1. sent \subseteq Envelope /\ wire \in [Node -> SUBSET Envelope]
      BY DEF TypeOK
    <3>2. CASE Broadcast(n, m)
      BY <2>1, <3>1, <3>2 DEF Broadcast
    <3>3. CASE UNCHANGED brokerVars
      BY <3>1, <3>3
    <3> QED BY <2>2, <3>2, <3>3
  <2>4. faults' \in Nat /\ sink' \in [Node -> {"ready", "broken"}]
    <3>1. faults \in Nat /\ sink \in [Node -> {"ready", "broken"}]
      BY DEF TypeOK
    <3>2. faults' \in Nat
      BY <2>2, <3>1
    <3>3. sink' \in [Node -> {"ready", "broken"}]
      BY <2>2, <3>1
    <3> QED BY <3>2, <3>3
  <2> QED BY <2>2, <2>3, <2>4 DEF TypeOK, TakeOut
<1>8. ASSUME NEW n \in Node, send_panics(n)
      PROVE  TypeOK'
  <2>1. StopCoordinator(n) /\ UNCHANGED <<storeVars, apiVars, sent, faultVars>>
    BY <1>8 DEF send_panics
  <2>2. faults \in Nat
    BY DEF TypeOK
  <2> QED BY <2>1, <2>2, StopOnlyType
<1>9. ASSUME NEW n \in Node, NEW room \in Room, handle_output_keygen_unsaved(n, room)
      PROVE  TypeOK'
  <2>1. report' \in [Node -> [Req -> Status]]
    BY <1>9, RoomFacts DEF TypeOK, handle_output_keygen_unsaved, Status
  <2> QED BY <1>9, <2>1 DEF TypeOK, handle_output_keygen_unsaved, Fault
<1>10. ASSUME NEW n \in Node, NEW room \in Room, player_maybe_proceed(n, room)
       PROVE  TypeOK'
  <2>1. player[n][room].store \in SUBSET (Nat \X Nat)
    <3>1. player \in [Node -> [Room -> PlayerState]]
      BY DEF TypeOK
    <3>2. player[n][room] \in PlayerState
      BY <3>1
    <3> QED BY <3>2 DEF PlayerState
  <2>2. /\ player' \in [Node -> [Room -> PlayerState]]
        /\ outbox' \in [Node -> SUBSET Msg]
        /\ outputs' \in [Node -> SUBSET Output]
    BY <1>10, <2>1, ProceedType DEF player_maybe_proceed
  <2> QED BY <1>10, <2>2 DEF TypeOK, player_maybe_proceed
<1>11. ASSUME NEW n \in Node, NEW env \in inbox[n], player_handle(n, env)
       PROVE  TypeOK'
  <2> DEFINE m == env.msg
             p == player[n][m.room]
  <2>1. env \in Envelope /\ m \in Msg /\ m.room \in Room
    BY DEF TypeOK, Envelope, Msg
  <2>2. p.store \in SUBSET (Nat \X Nat) /\ StoreWith(p, m) \in SUBSET (Nat \X Nat)
    BY <2>1 DEF TypeOK, PlayerState, StoreWith, Msg
  <2>3. /\ errors' \in [Node -> SUBSET Envelope]
        /\ inbox' \in [Node -> SUBSET Envelope]
    <3>1. inbox' = [inbox EXCEPT ![n] = @ \ {env}]
      BY <1>11 DEF player_handle
    <3>2. errors' = errors \/ errors' = [errors EXCEPT ![n] = @ \cup {env}]
      BY <1>11 DEF player_handle
    <3> QED BY <1>d, <2>1, <3>1, <3>2
  <2>4. \/ UNCHANGED <<player, outbox, outputs>>
        \/ maybe_proceed(n, m.room, p.store, TRUE)
        \/ maybe_proceed(n, m.room, StoreWith(p, m), TRUE)
    BY <1>11 DEF player_handle
  <2>5. /\ player' \in [Node -> [Room -> PlayerState]]
        /\ outbox' \in [Node -> SUBSET Msg]
        /\ outputs' \in [Node -> SUBSET Output]
    <3>1. CASE UNCHANGED <<player, outbox, outputs>>
      BY <3>1 DEF TypeOK
    <3>2. CASE ~UNCHANGED <<player, outbox, outputs>>
      BY <3>2, <2>1, <2>2, <2>4, ProceedType
    <3> QED BY <3>1, <3>2
  <2> QED BY <1>11, <2>3, <2>5 DEF TypeOK, player_handle
<1>12. ASSUME NEW n \in Node, NEW env \in inbox[n], player_proceed_fails(n, env)
       PROVE  TypeOK'
  <2> DEFINE m == env.msg
             p == player[n][m.room]
  <2>1. env \in Envelope /\ m \in Msg /\ m.room \in Room
    BY DEF TypeOK, Envelope, Msg
  <2>2. StoreWith(p, m) \in SUBSET (Nat \X Nat) /\ p.round + 1 \in Nat
    <3>1. player \in [Node -> [Room -> PlayerState]]
      BY DEF TypeOK
    <3>2. p \in PlayerState
      BY <2>1, <3>1
    <3>3. p.store \in SUBSET (Nat \X Nat) /\ p.round + 1 \in Nat
      BY <3>2 DEF PlayerState
    <3>4. <<m.sender, m.round>> \in Nat \X Nat
      BY <2>1 DEF Msg
    <3> QED BY <3>3, <3>4 DEF StoreWith
  <2>3. [phase |-> "gone", round |-> p.round + 1, store |-> StoreWith(p, m),
         heard |-> TRUE] \in PlayerState
    BY <2>2 DEF PlayerState
  <2>4. player' \in [Node -> [Room -> PlayerState]]
    BY <1>12, <2>1, <2>3 DEF TypeOK, player_proceed_fails
  <2> QED BY <1>12, <2>4 DEF TypeOK, player_proceed_fails, Fault
<1>13. ASSUME NEW n \in Node, NEW env \in inbox[n], signer_handle(n, env)
       PROVE  TypeOK'
  <2> DEFINE m == env.msg
  <2>1. env \in Envelope /\ m \in Msg /\ m.room \in Room /\ <<"S", m.room>> \in Output
    BY DEF TypeOK, Envelope, Msg, Output
  <2>2. Append(partial_sigs[n][m.room], m) \in Seq(Msg)
    BY <2>1 DEF TypeOK
  <2>3. partial_sigs' \in [Node -> [Room -> Seq(Msg)]]
    <3>1. \/ partial_sigs' = partial_sigs
          \/ partial_sigs' = [partial_sigs EXCEPT ![n][m.room] =
                                Append(partial_sigs[n][m.room], m)]
      BY <1>13 DEF signer_handle
    <3> DEFINE sigs == Append(partial_sigs[n][m.room], m)
               room == m.room
    <3>2. sigs \in Seq(Msg) /\ room \in Room
      BY <2>1, <2>2
    <3>3. [partial_sigs EXCEPT ![n][room] = sigs] \in [Node -> [Room -> Seq(Msg)]]
      <4> HIDE DEF sigs, room
      <4> QED BY <1>e, <3>2, RoomUpdate
    <3> QED BY <1>e, <3>1, <3>3
  <2>4. outputs' \in [Node -> SUBSET Output]
    <3>1. \/ outputs' = outputs
          \/ outputs' = [outputs EXCEPT ![n] = @ \cup {<<"S", m.room>>}]
          \/ outputs' = [outputs EXCEPT ![n] = @ \cup {}]
      BY <1>13 DEF signer_handle
    <3>2. outputs \in [Node -> SUBSET Output]
      BY DEF TypeOK
    <3>3. /\ outputs[n] \cup {<<"S", m.room>>} \in SUBSET Output
          /\ outputs[n] \cup {} \in SUBSET Output
      BY <2>1, <3>2
    <3> QED BY <3>1, <3>2, <3>3, SetUpdate
  <2> QED BY <1>13, <2>3, <2>4 DEF TypeOK, signer_handle
<1>14. ASSUME NEW n \in Node, NEW room \in Room, handle_output_keygen(n, room)
       PROVE  TypeOK'
  <2>1. <<"KG", room>> \in outputs[n]
    BY <1>14 DEF handle_output_keygen
  <2>2. report' \in [Node -> [Req -> Status]]
    BY <1>14, RoomFacts DEF TypeOK, handle_output_keygen, Status
  <2>3. <<"KG", room>> \in Output
    BY <2>1 DEF TypeOK
  <2>4. room[1] \in KeygenReq
    BY <2>3 DEF Output, PlayerKind
  <2>5. local_share_store' \in [Node -> SUBSET KeygenReq]
    BY <1>14, <2>4 DEF TypeOK, handle_output_keygen
  <2> QED BY <1>14, <2>2, <2>5 DEF TypeOK, handle_output_keygen
<1>15. ASSUME NEW n \in Node, NEW room \in Room, handle_output_offline(n, room)
       PROVE  TypeOK'
  <2>1. MyPartialSignature(n, room) \in Msg
    BY MeType, MessageType DEF MyPartialSignature, Kind, None
  <2>2. outbox' \in [Node -> SUBSET Msg]
    BY <1>15, <2>1 DEF TypeOK, handle_output_offline
  <2>3. report' \in [Node -> [Req -> Status]]
    BY <1>15, RoomFacts DEF TypeOK, handle_output_offline, Status
  <2>4. partial_sigs' \in [Node -> [Room -> Seq(Msg)]]
    BY <1>15 DEF TypeOK, handle_output_offline
  <2> QED BY <1>15, <2>2, <2>3, <2>4 DEF TypeOK, handle_output_offline
<1>16. ASSUME NEW n \in Node, NEW room \in Room, handle_output_sign(n, room)
       PROVE  TypeOK'
  BY <1>16, RoomFacts DEF TypeOK, handle_output_sign, Status
<1>17. ASSUME NEW n \in Node, stream_finished(n)
       PROVE  TypeOK'
  <2>1. StopCoordinator(n) /\ UNCHANGED <<storeVars, apiVars, sent, restarted>>
    BY <1>17 DEF stream_finished
  <2>2. faults' \in Nat
    BY <1>17 DEF TypeOK, stream_finished, Fault
  <2> QED BY <2>1, <2>2, StopOnlyType
<1>18. ASSUME NEW n \in Node, NEW env \in sent, redeliver(n, env)
       PROVE  TypeOK'
  <2>1. faults' \in Nat
    BY <1>18 DEF TypeOK, redeliver, Fault
  <2>2. env \in Envelope
    BY DEF TypeOK
  <2>3. [env.msg EXCEPT !.copy = faults'] \in Msg
    BY <2>1, <2>2 DEF Envelope, Msg
  <2>4. [env EXCEPT !.msg.copy = faults'] \in Envelope
    BY <2>2, <2>3 DEF Envelope
  <2> QED BY <1>18, <2>1, <2>4 DEF TypeOK, redeliver
<1>19. ASSUME NEW n \in Node, restart(n)
       PROVE  TypeOK'
  <2>1. wire' \in [Node -> SUBSET Envelope] /\ up' \in [Node -> BOOLEAN]
    BY <1>19 DEF TypeOK, restart, Resubscribe
  <2>2. MemoryTyped'
    BY <1>19, LoseType DEF restart
  <2>3. /\ handled' \in [Node -> SUBSET Req]
        /\ report' \in [Node -> [Req -> Status]]
    <3>1. PICK kept \in SUBSET handled[n], known \in [Req -> Status] :
            /\ handled' = [handled EXCEPT ![n] = kept]
            /\ report' = [report EXCEPT ![n] = known]
      BY <1>19 DEF restart, ReopenResults
    <3> QED BY <3>1 DEF TypeOK
  <2>4. /\ local_share_store' \in [Node -> SUBSET KeygenReq]
        /\ group_store' \in [Node -> SUBSET Seq(Node)]
    <3>1. PICK shares \in SUBSET local_share_store[n], groups \in SUBSET group_store[n] :
            /\ local_share_store' = [local_share_store EXCEPT ![n] = shares]
            /\ group_store' = [group_store EXCEPT ![n] = groups]
      BY <1>19 DEF restart, ReopenShares
    <3> QED BY <3>1 DEF TypeOK
  <2>5. sent' = sent /\ faults' \in Nat /\ restarted' \subseteq Node
    BY <1>19 DEF TypeOK, restart, Fault
  <2> QED BY <2>1, <2>2, <2>3, <2>4, <2>5 DEF TypeOK, MemoryTyped
<1>20. CASE UNCHANGED vars
  BY <1>20 DEF TypeOK, vars
<1> QED BY <1>1, <1>2, <1>3, <1>4, <1>5, <1>6, <1>7, <1>8, <1>9, <1>10, <1>11,
           <1>12, <1>13, <1>14, <1>15, <1>16, <1>17, <1>18, <1>19, <1>20
        DEF Next, NodeStep, RequestStep, FaultStep

(* Every variable of every reachable state has its type. *)
THEOREM TypeCorrect == Spec => []TypeOK
  BY TypeInit, TypeStep, PTL DEF Spec


-----------------------------------------------------------------------------
(* What was published stays published. *)

(* What was published stays published. *)
LEMMA PublishedGrows ==
    ASSUME sent \subseteq sent', NEW room, NEW kind, NEW k, NEW j, NEW i,
           Published(room, kind, k, j, i)
    PROVE  Published(room, kind, k, j, i)'
  BY DEF Published

(* Rounds that were published stay published. *)
LEMMA RoundsBelowGrows ==
    ASSUME sent \subseteq sent', NEW room, NEW i, NEW k, RoundsBelow(room, i, k)
    PROVE  RoundsBelow(room, i, k)'
  BY PublishedGrows DEF RoundsBelow

(* A message from the broker stays one. *)
LEMMA FromSentGrows ==
    ASSUME sent \subseteq sent', NEW m, FromSent(m)
    PROVE  FromSent(m)'
  BY DEF FromSent

(* A message under way stands for a published one like it. *)
LEMMA FromSentPublished ==
    ASSUME NEW m \in Msg, FromSent(m), NEW i, m.receiver \in {None, i}
    PROVE  Published(m.room, m.kind, m.round, m.sender, i)
  BY DEF FromSent, Published, Msg

(* The broker's history only grows. *)
LEMMA SentGrows == Next => sent \subseteq sent'
<1> USE DEF brokerVars
<1> SUFFICES ASSUME NEW n \in Node, NodeStep(n) \/ RequestStep(n) \/ FaultStep(n)
             PROVE  sent \subseteq sent'
  BY DEF Next
<1>1. CASE NodeStep(n)
  <2>1. ASSUME NEW env, handle_incoming(n, env) \/ handle_protocol_error(n, env)
        PROVE  sent' = sent
    BY <2>1, IncomingEffects DEF handle_protocol_error
  <2>2. ASSUME NEW x, handle_retry(n, x)
        PROVE  sent' = sent
    BY <2>2, RetriedEffects
  <2>3. ASSUME NEW m, send_one(n, m) \/ encrypt_fails(n, m)
        PROVE  sent \subseteq sent'
    BY <2>3 DEF send_one, encrypt_fails, Broadcast
  <2>4. ASSUME send_panics(n)
        PROVE  sent' = sent
    BY <2>4 DEF send_panics
  <2>5. ASSUME NEW room,
               \/ player_maybe_proceed(n, room) \/ handle_output_keygen(n, room)
               \/ handle_output_offline(n, room) \/ handle_output_sign(n, room)
        PROVE  sent' = sent
    BY <2>5 DEF player_maybe_proceed, handle_output_keygen, handle_output_offline,
       handle_output_sign
  <2>6. ASSUME NEW env, player_handle(n, env) \/ signer_handle(n, env)
        PROVE  sent' = sent
    BY <2>6 DEF player_handle, signer_handle
  <2> QED BY <1>1, <2>1, <2>2, <2>3, <2>4, <2>5, <2>6 DEF NodeStep
<1>2. CASE RequestStep(n)
  BY <1>2, KeygenEffects, SignEffects DEF RequestStep, request_lost
<1>3. CASE FaultStep(n)
  <2>1. ASSUME NEW m, send_fails(n, m) \/ send_lost(n, m)
        PROVE  sent \subseteq sent'
    BY <2>1 DEF send_fails, send_lost, Broadcast
  <2>2. ASSUME NEW env, player_proceed_fails(n, env) \/ redeliver(n, env)
        PROVE  sent' = sent
    BY <2>2 DEF player_proceed_fails, redeliver
  <2>3. ASSUME NEW room, handle_output_keygen_unsaved(n, room)
        PROVE  sent' = sent
    BY <2>3 DEF handle_output_keygen_unsaved
  <2>4. ASSUME stream_finished(n) \/ restart(n)
        PROVE  sent' = sent
    BY <2>4 DEF stream_finished, restart
  <2> QED BY <1>3, <2>1, <2>2, <2>3, <2>4 DEF FaultStep
<1> QED BY <1>1, <1>2, <1>3

-----------------------------------------------------------------------------
(* The parts of Provenance that a step does not disturb.  Sets that lose
   members, like an emptied mailbox, disturb nothing. *)

Within(f, g) == \A q \in Node : f[q] \subseteq g[q]

(* Nothing new under way. *)
LEMMA KeepInTransit ==
    ASSUME InTransit, sent \subseteq sent', Within(wire', wire), Within(inbox', inbox),
           Within(errors', errors), Within(timers', timers)
    PROVE  InTransit'
  BY FromSentGrows DEF InTransit, Within

(* Nothing new to send, nothing new sent. *)
LEMMA KeepOutbox ==
    ASSUME KindsOk, SigsFormed, OutboxBarrier, RoundBarrier,
           sent' = sent, Within(outbox', outbox)
    PROVE  KindsOk' /\ SigsFormed' /\ OutboxBarrier' /\ RoundBarrier'
<1>1. KindsOk' /\ SigsFormed'
  BY DEF KindsOk, SigsFormed, Within
<1>2. OutboxBarrier' /\ RoundBarrier'
  BY RoundsBelowGrows DEF OutboxBarrier, RoundBarrier, Within
<1> QED BY <1>1, <1>2

(* No player moves. *)
LEMMA KeepPlayers ==
    ASSUME StoreHeard, RoundsPassed, sent \subseteq sent', player' = player
    PROVE  StoreHeard' /\ RoundsPassed'
<1>1. StoreHeard'
  BY PublishedGrows DEF StoreHeard
<1>2. RoundsPassed'
  BY DEF RoundsPassed
<1> QED BY <1>1, <1>2

(* No new output. *)
LEMMA KeepOutputs ==
    ASSUME OutputsEarned, sent \subseteq sent', Within(outputs', outputs)
    PROVE  OutputsEarned'
  BY RoundsBelowGrows, PublishedGrows DEF OutputsEarned, SigsPublished, Within

(* No new signer, and nothing new for one. *)
LEMMA KeepSigners ==
    ASSUME SignersReady, sent \subseteq sent', signers' = signers, Within(inbox', inbox)
    PROVE  SignersReady'
  BY RoundsBelowGrows DEF SignersReady, Within

(* No new partial signature. *)
LEMMA KeepSigs ==
    ASSUME SigsHeard, sent \subseteq sent', partial_sigs' = partial_sigs
    PROVE  SigsHeard'
  BY PublishedGrows DEF SigsHeard

(* No request becomes done. *)
LEMMA KeepDone ==
    ASSUME DoneNeedsAll, sent \subseteq sent',
           \A n \in Node : \A req \in Req \ PreKeys :
               report'[n][req] = "done" => report[n][req] = "done"
    PROVE  DoneNeedsAll'
<1> SUFFICES ASSUME NEW n \in Node, NEW req \in Req \ PreKeys, report'[n][req] = "done"
             PROVE  AllPublished(n, req)'
  BY DEF DoneNeedsAll
<1>1. AllPublished(n, req)
  BY DEF DoneNeedsAll
<1> QED BY <1>1, RoundsBelowGrows, PublishedGrows DEF AllPublished


-----------------------------------------------------------------------------
(* The steps of the operations that several actions share. *)

(* retry adds the message it is given to the timers, or nothing. *)
LEMMA RetryEffect ==
    ASSUME TypeOK, NEW n \in Node, NEW rest, rest \subseteq timers[n], NEW env,
           NEW attempts, NEW check_passed,
           retry(n, rest, env, attempts, check_passed)
    PROVE  \A q \in Node : \A x \in timers'[q] : x \in timers[q] \/ x.env = env
<1>1. timers \in [Node -> SUBSET RetryMessage]
  BY DEF TypeOK
<1>2. \/ timers' = [timers EXCEPT ![n] = rest]
      \/ timers' = [timers EXCEPT ![n] = rest \cup
                      {[env |-> env, attempts |-> attempts,
                        check_passed |-> check_passed]}]
  BY DEF retry
<1> QED BY <1>1, <1>2

(* handle_incoming_unsafe adds it to the timers or to the mailbox of an actor
   that exists. *)
LEMMA DispatchEffect ==
    ASSUME TypeOK, NEW n \in Node, NEW rest, rest \subseteq timers[n], NEW env,
           NEW attempts, handle_incoming_unsafe(n, rest, env, attempts)
    PROVE  /\ \A q \in Node : \A x \in timers'[q] : x \in timers[q] \/ x.env = env
           /\ \A q \in Node : \A e \in inbox'[q] :
                e \in inbox[q] \/ (e = env /\ q = n /\ HasHandler(n, env.msg))
<1>0. timers \in [Node -> SUBSET RetryMessage] /\ inbox \in [Node -> SUBSET Envelope]
  BY DEF TypeOK
<1>1. CASE HasHandler(n, env.msg)
  BY <1>0, <1>1 DEF handle_incoming_unsafe
<1>2. CASE ~HasHandler(n, env.msg)
  <2>1. retry(n, rest, env, attempts + 1, TRUE) /\ inbox' = inbox
    BY <1>2 DEF handle_incoming_unsafe
  <2> QED BY <2>1, RetryEffect
<1> QED BY <1>1, <1>2

(* The same for the message of a timer that is up, which leaves the timers. *)
LEMMA DispatchFromTimer ==
    ASSUME TypeOK, NEW n \in Node, NEW x, NEW env, NEW attempts,
           handle_incoming_unsafe(n, timers[n] \ {x}, env, attempts)
    PROVE  /\ \A q \in Node : \A y \in timers'[q] : y \in timers[q] \/ y.env = env
           /\ \A q \in Node : \A e \in inbox'[q] :
                e \in inbox[q] \/ (e = env /\ q = n /\ HasHandler(n, env.msg))
<1> DEFINE rest == timers[n] \ {x}
<1>1. rest \subseteq timers[n] /\ handle_incoming_unsafe(n, rest, env, attempts)
  OBVIOUS
<1> HIDE DEF rest
<1> QED BY <1>1, DispatchEffect

(* Routing a message keeps InTransit and SignersReady: the actions
   handle_incoming, handle_retry and handle_protocol_error only move it. *)
LEMMA RouteKeeps ==
    ASSUME Provenance, NEW n \in Node, NEW env \in Envelope, FromSent(env.msg),
           sent' = sent, signers' = signers, Within(wire', wire), Within(errors', errors),
           \A q \in Node : \A x \in timers'[q] : x \in timers[q] \/ x.env.msg = env.msg,
           \A q \in Node : \A e \in inbox'[q] :
              \/ e \in inbox[q]
              \/ e.msg = env.msg /\ q = n /\ HasHandler(n, env.msg)
    PROVE  InTransit' /\ SignersReady'
<1>1. InTransit'
  <2> SUFFICES ASSUME NEW q \in Node
               PROVE  /\ \A e \in wire'[q] \cup inbox'[q] \cup errors'[q] : FromSent(e.msg)'
                      /\ \A x \in timers'[q] : FromSent(x.env.msg)'
    BY DEF InTransit
  <2>1. \A m : FromSent(m) => FromSent(m)'
    BY DEF FromSent
  <2>2. /\ \A e \in wire[q] \cup inbox[q] \cup errors[q] : FromSent(e.msg)
        /\ \A x \in timers[q] : FromSent(x.env.msg)
    BY DEF Provenance, InTransit
  <2> QED BY <2>1, <2>2 DEF Within
<1>2. SignersReady'
  <2>1. \A q \in Node : \A room \in signers[q] :
           RoundsBelow(room, Me(q, room), LastRound(room) + 1)'
    BY RoundsBelowGrows DEF Provenance, SignersReady
  <2>2. ASSUME NEW q \in Node, NEW e \in inbox'[q], e.msg.kind = "S"
        PROVE  e.msg.room \in signers[q]
    BY <2>2 DEF Provenance, SignersReady, HasHandler
  <2> QED BY <2>1, <2>2 DEF SignersReady
<1> QED BY <1>1, <1>2

(* A store of published messages that is complete up to round k - 1. *)
LEMMA StoreBarrier ==
    ASSUME NEW room, NEW i, NEW store, NEW k,
           \A q \in store : Published(room, PlayerKind(room), q[2], q[1], i),
           \A q \in 1..(k - 1) : Complete(room, i, store, q)
    PROVE  RoundsBelow(room, i, k)
<1> SUFFICES ASSUME NEW q \in 1..(k - 1), NEW j \in Parties(room) \ {i}
             PROVE  Published(room, PlayerKind(room), q, j, i)
  BY DEF RoundsBelow
<1>1. <<j, q>> \in store
  BY DEF Complete
<1> QED BY <1>1

(* Fewer rounds are below an earlier one. *)
LEMMA RoundsBelowLess ==
    ASSUME NEW room, NEW i, NEW k \in Nat, NEW r \in Nat, k <= r,
           RoundsBelow(room, i, r)
    PROVE  RoundsBelow(room, i, k)
  BY DEF RoundsBelow

(* The messages of a queue: their room, kind, sender and round. *)
LEMMA QueuedForm ==
    ASSUME NEW n \in Node, NEW room \in Room, NEW i \in Nat, NEW r0 \in Nat,
           NEW r \in Nat, NEW m \in QueuedMsgs(room, i, n, r0, r)
    PROVE  /\ m.room = room /\ m.kind = PlayerKind(room) /\ m.kind # "S"
           /\ m.sender = i /\ m.copy = 0
           /\ m.round \in Nat /\ m.round <= r
<1>1. PICK k \in (r0 + 1)..r : m \in RoundMsgs(room, PlayerKind(room), k, i, n)
  BY DEF QueuedMsgs
<1>2. \E j : m = Message(room, PlayerKind(room), k, i, j, n)
  BY <1>1 DEF RoundMsgs
<1>3. PlayerKind(room) # "S"
  BY DEF PlayerKind
<1> QED BY <1>1, <1>2, <1>3 DEF Message


(* A player that changes its own entry only. *)
LEMMA PlayerKeeps ==
    ASSUME Provenance, NEW n \in Node, NEW room \in Room, NEW p \in PlayerState,
           player' = [player EXCEPT ![n][room] = p], sent' = sent,
           \A q \in p.store : Published(room, PlayerKind(room), q[2], q[1], Me(n, room)),
           \A k \in 1..(p.round - 1) : Complete(room, Me(n, room), p.store, k)
    PROVE  StoreHeard' /\ RoundsPassed'
<1>0. player \in [Node -> [Room -> PlayerState]]
  BY DEF Provenance, TypeOK
<1>1. \A q \in Node, o \in Room :
         player'[q][o] = IF q = n /\ o = room THEN p ELSE player[q][o]
  BY <1>0
<1>2. StoreHeard'
  <2> SUFFICES ASSUME NEW q \in Node, NEW o \in Room, NEW z \in player'[q][o].store
               PROVE  Published(o, PlayerKind(o), z[2], z[1], Me(q, o))'
    BY DEF StoreHeard
  <2>1. Published(o, PlayerKind(o), z[2], z[1], Me(q, o))
    BY <1>1 DEF Provenance, StoreHeard
  <2> QED BY <2>1 DEF Published
<1>3. RoundsPassed'
  <2> SUFFICES ASSUME NEW q \in Node, NEW o \in Room, NEW k \in 1..(player'[q][o].round - 1)
               PROVE  Complete(o, Me(q, o), player'[q][o].store, k)
    BY DEF RoundsPassed
  <2> QED BY <1>1 DEF Provenance, RoundsPassed
<1> QED BY <1>2, <1>3

(* Adding messages to a mailbox of outgoing messages. *)
LEMMA OutboxKeeps ==
    ASSUME Provenance, NEW n \in Node, NEW M, sent' = sent,
           outbox' = [outbox EXCEPT ![n] = @ \cup M],
           \A m \in M : /\ KindOk(m) /\ m.copy = 0 /\ SigForm(m)
                        /\ RoundsBelow(m.room, m.sender,
                             IF m.kind = "S" THEN LastRound(m.room) + 1 ELSE m.round)
    PROVE  KindsOk' /\ SigsFormed' /\ OutboxBarrier' /\ RoundBarrier'
<1>0. outbox \in [Node -> SUBSET Msg]
  BY DEF Provenance, TypeOK
<1>1. \A q \in Node : \A m \in outbox'[q] : m \in outbox[q] \/ m \in M
  BY <1>0
<1>2. KindsOk'
  BY <1>1 DEF Provenance, KindsOk
<1>3. SigsFormed'
  BY <1>1 DEF Provenance, SigsFormed
<1>4. OutboxBarrier'
  <2> SUFFICES ASSUME NEW q \in Node, NEW m \in outbox'[q]
               PROVE  RoundsBelow(m.room, m.sender,
                        IF m.kind = "S" THEN LastRound(m.room) + 1 ELSE m.round)'
    BY DEF OutboxBarrier
  <2>1. RoundsBelow(m.room, m.sender,
                    IF m.kind = "S" THEN LastRound(m.room) + 1 ELSE m.round)
    BY <1>1 DEF Provenance, OutboxBarrier
  <2> QED BY <2>1, RoundsBelowGrows
<1>5. RoundBarrier'
  BY RoundsBelowGrows DEF Provenance, RoundBarrier
<1> QED BY <1>2, <1>3, <1>4, <1>5

(* Adding an output that was earned. *)
LEMMA OutputKeeps ==
    ASSUME Provenance, NEW n \in Node, NEW O, sent' = sent,
           outputs' = [outputs EXCEPT ![n] = @ \cup O],
           \A o \in O : /\ RoundsBelow(o[2], Me(n, o[2]), LastRound(o[2]) + 1)
                        /\ o[1] = "S" => SigsPublished(o[2], Me(n, o[2]))
    PROVE  OutputsEarned'
<1>0. outputs \in [Node -> SUBSET Output]
  BY DEF Provenance, TypeOK
<1>1. \A q \in Node : \A o \in outputs'[q] : o \in outputs[q] \/ (q = n /\ o \in O)
  BY <1>0
<1> SUFFICES ASSUME NEW q \in Node, NEW o \in outputs'[q]
             PROVE  /\ RoundsBelow(o[2], Me(q, o[2]), LastRound(o[2]) + 1)'
                    /\ o[1] = "S" => SigsPublished(o[2], Me(q, o[2]))'
  BY DEF OutputsEarned
<1>2. /\ RoundsBelow(o[2], Me(q, o[2]), LastRound(o[2]) + 1)
      /\ o[1] = "S" => SigsPublished(o[2], Me(q, o[2]))
  BY <1>1 DEF Provenance, OutputsEarned
<1> QED BY <1>2, RoundsBelowGrows, PublishedGrows DEF SigsPublished

(* maybe_proceed, from a store of published messages. *)
LEMMA ProceedKeeps ==
    ASSUME Provenance, NEW n \in Node, NEW room \in Room,
           NEW store \in SUBSET (Nat \X Nat), player[n][room].store \subseteq store,
           \A q \in store : Published(room, PlayerKind(room), q[2], q[1], Me(n, room)),
           NEW heard \in BOOLEAN, maybe_proceed(n, room, store, heard), sent' = sent
    PROVE  /\ StoreHeard' /\ RoundsPassed'
           /\ KindsOk' /\ SigsFormed' /\ OutboxBarrier' /\ RoundBarrier'
           /\ OutputsEarned'
<1> DEFINE p == player[n][room]
           i == Me(n, room)
<1>0. player \in [Node -> [Room -> PlayerState]] /\ p \in PlayerState /\ i \in Nat
  BY MeType DEF Provenance, TypeOK
<1>1. CASE p.phase = "gone"
  <2>1. /\ player' = [player EXCEPT ![n][room].store = store,
                                     ![n][room].heard = heard]
        /\ outbox' = outbox /\ outputs' = outputs
    BY <1>1 DEF maybe_proceed
  <2> DEFINE w == [p EXCEPT !.store = store, !.heard = heard]
  <2>2. player' = [player EXCEPT ![n][room] = w]
    BY <1>0, <2>1
  <2>3. w \in PlayerState /\ w.store = store /\ w.round = p.round
    BY <1>0 DEF PlayerState
  <2>4. \A k \in 1..(p.round - 1) : Complete(room, i, store, k)
    BY DEF Provenance, RoundsPassed, Complete
  <2>5. StoreHeard' /\ RoundsPassed'
    <3> HIDE DEF w, p
    <3> QED BY <2>2, <2>3, <2>4, PlayerKeeps
  <2>6. Within(outbox', outbox) /\ Within(outputs', outputs)
    BY <2>1 DEF Within
  <2> QED BY <2>5, <2>6, KeepOutbox, KeepOutputs DEF Provenance
<1>2. CASE p.phase # "gone"
  <2>1. PICK r \in 1..(LastRound(room) + 1) :
          /\ ProceedsTo(room, i, store, r)
          /\ player' = [player EXCEPT ![n][room] =
               [phase |-> StateLeft(room, r), round |-> r,
                store |-> store, heard |-> heard]]
          /\ outbox' = [outbox EXCEPT ![n] = @ \cup QueuedMsgs(room, i, n, p.round, r)]
          /\ outputs' = [outputs EXCEPT ![n] = @ \cup
               (IF Finished(room, r) THEN {<<PlayerKind(room), room>>} ELSE {})]
    BY <1>2 DEF maybe_proceed
  <2>2. r \in Nat /\ p.round \in Nat /\ LastRound(room) \in Nat /\ r <= LastRound(room) + 1
    BY <1>0, RoomFacts DEF PlayerState
  <2>3. \A k \in 1..(r - 1) : Complete(room, i, store, k)
    BY <2>1 DEF ProceedsTo
  <2>4. RoundsBelow(room, i, r)
    BY <2>3, StoreBarrier
  <2>5. StoreHeard' /\ RoundsPassed'
    <3> DEFINE w == [phase |-> StateLeft(room, r), round |-> r,
                     store |-> store, heard |-> heard]
    <3>1. w \in PlayerState /\ w.store = store /\ w.round = r
      BY <2>2 DEF PlayerState, StateLeft
    <3>2. player' = [player EXCEPT ![n][room] = w]
      BY <2>1
    <3> HIDE DEF w
    <3> QED BY <2>3, <3>1, <3>2, PlayerKeeps
  <2>6. KindsOk' /\ SigsFormed' /\ OutboxBarrier' /\ RoundBarrier'
    <3> DEFINE M == QueuedMsgs(room, i, n, p.round, r)
    <3>1. ASSUME NEW m \in M
          PROVE  /\ KindOk(m) /\ m.copy = 0 /\ SigForm(m)
                 /\ RoundsBelow(m.room, m.sender,
                      IF m.kind = "S" THEN LastRound(m.room) + 1 ELSE m.round)
      <4>1. /\ m.room = room /\ m.kind = PlayerKind(room) /\ m.kind # "S"
            /\ m.sender = i /\ m.copy = 0 /\ m.round \in Nat /\ m.round <= r
        BY <1>0, <2>2, QueuedForm
      <4>2. RoundsBelow(room, i, m.round)
        BY <2>2, <2>4, <4>1, RoundsBelowLess
      <4> QED BY <4>1, <4>2 DEF KindOk, SigForm
    <3>2. outbox' = [outbox EXCEPT ![n] = @ \cup M]
      BY <2>1
    <3> HIDE DEF M
    <3> QED BY <3>1, <3>2, OutboxKeeps
  <2>7. OutputsEarned'
    <3> DEFINE O == IF Finished(room, r) THEN {<<PlayerKind(room), room>>} ELSE {}
    <3>1. ASSUME NEW o \in O
          PROVE  /\ RoundsBelow(o[2], Me(n, o[2]), LastRound(o[2]) + 1)
                 /\ o[1] = "S" => SigsPublished(o[2], Me(n, o[2]))
      <4>1. r = LastRound(room) + 1 /\ o = <<PlayerKind(room), room>>
        BY <2>2 DEF Finished
      <4>2. o[1] # "S" /\ o[2] = room
        BY <4>1 DEF PlayerKind
      <4> QED BY <2>4, <4>1, <4>2
    <3>2. outputs' = [outputs EXCEPT ![n] = @ \cup O]
      BY <2>1
    <3> HIDE DEF O
    <3> QED BY <3>1, <3>2, OutputKeeps
  <2> QED BY <2>5, <2>6, <2>7
<1> QED BY <1>1, <1>2


(* A message from the broker is of its room's protocol or a partial
   signature, which is a broadcast. *)
LEMMA FromSentForm ==
    ASSUME Provenance, NEW m \in Msg, FromSent(m)
    PROVE  KindOk(m) /\ SigForm(m)
<1>1. PICK e \in sent : e.msg = [m EXCEPT !.copy = 0]
  BY DEF FromSent
<1>2. /\ e.msg.kind = m.kind /\ e.msg.room = m.room
      /\ e.msg.round = m.round /\ e.msg.receiver = m.receiver
  BY <1>1 DEF Msg
<1>3. KindOk(e.msg) /\ SigForm(e.msg)
  BY DEF Provenance, KindsOk, SigsFormed
<1> QED BY <1>2, <1>3 DEF KindOk, SigForm

(* What a player stores from its mailbox was published to it. *)
LEMMA StoreWithHeard ==
    ASSUME Provenance, NEW n \in Node, NEW env \in inbox[n], env.msg.kind # "S",
           env.msg.receiver \in {None, Me(n, env.msg.room)}
    PROVE  \A q \in StoreWith(player[n][env.msg.room], env.msg) :
             Published(env.msg.room, PlayerKind(env.msg.room), q[2], q[1],
                       Me(n, env.msg.room))
<1> DEFINE m == env.msg
<1>1. m \in Msg /\ m.room \in Room /\ FromSent(m)
  BY DEF Provenance, TypeOK, InTransit, Envelope, Msg
<1>2. m.kind = PlayerKind(m.room)
  BY <1>1, FromSentForm DEF KindOk
<1>3. Published(m.room, PlayerKind(m.room), m.round, m.sender, Me(n, m.room))
  BY <1>1, <1>2, FromSentPublished
<1>4. \A q \in player[n][m.room].store :
         Published(m.room, PlayerKind(m.room), q[2], q[1], Me(n, m.room))
  BY <1>1 DEF Provenance, StoreHeard
<1> QED BY <1>3, <1>4 DEF StoreWith

(* A signer's collection that is replaced by published signatures is still
   made of published signatures. *)
LEMMA SigsKeeps ==
    ASSUME Provenance, sent' = sent,
           \A q \in Node, o \in Room :
             \/ partial_sigs'[q][o] = partial_sigs[q][o]
             \/ \A x \in DOMAIN partial_sigs'[q][o] :
                  Published(o, "S", 1, partial_sigs'[q][o][x].sender, Me(q, o))
    PROVE  SigsHeard'
<1>1. \A q \in Node, o \in Room : \A x \in DOMAIN partial_sigs'[q][o] :
         Published(o, "S", 1, partial_sigs'[q][o][x].sender, Me(q, o))
  BY DEF Provenance, SigsHeard
<1> QED BY <1>1 DEF SigsHeard, Published

(* A server that loses its memory holds nothing that was not published. *)
LEMMA LoseKeeps ==
    ASSUME Provenance, TypeOK', NEW n \in Node, LoseMemory(n), sent' = sent,
           \A q \in Node : wire'[q] \subseteq wire[q] \cup sent,
           \A q \in Node : \A req \in Req \ PreKeys :
               report'[q][req] = "done" => report[q][req] = "done"
    PROVE  Provenance'
<1>t. TypeOK
  BY DEF Provenance
<1>1. InTransit'
  <2>1. /\ Within(inbox', inbox) /\ Within(errors', errors)
        /\ Within(timers', timers)
    BY <1>t DEF LoseMemory, Within, TypeOK
  <2>2. \A e \in sent : FromSent(e.msg)
    <3> SUFFICES ASSUME NEW e \in sent PROVE FromSent(e.msg)
      OBVIOUS
    <3>1. e.msg \in Msg /\ e.msg.copy = 0
      BY <1>t DEF TypeOK, Envelope, Provenance, KindsOk
    <3>2. [e.msg EXCEPT !.copy = 0] = e.msg
      BY <3>1 DEF Msg
    <3> QED BY <3>2 DEF FromSent
  <2>3. \A o : FromSent(o) => FromSent(o)'
    BY DEF FromSent
  <2> QED BY <2>1, <2>2, <2>3 DEF Provenance, InTransit, Within
<1>2. Within(outbox', outbox) /\ Within(outputs', outputs)
  BY <1>t DEF LoseMemory, Within, TypeOK
<1>3. StoreHeard' /\ RoundsPassed'
  <2>1. player' = [player EXCEPT ![n] = [room \in Room |-> NoPlayer]]
    BY DEF LoseMemory
  <2>2. NoPlayer.store = {} /\ 1..(NoPlayer.round - 1) = {}
    BY DEF NoPlayer
  <2>3. \A q \in Node, o \in Room :
           player'[q][o] = player[q][o] \/ player'[q][o] = NoPlayer
    BY <1>t, <2>1 DEF TypeOK
  <2>4. RoundsPassed'
    BY <2>2, <2>3 DEF Provenance, RoundsPassed
  <2> SUFFICES ASSUME NEW q \in Node, NEW o \in Room, NEW z \in player'[q][o].store
               PROVE  Published(o, PlayerKind(o), z[2], z[1], Me(q, o))'
    BY <2>4 DEF StoreHeard
  <2>5. Published(o, PlayerKind(o), z[2], z[1], Me(q, o))
    BY <2>2, <2>3 DEF Provenance, StoreHeard
  <2> QED BY <2>5 DEF Published
<1>4. SignersReady'
  <2>1. \A q \in Node : \/ signers'[q] = signers[q] /\ inbox'[q] = inbox[q]
                        \/ signers'[q] = {} /\ inbox'[q] = {}
    BY <1>t DEF LoseMemory, TypeOK
  <2>2. \A q \in Node : \A o \in signers'[q] :
           RoundsBelow(o, Me(q, o), LastRound(o) + 1)'
    BY <2>1, RoundsBelowGrows DEF Provenance, SignersReady
  <2> QED BY <2>1, <2>2 DEF Provenance, SignersReady
<1>5. SigsHeard'
  <2>1. partial_sigs' = [partial_sigs EXCEPT ![n] = [room \in Room |-> << >>]]
    BY DEF LoseMemory
  <2>2. \A q \in Node, o \in Room :
           partial_sigs'[q][o] = partial_sigs[q][o] \/ partial_sigs'[q][o] = << >>
    BY <1>t, <2>1 DEF TypeOK
  <2> QED BY <2>2, SigsKeeps
<1> QED BY <1>1, <1>2, <1>3, <1>4, <1>5, KeepOutbox, KeepOutputs, KeepDone
        DEF Provenance

(* Nor does one whose coordinator stops. *)
LEMMA StopKeeps ==
    ASSUME Provenance, TypeOK', NEW n \in Node, StopCoordinator(n), sent' = sent,
           \A q \in Node : \A req \in Req \ PreKeys :
               report'[q][req] = "done" => report[q][req] = "done"
    PROVE  Provenance'
<1>1. \A q \in Node : wire'[q] \subseteq wire[q] \cup sent
  BY DEF StopCoordinator, Provenance, TypeOK
<1>2. LoseMemory(n)
  BY DEF StopCoordinator
<1> QED BY <1>1, <1>2, LoseKeeps

(* At the start nothing is held, sent or done. *)
LEMMA ProvenanceInit == Init => Provenance
<1> SUFFICES ASSUME Init PROVE Provenance
  OBVIOUS
<1>1. TypeOK
  BY TypeInit
<1>2. InTransit /\ KindsOk /\ SigsFormed /\ OutboxBarrier /\ OutputsEarned
        /\ SignersReady /\ RoundBarrier
  BY DEF Init, InTransit, KindsOk, SigsFormed, OutboxBarrier, OutputsEarned,
         SignersReady, RoundBarrier
<1>3. StoreHeard /\ RoundsPassed
  BY DEF Init, StoreHeard, RoundsPassed, NoPlayer
<1>4. SigsHeard
  BY DEF Init, SigsHeard
<1>5. DoneNeedsAll
  BY DEF Init, DoneNeedsAll
<1> QED BY <1>1, <1>2, <1>3, <1>4, <1>5 DEF Provenance

(* Every step keeps Provenance. *)
LEMMA ProvenanceStep == Provenance /\ [Next]_vars => Provenance'
<1> SUFFICES ASSUME Provenance, [Next]_vars PROVE Provenance'
  OBVIOUS
<1> USE DEF storeVars, apiVars, nodeVars, runnerVars, retryVars, mailVars,
            actorVars, brokerVars, faultVars
<1>t. TypeOK /\ TypeOK'
  BY TypeStep DEF Provenance
<1>1. ASSUME NEW n \in Node, NEW req \in Req, request_lost(n, req)
      PROVE  Provenance'
  <2>1. UNCHANGED <<wire, inbox, errors, timers, sent, outbox, player, outputs,
                    signers, partial_sigs, report>>
    BY <1>1 DEF request_lost
  <2> QED BY <1>t, <2>1, KeepInTransit, KeepOutbox, KeepPlayers, KeepOutputs,
             KeepSigners, KeepSigs, KeepDone DEF Provenance, Within
<1>2. ASSUME NEW n \in Node, NEW req \in Req,
             handle_keygen_request(n, req) \/ handle_sign_request(n, req)
      PROVE  Provenance'
  <2>1. sent' = sent
    BY <1>2, KeygenEffects, SignEffects
  <2>2. \A q \in Node : \A o \in Req \ PreKeys :
           report'[q][o] = "done" => report[q][o] = "done"
    <3>1. report' = report \/ report' = [report EXCEPT ![n][req] = "processing"]
      BY <1>2, KeygenEffects, SignEffects
    <3>2. report \in [Node -> [Req -> Status]]
      BY <1>t DEF TypeOK
    <3> QED BY <3>1, <3>2
  <2>3. CASE StopCoordinator(n)
    BY <1>t, <2>1, <2>2, <2>3, StopKeeps
  <2>4. CASE ~StopCoordinator(n)
    <3>1. UNCHANGED <<wire, inbox, errors, timers, outbox, outputs, signers,
                      partial_sigs>>
      BY <1>2, <2>4, KeygenEffects, SignEffects
    <3>2. StoreHeard' /\ RoundsPassed'
      <4>1. \/ player' = player
            \/ player' = [player EXCEPT ![n][RoomOf(req)] = NewPlayer]
        BY <1>2, <2>4, KeygenEffects, SignEffects
      <4>2. /\ NewPlayer \in PlayerState /\ NewPlayer.store = {}
            /\ 1..(NewPlayer.round - 1) = {}
        BY DEF NewPlayer, PlayerState
      <4>3. CASE player' = [player EXCEPT ![n][RoomOf(req)] = NewPlayer]
        BY <2>1, <4>2, <4>3, RoomOfType, PlayerKeeps
      <4> QED BY <2>1, <4>1, <4>3, KeepPlayers DEF Provenance
    <3> QED BY <1>t, <2>1, <2>2, <3>1, <3>2, KeepInTransit, KeepOutbox, KeepOutputs,
               KeepSigners, KeepSigs, KeepDone DEF Provenance, Within
  <2> QED BY <2>3, <2>4
<1>3. ASSUME NEW n \in Node, NEW env \in wire[n], handle_incoming(n, env)
      PROVE  Provenance'
  <2>0. env \in Envelope /\ FromSent(env.msg)
    BY <1>t DEF TypeOK, Provenance, InTransit
  <2>1. /\ UNCHANGED <<storeVars, apiVars, sent, faultVars>>
        /\ \/ StopCoordinator(n)
           \/ /\ wire' = [wire EXCEPT ![n] = @ \ {env}]
              /\ UNCHANGED <<nodeVars, runnerVars, mailVars, actorVars>>
              /\ \/ DropIncoming
                 \/ \E e \in maybe_decrypt(n, env) :
                       handle_incoming_unsafe(n, timers[n], e, 0)
                 \/ retry(n, timers[n], env, 1, FALSE) /\ UNCHANGED inbox
    BY <1>3, IncomingEffects
  <2>2. CASE StopCoordinator(n)
    BY <1>t, <2>1, <2>2, StopKeeps
  <2>3. CASE ~StopCoordinator(n)
    <3>1. /\ UNCHANGED <<errors, sent, outbox, player, outputs, signers,
                         partial_sigs, report>>
          /\ wire' = [wire EXCEPT ![n] = @ \ {env}]
      BY <2>1, <2>3
    <3>2. Within(wire', wire) /\ Within(errors', errors)
      BY <3>1, <1>t DEF Within, TypeOK
    <3>3. /\ \A q \in Node : \A x \in timers'[q] :
               x \in timers[q] \/ x.env.msg = env.msg
          /\ \A q \in Node : \A e \in inbox'[q] :
               e \in inbox[q] \/ (e.msg = env.msg /\ q = n /\ HasHandler(n, env.msg))
      <4>1. CASE DropIncoming
        BY <4>1 DEF DropIncoming
      <4>2. CASE \E e \in maybe_decrypt(n, env) :
                    handle_incoming_unsafe(n, timers[n], e, 0)
        <5>1. PICK e \in maybe_decrypt(n, env) :
                     handle_incoming_unsafe(n, timers[n], e, 0)
          BY <4>2
        <5>2. e.msg = env.msg
          BY <2>0, DecryptType
        <5>3. /\ \A q \in Node : \A y \in timers'[q] : y \in timers[q] \/ y.env = e
              /\ \A q \in Node : \A z \in inbox'[q] :
                   z \in inbox[q] \/ (z = e /\ q = n /\ HasHandler(n, e.msg))
          <6>1. timers[n] \subseteq timers[n]
            OBVIOUS
          <6> QED BY <1>t, <5>1, <6>1, DispatchEffect
        <5> QED BY <5>2, <5>3
      <4>3. CASE retry(n, timers[n], env, 1, FALSE) /\ UNCHANGED inbox
        BY <1>t, <4>3, RetryEffect
      <4> QED BY <2>1, <2>3, <4>1, <4>2, <4>3
    <3>4. InTransit' /\ SignersReady'
      BY <2>0, <3>1, <3>2, <3>3, RouteKeeps
    <3> QED BY <1>t, <3>1, <3>4, KeepOutbox, KeepPlayers, KeepOutputs, KeepSigs,
               KeepDone DEF Provenance, Within
  <2> QED BY <2>2, <2>3
<1>4. ASSUME NEW n \in Node, NEW x \in timers[n], handle_retry(n, x)
      PROVE  Provenance'
  <2>0. x.env \in Envelope /\ FromSent(x.env.msg)
    BY <1>t DEF TypeOK, Provenance, InTransit, RetryMessage
  <2>1. /\ UNCHANGED <<storeVars, apiVars, sent, faultVars>>
        /\ \/ StopCoordinator(n)
           \/ /\ UNCHANGED <<nodeVars, runnerVars, mailVars, actorVars, wire>>
              /\ \/ \E e \in {x.env} \cup maybe_decrypt(n, x.env) :
                       handle_incoming_unsafe(n, timers[n] \ {x}, e, x.attempts)
                 \/ /\ retry(n, timers[n] \ {x}, x.env, x.attempts + 1, FALSE)
                    /\ UNCHANGED inbox
    BY <1>4, RetriedEffects
  <2>2. CASE StopCoordinator(n)
    BY <1>t, <2>1, <2>2, StopKeeps
  <2>3. CASE ~StopCoordinator(n)
    <3>1. UNCHANGED <<wire, errors, sent, outbox, player, outputs, signers,
                      partial_sigs, report>>
      BY <2>1, <2>3
    <3>2. /\ \A q \in Node : \A y \in timers'[q] :
               y \in timers[q] \/ y.env.msg = x.env.msg
          /\ \A q \in Node : \A e \in inbox'[q] :
               \/ e \in inbox[q]
               \/ e.msg = x.env.msg /\ q = n /\ HasHandler(n, x.env.msg)
      <4>1. CASE \E e \in {x.env} \cup maybe_decrypt(n, x.env) :
                   handle_incoming_unsafe(n, timers[n] \ {x}, e, x.attempts)
        <5>1. PICK e \in {x.env} \cup maybe_decrypt(n, x.env) :
                   handle_incoming_unsafe(n, timers[n] \ {x}, e, x.attempts)
          BY <4>1
        <5>2. e.msg = x.env.msg
          BY <2>0, DecryptType
        <5>3. /\ \A q \in Node : \A y \in timers'[q] : y \in timers[q] \/ y.env = e
              /\ \A q \in Node : \A z \in inbox'[q] :
                   z \in inbox[q] \/ (z = e /\ q = n /\ HasHandler(n, e.msg))
          BY <1>t, <5>1, DispatchFromTimer
        <5> QED BY <5>2, <5>3
      <4>2. CASE /\ retry(n, timers[n] \ {x}, x.env, x.attempts + 1, FALSE)
                 /\ UNCHANGED inbox
        BY <1>t, <4>2, RetryEffect
      <4> QED BY <2>1, <2>3, <4>1, <4>2
    <3>3. InTransit' /\ SignersReady'
      BY <2>0, <3>1, <3>2, RouteKeeps DEF Within
    <3> QED BY <1>t, <3>1, <3>3, KeepOutbox, KeepPlayers, KeepOutputs, KeepSigs,
               KeepDone DEF Provenance, Within
  <2> QED BY <2>2, <2>3
<1>5. ASSUME NEW n \in Node, NEW env \in errors[n], handle_protocol_error(n, env)
      PROVE  Provenance'
  <2>0. env \in Envelope /\ FromSent(env.msg)
    BY <1>t DEF TypeOK, Provenance, InTransit
  <2>1. /\ UNCHANGED <<wire, inbox, sent, outbox, player, outputs, signers,
                       partial_sigs, report>>
        /\ errors' = [errors EXCEPT ![n] = @ \ {env}]
        /\ retry(n, timers[n], env, 1, TRUE)
    BY <1>5 DEF handle_protocol_error
  <2>2. Within(wire', wire) /\ Within(errors', errors)
    BY <2>1, <1>t DEF Within, TypeOK
  <2>3. \A q \in Node : \A x \in timers'[q] : x \in timers[q] \/ x.env.msg = env.msg
    BY <1>t, <2>1, RetryEffect
  <2>4. InTransit' /\ SignersReady'
    BY <2>0, <2>1, <2>2, <2>3, RouteKeeps
  <2> QED BY <1>t, <2>1, <2>4, KeepOutbox, KeepPlayers, KeepOutputs, KeepSigs,
             KeepDone DEF Provenance, Within
<1>6. ASSUME NEW n \in Node, NEW m \in outbox[n], TakeOut(n, m), Broadcast(n, m)
      PROVE  Provenance'
  <2>0. m \in Msg /\ \A e \in maybe_encrypt(n, m) : e \in Envelope /\ e.msg = m
    BY <1>t, EncryptType DEF TypeOK
  <2>1. /\ UNCHANGED <<inbox, errors, timers, player, outputs, signers,
                       partial_sigs, report>>
        /\ outbox' = [outbox EXCEPT ![n] = @ \ {m}]
        /\ wire' = [q \in Node |-> IF q = n \/ ~up[q] THEN wire[q]
                                   ELSE wire[q] \cup maybe_encrypt(n, m)]
        /\ sent' = sent \cup maybe_encrypt(n, m)
    BY <1>6 DEF TakeOut, Broadcast
  <2>2. sent \subseteq sent' /\ Within(outbox', outbox)
    BY <1>t, <2>1 DEF Within, TypeOK
  <2>3. KindOk(m) /\ m.copy = 0 /\ SigForm(m)
    BY DEF Provenance, KindsOk, SigsFormed
  <2>4. InTransit'
    <3>1. \A o : FromSent(o) => FromSent(o)'
      BY <2>2 DEF FromSent
    <3>2. \A e \in maybe_encrypt(n, m) : FromSent(e.msg)'
      <4> SUFFICES ASSUME NEW e \in maybe_encrypt(n, m) PROVE FromSent(e.msg)'
        OBVIOUS
      <4>1. e \in sent' /\ e.msg = m /\ [m EXCEPT !.copy = 0] = m
        BY <2>0, <2>1, <2>3 DEF Msg
      <4> QED BY <4>1 DEF FromSent
    <3> QED BY <2>1, <3>1, <3>2 DEF Provenance, InTransit
  <2>5. KindsOk' /\ SigsFormed'
    BY <2>0, <2>1, <2>2, <2>3 DEF Provenance, KindsOk, SigsFormed, Within
  <2>6. OutboxBarrier'
    BY <2>2, RoundsBelowGrows DEF Provenance, OutboxBarrier, Within
  <2>7. RoundBarrier'
    <3> SUFFICES ASSUME NEW e \in sent'
                 PROVE  RoundsBelow(e.msg.room, e.msg.sender,
                          IF e.msg.kind = "S" THEN LastRound(e.msg.room) + 1
                          ELSE e.msg.round)'
      BY DEF RoundBarrier
    <3>1. RoundsBelow(e.msg.room, e.msg.sender,
                      IF e.msg.kind = "S" THEN LastRound(e.msg.room) + 1
                      ELSE e.msg.round)
      BY <2>0, <2>1 DEF Provenance, RoundBarrier, OutboxBarrier
    <3> QED BY <2>2, <3>1, RoundsBelowGrows
  <2> QED BY <1>t, <2>1, <2>2, <2>4, <2>5, <2>6, <2>7, KeepPlayers, KeepOutputs,
             KeepSigners, KeepSigs, KeepDone DEF Provenance, Within
<1>7. ASSUME NEW n \in Node, NEW m \in outbox[n], TakeOut(n, m), UNCHANGED brokerVars
      PROVE  Provenance'
  <2>1. /\ UNCHANGED <<wire, inbox, errors, timers, sent, player, outputs, signers,
                       partial_sigs, report>>
        /\ outbox' = [outbox EXCEPT ![n] = @ \ {m}]
    BY <1>7 DEF TakeOut
  <2>2. Within(outbox', outbox)
    BY <1>t, <2>1 DEF Within, TypeOK
  <2> QED BY <1>t, <2>1, <2>2, KeepInTransit, KeepOutbox, KeepPlayers, KeepOutputs,
             KeepSigners, KeepSigs, KeepDone DEF Provenance, Within
<1>8. ASSUME NEW n \in Node, send_panics(n) \/ stream_finished(n)
      PROVE  Provenance'
  <2>1. StopCoordinator(n) /\ UNCHANGED <<sent, report>>
    BY <1>8 DEF send_panics, stream_finished
  <2> QED BY <1>t, <2>1, StopKeeps
<1>9. ASSUME NEW n \in Node, NEW room \in Room, player_maybe_proceed(n, room)
      PROVE  Provenance'
  <2> DEFINE store == player[n][room].store
  <2>1. /\ UNCHANGED <<wire, inbox, errors, timers, sent, signers, partial_sigs, report>>
        /\ maybe_proceed(n, room, store, FALSE)
    BY <1>9 DEF player_maybe_proceed
  <2>2. /\ store \in SUBSET (Nat \X Nat)
        /\ \A q \in store : Published(room, PlayerKind(room), q[2], q[1], Me(n, room))
    BY <1>t DEF Provenance, StoreHeard, TypeOK, PlayerState
  <2>3. /\ StoreHeard' /\ RoundsPassed' /\ KindsOk' /\ SigsFormed'
        /\ OutboxBarrier' /\ RoundBarrier' /\ OutputsEarned'
    BY <2>1, <2>2, ProceedKeeps
  <2> QED BY <1>t, <2>1, <2>3, KeepInTransit, KeepSigners, KeepSigs, KeepDone
          DEF Provenance, Within
<1>10. ASSUME NEW n \in Node, NEW env \in inbox[n], player_handle(n, env)
       PROVE  Provenance'
  <2> DEFINE m == env.msg
             p == player[n][m.room]
  <2>0. env \in Envelope /\ m \in Msg /\ m.room \in Room /\ FromSent(m)
    BY <1>t DEF TypeOK, Provenance, InTransit, Envelope, Msg
  <2>1. /\ UNCHANGED <<wire, timers, sent, signers, partial_sigs, report>>
        /\ inbox' = [inbox EXCEPT ![n] = @ \ {env}]
        /\ m.kind # "S"
    BY <1>10 DEF player_handle
  <2>2. errors' = errors \/ errors' = [errors EXCEPT ![n] = @ \cup {env}]
    BY <1>10 DEF player_handle
  <2>3. Within(inbox', inbox)
    BY <1>t, <2>1 DEF Within, TypeOK
  <2>4. InTransit'
    <3>0. errors \in [Node -> SUBSET Envelope]
      BY <1>t DEF TypeOK
    <3>1. \A q \in Node : \A e \in errors'[q] : e \in errors[q] \/ e = env
      BY <2>2, <3>0
    <3>2. \A o : FromSent(o) => FromSent(o)'
      BY <2>1 DEF FromSent
    <3> QED BY <2>0, <2>1, <2>3, <3>1, <3>2 DEF Provenance, InTransit, Within
  <2>5. /\ StoreHeard' /\ RoundsPassed' /\ KindsOk' /\ SigsFormed'
        /\ OutboxBarrier' /\ RoundBarrier' /\ OutputsEarned'
    <3>1. CASE UNCHANGED <<player, outbox, outputs>>
      BY <2>1, <3>1, KeepPlayers, KeepOutbox, KeepOutputs DEF Provenance, Within
    <3>2. CASE m.receiver \in {None, Me(n, m.room)}
               /\ \/ maybe_proceed(n, m.room, p.store, TRUE)
                  \/ maybe_proceed(n, m.room, StoreWith(p, m), TRUE)
      <4>1. \A q \in StoreWith(p, m) :
               Published(m.room, PlayerKind(m.room), q[2], q[1], Me(n, m.room))
        BY <2>1, <3>2, StoreWithHeard
      <4>2. /\ p.store \in SUBSET (Nat \X Nat)
            /\ StoreWith(p, m) \in SUBSET (Nat \X Nat)
            /\ p.store \subseteq StoreWith(p, m)
        <5>1. player \in [Node -> [Room -> PlayerState]]
          BY <1>t DEF TypeOK
        <5>2. p.store \in SUBSET (Nat \X Nat)
          BY <2>0, <5>1 DEF PlayerState
        <5>3. m.round \in Nat /\ m.sender \in Nat
          BY <2>0 DEF Msg
        <5> QED BY <5>2, <5>3 DEF StoreWith
      <4>3. CASE maybe_proceed(n, m.room, p.store, TRUE)
        BY <2>0, <2>1, <4>1, <4>2, <4>3, ProceedKeeps
      <4>4. CASE maybe_proceed(n, m.room, StoreWith(p, m), TRUE)
        BY <2>0, <2>1, <4>1, <4>2, <4>4, ProceedKeeps
      <4> QED BY <3>2, <4>3, <4>4
    <3>3. \/ UNCHANGED <<player, outbox, outputs>>
          \/ /\ m.receiver \in {None, Me(n, m.room)}
             /\ \/ maybe_proceed(n, m.room, p.store, TRUE)
                \/ maybe_proceed(n, m.room, StoreWith(p, m), TRUE)
      BY <1>10 DEF player_handle
    <3> QED BY <3>1, <3>2, <3>3
  <2> QED BY <1>t, <2>1, <2>3, <2>4, <2>5, KeepSigners, KeepSigs, KeepDone
          DEF Provenance
<1>11. ASSUME NEW n \in Node, NEW env \in inbox[n], player_proceed_fails(n, env)
       PROVE  Provenance'
  <2> DEFINE m == env.msg
             p == player[n][m.room]
             w == [phase |-> "gone", round |-> p.round + 1,
                   store |-> StoreWith(p, m), heard |-> TRUE]
  <2>0. m \in Msg /\ m.room \in Room /\ p \in PlayerState
    BY <1>t DEF TypeOK, Envelope, Msg
  <2>1. /\ UNCHANGED <<wire, errors, timers, sent, outbox, outputs, signers,
                       partial_sigs, report>>
        /\ inbox' = [inbox EXCEPT ![n] = @ \ {env}]
        /\ player' = [player EXCEPT ![n][m.room] = w]
        /\ m.kind # "S" /\ m.receiver \in {None, Me(n, m.room)}
        /\ Complete(m.room, Me(n, m.room), StoreWith(p, m), p.round)
    BY <1>11 DEF player_proceed_fails
  <2>2. Within(inbox', inbox)
    BY <1>t, <2>1 DEF Within, TypeOK
  <2>3. StoreHeard' /\ RoundsPassed'
    <3>1. w \in PlayerState /\ w.store = StoreWith(p, m) /\ w.round = p.round + 1
      BY <2>0 DEF PlayerState, StoreWith, Msg
    <3>2. \A q \in w.store :
             Published(m.room, PlayerKind(m.room), q[2], q[1], Me(n, m.room))
      BY <2>1, <3>1, StoreWithHeard
    <3>3. ASSUME NEW k \in 1..(w.round - 1)
          PROVE  Complete(m.room, Me(n, m.room), w.store, k)
      <4>1. p.round \in Nat
        BY <2>0 DEF PlayerState
      <4>2. CASE k = p.round
        BY <2>1, <3>1, <4>2
      <4>3. CASE k # p.round
        <5>1. k \in 1..(p.round - 1)
          BY <3>1, <4>1, <4>3
        <5>2. Complete(m.room, Me(n, m.room), p.store, k)
          BY <2>0, <5>1 DEF Provenance, RoundsPassed
        <5> QED BY <3>1, <5>2 DEF Complete, StoreWith
      <4> QED BY <4>2, <4>3
    <3> HIDE DEF w
    <3> QED BY <2>0, <2>1, <3>1, <3>2, <3>3, PlayerKeeps
  <2> QED BY <1>t, <2>1, <2>2, <2>3, KeepInTransit, KeepOutbox, KeepOutputs,
             KeepSigners, KeepSigs, KeepDone DEF Provenance, Within
<1>12. ASSUME NEW n \in Node, NEW env \in inbox[n], signer_handle(n, env)
       PROVE  Provenance'
  <2> DEFINE m == env.msg
             i == Me(n, m.room)
             old == partial_sigs[n][m.room]
             sigs == Append(old, m)
  <2>0. m \in Msg /\ m.room \in Room /\ FromSent(m) /\ old \in Seq(Msg)
    <3>1. inbox \in [Node -> SUBSET Envelope] /\ partial_sigs \in [Node -> [Room -> Seq(Msg)]]
      BY <1>t DEF TypeOK
    <3>2. m \in Msg /\ m.room \in Room
      BY <3>1 DEF Envelope, Msg
    <3>3. FromSent(m)
      BY DEF Provenance, InTransit
    <3>4. old \in Seq(Msg)
      BY <3>1, <3>2
    <3> QED BY <3>2, <3>3, <3>4
  <2>1. /\ UNCHANGED <<wire, errors, timers, sent, outbox, player, signers, report>>
        /\ inbox' = [inbox EXCEPT ![n] = @ \ {env}]
        /\ m.kind = "S"
    BY <1>12 DEF signer_handle
  <2>2. Within(inbox', inbox)
    BY <1>t, <2>1 DEF Within, TypeOK
  <2>3. Published(m.room, "S", 1, m.sender, i)
    <3>1. m.round = 1 /\ m.receiver = None
      BY <2>0, <2>1, FromSentForm DEF SigForm
    <3> QED BY <2>0, <2>1, <3>1, FromSentPublished
  <2>4. ASSUME NEW x \in DOMAIN sigs
        PROVE  Published(m.room, "S", 1, sigs[x].sender, i)
    <3>0. /\ x \in 1..(Len(old) + 1)
          /\ sigs[x] = IF x = Len(old) + 1 THEN m ELSE old[x]
      <4> HIDE DEF old, m
      <4> QED BY <2>0 DEF sigs
    <3>1. CASE x = Len(old) + 1
      BY <2>3, <3>0, <3>1
    <3>2. CASE x # Len(old) + 1
      <4>1. x \in DOMAIN old /\ sigs[x] = old[x]
        <5> HIDE DEF old, sigs
        <5> QED BY <2>0, <3>0, <3>2
      <4> QED BY <2>0, <4>1 DEF Provenance, SigsHeard
    <3> QED BY <3>1, <3>2
  <2>5. SigsHeard'
    <3>1. partial_sigs \in [Node -> [Room -> Seq(Msg)]]
      BY <1>t DEF TypeOK
    <3>2. \/ partial_sigs' = partial_sigs
          \/ partial_sigs' = [partial_sigs EXCEPT ![n][m.room] = sigs]
      BY <1>12 DEF signer_handle
    <3>3. \A q \in Node, o \in Room :
             partial_sigs'[q][o] = partial_sigs[q][o]
               \/ (q = n /\ o = m.room /\ partial_sigs'[q][o] = sigs)
      <4> HIDE DEF sigs
      <4> QED BY <2>0, <3>1, <3>2
    <3> HIDE DEF sigs
    <3> QED BY <2>1, <2>4, <3>3, SigsKeeps
  <2>6. OutputsEarned'
    <3> DEFINE O == IF Completes(m.room, i, sigs) THEN {<<"S", m.room>>} ELSE {}
    <3>1. CASE outputs' = outputs
      BY <2>1, <3>1, KeepOutputs DEF Provenance, Within
    <3>2. CASE outputs' = [outputs EXCEPT ![n] = @ \cup O]
      <4>1. ASSUME NEW o \in O
            PROVE  /\ RoundsBelow(o[2], Me(n, o[2]), LastRound(o[2]) + 1)
                   /\ SigsPublished(o[2], Me(n, o[2]))
        <5>1. o[2] = m.room /\ Completes(m.room, i, sigs)
          BY <4>1
        <5>2. RoundsBelow(m.room, i, LastRound(m.room) + 1)
          BY <2>1 DEF Provenance, SignersReady
        <5>3. SigsPublished(m.room, i)
          <6> HIDE DEF sigs
          <6> QED BY <2>4, <5>1 DEF Completes, SigsPublished
        <5> QED BY <5>1, <5>2, <5>3
      <4> HIDE DEF O
      <4> QED BY <2>1, <3>2, <4>1, OutputKeeps
    <3>3. outputs' = outputs \/ outputs' = [outputs EXCEPT ![n] = @ \cup O]
      BY <1>12 DEF signer_handle
    <3> QED BY <3>1, <3>2, <3>3
  <2> QED BY <1>t, <2>1, <2>2, <2>5, <2>6, KeepInTransit, KeepOutbox, KeepPlayers,
             KeepSigners, KeepDone DEF Provenance, Within
<1>13. ASSUME NEW n \in Node, NEW room \in Room,
              \/ handle_output_keygen(n, room) \/ handle_output_sign(n, room)
              \/ handle_output_keygen_unsaved(n, room)
       PROVE  Provenance'
  <2>0. room[1] \in Req /\ room = RoomOf(room[1])
    BY RoomFacts
  <2>1. UNCHANGED <<wire, inbox, errors, timers, sent, outbox, player, signers,
                    partial_sigs>>
    BY <1>13 DEF handle_output_keygen, handle_output_keygen_unsaved, handle_output_sign
  <2>2. PICK kind \in {"KG", "S"} :
          /\ <<kind, room>> \in outputs[n]
          /\ outputs' = [outputs EXCEPT ![n] = @ \ {<<kind, room>>}]
          /\ report' = [report EXCEPT ![n][room[1]] = "done"]
    BY <1>13 DEF handle_output_keygen, handle_output_keygen_unsaved, handle_output_sign
  <2>3. OutputsEarned'
    <3>1. Within(outputs', outputs)
      BY <1>t, <2>2 DEF Within, TypeOK
    <3> QED BY <2>1, <3>1, KeepOutputs DEF Provenance
  <2>4. DoneNeedsAll'
    <3> SUFFICES ASSUME NEW q \in Node, NEW o \in Req \ PreKeys, report'[q][o] = "done"
                 PROVE  AllPublished(q, o)'
      BY DEF DoneNeedsAll
    <3>1. report \in [Node -> [Req -> Status]]
      BY <1>t DEF TypeOK
    <3>2. AllPublished(q, o)
      <4>1. CASE q = n /\ o = room[1]
        <5>1. <<kind, room>> \in Output
          BY <1>t, <2>2 DEF TypeOK
        <5>2. kind = "KG" => o \in KeygenReq
          BY <4>1, <5>1 DEF Output, PlayerKind
        <5>3. o \in SignReq => kind = "S"
          BY <5>2, GroupsAssumption
        <5>4. /\ RoundsBelow(room, Me(n, room), LastRound(room) + 1)
              /\ kind = "S" => SigsPublished(room, Me(n, room))
          BY <2>2 DEF Provenance, OutputsEarned
        <5> QED BY <2>0, <4>1, <5>3, <5>4 DEF AllPublished, SigsPublished
      <4>2. CASE ~(q = n /\ o = room[1])
        <5>1. report[q][o] = "done"
          BY <2>0, <2>2, <3>1, <4>2
        <5> QED BY <5>1 DEF Provenance, DoneNeedsAll
      <4> QED BY <4>1, <4>2
    <3> QED BY <2>1, <3>2, RoundsBelowGrows, PublishedGrows DEF AllPublished
  <2> QED BY <1>t, <2>1, <2>3, <2>4, KeepInTransit, KeepOutbox, KeepPlayers,
             KeepSigners, KeepSigs DEF Provenance, Within
<1>14. ASSUME NEW n \in Node, NEW room \in Room, handle_output_offline(n, room)
       PROVE  Provenance'
  <2> DEFINE m == MyPartialSignature(n, room)
  <2>1. /\ UNCHANGED <<wire, inbox, errors, timers, sent, player>>
        /\ <<"O", room>> \in outputs[n]
        /\ outputs' = [outputs EXCEPT ![n] = @ \ {<<"O", room>>}]
        /\ signers' = [signers EXCEPT ![n] = @ \cup {room}]
        /\ partial_sigs' = [partial_sigs EXCEPT ![n][room] = << >>]
        /\ outbox' = [outbox EXCEPT ![n] = @ \cup {m}]
        /\ report' = [report EXCEPT ![n][room[1]] = "processing"]
    BY <1>14 DEF handle_output_offline
  <2>2. RoundsBelow(room, Me(n, room), LastRound(room) + 1)
    BY <2>1 DEF Provenance, OutputsEarned
  <2>3. KindsOk' /\ SigsFormed' /\ OutboxBarrier' /\ RoundBarrier'
    <3>1. /\ KindOk(m) /\ m.copy = 0 /\ SigForm(m)
          /\ RoundsBelow(m.room, m.sender,
               IF m.kind = "S" THEN LastRound(m.room) + 1 ELSE m.round)
      BY <2>2 DEF MyPartialSignature, Message, KindOk, SigForm
    <3> HIDE DEF m
    <3> QED BY <2>1, <3>1, OutboxKeeps
  <2>4. OutputsEarned'
    <3>1. Within(outputs', outputs)
      BY <1>t, <2>1 DEF Within, TypeOK
    <3> QED BY <2>1, <3>1, KeepOutputs DEF Provenance
  <2>5. SignersReady'
    <3>1. \A q \in Node : signers[q] \subseteq signers'[q]
      BY <1>t, <2>1 DEF TypeOK
    <3>2. \A q \in Node : \A o \in signers'[q] : o \in signers[q] \/ (q = n /\ o = room)
      BY <1>t, <2>1 DEF TypeOK
    <3>3. \A q \in Node : \A o \in signers'[q] :
             RoundsBelow(o, Me(q, o), LastRound(o) + 1)
      BY <2>2, <3>2 DEF Provenance, SignersReady
    <3>4. \A q \in Node : \A o \in signers'[q] :
             RoundsBelow(o, Me(q, o), LastRound(o) + 1)'
      BY <2>1, <3>3, RoundsBelowGrows
    <3> QED BY <2>1, <3>1, <3>4 DEF Provenance, SignersReady
  <2>6. SigsHeard'
    <3>1. partial_sigs \in [Node -> [Room -> Seq(Msg)]]
      BY <1>t DEF TypeOK
    <3>2. \A q \in Node, o \in Room :
             partial_sigs'[q][o] = partial_sigs[q][o] \/ partial_sigs'[q][o] = << >>
      BY <2>1, <3>1
    <3> QED BY <2>1, <3>2, SigsKeeps
  <2>7. DoneNeedsAll'
    <3>1. \A q \in Node : \A o \in Req \ PreKeys :
             report'[q][o] = "done" => report[q][o] = "done"
      BY <1>t, <2>1 DEF TypeOK
    <3> QED BY <2>1, <3>1, KeepDone DEF Provenance
  <2> QED BY <1>t, <2>1, <2>3, <2>4, <2>5, <2>6, <2>7, KeepInTransit, KeepPlayers
          DEF Provenance, Within
<1>15. ASSUME NEW n \in Node, NEW env \in sent, redeliver(n, env)
       PROVE  Provenance'
  <2> DEFINE d == [env EXCEPT !.msg.copy = faults']
  <2>0. env \in Envelope /\ env.msg \in Msg
    BY <1>t DEF TypeOK, Envelope
  <2>1. /\ UNCHANGED <<inbox, errors, timers, sent, outbox, player, outputs,
                       signers, partial_sigs, report>>
        /\ wire' = [wire EXCEPT ![n] = @ \cup {d}]
    BY <1>15 DEF redeliver
  <2>2. FromSent(d.msg)
    <3>1. [d.msg EXCEPT !.copy = 0] = [env.msg EXCEPT !.copy = 0]
      BY <2>0 DEF Envelope, Msg
    <3>2. env.msg.copy = 0
      BY DEF Provenance, KindsOk
    <3>3. [env.msg EXCEPT !.copy = 0] = env.msg
      BY <2>0, <3>2 DEF Msg
    <3> QED BY <3>1, <3>3 DEF FromSent
  <2>3. InTransit'
    <3>1. \A q \in Node : \A e \in wire'[q] : e \in wire[q] \/ e = d
      <4> HIDE DEF d
      <4> QED BY <1>t, <2>1 DEF TypeOK
    <3>2. \A o : FromSent(o) => FromSent(o)'
      BY <2>1 DEF FromSent
    <3> HIDE DEF d
    <3> QED BY <2>1, <2>2, <3>1, <3>2 DEF Provenance, InTransit
  <2> QED BY <1>t, <2>1, <2>3, KeepOutbox, KeepPlayers, KeepOutputs, KeepSigners,
             KeepSigs, KeepDone DEF Provenance, Within
<1>16. ASSUME NEW n \in Node, restart(n)
       PROVE  Provenance'
  <2>1. sent' = sent /\ LoseMemory(n)
    BY <1>16 DEF restart
  <2>2. \A q \in Node : wire'[q] \subseteq wire[q] \cup sent
    BY <1>t, <1>16 DEF restart, Resubscribe, TypeOK
  <2>3. \A q \in Node : \A req \in Req \ PreKeys :
           report'[q][req] = "done" => report[q][req] = "done"
    <3>1. PICK known \in [Req -> Status] :
            /\ \A req \in Req \ PreKeys :
                 known[req] \in UpTo(report[n][req]) \cup {"none"}
            /\ report' = [report EXCEPT ![n] = known]
      BY <1>16 DEF restart, ReopenResults
    <3>2. \A st \in Status : "done" \in UpTo(st) => st = "done"
      BY DEF UpTo, Status
    <3>3. report \in [Node -> [Req -> Status]]
      BY <1>t DEF TypeOK
    <3> QED BY <3>1, <3>2, <3>3
  <2> QED BY <1>t, <2>1, <2>2, <2>3, LoseKeeps
<1>17. CASE UNCHANGED vars
  <2>1. UNCHANGED <<wire, inbox, errors, timers, sent, outbox, player, outputs,
                    signers, partial_sigs, report>>
    BY <1>17 DEF vars
  <2> QED BY <1>t, <2>1, KeepInTransit, KeepOutbox, KeepPlayers, KeepOutputs,
             KeepSigners, KeepSigs, KeepDone DEF Provenance, Within
<1>18. ASSUME NEW n \in Node, NEW m \in outbox[n],
              \/ send_one(n, m) \/ encrypt_fails(n, m)
              \/ send_lost(n, m) \/ send_fails(n, m)
       PROVE  Provenance'
  BY <1>6, <1>7, <1>18, SendEffects
<1> QED BY <1>1, <1>2, <1>3, <1>4, <1>5, <1>8, <1>9, <1>10, <1>11,
           <1>12, <1>13, <1>14, <1>15, <1>16, <1>17, <1>18
        DEF Next, NodeStep, RequestStep, FaultStep

(* The coordinators' and players' state always agrees with what was
   published. *)
THEOREM ProvenanceHolds == Spec => []Provenance
  BY ProvenanceInit, ProvenanceStep, PTL DEF Spec

(* No server publishes a message of a round before every other party has
   published its messages of all earlier rounds to it. *)
THEOREM RoundBarrierHolds == Spec => []RoundBarrier
<1>1. Provenance => RoundBarrier
  BY DEF Provenance
<1> QED BY <1>1, ProvenanceHolds, PTL

(* No server reports a request done before every other participant has
   published every message of it. *)
THEOREM DoneNeedsAllHolds == Spec => []DoneNeedsAll
<1>1. Provenance => DoneNeedsAll
  BY DEF Provenance
<1> QED BY <1>1, ProvenanceHolds, PTL

=============================================================================

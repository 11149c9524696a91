----------------------------- MODULE Coordinator -----------------------------
(***************************************************************************)
(* The MPC servers: on every server one Coordinator actor, the MpcPlayer   *)
(* and Signer actors it starts, its two sled stores, and the broker that   *)
(* carries their messages (src/actors, src/crypto, src/storage,            *)
(* src/transport).                                                         *)
(*                                                                         *)
(* Every action is one message handled by one actor, run to completion as  *)
(* actix does.  Mailboxes and the broker are sets: the coordinator's       *)
(* outgoing futures complete in any order (actix removes finished items by *)
(* swapping) and retried messages overtake each other, so no later step    *)
(* can rely on an order.  The copy field keeps two deliveries of one       *)
(* message apart.                                                          *)
(***************************************************************************)
EXTENDS Player, FiniteSets

CONSTANTS PreKeys,      \* keygens whose shares an earlier life of the servers saved
          MaxAttempts,  \* retry gives up above this many attempts (33)
          FaultKinds,   \* which faults may happen
          MayRestart,   \* servers that may be killed and started again, once
          MaxFaults     \* how many faults may happen in all

ASSUME CoordinatorAssumption ==
    /\ PreKeys \subseteq KeygenReq
    /\ MaxAttempts \in Nat \ {0}
    /\ MaxFaults \in Nat
    /\ MayRestart \subseteq Node
    /\ FaultKinds \subseteq {"send", "lost", "stream", "redeliver", "restart",
                            "proceed", "save"}

(* The body of a message not addressed to one key. *)
Plain == "plain"

(* No public key looks like an open body. *)
ASSUME PlainAssumption == Plain \notin Node

VARIABLES
    \* persistent, per server
    group_store,            \* groups saved, each a list of public keys
    local_share_store,      \* keygens whose LocalKey share is saved
    handled,                \* request_ids the results database knows
    report,                 \* last CheckResultResponse status sent for a request
    \* the Coordinator actor, per server
    up,                     \* the actor is running
    sink,                   \* state of the outgoing Sink
    keygen_runners,         \* rooms with an Addr in each HashMap
    offline_state_runners,
    signers,
    timers,                 \* RetryMessages waiting in run_later
    outbox,                 \* Outgoing messages not yet sent
    outputs,                \* ProtocolOutput messages not yet handled
    errors,                 \* out-of-order ProtocolError messages not yet handled
    \* the actors it starts, per server
    player,                 \* the MpcPlayer of each room
    partial_sigs,           \* what the Signer of each room has collected
    inbox,                  \* messages dispatched to players and signers
    \* the broker
    wire,                   \* published, not yet read by each server
    sent,                   \* everything ever published
    \* bookkeeping
    dropped,                \* messages a coordinator's retry has given up
    faults,                 \* faults so far
    restarted               \* servers that have restarted

storeVars  == <<group_store, local_share_store>>
apiVars    == <<handled, report>>
nodeVars   == <<up, sink>>
runnerVars == <<keygen_runners, offline_state_runners, signers>>
retryVars  == <<timers, dropped>>
mailVars   == <<outbox, outputs, errors>>
actorVars  == <<player, partial_sigs>>
memoryVars == <<sink, runnerVars, retryVars, mailVars, actorVars, inbox>>
brokerVars == <<wire, sent>>
faultVars  == <<faults, restarted>>
vars == <<storeVars, apiVars, nodeVars, runnerVars, retryVars, mailVars,
          actorVars, inbox, brokerVars, faultVars>>

(* A WireMessage and whose key its body is encrypted for. *)
Envelope == [msg: Msg, lock: Node \cup {Plain}]

RetryMessage == [env: Envelope, attempts: 1..MaxAttempts, check_passed: BOOLEAN]

(* A ProtocolOutput: of a room's player, or of its signer. *)
Output == {<<PlayerKind(room), room>> : room \in Room}
            \cup {<<"S", room>> : room \in Room}

Status == {"none", "processing", "done"}

(* get_i(): the index of a server's own key; None stands for the unwrap of a
   missing index, which panics. *)
get_i(n, pks) == get_index(pks, n)
Me(n, room) == get_i(n, Members(room))

-----------------------------------------------------------------------------
(* Group and share stores: save is a compare_and_swap from "absent", so the
   first value of a key stays. *)
RetrieveGroup(n, gid) == {g \in group_store[n] : group_id(g) = gid}

save_group(n, g) ==
    group_store' = IF RetrieveGroup(n, group_id(g)) = {}
                   THEN [group_store EXCEPT ![n] = @ \cup {g}]
                   ELSE group_store

(* Mutant: a missing share is not noticed. *)
any_share(n, key) == TRUE

(* LocalShareStore::retrieve finds the share of a key. *)
has_share(n, key) == key \in local_share_store[n]

(* maybe_encrypt and maybe_decrypt: at most one envelope, none on an error. *)
maybe_encrypt(n, m) ==
    IF m.receiver = None
    THEN {[msg |-> m, lock |-> Plain]}
    ELSE {[msg |-> m, lock |-> pk] :
            pk \in UNION {get_public_key(g, m.receiver) :
                            g \in RetrieveGroup(n, extract_group_id(m.room))}}

maybe_decrypt(n, e) ==
    IF e.msg.receiver = None THEN {e}
    ELSE IF e.lock = n THEN {[e EXCEPT !.lock = Plain]}
    ELSE {}

-----------------------------------------------------------------------------
(* What a server keeps in memory only; dropped speaks of one coordinator. *)
LoseMemory(n) ==
    /\ sink' = [sink EXCEPT ![n] = "ready"]
    /\ keygen_runners' = [keygen_runners EXCEPT ![n] = {}]
    /\ offline_state_runners' = [offline_state_runners EXCEPT ![n] = {}]
    /\ signers' = [signers EXCEPT ![n] = {}]
    /\ timers' = [timers EXCEPT ![n] = {}]
    /\ dropped' = [dropped EXCEPT ![n] = {}]
    /\ outbox' = [outbox EXCEPT ![n] = {}]
    /\ outputs' = [outputs EXCEPT ![n] = {}]
    /\ errors' = [errors EXCEPT ![n] = {}]
    /\ inbox' = [inbox EXCEPT ![n] = {}]
    /\ player' = [player EXCEPT ![n] = [room \in Room |-> NoPlayer]]
    /\ partial_sigs' = [partial_sigs EXCEPT ![n] = [room \in Room |-> << >>]]

(* A coordinator stops or panics.  Its Context goes, and with it the stream,
   the mailbox, the run_later timers and the sends under way; players and
   signers lose their last address, and nobody sees what they still do. *)
StopCoordinator(n) ==
    /\ up' = [up EXCEPT ![n] = FALSE]
    /\ LoseMemory(n)
    /\ wire' = [wire EXCEPT ![n] = {}]

-----------------------------------------------------------------------------
(* Requests.  The front end hands a request_id over as long as the results
   database has no record of it. *)

(* do_send to a coordinator that has stopped: the request is lost. *)
request_lost(n, req) ==
    /\ req \notin handled[n]
    /\ ~up[n]
    /\ handled' = [handled EXCEPT ![n] = @ \cup {req}]
    /\ UNCHANGED <<storeVars, report, nodeVars, runnerVars, retryVars,
                   mailVars, actorVars, inbox, brokerVars, faultVars>>

StartPlayer(n, room) == player' = [player EXCEPT ![n][room] = NewPlayer]

handle_keygen_request(n, req) ==
    LET pks  == participant_public_keys[req]
        room == RoomOf(req)
    IN  /\ up[n]
        /\ req \in KeygenReq \ handled[n]
        /\ handled' = [handled EXCEPT ![n] = @ \cup {req}]
        /\ report' = [report EXCEPT ![n][req] = "processing"]
        /\ \/ \* group.get_i() panics
              /\ get_i(n, pks) = None
              /\ StopCoordinator(n)
              /\ UNCHANGED group_store
           \/ \* "Create state machine" fails
              /\ get_i(n, pks) # None /\ ~KeygenStateOk(req)
              /\ UNCHANGED <<up, group_store, memoryVars, wire>>
           \/ /\ get_i(n, pks) # None /\ KeygenStateOk(req)
              /\ StartPlayer(n, room)
              /\ save_group(n, pks)
              /\ keygen_runners' = [keygen_runners EXCEPT ![n] = @ \cup {room}]
              /\ UNCHANGED <<nodeVars, offline_state_runners, signers, retryVars,
                             mailVars, partial_sigs, inbox, wire>>
        /\ UNCHANGED <<local_share_store, sent, faultVars>>

(* The participants' indices in the key's group; None where a key is absent. *)
s_l(req) == [i \in DOMAIN participant_public_keys[req] |->
               get_index(participant_public_keys[public_key[req]],
                         participant_public_keys[req][i])]

(* Neither WrongNumberOfParticipants nor WrongPublicKeys. *)
ParticipantsOk(req) ==
    /\ Cardinality({i \in DOMAIN s_l(req) : s_l(req)[i] # None})
         = threshold[public_key[req]] + 1
    /\ \A i \in DOMAIN s_l(req) : s_l(req)[i] # None

handle_sign_request(n, req) ==
    LET pks  == participant_public_keys[req]
        room == RoomOf(req)
    IN  /\ up[n]
        /\ req \in SignReq \ handled[n]
        /\ handled' = [handled EXCEPT ![n] = @ \cup {req}]
        /\ \/ \* "Retrieve local share" fails
              /\ ~has_share(n, public_key[req])
              /\ UNCHANGED <<group_store, report, up, memoryVars, wire>>
           \/ \* "Find index of participants" fails, after the group was saved
              /\ has_share(n, public_key[req])
              /\ ~ParticipantsOk(req)
              /\ save_group(n, pks)
              /\ UNCHANGED <<report, up, memoryVars, wire>>
           \/ /\ has_share(n, public_key[req])
              /\ ParticipantsOk(req)
              /\ save_group(n, pks)
              /\ report' = [report EXCEPT ![n][req] = "processing"]
              /\ \/ \* subgroup.get_i() panics
                    /\ get_i(n, pks) = None
                    /\ StopCoordinator(n)
                 \/ \* "Create state machine" fails
                    /\ get_i(n, pks) # None /\ ~OfflineStateOk(s_l(req))
                    /\ UNCHANGED <<up, memoryVars, wire>>
                 \/ /\ get_i(n, pks) # None /\ OfflineStateOk(s_l(req))
                    /\ StartPlayer(n, room)
                    /\ offline_state_runners' =
                         [offline_state_runners EXCEPT ![n] = @ \cup {room}]
                    /\ UNCHANGED <<nodeVars, keygen_runners, signers, retryVars,
                                   mailVars, partial_sigs, inbox, wire>>
        /\ UNCHANGED <<local_share_store, sent, faultVars>>

-----------------------------------------------------------------------------
(* Routing of incoming messages, and retries. *)

(* Mutant: a message of an unknown group is taken for someone else's. *)
valid_or_not_for_me(n, m) ==
    IF \E g \in RetrieveGroup(n, extract_group_id(m.room)) :
          get_index(g, m.key) # None /\ m.receiver \in {None, get_i(n, g)}
    THEN "ok" ELSE "NotForMe"

(* valid_sender_and_receiver: "retry" stands for every error but NotForMe;
   group.get_i() panics in a group that is not this server's own. *)
valid_sender_and_receiver(n, m) ==
    LET known == {g \in RetrieveGroup(n, extract_group_id(m.room)) :
                    get_index(g, m.key) # None}
    IN  IF known = {} THEN "retry"
        ELSE IF m.receiver = None THEN "ok"
        ELSE IF \E g \in known : get_i(n, g) = None THEN "panic"
        ELSE IF \A g \in known : m.receiver = get_i(n, g) THEN "ok"
        ELSE "NotForMe"

(* Mutants: the last attempt is repeated for ever; the limit is off by one. *)
retry_for_ever(n, rest, env, attempts, check_passed) ==
    /\ timers' = [timers EXCEPT ![n] = rest \cup
                    {[env |-> env, check_passed |-> check_passed,
                      attempts |-> IF attempts > MaxAttempts
                                   THEN MaxAttempts ELSE attempts]}]
    /\ UNCHANGED dropped
retry_once_more(n, rest, env, attempts, check_passed) ==
    IF attempts > MaxAttempts + 1
    THEN /\ timers' = [timers EXCEPT ![n] = rest]
         /\ dropped' = [dropped EXCEPT ![n] = @ \cup {env.msg}]
    ELSE /\ timers' = [timers EXCEPT ![n] = rest \cup
                         {[env |-> env, attempts |-> attempts,
                           check_passed |-> check_passed]}]
         /\ UNCHANGED dropped

(* retry: wait for attempts' delay, or give the message up.  rest is the
   timers that stay. *)
retry(n, rest, env, attempts, check_passed) ==
    IF attempts > MaxAttempts
    THEN /\ timers' = [timers EXCEPT ![n] = rest]
         /\ dropped' = [dropped EXCEPT ![n] = @ \cup {env.msg}]
    ELSE /\ timers' = [timers EXCEPT ![n] = rest \cup
                         {[env |-> env, attempts |-> attempts,
                           check_passed |-> check_passed]}]
         /\ UNCHANGED dropped

(* One of handle_incoming_offline, _sign and _keygen finds an actor for the
   room and can deserialise the payload. *)
HasHandler(n, m) ==
    \/ m.kind = "O"  /\ m.room \in offline_state_runners[n]
    \/ m.kind = "S"  /\ m.room \in signers[n]
    \/ m.kind = "KG" /\ m.room \in keygen_runners[n]

(* Mutant: a message without a handler is not retried. *)
handle_incoming_no_retry(n, rest, env, attempts) ==
    /\ inbox' = IF HasHandler(n, env.msg)
                THEN [inbox EXCEPT ![n] = @ \cup {env}] ELSE inbox
    /\ timers' = [timers EXCEPT ![n] = rest]
    /\ UNCHANGED dropped

(* Offer the message to the three maps of actors, and retry it if none of
   them takes it. *)
handle_incoming_unsafe(n, rest, env, attempts) ==
    IF HasHandler(n, env.msg)
    THEN /\ inbox' = [inbox EXCEPT ![n] = @ \cup {env}]
         /\ timers' = [timers EXCEPT ![n] = rest]
         /\ UNCHANGED dropped
    ELSE /\ retry(n, rest, env, attempts + 1, TRUE)
         /\ UNCHANGED inbox

DropIncoming == UNCHANGED <<inbox, retryVars>>

(* A message read from the stream: precheck_message, then dispatch. *)
Route(n, env) ==
    IF ~RoomContains(env.msg.room, n)
    THEN DropIncoming
    ELSE CASE valid_sender_and_receiver(n, env.msg) = "ok" ->
                IF maybe_decrypt(n, env) = {}
                THEN DropIncoming
                ELSE \E plain \in maybe_decrypt(n, env) :
                        handle_incoming_unsafe(n, timers[n], plain, 0)
           [] valid_sender_and_receiver(n, env.msg) = "NotForMe" ->
                DropIncoming
           [] valid_sender_and_receiver(n, env.msg) = "retry" ->
                /\ retry(n, timers[n], env, 1, FALSE)
                /\ UNCHANGED inbox

handle_incoming(n, env) ==
    /\ up[n]
    /\ env \in wire[n]
    /\ IF /\ RoomContains(env.msg.room, n)
          /\ valid_sender_and_receiver(n, env.msg) = "panic"
       THEN StopCoordinator(n)
       ELSE /\ wire' = [wire EXCEPT ![n] = @ \ {env}]
            /\ Route(n, env)
            /\ UNCHANGED <<nodeVars, runnerVars, mailVars, actorVars>>
    /\ UNCHANGED <<storeVars, apiVars, sent, faultVars>>

(* A retried message, whose timer is not among rest any more. *)
RouteAgain(n, rest, x) ==
    LET plain == IF valid_sender_and_receiver(n, x.env.msg) = "ok"
                 THEN maybe_decrypt(n, x.env) ELSE {}
    IN  IF x.check_passed
        THEN handle_incoming_unsafe(n, rest, x.env, x.attempts)
        ELSE IF plain = {}
        THEN /\ retry(n, rest, x.env, x.attempts + 1, FALSE)
             /\ UNCHANGED inbox
        ELSE \E e \in plain :
                handle_incoming_unsafe(n, rest, e, x.attempts)

(* A retry timer fires: CoordinatorMessage::Retry, handle_retry. *)
handle_retry(n, x) ==
    /\ up[n]
    /\ x \in timers[n]
    /\ IF /\ ~x.check_passed
          /\ valid_sender_and_receiver(n, x.env.msg) = "panic"
       THEN StopCoordinator(n)
       ELSE /\ RouteAgain(n, timers[n] \ {x}, x)
            /\ UNCHANGED <<nodeVars, runnerVars, mailVars, actorVars, wire>>
    /\ UNCHANGED <<storeVars, apiVars, sent, faultVars>>

(* Mutant: the message is checked, and decrypted, once more. *)
handle_protocol_error_unchecked(n, env) ==
    /\ up[n]
    /\ env \in errors[n]
    /\ errors' = [errors EXCEPT ![n] = @ \ {env}]
    /\ retry(n, timers[n], env, 1, FALSE)
    /\ UNCHANGED <<storeVars, apiVars, nodeVars, runnerVars, outbox, outputs,
                   actorVars, inbox, brokerVars, faultVars>>

(* Handler<ProtocolErrorKG> and <ProtocolErrorO>: an out-of-order message
   goes back to the timers with its attempts at 1. *)
handle_protocol_error(n, env) ==
    /\ up[n]
    /\ env \in errors[n]
    /\ errors' = [errors EXCEPT ![n] = @ \ {env}]
    /\ retry(n, timers[n], env, 1, TRUE)
    /\ UNCHANGED <<storeVars, apiVars, nodeVars, runnerVars, outbox, outputs,
                   actorVars, inbox, brokerVars, faultVars>>

-----------------------------------------------------------------------------
(* Outgoing messages: encrypt, sign and broadcast.  The stream of every other
   running coordinator gets the message (take_non_owned filters the sender's
   own).  The steps are those of module Sending, which Transport implements. *)

Broadcast(n, m) ==
    /\ wire' = [q \in Node |-> IF q = n \/ ~up[q] THEN wire[q]
                               ELSE wire[q] \cup maybe_encrypt(n, m)]
    /\ sent' = sent \cup maybe_encrypt(n, m)

(* A message leaves the outbox; Sendable if it can be encrypted. *)
TakeOut(n, m) ==
    /\ up[n]
    /\ m \in outbox[n]
    /\ outbox' = [outbox EXCEPT ![n] = @ \ {m}]
    /\ UNCHANGED <<storeVars, apiVars, up, runnerVars, retryVars, outputs,
                   errors, actorVars, inbox, restarted>>

Sendable(n, m) == maybe_encrypt(n, m) # {}

send_one(n, m) ==
    /\ sink[n] = "ready" /\ Sendable(n, m)
    /\ TakeOut(n, m)
    /\ Broadcast(n, m)
    /\ UNCHANGED <<sink, faults>>

(* maybe_encrypt fails: the message is only logged. *)
encrypt_fails(n, m) ==
    /\ ~Sendable(n, m)
    /\ TakeOut(n, m)
    /\ UNCHANGED <<sink, brokerVars, faults>>

Fault(kind) ==
    /\ kind \in FaultKinds
    /\ faults < MaxFaults
    /\ faults' = faults + 1

(* The broker answers with an HTTP error status, which is no error to the
   client: the message is lost. *)
send_lost(n, m) ==
    /\ Fault("lost")
    /\ sink[n] = "ready" /\ Sendable(n, m)
    /\ TakeOut(n, m)
    /\ UNCHANGED <<sink, brokerVars>>

(* The broadcast fails, before or after the broker has published the
   message: the unfold sink (external) has lost its state with it. *)
send_fails(n, m) ==
    /\ Fault("send")
    /\ sink[n] = "ready" /\ Sendable(n, m)
    /\ TakeOut(n, m)
    /\ sink' = [sink EXCEPT ![n] = "broken"]
    /\ Broadcast(n, m) \/ UNCHANGED brokerVars

(* Sending through a sink without state panics and ends the actor. *)
send_panics(n) ==
    /\ up[n] /\ sink[n] = "broken"
    /\ \E m \in outbox[n] : Sendable(n, m)
    /\ StopCoordinator(n)
    /\ UNCHANGED <<storeVars, apiVars, sent, faultVars>>

-----------------------------------------------------------------------------
(* The MpcPlayer actors. *)

(* Mutant: a message counts for the player's current round. *)
StoreAsCurrent(p, m) == p.store \cup {<<m.sender, p.round>>}

(* MpcPlayer::handle_incoming: the state machine takes a message in. *)
StoreWith(p, m) == p.store \cup {<<m.sender, m.round>>}

(* Mutant: finished on entering the last round. *)
FinishedEarly(room, r) == r >= LastRound(room)

(* finish_if_possible: the state machine is in its final state. *)
Finished(room, r) == r > LastRound(room)

(* Mutant: the output is taken, the state machine stays. *)
StateKept(room, r) == "live"

(* The state machine is taken out together with its output. *)
StateLeft(room, r) == IF Finished(room, r) THEN "gone" ELSE "live"

(* maybe_proceed with the given store: run the state machine as far as it
   goes, queue its messages, and hand over the output if it is finished. *)
maybe_proceed(n, room, store, heard) ==
    LET p == player[n][room]
        i == Me(n, room)
    IN  IF p.phase = "gone"
        THEN /\ player' = [player EXCEPT ![n][room].store = store,
                                         ![n][room].heard = heard]
             /\ UNCHANGED <<outbox, outputs>>
        ELSE \E r \in 1..(LastRound(room) + 1) :
               /\ ProceedsTo(room, i, store, r)
               /\ player' = [player EXCEPT ![n][room] =
                    [phase |-> StateLeft(room, r), round |-> r,
                     store |-> store, heard |-> heard]]
               /\ outbox' = [outbox EXCEPT ![n] =
                    @ \cup QueuedMsgs(room, i, n, p.round, r)]
               /\ outputs' = [outputs EXCEPT ![n] =
                    @ \cup (IF Finished(room, r)
                            THEN {<<PlayerKind(room), room>>} ELSE {})]

(* Handler<MaybeProceed>: acts only while no message was handled, and then
   re-arms itself. *)
player_maybe_proceed(n, room) ==
    LET p == player[n][room]
    IN  /\ p.phase # "none" /\ ~p.heard
        /\ maybe_proceed(n, room, p.store, FALSE)
        /\ UNCHANGED <<storeVars, apiVars, nodeVars, runnerVars, retryVars,
                       errors, partial_sigs, inbox, brokerVars, faultVars>>

(* Handler<IncomingMessage>: ignore the party's own messages and the ones
   for others; otherwise feed the state machine and proceed.  An
   out-of-order error goes to the coordinator, an overwrite only to its log. *)
player_handle(n, env) ==
    LET m == env.msg
        i == Me(n, m.room)
        p == player[n][m.room]
    IN  /\ env \in inbox[n]
        /\ m.kind # "S"
        /\ inbox' = [inbox EXCEPT ![n] = @ \ {env}]
        /\ IF m.sender = i \/ m.receiver \notin {None, i}
           THEN UNCHANGED <<errors, player, outbox, outputs>>
           ELSE IF p.round > m.round
           THEN /\ errors' = [errors EXCEPT ![n] = @ \cup {env}]
                /\ maybe_proceed(n, m.room, p.store, TRUE)
           ELSE /\ maybe_proceed(n, m.room, StoreWith(p, m), TRUE)
                /\ UNCHANGED errors
        /\ UNCHANGED <<storeVars, apiVars, nodeVars, runnerVars, retryVars,
                       partial_sigs, brokerVars, faultVars>>

(* proceed() fails on the message that completes the round: the state
   machine is gone, the error is only logged. *)
player_proceed_fails(n, env) ==
    LET m == env.msg
        i == Me(n, m.room)
        p == player[n][m.room]
        store == StoreWith(p, m)
    IN  /\ Fault("proceed")
        /\ env \in inbox[n]
        /\ m.kind # "S" /\ m.sender # i /\ m.receiver \in {None, i}
        /\ p.phase = "live" /\ p.round = m.round
        /\ Complete(m.room, i, store, p.round)
        /\ inbox' = [inbox EXCEPT ![n] = @ \ {env}]
        /\ player' = [player EXCEPT ![n][m.room] =
             [phase |-> "gone", round |-> p.round + 1, store |-> store,
              heard |-> TRUE]]
        /\ UNCHANGED <<storeVars, apiVars, nodeVars, runnerVars, retryVars,
                       mailVars, partial_sigs, brokerVars, restarted>>

-----------------------------------------------------------------------------
(* Outputs of the actors, handled by the coordinator. *)

(* Handler<ProtocolOutputKG>: the room is removed from the offline map (the
   keygen map keeps it), the share saved and the request reported done. *)
handle_output_keygen(n, room) ==
    /\ up[n]
    /\ <<"KG", room>> \in outputs[n]
    /\ outputs' = [outputs EXCEPT ![n] = @ \ {<<"KG", room>>}]
    /\ offline_state_runners' = [offline_state_runners EXCEPT ![n] = @ \ {room}]
    /\ local_share_store' = [local_share_store EXCEPT ![n] = @ \cup {room[1]}]
    /\ report' = [report EXCEPT ![n][room[1]] = "done"]
    /\ UNCHANGED <<group_store, handled, nodeVars, keygen_runners, signers,
                   retryVars, outbox, errors, actorVars, inbox, brokerVars,
                   faultVars>>

(* The same when saving the share fails: done is reported all the same. *)
handle_output_keygen_unsaved(n, room) ==
    /\ Fault("save")
    /\ up[n]
    /\ <<"KG", room>> \in outputs[n]
    /\ outputs' = [outputs EXCEPT ![n] = @ \ {<<"KG", room>>}]
    /\ offline_state_runners' = [offline_state_runners EXCEPT ![n] = @ \ {room}]
    /\ report' = [report EXCEPT ![n][room[1]] = "done"]
    /\ UNCHANGED <<storeVars, handled, nodeVars, keygen_runners, signers,
                   retryVars, outbox, errors, actorVars, inbox, brokerVars,
                   restarted>>

(* The partial signature a Signer sends when it starts. *)
MyPartialSignature(n, room) == Message(room, "S", 1, Me(n, room), None, n)

(* Handler<ProtocolOutputO>: the signer replaces the offline player. *)
handle_output_offline(n, room) ==
    /\ up[n]
    /\ <<"O", room>> \in outputs[n]
    /\ outputs' = [outputs EXCEPT ![n] = @ \ {<<"O", room>>}]
    /\ offline_state_runners' = [offline_state_runners EXCEPT ![n] = @ \ {room}]
    /\ signers' = [signers EXCEPT ![n] = @ \cup {room}]
    /\ partial_sigs' = [partial_sigs EXCEPT ![n][room] = << >>]
    /\ outbox' = [outbox EXCEPT ![n] = @ \cup {MyPartialSignature(n, room)}]
    /\ report' = [report EXCEPT ![n][room[1]] = "processing"]
    /\ UNCHANGED <<storeVars, handled, nodeVars, keygen_runners, retryVars,
                   errors, player, inbox, brokerVars, faultVars>>

(* Mutant: t is one more. *)
CompletesLate(room, i, sigs) == Len(sigs) = Len(Members(room))

(* Exactly t = s_l.len() - 1 partial signatures are there, and
   SignManual::complete (external) accepts them: no other party's is missing. *)
Completes(room, i, sigs) ==
    /\ Len(sigs) = Len(Members(room)) - 1
    /\ \A j \in Parties(room) \ {i} : \E x \in DOMAIN sigs : sigs[x].sender = j

(* Signer: collect, and finish when exactly t are there. *)
signer_handle(n, env) ==
    LET m    == env.msg
        sigs == Append(partial_sigs[n][m.room], m)
    IN  /\ env \in inbox[n]
        /\ m.kind = "S"
        /\ inbox' = [inbox EXCEPT ![n] = @ \ {env}]
        /\ IF m.sender = Me(n, m.room)
           THEN UNCHANGED <<partial_sigs, outputs>>
           ELSE /\ partial_sigs' = [partial_sigs EXCEPT ![n][m.room] = sigs]
                /\ outputs' = [outputs EXCEPT ![n] = @ \cup
                     (IF Completes(m.room, Me(n, m.room), sigs) THEN {<<"S", m.room>>} ELSE {})]
        /\ UNCHANGED <<storeVars, apiVars, nodeVars, runnerVars, retryVars,
                       outbox, errors, player, brokerVars, faultVars>>

(* Handler<ProtocolOutputS>. *)
handle_output_sign(n, room) ==
    /\ up[n]
    /\ <<"S", room>> \in outputs[n]
    /\ outputs' = [outputs EXCEPT ![n] = @ \ {<<"S", room>>}]
    /\ report' = [report EXCEPT ![n][room[1]] = "done"]
    /\ UNCHANGED <<storeVars, handled, nodeVars, runnerVars, retryVars, outbox,
                   errors, actorVars, inbox, brokerVars, faultVars>>

-----------------------------------------------------------------------------
(* The stream of incoming messages ends: StreamHandler's default finished()
   stops the actor. *)
stream_finished(n) ==
    /\ Fault("stream")
    /\ up[n]
    /\ StopCoordinator(n)
    /\ UNCHANGED <<storeVars, apiVars, sent, restarted>>

(* The broker delivers a published message once more. *)
redeliver(n, env) ==
    /\ Fault("redeliver")
    /\ up[n]
    /\ env \in sent /\ env.msg.key # n
    /\ wire' = [wire EXCEPT ![n] = @ \cup {[env EXCEPT !.msg.copy = faults']}]
    /\ UNCHANGED <<storeVars, apiVars, nodeVars, runnerVars, retryVars,
                   mailVars, actorVars, inbox, sent, restarted>>

(* The new subscription reads the broker's whole history (the messenger,
   asked without a Last-Event-ID) or nothing of it (Redis). *)
Resubscribe(n) ==
    \E replay \in {{}, {env \in sent : env.msg.key # n}} :
        wire' = [wire EXCEPT ![n] = replay]

(* The statuses recorded on the way to st. *)
UpTo(st) == CASE st = "none"       -> {"none"}
              [] st = "processing" -> {"none", "processing"}
              [] st = "done"       -> Status

(* Mutant: statuses are on disk, which ids are taken is known in memory only. *)
ReopenWithoutIds(n) ==
    /\ handled' = [handled EXCEPT ![n] = PreKeys]
    /\ UNCHANGED report

(* The results database as it is found again: records still queued for it
   (tx_res) or not yet flushed are gone, new ones or later statuses; those of
   an earlier life are safe. *)
ReopenResults(n) ==
    \E kept \in SUBSET handled[n], known \in [Req -> Status] :
      /\ handled[n] \cap PreKeys \subseteq kept
      /\ \A req \in Req :
           known[req] \in IF req \in PreKeys THEN {report[n][req]}
                         ELSE IF req \in kept THEN UpTo(report[n][req])
                         ELSE {"none"}
      /\ handled' = [handled EXCEPT ![n] = kept]
      /\ report' = [report EXCEPT ![n] = known]

(* The database of shares and groups, likewise.  Of one keygen the group was
   written first, so no share is found without it. *)
ReopenShares(n) ==
    \E shares \in SUBSET local_share_store[n], groups \in SUBSET group_store[n] :
      /\ local_share_store[n] \cap PreKeys \subseteq shares
      /\ {participant_public_keys[key] : key \in shares} \subseteq groups
      /\ local_share_store' = [local_share_store EXCEPT ![n] = shares]
      /\ group_store' = [group_store EXCEPT ![n] = groups]

(* The process is killed and started again: only the databases survive, as
   far as they were flushed. *)
restart(n) ==
    /\ Fault("restart")
    /\ n \in MayRestart \ restarted
    /\ restarted' = restarted \cup {n}
    /\ up' = [up EXCEPT ![n] = TRUE]
    /\ LoseMemory(n)
    /\ Resubscribe(n)
    /\ ReopenResults(n)
    /\ ReopenShares(n)
    /\ UNCHANGED sent

-----------------------------------------------------------------------------
Init ==
    /\ group_store = [n \in Node |->
         {participant_public_keys[k] :
            k \in {q \in PreKeys : get_i(n, participant_public_keys[q]) # None}}]
    /\ local_share_store = [n \in Node |->
         {k \in PreKeys : get_i(n, participant_public_keys[k]) # None}]
    /\ handled = [n \in Node |-> PreKeys]
    /\ report = [n \in Node |-> [req \in Req |->
         IF req \in PreKeys /\ get_i(n, participant_public_keys[req]) # None
         THEN "done" ELSE "none"]]
    /\ up = [n \in Node |-> TRUE]
    /\ sink = [n \in Node |-> "ready"]
    /\ keygen_runners = [n \in Node |-> {}]
    /\ offline_state_runners = [n \in Node |-> {}]
    /\ signers = [n \in Node |-> {}]
    /\ timers = [n \in Node |-> {}]
    /\ outbox = [n \in Node |-> {}]
    /\ outputs = [n \in Node |-> {}]
    /\ errors = [n \in Node |-> {}]
    /\ player = [n \in Node |-> [room \in Room |-> NoPlayer]]
    /\ partial_sigs = [n \in Node |-> [room \in Room |-> << >>]]
    /\ inbox = [n \in Node |-> {}]
    /\ wire = [n \in Node |-> {}]
    /\ sent = {}
    /\ dropped = [n \in Node |-> {}]
    /\ faults = 0
    /\ restarted = {}

(* The steps the system owes: everything but requests and faults. *)
NodeStep(n) ==
    \/ \E env \in wire[n] : handle_incoming(n, env)
    \/ \E x \in timers[n] : handle_retry(n, x)
    \/ \E env \in errors[n] : handle_protocol_error(n, env)
    \/ \E m \in outbox[n] : send_one(n, m)
    \/ \E m \in outbox[n] : encrypt_fails(n, m)
    \/ send_panics(n)
    \/ \E room \in Room : player_maybe_proceed(n, room)
    \/ \E env \in inbox[n] : player_handle(n, env)
    \/ \E env \in inbox[n] : signer_handle(n, env)
    \/ \E room \in Room : handle_output_keygen(n, room)
    \/ \E room \in Room : handle_output_offline(n, room)
    \/ \E room \in Room : handle_output_sign(n, room)

RequestStep(n) ==
    \/ \E req \in Req : request_lost(n, req)
    \/ \E req \in Req : handle_keygen_request(n, req)
    \/ \E req \in Req : handle_sign_request(n, req)

FaultStep(n) ==
    \/ \E m \in outbox[n] : send_fails(n, m)
    \/ \E m \in outbox[n] : send_lost(n, m)
    \/ \E room \in Room : handle_output_keygen_unsaved(n, room)
    \/ \E env \in inbox[n] : player_proceed_fails(n, env)
    \/ stream_finished(n)
    \/ \E env \in sent : redeliver(n, env)
    \/ restart(n)

Next == \E n \in Node : NodeStep(n) \/ RequestStep(n) \/ FaultStep(n)

Spec == Init /\ [][Next]_vars

-----------------------------------------------------------------------------
(* The executor runs every ready actor, timers fire and the broker's stream
   is read: each kind of step is weakly fair on each server.  Requests may
   never come. *)
Fairness ==
    \A n \in Node :
      /\ WF_vars(\E env \in wire[n] : handle_incoming(n, env))
      /\ WF_vars(\E x \in timers[n] : handle_retry(n, x))
      /\ WF_vars(\E env \in errors[n] : handle_protocol_error(n, env))
      /\ WF_vars(\E m \in outbox[n] : send_one(n, m) \/ encrypt_fails(n, m))
      /\ WF_vars(\E room \in Room : player_maybe_proceed(n, room))
      /\ WF_vars(\E env \in inbox[n] : player_handle(n, env))
      /\ WF_vars(\E env \in inbox[n] : signer_handle(n, env))
      /\ WF_vars(\E room \in Room : handle_output_keygen(n, room))
      /\ WF_vars(\E room \in Room : handle_output_offline(n, room))
      /\ WF_vars(\E room \in Room : handle_output_sign(n, room))

FairSpec == Spec /\ Fairness
-----------------------------------------------------------------------------
(* Properties. *)

(* Every variable has its type. *)
TypeOK ==
    /\ group_store \in [Node -> SUBSET Seq(Node)]
    /\ local_share_store \in [Node -> SUBSET KeygenReq]
    /\ handled \in [Node -> SUBSET Req]
    /\ report \in [Node -> [Req -> Status]]
    /\ up \in [Node -> BOOLEAN]
    /\ sink \in [Node -> {"ready", "broken"}]
    /\ keygen_runners \in [Node -> SUBSET Room]
    /\ offline_state_runners \in [Node -> SUBSET Room]
    /\ signers \in [Node -> SUBSET Room]
    /\ timers \in [Node -> SUBSET RetryMessage]
    /\ outbox \in [Node -> SUBSET Msg]
    /\ outputs \in [Node -> SUBSET Output]
    /\ errors \in [Node -> SUBSET Envelope]
    /\ player \in [Node -> [Room -> PlayerState]]
    /\ partial_sigs \in [Node -> [Room -> Seq(Msg)]]
    /\ inbox \in [Node -> SUBSET Envelope]
    /\ wire \in [Node -> SUBSET Envelope]
    /\ sent \subseteq Envelope
    /\ dropped \in [Node -> SUBSET Msg]
    /\ faults \in Nat
    /\ restarted \subseteq Node

(* A body is decrypted exactly once, however often its message is retried:
   what has passed the check (dispatched, bounced by a player or waiting with
   check_passed) is plain, and what has not is still sealed if it names a
   receiver (handle_incoming, precheck_message, handle_retry). *)
DecryptOnce ==
    \A n \in Node :
      /\ \A e \in inbox[n] \cup errors[n] : e.lock = Plain
      /\ \A x \in timers[n] :
           IF x.check_passed THEN x.env.lock = Plain
           ELSE x.env.msg.receiver # None => x.env.lock # Plain

(* The rooms whose group id extract_group_id finds. *)
WellNamed(room) == room[1] \notin DOMAIN IdGroup

(* Encrypting an outgoing message never fails: whenever a player has queued
   one, its group is already in the store (handle_keygen_request and
   handle_sign_request save the group; an error only reaches the log and the
   message is lost).  A request_id with a '@' is the exception. *)
EncryptNeverFails ==
    \A n \in Node : \A m \in outbox[n] : WellNamed(m.room) => Sendable(n, m)

(* Party j has published its round-k message of a protocol to party i. *)
Published(room, kind, k, j, i) ==
    \E e \in sent : /\ e.msg.room = room /\ e.msg.kind = kind
                    /\ e.msg.round = k /\ e.msg.sender = j
                    /\ e.msg.receiver \in {None, i}

(* Party i may be past the rounds below k of the room's protocol. *)
RoundsBelow(room, i, k) ==
    \A q \in 1..(k - 1) : \A j \in Parties(room) \ {i} :
        Published(room, PlayerKind(room), q, j, i)

(* No server publishes a message of a round before every other party has
   published its messages of all earlier rounds to it, and no partial
   signature before the whole offline stage: the players' rounds stay in step
   through retries, redelivery and reordering. *)
RoundBarrier ==
    \A e \in sent :
        RoundsBelow(e.msg.room, e.msg.sender,
                    IF e.msg.kind = "S" THEN LastRound(e.msg.room) + 1
                    ELSE e.msg.round)

(* What must have been published before server n may call a request done:
   every round of every other party and, for a signature, every other party's
   partial signature. *)
AllPublished(n, req) ==
    LET room == RoomOf(req)
        i    == Me(n, room)
    IN  /\ RoundsBelow(room, i, LastRound(room) + 1)
        /\ req \in SignReq => \A j \in Parties(room) \ {i} :
                                Published(room, "S", 1, j, i)

(* A server reports a request done only after every other participant has
   published every message of it (ProtocolOutputKG, ProtocolOutputS). *)
DoneNeedsAll ==
    \A n \in Node : \A req \in Req \ PreKeys :
        report[n][req] = "done" => AllPublished(n, req)

(* Where a message that server n is to act on can be. *)
Held(n, m) ==
    \/ \E e \in wire[n] \cup inbox[n] \cup errors[n] : e.msg = m
    \/ \E x \in timers[n] : x.env.msg = m
    \/ m \in dropped[n]
    \/ IF m.kind = "S" THEN \E x \in DOMAIN partial_sigs[n][m.room] :
                               partial_sigs[n][m.room][x] = m
       ELSE <<m.sender, m.round>> \in player[n][m.room].store

(* No message for a participant vanishes without being counted: while the
   first coordinator of a server runs, every published message it is to act
   on waits on the wire, in a timer, with a player, or has been used, or was
   dropped by retry with its attempts used up (a coordinator that stops takes
   all of these with it).  This covers messages that arrive before the
   local request, after their round, or before the Signer exists, and a
   request_id with a '@' on the same servers does not change it. *)
NothingLost ==
    \A n \in {q \in Node \ restarted : up[q]} : \A e \in sent :
        (WellNamed(e.msg.room) /\ e.msg.key # n /\ Me(n, e.msg.room) # None
            /\ e.msg.receiver \in {None, Me(n, e.msg.room)})
          => Held(n, e.msg)

(* A finished protocol hands its result over once: when a keygen's or a
   signature's output arrives, the request has not been reported done
   (MpcPlayer's pick_output; Signer's exact count of partial signatures). *)
ResultOnce ==
    \A n \in Node : \A o \in outputs[n] :
        o[1] # "O" => report[n][o[2][1]] = "processing"

(* The servers that take part in a request. *)
ParticipantsOf(req) == {n \in Node : Me(n, RoomOf(req)) # None}

JointParticipants == [req \in Req |-> ParticipantsOf(req)]
KeysNeeded == [req \in Req |-> IF req \in SignReq THEN {public_key[req]} ELSE {}]

(* Who has published a message of which request. *)
JoinedIn == {<<e.msg.key, e.msg.room[1]>> : e \in sent}

J == INSTANCE JointRequest
       WITH Participants <- JointParticipants, Needs <- KeysNeeded, Done <- PreKeys,
            Keygens <- KeygenReq, status <- report, keys <- local_share_store,
            joined <- JoinedIn, crashed <- restarted

(* What the servers report for a request implements JointRequest: no server
   is done before every other participant has published for the request, only
   a restart takes a status back, a share comes from a finished keygen, and
   nobody takes a signature on without the share of its key. *)
JointSpec == J!Spec

(* The messages of a request that a server has given up. *)
GaveUp(req) == \E n \in Node : \E m \in dropped[n] : m.room = RoomOf(req)

(* Nobody is listed twice. *)
Distinct(req) ==
    \A i, j \in DOMAIN participant_public_keys[req] :
        participant_public_keys[req][i] = participant_public_keys[req][j] => i = j

(* Once every participant of a request that lists nobody twice has started
   its player, the request is done on all of them, unless retry has given a
   message of it up or a participant's coordinator has stopped (a request
   that does not list it makes it panic). *)
Completion ==
    \A req \in {q \in Req \ PreKeys : Distinct(q)} :
        (\A n \in ParticipantsOf(req) : player[n][RoomOf(req)].phase # "none")
          ~> \/ \A n \in ParticipantsOf(req) : report[n][req] = "done"
             \/ GaveUp(req)
             \/ \E n \in ParticipantsOf(req) : ~up[n]

(* Retrying ends: while a coordinator runs, each message is delivered or
   given up after a bounded number of attempts (the comment on
   Coordinator::retry). *)
RetriesEnd == <>[](\A n \in Node : up[n] => timers[n] = {})
=============================================================================

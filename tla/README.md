# A TLA+ verification of mpc-server

mpc-server lets a group of servers make an ECDSA key together and sign with it.
Every server offers a gRPC API, runs one *coordinator* actor with a *player*
actor per protocol run, and exchanges messages through a broker. This directory
holds TLA+ models of that system, TLC configurations that check them on small
instances, and TLAPS proofs for all instances.

## Inventory

| Part | State | Operations | Talks to |
|---|---|---|---|
| gRPC API (`server.rs`, `main.rs`) | how far start-up is, results database, two unbounded channels | start, join the broker, `keygen`, `sign`, `check_result`, `save_result` | hands requests to the coordinator, gets statuses back |
| Coordinator (`actors/coordinator.rs`) | maps of players and signers by room, sink, retry timers | requests, incoming messages, retries, outputs, errors | everything |
| MpcPlayer (`actors/player.rs`) | a round-based state machine, whether a message was handled | incoming message, `MaybeProceed` timer | sends messages, results and errors to the coordinator |
| Signer (`actors/signer.rs`) | partial signatures collected | incoming partial signature | as the player |
| Groups, rooms (`core/group.rs`, `utils`) | none | ids, indices | used by all |
| Encryption (`crypto`) | none | seal a body for its receiver, open it | coordinator |
| Stores (`storage`) | groups and key shares in sled | save (first write wins), retrieve | coordinator |
| Transport (`transport`, `send_one`) | the sink, the request in flight, the stream | join, sign, verify, broadcast, read | coordinator and broker |
| Messenger (`messenger`) | rooms, histories, subscriber counts | subscribe, broadcast | the transport clients of all servers |

The hard behaviours: actors, timers and three threads interleave; messages arrive
before the request they belong to, after their round, twice after a replay, or
before the actor that wants them exists; bodies are decrypted on one of two paths
and then retried on three; broadcasts fail, get lost without an error, or fail after
they were published; a send awaits the network with the actor's only sink in its
hands; actors panic, and their timers and mailboxes go with them; the API answers
before the broker is joined; a restart loses everything but what the databases have
flushed, so that a request_id stays used up or can be taken again; event ids are 16
bits wide; a request_id may hold the '@' that separates it from its group.
`PROJECT.json` lists them as hazards with the line where each one bites.

What correctness means for each part: a running coordinator loses no message that it
still needs, decrypts once and gives up after a bounded time; the players stay in
step; a request is done only after all participants have done their part, and only a
crash takes that back; the API never shows a status going back, its answers say what
becomes of a request, and a key shown as done can be used; the connection sends each
message at most once, and only signed messages, requests and the broker can stop it;
the broker delivers everything, in order, to whoever watches.

## Modules

* `Groups` - servers, requests, group and room ids, indices. A server is its public
  key; the fields of a request are constant functions named after them. `IdGroup`
  gives a request_id with a '@' the group id that stands behind its first '@':
  `extract_group_id` finds that one instead of the room's own.
* `Player` - messages, and the state machine a player drives. The state machines
  (`Keygen` and `OfflineStage` of multi-party-ecdsa) are external. They are modelled
  by what `player.rs` relies on: one message store per round, a round that is left
  when its store is complete, an error for a message of a round already left, an
  ignored second message.
* `Coordinator` - the servers and the broker. One action per handler:
  `handle_keygen_request`, `handle_sign_request`, `handle_incoming`, `handle_retry`,
  `handle_protocol_error`, `send_one`, `encrypt_fails`, the three `handle_output_*`,
  the player's `player_handle` and `player_maybe_proceed`, the signer's
  `signer_handle`; and the faults `send_fails` (with `send_panics`), `send_lost`,
  `player_proceed_fails`, `handle_output_keygen_unsaved`, `stream_finished`,
  `redeliver`, `restart`. `StopCoordinator` is what a panic (`get_i` in a request or
  a group that does not list the server, a sink without its state) and the end of
  the stream have in common: the actor's context is dropped with its timers,
  mailbox, stream and sends, nothing is counted, and the process goes on without a
  coordinator. `restart` begins a new process: `ReopenResults` and `ReopenShares`
  let the two databases come back without any of the ids, statuses, groups and
  shares that were still queued or not flushed (all of them, when the choice falls
  so), and an id without its record is accepted again. Mailboxes and the broker are
  sets: no order is assumed. Helpers shared by handlers (`retry`,
  `handle_incoming_unsafe`, `maybe_proceed`) keep the code's names.
* `JointRequest` - the abstract specification: the status each server reports for a
  request, the key shares it holds, and who has published for what, with the actions
  `Accept` (needs the share), `Join`, `Finish` (needs that all others have joined)
  and `Crash`, which may take statuses and shares back but not what was published.
  `Coordinator` implements it with `status <- report`, `keys <- local_share_store`,
  `joined` computed from `sent` and `crashed <- restarted`; the participants and the
  key a signature needs are computed from the requests.
* `CoordinatorInv` - the three layers of the inductive invariant: `Provenance`,
  `Lifecycle`, `Delivery`. `CoordinatorProofs`, `LifecycleProofs`, `DeliveryProofs`:
  their proofs and what follows from each.
* `Messenger` - the broker at the granularity of its locks and atomics: lookup under
  the read lock, check and insertion under the write lock, the count, the history.
  Arithmetic on event ids wraps, as in the release build that the Dockerfile makes;
  a debug build panics at the same point and ends the stream. `Coordinator` uses its
  own coarser broker (`wire`, `sent`): delivery in any order, replay of the history
  or nothing after a restart (Redis keeps none).
* `RequestApi` - one server's API: start-up (`start`, `join`, `join_fails`), the
  gRPC thread with its two sends, the coordinator's Arbiter, the Arbiter that writes
  results, the share store and the disk. The two effects of `ProtocolOutputKG`,
  saving the share and sending the status, are two steps here, because the other
  threads and a crash come between them; the coordinator starts no other handler
  meanwhile (`Free`). The protocols themselves are reduced to the jobs that end some
  day.
* `Transport` - one coordinator's connection, step by step: the Outgoing message in
  the mailbox, the spawned future, actix's critical section (`wait`: while one is
  open the loop polls nothing else), the sink taken and put back, the request and
  its answer, and the incoming stream with `parse_signed` and `take_non_owned`. A
  `FatalText` is a signed message for a receiver in a group that does not list this
  server: whether it panics when it is read, when it is retried, or never depends on
  the group being in the store, which only `Coordinator` knows, so here all three
  can happen (`read_panics`, `retry_panics`, `read`). Both brokers are modelled
  (`broker`): the messenger replays its history and its error statuses are no
  errors, Redis replays nothing and its errors are. The two answers "refused with a
  status" and "connection broken" differ in what the sink is afterwards; a broken
  one may have published the message or not.
* `Sending` - what `Transport` promises, in steps of one message: the sending
  actions of `Coordinator` are these. `Transport` implements it with the messages
  not yet answered as its outbox and the sink as the next send will find it; its
  `stops` is the end of the stream and every panic that is not the sink's.
* `TransportProofs`, `MessengerProofs`, `RequestApiProofs` - the proofs about these
  three modules, each with its inductive invariant.
* `MCCoordinator`, `MCMessenger`, `MCRequestApi`, `MCTransport` - the instances.

Operators with a comment "Mutant" are wrong variants of the definition that
follows them. No model uses them; they show that a property can fail.

Abstractions: a payload is the protocol it belongs to, its round, sender and
receiver; encryption is the name of the key that opens a body; time is left out, so
a timer fires whenever it likes; encrypting and sending an outgoing message is one
step of `Coordinator` (the group it needs never changes once saved, and `Transport`
shows what the step stands for); two servers' eight-digit prefixes are assumed
distinct. The `u16` counter of a player's messages is kept only as "none or some":
it is compared with 0 by a timer chain that ends at the first message, long before
the counter can wrap. `Coordinator` takes a request_id once per server, and again
after a restart that lost its record; what happens when the API lets one through
twice at a time is in `RequestApi`. Each server of `MayRestart` restarts at most
once. Each record falls back by itself, which is coarser than sled, whose log loses
a suffix: the model has more outcomes than the code. That a keygen's group is found
wherever its share is comes from their being written to one database in that order.
A message of a second life is the message the first life has published: the state
machine draws new secrets, but the models do not look at contents. If the two
contradict each other `proceed()` fails, which is the fault `player_proceed_fails`.

## Runs

| Run | Instance | Checks |
|---|---|---|
| `keygen` | 3 servers, 2 rounds, the second point to point, 1 retry | `EncryptNeverFails`, `RoundBarrier`, `DoneNeedsAll`, `NothingLost` |
| `keygen_sign` | 3 servers, keygen then 3-of-3 sign, 1 round each | `DoneNeedsAll`, `NothingLost`, `JointSpec` |
| `bad_requests` | 2 servers, a good sign request and 3 bad ones (one server twice, too few, a '@' in the id) | `EncryptNeverFails`, `RoundBarrier`, `NothingLost` |
| `faults` | 2 servers, 1-round sign with a key from an earlier life, any 2 of 6 kinds of fault, one server restarts | `TypeOK`, `DecryptOnce`, `EncryptNeverFails`, `NothingLost`, `ResultOnce`, `Provenance`, `JointSpec` |
| `liveness` | 2 servers, keygen and sign, a keygen of one server alone, 2 retries, one failing save of a share, fair | `Completion`, `RetriesEnd`, `JointSpec` |
| `retry_forever` | keygen with one redelivery, fair | `RetriesEnd` is violated |
| `messenger` | 2 subscribers (one resumes), 2 broadcasts, fair | order, wakeups, count, `EventuallyRead` |
| `messenger_orphan` | 2 subscribers | `WatchersInRoom` is violated |
| `messenger_wrap` | 2 event ids, 3 broadcasts | `ReadInOrder` is violated |
| `request_api` | 3 requests, 2 calls, any 2 of 5 kinds of fault, a key from an earlier life or none, fair | `StatusOrder`, `PollNeverGoesBack`, `NoLateHashError`, `RunsAsAnswered`, `DoneUsable`, `AcceptedVisible`, `AnsweredIsOffered` |
| `request_twice` | 1 request, 2 calls | `AcceptedOnce` is violated |
| `transport` | 2 outgoing messages, 3 incoming texts (signed and perhaps fatal, forged, stream error), any 2 of 6 kinds of fault, either broker, fair | `TypeOK`, `SinkPresent`, `PublishedOnce`, `StopsForCause`, `SendingSpec`, `LoopProgress` |

Why the bounds are enough: three servers give a message both a receiver and a
bystander and let one server be two steps behind; two rounds are needed for a
message to be early or late and include a sealed one; one retry (`MaxAttempts`)
already separates waiting, delivery after a retry, and giving up - the code's 33
only repeats this; two faults let each one meet another (a redelivery after a
restart, a restart after a failed send). In `faults` one round leaves every point of
a request's life to be lost in a restart: before its first message, between the
offline stage and the signature, after the result. Its key is from an earlier life
and so is safe on disk: that shares can be lost too, and that every server may
restart, is beyond this instance and is covered by the proofs. Two outgoing messages
are what it takes for one send to meet another; one text of each kind reaches every
branch of the stream, and the signed one need not prove fatal. In `request_api` two
calls are a repeated one, or a keygen and a signature with its key, and two faults
let a failing lookup follow a crash. In `bad_requests` the '@' of `sAt` names the
group of `sFew`, so that its messages meet a group of other servers: dropped on one,
not encrypted or fatal on another. Every model deadlocks legitimately when all
requests are served, so deadlock is not checked; being stuck shows up in
`Completion`.

The violations are disagreements between the code and what the repository says:

* `retry_forever`: the comment on `retry` promises about four hours; a message of
  a finished keygen round is bounced by its player, which is never removed, and
  starts again at attempt 1.
* `messenger_orphan`: the comment "If no one is watching this room" does not hold
  for a task that has looked the room up and not yet counted itself.
* `messenger_wrap`: after 65536 messages a subscription reads the history again
  and never gets to the new messages.
* `request_twice`: "A request of id .. already exists." is not answered while the
  first record is on its way to the database.

Fairness: the actix and tokio executors run every ready task, timers fire, the
broker's stream is read, so each kind of step is weakly fair per server (in
`Messenger` the lock acquisitions are strongly fair, because tokio's RwLock
queues its waiters). In `Transport` the loop polls what it may poll and the broker
answers, unless it hangs, which the client has no timeout for; `LoopProgress` leaves
that case out, and with it a coordinator stands still. In `RequestApi` calls and
handlers end, the broker answers the subscription and the two Arbiters work their
queues off. Requests, faults, starting the process and the end of protocols are
never owed.

## Proofs

Every safety invariant, every action property and both refinements that the runs
check are theorems too, for any values of the constants that satisfy the named
assumptions (`GroupsAssumption`, `PlayerAssumption`, `CoordinatorAssumption`,
`PlainAssumption`, `MessengerAssumption`, `RequestApiAssumption`,
`TransportAssumption`; TLC evaluates them in the runs). `PlainAssumption` says that
the mark of an open body is not a public key. `ReadInOrder` alone needs a hypothesis,
below. In every proof a step of the inductive argument has one case per action, and
what several actions share (`retry`, `maybe_proceed`, saving a group, "nothing new
here") is a lemma.

### The servers

Three layers, each inductive relative to the ones before it.

1. `CoordinatorProofs`: `TypeCorrect`, `ProvenanceHolds`, and from `Provenance` the
   properties `RoundBarrierHolds` and `DoneNeedsAllHolds`. `RoundBarrier` speaks of
   published messages and `DoneNeedsAll` of reports; neither is inductive, because
   nothing in them ties a player's store to the broker. `Provenance` adds the chain:
   what is on the wire, in a timer, a mailbox or an error report was published
   (`InTransit`); what a player stored was published to it (`StoreHeard`); a player
   has left only complete rounds (`RoundsPassed`); so what it queues satisfies the
   barrier (`OutboxBarrier`) and what it hands over was earned (`OutputsEarned`);
   the same for signers (`SignersReady`, `SigsHeard`, with `KindsOk` and
   `SigsFormed` for the shape of messages).

2. `LifecycleProofs`: `LifecycleHolds`, `ResultOnceHolds`, `ImplementsJointRequest`.
   `ResultOnce` relates an output to the status reported; what makes it inductive is
   the life of a room on a server, `RoomLife`: a player exists only for a request
   that was handed over, to a participant (`PlayerLife`); a signer follows an
   offline player that has finished, and has counted less than all it needs or is
   past its result (`SignerLife`); an output under way is the first of its kind
   (`OutputLife`). A stop or a restart leaves no player, signer or output behind,
   and an id without its record has no status either (`FreshRequests`), so a second
   life of a request begins like a first one, whichever records are lost. The
   refinement of `JointRequest` needs one more link between servers: a message
   speaks for the participant that sends it, which has a status for the request
   while it still has something to send (`MessagesFromParties`). So each publication
   is a `Join` of its sender, and by `DoneNeedsAll` whoever finishes has heard from
   participants that have all joined. A step that reports a status for the first
   time is `Accept`, one that reports "done" is `Finish`, a restart is `Crash`, all
   others are stutters.

3. `DeliveryProofs`: `DeliveryHolds`, `NothingLostHolds`, `DecryptOnceHolds`,
   `EncryptNeverFailsHolds`. `NothingLost` is not inductive by itself: a message on
   the wire is dropped without a trace when it is for someone else, when its check
   panics and when it cannot be decrypted, so it must be known that none of this
   happens to a message that is owed. `Seals` says that a body which has not been
   checked is locked with the key of the receiver it names (`OwedOpens`), and that
   what was checked is open; a group id names one list of servers
   (`GroupIdInjective`, from the distinct prefixes), so the check of an owed message
   succeeds or waits for its group (`OwedIsValid`), and the server finds itself in
   the room's name (`OwnRoom`). `GroupsKnown` says that a server knows the group of
   every room it plays in and of every receiver it names. `Lifecycle` is needed once
   more: a player is never started over (its store would be lost) nor a signer (its
   partial signatures would be). The lemma `LandHeld` covers the three places where
   a routed message can end up: a mailbox, a timer, the count of the ones given up.
   The property is about servers whose first coordinator runs (`Watched`), because
   one that stops drops its timers and mailbox; that this touches no other server's
   messages is the lemma `LoseOnlyOwn`. `LoseType`, `LoseKeeps`, `LoseLife`,
   `LoseGroups` and `LoseSeals` say once what a loss of memory does to each layer,
   for panics, the end of the stream and restarts.

TLC checks `Provenance` in the run `faults`, and was used on the same instances to
check `Lifecycle` and `Delivery` before they were proved.

### The connection

`TransportProofs`, under `TransportAssumption`:

* `TypeCorrect`: `Spec => []TypeOK`;
* `SinkPresentHolds`: no send finds the sink taken. Inductive with the facts that at
  most one message waits in a critical section, that the sink is out exactly while
  that message is in flight;
* `PublishedOnceHolds`: a message is in one place only (mailbox, spawned, waiting,
  published or lost), and a request in flight and unanswered is not published;
* `StopsForCauseHolds`: with `StopCause`, which carries a fault to its effect (a
  sink without its state, an end of stream still in the queue, a fatal text on its
  way or waiting to be retried);
* `TransportImplementsSending`: `Spec => S!Spec`. Handling, spawning, entering and
  taking the sink are stutters; the broker's answer is the step of `Sending`
  (`send_one`, `send_lost` or `send_fails`), and putting the sink back a stutter
  again. Every end of the actor is its `stops`, or `send_panics` if the sink had
  lost its state.

### The broker

`MessengerProofs`, under `MessengerAssumption`, with the invariant `Inv`:

* `TypeCorrect`, `CountExactHolds`, `NoLostWakeupHolds`. The room ids need `RoomsInv`:
  no more rooms are made than requests have passed the lookup;
* `ReadInOrderHolds`: `ReadInOrder`, if `IdsSuffice`: there are more event ids than
  broadcasts, and nobody resumes after the last id. Without that the property is false
  (`messenger_wrap`); the code has 65536 ids and bounds neither. `OrderInv` ties the
  cursor to what the subscription has yielded while its room's history is shorter than
  the range of ids, and `HistoryInv` bounds every history by the broadcasts answered.

### The API

`RequestApiProofs`, under `RequestApiAssumption`, with the invariant `Inv`:

* `TypeCorrect`, `NoLateHashErrorHolds` (`HashInv`: nothing with a bad hash is
  anywhere on its way), `RunsAsAnsweredHolds` (counting what is queued),
  `DoneUsableHolds` (`ShareInv`: whatever announces a keygen's end - a record, an
  answer, a status under way, a handler between its two effects - finds its share
  stored);
* `StatusOrderHolds` and the action property `PollNeverGoesBackHolds`. Two threads
  write the queue of statuses. `Stage` says that a request accepted once is in one
  place (a call, the channel to the coordinator, or one job), and that from each
  place no status can be sent that falls behind those queued or recorded already
  (`Cap`).

### Only model-checked

`EventuallyRead`, `AcceptedVisible`, `AnsweredIsOffered`, `LoopProgress`,
`Completion` and `RetriesEnd` are liveness under fairness, which the prover does not
treat (it has no rules for ENABLED). The behaviour of the external state machines is
an assumption of the models, not a result.

## Not modelled

Metrics and logging (`prom.rs`, `msg_utils.rs`), command line, keystore, generated
protobuf code and the secp256k1-id tool have no state that matters here. Signatures
on envelopes are external: a text is signed or forged. Keys shorter than ten
characters (`PublicKeyGroup::new` panics on them) and two servers with equal
prefixes are outside the models, and so are errors of the group store, whose result
nobody looks at: `EncryptNeverFails` is about the order of saving and sending only.
A second player in the same room, which a request accepted twice starts, is not
modelled: what its party's contradictory messages do is up to the external state
machines. Delays are left out: the schedule of `retry` (2 to 512 seconds, then 10
minutes) only decides when a timer fires.

## Plan

1. Done: all modules and runs above; the proofs of all their safety and action
   properties and of both refinements.
2. Next: an abstract broker (a history per room and a position per reader) that
   `Messenger` implements; the part of `Completion` and `RetriesEnd` that is a
   safety property (what a server that waits for ever waits for).
3. Extend, if the state machines' behaviour is ever specified: two players of one
   party in a room.

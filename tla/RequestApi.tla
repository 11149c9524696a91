----------------------------- MODULE RequestApi ------------------------------
(***************************************************************************)
(* The front end of one server: its start-up, the two unbounded channels   *)
(* and the results database of src/main.rs, the gRPC calls of              *)
(* src/server.rs, the statuses the Coordinator sends for a request, and    *)
(* the share store that its keys go to (src/storage/share_store.rs).       *)
(*                                                                         *)
(* Three threads run in parallel: the gRPC thread (one call at a time, its *)
(* handlers never await), the coordinator's Arbiter, and the Arbiter that  *)
(* writes results.                                                         *)
(***************************************************************************)
EXTENDS Naturals, Sequences, FiniteSets

CONSTANTS KeygenId, SignId,  \* request_ids
          public_key,        \* the keygen whose key a sign request names
          BadHash,           \* sign requests whose hash is not hexadecimal
          MaxSubmits,        \* calls to keygen and sign in all
          FaultKinds,        \* which faults may happen
          MaxFaults          \* how many faults may happen in all

Id == KeygenId \cup SignId

ASSUME RequestApiAssumption ==
    /\ KeygenId \cap SignId = {} /\ BadHash \subseteq SignId
    /\ MaxSubmits \in Nat /\ MaxFaults \in Nat
    /\ FaultKinds \subseteq {"lookup", "save", "share", "join", "crash"}
    /\ public_key \in [SignId -> KeygenId]

Status == {"none", "received", "processing", "done", "error"}

(* How far a request has come. *)
Rank == [none |-> 0, received |-> 1, processing |-> 2, done |-> 3, error |-> 3]

(* The gRPC thread is in no call; else it is before its first or second send. *)
Idle == [at |-> 0]

VARIABLES
    process,     \* "down", "joining" the broker, "joined", or join "failed"
    results_db,  \* status recorded for each request_id
    shares,      \* keygens whose share is stored
    flushed,     \* what of the two databases is on disk (sled writes behind)
    tx,          \* requests on the way to the coordinator
    tx_res,      \* CheckResultResponses on the way to the database
    call,        \* the call the gRPC thread is in
    jobs,        \* the coordinator's work: <<"player" | "output" | "signer", id>>
    submits,     \* calls to keygen and sign so far
    accepted,    \* calls that passed the checks, an earlier life's too
    oks,         \* calls answered without an error
    offered,     \* requests handed to the coordinator
    seen,        \* the last answer CheckResult gave
    unsaved,     \* keygens whose share could not be stored
    faults,      \* faults so far, and their kinds
    happened

diskVars   == <<results_db, shares, flushed>>
clientVars == <<submits, accepted, oks, seen>>
workVars   == <<jobs, offered, unsaved>>
faultVars  == <<faults, happened>>
vars == <<process, diskVars, tx, tx_res, call, clientVars, workVars, faultVars>>

Response(id, status) == [id |-> id, status |-> status]

(* An earlier life of the server may have made keys. *)
Init ==
    \E made \in SUBSET KeygenId :
      /\ process = "down"
      /\ results_db = [id \in Id |-> IF id \in made THEN "done" ELSE "none"]
      /\ shares = made
      /\ flushed = [results |-> results_db, shares |-> made]
      /\ tx = << >> /\ tx_res = << >> /\ call = Idle
      /\ jobs = {}
      /\ submits = 0
      /\ accepted = [id \in Id |-> IF id \in made THEN 1 ELSE 0]
      /\ oks = [id \in Id |-> 0]
      /\ offered = [id \in Id |-> 0]
      /\ seen = [id \in Id |-> "none"]
      /\ unsaved = {}
      /\ faults = 0 /\ happened = {}

Fault(kind) ==
    /\ kind \in FaultKinds /\ faults < MaxFaults
    /\ faults' = faults + 1
    /\ happened' = happened \cup {kind}

-----------------------------------------------------------------------------
(* Start-up. *)

(* precheck passes; the API opens while bootstrap joins the broker. *)
start ==
    /\ process = "down"
    /\ process' = "joining"
    /\ UNCHANGED <<diskVars, tx, tx_res, call, clientVars, workVars, faultVars>>

(* Mutant: the channel is made when the broker is joined. *)
join_afresh ==
    /\ process = "joining"
    /\ process' = "joined"
    /\ tx' = << >>
    /\ UNCHANGED <<diskVars, tx_res, call, clientVars, workVars, faultVars>>

(* The broker is joined, and the requests queued until now are taken. *)
join ==
    /\ process = "joining"
    /\ process' = "joined"
    /\ UNCHANGED <<diskVars, tx, tx_res, call, clientVars, workVars, faultVars>>

(* bootstrap returns: the receiving end of tx is dropped with what is queued. *)
join_fails ==
    /\ Fault("join")
    /\ process = "joining"
    /\ process' = "failed"
    /\ tx' = << >>
    /\ UNCHANGED <<diskVars, tx_res, call, clientVars, workVars>>

-----------------------------------------------------------------------------
(* The gRPC thread. *)

(* Mutant: the hash is not parsed. *)
hash_unchecked(id) == TRUE

(* sign: BigInt::from_hex accepts the hash. *)
hash_ok(id) == id \notin BadHash

(* keygen and sign up to the first send: refuse a known id or a bad hash. *)
Check(id, already_exists) ==
    /\ process # "down" /\ call = Idle /\ submits < MaxSubmits
    /\ submits' = submits + 1
    /\ IF already_exists \/ ~hash_ok(id)
       THEN UNCHANGED <<call, accepted>>
       ELSE /\ call' = [id |-> id, at |-> 1]
            /\ accepted' = [accepted EXCEPT ![id] = @ + 1]
    /\ UNCHANGED <<process, diskVars, tx, tx_res, oks, seen, workVars>>

submit(id) ==
    /\ Check(id, results_db[id] # "none")
    /\ UNCHANGED faultVars

(* contains_key fails: map_or(false, ..) takes the id for a new one. *)
submit_lookup_fails(id) ==
    /\ Fault("lookup")
    /\ Check(id, FALSE)

(* Mutants: the sends are swapped; or "received" is not sent. *)
swapped_sends == <<"tx", "tx_res">>
half_sends == <<"nowhere", "tx">>

(* keygen and sign send "received" to the results, then the request to the
   coordinator. *)
sends == <<"tx_res", "tx">>

(* tx.send succeeds: bootstrap still has the other end. *)
Queued(which) == sends[which] = "tx" /\ process # "failed"

(* Mutant: an error as long as the broker is not joined. *)
AnsweredIfJoined(which) == Queued(which) /\ process = "joined"

(* The answer is the result of that send. *)
AnsweredOk(which) == Queued(which)

(* Mutant: the call does not return after its second send. *)
send_on ==
    /\ call # Idle
    /\ call' = [call EXCEPT !.at = @ + 1]
    /\ UNCHANGED <<process, diskVars, tx, tx_res, clientVars, workVars, faultVars>>

(* One send.  When the second fails, so does the call. *)
send ==
    /\ call # Idle
    /\ tx_res' = IF sends[call.at] = "tx_res"
                 THEN Append(tx_res, Response(call.id, "received")) ELSE tx_res
    /\ tx' = IF Queued(call.at) THEN Append(tx, call.id) ELSE tx
    /\ oks' = IF AnsweredOk(call.at) THEN [oks EXCEPT ![call.id] = @ + 1] ELSE oks
    /\ call' = IF call.at = 1 THEN [call EXCEPT !.at = 2] ELSE Idle
    /\ UNCHANGED <<process, diskVars, submits, accepted, seen, workVars, faultVars>>

check_result(id) ==
    /\ process # "down" /\ call = Idle
    /\ seen' = [seen EXCEPT ![id] = results_db[id]]
    /\ UNCHANGED <<process, diskVars, tx, tx_res, call, submits, accepted, oks,
                   workVars, faultVars>>

(* The database cannot be read: "Not found", as for an unknown id. *)
check_result_fails(id) ==
    /\ Fault("lookup")
    /\ process # "down" /\ call = Idle
    /\ seen' = [seen EXCEPT ![id] = "none"]
    /\ UNCHANGED <<process, diskVars, tx, tx_res, call, submits, accepted, oks,
                   workVars>>

-----------------------------------------------------------------------------
(* The coordinator's Arbiter: actors::handle takes the requests in order, and
   the coordinator is in one handler at a time. *)

Free == \A j \in jobs : j[1] # "output"

keep_front == UNCHANGED <<process, results_db, flushed, call, clientVars, faultVars>>

Take ==
    /\ process = "joined" /\ Free /\ tx # << >>
    /\ tx' = Tail(tx)
    /\ offered' = [offered EXCEPT ![Head(tx)] = @ + 1]
    /\ UNCHANGED <<shares, unsaved>> /\ keep_front

(* The coordinator has stopped, or handle_sign_request fails before it sends
   a status. *)
handle_silently ==
    /\ Take
    /\ UNCHANGED <<tx_res, jobs>>

(* A status, and a player unless its state machine cannot be made; a sign
   request needs the share of its key. *)
handle_request ==
    /\ Take
    /\ Head(tx) \in SignId => public_key[Head(tx)] \in shares
    /\ tx_res' = Append(tx_res, Response(Head(tx), "processing"))
    /\ \E started \in {{}, {<<"player", Head(tx)>>}} : jobs' = jobs \cup started

(* The effects of ProtocolOutputKG: save the share, send the status. *)
SaveShare(id) ==
    /\ shares' = shares \cup {id}
    /\ UNCHANGED tx_res
SendDone(id) ==
    /\ tx_res' = Append(tx_res, Response(id, "done"))
    /\ UNCHANGED shares

(* Mutant: the status first. *)
done_then_save(id, nth) == IF nth = 1 THEN SendDone(id) ELSE SaveShare(id)

save_then_done(id, nth) == IF nth = 1 THEN SaveShare(id) ELSE SendDone(id)

(* ProtocolOutputKG. *)
keygen_output(id) ==
    /\ Free /\ <<"player", id>> \in jobs /\ id \in KeygenId
    /\ jobs' = (jobs \ {<<"player", id>>}) \cup {<<"output", id>>}
    /\ save_then_done(id, 1)
    /\ UNCHANGED <<tx, offered, unsaved>> /\ keep_front

keygen_output_ends(id) ==
    /\ <<"output", id>> \in jobs
    /\ jobs' = jobs \ {<<"output", id>>}
    /\ save_then_done(id, 2)
    /\ UNCHANGED <<tx, offered, unsaved>> /\ keep_front

(* Encrypting or writing the share fails: nobody looks at the error. *)
share_not_saved(id) ==
    /\ Fault("share")
    /\ Free /\ <<"player", id>> \in jobs /\ id \in KeygenId
    /\ jobs' = (jobs \ {<<"player", id>>}) \cup {<<"output", id>>}
    /\ unsaved' = unsaved \cup {id}
    /\ UNCHANGED <<process, diskVars, tx, tx_res, call, clientVars, offered>>

(* ProtocolOutputO, which parses the hash once more. *)
offline_output(id) ==
    /\ Free /\ <<"player", id>> \in jobs /\ id \in SignId
    /\ IF id \in BadHash
       THEN /\ jobs' = jobs \ {<<"player", id>>}
            /\ tx_res' = Append(tx_res, Response(id, "error"))
       ELSE /\ jobs' = (jobs \ {<<"player", id>>}) \cup {<<"signer", id>>}
            /\ tx_res' = Append(tx_res, Response(id, "processing"))
    /\ UNCHANGED <<shares, tx, offered, unsaved>> /\ keep_front

(* ProtocolOutputS. *)
signer_output(id) ==
    /\ Free /\ <<"signer", id>> \in jobs
    /\ jobs' = jobs \ {<<"signer", id>>}
    /\ tx_res' = Append(tx_res, Response(id, "done"))
    /\ UNCHANGED <<shares, tx, offered, unsaved>> /\ keep_front

-----------------------------------------------------------------------------
(* handle_response: one record after the other; an error is ignored. *)
save_result ==
    /\ tx_res # << >>
    /\ tx_res' = Tail(tx_res)
    /\ results_db' = [results_db EXCEPT ![Head(tx_res).id] = Head(tx_res).status]
    /\ UNCHANGED <<process, shares, flushed, tx, call, clientVars, workVars, faultVars>>

save_fails ==
    /\ Fault("save")
    /\ tx_res # << >>
    /\ tx_res' = Tail(tx_res)
    /\ UNCHANGED <<process, diskVars, tx, call, clientVars, workVars>>

(* sled (external) writes each database to disk every now and then. *)
flush ==
    /\ \/ flushed' = [flushed EXCEPT !.results = results_db]
       \/ flushed' = [flushed EXCEPT !.shares = shares]
    /\ flushed' # flushed
    /\ UNCHANGED <<process, results_db, shares, tx, tx_res, call, clientVars,
                   workVars, faultVars>>

(* The process dies: the channels, the actors and what was not on disk are
   gone. *)
crash ==
    /\ Fault("crash")
    /\ process # "down" /\ process' = "down"
    /\ results_db' = flushed.results
    /\ shares' = flushed.shares
    /\ tx' = << >> /\ tx_res' = << >> /\ call' = Idle /\ jobs' = {}
    /\ UNCHANGED <<flushed, clientVars, offered, unsaved>>

-----------------------------------------------------------------------------
Next ==
    \/ start \/ join \/ join_fails
    \/ \E id \in Id : submit(id)
    \/ \E id \in Id : submit_lookup_fails(id)
    \/ send
    \/ \E id \in Id : check_result(id)
    \/ \E id \in Id : check_result_fails(id)
    \/ handle_silently
    \/ handle_request
    \/ \E id \in Id : keygen_output(id)
    \/ \E id \in Id : keygen_output_ends(id)
    \/ \E id \in Id : share_not_saved(id)
    \/ \E id \in Id : offline_output(id)
    \/ \E id \in Id : signer_output(id)
    \/ save_result
    \/ save_fails
    \/ flush
    \/ crash

Spec == Init /\ [][Next]_vars

(* Calls and handlers run to their end, the broker answers bootstrap, and the
   two Arbiters work their queues off.  Nothing is owed by the protocols, the
   disk or the clients, and nobody need start the process. *)
Fairness ==
    /\ WF_vars(join)
    /\ WF_vars(send)
    /\ WF_vars(handle_silently \/ handle_request)
    /\ \A id \in Id : WF_vars(keygen_output_ends(id))
    /\ WF_vars(save_result)

FairSpec == Spec /\ Fairness
-----------------------------------------------------------------------------
(* Properties. *)

(* Every variable has its type. *)
TypeOK ==
    /\ process \in {"down", "joining", "joined", "failed"}
    /\ results_db \in [Id -> Status] /\ shares \subseteq KeygenId
    /\ flushed \in [results: [Id -> Status], shares: SUBSET KeygenId]
    /\ tx \in Seq(Id) /\ tx_res \in Seq([id: Id, status: Status])
    /\ call \in {Idle} \cup [id: Id, at: {1, 2}]
    /\ jobs \subseteq ({"player", "output", "signer"} \X Id)
    /\ submits \in Nat /\ accepted \in [Id -> Nat] /\ oks \in [Id -> Nat]
    /\ offered \in [Id -> Nat]
    /\ seen \in [Id -> Status]
    /\ unsaved \subseteq KeygenId
    /\ faults \in Nat /\ happened \subseteq FaultKinds

(* The statuses of a request that was accepted once reach the database in
   the order of its life, although three threads send and write them: what
   is recorded and what is still queued never goes back. *)
StatusOrder ==
    \A id \in Id : accepted[id] <= 1 =>
        \A y \in DOMAIN tx_res : tx_res[y].id = id =>
            /\ Rank[results_db[id]] <= Rank[tx_res[y].status]
            /\ \A x \in 1..y : tx_res[x].id = id =>
                 Rank[tx_res[x].status] <= Rank[tx_res[y].status]

(* A client that polls CheckResult never sees a request it submitted once go
   back, unless the server has crashed or could not read its database. *)
PollNeverGoesBack ==
    [][\A id \in Id : accepted[id] <= 1 /\ happened' \cap {"crash", "lookup"} = {} =>
         Rank[seen[id]] <= Rank[seen'[id]]]_vars

(* No request fails late on its hash: sign refuses what ProtocolOutputO could
   not parse, so the Error status is never recorded. *)
NoLateHashError == \A id \in Id : results_db[id] # "error"

(* How often a request is in the queue. *)
InQueue(id) == Cardinality({x \in DOMAIN tx : tx[x] = id})

(* The coordinator works on a request at most once for each call that was
   answered without an error: "Failed to queue the request." means that it
   will not run (keygen, sign), also while the server still joins. *)
RunsAsAnswered == \A id \in Id : offered[id] + InQueue(id) <= oks[id]

(* A keygen that is recorded or was shown as done has its share in the store,
   unless saving it failed or the process has crashed since: the share is
   saved before the status is sent (ProtocolOutputKG). *)
DoneUsable ==
    \A id \in KeygenId \ unsaved :
        "done" \in {results_db[id], seen[id]} /\ "crash" \notin happened
          => id \in shares

(* A call that passed the checks becomes visible to CheckResult, unless the
   record cannot be saved or the process crashes, even if the request cannot
   be queued. *)
AcceptedVisible ==
    \A id \in Id : accepted[id] > 0 ~>
        results_db[id] # "none" \/ happened \cap {"save", "crash"} # {}

(* A request whose call was answered without an error reaches the
   coordinator, unless bootstrap fails or the process crashes; it need not have
   joined the broker yet when the call comes. *)
AnsweredIsOffered ==
    \A id \in Id : oks[id] > 0 ~>
        offered[id] > 0 \/ process = "failed" \/ "crash" \in happened

(* A request_id is accepted once: a second call with it is answered
   "A request of id .. already exists." (keygen, sign). *)
AcceptedOnce == \A id \in Id : accepted[id] <= 1
=============================================================================

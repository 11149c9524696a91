-------------------------- MODULE RequestApiProofs ---------------------------
(***************************************************************************)
(* Theorems about RequestApi: for any requests, any number of calls and    *)
(* faults.                                                                 *)
(***************************************************************************)
EXTENDS RequestApi, FiniteSetTheorems, TLAPS

-----------------------------------------------------------------------------
(* Sequences: the two channels. *)

Elems(s) == {s[i] : i \in DOMAIN s}

(* The order of the statuses. *)
LEMMA RankFacts ==
    /\ Rank["none"] = 0 /\ Rank["received"] = 1 /\ Rank["processing"] = 2
    /\ Rank["done"] = 3 /\ Rank["error"] = 3
    /\ \A st \in Status : Rank[st] \in 0..3
BY DEF Rank, Status

(* What Append does to a sequence. *)
LEMMA AppendFacts ==
    ASSUME NEW A, NEW s \in Seq(A), NEW x \in A
    PROVE  /\ Append(s, x) \in Seq(A)
           /\ DOMAIN Append(s, x) = DOMAIN s \cup {Len(s) + 1}
           /\ Len(s) + 1 \notin DOMAIN s
           /\ \A i \in DOMAIN s : Append(s, x)[i] = s[i] /\ i <= Len(s)
           /\ Append(s, x)[Len(s) + 1] = x
           /\ Elems(Append(s, x)) = Elems(s) \cup {x}
<1>1. /\ Append(s, x) \in Seq(A)
      /\ DOMAIN Append(s, x) = 1..(Len(s) + 1)
      /\ DOMAIN s = 1..Len(s)
      /\ Len(s) \in Nat
      /\ \A i \in DOMAIN s : Append(s, x)[i] = s[i]
      /\ Append(s, x)[Len(s) + 1] = x
  OBVIOUS
<1>2. DOMAIN Append(s, x) = DOMAIN s \cup {Len(s) + 1} /\ Len(s) + 1 \notin DOMAIN s
  BY <1>1
<1>3. Elems(Append(s, x)) = Elems(s) \cup {x}
  <2> DEFINE t == Append(s, x)
  <2>1. \A i \in DOMAIN t : t[i] \in Elems(s) \cup {x}
    BY <1>1, <1>2 DEF Elems
  <2>2. \A i \in DOMAIN s : s[i] \in Elems(t)
    BY <1>1, <1>2 DEF Elems
  <2>3. x \in Elems(t)
    BY <1>1, <1>2 DEF Elems
  <2> QED BY <2>1, <2>2, <2>3 DEF Elems
<1> QED BY <1>1, <1>2, <1>3

(* What Head and Tail do to a sequence. *)
LEMMA TailFacts ==
    ASSUME NEW A, NEW s \in Seq(A), s # << >>
    PROVE  /\ Head(s) \in A /\ Head(s) = s[1] /\ 1 \in DOMAIN s
           /\ Tail(s) \in Seq(A)
           /\ \A i \in DOMAIN Tail(s) : /\ i \in Nat
                                        /\ i + 1 \in DOMAIN s
                                        /\ Tail(s)[i] = s[i + 1]
           /\ \A i \in DOMAIN s : i # 1 => i - 1 \in DOMAIN Tail(s)
           /\ Elems(Tail(s)) \subseteq Elems(s) /\ Head(s) \in Elems(s)
<1>1. /\ DOMAIN s = 1..Len(s) /\ Len(s) \in Nat \ {0}
      /\ Tail(s) \in Seq(A)
      /\ DOMAIN Tail(s) = 1..(Len(s) - 1)
      /\ \A i \in 1..(Len(s) - 1) : Tail(s)[i] = s[i + 1]
      /\ Head(s) = s[1]
  OBVIOUS
<1>2. \A i \in DOMAIN Tail(s) : i \in Nat /\ i + 1 \in DOMAIN s /\ Tail(s)[i] = s[i + 1]
  BY <1>1
<1>3. \A i \in DOMAIN s : i # 1 => i - 1 \in DOMAIN Tail(s)
  BY <1>1
<1>4. 1 \in DOMAIN s /\ Head(s) \in A
  BY <1>1
<1>5. Elems(Tail(s)) \subseteq Elems(s) /\ Head(s) \in Elems(s)
  BY <1>1, <1>2, <1>4 DEF Elems
<1> QED BY <1>1, <1>2, <1>3, <1>4, <1>5

(* The empty queue. *)
LEMMA EmptyFacts ==
    ASSUME NEW A
    PROVE  << >> \in Seq(A) /\ DOMAIN << >> = {} /\ Elems(<< >>) = {}
BY DEF Elems

-----------------------------------------------------------------------------
(* The inductive invariant. *)

(* Nothing on its way through the server has a bad hash, so no error status
   is ever sent. *)
HashInv ==
    /\ call # Idle => call.id \notin BadHash
    /\ Elems(tx) \cap BadHash = {}
    /\ \A j \in jobs : j[2] \notin BadHash
    /\ \A x \in Elems(tx_res) : x.status # "error"
    /\ \A id \in Id : results_db[id] # "error" /\ flushed.results[id] # "error"

(* What announces the end of a keygen: a record, an answer, a status under
   way, or the handler between its two effects. *)
Announced(id) ==
    \/ results_db[id] = "done" \/ seen[id] = "done"
    \/ [id |-> id, status |-> "done"] \in Elems(tx_res)
    \/ <<"output", id>> \in jobs

ShareInv ==
    /\ \A id \in Id : <<"signer", id>> \in jobs => id \in SignId
    /\ "crash" \notin happened =>
         \A id \in KeygenId \ unsaved : Announced(id) => id \in shares

(* Where a request can be between its call and its last status. *)
InCall(id, nth) == call # Idle /\ call.id = id /\ call.at = nth
InTx(id) == id \in Elems(tx)
InJobs(id) == \E j \in jobs : j[2] = id

(* Nothing recorded or queued for a request has come further than k. *)
Cap(id, k) ==
    /\ Rank[results_db[id]] <= k
    /\ \A x \in Elems(tx_res) : x.id = id => Rank[x.status] <= k

(* A request accepted once is in one place, and from each place nothing can
   be sent that falls behind what was sent before. *)
Stage(id) ==
    /\ InCall(id, 1) \/ InCall(id, 2) => ~InTx(id) /\ ~InJobs(id)
    /\ InTx(id) => ~InJobs(id)
    /\ \A x, y \in DOMAIN tx : tx[x] = id /\ tx[y] = id => x = y
    /\ \A j, k \in jobs : j[2] = id /\ k[2] = id => j = k
    /\ InCall(id, 1) => Cap(id, 0)
    /\ InCall(id, 2) \/ InTx(id) => Cap(id, 1)
    /\ InJobs(id) => Cap(id, 2)

(* A request that was never accepted has left no trace. *)
Untouched(id) ==
    /\ results_db[id] = "none" /\ flushed.results[id] = "none"
    /\ \A x \in Elems(tx_res) : x.id # id
    /\ ~InCall(id, 1) /\ ~InCall(id, 2) /\ ~InTx(id) /\ ~InJobs(id)

(* StatusOrder for one request. *)
Ordered(id) ==
    \A y \in DOMAIN tx_res : tx_res[y].id = id =>
        /\ Rank[results_db[id]] <= Rank[tx_res[y].status]
        /\ \A x \in 1..y : tx_res[x].id = id =>
             Rank[tx_res[x].status] <= Rank[tx_res[y].status]

(* An answer is not ahead of the record. *)
SeenInv ==
    happened \cap {"crash", "lookup"} = {} =>
        \A id \in Id : accepted[id] <= 1 => Rank[seen[id]] <= Rank[results_db[id]]

OrderInv ==
    \A id \in Id :
      /\ accepted[id] = 0 => Untouched(id)
      /\ accepted[id] <= 1 => Stage(id) /\ Ordered(id)

Inv == /\ TypeOK /\ HashInv /\ ShareInv /\ OrderInv /\ SeenInv
       /\ RunsAsAnswered

-----------------------------------------------------------------------------
(* Types. *)

(* Shorthands of the type invariant. *)
TxRes == Seq([id: Id, status: Status])

(* A response is well formed. *)
LEMMA ResponseType ==
    ASSUME NEW id \in Id, NEW st \in Status
    PROVE  Response(id, st) \in [id: Id, status: Status]
BY DEF Response

(* A queue of responses takes one more. *)
LEMMA SendResponse ==
    ASSUME NEW q \in TxRes, NEW id \in Id, NEW st \in Status
    PROVE  Append(q, Response(id, st)) \in TxRes
BY ResponseType, AppendFacts DEF TxRes

(* The initial state has the types. *)
LEMMA InitType == Init => TypeOK
<1> SUFFICES ASSUME Init PROVE TypeOK
  OBVIOUS
<1>1. PICK made \in SUBSET KeygenId :
        /\ process = "down"
        /\ results_db = [id \in Id |-> IF id \in made THEN "done" ELSE "none"]
        /\ shares = made
        /\ flushed = [results |-> results_db, shares |-> made]
        /\ tx = << >> /\ tx_res = << >> /\ call = Idle
        /\ jobs = {} /\ submits = 0
        /\ accepted = [id \in Id |-> IF id \in made THEN 1 ELSE 0]
        /\ oks = [id \in Id |-> 0] /\ offered = [id \in Id |-> 0]
        /\ seen = [id \in Id |-> "none"]
        /\ unsaved = {} /\ faults = 0 /\ happened = {}
  BY DEF Init
<1>2. results_db \in [Id -> Status] /\ seen \in [Id -> Status]
  BY <1>1 DEF Status
<1>3. /\ flushed \in [results: [Id -> Status], shares: SUBSET KeygenId]
      /\ accepted \in [Id -> Nat] /\ oks \in [Id -> Nat] /\ offered \in [Id -> Nat]
  BY <1>1, <1>2
<1>4. tx \in Seq(Id) /\ tx_res \in Seq([id: Id, status: Status])
  BY <1>1, EmptyFacts
<1> QED BY <1>1, <1>2, <1>3, <1>4 DEF TypeOK

(* The call the gRPC thread is in. *)
LEMMA CallFacts ==
    ASSUME TypeOK, call # Idle
    PROVE  call.id \in Id /\ call.at \in {1, 2} /\ call \in [id: Id, at: {1, 2}]
BY DEF TypeOK

(* Faults are counted and remembered. *)
LEMMA FaultStep ==
    ASSUME TypeOK, Next
    PROVE  faults' \in Nat /\ happened \subseteq happened' /\ happened' \subseteq FaultKinds
<1>1. \/ UNCHANGED <<faults, happened>>
      \/ \E kind \in FaultKinds : faults' = faults + 1 /\ happened' = happened \cup {kind}
  BY DEF Next, start, join, join_fails, submit, submit_lookup_fails, send,
         check_result, check_result_fails, handle_silently, handle_request, Take,
         keygen_output, keygen_output_ends, share_not_saved, offline_output,
         signer_output, save_result, save_fails, flush, crash, Fault, faultVars,
         keep_front
<1> QED BY <1>1 DEF TypeOK

(* Every step keeps the types. *)
LEMMA TypeStep == TypeOK /\ [Next]_vars => TypeOK'
<1> SUFFICES ASSUME TypeOK, [Next]_vars PROVE TypeOK'
  OBVIOUS
<1> USE DEF diskVars, clientVars, workVars, faultVars, keep_front
<1>0. tx_res \in TxRes /\ tx \in Seq(Id)
  BY DEF TypeOK, TxRes
<1>a. << >> \in Seq(Id) /\ << >> \in TxRes
  BY EmptyFacts DEF TxRes
<1>b. faults' \in Nat /\ happened' \subseteq FaultKinds
  BY FaultStep DEF TypeOK, vars
<1>1. CASE UNCHANGED vars
  BY <1>1 DEF TypeOK, vars
<1>2. CASE start \/ join \/ join_fails
  <2>1. tx' \in Seq(Id)
    BY <1>0, <1>2, <1>a DEF start, join, join_fails
  <2> QED BY <1>2, <1>b, <2>1 DEF TypeOK, start, join, join_fails
<1>3. ASSUME NEW id \in Id, submit(id) \/ submit_lookup_fails(id)
      PROVE  TypeOK'
  <2>1. PICK known \in BOOLEAN : Check(id, known)
    BY <1>3 DEF submit, submit_lookup_fails
  <2>3. [id |-> id, at |-> 1] \in [id: Id, at: {1, 2}]
    OBVIOUS
  <2>4. call' \in {Idle} \cup [id: Id, at: {1, 2}] /\ accepted' \in [Id -> Nat]
    <3>1. /\ call' = call \/ call' = [id |-> id, at |-> 1]
          /\ accepted' = accepted \/ accepted' = [accepted EXCEPT ![id] = @ + 1]
      BY <2>1 DEF Check
    <3>2. accepted \in [Id -> Nat] /\ call \in {Idle} \cup [id: Id, at: {1, 2}]
      BY DEF TypeOK
    <3>3. call' \in {Idle} \cup [id: Id, at: {1, 2}]
      BY <2>3, <3>1, <3>2
    <3>4. [accepted EXCEPT ![id] = @ + 1] \in [Id -> Nat]
      BY <3>2
    <3> QED BY <3>1, <3>2, <3>3, <3>4
  <2> QED BY <1>b, <2>1, <2>4 DEF TypeOK, Check
<1>4. CASE send
  <2>1. call.id \in Id /\ call \in [id: Id, at: {1, 2}]
    BY <1>4, CallFacts DEF send
  <2>2. "received" \in Status
    BY DEF Status
  <2>3. tx_res' \in TxRes /\ tx' \in Seq(Id)
    <3>1. Append(tx_res, Response(call.id, "received")) \in TxRes
      BY <1>0, <2>1, <2>2, SendResponse
    <3>2. Append(tx, call.id) \in Seq(Id)
      BY <1>0, <2>1, AppendFacts
    <3> QED BY <1>0, <1>4, <3>1, <3>2 DEF send
  <2>4. call' \in {Idle} \cup [id: Id, at: {1, 2}]
    BY <1>4, <2>1 DEF send
  <2>5. oks' \in [Id -> Nat]
    <3>1. oks \in [Id -> Nat]
      BY DEF TypeOK
    <3>2. oks' = oks \/ oks' = [oks EXCEPT ![call.id] = @ + 1]
      BY <1>4 DEF send
    <3> HIDE DEF Id
    <3> QED BY <2>1, <3>1, <3>2
  <2> QED BY <1>4, <2>3, <2>4, <2>5 DEF TypeOK, send, TxRes
<1>5. ASSUME NEW id \in Id, check_result(id) \/ check_result_fails(id)
      PROVE  TypeOK'
  <2>1. CASE check_result(id)
    <3>1. seen' \in [Id -> Status]
      BY <2>1 DEF TypeOK, check_result, Status
    <3> QED BY <1>b, <2>1, <3>1 DEF TypeOK, check_result
  <2>2. CASE check_result_fails(id)
    <3>1. seen' \in [Id -> Status]
      BY <2>2 DEF TypeOK, check_result_fails, Status
    <3> QED BY <1>b, <2>2, <3>1 DEF TypeOK, check_result_fails
  <2> QED BY <1>5, <2>1, <2>2
<1>6. CASE handle_silently \/ handle_request
  <2>1. Head(tx) \in Id /\ tx' \in Seq(Id)
    <3>1. tx # << >> /\ tx' = Tail(tx)
      BY <1>6 DEF handle_silently, handle_request, Take
    <3> QED BY <1>0, <3>1, TailFacts
  <2>2. offered' \in [Id -> Nat]
    <3>1. offered' = [offered EXCEPT ![Head(tx)] = @ + 1]
      BY <1>6 DEF handle_silently, handle_request, Take
    <3> QED BY <2>1, <3>1 DEF TypeOK
  <2>3. tx_res' \in TxRes
    <3>1. Append(tx_res, Response(Head(tx), "processing")) \in TxRes
      BY <1>0, <2>1, SendResponse DEF Status
    <3> QED BY <1>0, <1>6, <3>1 DEF handle_silently, handle_request
  <2>4. jobs' \subseteq ({"player", "output", "signer"} \X Id)
    <3>1. <<"player", Head(tx)>> \in {"player", "output", "signer"} \X Id
      BY <2>1
    <3>2. jobs' = jobs \/ jobs' = jobs \cup {<<"player", Head(tx)>>}
      BY <1>6 DEF handle_silently, handle_request
    <3> QED BY <3>1, <3>2 DEF TypeOK
  <2> QED BY <1>6, <2>1, <2>2, <2>3, <2>4
          DEF TypeOK, handle_silently, handle_request, Take, TxRes
<1>7. ASSUME NEW id \in Id,
             \/ keygen_output(id) \/ keygen_output_ends(id) \/ share_not_saved(id)
             \/ offline_output(id) \/ signer_output(id)
      PROVE  TypeOK'
  <2>1. jobs' \subseteq ({"player", "output", "signer"} \X Id)
    BY <1>7 DEF TypeOK, keygen_output, keygen_output_ends, share_not_saved,
                offline_output, signer_output
  <2>2. tx_res' \in TxRes
    BY <1>0, <1>7, SendResponse
       DEF keygen_output, keygen_output_ends, share_not_saved, offline_output,
           signer_output, save_then_done, SaveShare, SendDone, Status
  <2>3. shares' \subseteq KeygenId /\ unsaved' \subseteq KeygenId
    BY <1>7 DEF TypeOK, keygen_output, keygen_output_ends, share_not_saved,
                offline_output, signer_output, save_then_done, SaveShare, SendDone
  <2>5. UNCHANGED <<process, results_db, flushed, tx, call, clientVars, offered>>
    BY <1>7 DEF keygen_output, keygen_output_ends, share_not_saved,
                offline_output, signer_output
  <2> QED BY <1>b, <2>1, <2>2, <2>3, <2>5 DEF TypeOK, TxRes
<1>8. CASE save_result \/ save_fails
  <2>1. Head(tx_res) \in [id: Id, status: Status] /\ tx_res' \in TxRes
    BY <1>0, <1>8, TailFacts DEF save_result, save_fails, TxRes
  <2>2. results_db' \in [Id -> Status]
    BY <1>8, <2>1 DEF TypeOK, save_result, save_fails
  <2> QED BY <1>8, <1>b, <2>1, <2>2 DEF TypeOK, save_result, save_fails, TxRes
<1>9. CASE flush
  BY <1>9 DEF TypeOK, flush
<1>10. CASE crash
  <2>1. tx' \in Seq(Id) /\ tx_res' \in TxRes
    BY <1>10, <1>a DEF crash
  <2> QED BY <1>10, <1>b, <2>1 DEF TypeOK, crash, TxRes
<1> QED BY <1>1, <1>2, <1>3, <1>4, <1>5, <1>6, <1>7, <1>8, <1>9, <1>10 DEF Next

-----------------------------------------------------------------------------
(* What a step does to the two channels. *)

(* Who sends a status. *)
Sends(id, st) ==
    \/ InCall(id, 1) /\ st = "received" /\ send
    \/ InTx(id) /\ st = "processing" /\ handle_request /\ id = Head(tx)
    \/ <<"output", id>> \in jobs /\ st = "done" /\ keygen_output_ends(id)
    \/ <<"player", id>> \in jobs /\ st = "processing" /\ offline_output(id)
    \/ <<"player", id>> \in jobs /\ st = "error" /\ offline_output(id) /\ id \in BadHash
    \/ <<"signer", id>> \in jobs /\ st = "done" /\ signer_output(id)

(* A step sends one response, or leaves the queue and the database to others. *)
LEMMA ResponseStep ==
    ASSUME TypeOK, Next
    PROVE  \/ /\ UNCHANGED <<tx_res, results_db>>
              /\ ~crash
           \/ \E id \in Id, st \in Status :
                 /\ tx_res' = Append(tx_res, Response(id, st))
                 /\ Sends(id, st)
                 /\ UNCHANGED results_db
           \/ save_result \/ save_fails \/ crash
<1> USE DEF diskVars, clientVars, workVars, faultVars, keep_front
<1>1. CASE \/ start \/ join \/ join_fails \/ flush \/ handle_silently
           \/ \E id \in Id : \/ submit(id) \/ submit_lookup_fails(id)
                             \/ check_result(id) \/ check_result_fails(id)
                             \/ keygen_output(id) \/ share_not_saved(id)
  <2>1. UNCHANGED <<tx_res, results_db>>
    BY <1>1 DEF start, join, join_fails, flush, handle_silently, Take, submit,
                submit_lookup_fails, Check, check_result, check_result_fails,
                keygen_output, share_not_saved, save_then_done, SaveShare
  <2> QED BY <2>1
<1>2. CASE send
  <2>1. call.id \in Id /\ call.at \in {1, 2} /\ call # Idle
    BY <1>2, CallFacts DEF send
  <2>2. CASE call.at = 1
    BY <1>2, <2>1, <2>2 DEF send, sends, Sends, InCall, Status
  <2>3. CASE call.at = 2
    BY <1>2, <2>1, <2>3 DEF send, sends
  <2> QED BY <2>1, <2>2, <2>3
<1>3. CASE handle_request
  <2>1. Head(tx) \in Id /\ InTx(Head(tx))
    <3>1. tx \in Seq(Id) /\ tx # << >>
      BY <1>3 DEF TypeOK, handle_request, Take
    <3> QED BY <3>1, TailFacts DEF InTx
  <2>2. tx_res' = Append(tx_res, Response(Head(tx), "processing")) /\ results_db' = results_db
    BY <1>3 DEF handle_request, Take
  <2> QED BY <1>3, <2>1, <2>2 DEF Sends, Status
<1>4. ASSUME NEW id \in Id,
             keygen_output_ends(id) \/ offline_output(id) \/ signer_output(id)
      PROVE  \E st \in Status : /\ tx_res' = Append(tx_res, Response(id, st))
                                /\ Sends(id, st)
                                /\ UNCHANGED results_db
  BY <1>4 DEF keygen_output_ends, offline_output, signer_output, save_then_done,
              SendDone, Sends, Status
<1> QED BY <1>1, <1>2, <1>3, <1>4 DEF Next

(* Sending adds one response to the queue. *)
LEMMA ResponseElems ==
    ASSUME TypeOK, NEW id \in Id, NEW st \in Status,
           tx_res' = Append(tx_res, Response(id, st))
    PROVE  Elems(tx_res)' = Elems(tx_res) \cup {Response(id, st)}
<1> DEFINE R == [id: Id, status: Status]
           x == Response(id, st)
<1>1. tx_res \in Seq(R) /\ x \in R
  BY ResponseType DEF TypeOK
<1>2. tx_res' = Append(tx_res, x)
  OBVIOUS
<1> HIDE DEF R, x
<1>3. Elems(Append(tx_res, x)) = Elems(tx_res) \cup {x}
  BY <1>1, AppendFacts
<1> QED BY <1>2, <1>3 DEF x, Elems

(* The channel of requests: who sends, who takes, and who drops it. *)
LEMMA TxStep ==
    ASSUME TypeOK, Next
    PROVE  \/ tx' = tx /\ ~send /\ UNCHANGED <<oks, offered>>
           \/ tx' = tx /\ send /\ UNCHANGED offered
                /\ (oks' = oks \/ oks' = [oks EXCEPT ![call.id] = @ + 1])
           \/ /\ send /\ call # Idle /\ call.at = 2 /\ tx' = Append(tx, call.id)
              /\ oks' = [oks EXCEPT ![call.id] = @ + 1] /\ UNCHANGED offered
           \/ /\ tx # << >> /\ tx' = Tail(tx)
              /\ offered' = [offered EXCEPT ![Head(tx)] = @ + 1] /\ UNCHANGED oks
              /\ handle_silently \/ handle_request
           \/ tx' = << >> /\ UNCHANGED <<oks, offered>> /\ (join_fails \/ crash)
<1> USE DEF diskVars, clientVars, workVars, faultVars, keep_front
<1>1. CASE \/ start \/ join \/ flush \/ save_result \/ save_fails
           \/ \E id \in Id : \/ submit(id) \/ submit_lookup_fails(id)
                             \/ check_result(id) \/ check_result_fails(id)
                             \/ keygen_output(id) \/ share_not_saved(id)
                             \/ keygen_output_ends(id) \/ offline_output(id)
                             \/ signer_output(id)
  <2>1. UNCHANGED <<tx, oks, offered>>
    BY <1>1 DEF start, join, flush, save_result, save_fails, submit,
                submit_lookup_fails, Check, check_result, check_result_fails,
                keygen_output, share_not_saved, keygen_output_ends,
                offline_output, signer_output
  <2>2. CASE send
    BY <2>1, <2>2
  <2> QED BY <2>1, <2>2
<1>2. CASE send
  <2>1. call.at \in {1, 2} /\ call # Idle
    BY <1>2, CallFacts DEF send
  <2>2. CASE Queued(call.at)
    BY <1>2, <2>1, <2>2 DEF send, AnsweredOk, Queued, sends
  <2>3. CASE ~Queued(call.at)
    BY <1>2, <2>1, <2>3 DEF send, AnsweredOk
  <2> QED BY <2>2, <2>3
<1>3. CASE handle_silently \/ handle_request
  BY <1>3 DEF handle_silently, handle_request, Take
<1>4. CASE join_fails \/ crash
  BY <1>4 DEF join_fails, crash
<1> QED BY <1>1, <1>2, <1>3, <1>4 DEF Next

(* The coordinator's work: a job begins with a request, becomes the job of
   the next phase of the same request, or ends. *)
LEMMA JobsStep ==
    ASSUME TypeOK, Next
    PROVE  \/ jobs' = jobs
           \/ handle_request /\ jobs' = jobs \cup {<<"player", Head(tx)>>}
           \/ \E id \in KeygenId : /\ <<"player", id>> \in jobs
                                   /\ jobs' = (jobs \ {<<"player", id>>}) \cup {<<"output", id>>}
           \/ \E id \in SignId : /\ <<"player", id>> \in jobs
                                 /\ jobs' = (jobs \ {<<"player", id>>}) \cup {<<"signer", id>>}
           \/ jobs' \subseteq jobs
<1> USE DEF diskVars, clientVars, workVars, faultVars, keep_front
<1>1. CASE \/ start \/ join \/ join_fails \/ flush \/ save_result \/ save_fails
           \/ send \/ handle_silently \/ crash
           \/ \E id \in Id : \/ submit(id) \/ submit_lookup_fails(id)
                             \/ check_result(id) \/ check_result_fails(id)
  <2>1. jobs' \subseteq jobs
    BY <1>1 DEF start, join, join_fails, flush, save_result, save_fails, send,
                handle_silently, crash, submit, submit_lookup_fails, Check,
                check_result, check_result_fails
  <2> QED BY <2>1
<1>2. CASE handle_request
  BY <1>2 DEF handle_request
<1>3. ASSUME NEW id \in Id,
             \/ keygen_output(id) \/ share_not_saved(id)
             \/ keygen_output_ends(id) \/ offline_output(id) \/ signer_output(id)
      PROVE  \/ jobs' \subseteq jobs
             \/ \E k \in KeygenId : /\ <<"player", k>> \in jobs
                                    /\ jobs' = (jobs \ {<<"player", k>>}) \cup {<<"output", k>>}
             \/ \E k \in SignId : /\ <<"player", k>> \in jobs
                                  /\ jobs' = (jobs \ {<<"player", k>>}) \cup {<<"signer", k>>}
  BY <1>3 DEF keygen_output, share_not_saved, keygen_output_ends, offline_output,
              signer_output
<1> QED BY <1>1, <1>2, <1>3 DEF Next

-----------------------------------------------------------------------------
(* No bad hash gets past sign. *)
LEMMA HashStep ==
    ASSUME TypeOK, HashInv, Next
    PROVE  HashInv'
<1>0. tx \in Seq(Id) /\ tx_res \in Seq([id: Id, status: Status])
  BY DEF TypeOK
<1>1. call' # Idle => call'.id \notin BadHash
  <2>1. CASE \E id \in Id : submit(id) \/ submit_lookup_fails(id)
    BY <2>1 DEF submit, submit_lookup_fails, Check, hash_ok, HashInv
  <2>2. CASE send
    <3>1. call \in [id: Id, at: {1, 2}] /\ call # Idle
      BY <2>2, CallFacts DEF send
    <3>2. call' = [call EXCEPT !.at = 2] \/ call' = Idle
      BY <2>2 DEF send
    <3> QED BY <3>1, <3>2 DEF HashInv
  <2>3. CASE ~send /\ ~\E id \in Id : submit(id) \/ submit_lookup_fails(id)
    <3>1. call' = call \/ call' = Idle
      BY <2>3 DEF Next, start, join, join_fails, flush, save_result, save_fails,
                  handle_silently, handle_request, Take, crash, check_result,
                  check_result_fails, keygen_output, share_not_saved,
                  keygen_output_ends, offline_output, signer_output, keep_front
    <3> QED BY <3>1 DEF HashInv
  <2> QED BY <2>1, <2>2, <2>3
<1>2. Elems(tx)' \cap BadHash = {}
  <2>1. Elems(tx)' \subseteq Elems(tx) \cup (IF call # Idle THEN {call.id} ELSE {})
    <3>1. CASE tx' = tx
      BY <3>1
    <3>2. CASE tx # << >> /\ tx' = Tail(tx)
      BY <1>0, <3>2, TailFacts
    <3>3. CASE tx' = << >>
      BY <3>3, EmptyFacts
    <3>4. CASE call # Idle /\ tx' = Append(tx, call.id)
      BY <1>0, <3>4, AppendFacts, CallFacts
    <3> QED BY <3>1, <3>2, <3>3, <3>4, TxStep
  <2> QED BY <2>1 DEF HashInv
<1>3. \A j \in jobs' : j[2] \notin BadHash
  <2>1. handle_request => Head(tx) \in Elems(tx)
    BY <1>0, TailFacts DEF handle_request, Take
  <2>2. ASSUME NEW id, <<"player", id>> \in jobs
        PROVE  id \notin BadHash
    <3>1. <<"player", id>>[2] = id
      OBVIOUS
    <3> QED BY <2>2, <3>1 DEF HashInv
  <2>3. \A j \in jobs' \ jobs : j[2] \notin BadHash
    <3> SUFFICES ASSUME NEW j \in jobs' \ jobs PROVE j[2] \notin BadHash
      OBVIOUS
    <3>1. \/ handle_request /\ j = <<"player", Head(tx)>>
          \/ \E id : <<"player", id>> \in jobs /\ j \in {<<"output", id>>, <<"signer", id>>}
      BY JobsStep
    <3>2. CASE handle_request /\ j = <<"player", Head(tx)>>
      <4>1. j[2] = Head(tx) /\ Head(tx) \in Elems(tx)
        BY <2>1, <3>2
      <4> QED BY <4>1 DEF HashInv
    <3>3. ASSUME NEW id, <<"player", id>> \in jobs,
                 j \in {<<"output", id>>, <<"signer", id>>}
          PROVE  j[2] \notin BadHash
      <4>1. j[2] = id
        BY <3>3
      <4> QED BY <2>2, <3>3, <4>1
    <3> QED BY <3>1, <3>2, <3>3
  <2> QED BY <2>3 DEF HashInv
<1>4. /\ \A x \in Elems(tx_res)' : x.status # "error"
      /\ \A id \in Id : results_db'[id] # "error" /\ flushed'.results[id] # "error"
  <2>0. \/ UNCHANGED flushed
        \/ flush
    BY DEF Next, start, join, join_fails, save_result, save_fails, submit,
           submit_lookup_fails, Check, send, diskVars,
           handle_silently, handle_request, Take, crash, check_result,
           check_result_fails, keygen_output, share_not_saved,
           keygen_output_ends, offline_output, signer_output, keep_front
  <2>1. \A id \in Id : flushed'.results[id] # "error"
    <3>1. CASE flush
      <4>1. flushed \in [results: [Id -> Status], shares: SUBSET KeygenId]
        BY DEF TypeOK
      <4>2. flushed'.results \in {flushed.results, results_db}
        BY <3>1, <4>1 DEF flush
      <4> QED BY <4>2 DEF HashInv
    <3> QED BY <2>0, <3>1 DEF HashInv
  <2>2. CASE UNCHANGED <<tx_res, results_db>>
    BY <2>1, <2>2 DEF HashInv
  <2>3. ASSUME NEW id \in Id, NEW st \in Status, Sends(id, st),
               tx_res' = Append(tx_res, Response(id, st)), UNCHANGED results_db
        PROVE  \A x \in Elems(tx_res)' : x.status # "error"
    <3>1. st # "error"
      <4>1. <<"player", id>> \in jobs => id \notin BadHash
        <5>1. <<"player", id>>[2] = id
          OBVIOUS
        <5> QED BY <5>1 DEF HashInv
      <4> QED BY <2>3, <4>1 DEF Sends
    <3>2. Elems(tx_res)' = Elems(tx_res) \cup {Response(id, st)}
      BY <2>3, ResponseElems
    <3> QED BY <3>1, <3>2 DEF HashInv, Response
  <2>4. CASE save_result \/ save_fails
    <3>1. tx_res # << >> /\ tx_res' = Tail(tx_res)
      BY <2>4 DEF save_result, save_fails
    <3>2. Elems(tx_res)' \subseteq Elems(tx_res) /\ Head(tx_res) \in Elems(tx_res)
      BY <1>0, <3>1, TailFacts
    <3>3. \A id \in Id : results_db'[id] # "error"
      <4>1. \/ results_db' = results_db
            \/ results_db' = [results_db EXCEPT ![Head(tx_res).id] = Head(tx_res).status]
        BY <2>4 DEF save_result, save_fails, diskVars
      <4> QED BY <3>2, <4>1 DEF HashInv, TypeOK
    <3> QED BY <2>1, <3>2, <3>3 DEF HashInv
  <2>5. CASE crash
    <3>1. tx_res' = << >> /\ results_db' = flushed.results
      BY <2>5 DEF crash
    <3> QED BY <2>1, <3>1, EmptyFacts DEF HashInv
  <2> QED BY <2>1, <2>2, <2>3, <2>4, <2>5, ResponseStep DEF HashInv
<1> QED BY <1>1, <1>2, <1>3, <1>4 DEF HashInv

-----------------------------------------------------------------------------
(* A share is stored before its keygen is announced. *)
LEMMA ShareStep ==
    ASSUME TypeOK, ShareInv, Next
    PROVE  ShareInv'
<1> USE DEF diskVars, clientVars, workVars, faultVars, keep_front
<1>0. tx_res \in Seq([id: Id, status: Status])
  BY DEF TypeOK
<1>1. \A id \in Id : <<"signer", id>> \in jobs' => id \in SignId
  <2> SUFFICES ASSUME NEW id \in Id, <<"signer", id>> \in jobs', <<"signer", id>> \notin jobs
               PROVE  id \in SignId
    BY DEF ShareInv
  <2>1. PICK k \in SignId : <<"signer", k>> = <<"signer", id>>
    <3> DEFINE j == <<"signer", id>>
    <3>1. /\ j # <<"player", Head(tx)>> /\ \A k \in KeygenId : j # <<"output", k>>
          /\ j \in jobs' /\ j \notin jobs
      OBVIOUS
    <3> HIDE DEF j
    <3>2. \E k \in SignId : j = <<"signer", k>>
      BY <3>1, JobsStep
    <3> QED BY <3>2 DEF j
  <2>2. <<"signer", k>>[2] = k /\ <<"signer", id>>[2] = id
    OBVIOUS
  <2> QED BY <2>1, <2>2
<1>2. ASSUME "crash" \notin happened', NEW id \in KeygenId \ unsaved', Announced(id)'
      PROVE  id \in shares'
  <2>0. id \in Id /\ id \notin SignId
    BY <1>2, RequestApiAssumption DEF Id
  <2>1. "crash" \notin happened /\ ~crash
    <3>1. happened \subseteq happened'
      BY FaultStep
    <3>2. crash => "crash" \in happened'
      BY DEF crash, Fault
    <3> QED BY <1>2, <3>1, <3>2
  <2>2. unsaved \subseteq unsaved' /\ shares \subseteq shares'
    BY <2>1 DEF Next, start, join, join_fails, save_result, save_fails, submit,
           submit_lookup_fails, Check, send, handle_silently, handle_request,
           Take, check_result, check_result_fails, flush, keygen_output,
           share_not_saved, keygen_output_ends, offline_output, signer_output,
           save_then_done, SaveShare, SendDone
  <2>3. Announced(id) => id \in shares'
    BY <1>2, <2>1, <2>2 DEF ShareInv
  <2>4. CASE results_db'[id] = "done"
    <3>1. CASE UNCHANGED results_db
      BY <2>3, <2>4, <3>1 DEF Announced
    <3>2. CASE save_result
      <4>1. tx_res # << >>
            /\ results_db' = [results_db EXCEPT ![Head(tx_res).id] = Head(tx_res).status]
        BY <3>2 DEF save_result
      <4>2. Head(tx_res) \in Elems(tx_res) /\ Head(tx_res) \in [id: Id, status: Status]
        BY <1>0, <4>1, TailFacts
      <4>3. results_db[id] = "done" \/ Head(tx_res) = [id |-> id, status |-> "done"]
        BY <2>0, <2>4, <4>1, <4>2 DEF TypeOK
      <4> QED BY <2>3, <4>2, <4>3 DEF Announced
    <3>3. UNCHANGED results_db \/ save_result
      BY <2>1, ResponseStep DEF save_fails
    <3> QED BY <3>1, <3>2, <3>3
  <2>5. CASE seen'[id] = "done"
    <3>1. seen'[id] \in {seen[id], results_db[id], "none"}
      BY <2>0 DEF TypeOK, Next, start, join, join_fails, save_result, save_fails,
           submit, submit_lookup_fails, Check, send, handle_silently,
           handle_request, Take, check_result, check_result_fails, flush,
           keygen_output, share_not_saved, keygen_output_ends, offline_output,
           signer_output, crash
    <3> QED BY <2>3, <2>5, <3>1 DEF Announced
  <2>6. CASE [id |-> id, status |-> "done"] \in Elems(tx_res)'
    <3> DEFINE d == [id |-> id, status |-> "done"]
    <3>1. CASE d \in Elems(tx_res)
      BY <2>3, <3>1 DEF Announced
    <3>2. ASSUME NEW k \in Id, NEW st \in Status, Sends(k, st),
                 tx_res' = Append(tx_res, Response(k, st))
          PROVE  id \in shares'
      <4>1. d \in Elems(tx_res) \/ d = Response(k, st)
        BY <2>6, <3>2, ResponseElems
      <4>2. CASE d = Response(k, st)
        <5>1. k = id /\ st = "done"
          BY <4>2 DEF Response
        <5>2. <<"signer", id>> \notin jobs
          BY <2>0 DEF ShareInv
        <5>3. <<"output", id>> \in jobs
          BY <3>2, <5>1, <5>2 DEF Sends
        <5> QED BY <2>3, <5>3 DEF Announced
      <4> QED BY <3>1, <4>1, <4>2
    <3>3. CASE save_result \/ save_fails
      <4>1. tx_res # << >> /\ tx_res' = Tail(tx_res)
        BY <3>3 DEF save_result, save_fails
      <4>2. d \in Elems(tx_res)
        BY <1>0, <2>6, <4>1, TailFacts DEF Elems
      <4> QED BY <3>1, <4>2
    <3>4. CASE UNCHANGED tx_res
      BY <2>6, <3>1, <3>4 DEF Elems
    <3> QED BY <2>1, <3>2, <3>3, <3>4, ResponseStep
  <2>7. CASE <<"output", id>> \in jobs'
    <3>1. CASE <<"output", id>> \in jobs
      BY <2>3, <3>1 DEF Announced
    <3>2. CASE <<"output", id>> \notin jobs
      <4>1. PICK k \in KeygenId : /\ <<"output", k>> = <<"output", id>>
                                  /\ jobs' = (jobs \ {<<"player", k>>}) \cup {<<"output", k>>}
                                  /\ keygen_output(k) \/ share_not_saved(k)
        <5>1. \A k \in Id : keygen_output(k) \/ share_not_saved(k) =>
                /\ k \in KeygenId
                /\ jobs' = (jobs \ {<<"player", k>>}) \cup {<<"output", k>>}
          BY DEF keygen_output, share_not_saved
        <5>2. \E k \in Id : keygen_output(k) \/ share_not_saved(k)
          <6> SUFFICES ASSUME ~\E k \in Id : keygen_output(k) \/ share_not_saved(k)
                       PROVE  <<"output", id>> \notin jobs'
            BY <2>7
          <6>1. CASE handle_request
            BY <3>2, <6>1 DEF handle_request
          <6>2. CASE \E k \in Id : keygen_output_ends(k) \/ offline_output(k) \/ signer_output(k)
            BY <3>2, <6>2 DEF keygen_output_ends, offline_output, signer_output
          <6>3. CASE jobs' \subseteq jobs
            BY <3>2, <6>3
          <6>4. handle_request \/ jobs' \subseteq jobs
                \/ \E k \in Id : keygen_output_ends(k) \/ offline_output(k) \/ signer_output(k)
            BY DEF Next, start, join, join_fails, save_result, save_fails,
               submit, submit_lookup_fails, Check, send, handle_silently,
               check_result, check_result_fails, flush, crash
          <6> QED BY <6>1, <6>2, <6>3, <6>4
        <5> QED BY <2>7, <3>2, <5>1, <5>2
      <4>2. keygen_output(id) \/ share_not_saved(id)
        BY <4>1
      <4> QED BY <1>2, <4>2 DEF keygen_output, save_then_done, SaveShare, share_not_saved
    <3> QED BY <3>1, <3>2
  <2> QED BY <1>2, <2>4, <2>5, <2>6, <2>7 DEF Announced
<1> QED BY <1>1, <1>2 DEF ShareInv

-----------------------------------------------------------------------------
(* How often a request is in the queue. *)

Occurrences(s, id) == {x \in DOMAIN s : s[x] = id}

(* A queue holds an id finitely often. *)
LEMMA FiniteOccurrences ==
    ASSUME NEW A, NEW s \in Seq(A), NEW id
    PROVE  IsFiniteSet(Occurrences(s, id)) /\ Cardinality(Occurrences(s, id)) \in Nat
<1>1. Occurrences(s, id) \subseteq 1..Len(s) /\ Len(s) \in Nat
  BY DEF Occurrences
<1>2. IsFiniteSet(1..Len(s))
  BY <1>1, FS_Interval
<1>3. IsFiniteSet(Occurrences(s, id))
  BY <1>1, <1>2, FS_Subset
<1> QED BY <1>3, FS_CardinalityType

(* Appending an id counts once. *)
LEMMA CountAppend ==
    ASSUME NEW A, NEW s \in Seq(A), NEW a \in A, NEW id
    PROVE  Cardinality(Occurrences(Append(s, a), id))
             = Cardinality(Occurrences(s, id)) + (IF a = id THEN 1 ELSE 0)
<1> DEFINE C == Occurrences(s, id)
           n == Len(s) + 1
<1>1. Occurrences(Append(s, a), id) = IF a = id THEN C \cup {n} ELSE C
  BY AppendFacts DEF Occurrences
<1>2. n \notin C
  BY AppendFacts DEF Occurrences
<1>3. IsFiniteSet(C) /\ Cardinality(C) \in Nat
  BY FiniteOccurrences
<1> HIDE DEF C, n
<1>4. Cardinality(C \cup {n}) = Cardinality(C) + 1
  BY <1>2, <1>3, FS_AddElement
<1>5. CASE a = id
  BY <1>1, <1>4, <1>5 DEF C
<1>6. CASE a # id
  BY <1>1, <1>3, <1>6 DEF C
<1> QED BY <1>5, <1>6

(* Taking an id off counts once. *)
LEMMA CountTail ==
    ASSUME NEW A, NEW s \in Seq(A), s # << >>, NEW id
    PROVE  Cardinality(Occurrences(s, id))
             = Cardinality(Occurrences(Tail(s), id)) + (IF Head(s) = id THEN 1 ELSE 0)
<1> DEFINE C == Occurrences(s, id)
           T == Occurrences(Tail(s), id)
           shift == [x \in T |-> x + 1]
<1>1. \A x \in T : x \in Nat /\ x + 1 \in C \ {1}
  <2> SUFFICES ASSUME NEW x \in T PROVE x \in Nat /\ x + 1 \in C \ {1}
    OBVIOUS
  <2>1. x \in DOMAIN Tail(s) /\ Tail(s)[x] = id /\ DOMAIN Tail(s) = 1..Len(Tail(s))
    BY TailFacts DEF Occurrences
  <2>2. x \in Nat \ {0} /\ x + 1 \in DOMAIN s /\ s[x + 1] = id
    BY <2>1, TailFacts
  <2> QED BY <2>2 DEF Occurrences
<1>2. \A y \in C \ {1} : \E x \in T : x + 1 = y
  <2> SUFFICES ASSUME NEW y \in C \ {1} PROVE \E x \in T : x + 1 = y
    OBVIOUS
  <2>1. y \in DOMAIN s /\ s[y] = id /\ y # 1 /\ DOMAIN s = 1..Len(s)
    BY DEF Occurrences
  <2>2. y - 1 \in DOMAIN Tail(s) /\ y \in Nat
    BY <2>1, TailFacts
  <2>3. Tail(s)[y - 1] = s[(y - 1) + 1]
    BY <2>2, TailFacts
  <2> QED BY <2>1, <2>2, <2>3 DEF Occurrences
<1>3. IsFiniteSet(C) /\ IsFiniteSet(T) /\ Cardinality(C) \in Nat /\ Cardinality(T) \in Nat
  <2>1. Tail(s) \in Seq(A)
    BY TailFacts
  <2> QED BY <2>1, FiniteOccurrences
<1>4. 1 \in C <=> Head(s) = id
  BY TailFacts DEF Occurrences
<1> HIDE DEF C, T
<1>5. ExistsBijection(T, C \ {1})
  <2>1. shift \in [T -> C \ {1}] /\ \A x \in T : shift[x] = x + 1
    BY <1>1
  <2>2. \A x, y \in T : shift[x] = shift[y] => x = y
    BY <1>1, <2>1
  <2>3. \A y \in C \ {1} : \E x \in T : shift[x] = y
    BY <1>2, <2>1
  <2> HIDE DEF shift
  <2>4. shift \in Bijection(T, C \ {1})
    BY <2>1, <2>2, <2>3 DEF Bijection, Injection, Surjection, IsInjective
  <2> QED BY <2>4 DEF ExistsBijection
<1>6. Cardinality(C \ {1}) = Cardinality(T)
  BY <1>3, <1>5, FS_Bijection
<1>7. Cardinality(C \ {1}) = IF 1 \in C THEN Cardinality(C) - 1 ELSE Cardinality(C)
  BY <1>3, FS_RemoveElement
<1>8. CASE Head(s) = id
  BY <1>3, <1>4, <1>6, <1>7, <1>8 DEF C, T
<1>9. CASE Head(s) # id
  BY <1>3, <1>4, <1>6, <1>7, <1>9 DEF C, T
<1> QED BY <1>8, <1>9

(* Every step keeps RunsAsAnswered. *)
LEMMA RunsStep ==
    ASSUME TypeOK, RunsAsAnswered, Next
    PROVE  RunsAsAnswered'
<1> SUFFICES ASSUME NEW id \in Id
             PROVE  offered'[id] + InQueue(id)' <= oks'[id]
  BY DEF RunsAsAnswered
<1> DEFINE n == InQueue(id)
<1>1. /\ tx \in Seq(Id) /\ offered \in [Id -> Nat] /\ oks \in [Id -> Nat]
      /\ offered[id] \in Nat /\ oks[id] \in Nat
  BY DEF TypeOK
<1>2. n = Cardinality(Occurrences(tx, id)) /\ n' = Cardinality(Occurrences(tx', id))
  BY DEF InQueue, Occurrences
<1>3. n \in Nat
  BY <1>1, <1>2, FiniteOccurrences
<1>4. offered[id] + n <= oks[id]
  BY DEF RunsAsAnswered
<1> HIDE DEF n
<1> SUFFICES offered'[id] + n' <= oks'[id]
  BY DEF n
<1>5. CASE tx' = tx /\ UNCHANGED <<oks, offered>>
  BY <1>2, <1>4, <1>5
<1>6. CASE tx' = tx /\ send /\ UNCHANGED offered /\ oks' = [oks EXCEPT ![call.id] = @ + 1]
  <2>1. n' = n /\ oks'[id] \in {oks[id], oks[id] + 1}
    BY <1>1, <1>2, <1>6
  <2> QED BY <1>1, <1>3, <1>4, <1>6, <2>1
<1>7. CASE /\ call # Idle /\ tx' = Append(tx, call.id)
           /\ oks' = [oks EXCEPT ![call.id] = @ + 1] /\ UNCHANGED offered
  <2>1. call.id \in Id
    BY <1>7, CallFacts
  <2>2. n' = n + (IF call.id = id THEN 1 ELSE 0)
    BY <1>1, <1>2, <1>7, <2>1, CountAppend
  <2>3. oks'[id] = oks[id] + (IF call.id = id THEN 1 ELSE 0)
    BY <1>1, <1>7, <2>1
  <2>4. offered'[id] = offered[id]
    BY <1>7
  <2> QED BY <1>1, <1>3, <1>4, <2>2, <2>3, <2>4
<1>8. CASE /\ tx # << >> /\ tx' = Tail(tx)
           /\ offered' = [offered EXCEPT ![Head(tx)] = @ + 1] /\ UNCHANGED oks
  <2>1. Head(tx) \in Id /\ Tail(tx) \in Seq(Id)
    BY <1>1, <1>8, TailFacts
  <2>2. n = n' + (IF Head(tx) = id THEN 1 ELSE 0) /\ n' \in Nat
    BY <1>1, <1>2, <1>8, <2>1, CountTail, FiniteOccurrences
  <2>3. offered'[id] = offered[id] + (IF Head(tx) = id THEN 1 ELSE 0)
    <3> DEFINE h == Head(tx)
    <3>1. offered' = [offered EXCEPT ![h] = @ + 1] /\ h \in Id
      BY <1>8, <2>1
    <3> HIDE DEF h
    <3>2. offered'[id] = offered[id] + (IF h = id THEN 1 ELSE 0)
      BY <1>1, <3>1
    <3> QED BY <3>2 DEF h
  <2>4. oks'[id] = oks[id]
    BY <1>8
  <2> QED BY <1>1, <1>3, <1>4, <2>2, <2>3, <2>4
<1>9. CASE tx' = << >> /\ UNCHANGED <<oks, offered>>
  <2>1. Occurrences(tx', id) = {}
    BY <1>9 DEF Occurrences
  <2>2. n' = 0
    BY <1>2, <2>1, FS_EmptySet
  <2> QED BY <1>1, <1>3, <1>4, <1>9, <2>2
<1> QED BY <1>5, <1>6, <1>7, <1>8, <1>9, TxStep

-----------------------------------------------------------------------------
(* The order of the statuses. *)

(* The responses in a queue are well formed. *)
LEMMA ElemsOfQueue ==
    ASSUME NEW q \in TxRes
    PROVE  /\ \A x \in Elems(q) : x.id \in Id /\ x.status \in Status
           /\ DOMAIN q = 1..Len(q) /\ Len(q) \in Nat
<1> DEFINE R == [id: Id, status: Status]
<1>1. q \in Seq(R)
  BY DEF TxRes
<1>2. \A x \in R : x.id \in Id /\ x.status \in Status
  OBVIOUS
<1> HIDE DEF R
<1>3. DOMAIN q = 1..Len(q) /\ Len(q) \in Nat /\ \A i \in DOMAIN q : q[i] \in R
  BY <1>1
<1> QED BY <1>2, <1>3 DEF Elems

(* A higher cap allows what a lower one does. *)
LEMMA CapGrows ==
    ASSUME NEW id, NEW k \in Nat, NEW m \in Nat, k <= m, TypeOK, id \in Id, Cap(id, k)
    PROVE  Cap(id, m)
<1>1. Rank[results_db[id]] \in 0..3
  BY RankFacts DEF TypeOK
<1>2. \A x \in Elems(tx_res) : Rank[x.status] \in 0..3
  <2>1. tx_res \in TxRes
    BY DEF TypeOK, TxRes
  <2>2. \A x \in Elems(tx_res) : x.status \in Status
    BY <2>1, ElemsOfQueue
  <2> QED BY <2>2, RankFacts
<1> QED BY <1>1, <1>2 DEF Cap

(* What is sent is not behind what was sent before. *)
LEMMA SendsInOrder ==
    ASSUME TypeOK, NEW id \in Id, NEW st \in Status, Stage(id), Sends(id, st)
    PROVE  Cap(id, Rank[st])
<1>1. CASE InCall(id, 1) /\ st = "received"
  BY <1>1, CapGrows, RankFacts DEF Stage
<1>2. CASE InTx(id) /\ st = "processing"
  BY <1>2, CapGrows, RankFacts DEF Stage
<1>3. CASE InJobs(id) /\ st \in {"processing", "done", "error"}
  <2>1. Cap(id, 2)
    BY <1>3 DEF Stage
  <2>2. Rank[st] \in Nat /\ 2 <= Rank[st]
    BY <1>3, RankFacts
  <2> QED BY <2>1, <2>2, CapGrows
<1>4. \A what : <<what, id>> \in jobs => InJobs(id)
  <2> SUFFICES ASSUME NEW what, <<what, id>> \in jobs PROVE InJobs(id)
    OBVIOUS
  <2>1. <<what, id>>[2] = id
    OBVIOUS
  <2> QED BY <2>1 DEF InJobs
<1> QED BY <1>1, <1>2, <1>3, <1>4 DEF Sends

(* A cap holds on until something above it is sent. *)
LEMMA CapKeeps ==
    ASSUME TypeOK, Next, ~crash, NEW id \in Id, NEW k \in Nat, Cap(id, k),
           \A st \in Status : Sends(id, st) => Rank[st] <= k
    PROVE  Cap(id, k)'
<1>0. tx_res \in Seq([id: Id, status: Status])
  BY DEF TypeOK
<1>1. CASE UNCHANGED <<tx_res, results_db>>
  BY <1>1 DEF Cap, Elems
<1>2. ASSUME NEW i \in Id, NEW st \in Status, Sends(i, st), UNCHANGED results_db,
             tx_res' = Append(tx_res, Response(i, st))
      PROVE  Cap(id, k)'
  <2>1. Elems(tx_res)' = Elems(tx_res) \cup {Response(i, st)}
    BY <1>2, ResponseElems
  <2>2. Response(i, st).id = i /\ Response(i, st).status = st
    BY DEF Response
  <2>3. i = id => Rank[st] <= k
    BY <1>2
  <2> QED BY <1>2, <2>1, <2>2, <2>3 DEF Cap
<1>3. CASE save_result \/ save_fails
  <2>1. tx_res # << >> /\ tx_res' = Tail(tx_res)
    BY <1>3 DEF save_result, save_fails
  <2>2. /\ Elems(tx_res)' \subseteq Elems(tx_res) /\ Head(tx_res) \in Elems(tx_res)
        /\ Head(tx_res) \in [id: Id, status: Status]
    <3> DEFINE R == [id: Id, status: Status]
    <3>1. tx_res \in Seq(R)
      BY <1>0
    <3> HIDE DEF R
    <3>2. /\ Elems(Tail(tx_res)) \subseteq Elems(tx_res)
          /\ Head(tx_res) \in Elems(tx_res) /\ Head(tx_res) \in R
      BY <2>1, <3>1, TailFacts
    <3> QED BY <2>1, <3>2 DEF R, Elems
  <2>3. results_db'[id] = results_db[id]
        \/ (Head(tx_res).id = id /\ results_db'[id] = Head(tx_res).status)
    <3>1. results_db \in [Id -> Status]
      BY DEF TypeOK
    <3>2. CASE save_result
      BY <2>2, <3>1, <3>2 DEF save_result
    <3>3. CASE save_fails
      BY <3>3 DEF save_fails, diskVars
    <3> QED BY <1>3, <3>2, <3>3
  <2> QED BY <2>2, <2>3 DEF Cap
<1> QED BY <1>1, <1>2, <1>3, ResponseStep

(* Every step keeps the responses of an id in order. *)
LEMMA OrderedKeeps ==
    ASSUME TypeOK, Next, NEW id \in Id, Stage(id), Ordered(id)
    PROVE  Ordered(id)'
<1>0. tx_res \in Seq([id: Id, status: Status])
  BY DEF TypeOK
<1>1. CASE UNCHANGED <<tx_res, results_db>>
  BY <1>1 DEF Ordered
<1>2. ASSUME NEW i \in Id, NEW st \in Status, Sends(i, st), UNCHANGED results_db,
             tx_res' = Append(tx_res, Response(i, st))
      PROVE  Ordered(id)'
  <2> DEFINE R == [id: Id, status: Status]
             x == Response(i, st)
             n == Len(tx_res) + 1
  <2>1. tx_res \in Seq(R) /\ x \in R /\ x.id = i /\ x.status = st
    BY ResponseType DEF TypeOK, Response
  <2>2. tx_res' = Append(tx_res, x)
    BY <1>2
  <2>3. i = id => Cap(id, Rank[st])
    BY <1>2, SendsInOrder
  <2> HIDE DEF R, x
  <2>4. /\ DOMAIN tx_res' = DOMAIN tx_res \cup {n}
        /\ \A j \in DOMAIN tx_res : tx_res'[j] = tx_res[j] /\ j <= Len(tx_res)
        /\ tx_res'[n] = x
    BY <2>1, <2>2, AppendFacts
  <2>5. /\ Len(tx_res) \in Nat /\ DOMAIN tx_res = 1..Len(tx_res)
        /\ \A j \in DOMAIN tx_res : tx_res[j] \in Elems(tx_res)
    BY <1>0 DEF Elems
  <2> SUFFICES ASSUME NEW y \in DOMAIN tx_res', tx_res'[y].id = id
               PROVE  /\ Rank[results_db[id]] <= Rank[tx_res'[y].status]
                      /\ \A z \in 1..y : tx_res'[z].id = id =>
                           Rank[tx_res'[z].status] <= Rank[tx_res'[y].status]
    BY <1>2 DEF Ordered
  <2>6. CASE y \in DOMAIN tx_res
    <3>1. 1..y \subseteq DOMAIN tx_res
      BY <2>5, <2>6
    <3>2. tx_res'[y] = tx_res[y] /\ \A z \in 1..y : tx_res'[z] = tx_res[z]
      BY <2>4, <2>6, <3>1
    <3> QED BY <2>6, <3>2 DEF Ordered
  <2>7. CASE y = n
    <3>1. tx_res'[y] = x /\ i = id
      BY <2>1, <2>4, <2>7
    <3>2. \A z \in 1..y : z \in DOMAIN tx_res \/ z = n
      BY <2>5, <2>7
    <3>3. \A z \in DOMAIN tx_res : tx_res'[z] = tx_res[z] /\ tx_res[z] \in Elems(tx_res)
      BY <2>4, <2>5
    <3>4. Rank[results_db[id]] <= Rank[x.status]
      BY <2>1, <2>3, <3>1 DEF Cap
    <3>5. Rank[x.status] <= Rank[x.status]
      BY <2>1, RankFacts
    <3>6. ASSUME NEW z \in 1..y, tx_res'[z].id = id
          PROVE  Rank[tx_res'[z].status] <= Rank[x.status]
      BY <2>1, <2>3, <2>4, <3>1, <3>2, <3>3, <3>5, <3>6 DEF Cap
    <3> QED BY <3>1, <3>4, <3>6
  <2> QED BY <2>4, <2>6, <2>7
<1>3. CASE save_result \/ save_fails
  <2>1. tx_res # << >> /\ tx_res' = Tail(tx_res)
    BY <1>3 DEF save_result, save_fails
  <2>2. /\ \A y \in DOMAIN tx_res' : /\ y \in Nat /\ y + 1 \in DOMAIN tx_res
                                     /\ tx_res'[y] = tx_res[y + 1]
        /\ Head(tx_res) = tx_res[1] /\ Head(tx_res) \in [id: Id, status: Status]
        /\ DOMAIN tx_res' = 1..Len(tx_res')
    <3> DEFINE R == [id: Id, status: Status]
    <3>1. tx_res \in Seq(R)
      BY <1>0
    <3> HIDE DEF R
    <3>2. Tail(tx_res) \in Seq(R) /\ Head(tx_res) = tx_res[1] /\ Head(tx_res) \in R
      BY <2>1, <3>1, TailFacts
    <3>3. \A y \in DOMAIN Tail(tx_res) : /\ y \in Nat /\ y + 1 \in DOMAIN tx_res
                                          /\ Tail(tx_res)[y] = tx_res[y + 1]
      BY <2>1, <3>1, TailFacts
    <3> QED BY <2>1, <3>2, <3>3 DEF R
  <2>3. results_db'[id] = results_db[id]
        \/ (tx_res[1].id = id /\ results_db'[id] = tx_res[1].status)
    <3>1. results_db \in [Id -> Status]
      BY DEF TypeOK
    <3>2. CASE save_result
      BY <2>2, <3>1, <3>2 DEF save_result
    <3>3. CASE save_fails
      BY <3>3 DEF save_fails, diskVars
    <3> QED BY <1>3, <3>2, <3>3
  <2> SUFFICES ASSUME NEW y \in DOMAIN tx_res', tx_res'[y].id = id
               PROVE  /\ Rank[results_db'[id]] <= Rank[tx_res'[y].status]
                      /\ \A z \in 1..y : tx_res'[z].id = id =>
                           Rank[tx_res'[z].status] <= Rank[tx_res'[y].status]
    BY DEF Ordered
  <2>4. /\ y + 1 \in DOMAIN tx_res /\ tx_res'[y] = tx_res[y + 1] /\ y \in Nat
        /\ 1 \in 1..(y + 1)
    BY <2>2
  <2>5. Rank[results_db'[id]] <= Rank[tx_res'[y].status]
    <3>1. Rank[results_db[id]] <= Rank[tx_res'[y].status]
      BY <2>4 DEF Ordered
    <3>2. tx_res[1].id = id => Rank[tx_res[1].status] <= Rank[tx_res'[y].status]
      BY <2>4 DEF Ordered
    <3> QED BY <2>3, <3>1, <3>2
  <2>6. ASSUME NEW z \in 1..y, tx_res'[z].id = id
        PROVE  Rank[tx_res'[z].status] <= Rank[tx_res'[y].status]
    <3>1. z \in DOMAIN tx_res' /\ z + 1 \in 1..(y + 1)
      BY <2>2, <2>4
    <3>2. tx_res'[z] = tx_res[z + 1]
      BY <2>2, <3>1
    <3> QED BY <2>4, <2>6, <3>1, <3>2 DEF Ordered
  <2> QED BY <2>5, <2>6
<1>4. CASE crash
  <2>1. tx_res' = << >>
    BY <1>4 DEF crash
  <2> QED BY <2>1 DEF Ordered
<1> QED BY <1>1, <1>2, <1>3, <1>4, ResponseStep

(* What a step does to the call the gRPC thread is in. *)
LEMMA CallStep ==
    ASSUME TypeOK, Next, ~crash
    PROVE  \/ call' = call /\ accepted' = accepted /\ ~send
           \/ \E k \in Id : /\ call = Idle /\ call' = [id |-> k, at |-> 1]
                            /\ accepted' = [accepted EXCEPT ![k] = @ + 1]
                            /\ UNCHANGED <<results_db, flushed, tx, tx_res, jobs>>
           \/ /\ send /\ call # Idle /\ accepted' = accepted
              /\ UNCHANGED <<results_db, flushed, jobs>>
              /\ \/ call.at = 1 /\ call' = [call EXCEPT !.at = 2] /\ tx' = tx
                 \/ /\ call.at = 2 /\ call' = Idle /\ UNCHANGED tx_res
                    /\ tx' = tx \/ tx' = Append(tx, call.id)
<1> USE DEF diskVars, clientVars, workVars, faultVars, keep_front
<1>1. CASE send
  <2>1. call.at \in {1, 2} /\ call # Idle
    BY <1>1, CallFacts DEF send
  <2>2. CASE call.at = 1
    BY <1>1, <2>1, <2>2 DEF send, Queued, sends
  <2>3. CASE call.at = 2
    BY <1>1, <2>1, <2>3 DEF send, Queued, sends
  <2> QED BY <2>1, <2>2, <2>3
<1>2. CASE ~send /\ \E k \in Id : submit(k) \/ submit_lookup_fails(k)
  BY <1>2 DEF submit, submit_lookup_fails, Check
<1>3. CASE ~send /\ ~\E k \in Id : submit(k) \/ submit_lookup_fails(k)
  BY <1>3 DEF Next, start, join, join_fails, flush, save_result, save_fails,
              handle_silently, handle_request, Take, check_result,
              check_result_fails, keygen_output, share_not_saved,
              keygen_output_ends, offline_output, signer_output
<1> QED BY <1>1, <1>2, <1>3

(* The jobs of one request: only a request that is taken starts one, a
   request has no more than one, and the last status ends it. *)
LEMMA JobsOfStep ==
    ASSUME TypeOK, Next, NEW id \in Id,
           \A j, k \in jobs : j[2] = id /\ k[2] = id => j = k
    PROVE  /\ InJobs(id)' => InJobs(id) \/ (handle_request /\ id = Head(tx))
           /\ ~InJobs(id) \/ ~(handle_request /\ id = Head(tx)) =>
                (\A j, k \in jobs' : j[2] = id /\ k[2] = id => j = k)
           /\ \/ keygen_output_ends(id) \/ signer_output(id)
              \/ offline_output(id) /\ id \in BadHash
              => ~InJobs(id)'
<1>0. \A a, b : <<a, b>>[2] = b
  OBVIOUS
<1> DEFINE unique == \A j, k \in jobs : j[2] = id /\ k[2] = id => j = k
           began == handle_request /\ id = Head(tx)
<1>1. ASSUME jobs' \subseteq jobs
      PROVE  (InJobs(id)' => InJobs(id)) /\ unique'
  BY <1>1 DEF InJobs
<1>2. ASSUME handle_request, jobs' = jobs \cup {<<"player", Head(tx)>>}
      PROVE  (InJobs(id)' => InJobs(id) \/ began) /\ (~InJobs(id) \/ ~began => unique')
  <2> DEFINE job == <<"player", Head(tx)>>
  <2>1. job[2] = Head(tx) /\ jobs' = jobs \cup {job}
    BY <1>0, <1>2
  <2> HIDE DEF job
  <2>2. InJobs(id)' => InJobs(id) \/ id = Head(tx)
    BY <2>1 DEF InJobs
  <2>3. ASSUME ~InJobs(id) \/ id # Head(tx)
        PROVE  \A j, k \in jobs' : j[2] = id /\ k[2] = id => j = k
    BY <2>1, <2>3 DEF InJobs
  <2> QED BY <1>2, <2>2, <2>3
<1>3. ASSUME NEW k, NEW new, <<"player", k>> \in jobs,
             jobs' = (jobs \ {<<"player", k>>}) \cup {<<new, k>>}
      PROVE  /\ InJobs(id)' => InJobs(id)
             /\ \A i, j \in jobs' : i[2] = id /\ j[2] = id => i = j
  <2> DEFINE old == <<"player", k>>
             job == <<new, k>>
  <2>1. old[2] = k /\ job[2] = k
    BY <1>0
  <2>2. old \in jobs /\ jobs' = (jobs \ {old}) \cup {job}
    BY <1>3
  <2> HIDE DEF old, job
  <2> QED BY <2>1, <2>2 DEF InJobs
<1>4. ASSUME NEW what, <<what, id>> \in jobs, jobs' = jobs \ {<<what, id>>}
      PROVE  ~InJobs(id)'
  <2> DEFINE old == <<what, id>>
  <2>1. old \in jobs /\ jobs' = jobs \ {old} /\ old[2] = id
    BY <1>0, <1>4
  <2> HIDE DEF old
  <2> QED BY <2>1 DEF InJobs
<1>5. \/ keygen_output_ends(id) \/ signer_output(id)
      \/ offline_output(id) /\ id \in BadHash
      => ~InJobs(id)'
  <2>1. keygen_output_ends(id) => <<"output", id>> \in jobs /\ jobs' = jobs \ {<<"output", id>>}
    BY DEF keygen_output_ends
  <2>2. signer_output(id) => <<"signer", id>> \in jobs /\ jobs' = jobs \ {<<"signer", id>>}
    BY DEF signer_output
  <2>3. offline_output(id) /\ id \in BadHash =>
          <<"player", id>> \in jobs /\ jobs' = jobs \ {<<"player", id>>}
    BY DEF offline_output
  <2> QED BY <1>4, <2>1, <2>2, <2>3
<1>6. ASSUME \E k : /\ <<"player", k>> \in jobs
                    /\ \E new : jobs' = (jobs \ {<<"player", k>>}) \cup {<<new, k>>}
      PROVE  (InJobs(id)' => InJobs(id)) /\ unique'
  BY <1>3, <1>6
<1> HIDE DEF unique, began
<1>7. \/ jobs' \subseteq jobs
      \/ handle_request /\ jobs' = jobs \cup {<<"player", Head(tx)>>}
      \/ \E k : /\ <<"player", k>> \in jobs
               /\ \E new : jobs' = (jobs \ {<<"player", k>>}) \cup {<<new, k>>}
  BY JobsStep
<1>8. /\ InJobs(id)' => InJobs(id) \/ began
      /\ ~InJobs(id) \/ ~began => unique'
  BY <1>1, <1>2, <1>6, <1>7
<1> QED BY <1>5, <1>8 DEF unique, began

(* The place of one request in the queue, while the gRPC thread does not send. *)
LEMMA TxOfStep ==
    ASSUME TypeOK, Next, ~send, NEW id \in Id,
           \A x, y \in DOMAIN tx : tx[x] = id /\ tx[y] = id => x = y
    PROVE  /\ InTx(id)' => InTx(id)
           /\ \A x, y \in DOMAIN tx' : tx'[x] = id /\ tx'[y] = id => x = y
           /\ handle_request /\ id = Head(tx) => InTx(id) /\ ~InTx(id)'
<1>0. tx \in Seq(Id)
  BY DEF TypeOK
<1>1. CASE tx # << >> /\ tx' = Tail(tx)
  <2>1. \A i \in DOMAIN tx' : /\ i \in Nat /\ i + 1 \in DOMAIN tx
                             /\ tx'[i] = tx[i + 1] /\ i # 0
    <3>1. DOMAIN Tail(tx) = 1..Len(Tail(tx))
      BY <1>0, <1>1, TailFacts
    <3> QED BY <1>0, <1>1, <3>1, TailFacts
  <2>2. Head(tx) = tx[1] /\ 1 \in DOMAIN tx
    BY <1>0, <1>1, TailFacts
  <2>3. \A x, y \in DOMAIN tx' : tx'[x] = id /\ tx'[y] = id => x = y
    <3> SUFFICES ASSUME NEW x \in DOMAIN tx', NEW y \in DOMAIN tx', tx'[x] = id, tx'[y] = id
                 PROVE  x = y
      OBVIOUS
    <3>1. x + 1 = y + 1 /\ x \in Nat /\ y \in Nat
      BY <2>1
    <3> QED BY <3>1
  <2>4. InTx(id)' => InTx(id)
    BY <2>1 DEF InTx, Elems
  <2>5. ASSUME id = Head(tx) PROVE InTx(id) /\ ~InTx(id)'
    <3>1. InTx(id)
      BY <2>2, <2>5 DEF InTx, Elems
    <3>2. ASSUME NEW i \in DOMAIN tx', tx'[i] = id PROVE FALSE
      <4>1. i + 1 \in DOMAIN tx /\ tx[i + 1] = id /\ i \in Nat \ {0}
        BY <2>1, <3>2
      <4>2. i + 1 = 1
        BY <2>2, <2>5, <4>1
      <4> QED BY <4>1, <4>2
    <3> QED BY <3>1, <3>2 DEF InTx, Elems
  <2> QED BY <2>3, <2>4, <2>5
<1>2. CASE tx' = tx /\ ~handle_request
  BY <1>2 DEF InTx, Elems
<1>3. CASE tx' = << >> /\ ~handle_request
  BY <1>3 DEF InTx, Elems
<1>4. handle_request => tx # << >> /\ tx' = Tail(tx)
  BY DEF handle_request, Take
<1>5. tx' = tx \/ tx' = << >> \/ (tx # << >> /\ tx' = Tail(tx))
  BY TxStep
<1> QED BY <1>1, <1>2, <1>3, <1>4, <1>5

(* A request that is accepted now has left no trace before. *)
LEMMA AcceptStage ==
    ASSUME TypeOK, NEW id \in Id, NEW k \in Id, call = Idle,
           call' = [id |-> k, at |-> 1],
           UNCHANGED <<results_db, flushed, tx, tx_res, jobs>>,
           IF k = id THEN Untouched(id) ELSE Stage(id)
    PROVE  Stage(id)'
<1>1. /\ InTx(id)' = InTx(id) /\ InJobs(id)' = InJobs(id)
      /\ \A n : Cap(id, n)' = Cap(id, n)
  BY DEF InTx, InJobs, Cap, Elems
<1>2. call'.id = k /\ call'.at = 1 /\ ~InCall(id, 2)'
  BY DEF InCall
<1>3. CASE k = id
  <2>1. ~InTx(id) /\ ~InJobs(id) /\ Cap(id, 0)
    BY <1>3, RankFacts DEF Untouched, Cap
  <2>2. \A x \in DOMAIN tx : tx[x] # id
    BY <2>1 DEF InTx, Elems
  <2>3. \A j \in jobs : j[2] # id
    BY <2>1 DEF InJobs
  <2> QED BY <1>1, <1>2, <2>1, <2>2, <2>3 DEF Stage
<1>4. CASE k # id
  <2>1. ~InCall(id, 1)' /\ ~InCall(id, 2)'
    BY <1>2, <1>4 DEF InCall
  <2> QED BY <1>1, <1>4, <2>1 DEF Stage
<1> QED BY <1>3, <1>4

(* The call hands its request on to the queue. *)
LEMMA SendStage ==
    ASSUME TypeOK, Next, send, ~crash, NEW id \in Id, Stage(id)
    PROVE  Stage(id)'
<1>0. tx \in Seq(Id) /\ call # Idle /\ call.id \in Id /\ call \in [id: Id, at: {1, 2}]
  BY CallFacts DEF TypeOK, send
<1>1. PICK n \in {1, 2} : InCall(call.id, n) /\ call.at = n
  BY <1>0 DEF InCall
<1>2. /\ UNCHANGED <<results_db, jobs>>
      /\ InJobs(id)' = InJobs(id)
  BY DEF InJobs, send, diskVars, workVars
<1>3. CASE n = 1
  <2>1. call' = [call EXCEPT !.at = 2] /\ tx' = tx
        /\ tx_res' = Append(tx_res, Response(call.id, "received"))
    BY <1>1, <1>3 DEF send, Queued, sends
  <2>2. call'.id = call.id /\ call'.at = 2 /\ ~InCall(id, 1)'
    BY <1>0, <2>1 DEF InCall
  <2>3. InTx(id)' = InTx(id) /\ (InCall(id, 2)' => call.id = id)
    BY <2>1, <2>2 DEF InTx, InCall, Elems
  <2>4. ASSUME NEW m \in Nat, Cap(id, m), call.id = id => 1 <= m
        PROVE  Cap(id, m)'
    <3>1. Elems(tx_res)' = Elems(tx_res) \cup {Response(call.id, "received")}
      BY <1>0, <2>1, ResponseElems DEF Status
    <3> QED BY <1>2, <2>4, <3>1, RankFacts DEF Cap, Response
  <2>5. CASE call.id = id
    <3>1. ~InTx(id) /\ ~InJobs(id) /\ Cap(id, 0)
      BY <1>1, <1>3, <2>5 DEF Stage
    <3>2. Cap(id, 1)'
      BY <2>4, <3>1, CapGrows
    <3> QED BY <1>2, <2>1, <2>2, <2>3, <3>1, <3>2 DEF Stage
  <2>6. CASE call.id # id
    <3>1. /\ InTx(id)' => Cap(id, 1)'
          /\ InJobs(id)' => Cap(id, 2)'
      BY <1>2, <2>3, <2>4, <2>6 DEF Stage
    <3> QED BY <1>2, <2>1, <2>2, <2>3, <2>6, <3>1 DEF Stage
  <2> QED BY <2>5, <2>6
<1>4. CASE n = 2
  <2>1. /\ call' = Idle /\ UNCHANGED tx_res
        /\ tx' = tx \/ tx' = Append(tx, call.id)
    BY <1>1, <1>4 DEF send, Queued, sends
  <2>2. ~InCall(id, 1)' /\ ~InCall(id, 2)' /\ \A m : Cap(id, m)' = Cap(id, m)
    BY <1>2, <2>1 DEF InCall, Cap, Elems
  <2>3. /\ InTx(id)' => InTx(id) \/ call.id = id
        /\ call.id # id \/ ~InTx(id) =>
             (\A x, y \in DOMAIN tx' : tx'[x] = id /\ tx'[y] = id => x = y)
    <3>1. CASE tx' = tx
      BY <3>1 DEF InTx, Stage, Elems
    <3>2. CASE tx' = Append(tx, call.id)
      <4>1. Elems(tx)' = Elems(tx) \cup {call.id}
        BY <1>0, <3>2, AppendFacts DEF Elems
      <4>2. /\ DOMAIN tx' = DOMAIN tx \cup {Len(tx) + 1}
            /\ \A i \in DOMAIN tx : tx'[i] = tx[i]
            /\ tx'[Len(tx) + 1] = call.id
        BY <1>0, <3>2, AppendFacts
      <4> QED BY <4>1, <4>2 DEF InTx, Stage, Elems
    <3> QED BY <2>1, <3>1, <3>2
  <2>4. CASE call.id = id
    <3>1. ~InTx(id) /\ ~InJobs(id) /\ Cap(id, 1)
      BY <1>1, <1>4, <2>4 DEF Stage
    <3> QED BY <1>2, <2>2, <2>3, <3>1 DEF Stage
  <2>5. CASE call.id # id
    BY <1>2, <2>2, <2>3, <2>5 DEF Stage
  <2> QED BY <2>4, <2>5
<1> QED BY <1>1, <1>3, <1>4

(* Any step but the two sends of a call, or a crash, keeps Stage. *)
LEMMA StageStep ==
    ASSUME TypeOK, Next, ~send, ~crash, call' = call, NEW id \in Id, Stage(id)
    PROVE  Stage(id)'
<1> DEFINE began == handle_request /\ id = Head(tx)
<1>1. InCall(id, 1)' = InCall(id, 1) /\ InCall(id, 2)' = InCall(id, 2)
  BY DEF InCall
<1>2. /\ InTx(id)' => InTx(id)
      /\ \A x, y \in DOMAIN tx' : tx'[x] = id /\ tx'[y] = id => x = y
      /\ began => InTx(id) /\ ~InTx(id)'
  BY TxOfStep DEF Stage
<1>3. /\ InJobs(id)' => InJobs(id) \/ began
      /\ \A j, k \in jobs' : j[2] = id /\ k[2] = id => j = k
      /\ \/ keygen_output_ends(id) \/ signer_output(id)
         \/ offline_output(id) /\ id \in BadHash
         => ~InJobs(id)'
  <2>1. ~InJobs(id) \/ ~began
    BY <1>2 DEF Stage
  <2> QED BY <2>1, JobsOfStep DEF Stage
<1>4. \A what : <<what, id>> \in jobs => InJobs(id)
  <2> SUFFICES ASSUME NEW what, <<what, id>> \in jobs PROVE InJobs(id)
    OBVIOUS
  <2>1. <<what, id>>[2] = id
    OBVIOUS
  <2> QED BY <2>1 DEF InJobs
<1>5. ASSUME NEW st \in Status, Sends(id, st)
      PROVE  \/ began /\ st = "processing"
             \/ InJobs(id) /\ (InJobs(id)' => st = "processing")
  BY <1>3, <1>4, <1>5 DEF Sends
<1>6. InCall(id, 1)' => ~InTx(id)' /\ ~InJobs(id)' /\ Cap(id, 0)'
  <2> SUFFICES ASSUME InCall(id, 1) PROVE ~InTx(id)' /\ ~InJobs(id)' /\ Cap(id, 0)'
    BY <1>1
  <2>1. ~InTx(id) /\ ~InJobs(id) /\ Cap(id, 0)
    BY DEF Stage
  <2>2. \A st \in Status : ~Sends(id, st)
    BY <1>2, <1>5, <2>1
  <2> QED BY <1>2, <1>3, <2>1, <2>2, CapKeeps
<1>7. InCall(id, 2)' => ~InTx(id)' /\ ~InJobs(id)' /\ Cap(id, 1)'
  <2> SUFFICES ASSUME InCall(id, 2) PROVE ~InTx(id)' /\ ~InJobs(id)' /\ Cap(id, 1)'
    BY <1>1
  <2>1. ~InTx(id) /\ ~InJobs(id) /\ Cap(id, 1)
    BY DEF Stage
  <2>2. \A st \in Status : ~Sends(id, st)
    BY <1>2, <1>5, <2>1
  <2> QED BY <1>2, <1>3, <2>1, <2>2, CapKeeps
<1>8. InTx(id)' => ~InJobs(id)' /\ Cap(id, 1)'
  <2> SUFFICES ASSUME InTx(id)' PROVE ~InJobs(id)' /\ Cap(id, 1)'
    OBVIOUS
  <2>1. ~began /\ InTx(id) /\ ~InJobs(id) /\ Cap(id, 1)
    BY <1>2 DEF Stage
  <2>2. \A st \in Status : ~Sends(id, st)
    BY <1>5, <2>1
  <2> QED BY <1>3, <2>1, <2>2, CapKeeps
<1>9. InJobs(id)' => Cap(id, 2)'
  <2> SUFFICES ASSUME InJobs(id)' PROVE Cap(id, 2)'
    OBVIOUS
  <2>1. Cap(id, 2)
    <3>1. CASE InJobs(id)
      BY <3>1 DEF Stage
    <3>2. CASE InTx(id)
      BY <3>2, CapGrows DEF Stage
    <3> QED BY <1>2, <1>3, <3>1, <3>2
  <2>2. \A st \in Status : Sends(id, st) => Rank[st] <= 2
    BY <1>5, RankFacts
  <2> QED BY <2>1, <2>2, CapKeeps
<1> QED BY <1>2, <1>3, <1>6, <1>7, <1>8, <1>9 DEF Stage

(* Nothing is sent for a request that was never accepted. *)
LEMMA UntouchedStep ==
    ASSUME TypeOK, Next, NEW id \in Id, Untouched(id), accepted'[id] = accepted[id]
    PROVE  Untouched(id)'
<1>0. /\ tx_res \in Seq([id: Id, status: Status]) /\ tx \in Seq(Id)
      /\ accepted \in [Id -> Nat]
  BY DEF TypeOK
<1>1. flushed'.results[id] = "none"
  <2>1. flushed' = flushed \/ flush
    BY DEF Next, start, join, join_fails, save_result, save_fails, submit,
           submit_lookup_fails, Check, send, diskVars,
           handle_silently, handle_request, Take, crash, check_result,
           check_result_fails, keygen_output, share_not_saved,
           keygen_output_ends, offline_output, signer_output, keep_front
  <2>2. CASE flush
    <3>1. flushed \in [results: [Id -> Status], shares: SUBSET KeygenId]
      BY DEF TypeOK
    <3>2. flushed'.results \in {flushed.results, results_db}
      BY <2>2, <3>1 DEF flush
    <3> QED BY <3>2 DEF Untouched
  <2> QED BY <2>1, <2>2 DEF Untouched
<1>2. CASE crash
  BY <1>1, <1>2 DEF crash, Untouched, InCall, InTx, InJobs, Elems
<1>3. CASE ~crash
  <2>1. ~InTx(id) /\ ~InJobs(id) /\ ~InCall(id, 1) /\ ~InCall(id, 2)
    BY DEF Untouched
  <2>2. call # Idle => call.id # id
    BY <2>1, CallFacts DEF InCall
  <2>3. ~InCall(id, 1)' /\ ~InCall(id, 2)'
    <3>1. CASE call' = call
      BY <2>1, <3>1 DEF InCall
    <3>2. ASSUME NEW k \in Id, call' = [id |-> k, at |-> 1],
                 accepted' = [accepted EXCEPT ![k] = @ + 1]
          PROVE  ~InCall(id, 1)' /\ ~InCall(id, 2)'
      <4>1. k # id
        BY <1>0, <3>2
      <4> QED BY <3>2, <4>1 DEF InCall
    <3>3. CASE call # Idle /\ (call' = [call EXCEPT !.at = 2] \/ call' = Idle)
      BY <2>2, <3>3, CallFacts DEF InCall
    <3> QED BY <1>3, <3>1, <3>2, <3>3, CallStep
  <2>4. ~InTx(id)'
    <3>1. CASE send
      <4>1. call # Idle /\ call.id \in Id /\ (tx' = tx \/ tx' = Append(tx, call.id))
        BY <3>1, CallFacts DEF send
      <4>2. Elems(tx)' \subseteq Elems(tx) \cup {call.id}
        <5>1. Elems(Append(tx, call.id)) = Elems(tx) \cup {call.id}
          BY <1>0, <4>1, AppendFacts
        <5> QED BY <4>1, <5>1
      <4> QED BY <2>1, <2>2, <4>1, <4>2 DEF InTx
    <3>2. CASE ~send
      <4>1. \A x \in DOMAIN tx : tx[x] # id
        BY <2>1 DEF InTx, Elems
      <4> QED BY <2>1, <3>2, <4>1, TxOfStep
    <3> QED BY <3>1, <3>2
  <2>5. ~InJobs(id)'
    <3>1. \A j \in jobs : j[2] # id
      BY <2>1 DEF InJobs
    <3>2. handle_request => id # Head(tx)
      <4>1. handle_request => Head(tx) \in Elems(tx)
        BY <1>0, TailFacts DEF handle_request, Take
      <4> QED BY <2>1, <4>1 DEF InTx
    <3> QED BY <2>1, <3>1, <3>2, JobsOfStep
  <2>6. \A st : ~Sends(id, st)
    <3>1. \A what : <<what, id>> \notin jobs
      <4> SUFFICES ASSUME NEW what, <<what, id>> \in jobs PROVE InJobs(id)
        BY <2>1
      <4>1. <<what, id>>[2] = id
        OBVIOUS
      <4> QED BY <4>1 DEF InJobs
    <3> QED BY <2>1, <3>1 DEF Sends
  <2>7. /\ results_db'[id] = "none"
        /\ \A x \in Elems(tx_res)' : x.id # id
    <3>1. CASE UNCHANGED <<tx_res, results_db>>
      BY <3>1 DEF Untouched, Elems
    <3>2. ASSUME NEW i \in Id, NEW st \in Status, Sends(i, st), UNCHANGED results_db,
                 tx_res' = Append(tx_res, Response(i, st))
          PROVE  results_db'[id] = "none" /\ \A x \in Elems(tx_res)' : x.id # id
      <4>1. Elems(tx_res)' = Elems(tx_res) \cup {Response(i, st)}
        BY <3>2, ResponseElems
      <4>2. i # id /\ Response(i, st).id = i
        BY <2>6, <3>2 DEF Response
      <4> QED BY <3>2, <4>1, <4>2 DEF Untouched
    <3>3. CASE save_result \/ save_fails
      <4>1. tx_res # << >> /\ tx_res' = Tail(tx_res)
        BY <3>3 DEF save_result, save_fails
      <4>2. /\ Elems(tx_res)' \subseteq Elems(tx_res) /\ Head(tx_res) \in Elems(tx_res)
            /\ Head(tx_res) \in [id: Id, status: Status]
        <5> DEFINE R == [id: Id, status: Status]
        <5>1. tx_res \in Seq(R)
          BY <1>0
        <5> HIDE DEF R
        <5>2. /\ Elems(Tail(tx_res)) \subseteq Elems(tx_res)
              /\ Head(tx_res) \in Elems(tx_res) /\ Head(tx_res) \in R
          BY <4>1, <5>1, TailFacts
        <5> QED BY <4>1, <5>2 DEF R
      <4>3. Head(tx_res).id # id
        BY <4>2 DEF Untouched
      <4>4. results_db'[id] = results_db[id]
        BY <3>3, <4>2, <4>3 DEF save_result, save_fails, diskVars, TypeOK
      <4> QED BY <4>2, <4>4 DEF Untouched
    <3> QED BY <1>3, <3>1, <3>2, <3>3, ResponseStep
  <2> QED BY <1>1, <2>3, <2>4, <2>5, <2>7 DEF Untouched
<1> QED BY <1>2, <1>3

(* An id is never accepted less often than before. *)
LEMMA AcceptedStep ==
    ASSUME TypeOK, Next, NEW id \in Id
    PROVE  accepted'[id] \in Nat /\ accepted[id] \in Nat /\ accepted[id] <= accepted'[id]
<1>0. accepted \in [Id -> Nat]
  BY DEF TypeOK
<1>1. CASE accepted' = accepted
  BY <1>0, <1>1
<1>2. ASSUME NEW k \in Id, accepted' = [accepted EXCEPT ![k] = @ + 1]
      PROVE  accepted'[id] \in {accepted[id], accepted[id] + 1}
  BY <1>0, <1>2
<1>3. crash => accepted' = accepted
  BY DEF crash, clientVars
<1> QED BY <1>0, <1>1, <1>2, <1>3, CallStep

(* Every step keeps OrderInv. *)
LEMMA OrderStep ==
    ASSUME TypeOK, OrderInv, Next
    PROVE  OrderInv'
<1> SUFFICES ASSUME NEW id \in Id
             PROVE  /\ accepted'[id] = 0 => Untouched(id)'
                    /\ accepted'[id] <= 1 => Stage(id)' /\ Ordered(id)'
  BY DEF OrderInv
<1>1. accepted[id] \in Nat /\ accepted'[id] \in Nat /\ accepted[id] <= accepted'[id]
  BY AcceptedStep
<1>2. ASSUME accepted'[id] = 0
      PROVE  Untouched(id)'
  <2>1. accepted[id] = 0 /\ Untouched(id)
    BY <1>1, <1>2 DEF OrderInv
  <2> QED BY <1>2, <2>1, UntouchedStep
<1>3. ASSUME accepted'[id] <= 1
      PROVE  Stage(id)' /\ Ordered(id)'
  <2>1. Stage(id) /\ Ordered(id)
    BY <1>1, <1>3 DEF OrderInv
  <2>2. CASE crash
    BY <2>1, <2>2, OrderedKeeps DEF crash, Stage, InCall, InTx, InJobs, Elems
  <2>3. CASE send /\ ~crash
    BY <2>1, <2>3, SendStage, OrderedKeeps
  <2>4. CASE call' = call /\ ~send /\ ~crash
    BY <2>1, <2>4, StageStep, OrderedKeeps
  <2>5. ASSUME NEW k \in Id, call = Idle, call' = [id |-> k, at |-> 1],
               accepted' = [accepted EXCEPT ![k] = @ + 1],
               UNCHANGED <<results_db, flushed, tx, tx_res, jobs>>
        PROVE  Stage(id)' /\ Ordered(id)'
    <3>1. k = id => Untouched(id)
      <4>1. k = id => accepted'[id] = accepted[id] + 1
        BY <2>5 DEF TypeOK
      <4>2. k = id => accepted[id] = 0
        BY <1>1, <1>3, <4>1
      <4> QED BY <4>2 DEF OrderInv
    <3> QED BY <2>1, <2>5, <3>1, AcceptStage, OrderedKeeps
  <2> QED BY <2>2, <2>3, <2>4, <2>5, CallStep
<1> QED BY <1>2, <1>3

(* CheckResult answers with what is recorded. *)
LEMMA SeenReads ==
    ASSUME TypeOK, Next, NEW id \in Id, ~check_result_fails(id)
    PROVE  seen'[id] = seen[id] \/ (seen'[id] = results_db[id] /\ UNCHANGED results_db)
<1>0. seen \in [Id -> Status]
  BY DEF TypeOK
<1>1. CASE \E k \in Id : check_result(k) \/ check_result_fails(k)
  BY <1>0, <1>1 DEF check_result, check_result_fails, diskVars
<1>2. CASE ~\E k \in Id : check_result(k) \/ check_result_fails(k)
  BY <1>2 DEF Next, start, join, join_fails, save_result, save_fails, submit,
         submit_lookup_fails, Check, send, handle_silently, handle_request,
         Take, flush, crash, keygen_output, share_not_saved,
         keygen_output_ends, offline_output, signer_output, keep_front,
         clientVars
<1> QED BY <1>1, <1>2

(* An answer is never ahead of the record it was read from. *)
LEMMA SeenStep ==
    ASSUME TypeOK, OrderInv, SeenInv, Next
    PROVE  SeenInv'
<1> SUFFICES ASSUME happened' \cap {"crash", "lookup"} = {}, NEW id \in Id, accepted'[id] <= 1
             PROVE  Rank[seen'[id]] <= Rank[results_db'[id]]
  BY DEF SeenInv
<1>0. /\ tx_res \in Seq([id: Id, status: Status]) /\ seen \in [Id -> Status]
      /\ results_db \in [Id -> Status]
  BY DEF TypeOK
<1>1. /\ happened \cap {"crash", "lookup"} = {} /\ accepted[id] <= 1 /\ ~crash
      /\ ~check_result_fails(id)
  <2>1. happened \subseteq happened' /\ accepted[id] <= accepted'[id]
        /\ accepted[id] \in Nat /\ accepted'[id] \in Nat
    BY FaultStep, AcceptedStep
  <2>2. crash => "crash" \in happened'
    BY DEF crash, Fault
  <2>3. check_result_fails(id) => "lookup" \in happened'
    BY DEF check_result_fails, Fault
  <2> QED BY <2>1, <2>2, <2>3
<1>2. Rank[seen[id]] <= Rank[results_db[id]] /\ Ordered(id)
  BY <1>1 DEF SeenInv, OrderInv
<1>3. Rank[results_db[id]] <= Rank[results_db'[id]]
  <2>1. CASE UNCHANGED results_db
    BY <1>0, <2>1, RankFacts
  <2>2. CASE save_result
    <3>1. tx_res # << >>
          /\ results_db' = [results_db EXCEPT ![Head(tx_res).id] = Head(tx_res).status]
      BY <2>2 DEF save_result
    <3>2. Head(tx_res) = tx_res[1] /\ 1 \in DOMAIN tx_res
          /\ Head(tx_res) \in [id: Id, status: Status]
      BY <1>0, <3>1, TailFacts
    <3>3. CASE tx_res[1].id = id
      BY <1>0, <1>2, <3>1, <3>2, <3>3 DEF Ordered
    <3>4. CASE tx_res[1].id # id
      <4>1. results_db'[id] = results_db[id]
        BY <1>0, <3>1, <3>2, <3>4
      <4> QED BY <1>0, <4>1, RankFacts
    <3> QED BY <3>3, <3>4
  <2>3. save_fails => UNCHANGED results_db
    BY DEF save_fails, diskVars
  <2> QED BY <1>1, <2>1, <2>2, <2>3, ResponseStep
<1>4. seen'[id] = seen[id] \/ (seen'[id] = results_db[id] /\ UNCHANGED results_db)
  BY <1>1, SeenReads
<1>5. /\ Rank[seen[id]] \in 0..3 /\ Rank[results_db[id]] \in 0..3
      /\ Rank[results_db'[id]] \in 0..3
  <2>1. results_db'[id] \in Status
    BY TypeStep DEF TypeOK
  <2> QED BY <1>0, <2>1, RankFacts
<1> QED BY <1>2, <1>3, <1>4, <1>5

-----------------------------------------------------------------------------
(* The invariant. *)

(* The inductive invariant holds at the start. *)
LEMMA InitInv == Init => Inv
<1> SUFFICES ASSUME Init PROVE Inv
  OBVIOUS
<1>1. PICK made \in SUBSET KeygenId :
        /\ results_db = [id \in Id |-> IF id \in made THEN "done" ELSE "none"]
        /\ shares = made
        /\ flushed = [results |-> results_db, shares |-> made]
        /\ tx = << >> /\ tx_res = << >> /\ call = Idle
        /\ jobs = {}
        /\ accepted = [id \in Id |-> IF id \in made THEN 1 ELSE 0]
        /\ oks = [id \in Id |-> 0] /\ offered = [id \in Id |-> 0]
        /\ seen = [id \in Id |-> "none"]
        /\ unsaved = {}
  BY DEF Init
<1>2. Elems(tx) = {} /\ Elems(tx_res) = {} /\ DOMAIN tx = {} /\ DOMAIN tx_res = {}
  BY <1>1, EmptyFacts
<1>3. TypeOK
  BY InitType
<1>4. HashInv
  BY <1>1, <1>2 DEF HashInv
<1>5. ShareInv
  <2>1. ASSUME NEW id \in KeygenId, Announced(id)
        PROVE  id \in shares
    BY <1>1, <1>2, <2>1 DEF Announced, Id
  <2> QED BY <1>1, <2>1 DEF ShareInv
<1>6. OrderInv
  <2> SUFFICES ASSUME NEW id \in Id
               PROVE  /\ accepted[id] = 0 => Untouched(id)
                      /\ Stage(id) /\ Ordered(id)
    BY DEF OrderInv
  <2>1. ~InCall(id, 1) /\ ~InCall(id, 2) /\ ~InTx(id) /\ ~InJobs(id)
    BY <1>1, <1>2 DEF InCall, InTx, InJobs
  <2>2. Stage(id) /\ Ordered(id)
    BY <1>1, <1>2, <2>1 DEF Stage, Ordered
  <2>3. accepted[id] = 0 => id \notin made
    BY <1>1
  <2>4. accepted[id] = 0 => Untouched(id)
    BY <1>1, <1>2, <2>1, <2>3 DEF Untouched
  <2> QED BY <2>2, <2>4
<1>7. SeenInv
  <2> SUFFICES ASSUME NEW id \in Id PROVE Rank[seen[id]] <= Rank[results_db[id]]
    BY DEF SeenInv
  <2>1. seen[id] = "none" /\ results_db[id] \in Status
    BY <1>1, <1>3 DEF TypeOK
  <2> QED BY <2>1, RankFacts
<1>8. RunsAsAnswered
  <2> SUFFICES ASSUME NEW id \in Id PROVE offered[id] + InQueue(id) <= oks[id]
    BY DEF RunsAsAnswered
  <2>1. {x \in DOMAIN tx : tx[x] = id} = {}
    BY <1>2
  <2>2. InQueue(id) = 0
    BY <2>1, FS_EmptySet DEF InQueue
  <2> QED BY <1>1, <2>2
<1> QED BY <1>3, <1>4, <1>5, <1>6, <1>7, <1>8 DEF Inv

(* A stutter keeps it. *)
LEMMA StutterInv == Inv /\ UNCHANGED vars => Inv'
<1> SUFFICES ASSUME Inv, UNCHANGED vars PROVE Inv'
  OBVIOUS
<1> USE DEF vars, diskVars, clientVars, workVars, faultVars
<1>1. TypeOK'
  BY TypeStep DEF Inv
<1>2. HashInv' /\ ShareInv' /\ SeenInv' /\ RunsAsAnswered'
  BY DEF Inv, HashInv, ShareInv, SeenInv, RunsAsAnswered, InQueue, Announced, Elems
<1>3. OrderInv'
  BY DEF Inv, OrderInv, Untouched, Stage, Ordered, Cap, InCall, InTx, InJobs, Elems
<1> QED BY <1>1, <1>2, <1>3 DEF Inv

(* It is an invariant. *)
LEMMA InvHolds == Spec => []Inv
<1>1. Inv /\ Next => Inv'
  BY TypeStep, HashStep, ShareStep, OrderStep, SeenStep, RunsStep DEF Inv
<1>2. Inv /\ [Next]_vars => Inv'
  BY <1>1, StutterInv
<1> QED BY <1>2, InitInv, PTL DEF Spec

-----------------------------------------------------------------------------

(* The variables of the front end keep their types, whatever requests come,
   however often, and whatever fails. *)
THEOREM TypeCorrect == Spec => []TypeOK
<1>1. Inv => TypeOK
  BY DEF Inv
<1> QED BY <1>1, InvHolds, PTL

(* sign refuses every hash that ProtocolOutputO could not parse, so the Error
   status is never recorded. *)
THEOREM NoLateHashErrorHolds == Spec => []NoLateHashError
<1>1. Inv => NoLateHashError
  BY DEF Inv, HashInv, NoLateHashError
<1> QED BY <1>1, InvHolds, PTL

(* The coordinator gets a request at most once for each call of keygen or sign
   that was answered without an error, through joining, crashes and restarts. *)
THEOREM RunsAsAnsweredHolds == Spec => []RunsAsAnswered
<1>1. Inv => RunsAsAnswered
  BY DEF Inv
<1> QED BY <1>1, InvHolds, PTL

(* A keygen that is recorded or was shown as done has its share in the store:
   ProtocolOutputKG saves before it announces, and no third status or second
   player of the same request undoes that. *)
THEOREM DoneUsableHolds == Spec => []DoneUsable
<1>1. Inv => DoneUsable
  BY RequestApiAssumption DEF Inv, ShareInv, Announced, DoneUsable
<1> QED BY <1>1, InvHolds, PTL

(* The statuses of a request accepted once are queued and recorded in the
   order of its life, though the gRPC thread and the coordinator send them. *)
THEOREM StatusOrderHolds == Spec => []StatusOrder
<1>1. Inv => StatusOrder
  BY DEF Inv, OrderInv, Ordered, StatusOrder
<1> QED BY <1>1, InvHolds, PTL

(* A client that polls CheckResult sees a request it submitted once only
   advance, until a crash or a database error. *)
THEOREM PollNeverGoesBackHolds == Spec => PollNeverGoesBack
<1> DEFINE Forward ==
      \A id \in Id : accepted[id] <= 1 /\ happened' \cap {"crash", "lookup"} = {} =>
         Rank[seen[id]] <= Rank[seen'[id]]
<1>1. Inv /\ [Next]_vars => [Forward]_vars
  <2> SUFFICES ASSUME Inv, Next, NEW id \in Id, accepted[id] <= 1,
                      happened' \cap {"crash", "lookup"} = {}
               PROVE  Rank[seen[id]] <= Rank[seen'[id]]
    OBVIOUS
  <2>1. TypeOK /\ seen[id] \in Status /\ results_db[id] \in Status
    BY DEF Inv, TypeOK
  <2>2. happened \subseteq happened'
    BY <2>1, FaultStep
  <2>3. Rank[seen[id]] <= Rank[results_db[id]]
    BY <2>2 DEF Inv, SeenInv
  <2>4. ~check_result_fails(id)
    BY DEF check_result_fails, Fault
  <2>5. seen'[id] \in {seen[id], results_db[id]}
    BY <2>1, <2>4, SeenReads
  <2> QED BY <2>1, <2>3, <2>5, RankFacts
<1> QED BY <1>1, InvHolds, PTL DEF Spec, PollNeverGoesBack
=============================================================================

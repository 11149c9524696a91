---------------------------- MODULE LifecycleProofs ----------------------------
(***************************************************************************)
(* Theorems about the life of a request: what a server's player, outputs   *)
(* and signer say of the status it reports, that a result is handed over   *)
(* once, and that the servers together implement JointRequest.             *)
(***************************************************************************)
EXTENDS CoordinatorProofs

(* How a step may move a status: it is taken on once, and then done. *)
StatusMoves(n, req) ==
    \/ report'[n][req] = report[n][req]
    \/ /\ report[n][req] = "none" /\ report'[n][req] = "processing"
       /\ req \in handled'[n]
    \/ report[n][req] = "processing" /\ report'[n][req] = "done"

ReportMoves ==
    /\ \A n \in Node : handled[n] \subseteq handled'[n]
    /\ \A n \in Node, req \in Req : StatusMoves(n, req)

(* What RoomLife speaks of is the same after a step. *)
Untouched(n, room) ==
    /\ handled[n] \subseteq handled'[n]
    /\ player'[n][room] = player[n][room]
    /\ report'[n][room[1]] = report[n][room[1]]
    /\ partial_sigs'[n][room] = partial_sigs[n][room]
    /\ room \in signers'[n] <=> room \in signers[n]
    /\ \A o \in outputs'[n] : o[2] = room => o \in outputs[n]

-----------------------------------------------------------------------------
(* Two rooms of one request are the same room. *)
LEMMA RoomsOfRequests ==
    ASSUME NEW a \in Room, NEW b \in Room, a[1] = b[1]
    PROVE  a = b
  BY RoomFacts

(* The room of a request is named after it, and its members are the
   request's participants. *)
LEMMA RoomOfFacts ==
    ASSUME NEW req \in Req
    PROVE  /\ RoomOf(req) \in Room /\ RoomOf(req)[1] = req
           /\ \A n \in Node : Me(n, RoomOf(req)) = get_i(n, participant_public_keys[req])
<1>1. RoomOf(req)[1] = req
  BY DEF RoomOf, make_room_id
<1> QED BY <1>1, RoomOfType DEF Me, Members

(* A room that a step leaves alone keeps its part of the invariant. *)
LEMMA RoomFrame ==
    ASSUME NEW n \in Node, NEW room \in Room, RoomLife(n, room), Untouched(n, room)
    PROVE  RoomLife(n, room)'
<1>1. PlayerLife(n, room)'
  BY DEF RoomLife, PlayerLife, Untouched
<1>2. SignerLife(n, room)'
  BY DEF RoomLife, SignerLife, Counted, Untouched
<1>3. ASSUME NEW o \in outputs'[n], o[2] = room
      PROVE  OutputLife(n, room, o[1])'
  <2>1. OutputLife(n, room, o[1])
    BY <1>3 DEF RoomLife, Untouched
  <2> QED BY <2>1 DEF OutputLife, Counted, Untouched
<1> QED BY <1>1, <1>2, <1>3 DEF RoomLife

(* A step that touches one room keeps the invariant of all rooms if it keeps
   that one's. *)
LEMMA RoomsKeep ==
    ASSUME RoomsLive, NEW n \in Node, NEW room \in Room,
           \A q \in Node, o \in Room : ~(q = n /\ o = room) => Untouched(q, o),
           RoomLife(n, room)'
    PROVE  RoomsLive'
<1>1. ASSUME NEW q \in Node, NEW o \in Room
      PROVE  RoomLife(q, o)'
  <2>1. CASE q = n /\ o = room
    BY <2>1
  <2>2. CASE ~(q = n /\ o = room)
    BY <2>2, RoomFrame DEF RoomsLive
  <2> QED BY <2>1, <2>2
<1> QED BY <1>1 DEF RoomsLive

(* A step that touches no room. *)
LEMMA RoomsStay ==
    ASSUME RoomsLive, \A n \in Node, room \in Room : Untouched(n, room)
    PROVE  RoomsLive'
  BY RoomFrame DEF RoomsLive

(* The parts of Lifecycle that only lose when a player or a status does. *)
LEMMA KeepFresh ==
    ASSUME FreshRequests, ReportMoves
    PROVE  FreshRequests'
  BY DEF FreshRequests, ReportMoves, StatusMoves

(* RunnersStarted is kept when new rooms and new mail have their player. *)
LEMMA KeepRunners ==
    ASSUME RunnersStarted, TypeOK,
           \A n \in Node, room \in Room :
              player[n][room].phase # "none" => player'[n][room].phase # "none",
           \A n \in Node : \A room \in keygen_runners'[n] \cup offline_state_runners'[n] :
              \/ room \in keygen_runners[n] \cup offline_state_runners[n]
              \/ player'[n][room].phase # "none",
           \A n \in Node : \A e \in inbox'[n] :
              e \in inbox[n] \/ (e \in Envelope /\ HasHandler(n, e.msg))
    PROVE  RunnersStarted'
<1>1. ASSUME NEW n \in Node, NEW room \in keygen_runners'[n] \cup offline_state_runners'[n]
      PROVE  player'[n][room].phase # "none"
  <2>1. room \in keygen_runners[n] \cup offline_state_runners[n] => room \in Room
    BY DEF TypeOK
  <2> QED BY <2>1 DEF RunnersStarted
<1>2. ASSUME NEW n \in Node, NEW e \in inbox'[n], e.msg.kind # "S"
      PROVE  player'[n][e.msg.room].phase # "none"
  <2>1. e \in Envelope /\ e.msg.room \in Room
    BY DEF TypeOK, Envelope, Msg
  <2>2. player[n][e.msg.room].phase # "none"
    BY <1>2 DEF RunnersStarted, HasHandler
  <2> QED BY <2>1, <2>2
<1> QED BY <1>1, <1>2 DEF RunnersStarted

(* MessagesFromParties is kept when new messages come from a party. *)
LEMMA KeepMessages ==
    ASSUME MessagesFromParties, TypeOK, ReportMoves,
           \A e \in sent' : e \in sent \/ \E n \in Node : e.msg \in outbox[n],
           \A n \in Node : \A m \in outbox'[n] :
              \/ m \in outbox[n]
              \/ m.key = n /\ FromParty(m) /\ report'[n][m.room[1]] # "none"
    PROVE  MessagesFromParties'
<1>1. ASSUME NEW e \in sent'
      PROVE  FromParty(e.msg)
  BY DEF MessagesFromParties
<1>2. ASSUME NEW n \in Node, NEW m \in outbox'[n]
      PROVE  m.key = n /\ FromParty(m) /\ report'[n][m.room[1]] # "none"
  <2>1. CASE m \in outbox[n]
    <3>1. m.key = n /\ FromParty(m) /\ report[n][m.room[1]] # "none"
      BY <2>1 DEF MessagesFromParties
    <3>2. m \in Msg /\ m.room[1] \in Req
      <4>1. m \in Msg
        BY <2>1 DEF TypeOK
      <4>2. m.room \in Room
        BY <4>1 DEF Msg
      <4> QED BY <4>1, <4>2, RoomFacts
    <3> QED BY <3>1, <3>2 DEF ReportMoves, StatusMoves
  <2> QED BY <2>1
<1> QED BY <1>1, <1>2 DEF MessagesFromParties, FromParty

-----------------------------------------------------------------------------
(* The initial states: nothing runs. *)
LEMMA LifecycleInit == Init => Lifecycle
<1> SUFFICES ASSUME Init PROVE Lifecycle
  OBVIOUS
<1>1. FreshRequests
  BY DEF Init, FreshRequests
<1>2. RunnersStarted /\ MessagesFromParties
  BY DEF Init, RunnersStarted, MessagesFromParties
<1>3. RoomsLive
  BY DEF Init, RoomsLive, RoomLife, PlayerLife, SignerLife, NoPlayer
<1> QED BY <1>1, <1>2, <1>3 DEF Lifecycle

(* A request that was not handed over has no player, output or signer yet. *)
LEMMA FreshRoom ==
    ASSUME TypeOK, Lifecycle, NEW n \in Node, NEW req \in Req \ handled[n]
    PROVE  /\ report[n][req] = "none"
           /\ player[n][RoomOf(req)].phase = "none"
           /\ RoomOf(req) \notin signers[n]
           /\ partial_sigs[n][RoomOf(req)] = << >>
           /\ \A o \in outputs[n] : o[2] # RoomOf(req)
<1> DEFINE room == RoomOf(req)
<1>1. room \in Room /\ room[1] = req
  BY RoomOfFacts
<1>2. RoomLife(n, room)
  BY <1>1 DEF Lifecycle, RoomsLive
<1>3. report[n][req] = "none"
  BY DEF Lifecycle, FreshRequests
<1>4. player[n][room].phase = "none"
  BY <1>1, <1>2 DEF RoomLife, PlayerLife
<1>5. room \notin signers[n] /\ partial_sigs[n][room] = << >>
  BY <1>2, <1>4 DEF RoomLife, SignerLife
<1>6. \A o \in outputs[n] : o[2] # room
  BY <1>2, <1>4 DEF RoomLife, OutputLife
<1> QED BY <1>3, <1>4, <1>5, <1>6

(* A request is handed over and starts a player, or does not. *)
LEMMA RequestKeeps ==
    ASSUME TypeOK, Lifecycle, NEW n \in Node, NEW req \in Req \ handled[n],
           handled' = [handled EXCEPT ![n] = @ \cup {req}],
           report' = report \/ report' = [report EXCEPT ![n][req] = "processing"],
           UNCHANGED <<signers, partial_sigs, outputs, inbox, sent, outbox>>,
           \/ /\ player' = player
              /\ UNCHANGED <<keygen_runners, offline_state_runners>>
           \/ /\ player' = [player EXCEPT ![n][RoomOf(req)] = NewPlayer]
              /\ get_i(n, participant_public_keys[req]) # None
              /\ report' = [report EXCEPT ![n][req] = "processing"]
              /\ \A q \in Node :
                   keygen_runners'[q] \cup offline_state_runners'[q]
                     \subseteq keygen_runners[q] \cup offline_state_runners[q]
                                 \cup (IF q = n THEN {RoomOf(req)} ELSE {})
    PROVE  Lifecycle'
<1> DEFINE room == RoomOf(req)
<1>0. /\ handled \in [Node -> SUBSET Req] /\ report \in [Node -> [Req -> Status]]
      /\ player \in [Node -> [Room -> PlayerState]]
  BY DEF TypeOK
<1>1. /\ room \in Room /\ room[1] = req
      /\ Me(n, room) = get_i(n, participant_public_keys[req])
  BY RoomOfFacts
<1>2. /\ report[n][req] = "none" /\ player[n][room].phase = "none"
      /\ room \notin signers[n] /\ partial_sigs[n][room] = << >>
      /\ \A o \in outputs[n] : o[2] # room
  BY FreshRoom
<1>3. ReportMoves
  BY <1>0, <1>2 DEF ReportMoves, StatusMoves
<1>4. RoomsLive'
  <2>1. ASSUME NEW q \in Node, NEW o \in Room, ~(q = n /\ o = room)
        PROVE  Untouched(q, o)
    <3>1. player'[q][o] = player[q][o]
      BY <1>0, <1>1, <2>1
    <3>2. report'[q][o[1]] = report[q][o[1]]
      <4>1. o[1] \in Req /\ ~(q = n /\ o[1] = req)
        BY <1>1, <2>1, RoomFacts, RoomsOfRequests
      <4> QED BY <1>0, <4>1
    <3> QED BY <1>0, <3>1, <3>2 DEF Untouched
  <2>2. RoomLife(n, room)'
    <3>1. PlayerLife(n, room)'
      <4>1. CASE player' = player
        <5>1. player[n][room].store = {}
          BY <1>1, <1>2 DEF Lifecycle, RoomsLive, RoomLife, PlayerLife
        <5> HIDE DEF room
        <5> QED BY <1>2, <4>1, <5>1 DEF PlayerLife
      <4>2. CASE /\ player' = [player EXCEPT ![n][room] = NewPlayer]
                 /\ get_i(n, participant_public_keys[req]) # None
                 /\ report' = [report EXCEPT ![n][req] = "processing"]
        <5>1. player'[n][room] = NewPlayer
          BY <1>0, <1>1, <4>2
        <5>2. room[1] \in handled'[n] /\ report'[n][room[1]] = "processing"
          BY <1>0, <1>1, <4>2
        <5>3. NewPlayer.phase = "live" /\ room \notin signers'[n]
          BY <1>2 DEF NewPlayer
        <5>4. Me(n, room) # None
          BY <1>1, <4>2
        <5> HIDE DEF room
        <5> QED BY <5>1, <5>2, <5>3, <5>4 DEF PlayerLife
      <4> QED BY <4>1, <4>2
    <3>2. SignerLife(n, room)'
      BY <1>2 DEF SignerLife
    <3> QED BY <1>2, <3>1, <3>2 DEF RoomLife
  <2> HIDE DEF room
  <2> QED BY <1>1, <2>1, <2>2, RoomsKeep DEF Lifecycle
<1>5. RunnersStarted'
  <2>1. \A q \in Node, o \in Room :
           player[q][o].phase # "none" => player'[q][o].phase # "none"
    <3>1. NewPlayer.phase # "none"
      BY DEF NewPlayer
    <3> HIDE DEF room
    <3> QED BY <1>0, <1>1, <3>1
  <2>2. ASSUME NEW q \in Node, NEW o \in keygen_runners'[q] \cup offline_state_runners'[q]
        PROVE  \/ o \in keygen_runners[q] \cup offline_state_runners[q]
               \/ player'[q][o].phase # "none"
    BY <1>0, <1>1 DEF NewPlayer
  <2>3. \A q \in Node : \A e \in inbox'[q] : e \in inbox[q]
    OBVIOUS
  <2> QED BY <2>1, <2>2, <2>3, KeepRunners DEF Lifecycle
<1> QED BY <1>3, <1>4, <1>5, KeepFresh, KeepMessages DEF Lifecycle

(* A step that only moves messages about: to the mailboxes of actors that
   exist, or out to the broker. *)
LEMMA MovesKeep ==
    ASSUME TypeOK, Lifecycle,
           UNCHANGED <<handled, report, player, outputs, signers, partial_sigs,
                       keygen_runners, offline_state_runners>>,
           \A n \in Node : \A e \in inbox'[n] :
              e \in inbox[n] \/ (e \in Envelope /\ HasHandler(n, e.msg)),
           \A e \in sent' : e \in sent \/ \E n \in Node : e.msg \in outbox[n],
           Within(outbox', outbox)
    PROVE  Lifecycle'
<1>1. ReportMoves
  BY DEF ReportMoves, StatusMoves
<1>2. RoomsLive'
  <2>1. \A n \in Node, room \in Room : Untouched(n, room)
    BY DEF Untouched
  <2> QED BY <2>1, RoomsStay DEF Lifecycle
<1>3. RunnersStarted'
  BY KeepRunners DEF Lifecycle
<1>4. MessagesFromParties'
  BY <1>1, KeepMessages DEF Lifecycle, Within
<1> QED BY <1>1, <1>2, <1>3, <1>4, KeepFresh DEF Lifecycle

(* The key and the sender of a queued message are the server's. *)
LEMMA QueuedParty ==
    ASSUME NEW n, NEW room, NEW i, NEW r0, NEW r,
           NEW m \in QueuedMsgs(room, i, n, r0, r)
    PROVE  m.room = room /\ m.sender = i /\ m.key = n
<1>1. PICK k \in (r0 + 1)..r : m \in RoundMsgs(room, PlayerKind(room), k, i, n)
  BY DEF QueuedMsgs
<1>2. \E j : m = Message(room, PlayerKind(room), k, i, j, n)
  BY <1>1 DEF RoundMsgs
<1> QED BY <1>2 DEF Message

(* A player that was started takes in a store and proceeds. *)
LEMMA ProceedLife ==
    ASSUME TypeOK, Lifecycle, NEW n \in Node, NEW room \in Room,
           NEW store \in SUBSET (Nat \X Nat), NEW heard \in BOOLEAN,
           player[n][room].phase # "none", maybe_proceed(n, room, store, heard),
           UNCHANGED <<handled, report, signers, partial_sigs,
                       keygen_runners, offline_state_runners, sent>>,
           Within(inbox', inbox)
    PROVE  Lifecycle'
<1> DEFINE p == player[n][room]
           i == Me(n, room)
<1>0. /\ player \in [Node -> [Room -> PlayerState]]
      /\ outputs \in [Node -> SUBSET Output]
      /\ outbox \in [Node -> SUBSET Msg]
  BY DEF TypeOK
<1>1. ReportMoves
  BY DEF ReportMoves, StatusMoves
<1>2. RoomLife(n, room)
  BY DEF Lifecycle, RoomsLive
<1>3. /\ i # None /\ i \in Nat /\ report[n][room[1]] # "none"
      /\ room[1] \in handled[n]
  BY <1>2, MeType DEF RoomLife, PlayerLife
<1>4. CASE p.phase = "gone"
  <2>1. /\ player' = [player EXCEPT ![n][room].store = store,
                                     ![n][room].heard = heard]
        /\ outbox' = outbox /\ outputs' = outputs
    BY <1>4 DEF maybe_proceed
  <2>2. \A q \in Node, o \in Room :
           /\ ~(q = n /\ o = room) => player'[q][o] = player[q][o]
           /\ player'[q][o].phase = player[q][o].phase
    BY <1>0, <2>1 DEF PlayerState
  <2>3. RoomLife(n, room)'
    BY <1>2, <1>4, <2>1, <2>2 DEF RoomLife, PlayerLife, SignerLife, OutputLife, Counted
  <2>4. RoomsLive'
    BY <2>1, <2>2, <2>3, RoomsKeep DEF Lifecycle, Untouched
  <2>5. RunnersStarted'
    BY <2>2, KeepRunners DEF Lifecycle, Within
  <2>6. MessagesFromParties'
    BY <1>1, <2>1, KeepMessages DEF Lifecycle
  <2> QED BY <1>1, <2>4, <2>5, <2>6, KeepFresh DEF Lifecycle
<1>5. CASE p.phase # "gone"
  <2>0. p.phase = "live" /\ p.round \in Nat
    BY <1>0, <1>5 DEF PlayerState
  <2>1. PICK r \in 1..(LastRound(room) + 1) :
          /\ player' = [player EXCEPT ![n][room] =
               [phase |-> StateLeft(room, r), round |-> r,
                store |-> store, heard |-> heard]]
          /\ outbox' = [outbox EXCEPT ![n] = @ \cup QueuedMsgs(room, i, n, p.round, r)]
          /\ outputs' = [outputs EXCEPT ![n] = @ \cup
               (IF Finished(room, r) THEN {<<PlayerKind(room), room>>} ELSE {})]
    BY <1>5 DEF maybe_proceed
  <2>2. /\ \A q \in Node, o \in Room :
              ~(q = n /\ o = room) => player'[q][o] = player[q][o]
        /\ player'[n][room].phase = IF Finished(room, r) THEN "gone" ELSE "live"
    BY <1>0, <2>1 DEF StateLeft
  <2>3. /\ \A q \in Node : \A o \in outputs'[q] :
              o \in outputs[q] \/ (q = n /\ Finished(room, r) /\ o = <<PlayerKind(room), room>>)
    BY <1>0, <2>1
  <2>4. /\ report[n][room[1]] = "processing" /\ room \notin signers[n]
        /\ partial_sigs[n][room] = << >>
        /\ \A o \in outputs[n] : o[2] # room
    BY <1>2, <2>0 DEF RoomLife, PlayerLife, SignerLife, OutputLife
  <2>5. PlayerKind(room) # "S"
    BY DEF PlayerKind
  <2>6. RoomLife(n, room)'
    <3>1. PlayerLife(n, room)'
      BY <1>3, <2>2, <2>4 DEF PlayerLife
    <3>2. SignerLife(n, room)'
      BY <2>4 DEF SignerLife
    <3>3. ASSUME NEW o \in outputs'[n], o[2] = room
          PROVE  OutputLife(n, room, o[1])'
      <4>1. Finished(room, r) /\ o = <<PlayerKind(room), room>>
        BY <2>3, <2>4, <3>3
      <4>2. o[1] # "S"
        BY <2>5, <4>1
      <4> QED BY <2>2, <2>4, <4>1, <4>2 DEF OutputLife
    <3> QED BY <3>1, <3>2, <3>3 DEF RoomLife
  <2>7. RoomsLive'
    <3>1. ASSUME NEW q \in Node, NEW o \in Room, ~(q = n /\ o = room)
          PROVE  Untouched(q, o)
      <4>1. \A x \in outputs'[q] : x[2] = o => x \in outputs[q]
        BY <2>3, <3>1
      <4> QED BY <2>2, <3>1, <4>1 DEF Untouched
    <3> QED BY <2>6, <3>1, RoomsKeep DEF Lifecycle
  <2>8. RunnersStarted'
    <3>1. \A q \in Node, o \in Room :
             player[q][o].phase # "none" => player'[q][o].phase # "none"
      BY <2>2
    <3> QED BY <3>1, KeepRunners DEF Lifecycle, Within
  <2>9. MessagesFromParties'
    <3>1. ASSUME NEW q \in Node, NEW m \in outbox'[q], m \notin outbox[q]
          PROVE  m.key = q /\ FromParty(m) /\ report'[q][m.room[1]] # "none"
      <4>1. q = n /\ m \in QueuedMsgs(room, i, n, p.round, r)
        BY <1>0, <2>1, <3>1
      <4>2. m.room = room /\ m.sender = i /\ m.key = n
        BY <4>1, QueuedParty
      <4> QED BY <1>3, <4>1, <4>2 DEF FromParty
    <3> QED BY <1>1, <3>1, KeepMessages DEF Lifecycle
  <2> QED BY <1>1, <2>7, <2>8, <2>9, KeepFresh DEF Lifecycle
<1> QED BY <1>4, <1>5

(* A failed round leaves the player without a result. *)
LEMMA FailedLife ==
    ASSUME TypeOK, Lifecycle, NEW n \in Node, NEW env \in inbox[n],
           player_proceed_fails(n, env)
    PROVE  Lifecycle'
<1> USE DEF storeVars, apiVars, nodeVars, runnerVars, retryVars, mailVars,
            brokerVars
<1> DEFINE room == env.msg.room
           p == player[n][room]
<1>0. player \in [Node -> [Room -> PlayerState]] /\ inbox \in [Node -> SUBSET Envelope]
  BY DEF TypeOK
<1>1. /\ room \in Room
      /\ UNCHANGED <<handled, report, signers, partial_sigs,
                     keygen_runners, offline_state_runners, outputs, sent, outbox>>
      /\ inbox' = [inbox EXCEPT ![n] = @ \ {env}]
      /\ p.phase = "live"
      /\ \E w : /\ w.phase = "gone"
                /\ player' = [player EXCEPT ![n][room] = w]
  <2>1. player' = [player EXCEPT ![n][room] =
             [phase |-> "gone", round |-> p.round + 1,
              store |-> StoreWith(p, env.msg), heard |-> TRUE]]
    BY DEF player_proceed_fails
  <2>2. room \in Room
    BY <1>0 DEF Envelope, Msg
  <2> QED BY <2>1, <2>2 DEF player_proceed_fails
<1>2. ReportMoves
  BY <1>1 DEF ReportMoves, StatusMoves
<1>3. \A q \in Node, o \in Room :
         /\ ~(q = n /\ o = room) => player'[q][o] = player[q][o]
         /\ q = n /\ o = room => player'[q][o].phase = "gone"
  <2> HIDE DEF room
  <2> QED BY <1>0, <1>1
<1>4. RoomLife(n, room)
  BY <1>1 DEF Lifecycle, RoomsLive
<1>5. RoomLife(n, room)'
  <2>1. player'[n][room].phase = "gone"
    BY <1>1, <1>3
  <2> HIDE DEF room
  <2>2. PlayerLife(n, room)'
    BY <1>1, <1>4, <2>1 DEF RoomLife, PlayerLife
  <2>3. SignerLife(n, room)'
    BY <1>1, <1>4, <2>1 DEF RoomLife, SignerLife, Counted
  <2>4. \A o \in outputs[n] : o[2] # room
    BY <1>1, <1>4 DEF RoomLife, OutputLife
  <2> QED BY <1>1, <2>2, <2>3, <2>4 DEF RoomLife
<1>6. RoomsLive'
  <2>1. \A q \in Node, o \in Room : ~(q = n /\ o = room) => Untouched(q, o)
    BY <1>1, <1>3 DEF Untouched
  <2> HIDE DEF room
  <2> QED BY <1>1, <1>5, <2>1, RoomsKeep DEF Lifecycle
<1>7. RunnersStarted'
  <2>1. \A q \in Node, o \in Room :
           player[q][o].phase # "none" => player'[q][o].phase # "none"
    BY <1>3
  <2>2. \A q \in Node : \A e \in inbox'[q] : e \in inbox[q]
    BY <1>0, <1>1
  <2> QED BY <1>1, <2>1, <2>2, KeepRunners DEF Lifecycle
<1> QED BY <1>1, <1>2, <1>6, <1>7, KeepFresh, KeepMessages DEF Lifecycle

(* A signer takes in a partial signature: the count that yields the result is
   reached once. *)
LEMMA SignerKeepsLife ==
    ASSUME Provenance, Lifecycle, NEW n \in Node, NEW env \in inbox[n],
           signer_handle(n, env)
    PROVE  Lifecycle'
<1> USE DEF storeVars, apiVars, nodeVars, runnerVars, retryVars, mailVars,
            brokerVars
<1> DEFINE room == env.msg.room
           old == partial_sigs[n][room]
           sigs == Append(old, env.msg)
<1>0. /\ TypeOK
      /\ partial_sigs \in [Node -> [Room -> Seq(Msg)]]
      /\ inbox \in [Node -> SUBSET Envelope]
      /\ outputs \in [Node -> SUBSET Output]
  BY DEF Provenance, TypeOK
<1>1. /\ UNCHANGED <<handled, report, signers, player,
                     keygen_runners, offline_state_runners, sent, outbox>>
      /\ inbox' = [inbox EXCEPT ![n] = @ \ {env}]
      /\ env.msg.kind = "S"
  BY DEF signer_handle
<1>2. /\ env.msg \in Msg /\ room \in Room
  BY <1>0 DEF Envelope, Msg
<1>3. /\ \/ UNCHANGED <<partial_sigs, outputs>>
         \/ /\ partial_sigs' = [partial_sigs EXCEPT ![n][room] = sigs]
            /\ outputs' = [outputs EXCEPT ![n] = @ \cup
                 (IF Completes(room, Me(n, room), sigs) THEN {<<"S", room>>} ELSE {})]
  BY DEF signer_handle
<1>4. ReportMoves
  BY <1>1 DEF ReportMoves, StatusMoves
<1>5. room \in signers[n]
  BY <1>1 DEF Provenance, SignersReady
<1>6. RunnersStarted'
  <2>2. \A q \in Node : \A e \in inbox'[q] : e \in inbox[q]
    BY <1>0, <1>1
  <2> QED BY <1>0, <1>1, <2>2, KeepRunners DEF Lifecycle
<1>7. RoomsLive'
  <2>1. CASE UNCHANGED <<partial_sigs, outputs>>
    <3>1. \A q \in Node, o \in Room : Untouched(q, o)
      BY <1>1, <2>1 DEF Untouched
    <3> QED BY <3>1, RoomsStay DEF Lifecycle
  <2>2. CASE /\ partial_sigs' = [partial_sigs EXCEPT ![n][room] = sigs]
             /\ outputs' = [outputs EXCEPT ![n] = @ \cup
                 (IF Completes(room, Me(n, room), sigs) THEN {<<"S", room>>} ELSE {})]
    <3>0. old \in Seq(Msg) /\ Len(sigs) = Len(old) + 1 /\ Len(old) \in Nat
      BY <1>0, <1>2
    <3>1. Len(Members(room)) \in Nat
      BY <1>2, RoomFacts
    <3>2. /\ partial_sigs'[n][room] = sigs
          /\ \A q \in Node, o \in Room : ~(q = n /\ o = room) =>
                partial_sigs'[q][o] = partial_sigs[q][o]
      <4> HIDE DEF sigs, room
      <4> QED BY <1>0, <1>2, <2>2
    <3>3. \A q \in Node : \A x \in outputs'[q] :
             x \in outputs[q] \/ (q = n /\ Completes(room, Me(n, room), sigs) /\ x = <<"S", room>>)
      <4> HIDE DEF sigs, room
      <4> QED BY <1>0, <1>2, <2>2
    <3>4. \A q \in Node, o \in Room : ~(q = n /\ o = room) => Untouched(q, o)
      <4> SUFFICES ASSUME NEW q \in Node, NEW o \in Room, ~(q = n /\ o = room)
                   PROVE  Untouched(q, o)
        OBVIOUS
      <4> HIDE DEF sigs, room
      <4>1. \A x \in outputs'[q] : x[2] = o => x \in outputs[q]
        BY <3>3
      <4> QED BY <1>1, <3>2, <4>1 DEF Untouched
    <3>5. RoomLife(n, room)
      BY <1>2 DEF Lifecycle, RoomsLive
    <3>6. Counted(n, room) => Counted(n, room)'
      <4> HIDE DEF sigs, room, old
      <4>1. old = partial_sigs[n][room]
        BY DEF old
      <4> QED BY <3>0, <3>1, <3>2, <4>1 DEF Counted
    <3>7. Completes(room, Me(n, room), sigs) => ~Counted(n, room) /\ Counted(n, room)'
      <4> HIDE DEF sigs, room, old
      <4>1. old = partial_sigs[n][room]
        BY DEF old
      <4> QED BY <3>0, <3>1, <3>2, <4>1 DEF Counted, Completes
    <3>8. RoomLife(n, room)'
      <4> HIDE DEF sigs, room, old
      <4>1. PlayerLife(n, room)'
        BY <1>1, <3>5 DEF RoomLife, PlayerLife
      <4>2. SignerLife(n, room)'
        BY <1>1, <1>5, <3>5, <3>6 DEF RoomLife, SignerLife
      <4>3. ASSUME NEW o \in outputs'[n], o[2] = room
            PROVE  OutputLife(n, room, o[1])'
        <5>1. CASE o \in outputs[n]
          BY <1>1, <3>5, <3>6, <4>3, <5>1 DEF RoomLife, OutputLife
        <5>2. CASE Completes(room, Me(n, room), sigs) /\ o = <<"S", room>>
          <6>1. o[1] = "S"
            BY <5>2
          <6>2. player[n][room].phase = "gone" /\ report[n][room[1]] = "processing"
            BY <1>5, <3>5, <3>7, <5>2 DEF RoomLife, SignerLife
          <6> QED BY <1>1, <1>5, <3>7, <5>2, <6>1, <6>2 DEF OutputLife
        <5> QED BY <3>3, <5>1, <5>2
      <4> QED BY <4>1, <4>2, <4>3 DEF RoomLife
    <3> HIDE DEF room
    <3> QED BY <1>2, <3>4, <3>8, RoomsKeep DEF Lifecycle
  <2> QED BY <1>3, <2>1, <2>2
<1> QED BY <1>0, <1>1, <1>4, <1>6, <1>7, KeepFresh, KeepMessages DEF Lifecycle

(* A keygen's or a signature's output ends the request. *)
LEMMA ResultKeepsLife ==
    ASSUME TypeOK, Lifecycle, NEW n \in Node, NEW room \in Room,
           \/ handle_output_keygen(n, room) \/ handle_output_sign(n, room)
           \/ handle_output_keygen_unsaved(n, room)
    PROVE  Lifecycle'
<1> USE DEF storeVars, apiVars, nodeVars, runnerVars, retryVars, mailVars,
            actorVars, brokerVars
<1>0. /\ report \in [Node -> [Req -> Status]]
      /\ outputs \in [Node -> SUBSET Output]
      /\ offline_state_runners \in [Node -> SUBSET Room]
      /\ room[1] \in Req
  BY RoomFacts DEF TypeOK
<1>1. UNCHANGED <<handled, signers, partial_sigs, player, keygen_runners, inbox,
                  sent, outbox>>
  BY DEF handle_output_keygen, handle_output_keygen_unsaved, handle_output_sign
<1>2. PICK kind \in {"KG", "S"} :
          /\ <<kind, room>> \in outputs[n]
          /\ outputs' = [outputs EXCEPT ![n] = @ \ {<<kind, room>>}]
          /\ report' = [report EXCEPT ![n][room[1]] = "done"]
          /\ \/ UNCHANGED offline_state_runners
             \/ offline_state_runners' = [offline_state_runners EXCEPT ![n] = @ \ {room}]
  BY DEF handle_output_keygen, handle_output_keygen_unsaved, handle_output_sign
<1>3. RoomLife(n, room)
  BY DEF Lifecycle, RoomsLive
<1>4. OutputLife(n, room, kind)
  <2>1. <<kind, room>>[2] = room /\ <<kind, room>>[1] = kind
    OBVIOUS
  <2> QED BY <1>2, <1>3, <2>1 DEF RoomLife
<1>5. /\ report[n][room[1]] = "processing" /\ report'[n][room[1]] = "done"
      /\ \A q \in Node, req \in Req :
           ~(q = n /\ req = room[1]) => report'[q][req] = report[q][req]
  BY <1>0, <1>2, <1>4 DEF OutputLife
<1>6. ReportMoves
  BY <1>1, <1>5 DEF ReportMoves, StatusMoves
<1>7. \A q \in Node : \A x \in outputs'[q] :
         x \in outputs[q] /\ ~(q = n /\ x = <<kind, room>>)
  BY <1>0, <1>2
<1>8. RoomLife(n, room)'
  <2>1. PlayerLife(n, room)'
    BY <1>1, <1>3, <1>4, <1>5 DEF RoomLife, PlayerLife, OutputLife
  <2>2. SignerLife(n, room)'
    <3>1. CASE kind = "S"
      BY <1>1, <1>3, <1>4, <3>1 DEF RoomLife, SignerLife, OutputLife, Counted
    <3>2. CASE kind = "KG"
      <4>1. <<"KG", room>> \in Output
        BY <1>0, <1>2, <3>2
      <4>2. PlayerKind(room) = "KG"
        BY <4>1 DEF Output
      <4>3. room \notin signers[n]
        BY <1>3, <4>2 DEF RoomLife, SignerLife
      <4> QED BY <1>1, <1>3, <4>3 DEF RoomLife, SignerLife
    <3> QED BY <3>1, <3>2
  <2>3. ASSUME NEW o \in outputs'[n], o[2] = room
        PROVE  FALSE
    <3>1. o \in outputs[n] /\ o \in Output /\ o # <<kind, room>>
      BY <1>0, <1>7
    <3>2. o = <<PlayerKind(room), room>> \/ o = <<"S", room>>
      BY <2>3, <3>1 DEF Output
    <3>3. OutputLife(n, room, o[1])
      BY <1>3, <2>3, <3>1 DEF RoomLife
    <3>4. CASE kind = "S"
      <4>1. o = <<PlayerKind(room), room>> /\ room \in signers[n]
        BY <1>4, <3>1, <3>2, <3>4 DEF OutputLife
      <4>2. PlayerKind(room) = "O"
        BY <1>3, <4>1 DEF RoomLife, SignerLife
      <4> QED BY <3>3, <4>1, <4>2 DEF OutputLife
    <3>5. CASE kind = "KG"
      <4>1. <<"KG", room>> \in Output
        BY <1>0, <1>2, <3>5
      <4>2. PlayerKind(room) = "KG"
        BY <4>1 DEF Output
      <4>3. o = <<"S", room>>
        BY <3>1, <3>2, <3>5, <4>2
      <4>4. room \in signers[n]
        BY <3>3, <4>3 DEF OutputLife
      <4> QED BY <1>3, <4>2, <4>4 DEF RoomLife, SignerLife
    <3> QED BY <3>4, <3>5
  <2> QED BY <2>1, <2>2, <2>3 DEF RoomLife
<1>9. RoomsLive'
  <2>1. ASSUME NEW q \in Node, NEW o \in Room, ~(q = n /\ o = room)
        PROVE  Untouched(q, o)
    <3>1. o[1] \in Req /\ ~(q = n /\ o[1] = room[1])
      BY <2>1, RoomFacts, RoomsOfRequests
    <3> QED BY <1>1, <1>5, <1>7, <3>1 DEF Untouched
  <2> QED BY <1>8, <2>1, RoomsKeep DEF Lifecycle
<1>10. RunnersStarted'
  <2>1. \A q \in Node : offline_state_runners'[q] \subseteq offline_state_runners[q]
    BY <1>0, <1>2
  <2> QED BY <1>1, <2>1, KeepRunners DEF Lifecycle
<1> QED BY <1>1, <1>6, <1>9, <1>10, KeepFresh, KeepMessages DEF Lifecycle

(* The output of the offline stage starts a signer and its partial
   signature. *)
LEMMA OfflineKeepsLife ==
    ASSUME TypeOK, Lifecycle, NEW n \in Node, NEW room \in Room,
           handle_output_offline(n, room)
    PROVE  Lifecycle' /\ report' = report
<1> USE DEF storeVars, apiVars, nodeVars, runnerVars, retryVars, mailVars,
            actorVars, brokerVars
<1>0. /\ report \in [Node -> [Req -> Status]]
      /\ outputs \in [Node -> SUBSET Output]
      /\ outbox \in [Node -> SUBSET Msg]
      /\ signers \in [Node -> SUBSET Room]
      /\ offline_state_runners \in [Node -> SUBSET Room]
      /\ partial_sigs \in [Node -> [Room -> Seq(Msg)]]
      /\ room[1] \in Req
  BY RoomFacts DEF TypeOK
<1>1. /\ UNCHANGED <<handled, player, keygen_runners, inbox, sent>>
      /\ <<"O", room>> \in outputs[n]
      /\ outputs' = [outputs EXCEPT ![n] = @ \ {<<"O", room>>}]
      /\ offline_state_runners' = [offline_state_runners EXCEPT ![n] = @ \ {room}]
      /\ signers' = [signers EXCEPT ![n] = @ \cup {room}]
      /\ partial_sigs' = [partial_sigs EXCEPT ![n][room] = << >>]
      /\ outbox' = [outbox EXCEPT ![n] = @ \cup {MyPartialSignature(n, room)}]
      /\ report' = [report EXCEPT ![n][room[1]] = "processing"]
  BY DEF handle_output_offline
<1>3. RoomLife(n, room)
  BY DEF Lifecycle, RoomsLive
<1>4. OutputLife(n, room, "O")
  <2>1. <<"O", room>>[2] = room /\ <<"O", room>>[1] = "O"
    OBVIOUS
  <2> QED BY <1>1, <1>3, <2>1 DEF RoomLife
<1>5. report' = report
  <2>1. report[n][room[1]] = "processing"
    BY <1>4 DEF OutputLife
  <2> QED BY <1>0, <1>1, <2>1
<1>6. ReportMoves
  BY <1>1, <1>5 DEF ReportMoves, StatusMoves
<1>7. \A q \in Node : \A x \in outputs'[q] :
         x \in outputs[q] /\ ~(q = n /\ x = <<"O", room>>)
  BY <1>0, <1>1
<1>8. PlayerKind(room) = "O"
  BY <1>0, <1>1 DEF Output
<1>9. RoomLife(n, room)'
  <2>1. PlayerLife(n, room)'
    BY <1>1, <1>3, <1>4, <1>5 DEF RoomLife, PlayerLife, OutputLife
  <2>2. SignerLife(n, room)'
    BY <1>0, <1>1, <1>4, <1>5, <1>8 DEF SignerLife, OutputLife
  <2>3. ASSUME NEW o \in outputs'[n], o[2] = room
        PROVE  FALSE
    <3>1. o \in outputs[n] /\ o \in Output /\ o # <<"O", room>>
      BY <1>0, <1>7
    <3>2. o = <<"S", room>>
      BY <1>8, <2>3, <3>1 DEF Output
    <3>3. room \in signers[n]
      BY <1>3, <3>1, <3>2 DEF RoomLife, OutputLife
    <3> QED BY <1>4, <3>3 DEF OutputLife
  <2> QED BY <2>1, <2>2, <2>3 DEF RoomLife
<1>10. RoomsLive'
  <2>1. ASSUME NEW q \in Node, NEW o \in Room, ~(q = n /\ o = room)
        PROVE  Untouched(q, o)
    <3>1. partial_sigs'[q][o] = partial_sigs[q][o]
      BY <1>0, <1>1, <2>1
    <3>2. o \in signers'[q] <=> o \in signers[q]
      BY <1>0, <1>1, <2>1
    <3> QED BY <1>1, <1>5, <1>7, <3>1, <3>2 DEF Untouched
  <2> QED BY <1>9, <2>1, RoomsKeep DEF Lifecycle
<1>11. RunnersStarted'
  <2>1. \A q \in Node : offline_state_runners'[q] \subseteq offline_state_runners[q]
    BY <1>0, <1>1
  <2> QED BY <1>1, <2>1, KeepRunners DEF Lifecycle
<1>12. MessagesFromParties'
  <2> DEFINE m == MyPartialSignature(n, room)
  <2>1. report' = report
    BY <1>5
  <2>2. m.key = n /\ m.sender = Me(n, room) /\ m.room = room
    BY DEF MyPartialSignature, Message
  <2>3. Me(n, room) # None /\ report[n][room[1]] # "none"
    BY <1>3, <1>4 DEF RoomLife, PlayerLife, OutputLife
  <2>4. FromParty(m)
    BY <2>2, <2>3 DEF FromParty
  <2>5. \A q \in Node : \A x \in outbox'[q] : x \in outbox[q] \/ (q = n /\ x = m)
    BY <1>0, <1>1
  <2>6. m.key = n /\ FromParty(m) /\ report'[n][m.room[1]] # "none"
    BY <2>1, <2>2, <2>3, <2>4
  <2> HIDE DEF m
  <2>7. \A q \in Node : \A x \in outbox'[q] :
           x \in outbox[q] \/ (x.key = q /\ FromParty(x) /\ report'[q][x.room[1]] # "none")
    BY <2>5, <2>6
  <2>8. \A e \in sent' : e \in sent \/ \E q \in Node : e.msg \in outbox[q]
    BY <1>1
  <2>9. MessagesFromParties
    BY DEF Lifecycle
  <2> QED BY <1>6, <2>7, <2>8, <2>9, KeepMessages
<1> QED BY <1>1, <1>5, <1>6, <1>10, <1>11, <1>12, KeepFresh DEF Lifecycle

(* A server that loses its memory has no player, output or signer left. *)
LEMMA LoseLife ==
    ASSUME TypeOK, Lifecycle, NEW n \in Node, LoseMemory(n), sent' = sent,
           FreshRequests',
           \A q \in Node : q # n => handled'[q] = handled[q] /\ report'[q] = report[q]
    PROVE  Lifecycle'
<1>1. \A q \in Node :
        \/ /\ q # n
           /\ player'[q] = player[q] /\ outputs'[q] = outputs[q]
           /\ signers'[q] = signers[q] /\ partial_sigs'[q] = partial_sigs[q]
           /\ keygen_runners'[q] = keygen_runners[q] /\ inbox'[q] = inbox[q]
           /\ offline_state_runners'[q] = offline_state_runners[q]
           /\ outbox'[q] = outbox[q]
        \/ /\ q = n
           /\ player'[q] = [room \in Room |-> NoPlayer] /\ outputs'[q] = {}
           /\ signers'[q] = {} /\ partial_sigs'[q] = [room \in Room |-> << >>]
           /\ keygen_runners'[q] = {} /\ inbox'[q] = {}
           /\ offline_state_runners'[q] = {} /\ outbox'[q] = {}
  BY DEF LoseMemory, TypeOK
<1>2. RoomsLive'
  <2>1. ASSUME NEW q \in Node, NEW o \in Room
        PROVE  RoomLife(q, o)'
    <3>1. CASE q # n
      <4>1. Untouched(q, o)
        BY <1>1, <3>1 DEF Untouched
      <4> QED BY <4>1, RoomFrame DEF Lifecycle, RoomsLive
    <3>2. CASE q = n
      BY <1>1, <3>2 DEF RoomLife, PlayerLife, SignerLife, NoPlayer
    <3> QED BY <3>1, <3>2
  <2> QED BY <2>1 DEF RoomsLive
<1>3. RunnersStarted'
  BY <1>1 DEF Lifecycle, RunnersStarted
<1>4. MessagesFromParties'
  <2>1. \A e \in sent' : FromParty(e.msg)
    BY DEF Lifecycle, MessagesFromParties
  <2>2. \A q \in Node : \A m \in outbox'[q] :
           m.key = q /\ FromParty(m) /\ report'[q][m.room[1]] # "none"
    BY <1>1 DEF Lifecycle, MessagesFromParties
  <2> QED BY <2>1, <2>2 DEF MessagesFromParties, FromParty
<1> QED BY <1>2, <1>3, <1>4 DEF Lifecycle

(* A coordinator that stops changes no status. *)
LEMMA StopLife ==
    ASSUME TypeOK, Lifecycle, NEW n \in Node, StopCoordinator(n),
           UNCHANGED <<handled, report, sent>>
    PROVE  Lifecycle'
<1>1. LoseMemory(n)
  BY DEF StopCoordinator
<1>2. FreshRequests'
  BY DEF Lifecycle, FreshRequests
<1> QED BY <1>1, <1>2, LoseLife

(* A restart puts statuses back, and leaves none without the record of its
   request. *)
LEMMA RestartKeepsLife ==
    ASSUME TypeOK, Lifecycle, NEW n \in Node, restart(n)
    PROVE  Lifecycle'
<1>0. /\ handled \in [Node -> SUBSET Req] /\ report \in [Node -> [Req -> Status]]
  BY DEF TypeOK
<1>1. LoseMemory(n) /\ sent' = sent
  BY DEF restart
<1>2. PICK kept \in SUBSET handled[n], known \in [Req -> Status] :
        /\ handled[n] \cap PreKeys \subseteq kept
        /\ \A req \in Req :
             known[req] \in IF req \in PreKeys THEN {report[n][req]}
                           ELSE IF req \in kept THEN UpTo(report[n][req])
                           ELSE {"none"}
        /\ handled' = [handled EXCEPT ![n] = kept]
        /\ report' = [report EXCEPT ![n] = known]
  BY DEF restart, ReopenResults
<1>3. FreshRequests'
  <2>1. ASSUME NEW req \in Req, req \notin kept
        PROVE  known[req] = "none"
    <3>1. CASE req \in PreKeys
      <4>1. req \notin handled[n]
        BY <1>2, <2>1, <3>1
      <4>2. report[n][req] = "none"
        BY <4>1 DEF Lifecycle, FreshRequests
      <4> QED BY <1>2, <3>1, <4>2
    <3>2. CASE req \notin PreKeys
      BY <1>2, <2>1, <3>2
    <3> QED BY <3>1, <3>2
  <2>2. /\ handled'[n] = kept /\ report'[n] = known
        /\ \A q \in Node : q # n => handled'[q] = handled[q] /\ report'[q] = report[q]
    <3>1. handled' = [handled EXCEPT ![n] = kept] /\ report' = [report EXCEPT ![n] = known]
      BY <1>2
    <3> QED BY <1>0, <3>1
  <2>3. SUFFICES ASSUME NEW q \in Node, NEW req \in Req \ handled'[q]
                 PROVE  report'[q][req] = "none"
    BY DEF FreshRequests
  <2>4. CASE q = n
    BY <2>1, <2>2, <2>4
  <2>5. CASE q # n
    <3>1. \A x \in Req \ handled[q] : report[q][x] = "none"
      BY DEF Lifecycle, FreshRequests
    <3> QED BY <2>2, <2>5, <3>1
  <2> QED BY <2>4, <2>5
<1>4. \A q \in Node : q # n => handled'[q] = handled[q] /\ report'[q] = report[q]
  BY <1>0, <1>2
<1> QED BY <1>1, <1>3, <1>4, LoseLife

(* A request is handed over, and no other status moves. *)
LEMMA RequestMoves ==
    ASSUME TypeOK, Lifecycle, NEW n \in Node, NEW req \in Req \ handled[n],
           handled' = [handled EXCEPT ![n] = @ \cup {req}],
           report' = report \/ report' = [report EXCEPT ![n][req] = "processing"]
    PROVE  ReportMoves
<1>1. /\ handled \in [Node -> SUBSET Req] /\ report \in [Node -> [Req -> Status]]
  BY DEF TypeOK
<1>2. report[n][req] = "none"
  BY DEF Lifecycle, FreshRequests
<1> QED BY <1>1, <1>2 DEF ReportMoves, StatusMoves

(* A request whose handler ends the coordinator. *)
LEMMA RequestStops ==
    ASSUME TypeOK, Lifecycle, NEW n \in Node, NEW req \in Req \ handled[n],
           handled' = [handled EXCEPT ![n] = @ \cup {req}],
           report' = report \/ report' = [report EXCEPT ![n][req] = "processing"],
           StopCoordinator(n), sent' = sent
    PROVE  Lifecycle'
<1>1. FreshRequests'
  BY RequestMoves, KeepFresh DEF Lifecycle
<1>2. /\ handled \in [Node -> SUBSET Req] /\ report \in [Node -> [Req -> Status]]
      /\ LoseMemory(n)
  BY DEF TypeOK, StopCoordinator
<1> QED BY <1>1, <1>2, LoseLife

(* Every step keeps Lifecycle. *)
LEMMA LifecycleStep == Provenance /\ Lifecycle /\ [Next]_vars => Lifecycle'
<1> SUFFICES ASSUME Provenance, Lifecycle, [Next]_vars PROVE Lifecycle'
  OBVIOUS
<1> USE DEF storeVars, apiVars, nodeVars, runnerVars, retryVars, mailVars,
            actorVars, brokerVars, faultVars
<1>t. TypeOK /\ TypeOK'
  BY TypeStep DEF Provenance
<1>1. ASSUME NEW n \in Node, NEW req \in Req, request_lost(n, req)
      PROVE  Lifecycle'
  <2>1. /\ req \notin handled[n] /\ handled' = [handled EXCEPT ![n] = @ \cup {req}]
        /\ UNCHANGED <<report, player, keygen_runners, offline_state_runners,
                       local_share_store, signers, partial_sigs, outputs, inbox,
                       sent, outbox>>
    BY <1>1 DEF request_lost
  <2> QED BY <1>t, <2>1, RequestKeeps
<1>2. ASSUME NEW n \in Node, NEW req \in Req, handle_keygen_request(n, req)
      PROVE  Lifecycle'
  <2>1. /\ req \in Req \ handled[n]
        /\ handled' = [handled EXCEPT ![n] = @ \cup {req}]
        /\ report' = report \/ report' = [report EXCEPT ![n][req] = "processing"]
        /\ sent' = sent
        /\ \/ StopCoordinator(n)
           \/ /\ UNCHANGED <<signers, partial_sigs, outputs, inbox, sent, outbox,
                             offline_state_runners>>
              /\ \/ player' = player /\ keygen_runners' = keygen_runners
                 \/ /\ player' = [player EXCEPT ![n][RoomOf(req)] = NewPlayer]
                    /\ keygen_runners' =
                         [keygen_runners EXCEPT ![n] = @ \cup {RoomOf(req)}]
                    /\ report' = [report EXCEPT ![n][req] = "processing"]
                    /\ get_i(n, participant_public_keys[req]) # None
    BY <1>2, KeygenEffects
  <2>2. keygen_runners \in [Node -> SUBSET Room]
    BY <1>t DEF TypeOK
  <2>3. CASE StopCoordinator(n)
    BY <1>t, <2>1, <2>3, RequestStops
  <2>4. CASE ~StopCoordinator(n)
    <3>1. \/ player' = player /\ UNCHANGED <<keygen_runners, offline_state_runners>>
          \/ /\ player' = [player EXCEPT ![n][RoomOf(req)] = NewPlayer]
             /\ get_i(n, participant_public_keys[req]) # None
             /\ report' = [report EXCEPT ![n][req] = "processing"]
             /\ \A q \in Node :
                  keygen_runners'[q] \cup offline_state_runners'[q]
                    \subseteq keygen_runners[q] \cup offline_state_runners[q]
                                \cup (IF q = n THEN {RoomOf(req)} ELSE {})
      BY <2>1, <2>2, <2>4
    <3>2. UNCHANGED <<signers, partial_sigs, outputs, inbox, sent, outbox>>
      BY <2>1, <2>4
    <3> QED BY <1>t, <2>1, <3>1, <3>2, RequestKeeps
  <2> QED BY <2>3, <2>4
<1>3. ASSUME NEW n \in Node, NEW req \in Req, handle_sign_request(n, req)
      PROVE  Lifecycle'
  <2>1. /\ req \in Req \ handled[n]
        /\ handled' = [handled EXCEPT ![n] = @ \cup {req}]
        /\ report' = report \/ report' = [report EXCEPT ![n][req] = "processing"]
        /\ sent' = sent
        /\ \/ StopCoordinator(n)
           \/ /\ UNCHANGED <<signers, partial_sigs, outputs, inbox, sent, outbox,
                             keygen_runners>>
              /\ \/ player' = player /\ offline_state_runners' = offline_state_runners
                 \/ /\ player' = [player EXCEPT ![n][RoomOf(req)] = NewPlayer]
                    /\ offline_state_runners' =
                         [offline_state_runners EXCEPT ![n] = @ \cup {RoomOf(req)}]
                    /\ report' = [report EXCEPT ![n][req] = "processing"]
                    /\ get_i(n, participant_public_keys[req]) # None
    BY <1>3, SignEffects
  <2>2. offline_state_runners \in [Node -> SUBSET Room]
    BY <1>t DEF TypeOK
  <2>3. CASE StopCoordinator(n)
    BY <1>t, <2>1, <2>3, RequestStops
  <2>4. CASE ~StopCoordinator(n)
    <3>1. \/ player' = player /\ UNCHANGED <<keygen_runners, offline_state_runners>>
          \/ /\ player' = [player EXCEPT ![n][RoomOf(req)] = NewPlayer]
             /\ get_i(n, participant_public_keys[req]) # None
             /\ report' = [report EXCEPT ![n][req] = "processing"]
             /\ \A q \in Node :
                  keygen_runners'[q] \cup offline_state_runners'[q]
                    \subseteq keygen_runners[q] \cup offline_state_runners[q]
                                \cup (IF q = n THEN {RoomOf(req)} ELSE {})
      BY <2>1, <2>2, <2>4
    <3>2. UNCHANGED <<signers, partial_sigs, outputs, inbox, sent, outbox>>
      BY <2>1, <2>4
    <3> QED BY <1>t, <2>1, <3>1, <3>2, RequestKeeps
  <2> QED BY <2>3, <2>4
<1>4. ASSUME NEW n \in Node, NEW env \in wire[n], handle_incoming(n, env)
      PROVE  Lifecycle'
  <2>0. env \in Envelope
    BY <1>t DEF TypeOK
  <2>1. /\ UNCHANGED <<handled, report, sent>>
        /\ \/ StopCoordinator(n)
           \/ /\ UNCHANGED <<player, outputs, signers, partial_sigs, keygen_runners,
                             offline_state_runners, outbox>>
              /\ \/ \E e \in maybe_decrypt(n, env) :
                       handle_incoming_unsafe(n, timers[n], e, 0)
                 \/ UNCHANGED inbox
    BY <1>4, IncomingEffects DEF DropIncoming
  <2>2. CASE StopCoordinator(n)
    BY <1>t, <2>1, <2>2, StopLife
  <2>3. CASE ~StopCoordinator(n)
    <3>1. \A q \in Node : \A e \in inbox'[q] :
             e \in inbox[q] \/ (e \in Envelope /\ HasHandler(q, e.msg))
      <4>1. CASE \E e \in maybe_decrypt(n, env) :
                   handle_incoming_unsafe(n, timers[n], e, 0)
        <5>1. PICK e \in maybe_decrypt(n, env) :
                     handle_incoming_unsafe(n, timers[n], e, 0)
          BY <4>1
        <5>2. e \in Envelope
          BY <2>0, DecryptType
        <5>3. \A q \in Node : \A z \in inbox'[q] :
                 z \in inbox[q] \/ (z = e /\ q = n /\ HasHandler(n, e.msg))
          <6>1. timers[n] \subseteq timers[n]
            OBVIOUS
          <6> QED BY <1>t, <5>1, <6>1, DispatchEffect
        <5> QED BY <5>2, <5>3
      <4>2. CASE inbox' = inbox
        BY <4>2
      <4> QED BY <2>1, <2>3, <4>1, <4>2
    <3> QED BY <1>t, <2>1, <2>3, <3>1, MovesKeep DEF Within
  <2> QED BY <2>2, <2>3
<1>5. ASSUME NEW n \in Node, NEW x \in timers[n], handle_retry(n, x)
      PROVE  Lifecycle'
  <2>0. x.env \in Envelope
    BY <1>t DEF TypeOK, RetryMessage
  <2>1. /\ UNCHANGED <<handled, report, sent>>
        /\ \/ StopCoordinator(n)
           \/ /\ UNCHANGED <<player, outputs, signers, partial_sigs, keygen_runners,
                             offline_state_runners, outbox>>
              /\ \/ \E e \in {x.env} \cup maybe_decrypt(n, x.env) :
                       handle_incoming_unsafe(n, timers[n] \ {x}, e, x.attempts)
                 \/ UNCHANGED inbox
    BY <1>5, RetriedEffects
  <2>2. CASE StopCoordinator(n)
    BY <1>t, <2>1, <2>2, StopLife
  <2>3. CASE ~StopCoordinator(n)
    <3>1. \A q \in Node : \A e \in inbox'[q] :
             e \in inbox[q] \/ (e \in Envelope /\ HasHandler(q, e.msg))
      <4>1. CASE \E e \in {x.env} \cup maybe_decrypt(n, x.env) :
                   handle_incoming_unsafe(n, timers[n] \ {x}, e, x.attempts)
        <5>1. PICK e \in {x.env} \cup maybe_decrypt(n, x.env) :
                   handle_incoming_unsafe(n, timers[n] \ {x}, e, x.attempts)
          BY <4>1
        <5>2. e \in Envelope
          BY <2>0, DecryptType
        <5>3. /\ \A q \in Node : \A y \in timers'[q] : y \in timers[q] \/ y.env = e
              /\ \A q \in Node : \A z \in inbox'[q] :
                   z \in inbox[q] \/ (z = e /\ q = n /\ HasHandler(n, e.msg))
          BY <1>t, <5>1, DispatchFromTimer
        <5> QED BY <5>2, <5>3
      <4>2. CASE UNCHANGED inbox
        BY <4>2
      <4> QED BY <2>1, <2>3, <4>1, <4>2
    <3> QED BY <1>t, <2>1, <2>3, <3>1, MovesKeep DEF Within
  <2> QED BY <2>2, <2>3
<1>6. ASSUME NEW n \in Node, NEW env \in errors[n], handle_protocol_error(n, env)
      PROVE  Lifecycle'
  <2>1. UNCHANGED <<handled, report, player, outputs, signers, partial_sigs,
                    keygen_runners, offline_state_runners,
                    sent, outbox, inbox>>
    BY <1>6 DEF handle_protocol_error
  <2> QED BY <1>t, <2>1, MovesKeep DEF Within
<1>7. ASSUME NEW n \in Node, NEW m \in outbox[n],
             \/ send_one(n, m) \/ encrypt_fails(n, m)
             \/ send_lost(n, m) \/ send_fails(n, m)
      PROVE  Lifecycle'
  <2>1. TakeOut(n, m) /\ (Broadcast(n, m) \/ UNCHANGED brokerVars)
    BY <1>7, SendEffects
  <2>2. /\ UNCHANGED <<handled, report, player, outputs, signers, partial_sigs,
                       keygen_runners, offline_state_runners,
                       inbox>>
        /\ outbox' = [outbox EXCEPT ![n] = @ \ {m}]
    BY <2>1 DEF TakeOut
  <2>3. m \in Msg /\ \A e \in maybe_encrypt(n, m) : e.msg = m
    BY <1>t, EncryptType DEF TypeOK
  <2>4. \A e \in sent' : e \in sent \/ \E q \in Node : e.msg \in outbox[q]
    BY <2>1, <2>3 DEF Broadcast
  <2>5. Within(outbox', outbox)
    BY <1>t, <2>2 DEF Within, TypeOK
  <2> QED BY <1>t, <2>2, <2>4, <2>5, MovesKeep
<1>8. ASSUME NEW n \in Node,
             \/ send_panics(n) \/ stream_finished(n)
             \/ \E env \in sent : redeliver(n, env)
      PROVE  Lifecycle'
  <2>1. CASE send_panics(n) \/ stream_finished(n)
    <3>1. StopCoordinator(n) /\ UNCHANGED <<handled, report, sent>>
      BY <2>1 DEF send_panics, stream_finished
    <3> QED BY <1>t, <3>1, StopLife
  <2>2. CASE \E env \in sent : redeliver(n, env)
    <3>1. UNCHANGED <<handled, report, player, outputs, signers, partial_sigs,
                      keygen_runners, offline_state_runners, sent, outbox, inbox>>
      BY <2>2 DEF redeliver
    <3> QED BY <1>t, <3>1, MovesKeep DEF Within
  <2> QED BY <1>8, <2>1, <2>2
<1>9. ASSUME NEW n \in Node, NEW room \in Room, player_maybe_proceed(n, room)
      PROVE  Lifecycle'
  <2>1. /\ player[n][room].phase # "none"
        /\ maybe_proceed(n, room, player[n][room].store, FALSE)
        /\ UNCHANGED <<handled, report, signers, partial_sigs,
                       keygen_runners, offline_state_runners, sent, inbox>>
    BY <1>9 DEF player_maybe_proceed
  <2>2. player[n][room].store \in SUBSET (Nat \X Nat)
    BY <1>t DEF TypeOK, PlayerState
  <2> QED BY <1>t, <2>1, <2>2, ProceedLife DEF Within
<1>10. ASSUME NEW n \in Node, NEW env \in inbox[n], player_handle(n, env)
       PROVE  Lifecycle'
  <2> DEFINE room == env.msg.room
             p == player[n][room]
  <2>1. /\ UNCHANGED <<handled, report, signers, partial_sigs,
                       keygen_runners, offline_state_runners, sent>>
        /\ inbox' = [inbox EXCEPT ![n] = @ \ {env}]
        /\ env.msg.kind # "S"
        /\ \/ UNCHANGED <<player, outbox, outputs>>
           \/ maybe_proceed(n, room, p.store, TRUE)
           \/ maybe_proceed(n, room, StoreWith(p, env.msg), TRUE)
    BY <1>10 DEF player_handle
  <2>2. inbox \in [Node -> SUBSET Envelope] /\ player \in [Node -> [Room -> PlayerState]]
    BY <1>t DEF TypeOK
  <2>3. env.msg \in Msg /\ room \in Room
    BY <2>2 DEF Envelope, Msg
  <2>4. Within(inbox', inbox)
    BY <2>1, <2>2 DEF Within
  <2>5. p.phase # "none"
    BY <2>1 DEF Lifecycle, RunnersStarted
  <2>6. /\ p.store \in SUBSET (Nat \X Nat)
        /\ StoreWith(p, env.msg) \in SUBSET (Nat \X Nat)
    <3>1. p.store \in SUBSET (Nat \X Nat)
      BY <2>2, <2>3 DEF PlayerState
    <3>2. env.msg.sender \in Nat /\ env.msg.round \in Nat
      BY <2>3 DEF Msg
    <3> QED BY <3>1, <3>2 DEF StoreWith
  <2>7. CASE UNCHANGED <<player, outbox, outputs>>
    BY <1>t, <2>1, <2>4, <2>7, MovesKeep DEF Within
  <2>8. CASE maybe_proceed(n, room, p.store, TRUE)
    BY <1>t, <2>1, <2>3, <2>4, <2>5, <2>6, <2>8, ProceedLife
  <2>9. CASE maybe_proceed(n, room, StoreWith(p, env.msg), TRUE)
    BY <1>t, <2>1, <2>3, <2>4, <2>5, <2>6, <2>9, ProceedLife
  <2> QED BY <2>1, <2>7, <2>8, <2>9
<1>11. ASSUME NEW n \in Node, NEW env \in inbox[n],
              player_proceed_fails(n, env) \/ signer_handle(n, env)
       PROVE  Lifecycle'
  BY <1>t, <1>11, FailedLife, SignerKeepsLife
<1>12. ASSUME NEW n \in Node, NEW room \in Room,
              \/ handle_output_keygen(n, room) \/ handle_output_sign(n, room)
              \/ handle_output_keygen_unsaved(n, room)
              \/ handle_output_offline(n, room)
       PROVE  Lifecycle'
  BY <1>t, <1>12, ResultKeepsLife, OfflineKeepsLife
<1>13. ASSUME NEW n \in Node, restart(n)
       PROVE  Lifecycle'
  BY <1>t, <1>13, RestartKeepsLife
<1>14. CASE UNCHANGED vars
  <2>1. UNCHANGED <<handled, report, player, outputs, signers, partial_sigs,
                    keygen_runners, offline_state_runners,
                    sent, outbox, inbox>>
    BY <1>14 DEF vars
  <2> QED BY <1>t, <2>1, MovesKeep DEF Within
<1> QED BY <1>1, <1>2, <1>3, <1>4, <1>5, <1>6, <1>7, <1>8, <1>9, <1>10, <1>11,
           <1>12, <1>13, <1>14
        DEF Next, NodeStep, RequestStep, FaultStep

(* On every server the players, outputs and signers of a request agree with
   the status it reports. *)
THEOREM LifecycleHolds == Spec => [](Provenance /\ Lifecycle)
<1>1. Init => Provenance /\ Lifecycle
  BY ProvenanceInit, LifecycleInit
<1>2. (Provenance /\ Lifecycle) /\ [Next]_vars => (Provenance /\ Lifecycle)'
  BY ProvenanceStep, LifecycleStep
<1> QED BY <1>1, <1>2, PTL DEF Spec

(* A finished protocol hands its result over once: a keygen's or signature's
   output finds its request still "processing". *)
THEOREM ResultOnceHolds == Spec => []ResultOnce
<1>1. Provenance /\ Lifecycle => ResultOnce
  <2> SUFFICES ASSUME Provenance, Lifecycle, NEW n \in Node, NEW o \in outputs[n]
               PROVE  report[n][o[2][1]] = "processing"
    BY DEF ResultOnce
  <2>1. o \in Output
    BY DEF Provenance, TypeOK
  <2>2. o[2] \in Room
    BY <2>1 DEF Output
  <2> QED BY <2>2 DEF Lifecycle, RoomsLive, RoomLife, OutputLife
<1> QED BY <1>1, LifecycleHolds, PTL

-----------------------------------------------------------------------------
(* The servers together implement JointRequest. *)

(* Who takes part in a request, in terms of its room. *)
LEMMA ParticipantFacts ==
    ASSUME NEW req \in Req, NEW n \in Node
    PROVE  n \in JointParticipants[req] <=> get_i(n, participant_public_keys[req]) # None
  BY RoomOfFacts DEF JointParticipants, ParticipantsOf

(* An output under way took the work of every other participant, so all of
   them have published for the request. *)
LEMMA EarnedByAll ==
    ASSUME Provenance, Lifecycle, NEW n \in Node, NEW o \in outputs[n],
           NEW m \in JointParticipants[o[2][1]] \ {n}
    PROVE  <<m, o[2][1]>> \in JoinedIn
<1> DEFINE room == o[2]
           j == Me(m, room)
<1>0. TypeOK
  BY DEF Provenance
<1>1. o \in Output
  BY <1>0 DEF TypeOK
<1>2. room \in Room
  BY <1>1 DEF Output
<1>3. room[1] \in Req /\ room = RoomOf(room[1])
  BY <1>2, RoomFacts
<1>4. m \in Node /\ j # None
  BY <1>3 DEF JointParticipants, ParticipantsOf
<1>5. j \in Parties(room) /\ Members(room)[j] = m
  BY <1>2, <1>4, MeType
<1>6. j # Me(n, room)
  <2>1. ASSUME j = Me(n, room) PROVE FALSE
    <3>1. Members(room)[j] = n
      BY <1>2, <1>4, <2>1, MeType
    <3> QED BY <1>5, <3>1
  <2> QED BY <2>1
<1>7. RoundsBelow(room, Me(n, room), LastRound(room) + 1)
  BY DEF Provenance, OutputsEarned
<1>8. 1 \in 1..((LastRound(room) + 1) - 1)
  BY <1>2, RoomFacts
<1>9. Published(room, PlayerKind(room), 1, j, Me(n, room))
  BY <1>5, <1>6, <1>7, <1>8 DEF RoundsBelow
<1>10. PICK e \in sent : e.msg.room = room /\ e.msg.sender = j
  BY <1>9 DEF Published
<1>11. e.msg.key \in Node
  BY <1>0 DEF TypeOK, Envelope, Msg
<1>12. Me(e.msg.key, room) = j
  BY <1>10 DEF Lifecycle, MessagesFromParties, FromParty
<1>13. e.msg.key = m
  BY <1>2, <1>4, <1>5, <1>11, <1>12, MeType
<1> QED BY <1>10, <1>13 DEF JoinedIn

(* The initial states are initial states of JointRequest. *)
LEMMA JointInit == Init => J!Init
<1> SUFFICES ASSUME Init PROVE J!Init
  OBVIOUS
<1>1. \A n \in Node, req \in Req :
         n \in JointParticipants[req] <=> get_i(n, participant_public_keys[req]) # None
  BY ParticipantFacts
<1>2. report = [n \in Node |-> [req \in Req |->
         IF req \in PreKeys /\ n \in JointParticipants[req]
         THEN "done" ELSE "none"]]
  BY <1>1 DEF Init
<1>3. local_share_store = [n \in Node |-> {k \in PreKeys : n \in JointParticipants[k]}]
  BY <1>1, CoordinatorAssumption DEF Init, Req
<1>4. JoinedIn = {} /\ restarted = {}
  BY DEF Init, JoinedIn
<1> QED BY <1>2, <1>3, <1>4 DEF J!Init

(* A step that JointRequest does not see. *)
LEMMA JointStutter ==
    ASSUME UNCHANGED <<report, local_share_store, sent, restarted>>
    PROVE  UNCHANGED J!vars
  BY DEF J!vars, JoinedIn

(* A server takes a request on. *)
LEMMA AcceptStep ==
    ASSUME Lifecycle, NEW n \in Node, NEW req \in Req \ handled[n],
           KeysNeeded[req] \subseteq local_share_store[n],
           report' = [report EXCEPT ![n][req] = "processing"],
           UNCHANGED <<local_share_store, sent, restarted>>
    PROVE  J!Next
<1>1. report[n][req] = "none"
  BY DEF Lifecycle, FreshRequests
<1>2. JoinedIn' = JoinedIn
  BY DEF JoinedIn
<1> QED BY <1>1, <1>2 DEF J!Next, J!Accept

(* A server's message becomes visible. *)
LEMMA PublishStep ==
    ASSUME TypeOK, Lifecycle, NEW n \in Node, NEW m \in outbox[n], Broadcast(n, m),
           UNCHANGED <<report, local_share_store, restarted>>
    PROVE  J!Next \/ UNCHANGED J!vars
<1> DEFINE req == m.room[1]
<1>0. m \in Msg
  BY DEF TypeOK
<1>1. m.room \in Room /\ \A e \in maybe_encrypt(n, m) : e.msg = m
  BY <1>0, EncryptType DEF Msg
<1>2. req \in Req /\ m.room = RoomOf(req)
  BY <1>1, RoomFacts
<1>3. m.key = n /\ Me(n, m.room) # None /\ report[n][req] # "none"
  BY DEF Lifecycle, MessagesFromParties, FromParty
<1>4. n \in JointParticipants[req]
  BY <1>2, <1>3 DEF JointParticipants, ParticipantsOf
<1>5. sent' = sent \cup maybe_encrypt(n, m)
  BY DEF Broadcast
<1>6. CASE maybe_encrypt(n, m) = {}
  BY <1>5, <1>6, JointStutter
<1>7. CASE maybe_encrypt(n, m) # {}
  <2>1. JoinedIn' = JoinedIn \cup {<<n, req>>}
    BY <1>1, <1>3, <1>5, <1>7 DEF JoinedIn
  <2> HIDE DEF req
  <2> QED BY <1>2, <1>3, <1>4, <2>1 DEF J!Next, J!Join
<1> QED BY <1>6, <1>7

(* A keygen's or a signature's output arrives. *)
LEMMA FinishStep ==
    ASSUME Provenance, Lifecycle, NEW n \in Node, NEW room \in Room,
           NEW kind \in {"KG", "S"}, <<kind, room>> \in outputs[n],
           report' = [report EXCEPT ![n][room[1]] = "done"],
           \/ UNCHANGED local_share_store
           \/ /\ kind = "KG"
              /\ local_share_store' = [local_share_store EXCEPT ![n] = @ \cup {room[1]}],
           UNCHANGED <<sent, restarted>>
    PROVE  J!Next
<1> DEFINE req == room[1]
<1>1. req \in Req /\ room = RoomOf(req)
  BY RoomFacts
<1>2. <<kind, room>>[2] = room /\ <<kind, room>>[1] = kind
  OBVIOUS
<1>3. RoomLife(n, room) /\ OutputLife(n, room, kind)
  BY <1>2 DEF Lifecycle, RoomsLive, RoomLife
<1>4. report[n][req] = "processing" /\ Me(n, room) # None
  BY <1>3 DEF RoomLife, PlayerLife, OutputLife
<1>5. n \in JointParticipants[req]
  BY <1>1, <1>4 DEF JointParticipants, ParticipantsOf
<1>6. \A m \in JointParticipants[req] \ {n} : <<m, req>> \in JoinedIn
  BY <1>2, EarnedByAll
<1>7. kind = "KG" => req \in KeygenReq
  <2>1. <<kind, room>> \in Output
    BY DEF Provenance, TypeOK
  <2> QED BY <2>1 DEF Output, PlayerKind
<1>8. local_share_store' \in
        {local_share_store,
         [local_share_store EXCEPT ![n] = @ \cup ({req} \cap KeygenReq)]}
  <2>1. kind = "KG" => {req} \cap KeygenReq = {req}
    BY <1>7
  <2> HIDE DEF req
  <2>2. req = room[1]
    BY DEF req
  <2> QED BY <2>1, <2>2
<1>9. JoinedIn' = JoinedIn
  BY DEF JoinedIn
<1>10. report' = [report EXCEPT ![n][req] = "done"]
  OBVIOUS
<1> HIDE DEF req
<1> QED BY <1>1, <1>4, <1>5, <1>6, <1>8, <1>9, <1>10 DEF J!Next, J!Finish

(* A server is killed and started again. *)
LEMMA CrashStep ==
    ASSUME TypeOK, NEW n \in Node, restart(n)
    PROVE  J!Next
<1>1. /\ n \notin restarted /\ restarted' = restarted \cup {n} /\ sent' = sent
  BY DEF restart
<1>2. JoinedIn' = JoinedIn
  BY <1>1 DEF JoinedIn
<1>3. PICK known \in [Req -> Status] :
        /\ \A req \in Req :
             known[req] \in {report[n][req], "none"} \cup UpTo(report[n][req])
        /\ report' = [report EXCEPT ![n] = known]
  BY DEF restart, ReopenResults
<1>4. \A req \in Req : \/ known[req] = report[n][req]
                       \/ known[req] = "none"
                       \/ report[n][req] = "done"
  <2>1. \A st \in Status : \A k \in UpTo(st) : k = st \/ k = "none" \/ st = "done"
    BY DEF UpTo, Status
  <2>2. \A req \in Req : report[n][req] \in Status
    BY DEF TypeOK
  <2> QED BY <1>3, <2>1, <2>2
<1>5. \E held \in SUBSET local_share_store[n] :
        local_share_store' = [local_share_store EXCEPT ![n] = held]
  BY DEF restart, ReopenShares
<1>6. J!Crash(n)
  BY <1>1, <1>2, <1>3, <1>4, <1>5 DEF J!Crash, Status
<1> QED BY <1>6 DEF J!Next

(* Every step is a step of JointRequest or one that it does not see. *)
LEMMA JointStep == Provenance /\ Lifecycle /\ [Next]_vars => [J!Next]_(J!vars)
<1> SUFFICES ASSUME Provenance, Lifecycle, [Next]_vars
             PROVE  J!Next \/ UNCHANGED J!vars
  OBVIOUS
<1> USE DEF storeVars, apiVars, brokerVars, faultVars
<1>t. TypeOK
  BY DEF Provenance
<1>1. ASSUME NEW n \in Node, NEW req \in Req, handle_keygen_request(n, req)
      PROVE  J!Next
  <2>1. /\ req \in KeygenReq \ handled[n]
        /\ report' = [report EXCEPT ![n][req] = "processing"]
        /\ UNCHANGED <<local_share_store, sent, restarted>>
    BY <1>1, KeygenEffects
  <2>2. KeysNeeded[req] = {}
    BY <2>1, GroupsAssumption DEF KeysNeeded
  <2> QED BY <2>1, <2>2, AcceptStep
<1>2. ASSUME NEW n \in Node, NEW req \in Req, handle_sign_request(n, req)
      PROVE  J!Next \/ UNCHANGED J!vars
  <2>1. /\ req \in SignReq \ handled[n]
        /\ \/ report' = report
           \/ /\ report' = [report EXCEPT ![n][req] = "processing"]
              /\ public_key[req] \in local_share_store[n]
        /\ UNCHANGED <<local_share_store, sent, restarted>>
    BY <1>2, SignEffects
  <2>2. KeysNeeded[req] = {public_key[req]}
    BY <2>1 DEF KeysNeeded
  <2>3. CASE report' = report
    BY <2>1, <2>3, JointStutter
  <2>4. CASE /\ report' = [report EXCEPT ![n][req] = "processing"]
             /\ public_key[req] \in local_share_store[n]
    BY <2>1, <2>2, <2>4, AcceptStep
  <2> QED BY <2>1, <2>3, <2>4
<1>3. ASSUME NEW n \in Node, NEW room \in Room,
             \/ handle_output_keygen(n, room) \/ handle_output_sign(n, room)
             \/ handle_output_keygen_unsaved(n, room)
      PROVE  J!Next
  <2>1. PICK kind \in {"KG", "S"} :
          /\ <<kind, room>> \in outputs[n]
          /\ report' = [report EXCEPT ![n][room[1]] = "done"]
          /\ \/ UNCHANGED local_share_store
             \/ /\ kind = "KG"
                /\ local_share_store' =
                     [local_share_store EXCEPT ![n] = @ \cup {room[1]}]
          /\ UNCHANGED <<sent, restarted>>
    BY <1>3 DEF handle_output_keygen, handle_output_keygen_unsaved, handle_output_sign
  <2> QED BY <2>1, FinishStep
<1>4. ASSUME NEW n \in Node, NEW room \in Room, handle_output_offline(n, room)
      PROVE  UNCHANGED <<report, local_share_store, sent, restarted>>
  BY <1>t, <1>4, OfflineKeepsLife DEF handle_output_offline
<1>5. ASSUME NEW n \in Node, NEW req \in Req, request_lost(n, req)
      PROVE  UNCHANGED <<report, local_share_store, sent, restarted>>
  BY <1>5 DEF request_lost
<1>6. ASSUME NEW n \in Node,
             \/ \E env \in wire[n] : handle_incoming(n, env)
             \/ \E x \in timers[n] : handle_retry(n, x)
             \/ \E env \in errors[n] : handle_protocol_error(n, env)
             \/ send_panics(n) \/ stream_finished(n)
             \/ \E env \in sent : redeliver(n, env)
      PROVE  UNCHANGED <<report, local_share_store, sent, restarted>>
  <2>1. ASSUME NEW env \in wire[n], handle_incoming(n, env)
        PROVE  UNCHANGED <<report, local_share_store, sent, restarted>>
    BY <2>1, IncomingEffects
  <2>2. ASSUME NEW x \in timers[n], handle_retry(n, x)
        PROVE  UNCHANGED <<report, local_share_store, sent, restarted>>
    BY <2>2, RetriedEffects
  <2>3. ASSUME NEW env \in errors[n], handle_protocol_error(n, env)
        PROVE  UNCHANGED <<report, local_share_store, sent, restarted>>
    BY <2>3 DEF handle_protocol_error
  <2>4. CASE send_panics(n) \/ stream_finished(n)
    BY <2>4 DEF send_panics, stream_finished
  <2>5. ASSUME NEW env \in sent, redeliver(n, env)
        PROVE  UNCHANGED <<report, local_share_store, sent, restarted>>
    BY <2>5 DEF redeliver
  <2> QED BY <1>6, <2>1, <2>2, <2>3, <2>4, <2>5
<1>7. ASSUME NEW n \in Node, NEW m \in outbox[n],
             \/ send_one(n, m) \/ encrypt_fails(n, m)
             \/ send_lost(n, m) \/ send_fails(n, m)
      PROVE  J!Next \/ UNCHANGED J!vars
  <2>1. /\ UNCHANGED <<report, local_share_store, restarted>>
        /\ Broadcast(n, m) \/ UNCHANGED sent
    BY <1>7, SendEffects DEF TakeOut
  <2> QED BY <1>t, <2>1, PublishStep, JointStutter
<1>8. ASSUME NEW n \in Node,
             \/ \E room \in Room : player_maybe_proceed(n, room)
             \/ \E env \in inbox[n] : player_handle(n, env)
             \/ \E env \in inbox[n] : player_proceed_fails(n, env)
             \/ \E env \in inbox[n] : signer_handle(n, env)
      PROVE  UNCHANGED <<report, local_share_store, sent, restarted>>
  <2>1. ASSUME NEW room \in Room, player_maybe_proceed(n, room)
        PROVE  UNCHANGED <<report, local_share_store, sent, restarted>>
    BY <2>1 DEF player_maybe_proceed
  <2>2. ASSUME NEW env \in inbox[n], player_handle(n, env)
        PROVE  UNCHANGED <<report, local_share_store, sent, restarted>>
    BY <2>2 DEF player_handle
  <2>3. ASSUME NEW env \in inbox[n], player_proceed_fails(n, env)
        PROVE  UNCHANGED <<report, local_share_store, sent, restarted>>
    BY <2>3 DEF player_proceed_fails
  <2>4. ASSUME NEW env \in inbox[n], signer_handle(n, env)
        PROVE  UNCHANGED <<report, local_share_store, sent, restarted>>
    BY <2>4 DEF signer_handle
  <2> QED BY <1>8, <2>1, <2>2, <2>3, <2>4
<1>9. ASSUME NEW n \in Node, restart(n)
      PROVE  J!Next
  BY <1>t, <1>9, CrashStep
<1>10. CASE UNCHANGED vars
  BY <1>10, JointStutter DEF vars
<1> QED BY <1>1, <1>2, <1>3, <1>4, <1>5, <1>6, <1>7, <1>8, <1>9, <1>10, JointStutter
        DEF Next, NodeStep, RequestStep, FaultStep

(* What the servers report and hold for a request implements JointRequest,
   whatever the retries, faults and restarts: no server is done before every
   other participant has published for the request, a status goes back only in
   a crash of its server, a share comes from a finished keygen only, and nobody
   takes a signature on without the share of its key. *)
THEOREM ImplementsJointRequest == Spec => JointSpec
<1>1. Spec => [](Provenance /\ Lifecycle)
  BY LifecycleHolds
<1> QED BY <1>1, JointInit, JointStep, PTL DEF Spec, JointSpec, J!Spec
=============================================================================

--------------------------- MODULE CoordinatorInv ----------------------------
(***************************************************************************)
(* The inductive invariant behind RoundBarrier and DoneNeedsAll: whatever  *)
(* a server holds was published, and whatever it is about to publish or    *)
(* report it has heard enough for.                                         *)
(***************************************************************************)
EXTENDS Coordinator

(* A message, whichever delivery of it this is, was published. *)
FromSent(m) == \E e \in sent : e.msg = [m EXCEPT !.copy = 0]

(* Messages under way come from the broker. *)
InTransit ==
    \A n \in Node :
      /\ \A e \in wire[n] \cup inbox[n] \cup errors[n] : FromSent(e.msg)
      /\ \A x \in timers[n] : FromSent(x.env.msg)

(* A room carries the messages of its own protocol, and partial signatures. *)
KindOk(m) == m.kind \in {"S", PlayerKind(m.room)}

KindsOk ==
    /\ \A e \in sent : KindOk(e.msg) /\ e.msg.copy = 0
    /\ \A n \in Node : \A m \in outbox[n] : KindOk(m) /\ m.copy = 0

(* What a player has stored was published, to it. *)
StoreHeard ==
    \A n \in Node, room \in Room : \A q \in player[n][room].store :
        Published(room, PlayerKind(room), q[2], q[1], Me(n, room))

(* A player has left only complete rounds. *)
RoundsPassed ==
    \A n \in Node, room \in Room :
      \A k \in 1..(player[n][room].round - 1) :
        Complete(room, Me(n, room), player[n][room].store, k)

(* The barrier already holds for the messages still to be sent. *)
OutboxBarrier ==
    \A n \in Node : \A m \in outbox[n] :
        RoundsBelow(m.room, m.sender,
                    IF m.kind = "S" THEN LastRound(m.room) + 1 ELSE m.round)

(* Every other party's partial signature was published. *)
SigsPublished(room, i) ==
    \A j \in Parties(room) \ {i} : Published(room, "S", 1, j, i)

(* An output was earned. *)
OutputsEarned ==
    \A n \in Node : \A o \in outputs[n] :
      /\ RoundsBelow(o[2], Me(n, o[2]), LastRound(o[2]) + 1)
      /\ o[1] = "S" => SigsPublished(o[2], Me(n, o[2]))

(* A signer exists only after its offline stage, and only signers get partial
   signatures. *)
SignersReady ==
    \A n \in Node :
      /\ \A room \in signers[n] : RoundsBelow(room, Me(n, room), LastRound(room) + 1)
      /\ \A e \in inbox[n] : e.msg.kind = "S" => e.msg.room \in signers[n]

(* What a signer has collected was published. *)
SigsHeard ==
    \A n \in Node, room \in Room : \A x \in DOMAIN partial_sigs[n][room] :
        Published(room, "S", 1, partial_sigs[n][room][x].sender, Me(n, room))

(* A partial signature is a broadcast of round 1. *)
SigForm(m) == m.kind = "S" => m.round = 1 /\ m.receiver = None

SigsFormed ==
    /\ \A e \in sent : SigForm(e.msg)
    /\ \A n \in Node : \A m \in outbox[n] : SigForm(m)

(* Everything a server holds, sends or reports rests on published messages:
   the coordinator's and the players' state agrees with the history of the
   broker through retries, redelivery, failures and restarts. *)
Provenance ==
    /\ TypeOK
    /\ InTransit
    /\ KindsOk
    /\ SigsFormed
    /\ StoreHeard
    /\ RoundsPassed
    /\ OutboxBarrier
    /\ OutputsEarned
    /\ SignersReady
    /\ SigsHeard
    /\ RoundBarrier
    /\ DoneNeedsAll

-----------------------------------------------------------------------------
(* The life of a request on one server, behind ResultOnce and JointSpec: what *)
(* its player, its outputs and its signer say of the status it reports.       *)

(* A request not handed over yet has no status. *)
FreshRequests ==
    \A n \in Node : \A req \in Req \ handled[n] : report[n][req] = "none"

(* Enough partial signatures have been counted for the one result. *)
Counted(n, room) == Len(partial_sigs[n][room]) >= Len(Members(room)) - 1

(* A player exists for a request that was handed over, to a participant; in
   its rounds it has given no result yet. *)
PlayerLife(n, room) ==
    /\ player[n][room].phase = "none" => player[n][room].store = {}
    /\ player[n][room].phase # "none" =>
         /\ room[1] \in handled[n]
         /\ Me(n, room) # None
         /\ report[n][room[1]] # "none"
    /\ player[n][room].phase = "live" =>
         /\ report[n][room[1]] = "processing"
         /\ room \notin signers[n]

(* A signer follows its offline player; until it has counted enough, its
   request is not done. *)
SignerLife(n, room) ==
    IF room \in signers[n]
    THEN /\ player[n][room].phase = "gone"
         /\ PlayerKind(room) = "O"
         /\ Counted(n, room) \/ report[n][room[1]] = "processing"
    ELSE partial_sigs[n][room] = << >>

(* An output under way is the first of its kind. *)
OutputLife(n, room, kind) ==
    /\ player[n][room].phase = "gone"
    /\ report[n][room[1]] = "processing"
    /\ kind = "O" => room \notin signers[n]
    /\ kind = "S" => room \in signers[n] /\ Counted(n, room)

RoomLife(n, room) ==
    /\ PlayerLife(n, room)
    /\ SignerLife(n, room)
    /\ \A o \in outputs[n] : o[2] = room => OutputLife(n, room, o[1])

RoomsLive == \A n \in Node, room \in Room : RoomLife(n, room)

(* Messages for a player go to one that was started. *)
RunnersStarted ==
    \A n \in Node :
      /\ \A room \in keygen_runners[n] \cup offline_state_runners[n] :
            player[n][room].phase # "none"
      /\ \A e \in inbox[n] :
            e.msg.kind # "S" => player[n][e.msg.room].phase # "none"

(* A message speaks for its sender. *)
FromParty(m) == m.sender # None /\ m.sender = Me(m.key, m.room)

(* A server sends only its own messages, of requests it reports on. *)
MessagesFromParties ==
    /\ \A e \in sent : FromParty(e.msg)
    /\ \A n \in Node : \A m \in outbox[n] :
         /\ m.key = n /\ FromParty(m)
         /\ report[n][m.room[1]] # "none"

Lifecycle ==
    /\ FreshRequests
    /\ RoomsLive
    /\ RunnersStarted
    /\ MessagesFromParties

-----------------------------------------------------------------------------
(* The way of a message, behind DecryptOnce, EncryptNeverFails and            *)
(* NothingLost: which groups a server knows, and what is still sealed.        *)

GroupKnown(n, room) == \E g \in group_store[n] : group_id(g) = room[2]

(* A server knows the group of every room it plays in or sends to. *)
GroupsKnown ==
    \A n \in Node :
      /\ \A room \in Room : player[n][room].phase # "none" => GroupKnown(n, room)
      /\ \A m \in outbox[n] : m.receiver # None =>
            m.receiver \in Parties(m.room) /\ GroupKnown(n, m.room)

(* A body is sealed for the receiver it names, and only then. *)
SealedRight(e) ==
    IF e.msg.receiver = None THEN e.lock = Plain
    ELSE /\ e.lock # Plain
         /\ WellNamed(e.msg.room) => /\ e.msg.receiver \in Parties(e.msg.room)
                                     /\ e.lock = Members(e.msg.room)[e.msg.receiver]

Seals ==
    /\ \A e \in sent : SealedRight(e)
    /\ \A n \in Node :
         /\ \A e \in wire[n] : SealedRight(e)
         /\ \A e \in inbox[n] \cup errors[n] : e.lock = Plain
         /\ \A x \in timers[n] : IF x.check_passed THEN x.env.lock = Plain
                                  ELSE SealedRight(x.env)

Delivery ==
    /\ GroupsKnown
    /\ Seals
    /\ NothingLost
=============================================================================

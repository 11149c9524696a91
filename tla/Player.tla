------------------------------- MODULE Player -------------------------------
(***************************************************************************)
(* One MpcPlayer actor (src/actors/player.rs) driving a round-based state  *)
(* machine, and the messages it exchanges.                                 *)
(*                                                                         *)
(* The state machines themselves (Keygen and OfflineStage of the           *)
(* multi-party-ecdsa crate, behind round-based's StateMachine trait) are   *)
(* external.  They are modelled by what player.rs relies on: a message     *)
(* store per round, a round that can be left once its store is complete,   *)
(* an error for a message of a round already left                          *)
(* (ReceivedOutOfOrderMessage) and another for a second message of the     *)
(* same sender and round (a store overwrite).                              *)
(***************************************************************************)
EXTENDS Groups

CONSTANTS KGRounds,   \* message rounds of the keygen state machine
          ORounds,    \* message rounds of the offline stage
          P2P         \* <<kind, round>> pairs whose messages name a receiver

(* The three payload types the coordinator can deserialise: MsgKG, MsgO and
   MsgS.  No payload parses as two of them. *)
Kind == {"KG", "O", "S"}

Rounds(kind) == CASE kind = "KG" -> KGRounds
                  [] kind = "O"  -> ORounds
                  [] kind = "S"  -> 1

(* The protocol a room's player runs. *)
PlayerKind(room) == IF room[1] \in KeygenReq THEN "KG" ELSE "O"

LastRound(room) == Rounds(PlayerKind(room))

ASSUME PlayerAssumption ==
    /\ KGRounds \in Nat \ {0}
    /\ ORounds \in Nat \ {0}
    /\ P2P \subseteq ({"KG", "O"} \X Nat)

-----------------------------------------------------------------------------
(* A protocol message on the wire: the room, what its payload deserialises
   to, the claimed sender index and the receiver, the sender_public_key, and
   which delivery of it this is. *)
Msg == [room: Room, kind: Kind, round: Nat, sender: Nat, receiver: Nat,
        key: Node, copy: Nat]

Message(room, kind, k, i, j, n) ==
    [room |-> room, kind |-> kind, round |-> k, sender |-> i,
     receiver |-> j, key |-> n, copy |-> 0]

(* What party i (server n) emits when it enters round k of a protocol: one
   message per other party in a point-to-point round, else one broadcast. *)
RoundMsgs(room, kind, k, i, n) ==
    IF <<kind, k>> \in P2P
    THEN {Message(room, kind, k, i, j, n) : j \in Parties(room) \ {i}}
    ELSE {Message(room, kind, k, i, None, n)}

-----------------------------------------------------------------------------
(* phase "none": no such actor; "gone": the state machine is R::Gone, after
   pick_output or after a failed round.  store holds the <<sender, round>>
   pairs taken in; round is current_round(); heard is msg_count # 0. *)
PlayerState == [phase: {"none", "live", "gone"}, round: Nat,
                store: SUBSET (Nat \X Nat), heard: BOOLEAN]

NoPlayer  == [phase |-> "none", round |-> 0, store |-> {}, heard |-> FALSE]
NewPlayer == [phase |-> "live", round |-> 0, store |-> {}, heard |-> FALSE]

(* Every other party's message of round k is in the store. *)
Complete(room, i, store, k) ==
    \A j \in Parties(room) \ {i} : <<j, k>> \in store

(* proceed() runs until it meets a round whose store wants more messages;
   LastRound + 1 is the final state. *)
ProceedsTo(room, i, store, r) ==
    /\ r \in 1..(LastRound(room) + 1)
    /\ \A k \in 1..(r - 1) : Complete(room, i, store, k)
    /\ r <= LastRound(room) => ~Complete(room, i, store, r)

(* The messages queued by the state machine on the way from round r0 to r. *)
QueuedMsgs(room, i, n, r0, r) ==
    UNION {RoundMsgs(room, PlayerKind(room), k, i, n) :
             k \in {q \in (r0 + 1)..r : q <= LastRound(room)}}

(* StateMachineKG::new and StateMachineO::new (external) refuse these. *)
KeygenStateOk(req) ==
    /\ Len(participant_public_keys[req]) >= 2
    /\ threshold[req] \in 1..(Len(participant_public_keys[req]) - 1)

OfflineStateOk(s_l) ==
    /\ Len(s_l) >= 2
    /\ \A a, b \in DOMAIN s_l : s_l[a] = s_l[b] => a = b
=============================================================================

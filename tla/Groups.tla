------------------------------- MODULE Groups -------------------------------
(***************************************************************************)
(* Identities, requests, groups and rooms (src/core/group.rs,              *)
(* src/utils/mod.rs and the request messages of proto/mpc.proto).          *)
(*                                                                         *)
(* A server is identified by its public key, so Node is the set of public  *)
(* keys.  A request is identified by its request_id; its content is given  *)
(* by the constant functions named after the fields of the request.        *)
(***************************************************************************)
EXTENDS Integers, Sequences

CONSTANTS Node,                    \* public keys of the servers
          Prefix,                  \* pk[2..10]: the 8 hex digits that name a key in a group id
          KeygenReq,               \* request_ids of keygen requests
          SignReq,                 \* request_ids of sign requests
          participant_public_keys, \* the participants each request lists, in order
          threshold,               \* t of each keygen request
          public_key,              \* the keygen whose result a sign request signs with
          IdGroup                  \* for each request_id with a '@': what follows the '@'

Req == KeygenReq \cup SignReq

(* Two keys that share their 8 digits would share group ids; 32 random bits
   are taken to be distinct. *)
ASSUME GroupsAssumption ==
    /\ KeygenReq \cap SignReq = {}
    /\ participant_public_keys \in [Req -> Seq(Node)]
    /\ threshold \in [KeygenReq -> Nat]
    /\ public_key \in [SignReq -> KeygenReq]
    /\ DOMAIN IdGroup \subseteq Req
    /\ \A req \in DOMAIN IdGroup : IdGroup[req] \in Seq(Nat)
    /\ Prefix \in [Node -> Nat]
    /\ \A a, b \in Node : Prefix[a] = Prefix[b] => a = b

(* Option::None for a party index or a receiver; indices start at 1. *)
None == 0

-----------------------------------------------------------------------------
(* The group id is the concatenation of the members' prefixes, in order. *)
group_id(pks) == [i \in DOMAIN pks |-> Prefix[pks[i]]]

(* The 1-based position of the first occurrence of a key, or None. *)
get_index(pks, pk) ==
    IF \E i \in DOMAIN pks : pks[i] = pk
    THEN CHOOSE i \in DOMAIN pks :
            pks[i] = pk /\ \A j \in DOMAIN pks : pks[j] = pk => i <= j
    ELSE None

(* Mutant: the bound is off by one, the last index is invalid. *)
get_public_key_but_last(pks, i) == IF i \in 1..(Len(pks) - 1) THEN {pks[i]} ELSE {}

(* The key at a 1-based index: the empty set is GroupError::InvalidIndex. *)
get_public_key(pks, i) == IF i \in DOMAIN pks THEN {pks[i]} ELSE {}

(* request_id "@" group_id. *)
make_room_id(req, gid) == <<req, gid>>

(* What follows the first '@': the group id, unless the request_id has a '@'. *)
extract_group_id(room) ==
    IF room[1] \in DOMAIN IdGroup THEN IdGroup[room[1]] ELSE room[2]

(* The room of a request, and all rooms. *)
RoomOf(req) == make_room_id(req, group_id(participant_public_keys[req]))
Room == {RoomOf(req) : req \in Req}

(* The participants of the request a room was made for, and their indices. *)
Members(room) == participant_public_keys[room[1]]
Parties(room) == DOMAIN Members(room)

(* room.contains(&pk[2..10]): the digits of a key occur in the group id or in
   the request_id. *)
RoomContains(room, n) ==
    \E id \in {room[2], extract_group_id(room)} : \E i \in DOMAIN id :
        id[i] = Prefix[n]
=============================================================================

---------------------------- MODULE MCCoordinator ----------------------------
(* Instances of Coordinator for TLC: each scenario is a set of requests. *)
EXTENDS CoordinatorInv, TLC

CONSTANTS a, b, c,             \* servers
          k, kOne,             \* keygen requests
          s, sDup, sFew, sAt   \* sign requests

MCPrefix == [n \in Node |-> CASE n = a -> 1 [] n = b -> 2 [] n = c -> 3]

(* Keygens and signatures in good order: the signers
   of s are listed in another order than in k. *)
ThreeParticipants == k :> <<a, b, c>> @@ s :> <<c, a>>
TwoParticipants == k :> <<a, b>> @@ s :> <<b, a>>
OneThreshold == k :> 1
SignsK == s :> k

(* All three servers sign. *)
ThreeSigners == k :> <<a, b, c>> @@ s :> <<c, a, b>>
TwoThreshold == k :> 2

(* A keygen alone. *)
KeygenParticipants == k :> <<a, b, c>>
TwoKeygen == k :> <<a, b>>
NoSigns == <<>>

(* Beside good requests, a keygen of one server alone, with too high a
   threshold: its own server refuses it, and the other one panics. *)
OneParticipants == k :> <<a, b>> @@ s :> <<b, a>> @@ kOne :> <<a>>
OneThresholds == k :> 1 @@ kOne :> 1

(* Requests the coordinators cannot serve, beside a good one: signs
   of one server twice and of too few servers.  The
   request_id of sAt ends in a '@' and the id of the group that sFew lists. *)
BadParticipants == k :> <<a, b>> @@ s :> <<b, a>>
                   @@ sDup :> <<a, a>> @@ sFew :> <<b>> @@ sAt :> <<a, b>>
AllSignK == s :> k @@ sDup :> k @@ sFew :> k @@ sAt :> k
AtGroup == sAt :> <<2>>
NoAt == <<>>

(* The second round of both protocols is point to point. *)
SecondRoundP2P == {<<"KG", 2>>, <<"O", 2>>}

(* The only round of the offline stage is. *)
OfflineP2P == {<<"O", 1>>}
=============================================================================

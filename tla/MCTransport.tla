----------------------------- MODULE MCTransport -----------------------------
(* Instances of Transport for TLC. *)
EXTENDS Transport

CONSTANTS m1, m2,               \* messages
          fatal, forged, broken   \* texts of others
=============================================================================

---------------------------- MODULE JointRequest -----------------------------
(***************************************************************************)
(* What the servers promise together about a request, as seen through      *)
(* CheckResult: the status each one reports, and the key shares it holds.  *)
(* The protocols, messages and retries of Coordinator implement this.      *)
(***************************************************************************)
CONSTANTS Node, Req,
          Keygens,       \* the requests that make a key
          Participants,  \* the servers that take part in each request
          Needs,         \* the keys a server must hold for a request
          Done           \* keygens finished before the start

VARIABLES status,   \* the status each server reports for each request
          keys,     \* the keygens whose share each server holds
          joined,   \* <<server, request>> once it has published its part
          crashed   \* servers that have crashed

vars == <<status, keys, joined, crashed>>

Init ==
    /\ status = [n \in Node |-> [r \in Req |->
                   IF r \in Done /\ n \in Participants[r] THEN "done" ELSE "none"]]
    /\ keys = [n \in Node |-> {r \in Done : n \in Participants[r]}]
    /\ joined = {}
    /\ crashed = {}

(* A server takes a request on, with the keys for it at hand. *)
Accept(n, r) ==
    /\ status[n][r] = "none"
    /\ Needs[r] \subseteq keys[n]
    /\ status' = [status EXCEPT ![n][r] = "processing"]
    /\ UNCHANGED <<keys, joined, crashed>>

(* Its part of the work becomes visible to the others. *)
Join(n, r) ==
    /\ n \in Participants[r]
    /\ status[n][r] # "none"
    /\ UNCHANGED <<status, keys, crashed>>
    /\ joined' = joined \cup {<<n, r>>}

(* A participant is done, which takes the work of all of them.  Its share of
   a new key may be lost on the way to the disk. *)
Finish(n, r) ==
    /\ n \in Participants[r]
    /\ status[n][r] = "processing"
    /\ status' = [status EXCEPT ![n][r] = "done"]
    /\ \A m \in Participants[r] \ {n} : <<m, r>> \in joined
    /\ keys' \in {keys, [keys EXCEPT ![n] = @ \cup ({r} \cap Keygens)]}
    /\ UNCHANGED <<joined, crashed>>

(* A server crashes: any of its requests may be further back, and shares
   missing.  What it has published stays published. *)
Crash(n) ==
    /\ n \notin crashed
    /\ crashed' = crashed \cup {n}
    /\ \E known \in [Req -> {"none", "processing", "done"}] :
         /\ \A r \in Req : \/ known[r] = status[n][r]
                           \/ known[r] = "none"
                           \/ status[n][r] = "done"
         /\ status' = [status EXCEPT ![n] = known]
    /\ \E held \in SUBSET keys[n] : keys' = [keys EXCEPT ![n] = held]
    /\ UNCHANGED joined

Next == \E n \in Node : Crash(n) \/ \E r \in Req : Accept(n, r) \/ Join(n, r) \/ Finish(n, r)

Spec == Init /\ [][Next]_vars
=============================================================================

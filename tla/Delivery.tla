----------------------------- MODULE Delivery ------------------------------
(***************************************************************************)
(* What the queue promises its users: a message is handled by at most one  *)
(* worker at a time, only the worker that holds it settles it, a settled   *)
(* message stays settled, and only delivered messages are forgotten.       *)
(* Neither leases nor clocks nor batches appear here.                      *)
(***************************************************************************)
CONSTANTS Ids, Workers

VARIABLES
    status,   \* [Ids -> {"new", "pending", "done", "dead", "gone"}]
    holders   \* [Ids -> SUBSET Workers]: who is delivering the message

dvars == <<status, holders>>

Init ==
    /\ status = [i \in Ids |-> "new"]
    /\ holders = [i \in Ids |-> {}]

Submit(i) ==
    /\ status[i] = "new"
    /\ status' = [status EXCEPT ![i] = "pending"]
    /\ UNCHANGED holders

Take(w, i) ==
    /\ status[i] = "pending" /\ holders[i] = {}
    /\ holders' = [holders EXCEPT ![i] = {w}]
    /\ UNCHANGED status

Settle(w, i, outcome) ==
    /\ status[i] = "pending" /\ holders[i] = {w}
    /\ status' = [status EXCEPT ![i] = outcome]
    /\ holders' = [holders EXCEPT ![i] = {}]

\* The attempt failed, its outcome was lost, or the worker died.
Release(w, i) ==
    /\ status[i] = "pending" /\ holders[i] = {w}
    /\ holders' = [holders EXCEPT ![i] = {}]
    /\ UNCHANGED status

Forget(S) ==
    /\ \A i \in S : status[i] = "done"
    /\ status' = [i \in Ids |-> IF i \in S THEN "gone" ELSE status[i]]
    /\ UNCHANGED holders

Next ==
    \/ \E i \in Ids : Submit(i)
    \/ \E i \in Ids, w \in Workers :
          Take(w, i) \/ Release(w, i) \/ \E o \in {"done", "dead"} : Settle(w, i, o)
    \/ \E S \in SUBSET Ids : Forget(S)

Spec == Init /\ [][Next]_dvars
=============================================================================

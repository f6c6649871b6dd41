----------------------------- MODULE RateLimit -----------------------------
(***************************************************************************)
(* The token-bucket rate limiter (internal/middleware/ratelimit.go) as the *)
(* requests of one key meet it.                                            *)
(*                                                                         *)
(* Allow reads the clock, sweeps, looks the key's bucket up (or stores a   *)
(* full one) and takes a token under the bucket's own lock.  Nothing holds *)
(* these steps together: other requests run between any two of them, with  *)
(* clock readings that may be out of order, and the sweep of one may drop  *)
(* a bucket that another has looked up and not yet used.                   *)
(*                                                                         *)
(* A bucket is an object; current is the one the map holds.  Tokens are    *)
(* whole because time advances by the time one token takes, over Rate.     *)
(***************************************************************************)
EXTENDS Integers, FiniteSets, FiniteSetsExt

CONSTANTS
    N,          \* requests of one key, numbered as they arrive
    Burst,      \* max: the tokens of a full bucket
    Rate,       \* tokens per unit of time
    Slack,      \* the minute idleTTL adds to the time to refill
    Pause,      \* how long a request may be on its way from its clock reading to its token
    MaxTime,    \* bound: the clock
    None

LimitAssumption ==
    /\ N \in Nat
    /\ Burst \in Nat \ {0} /\ Rate \in Nat \ {0}
    /\ Pause \in Nat \ {0} /\ Slack \in Nat /\ 2 * Pause <= Slack
    /\ MaxTime \in Nat /\ None \notin 1 .. N

VARIABLES
    clock,
    buckets,    \* set of buckets ever stored -> [tokens, last]
    current,    \* the bucket the map holds for the key, or None
    lastSweep,
    req,        \* per request: [pc, at (its clock reading), bucket, ok,
                \* stray (its bucket had been given up by a sweep)]
    doomed      \* buckets a sweep has found idle; it deletes the key next

Requests == 1 .. N

vars == <<clock, buckets, current, lastSweep, req, doomed>>

MutIdleTTL == Rate \div Burst

\* A bucket idle this long is full again.
IdleTTL == Burst \div Rate + Slack

\* Buckets are named after the request that stored them.
Init ==
    /\ clock = 0
    /\ buckets = [r \in {} |-> [tokens |-> Burst, last |-> 0]]
    /\ current = None
    /\ lastSweep = 0
    /\ req = [r \in Requests |-> [pc |-> "new", at |-> 0, bucket |-> None, ok |-> FALSE, stray |-> FALSE]]
    /\ doomed = {}

\* No request is on its way for longer than half the minute that idleTTL leaves over.
Tick ==
    /\ clock < MaxTime
    /\ \A r \in Requests : req[r].pc \notin {"new", "done"} => clock - req[r].at < Pause
    /\ clock' = clock + 1
    /\ UNCHANGED <<buckets, current, lastSweep, req, doomed>>

\* Allow reads the clock; at most once per IdleTTL a request also sweeps.
Arrive(r) ==
    LET due == clock - lastSweep >= IdleTTL
    IN  /\ req[r].pc = "new"
        /\ \A q \in 1 .. r-1 : req[q].pc # "new"
        /\ req' = [req EXCEPT ![r].at = clock, ![r].pc = IF due THEN "sweep" ELSE "load"]
        /\ lastSweep' = IF due THEN clock ELSE lastSweep
        /\ UNCHANGED <<clock, buckets, current, doomed>>

\* The sweep looks at a bucket under its lock and deletes its key afterwards.
Idle(at, b) == at - buckets[b].last > IdleTTL

Examine(r) ==
    /\ req[r].pc = "sweep"
    /\ IF current # None /\ Idle(req[r].at, current)
       THEN /\ doomed' = doomed \cup {current}
            /\ req' = [req EXCEPT ![r].pc = "delete"]
       ELSE /\ req' = [req EXCEPT ![r].pc = "load"]
            /\ UNCHANGED doomed
    /\ UNCHANGED <<clock, buckets, current, lastSweep>>

Delete(r) ==
    /\ req[r].pc = "delete"
    /\ current' = None
    /\ doomed' = doomed \cup ({current} \ {None})
    /\ req' = [req EXCEPT ![r].pc = "load"]
    /\ UNCHANGED <<clock, buckets, lastSweep>>

LoadOrStore(r) ==
    /\ req[r].pc = "load"
    /\ IF current # None
       THEN UNCHANGED <<buckets, current>>
       ELSE /\ current' = r
            /\ buckets' = [b \in DOMAIN buckets \cup {r} |->
                              IF b = r THEN [tokens |-> Burst, last |-> req[r].at] ELSE buckets[b]]
    /\ req' = [req EXCEPT ![r].pc = "take", ![r].bucket = current']
    /\ UNCHANGED <<clock, lastSweep, doomed>>

\* take: refill from the bucket's last use to this request's clock reading,
\* which may lie before it, then consume a token if there is one.
Take(r) ==
    /\ req[r].pc = "take"
    /\ LET b    == req[r].bucket
           fill == Min({Burst, buckets[b].tokens + (req[r].at - buckets[b].last) * Rate})
           ok   == fill >= 1
       IN  /\ buckets' = [buckets EXCEPT ![b] =
                             [tokens |-> IF ok THEN fill - 1 ELSE fill, last |-> req[r].at]]
           /\ req' = [req EXCEPT ![r].pc = "done", ![r].ok = ok, ![r].stray = b \in doomed]
    /\ UNCHANGED <<clock, current, lastSweep, doomed>>

Step(r) == Arrive(r) \/ Examine(r) \/ Delete(r) \/ LoadOrStore(r) \/ Take(r)

Next == Tick \/ \E r \in Requests : Step(r)

Spec == Init /\ [][Next]_vars

-----------------------------------------------------------------------------
TypeOK ==
    /\ clock \in 0 .. MaxTime /\ lastSweep \in 0 .. MaxTime
    /\ DOMAIN buckets \subseteq Requests
    /\ \A b \in DOMAIN buckets : buckets[b].tokens <= Burst /\ buckets[b].last \in 0 .. MaxTime
    /\ current \in DOMAIN buckets \cup {None}
    /\ doomed \subseteq DOMAIN buckets

Granted(a, b) == {r \in Requests : req[r].pc = "done" /\ req[r].ok /\ req[r].at \in a .. b}

\* Whatever the order in which requests reach their bucket, and whatever
\* their clocks read, in every interval at most a burst and what the interval
\* refills is granted.  Dropping idle buckets does not change that: only a
\* request that still uses a bucket a sweep has given up on comes on top.
GrantsBounded ==
    \A a, b \in 0 .. MaxTime : a <= b =>
        Cardinality({r \in Granted(a, b) : ~req[r].stray}) <= Burst + Rate * (b - a)
=============================================================================

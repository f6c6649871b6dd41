----------------------------- MODULE Idempotency ---------------------------
(***************************************************************************)
(* withIdempotency and claimIdempotencyKey of internal/handler: POSTs that *)
(* carry the same Idempotency-Key, each SQL statement one step, none in a  *)
(* transaction.  One key is modelled: keys are rows of their own and never *)
(* meet.  The row is named by the request that inserted it.                *)
(*                                                                         *)
(* Requests are shorter than the retention (ttl), so a row can expire only *)
(* after the request that inserted it has ended, and a request finds a row *)
(* expired exactly when it had expired before the request read its clock.  *)
(***************************************************************************)
EXTENDS Integers

CONSTANTS
    Requests,     \* HTTP requests with this key
    Bodies,       \* request bodies, told apart by their fingerprint
    MaxExpiries,  \* bound: how often the row outlives its ttl
    Faults        \* subset of {"cancel"}: the client goes away, the process dies

None == "none"

ASSUME IdempotencyAssumption ==
    /\ MaxExpiries \in Nat
    /\ Faults \subseteq {"cancel"}
    /\ None \notin Requests /\ None \notin Bodies

VARIABLES
    gen,       \* the row: the request that inserted it, None when there is no row
    fp,        \* its fingerprint
    resp,      \* its status and body: the request whose response is stored, None for 0
    stale,     \* created_at + ttl has passed
    expiries,  \* how many rows have expired so far
    pc,        \* the statement each request runs next
    body,      \* the body of each request
    old,       \* the row that had expired when the request read the clock
    attempt,   \* the loop variable of claimIdempotencyKey
    outcome,   \* what next did: "created", "refused" (4xx), "failed" (5xx)
    answer,    \* what withIdempotency answered
    made       \* history: <<request, expiries>> for every record created

table == <<gen, fp, resp, stale>>
vars == <<gen, fp, resp, stale, expiries, pc, body, old, attempt, outcome, answer, made>>

Init ==
    /\ gen = None /\ fp = None /\ resp = None /\ stale = FALSE
    /\ expiries = 0
    /\ pc = [r \in Requests |-> "new"]
    /\ body \in [Requests -> Bodies]
    /\ old = [r \in Requests |-> None]
    /\ attempt = [r \in Requests |-> 0]
    /\ outcome = [r \in Requests |-> None]
    /\ answer = [r \in Requests |-> None]
    /\ made = {}

Goto(r, label) == pc' = [pc EXCEPT ![r] = label]
Reply(r, a) == answer' = [answer EXCEPT ![r] = a] /\ Goto(r, "done")
NoRow == gen' = None /\ fp' = None /\ resp' = None /\ stale' = FALSE

-----------------------------------------------------------------------------
\* The request reads its clock; one in a hundred cleans up first.
Begin(r) ==
    /\ pc[r] = "new"
    /\ old' = [old EXCEPT ![r] = IF stale THEN gen ELSE None]
    /\ Goto(r, "cleanup") \/ Goto(r, "insert")
    /\ UNCHANGED <<table, expiries, body, attempt, outcome, answer, made>>

\* DELETE ... WHERE created_at < now - ttl.
Cleanup(r) ==
    /\ pc[r] = "cleanup"
    /\ IF gen # None /\ gen = old[r] THEN NoRow ELSE UNCHANGED table
    /\ Goto(r, "insert")
    /\ UNCHANGED <<expiries, body, old, attempt, outcome, answer, made>>

\* An INSERT that takes over the row of a request still in progress.
MutTaken == gen # None /\ resp # None

\* The primary key on key_hash refuses a second row.
Taken == gen # None

\* INSERT of the claim; a unique violation leads to the SELECT.
Insert(r) ==
    /\ pc[r] = "insert"
    /\ IF Taken
       THEN UNCHANGED table /\ Goto(r, "select")
       ELSE gen' = r /\ fp' = body[r] /\ resp' = None /\ stale' = FALSE /\ Goto(r, "run")
    /\ UNCHANGED <<expiries, body, old, attempt, outcome, answer, made>>

MutRefusal(r) ==
    IF resp = None THEN "in_progress" ELSE "replay"

\* The answer when the key is taken.
Refusal(r) ==
    IF fp # body[r] THEN "other_body"
    ELSE IF resp = None THEN "in_progress" ELSE "replay"

\* SELECT of the stored entry.
Select(r) ==
    /\ pc[r] = "select"
    /\ \/ gen = None /\ Reply(r, "error")
       \/ gen # None /\ gen # old[r] /\ Reply(r, Refusal(r))
       \/ gen # None /\ gen = old[r] /\ Goto(r, "delete") /\ UNCHANGED answer
    /\ UNCHANGED <<table, expiries, body, old, attempt, outcome, made>>

\* DELETE ... WHERE key_hash: whatever row is there now; then the loop goes round once.
Delete(r) ==
    /\ pc[r] = "delete"
    /\ NoRow
    /\ attempt' = [attempt EXCEPT ![r] = @ + 1]
    /\ IF attempt[r] = 0
       THEN Goto(r, "insert") /\ UNCHANGED answer
       ELSE Reply(r, "error")
    /\ UNCHANGED <<expiries, body, old, outcome, made>>

\* The wrapped handler runs and its transaction commits or not.
Run(r, o) ==
    /\ pc[r] = "run"
    /\ outcome' = [outcome EXCEPT ![r] = o]
    /\ made' = IF o = "created" THEN made \cup {<<r, expiries>>} ELSE made
    /\ Goto(r, "finish")
    /\ UNCHANGED <<table, expiries, body, old, attempt, answer>>

MutReleaseKey == UNCHANGED table

\* Server failure: DELETE ... WHERE key_hash.
ReleaseKey == NoRow

\* UPDATE ... WHERE key_hash.
StoreResponse(r) ==
    /\ resp' = IF gen = None THEN None ELSE r
    /\ UNCHANGED <<gen, fp, stale>>

Finish(r) ==
    /\ pc[r] = "finish"
    /\ IF outcome[r] = "failed" THEN ReleaseKey ELSE StoreResponse(r)
    /\ Reply(r, outcome[r])
    /\ UNCHANGED <<expiries, body, old, attempt, outcome, made>>

\* The request's context is cancelled, its handler panics or the process dies: no
\* further statement of it takes effect.
Cancel(r) ==
    /\ "cancel" \in Faults
    /\ pc[r] \notin {"new", "done"}
    /\ Reply(r, "lost")
    /\ UNCHANGED <<table, expiries, body, old, attempt, outcome, made>>

\* The row outlives its retention.
Expire ==
    /\ gen # None /\ ~stale /\ pc[gen] = "done" /\ expiries < MaxExpiries
    /\ stale' = TRUE /\ expiries' = expiries + 1
    /\ UNCHANGED <<gen, fp, resp, pc, body, old, attempt, outcome, answer, made>>

Serve(r) ==
    \/ Begin(r) \/ Cleanup(r) \/ Insert(r) \/ Select(r) \/ Delete(r)
    \/ \E o \in {"created", "refused", "failed"} : Run(r, o)
    \/ Finish(r)

Next ==
    \/ \E r \in Requests : Serve(r) \/ Cancel(r)
    \/ Expire

Spec == Init /\ [][Next]_vars

\* net/http runs every accepted request to its end.
FairSpec == Spec /\ \A r \in Requests : WF_vars(Serve(r))

-----------------------------------------------------------------------------
TypeOK ==
    /\ gen \in Requests \cup {None} /\ fp \in Bodies \cup {None}
    /\ resp \in Requests \cup {None} /\ stale \in BOOLEAN
    /\ gen = None => fp = None /\ resp = None /\ ~stale
    /\ expiries \in 0 .. MaxExpiries
    /\ pc \in [Requests -> {"new", "cleanup", "insert", "select", "delete", "run", "finish", "done"}]
    /\ body \in [Requests -> Bodies]
    /\ old \in [Requests -> Requests \cup {None}]
    /\ attempt \in [Requests -> 0 .. 2]
    /\ \A r \in Requests : pc[r] # "done" => attempt[r] < 2
    /\ outcome \in [Requests -> {None, "created", "refused", "failed"}]
    /\ answer \in [Requests -> {None, "created", "refused", "failed", "other_body",
                                "in_progress", "replay", "error", "lost"}]
    /\ made \subseteq Requests \X (0 .. MaxExpiries)

\* Two requests found the same expired row.
Raced == \E p, q \in Requests : p # q /\ old[p] # None /\ old[p] = old[q]

\* However requests with one key race, are cancelled and are retried, and whether or not
\* the row has expired in between, a retention window sees at most one record; the one
\* exception is that two requests found the same expired row: the DELETE of one may then remove
\* the fresh claim of the other, and both create.
AtMostOnce == Raced \/ \A m, n \in made : m[2] = n[2] => m = n

\* A replayed response is that of the request that holds the key, which had the very
\* body of the retry (with the same exception).
ReplayMatches ==
    [][\A r \in Requests : answer[r] # "replay" /\ answer'[r] = "replay" =>
          \/ Raced
          \/ resp = gen /\ body[r] = body[gen] /\ outcome[gen] \in {"created", "refused"}]_vars

\* No request keeps the key "in progress" for ever: a failed one gives it back and any
\* other stores its response, unless its client went away.
KeyFreed ==
    [](gen # None /\ resp = None => <>(gen = None \/ resp # None \/ answer[gen] = "lost"))
=============================================================================

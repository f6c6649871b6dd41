------------------------------- MODULE Queue -------------------------------
(***************************************************************************)
(* The claim/retry queue of internal/queue together with the poll loop     *)
(* that the outbox worker and the inbox worker run over it (RunOnce,       *)
(* deliverAndRecord / processAndRecord).  Several replicas poll one table. *)
(*                                                                         *)
(* Time is relative: wait[i] is next_attempt_at - now and lock[i] is       *)
(* locked_until - now, both cut off at 0 (the code only ever compares them *)
(* with now), age[w] is the time since worker w claimed its row.  One      *)
(* clock is shared by the database and the replicas.                       *)
(***************************************************************************)
EXTENDS Integers, FiniteSets

CONSTANTS
    Ids,          \* message ids (uuid: never reused)
    Workers,      \* one worker per replica
    Batch,        \* batchSize: rows one poll may return
    MaxAttempts,  \* Policy.MaxAttempts
    Initial,      \* Policy.Initial, in ticks
    MaxDelay,     \* Policy.Max, in ticks
    Lease,        \* ClaimLease, in ticks
    Deadline,     \* timeout of the context that delivery and recording share
    Answer,       \* latest age at which a delivery returns: below Deadline for a
                  \* webhook (client timeout 30s < 45s), Deadline for an inbox
                  \* handler that honours its context, larger for SMTP, which
                  \* takes no context
    Verdicts,     \* how a delivery may end: subset of {"ok", "fail", "permanent"}
    Faults        \* subset of {"halt", "db"}: process deaths, failing statements

ASSUME QueueAssumption ==
    /\ IsFiniteSet(Workers)
    /\ Batch \in Nat \ {0}
    /\ MaxAttempts \in Nat \ {0}
    /\ Initial \in Nat \ {0}
    /\ MaxDelay \in Nat \ {0}
    /\ Lease \in Nat \ {0}
    /\ Deadline \in Nat \ {0}
    /\ Answer \in Nat
    /\ Verdicts \subseteq {"ok", "fail", "permanent"}
    /\ Verdicts # {}
    /\ Faults \subseteq {"halt", "db"}

VARIABLES
    status,    \* [Ids -> Status]; "new" before Enqueue, "gone" after Purge
    attempts,  \* the attempts column
    wait,      \* next_attempt_at - now
    lock,      \* locked_until - now
    pc,        \* where each worker is in RunOnce
    batch,     \* what its Due returned and the loop has not reached yet
    cur,       \* the item being delivered: the attempts it carries were read by Due
    verdict,   \* what the delivery returned
    age        \* time since the claim

rows == <<status, attempts, wait, lock>>
work == <<pc, batch, cur, verdict, age>>
vars == <<status, attempts, wait, lock, pc, batch, cur, verdict, age>>

Status == {"new", "pending", "done", "dead", "gone"}
Item == [id : Ids, attempts : Nat]
NoItem == [id |-> "none", attempts |-> 0]
Holding == {"deliver", "record"}

AtMost(a, b) == IF a <= b THEN a ELSE b

\* Policy backoff after the n-th failed attempt: Initial doubled n-1 times, capped,
\* then 20% jitter either way, rounded down to whole ticks by Unix().
Backoff(n) ==
    LET b == AtMost(Initial * 2 ^ AtMost(n - 1, 20), MaxDelay)
    IN  {t \in 0 .. 2 * MaxDelay : 5 * t + 4 >= 4 * b /\ 5 * t <= 6 * b}

Down1(n) == IF n = 0 THEN 0 ELSE n - 1

Init ==
    /\ status = [i \in Ids |-> "new"]
    /\ attempts = [i \in Ids |-> 0]
    /\ wait = [i \in Ids |-> 0]
    /\ lock = [i \in Ids |-> 0]
    /\ pc = [w \in Workers |-> "idle"]
    /\ batch = [w \in Workers |-> {}]
    /\ cur = [w \in Workers |-> NoItem]
    /\ verdict = [w \in Workers |-> "none"]
    /\ age = [w \in Workers |-> 0]

-----------------------------------------------------------------------------
\* A message is inserted as pending and due at once.
Enqueue(i) ==
    /\ status[i] = "new"
    /\ status' = [status EXCEPT ![i] = "pending"]
    /\ UNCHANGED <<attempts, wait, lock, work>>

Due == {i \in Ids : status[i] = "pending" /\ wait[i] = 0 /\ lock[i] = 0}

\* RunOnce reads up to Batch due rows, each with its attempts.  ORDER BY
\* next_attempt_at only picks which due rows make the batch: any choice is allowed.
Poll(w) ==
    /\ pc[w] = "idle"
    /\ \E S \in SUBSET Due :
          /\ Cardinality(S) = AtMost(Batch, Cardinality(Due))
          /\ batch' = [batch EXCEPT ![w] = {[id |-> i, attempts |-> attempts[i]] : i \in S}]
    /\ pc' = [pc EXCEPT ![w] = "batch"]
    /\ UNCHANGED <<rows, cur, verdict, age>>

MutClaimable(i) == status[i] = "pending"
\* The WHERE clause of Claim.
Claimable(i) == status[i] = "pending" /\ lock[i] = 0

\* Claim succeeds: the row is leased and its delivery starts.
ClaimOk(w, it) ==
    /\ pc[w] = "batch" /\ it \in batch[w]
    /\ Claimable(it.id)
    /\ batch' = [batch EXCEPT ![w] = @ \ {it}]
    /\ lock' = [lock EXCEPT ![it.id] = Lease]
    /\ pc' = [pc EXCEPT ![w] = "deliver"]
    /\ cur' = [cur EXCEPT ![w] = it]
    /\ age' = [age EXCEPT ![w] = 0]
    /\ UNCHANGED <<status, attempts, wait, verdict>>

\* Claim returns false: no row matched, or the statement failed (before or after it
\* took effect).
ClaimNo(w, it) ==
    /\ pc[w] = "batch" /\ it \in batch[w]
    /\ ~Claimable(it.id) \/ "db" \in Faults
    /\ batch' = [batch EXCEPT ![w] = @ \ {it}]
    /\ \/ lock' = lock
       \/ Claimable(it.id) /\ lock' = [lock EXCEPT ![it.id] = Lease]
    /\ UNCHANGED <<status, attempts, wait, pc, cur, verdict, age>>

\* deliver / process returns.
DeliverEnd(w, v) ==
    /\ pc[w] = "deliver"
    /\ verdict' = [verdict EXCEPT ![w] = v]
    /\ pc' = [pc EXCEPT ![w] = "record"]
    /\ UNCHANGED <<rows, batch, cur, age>>

MutNextItem(w) ==
    /\ cur' = [cur EXCEPT ![w] = NoItem]
    /\ verdict' = [verdict EXCEPT ![w] = "none"]
    /\ UNCHANGED <<pc, age, batch>>

\* The loop goes on to the next item of the batch.
NextItem(w) ==
    /\ pc' = [pc EXCEPT ![w] = "batch"]
    /\ cur' = [cur EXCEPT ![w] = NoItem]
    /\ verdict' = [verdict EXCEPT ![w] = "none"]
    /\ age' = [age EXCEPT ![w] = 0]
    /\ UNCHANGED <<batch>>

Exists(i) == status[i] \notin {"new", "gone"}

\* Done: UPDATE ... WHERE id.
Done(w) ==
    LET i == cur[w].id IN
    /\ pc[w] = "record" /\ verdict[w] = "ok" /\ age[w] < Deadline
    /\ IF Exists(i)
       THEN /\ status' = [status EXCEPT ![i] = "done"]
            /\ attempts' = [attempts EXCEPT ![i] = @ + 1]
            /\ lock' = [lock EXCEPT ![i] = 0]
       ELSE UNCHANGED <<status, attempts, lock>>
    /\ NextItem(w)
    /\ UNCHANGED wait

MutFailedAttempts(w) == 1

\* The attempts Fail writes: the count that Due read, plus one.
FailedAttempts(w) == cur[w].attempts + 1

GivesUp(w) == verdict[w] = "permanent" \/ FailedAttempts(w) >= MaxAttempts

\* Fail, when the attempt was the last or its error is permanent.
FailDead(w) ==
    LET i == cur[w].id IN
    /\ pc[w] = "record" /\ verdict[w] # "ok" /\ age[w] < Deadline
    /\ GivesUp(w)
    /\ IF Exists(i)
       THEN /\ status' = [status EXCEPT ![i] = "dead"]
            /\ attempts' = [attempts EXCEPT ![i] = FailedAttempts(w)]
            /\ lock' = [lock EXCEPT ![i] = 0]
       ELSE UNCHANGED <<status, attempts, lock>>
    /\ NextItem(w)
    /\ UNCHANGED wait

\* Fail, when the row is rescheduled; the status column is not written.
FailRetry(w) ==
    LET i == cur[w].id IN
    /\ pc[w] = "record" /\ verdict[w] # "ok" /\ age[w] < Deadline
    /\ ~GivesUp(w)
    /\ IF Exists(i)
       THEN /\ attempts' = [attempts EXCEPT ![i] = FailedAttempts(w)]
            /\ \E t \in Backoff(FailedAttempts(w)) : wait' = [wait EXCEPT ![i] = t]
            /\ lock' = [lock EXCEPT ![i] = 0]
       ELSE UNCHANGED <<attempts, wait, lock>>
    /\ NextItem(w)
    /\ UNCHANGED status

\* The statement of Done or Fail fails and its error is dropped: the context that it
\* shares with the delivery has expired, or the database refused it.
LoseRecord(w) ==
    /\ pc[w] = "record"
    /\ age[w] >= Deadline \/ "db" \in Faults
    /\ NextItem(w)
    /\ UNCHANGED rows

MutPurgeable(i) == status[i] \in {"done", "dead"}

\* Purge deletes done rows older than the retention.
Purgeable(i) == status[i] = "done"

\* The end of RunOnce.  Which done rows are old enough, and whether an hour has passed
\* since the last purge, is left open.
FinishBatch(w) ==
    /\ pc[w] = "batch" /\ batch[w] = {}
    /\ \E S \in SUBSET {i \in Ids : Purgeable(i)} :
          /\ status' = [i \in Ids |-> IF i \in S THEN "gone" ELSE status[i]]
          /\ attempts' = [i \in Ids |-> IF i \in S THEN 0 ELSE attempts[i]]
          /\ wait' = [i \in Ids |-> IF i \in S THEN 0 ELSE wait[i]]
          /\ lock' = [i \in Ids |-> IF i \in S THEN 0 ELSE lock[i]]
    /\ pc' = [pc EXCEPT ![w] = "idle"]
    /\ UNCHANGED <<batch, cur, verdict, age>>

\* The replica dies, or its Stop runs out of time, at any point.
Halt(w) ==
    /\ "halt" \in Faults /\ pc[w] # "down"
    /\ pc' = [pc EXCEPT ![w] = "down"]
    /\ batch' = [batch EXCEPT ![w] = {}]
    /\ cur' = [cur EXCEPT ![w] = NoItem]
    /\ verdict' = [verdict EXCEPT ![w] = "none"]
    /\ age' = [age EXCEPT ![w] = 0]
    /\ UNCHANGED <<rows>>

Start(w) ==
    /\ pc[w] = "down"
    /\ pc' = [pc EXCEPT ![w] = "idle"]
    /\ UNCHANGED <<rows, batch, cur, verdict, age>>

\* A delivery returns by Answer; a healthy database answers within the tick and a
\* faulty one until the context expires.
MayWait(w) ==
    /\ pc[w] = "deliver" => age[w] < Answer
    /\ pc[w] = "record" => "db" \in Faults /\ age[w] < Deadline

Tick ==
    /\ \A w \in Workers : MayWait(w)
    /\ wait' = [i \in Ids |-> Down1(wait[i])]
    /\ lock' = [i \in Ids |-> Down1(lock[i])]
    /\ age' = [w \in Workers |-> IF pc[w] \in Holding THEN age[w] + 1 ELSE 0]
    /\ UNCHANGED <<status, attempts, pc, batch, cur, verdict>>

Step(w) ==
    \/ Poll(w)
    \/ \E it \in batch[w] : ClaimOk(w, it) \/ ClaimNo(w, it)
    \/ \E v \in Verdicts : DeliverEnd(w, v)
    \/ Done(w) \/ FailDead(w) \/ FailRetry(w) \/ LoseRecord(w)
    \/ FinishBatch(w)

Next ==
    \/ \E i \in Ids : Enqueue(i)
    \/ \E w \in Workers : Step(w) \/ Halt(w) \/ Start(w)
    \/ Tick

Spec == Init /\ [][Next]_vars

\* The poll loop of a running replica keeps going, a stopped one is started again by
\* its supervisor, and time passes.
Fairness == WF_vars(Tick) /\ \A w \in Workers : WF_vars(Step(w)) /\ WF_vars(Start(w))
FairSpec == Spec /\ Fairness

-----------------------------------------------------------------------------
TypeOK ==
    /\ status \in [Ids -> Status]
    /\ attempts \in [Ids -> Nat]
    /\ wait \in [Ids -> Nat]
    /\ lock \in [Ids -> 0 .. Lease]
    /\ pc \in [Workers -> {"down", "idle", "batch", "deliver", "record"}]
    /\ batch \in [Workers -> SUBSET Item]
    /\ cur \in [Workers -> Item \cup {NoItem}]
    /\ verdict \in [Workers -> Verdicts \cup {"none"}]
    /\ age \in [Workers -> Nat]
    /\ \A w \in Workers : pc[w] \in Holding => cur[w] \in Item

\* Delivery and recording end before the lease does: the assumption ClaimLease makes
\* about its callers.
Timely == Answer < Lease /\ Deadline < Lease

Holds(w, i) == pc[w] \in Holding /\ cur[w].id = i

\* The lease keeps a message from being delivered by two replicas at a time, however
\* their polls, claims, retries, crashes and lost writes interleave.
LeaseExclusive ==
    \A v, w \in Workers, i \in Ids : Holds(v, i) /\ Holds(w, i) => v = w

\* Why LeaseExclusive holds: a row whose delivery is in flight is still pending and
\* still leased for what is left of the lease.
LeaseCovers ==
    \A w \in Workers : pc[w] \in Holding =>
        /\ status[cur[w].id] = "pending"
        /\ lock[cur[w].id] = Lease - age[w]
        /\ age[w] <= (IF Answer > Deadline THEN Answer ELSE Deadline)

\* The promise the queue makes (module Delivery): one holder at a time, settled by that
\* holder only, settled for good.  Under Timely the claim, Done, Fail, Purge and crash
\* steps implement it although Done and Fail update by id without looking at the lease.
Promise == INSTANCE Delivery WITH
    holders <- [i \in Ids |-> {w \in Workers : Holds(w, i)}]
KeepsPromise == Promise!Spec

\* The database fails a statement of w that was in time.
StatementFails(w) ==
    "db" \in Faults /\ (LoseRecord(w) \/ \E it \in batch[w] : Claimable(it.id) /\ ClaimNo(w, it))

\* Every message that was enqueued is delivered or given up once replicas stop crashing and the
\* database failing: a lease left behind expires and the row is retried, but not for ever.
Settles ==
    (<>[](\A w \in Workers : pc[w] # "down") /\ <>[][\A w \in Workers : ~StatementFails(w)]_vars) =>
        <>[](\A i \in Ids : status[i] # "pending")
=============================================================================

------------------------------ MODULE CronLock -----------------------------
(***************************************************************************)
(* One cron job on several replicas: the database lease of internal/cron   *)
(* (dbLocker.Lock and Unlock), the task that scheduler.registerJob hands   *)
(* to gocron (runWithRetry, on_failure) and gocron's tick as the code uses *)
(* it: each replica fires every tick, asks the locker, runs, unlocks.      *)
(*                                                                         *)
(* Time is relative: until is locked_until - now cut off at 0, age the time *)
(* since a run's Lock, spent the time in its current phase, phase the time *)
(* since the nominal tick.                                                 *)
(***************************************************************************)
EXTENDS Integers, FiniteSets

CONSTANTS
    Replicas,
    Period,     \* time between nominal ticks
    Skew,       \* latest time after the tick at which a replica fires it: clock skew
                \* for a cron expression, up to Period - 1 for @every, which counts
                \* from the start of each process
    Lease,      \* dbLocker.lease (30m)
    MinHold,    \* dbLocker.minHold (15s)
    MaxTries,   \* retry.max_attempts
    Timeout,    \* jobTimeout: an attempt, and the on_failure handler, end by then
    Delay,      \* retry.initial_delay
    MaxDelay,   \* retry.max_delay
    Faults      \* subset of {"crash", "db"}

Nobody == "nobody"

CronAssumption ==
    /\ Nobody \notin Replicas
    /\ Period \in Nat \ {0} /\ Skew \in 0 .. Period - 1
    /\ Lease \in Nat \ {0} /\ MinHold \in 0 .. Lease
    /\ MaxTries \in Nat \ {0} /\ Timeout \in Nat /\ Delay \in Nat /\ MaxDelay \in Nat
    /\ Faults \subseteq {"crash", "db"}

VARIABLES
    owner,   \* the lock row: its owner, Nobody while the row does not exist
    until,   \* locked_until - now
    phase,   \* time since the nominal tick
    due,     \* replicas that have not fired this tick yet
    runs,    \* how many runs this tick got
    pc,      \* where each replica is
    age, try, spent

lockrow == <<owner, until>>
clock == <<phase, due>>
vars == <<owner, until, phase, due, runs, pc, age, try, spent>>

Running == {"attempt", "sleep", "failure", "unlock"}

Init ==
    /\ owner = Nobody /\ until = 0
    /\ phase = 0 /\ due = Replicas /\ runs = 0
    /\ pc = [r \in Replicas |-> "idle"]
    /\ age = [r \in Replicas |-> 0]
    /\ try = [r \in Replicas |-> 0]
    /\ spent = [r \in Replicas |-> 0]

Goto(r, label) ==
    /\ pc' = [pc EXCEPT ![r] = label]
    /\ spent' = [spent EXCEPT ![r] = 0]

MutRun(r) ==
    /\ owner' = r /\ until' = MinHold
    /\ Goto(r, "attempt")
    /\ age' = [age EXCEPT ![r] = 0]
    /\ try' = [try EXCEPT ![r] = 1]
    /\ runs' = runs + 1

\* Lock returned a lock: gocron runs the task.
Run(r) ==
    /\ owner' = r /\ until' = Lease
    /\ Goto(r, "attempt")
    /\ age' = [age EXCEPT ![r] = 0]
    /\ try' = [try EXCEPT ![r] = 1]
    /\ runs' = runs + 1

MutFreeNever == FALSE

\* The WHERE clause of Lock's UPDATE.
Free == owner # Nobody /\ until = 0

\* The tick fires on r.
Fires(r) ==
    /\ r \in due /\ phase <= Skew
    /\ due' = due \ {r}
    /\ UNCHANGED phase

\* A run of the previous tick is still going on r: gocron skips this one
\* (LimitModeReschedule).
Skip(r) ==
    /\ pc[r] \in Running
    /\ Fires(r)
    /\ UNCHANGED <<lockrow, runs, pc, age, try, spent>>

\* Lock's UPDATE takes the lease.
Acquire(r) == pc[r] = "idle" /\ Free /\ Fires(r) /\ Run(r)

\* Lock's UPDATE matches no row.
Contend(r) ==
    /\ pc[r] = "idle" /\ ~Free
    /\ Fires(r)
    /\ Goto(r, "insert")
    /\ UNCHANGED <<lockrow, runs, age, try>>

\* A statement of Lock fails, before or after it took effect: no run.
FireFails(r) ==
    /\ "db" \in Faults /\ pc[r] = "idle"
    /\ Fires(r)
    /\ \/ UNCHANGED lockrow
       \/ (Free \/ owner = Nobody) /\ owner' = r /\ until' = Lease
    /\ UNCHANGED <<runs, pc, age, try, spent>>

\* Lock's INSERT creates the row, or another replica holds it.
Insert(r) ==
    /\ pc[r] = "insert"
    /\ \/ owner = Nobody /\ Run(r)
       \/ owner # Nobody /\ Goto(r, "idle") /\ UNCHANGED <<lockrow, runs, age, try>>
    /\ UNCHANGED clock

\* An attempt of runWithRetry returns.
AttemptEnd(r, result) ==
    /\ pc[r] = "attempt"
    /\ Goto(r, IF result = "ok" THEN "unlock"
               ELSE IF result = "permanent" \/ try[r] = MaxTries THEN "failure"
               ELSE "sleep")
    /\ UNCHANGED <<lockrow, clock, runs, age, try>>

\* The delay before try n + 1: doubled after every retry, capped.
Pause(n) ==
    LET d == Delay * 2 ^ (n - 1)
    IN  IF n = 1 \/ d <= MaxDelay THEN d ELSE MaxDelay

\* A fact of arithmetic, stated because the provers know nothing of powers.
PauseAssumption == \A n \in 1 .. MaxTries : Pause(n) \in Nat

Retry(r) ==
    /\ pc[r] = "sleep" /\ spent[r] >= Pause(try[r])
    /\ Goto(r, "attempt")
    /\ try' = [try EXCEPT ![r] = @ + 1]
    /\ UNCHANGED <<lockrow, clock, runs, age>>

\* The on_failure handler returns (or the job has none).
FailureEnd(r) ==
    /\ pc[r] = "failure"
    /\ Goto(r, "unlock")
    /\ UNCHANGED <<lockrow, clock, runs, age, try>>

MutRemaining(r) == 0
\* What Unlock leaves of the lease: minHold counted from the start of the run.
Remaining(r) == IF age[r] < MinHold THEN MinHold - age[r] ELSE 0

\* Unlock: UPDATE ... WHERE owner.
Unlock(r) ==
    /\ pc[r] = "unlock"
    /\ \/ owner = r /\ until' = Remaining(r)
       \/ (owner # r \/ "db" \in Faults) /\ UNCHANGED until
    /\ Goto(r, "idle")
    /\ age' = [age EXCEPT ![r] = 0]
    /\ try' = [try EXCEPT ![r] = 0]
    /\ UNCHANGED <<owner, clock, runs>>

Crash(r) ==
    /\ "crash" \in Faults /\ pc[r] # "down"
    /\ Goto(r, "down")
    /\ age' = [age EXCEPT ![r] = 0]
    /\ try' = [try EXCEPT ![r] = 0]
    /\ UNCHANGED <<lockrow, clock, runs>>

Restart(r) ==
    /\ pc[r] = "down"
    /\ Goto(r, "idle")
    /\ UNCHANGED <<lockrow, clock, runs, age, try>>

\* Statements take no time, attempts end by Timeout, and a running replica fires each
\* tick within Skew.
MayWait(r) ==
    /\ pc[r] \notin {"insert", "unlock"}
    /\ pc[r] \in {"attempt", "failure"} => spent[r] < Timeout
    /\ pc[r] = "sleep" => spent[r] < Pause(try[r])
    /\ phase = Skew => r \notin due \/ pc[r] = "down"

Tick ==
    /\ \A r \in Replicas : MayWait(r)
    /\ until' = IF until = 0 THEN 0 ELSE until - 1
    /\ age' = [r \in Replicas |-> IF pc[r] \in Running THEN age[r] + 1 ELSE 0]
    /\ spent' = [r \in Replicas |-> IF pc[r] \in Running THEN spent[r] + 1 ELSE 0]
    /\ IF phase = Period - 1
       THEN phase' = 0 /\ due' = Replicas /\ runs' = 0
       ELSE phase' = phase + 1 /\ UNCHANGED <<due, runs>>
    /\ UNCHANGED <<owner, pc, try>>

Step(r) ==
    \/ Skip(r) \/ Acquire(r) \/ Contend(r) \/ FireFails(r) \/ Insert(r)
    \/ \E result \in {"ok", "fail", "permanent"} : AttemptEnd(r, result)
    \/ Retry(r) \/ FailureEnd(r) \/ Unlock(r)

Next ==
    \/ \E r \in Replicas : Step(r) \/ Crash(r) \/ Restart(r)
    \/ Tick

Spec == Init /\ [][Next]_vars

\* Replicas keep running, crashed ones are restarted, time passes, and the database does
\* not refuse every Lock that would get the lease.
Gets(r) == (owner = Nobody \/ until = 0) /\ (Acquire(r) \/ Contend(r))
FairSpec ==
    /\ Spec /\ WF_vars(Tick)
    /\ \A r \in Replicas : WF_vars(Step(r)) /\ WF_vars(Restart(r)) /\ SF_vars(Gets(r))

-----------------------------------------------------------------------------
TypeOK ==
    /\ owner \in Replicas \cup {Nobody} /\ until \in 0 .. Lease
    /\ phase \in 0 .. Period - 1 /\ due \subseteq Replicas /\ runs \in Nat
    /\ pc \in [Replicas -> Running \cup {"idle", "insert", "down"}]
    /\ age \in [Replicas -> Nat] /\ spent \in [Replicas -> Nat]
    /\ try \in [Replicas -> 0 .. MaxTries]

\* docs/jobs.md: "each scheduled tick executes on exactly one replica": never on two, as
\* long as the replicas fire it within minHold of each other, however short the run.
TickOnce == runs <= 1

\* Two replicas never run the job at the same time while a run, retries and on_failure
\* included, fits in the lease.
NoOverlap == \A r, s \in Replicas : pc[r] \in Running /\ pc[s] \in Running => r = s

\* The job never stops being run: a lease left by a crashed replica is taken over.
KeepsRunning ==
    <>[](\A r \in Replicas : pc[r] # "down") => []<>(\E r \in Replicas : pc[r] = "attempt")
=============================================================================

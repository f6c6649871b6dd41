-------------------------- MODULE BackgroundProofs --------------------------
(***************************************************************************)
(* What runs beside the requests, for every value of the constants: a      *)
(* scheduled job on several replicas, the life of a server process, and    *)
(* the operator's migrations and seeds.  Each has an inductive invariant   *)
(* of its own (CronInv, ProcessInv, MigrateInv with BootInv, SeedsInv),    *)
(* one lemma for each kind of step, and the theorems of its composition    *)
(* follow.                                                                 *)
(***************************************************************************)
EXTENDS MCLifecycle, MCOperations, FiniteSetTheorems, TLAPS

-----------------------------------------------------------------------------
(* The cron job *)

\* The assumption of TickOnce: the replicas fire a tick within minHold of each other.
Prompt == Skew < MinHold

\* f gives the latest age at which each try of a run starts, if attempts end by the
\* job's timeout; on_failure takes one timeout more.
Schedule(f) ==
    /\ f[1] = 0
    /\ \A n \in 1 .. MaxTries - 1 : f[n] + Timeout + C!Pause(n) <= f[n + 1]
    /\ \A n \in 1 .. MaxTries : f[n] + 2 * Timeout < Lease
Schedules == [1 .. MaxTries -> 0 .. Lease]

\* The assumption of NoOverlap: a run, retries and on_failure included, is shorter than the lease.
RunFits == \E f \in Schedules : Schedule(f)
Latest == CHOOSE f \in Schedules : Schedule(f)

-----------------------------------------------------------------------------
\* A run's age, by the place it is at: what MayWait allows in all phases before.
Timed ==
    \A r \in Replicas :
        /\ pc[r] \in C!Running => try[r] \in 1 .. MaxTries
        /\ pc[r] = "attempt" => age[r] <= Latest[try[r]] + spent[r] /\ spent[r] <= Timeout
        /\ pc[r] = "sleep" => /\ try[r] < MaxTries /\ spent[r] <= C!Pause(try[r])
                              /\ age[r] <= Latest[try[r]] + Timeout + spent[r]
        /\ pc[r] = "failure" => age[r] <= Latest[try[r]] + Timeout + spent[r] /\ spent[r] <= Timeout
        /\ pc[r] = "unlock" => age[r] <= Latest[try[r]] + 2 * Timeout

\* A run owns the row, and the lease has at least the rest of its length to go.
Covered == \A r \in Replicas : pc[r] \in C!Running => owner = r /\ until >= Lease - age[r]

\* What is left of the lease covers what is left of the time in which replicas fire the
\* tick, and a run that is going on began in this tick.
Shielded ==
    runs > 0 => /\ owner # C!Nobody /\ until + phase > Skew
                /\ \A r \in Replicas : pc[r] \in C!Running => age[r] <= phase

\* Who found the row taken goes on at once.
Inserting == \A r \in Replicas : pc[r] = "insert" => phase <= Skew

\* The inductive invariant: exclusion follows from who owns the row and for how long.
CronInv == C!TypeOK /\ Timed /\ Covered /\ Shielded /\ Inserting /\ C!TickOnce

LEMMA CronAssumed ==
    /\ C!Nobody \notin Replicas
    /\ Period \in Nat \ {0} /\ Skew \in 0 .. Period - 1
    /\ Lease \in Nat \ {0} /\ MinHold \in 0 .. Lease
    /\ MaxTries \in Nat \ {0} /\ Timeout \in Nat /\ Delay \in Nat /\ MaxDelay \in Nat
    /\ Faults \subseteq {"crash", "db"}
  BY BackgroundAssumption DEF C!CronAssumption

LEMMA PauseAssumed == \A n \in 1 .. MaxTries : C!Pause(n) \in Nat
  BY BackgroundAssumption DEF C!PauseAssumption

LEMMA LatestIsSchedule ==
  ASSUME RunFits
  PROVE  Latest \in Schedules /\ Schedule(Latest)
  BY DEF RunFits, Latest

\* No run is older than the lease.
LEMMA AgeBound ==
  ASSUME RunFits, CronInv, NEW r \in Replicas, pc[r] \in C!Running
  PROVE  age[r] \in Nat /\ age[r] < Lease /\ until > 0
  <1>1. age[r] \in Nat /\ spent[r] \in Nat /\ try[r] \in 1 .. MaxTries
    BY DEF CronInv, C!TypeOK, Timed
  <1>2. Latest[try[r]] \in Nat /\ Latest[try[r]] + 2 * Timeout < Lease
    BY <1>1, LatestIsSchedule DEF Schedule, Schedules
  <1>3. CASE pc[r] = "sleep"
    <2>1. try[r] \in 1 .. MaxTries - 1 /\ try[r] + 1 \in 1 .. MaxTries
      BY <1>1, <1>3, CronAssumed DEF CronInv, Timed
    <2>2. Latest[try[r]] + Timeout + C!Pause(try[r]) <= Latest[try[r] + 1]
      BY <2>1, LatestIsSchedule DEF Schedule
    <2>3. Latest[try[r] + 1] \in Nat /\ Latest[try[r] + 1] + 2 * Timeout < Lease
      BY <2>1, LatestIsSchedule DEF Schedule, Schedules
    <2>4. age[r] <= Latest[try[r]] + Timeout + spent[r] /\ spent[r] <= C!Pause(try[r])
      BY <1>3 DEF CronInv, Timed
    <2>5. C!Pause(try[r]) \in Nat
      BY <1>1, PauseAssumed
    <2>6. age[r] < Lease
      BY <1>1, <1>2, <2>2, <2>3, <2>4, <2>5, CronAssumed
    <2> QED
      BY <1>1, <1>3, <2>6, CronAssumed DEF CronInv, Covered, C!TypeOK
  <1>4. CASE pc[r] # "sleep"
    <2>1. age[r] <= Latest[try[r]] + 2 * Timeout
      BY <1>1, <1>2, <1>4, CronAssumed DEF CronInv, Timed, C!Running
    <2>2. age[r] < Lease
      BY <1>1, <1>2, <2>1, CronAssumed
    <2> QED
      BY <1>1, <2>2, CronAssumed DEF CronInv, Covered, C!TypeOK
  <1> QED
    BY <1>3, <1>4

\* The initial state satisfies the invariant.
LEMMA InitCronInv == C!Init => CronInv
  BY CronAssumed DEF C!Init, CronInv, C!TypeOK, Timed, Covered, Shielded, Inserting, C!TickOnce, C!Running

\* A lock that Lock may take is held by no run, and was not taken for this tick.
LEMMA FreeRow ==
  ASSUME RunFits, CronInv, C!Free \/ owner = C!Nobody
  PROVE  /\ \A r \in Replicas : pc[r] \notin C!Running
         /\ phase <= Skew => runs = 0
  <1>1. ASSUME NEW r \in Replicas, pc[r] \in C!Running PROVE FALSE
    BY <1>1, AgeBound, CronAssumed DEF CronInv, Covered, C!Free
  <1>2. phase <= Skew => runs = 0
    BY CronAssumed DEF CronInv, Shielded, C!Free, C!TypeOK
  <1> QED
    BY <1>1, <1>2

\* A run begins on a free row.
LEMMA RunStep ==
  ASSUME RunFits, Prompt, CronInv, NEW r \in Replicas, C!Run(r), C!Free \/ owner = C!Nobody, phase <= Skew,
         phase' = phase, due' \in SUBSET Replicas
  PROVE  CronInv'
  <1>1. runs' = 1
    BY FreeRow DEF C!Run
  <1>2. /\ pc' = [pc EXCEPT ![r] = "attempt"] /\ spent' = [spent EXCEPT ![r] = 0]
        /\ age' = [age EXCEPT ![r] = 0] /\ try' = [try EXCEPT ![r] = 1]
        /\ owner' = r /\ until' = Lease
    BY DEF C!Run, C!Goto
  <1>3. C!TypeOK'
    BY <1>1, <1>2, CronAssumed DEF CronInv, C!TypeOK, C!Running
  <1>4. \A s \in Replicas : pc'[s] \in C!Running => s = r
    BY <1>2, FreeRow DEF CronInv, C!TypeOK
  <1>5. Latest[1] = 0
    BY LatestIsSchedule DEF Schedule
  <1>6. Timed'
    BY <1>2, <1>4, <1>5, CronAssumed DEF CronInv, C!TypeOK, Timed, C!Running
  <1>7. Covered'
    BY <1>2, <1>4, CronAssumed DEF Covered, CronInv, C!TypeOK
  <1>8. Shielded'
    BY <1>2, <1>4, CronAssumed DEF Shielded, CronInv, C!TypeOK, Prompt
  <1>9. Inserting' /\ C!TickOnce'
    BY <1>1, <1>2 DEF Inserting, C!TickOnce, CronInv, C!TypeOK
  <1> QED
    BY <1>3, <1>6, <1>7, <1>8, <1>9 DEF CronInv

\* A replica moves on without touching the row or the clock.
LEMMA MoveStep ==
  ASSUME RunFits, CronInv, NEW r \in Replicas, UNCHANGED <<owner, until, phase, runs>>,
         due' \in SUBSET Replicas, C!TypeOK',
         \A s \in Replicas \ {r} : pc'[s] = pc[s] /\ age'[s] = age[s] /\ try'[s] = try[s] /\ spent'[s] = spent[s],
         pc'[r] \in C!Running => pc[r] \in C!Running /\ age'[r] = age[r],
         pc'[r] = "insert" => phase <= Skew,
         Timed'
  PROVE  CronInv'
  <1>1. Covered'
    BY DEF CronInv, Covered
  <1>2. Shielded'
    BY DEF CronInv, Shielded
  <1>3. Inserting' /\ C!TickOnce'
    BY DEF CronInv, Inserting, C!TickOnce
  <1> QED
    BY <1>1, <1>2, <1>3 DEF CronInv

\* Of a replica's own step the clauses of the others say nothing.
LEMMA TimedAlone ==
  ASSUME CronInv, NEW r \in Replicas,
         \A s \in Replicas \ {r} : pc'[s] = pc[s] /\ age'[s] = age[s] /\ try'[s] = try[s] /\ spent'[s] = spent[s],
         /\ pc'[r] \in C!Running => try'[r] \in 1 .. MaxTries
         /\ pc'[r] = "attempt" => age'[r] <= Latest[try'[r]] + spent'[r] /\ spent'[r] <= Timeout
         /\ pc'[r] = "sleep" => /\ try'[r] < MaxTries /\ spent'[r] <= C!Pause(try'[r])
                                /\ age'[r] <= Latest[try'[r]] + Timeout + spent'[r]
         /\ pc'[r] = "failure" => age'[r] <= Latest[try'[r]] + Timeout + spent'[r] /\ spent'[r] <= Timeout
         /\ pc'[r] = "unlock" => age'[r] <= Latest[try'[r]] + 2 * Timeout
  PROVE  Timed'
  BY DEF CronInv, Timed

\* One step keeps the invariant.
LEMMA StepCronInv ==
  ASSUME RunFits, Prompt, CronInv, [C!Next]_(C!vars)
  PROVE  CronInv'
  <1> USE CronAssumed
  <1>1. ASSUME NEW r \in Replicas, C!Skip(r) PROVE CronInv'
    <2>1. C!TypeOK'
      BY <1>1 DEF C!Skip, C!Fires, C!lockrow, CronInv, C!TypeOK
    <2>2. Timed'
      BY <1>1 DEF C!Skip, CronInv, Timed
    <2> QED
      BY <1>1, <2>1, <2>2, MoveStep DEF C!Skip, C!Fires, C!lockrow, CronInv, Inserting, C!TypeOK
  <1>2. ASSUME NEW r \in Replicas, C!Acquire(r) PROVE CronInv'
    BY <1>2, RunStep DEF C!Acquire, C!Fires, CronInv, C!TypeOK
  <1>3. ASSUME NEW r \in Replicas, C!Contend(r) PROVE CronInv'
    <2>1. C!TypeOK'
      BY <1>3 DEF C!Contend, C!Goto, C!Fires, C!lockrow, CronInv, C!TypeOK
    <2>2. pc'[r] = "insert" /\ phase <= Skew
      BY <1>3 DEF C!Contend, C!Goto, C!Fires, CronInv, C!TypeOK
    <2>3. Timed'
      BY <1>3, <2>2, TimedAlone DEF C!Contend, C!Goto, C!Running, CronInv, C!TypeOK
    <2> QED
      BY <1>3, <2>1, <2>2, <2>3, MoveStep DEF C!Contend, C!Goto, C!Fires, C!lockrow, CronInv, C!TypeOK, C!Running
  <1>4. ASSUME NEW r \in Replicas, C!FireFails(r) PROVE CronInv'
    <2>1. C!TypeOK'
      BY <1>4 DEF C!FireFails, C!Fires, C!lockrow, CronInv, C!TypeOK
    <2>2. Timed'
      BY <1>4 DEF C!FireFails, CronInv, Timed
    <2>3. CASE UNCHANGED C!lockrow
      BY <1>4, <2>1, <2>2, <2>3, MoveStep DEF C!FireFails, C!Fires, C!lockrow, CronInv, Inserting, C!TypeOK
    <2>4. CASE (C!Free \/ owner = C!Nobody) /\ owner' = r /\ until' = Lease
      <3>1. Covered' /\ Shielded'
        BY <1>4, <2>4, FreeRow DEF C!FireFails, C!Fires, CronInv, Covered, Shielded, C!TypeOK, Prompt
      <3>2. Inserting' /\ C!TickOnce'
        BY <1>4 DEF C!FireFails, C!Fires, CronInv, Inserting, C!TickOnce
      <3> QED
        BY <2>1, <2>2, <3>1, <3>2 DEF CronInv
    <2> QED
      BY <1>4, <2>3, <2>4 DEF C!FireFails
  <1>5. ASSUME NEW r \in Replicas, C!Insert(r) PROVE CronInv'
    <2>1. CASE owner = C!Nobody /\ C!Run(r)
      BY <1>5, <2>1, RunStep DEF C!Insert, C!clock, CronInv, Inserting, C!TypeOK
    <2>2. CASE C!Goto(r, "idle") /\ UNCHANGED <<C!lockrow, runs, age, try>>
      <3>1. C!TypeOK'
        BY <1>5, <2>2 DEF C!Insert, C!Goto, C!clock, C!lockrow, CronInv, C!TypeOK
      <3>2. Timed'
        BY <1>5, <2>2, TimedAlone DEF C!Goto, C!Running, CronInv, C!TypeOK
      <3> QED
        BY <1>5, <2>2, <3>1, <3>2, MoveStep DEF C!Insert, C!Goto, C!clock, C!lockrow, CronInv, C!TypeOK, C!Running
    <2> QED
      BY <1>5, <2>1, <2>2 DEF C!Insert
  <1>6. ASSUME NEW r \in Replicas, NEW result \in {"ok", "fail", "permanent"}, C!AttemptEnd(r, result) PROVE CronInv'
    <2>1. C!TypeOK'
      BY <1>6 DEF C!AttemptEnd, C!Goto, C!clock, C!lockrow, CronInv, C!TypeOK, C!Running
    <2>2. /\ pc[r] = "attempt" /\ pc'[r] \in {"unlock", "failure", "sleep"} /\ spent'[r] = 0
          /\ pc'[r] = "sleep" => try[r] # MaxTries
      BY <1>6 DEF C!AttemptEnd, C!Goto, CronInv, C!TypeOK
    <2>3. Timed'
      <3>1. /\ try[r] \in 1 .. MaxTries /\ age[r] <= Latest[try[r]] + spent[r] /\ spent[r] <= Timeout
            /\ age[r] \in Nat /\ spent[r] \in Nat
        BY <2>2 DEF CronInv, Timed, C!TypeOK, C!Running
      <3>2. Latest[try[r]] \in Nat /\ C!Pause(try[r]) \in Nat
        BY <3>1, LatestIsSchedule, PauseAssumed DEF Schedules
      <3> QED
        BY <1>6, <2>2, <3>1, <3>2, TimedAlone DEF C!AttemptEnd, C!Goto, CronInv, C!TypeOK
    <2> QED
      BY <1>6, <2>1, <2>2, <2>3, MoveStep DEF C!AttemptEnd, C!Goto, C!clock, C!lockrow, CronInv, C!TypeOK, C!Running
  <1>7. ASSUME NEW r \in Replicas, C!Retry(r) PROVE CronInv'
    <2>1. /\ pc[r] = "sleep" /\ try[r] \in 1 .. MaxTries - 1 /\ spent[r] = C!Pause(try[r])
          /\ age[r] <= Latest[try[r]] + Timeout + spent[r] /\ spent[r] \in Nat /\ age[r] \in Nat
      BY <1>7, PauseAssumed DEF C!Retry, CronInv, Timed, C!TypeOK, C!Running
    <2>2. C!TypeOK'
      BY <1>7, <2>1 DEF C!Retry, C!Goto, C!clock, C!lockrow, CronInv, C!TypeOK, C!Running
    <2>3. pc'[r] = "attempt" /\ try'[r] = try[r] + 1 /\ spent'[r] = 0 /\ age'[r] = age[r]
      BY <1>7 DEF C!Retry, C!Goto, CronInv, C!TypeOK
    <2>4. Timed'
      <3>1. /\ Latest[try[r]] + Timeout + C!Pause(try[r]) <= Latest[try[r] + 1]
            /\ Latest[try[r]] \in Nat /\ Latest[try[r] + 1] \in Nat /\ C!Pause(try[r]) \in Nat
        <4>1. try[r] \in 1 .. MaxTries /\ try[r] + 1 \in 1 .. MaxTries
          BY <2>1
        <4> QED
          BY SMTT(60), <2>1, <4>1, LatestIsSchedule, PauseAssumed DEF Schedule, Schedules
      <3>2. age'[r] <= Latest[try'[r]] /\ try'[r] \in 1 .. MaxTries /\ Latest[try'[r]] \in Nat
        BY <2>1, <2>3, <3>1
      <3>3. /\ Timeout \in Nat /\ spent'[r] = 0 /\ pc'[r] = "attempt" /\ age'[r] \in Nat
            /\ \A s \in Replicas \ {r} : pc'[s] = pc[s] /\ age'[s] = age[s] /\ try'[s] = try[s] /\ spent'[s] = spent[s]
        BY <1>7, <2>1, <2>3 DEF C!Retry, C!Goto, CronInv, C!TypeOK
      <3> QED
        BY <3>2, <3>3, TimedAlone
    <2> QED
      BY <1>7, <2>1, <2>2, <2>3, <2>4, MoveStep DEF C!Retry, C!Goto, C!clock, C!lockrow, CronInv, C!TypeOK, C!Running
  <1>8. ASSUME NEW r \in Replicas, C!FailureEnd(r) PROVE CronInv'
    <2>1. C!TypeOK'
      BY <1>8 DEF C!FailureEnd, C!Goto, C!clock, C!lockrow, CronInv, C!TypeOK, C!Running
    <2>2. pc[r] = "failure" /\ pc'[r] = "unlock"
      BY <1>8 DEF C!FailureEnd, C!Goto, CronInv, C!TypeOK
    <2>3. Timed'
      <3>1. /\ try[r] \in 1 .. MaxTries /\ age[r] <= Latest[try[r]] + Timeout + spent[r] /\ spent[r] <= Timeout
            /\ age[r] \in Nat /\ spent[r] \in Nat
        BY <2>2 DEF CronInv, Timed, C!TypeOK, C!Running
      <3>2. Latest[try[r]] \in Nat
        BY <3>1, LatestIsSchedule DEF Schedules
      <3> QED
        BY <1>8, <2>2, <3>1, <3>2, TimedAlone DEF C!FailureEnd, C!Goto, CronInv, C!TypeOK
    <2> QED
      BY <1>8, <2>1, <2>2, <2>3, MoveStep DEF C!FailureEnd, C!Goto, C!clock, C!lockrow, CronInv, C!TypeOK, C!Running
  <1>9. ASSUME NEW r \in Replicas, C!Unlock(r) PROVE CronInv'
    <2>1. /\ pc[r] = "unlock" /\ owner = r /\ until' \in {until, C!Remaining(r)} /\ owner' = owner
          /\ pc' = [pc EXCEPT ![r] = "idle"] /\ age' = [age EXCEPT ![r] = 0]
          /\ try' = [try EXCEPT ![r] = 0] /\ spent' = [spent EXCEPT ![r] = 0]
          /\ UNCHANGED <<phase, due, runs>>
      BY <1>9 DEF C!Unlock, C!Goto, C!clock, CronInv, Covered, C!Running
    <2>2. C!TypeOK'
      BY <2>1 DEF C!Remaining, CronInv, C!TypeOK, C!Running
    <2>3. Timed'
      BY <2>1, TimedAlone DEF CronInv, C!TypeOK, C!Running
    <2>4. \A s \in Replicas : pc'[s] \notin C!Running
      BY <2>1 DEF CronInv, Covered, C!TypeOK, C!Running
    <2>5. Shielded'
      <3>1. runs > 0 => age[r] <= phase /\ until + phase > Skew
        BY <2>1 DEF CronInv, Shielded, C!Running
      <3>2. runs > 0 => until' + phase > Skew
        <4>1. age[r] \in Nat /\ phase \in Nat /\ until \in Nat /\ Skew < MinHold
          BY DEF CronInv, C!TypeOK, Prompt
        <4>2. C!Remaining(r) = IF age[r] < MinHold THEN MinHold - age[r] ELSE 0
          BY DEF C!Remaining
        <4>3. until' = until \/ until' = C!Remaining(r)
          BY <2>1
        <4>4. Skew \in Nat /\ MinHold \in Nat
          OBVIOUS
        <4>5. CASE until' = until
          BY <3>1, <4>5
        <4>6. CASE until' = C!Remaining(r)
          <5> HIDE CronAssumed
          <5> QED
            BY <3>1, <4>1, <4>2, <4>4, <4>6
        <4> QED
          BY <4>3, <4>5, <4>6
      <3> QED
        BY <2>1, <2>4, <3>2 DEF CronInv, Shielded, C!TypeOK, C!Nobody
    <2>6. Covered' /\ Inserting' /\ C!TickOnce'
      BY <2>1, <2>4 DEF CronInv, Covered, Inserting, C!TickOnce, C!TypeOK
    <2> QED
      BY <2>2, <2>3, <2>5, <2>6 DEF CronInv
  <1>10. ASSUME NEW r \in Replicas, C!Crash(r) PROVE CronInv'
    <2>1. C!TypeOK'
      BY <1>10 DEF C!Crash, C!Goto, C!clock, C!lockrow, CronInv, C!TypeOK
    <2>2. Timed'
      BY <1>10, TimedAlone DEF C!Crash, C!Goto, C!Running, CronInv, C!TypeOK
    <2> QED
      BY <1>10, <2>1, <2>2, MoveStep DEF C!Crash, C!Goto, C!clock, C!lockrow, CronInv, C!TypeOK, C!Running
  <1>11. ASSUME NEW r \in Replicas, C!Restart(r) PROVE CronInv'
    <2>1. C!TypeOK'
      BY <1>11 DEF C!Restart, C!Goto, C!clock, C!lockrow, CronInv, C!TypeOK
    <2>2. Timed'
      BY <1>11, TimedAlone DEF C!Restart, C!Goto, C!Running, CronInv, C!TypeOK
    <2> QED
      BY <1>11, <2>1, <2>2, MoveStep DEF C!Restart, C!Goto, C!clock, C!lockrow, CronInv, C!TypeOK, C!Running
  <1>12. ASSUME C!Tick PROVE CronInv'
    <2>1. /\ UNCHANGED <<owner, pc, try>> /\ until' = (IF until = 0 THEN 0 ELSE until - 1)
          /\ age' = [r \in Replicas |-> IF pc[r] \in C!Running THEN age[r] + 1 ELSE 0]
          /\ spent' = [r \in Replicas |-> IF pc[r] \in C!Running THEN spent[r] + 1 ELSE 0]
          /\ \/ phase' = 0 /\ due' = Replicas /\ runs' = 0
             \/ phase' = phase + 1 /\ phase # Period - 1 /\ due' = due /\ runs' = runs
          /\ \A r \in Replicas : C!MayWait(r)
      BY <1>12 DEF C!Tick
    <2>2. C!TypeOK'
      BY <2>1 DEF CronInv, C!TypeOK
    <2>3. Timed'
      <3> SUFFICES ASSUME NEW r \in Replicas
                   PROVE  (Timed!(r))'
        BY DEF Timed
      <3>1. pc[r] \in C!Running => /\ try[r] \in 1 .. MaxTries /\ Latest[try[r]] \in Nat /\ C!Pause(try[r]) \in Nat
        BY LatestIsSchedule, PauseAssumed DEF CronInv, Timed, Schedules
      <3> QED
        BY <2>1, <3>1 DEF CronInv, Timed, C!TypeOK, C!MayWait, C!Running
    <2>4. Covered'
      BY <2>1, AgeBound DEF CronInv, Covered, C!TypeOK
    <2>5. Shielded'
      BY <2>1 DEF CronInv, Shielded, C!TypeOK
    <2>6. Inserting' /\ C!TickOnce'
      BY <2>1 DEF CronInv, Inserting, C!TickOnce, C!MayWait
    <2> QED
      BY <2>2, <2>3, <2>4, <2>5, <2>6 DEF CronInv
  <1>13. ASSUME UNCHANGED C!vars PROVE CronInv'
    BY <1>13 DEF C!vars, CronInv, C!TypeOK, Timed, Covered, Shielded, Inserting, C!TickOnce
  <1> QED
    BY <1>1, <1>2, <1>3, <1>4, <1>5, <1>6, <1>7, <1>8, <1>9, <1>10, <1>11, <1>12, <1>13 DEF C!Next, C!Step

-----------------------------------------------------------------------------
\* The inductive invariant holds in every reachable state.
THEOREM LeaseInvariant == ASSUME RunFits, Prompt PROVE C!Spec => []CronInv
  <1>1. CronInv /\ [C!Next]_(C!vars) => CronInv'
    BY StepCronInv
  <1> QED
    BY <1>1, InitCronInv, PTL DEF C!Spec

\* A tick runs on at most one replica (cron/locker.go: minHold).
THEOREM TicksOnce == ASSUME RunFits, Prompt PROVE C!Spec => []C!TickOnce
  <1>1. CronInv => C!TickOnce
    BY DEF CronInv
  <1> QED
    BY <1>1, LeaseInvariant, PTL

\* Two replicas never run the job at the same time (cron/locker.go: lease).
THEOREM NeverOverlaps == ASSUME RunFits, Prompt PROVE C!Spec => []C!NoOverlap
  <1>1. CronInv => C!NoOverlap
    BY DEF CronInv, Covered, C!NoOverlap
  <1> QED
    BY <1>1, LeaseInvariant, PTL

-----------------------------------------------------------------------------
(* The process *)

Open == {"boot", "serving", "drain"}              \* before the listener is closed
Late == P!Parts \cup {"shutdownAll", "exited"}      \* after the requests
Ending == Late \cup {"requests"}

Types ==
    /\ conf \in Configs /\ conf.drain \in Nat /\ conf.grace \in Nat
    /\ at \in Open \cup {"close"} \cup Ending
    /\ stage \in Nat /\ (P!Booting => stage <= Len(P!Stages))
    /\ part \in [P!Parts -> {"off", "idle", "busy"}] /\ asked \subseteq P!Parts
    /\ net \in [listener : {"starting", "open", "closed"}, draining : BOOLEAN, failed : BOOLEAN]
    /\ time \in [elapsed : Nat, closed : Nat, cron : Nat]
    /\ req \in [Requests -> {"none", "sent", "inflight", "done", "refused"}]
    /\ balancer \in [routes : BOOLEAN, age : Nat] /\ balancer.age <= PollEvery

Inflight == \E r \in Requests : req[r] = "inflight"
Sent == \E r \in Requests : req[r] = "sent"

\* During the boot, and after one that was aborted, nothing listens.
Unserved == ~P!Served => at \in {"boot", "exited"} /\ net.listener = "starting"

\* Once the listener is closed it stays so, and what was accepted is done or out of time.
Finished ==
    P!Served => /\ at \in Ending => net.listener = "closed"
                /\ (at \in Late /\ Inflight) => P!Expired

\* What Run has waited for does not start again.
Quiet ==
    P!Served => /\ at \in {"outbox", "inbox", "audit", "shutdownAll", "exited"} =>
                      "cron" \in asked /\ (part["cron"] = "busy" => time.cron >= CronStop)
                /\ at \in {"inbox", "audit", "shutdownAll", "exited"} => (part["outbox"] = "off" \/ P!Expired)
                /\ at \in {"audit", "shutdownAll", "exited"} => (part["inbox"] = "off" \/ P!Expired)

\* How much of the time each step has left.
Punctual ==
    /\ at \in {"boot", "serving"} => time.elapsed = 0
    /\ at \in {"drain", "close"} => time.elapsed <= conf.drain
    /\ time.closed <= conf.drain
    /\ at \in {"boot", "serving", "drain", "close", "requests"} => time.cron = 0
    /\ time.elapsed <= P!Deadline + time.cron /\ time.cron <= CronStop
    /\ (time.cron > 0 \/ part["cron"] # "off") => "cron" \in built

\* Where readiness drains for longer than the balancer takes to see it, what it still sends
\* arrives before the listener is closed.
Draining == P!Has("health") /\ conf.drain > PollEvery /\ ~net.failed
Balanced ==
    /\ at \in {"boot", "serving"} => ~net.draining /\ ~net.failed
    /\ at \notin {"boot", "serving"} /\ P!Served => net.draining
    /\ net.listener = "starting" => ~balancer.routes /\ ~Sent
    /\ (at \in Open /\ net.listener = "closed") => ~balancer.routes /\ ~Sent
    /\ Draining =>
        /\ at = "drain" => /\ balancer.routes => time.elapsed <= balancer.age
                           /\ Sent => time.elapsed <= PollEvery
        /\ (at \notin Open) => ~balancer.routes /\ ~Sent

ProcessInv == Types /\ Unserved /\ Finished /\ Quiet /\ Punctual /\ Balanced /\ P!NoRefusal

-----------------------------------------------------------------------------
LEMMA StageCount == Len(P!Stages) = 20
  BY DEF P!Stages

LEMMA AssumedDurations ==
  ASSUME P!LifecycleAssumption, NEW c \in Configs
  PROVE  PollEvery \in Nat /\ CronStop \in Nat /\ c.drain \in Nat /\ c.grace \in Nat
  BY DEF P!LifecycleAssumption

LEMMA TypesInit ==
  ASSUME P!LifecycleAssumption, P!Init
  PROVE  Types
  BY AssumedDurations, StageCount DEF P!Init, Types, P!Booting, Open, Ending, Late, P!Parts, P!Workers

\* The boot: nothing listens, nothing has been asked of it, no time is counted yet.
LEMMA TypesBoot ==
  ASSUME P!LifecycleAssumption, Types, P!Connect \/ P!InitAll \/ P!Pass \/ P!Degrade \/ P!Abort
  PROVE  Types'
  <1>1. CASE P!Connect
    BY <1>1 DEF P!Connect, Types, P!Booting, P!Served
  <1>2. CASE P!InitAll
    BY <1>2 DEF P!InitAll, Types, P!Booting, P!Served
  <1>3. CASE P!Degrade
    <2>1. P!Stage \in P!MayDegrade /\ at = "boot" /\ stage \in Nat /\ stage <= Len(P!Stages)
      BY <1>3 DEF P!Degrade, Types, P!Booting
    <2>2. stage # Len(P!Stages)
      BY <2>1, StageCount DEF P!Stage, P!Stages, P!MayDegrade
    <2> QED
      BY <1>3, <2>1, <2>2, StageCount DEF P!Degrade, Types, P!Booting, P!Served
  <1>4. CASE P!Abort
    BY <1>4 DEF P!Abort, Types, P!Booting, P!Served, Late, Ending
  <1>5. CASE P!Pass
    <2>1. part' \in [P!Parts -> {"off", "idle", "busy"}]
      BY <1>5 DEF P!Pass, Types
    <2>2. at = "boot" /\ stage' = stage + 1 /\ at' = IF stage = Len(P!Stages) THEN "serving" ELSE at
      BY <1>5 DEF P!Pass, P!Booting
    <2>3. UNCHANGED <<conf, asked, net, time, req, balancer>>
      BY <1>5 DEF P!Pass
    <2> QED
      BY <2>1, <2>2, <2>3, StageCount DEF Types, P!Booting, P!Served, Open
  <1> QED
    BY <1>1, <1>2, <1>3, <1>4, <1>5

\* The steps of Run after the boot.
LEMMA TypesMain ==
  ASSUME P!LifecycleAssumption, Types, P!StopServing \/ P!Drained \/ P!CloseListener \/ P!RequestsOver \/ P!Ask \/ P!Stop \/ P!ShutdownAll
  PROVE  Types'
  <1>1. CASE P!StopServing
    BY <1>1 DEF P!StopServing, P!SetDraining, Types, P!Booting, P!Served, Open
  <1>2. CASE P!Drained
    BY <1>2 DEF P!Drained, Types, P!Booting, P!Served
  <1>3. CASE P!CloseListener
    BY <1>3 DEF P!CloseListener, Types, P!Booting, P!Served, Ending
  <1>4. CASE P!RequestsOver
    BY <1>4 DEF P!RequestsOver, Types, P!Booting, P!Served, Ending, Late, P!Parts
  <1>5. CASE P!Ask
    BY <1>5 DEF P!Ask, Types, P!Booting, P!Served
  <1>6. CASE P!Stop
    BY <1>6 DEF P!Stop, P!After, Types, P!Booting, P!Served, Ending, Late, P!Parts, P!Workers
  <1>7. CASE P!ShutdownAll
    BY <1>7 DEF P!ShutdownAll, Types, P!Booting, P!Served, Ending, Late
  <1> QED
    BY <1>1, <1>2, <1>3, <1>4, <1>5, <1>6, <1>7

\* Time passes.
LEMMA TickFacts ==
  ASSUME Types, P!Tick
  PROVE  /\ time' \in [elapsed : Nat, closed : Nat, cron : Nat] /\ time'.elapsed = time.elapsed + 1
         /\ time'.closed = time.closed /\ time'.cron = IF at = "cron" THEN time.cron + 1 ELSE time.cron
         /\ balancer' \in [routes : BOOLEAN, age : Nat] /\ balancer'.routes = balancer.routes
         /\ balancer'.age = balancer.age + 1
  <1> DEFINE cron == IF at = "cron" THEN time.cron + 1 ELSE time.cron
             later == [time EXCEPT !.elapsed = time.elapsed + 1]
  <1>1. /\ later \in [elapsed : Nat, closed : Nat, cron : Nat] /\ later.elapsed = time.elapsed + 1
        /\ later.closed = time.closed /\ later.cron = time.cron
    BY DEF Types
  <1>2. cron \in Nat
    BY DEF Types
  <1>3. time' = [later EXCEPT !.cron = cron]
    BY DEF P!Tick
  <1>4. /\ balancer' \in [routes : BOOLEAN, age : Nat] /\ balancer'.routes = balancer.routes
        /\ balancer'.age = balancer.age + 1
    BY DEF P!Tick, Types
  <1> HIDE DEF later, cron
  <1>5. /\ time' \in [elapsed : Nat, closed : Nat, cron : Nat] /\ time'.elapsed = later.elapsed
        /\ time'.closed = later.closed /\ time'.cron = cron
    BY <1>1, <1>2, <1>3
  <1> QED
    BY <1>1, <1>4, <1>5 DEF cron

\* The steps of everything else.
LEMMA TypesOther ==
  ASSUME P!LifecycleAssumption, Types,
         \/ P!Listen \/ P!ListenFails \/ P!Tick \/ \E ping \in BOOLEAN : P!Poll(ping)
         \/ \E r \in Requests : P!Send(r) \/ P!Receive(r) \/ P!Answer(r)
         \/ \E p \in P!Parts : P!WorkStarts(p) \/ P!WorkEnds(p) \/ P!LoopEnds(p)
  PROVE  Types'
  <1>1. CASE P!Listen \/ P!ListenFails
    BY <1>1 DEF P!Listen, P!ListenFails, Types, P!Booting, P!Served
  <1>2. CASE P!Tick
    BY SMTT(60), <1>2, TickFacts DEF P!Tick, Types, P!Booting, P!Served, P!LifecycleAssumption
  <1>3. ASSUME NEW ping \in BOOLEAN, P!Poll(ping) PROVE Types'
    <2>1. P!Readiness(ping) \in BOOLEAN
      BY DEF P!Readiness
    <2> QED
      BY <1>3, <2>1 DEF P!Poll, Types, P!Booting, P!Served, P!LifecycleAssumption
  <1>4. ASSUME NEW r \in Requests, P!Send(r) \/ P!Receive(r) \/ P!Answer(r) PROVE Types'
    BY SMTT(60), <1>4 DEF P!Send, P!Receive, P!Answer, Types, P!Booting, P!Served
  <1>5. ASSUME NEW p \in P!Parts, P!WorkStarts(p) \/ P!WorkEnds(p) \/ P!LoopEnds(p) PROVE Types'
    BY SMTT(60), <1>5 DEF P!WorkStarts, P!WorkEnds, P!LoopEnds, Types, P!Booting, P!Served
  <1> QED
    BY <1>1, <1>2, <1>3, <1>4, <1>5

LEMMA TypesStep ==
  ASSUME P!LifecycleAssumption, Types, [P!Next]_(P!lvars)
  PROVE  Types'
  <1>1. CASE UNCHANGED P!lvars
    BY <1>1 DEF P!lvars, Types, P!Booting, P!Served
  <1> QED
    BY <1>1, TypesBoot, TypesMain, TypesOther DEF P!Next, P!Main

-----------------------------------------------------------------------------
\* Whatever happens, the configuration stays, a boot leads to a server or to nothing, and what
\* was asked of a part stays asked.
LEMMA Settings ==
  ASSUME Types, [P!Next]_(P!lvars)
  PROVE  /\ UNCHANGED conf /\ asked \subseteq asked' /\ built \subseteq built'
         /\ (at # "boot" => UNCHANGED <<stage, built>>) /\ (P!Served => P!Served') /\ (at # "boot" => (P!Served' => P!Served))
         /\ time'.elapsed >= time.elapsed /\ (P!Expired => P!Expired')
  <1>1. CASE P!Connect \/ P!InitAll \/ P!Pass \/ P!Degrade \/ P!Abort
    BY <1>1, StageCount DEF P!Connect, P!InitAll, P!Pass, P!Degrade, P!Abort, P!Booting, P!Served, P!Expired, P!Deadline, Types
  <1>2. CASE P!StopServing \/ P!Drained \/ P!RequestsOver \/ P!Ask \/ P!Stop \/ P!ShutdownAll
    <2>1. UNCHANGED <<conf, stage, built, time>> /\ asked \subseteq asked'
      BY <1>2 DEF P!StopServing, P!Drained, P!RequestsOver, P!Ask, P!Stop, P!ShutdownAll
    <2> QED
      BY <2>1 DEF P!Served, P!Expired, P!Deadline, Types
  <1>3. CASE P!CloseListener
    BY <1>3 DEF P!CloseListener, P!Served, P!Expired, P!Deadline, Types
  <1>4. CASE P!Tick
    <2>1. UNCHANGED <<conf, asked, built, stage>>
      BY <1>4 DEF P!Tick
    <2> QED
      BY SMTT(60), <1>4, <2>1, TickFacts DEF P!Served, P!Expired, P!Deadline, Types
  <1>5. CASE P!Listen \/ P!ListenFails \/ \E ping \in BOOLEAN : P!Poll(ping)
    BY <1>5 DEF P!Listen, P!ListenFails, P!Poll, P!Served, P!Expired, P!Deadline, Types
  <1>6. CASE \/ \E r \in Requests : P!Send(r) \/ P!Receive(r) \/ P!Answer(r)
             \/ \E p \in P!Parts : P!WorkStarts(p) \/ P!WorkEnds(p) \/ P!LoopEnds(p)
    BY <1>6 DEF P!Send, P!Receive, P!Answer, P!WorkStarts, P!WorkEnds, P!LoopEnds, P!Served, P!Expired, P!Deadline, Types
  <1>7. CASE UNCHANGED P!lvars
    BY <1>7 DEF P!lvars, P!Served, P!Expired, P!Deadline, Types
  <1> QED
    BY <1>1, <1>2, <1>3, <1>4, <1>5, <1>6, <1>7 DEF P!Next, P!Main

LEMMA AfterStop == \A p : P!After(p) \in {"outbox", "inbox", "audit", "shutdownAll"}
  BY DEF P!After

\* Who changes what.
LEMMA Changes ==
  ASSUME [P!Next]_(P!lvars)
  PROVE  /\ UNCHANGED part \/ P!Pass \/ \E p \in P!Parts : P!WorkStarts(p) \/ P!WorkEnds(p) \/ P!LoopEnds(p)
         /\ UNCHANGED time \/ P!Tick \/ P!CloseListener
         /\ UNCHANGED net \/ P!Listen \/ P!ListenFails \/ P!StopServing \/ P!CloseListener
         /\ UNCHANGED req \/ \E r \in Requests : P!Send(r) \/ P!Receive(r) \/ P!Answer(r)
         /\ UNCHANGED balancer \/ P!Tick \/ \E ping \in BOOLEAN : P!Poll(ping)
  <1>1. CASE P!Connect \/ P!InitAll \/ P!Pass \/ P!Degrade \/ P!Abort
    BY <1>1 DEF P!Connect, P!InitAll, P!Pass, P!Degrade, P!Abort
  <1>2. CASE P!StopServing \/ P!Drained \/ P!CloseListener \/ P!RequestsOver \/ P!Ask \/ P!Stop \/ P!ShutdownAll
    BY <1>2 DEF P!StopServing, P!Drained, P!CloseListener, P!RequestsOver, P!Ask, P!Stop, P!ShutdownAll
  <1>3. CASE P!Tick \/ P!Listen \/ P!ListenFails \/ \E ping \in BOOLEAN : P!Poll(ping)
    BY <1>3 DEF P!Tick, P!Listen, P!ListenFails, P!Poll
  <1>4. CASE \E r \in Requests : P!Send(r) \/ P!Receive(r) \/ P!Answer(r)
    BY <1>4 DEF P!Send, P!Receive, P!Answer
  <1>5. CASE \E p \in P!Parts : P!WorkStarts(p) \/ P!WorkEnds(p) \/ P!LoopEnds(p)
    BY <1>5 DEF P!WorkStarts, P!WorkEnds, P!LoopEnds
  <1> QED
    BY <1>1, <1>2, <1>3, <1>4, <1>5 DEF P!Next, P!Main, P!lvars

\* Where Run goes: one step after the other.
LEMMA Path ==
  ASSUME Types, [P!Next]_(P!lvars), at' # at
  PROVE  \/ P!Pass /\ at = "boot" /\ at' = "serving"
         \/ P!Abort /\ at = "boot" /\ at' = "exited" /\ ~P!Served'
         \/ P!StopServing /\ at = "serving" /\ at' \in {"drain", "close"}
         \/ P!Drained /\ at = "drain" /\ at' = "close"
         \/ P!CloseListener /\ at = "close" /\ at' = "requests"
         \/ P!RequestsOver /\ at = "requests" /\ at' = "cron"
         \/ P!Stop /\ at \in P!Parts /\ at' = P!After(at) /\ P!Stopped(at) /\ at \in asked
         \/ P!ShutdownAll /\ at = "shutdownAll" /\ at' = "exited"
  <1>1. CASE P!Connect \/ P!InitAll \/ P!Degrade
    BY <1>1 DEF P!Connect, P!InitAll, P!Degrade
  <1>2. CASE P!Pass
    BY <1>2 DEF P!Pass, P!Booting
  <1>3. CASE P!Abort
    BY <1>3, StageCount DEF P!Abort, P!Booting, P!Served, Types
  <1>4. CASE P!StopServing \/ P!Drained \/ P!CloseListener
    BY <1>4 DEF P!StopServing, P!SetDraining, P!Drained, P!CloseListener
  <1>5. CASE P!RequestsOver \/ P!Ask \/ P!Stop \/ P!ShutdownAll
    BY <1>5 DEF P!RequestsOver, P!Ask, P!Stop, P!ShutdownAll, Types
  <1>6. CASE P!Tick \/ P!Listen \/ P!ListenFails \/ \E ping \in BOOLEAN : P!Poll(ping)
    BY <1>6 DEF P!Tick, P!Listen, P!ListenFails, P!Poll
  <1>7. CASE \/ \E r \in Requests : P!Send(r) \/ P!Receive(r) \/ P!Answer(r)
             \/ \E p \in P!Parts : P!WorkStarts(p) \/ P!WorkEnds(p) \/ P!LoopEnds(p)
    BY <1>7 DEF P!Send, P!Receive, P!Answer, P!WorkStarts, P!WorkEnds, P!LoopEnds
  <1> QED
    BY <1>1, <1>2, <1>3, <1>4, <1>5, <1>6, <1>7 DEF P!Next, P!Main, P!lvars

\* Once the boot is over, what is off stays off and cron, told to stop, starts no job.
LEMMA Works ==
  ASSUME Types, [P!Next]_(P!lvars), at # "boot"
  PROVE  /\ \A p \in P!Parts : part[p] = "off" => part'[p] = "off"
         /\ ("cron" \in asked /\ part["cron"] # "busy") => part'["cron"] # "busy"
         /\ time'.cron >= time.cron
  <1>1. CASE UNCHANGED part
    <2>1. time'.cron >= time.cron
      <3>1. CASE P!Tick
        BY <3>1, TickFacts DEF Types
      <3>2. CASE P!CloseListener
        BY <3>2 DEF P!CloseListener, Types
      <3>3. CASE UNCHANGED time
        BY <3>3 DEF Types
      <3> QED
        BY <3>1, <3>2, <3>3, Changes
    <2> QED
      BY <1>1, <2>1
  <1>2. ASSUME NEW p \in P!Parts, P!WorkStarts(p) \/ P!WorkEnds(p) \/ P!LoopEnds(p)
        PROVE  /\ \A q \in P!Parts : part[q] = "off" => part'[q] = "off"
               /\ ("cron" \in asked /\ part["cron"] # "busy") => part'["cron"] # "busy"
               /\ time' = time
    BY <1>2 DEF P!WorkStarts, P!WorkEnds, P!LoopEnds, Types, P!Parts
  <1>3. time.cron \in Nat
    BY DEF Types
  <1> QED
    BY <1>1, <1>2, <1>3, Changes DEF P!Pass, P!Booting

\* Who is given up on: a part that is told to stop and is not waited for any longer.
LEMMA QuietStep ==
  ASSUME P!LifecycleAssumption, Types, Quiet, [P!Next]_(P!lvars)
  PROVE  Quiet'
  <1> SUFFICES ASSUME P!Served', at' \in {"outbox", "inbox", "audit", "shutdownAll", "exited"} PROVE Quiet'
    BY DEF Quiet
  <1>1. at # "boot" /\ P!Served
    <2>1. at # "boot"
      BY Path DEF P!Served, P!Parts, P!Workers
    <2> QED
      BY <2>1, Settings
  <1>2. /\ asked \subseteq asked' /\ (P!Expired => P!Expired')
        /\ part["outbox"] = "off" => part'["outbox"] = "off"
        /\ part["inbox"] = "off" => part'["inbox"] = "off"
    BY <1>1, Settings, Works DEF P!Parts, P!Workers
  <1>3. ASSUME "cron" \in asked, part["cron"] = "busy" => time.cron >= CronStop
        PROVE  "cron" \in asked' /\ (part'["cron"] = "busy" => time'.cron >= CronStop)
    <2>1. CronStop \in Nat /\ time.cron \in Nat /\ time'.cron \in Nat /\ time'.cron >= time.cron
      BY <1>1, Works, TypesStep DEF P!LifecycleAssumption, Types
    <2>2. part'["cron"] = "busy" => part["cron"] = "busy"
      BY <1>1, <1>3, Works
    <2> QED
      BY <1>2, <1>3, <2>1, <2>2
  <1>4. CASE at' = at
    BY <1>1, <1>2, <1>3, <1>4 DEF Quiet
  <1>5. CASE at' # at
    <2>1. \/ at = "cron" /\ at' = "outbox" /\ P!Stopped("cron") /\ "cron" \in asked
          \/ at = "outbox" /\ at' = "inbox" /\ P!Stopped("outbox")
          \/ at = "inbox" /\ at' = "audit" /\ P!Stopped("inbox")
          \/ at \in {"audit", "shutdownAll"} /\ at' \in {"shutdownAll", "exited"}
      <3>1. /\ P!After("cron") = "outbox" /\ P!After("outbox") = "inbox" /\ P!After("inbox") = "audit"
            /\ P!After("audit") = "shutdownAll"
        BY DEF P!After
      <3>2. at # at'
        BY <1>5
      <3> QED
        BY <1>1, <3>1, <3>2, Path DEF P!Served, P!Parts, P!Workers
    <2>2. /\ P!Stopped("cron") => (part["cron"] = "busy" => time.cron >= CronStop)
          /\ \A p \in P!Workers : P!Stopped(p) => part[p] = "off" \/ P!Expired
      BY DEF P!Stopped, P!Workers
    <2> QED
      BY <1>1, <1>2, <1>3, <2>1, <2>2 DEF Quiet, P!Workers
  <1> QED
    BY <1>4, <1>5

-----------------------------------------------------------------------------
\* The listener is not opened again, and what was accepted is done or out of time.
LEMMA FinishedStep ==
  ASSUME P!LifecycleAssumption, Types, Finished, [P!Next]_(P!lvars)
  PROVE  Finished'
  <1> SUFFICES ASSUME P!Served', at' \in Ending PROVE (net.listener = "closed")' /\ (at' \in Late => (Inflight => P!Expired)')
    BY DEF Finished, Ending
  <1>1. at # "boot" /\ P!Served /\ at \in Ending \cup {"close"}
    <2>1. at # "boot" /\ at \in Ending \cup {"close"}
      BY Path DEF P!Served, Ending, Late, P!Parts, P!Workers
    <2> QED
      BY <2>1, Settings
  <1>2. net'.listener = "closed"
    <2>1. CASE P!CloseListener
      BY <2>1 DEF P!CloseListener, Types
    <2>2. CASE ~P!CloseListener
      <3>1. at \in Ending
        BY <1>1, <2>2, Path DEF Ending, Late, P!Parts, P!Workers
      <3>2. ~P!Listen /\ ~P!ListenFails /\ ~P!StopServing
        BY <3>1 DEF P!Listen, P!ListenFails, P!StopServing, Ending, Late, P!Parts, P!Workers
      <3>3. net' = net
        BY <2>2, <3>2, Changes
      <3> QED
        BY <1>1, <3>1, <3>3 DEF Finished
    <2> QED
      BY <2>1, <2>2
  <1>3. ASSUME at' \in Late, Inflight' PROVE P!Expired'
    <2>1. at \in Ending /\ net.listener = "closed"
      BY <1>1, <1>3, Path DEF Finished, Ending, Late, P!Parts, P!Workers
    <2>2. Inflight
      <3>1. PICK r \in Requests : req'[r] = "inflight"
        BY <1>3 DEF Inflight
      <3>2. req[r] = "inflight"
        BY <2>1, <3>1, Changes DEF P!Send, P!Receive, P!Answer, Types
      <3> QED
        BY <3>2 DEF Inflight
    <2>3. CASE at \in Late
      BY <1>1, <2>2, <2>3, Settings DEF Finished
    <2>4. CASE P!RequestsOver
      <3>1. P!Expired
        BY <2>2, <2>4 DEF P!RequestsOver, Inflight
      <3> QED
        BY <3>1, Settings
    <2> QED
      BY <2>1, <2>3, <2>4, <1>3, Path DEF Ending, Late, P!Parts, P!Workers
  <1> QED
    BY <1>2, <1>3

LEMMA UnservedStep ==
  ASSUME P!LifecycleAssumption, Types, Unserved, [P!Next]_(P!lvars)
  PROVE  Unserved'
  <1> SUFFICES ASSUME ~P!Served' PROVE at' \in {"boot", "exited"} /\ net'.listener = "starting"
    BY DEF Unserved
  <1>1. ~P!Served /\ at \in {"boot", "exited"} /\ net.listener = "starting"
    BY Settings DEF Unserved
  <1>2. net' = net
    BY <1>1, Changes DEF P!Listen, P!ListenFails, P!StopServing, P!CloseListener
  <1>3. ~P!Pass \/ at' = "boot"
    BY StageCount DEF P!Pass, P!Served, Types, P!Booting
  <1>4. at' \in {"boot", "exited"}
    BY <1>1, <1>3, Path DEF P!Parts, P!Workers
  <1> QED
    BY <1>1, <1>2, <1>4

-----------------------------------------------------------------------------
\* The time each step takes.
LEMMA PunctualStep ==
  ASSUME P!LifecycleAssumption, Types, Punctual, [P!Next]_(P!lvars)
  PROVE  Punctual'
  <1>1. /\ CronStop \in Nat /\ conf.drain \in Nat /\ conf.grace \in Nat /\ conf' = conf
        /\ time.elapsed \in Nat /\ time.closed \in Nat /\ time.cron \in Nat
    BY Settings DEF P!LifecycleAssumption, Types
  <1>2. CASE UNCHANGED <<at, time, part>>
    BY <1>1, <1>2, Settings DEF Punctual, P!Deadline
  <1>3. CASE P!Tick
    <2>1. /\ UNCHANGED <<at, part, built>> /\ time'.elapsed = time.elapsed + 1 /\ time'.closed = time.closed
          /\ time'.cron = IF at = "cron" THEN time.cron + 1 ELSE time.cron
      BY <1>3, TickFacts DEF P!Tick
    <2>2. CASE at = "drain"
      <3>1. time.elapsed < conf.drain /\ at \notin asked
        BY <1>3, <2>2 DEF P!Tick, P!Waits, Types, P!Parts, P!Workers
      <3> QED
        BY <1>1, <2>1, <2>2, <3>1 DEF Punctual, P!Deadline
    <2>3. CASE at = "cron"
      <3>1. part["cron"] = "busy" /\ ~(time.cron >= CronStop)
        <4>1. ~P!Stopped(at)
          BY <1>3, <2>3 DEF P!Tick, P!Waits
        <4>2. part["cron"] # "busy" \/ time.cron >= CronStop => P!Stopped("cron")
          BY DEF P!Stopped, P!Workers
        <4> QED
          BY <2>3, <4>1, <4>2
      <3> QED
        BY <1>1, <2>1, <2>3, <3>1 DEF Punctual, P!Deadline
    <2>4. CASE at \notin {"drain", "cron"}
      <3>1. ~P!Expired
        BY <1>3, <2>4 DEF P!Tick, P!Waits, P!Stopped, Types, P!Parts, P!Workers
      <3>2. at \notin {"boot", "serving", "close"}
        BY <1>3, <2>4 DEF P!Tick, P!Waits, Types, P!Parts, P!Workers
      <3> QED
        BY <1>1, <2>1, <2>4, <3>1, <3>2 DEF Punctual, P!Deadline, P!Expired
    <2> QED
      BY <2>2, <2>3, <2>4
  <1>4. CASE P!CloseListener
    <2>1. /\ time'.elapsed = time.elapsed /\ time'.closed = time.elapsed /\ time'.cron = time.cron
          /\ at = "close" /\ at' = "requests" /\ UNCHANGED <<part, built>>
      BY <1>4 DEF P!CloseListener, Types
    <2> QED
      BY <1>1, <2>1 DEF Punctual, P!Deadline
  <1>5. CASE P!Pass
    <2>1. /\ at = "boot" /\ at' \in {"boot", "serving"} /\ time' = time
          /\ part'["cron"] # "off" => part["cron"] # "off" \/ "cron" \in built'
      BY <1>5 DEF P!Pass, P!Booting, P!Starts, P!Parts, P!Workers, Types
    <2> QED
      BY <1>1, <2>1, Settings DEF Punctual, P!Deadline
  <1>6. CASE \E p \in P!Parts : P!WorkStarts(p) \/ P!WorkEnds(p) \/ P!LoopEnds(p)
    <2>1. UNCHANGED <<at, time, built>> /\ (part'["cron"] # "off" => part["cron"] # "off")
      BY <1>6 DEF P!WorkStarts, P!WorkEnds, P!LoopEnds, Types, P!Parts
    <2> QED
      BY <1>1, <2>1 DEF Punctual, P!Deadline
  <1>7. CASE UNCHANGED <<time, part>> /\ at' # at
    <2>1. \/ at = "boot" /\ at' \in {"serving", "exited"}
          \/ at = "serving" /\ at' \in {"drain", "close"}
          \/ at = "drain" /\ at' = "close"
          \/ at = "requests" /\ at' = "cron"
          \/ at' \notin {"boot", "serving", "drain", "close", "requests"}
          \/ P!CloseListener
      BY <1>7, Path DEF P!After
    <2> QED
      BY <1>1, <1>4, <1>7, <2>1, Settings DEF Punctual, P!Deadline
  <1> QED
    BY <1>2, <1>3, <1>4, <1>5, <1>6, <1>7, Changes

-----------------------------------------------------------------------------
\* Whoever polls sees the draining server as not ready.
LEMMA PollSees ==
  ASSUME Types, Unserved, Balanced, NEW ping \in BOOLEAN, P!Poll(ping)
  PROVE  /\ balancer'.age = 0 /\ balancer'.routes = P!Readiness(ping)
         /\ balancer'.routes => net.listener = "open"
         /\ (Draining /\ at \notin {"boot", "serving"} /\ P!Served) => ~balancer'.routes
  BY DEF P!Poll, P!Readiness, Balanced, Draining, Types

LEMMA BalancedStep ==
  ASSUME P!LifecycleAssumption, Types, Unserved, Finished, Punctual, Balanced, [P!Next]_(P!lvars)
  PROVE  Balanced'
  <1>1. /\ PollEvery \in Nat /\ conf.drain \in Nat /\ conf' = conf
        /\ time.elapsed \in Nat /\ balancer.age \in Nat /\ balancer.age <= PollEvery
    BY Settings DEF P!LifecycleAssumption, Types
  <1>2. CASE P!Connect \/ P!InitAll \/ P!Pass \/ P!Degrade \/ P!Abort
    <2>1. UNCHANGED <<net, req, balancer, time>> /\ at = "boot"
      BY <1>2 DEF P!Connect, P!InitAll, P!Pass, P!Degrade, P!Abort, P!Booting
    <2>2. at' \in {"boot", "serving", "exited"} /\ (at' = "exited" => ~P!Served')
      BY <2>1, Path DEF P!Parts, P!Workers
    <2>3. net.listener = "starting"
      BY <2>1, StageCount DEF Unserved, Types, P!Booting, P!Served
    <2> QED
      BY <1>1, <2>1, <2>2, <2>3 DEF Balanced, Draining, Open, Sent, P!Has
  <1>3. CASE P!StopServing
    <2>1. /\ UNCHANGED <<req, balancer, time, stage>> /\ at = "serving" /\ at' \in {"drain", "close"}
          /\ net'.draining /\ net'.listener = net.listener
          /\ (~net'.failed /\ conf.drain > 0) => at' = "drain"
          /\ net'.failed \/ ~net'.failed
      BY <1>3 DEF P!StopServing, P!SetDraining, Types
    <2>2. time.elapsed = 0
      BY <2>1 DEF Punctual
    <2> QED
      BY <1>1, <2>1, <2>2 DEF Balanced, Draining, Open, Sent, P!Has
  <1>4. CASE P!Drained
    <2>1. /\ UNCHANGED <<net, req, balancer, time, stage>> /\ at = "drain" /\ at' = "close"
          /\ time.elapsed >= conf.drain
      BY <1>4 DEF P!Drained
    <2>2. Draining => ~balancer.routes /\ ~Sent
      BY <1>1, <2>1 DEF Balanced, Draining
    <2> QED
      BY <1>1, <2>1, <2>2 DEF Balanced, Draining, Open, Sent, P!Has, P!Served
  <1>5. CASE P!CloseListener
    <2>1. /\ UNCHANGED <<req, balancer, stage>> /\ at = "close" /\ at' = "requests" /\ net'.listener = "closed"
          /\ net'.draining = net.draining /\ net'.failed = net.failed
      BY <1>5 DEF P!CloseListener, Types
    <2> QED
      BY <1>1, <2>1 DEF Balanced, Draining, Open, Sent, P!Has, P!Served
  <1>6. CASE P!RequestsOver \/ P!Ask \/ P!Stop \/ P!ShutdownAll
    <2>1. UNCHANGED <<net, req, balancer, stage>> /\ at \notin Open /\ at' \notin Open
      BY <1>6, AfterStop DEF P!RequestsOver, P!Ask, P!Stop, P!ShutdownAll, Open, P!Parts, P!Workers, Types
    <2> QED
      BY <1>1, <2>1 DEF Balanced, Draining, Open, Sent, P!Has, P!Served
  <1>7. CASE P!Listen \/ P!ListenFails
    <2>1. /\ UNCHANGED <<req, balancer, time, at, stage>> /\ net.listener = "starting" /\ at \in Open
          /\ net'.listener \in {"open", "closed"} /\ net'.draining = net.draining /\ net'.failed = net.failed
      BY <1>7 DEF P!Listen, P!ListenFails, Types, Open
    <2> QED
      BY <1>1, <2>1 DEF Balanced, Draining, Open, Sent, P!Has, P!Served
  <1>8. CASE P!Tick
    <2>1. UNCHANGED <<net, req, at, stage>> /\ ~Sent
      BY <1>8 DEF P!Tick, Sent
    <2> QED
      BY SMTT(60), <1>1, <1>8, <2>1, TickFacts DEF Balanced, Draining, Open, Sent, P!Has, P!Served
  <1>9. ASSUME NEW ping \in BOOLEAN, P!Poll(ping) PROVE Balanced'
    <2>1. UNCHANGED <<net, req, at, stage, time>> /\ at # "exited"
      BY <1>9 DEF P!Poll
    <2> QED
      BY <1>1, <1>9, <2>1, PollSees DEF Balanced, Draining, Open, Sent, P!Has, P!Served, Unserved
  <1>10. ASSUME NEW r \in Requests, P!Send(r) \/ P!Receive(r) \/ P!Answer(r) PROVE Balanced'
    <2>1. UNCHANGED <<net, balancer, at, stage, time>> /\ (Sent' => Sent \/ balancer.routes)
      BY <1>10 DEF P!Send, P!Receive, P!Answer, Sent, Types
    <2> QED
      BY <1>1, <2>1 DEF Balanced, Draining, Open, P!Has, P!Served
  <1>11. CASE (\E p \in P!Parts : P!WorkStarts(p) \/ P!WorkEnds(p) \/ P!LoopEnds(p)) \/ UNCHANGED P!lvars
    <2>1. UNCHANGED <<net, req, balancer, time, at, stage>>
      BY <1>11 DEF P!WorkStarts, P!WorkEnds, P!LoopEnds, P!lvars
    <2> QED
      BY <1>1, <2>1 DEF Balanced, Draining, Open, Sent, P!Has, P!Served
  <1> QED
    BY <1>2, <1>3, <1>4, <1>5, <1>6, <1>7, <1>8, <1>9, <1>10, <1>11 DEF P!Next, P!Main

\* A request is refused only where it is sent to a port that nobody listens on.
LEMMA RefusalStep ==
  ASSUME P!LifecycleAssumption, Types, Unserved, Finished, Balanced, P!NoRefusal, [P!Next]_(P!lvars)
  PROVE  P!NoRefusal'
  <1> SUFFICES ASSUME Draining', NEW r \in Requests, req'[r] = "refused" PROVE FALSE
    BY DEF P!NoRefusal, Draining
  <1>1. net.failed => net'.failed
    <2>1. CASE P!StopServing
      BY <2>1 DEF P!StopServing, Balanced, Types
    <2>2. CASE P!Listen \/ P!ListenFails \/ P!CloseListener
      BY <2>2 DEF P!Listen, P!ListenFails, P!CloseListener, Types
    <2> QED
      BY <2>1, <2>2, Changes
  <1>2. Draining
    BY <1>1, Settings DEF Draining, P!Has
  <1>3. req[r] # "refused"
    BY <1>2 DEF P!NoRefusal, Draining
  <1>4. req[r] = "sent" /\ net.listener # "open"
    BY <1>3, Changes DEF P!Send, P!Receive, P!Answer, Types
  <1> QED
    BY <1>2, <1>4 DEF Balanced, Sent, Types

-----------------------------------------------------------------------------
LEMMA InitInvariant ==
  ASSUME P!LifecycleAssumption, P!Init
  PROVE  ProcessInv
  <1>1. Types
    BY TypesInit
  <1>2. Unserved /\ Finished /\ Quiet
    BY StageCount DEF P!Init, Unserved, Finished, Quiet, P!Served
  <1>3. Punctual
    BY AssumedDurations DEF P!Init, Punctual, P!Deadline, P!Parts, P!Workers
  <1>4. Balanced
    BY StageCount DEF P!Init, Balanced, P!Served, Sent, Open
  <1>5. P!NoRefusal
    BY DEF P!Init, P!NoRefusal
  <1> QED
    BY <1>1, <1>2, <1>3, <1>4, <1>5 DEF ProcessInv

LEMMA StepInvariant ==
  ASSUME P!LifecycleAssumption, ProcessInv, [P!Next]_(P!lvars)
  PROVE  ProcessInv'
  BY TypesStep, UnservedStep, FinishedStep, QuietStep, PunctualStep, BalancedStep, RefusalStep DEF ProcessInv

\* The steps of a shutdown leave each other what they were promised.
LEMMA InvariantOrders ==
  ASSUME P!LifecycleAssumption, ProcessInv
  PROVE  P!StopsInOrder
  <1>1. P!QuietClose
    BY DEF ProcessInv, Finished, Quiet, P!QuietClose, Inflight, Late, P!Workers, P!Parts
  <1>2. P!GraceHonoured
    <2> SUFFICES ASSUME Inflight, P!Served, at \notin {"serving", "drain", "close", "requests"}
                 PROVE  time.elapsed - time.closed >= conf.grace
      BY DEF P!GraceHonoured, Inflight
    <2>1. at \in Late
      BY StageCount DEF ProcessInv, Types, P!Booting, P!Served, Open, Ending
    <2>2. time.elapsed >= conf.grace + conf.drain /\ time.closed <= conf.drain
      BY <2>1 DEF ProcessInv, Finished, Punctual, P!Expired, P!Deadline
    <2> QED
      BY <2>2 DEF ProcessInv, Types
  <1>3. P!ShutdownBounded
    <2>1. /\ time.elapsed \in Nat /\ time.cron \in Nat /\ CronStop \in Nat /\ P!Deadline \in Nat
      BY DEF ProcessInv, Types, P!Deadline, P!LifecycleAssumption
    <2>2. time.elapsed <= P!Deadline + time.cron /\ time.cron <= CronStop /\ (time.cron > 0 => "cron" \in built)
      BY DEF ProcessInv, Punctual
    <2> QED
      BY <2>1, <2>2 DEF P!ShutdownBounded
  <1> QED
    BY <1>1, <1>2, <1>3 DEF P!StopsInOrder

\* pkg/server: the inductive invariant of boot, serving and shutdown, with the balancer around them.
THEOREM ProcessInvariant == ASSUME P!LifecycleAssumption PROVE P!Spec => []ProcessInv
  <1>1. ProcessInv /\ [P!Next]_(P!lvars) => ProcessInv'
    BY StepInvariant
  <1> QED
    BY <1>1, InitInvariant, PTL DEF P!Spec

\* pkg/server/server.go: plugins and pools close after what uses them, within the deadline, and a
\* request has all of shutdown_timeout.
THEOREM StopsOrderly == ASSUME P!LifecycleAssumption PROVE P!Spec => []P!StopsInOrder
  <1>1. ProcessInv => P!StopsInOrder
    BY InvariantOrders
  <1> QED
    BY <1>1, ProcessInvariant, PTL

\* docs/production.md: a rolling restart with readiness and a drain longer than a poll drops no request.
THEOREM RestartsRefuseNothing == ASSUME P!LifecycleAssumption PROVE P!Spec => []P!NoRefusal
  <1>1. ProcessInv => P!NoRefusal
    BY DEF ProcessInv
  <1> QED
    BY <1>1, ProcessInvariant, PTL

-----------------------------------------------------------------------------
(* The composition: the cron job *)

\* The invariant of the job while it is on.
Composed == pc # Off => CronInv

\* Whatever the process does around it, the job keeps its invariant.
LEMMA ComposedInvariant == ASSUME RunFits, Prompt PROVE LifecycleSpec => []Composed
  <1>1. LifecycleInit => Composed
    BY InitCronInv DEF LifecycleInit, CronOff, Composed
  <1>2. Composed /\ [LifecycleNext]_background => Composed'
    <2> SUFFICES ASSUME Composed, [LifecycleNext]_background
                 PROVE  Composed'
      OBVIOUS
    <2>1. CASE InCron(C!Next)
      BY <2>1, StepCronInv DEF InCron, Composed
    <2>2. CASE UNCHANGED cronVars
      <3>1. CronInv => CronInv'
        BY <2>2, StepCronInv DEF cronVars, C!vars
      <3> QED
        BY <2>2, <3>1 DEF Composed, cronVars
    <2> QED
      BY <2>1, <2>2 DEF LifecycleNext, InProcess, background
  <1> QED
    BY <1>1, <1>2, PTL DEF LifecycleSpec

\* In the composition a tick runs on at most one replica (cron/locker.go: minHold).
THEOREM CronTicksOnce == ASSUME RunFits, Prompt PROVE LifecycleSpec => []CronOnce
  <1>1. Composed => CronOnce
    BY DEF Composed, CronInv, CronOnce
  <1> QED
    BY <1>1, ComposedInvariant, PTL

\* In the composition runs of the job do not overlap (cron/locker.go: the lease outlasts a run).
THEOREM CronRunsAlone == ASSUME RunFits, Prompt PROVE LifecycleSpec => []CronAlone
  <1>1. Composed => CronAlone
    BY DEF Composed, CronInv, CronAlone, Covered, C!NoOverlap
  <1> QED
    BY <1>1, ComposedInvariant, PTL

-----------------------------------------------------------------------------
(* The composition: the process *)

\* The invariant of the process while it is on.
ProcessRuns == at # Off => ProcessInv

\* Whatever the job does beside it, the process keeps its invariant.
LEMMA ProcessKeepsInvariant == LifecycleSpec => []ProcessRuns
  <1>1. LifecycleInit => ProcessRuns
    BY BackgroundAssumption, InitInvariant DEF LifecycleInit, ProcessOff, ProcessRuns
  <1>2. ProcessRuns /\ [LifecycleNext]_background => ProcessRuns'
    <2> SUFFICES ASSUME ProcessRuns, [LifecycleNext]_background
                 PROVE  ProcessRuns'
      OBVIOUS
    <2>1. CASE InProcess(P!Next)
      BY <2>1, BackgroundAssumption, StepInvariant DEF InProcess, ProcessRuns
    <2>2. CASE UNCHANGED processVars
      <3>1. ProcessInv => ProcessInv'
        BY <2>2, BackgroundAssumption, StepInvariant DEF processVars, P!lvars
      <3> QED
        BY <2>2, <3>1 DEF ProcessRuns, processVars
    <2> QED
      BY <2>1, <2>2 DEF LifecycleNext, InCron, background
  <1> QED
    BY <1>1, <1>2, PTL DEF LifecycleSpec

\* In the composition the steps of a shutdown leave each other what they were promised
\* (server/server.go).
THEOREM ShutdownInOrder == LifecycleSpec => []StopsInOrder
  <1>1. ProcessRuns => StopsInOrder
    BY BackgroundAssumption, InvariantOrders DEF ProcessRuns, StopsInOrder
  <1> QED
    BY <1>1, ProcessKeepsInvariant, PTL

\* In the composition a rolling restart refuses no request (docs/production.md).
THEOREM NothingRefused == LifecycleSpec => []NoRefusal
  <1>1. ProcessInv => P!NoRefusal
    BY DEF ProcessInv
  <1>2. ProcessRuns => NoRefusal
    BY <1>1 DEF ProcessRuns, NoRefusal
  <1> QED
    BY <1>2, ProcessKeepsInvariant, PTL

-----------------------------------------------------------------------------
(* Migrations *)

Fields == {"pc", "cmd", "todo", "file", "stmts", "left", "outside", "view", "intx", "saw", "company", "clean"}
Parts4 == {"have", "broken", "rows", "ran"}
Formed(d) == DOMAIN d = Parts4 /\ DOMAIN d.rows = Numbers /\ DOMAIN d.ran = Numbers

Busy == {"lock", "verify", "status", "select", "next", "begin", "run", "outside", "tables", "columns", "indexes", "diff"}
Applying == {"next", "begin", "run", "outside"}
Holding(p) == proc[p].pc \in {"verify", "status", "select"} \cup Applying
Kind(p) == proc[p].cmd.kind
Unrecorded(p) == Kind(p) = "auto"
Locked == dialect # "sqlite" /\ ~lost

\* The rows and the files are functions of the numbers; who is in a transaction has a file.
Shaped ==
    /\ DOMAIN proc = Procs /\ \A p \in Procs : DOMAIN proc[p] = Fields
    /\ Formed(db) /\ DOMAIN files = Numbers
    /\ \A f \in Numbers : db.rows[f] \in Versions \cup {None}

\* What a file says stays what it said at the start; a file that was generated is not removed.
Filed ==
    /\ \A f \in Numbers : files[f] # None => files[f].ver \in Versions
    /\ \A f \in DOMAIN StartFiles : files[f] # None => /\ DOMAIN files[f] = {"ver", "tx", "outside"}
                                                       /\ files[f].tx = StartFiles[f].tx
    /\ Locked => \A f \in Numbers : db.rows[f] # None => f <= Len(StartFiles) \/ files[f] # None

\* Which command is where.
Commanded(p) ==
    /\ proc[p].pc \in Busy \cup Ended
    /\ Active(p) => proc[p].cmd \in Commands
    /\ proc[p].pc \in {"verify", "status"} => Kind(p) = "up"
    /\ proc[p].pc = "select" => Kind(p) = "down"
    /\ proc[p].pc = "next" => Kind(p) \in {"up", "down"}
    /\ proc[p].pc \in {"tables", "columns", "indexes", "diff"} => Kind(p) \in {"auto", "generate"}
    /\ proc[p].pc \in {"lock", "begin", "run", "outside"} => Kind(p) # "generate"
    /\ proc[p].todo \subseteq Numbers
    /\ (proc[p].pc \in {"begin", "run"} /\ ~Unrecorded(p)) => proc[p].file.number \in Numbers /\ proc[p].file.ver \in Versions

\* One transaction writes at a time, and one process holds the lock.
Exclusive(p) ==
    /\ proc[p].pc = "run" <=> writer = p
    /\ (Locked /\ Holding(p)) => lock = p

\* Where DDL does not commit, a migration's script has its one data change, and no COMMIT of its own.
Scripted(p) ==
    (dialect # "mysql" /\ proc[p].pc \in {"begin", "run"} /\ ~Unrecorded(p)) =>
        /\ proc[p].left \subseteq SplitStatements(proc[p].stmts)
        /\ proc[p].pc = "begin" => proc[p].left = SplitStatements(proc[p].stmts)
        /\ proc[p].file.number \in DOMAIN StartFiles =>
              IF Kind(p) = "up" THEN ChangesOnce(proc[p].stmts) ELSE proc[p].stmts = <<Control("undo")>>

Undone(s) == IF s = <<>> THEN s ELSE Front(s)
DataLeft(p) == \E i \in proc[p].left : proc[p].stmts[i].do \in {"data", "undo"}

\* A transaction sees the committed rows, and the data change of its own file once it has run it.
Viewed(p) ==
    proc[p].pc = "run" =>
        /\ proc[p].intx => /\ Formed(proc[p].view) /\ proc[p].view.rows = db.rows
                           /\ \A g \in Numbers : (Unrecorded(p) \/ g # proc[p].file.number) => proc[p].view.ran[g] = db.ran[g]
        /\ (dialect # "mysql" /\ ~Unrecorded(p)) =>
              /\ proc[p].intx
              /\ proc[p].file.number \in DOMAIN StartFiles =>
                    proc[p].view.ran[proc[p].file.number] =
                        IF DataLeft(p) THEN db.ran[proc[p].file.number]
                        ELSE IF Kind(p) = "up" THEN Append(db.ran[proc[p].file.number], proc[p].file.ver)
                        ELSE Undone(db.ran[proc[p].file.number])

InHand(p) == proc[p].todo \cup (IF proc[p].pc \in {"begin", "run"} THEN {proc[p].file.number} ELSE {})

\* Up has in hand every pending file that comes before one it has in hand, and takes the first.
Climbs(p) ==
    (Locked /\ proc[p].pc \in Applying /\ Kind(p) = "up") =>
        /\ \A g \in Numbers : (files[g] # None /\ db.rows[g] = None) => g \in InHand(p) \/ \A f \in InHand(p) : f < g
        /\ proc[p].pc \in {"begin", "run"} => \A f \in proc[p].todo : proc[p].file.number < f
        /\ \A f \in InHand(p) : f <= Len(StartFiles) \/ files[f] # None

\* Down has in hand every row that comes after one it has in hand, and takes the last.
Descends(p) ==
    (Locked /\ proc[p].pc \in Applying /\ Kind(p) = "down") =>
        /\ \A g \in Numbers : db.rows[g] # None => g \in InHand(p) \/ \A f \in InHand(p) : g < f
        /\ proc[p].pc \in {"begin", "run"} => \A f \in proc[p].todo : f < proc[p].file.number

Own(p) == Commanded(p) /\ Exclusive(p) /\ Scripted(p) /\ Viewed(p) /\ Climbs(p) /\ Descends(p)

MigrateInv ==
    /\ Shaped /\ Filed
    /\ \A p \in Procs : Own(p)
    /\ RecordMatchesEffect /\ AppliedInOrder

-----------------------------------------------------------------------------
\* What a step leaves of a process.
Keeps(q) ==
    /\ proc'[q].pc = proc[q].pc /\ proc'[q].cmd = proc[q].cmd /\ proc'[q].todo = proc[q].todo
    /\ proc'[q].file = proc[q].file /\ proc'[q].stmts = proc[q].stmts /\ proc'[q].left = proc[q].left
    /\ proc'[q].view = proc[q].view /\ proc'[q].intx = proc[q].intx
Others(p) == \A q \in Procs \ {p} : Keeps(q)
Framed == DOMAIN proc' = Procs /\ \A q \in Procs : DOMAIN proc'[q] = Fields

\* What a step that records nothing does to the database.
SameRows(p) ==
    /\ Formed(db') /\ db'.rows = db.rows
    /\ (\A g \in Numbers : db'.ran[g] = db.ran[g]) \/ (dialect = "mysql" /\ writer = p)

\* What a step does to the directory: somebody edits or removes a file, or a new one is the last.
FilesStep ==
    /\ DOMAIN files' = Numbers
    /\ \A f \in Numbers : files'[f] # None => files'[f].ver \in Versions
    /\ \A f \in DOMAIN StartFiles : files'[f] # None => /\ DOMAIN files'[f] = {"ver", "tx", "outside"}
                                                        /\ files'[f].tx = StartFiles[f].tx
    /\ \A f \in Numbers : (f > Len(StartFiles) /\ files[f] # None) => files'[f] # None
    /\ \A f \in Numbers : files'[f] # None => \/ files[f] # None
                                              \/ f > Len(StartFiles) /\ \A g \in Numbers : g >= f => files[g] = None

Handed(now, then, p) == then = now \/ (now = p /\ then = None) \/ (now = None /\ then = p)

LEMMA NumbersFact ==
    /\ Numbers \subseteq Int /\ DOMAIN StartFiles \subseteq Numbers /\ DOMAIN StartFiles = {f \in Numbers : f <= Len(StartFiles)}
    /\ Len(StartFiles) \in Int /\ None \notin Procs /\ None \notin Versions /\ None \notin Numbers
  BY MigrateAssumption DEF Numbers

LEMMA KeepsFilesStep ==
  ASSUME Shaped, Filed, UNCHANGED files
  PROVE  FilesStep
  BY DEF Shaped, Filed, FilesStep

\* A process that a step leaves alone keeps its part of the invariant.
LEMMA OtherOwn ==
  ASSUME MigrateInv, NEW p, NEW q \in Procs, q # p, Keeps(q), SameRows(p), FilesStep, UNCHANGED <<server, lost>>,
         Handed(lock, lock', p), Handed(writer, writer', p)
  PROVE  Own(q)'
  <1>1. Own(q) /\ q # None
    BY NumbersFact DEF MigrateInv
  <1>2. Commanded(q)'
    BY <1>1 DEF Own, Commanded, Keeps, Active, Ended, Kind, Unrecorded
  <1>3. Exclusive(q)'
    BY <1>1 DEF Own, Exclusive, Keeps, Handed, Holding, Locked, dialect
  <1>4. Scripted(q)'
    BY <1>1 DEF Own, Scripted, Keeps, Kind, Unrecorded, dialect, SplitStatements
  <1>5. Viewed(q)'
    <2>1. proc[q].pc = "run" => /\ \A g \in Numbers : db'.ran[g] = db.ran[g]
                                /\ DOMAIN StartFiles \subseteq Numbers
      BY <1>1, NumbersFact DEF Own, Exclusive, SameRows
    <2>2. (DataLeft(q))' <=> DataLeft(q)
      BY DEF DataLeft, Keeps
    <2> QED
      BY <1>1, <2>1, <2>2 DEF Own, Viewed, Keeps, Kind, Unrecorded, dialect, SameRows
  <1>6. InHand(q)' = InHand(q)
    BY DEF InHand, Keeps
  <1>7. ASSUME Climbs(q), Locked, proc[q].pc \in Applying, Kind(q) = "up" PROVE Climbs(q)'
    <2>1. ASSUME NEW g \in Numbers, files'[g] # None, db'.rows[g] = None
          PROVE  g \in InHand(q) \/ \A f \in InHand(q) : f < g
      <3>1. CASE files[g] # None
        BY <1>7, <2>1, <3>1 DEF Climbs, SameRows
      <3>2. CASE g > Len(StartFiles) /\ \A h \in Numbers : h >= g => files[h] = None
        <4> SUFFICES ASSUME NEW f \in InHand(q) PROVE f < g
          OBVIOUS
        <4>1. f \in Numbers
          BY <1>1, <1>7 DEF InHand, Own, Commanded, Applying, Unrecorded
        <4>2. f <= Len(StartFiles) \/ files[f] # None
          BY <1>7 DEF Climbs
        <4> QED
          BY <3>2, <4>1, <4>2, NumbersFact
      <3> QED
        BY <2>1, <3>1, <3>2 DEF FilesStep
    <2>2. \A f \in InHand(q) : f <= Len(StartFiles) \/ files'[f] # None
      <3> SUFFICES ASSUME NEW f \in InHand(q) PROVE f <= Len(StartFiles) \/ files'[f] # None
        OBVIOUS
      <3>1. f \in Numbers
        BY <1>1, <1>7 DEF InHand, Own, Commanded, Applying, Unrecorded
      <3>2. f <= Len(StartFiles) \/ files[f] # None
        BY <1>7 DEF Climbs
      <3> QED
        BY <3>1, <3>2, NumbersFact DEF FilesStep
    <2> QED
      BY <1>6, <1>7, <2>1, <2>2 DEF Climbs, Keeps
  <1>8. Climbs(q)'
    BY <1>1, <1>7 DEF Own, Climbs, Locked, dialect, Keeps, Kind
  <1>9. Descends(q)'
    BY <1>1, <1>6 DEF Own, Descends, Locked, dialect, Keeps, Kind, SameRows
  <1> QED
    BY <1>2, <1>3, <1>4, <1>5, <1>8, <1>9 DEF Own

\* A step that records nothing: what is left to show is the part of its own process.
LEMMA CalmStep ==
  ASSUME MigrateInv, NEW p, Framed, Others(p), SameRows(p), FilesStep, UNCHANGED <<server, lost>>,
         Handed(lock, lock', p), Handed(writer, writer', p), p \in Procs => Own(p)'
  PROVE  MigrateInv'
  <1>1. \A q \in Procs : Own(q)'
    BY OtherOwn DEF Others
  <1>2. Shaped'
    BY DEF MigrateInv, Shaped, Framed, SameRows, FilesStep
  <1>3. Filed'
    BY NumbersFact DEF MigrateInv, Filed, SameRows, FilesStep, Locked, dialect
  <1>4. RecordMatchesEffect'
    BY NumbersFact DEF MigrateInv, RecordMatchesEffect, SameRows, dialect
  <1>5. AppliedInOrder'
    <2> SUFFICES ASSUME dialect # "sqlite", ~lost, NEW f \in Numbers, NEW g \in Numbers,
                        g < f, db.rows[f] # None, files'[g] # None
                 PROVE  db.rows[g] # None
      BY DEF AppliedInOrder, dialect, SameRows
    <2>1. CASE files[g] # None
      BY <2>1 DEF MigrateInv, AppliedInOrder
    <2>2. CASE g > Len(StartFiles) /\ \A h \in Numbers : h >= g => files[h] = None
      BY <2>2, NumbersFact DEF MigrateInv, Filed, Locked, dialect
    <2> QED
      BY <2>1, <2>2 DEF FilesStep
  <1> QED
    BY <1>1, <1>2, <1>3, <1>4, <1>5 DEF MigrateInv

LEMMA CommandsFact ==
  ASSUME NEW c \in Commands
  PROVE  c.kind \in {"up", "down", "generate", "auto"} /\ c.steps \in Nat
  BY MigrateAssumption

LEMMA SameDatabase ==
  ASSUME Shaped, NEW p, UNCHANGED db
  PROVE  SameRows(p)
  BY DEF Shaped, SameRows, Formed

\* A statement records nothing, and changes what ran of its own file only, if it is a data change.
LEMMA ExecFacts ==
  ASSUME NEW d, NEW s, NEW f, NEW ver, Formed(d), f \in Numbers \cup {None}
  PROVE  LET new == Exec(d, s, f, ver) IN
         /\ Formed(new) /\ new.rows = d.rows
         /\ \A g \in Numbers : g # f => new.ran[g] = d.ran[g]
         /\ s.do \notin {"data", "undo"} => new.ran = d.ran
         /\ (s.do = "data" /\ f \in Numbers) => new.ran[f] = Append(d.ran[f], ver)
         /\ (s.do = "undo" /\ f \in Numbers) => new.ran[f] = Undone(d.ran[f])
  <1>1. CASE s.do = "create"
    BY <1>1 DEF Exec, Formed, Parts4
  <1>2. CASE s.do = "add"
    BY <1>2 DEF Exec, Formed, Parts4
  <1>3. CASE s.do = "index"
    BY <1>3 DEF Exec, Formed, Parts4
  <1>4. CASE s.do = "data"
    BY <1>4 DEF Exec, Formed, Parts4
  <1>5. CASE s.do = "undo"
    BY <1>5 DEF Exec, Formed, Parts4, Undone
  <1>6. CASE s.do \notin {"create", "add", "index", "data", "undo"}
    BY <1>6 DEF Exec
  <1> QED
    BY <1>1, <1>2, <1>3, <1>4, <1>5, <1>6

\* A process that is out of its command.
LEMMA OutStep ==
  ASSUME MigrateInv, NEW p \in Procs, Framed, Others(p), SameRows(p), FilesStep, UNCHANGED <<server, lost>>,
         proc'[p].pc \in Ended, proc'[p].todo = {},
         lock' = (IF lock = p THEN None ELSE lock), writer' = (IF writer = p THEN None ELSE writer)
  PROVE  MigrateInv'
  <1>1. Own(p)'
    BY NumbersFact DEF Own, Commanded, Active, Ended, Exclusive, Holding, Scripted, Viewed, Climbs, Descends, Applying
  <1> QED
    BY <1>1, CalmStep DEF Handed

LEMMA LeaveStep ==
  ASSUME MigrateInv, NEW p \in Procs, NEW how \in Ended, Leave(p, how), SameRows(p), FilesStep, UNCHANGED <<server, lost>>
  PROVE  MigrateInv'
  <1>1. Framed /\ Others(p) /\ proc'[p].pc \in Ended /\ proc'[p].todo = {}
    BY DEF MigrateInv, Shaped, Leave, Idle, Framed, Others, Keeps, Fields
  <1> QED
    BY <1>1, OutStep DEF Leave

LEMMA NumbersFinite == IsFiniteSet(Numbers)
  BY FS_Interval, MigrateAssumption DEF Numbers

\* The cardinalities that Up and Down cut their files by.
LEMMA FirstOfFacts ==
  ASSUME NEW X \in SUBSET Numbers, NEW n \in Nat, NEW f \in FirstOf(X, n), NEW g \in X, g <= f
  PROVE  g \in FirstOf(X, n)
  <1> DEFINE Below(h) == {i \in X : i < h}
  <1>1. Below(g) \subseteq Below(f)
    <2>1. f \in Int /\ g \in Int /\ X \subseteq Int
      BY NumbersFact DEF FirstOf
    <2>2. ASSUME NEW i \in X, i < g PROVE i < f
      BY <2>1, <2>2
    <2> QED
      BY <2>2
  <1>2. IsFiniteSet(Below(f)) /\ IsFiniteSet(Below(g))
    BY NumbersFinite, FS_Subset
  <1>3. Cardinality(Below(g)) <= Cardinality(Below(f)) /\ Cardinality(Below(f)) \in Nat /\ Cardinality(Below(g)) \in Nat
    BY <1>1, <1>2, FS_Subset, FS_CardinalityType
  <1> QED
    BY <1>3 DEF FirstOf

LEMMA LastOfFacts ==
  ASSUME NEW X \in SUBSET Numbers, NEW n \in Nat, NEW f \in LastOf(X, n), NEW g \in X, f <= g
  PROVE  g \in LastOf(X, n)
  <1> DEFINE Above(h) == {i \in X : i > h}
  <1>1. Above(g) \subseteq Above(f)
    <2>1. f \in Int /\ g \in Int /\ X \subseteq Int
      BY NumbersFact DEF LastOf
    <2>2. ASSUME NEW i \in X, i > g PROVE i > f
      BY <2>1, <2>2
    <2> QED
      BY <2>2
  <1>2. IsFiniteSet(Above(f)) /\ IsFiniteSet(Above(g))
    BY NumbersFinite, FS_Subset
  <1>3. Cardinality(Above(g)) <= Cardinality(Above(f)) /\ Cardinality(Above(f)) \in Nat /\ Cardinality(Above(g)) \in Nat
    BY <1>1, <1>2, FS_Subset, FS_CardinalityType
  <1> QED
    BY <1>3 DEF LastOf

\* Before a process has anything in hand.
LEMMA FetchStep ==
  ASSUME MigrateInv, NEW p \in Procs, Fetch(p)
  PROVE  MigrateInv'
  <1>1. Framed /\ Others(p) /\ proc'[p].pc \in {"columns", "indexes", "diff"} /\ proc'[p].cmd = proc[p].cmd /\ proc'[p].todo = proc[p].todo
    BY DEF MigrateInv, Shaped, Fetch, Framed, Others, Keeps, Fields
  <1>2. Own(p)
    BY DEF MigrateInv
  <1>3. Commanded(p)'
    BY <1>1, <1>2 DEF Own, Commanded, Fetch, Busy, Active, Ended, Kind
  <1>4. Exclusive(p)'
    BY <1>1, <1>2 DEF Own, Exclusive, Fetch, Holding, Applying
  <1>5. Own(p)'
    BY <1>1, <1>3, <1>4 DEF Own, Scripted, Viewed, Climbs, Descends, Applying
  <1> QED
    BY <1>1, <1>5, CalmStep, SameDatabase, KeepsFilesStep DEF MigrateInv, Fetch, Handed

LEMMA AutoMigrateStep ==
  ASSUME MigrateInv, NEW p \in Procs, NEW plan, AutoMigrate(p, plan)
  PROVE  MigrateInv'
  <1> SameRows(p) /\ FilesStep /\ UNCHANGED <<server, lost>>
    BY SameDatabase, KeepsFilesStep DEF MigrateInv, AutoMigrate
  <1>1. CASE Leave(p, "ok")
    BY <1>1, LeaveStep DEF Ended
  <1>2. CASE /\ proc' = [proc EXCEPT ![p].stmts = InTx(plan.stmts), ![p].left = DOMAIN InTx(plan.stmts),
                                     ![p].outside = Outside(plan.stmts), ![p].pc = "lock"]
             /\ UNCHANGED <<lock, writer>>
    <2>1. Framed /\ Others(p) /\ proc'[p].pc = "lock" /\ proc'[p].cmd = proc[p].cmd /\ proc'[p].todo = proc[p].todo
      BY <1>2 DEF MigrateInv, Shaped, Framed, Others, Keeps, Fields
    <2>2. Own(p)
      BY DEF MigrateInv
    <2>3. Commanded(p)'
      BY <2>1, <2>2 DEF Own, Commanded, AutoMigrate, Busy, Active, Ended, Kind
    <2>4. Exclusive(p)'
      BY <1>2, <2>1, <2>2 DEF Own, Exclusive, AutoMigrate, Holding, Applying
    <2>5. Own(p)'
      BY <2>1, <2>3, <2>4 DEF Own, Scripted, Viewed, Climbs, Descends, Applying
    <2> QED
      BY <1>2, <2>1, <2>5, CalmStep DEF Handed
  <1> QED
    BY <1>1, <1>2 DEF AutoMigrate

LEMMA GenerateStep ==
  ASSUME MigrateInv, NEW p \in Procs, NEW plan, Generate(p, plan)
  PROVE  MigrateInv'
  <1>1. FilesStep
    <2>1. CASE UNCHANGED files
      BY <2>1, KeepsFilesStep DEF MigrateInv
    <2>2. ASSUME NEW f \in NewName, files' = [files EXCEPT ![f] = BuildUpSQL(plan.stmts)]
          PROVE  FilesStep
      <3>1. f \in Numbers /\ f > Len(StartFiles) /\ f \notin DOMAIN StartFiles /\ \A g \in Numbers : g >= f => files[g] = None
        BY NumbersFact DEF NewName
      <3>2. BuildUpSQL(plan.stmts).ver \in Versions
        BY DEF BuildUpSQL, Versions
      <3> QED
        <4> DEFINE new == BuildUpSQL(plan.stmts)
        <4> HIDE DEF new
        <4>1. files' = [files EXCEPT ![f] = new] /\ new.ver \in Versions
          BY <2>2, <3>2 DEF new
        <4>2. DOMAIN files = Numbers /\ Filed
          BY DEF MigrateInv, Shaped
        <4> QED
          BY <3>1, <4>1, <4>2, NumbersFact DEF Filed, FilesStep
    <2> QED
      BY <2>1, <2>2 DEF Generate
  <1> QED
    BY <1>1, SameDatabase, LeaveStep DEF MigrateInv, Generate, Ended

LEMMA AcquireLockStep ==
  ASSUME MigrateInv, NEW p \in Procs, AcquireLock(p)
  PROVE  MigrateInv'
  <1>1. Framed /\ Others(p) /\ proc'[p] = [proc[p] EXCEPT !.pc = AfterLock(Kind(p))]
    BY DEF MigrateInv, Shaped, AcquireLock, Goto, Framed, Others, Keeps, Fields, Kind
  <1>2. Own(p) /\ Kind(p) \in {"up", "down", "auto"} /\ DOMAIN proc[p] = Fields
    BY CommandsFact DEF MigrateInv, Shaped, Own, Commanded, AcquireLock, Active, Ended, Kind
  <1>3. /\ proc'[p].cmd = proc[p].cmd /\ proc'[p].todo = proc[p].todo
        /\ proc'[p].pc = CASE Kind(p) = "up" -> "verify" [] Kind(p) = "down" -> "select" [] OTHER -> "begin"
    BY <1>1, <1>2 DEF AfterLock, Fields
  <1>4. Commanded(p)'
    BY <1>2, <1>3 DEF Own, Commanded, AcquireLock, Busy, Active, Ended, Kind, Unrecorded
  <1>5. Exclusive(p)'
    BY <1>2, <1>3 DEF Own, Exclusive, AcquireLock, Locked, dialect
  <1>6. Own(p)'
    BY <1>2, <1>3, <1>4, <1>5 DEF Own, Scripted, Viewed, Climbs, Descends, Applying, Kind, Unrecorded
  <1> QED
    BY <1>1, <1>6, CalmStep, SameDatabase, KeepsFilesStep DEF MigrateInv, AcquireLock, Handed

LEMMA VerifyStep ==
  ASSUME MigrateInv, NEW p \in Procs, Verify(p)
  PROVE  MigrateInv'
  <1> SameRows(p) /\ FilesStep /\ UNCHANGED <<server, lost>>
    BY SameDatabase, KeepsFilesStep DEF MigrateInv, Verify
  <1>1. CASE Leave(p, "failed")
    BY <1>1, LeaveStep DEF Ended
  <1>2. CASE Goto(p, "status") /\ UNCHANGED <<lock, writer>>
    <2>1. Framed /\ Others(p) /\ proc'[p].pc = "status" /\ proc'[p].cmd = proc[p].cmd /\ proc'[p].todo = proc[p].todo
      BY <1>2 DEF MigrateInv, Shaped, Goto, Framed, Others, Keeps, Fields
    <2>2. Own(p) /\ proc[p].pc = "verify"
      BY DEF MigrateInv, Verify
    <2>3. Commanded(p)'
      BY <2>1, <2>2 DEF Own, Commanded, Busy, Active, Ended, Kind
    <2>4. Exclusive(p)'
      BY <1>2, <2>1, <2>2 DEF Own, Exclusive, Holding, Locked, dialect
    <2>5. Own(p)'
      BY <2>1, <2>3, <2>4 DEF Own, Scripted, Viewed, Climbs, Descends, Applying
    <2> QED
      BY <1>2, <2>1, <2>5, CalmStep DEF Handed
  <1> QED
    BY <1>1, <1>2 DEF Verify

LEMMA LockTimeoutStep ==
  ASSUME MigrateInv, NEW p \in Procs, LockTimeout(p)
  PROVE  MigrateInv'
  BY LeaveStep, SameDatabase, KeepsFilesStep DEF MigrateInv, LockTimeout, Ended

LEMMA StatusStep ==
  ASSUME MigrateInv, NEW p \in Procs, Status(p)
  PROVE  MigrateInv'
  <1> DEFINE pending == {f \in Numbers : files[f] # None /\ db.rows[f] = None}
             first == FirstOf(pending, proc[p].cmd.steps)
  <1>1. /\ Framed /\ Others(p) /\ proc'[p].pc = "next" /\ proc'[p].cmd = proc[p].cmd /\ proc'[p].todo = first
        /\ UNCHANGED <<server, db, files, lock, writer, lost>>
    BY DEF MigrateInv, Shaped, Status, Framed, Others, Keeps, Fields
  <1>2. Own(p) /\ proc[p].pc = "status" /\ Kind(p) = "up" /\ proc[p].cmd \in Commands
    BY DEF MigrateInv, Status, Own, Commanded, Active, Ended
  <1>3. proc[p].cmd.steps \in Nat /\ pending \subseteq Numbers
    BY <1>2, CommandsFact
  <1>4. \A f \in first, g \in pending : g \in first \/ f < g
    <2> SUFFICES ASSUME NEW f \in first, NEW g \in pending, g \notin first PROVE f < g
      OBVIOUS
    <2>1. ~(g <= f)
      BY <1>3, FirstOfFacts
    <2>2. f \in pending
      BY DEF FirstOf
    <2> QED
      BY <1>3, <2>1, <2>2, NumbersFact
  <1>5. first \subseteq pending
    BY DEF FirstOf
  <1>6. Commanded(p)'
    BY <1>1, <1>2, <1>5 DEF Own, Commanded, Busy, Active, Ended, Kind
  <1>7. Exclusive(p)'
    BY <1>1, <1>2 DEF Own, Exclusive, Holding, Locked, dialect
  <1>8. InHand(p)' = first
    BY <1>1 DEF InHand
  <1>9. Climbs(p)'
    BY <1>1, <1>4, <1>5, <1>8 DEF Climbs
  <1>10. Own(p)'
    BY <1>1, <1>2, <1>6, <1>7, <1>9 DEF Own, Scripted, Viewed, Descends, Kind
  <1> QED
    BY <1>1, <1>10, CalmStep, SameDatabase, KeepsFilesStep DEF MigrateInv, Handed

LEMMA SelectStep ==
  ASSUME MigrateInv, NEW p \in Procs, Select(p)
  PROVE  MigrateInv'
  <1> DEFINE recorded == {f \in Numbers : db.rows[f] # None}
             last == LastOf(recorded, proc[p].cmd.steps)
  <1>1. /\ Framed /\ Others(p) /\ proc'[p].pc = "next" /\ proc'[p].cmd = proc[p].cmd /\ proc'[p].todo = last
        /\ UNCHANGED <<server, db, files, lock, writer, lost>>
    BY DEF MigrateInv, Shaped, Select, Framed, Others, Keeps, Fields
  <1>2. Own(p) /\ proc[p].pc = "select" /\ Kind(p) = "down" /\ proc[p].cmd \in Commands
    BY DEF MigrateInv, Select, Own, Commanded, Active, Ended
  <1>3. proc[p].cmd.steps \in Nat /\ recorded \subseteq Numbers
    BY <1>2, CommandsFact
  <1>4. \A f \in last, g \in recorded : g \in last \/ g < f
    <2> SUFFICES ASSUME NEW f \in last, NEW g \in recorded, g \notin last PROVE g < f
      OBVIOUS
    <2>1. ~(f <= g)
      BY <1>3, LastOfFacts
    <2>2. f \in Int /\ g \in Int
      BY <1>3, NumbersFact DEF LastOf
    <2> QED
      BY <2>1, <2>2
  <1>5. last \subseteq recorded
    BY DEF LastOf
  <1>6. Commanded(p)'
    BY <1>1, <1>2, <1>5 DEF Own, Commanded, Busy, Active, Ended, Kind
  <1>7. Exclusive(p)'
    BY <1>1, <1>2 DEF Own, Exclusive, Holding, Locked, dialect
  <1>8. InHand(p)' = last
    BY <1>1 DEF InHand
  <1>9. Descends(p)'
    BY <1>1, <1>4, <1>5, <1>8 DEF Descends
  <1>10. Own(p)'
    BY <1>1, <1>2, <1>6, <1>7, <1>9 DEF Own, Scripted, Viewed, Climbs, Kind
  <1> QED
    BY <1>1, <1>10, CalmStep, SameDatabase, KeepsFilesStep DEF MigrateInv, Handed

\* A file that was there at the start has one data change to run, whichever half of it is run.
LEMMA ScriptOnce ==
  ASSUME Filed, NEW f \in DOMAIN StartFiles, files[f] # None, NEW kind \in {"up", "down"}
  PROVE  IF kind = "up" THEN ChangesOnce(Script(f, kind)) ELSE Script(f, kind) = <<Control("undo")>>
  <1>1. files[f].tx = StartFiles[f].tx /\ ChangesOnce(StartFiles[f].tx)
    BY MigrateAssumption DEF Filed
  <1> QED
    BY <1>1 DEF Script, ChangesOnce

LEMMA ReadFileStep ==
  ASSUME MigrateInv, NEW p \in Procs, ReadFile(p)
  PROVE  MigrateInv'
  <1> SameRows(p) /\ FilesStep /\ UNCHANGED <<server, db, files, lost>>
    BY SameDatabase, KeepsFilesStep DEF MigrateInv, ReadFile
  <1>1. CASE Leave(p, "failed")
    BY <1>1, LeaveStep DEF Ended
  <1>2. ASSUME NEW f \in Numbers, NextFile(p, f), files[f] # None, UNCHANGED <<lock, writer>>,
               proc' = [proc EXCEPT ![p].todo = @ \ {f}, ![p].file = [number |-> f, ver |-> files[f].ver],
                                    ![p].stmts = Script(f, Kind(p)), ![p].left = SplitStatements(Script(f, Kind(p))),
                                    ![p].outside = IF Kind(p) = "down" THEN <<>> ELSE files[f].outside,
                                    ![p].pc = "begin"]
        PROVE  MigrateInv'
    <2>1. /\ Framed /\ Others(p) /\ proc'[p].pc = "begin" /\ proc'[p].cmd = proc[p].cmd /\ proc'[p].todo = proc[p].todo \ {f}
          /\ proc'[p].file.number = f /\ proc'[p].file.ver = files[f].ver
          /\ proc'[p].stmts = Script(f, Kind(p)) /\ proc'[p].left = SplitStatements(Script(f, Kind(p)))
      <3> DEFINE script == Script(f, Kind(p))
                 ver == files[f].ver
                 outside == IF Kind(p) = "down" THEN <<>> ELSE files[f].outside
                 left == SplitStatements(script)
      <3> HIDE DEF script, ver, outside, left
      <3>1. proc' = [proc EXCEPT ![p].todo = @ \ {f}, ![p].file = [number |-> f, ver |-> ver], ![p].stmts = script,
                                 ![p].left = left, ![p].outside = outside, ![p].pc = "begin"]
        BY <1>2 DEF script, ver, outside, left
      <3>2. DOMAIN proc = Procs /\ \A q \in Procs : DOMAIN proc[q] = Fields
        BY DEF MigrateInv, Shaped
      <3>3. Framed /\ Others(p)
        BY <3>1, <3>2 DEF Framed, Others, Keeps, Fields
      <3>4. /\ proc'[p].pc = "begin" /\ proc'[p].cmd = proc[p].cmd /\ proc'[p].todo = proc[p].todo \ {f}
            /\ proc'[p].file = [number |-> f, ver |-> ver] /\ proc'[p].stmts = script /\ proc'[p].left = left
        BY <3>1, <3>2 DEF Fields
      <3> QED
        BY <3>3, <3>4 DEF script, ver, left
    <2>2. /\ Own(p) /\ proc[p].pc = "next" /\ Kind(p) \in {"up", "down"} /\ f \in proc[p].todo /\ proc[p].todo \subseteq Numbers
          /\ files[f].ver \in Versions /\ Filed
      BY <1>2 DEF MigrateInv, ReadFile, Own, Commanded, NextFile, Filed
    <2>3. Commanded(p)'
      BY <2>1, <2>2 DEF Own, Commanded, Busy, Active, Ended, Kind
    <2>4. Exclusive(p)'
      BY <1>2, <2>1, <2>2 DEF Own, Exclusive, Holding, Applying, Locked, dialect
    <2>5. Scripted(p)'
      <3>1. f \in DOMAIN StartFiles => IF Kind(p) = "up" THEN ChangesOnce(Script(f, Kind(p))) ELSE Script(f, Kind(p)) = <<Control("undo")>>
        BY <1>2, <2>2, ScriptOnce
      <3> QED
        BY <2>1, <2>2, <3>1 DEF Scripted, Kind
    <2>6. InHand(p)' = proc[p].todo /\ InHand(p) = proc[p].todo
      BY <2>1, <2>2 DEF InHand
    <2>7. Climbs(p)'
      <3>1. Kind(p) = "up" => \A g \in proc[p].todo \ {f} : f < g
        BY <1>2, <2>2, NumbersFact DEF NextFile, Kind
      <3> QED
        BY <2>1, <2>2, <2>6, <3>1 DEF Own, Climbs, Locked, dialect, Applying, Kind
    <2>8. Descends(p)'
      <3>1. Kind(p) = "down" => \A g \in proc[p].todo \ {f} : g < f
        BY <1>2, <2>2, NumbersFact DEF NextFile, Kind
      <3> QED
        BY <2>1, <2>2, <2>6, <3>1 DEF Own, Descends, Locked, dialect, Applying, Kind
    <2>9. Own(p)'
      BY <2>1, <2>3, <2>4, <2>5, <2>7, <2>8 DEF Own, Viewed
    <2> QED
      BY <1>2, <2>1, <2>9, CalmStep DEF Handed
  <1> QED
    BY <1>1, <1>2 DEF ReadFile, Kind

LEMMA FinishStep ==
  ASSUME MigrateInv, NEW p \in Procs, Finish(p)
  PROVE  MigrateInv'
  BY LeaveStep, SameDatabase, KeepsFilesStep DEF MigrateInv, Finish, Ended

\* At the beginning of a transaction its data change is still to come.
LEMMA BeginStep ==
  ASSUME MigrateInv, NEW p \in Procs, Begin(p)
  PROVE  MigrateInv'
  <1>1. /\ Framed /\ Others(p) /\ proc'[p].pc = "run" /\ proc'[p].cmd = proc[p].cmd /\ proc'[p].todo = proc[p].todo
        /\ proc'[p].file = proc[p].file /\ proc'[p].stmts = proc[p].stmts /\ proc'[p].left = proc[p].left
        /\ proc'[p].view = db /\ proc'[p].intx = TRUE
        /\ UNCHANGED <<server, db, files, lock, lost>> /\ writer = None /\ writer' = p
    BY DEF MigrateInv, Shaped, Begin, Framed, Others, Keeps, Fields
  <1>2. Own(p) /\ proc[p].pc = "begin" /\ proc[p].cmd \in Commands /\ Formed(db)
    BY DEF MigrateInv, Shaped, Begin, Own, Commanded, Active, Ended
  <1>3. Kind(p) \in {"up", "down", "auto"}
    BY <1>2, CommandsFact DEF Own, Commanded, Kind
  <1>4. Commanded(p)'
    BY <1>1, <1>2, <1>3 DEF Own, Commanded, Busy, Active, Ended, Kind, Unrecorded
  <1>5. Exclusive(p)'
    BY <1>1, <1>2 DEF Own, Exclusive, Holding, Applying, Locked, dialect
  <1>6. Scripted(p)'
    BY <1>1, <1>2 DEF Own, Scripted, Kind, Unrecorded, dialect
  <1>7. InHand(p)' = InHand(p)
    BY <1>1, <1>2 DEF InHand
  <1>8. Climbs(p)' /\ Descends(p)'
    BY <1>1, <1>2, <1>7 DEF Own, Climbs, Descends, Locked, dialect, Applying, Kind
  <1>9. Viewed(p)'
    <2>1. (dialect # "mysql" /\ ~Unrecorded(p) /\ proc[p].file.number \in DOMAIN StartFiles) => DataLeft(p)
      <3> SUFFICES ASSUME dialect # "mysql", ~Unrecorded(p), proc[p].file.number \in DOMAIN StartFiles PROVE DataLeft(p)
        OBVIOUS
      <3>1. proc[p].left = SplitStatements(proc[p].stmts)
        BY <1>2 DEF Own, Scripted
      <3>2. CASE Kind(p) = "up"
        BY <1>2, <3>1, <3>2 DEF Own, Scripted, ChangesOnce, SplitStatements, DataLeft
      <3>3. CASE proc[p].stmts = <<Control("undo")>>
        BY <3>1, <3>3 DEF SplitStatements, DataLeft, Control, Stmt
      <3> QED
        BY <1>2, <1>3, <3>2, <3>3 DEF Own, Scripted, Unrecorded
    <2>2. (DataLeft(p))' <=> DataLeft(p)
      BY <1>1 DEF DataLeft
    <2> QED
      BY <1>1, <1>2, <2>1, <2>2 DEF Viewed, Unrecorded, Kind, dialect
  <1>10. Own(p)'
    BY <1>4, <1>5, <1>6, <1>8, <1>9 DEF Own
  <1> QED
    BY <1>1, <1>10, CalmStep, SameDatabase, KeepsFilesStep DEF MigrateInv, Handed

\* What a transaction or a single statement works on.
LEMMA NowFacts ==
  ASSUME MigrateInv, NEW p \in Procs, proc[p].pc = "run"
  PROVE  /\ Formed(Now(p)) /\ Now(p).rows = db.rows /\ writer = p
         /\ \A g \in Numbers : (Unrecorded(p) \/ g # proc[p].file.number) => Now(p).ran[g] = db.ran[g]
  <1>1. Own(p) /\ Formed(db)
    BY DEF MigrateInv, Shaped
  <1>2. CASE proc[p].intx
    BY <1>1, <1>2 DEF Own, Exclusive, Viewed, Now
  <1>3. CASE ~proc[p].intx
    BY <1>1, <1>3 DEF Own, Exclusive, Now
  <1> QED
    BY <1>2, <1>3

LEMMA StatementStep ==
  ASSUME MigrateInv, NEW p \in Procs, proc[p].pc = "run", NEW i \in proc[p].left, NEW new, NEW apart \in BOOLEAN,
         apart <=> (~proc[p].intx \/ EndsTx(proc[p].stmts[i])),
         new = Exec(Now(p), proc[p].stmts[i], IF Unrecorded(p) THEN None ELSE proc[p].file.number,
                                               IF Unrecorded(p) THEN None ELSE proc[p].file.ver),
         proc' = [proc EXCEPT ![p].left = @ \ {i}, ![p].view = IF apart THEN None ELSE new, ![p].intx = ~apart],
         db' = IF apart THEN new ELSE db, UNCHANGED <<server, files, lock, writer, lost>>
  PROVE  MigrateInv'
  <1> DEFINE s == proc[p].stmts[i]
             n == proc[p].file.number
  <1>1. /\ Framed /\ Others(p) /\ proc'[p].pc = "run" /\ proc'[p].cmd = proc[p].cmd /\ proc'[p].todo = proc[p].todo
        /\ proc'[p].file = proc[p].file /\ proc'[p].stmts = proc[p].stmts /\ proc'[p].left = proc[p].left \ {i}
        /\ proc'[p].intx = ~apart /\ (~apart => proc'[p].view = new)
    <2> DEFINE view == IF apart THEN None ELSE new
               intx == ~apart
    <2> HIDE DEF view, intx
    <2>1. proc' = [proc EXCEPT ![p].left = @ \ {i}, ![p].view = view, ![p].intx = intx]
      BY DEF view, intx
    <2>2. DOMAIN proc = Procs /\ \A q \in Procs : DOMAIN proc[q] = Fields
      BY DEF MigrateInv, Shaped
    <2>3. Framed /\ Others(p)
      BY <2>1, <2>2 DEF Framed, Others, Keeps, Fields
    <2>4. /\ proc'[p].pc = "run" /\ proc'[p].cmd = proc[p].cmd /\ proc'[p].todo = proc[p].todo
          /\ proc'[p].file = proc[p].file /\ proc'[p].stmts = proc[p].stmts /\ proc'[p].left = proc[p].left \ {i}
          /\ proc'[p].intx = intx /\ proc'[p].view = view
      BY <2>1, <2>2 DEF Fields
    <2> QED
      BY <2>3, <2>4 DEF view, intx
  <1>2. /\ Own(p) /\ Formed(db) /\ (~Unrecorded(p) => n \in Numbers)
        /\ Formed(Now(p)) /\ Now(p).rows = db.rows /\ writer = p
        /\ \A g \in Numbers : (Unrecorded(p) \/ g # n) => Now(p).ran[g] = db.ran[g]
    BY NowFacts DEF MigrateInv, Shaped, Own, Commanded
  <1>3. /\ Formed(new) /\ new.rows = db.rows
        /\ \A g \in Numbers : (Unrecorded(p) \/ g # n) => new.ran[g] = db.ran[g]
        /\ s.do \notin {"data", "undo"} => new.ran = Now(p).ran
        /\ (s.do = "data" /\ ~Unrecorded(p)) => new.ran[n] = Append(Now(p).ran[n], proc[p].file.ver)
        /\ (s.do = "undo" /\ ~Unrecorded(p)) => new.ran[n] = Undone(Now(p).ran[n])
    <2>1. CASE Unrecorded(p)
      <3>1. new = Exec(Now(p), s, None, None)
        BY <2>1
      <3> QED
        BY <1>2, <2>1, <3>1, ExecFacts, NumbersFact
    <2>2. CASE ~Unrecorded(p)
      <3>1. new = Exec(Now(p), s, n, proc[p].file.ver)
        BY <2>2
      <3>2. n \in Numbers /\ Formed(Now(p))
        BY <1>2, <2>2
      <3> HIDE DEF n, s
      <3>3. /\ Formed(new) /\ new.rows = Now(p).rows
            /\ \A g \in Numbers : g # n => new.ran[g] = Now(p).ran[g]
            /\ s.do \notin {"data", "undo"} => new.ran = Now(p).ran
            /\ s.do = "data" => new.ran[n] = Append(Now(p).ran[n], proc[p].file.ver)
            /\ s.do = "undo" => new.ran[n] = Undone(Now(p).ran[n])
        <4> DEFINE d == Now(p)
                   ver == proc[p].file.ver
        <4> HIDE DEF d, ver
        <4>1. new = Exec(d, s, n, ver) /\ Formed(d) /\ n \in Numbers \cup {None}
          BY <3>1, <3>2 DEF d, ver
        <4>2. LET to == Exec(d, s, n, ver) IN
              /\ Formed(to) /\ to.rows = d.rows
              /\ \A g \in Numbers : g # n => to.ran[g] = d.ran[g]
              /\ s.do \notin {"data", "undo"} => to.ran = d.ran
              /\ (s.do = "data" /\ n \in Numbers) => to.ran[n] = Append(d.ran[n], ver)
              /\ (s.do = "undo" /\ n \in Numbers) => to.ran[n] = Undone(d.ran[n])
          BY <4>1, ExecFacts
        <4> QED
          BY <3>2, <4>1, <4>2 DEF d, ver
      <3> QED
        BY <1>2, <2>2, <3>2, <3>3
    <2> QED
      BY <2>1, <2>2
  \* A script of a transaction has no COMMIT, so where DDL does not commit, nothing does.
  <1>4. (dialect # "mysql" /\ ~Unrecorded(p)) => ~apart
    BY <1>2 DEF Own, Viewed, Scripted, SplitStatements, EndsTx
  <1>5. SameRows(p)
    <2>1. CASE ~apart
      BY <1>2, <2>1 DEF SameRows
    <2>2. CASE apart
      BY <1>2, <1>3, <1>4, <2>2 DEF SameRows
    <2> QED
      BY <2>1, <2>2
  <1>6. Commanded(p)'
    BY <1>1, <1>2 DEF Own, Commanded, Active, Ended, Kind, Unrecorded
  <1>7. Exclusive(p)'
    BY <1>1, <1>2 DEF Own, Exclusive, Holding, Applying, Locked, dialect
  <1>8. Scripted(p)'
    BY <1>1, <1>2 DEF Own, Scripted, Kind, Unrecorded, dialect
  <1>9. InHand(p)' = InHand(p)
    BY <1>1 DEF InHand
  <1>10. Climbs(p)' /\ Descends(p)'
    <2>1. /\ files' = files /\ db'.rows = db.rows /\ (Locked <=> (Locked)') /\ Kind(p)' = Kind(p)
          /\ proc[p].pc = "run" /\ proc'[p].pc = "run"
      BY <1>1, <1>5 DEF Locked, dialect, Kind, SameRows
    <2>2. Climbs(p)'
      BY <1>1, <1>2, <1>9, <2>1 DEF Own, Climbs
    <2>3. Descends(p)'
      BY <1>1, <1>2, <1>9, <2>1 DEF Own, Descends
    <2> QED
      BY <2>2, <2>3
  <1>11. Viewed(p)'
    <2>1. ~apart => /\ Formed(new) /\ new.rows = db'.rows
                    /\ \A g \in Numbers : (Unrecorded(p) \/ g # n) => new.ran[g] = db'.ran[g]
      BY <1>3
    <2>2. ASSUME dialect # "mysql", ~Unrecorded(p), n \in DOMAIN StartFiles
          PROVE  new.ran[n] = IF (DataLeft(p))' THEN db.ran[n]
                              ELSE IF Kind(p) = "up" THEN Append(db.ran[n], proc[p].file.ver) ELSE Undone(db.ran[n])
      <3>1. /\ proc[p].left \subseteq SplitStatements(proc[p].stmts)
            /\ IF Kind(p) = "up" THEN ChangesOnce(proc[p].stmts) ELSE proc[p].stmts = <<Control("undo")>>
            /\ Now(p) = proc[p].view
            /\ Now(p).ran[n] = IF DataLeft(p) THEN db.ran[n]
                               ELSE IF Kind(p) = "up" THEN Append(db.ran[n], proc[p].file.ver) ELSE Undone(db.ran[n])
        BY <1>2, <2>2 DEF Own, Scripted, Viewed, Now
      <3>2. proc[p].left \subseteq DOMAIN proc[p].stmts
        BY <3>1 DEF SplitStatements
      <3>3. (DataLeft(p))' <=> \E j \in proc[p].left \ {i} : proc[p].stmts[j].do \in {"data", "undo"}
        BY <1>1 DEF DataLeft
      <3>4. CASE Kind(p) = "up"
        <4>1. PICK k \in DOMAIN proc[p].stmts :
                 proc[p].stmts[k].do = "data" /\ \A j \in DOMAIN proc[p].stmts \ {k} : proc[p].stmts[j].do \notin {"data", "undo"}
          BY <3>1, <3>4 DEF ChangesOnce
        <4>2. CASE i = k
          <5>1. DataLeft(p) /\ ~(DataLeft(p))' /\ s.do = "data"
            BY <3>2, <3>3, <4>1, <4>2 DEF DataLeft
          <5> QED
            BY <1>3, <2>2, <3>1, <3>4, <5>1
        <4>3. CASE i # k
          <5>1. s.do \notin {"data", "undo"}
            BY <3>2, <4>1, <4>3
          <5>2. (DataLeft(p))' <=> DataLeft(p)
            BY <3>3, <5>1 DEF DataLeft
          <5> QED
            BY <1>3, <3>1, <5>1, <5>2
        <4> QED
          BY <4>2, <4>3
      <3>5. CASE proc[p].stmts = <<Control("undo")>> /\ Kind(p) # "up"
        <4>1. i = 1 /\ proc[p].left \subseteq {1} /\ s.do = "undo"
          BY <3>2, <3>5 DEF Control, Stmt
        <4>2. DataLeft(p) /\ ~(DataLeft(p))'
          BY <3>3, <4>1 DEF DataLeft
        <4> QED
          BY <1>3, <2>2, <3>1, <3>5, <4>1, <4>2
      <3> QED
        BY <3>1, <3>4, <3>5
    <2>3. (dialect # "mysql" /\ ~Unrecorded(p)) => ~apart /\ db' = db
      BY <1>4
    <2> QED
      BY <1>1, <2>1, <2>2, <2>3 DEF Viewed, Kind, Unrecorded, dialect
  <1>12. Own(p)'
    BY <1>6, <1>7, <1>8, <1>10, <1>11 DEF Own
  <1> QED
    BY <1>1, <1>5, <1>12, CalmStep, KeepsFilesStep DEF MigrateInv, Handed

LEMMA RunningStep ==
  ASSUME MigrateInv, NEW p \in Procs, Run(p)
  PROVE  MigrateInv'
  <1>1. PICK i \in proc[p].left :
          LET s == proc[p].stmts[i]
              auto == proc[p].cmd.kind = "auto"
              new == Exec(Now(p), s, IF auto THEN None ELSE proc[p].file.number, IF auto THEN None ELSE proc[p].file.ver)
              apart == ~proc[p].intx \/ EndsTx(s)
          IN \/ (Leave(p, "failed") \/ Leave(p, "refused")) /\ db' = Before(p, s)
             \/ /\ proc' = [proc EXCEPT ![p].left = @ \ {i}, ![p].view = IF apart THEN None ELSE new, ![p].intx = ~apart]
                /\ db' = IF apart THEN new ELSE db
                /\ UNCHANGED <<lock, writer>>
    BY DEF Run
  <1>2. CASE (Leave(p, "failed") \/ Leave(p, "refused")) /\ db' = Before(p, proc[p].stmts[i])
    <2>1. proc[p].pc = "run" /\ UNCHANGED <<server, files, lost>>
      BY DEF Run
    <2>2. SameRows(p)
      BY <1>2, <2>1, NowFacts DEF Before, SameRows, MigrateInv, Shaped
    <2>3. FilesStep
      BY <2>1, KeepsFilesStep DEF MigrateInv
    <2> QED
      BY <1>2, <2>1, <2>2, <2>3, LeaveStep DEF Ended
  <1> DEFINE new == Exec(Now(p), proc[p].stmts[i], IF Unrecorded(p) THEN None ELSE proc[p].file.number,
                                                    IF Unrecorded(p) THEN None ELSE proc[p].file.ver)
             apart == ~proc[p].intx \/ EndsTx(proc[p].stmts[i])
  <1>3. CASE /\ proc' = [proc EXCEPT ![p].left = @ \ {i}, ![p].view = IF apart THEN None ELSE new, ![p].intx = ~apart]
             /\ db' = IF apart THEN new ELSE db
             /\ UNCHANGED <<lock, writer>>
    <2>1. apart \in BOOLEAN /\ proc[p].pc = "run" /\ UNCHANGED <<server, files, lost>>
      BY DEF Run
    <2> HIDE DEF new
    <2>2. new = Exec(Now(p), proc[p].stmts[i], IF Unrecorded(p) THEN None ELSE proc[p].file.number,
                                                IF Unrecorded(p) THEN None ELSE proc[p].file.ver)
      BY DEF new
    <2>3. apart <=> (~proc[p].intx \/ EndsTx(proc[p].stmts[i]))
      OBVIOUS
    <2> HIDE DEF apart
    <2> QED
      BY <1>3, <2>1, <2>2, <2>3, StatementStep
  <1> QED
    BY <1>1, <1>2, <1>3, Zenon DEF Unrecorded, Kind

LEMMA RunOutsideStep ==
  ASSUME MigrateInv, NEW p \in Procs, RunOutside(p)
  PROVE  MigrateInv'
  <1>1. ASSUME NEW s, Leave(p, "failed") \/ Leave(p, "refused"), db' = db \/ db' = LeftInvalid(s)
        PROVE  MigrateInv'
    <2>1. SameRows(p)
      <3>1. PICK broken : db' = db \/ db' = [db EXCEPT !.broken = broken]
        BY <1>1 DEF LeftInvalid
      <3> QED
        BY <3>1 DEF MigrateInv, Shaped, SameRows, Formed, Parts4
    <2>2. FilesStep /\ UNCHANGED <<server, lost>>
      BY KeepsFilesStep DEF RunOutside, MigrateInv
    <2> QED
      BY <1>1, <2>1, <2>2, LeaveStep DEF Ended
  <1>2. ASSUME NEW s, db' = Exec(db, s, None, None), proc' = [proc EXCEPT ![p].outside = Tail(@)], UNCHANGED <<lock, writer>>
        PROVE  MigrateInv'
    <2>1. /\ Framed /\ Others(p) /\ proc[p].pc = "outside" /\ proc'[p].pc = "outside" /\ proc'[p].cmd = proc[p].cmd
          /\ proc'[p].todo = proc[p].todo
      BY <1>2 DEF MigrateInv, Shaped, RunOutside, Framed, Others, Keeps, Fields
    <2>2. SameRows(p)
      BY <1>2, ExecFacts, NumbersFact DEF MigrateInv, Shaped, SameRows
    <2>3. Own(p) /\ UNCHANGED <<server, files, lost>>
      BY DEF MigrateInv, RunOutside
    <2>4. Commanded(p)'
      BY <2>1, <2>3 DEF Own, Commanded, Active, Ended, Kind
    <2>5. Exclusive(p)'
      BY <1>2, <2>1, <2>3 DEF Own, Exclusive, Holding, Applying, Locked, dialect
    <2>6. InHand(p)' = InHand(p)
      BY <2>1 DEF InHand
    <2>7. Own(p)'
      BY <2>1, <2>2, <2>3, <2>4, <2>5, <2>6 DEF Own, Scripted, Viewed, Climbs, Descends, Locked, dialect, Kind, SameRows
    <2> QED
      BY <1>2, <2>1, <2>2, <2>3, <2>7, CalmStep, KeepsFilesStep DEF MigrateInv, Handed
  <1> QED
    BY <1>1, <1>2, Zenon DEF RunOutside

LEMMA AfterOutsideStep ==
  ASSUME MigrateInv, NEW p \in Procs, AfterOutside(p)
  PROVE  MigrateInv'
  <1> SameRows(p) /\ FilesStep /\ UNCHANGED <<server, db, files, lost>>
    BY SameDatabase, KeepsFilesStep DEF MigrateInv, AfterOutside
  <1>1. CASE Leave(p, "ok")
    BY <1>1, LeaveStep DEF Ended
  <1>2. CASE Goto(p, "next") /\ UNCHANGED <<lock, writer>> /\ Kind(p) # "auto"
    <2>1. /\ Framed /\ Others(p) /\ proc'[p].pc = "next" /\ proc'[p].cmd = proc[p].cmd /\ proc'[p].todo = proc[p].todo
      BY <1>2 DEF MigrateInv, Shaped, Goto, Framed, Others, Keeps, Fields
    <2>2. Own(p) /\ proc[p].pc = "outside" /\ proc[p].cmd \in Commands
      BY DEF MigrateInv, AfterOutside, Own, Commanded, Active, Ended
    <2>3. Kind(p) \in {"up", "down"}
      BY <1>2, <2>2, CommandsFact DEF Own, Commanded, Kind
    <2>4. Commanded(p)'
      BY <2>1, <2>2, <2>3 DEF Own, Commanded, Busy, Active, Ended, Kind
    <2>5. Exclusive(p)'
      BY <1>2, <2>1, <2>2 DEF Own, Exclusive, Holding, Applying, Locked, dialect
    <2>6. InHand(p)' = InHand(p)
      BY <2>1, <2>2 DEF InHand
    <2>7. Own(p)'
      BY <2>1, <2>2, <2>4, <2>5, <2>6 DEF Own, Scripted, Viewed, Climbs, Descends, Locked, dialect, Kind, Applying
    <2> QED
      BY <1>2, <2>1, <2>7, CalmStep DEF Handed
  <1> QED
    BY <1>1, <1>2 DEF AfterOutside, Kind

LEMMA StartStep ==
  ASSUME MigrateInv, NEW p \in Procs, NEW c \in Commands, Start(p, c)
  PROVE  MigrateInv'
  <1>1. /\ Framed /\ Others(p) /\ proc'[p].pc \in {"tables", "lock"} /\ proc'[p].cmd = c /\ proc'[p].todo = {}
        /\ (proc'[p].pc = "tables" <=> c.kind \in {"auto", "generate"})
    BY DEF MigrateInv, Shaped, Start, Idle, Framed, Others, Keeps, Fields
  <1>2. Own(p) /\ proc[p].pc \in Ended /\ UNCHANGED <<server, db, files, lock, writer, lost>>
    BY DEF MigrateInv, Start, Active
  <1>3. Commanded(p)'
    BY <1>1, CommandsFact DEF Commanded, Busy, Active, Ended, Kind
  <1>4. Exclusive(p)'
    BY <1>1, <1>2 DEF Own, Exclusive, Holding, Applying, Ended
  <1>5. Own(p)'
    BY <1>1, <1>3, <1>4 DEF Own, Scripted, Viewed, Climbs, Descends, Applying
  <1> QED
    BY <1>1, <1>2, <1>5, CalmStep, SameDatabase, KeepsFilesStep DEF MigrateInv, Handed

LEMMA FaultStep ==
  ASSUME MigrateInv, NEW p \in Procs, NEW how \in {"failed", "dead"}, Fault(p, how)
  PROVE  MigrateInv'
  <1>1. Framed /\ Others(p) /\ proc'[p].pc \in Ended /\ proc'[p].todo = {}
    BY DEF MigrateInv, Shaped, Fault, Idle, Framed, Others, Keeps, Fields, Ended
  <1>2. SameRows(p)
    <2>1. PICK broken : db' = db \/ db' = [db EXCEPT !.broken = broken]
      BY DEF Fault, CutShort, LeftInvalid
    <2> QED
      BY <2>1 DEF MigrateInv, Shaped, SameRows, Formed, Parts4
  <1> QED
    BY <1>1, <1>2, OutStep, KeepsFilesStep DEF MigrateInv, Fault

\* Without the lock the order of the files is not promised, and nothing else depends on it.
LEMMA LoseLockStep ==
  ASSUME MigrateInv, NEW p \in Procs, LoseLock(p)
  PROVE  MigrateInv'
  <1>1. UNCHANGED <<server, db, files, writer, proc>> /\ lost'
    BY DEF LoseLock
  <1>2. ~Locked'
    BY <1>1 DEF Locked
  <1>3. \A q \in Procs : Own(q)'
    BY <1>1, <1>2 DEF MigrateInv, Own, Commanded, Active, Kind, Unrecorded, Exclusive, Scripted, Viewed, DataLeft, Climbs,
                      Descends, dialect
  <1>4. AppliedInOrder'
    BY <1>1 DEF AppliedInOrder
  <1>5. RecordMatchesEffect'
    BY <1>1 DEF MigrateInv, RecordMatchesEffect, dialect
  <1>6. Shaped' /\ Filed'
    BY <1>1, <1>2 DEF MigrateInv, Shaped, Filed, Formed
  <1> QED
    BY <1>3, <1>4, <1>5, <1>6 DEF MigrateInv

LEMMA EditStep ==
  ASSUME MigrateInv, NEW f \in DOMAIN StartFiles, Edit(f)
  PROVE  MigrateInv'
  <1>1. UNCHANGED <<server, db, lock, writer, proc, lost>>
    BY DEF Edit
  <1>2. FilesStep
    <2>1. PICK new \in {None, [files[f] EXCEPT !.ver = "v2"]} : files' = [files EXCEPT ![f] = new]
      BY DEF Edit
    <2>2. f \in Numbers /\ f <= Len(StartFiles)
      BY NumbersFact
    <2>3. new # None => new.ver \in Versions /\ DOMAIN new = {"ver", "tx", "outside"} /\ new.tx = StartFiles[f].tx
      BY <2>1, <2>2 DEF MigrateInv, Filed, Edit, Versions
    <2> HIDE DEF Versions
    <2>4. DOMAIN files = Numbers /\ Filed
      BY DEF MigrateInv, Shaped
    <2> QED
      BY <2>1, <2>2, <2>3, <2>4, NumbersFact DEF Filed, FilesStep, Edit
  <1>3. Framed /\ Others(None) /\ SameRows(None) /\ None \notin Procs
    BY <1>1, SameDatabase, NumbersFact DEF MigrateInv, Shaped, Framed, Others, Keeps
  <1> QED
    BY <1>1, <1>2, <1>3, CalmStep DEF Handed

LEMMA UndoneFacts == Undone(<<>>) = <<>> /\ \A v : Undone(<<v>>) = <<>>
  <1>1. ASSUME NEW v PROVE Undone(<<v>>) = <<>>
    <2>1. Len(<<v>>) - 1 = 0 /\ <<v>> # <<>> /\ SubSeq(<<v>>, 1, 0) = <<>>
      OBVIOUS
    <2> QED
      BY <2>1 DEF Undone, Front
  <1> QED
    BY <1>1 DEF Undone

\* auto_migrate commits its statements and records nothing.
LEMMA CommitUnrecorded ==
  ASSUME MigrateInv, NEW p \in Procs, proc[p].pc = "run", Unrecorded(p), db' = Now(p), writer' = None,
         proc' = [proc EXCEPT ![p].view = None, ![p].intx = FALSE, ![p].pc = "outside"],
         UNCHANGED <<server, files, lock, lost>>
  PROVE  MigrateInv'
  <1>1. /\ Framed /\ Others(p) /\ proc'[p].pc = "outside" /\ proc'[p].cmd = proc[p].cmd /\ proc'[p].todo = proc[p].todo
    BY DEF MigrateInv, Shaped, Framed, Others, Keeps, Fields
  <1>2. Own(p) /\ SameRows(p) /\ writer = p
    BY NowFacts DEF MigrateInv, SameRows
  <1>3. Commanded(p)'
    BY <1>1, <1>2 DEF Own, Commanded, Busy, Active, Ended, Kind, Unrecorded
  <1>4. Exclusive(p)'
    BY <1>1, <1>2, NumbersFact DEF Own, Exclusive, Holding, Applying, Locked, dialect
  <1>5. Own(p)'
    BY <1>1, <1>3, <1>4 DEF Own, Scripted, Viewed, Climbs, Descends, Kind, Unrecorded
  <1> QED
    BY <1>1, <1>2, <1>5, CalmStep, KeepsFilesStep DEF MigrateInv, Handed

\* The row of a migration is written and its transaction committed.
LEMMA CommitRecorded ==
  ASSUME MigrateInv, NEW p \in Procs, proc[p].pc = "run", proc[p].left = {}, ~Unrecorded(p), ~Refused(p),
         NEW row, row = (IF Kind(p) = "down" THEN None ELSE proc[p].file.ver),
         db' = [Now(p) EXCEPT !.rows[proc[p].file.number] = row], writer' = None,
         proc' = [proc EXCEPT ![p].view = None, ![p].intx = FALSE, ![p].pc = "outside"],
         UNCHANGED <<server, files, lock, lost>>
  PROVE  MigrateInv'
  <1> DEFINE n == proc[p].file.number
  <1>1. /\ Framed /\ Others(p) /\ proc'[p].pc = "outside" /\ proc'[p].cmd = proc[p].cmd /\ proc'[p].todo = proc[p].todo
    BY DEF MigrateInv, Shaped, Framed, Others, Keeps, Fields
  <1>2. /\ Own(p) /\ writer = p /\ Shaped /\ Filed /\ Kind(p) \in {"up", "down"} /\ n \in Numbers
        /\ Kind(p) = "up" => row \in Versions /\ row # None /\ row = proc[p].file.ver
        /\ Kind(p) = "down" => row = None
        /\ proc[p].todo \subseteq Numbers
    <2>1. Own(p) /\ Shaped /\ Filed /\ proc[p].cmd \in Commands
      BY DEF MigrateInv, Own, Commanded, Active, Ended
    <2>2. Kind(p) \in {"up", "down"} /\ n \in Numbers /\ proc[p].file.ver \in Versions /\ proc[p].todo \subseteq Numbers
      BY <2>1, CommandsFact DEF Own, Commanded, Unrecorded, Kind
    <2> QED
      BY <2>1, <2>2, NumbersFact DEF Own, Exclusive
  <1>3. /\ Formed(Now(p)) /\ Now(p).rows = db.rows /\ Formed(db)
        /\ \A g \in Numbers : g # n => Now(p).ran[g] = db.ran[g]
    BY NowFacts DEF MigrateInv, Shaped
  <1>4. /\ Formed(db') /\ db'.ran = Now(p).ran /\ db'.rows = [db.rows EXCEPT ![n] = row]
        /\ db'.rows[n] = row /\ \A g \in Numbers : g # n => db'.rows[g] = db.rows[g]
    BY <1>2, <1>3 DEF Formed, Parts4
  <1>5. InHand(p) = proc[p].todo \cup {n} /\ InHand(p)' = proc[p].todo
    BY <1>1 DEF InHand
  <1>6. Locked => \A q \in Procs \ {p} : ~Holding(q)
    BY <1>2, NumbersFact DEF MigrateInv, Own, Exclusive, Holding, Applying
  <1>7. ASSUME NEW q \in Procs, q # p
        PROVE  Own(q)'
    <2>1. Own(q) /\ Keeps(q) /\ proc[q].pc # "run"
      BY <1>1, <1>2, <1>7 DEF MigrateInv, Own, Exclusive, Others
    <2>2. Commanded(q)'
      BY <2>1 DEF Own, Commanded, Keeps, Active, Ended, Kind, Unrecorded
    <2>3. Exclusive(q)'
      BY <1>7, <2>1, NumbersFact DEF Own, Exclusive, Keeps, Holding, Locked, dialect
    <2>4. Scripted(q)'
      BY <2>1 DEF Own, Scripted, Keeps, Kind, Unrecorded, dialect
    <2>5. Viewed(q)'
      BY <2>1 DEF Viewed, Keeps
    <2>6. Climbs(q)' /\ Descends(q)'
      BY <1>6, <1>7, <2>1 DEF Climbs, Descends, Holding, Keeps, Locked, dialect
    <2> QED
      BY <2>2, <2>3, <2>4, <2>5, <2>6 DEF Own
  <1>8. Own(p)'
    <2>1. Commanded(p)'
      BY <1>1, <1>2 DEF Own, Commanded, Busy, Active, Ended, Kind, Unrecorded
    <2>2. Exclusive(p)'
      BY <1>1, <1>2, NumbersFact DEF Own, Exclusive, Holding, Applying, Locked, dialect
    <2>3. Climbs(p)'
      <3> SUFFICES ASSUME Locked, Kind(p) = "up"
                   PROVE  /\ \A g \in Numbers : (files[g] # None /\ db'.rows[g] = None) => g \in proc[p].todo \/ \A f \in proc[p].todo : f < g
                          /\ \A f \in proc[p].todo : f <= Len(StartFiles) \/ files[f] # None
        BY <1>1, <1>5 DEF Climbs, Locked, dialect, Kind
      <3>1. /\ \A g \in Numbers : (files[g] # None /\ db.rows[g] = None) => g \in InHand(p) \/ \A f \in InHand(p) : f < g
            /\ \A f \in InHand(p) : f <= Len(StartFiles) \/ files[f] # None
        BY <1>2 DEF Own, Climbs, Applying
      <3> QED
        BY <1>2, <1>4, <1>5, <3>1
    <2>4. Descends(p)'
      <3> SUFFICES ASSUME Locked, Kind(p) = "down"
                   PROVE  \A g \in Numbers : db'.rows[g] # None => g \in proc[p].todo \/ \A f \in proc[p].todo : g < f
        BY <1>1, <1>5 DEF Descends, Locked, dialect, Kind
      <3>1. \A g \in Numbers : db.rows[g] # None => g \in InHand(p) \/ \A f \in InHand(p) : g < f
        BY <1>2 DEF Own, Descends, Applying
      <3> QED
        BY <1>2, <1>4, <1>5, <3>1
    <2> QED
      BY <1>1, <2>1, <2>2, <2>3, <2>4 DEF Own, Scripted, Viewed
  <1>9. Shaped'
    BY <1>1, <1>2, <1>4 DEF Shaped, Framed
  <1>10. Filed'
    <2>1. ASSUME Locked, Kind(p) = "up" PROVE n <= Len(StartFiles) \/ files[n] # None
      BY <1>2, <1>5, <2>1 DEF Own, Climbs, Applying
    <2> QED
      BY <1>2, <1>4, <2>1 DEF Filed, Locked, dialect
  \* The row says what ran.
  <1>11. RecordMatchesEffect'
    <2> SUFFICES ASSUME dialect # "mysql", NEW f \in DOMAIN StartFiles
                 PROVE  db'.ran[f] = IF db'.rows[f] = None THEN <<>> ELSE <<db'.rows[f]>>
      BY DEF RecordMatchesEffect, dialect
    <2>1. f \in Numbers /\ db.ran[f] = IF db.rows[f] = None THEN <<>> ELSE <<db.rows[f]>>
      BY NumbersFact DEF MigrateInv, RecordMatchesEffect
    <2>2. CASE f # n
      BY <1>3, <1>4, <2>1, <2>2
    <2>3. CASE f = n
      <3>1. Now(p).ran[n] = IF Kind(p) = "up" THEN Append(db.ran[n], proc[p].file.ver) ELSE Undone(db.ran[n])
        BY <1>2, <2>3 DEF Own, Viewed, Now, DataLeft
      <3>2. CASE Kind(p) = "up"
        <4>1. db.ran[n] = <<>>
          BY <1>3, <2>1, <2>3, <3>2 DEF Refused, Kind
        <4>2. Now(p).ran[n] = <<row>>
          BY <1>2, <3>1, <3>2, <4>1
        <4> QED
          BY <1>2, <1>4, <2>3, <3>2, <4>2
      <3>3. CASE Kind(p) = "down"
        <4>1. Undone(db.ran[n]) = <<>>
          BY <2>1, <2>3, UndoneFacts
        <4> QED
          BY <1>2, <1>4, <2>3, <3>1, <3>3, <4>1
      <3> QED
        BY <1>2, <3>2, <3>3
    <2> QED
      BY <2>2, <2>3
  \* No file that is there is left behind by a row of a later one.
  <1>12. AppliedInOrder'
    <2> SUFFICES ASSUME Locked, NEW f \in Numbers, NEW g \in Numbers, g < f, db'.rows[f] # None, files[g] # None
                 PROVE  db'.rows[g] # None
      BY DEF AppliedInOrder, Locked, dialect
    <2>1. /\ (db.rows[f] # None => db.rows[g] # None) /\ f \in Int /\ g \in Int /\ n \in Int
      BY <1>2, NumbersFact DEF MigrateInv, AppliedInOrder, Locked
    <2>2. CASE Kind(p) = "up"
      <3>1. /\ (files[g] # None /\ db.rows[g] = None) => g \in InHand(p) \/ \A h \in InHand(p) : h < g
            /\ \A h \in proc[p].todo : n < h
        BY <1>2, <2>2 DEF Own, Climbs, Applying
      <3>2. CASE f = n /\ db.rows[g] = None
        BY <1>2, <1>5, <2>1, <3>1, <3>2
      <3> QED
        BY <1>2, <1>4, <2>1, <2>2, <3>2
    <2>3. CASE Kind(p) = "down"
      <3>1. /\ db.rows[f] # None => f \in InHand(p) \/ \A h \in InHand(p) : f < h
            /\ \A h \in proc[p].todo : h < n
        BY <1>2, <2>3 DEF Own, Descends, Applying
      <3>2. f # n /\ db.rows[f] # None
        BY <1>2, <1>4, <2>3
      <3>3. g # n
        BY <1>2, <1>5, <2>1, <3>1, <3>2
      <3> QED
        BY <1>4, <2>1, <3>2, <3>3
    <2> QED
      BY <1>2, <2>2, <2>3
  <1> QED
    BY <1>7, <1>8, <1>9, <1>10, <1>11, <1>12 DEF MigrateInv

LEMMA CommitStep ==
  ASSUME MigrateInv, NEW p \in Procs, Commit(p)
  PROVE  MigrateInv'
  <1>1. CASE Refused(p)
    BY <1>1, LeaveStep, SameDatabase, KeepsFilesStep DEF MigrateInv, Commit, Ended
  <1>2. CASE ~Refused(p) /\ Unrecorded(p)
    <2>1. db' = Now(p)
      BY <1>2 DEF Commit, Recorded, Unrecorded, Kind
    <2> QED
      BY <1>2, <2>1, CommitUnrecorded DEF Commit
  <1>3. CASE ~Refused(p) /\ ~Unrecorded(p)
    <2> DEFINE row == IF Kind(p) = "down" THEN None ELSE proc[p].file.ver
    <2>1. db' = [Now(p) EXCEPT !.rows[proc[p].file.number] = row]
      BY <1>3 DEF Commit, Recorded, Unrecorded, Kind
    <2> HIDE DEF row
    <2>2. row = (IF Kind(p) = "down" THEN None ELSE proc[p].file.ver)
      BY DEF row
    <2> QED
      BY <1>3, <2>1, <2>2, CommitRecorded DEF Commit
  <1> QED
    BY <1>1, <1>2, <1>3

-----------------------------------------------------------------------------
LEMMA InitMigrateInv == Init => MigrateInv
  <1> SUFFICES ASSUME Init PROVE MigrateInv
    OBVIOUS
  <1>1. PICK n \in 0 .. Len(StartFiles), T \in SUBSET StartTables :
          db = [have |-> {Table(e) : e \in T} \cup UNION {Adds(StartFiles[f]) : f \in 1 .. n}, broken |-> {},
                rows |-> [f \in Numbers |-> IF f <= n THEN StartFiles[f].ver ELSE None],
                ran |-> [f \in Numbers |-> IF f <= n THEN <<StartFiles[f].ver>> ELSE <<>>]]
    BY DEF Init
  <1>2. /\ DOMAIN db = Parts4 /\ db.rows = [f \in Numbers |-> IF f <= n THEN StartFiles[f].ver ELSE None]
        /\ db.ran = [f \in Numbers |-> IF f <= n THEN <<StartFiles[f].ver>> ELSE <<>>]
    <2> DEFINE have == {Table(e) : e \in T} \cup UNION {Adds(StartFiles[f]) : f \in 1 .. n}
               rows == [f \in Numbers |-> IF f <= n THEN StartFiles[f].ver ELSE None]
               ran == [f \in Numbers |-> IF f <= n THEN <<StartFiles[f].ver>> ELSE <<>>]
    <2> HIDE DEF have, rows, ran
    <2>1. db = [have |-> have, broken |-> {}, rows |-> rows, ran |-> ran]
      BY <1>1 DEF have, rows, ran
    <2>2. DOMAIN db = Parts4 /\ db.rows = rows /\ db.ran = ran
      BY <2>1 DEF Parts4
    <2> QED
      BY <2>2 DEF rows, ran
  <1>3. \A f \in DOMAIN StartFiles : /\ StartFiles[f].ver \in Versions /\ StartFiles[f].ver # None
                                     /\ DOMAIN StartFiles[f] = {"ver", "tx", "outside"}
    BY MigrateAssumption
  <1>4. \A f \in Numbers : f <= n => f \in DOMAIN StartFiles
    BY NumbersFact
  <1>5. files = [f \in Numbers |-> IF f \in DOMAIN StartFiles THEN StartFiles[f] ELSE None] /\ proc = [p \in Procs |-> Idle]
        /\ lock = None /\ writer = None
    BY DEF Init
  <1>6. Shaped
    BY <1>2, <1>3, <1>4, <1>5 DEF Shaped, Formed, Idle, Fields
  <1>7. Filed
    BY <1>2, <1>3, <1>4, <1>5, NumbersFact DEF Filed
  <1>8. \A p \in Procs : Own(p)
    BY <1>5, NumbersFact DEF Own, Commanded, Exclusive, Scripted, Viewed, Climbs, Descends, Idle, Ended, Active, Holding, Applying
  <1>9. RecordMatchesEffect
    BY <1>2, <1>3, NumbersFact DEF RecordMatchesEffect
  <1>10. AppliedInOrder
    BY <1>2, <1>3, <1>4, NumbersFact DEF AppliedInOrder
  <1> QED
    BY <1>6, <1>7, <1>8, <1>9, <1>10 DEF MigrateInv

LEMMA NextMigrateInv ==
  ASSUME MigrateInv, Next
  PROVE  MigrateInv'
  <1>1. ASSUME NEW p \in Procs, Step(p) PROVE MigrateInv'
    BY <1>1, FetchStep, AutoMigrateStep, GenerateStep, AcquireLockStep, LockTimeoutStep, VerifyStep, StatusStep, SelectStep,
       ReadFileStep, FinishStep, BeginStep, RunningStep, CommitStep, RunOutsideStep, AfterOutsideStep DEF Step
  <1> QED
    BY <1>1, LoseLockStep, StartStep, FaultStep, EditStep DEF Next

LEMMA IdleMigrateInv ==
  ASSUME MigrateInv, UNCHANGED mvars
  PROVE  MigrateInv'
  <1>1. UNCHANGED <<server, db, files, lock, writer, proc, lost>>
    BY DEF mvars
  <1>2. \A q \in Procs : Own(q)'
    BY <1>1 DEF MigrateInv, Own, Commanded, Active, Kind, Unrecorded, Exclusive, Holding, Scripted, Viewed, DataLeft, Climbs,
                Descends, InHand, Locked, dialect
  <1>3. Shaped' /\ Filed' /\ RecordMatchesEffect' /\ AppliedInOrder'
    BY <1>1 DEF MigrateInv, Shaped, Filed, Formed, RecordMatchesEffect, AppliedInOrder, Locked, dialect
  <1> QED
    BY <1>2, <1>3 DEF MigrateInv

-----------------------------------------------------------------------------
(* Lists *)

\* Every set of numbers has a least one.
LEMMA LeastNumber ==
  ASSUME NEW N \in SUBSET Nat, N # {}
  PROVE  \E n \in N : \A m \in N : n <= m
  <1>1. PICK n \in N : \A m \in N : ~(<<m, n>> \in OpToRel(<, Nat))
    BY NatLessThanWellFounded, WFMin
  <1>2. \A m \in N : ~(m < n)
    BY <1>1 DEF OpToRel
  <1> QED
    BY <1>2

\* A set that holds 0 and the successor of every number in it holds all numbers.
LEMMA AllNumbers ==
  ASSUME NEW T, 0 \in T, \A n \in Nat : n \in T => n + 1 \in T
  PROVE  Nat \subseteq T
  <1> SUFFICES ASSUME Nat \ T # {} PROVE FALSE
    OBVIOUS
  <1>1. PICK n \in Nat \ T : \A m \in Nat \ T : n <= m
    BY LeastNumber, Nat \ T \in SUBSET Nat
  <1>2. n - 1 \in Nat
    BY <1>1
  <1>3. n - 1 \in T
    BY <1>1, <1>2
  <1> QED
    BY <1>1, <1>2, <1>3

\* The function that a loop over 1 .. N defines is there.
Loop(N, X, base, G) == N \in Nat /\ base \in X /\ G \in [(1 .. N) \X X -> X]
Loops(d, N, X, base, G) == d \in [0 .. N -> X] /\ d[0] = base /\ \A n \in 1 .. N : d[n] = G[<<n, d[n-1]>>]

LEMMA LoopIs ==
  ASSUME NEW N, NEW X, NEW base, NEW G, Loop(N, X, base, G)
  PROVE  \E d : Loops(d, N, X, base, G)
  <1> N \in Nat /\ base \in X /\ G \in [(1 .. N) \X X -> X]
    BY DEF Loop
  <1> DEFINE Follows(d, m) == \A n \in 0 .. m : d[n] = IF n = 0 THEN base ELSE G[<<n, d[n-1]>>]
             T == {m \in Nat : m <= N => \E d \in [0 .. m -> X] : Follows(d, m)}
  <1>1. 0 \in T
    <2>1. [n \in 0 .. 0 |-> base] \in [0 .. 0 -> X] /\ Follows([n \in 0 .. 0 |-> base], 0)
      OBVIOUS
    <2> QED
      BY <2>1
  <1>2. ASSUME NEW m \in Nat, m \in T PROVE m + 1 \in T
    <2> SUFFICES ASSUME m + 1 <= N PROVE \E e \in [0 .. m + 1 -> X] : Follows(e, m + 1)
      OBVIOUS
    <2>1. PICK d \in [0 .. m -> X] : Follows(d, m)
      BY <1>2
    <2> DEFINE e == [n \in 0 .. m + 1 |-> IF n = m + 1 THEN G[<<n, d[m]>>] ELSE d[n]]
    <2>2. e \in [0 .. m + 1 -> X]
      <3>1. <<m + 1, d[m]>> \in (1 .. N) \X X
        BY <2>1
      <3>2. G[<<m + 1, d[m]>>] \in X
        BY <3>1
      <3>3. \A n \in 0 .. m + 1 : n # m + 1 => n \in 0 .. m
        OBVIOUS
      <3> QED
        BY <2>1, <3>2, <3>3
    <2>3. ASSUME NEW n \in 0 .. m + 1 PROVE e[n] = IF n = 0 THEN base ELSE G[<<n, e[n-1]>>]
      <3>1. CASE n = m + 1
        <4>1. e[n] = G[<<n, d[m]>>] /\ e[m] = d[m] /\ n - 1 = m /\ n # 0
          BY <3>1
        <4> QED
          BY <4>1
      <3>2. CASE n # m + 1
        <4>1. n \in 0 .. m /\ e[n] = d[n] /\ (n # 0 => n - 1 \in 0 .. m /\ e[n-1] = d[n-1])
          BY <3>2
        <4>2. d[n] = IF n = 0 THEN base ELSE G[<<n, d[n-1]>>]
          BY <2>1, <4>1
        <4> QED
          BY <4>1, <4>2
      <3> QED
        BY <3>1, <3>2
    <2> HIDE DEF e
    <2> QED
      BY <2>2, <2>3
  <1>3. N \in T
    <2> HIDE DEF T
    <2> QED
      BY <1>1, <1>2, AllNumbers
  <1>4. PICK d \in [0 .. N -> X] : Follows(d, N)
    BY <1>3
  <1>5. d[0] = base /\ \A n \in 1 .. N : d[n] = G[<<n, d[n-1]>>]
    BY <1>4, \A n \in 1 .. N : n \in 0 .. N /\ n # 0, 0 \in 0 .. N
  <1> QED
    BY <1>4, <1>5 DEF Loops

\* Only, element by element.
Keeping(kept, E, seq, set) ==
    /\ kept \in [0 .. Len(seq) -> Seq(E)] /\ kept[0] = <<>> /\ kept[Len(seq)] = Only(seq, set)
    /\ \A n \in 1 .. Len(seq) : kept[n] = IF seq[n] \in set THEN Append(kept[n-1], seq[n]) ELSE kept[n-1]

LEMMA OnlySteps ==
  ASSUME NEW E, NEW seq \in Seq(E), NEW set
  PROVE  \E kept : Keeping(kept, E, seq, set)
  <1> DEFINE N == Len(seq)
             Is(d) == d = [n \in 0 .. N |-> IF n = 0 THEN <<>>
                                            ELSE IF seq[n] \in set THEN Append(d[n-1], seq[n]) ELSE d[n-1]]
             G == [u \in (1 .. N) \X Seq(E) |-> IF seq[u[1]] \in set THEN Append(u[2], seq[u[1]]) ELSE u[2]]
             kept == CHOOSE d : Is(d)
  <1>1. N \in Nat /\ \A n \in 1 .. N : seq[n] \in E
    OBVIOUS
  <1>2. G \in [(1 .. N) \X Seq(E) -> Seq(E)]
    <2>1. \A u \in (1 .. N) \X Seq(E) : seq[u[1]] \in E /\ u[2] \in Seq(E)
      BY <1>1
    <2>2. \A x \in Seq(E), y \in E : Append(x, y) \in Seq(E)
      OBVIOUS
    <2> QED
      BY <2>1, <2>2
  <1>3. PICK d : Loops(d, N, Seq(E), <<>>, G)
    <2>1. Loop(N, Seq(E), <<>>, G)
      BY <1>1, <1>2 DEF Loop
    <2> HIDE DEF N, G
    <2> QED
      BY <2>1, LoopIs
  <1>4. \A n \in 1 .. N : d[n] = IF seq[n] \in set THEN Append(d[n-1], seq[n]) ELSE d[n-1]
    <2> TAKE n \in 1 .. N
    <2>1. n \in 0 .. N /\ n # 0 /\ n - 1 \in 0 .. N
      BY <1>1
    <2>2. d[n-1] \in Seq(E) /\ d[n] = G[<<n, d[n-1]>>]
      <3> HIDE DEF G, N
      <3> QED
        BY <1>3, <2>1 DEF Loops
    <2>3. \A x \in Seq(E) : G[<<n, x>>] = IF seq[n] \in set THEN Append(x, seq[n]) ELSE x
      OBVIOUS
    <2> QED
      BY <2>2, <2>3
  <1>5. Is(d)
    <2>1. ASSUME NEW n \in 0 .. N
          PROVE  d[n] = IF n = 0 THEN <<>> ELSE IF seq[n] \in set THEN Append(d[n-1], seq[n]) ELSE d[n-1]
      <3>1. n = 0 \/ n \in 1 .. N
        BY <1>1
      <3> QED
        BY <1>3, <1>4, <3>1 DEF Loops
    <2> HIDE DEF N, G
    <2> QED
      BY <1>3, <2>1 DEF Loops
  <1>6. Is(kept)
    <2> HIDE DEF Is
    <2> QED
      BY <1>5
  <1>7. Only(seq, set) = kept[N]
    <2> HIDE DEF G
    <2> QED
      BY DEF Only
  <1> DEFINE k == kept
  <1>8. k = [n \in 0 .. N |-> IF n = 0 THEN <<>> ELSE IF seq[n] \in set THEN Append(k[n-1], seq[n]) ELSE k[n-1]]
    BY <1>6
  <1>9. Only(seq, set) = k[N]
    BY <1>7
  <1> HIDE DEF k, kept, Is, G, N
  <1>10. k[0] = <<>> /\ \A n \in 1 .. N : k[n] = IF seq[n] \in set THEN Append(k[n-1], seq[n]) ELSE k[n-1]
    <2>1. 0 \in 0 .. N /\ \A n \in 1 .. N : n \in 0 .. N /\ n # 0
      BY <1>1
    <2> QED
      BY <1>8, <2>1
  <1>11. k \in [0 .. N -> Seq(E)]
    <2> DEFINE T == {n \in Nat : n <= N => k[n] \in Seq(E)}
    <2>1. 0 \in T
      <3>1. k[0] \in Seq(E)
        BY <1>10
      <3> QED
        BY <3>1
    <2>2. ASSUME NEW n \in Nat, n \in T PROVE n + 1 \in T
      <3> SUFFICES ASSUME n + 1 <= N PROVE k[n + 1] \in Seq(E)
        OBVIOUS
      <3>1. n + 1 \in 1 .. N /\ k[n] \in Seq(E) /\ (n + 1) - 1 = n
        BY <1>1, <2>2
      <3>2. k[n + 1] = IF seq[n + 1] \in set THEN Append(k[n], seq[n + 1]) ELSE k[n]
        BY <1>10, <3>1
      <3> QED
        BY <1>1, <3>1, <3>2
    <2>3. Nat \subseteq T
      <3> HIDE DEF T
      <3> QED
        BY <2>1, <2>2, AllNumbers
    <2>4. \A n \in 0 .. N : k[n] \in Seq(E)
      BY <1>1, <2>3
    <2> QED
      BY <1>8, <2>4
  <1>12. Keeping(k, E, seq, set)
    BY <1>9, <1>10, <1>11 DEF N, Keeping
  <1> QED
    BY <1>12

\* Where the elements that Only keeps come from: all of the set, up to the n-th.
Picks(k, seq, set, n, src) ==
    /\ src \in [DOMAIN k -> 1 .. n]
    /\ \A i \in DOMAIN k : k[i] = seq[src[i]] /\ k[i] \in set
    /\ \A i, j \in DOMAIN k : i < j => src[i] < src[j]
    /\ \A m \in 1 .. n : seq[m] \in set => \E i \in DOMAIN k : src[i] = m

LEMMA OnlyPicks ==
  ASSUME NEW E, NEW seq \in Seq(E), NEW set
  PROVE  Only(seq, set) \in Seq(E) /\ \E src : Picks(Only(seq, set), seq, set, Len(seq), src)
  <1>0. PICK kept : Keeping(kept, E, seq, set)
    BY OnlySteps
  <1>1. /\ kept \in [0 .. Len(seq) -> Seq(E)] /\ kept[0] = <<>> /\ kept[Len(seq)] = Only(seq, set)
        /\ \A n \in 1 .. Len(seq) : kept[n] = IF seq[n] \in set THEN Append(kept[n-1], seq[n]) ELSE kept[n-1]
    BY <1>0 DEF Keeping
  <1> DEFINE T == {n \in Nat : n <= Len(seq) => \E src : Picks(kept[n], seq, set, n, src)}
  <1>2. 0 \in T
    <2>1. Picks(<<>>, seq, set, 0, <<>>)
      BY DEF Picks
    <2> QED
      BY <1>1, <2>1
  <1>3. ASSUME NEW n \in Nat, n \in T PROVE n + 1 \in T
    <2> SUFFICES ASSUME n + 1 <= Len(seq) PROVE \E src : Picks(kept[n + 1], seq, set, n + 1, src)
      OBVIOUS
    <2> DEFINE k == kept[n]
               x == seq[n + 1]
    <2>0. n \in 0 .. Len(seq) /\ n + 1 \in 1 .. Len(seq) /\ (n + 1) - 1 = n
      OBVIOUS
    <2>1. k \in Seq(E) /\ x \in E /\ n + 1 \in 1 .. Len(seq) /\ (n + 1) - 1 = n
      BY <1>1, <2>0
    <2>2. PICK src : Picks(k, seq, set, n, src)
      BY <1>3
    <2>3. kept[n + 1] = IF x \in set THEN Append(k, x) ELSE k
      BY <1>1, <2>1
    <2> HIDE DEF k
    <2>4. CASE x \notin set
      <3>1. Picks(k, seq, set, n + 1, src)
        <4>1. src \in [DOMAIN k -> 1 .. n + 1]
          BY <2>2 DEF Picks
        <4>2. \A m \in 1 .. n + 1 : seq[m] \in set => m \in 1 .. n
          BY <2>4
        <4> QED
          BY <2>2, <4>1, <4>2 DEF Picks
      <3> QED
        BY <2>3, <2>4, <3>1
    <2>5. CASE x \in set
      <3> DEFINE N == Len(k)
                 to == [i \in 1 .. N + 1 |-> IF i = N + 1 THEN n + 1 ELSE src[i]]
                 kk == Append(k, x)
      <3>1. N \in Nat /\ DOMAIN k = 1 .. N /\ DOMAIN kk = 1 .. N + 1 /\ kk[N + 1] = x /\ \A i \in 1 .. N : kk[i] = k[i]
        BY <2>1
      <3>2. /\ src \in [1 .. N -> 1 .. n]
            /\ \A i \in 1 .. N : k[i] = seq[src[i]] /\ k[i] \in set
            /\ \A i, j \in 1 .. N : i < j => src[i] < src[j]
            /\ \A m \in 1 .. n : seq[m] \in set => \E i \in 1 .. N : src[i] = m
        BY <2>2, <3>1 DEF Picks
      <3> HIDE DEF kk, N
      <3>3. \A i \in 1 .. N + 1 : i # N + 1 => i \in 1 .. N /\ to[i] = src[i] /\ src[i] \in 1 .. n
        BY <3>1, <3>2
      <3>4. N + 1 \in 1 .. N + 1 /\ to[N + 1] = n + 1
        BY <3>1
      <3>5. to \in [1 .. N + 1 -> 1 .. n + 1]
        BY <3>3, <3>4
      <3>6. DOMAIN to = 1 .. N + 1
        OBVIOUS
      <3> HIDE DEF to
      <3>7. \A i \in 1 .. N + 1 : kk[i] = seq[to[i]] /\ kk[i] \in set
        BY <2>5, <3>1, <3>2, <3>3, <3>4
      <3>8. \A i, j \in 1 .. N + 1 : i < j => to[i] < to[j]
        <4> SUFFICES ASSUME NEW i \in 1 .. N + 1, NEW j \in 1 .. N + 1, i < j PROVE to[i] < to[j]
          OBVIOUS
        <4>1. i \in 1 .. N /\ to[i] = src[i] /\ src[i] \in 1 .. n
          BY <3>1, <3>3
        <4>2. CASE j = N + 1
          BY <3>4, <4>1, <4>2
        <4>3. CASE j # N + 1
          BY <3>2, <3>3, <4>1, <4>3
        <4> QED
          BY <4>2, <4>3
      <3>9. \A m \in 1 .. n + 1 : seq[m] \in set => \E i \in 1 .. N + 1 : to[i] = m
        <4> SUFFICES ASSUME NEW m \in 1 .. n + 1, seq[m] \in set PROVE \E i \in 1 .. N + 1 : to[i] = m
          OBVIOUS
        <4>1. CASE m = n + 1
          BY <3>4, <4>1
        <4>2. CASE m # n + 1
          <5>1. PICK i \in 1 .. N : src[i] = m
            BY <3>2, <4>2
          <5>2. i \in 1 .. N + 1 /\ i # N + 1
            BY <3>1
          <5> QED
            BY <3>3, <5>1, <5>2
        <4> QED
          BY <4>1, <4>2
      <3>10. Picks(kk, seq, set, n + 1, to)
        BY <3>1, <3>5, <3>7, <3>8, <3>9 DEF Picks
      <3> QED
        BY <2>3, <2>5, <3>10 DEF kk
    <2> QED
      BY <2>4, <2>5
  <1>4. Len(seq) \in T
    <2> HIDE DEF T
    <2> QED
      BY <1>2, <1>3, AllNumbers
  <1>5. \E src : Picks(kept[Len(seq)], seq, set, Len(seq), src)
    BY <1>4
  <1> QED
    BY <1>1, <1>5

\* Only keeps the members of the set, each as often and in the order it came.
LEMMA OnlyFacts ==
  ASSUME NEW E, NEW seq \in Seq(E), NEW set
  PROVE  /\ Only(seq, set) \in Seq(E)
         /\ ToSet(Only(seq, set)) = ToSet(seq) \cap set
         /\ IsInjective(seq) =>
              /\ IsInjective(Only(seq, set))
              /\ \A i, j \in DOMAIN Only(seq, set), m, n \in DOMAIN seq :
                    (Only(seq, set)[i] = seq[m] /\ Only(seq, set)[j] = seq[n] /\ m < n) => i < j
  <1> DEFINE k == Only(seq, set)
  <1>1. k \in Seq(E) /\ \E src : Picks(k, seq, set, Len(seq), src)
    BY OnlyPicks
  <1> HIDE DEF k
  <1>2. PICK src : Picks(k, seq, set, Len(seq), src)
    BY <1>1
  <1>3. /\ DOMAIN seq = 1 .. Len(seq) /\ DOMAIN seq \subseteq Int
        /\ DOMAIN k = 1 .. Len(k) /\ DOMAIN k \subseteq Int
    BY <1>1
  <1>4. /\ src \in [DOMAIN k -> DOMAIN seq]
        /\ \A i \in DOMAIN k : k[i] = seq[src[i]] /\ k[i] \in set
        /\ \A i, j \in DOMAIN k : i < j => src[i] < src[j]
        /\ \A m \in DOMAIN seq : seq[m] \in set => \E i \in DOMAIN k : src[i] = m
    BY <1>2, <1>3 DEF Picks
  <1>5. ToSet(k) = ToSet(seq) \cap set
    <2>1. ASSUME NEW x \in ToSet(k) PROVE x \in ToSet(seq) /\ x \in set
      BY <1>4 DEF ToSet
    <2>2. ASSUME NEW x \in ToSet(seq), x \in set PROVE x \in ToSet(k)
      <3>1. PICK m \in DOMAIN seq : x = seq[m]
        BY DEF ToSet
      <3>2. PICK i \in DOMAIN k : src[i] = m
        BY <1>4, <2>2, <3>1
      <3>3. k[i] = x
        BY <1>4, <3>1, <3>2
      <3> QED
        BY <3>3 DEF ToSet
    <2> QED
      BY <2>1, <2>2
  <1>6. ASSUME IsInjective(seq)
        PROVE  /\ IsInjective(k)
               /\ \A i, j \in DOMAIN k, m, n \in DOMAIN seq : (k[i] = seq[m] /\ k[j] = seq[n] /\ m < n) => i < j
    <2>1. \A i \in DOMAIN k, m \in DOMAIN seq : k[i] = seq[m] => src[i] = m
      BY <1>4, <1>6 DEF IsInjective
    <2>2. \A i, j \in DOMAIN k : src[i] = src[j] => i = j
      BY <1>3, <1>4
    <2>3. ASSUME NEW i \in DOMAIN k, NEW j \in DOMAIN k, k[i] = k[j] PROVE i = j
      BY <1>4, <2>1, <2>2, <2>3
    <2>4. ASSUME NEW i \in DOMAIN k, NEW j \in DOMAIN k, src[i] < src[j] PROVE i < j
      <3>1. CASE j < i
        BY <1>3, <1>4, <2>4, <3>1
      <3>2. CASE j = i
        BY <1>3, <1>4, <2>4, <3>2
      <3> QED
        BY <1>3, <3>1, <3>2
    <2> QED
      BY <2>1, <2>3, <2>4 DEF IsInjective
  <1> QED
    BY <1>1, <1>5, <1>6 DEF k

LEMMA ConcatFacts ==
  ASSUME NEW E, NEW a \in Seq(E), NEW b \in Seq(E)
  PROVE  /\ a \o b \in Seq(E) /\ ToSet(a \o b) = ToSet(a) \cup ToSet(b)
         /\ Len(a \o b) = Len(a) + Len(b) /\ Len(a) \in Nat /\ Len(b) \in Nat
         /\ \A i \in 1 .. Len(a) : (a \o b)[i] = a[i]
         /\ \A i \in 1 .. Len(b) : (a \o b)[Len(a) + i] = b[i]
         /\ (IsInjective(a) /\ IsInjective(b) /\ ToSet(a) \cap ToSet(b) = {}) => IsInjective(a \o b)
  <1> DEFINE c == a \o b
             m == Len(a)
             n == Len(b)
  <1>1. /\ c \in Seq(E) /\ m \in Nat /\ n \in Nat /\ Len(c) = m + n
        /\ DOMAIN a = 1 .. m /\ DOMAIN b = 1 .. n /\ DOMAIN c = 1 .. m + n
        /\ \A i \in 1 .. m : c[i] = a[i]
        /\ \A i \in 1 .. m + n : i > m => i - m \in 1 .. n /\ c[i] = b[i - m]
    OBVIOUS
  <1> HIDE DEF c, m, n
  <1>2. \A i \in 1 .. n : m + i \in 1 .. m + n /\ m + i > m /\ (m + i) - m = i
    BY <1>1
  <1>3. \A i \in 1 .. n : c[m + i] = b[i]
    BY <1>1, <1>2
  <1>4. \A i \in 1 .. m : i \in 1 .. m + n
    BY <1>1
  <1>5. \A i \in 1 .. m + n : i \in 1 .. m \/ i > m
    BY <1>1
  <1>6. ToSet(c) = ToSet(a) \cup ToSet(b)
    <2>1. ASSUME NEW x \in ToSet(c) PROVE x \in ToSet(a) \cup ToSet(b)
      <3>1. PICK i \in 1 .. m + n : x = c[i]
        BY <1>1 DEF ToSet
      <3> QED
        BY <1>1, <1>5, <3>1 DEF ToSet
    <2>2. ASSUME NEW x \in ToSet(a) PROVE x \in ToSet(c)
      BY <1>1, <1>4 DEF ToSet
    <2>3. ASSUME NEW x \in ToSet(b) PROVE x \in ToSet(c)
      <3>1. PICK i \in 1 .. n : x = b[i]
        BY <1>1 DEF ToSet
      <3> QED
        BY <1>1, <1>2, <1>3, <3>1 DEF ToSet
    <2> QED
      BY <2>1, <2>2, <2>3
  <1>7. ASSUME IsInjective(a), IsInjective(b), ToSet(a) \cap ToSet(b) = {} PROVE IsInjective(c)
    <2> SUFFICES ASSUME NEW i \in 1 .. m + n, NEW j \in 1 .. m + n, c[i] = c[j] PROVE i = j
      BY <1>1 DEF IsInjective
    <2>1. CASE i \in 1 .. m /\ j \in 1 .. m
      BY <1>1, <1>7, <2>1 DEF IsInjective
    <2>2. CASE i > m /\ j > m
      <3>1. i - m \in 1 .. n /\ j - m \in 1 .. n /\ b[i - m] = b[j - m]
        BY <1>1, <2>2
      <3>2. i - m = j - m
        BY <1>1, <1>7, <3>1 DEF IsInjective
      <3> QED
        BY <1>1, <3>2
    <2>3. ASSUME NEW s \in 1 .. m, NEW t \in 1 .. m + n, t > m PROVE c[s] # c[t]
      <3>1. c[s] \in ToSet(a) /\ c[t] \in ToSet(b)
        BY <1>1, <2>3 DEF ToSet
      <3> QED
        BY <1>7, <3>1
    <2> QED
      BY <1>5, <2>1, <2>2, <2>3
  <1> QED
    BY <1>1, <1>3, <1>6, <1>7 DEF c, m, n

LEMMA AppendFacts ==
  ASSUME NEW E, NEW a \in Seq(E), NEW x \in E
  PROVE  /\ Append(a, x) \in Seq(E) /\ ToSet(Append(a, x)) = ToSet(a) \cup {x}
         /\ Len(Append(a, x)) = Len(a) + 1 /\ Append(a, x)[Len(a) + 1] = x
         /\ \A i \in 1 .. Len(a) : Append(a, x)[i] = a[i]
         /\ (IsInjective(a) /\ x \notin ToSet(a)) => IsInjective(Append(a, x))
  <1> DEFINE c == Append(a, x)
             m == Len(a)
  <1>1. /\ c \in Seq(E) /\ m \in Nat /\ Len(c) = m + 1 /\ DOMAIN a = 1 .. m /\ DOMAIN c = 1 .. m + 1
        /\ c[m + 1] = x /\ \A i \in 1 .. m : c[i] = a[i]
    OBVIOUS
  <1> HIDE DEF c, m
  <1>2. \A i \in 1 .. m + 1 : i \in 1 .. m \/ i = m + 1
    BY <1>1
  <1>3. m + 1 \in 1 .. m + 1 /\ \A i \in 1 .. m : i \in 1 .. m + 1
    BY <1>1
  <1>4. ToSet(c) = ToSet(a) \cup {x}
    <2>1. \A y \in ToSet(c) : y \in ToSet(a) \cup {x}
      BY <1>1, <1>2 DEF ToSet
    <2>2. \A y \in ToSet(a) : y \in ToSet(c)
      BY <1>1, <1>3 DEF ToSet
    <2>3. x \in ToSet(c)
      BY <1>1, <1>3 DEF ToSet
    <2> QED
      BY <2>1, <2>2, <2>3
  <1>5. ASSUME IsInjective(a), x \notin ToSet(a) PROVE IsInjective(c)
    <2>1. \A i \in 1 .. m : c[i] # x
      BY <1>1, <1>5 DEF ToSet
    <2>2. \A i, j \in 1 .. m : c[i] = c[j] => i = j
      BY <1>1, <1>5 DEF IsInjective
    <2>3. \A i, j \in 1 .. m + 1 : c[i] = c[j] => i = j
      BY <1>1, <1>2, <2>1, <2>2
    <2> QED
      BY <1>1, <2>3 DEF IsInjective
  <1> QED
    BY <1>1, <1>4, <1>5 DEF c, m

LEMMA TailFacts ==
  ASSUME NEW E, NEW a \in Seq(E), a # <<>>
  PROVE  /\ Head(a) \in E /\ Head(a) \in ToSet(a) /\ Tail(a) \in Seq(E)
         /\ ToSet(a) = {Head(a)} \cup ToSet(Tail(a))
         /\ IsInjective(a) => IsInjective(Tail(a)) /\ Head(a) \notin ToSet(Tail(a))
  <1> DEFINE c == Tail(a)
             m == Len(a)
  <1>1. /\ c \in Seq(E) /\ m \in Nat /\ m >= 1 /\ DOMAIN a = 1 .. m /\ DOMAIN c = 1 .. m - 1
        /\ Head(a) = a[1] /\ \A i \in 1 .. m - 1 : c[i] = a[i + 1]
        /\ a[1] \in E
    OBVIOUS
  <1> HIDE DEF c, m
  <1>2. 1 \in 1 .. m /\ \A i \in 1 .. m - 1 : i + 1 \in 1 .. m /\ i + 1 # 1
    BY <1>1
  <1>3. \A i \in 1 .. m : i = 1 \/ (i - 1 \in 1 .. m - 1 /\ (i - 1) + 1 = i)
    BY <1>1
  <1>4. ToSet(a) = {a[1]} \cup ToSet(c)
    <2>1. ASSUME NEW y \in ToSet(c) PROVE y \in ToSet(a)
      <3>1. PICK i \in 1 .. m - 1 : y = c[i]
        BY <1>1 DEF ToSet
      <3>2. i + 1 \in DOMAIN a /\ y = a[i + 1]
        BY <1>1, <1>2, <3>1
      <3> QED
        BY <3>2 DEF ToSet
    <2>2. a[1] \in ToSet(a)
      BY <1>1, <1>2 DEF ToSet
    <2>3. ASSUME NEW y \in ToSet(a) PROVE y = a[1] \/ y \in ToSet(c)
      <3>1. PICK i \in 1 .. m : y = a[i]
        BY <1>1 DEF ToSet
      <3>2. i # 1 => c[i - 1] = y
        BY <1>1, <1>3, <3>1
      <3> QED
        BY <1>1, <1>3, <3>1, <3>2 DEF ToSet
    <2> QED
      BY <2>1, <2>2, <2>3
  <1>5. ASSUME IsInjective(a) PROVE IsInjective(c) /\ a[1] \notin ToSet(c)
    <2>1. ASSUME NEW i \in 1 .. m - 1, NEW j \in 1 .. m - 1, c[i] = c[j] PROVE i = j
      <3>1. a[i + 1] = a[j + 1]
        BY <1>1, <2>1
      <3>2. i + 1 = j + 1
        BY <1>1, <1>2, <1>5, <3>1 DEF IsInjective
      <3> QED
        BY <1>1, <3>2
    <2>2. \A i \in 1 .. m - 1 : c[i] # a[1]
      BY <1>1, <1>2, <1>5 DEF IsInjective
    <2> QED
      BY <1>1, <2>1, <2>2 DEF ToSet, IsInjective
  <1> QED
    BY <1>1, <1>4, <1>5 DEF c, m

-----------------------------------------------------------------------------
(* The order of creation *)

\* The entities can be created one after the other: no references lead back to where they came
\* from, which config/validator.go:239 (detectCircularRefs) refuses.
Creatable ==
    \E rank \in [DOMAIN Entities -> Nat] : \A e \in DOMAIN Entities : \A r \in Deps(e) : rank[r] < rank[e]

\* Everything stands behind what it depends on.
Behind(seq) == \A i \in DOMAIN seq : \A r \in Deps(seq[i]) : \E j \in DOMAIN seq : j < i /\ seq[j] = r

\* What holds after n turns of Kahn's algorithm.
Sorting(s, n) ==
    /\ DOMAIN s = {"queue", "sorted"} /\ s.queue \in Seq(DOMAIN Entities) /\ s.sorted \in Seq(DOMAIN Entities)
    /\ IsInjective(s.queue) /\ IsInjective(s.sorted) /\ ToSet(s.queue) \cap ToSet(s.sorted) = {}
    /\ \A e \in ToSet(s.queue) : Deps(e) \subseteq ToSet(s.sorted)
    /\ \A e \in DOMAIN Entities : Deps(e) \subseteq ToSet(s.sorted) => e \in ToSet(s.sorted) \cup ToSet(s.queue)
    /\ Behind(s.sorted)
    /\ s.queue = <<>> \/ Len(s.sorted) = n

LEMMA DepsFact ==
  ASSUME NEW e \in DOMAIN Entities
  PROVE  Deps(e) \subseteq DOMAIN Entities /\ e \notin Deps(e) /\ Deps(e) = Entities[e].refs \ {e}
  BY SchemaAssumption DEF Deps

LEMMA OrderFacts ==
  ASSUME NEW order \in Orders
  PROVE  /\ order \in Seq(DOMAIN Entities) /\ IsInjective(order) /\ ToSet(order) = DOMAIN Entities
         /\ Len(order) = Cardinality(DOMAIN Entities) /\ Len(order) \in Nat
  <1> DEFINE E == DOMAIN Entities
             N == Cardinality(E)
  <1>1. IsFiniteSet(E) /\ N \in Nat
    BY SchemaAssumption, FS_CardinalityType
  <1>2. order \in [1 .. N -> E] /\ \A i, j \in 1 .. N : i # j => order[i] # order[j]
    BY DEF Orders
  <1> HIDE DEF N, E
  <1>3. order \in Seq(E) /\ Len(order) = N /\ DOMAIN order = 1 .. N
    BY <1>1, <1>2
  <1>4. order \in Injection(1 .. N, E)
    BY <1>2 DEF Injection, IsInjective
  <1>5. Cardinality(1 .. N) = N
    BY <1>1, FS_Interval
  <1>6. order \in Surjection(1 .. N, E)
    BY <1>1, <1>4, <1>5, FS_Injection DEF N
  <1>7. \A e \in E : \E i \in 1 .. N : order[i] = e
    BY <1>6 DEF Surjection
  <1>8. ToSet(order) = E
    BY <1>2, <1>3, <1>7 DEF ToSet
  <1>9. IsInjective(order)
    BY <1>2, <1>3 DEF IsInjective
  <1> QED
    BY <1>1, <1>3, <1>8, <1>9 DEF N, E

\* A turn of the algorithm keeps what holds after the turns before it.
LEMMA TurnSorts ==
  ASSUME NEW order \in Orders, NEW n \in Nat, NEW s, Sorting(s, n)
  PROVE  Sorting(Turn(order, s), n + 1)
  <1> DEFINE E == DOMAIN Entities
             q == s.queue
             o == s.sorted
             name == Head(q)
             done == ToSet(o) \cup {name}
             fresh == {e \in E : name \in Deps(e) /\ Deps(e) \subseteq done}
             new == Only(order, fresh)
             t == Turn(order, s)
  <1>1. CASE q = <<>>
    BY <1>1 DEF Turn, Sorting
  <1>2. CASE q # <<>>
    <2>1. /\ q \in Seq(E) /\ o \in Seq(E) /\ IsInjective(q) /\ IsInjective(o) /\ ToSet(q) \cap ToSet(o) = {}
          /\ \A e \in ToSet(q) : Deps(e) \subseteq ToSet(o)
          /\ \A e \in E : Deps(e) \subseteq ToSet(o) => e \in ToSet(o) \cup ToSet(q)
          /\ Behind(o) /\ Len(o) = n
      BY <1>2 DEF Sorting
    <2>2. /\ name \in E /\ name \in ToSet(q) /\ Tail(q) \in Seq(E) /\ ToSet(q) = {name} \cup ToSet(Tail(q))
          /\ IsInjective(Tail(q)) /\ name \notin ToSet(Tail(q))
      BY <1>2, <2>1, TailFacts
    <2>3. order \in Seq(E) /\ IsInjective(order) /\ ToSet(order) = E
      BY OrderFacts
    <2>4. new \in Seq(E) /\ ToSet(new) = fresh /\ IsInjective(new)
      <3>1. fresh \subseteq E
        OBVIOUS
      <3> HIDE DEF fresh, E
      <3> QED
        BY <2>3, <3>1, OnlyFacts
    <2>5. t.queue = Tail(q) \o new /\ t.sorted = Append(o, name) /\ DOMAIN t = {"queue", "sorted"}
      BY <1>2 DEF Turn
    <2>6. Deps(name) \subseteq ToSet(o) /\ name \notin ToSet(o)
      BY <2>1, <2>2
    <2>7. \A e \in E : Deps(e) \subseteq E /\ e \notin Deps(e)
      BY DepsFact
    <2>8. \A e \in ToSet(o) : Deps(e) \subseteq ToSet(o)
      BY <2>1 DEF Behind, ToSet
    <2>9. ToSet(Tail(q)) \cap fresh = {}
      BY <2>1, <2>2, <2>6
    <2>10. ToSet(o) \cap fresh = {} /\ name \notin fresh
      BY <2>6, <2>7, <2>8
    <2>11. fresh \subseteq E /\ \A e \in fresh : name \in Deps(e) /\ Deps(e) \subseteq done
      OBVIOUS
    <2>12. \A e \in E : Deps(e) \subseteq done => Deps(e) \subseteq ToSet(o) \/ e \in fresh
      OBVIOUS
    <2> HIDE DEF t, new, fresh, o, q, name, E
    <2>13. t.queue \in Seq(E) /\ ToSet(t.queue) = ToSet(Tail(q)) \cup fresh /\ IsInjective(t.queue)
      <3> DEFINE rest == Tail(q)
      <3>1. rest \in Seq(E) /\ new \in Seq(E) /\ IsInjective(rest) /\ IsInjective(new) /\ ToSet(rest) \cap ToSet(new) = {}
        BY <2>2, <2>4, <2>9
      <3> HIDE DEF rest
      <3>2. rest \o new \in Seq(E) /\ ToSet(rest \o new) = ToSet(rest) \cup ToSet(new) /\ IsInjective(rest \o new)
        BY <3>1, ConcatFacts
      <3> QED
        BY <2>4, <2>5, <3>2 DEF rest
    <2>14. /\ t.sorted \in Seq(E) /\ ToSet(t.sorted) = done /\ IsInjective(t.sorted) /\ Len(t.sorted) = n + 1
           /\ t.sorted[n + 1] = name /\ \A i \in 1 .. n : t.sorted[i] = o[i]
      BY <2>1, <2>2, <2>5, <2>6, AppendFacts
    <2>15. Behind(t.sorted)
      <3>1. DOMAIN t.sorted = 1 .. n + 1 /\ DOMAIN o = 1 .. n
        BY <2>1, <2>14
      <3>2. ASSUME NEW i \in 1 .. n + 1, NEW r \in Deps(t.sorted[i])
            PROVE  \E j \in 1 .. n + 1 : j < i /\ t.sorted[j] = r
        <4>1. CASE i \in 1 .. n
          <5>1. PICK j \in 1 .. n : j < i /\ o[j] = r
            BY <2>1, <2>14, <3>1, <3>2, <4>1 DEF Behind
          <5> QED
            BY <2>14, <5>1
        <4>2. CASE i = n + 1
          <5>1. PICK j \in 1 .. n : o[j] = r
            BY <2>6, <2>14, <3>1, <3>2, <4>2 DEF ToSet
          <5> QED
            BY <2>14, <4>2, <5>1
        <4> QED
          BY <4>1, <4>2
      <3> QED
        BY <3>1, <3>2 DEF Behind
    <2>16. ToSet(t.queue) \cap ToSet(t.sorted) = {}
      BY <2>1, <2>2, <2>9, <2>10, <2>13, <2>14
    <2>17. \A e \in ToSet(t.queue) : Deps(e) \subseteq ToSet(t.sorted)
      BY <2>1, <2>2, <2>11, <2>13, <2>14
    <2>18. \A e \in E : Deps(e) \subseteq ToSet(t.sorted) => e \in ToSet(t.sorted) \cup ToSet(t.queue)
      BY <2>1, <2>2, <2>12, <2>13, <2>14
    <2>19. Sorting(t, n + 1)
      BY <2>5, <2>13, <2>14, <2>15, <2>16, <2>17, <2>18 DEF Sorting, E
    <2> QED
      BY <2>19 DEF t
  <1> QED
    BY <1>1, <1>2

\* How the algorithm proceeds.
Passes(pass, order) ==
    /\ pass[0] = [queue |-> Only(order, {e \in DOMAIN Entities : Deps(e) = {}}), sorted |-> <<>>]
    /\ \A n \in 1 .. Len(order) : pass[n] = Turn(order, pass[n-1])
    /\ TopoSortEntities(order) =
         pass[Len(order)].sorted \o Only(order, DOMAIN Entities \ ToSet(pass[Len(order)].sorted))

LEMMA FirstSorting ==
  ASSUME NEW order \in Orders
  PROVE  Sorting([queue |-> Only(order, {e \in DOMAIN Entities : Deps(e) = {}}), sorted |-> <<>>], 0)
  <1> DEFINE E == DOMAIN Entities
             free == {e \in E : Deps(e) = {}}
             q == Only(order, free)
             s == [queue |-> q, sorted |-> <<>>]
  <1>1. order \in Seq(E) /\ IsInjective(order) /\ ToSet(order) = E
    BY OrderFacts
  <1>2. free \subseteq E /\ \A e \in E : e \in free <=> Deps(e) = {}
    OBVIOUS
  <1> HIDE DEF E, free
  <1>3. q \in Seq(E) /\ ToSet(q) = free /\ IsInjective(q)
    <2>1. q \in Seq(E) /\ ToSet(q) = ToSet(order) \cap free /\ IsInjective(q)
      BY <1>1, OnlyFacts
    <2> QED
      BY <1>1, <1>2, <2>1
  <1> HIDE DEF q
  <1>4. <<>> \in Seq(E) /\ ToSet(<<>>) = {} /\ IsInjective(<<>>) /\ Len(<<>>) = 0
    BY DEF ToSet, IsInjective
  <1>5. Behind(<<>>)
    BY DEF Behind
  <1>6. s.queue = q /\ s.sorted = <<>> /\ DOMAIN s = {"queue", "sorted"}
    OBVIOUS
  <1> HIDE DEF s
  <1>7. Sorting(s, 0)
    BY <1>2, <1>3, <1>4, <1>5, <1>6 DEF Sorting, E
  <1> QED
    BY <1>7 DEF s, q, free, E

LEMMA PassesExist ==
  ASSUME NEW order \in Orders
  PROVE  \E pass : Passes(pass, order)
  <1> DEFINE N == Len(order)
             X == [queue : Seq(DOMAIN Entities), sorted : Seq(DOMAIN Entities)]
             base == [queue |-> Only(order, {e \in DOMAIN Entities : Deps(e) = {}}), sorted |-> <<>>]
             G == [u \in (1 .. N) \X X |-> Turn(order, u[2])]
             Is(d) == d = [n \in 0 .. N |-> IF n = 0 THEN base ELSE Turn(order, d[n-1])]
             pass == CHOOSE d : Is(d)
  <1>1. N \in Nat /\ base \in X
    <2>1. order \in Seq(DOMAIN Entities)
      BY OrderFacts
    <2>2. Only(order, {e \in DOMAIN Entities : Deps(e) = {}}) \in Seq(DOMAIN Entities)
      BY <2>1, OnlyFacts
    <2> QED
      BY <2>1, <2>2
  <1>2. \A s \in X : Turn(order, s) \in X
    <2> TAKE s \in X
    <2> DEFINE E == DOMAIN Entities
               fresh == {e \in E : Head(s.queue) \in Deps(e) /\ Deps(e) \subseteq ToSet(s.sorted) \cup {Head(s.queue)}}
    <2>1. CASE s.queue = <<>>
      BY <2>1 DEF Turn
    <2>2. CASE s.queue # <<>>
      <3>1. s.queue \in Seq(E) /\ s.sorted \in Seq(E) /\ order \in Seq(E)
        BY OrderFacts
      <3>2. Turn(order, s) = [queue |-> Tail(s.queue) \o Only(order, fresh), sorted |-> Append(s.sorted, Head(s.queue))]
        BY <2>2 DEF Turn
      <3> HIDE DEF fresh, E
      <3>3. Only(order, fresh) \in Seq(E)
        BY <3>1, OnlyFacts
      <3>4. Head(s.queue) \in E /\ Tail(s.queue) \in Seq(E)
        BY <2>2, <3>1, TailFacts
      <3>5. Tail(s.queue) \o Only(order, fresh) \in Seq(E) /\ Append(s.sorted, Head(s.queue)) \in Seq(E)
        BY <3>1, <3>3, <3>4
      <3> QED
        BY <3>2, <3>5 DEF E
    <2> QED
      BY <2>1, <2>2
  <1>3. G \in [(1 .. N) \X X -> X]
    <2> HIDE DEF X
    <2>1. \A u \in (1 .. N) \X X : u[2] \in X
      OBVIOUS
    <2> QED
      BY <1>2, <2>1
  <1>4. PICK d : Loops(d, N, X, base, G)
    <2>1. Loop(N, X, base, G)
      BY <1>1, <1>3 DEF Loop
    <2> HIDE DEF N, X, base, G
    <2> QED
      BY <2>1, LoopIs
  <1>5. \A n \in 1 .. N : d[n] = Turn(order, d[n-1])
    <2> TAKE n \in 1 .. N
    <2> HIDE DEF X, base
    <2>1. n - 1 \in 0 .. N
      BY <1>1
    <2>2. d[n-1] \in X /\ d[n] = G[<<n, d[n-1]>>]
      <3> HIDE DEF G, N
      <3> QED
        BY <1>4, <2>1 DEF Loops
    <2>3. \A s \in X : G[<<n, s>>] = Turn(order, s)
      OBVIOUS
    <2> QED
      BY <2>2, <2>3
  <1>6. Is(d)
    <2>1. ASSUME NEW n \in 0 .. N PROVE d[n] = IF n = 0 THEN base ELSE Turn(order, d[n-1])
      <3>1. n = 0 \/ n \in 1 .. N
        BY <1>1
      <3> HIDE DEF base
      <3> QED
        BY <1>4, <1>5, <3>1 DEF Loops
    <2> HIDE DEF N, G, X, base
    <2> QED
      BY <1>4, <2>1 DEF Loops
  <1>7. Is(pass)
    <2> HIDE DEF Is
    <2> QED
      BY <1>6
  <1>8. TopoSortEntities(order) = pass[N].sorted \o Only(order, DOMAIN Entities \ ToSet(pass[N].sorted))
    <2> HIDE DEF G, X
    <2> QED
      BY DEF TopoSortEntities
  <1> DEFINE k == pass
  <1>9. k = [n \in 0 .. N |-> IF n = 0 THEN base ELSE Turn(order, k[n-1])]
    BY <1>7
  <1>10. TopoSortEntities(order) = k[N].sorted \o Only(order, DOMAIN Entities \ ToSet(k[N].sorted))
    BY <1>8
  <1> HIDE DEF k, pass, Is, G, X
  <1>11. k[0] = base /\ \A n \in 1 .. N : k[n] = Turn(order, k[n-1])
    <2>1. 0 \in 0 .. N /\ \A n \in 1 .. N : n \in 0 .. N /\ n # 0
      BY <1>1
    <2> HIDE DEF base, N
    <2> QED
      BY <1>9, <2>1
  <1>12. Passes(k, order)
    BY <1>10, <1>11 DEF Passes
  <1> QED
    BY <1>12

\* The sorted list has every entity once, and if they can be created at all, each after what it refers to.
LEMMA TopoFacts ==
  ASSUME NEW order \in Orders
  PROVE  /\ TopoSortEntities(order) \in Seq(DOMAIN Entities) /\ IsInjective(TopoSortEntities(order))
         /\ ToSet(TopoSortEntities(order)) = DOMAIN Entities
         /\ Creatable => Behind(TopoSortEntities(order))
  <1> DEFINE E == DOMAIN Entities
             N == Len(order)
  <1>1. PICK pass : Passes(pass, order)
    BY PassesExist
  <1>2. /\ order \in Seq(E) /\ IsInjective(order) /\ ToSet(order) = E
        /\ N = Cardinality(E) /\ N \in Nat /\ IsFiniteSet(E)
    BY OrderFacts, SchemaAssumption
  <1> DEFINE T == {n \in Nat : n <= N => Sorting(pass[n], n)}
  <1>3. 0 \in T
    BY <1>1, FirstSorting DEF Passes
  <1>4. ASSUME NEW n \in Nat, n \in T PROVE n + 1 \in T
    <2> SUFFICES ASSUME n + 1 <= N PROVE Sorting(pass[n + 1], n + 1)
      OBVIOUS
    <2>1. n + 1 \in 1 .. N /\ (n + 1) - 1 = n /\ Sorting(pass[n], n)
      BY <1>2, <1>4
    <2>2. pass[n + 1] = Turn(order, pass[n])
      BY <1>1, <2>1 DEF Passes
    <2> QED
      BY <2>1, <2>2, TurnSorts
  <1>5. N \in T
    <2> HIDE DEF T, N
    <2> QED
      BY <1>2, <1>3, <1>4, AllNumbers
  <1> DEFINE o == pass[N].sorted
             left == E \ ToSet(o)
             rest == Only(order, left)
  <1>6. Sorting(pass[N], N)
    BY <1>2, <1>5
  <1>7. TopoSortEntities(order) = o \o rest
    BY <1>1 DEF Passes
  <1> HIDE DEF N, E
  <1>8. o \in Seq(E) /\ IsInjective(o)
    BY <1>6 DEF Sorting, E
  <1>9. ToSet(o) \subseteq E
    BY <1>8 DEF ToSet
  <1>10. rest \in Seq(E) /\ ToSet(rest) = left /\ IsInjective(rest)
    <2>1. left \subseteq E
      OBVIOUS
    <2> HIDE DEF left
    <2>2. rest \in Seq(E) /\ ToSet(rest) = ToSet(order) \cap left /\ IsInjective(rest)
      BY <1>2, OnlyFacts
    <2> QED
      BY <1>2, <2>1, <2>2
  <1>11. o \o rest \in Seq(E) /\ ToSet(o \o rest) = E /\ IsInjective(o \o rest)
    <2>1. ToSet(o) \cap left = {} /\ ToSet(o) \cup left = E
      BY <1>9
    <2> HIDE DEF o, rest, left
    <2>2. ToSet(o) \cap ToSet(rest) = {}
      BY <1>10, <2>1
    <2>3. o \o rest \in Seq(E) /\ ToSet(o \o rest) = ToSet(o) \cup ToSet(rest) /\ IsInjective(o \o rest)
      BY <1>8, <1>10, <2>2, ConcatFacts
    <2> QED
      BY <1>10, <2>1, <2>3
  <1>12. pass[N].queue = <<>>
    <2> SUFFICES ASSUME pass[N].queue # <<>> PROVE FALSE
      OBVIOUS
    <2>1. Len(o) = N /\ DOMAIN o = 1 .. N
      BY <1>6, <1>8 DEF Sorting
    <2>2. o \in Injection(1 .. N, E)
      BY <1>8, <2>1 DEF Injection
    <2>3. Cardinality(1 .. N) = N
      BY <1>2, FS_Interval
    <2>4. o \in Surjection(1 .. N, E)
      <3> HIDE DEF o
      <3> QED
        BY <1>2, <2>2, <2>3, FS_Injection
    <2>5. E \subseteq ToSet(o)
      BY <2>1, <2>4 DEF Surjection, ToSet
    <2> DEFINE e == Head(pass[N].queue)
    <2>6. e \in E /\ e \in ToSet(pass[N].queue)
      BY <1>6, TailFacts DEF Sorting, E
    <2> QED
      BY <1>6, <2>5, <2>6 DEF Sorting
  <1>13. ASSUME Creatable PROVE Behind(o \o rest)
    <2>1. PICK rank \in [E -> Nat] : \A e \in E : \A r \in Deps(e) : rank[r] < rank[e]
      BY <1>13 DEF Creatable, E
    <2>2. left = {}
      <3> SUFFICES ASSUME left # {} PROVE FALSE
        OBVIOUS
      <3> DEFINE R == {rank[e] : e \in left}
      <3>1. R \in SUBSET Nat /\ R # {}
        OBVIOUS
      <3>2. PICK m \in R : \A l \in R : m <= l
        <4> HIDE DEF R
        <4> QED
          BY <3>1, LeastNumber
      <3>3. PICK e \in left : rank[e] = m
        OBVIOUS
      <3>4. Deps(e) \subseteq E
        BY DepsFact DEF E
      <3>5. Deps(e) \subseteq ToSet(o)
        <4> SUFFICES ASSUME NEW r \in Deps(e), r \in left PROVE FALSE
          BY <3>4
        <4>1. rank[r] < rank[e] /\ rank[r] \in R /\ rank[r] \in Nat /\ rank[e] \in Nat
          BY <2>1, <3>4
        <4> QED
          BY <3>2, <3>3, <4>1
      <3>6. ToSet(pass[N].queue) = {}
        BY <1>12 DEF ToSet
      <3> QED
        BY <1>6, <3>5, <3>6 DEF Sorting, E
    <2>3. rest = <<>>
      <3> HIDE DEF rest, left
      <3>1. ToSet(rest) = {}
        BY <1>10, <2>2
      <3>2. Len(rest) \in Nat /\ DOMAIN rest = 1 .. Len(rest)
        BY <1>10
      <3>3. ~(1 \in DOMAIN rest)
        BY <3>1 DEF ToSet
      <3> QED
        BY <1>10, <3>2, <3>3
    <2>4. o \o rest = o
      <3> HIDE DEF o, rest
      <3> QED
        BY <1>8, <2>3
    <2> QED
      BY <1>6, <2>4 DEF Sorting
  <1> QED
    BY <1>7, <1>11, <1>13 DEF E

-----------------------------------------------------------------------------
(* The plan *)

\* The statements of a plan, the objects one of them adds, and the tables it needs for that.
Proper(s) ==
    CASE s.do = "create" -> s.cols = Columns(s.entity)
      [] s.do = "add" -> \E c \in Columns(s.entity) : s.cols = {c}
      [] OTHER -> \E c \in Indexes(s.entity) : s.cols = {c}
Planned ==
    {s \in [do : {"create", "add", "index"}, entity : DOMAIN Entities,
            cols : SUBSET UNION {Columns(e) \cup Indexes(e) : e \in DOMAIN Entities}] : Proper(s)}
Adding(s) == ColumnsOf(s.entity, s.cols) \cup (IF s.do = "create" THEN {Table(s.entity)} ELSE {})
Needs(s) == IF s.do = "create" THEN {Table(r) : r \in Deps(s.entity)} ELSE {Table(s.entity)}

\* A statement adds what was not seen, and a column to a table that was.
Apt(s, saw) ==
    /\ s.do = "create" => Table(s.entity) \notin saw
    /\ s.do = "add" => Table(s.entity) \in saw
    /\ s.do # "create" => Adding(s) \cap saw = {}

Apart(seq) == \A i, j \in DOMAIN seq : i # j => Adding(seq[i]) \cap Adding(seq[j]) = {}
Added(set, x) == \E s \in set : x \in Adding(s)
Earlier(seq, i, x) == \E j \in DOMAIN seq : j < i /\ x \in Adding(seq[j])

\* A list of statements of which each finds what it needs, if those before it are run first.
Fits(seq, saw, before) ==
    /\ seq \in Seq(Planned) /\ Apart(seq)
    /\ \A s \in ToSet(seq) : Apt(s, saw)
    /\ \A i \in DOMAIN seq : \A x \in Needs(seq[i]) : x \in saw \/ Added(before, x) \/ Earlier(seq, i, x)

ObjectsOf(e) == {Table(e)} \cup ColumnsOf(e, Columns(e) \cup Indexes(e))

LEMMA NamesFact ==
  ASSUME NEW e \in DOMAIN Entities
  PROVE  /\ Entities[e].cols \in Seq(Columns(e)) /\ IsInjective(Entities[e].cols) /\ "table" \notin Columns(e)
         /\ Entities[e].indexes \in Seq(Indexes(e)) /\ IsInjective(Entities[e].indexes) /\ "table" \notin Indexes(e)
  <1>1. \A names \in {Entities[e].cols, Entities[e].indexes} :
           names \in Seq(ToSet(names)) /\ IsInjective(names) /\ "table" \notin ToSet(names)
    BY SchemaAssumption
  <1> QED
    BY <1>1 DEF Columns, Indexes

LEMMA PlannedIs ==
  ASSUME NEW e \in DOMAIN Entities
  PROVE  /\ Stmt("create", e, Columns(e)) \in Planned
         /\ \A c \in Columns(e) : Stmt("add", e, {c}) \in Planned
         /\ \A c \in Indexes(e) : Stmt("index", e, {c}) \in Planned
  <1> DEFINE Names == UNION {Columns(f) \cup Indexes(f) : f \in DOMAIN Entities}
  <1>1. Columns(e) \subseteq Names /\ Indexes(e) \subseteq Names
    OBVIOUS
  <1> HIDE DEF Names
  <1>2. Stmt("create", e, Columns(e)) \in [do : {"create", "add", "index"}, entity : DOMAIN Entities, cols : SUBSET Names]
    BY <1>1 DEF Stmt
  <1>3. \A c \in Columns(e) : Stmt("add", e, {c}) \in [do : {"create", "add", "index"}, entity : DOMAIN Entities, cols : SUBSET Names]
    BY <1>1 DEF Stmt
  <1>4. \A c \in Indexes(e) : Stmt("index", e, {c}) \in [do : {"create", "add", "index"}, entity : DOMAIN Entities, cols : SUBSET Names]
    BY <1>1 DEF Stmt
  <1>5. Proper(Stmt("create", e, Columns(e)))
    BY DEF Proper, Stmt
  <1>6. \A c \in Columns(e) : Proper(Stmt("add", e, {c}))
    BY DEF Proper, Stmt
  <1>7. \A c \in Indexes(e) : Proper(Stmt("index", e, {c}))
    BY DEF Proper, Stmt
  <1> QED
    BY <1>2, <1>3, <1>4, <1>5, <1>6, <1>7 DEF Planned, Names

LEMMA PlannedFacts ==
  ASSUME NEW s \in Planned
  PROVE  /\ s.do \in {"create", "add", "index"} /\ s.entity \in DOMAIN Entities
         /\ s.do = "create" => s.cols = Columns(s.entity)
         /\ s.do = "add" => \E c \in Columns(s.entity) : s.cols = {c}
         /\ s.do = "index" => \E c \in Indexes(s.entity) : s.cols = {c}
         /\ "table" \notin s.cols /\ Adding(s) # {}
         /\ \A r : Table(r) \in Adding(s) <=> s.do = "create" /\ s.entity = r
  <1>1. s.do \in {"create", "add", "index"} /\ s.entity \in DOMAIN Entities /\ Proper(s)
    BY DEF Planned
  <1>2. /\ s.do = "create" => s.cols = Columns(s.entity)
        /\ s.do = "add" => \E c \in Columns(s.entity) : s.cols = {c}
        /\ s.do = "index" => \E c \in Indexes(s.entity) : s.cols = {c}
    BY <1>1 DEF Proper
  <1>3. "table" \notin s.cols
    BY <1>1, <1>2, NamesFact
  <1>4. Adding(s) # {}
    <2>1. CASE s.do = "create"
      BY <2>1 DEF Adding
    <2>2. CASE s.do # "create"
      <3>1. PICK c : c \in s.cols
        BY <1>1, <1>2, <2>2
      <3>2. <<s.entity, c>> \in Adding(s)
        BY <3>1 DEF Adding, ColumnsOf
      <3> QED
        BY <3>2
    <2> QED
      BY <2>1, <2>2
  <1>5. \A r : Table(r) \in Adding(s) <=> s.do = "create" /\ s.entity = r
    BY <1>3 DEF Adding, ColumnsOf, Table
  <1> QED
    BY <1>1, <1>2, <1>3, <1>4, <1>5

\* One statement for each name that is missing.
LEMMA MissingFacts ==
  ASSUME NEW e \in DOMAIN Entities, NEW saw, NEW do, NEW names,
         (do = "add" /\ names = Entities[e].cols) \/ (do = "index" /\ names = Entities[e].indexes)
  PROVE  LET m == Missing(do, e, names, saw) IN
         /\ m \in Seq(Planned) /\ Apart(m)
         /\ \A s \in ToSet(m) : s.do = do /\ s.entity = e /\ Adding(s) \cap saw = {}
         /\ \A c \in ToSet(names) : <<e, c>> \in saw \/ Added(ToSet(m), <<e, c>>)
  <1> DEFINE want == {x \in ToSet(names) : <<e, x>> \notin saw}
             absent == Only(names, want)
             m == Missing(do, e, names, saw)
  <1>1. names \in Seq(ToSet(names)) /\ IsInjective(names)
    BY NamesFact DEF Columns, Indexes
  <1>2. /\ absent \in Seq(ToSet(names)) /\ ToSet(absent) = ToSet(names) \cap want /\ IsInjective(absent)
    <2> HIDE DEF want
    <2> QED
      BY <1>1, OnlyFacts
  <1>3. m = [j \in DOMAIN absent |-> Stmt(do, e, {absent[j]})]
    BY DEF Missing
  <1>4. DOMAIN absent = 1 .. Len(absent) /\ Len(absent) \in Nat
    BY <1>2
  <1>5. \A c : c \in want <=> c \in ToSet(names) /\ <<e, c>> \notin saw
    OBVIOUS
  <1> HIDE DEF absent, m, want
  <1>6. \A j \in DOMAIN absent : absent[j] \in want /\ absent[j] \in ToSet(names)
    BY <1>2 DEF ToSet
  <1>7. \A c \in ToSet(names) : Stmt(do, e, {c}) \in Planned
    BY PlannedIs DEF Columns, Indexes
  <1>8. m \in Seq(Planned) /\ DOMAIN m = DOMAIN absent
    BY <1>3, <1>4, <1>6, <1>7
  <1>9. do # "create"
    OBVIOUS
  <1>10. \A c : Adding(Stmt(do, e, {c})) = {<<e, c>>}
    BY <1>9 DEF Adding, Stmt, ColumnsOf
  <1>11. \A j \in DOMAIN m : m[j] = Stmt(do, e, {absent[j]}) /\ Adding(m[j]) = {<<e, absent[j]>>}
    BY <1>3, <1>8, <1>10
  <1>12. Apart(m)
    <2> SUFFICES ASSUME NEW i \in DOMAIN m, NEW j \in DOMAIN m, i # j PROVE Adding(m[i]) \cap Adding(m[j]) = {}
      BY DEF Apart
    <2>1. absent[i] # absent[j]
      BY <1>2, <1>8 DEF IsInjective
    <2>2. <<e, absent[i]>> # <<e, absent[j]>>
      BY <2>1
    <2> QED
      BY <1>11, <2>2
  <1>13. \A s \in ToSet(m) : s.do = do /\ s.entity = e /\ Adding(s) \cap saw = {}
    BY <1>5, <1>6, <1>8, <1>11 DEF ToSet, Stmt
  <1>14. ASSUME NEW c \in ToSet(names), <<e, c>> \notin saw PROVE Added(ToSet(m), <<e, c>>)
    <2>1. c \in ToSet(absent)
      BY <1>2, <1>5, <1>14
    <2>2. PICK j \in DOMAIN absent : absent[j] = c
      BY <2>1 DEF ToSet
    <2>3. m[j] \in ToSet(m) /\ <<e, c>> \in Adding(m[j])
      BY <1>8, <1>11, <2>2 DEF ToSet
    <2> QED
      BY <2>3 DEF Added
  <1> QED
    BY <1>8, <1>12, <1>13, <1>14 DEF m

\* Two lists that fit, one after the other.
LEMMA JoinFits ==
  ASSUME NEW saw, NEW before, NEW a, NEW b, Fits(a, saw, before), Fits(b, saw, before \cup ToSet(a)),
         \A s \in ToSet(a), t \in ToSet(b) : Adding(s) \cap Adding(t) = {}
  PROVE  Fits(a \o b, saw, before)
  <1> DEFINE c == a \o b
             m == Len(a)
             n == Len(b)
  <1>1. a \in Seq(Planned) /\ b \in Seq(Planned) /\ Apart(a) /\ Apart(b)
    BY DEF Fits
  <1>2. /\ c \in Seq(Planned) /\ ToSet(c) = ToSet(a) \cup ToSet(b) /\ Len(c) = m + n /\ m \in Nat /\ n \in Nat
        /\ \A i \in 1 .. m : c[i] = a[i]
        /\ \A i \in 1 .. n : c[m + i] = b[i]
    BY <1>1, ConcatFacts
  <1>3. DOMAIN a = 1 .. m /\ DOMAIN b = 1 .. n
    BY <1>1
  <1> HIDE DEF c, m, n
  <1>4. DOMAIN c = 1 .. m + n
    BY <1>2
  <1>5. \A i \in 1 .. m + n : i \in 1 .. m \/ (i - m \in 1 .. n /\ c[i] = b[i - m] /\ i > m)
    <2> TAKE i \in 1 .. m + n
    <2>1. CASE i <= m
      BY <1>2, <2>1
    <2>2. CASE i > m
      <3>1. i - m \in 1 .. n /\ m + (i - m) = i
        BY <1>2, <2>2
      <3> QED
        BY <1>2, <2>2, <3>1
    <2> QED
      BY <1>2, <2>1, <2>2
  <1>6. Apart(c)
    <2> SUFFICES ASSUME NEW i \in 1 .. m + n, NEW j \in 1 .. m + n, i # j PROVE Adding(c[i]) \cap Adding(c[j]) = {}
      BY <1>4 DEF Apart
    <2>1. CASE i \in 1 .. m /\ j \in 1 .. m
      BY <1>1, <1>2, <1>3, <2>1 DEF Apart
    <2>2. CASE i \notin 1 .. m /\ j \notin 1 .. m
      <3>1. i - m \in 1 .. n /\ j - m \in 1 .. n /\ c[i] = b[i - m] /\ c[j] = b[j - m] /\ i - m # j - m
        BY <1>2, <1>5, <2>2
      <3> QED
        BY <1>1, <1>3, <3>1 DEF Apart
    <2>3. ASSUME NEW k \in 1 .. m, NEW l \in 1 .. m + n, l \notin 1 .. m PROVE Adding(c[k]) \cap Adding(c[l]) = {}
      <3>1. c[k] \in ToSet(a)
        BY <1>2, <1>3 DEF ToSet
      <3>2. c[l] \in ToSet(b)
        BY <1>3, <1>5, <2>3 DEF ToSet
      <3> QED
        BY <3>1, <3>2
    <2> QED
      BY <2>1, <2>2, <2>3
  <1>7. \A s \in ToSet(c) : Apt(s, saw)
    BY <1>2 DEF Fits
  <1>8. ASSUME NEW i \in 1 .. m + n, NEW x \in Needs(c[i])
        PROVE  x \in saw \/ Added(before, x) \/ Earlier(c, i, x)
    <2>1. CASE i \in 1 .. m
      <3>1. x \in saw \/ Added(before, x) \/ Earlier(a, i, x)
        BY <1>2, <1>3, <1>8, <2>1 DEF Fits
      <3>2. Earlier(a, i, x) => Earlier(c, i, x)
        <4> SUFFICES ASSUME NEW j \in 1 .. m, j < i, x \in Adding(a[j]) PROVE Earlier(c, i, x)
          BY <1>3 DEF Earlier
        <4>1. j \in 1 .. m + n /\ c[j] = a[j]
          BY <1>2
        <4> QED
          BY <1>4, <4>1 DEF Earlier
      <3> QED
        BY <3>1, <3>2
    <2>2. CASE i \notin 1 .. m
      <3>1. i - m \in 1 .. n /\ c[i] = b[i - m] /\ i > m
        BY <1>5, <2>2
      <3>2. x \in saw \/ Added(before \cup ToSet(a), x) \/ Earlier(b, i - m, x)
        BY <1>3, <1>8, <3>1 DEF Fits
      <3>3. Earlier(b, i - m, x) => Earlier(c, i, x)
        <4> SUFFICES ASSUME NEW j \in 1 .. n, j < i - m, x \in Adding(b[j]) PROVE Earlier(c, i, x)
          BY <1>3 DEF Earlier
        <4>1. m + j \in 1 .. m + n /\ m + j < i /\ c[m + j] = b[j]
          BY <1>2
        <4> QED
          BY <1>4, <4>1 DEF Earlier
      <3>4. ASSUME NEW s \in ToSet(a), x \in Adding(s) PROVE Earlier(c, i, x)
        <4>1. PICK j \in 1 .. m : a[j] = s
          BY <1>3 DEF ToSet
        <4>2. j \in 1 .. m + n /\ j < i /\ c[j] = s
          BY <1>2, <3>1, <4>1
        <4> QED
          BY <1>4, <3>4, <4>2 DEF Earlier
      <3> QED
        BY <3>2, <3>3, <3>4 DEF Added
    <2> QED
      BY <2>1, <2>2
  <1>9. Fits(c, saw, before)
    BY <1>2, <1>4, <1>6, <1>7, <1>8 DEF Fits
  <1> QED
    BY <1>9 DEF c

\* The statements for one entity, once those for the entities it refers to are run.
LEMMA StatementsFacts ==
  ASSUME NEW e \in DOMAIN Entities, NEW saw, NEW before,
         \A r \in Deps(e) : Table(r) \in saw \/ Added(before, Table(r))
  PROVE  LET q == Statements(e, saw) IN
         /\ Fits(q, saw, before)
         /\ \A s \in ToSet(q) : s.entity = e
         /\ \A x \in ObjectsOf(e) : x \in saw \/ Added(ToSet(q), x)
  <1> DEFINE g == Missing("index", e, Entities[e].indexes, saw)
             f == IF Table(e) \notin saw THEN <<Stmt("create", e, Columns(e))>> ELSE Missing("add", e, Entities[e].cols, saw)
             q == Statements(e, saw)
  <1>1. q = f \o g
    BY DEF Statements
  <1>2. /\ g \in Seq(Planned) /\ Apart(g)
        /\ \A s \in ToSet(g) : s.do = "index" /\ s.entity = e /\ Adding(s) \cap saw = {}
        /\ \A c \in Indexes(e) : <<e, c>> \in saw \/ Added(ToSet(g), <<e, c>>)
    BY MissingFacts DEF Indexes
  <1>3. /\ Fits(f, saw, before)
        /\ \A s \in ToSet(f) : s.entity = e /\ s.do # "index"
        /\ Table(e) \in saw \/ Added(ToSet(f), Table(e))
        /\ \A c \in Columns(e) : <<e, c>> \in saw \/ Added(ToSet(f), <<e, c>>)
    <2>1. CASE Table(e) \notin saw
      <3> DEFINE s == Stmt("create", e, Columns(e))
      <3>1. f = <<s>> /\ s \in Planned /\ s.do = "create" /\ s.entity = e /\ s.cols = Columns(e)
        BY <2>1, PlannedIs DEF Stmt
      <3>2. /\ Adding(s) = ColumnsOf(e, Columns(e)) \cup {Table(e)}
            /\ Needs(s) = {Table(r) : r \in Deps(e)}
        BY <3>1 DEF Adding, Needs
      <3> HIDE DEF f, s
      <3>3. f \in Seq(Planned) /\ DOMAIN f = {1} /\ f[1] = s
        BY <3>1
      <3>4. ToSet(f) = {s}
        BY <3>3 DEF ToSet
      <3>5. Apart(f)
        BY <3>3 DEF Apart
      <3>6. Apt(s, saw)
        BY <2>1, <3>1 DEF Apt
      <3>7. Fits(f, saw, before)
        BY <3>2, <3>3, <3>4, <3>5, <3>6 DEF Fits
      <3> QED
        BY <3>1, <3>2, <3>4, <3>7 DEF Added, ColumnsOf
    <2>2. CASE Table(e) \in saw
      <3>1. f = Missing("add", e, Entities[e].cols, saw)
        BY <2>2
      <3>2. /\ f \in Seq(Planned) /\ Apart(f)
            /\ \A s \in ToSet(f) : s.do = "add" /\ s.entity = e /\ Adding(s) \cap saw = {}
            /\ \A c \in Columns(e) : <<e, c>> \in saw \/ Added(ToSet(f), <<e, c>>)
        BY <3>1, MissingFacts DEF Columns
      <3> HIDE DEF f
      <3>3. \A s \in ToSet(f) : Apt(s, saw)
        BY <2>2, <3>2 DEF Apt
      <3>4. \A i \in DOMAIN f : f[i] \in ToSet(f)
        BY DEF ToSet
      <3>5. \A i \in DOMAIN f : Needs(f[i]) = {Table(e)}
        BY <3>2, <3>4 DEF Needs
      <3>6. Fits(f, saw, before)
        BY <2>2, <3>2, <3>3, <3>5 DEF Fits
      <3> QED
        BY <2>2, <3>2, <3>6
    <2> QED
      BY <2>1, <2>2
  <1> HIDE DEF f, g, q
  <1>4. Fits(g, saw, before \cup ToSet(f))
    <2>1. \A s \in ToSet(g) : Apt(s, saw)
      BY <1>2 DEF Apt
    <2>2. \A i \in DOMAIN g : g[i] \in ToSet(g)
      BY DEF ToSet
    <2>3. \A i \in DOMAIN g : Needs(g[i]) = {Table(e)}
      BY <1>2, <2>2 DEF Needs
    <2>4. Table(e) \in saw \/ Added(before \cup ToSet(f), Table(e))
      BY <1>3 DEF Added
    <2> QED
      BY <1>2, <2>1, <2>3, <2>4 DEF Fits
  <1>5. ASSUME NEW s \in ToSet(f), NEW t \in ToSet(g) PROVE Adding(s) \cap Adding(t) = {}
    <2>1. s \in Planned /\ t \in Planned
      BY <1>2, <1>3 DEF Fits, ToSet
    <2>2. s.entity = e /\ s.do # "index" /\ t.entity = e /\ t.do = "index"
      BY <1>2, <1>3
    <2>3. Columns(e) \cap Indexes(e) = {} /\ "table" \notin Indexes(e)
      BY SchemaAssumption, NamesFact DEF Columns, Indexes
    <2>4. s.cols \subseteq Columns(e)
      BY <2>1, <2>2, PlannedFacts
    <2>5. t.cols \subseteq Indexes(e)
      BY <2>1, <2>2, PlannedFacts
    <2>6. Adding(s) \subseteq {<<e, c>> : c \in Columns(e) \cup {"table"}}
      BY <2>2, <2>4 DEF Adding, ColumnsOf, Table
    <2>7. Adding(t) \subseteq {<<e, c>> : c \in Indexes(e)}
      BY <2>2, <2>5 DEF Adding, ColumnsOf
    <2> QED
      BY <2>3, <2>6, <2>7
  <1>6. Fits(q, saw, before)
    BY <1>1, <1>3, <1>4, <1>5, JoinFits
  <1>7. ToSet(q) = ToSet(f) \cup ToSet(g)
    BY <1>1, <1>2, <1>3, ConcatFacts DEF Fits
  <1>8. \A x \in ObjectsOf(e) : x \in saw \/ Added(ToSet(q), x)
    <2> SUFFICES ASSUME NEW x \in ObjectsOf(e) PROVE x \in saw \/ Added(ToSet(f), x) \/ Added(ToSet(g), x)
      BY <1>7 DEF Added
    <2>1. x = Table(e) \/ (\E c \in Columns(e) : x = <<e, c>>) \/ (\E c \in Indexes(e) : x = <<e, c>>)
      BY DEF ObjectsOf, ColumnsOf
    <2> QED
      BY <1>2, <1>3, <2>1
  <1> QED
    BY <1>2, <1>3, <1>6, <1>7, <1>8 DEF q

\* How the plan grows.
Grows(list, sorted, saw) ==
    /\ list[0] = <<>>
    /\ \A n \in 1 .. Len(sorted) : list[n] = list[n-1] \o Statements(sorted[n], saw)

LEMMA StatementsType ==
  ASSUME NEW e \in DOMAIN Entities, NEW saw
  PROVE  Statements(e, saw) \in Seq(Planned)
  <1> DEFINE all == {Stmt("create", r, Columns(r)) : r \in DOMAIN Entities}
  <1>1. \A r \in Deps(e) : Added(all, Table(r))
    <2> TAKE r \in Deps(e)
    <2>1. r \in DOMAIN Entities
      BY DepsFact
    <2>2. Stmt("create", r, Columns(r)) \in all /\ Table(r) \in Adding(Stmt("create", r, Columns(r)))
      BY <2>1 DEF Adding, Stmt
    <2> HIDE DEF all
    <2> QED
      BY <2>2 DEF Added
  <1> HIDE DEF all
  <1> QED
    BY <1>1, StatementsFacts DEF Fits

LEMMA DiffGrows ==
  ASSUME NEW order \in Orders, NEW saw
  PROVE  \E list : Grows(list, TopoSortEntities(order), saw) /\ Diff(order, saw) = list[Len(TopoSortEntities(order))]
  <1> DEFINE sorted == TopoSortEntities(order)
             N == Len(sorted)
             X == Seq(Planned)
             G == [u \in (1 .. N) \X X |-> u[2] \o Statements(sorted[u[1]], saw)]
             Is(d) == d = [n \in 0 .. N |-> IF n = 0 THEN <<>> ELSE d[n-1] \o Statements(sorted[n], saw)]
             k == CHOOSE d : Is(d)
  <1>1. N \in Nat /\ \A n \in 1 .. N : sorted[n] \in DOMAIN Entities
    <2>1. sorted \in Seq(DOMAIN Entities)
      BY TopoFacts
    <2> HIDE DEF sorted
    <2> QED
      BY <2>1
  <1>2. \A n \in 1 .. N : Statements(sorted[n], saw) \in X
    <2> HIDE DEF sorted
    <2> QED
      BY <1>1, StatementsType
  <1>3. G \in [(1 .. N) \X X -> X]
    <2> HIDE DEF N, sorted
    <2>1. \A u \in (1 .. N) \X X : u[2] \in X /\ Statements(sorted[u[1]], saw) \in X
      BY <1>2
    <2>2. \A a, b \in X : a \o b \in X
      OBVIOUS
    <2> HIDE DEF X
    <2> QED
      BY <2>1, <2>2
  <1>4. PICK d : Loops(d, N, X, <<>>, G)
    <2>1. Loop(N, X, <<>>, G)
      BY <1>1, <1>3 DEF Loop
    <2> HIDE DEF N, X, G
    <2> QED
      BY <2>1, LoopIs
  <1>5. \A n \in 1 .. N : d[n] = d[n-1] \o Statements(sorted[n], saw)
    <2> TAKE n \in 1 .. N
    <2> HIDE DEF X, sorted
    <2>1. n - 1 \in 0 .. N
      BY <1>1
    <2>2. d[n-1] \in X /\ d[n] = G[<<n, d[n-1]>>]
      <3> HIDE DEF G, N
      <3> QED
        BY <1>4, <2>1 DEF Loops
    <2>3. \A s \in X : G[<<n, s>>] = s \o Statements(sorted[n], saw)
      OBVIOUS
    <2> QED
      BY <2>2, <2>3
  <1>6. Is(d)
    <2> HIDE DEF sorted
    <2>1. ASSUME NEW n \in 0 .. N PROVE d[n] = IF n = 0 THEN <<>> ELSE d[n-1] \o Statements(sorted[n], saw)
      <3>1. n = 0 \/ n \in 1 .. N
        BY <1>1
      <3> QED
        BY <1>4, <1>5, <3>1 DEF Loops
    <2> HIDE DEF N, G, X
    <2> QED
      BY <1>4, <2>1 DEF Loops
  <1>7. Is(k)
    <2> HIDE DEF Is
    <2> QED
      BY <1>6
  <1>8. Diff(order, saw) = k[N]
    <2> HIDE DEF G, X
    <2> QED
      BY DEF Diff
  <1> DEFINE list == k
  <1>9. list = [n \in 0 .. N |-> IF n = 0 THEN <<>> ELSE list[n-1] \o Statements(sorted[n], saw)]
    BY <1>7
  <1>10. Diff(order, saw) = list[N]
    BY <1>8
  <1> HIDE DEF list, k, Is, G, X
  <1>11. Grows(list, sorted, saw)
    <2> HIDE DEF sorted
    <2>1. 0 \in 0 .. N /\ \A n \in 1 .. N : n \in 0 .. N /\ n # 0
      BY <1>1
    <2> QED
      BY <1>9, <2>1 DEF Grows
  <1> QED
    BY <1>10, <1>11

\* The plan adds whatever was not seen, each object once, and every statement comes after what it needs.
LEMMA DiffFacts ==
  ASSUME Creatable, NEW order \in Orders, NEW saw
  PROVE  /\ Fits(Diff(order, saw), saw, {})
         /\ \A x \in Objects : x \in saw \/ Added(ToSet(Diff(order, saw)), x)
  <1> DEFINE sorted == TopoSortEntities(order)
             N == Len(sorted)
  <1>1. PICK list : Grows(list, sorted, saw) /\ Diff(order, saw) = list[N]
    BY DiffGrows
  <1>2. sorted \in Seq(DOMAIN Entities) /\ IsInjective(sorted) /\ ToSet(sorted) = DOMAIN Entities /\ Behind(sorted)
    BY TopoFacts
  <1> HIDE DEF sorted
  <1>3. N \in Nat /\ DOMAIN sorted = 1 .. N
    BY <1>2
  <1> HIDE DEF N
  <1>4. \A n \in 1 .. N : sorted[n] \in DOMAIN Entities
    BY <1>2, <1>3
  <1> DEFINE Good(n) == /\ Fits(list[n], saw, {})
                        /\ \A s \in ToSet(list[n]) : \E m \in 1 .. n : s.entity = sorted[m]
                        /\ \A m \in 1 .. n : \A x \in ObjectsOf(sorted[m]) : x \in saw \/ Added(ToSet(list[n]), x)
             T == {n \in Nat : n <= N => Good(n)}
  <1>5. 0 \in T
    <2>1. list[0] = <<>>
      BY <1>1 DEF Grows
    <2>2. ToSet(<<>>) = {} /\ Apart(<<>>) /\ <<>> \in Seq(Planned) /\ DOMAIN <<>> = {}
      BY DEF ToSet, Apart
    <2>3. Fits(<<>>, saw, {})
      BY <2>2 DEF Fits
    <2> QED
      BY <2>1, <2>2, <2>3
  <1>6. ASSUME NEW n \in Nat, n \in T PROVE n + 1 \in T
    <2> SUFFICES ASSUME n + 1 <= N PROVE Good(n + 1)
      OBVIOUS
    <2> DEFINE e == sorted[n + 1]
               q == Statements(e, saw)
               u == list[n]
    <2>1. n + 1 \in 1 .. N /\ (n + 1) - 1 = n /\ Good(n) /\ n + 1 \in DOMAIN sorted
      BY <1>3, <1>6
    <2>2. list[n + 1] = u \o q
      BY <1>1, <2>1 DEF Grows, N
    <2>3. e \in DOMAIN Entities
      BY <1>4, <2>1
    <2>4. \A r \in Deps(e) : Table(r) \in saw \/ Added(ToSet(u), Table(r))
      <3> TAKE r \in Deps(e)
      <3>1. PICK j \in DOMAIN sorted : j < n + 1 /\ sorted[j] = r
        BY <1>2, <2>1 DEF Behind
      <3>2. j \in 1 .. n
        BY <1>3, <3>1
      <3>3. Table(r) \in ObjectsOf(sorted[j])
        BY <3>1 DEF ObjectsOf
      <3> QED
        BY <2>1, <3>2, <3>3
    <2>5. /\ Fits(q, saw, ToSet(u))
          /\ \A s \in ToSet(q) : s.entity = e
          /\ \A x \in ObjectsOf(e) : x \in saw \/ Added(ToSet(q), x)
      <3> HIDE DEF e, u
      <3> QED
        BY <2>3, <2>4, StatementsFacts
    <2> HIDE DEF q, u
    <2>6. \A s \in ToSet(u), t \in ToSet(q) : Adding(s) \cap Adding(t) = {}
      <3> TAKE s \in ToSet(u), t \in ToSet(q)
      <3>1. PICK m \in 1 .. n : s.entity = sorted[m]
        BY <2>1 DEF u
      <3>2. m \in DOMAIN sorted /\ m # n + 1
        BY <1>3, <2>1
      <3>3. s.entity # t.entity
        BY <1>2, <2>1, <2>5, <3>1, <3>2 DEF IsInjective
      <3> QED
        BY <3>3 DEF Adding, ColumnsOf, Table
    <2>7. Fits(u \o q, saw, {})
      <3>1. Fits(u, saw, {}) /\ {} \cup ToSet(u) = ToSet(u)
        BY <2>1 DEF u
      <3> QED
        BY <2>5, <2>6, <3>1, JoinFits
    <2>8. ToSet(u \o q) = ToSet(u) \cup ToSet(q)
      <3>1. u \in Seq(Planned) /\ q \in Seq(Planned)
        BY <2>1, <2>5 DEF Fits, u
      <3> QED
        BY <3>1, ConcatFacts
    <2>9. \A s \in ToSet(u \o q) : \E m \in 1 .. n + 1 : s.entity = sorted[m]
      <3>1. 1 .. n \subseteq 1 .. n + 1 /\ n + 1 \in 1 .. n + 1
        OBVIOUS
      <3> QED
        BY <2>1, <2>5, <2>8, <3>1 DEF u
    <2>10. \A m \in 1 .. n + 1 : \A x \in ObjectsOf(sorted[m]) : x \in saw \/ Added(ToSet(u \o q), x)
      <3> TAKE m \in 1 .. n + 1
      <3> TAKE x \in ObjectsOf(sorted[m])
      <3>1. CASE m \in 1 .. n
        BY <2>1, <2>8, <3>1 DEF Added, u
      <3>2. CASE m = n + 1
        BY <2>5, <2>8, <3>2 DEF Added
      <3> QED
        BY <3>1, <3>2
    <2> QED
      BY <2>2, <2>7, <2>9, <2>10
  <1>7. N \in T
    <2> HIDE DEF T
    <2> QED
      BY <1>3, <1>5, <1>6, AllNumbers
  <1>8. Good(N)
    BY <1>3, <1>7
  <1>9. \A x \in Objects : \E m \in 1 .. N : x \in ObjectsOf(sorted[m])
    <2> TAKE x \in Objects
    <2>1. PICK e \in DOMAIN Entities : x \in ObjectsOf(e)
      BY DEF Objects, ObjectsOf
    <2>2. PICK m \in DOMAIN sorted : sorted[m] = e
      BY <1>2, <2>1 DEF ToSet
    <2> QED
      BY <1>3, <2>1, <2>2
  <1> QED
    BY <1>1, <1>8, <1>9

\* A list of statements is split into those for the transaction and those for later, in the order they had.
LEMMA SplitFacts ==
  ASSUME NEW saw, NEW D, Fits(D, saw, {})
  PROVE  /\ InTx(D) \in Seq(Planned) /\ Apart(InTx(D))
         /\ \A i \in DOMAIN InTx(D) : \A x \in Needs(InTx(D)[i]) : x \in saw \/ Earlier(InTx(D), i, x)
         /\ Outside(D) \in Seq({s \in Planned : s.do = "index"})
         /\ \A s \in ToSet(Outside(D)) : \A x \in Needs(s) : x \in saw \/ Added(ToSet(InTx(D)), x)
         /\ Outside(D) # <<>> => dialect = "postgres"
         /\ ToSet(D) = ToSet(InTx(D)) \cup ToSet(Outside(D))
         /\ \A s \in ToSet(D) : Apt(s, saw)
  <1> DEFINE now == {s \in ToSet(D) : ~Concurrent(s)}
             later == {s \in ToSet(D) : Concurrent(s)}
             T == InTx(D)
             O == Outside(D)
  <1>1. /\ D \in Seq(Planned) /\ Apart(D) /\ \A s \in ToSet(D) : Apt(s, saw)
        /\ \A i \in DOMAIN D : \A x \in Needs(D[i]) : x \in saw \/ Earlier(D, i, x)
    BY DEF Fits, Added
  <1>2. T = Only(D, now) /\ O = Only(D, later)
    BY DEF InTx, Outside
  <1>3. \A i \in DOMAIN D : D[i] \in Planned /\ D[i] \in ToSet(D)
    BY <1>1 DEF ToSet
  <1>4. IsInjective(D)
    <2> SUFFICES ASSUME NEW i \in DOMAIN D, NEW j \in DOMAIN D, D[i] = D[j], i # j PROVE FALSE
      BY DEF IsInjective
    <2>1. Adding(D[i]) \cap Adding(D[j]) = {}
      BY <1>1 DEF Apart
    <2>2. Adding(D[i]) # {}
      BY <1>3, PlannedFacts
    <2> QED
      BY <2>1, <2>2
  <1>5. /\ now \subseteq ToSet(D) /\ later \subseteq ToSet(D) /\ ToSet(D) = now \cup later
        /\ \A s \in later : s.do = "index" /\ dialect = "postgres"
        /\ \A s \in ToSet(D) : s.do = "create" => s \in now
    BY DEF Concurrent
  <1> HIDE DEF T, O, now, later
  <1>6. /\ T \in Seq(Planned) /\ ToSet(T) = ToSet(D) \cap now /\ IsInjective(T)
        /\ \A i, j \in DOMAIN T, m, n \in DOMAIN D : (T[i] = D[m] /\ T[j] = D[n] /\ m < n) => i < j
    BY <1>1, <1>2, <1>4, OnlyFacts
  <1>7. O \in Seq(Planned) /\ ToSet(O) = ToSet(D) \cap later
    BY <1>1, <1>2, OnlyFacts
  <1>8. \A i \in DOMAIN T : T[i] \in ToSet(T) /\ \E m \in DOMAIN D : D[m] = T[i]
    BY <1>6 DEF ToSet
  <1>9. Apart(T)
    <2> SUFFICES ASSUME NEW i \in DOMAIN T, NEW j \in DOMAIN T, i # j PROVE Adding(T[i]) \cap Adding(T[j]) = {}
      BY DEF Apart
    <2>1. T[i] # T[j]
      BY <1>6 DEF IsInjective
    <2>2. PICK m \in DOMAIN D : D[m] = T[i]
      BY <1>8
    <2>3. PICK n \in DOMAIN D : D[n] = T[j]
      BY <1>8
    <2> QED
      BY <1>1, <2>1, <2>2, <2>3 DEF Apart
  <1>10. ASSUME NEW m \in DOMAIN D, NEW x \in Needs(D[m]), x \notin saw
         PROVE  \E k \in DOMAIN D : k < m /\ x \in Adding(D[k]) /\ D[k] \in ToSet(T)
    <2>1. PICK k \in DOMAIN D : k < m /\ x \in Adding(D[k])
      BY <1>1, <1>10 DEF Earlier
    <2>2. PICK r : x = Table(r)
      BY DEF Needs
    <2>3. D[k].do = "create"
      BY <1>3, <2>1, <2>2, PlannedFacts
    <2> QED
      BY <1>3, <1>5, <1>6, <2>1, <2>3
  <1>11. ASSUME NEW i \in DOMAIN T, NEW x \in Needs(T[i]), x \notin saw PROVE Earlier(T, i, x)
    <2>1. PICK m \in DOMAIN D : D[m] = T[i]
      BY <1>8
    <2>2. PICK k \in DOMAIN D : k < m /\ x \in Adding(D[k]) /\ D[k] \in ToSet(T)
      BY <1>10, <1>11, <2>1
    <2>3. PICK j \in DOMAIN T : T[j] = D[k]
      BY <2>2 DEF ToSet
    <2>4. j < i
      BY <1>6, <2>1, <2>2, <2>3
    <2> QED
      BY <2>2, <2>3, <2>4 DEF Earlier
  <1>12. O \in Seq({s \in Planned : s.do = "index"})
    <2>1. \A i \in 1 .. Len(O) : O[i] \in Planned /\ O[i] \in ToSet(O)
      BY <1>7 DEF ToSet
    <2>2. \A i \in 1 .. Len(O) : O[i] \in {s \in Planned : s.do = "index"}
      BY <1>5, <1>7, <2>1
    <2> QED
      BY <1>7, <2>2
  <1>13. ASSUME NEW s \in ToSet(O), NEW x \in Needs(s), x \notin saw PROVE Added(ToSet(T), x)
    <2>1. PICK m \in DOMAIN D : D[m] = s
      BY <1>7 DEF ToSet
    <2> QED
      BY <1>10, <1>13, <2>1 DEF Added
  <1>14. O # <<>> => dialect = "postgres"
    <2> SUFFICES ASSUME O # <<>> PROVE dialect = "postgres"
      OBVIOUS
    <2>1. Head(O) \in ToSet(O)
      BY <1>7, TailFacts
    <2> QED
      BY <1>5, <1>7, <2>1
  <1>15. ToSet(D) = ToSet(T) \cup ToSet(O)
    BY <1>5, <1>6, <1>7
  <1> QED
    BY <1>1, <1>6, <1>9, <1>11, <1>12, <1>13, <1>14, <1>15 DEF T, O

-----------------------------------------------------------------------------
(* What auto_migrate leaves behind *)

There(d) == d.have \cup d.broken
Whole(d, e) == Table(e) \in d.have => ColumnsOf(e, Columns(e)) \subseteq d.have

Fetched == {"columns", "indexes", "diff"}
Carrying == {"lock", "begin", "run", "outside"}
Waiting(p) == {proc[p].stmts[i] : i \in proc[p].left} \cup ToSet(proc[p].outside)
Undisturbed(p) == "up" \notin proc[p].company

\* Who is under way knows of the others that are, and one of them has the lock.
Acquainted(p) ==
    /\ \A q \in Procs \ {p} : (Active(p) /\ Active(q)) => Kind(q) \in proc[p].company
    /\ lock = p => Active(p)

\* A transaction sees at least what is committed; unless it runs files, a table it added has all its columns.
Inside(p) ==
    proc[p].intx =>
        /\ proc[p].pc = "run" /\ db.have \subseteq proc[p].view.have /\ proc[p].view.broken = db.broken
        /\ Kind(p) # "up" => \A e \in DOMAIN Entities : Whole(db, e) => Whole(proc[p].view, e)

\* What was seen stays there; a table that was not seen has all its columns, should another server have added it.
Seen(p) ==
    /\ proc[p].saw \subseteq There(db)
    /\ \A e \in DOMAIN Entities : Table(e) \in proc[p].saw => Table(e) \in db.have
    /\ (proc[p].pc \in Fetched /\ Kind(p) = "auto" /\ Undisturbed(p)) =>
          \A e \in DOMAIN Entities : Table(e) \notin proc[p].saw => Whole(db, e)

\* What is to be run: the statements of a plan, its concurrent indexes last; to roll back, at most a data change.
Asked(p) ==
    /\ (proc[p].pc \in Carrying /\ Kind(p) = "auto") =>
          /\ proc[p].stmts \in Seq(Planned) /\ proc[p].left \subseteq DOMAIN proc[p].stmts
          /\ proc[p].outside \in Seq({s \in Planned : s.do = "index"})
          /\ proc[p].outside # <<>> => dialect = "postgres"
          /\ proc[p].pc = "outside" => proc[p].left = {}
    /\ (proc[p].pc \in {"begin", "run", "outside"} /\ Kind(p) = "down") =>
          /\ \A i \in proc[p].left : proc[p].stmts[i].do = "undo"
          /\ proc[p].outside = <<>>

\* What the plan still has to add waits, and a table that waits for its creation has all its columns if it is there.
OnTrack(p) ==
    (proc[p].pc \in Carrying /\ Kind(p) = "auto" /\ Undisturbed(p)) =>
        /\ \A x \in Objects : x \in There(Now(p)) \/ Added(Waiting(p), x)
        /\ \A s \in Waiting(p) : s.do = "create" => Whole(Now(p), s.entity)

\* A server on its own saw everything there is ...
Informed(p) ==
    /\ proc[p].pc \in Fetched => \A e \in DOMAIN Entities : Table(e) \in db.have => Table(e) \in proc[p].saw
    /\ proc[p].pc \in {"indexes", "diff"} =>
          \A e \in DOMAIN Entities : ColumnsOf(e, Columns(e)) \cap db.have \subseteq proc[p].saw
    /\ proc[p].pc = "diff" =>
          \A e \in DOMAIN Entities : ColumnsOf(e, Indexes(e)) \cap There(db) \subseteq proc[p].saw

\* ... and each of its statements applies when its turn comes.
New(d, s) ==
    /\ s.do = "add" => Adding(s) \cap d.have = {}
    /\ s.do = "index" => Adding(s) \cap There(d) = {}
Feasible(d, left, stmts, outside) ==
    /\ \A i \in left :
          /\ New(d, stmts[i])
          /\ \A j \in left : j # i => Adding(stmts[i]) \cap Adding(stmts[j]) = {}
          /\ \A x \in Needs(stmts[i]) : x \in d.have \/ \E j \in left : j < i /\ x \in Adding(stmts[j])
    /\ \A s \in ToSet(outside) : \A x \in Needs(s) : x \in d.have \/ \E j \in left : x \in Adding(stmts[j])
Runnable(p) == proc[p].pc \in Carrying => Feasible(Now(p), proc[p].left, proc[p].stmts, proc[p].outside)

OnItsOwn(p) == proc[p].cmd # None /\ Kind(p) = "auto" /\ proc[p].company = {} /\ proc[p].clean
Undistracted(p) == OnItsOwn(p) => proc[p].pc # "failed" /\ Informed(p) /\ Runnable(p)

Provided(p) == Undisturbed(p) => Ready(p)

Booting(p) == Inside(p) /\ Seen(p) /\ Asked(p) /\ OnTrack(p) /\ Undistracted(p) /\ Provided(p)

\* The inductive invariant of BootReady, beside MigrateInv.
BootInv ==
    /\ lock \in Procs \cup {None}
    /\ \A p \in Procs : Acquainted(p) /\ Booting(p)

-----------------------------------------------------------------------------
Kept(q) ==
    /\ Keeps(q) /\ proc'[q].outside = proc[q].outside /\ proc'[q].saw = proc[q].saw /\ proc'[q].clean = proc[q].clean
    /\ proc[q].company \subseteq proc'[q].company

\* What a step does to the database: it drops nothing, and unless it is of a file, it leaves tables whole.
Builds(p, d) ==
    /\ db.have \subseteq d.have /\ db.broken \subseteq d.broken
    /\ Kind(p) # "up" => \A e \in DOMAIN Entities : Whole(db, e) => Whole(d, e)

\* A process that a step leaves alone.
LEMMA OtherBooting ==
  ASSUME MigrateInv, BootInv, NEW p, NEW q \in Procs, q # p, Kept(q), UNCHANGED server,
         db' = db \/ (p \in Procs /\ Active(p) /\ writer \in {None, p} /\ Builds(p, db'))
  PROVE  Booting(q)'
  <1>1. Own(q) /\ Booting(q) /\ Acquainted(q) /\ q # None
    BY NumbersFact DEF MigrateInv, BootInv
  <1>2. db.have \subseteq db'.have /\ db.broken \subseteq db'.broken
    BY DEF Builds
  <1>3. proc[q].intx => db' = db
    BY <1>1 DEF Own, Exclusive, Booting, Inside
  <1>4. (Active(q) /\ Undisturbed(q)) => \A e \in DOMAIN Entities : Whole(db, e) => Whole(db', e)
    <2>1. CASE db' = db
      BY <2>1
    <2>2. CASE p \in Procs /\ Active(p) /\ Builds(p, db')
      BY <1>1, <2>2 DEF Acquainted, Undisturbed, Builds
    <2> QED
      BY <2>1, <2>2
  <1>5. (Active(q) /\ proc[q].company = {}) => db' = db
    BY <1>1 DEF Acquainted
  <1>6. Undisturbed(q)' => Undisturbed(q)
    BY DEF Undisturbed, Kept
  <1>7. Now(q)' = Now(q) \/ (Now(q) = db /\ Now(q)' = db')
    BY <1>3 DEF Now, Kept, Keeps
  <1>8. Inside(q)'
    BY <1>1, <1>3 DEF Inside, Booting, Kept, Keeps, Kind, Whole
  <1>9. Seen(q)'
    <2>1. proc[q].pc \in Fetched => Active(q)
      BY DEF Fetched, Active, Ended
    <2>2. proc'[q].saw \subseteq There(db')
      BY <1>1, <1>2 DEF Booting, Seen, Kept, There
    <2>3. \A e \in DOMAIN Entities : Table(e) \in proc'[q].saw => Table(e) \in db'.have
      BY <1>1, <1>2 DEF Booting, Seen, Kept
    <2> QED
      BY <1>1, <1>4, <1>6, <2>1, <2>2, <2>3 DEF Booting, Seen, Kept, Keeps, Kind
  <1>10. Asked(q)'
    BY <1>1 DEF Booting, Asked, Kept, Keeps, Kind, dialect
  <1>11. Waiting(q)' = Waiting(q)
    BY DEF Waiting, Kept, Keeps
  <1>12. OnTrack(q)'
    <2> SUFFICES ASSUME proc[q].pc \in Carrying, Kind(q) = "auto", Undisturbed(q)
                 PROVE  /\ \A x \in Objects : x \in There(Now(q)') \/ Added(Waiting(q), x)
                        /\ \A s \in Waiting(q) : s.do = "create" => Whole(Now(q)', s.entity)
      BY <1>6, <1>11 DEF OnTrack, Kept, Keeps, Kind
    <2>1. Active(q)
      BY DEF Carrying, Active, Ended
    <2>2. /\ \A x \in Objects : x \in There(Now(q)) \/ Added(Waiting(q), x)
          /\ \A s \in Waiting(q) : s.do = "create" => Whole(Now(q), s.entity)
      BY <1>1 DEF Booting, OnTrack
    <2>3. There(Now(q)) \subseteq There(Now(q)')
      BY <1>2, <1>7 DEF There
    <2>4. \A s \in Waiting(q) : s.do = "create" => s.entity \in DOMAIN Entities
      <3>1. \A s \in Waiting(q) : s \in Planned
        BY <1>1 DEF Booting, Asked, Waiting, ToSet
      <3> QED
        BY <3>1, PlannedFacts
    <2>5. \A e \in DOMAIN Entities : Whole(Now(q), e) => Whole(Now(q)', e)
      BY <1>4, <1>7, <2>1
    <2> QED
      BY <2>2, <2>3, <2>4, <2>5
  <1>13. Undistracted(q)'
    <2> SUFFICES ASSUME OnItsOwn(q)' PROVE Undistracted(q)'
      BY DEF Undistracted
    <2>1. OnItsOwn(q) /\ proc[q].company = {}
      BY DEF OnItsOwn, Kept, Keeps, Kind
    <2>2. proc[q].pc # "failed" /\ Informed(q) /\ Runnable(q)
      BY <1>1, <2>1 DEF Booting, Undistracted
    <2>3. CASE Active(q)
      <3>1. db' = db /\ Now(q)' = Now(q)
        BY <1>5, <1>7, <2>1, <2>3
      <3>2. Informed(q)'
        BY <2>2, <3>1 DEF Informed, Kept, Keeps, There
      <3>3. Runnable(q)'
        BY <2>2, <3>1 DEF Runnable, Kept, Keeps
      <3> QED
        BY <2>2, <3>2, <3>3 DEF Undistracted, Kept, Keeps
    <2>4. CASE ~Active(q)
      BY <2>2, <2>4 DEF Undistracted, Informed, Runnable, Fetched, Carrying, Active, Ended, Kept, Keeps
    <2> QED
      BY <2>3, <2>4
  <1>14. Provided(q)'
    <2>1. There(db) \subseteq There(db')
      BY <1>2 DEF There
    <2> QED
      BY <1>1, <1>6, <2>1 DEF Booting, Provided, Ready, Kept, Keeps, There
  <1> QED
    BY <1>8, <1>9, <1>10, <1>12, <1>13, <1>14 DEF Booting

\* A step of a process under way: what is left to show is its own part.
Moves(p) ==
    /\ DOMAIN proc' = Procs /\ \A q \in Procs \ {p} : proc'[q] = proc[q]
    /\ proc'[p].cmd = proc[p].cmd /\ proc'[p].company = proc[p].company /\ Active(p)

LEMMA MoveBoots ==
  ASSUME MigrateInv, BootInv, NEW p \in Procs, Moves(p), UNCHANGED server,
         db' = db \/ (writer \in {None, p} /\ Builds(p, db')),
         lock' \in {lock, None, p}, lock' = p => Active(p)',
         Booting(p)'
  PROVE  BootInv'
  <1>1. \A q \in Procs \ {p} : Booting(q)'
    <2> TAKE q \in Procs \ {p}
    <2>1. Kept(q)
      BY DEF Moves, Kept, Keeps
    <2> QED
      BY <2>1, OtherBooting DEF Moves
  <1>2. \A q \in Procs : Acquainted(q)'
    <2> TAKE q \in Procs
    <2>1. Acquainted(q)
      BY DEF BootInv
    <2>2. \A r \in Procs : (Active(r)' => Active(r)) /\ proc'[r].cmd = proc[r].cmd /\ proc'[r].company = proc[r].company
      BY DEF Moves, Active
    <2>3. \A r \in Procs \ {q} : (Active(q)' /\ Active(r)') => Kind(r)' \in proc'[q].company
      BY <2>1, <2>2 DEF Acquainted, Kind
    <2>4. lock' = q => Active(q)'
      BY <2>1, NumbersFact DEF Acquainted, Moves, Active
    <2> QED
      BY <2>3, <2>4 DEF Acquainted
  <1> QED
    BY <1>1, <1>2 DEF BootInv

\* Who is not in a transaction, and did not plan anything.
LEMMA PlainBooting ==
  ASSUME MigrateInv, BootInv, NEW p \in Procs, Moves(p), UNCHANGED db, Kind(p) # "auto", ~proc'[p].intx,
         proc'[p].saw = proc[p].saw,
         (proc'[p].pc \in {"begin", "run", "outside"} /\ Kind(p) = "down") =>
            (\A i \in proc'[p].left : proc'[p].stmts[i].do = "undo") /\ proc'[p].outside = <<>>
  PROVE  Booting(p)'
  <1>1. Seen(p) /\ Kind(p)' = Kind(p)
    BY DEF BootInv, Booting, Moves, Kind
  <1>2. Inside(p)' /\ Seen(p)' /\ Asked(p)'
    BY <1>1 DEF Inside, Seen, Asked, There
  <1>3. OnTrack(p)' /\ Undistracted(p)' /\ Provided(p)'
    BY <1>1 DEF OnTrack, Undistracted, OnItsOwn, Provided, Ready, Kind
  <1> QED
    BY <1>2, <1>3 DEF Booting

LEMMA LeaveBoots ==
  ASSUME MigrateInv, BootInv, NEW p \in Procs, NEW how \in {"ok", "failed"}, Active(p), Leave(p, how), UNCHANGED <<server, db>>,
         how = "failed" => ~OnItsOwn(p),
         (how = "ok" /\ Kind(p) = "auto" /\ Undisturbed(p)) => Objects \subseteq There(db)
  PROVE  BootInv'
  <1>1. /\ Moves(p) /\ proc'[p].pc = how /\ ~proc'[p].intx /\ proc'[p].saw = {} /\ proc'[p].clean = proc[p].clean
    BY DEF MigrateInv, Shaped, Leave, Idle, Moves, Fields
  <1>2. how \in Ended /\ how \notin Fetched \cup Carrying
    BY DEF Ended, Fetched, Carrying
  <1>3. lock' \in {lock, None, p} /\ lock' # p
    BY NumbersFact DEF Leave
  <1>4. proc'[p].cmd = proc[p].cmd /\ proc'[p].company = proc[p].company
    BY <1>1 DEF Moves
  <1>5. Inside(p)' /\ Seen(p)' /\ Asked(p)' /\ OnTrack(p)'
    BY <1>1, <1>2 DEF Inside, Seen, Asked, OnTrack, Carrying, Fetched
  <1>6. Undistracted(p)'
    BY <1>1, <1>2, <1>4 DEF Undistracted, Informed, Runnable, OnItsOwn, Kind
  <1>7. Provided(p)'
    BY <1>1, <1>4 DEF Provided, Undisturbed, Ready, Kind, There
  <1> QED
    BY <1>1, <1>3, <1>5, <1>6, <1>7, MoveBoots DEF Booting

\* Who is stopped, by rows or by a statement that does not apply, may leave an invalid index
\* behind, and on MySQL what it did before.
LEMMA StoppedBoots ==
  ASSUME MigrateInv, BootInv, NEW p \in Procs, NEW how \in {"failed", "refused"}, Active(p), Leave(p, how), UNCHANGED server,
         db' = db \/ (writer \in {None, p} /\ Builds(p, db')),
         how = "failed" => ~OnItsOwn(p)
  PROVE  BootInv'
  <1>1. /\ Moves(p) /\ proc'[p].pc = how /\ ~proc'[p].intx /\ proc'[p].saw = {} /\ proc'[p].clean = proc[p].clean
    BY DEF MigrateInv, Shaped, Leave, Idle, Moves, Fields
  <1>2. how \in Ended /\ how \notin Fetched \cup Carrying
    BY DEF Ended, Fetched, Carrying
  <1>3. lock' \in {lock, None, p} /\ lock' # p
    BY NumbersFact DEF Leave
  <1>4. proc'[p].cmd = proc[p].cmd /\ proc'[p].company = proc[p].company
    BY <1>1 DEF Moves
  <1>5. Inside(p)' /\ Seen(p)' /\ Asked(p)' /\ OnTrack(p)'
    BY <1>1, <1>2 DEF Inside, Seen, Asked, OnTrack, Carrying, Fetched
  <1>6. Undistracted(p)'
    BY <1>1, <1>2, <1>4 DEF Undistracted, Informed, Runnable, OnItsOwn, Kind
  <1>7. Provided(p)'
    BY <1>1 DEF Provided, Ready
  <1> QED
    BY <1>1, <1>3, <1>5, <1>6, <1>7, MoveBoots DEF Booting

LEMMA FetchBoots ==
  ASSUME MigrateInv, BootInv, NEW p \in Procs, Fetch(p)
  PROVE  BootInv'
  <1> DEFINE E == DOMAIN Entities
             found == CASE proc[p].pc = "tables" -> db.have \cap {Table(e) : e \in E}
                       [] proc[p].pc = "columns" -> db.have \cap UNION {ColumnsOf(e, Columns(e)) : e \in E}
                       [] OTHER -> (db.have \cup db.broken) \cap UNION {ColumnsOf(e, Indexes(e)) : e \in E}
             label == CASE proc[p].pc = "tables" -> "columns" [] proc[p].pc = "columns" -> "indexes" [] OTHER -> "diff"
  <1>1. proc[p].pc \in {"tables", "columns", "indexes"} /\ UNCHANGED <<server, db, files, lock, writer, lost, bound>>
    BY DEF Fetch
  <1>2. /\ Moves(p) /\ Active(p) /\ Active(p)' /\ proc'[p].pc = label /\ proc'[p].saw = proc[p].saw \cup found
        /\ proc'[p].intx = proc[p].intx /\ proc'[p].clean = proc[p].clean
    <2>1. proc' = [proc EXCEPT ![p].saw = @ \cup found,
                               ![p].pc = CASE @ = "tables" -> "columns" [] @ = "columns" -> "indexes" [] OTHER -> "diff"]
      BY DEF Fetch
    <2> HIDE DEF found
    <2>2. DOMAIN proc = Procs /\ DOMAIN proc[p] = Fields
      BY DEF MigrateInv, Shaped
    <2>3. /\ proc'[p].pc = label /\ proc'[p].saw = proc[p].saw \cup found /\ proc'[p].intx = proc[p].intx
          /\ proc'[p].clean = proc[p].clean /\ proc'[p].cmd = proc[p].cmd /\ proc'[p].company = proc[p].company
      BY <2>1, <2>2 DEF Fields
    <2>4. DOMAIN proc' = Procs /\ \A q \in Procs \ {p} : proc'[q] = proc[q]
      BY <2>1, <2>2
    <2>5. Active(p) /\ Active(p)'
      BY <1>1, <2>3 DEF Active, Ended
    <2> QED
      BY <2>3, <2>4, <2>5 DEF Moves
  <1>3. /\ proc[p].pc = "tables" => label = "columns" /\ found = db.have \cap {Table(e) : e \in E}
        /\ proc[p].pc = "columns" => label = "indexes" /\ found = db.have \cap UNION {ColumnsOf(e, Columns(e)) : e \in E}
        /\ proc[p].pc = "indexes" => label = "diff" /\ found = (db.have \cup db.broken) \cap UNION {ColumnsOf(e, Indexes(e)) : e \in E}
    OBVIOUS
  <1> HIDE DEF found, label
  <1>4. /\ found \subseteq There(db)
        /\ \A e \in E : Table(e) \in found => Table(e) \in db.have
    <2>1. \A e \in E : Table(e) \notin UNION {ColumnsOf(f, Indexes(f)) : f \in E}
      BY NamesFact DEF ColumnsOf, Table
    <2> QED
      BY <1>1, <1>3, <2>1 DEF There
  <1>5. Inside(p) /\ Seen(p) /\ Undistracted(p) /\ Acquainted(p)
    BY DEF BootInv, Booting
  <1>6. proc'[p].cmd = proc[p].cmd /\ proc'[p].company = proc[p].company
    BY <1>2 DEF Moves
  <1>7. Inside(p)'
    BY <1>1, <1>2, <1>5 DEF Inside
  <1>8. Seen(p)'
    <2>1. proc'[p].saw \subseteq There(db') /\ \A e \in E : Table(e) \in proc'[p].saw => Table(e) \in db'.have
      BY <1>1, <1>2, <1>4, <1>5 DEF Seen
    <2>2. ASSUME Kind(p) = "auto", Undisturbed(p), NEW e \in E, Table(e) \notin proc'[p].saw PROVE Whole(db, e)
      <3>1. CASE proc[p].pc = "tables"
        BY <1>2, <1>3, <2>2, <3>1 DEF Whole
      <3>2. CASE proc[p].pc # "tables"
        BY <1>1, <1>2, <1>5, <2>2, <3>2 DEF Seen, Fetched
      <3> QED
        BY <3>1, <3>2
    <2> QED
      BY <1>1, <1>6, <2>1, <2>2 DEF Seen, Kind, Undisturbed
  <1>9. proc'[p].pc \notin Carrying /\ proc'[p].pc \notin {"ok", "failed"}
    BY <1>1, <1>2, <1>3 DEF Carrying
  <1>10. Asked(p)' /\ OnTrack(p)' /\ Provided(p)'
    BY <1>9 DEF Asked, OnTrack, Provided, Ready, Carrying
  <1>11. Undistracted(p)'
    <2> SUFFICES ASSUME OnItsOwn(p)' PROVE Informed(p)'
      BY <1>9 DEF Undistracted, Runnable
    <2>1. Informed(p)
      BY <1>2, <1>5, <1>6 DEF Undistracted, OnItsOwn, Kind
    <2>2. ASSUME NEW e \in E, Table(e) \in db.have PROVE Table(e) \in proc'[p].saw
      BY <1>1, <1>2, <1>3, <2>1, <2>2 DEF Informed, Fetched
    <2>3. ASSUME proc'[p].pc \in {"indexes", "diff"}, NEW e \in E
          PROVE  ColumnsOf(e, Columns(e)) \cap db.have \subseteq proc'[p].saw
      BY <1>1, <1>2, <1>3, <2>1, <2>3 DEF Informed
    <2>4. ASSUME proc'[p].pc = "diff", NEW e \in E
          PROVE  ColumnsOf(e, Indexes(e)) \cap There(db) \subseteq proc'[p].saw
      BY <1>1, <1>2, <1>3, <2>4 DEF There
    <2> QED
      BY <1>1, <2>2, <2>3, <2>4 DEF Informed, There
  <1> QED
    BY <1>1, <1>2, <1>7, <1>8, <1>10, <1>11, MoveBoots DEF Booting

LEMMA AutoMigrateBoots ==
  ASSUME Creatable, MigrateInv, BootInv, NEW p \in Procs, NEW plan \in Plans, AutoMigrate(p, plan)
  PROVE  BootInv'
  <1>1. /\ proc[p].pc = "diff" /\ Kind(p) = "auto" /\ proc[p].saw = plan.saw /\ UNCHANGED <<server, db>>
        /\ Active(p) /\ ~proc[p].intx /\ Inside(p) /\ Seen(p) /\ Undistracted(p) /\ Acquainted(p)
    BY DEF AutoMigrate, Kind, Active, Ended, BootInv, Booting, Inside
  <1> DEFINE D == plan.stmts
             saw == proc[p].saw
             E == DOMAIN Entities
  <1>2. PICK order \in Orders : D = Diff(order, saw)
    BY <1>1 DEF Plans
  <1>3. /\ Fits(D, saw, {})
        /\ \A x \in Objects : x \in saw \/ Added(ToSet(D), x)
    BY <1>2, DiffFacts
  <1>4. saw \subseteq There(db) /\ \A e \in E : Table(e) \in saw => Table(e) \in db.have
    BY <1>1 DEF Seen
  <1>5. CASE D = <<>>
    <2>1. ToSet(D) = {}
      BY <1>5 DEF ToSet
    <2>2. Objects \subseteq There(db)
      BY <1>3, <1>4, <2>1 DEF Added
    <2>3. Leave(p, "ok")
      BY <1>5 DEF AutoMigrate
    <2> QED
      BY <1>1, <2>2, <2>3, LeaveBoots
  <1>6. CASE D # <<>>
    <2> DEFINE T == InTx(D)
               O == Outside(D)
    <2>1. /\ proc' = [proc EXCEPT ![p].stmts = T, ![p].left = DOMAIN T, ![p].outside = O, ![p].pc = "lock"]
          /\ UNCHANGED lock
      BY <1>6 DEF AutoMigrate
    <2>2. /\ T \in Seq(Planned) /\ Apart(T)
          /\ \A i \in DOMAIN T : \A x \in Needs(T[i]) : x \in saw \/ Earlier(T, i, x)
          /\ O \in Seq({s \in Planned : s.do = "index"})
          /\ \A s \in ToSet(O) : \A x \in Needs(s) : x \in saw \/ Added(ToSet(T), x)
          /\ O # <<>> => dialect = "postgres"
          /\ ToSet(D) = ToSet(T) \cup ToSet(O)
          /\ \A s \in ToSet(D) : Apt(s, saw)
      BY <1>3, SplitFacts
    <2> HIDE DEF T, O, D
    <2>3. /\ proc'[p].stmts = T /\ proc'[p].left = DOMAIN T /\ proc'[p].outside = O /\ proc'[p].pc = "lock"
          /\ proc'[p].saw = saw /\ proc'[p].intx = proc[p].intx /\ proc'[p].clean = proc[p].clean
          /\ proc'[p].cmd = proc[p].cmd /\ proc'[p].company = proc[p].company /\ Moves(p)
      BY <1>1, <2>1 DEF MigrateInv, Shaped, Fields, Moves
    <2>4. Active(p)' /\ Now(p)' = db /\ Kind(p)' = "auto" /\ (Undisturbed(p)' <=> Undisturbed(p))
      BY <1>1, <2>3 DEF Active, Ended, Now, Kind, Undisturbed
    <2>5. Waiting(p)' = ToSet(D)
      BY <2>2, <2>3 DEF Waiting, ToSet
    <2>6. Inside(p)'
      BY <1>1, <2>3 DEF Inside
    <2>7. Seen(p)'
      BY <1>1, <1>4, <2>3 DEF Seen, Fetched, There
    <2>8. Asked(p)'
      BY <1>1, <2>2, <2>3, <2>4 DEF Asked, dialect
    <2>9. OnTrack(p)'
      <3>1. \A x \in Objects : x \in There(db) \/ Added(ToSet(D), x)
        BY <1>3, <1>4
      <3>2. ASSUME Undisturbed(p), NEW s \in ToSet(D), s.do = "create" PROVE Whole(db, s.entity)
        <4>1. s \in Planned
          BY <1>3, <3>2 DEF Fits, ToSet
        <4>2. s.entity \in E /\ Table(s.entity) \notin saw
          BY <2>2, <3>2, <4>1, PlannedFacts DEF Apt
        <4> QED
          BY <1>1, <3>2, <4>2 DEF Seen, Fetched
      <3> QED
        BY <2>4, <2>5, <3>1, <3>2 DEF OnTrack
    <2>10. Undistracted(p)'
      <3> SUFFICES ASSUME OnItsOwn(p)' PROVE Informed(p)' /\ Runnable(p)'
        BY <2>3 DEF Undistracted
      <3>1. Informed(p)
        BY <1>1, <2>3 DEF Undistracted, OnItsOwn, Kind
      <3>2. Informed(p)'
        BY <2>3 DEF Informed, Fetched
      <3>3. \A s \in ToSet(D) : New(db, s)
        <4> TAKE s \in ToSet(D)
        <4>1. s \in Planned /\ Apt(s, saw)
          BY <1>3, <2>2 DEF Fits, ToSet
        <4>2. /\ s.entity \in E /\ s.do \in {"create", "add", "index"}
              /\ s.do = "add" => s.cols \subseteq Columns(s.entity)
              /\ s.do = "index" => s.cols \subseteq Indexes(s.entity)
          BY <4>1, PlannedFacts
        <4>3. s.do = "add" => Adding(s) \cap db.have \subseteq saw
          <5>1. s.do = "add" => Adding(s) \subseteq ColumnsOf(s.entity, Columns(s.entity))
            BY <4>2 DEF Adding, ColumnsOf
          <5> QED
            BY <1>1, <3>1, <4>2, <5>1 DEF Informed
        <4>4. s.do = "index" => Adding(s) \cap There(db) \subseteq saw
          <5>1. s.do = "index" => Adding(s) \subseteq ColumnsOf(s.entity, Indexes(s.entity))
            BY <4>2 DEF Adding, ColumnsOf
          <5> QED
            BY <1>1, <3>1, <4>2, <5>1 DEF Informed
        <4> QED
          BY <4>1, <4>3, <4>4 DEF New, Apt
      <3>4. \A i \in DOMAIN T : T[i] \in ToSet(D) /\ T[i] \in Planned
        <4>1. \A i \in DOMAIN T : T[i] \in ToSet(T)
          BY DEF ToSet
        <4>2. \A i \in DOMAIN T : T[i] \in Planned
          BY <2>2
        <4> QED
          BY <2>2, <4>1, <4>2
      <3>5. \A s \in Planned : \A x \in Needs(s) : x \in saw => x \in db.have
        <4> TAKE s \in Planned
        <4>1. s.entity \in E
          BY PlannedFacts
        <4>2. \A x \in Needs(s) : \E e \in E : x = Table(e)
          BY <4>1, DepsFact DEF Needs
        <4> QED
          BY <1>4, <4>2
      <3>6. \A i \in DOMAIN T : \A x \in Needs(T[i]) : x \in db.have \/ \E j \in DOMAIN T : j < i /\ x \in Adding(T[j])
        BY <2>2, <3>4, <3>5 DEF Earlier
      <3>7. \A s \in ToSet(O) : \A x \in Needs(s) : x \in db.have \/ \E j \in DOMAIN T : x \in Adding(T[j])
        <4> TAKE s \in ToSet(O)
        <4> TAKE x \in Needs(s)
        <4>1. s \in Planned
          BY <2>2 DEF ToSet
        <4>2. x \in saw \/ \E t \in ToSet(T) : x \in Adding(t)
          BY <2>2 DEF Added
        <4> QED
          BY <3>5, <4>1, <4>2 DEF ToSet
      <3>8. \A i, j \in DOMAIN T : j # i => Adding(T[i]) \cap Adding(T[j]) = {}
        BY <2>2 DEF Apart
      <3>9. Runnable(p)'
        <4>1. Feasible(db, DOMAIN T, T, O)
          BY <3>3, <3>4, <3>6, <3>7, <3>8 DEF Feasible
        <4> QED
          BY <2>3, <2>4, <4>1 DEF Runnable
      <3> QED
        BY <3>2, <3>9
    <2>11. Provided(p)'
      BY <2>3 DEF Provided, Ready
    <2> QED
      BY <1>1, <2>1, <2>3, <2>4, <2>6, <2>7, <2>8, <2>9, <2>10, <2>11, MoveBoots DEF Booting
  <1> QED
    BY <1>5, <1>6

LEMMA GenerateBoots ==
  ASSUME MigrateInv, BootInv, NEW p \in Procs, NEW plan, Generate(p, plan)
  PROVE  BootInv'
  <1>1. Kind(p) # "auto" /\ Active(p) /\ Leave(p, "ok") /\ UNCHANGED <<server, db>>
    BY DEF Generate, Kind, Active, Ended
  <1> QED
    BY <1>1, LeaveBoots

LEMMA SameRunnable ==
  ASSUME NEW p, Runnable(p), proc[p].pc \in Carrying, Now(p)' = Now(p), proc'[p].stmts = proc[p].stmts,
         proc'[p].left = proc[p].left, proc'[p].outside = proc[p].outside
  PROVE  Runnable(p)'
  BY DEF Runnable

\* Only the place of the process, and perhaps the lock, changes; nothing runs yet.
LEMMA GotoBoots ==
  ASSUME MigrateInv, BootInv, NEW p \in Procs, NEW label, Goto(p, label), UNCHANGED <<server, db>>, Active(p),
         label \notin Ended, proc[p].pc # "run", lock' \in {lock, p},
         \/ Kind(p) # "auto" /\ label \notin {"begin", "run", "outside"}
         \/ Kind(p) = "auto" /\ proc[p].pc = "lock" /\ label = "begin"
  PROVE  BootInv'
  <1>1. /\ Moves(p) /\ proc'[p].pc = label /\ proc'[p].intx = proc[p].intx /\ proc'[p].saw = proc[p].saw
        /\ proc'[p].stmts = proc[p].stmts /\ proc'[p].left = proc[p].left /\ proc'[p].outside = proc[p].outside
        /\ proc'[p].clean = proc[p].clean /\ proc'[p].cmd = proc[p].cmd /\ proc'[p].company = proc[p].company
    BY DEF MigrateInv, Shaped, Fields, Goto, Moves
  <1>2. ~proc[p].intx /\ Active(p)' /\ Booting(p)
    BY <1>1 DEF BootInv, Booting, Inside, Active
  <1>3. CASE Kind(p) # "auto" /\ label \notin {"begin", "run", "outside"}
    <2>1. Booting(p)'
      BY <1>1, <1>2, <1>3, PlainBooting
    <2> QED
      BY <1>1, <1>2, <2>1, MoveBoots
  <1>4. CASE Kind(p) = "auto" /\ proc[p].pc = "lock" /\ label = "begin"
    <2>1. Now(p)' = Now(p) /\ Now(p) = db /\ Waiting(p)' = Waiting(p) /\ Kind(p)' = Kind(p)
      BY <1>1, <1>2 DEF Now, Waiting, Kind
    <2>2. Inside(p)' /\ Seen(p)' /\ Asked(p)'
      BY <1>1, <1>2, <1>4, <2>1 DEF Booting, Inside, Seen, Asked, Fetched, Carrying, There, dialect
    <2>3. OnTrack(p)'
      BY <1>1, <1>2, <1>4, <2>1 DEF Booting, OnTrack, Carrying, Undisturbed
    <2>4. Runnable(p) => Runnable(p)'
      BY <1>1, <1>4, <2>1, SameRunnable DEF Carrying
    <2>5. Undistracted(p)' /\ Provided(p)'
      BY <1>1, <1>2, <1>4, <2>4 DEF Booting, Undistracted, OnItsOwn, Informed, Fetched, Provided, Ready, Kind
    <2> QED
      BY <1>1, <1>2, <2>2, <2>3, <2>5, MoveBoots DEF Booting
  <1> QED
    BY <1>3, <1>4

LEMMA AcquireLockBoots ==
  ASSUME MigrateInv, BootInv, NEW p \in Procs, AcquireLock(p)
  PROVE  BootInv'
  <1>1. /\ proc[p].pc = "lock" /\ Goto(p, AfterLock(Kind(p))) /\ UNCHANGED <<server, db>> /\ lock' \in {lock, p}
    BY DEF AcquireLock, Kind
  <1>2. Active(p) /\ Kind(p) \in {"up", "down", "auto"}
    <2>1. Own(p) /\ Active(p)
      BY <1>1 DEF MigrateInv, Active, Ended
    <2> QED
      BY <1>1, <2>1, CommandsFact DEF Own, Commanded, Kind
  <1>3. /\ AfterLock(Kind(p)) \notin Ended
        /\ \/ Kind(p) # "auto" /\ AfterLock(Kind(p)) \notin {"begin", "run", "outside"}
           \/ Kind(p) = "auto" /\ AfterLock(Kind(p)) = "begin"
    BY <1>2 DEF AfterLock, Ended
  <1> QED
    BY <1>1, <1>2, <1>3, GotoBoots

\* Who is behind another migrator is not on its own.
LEMMA LockTimeoutBoots ==
  ASSUME MigrateInv, BootInv, NEW p \in Procs, LockTimeout(p)
  PROVE  BootInv'
  <1>1. lock \in Procs \ {p} /\ Active(lock) /\ Active(p)
    BY DEF LockTimeout, BootInv, Acquainted, Active, Ended
  <1>2. proc[p].company # {}
    BY <1>1 DEF BootInv, Acquainted
  <1> QED
    BY <1>1, <1>2, LeaveBoots DEF LockTimeout, OnItsOwn

LEMMA VerifyBoots ==
  ASSUME MigrateInv, BootInv, NEW p \in Procs, Verify(p)
  PROVE  BootInv'
  <1>1. proc[p].pc = "verify" /\ UNCHANGED <<server, db>> /\ Kind(p) = "up" /\ Active(p)
    BY DEF Verify, MigrateInv, Own, Commanded, Active, Ended
  <1>2. CASE Goto(p, "status") /\ UNCHANGED lock
    BY <1>1, <1>2, GotoBoots DEF Ended
  <1>3. CASE Leave(p, "failed")
    BY <1>1, <1>3, LeaveBoots DEF OnItsOwn
  <1> QED
    BY <1>2, <1>3, Zenon DEF Verify

LEMMA StatusBoots ==
  ASSUME MigrateInv, BootInv, NEW p \in Procs, Status(p) \/ Select(p)
  PROVE  BootInv'
  <1>1. proc[p].pc \in {"status", "select"} /\ UNCHANGED <<server, db, lock>> /\ Kind(p) # "auto" /\ Active(p)
    BY DEF Status, Select, MigrateInv, Own, Commanded, Active, Ended
  <1>2. PICK todo : proc' = [proc EXCEPT ![p].todo = todo, ![p].pc = "next"]
    BY DEF Status, Select
  <1>3. Moves(p) /\ proc'[p].pc = "next" /\ proc'[p].intx = proc[p].intx /\ proc'[p].saw = proc[p].saw /\ Active(p)'
    BY <1>1, <1>2 DEF MigrateInv, Shaped, Fields, Moves, Active, Ended
  <1>4. ~proc[p].intx
    BY <1>1 DEF BootInv, Booting, Inside
  <1>5. Booting(p)'
    BY <1>1, <1>3, <1>4, PlainBooting
  <1> QED
    BY <1>1, <1>3, <1>5, MoveBoots

LEMMA ReadFileBoots ==
  ASSUME MigrateInv, BootInv, NEW p \in Procs, ReadFile(p)
  PROVE  BootInv'
  <1>1. proc[p].pc = "next" /\ UNCHANGED <<server, db>> /\ Kind(p) # "auto" /\ Active(p)
    BY DEF ReadFile, MigrateInv, Own, Commanded, Active, Ended
  <1>2. PICK f \in Numbers :
          LET script == Script(f, proc[p].cmd.kind) IN
             IF files[f] = None THEN Leave(p, "failed")
             ELSE /\ proc' = [proc EXCEPT ![p].todo = @ \ {f}, ![p].file = [number |-> f, ver |-> files[f].ver],
                                          ![p].stmts = script, ![p].left = SplitStatements(script),
                                          ![p].outside = IF proc[p].cmd.kind = "down" THEN <<>> ELSE files[f].outside,
                                          ![p].pc = "begin"]
                  /\ UNCHANGED <<lock, writer>>
    BY DEF ReadFile
  <1>3. CASE files[f] = None
    BY <1>1, <1>2, <1>3, LeaveBoots DEF OnItsOwn
  <1>4. CASE files[f] # None
    <2> DEFINE script == Script(f, Kind(p))
               outside == IF Kind(p) = "down" THEN <<>> ELSE files[f].outside
               todo == proc[p].todo \ {f}
               named == [number |-> f, ver |-> files[f].ver]
    <2>1. /\ proc' = [proc EXCEPT ![p].todo = todo, ![p].file = named, ![p].stmts = script,
                                  ![p].left = SplitStatements(script), ![p].outside = outside, ![p].pc = "begin"]
          /\ UNCHANGED lock
      BY <1>2, <1>4 DEF Kind
    <2>2. Kind(p) = "down" => /\ outside = <<>>
                              /\ \A i \in SplitStatements(script) : script[i].do = "undo"
      <3> SUFFICES ASSUME Kind(p) = "down" PROVE \A i \in SplitStatements(script) : script[i].do = "undo"
        OBVIOUS
      <3>1. script = <<Control("undo")>> \/ script = <<Control("comment")>>
        BY DEF Script
      <3> HIDE DEF script
      <3>2. DOMAIN script = {1} /\ script[1].do \in {"undo", "comment"}
        BY <3>1 DEF Control, Stmt
      <3> QED
        BY <3>2 DEF SplitStatements
    <2> HIDE DEF script, outside, todo, named
    <2>3. /\ Moves(p) /\ proc'[p].pc = "begin" /\ proc'[p].intx = proc[p].intx /\ proc'[p].saw = proc[p].saw
          /\ proc'[p].stmts = script /\ proc'[p].left = SplitStatements(script) /\ proc'[p].outside = outside
      BY <1>1, <2>1 DEF MigrateInv, Shaped, Fields, Moves
    <2>4. ~proc[p].intx /\ Active(p)'
      BY <1>1, <2>3 DEF BootInv, Booting, Inside, Active, Ended
    <2>5. Booting(p)'
      BY <1>1, <2>2, <2>3, <2>4, PlainBooting
    <2> QED
      BY <1>1, <2>1, <2>3, <2>4, <2>5, MoveBoots
  <1> QED
    BY <1>3, <1>4

LEMMA FinishBoots ==
  ASSUME MigrateInv, BootInv, NEW p \in Procs, Finish(p)
  PROVE  BootInv'
  <1>1. proc[p].pc = "next" /\ UNCHANGED <<server, db>> /\ Leave(p, "ok") /\ Kind(p) # "auto" /\ Active(p)
    BY DEF Finish, MigrateInv, Own, Commanded, Active, Ended
  <1> QED
    BY <1>1, LeaveBoots

LEMMA BeginBoots ==
  ASSUME MigrateInv, BootInv, NEW p \in Procs, Begin(p)
  PROVE  BootInv'
  <1>1. /\ proc[p].pc = "begin" /\ UNCHANGED <<server, db, lock>> /\ Active(p)
        /\ proc' = [proc EXCEPT ![p].view = db, ![p].intx = TRUE, ![p].pc = "run"]
    BY DEF Begin, Active, Ended
  <1>2. /\ Moves(p) /\ proc'[p].pc = "run" /\ proc'[p].intx /\ proc'[p].saw = proc[p].saw /\ proc'[p].view = db
        /\ proc'[p].stmts = proc[p].stmts /\ proc'[p].left = proc[p].left /\ proc'[p].outside = proc[p].outside
        /\ proc'[p].clean = proc[p].clean /\ proc'[p].cmd = proc[p].cmd /\ proc'[p].company = proc[p].company
    BY <1>1 DEF MigrateInv, Shaped, Fields, Moves
  <1>3. ~proc[p].intx /\ Active(p)' /\ Booting(p)
    BY <1>1, <1>2 DEF BootInv, Booting, Inside, Active, Ended
  <1>4. Now(p)' = Now(p) /\ Now(p) = db /\ Waiting(p)' = Waiting(p) /\ Kind(p)' = Kind(p)
    BY <1>2, <1>3 DEF Now, Waiting, Kind
  <1>5. Inside(p)'
    BY <1>1, <1>2 DEF Inside, Whole
  <1>6. Seen(p)' /\ Asked(p)'
    BY <1>1, <1>2, <1>3, <1>4 DEF Booting, Seen, Asked, Fetched, Carrying, There, dialect
  <1>7. OnTrack(p)'
    BY <1>1, <1>2, <1>3, <1>4 DEF Booting, OnTrack, Carrying, Undisturbed
  <1>8. Runnable(p) => Runnable(p)'
    BY <1>1, <1>2, <1>4, SameRunnable DEF Carrying
  <1>9. Undistracted(p)' /\ Provided(p)'
    BY <1>1, <1>2, <1>3, <1>8 DEF Booting, Undistracted, OnItsOwn, Informed, Fetched, Provided, Ready, Kind
  <1> QED
    BY <1>1, <1>2, <1>3, <1>5, <1>6, <1>7, <1>9, MoveBoots DEF Booting

\* What executing a statement does to the tables.
LEMMA ExecBuilds ==
  ASSUME NEW d, NEW s, NEW f, NEW ver, DOMAIN d = Parts4
  PROVE  LET new == Exec(d, s, f, ver) IN
         /\ d.have \subseteq new.have /\ new.broken = d.broken
         /\ (s \in Planned \/ s.do = "undo") => \A e \in DOMAIN Entities : Whole(d, e) => Whole(new, e)
         /\ s \in Planned => /\ new.have \subseteq d.have \cup Adding(s)
                             /\ \A r : Table(r) \in Adding(s) => Table(r) \in new.have
                             /\ (s.do = "create" => Whole(d, s.entity)) => Adding(s) \subseteq There(new)
  <1> DEFINE new == Exec(d, s, f, ver)
  <1>1. /\ s.do = "create" => \/ new = d /\ Table(s.entity) \in d.have
                              \/ /\ new.have = d.have \cup {Table(s.entity)} \cup ColumnsOf(s.entity, s.cols)
                                 /\ new.broken = d.broken /\ Table(s.entity) \notin d.have
        /\ s.do = "add" => new.have = d.have \cup ColumnsOf(s.entity, s.cols) /\ new.broken = d.broken
        /\ s.do = "index" => new.have = d.have \cup (ColumnsOf(s.entity, s.cols) \ d.broken) /\ new.broken = d.broken
        /\ s.do \notin {"create", "add", "index"} => new.have = d.have /\ new.broken = d.broken
    <2>1. CASE s.do = "create"
      BY <2>1 DEF Exec, Parts4
    <2>2. CASE s.do = "add"
      BY <2>2 DEF Exec, Parts4
    <2>3. CASE s.do = "index"
      BY <2>3 DEF Exec, Parts4
    <2>4. CASE s.do = "data"
      BY <2>4 DEF Exec, Parts4
    <2>5. CASE s.do = "undo"
      BY <2>5 DEF Exec, Parts4
    <2>6. CASE s.do \notin {"create", "add", "index", "data", "undo"}
      BY <2>6 DEF Exec
    <2> QED
      BY <2>1, <2>2, <2>3, <2>4, <2>5, <2>6
  <1> HIDE DEF new
  <1>2. d.have \subseteq new.have /\ new.broken = d.broken
    BY <1>1
  <1>3. s \in Planned => /\ s.do \in {"create", "add", "index"} /\ "table" \notin s.cols
                         /\ s.do = "create" => s.cols = Columns(s.entity)
    BY PlannedFacts
  <1>4. \A e : "table" \notin s.cols => Table(e) \notin ColumnsOf(s.entity, s.cols)
    BY DEF Table, ColumnsOf
  <1>5. ASSUME s \in Planned \/ s.do = "undo", NEW e \in DOMAIN Entities, Whole(d, e) PROVE Whole(new, e)
    <2> SUFFICES ASSUME Table(e) \in new.have PROVE ColumnsOf(e, Columns(e)) \subseteq new.have
      BY DEF Whole
    <2>1. CASE Table(e) \in d.have
      BY <1>2, <1>5, <2>1 DEF Whole
    <2>2. CASE Table(e) \notin d.have
      <3>1. s \in Planned /\ s.do = "create" /\ Table(e) = Table(s.entity)
        BY <1>1, <1>3, <1>4, <1>5, <2>2
      <3>2. e = s.entity
        BY <3>1 DEF Table
      <3> QED
        BY <1>1, <1>3, <2>2, <3>1, <3>2
    <2> QED
      BY <2>1, <2>2
  <1>6. ASSUME s \in Planned
        PROVE  /\ new.have \subseteq d.have \cup Adding(s)
               /\ \A r : Table(r) \in Adding(s) => Table(r) \in new.have
               /\ (s.do = "create" => Whole(d, s.entity)) => Adding(s) \subseteq There(new)
    <2>1. CASE s.do = "create"
      <3>1. Adding(s) = ColumnsOf(s.entity, s.cols) \cup {Table(s.entity)}
        BY <2>1 DEF Adding
      <3>2. Table(s.entity) \in new.have
        BY <1>1, <2>1
      <3>3. \A r : Table(r) \in Adding(s) => Table(r) = Table(s.entity)
        BY <1>3, <1>4, <1>6, <3>1
      <3>4. Whole(d, s.entity) => ColumnsOf(s.entity, s.cols) \subseteq new.have
        BY <1>1, <1>3, <1>6, <2>1 DEF Whole
      <3> QED
        BY <1>1, <2>1, <3>1, <3>2, <3>3, <3>4 DEF There
    <2>2. CASE s.do # "create"
      <3>1. Adding(s) = ColumnsOf(s.entity, s.cols)
        BY <2>2 DEF Adding
      <3> QED
        BY <1>1, <1>3, <1>4, <1>6, <2>2, <3>1 DEF There
    <2> QED
      BY <2>1, <2>2
  <1> QED
    BY <1>2, <1>5, <1>6 DEF new

LEMMA NewApplies ==
  ASSUME NEW s \in Planned, NEW d, New(d, s), Needs(s) \subseteq d.have
  PROVE  Applies(d, s)
  <1>1. s.do \in {"create", "add", "index"} /\ s.entity \in DOMAIN Entities
    BY PlannedFacts
  <1>2. CASE s.do = "create"
    <2>1. \A r \in Entities[s.entity].refs \ {s.entity} : Table(r) \in d.have
      BY <1>1, <1>2, DepsFact DEF Needs
    <2> QED
      BY <1>2, <2>1 DEF Applies
  <1>3. CASE s.do # "create"
    <2>1. Table(s.entity) \in d.have /\ Adding(s) = ColumnsOf(s.entity, s.cols)
      BY <1>3 DEF Needs, Adding
    <2> QED
      BY <1>1, <1>3, <2>1 DEF Applies, New, There
  <1> QED
    BY <1>2, <1>3

\* The tables of the database and of the transaction.
LEMMA NowBuilds ==
  ASSUME MigrateInv, BootInv, NEW p \in Procs
  PROVE  /\ DOMAIN Now(p) = Parts4 \/ proc[p].pc # "run"
         /\ db.have \subseteq Now(p).have /\ Now(p).broken = db.broken
         /\ Kind(p) # "up" => \A e \in DOMAIN Entities : Whole(db, e) => Whole(Now(p), e)
  <1>1. Own(p) /\ Formed(db) /\ Inside(p)
    BY DEF MigrateInv, Shaped, BootInv, Booting
  <1>2. CASE proc[p].intx
    BY <1>1, <1>2 DEF Own, Viewed, Formed, Inside, Now
  <1>3. CASE ~proc[p].intx
    BY <1>1, <1>3 DEF Formed, Now
  <1> QED
    BY <1>2, <1>3

\* A statement that is executed, in the transaction or by itself.
LEMMA ExecutesBoots ==
  ASSUME MigrateInv, BootInv, NEW p \in Procs, proc[p].pc = "run", NEW i \in proc[p].left, NEW apart \in BOOLEAN,
         NEW f, NEW ver, NEW new, new = Exec(Now(p), proc[p].stmts[i], f, ver), ~proc[p].intx => apart,
         \A j \in proc[p].left : i <= j,
         proc' = [proc EXCEPT ![p].left = @ \ {i}, ![p].view = IF apart THEN None ELSE new, ![p].intx = ~apart],
         db' = IF apart THEN new ELSE db, UNCHANGED <<server, lock, writer>>
  PROVE  BootInv'
  <1> DEFINE s == proc[p].stmts[i]
             E == DOMAIN Entities
  <1>1. /\ Moves(p) /\ proc'[p].pc = "run" /\ proc'[p].saw = proc[p].saw /\ proc'[p].stmts = proc[p].stmts
        /\ proc'[p].left = proc[p].left \ {i} /\ proc'[p].outside = proc[p].outside /\ proc'[p].clean = proc[p].clean
        /\ proc'[p].cmd = proc[p].cmd /\ proc'[p].company = proc[p].company
        /\ proc'[p].intx = ~apart /\ (~apart => proc'[p].view = new)
    <2> DEFINE view == IF apart THEN None ELSE new
               intx == ~apart
    <2> HIDE DEF view, intx
    <2>1. proc' = [proc EXCEPT ![p].left = @ \ {i}, ![p].view = view, ![p].intx = intx]
      BY DEF view, intx
    <2>2. DOMAIN proc = Procs /\ DOMAIN proc[p] = Fields /\ Active(p)
      BY DEF MigrateInv, Shaped, Active, Ended
    <2>3. DOMAIN proc' = Procs /\ \A q \in Procs \ {p} : proc'[q] = proc[q]
      BY <2>1, <2>2
    <2>4. /\ proc'[p].pc = "run" /\ proc'[p].saw = proc[p].saw /\ proc'[p].stmts = proc[p].stmts
          /\ proc'[p].left = proc[p].left \ {i} /\ proc'[p].outside = proc[p].outside /\ proc'[p].clean = proc[p].clean
          /\ proc'[p].cmd = proc[p].cmd /\ proc'[p].company = proc[p].company
          /\ proc'[p].intx = intx /\ proc'[p].view = view
      BY <2>1, <2>2 DEF Fields
    <2> QED
      BY <2>2, <2>3, <2>4 DEF Moves, view, intx
  <1>2. Own(p) /\ Booting(p) /\ Active(p) /\ Active(p)' /\ Kind(p)' = Kind(p) /\ writer = p
    BY <1>1, NowFacts DEF MigrateInv, BootInv, Moves, Active, Ended, Kind
  <1>3. /\ DOMAIN Now(p) = Parts4 /\ db.have \subseteq Now(p).have /\ Now(p).broken = db.broken
        /\ Kind(p) # "up" => \A e \in E : Whole(db, e) => Whole(Now(p), e)
    BY NowBuilds
  <1>4. Kind(p) # "up" => s \in Planned \/ s.do = "undo"
    <2>1. Kind(p) \in {"up", "down", "auto"}
      BY <1>2, CommandsFact DEF Own, Commanded, Kind
    <2>2. CASE Kind(p) = "auto"
      BY <1>2, <2>2 DEF Booting, Asked, Carrying
    <2>3. CASE Kind(p) = "down"
      BY <1>2, <2>3 DEF Booting, Asked
    <2> QED
      BY <2>1, <2>2, <2>3
  <1>5. /\ Now(p).have \subseteq new.have /\ new.broken = Now(p).broken
        /\ (s \in Planned \/ s.do = "undo") => \A e \in E : Whole(Now(p), e) => Whole(new, e)
        /\ s \in Planned => /\ new.have \subseteq Now(p).have \cup Adding(s)
                            /\ \A r : Table(r) \in Adding(s) => Table(r) \in new.have
                            /\ (s.do = "create" => Whole(Now(p), s.entity)) => Adding(s) \subseteq There(new)
    <2> DEFINE d == Now(p)
    <2> HIDE DEF d, s
    <2>1. DOMAIN d = Parts4 /\ new = Exec(d, s, f, ver)
      BY <1>3 DEF d, s
    <2>2. LET to == Exec(d, s, f, ver) IN
          /\ d.have \subseteq to.have /\ to.broken = d.broken
          /\ (s \in Planned \/ s.do = "undo") => \A e \in E : Whole(d, e) => Whole(to, e)
          /\ s \in Planned => /\ to.have \subseteq d.have \cup Adding(s)
                              /\ \A r : Table(r) \in Adding(s) => Table(r) \in to.have
                              /\ (s.do = "create" => Whole(d, s.entity)) => Adding(s) \subseteq There(to)
      BY <2>1, ExecBuilds
    <2> QED
      BY <2>1, <2>2 DEF d
  <1>6. Now(p)' = new
    BY <1>1 DEF Now
  <1> HIDE DEF s
  <1>7. db' = db \/ (writer \in {None, p} /\ Builds(p, db'))
    <2>1. Builds(p, new)
      BY <1>3, <1>4, <1>5 DEF Builds
    <2> QED
      BY <1>2, <2>1
  <1>8. db.have \subseteq db'.have /\ There(db) \subseteq There(db') /\ (apart => db' = new) /\ (~apart => db' = db)
    BY <1>7 DEF Builds, There
  <1>9. Inside(p)'
    <2> SUFFICES ASSUME ~apart PROVE Inside(p)'
      BY <1>1 DEF Inside
    <2>1. db.have \subseteq new.have /\ new.broken = db.broken
      BY <1>3, <1>5
    <2>2. Kind(p) # "up" => \A e \in E : Whole(db, e) => Whole(new, e)
      BY <1>3, <1>4, <1>5
    <2> QED
      BY <1>1, <1>2, <1>8, <2>1, <2>2 DEF Inside
  <1>10. Seen(p)'
    BY <1>1, <1>2, <1>8 DEF Booting, Seen, Fetched
  <1>11. Asked(p)'
    BY <1>1, <1>2 DEF Booting, Asked, Carrying, dialect
  <1>12. Waiting(p) = {s} \cup Waiting(p)' /\ Waiting(p)' = {proc[p].stmts[j] : j \in proc[p].left \ {i}} \cup ToSet(proc[p].outside)
    <2>1. Waiting(p)' = {proc[p].stmts[j] : j \in proc[p].left \ {i}} \cup ToSet(proc[p].outside)
      BY <1>1 DEF Waiting
    <2>2. \A j \in proc[p].left : j = i \/ j \in proc[p].left \ {i}
      OBVIOUS
    <2>3. {proc[p].stmts[j] : j \in proc[p].left} = {s} \cup {proc[p].stmts[j] : j \in proc[p].left \ {i}}
      BY <2>2 DEF s
    <2> QED
      BY <2>1, <2>3 DEF Waiting
  <1>13. Kind(p) = "auto" => /\ s \in Planned /\ proc[p].left \subseteq DOMAIN proc[p].stmts /\ proc[p].stmts \in Seq(Planned)
                             /\ \A t \in Waiting(p) : t \in Planned
    BY <1>2 DEF Booting, Asked, Carrying, Waiting, ToSet, s
  <1>14. OnTrack(p)'
    <2> SUFFICES ASSUME Kind(p) = "auto", Undisturbed(p)
                 PROVE  /\ \A x \in Objects : x \in There(new) \/ Added(Waiting(p)', x)
                        /\ \A t \in Waiting(p)' : t.do = "create" => Whole(new, t.entity)
      BY <1>1, <1>2, <1>6 DEF OnTrack, Undisturbed
    <2>1. /\ \A x \in Objects : x \in There(Now(p)) \/ Added(Waiting(p), x)
          /\ \A t \in Waiting(p) : t.do = "create" => Whole(Now(p), t.entity)
      BY <1>2 DEF Booting, OnTrack, Carrying
    <2>2. Adding(s) \subseteq There(new)
      BY <1>5, <1>12, <1>13, <2>1
    <2>3. There(Now(p)) \subseteq There(new)
      BY <1>5 DEF There
    <2>4. \A x : Added(Waiting(p), x) => x \in Adding(s) \/ Added(Waiting(p)', x)
      BY <1>12 DEF Added
    <2>5. \A t \in Waiting(p)' : t.do = "create" => t.entity \in E
      BY <1>12, <1>13, PlannedFacts
    <2> QED
      BY <1>5, <1>12, <1>13, <2>1, <2>2, <2>3, <2>4, <2>5
  <1>15. Undistracted(p)'
    <2> SUFFICES ASSUME OnItsOwn(p) PROVE Informed(p)' /\ Runnable(p)'
      BY <1>1, <1>2 DEF Undistracted, OnItsOwn
    <2>1. Runnable(p) /\ Kind(p) = "auto"
      BY <1>2 DEF Booting, Undistracted, OnItsOwn
    <2>2. Informed(p)'
      BY <1>1 DEF Informed, Fetched
    <2> DEFINE left == proc[p].left \ {i}
               st(j) == proc[p].stmts[j]
    <2>3. /\ \A j \in proc[p].left : /\ New(Now(p), st(j))
                                     /\ \A k \in proc[p].left : k # j => Adding(st(j)) \cap Adding(st(k)) = {}
                                     /\ \A x \in Needs(st(j)) : x \in Now(p).have \/ \E k \in proc[p].left : k < j /\ x \in Adding(st(k))
          /\ \A t \in ToSet(proc[p].outside) : \A x \in Needs(t) :
                x \in Now(p).have \/ \E j \in proc[p].left : x \in Adding(st(j))
      BY <2>1 DEF Runnable, Feasible, Carrying
    <2>4. \A j \in left : Adding(st(j)) \cap Adding(s) = {}
      BY <2>3 DEF s
    <2>5. \A j \in left : New(new, st(j))
      BY <1>5, <1>13, <2>1, <2>3, <2>4 DEF New, There
    <2>6. \A t : \A x \in Needs(t) : x \in Adding(s) => x \in new.have
      <3>1. \A t : \A x \in Needs(t) : \E r : x = Table(r)
        BY DEF Needs
      <3> QED
        BY <1>5, <1>13, <2>1, <3>1
    <2>7. \A j \in left : \A x \in Needs(st(j)) : x \in new.have \/ \E k \in left : k < j /\ x \in Adding(st(k))
      <3> TAKE j \in left
      <3> TAKE x \in Needs(st(j))
      <3>1. x \in Now(p).have \/ \E k \in proc[p].left : k < j /\ x \in Adding(st(k))
        BY <2>3
      <3>2. \A k \in proc[p].left : k = i => st(k) = s
        BY DEF s
      <3> QED
        BY <1>5, <2>6, <3>1, <3>2
    <2>8. \A t \in ToSet(proc[p].outside) : \A x \in Needs(t) : x \in new.have \/ \E k \in left : x \in Adding(st(k))
      <3> TAKE t \in ToSet(proc[p].outside)
      <3> TAKE x \in Needs(t)
      <3>1. x \in Now(p).have \/ \E k \in proc[p].left : x \in Adding(st(k))
        BY <2>3
      <3>2. \A k \in proc[p].left : k = i => st(k) = s
        BY DEF s
      <3> QED
        BY <1>5, <2>6, <3>1, <3>2
    <2>9. \A j \in left : \A k \in left : k # j => Adding(st(j)) \cap Adding(st(k)) = {}
      BY <2>3
    <2>10. Runnable(p)'
      <3>1. Feasible(new, left, proc[p].stmts, proc[p].outside)
        BY <2>5, <2>7, <2>8, <2>9 DEF Feasible
      <3>2. proc'[p].left = left /\ proc'[p].outside = proc[p].outside /\ proc'[p].stmts = proc[p].stmts
        BY <1>1
      <3> HIDE DEF left
      <3> QED
        BY <1>6, <3>1, <3>2 DEF Runnable
    <2> QED
      BY <2>2, <2>10
  <1>16. Provided(p)'
    BY <1>1 DEF Provided, Ready
  <1> QED
    BY <1>1, <1>2, <1>7, <1>9, <1>10, <1>11, <1>14, <1>15, <1>16, MoveBoots DEF Booting

LEMMA RunBoots ==
  ASSUME MigrateInv, BootInv, NEW p \in Procs, Run(p)
  PROVE  BootInv'
  <1>1. PICK i \in proc[p].left :
          LET s == proc[p].stmts[i]
              auto == proc[p].cmd.kind = "auto"
              new == Exec(Now(p), s, IF auto THEN None ELSE proc[p].file.number, IF auto THEN None ELSE proc[p].file.ver)
              apart == ~proc[p].intx \/ EndsTx(s)
          IN /\ \A j \in proc[p].left : i <= j
             /\ \/ /\ (Leave(p, "failed") /\ ~Applies(Now(p), s)) \/ Leave(p, "refused")
                   /\ db' = Before(p, s)
                \/ /\ proc' = [proc EXCEPT ![p].left = @ \ {i}, ![p].view = IF apart THEN None ELSE new, ![p].intx = ~apart]
                   /\ db' = IF apart THEN new ELSE db
                   /\ UNCHANGED <<lock, writer>>
    BY DEF Run
  <1> DEFINE s == proc[p].stmts[i]
             f == IF proc[p].cmd.kind = "auto" THEN None ELSE proc[p].file.number
             ver == IF proc[p].cmd.kind = "auto" THEN None ELSE proc[p].file.ver
             new == Exec(Now(p), s, f, ver)
             apart == ~proc[p].intx \/ EndsTx(s)
  <1>2. proc[p].pc = "run" /\ UNCHANGED server /\ Active(p) /\ \A j \in proc[p].left : i <= j
    BY <1>1 DEF Run, Active, Ended
  <1>3. CASE ((Leave(p, "failed") /\ ~Applies(Now(p), s)) \/ Leave(p, "refused")) /\ db' = Before(p, s)
    <2>1. ~Applies(Now(p), s) => ~OnItsOwn(p)
      <3> SUFFICES ASSUME OnItsOwn(p) PROVE Applies(Now(p), s)
        OBVIOUS
      <3>1. Booting(p) /\ Kind(p) = "auto"
        BY DEF BootInv, OnItsOwn
      <3>2. Feasible(Now(p), proc[p].left, proc[p].stmts, proc[p].outside)
        BY <1>2, <3>1 DEF Booting, Undistracted, Runnable, Carrying
      <3>3. proc[p].stmts \in Seq(Planned) /\ proc[p].left \subseteq DOMAIN proc[p].stmts
        BY <1>2, <3>1 DEF Booting, Asked, Carrying
      <3>4. s \in Planned /\ New(Now(p), s)
        BY <3>2, <3>3 DEF Feasible
      <3>5. \A j \in proc[p].left : ~(j < i)
        BY <1>2, <3>3
      <3>6. Needs(s) \subseteq Now(p).have
        BY <3>2, <3>5 DEF Feasible
      <3> HIDE DEF s
      <3> QED
        BY <3>4, <3>6, NewApplies
    <2> HIDE DEF s
    <2>2. Builds(p, Now(p)) /\ writer = p
      BY <1>2, NowBuilds, NowFacts DEF Builds
    <2>3. db' = db \/ (writer \in {None, p} /\ Builds(p, db'))
      BY <1>3, <2>2 DEF Before
    <2> QED
      BY <1>2, <1>3, <2>1, <2>3, StoppedBoots
  <1>4. CASE /\ proc' = [proc EXCEPT ![p].left = @ \ {i}, ![p].view = IF apart THEN None ELSE new, ![p].intx = ~apart]
             /\ db' = IF apart THEN new ELSE db
             /\ UNCHANGED <<lock, writer>>
    <2>1. apart \in BOOLEAN /\ (~proc[p].intx => apart)
      OBVIOUS
    <2> HIDE DEF f, ver, apart
    <2>2. new = Exec(Now(p), proc[p].stmts[i], f, ver)
      OBVIOUS
    <2> HIDE DEF new
    <2> QED
      BY <1>2, <1>4, <2>1, <2>2, ExecutesBoots
  <1> QED
    BY <1>1, <1>3, <1>4, Zenon

LEMMA CommitBoots ==
  ASSUME MigrateInv, BootInv, NEW p \in Procs, Commit(p)
  PROVE  BootInv'
  <1>1. proc[p].pc = "run" /\ proc[p].left = {} /\ UNCHANGED server /\ Active(p) /\ writer = p
    BY NowFacts DEF Commit, Active, Ended
  <1>2. CASE Refused(p) /\ Leave(p, "failed") /\ UNCHANGED db
    BY <1>1, <1>2, LeaveBoots DEF Refused, OnItsOwn, Kind
  <1>3. CASE /\ db' = Recorded(p) /\ UNCHANGED lock
             /\ proc' = [proc EXCEPT ![p].view = None, ![p].intx = FALSE, ![p].pc = "outside"]
    <2>1. /\ Moves(p) /\ proc'[p].pc = "outside" /\ ~proc'[p].intx /\ proc'[p].saw = proc[p].saw
          /\ proc'[p].stmts = proc[p].stmts /\ proc'[p].left = proc[p].left /\ proc'[p].outside = proc[p].outside
          /\ proc'[p].clean = proc[p].clean /\ proc'[p].cmd = proc[p].cmd /\ proc'[p].company = proc[p].company
      BY <1>1, <1>3 DEF MigrateInv, Shaped, Fields, Moves
    <2>2. /\ DOMAIN Now(p) = Parts4 /\ db.have \subseteq Now(p).have /\ Now(p).broken = db.broken
          /\ Kind(p) # "up" => \A e \in DOMAIN Entities : Whole(db, e) => Whole(Now(p), e)
      BY <1>1, NowBuilds
    <2>3. db'.have = Now(p).have /\ db'.broken = Now(p).broken
      BY <1>3, <2>2 DEF Recorded, Parts4
    <2>4. Now(p)' = db' /\ Waiting(p)' = Waiting(p) /\ Kind(p)' = Kind(p) /\ Booting(p)
      BY <2>1 DEF Now, Waiting, Kind, BootInv
    <2>5. Builds(p, db')
      BY <2>2, <2>3 DEF Builds, Whole
    <2>6. There(db) \subseteq There(db') /\ db.have \subseteq db'.have /\ There(db') = There(Now(p))
          /\ \A e : Whole(Now(p), e) => Whole(db', e)
      BY <2>2, <2>3 DEF There, Whole
    <2>7. Inside(p)' /\ Seen(p)'
      BY <2>1, <2>4, <2>6 DEF Booting, Inside, Seen, Fetched
    <2>8. Asked(p)'
      BY <1>1, <2>1, <2>4 DEF Booting, Asked, Carrying, dialect
    <2>9. OnTrack(p)'
      BY <1>1, <2>1, <2>4, <2>6 DEF Booting, OnTrack, Carrying, Undisturbed
    <2>10. Undistracted(p)'
      <3> SUFFICES ASSUME OnItsOwn(p)' PROVE Runnable(p)'
        BY <2>1 DEF Undistracted, Informed, Fetched
      <3>1. Feasible(Now(p), proc[p].left, proc[p].stmts, proc[p].outside)
        BY <1>1, <2>1, <2>4 DEF Booting, Undistracted, OnItsOwn, Runnable, Carrying
      <3>2. Feasible(db', proc[p].left, proc[p].stmts, proc[p].outside)
        BY <1>1, <2>3, <3>1 DEF Feasible
      <3> QED
        BY <2>1, <2>4, <3>2 DEF Runnable
    <2>11. Provided(p)'
      BY <2>1 DEF Provided, Ready
    <2>12. Active(p)'
      BY <2>1 DEF Active, Ended
    <2> QED
      BY <1>1, <1>3, <2>1, <2>5, <2>7, <2>8, <2>9, <2>10, <2>11, <2>12, MoveBoots DEF Booting
  <1> QED
    BY <1>2, <1>3 DEF Commit

LEMMA RunOutsideBoots ==
  ASSUME MigrateInv, BootInv, NEW p \in Procs, RunOutside(p)
  PROVE  BootInv'
  <1> DEFINE s == Head(proc[p].outside)
             rest == Tail(proc[p].outside)
             E == DOMAIN Entities
             new == Exec(db, s, None, None)
  <1>1. /\ proc[p].pc = "outside" /\ proc[p].outside # <<>> /\ writer = None /\ UNCHANGED server /\ Active(p) /\ ~proc[p].intx
        /\ Booting(p) /\ Own(p) /\ Now(p) = db /\ DOMAIN db = Parts4
    BY DEF RunOutside, Active, Ended, BootInv, Booting, Inside, MigrateInv, Now, Shaped, Formed
  <1>2. Kind(p) \in {"up", "auto"}
    <2>1. Kind(p) \in {"up", "down", "auto"}
      BY <1>1, CommandsFact DEF Own, Commanded, Kind
    <2> QED
      BY <1>1, <2>1 DEF Booting, Asked
  <1>3. Kind(p) = "auto" => /\ s \in Planned /\ s.do = "index" /\ rest \in Seq({t \in Planned : t.do = "index"})
                            /\ ToSet(proc[p].outside) = {s} \cup ToSet(rest)
                            /\ proc[p].left = {} /\ dialect = "postgres"
    <2> SUFFICES ASSUME Kind(p) = "auto"
                 PROVE  /\ s \in Planned /\ s.do = "index" /\ rest \in Seq({t \in Planned : t.do = "index"})
                        /\ ToSet(proc[p].outside) = {s} \cup ToSet(rest)
                        /\ proc[p].left = {} /\ dialect = "postgres"
      OBVIOUS
    <2> DEFINE I == {t \in Planned : t.do = "index"}
    <2>1. proc[p].outside \in Seq(I) /\ proc[p].left = {} /\ dialect = "postgres"
      BY <1>1 DEF Booting, Asked, Carrying
    <2>2. s \in I => s \in Planned /\ s.do = "index"
      OBVIOUS
    <2> HIDE DEF I
    <2>3. s \in I /\ rest \in Seq(I) /\ ToSet(proc[p].outside) = {s} \cup ToSet(rest)
      BY <1>1, <2>1, TailFacts
    <2> QED
      BY <2>1, <2>2, <2>3 DEF I
  <1> HIDE DEF s, rest
  <1>4. CASE \/ ~Applies(db, s) /\ Leave(p, "failed") /\ UNCHANGED db
             \/ Leave(p, "refused") /\ db' = LeftInvalid(s)
    <2>1. ~Applies(db, s) => ~OnItsOwn(p)
      <3> SUFFICES ASSUME OnItsOwn(p) PROVE Applies(db, s)
        OBVIOUS
      <3>1. Feasible(db, {}, proc[p].stmts, proc[p].outside) /\ Kind(p) = "auto"
        BY <1>1, <1>3 DEF Booting, Undistracted, Runnable, Carrying, OnItsOwn
      <3>2. Needs(s) \subseteq db.have
        BY <1>3, <3>1 DEF Feasible
      <3>3. Table(s.entity) \in db.have
        BY <1>3, <3>1, <3>2 DEF Needs
      <3> QED
        BY <1>3, <3>1, <3>3 DEF Applies
    <2>2. LeftInvalid(s) = db \/ \E broken : db.broken \subseteq broken /\ LeftInvalid(s) = [db EXCEPT !.broken = broken]
      BY DEF LeftInvalid
    <2>3. db' = db \/ (writer \in {None, p} /\ Builds(p, db'))
      BY <1>1, <1>4, <2>2 DEF Builds, Whole, Parts4
    <2> QED
      BY <1>1, <1>4, <2>1, <2>3, StoppedBoots
  <1>5. CASE db' = new /\ proc' = [proc EXCEPT ![p].outside = Tail(@)] /\ UNCHANGED <<lock, writer>>
    <2>1. /\ Moves(p) /\ proc'[p].pc = "outside" /\ proc'[p].intx = proc[p].intx /\ proc'[p].saw = proc[p].saw
          /\ proc'[p].stmts = proc[p].stmts /\ proc'[p].left = proc[p].left /\ proc'[p].outside = rest
          /\ proc'[p].clean = proc[p].clean /\ proc'[p].cmd = proc[p].cmd /\ proc'[p].company = proc[p].company
      BY <1>1, <1>5 DEF MigrateInv, Shaped, Fields, Moves, rest
    <2>2. /\ db.have \subseteq db'.have /\ db'.broken = db.broken
          /\ s \in Planned => \A e \in E : Whole(db, e) => Whole(db', e)
          /\ (s \in Planned /\ s.do = "index") => Adding(s) \subseteq There(db')
      BY <1>1, <1>5, ExecBuilds
    <2>3. Builds(p, db')
      BY <1>2, <1>3, <2>2 DEF Builds
    <2>4. Now(p)' = db' /\ Kind(p)' = Kind(p) /\ There(db) \subseteq There(db') /\ Active(p)'
      BY <1>1, <2>1, <2>2 DEF Now, Kind, There, Active, Ended
    <2>5. Inside(p)' /\ Seen(p)'
      BY <1>1, <2>1, <2>2, <2>4 DEF Booting, Inside, Seen, Fetched
    <2>6. Asked(p)'
      BY <1>1, <1>2, <1>3, <2>1, <2>4 DEF Booting, Asked, Carrying, dialect
    <2>7. OnTrack(p)'
      <3> SUFFICES ASSUME Kind(p) = "auto", Undisturbed(p)
                   PROVE  /\ \A x \in Objects : x \in There(db') \/ Added(Waiting(p)', x)
                          /\ \A t \in Waiting(p)' : t.do = "create" => Whole(db', t.entity)
        BY <2>1, <2>4 DEF OnTrack, Undisturbed
      <3>1. Waiting(p) = ToSet(proc[p].outside) /\ Waiting(p)' = ToSet(rest)
        BY <1>3, <2>1 DEF Waiting
      <3>2. \A x \in Objects : x \in There(db) \/ Added(Waiting(p), x)
        BY <1>1 DEF Booting, OnTrack, Carrying
      <3>3. \A x \in Objects : x \in There(db') \/ Added(Waiting(p)', x)
        BY <1>3, <2>2, <2>4, <3>1, <3>2 DEF Added
      <3>4. \A t \in ToSet(rest) : t.do = "index"
        BY <1>3 DEF ToSet
      <3> QED
        BY <3>1, <3>3, <3>4
    <2>8. Undistracted(p)'
      <3> SUFFICES ASSUME OnItsOwn(p)' PROVE Runnable(p)'
        BY <2>1 DEF Undistracted, Informed, Fetched
      <3>1. Kind(p) = "auto" /\ Feasible(db, {}, proc[p].stmts, proc[p].outside)
        BY <1>1, <1>3, <2>1, <2>4 DEF Booting, Undistracted, OnItsOwn, Runnable, Carrying
      <3>2. Feasible(db', {}, proc[p].stmts, rest)
        BY <1>3, <2>2, <3>1 DEF Feasible
      <3> QED
        BY <1>3, <2>1, <2>4, <3>1, <3>2 DEF Runnable
    <2>9. Provided(p)'
      BY <2>1 DEF Provided, Ready
    <2> QED
      BY <1>1, <1>5, <2>1, <2>3, <2>4, <2>5, <2>6, <2>7, <2>8, <2>9, MoveBoots DEF Booting
  <1> QED
    BY <1>4, <1>5, Zenon DEF RunOutside, s

LEMMA AfterOutsideBoots ==
  ASSUME MigrateInv, BootInv, NEW p \in Procs, AfterOutside(p)
  PROVE  BootInv'
  <1>1. proc[p].pc = "outside" /\ proc[p].outside = <<>> /\ UNCHANGED <<server, db>> /\ Active(p) /\ Booting(p)
    BY DEF AfterOutside, Active, Ended, BootInv
  <1>2. CASE Kind(p) = "auto"
    <2>1. Waiting(p) = {} /\ Now(p) = db
      BY <1>1, <1>2 DEF Waiting, ToSet, Booting, Asked, Carrying, Inside, Now
    <2>2. Undisturbed(p) => Objects \subseteq There(db)
      BY <1>1, <1>2, <2>1 DEF Booting, OnTrack, Carrying, Added
    <2>3. Leave(p, "ok")
      BY <1>2 DEF AfterOutside, Kind
    <2> QED
      BY <1>1, <2>2, <2>3, LeaveBoots
  <1>3. CASE Kind(p) # "auto"
    <2>1. Goto(p, "next") /\ UNCHANGED lock
      BY <1>3 DEF AfterOutside, Kind
    <2> QED
      BY <1>1, <1>3, <2>1, GotoBoots DEF Ended
  <1> QED
    BY <1>2, <1>3

\* Who starts sees who is under way, and is seen by them.
LEMMA StartBoots ==
  ASSUME MigrateInv, BootInv, NEW p \in Procs, NEW c \in Commands, Start(p, c)
  PROVE  BootInv'
  <1>1. /\ ~Active(p) /\ UNCHANGED <<server, db, lock, writer>>
        /\ DOMAIN proc = Procs /\ \A q \in Procs : DOMAIN proc[q] = Fields
    BY DEF Start, MigrateInv, Shaped
  <1>2. /\ DOMAIN proc' = Procs
        /\ proc'[p] = [Idle EXCEPT !.cmd = c, !.company = {proc[o].cmd.kind : o \in {r \in Procs \ {p} : Active(r)}},
                                   !.pc = IF c.kind \in {"auto", "generate"} THEN "tables" ELSE "lock"]
        /\ \A q \in Procs \ {p} : proc'[q] = IF Active(q) THEN [proc[q] EXCEPT !.company = @ \cup {c.kind}] ELSE proc[q]
    BY DEF Start
  <1>3. /\ proc'[p].cmd = c /\ proc'[p].company = {Kind(o) : o \in {r \in Procs \ {p} : Active(r)}} /\ ~proc'[p].intx
        /\ proc'[p].pc = (IF c.kind \in {"auto", "generate"} THEN "tables" ELSE "lock") /\ proc'[p].saw = {}
    BY <1>2 DEF Idle, Kind
  <1>4. ASSUME NEW q \in Procs \ {p}
        PROVE  /\ Kept(q) /\ proc'[q].cmd = proc[q].cmd /\ (Active(q)' <=> Active(q))
               /\ Active(q) => c.kind \in proc'[q].company
    <2>1. CASE Active(q)
      <3>1. proc'[q] = [proc[q] EXCEPT !.company = @ \cup {c.kind}]
        BY <1>2, <2>1
      <3> QED
        BY <1>1, <2>1, <3>1 DEF Kept, Keeps, Fields, Active
    <2>2. CASE ~Active(q)
      <3>1. proc'[q] = proc[q]
        BY <1>2, <2>2
      <3> QED
        BY <2>2, <3>1 DEF Kept, Keeps, Active
    <2> QED
      BY <2>1, <2>2
  <1>5. \A q \in Procs \ {p} : Booting(q)'
    BY <1>1, <1>4, OtherBooting
  <1>6. Booting(p)'
    <2>1. proc'[p].pc \in {"tables", "lock"} /\ (c.kind = "auto" => proc'[p].pc = "tables")
      BY <1>3
    <2>2. Inside(p)' /\ Seen(p)' /\ Asked(p)' /\ OnTrack(p)'
      BY <1>3, <2>1 DEF Inside, Seen, Asked, OnTrack, Fetched, Carrying, Kind
    <2>3. Undistracted(p)' /\ Provided(p)'
      BY <1>3, <2>1 DEF Undistracted, OnItsOwn, Informed, Runnable, Provided, Ready, Fetched, Carrying, Kind
    <2> QED
      BY <2>2, <2>3 DEF Booting
  <1>7. \A q \in Procs : Acquainted(q)'
    <2> TAKE q \in Procs
    <2>1. ASSUME NEW r \in Procs \ {q}, Active(q)', Active(r)' PROVE Kind(r)' \in proc'[q].company
      <3>1. CASE q = p
        BY <1>3, <1>4, <2>1, <3>1 DEF Kind
      <3>2. CASE r = p
        BY <1>3, <1>4, <2>1, <3>2 DEF Kind
      <3>3. CASE q # p /\ r # p
        <4>1. Acquainted(q)
          BY DEF BootInv
        <4>2. Active(q) /\ Active(r) /\ Kind(r)' = Kind(r)
          BY <1>4, <2>1, <3>3 DEF Kind
        <4> QED
          BY <1>4, <3>3, <4>1, <4>2 DEF Acquainted, Kept
      <3> QED
        BY <3>1, <3>2, <3>3
    <2>2. lock' = q => Active(q)'
      BY <1>1, <1>4 DEF BootInv, Acquainted
    <2> QED
      BY <2>1, <2>2 DEF Acquainted
  <1> QED
    BY <1>1, <1>5, <1>6, <1>7 DEF BootInv

\* Who met a fault has nothing to say about it.
LEMMA FaultBoots ==
  ASSUME MigrateInv, BootInv, NEW p \in Procs, NEW how \in {"failed", "dead"}, Fault(p, how)
  PROVE  BootInv'
  <1>1. /\ Active(p) /\ UNCHANGED server /\ lock' \in {lock, None, p} /\ lock' # p
        /\ proc' = [proc EXCEPT ![p] = [Idle EXCEPT !.pc = how, !.cmd = proc[p].cmd, !.company = proc[p].company, !.clean = FALSE]]
    BY NumbersFact DEF Fault
  <1>2. Moves(p) /\ proc'[p].pc = how /\ ~proc'[p].intx /\ proc'[p].saw = {} /\ proc'[p].clean = FALSE
    BY <1>1 DEF MigrateInv, Shaped, Idle, Moves
  <1>3. db' = db \/ (writer \in {None, p} /\ Builds(p, db'))
    <2>1. DOMAIN db = Parts4
      BY DEF MigrateInv, Shaped, Formed
    <2>2. db' = db \/ (writer = None /\ \E broken : db.broken \subseteq broken /\ db' = [db EXCEPT !.broken = broken])
      BY DEF Fault, CutShort, LeftInvalid
    <2> QED
      BY <2>1, <2>2 DEF Builds, Whole, Parts4
  <1>4. how \notin Fetched \cup Carrying \cup {"ok", "run"}
    BY DEF Fetched, Carrying
  <1>5. Inside(p)' /\ Seen(p)' /\ Asked(p)' /\ OnTrack(p)'
    BY <1>2, <1>4 DEF Inside, Seen, Asked, OnTrack, Carrying
  <1>6. Undistracted(p)' /\ Provided(p)'
    BY <1>2, <1>4 DEF Undistracted, OnItsOwn, Provided, Ready
  <1> QED
    BY <1>1, <1>2, <1>3, <1>5, <1>6, MoveBoots DEF Booting

LEMMA SameBoots ==
  ASSUME MigrateInv, BootInv, UNCHANGED <<server, db, proc>>, lock' \in {lock, None}
  PROVE  BootInv'
  <1>1. \A q \in Procs : Kept(q)
    BY DEF Kept, Keeps
  <1>2. \A q \in Procs : Booting(q)'
    BY <1>1, OtherBooting, NumbersFact
  <1>3. \A q \in Procs : Acquainted(q)'
    BY NumbersFact DEF BootInv, Acquainted, Active, Kind
  <1> QED
    BY <1>2, <1>3 DEF BootInv

LEMMA InitBootInv == Init => BootInv
  <1> SUFFICES ASSUME Init PROVE BootInv
    OBVIOUS
  <1>1. lock = None /\ \A p \in Procs : proc[p] = Idle
    BY DEF Init
  <1>2. \A p \in Procs : Acquainted(p)
    BY <1>1, NumbersFact DEF Acquainted, Active, Ended, Idle
  <1>3. \A p \in Procs : Inside(p) /\ Seen(p) /\ Asked(p) /\ OnTrack(p)
    BY <1>1 DEF Inside, Seen, Asked, OnTrack, Fetched, Carrying, Idle
  <1>4. \A p \in Procs : Undistracted(p) /\ Provided(p)
    BY <1>1 DEF Undistracted, OnItsOwn, Provided, Ready, Idle
  <1> QED
    BY <1>1, <1>2, <1>3, <1>4 DEF BootInv, Booting

LEMMA NextBootInv ==
  ASSUME Creatable, MigrateInv, BootInv, Next
  PROVE  BootInv'
  <1>1. ASSUME NEW p \in Procs, Step(p) PROVE BootInv'
    BY <1>1, FetchBoots, AutoMigrateBoots, GenerateBoots, AcquireLockBoots, LockTimeoutBoots, VerifyBoots, StatusBoots,
       ReadFileBoots, FinishBoots, BeginBoots, RunBoots, CommitBoots, RunOutsideBoots, AfterOutsideBoots DEF Step
  <1>2. ASSUME NEW p \in Procs, LoseLock(p) PROVE BootInv'
    BY <1>2, SameBoots DEF LoseLock
  <1>3. ASSUME NEW f \in DOMAIN StartFiles, Edit(f) PROVE BootInv'
    BY <1>3, SameBoots DEF Edit
  <1> QED
    BY <1>1, <1>2, <1>3, StartBoots, FaultBoots DEF Next

-----------------------------------------------------------------------------
(* Seeds *)

RunPcs == {"ready", "row", "insert", "done", "failed"}
Size == Len(file)
Keys == {table[i] : i \in DOMAIN table}
Wanted(i) == S!PrepareUserRow(file[i]).key
Stands(r) == Wanted(run[r].row) \in Keys
Once == \A i, j \in DOMAIN table : table[i] = table[j] => i = j

\* Users' emails are kept in their stored form, so two rows of one user have one key.
Stored == \A i \in DOMAIN table : table[i] \in DOMAIN Lower /\ (S!Users => Lower[table[i]] = table[i])

\* Where a run is, and the rows it has passed.
Passing(r) ==
    /\ run[r].pc \in RunPcs /\ run[r].row \in 1 .. Size + 1
    /\ run[r].pc = "insert" => run[r].row <= Size /\ ~S!Unusable(file[run[r].row])
    /\ run[r].pc \in {"row", "insert", "done"} => \A i \in 1 .. run[r].row - 1 : Wanted(i) \in Keys
    /\ run[r].pc = "done" => run[r].row = Size + 1

SeedShape ==
    /\ file \in SeedFiles /\ unique \in BOOLEAN
    /\ table \in Seq(DOMAIN Lower)
    /\ DOMAIN run = Runs /\ \A r \in Runs : DOMAIN run[r] = {"pc", "row"}

\* Runs that never overlapped work one at a time, so what one of them did not find is still absent.
SeedsInv ==
    /\ SeedShape /\ Stored
    /\ \A r \in Runs : Passing(r)
    /\ ~overlapped => \A r, o \in Runs : ~S!Over(r) /\ ~S!Over(o) => r = o
    /\ (unique \/ ~overlapped) => Once
    /\ (~unique /\ ~overlapped) => \A r \in Runs : run[r].pc = "insert" => ~Stands(r)

LEMMA FilesOfSeeds ==
  ASSUME file \in SeedFiles
  PROVE  /\ Size \in Nat /\ DOMAIN file = 1 .. Size
         /\ \A i, j \in DOMAIN file : file[i].entity = file[j].entity
         /\ \A i \in DOMAIN file : file[i].key \in DOMAIN Lower \cup {NoKey}
         /\ NoKey \notin DOMAIN Lower
         /\ \A e \in DOMAIN Lower : Lower[e] \in DOMAIN Lower /\ Lower[Lower[e]] = Lower[e]
  BY SeedsAssumed DEF S!SeedsAssumption, Size

\* The key of a usable row is in its stored form.
LEMMA PreparedKey ==
  ASSUME file \in SeedFiles, NEW i \in DOMAIN file, ~S!Unusable(file[i])
  PROVE  Wanted(i) \in DOMAIN Lower /\ (S!Users => Lower[Wanted(i)] = Wanted(i))
  <1>1. file[i].key \in DOMAIN Lower
    BY FilesOfSeeds DEF S!Unusable
  <1>2. CASE file[i].entity # "User"
    BY <1>1, <1>2, FilesOfSeeds DEF Wanted, S!PrepareUserRow, S!Users
  <1>3. CASE file[i].entity = "User"
    <2>1. Wanted(i) = Lower[file[i].key]
      BY <1>1, <1>3, FilesOfSeeds DEF Wanted, S!PrepareUserRow
    <2> QED
      BY <1>1, <2>1, FilesOfSeeds
  <1> QED
    BY <1>2, <1>3

LEMMA PresentKeys ==
  /\ \A k : S!Present(k) <=> k \in Keys
  /\ \A r : S!Present(S!Row(r).key) <=> Stands(r)
  BY DEF S!Present, S!Row, Keys, Wanted, Stands

\* A row more: what was present stays so.
LEMMA AppendedRow ==
  ASSUME SeedShape, NEW key \in DOMAIN Lower, table' = Append(table, key)
  PROVE  /\ table' \in Seq(DOMAIN Lower) /\ Len(table) \in Nat /\ DOMAIN table = 1 .. Len(table)
         /\ DOMAIN table' = 1 .. Len(table) + 1 /\ table'[Len(table) + 1] = key
         /\ \A i \in 1 .. Len(table) : table'[i] = table[i]
  BY DEF SeedShape

LEMMA GrowTable ==
  ASSUME SeedsInv, NEW key \in DOMAIN Lower, S!Users => Lower[key] = key, (unique \/ ~overlapped) => key \notin Keys,
         table' = Append(table, key), UNCHANGED <<file, unique>>, overlapped => overlapped'
  PROVE  /\ table' \in Seq(DOMAIN Lower) /\ Stored' /\ ((unique' \/ ~overlapped') => Once')
         /\ Keys \subseteq Keys'
  <1> DEFINE n == Len(table)
  <1>1. /\ table' \in Seq(DOMAIN Lower) /\ n \in Nat /\ DOMAIN table = 1 .. n
        /\ DOMAIN table' = 1 .. n + 1 /\ table'[n + 1] = key
        /\ \A i \in 1 .. n : table'[i] = table[i]
    BY AppendedRow DEF SeedsInv
  <1> HIDE DEF n
  <1>2. \A i \in 1 .. n + 1 : i \in 1 .. n \/ i = n + 1
    BY <1>1
  <1>3. S!Users' <=> S!Users
    BY DEF S!Users
  <1>4. Stored'
    BY <1>1, <1>2, <1>3 DEF SeedsInv, Stored
  <1>5. ASSUME unique \/ ~overlapped, NEW i \in 1 .. n + 1, NEW j \in 1 .. n + 1, table'[i] = table'[j]
        PROVE  i = j
    <2>1. \A k \in 1 .. n : table[k] # key
      BY <1>1, <1>5 DEF Keys
    <2>2. Once
      BY <1>5 DEF SeedsInv
    <2> QED
      BY <1>1, <1>2, <1>5, <2>1, <2>2 DEF Once
  <1>6. (unique' \/ ~overlapped') => Once'
    BY <1>1, <1>5 DEF Once
  <1>7. Keys \subseteq Keys'
    BY <1>1 DEF Keys
  <1> QED
    BY <1>1, <1>4, <1>6, <1>7

LEMMA SameTable ==
  ASSUME SeedsInv, UNCHANGED <<table, file, unique>>, overlapped => overlapped'
  PROVE  /\ table' \in Seq(DOMAIN Lower) /\ Stored' /\ ((unique' \/ ~overlapped') => Once')
         /\ Keys \subseteq Keys'
  <1>1. table' \in Seq(DOMAIN Lower)
    BY DEF SeedsInv, SeedShape
  <1>2. Stored'
    BY DEF SeedsInv, Stored, S!Users
  <1>3. (unique' \/ ~overlapped') => Once'
    BY DEF SeedsInv, Once
  <1>4. Keys \subseteq Keys'
    BY DEF Keys
  <1> QED
    BY <1>1, <1>2, <1>3, <1>4

\* A step of a run that is under way: what is left to show is where it gets to.
LEMMA UnderWay ==
  ASSUME SeedsInv, NEW r \in Runs, ~S!Over(r), NEW to, run' = [run EXCEPT ![r] = to], DOMAIN to = {"pc", "row"},
         UNCHANGED <<file, unique, overlapped>>,
         table' \in Seq(DOMAIN Lower), Stored', (unique' \/ ~overlapped') => Once',
         Keys \subseteq Keys',
         Passing(r)', (~unique /\ ~overlapped /\ to.pc = "insert") => ~Stands(r)'
  PROVE  SeedsInv'
  <1>1. /\ DOMAIN run = Runs /\ run'[r] = to /\ DOMAIN run' = Runs
        /\ \A q \in Runs \ {r} : run'[q] = run[q]
    BY DEF SeedsInv, SeedShape
  <1>2. SeedShape'
    BY <1>1 DEF SeedsInv, SeedShape
  <1>3. ASSUME NEW q \in Runs PROVE Passing(q)'
    <2>1. CASE q # r
      BY <1>1, <2>1 DEF SeedsInv, Passing, Size, S!Unusable, Wanted
    <2> QED
      BY <2>1
  <1>4. \A q \in Runs : S!Over(q) => S!Over(q)' \/ q = r
    BY <1>1 DEF S!Over
  <1>5. ~overlapped' => \A q, o \in Runs : ~S!Over(q)' /\ ~S!Over(o)' => q = o
    BY <1>4 DEF SeedsInv
  <1>6. (~unique' /\ ~overlapped') => \A q \in Runs : run'[q].pc = "insert" => ~Stands(q)'
    <2> SUFFICES ASSUME ~unique, ~overlapped, NEW q \in Runs, run'[q].pc = "insert" PROVE ~Stands(q)'
      OBVIOUS
    <2>1. q = r
      BY <1>1 DEF SeedsInv, S!Over
    <2> QED
      BY <1>1, <2>1
  <1> QED
    BY <1>2, <1>3, <1>5, <1>6 DEF SeedsInv

LEMMA RowExistsStep ==
  ASSUME SeedsInv, NEW r \in Runs, S!RowExists(r)
  PROVE  SeedsInv'
  <1> DEFINE i == run[r].row
  <1>1. /\ run[r].pc = "row" /\ ~S!Over(r) /\ UNCHANGED <<file, unique, table, overlapped>>
        /\ i \in Nat /\ i \in 1 .. Size /\ Size \in Nat /\ i \in DOMAIN file /\ Passing(r)
        /\ DOMAIN run = Runs /\ DOMAIN run[r] = {"pc", "row"} /\ file \in SeedFiles
    BY FilesOfSeeds DEF SeedsInv, SeedShape, S!RowExists, S!Over, Passing, Size
  <1>2. /\ table' \in Seq(DOMAIN Lower) /\ Stored' /\ ((unique' \/ ~overlapped') => Once')
        /\ Keys \subseteq Keys'
    BY <1>1, SameTable
  <1>3. CASE S!Unusable(file[i])
    <2> DEFINE to == [run[r] EXCEPT !.pc = "failed"]
    <2>1. run' = [run EXCEPT ![r] = to] /\ DOMAIN to = {"pc", "row"} /\ to.pc = "failed" /\ to.row = i
      BY <1>1, <1>3 DEF S!RowExists, S!To
    <2> HIDE DEF to
    <2>2. Passing(r)'
      BY <1>1, <2>1 DEF Passing, RunPcs, Size
    <2> QED
      BY <1>1, <1>2, <2>1, <2>2, UnderWay
  <1>4. CASE ~S!Unusable(file[i]) /\ Stands(r)
    <2> DEFINE to == [run[r] EXCEPT !.pc = "row", !.row = @ + 1]
    <2>1. run' = [run EXCEPT ![r] = to] /\ DOMAIN to = {"pc", "row"} /\ to.pc = "row" /\ to.row = i + 1
      BY <1>1, <1>4, PresentKeys DEF S!RowExists, S!NextRow
    <2> HIDE DEF to
    <2>2. run'[r].pc = "row" /\ run'[r].row = i + 1
      BY <1>1, <2>1
    <2>3. \A k \in 1 .. i : Wanted(k) \in Keys
      BY <1>1, <1>4 DEF Passing, Stands
    <2>4. \A k \in 1 .. i : Wanted(k)' \in Keys'
      BY <1>1, <1>2, <2>3 DEF Wanted
    <2>5. Passing(r)'
      BY <1>1, <2>2, <2>4 DEF Passing, RunPcs, Size
    <2> QED
      BY <1>1, <1>2, <2>1, <2>5, UnderWay
  <1>5. CASE ~S!Unusable(file[i]) /\ ~Stands(r)
    <2> DEFINE to == [run[r] EXCEPT !.pc = "insert"]
    <2>1. run' = [run EXCEPT ![r] = to] /\ DOMAIN to = {"pc", "row"} /\ to.pc = "insert" /\ to.row = i
      BY <1>1, <1>5, PresentKeys DEF S!RowExists, S!To
    <2> HIDE DEF to
    <2>2. run'[r].pc = "insert" /\ run'[r].row = i
      BY <1>1, <2>1
    <2>3. Passing(r)'
      <3>1. \A k \in 1 .. i - 1 : Wanted(k)' \in Keys'
        BY <1>1, <1>2 DEF Passing, Wanted
      <3>2. ~S!Unusable(file'[run'[r].row])
        BY <1>1, <1>5, <2>2
      <3> QED
        BY <1>1, <2>2, <3>1, <3>2 DEF Passing, RunPcs, Size
    <2>4. ~Stands(r)'
      BY <1>1, <1>5, <2>2 DEF Stands, Wanted, Keys
    <2> QED
      BY <1>1, <1>2, <2>1, <2>3, <2>4, UnderWay
  <1> QED
    BY <1>3, <1>4, <1>5

LEMMA InsertRowStep ==
  ASSUME SeedsInv, NEW r \in Runs, S!InsertRow(r)
  PROVE  SeedsInv'
  <1> DEFINE i == run[r].row
  <1>1. /\ run[r].pc = "insert" /\ ~S!Over(r) /\ UNCHANGED <<file, unique, overlapped>>
        /\ i \in Nat /\ i \in 1 .. Size /\ Size \in Nat /\ i \in DOMAIN file /\ Passing(r) /\ ~S!Unusable(file[i])
        /\ DOMAIN run = Runs /\ DOMAIN run[r] = {"pc", "row"} /\ file \in SeedFiles
    BY FilesOfSeeds DEF SeedsInv, SeedShape, S!InsertRow, S!Over, Passing, Size
  <1>2. CASE unique /\ Stands(r)
    <2> DEFINE to == [run[r] EXCEPT !.pc = "failed"]
    <2>1. run' = [run EXCEPT ![r] = to] /\ DOMAIN to = {"pc", "row"} /\ to.pc = "failed" /\ to.row = i /\ UNCHANGED table
      BY <1>1, <1>2, PresentKeys DEF S!InsertRow, S!To
    <2> HIDE DEF to
    <2>2. Passing(r)'
      BY <1>1, <2>1 DEF Passing, RunPcs, Size
    <2>3. /\ table' \in Seq(DOMAIN Lower) /\ Stored' /\ ((unique' \/ ~overlapped') => Once')
          /\ Keys \subseteq Keys'
      BY <1>1, <2>1, SameTable
    <2> QED
      BY <1>1, <2>1, <2>2, <2>3, UnderWay
  <1>3. CASE ~(unique /\ Stands(r))
    <2> DEFINE to == [run[r] EXCEPT !.pc = "row", !.row = @ + 1]
    <2>1. run' = [run EXCEPT ![r] = to] /\ DOMAIN to = {"pc", "row"} /\ to.pc = "row" /\ to.row = i + 1
      BY <1>1, <1>3, PresentKeys DEF S!InsertRow, S!NextRow
    <2>2. table' = Append(table, Wanted(i))
      BY <1>3, PresentKeys DEF S!InsertRow, S!Row, Wanted
    <2> HIDE DEF to
    <2>3. Wanted(i) \in DOMAIN Lower /\ (S!Users => Lower[Wanted(i)] = Wanted(i))
      BY <1>1, PreparedKey
    <2>4. (unique \/ ~overlapped) => Wanted(i) \notin Keys
      BY <1>1, <1>3 DEF SeedsInv, Stands
    <2>5. /\ table' \in Seq(DOMAIN Lower) /\ Stored' /\ ((unique' \/ ~overlapped') => Once')
          /\ Keys \subseteq Keys'
      BY <1>1, <2>2, <2>3, <2>4, GrowTable
    <2>6. Wanted(i) \in Keys'
      BY <2>2, <2>3, AppendedRow DEF SeedsInv, Keys
    <2>7. \A k \in 1 .. i : Wanted(k)' \in Keys'
      BY <1>1, <2>5, <2>6 DEF Passing, Wanted
    <2>8. run'[r].pc = "row" /\ run'[r].row = i + 1
      BY <1>1, <2>1
    <2>9. Passing(r)'
      BY <1>1, <2>7, <2>8 DEF Passing, RunPcs, Size
    <2> QED
      BY <1>1, <2>1, <2>5, <2>9, UnderWay
  <1> QED
    BY <1>2, <1>3

LEMMA DoneStep ==
  ASSUME SeedsInv, NEW r \in Runs, S!Done(r)
  PROVE  SeedsInv'
  <1> DEFINE i == run[r].row
             to == [run[r] EXCEPT !.pc = "done"]
  <1>1. /\ run[r].pc = "row" /\ ~S!Over(r) /\ UNCHANGED <<file, unique, table, overlapped>>
        /\ Size \in Nat /\ i = Size + 1 /\ Passing(r)
        /\ DOMAIN run = Runs /\ DOMAIN run[r] = {"pc", "row"} /\ file \in SeedFiles
    BY FilesOfSeeds DEF SeedsInv, SeedShape, S!Done, S!Over, Passing, Size
  <1>2. run' = [run EXCEPT ![r] = to] /\ DOMAIN to = {"pc", "row"} /\ to.pc = "done" /\ to.row = i
    BY <1>1 DEF S!Done, S!To
  <1> HIDE DEF to
  <1>3. /\ table' \in Seq(DOMAIN Lower) /\ Stored' /\ ((unique' \/ ~overlapped') => Once')
        /\ Keys \subseteq Keys'
    BY <1>1, SameTable
  <1>4. run'[r].pc = "done" /\ run'[r].row = i
    BY <1>1, <1>2
  <1>5. \A k \in 1 .. i - 1 : Wanted(k)' \in Keys'
    BY <1>1, <1>3 DEF Passing, Wanted
  <1>6. Passing(r)'
    BY <1>1, <1>4, <1>5 DEF Passing, RunPcs, Size
  <1> QED
    BY <1>1, <1>2, <1>3, <1>6, UnderWay

LEMMA FailStep ==
  ASSUME SeedsInv, NEW r \in Runs, S!Fail(r)
  PROVE  SeedsInv'
  <1> DEFINE i == run[r].row
             to == [run[r] EXCEPT !.pc = "failed"]
  <1>1. /\ ~S!Over(r) /\ UNCHANGED <<file, unique, overlapped>> /\ Passing(r)
        /\ DOMAIN run = Runs /\ DOMAIN run[r] = {"pc", "row"} /\ file \in SeedFiles
    BY DEF SeedsInv, SeedShape, S!Fail
  <1>2. run' = [run EXCEPT ![r] = to] /\ DOMAIN to = {"pc", "row"} /\ to.pc = "failed" /\ to.row = i
    BY <1>1 DEF S!Fail, S!To
  <1> HIDE DEF to
  <1>3. /\ table' \in Seq(DOMAIN Lower) /\ Stored' /\ ((unique' \/ ~overlapped') => Once')
        /\ Keys \subseteq Keys'
    <2>1. CASE UNCHANGED table
      BY <1>1, <2>1, SameTable
    <2>2. CASE run[r].pc = "insert" /\ ~(unique /\ Stands(r)) /\ table' = Append(table, Wanted(i))
      <3>1. i \in DOMAIN file /\ ~S!Unusable(file[i])
        BY <1>1, <2>2, FilesOfSeeds DEF Passing
      <3>2. Wanted(i) \in DOMAIN Lower /\ (S!Users => Lower[Wanted(i)] = Wanted(i))
        BY <1>1, <3>1, PreparedKey
      <3>3. (unique \/ ~overlapped) => Wanted(i) \notin Keys
        BY <1>1, <2>2 DEF SeedsInv, Stands
      <3> QED
        BY <1>1, <2>2, <3>2, <3>3, GrowTable
    <2> QED
      BY <2>1, <2>2, PresentKeys DEF S!Fail, S!Row, Wanted
  <1>4. Passing(r)'
    BY <1>1, <1>2 DEF Passing, RunPcs, Size
  <1> QED
    BY <1>1, <1>2, <1>3, <1>4, UnderWay

\* A run that is started or repeated: none of its rows are passed yet.
LEMMA BeginningStep ==
  ASSUME SeedsInv, NEW r \in Runs, S!Start(r) \/ S!Again(r)
  PROVE  SeedsInv'
  <1>1. /\ DOMAIN run = Runs /\ \A q \in Runs : DOMAIN run[q] = {"pc", "row"}
        /\ file \in SeedFiles /\ Size \in Nat /\ \A q \in Runs : Passing(q)
        /\ UNCHANGED <<file, unique, table>>
    BY FilesOfSeeds DEF SeedsInv, SeedShape, S!Start, S!Again
  <1>2. overlapped => overlapped'
    BY DEF S!Start, S!Again
  <1>3. /\ table' \in Seq(DOMAIN Lower) /\ Stored' /\ ((unique' \/ ~overlapped') => Once')
        /\ Keys \subseteq Keys'
    BY <1>1, <1>2, SameTable
  <1>4. PICK to : /\ run' = [run EXCEPT ![r] = to] /\ DOMAIN to = {"pc", "row"}
                  /\ \/ S!Start(r) /\ to.pc = "row" /\ to.row = 1
                     \/ S!Again(r) /\ to.pc = "ready" /\ to.row = run[r].row
    <2>1. CASE S!Start(r)
      <3> DEFINE to == [pc |-> "row", row |-> 1]
      <3>1. run' = [run EXCEPT ![r] = to] /\ DOMAIN to = {"pc", "row"} /\ to.pc = "row" /\ to.row = 1
        BY <2>1 DEF S!Start
      <3> QED
        BY <2>1, <3>1
    <2>2. CASE S!Again(r)
      <3> DEFINE to == [run[r] EXCEPT !.pc = "ready"]
      <3>1. run' = [run EXCEPT ![r] = to] /\ DOMAIN to = {"pc", "row"} /\ to.pc = "ready" /\ to.row = run[r].row
        BY <1>1, <2>2 DEF S!Again
      <3> QED
        BY <2>2, <3>1
    <2> QED
      BY <2>1, <2>2
  <1>5. run'[r] = to /\ DOMAIN run' = Runs /\ \A q \in Runs \ {r} : run'[q] = run[q]
    BY <1>1, <1>4
  <1>6. SeedShape'
    BY <1>1, <1>3, <1>4, <1>5 DEF SeedsInv, SeedShape
  <1>7. ASSUME NEW q \in Runs PROVE Passing(q)'
    <2>1. CASE q # r
      BY <1>1, <1>3, <1>5, <2>1 DEF Passing, Size, Wanted
    <2>2. CASE q = r /\ to.pc = "row" /\ to.row = 1
      BY <1>1, <1>5, <2>2 DEF Passing, Size, RunPcs
    <2>3. CASE q = r /\ to.pc = "ready" /\ to.row = run[r].row
      BY <1>1, <1>5, <2>3 DEF Passing, Size, RunPcs
    <2> QED
      BY <1>4, <2>1, <2>2, <2>3
  <1>8. ~overlapped' => \A q \in Runs : ~S!Over(q)' => q = r
    BY <1>1, <1>5 DEF S!Start, S!Again, S!Over
  <1>9. to.pc # "insert"
    BY <1>4
  <1>10. (~unique' /\ ~overlapped') => \A q \in Runs : run'[q].pc = "insert" => ~Stands(q)'
    BY <1>5, <1>8, <1>9 DEF S!Over
  <1> QED
    BY <1>3, <1>6, <1>7, <1>8, <1>10 DEF SeedsInv

LEMMA SignUpStep ==
  ASSUME SeedsInv, NEW e \in Signups, S!SignUp(e)
  PROVE  SeedsInv'
  <1>1. UNCHANGED <<file, unique, run, overlapped>> /\ unique /\ table' = Append(table, Lower[e]) /\ Lower[e] \notin Keys
    BY PresentKeys DEF S!SignUp
  <1>2. Lower[e] \in DOMAIN Lower /\ Lower[Lower[e]] = Lower[e]
    BY SeedsAssumed DEF S!SeedsAssumption
  <1>3. /\ table' \in Seq(DOMAIN Lower) /\ Stored' /\ ((unique' \/ ~overlapped') => Once')
        /\ Keys \subseteq Keys'
    BY <1>1, <1>2, GrowTable
  <1>4. SeedShape'
    BY <1>1, <1>3 DEF SeedsInv, SeedShape
  <1>5. \A q \in Runs : Passing(q)'
    BY <1>1, <1>3 DEF SeedsInv, Passing, Size, Wanted
  <1>6. ~overlapped' => \A q, o \in Runs : ~S!Over(q)' /\ ~S!Over(o)' => q = o
    BY <1>1 DEF SeedsInv, S!Over
  <1> QED
    BY <1>1, <1>3, <1>4, <1>5, <1>6 DEF SeedsInv

LEMMA InitSeedsInv == S!Init => SeedsInv
  <1> SUFFICES ASSUME S!Init PROVE SeedsInv
    OBVIOUS
  <1>1. /\ file \in SeedFiles /\ unique \in BOOLEAN /\ table = <<>> /\ run = [r \in Runs |-> [pc |-> "ready", row |-> 1]]
        /\ Size \in Nat
    BY FilesOfSeeds DEF S!Init
  <1>2. SeedShape /\ Stored /\ Once
    BY <1>1 DEF SeedShape, Stored, Once
  <1>3. \A r \in Runs : Passing(r)
    BY <1>1 DEF Passing, RunPcs
  <1> QED
    BY <1>1, <1>2, <1>3 DEF SeedsInv, S!Over

LEMMA NextSeedsInv ==
  ASSUME SeedsInv, S!Next
  PROVE  SeedsInv'
  BY RowExistsStep, InsertRowStep, DoneStep, FailStep, BeginningStep, SignUpStep DEF S!Next, S!Step

LEMMA IdleSeedsInv ==
  ASSUME SeedsInv, UNCHANGED seedVars
  PROVE  SeedsInv'
  <1>1. UNCHANGED <<file, unique, table, run, overlapped>>
    BY DEF seedVars
  <1>2. \A q \in Runs : Passing(q)'
    BY <1>1 DEF SeedsInv, Passing, Size, Wanted, Keys
  <1>3. ~overlapped' => \A q, o \in Runs : ~S!Over(q)' /\ ~S!Over(o)' => q = o
    BY <1>1 DEF SeedsInv, S!Over
  <1>4. SeedShape' /\ Stored' /\ ((unique' \/ ~overlapped') => Once')
    BY <1>1 DEF SeedsInv, SeedShape, Stored, Once, S!Users
  <1>5. (~unique' /\ ~overlapped') => \A q \in Runs : run'[q].pc = "insert" => ~Stands(q)'
    BY <1>1 DEF SeedsInv, Stands, Wanted, Keys
  <1> QED
    BY <1>2, <1>3, <1>4, <1>5 DEF SeedsInv

\* What the invariant says of the seeds: a key has one row, and a run that is done left them all.
LEMMA InvariantSeeds == SeedsInv => S!SeededOnce /\ S!AllSeeded
  <1> SUFFICES ASSUME SeedsInv PROVE S!SeededOnce /\ S!AllSeeded
    OBVIOUS
  <1>1. S!SeededOnce
    BY DEF SeedsInv, Stored, Once, S!SeededOnce, S!Same
  <1>2. ASSUME NEW r \in Runs, run[r].pc = "done", NEW i \in DOMAIN file
        PROVE  S!Present(S!PrepareUserRow(file[i]).key)
    <2>1. Size \in Nat /\ i \in 1 .. Size /\ run[r].row = Size + 1
      BY <1>2, FilesOfSeeds DEF SeedsInv, SeedShape, Passing
    <2>2. Wanted(i) \in Keys
      BY <1>2, <2>1 DEF SeedsInv, Passing
    <2> QED
      BY <2>2, PresentKeys DEF Wanted
  <1> QED
    BY <1>1, <1>2 DEF S!AllSeeded

-----------------------------------------------------------------------------
(* The composition: the operator's commands *)

\* The invariant of the migrations while it is they that run.
MigrationsRun == proc # NoCommand => MigrateInv
SeedsRun == run # NoCommand => SeedsInv

LEMMA MigrationsKeepInvariant == OperationsSpec => []MigrationsRun
  <1>1. OperationsInit => MigrationsRun
    BY InitMigrateInv DEF OperationsInit, MigrateOff, MigrationsRun
  <1>2. MigrationsRun /\ [OperationsNext]_operations => MigrationsRun'
    <2> SUFFICES ASSUME MigrationsRun, [OperationsNext]_operations
                 PROVE  MigrationsRun'
      OBVIOUS
    <2>1. CASE proc # NoCommand /\ Next
      BY <2>1, NextMigrateInv DEF MigrationsRun
    <2>2. CASE UNCHANGED mvars
      <3>1. MigrateInv => MigrateInv'
        BY <2>2, IdleMigrateInv
      <3> QED
        BY <2>2, <3>1 DEF MigrationsRun, mvars
    <2> QED
      BY <2>1, <2>2 DEF OperationsNext, operations
  <1> QED
    BY <1>1, <1>2, PTL DEF OperationsSpec

LEMMA SeedsKeepInvariant == OperationsSpec => []SeedsRun
  <1>1. OperationsInit => SeedsRun
    BY InitSeedsInv DEF OperationsInit, SeedOff, SeedsRun
  <1>2. SeedsRun /\ [OperationsNext]_operations => SeedsRun'
    <2> SUFFICES ASSUME SeedsRun, [OperationsNext]_operations
                 PROVE  SeedsRun'
      OBVIOUS
    <2>1. CASE run # NoCommand /\ S!Next
      BY <2>1, NextSeedsInv DEF SeedsRun
    <2>2. CASE UNCHANGED seedVars
      <3>1. SeedsInv => SeedsInv'
        BY <2>2, IdleSeedsInv
      <3> QED
        BY <2>2, <3>1 DEF SeedsRun, seedVars
    <2> QED
      BY <2>1, <2>2 DEF OperationsNext, operations
  <1> QED
    BY <1>1, <1>2, PTL DEF OperationsSpec

\* What a migration did and its row stand or fall together, through crashes, failing statements
\* and migrators that meet (migration/runner.go: applyMigration, rollbackMigration).
THEOREM EffectRecordedAlways == OperationsSpec => []EffectRecorded
  <1>1. MigrationsRun => EffectRecorded
    BY DEF MigrationsRun, MigrateInv, EffectRecorded
  <1> QED
    BY <1>1, MigrationsKeepInvariant, PTL

\* While the lock is kept, files are applied in order and rolled back from the end
\* (migration/lock.go, migration/runner.go: Up, Down).
THEOREM InFileOrderAlways == OperationsSpec => []InFileOrder
  <1>1. MigrationsRun => InFileOrder
    BY DEF MigrationsRun, MigrateInv, InFileOrder
  <1> QED
    BY <1>1, MigrationsKeepInvariant, PTL

BootsRun == proc # NoCommand => MigrateInv /\ BootInv

\* A server that got past auto_migrate has the whole schema, and one that boots alone is stopped
\* in it by nothing but rows that refuse a constraint to be added to their table (on SQLite, by a
\* unique column to be added), for every schema that the validator lets pass (migration/engine.go:
\* Diff, columnDef, topoSortEntities; server/build.go: autoMigrate).
THEOREM BootReadyAlways == ASSUME Creatable PROVE OperationsSpec => []BootReady
  <1>1. OperationsInit => BootsRun
    BY InitMigrateInv, InitBootInv DEF OperationsInit, MigrateOff, BootsRun
  <1>2. BootsRun /\ [OperationsNext]_operations => BootsRun'
    <2> SUFFICES ASSUME BootsRun, [OperationsNext]_operations
                 PROVE  BootsRun'
      OBVIOUS
    <2>1. CASE proc # NoCommand /\ Next
      BY <2>1, NextMigrateInv, NextBootInv DEF BootsRun
    <2>2. CASE UNCHANGED mvars
      <3>1. MigrateInv => MigrateInv'
        BY <2>2, IdleMigrateInv
      <3>2. (MigrateInv /\ BootInv) => BootInv'
        BY <2>2, SameBoots DEF mvars
      <3> QED
        BY <2>2, <3>1, <3>2 DEF BootsRun, mvars
    <2> QED
      BY <2>1, <2>2 DEF OperationsNext, operations
  <1>3. BootsRun => BootReady
    <2> SUFFICES ASSUME MigrateInv, BootInv PROVE SchemaReady /\ AloneSucceeds
      BY DEF BootsRun, BootReady
    <2>1. SchemaReady
      BY DEF BootInv, Booting, Provided, Undisturbed, SchemaReady
    <2>2. AloneSucceeds
      BY DEF BootInv, Booting, Undistracted, OnItsOwn, AloneSucceeds, Kind
    <2> QED
      BY <2>1, <2>2
  <1> QED
    BY <1>1, <1>2, <1>3, PTL DEF OperationsSpec

\* However often seeding is cut short and repeated, a key has one row, and a run that is done
\* left every key of its file (seed/runner.go: applySeed).
THEOREM SeedsRightAlways == OperationsSpec => []SeedsRight
  <1>1. SeedsRun => SeedsRight
    BY InvariantSeeds DEF SeedsRun, SeedsRight
  <1> QED
    BY <1>1, SeedsKeepInvariant, PTL
=============================================================================

--------------------------- MODULE ServingProofs ---------------------------
(***************************************************************************)
(* The path of a request, for every value of the constants: the bucket of  *)
(* a rate-limited key (LInv), one request in the middleware chain (IInv),  *)
(* and a walk over the pages of a list (WalkInv).  Each part has a lemma   *)
(* for the operators it is built from, one for each kind of step, and one  *)
(* that its invariant implies what the run checks; ServingInv puts the     *)
(* three together, and the theorems at the end follow from it.             *)
(***************************************************************************)
EXTENDS MCServing, FunctionTheorems, FiniteSetTheorems, SequenceTheorems, WellFoundedInduction, TLAPS

\* A nonempty set of natural numbers has a least element.
LEMMA LeastNat ==
  ASSUME NEW S \in SUBSET Nat, S # {}
  PROVE  \E n \in S : \A m \in S : n <= m
  <1>1. PICK n \in S : \A m \in S : ~(<<m, n>> \in OpToRel(<, Nat))
    BY NatLessThanWellFounded, WFMin
  <1>2. \A m \in S : ~(m < n)
    BY <1>1 DEF OpToRel
  <1> QED
    BY <1>2

-----------------------------------------------------------------------------
(* The token bucket *)

\* Between its arrival and its answer.
OnItsWay == {"sweep", "delete", "load", "take"}

\* The requests that got a token of a bucket no sweep had given up.
Clean == {r \in R!Requests : req[r].pc = "done" /\ req[r].ok /\ ~req[r].stray}
CleanIn(a, b) == {r \in Clean : req[r].at \in a .. b}

\* The map holds a bucket that no sweep has given up.
Held == current # None /\ current \notin doomed

\* The time in which a bucket fills up, rounded up.
Refill == Burst \div Rate + 1

ReqType == [pc : {"new", "done"} \cup OnItsWay, at : 0 .. MaxTime, bucket : R!Requests \cup {None},
            ok : BOOLEAN, stray : BOOLEAN]

LTyped ==
    /\ clock \in 0 .. MaxTime /\ lastSweep \in 0 .. clock
    /\ req \in [R!Requests -> ReqType]
    /\ \A r \in R!Requests : req[r].at <= clock /\ (req[r].pc = "take" => req[r].bucket \in DOMAIN buckets)
    /\ DOMAIN buckets \subseteq R!Requests
    /\ \A b \in DOMAIN buckets : /\ buckets[b].tokens \in Int /\ buckets[b].tokens <= Burst
                                 /\ buckets[b].last \in 0 .. MaxTime
    /\ current \in DOMAIN buckets \cup {None}
    /\ doomed \subseteq DOMAIN buckets
    /\ \A r \in DOMAIN buckets : req[r].pc \in {"take", "done"}

\* A request reaches the end of Allow within Pause of its reading of the clock.
OnTime == \A r \in R!Requests : req[r].pc \in OnItsWay => clock <= req[r].at + Pause

\* A bucket the map does not hold was given up by a sweep.
OneHeld == DOMAIN buckets \subseteq doomed \cup {current}

\* One sweep at a time: lastSweep is its own, so a second finds nothing to do.
Sweeping ==
    /\ \A r \in R!Requests : req[r].pc \in {"sweep", "delete"} => lastSweep = req[r].at
    /\ \A r, s \in R!Requests : req[r].pc \in {"sweep", "delete"} /\ req[s].pc \in {"sweep", "delete"} => r = s
    /\ \A r \in R!Requests : req[r].pc = "delete" => current \in doomed

\* The bucket was last refilled no more than a pause before any grant.
Near == Held => \A q \in Clean : req[q].at <= buckets[current].last + Pause

\* Without a bucket, every grant is long enough ago for a new, full one.
Quiet == ~Held => \A q \in Clean : req[q].at + Refill + Pause <= clock

\* Grants of a window and the tokens left are what the bucket held and refilled.
Potential ==
    Held => \A a, b \in 0 .. MaxTime : CleanIn(a, b) # {} =>
        Cardinality(CleanIn(a, b)) + buckets[current].tokens + Rate * a <= Burst + Rate * buckets[current].last

\* GrantsBounded in the words of CleanIn.
Bounded == \A a, b \in 0 .. MaxTime : a <= b => Cardinality(CleanIn(a, b)) <= Burst + Rate * (b - a)

LInv == LTyped /\ OnTime /\ OneHeld /\ Sweeping /\ Near /\ Quiet /\ Potential /\ Bounded

\* The two ways to say it agree.
LEMMA BoundedIsGranted ==
  LTyped => (Bounded <=> R!GrantsBounded)
  <1> SUFFICES ASSUME LTyped PROVE Bounded <=> R!GrantsBounded
    OBVIOUS
  <1>1. \A a, b \in 0 .. MaxTime : CleanIn(a, b) = {r \in R!Granted(a, b) : ~req[r].stray}
    BY DEF CleanIn, Clean, R!Granted
  <1>2. \A S : R!Cardinality(S) = Cardinality(S)
    BY DEF R!Cardinality, Cardinality
  <1> QED
    BY <1>1, <1>2 DEF Bounded, R!GrantsBounded

\* Products of integers, which the solver takes as they come.
LEMMA Times ==
  ASSUME NEW k \in Int, NEW x \in Int, NEW y \in Int
  PROVE  /\ k * x \in Int /\ k * (x - y) = k * x - k * y /\ (x - y) * k = k * x - k * y
         /\ k >= 0 /\ x <= y => k * x <= k * y
  OBVIOUS

\* A bucket is full after Refill, and a sweep waits for that and the slack.
LEMMA RefillFills ==
  ASSUME R!LimitAssumption
  PROVE  Refill \in Nat /\ Burst <= Rate * Refill /\ R!IdleTTL = Refill - 1 + Slack
  <1> USE DEF R!LimitAssumption
  <1>1. Burst \div Rate \in Nat
    OBVIOUS
  <1>2. Burst = Rate * (Burst \div Rate) + (Burst % Rate)
    OBVIOUS
  <1>3. Burst % Rate \in 0 .. Rate - 1
    OBVIOUS
  <1> DEFINE k == Burst \div Rate
  <1>4. Rate * (k + 1) = Rate * k + Rate
    BY <1>1
  <1> QED
    BY <1>1, <1>2, <1>3, <1>4 DEF Refill, R!IdleTTL

\* Grants can be counted.
LEMMA CleanFinite ==
  ASSUME R!LimitAssumption, NEW a, NEW b
  PROVE  IsFiniteSet(CleanIn(a, b)) /\ Cardinality(CleanIn(a, b)) \in Nat
  <1>1. IsFiniteSet(R!Requests)
    BY FS_Interval DEF R!Requests, R!LimitAssumption
  <1>2. CleanIn(a, b) \subseteq R!Requests
    BY DEF CleanIn, Clean
  <1> QED
    BY <1>1, <1>2, FS_Subset, FS_CardinalityType

LEMMA InitLInv == R!LimitAssumption /\ R!Init => LInv
  <1> SUFFICES ASSUME R!LimitAssumption, R!Init PROVE LInv
    OBVIOUS
  <1>1. LTyped
    BY DEF R!Init, LTyped, OnItsWay, R!LimitAssumption, ReqType
  <1>2. Clean = {}
    BY DEF R!Init, Clean
  <1>3. \A a, b : CleanIn(a, b) = {}
    BY <1>2 DEF CleanIn
  <1>4. OnTime /\ OneHeld /\ Sweeping /\ ~Held
    BY DEF R!Init, OnTime, OneHeld, Sweeping, Held, OnItsWay
  <1>5. Bounded
    BY <1>3, FS_EmptySet, Times DEF Bounded, R!LimitAssumption
  <1> QED
    BY <1>1, <1>2, <1>3, <1>4, <1>5 DEF LInv, Near, Quiet, Potential

\* A step of a request that grants nothing and leaves the bucket that counts alone.
LEMMA NothingGranted ==
  ASSUME R!LimitAssumption, LInv, LTyped', Clean' = Clean, \A q \in Clean : req'[q].at = req[q].at
  PROVE  /\ Bounded'
         /\ \A a, b : CleanIn(a, b)' = CleanIn(a, b)
  <1>1. \A a, b : CleanIn(a, b)' = CleanIn(a, b)
    BY DEF CleanIn
  <1> QED
    BY <1>1 DEF LInv, Bounded

LEMMA TickStep ==
  ASSUME R!LimitAssumption, LInv, R!Tick
  PROVE  LInv'
  <1>1. LTyped'
    BY DEF LInv, LTyped, R!Tick, R!LimitAssumption, ReqType
  <1>2. Clean' = Clean /\ Held' = Held
    BY DEF R!Tick, Clean, Held
  <1>3. Bounded' /\ \A a, b : CleanIn(a, b)' = CleanIn(a, b)
    BY <1>1, <1>2, NothingGranted DEF R!Tick
  <1>4. OnTime'
    BY DEF LInv, LTyped, OnTime, OnItsWay, R!Tick, R!LimitAssumption, ReqType
  <1>5. OneHeld' /\ Sweeping' /\ Near' /\ Potential'
    BY <1>2, <1>3 DEF LInv, R!Tick, OneHeld, Sweeping, Near, Potential
  <1>6. Quiet'
    BY <1>2, RefillFills DEF LInv, LTyped, Clean, Quiet, R!Tick, R!LimitAssumption, ReqType
  <1> QED
    BY <1>1, <1>3, <1>4, <1>5, <1>6 DEF LInv

LEMMA LimitArriveStep ==
  ASSUME R!LimitAssumption, LInv, NEW r \in R!Requests, R!Arrive(r)
  PROVE  LInv'
  <1> DEFINE due == clock - lastSweep >= R!IdleTTL
             next == IF due THEN "sweep" ELSE "load"
  <1>1. /\ req' = [req EXCEPT ![r].at = clock, ![r].pc = next]
        /\ req[r].pc = "new"
        /\ lastSweep' = IF due THEN clock ELSE lastSweep
        /\ UNCHANGED <<clock, buckets, current, doomed>>
    BY DEF R!Arrive
  <1>2. /\ req'[r].pc \in {"sweep", "load"} /\ req'[r].at = clock
        /\ req'[r].bucket = req[r].bucket /\ req'[r].ok = req[r].ok /\ req'[r].stray = req[r].stray
        /\ req'[r] \in ReqType
        /\ DOMAIN req' = R!Requests /\ \A q \in R!Requests \ {r} : req'[q] = req[q]
        /\ req'[r].pc = "sweep" => due
    BY <1>1 DEF LInv, LTyped, OnItsWay, ReqType
  <1>a. req' \in [R!Requests -> ReqType]
    BY <1>1, <1>2 DEF LInv, LTyped, ReqType
  <1>3. LTyped'
    BY <1>1, <1>2, <1>a DEF LInv, LTyped, ReqType
  <1>4. Clean' = Clean /\ Held' = Held
    BY <1>1, <1>2 DEF Clean, Held
  <1>5. \A q \in Clean : req'[q].at = req[q].at
    BY <1>1, <1>2 DEF Clean
  <1>6. Bounded' /\ \A a, b : CleanIn(a, b)' = CleanIn(a, b)
    BY <1>3, <1>4, <1>5, NothingGranted
  <1>7. OnTime' /\ OneHeld'
    BY <1>1, <1>2 DEF LInv, LTyped, OnTime, OneHeld, R!LimitAssumption, ReqType
  <1>8. Near' /\ Quiet' /\ Potential'
    BY <1>1, <1>4, <1>5, <1>6 DEF LInv, Near, Quiet, Potential
  <1>9. Sweeping'
    <2>1. CASE req'[r].pc = "load"
      <3>1. lastSweep' = lastSweep
        BY <1>1, <1>2, <2>1 DEF LInv, LTyped, ReqType
      <3> QED
        BY <1>1, <1>2, <2>1, <3>1 DEF LInv, Sweeping
    <2>2. CASE req'[r].pc = "sweep"
      <3>1. due /\ lastSweep' = clock
        BY <1>1, <1>2, <2>2
      <3>2. \A q \in R!Requests : req[q].pc \notin {"sweep", "delete"}
        <4> SUFFICES ASSUME NEW q \in R!Requests, req[q].pc \in {"sweep", "delete"} PROVE FALSE
          OBVIOUS
        <4>1. lastSweep = req[q].at /\ clock <= req[q].at + Pause
          BY DEF LInv, Sweeping, OnTime, OnItsWay
        <4>2. R!IdleTTL \in Int /\ R!IdleTTL > Pause
          BY RefillFills DEF R!LimitAssumption
        <4> HIDE DEF due
        <4>3. clock - lastSweep >= R!IdleTTL
          BY <3>1 DEF due
        <4> QED
          BY <4>1, <4>2, <4>3 DEF LInv, LTyped, R!LimitAssumption, ReqType
      <3> QED
        BY <1>1, <1>2, <2>2, <3>1, <3>2 DEF Sweeping
    <2> QED
      BY <1>2, <2>1, <2>2
  <1> QED
    BY <1>3, <1>6, <1>7, <1>8, <1>9 DEF LInv

LEMMA ExamineStep ==
  ASSUME R!LimitAssumption, LInv, NEW r \in R!Requests, R!Examine(r)
  PROVE  LInv'
  <1>1. /\ req[r].pc = "sweep" /\ req'[r].pc \in {"delete", "load"}
        /\ req'[r].at = req[r].at /\ req'[r].bucket = req[r].bucket
        /\ req' \in [R!Requests -> ReqType] /\ \A q \in R!Requests \ {r} : req'[q] = req[q]
        /\ UNCHANGED <<clock, buckets, current, lastSweep>>
    BY DEF LInv, LTyped, R!Examine, OnItsWay, ReqType
  <1>2. \/ doomed' = doomed /\ req'[r].pc = "load"
        \/ current # None /\ R!Idle(req[r].at, current) /\ doomed' = doomed \cup {current} /\ req'[r].pc = "delete"
    BY DEF LInv, LTyped, R!Examine, ReqType
  <1>3. LTyped'
    BY <1>1, <1>2 DEF LInv, LTyped, ReqType
  <1>4. Clean' = Clean /\ \A q \in Clean : req'[q].at = req[q].at
    BY <1>1 DEF Clean
  <1>5. Bounded' /\ \A a, b : CleanIn(a, b)' = CleanIn(a, b)
    BY <1>3, <1>4, NothingGranted
  <1>6. OnTime' /\ OneHeld' /\ Sweeping'
    BY <1>1, <1>2 DEF LInv, OnTime, OnItsWay, OneHeld, Sweeping
  <1>7. CASE doomed' = doomed
    <2>1. Held' = Held
      BY <1>1, <1>7 DEF Held
    <2> QED
      BY <1>1, <1>3, <1>4, <1>5, <1>6, <2>1 DEF LInv, Near, Quiet, Potential
  <1>8. CASE current # None /\ R!Idle(req[r].at, current) /\ doomed' = doomed \cup {current}
    <2>1. ~Held'
      BY <1>1, <1>8 DEF Held
    <2>2. Quiet'
      <3> SUFFICES ASSUME NEW q \in Clean PROVE req[q].at + Refill + Pause <= clock
        BY <1>1, <1>4 DEF Quiet
      <3>1. CASE ~Held
        BY <3>1 DEF LInv, Quiet
      <3>2. CASE Held
        <4>1. req[q].at <= buckets[current].last + Pause /\ req[r].at <= clock
          BY <3>2 DEF LInv, Near, LTyped, ReqType
        <4>2. req[r].at - buckets[current].last > Refill - 1 + Slack
          BY <1>8, RefillFills DEF R!Idle
        <4>3. /\ req[q].at \in Int /\ req[r].at \in Int /\ clock \in Int /\ buckets[current].last \in Int
              /\ Refill \in Int /\ Slack \in Int /\ Pause \in Int /\ 2 * Pause <= Slack
          BY <1>8, RefillFills DEF LInv, LTyped, R!LimitAssumption, Clean, ReqType
        <4> QED
          BY <4>1, <4>2, <4>3
      <3> QED
        BY <3>1, <3>2
    <2> QED
      BY <1>3, <1>5, <1>6, <2>1, <2>2 DEF LInv, Near, Potential
  <1> QED
    BY <1>2, <1>7, <1>8

LEMMA DeleteStep ==
  ASSUME R!LimitAssumption, LInv, NEW r \in R!Requests, R!Delete(r)
  PROVE  LInv'
  <1>1. /\ req[r].pc = "delete" /\ req'[r].pc = "load"
        /\ req'[r].at = req[r].at /\ req'[r].bucket = req[r].bucket
        /\ req' \in [R!Requests -> ReqType] /\ \A q \in R!Requests \ {r} : req'[q] = req[q]
        /\ current' = None
        /\ UNCHANGED <<clock, buckets, lastSweep>>
    BY DEF LInv, LTyped, R!Delete, OnItsWay, ReqType
  <1>2. doomed' = doomed /\ current \in doomed
    BY <1>1 DEF LInv, Sweeping, R!Delete
  <1>3. LTyped'
    BY <1>1, <1>2 DEF LInv, LTyped, ReqType
  <1>4. Clean' = Clean /\ (\A q \in Clean : req'[q].at = req[q].at) /\ ~Held /\ ~Held'
    BY <1>1, <1>2 DEF Clean, Held
  <1>5. Bounded'
    BY <1>3, <1>4, NothingGranted
  <1>6. OnTime' /\ OneHeld' /\ Sweeping'
    BY <1>1, <1>2 DEF LInv, OnTime, OnItsWay, OneHeld, Sweeping
  <1> QED
    BY <1>1, <1>3, <1>4, <1>5, <1>6 DEF LInv, Near, Quiet, Potential

LEMMA LoadOrStoreStep ==
  ASSUME R!LimitAssumption, LInv, NEW r \in R!Requests, R!LoadOrStore(r)
  PROVE  LInv'
  <1>1. /\ req[r].pc = "load" /\ req'[r].pc = "take"
        /\ req'[r].at = req[r].at /\ req'[r].bucket = current'
        /\ DOMAIN req' = R!Requests /\ \A q \in R!Requests \ {r} : req'[q] = req[q]
        /\ UNCHANGED <<clock, lastSweep, doomed>>
    BY DEF LInv, LTyped, R!LoadOrStore, ReqType
  <1>2. \/ current # None /\ UNCHANGED <<buckets, current>>
        \/ /\ current = None /\ current' = r
           /\ DOMAIN buckets' = DOMAIN buckets \cup {r}
           /\ buckets'[r] = [tokens |-> Burst, last |-> req[r].at]
           /\ \A b \in DOMAIN buckets \ {r} : buckets'[b] = buckets[b]
    BY DEF R!LoadOrStore
  <1>n. None \notin R!Requests /\ r \notin DOMAIN buckets
    BY <1>1 DEF R!LimitAssumption, R!Requests, LInv, LTyped, ReqType
  <1>3. current' \in DOMAIN buckets'
    BY <1>2 DEF LInv, LTyped, ReqType
  <1>a. DOMAIN buckets' \subseteq R!Requests
    BY <1>2 DEF LInv, LTyped, ReqType
  <1>4. req' \in [R!Requests -> ReqType]
    <2>1. req'[r] = [[req[r] EXCEPT !.pc = "take"] EXCEPT !.bucket = current']
      BY DEF R!LoadOrStore, LInv, LTyped, ReqType
    <2>2. req'[r] \in ReqType
      <3>1. req[r] \in ReqType /\ current' \in R!Requests \cup {None} /\ "take" \in {"new", "done"} \cup OnItsWay
        BY <1>3, <1>a DEF ReqType, LInv, LTyped, OnItsWay
      <3> QED
        BY <2>1, <3>1 DEF ReqType
    <2>3. \A q \in R!Requests : req'[q] \in ReqType
      BY <1>1, <2>2 DEF ReqType, LInv, LTyped
    <2>4. req' = [q \in R!Requests |-> req'[q]]
      BY DEF R!LoadOrStore, LInv, LTyped, ReqType
    <2> QED
      BY <2>3, <2>4
  <1>5. \A b \in DOMAIN buckets' : /\ buckets'[b].tokens \in Int /\ buckets'[b].tokens <= Burst
                                   /\ buckets'[b].last \in 0 .. MaxTime
    BY <1>2 DEF LInv, LTyped, R!LimitAssumption, ReqType
  <1>6. LTyped'
    <2>1. \A q \in R!Requests : req'[q].at <= clock' /\ (req'[q].pc = "take" => req'[q].bucket \in DOMAIN buckets')
      BY <1>1, <1>2, <1>3 DEF LInv, LTyped, ReqType
    <2>2. \A q \in DOMAIN buckets' : req'[q].pc \in {"take", "done"}
      BY <1>1, <1>2, <1>n DEF LInv, LTyped, ReqType
    <2>3. doomed' \subseteq DOMAIN buckets' /\ clock' \in 0 .. MaxTime /\ lastSweep' \in 0 .. clock'
      BY <1>1, <1>2 DEF LInv, LTyped, ReqType
    <2> QED
      BY <1>3, <1>4, <1>5, <1>a, <2>1, <2>2, <2>3 DEF LTyped, ReqType
  <1>7. Clean' = Clean /\ \A q \in Clean : req'[q].at = req[q].at
    BY <1>1 DEF Clean
  <1>8. Bounded' /\ \A a, b : CleanIn(a, b)' = CleanIn(a, b)
    BY <1>6, <1>7, NothingGranted
  <1>9. OnTime' /\ OneHeld' /\ Sweeping'
    <2>1. OnTime'
      BY <1>1 DEF LInv, OnTime, OnItsWay
    <2>2. OneHeld'
      BY <1>1, <1>2, <1>n DEF LInv, LTyped, OneHeld, ReqType
    <2>3. Sweeping'
      <3>1. \A q \in R!Requests : req'[q].pc \in {"sweep", "delete"} => q # r /\ req'[q] = req[q]
        BY <1>1
      <3>2. \A q \in R!Requests : req[q].pc = "delete" => current \in doomed /\ current' = current
        BY <1>1, <1>2, <1>n DEF LInv, LTyped, Sweeping, ReqType
      <3> QED
        BY <1>1, <3>1, <3>2 DEF LInv, Sweeping
    <2> QED
      BY <2>1, <2>2, <2>3
  <1>10. CASE current # None /\ UNCHANGED <<buckets, current>>
    <2>1. Held' = Held
      BY <1>1, <1>10 DEF Held
    <2> QED
      BY <1>1, <1>6, <1>7, <1>8, <1>9, <1>10, <2>1 DEF LInv, Near, Quiet, Potential
  <1>11. CASE current = None /\ current' = r /\ buckets'[r] = [tokens |-> Burst, last |-> req[r].at]
    <2>1. ~Held /\ Held'
      BY <1>1, <1>11, <1>n DEF Held, LInv, LTyped, ReqType
    <2>2. \A q \in Clean : req[q].at + Refill <= req[r].at
      <3> SUFFICES ASSUME NEW q \in Clean PROVE req[q].at + Refill <= req[r].at
        OBVIOUS
      <3>1. req[q].at + Refill + Pause <= clock /\ clock <= req[r].at + Pause
        BY <1>1, <2>1 DEF LInv, Quiet, OnTime, OnItsWay
      <3>2. req[q].at \in Int /\ req[r].at \in Int /\ clock \in Int /\ Refill \in Int /\ Pause \in Int
        BY RefillFills DEF LInv, LTyped, R!LimitAssumption, Clean, ReqType
      <3> QED
        BY <3>1, <3>2
    <2>3. Near'
      <3> SUFFICES ASSUME NEW q \in Clean PROVE req[q].at <= req[r].at + Pause
        BY <1>7, <1>11 DEF Near
      <3> QED
        BY <2>2, RefillFills DEF LInv, LTyped, R!LimitAssumption, Clean, ReqType
    <2>4. Potential'
      <3> SUFFICES ASSUME NEW a \in 0 .. MaxTime, NEW b \in 0 .. MaxTime, CleanIn(a, b) # {}
                   PROVE  Cardinality(CleanIn(a, b)) + Burst + Rate * a <= Burst + Rate * req[r].at
        BY <1>8, <1>11 DEF Potential
      <3> DEFINE e == req[r].at - Refill
      <3>1. PICK q \in CleanIn(a, b) : TRUE
        OBVIOUS
      <3>2. q \in Clean /\ a <= req[q].at /\ req[q].at <= e
        BY <2>2, RefillFills DEF CleanIn, LInv, LTyped, Clean, ReqType
      <3>3. e \in 0 .. MaxTime /\ a <= e /\ e \in Int /\ a \in Int
        BY <3>2, RefillFills DEF LInv, LTyped, Clean, R!LimitAssumption, ReqType
      <3>4. CleanIn(a, b) \subseteq CleanIn(a, e)
        BY <2>2, <3>3, RefillFills DEF CleanIn, LInv, LTyped, Clean, ReqType
      <3>5. Cardinality(CleanIn(a, b)) <= Cardinality(CleanIn(a, e))
        BY <3>4, CleanFinite, FS_Subset
      <3>6. Cardinality(CleanIn(a, e)) <= Burst + Rate * (e - a)
        BY <3>3 DEF LInv, Bounded
      <3>7. Rate \in Int /\ Burst \in Int /\ Refill \in Int /\ req[r].at \in Int /\ Burst <= Rate * Refill
        BY RefillFills DEF LInv, LTyped, R!LimitAssumption, ReqType
      <3>8. Rate * e = Rate * req[r].at - Rate * Refill /\ Rate * req[r].at \in Int /\ Rate * Refill \in Int
        BY <3>7, Times
      <3>9. Cardinality(CleanIn(a, b)) \in Int /\ Cardinality(CleanIn(a, e)) \in Int
        BY CleanFinite
      <3> HIDE DEF e
      <3>10. Rate * (e - a) = Rate * e - Rate * a /\ Rate * e \in Int /\ Rate * a \in Int
        BY <3>3, <3>7, Times
      <3> QED
        BY <3>5, <3>6, <3>7, <3>8, <3>9, <3>10
    <2> QED
      BY <1>6, <1>8, <1>9, <2>1, <2>3, <2>4 DEF LInv, Quiet
  <1> QED
    BY <1>2, <1>10, <1>11

\* The step that grants: the potential pays for it, or the bucket is one nobody else has.
LEMMA TakeStep ==
  ASSUME R!LimitAssumption, LInv, NEW r \in R!Requests, R!Take(r)
  PROVE  LInv'
  <1> DEFINE b    == req[r].bucket
             more == buckets[b].tokens + (req[r].at - buckets[b].last) * Rate
             fill == R!Min({Burst, more})
             ok   == fill >= 1
             left == IF ok THEN fill - 1 ELSE fill
  <1>1. /\ req[r].pc = "take" /\ r \notin Clean
        /\ buckets' = [buckets EXCEPT ![b] = [tokens |-> left, last |-> req[r].at]]
        /\ req' = [req EXCEPT ![r].pc = "done", ![r].ok = ok, ![r].stray = b \in doomed]
        /\ UNCHANGED <<clock, current, lastSweep, doomed>>
    BY DEF R!Take, Clean
  <1>2. b \in DOMAIN buckets /\ b \in R!Requests
    BY <1>1 DEF LInv, LTyped, ReqType
  <1>3. /\ more \in Int /\ buckets[b].tokens \in Int /\ buckets[b].last \in 0 .. MaxTime
        /\ req[r].at \in 0 .. MaxTime /\ Burst \in Int
    BY <1>2, Times DEF LInv, LTyped, R!LimitAssumption, ReqType
  <1>4. fill \in Int /\ fill <= Burst /\ fill <= more
    <2> HIDE DEF more
    <2>1. fill = IF Burst <= more THEN Burst ELSE more
      BY <1>3 DEF R!Min
    <2> QED
      BY <1>3, <2>1
  <1> HIDE DEF fill
  <1>5. left \in Int /\ left <= fill
    BY <1>4
  <1> HIDE DEF ok, left
  <1>6. /\ DOMAIN buckets' = DOMAIN buckets /\ buckets'[b].tokens = left /\ buckets'[b].last = req[r].at
        /\ \A c \in DOMAIN buckets \ {b} : buckets'[c] = buckets[c]
    BY <1>1, <1>2
  <1>7. /\ req'[r].pc = "done" /\ req'[r].ok = ok /\ req'[r].stray = (b \in doomed)
        /\ req'[r].at = req[r].at /\ req'[r].bucket = req[r].bucket
        /\ DOMAIN req' = R!Requests /\ \A q \in R!Requests \ {r} : req'[q] = req[q]
    BY <1>1 DEF LInv, LTyped, ReqType
  <1>8. req' \in [R!Requests -> ReqType]
    <2>1. req \in [R!Requests -> ReqType] /\ ok \in BOOLEAN /\ (b \in doomed) \in BOOLEAN
      BY DEF LInv, LTyped, ReqType, ok
    <2> DEFINE late == b \in doomed
    <2>2. req' = [req EXCEPT ![r].pc = "done", ![r].ok = ok, ![r].stray = late] /\ late \in BOOLEAN
      BY <1>1
    <2> HIDE DEF late
    <2>3. req'[r] = [[[req[r] EXCEPT !.pc = "done"] EXCEPT !.ok = ok] EXCEPT !.stray = late]
      BY <2>1, <2>2
    <2>4. req'[r] \in ReqType
      <3> DEFINE q0 == req[r]
      <3>1. q0 \in ReqType
        BY <2>1
      <3> HIDE DEF q0
      <3>2. req'[r] = [[[q0 EXCEPT !.pc = "done"] EXCEPT !.ok = ok] EXCEPT !.stray = late]
        BY <2>3 DEF q0
      <3>3. [q0 EXCEPT !.pc = "done"] \in ReqType
        BY <3>1 DEF ReqType
      <3>4. [[q0 EXCEPT !.pc = "done"] EXCEPT !.ok = ok] \in ReqType
        BY <2>1, <3>3 DEF ReqType
      <3> DEFINE q1 == [[q0 EXCEPT !.pc = "done"] EXCEPT !.ok = ok]
      <3>5. q1 \in ReqType /\ req'[r] = [q1 EXCEPT !.stray = late]
        BY <3>2, <3>4
      <3> HIDE DEF q1
      <3>6. late \in BOOLEAN
        BY <2>2
      <3>7. [q1 EXCEPT !.stray = late] \in ReqType
        BY <3>5, <3>6 DEF ReqType
      <3> QED
        BY <3>5, <3>7
    <2>5. req' = [q \in R!Requests |-> req'[q]]
      BY <2>1, <2>2
    <2> QED
      BY <1>7, <2>1, <2>4, <2>5
  <1>9. LTyped'
    <2>1. \A q \in R!Requests : req'[q].at <= clock' /\ (req'[q].pc = "take" => req'[q].bucket \in DOMAIN buckets')
      BY <1>1, <1>6, <1>7 DEF LInv, LTyped, ReqType
    <2>2. \A q \in DOMAIN buckets' : req'[q].pc \in {"take", "done"}
      BY <1>6, <1>7 DEF LInv, LTyped, ReqType
    <2>3. \A c \in DOMAIN buckets' : /\ buckets'[c].tokens \in Int /\ buckets'[c].tokens <= Burst
                                     /\ buckets'[c].last \in 0 .. MaxTime
      <3> HIDE DEF b
      <3> QED
        BY <1>3, <1>4, <1>5, <1>6 DEF LInv, LTyped, ReqType
    <2>4. /\ doomed' \subseteq DOMAIN buckets' /\ clock' \in 0 .. MaxTime /\ lastSweep' \in 0 .. clock'
          /\ current' \in DOMAIN buckets' \cup {None} /\ DOMAIN buckets' \subseteq R!Requests
      BY <1>1, <1>6 DEF LInv, LTyped, ReqType
    <2> QED
      BY <1>8, <2>1, <2>2, <2>3, <2>4 DEF LTyped, ReqType
  <1>10. OnTime' /\ OneHeld' /\ Sweeping' /\ Held' = Held
    BY <1>1, <1>6, <1>7 DEF LInv, OnTime, OnItsWay, OneHeld, Sweeping, Held
  <1>11. \A q \in Clean : req'[q].at = req[q].at
    BY <1>1, <1>7 DEF Clean
  <1> HIDE DEF b
  <1>12. CASE b \in doomed
    <2>1. Clean' = Clean
      BY <1>1, <1>7, <1>12 DEF Clean
    <2>2. Bounded' /\ \A x, y : CleanIn(x, y)' = CleanIn(x, y)
      BY <1>9, <1>11, <2>1, NothingGranted
    <2>3. Held => current' = current /\ buckets'[current] = buckets[current]
      BY <1>1, <1>6, <1>12 DEF Held, LInv, LTyped, ReqType
    <2> QED
      BY <1>1, <1>9, <1>10, <1>11, <2>1, <2>2, <2>3 DEF LInv, Near, Quiet, Potential
  <1>13. CASE b \notin doomed
    <2>1. b = current /\ Held /\ current' = current /\ clock' = clock
      BY <1>1, <1>2, <1>13 DEF LInv, OneHeld, Held, R!LimitAssumption, R!Requests
    <2>2. buckets'[current'].tokens = left /\ buckets'[current'].last = req[r].at
      BY <1>6, <2>1
    <2>3. Clean' = IF ok THEN Clean \cup {r} ELSE Clean
      <3>1. req'[r].ok = ok /\ ~req'[r].stray
        BY <1>7, <1>13
      <3>2. \A q \in R!Requests \ {r} : q \in Clean' <=> q \in Clean
        BY <1>7 DEF Clean
      <3>3. (r \in Clean' <=> ok) /\ r \notin Clean
        BY <1>1, <1>7, <3>1 DEF Clean
      <3>4. Clean \subseteq R!Requests /\ Clean' \subseteq R!Requests
        BY DEF Clean
      <3>5. CASE ok
        BY <3>2, <3>3, <3>4, <3>5
      <3>6. CASE ~ok
        BY <3>2, <3>3, <3>4, <3>6
      <3> QED
        BY <3>5, <3>6
    <2>4. Near'
      <3> SUFFICES ASSUME NEW q \in Clean' PROVE req'[q].at <= req[r].at + Pause
        BY <2>2 DEF Near
      <3>1. q \in R!Requests /\ req'[q].at <= clock /\ clock <= req[r].at + Pause /\ req'[q].at \in Int /\ clock \in Int
        BY <1>1, <1>7, <1>9, <2>1 DEF Clean, LInv, LTyped, OnTime, OnItsWay, ReqType
      <3> QED
        BY <1>3, <3>1 DEF R!LimitAssumption
    <2>5. \A x, y \in 0 .. MaxTime :
             /\ ~(ok /\ req[r].at \in x .. y) => CleanIn(x, y)' = CleanIn(x, y)
             /\ ok /\ req[r].at \in x .. y => CleanIn(x, y)' = CleanIn(x, y) \cup {r} /\ r \notin CleanIn(x, y)
      <3> SUFFICES ASSUME NEW x \in 0 .. MaxTime, NEW y \in 0 .. MaxTime
                   PROVE  /\ ~(ok /\ req[r].at \in x .. y) => CleanIn(x, y)' = CleanIn(x, y)
                          /\ ok /\ req[r].at \in x .. y =>
                                CleanIn(x, y)' = CleanIn(x, y) \cup {r} /\ r \notin CleanIn(x, y)
        OBVIOUS
      <3>1. CleanIn(x, y)' = {q \in Clean' : req'[q].at \in x .. y}
        BY DEF CleanIn
      <3>2. CleanIn(x, y) = {q \in Clean : req[q].at \in x .. y} /\ r \notin CleanIn(x, y)
        BY <1>1 DEF CleanIn
      <3>3. req'[r].at = req[r].at
        BY <1>7
      <3>4. CASE ok
        <4>1. Clean' = Clean \cup {r}
          BY <2>3, <3>4
        <4> QED
          BY <1>11, <3>1, <3>2, <3>3, <3>4, <4>1
      <3>5. CASE ~ok
        <4>1. Clean' = Clean
          BY <2>3, <3>5
        <4> QED
          BY <1>11, <3>1, <3>2, <3>5, <4>1
      <3> QED
        BY <3>4, <3>5
    <2>6. \A x, y \in 0 .. MaxTime :
             ok /\ req[r].at \in x .. y =>
                Cardinality(CleanIn(x, y)') = Cardinality(CleanIn(x, y)) + 1
      BY <2>5, CleanFinite, FS_AddElement
    <2>7. ASSUME NEW x \in 0 .. MaxTime, NEW y \in 0 .. MaxTime, CleanIn(x, y)' # {}
          PROVE  Cardinality(CleanIn(x, y)') + left + Rate * x <= Burst + Rate * req[r].at
      <3> DEFINE n == Cardinality(CleanIn(x, y))
                 u == buckets[b].last
                 t == req[r].at
      <3>1. /\ n \in Int /\ Rate \in Int /\ x \in Int /\ t \in Int /\ u \in Int
            /\ Rate >= 0
        BY <1>3, CleanFinite DEF R!LimitAssumption
      <3>2. CleanIn(x, y) # {} => n + buckets[b].tokens + Rate * x <= Burst + Rate * u
        BY <2>1 DEF LInv, Potential
      <3>3. more = buckets[b].tokens + (t - u) * Rate
        OBVIOUS
      <3> HIDE DEF n, u, t, more
      <3>4. Rate * x \in Int /\ Rate * t \in Int /\ Rate * u \in Int /\ (t - u) * Rate = Rate * t - Rate * u
        BY <3>1, Times
      <3>5. CASE CleanIn(x, y) # {}
        <4>1. Cardinality(CleanIn(x, y)') + left <= n + fill
          <5>1. CASE ok /\ req[r].at \in x .. y
            <6>1. Cardinality(CleanIn(x, y)') = n + 1 /\ left = fill - 1
              BY <2>6, <5>1 DEF left, n
            <6> QED
              BY <1>4, <3>1, <6>1
          <5>2. CASE ~(ok /\ req[r].at \in x .. y)
            <6>1. Cardinality(CleanIn(x, y)') = n
              BY <2>5, <5>2 DEF n
            <6> QED
              BY <1>4, <1>5, <3>1, <6>1
          <5> QED
            BY <5>1, <5>2
        <4>2. Cardinality(CleanIn(x, y)') \in Int
          BY <2>5, <2>6, <3>1 DEF n
        <4> QED
          BY <1>3, <1>4, <1>5, <3>1, <3>2, <3>3, <3>4, <3>5, <4>1, <4>2 DEF t
      <3>6. CASE CleanIn(x, y) = {}
        <4>1. ok /\ t \in x .. y /\ Cardinality(CleanIn(x, y)') = n + 1
          BY <2>5, <2>6, <2>7, <3>6 DEF t, n
        <4>2. n = 0
          BY <3>6, FS_EmptySet DEF n
        <4>3. left = fill - 1 /\ x <= t
          BY <3>1, <4>1 DEF left
        <4>4. Rate * x <= Rate * t
          BY <3>1, <4>3, Times
        <4> QED
          BY <1>3, <1>4, <3>1, <3>4, <4>1, <4>2, <4>3, <4>4 DEF t
      <3> QED
        BY <3>5, <3>6
    <2>8. Potential'
      BY <2>2, <2>7 DEF Potential
    <2>9. Bounded'
      <3> SUFFICES ASSUME NEW x \in 0 .. MaxTime, NEW y \in 0 .. MaxTime, x <= y
                   PROVE  Cardinality(CleanIn(x, y)') <= Burst + Rate * (y - x)
        BY DEF Bounded
      <3>1. CASE ~(ok /\ req[r].at \in x .. y)
        BY <2>5, <3>1 DEF LInv, Bounded
      <3>2. CASE ok /\ req[r].at \in x .. y
        <4> DEFINE n == Cardinality(CleanIn(x, y)')
        <4>1. CleanIn(x, y)' # {} /\ left >= 0
          BY <1>4, <2>5, <3>2 DEF left, ok
        <4>2. n + left + Rate * x <= Burst + Rate * req[r].at
          BY <2>7, <4>1
        <4>3. n \in Int
          BY <2>6, <3>2, CleanFinite
        <4> HIDE DEF n
        <4>4. Rate \in Int /\ Rate >= 0 /\ x \in Int /\ y \in Int /\ req[r].at \in Int /\ req[r].at <= y
          BY <1>3, <3>2 DEF R!LimitAssumption
        <4>5. /\ Rate * x \in Int /\ Rate * y \in Int /\ Rate * req[r].at \in Int
              /\ Rate * (y - x) = Rate * y - Rate * x
          BY <4>4, Times
        <4>6. Rate * req[r].at <= Rate * y
          BY <4>4, Times
        <4>7. n <= Burst + Rate * (y - x)
          BY <1>3, <1>5, <4>1, <4>2, <4>3, <4>5, <4>6
        <4> QED
          BY <4>7 DEF n
      <3> QED
        BY <3>1, <3>2
    <2> QED
      BY <1>9, <1>10, <2>1, <2>4, <2>8, <2>9 DEF LInv, Quiet
  <1> QED
    BY <1>12, <1>13

LEMMA StutterStep ==
  ASSUME LInv, UNCHANGED R!vars
  PROVE  LInv'
  <1> USE DEF R!vars
  <1>1. Clean' = Clean /\ Held' = Held
    BY DEF Clean, Held
  <1>2. \A a, b : CleanIn(a, b)' = CleanIn(a, b)
    BY <1>1 DEF CleanIn
  <1>3. LTyped' /\ OnTime' /\ OneHeld' /\ Sweeping'
    BY DEF LInv, LTyped, OnTime, OneHeld, Sweeping, ReqType
  <1> QED
    BY <1>1, <1>2, <1>3 DEF LInv, Near, Quiet, Potential, Bounded

LEMMA StepLInv ==
  R!LimitAssumption /\ LInv /\ [R!Next]_(R!vars) => LInv'
  BY TickStep, LimitArriveStep, ExamineStep, DeleteStep, LoadOrStoreStep, TakeStep, StutterStep DEF R!Next, R!Step

-----------------------------------------------------------------------------

\* A nonempty set of positions has a last one.
LEMMA LastPosition ==
  ASSUME NEW n \in Nat, NEW S \in SUBSET (1 .. n), S # {}
  PROVE  \E i \in S : \A j \in S : j <= i
  <1> DEFINE T == {n - i : i \in S}
  <1>1. T \in SUBSET Nat
    <2>1. ASSUME NEW i \in S PROVE n - i \in Nat
      OBVIOUS
    <2> QED
      BY <2>1
  <1>2. T # {}
    OBVIOUS
  <1>3. PICK m \in T : \A k \in T : m <= k
    BY <1>1, <1>2, LeastNat
  <1>4. PICK i \in S : m = n - i
    OBVIOUS
  <1>5. ASSUME NEW j \in S PROVE j <= i
    <2>1. n - i <= n - j
      BY <1>3, <1>4
    <2> QED
      BY <2>1
  <1> QED
    BY <1>5

-----------------------------------------------------------------------------
(* What the enforcer answers *)

\* The ten rounds of the role manager, one after the other.
LEMMA ActsAsRounds ==
  ASSUME NEW name
  PROVE  \E up : /\ up[0] = {name} /\ G!ActsAs(Roles, name) = up[10]
                 /\ \A n \in 1 .. 10 : up[n] = G!Grow(Roles, up[n-1])
  <1> DEFINE S0 == {name}
             S1 == G!Grow(Roles, S0)
             S2 == G!Grow(Roles, S1)
             S3 == G!Grow(Roles, S2)
             S4 == G!Grow(Roles, S3)
             S5 == G!Grow(Roles, S4)
             S6 == G!Grow(Roles, S5)
             S7 == G!Grow(Roles, S6)
             S8 == G!Grow(Roles, S7)
             S9 == G!Grow(Roles, S8)
             S10 == G!Grow(Roles, S9)
             g == [n \in 0 .. 10 |-> IF n = 0 THEN S0 ELSE IF n = 1 THEN S1 ELSE IF n = 2 THEN S2
                                     ELSE IF n = 3 THEN S3 ELSE IF n = 4 THEN S4 ELSE IF n = 5 THEN S5
                                     ELSE IF n = 6 THEN S6 ELSE IF n = 7 THEN S7 ELSE IF n = 8 THEN S8
                                     ELSE IF n = 9 THEN S9 ELSE S10]
             E(up) == [n \in 0 .. 10 |-> IF n = 0 THEN {name} ELSE G!Grow(Roles, up[n-1])]
             up == CHOOSE up : up = E(up)
  <1>1. g = E(g)
    <2> HIDE DEF S1, S2, S3, S4, S5, S6, S7, S8, S9, S10
    <2>1. /\ S1 = G!Grow(Roles, S0) /\ S2 = G!Grow(Roles, S1) /\ S3 = G!Grow(Roles, S2) /\ S4 = G!Grow(Roles, S3)
          /\ S5 = G!Grow(Roles, S4) /\ S6 = G!Grow(Roles, S5) /\ S7 = G!Grow(Roles, S6) /\ S8 = G!Grow(Roles, S7)
          /\ S9 = G!Grow(Roles, S8) /\ S10 = G!Grow(Roles, S9)
      BY DEF S1, S2, S3, S4, S5, S6, S7, S8, S9, S10
    <2>2. ASSUME NEW n \in 1 .. 10 PROVE g[n] = G!Grow(Roles, g[n-1])
      BY <2>1
    <2> QED
      BY <2>2
  <1>2. up = E(up)
    <2> HIDE DEF g, E
    <2> QED
      BY <1>1
  <1> HIDE DEF up
  <1>3. G!ActsAs(Roles, name) = up[10]
    BY DEF G!ActsAs, G!MaxHierarchy, up
  <1>4. up[0] = {name}
    BY <1>2
  <1>5. ASSUME NEW n \in 1 .. 10 PROVE up[n] = G!Grow(Roles, up[n-1])
    BY <1>2, n \in 0 .. 10, n # 0
  <1> QED
    BY <1>3, <1>4, <1>5

\* A role acts as itself and as nothing that a closed set around it leaves out.
LEMMA ActsWithin ==
  ASSUME NEW name, NEW names, name \in names, G!Closed(names)
  PROVE  name \in G!ActsAs(Roles, name) /\ G!ActsAs(Roles, name) \subseteq names
  <1>1. PICK up : /\ up[0] = {name} /\ G!ActsAs(Roles, name) = up[10]
                  /\ \A n \in 1 .. 10 : up[n] = G!Grow(Roles, up[n-1])
    BY ActsAsRounds
  <1>2. ASSUME NEW n \in 1 .. 10, name \in up[n-1], up[n-1] \subseteq names
        PROVE  name \in up[n] /\ up[n] \subseteq names
    <2>1. up[n] = G!Grow(Roles, up[n-1])
      BY <1>1
    <2> QED
      BY <2>1, <1>2 DEF G!Grow, G!Closed
  <1> DEFINE In(n) == name \in up[n] /\ up[n] \subseteq names
  <1>3. \A n \in 1 .. 10 : In(n-1) => In(n)
    BY <1>2
  <1>4. In(0)
    BY <1>1
  <1> HIDE DEF In
  <1>5. In(1) /\ In(2) /\ In(3) /\ In(4) /\ In(5)
    BY <1>3, <1>4
  <1>6. In(10)
    BY <1>3, <1>5
  <1> QED
    BY <1>1, <1>6 DEF In

\* A name that is no role acts as itself only.
LEMMA ActsAsClosed ==
  ASSUME G!HierarchyFits, NEW name
  PROVE  G!Closed(G!ActsAs(Roles, name))
  <1>1. CASE name \in G!RoleNames
    BY <1>1 DEF G!HierarchyFits
  <1>2. CASE name \notin G!RoleNames
    <2>1. G!Closed({name})
      BY <1>2 DEF G!Closed, G!RoleNames
    <2>2. G!ActsAs(Roles, name) \subseteq {name}
      BY <2>1, ActsWithin
    <2> QED
      BY <2>1, <2>2, <1>2 DEF G!Closed, G!RoleNames
  <1> QED
    BY <1>1, <1>2

\* Expanding the wildcards lets through what the permissions mean.
LEMMA PoliciesMean ==
  ASSUME NEW name, NEW entity \in Entities, NEW action \in G!AllActions
  PROVE  <<name, entity, action>> \in G!Policies(Roles, Entities) <=>
           \E r \in Roles : /\ r.name = name
                            /\ \E p \in r.perms : /\ p.resource \in {"*", entity}
                                                  /\ p.actions \cap {"*", action} # {}
  <1> DEFINE resources(p) == IF p.resource = "*" THEN Entities ELSE {p.resource}
             actions(p) == IF "*" \in p.actions THEN G!AllActions ELSE p.actions
             lines(r) == UNION {{r.name} \X resources(p) \X actions(p) : p \in r.perms}
  <1>1. <<name, entity, action>> \in G!Policies(Roles, Entities) <=>
          \E r \in Roles : \E p \in r.perms : <<name, entity, action>> \in {r.name} \X resources(p) \X actions(p)
    <2>1. G!Policies(Roles, Entities) = UNION {lines(r) : r \in Roles}
      BY DEF G!Policies
    <2> HIDE DEF resources, actions
    <2>2. ASSUME NEW r PROVE <<name, entity, action>> \in lines(r) <=>
            \E p \in r.perms : <<name, entity, action>> \in {r.name} \X resources(p) \X actions(p)
      BY Zenon
    <2> HIDE DEF lines
    <2> QED
      BY <2>1, <2>2, Zenon
  <1>2. ASSUME NEW r \in Roles, NEW p \in r.perms
        PROVE  <<name, entity, action>> \in {r.name} \X resources(p) \X actions(p) <=>
                 r.name = name /\ p.resource \in {"*", entity} /\ p.actions \cap {"*", action} # {}
    <2>1. entity \in resources(p) <=> p.resource \in {"*", entity}
      OBVIOUS
    <2>2. action \in actions(p) <=> p.actions \cap {"*", action} # {}
      OBVIOUS
    <2> HIDE DEF resources, actions
    <2>3. <<name, entity, action>> \in {r.name} \X resources(p) \X actions(p) <=>
            name \in {r.name} /\ entity \in resources(p) /\ action \in actions(p)
      OBVIOUS
    <2>4. name \in {r.name} <=> r.name = name
      OBVIOUS
    <2> QED
      BY <2>1, <2>2, <2>3, <2>4
  <1> HIDE DEF resources, actions
  <1> QED
    BY <1>1, <1>2

\* The enforcer answers what the configuration says.
LEMMA EnforcesTheConfiguration ==
  ASSUME G!HierarchyFits, NEW role, NEW entity \in Entities, NEW action \in G!AllActions
  PROVE  G!Enforce(Roles, Entities, role, entity, action) <=> G!Entitled(role, entity, action)
  <1> DEFINE Permits(r) == \E p \in r.perms : /\ p.resource \in {"*", entity}
                                              /\ p.actions \cap {"*", action} # {}
             named  == {role} \cup G!RoleNames \cup UNION {r.inherits : r \in Roles}
             closed == {s \in SUBSET named : role \in s /\ G!Closed(s)}
  <1>1. G!Enforce(Roles, Entities, role, entity, action) <=>
          \E n \in G!ActsAs(Roles, role) : \E r \in Roles : r.name = n /\ Permits(r)
    <2>1. \A n : <<n, entity, action>> \in G!Policies(Roles, Entities) <=> \E r \in Roles : r.name = n /\ Permits(r)
      BY PoliciesMean
    <2> HIDE DEF Permits
    <2> QED
      BY <2>1, Zenon DEF G!Enforce
  <1>2. G!Entitled(role, entity, action) <=>
          \E r \in Roles : (\A s \in closed : r.name \in s) /\ Permits(r)
    BY DEF G!Entitled
  <1> HIDE DEF Permits
  <1>3. \A s \in closed : G!ActsAs(Roles, role) \subseteq s
    BY ActsWithin
  <1>4. G!ActsAs(Roles, role) \in closed
    <2>1. G!Closed(named)
      BY DEF G!Closed
    <2>2. role \in G!ActsAs(Roles, role) /\ G!ActsAs(Roles, role) \subseteq named
      BY <2>1, ActsWithin
    <2> HIDE DEF named
    <2> QED
      BY <2>2, ActsAsClosed
  <1> HIDE DEF closed
  <1>5. \A n : (\A s \in closed : n \in s) <=> n \in G!ActsAs(Roles, role)
    BY <1>3, <1>4
  <1> QED
    BY <1>1, <1>2, <1>5

-----------------------------------------------------------------------------
(* The chain *)

RequestFields == {"pc", "ep", "from", "sub", "ip", "limitKey", "keyWas", "userWas", "roles"}

Typed ==
    /\ DOMAIN greq = RequestFields /\ greq.ep \in Endpoints /\ greq.from \in Senders
    /\ DOMAIN keyRow = {"role", "owner", "state"} /\ DOMAIN user = {"exists", "role", "version"}
    /\ user.version \in Nat /\ greq.userWas.version \in Nat /\ greq.userWas.version <= user.version

\* A row that may still be used could be used when the request arrived, and its role counts.
Fresh ==
    /\ keyRow.state = "live" => greq.keyWas.state = "live"
    /\ user.exists => greq.userWas.exists
    /\ greq.pc # "new" => {keyRow.role, user.role} \subseteq greq.roles

\* Who the caller is is not known before the key was looked at, nor while the token is validated,
\* and a key that was presented has identified its caller or ended the request.
Identified ==
    /\ greq.pc \in {"new", "limitIP", "apikey", "validate"} => greq.sub = Nobody
    /\ greq.pc = "validate" => G!ReadsCredentials(greq.ep)
    /\ greq.pc \in {"token", "validate"} /\ G!ReadsCredentials(greq.ep) /\ greq.from.key # None =>
         greq.from.key \in {"good", "static"} /\ greq.sub # Nobody
    /\ greq.pc \in {"limitUser", "rbac", "handler"} /\ G!ReadsCredentials(greq.ep) => greq.from.key \in {None, "good", "static"}

\* The key of a limiter is the caller or the address that the headers resolve to.
Keyed ==
    /\ greq.pc # "new" => greq.ip = G!ResolveClientIP(greq.from)
    /\ \/ greq.limitKey = None
       \/ \E id : greq.limitKey = <<"u", id>>
       \/ greq.limitKey = <<"ip", greq.ip>> /\ greq.pc # "new"

IInv == Typed /\ Fresh /\ Identified /\ Keyed /\ G!NoStaleCaller /\ G!DecidesRightly

LEMMA InitIInv == G!Init => IInv
  BY DEF G!Init, IInv, Typed, RequestFields, Fresh, Identified, Keyed, G!NoStaleCaller, G!DecidesRightly

\* What a step says of the fields it does not name.
LEMMA ChangeKeyStep ==
  ASSUME IInv, G!ChangeKey
  PROVE  IInv'
  <1>1. /\ DOMAIN greq' = RequestFields /\ \A f \in RequestFields \ {"roles"} : greq'[f] = greq[f]
        /\ greq'.roles = greq.roles \cup {keyRow'.role}
    BY DEF G!ChangeKey, IInv, Typed, RequestFields
  <1>2. /\ DOMAIN keyRow' = {"role", "owner", "state"} /\ user' = user
        /\ keyRow'.state = "live" => keyRow.state = "live"
    BY DEF G!ChangeKey, IInv, Typed
  <1>3. /\ greq'.pc = greq.pc /\ greq'.ep = greq.ep /\ greq'.from = greq.from /\ greq'.sub = greq.sub /\ greq'.ip = greq.ip
        /\ greq'.limitKey = greq.limitKey /\ greq'.keyWas = greq.keyWas /\ greq'.userWas = greq.userWas
    BY <1>1 DEF RequestFields
  <1>4. Typed' /\ Fresh'
    BY <1>1, <1>2, <1>3 DEF IInv, Typed, Fresh
  <1>5. Identified' /\ Keyed'
    BY <1>3 DEF IInv, Identified, Keyed
  <1>6. G!NoStaleCaller' /\ G!DecidesRightly'
    BY <1>1, <1>3 DEF IInv, G!NoStaleCaller, G!DecidesRightly
  <1> QED
    BY <1>4, <1>5, <1>6 DEF IInv

LEMMA ChangeUserStep ==
  ASSUME IInv, G!ChangeUser
  PROVE  IInv'
  <1>1. /\ DOMAIN greq' = RequestFields /\ \A f \in RequestFields \ {"roles"} : greq'[f] = greq[f]
        /\ greq'.roles = greq.roles \cup {user'.role}
    BY DEF G!ChangeUser, IInv, Typed, RequestFields
  <1>2. /\ DOMAIN user' = {"exists", "role", "version"} /\ keyRow' = keyRow
        /\ user'.version \in Nat /\ user.version <= user'.version
        /\ user'.exists => user.exists
    <2>1. CASE user' = [user EXCEPT !.exists = FALSE]
      BY <2>1 DEF G!ChangeUser, IInv, Typed
    <2>2. CASE user' = [user EXCEPT !.version = user.version + 1]
      BY <2>2 DEF G!ChangeUser, IInv, Typed
    <2>3. CASE \E n \in G!RoleNames : user' = [user EXCEPT !.role = n]
      BY <2>3 DEF G!ChangeUser, IInv, Typed
    <2> QED
      BY <2>1, <2>2, <2>3 DEF G!ChangeUser
  <1>3. /\ greq'.pc = greq.pc /\ greq'.ep = greq.ep /\ greq'.from = greq.from /\ greq'.sub = greq.sub /\ greq'.ip = greq.ip
        /\ greq'.limitKey = greq.limitKey /\ greq'.keyWas = greq.keyWas /\ greq'.userWas = greq.userWas
    BY <1>1 DEF RequestFields
  <1>4. Typed' /\ Fresh'
    BY <1>1, <1>2, <1>3 DEF IInv, Typed, Fresh
  <1>5. Identified' /\ Keyed'
    BY <1>3 DEF IInv, Identified, Keyed
  <1>6. G!NoStaleCaller' /\ G!DecidesRightly'
    BY <1>1, <1>3 DEF IInv, G!NoStaleCaller, G!DecidesRightly
  <1> QED
    BY <1>4, <1>5, <1>6 DEF IInv

LEMMA GateArriveStep ==
  ASSUME IInv, G!Arrive
  PROVE  IInv'
  <1>1. /\ DOMAIN greq' = RequestFields /\ greq.pc = "new" /\ greq'.pc = "limitIP" /\ greq'.ep = greq.ep /\ greq'.from = greq.from
        /\ greq'.sub = greq.sub /\ greq'.ip = G!ResolveClientIP(greq.from) /\ greq'.limitKey = greq.limitKey
        /\ greq'.keyWas = keyRow /\ greq'.userWas = user /\ greq'.roles = {keyRow.role, user.role}
        /\ keyRow' = keyRow /\ user' = user
    BY DEF G!Arrive, IInv, Typed, RequestFields
  <1>2. Typed' /\ Fresh' /\ G!NoStaleCaller' /\ G!DecidesRightly'
    BY <1>1 DEF IInv, Typed, Fresh, Identified, G!NoStaleCaller, G!DecidesRightly
  <1>3. Identified'
    BY <1>1 DEF IInv, Identified
  <1>4. Keyed'
    BY <1>1 DEF IInv, Keyed
  <1> QED
    BY <1>2, <1>3, <1>4 DEF IInv

\* A middleware that leaves the rows and the request's origin alone.
Passes ==
    /\ keyRow' = keyRow /\ user' = user /\ DOMAIN greq' = RequestFields /\ greq.pc # "new" /\ greq'.pc # "new"
    /\ greq'.ep = greq.ep /\ greq'.from = greq.from /\ greq'.ip = greq.ip
    /\ greq'.keyWas = greq.keyWas /\ greq'.userWas = greq.userWas /\ greq'.roles = greq.roles

\* A middleware that lets a request through leaves the rows alone.
LEMMA PassesRows ==
  ASSUME IInv, Passes
  PROVE  Typed' /\ Fresh'
  BY DEF Passes, IInv, Typed, Fresh

\* A limiter keys on the caller or the address, and passes the request on or refuses it.
LEMMA LimitStep ==
  ASSUME IInv, G!LimitIP \/ G!LimitUser
  PROVE  IInv'
  <1>1. /\ Passes /\ greq'.sub = greq.sub
        /\ greq'.limitKey \in {greq.limitKey, G!LimitKey(greq)}
        /\ \/ greq.pc = "limitIP" /\ greq'.pc \in {"apikey", "429"}
           \/ greq.pc = "limitUser" /\ greq'.pc \in {"rbac", "429"}
    BY DEF G!LimitIP, G!LimitUser, G!Limited, Passes, IInv, Typed, RequestFields
  <1>2. Identified' /\ G!NoStaleCaller' /\ G!DecidesRightly'
    BY <1>1 DEF Passes, IInv, Identified, G!NoStaleCaller, G!DecidesRightly
  <1>3. Keyed'
    BY <1>1 DEF Passes, IInv, Keyed, G!LimitKey
  <1> QED
    BY <1>1, <1>2, <1>3, PassesRows DEF IInv

LEMMA APIKeyAuthStep ==
  ASSUME G!GateAssumption, IInv, G!APIKeyAuth
  PROVE  IInv'
  <1> DEFINE found == CASE greq.from.key = "good"   -> G!KeyLookup
                        [] greq.from.key = "static" -> G!StaticLookup
                        [] OTHER -> Nobody
             asked == G!ReadsCredentials(greq.ep) /\ greq.from.key # None
  <1>1. /\ greq.from.key = "good" => found = G!KeyLookup
        /\ greq.from.key = "static" => found = G!StaticLookup
        /\ greq.from.key \notin {"good", "static"} => found = Nobody
    BY Zenon
  <1>2. /\ ~asked => greq' = [greq EXCEPT !.pc = "token"]
        /\ asked /\ found = Nobody => greq' = [greq EXCEPT !.pc = "401"]
        /\ asked /\ found # Nobody => greq' = [greq EXCEPT !.pc = "token", !.sub = found]
        /\ greq.pc = "apikey" /\ keyRow' = keyRow /\ user' = user
    BY DEF G!APIKeyAuth
  <1> HIDE DEF found
  <1>3. /\ Passes /\ greq'.limitKey = greq.limitKey /\ greq.sub = Nobody
        /\ greq'.pc \in {"token", "401"}
        /\ greq'.sub = IF asked THEN found ELSE Nobody
        /\ greq'.pc = "token" /\ asked => found # Nobody
    BY <1>2 DEF Passes, IInv, Typed, Identified, RequestFields
  <1>4. Identified'
    BY <1>1, <1>3 DEF Passes, IInv, Identified
  <1>5. Keyed' /\ G!DecidesRightly'
    BY <1>3 DEF Passes, IInv, Keyed, G!DecidesRightly
  <1>6. G!NoStaleCaller'
    <2>1. CASE greq.from.key = "good"
      <3>1. greq'.sub # Nobody => keyRow.state = "live" /\ greq'.sub.role = keyRow.role
        <4>1. G!KeyLookup # Nobody => keyRow.state = "live" /\ G!KeyLookup.role = keyRow.role
          BY DEF G!KeyLookup
        <4>2. greq'.sub \in {G!KeyLookup, Nobody}
          BY <1>1, <1>3, <2>1
        <4> QED
          BY <4>1, <4>2
      <3>2. greq'.from.key = "good" /\ (greq'.sub # Nobody => greq'.keyWas.state = "live" /\ greq'.sub.role \in greq'.roles)
        BY <1>3, <2>1, <3>1 DEF Passes, IInv, Fresh
      <3> QED
        BY <3>2 DEF G!NoStaleCaller
    <2>2. CASE greq.from.key = "static"
      BY <1>1, <1>3, <2>2 DEF G!StaticLookup, Passes, IInv, G!NoStaleCaller
    <2>3. CASE greq.from.key \notin {"good", "static"}
      BY <1>1, <1>3, <2>3 DEF G!NoStaleCaller
    <2> QED
      BY <2>1, <2>2, <2>3
  <1> QED
    BY <1>3, <1>4, <1>5, <1>6, PassesRows DEF IInv

LEMMA RequireAuthStep ==
  ASSUME G!GateAssumption, IInv, G!RequireAuth
  PROVE  IInv'
  <1> DEFINE t == greq.from.token
  <1>1. /\ greq.pc = "token" /\ keyRow' = keyRow /\ user' = user
        /\ \/ greq' = [greq EXCEPT !.pc = "401"]
           \/ greq' = [greq EXCEPT !.pc = "limitUser"]
           \/ /\ G!ReadsCredentials(greq.ep) /\ greq.sub = Nobody
              /\ \/ greq' = [greq EXCEPT !.pc = "validate"]
                 \/ greq' = [greq EXCEPT !.pc = "limitUser", !.sub = G!Claimed(t)] /\ ~RevocationCheck
    <2> DEFINE c1 == ~G!ReadsCredentials(greq.ep) \/ greq.sub # Nobody
               c2 == G!ReadsCredentials(greq.ep) /\ greq.sub = Nobody /\ t = None
               e1 == [greq EXCEPT !.pc = "limitUser"]
               e2 == [greq EXCEPT !.pc = IF G!Requires(greq.ep) THEN "401" ELSE "limitUser"]
               e3 == IF ~G!Parses(t) THEN [greq EXCEPT !.pc = "401"]
                     ELSE IF RevocationCheck THEN [greq EXCEPT !.pc = "validate"]
                     ELSE [greq EXCEPT !.pc = "limitUser", !.sub = G!Claimed(t)]
    <2>1. greq' = CASE c1 -> e1 [] c2 -> e2 [] OTHER -> e3
      BY DEF G!RequireAuth
    <2>2. (c1 => greq' = e1) /\ (c2 => greq' = e2) /\ (~c1 /\ ~c2 => greq' = e3)
      <3> HIDE DEF e1, e2, e3
      <3> QED
        BY <2>1
    <2> QED
      BY <2>2 DEF G!RequireAuth
  <1>2. /\ Passes /\ greq'.limitKey = greq.limitKey /\ greq'.pc \in {"401", "limitUser", "validate"}
        /\ greq'.pc = "validate" => G!ReadsCredentials(greq.ep) /\ greq.sub = Nobody
        /\ \/ greq'.sub = greq.sub
           \/ G!ReadsCredentials(greq.ep) /\ greq.sub = Nobody /\ ~RevocationCheck
    BY <1>1 DEF Passes, IInv, Typed, RequestFields
  <1>3. greq'.pc = "validate" => greq'.sub = Nobody
    BY <1>1 DEF IInv, Typed, RequestFields
  <1>4. Identified'
    BY <1>1, <1>2, <1>3 DEF Passes, IInv, Identified
  <1>5. Keyed' /\ G!DecidesRightly'
    BY <1>2 DEF Passes, IInv, Keyed, G!DecidesRightly
  <1>6. G!NoStaleCaller'
    <2>1. CASE greq'.sub = greq.sub
      BY <1>2, <2>1 DEF Passes, IInv, G!NoStaleCaller
    <2>2. CASE G!ReadsCredentials(greq.ep) /\ greq.sub = Nobody /\ ~RevocationCheck
      <3>1. greq.from.key = None
        BY <1>1, <2>2 DEF IInv, Identified
      <3> QED
        BY <1>2, <2>2, <3>1 DEF Passes, G!NoStaleCaller, G!GateAssumption
    <2> QED
      BY <1>2, <2>1, <2>2
  <1> QED
    BY <1>2, <1>4, <1>5, <1>6, PassesRows DEF IInv

LEMMA ValidateStep ==
  ASSUME G!GateAssumption, IInv, G!Validate
  PROVE  IInv'
  <1> DEFINE t == greq.from.token
             holds == user.exists /\ user.version = t.version
  <1>1. /\ greq.pc = "validate" /\ greq.sub = Nobody /\ keyRow' = keyRow /\ user' = user
        /\ holds => greq' = [greq EXCEPT !.pc = "limitUser", !.sub = [G!Claimed(t) EXCEPT !.role = user.role]]
        /\ ~holds => greq' = [greq EXCEPT !.pc = "401"]
    BY DEF G!Validate, IInv, Identified
  <1>2. /\ Passes /\ greq'.limitKey = greq.limitKey /\ greq'.pc \in {"401", "limitUser"}
        /\ holds => greq'.sub = [G!Claimed(t) EXCEPT !.role = user.role]
        /\ ~holds => greq'.sub = Nobody
    BY <1>1 DEF Passes, IInv, Typed, RequestFields
  <1>3. greq.from.key = None
    BY <1>1 DEF IInv, Identified
  <1>4. Identified'
    BY <1>2, <1>3 DEF Passes, Identified
  <1>5. Keyed' /\ G!DecidesRightly'
    BY <1>2 DEF Passes, IInv, Keyed, G!DecidesRightly
  <1>6. G!NoStaleCaller'
    <2>1. [G!Claimed(t) EXCEPT !.role = user.role].role = user.role
      BY DEF G!Claimed
    <2>2. holds => greq.userWas.exists /\ greq.userWas.version <= t.version /\ greq'.sub.role \in greq.roles
      BY <1>1, <1>2, <2>1 DEF IInv, Typed, Fresh
    <2> HIDE DEF holds
    <2> QED
      BY <1>2, <1>3, <2>2 DEF Passes, G!NoStaleCaller, G!GateAssumption
  <1> QED
    BY <1>2, <1>4, <1>5, <1>6, PassesRows DEF IInv

\* A condition has one of three outcomes.
LEMMA MatchAnswers ==
  ASSUME NEW c, NEW sub
  PROVE  G!MatchCondition(c, sub) \in {"yes", "no", "error"}
  <1> DEFINE ok == IF G!ApplyOp(c.op, G!SubjectAttr(sub, c.attr), c.vals) THEN "yes" ELSE "no"
             c1 == c.attr = "*"
             c2 == c.attr \notin G!Attributes \cup {"*"} /\ sub # Nobody
  <1>1. G!MatchCondition(c, sub) = CASE c1 -> "yes" [] c2 -> "error" [] OTHER -> ok
    BY DEF G!MatchCondition
  <1>2. ok \in {"yes", "no", "error"}
    OBVIOUS
  <1> HIDE DEF ok, c1, c2
  <1>3. c1 => ~c2
    BY DEF c1, c2
  <1> QED
    BY <1>1, <1>2, <1>3

\* The conditions are met exactly if none of them fails.
LEMMA ConditionsMet ==
  ASSUME NEW conds, DOMAIN conds \subseteq Nat, NEW sub
  PROVE  /\ G!EvalConditions(conds, sub) \in {"yes", "no", "error"}
         /\ G!EvalConditions(conds, sub) = "yes" <=> \A i \in DOMAIN conds : G!MatchCondition(conds[i], sub) = "yes"
  <1> DEFINE failing == {i \in DOMAIN conds : G!MatchCondition(conds[i], sub) # "yes"}
             first == CHOOSE i \in failing : \A j \in failing : i <= j
  <1>1. CASE failing = {}
    BY <1>1 DEF G!EvalConditions
  <1>2. CASE failing # {}
    <2>1. first \in failing
      <3>1. failing \in SUBSET Nat
        OBVIOUS
      <3>2. \E i \in failing : \A j \in failing : i <= j
        BY <1>2, <3>1, LeastNat
      <3> HIDE DEF failing
      <3> QED
        BY <3>2
    <2>2. G!EvalConditions(conds, sub) = G!MatchCondition(conds[first], sub)
      BY <1>2 DEF G!EvalConditions
    <2> HIDE DEF first
    <2> QED
      BY <2>1, <2>2, MatchAnswers
  <1> QED
    BY <1>1, <1>2

\* What the route needs of the role are the actions the specification of access asks for.
LEMMA ActionsNeeded ==
  ASSUME NEW ep, ep.op \in G!Operations
  PROVE  G!CasbinActions(ep) = G!Needs(ep.op, ep.update) /\ G!CasbinActions(ep) \subseteq G!AllActions
  <1>1. CASE ep.op = "upsert" \/ (ep.op = "create" /\ ep.update)
    BY <1>1 DEF G!CasbinActions, G!Needs, G!AllActions
  <1>2. CASE ~(ep.op = "upsert" \/ (ep.op = "create" /\ ep.update))
    <2>1. G!CasbinActions(ep) = {G!MethodToAction(ep.op)}
      BY <1>2 DEF G!CasbinActions
    <2>2. CASE ep.op \in {"list", "get"}
      BY <1>2, <2>1, <2>2 DEF G!MethodToAction, G!Needs, G!AllActions
    <2>3. CASE ep.op \in {"update", "replace"}
      BY <1>2, <2>1, <2>3 DEF G!MethodToAction, G!Needs, G!AllActions
    <2>4. CASE ep.op \in {"create", "delete"}
      BY <1>2, <2>1, <2>4 DEF G!MethodToAction, G!Needs, G!AllActions
    <2> QED
      BY <1>2, <2>2, <2>3, <2>4 DEF G!Operations
  <1> QED
    BY <1>1, <1>2

\* An auth block asks for nothing only if it is the empty one.
LEMMA SomethingAsked ==
  ASSUME NEW b \in G!AuthBlocks
  PROVE  b # [require |-> FALSE, roles |-> {}, conds |-> <<>>] <=> b.require \/ b.roles # {} \/ b.conds # <<>>
  <1>1. b = [require |-> b.require, roles |-> b.roles, conds |-> b.conds] /\ b.require \in BOOLEAN
    BY DEF G!AuthBlocks
  <1>2. ASSUME ~b.require, b.roles = {}, b.conds = <<>>
        PROVE  b = [require |-> FALSE, roles |-> {}, conds |-> <<>>]
    <2>1. b.require = FALSE
      BY <1>1, <1>2, Zenon
    <2> QED
      BY <1>1, <1>2, <2>1, Zenon
  <1> QED
    BY <1>2

\* The checks, in their order, let through whom the configuration allows.
LEMMA RBACStep ==
  ASSUME G!GateAssumption, G!HierarchyFits, IInv, G!RBAC
  PROVE  IInv'
  <1> DEFINE a    == G!ResolveOpAuth(greq.ep)
             role == G!SubjectAttr(greq.sub, "role")
             cond == G!EvalConditions(a.conds, greq.sub)
             barred == greq.ep.casbin /\ \E act \in G!CasbinActions(greq.ep) :
                                        ~G!Enforce(Roles, Entities, role, greq.ep.entity, act)
             answer == IF ~G!Requires(greq.ep) THEN "handler"
                   ELSE IF greq.sub = Nobody THEN "401"
                   ELSE IF barred THEN "403"
                   ELSE IF a.roles # {} /\ role \notin a.roles THEN "403"
                   ELSE IF cond = "error" THEN "500"
                   ELSE IF cond = "no" THEN "403"
                   ELSE "handler"
  <1>1. greq' = [greq EXCEPT !.pc = answer] /\ greq.pc = "rbac" /\ keyRow' = keyRow /\ user' = user
    BY DEF G!RBAC
  <1>2. answer \in {"handler", "401", "403", "500"}
    OBVIOUS
  <1>3. Passes /\ greq'.limitKey = greq.limitKey /\ greq'.pc = answer /\ greq'.sub = greq.sub
    <2> HIDE DEF answer
    <2> QED
      BY <1>1, <1>2 DEF Passes, IInv, Typed, RequestFields
  <1>4. Identified' /\ Keyed' /\ G!NoStaleCaller'
    <2> HIDE DEF answer
    <2>1. Identified'
      BY <1>1, <1>2, <1>3 DEF Passes, IInv, Identified
    <2>2. Keyed'
      BY <1>1, <1>2, <1>3 DEF Passes, IInv, Keyed
    <2>3. G!NoStaleCaller'
      BY <1>1, <1>2, <1>3 DEF Passes, IInv, G!NoStaleCaller
    <2> QED
      BY <2>1, <2>2, <2>3
  <1>5. a \in G!AuthBlocks \cup {NoAuth} /\ greq.ep \in Endpoints
    BY DEF G!GateAssumption, IInv, Typed, G!ResolveOpAuth
  <1>6. greq.sub # Nobody => role = greq.sub.role
    BY DEF G!SubjectAttr, G!Attributes
  <1>7. greq.ep.casbin => (barred <=> ~\A act \in G!Needs(greq.ep.op, greq.ep.update) : G!Entitled(role, greq.ep.entity, act))
    BY <1>5, ActionsNeeded, EnforcesTheConfiguration DEF G!GateAssumption
  <1>8. G!Requires(greq.ep) => a # NoAuth /\ a \in G!AuthBlocks
    BY <1>5 DEF G!Requires
  <1>9. G!Requires(greq.ep) =>
          /\ cond \in {"yes", "no", "error"}
          /\ cond = "yes" <=> \A i \in DOMAIN a.conds : G!MatchCondition(a.conds[i], greq.sub) = "yes"
    BY <1>8, ConditionsMet DEF G!AuthBlocks
  <1>10. (a # NoAuth /\ a # [require |-> FALSE, roles |-> {}, conds |-> <<>>]) <=> G!Requires(greq.ep)
    BY <1>5, SomethingAsked DEF G!Requires
  <1>11. G!Allowed(greq.ep, greq.sub) <=>
           (G!Requires(greq.ep) =>
             /\ greq.sub # Nobody
             /\ greq.ep.casbin => \A act \in G!Needs(greq.ep.op, greq.ep.update) : G!Entitled(greq.sub.role, greq.ep.entity, act)
             /\ a.roles # {} => greq.sub.role \in a.roles
             /\ \A i \in DOMAIN a.conds : G!MatchCondition(a.conds[i], greq.sub) = "yes")
    BY <1>10 DEF G!Allowed
  <1> HIDE DEF a, role, cond
  <1>12. (answer = "handler" => G!Allowed(greq.ep, greq.sub)) /\ (answer = "403" => ~G!Allowed(greq.ep, greq.sub))
    <2>1. CASE ~G!Requires(greq.ep) \/ greq.sub = Nobody
      BY <2>1, <1>11
    <2>2. CASE G!Requires(greq.ep) /\ greq.sub # Nobody
      <3>1. ~greq.ep.casbin => ~barred
        OBVIOUS
      <3> HIDE DEF barred
      <3> QED
        BY <2>2, <3>1, <1>6, <1>7, <1>9, <1>11
    <2> QED
      BY <2>1, <2>2
  <1> HIDE DEF answer
  <1>13. G!DecidesRightly'
    BY <1>3, <1>12 DEF Passes, G!DecidesRightly
  <1> QED
    BY <1>3, <1>4, <1>13, PassesRows DEF IInv

LEMMA StepIInv ==
  ASSUME G!GateAssumption, G!HierarchyFits, IInv, [G!Next]_(G!vars)
  PROVE  IInv'
  <1>1. CASE UNCHANGED G!vars
    BY <1>1 DEF G!vars, IInv, Typed, Fresh, Identified, Keyed, G!NoStaleCaller, G!DecidesRightly
  <1> QED
    BY <1>1, ChangeKeyStep, ChangeUserStep, GateArriveStep, LimitStep, APIKeyAuthStep, RequireAuthStep, ValidateStep,
       RBACStep DEF G!Next

\* The address a limiter keys on is the peer's, or one that a trusted hop vouches for.
LEMMA AddressVouched ==
  ASSUME NEW from, from.xff \in Seq(STRING)
  PROVE  LET ip == G!ResolveClientIP(from) IN
           \/ ip = from.peer
           \/ /\ from.peer \in Trusted
              /\ \/ ip = from.real
                 \/ \E i \in DOMAIN from.xff :
                      ip = from.xff[i] /\ \A j \in i+1 .. Len(from.xff) : from.xff[j] \in Trusted
  <1> DEFINE stops == {i \in DOMAIN from.xff : from.xff[i] \notin Trusted}
             last  == CHOOSE i \in stops : \A j \in stops : j <= i
             c1 == from.peer \notin Trusted
             c2 == from.peer \in Trusted /\ stops # {} /\ from.xff[last] # "bad"
             ip3 == IF from.real \notin {None, "bad"} THEN from.real ELSE from.peer
  <1>1. stops # {} => last \in stops /\ \A j \in stops : j <= last
    <2> SUFFICES ASSUME stops # {} PROVE \E i \in stops : \A j \in stops : j <= i
      OBVIOUS
    <2>1. stops \in SUBSET (1 .. Len(from.xff)) /\ Len(from.xff) \in Nat
      OBVIOUS
    <2> HIDE DEF stops
    <2> QED
      BY <2>1, LastPosition
  <1>2. G!ResolveClientIP(from) = CASE c1 -> from.peer [] c2 -> from.xff[last] [] OTHER -> ip3
    BY DEF G!ResolveClientIP
  <1> HIDE DEF last
  <1>3. c2 => \A j \in last+1 .. Len(from.xff) : from.xff[j] \in Trusted
    BY <1>1
  <1>4. c2 => last \in DOMAIN from.xff
    BY <1>1
  <1>5. (c1 => ~c2) /\ (~c1 => from.peer \in Trusted) /\ ip3 \in {from.real, from.peer}
    OBVIOUS
  <1> HIDE DEF c1, c2, ip3
  <1>6. \/ c1 /\ G!ResolveClientIP(from) = from.peer
        \/ c2 /\ G!ResolveClientIP(from) = from.xff[last]
        \/ ~c1 /\ ~c2 /\ G!ResolveClientIP(from) = ip3
    BY <1>2, <1>5
  <1> QED
    BY <1>3, <1>4, <1>5, <1>6

LEMMA IInvImplies ==
  ASSUME G!GateAssumption, IInv
  PROVE  G!NoStaleCaller /\ G!DecidesRightly /\ G!KeyedRightly
  <1>1. greq.pc = "handler" /\ greq.ep.kind = "crud" /\ greq.from.key = "wrong" => FALSE
    BY DEF IInv, Identified, G!ReadsCredentials, G!GateAssumption
  <1>2. ASSUME greq.limitKey # None, greq.limitKey[1] = "ip"
        PROVE  greq.limitKey[2] = G!ResolveClientIP(greq.from)
    BY <1>2 DEF IInv, Keyed
  <1>3. greq.from.xff \in Seq(STRING)
    BY DEF IInv, Typed, G!GateAssumption
  <1> QED
    BY <1>1, <1>2, <1>3, AddressVouched DEF G!KeyedRightly, IInv

-----------------------------------------------------------------------------

-----------------------------------------------------------------------------
(* Order *)

Total(S, order) ==
    /\ \A a, b \in S : a # b => <<a, b>> \in order \/ <<b, a>> \in order
    /\ \A a \in S : <<a, a>> \notin order
    /\ \A a, b, c \in S : <<a, b>> \in order /\ <<b, c>> \in order => <<a, c>> \in order

Place(S, order, e) == Cardinality({x \in S : <<x, e>> \in order})

\* In a finite total order every element has a place of its own.
LEMMA PlacesDiffer ==
  ASSUME NEW S, IsFiniteSet(S), NEW order, Total(S, order)
  PROVE  /\ \A e \in S : Place(S, order, e) \in 0 .. Cardinality(S) - 1
         /\ \A a, b \in S : <<a, b>> \in order => Place(S, order, a) < Place(S, order, b)
         /\ \A a, b \in S : Place(S, order, a) = Place(S, order, b) => a = b
  <1> DEFINE lower(e) == {x \in S : <<x, e>> \in order}
  <1>1. \A e \in S : lower(e) \subseteq S \ {e}
    BY DEF Total
  <1>2. \A e \in S : IsFiniteSet(lower(e)) /\ Cardinality(lower(e)) \in Nat
    BY FS_Subset, FS_CardinalityType
  <1>3. ASSUME NEW e \in S PROVE Place(S, order, e) \in 0 .. Cardinality(S) - 1
    <2>1. IsFiniteSet(S \ {e}) /\ Cardinality(S \ {e}) = Cardinality(S) - 1
      BY FS_RemoveElement
    <2>2. Cardinality(lower(e)) <= Cardinality(S \ {e})
      BY <1>1, <2>1, FS_Subset
    <2>3. Cardinality(S) \in Nat /\ Place(S, order, e) = Cardinality(lower(e))
      BY FS_CardinalityType DEF Place
    <2> HIDE DEF lower
    <2> QED
      BY <1>2, <2>1, <2>2, <2>3
  <1>4. ASSUME NEW a \in S, NEW b \in S, <<a, b>> \in order PROVE Place(S, order, a) < Place(S, order, b)
    <2>1. lower(a) \cup {a} \subseteq lower(b)
      BY <1>4 DEF Total
    <2>2. a \notin lower(a)
      BY DEF Total
    <2>3. Cardinality(lower(a) \cup {a}) = Cardinality(lower(a)) + 1
      BY <1>2, <2>2, FS_AddElement
    <2>4. Cardinality(lower(a) \cup {a}) <= Cardinality(lower(b))
      BY <1>2, <2>1, FS_Subset
    <2>5. Place(S, order, a) = Cardinality(lower(a)) /\ Place(S, order, b) = Cardinality(lower(b))
      BY DEF Place
    <2> HIDE DEF lower
    <2> QED
      BY <1>2, <2>3, <2>4, <2>5
  <1>5. ASSUME NEW a \in S, NEW b \in S, Place(S, order, a) = Place(S, order, b), a # b PROVE FALSE
    <2>1. <<a, b>> \in order \/ <<b, a>> \in order
      BY <1>5 DEF Total
    <2>2. Place(S, order, a) \in Int /\ Place(S, order, b) \in Int
      BY <1>3
    <2> QED
      BY <1>4, <1>5, <2>1, <2>2
  <1> QED
    BY <1>3, <1>4, <1>5

\* Every place is taken, so the sequence holds the elements of the set, in order.
LEMMA ArrangedIs ==
  ASSUME NEW S, IsFiniteSet(S), NEW order, Total(S, order)
  PROVE  /\ Cardinality(S) \in Nat
         /\ DOMAIN Arranged(S, order) = 1 .. Cardinality(S)
         /\ Arranged(S, order) \in Seq(S) /\ Len(Arranged(S, order)) = Cardinality(S)
         /\ \A n \in 1 .. Cardinality(S) : /\ Arranged(S, order)[n] \in S
                                           /\ Place(S, order, Arranged(S, order)[n]) = n - 1
         /\ \A e \in S : /\ Place(S, order, e) + 1 \in 1 .. Cardinality(S)
                         /\ Arranged(S, order)[Place(S, order, e) + 1] = e
         /\ \A m, n \in 1 .. Cardinality(S) :
               m < n => <<Arranged(S, order)[m], Arranged(S, order)[n]>> \in order
  <1> DEFINE size == Cardinality(S)
             s == Arranged(S, order)
             f == [e \in S |-> Place(S, order, e)]
  <1>1. size \in Nat
    BY FS_CardinalityType
  <1>2. /\ \A e \in S : Place(S, order, e) \in 0 .. size - 1
        /\ \A a, b \in S : <<a, b>> \in order => Place(S, order, a) < Place(S, order, b)
        /\ \A a, b \in S : Place(S, order, a) = Place(S, order, b) => a = b
    BY PlacesDiffer
  <1> HIDE DEF size
  <1>3. IsFiniteSet(0 .. size - 1) /\ Cardinality(0 .. size - 1) = size
    BY <1>1, FS_Interval
  <1>4. f \in Injection(S, 0 .. size - 1)
    BY <1>2 DEF Injection, IsInjective
  <1>5. f \in Surjection(S, 0 .. size - 1)
    BY <1>3, <1>4, FS_Injection DEF size
  <1>6. \A n \in 1 .. size : n - 1 \in 0 .. size - 1
    BY <1>1
  <1>7. \A n \in 1 .. size : \E e \in S : Place(S, order, e) = n - 1
    BY <1>5, <1>6 DEF Surjection
  <1>8. s = [n \in 1 .. size |-> CHOOSE e \in S : Place(S, order, e) = n - 1]
    BY DEF Arranged, Place, size
  <1> HIDE DEF s, f
  <1>9. \A n \in 1 .. size : s[n] \in S /\ Place(S, order, s[n]) = n - 1
    BY <1>7, <1>8
  <1>10. \A e \in S : Place(S, order, e) + 1 \in 1 .. size /\ s[Place(S, order, e) + 1] = e
    <2> SUFFICES ASSUME NEW e \in S PROVE Place(S, order, e) + 1 \in 1 .. size /\ s[Place(S, order, e) + 1] = e
      OBVIOUS
    <2>1. Place(S, order, e) \in 0 .. size - 1
      BY <1>2
    <2> DEFINE k == Place(S, order, e) + 1
    <2>2. k \in 1 .. size /\ k - 1 = Place(S, order, e)
      BY <1>1, <2>1
    <2>3. s[k] \in S /\ Place(S, order, s[k]) = Place(S, order, e)
      BY <1>9, <2>2
    <2> QED
      BY <1>2, <2>2, <2>3
  <1>11. \A m, n \in 1 .. size : m < n => <<s[m], s[n]>> \in order
    <2> SUFFICES ASSUME NEW m \in 1 .. size, NEW n \in 1 .. size, m < n, <<s[m], s[n]>> \notin order PROVE FALSE
      OBVIOUS
    <2>1. /\ s[m] \in S /\ Place(S, order, s[m]) = m - 1
          /\ s[n] \in S /\ Place(S, order, s[n]) = n - 1
      BY <1>9
    <2>2. s[m] # s[n]
      BY <1>1, <2>1
    <2>3. <<s[n], s[m]>> \in order
      BY <2>1, <2>2 DEF Total
    <2>4. n - 1 < m - 1
      BY <1>2, <2>1, <2>3
    <2> QED
      BY <1>1, <2>4
  <1>12. DOMAIN s = 1 .. size /\ s \in Seq(S) /\ Len(s) = size
    <2>1. DOMAIN s = 1 .. size /\ s \in [1 .. size -> S]
      BY <1>8, <1>9
    <2> QED
      BY <1>1, <2>1
  <1> QED
    BY <1>1, <1>9, <1>10, <1>11, <1>12 DEF size, s

\* SubSeq, point by point.
LEMMA PartOf ==
  ASSUME NEW s, NEW m \in Int, NEW n \in Int
  PROVE  SubSeq(s, m, n) = [i \in 1 .. n - m + 1 |-> s[m + i - 1]]
  <1> DEFINE S == {s[i] : i \in m .. n}
             t == SubSeq(s, m, n)
  <1>1. \A i \in m .. n : s[i] \in S
    OBVIOUS
  <1>2. /\ t \in Seq(S) /\ Len(t) = IF m <= n THEN n - m + 1 ELSE 0
        /\ \A i \in 1 .. n - m + 1 : t[i] = s[m + i - 1]
    BY <1>1, SubSeqProperties
  <1> HIDE DEF S, t
  <1>3. t = [i \in 1 .. Len(t) |-> t[i]]
    BY <1>2
  <1>4. 1 .. Len(t) = 1 .. n - m + 1
    BY <1>2
  <1>5. t = [i \in 1 .. n - m + 1 |-> t[i]]
    BY <1>3, <1>4
  <1> QED
    BY <1>2, <1>5 DEF t

-----------------------------------------------------------------------------
(* What a query returns *)

Entries == [id : Ids, row : StoredRows]

Entry(i) == [id |-> i, row |-> table[i]]

\* Tables of rows that can be stored.
TableOK == DOMAIN table = Ids /\ \A i \in Ids : table[i] # NoRow => table[i] \in StoredRows

\* A query returns the stored rows that meet its WHERE clause.
LEMMA MatchingIs ==
  ASSUME ListingAssumption, TableOK, NEW q, NEW row, NEW after
  PROVE  /\ Matching(q, row, after) \subseteq Entries /\ IsFiniteSet(Matching(q, row, after))
         /\ \A e \in Matching(q, row, after) : e = Entry(e.id) /\ BaseWhere(q, row, e.row)
         /\ \A i \in Ids :
               Entry(i) \in Matching(q, row, after) <=>
                  /\ table[i] # NoRow
                  /\ BaseWhere(q, row, table[i])
                  /\ q.via = "get" => i = q.id
                  /\ after # NoCursor /\ q.style = "cursor" => KeysetClause(q, after, Entry(i))
  <1> DEFINE M == Matching(q, row, after)
             Stored == {i \in Ids : table[i] # NoRow}
             Fits(e) == /\ BaseWhere(q, row, e.row)
                        /\ q.via = "get" => e.id = q.id
                        /\ after # NoCursor /\ q.style = "cursor" => KeysetClause(q, after, e)
  <1>1. M = {e \in {Entry(i) : i \in Stored} : Fits(e)}
    BY DEF Matching, Entry
  <1>2. \A i \in Stored : Entry(i) \in Entries /\ Entry(i).id = i /\ Entry(i).row = table[i]
    BY DEF TableOK, Entries, Entry
  <1>3. \A i \in Ids : Entry(i).id = i /\ Entry(i).row = table[i]
    BY DEF Entry
  <1> HIDE DEF Fits
  <1>4. \A e \in M : e.id \in Stored /\ e = Entry(e.id) /\ Fits(e)
    BY <1>1, <1>2
  <1>5. M \subseteq Entries
    BY <1>2, <1>4
  <1>6. IsFiniteSet(M)
    <2> DEFINE f == [e \in M |-> e.id]
    <2>1. f \in Injection(M, Ids)
      BY <1>4 DEF Injection, IsInjective
    <2> QED
      BY <2>1, FS_Injection DEF ListingAssumption
  <1>7. \A i \in Ids : Entry(i) \in M <=> i \in Stored /\ Fits(Entry(i))
    BY <1>1, <1>2, <1>3, <1>4
  <1> QED
    BY <1>3, <1>4, <1>5, <1>6, <1>7 DEF Fits

\* ORDER BY with the id as tie-breaker is total, NULLs included.
LEMMA BeforeTotal ==
  ASSUME ListingAssumption, TableOK, NEW q \in Reads, NEW S, S \subseteq Entries, \A e \in S : e = Entry(e.id)
  PROVE  Total(S, InBefore(q, S))
  <1>1. \A a, b \in S : <<a, b>> \in InBefore(q, S) <=> Before(q, a, b)
    BY DEF InBefore
  <1>2. \A a, b \in S : a # b => a.id # b.id
    OBVIOUS
  <1>3. \A a \in S : a.id \in Int /\ a.row.k \in Int \cup {NULL}
    BY DEF Entries, StoredRows, ListingAssumption
  <1>4. NULL \notin Int /\ q.desc \in BOOLEAN
    BY DEF ListingAssumption
  <1>5. \A a \in S : ~Before(q, a, a)
    BY <1>3, <1>4 DEF Before, Cmp
  <1>6. \A a, b \in S : a # b => Before(q, a, b) \/ Before(q, b, a)
    BY <1>2, <1>3, <1>4 DEF Before, Cmp
  <1>7. \A a, b, c \in S : Before(q, a, b) /\ Before(q, b, c) => Before(q, a, c)
    BY <1>3, <1>4 DEF Before, Cmp
  <1> QED
    BY <1>1, <1>5, <1>6, <1>7 DEF Total

\* What has a place in the order.
Placed(e) == e.id \in Int /\ e.row.k \in Int \cup {NULL}

\* And transitive, also between a row and a cursor.
LEMMA BeforeTransitive ==
  ASSUME ListingAssumption, NEW q \in Reads, NEW a, NEW b, NEW c, Placed(a), Placed(b), Placed(c),
         Before(q, a, b), Before(q, b, c)
  PROVE  Before(q, a, c)
  BY DEF Before, Cmp, Placed, ListingAssumption

\* The place a cursor stands for.
At(c) == [id |-> c.id, row |-> [k |-> c.val]]

\* The keyset clause of a cursor asks for exactly the rows that come after it.
LEMMA KeysetIsBefore ==
  ASSUME ListingAssumption, NEW q \in Reads, NEW c \in Cursors, NEW e, Placed(e),
         c.sortBy = q.sortBy, q.sortBy # "id" \/ c.val = NULL
  PROVE  Placed(At(c)) /\ (KeysetClause(q, c, e) <=> Before(q, At(c), e))
  <1>1. /\ e.id \in Int /\ e.row.k \in Int \cup {NULL} /\ c.id \in Int /\ c.val \in Int \cup {NULL}
        /\ NULL \notin Int /\ q.desc \in BOOLEAN /\ q.sortBy \in {"id", "k"}
    BY DEF Cursors, ListingAssumption, Placed
  <1>2. At(c).id = c.id /\ At(c).row.k = c.val
    BY DEF At
  <1>3. CASE q.sortBy = "id"
    BY <1>1, <1>2, <1>3 DEF KeysetClause, Before, Placed
  <1>4. CASE q.sortBy = "k" /\ c.val = NULL
    BY <1>1, <1>2, <1>4 DEF KeysetClause, Before, Cmp, Placed
  <1>5. CASE q.sortBy = "k" /\ c.val # NULL
    BY <1>1, <1>2, <1>5 DEF KeysetClause, Before, Cmp, Placed
  <1> QED
    BY <1>1, <1>3, <1>4, <1>5

\* A cursor stands where the row stood that it was made from, if its sort value survives.
LEMMA NewCursorIs ==
  ASSUME ListingAssumption, NEW q \in Reads, NEW e, e.id \in Ids, Placed(e)
  PROVE  /\ NewCursor(q, e) \in Cursors /\ NewCursor(q, e) # NoCursor
         /\ NewCursor(q, e).sortBy = q.sortBy /\ (q.sortBy = "id" => NewCursor(q, e).val = NULL)
         /\ Survives(q) => \A x : Before(q, At(NewCursor(q, e)), x) <=> Before(q, e, x)
  <1> DEFINE c == NewCursor(q, e)
  <1>a. q.kind \in {"plain", "boolean"} /\ q.engine \in {"postgres", "mysql", "sqlite"}
    BY DEF ListingAssumption
  <1>b. /\ Returned(q, e.row.k) \in Int \cup {NULL}
        /\ Survives(q) => q.sortBy = "id" \/ Returned(q, e.row.k) = e.row.k
    BY <1>a DEF Returned, Survives, Placed
  <1>1. c \in Cursors /\ c.sortBy = q.sortBy /\ c.id = e.id
        /\ c.val = IF q.sortBy = "id" THEN NULL ELSE Returned(q, e.row.k)
    BY <1>b DEF NewCursor, Cursors, ListingAssumption
  <1>2. At(c).id = e.id /\ (Survives(q) /\ q.sortBy # "id" => At(c).row.k = e.row.k)
    BY <1>1, <1>b DEF At
  <1> HIDE DEF c
  <1>3. Survives(q) => \A x : Before(q, At(c), x) <=> Before(q, e, x)
    BY <1>2 DEF Before
  <1> QED
    BY <1>1, <1>3 DEF c, ListingAssumption

-----------------------------------------------------------------------------
(* The WHERE clause *)

\* A list of n values, and one list after another.
IsSeq(s, n) == n \in Nat /\ s = [i \in 1 .. n |-> s[i]]

\* Lists are known by their domain 1 .. n.
LEMMA SeqIs ==
  ASSUME NEW n \in Nat, NEW s, IsSeq(s, n)
  PROVE  s \in Seq({s[i] : i \in 1 .. n}) /\ Len(s) = n
  <1> DEFINE S == {s[i] : i \in 1 .. n}
  <1>1. s \in [1 .. n -> S]
    BY DEF IsSeq
  <1> HIDE DEF S
  <1>2. s \in Seq(S) /\ Len(s) = n
    BY <1>1
  <1> QED
    BY <1>2 DEF S

\* The arguments of the filters are a list.
LEMMA FillerIs ==
  ASSUME ListingAssumption, NEW q \in Reads
  PROVE  IsSeq(Filler(q.filters), Len(Filler(q.filters)))
  <1> DEFINE D == DOMAIN q.filters
             part(i) == {i} \X Placeholders(q.filters[i])
             parts == {part(i) : i \in D}
             n == Cardinality(UNION parts)
  <1>1. IsFiniteSet(D)
    BY FS_Interval DEF ListingAssumption, IsList
  <1>2. \A i \in D : IsFiniteSet(Placeholders(q.filters[i]))
    <2> TAKE i \in D
    <2>1. CASE q.filters[i].op \in Lists
      <3>1. Placeholders(q.filters[i]) = q.filters[i].val
        BY <2>1 DEF Placeholders, Lists
      <3> QED
        BY <2>1, <3>1 DEF ListingAssumption
    <2>2. CASE q.filters[i].op \notin Lists
      BY <2>2, FS_EmptySet, FS_Singleton DEF Placeholders
    <2> QED
      BY <2>1, <2>2
  <1>3. \A i \in D : IsFiniteSet(part(i))
    BY <1>2, FS_Singleton, FS_Product
  <1>4. IsFiniteSet(parts)
    <2> DEFINE f == [i \in D |-> part(i)]
    <2>1. f \in Surjection(D, parts)
      BY DEF Surjection
    <2> QED
      BY <1>1, <2>1, FS_Surjection
  <1>5. n \in Nat
    BY <1>3, <1>4, FS_UNION, FS_CardinalityType
  <1>6. Filler(q.filters) = [i \in 1 .. n |-> "filter value"]
    BY DEF Filler
  <1> HIDE DEF n
  <1> DEFINE f == [i \in 1 .. n |-> "filter value"]
  <1>7. IsSeq(f, n)
    BY <1>5 DEF IsSeq
  <1> HIDE DEF f
  <1>8. Len(f) = n
    BY <1>5, <1>7, SeqIs
  <1> QED
    BY <1>6, <1>7, <1>8 DEF f

Concat(s, t) == s \o t

\* Arguments of one clause follow those of another.
LEMMA ConcatIs ==
  ASSUME NEW m \in Nat, NEW n \in Nat, NEW s, NEW t, IsSeq(s, m), IsSeq(t, n)
  PROVE  /\ IsSeq(Concat(s, t), m + n)
         /\ \A i \in 1 .. m : Concat(s, t)[i] = s[i]
         /\ \A i \in 1 .. n : Concat(s, t)[m + i] = t[i]
  <1> DEFINE S == {s[i] : i \in 1 .. m} \cup {t[i] : i \in 1 .. n}
  <1>1. s \in Seq(S) /\ Len(s) = m /\ t \in Seq(S) /\ Len(t) = n
    <2>1. s \in [1 .. m -> S] /\ t \in [1 .. n -> S]
      BY DEF IsSeq
    <2> HIDE DEF S
    <2> QED
      BY <2>1
  <1> HIDE DEF S
  <1>2. s \o t \in Seq(S) /\ Len(s \o t) = m + n
    BY <1>1
  <1>3. \A i \in 1 .. m : (s \o t)[i] = s[i]
    BY <1>1
  <1>4. \A i \in 1 .. n : (s \o t)[m + i] = t[i]
    BY <1>1
  <1> DEFINE u == s \o t
  <1>5. u \in Seq(S) /\ Len(u) = m + n
    BY <1>2
  <1> HIDE DEF u
  <1>6. IsSeq(u, m + n)
    BY <1>5 DEF IsSeq
  <1> QED
    BY <1>3, <1>4, <1>6 DEF u, Concat

\* A fragment whose placeholders are its own arguments.
Bound(row) ==
    /\ IsSeq(row.args, Len(row.args))
    /\ \A i \in DOMAIN row.alts : row.alts[i].ph \in 1 .. Len(row.args)
    /\ row.tenant \in 0 .. Len(row.args)
    /\ row = [alts |-> row.alts, args |-> row.args, tenant |-> row.tenant]
    /\ row.alts = [i \in DOMAIN row.alts |-> [col |-> row.alts[i].col, ph |-> row.alts[i].ph]]

\* However many placeholders come before it, a fragment compares with its own arguments.
LEMMA ShiftedMeans ==
  ASSUME ListingAssumption, NEW q \in Reads, NEW row, Bound(row), NEW r
  PROVE  BaseWhere(q, row, r) =>
           /\ ~r.deleted /\ \A i \in DOMAIN q.filters : FilterClause(q.filters[i], r.k)
           /\ DOMAIN row.alts = {} \/ \E i \in DOMAIN row.alts : r[row.alts[i].col] = row.args[row.alts[i].ph]
           /\ row.tenant = 0 \/ r.tenant = row.args[row.tenant]
  <1> DEFINE before == Filler(q.filters)
             m      == Len(before)
             frag   == ReindexFilter(row, m)
             args   == before \o row.args
  <1> SUFFICES ASSUME BaseWhere(q, row, r)
               PROVE  /\ ~r.deleted /\ \A i \in DOMAIN q.filters : FilterClause(q.filters[i], r.k)
                      /\ DOMAIN row.alts = {} \/ \E i \in DOMAIN row.alts : r[row.alts[i].col] = row.args[row.alts[i].ph]
                      /\ row.tenant = 0 \/ r.tenant = row.args[row.tenant]
    OBVIOUS
  <1>1. /\ \A i \in DOMAIN q.filters : FilterClause(q.filters[i], r.k)
        /\ ~r.deleted
        /\ frag.alts = <<>> \/ \E i \in DOMAIN frag.alts : r[frag.alts[i].col] = args[frag.alts[i].ph]
        /\ frag.tenant = 0 \/ r.tenant = args[frag.tenant]
    BY DEF BaseWhere
  <1>2. m \in Nat /\ IsSeq(before, m)
    <2>1. IsSeq(before, m)
      BY FillerIs
    <2> HIDE DEF before, m
    <2> QED
      BY <2>1 DEF IsSeq
  <1> HIDE DEF before, m
  <1>3. \A k \in 1 .. Len(row.args) : args[m + k] = row.args[k]
    <2>1. IsSeq(row.args, Len(row.args)) /\ Len(row.args) \in Nat
      BY DEF Bound, IsSeq
    <2>2. args = Concat(before, row.args)
      BY DEF Concat
    <2> DEFINE own == row.args
               n == Len(row.args)
    <2> HIDE DEF args, own, n
    <2>3. n \in Nat /\ IsSeq(own, n)
      BY <2>1 DEF own, n
    <2>4. \A k \in 1 .. n : Concat(before, own)[m + k] = own[k]
      BY <1>2, <2>3, ConcatIs
    <2> QED
      BY <2>2, <2>4 DEF own, n
  <1>4. /\ DOMAIN frag.alts = DOMAIN row.alts
        /\ \A i \in DOMAIN row.alts : frag.alts[i].col = row.alts[i].col /\ frag.alts[i].ph = row.alts[i].ph + m
        /\ frag.tenant = IF row.tenant = 0 THEN 0 ELSE row.tenant + m
    BY <1>2 DEF ReindexFilter, Bound
  <1> HIDE DEF frag, args
  <1>5. \A i \in DOMAIN row.alts : args[frag.alts[i].ph] = row.args[row.alts[i].ph]
    <2> TAKE i \in DOMAIN row.alts
    <2>1. row.alts[i].ph \in 1 .. Len(row.args) /\ frag.alts[i].ph = m + row.alts[i].ph
      BY <1>2, <1>4 DEF Bound
    <2> QED
      BY <1>3, <2>1
  <1>6. DOMAIN row.alts = {} \/ \E i \in DOMAIN row.alts : r[row.alts[i].col] = row.args[row.alts[i].ph]
    <2>1. CASE frag.alts = <<>>
      BY <1>4, <2>1
    <2>2. CASE frag.alts # <<>>
      BY <1>1, <1>4, <1>5, <2>2
    <2> QED
      BY <2>1, <2>2
  <1>7. row.tenant = 0 \/ r.tenant = row.args[row.tenant]
    <2> SUFFICES ASSUME row.tenant # 0 PROVE r.tenant = row.args[row.tenant]
      OBVIOUS
    <2>1. row.tenant \in 1 .. Len(row.args) /\ frag.tenant = m + row.tenant /\ frag.tenant # 0
      BY <1>2, <1>4 DEF Bound, IsSeq
    <2> QED
      BY <1>1, <1>3, <2>1
  <1> QED
    BY <1>1, <1>6, <1>7

\* The empty list.
LEMMA EmptyIs == IsSeq(<<>>, 0) /\ Len(<<>>) = 0 /\ DOMAIN <<>> = {}
  <1> DEFINE s == <<>>
  <1>1. s \in Seq({}) /\ Len(s) = 0
    OBVIOUS
  <1> HIDE DEF s
  <1>2. IsSeq(s, 0) /\ DOMAIN s = {}
    BY <1>1 DEF IsSeq
  <1> QED
    BY <1>1, <1>2 DEF s

\* One argument more leaves those before it in place.
LEMMA AppendIs ==
  ASSUME NEW n \in Nat, NEW s, IsSeq(s, n), NEW x
  PROVE  /\ IsSeq(Append(s, x), n + 1) /\ Len(Append(s, x)) = n + 1
         /\ \A i \in 1 .. n : Append(s, x)[i] = s[i]
         /\ Append(s, x)[n + 1] = x
  <1> DEFINE S == {s[i] : i \in 1 .. n} \cup {x}
  <1>1. s \in [1 .. n -> S] /\ x \in S
    BY DEF IsSeq
  <1> HIDE DEF S
  <1>2. s \in Seq(S) /\ Len(s) = n
    BY <1>1
  <1> DEFINE t == Append(s, x)
  <1>3. /\ t \in Seq(S) /\ Len(t) = n + 1
        /\ \A i \in 1 .. n : t[i] = s[i]
        /\ t[n + 1] = x
    BY <1>1, <1>2, AppendProperties
  <1> HIDE DEF t
  <1>4. IsSeq(t, n + 1)
    BY <1>3 DEF IsSeq
  <1> QED
    BY <1>3, <1>4 DEF t

\* The first rule that is not refused decides.
LEMMA RowFilterIs ==
  ASSUME ListingAssumption, NEW q \in Reads, ResolveRowFilter(q.rules, q.sub).status = "ok"
  PROVE  \/ q.rules = <<>> /\ ResolveRowFilter(q.rules, q.sub).row = Open
         \/ \E i \in DOMAIN q.rules :
               /\ MatchCondition(q.rules[i].when, q.sub) = "yes"
               /\ \A j \in 1 .. i-1 : MatchCondition(q.rules[j].when, q.sub) = "no"
               /\ ResolveRowFilter(q.rules, q.sub).row = BindSubjectParams(q.rules[i].filter, q.sub)
  <1> DEFINE deciding == {i \in DOMAIN q.rules : MatchCondition(q.rules[i].when, q.sub) # "no"}
             first == CHOOSE i \in deciding : \A j \in deciding : i <= j
             access == ResolveRowFilter(q.rules, q.sub)
  <1>1. CASE q.rules = <<>>
    BY <1>1 DEF ResolveRowFilter
  <1>2. CASE q.rules # <<>> /\ deciding = {}
    <2>1. access = [status |-> "denied", row |-> Open]
      BY <1>2 DEF ResolveRowFilter
    <2> QED
      BY <2>1
  <1>3. CASE q.rules # <<>> /\ deciding # {}
    <2>1. DOMAIN q.rules = 1 .. Len(q.rules) /\ Len(q.rules) \in Nat
      BY DEF ListingAssumption, IsList
    <2>2. deciding \in SUBSET Nat
      BY <2>1
    <2>3. \E i \in deciding : \A j \in deciding : i <= j
      BY <1>3, <2>2, LeastNat
    <2>4. first \in deciding /\ \A j \in deciding : first <= j
      BY <2>3
    <2>5. access = IF MatchCondition(q.rules[first].when, q.sub) = "error"
                   THEN [status |-> "error", row |-> Open]
                   ELSE [status |-> "ok", row |-> BindSubjectParams(q.rules[first].filter, q.sub)]
      BY <1>3 DEF ResolveRowFilter
    <2> HIDE DEF first
    <2>6. access.status = "ok"
      OBVIOUS
    <2>7. /\ MatchCondition(q.rules[first].when, q.sub) # "error"
          /\ access.row = BindSubjectParams(q.rules[first].filter, q.sub)
      <3> HIDE DEF access
      <3>1. CASE MatchCondition(q.rules[first].when, q.sub) = "error"
        BY <2>5, <2>6, <3>1
      <3>2. CASE MatchCondition(q.rules[first].when, q.sub) # "error"
        BY <2>5, <3>2
      <3> QED
        BY <3>1, <3>2
    <2>8. MatchCondition(q.rules[first].when, q.sub) \in {"yes", "no", "error"}
      BY DEF MatchCondition
    <2>9. first \in DOMAIN q.rules /\ MatchCondition(q.rules[first].when, q.sub) = "yes"
      BY <2>4, <2>7, <2>8
    <2>10. \A j \in 1 .. first-1 : MatchCondition(q.rules[j].when, q.sub) = "no"
      <3> SUFFICES ASSUME NEW j \in 1 .. first-1, MatchCondition(q.rules[j].when, q.sub) # "no" PROVE FALSE
        OBVIOUS
      <3>1. first \in 1 .. Len(q.rules) /\ j \in DOMAIN q.rules
        BY <2>1, <2>9
      <3> QED
        BY <2>1, <2>4, <3>1
    <2> QED
      BY <2>7, <2>9, <2>10
  <1> QED
    BY <1>1, <1>2, <1>3

\* Each alternative of a row filter finds the subject's attribute under its placeholder.
LEMMA BindIs ==
  ASSUME NEW filter \in Seq([col : {"owner", "tenant"}, bind : Attributes]), NEW sub
  PROVE  \A row : row = BindSubjectParams(filter, sub) =>
           /\ Bound(row) /\ DOMAIN row.alts = DOMAIN filter /\ row.tenant = 0
           /\ \A i \in DOMAIN filter : /\ row.alts[i].col = filter[i].col
                                        /\ row.args[row.alts[i].ph] = SubjectAttr(sub, filter[i].bind)
  <1> DEFINE n == Len(filter)
             args == [i \in DOMAIN filter |-> SubjectAttr(sub, filter[i].bind)]
             alts == [i \in DOMAIN filter |-> [col |-> filter[i].col, ph |-> i]]
             row == BindSubjectParams(filter, sub)
  <1>1. DOMAIN filter = 1 .. n /\ n \in Nat
    OBVIOUS
  <1>2. row = [alts |-> alts, args |-> args, tenant |-> 0]
    BY DEF BindSubjectParams
  <1>3. IsSeq(args, n)
    BY <1>1 DEF IsSeq
  <1>4. Len(args) = n
    BY <1>1, <1>3, SeqIs
  <1>5. DOMAIN alts = 1 .. n /\ \A i \in 1 .. n : alts[i] = [col |-> filter[i].col, ph |-> i]
    BY <1>1
  <1>6. \A i \in 1 .. n : args[i] = SubjectAttr(sub, filter[i].bind)
    BY <1>1
  <1> HIDE DEF row, n
  <1>7. alts = [i \in DOMAIN alts |-> [col |-> alts[i].col, ph |-> alts[i].ph]]
    BY <1>1
  <1> HIDE DEF args, alts
  <1>8. /\ row.alts = alts /\ row.args = args /\ row.tenant = 0
        /\ row = [alts |-> row.alts, args |-> row.args, tenant |-> row.tenant]
    BY <1>2
  <1>9. Bound(row)
    <2>1. \A i \in DOMAIN alts : alts[i].ph \in 1 .. n
      BY <1>5
    <2> QED
      BY <1>1, <1>3, <1>4, <1>7, <1>8, <2>1 DEF Bound
  <1> QED
    BY <1>1, <1>5, <1>6, <1>8, <1>9 DEF row

\* No rule, no restriction.
LEMMA OpenIs == Bound(Open) /\ Open.tenant = 0 /\ DOMAIN Open.alts = {}
  <1>1. \A s : s = <<>> => s = [i \in DOMAIN s |-> [col |-> s[i].col, ph |-> s[i].ph]]
    <2> TAKE s
    <2> HAVE s = <<>>
    <2>1. s = [i \in 1 .. 0 |-> s[i]] /\ DOMAIN s = {}
      BY EmptyIs DEF IsSeq
    <2> QED
      BY <2>1
  <1> QED
    BY <1>1, EmptyIs DEF Bound, Open

\* The tenant takes the next placeholder and disturbs none.
LEMMA ScopeIs ==
  ASSUME NEW row, Bound(row), NEW sub
  PROVE  \A scoped : scoped = ScopeTenant(row, sub) =>
           /\ Bound(scoped) /\ scoped.alts = row.alts
           /\ scoped.tenant # 0 /\ scoped.args[scoped.tenant] = sub.tenant
           /\ \A i \in 1 .. Len(row.args) : scoped.args[i] = row.args[i]
  <1> DEFINE n == Len(row.args)
             scoped == ScopeTenant(row, sub)
             args == Append(row.args, sub.tenant)
  <1>1. n \in Nat /\ IsSeq(row.args, n)
    BY DEF Bound, IsSeq
  <1>2. /\ IsSeq(args, n + 1) /\ Len(args) = n + 1 /\ args[n + 1] = sub.tenant
        /\ \A i \in 1 .. n : args[i] = row.args[i]
    BY <1>1, AppendIs
  <1>3. scoped = [alts |-> row.alts, args |-> args, tenant |-> n + 1]
    <2>1. scoped = [row EXCEPT !.args = args, !.tenant = n + 1]
      BY DEF ScopeTenant
    <2>2. row = [alts |-> row.alts, args |-> row.args, tenant |-> row.tenant]
      BY DEF Bound
    <2> HIDE DEF scoped, args, n
    <2> QED
      BY <2>1, <2>2
  <1> HIDE DEF scoped, args
  <1>4. /\ scoped.alts = row.alts /\ scoped.args = args /\ scoped.tenant = n + 1
        /\ scoped = [alts |-> scoped.alts, args |-> scoped.args, tenant |-> scoped.tenant]
    BY <1>3
  <1>5. Bound(scoped)
    BY <1>1, <1>2, <1>4 DEF Bound
  <1> QED
    BY <1>1, <1>2, <1>4, <1>5 DEF scoped

\* Resolving the rules has one of three outcomes.
LEMMA RowFilterAnswers ==
  ASSUME NEW rules, NEW sub
  PROVE  ResolveRowFilter(rules, sub).status \in {"ok", "denied", "error"}
  <1> DEFINE deciding == {i \in DOMAIN rules : MatchCondition(rules[i].when, sub) # "no"}
             first == CHOOSE i \in deciding : \A j \in deciding : i <= j
             access == ResolveRowFilter(rules, sub)
  <1>1. CASE rules = <<>>
    BY <1>1 DEF ResolveRowFilter
  <1>2. CASE rules # <<>> /\ deciding = {}
    <2>1. access = [status |-> "denied", row |-> Open]
      BY <1>2 DEF ResolveRowFilter
    <2> QED
      BY <2>1
  <1>3. CASE rules # <<>> /\ deciding # {}
    <2>1. access = IF MatchCondition(rules[first].when, sub) = "error"
                   THEN [status |-> "error", row |-> Open]
                   ELSE [status |-> "ok", row |-> BindSubjectParams(rules[first].filter, sub)]
      BY <1>3 DEF ResolveRowFilter
    <2> HIDE DEF access, first
    <2>2. access.status \in {"ok", "error"}
      BY <2>1
    <2> QED
      BY <2>2 DEF access
  <1> QED
    BY <1>1, <1>2, <1>3

\* What the fragment and the tenant clause let through is the caller's.
LEMMA AccessIsRightful ==
  ASSUME ListingAssumption, NEW q \in Reads, Access(q).status = "ok", NEW r, BaseWhere(q, Access(q).row, r)
  PROVE  Rightful(q, r)
  <1> DEFINE found == ResolveRowFilter(q.rules, q.sub)
             row == Access(q).row
  <1>1. /\ found.status = "ok"
        /\ ~q.scoped => row = found.row
        /\ q.scoped => row = ScopeTenant(found.row, q.sub) /\ SubjectAttr(q.sub, "tenant") # ""
    <2> DEFINE acc == Access(q)
    <2>1. ASSUME q.bad PROVE acc.status = "400"
      BY <2>1 DEF Access
    <2>2. ASSUME ~q.bad, found.status = "denied" PROVE acc.status # "ok"
      <3>1. acc = [status |-> Denied(q), row |-> Open]
        BY <2>2 DEF Access
      <3>2. Denied(q) \in {"done", "404", "403"}
        BY DEF Denied
      <3> HIDE DEF acc
      <3> QED
        BY <3>1, <3>2
    <2>3. ASSUME ~q.bad, found.status = "error" PROVE acc.status # "ok"
      <3>1. acc = [status |-> "500", row |-> Open]
        BY <2>3 DEF Access
      <3> HIDE DEF acc
      <3> QED
        BY <3>1
    <2>4. acc.status = "ok" /\ row = acc.row
      OBVIOUS
    <2>5. ~q.bad /\ found.status \notin {"denied", "error"}
      <3> HIDE DEF acc, found
      <3> QED
        BY <2>1, <2>2, <2>3, <2>4
    <2>6. acc = IF ~q.scoped THEN found
                ELSE IF SubjectAttr(q.sub, "tenant") = ""
                THEN [status |-> IF q.via = "store" THEN "done" ELSE "403", row |-> Open]
                ELSE [status |-> "ok", row |-> ScopeTenant(found.row, q.sub)]
      BY <2>5 DEF Access
    <2>7. found.status = "ok"
      BY <2>5, RowFilterAnswers
    <2> HIDE DEF acc, found, row
    <2>8. CASE ~q.scoped
      BY <2>4, <2>6, <2>7, <2>8
    <2>9. CASE q.scoped /\ SubjectAttr(q.sub, "tenant") = ""
      <3>1. acc.status # "ok"
        BY <2>6, <2>9
      <3> QED
        BY <2>4, <3>1
    <2>10. CASE q.scoped /\ SubjectAttr(q.sub, "tenant") # ""
      BY <2>4, <2>6, <2>7, <2>10
    <2> QED
      BY <2>8, <2>9, <2>10
  <1> HIDE DEF row
  <1>2. BaseWhere(q, row, r)
    BY DEF row
  <1>3. PICK i : \/ q.rules = <<>> /\ found.row = Open
                 \/ /\ i \in DOMAIN q.rules
                    /\ MatchCondition(q.rules[i].when, q.sub) = "yes"
                    /\ \A j \in 1 .. i-1 : MatchCondition(q.rules[j].when, q.sub) = "no"
                    /\ found.row = BindSubjectParams(q.rules[i].filter, q.sub)
    BY <1>1, RowFilterIs
  <1> DEFINE f == q.rules[i].filter
  <1> HIDE DEF found
  <1>4. Bound(found.row)
    <2>1. CASE q.rules = <<>> /\ found.row = Open
      BY <2>1, OpenIs
    <2>2. CASE i \in DOMAIN q.rules /\ found.row = BindSubjectParams(f, q.sub)
      <3>1. f \in Seq([col : {"owner", "tenant"}, bind : Attributes])
        BY <2>2 DEF ListingAssumption
      <3> HIDE DEF f
      <3> QED
        BY <2>2, <3>1, BindIs
    <2> QED
      BY <1>3, <2>1, <2>2
  <1> DEFINE inner == found.row
             sub == q.sub
  <1>a. q.scoped => /\ Bound(row) /\ row.alts = inner.alts /\ row.tenant # 0 /\ row.args[row.tenant] = sub.tenant
                    /\ \A n \in 1 .. Len(inner.args) : row.args[n] = inner.args[n]
    <2>1. Bound(inner) /\ (q.scoped => row = ScopeTenant(inner, sub))
      BY <1>1, <1>4
    <2> HIDE DEF inner, sub
    <2>2. \A scoped : scoped = ScopeTenant(inner, sub) =>
             /\ Bound(scoped) /\ scoped.alts = inner.alts
             /\ scoped.tenant # 0 /\ scoped.args[scoped.tenant] = sub.tenant
             /\ \A n \in 1 .. Len(inner.args) : scoped.args[n] = inner.args[n]
      BY <2>1, ScopeIs
    <2> QED
      BY <2>1, <2>2
  <1>5. Bound(row) /\ row.alts = found.row.alts /\ \A n \in 1 .. Len(found.row.args) : row.args[n] = found.row.args[n]
    <2>1. CASE q.scoped
      BY <1>a, <2>1
    <2>2. CASE ~q.scoped
      BY <1>1, <1>4, <2>2
    <2> QED
      BY <2>1, <2>2
  <1>6. /\ ~r.deleted /\ \A n \in DOMAIN q.filters : FilterClause(q.filters[n], r.k)
        /\ DOMAIN row.alts = {} \/ \E n \in DOMAIN row.alts : r[row.alts[n].col] = row.args[row.alts[n].ph]
        /\ row.tenant = 0 \/ r.tenant = row.args[row.tenant]
    BY <1>2, <1>5, ShiftedMeans
  <1>7. q.scoped => r.tenant = q.sub.tenant
    BY <1>6, <1>a
  <1>8. q.rules # <<>> =>
           \/ f = <<>>
           \/ \E n \in DOMAIN f : r[f[n].col] = SubjectAttr(q.sub, f[n].bind)
    <2> SUFFICES ASSUME q.rules # <<>>
                 PROVE  f = <<>> \/ \E n \in DOMAIN f : r[f[n].col] = SubjectAttr(q.sub, f[n].bind)
      OBVIOUS
    <2>1. i \in DOMAIN q.rules /\ found.row = BindSubjectParams(f, q.sub)
      BY <1>3
    <2>2. f \in Seq([col : {"owner", "tenant"}, bind : Attributes])
      BY <2>1 DEF ListingAssumption
    <2> HIDE DEF f
    <2>3. /\ DOMAIN row.alts = DOMAIN f /\ DOMAIN found.row.alts = DOMAIN f
          /\ \A n \in DOMAIN f : /\ row.alts[n].col = f[n].col /\ row.alts[n].ph = found.row.alts[n].ph
                                 /\ found.row.args[row.alts[n].ph] = SubjectAttr(q.sub, f[n].bind)
      <3>1. \A x : x = BindSubjectParams(f, sub) =>
               /\ Bound(x) /\ DOMAIN x.alts = DOMAIN f /\ x.tenant = 0
               /\ \A n \in DOMAIN f : /\ x.alts[n].col = f[n].col
                                      /\ x.args[x.alts[n].ph] = SubjectAttr(sub, f[n].bind)
        BY <2>2, BindIs
      <3> HIDE DEF inner
      <3>2. inner = BindSubjectParams(f, sub) /\ row.alts = inner.alts
        BY <1>5, <2>1 DEF inner
      <3>3. /\ DOMAIN inner.alts = DOMAIN f
            /\ \A n \in DOMAIN f : /\ inner.alts[n].col = f[n].col
                                   /\ inner.args[inner.alts[n].ph] = SubjectAttr(sub, f[n].bind)
        BY <3>1, <3>2
      <3> QED
        BY <3>2, <3>3 DEF inner
    <2>4. \A n \in DOMAIN f : row.args[row.alts[n].ph] = found.row.args[row.alts[n].ph]
      BY <1>4, <1>5, <2>3 DEF Bound
    <2>5. CASE DOMAIN f = {}
      BY <2>2, <2>5
    <2>6. CASE DOMAIN f # {}
      BY <1>6, <2>3, <2>4, <2>6
    <2> QED
      BY <2>5, <2>6
  <1>9. q.rules # <<>> =>
          \E n \in DOMAIN q.rules :
            /\ MatchCondition(q.rules[n].when, q.sub) = "yes"
            /\ \A j \in 1 .. n-1 : MatchCondition(q.rules[j].when, q.sub) = "no"
            /\ \/ q.rules[n].filter = <<>>
               \/ \E j \in DOMAIN q.rules[n].filter :
                    r[q.rules[n].filter[j].col] = SubjectAttr(q.sub, q.rules[n].filter[j].bind)
    BY <1>3, <1>8
  <1> QED
    BY <1>6, <1>7, <1>9 DEF Rightful

-----------------------------------------------------------------------------
(* A page *)

From(q, after) == IF q.style = "offset" /\ after # NoCursor THEN after ELSE 0
Kept(q, row, after) == Trim(Select(q, row, after), q.limit)
More(q, row, after) == Len(Select(q, row, after)) > q.limit
PlaceIn(q, row, after, e) == Place(Matching(q, row, after), InBefore(q, Matching(q, row, after)), e)

\* The smaller of two.
LEMMA SmallerOf ==
  ASSUME NEW a \in Int, NEW b \in Int
  PROVE  Min({a, b}) = IF a <= b THEN a ELSE b
  BY DEF Min

\* Rows stand in a result in the order of the sort.
LEMMA PlacesOrder ==
  ASSUME ListingAssumption, TableOK, NEW q \in Reads, NEW row, NEW after
  PROVE  /\ \A a, b \in Matching(q, row, after) :
               Before(q, a, b) <=> PlaceIn(q, row, after, a) < PlaceIn(q, row, after, b)
         /\ \A a \in Matching(q, row, after) : PlaceIn(q, row, after, a) \in Nat
  <1> DEFINE M == Matching(q, row, after)
             order == InBefore(q, M)
  <1>1. M \subseteq Entries /\ IsFiniteSet(M) /\ \A e \in M : e = Entry(e.id)
    BY MatchingIs
  <1>2. Total(M, order)
    BY <1>1, BeforeTotal
  <1>3. \A a, b \in M : <<a, b>> \in order <=> Before(q, a, b)
    BY DEF InBefore
  <1>5. \A e \in M : PlaceIn(q, row, after, e) = Place(M, order, e)
    BY DEF PlaceIn
  <1> HIDE DEF M, order
  <1>4. /\ \A e \in M : Place(M, order, e) \in 0 .. Cardinality(M) - 1
        /\ \A a, b \in M : <<a, b>> \in order => Place(M, order, a) < Place(M, order, b)
        /\ \A a, b \in M : Place(M, order, a) = Place(M, order, b) => a = b
    BY <1>1, <1>2, PlacesDiffer
  <1>6. \A e \in M : Place(M, order, e) \in Nat
    BY <1>1, <1>4, FS_CardinalityType
  <1>7. ASSUME NEW a \in M, NEW b \in M, Place(M, order, a) < Place(M, order, b) PROVE Before(q, a, b)
    <2>1. a # b
      BY <1>6, <1>7
    <2>2. <<a, b>> \in order \/ <<b, a>> \in order
      BY <1>2, <2>1 DEF Total
    <2>3. <<b, a>> \notin order
      BY <1>4, <1>6, <1>7
    <2> QED
      BY <1>3, <2>2, <2>3
  <1>8. \A a, b \in M : Before(q, a, b) => Place(M, order, a) < Place(M, order, b)
    BY <1>3, <1>4
  <1>9. /\ \A a, b \in M : Before(q, a, b) <=> PlaceIn(q, row, after, a) < PlaceIn(q, row, after, b)
        /\ \A a \in M : PlaceIn(q, row, after, a) \in Nat
    BY <1>5, <1>6, <1>7, <1>8
  <1> QED
    BY <1>9 DEF M

\* The rows at the places from the start of the page on, as many as fit.
PageOf(q, row, after, kept) ==
    /\ IsSeq(kept, Len(kept)) /\ Len(kept) \in 0 .. q.limit
    /\ \A n \in 1 .. Len(kept) :
          kept[n] \in Matching(q, row, after) /\ PlaceIn(q, row, after, kept[n]) = From(q, after) + n - 1
    /\ \A e \in Matching(q, row, after) :
          (\E n \in 1 .. Len(kept) : kept[n] = e) <=>
             /\ From(q, after) <= PlaceIn(q, row, after, e)
             /\ PlaceIn(q, row, after, e) < From(q, after) + q.limit
    /\ More(q, row, after) => Len(kept) = q.limit
    /\ ~More(q, row, after) =>
          \A e \in Matching(q, row, after) : PlaceIn(q, row, after, e) < From(q, after) + q.limit

\* What a page is: the stretch of the result from where the cursor says, at most limit long.
LEMMA PageIs ==
  ASSUME ListingAssumption, TableOK, NEW q \in Reads, NEW row, NEW after, From(q, after) \in Nat
  PROVE  PageOf(q, row, after, Kept(q, row, after))
  <1> DEFINE M == Matching(q, row, after)
             order == InBefore(q, M)
             all == Arranged(M, order)
             size == Cardinality(M)
             from == From(q, after)
             limit == q.limit
             to == Min({from + limit + 1, Len(all)})
             rows == Select(q, row, after)
             kept == Kept(q, row, after)
             P(e) == PlaceIn(q, row, after, e)
             K == IF Len(rows) > limit THEN limit ELSE Len(rows)
  <1>1. M \subseteq Entries /\ IsFiniteSet(M) /\ \A e \in M : e = Entry(e.id)
    BY MatchingIs
  <1>2. Total(M, order)
    BY <1>1, BeforeTotal
  <1>3. limit \in Nat \ {0} /\ from \in Nat
    BY DEF ListingAssumption
  <1>4. /\ size \in Nat /\ Len(all) = size
        /\ \A n \in 1 .. size : all[n] \in M /\ P(all[n]) = n - 1
        /\ \A e \in M : P(e) + 1 \in 1 .. size /\ all[P(e) + 1] = e
    BY <1>1, <1>2, ArrangedIs DEF PlaceIn
  <1>5. rows = SubSeq(all, from + 1, to)
    BY DEF Select, From
  <1>6. kept = IF Len(rows) > limit THEN SubSeq(rows, 1, limit) ELSE rows
    BY DEF Kept, Trim
  <1>7. More(q, row, after) <=> Len(rows) > limit
    BY DEF More
  <1>8. \A e \in M : P(e) \in Nat
    BY PlacesOrder
  <1> HIDE DEF M, order, all, size, from, limit, rows, kept, P
  <1>9. to \in Int /\ to = IF from + limit + 1 <= size THEN from + limit + 1 ELSE size
    BY <1>3, <1>4, SmallerOf
  <1> HIDE DEF to
  <1>10. rows = [i \in 1 .. to - from |-> all[from + i]]
    <2> DEFINE m == from + 1
    <2>1. m \in Int /\ rows = SubSeq(all, m, to)
      BY <1>3, <1>5
    <2>2. to - m + 1 = to - from /\ \A i \in 1 .. to - from : m + i - 1 = from + i
      BY <1>3, <1>9
    <2> HIDE DEF m
    <2>3. SubSeq(all, m, to) = [i \in 1 .. to - m + 1 |-> all[m + i - 1]]
      BY <1>9, <2>1, PartOf
    <2> QED
      BY <2>1, <2>2, <2>3
  <1> DEFINE taken == IF to - from >= 0 THEN to - from ELSE 0
  <1>11. taken \in Nat /\ 1 .. to - from = 1 .. taken
    BY <1>3, <1>9
  <1>12. IsSeq(rows, taken) /\ \A i \in 1 .. taken : rows[i] = all[from + i]
    BY <1>10, <1>11 DEF IsSeq
  <1>13. Len(rows) = taken
    BY <1>11, <1>12, SeqIs
  <1>14. K \in 0 .. limit /\ K \in Nat
    BY <1>3, <1>11, <1>13
  <1>15. IsSeq(kept, K) /\ \A i \in 1 .. K : kept[i] = all[from + i]
    <2>1. CASE Len(rows) > limit
      <3>a. SubSeq(rows, 1, limit) = [i \in 1 .. limit - 1 + 1 |-> rows[1 + i - 1]]
        BY <1>3, PartOf
      <3>1. kept = [i \in 1 .. limit - 1 + 1 |-> rows[1 + i - 1]]
        BY <1>6, <2>1, <3>a
      <3>2. 1 .. limit - 1 + 1 = 1 .. limit /\ \A i \in 1 .. limit : 1 + i - 1 = i /\ i \in 1 .. taken
        BY <1>3, <1>11, <1>13, <2>1
      <3>3. kept = [i \in 1 .. limit |-> rows[i]]
        BY <3>1, <3>2
      <3> QED
        BY <1>3, <1>12, <2>1, <3>2, <3>3 DEF IsSeq
    <2>2. CASE ~(Len(rows) > limit)
      BY <1>6, <1>12, <1>13, <2>2
    <2> QED
      BY <2>1, <2>2
  <1>16. Len(kept) = K
    BY <1>14, <1>15, SeqIs
  <1>17. \A i \in Nat \ {0} : i \in 1 .. K <=> i <= limit /\ from + i <= size
    <2>1. K = IF taken > limit THEN limit ELSE taken
      BY <1>13
    <2>2. \A i \in Nat \ {0} : i <= taken <=> from + i <= size /\ i <= limit + 1
      BY <1>3, <1>4, <1>9
    <2> HIDE DEF K, taken
    <2> QED
      BY <1>3, <1>11, <2>1, <2>2
  <1>18. Len(rows) > limit <=> from + limit < size
    BY <1>3, <1>4, <1>9, <1>13
  <1> HIDE DEF K
  <1>19. \A n \in 1 .. K : kept[n] \in M /\ P(kept[n]) = from + n - 1
    <2> TAKE n \in 1 .. K
    <2> DEFINE m == from + n
    <2>0. n \in Nat \ {0} /\ n \in 1 .. K
      BY <1>14
    <2>a. from + n <= size
      BY <1>17, <2>0
    <2>b. size \in Nat
      BY <1>4
    <2>1. m \in 1 .. size /\ m - 1 = from + n - 1
      BY <1>3, <2>0, <2>a, <2>b
    <2>2. kept[n] = all[m]
      BY <1>15
    <2> HIDE DEF m
    <2>3. all[m] \in M /\ P(all[m]) = m - 1
      BY <1>4, <2>1
    <2> QED
      BY <2>1, <2>2, <2>3
  <1>20. \A e \in M : (\E n \in 1 .. K : kept[n] = e) <=> from <= P(e) /\ P(e) < from + limit
    <2> TAKE e \in M
    <2>1. ASSUME NEW n \in 1 .. K, kept[n] = e PROVE from <= P(e) /\ P(e) < from + limit
      <3>1. P(e) = from + n - 1 /\ n <= limit
        BY <1>3, <1>14, <1>17, <1>19, <2>1
      <3> QED
        BY <1>3, <1>14, <3>1
    <2>2. ASSUME from <= P(e), P(e) < from + limit PROVE \E n \in 1 .. K : kept[n] = e
      <3> DEFINE n == P(e) + 1 - from
      <3>1. n \in Nat \ {0} /\ from + n = P(e) + 1 /\ n <= limit
        BY <1>3, <1>8, <2>2
      <3>2. P(e) + 1 <= size /\ all[P(e) + 1] = e
        BY <1>4
      <3>3. n \in 1 .. K
        BY <1>17, <3>1, <3>2
      <3>4. kept[n] = e
        BY <1>15, <3>1, <3>2, <3>3
      <3> QED
        BY <3>3, <3>4
    <2> QED
      BY <2>1, <2>2
  <1>21. Len(rows) > limit => K = limit
    BY DEF K
  <1>22. ~(Len(rows) > limit) => \A e \in M : P(e) < from + limit
    BY <1>3, <1>4, <1>8, <1>18
  <1> QED
    BY <1>7, <1>14, <1>15, <1>16, <1>19, <1>20, <1>21, <1>22 DEF M, from, limit, kept, P, PageOf

-----------------------------------------------------------------------------
(* The invariant *)

Given == [id : Ids, row : StoredRows, rel : BOOLEAN]

WalkTyped ==
    /\ TableOK
    /\ read \in Reads /\ parents \subseteq Parents /\ writes \in Nat /\ steady \subseteq Ids
    /\ pc \in {"ask", "include", "done", "400", "403", "404", "500"}
    /\ cursor # NoCursor =>
          IF read.style = "cursor"
          THEN cursor \in Cursors /\ cursor.sortBy = read.sortBy /\ (read.sortBy = "id" => cursor.val = NULL)
          ELSE cursor \in Nat
    /\ IsSeq(page, Len(page)) /\ \A j \in 1 .. Len(page) : page[j] \in Entries
    /\ IsSeq(seen, Len(seen)) /\ \A j \in 1 .. Len(seen) : seen[j] \in Given
    /\ rel.start \in Nat
    /\ pc \in {"ask", "done"} => page = <<>>
    /\ pc = "ask" /\ cursor = NoCursor => seen = <<>> /\ steady = {}
    /\ pc = "done" /\ Access(read).status = "ok" => cursor = NoCursor

\* What the next page starts from.
NextCursor(q, row, after) ==
    IF ~More(q, row, after) THEN NoCursor
    ELSE IF q.style = "cursor" THEN NewCursor(q, Last(Kept(q, row, after)))
    ELSE From(q, after) + q.limit

\* Access lets the caller through or ends the request.
LEMMA AccessAnswers ==
  ASSUME NEW q
  PROVE  Access(q).status \in {"ok", "400", "403", "404", "500", "done"}
  <1> DEFINE found == ResolveRowFilter(q.rules, q.sub)
             acc == Access(q)
  <1>1. Denied(q) \in {"done", "404", "403"}
    BY DEF Denied
  <1>2. found.status \in {"ok", "denied", "error"}
    BY RowFilterAnswers
  <1>3. CASE q.bad
    <2>1. acc = [status |-> "400", row |-> Open]
      BY <1>3 DEF Access
    <2> QED
      BY <2>1
  <1>4. CASE ~q.bad /\ found.status = "denied"
    <2>1. acc = [status |-> Denied(q), row |-> Open]
      BY <1>4 DEF Access
    <2> HIDE DEF acc
    <2>2. acc.status \in {"done", "404", "403"}
      BY <1>1, <2>1
    <2> QED
      BY <2>2 DEF acc
  <1>5. CASE ~q.bad /\ found.status = "error"
    <2>1. acc = [status |-> "500", row |-> Open]
      BY <1>5 DEF Access
    <2> QED
      BY <2>1
  <1>6. CASE ~q.bad /\ found.status = "ok"
    <2>1. acc = IF ~q.scoped THEN found
                ELSE IF SubjectAttr(q.sub, "tenant") = ""
                THEN [status |-> IF q.via = "store" THEN "done" ELSE "403", row |-> Open]
                ELSE [status |-> "ok", row |-> ScopeTenant(found.row, q.sub)]
      BY <1>6 DEF Access
    <2> HIDE DEF acc, found
    <2>2. acc.status \in {"ok", "done", "403"}
      BY <1>6, <2>1
    <2> QED
      BY <2>2 DEF acc
  <1> QED
    BY <1>2, <1>3, <1>4, <1>5, <1>6

\* What one call of list changes.
LEMMA ListIs ==
  ASSUME ListingAssumption, read \in Reads, List
  PROVE  /\ pc = "ask" /\ UNCHANGED <<table, parents, writes, read, seen>>
         /\ \/ /\ Access(read).status # "ok" /\ pc' = Access(read).status
               /\ UNCHANGED <<page, rel, cursor, steady>>
            \/ /\ Access(read).status = "ok" /\ pc' \in {"404", "include"}
               /\ page' = Kept(read, Access(read).row, cursor)
               /\ rel' = NotLoaded
               /\ cursor' = NextCursor(read, Access(read).row, cursor)
               /\ steady' = IF cursor = NoCursor
                            THEN {e.id : e \in Matching(read, Access(read).row, NoCursor)} ELSE steady
  <1> DEFINE row == Access(read).row
             rows == Select(read, row, cursor)
             more == Len(rows) > read.limit
             kept == Trim(rows, read.limit)
  <1>1. /\ pc = "ask" /\ UNCHANGED <<table, parents, writes, read, seen>>
        /\ IF Access(read).status # "ok"
           THEN pc' = Access(read).status /\ UNCHANGED <<page, rel, cursor, steady>>
           ELSE /\ pc' = IF read.via = "get" /\ rows = <<>> THEN "404" ELSE "include"
                /\ page' = kept
                /\ rel' = NotLoaded
                /\ cursor' = CASE ~more -> NoCursor
                               [] more /\ read.style = "cursor" -> NewCursor(read, Last(kept))
                               [] OTHER -> (IF cursor = NoCursor THEN 0 ELSE cursor) + read.limit
                /\ steady' = IF cursor = NoCursor
                             THEN {e.id : e \in Matching(read, row, NoCursor)} ELSE steady
    BY DEF List
  <1>2. kept = Kept(read, row, cursor) /\ (more <=> More(read, row, cursor))
    BY DEF Kept, More
  <1> HIDE DEF row, rows, kept, more
  <1>3. CASE Access(read).status # "ok"
    BY <1>1, <1>3
  <1>4. CASE Access(read).status = "ok"
    <2>1. cursor' = IF ~more THEN NoCursor
                    ELSE IF read.style = "cursor" THEN NewCursor(read, Last(kept))
                    ELSE (IF cursor = NoCursor THEN 0 ELSE cursor) + read.limit
      BY <1>1, <1>4
    <2>2. From(read, cursor) = IF read.style = "offset" /\ cursor # NoCursor THEN cursor ELSE 0
      BY DEF From
    <2>3. read.style \in {"cursor", "offset"}
      BY DEF ListingAssumption
    <2>4. cursor' = IF ~more THEN NoCursor
                    ELSE IF read.style = "cursor" THEN NewCursor(read, Last(kept))
                    ELSE From(read, cursor) + read.limit
      BY <2>1, <2>2, <2>3
    <2>5. cursor' = NextCursor(read, row, cursor)
      BY <1>2, <2>4 DEF NextCursor
    <2> QED
      BY <1>1, <1>2, <1>4, <2>5 DEF row
  <1> QED
    BY <1>3, <1>4

\* What a page starting at the cursor is.
LEMMA PageTyped ==
  ASSUME ListingAssumption, WalkTyped, NEW row
  PROVE  /\ From(read, cursor) \in Nat
         /\ IsSeq(Kept(read, row, cursor), Len(Kept(read, row, cursor)))
         /\ Len(Kept(read, row, cursor)) \in 0 .. read.limit
         /\ \A j \in 1 .. Len(Kept(read, row, cursor)) :
               /\ Kept(read, row, cursor)[j] \in Entries
               /\ Kept(read, row, cursor)[j] \in Matching(read, row, cursor)
               /\ BaseWhere(read, row, Kept(read, row, cursor)[j].row)
  <1> DEFINE kept == Kept(read, row, cursor)
  <1>1. From(read, cursor) \in Nat
    BY DEF From, WalkTyped, ListingAssumption
  <1>2. TableOK /\ read \in Reads
    BY DEF WalkTyped
  <1>a. PageOf(read, row, cursor, kept)
    BY <1>1, <1>2, PageIs
  <1> HIDE DEF kept
  <1>3. /\ IsSeq(kept, Len(kept)) /\ Len(kept) \in 0 .. read.limit
        /\ \A n \in 1 .. Len(kept) : kept[n] \in Matching(read, row, cursor)
    BY <1>a DEF PageOf
  <1>4. Matching(read, row, cursor) \subseteq Entries /\ \A e \in Matching(read, row, cursor) : BaseWhere(read, row, e.row)
    BY <1>2, MatchingIs
  <1> QED
    BY <1>1, <1>3, <1>4 DEF kept

\* Every stored row can be compared.
LEMMA EntryPlaced ==
  ASSUME ListingAssumption, NEW e \in Entries
  PROVE  Placed(e) /\ e.id \in Ids /\ e.row \in StoredRows
  BY DEF Entries, StoredRows, Placed, ListingAssumption

\* With more to come the page is full, and the cursor is taken from its last row.
LEMMA NextCursorIs ==
  ASSUME ListingAssumption, WalkTyped, NEW row
  PROVE  /\ ~More(read, row, cursor) => NextCursor(read, row, cursor) = NoCursor
         /\ More(read, row, cursor) => NextCursor(read, row, cursor) # NoCursor /\ Len(Kept(read, row, cursor)) = read.limit
         /\ More(read, row, cursor) /\ read.style = "cursor" =>
               NextCursor(read, row, cursor) = NewCursor(read, Kept(read, row, cursor)[read.limit])
         /\ More(read, row, cursor) /\ read.style # "cursor" =>
               NextCursor(read, row, cursor) = From(read, cursor) + read.limit
         /\ NextCursor(read, row, cursor) # NoCursor =>
              IF read.style = "cursor"
              THEN /\ NextCursor(read, row, cursor) \in Cursors
                   /\ NextCursor(read, row, cursor).sortBy = read.sortBy
                   /\ (read.sortBy = "id" => NextCursor(read, row, cursor).val = NULL)
              ELSE NextCursor(read, row, cursor) \in Nat
  <1> DEFINE kept == Kept(read, row, cursor)
             next == NextCursor(read, row, cursor)
             from == From(read, cursor)
  <1>1. TableOK /\ read \in Reads /\ from \in Nat /\ read.limit \in Nat \ {0} /\ NoCursor \notin Nat
    BY PageTyped DEF WalkTyped, ListingAssumption
  <1>2. CASE ~More(read, row, cursor)
    BY <1>2 DEF NextCursor
  <1>3. CASE More(read, row, cursor)
    <2>1. Len(kept) = read.limit
      <3>1. PageOf(read, row, cursor, kept)
        BY <1>1, PageIs
      <3> HIDE DEF kept
      <3> QED
        BY <1>3, <3>1 DEF PageOf
    <2>2. read.limit \in 1 .. Len(kept) /\ Last(kept) = kept[read.limit]
      BY <1>1, <2>1 DEF Last
    <2>3. kept[read.limit] \in Entries
      BY <2>2, PageTyped
    <2> HIDE DEF kept
    <2>4. CASE read.style = "cursor"
      <3> DEFINE last == kept[read.limit]
      <3>1. next = NewCursor(read, last)
        BY <1>3, <2>2, <2>4 DEF NextCursor, kept
      <3>2. last.id \in Ids /\ Placed(last)
        BY <2>3, EntryPlaced
      <3> HIDE DEF last
      <3>3. /\ NewCursor(read, last) \in Cursors /\ NewCursor(read, last) # NoCursor
            /\ NewCursor(read, last).sortBy = read.sortBy
            /\ (read.sortBy = "id" => NewCursor(read, last).val = NULL)
        BY <1>1, <3>2, NewCursorIs
      <3> HIDE DEF next
      <3>4. /\ next # NoCursor /\ next \in Cursors /\ next.sortBy = read.sortBy /\ (read.sortBy = "id" => next.val = NULL)
            /\ next = NewCursor(read, kept[read.limit])
        BY <3>1, <3>3 DEF last
      <3> QED
        BY <1>3, <2>1, <2>4, <3>4 DEF next, kept
    <2>5. CASE read.style # "cursor"
      <3>1. next = from + read.limit
        BY <1>3, <2>5 DEF NextCursor
      <3>2. next \in Nat /\ next # NoCursor
        BY <1>1, <3>1
      <3> HIDE DEF next
      <3> QED
        BY <1>3, <2>1, <2>5, <3>1, <3>2 DEF next, kept
    <2> QED
      BY <2>4, <2>5
  <1> QED
    BY <1>2, <1>3

\* A response gives the page after what was given before.
LEMMA RespondIs ==
  ASSUME ListingAssumption, WalkTyped, Respond
  PROVE  /\ pc = "include" /\ (read.include => rel.start >= Len(DistinctKeys(page)))
         /\ pc' = IF cursor = NoCursor THEN "done" ELSE "ask"
         /\ page' = <<>> /\ rel' = NotLoaded
         /\ UNCHANGED <<table, parents, writes, read, cursor, steady>>
         /\ IsSeq(seen', Len(seen')) /\ Len(seen') = Len(seen) + Len(page)
         /\ Len(seen) \in Nat /\ Len(page) \in Nat
         /\ \A j \in 1 .. Len(seen) : seen'[j] = seen[j]
         /\ \A j \in 1 .. Len(page) :
               /\ seen'[Len(seen) + j] \in Given
               /\ seen'[Len(seen) + j].id = page[j].id /\ seen'[Len(seen) + j].row = page[j].row
               /\ seen'[Len(seen) + j].rel = (page[j].row.ref \in rel.found)
         /\ \A j \in 1 .. Len(seen') :
               \/ j \in 1 .. Len(seen) /\ seen'[j] = seen[j]
               \/ \E k \in 1 .. Len(page) : j = Len(seen) + k
  <1> DEFINE m == Len(seen)
             n == Len(page)
             told(i) == [id |-> page[i].id, row |-> page[i].row, rel |-> page[i].row.ref \in rel.found]
             given == [i \in DOMAIN page |-> told(i)]
  <1>1. m \in Nat /\ n \in Nat /\ IsSeq(seen, m) /\ IsSeq(page, n) /\ DOMAIN page = 1 .. n
    BY DEF WalkTyped, IsSeq
  <1>2. \A i \in 1 .. n : /\ told(i) \in Given /\ told(i).id = page[i].id /\ told(i).row = page[i].row
                          /\ told(i).rel = (page[i].row.ref \in rel.found)
    BY DEF WalkTyped, Given, Entries
  <1>3. seen' = seen \o given
    BY DEF Respond
  <1> HIDE DEF told
  <1>4. IsSeq(given, n) /\ \A i \in 1 .. n : given[i] = told(i)
    BY <1>1 DEF IsSeq
  <1> HIDE DEF given, m, n
  <1>6. /\ IsSeq(seen', m + n)
        /\ \A i \in 1 .. m : seen'[i] = seen[i]
        /\ \A i \in 1 .. n : seen'[m + i] = told(i)
    <2>1. /\ IsSeq(Concat(seen, given), m + n)
          /\ \A i \in 1 .. m : Concat(seen, given)[i] = seen[i]
          /\ \A i \in 1 .. n : Concat(seen, given)[m + i] = given[i]
      BY <1>1, <1>4, ConcatIs
    <2>2. seen' = Concat(seen, given)
      BY <1>3 DEF Concat
    <2> QED
      BY <1>4, <2>1, <2>2
  <1>7. Len(seen') = m + n
    <2> DEFINE k == m + n
    <2>1. k \in Nat /\ IsSeq(seen', k)
      BY <1>1, <1>6
    <2> HIDE DEF k
    <2>2. Len(seen') = k
      BY <2>1, SeqIs
    <2> QED
      BY <2>2 DEF k
  <1>8. \A j \in 1 .. Len(seen') : (j \in 1 .. m /\ seen'[j] = seen[j]) \/ \E k \in 1 .. n : j = m + k
    <2> SUFFICES ASSUME NEW j \in 1 .. Len(seen'), ~(j \in 1 .. m /\ seen'[j] = seen[j])
                 PROVE  \E k \in 1 .. n : j = m + k
      OBVIOUS
    <2>1. j \notin 1 .. m
      BY <1>6
    <2>2. j - m \in 1 .. n /\ j = m + (j - m)
      BY <1>1, <1>7, <2>1
    <2> QED
      BY <2>2
  <1>9. /\ pc = "include" /\ (read.include => rel.start >= Len(DistinctKeys(page)))
        /\ pc' = IF cursor = NoCursor THEN "done" ELSE "ask"
        /\ page' = <<>> /\ rel' = NotLoaded
        /\ UNCHANGED <<table, parents, writes, read, cursor, steady>>
    BY DEF Respond
  <1> QED
    BY <1>1, <1>2, <1>6, <1>7, <1>8, <1>9 DEF m, n

\* What a write between two pages changes: one row, which no longer stands still.
LEMMA WriteIs ==
  ASSUME ListingAssumption, WalkTyped, NEW i \in Ids, Store(i) \/ SoftDelete(i)
  PROVE  /\ TableOK' /\ pc \in {"ask", "include"} /\ writes' = writes + 1 /\ steady' = steady \ {i}
         /\ \A j \in Ids \ {i} : table'[j] = table[j]
         /\ UNCHANGED <<parents, read, pc, cursor, page, rel, seen>>
  <1>1. PICK row : Write(i, row) /\ row \in StoredRows
    <2>1. CASE Store(i)
      BY <2>1 DEF Store, ListingAssumption
    <2>2. CASE SoftDelete(i)
      <3>1. table[i] \in StoredRows
        BY <2>2 DEF SoftDelete, WalkTyped, TableOK
      <3> DEFINE old == table[i]
      <3> HIDE DEF old
      <3>2. [old EXCEPT !.deleted = TRUE] \in StoredRows
        BY <3>1 DEF StoredRows, old
      <3> QED
        BY <2>2, <3>2 DEF SoftDelete, old
    <2> QED
      BY <2>1, <2>2
  <1>2. table' = [table EXCEPT ![i] = row]
    BY <1>1 DEF Write
  <1>3. DOMAIN table = Ids /\ \A j \in Ids : table[j] # NoRow => table[j] \in StoredRows
    BY DEF WalkTyped, TableOK
  <1>4. DOMAIN table' = Ids /\ table'[i] = row /\ \A j \in Ids \ {i} : table'[j] = table[j]
    BY <1>2, <1>3
  <1>5. TableOK'
    BY <1>1, <1>3, <1>4 DEF TableOK
  <1> QED
    BY <1>1, <1>4, <1>5 DEF Write

LEMMA StepWalkTyped ==
  ASSUME ListingAssumption, WalkTyped, [Next]_vars
  PROVE  WalkTyped'
  <1> USE DEF WalkTyped
  <1>0. NotLoaded.start \in Nat
    BY DEF NotLoaded
  <1>1. CASE List
    <2> DEFINE row == Access(read).row
               kept == Kept(read, row, cursor)
               next == NextCursor(read, row, cursor)
    <2>1. TableOK'
      BY <1>1, ListIs DEF TableOK
    <2>2. CASE Access(read).status # "ok"
      BY <1>1, <2>1, <2>2, ListIs, AccessAnswers
    <2>3. CASE Access(read).status = "ok"
      <3>1. /\ pc' \in {"404", "include"} /\ page' = kept /\ rel' = NotLoaded /\ cursor' = next
            /\ UNCHANGED <<parents, writes, read, seen>>
            /\ steady' = IF cursor = NoCursor THEN {e.id : e \in Matching(read, row, NoCursor)} ELSE steady
        BY <1>1, <2>3, ListIs
      <3>2. IsSeq(kept, Len(kept)) /\ \A j \in 1 .. Len(kept) : kept[j] \in Entries
        BY PageTyped
      <3>3. next # NoCursor =>
              IF read.style = "cursor"
              THEN next \in Cursors /\ next.sortBy = read.sortBy /\ (read.sortBy = "id" => next.val = NULL)
              ELSE next \in Nat
        BY NextCursorIs
      <3>4. Matching(read, row, NoCursor) \subseteq Entries
        BY MatchingIs
      <3>5. {e.id : e \in Matching(read, row, NoCursor)} \subseteq Ids
        BY <3>4 DEF Entries
      <3>6. steady' \subseteq Ids
        BY <3>1, <3>5
      <3> HIDE DEF kept, next, row
      <3> QED
        BY <1>0, <2>1, <3>1, <3>2, <3>3, <3>6
    <2> QED
      BY <2>2, <2>3
  <1>2. CASE FetchIn
    <2>1. /\ rel'.start = rel.start + IncludeBatch
          /\ UNCHANGED <<table, parents, writes, read, pc, cursor, page, seen, steady>>
      BY <1>2 DEF FetchIn
    <2>2. rel'.start \in Nat
      BY <2>1 DEF ListingAssumption
    <2> QED
      BY <2>1, <2>2 DEF TableOK
  <1>3. CASE Respond
    <2>1. \A j \in 1 .. Len(seen') : seen'[j] \in Given
      BY <1>3, RespondIs
    <2>2. /\ IsSeq(seen', Len(seen')) /\ page' = <<>> /\ rel' = NotLoaded
          /\ pc' = IF cursor = NoCursor THEN "done" ELSE "ask"
          /\ UNCHANGED <<table, parents, writes, read, cursor, steady>>
      BY <1>3, RespondIs
    <2>3. IsSeq(<<>>, 0) /\ Len(<<>>) = 0
      BY EmptyIs
    <2> DEFINE none == <<>>
    <2> HIDE DEF none
    <2>4. IsSeq(page', Len(page')) /\ \A j \in 1 .. Len(page') : page'[j] \in Entries
      <3>1. page' = none /\ IsSeq(none, 0) /\ Len(none) = 0
        BY <2>2, <2>3 DEF none
      <3> QED
        BY <3>1
    <2> QED
      BY <1>0, <2>1, <2>2, <2>4 DEF TableOK
  <1>4. CASE OtherSort
    BY <1>4 DEF OtherSort, TableOK
  <1>5. CASE RemoveParent
    <2>1. parents' \subseteq parents /\ writes' = writes + 1
          /\ UNCHANGED <<table, read, pc, cursor, page, rel, seen, steady>>
      BY <1>5 DEF RemoveParent
    <2> QED
      BY <2>1 DEF TableOK
  <1>6. CASE \E i \in Ids : Store(i) \/ SoftDelete(i)
    <2>1. PICK i \in Ids : Store(i) \/ SoftDelete(i)
      BY <1>6
    <2>2. /\ TableOK' /\ writes' = writes + 1 /\ steady' = steady \ {i}
          /\ UNCHANGED <<parents, read, pc, cursor, page, rel, seen>>
      BY <2>1, WriteIs
    <2> QED
      BY <2>2
  <1>7. CASE UNCHANGED vars
    BY <1>7 DEF vars, TableOK
  <1> QED
    BY <1>1, <1>2, <1>3, <1>4, <1>5, <1>6, <1>7 DEF Next

-----------------------------------------------------------------------------
(* Only what the caller may see *)

\* The rows of a page that has not been given yet are the caller's too.
GivesRightful ==
    /\ \A j \in 1 .. Len(page) : Rightful(read, page[j].row)
    /\ \A j \in 1 .. Len(seen) : Rightful(read, seen[j].row)

LEMMA StepGivesRightful ==
  ASSUME ListingAssumption, WalkTyped, GivesRightful, [Next]_vars
  PROVE  GivesRightful'
  <1> USE DEF GivesRightful
  <1>a. read \in Reads
    BY DEF WalkTyped
  <1>1. CASE List
    <2> DEFINE row == Access(read).row
               kept == Kept(read, row, cursor)
    <2>1. CASE Access(read).status # "ok"
      BY <1>a, <1>1, <2>1, ListIs
    <2>2. CASE Access(read).status = "ok"
      <3>1. page' = kept /\ UNCHANGED <<read, seen>>
        BY <1>a, <1>1, <2>2, ListIs
      <3>2. \A j \in 1 .. Len(kept) : BaseWhere(read, row, kept[j].row)
        BY PageTyped
      <3> HIDE DEF kept
      <3>3. \A j \in 1 .. Len(kept) : Rightful(read, kept[j].row)
        BY <1>a, <2>2, <3>2, AccessIsRightful
      <3> QED
        BY <3>1, <3>3
    <2> QED
      BY <2>1, <2>2
  <1>2. CASE FetchIn
    BY <1>2 DEF FetchIn
  <1>3. CASE Respond
    <2>1. \A j \in 1 .. Len(seen') : Rightful(read, seen'[j].row)
      BY <1>3, RespondIs
    <2>2. page' = <<>> /\ read' = read /\ Len(<<>>) = 0
      BY <1>3, RespondIs, EmptyIs
    <2>3. Len(page') = 0
      BY <2>2
    <2> QED
      BY <2>1, <2>2, <2>3
  <1>4. CASE OtherSort
    BY <1>4 DEF OtherSort
  <1>5. CASE RemoveParent
    BY <1>5 DEF RemoveParent
  <1>6. CASE \E i \in Ids : Store(i) \/ SoftDelete(i)
    BY <1>6, WriteIs
  <1>7. CASE UNCHANGED vars
    BY <1>7 DEF vars
  <1> QED
    BY <1>1, <1>2, <1>3, <1>4, <1>5, <1>6, <1>7 DEF Next

-----------------------------------------------------------------------------
(* In order *)

\* Whatever comes after the cursor comes after e.
Passed(e) == \A x \in Entries : Before(read, At(cursor), x) => Before(read, e, x)

Ordered ==
    read.style = "cursor" /\ Survives(read) =>
      /\ \A i, j \in 1 .. Len(seen) : i < j => Before(read, seen[i], seen[j])
      /\ \A i, j \in 1 .. Len(page) : i < j => Before(read, page[i], page[j])
      /\ \A i \in 1 .. Len(seen), j \in 1 .. Len(page) : Before(read, seen[i], page[j])
      /\ cursor # NoCursor => /\ \A i \in 1 .. Len(seen) : Passed(seen[i])
                              /\ \A i \in 1 .. Len(page) : Passed(page[i])

\* A page is sorted and has no row twice.
LEMMA KeptOrder ==
  ASSUME ListingAssumption, WalkTyped, NEW row
  PROVE  /\ \A i, j \in 1 .. Len(Kept(read, row, cursor)) :
               i < j => Before(read, Kept(read, row, cursor)[i], Kept(read, row, cursor)[j])
         /\ \A i, j \in 1 .. Len(Kept(read, row, cursor)) :
               Kept(read, row, cursor)[i].id = Kept(read, row, cursor)[j].id => i = j
  <1> DEFINE kept == Kept(read, row, cursor)
             from == From(read, cursor)
             P(e) == PlaceIn(read, row, cursor, e)
             M == Matching(read, row, cursor)
  <1>1. from \in Nat /\ TableOK /\ read \in Reads
    BY PageTyped DEF WalkTyped
  <1>a. PageOf(read, row, cursor, kept)
    BY <1>1, PageIs
  <1> HIDE DEF kept
  <1>2. Len(kept) \in Nat /\ \A n \in 1 .. Len(kept) : kept[n] \in M /\ P(kept[n]) = from + n - 1
    BY <1>1, <1>a DEF PageOf, ListingAssumption
  <1>3. \A a, b \in M : Before(read, a, b) <=> P(a) < P(b)
    BY <1>1, PlacesOrder
  <1>4. \A e \in M : e = Entry(e.id)
    BY <1>1, MatchingIs
  <1> HIDE DEF from, P, M
  <1>5. \A i, j \in 1 .. Len(kept) : i < j => Before(read, kept[i], kept[j])
    <2> SUFFICES ASSUME NEW i \in 1 .. Len(kept), NEW j \in 1 .. Len(kept), i < j PROVE Before(read, kept[i], kept[j])
      BY <1>2
    <2>1. P(kept[i]) < P(kept[j])
      BY <1>1, <1>2
    <2> QED
      BY <1>2, <1>3, <2>1
  <1>6. \A i, j \in 1 .. Len(kept) : kept[i].id = kept[j].id => i = j
    <2> SUFFICES ASSUME NEW i \in 1 .. Len(kept), NEW j \in 1 .. Len(kept), kept[i].id = kept[j].id PROVE i = j
      BY <1>2
    <2>1. kept[i] = kept[j]
      BY <1>2, <1>4
    <2>2. from + i - 1 = from + j - 1
      BY <1>2, <2>1
    <2> QED
      BY <1>1, <2>2
  <1> QED
    BY <1>5, <1>6 DEF kept

LEMMA StepOrdered ==
  ASSUME ListingAssumption, WalkTyped, Ordered, [Next]_vars
  PROVE  Ordered'
  <1>a. read \in Reads /\ TableOK
    BY DEF WalkTyped
  <1>1. CASE List
    <2> DEFINE row == Access(read).row
               kept == Kept(read, row, cursor)
               next == NextCursor(read, row, cursor)
    <2>0. pc = "ask" /\ page = <<>> /\ UNCHANGED <<read, seen>>
      BY <1>a, <1>1, ListIs DEF WalkTyped
    <2>1. CASE Access(read).status # "ok"
      BY <1>a, <1>1, <2>1, ListIs DEF Ordered, Passed
    <2>2. CASE Access(read).status = "ok"
      <3> SUFFICES ASSUME read.style = "cursor", Survives(read) PROVE Ordered'
        BY <2>0 DEF Ordered
      <3>1. page' = kept /\ cursor' = next
        BY <1>a, <1>1, <2>2, ListIs
      <3>2. /\ \A i, j \in 1 .. Len(kept) : i < j => Before(read, kept[i], kept[j])
            /\ \A i \in 1 .. Len(kept) : kept[i] \in Entries /\ kept[i] \in Matching(read, row, cursor)
            /\ Len(kept) \in Nat
        BY KeptOrder, PageTyped
      <3>3. \A i \in 1 .. Len(seen) : seen[i] \in Given /\ Placed(seen[i])
        BY DEF WalkTyped, Given, StoredRows, Placed, ListingAssumption
      <3>4. \A i \in 1 .. Len(seen), j \in 1 .. Len(kept) : Before(read, seen[i], kept[j])
        <4> SUFFICES ASSUME NEW i \in 1 .. Len(seen), NEW j \in 1 .. Len(kept) PROVE Before(read, seen[i], kept[j])
          OBVIOUS
        <4> DEFINE e == kept[j]
        <4>1. e \in Entries /\ e \in Matching(read, row, cursor) /\ Placed(e)
          BY <3>2, EntryPlaced
        <4> HIDE DEF e, kept
        <4>2. cursor # NoCursor
          BY <2>0, EmptyIs DEF WalkTyped
        <4>3. KeysetClause(read, cursor, e)
          BY <4>1, <4>2 DEF Matching
        <4>4. Before(read, At(cursor), e)
          BY <1>a, <4>1, <4>2, <4>3, KeysetIsBefore DEF WalkTyped
        <4>5. Before(read, seen[i], e)
          BY <4>1, <4>2, <4>4 DEF Ordered, Passed
        <4> QED
          BY <4>5 DEF e
      <3>5. ASSUME next # NoCursor
            PROVE  \E e \in Entries : /\ \A x \in Entries : Before(read, At(next), x) <=> Before(read, e, x)
                                      /\ \A i \in 1 .. Len(kept) : kept[i] = e \/ Before(read, kept[i], e)
                                      /\ \A i \in 1 .. Len(seen) : Before(read, seen[i], e)
        <4> DEFINE last == kept[read.limit]
        <4>1. next = NewCursor(read, last) /\ Len(kept) = read.limit
          BY <3>5, NextCursorIs
        <4>2. read.limit \in 1 .. Len(kept)
          BY <1>a, <4>1 DEF ListingAssumption
        <4>3. last \in Entries /\ last.id \in Ids /\ Placed(last)
          BY <3>2, <4>2, EntryPlaced
        <4>4. \A i \in 1 .. Len(kept) : kept[i] = last \/ Before(read, kept[i], last)
          <5> HIDE DEF kept
          <5> QED
            BY <3>2, <4>1, <4>2
        <4>5. \A i \in 1 .. Len(seen) : Before(read, seen[i], last)
          BY <3>4, <4>2
        <4> HIDE DEF last, next, kept
        <4>6. \A x : Before(read, At(NewCursor(read, last)), x) <=> Before(read, last, x)
          BY <1>a, <4>3, NewCursorIs
        <4>7. \A x \in Entries : Before(read, At(next), x) <=> Before(read, last, x)
          BY <4>1, <4>6
        <4> QED
          BY <4>3, <4>4, <4>5, <4>7
      <3> HIDE DEF kept, next
      <3>6. ASSUME next # NoCursor, NEW x \in Entries, Before(read, At(next), x)
            PROVE  /\ \A i \in 1 .. Len(seen) : Before(read, seen[i], x)
                   /\ \A i \in 1 .. Len(kept) : Before(read, kept[i], x)
        <4>1. PICK e \in Entries : /\ Before(read, e, x)
                                   /\ \A i \in 1 .. Len(kept) : kept[i] = e \/ Before(read, kept[i], e)
                                   /\ \A i \in 1 .. Len(seen) : Before(read, seen[i], e)
          BY <3>5, <3>6
        <4>2. Placed(e) /\ Placed(x)
          BY EntryPlaced
        <4>3. \A i \in 1 .. Len(seen) : Before(read, seen[i], x)
          BY <1>a, <3>3, <4>1, <4>2, BeforeTransitive
        <4>4. \A i \in 1 .. Len(kept) : Before(read, kept[i], x)
          BY <1>a, <3>2, <4>1, <4>2, BeforeTransitive, EntryPlaced
        <4> QED
          BY <4>3, <4>4
      <3>7. /\ \A i, j \in 1 .. Len(seen') : i < j => Before(read', seen'[i], seen'[j])
            /\ \A i, j \in 1 .. Len(page') : i < j => Before(read', page'[i], page'[j])
            /\ \A i \in 1 .. Len(seen'), j \in 1 .. Len(page') : Before(read', seen'[i], page'[j])
        BY <2>0, <3>1, <3>2, <3>4 DEF Ordered
      <3>8. cursor' # NoCursor => /\ \A i \in 1 .. Len(seen') : \A x \in Entries : Before(read', At(cursor'), x) => Before(read', seen'[i], x)
                                  /\ \A i \in 1 .. Len(page') : \A x \in Entries : Before(read', At(cursor'), x) => Before(read', page'[i], x)
        BY <2>0, <3>1, <3>6
      <3> QED
        BY <3>7, <3>8 DEF Ordered, Passed
    <2> QED
      BY <2>1, <2>2
  <1>2. CASE FetchIn
    BY <1>2 DEF FetchIn, Ordered, Passed
  <1>3. CASE Respond
    <2> SUFFICES ASSUME read.style = "cursor", Survives(read) PROVE Ordered'
      BY <1>3, RespondIs DEF Ordered
    <2>1. /\ page' = <<>> /\ Len(<<>>) = 0 /\ UNCHANGED <<read, cursor>>
          /\ Len(seen) \in Nat /\ Len(page) \in Nat /\ Len(seen') = Len(seen) + Len(page)
      BY <1>3, RespondIs, EmptyIs
    <2>2. \A k \in 1 .. Len(page) : \A x : /\ Before(read, x, seen'[Len(seen) + k]) <=> Before(read, x, page[k])
                                           /\ Before(read, seen'[Len(seen) + k], x) <=> Before(read, page[k], x)
      <3>1. \A k \in 1 .. Len(page) : seen'[Len(seen) + k].id = page[k].id /\ seen'[Len(seen) + k].row = page[k].row
        BY <1>3, RespondIs
      <3> QED
        BY <3>1 DEF Before
    <2>3. \A j \in 1 .. Len(seen') : \/ j \in 1 .. Len(seen) /\ seen'[j] = seen[j]
                                     \/ \E k \in 1 .. Len(page) : j = Len(seen) + k
      BY <1>3, RespondIs
    <2>4. \A i, j \in 1 .. Len(seen') : i < j => Before(read, seen'[i], seen'[j])
      <3> SUFFICES ASSUME NEW i \in 1 .. Len(seen'), NEW j \in 1 .. Len(seen'), i < j
                   PROVE  Before(read, seen'[i], seen'[j])
        OBVIOUS
      <3>1. CASE j \in 1 .. Len(seen) /\ seen'[j] = seen[j]
        <4>1. i \in 1 .. Len(seen) /\ seen'[i] = seen[i]
          BY <2>1, <2>3, <3>1
        <4> QED
          BY <3>1, <4>1 DEF Ordered
      <3>2. ASSUME NEW k \in 1 .. Len(page), j = Len(seen) + k PROVE Before(read, seen'[i], seen'[j])
        <4>1. CASE i \in 1 .. Len(seen) /\ seen'[i] = seen[i]
          <5>1. Before(read, seen[i], page[k])
            BY <4>1 DEF Ordered
          <5> QED
            BY <2>2, <3>2, <4>1, <5>1
        <4>2. ASSUME NEW l \in 1 .. Len(page), i = Len(seen) + l PROVE Before(read, seen'[i], seen'[j])
          <5>1. l < k
            BY <2>1, <3>2, <4>2
          <5>2. Before(read, page[l], page[k])
            BY <5>1 DEF Ordered
          <5> QED
            BY <2>2, <3>2, <4>2, <5>2
        <4> QED
          BY <2>3, <4>1, <4>2
      <3> QED
        BY <2>3, <3>1, <3>2
    <2>5. cursor # NoCursor => \A j \in 1 .. Len(seen') : \A x \in Entries : Before(read, At(cursor), x) => Before(read, seen'[j], x)
      BY <2>2, <2>3 DEF Ordered, Passed
    <2>6. Len(page') = 0
      BY <2>1
    <2> QED
      BY <2>1, <2>4, <2>5, <2>6 DEF Ordered, Passed
  <1>4. CASE OtherSort
    BY <1>4 DEF OtherSort, Ordered, Passed
  <1>5. CASE RemoveParent
    BY <1>5 DEF RemoveParent, Ordered, Passed
  <1>6. CASE \E i \in Ids : Store(i) \/ SoftDelete(i)
    <2>1. UNCHANGED <<read, cursor, page, seen>>
      BY <1>6, WriteIs
    <2> QED
      BY <2>1 DEF Ordered, Passed
  <1>7. CASE UNCHANGED vars
    BY <1>7 DEF vars, Ordered, Passed
  <1> QED
    BY <1>1, <1>2, <1>3, <1>4, <1>5, <1>6, <1>7 DEF Next

-----------------------------------------------------------------------------
(* Nothing left out, nothing twice *)

\* A row that the whole walk returns.
Fits(i) ==
    /\ table[i] # NoRow /\ BaseWhere(read, Access(read).row, table[i])
    /\ read.via = "get" => i = read.id

PlaceOf(i) == PlaceIn(read, Access(read).row, NoCursor, Entry(i))

\* It comes after the page that the cursor stands behind.
LeftFrom(after, i) ==
    after # NoCursor /\ IF read.style = "cursor" THEN KeysetClause(read, after, Entry(i)) ELSE PlaceOf(i) >= after

InSeen(i) == \E j \in 1 .. Len(seen) : seen[j].id = i
InPage(i) == \E j \in 1 .. Len(page) : page[j].id = i

TrackedRow(i) ==
    /\ Fits(i)
    /\ ~LeftFrom(cursor, i) <=> InSeen(i) \/ InPage(i)
    /\ ~(InSeen(i) /\ InPage(i))
    /\ \A j, k \in 1 .. Len(seen) : seen[j].id = i /\ seen[k].id = i => j = k

Tracked ==
    /\ \A j, k \in 1 .. Len(page) : page[j].id = page[k].id => j = k
    /\ /\ IF read.style = "cursor" THEN Survives(read) ELSE writes = 0
       /\ Access(read).status = "ok" /\ pc \in {"ask", "include", "done"}
       => \A i \in steady : TrackedRow(i)

\* An offset does not change which rows match.
LEMMA OffsetMatching ==
  ASSUME NEW q, q.style # "cursor", NEW row, NEW after
  PROVE  Matching(q, row, after) = Matching(q, row, NoCursor)
  BY DEF Matching

\* A page holds of what was left all but what is left now.
LEMMA PageTracks ==
  ASSUME ListingAssumption, WalkTyped, NEW i \in Ids, Fits(i), read.style = "cursor" => Survives(read)
  PROVE  /\ (\E j \in 1 .. Len(Kept(read, Access(read).row, cursor)) : Kept(read, Access(read).row, cursor)[j].id = i)
              <=> /\ cursor = NoCursor \/ LeftFrom(cursor, i)
                  /\ ~LeftFrom(NextCursor(read, Access(read).row, cursor), i)
         /\ LeftFrom(NextCursor(read, Access(read).row, cursor), i) => cursor = NoCursor \/ LeftFrom(cursor, i)
  <1> DEFINE row == Access(read).row
             e == Entry(i)
             M == Matching(read, row, cursor)
             kept == Kept(read, row, cursor)
             next == NextCursor(read, row, cursor)
             more == More(read, row, cursor)
             from == From(read, cursor)
             P(x) == PlaceIn(read, row, cursor, x)
             wasLeft == cursor = NoCursor \/ LeftFrom(cursor, i)
             isLeft == LeftFrom(next, i)
             given == \E j \in 1 .. Len(kept) : kept[j].id = i
  <1>1. TableOK /\ read \in Reads /\ from \in Nat /\ read.limit \in Nat \ {0}
    BY PageTyped DEF WalkTyped, ListingAssumption
  <1>2. PageOf(read, row, cursor, kept)
    BY <1>1, PageIs
  <1> HIDE DEF kept
  <1>3. /\ Len(kept) \in 0 .. read.limit
        /\ \A n \in 1 .. Len(kept) : kept[n] \in M /\ P(kept[n]) = from + n - 1
        /\ \A x \in M : (\E n \in 1 .. Len(kept) : kept[n] = x) <=> from <= P(x) /\ P(x) < from + read.limit
        /\ more => Len(kept) = read.limit
        /\ ~more => \A x \in M : P(x) < from + read.limit
    BY <1>2 DEF PageOf
  <1>4. \A x \in M : x = Entry(x.id) /\ x \in Entries
    BY <1>1, MatchingIs
  <1>5. e \in M <=> (cursor # NoCursor /\ read.style = "cursor" => KeysetClause(read, cursor, e))
    BY <1>1, MatchingIs DEF Fits
  <1>6. e.id = i /\ e \in Entries
    BY <1>1 DEF Entry, Entries, Fits, TableOK
  <1>7. given <=> \E n \in 1 .. Len(kept) : kept[n] = e
    <2>1. \A n \in 1 .. Len(kept) : kept[n].id = i <=> kept[n] = e
      BY <1>3, <1>4, <1>6
    <2> QED
      BY <2>1
  <1>8. /\ \A a, b \in M : Before(read, a, b) <=> P(a) < P(b)
        /\ \A a \in M : P(a) \in Nat
    BY <1>1, PlacesOrder
  <1>9. /\ ~more => next = NoCursor
        /\ more => next # NoCursor
        /\ more /\ read.style = "cursor" => next = NewCursor(read, kept[read.limit])
        /\ more /\ read.style # "cursor" => next = from + read.limit
        /\ next # NoCursor /\ read.style = "cursor" =>
             next \in Cursors /\ next.sortBy = read.sortBy /\ (read.sortBy = "id" => next.val = NULL)
    BY NextCursorIs DEF kept
  <1>10. Placed(e) /\ \A n \in 1 .. Len(kept) : Placed(kept[n]) /\ kept[n].id \in Ids
    BY <1>3, <1>4, <1>6, EntryPlaced
  <1>11. CASE read.style = "cursor"
    <2>1. from = 0
      BY <1>11 DEF From
    <2>2. wasLeft <=> e \in M
      BY <1>5, <1>11 DEF LeftFrom
    <2>3. isLeft <=> next # NoCursor /\ KeysetClause(read, next, e)
      BY <1>11 DEF LeftFrom
    <2> HIDE DEF wasLeft, isLeft, given, e, M, P, next, more, from
    <2>4. isLeft <=> more /\ Before(read, kept[read.limit], e)
      <3>1. CASE ~more
        BY <1>9, <2>3, <3>1
      <3>2. CASE more
        <4> DEFINE last == kept[read.limit]
        <4>1. read.limit \in 1 .. Len(kept)
          BY <1>1, <1>3, <3>2
        <4>2. last.id \in Ids /\ Placed(last) /\ next = NewCursor(read, last)
          BY <1>9, <1>10, <1>11, <3>2, <4>1
        <4> HIDE DEF last
        <4>3. \A x : Before(read, At(NewCursor(read, last)), x) <=> Before(read, last, x)
          <5>1. Survives(read)
            BY <1>11
          <5> QED
            BY <1>1, <4>2, <5>1, NewCursorIs
        <4>4. Before(read, At(next), e) <=> Before(read, last, e)
          BY <4>2, <4>3
        <4>5. KeysetClause(read, next, e) <=> Before(read, At(next), e)
          BY <1>1, <1>9, <1>10, <1>11, <3>2, KeysetIsBefore
        <4> QED
          BY <1>9, <2>3, <3>2, <4>4, <4>5 DEF last
      <3> QED
        BY <3>1, <3>2
    <2>5. CASE e \in M
      <3>1. given <=> P(e) < read.limit
        BY <1>1, <1>3, <1>7, <1>8, <2>1, <2>5
      <3>2. isLeft <=> ~(P(e) < read.limit)
        <4>1. CASE ~more
          BY <1>1, <1>3, <2>1, <2>4, <2>5, <4>1
        <4>2. CASE more
          <5> DEFINE last == kept[read.limit]
          <5>1. last \in M /\ P(last) = read.limit - 1
            BY <1>1, <1>3, <2>1, <4>2
          <5>2. Before(read, last, e) <=> P(last) < P(e)
            BY <1>8, <2>5, <5>1
          <5> HIDE DEF last
          <5>3. P(e) \in Nat
            BY <1>8, <2>5
          <5> QED
            BY <1>1, <2>4, <4>2, <5>1, <5>2, <5>3 DEF last
        <4> QED
          BY <4>1, <4>2
      <3>3. (given <=> wasLeft /\ ~isLeft) /\ (isLeft => wasLeft)
        BY <2>2, <2>5, <3>1, <3>2
      <3> QED
        BY <3>3 DEF given, wasLeft, isLeft, next, kept
    <2>6. CASE e \notin M
      <3>1. ~given
        BY <1>3, <1>7, <2>6
      <3>2. ~isLeft
        <4> SUFFICES ASSUME more, Before(read, kept[read.limit], e) PROVE FALSE
          BY <2>4
        <4> DEFINE last == kept[read.limit]
        <4>1. last \in M /\ Placed(last)
          BY <1>1, <1>3, <1>10
        <4>2. cursor # NoCursor /\ ~KeysetClause(read, cursor, e)
          BY <1>5, <2>6
        <4>3. KeysetClause(read, cursor, last)
          BY <1>11, <4>1, <4>2 DEF Matching, M
        <4>4. cursor \in Cursors /\ cursor.sortBy = read.sortBy /\ (read.sortBy = "id" => cursor.val = NULL)
          BY <1>11, <4>2 DEF WalkTyped
        <4> HIDE DEF last
        <4>5. Placed(At(cursor)) /\ Before(read, At(cursor), last)
          BY <1>1, <4>1, <4>3, <4>4, KeysetIsBefore
        <4>6. Before(read, last, e)
          BY DEF last
        <4>7. Before(read, At(cursor), e)
          BY <1>1, <1>10, <4>1, <4>5, <4>6, BeforeTransitive
        <4>8. KeysetClause(read, cursor, e)
          BY <1>1, <1>10, <4>4, <4>7, KeysetIsBefore
        <4> QED
          BY <4>2, <4>8
      <3>3. (given <=> wasLeft /\ ~isLeft) /\ (isLeft => wasLeft)
        BY <2>2, <2>6, <3>1, <3>2
      <3> QED
        BY <3>3 DEF given, wasLeft, isLeft, next, kept
    <2> QED
      BY <2>5, <2>6
  <1>12. CASE read.style # "cursor"
    <2>1. e \in M
      BY <1>5, <1>12
    <2>2. M = Matching(read, row, NoCursor)
      BY <1>12, OffsetMatching
    <2>3. P(e) = PlaceOf(i)
      <3>1. P(e) = Place(M, InBefore(read, M), e)
        BY DEF PlaceIn
      <3>2. PlaceOf(i) = Place(Matching(read, row, NoCursor), InBefore(read, Matching(read, row, NoCursor)), e)
        BY DEF PlaceIn, PlaceOf
      <3> QED
        BY <2>2, <3>1, <3>2
    <2>4. from = IF cursor # NoCursor THEN cursor ELSE 0
      BY <1>1, <1>12 DEF From, ListingAssumption
    <2>5. wasLeft <=> cursor = NoCursor \/ PlaceOf(i) >= cursor
      BY <1>12 DEF LeftFrom
    <2>6. isLeft <=> next # NoCursor /\ PlaceOf(i) >= next
      BY <1>12 DEF LeftFrom
    <2> HIDE DEF wasLeft, isLeft, given, e, M, P, next, more, from
    <2> DEFINE p == P(e)
    <2>7. p \in Nat /\ p = PlaceOf(i)
      BY <1>8, <2>1, <2>3
    <2>8. given <=> from <= p /\ p < from + read.limit
      BY <1>3, <1>7, <2>1
    <2>9. ~more => p < from + read.limit
      BY <1>3, <2>1
    <2> HIDE DEF p
    <2>10. wasLeft <=> from <= p
      BY <1>1, <2>4, <2>5, <2>7
    <2>11. isLeft <=> more /\ p >= from + read.limit
      BY <1>9, <1>12, <2>6, <2>7
    <2>12. (given <=> wasLeft /\ ~isLeft) /\ (isLeft => wasLeft)
      BY <1>1, <2>7, <2>8, <2>9, <2>10, <2>11
    <2> QED
      BY <2>12 DEF given, wasLeft, isLeft, next, kept
  <1> QED
    BY <1>11, <1>12

LEMMA StepTracked ==
  ASSUME ListingAssumption, WalkTyped, Tracked, [Next]_vars
  PROVE  Tracked'
  <1> DEFINE Watched == /\ IF read.style = "cursor" THEN Survives(read) ELSE writes = 0
                        /\ Access(read).status = "ok" /\ pc \in {"ask", "include", "done"}
             PageOnce == \A j, k \in 1 .. Len(page) : page[j].id = page[k].id => j = k
  <1>a. read \in Reads /\ TableOK /\ steady \subseteq Ids /\ writes \in Nat
    BY DEF WalkTyped
  <1>b. PageOnce /\ (Watched => \A i \in steady : TrackedRow(i))
    BY DEF Tracked
  <1>c. SUFFICES PageOnce' /\ (Watched' => \A i \in steady' : TrackedRow(i)')
    BY DEF Tracked
  <1>d. ASSUME UNCHANGED <<table, read>>
        PROVE  \A i : Fits(i)' = Fits(i) /\ PlaceOf(i)' = PlaceOf(i) /\ Entry(i)' = Entry(i)
    BY <1>d DEF Fits, PlaceOf, PlaceIn, Matching, Entry
  <1>1. CASE List
    <2> DEFINE row == Access(read).row
               kept == Kept(read, row, cursor)
               next == NextCursor(read, row, cursor)
    <2>0. pc = "ask" /\ page = <<>> /\ UNCHANGED <<table, read, seen, writes>>
      BY <1>a, <1>1, ListIs DEF WalkTyped
    <2>1. CASE Access(read).status # "ok"
      BY <1>a, <1>b, <1>1, <2>1, ListIs
    <2>2. CASE Access(read).status = "ok"
      <3>1. /\ page' = kept /\ cursor' = next
            /\ steady' = IF cursor = NoCursor THEN {e.id : e \in Matching(read, row, NoCursor)} ELSE steady
        BY <1>a, <1>1, <2>2, ListIs
      <3>2. PageOnce'
        <4>1. \A j, k \in 1 .. Len(kept) : kept[j].id = kept[k].id => j = k
          BY KeptOrder
        <4> HIDE DEF kept
        <4> QED
          BY <3>1, <4>1
      <3>3. ASSUME Watched', NEW i \in steady' PROVE TrackedRow(i)'
        <4>1. i \in Ids /\ Fits(i)
          <5>1. CASE cursor = NoCursor
            <6>1. PICK e \in Matching(read, row, NoCursor) : i = e.id
              BY <3>1, <3>3, <5>1
            <6>2. e = Entry(i) /\ e \in Entries
              BY <1>a, <6>1, MatchingIs
            <6>3. i \in Ids
              BY <6>1, <6>2 DEF Entries
            <6> QED
              BY <1>a, <6>1, <6>2, <6>3, MatchingIs DEF Fits
          <5>2. CASE cursor # NoCursor
            <6>1. Watched /\ i \in steady
              BY <2>0, <2>2, <3>1, <3>3, <5>2
            <6> QED
              BY <1>a, <1>b, <6>1 DEF TrackedRow
          <5> QED
            BY <5>1, <5>2
        <4> DEFINE given == \E j \in 1 .. Len(kept) : kept[j].id = i
                   wasLeft == cursor = NoCursor \/ LeftFrom(cursor, i)
                   isLeft == LeftFrom(next, i)
        <4>a. read.style = "cursor" => Survives(read)
          BY <2>0, <3>3
        <4>2. (given <=> wasLeft /\ ~isLeft) /\ (isLeft => wasLeft)
          BY <4>1, <4>a, PageTracks
        <4>3. (InPage(i)' <=> given) /\ (InSeen(i)' <=> InSeen(i))
          <5> HIDE DEF kept
          <5> QED
            BY <2>0, <3>1 DEF InPage, InSeen
        <4>4. LeftFrom(cursor, i)' <=> isLeft
          <5> HIDE DEF next
          <5> QED
            BY <1>d, <2>0, <3>1 DEF LeftFrom
        <4>5. Fits(i)'
          BY <1>d, <2>0, <4>1
        <4>6. ~wasLeft <=> InSeen(i)
          <5>1. CASE cursor = NoCursor
            <6>1. Len(seen) = 0
              BY <2>0, <5>1, EmptyIs DEF WalkTyped
            <6> QED
              BY <5>1, <6>1 DEF InSeen
          <5>2. CASE cursor # NoCursor
            <6>1. Watched /\ i \in steady
              BY <2>0, <2>2, <3>1, <3>3, <5>2
            <6>2. TrackedRow(i)
              BY <1>b, <6>1
            <6>3. Len(page) = 0
              BY <2>0, EmptyIs
            <6>4. ~InPage(i)
              BY <6>3 DEF InPage
            <6> QED
              BY <5>2, <6>2, <6>4 DEF TrackedRow
          <5> QED
            BY <5>1, <5>2
        <4>7. \A j, k \in 1 .. Len(seen') : seen'[j].id = i /\ seen'[k].id = i => j = k
          <5>1. CASE cursor = NoCursor
            <6>1. Len(seen) = 0 /\ seen' = seen
              BY <2>0, <5>1, EmptyIs DEF WalkTyped
            <6> QED
              BY <6>1
          <5>2. CASE cursor # NoCursor
            <6>1. Watched /\ i \in steady
              BY <2>0, <2>2, <3>1, <3>3, <5>2
            <6> QED
              BY <1>b, <2>0, <6>1 DEF TrackedRow
          <5> QED
            BY <5>1, <5>2
        <4> HIDE DEF given, wasLeft, isLeft
        <4> QED
          BY <4>2, <4>3, <4>4, <4>5, <4>6, <4>7 DEF TrackedRow
      <3> QED
        BY <3>2, <3>3
    <2> QED
      BY <2>1, <2>2
  <1>e. ASSUME UNCHANGED <<read, cursor, page, seen>>, NEW i, TrackedRow(i),
               Fits(i)' = Fits(i), Entry(i)' = Entry(i),
               read.style = "cursor" \/ PlaceOf(i)' = PlaceOf(i)
        PROVE  TrackedRow(i)'
    <2>1. LeftFrom(cursor, i)' <=> LeftFrom(cursor, i)
      BY <1>e DEF LeftFrom
    <2>2. (InSeen(i)' <=> InSeen(i)) /\ (InPage(i)' <=> InPage(i))
      BY <1>e DEF InSeen, InPage
    <2> QED
      BY <1>e, <2>1, <2>2 DEF TrackedRow
  <1>f. ASSUME UNCHANGED <<table, read, cursor, page, seen, steady>>, Watched' => Watched
        PROVE  PageOnce' /\ (Watched' => \A i \in steady' : TrackedRow(i)')
    <2>1. PageOnce'
      BY <1>b, <1>f
    <2>2. ASSUME Watched', NEW i \in steady' PROVE TrackedRow(i)'
      <3>1. i \in steady /\ TrackedRow(i)
        BY <1>b, <1>f, <2>2
      <3>2. Fits(i)' = Fits(i) /\ PlaceOf(i)' = PlaceOf(i) /\ Entry(i)' = Entry(i)
        BY <1>d, <1>f
      <3> HIDE DEF Watched, PageOnce
      <3> QED
        BY <1>e, <1>f, <3>1, <3>2
    <2> QED
      BY <2>1, <2>2
  <1>2. CASE FetchIn
    BY <1>f, <1>2 DEF FetchIn
  <1>3. CASE Respond
    <2>1. /\ page' = <<>> /\ UNCHANGED <<table, read, writes, cursor, steady>>
          /\ pc = "include" /\ Len(seen) \in Nat /\ Len(page) \in Nat /\ Len(seen') = Len(seen) + Len(page)
          /\ \A j \in 1 .. Len(seen) : seen'[j] = seen[j]
          /\ \A j \in 1 .. Len(page) : seen'[Len(seen) + j].id = page[j].id
          /\ \A j \in 1 .. Len(seen') : \/ j \in 1 .. Len(seen) /\ seen'[j] = seen[j]
                                        \/ \E k \in 1 .. Len(page) : j = Len(seen) + k
      BY <1>3, RespondIs
    <2>2. Len(page') = 0
      BY <2>1, EmptyIs
    <2>3. PageOnce'
      BY <2>2
    <2>4. ASSUME Watched', NEW i \in steady' PROVE TrackedRow(i)'
      <3>1. i \in steady /\ TrackedRow(i)
        BY <1>b, <2>1, <2>4
      <3>2. Fits(i)' = Fits(i) /\ PlaceOf(i)' = PlaceOf(i) /\ Entry(i)' = Entry(i)
        BY <1>d, <2>1
      <3>3. LeftFrom(cursor, i)' <=> LeftFrom(cursor, i)
        BY <2>1, <3>2 DEF LeftFrom
      <3>4. InSeen(i)' <=> InSeen(i) \/ InPage(i)
        <4>1. ASSUME InSeen(i) PROVE InSeen(i)'
          <5>1. PICK j \in 1 .. Len(seen) : seen[j].id = i
            BY <4>1 DEF InSeen
          <5>2. j \in 1 .. Len(seen') /\ seen'[j].id = i
            BY <2>1, <5>1
          <5> QED
            BY <5>2 DEF InSeen
        <4>2. ASSUME InPage(i) PROVE InSeen(i)'
          <5>1. PICK j \in 1 .. Len(page) : page[j].id = i
            BY <4>2 DEF InPage
          <5>2. Len(seen) + j \in 1 .. Len(seen') /\ seen'[Len(seen) + j].id = i
            BY <2>1, <5>1
          <5> QED
            BY <5>2 DEF InSeen
        <4>3. ASSUME InSeen(i)' PROVE InSeen(i) \/ InPage(i)
          <5>1. PICK j \in 1 .. Len(seen') : seen'[j].id = i
            BY <4>3 DEF InSeen
          <5>2. CASE j \in 1 .. Len(seen) /\ seen'[j] = seen[j]
            BY <5>1, <5>2 DEF InSeen
          <5>3. ASSUME NEW k \in 1 .. Len(page), j = Len(seen) + k PROVE InPage(i)
            BY <2>1, <5>1, <5>3 DEF InPage
          <5> QED
            BY <2>1, <5>2, <5>3
        <4> QED
          BY <4>1, <4>2, <4>3
      <3>5. ~InPage(i)'
        BY <2>2 DEF InPage
      <3>6. ASSUME NEW j \in 1 .. Len(seen'), NEW k \in 1 .. Len(seen'), seen'[j].id = i, seen'[k].id = i PROVE j = k
        <4>1. \A l \in 1 .. Len(seen') : seen'[l].id = i =>
                 \/ l \in 1 .. Len(seen) /\ seen[l].id = i
                 \/ \E m \in 1 .. Len(page) : l = Len(seen) + m /\ page[m].id = i
          <5> SUFFICES ASSUME NEW l \in 1 .. Len(seen'), seen'[l].id = i, ~(l \in 1 .. Len(seen) /\ seen[l].id = i)
                       PROVE  \E m \in 1 .. Len(page) : l = Len(seen) + m /\ page[m].id = i
            OBVIOUS
          <5>1. PICK m \in 1 .. Len(page) : l = Len(seen) + m
            BY <2>1
          <5> QED
            BY <2>1, <5>1
        <4>2. CASE InSeen(i)
          <5>1. \A m \in 1 .. Len(page) : page[m].id # i
            BY <3>1, <4>2 DEF TrackedRow, InPage
          <5>2. j \in 1 .. Len(seen) /\ seen[j].id = i /\ k \in 1 .. Len(seen) /\ seen[k].id = i
            BY <3>6, <4>1, <5>1
          <5> QED
            BY <3>1, <5>2 DEF TrackedRow
        <4>3. CASE ~InSeen(i)
          <5>1. \A m \in 1 .. Len(seen) : seen[m].id # i
            BY <4>3 DEF InSeen
          <5>2. PICK m \in 1 .. Len(page) : j = Len(seen) + m /\ page[m].id = i
            BY <3>6, <4>1, <5>1
          <5>3. PICK n \in 1 .. Len(page) : k = Len(seen) + n /\ page[n].id = i
            BY <3>6, <4>1, <5>1
          <5>4. m = n
            BY <1>b, <5>2, <5>3
          <5> QED
            BY <5>2, <5>3, <5>4
        <4> QED
          BY <4>2, <4>3
      <3> HIDE DEF Watched, PageOnce
      <3>7. \A j, k \in 1 .. Len(seen') : seen'[j].id = i /\ seen'[k].id = i => j = k
        BY <3>6
      <3> QED
        BY <3>1, <3>2, <3>3, <3>4, <3>5, <3>7 DEF TrackedRow
    <2> QED
      BY <2>3, <2>4
  <1>4. CASE OtherSort
    BY <1>f, <1>4 DEF OtherSort
  <1>5. CASE RemoveParent
    <2>1. writes' = writes + 1 /\ UNCHANGED <<table, read, pc, cursor, page, seen, steady>>
      BY <1>5 DEF RemoveParent
    <2>2. Watched' => Watched
      BY <1>a, <2>1
    <2> QED
      BY <1>f, <2>1, <2>2
  <1>6. CASE \E i \in Ids : Store(i) \/ SoftDelete(i)
    <2>1. PICK w \in Ids : Store(w) \/ SoftDelete(w)
      BY <1>6
    <2>2. /\ pc \in {"ask", "include"} /\ writes' = writes + 1 /\ steady' = steady \ {w}
          /\ \A j \in Ids \ {w} : table'[j] = table[j]
          /\ UNCHANGED <<read, pc, cursor, page, seen>>
      BY <2>1, WriteIs
    <2>3. PageOnce'
      BY <1>b, <2>2
    <2>4. ASSUME Watched', NEW i \in steady' PROVE TrackedRow(i)'
      <3>1. Watched /\ read.style = "cursor" /\ i \in steady /\ i \in Ids \ {w}
        BY <1>a, <2>2, <2>4
      <3>2. TrackedRow(i)
        BY <1>b, <3>1
      <3>3. Fits(i)' = Fits(i) /\ Entry(i)' = Entry(i)
        BY <2>2, <3>1 DEF Fits, Entry
      <3> HIDE DEF Watched, PageOnce
      <3> QED
        BY <1>e, <2>2, <3>1, <3>2, <3>3
    <2> QED
      BY <2>3, <2>4
  <1>7. CASE UNCHANGED vars
    BY <1>f, <1>7 DEF vars
  <1> QED
    BY <1>1, <1>2, <1>3, <1>4, <1>5, <1>6, <1>7 DEF Next

-----------------------------------------------------------------------------
(* Relations *)

\* Every key on a page is among those the relation is loaded for.
LEMMA DistinctKeysAre ==
  ASSUME NEW s, NEW K \in Nat, IsSeq(s, K)
  PROVE  /\ IsSeq(DistinctKeys(s), Len(DistinctKeys(s)))
         /\ \A j \in 1 .. K : s[j].row.ref # NULL =>
               \E n \in 1 .. Len(DistinctKeys(s)) : DistinctKeys(s)[n] = s[j].row.ref
  <1> DEFINE ref(j) == s[j].row.ref
             firsts == {i \in DOMAIN s : ref(i) # NULL /\ \A j \in 1 .. i-1 : ref(j) # ref(i)}
             order == {p \in firsts \X firsts : p[1] < p[2]}
             at == Arranged(firsts, order)
             keys == DistinctKeys(s)
             size == Cardinality(firsts)
  <1>1. DOMAIN s = 1 .. K
    BY DEF IsSeq
  <1>2. firsts \subseteq 1 .. K
    BY <1>1
  <1>3. IsFiniteSet(firsts)
    <2>1. IsFiniteSet(1 .. K)
      BY FS_Interval
    <2> HIDE DEF firsts
    <2> QED
      BY <1>2, <2>1, FS_Subset
  <1>4. Total(firsts, order)
    <2>1. \A a, b \in firsts : <<a, b>> \in order <=> a < b
      OBVIOUS
    <2> HIDE DEF order, firsts
    <2> QED
      BY <1>2, <2>1 DEF Total
  <1>5. keys = [n \in DOMAIN at |-> ref(at[n])]
    BY DEF DistinctKeys
  <1> HIDE DEF order, ref, keys
  <1>a. \A i \in firsts : i \in 1 .. K /\ ref(i) # NULL
    BY <1>2
  <1>b. \A i \in 1 .. K : ref(i) # NULL /\ (\A j \in 1 .. i-1 : ref(j) # ref(i)) => i \in firsts
    BY <1>1
  <1> HIDE DEF firsts
  <1>6. /\ size \in Nat /\ DOMAIN at = 1 .. size
        /\ \A e \in firsts : \E n \in 1 .. size : at[n] = e
    <2>1. /\ size \in Nat /\ DOMAIN at = 1 .. size
          /\ \A e \in firsts : /\ Place(firsts, order, e) + 1 \in 1 .. size
                                /\ at[Place(firsts, order, e) + 1] = e
      BY <1>3, <1>4, ArrangedIs
    <2> HIDE DEF at, size
    <2> QED
      BY <2>1
  <1> HIDE DEF at, size
  <1>7. keys = [n \in 1 .. size |-> ref(at[n])]
    BY <1>5, <1>6
  <1>8. IsSeq(keys, size)
    BY <1>6, <1>7 DEF IsSeq
  <1>9. Len(keys) = size
    BY <1>6, <1>8, SeqIs
  <1>10. ASSUME NEW j \in 1 .. K, ref(j) # NULL PROVE \E n \in 1 .. size : keys[n] = ref(j)
    <2> DEFINE same == {i \in 1 .. K : ref(i) = ref(j)}
    <2>1. same \in SUBSET Nat /\ same # {}
      OBVIOUS
    <2> HIDE DEF same
    <2>2. PICK i \in same : \A m \in same : i <= m
      BY <2>1, LeastNat
    <2>3. i \in 1 .. K /\ ref(i) = ref(j)
      BY DEF same
    <2>4. \A m \in 1 .. i-1 : ref(m) # ref(i)
      <3> SUFFICES ASSUME NEW m \in 1 .. i-1, ref(m) = ref(i) PROVE FALSE
        OBVIOUS
      <3>1. m \in same
        BY <2>3 DEF same
      <3> QED
        BY <2>2, <2>3, <3>1
    <2>5. i \in firsts
      BY <1>10, <1>b, <2>3, <2>4
    <2>6. PICK n \in 1 .. size : at[n] = i
      BY <1>6, <2>5
    <2> QED
      BY <1>7, <2>3, <2>6
  <1> QED
    BY <1>8, <1>9, <1>10 DEF keys, ref

\* The keys of the batches so far have been looked for.
Loaded ==
    /\ pc = "include" =>
         \A n \in 1 .. Len(DistinctKeys(page)) :
            n <= rel.start => DistinctKeys(page)[n] \in rel.found \/ DistinctKeys(page)[n] \notin parents
    /\ read.include => \A j \in 1 .. Len(seen) : seen[j].rel \/ seen[j].row.ref \notin parents

LEMMA StepLoaded ==
  ASSUME ListingAssumption, WalkTyped, Loaded, [Next]_vars
  PROVE  Loaded'
  <1> DEFINE keys == DistinctKeys(page)
             Sought == \A n \in 1 .. Len(keys) : n <= rel.start => keys[n] \in rel.found \/ keys[n] \notin parents
             Told == read.include => \A j \in 1 .. Len(seen) : seen[j].rel \/ seen[j].row.ref \notin parents
  <1>a. (pc = "include" => Sought) /\ Told
    BY DEF Loaded
  <1>b. SUFFICES (pc' = "include" => Sought') /\ Told'
    BY DEF Loaded
  <1>c. read \in Reads /\ rel.start \in Nat /\ IsSeq(page, Len(page)) /\ Len(page) \in Nat
    BY DEF WalkTyped, IsSeq
  <1>d. IsSeq(keys, Len(keys)) /\ Len(keys) \in Nat
    BY <1>c, DistinctKeysAre DEF IsSeq
  <1>g. ASSUME page' = page PROVE keys' = keys
    BY <1>g DEF DistinctKeys
  <1>e. ASSUME parents' \subseteq parents, UNCHANGED <<read, pc, page, rel, seen>>
        PROVE  (pc' = "include" => Sought') /\ Told'
    <2>1. keys' = keys
      BY <1>e, <1>g
    <2> HIDE DEF keys
    <2> QED
      BY <1>a, <1>e, <2>1
  <1>1. CASE List
    <2>1. UNCHANGED <<parents, read, seen>> /\ (pc' = "include" => rel' = NotLoaded)
      BY <1>c, <1>1, ListIs, AccessAnswers
    <2>2. IsSeq(keys, Len(keys))' => (Len(keys) \in Nat)'
      BY DEF IsSeq
    <2>3. pc' = "include" => rel'.start = 0
      BY <2>1 DEF NotLoaded
    <2>4. pc' = "include" => Sought'
      <3> SUFFICES ASSUME pc' = "include" PROVE \A n \in (1 .. Len(keys))' : ~(n <= rel.start)'
        OBVIOUS
      <3> HIDE DEF keys
      <3> QED
        BY <2>3
    <2> QED
      BY <1>a, <2>1, <2>4
  <1>2. CASE FetchIn
    <2> DEFINE top == rel.start + IncludeBatch
               last == Min({top, Len(keys)})
               first == rel.start + 1
               batch == SubSeq(keys, first, last)
    <2>1. /\ pc = "include" /\ UNCHANGED <<parents, read, pc, page, seen>>
          /\ rel' = [start |-> top, found |-> rel.found \cup (ToSet(Batch(keys)) \cap parents)]
      BY <1>2 DEF FetchIn
    <2>2. Batch(keys) = batch
      BY DEF Batch
    <2>3. keys' = keys
      BY <1>g, <2>1
    <2> HIDE DEF keys
    <2>a. IncludeBatch \in Nat \ {0}
      BY DEF ListingAssumption
    <2>4. /\ top \in Int /\ first \in Int /\ last \in Int
          /\ last = IF top <= Len(keys) THEN top ELSE Len(keys)
      BY <1>c, <1>d, <2>a, SmallerOf
    <2>5. rel'.start = top /\ rel'.found = rel.found \cup (ToSet(batch) \cap parents)
      BY <2>1, <2>2
    <2> HIDE DEF last, batch
    <2>6. \A n \in 1 .. Len(keys) : n <= top /\ ~(n <= rel.start) => keys[n] \in ToSet(batch)
      <3> SUFFICES ASSUME NEW n \in 1 .. Len(keys), n <= top, ~(n <= rel.start) PROVE keys[n] \in ToSet(batch)
        OBVIOUS
      <3> HIDE DEF first, top
      <3>1. batch = [i \in 1 .. last - first + 1 |-> keys[first + i - 1]]
        BY <2>4, PartOf DEF batch
      <3>2. /\ n - first + 1 \in 1 .. last - first + 1
            /\ first + (n - first + 1) - 1 = n
        BY <1>c, <1>d, <2>4 DEF first
      <3> DEFINE i == n - first + 1
      <3> HIDE DEF i
      <3>3. i \in DOMAIN batch /\ batch[i] = keys[first + i - 1] /\ first + i - 1 = n
        BY <3>1, <3>2 DEF i
      <3> QED
        BY <3>3 DEF ToSet
    <2> HIDE DEF top
    <2>7. Sought'
      BY <1>a, <2>1, <2>3, <2>5, <2>6
    <2> QED
      BY <1>a, <2>1, <2>7
  <1>3. CASE Respond
    <2>1. /\ pc = "include" /\ pc' # "include" /\ UNCHANGED <<parents, read>>
          /\ read.include => rel.start >= Len(keys)
          /\ \A j \in 1 .. Len(page) : /\ seen'[Len(seen) + j].row = page[j].row
                                       /\ seen'[Len(seen) + j].rel = (page[j].row.ref \in rel.found)
          /\ \A j \in 1 .. Len(seen') : \/ j \in 1 .. Len(seen) /\ seen'[j] = seen[j]
                                        \/ \E k \in 1 .. Len(page) : j = Len(seen) + k
      BY <1>3, RespondIs
    <2>2. \A k \in 1 .. Len(page) : page[k].row.ref # NULL => \E n \in 1 .. Len(keys) : keys[n] = page[k].row.ref
      BY <1>c, DistinctKeysAre
    <2>3. NULL \notin parents
      BY DEF WalkTyped, ListingAssumption
    <2> HIDE DEF keys
    <2>4. ASSUME read.include, NEW k \in 1 .. Len(page), page[k].row.ref \in parents
          PROVE  page[k].row.ref \in rel.found
      <3>1. PICK n \in 1 .. Len(keys) : keys[n] = page[k].row.ref
        BY <2>2, <2>3, <2>4
      <3>2. n <= rel.start
        BY <1>c, <1>d, <2>1, <2>4
      <3> QED
        BY <1>a, <2>1, <2>4, <3>1, <3>2
    <2>5. ASSUME read.include, NEW j \in 1 .. Len(seen') PROVE seen'[j].rel \/ seen'[j].row.ref \notin parents
      <3>1. CASE j \in 1 .. Len(seen) /\ seen'[j] = seen[j]
        BY <1>a, <2>5, <3>1
      <3>2. ASSUME NEW k \in 1 .. Len(page), j = Len(seen) + k
            PROVE  seen'[j].rel \/ seen'[j].row.ref \notin parents
        BY <2>1, <2>4, <2>5, <3>2
      <3> QED
        BY <2>1, <3>1, <3>2
    <2> QED
      BY <2>1, <2>5
  <1>4. CASE OtherSort
    <2>1. pc' # "include" /\ UNCHANGED <<parents, read, seen>>
      BY <1>4 DEF OtherSort
    <2> QED
      BY <1>a, <2>1
  <1>5. CASE RemoveParent
    <2>1. parents' \subseteq parents /\ UNCHANGED <<read, pc, page, rel, seen>>
      BY <1>5 DEF RemoveParent
    <2> QED
      BY <1>e, <2>1
  <1>6. CASE \E i \in Ids : Store(i) \/ SoftDelete(i)
    <2>1. UNCHANGED <<parents, read, pc, page, rel, seen>>
      BY <1>6, WriteIs
    <2> QED
      BY <1>e, <2>1
  <1>7. CASE UNCHANGED vars
    BY <1>e, <1>7 DEF vars
  <1> QED
    BY <1>1, <1>2, <1>3, <1>4, <1>5, <1>6, <1>7 DEF Next

-----------------------------------------------------------------------------
(* What the walk promises *)

WalkInv == WalkTyped /\ GivesRightful /\ Ordered /\ Tracked /\ Loaded

LEMMA InitWalkInv ==
  ASSUME ListingAssumption, Init
  PROVE  WalkInv
  <1>1. WalkTyped
    <2>1. IsSeq(<<>>, Len(<<>>)) /\ Len(<<>>) = 0
      BY EmptyIs
    <2>2. page = <<>> /\ seen = <<>> /\ rel.start = 0 /\ pc = "ask" /\ cursor = NoCursor
      BY DEF Init, NotLoaded
    <2>3. IsSeq(page, Len(page)) /\ Len(page) = 0 /\ IsSeq(seen, Len(seen)) /\ Len(seen) = 0
      BY <2>1, <2>2
    <2>4. TableOK
      BY DEF Init, TableOK, ListingAssumption
    <2> QED
      BY <2>2, <2>3, <2>4 DEF Init, WalkTyped
  <1>2. Len(page) = 0 /\ Len(seen) = 0 /\ cursor = NoCursor /\ steady = {} /\ pc = "ask"
    BY EmptyIs DEF Init
  <1>3. GivesRightful
    BY <1>2 DEF GivesRightful
  <1>4. Ordered
    BY <1>2 DEF Ordered
  <1>5. Tracked
    BY <1>2 DEF Tracked
  <1>6. Loaded
    BY <1>2 DEF Loaded
  <1> QED
    BY <1>1, <1>3, <1>4, <1>5, <1>6 DEF WalkInv

LEMMA StepWalkInv ==
  ASSUME ListingAssumption, WalkInv, [Next]_vars
  PROVE  WalkInv'
  BY StepWalkTyped, StepGivesRightful, StepOrdered, StepTracked, StepLoaded DEF WalkInv

LEMMA WalkInvImplies ==
  ASSUME ListingAssumption, WalkInv
  PROVE  OnlyRightful /\ InOrder /\ Complete /\ NoLostRelation
  <1>1. DOMAIN seen = 1 .. Len(seen) /\ Len(seen) \in Nat
    BY DEF WalkInv, WalkTyped, IsSeq
  <1>2. OnlyRightful
    BY <1>1 DEF WalkInv, GivesRightful, OnlyRightful
  <1>3. InOrder
    <2> SUFFICES ASSUME read.style = "cursor", Survives(read), NEW i \in 1 .. Len(seen) - 1
                 PROVE  Before(read, seen[i], seen[i+1])
      BY DEF InOrder
    <2> DEFINE j == i + 1
    <2>1. i \in 1 .. Len(seen) /\ j \in 1 .. Len(seen) /\ i < j
      BY <1>1
    <2> HIDE DEF j
    <2>2. Before(read, seen[i], seen[j])
      BY <2>1 DEF WalkInv, Ordered
    <2> QED
      BY <2>2 DEF j
  <1>4. Complete
    <2> SUFFICES ASSUME pc = "done", Access(read).status = "ok", NEW i \in steady,
                        IF read.style = "cursor" THEN Survives(read) ELSE writes = 0
                 PROVE  Cardinality({j \in DOMAIN seen : seen[j].id = i}) = 1
      BY DEF Complete
    <2>1. TrackedRow(i)
      BY DEF WalkInv, Tracked
    <2>2. ~LeftFrom(cursor, i)
      BY DEF WalkInv, WalkTyped, LeftFrom
    <2>3. Len(page) = 0
      BY EmptyIs DEF WalkInv, WalkTyped
    <2>4. InSeen(i)
      BY <2>1, <2>2, <2>3 DEF TrackedRow, InPage
    <2>5. PICK j \in 1 .. Len(seen) : seen[j].id = i
      BY <2>4 DEF InSeen
    <2>6. \A k \in 1 .. Len(seen) : seen[k].id = i => k = j
      BY <2>1, <2>5 DEF TrackedRow
    <2>7. {k \in DOMAIN seen : seen[k].id = i} = {j}
      BY <1>1, <2>5, <2>6
    <2> QED
      BY <2>7, FS_Singleton
  <1>5. NoLostRelation
    BY <1>1 DEF WalkInv, Loaded, NoLostRelation
  <1> QED
    BY <1>2, <1>3, <1>4, <1>5

-----------------------------------------------------------------------------
(* The request path: a behaviour runs one of the three *)

\* Each component keeps its own invariant; the other two stand still.
ServingInv ==
    /\ clock # Off => LInv
    /\ changes # Off => IInv
    /\ pc # Off => WalkInv
    /\ (clock = Off \/ changes = Off) /\ (clock = Off \/ pc = Off) /\ (changes = Off \/ pc = Off)

LEMMA InitServingInv == ServingInit => ServingInv
  <1> SUFFICES ASSUME ServingInit PROVE ServingInv
    OBVIOUS
  <1>1. CASE R!Init /\ GateOff /\ ListOff
    BY <1>1, InitLInv, ServingAssumption DEF ServingInv, GateOff, ListOff
  <1>2. CASE LimitOff /\ G!Init /\ ListOff
    BY <1>2, InitIInv, ServingAssumption DEF ServingInv, LimitOff, ListOff
  <1>3. CASE LimitOff /\ GateOff /\ Init
    BY <1>3, InitWalkInv, ServingAssumption DEF ServingInv, LimitOff, GateOff
  <1> QED
    BY <1>1, <1>2, <1>3 DEF ServingInit

LEMMA StepServingInv == ServingInv /\ [ServingNext]_serving => ServingInv'
  <1> SUFFICES ASSUME ServingInv, [ServingNext]_serving PROVE ServingInv'
    OBVIOUS
  <1>a. R!LimitAssumption /\ G!GateAssumption /\ G!HierarchyFits /\ ListingAssumption
    BY ServingAssumption
  <1>1. UNCHANGED limitVars => (LInv' <=> LInv) /\ clock' = clock
    <2> SUFFICES ASSUME UNCHANGED limitVars PROVE LInv' <=> LInv
      BY DEF limitVars
    <2> QED
      BY DEF limitVars, LInv, LTyped, OnTime, OneHeld, Sweeping, Near, Quiet, Potential, Bounded, Held, CleanIn, Clean
  <1>2. UNCHANGED gateVars => (IInv' <=> IInv) /\ changes' = changes
    BY DEF gateVars, IInv, Typed, Fresh, Identified, Keyed, G!NoStaleCaller, G!DecidesRightly
  <1>3. UNCHANGED vars => (WalkInv => WalkInv') /\ pc' = pc
    BY <1>a, StepWalkInv DEF vars
  <1>4. CASE clock # Off /\ R!Next /\ UNCHANGED <<gateVars, vars>>
    BY <1>a, <1>2, <1>3, <1>4, StepLInv DEF ServingInv
  <1>5. CASE changes # Off /\ G!Next /\ UNCHANGED <<limitVars, vars>>
    BY <1>a, <1>1, <1>3, <1>5, StepIInv DEF ServingInv
  <1>6. CASE pc # Off /\ Next /\ UNCHANGED <<limitVars, gateVars>>
    BY <1>a, <1>1, <1>2, <1>6, StepWalkInv DEF ServingInv
  <1>7. CASE UNCHANGED serving
    BY <1>1, <1>2, <1>3, <1>7 DEF serving, ServingInv
  <1> QED
    BY <1>4, <1>5, <1>6, <1>7 DEF ServingNext

LEMMA ServingInvHolds == ServingSpec => []ServingInv
  BY InitServingInv, StepServingInv, PTL DEF ServingSpec

\* middleware/ratelimit.go: whatever the interleaving of requests, sweeps and clock readings,
\* a key is granted no more than its burst and its rate in any window.
THEOREM LimitHoldsAlways == ServingSpec => []LimitHolds
  <1>1. ServingInv => LimitHolds
    BY BoundedIsGranted DEF ServingInv, LInv, LimitHolds
  <1> QED
    BY <1>1, ServingInvHolds, PTL

\* router/builder.go, policy/engine.go, middleware/clientip.go: a request reaches the handler
\* exactly if the configuration allows its caller, and is charged to an address vouched for.
THEOREM DecidesRightlyAlways == ServingSpec => []DecidesRightly
  <1>1. ServingInv => DecidesRightly
    BY IInvImplies, ServingAssumption DEF ServingInv, DecidesRightly
  <1> QED
    BY <1>1, ServingInvHolds, PTL

\* middleware/auth.go, apikey: a credential that was revoked, expired or demoted before the
\* request arrived is not used.
THEOREM NoStaleCallerAlways == ServingSpec => []NoStaleCaller
  <1>1. ServingInv => NoStaleCaller
    BY DEF ServingInv, IInv, NoStaleCaller
  <1> QED
    BY <1>1, ServingInvHolds, PTL

\* policy/rowfilter.go, query/builder.go: every row given to a caller is one that the deciding
\* rule, the tenant and the filters let through, however they share their placeholders.
THEOREM GivesOnlyRightfulAlways == ServingSpec => []GivesOnlyRightful
  <1>1. ServingInv => GivesOnlyRightful
    BY WalkInvImplies, ServingAssumption DEF ServingInv, GivesOnlyRightful
  <1> QED
    BY <1>1, ServingInvHolds, PTL

\* query/cursor.go, query/relations.go: a walk follows the order across its pages, returns every
\* row that stood still exactly once, and attaches every relation that is still there -- cursor
\* walks over a boolean column on MySQL and SQLite excepted, whose cursors name another value.
THEOREM WalksRightAlways == ServingSpec => []WalksRight
  <1>1. ServingInv => WalksRight
    BY WalkInvImplies, ServingAssumption DEF ServingInv, WalksRight
  <1> QED
    BY <1>1, ServingInvHolds, PTL
====

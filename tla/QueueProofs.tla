---------------------------- MODULE QueueProofs ----------------------------
(***************************************************************************)
(* Proofs about module Queue, for any number of replicas and messages and  *)
(* any policy: type correctness, mutual exclusion of the lease and the     *)
(* refinement of Delivery, the last two whenever delivery and recording    *)
(* end within the lease (Timely).                                          *)
(***************************************************************************)
EXTENDS Queue, FiniteSetTheorems, TLAPS

\* NextItem keeps the worker half of TypeOK.
LEMMA NextItemType ==
  ASSUME TypeOK, NEW w \in Workers, NextItem(w)
  PROVE  /\ pc' \in [Workers -> {"down", "idle", "batch", "deliver", "record"}]
         /\ batch' \in [Workers -> SUBSET Item]
         /\ cur' \in [Workers -> Item \cup {NoItem}]
         /\ verdict' \in [Workers -> Verdicts \cup {"none"}]
         /\ age' \in [Workers -> Nat]
         /\ \A u \in Workers : pc'[u] \in Holding => cur'[u] \in Item
  BY DEF NextItem, TypeOK, Holding

\* Type correctness of one step, whatever the faults.
LEMMA TypeStep ==
  ASSUME TypeOK, [Next]_vars
  PROVE  TypeOK'
  <1> USE QueueAssumption DEF TypeOK, Status, Item, Holding
  <1>1. ASSUME NEW i \in Ids, Enqueue(i) PROVE TypeOK'
    BY <1>1 DEF Enqueue, work
  <1>2. ASSUME NEW w \in Workers, Poll(w) PROVE TypeOK'
    BY <1>2 DEF Poll, Due, rows
  <1>3. ASSUME NEW w \in Workers, NEW it \in batch[w], ClaimOk(w, it) PROVE TypeOK'
    BY <1>3 DEF ClaimOk, AtMost
  <1>4. ASSUME NEW w \in Workers, NEW it \in batch[w], ClaimNo(w, it) PROVE TypeOK'
    BY <1>4 DEF ClaimNo
  <1>5. ASSUME NEW w \in Workers, NEW v \in Verdicts, DeliverEnd(w, v) PROVE TypeOK'
    BY <1>5 DEF DeliverEnd, rows
  <1>6. ASSUME NEW w \in Workers, Done(w) PROVE TypeOK'
    <2>1. cur[w].id \in Ids
      BY <1>6 DEF Done
    <2>2. /\ status' \in [Ids -> Status] /\ attempts' \in [Ids -> Nat]
          /\ lock' \in [Ids -> 0 .. Lease] /\ wait' = wait
      BY <1>6, <2>1 DEF Done
    <2>3. NextItem(w)
      BY <1>6 DEF Done
    <2> QED
      BY <2>2, <2>3, NextItemType
  <1>7. ASSUME NEW w \in Workers, FailDead(w) PROVE TypeOK'
    <2>1. cur[w].id \in Ids /\ FailedAttempts(w) \in Nat
      BY <1>7 DEF FailDead, FailedAttempts
    <2>2. /\ status' \in [Ids -> Status] /\ attempts' \in [Ids -> Nat]
          /\ lock' \in [Ids -> 0 .. Lease] /\ wait' = wait
      BY <1>7, <2>1 DEF FailDead
    <2>3. NextItem(w)
      BY <1>7 DEF FailDead
    <2> QED
      BY <2>2, <2>3, NextItemType
  <1>8. ASSUME NEW w \in Workers, FailRetry(w) PROVE TypeOK'
    <2>1. cur[w] \in Item /\ cur[w].id \in Ids
      BY <1>8 DEF FailRetry
    <2>2. \A n : Backoff(n) \subseteq Nat
      BY DEF Backoff
    <2>3. /\ status' = status /\ attempts' \in [Ids -> Nat]
          /\ lock' \in [Ids -> 0 .. Lease] /\ wait' \in [Ids -> Nat]
      BY <1>8, <2>1, <2>2 DEF FailRetry, FailedAttempts
    <2>4. NextItem(w)
      BY <1>8 DEF FailRetry
    <2> QED
      BY <2>3, <2>4, NextItemType
  <1>9. ASSUME NEW w \in Workers, LoseRecord(w) PROVE TypeOK'
    BY <1>9, NextItemType DEF LoseRecord, rows
  <1>10. ASSUME NEW w \in Workers, FinishBatch(w) PROVE TypeOK'
    BY <1>10 DEF FinishBatch
  <1>11. ASSUME NEW w \in Workers, Halt(w) PROVE TypeOK'
    BY <1>11 DEF Halt, rows
  <1>12. ASSUME NEW w \in Workers, Start(w) PROVE TypeOK'
    BY <1>12 DEF Start, rows
  <1>13. ASSUME Tick PROVE TypeOK'
    BY <1>13 DEF Tick, Down1
  <1>14. ASSUME UNCHANGED vars PROVE TypeOK'
    BY <1>14 DEF vars
  <1> QED
    BY <1>1, <1>2, <1>3, <1>4, <1>5, <1>6, <1>7, <1>8, <1>9, <1>10, <1>11, <1>12,
       <1>13, <1>14 DEF Next, Step

\* The initial state is well typed.
LEMMA TypeCorrectInit == Init => TypeOK
  BY QueueAssumption DEF Init, TypeOK, Status, Holding

\* Rows and workers always hold values of their types (checked as TypeOK by the runs).
THEOREM TypeCorrect == Spec => []TypeOK
  BY TypeCorrectInit, TypeStep, PTL DEF Spec

-----------------------------------------------------------------------------
\* The inductive invariant behind the lease: a held row is pending, leased for the rest
\* of the lease, and held by one worker.
IInv == TypeOK /\ LeaseCovers /\ LeaseExclusive

\* A row that can be claimed, or that was never inserted or is settled, is held by nobody.
LEMMA HeldRow ==
  ASSUME Timely, IInv, NEW w \in Workers, NEW i \in Ids, Holds(w, i)
  PROVE  /\ status[i] = "pending" /\ lock[i] > 0 /\ ~Claimable(i)
         /\ \A u \in Workers : Holds(u, i) => u = w
  <1>1. /\ status[i] = "pending" /\ lock[i] = Lease - age[w]
        /\ age[w] \in Nat /\ age[w] < Lease
    BY QueueAssumption DEF IInv, LeaseCovers, Holds, Timely, TypeOK
  <1>2. lock[i] > 0
    BY <1>1, QueueAssumption
  <1> QED
    BY <1>1, <1>2 DEF Claimable, IInv, LeaseExclusive

\* NextItem drops w's row and leaves the other workers alone.
LEMMA NextItemHolds ==
  ASSUME TypeOK, NEW w \in Workers, NextItem(w)
  PROVE  \A u \in Workers :
            /\ pc'[u] \in Holding <=> (u # w /\ pc[u] \in Holding)
            /\ u # w => cur'[u] = cur[u] /\ age'[u] = age[u]
  BY DEF NextItem, TypeOK, Holding

\* One step keeps the lease invariant, when deliveries are timely.
LEMMA LeaseStep ==
  ASSUME Timely, IInv, [Next]_vars
  PROVE  IInv'
  <1>0. TypeOK /\ TypeOK'
    BY TypeStep DEF IInv
  <1> DEFINE Longest == IF Answer > Deadline THEN Answer ELSE Deadline
  <1>a. \A u \in Workers : pc[u] \in Holding => cur[u].id \in Ids /\ Holds(u, cur[u].id)
    BY <1>0 DEF TypeOK, Item, Holds
  \* What another worker's write to row i must leave alone.
  <1>b. ASSUME NEW w \in Workers, NEW i \in Ids, Holds(w, i), NextItem(w),
               \A j \in Ids \ {i} : status'[j] = status[j] /\ lock'[j] = lock[j]
        PROVE  LeaseCovers' /\ LeaseExclusive'
    <2>1. \A u \in Workers \ {w} : pc[u] \in Holding => cur[u].id \in Ids \ {i}
      BY <1>a, <1>b, HeldRow
    <2>2. LeaseCovers'
      BY <2>1, <1>0, <1>b, NextItemHolds DEF LeaseCovers, IInv
    <2>3. LeaseExclusive'
      BY <1>0, <1>b, NextItemHolds DEF LeaseExclusive, IInv, Holds
    <2> QED
      BY <2>2, <2>3
  <1>1. ASSUME NEW i \in Ids, Enqueue(i) PROVE LeaseCovers' /\ LeaseExclusive'
    <2>1. \A u \in Workers : pc[u] \in Holding => cur[u].id # i
      BY <1>1, <1>a, HeldRow DEF Enqueue
    <2> QED
      BY <1>0, <1>1, <1>a, <2>1 DEF Enqueue, work, IInv, LeaseCovers, LeaseExclusive, Holds, TypeOK
  <1>2. ASSUME NEW w \in Workers, Poll(w) PROVE LeaseCovers' /\ LeaseExclusive'
    <2>1. \A u \in Workers : pc'[u] \in Holding <=> pc[u] \in Holding
      BY <1>0, <1>2 DEF Poll, TypeOK, Holding
    <2> QED
      BY <1>2, <2>1 DEF Poll, rows, IInv, LeaseCovers, LeaseExclusive, Holds
  <1>3. ASSUME NEW w \in Workers, NEW it \in batch[w], ClaimOk(w, it)
        PROVE  LeaseCovers' /\ LeaseExclusive'
    <2>1. it.id \in Ids /\ status[it.id] = "pending"
      BY <1>0, <1>3 DEF TypeOK, Item, ClaimOk, Claimable
    <2>2. \A u \in Workers : pc[u] \in Holding => cur[u].id # it.id
      BY <1>3, <1>a, <2>1, HeldRow DEF ClaimOk
    <2>3. \A u \in Workers \ {w} :
             pc'[u] = pc[u] /\ cur'[u] = cur[u] /\ age'[u] = age[u]
      BY <1>0, <1>3 DEF ClaimOk, TypeOK
    <2>4. pc'[w] = "deliver" /\ cur'[w] = it /\ age'[w] = 0
      BY <1>0, <1>3 DEF ClaimOk, TypeOK
    <2>5. /\ status' = status /\ lock'[it.id] = Lease
          /\ \A j \in Ids \ {it.id} : lock'[j] = lock[j]
      BY <1>0, <1>3, <2>1 DEF ClaimOk, TypeOK
    <2>6. LeaseCovers'
      BY <1>a, <2>1, <2>2, <2>3, <2>4, <2>5, QueueAssumption DEF LeaseCovers, IInv
    <2>7. LeaseExclusive'
      BY <2>2, <2>3, <2>4 DEF LeaseExclusive, IInv, Holds
    <2> QED
      BY <2>6, <2>7
  <1>4. ASSUME NEW w \in Workers, NEW it \in batch[w], ClaimNo(w, it)
        PROVE  LeaseCovers' /\ LeaseExclusive'
    <2>1. it.id \in Ids
      BY <1>0, <1>4 DEF TypeOK, Item
    <2>2. \A u \in Workers : pc[u] \in Holding => lock'[cur[u].id] = lock[cur[u].id]
      BY <1>0, <1>4, <1>a, <2>1, HeldRow DEF ClaimNo, TypeOK
    <2> QED
      BY <1>4, <2>2 DEF ClaimNo, IInv, LeaseCovers, LeaseExclusive, Holds
  <1>5. ASSUME NEW w \in Workers, NEW v \in Verdicts, DeliverEnd(w, v)
        PROVE  LeaseCovers' /\ LeaseExclusive'
    <2>1. \A u \in Workers : pc'[u] \in Holding <=> pc[u] \in Holding
      BY <1>0, <1>5 DEF DeliverEnd, TypeOK, Holding
    <2> QED
      BY <1>5, <2>1 DEF DeliverEnd, rows, IInv, LeaseCovers, LeaseExclusive, Holds
  <1>6. ASSUME NEW w \in Workers, Done(w) \/ FailDead(w) \/ FailRetry(w) \/ LoseRecord(w)
        PROVE  LeaseCovers' /\ LeaseExclusive'
    <2>1. pc[w] \in Holding /\ NextItem(w)
      BY <1>6 DEF Done, FailDead, FailRetry, LoseRecord, Holding
    <2>2. \A j \in Ids \ {cur[w].id} : status'[j] = status[j] /\ lock'[j] = lock[j]
      BY <1>0, <1>6 DEF Done, FailDead, FailRetry, LoseRecord, rows, TypeOK
    <2> QED
      BY <1>a, <1>b, <2>1, <2>2
  <1>7. ASSUME NEW w \in Workers, FinishBatch(w) PROVE LeaseCovers' /\ LeaseExclusive'
    <2>1. \A u \in Workers : pc'[u] \in Holding <=> pc[u] \in Holding
      BY <1>0, <1>7 DEF FinishBatch, TypeOK, Holding
    <2>2. \A u \in Workers : pc[u] \in Holding =>
             status'[cur[u].id] = status[cur[u].id] /\ lock'[cur[u].id] = lock[cur[u].id]
      BY <1>7, <1>a, HeldRow DEF FinishBatch, Purgeable
    <2> QED
      BY <1>7, <2>1, <2>2 DEF FinishBatch, IInv, LeaseCovers, LeaseExclusive, Holds
  <1>8. ASSUME NEW w \in Workers, Halt(w) \/ Start(w) PROVE LeaseCovers' /\ LeaseExclusive'
    <2>1. \A u \in Workers : pc'[u] \in Holding =>
             u # w /\ pc[u] \in Holding /\ cur'[u] = cur[u] /\ age'[u] = age[u]
      BY <1>0, <1>8 DEF Halt, Start, TypeOK, Holding
    <2> QED
      BY <1>8, <2>1 DEF Halt, Start, rows, IInv, LeaseCovers, LeaseExclusive, Holds
  <1>9. ASSUME Tick PROVE LeaseCovers' /\ LeaseExclusive'
    <2>1. ASSUME NEW u \in Workers, pc[u] \in Holding
          PROVE  /\ status'[cur[u].id] = "pending"
                 /\ lock'[cur[u].id] = Lease - age'[u]
                 /\ age'[u] <= Longest
      <3>1. cur[u].id \in Ids /\ lock[cur[u].id] > 0 /\ lock[cur[u].id] \in Nat
        BY <1>0, <1>a, <2>1, HeldRow DEF TypeOK
      <3>2. age'[u] = age[u] + 1 /\ lock'[cur[u].id] = lock[cur[u].id] - 1
        BY <1>9, <2>1, <3>1 DEF Tick, Down1
      <3>3. age[u] \in Nat /\ age[u] < Longest
        BY <1>0, <1>9, <2>1, QueueAssumption DEF Tick, MayWait, Holding, TypeOK
      <3> QED
        BY <1>9, <2>1, <3>2, <3>3, QueueAssumption DEF Tick, IInv, LeaseCovers
    <2> QED
      BY <1>9, <2>1 DEF Tick, IInv, LeaseCovers, LeaseExclusive, Holds
  <1>10. ASSUME UNCHANGED vars PROVE LeaseCovers' /\ LeaseExclusive'
    BY <1>10 DEF vars, IInv, LeaseCovers, LeaseExclusive, Holds
  <1> QED
    BY <1>0, <1>1, <1>2, <1>3, <1>4, <1>5, <1>6, <1>7, <1>8, <1>9, <1>10 DEF IInv, Next, Step

\* If delivery and recording end within the lease, IInv always holds.
THEOREM LeaseInvariant == ASSUME Timely PROVE Spec => []IInv
  <1>1. Init => IInv
    BY TypeCorrectInit DEF Init, IInv, LeaseCovers, LeaseExclusive, Holds, Holding
  <1>2. IInv /\ [Next]_vars => IInv'
    BY LeaseStep
  <1> QED
    BY <1>1, <1>2, PTL DEF Spec

\* No two replicas ever deliver the same message at the same time, for any number of
\* replicas, whatever crashes and lost statements occur.
THEOREM Exclusive == ASSUME Timely PROVE Spec => []LeaseExclusive
  BY LeaseInvariant, PTL DEF IInv

-----------------------------------------------------------------------------
\* Two steps that agree on who holds what map to the same holders.
LEMMA SameHolders ==
  ASSUME \A u \in Workers, i \in Ids : Holds(u, i)' <=> Holds(u, i)
  PROVE  [i \in Ids |-> {w \in Workers : Holds(w, i)}]' = [i \in Ids |-> {w \in Workers : Holds(w, i)}]
  OBVIOUS

\* One step of the queue is a step of Delivery or leaves it unchanged.
LEMMA PromiseStep ==
  ASSUME Timely, IInv, [Next]_vars
  PROVE  [Promise!Next]_(Promise!dvars)
  <1> DEFINE H == [i \in Ids |-> {w \in Workers : Holds(w, i)}]
  <1>0. TypeOK
    BY DEF IInv
  <1>a. \A u \in Workers : pc[u] \in Holding => cur[u].id \in Ids /\ Holds(u, cur[u].id)
    BY <1>0 DEF TypeOK, Item, Holds
  <1>b. ASSUME NEW w \in Workers, pc[w] \in Holding, 
               \A u \in Workers \ {w} : pc'[u] = pc[u] /\ cur'[u] = cur[u],
               pc'[w] \notin Holding
        PROVE  /\ status[cur[w].id] = "pending" /\ H[cur[w].id] = {w}
               /\ H' = [H EXCEPT ![cur[w].id] = {}]
    <2>1. status[cur[w].id] = "pending" /\ \A u \in Workers : Holds(u, cur[w].id) => u = w
      BY <1>a, <1>b, HeldRow
    <2>2. \A u \in Workers, i \in Ids : Holds(u, i)' <=> Holds(u, i) /\ i # cur[w].id
      BY <1>b, <2>1 DEF Holds
    <2> QED
      BY <1>a, <1>b, <2>1, <2>2
  <1>c. ASSUME NEW w \in Workers, pc[w] \in Holding, NextItem(w)
        PROVE  /\ status[cur[w].id] = "pending" /\ H[cur[w].id] = {w}
               /\ H' = [H EXCEPT ![cur[w].id] = {}]
    BY <1>0, <1>b, <1>c DEF NextItem, TypeOK, Holding
  <1>1. ASSUME NEW i \in Ids, Enqueue(i) PROVE Promise!Submit(i)
    <2>1. H' = H
      BY <1>1, SameHolders DEF Enqueue, work, Holds
    <2> QED
      BY <1>1, <2>1 DEF Promise!Submit, Enqueue
  <1>2. ASSUME NEW w \in Workers, Poll(w) \/ (\E v \in Verdicts : DeliverEnd(w, v)) \/ Start(w)
        PROVE  UNCHANGED Promise!dvars
    <2>1. H' = H
      BY <1>0, <1>2, SameHolders DEF Poll, DeliverEnd, Start, Holds, Holding, TypeOK
    <2> QED
      BY <1>2, <2>1 DEF Promise!dvars, Poll, DeliverEnd, Start, rows
  <1>3. ASSUME NEW w \in Workers, NEW it \in batch[w], ClaimOk(w, it)
        PROVE  Promise!Take(w, it.id) /\ it.id \in Ids
    <2>1. it.id \in Ids /\ status[it.id] = "pending" /\ status' = status
      BY <1>0, <1>3 DEF TypeOK, Item, ClaimOk, Claimable
    <2>2. H[it.id] = {}
      BY <1>3, <2>1, HeldRow DEF ClaimOk
    <2>3. \A u \in Workers, i \in Ids :
             Holds(u, i)' <=> (IF i = it.id THEN u = w ELSE Holds(u, i))
      BY <1>0, <1>3, <2>1, <2>2 DEF ClaimOk, Holds, Holding, TypeOK
    <2>4. H' = [H EXCEPT ![it.id] = {w}]
      BY <2>1, <2>3
    <2> QED
      BY <2>1, <2>2, <2>4 DEF Promise!Take
  <1>4. ASSUME NEW w \in Workers, NEW it \in batch[w], ClaimNo(w, it) PROVE UNCHANGED Promise!dvars
    <2>1. H' = H
      BY <1>4, SameHolders DEF ClaimNo, Holds
    <2> QED
      BY <1>4, <2>1 DEF Promise!dvars, ClaimNo
  <1>5. ASSUME NEW w \in Workers, Done(w) \/ FailDead(w)
        PROVE  \E i \in Ids, o \in {"done", "dead"} : Promise!Settle(w, i, o)
    <2>1. pc[w] \in Holding /\ NextItem(w) /\ cur[w].id \in Ids
      BY <1>5, <1>a DEF Done, FailDead, Holding
    <2>2. Exists(cur[w].id)
      BY <1>c, <2>1 DEF Exists
    <2>3. \E o \in {"done", "dead"} : status' = [status EXCEPT ![cur[w].id] = o]
      BY <1>5, <2>2 DEF Done, FailDead
    <2> QED
      BY <1>c, <2>1, <2>3 DEF Promise!Settle
  <1>6. ASSUME NEW w \in Workers, FailRetry(w) \/ LoseRecord(w)
        PROVE  \E i \in Ids : Promise!Release(w, i)
    <2>1. pc[w] \in Holding /\ NextItem(w) /\ cur[w].id \in Ids /\ status' = status
      BY <1>6, <1>a DEF FailRetry, LoseRecord, rows, Holding
    <2> QED
      BY <1>c, <2>1 DEF Promise!Release
  <1>7. ASSUME NEW w \in Workers, FinishBatch(w) PROVE \E S \in SUBSET Ids : Promise!Forget(S)
    <2>1. H' = H
      BY <1>0, <1>7, SameHolders DEF FinishBatch, Holds, Holding, TypeOK
    <2> QED
      BY <1>7, <2>1 DEF FinishBatch, Purgeable, Promise!Forget
  <1>8. ASSUME NEW w \in Workers, Halt(w)
        PROVE  UNCHANGED Promise!dvars \/ \E i \in Ids : Promise!Release(w, i)
    <2>1. /\ \A u \in Workers \ {w} : pc'[u] = pc[u] /\ cur'[u] = cur[u]
          /\ pc'[w] \notin Holding /\ status' = status
      BY <1>0, <1>8 DEF Halt, rows, TypeOK, Holding
    <2>2. CASE pc[w] \in Holding
      BY <1>a, <1>b, <2>1, <2>2 DEF Promise!Release
    <2>3. CASE pc[w] \notin Holding
      <3>1. H' = H
        BY <2>1, <2>3, SameHolders DEF Holds
      <3> QED
        BY <2>1, <3>1 DEF Promise!dvars
    <2> QED
      BY <2>2, <2>3
  <1>9. ASSUME Tick \/ UNCHANGED vars PROVE UNCHANGED Promise!dvars
    <2>1. H' = H
      BY <1>9, SameHolders DEF Tick, vars, Holds
    <2> QED
      BY <1>9, <2>1 DEF Promise!dvars, Tick, vars
  <1> QED
    BY <1>1, <1>2, <1>3, <1>4, <1>5, <1>6, <1>7, <1>8, <1>9 DEF Next, Step, Promise!Next

\* The queue implements Delivery: one holder at a time, settled only by its holder and
\* for good, and only delivered messages are deleted.
THEOREM KeepsItsPromise == ASSUME Timely PROVE Spec => KeepsPromise
  <1>1. Init => Promise!Init
    BY DEF Init, Promise!Init, Holds, Holding
  <1>2. IInv /\ [Next]_vars => [Promise!Next]_(Promise!dvars)
    BY PromiseStep
  <1> QED
    BY <1>1, <1>2, LeaseInvariant, PTL DEF Spec, KeepsPromise, Promise!Spec
=============================================================================

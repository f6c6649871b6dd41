------------------------- MODULE IdempotencyProofs -------------------------
(***************************************************************************)
(* Proofs about module Idempotency, for any number of requests, bodies and *)
(* expiries and with clients going away at any point: unless two requests  *)
(* find the same expired row, a retention window sees at most one record   *)
(* and the key replays only its holder's response.                         *)
(***************************************************************************)
EXTENDS Idempotency, TLAPS

\* A request reads the clock once, when it begins.
NotBegun == \A r \in Requests : pc[r] = "new" => old[r] = None

\* The request that runs the handler is the one whose row is in the table, unexpired.
OwnsKey ==
    \A r \in Requests :
        /\ pc[r] \in {"run", "finish"} => gen = r /\ ~stale
        /\ pc[r] = "finish" => outcome[r] # None

\* The row carries its owner's fingerprint and, once stored, its owner's response; it
\* expires after its owner was answered.
RowIsOwners ==
    gen # None =>
        /\ fp = body[gen]
        /\ stale => pc[gen] = "done"
        /\ resp # None => resp = gen /\ outcome[gen] \in {"created", "refused"} /\ pc[gen] = "done"

\* A row that was found expired belongs to an answered request and, while it is there,
\* is still expired; a request about to delete it finds it there.
FoundExpired ==
    \A r \in Requests :
        /\ old[r] # None => pc[old[r]] = "done" /\ (gen = old[r] => stale)
        /\ pc[r] = "delete" => old[r] # None /\ gen = old[r]

\* The record of the current window was made by the request whose row is in the table.
MadeByOwner ==
    \A m \in made :
        /\ m[2] <= expiries
        /\ m[2] = expiries => /\ gen = m[1] /\ gen # None /\ ~stale
                              /\ outcome[gen] = "created" /\ pc[gen] \in {"finish", "done"}

Once == \A m, n \in made : m[2] = n[2] => m = n

Sound == OwnsKey /\ RowIsOwners /\ FoundExpired /\ MadeByOwner /\ Once

IInv == TypeOK /\ NotBegun /\ (Raced \/ Sound)

\* Every action keeps the types.
LEMMA TypeStep ==
  ASSUME TypeOK, [Next]_vars
  PROVE  TypeOK'
  <1> USE IdempotencyAssumption DEF TypeOK, table, Goto, NoRow
  <1>1. ASSUME NEW r \in Requests, Begin(r) PROVE TypeOK'
    <2>1. PICK next \in {"cleanup", "insert"} : pc' = [pc EXCEPT ![r] = next]
      BY <1>1 DEF Begin
    <2>2. old' \in [Requests -> Requests \cup {None}]
      BY <1>1 DEF Begin
    <2> QED
      BY <1>1, <2>1, <2>2 DEF Begin
  <1>2. ASSUME NEW r \in Requests, Cleanup(r) PROVE TypeOK'
    BY <1>2 DEF Cleanup
  <1>3. ASSUME NEW r \in Requests, Insert(r) PROVE TypeOK'
    <2>1. CASE Taken
      BY <1>3, <2>1 DEF Insert
    <2>2. CASE ~Taken
      <3>1. stale' \in BOOLEAN /\ r # None
        BY <1>3, <2>2 DEF Insert
      <3>2. gen' \in Requests \cup {None} /\ fp' \in Bodies \cup {None} /\ resp' \in Requests \cup {None}
        BY <1>3, <2>2 DEF Insert
      <3> QED
        BY <1>3, <2>2, <3>1, <3>2 DEF Insert
    <2> QED
      BY <2>1, <2>2
  <1>4. ASSUME NEW r \in Requests, Select(r) PROVE TypeOK'
    <2>1. Refusal(r) \in {"other_body", "in_progress", "replay"}
      BY DEF Refusal
    <2> QED
      BY <1>4, <2>1 DEF Select, Reply
  <1>5. ASSUME NEW r \in Requests, Delete(r) PROVE TypeOK'
    <2>1. /\ gen' \in Requests \cup {None} /\ fp' \in Bodies \cup {None}
          /\ resp' \in Requests \cup {None} /\ stale' \in BOOLEAN
          /\ gen' = None /\ fp' = None /\ resp' = None /\ ~stale'
      BY <1>5 DEF Delete
    <2>2. attempt' \in [Requests -> 0 .. 2] /\ (attempt[r] = 0 => attempt'[r] = 1)
      BY <1>5 DEF Delete
    <2>3. CASE attempt[r] = 0
      BY <1>5, <2>1, <2>2, <2>3 DEF Delete
    <2>4. CASE attempt[r] # 0
      BY <1>5, <2>1, <2>2, <2>4 DEF Delete, Reply
    <2> QED
      BY <2>3, <2>4
  <1>6. ASSUME NEW r \in Requests, NEW o \in {"created", "refused", "failed"}, Run(r, o) PROVE TypeOK'
    BY <1>6 DEF Run
  <1>7. ASSUME NEW r \in Requests, Finish(r) PROVE TypeOK'
    BY <1>7 DEF Finish, ReleaseKey, StoreResponse, Reply
  <1>8. ASSUME NEW r \in Requests, Cancel(r) PROVE TypeOK'
    BY <1>8 DEF Cancel, Reply
  <1>9. ASSUME Expire PROVE TypeOK'
    BY <1>9 DEF Expire
  <1>10. ASSUME UNCHANGED vars PROVE TypeOK'
    BY <1>10 DEF vars
  <1> QED
    BY <1>1, <1>2, <1>3, <1>4, <1>5, <1>6, <1>7, <1>8, <1>9, <1>10 DEF Next, Serve

\* One step keeps Sound unless it makes two requests find the same expired row.
LEMMA SoundStep ==
  ASSUME TypeOK, NotBegun, Sound, ~Raced, ~Raced', [Next]_vars
  PROVE  Sound'
  <1> USE IdempotencyAssumption DEF TypeOK, Sound, table, Goto, NoRow
  <1>1. ASSUME NEW r \in Requests, Begin(r) PROVE Sound'
    <2>1. PICK next \in {"cleanup", "insert"} : pc' = [pc EXCEPT ![r] = next]
      BY <1>1 DEF Begin
    <2>2. pc[r] = "new" /\ UNCHANGED <<gen, fp, resp, stale, expiries, body, outcome, made>>
      BY <1>1 DEF Begin
    <2>3. OwnsKey'
      BY <2>1, <2>2 DEF OwnsKey
    <2>4. RowIsOwners'
      BY <2>1, <2>2 DEF RowIsOwners
    <2>5. MadeByOwner' /\ Once'
      BY <2>1, <2>2 DEF MadeByOwner, Once
    <2>6. FoundExpired'
      <3>1. stale => gen # None /\ pc[gen] = "done"
        BY DEF RowIsOwners
      <3> QED
        BY <1>1, <2>1, <2>2, <3>1 DEF Begin, FoundExpired
    <2> QED
      BY <2>3, <2>4, <2>5, <2>6
  <1>2. ASSUME NEW r \in Requests, Cleanup(r) PROVE Sound'
    <2>1. CASE gen # None /\ gen = old[r]
      <3>1. stale
        BY <2>1 DEF FoundExpired
      <3>2. \A s \in Requests : s # r => old[s] # gen
        BY <2>1 DEF Raced
      <3> QED
        BY <1>2, <2>1, <3>1, <3>2 DEF Cleanup, OwnsKey, RowIsOwners, FoundExpired, MadeByOwner, Once
    <2>2. CASE ~(gen # None /\ gen = old[r])
      BY <1>2, <2>2 DEF Cleanup, OwnsKey, RowIsOwners, FoundExpired, MadeByOwner, Once
    <2> QED
      BY <2>1, <2>2
  <1>3. ASSUME NEW r \in Requests, Insert(r) PROVE Sound'
    <2>1. CASE Taken
      BY <1>3, <2>1 DEF Insert, OwnsKey, RowIsOwners, FoundExpired, MadeByOwner, Once
    <2>2. CASE ~Taken
      BY <1>3, <2>2 DEF Insert, Taken, OwnsKey, RowIsOwners, FoundExpired, MadeByOwner, Once
    <2> QED
      BY <2>1, <2>2
  <1>4. ASSUME NEW r \in Requests, Select(r) PROVE Sound'
    BY <1>4 DEF Select, Reply, OwnsKey, RowIsOwners, FoundExpired, MadeByOwner, Once
  <1>5. ASSUME NEW r \in Requests, Delete(r) PROVE Sound'
    <2>1. gen # None /\ gen = old[r] /\ stale /\ pc[gen] = "done"
      BY <1>5 DEF Delete, FoundExpired
    <2>2. \A s \in Requests : s # r => old[s] # gen
      BY <2>1 DEF Raced
    <2> QED
      BY <1>5, <2>1, <2>2 DEF Delete, Reply, OwnsKey, RowIsOwners, FoundExpired, MadeByOwner, Once
  <1>6. ASSUME NEW r \in Requests, NEW o \in {"created", "refused", "failed"}, Run(r, o) PROVE Sound'
    <2>1. gen = r /\ r # None /\ ~stale /\ resp = None
      BY <1>6 DEF Run, OwnsKey, RowIsOwners
    <2>2. \A m \in made : m[2] < expiries
      BY <1>6, <2>1 DEF Run, MadeByOwner
    <2>3. OwnsKey' /\ RowIsOwners' /\ FoundExpired'
      BY <1>6, <2>1 DEF Run, OwnsKey, RowIsOwners, FoundExpired, None
    <2>4. MadeByOwner' /\ Once'
      BY <1>6, <2>1, <2>2 DEF Run, MadeByOwner, Once
    <2> QED
      BY <2>3, <2>4
  <1>7. ASSUME NEW r \in Requests, Finish(r) PROVE Sound'
    <2>1. gen = r /\ r # None /\ ~stale
      BY <1>7 DEF Finish, OwnsKey
    <2>2. CASE outcome[r] = "failed"
      BY <1>7, <2>1, <2>2 DEF Finish, ReleaseKey, Reply, OwnsKey, RowIsOwners, FoundExpired, MadeByOwner, Once
    <2>3. CASE outcome[r] # "failed"
      <3>1. outcome[r] \in {"created", "refused"}
        BY <1>7, <2>3 DEF Finish, OwnsKey
      <3> QED
        BY <1>7, <2>1, <2>3, <3>1
        DEF Finish, StoreResponse, Reply, OwnsKey, RowIsOwners, FoundExpired, MadeByOwner, Once
    <2> QED
      BY <2>2, <2>3
  <1>8. ASSUME NEW r \in Requests, Cancel(r) PROVE Sound'
    BY <1>8 DEF Cancel, Reply, OwnsKey, RowIsOwners, FoundExpired, MadeByOwner, Once
  <1>9. ASSUME Expire PROVE Sound'
    BY <1>9 DEF Expire, OwnsKey, RowIsOwners, FoundExpired, MadeByOwner, Once
  <1>10. ASSUME UNCHANGED vars PROVE Sound'
    BY <1>10 DEF vars, OwnsKey, RowIsOwners, FoundExpired, MadeByOwner, Once
  <1> QED
    BY <1>1, <1>2, <1>3, <1>4, <1>5, <1>6, <1>7, <1>8, <1>9, <1>10 DEF Next, Serve

\* One step keeps the invariant; a race on an expired row is never undone.
LEMMA InvStep ==
  ASSUME IInv, [Next]_vars
  PROVE  IInv'
  <1>1. TypeOK'
    BY TypeStep DEF IInv
  <1>2. \A r \in Requests : old'[r] = old[r] \/ (pc[r] = "new" /\ pc'[r] # "new")
    BY DEF IInv, TypeOK, Next, Serve, Begin, Cleanup, Insert, Select, Delete, Run, Finish, Cancel,
           Expire, Goto, vars
  <1>3. \A r \in Requests : pc'[r] = "new" => pc[r] = "new"
    <2>1. ASSUME NEW r \in Requests, NEW label, Goto(r, label), label # "new", NEW s \in Requests
          PROVE  pc'[s] = "new" => pc[s] = "new"
      BY <2>1 DEF IInv, TypeOK, Goto
    <2> QED
      BY <2>1 DEF Next, Serve, Begin, Cleanup, Insert, Select, Delete, Run, Finish, Cancel, Expire, Reply, vars
  <1>4. NotBegun'
    BY <1>2, <1>3 DEF IInv, NotBegun
  <1>5. Raced => Raced'
    BY <1>2 DEF IInv, NotBegun, Raced
  <1>6. ~Raced' => Sound'
    BY <1>5, SoundStep DEF IInv
  <1> QED
    BY <1>1, <1>4, <1>6 DEF IInv

\* The invariant holds initially.
LEMMA InvInit == Init => IInv
  <1> SUFFICES ASSUME Init PROVE IInv
    OBVIOUS
  <1>1. TypeOK
    <2>1. expiries \in 0 .. MaxExpiries /\ attempt \in [Requests -> 0 .. 2]
      BY IdempotencyAssumption DEF Init
    <2>2. stale \in BOOLEAN
      BY DEF Init
    <2>3. /\ gen \in Requests \cup {None} /\ fp \in Bodies \cup {None}
          /\ resp \in Requests \cup {None} /\ body \in [Requests -> Bodies]
          /\ old \in [Requests -> Requests \cup {None}]
          /\ made \subseteq Requests \X (0 .. MaxExpiries)
      BY DEF Init
    <2> QED
      BY <2>1, <2>2, <2>3 DEF Init, TypeOK
  <1>2. NotBegun /\ OwnsKey /\ FoundExpired
    BY DEF Init, NotBegun, OwnsKey, FoundExpired
  <1>3. RowIsOwners /\ MadeByOwner /\ Once
    BY DEF Init, RowIsOwners, MadeByOwner, Once
  <1> QED
    BY <1>1, <1>2, <1>3 DEF IInv, Sound

\* The invariant always holds.
THEOREM Invariance == Spec => []IInv
  <1>1. IInv /\ [Next]_vars => IInv'
    BY InvStep
  <1> QED
    BY <1>1, InvInit, PTL DEF Spec

\* However many requests with one key race, fail, are cancelled and retried, a retention
\* window sees at most one record, unless two of them find the same expired row.
THEOREM CreatesOnce == Spec => []AtMostOnce
  <1>1. IInv => AtMostOnce
    BY DEF IInv, Sound, Once, AtMostOnce
  <1> QED
    BY <1>1, Invariance, PTL

\* With the same exception, a replay is the response of the key's holder to the same body.
THEOREM ReplaysItsOwn == Spec => ReplayMatches
  <1>1. ASSUME IInv, ~Raced, [Next]_vars,
               NEW r \in Requests, answer[r] # "replay", answer'[r] = "replay"
        PROVE  resp = gen /\ body[r] = body[gen] /\ outcome[gen] \in {"created", "refused"}
    <2>1. ASSUME NEW s \in Requests, Serve(s) \/ Cancel(s) PROVE s = r /\ Select(r) /\ Refusal(r) = "replay"
      <3>1. \A q \in Requests : \A a : Reply(q, a) => answer'[r] = IF q = r THEN a ELSE answer[r]
        BY <1>1 DEF IInv, TypeOK, Reply
      <3>2. CASE Select(s)
        BY <1>1, <3>1, <3>2 DEF Select
      <3>3. CASE ~Select(s)
        <4>1. CASE Finish(s)
          <5>1. outcome[s] # "replay"
            BY <1>1 DEF IInv, TypeOK, None
          <5> QED
            BY <1>1, <3>1, <4>1, <5>1 DEF Finish
        <4>2. CASE Delete(s)
          BY <1>1, <3>1, <4>2 DEF Delete
        <4>3. CASE Cancel(s)
          BY <1>1, <3>1, <4>3 DEF Cancel
        <4>4. CASE Begin(s) \/ Cleanup(s) \/ Insert(s) \/ \E o \in {"created", "refused", "failed"} : Run(s, o)
          BY <1>1, <4>4 DEF Begin, Cleanup, Insert, Run
        <4> QED
          BY <2>1, <3>3, <4>1, <4>2, <4>3, <4>4 DEF Serve
      <3> QED
        BY <3>2, <3>3
    <2>2. Select(r) /\ Refusal(r) = "replay"
      BY <1>1, <2>1 DEF Next, Expire, vars
    <2>3. gen # None
      BY <1>1, <2>2 DEF Select, IInv, TypeOK, Reply
    <2> QED
      BY <1>1, <2>2, <2>3 DEF Refusal, IInv, Sound, RowIsOwners
  <1>2. IInv /\ [Next]_vars =>
          [\A r \in Requests : answer[r] # "replay" /\ answer'[r] = "replay" =>
              \/ Raced
              \/ resp = gen /\ body[r] = body[gen] /\ outcome[gen] \in {"created", "refused"}]_vars
    BY <1>1
  <1> QED
    BY <1>2, Invariance, PTL DEF Spec, ReplayMatches
=============================================================================

--------------------------- MODULE SessionsProofs --------------------------
(***************************************************************************)
(* Proofs about module Sessions, for any number of concurrent requests:    *)
(* sessions never fork and never come back to life.                        *)
(***************************************************************************)
EXTENDS Sessions, TLAPS

Carrying(r) == pc[r] \in {"reload", "issue"}

\* A family is used by others only after the login that starts it has been answered.
FamilyStarted ==
    /\ \A t \in Tokens : Issued(t) => pc[fam[t]] = "done"
    /\ \A r \in Requests : rfam[r] \notin {None, r} => pc[rfam[r]] = "done"
    /\ \A r \in Requests : pc[r] = "new" => rfam[r] = None /\ tok[r] = None

\* What a refresh knows about the token it presented.
Presented ==
    \A r \in Requests :
        /\ pc[r] = "rotate" => tok[r] # None
        /\ tok[r] # None => Issued(tok[r]) /\ fam[tok[r]] = rfam[r]

\* The right to a family's next token is a live token or one request, never two.
OneRight ==
    /\ \A r, s \in Requests : Carrying(r) /\ Carrying(s) /\ rfam[r] = rfam[s] => r = s
    /\ \A r \in Requests, t \in Tokens : Carrying(r) /\ Live(t) => rfam[r] # fam[t]

\* A token that has a successor was consumed, and one that is being rotated has none yet.
Lineage ==
    /\ \A t \in Tokens : parent[t] # None => used[parent[t]]
    /\ \A r \in Requests : Carrying(r) /\ tok[r] # None =>
          used[tok[r]] /\ \A t \in Tokens : parent[t] # tok[r]

IInv ==
    /\ TypeOK /\ FamilyStarted /\ Presented
    /\ OneRight /\ OneLiveToken /\ Lineage /\ RotatedOnce

\* Type correctness of one step.
LEMMA TypeStep ==
  ASSUME TypeOK, [Next]_vars
  PROVE  TypeOK'
  <1> USE SessionsAssumption DEF TypeOK, tokens, Goto, Begin, Ops, Issued
  <1>1. ASSUME NEW r \in Requests, Login(r) PROVE TypeOK'
    BY <1>1 DEF Login
  <1>2. ASSUME NEW r \in Requests, NEW t \in Tokens, Refresh(r, t) PROVE TypeOK'
    <2>1. AfterSelect(t) \in {"done", "revoke", "rotate"}
      BY DEF AfterSelect
    <2> QED
      BY <1>2, <2>1 DEF Refresh
  <1>3. ASSUME NEW r \in Requests, NEW t \in Tokens, Logout(r, t) PROVE TypeOK'
    BY <1>3 DEF Logout
  <1>4. ASSUME NEW r \in Requests, NEW t \in Tokens, Issue(r, t) PROVE TypeOK'
    BY <1>4 DEF Issue
  <1>5. ASSUME NEW r \in Requests, Rotate(r) PROVE TypeOK'
    BY <1>5 DEF Rotate
  <1>6. ASSUME NEW r \in Requests, Reload(r) PROVE TypeOK'
    BY <1>6 DEF Reload
  <1>7. ASSUME NEW r \in Requests, RevokeFamily(r) PROVE TypeOK'
    <2>1. revoked' \in [Tokens -> BOOLEAN]
      BY <1>7 DEF RevokeFamily
    <2>2. rfam[r] \in Requests /\ ended' \subseteq Requests
      BY <1>7 DEF RevokeFamily
    <2> QED
      BY <1>7, <2>1, <2>2 DEF RevokeFamily
  <1>8. ASSUME NEW r \in Requests, NEW h \in {"logoutAll", "reset"}, RevokeAll(r, h) PROVE TypeOK'
    <2>1. revoked' \in [Tokens -> BOOLEAN]
      BY <1>8 DEF RevokeAll
    <2>2. ended' \subseteq Requests
      BY <1>8 DEF RevokeAll
    <2>3. op' \in [Requests -> Ops]
      BY <1>8 DEF RevokeAll
    <2> QED
      BY <1>8, <2>1, <2>2, <2>3 DEF RevokeAll
  <1>9. ASSUME NEW r \in Requests, Bump(r) PROVE TypeOK'
    BY <1>9 DEF Bump
  <1>10. ASSUME NEW r \in Requests, Abort(r) PROVE TypeOK'
    BY <1>10 DEF Abort
  <1>11. ASSUME NEW t \in Tokens, Expire(t) PROVE TypeOK'
    BY <1>11 DEF Expire
  <1>12. ASSUME DeleteUser PROVE TypeOK'
    BY <1>12 DEF DeleteUser
  <1>13. ASSUME UNCHANGED vars PROVE TypeOK'
    BY <1>13 DEF vars
  <1> QED
    BY <1>1, <1>2, <1>3, <1>4, <1>5, <1>6, <1>7, <1>8, <1>9, <1>10, <1>11, <1>12, <1>13
    DEF Next, Handle, LogoutAll, ResetPassword

\* The tokens' rows change only by consuming or revoking them: what is live afterwards
\* was live before.
LEMMA Shrink ==
  ASSUME IInv, TypeOK', FamilyStarted', Presented',
         fam' = fam, parent' = parent,
         \A t \in Tokens : used[t] => used'[t],
         \A t \in Tokens : revoked[t] => revoked'[t],
         \A r \in Requests : Carrying(r)' => Carrying(r) /\ rfam'[r] = rfam[r] /\ tok'[r] = tok[r]
  PROVE  IInv'
  <1>1. \A t \in Tokens : Live(t)' => Live(t)
    BY DEF Live, Issued
  <1>2. OneRight' /\ OneLiveToken'
    BY <1>1 DEF IInv, OneRight, OneLiveToken
  <1>3. Lineage' /\ RotatedOnce'
    BY SessionsAssumption DEF IInv, Lineage, RotatedOnce, TypeOK
  <1> QED
    BY <1>2, <1>3 DEF IInv

\* One step keeps the invariant.
LEMMA InvStep ==
  ASSUME IInv, [Next]_vars
  PROVE  IInv'
  <1>0. TypeOK /\ TypeOK'
    BY TypeStep DEF IInv
  <1> USE SessionsAssumption
  <1>1. ASSUME NEW r \in Requests, Login(r) PROVE IInv'
    <2>1. /\ pc[r] = "new" /\ pc' = [pc EXCEPT ![r] = "issue"] /\ rfam' = [rfam EXCEPT ![r] = r]
          /\ rfam[r] = None /\ tok[r] = None
          /\ UNCHANGED <<fam, used, revoked, expired, parent, tok>>
      BY <1>1 DEF Login, Begin, Goto, tokens, IInv, FamilyStarted
    <2>2. FamilyStarted' /\ Presented'
      BY <1>0, <2>1 DEF TypeOK, IInv, FamilyStarted, Presented, Issued, Carrying
    <2>3. \A s \in Requests : Carrying(s) => rfam[s] # r /\ s # r
      BY <1>0, <2>1 DEF IInv, FamilyStarted, TypeOK, Carrying
    <2>4. \A t \in Tokens : Live(t)' <=> Live(t)
      BY <2>1 DEF Live, Issued
    <2>5. \A s \in Requests : Carrying(s)' <=> Carrying(s) \/ s = r
      BY <1>0, <2>1 DEF TypeOK, Carrying
    <2>6. \A t \in Tokens : Live(t) => fam[t] # r
      BY <2>1 DEF Live, IInv, FamilyStarted
    <2>7. OneRight'
      BY <1>0, <2>1, <2>3, <2>4, <2>5, <2>6 DEF IInv, OneRight, TypeOK
    <2>8. OneLiveToken' /\ RotatedOnce'
      BY <2>1, <2>4 DEF IInv, OneLiveToken, RotatedOnce
    <2>9. Lineage'
      BY <2>1, <2>5 DEF IInv, Lineage
    <2> QED
      BY <1>0, <2>2, <2>7, <2>8, <2>9 DEF IInv
  <1>2. ASSUME NEW r \in Requests, NEW t \in Tokens, Refresh(r, t) \/ Logout(r, t) PROVE IInv'
    <2>1. PICK next \in {"done", "revoke", "rotate"} : pc' = [pc EXCEPT ![r] = next]
      BY <1>2 DEF Refresh, Logout, AfterSelect, Goto
    <2>2. /\ pc[r] = "new" /\ Issued(t)
          /\ tok' = [tok EXCEPT ![r] = t] /\ rfam' = [rfam EXCEPT ![r] = fam[t]]
          /\ UNCHANGED <<fam, used, revoked, expired, parent>>
      BY <1>2 DEF Refresh, Logout, Begin, tokens
    <2>3. FamilyStarted'
      BY <1>0, <2>1, <2>2 DEF TypeOK, IInv, FamilyStarted, Issued
    <2>4. Presented'
      BY <1>0, <2>1, <2>2 DEF TypeOK, IInv, Presented, Issued
    <2>5. \A s \in Requests : Carrying(s)' => Carrying(s) /\ rfam'[s] = rfam[s] /\ tok'[s] = tok[s]
      BY <1>0, <2>1, <2>2 DEF TypeOK, Carrying
    <2> QED
      BY <1>0, <2>2, <2>3, <2>4, <2>5, Shrink
  <1>3. ASSUME NEW r \in Requests, NEW t \in Tokens, Issue(r, t) PROVE IInv'
    <2>1. /\ pc[r] = "issue" /\ ~Issued(t) /\ rfam[r] \in Requests
          /\ pc' = [pc EXCEPT ![r] = "done"] /\ fam' = [fam EXCEPT ![t] = rfam[r]]
          /\ parent' = [parent EXCEPT ![t] = tok[r]]
          /\ UNCHANGED <<used, revoked, tok, rfam>>
      BY <1>0, <1>3 DEF Issue, Goto, TypeOK
    <2>2. FamilyStarted'
      BY <1>0, <2>1 DEF TypeOK, IInv, FamilyStarted, Issued
    <2>3. Presented'
      BY <1>0, <2>1 DEF TypeOK, IInv, Presented, Issued
    <2>4. /\ Carrying(r) /\ ~Carrying(r)'
          /\ \A s \in Requests \ {r} : Carrying(s)' <=> Carrying(s)
      BY <1>0, <2>1 DEF TypeOK, Carrying
    <2>5. \A u \in Tokens \ {t} : fam'[u] = fam[u] /\ parent'[u] = parent[u] /\ (Live(u)' <=> Live(u))
      BY <1>0, <2>1 DEF TypeOK, Live, Issued
    <2>6. fam'[t] = rfam[r] /\ parent'[t] = tok[r]
      BY <1>0, <2>1 DEF TypeOK
    <2>7. OneRight'
      BY <2>1, <2>4, <2>5, <2>6 DEF IInv, OneRight
    <2>8. OneLiveToken'
      BY <2>1, <2>4, <2>5, <2>6 DEF IInv, OneLiveToken, OneRight
    <2>9. RotatedOnce'
      BY <2>4, <2>5, <2>6 DEF IInv, RotatedOnce, Lineage
    <2>10. \A s \in Requests \ {r} : Carrying(s) /\ tok[s] # None => tok[s] # tok[r]
      BY <2>4 DEF IInv, Presented, OneRight
    <2>11. Lineage'
      BY <2>1, <2>4, <2>5, <2>6, <2>10 DEF IInv, Lineage
    <2> QED
      BY <1>0, <2>2, <2>3, <2>7, <2>8, <2>9, <2>11 DEF IInv
  <1>4. ASSUME NEW r \in Requests, Rotate(r), Rotatable(tok[r]) PROVE IInv'
    <2>1. /\ tok[r] \in Tokens /\ Issued(tok[r]) /\ fam[tok[r]] = rfam[r]
          /\ pc[r] = "rotate" /\ pc' = [pc EXCEPT ![r] = "reload"]
          /\ used' = [used EXCEPT ![tok[r]] = TRUE]
          /\ UNCHANGED <<fam, revoked, parent, tok, rfam>>
      BY <1>0, <1>4 DEF Rotate, Goto, IInv, Presented, TypeOK
    <2>2. Live(tok[r]) /\ ~Live(tok[r])'
      BY <1>0, <1>4, <2>1 DEF Live, Rotatable, TypeOK
    <2>3. \A u \in Tokens : Live(u)' => Live(u) /\ u # tok[r]
      BY <1>0, <2>1, <2>2 DEF Live, Issued, TypeOK
    <2>4. /\ ~Carrying(r) /\ Carrying(r)'
          /\ \A s \in Requests \ {r} : Carrying(s)' <=> Carrying(s)
      BY <1>0, <2>1 DEF TypeOK, Carrying
    <2>5. FamilyStarted'
      BY <1>0, <2>1 DEF TypeOK, IInv, FamilyStarted, Issued
    <2>6. Presented'
      BY <1>0, <2>1 DEF TypeOK, IInv, Presented, Issued
    <2>7. OneRight'
      BY <2>1, <2>2, <2>3, <2>4 DEF IInv, OneRight, OneLiveToken
    <2>8. OneLiveToken' /\ RotatedOnce'
      BY <2>1, <2>3 DEF IInv, OneLiveToken, RotatedOnce
    <2>9. \A u \in Tokens : used[u] => used'[u]
      BY <1>0, <2>1 DEF TypeOK
    <2>10. \A u \in Tokens : parent[u] # tok[r]
      BY <2>1, <2>2 DEF IInv, Lineage, Live
    <2>11. used'[tok[r]]
      BY <1>0, <2>1 DEF TypeOK
    <2>12. Lineage'
      BY <1>0, <2>1, <2>4, <2>9, <2>10, <2>11 DEF IInv, Lineage, TypeOK
    <2> QED
      BY <1>0, <2>5, <2>6, <2>7, <2>8, <2>12 DEF IInv
  <1>5. ASSUME NEW r \in Requests,
               (Rotate(r) /\ ~Rotatable(tok[r])) \/ Reload(r) \/ RevokeFamily(r) \/ Bump(r) \/ Abort(r)
        PROVE  IInv'
    <2>1. PICK next \in {"reload", "issue", "revoke", "done"} :
             pc' = [pc EXCEPT ![r] = next] /\ pc[r] # "new" /\ (next = "issue" => pc[r] = "reload")
             /\ next # "reload" /\ pc[r] # "done"
      BY <1>5 DEF Rotate, Reload, RevokeFamily, Bump, Abort, Goto
    <2>2. /\ UNCHANGED <<fam, parent, tok, rfam, used>>
          /\ \A t \in Tokens : revoked[t] => revoked'[t]
      BY <1>0, <1>5 DEF Rotate, Reload, RevokeFamily, Bump, Abort, tokens
    <2>3. FamilyStarted' /\ Presented'
      BY <1>0, <2>1, <2>2 DEF TypeOK, IInv, FamilyStarted, Presented, Issued
    <2>4. \A s \in Requests : Carrying(s)' => Carrying(s) /\ rfam'[s] = rfam[s] /\ tok'[s] = tok[s]
      BY <1>0, <2>1, <2>2 DEF TypeOK, Carrying
    <2> QED
      BY <1>0, <2>2, <2>3, <2>4, Shrink
  <1>6. ASSUME NEW r \in Requests, NEW h \in {"logoutAll", "reset"}, RevokeAll(r, h) PROVE IInv'
    <2>1. /\ pc[r] = "new" /\ pc' = [pc EXCEPT ![r] = "bump"]
          /\ UNCHANGED <<fam, parent, tok, rfam, used>>
          /\ \A t \in Tokens : revoked[t] => revoked'[t]
      BY <1>0, <1>6 DEF RevokeAll, Begin, Goto
    <2>2. FamilyStarted' /\ Presented'
      BY <1>0, <2>1 DEF TypeOK, IInv, FamilyStarted, Presented, Issued
    <2>3. \A s \in Requests : Carrying(s)' => Carrying(s) /\ rfam'[s] = rfam[s] /\ tok'[s] = tok[s]
      BY <1>0, <2>1 DEF TypeOK, Carrying
    <2> QED
      BY <1>0, <2>1, <2>2, <2>3, Shrink
  <1>7. ASSUME (\E t \in Tokens : Expire(t)) \/ DeleteUser \/ UNCHANGED vars PROVE IInv'
    <2>1. UNCHANGED <<fam, parent, tok, rfam, used, revoked, pc>>
      BY <1>7 DEF Expire, DeleteUser, vars, tokens
    <2>2. FamilyStarted' /\ Presented'
      BY <2>1 DEF IInv, FamilyStarted, Presented, Issued
    <2> QED
      BY <1>0, <2>1, <2>2, Shrink DEF Carrying
  <1> QED
    BY <1>1, <1>2, <1>3, <1>4, <1>5, <1>6, <1>7
    DEF Next, Handle, LogoutAll, ResetPassword

\* The invariant holds initially.
LEMMA InvInit == Init => IInv
  <1> SUFFICES ASSUME Init PROVE IInv
    OBVIOUS
  <1>1. TypeOK
    BY SessionsAssumption DEF Init, TypeOK, Ops
  <1> QED
    BY <1>1 DEF Init, IInv, FamilyStarted, Presented, OneRight, OneLiveToken, Lineage,
                RotatedOnce, Live, Issued, Carrying

\* The strengthened invariant holds always.
THEOREM Invariance == Spec => []IInv
  BY InvInit, InvStep, PTL DEF Spec

\* A session never forks: at most one token of a family can still be rotated.
THEOREM NeverForks == Spec => []OneLiveToken
  BY Invariance, PTL DEF IInv

\* A refresh token is rotated into at most one successor.
THEOREM RotatesOnce == Spec => []RotatedOnce
  BY Invariance, PTL DEF IInv

\* A step never gives a session that is over a live token or a request that stores one.
LEMMA RevivalStep ==
  ASSUME IInv, [Next]_vars, NEW f \in Requests, pc[f] # "new", ~Alive(f)
  PROVE  ~Alive(f)'
  <1> USE SessionsAssumption
  <1>0. TypeOK
    BY DEF IInv
  <1>1. SUFFICES /\ \A t \in Tokens : Live(t)' /\ fam'[t] = f => Live(t) /\ fam[t] = f
                 /\ \A r \in Requests : Carries(r, f)' => Carries(r, f)
    BY DEF Alive
  <1>2. ASSUME NEW r \in Requests, Handle(r)
        PROVE  /\ \A t \in Tokens : Live(t)' /\ fam'[t] = f => Live(t) /\ fam[t] = f
               /\ \A s \in Requests : Carries(s, f)' => Carries(s, f)
    <2>1. CASE Login(r)
      BY <1>0, <2>1 DEF Login, Begin, Goto, tokens, Live, Issued, Carries, TypeOK
    <2>2. ASSUME NEW t \in Tokens, Refresh(r, t) \/ Logout(r, t)
          PROVE  /\ \A u \in Tokens : Live(u)' /\ fam'[u] = f => Live(u) /\ fam[u] = f
                 /\ \A s \in Requests : Carries(s, f)' => Carries(s, f)
      BY <1>0, <2>2 DEF Refresh, Logout, AfterSelect, Begin, Goto, tokens, Live, Issued, Carries, TypeOK
    <2>3. ASSUME NEW t \in Tokens, Issue(r, t)
          PROVE  /\ \A u \in Tokens : Live(u)' /\ fam'[u] = f => Live(u) /\ fam[u] = f
                 /\ \A s \in Requests : Carries(s, f)' => Carries(s, f)
      <3>1. rfam[r] # f
        BY <2>3 DEF Issue, Alive, Carries
      <3> QED
        BY <1>0, <2>3, <3>1 DEF Issue, Goto, Live, Issued, Carries, TypeOK
    <2>4. CASE Rotate(r)
      <3>1. tok[r] \in Tokens /\ Issued(tok[r]) /\ fam[tok[r]] = rfam[r]
        BY <1>0, <2>4 DEF Rotate, IInv, Presented, TypeOK
      <3>2. Rotatable(tok[r]) => rfam[r] # f
        BY <3>1 DEF Alive, Live, Rotatable
      <3>3. \A t \in Tokens : used[t] => used'[t]
        BY <1>0, <2>4, <3>1 DEF Rotate, TypeOK
      <3>4. \A s \in Requests : Carries(s, f)' => Carries(s, f)
        BY <1>0, <2>4, <3>2 DEF Rotate, Goto, Carries, TypeOK
      <3> QED
        BY <2>4, <3>3, <3>4 DEF Rotate, Live, Issued
    <2>5. CASE Reload(r) \/ Bump(r) \/ Abort(r)
      BY <1>0, <2>5 DEF Reload, Bump, Abort, Goto, tokens, Live, Issued, Carries, TypeOK
    <2>6. CASE RevokeFamily(r)
      BY <1>0, <2>6 DEF RevokeFamily, Goto, Live, Issued, Carries, TypeOK
    <2>7. ASSUME NEW h \in {"logoutAll", "reset"}, RevokeAll(r, h)
          PROVE  /\ \A u \in Tokens : Live(u)' /\ fam'[u] = f => Live(u) /\ fam[u] = f
                 /\ \A s \in Requests : Carries(s, f)' => Carries(s, f)
      BY <1>0, <2>7 DEF RevokeAll, Begin, Goto, Live, Issued, Carries, TypeOK
    <2> QED
      BY <1>2, <2>1, <2>2, <2>3, <2>4, <2>5, <2>6, <2>7
      DEF Handle, LogoutAll, ResetPassword
  <1>3. CASE (\E t \in Tokens : Expire(t)) \/ DeleteUser \/ UNCHANGED vars
    BY <1>3 DEF Expire, DeleteUser, vars, tokens, Live, Issued, Carries
  <1> QED
    BY <1>2, <1>3 DEF Next

\* A session that is over stays over, whatever a stale refresh still has in hand.
THEOREM StaysOver == Spec => NoRevival
  <1>1. IInv /\ [Next]_vars => [\A f \in Requests : pc[f] # "new" /\ ~Alive(f) => ~Alive(f)']_vars
    BY RevivalStep
  <1> QED
    BY <1>1, Invariance, PTL DEF Spec, NoRevival
=============================================================================

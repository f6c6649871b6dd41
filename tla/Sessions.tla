------------------------------ MODULE Sessions -----------------------------
(***************************************************************************)
(* The refresh-token sessions of internal/auth (refresh.go and the session *)
(* parts of handler.go and recovery.go): login starts a family of refresh  *)
(* tokens, refresh rotates a token into the next one of its family, logout *)
(* revokes a family, logout-all and password reset revoke everything the   *)
(* user has and bump the user's token version.                             *)
(*                                                                         *)
(* Every SQL statement is one step, none runs in a transaction, and a      *)
(* request may stop between any two of them.  One user is modelled: the    *)
(* statements of different users touch different rows.  A family is named  *)
(* by the login request that starts it.                                    *)
(***************************************************************************)
EXTENDS Integers

CONSTANTS
    Tokens,      \* refresh tokens that may be issued
    Requests,    \* HTTP requests; each runs one handler once
    MaxVersion   \* bound of token_version

None == "none"

ASSUME SessionsAssumption ==
    /\ MaxVersion \in Nat
    /\ None \notin Tokens /\ None \notin Requests

VARIABLES
    fam,       \* family_id per token, None while the token is not issued
    used,      \* used_at is set
    revoked,   \* revoked_at is set
    expired,   \* expires_at <= now
    version,   \* the user's token_version
    present,   \* the user row exists
    pc,        \* the statement each request runs next
    op,        \* the handler of each request
    tok,       \* the token the request presented
    rfam,      \* the family it works on
    tv,        \* the token_version in the user row it loaded
    parent,    \* history: the token that was rotated into this one
    ended      \* history: families that were revoked

tokens == <<fam, used, revoked, expired, parent>>
vars == <<fam, used, revoked, expired, version, present, pc, op, tok, rfam, tv, parent, ended>>

Issued(t) == fam[t] # None
Live(t) == Issued(t) /\ ~used[t] /\ ~revoked[t]

Init ==
    /\ fam = [t \in Tokens |-> None]
    /\ used = [t \in Tokens |-> FALSE]
    /\ revoked = [t \in Tokens |-> FALSE]
    /\ expired = [t \in Tokens |-> FALSE]
    /\ version = 0
    /\ present = TRUE
    /\ pc = [r \in Requests |-> "new"]
    /\ op = [r \in Requests |-> None]
    /\ tok = [r \in Requests |-> None]
    /\ rfam = [r \in Requests |-> None]
    /\ tv = [r \in Requests |-> 0]
    /\ parent = [t \in Tokens |-> None]
    /\ ended = {}

Goto(r, label) == pc' = [pc EXCEPT ![r] = label]
Begin(r, handler) == pc[r] = "new" /\ op' = [op EXCEPT ![r] = handler]

-----------------------------------------------------------------------------
\* login, register and OAuth end in respondWithSession: the user row was loaded, a new
\* family is about to be stored.
Login(r) ==
    /\ Begin(r, "login") /\ present
    /\ tv' = [tv EXCEPT ![r] = version]
    /\ rfam' = [rfam EXCEPT ![r] = r]
    /\ Goto(r, "issue")
    /\ UNCHANGED <<tokens, version, present, tok, ended>>

\* What rotateRefreshToken does with the row its SELECT returned.
AfterSelect(t) ==
    IF revoked[t] THEN "done"
    ELSE IF used[t] THEN "revoke"
    ELSE IF expired[t] THEN "done"
    ELSE "rotate"

\* refresh: the SELECT of rotateRefreshToken.
Refresh(r, t) ==
    /\ Begin(r, "refresh") /\ Issued(t)
    /\ tok' = [tok EXCEPT ![r] = t]
    /\ rfam' = [rfam EXCEPT ![r] = fam[t]]
    /\ Goto(r, AfterSelect(t))
    /\ UNCHANGED <<tokens, version, present, tv, ended>>

MutRotatable(t) == ~revoked[t]
MutRotatableRevoked(t) == ~used[t]

\* The WHERE clause of the UPDATE that consumes a token.
Rotatable(t) == ~used[t] /\ ~revoked[t]

\* The winner goes on; a loser counts as reuse.
Rotate(r) ==
    /\ pc[r] = "rotate"
    /\ IF Rotatable(tok[r])
       THEN used' = [used EXCEPT ![tok[r]] = TRUE] /\ Goto(r, "reload")
       ELSE UNCHANGED used /\ Goto(r, "revoke")
    /\ UNCHANGED <<fam, revoked, expired, parent, version, present, op, tok, rfam, tv, ended>>

\* The user is read again for the claims of the new access token.
Reload(r) ==
    /\ pc[r] = "reload"
    /\ IF present
       THEN tv' = [tv EXCEPT ![r] = version] /\ Goto(r, "issue")
       ELSE UNCHANGED tv /\ Goto(r, "revoke")
    /\ UNCHANGED <<tokens, version, present, op, tok, rfam, ended>>

\* issueRefreshToken, and the response.
Issue(r, t) ==
    /\ pc[r] = "issue" /\ ~Issued(t)
    /\ fam' = [fam EXCEPT ![t] = rfam[r]]
    /\ parent' = [parent EXCEPT ![t] = tok[r]]
    /\ Goto(r, "done")
    /\ UNCHANGED <<used, revoked, expired, version, present, op, tok, rfam, tv, ended>>

\* logout: SELECT family_id by the presented token.
Logout(r, t) ==
    /\ Begin(r, "logout") /\ Issued(t)
    /\ tok' = [tok EXCEPT ![r] = t]
    /\ rfam' = [rfam EXCEPT ![r] = fam[t]]
    /\ Goto(r, "revoke")
    /\ UNCHANGED <<tokens, version, present, tv, ended>>

RevokeFamily(r) ==
    /\ pc[r] = "revoke"
    /\ revoked' = [t \in Tokens |-> revoked[t] \/ fam[t] = rfam[r]]
    /\ ended' = ended \cup {rfam[r]}
    /\ Goto(r, "done")
    /\ UNCHANGED <<fam, used, expired, parent, version, present, op, tok, rfam, tv>>

\* revokeAllForUser; resetPassword goes on when this statement fails.
RevokeAll(r, handler) ==
    /\ Begin(r, handler)
    /\ \/ /\ revoked' = [t \in Tokens |-> revoked[t] \/ Issued(t)]
          /\ ended' = ended \cup {fam[t] : t \in {u \in Tokens : Issued(u)}}
       \/ handler = "reset" /\ UNCHANGED <<revoked, ended>>
    /\ Goto(r, "bump")
    /\ UNCHANGED <<fam, used, expired, parent, version, present, tok, rfam, tv>>

LogoutAll(r) == RevokeAll(r, "logoutAll")

\* The one-time token was consumed and the new password stored.
ResetPassword(r) == RevokeAll(r, "reset")

\* bumpTokenVersion.
Bump(r) ==
    /\ pc[r] = "bump" /\ version < MaxVersion
    /\ version' = version + 1
    /\ Goto(r, "done")
    /\ UNCHANGED <<tokens, present, op, tok, rfam, tv, ended>>

\* The statement fails, the client goes away or the process dies.
Abort(r) ==
    /\ pc[r] \notin {"new", "done"}
    /\ Goto(r, "done")
    /\ UNCHANGED <<tokens, version, present, op, tok, rfam, tv, ended>>

Expire(t) ==
    /\ Issued(t) /\ ~expired[t]
    /\ expired' = [expired EXCEPT ![t] = TRUE]
    /\ UNCHANGED <<fam, used, revoked, parent, version, present, pc, op, tok, rfam, tv, ended>>

DeleteUser ==
    /\ present
    /\ present' = FALSE
    /\ UNCHANGED <<tokens, version, pc, op, tok, rfam, tv, ended>>

Handle(r) ==
    \/ Login(r)
    \/ \E t \in Tokens : Refresh(r, t) \/ Logout(r, t) \/ Issue(r, t)
    \/ Rotate(r) \/ Reload(r) \/ RevokeFamily(r)
    \/ LogoutAll(r) \/ ResetPassword(r) \/ Bump(r) \/ Abort(r)

Next ==
    \/ \E r \in Requests : Handle(r)
    \/ \E t \in Tokens : Expire(t)
    \/ DeleteUser

Spec == Init /\ [][Next]_vars

-----------------------------------------------------------------------------
Ops == {None, "login", "refresh", "logout", "logoutAll", "reset"}

TypeOK ==
    /\ fam \in [Tokens -> Requests \cup {None}]
    /\ used \in [Tokens -> BOOLEAN]
    /\ revoked \in [Tokens -> BOOLEAN]
    /\ expired \in [Tokens -> BOOLEAN]
    /\ version \in 0 .. MaxVersion
    /\ present \in BOOLEAN
    /\ pc \in [Requests -> {"new", "rotate", "reload", "issue", "revoke", "bump", "done"}]
    /\ op \in [Requests -> Ops]
    /\ tok \in [Requests -> Tokens \cup {None}]
    /\ rfam \in [Requests -> Requests \cup {None}]
    /\ tv \in [Requests -> 0 .. MaxVersion]
    /\ parent \in [Tokens -> Tokens \cup {None}]
    /\ ended \subseteq Requests
    /\ \A r \in Requests :
          pc[r] \in {"rotate", "reload", "issue", "revoke"} => rfam[r] \in Requests

\* A request that won the rotation (or a login) and will store the family's next token.
Carries(r, f) == pc[r] \in {"reload", "issue"} /\ rfam[r] = f

\* The session of family f can go on.
Alive(f) == (\E t \in Tokens : fam[t] = f /\ Live(t)) \/ (\E r \in Requests : Carries(r, f))

\* A session never forks: however refreshes of its tokens race, a family has at most one
\* token that can still be rotated.
OneLiveToken ==
    \A t, u \in Tokens : Live(t) /\ Live(u) /\ fam[t] = fam[u] => t = u

\* A refresh token is rotated into at most one successor.
RotatedOnce ==
    \A t, u \in Tokens : parent[t] = parent[u] /\ parent[t] # None => t = u

\* A session that has ended for good stays so: once a family has no live token and no
\* request about to store one, no refresh, however stale its SELECT, revives it.
NoRevival ==
    [][\A f \in Requests : pc[f] # "new" /\ ~Alive(f) => ~Alive(f)']_vars

\* Comment of rotateRefreshToken: when reuse is detected "the whole family is revoked so
\* neither party keeps a valid session".
EndedIsDead == \A t \in Tokens : fam[t] \in ended => ~Live(t)
=============================================================================

------------------------------ MODULE Accounts ------------------------------
(***************************************************************************)
(* The account endpoints of internal/auth: register, login with its        *)
(* throttle, me, password reset, email verification and OAuth sign-in      *)
(* (handler.go, throttle.go, recovery.go, oauth.go).                       *)
(*                                                                         *)
(* One email address and so at most one row of users: the unique index is  *)
(* on email.  Every SQL statement is a step; none runs in a transaction.   *)
(* A password is named by the request that chose it, a one-time token and  *)
(* a session by the request that issued it.  Refresh-token rotation is in  *)
(* module Sessions; here a session is one live family.                     *)
(***************************************************************************)
EXTENDS Integers, FiniteSets

CONSTANTS
    Requests,    \* HTTP requests; each runs one handler once
    Identities,  \* OAuth identities (provider, provider user id) with this email
    Kinds,       \* the handlers the requests of an instance may run
    Limit,       \* loginThrottle.perCred
    Window,      \* loginThrottle.window, in ticks
    Faults       \* whether statements may fail and clients go away

None == "none"
First == "first"        \* the password of an account that exists at the start

ASSUME AccountsAssumption ==
    /\ Limit \in Nat \ {0} /\ Window \in Nat \ {0}
    /\ Faults \in BOOLEAN
    /\ {None, First} \cap (Requests \cup Identities) = {}

VARIABLES
    returning,  \* setting: Dialect.SupportsReturning
    required,   \* setting: email_verification.required
    row,        \* the row of users
    ott,        \* one-time tokens: None, "live" or "used"
    stale,      \* one-time tokens past expires_at
    mailed,     \* one-time tokens whose email is in the outbox
    session,    \* None, "live" or "revoked"
    fails,      \* failWindow.count per throttle key, 0 when there is no entry
    age,        \* ticks since failWindow.start
    cooling,    \* resendGuard holds a time less than resendCooldown ago
    pc, op,     \* the step each request runs next, and its handler
    arg,        \* what it presented: a password, a token, a session, an identity
    snap,       \* the users row it loaded
    saw,        \* history: the tokens that existed when it voided the earlier ones
    spent,      \* history: the token it consumed
    late,       \* history: sign-ins in flight while a reset revoked the sessions
    missed      \* history: a reset went on although revoking the sessions failed

settings == <<returning, required>>
tokens == <<ott, stale, mailed, saw, spent>>
throttle == <<fails, age>>
history == <<late, missed>>
vars == <<settings, row, tokens, session, throttle, cooling, pc, op, arg, snap, history>>

Keys == {"cred", "ip"}
NoRow == [state |-> "absent", pw |-> None, verified |-> FALSE, link |-> None, version |-> 0]
Exists == row.state # "absent"
Found == row.state = "live"       \* findUserBy: deleted_at IS NULL
Loaded == IF Found THEN row ELSE NoRow

Init ==
    /\ returning \in BOOLEAN /\ required \in BOOLEAN
    /\ row \in {NoRow} \cup
         {[NoRow EXCEPT !.state = "live", !.pw = First, !.verified = v] : v \in BOOLEAN}
    /\ ott = [r \in Requests |-> None]
    /\ stale = {} /\ mailed = {}
    /\ session = [r \in Requests |-> None]
    /\ fails = [k \in Keys |-> 0] /\ age = [k \in Keys |-> 0]
    /\ cooling = FALSE
    /\ pc = [r \in Requests |-> "new"]
    /\ op = [r \in Requests |-> None]
    /\ arg = [r \in Requests |-> None]
    /\ snap = [r \in Requests |-> NoRow]
    /\ saw = [r \in Requests |-> {}]
    /\ spent = [r \in Requests |-> None]
    /\ late = {} /\ missed = FALSE

Goto(r, label) == pc' = [pc EXCEPT ![r] = label]
Begin(r, handler, a) ==
    /\ pc[r] = "new" /\ handler \in Kinds
    /\ op' = [op EXCEPT ![r] = handler]
    /\ arg' = [arg EXCEPT ![r] = a]
Load(r, u) == snap' = [snap EXCEPT ![r] = u]

-----------------------------------------------------------------------------
\* register: the body is valid and the password hashed; INSERT of the user.
Register(r) ==
    /\ Begin(r, "register", r)
    /\ Goto(r, "insert")
    /\ UNCHANGED <<settings, row, tokens, session, throttle, cooling, snap, history>>

\* The columns register sets; the body cannot set role, verification or links.
RegisteredUser(r) == [NoRow EXCEPT !.state = "live", !.pw = r]

\* The columns oauthResolveUser sets: no password, a verified email, the link.
OAuthUser(r) == [NoRow EXCEPT !.state = "live", !.verified = TRUE, !.link = arg[r].id]

Fresh(r) == IF op[r] = "register" THEN RegisteredUser(r) ELSE OAuthUser(r)

AfterInsert(r) == IF op[r] = "register" THEN "void" ELSE "session"

\* insertUser; a deleted row still owns its email.  On a unique violation register
\* answers 409 and OAuth looks the account up again.
Insert(r) ==
    /\ pc[r] = "insert"
    /\ IF Exists
       THEN /\ Goto(r, IF op[r] = "register" THEN "done" ELSE "fallback")
            /\ UNCHANGED <<row, snap>>
       ELSE /\ row' = Fresh(r)
            /\ Load(r, Fresh(r))
            /\ Goto(r, IF returning THEN AfterInsert(r) ELSE "reread")
    /\ UNCHANGED <<settings, tokens, session, throttle, cooling, op, arg, history>>

MutReread(r) ==
    /\ pc[r] = "reread"
    /\ Load(r, Loaded)
    /\ Goto(r, AfterInsert(r))
    /\ UNCHANGED <<settings, row, tokens, session, throttle, cooling, op, arg, history>>

\* insertUser without RETURNING: the row is read back by its credential.
Reread(r) ==
    /\ pc[r] = "reread"
    /\ Load(r, Loaded)
    /\ Goto(r, IF Found THEN AfterInsert(r) ELSE "done")
    /\ UNCHANGED <<settings, row, tokens, session, throttle, cooling, op, arg, history>>

-----------------------------------------------------------------------------
\* loginThrottle.live: an entry whose window is over is as good as deleted.
Open(k) == fails[k] > 0 /\ age[k] < Window

KeyLimit(k) == IF k = "cred" THEN Limit ELSE 4 * Limit
Blocked == \E k \in Keys : Open(k) /\ fails[k] >= KeyLimit(k)

\* login: the throttle is asked before the user is read.
Login(r, p) ==
    /\ Begin(r, "login", p)
    /\ p \in {row.pw, "wrong"} \ {None}
    /\ Goto(r, IF Blocked THEN "done" ELSE "find")
    /\ UNCHANGED <<settings, row, tokens, session, throttle, cooling, snap, history>>

Find(r) ==
    /\ pc[r] = "find"
    /\ Load(r, Loaded)
    /\ Goto(r, "compare")
    /\ UNCHANGED <<settings, row, tokens, session, throttle, cooling, op, arg, history>>

Matches(r) == snap[r].state = "live" /\ snap[r].pw = arg[r]

MutChargeSliding ==
    /\ fails' = [k \in Keys |-> IF Open(k) THEN fails[k] + 1 ELSE 1]
    /\ age' = [k \in Keys |-> 0]

\* throttle.fail on both keys; an entry whose window is over starts again.
Charge ==
    /\ fails' = [k \in Keys |-> IF Open(k) THEN fails[k] + 1 ELSE 1]
    /\ age' = [k \in Keys |-> IF Open(k) THEN age[k] ELSE 0]

\* bcrypt, then throttle.fail, or throttle.reset of the credential's key.
Compare(r) ==
    /\ pc[r] = "compare"
    /\ IF Matches(r)
       THEN /\ fails' = [fails EXCEPT !["cred"] = 0]
            /\ age' = [age EXCEPT !["cred"] = 0]
            /\ Goto(r, IF required /\ ~snap[r].verified THEN "done" ELSE "session")
       ELSE /\ Charge
            /\ Goto(r, "done")
    /\ UNCHANGED <<settings, row, tokens, session, cooling, op, arg, snap, history>>

\* respondWithSession / sessionPayload: an access token with the loaded token_version, and
\* the first refresh token of a new family.
Respond(r) ==
    /\ pc[r] = "session"
    /\ session' = [session EXCEPT ![r] = "live"]
    /\ Goto(r, "done")
    /\ UNCHANGED <<settings, row, tokens, throttle, cooling, op, arg, snap, history>>

-----------------------------------------------------------------------------
\* SubjectValidator (auth.revocation_check): the user is read again for every request.
Revalidated(s) == Found /\ snap[s].version = row.version

\* RequireAuth accepts the access token of session s; a token without a subject never.
Accepted(s) == session[s] # None /\ snap[s].state = "live" /\ Revalidated(s)

\* me reads the user again and answers.
Me(r, s) ==
    /\ Begin(r, "me", s) /\ Accepted(s)
    /\ Load(r, Loaded)
    /\ Goto(r, "done")
    /\ UNCHANGED <<settings, row, tokens, session, throttle, cooling, history>>

\* resendVerification: RequireAuth, then the cooldown.
Resend(r, s) ==
    /\ Begin(r, "resend", s) /\ Accepted(s)
    /\ Goto(r, IF cooling THEN "done" ELSE "resend")
    /\ UNCHANGED <<settings, row, tokens, session, throttle, cooling, snap, history>>

\* The user is read; unless it is verified by now the guard is set and a token issued.
ResendLoad(r) ==
    /\ pc[r] = "resend"
    /\ Load(r, Loaded)
    /\ IF Found /\ ~row.verified
       THEN cooling' = TRUE /\ Goto(r, "void")
       ELSE UNCHANGED cooling /\ Goto(r, "done")
    /\ UNCHANGED <<settings, row, tokens, session, throttle, op, arg, history>>

\* forgotPassword answers at once; startPasswordReset runs in the background.
Forgot(r) ==
    /\ Begin(r, "forgot", None)
    /\ Load(r, Loaded)
    /\ Goto(r, IF Found THEN "void" ELSE "done")
    /\ UNCHANGED <<settings, row, tokens, session, throttle, cooling, history>>

Purpose(t) == IF op[t] = "forgot" THEN "reset" ELSE "verify"
AfterMail(r) == IF op[r] = "register" THEN "session" ELSE "done"

MutVoided(r) == {t \in Requests : ott[t] = "live" /\ Purpose(t) = Purpose(r) /\ t \in stale}

\* The rows the first UPDATE of issueOneTimeToken marks used.
Voided(r) == {t \in Requests : ott[t] = "live" /\ Purpose(t) = Purpose(r)}

Void(r) ==
    /\ pc[r] = "void"
    /\ ott' = [t \in Requests |-> IF t \in Voided(r) THEN "used" ELSE ott[t]]
    /\ saw' = [saw EXCEPT ![r] = {t \in Requests : ott[t] # None}]
    /\ Goto(r, "store")
    /\ UNCHANGED <<settings, row, stale, mailed, spent, session, throttle, cooling, op, arg, snap, history>>

\* The INSERT of issueOneTimeToken.
Store(r) ==
    /\ pc[r] = "store"
    /\ ott' = [ott EXCEPT ![r] = "live"]
    /\ Goto(r, "mail")
    /\ UNCHANGED <<settings, row, stale, mailed, saw, spent, session, throttle, cooling, op, arg, snap, history>>

\* queueEmail.
Mail(r) ==
    /\ pc[r] = "mail"
    /\ mailed' = mailed \cup {r}
    /\ Goto(r, AfterMail(r))
    /\ UNCHANGED <<settings, row, ott, stale, saw, spent, session, throttle, cooling, op, arg, snap, history>>

\* A statement of issueOneTimeToken or queueEmail fails: it is logged and the handler goes on.
MailFails(r) ==
    /\ Faults
    /\ pc[r] \in {"void", "store", "mail"}
    /\ Goto(r, AfterMail(r))
    /\ UNCHANGED <<settings, row, tokens, session, throttle, cooling, op, arg, snap, history>>

-----------------------------------------------------------------------------
\* resetPassword and verifyEmail: the SELECT of consumeOneTimeToken.
Present(r, handler, t) ==
    /\ Begin(r, handler, t) /\ t \in mailed
    /\ Goto(r, IF /\ ott[t] = "live" /\ t \notin stale
                  /\ Purpose(t) = handler
               THEN "spend" ELSE "done")
    /\ UNCHANGED <<settings, row, tokens, session, throttle, cooling, snap, history>>

\* The WHERE clause of the UPDATE of consumeOneTimeToken.
Spendable(t) == ott[t] = "live"

Spend(r) ==
    /\ pc[r] = "spend"
    /\ IF Spendable(arg[r])
       THEN /\ ott' = [ott EXCEPT ![arg[r]] = "used"]
            /\ spent' = [spent EXCEPT ![r] = arg[r]]
            /\ Goto(r, op[r])
       ELSE UNCHANGED <<ott, spent>> /\ Goto(r, "done")
    /\ UNCHANGED <<settings, row, stale, mailed, saw, session, throttle, cooling, op, arg, snap, history>>

\* verifyEmail: UPDATE ... WHERE email_verified_at IS NULL.
Verify(r) ==
    /\ pc[r] = "verify"
    /\ row' = [row EXCEPT !.verified = TRUE]
    /\ Goto(r, "done")
    /\ UNCHANGED <<settings, tokens, session, throttle, cooling, op, arg, snap, history>>

\* resetPassword: the new hash; completing a reset proves control of the inbox.
SetPassword(r) ==
    /\ pc[r] = "reset"
    /\ row' = [row EXCEPT !.pw = r, !.verified = TRUE]
    /\ Goto(r, "revoke")
    /\ UNCHANGED <<settings, tokens, session, throttle, cooling, op, arg, snap, history>>

SigningIn(q) == op[q] \in {"login", "register", "oauth"} /\ pc[q] # "done"

MutRevokeAll(r) ==
    /\ pc[r] = "revoke"
    /\ session' = [q \in Requests |->
          IF session[q] = "live" /\ snap[q].verified THEN "revoked" ELSE session[q]]
    /\ late' = late \cup {q \in Requests : SigningIn(q)}
    /\ Goto(r, "bump")
    /\ UNCHANGED <<settings, row, tokens, throttle, cooling, op, arg, snap, missed>>

\* revokeAllForUser.
RevokeAll(r) ==
    /\ pc[r] = "revoke"
    /\ session' = [q \in Requests |-> IF session[q] = "live" THEN "revoked" ELSE session[q]]
    /\ late' = late \cup {q \in Requests : SigningIn(q)}
    /\ Goto(r, "bump")
    /\ UNCHANGED <<settings, row, tokens, throttle, cooling, op, arg, snap, missed>>

\* bumpTokenVersion.
Bump(r) ==
    /\ pc[r] = "bump"
    /\ row' = [row EXCEPT !.version = @ + 1]
    /\ Goto(r, "done")
    /\ UNCHANGED <<settings, tokens, session, throttle, cooling, op, arg, snap, history>>

\* Either of the two fails: the error is dropped.
RevokeFails(r) ==
    /\ Faults
    /\ pc[r] \in {"revoke", "bump"}
    /\ Goto(r, IF pc[r] = "revoke" THEN "bump" ELSE "done")
    /\ missed' = (missed \/ pc[r] = "revoke")
    /\ UNCHANGED <<settings, row, tokens, session, throttle, cooling, op, arg, snap, late>>

-----------------------------------------------------------------------------
\* fetchIdentity: the provider says who signed in and whether the email is verified
\* (trust_email, the userinfo field, GitHub's primary address), or one of the calls to it fails.
FetchIdentity(x) == {[id |-> x, verified |-> v] : v \in BOOLEAN} \cup {[id |-> None, verified |-> FALSE]}

\* oauthCallback: the state matched the cookie, the code is exchanged for an identity.
Callback(r, x) ==
    \E ident \in FetchIdentity(x) :
        /\ Begin(r, "oauth", ident)
        /\ Goto(r, IF ident.id # None THEN "byLink" ELSE "done")
        /\ UNCHANGED <<settings, row, tokens, session, throttle, cooling, snap, history>>

\* oauthResolveUser: the account linked to x; else only a verified email goes on.
ByLink(r) ==
    /\ pc[r] = "byLink"
    /\ IF Found /\ row.link = arg[r].id
       THEN Load(r, row) /\ Goto(r, "session")
       ELSE UNCHANGED snap /\ Goto(r, IF arg[r].verified THEN "byEmail" ELSE "done")
    /\ UNCHANGED <<settings, row, tokens, session, throttle, cooling, op, arg, history>>

ByEmail(r) ==
    /\ pc[r] = "byEmail"
    /\ Load(r, Loaded)
    /\ Goto(r, CASE ~Found -> "insert"
                 [] Found /\ row.link = None -> "link"
                 [] Found /\ row.link # None -> "session")
    /\ UNCHANGED <<settings, row, tokens, session, throttle, cooling, op, arg, history>>

\* UPDATE by primary key; the loaded row goes into the session.
Link(r) ==
    /\ pc[r] = "link"
    /\ row' = [row EXCEPT !.link = arg[r].id]
    /\ Goto(r, "session")
    /\ UNCHANGED <<settings, tokens, session, throttle, cooling, op, arg, snap, history>>

\* The insert lost a race: whatever findUserBy returns is signed in.
Fallback(r) ==
    /\ pc[r] = "fallback"
    /\ Load(r, Loaded)
    /\ Goto(r, "session")
    /\ UNCHANGED <<settings, row, tokens, session, throttle, cooling, op, arg, history>>

-----------------------------------------------------------------------------
\* A statement fails in a handler that gives up, the client goes away or the process dies.
Abort(r) ==
    /\ Faults
    /\ pc[r] \notin {"new", "done"}
    /\ Goto(r, "done")
    /\ missed' = (missed \/ pc[r] = "revoke")
    /\ UNCHANGED <<settings, row, tokens, session, throttle, cooling, op, arg, snap, late>>

\* DELETE of the user through the entity API: a soft delete.
DeleteUser ==
    /\ "delete" \in Kinds /\ Found
    /\ row' = [row EXCEPT !.state = "deleted"]
    /\ UNCHANGED <<settings, tokens, session, throttle, cooling, pc, op, arg, snap, history>>

Expire(t) ==
    /\ ott[t] = "live" /\ t \notin stale
    /\ stale' = stale \cup {t}
    /\ UNCHANGED <<settings, row, ott, mailed, saw, spent, session, throttle, cooling, pc, op, arg, snap, history>>

Tick ==
    /\ \E k \in Keys : Open(k)
    /\ age' = [k \in Keys |-> IF Open(k) THEN age[k] + 1 ELSE age[k]]
    /\ UNCHANGED <<settings, row, tokens, session, fails, cooling, pc, op, arg, snap, history>>

Cool ==
    /\ cooling
    /\ cooling' = FALSE
    /\ UNCHANGED <<settings, row, tokens, session, throttle, pc, op, arg, snap, history>>

Handle(r) ==
    \/ Register(r) \/ Insert(r) \/ Reread(r)
    \/ \E p \in {row.pw, "wrong"} : Login(r, p)
    \/ Find(r) \/ Compare(r) \/ Respond(r)
    \/ \E s \in Requests : Me(r, s) \/ Resend(r, s) \/ Present(r, "reset", s) \/ Present(r, "verify", s)
    \/ ResendLoad(r) \/ Forgot(r) \/ Void(r) \/ Store(r) \/ Mail(r) \/ MailFails(r)
    \/ Spend(r) \/ Verify(r) \/ SetPassword(r) \/ RevokeAll(r) \/ Bump(r) \/ RevokeFails(r)
    \/ \E x \in Identities : Callback(r, x)
    \/ ByLink(r) \/ ByEmail(r) \/ Link(r) \/ Fallback(r)
    \/ Abort(r)

Next ==
    \/ \E r \in Requests : Handle(r)
    \/ DeleteUser \/ Tick \/ Cool
    \/ \E t \in Requests : Expire(t)

Spec == Init /\ [][Next]_vars

-----------------------------------------------------------------------------
Places == {"new", "insert", "reread", "find", "compare", "session", "resend", "void", "store",
           "mail", "spend", "verify", "reset", "revoke", "bump", "byLink", "byEmail", "link",
           "fallback", "done"}
Passwords == Requests \cup {None, First}
Row == [state : {"absent", "live", "deleted"}, pw : Passwords, verified : BOOLEAN,
        link : Identities \cup {None}, version : Nat]

\* Types; only register, resend and forgot issue one-time tokens.
TypeOK ==
    /\ row \in Row /\ snap \in [Requests -> Row]
    /\ ott \in [Requests -> {None, "live", "used"}]
    /\ stale \subseteq Requests /\ mailed \subseteq Requests
    /\ session \in [Requests -> {None, "live", "revoked"}]
    /\ fails \in [Keys -> Nat] /\ age \in [Keys -> 0 .. Window]
    /\ pc \in [Requests -> Places]
    /\ spent \in [Requests -> Requests \cup {None}]
    /\ \A r \in Requests : ott[r] # None => op[r] \in {"register", "resend", "forgot"}

\* However its uses race, a one-time token resets or verifies once: consumeOneTimeToken
\* reads and then marks it in two statements.
SpentOnce == \A r, q \in Requests : spent[r] = spent[q] /\ spent[r] # None => r = q

\* A new one-time token voids the earlier ones of its purpose.  Two are live together only
\* if each was stored after the other's UPDATE had run (issueOneTimeToken, two statements).
LiveTokensRaced ==
    \A t, u \in Requests :
        ott[t] = "live" /\ ott[u] = "live" /\ Purpose(t) = Purpose(u) /\ t # u
        => t \notin saw[u] /\ u \notin saw[t]

\* The one-time tokens of recovery.go: spent once, and voided by newer ones unless they raced.
OneTime == SpentOnce /\ LiveTokensRaced

Password(r) == IF op[r] \in {"login", "register"} THEN arg[r] ELSE None
OldPassword(r) == session[r] = "live" /\ Password(r) \notin {None, row.pw}
Resetting == \E q \in Requests : pc[q] = "revoke"

\* Once resetPassword has revoked the sessions, none that was opened with an earlier
\* password goes on, unless that sign-in was still running meanwhile.
OldPasswordOut ==
    \A r \in Requests : OldPassword(r) => Resetting \/ missed \/ r \in late

\* A session belongs to an account.  The exception is an OAuth sign-in that finds its email
\* taken by a deleted account.
SessionHasUser ==
    \A r \in Requests : session[r] # None /\ snap[r].state # "live" =>
        op[r] = "oauth" /\ row.state = "deleted"

Locked(k) == Open(k) /\ fails[k] >= KeyLimit(k)

\* A lockout is not prolonged: failures that were under way when it began do not move the
\* start of its window.
LockoutRunsOut ==
    [][\A k \in Keys : Locked(k) /\ Locked(k)' => age'[k] >= age[k]]_vars
=============================================================================

--------------------------- MODULE AccountsProofs ---------------------------
(***************************************************************************)
(* Proofs about module Accounts, for any numbers of requests and           *)
(* identities, any handlers, limits and windows, with or without faults:   *)
(* one-time tokens are spent once, a password reset ends the sessions of   *)
(* the old password, a session belongs to an account, and a lockout is not *)
(* prolonged.                                                              *)
(***************************************************************************)
EXTENDS Accounts, TLAPS

Handlers == {"register", "login", "me", "resend", "forgot", "reset", "verify", "oauth"}
Idents == [id : Identities \cup {None}, verified : BOOLEAN]

\* The types of all variables.
Types ==
    /\ TypeOK
    /\ returning \in BOOLEAN /\ required \in BOOLEAN
    /\ op \in [Requests -> Handlers \cup {None}]
    /\ arg \in [Requests -> Passwords \cup {"wrong"} \cup Idents]
    /\ saw \in [Requests -> SUBSET Requests]
    /\ late \subseteq Requests /\ missed \in BOOLEAN

\* Which handler runs which step, and what it was called with.
Placed(r) ==
    /\ pc[r] \in {"find", "compare"} => op[r] = "login"
    /\ pc[r] \in {"insert", "reread"} => op[r] \in {"register", "oauth"}
    /\ pc[r] \in {"byLink", "byEmail", "link", "fallback"} => op[r] = "oauth"
    /\ pc[r] \in {"void", "store", "mail"} => op[r] \in {"register", "resend", "forgot"}
    /\ pc[r] = "session" => op[r] \in {"login", "register", "oauth"}
    /\ pc[r] = "resend" => op[r] = "resend"
    /\ pc[r] = "spend" => op[r] \in {"reset", "verify"}
    /\ op[r] = "register" => arg[r] = r
    /\ op[r] \in {"reset", "verify"} => arg[r] \in Requests
    /\ op[r] = "oauth" => arg[r] \in Idents
    /\ op[r] = "oauth" /\ pc[r] # "done" => arg[r].id \in Identities

Control == \A r \in Requests : Placed(r)

\* A request issues its token once, a consumed token is used, and so is every
\* one of its purpose that a request saw when it voided the earlier ones.
TokenOf(r) ==
    /\ ott[r] # None => pc[r] \in {"mail", "session", "done"}
    /\ spent[r] # None => pc[r] \notin {"new", "spend"} /\ ott[spent[r]] = "used"
    /\ saw[r] # {} => pc[r] # "new"
    /\ \A t \in saw[r] : ott[t] # None /\ (Purpose(t) = Purpose(r) => ott[t] = "used")

Tokens == (\A r \in Requests : TokenOf(r)) /\ SpentOnce

\* A request that opens a session has loaded a user, who was there from then on.
UserOf(r) ==
    /\ session[r] # None => pc[r] = "done" /\ op[r] \in {"login", "register", "oauth"}
    /\ pc[r] = "session" \/ session[r] # None =>
         snap[r].state = "live" \/ (op[r] = "oauth" /\ row.state = "deleted")
    /\ op[r] = "register" /\ pc[r] \in {"void", "store", "mail"} => snap[r].state = "live"
    /\ pc[r] = "link" => snap[r].state = "live"
    /\ pc[r] \in {"reread", "fallback"} \/ snap[r].state # "absent" => Exists

Users == \A r \in Requests : UserOf(r)

\* A request has proved, or set, the password it came with.
Proved(r) ==
    \/ /\ op[r] = "login"
       /\ (pc[r] = "compare" /\ Matches(r)) \/ pc[r] = "session" \/ session[r] = "live"
    \/ /\ op[r] = "register"
       /\ pc[r] \in {"reread", "void", "store", "mail", "session"} \/ session[r] = "live"

\* Why a session may go on with another password than the present one.
Excused(r) == Resetting \/ missed \/ r \in late

Current == \A r \in Requests : Proved(r) => arg[r] = row.pw \/ Excused(r)

IInv == Types /\ Control /\ Tokens /\ Users /\ Current

\* The identity a provider answers with, or none.
LEMMA Answers ==
  ASSUME NEW x \in Identities, NEW i \in FetchIdentity(x)
  PROVE  i \in Idents /\ (i.id # None => i.id \in Identities)
  <1>1. ASSUME NEW v \in BOOLEAN, i = [id |-> x, verified |-> v]
        PROVE  i \in Idents /\ i.id \in Identities
    BY <1>1 DEF Idents
  <1>2. CASE i = [id |-> None, verified |-> FALSE]
    BY <1>2 DEF Idents
  <1> QED
    BY <1>1, <1>2 DEF FetchIdentity

-----------------------------------------------------------------------------
\* The initial states.
LEMMA InitIInv == Init => IInv
  <1> SUFFICES ASSUME Init PROVE IInv
    OBVIOUS
  <1>1. \A r \in Requests : /\ pc[r] = "new" /\ op[r] = None /\ arg[r] = None /\ snap[r] = NoRow
                            /\ ott[r] = None /\ session[r] = None /\ spent[r] = None /\ saw[r] = {}
    BY DEF Init
  <1>2. NoRow \in Row
    BY DEF NoRow, Row, Passwords
  <1>3. row \in Row
    <2>1. CASE row = NoRow
      BY <2>1, <1>2
    <2>2. ASSUME NEW v \in BOOLEAN,
                 row = [[[NoRow EXCEPT !.state = "live"] EXCEPT !.pw = First] EXCEPT !.verified = v]
          PROVE  row \in Row
      BY <2>2 DEF Row, Passwords, NoRow
    <2> QED
      BY <2>1, <2>2 DEF Init
  <1>4. Types
    <2>1. snap \in [Requests -> Row] /\ pc \in [Requests -> Places]
      BY <1>2 DEF Init, Places
    <2>2. fails \in [Keys -> Nat] /\ age \in [Keys -> 0 .. Window]
      <3>1. fails = [k \in Keys |-> 0] /\ age = [k \in Keys |-> 0]
        BY DEF Init
      <3>2. 0 \in 0 .. Window
        BY AccountsAssumption
      <3> QED
        BY <3>1, <3>2
    <2>3. /\ ott \in [Requests -> {None, "live", "used"}]
          /\ session \in [Requests -> {None, "live", "revoked"}]
          /\ spent \in [Requests -> Requests \cup {None}]
          /\ op \in [Requests -> Handlers \cup {None}]
          /\ arg \in [Requests -> Passwords \cup {"wrong"} \cup Idents]
          /\ saw \in [Requests -> SUBSET Requests]
      BY DEF Init, Passwords
    <2>4. /\ stale \subseteq Requests /\ mailed \subseteq Requests
          /\ late \subseteq Requests /\ missed \in BOOLEAN
          /\ returning \in BOOLEAN /\ required \in BOOLEAN
      BY DEF Init
    <2> QED
      BY <1>1, <1>3, <2>1, <2>2, <2>3, <2>4 DEF Types, TypeOK
  <1>5. Control
    BY <1>1 DEF Control, Placed, None
  <1>6. Tokens
    BY <1>1 DEF Tokens, TokenOf, SpentOnce
  <1>7. Users
    BY <1>1 DEF Users, UserOf, NoRow
  <1>8. Current
    BY <1>1 DEF Current, Proved, None
  <1> QED
    BY <1>4, <1>5, <1>6, <1>7, <1>8 DEF IInv

\* Every step keeps the types.
LEMMA StepTypes ==
  ASSUME Types, Control, Tokens, [Next]_vars
  PROVE  Types'
  <1>1. ASSUME NEW r \in Requests, Register(r)
       PROVE  Types'
    BY <1>1
       DEF Types, TypeOK, settings, tokens, throttle, history, Register, Begin, Goto, Handlers,
          Places, Passwords
  <1>2. ASSUME NEW r \in Requests, Insert(r)
       PROVE  Types'
    <2>1. Fresh(r) \in Row
      BY <1>2
         DEF Insert, Control, Placed, Fresh, RegisteredUser, OAuthUser, NoRow, Row, Passwords,
            Types, TypeOK
    <2> QED
      BY <1>2, <2>1
         DEF Types, TypeOK, settings, tokens, throttle, history, Insert, Goto, Load,
            AfterInsert, Places
  <1>3. ASSUME NEW r \in Requests, Reread(r) \/ Find(r) \/ Fallback(r)
       PROVE  Types'
    <2>1. Loaded \in Row
      BY
         DEF Types, TypeOK, Loaded, NoRow, Row, Passwords
    <2> QED
      BY <1>3, <2>1
         DEF Types, TypeOK, settings, tokens, throttle, history, Reread, Find, Fallback, Goto,
            Load, AfterInsert, Places
  <1>4. ASSUME NEW r \in Requests, NEW p \in {row.pw, "wrong"}, Login(r, p)
       PROVE  Types'
    <2>1. ott[r] = None
      BY <1>4
         DEF Login, Begin, Tokens, TokenOf
    <2> QED
      BY <1>4, <2>1
         DEF Types, TypeOK, settings, tokens, throttle, history, Login, Begin, Goto, Handlers,
            Places, Row
  <1>5. ASSUME NEW r \in Requests, Compare(r)
       PROVE  Types'
    BY <1>5, AccountsAssumption
       DEF Types, TypeOK, settings, tokens, throttle, history, Compare, Charge, Keys, Open,
          Goto, Places
  <1>6. ASSUME NEW r \in Requests, Respond(r)
       PROVE  Types'
    BY <1>6
       DEF Types, TypeOK, settings, tokens, throttle, history, Respond, Goto, Places
  <1>7. ASSUME NEW r \in Requests, NEW s \in Requests, Me(r, s) \/ Forgot(r)
       PROVE  Types'
    <2>1. Loaded \in Row
      BY DEF Types, TypeOK, Loaded, NoRow, Row, Passwords
    <2>2. ott[r] = None
      BY <1>7 DEF Me, Forgot, Begin, Tokens, TokenOf
    <2> QED
      BY <1>7, <2>1, <2>2
         DEF Types, TypeOK, settings, tokens, throttle, history, Me, Forgot, Begin, Goto, Load,
            Handlers, Places, Passwords
  <1>8. ASSUME NEW r \in Requests, NEW s \in Requests, NEW h \in {"reset", "verify"},
                Resend(r, s) \/ Present(r, h, s)
       PROVE  Types'
    <2>1. ott[r] = None
      BY <1>8
         DEF Resend, Present, Begin, Tokens, TokenOf
    <2> QED
      BY <1>8, <2>1
         DEF Types, TypeOK, settings, tokens, throttle, history, Resend, Present, Begin, Goto,
            Handlers, Places, Passwords
  <1>9. ASSUME NEW r \in Requests, ResendLoad(r) \/ ByEmail(r)
       PROVE  Types'
    <2>1. Loaded \in Row
      BY
         DEF Types, TypeOK, Loaded, NoRow, Row, Passwords
    <2> QED
      BY <1>9, <2>1
         DEF Types, TypeOK, settings, tokens, throttle, history, ResendLoad, ByEmail, Goto,
            Load, Places
  <1>10. ASSUME NEW r \in Requests, Void(r)
       PROVE  Types'
    BY <1>10
       DEF Types, TypeOK, settings, tokens, throttle, history, Void, Voided, None, Goto, Places
  <1>11. ASSUME NEW r \in Requests, Mail(r) \/ MailFails(r)
       PROVE  Types'
    BY <1>11
       DEF Types, TypeOK, settings, tokens, throttle, history, Mail, MailFails, AfterMail,
          Goto, Places
  <1>12. ASSUME NEW r \in Requests, Store(r)
       PROVE  Types'
    BY <1>12
       DEF Types, TypeOK, settings, tokens, throttle, history, Store, Control, Placed, Goto,
          Places
  <1>13. ASSUME NEW r \in Requests, Spend(r)
       PROVE  Types'
    BY <1>13
       DEF Types, TypeOK, settings, tokens, throttle, history, Spend, Spendable, None, Control,
          Placed, Goto, Places
  <1>14. ASSUME NEW r \in Requests, Verify(r) \/ SetPassword(r)
       PROVE  Types'
    <2>1. row' \in Row
      BY ZenonT(60), <1>14
         DEF Types, TypeOK, Verify, SetPassword, Row, Passwords
    <2> QED
      BY <1>14, <2>1
         DEF Types, TypeOK, settings, tokens, throttle, history, Verify, SetPassword, Goto,
            Places
  <1>15. ASSUME NEW r \in Requests, Bump(r)
       PROVE  Types'
    <2>1. row' \in Row
      BY <1>15
         DEF Types, TypeOK, Bump, Row, Passwords
    <2> QED
      BY <1>15, <2>1
         DEF Types, TypeOK, settings, tokens, throttle, history, Bump, Goto, Places
  <1>16. ASSUME NEW r \in Requests, Link(r)
       PROVE  Types'
    <2>1. row' \in Row
      BY <1>16
         DEF Types, TypeOK, Link, Control, Placed, Row, Passwords
    <2> QED
      BY <1>16, <2>1
         DEF Types, TypeOK, settings, tokens, throttle, history, Link, Goto, Places
  <1>17. ASSUME NEW r \in Requests, RevokeAll(r)
       PROVE  Types'
    BY <1>17
       DEF Types, TypeOK, settings, tokens, throttle, history, RevokeAll, Goto, Places
  <1>18. ASSUME NEW r \in Requests, RevokeFails(r) \/ Abort(r)
       PROVE  Types'
    <2>1. missed' \in BOOLEAN
      BY <1>18
         DEF Types, RevokeFails, Abort
    <2> QED
      BY <1>18, <2>1
         DEF Types, TypeOK, settings, tokens, throttle, history, RevokeFails, Abort, Goto,
            Places
  <1>19. ASSUME NEW r \in Requests, NEW x \in Identities, Callback(r, x)
       PROVE  Types'
    <2>1. ott[r] = None
      BY <1>19 DEF Callback, Begin, Tokens, TokenOf
    <2>2. PICK i \in Idents : Begin(r, "oauth", i) /\ pc' \in [Requests -> Places]
      <3>1. PICK i \in FetchIdentity(x) :
                /\ Begin(r, "oauth", i)
                /\ Goto(r, IF i.id # None THEN "byLink" ELSE "done")
        BY <1>19 DEF Callback
      <3>2. i \in Idents
        BY <3>1, Answers
      <3> QED
        BY <3>1, <3>2 DEF Types, TypeOK, Goto, Places
    <2>3. UNCHANGED <<settings, row, tokens, session, throttle, cooling, snap, history>>
      BY <1>19 DEF Callback
    <2> QED
      BY <2>1, <2>2, <2>3
         DEF Types, TypeOK, settings, tokens, throttle, history, Begin, Handlers
  <1>20. ASSUME NEW r \in Requests, ByLink(r)
       PROVE  Types'
    BY <1>20
       DEF Types, TypeOK, settings, tokens, throttle, history, ByLink, Goto, Load, Places
  <1>21. ASSUME DeleteUser
       PROVE  Types'
    <2>1. row' \in Row
      BY <1>21
         DEF Types, TypeOK, DeleteUser, Row
    <2> QED
      BY <1>21, <2>1
         DEF Types, TypeOK, settings, tokens, throttle, history, DeleteUser
  <1>22. ASSUME NEW t \in Requests, Expire(t)
       PROVE  Types'
    BY <1>22
       DEF Types, TypeOK, settings, tokens, throttle, history, Expire
  <1>23. ASSUME Cool
       PROVE  Types'
    BY <1>23
       DEF Types, TypeOK, settings, tokens, throttle, history, Cool
  <1>24. ASSUME Tick
       PROVE  Types'
    BY <1>24, AccountsAssumption
       DEF Types, TypeOK, settings, tokens, throttle, history, Tick, Keys, Open
  <1>25. CASE UNCHANGED vars
    BY <1>25
       DEF vars, Types, TypeOK, settings, tokens, throttle, history
  <1> QED
    BY <1>1, <1>2, <1>3, <1>4, <1>5, <1>6, <1>7, <1>8, <1>9, <1>10, <1>11, <1>12, <1>13, <1>14,
       <1>15, <1>16, <1>17, <1>18, <1>19, <1>20, <1>21, <1>22, <1>23, <1>24, <1>25 DEF Next, Handle

\* Every step is followed by one its handler runs next.
LEMMA StepControl ==
  ASSUME Types, Control, [Next]_vars
  PROVE  Control'
  <1>1. ASSUME NEW r \in Requests, Register(r)
       PROVE  Control'
    BY <1>1
       DEF Types, TypeOK, Control, Placed, Register, Begin, Goto, None
  <1>2. ASSUME NEW r \in Requests, Insert(r)
       PROVE  Control'
    BY <1>2
       DEF Types, TypeOK, Control, Placed, Insert, Goto, AfterInsert
  <1>3. ASSUME NEW r \in Requests, Reread(r)
       PROVE  Control'
    BY <1>3
       DEF Types, TypeOK, Control, Placed, Reread, Goto, AfterInsert
  <1>4. ASSUME NEW r \in Requests, NEW p \in {row.pw, "wrong"}, Login(r, p)
       PROVE  Control'
    BY <1>4
       DEF Types, TypeOK, Control, Placed, Login, Begin, Goto, None
  <1>5. ASSUME NEW r \in Requests, Find(r) \/ Compare(r) \/ Respond(r)
       PROVE  Control'
    BY <1>5
       DEF Types, TypeOK, Control, Placed, Find, Compare, Respond, Goto
  <1>6. ASSUME NEW r \in Requests, NEW s \in Requests, Me(r, s) \/ Forgot(r) \/ Resend(r, s)
       PROVE  Control'
    BY <1>6
       DEF Types, TypeOK, Control, Placed, Me, Forgot, Resend, Begin, Goto
  <1>7. ASSUME NEW r \in Requests, NEW h \in {"reset", "verify"}, NEW s \in Requests,
                Present(r, h, s)
       PROVE  Control'
    BY <1>7
       DEF Types, TypeOK, Control, Placed, Present, Begin, Goto
  <1>8. ASSUME NEW r \in Requests, ResendLoad(r) \/ Void(r) \/ Store(r)
       PROVE  Control'
    BY <1>8
       DEF Types, TypeOK, Control, Placed, ResendLoad, Void, Store, Goto
  <1>9. ASSUME NEW r \in Requests, Mail(r) \/ MailFails(r)
       PROVE  Control'
    BY <1>9
       DEF Types, TypeOK, Control, Placed, Mail, MailFails, AfterMail, Goto
  <1>10. ASSUME NEW r \in Requests, Spend(r)
       PROVE  Control'
    BY <1>10
       DEF Types, TypeOK, Control, Placed, Spend, Goto
  <1>11. ASSUME NEW r \in Requests, Verify(r) \/ SetPassword(r) \/ RevokeAll(r) \/ Bump(r)
       PROVE  Control'
    BY <1>11
       DEF Types, TypeOK, Control, Placed, Verify, SetPassword, RevokeAll, Bump, Goto
  <1>12. ASSUME NEW r \in Requests, RevokeFails(r) \/ Abort(r)
       PROVE  Control'
    BY <1>12
       DEF Types, TypeOK, Control, Placed, RevokeFails, Abort, Goto
  <1>13. ASSUME NEW r \in Requests, NEW x \in Identities, Callback(r, x)
       PROVE  Control'
    <2>1. PICK i \in FetchIdentity(x) :
              /\ Begin(r, "oauth", i)
              /\ Goto(r, IF i.id # None THEN "byLink" ELSE "done")
      BY <1>13 DEF Callback
    <2>2. i \in Idents /\ (i.id # None => i.id \in Identities)
      BY <2>1, Answers
    <2> QED
      BY <2>1, <2>2 DEF Types, TypeOK, Control, Placed, Begin, Goto
  <1>14. ASSUME NEW r \in Requests, ByLink(r) \/ ByEmail(r)
       PROVE  Control'
    BY <1>14
       DEF Types, TypeOK, Control, Placed, ByLink, ByEmail, Goto
  <1>15. ASSUME NEW r \in Requests, Link(r) \/ Fallback(r)
       PROVE  Control'
    BY <1>15
       DEF Types, TypeOK, Control, Placed, Link, Fallback, Goto
  <1>16. ASSUME DeleteUser
       PROVE  Control'
    BY <1>16
       DEF Types, TypeOK, Control, Placed, DeleteUser
  <1>17. ASSUME NEW t \in Requests, Expire(t)
       PROVE  Control'
    BY <1>17
       DEF Types, TypeOK, Control, Placed, Expire
  <1>18. ASSUME Cool \/ Tick
       PROVE  Control'
    BY <1>18
       DEF Types, TypeOK, Control, Placed, Cool, Tick
  <1>19. CASE UNCHANGED vars
    BY <1>19
       DEF vars, Control, Placed
  <1> QED
    BY <1>1, <1>2, <1>3, <1>4, <1>5, <1>6, <1>7, <1>8, <1>9, <1>10, <1>11, <1>12, <1>13, <1>14,
       <1>15, <1>16, <1>17, <1>18, <1>19 DEF Next, Handle

\* A request that begins has no token yet.
LEMMA BegunTokens ==
  ASSUME Types, Tokens, NEW r \in Requests, pc[r] = "new", pc'[r] # "new", UNCHANGED tokens,
         \A q \in Requests \ {r} : op'[q] = op[q] /\ pc'[q] = pc[q]
  PROVE  Tokens'
  <1>1. ott[r] = None /\ spent[r] = None /\ saw[r] = {}
    BY DEF Tokens, TokenOf
  <1>2. ASSUME NEW q \in Requests PROVE TokenOf(q)'
    <2>1. \A t \in saw[q] : t # r /\ q # r
      BY <1>1 DEF Tokens, TokenOf
    <2>2. \A t \in saw[q] : (Purpose(t) = Purpose(q))' => Purpose(t) = Purpose(q)
      BY <2>1 DEF Purpose, Types
    <2> QED
      BY <1>1, <2>2 DEF Tokens, TokenOf, tokens, Types, TypeOK
  <1> QED
    BY <1>2 DEF Tokens, SpentOnce, tokens

\* A step of a request, or a token that expires, keeps what is known of the tokens.
LEMMA StepTokens ==
  ASSUME Types, Control, Tokens, [Next]_vars
  PROVE  Tokens'
  <1>1. ASSUME NEW r \in Requests, Register(r)
       PROVE  Tokens'
    <2>1. pc[r] = "new" /\ UNCHANGED tokens
      BY <1>1
         DEF Register, Begin
    <2>2. \A q \in Requests \ {r} : op'[q] = op[q] /\ pc'[q] = pc[q]
      BY <1>1
         DEF Register, Begin, Goto, Types, TypeOK
    <2>3. pc'[r] # "new"
      BY <1>1
         DEF Register, Goto, Types, TypeOK
    <2> QED
      BY <2>1, <2>2, <2>3, BegunTokens
  <1>2. ASSUME NEW r \in Requests, NEW p \in {row.pw, "wrong"}, Login(r, p)
       PROVE  Tokens'
    <2>1. pc[r] = "new" /\ UNCHANGED tokens
      BY <1>2
         DEF Login, Begin
    <2>2. \A q \in Requests \ {r} : op'[q] = op[q] /\ pc'[q] = pc[q]
      BY <1>2
         DEF Login, Begin, Goto, Types, TypeOK
    <2>3. pc'[r] # "new"
      BY <1>2
         DEF Login, Goto, Types, TypeOK
    <2> QED
      BY <2>1, <2>2, <2>3, BegunTokens
  <1>3. ASSUME NEW r \in Requests, NEW s \in Requests, Me(r, s) \/ Resend(r, s) \/ Forgot(r)
       PROVE  Tokens'
    <2>1. pc[r] = "new" /\ UNCHANGED tokens
      BY <1>3
         DEF Me, Resend, Forgot, Begin
    <2>2. \A q \in Requests \ {r} : op'[q] = op[q] /\ pc'[q] = pc[q]
      BY <1>3
         DEF Me, Resend, Forgot, Begin, Goto, Types, TypeOK
    <2>3. pc'[r] # "new"
      BY <1>3
         DEF Me, Resend, Forgot, Goto, Types, TypeOK
    <2> QED
      BY <2>1, <2>2, <2>3, BegunTokens
  <1>4. ASSUME NEW r \in Requests, NEW h \in {"reset", "verify"}, NEW s \in Requests,
                Present(r, h, s)
       PROVE  Tokens'
    <2>1. pc[r] = "new" /\ UNCHANGED tokens
      BY <1>4
         DEF Present, Begin
    <2>2. \A q \in Requests \ {r} : op'[q] = op[q] /\ pc'[q] = pc[q]
      BY <1>4
         DEF Present, Begin, Goto, Types, TypeOK
    <2>3. pc'[r] # "new"
      BY <1>4
         DEF Present, Goto, Types, TypeOK
    <2> QED
      BY <2>1, <2>2, <2>3, BegunTokens
  <1>5. ASSUME NEW r \in Requests, NEW x \in Identities, Callback(r, x)
       PROVE  Tokens'
    <2>1. pc[r] = "new" /\ UNCHANGED tokens
      BY <1>5
         DEF Callback, Begin
    <2>2. \A q \in Requests \ {r} : op'[q] = op[q] /\ pc'[q] = pc[q]
      BY <1>5
         DEF Callback, Begin, Goto, Types, TypeOK
    <2>3. pc'[r] # "new"
      BY <1>5
         DEF Callback, Goto, Types, TypeOK
    <2> QED
      BY <2>1, <2>2, <2>3, BegunTokens
  <1>6. ASSUME NEW r \in Requests, Insert(r) \/ Reread(r) \/ Find(r)
       PROVE  Tokens'
    BY SMTT(60), <1>6
       DEF Types, TypeOK, Tokens, TokenOf, SpentOnce, tokens, Insert, Reread, Find, Goto,
          Purpose, AfterInsert
  <1>7. ASSUME NEW r \in Requests, Compare(r) \/ Respond(r) \/ ResendLoad(r)
       PROVE  Tokens'
    BY <1>7
       DEF Types, TypeOK, Tokens, TokenOf, SpentOnce, tokens, Compare, Respond, ResendLoad,
          Goto, Purpose
  <1>8. ASSUME NEW r \in Requests, Void(r)
       PROVE  Tokens'
    <2>1. saw' = [saw EXCEPT ![r] = {t \in Requests : ott[t] # None}] /\ spent' = spent /\ op' = op
      BY <1>8 DEF Void
    <2>2. \A t \in Requests : /\ ott[t] = None => ott'[t] = None
                              /\ ott[t] = "used" => ott'[t] = "used"
                              /\ ott[t] # None => ott'[t] # None
                              /\ ott[t] # None /\ Purpose(t) = Purpose(r) => ott'[t] = "used"
      BY <1>8 DEF Void, Voided, None, Types, TypeOK
    <2>3. pc[r] = "void" /\ pc' = [pc EXCEPT ![r] = "store"]
      BY <1>8 DEF Void, Goto
    <2> QED
      BY <2>1, <2>2, <2>3 DEF Types, TypeOK, Tokens, TokenOf, SpentOnce, Purpose
  <1>9. ASSUME NEW r \in Requests, Store(r)
       PROVE  Tokens'
    BY <1>9
       DEF Types, TypeOK, Tokens, TokenOf, SpentOnce, tokens, Store, Goto, Purpose, None
  <1>10. ASSUME NEW r \in Requests, Mail(r) \/ MailFails(r)
       PROVE  Tokens'
    BY <1>10
       DEF Types, TypeOK, Tokens, TokenOf, SpentOnce, tokens, Mail, MailFails, Goto, Purpose,
          AfterMail
  <1>11. ASSUME NEW r \in Requests, Spend(r)
       PROVE  Tokens'
    BY <1>11
       DEF Types, TypeOK, Tokens, TokenOf, SpentOnce, tokens, Spend, Goto, Purpose, Spendable,
          Control, Placed, None
  <1>12. ASSUME NEW r \in Requests, Verify(r) \/ SetPassword(r) \/ RevokeAll(r) \/ Bump(r)
       PROVE  Tokens'
    BY <1>12
       DEF Types, TypeOK, Tokens, TokenOf, SpentOnce, tokens, Verify, SetPassword, RevokeAll,
          Bump, Goto, Purpose
  <1>13. ASSUME NEW r \in Requests, RevokeFails(r) \/ Abort(r)
       PROVE  Tokens'
    BY <1>13
       DEF Types, TypeOK, Tokens, TokenOf, SpentOnce, tokens, RevokeFails, Abort, Goto, Purpose
  <1>14. ASSUME NEW r \in Requests, ByLink(r) \/ ByEmail(r) \/ Link(r) \/ Fallback(r)
       PROVE  Tokens'
    BY <1>14
       DEF Types, TypeOK, Tokens, TokenOf, SpentOnce, tokens, ByLink, ByEmail, Link, Fallback,
          Goto, Purpose
  <1>15. ASSUME DeleteUser
       PROVE  Tokens'
    BY <1>15
       DEF Types, TypeOK, Tokens, TokenOf, SpentOnce, tokens, DeleteUser, Goto, Purpose
  <1>16. ASSUME NEW t \in Requests, Expire(t)
       PROVE  Tokens'
    BY <1>16
       DEF Types, TypeOK, Tokens, TokenOf, SpentOnce, tokens, Expire, Goto, Purpose
  <1>17. ASSUME Cool \/ Tick
       PROVE  Tokens'
    BY <1>17
       DEF Types, TypeOK, Tokens, TokenOf, SpentOnce, tokens, Cool, Tick, Goto, Purpose
  <1>18. CASE UNCHANGED vars
    BY <1>18
       DEF vars, Purpose, tokens, Tokens, TokenOf, SpentOnce
  <1> QED
    BY <1>1, <1>2, <1>3, <1>4, <1>5, <1>6, <1>7, <1>8, <1>9, <1>10, <1>11, <1>12, <1>13, <1>14,
       <1>15, <1>16, <1>17, <1>18 DEF Next, Handle

\* No step opens a session for a user who was never there.
LEMMA StepUsers ==
  ASSUME Types, Control, Users, [Next]_vars
  PROVE  Users'
  <1>1. ASSUME NEW r \in Requests, Register(r)
       PROVE  Users'
    BY <1>1
       DEF Types, TypeOK, Control, Placed, Users, UserOf, Exists, settings, Register, Goto,
          Begin
  <1>2. ASSUME NEW r \in Requests, NEW p \in {row.pw, "wrong"}, Login(r, p)
       PROVE  Users'
    BY <1>2
       DEF Types, TypeOK, Control, Placed, Users, UserOf, Exists, settings, Login, Goto, Begin
  <1>3. ASSUME NEW r \in Requests, NEW s \in Requests, Me(r, s) \/ Resend(r, s) \/ Forgot(r)
       PROVE  Users'
    BY <1>3
       DEF Types, TypeOK, Control, Placed, Users, UserOf, Exists, settings, Me, Resend, Forgot,
          Goto, Begin, Load, Loaded, Found, NoRow
  <1>4. ASSUME NEW r \in Requests, NEW h \in {"reset", "verify"}, NEW s \in Requests,
                Present(r, h, s)
       PROVE  Users'
    BY <1>4
       DEF Types, TypeOK, Control, Placed, Users, UserOf, Exists, settings, Present, Goto, Begin
  <1>5. ASSUME NEW r \in Requests, NEW x \in Identities, Callback(r, x)
       PROVE  Users'
    BY <1>5
       DEF Types, TypeOK, Control, Placed, Users, UserOf, Exists, settings, Callback, Goto,
          Begin
  <1>6. ASSUME NEW r \in Requests, Insert(r)
       PROVE  Users'
    <2>1. CASE Exists
      BY <1>6, <2>1
         DEF Types, TypeOK, Control, Placed, Users, UserOf, Exists, settings, Insert, Goto
    <2>2. CASE ~Exists
      <3>1. Fresh(r).state = "live"
        BY DEF Fresh, RegisteredUser, OAuthUser, NoRow
      <3> QED
        BY <1>6, <2>2, <3>1
           DEF Types, TypeOK, Control, Placed, Users, UserOf, Exists, settings, Insert,
              AfterInsert, Load, Goto
    <2> QED
      BY <2>1, <2>2
  <1>7. ASSUME NEW r \in Requests, Reread(r)
       PROVE  Users'
    BY <1>7
       DEF Types, TypeOK, Control, Placed, Users, UserOf, Exists, settings, Reread, Goto,
          AfterInsert, Load, Loaded, Found, NoRow
  <1>8. ASSUME NEW r \in Requests, Find(r)
       PROVE  Users'
    BY <1>8
       DEF Types, TypeOK, Control, Placed, Users, UserOf, Exists, settings, Find, Goto, Load,
          Loaded, Found, NoRow
  <1>9. ASSUME NEW r \in Requests, Compare(r)
       PROVE  Users'
    BY <1>9
       DEF Types, TypeOK, Control, Placed, Users, UserOf, Exists, settings, Compare, Goto,
          Matches
  <1>10. ASSUME NEW r \in Requests, Respond(r)
       PROVE  Users'
    BY <1>10
       DEF Types, TypeOK, Control, Placed, Users, UserOf, Exists, settings, Respond, Goto, None
  <1>11. ASSUME NEW r \in Requests, ResendLoad(r)
       PROVE  Users'
    BY <1>11
       DEF Types, TypeOK, Control, Placed, Users, UserOf, Exists, settings, ResendLoad, Goto,
          Load, Loaded, Found, NoRow
  <1>12. ASSUME NEW r \in Requests, Void(r) \/ Store(r)
       PROVE  Users'
    BY <1>12
       DEF Types, TypeOK, Control, Placed, Users, UserOf, Exists, settings, Void, Store, Goto
  <1>13. ASSUME NEW r \in Requests, Mail(r) \/ MailFails(r)
       PROVE  Users'
    BY <1>13
       DEF Types, TypeOK, Control, Placed, Users, UserOf, Exists, settings, Mail, MailFails,
          Goto, AfterMail
  <1>14. ASSUME NEW r \in Requests, Spend(r)
       PROVE  Users'
    BY <1>14
       DEF Types, TypeOK, Control, Placed, Users, UserOf, Exists, settings, Spend, Goto
  <1>15. ASSUME NEW r \in Requests, Verify(r) \/ SetPassword(r) \/ Bump(r)
       PROVE  Users'
    <2>1. row'.state = row.state
      BY <1>15 DEF Verify, SetPassword, Bump, Types, TypeOK, Row
    <2> QED
      BY <1>15, <2>1
         DEF Types, TypeOK, Control, Placed, Users, UserOf, Exists, settings, Verify,
            SetPassword, Bump, Goto
  <1>16. ASSUME NEW r \in Requests, RevokeAll(r)
       PROVE  Users'
    BY <1>16
       DEF Types, TypeOK, Control, Placed, Users, UserOf, Exists, settings, RevokeAll, Goto,
          None
  <1>17. ASSUME NEW r \in Requests, RevokeFails(r) \/ Abort(r)
       PROVE  Users'
    BY <1>17
       DEF Types, TypeOK, Control, Placed, Users, UserOf, Exists, settings, RevokeFails, Abort,
          Goto
  <1>18. ASSUME NEW r \in Requests, ByLink(r) \/ ByEmail(r)
       PROVE  Users'
    BY <1>18
       DEF Types, TypeOK, Control, Placed, Users, UserOf, Exists, settings, ByLink, ByEmail,
          Goto, Load, Loaded, Found, NoRow
  <1>19. ASSUME NEW r \in Requests, Link(r)
       PROVE  Users'
    BY <1>19
       DEF Types, TypeOK, Control, Placed, Users, UserOf, Exists, settings, Link, Goto
  <1>20. ASSUME NEW r \in Requests, Fallback(r)
       PROVE  Users'
    BY <1>20
       DEF Types, TypeOK, Control, Placed, Users, UserOf, Exists, settings, Fallback, Goto,
          Load, Loaded, Found, NoRow, Row
  <1>21. ASSUME DeleteUser
       PROVE  Users'
    BY <1>21
       DEF Types, TypeOK, Control, Placed, Users, UserOf, Exists, settings, DeleteUser, Goto,
          Found
  <1>22. ASSUME NEW t \in Requests, Expire(t)
       PROVE  Users'
    BY <1>22
       DEF Types, TypeOK, Control, Placed, Users, UserOf, Exists, settings, Expire, Goto
  <1>23. ASSUME Cool \/ Tick
       PROVE  Users'
    BY <1>23
       DEF Types, TypeOK, Control, Placed, Users, UserOf, Exists, settings, Cool, Tick, Goto
  <1>24. CASE UNCHANGED vars
    BY <1>24
       DEF vars, Users, UserOf, Exists
  <1> QED
    BY <1>1, <1>2, <1>3, <1>4, <1>5, <1>6, <1>7, <1>8, <1>9, <1>10, <1>11, <1>12, <1>13, <1>14,
       <1>15, <1>16, <1>17, <1>18, <1>19, <1>20, <1>21, <1>22, <1>23, <1>24 DEF Next, Handle

\* A step leaves what a request has to do with passwords as it was.
Same(q) ==
    /\ pc'[q] = pc[q] /\ op'[q] = op[q] /\ arg'[q] = arg[q]
    /\ snap'[q] = snap[q] /\ session'[q] = session[q]

\* A step of r that leaves the password and the excuses alone.
LEMMA KeptCurrent ==
  ASSUME Types, Current, NEW r \in Requests, pc[r] # "revoke",
         UNCHANGED <<late, missed>>, row'.pw = row.pw,
         \A q \in Requests \ {r} : Same(q),
         Proved(r)' => arg'[r] = row.pw \/ (Proved(r) /\ arg'[r] = arg[r])
  PROVE  Current'
  <1>1. Resetting => Resetting'
    BY DEF Resetting, Same
  <1>2. \A q \in Requests : Excused(q) => Excused(q)'
    BY <1>1 DEF Excused
  <1>3. \A q \in Requests \ {r} : (Proved(q)' => Proved(q)) /\ arg'[q] = arg[q]
    BY DEF Same, Proved, Matches
  <1> QED
    BY <1>2, <1>3 DEF Current

\* A password is changed only by a reset, which excuses the others until it has revoked them.
LEMMA StepCurrent ==
  ASSUME Types, Control, Users, Current, [Next]_vars
  PROVE  Current'
  <1>1. ASSUME NEW r \in Requests, Register(r)
       PROVE  Current'
    <2>1. pc[r] # "revoke" /\ UNCHANGED <<late, missed>> /\ row'.pw = row.pw
      BY <1>1
         DEF Register, Begin, history, Types, TypeOK, Row
    <2>2. \A q \in Requests \ {r} : Same(q)
      BY <1>1
         DEF Register, Begin, Goto, Load, Same, Types, TypeOK
    <2>3. Proved(r)' => arg'[r] = row.pw \/ (Proved(r) /\ arg'[r] = arg[r])
      BY <1>1
         DEF Register, Goto, Proved, Matches, Types, TypeOK, Control, Placed, Users, UserOf,
            Begin, None
    <2> QED
      BY <2>1, <2>2, <2>3, KeptCurrent
  <1>2. ASSUME NEW r \in Requests, NEW p \in {row.pw, "wrong"}, Login(r, p)
       PROVE  Current'
    <2>1. pc[r] # "revoke" /\ UNCHANGED <<late, missed>> /\ row'.pw = row.pw
      BY <1>2
         DEF Login, Begin, history, Types, TypeOK, Row
    <2>2. \A q \in Requests \ {r} : Same(q)
      BY <1>2
         DEF Login, Begin, Goto, Load, Same, Types, TypeOK
    <2>3. Proved(r)' => arg'[r] = row.pw \/ (Proved(r) /\ arg'[r] = arg[r])
      BY <1>2
         DEF Login, Goto, Proved, Matches, Types, TypeOK, Control, Placed, Users, UserOf,
            Begin, None
    <2> QED
      BY <2>1, <2>2, <2>3, KeptCurrent
  <1>3. ASSUME NEW r \in Requests, NEW s \in Requests, Me(r, s) \/ Resend(r, s) \/ Forgot(r)
       PROVE  Current'
    <2>1. pc[r] # "revoke" /\ UNCHANGED <<late, missed>> /\ row'.pw = row.pw
      BY <1>3
         DEF Me, Resend, Forgot, Begin, history, Types, TypeOK, Row
    <2>2. \A q \in Requests \ {r} : Same(q)
      BY <1>3
         DEF Me, Resend, Forgot, Begin, Goto, Load, Same, Types, TypeOK
    <2>3. Proved(r)' => arg'[r] = row.pw \/ (Proved(r) /\ arg'[r] = arg[r])
      BY <1>3
         DEF Me, Resend, Forgot, Goto, Proved, Matches, Types, TypeOK, Control, Placed, Users,
            UserOf, Begin, None
    <2> QED
      BY <2>1, <2>2, <2>3, KeptCurrent
  <1>4. ASSUME NEW r \in Requests, NEW h \in {"reset", "verify"}, NEW s \in Requests,
                Present(r, h, s)
       PROVE  Current'
    <2>1. pc[r] # "revoke" /\ UNCHANGED <<late, missed>> /\ row'.pw = row.pw
      BY <1>4
         DEF Present, Begin, history, Types, TypeOK, Row
    <2>2. \A q \in Requests \ {r} : Same(q)
      BY <1>4
         DEF Present, Begin, Goto, Load, Same, Types, TypeOK
    <2>3. Proved(r)' => arg'[r] = row.pw \/ (Proved(r) /\ arg'[r] = arg[r])
      BY <1>4
         DEF Present, Goto, Proved, Matches, Types, TypeOK, Control, Placed, Users, UserOf,
            Begin, None
    <2> QED
      BY <2>1, <2>2, <2>3, KeptCurrent
  <1>5. ASSUME NEW r \in Requests, NEW x \in Identities, Callback(r, x)
       PROVE  Current'
    <2>1. pc[r] # "revoke" /\ UNCHANGED <<late, missed>> /\ row'.pw = row.pw
      BY <1>5
         DEF Callback, Begin, history, Types, TypeOK, Row
    <2>2. \A q \in Requests \ {r} : Same(q)
      BY <1>5
         DEF Callback, Begin, Goto, Load, Same, Types, TypeOK
    <2>3. Proved(r)' => arg'[r] = row.pw \/ (Proved(r) /\ arg'[r] = arg[r])
      BY <1>5
         DEF Callback, Goto, Proved, Matches, Types, TypeOK, Control, Placed, Users, UserOf,
            Begin, None
    <2> QED
      BY <2>1, <2>2, <2>3, KeptCurrent
  <1>6. ASSUME NEW r \in Requests, Insert(r)
       PROVE  Current'
    <2>1. CASE Exists
      <3>1. pc[r] # "revoke" /\ UNCHANGED <<late, missed>> /\ row' = row
        BY <2>1, <1>6 DEF Insert, history
      <3>2. \A q \in Requests \ {r} : Same(q)
        BY <2>1, <1>6 DEF Insert, Goto, Same, Types, TypeOK
      <3>3. ~Proved(r)'
        BY <2>1, <1>6 DEF Insert, Goto, Proved, Types, TypeOK, Control, Placed, Users, UserOf, None
      <3> QED
        BY <3>1, <3>2, <3>3, KeptCurrent
    <2>2. CASE ~Exists
      <3>1. \A q \in Requests \ {r} : ~Proved(q)'
        <4>1. \A q \in Requests : ~Proved(q)
          BY <2>2 DEF Users, UserOf, Proved, Matches, Control, Placed, None
        <4>2. \A q \in Requests \ {r} : Same(q)
          BY <2>2, <1>6 DEF Insert, Goto, Load, Same, Types, TypeOK
        <4> QED
          BY <4>1, <4>2 DEF Same, Proved, Matches
      <3>2. op[r] = "register" => row'.pw = r /\ arg[r] = r
        BY <2>2, <1>6 DEF Insert, Fresh, RegisteredUser, NoRow, Control, Placed
      <3>3. op' = op /\ arg' = arg /\ session' = session /\ session[r] = None
        BY <2>2, <1>6 DEF Insert, Users, UserOf
      <3>4. op[r] # "login"
        BY <1>6 DEF Insert, Control, Placed
      <3> QED
        BY <3>1, <3>2, <3>3, <3>4 DEF Current, Proved, None
    <2> QED
      BY <2>1, <2>2
  <1>7. ASSUME NEW r \in Requests, Reread(r)
       PROVE  Current'
    <2>1. pc[r] # "revoke" /\ UNCHANGED <<late, missed>> /\ row'.pw = row.pw
      BY <1>7
         DEF Reread, Begin, history, Types, TypeOK, Row
    <2>2. \A q \in Requests \ {r} : Same(q)
      BY <1>7
         DEF Reread, Begin, Goto, Load, Same, Types, TypeOK
    <2>3. Proved(r)' => arg'[r] = row.pw \/ (Proved(r) /\ arg'[r] = arg[r])
      BY <1>7
         DEF Reread, Goto, Proved, Matches, Types, TypeOK, Control, Placed, Users, UserOf,
            AfterInsert
    <2> QED
      BY <2>1, <2>2, <2>3, KeptCurrent
  <1>8. ASSUME NEW r \in Requests, Find(r)
       PROVE  Current'
    <2>1. pc[r] # "revoke" /\ UNCHANGED <<late, missed>> /\ row'.pw = row.pw
      BY <1>8
         DEF Find, Begin, history, Types, TypeOK, Row
    <2>2. \A q \in Requests \ {r} : Same(q)
      BY <1>8
         DEF Find, Begin, Goto, Load, Same, Types, TypeOK
    <2>3. Proved(r)' => arg'[r] = row.pw \/ (Proved(r) /\ arg'[r] = arg[r])
      BY <1>8
         DEF Find, Goto, Proved, Matches, Types, TypeOK, Control, Placed, Users, UserOf, Load,
            Loaded, Found, NoRow, None
    <2> QED
      BY <2>1, <2>2, <2>3, KeptCurrent
  <1>9. ASSUME NEW r \in Requests,
                Compare(r) \/ Respond(r) \/ ResendLoad(r) \/ Void(r) \/ Store(r)
       PROVE  Current'
    <2>1. pc[r] # "revoke" /\ UNCHANGED <<late, missed>> /\ row'.pw = row.pw
      BY <1>9
         DEF Compare, Respond, ResendLoad, Void, Store, Begin, history, Types, TypeOK, Row
    <2>2. \A q \in Requests \ {r} : Same(q)
      BY <1>9
         DEF Compare, Respond, ResendLoad, Void, Store, Begin, Goto, Load, Same, Types, TypeOK
    <2>3. Proved(r)' => arg'[r] = row.pw \/ (Proved(r) /\ arg'[r] = arg[r])
      BY <1>9
         DEF Compare, Respond, ResendLoad, Void, Store, Goto, Proved, Matches, Types, TypeOK,
            Control, Placed, Users, UserOf, None
    <2> QED
      BY <2>1, <2>2, <2>3, KeptCurrent
  <1>10. ASSUME NEW r \in Requests, Mail(r) \/ MailFails(r)
       PROVE  Current'
    <2>1. pc[r] # "revoke" /\ UNCHANGED <<late, missed>> /\ row'.pw = row.pw
      BY <1>10
         DEF Mail, MailFails, Begin, history, Types, TypeOK, Row
    <2>2. \A q \in Requests \ {r} : Same(q)
      BY <1>10
         DEF Mail, MailFails, Begin, Goto, Load, Same, Types, TypeOK
    <2>3. Proved(r)' => arg'[r] = row.pw \/ (Proved(r) /\ arg'[r] = arg[r])
      BY <1>10
         DEF Mail, MailFails, Goto, Proved, Matches, Types, TypeOK, Control, Placed, Users,
            UserOf, AfterMail
    <2> QED
      BY <2>1, <2>2, <2>3, KeptCurrent
  <1>11. ASSUME NEW r \in Requests, Spend(r)
       PROVE  Current'
    <2>1. pc[r] # "revoke" /\ UNCHANGED <<late, missed>> /\ row'.pw = row.pw
      BY <1>11
         DEF Spend, Begin, history, Types, TypeOK, Row
    <2>2. \A q \in Requests \ {r} : Same(q)
      BY <1>11
         DEF Spend, Begin, Goto, Load, Same, Types, TypeOK
    <2>3. Proved(r)' => arg'[r] = row.pw \/ (Proved(r) /\ arg'[r] = arg[r])
      BY <1>11
         DEF Spend, Goto, Proved, Matches, Types, TypeOK, Control, Placed, Users, UserOf, None
    <2> QED
      BY <2>1, <2>2, <2>3, KeptCurrent
  <1>12. ASSUME NEW r \in Requests, Verify(r) \/ Bump(r)
       PROVE  Current'
    <2>1. pc[r] # "revoke" /\ UNCHANGED <<late, missed>> /\ row'.pw = row.pw
      BY <1>12
         DEF Verify, Bump, Begin, history, Types, TypeOK, Row
    <2>2. \A q \in Requests \ {r} : Same(q)
      BY <1>12
         DEF Verify, Bump, Begin, Goto, Load, Same, Types, TypeOK
    <2>3. Proved(r)' => arg'[r] = row.pw \/ (Proved(r) /\ arg'[r] = arg[r])
      BY <1>12
         DEF Verify, Bump, Goto, Proved, Matches, Types, TypeOK, Control, Placed, Users,
            UserOf, None
    <2> QED
      BY <2>1, <2>2, <2>3, KeptCurrent
  <1>13. ASSUME NEW r \in Requests, SetPassword(r)
       PROVE  Current'
    <2>1. Resetting'
      BY <1>13 DEF SetPassword, Goto, Resetting, Types, TypeOK
    <2> QED
      BY <2>1 DEF Current, Excused
  <1>14. ASSUME NEW r \in Requests, RevokeAll(r)
       PROVE  Current'
    <2>1. ASSUME NEW q \in Requests, Proved(q)' PROVE q \in late'
      <3>1. session'[q] # "live"
        BY <1>14 DEF RevokeAll, Types, TypeOK
      <3>2. op[q] \in {"login", "register"} /\ pc'[q] # "done"
        BY <2>1, <3>1, <1>14 DEF RevokeAll, Proved
      <3>3. pc[q] # "done"
        BY <3>2, <1>14 DEF RevokeAll, Goto, Types, TypeOK
      <3> QED
        BY <3>2, <3>3, <1>14 DEF RevokeAll, SigningIn
    <2> QED
      BY <2>1 DEF Current, Excused
  <1>15. ASSUME NEW r \in Requests, RevokeFails(r) \/ Abort(r)
       PROVE  Current'
    <2>1. CASE pc[r] = "revoke"
      <3>1. missed'
        BY <2>1, <1>15 DEF RevokeFails, Abort
      <3> QED
        BY <3>1 DEF Current, Excused
    <2>2. CASE pc[r] # "revoke"
      <3>1. UNCHANGED <<late, row, op, arg, snap, session>> /\ (missed => missed')
        BY <2>2, <1>15 DEF RevokeFails, Abort
      <3>2. pc'[r] = "done" /\ \A q \in Requests \ {r} : pc'[q] = pc[q]
        BY <2>2, <1>15 DEF RevokeFails, Abort, Goto, Types, TypeOK
      <3>3. Resetting => Resetting'
        BY <2>2, <3>2 DEF Resetting
      <3>4. \A q \in Requests : Proved(q)' => Proved(q)
        BY <3>1, <3>2 DEF Proved, Matches
      <3> QED
        BY <3>1, <3>3, <3>4 DEF Current, Excused
    <2> QED
      BY <2>1, <2>2
  <1>16. ASSUME NEW r \in Requests, ByLink(r) \/ ByEmail(r) \/ Link(r) \/ Fallback(r)
       PROVE  Current'
    <2>1. pc[r] # "revoke" /\ UNCHANGED <<late, missed>> /\ row'.pw = row.pw
      BY <1>16
         DEF ByLink, ByEmail, Link, Fallback, Begin, history, Types, TypeOK, Row
    <2>2. \A q \in Requests \ {r} : Same(q)
      BY <1>16
         DEF ByLink, ByEmail, Link, Fallback, Begin, Goto, Load, Same, Types, TypeOK
    <2>3. Proved(r)' => arg'[r] = row.pw \/ (Proved(r) /\ arg'[r] = arg[r])
      BY <1>16
         DEF ByLink, ByEmail, Link, Fallback, Goto, Proved, Matches, Types, TypeOK, Control,
            Placed, Users, UserOf, None
    <2> QED
      BY <2>1, <2>2, <2>3, KeptCurrent
  <1>17. ASSUME DeleteUser
       PROVE  Current'
    <2>1. row'.pw = row.pw
      BY <1>17 DEF DeleteUser, Types, TypeOK, Row
    <2> QED
      BY <2>1, <1>17 DEF DeleteUser, history, Current, Proved, Matches, Excused, Resetting
  <1>18. ASSUME NEW t \in Requests, Expire(t)
       PROVE  Current'
    BY <1>18
       DEF Types, TypeOK, Current, Proved, Excused, Resetting, Expire, history, Matches
  <1>19. ASSUME Cool \/ Tick
       PROVE  Current'
    BY <1>19
       DEF Types, TypeOK, Current, Proved, Excused, Resetting, Cool, Tick, history, Matches
  <1>20. CASE UNCHANGED vars
    BY <1>20
       DEF vars, history, Current, Proved, Matches, Excused, Resetting
  <1> QED
    BY <1>1, <1>2, <1>3, <1>4, <1>5, <1>6, <1>7, <1>8, <1>9, <1>10, <1>11, <1>12, <1>13, <1>14,
       <1>15, <1>16, <1>17, <1>18, <1>19, <1>20 DEF Next, Handle

-----------------------------------------------------------------------------
\* The inductive invariant holds in every reachable state.
THEOREM Invariance == Spec => []IInv
  <1>1. IInv /\ [Next]_vars => IInv'
    <2> SUFFICES ASSUME IInv, [Next]_vars PROVE IInv'
      OBVIOUS
    <2>1. Types /\ Control /\ Tokens /\ Users /\ Current
      BY DEF IInv
    <2>2. Types' /\ Control' /\ Tokens'
      BY <2>1, StepTypes, StepControl, StepTokens
    <2>3. Users' /\ Current'
      BY <2>1, StepUsers, StepCurrent
    <2> QED
      BY <2>2, <2>3 DEF IInv
  <1> QED
    BY <1>1, InitIInv, PTL DEF Spec

\* consumeOneTimeToken and issueOneTimeToken (recovery.go): a one-time token is spent once,
\* and voided by newer ones of its purpose unless they raced.
THEOREM TokensOneTime == Spec => []OneTime
  <1>1. IInv => OneTime
    BY DEF IInv, Tokens, TokenOf, OneTime, LiveTokensRaced
  <1> QED
    BY <1>1, Invariance, PTL

\* resetPassword (recovery.go): once it has revoked the sessions none of an earlier password
\* goes on, unless that sign-in was under way or the revocation failed.
THEOREM ResetEndsSessions == Spec => []OldPasswordOut
  <1>1. IInv => OldPasswordOut
    <2> SUFFICES ASSUME IInv, NEW r \in Requests, OldPassword(r)
                 PROVE  Excused(r)
      BY DEF OldPasswordOut, Excused
    <2>1. Proved(r) /\ arg[r] # row.pw
      <3>1. session[r] = "live" /\ Password(r) \notin {None, row.pw}
        BY DEF OldPassword
      <3> QED
        BY <3>1 DEF Password, Proved
    <2> QED
      BY <2>1 DEF IInv, Current
  <1> QED
    BY <1>1, Invariance, PTL

\* respondWithSession (handler.go) and oauthResolveUser (oauth.go): a session belongs to an
\* account, except after an OAuth sign-in that found its email taken by a deleted one.
THEOREM SessionsHaveUsers == Spec => []SessionHasUser
  <1>1. IInv => SessionHasUser
    BY DEF IInv, Users, UserOf, SessionHasUser
  <1> QED
    BY <1>1, Invariance, PTL

\* loginThrottle.fail (throttle.go): failures under way when a lockout began do not move the
\* start of its window.
THEOREM LockoutsRunOut == Spec => LockoutRunsOut
  <1>1. ASSUME IInv, [Next]_vars, NEW k \in Keys, Locked(k), Locked(k)'
        PROVE  age'[k] >= age[k]
    <2>1. fails[k] \in Nat /\ age[k] \in Nat /\ Open(k) /\ fails'[k] > 0
      BY <1>1, AccountsAssumption DEF IInv, Types, TypeOK, Locked, Open
    <2>2. CASE age' = age
      BY <2>1, <2>2
    <2>3. ASSUME NEW r \in Requests, Compare(r) PROVE age'[k] >= age[k]
      <3>1. CASE Matches(r)
        <4>1. fails' = [fails EXCEPT !["cred"] = 0] /\ age' = [age EXCEPT !["cred"] = 0]
          BY <2>3, <3>1 DEF Compare
        <4>2. k # "cred"
          <5>1. fails \in [Keys -> Nat]
            BY <1>1 DEF IInv, Types, TypeOK
          <5> QED
            BY <4>1, <5>1, <2>1
        <4> QED
          BY <4>1, <4>2, <2>1 DEF IInv, Types, TypeOK
      <3>2. CASE ~Matches(r)
        BY <2>1, <2>3, <3>2 DEF Compare, Charge
      <3> QED
        BY <3>1, <3>2
    <2>4. CASE Tick
      BY <2>1, <2>4 DEF Tick
    <2> QED
      <3>1. CASE UNCHANGED vars
        BY <3>1, <2>2 DEF vars, throttle
      <3>2. ASSUME NEW r \in Requests, Handle(r) PROVE age' = age \/ Compare(r)
        BY <3>2 DEF Handle, Register, Insert, Reread, Login, Find, Respond, Me, Resend, ResendLoad,
                    Forgot, Void, Store, Mail, MailFails, Present, Spend, Verify, SetPassword,
                    RevokeAll, Bump, RevokeFails, Callback, ByLink, ByEmail, Link, Fallback, Abort,
                    throttle
      <3>3. DeleteUser \/ Cool \/ (\E t \in Requests : Expire(t)) => age' = age
        BY DEF DeleteUser, Cool, Expire, throttle
      <3> QED
        BY <1>1, <2>2, <2>3, <2>4, <3>1, <3>2, <3>3 DEF Next
  <1>2. IInv /\ [Next]_vars => [\A k \in Keys : Locked(k) /\ Locked(k)' => age'[k] >= age[k]]_vars
    BY <1>1
  <1> QED
    BY <1>2, Invariance, PTL DEF Spec, LockoutRunsOut

=============================================================================

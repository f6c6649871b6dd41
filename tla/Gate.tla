-------------------------------- MODULE Gate --------------------------------
(***************************************************************************)
(* The middleware chain in front of a handler (internal/router/builder.go, *)
(* internal/middleware, internal/apikey, internal/token): client address,  *)
(* IP-keyed limiter, API key, access token and its revalidation, user-     *)
(* keyed limiter, role policy, allowlist and conditions.                   *)
(*                                                                         *)
(* One request is followed while the rows its credentials point at change. *)
(* Each middleware is a step: what it reads may be stale when a later one  *)
(* uses it.  The limiters (module RateLimit) only let pass or refuse here. *)
(***************************************************************************)
EXTENDS Policy, SequencesExt

CONSTANTS
    Roles,              \* the loaded role configuration
    Entities,           \* every entity name
    Endpoints,          \* [kind, op, entity, update, auth, opAuth, casbin, limit, keyBy]
    Senders,            \* [peer, xff, real, key, token]: who sends and with what
    StaticRole,         \* the role of the key listed in the configuration
    Trusted,            \* addresses of trusted proxies
    NoAuth,             \* no auth block
    None,               \* no header, no credential
    RevocationCheck,    \* auth.revocation_check
    MaxChanges          \* bound: changes to the credentials' rows

\* An auth block requires a caller, names roles and lists conditions.
AuthBlocks == [require : BOOLEAN, roles : SUBSET DOMAIN Rank,
               conds : Seq([attr : STRING, op : STRING, vals : SUBSET DOMAIN Rank])]

Operations == {"list", "get", "create", "update", "replace", "upsert", "delete"}

\* What loading the configuration guarantees of an endpoint, and a request of its headers.
GateAssumption ==
    /\ \A ep \in Endpoints :
          /\ {ep.auth, ep.opAuth} \subseteq AuthBlocks \cup {NoAuth}
          /\ ep.kind = "receiver" => ~ep.casbin
          /\ ep.casbin => ep.entity \in Entities /\ ep.op \in Operations
    /\ \A from \in Senders : from.xff \in Seq(STRING)
    /\ None \notin {"good", "static", "wrong"}

VARIABLES
    keyRow,     \* the API key's row: [role, owner, state]
    user,       \* the token's user: [exists, role, version]
    changes,
    req         \* [pc, ep, from, sub, ip, limitKey], and for the properties:
                \* the rows at arrival (keyWas, userWas), their roles since (roles)

vars == <<keyRow, user, changes, req>>

RoleNames == {r.name : r \in Roles}

Init ==
    /\ \E n \in RoleNames :
        /\ keyRow = [role |-> n, owner |-> "you", state |-> "live"]
        /\ user = [exists |-> TRUE, role |-> n, version |-> 0]
    /\ changes = 0
    /\ \E ep \in Endpoints, from \in Senders :
        req = [pc |-> "new", ep |-> ep, from |-> from, sub |-> Nobody, ip |-> None,
               limitKey |-> None, keyWas |-> keyRow, userWas |-> user, roles |-> {}]

\* Where a request leaves the chain.
Answers == {"handler", "401", "403", "429", "500"}

(***************************************************************************)
(* The rows behind the credentials change: a key expires, is revoked,      *)
(* deleted or given another role; a user is deleted, demoted, or has all   *)
(* tokens revoked.                                                         *)
(***************************************************************************)
ChangeKey ==
    /\ changes < MaxChanges /\ req.pc \notin Answers
    /\ keyRow' \in {[keyRow EXCEPT !.state = s] : s \in {"expired", "revoked", "deleted"}}
                   \cup {[keyRow EXCEPT !.role = n] : n \in RoleNames}
    /\ changes' = changes + 1
    /\ req' = [req EXCEPT !.roles = @ \cup {keyRow'.role}]
    /\ UNCHANGED user

ChangeUser ==
    /\ changes < MaxChanges /\ req.pc \notin Answers
    /\ user' \in {[user EXCEPT !.exists = FALSE], [user EXCEPT !.version = user.version + 1]}
                 \cup {[user EXCEPT !.role = n] : n \in RoleNames}
    /\ changes' = changes + 1
    /\ req' = [req EXCEPT !.roles = @ \cup {user'.role}]
    /\ UNCHANGED keyRow

(***************************************************************************)
(* The client's address: forwarding headers count only from a trusted      *)
(* peer; X-Forwarded-For is walked from the right over trusted hops and    *)
(* given up at a malformed one.                                            *)
(***************************************************************************)
ResolveClientIP(from) ==
    LET stops == {i \in DOMAIN from.xff : from.xff[i] \notin Trusted}
        last  == CHOOSE i \in stops : \A j \in stops : j <= i
    IN  CASE from.peer \notin Trusted -> from.peer
          [] from.peer \in Trusted /\ stops # {} /\ from.xff[last] # "bad" -> from.xff[last]
          [] OTHER -> IF from.real \notin {None, "bad"} THEN from.real ELSE from.peer

LimitKey(r) == IF r.ep.keyBy = "user" /\ r.sub # Nobody THEN <<"u", r.sub.id>> ELSE <<"ip", r.ip>>

\* The answers of a limiter for the request's key: pass, or 429.
Limited(r, onward) == {[r EXCEPT !.pc = onward, !.limitKey = LimitKey(r)],
                       [r EXCEPT !.pc = "429", !.limitKey = LimitKey(r)]}

\* What the request meets first; its credentials' rows as they are now are
\* noted for the properties.
Arrive ==
    /\ req.pc = "new"
    /\ req' = [req EXCEPT !.pc = "limitIP", !.ip = ResolveClientIP(req.from),
                          !.keyWas = keyRow, !.userWas = user,
                          !.roles = {keyRow.role, user.role}]
    /\ UNCHANGED <<keyRow, user, changes>>

LimitIP ==
    /\ req.pc = "limitIP"
    /\ IF req.ep.limit /\ req.ep.keyBy = "ip"
       THEN req' \in Limited(req, "apikey")
       ELSE req' = [req EXCEPT !.pc = "apikey"]
    /\ UNCHANGED <<keyRow, user, changes>>

\* Per-operation auth replaces the endpoint's.
ResolveOpAuth(ep) == IF ep.opAuth # NoAuth THEN ep.opAuth ELSE ep.auth

MutRequires(ep) ==
    LET a == ResolveOpAuth(ep) IN a # NoAuth /\ a.require

\* Naming roles or conditions implies that a caller is required.
Requires(ep) ==
    LET a == ResolveOpAuth(ep)
    IN  a # NoAuth /\ (a.require \/ a.roles # {} \/ a.conds # <<>>)

\* A webhook receiver mounts the credential middleware only when it requires them.
ReadsCredentials(ep) == ep.kind = "crud" \/ Requires(ep)

\* The key's row, found by the digest of the key, if it may still be used.
KeyLookup ==
    IF keyRow.state = "live"
    THEN [id |-> keyRow.owner, role |-> keyRow.role, email |-> "", tenant |-> ""]
    ELSE Nobody

\* A key of the configuration file never changes.
StaticLookup == [id |-> "static", role |-> StaticRole, email |-> "", tenant |-> ""]

APIKeyAuth ==
    /\ req.pc = "apikey"
    /\ LET found == CASE req.from.key = "good"   -> KeyLookup
                      [] req.from.key = "static" -> StaticLookup
                      [] OTHER -> Nobody
       IN  req' = CASE ~ReadsCredentials(req.ep) \/ req.from.key = None ->
                           [req EXCEPT !.pc = "token"]
                    [] ReadsCredentials(req.ep) /\ req.from.key # None /\ found = Nobody ->
                           [req EXCEPT !.pc = "401"]
                    [] OTHER -> [req EXCEPT !.pc = "token", !.sub = found]
    /\ UNCHANGED <<keyRow, user, changes>>

\* Parse: the pinned algorithm, issuer, audience, expiry and the type "access".
Parses(token) == token.kind = "access"

Claimed(token) == [id |-> token.sub, role |-> token.role, email |-> "", tenant |-> ""]

\* A subject that another middleware has set is honoured; a present but invalid
\* token is refused even where none is required.
RequireAuth ==
    /\ req.pc = "token"
    /\ LET t == req.from.token
       IN  req' =
            CASE ~ReadsCredentials(req.ep) \/ req.sub # Nobody -> [req EXCEPT !.pc = "limitUser"]
              [] ReadsCredentials(req.ep) /\ req.sub = Nobody /\ t = None ->
                    [req EXCEPT !.pc = IF Requires(req.ep) THEN "401" ELSE "limitUser"]
              [] OTHER -> IF ~Parses(t) THEN [req EXCEPT !.pc = "401"]
                          ELSE IF RevocationCheck THEN [req EXCEPT !.pc = "validate"]
                          ELSE [req EXCEPT !.pc = "limitUser", !.sub = Claimed(t)]
    /\ UNCHANGED <<keyRow, user, changes>>

MutValidate ==
    /\ req.pc = "validate"
    /\ req' = IF user.exists /\ user.version = req.from.token.version
              THEN [req EXCEPT !.pc = "limitUser", !.sub = Claimed(req.from.token)]
              ELSE [req EXCEPT !.pc = "401"]
    /\ UNCHANGED <<keyRow, user, changes>>

\* The user's row decides: it must exist at the token's version, and its role
\* replaces the one the token carries.
Validate ==
    /\ req.pc = "validate"
    /\ req' = IF user.exists /\ user.version = req.from.token.version
              THEN [req EXCEPT !.pc = "limitUser",
                               !.sub = [Claimed(req.from.token) EXCEPT !.role = user.role]]
              ELSE [req EXCEPT !.pc = "401"]
    /\ UNCHANGED <<keyRow, user, changes>>

LimitUser ==
    /\ req.pc = "limitUser"
    /\ IF req.ep.limit /\ req.ep.keyBy = "user"
       THEN req' \in Limited(req, "rbac")
       ELSE req' = [req EXCEPT !.pc = "rbac"]
    /\ UNCHANGED <<keyRow, user, changes>>

\* The action of the HTTP method an operation is mounted on.
MethodToAction(op) ==
    CASE op \in {"list", "get"} -> "get"
      [] op \in {"create", "receive"} -> "create"
      [] op \in {"update", "replace", "upsert"} -> "update"
      [] op = "delete" -> "delete"

\* A write that can create or update needs both actions.
CasbinActions(ep) ==
    IF ep.op = "upsert" \/ (ep.op = "create" /\ ep.update)
    THEN {"create", "update"} ELSE {MethodToAction(ep.op)}

RBAC ==
    /\ req.pc = "rbac"
    /\ LET a    == ResolveOpAuth(req.ep)
           role == SubjectAttr(req.sub, "role")
           cond == EvalConditions(a.conds, req.sub)
       IN  req' = [req EXCEPT !.pc =
            IF ~Requires(req.ep) THEN "handler"
            ELSE IF req.sub = Nobody THEN "401"
            ELSE IF req.ep.casbin /\ \E act \in CasbinActions(req.ep) :
                        ~Enforce(Roles, Entities, role, req.ep.entity, act) THEN "403"
            ELSE IF a.roles # {} /\ role \notin a.roles THEN "403"
            ELSE IF cond = "error" THEN "500"
            ELSE IF cond = "no" THEN "403"
            ELSE "handler"]
    /\ UNCHANGED <<keyRow, user, changes>>

Next == \/ ChangeKey \/ ChangeUser
        \/ Arrive \/ LimitIP \/ APIKeyAuth \/ RequireAuth \/ Validate \/ LimitUser \/ RBAC

Spec == Init /\ [][Next]_vars

-----------------------------------------------------------------------------
\* What the configuration says, without the enforcer: a role has the
\* permissions of every role in the smallest set closed under inherits.
Closed(names) == \A r \in Roles : r.name \in names => r.inherits \subseteq names

\* Casbin follows the inheritance of every role to its end.
HierarchyFits == \A n \in RoleNames : Closed(ActsAs(Roles, n))

Entitled(role, entity, action) ==
    LET named  == {role} \cup RoleNames \cup UNION {r.inherits : r \in Roles}
        closed == {s \in SUBSET named : role \in s /\ Closed(s)}
    IN  \E r \in Roles : /\ \A s \in closed : r.name \in s
                         /\ \E p \in r.perms : /\ p.resource \in {"*", entity}
                                               /\ p.actions \cap {"*", action} # {}

Needs(op, update) ==
    CASE op = "upsert" \/ (op = "create" /\ update) -> {"create", "update"}
      [] op \in {"list", "get"} -> {"get"}
      [] op \in {"update", "replace"} -> {"update"}
      [] OTHER -> {op}

\* Who may call an endpoint whose auth block says anything at all.
Allowed(ep, sub) ==
    LET a == ResolveOpAuth(ep)
    IN  a # NoAuth /\ a # [require |-> FALSE, roles |-> {}, conds |-> <<>>] =>
            /\ sub # Nobody
            /\ ep.casbin => \A act \in Needs(ep.op, ep.update) : Entitled(sub.role, ep.entity, act)
            /\ a.roles # {} => sub.role \in a.roles
            /\ \A i \in DOMAIN a.conds : MatchCondition(a.conds[i], sub) = "yes"

TypeOK ==
    /\ req.pc \in {"new", "limitIP", "apikey", "token", "validate", "limitUser", "rbac",
                   "handler", "401", "403", "429", "500"}
    /\ changes \in 0 .. MaxChanges

\* A request reaches the handler only if its caller is allowed by the auth
\* block, policy, allowlist and conditions, and is refused with 403 only if
\* not: the expansion of wildcards and the order of checks lose nothing.
DecidesRightly ==
    /\ req.pc = "handler" => Allowed(req.ep, req.sub)
    /\ req.pc = "403" => ~Allowed(req.ep, req.sub)

\* A credential that was dead when the request arrived never identifies its
\* caller, and a role that was taken away before is not used: what the
\* middleware reads is never older than the request.
NoStaleCaller ==
    req.sub # Nobody =>
        CASE req.from.key = "good"   -> req.keyWas.state = "live" /\ req.sub.role \in req.roles
          [] req.from.key = "static" -> req.sub = StaticLookup
          [] OTHER -> RevocationCheck => /\ req.userWas.exists
                                         /\ req.userWas.version <= req.from.token.version
                                         /\ req.sub.role \in req.roles

\* An invalid credential is never treated as no credential, and a limiter
\* never keys on a hop that only the client vouches for: the address used is
\* the last one that is not a trusted proxy.
KeyedRightly ==
    /\ req.pc = "handler" /\ req.ep.kind = "crud" /\ req.from.key = "wrong" => FALSE
    /\ req.limitKey # None /\ req.limitKey[1] = "ip" =>
         \/ req.limitKey[2] = req.from.peer
         \/ /\ req.from.peer \in Trusted
            /\ \/ req.limitKey[2] = req.from.real
               \/ \E i \in DOMAIN req.from.xff :
                    /\ req.limitKey[2] = req.from.xff[i]
                    /\ \A j \in i+1 .. Len(req.from.xff) : req.from.xff[j] \in Trusted
=============================================================================

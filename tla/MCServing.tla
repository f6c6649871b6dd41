----------------------------- MODULE MCServing -----------------------------
(***************************************************************************)
(* Instances of the request path for TLC: the rate limiter, the gate in    *)
(* front of the handlers and the read path.  They share no state, so a     *)
(* behaviour runs one of them; the variables of the others are Off.        *)
(***************************************************************************)
EXTENDS Listing, TLC

CONSTANTS
    N, Burst, Rate, Slack, Pause, MaxTime,                                                  \* RateLimit
    Roles, Entities, Endpoints, Senders, StaticRole, Trusted, RevocationCheck, MaxChanges,  \* Gate
    None, NoAuth, Off

-----------------------------------------------------------------------------
\* Strings: their byte order, the numbers among them, prefixes and suffixes.
Strings == <<"", "10", "9", "9a", "admin", "editor", "me", "static", "t1", "viewer", "writer", "you">>
ByteOrder == [s \in {Strings[i] : i \in DOMAIN Strings} |-> CHOOSE i \in DOMAIN Strings : Strings[i] = s]
NumberOf == ("10" :> 10) @@ ("9" :> 9)
PrefixesOf == [s \in DOMAIN ByteOrder |-> {"", s} \cup (IF s = "9a" THEN {"9"} ELSE {})]
SuffixesOf == [s \in DOMAIN ByteOrder |-> {"", s}]

Cond(attr, op, vals) == [attr |-> attr, op |-> op, vals |-> vals]
Always == Cond("*", "", {})

-----------------------------------------------------------------------------
\* The gate.
Perm(resource, actions) == [resource |-> resource, actions |-> actions]
Role(name, inherits, perms) == [name |-> name, inherits |-> inherits, perms |-> perms]
RoleTree == {
    Role("admin", {}, {Perm("*", {"*"})}),
    Role("editor", {"viewer"}, {Perm("Post", {"create", "update"})}),
    Role("viewer", {}, {Perm("Post", {"get"})}),
    Role("writer", {"viewer"}, {Perm("Post", {"create"})})}

Auth(require, roles, conds) == [require |-> require, roles |-> roles, conds |-> conds]

Endpoint(op, auth, opAuth, keyBy) ==
    [kind |-> "crud", op |-> op, entity |-> "Post", update |-> FALSE, auth |-> auth,
     opAuth |-> opAuth, casbin |-> TRUE, limit |-> TRUE, keyBy |-> keyBy]

Required == Auth(TRUE, {}, <<>>)
SomeRoles == Auth(FALSE, {"admin", "writer"}, <<>>)
Conditional == Auth(FALSE, {}, <<Cond("role", "!=", {"viewer"}), Cond("id", ">", {"10"})>>)
Auths == {NoAuth, Auth(FALSE, {}, <<>>), Required, SomeRoles, Conditional,
          Auth(FALSE, {}, <<Cond("tier", "==", {""})>>)}

AllEndpoints ==
    {Endpoint("get", a, NoAuth, "ip") : a \in Auths}
    \cup {Endpoint("upsert", a, NoAuth, "ip") : a \in {NoAuth, SomeRoles, Conditional}}
    \cup {Endpoint(op, Required, NoAuth, "ip") : op \in {"replace", "delete"}}
    \cup {[Endpoint("create", a, NoAuth, "user") EXCEPT !.update = u] :
            a \in {NoAuth, Required, SomeRoles}, u \in BOOLEAN}
    \cup {Endpoint("get", Required, a, "ip") : a \in {SomeRoles, Conditional}}
    \cup {[Endpoint("receive", a, NoAuth, "user") EXCEPT !.kind = "receiver", !.casbin = FALSE] :
            a \in {NoAuth, Required, Conditional}}
    \cup {[Endpoint("list", Required, NoAuth, "ip") EXCEPT !.limit = FALSE]}

Sender(key, token) == [peer |-> "c", xff |-> <<>>, real |-> None, key |-> key, token |-> token]
Token(kind, role) == [kind |-> kind, sub |-> "9", role |-> role, version |-> 0]
AllSenders ==
    {Sender(k, t) : k \in {None, "good", "wrong", "static"}, t \in {None, Token("access", "viewer")}}
    \cup {Sender(k, Token("refresh", "admin")) : k \in {None, "good"}}
    \cup {[Sender(None, None) EXCEPT !.peer = "p1", !.xff = x, !.real = r] :
            x \in {<<>>, <<"x", "bad">>, <<"p2">>}, r \in {None, "c", "bad"}}
    \cup {[Sender(None, None) EXCEPT !.peer = "p1", !.xff = <<"x", "c", "p2">>]}

-----------------------------------------------------------------------------
\* The read path.
Subject(role, tenant) == [id |-> "me", role |-> role, email |-> "", tenant |-> tenant]

\* An editor sees everything, anybody else their own rows or those of the role.
MCRules == <<[when |-> Cond("role", "in", {"editor"}), filter |-> <<>>],
           [when |-> Cond("role", "!=", {""}),
            filter |-> <<[col |-> "owner", bind |-> "id"], [col |-> "owner", bind |-> "role"]>>]>>

Fields == [id |-> [omit |-> FALSE, readRoles |-> {}, writeRoles |-> {}],
           k  |-> [omit |-> FALSE, readRoles |-> {"editor"}, writeRoles |-> {}]]

Read(sortBy, desc, limit) ==
    [via |-> "list", id |-> 0, sub |-> Subject("viewer", "t1"), rules |-> MCRules, scoped |-> TRUE,
     style |-> "cursor", sortBy |-> sortBy, kind |-> "plain", engine |-> "postgres", desc |-> desc,
     limit |-> limit, filters |-> <<>>, include |-> FALSE, bad |-> FALSE, fields |-> Fields]

Flt(op, val) == [op |-> op, val |-> val]

AllReads ==
    {Read("k", FALSE, 1), [Read("k", TRUE, 1) EXCEPT !.kind = "boolean"],
     [Read("k", FALSE, 1) EXCEPT !.kind = "boolean", !.engine = "sqlite"],
     [Read("k", FALSE, 1) EXCEPT !.kind = "boolean", !.engine = "mysql"]}
    \cup {Read("id", TRUE, 2),
          [Read("k", FALSE, 2) EXCEPT !.include = TRUE, !.via = "store"],
          [Read("k", FALSE, 1) EXCEPT !.style = "offset", !.rules = <<>>],
          [Read("k", TRUE, 1) EXCEPT !.filters = <<Flt("in", {0, 1}), Flt("ne", 1)>>],
          [Read("id", FALSE, 1) EXCEPT !.filters = <<Flt("nin", {1}), Flt("lte", 1), Flt("like", "zero")>>],
          [Read("id", FALSE, 2) EXCEPT !.filters = <<Flt("gte", 0), Flt("gt", -1), Flt("lt", 2)>>],
          [Read("id", FALSE, 2) EXCEPT !.filters = <<Flt("is_null", FALSE), Flt("eq", 0)>>,
                                       !.sub = Subject("editor", "t1")],
          [Read("id", FALSE, 1) EXCEPT !.via = "get", !.id = 2, !.include = TRUE],
          [Read("id", FALSE, 1) EXCEPT !.via = "get", !.id = 2, !.sub = Nobody],
          [Read("id", FALSE, 1) EXCEPT !.sub = Nobody],
          [Read("id", FALSE, 1) EXCEPT !.sub = Subject("viewer", "")],
          [Read("id", FALSE, 1) EXCEPT !.sub = Subject("viewer", ""), !.via = "store"],
          [Read("id", FALSE, 1) EXCEPT !.rules = <<[when |-> Cond("tier", "==", {""}), filter |-> <<>>]>>],
          [Read("id", FALSE, 1) EXCEPT !.bad = TRUE]}

Row(k, owner, tenant, ref) ==
    [k |-> k, owner |-> owner, tenant |-> tenant, ref |-> ref, deleted |-> FALSE]
AllRows == {Row(0, "me", "t1", "a"), Row(1, "me", "t1", "b"), Row(NULL, "viewer", "t1", NULL),
           Row(0, "you", "t1", "a"), Row(0, "me", "t2", "b")}

MCIds == 1 .. 3
MCLike == {<<"zero", 0>>}

\* TLC evaluates a definition once, but not the one that a constant stands for.
MCRank == ByteOrder
MCNumeric == NumberOf
MCStarts == PrefixesOf
MCEnds == SuffixesOf
MCRoles == RoleTree
MCEndpoints == AllEndpoints
MCSenders == AllSenders
MCReads == AllReads
MCRows == AllRows

-----------------------------------------------------------------------------
VARIABLES clock, buckets, current, lastSweep, req, doomed,  \* RateLimit
          keyRow, user, changes, greq                       \* Gate

R == INSTANCE RateLimit

G == INSTANCE Gate WITH req <- greq

ASSUME ServingAssumption ==
    /\ R!LimitAssumption
    /\ G!GateAssumption /\ G!HierarchyFits
    /\ ListingAssumption
    /\ Off \notin Int \cup STRING

limitVars == <<clock, buckets, current, lastSweep, req, doomed>>
gateVars == <<keyRow, user, changes, greq>>
serving == <<limitVars, gateVars, vars>>

LimitOff == clock = Off /\ buckets = Off /\ current = Off /\ lastSweep = Off /\ req = Off /\ doomed = Off
GateOff == keyRow = Off /\ user = Off /\ changes = Off /\ greq = Off
ListOff == /\ table = Off /\ parents = Off /\ writes = Off /\ read = Off /\ pc = Off /\ cursor = Off
           /\ page = Off /\ rel = Off /\ seen = Off /\ steady = Off

ServingInit ==
    \/ R!Init /\ GateOff /\ ListOff
    \/ LimitOff /\ G!Init /\ ListOff
    \/ LimitOff /\ GateOff /\ Init

ServingNext ==
    \/ clock # Off /\ R!Next /\ UNCHANGED <<gateVars, vars>>
    \/ changes # Off /\ G!Next /\ UNCHANGED <<limitVars, vars>>
    \/ pc # Off /\ Next /\ UNCHANGED <<limitVars, gateVars>>

ServingSpec == ServingInit /\ [][ServingNext]_serving

-----------------------------------------------------------------------------
\* middleware/ratelimit.go: in any window a key is granted no more than its budget and burst.
LimitHolds == clock # Off => R!GrantsBounded

\* router/builder.go, policy/engine.go, middleware/clientip.go: a caller reaches the handler
\* exactly if allowed, and is charged to a budget that is their own.
DecidesRightly == changes # Off => G!DecidesRightly /\ G!KeyedRightly

\* middleware/auth.go: revoked credentials and withdrawn roles are not used by later requests.
NoStaleCaller == changes # Off => G!NoStaleCaller

\* handler/list.go, get.go, policy/rowfilter.go: only rows the caller may see.
GivesOnlyRightful == pc # Off => OnlyRightful

\* query/cursor.go, query/relations.go: a walk over the pages follows the sort order, misses no
\* row that stood still meanwhile, and loses no relation -- unless it is sorted by a boolean, which
\* the cursor brings back as a text, on MySQL or SQLite (Survives).
WalksRight == pc # Off => InOrder /\ Complete /\ NoLostRelation
=============================================================================

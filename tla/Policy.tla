------------------------------- MODULE Policy -------------------------------
(***************************************************************************)
(* What a caller may do (internal/policy, middleware/rbac.go,              *)
(* handler/fieldmask.go): role policies with wildcards and inheritance,    *)
(* condition expressions on the subject, and row_access rules, of which    *)
(* the first that matches decides.  All of it is pure: the request gate    *)
(* (Gate) and the read path (Listing) evaluate these operators.            *)
(*                                                                         *)
(* A subject is a record of strings, or Nobody when the request is         *)
(* anonymous.  Strings are abstracted to what the comparisons look at:     *)
(* their place in the byte order, the number they parse to if they do, and *)
(* their prefixes and suffixes.                                            *)
(***************************************************************************)
EXTENDS Integers, Sequences, FiniteSets

CONSTANTS
    Nobody,     \* a request without a subject
    Rank,       \* string -> its place in the byte order; "" is the least
    Numeric,    \* string that parses as a float -> its value
    Starts,     \* string -> its prefixes
    Ends        \* string -> its suffixes

Attributes == {"id", "role", "email", "tenant"}

AllActions == {"list", "get", "create", "update", "delete"}

(***************************************************************************)
(* Conditions: [attr, op, vals], or attr "*" for the one that always holds.*)
(* An anonymous caller has "" for every attribute, even an unknown one,    *)
(* which for anybody else is an error.                                     *)
(***************************************************************************)
SubjectAttr(sub, attr) == IF sub = Nobody \/ attr \notin Attributes THEN "" ELSE sub[attr]

\* Numbers compare as numbers, anything else in byte order.
CompareValues(op, lhs, rhs) ==
    LET numbers == {lhs, rhs} \subseteq DOMAIN Numeric
        l == IF numbers THEN Numeric[lhs] ELSE Rank[lhs]
        r == IF numbers THEN Numeric[rhs] ELSE Rank[rhs]
    IN  CASE op = "==" -> l = r
          [] op = "!=" -> l # r
          [] op = ">"  -> l > r
          [] op = "<"  -> l < r
          [] op = ">=" -> l >= r
          [] op = "<=" -> l <= r

\* vals is the parsed right-hand side: a list for in and not_in, else one value.
ApplyOp(op, lhs, vals) ==
    CASE op = "in"          -> lhs \in vals
      [] op = "not_in"      -> lhs \notin vals
      [] op = "starts_with" -> \E v \in vals : v \in Starts[lhs]
      [] op = "ends_with"   -> \E v \in vals : v \in Ends[lhs]
      [] OTHER              -> \E v \in vals : CompareValues(op, lhs, v)

MatchCondition(c, sub) ==
    CASE c.attr = "*" -> "yes"
      [] c.attr \notin Attributes \cup {"*"} /\ sub # Nobody -> "error"
      [] OTHER -> IF ApplyOp(c.op, SubjectAttr(sub, c.attr), c.vals) THEN "yes" ELSE "no"

\* The first condition that does not hold decides; with none left the answer is yes.
EvalConditions(conds, sub) ==
    LET failing == {i \in DOMAIN conds : MatchCondition(conds[i], sub) # "yes"}
    IN  IF failing = {} THEN "yes"
        ELSE MatchCondition(conds[CHOOSE i \in failing : \A j \in failing : i <= j], sub)

(***************************************************************************)
(* Row access.  A rule is [when, filter]; a filter is the sequence of the  *)
(* alternatives of its WHERE fragment, [col, bind] where bind names the    *)
(* subject attribute compared with the column; <<>> is the empty filter,   *)
(* which lets every row through.  Binding gives the alternatives their     *)
(* placeholders, numbered from 1 in the order of the text.                 *)
(***************************************************************************)
BindSubjectParams(filter, sub) ==
    [alts |-> [i \in DOMAIN filter |-> [col |-> filter[i].col, ph |-> i]],
     args |-> [i \in DOMAIN filter |-> SubjectAttr(sub, filter[i].bind)],
     tenant |-> 0]

Open == [alts |-> <<>>, args |-> <<>>, tenant |-> 0]

\* A filter fragment, "denied" or "error".
ResolveRowFilter(rules, sub) ==
    LET deciding == {i \in DOMAIN rules : MatchCondition(rules[i].when, sub) # "no"}
        first    == CHOOSE i \in deciding : \A j \in deciding : i <= j
    IN  CASE rules = <<>> -> [status |-> "ok", row |-> Open]
          [] rules # <<>> /\ deciding = {} -> [status |-> "denied", row |-> Open]
          [] OTHER ->
                IF MatchCondition(rules[first].when, sub) = "error"
                THEN [status |-> "error", row |-> Open]
                ELSE [status |-> "ok", row |-> BindSubjectParams(rules[first].filter, sub)]

(***************************************************************************)
(* Role policies.  A role is [name, inherits, perms], a permission         *)
(* [resource, actions].  Loading expands "*" to every entity and to        *)
(* AllActions, because the enforcer compares literally.                    *)
(***************************************************************************)
Policies(roles, entities) ==
    UNION {UNION {LET resources == IF p.resource = "*" THEN entities ELSE {p.resource}
                      actions   == IF "*" \in p.actions THEN AllActions ELSE p.actions
                  IN  {r.name} \X resources \X actions
                  : p \in r.perms} : r \in roles}

\* The roles a role acts as: itself and, transitively, what it inherits
\* (Casbin's role manager, which follows at most MaxHierarchy links).
MaxHierarchy == 10

Grow(roles, names) == names \cup UNION {r.inherits : r \in {x \in roles : x.name \in names}}

ActsAs(roles, name) ==
    LET up[n \in 0 .. MaxHierarchy] == IF n = 0 THEN {name} ELSE Grow(roles, up[n-1])
    IN  up[MaxHierarchy]

Enforce(roles, entities, role, resource, action) ==
    \E r \in ActsAs(roles, role) : <<r, resource, action>> \in Policies(roles, entities)

(***************************************************************************)
(* Fields: [omit, readRoles, writeRoles].  An empty set of roles restricts *)
(* nothing; an anonymous caller has the empty role.                        *)
(***************************************************************************)
ApplyFieldAccess(fields, record, sub) ==
    {f \in record : fields[f].readRoles = {} \/ SubjectAttr(sub, "role") \in fields[f].readRoles}

ApplyWriteRoles(fields, data, sub) ==
    {f \in data : fields[f].writeRoles = {} \/ SubjectAttr(sub, "role") \in fields[f].writeRoles}

\* What is left of a row when it is returned.
PresentRecord(fields, record, sub) ==
    ApplyFieldAccess(fields, {f \in record : ~fields[f].omit}, sub)
=============================================================================

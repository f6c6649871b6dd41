------------------------------- MODULE Rules -------------------------------
(***************************************************************************)
(* Rules and stamp_when of one entity (schema/rule.go, handler/rules.go)   *)
(* over the life of a row.  Requests reach the row one at a time: PATCH,   *)
(* PUT and Write hold its lock from the read to the commit (EntityWrite).  *)
(*                                                                         *)
(* A value is [kind, n]: times, numbers and booleans by their order, texts *)
(* by their place in the alphabet.                                         *)
(***************************************************************************)
EXTENDS Integers, Sequences

CONSTANTS
    Entities,  \* set of [fields, rules, key]; a field is [col, type, nullable, required, default,
               \* stamp (a set of at most one condition), immutable, writers (roles)]
    Bodies,    \* bodies of requests: columns -> values
    Roles,     \* of the callers
    Dates,     \* texts that read as a time, the time with the same n
    Day,       \* ticks in a day
    MaxTime

\* A table has a column once, a field one stamp_when; operands are fields, literals or now.
OperandsKnown(c) == {c.left.of, c.right.of} \subseteq {"field", "literal", "now"}
RulesAssumption ==
    \A e \in Entities :
        /\ Len(e.fields) \in Nat /\ DOMAIN e.fields = 1 .. Len(e.fields)
        /\ \A i, j \in DOMAIN e.fields : e.fields[i].col = e.fields[j].col => i = j
        /\ \A i \in DOMAIN e.fields : /\ \A c, d \in e.fields[i].stamp : c = d
                                      /\ \A c \in e.fields[i].stamp : OperandsKnown(c)
        /\ \A i \in DOMAIN e.rules : OperandsKnown(e.rules[i])

VARIABLES entity, row, now, last

rvars == <<entity, row, now, last>>

V(kind, n) == [kind |-> kind, n |-> n]
Null == V("null", 0)
NoRow == <<>>

Columns == {entity.fields[i].col : i \in DOMAIN entity.fields}
Field(e, col) == e.fields[CHOOSE i \in DOMAIN e.fields : e.fields[i].col = col]
KindOf(type) ==
    CASE type \in {"timestamptz", "date"} -> "time"
      [] type \in {"integer", "decimal"} -> "number"
      [] type = "boolean" -> "bool"
      [] OTHER -> "text"

-----------------------------------------------------------------------------
(* Conditions: [left, op, right] over operands [of, col, val]. *)

ColumnsIn(c) == {o.col : o \in {o \in {c.left, c.right} : o.of = "field"}}
Literal(o, kind) == o.of = "literal" /\ o.val.kind = kind

OperandKind(e, o) ==
    CASE o.of = "now" -> "time"
      [] o.of = "field" -> KindOf(Field(e, o.col).type)
      [] OTHER -> o.val.kind

\* A quoted literal is taken for whatever it is compared with.
CheckOperandTypes(e, c) ==
    LET a == OperandKind(e, c.left)
        b == OperandKind(e, c.right)
        quoted == Literal(c.left, "text") \/ Literal(c.right, "text")
    IN  /\ ColumnsIn(c) # {}
        /\ a = b \/ quoted \/ "null" \in {a, b}
        /\ {"bool", "null"} \cap {a, b} # {} => c.op \in {"==", "!="}

Builds(e) ==
    /\ \A i \in DOMAIN e.rules : CheckOperandTypes(e, e.rules[i])
    /\ \A i \in DOMAIN e.fields : \A c \in e.fields[i].stamp :
          KindOf(e.fields[i].type) = "time" /\ e.fields[i].nullable /\ CheckOperandTypes(e, c)

OperandValue(o, other, values) ==
    CASE o.of = "now" -> V("time", now)
      [] o.of = "literal" ->
            IF o.val.kind = "text" /\ other.of = "field" /\ o.val.n \in Dates
               /\ OperandKind(entity, other) = "time"
            THEN V("time", o.val.n) ELSE o.val
      [] OTHER -> IF o.col \in DOMAIN values THEN values[o.col] ELSE Null

Related(op, a, b) ==
    CASE op = "==" -> a = b
      [] op = "!=" -> a # b
      [] op = ">"  -> a > b
      [] op = "<"  -> a < b
      [] op = ">=" -> a >= b
      [] op = "<=" -> a <= b

\* TRUE, FALSE or unknown, as the sets of what it may be.
Eval(c, values) ==
    LET l == OperandValue(c.left, c.right, values)
        r == OperandValue(c.right, c.left, values)
    IN  IF Null \in {l, r}
        THEN IF Literal(c.left, "null") \/ Literal(c.right, "null") THEN {(l = r) = (c.op = "==")} ELSE BOOLEAN
        ELSE IF l.kind # r.kind THEN BOOLEAN ELSE {Related(c.op, l.n, r.n)}

Holds(c, values) == Eval(c, values) = {TRUE}

-----------------------------------------------------------------------------
(* applyRules *)

\* The columns of a change and those of the row that it leaves alone.
Over(data, before) ==
    [c \in DOMAIN data \cup DOMAIN before |-> IF c \in DOMAIN data THEN data[c] ELSE before[c]]

MutMerged(before, data) == data

\* The row as it will be stored: the change over what is there.
Merged(before, data) == Over(data, before)

StampValue(f) == V("time", IF f.type = "date" THEN (now \div Day) * Day ELSE now)

\* One field, in the order of the entity's; a stamp may be what a later condition reads.
Stamp(before, data, f) ==
    LET due == {c \in f.stamp : ColumnsIn(c) \cap DOMAIN data # {}}
        after == \A c \in due : Holds(c, Merged(before, data))
        prev == before # NoRow /\ \A c \in due : Holds(c, before)
    IN  IF due = {} \/ after = prev THEN data
        ELSE [c \in DOMAIN data \cup {f.col} |->
                 IF c = f.col THEN IF after THEN StampValue(f) ELSE Null ELSE data[c]]

Stamped(before, data) ==
    LET turn[i \in 0 .. Len(entity.fields)] ==
            IF i = 0 THEN data ELSE Stamp(before, turn[i-1], entity.fields[i])
    IN  turn[Len(entity.fields)]

Broken(values) == \E i \in DOMAIN entity.rules : Eval(entity.rules[i], values) = {FALSE}

-----------------------------------------------------------------------------
(* What is left of a body *)

WriteRoles(f, role) == f.writers = {} \/ role \in f.writers
Restricted(data, cols) == [c \in DOMAIN data \cap cols |-> data[c]]

\* Stamps are never the client's; immutable fields are so once.
StripServerManaged(data, update) ==
    Restricted(data, {c \in Columns : LET f == Field(entity, c) IN f.stamp = {} /\ ~(update /\ f.immutable)})

Input(body, role, update) ==
    StripServerManaged(Restricted(body, {c \in Columns : WriteRoles(Field(entity, c), role)}), update)

\* prepareInput accepts it: types, nulls and, for a whole body, required fields.
Accepts(data, whole) ==
    /\ \A c \in DOMAIN data : LET f == Field(entity, c) IN
          IF data[c] = Null THEN f.nullable ELSE data[c].kind = KindOf(f.type)
    /\ whole => \A c \in Columns : Field(entity, c).required => c \in DOMAIN data

\* PUT: what the body leaves out becomes null.
FillReplaceDefaults(data, role) ==
    Over(data, [c \in {c \in Columns : LET f == Field(entity, c) IN
                          f.nullable /\ ~f.immutable /\ WriteRoles(f, role)} |-> Null])

-----------------------------------------------------------------------------
(* Requests *)

Init ==
    /\ entity \in {e \in Entities : Builds(e)}
    /\ row = NoRow /\ now = 0
    /\ last = [op |-> "none", ok |-> TRUE, filled |-> {}]

Refuse(op) ==
    /\ last' = [op |-> op, ok |-> FALSE, filled |-> {}]
    /\ UNCHANGED <<entity, row, now>>

Save(op, values, filled) ==
    /\ row' = values
    /\ last' = [op |-> op, ok |-> TRUE, filled |-> filled]
    /\ UNCHANGED <<entity, now>>

\* The database fills in defaults and refuses a null where there must be none.
Insert(op, data) ==
    LET values == [c \in Columns |-> IF c \in DOMAIN data THEN data[c] ELSE Field(entity, c).default]
    IN  IF data = NoRow \/ \E c \in Columns : values[c] = Null /\ ~Field(entity, c).nullable
        THEN Refuse(op)
        ELSE Save(op, values, {c \in Columns \ DOMAIN data : values[c] # Null})

\* upsert finds the row: no stamp reaches it.
Overwrite(data) ==
    LET update == Restricted(StripServerManaged(data, TRUE), Columns \ entity.key)
    IN  Save("upsert", Over(update, row), {})

\* prepareCreate: an upsert comes this way too, whether or not its row is there.
Create(op, body, role) ==
    LET data == Input(body, role, FALSE)
        stamped == Stamped(NoRow, data)
        named == \A c \in entity.key : c \in DOMAIN data /\ data[c] # Null
    IN  /\ op = "upsert" => entity.key # {}
        /\ IF ~Accepts(data, TRUE) \/ Broken(stamped) \/ (op = "upsert" /\ ~named) THEN Refuse(op)
           ELSE IF row = NoRow THEN Insert(op, stamped)
           ELSE /\ op = "upsert" /\ \A c \in entity.key : data[c] = row[c]
                /\ Overwrite(stamped)

\* PATCH, PUT and Write's update.
Update(op, body, role) ==
    LET input == Input(body, role, TRUE)
        data == IF op = "put" THEN FillReplaceDefaults(input, role) ELSE input
        stamped == Stamped(row, data)
    IN  /\ row # NoRow
        /\ IF ~Accepts(input, op = "put") \/ Broken(Merged(row, stamped)) \/ stamped = NoRow THEN Refuse(op)
           ELSE Save(op, Over(stamped, row), {})

Delete ==
    /\ row # NoRow
    /\ Save("delete", NoRow, {})

Tick ==
    /\ now < MaxTime
    /\ now' = now + 1
    /\ UNCHANGED <<entity, row, last>>

Next ==
    \/ \E body \in Bodies, role \in Roles :
          \/ \E op \in {"create", "upsert"} : Create(op, body, role)
          \/ \E op \in {"patch", "put"} : Update(op, body, role)
    \/ Delete \/ Tick

Spec == Init /\ [][Next]_rvars

-----------------------------------------------------------------------------
\* A row that is not there has no stamp.
InStep(i) == LET f == entity.fields[i] IN
    \A c \in f.stamp : Holds(c, row) <=> row # NoRow /\ row[f.col] # Null

\* A condition on stamps reads those that come before its own; none, and no stamp, is a default.
Plain(i) ==
    LET f == entity.fields[i]
        later == {entity.fields[j].col : j \in {j \in i .. Len(entity.fields) : entity.fields[j].stamp # {}}}
    IN  /\ f.col \notin last.filled
        /\ \A c \in f.stamp : ColumnsIn(c) \cap (later \cup last.filled) = {}

\* docs/entities.md: rules are checked "against the row as it will be stored", and a stamp is
\* "set to the current time when the condition becomes true, cleared when it becomes false":
\* what a create, a PATCH or a PUT leaves behind breaks no rule and a create or a PATCH puts no
\* stamp out of step, nor renews one, whatever part of the row it sends.  (Values the database
\* fills in are not seen, nor is a condition that holds of columns a create leaves out; upserts
\* of an existing row and PUT have gaps: README, Disagreements.)
RulesHold ==
    (last'.ok /\ last'.op \in {"create", "patch", "put"} /\ row' # row) =>
        \A i \in DOMAIN entity.rules :
            (ColumnsIn(entity.rules[i]) \cap last'.filled = {}) => Eval(entity.rules[i], row') # {FALSE}

StampsFollow ==
    (last'.ok /\ last'.op \in {"create", "patch"} /\ row' # row) =>
        \A i \in DOMAIN entity.fields :
            Plain(i)' /\ InStep(i) =>
                /\ InStep(i)'
                /\ LET f == entity.fields[i] IN
                   (row # NoRow /\ f.stamp # {} /\ \A c \in f.stamp : Holds(c, row) /\ Holds(c, row'))
                        => row'[f.col] = row[f.col]

RowsObey == [][RulesHold /\ StampsFollow]_rvars

\* docs/entities.md: "saving an already-done task keeps its completed_at": a stamp whose
\* condition held before a write and holds after it stands.
StampKept ==
    (row # NoRow /\ row' # NoRow) =>
        \A i \in DOMAIN entity.fields : LET f == entity.fields[i] IN
            (f.stamp # {} /\ \A c \in f.stamp : Holds(c, row) /\ Holds(c, row')) => row'[f.col] = row[f.col]
=============================================================================

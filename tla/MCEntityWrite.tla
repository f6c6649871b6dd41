--------------------------- MODULE MCEntityWrite ---------------------------
(***************************************************************************)
(* Instances of the writes for TLC: the jobs that requests run on rows,    *)
(* and what rules and stamps make of one row.  They share no state, so a   *)
(* behaviour runs one of them; the variables of the other are Off.         *)
(***************************************************************************)
EXTENDS EntityWrite, TLC

CONSTANTS
    k1, k2, r1, r2, r3, Off,
    Entities, Bodies, Roles, Dates, Day, MaxTime  \* Rules

TwoKeys == {k1, k2}
ThreeRequests == {r1, r2, r3}

I(op, key, guard, cond) == [op |-> op, key |-> key, guard |-> guard, cond |-> cond]
Single(item) == [items |-> <<item>>, partial |-> FALSE]
Bulk(item1, item2, p) == [items |-> <<item1, item2>>, partial |-> p]

\* Every operation on one row.
RowJobs ==
    {Single(I("create", k1, 1, FALSE))}
    \cup {Single(I("upsert", k1, g, FALSE)) : g \in {0, 2}}
    \cup {Single(I(op, k1, 0, FALSE)) : op \in {"ignore", "update", "delete"}}
    \cup {Single(I(op, k1, 0, c)) : op \in {"patch", "remove"}, c \in BOOLEAN}

\* Transactions over two rows, in either order, and partial bulk requests.
BulkJobs ==
    {Bulk(I("upsert", a, 1, FALSE), I(op, b, 2, FALSE), p) :
        a \in TwoKeys, b \in TwoKeys, op \in {"create", "upsert", "delete"}, p \in BOOLEAN}

All(jobs) == [r \in ThreeRequests |-> jobs]
OnlyTwo(jobs) == [r \in ThreeRequests |-> IF r = r3 THEN {} ELSE jobs]
Deployment(e, soft, sameDB, jobs) == [engine |-> e, soft |-> soft, sameDB |-> sameDB, jobs |-> jobs]

\* Three requests race for one row; two bulk requests for two; an entity of another database.
MCDeployments ==
    [rowLocks |-> Deployment("lock", TRUE, TRUE, All(RowJobs)),
     rowSnapshots |-> Deployment("snapshot", TRUE, TRUE, All(RowJobs)),
     bulk |-> Deployment("lock", FALSE, TRUE, OnlyTwo(BulkJobs)),
     elsewhere |-> Deployment("lock", TRUE, FALSE, OnlyTwo(RowJobs))]

-----------------------------------------------------------------------------
\* Fields, rules and stamps.
V(kind, n) == [kind |-> kind, n |-> n]
Time(n) == V("time", n)
Null == V("null", 0)
True == V("bool", 1)

Operand(of, col, val) == [of |-> of, col |-> col, val |-> val]
Column(col) == Operand("field", col, Null)
Lit(val) == Operand("literal", "", val)
Now == Operand("now", "", Null)
If(left, op, right) == [left |-> left, op |-> op, right |-> right]

Field(col, type) ==
    [col |-> col, type |-> type, nullable |-> TRUE, required |-> FALSE, default |-> Null,
     stamp |-> {}, immutable |-> FALSE, writers |-> {}]
Ref == [Field("ref", "text") EXCEPT !.immutable = TRUE]
Start == [Field("start", "timestamptz") EXCEPT !.nullable = FALSE, !.required = TRUE]
End == Field("end", "timestamptz")
Done == [Field("done", "boolean") EXCEPT !.nullable = FALSE, !.default = V("bool", 0)]
EditorsDone == [Done EXCEPT !.default = True, !.writers = {"editor"}]
DoneAt == [Field("doneAt", "timestamptz") EXCEPT !.stamp = {If(Column("done"), "==", Lit(True))}]
Open == [Field("open", "timestamptz") EXCEPT !.stamp = {If(Column("end"), "==", Lit(Null))}]
Filed == [Field("filed", "date") EXCEPT !.stamp = {If(Column("doneAt"), "!=", Lit(Null))}]

Task == [fields |-> <<Ref, Start, End, Done, DoneAt, Filed>>,
         rules |-> <<If(Column("end"), ">", Column("start"))>>, key |-> {"ref"}]

\* A stamp on a stamp, after it and before it, on a null, with a default; rules over two columns,
\* a literal and now; and two that stop the start: no order with null, a stamp that is not nullable.
MCEntities ==
    {Task,
     [fields |-> <<Filed, Start, End, EditorsDone, [DoneAt EXCEPT !.default = Time(0)], Open>>,
      rules |-> <<If(Column("end"), "<=", Lit(V("text", 1))), If(Column("end"), ">=", Now),
                  If(Column("done"), "!=", Lit(True))>>, key |-> {}],
     [fields |-> <<Start, End>>, rules |-> <<If(Column("end"), ">", Lit(Null))>>, key |-> {}],
     [fields |-> <<Start, [DoneAt EXCEPT !.nullable = FALSE], Done>>, rules |-> <<>>, key |-> {}]}
OnlyTasks == {Task}

ValuesOf ==
    [ref |-> {V("text", 1)}, start |-> {Time(1), Null}, end |-> {Null, Time(0), Time(2)},
     done |-> {V("bool", 0), True}]

\* Every choice of columns and values, and a body with a stamp and a text for a time.
MCBodies ==
    UNION {{b \in [cols -> UNION {ValuesOf[c] : c \in cols}] : \A c \in cols : b[c] \in ValuesOf[c]} :
              cols \in SUBSET DOMAIN ValuesOf}
    \cup {("doneAt" :> Time(0)) @@ ("start" :> V("text", 1))}

-----------------------------------------------------------------------------
VARIABLES entity, row, now, last  \* Rules

R == INSTANCE Rules

ASSUME RulesAssumed == R!RulesAssumption

ruleVars == <<entity, row, now, last>>
all == <<vars, ruleVars>>

WriteOff == /\ deployed = Off /\ table = Off /\ log = Off /\ lock = Off /\ job = Off /\ pos = Off /\ pc = Off
            /\ seen = Off /\ before = Off /\ dirty = Off /\ events = Off /\ snap = Off /\ results = Off
RulesOff == entity = Off /\ row = Off /\ now = Off /\ last = Off

InWrite(A) == deployed # Off /\ A /\ UNCHANGED ruleVars
InRules(A) == last # Off /\ A /\ UNCHANGED vars

RulesSpec == WriteOff /\ R!Init /\ [][InRules(R!Next)]_all

EntitySpec ==
    /\ (Init /\ RulesOff) \/ (WriteOff /\ R!Init)
    /\ [][InWrite(Next) \/ InRules(R!Next)]_all
    /\ \A r \in Requests : WF_all(InWrite(Step(r)))

-----------------------------------------------------------------------------
\* handler/factory.go (observe): audit rows and outbox messages are the history of the row.
ChangesLogged == deployed # Off => LogExplainsTable

\* handler/create.go, write.go: what a request is told is what happened.
ToldTheTruth == deployed # Off => AnswersTruthful

\* docs/endpoints.md, docs/entities.md: no commit overwrites a row its client has not seen
\* (If-Match) or newer data (stale_guard).
KeepsNewer == [][deployed # Off => ConditionHeld /\ NewestKept]_all

\* handler/tx.go: no request waits for ever for the locks of others.
AllAnswered == <>[](deployed # Off => \A r \in Requests : pc[r] \in {"new", "done"})

\* docs/entities.md: a write leaves no rule broken and no stamp out of step.
RowsObey == [][last # Off => R!RulesHold /\ R!StampsFollow]_all

\* docs/entities.md: "saving an already-done task keeps its completed_at".
SavingKeepsStamp == [][last # Off => R!StampKept]_all
=============================================================================

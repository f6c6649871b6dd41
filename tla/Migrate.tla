------------------------------ MODULE Migrate ------------------------------
(***************************************************************************)
(* Migrations: `yaypi migrate up | down | generate` and the auto_migrate   *)
(* step of a booting server, run by several processes against one          *)
(* database.  A file is a list of statements for the transaction and a     *)
(* list to run outside it; what a statement does is reduced to the tables, *)
(* columns and indexes it adds and to whether its data change took effect. *)
(*                                                                         *)
(* Statements of a transaction are invisible to others until COMMIT, and   *)
(* DDL of two transactions on the same tables does not interleave: the     *)
(* second waits for the first (writer).  MySQL ends the transaction at the *)
(* first DDL statement, and every later statement commits by itself.       *)
(***************************************************************************)
EXTENDS Integers, Sequences, FiniteSets, SequencesExt

CONSTANTS
    Procs,         \* processes that run commands
    Commands,      \* [kind: {"up","down","generate","auto"}, steps: Nat, drift: BOOLEAN]
    Entities,      \* entity -> [cols, indexes, refs, mandatory, unique]: the configured schema, columns and indexes in their order
    Databases,     \* the databases to check: [dialect, pool (max_open_conns)]
    StartFiles,    \* the migrations directory at the start: a sequence of files
    StartTables,   \* tables that may exist at the start, without columns or indexes
    MaxCommands, MaxFaults, MaxFiles,
    None

Numbers == 1 .. MaxFiles
Versions == {"v1", "v2"}  \* a file as it was written, and as somebody edited it

\* A migration there is at the start changes data once, in the script of its transaction.
ChangesOnce(script) ==
    \E i \in DOMAIN script : script[i].do = "data" /\ \A j \in DOMAIN script \ {i} : script[j].do \notin {"data", "undo"}

ASSUME MigrateAssumption ==
    /\ MaxFiles \in Nat /\ Len(StartFiles) \in Nat /\ DOMAIN StartFiles = 1 .. Len(StartFiles)
    /\ Len(StartFiles) <= MaxFiles
    /\ \A f \in DOMAIN StartFiles :
          /\ StartFiles[f] \in [ver : Versions, tx : {StartFiles[f].tx}, outside : {StartFiles[f].outside}]
          /\ ChangesOnce(StartFiles[f].tx)
    /\ Commands \subseteq [kind : {"up", "down", "generate", "auto"}, steps : Nat, drift : BOOLEAN]
    /\ None \notin Procs /\ None \notin Int /\ None \notin Versions

\* Only known entities are referenced (the validator sees to that), no name occurs twice in an
\* entity, and its columns, its indexes and its table are told apart by their names.  Mandatory
\* are the columns (NOT NULL, PRIMARY KEY) whose default does not provide for rows that are there:
\* none, or on SQLite an expression; unique are the UNIQUE and PRIMARY KEY columns and the unique
\* indexes.
ASSUME SchemaAssumption ==
    /\ IsFiniteSet(DOMAIN Entities)
    /\ \A e \in DOMAIN Entities :
          /\ Entities[e].refs \subseteq DOMAIN Entities
          /\ \A names \in {Entities[e].cols, Entities[e].indexes} :
                names \in Seq(ToSet(names)) /\ IsInjective(names) /\ "table" \notin ToSet(names)
          /\ ToSet(Entities[e].cols) \cap ToSet(Entities[e].indexes) = {}
          /\ Entities[e].mandatory \subseteq ToSet(Entities[e].cols)
          /\ Entities[e].unique \subseteq ToSet(Entities[e].cols) \cup ToSet(Entities[e].indexes)

VARIABLES
    server,   \* the database's [dialect, pool]
    db,       \* committed: [have, broken, rows, ran]
    files,    \* the directory: number (its timestamp) -> None or [ver, tx, outside]
    lock,     \* the advisory lock's holder
    writer,   \* whose transaction has written
    proc,     \* process -> where it is in its command
    lost,     \* a lock's connection was dropped under its holder
    bound     \* [commands, faults] so far; an edited file counts as a fault

mvars == <<server, db, files, lock, writer, proc, lost, bound>>

dialect == server.dialect
Table(e) == <<e, "table">>
ColumnsOf(e, cs) == {<<e, c>> : c \in cs}
Stmt(do, e, cs) == [do |-> do, entity |-> e, cols |-> cs]
Control(word) == Stmt(word, None, {})

Idle == [pc |-> "idle", cmd |-> None, todo |-> {}, file |-> None, stmts |-> <<>>, left |-> {}, outside |-> <<>>,
         view |-> None, intx |-> FALSE, saw |-> {}, company |-> {}, clean |-> TRUE]
Ended == {"idle", "ok", "failed", "refused", "dead"}
Active(p) == proc[p].pc \notin Ended

-----------------------------------------------------------------------------
(* The diff *)

\* The configured entities in the order the registry's map happens to give them.
Orders == {o \in [1 .. Cardinality(DOMAIN Entities) -> DOMAIN Entities] :
              \A i, j \in DOMAIN o : i # j => o[i] # o[j]}

Deps(e) == (Entities[e].refs \cap DOMAIN Entities) \ {e}

\* The elements of a sequence that are in S (SelectSeq, as a function the proofs can unfold).
Only(seq, S) ==
    LET kept[n \in 0 .. Len(seq)] ==
          IF n = 0 THEN <<>> ELSE IF seq[n] \in S THEN Append(kept[n-1], seq[n]) ELSE kept[n-1]
    IN kept[Len(seq)]

\* The first of the queue is sorted; the entities for which it was the last dependency queue up.
Turn(order, s) ==
    IF s.queue = <<>> THEN s
    ELSE LET name == Head(s.queue)
             done == ToSet(s.sorted) \cup {name}
         IN [queue |-> Tail(s.queue) \o
                       Only(order, {e \in DOMAIN Entities : name \in Deps(e) /\ Deps(e) \subseteq done}),
             sorted |-> Append(s.sorted, name)]

\* Kahn's algorithm; entities on a cycle follow in the order they came.
TopoSortEntities(order) ==
    LET pass[n \in 0 .. Len(order)] ==
          IF n = 0 THEN [queue |-> Only(order, {e \in DOMAIN Entities : Deps(e) = {}}), sorted |-> <<>>]
          ELSE Turn(order, pass[n-1])
        sorted == pass[Len(order)].sorted
    IN sorted \o Only(order, DOMAIN Entities \ ToSet(sorted))

Columns(e) == ToSet(Entities[e].cols)
Indexes(e) == ToSet(Entities[e].indexes)

\* One statement for each of the names that was not seen.
Missing(do, e, names, saw) ==
    LET absent == Only(names, {x \in ToSet(names) : <<e, x>> \notin saw})
    IN  [j \in DOMAIN absent |-> Stmt(do, e, {absent[j]})]

MutStatements(e, saw) ==
    IF Table(e) \notin saw THEN <<Stmt("create", e, Columns(e))>> ELSE Missing("add", e, Entities[e].cols, saw)

\* The statements that bring what was seen of an entity's table up to the entity.
Statements(e, saw) ==
    (IF Table(e) \notin saw THEN <<Stmt("create", e, Columns(e))>> ELSE Missing("add", e, Entities[e].cols, saw))
    \o Missing("index", e, Entities[e].indexes, saw)

Diff(order, saw) ==
    LET sorted == TopoSortEntities(order)
        upto[n \in 0 .. Len(sorted)] == IF n = 0 THEN <<>> ELSE upto[n-1] \o Statements(sorted[n], saw)
    IN  upto[Len(sorted)]

Objects == UNION {{Table(e)} \cup ColumnsOf(e, Columns(e) \cup Indexes(e)) : e \in DOMAIN Entities}

\* What was seen, and the statements for it.
Plans == {[saw |-> saw, stmts |-> Diff(order, saw)] : saw \in SUBSET Objects, order \in Orders}

\* Only Postgres builds indexes concurrently, outside the transaction.
Concurrent(s) == s.do = "index" /\ dialect = "postgres"
InTx(stmts) == Only(stmts, {s \in ToSet(stmts) : ~Concurrent(s)})
Outside(stmts) == Only(stmts, {s \in ToSet(stmts) : Concurrent(s)})

\* A generated file brings its own BEGIN and COMMIT.
Wrapped(stmts) == IF stmts = <<>> THEN <<>> ELSE <<Control("BEGIN")>> \o stmts \o <<Control("COMMIT")>>
BuildUpSQL(stmts) == [ver |-> "v1", tx |-> Wrapped(InTx(stmts)), outside |-> Outside(stmts)]

MutSplitStatements(script) == DOMAIN script

\* The statements of a script that are run: the runner manages the transaction, so control
\* statements and comments are dropped.  (A COMMIT in other words, COMMIT WORK say, would not be:
\* no file has one.)
SplitStatements(script) == {i \in DOMAIN script : script[i].do \notin {"BEGIN", "COMMIT", "comment"}}

-----------------------------------------------------------------------------
(* The database *)

\* CREATE TABLE and CREATE INDEX are IF NOT EXISTS (the index not on MySQL); ADD COLUMN is not.
Applies(d, s) ==
    CASE s.do = "create" -> dialect = "sqlite" \/ \A r \in Entities[s.entity].refs \ {s.entity} : Table(r) \in d.have
      [] s.do = "add"    -> Table(s.entity) \in d.have /\ ColumnsOf(s.entity, s.cols) \cap d.have = {}
      [] s.do = "index"  -> /\ Table(s.entity) \in d.have
                            /\ dialect = "mysql" => ColumnsOf(s.entity, s.cols) \cap (d.have \cup d.broken) = {}
      [] OTHER -> TRUE

\* SQLite adds no UNIQUE or PRIMARY KEY column, whatever the rows.
NeverAdded(s) == dialect = "sqlite" /\ s.do = "add" /\ s.cols \cap Entities[s.entity].unique # {}

\* Rows may stand in the way of a column they have no value for, or the same value, and of a
\* unique index.  They are in tables that are committed; a new index reads them.
RowsMayRefuse(d, s) ==
    /\ \/ s.do = "add" /\ s.cols \cap (Entities[s.entity].mandatory \cup Entities[s.entity].unique) # {}
       \/ /\ s.do = "index" /\ s.cols \cap Entities[s.entity].unique # {}
          /\ ColumnsOf(s.entity, s.cols) \cap (d.have \cup d.broken) = {}
    /\ Table(s.entity) \in db.have

\* What a statement does.  (The undo of what is not there does nothing: that a second run of a
\* down script, under no lock, might do more is not modelled.)
Exec(d, s, f, ver) ==
    CASE s.do = "create" -> IF Table(s.entity) \in d.have THEN d
                            ELSE [d EXCEPT !.have = @ \cup {Table(s.entity)} \cup ColumnsOf(s.entity, s.cols)]
      [] s.do = "add"    -> [d EXCEPT !.have = @ \cup ColumnsOf(s.entity, s.cols)]
      [] s.do = "index"  -> [d EXCEPT !.have = @ \cup (ColumnsOf(s.entity, s.cols) \ d.broken)]
      [] s.do = "data"   -> [d EXCEPT !.ran[f] = Append(@, ver)]
      [] s.do = "undo"   -> [d EXCEPT !.ran[f] = IF @ = <<>> THEN @ ELSE Front(@)]
      [] OTHER -> d

EndsTx(s) == s.do = "COMMIT" \/ (dialect = "mysql" /\ s.do \in {"create", "add", "index", "undo"})

MutConnected(p) == server.pool > (IF lock = p THEN 2 ELSE 0)

\* The lock keeps a pooled connection: the rest of the command needs another.
Connected(p) == server.pool > (IF lock = p THEN 1 ELSE 0)

-----------------------------------------------------------------------------
\* What applying a file leaves behind.
Adds(file) ==
    UNION {ColumnsOf(s.entity, s.cols) \cup (IF s.do = "create" THEN {Table(s.entity)} ELSE {}) :
              s \in {t \in ToSet(file.tx \o file.outside) : t.do \in {"create", "add", "index"}}}

\* The first files may have been applied before; without them a table may have been made by hand.
Init ==
    /\ server \in Databases
    /\ \E n \in 0 .. Len(StartFiles), T \in SUBSET StartTables :
          /\ n > 0 => T = {}
          /\ db = [have |-> {Table(e) : e \in T} \cup UNION {Adds(StartFiles[f]) : f \in 1 .. n}, broken |-> {},
                   rows |-> [f \in Numbers |-> IF f <= n THEN StartFiles[f].ver ELSE None],
                   ran |-> [f \in Numbers |-> IF f <= n THEN <<StartFiles[f].ver>> ELSE <<>>]]
    /\ files = [f \in Numbers |-> IF f \in DOMAIN StartFiles THEN StartFiles[f] ELSE None]
    /\ lock = None /\ writer = None /\ lost = FALSE
    /\ proc = [p \in Procs |-> Idle]
    /\ bound = [commands |-> 0, faults |-> 0]

Count(what) == bound' = [bound EXCEPT ![what] = @ + 1]

\* Each process remembers what ran while it did.  A generate starts while there is room for
\* its file (MaxFiles).
Start(p, c) ==
    /\ ~Active(p) /\ bound.commands < MaxCommands
    /\ c.kind = "generate" =>
          Len(StartFiles) < MaxFiles /\ files[MaxFiles] = None /\ \A q \in Procs : Active(q) => proc[q].cmd.kind # "generate"
    /\ Count("commands")
    /\ proc' = [q \in Procs |->
          IF q = p THEN [Idle EXCEPT !.cmd = c, !.company = {proc[o].cmd.kind : o \in {r \in Procs \ {p} : Active(r)}},
                                     !.pc = IF c.kind \in {"auto", "generate"} THEN "tables" ELSE "lock"]
          ELSE IF Active(q) THEN [proc[q] EXCEPT !.company = @ \cup {c.kind}] ELSE proc[q]]
    /\ UNCHANGED <<server, db, files, lock, writer, lost>>

Goto(p, label) == proc' = [proc EXCEPT ![p].pc = label]

\* Leaving a command rolls its transaction back and releases the lock.
Leave(p, how) ==
    /\ proc' = [proc EXCEPT ![p] = [Idle EXCEPT !.pc = how, !.cmd = proc[p].cmd,
                                                !.company = proc[p].company, !.clean = proc[p].clean]]
    /\ lock' = IF lock = p THEN None ELSE lock
    /\ writer' = IF writer = p THEN None ELSE writer

\* Diff reads the tables, then the columns, then the indexes, each as it is at that moment.
Fetch(p) ==
    /\ proc[p].pc \in {"tables", "columns", "indexes"}
    /\ LET part == CASE proc[p].pc = "tables" -> db.have \cap {Table(e) : e \in DOMAIN Entities}
                     [] proc[p].pc = "columns" -> db.have \cap UNION {ColumnsOf(e, Columns(e)) : e \in DOMAIN Entities}
                     [] OTHER -> (db.have \cup db.broken) \cap UNION {ColumnsOf(e, Indexes(e)) : e \in DOMAIN Entities}
       IN proc' = [proc EXCEPT ![p].saw = @ \cup part,
                               ![p].pc = CASE @ = "tables" -> "columns" [] @ = "columns" -> "indexes" [] OTHER -> "diff"]
    /\ UNCHANGED <<server, db, files, lock, writer, lost, bound>>

\* autoMigrate: nothing to do, or apply the statements, computed before the lock, under it.
AutoMigrate(p, plan) ==
    /\ proc[p].pc = "diff" /\ proc[p].cmd.kind = "auto" /\ proc[p].saw = plan.saw
    /\ LET stmts == plan.stmts IN
       IF stmts = <<>> THEN Leave(p, "ok")
       ELSE /\ proc' = [proc EXCEPT ![p].stmts = InTx(stmts), ![p].left = DOMAIN InTx(stmts),
                                       ![p].outside = Outside(stmts), ![p].pc = "lock"]
            /\ UNCHANGED <<lock, writer>>
    /\ UNCHANGED <<server, db, files, lost, bound>>

\* A new file is named by the time: after every other.
NewName == {f \in Numbers : /\ f > Len(StartFiles) /\ \A g \in Numbers : g >= f => files[g] = None
                            /\ f - 1 > Len(StartFiles) => files[f - 1] # None}

Generate(p, plan) ==
    /\ proc[p].pc = "diff" /\ proc[p].cmd.kind = "generate" /\ proc[p].saw = plan.saw
    /\ IF plan.stmts = <<>> THEN UNCHANGED files
       ELSE \E f \in NewName : files' = [files EXCEPT ![f] = BuildUpSQL(plan.stmts)]
    /\ Leave(p, "ok")
    /\ UNCHANGED <<server, db, lost, bound>>

AfterLock(kind) == CASE kind = "up" -> "verify" [] kind = "down" -> "select" [] OTHER -> "begin"

MutAcquireLock(p) ==
    /\ proc[p].pc = "lock"
    /\ Goto(p, AfterLock(proc[p].cmd.kind))
    /\ UNCHANGED <<server, db, files, lock, writer, lost, bound>>

AcquireLock(p) ==
    /\ proc[p].pc = "lock"
    /\ IF dialect = "sqlite" THEN UNCHANGED lock ELSE lock = None /\ lock' = p
    /\ Goto(p, AfterLock(proc[p].cmd.kind))
    /\ UNCHANGED <<server, db, files, writer, lost, bound>>

\* lockTimeout: five minutes behind another migrator.
LockTimeout(p) ==
    /\ proc[p].pc = "lock" /\ dialect # "sqlite" /\ lock \notin {None, p}
    /\ Leave(p, "failed")
    /\ UNCHANGED <<server, db, files, lost, bound>>

\* An applied file that was edited or removed stops the command.
Verify(p) ==
    /\ proc[p].pc = "verify" /\ Connected(p)
    /\ LET same(f) == db.rows[f] # None => files[f] # None /\ files[f].ver = db.rows[f] IN
       IF proc[p].cmd.drift \/ \A f \in Numbers : same(f)
       THEN Goto(p, "status") /\ UNCHANGED <<lock, writer>>
       ELSE Leave(p, "failed")
    /\ UNCHANGED <<server, db, files, lost, bound>>

\* As many as the command asked for, from the beginning (Up) or from the end (Down).
FirstOf(S, steps) == {f \in S : steps = 0 \/ Cardinality({g \in S : g < f}) < steps}
LastOf(S, steps) == {f \in S : Cardinality({g \in S : g > f}) < steps}

\* The files without a row.
Status(p) ==
    /\ proc[p].pc = "status" /\ Connected(p)
    /\ LET pending == {f \in Numbers : files[f] # None /\ db.rows[f] = None} IN
       proc' = [proc EXCEPT ![p].todo = FirstOf(pending, proc[p].cmd.steps), ![p].pc = "next"]
    /\ UNCHANGED <<server, db, files, lock, writer, lost, bound>>

\* Down takes the last names of the table.
Select(p) ==
    /\ proc[p].pc = "select" /\ Connected(p)
    /\ proc' = [proc EXCEPT ![p].todo = LastOf({f \in Numbers : db.rows[f] # None}, proc[p].cmd.steps),
                            ![p].pc = "next"]
    /\ UNCHANGED <<server, db, files, lock, writer, lost, bound>>

\* In the order of their names, or against it.
NextFile(p, f) ==
    /\ f \in proc[p].todo
    /\ \A g \in proc[p].todo : IF proc[p].cmd.kind = "down" THEN g <= f ELSE f <= g

\* What of a file is run: to roll back, its other half.
Script(f, kind) ==
    IF kind # "down" THEN files[f].tx
    ELSE IF \E i \in DOMAIN files[f].tx : files[f].tx[i].do = "data" THEN <<Control("undo")>> ELSE <<Control("comment")>>

\* The next file is read whole: what is executed is what the checksum is of.
ReadFile(p) ==
    /\ proc[p].pc = "next"
    /\ \E f \in Numbers :
          /\ NextFile(p, f)
          /\ LET script == Script(f, proc[p].cmd.kind) IN
             IF files[f] = None THEN Leave(p, "failed")
             ELSE /\ proc' = [proc EXCEPT ![p].todo = @ \ {f}, ![p].file = [number |-> f, ver |-> files[f].ver],
                                          ![p].stmts = script, ![p].left = SplitStatements(script),
                                          ![p].outside = IF proc[p].cmd.kind = "down" THEN <<>> ELSE files[f].outside,
                                          ![p].pc = "begin"]
                  /\ UNCHANGED <<lock, writer>>
    /\ UNCHANGED <<server, db, files, lost, bound>>

Finish(p) ==
    /\ proc[p].pc = "next" /\ proc[p].todo = {}
    /\ Leave(p, "ok")
    /\ UNCHANGED <<server, db, files, lost, bound>>

Begin(p) ==
    /\ proc[p].pc = "begin" /\ Connected(p) /\ writer = None
    /\ writer' = p
    /\ proc' = [proc EXCEPT ![p].view = db, ![p].intx = TRUE, ![p].pc = "run"]
    /\ UNCHANGED <<server, db, files, lock, lost, bound>>

\* Outside a transaction the view is the database itself.
Now(p) == IF proc[p].intx THEN proc[p].view ELSE db

\* MySQL commits before a DDL statement, also before one that then fails.
Before(p, s) == IF dialect = "mysql" /\ EndsTx(s) THEN Now(p) ELSE db

Run(p) ==
    /\ proc[p].pc = "run"
    /\ \E i \in proc[p].left :
       LET s == proc[p].stmts[i]
           auto == proc[p].cmd.kind = "auto"
           new == Exec(Now(p), s, IF auto THEN None ELSE proc[p].file.number, IF auto THEN None ELSE proc[p].file.ver)
           apart == ~proc[p].intx \/ EndsTx(s)
       IN /\ \A j \in proc[p].left : i <= j
          /\ \/ ~Applies(Now(p), s) /\ Leave(p, "failed") /\ db' = Before(p, s)
             \/ /\ Applies(Now(p), s) /\ (NeverAdded(s) \/ RowsMayRefuse(Now(p), s))
                /\ Leave(p, "refused") /\ db' = Before(p, s)
             \/ /\ Applies(Now(p), s) /\ ~NeverAdded(s)
                /\ proc' = [proc EXCEPT ![p].left = @ \ {i}, ![p].view = IF apart THEN None ELSE new, ![p].intx = ~apart]
                /\ db' = IF apart THEN new ELSE db
                /\ UNCHANGED <<lock, writer>>
    /\ UNCHANGED <<server, files, lost, bound>>

\* The bookkeeping row, whose name is unique, and COMMIT; auto_migrate records nothing.
Recorded(p) ==
    IF proc[p].cmd.kind = "auto" THEN Now(p)
    ELSE [Now(p) EXCEPT !.rows[proc[p].file.number] =
             IF proc[p].cmd.kind = "down" THEN None ELSE proc[p].file.ver]

Refused(p) ==
    /\ proc[p].cmd.kind = "up"
    /\ Now(p).rows[proc[p].file.number] # None

Commit(p) ==
    /\ proc[p].pc = "run" /\ proc[p].left = {}
    /\ IF Refused(p) THEN Leave(p, "failed") /\ UNCHANGED db
       ELSE /\ db' = Recorded(p)
            /\ writer' = None
            /\ proc' = [proc EXCEPT ![p].view = None, ![p].intx = FALSE, ![p].pc = "outside"]
            /\ UNCHANGED lock
    /\ UNCHANGED <<server, files, lost, bound>>

\* A concurrent index build that does not end leaves its index behind, marked invalid: it exists,
\* so IF NOT EXISTS and the diff pass it over.
LeftInvalid(s) ==
    IF Concurrent(s) THEN [db EXCEPT !.broken = @ \cup (ColumnsOf(s.entity, s.cols) \ db.have)] ELSE db

\* CREATE INDEX CONCURRENTLY, one statement at a time, after the commit.
RunOutside(p) ==
    /\ proc[p].pc = "outside" /\ proc[p].outside # <<>> /\ writer = None /\ Connected(p)
    /\ LET s == Head(proc[p].outside) IN
       \/ ~Applies(db, s) /\ Leave(p, "failed") /\ UNCHANGED db
       \/ /\ Applies(db, s) /\ (NeverAdded(s) \/ RowsMayRefuse(db, s))
          /\ Leave(p, "refused") /\ db' = LeftInvalid(s)
       \/ /\ Applies(db, s) /\ ~NeverAdded(s)
          /\ db' = Exec(db, s, None, None)
          /\ proc' = [proc EXCEPT ![p].outside = Tail(@)]
          /\ UNCHANGED <<lock, writer>>
    /\ UNCHANGED <<server, files, lost, bound>>

AfterOutside(p) ==
    /\ proc[p].pc = "outside" /\ proc[p].outside = <<>>
    /\ IF proc[p].cmd.kind = "auto" THEN Leave(p, "ok")
       ELSE Goto(p, "next") /\ UNCHANGED <<lock, writer>>
    /\ UNCHANGED <<server, db, files, lost, bound>>

-----------------------------------------------------------------------------
(* Faults *)

\* A statement fails, or the process dies, perhaps in a concurrent index build.
CutShort(p) ==
    IF proc[p].pc = "outside" /\ proc[p].outside # <<>> /\ writer = None
    THEN {db, LeftInvalid(Head(proc[p].outside))} ELSE {db}

Fault(p, how) ==
    /\ Active(p) /\ bound.faults < MaxFaults
    /\ Count("faults")
    /\ LET q == proc[p] IN
       /\ proc' = [proc EXCEPT ![p] = [Idle EXCEPT !.pc = how, !.cmd = q.cmd, !.company = q.company, !.clean = FALSE]]
       /\ lock' = IF lock = p THEN None ELSE lock
       /\ writer' = IF writer = p THEN None ELSE writer
    /\ db' \in CutShort(p)
    /\ UNCHANGED <<server, files, lost>>

\* The lock's idle connection is dropped while the command works on another.
LoseLock(p) ==
    /\ lock = p /\ bound.faults < MaxFaults
    /\ lock' = None /\ lost' = TRUE
    /\ Count("faults")
    /\ UNCHANGED <<server, db, files, writer, proc>>

\* Somebody edits or removes one of the files that were there.
Edit(f) ==
    /\ files[f] # None /\ bound.faults < MaxFaults
    /\ \E new \in {None, [files[f] EXCEPT !.ver = "v2"]} : files' = [files EXCEPT ![f] = new]
    /\ Count("faults")
    /\ UNCHANGED <<server, db, lock, writer, proc, lost>>

-----------------------------------------------------------------------------
Step(p) ==
    \/ Fetch(p) \/ AcquireLock(p) \/ LockTimeout(p) \/ Verify(p) \/ Status(p) \/ Select(p)
    \/ ReadFile(p) \/ Finish(p) \/ Begin(p) \/ Run(p) \/ Commit(p) \/ RunOutside(p) \/ AfterOutside(p)
    \/ proc[p].pc = "diff" /\ \E plan \in Plans : AutoMigrate(p, plan) \/ Generate(p, plan)

Next ==
    \/ \E p \in Procs : Step(p) \/ LoseLock(p)
    \/ \E p \in Procs, c \in Commands : Start(p, c)
    \/ \E p \in Procs, how \in {"failed", "dead"} : Fault(p, how)
    \/ \E f \in DOMAIN StartFiles : Edit(f)

Fairness == \A p \in Procs : WF_mvars(Step(p))

Spec == Init /\ [][Next]_mvars /\ Fairness

-----------------------------------------------------------------------------
TypeOK ==
    /\ server \in Databases
    /\ db.have \subseteq Objects /\ db.broken \subseteq Objects
    /\ \A f \in Numbers : db.rows[f] \in Versions \cup {None}
    /\ lock \in Procs \cup {None} /\ writer \in Procs \cup {None}
    /\ lost \in BOOLEAN

\* A migration's changes and its row stand or fall together, once, and the row's checksum is
\* that of the text that ran -- through crashes, failing statements, two migrators and even a
\* lock lost under its holder (applyMigration and rollbackMigration; MySQL excepted, which
\* commits DDL as it goes).
RecordMatchesEffect ==
    dialect # "mysql" =>
        \A f \in DOMAIN StartFiles :
            db.ran[f] = IF db.rows[f] = None THEN <<>> ELSE <<db.rows[f]>>

\* Under the lock, files are applied in the order of their names and rolled back from the end
\* (Up, Down): no file that is still there is skipped by a later one.
AppliedInOrder ==
    (dialect # "sqlite" /\ ~lost) =>
        \A f, g \in Numbers : (g < f /\ db.rows[f] # None /\ files[g] # None) => db.rows[g] # None

Ready(p) == (proc[p].pc = "ok" /\ proc[p].cmd.kind = "auto") => Objects \subseteq (db.have \cup db.broken)

\* A server that got past auto_migrate has every table, column and index of its entities, if
\* only an index whose concurrent build was cut short or refused -- also when replicas boot
\* together, but not when a migration ran between its diff and its lock.
SchemaReady == \A p \in Procs : "up" \notin proc[p].company => Ready(p)

\* A server that boots alone and meets no fault is stopped in auto_migrate by rows alone: by those
\* that a mandatory or unique column, or a unique index, has to be added to (on SQLite by any
\* unique column; pc "refused").  Every other statement that it works out succeeds, whatever
\* earlier boots, crashes, refusals and migrations left behind and in whatever order the registry
\* lists the entities: nothing is added twice, or before what it needs.
AloneSucceeds ==
    \A p \in Procs : (proc[p].cmd # None /\ proc[p].cmd.kind = "auto" /\ proc[p].company = {} /\ proc[p].clean)
                        => proc[p].pc # "failed"

\* The lock does not keep the pool's only connection.
Unblocked == server.pool > 1 \/ dialect = "sqlite"
=============================================================================

---------------------------- MODULE EntityWrite ----------------------------
(***************************************************************************)
(* The write path of internal/handler on one entity with a natural key:    *)
(* create, bulk create (abort and partial), upsert with on_conflict and    *)
(* stale_guard, PATCH/PUT and DELETE with If-Match, and Factory.Write (the *)
(* path of inbox handlers and plugins), each in the transaction of withTx. *)
(* Every SQL statement is one step; statements of different requests       *)
(* interleave as the database lets them.                                   *)
(*                                                                         *)
(* A row's content is named by the write <<request, item>> that produced   *)
(* it, which is also what its ETag tells apart.                            *)
(***************************************************************************)
EXTENDS Integers, Sequences

CONSTANTS
    Keys,        \* natural keys
    Requests,    \* HTTP requests and Write calls; each runs one job
    Deployments  \* name -> [engine, soft, sameDB, jobs]
                 \* engine "lock": SELECT ... FOR UPDATE locks rows (Postgres, MySQL);
                 \*        "snapshot": SQLite, where the code takes no row locks
                 \* soft: the entity's soft_delete
                 \* sameDB: the entity lives in the default database, as the outbox does
                 \* jobs: request -> the [items : Seq(Item), partial : BOOLEAN] it may ask for

None == "none"
NoRow == [id |-> None]
Untouched == [id |-> "untouched"]
NoJob == [items |-> <<>>, partial |-> FALSE]
ByKey == {"create", "upsert", "ignore", "update", "delete"}  \* create and Write
ById == {"patch", "remove"}                                  \* PATCH/PUT, DELETE
Item == [op : ByKey \cup ById, key : Keys, guard : Nat, cond : BOOLEAN]
Job == [items : Seq(Item), partial : BOOLEAN]

ASSUME EntityAssumption ==
    /\ None \notin Keys /\ None \notin Requests
    /\ \A n \in DOMAIN Deployments :
          /\ Deployments[n].engine \in {"lock", "snapshot"}
          /\ Deployments[n].soft \in BOOLEAN /\ Deployments[n].sameDB \in BOOLEAN
          /\ \A r \in Requests : \A j \in Deployments[n].jobs[r] :
                /\ j \in Job /\ j.items # <<>>
                /\ \A p \in DOMAIN j.items :  \* If-Match is for PATCH, PUT and DELETE, of one row
                      /\ j.items[p].cond => j.items[p].op \in ById
                      /\ j.items[p].op \in ById => Len(j.items) = 1

VARIABLES
    deployed, \* the deployment's name
    table,    \* committed rows: [Keys -> NoRow or [id, ver, guard, gone]]
    log,      \* audit rows and outbox messages: <<[by, key, before, after], ...>>
    lock,     \* [Keys -> Requests \cup {None}]: row and unique-index locks
    job, pos, \* the request's job and the item it is at
    pc,       \* the statement it runs next
    seen,     \* the row its client had read when it sent the request
    before,   \* the row its transaction read for the current item
    dirty,    \* its uncommitted rows, Untouched where it wrote none
    events,   \* its uncommitted audit rows and outbox messages
    snap,     \* {the table as its transaction first read it} on SQLite, else {}
    results   \* what it will answer, per item

vars == <<deployed, table, log, lock, job, pos, pc, seen, before, dirty, events, snap, results>>
tx == <<dirty, events, snap>>

engine == Deployments[deployed].engine
SoftDelete == Deployments[deployed].soft
SameDB == Deployments[deployed].sameDB
Jobs(r) == Deployments[deployed].jobs[r]

Clean == [k \in Keys |-> Untouched]

Init ==
    /\ deployed \in DOMAIN Deployments
    /\ table = [k \in Keys |-> NoRow]
    /\ log = <<>>
    /\ lock = [k \in Keys |-> None]
    /\ job = [r \in Requests |-> NoJob]
    /\ pos = [r \in Requests |-> 1]
    /\ pc = [r \in Requests |-> "new"]
    /\ seen = [r \in Requests |-> NoRow]
    /\ before = [r \in Requests |-> NoRow]
    /\ dirty = [r \in Requests |-> Clean]
    /\ events = [r \in Requests |-> <<>>]
    /\ snap = [r \in Requests |-> {}]
    /\ results = [r \in Requests |-> <<>>]

It(r) == job[r].items[pos[r]]
\* Every step ends here; the deployment never changes.
Goto(r, label) == pc' = [pc EXCEPT ![r] = label] /\ UNCHANGED deployed

-----------------------------------------------------------------------------
\* What the database does.

\* The row a statement of r sees under key k.
View(r, k) ==
    IF dirty[r][k] # Untouched THEN dirty[r][k]
    ELSE IF snap[r] = {} THEN table[k]
    ELSE (CHOOSE t \in snap[r] : TRUE)[k]

\* SQLite locks the whole database for writing.
Claims(k) == IF engine = "lock" THEN {k} ELSE Keys
CanLock(r, k) == \A x \in Claims(k) : lock[x] \in {None, r}
TakeLock(r, k) == lock' = [x \in Keys |-> IF x \in Claims(k) THEN r ELSE lock[x]]

\* SQLite refuses the first write of a transaction that read an older snapshot.
Outdated(r) == snap[r] # {} /\ table \notin snap[r]
Snapshot(r) ==
    snap' = IF engine = "snapshot" /\ snap[r] = {} THEN [snap EXCEPT ![r] = {table}] ELSE snap

-----------------------------------------------------------------------------
MutRelease(r) == UNCHANGED lock

\* Commit and rollback end the transaction's locks.
Release(r) == lock' = [k \in Keys |-> IF lock[k] = r THEN None ELSE lock[k]]

EndTx(r) ==
    /\ Release(r)
    /\ dirty' = [dirty EXCEPT ![r] = Clean]
    /\ events' = [events EXCEPT ![r] = <<>>]
    /\ snap' = [snap EXCEPT ![r] = {}]
    /\ before' = [before EXCEPT ![r] = NoRow]

\* After a transaction: partial mode goes on with the next item, otherwise the request
\* (or its last item) is answered.
Proceed(r, outs) ==
    /\ results' = [results EXCEPT ![r] = outs]
    /\ IF job[r].partial /\ pos[r] < Len(job[r].items)
       THEN pos' = [pos EXCEPT ![r] = @ + 1] /\ Goto(r, "prepare")
       ELSE UNCHANGED pos /\ Goto(r, "done")

MutErrors(r) == Append(results[r], "error")

\* The answer after a failure: in abort mode the whole request failed.
Errors(r) ==
    IF job[r].partial THEN Append(results[r], "error")
    ELSE [p \in 1 .. Len(job[r].items) |-> "error"]

\* withTx rolls back and the error is answered.
Rollback(r) ==
    /\ EndTx(r)
    /\ Proceed(r, Errors(r))
    /\ UNCHANGED <<table, log, job, seen>>

\* The item is through; the next statement belongs to the next item, or is COMMIT.
FirstStatement(item) == IF item.op = "create" THEN "insert" ELSE "read"
ItemDone(r, outcome) ==
    /\ results' = [results EXCEPT ![r] = Append(@, outcome)]
    /\ IF job[r].partial \/ pos[r] = Len(job[r].items)
       THEN UNCHANGED pos /\ Goto(r, "commit")
       ELSE pos' = [pos EXCEPT ![r] = @ + 1] /\ Goto(r, FirstStatement(job[r].items[pos[r] + 1]))

-----------------------------------------------------------------------------
\* A request arrives.  PATCH, PUT and DELETE name a row the client has read.
Begin(r, j) ==
    /\ pc[r] = "new"
    /\ j.items[1].op \in ById => table[j.items[1].key] # NoRow
    /\ job' = [job EXCEPT ![r] = j]
    /\ seen' = [seen EXCEPT ![r] = IF j.items[1].op \in ById THEN table[j.items[1].key] ELSE NoRow]
    /\ Goto(r, "prepare")
    /\ UNCHANGED <<table, log, lock, pos, before, tx, results>>

\* Decoding, write roles, validation, subject defaults, natural key, BeforeCreate hook
\* and rules passed.
Prepare(r) ==
    /\ pc[r] = "prepare"
    /\ Goto(r, FirstStatement(It(r)))
    /\ UNCHANGED <<table, log, lock, job, pos, seen, before, tx, results>>

\* Which row FindByKey or Get returns.
Matches(r, row) ==
    LET op == It(r).op IN
    /\ row # NoRow
    /\ op \in {"update", "delete"} \cup ById => ~row.gone
    /\ op \in ById => row.id = seen[r].id

MutPreconditionFails(r, row) == FALSE

\* If-Match: the ETag of the stored row against the one the client had.
PreconditionFails(r, row) == It(r).cond /\ row.ver # seen[r].ver

MutLocksRow(r) == FALSE

\* FOR UPDATE is part of the SELECT except on SQLite.
LocksRow(r) == engine = "lock"

Go(r, label) == Goto(r, label) /\ UNCHANGED <<pos, results>>

\* upsert, once FindByKey has returned.
UpsertRead(r, found) ==
    /\ It(r).op \in {"upsert", "ignore"}
    /\ \/ ~found /\ Go(r, "insert")
       \/ found /\ It(r).op = "ignore" /\ ItemDone(r, "ignored")
       \/ found /\ It(r).op = "upsert" /\ Go(r, "write")

\* update (PATCH, PUT): 404, 412 or on to the hooks, the rules and the UPDATE.
UpdateRead(r, found, row) ==
    /\ It(r).op = "patch"
    /\ Go(r, IF ~found \/ PreconditionFails(r, row) THEN "refuse" ELSE "write")

\* Delete: 404, 412 or on to the hook and the DELETE.
DeleteRead(r, found, row) ==
    /\ It(r).op = "remove"
    /\ Go(r, IF ~found \/ PreconditionFails(r, row) THEN "refuse" ELSE "write")

\* applyWrite: deleting what is not there succeeds, updating it does not.
ApplyWriteRead(r, found) ==
    /\ It(r).op \in {"update", "delete"}
    /\ \/ found /\ Go(r, "write")
       \/ ~found /\ It(r).op = "delete" /\ ItemDone(r, "not_found")
       \/ ~found /\ It(r).op = "update" /\ Go(r, "refuse")

\* The SELECT that starts an upsert, an update or a delete, and what the code does with
\* its result.  BeforeUpdate and BeforeDelete hooks and rules are passed here: a failure
\* of one is Fail.
Read(r) ==
    LET k == It(r).key
        row == View(r, k)
        found == Matches(r, row)
    IN
    /\ pc[r] = "read"
    /\ IF LocksRow(r) /\ found THEN CanLock(r, k) /\ TakeLock(r, k) ELSE UNCHANGED lock
    /\ Snapshot(r)
    /\ before' = [before EXCEPT ![r] = IF found THEN row ELSE NoRow]
    /\ \/ UpsertRead(r, found)
       \/ UpdateRead(r, found, row)
       \/ DeleteRead(r, found, row)
       \/ ApplyWriteRead(r, found)
    /\ UNCHANGED <<table, log, job, seen, dirty, events>>

Put(r, row) == dirty' = [dirty EXCEPT ![r][It(r).key] = row]
This(r) == <<r, pos[r]>>

\* INSERT: waits for another transaction's insert of the key, then the unique index
\* decides.
Insert(r) ==
    LET k == It(r).key IN
    /\ pc[r] = "insert" /\ CanLock(r, k)
    /\ IF Outdated(r) \/ View(r, k) # NoRow
       THEN Goto(r, "refuse") /\ UNCHANGED <<lock, dirty>>
       ELSE /\ TakeLock(r, k)
            /\ Put(r, [id |-> This(r), ver |-> This(r), guard |-> It(r).guard, gone |-> FALSE])
            /\ Goto(r, "observe")
    /\ Snapshot(r)
    /\ before' = [before EXCEPT ![r] = NoRow]
    /\ UNCHANGED <<table, log, job, pos, seen, events, results>>

MutFresh(it, row) == TRUE

\* stale_guard: the stored value is NULL or older.
Fresh(it, row) == it.op = "upsert" /\ it.guard # 0 => row.guard = 0 \/ row.guard < it.guard

\* The row an UPDATE leaves; a revived row is no longer deleted.
Updated(r, row) ==
    [row EXCEPT !.ver = This(r), !.gone = FALSE,
                !.guard = IF It(r).guard # 0 THEN It(r).guard ELSE @]

Deleted(r, row) ==
    IF SoftDelete THEN [row EXCEPT !.ver = This(r), !.gone = TRUE] ELSE NoRow

Written(r, row) ==
    IF It(r).op \in {"remove", "delete"} THEN Deleted(r, row) ELSE Updated(r, row)

\* UPDATE or DELETE by id; its WHERE clause is evaluated on the row as it is now.
Write(r) ==
    LET it == It(r)
        row == View(r, it.key)
        same == row # NoRow /\ row.id = before[r].id /\ (row.gone => before[r].gone)
    IN
    /\ pc[r] = "write" /\ CanLock(r, it.key)
    /\ \/ /\ ~Outdated(r) /\ same /\ Fresh(it, row)
          /\ TakeLock(r, it.key) /\ Put(r, Written(r, row)) /\ Goto(r, "observe")
          /\ UNCHANGED <<pos, results>>
       \/ /\ ~Outdated(r) /\ it.op = "upsert" /\ it.guard # 0 /\ ~(same /\ Fresh(it, row))
          /\ ItemDone(r, "unchanged") /\ UNCHANGED <<lock, dirty>>
       \/ /\ Outdated(r) \/ (~same /\ ~(it.op = "upsert" /\ it.guard # 0))
          /\ Goto(r, "refuse") /\ UNCHANGED <<lock, dirty, pos, results>>
    /\ Snapshot(r)
    /\ UNCHANGED <<table, log, job, seen, before, events>>

\* The data holds no column to set (ErrNoFields): no UPDATE is sent.
NoFields(r) ==
    /\ pc[r] = "write"
    /\ It(r).guard = 0
    /\ It(r).op = "update" \/ (It(r).op = "upsert" /\ ~before[r].gone)
    /\ ItemDone(r, "unchanged")
    /\ UNCHANGED <<table, log, lock, job, seen, before, tx>>

Outcome(r) ==
    IF before[r] = NoRow THEN "created"
    ELSE IF It(r).op \in {"remove", "delete"} THEN "deleted" ELSE "updated"

\* observe: the audit row and the outbox messages, in the transaction unless the outbox
\* is in another database.
Observe(r) ==
    LET e == [by |-> This(r), key |-> It(r).key, before |-> before[r],
              after |-> dirty[r][It(r).key]]
    IN
    /\ pc[r] = "observe"
    /\ IF SameDB
       THEN events' = [events EXCEPT ![r] = Append(@, e)] /\ UNCHANGED log
       ELSE log' = Append(log, e) /\ UNCHANGED events
    /\ ItemDone(r, Outcome(r))
    /\ UNCHANGED <<table, lock, job, seen, before, dirty, snap>>

\* COMMIT, the After hooks and the answer.
Commit(r) ==
    /\ pc[r] = "commit"
    /\ table' = [k \in Keys |-> IF dirty[r][k] # Untouched THEN dirty[r][k] ELSE table[k]]
    /\ log' = log \o events[r]
    /\ EndTx(r)
    /\ Proceed(r, results[r])
    /\ UNCHANGED <<job, seen>>

\* Not found, precondition failed, unique violation, SQLITE_BUSY.
Refuse(r) == pc[r] = "refuse" /\ Rollback(r)

\* Validation, a hook, a rule or a statement fails, or the client goes away.  The result
\* of an item that had succeeded before its COMMIT failed is replaced.
Fail(r) ==
    /\ pc[r] \notin {"new", "refuse", "done"}
    /\ EndTx(r)
    /\ Proceed(r, IF pc[r] = "commit" /\ job[r].partial
                  THEN [results[r] EXCEPT ![pos[r]] = "error"] ELSE Errors(r))
    /\ UNCHANGED <<table, log, job, seen>>

\* r waits for a lock that s holds.
Waits(r, s) ==
    /\ r # s /\ pc[r] \in {"read", "insert", "write"}
    /\ pc[r] = "read" => LocksRow(r) /\ Matches(r, View(r, It(r).key))
    /\ \E x \in Claims(It(r).key) : lock[x] = s

\* r is on a cycle of transactions that wait for each other's locks.
Deadlocked(r) ==
    \E S \in SUBSET Requests :
        /\ r \in S
        /\ \A s \in S : (\E t \in S : Waits(s, t)) /\ (\E t \in S : Waits(t, s))

\* The database breaks a cycle of waiting transactions.
Victim(r) == Deadlocked(r) /\ Rollback(r)

Step(r) ==
    \/ Prepare(r) \/ Read(r) \/ Insert(r) \/ Write(r) \/ NoFields(r) \/ Observe(r)
    \/ Commit(r) \/ Refuse(r) \/ Victim(r)

Next == \E r \in Requests : (\E j \in Jobs(r) : Begin(r, j)) \/ Step(r) \/ Fail(r)

Spec == Init /\ [][Next]_vars

\* net/http runs an accepted request to its end and the database answers.
FairSpec == Spec /\ \A r \in Requests : WF_vars(Step(r))

-----------------------------------------------------------------------------
Row == [id : Requests \X Nat, ver : Requests \X Nat, guard : Nat, gone : BOOLEAN]
Changed == {"created", "updated", "deleted"}

TypeOK ==
    /\ deployed \in DOMAIN Deployments
    /\ table \in [Keys -> Row \cup {NoRow}]
    /\ lock \in [Keys -> Requests \cup {None}]
    /\ pos \in [Requests -> Nat \ {0}]
    /\ pc \in [Requests -> {"new", "prepare", "read", "insert", "write", "observe", "commit",
                            "refuse", "done"}]
    /\ \A r \in Requests : pc[r] # "new" => job[r] \in Jobs(r) /\ pos[r] \in 1 .. Len(job[r].items)
    /\ seen \in [Requests -> Row \cup {NoRow}]
    /\ before \in [Requests -> Row \cup {NoRow}]
    /\ dirty \in [Requests -> [Keys -> Row \cup {NoRow, Untouched}]]
    /\ \A r \in Requests : results[r] \in Seq(Changed \cup {"unchanged", "ignored", "not_found", "error"})

\* After the first n entries of the history h, which found row `from` under key k, the
\* row there is `to`.
Leaves(h, n, k, from, to) ==
    LET own == {i \in 1 .. n : h[i].key = k} IN
    \/ own = {} /\ to = from
    \/ \E i \in own : to = h[i].after /\ \A j \in own : j <= i

\* h tells how the rows `from` became the rows `to`.
History(h, from, to) ==
    /\ \A i \in DOMAIN h : Leaves(h, i - 1, h[i].key, from[h[i].key], h[i].before)
    /\ \A k \in Keys : Leaves(h, Len(h), k, from[k], to[k])

\* The audit rows and outbox messages of a key, in commit order, are exactly the changes
\* its row went through: each starts from the row the one before it left, and the last
\* leaves the row as it is.  No committed change is missing, none is reported that was
\* rolled back, and none was computed from a row another request had replaced.  (An entity
\* outside the default database has no such chain: AnswersTruthful.)
LogExplainsTable == SameDB => History(log, [k \in Keys |-> NoRow], table)

\* What a request is told is what happened: an item reported created, updated or deleted
\* is committed, and in abort mode (and in Factory.Write) one failure leaves nothing of the
\* whole request.  Any other item left no trace -- unless the entity lives outside the default
\* database, where the outbox message is committed on its own and survives a rollback.
AnswersTruthful ==
    \A r \in Requests : pc[r] = "done" =>
        \A p \in 1 .. Len(results[r]) :
            LET traced == \E i \in 1 .. Len(log) : log[i].by = <<r, p>>
            IN  /\ results[r][p] \in Changed => traced
                /\ SameDB => (traced => results[r][p] \in Changed)

\* docs/endpoints.md: with If-Match, "if the record changed since you read it, the write
\* is refused with 412 and nothing changes": when a conditional write commits, the
\* committed row is still the very version its client had read.
ConditionHeld ==
    \A r \in Requests :
        (pc[r] = "commit" /\ table' # table /\ pc'[r] = "done" /\ It(r).cond) =>
            table[It(r).key].ver = seen[r].ver

\* Items of a bulk create or an upsert; update and delete in Factory.Write ask for no guard.
Upserts(items, k, n) == \A p \in 1 .. n : items[p].key = k => items[p].op \in {"create", "upsert", "ignore"}

\* docs/entities.md: stale_guard "stops out-of-order deliveries from overwriting newer
\* data": a row that an upsert with a guard value commits over never held the same or a
\* newer one, whatever wrote it and whatever committed since the upsert read it.  (Unless
\* the same call of Factory.Write had updated or deleted the row before.)
NewestKept ==
    \A k \in Keys :
        /\ table[k] # NoRow /\ table'[k] # NoRow /\ table'[k] # table[k]
        /\ LET items == job[table'[k].ver[1]].items
               p     == table'[k].ver[2]
           IN  items[p].op = "upsert" /\ items[p].guard # 0 /\ Upserts(items, k, p)
        => table[k].guard < table'[k].guard

\* No commit overwrites what it was to respect: a row its client has not seen, or newer data.
NoneOverwritten == [][ConditionHeld /\ NewestKept]_vars

\* No request waits for ever for the locks of others, in whatever order they take them.
\* (Each request is sent once, so there is a time after which none is under way.)
Answered == <>[](\A r \in Requests : pc[r] \in {"new", "done"})
=============================================================================

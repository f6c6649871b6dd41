# A verification of yayPI in TLA+

yayPI serves a REST API from YAML: entities become tables and CRUD endpoints, with
authentication, an audit log, outgoing webhooks and emails, incoming webhooks, scheduled
jobs and migrations.  All durable state is in SQL tables shared by any number of replicas.
Nearly every guarantee of the system is therefore one about single SQL statements that
interleave: a lease, a rotating token, an idempotency key, a row that is read and then
written.  The rest is in the order in which small deciders follow one another: the
middlewares, the clauses of a query, the steps of a boot and of a shutdown.  Both are what
this directory models.  Every definition is a translation of the Go code that
`PROJECT.json` ("map") names for it; the database itself is modelled only as far as the
code relies on it.

## 1. Inventory

| component | state | operations | what is hard | correct when |
|---|---|---|---|---|
| claim/retry queue, outbox and inbox workers (`internal/queue`, `outbox`, `inbox`) | rows: status, attempts, next_attempt_at, locked_until; a worker's batch and current item | Enqueue, Due, Claim, deliver, Done, Fail, Purge, Stop | several pollers, leases, crashes between delivery and record, timeouts, stale counters | one deliverer at a time; settled once; every message ends done or dead |
| sessions (`internal/auth/refresh.go`, parts of `handler.go`, `recovery.go`) | refresh tokens, token_version | login, refresh, logout, logout-all, reset | every statement commits on its own; concurrent refreshes | a session never forks; over is over; revoked is dead |
| accounts: registration, one-time tokens, login throttle, OAuth sign-in (`internal/auth`) | the user's row, one-time tokens, OAuth link, failure windows in memory | register, login, forgot, reset, verify, resend, OAuth callback | read-then-mark, void-then-issue, check-then-charge, a lost race for an email | a token is spent once; a reset ends old sessions; a session has an account; a lockout runs out |
| idempotency keys (`internal/handler/idempotency.go`) | one row per key | claim, replay, store, release, expire | races for a key, for an expired key, clients that go away | one record per key and window; a replay is the holder's response |
| cron (`internal/cron`) | one lock row per job, gocron's schedule on each replica | Lock, run with retries, on_failure, Unlock | clock skew, short and long runs, crashes | a tick runs once, runs do not overlap, the job goes on |
| entity writes (`internal/handler`, `internal/query`) with audit log and outbox observer | the entity's rows, row locks, audit and outbox rows | create, bulk create, upsert, PATCH, PUT, DELETE, `Factory.Write` | read-modify-write, If-Match, stale_guard, two engines, deadlocks, partial failure | the audit chain explains the table; nothing newer is overwritten; answers are true |
| rules and stamps (`handler/rules.go`, `schema/rule.go`) | columns kept in step with a condition | applyRules in every write | partial bodies, three-valued conditions, stamps that feed conditions | no rule broken, no stamp out of step |
| entity reads (`handler/list.go`, `get.go`, `query/cursor.go`, `relations.go`) | none; a walk's cursor | get, list, Store reads | cursors over a table that changes, shared placeholders, batches of keys | only rightful rows; a walk is ordered and complete |
| callers: policy, API keys, tokens, rate limiter, router's chain (`internal/middleware`, `policy`, `apikey`, `router`) | users, keys, buckets | one middleware after another | skips between them, stale reads, inherited roles, forwarded addresses | the handler is reached exactly by who may; budgets hold |
| inbox (`internal/inbox`, `signature`, `config/validate_webhooks.go`) | `yaypi_inbox`, target rows | verify, challenge, dedupe, store, route, write | repeats, reordering, crashes, combinations of guards | only the provider is heard; each event once; nothing acknowledged is lost |
| migrations, seeds (`internal/migration`, `seed`) | schema, `yaypi_migrations`, files, advisory lock, seed rows | up, down, generate, auto_migrate, seed | DDL outside transactions, crashes, two commands at once | row and effect agree; files in order; a booted server has its schema |
| server lifecycle (`pkg/server`, `health`, `plugin`) | running parts, listener, plugins, pools | Run: boot, serve, shut down | one deadline shared by steps, parts that do not return | nothing in use is closed early; Run returns |
| schema registry, configuration, dialects, plugins, store, mailer, OpenAPI, metrics, logging, CLI | configuration | wiring and I/O | - | - |

How they interact.  An entity write passes the middlewares, the idempotency wrapper and the
rules, and calls the audit log and the outbox observer inside its transaction.  The outbox
row is later claimed by an outbox worker.  The inbox worker calls `Factory.Write`, the same
write path.  A password reset ends all sessions.  A server's boot runs `auto_migrate`, and
its shutdown stops cron and the workers.

The hazards, each at its line and with the properties that would catch it, are in
`PROJECT.json` ("hazards").

## 2. Modules

| module | models | uses |
|---|---|---|
| `Delivery` | the promise of the queue, without leases, clocks or batches | |
| `Queue`, `MCQueue`, `QueueProofs` | `queue.go` and both workers' `RunOnce` | refines `Delivery` |
| `Sessions`, `MCSessions`, `SessionsProofs` | refresh-token families | |
| `Accounts`, `MCAccounts`, `AccountsProofs` | the account endpoints around one email address | |
| `Idempotency`, `IdempotencyProofs` | `withIdempotency`, `claimIdempotencyKey` | |
| `EntityWrite` | the write path, statement by statement | |
| `Rules` | rules and stamps over the life of one row | |
| `MCEntityWrite`, `EntityWriteProofs` | instances of these two | `EntityWrite`, `Rules` |
| `Policy` | conditions, role inheritance, row access, field masks, as operators | |
| `Gate` | the middleware chain in front of a handler | `Policy` |
| `Listing` | walks over pages, rows and relations | `Policy` |
| `RateLimit` | the token buckets | |
| `MCServing`, `ServingProofs` | instances of these three | `RateLimit`, `Gate`, `Listing` |
| `Migrate` | up, down, generate, auto_migrate of several processes | |
| `Seeds` | seed runs | |
| `MCOperations` | instances of these two | `Migrate`, `Seeds` |
| `CronLock` | `locker.go` and the task of `scheduler.go` | |
| `Lifecycle` | `Run` from boot to exit | |
| `MCLifecycle` | instances of these two | `CronLock`, `Lifecycle` |
| `BackgroundProofs` | proofs about both compositions | `MCLifecycle`, `MCOperations` |
| `Signature` | schemes, signing and verification | |
| `Webhook` | validation of a definition, templates, coercion | `Signature` |
| `Inbox`, `MCInbox`, `InboxProofs` | receiver, inbox rows, workers, the rows they write | `Webhook` |

Where an MC module holds instances of several modules that share no state, a behaviour runs
one of them and the variables of the others are the model value `Off` (`NoCommand` in
`MCOperations`); its properties are those of the parts, each guarded by its part being on.
The parts are instances with names of their own (`R`, `G`, `C`, `P`, `S`) or what the module
extends; theorems are about the composition, and state exactly what the run checks.  Definitions whose names start with
`Mut` are plausible bugs: replacing the definition of the same name by one of them makes a
property fail (`PROJECT.json`, "mutants").

**Queue.**  `status`, `attempts`, `wait`, `lock` are the columns, with times relative to
now since the code compares them with now only.  `pc`, `batch`, `cur`, `verdict`, `age` are
a worker's place in `RunOnce`: `Poll` is `Due`, `ClaimOk`/`ClaimNo` is `Claim`,
`DeliverEnd` is the return of `deliver`, then `Done`, `FailDead`, `FailRetry`, or
`LoseRecord` when that statement fails (its error is dropped in the code).  `FinishBatch`
is `Purge` and the end of the poll.  `cur` carries the attempts that `Due` read, as in the
code.  `Answer` is the latest moment a delivery returns; `Deadline` is the timeout of the
context that delivery and record share.

**Sessions.**  One variable per column of the refresh-token table, one request per handler
call, one step per SQL statement.  `Abort` is a failing statement, a client that goes away
or a crash.  `Login` stands for every handler that ends in `respondWithSession`.
`parent` and `ended` are history variables.

**Accounts.**  One email address, hence at most one row of `users`.  A password, a one-time
token and a session are named by the request that chose or issued them.  `Begin`, `Load`
and the actions after them are the statements of each handler; `snap` is the row a request
read.  The throttle's windows are `fails` and `age` per key (credential, address).  The
exchange with the OAuth provider is external: a callback arrives with an identity.

**Idempotency.**  One key.  The row is named by the request that inserted it, `resp` by
the request whose response it holds.  `old[r]` is the row that was expired when r read its
clock.  Requests are assumed shorter than the retention (24 h by default).

**EntityWrite.**  A row is known by the write that produced it, which is exactly what its
ETag distinguishes.  A request has one or more items; `dirty` and `events` are what its
transaction has written and not committed.  `engine = "lock"` is Postgres and MySQL, where
the lookup says `FOR UPDATE`; `engine = "snapshot"` is SQLite, where it does not and the
database refuses the first write of a transaction whose snapshot is out of date.  `Read`
is `Get`/`FindByKey` with what upsert, update, Delete and applyWrite decide from it;
`Write` is `Builder.update` and `Builder.Delete`; `Observe` is the observers; `Refuse` and
`Fail` are the error paths through `withTx`; `Victim` is the database breaking a deadlock.

**Rules.**  A condition evaluates to the set of what it may be: one value, or both when a
null or values of different kinds make it unknown.  `Stamp` is one turn of applyRules'
loop, `Stamped` the loop, `Broken` the rules after it; `Input`, `Accepts` and
`FillReplaceDefaults` are what is left of a body before.  Requests come one at a time,
since the write path holds the row.

**Policy, Gate, Listing.**  `Policy` holds the pure parts: `MatchCondition`,
`CompareValues`, row filters, masks.  `Gate` follows one request through the middlewares in
the order of `buildMiddlewareChain` while its credentials' rows change; `Allowed` says from
the configuration who may call, without the enforcer or the order of checks.  `Listing`
follows one caller over the pages of a walk while rows are written; `Rightful` reads an
access rule as the SQL an administrator wrote.  A cursor carries what its sort value compares
as when it comes back (`Returned`): numbers, times and texts as they were, booleans as text.

**RateLimit.**  `Allow` in its steps: clock, sweep, lookup, take.  A bucket is an object
that may be in use after the map has dropped it.  Time advances by what one token takes, so tokens
are whole.  `Pause` bounds how long a request is on its way from its clock to its token, as
the few instructions between them do.

**Migrate.**  A file is a list of statements for its transaction and one to run outside it;
a statement is reduced to the objects it adds and to whether its data change took effect.
A statement does not apply (`Applies`: what it needs is not there, or what it adds is), or the
rows refuse it (`RowsMayRefuse`, `NeverAdded`: a mandatory or unique column, a unique index), or
it takes effect; whether a table has rows that refuse is left open.
`todo` and `left` are the files and statements a command has still to go through, `view` what
its transaction sees.
`Diff` orders the entities by Kahn's algorithm (`Turn` is one turn of its queue) and adds for
each what was not seen of it (`Statements`); each of the three reads sees the database of its
own moment.  MySQL ends the transaction at DDL.  `proc[p].company` records who else was at work,
`clean` whether a fault met the process.

**Seeds.**  One step per lookup and insert of a row; runs fail, are repeated, overlap.

**CronLock.**  The lock row, each replica's place in a run, and gocron's tick as the code
configures it: every replica fires every tick within `Skew` of its nominal time.

**Lifecycle.**  `Stages` are those of `Run` in order; each passes, degrades or aborts.  In
the shutdown `at` is the step `Run` waits in, `time.elapsed` runs from its start; a load
balancer reads readiness every `PollEvery` and sends requests where it is good.  In
`MCLifecycle` only stages that a configuration has go wrong.

**Signature, Webhook, Inbox.**  A digest is a term of hash, key and text.  `Valid` is the
validation of a definition as a whole, `Scheme`, `Stamped`, `Verify` what it compiles to.
`Send`, `Again`, `Mistaken` deliver the provider's request, a copy, or one that is not the
provider's: a stranger's, or with body or time changed (`Stray`).  `Asked` says whether there
is a policy engine to ask about `as_role`, which may fail to answer (`Unsure`).  `Process`
is `process` with the write in its own transaction, `Record` is `Done`/`Fail`, `Halt` a
crash, a timeout or a failing record in between, `Unmount` a restart with a configuration
that no longer has the webhook.

## 3. Runs

| run | instance | shows |
|---|---|---|
| queue | 2 messages, 2 replicas, batches of 2, 3 attempts; crashes and failing statements anywhere | `LeaseExclusive`, refinement of `Delivery` (`KeepsPromise`), `Settles` |
| queue_timeout | 1 replica, a handler that runs into its timeout | violated: `Settles` |
| sessions | 4 requests, 3 tokens | `OneLiveToken`, `RotatedOnce`, `NoRevival` |
| sessions_ended | the same | violated: `EndedIsDead` |
| idempotency | 3 requests, 2 bodies, 1 expiry, cancellations | `AtMostOnce`, `ReplayMatches`, `KeyFreed` |
| entity | three writes of every kind on one soft-deletable row, on locks and on snapshots; two bulk requests over two rows in every order; an entity of another database; and one row with rules and stamps through every body, two roles, three moments | `ChangesLogged`, `ToldTheTruth`, `KeepsNewer`, `AllAnswered`, `RowsObey` |
| rules_stamps | the row with rules and stamps | violated: `SavingKeepsStamp` |
| accounts | 3 requests of 8 kinds and deletions, 2 OAuth identities, expiry, failing statements, a limit of 1 failure | `OneTime`, `OldPasswordOut`, `SessionHasUser`, `LockoutRunsOut` |
| serving | 5 requests on one bucket; one request through the gate with up to 2 changes under it; walks over 3 rows, sorted by numbers or booleans on three engines, with up to 2 writes between pages | `LimitHolds`, `DecidesRightly`, `NoStaleCaller`, `GivesOnlyRightful`, `WalksRight` |
| operations | 2 processes, 2 commands each, 2 files and a generated third, 1 fault, four databases; 2 seed runs with 2 faults over four seed files | `EffectRecorded`, `InFileOrder`, `BootReady`, `CommandsEnd`, `SeedsRight` |
| lifecycle | 5 configurations, 16 sets of failing stages, 2 requests; and one cron job on 3 replicas with crashes and failing statements | `StopsInOrder`, `NoRefusal`, `ComesToRest`; `CronOnce`, `CronAlone`, `CronGoesOn` |
| inbox | 20 definitions of which 13 are valid, 5 of those with settings of a signature that no check looks at, 3 events, 2 rows, 2 workers, 2 attempts, 1 crash or failing statement | `GuardsHold`, `OncePerEvent`, `Converges`, `DeadForReason`, `AcknowledgedSettles` |

`PROJECT.json` says of each what it shows.  The passing runs have from 23 thousand
(sessions) to three and a half million (serving) distinct states.  Every module
states a type invariant; only Queue's is listed in a run, where the proofs build on it.

**Bounds, and why they are enough.**

* Queue: two workers give every race over a row, since it has one holder and one contender;
  two messages let a batch hold one while the other is contended; three attempts let a
  retry be neither the first nor the last.  `Lease` 3, `Deadline` 2, `Answer` 1 keep the
  order of the real 2 min, 45 s and 30 s.
* Sessions: a login and three concurrent operations on its session; `MaxVersion` bounds
  token_version, on whose value no property depends.  Accounts: two requests race for a
  token, an email or a window, the third is the one they raced over; requests are
  interchangeable, so the run uses symmetry (its properties are invariants and one property
  of single steps).
* Idempotency: one request finds the key expired while two others race; `MaxExpiries` is
  the expiry between two windows.
* Entity: one write creates the row and two race on it, or three race on a row; two bulk
  requests take two row locks in all orders.  Rules: the two entities have a stamp on a
  stamp before and after it, a default, an immutable and a role-bound column, rules over
  two columns, a quoted literal and `now`; `Day` is 2 so that a date stamp is rounded; one stamp is on a
  null and one has a default, the cases `RowsObey` excepts.  A third and a fourth entity must
  not start.
* Serving: `Burst` 2 and `Rate` 1 over `MaxTime` 7 let a bucket fill, run dry, idle and be
  swept; `Slack` 2 is the minute the sweep adds to the time to refill, and `Pause` 1 lets
  requests overtake each other between any two steps.
  Two changes are one before and one during the request.  Three rows make a last page that
  is short, ties and NULLs; `IncludeBatch` 1 forces a second batch of keys.  `MaxGiven` 4 cuts
  off the walks that repeat their first page for ever.  Rows are stored from the
  first page on: before it, any rows are an initial table.
* Operations: two commands on two processes cover every pair of commands running at once
  and one after the other; four databases are the two locks, SQLite, and a pool of one.
  The schema has a mandatory and a unique column and a unique index, of two entities.
* Lifecycle: each stage fails alone, `openapi` together with `cron`; `CronStop` 2 is longer than
  what is left of a used-up deadline.  Cron: `Skew` 2 < `MinHold` 3 < run <= `Lease` 9, and a
  run of two tries and on_failure reaches past `Period` 7 into the next tick.
* Inbox: one event creates, one updates, one makes no sense; two rows are an event and its
  repeat or two events out of order; `Retention` 2 and `MaxTime` 3 let a row be purged and
  repeated, under a tolerance of 2 also the very request that is still good.

**Fairness.**  Queue: a running worker's loop goes on (`time.Ticker` and a loop without
exits), a stopped replica is restarted by its supervisor, time passes; `Settles` asks for
crashes and failing statements to stop eventually.  Idempotency and EntityWrite: net/http
runs an accepted request to its end and the database answers.  Cron: as for the queue, and
strong fairness of `Gets`: of the Locks that would get the lease the database does not
refuse every one for ever (one that fails now and then is enough to lose a tick, so weaker
fairness would not do).  Migrate: a command that can take its next step takes it.
Lifecycle: `Run` goes on, time passes, the balancer polls and what it sends arrives;
requests, deliveries, jobs and plugins need not end.  Inbox: the workers' loops go on; that
the provider repeats anything is not assumed, but that handlers stop running out of time is: a
timeout is one of the faults that `MaxFaults` bounds, and a handler that always times out is
retried for ever (queue_timeout below, the same code).  With that exception no liveness
property assumes that deliveries or attempts succeed.

**Deadlock checking** is on for the queue runs, which never stop, and off where a behaviour
ends because all requests are answered, the commands have run or the process has exited.

## 4. Disagreements

Three runs find the code at odds with its own documents (`PROJECT.json`, "findings"):

* **queue_timeout** - `Done` and `Fail` use the context whose timeout the handler has just
  used up (`inbox/worker.go:215`), so a handler that times out is never recorded as an
  attempt and is retried at the end of every lease for ever.
* **sessions_ended** - `refresh` stores the next token in a statement of its own
  (`refresh.go:234`); a revocation between consuming the old token and storing the new one
  misses it.
* **rules_stamps** - `fillReplaceDefaults` (`update.go:143`) counts stamp_when fields among
  those a PUT leaves out and sets them to NULL: saving a done task by PUT clears its
  `completed_at`, which docs/entities.md:299-300 says is kept.

Others show as an exception stated in a property, or as a choice of constants:

* `Fail` writes the attempts `Due` read plus one (`queue.go:122`): two replicas with
  overlapping batches write the same number, so a message may be delivered more often than
  docs/production.md:67 says.
* An expired idempotency row is deleted by key only (`idempotency.go:160`): a second request
  that found it expired deletes the first one's fresh claim, and both create a record
  (`Raced` in `AtMostOnce`).
* For an entity outside the default database the outbox message is written on another
  connection (`observer.go:102`) and survives the rollback of its change, unlike
  docs/production.md:65 (`SameDB` in `ToldTheTruth`).
* A sign-in that runs while a reset revokes sessions keeps its session, against
  docs/auth-endpoints.md:167 (`late` in `OldPasswordOut`).
* Access to list endpoints is decided by the permission to `get`: `list`, an action of its
  own in `policy/engine.go:11-13`, is never asked for (`Needs` in Gate).
* `auto_migrate` diffs before it takes the lock (`engine.go:73`): a migration that runs in
  between is not seen, and a table it created lacks the entity's later columns.
  `lock.go:20-22` and docs/migrations.md:233 describe the whole as under the lock (`company`
  in `SchemaReady`).
* The shutdown exceeds `shutdown_timeout` (`server.go:538`: "all within shutdown_timeout") by
  the drain and by what gocron's stop takes, which knows nothing of the context
  (`ShutdownBounded`).
* The advisory lock holds a connection of the pool while the migration asks for another
  (`lock.go:28`): with `max_open_conns: 1` the command waits for ever (`Unblocked` in
  `CommandsEnd`).
* docs/cli.md:99 says seed files are applied on startup; `server.Run` never does.  And
  docs/cli.md:114, "Running this multiple times is safe", does not hold for runs that
  overlap on a key without a unique index (`overlapped` in `SeededOnce`).
* A `CREATE INDEX CONCURRENTLY` that is cut short, or refused because of duplicates, leaves an
  invalid index, which `IF NOT EXISTS` and the next diff take for present, so that the next boot
  gets by (`broken` in `SchemaReady`).
* docs/migrations.md:233 has `auto_migrate` apply the schema diff at startup, and the server not
  start if that fails.  A column that is added (`engine.go:104`) carries the clauses of one
  that is created (`columnDef`, `engine.go:315`): where the table has rows, a NOT NULL column without a default and a UNIQUE
  one are refused, and so is a unique index over duplicates; SQLite adds no UNIQUE or PRIMARY
  KEY column at all and no NOT NULL one whose default is an expression.  The server does not
  boot (pc `"refused"`, excepted in `AloneSucceeds`).
* .ai/config-reference.md:360 calls cursor pagination "complete and stable for any sort".
  `tagValue` (`cursor.go:41`) has no case for booleans and sends them as the text "true" or
  "false".  SQLite compares any text as greater than any number: a walk over a boolean loses
  the rows behind its first page, and descending it repeats that page for ever.  MySQL takes
  the text for 0: an ascending walk goes back once it has come to TRUE (`Survives` in
  `WalksRight`).  The default branch also takes jsonb and binary columns, which are not modelled.
* Validation looks at scheme, secret, the header of the hmac schemes and the encoding of a
  signature (`validate_webhooks.go:65-88`), though docs/webhooks.md has every receiver say how it
  is protected and `timestamp_header` add "replay protection".  A `signed_payload` without
  `{body}` lets a changed body pass, one without `{timestamp}` a changed time; a receiver whose
  `timestamp_header` is its `header`, or whose `signed_payload` has a `{timestamp}` and no header
  for it, refuses all that its provider can sign; and under a tolerance over half the retention
  a request is taken again once its row is purged (`SignsBody`, `SignsTime`, `Agrees`, `Outlived`).
  That a tolerance is negative cannot be: `ParseDuration` (`config/duration.go:25`) refuses it.
* `as_role` is checked only where a policy engine is configured (`worker.go:275`,
  `server.go:435`); without one the webhook writes what it likes, and docs/webhooks.md:65 says
  "unless you set `as_role`" (`def.enforcer` in `WithinGrants`).
* An upsert of an existing row evaluates its stamps without that row and then drops them
  (`upsert.go:114`), so stamps fall out of step with their condition (docs/entities.md:287);
  values the database fills in are seen by neither rules nor stamps; a condition that holds of
  a null (`ends_at == null`) is not looked at by a create that leaves the column out, so the
  stamp is missing, and stays so, as later writes find the condition unchanged
  (`rules.go:32`); a condition on a stamp
  that comes later in the entity reads its old value; and a quoted literal that is no time
  is accepted against a time field, after which the rule always passes.

Facts without a property of their own: `Initial << 20` in the backoff overflows for initial
delays above about 2.4 h (`queue.go:131`); a COMMIT may take effect while its answer is
lost (`tx.go:28`); concurrent resends pass the cooldown together (`recovery.go:279`); a
webhook's event name is cut at 191 bytes (`receiver.go:202`); when a boot fails late, audit
retention goes on and plugins are not shut down until the process ends (`server.go:404`);
`@every` counts from each process's start, so replicas do not fire together and
`Skew < MinHold` fails (`scheduler.go:255`); ticks closer than minHold are skipped; a worker
told to stop finishes its batch; an inbox crash between a write and `Done` repeats a create,
which without a natural key makes a second row; and a purge of done rows forgets their
dedupe keys (docs/webhooks.md:51, :123).

## 5. Proofs

TLAPS checks the following for every value of the constants that the modules' ASSUMEs
allow.

* **Queue** (`QueueProofs`).  `TypeCorrect`: types.  `LeaseInvariant`: the inductive
  invariant is `TypeOK /\ LeaseCovers /\ LeaseExclusive`.  Exclusion alone is not
  inductive: it follows because a row in flight is still pending and its lease still has
  `Lease - age` to go, which under `Timely` (`Answer < Lease`, `Deadline < Lease`) is
  positive, so `Claim` refuses it.  From it follow `Exclusive` and `KeepsItsPromise`, the
  refinement of `Delivery`: `Done` and `Fail` update by id without looking at the lease,
  and the invariant is what makes the updated row the caller's own.  `Timely` is not
  guaranteed for emails, since the SMTP delivery ignores its context.
* **Sessions** (`SessionsProofs`), for any number of requests and tokens.  A family has at
  most one *right to go on*, held by a live token or by a request between consuming a token
  and storing the next (`OneRight`); tokens are issued once, and a consumed token's
  successor is unique (`Lineage`).  Hence `NeverForks`, `RotatesOnce` and the action
  property `StaysOver`.
* **Idempotency** (`IdempotencyProofs`), for any number of requests, bodies and expiries.
  The invariant is `Raced \/ Sound`: unless two requests found the same expired row, the
  request that runs the handler owns the row in the table, the row carries its owner's
  fingerprint and response, and a request about to delete an expired row still finds that
  row.  A race is never undone, so the disjunction is inductive.  Hence `CreatesOnce` and
  the action property `ReplaysItsOwn`.
* **CronLock** (`BackgroundProofs`), for any number of replicas, lease, schedule and retries.
  Nothing in the row says which run it is held for; the invariant does: a run owns the row
  and the lease has at least `Lease` minus its age to go (`Covered`), its age is bounded by
  the try it is at (`Timed`), and the lease of a tick that has run covers the time in which
  other replicas still fire it (`Shielded`).  It needs `Prompt` (`Skew < MinHold`) and
  `RunFits` (all tries, pauses and on_failure fit in the lease): configuration, which the
  code does not check.  Hence `CronOnce` and `CronAlone`.
* **Lifecycle** (`BackgroundProofs`), for any configurations, breakages and requests.
  `Punctual` bounds the clock by where Run is, `Quiet` says that what has been waited for
  does not start again, `Finished` that the listener stays closed, `Balanced` that a
  balancer which still routes has polled before the drain began, so that its last request
  arrives within `PollEvery`.  Hence `StopsInOrder` and `NoRefusal`.  Assumed is only that
  durations are numbers.
* **Migrate** (`BackgroundProofs`), for any directory, schema, databases, commands, processes
  and faults.  `EffectRecorded` and `InFileOrder` are not inductive, since they speak of the
  committed database while a command works on a view of it and on a list it made earlier.
  `MigrateInv` adds what each process knows (`Own`): one of them applies files while the lock
  is kept (`Exclusive`); what it has still to run is the rest of a script that changes data
  once (`Scripted`); its view differs from the database in that one file, by as much as it has
  run (`Viewed`); and below the next file to apply no file is without a row (`Climbs`), above
  the next one to roll back none has one (`Descends`).  Assumed is that a file there at the start changes
  data once, in its transaction (`ChangesOnce`), without which there is no effect to record;
  MySQL and a lost lock are excepted in the properties.
  `BootReady` needs what `Diff` computes.  Its lemmas follow Kahn's algorithm turn by turn
  (`LoopIs`): what is sorted stands behind its references, the queue holds just the entities
  whose references are sorted, and without circular references an entity is left over only
  when all are sorted, since one of least rank would be in the queue.  So the list has every
  entity once, each behind what it refers to, and the statements add every object that was
  not seen, once, and after what it needs.  `BootInv` carries this through the command, on top
  of `MigrateInv`: every object is there or a waiting statement adds it (`OnTrack`), and of a
  process that is alone and unharmed the waiting statements can all be run, one after the
  other, from what its view has (`Feasible`), unless the rows refuse one (`StoppedBoots`).
  It also needs that a table which was not seen, should another server have created it since, has all its columns (`Seen`); a migration
  between diff and lock does not see to that, and is excepted.  Assumed are distinct names
  (`SchemaAssumption`) and `Creatable`, no circular references, which `detectCircularRefs`
  (`validator.go:239`) refuses before a server boots.
* **Seeds** (`BackgroundProofs`), for any files, spellings, runs and faults.  `SeedsInv` keeps
  what a run has passed in the table (`Passing`), stores keys as the column has them
  (`Stored`), and lets a run that is about to insert a key find it absent still, as long as it
  is the only one.  Assumed is that a file is of one entity and that folding a key twice is
  folding it once.
* **Accounts** (`AccountsProofs`), for any numbers of requests and identities.  Besides types
  and which handler runs which step (`Control`): a token that a request voided or consumed
  is used (`Tokens`); whoever opens a session has loaded a user who was there from then on
  (`Users`); and whoever is on the way to a session has the present password, or is one of
  the sign-ins that §4 excuses (`Current`).  Hence `OneTime`, `OldPasswordOut`,
  `SessionHasUser` and the action property `LockoutRunsOut`.
* **EntityWrite** (`EntityWriteProofs`), for any keys, requests, jobs and both kinds of
  engine.  What a transaction has written is locked (`Guarded`), so another's commit leaves
  its rows alone; its events are a history from the committed rows to its own (`Chained`),
  which a commit appends to the log, whose history is that of the whole table.  `Answering`
  relates results to events, `Authored` rows to the items that wrote them, `Conditional`
  and `Newer` say what a row about to be committed has been compared with; on snapshots
  that is what the engine's check of the first write gives.  Hence `ChangesLogged`,
  `ToldTheTruth` and the action property `KeepsNewer` of the composition.
  `EntityAssumption` is the shape of requests: If-Match comes with PATCH, PUT and DELETE of
  one row only.
* **Rules** (`EntityWriteProofs`), for any entities, bodies and roles.  Between requests there
  is little to keep (`RowInv`: the row has its entity's columns); the work is in the loop over
  the fields, `Stamped`.  By induction over its turns a field is not in the change before its
  own turn, and neither the field nor what its condition reads changes after it
  (`StampedField`), so what a turn has judged is the row as stored.  Hence the action property
  `RowsObey`.  Assumed are distinct columns and at most one `stamp_when` of a field
  (`RulesAssumption`).
* **RateLimit** (`ServingProofs`), for any rate, burst and number of requests.  The invariant
  `LInv` weighs grants against tokens: while the map holds a bucket that no sweep has given up
  (`Held`), the grants of any window and the tokens left are no more than what it held and was
  refilled by (`Potential`); and a new bucket, which starts full, is made only when all grants
  are so long ago that the old one would be full again (`Quiet`).  That a sweep and a lookup
  may be separated by a pause is why `Quiet` needs `2 * Pause <= Slack`: without a bound on the pause
  `LimitHolds` fails (with a pause of 2, `Slack` 2, `Burst` 1, `Rate` 1 and five requests TLC
  finds one grant too many).  In the code the slack is a minute.  Hence `LimitHolds`.
* **Gate** (`ServingProofs`), for any roles, hierarchies, endpoints and senders.  `IInv` says
  whose identity the request carries and that it was good at its arrival or later (`Fresh`,
  `Identified`).  The lemmas relate what the code computes to what the configuration means:
  the roles reached in ten rounds are the closure of the role (`ActsAsClosed`, with the
  assumption `HierarchyFits`, as Casbin gives up beyond ten levels), the policy lines are its
  permissions (`PoliciesMean`), a condition list holds when each does (`ConditionsMet`).
  Hence `DecidesRightly` and `NoStaleCaller`.
* **Listing** (`ServingProofs`), for any tables, reads, rules, filters, page and batch sizes and
  writes between pages.  Lemmas show that placeholders are renumbered without mixing up
  arguments (`ShiftedMeans`), that `ORDER BY` with its tie-breaker is a total order
  (`BeforeTotal`), that a cursor's WHERE clause asks for just the rows after it
  (`KeysetIsBefore`), and what a page is (`PageIs`).  `WalkInv` then says that rows given are
  sorted and end where the cursor stands (`Ordered`), that a row which stood still is given
  just when the cursor is past it (`Tracked`), and which keys of a page have been loaded
  (`Loaded`); of walks, only those whose sort value comes back as it was (`Survives`).  Hence
  `GivesOnlyRightful` and `WalksRight`.
* **Inbox** (`InboxProofs`), for any definitions, events, rows, workers and faults.  A row is
  worked on while pending and written for while there (`Worked`); what a worker holds tells
  why (`Reasons`); the age of a row bounds the age of its signature (`Dated`), which is why a
  request whose row was purged is too old to be accepted again; a create that took effect
  has left its row (`CreatedStays`).  Hence `GuardsHold`, `OncePerEvent`, `Converges` and
  `DeadForReason`.  Nothing is assumed of a definition beyond what validation checks: a
  digest differs with the key, with the body if the signed text has it (`OtherBody`), with the
  time if it has that (`OtherTime`), and the properties say which (`Admitted`).  Assumed are only
  that a stranger's key is another key, that durations are not negative and that versions are
  numbers.

Only model-checked: liveness (`Settles`, `KeyFreed`, `AllAnswered`, `CronGoesOn`,
`ComesToRest`, `CommandsEnd`, `AcknowledgedSettles`), as fairness and ENABLED are outside the
prover's reach; and the type invariants of the modules other than Queue, of which the inductive
invariants state what they need.

Induction over naturals is done with the least-number principle on sets (`LeastNumber`,
`AllNumbers`), since the library's induction theorems take an operator as parameter.

## 6. Not modelled, and why

* In the modelled parts: clocks that differ between replicas and the database, except where
  a skew is a constant; which of several due rows `ORDER BY` prefers; what sql and http jobs
  do; an explicit NULL for a stale_guard column; plugin hooks, which appear as failures; the
  GET challenge of a webhook, which keeps no state; conditions and templates of outgoing
  webhooks; `Diff` and `Redact` of the audit log; field constraints of validate.go beyond
  types, nulls and required fields.
* In migrations: a hand-written transaction statement other than the exact words that
  `split.go:107` drops (`COMMIT WORK`); a down script that runs a second time, under no lock or
  a lost one, undoes nothing more; foreign keys and checks that rows violate.
* EntityWrite and Rules are separate: a rule that fails is `Fail` there, and the row a rule
  sees is the locked row here.  Likewise Inbox takes the lease (Queue) and the isolation of
  one write (EntityWrite) for granted.
* Cryptography (a digest is a term), SMTP and HTTP clients, SQL text, parsing of YAML,
  schema registry and resolver (sequential, at boot), mounting of paths, OpenAPI, metrics,
  logging, time formats, the CLI's output.

## 7. What remains

1. Observer conditions and templates (`outbox/render.go`) and the audit diff, composed with
   EntityWrite's log.
2. The composition of Queue and Inbox without the assumption that a row has one worker.

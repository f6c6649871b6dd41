---------------------------- MODULE MCOperations ----------------------------
(***************************************************************************)
(* Instances of the operator's commands for TLC: migrations and seeds.     *)
(* They share no state, so a behaviour runs one of them; the variables of  *)
(* the other are NoCommand.                                                *)
(***************************************************************************)
EXTENDS Migrate

CONSTANTS
    Runs, SeedFiles, Lower, Signups, MaxSeedFaults, NoKey,  \* Seeds
    NoCommand

-----------------------------------------------------------------------------
\* Migrations: two files, one of them generated and completed by hand, and a schema of two entities that goes further than they do.
Data == Stmt("data", None, {})
MCStartFiles ==
    <<[ver |-> "v1", tx |-> <<Control("BEGIN"), Stmt("create", "author", {}), Data, Control("COMMIT")>>, outside |-> <<>>],
      [ver |-> "v1", tx |-> <<Data>>, outside |-> <<Stmt("index", "author", {"name_ix"})>>]>>

\* Rows may refuse the author's columns and the unique index; SQLite never adds the handle.
MCEntities ==
    [author |-> [cols |-> <<"bio", "handle">>, indexes |-> <<"name_ix">>, refs |-> {},
                 mandatory |-> {"bio"}, unique |-> {"handle", "name_ix"}],
     post |-> [cols |-> <<"title">>, indexes |-> <<>>, refs |-> {"author", "post"}, mandatory |-> {"title"}, unique |-> {}]]

Command(kind, steps, drift) == [kind |-> kind, steps |-> steps, drift |-> drift]
MCCommands == {Command("up", 0, FALSE), Command("up", 1, TRUE), Command("down", 1, FALSE),
               Command("generate", 0, FALSE), Command("auto", 0, FALSE)}

\* A pool of one on Postgres is the case in which the lock starves its own command.
MCDatabases == {[dialect |-> "postgres", pool |-> 2], [dialect |-> "mysql", pool |-> 2],
                [dialect |-> "sqlite", pool |-> 1], [dialect |-> "postgres", pool |-> 1]}

-----------------------------------------------------------------------------
\* Seed files: users in two spellings, tags, and rows that cannot be used.
SeedRow(entity, key, password) == [entity |-> entity, key |-> key, password |-> password]
MCSeedFiles ==
    {<<SeedRow("User", "A@x", "plain"), SeedRow("User", "a@x", "plain"), SeedRow("User", "b@x", "none")>>,
     <<SeedRow("Tag", "A@x", "none"), SeedRow("Tag", "a@x", "none")>>,
     <<SeedRow("User", "A@x", "plain"), SeedRow("User", "b@x", "")>>,
     <<SeedRow("Tag", "A@x", "none"), SeedRow("Tag", NoKey, "none")>>}
MCLower == [e \in {"A@x", "a@x", "b@x"} |-> IF e = "A@x" THEN "a@x" ELSE e]

-----------------------------------------------------------------------------
VARIABLES file, unique, table, run, overlapped, faults  \* Seeds

S == INSTANCE Seeds WITH MaxFaults <- MaxSeedFaults

ASSUME SeedsAssumed == S!SeedsAssumption

seedVars == <<file, unique, table, run, overlapped, faults>>
operations == <<mvars, seedVars>>

MigrateOff == /\ server = NoCommand /\ db = NoCommand /\ files = NoCommand /\ lock = NoCommand /\ writer = NoCommand
              /\ proc = NoCommand /\ lost = NoCommand /\ bound = NoCommand
SeedOff == /\ file = NoCommand /\ unique = NoCommand /\ table = NoCommand /\ run = NoCommand
           /\ overlapped = NoCommand /\ faults = NoCommand

OperationsInit ==
    \/ Init /\ SeedOff
    \/ MigrateOff /\ S!Init

OperationsNext ==
    \/ proc # NoCommand /\ Next /\ UNCHANGED seedVars
    \/ run # NoCommand /\ S!Next /\ UNCHANGED mvars

\* The fairness of Migrate.
OperationsFairness == \A p \in Procs : WF_operations(proc # NoCommand /\ Step(p) /\ UNCHANGED seedVars)

OperationsSpec == OperationsInit /\ [][OperationsNext]_operations /\ OperationsFairness

-----------------------------------------------------------------------------
\* migration/runner.go: what a migration did and its row stand or fall together.
EffectRecorded == proc # NoCommand => RecordMatchesEffect

\* migration/lock.go: under the lock no file is skipped by a later one.
InFileOrder == proc # NoCommand => AppliedInOrder

\* migration/engine.go, server/build.go: a server that boots alone is stopped in auto_migrate by
\* nothing but rows that refuse a constraint, and one that got past it has the schema of its entities.
BootReady == proc # NoCommand => SchemaReady /\ AloneSucceeds

\* migration/lock.go: every command comes to an end, unless the lock keeps the pool's only connection.
CommandsEnd ==
    \A p \in Procs : (proc # NoCommand /\ Unblocked /\ Active(p)) ~> (proc # NoCommand /\ ~Active(p))

\* seed/runner.go: a run that reports success leaves every usable row in the table, and runs
\* that do not overlap leave it there once.
SeedsRight == run # NoCommand => S!SeededOnce /\ S!AllSeeded
=============================================================================

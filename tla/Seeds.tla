------------------------------- MODULE Seeds -------------------------------
(***************************************************************************)
(* `yaypi seed`: the rows of the seed files inserted one by one, each      *)
(* after a look for its key and outside any transaction, by runs that may  *)
(* fail, be repeated or overlap, while users register themselves.          *)
(***************************************************************************)
EXTENDS Integers, Sequences, FiniteSets

CONSTANTS
    Runs,        \* runs of the command
    SeedFiles,   \* the seeds to check, each a sequence of rows [entity, key, password]
    Lower,       \* spelling of an email -> its lower-case, trimmed form
    Signups,     \* emails that users may register
    MaxFaults,
    NoKey        \* a row without its key_field

\* A seed is of one entity; the form an email is stored in is its own.
SeedsAssumption ==
    /\ \A f \in SeedFiles : /\ Len(f) \in Nat /\ DOMAIN f = 1 .. Len(f)
                            /\ \A i, j \in DOMAIN f : f[i].entity = f[j].entity
                            /\ \A i \in DOMAIN f : f[i].key \in DOMAIN Lower \cup {NoKey}
    /\ Signups \subseteq DOMAIN Lower /\ NoKey \notin DOMAIN Lower
    /\ \A e \in DOMAIN Lower : Lower[e] \in DOMAIN Lower /\ Lower[Lower[e]] = Lower[e]

VARIABLES
    file, unique,   \* the rows, and whether the key column is unique
    table,          \* the keys of the rows there are
    run,            \* run -> [pc, row (its number)]
    overlapped,     \* two runs went on at the same time
    faults

svars == <<file, unique, table, run, overlapped, faults>>

Over(r) == run[r].pc \in {"ready", "done", "failed"}

Init ==
    /\ file \in SeedFiles /\ unique \in BOOLEAN
    /\ table = <<>>
    /\ run = [r \in Runs |-> [pc |-> "ready", row |-> 1]]
    /\ overlapped = FALSE /\ faults = 0

Start(r) ==
    /\ run[r].pc = "ready"
    /\ run' = [run EXCEPT ![r] = [pc |-> "row", row |-> 1]]
    /\ overlapped' = (overlapped \/ \E o \in Runs \ {r} : ~Over(o))
    /\ UNCHANGED <<file, unique, table, faults>>

MutPrepareUserRow(row) == [row EXCEPT !.password = IF @ = "none" THEN @ ELSE "hash"]

\* A User's email in the form registration stores, its password hashed.
PrepareUserRow(row) ==
    IF row.entity # "User" THEN row
    ELSE [row EXCEPT !.key = IF @ = NoKey THEN @ ELSE Lower[@],
                     !.password = IF @ = "none" THEN @ ELSE "hash"]

Unusable(row) == (row.entity = "User" /\ row.password = "") \/ row.key = NoKey

Users == \E i \in DOMAIN file : file[i].entity = "User"
Row(r) == PrepareUserRow(file[run[r].row])
Present(key) == \E i \in DOMAIN table : table[i] = key
To(r, pc) == run' = [run EXCEPT ![r].pc = pc]
NextRow(r) == run' = [run EXCEPT ![r].pc = "row", ![r].row = @ + 1]

\* applySeed's loop: a row that cannot be used ends the run, one that exists is skipped.
RowExists(r) ==
    /\ run[r].pc = "row" /\ run[r].row <= Len(file)
    /\ IF Unusable(file[run[r].row]) THEN To(r, "failed")
       ELSE IF Present(Row(r).key) THEN NextRow(r)
       ELSE To(r, "insert")
    /\ UNCHANGED <<file, unique, table, overlapped, faults>>

InsertRow(r) ==
    /\ run[r].pc = "insert"
    /\ IF unique /\ Present(Row(r).key) THEN To(r, "failed") /\ UNCHANGED table
       ELSE /\ table' = Append(table, Row(r).key)
            /\ NextRow(r)
    /\ UNCHANGED <<file, unique, overlapped, faults>>

Done(r) ==
    /\ run[r].pc = "row" /\ run[r].row > Len(file)
    /\ To(r, "done")
    /\ UNCHANGED <<file, unique, table, overlapped, faults>>

\* The run dies or a statement fails, an INSERT before or after it took effect; it is repeated.
Fail(r) ==
    /\ ~Over(r) /\ faults < MaxFaults
    /\ To(r, "failed")
    /\ faults' = faults + 1
    /\ table' \in {table} \cup
          IF run[r].pc = "insert" /\ ~(unique /\ Present(Row(r).key))
          THEN {Append(table, Row(r).key)} ELSE {}
    /\ UNCHANGED <<file, unique, overlapped>>

Again(r) ==
    /\ run[r].pc = "failed" /\ \A o \in Runs : Over(o)
    /\ ~\E i \in DOMAIN file : Unusable(file[i])
    /\ run' = [run EXCEPT ![r].pc = "ready"]
    /\ UNCHANGED <<file, unique, table, overlapped, faults>>

\* A user registers, with the same spelling rule; users' emails are unique.
SignUp(e) ==
    /\ Users /\ unique /\ ~Present(Lower[e])
    /\ table' = Append(table, Lower[e])
    /\ UNCHANGED <<file, unique, run, overlapped, faults>>

Step(r) == RowExists(r) \/ InsertRow(r) \/ Done(r)

Next ==
    \/ \E r \in Runs : Start(r) \/ Step(r) \/ Fail(r) \/ Again(r)
    \/ \E e \in Signups : SignUp(e)

Spec == Init /\ [][Next]_svars

-----------------------------------------------------------------------------
TypeOK ==
    /\ file \in SeedFiles /\ unique \in BOOLEAN /\ faults \in 0 .. MaxFaults
    /\ \A r \in Runs : /\ run[r].pc \in {"ready", "row", "insert", "done", "failed"}
                      /\ run[r].row \in 1 .. Len(file) + 1
                      /\ run[r].pc = "insert" => run[r].row <= Len(file)

Same(k, l) == IF Users THEN Lower[k] = Lower[l] ELSE k = l

\* docs/cli.md: "Running this multiple times is safe": however often a run was cut short and
\* repeated, a key (a user's email in any spelling) has one row -- unless two runs overlapped on
\* a column that is not unique.
SeededOnce ==
    (unique \/ ~overlapped) => \A i, j \in DOMAIN table : Same(table[i], table[j]) => i = j

\* A run that reports success left every key of its files in the table, in the stored spelling.
AllSeeded ==
    \A r \in Runs : run[r].pc = "done" => \A i \in DOMAIN file : Present(PrepareUserRow(file[i]).key)
=============================================================================

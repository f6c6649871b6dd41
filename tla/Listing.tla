------------------------------ MODULE Listing ------------------------------
(***************************************************************************)
(* The read path: list and get endpoints and the plugins' Read and ReadAll *)
(* (internal/handler/list.go, read.go, get.go, common.go, internal/query). *)
(*                                                                         *)
(* A walk is one caller reading page after page while other requests write *)
(* the table.  A page is one SELECT on (sort column, primary key); the     *)
(* cursor of the next page is taken from its last row.  The relations of   *)
(* the page's rows are loaded afterwards, a batch of keys per statement.   *)
(* Nothing holds the statements together.                                  *)
(*                                                                         *)
(* A row is [k, owner, tenant, ref, deleted]: a nullable sortable column,  *)
(* the columns of the row filter, the foreign key of a relation and the    *)
(* soft-delete mark.                                                       *)
(***************************************************************************)
EXTENDS Policy, SequencesExt

CONSTANTS
    Ids,            \* primary keys (integers)
    Rows,           \* the rows that may be stored
    Reads,          \* the requests
    Parents,        \* the rows of the related entity
    Like,           \* the pairs <<value, text>> of a pattern and a k it matches
    IncludeBatch,   \* keys per include statement
    MaxWrites,      \* bound: writes during a walk
    MaxGiven,       \* bound: rows given when the last page starts; only a walk that repeats itself gets there
    NULL, NoRow, NoCursor

StoredRows == [k : Int \cup {NULL}, owner : STRING, tenant : STRING,
               ref : Parents \cup {NULL}, deleted : BOOLEAN]

Cursors == [sortBy : {"id", "k"}, desc : BOOLEAN, id : Ids, val : Int \cup {NULL}]

\* The operators whose value is a list.
Lists == {"in", "nin"}

IsList(s) == Len(s) \in Nat /\ DOMAIN s = 1 .. Len(s)

\* A request as it has been parsed: an unknown sort, style or operator has been
\* refused, and there is a limit.  A boolean column holds 0 and 1.
ListingAssumption ==
    /\ Ids \subseteq Int /\ IsFiniteSet(Ids)
    /\ Rows \subseteq StoredRows
    /\ IncludeBatch \in Nat \ {0} /\ MaxWrites \in Nat /\ MaxGiven \in Nat
    /\ NULL \notin Int /\ NULL \notin Parents /\ NoCursor \notin Cursors /\ NoCursor \notin Nat
    /\ \A q \in Reads :
          /\ q.style \in {"cursor", "offset"} /\ q.sortBy \in {"id", "k"} /\ q.desc \in BOOLEAN
          /\ q.kind \in {"plain", "boolean"} /\ q.engine \in {"postgres", "mysql", "sqlite"}
          /\ q.kind = "boolean" => \A r \in Rows : r.k \in {0, 1, NULL}
          /\ q.limit \in Nat \ {0} /\ q.scoped \in BOOLEAN /\ q.include \in BOOLEAN /\ q.bad \in BOOLEAN
          /\ IsList(q.filters)
          /\ \A i \in DOMAIN q.filters : q.filters[i].op \in Lists => IsFiniteSet(q.filters[i].val)
          /\ IsList(q.rules)
          /\ \A i \in DOMAIN q.rules : q.rules[i].filter \in Seq([col : {"owner", "tenant"}, bind : Attributes])

VARIABLES
    table,      \* id -> row or NoRow
    parents,    \* the related rows that are not deleted
    writes,
    read,       \* the request
    pc,         \* ask -> include -> ask ... -> done, or a status
    cursor,     \* where the next page starts: a cursor, an offset or NoCursor
    page,       \* the rows of the current page: sequence of [id, row]
    rel,        \* the include loop: [start, found], keys handled and keys found
    seen,       \* what the caller was given: sequence of [id, row, rel]
    steady      \* history: rows that the walk could see from its start and
                \* that nobody wrote since

vars == <<table, parents, writes, read, pc, cursor, page, rel, seen, steady>>

-----------------------------------------------------------------------------
(***************************************************************************)
(* Row access and tenant (common.go).                                      *)
(***************************************************************************)
\* The tenant clause takes the placeholder after the fragment's own.
ScopeTenant(row, sub) ==
    [row EXCEPT !.args = Append(row.args, sub.tenant), !.tenant = Len(row.args) + 1]

\* What stops a read before its query: a status, or "ok" and the filter.
\* A plugin's read is answered with no rows where a request is refused.
Denied(q) == CASE q.via = "store" -> "done"
               [] q.via = "get" -> "404"
               [] OTHER -> "403"

Access(q) ==
    LET access == ResolveRowFilter(q.rules, q.sub)
    IN  CASE q.bad -> [status |-> "400", row |-> Open]
          [] ~q.bad /\ access.status = "denied" -> [status |-> Denied(q), row |-> Open]
          [] ~q.bad /\ access.status = "error"  -> [status |-> "500", row |-> Open]
          [] OTHER ->
               IF ~q.scoped THEN access
               ELSE IF SubjectAttr(q.sub, "tenant") = ""
               THEN [status |-> IF q.via = "store" THEN "done" ELSE "403", row |-> Open]
               ELSE [status |-> "ok", row |-> ScopeTenant(access.row, q.sub)]

(***************************************************************************)
(* The WHERE clause (builder.go, filter.go).  Filters take their           *)
(* placeholders first; the fragment's own numbers are then shifted past    *)
(* them, and everything is compared with the argument list of the whole.   *)
(***************************************************************************)
FilterClause(f, k) ==
    CASE f.op = "eq"      -> k = f.val
      [] f.op = "ne"      -> k = NULL \/ k # f.val
      [] f.op = "gt"      -> k # NULL /\ k > f.val
      [] f.op = "gte"     -> k # NULL /\ k >= f.val
      [] f.op = "lt"      -> k # NULL /\ k < f.val
      [] f.op = "lte"     -> k # NULL /\ k <= f.val
      [] f.op = "in"      -> k # NULL /\ k \in f.val
      [] f.op = "nin"     -> f.val = {} \/ (k # NULL /\ k \notin f.val)
      [] f.op = "like"    -> <<f.val, k>> \in Like
      [] f.op = "is_null" -> (k = NULL) = f.val

\* Placeholders that the filters use up: in and nin one per value.
Placeholders(f) == CASE f.op \in Lists -> f.val
                     [] f.op = "is_null" -> {}
                     [] OTHER -> {f.val}

Filler(filters) ==
    [i \in 1 .. Cardinality(UNION {{i} \X Placeholders(filters[i]) : i \in DOMAIN filters}) |-> "filter value"]

ReindexFilter(row, offset) ==
    [row EXCEPT !.alts = [i \in DOMAIN row.alts |-> [row.alts[i] EXCEPT !.ph = @ + offset]],
                !.tenant = IF @ = 0 THEN 0 ELSE @ + offset]

MutBaseWhere(q, row, r) ==
    LET alt(i) == r[row.alts[i].col] = row.args[row.alts[i].ph]
        rest   == row.tenant = 0 \/ r.tenant = row.args[row.tenant]
    IN  /\ \A i \in DOMAIN q.filters : FilterClause(q.filters[i], r.k)
        /\ ~r.deleted
        /\ IF row.alts = <<>> THEN rest
           ELSE (\E i \in 1 .. Len(row.alts) - 1 : alt(i)) \/ (alt(Len(row.alts)) /\ rest)

BaseWhere(q, row, r) ==
    LET before == Filler(q.filters)
        frag   == ReindexFilter(row, Len(before))
        args   == before \o row.args
    IN  /\ \A i \in DOMAIN q.filters : FilterClause(q.filters[i], r.k)
        /\ ~r.deleted
        /\ frag.alts = <<>> \/ \E i \in DOMAIN frag.alts : r[frag.alts[i].col] = args[frag.alts[i].ph]
        /\ frag.tenant = 0 \/ r.tenant = args[frag.tenant]

(***************************************************************************)
(* Order and keyset (cursor.go).  NULLs come last in both directions; the  *)
(* primary key breaks ties in the direction of the sort.                   *)
(***************************************************************************)
Cmp(desc, a, b) == IF desc THEN a > b ELSE a < b

\* ORDER BY, on [id, row] entries.
Before(q, a, b) ==
    IF q.sortBy = "id" \/ a.row.k = b.row.k THEN Cmp(q.desc, a.id, b.id)
    ELSE IF NULL \in {a.row.k, b.row.k} THEN b.row.k = NULL
    ELSE Cmp(q.desc, a.row.k, b.row.k)

MutKeysetClause(q, c, e) ==
    LET notBefore == ~Cmp(q.desc, e.id, c.id)
    IN  IF q.sortBy = "id" THEN notBefore
        ELSE \/ e.row.k = c.val /\ notBefore
             \/ c.val # NULL /\ (e.row.k = NULL \/ Cmp(q.desc, c.val, e.row.k))

\* Rows strictly after the cursor.
KeysetClause(q, c, e) ==
    CASE q.sortBy = "id" -> Cmp(q.desc, c.id, e.id)
      [] q.sortBy = "k" /\ c.val = NULL -> e.row.k = NULL /\ Cmp(q.desc, c.id, e.id)
      [] OTHER -> \/ e.row.k = NULL
                  \/ e.row.k # NULL /\ Cmp(q.desc, c.val, e.row.k)
                  \/ e.row.k = c.val /\ Cmp(q.desc, c.id, e.id)

\* What a sort value compares as when it comes back with the cursor.  Numbers, times and texts
\* come back as they were (tagValue, JSON, untag).  A boolean comes back as the text "true" or
\* "false": Postgres reads it as the boolean, MySQL as the number 0, and in SQLite a text stands
\* after every number.
Returned(q, v) ==
    CASE v = NULL \/ q.kind = "plain" \/ q.engine = "postgres" -> v
      [] v # NULL /\ q.kind = "boolean" /\ q.engine = "mysql" -> 0
      [] OTHER -> 2

\* From the stored row, before the caller's field mask is applied.
NewCursor(q, e) ==
    [sortBy |-> q.sortBy, desc |-> q.desc, id |-> e.id,
     val |-> IF q.sortBy = "id" THEN NULL ELSE Returned(q, e.row.k)]

\* The entries the query returns: all that match, in order, at most limit + 1.
Matching(q, row, after) ==
    {e \in {[id |-> i, row |-> table[i]] : i \in {i \in Ids : table[i] # NoRow}} :
        /\ BaseWhere(q, row, e.row)
        /\ q.via = "get" => e.id = q.id
        /\ after # NoCursor /\ q.style = "cursor" => KeysetClause(q, after, e)}

\* The elements of a set in a total order, given by its pairs.
Arranged(S, order) ==
    [n \in 1 .. Cardinality(S) |-> CHOOSE e \in S : Cardinality({x \in S : <<x, e>> \in order}) = n - 1]

InBefore(q, S) == {p \in S \X S : Before(q, p[1], p[2])}

Select(q, row, after) ==
    LET rows == Matching(q, row, after)
        all  == Arranged(rows, InBefore(q, rows))
        from == IF q.style = "offset" /\ after # NoCursor THEN after ELSE 0
    IN  SubSeq(all, from + 1, Min({from + q.limit + 1, Len(all)}))

-----------------------------------------------------------------------------
NotLoaded == [start |-> 0, found |-> {}]

Init ==
    /\ table \in [Ids -> Rows \cup {NoRow}]
    /\ parents = Parents
    /\ writes = 0
    /\ read \in Reads
    /\ pc = "ask"
    /\ cursor = NoCursor
    /\ page = <<>> /\ rel = NotLoaded /\ seen = <<>>
    /\ steady = {}

\* The distinct foreign keys of the page's rows, in their order.
DistinctKeys(rows) ==
    LET firsts == {i \in DOMAIN rows : /\ rows[i].row.ref # NULL
                                       /\ \A j \in 1 .. i-1 : rows[j].row.ref # rows[i].row.ref}
        at     == Arranged(firsts, {p \in firsts \X firsts : p[1] < p[2]})
    IN  [n \in DOMAIN at |-> rows[at[n]].row.ref]

\* The row that was read in excess is not part of the page.
Trim(rows, limit) == IF Len(rows) > limit THEN SubSeq(rows, 1, limit) ELSE rows

\* The first statement: a page and one row more, which tells that there are more.
List ==
    LET access == Access(read)
        rows   == Select(read, access.row, cursor)
        more   == Len(rows) > read.limit
        kept   == Trim(rows, read.limit)
    IN  /\ pc = "ask" /\ Len(seen) <= MaxGiven
        /\ IF access.status # "ok"
           THEN pc' = access.status /\ UNCHANGED <<page, rel, cursor, steady>>
           ELSE /\ pc' = IF read.via = "get" /\ rows = <<>> THEN "404" ELSE "include"
                /\ page' = kept
                /\ rel' = NotLoaded
                /\ cursor' = CASE ~more -> NoCursor
                               [] more /\ read.style = "cursor" -> NewCursor(read, Last(kept))
                               [] OTHER -> (IF cursor = NoCursor THEN 0 ELSE cursor) + read.limit
                /\ steady' = IF cursor = NoCursor
                             THEN {e.id : e \in Matching(read, access.row, NoCursor)} ELSE steady
        /\ UNCHANGED <<table, parents, writes, read, seen>>

\* The caller sends the cursor with another sort than it was issued for.
OtherSort ==
    /\ pc = "ask" /\ read.style = "cursor" /\ cursor # NoCursor
    /\ \E desc \in BOOLEAN, by \in {"id", "k"} :
        /\ cursor.sortBy # by \/ cursor.desc # desc
        /\ pc' = "400"
    /\ UNCHANGED <<table, parents, writes, read, cursor, page, rel, seen, steady>>

\* The keys of the next include statement.
Batch(keys) == SubSeq(keys, rel.start + 1, Min({rel.start + IncludeBatch, Len(keys)}))

\* One include statement; it finds what is not deleted.
FetchIn ==
    LET keys == DistinctKeys(page)
    IN  /\ pc = "include" /\ read.include /\ rel.start < Len(keys)
        /\ rel' = [start |-> rel.start + IncludeBatch,
                   found |-> rel.found \cup (ToSet(Batch(keys)) \cap parents)]
        /\ UNCHANGED <<table, parents, writes, read, pc, cursor, page, seen, steady>>

\* The response; the caller comes back while there is a next cursor.
Respond ==
    /\ pc = "include" /\ (read.include => rel.start >= Len(DistinctKeys(page)))
    /\ seen' = seen \o [i \in DOMAIN page |-> [id |-> page[i].id, row |-> page[i].row,
                                              rel |-> page[i].row.ref \in rel.found]]
    /\ pc' = IF cursor = NoCursor THEN "done" ELSE "ask"
    /\ page' = <<>> /\ rel' = NotLoaded
    /\ UNCHANGED <<table, parents, writes, read, cursor, steady>>

(***************************************************************************)
(* Other requests write meanwhile.                                         *)
(***************************************************************************)
Write(i, row) ==
    /\ writes < MaxWrites /\ pc \in {"ask", "include"}
    /\ table' = [table EXCEPT ![i] = row]
    /\ table' # table
    /\ writes' = writes + 1
    /\ steady' = steady \ {i}
    /\ UNCHANGED <<parents, read, pc, cursor, page, rel, seen>>

\* Bound: not before the first page, where any rows are an initial table.
Store(i) == ~(pc = "ask" /\ cursor = NoCursor) /\ \E row \in Rows : Write(i, row)

SoftDelete(i) == table[i] # NoRow /\ Write(i, [table[i] EXCEPT !.deleted = TRUE])

RemoveParent ==
    /\ writes < MaxWrites /\ pc \in {"ask", "include"}
    /\ \E p \in parents : parents' = parents \ {p}
    /\ writes' = writes + 1
    /\ UNCHANGED <<table, read, pc, cursor, page, rel, seen, steady>>

Next == List \/ FetchIn \/ Respond \/ OtherSort \/ RemoveParent \/ \E i \in Ids : Store(i) \/ SoftDelete(i)

Spec == Init /\ [][Next]_vars

-----------------------------------------------------------------------------
\* The fragment an administrator wrote, read as SQL: some rule applies, and
\* the row is the caller's by it, and of the caller's tenant.
Rightful(q, r) ==
    /\ ~r.deleted
    /\ q.scoped => r.tenant = q.sub.tenant
    /\ \A i \in DOMAIN q.filters : FilterClause(q.filters[i], r.k)
    /\ q.rules # <<>> =>
         \E i \in DOMAIN q.rules :
            /\ MatchCondition(q.rules[i].when, q.sub) = "yes"
            /\ \A j \in 1 .. i-1 : MatchCondition(q.rules[j].when, q.sub) = "no"
            /\ \/ q.rules[i].filter = <<>>
               \/ \E j \in DOMAIN q.rules[i].filter :
                    LET alt == q.rules[i].filter[j] IN r[alt.col] = SubjectAttr(q.sub, alt.bind)

TypeOK ==
    /\ pc \in {"ask", "include", "done", "400", "403", "404", "500"}
    /\ parents \subseteq Parents /\ steady \subseteq Ids
    /\ Len(page) <= read.limit /\ writes \in 0 .. MaxWrites

\* Every row given to the caller is one the rules, the tenant and the filters
\* let through, however filters, fragment and tenant share their placeholders.
OnlyRightful == \A i \in DOMAIN seen : Rightful(read, seen[i].row)

\* The value the walk is sorted by comes back with the cursor as it was: not a boolean on MySQL
\* and SQLite.
Survives(q) == q.sortBy = "id" \/ q.kind = "plain" \/ q.engine = "postgres"

\* Rows come in the order of the sort across all pages of a walk, NULLs last,
\* none twice at the same place, whatever is written between the pages; so
\* following the cursors comes to an end.  A walk sorted by a boolean repeats rows on MySQL
\* and, descending, on SQLite (Survives).
InOrder ==
    read.style = "cursor" /\ Survives(read) => \A i \in 1 .. Len(seen) - 1 : Before(read, seen[i], seen[i+1])

\* A finished walk has returned every row that was there from its first page
\* to its last and was not written in between, exactly once: "complete and
\* stable for any sort" (.ai/config-reference.md) -- but for booleans on MySQL and SQLite, where
\* an ascending walk loses rows (Survives).  Offset pages promise it only when nothing at all was
\* written.
Complete ==
    pc = "done" /\ Access(read).status = "ok" /\ read.via # "get"
    /\ (IF read.style = "cursor" THEN Survives(read) ELSE writes = 0) =>
        \A i \in steady : Cardinality({j \in DOMAIN seen : seen[j].id = i}) = 1

\* A relation that was asked for is missing from a row only if the related
\* row is gone: the batches of keys leave none out.
NoLostRelation ==
    read.include => \A i \in DOMAIN seen : seen[i].rel \/ seen[i].row.ref \notin parents
=============================================================================

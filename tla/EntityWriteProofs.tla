------------------------- MODULE EntityWriteProofs -------------------------
(***************************************************************************)
(* Proofs about module EntityWrite, for any numbers of keys, requests and  *)
(* deployments and any jobs: audit rows and outbox messages are the        *)
(* history of the rows, requests are told what happened, and no commit     *)
(* overwrites what it was to respect; and about Rules, for any entities    *)
(* and bodies: what rules and stamps make of a row, through the loop over  *)
(* its fields; and both of the composition that the runs check.            *)
(***************************************************************************)
EXTENDS MCEntityWrite, SequenceTheorems, WellFoundedInduction, TLAPS

Rows == Row \cup {NoRow}
Event == [by : Requests \X Nat, key : Keys, before : Rows, after : Rows]
Outcomes == Changed \cup {"unchanged", "ignored", "not_found", "error"}

\* The types of all variables.
Types ==
    /\ TypeOK
    /\ job \in [Requests -> Job]
    /\ log \in Seq(Event)
    /\ events \in [Requests -> Seq(Event)]
    /\ snap \in [Requests -> SUBSET [Keys -> Rows]]
    /\ results \in [Requests -> Seq(Outcomes)]

\* One result per item that is through.
Counted(r) ==
    /\ pc[r] = "new" => pos[r] = 1
    /\ pc[r] \notin {"commit", "done"} => Len(results[r]) = pos[r] - 1
    /\ pc[r] = "commit" => Len(results[r]) = pos[r]

\* What a transaction has written is locked, and gone when it is over.
Guarded(r) ==
    /\ \A k \in Keys : dirty[r][k] # Untouched => \A x \in Claims(k) : lock[x] = r
    /\ pc[r] \in {"new", "prepare", "done"} => dirty[r] = Clean /\ events[r] = <<>> /\ snap[r] = {}
    /\ pc[r] = "observe" => dirty[r][It(r).key] # Untouched
    /\ engine = "lock" => snap[r] = {}
    /\ \A s, t \in snap[r] : s = t

\* The row an UPDATE or DELETE was decided upon is the one it will find, unless it finds out
\* that its snapshot is old.
Settled(r) ==
    pc[r] = "write" =>
        /\ It(r).op \notin {"create", "ignore"}
        /\ before[r] # NoRow /\ before[r] = View(r, It(r).key)
        /\ IF engine = "lock" THEN lock[It(r).key] = r ELSE snap[r] # {}

\* The committed rows with what r has written, and the part of it that r has reported.
Own(r) == [k \in Keys |-> IF dirty[r][k] # Untouched THEN dirty[r][k] ELSE table[k]]
Reported(r) == IF pc[r] = "observe" THEN [Own(r) EXCEPT ![It(r).key] = before[r]] ELSE Own(r)

\* The events of a transaction lead from the committed rows to its own.
Chained(r) ==
    IF SameDB
    THEN /\ History(events[r], table, Reported(r))
         /\ \A i \in DOMAIN events[r] : dirty[r][events[r][i].key] # Untouched
    ELSE events[r] = <<>>

\* What is reported of item p of r.
Tells(h, r, p) == \E i \in DOMAIN h : h[i].by = <<r, p>>

Answering(r) ==
    /\ \A i \in DOMAIN events[r] : events[r][i].by[1] = r
    /\ \A p \in 1 .. Len(results[r]) :
          results[r][p] \in Changed => Tells(log, r, p) \/ Tells(events[r], r, p)
    /\ SameDB => \A p \in Nat :
          /\ Tells(log, r, p) \/ Tells(events[r], r, p) =>
                p \in 1 .. Len(results[r]) /\ results[r][p] \in Changed
          /\ Tells(log, r, p) /\ pc[r] # "done" => job[r].partial /\ (pc[r] = "commit" => p < pos[r])
          /\ Tells(events[r], r, p) /\ job[r].partial => p = pos[r] /\ pc[r] = "commit"

\* Each row a transaction has written is the work of one of its items.
Authored(r) ==
    \A k \in Keys : dirty[r][k] # Untouched =>
        \E p \in 1 .. pos[r] :
            /\ job[r].items[p].key = k
            /\ p < pos[r] \/ pc[r] \in {"observe", "commit"}
            /\ IF dirty[r][k] = NoRow THEN job[r].items[p].op \in {"remove", "delete"}
                                      ELSE dirty[r][k].ver = <<r, p>>

\* A conditional write has found, and will replace, the version its client had read.
Conditional(r) ==
    LET k == It(r).key IN
    /\ pc[r] = "insert" => ~It(r).cond
    /\ pc[r] = "write" /\ It(r).cond => before[r].ver = seen[r].ver
    /\ pc[r] \in {"observe", "commit"} /\ It(r).cond /\ dirty[r][k] # Untouched =>
          table[k] # NoRow /\ table[k].ver = seen[r].ver

\* Upserts leave a guard that is no older, and a newer one where they set it.
Newer(r) ==
    \A k \in Keys : dirty[r][k] \notin {Untouched, NoRow} /\ table[k] # NoRow =>
        LET items == job[r].items
            p     == dirty[r][k].ver[2]
        IN  Upserts(items, k, p) =>
                /\ table[k].guard <= dirty[r][k].guard
                /\ items[p].op = "upsert" /\ items[p].guard # 0 => table[k].guard < dirty[r][k].guard

EmptyTable == [k \in Keys |-> NoRow]

Inv(r) ==
    /\ Counted(r) /\ Guarded(r) /\ Settled(r) /\ Chained(r) /\ Answering(r)
    /\ Authored(r) /\ Conditional(r) /\ Newer(r)

IInv ==
    /\ Types
    /\ SameDB => History(log, EmptyTable, table)
    /\ \A r \in Requests : Inv(r)

-----------------------------------------------------------------------------
\* Rows, no row and untouched are three different things.
LEMMA RowsDiffer ==
  /\ NoRow # Untouched
  /\ \A rec \in Row : rec # NoRow /\ rec # Untouched
  <1>1. NoRow.id # Untouched.id
    BY DEF NoRow, Untouched, None
  <1>2. "ver" \notin DOMAIN NoRow /\ "ver" \notin DOMAIN Untouched
    BY DEF NoRow, Untouched
  <1>3. \A rec \in Row : "ver" \in DOMAIN rec
    BY DEF Row
  <1> QED
    BY <1>1, <1>2, <1>3

\* The item a request is at.
LEMMA ItemFacts ==
  ASSUME Types, NEW r \in Requests, pc[r] # "new"
  PROVE  /\ job[r].items \in Seq(Item) /\ Len(job[r].items) \in Nat /\ job[r].partial \in BOOLEAN
         /\ pos[r] \in 1 .. Len(job[r].items)
         /\ It(r) \in Item /\ It(r).key \in Keys /\ It(r).guard \in Nat
         /\ It(r).cond => It(r).op \in ById
         /\ It(r).op \in ById => Len(job[r].items) = 1
  <1>1. job[r] \in Job
    BY DEF Types
  <1>2. pos[r] \in 1 .. Len(job[r].items) /\ job[r] \in Jobs(r) /\ deployed \in DOMAIN Deployments
    BY DEF Types, TypeOK
  <1>3. \A p \in DOMAIN job[r].items :
           /\ job[r].items[p].cond => job[r].items[p].op \in ById
           /\ job[r].items[p].op \in ById => Len(job[r].items) = 1
    BY <1>2, EntityAssumption DEF Jobs
  <1>4. It(r) \in Item
    BY <1>1, <1>2, ElementOfSeq DEF It, Job
  <1>5. pos[r] \in DOMAIN job[r].items
    BY <1>1, <1>2, LenProperties DEF Job
  <1> QED
    BY <1>1, <1>2, <1>3, <1>4, <1>5 DEF It, Item, Job

-----------------------------------------------------------------------------
\* Histories.
LEMMA LeavesSame ==
  ASSUME NEW g, NEW h, NEW n \in Nat, NEW k, NEW from, NEW to, Leaves(h, n, k, from, to),
         \A i \in 1 .. n : g[i] = h[i]
  PROVE  Leaves(g, n, k, from, to)
  BY DEF Leaves

LEMMA HistoryEmpty == ASSUME NEW t PROVE History(<<>>, t, t)
  BY DEF History, Leaves

LEMMA EventFacts ==
  ASSUME NEW h \in Seq(Event)
  PROVE  /\ Len(h) \in Nat /\ DOMAIN h = 1 .. Len(h)
         /\ \A i \in DOMAIN h : h[i] \in Event /\ h[i].key \in Keys /\ h[i].by \in Requests \X Nat
  <1>1. Len(h) \in Nat /\ DOMAIN h = 1 .. Len(h)
    BY LenProperties
  <1>2. ASSUME NEW i \in DOMAIN h PROVE h[i] \in Event
    BY <1>1, <1>2, ElementOfSeq
  <1>3. \A e \in Event : e.key \in Keys /\ e.by \in Requests \X Nat
    BY DEF Event
  <1> QED
    BY <1>1, <1>2, <1>3

\* Only the keys in it matter to a history.
LEMMA HistoryElsewhere ==
  ASSUME NEW h \in Seq(Event), NEW from, NEW to, NEW from2, NEW to2, History(h, from, to),
         \A k \in Keys : \/ from2[k] = from[k] /\ to2[k] = to[k]
                         \/ to2[k] = from2[k] /\ \A i \in DOMAIN h : h[i].key # k
  PROVE  History(h, from2, to2)
  <1>1. \A i \in DOMAIN h : h[i].key \in Keys
    BY EventFacts
  <1>2. DOMAIN h = 1 .. Len(h) /\ Len(h) \in Nat
    BY LenProperties
  <1>3. ASSUME NEW i \in DOMAIN h PROVE Leaves(h, i - 1, h[i].key, from2[h[i].key], h[i].before)
    BY <1>1, <1>3 DEF History
  <1>4. ASSUME NEW k \in Keys PROVE Leaves(h, Len(h), k, from2[k], to2[k])
    <2>1. CASE from2[k] = from[k] /\ to2[k] = to[k]
      BY <2>1 DEF History
    <2>2. CASE to2[k] = from2[k] /\ \A i \in DOMAIN h : h[i].key # k
      BY <2>2, <1>2 DEF Leaves
    <2> QED
      BY <2>1, <2>2
  <1> QED
    BY <1>3, <1>4 DEF History

\* One more event.
LEMMA HistoryAppend ==
  ASSUME NEW h \in Seq(Event), NEW e \in Event, NEW from, NEW mid, NEW to, History(h, from, mid),
         e.before = mid[e.key], e.after = to[e.key],
         \A k \in Keys \ {e.key} : to[k] = mid[k]
  PROVE  History(Append(h, e), from, to)
  <1> DEFINE g == Append(h, e)
             n == Len(h)
  <1>1. /\ n \in Nat /\ Len(g) = n + 1 /\ g[n + 1] = e
        /\ DOMAIN h = 1 .. n /\ DOMAIN g = 1 .. (n + 1)
        /\ \A i \in 1 .. n : g[i] = h[i]
        /\ e.key \in Keys
    <2>1. g \in Seq(Event) /\ Len(g) = n + 1 /\ g[n + 1] = e /\ \A i \in 1 .. n : g[i] = h[i]
      BY AppendProperties
    <2> QED
      BY <2>1, LenProperties DEF Event
  <1> HIDE DEF g, n
  <1>2. ASSUME NEW i \in 1 .. n PROVE Leaves(g, i - 1, g[i].key, from[g[i].key], g[i].before)
    <2>1. Leaves(h, i - 1, h[i].key, from[h[i].key], h[i].before)
      BY <1>1 DEF History, n
    <2>2. i - 1 \in Nat /\ \A j \in 1 .. i - 1 : g[j] = h[j]
      BY <1>1
    <2>3. Leaves(g, i - 1, h[i].key, from[h[i].key], h[i].before)
      BY <2>1, <2>2, <1>1, LeavesSame
    <2> QED
      BY <1>1, <2>3
  <1>3. Leaves(g, n, e.key, from[e.key], e.before)
    <2>1. Leaves(h, n, e.key, from[e.key], mid[e.key])
      BY <1>1 DEF History, n
    <2>2. Leaves(g, n, e.key, from[e.key], mid[e.key])
      BY <1>1, <2>1, LeavesSame
    <2> QED
      BY <2>2
  <1>4. ASSUME NEW k \in Keys PROVE Leaves(g, n + 1, k, from[k], to[k])
    <2>1. CASE k = e.key
      <3>1. n + 1 \in {i \in 1 .. n + 1 : g[i].key = k} /\ \A j \in 1 .. n + 1 : j <= n + 1
        BY <1>1, <2>1
      <3> QED
        BY <1>1, <2>1, <3>1 DEF Leaves
    <2>2. CASE k # e.key
      <3>1. Leaves(h, n, k, from[k], to[k])
        BY <2>2 DEF History, n
      <3>2. {i \in 1 .. n + 1 : g[i].key = k} = {i \in 1 .. n : h[i].key = k}
        BY <1>1, <2>2
      <3> QED
        BY <1>1, <3>1, <3>2 DEF Leaves
    <2> QED
      BY <2>1, <2>2
  <1>5. ASSUME NEW i \in DOMAIN g PROVE Leaves(g, i - 1, g[i].key, from[g[i].key], g[i].before)
    <2>1. i \in 1 .. n \/ i = n + 1
      BY <1>1
    <2>2. CASE i = n + 1
      <3>1. i - 1 = n
        BY <2>2, <1>1
      <3> QED
        BY <3>1, <2>2, <1>1, <1>3
    <2> QED
      BY <2>1, <2>2, <1>2
  <1> QED
    BY <1>1, <1>4, <1>5 DEF History, g, n

\* One history after another.
LEMMA HistoryConcat ==
  ASSUME NEW h \in Seq(Event), NEW g \in Seq(Event), NEW from, NEW mid, NEW to,
         History(h, from, mid), History(g, mid, to)
  PROVE  History(h \o g, from, to)
  <1> DEFINE c == h \o g
             n == Len(h)
             m == Len(g)
  <1>1. /\ n \in Nat /\ m \in Nat /\ Len(c) = n + m
        /\ DOMAIN h = 1 .. n /\ DOMAIN g = 1 .. m /\ DOMAIN c = 1 .. (n + m)
        /\ \A i \in 1 .. n : c[i] = h[i]
        /\ \A i \in 1 .. m : c[n + i] = g[i]
        /\ \A i \in 1 .. m : g[i].key \in Keys
    <2>1. c \in Seq(Event) /\ Len(c) = n + m
      BY ConcatProperties
    <2>2. \A i \in 1 .. n : c[i] = h[i]
      BY LenProperties, ConcatProperties
    <2>3. n \in Nat /\ m \in Nat
      BY LenProperties
    <2>4. ASSUME NEW i \in 1 .. m PROVE c[n + i] = g[i]
      <3>1. n + i \in 1 .. n + m /\ n + i > n /\ (n + i) - n = i
        BY <2>3
      <3> QED
        BY <3>1, ConcatProperties
    <2>5. DOMAIN h = 1 .. n /\ DOMAIN g = 1 .. m /\ \A i \in 1 .. m : g[i].key \in Keys
      BY EventFacts
    <2>6. DOMAIN c = 1 .. (n + m)
      BY <2>1, LenProperties
    <2> QED
      BY <2>1, <2>2, <2>3, <2>4, <2>5, <2>6
  <1>2. ASSUME NEW i \in 1 .. n PROVE Leaves(c, i - 1, c[i].key, from[c[i].key], c[i].before)
    <2>1. Leaves(h, i - 1, h[i].key, from[h[i].key], h[i].before)
      BY <1>1 DEF History
    <2>2. i - 1 \in Nat /\ \A j \in 1 .. i - 1 : c[j] = h[j]
      BY <1>1
    <2> QED
      BY <1>1, <2>1, <2>2, LeavesSame
  <1>3. ASSUME NEW j \in 0 .. m, NEW k \in Keys, NEW rec, Leaves(g, j, k, mid[k], rec)
        PROVE  Leaves(c, n + j, k, from[k], rec)
    <2>1. Leaves(h, n, k, from[k], mid[k])
      BY DEF History
    <2>2. \A i \in 1 .. n + j : i \in 1 .. n \/ (i - n \in 1 .. j /\ c[i] = g[i - n])
      <3>1. ASSUME NEW i \in 1 .. n + j, i \notin 1 .. n
            PROVE  i - n \in 1 .. j /\ c[i] = g[i - n]
        <4>1. i - n \in 1 .. m /\ i - n \in 1 .. j /\ n + (i - n) = i
          BY <3>1, <1>1
        <4> QED
          BY <4>1, <1>1
      <3> QED
        BY <3>1
    <2>3. CASE {i \in 1 .. j : g[i].key = k} = {} /\ rec = mid[k]
      <3>1. {i \in 1 .. n + j : c[i].key = k} = {i \in 1 .. n : h[i].key = k}
        <4>1. \A i \in 1 .. n + j : c[i].key = k => i \in 1 .. n
          BY <2>2, <2>3
        <4> QED
          BY <4>1, <1>1
      <3> QED
        <4>1. CASE {i \in 1 .. n : h[i].key = k} = {} /\ rec = from[k]
          BY <3>1, <4>1 DEF Leaves
        <4>2. CASE \E i \in {i \in 1 .. n : h[i].key = k} :
                      rec = h[i].after /\ \A l \in {l \in 1 .. n : h[l].key = k} : l <= i
          <5>1. PICK i \in {i \in 1 .. n : h[i].key = k} :
                      rec = h[i].after /\ \A l \in {l \in 1 .. n : h[l].key = k} : l <= i
            BY <4>2
          <5>2. c[i].after = rec
            BY <5>1, <1>1
          <5> QED
            BY <3>1, <5>1, <5>2 DEF Leaves
        <4> QED
          BY <2>1, <2>3, <4>1, <4>2 DEF Leaves
    <2>4. CASE \E i \in {i \in 1 .. j : g[i].key = k} :
                  rec = g[i].after /\ \A l \in {l \in 1 .. j : g[l].key = k} : l <= i
      <3>1. PICK i \in 1 .. j : /\ g[i].key = k /\ rec = g[i].after
                                /\ \A l \in 1 .. j : g[l].key = k => l <= i
        BY <2>4
      <3>2. n + i \in 1 .. n + j /\ c[n + i] = g[i]
        BY <1>1, <3>1
      <3>3. ASSUME NEW l \in 1 .. n + j, c[l].key = k PROVE l <= n + i
        <4>1. CASE l \in 1 .. n
          BY <4>1, <1>1
        <4>2. CASE l - n \in 1 .. j /\ c[l] = g[l - n]
          <5>1. l - n <= i
            BY <3>1, <3>3, <4>2
          <5> QED
            BY <5>1, <1>1
        <4> QED
          BY <2>2, <4>1, <4>2
      <3> QED
        BY <3>1, <3>2, <3>3 DEF Leaves
    <2> QED
      BY <1>3, <2>3, <2>4 DEF Leaves
  <1>4. ASSUME NEW k \in Keys PROVE Leaves(c, n + m, k, from[k], to[k])
    <2>1. Leaves(g, m, k, mid[k], to[k]) /\ m \in 0 .. m
      BY <1>1 DEF History
    <2> QED
      BY <2>1, <1>3
  <1>5. ASSUME NEW i \in DOMAIN c PROVE Leaves(c, i - 1, c[i].key, from[c[i].key], c[i].before)
    <2>1. CASE i \in 1 .. n
      BY <2>1, <1>2
    <2>2. CASE i \notin 1 .. n
      <3>1. i - n \in 1 .. m /\ c[i] = g[i - n] /\ n + (i - n - 1) = i - 1 /\ i - n - 1 \in 0 .. m
        <4>1. i \in 1 .. n + m
          BY <1>5, <1>1
        <4>2. i - n \in 1 .. m /\ n + (i - n) = i /\ n + (i - n - 1) = i - 1 /\ i - n - 1 \in 0 .. m
          BY <2>2, <1>1, <4>1
        <4>3. c[n + (i - n)] = g[i - n]
          BY <4>2, <1>1
        <4> QED
          BY <4>2, <4>3
      <3>2. Leaves(g, i - n - 1, c[i].key, mid[c[i].key], c[i].before) /\ c[i].key \in Keys
        BY <3>1, <1>1 DEF History
      <3> QED
        BY <3>1, <3>2, <1>3
    <2> QED
      BY <2>1, <2>2
  <1> QED
    BY <1>1, <1>4, <1>5 DEF History

-----------------------------------------------------------------------------
\* The parts that statements are made of.
Places == {"new", "prepare", "read", "insert", "write", "observe", "commit", "refuse", "done"}

\* A function of the requests that changes at r only.
OnlyAt(r, f, g, value) == g[r] = value /\ \A q \in Requests \ {r} : g[q] = f[q]

LEMMA GotoFacts ==
  ASSUME Types, NEW r \in Requests, NEW label \in Places, Goto(r, label)
  PROVE  /\ pc' \in [Requests -> Places] /\ OnlyAt(r, pc, pc', label)
         /\ deployed' = deployed /\ engine' = engine /\ SameDB' = SameDB
  BY DEF Types, TypeOK, Goto, Places, OnlyAt, engine, SameDB

LEMMA ItemDoneFacts ==
  ASSUME Types, NEW r \in Requests, pc[r] # "new", NEW outcome \in Outcomes, ItemDone(r, outcome)
  PROVE  /\ results' \in [Requests -> Seq(Outcomes)]
         /\ OnlyAt(r, results, results', Append(results[r], outcome))
         /\ pos' \in [Requests -> Nat \ {0}] /\ OnlyAt(r, pos, pos', pos'[r])
         /\ pos'[r] \in 1 .. Len(job[r].items)
         /\ pc' \in [Requests -> Places] /\ OnlyAt(r, pc, pc', pc'[r])
         /\ deployed' = deployed /\ engine' = engine /\ SameDB' = SameDB
         /\ \/ pos'[r] = pos[r] /\ pc'[r] = "commit"
            \/ ~job[r].partial /\ pos'[r] = pos[r] + 1 /\ pc'[r] \in {"insert", "read"}
  <1>1. Append(results[r], outcome) \in Seq(Outcomes)
    BY AppendProperties DEF Types
  <1>2. results' \in [Requests -> Seq(Outcomes)] /\ OnlyAt(r, results, results', Append(results[r], outcome))
    BY <1>1 DEF Types, ItemDone, OnlyAt
  <1>3. pos \in [Requests -> Nat \ {0}] /\ pc \in [Requests -> Places]
    BY DEF Types, TypeOK, Places
  <1>4. pos[r] \in 1 .. Len(job[r].items) /\ Len(job[r].items) \in Nat
    BY ItemFacts
  <1>5. deployed' = deployed /\ engine' = engine /\ SameDB' = SameDB
    BY DEF ItemDone, Goto, engine, SameDB
  <1>6. CASE job[r].partial \/ pos[r] = Len(job[r].items)
    BY <1>2, <1>3, <1>4, <1>5, <1>6 DEF ItemDone, Goto, OnlyAt, Places
  <1>7. CASE ~(job[r].partial \/ pos[r] = Len(job[r].items))
    <2>1. pos' = [pos EXCEPT ![r] = pos[r] + 1] /\ pos[r] + 1 \in 1 .. Len(job[r].items)
      BY <1>3, <1>4, <1>7 DEF ItemDone
    <2>2. PICK label \in {"insert", "read"} : pc' = [pc EXCEPT ![r] = label]
      BY <1>7 DEF ItemDone, Goto, FirstStatement
    <2> QED
      BY <1>2, <1>3, <1>4, <1>5, <1>7, <2>1, <2>2 DEF OnlyAt, Places
  <1> QED
    BY <1>6, <1>7

LEMMA ProceedFacts ==
  ASSUME Types, NEW r \in Requests, pc[r] # "new", NEW outs \in Seq(Outcomes), Proceed(r, outs)
  PROVE  /\ results' \in [Requests -> Seq(Outcomes)] /\ OnlyAt(r, results, results', outs)
         /\ pos' \in [Requests -> Nat \ {0}] /\ OnlyAt(r, pos, pos', pos'[r])
         /\ pos'[r] \in 1 .. Len(job[r].items)
         /\ pc' \in [Requests -> Places] /\ OnlyAt(r, pc, pc', pc'[r])
         /\ deployed' = deployed /\ engine' = engine /\ SameDB' = SameDB
         /\ \/ pos'[r] = pos[r] /\ pc'[r] = "done"
            \/ job[r].partial /\ pos'[r] = pos[r] + 1 /\ pc'[r] = "prepare"
  <1>1. results' \in [Requests -> Seq(Outcomes)] /\ OnlyAt(r, results, results', outs)
    BY DEF Types, Proceed, OnlyAt
  <1>2. pos \in [Requests -> Nat \ {0}] /\ pc \in [Requests -> Places]
    BY DEF Types, TypeOK, Places
  <1>3. pos[r] \in 1 .. Len(job[r].items) /\ Len(job[r].items) \in Nat
    BY ItemFacts
  <1>4. deployed' = deployed /\ engine' = engine /\ SameDB' = SameDB
    BY DEF Proceed, Goto, engine, SameDB
  <1>5. CASE job[r].partial /\ pos[r] < Len(job[r].items)
    <2>1. pos' = [pos EXCEPT ![r] = pos[r] + 1] /\ pos[r] + 1 \in 1 .. Len(job[r].items)
      BY <1>2, <1>3, <1>5 DEF Proceed
    <2>2. pc' = [pc EXCEPT ![r] = "prepare"]
      BY <1>5 DEF Proceed, Goto
    <2> QED
      BY <1>1, <1>2, <1>3, <1>4, <1>5, <2>1, <2>2 DEF OnlyAt, Places
  <1>6. CASE ~(job[r].partial /\ pos[r] < Len(job[r].items))
    BY <1>1, <1>2, <1>3, <1>4, <1>6 DEF Proceed, Goto, OnlyAt, Places
  <1> QED
    BY <1>5, <1>6

LEMMA EndTxFacts ==
  ASSUME Types, None \notin Requests, NEW r \in Requests, EndTx(r)
  PROVE  /\ lock' \in [Keys -> Requests \cup {None}]
         /\ \A x \in Keys : lock[x] # r => lock'[x] = lock[x]
         /\ dirty' \in [Requests -> [Keys -> Rows \cup {Untouched}]] /\ OnlyAt(r, dirty, dirty', Clean)
         /\ events' \in [Requests -> Seq(Event)] /\ OnlyAt(r, events, events', <<>>)
         /\ snap' \in [Requests -> SUBSET [Keys -> Rows]] /\ OnlyAt(r, snap, snap', {})
         /\ before' \in [Requests -> Rows] /\ OnlyAt(r, before, before', NoRow)
  <1>1. Clean \in [Keys -> Rows \cup {Untouched}]
    BY DEF Clean
  <1>2. dirty \in [Requests -> [Keys -> Rows \cup {Untouched}]]
    BY DEF Types, TypeOK, Rows
  <1>3. <<>> \in Seq(Event)
    BY EmptySeq
  <1> QED
    BY <1>1, <1>2, <1>3 DEF Types, TypeOK, EndTx, Release, OnlyAt, Rows

LEMMA LockFacts ==
  ASSUME Types, None \notin Requests, NEW r \in Requests, NEW k \in Keys, CanLock(r, k), TakeLock(r, k)
  PROVE  /\ lock' \in [Keys -> Requests \cup {None}]
         /\ \A x \in Claims(k) : lock'[x] = r
         /\ \A x \in Keys, q \in Requests : lock[x] = q => lock'[x] = q
         /\ k \in Claims(k) /\ Claims(k) \subseteq Keys
  BY DEF Types, TypeOK, CanLock, TakeLock, Claims

LEMMA ErrorsFacts ==
  ASSUME Types, NEW r \in Requests, pc[r] # "new"
  PROVE  /\ Errors(r) \in Seq(Outcomes)
         /\ job[r].partial => Errors(r) = Append(results[r], "error")
         /\ ~job[r].partial => \A p \in 1 .. Len(Errors(r)) : Errors(r)[p] = "error"
  <1>1. Len(job[r].items) \in Nat
    BY ItemFacts
  <1>2. [p \in 1 .. Len(job[r].items) |-> "error"] \in Seq(Outcomes)
    <2>1. [p \in 1 .. Len(job[r].items) |-> "error"] \in [1 .. Len(job[r].items) -> Outcomes]
      BY DEF Outcomes
    <2> QED
      BY <1>1, <2>1, SeqDef
  <1>3. Append(results[r], "error") \in Seq(Outcomes)
    BY AppendProperties DEF Types, Outcomes
  <1>4. \A p \in 1 .. Len([p \in 1 .. Len(job[r].items) |-> "error"]) :
           [q \in 1 .. Len(job[r].items) |-> "error"][p] = "error"
    BY <1>1, <1>2, LenProperties
  <1> QED
    BY <1>2, <1>3, <1>4 DEF Errors

LEMMA SnapshotFacts ==
  ASSUME Types, NEW r \in Requests, Snapshot(r)
  PROVE  /\ snap' \in [Requests -> SUBSET [Keys -> Rows]] /\ OnlyAt(r, snap, snap', snap'[r])
         /\ snap'[r] = IF engine = "snapshot" /\ snap[r] = {} THEN {table} ELSE snap[r]
  BY DEF Types, TypeOK, Snapshot, OnlyAt, Rows

LEMMA PutFacts ==
  ASSUME Types, NEW r \in Requests, pc[r] # "new", NEW rec \in Rows, Put(r, rec)
  PROVE  /\ dirty' \in [Requests -> [Keys -> Rows \cup {Untouched}]] /\ OnlyAt(r, dirty, dirty', dirty'[r])
         /\ dirty'[r][It(r).key] = rec /\ \A k \in Keys \ {It(r).key} : dirty'[r][k] = dirty[r][k]
  <1>1. It(r).key \in Keys
    BY ItemFacts
  <1>2. dirty \in [Requests -> [Keys -> Rows \cup {Untouched}]]
    BY DEF Types, TypeOK, Rows
  <1>3. dirty' = [dirty EXCEPT ![r] = [dirty[r] EXCEPT ![It(r).key] = rec]]
    BY DEF Put
  <1>4. [dirty[r] EXCEPT ![It(r).key] = rec] \in [Keys -> Rows \cup {Untouched}]
    BY <1>1, <1>2
  <1> QED
    BY <1>1, <1>2, <1>3, <1>4 DEF OnlyAt

\* What r sees.
LEMMA ViewFacts ==
  ASSUME Types, NEW r \in Requests, Guarded(r), NEW k \in Keys
  PROVE  /\ View(r, k) \in Rows
         /\ ~Outdated(r) => View(r, k) = Own(r)[k]
  <1>1. table[k] \in Rows /\ dirty[r][k] \in Rows \cup {Untouched} /\ snap[r] \in SUBSET [Keys -> Rows]
    BY DEF Types, TypeOK, Rows
  <1>2. CASE dirty[r][k] # Untouched
    BY <1>1, <1>2 DEF View, Own
  <1>3. CASE dirty[r][k] = Untouched /\ snap[r] = {}
    BY <1>1, <1>3 DEF View, Own
  <1>4. CASE dirty[r][k] = Untouched /\ snap[r] # {}
    <2>1. (CHOOSE t \in snap[r] : TRUE) \in snap[r]
      BY <1>4
    <2>2. ~Outdated(r) => (CHOOSE t \in snap[r] : TRUE) = table
      BY <1>4, <2>1 DEF Outdated, Guarded
    <2>3. (CHOOSE t \in snap[r] : TRUE)[k] \in Rows
      BY <1>1, <2>1
    <2> QED
      BY <1>4, <2>2, <2>3 DEF View, Own
  <1> QED
    BY <1>2, <1>3, <1>4

\* What an INSERT, an UPDATE and a DELETE leave.
LEMMA WrittenFacts ==
  ASSUME Types, NEW r \in Requests, pc[r] # "new", NEW rec \in Row
  PROVE  /\ Written(r, rec) \in Rows
         /\ Written(r, rec) = NoRow => It(r).op \in {"remove", "delete"}
         /\ Written(r, rec) # NoRow => Written(r, rec).ver = <<r, pos[r]>>
         /\ It(r).op \notin {"remove", "delete"} =>
              Written(r, rec).guard = IF It(r).guard # 0 THEN It(r).guard ELSE rec.guard
  <1>1. This(r) \in Requests \X Nat /\ It(r).guard \in Nat /\ This(r) = <<r, pos[r]>>
    BY ItemFacts DEF This, Types, TypeOK
  <1>2. rec.guard \in Nat /\ rec.id \in Requests \X Nat /\ rec.gone \in BOOLEAN
    BY DEF Row
  <1> DEFINE u == Updated(r, rec)
             d == [rec EXCEPT !.ver = This(r), !.gone = TRUE]
  <1>3. u \in Row /\ u.ver = This(r) /\ u.guard = IF It(r).guard # 0 THEN It(r).guard ELSE rec.guard
    BY <1>1, <1>2 DEF Updated, Row
  <1>4. d \in Row /\ d.ver = This(r)
    BY <1>1 DEF Row
  <1>5. Deleted(r, rec) = d \/ Deleted(r, rec) = NoRow
    BY DEF Deleted
  <1> QED
    BY <1>1, <1>3, <1>4, <1>5, RowsDiffer DEF Written, Rows

LEMMA InsertedFacts ==
  ASSUME Types, NEW r \in Requests, pc[r] # "new"
  PROVE  /\ [id |-> This(r), ver |-> This(r), guard |-> It(r).guard, gone |-> FALSE] \in Row
         /\ This(r) = <<r, pos[r]>>
  <1>1. This(r) \in Requests \X Nat /\ It(r).guard \in Nat /\ This(r) = <<r, pos[r]>>
    BY ItemFacts DEF This, Types, TypeOK
  <1> QED
    BY <1>1 DEF Row

-----------------------------------------------------------------------------
\* The types.  A request that has begun keeps its job.
LEMMA TypesKept ==
  ASSUME Types, NEW r \in Requests, pc[r] # "new", deployed' = deployed, job' = job, seen' = seen,
         table' \in [Keys -> Rows], log' \in Seq(Event), lock' \in [Keys -> Requests \cup {None}],
         pc' \in [Requests -> Places], OnlyAt(r, pc, pc', pc'[r]),
         pos' \in [Requests -> Nat \ {0}], OnlyAt(r, pos, pos', pos'[r]),
         pos'[r] \in 1 .. Len(job[r].items),
         before' \in [Requests -> Rows], dirty' \in [Requests -> [Keys -> Rows \cup {Untouched}]],
         events' \in [Requests -> Seq(Event)], snap' \in [Requests -> SUBSET [Keys -> Rows]],
         results' \in [Requests -> Seq(Outcomes)]
  PROVE  Types'
  <1>1. \A q \in Requests : pc'[q] # "new" =>
           job'[q] \in Jobs(q)' /\ pos'[q] \in 1 .. Len(job'[q].items)
    BY DEF Types, TypeOK, OnlyAt, Jobs
  <1>2. TypeOK'
    BY <1>1 DEF Types, TypeOK, Rows, Places, Row, Outcomes, Changed
  <1> QED
    BY <1>2 DEF Types, Rows, Event, Row, Outcomes, Changed

LEMMA TypeFacts ==
  ASSUME Types
  PROVE  /\ deployed \in DOMAIN Deployments
         /\ table \in [Keys -> Rows] /\ log \in Seq(Event) /\ lock \in [Keys -> Requests \cup {None}]
         /\ pc \in [Requests -> Places] /\ pos \in [Requests -> Nat \ {0}]
         /\ seen \in [Requests -> Rows] /\ before \in [Requests -> Rows]
         /\ dirty \in [Requests -> [Keys -> Rows \cup {Untouched}]]
         /\ events \in [Requests -> Seq(Event)] /\ snap \in [Requests -> SUBSET [Keys -> Rows]]
         /\ results \in [Requests -> Seq(Outcomes)]
         /\ job \in [Requests -> Job]
  BY DEF Types, TypeOK, Rows, Places

LEMMA TypesBegin ==
  ASSUME Types, NEW r \in Requests, NEW j \in Jobs(r), \A q \in Requests : Counted(q), Begin(r, j)
  PROVE  Types'
  <1>1. j \in Job /\ j.items # <<>>
    BY EntityAssumption, TypeFacts DEF Jobs, Job
  <1>2. pos[r] = 1 /\ 1 \in 1 .. Len(j.items) /\ j.items[1] \in Item
    <2>1. Len(j.items) \in Nat \ {0}
      BY <1>1, EmptySeq DEF Job
    <2> QED
      BY <2>1, <1>1, ElementOfSeq DEF Counted, Begin, Job
  <1>3. pc[r] = "new" /\ pc' = [pc EXCEPT ![r] = "prepare"] /\ deployed' = deployed
    BY DEF Begin, Goto
  <1>4. j.items[1].key \in Keys
    BY <1>2 DEF Item
  <1>5. job' \in [Requests -> Job] /\ job'[r] = j
        /\ \A q \in Requests \ {r} : job'[q] = job[q]
    BY <1>1, TypeFacts DEF Begin
  <1>6. seen' \in [Requests -> Rows]
    BY <1>4, TypeFacts DEF Begin, Rows
  <1>7. pc' \in [Requests -> Places] /\ \A q \in Requests : pc'[q] # "new" => q = r \/ pc[q] # "new"
    BY <1>3, TypeFacts DEF Places
  <1>8. UNCHANGED <<table, log, lock, pos, before, dirty, events, snap, results>>
    BY DEF Begin, tx
  <1>9. \A q \in Requests : pc'[q] # "new" =>
           job'[q] \in Jobs(q)' /\ pos'[q] \in 1 .. Len(job'[q].items)
    BY <1>2, <1>3, <1>5, <1>7, <1>8 DEF Types, TypeOK, Jobs
  <1>10. TypeOK'
    BY <1>3, <1>6, <1>7, <1>8, <1>9 DEF Types, TypeOK, Rows, Places, Row, Outcomes, Changed
  <1> QED
    BY <1>5, <1>8, <1>10 DEF Types, Rows, Event, Row, Outcomes, Changed

\* A step of r leaves the other requests and their locks as they are.
Apart(r) ==
    /\ deployed' = deployed /\ engine' = engine /\ SameDB' = SameDB
    /\ OnlyAt(r, job, job', job'[r]) /\ OnlyAt(r, pos, pos', pos'[r]) /\ OnlyAt(r, pc, pc', pc'[r])
    /\ OnlyAt(r, seen, seen', seen'[r]) /\ OnlyAt(r, before, before', before'[r])
    /\ OnlyAt(r, dirty, dirty', dirty'[r]) /\ OnlyAt(r, events, events', events'[r])
    /\ OnlyAt(r, snap, snap', snap'[r]) /\ OnlyAt(r, results, results', results'[r])
    /\ \A x \in Keys, q \in Requests \ {r} : lock[x] = q => lock'[x] = q

LEMMA ApartBegin ==
  ASSUME Types, NEW r \in Requests, NEW j \in Jobs(r), Begin(r, j)
  PROVE  Apart(r)
  BY TypeFacts DEF Begin, Goto, Apart, OnlyAt, tx, engine, SameDB

LEMMA StepPrepare ==
  ASSUME Types, NEW r \in Requests, Prepare(r)
  PROVE  /\ Types' /\ Apart(r) /\ pc'[r] \in {"insert", "read"}
         /\ pc'[r] = "insert" => It(r).op \notin ById
  <1>1. pc[r] # "new" /\ UNCHANGED <<table, log, lock, job, pos, seen, before, tx, results>>
    BY DEF Prepare
  <1>2. PICK label \in {"insert", "read"} : Goto(r, label) /\ (label = "insert" => It(r).op \notin ById)
    BY DEF Prepare, FirstStatement, ById
  <1>3. /\ pc' \in [Requests -> Places] /\ OnlyAt(r, pc, pc', label)
        /\ deployed' = deployed /\ engine' = engine /\ SameDB' = SameDB
    BY <1>2, GotoFacts DEF Places
  <1>4. pos[r] \in 1 .. Len(job[r].items)
    BY <1>1, ItemFacts
  <1>5. Apart(r)
    BY <1>1, <1>3 DEF Apart, OnlyAt, tx
  <1>6. Types'
    BY <1>1, <1>3, <1>4, <1>5, TypeFacts, TypesKept DEF Apart, tx
  <1> QED
    BY <1>2, <1>3, <1>5, <1>6 DEF OnlyAt

\* What a SELECT makes of its result.
LEMMA ReadOutcome ==
  ASSUME Types, NEW r \in Requests, Read(r)
  PROVE  LET k == It(r).key
             found == Matches(r, View(r, k))
         IN  /\ pc[r] = "read"
             /\ before' = [before EXCEPT ![r] = IF found THEN View(r, k) ELSE NoRow]
             /\ \/ pc'[r] \in {"insert", "refuse"} /\ Go(r, pc'[r]) /\ (pc'[r] = "insert" => It(r).op \notin ById)
                \/ found /\ Go(r, "write") /\ It(r).op \notin {"create", "ignore"} /\
                   (It(r).op \in ById /\ It(r).cond => View(r, k).ver = seen[r].ver)
                \/ \E outcome \in {"ignored", "not_found"} : ItemDone(r, outcome)
  <1> DEFINE k == It(r).key
             found == Matches(r, View(r, k))
  <1>1. pc[r] = "read" /\ pc \in [Requests -> Places]
    BY TypeFacts DEF Read
  <1>2. \A label : Go(r, label) => pc'[r] = label
    BY <1>1 DEF Go, Goto
  <1>3. ASSUME UpsertRead(r, found)
        PROVE  \/ Go(r, "insert") /\ It(r).op \notin ById
               \/ found /\ Go(r, "write") /\ It(r).op \notin ById \cup {"create", "ignore"}
               \/ ItemDone(r, "ignored")
    BY <1>3 DEF UpsertRead, ById
  <1>4. ASSUME UpdateRead(r, found, View(r, k)) \/ DeleteRead(r, found, View(r, k))
        PROVE  \/ Go(r, "refuse")
               \/ found /\ Go(r, "write") /\ It(r).op \notin {"create", "ignore"} /\
                  (It(r).cond => View(r, k).ver = seen[r].ver)
    <2>1. CASE found /\ ~PreconditionFails(r, View(r, k))
      BY <1>4, <2>1 DEF UpdateRead, DeleteRead, PreconditionFails
    <2>2. CASE ~found \/ PreconditionFails(r, View(r, k))
      BY <1>4, <2>2 DEF UpdateRead, DeleteRead
    <2> QED
      BY <2>1, <2>2
  <1>5. ASSUME ApplyWriteRead(r, found)
        PROVE  \/ Go(r, "refuse")
               \/ found /\ Go(r, "write") /\ It(r).op \notin ById \cup {"create", "ignore"}
               \/ ItemDone(r, "not_found")
    BY <1>5 DEF ApplyWriteRead, ById
  <1>6. /\ before' = [before EXCEPT ![r] = IF found THEN View(r, k) ELSE NoRow]
        /\ \/ UpsertRead(r, found) \/ UpdateRead(r, found, View(r, k))
           \/ DeleteRead(r, found, View(r, k)) \/ ApplyWriteRead(r, found)
    BY DEF Read
  <1> HIDE DEF found, k
  <1>7. \/ Go(r, "insert") /\ It(r).op \notin ById
        \/ Go(r, "refuse") \/ ItemDone(r, "ignored") \/ ItemDone(r, "not_found")
        \/ found /\ Go(r, "write") /\ It(r).op \notin {"create", "ignore"} /\
           (It(r).op \in ById /\ It(r).cond => View(r, k).ver = seen[r].ver)
    BY <1>3, <1>4, <1>5, <1>6
  <1>8. \/ pc'[r] \in {"insert", "refuse"} /\ Go(r, pc'[r]) /\ (pc'[r] = "insert" => It(r).op \notin ById)
        \/ \E outcome \in {"ignored", "not_found"} : ItemDone(r, outcome)
        \/ found /\ Go(r, "write") /\ It(r).op \notin {"create", "ignore"} /\
           (It(r).op \in ById /\ It(r).cond => View(r, k).ver = seen[r].ver)
    BY <1>7, <1>2
  <1> QED
    BY <1>1, <1>6, <1>8 DEF found, k

\* A statement goes on in the code or comes to the end of its item.
Moves(r) ==
    /\ pos' \in [Requests -> Nat \ {0}] /\ OnlyAt(r, pos, pos', pos'[r])
    /\ pos'[r] \in 1 .. Len(job[r].items)
    /\ pc' \in [Requests -> Places] /\ OnlyAt(r, pc, pc', pc'[r])
    /\ results' \in [Requests -> Seq(Outcomes)] /\ OnlyAt(r, results, results', results'[r])
    /\ deployed' = deployed /\ engine' = engine /\ SameDB' = SameDB

Same(r) == pos'[r] = pos[r] /\ results'[r] = results[r]

LEMMA GoMoves ==
  ASSUME Types, NEW r \in Requests, pc[r] # "new", NEW label \in Places, Goto(r, label),
         UNCHANGED <<pos, results>>
  PROVE  Moves(r) /\ pc'[r] = label /\ Same(r)
  BY GotoFacts, ItemFacts, TypeFacts DEF Moves, OnlyAt, Same

LEMMA DoneMoves ==
  ASSUME Types, NEW r \in Requests, pc[r] # "new", NEW outcome \in Outcomes, ItemDone(r, outcome)
  PROVE  /\ Moves(r) /\ results'[r] = Append(results[r], outcome)
         /\ \/ pos'[r] = pos[r] /\ pc'[r] = "commit"
            \/ ~job[r].partial /\ pos'[r] = pos[r] + 1 /\ pc'[r] \in {"insert", "read"}
  BY ItemDoneFacts DEF Moves, OnlyAt

LEMMA ReadMoves ==
  ASSUME Types, NEW r \in Requests, Read(r)
  PROVE  Moves(r)
  <1>1. pc[r] # "new"
    BY DEF Read
  <1>2. CASE pc'[r] \in {"insert", "refuse"} /\ Go(r, pc'[r])
    BY <1>1, <1>2, GoMoves DEF Go, Places
  <1>3. CASE Go(r, "write")
    BY <1>1, <1>3, GoMoves DEF Go, Places
  <1>4. ASSUME NEW outcome \in {"ignored", "not_found"}, ItemDone(r, outcome) PROVE Moves(r)
    BY <1>1, <1>4, DoneMoves DEF Outcomes
  <1> QED
    BY <1>2, <1>3, <1>4, ReadOutcome

LEMMA StepRead ==
  ASSUME Types, None \notin Requests, NEW r \in Requests, Guarded(r), Read(r)
  PROVE  Types' /\ Apart(r)
  <1>1. pc[r] # "new" /\ It(r).key \in Keys
    BY ItemFacts DEF Read
  <1>2. UNCHANGED <<table, log, job, seen, dirty, events>>
    BY DEF Read
  <1>3. Moves(r)
    BY ReadMoves
  <1>4. /\ lock' \in [Keys -> Requests \cup {None}]
        /\ \A x \in Keys, q \in Requests \ {r} : lock[x] = q => lock'[x] = q
    <2>1. CASE CanLock(r, It(r).key) /\ TakeLock(r, It(r).key)
      BY <1>1, <2>1, LockFacts
    <2>2. CASE UNCHANGED lock
      BY <2>2, TypeFacts
    <2> QED
      BY <2>1, <2>2 DEF Read
  <1>5. snap' \in [Requests -> SUBSET [Keys -> Rows]] /\ OnlyAt(r, snap, snap', snap'[r])
    BY SnapshotFacts DEF Read
  <1>6. before' \in [Requests -> Rows] /\ OnlyAt(r, before, before', before'[r])
    <2>1. View(r, It(r).key) \in Rows /\ NoRow \in Rows
      BY <1>1, ViewFacts DEF Rows
    <2>2. before \in [Requests -> Rows]
      BY TypeFacts
    <2>3. PICK rec \in Rows : before' = [before EXCEPT ![r] = rec]
      BY <2>1, ReadOutcome
    <2> QED
      BY <2>2, <2>3 DEF OnlyAt
  <1>7. Apart(r)
    BY <1>2, <1>3, <1>4, <1>5, <1>6 DEF Apart, Moves, OnlyAt
  <1> QED
    BY <1>1, <1>2, <1>3, <1>4, <1>5, <1>6, <1>7, TypeFacts, TypesKept DEF Moves

LEMMA StepInsert ==
  ASSUME Types, None \notin Requests, NEW r \in Requests, Insert(r)
  PROVE  Types' /\ Apart(r)
  <1>1. pc[r] # "new" /\ It(r).key \in Keys /\ pos[r] \in 1 .. Len(job[r].items)
    BY ItemFacts DEF Insert
  <1>2. UNCHANGED <<table, log, job, pos, seen, events, results>>
    BY DEF Insert
  <1>3. /\ pc' \in [Requests -> Places] /\ OnlyAt(r, pc, pc', pc'[r])
        /\ deployed' = deployed /\ engine' = engine /\ SameDB' = SameDB
    <2>1. Goto(r, "refuse") \/ Goto(r, "observe")
      BY DEF Insert
    <2> QED
      BY <2>1, GotoFacts DEF Places, OnlyAt
  <1>4. /\ lock' \in [Keys -> Requests \cup {None}]
        /\ \A x \in Keys, q \in Requests \ {r} : lock[x] = q => lock'[x] = q
        /\ dirty' \in [Requests -> [Keys -> Rows \cup {Untouched}]] /\ OnlyAt(r, dirty, dirty', dirty'[r])
    <2> DEFINE rec == [id |-> This(r), ver |-> This(r), guard |-> It(r).guard, gone |-> FALSE]
    <2>1. CASE UNCHANGED <<lock, dirty>>
      BY <2>1, TypeFacts DEF OnlyAt
    <2>2. CASE CanLock(r, It(r).key) /\ TakeLock(r, It(r).key) /\ Put(r, rec)
      <3>1. rec \in Rows
        BY <1>1, InsertedFacts DEF Rows
      <3>2. dirty' \in [Requests -> [Keys -> Rows \cup {Untouched}]] /\ OnlyAt(r, dirty, dirty', dirty'[r])
        <4> HIDE DEF rec
        <4> QED
          BY <1>1, <2>2, <3>1, PutFacts
      <3> QED
        BY <1>1, <2>2, <3>2, LockFacts
    <2> QED
      BY <2>1, <2>2 DEF Insert
  <1>5. snap' \in [Requests -> SUBSET [Keys -> Rows]] /\ OnlyAt(r, snap, snap', snap'[r])
    BY SnapshotFacts DEF Insert
  <1>6. before' \in [Requests -> Rows] /\ OnlyAt(r, before, before', before'[r])
    BY TypeFacts DEF Insert, Rows, OnlyAt
  <1>7. Apart(r)
    BY <1>2, <1>3, <1>4, <1>5, <1>6 DEF Apart, OnlyAt
  <1> QED
    BY <1>1, <1>2, <1>3, <1>4, <1>5, <1>6, <1>7, TypeFacts, TypesKept DEF OnlyAt

\* An UPDATE or DELETE that finds its row, one whose row is newer, and one that fails.
Hits(r) ==
    LET rec == View(r, It(r).key) IN
    /\ ~Outdated(r) /\ rec # NoRow /\ Fresh(It(r), rec)
    /\ CanLock(r, It(r).key) /\ TakeLock(r, It(r).key) /\ Put(r, Written(r, rec))
    /\ Goto(r, "observe") /\ UNCHANGED <<pos, results>>

LEMMA WriteOutcome ==
  ASSUME NEW r \in Requests, Write(r)
  PROVE  /\ pc[r] = "write" /\ Snapshot(r) /\ UNCHANGED <<table, log, job, seen, before, events>>
         /\ \/ Hits(r)
            \/ ItemDone(r, "unchanged") /\ UNCHANGED <<lock, dirty>>
            \/ Goto(r, "refuse") /\ UNCHANGED <<lock, dirty, pos, results>>
  BY DEF Write, Hits

LEMMA StepWrite ==
  ASSUME Types, None \notin Requests, NEW r \in Requests, Guarded(r), Write(r)
  PROVE  Types' /\ Apart(r)
  <1>1. pc[r] # "new" /\ It(r).key \in Keys
    BY ItemFacts, WriteOutcome
  <1>2. UNCHANGED <<table, log, job, seen, before, events>>
    BY WriteOutcome
  <1>3. Moves(r)
    <2>1. CASE Hits(r)
      BY <1>1, <2>1, GoMoves DEF Hits, Places
    <2>2. CASE ItemDone(r, "unchanged")
      BY <1>1, <2>2, DoneMoves DEF Outcomes
    <2>3. CASE Goto(r, "refuse") /\ UNCHANGED <<lock, dirty, pos, results>>
      BY <1>1, <2>3, GoMoves DEF Places
    <2> QED
      BY <2>1, <2>2, <2>3, WriteOutcome
  <1>4. /\ lock' \in [Keys -> Requests \cup {None}]
        /\ \A x \in Keys, q \in Requests \ {r} : lock[x] = q => lock'[x] = q
        /\ dirty' \in [Requests -> [Keys -> Rows \cup {Untouched}]] /\ OnlyAt(r, dirty, dirty', dirty'[r])
    <2>1. CASE UNCHANGED <<lock, dirty>>
      BY <2>1, TypeFacts DEF OnlyAt
    <2>2. CASE Hits(r)
      <3>1. View(r, It(r).key) \in Row
        BY <1>1, <2>2, ViewFacts DEF Hits, Rows
      <3>2. Written(r, View(r, It(r).key)) \in Rows
        BY <1>1, <3>1, WrittenFacts
      <3> QED
        BY <1>1, <2>2, <3>2, LockFacts, PutFacts DEF Hits
    <2> QED
      BY <2>1, <2>2, WriteOutcome
  <1>5. snap' \in [Requests -> SUBSET [Keys -> Rows]] /\ OnlyAt(r, snap, snap', snap'[r])
    BY SnapshotFacts, WriteOutcome
  <1>6. Apart(r)
    BY <1>2, <1>3, <1>4, <1>5 DEF Apart, Moves, OnlyAt
  <1> QED
    BY <1>1, <1>2, <1>3, <1>4, <1>5, <1>6, TypeFacts, TypesKept DEF Moves

LEMMA StepNoFields ==
  ASSUME Types, NEW r \in Requests, NoFields(r)
  PROVE  Types' /\ Apart(r) /\ Moves(r)
  <1>1. pc[r] # "new" /\ UNCHANGED <<table, log, lock, job, seen, before, dirty, events, snap>>
    BY DEF NoFields, tx
  <1>2. Moves(r)
    BY <1>1, DoneMoves DEF NoFields, Outcomes
  <1>3. Apart(r)
    BY <1>1, <1>2 DEF Apart, Moves, OnlyAt
  <1> QED
    BY <1>1, <1>2, <1>3, TypeFacts, TypesKept DEF Moves

\* The event of the item r is at.
EventOf(r) == [by |-> This(r), key |-> It(r).key, before |-> before[r], after |-> dirty[r][It(r).key]]

LEMMA StepObserve ==
  ASSUME Types, NEW r \in Requests, Guarded(r), Observe(r)
  PROVE  /\ Types' /\ Apart(r) /\ Moves(r) /\ EventOf(r) \in Event
         /\ OnlyAt(r, events, events', IF SameDB THEN Append(events[r], EventOf(r)) ELSE events[r])
         /\ log' = IF SameDB THEN log ELSE Append(log, EventOf(r))
         /\ \E outcome \in Changed : ItemDone(r, outcome)
  <1>1. pc[r] = "observe" /\ pc[r] # "new" /\ UNCHANGED <<table, lock, job, seen, before, dirty, snap>>
    BY DEF Observe
  <1>2. It(r).key \in Keys /\ pos[r] \in 1 .. Len(job[r].items)
    BY <1>1, ItemFacts
  <1>3. EventOf(r) \in Event
    <2>1. dirty[r][It(r).key] \in Rows /\ before[r] \in Rows
      BY <1>1, <1>2, TypeFacts DEF Guarded
    <2>2. This(r) \in Requests \X Nat
      BY TypeFacts DEF This
    <2> QED
      BY <1>2, <2>1, <2>2 DEF EventOf, Event
  <1>4. \E outcome \in Changed : ItemDone(r, outcome)
    <2>1. Outcome(r) \in Changed
      BY DEF Outcome, Changed
    <2> QED
      BY <2>1 DEF Observe
  <1>5. Moves(r)
    <2>1. PICK outcome \in Outcomes : ItemDone(r, outcome)
      BY <1>4 DEF Outcomes
    <2> QED
      BY <1>1, <2>1, DoneMoves
  <1>6. /\ Append(events[r], EventOf(r)) \in Seq(Event) /\ Append(log, EventOf(r)) \in Seq(Event)
        /\ events \in [Requests -> Seq(Event)] /\ log \in Seq(Event)
    BY <1>3, TypeFacts, AppendProperties
  <1>7. /\ events' \in [Requests -> Seq(Event)]
        /\ OnlyAt(r, events, events', IF SameDB THEN Append(events[r], EventOf(r)) ELSE events[r])
        /\ log' = (IF SameDB THEN log ELSE Append(log, EventOf(r))) /\ log' \in Seq(Event)
    <2>1. CASE SameDB
      <3>1. events' = [events EXCEPT ![r] = Append(events[r], EventOf(r))] /\ log' = log
        BY <2>1 DEF Observe, EventOf
      <3> QED
        BY <1>6, <2>1, <3>1 DEF OnlyAt
    <2>2. CASE ~SameDB
      <3>1. log' = Append(log, EventOf(r)) /\ events' = events
        BY <2>2 DEF Observe, EventOf
      <3> QED
        BY <1>6, <2>2, <3>1 DEF OnlyAt
    <2> QED
      BY <2>1, <2>2
  <1>8. Apart(r)
    BY <1>1, <1>5, <1>7 DEF Apart, Moves, OnlyAt
  <1>9. Types'
    BY <1>1, <1>5, <1>7, <1>8, TypeFacts, TypesKept DEF Moves
  <1> QED
    BY <1>3, <1>4, <1>5, <1>7, <1>8, <1>9

\* The end of a transaction.
Ends(r, outs) == EndTx(r) /\ Proceed(r, outs) /\ UNCHANGED <<job, seen>>

LEMMA StepEnd ==
  ASSUME Types, None \notin Requests, NEW r \in Requests, pc[r] # "new",
         NEW outs \in Seq(Outcomes), Ends(r, outs), table' \in [Keys -> Rows], log' \in Seq(Event)
  PROVE  /\ Types' /\ Apart(r) /\ Moves(r) /\ results'[r] = outs
         /\ dirty'[r] = Clean /\ events'[r] = <<>> /\ snap'[r] = {}
         /\ \/ pos'[r] = pos[r] /\ pc'[r] = "done"
            \/ job[r].partial /\ pos'[r] = pos[r] + 1 /\ pc'[r] = "prepare"
  <1>1. /\ lock' \in [Keys -> Requests \cup {None}]
        /\ \A x \in Keys : lock[x] # r => lock'[x] = lock[x]
        /\ dirty' \in [Requests -> [Keys -> Rows \cup {Untouched}]] /\ OnlyAt(r, dirty, dirty', Clean)
        /\ events' \in [Requests -> Seq(Event)] /\ OnlyAt(r, events, events', <<>>)
        /\ snap' \in [Requests -> SUBSET [Keys -> Rows]] /\ OnlyAt(r, snap, snap', {})
        /\ before' \in [Requests -> Rows] /\ OnlyAt(r, before, before', NoRow)
    BY EndTxFacts DEF Ends
  <1>2. /\ results'[r] = outs /\ Moves(r)
        /\ \/ pos'[r] = pos[r] /\ pc'[r] = "done"
           \/ job[r].partial /\ pos'[r] = pos[r] + 1 /\ pc'[r] = "prepare"
    BY ProceedFacts DEF Ends, Moves, OnlyAt
  <1>3. UNCHANGED <<job, seen>>
    BY DEF Ends
  <1>4. Apart(r)
    BY <1>1, <1>2, <1>3 DEF Apart, Moves, OnlyAt
  <1>5. Types'
    BY <1>1, <1>2, <1>3, <1>4, TypeFacts, TypesKept DEF Moves, OnlyAt
  <1> QED
    BY <1>1, <1>2, <1>4, <1>5 DEF OnlyAt

\* Without COMMIT nothing is left of it.
LEMMA StepAbort ==
  ASSUME Types, None \notin Requests, NEW r \in Requests, Refuse(r) \/ Victim(r) \/ Fail(r)
  PROVE  /\ pc[r] \notin {"new", "done"} /\ UNCHANGED <<table, log>>
         /\ \E outs \in Seq(Outcomes) :
               /\ Ends(r, outs)
               /\ \/ outs = Errors(r) /\ ~(pc[r] = "commit" /\ job[r].partial)
                  \/ outs = [results[r] EXCEPT ![pos[r]] = "error"] /\ pc[r] = "commit" /\ job[r].partial
  <1>1. pc[r] \notin {"new", "done"} /\ UNCHANGED <<table, log, job, seen>>
    BY DEF Refuse, Victim, Rollback, Fail, Deadlocked, Waits
  <1>2. Errors(r) \in Seq(Outcomes)
    BY <1>1, ErrorsFacts
  <1>3. ASSUME Refuse(r) \/ Victim(r)
        PROVE  Ends(r, Errors(r)) /\ pc[r] # "commit"
    BY <1>3 DEF Refuse, Victim, Rollback, Deadlocked, Waits, Ends
  <1>4. CASE Fail(r)
    <2>1. CASE pc[r] = "commit" /\ job[r].partial
      <3>1. results[r] \in Seq(Outcomes)
        BY TypeFacts
      <3>2. [results[r] EXCEPT ![pos[r]] = "error"] \in Seq(Outcomes)
        <4>1. results[r] \in [1 .. Len(results[r]) -> Outcomes] /\ Len(results[r]) \in Nat
          BY <3>1, LenProperties
        <4>2. [results[r] EXCEPT ![pos[r]] = "error"] \in [1 .. Len(results[r]) -> Outcomes]
          BY <4>1 DEF Outcomes
        <4> QED
          BY <4>1, <4>2, SeqDef
      <3> QED
        BY <1>1, <1>4, <2>1, <3>2 DEF Fail, Ends
    <2>2. CASE ~(pc[r] = "commit" /\ job[r].partial)
      BY <1>1, <1>2, <1>4, <2>2 DEF Fail, Ends
    <2> QED
      BY <2>1, <2>2
  <1> QED
    BY <1>1, <1>2, <1>3, <1>4

LEMMA StepCommit ==
  ASSUME Types, NEW r \in Requests, Commit(r)
  PROVE  /\ pc[r] = "commit" /\ Ends(r, results[r]) /\ results[r] \in Seq(Outcomes)
         /\ table' = Own(r) /\ table' \in [Keys -> Rows]
         /\ log' = log \o events[r] /\ log' \in Seq(Event)
  <1>1. dirty[r] \in [Keys -> Rows \cup {Untouched}] /\ table \in [Keys -> Rows]
    BY TypeFacts
  <1>2. Own(r) \in [Keys -> Rows] /\ table' = Own(r)
    BY <1>1 DEF Own, Commit
  <1>3. log \in Seq(Event) /\ events[r] \in Seq(Event) /\ results[r] \in Seq(Outcomes)
    BY TypeFacts
  <1>4. log' = log \o events[r] /\ log' \in Seq(Event)
    BY <1>3, ConcatProperties DEF Commit
  <1> QED
    BY <1>2, <1>3, <1>4 DEF Commit, Ends

-----------------------------------------------------------------------------
\* What a step of r means to the others: rows they have written are locked, so that the
\* table does not change under them, and nothing is reported in their name.
TableBy(r) == \A k \in Keys : table'[k] # table[k] => dirty[r][k] # Untouched
LogBy(r) == \A q \in Requests \ {r}, p \in Nat : Tells(log', q, p) <=> Tells(log, q, p)

LEMMA Others ==
  ASSUME IInv, NEW r \in Requests, Types', Apart(r), TableBy(r), LogBy(r),
         NEW q \in Requests, q # r
  PROVE  Inv(q)'
  <1> DEFINE k == It(q).key
  <1>1. /\ job'[q] = job[q] /\ pos'[q] = pos[q] /\ pc'[q] = pc[q] /\ seen'[q] = seen[q]
        /\ before'[q] = before[q] /\ dirty'[q] = dirty[q] /\ events'[q] = events[q]
        /\ snap'[q] = snap[q] /\ results'[q] = results[q] /\ It(q)' = It(q)
        /\ engine' = engine /\ SameDB' = SameDB
        /\ \A x \in Keys : lock[x] = q => lock'[x] = q
    BY DEF Apart, OnlyAt, It
  <1>2. /\ Types /\ Guarded(r) /\ Counted(q) /\ Guarded(q) /\ Settled(q) /\ Chained(q)
        /\ Answering(q) /\ Authored(q) /\ Conditional(q) /\ Newer(q)
    BY DEF IInv, Inv
  <1>3. \A x \in Keys : x \in Claims(x) /\ Claims(x) \subseteq Keys /\ Claims(x)' = Claims(x)
    BY <1>1 DEF Claims
  <1>4. \A x \in Keys : lock[x] = q => table'[x] = table[x]
    BY <1>2, <1>3 DEF TableBy, Guarded
  <1>5. \A x \in Keys : dirty[q][x] # Untouched => table'[x] = table[x]
    BY <1>2, <1>3, <1>4 DEF Guarded
  <1>6. pc[q] # "new" => k \in Keys
    BY <1>2, ItemFacts
  <1>7. Counted(q)'
    BY <1>1, <1>2 DEF Counted
  <1>8. Guarded(q)'
    BY <1>1, <1>2, <1>3 DEF Guarded, Clean
  <1>9. Settled(q)'
    <2> SUFFICES ASSUME pc[q] = "write"
                 PROVE  /\ It(q).op \notin {"create", "ignore"}
                        /\ before[q] # NoRow /\ before[q] = View(q, k)'
                        /\ IF engine = "lock" THEN lock'[k] = q ELSE snap[q] # {}
      BY <1>1 DEF Settled
    <2>1. View(q, k)' = View(q, k)
      <3>1. CASE dirty[q][k] # Untouched \/ snap[q] # {}
        BY <1>1, <3>1 DEF View
      <3>2. CASE dirty[q][k] = Untouched /\ snap[q] = {}
        BY <1>1, <1>2, <1>4, <1>6, <3>2 DEF View, Settled
      <3> QED
        BY <3>1, <3>2
    <2> QED
      BY <2>1, <1>1, <1>2, <1>6 DEF Settled
  <1>10. Chained(q)'
    <2>1. CASE ~SameDB
      BY <1>1, <1>2, <2>1 DEF Chained
    <2>2. CASE SameDB
      <3>1. /\ History(events[q], table, Reported(q)) /\ events[q] \in Seq(Event)
            /\ \A i \in DOMAIN events[q] : dirty[q][events[q][i].key] # Untouched
        BY <1>2, <2>2, TypeFacts DEF Chained
      <3>2. \A x \in Keys : dirty[q][x] # Untouched => Reported(q)'[x] = Reported(q)[x]
        BY <1>1, <1>5 DEF Reported, Own
      <3>3. \A x \in Keys : dirty[q][x] = Untouched => Reported(q)'[x] = table'[x]
        BY <1>1, <1>2 DEF Reported, Own, Guarded
      <3>4. History(events[q], table', Reported(q)')
        <4>1. ASSUME NEW x \in Keys
              PROVE  \/ table'[x] = table[x] /\ Reported(q)'[x] = Reported(q)[x]
                     \/ Reported(q)'[x] = table'[x] /\ \A i \in DOMAIN events[q] : events[q][i].key # x
          BY <1>5, <3>1, <3>2, <3>3
        <4> QED
          BY <3>1, <4>1, HistoryElsewhere
      <3>5. History(events[q], table, Reported(q))'
        BY <1>1, <3>4 DEF History, Leaves
      <3>6. \A i \in DOMAIN events[q]' : dirty'[q][events'[q][i].key] # Untouched
        BY <1>1, <3>1
      <3> QED
        BY <1>1, <2>2, <3>5, <3>6 DEF Chained
    <2> QED
      BY <2>1, <2>2
  <1>11. Answering(q)'
    <2>1. \A p \in Nat : Tells(log, q, p)' <=> Tells(log, q, p)
      BY DEF LogBy, Tells
    <2>2. \A p \in Nat : Tells(events[q], q, p)' <=> Tells(events[q], q, p)
      BY <1>1 DEF Tells
    <2>3. Len(results[q]) \in Nat
      BY <1>2, TypeFacts, LenProperties
    <2> QED
      BY <1>1, <1>2, <2>1, <2>2, <2>3 DEF Answering
  <1>12. Authored(q)'
    BY <1>1, <1>2 DEF Authored
  <1>13. Conditional(q)'
    BY ZenonT(60), <1>1, <1>2, <1>5, <1>6 DEF Conditional
  <1>14. Newer(q)'
    BY ZenonT(60), <1>1, <1>2, <1>5 DEF Newer, Upserts
  <1> QED
    BY <1>7, <1>8, <1>9, <1>10, <1>11, <1>12, <1>13, <1>14 DEF Inv

-----------------------------------------------------------------------------
\* The beginning.
LEMMA InitInvariant == Init => IInv
  <1> SUFFICES ASSUME Init PROVE IInv
    OBVIOUS
  <1>1. NoRow \in Rows /\ <<>> \in Seq(Event) /\ <<>> \in Seq(Outcomes) /\ NoJob \in Job
    BY EmptySeq DEF Rows, NoJob, Job
  <1>2. Clean \in [Keys -> Row \cup {NoRow, Untouched}]
    BY DEF Clean
  <1>3. TypeOK
    BY <1>1, <1>2 DEF Init, TypeOK, Rows, Outcomes, Changed
  <1>4. Types
    BY <1>1, <1>3 DEF Init, Types
  <1>5. History(log, EmptyTable, table)
    BY HistoryEmpty DEF Init, EmptyTable
  <1>6. ASSUME NEW r \in Requests PROVE Inv(r)
    <2>1. /\ pc[r] = "new" /\ pos[r] = 1 /\ results[r] = <<>> /\ dirty[r] = Clean /\ events[r] = <<>>
          /\ snap[r] = {} /\ log = <<>> /\ table = EmptyTable
      BY <1>6 DEF Init, EmptyTable
    <2>2. Reported(r) = table
      BY <2>1 DEF Reported, Own, Clean, EmptyTable
    <2>3. \A k \in Keys : dirty[r][k] = Untouched
      BY <2>1 DEF Clean
    <2>4. DOMAIN log = {} /\ DOMAIN events[r] = {} /\ Len(results[r]) = 0
      BY <2>1
    <2>5. \A p : ~Tells(log, r, p) /\ ~Tells(events[r], r, p)
      BY <2>4 DEF Tells
    <2>6. Counted(r) /\ Settled(r) /\ Conditional(r)
      BY <2>1, <2>4 DEF Counted, Settled, Conditional
    <2>7. Guarded(r)
      BY <2>1, <2>3 DEF Guarded
    <2>8. Chained(r)
      BY <2>1, <2>2, <2>4, HistoryEmpty DEF Chained
    <2>9. Answering(r)
      BY SMTT(60), <2>1, <2>4, <2>5 DEF Answering
    <2>10. Authored(r) /\ Newer(r)
      BY <2>3 DEF Authored, Newer
    <2> QED
      BY <2>6, <2>7, <2>8, <2>9, <2>10 DEF Inv
  <1> QED
    BY <1>4, <1>5, <1>6 DEF IInv

\* A request that has no transaction: what its statements are about holds of it.
LEMMA FreshTransaction ==
  ASSUME Types', NEW r \in Requests, dirty'[r] = Clean, events'[r] = <<>>, snap'[r] = {},
         pc'[r] \in {"prepare", "done"}
  PROVE  /\ Guarded(r)' /\ Settled(r)' /\ Chained(r)' /\ Authored(r)' /\ Conditional(r)' /\ Newer(r)'
         /\ \A p : ~Tells(events[r], r, p)'
  <1>1. \A k \in Keys : dirty'[r][k] = Untouched
    BY DEF Clean
  <1>2. table' \in [Keys -> Rows]
    BY DEF Types, TypeOK, Rows, Row
  <1>3. Reported(r)' = table'
    BY <1>1, <1>2 DEF Reported, Own
  <1>4. DOMAIN events'[r] = {}
    OBVIOUS
  <1>5. Guarded(r)'
    BY <1>1 DEF Guarded, Clean
  <1>6. Chained(r)'
    <2>1. History(events'[r], table', Reported(r)')
      BY <1>3, HistoryEmpty
    <2>2. History(events[r], table, Reported(r))'
      BY <2>1 DEF History, Leaves
    <2> QED
      BY <2>2, <1>4 DEF Chained
  <1>7. Authored(r)' /\ Newer(r)' /\ Settled(r)' /\ Conditional(r)'
    BY <1>1 DEF Authored, Newer, Settled, Conditional
  <1>8. \A p : ~Tells(events[r], r, p)'
    BY <1>4 DEF Tells
  <1> QED
    BY <1>5, <1>6, <1>7, <1>8

-----------------------------------------------------------------------------
\* A statement that changes no row: the request goes on with its item, or is through with
\* it and has changed nothing.
Quiet(r) ==
    /\ pc[r] \in {"prepare", "read", "insert", "write"}
    /\ pc'[r] \in {"read", "insert", "write", "refuse", "commit"}
    /\ \/ Same(r) /\ pc'[r] # "commit"
       \/ /\ \E outcome \in Outcomes \ Changed : results'[r] = Append(results[r], outcome)
          /\ \/ pos'[r] = pos[r] /\ pc'[r] = "commit"
             \/ pos'[r] = pos[r] + 1 /\ pc'[r] \in {"insert", "read"}
    /\ UNCHANGED <<table, log>> /\ job'[r] = job[r] /\ seen'[r] = seen[r]
    /\ dirty'[r] = dirty[r] /\ events'[r] = events[r]
    /\ snap'[r] = snap[r] \/ (engine = "snapshot" /\ snap'[r] = {table})
    /\ \A x \in Keys : lock[x] = r => lock'[x] = r

\* The results of such a statement.
LEMMA QuietResults ==
  ASSUME Types, NEW r \in Requests, Quiet(r), Counted(r)
  PROVE  /\ Len(results[r]) = pos[r] - 1 /\ Len(results[r]) \in Nat /\ Len(results'[r]) \in Nat
         /\ Len(results'[r]) >= Len(results[r])
         /\ \A p \in 1 .. Len(results[r]) : results'[r][p] = results[r][p]
         /\ \A p \in 1 .. Len(results'[r]) : results'[r][p] \in Changed => p \in 1 .. Len(results[r])
         /\ IF pc'[r] = "commit" THEN Len(results'[r]) = pos'[r] ELSE Len(results'[r]) = pos'[r] - 1
         /\ pc'[r] = "commit" => pos'[r] = pos[r]
         /\ pos[r] \in Nat /\ pos'[r] \in Nat /\ pos'[r] >= pos[r]
         /\ pos'[r] # pos[r] => pos'[r] = pos[r] + 1
  <1>1. results[r] \in Seq(Outcomes) /\ pos[r] \in Nat \ {0}
    BY TypeFacts
  <1>2. Len(results[r]) \in Nat /\ Len(results[r]) = pos[r] - 1
    BY <1>1, LenProperties DEF Quiet, Counted
  <1>3. CASE Same(r) /\ pc'[r] # "commit"
    BY <1>1, <1>2, <1>3 DEF Same
  <1>4. ASSUME NEW outcome \in Outcomes \ Changed, results'[r] = Append(results[r], outcome),
               \/ pos'[r] = pos[r] /\ pc'[r] = "commit"
               \/ pos'[r] = pos[r] + 1 /\ pc'[r] \in {"insert", "read"}
        PROVE  /\ Len(results'[r]) = Len(results[r]) + 1
               /\ \A p \in 1 .. Len(results[r]) : results'[r][p] = results[r][p]
               /\ results'[r][Len(results[r]) + 1] = outcome
    BY <1>1, <1>4, AppendProperties
  <1>5. CASE \E outcome \in Outcomes \ Changed :
                /\ results'[r] = Append(results[r], outcome)
                /\ \/ pos'[r] = pos[r] /\ pc'[r] = "commit"
                   \/ pos'[r] = pos[r] + 1 /\ pc'[r] \in {"insert", "read"}
    <2>1. PICK outcome \in Outcomes \ Changed :
                /\ results'[r] = Append(results[r], outcome)
                /\ \/ pos'[r] = pos[r] /\ pc'[r] = "commit"
                   \/ pos'[r] = pos[r] + 1 /\ pc'[r] \in {"insert", "read"}
      BY <1>5
    <2>2. /\ Len(results'[r]) = Len(results[r]) + 1
          /\ \A p \in 1 .. Len(results[r]) : results'[r][p] = results[r][p]
          /\ results'[r][Len(results[r]) + 1] \notin Changed
      BY <1>4, <2>1
    <2> QED
      BY SMTT(60), <1>1, <1>2, <2>1, <2>2
  <1> QED
    BY <1>3, <1>5 DEF Quiet

LEMMA QuietInvariant ==
  ASSUME IInv, NEW r \in Requests, Types', Apart(r), Quiet(r),
         pc'[r] = "insert" => ~It(r)'.cond,
         pc'[r] = "write" => Settled(r)' /\ (It(r)'.cond => before'[r].ver = seen'[r].ver)
  PROVE  Inv(r)'
  <1>1. /\ Types /\ Counted(r) /\ Guarded(r) /\ Chained(r) /\ Answering(r) /\ Authored(r) /\ Newer(r)
    BY DEF IInv, Inv
  <1>2. pc[r] # "new" /\ pc'[r] # "new" /\ engine' = engine /\ SameDB' = SameDB
    BY DEF Quiet, Apart
  <1>3. Counted(r)'
    BY <1>1, QuietResults DEF Quiet, Counted
  <1>4. Guarded(r)'
    <2>1. \A k \in Keys : Claims(k) \subseteq Keys /\ Claims(k)' = Claims(k)
      BY <1>2 DEF Claims
    <2>2. \A k \in Keys : dirty'[r][k] # Untouched => \A x \in Claims(k)' : lock'[x] = r
      BY <1>1, <2>1 DEF Quiet, Guarded
    <2>3. /\ engine' = "lock" => snap'[r] = {}
          /\ \A s, t \in snap'[r] : s = t
      BY <1>1, <1>2 DEF Quiet, Guarded
    <2> QED
      BY <2>2, <2>3 DEF Quiet, Guarded
  <1>5. Settled(r)'
    BY DEF Settled
  <1>6. Chained(r)'
    <2>1. Reported(r) = Own(r) /\ Reported(r)' = Own(r)' /\ Own(r)' = Own(r)
      BY DEF Quiet, Reported, Own
    <2> QED
      BY <1>1, <1>2, <2>1 DEF Quiet, Chained, History, Leaves
  <1>7. Answering(r)'
    <2>1. \A p : /\ Tells(log, r, p)' <=> Tells(log, r, p)
                 /\ Tells(events[r], r, p)' <=> Tells(events[r], r, p)
      BY DEF Quiet, Tells
    <2>2. ASSUME NEW p \in 1 .. Len(results'[r]), results'[r][p] \in Changed
          PROVE  Tells(log, r, p)' \/ Tells(events[r], r, p)'
      BY <1>1, <2>1, <2>2, QuietResults DEF Answering
    <2>3. ASSUME SameDB, NEW p \in Nat, Tells(log, r, p) \/ Tells(events[r], r, p)
          PROVE  /\ p \in 1 .. Len(results[r]) /\ results[r][p] \in Changed
                 /\ p \in 1 .. Len(results'[r]) /\ results'[r][p] \in Changed
                 /\ pc'[r] = "commit" => p < pos'[r]
                 /\ Tells(log, r, p) => job[r].partial
                 /\ Tells(events[r], r, p) => ~job[r].partial
      <3>1. /\ p \in 1 .. Len(results[r]) /\ results[r][p] \in Changed
            /\ Tells(log, r, p) => job[r].partial
            /\ Tells(events[r], r, p) => ~job[r].partial
        BY <1>1, <2>3 DEF Answering, Quiet
      <3> QED
        BY <1>1, <3>1, QuietResults
    <2>4. \A i \in DOMAIN events'[r] : events'[r][i].by[1] = r
      BY <1>1 DEF Answering, Quiet
    <2> QED
      BY <1>1, <1>2, <2>1, <2>2, <2>3, <2>4 DEF Answering, Quiet
  <1>8. Authored(r)'
    <2> SUFFICES ASSUME NEW k \in Keys, dirty'[r][k] # Untouched
                 PROVE  \E p \in 1 .. pos'[r] :
                            /\ job'[r].items[p].key = k
                            /\ p < pos'[r] \/ pc'[r] \in {"observe", "commit"}
                            /\ IF dirty'[r][k] = NoRow THEN job'[r].items[p].op \in {"remove", "delete"}
                                                       ELSE dirty'[r][k].ver = <<r, p>>
      BY DEF Authored
    <2>1. PICK p \in 1 .. pos[r] :
              /\ job[r].items[p].key = k
              /\ p < pos[r] \/ pc[r] \in {"observe", "commit"}
              /\ IF dirty[r][k] = NoRow THEN job[r].items[p].op \in {"remove", "delete"}
                                        ELSE dirty[r][k].ver = <<r, p>>
      BY <1>1 DEF Authored, Quiet
    <2>2. p \in 1 .. pos'[r] /\ p < pos'[r]
      BY <1>1, <2>1, QuietResults DEF Quiet
    <2> QED
      BY <2>1, <2>2 DEF Quiet
  <1>9. Conditional(r)'
    <2>1. ASSUME pc'[r] = "commit", It(r)'.cond, dirty'[r][It(r)'.key] # Untouched
          PROVE  FALSE
      <3>1. pos'[r] = pos[r] /\ It(r)' = It(r)
        BY <1>1, <2>1, QuietResults DEF It, Quiet
      <3>2. pos[r] = 1 /\ It(r).key \in Keys
        <4>1. It(r).cond
          BY <2>1, <3>1
        <4>2. Len(job[r].items) = 1 /\ pos[r] \in 1 .. Len(job[r].items) /\ It(r).key \in Keys
          BY <1>1, <1>2, <4>1, ItemFacts
        <4> QED
          BY <4>2
      <3>3. \E p \in 1 .. pos[r] : p < pos[r]
        BY ZenonT(60), <1>1, <2>1, <3>1, <3>2 DEF Authored, Quiet
      <3> QED
        BY <3>2, <3>3
    <2> QED
      BY <2>1 DEF Conditional, Quiet
  <1>10. Newer(r)'
    BY ZenonT(60), <1>1 DEF Newer, Quiet, Upserts
  <1> QED
    BY <1>3, <1>4, <1>5, <1>6, <1>7, <1>8, <1>9, <1>10 DEF Inv

-----------------------------------------------------------------------------
\* One request's step and what it leaves for the others.
LEMMA StepOfOne ==
  ASSUME IInv, NEW r \in Requests, Types', Apart(r), TableBy(r), LogBy(r), Inv(r)',
         SameDB => History(log', EmptyTable, table')
  PROVE  IInv'
  <1>1. \A q \in Requests : Inv(q)'
    BY Others
  <1>2. (SameDB => History(log, EmptyTable, table))'
    BY DEF Apart, EmptyTable, History, Leaves
  <1> QED
    BY <1>1, <1>2 DEF IInv

LEMMA QuietStep ==
  ASSUME IInv, NEW r \in Requests, Types', Apart(r), Quiet(r), Inv(r)'
  PROVE  IInv'
  <1>1. TableBy(r) /\ LogBy(r)
    BY DEF Quiet, TableBy, LogBy, Tells
  <1>2. SameDB => History(log', EmptyTable, table')
    BY DEF IInv, Quiet
  <1> QED
    BY <1>1, <1>2, StepOfOne

\* The next item is not conditional: PATCH, PUT and DELETE are of one row.
LEMMA NextItem ==
  ASSUME Types, Types', NEW r \in Requests, pc[r] # "new", pc'[r] # "new", Apart(r), job'[r] = job[r],
         pos'[r] = pos[r] + 1
  PROVE  ~It(r)'.cond
  <1>1. pos[r] \in Nat /\ pos[r] >= 1 /\ pos[r] \in 1 .. Len(job[r].items)
    BY ItemFacts
  <1>2. pos'[r] \in 1 .. Len(job'[r].items)
    BY DEF Types, TypeOK
  <1>3. Len(job'[r].items) # 1
    <2>1. Len(job[r].items) \in Nat /\ job'[r].items = job[r].items
      BY ItemFacts
    <2>2. pos[r] + 1 \in 1 .. Len(job[r].items)
      BY <1>2, <2>1
    <2>3. Len(job[r].items) # 1
      <3>1. \A m, n \in Nat : m >= 1 /\ m + 1 \in 1 .. n => n # 1
        OBVIOUS
      <3> QED
        BY <1>1, <2>1, <2>2, <3>1
    <2> QED
      BY <2>1, <2>3
  <1>4. /\ deployed' \in DOMAIN Deployments /\ job'[r] \in Deployments[deployed'].jobs[r]
        /\ pos'[r] \in DOMAIN job'[r].items
    <2>1. deployed' \in DOMAIN Deployments /\ job'[r] \in Jobs(r)' /\ job'[r] \in Job
      BY DEF Types, TypeOK
    <2> QED
      BY <1>2, <2>1, LenProperties DEF Jobs, Job
  <1>5. It(r)'.cond => It(r)'.op \in ById /\ Len(job'[r].items) = 1
    BY <1>4, EntityAssumption DEF It
  <1> QED
    BY <1>3, <1>5

LEMMA DoneQuiet ==
  ASSUME Types, NEW r \in Requests, pc[r] \in {"prepare", "read", "insert", "write"},
         NEW outcome \in Outcomes \ Changed, ItemDone(r, outcome),
         UNCHANGED <<table, log>>, job'[r] = job[r], seen'[r] = seen[r],
         dirty'[r] = dirty[r], events'[r] = events[r],
         snap'[r] = snap[r] \/ (engine = "snapshot" /\ snap'[r] = {table}),
         \A x \in Keys : lock[x] = r => lock'[x] = r
  PROVE  Quiet(r) /\ pc'[r] # "write" /\ (pc'[r] = "insert" => pos'[r] = pos[r] + 1)
  <1>1. /\ results'[r] = Append(results[r], outcome)
        /\ \/ pos'[r] = pos[r] /\ pc'[r] = "commit"
           \/ ~job[r].partial /\ pos'[r] = pos[r] + 1 /\ pc'[r] \in {"insert", "read"}
    BY DoneMoves
  <1> QED
    BY <1>1 DEF Quiet

LEMMA PrepareKeeps == ASSUME IInv, NEW r \in Requests, Prepare(r) PROVE IInv'
  <1>1. Types
    BY DEF IInv
  <1>2. /\ Types' /\ Apart(r) /\ pc'[r] \in {"insert", "read"}
        /\ pc'[r] = "insert" => It(r).op \notin ById
    BY <1>1, StepPrepare
  <1>3. pc[r] = "prepare" /\ UNCHANGED <<table, log, lock, job, pos, seen, before, dirty, events, snap, results>>
    BY DEF Prepare, tx
  <1>4. Quiet(r)
    BY <1>2, <1>3 DEF Quiet, Same
  <1>5. pc'[r] = "insert" => ~It(r)'.cond
    BY <1>1, <1>2, <1>3, ItemFacts DEF It
  <1>6. Inv(r)'
    BY <1>2, <1>4, <1>5, QuietInvariant
  <1> QED
    BY <1>2, <1>4, <1>6, QuietStep

LEMMA ReadKeeps == ASSUME IInv, None \notin Requests, NEW r \in Requests, Read(r) PROVE IInv'
  <1> DEFINE k == It(r).key
  <1>1. Types /\ Guarded(r)
    BY DEF IInv, Inv
  <1>2. Types' /\ Apart(r) /\ Moves(r)
    BY <1>1, StepRead, ReadMoves
  <1>3. pc[r] = "read" /\ UNCHANGED <<table, log, job, seen, dirty, events>> /\ Snapshot(r)
    BY DEF Read
  <1>4. k \in Keys
    BY <1>1, <1>3, ItemFacts
  <1>5. snap'[r] = IF engine = "snapshot" /\ snap[r] = {} THEN {table} ELSE snap[r]
    BY <1>1, <1>3, SnapshotFacts
  <1>6. /\ \A x \in Keys : lock[x] = r => lock'[x] = r
        /\ engine = "lock" /\ Matches(r, View(r, k)) => lock'[k] = r
    BY <1>1, <1>4, LockFacts DEF Read, LocksRow
  <1> HIDE DEF k
  <1>7. CASE pc'[r] \in {"insert", "refuse"} /\ Go(r, pc'[r]) /\ (pc'[r] = "insert" => It(r).op \notin ById)
    <2>1. Quiet(r)
      BY <1>3, <1>5, <1>6, <1>7 DEF Quiet, Same, Go
    <2>2. pc'[r] = "insert" => ~It(r)'.cond
      BY <1>1, <1>3, <1>7, ItemFacts DEF It, Go
    <2>3. pc'[r] # "write"
      BY <1>7
    <2>4. Inv(r)'
      BY <1>2, <2>1, <2>2, <2>3, QuietInvariant
    <2> QED
      BY <1>2, <2>1, <2>4, QuietStep
  <1>8. ASSUME Matches(r, View(r, k)), Go(r, "write"), It(r).op \notin {"create", "ignore"},
               It(r).op \in ById /\ It(r).cond => View(r, k).ver = seen[r].ver
        PROVE  IInv'
    <2>1. pc'[r] = "write" /\ Same(r) /\ UNCHANGED pos
      BY <1>1, <1>8, TypeFacts DEF Go, Goto, Same
    <2>2. Quiet(r)
      BY <1>3, <1>5, <1>6, <2>1 DEF Quiet
    <2>3. It(r)' = It(r) /\ It(r)'.key = k
      BY <1>3, <2>1 DEF It, k
    <2>4. before'[r] = View(r, k) /\ View(r, k) # NoRow
      BY <1>1, <1>8, TypeFacts, ReadOutcome DEF Matches, k
    <2>5. snap'[r] = snap[r] \/ (snap[r] = {} /\ snap'[r] = {table} /\ (CHOOSE t \in snap'[r] : TRUE) = table)
      <3>1. CASE snap'[r] = {table}
        <4>1. (CHOOSE t \in {table} : TRUE) \in {table}
          OBVIOUS
        <4> QED
          BY <3>1, <4>1, <1>5
      <3> QED
        BY <3>1, <1>5
    <2>6. engine = "lock" \/ snap'[r] # {}
      <3>1. engine \in {"lock", "snapshot"}
        BY <1>1, TypeFacts, EntityAssumption DEF engine
      <3> QED
        BY <3>1, <1>5
    <2>7. View(r, It(r).key)' = View(r, k)
      <3>1. It(r)'.key = k
        BY <2>3
      <3> QED
        <4>1. dirty' = dirty /\ table' = table
          BY <1>3
        <4>2. CASE dirty[r][k] # Untouched
          BY <3>1, <4>1, <4>2 DEF View
        <4>3. CASE dirty[r][k] = Untouched /\ snap'[r] = snap[r]
          BY <3>1, <4>1, <4>3 DEF View
        <4>4. CASE dirty[r][k] = Untouched /\ snap[r] = {} /\ snap'[r] = {table} /\ (CHOOSE t \in snap'[r] : TRUE) = table
          BY <3>1, <4>1, <4>4 DEF View
        <4> QED
          BY <2>5, <4>2, <4>3, <4>4
    <2>8. Settled(r)'
      BY <1>2, <1>6, <1>8, <2>3, <2>4, <2>6, <2>7 DEF Settled, Apart
    <2>9. It(r)'.cond => before'[r].ver = seen'[r].ver
      BY <1>1, <1>3, <1>8, <2>3, <2>4, ItemFacts
    <2>10. Inv(r)'
      BY <1>2, <2>1, <2>2, <2>8, <2>9, QuietInvariant
    <2> QED
      BY <1>2, <2>2, <2>10, QuietStep
  <1>9. ASSUME NEW outcome \in {"ignored", "not_found"}, ItemDone(r, outcome) PROVE IInv'
    <2>1. outcome \in Outcomes \ Changed
      BY DEF Outcomes, Changed
    <2>2. Quiet(r) /\ pc'[r] # "write" /\ (pc'[r] = "insert" => pos'[r] = pos[r] + 1)
      BY <1>1, <1>3, <1>5, <1>6, <1>9, <2>1, DoneQuiet
    <2>3. pc'[r] = "insert" => ~It(r)'.cond
      BY <1>1, <1>2, <1>3, <2>2, NextItem
    <2>4. Inv(r)'
      BY <1>2, <2>2, <2>3, QuietInvariant
    <2> QED
      BY <1>2, <2>2, <2>4, QuietStep
  <1> QED
    BY <1>1, <1>7, <1>8, <1>9, ReadOutcome DEF k

LEMMA NoFieldsKeeps == ASSUME IInv, NEW r \in Requests, NoFields(r) PROVE IInv'
  <1>1. Types
    BY DEF IInv
  <1>2. Types' /\ Apart(r)
    BY <1>1, StepNoFields
  <1>3. /\ pc[r] = "write" /\ UNCHANGED <<table, log, lock, job, seen, dirty, events, snap>>
        /\ ItemDone(r, "unchanged")
    BY DEF NoFields, tx
  <1>4. "unchanged" \in Outcomes \ Changed
    BY DEF Outcomes, Changed
  <1>5. Quiet(r) /\ pc'[r] # "write" /\ (pc'[r] = "insert" => pos'[r] = pos[r] + 1)
    BY <1>1, <1>3, <1>4, DoneQuiet
  <1>6. pc'[r] = "insert" => ~It(r)'.cond
    BY <1>1, <1>2, <1>3, <1>5, NextItem
  <1>7. Inv(r)'
    BY <1>2, <1>5, <1>6, QuietInvariant
  <1> QED
    BY <1>2, <1>5, <1>7, QuietStep

-----------------------------------------------------------------------------
\* A statement that writes a row: `row`, where it found what the transaction sees.
Puts(r, rec) ==
    LET k == It(r).key IN
    /\ pc[r] \in {"insert", "write"} /\ pc'[r] = "observe"
    /\ Same(r) /\ UNCHANGED <<table, log>> /\ job'[r] = job[r] /\ seen'[r] = seen[r]
    /\ events'[r] = events[r]
    /\ before'[r] = Own(r)[k]
    /\ rec \in Rows /\ dirty'[r][k] = rec /\ \A x \in Keys \ {k} : dirty'[r][x] = dirty[r][x]
    /\ IF rec = NoRow THEN It(r).op \in {"remove", "delete"} ELSE rec.ver = <<r, pos[r]>>
    /\ snap'[r] = snap[r] \/ (engine = "snapshot" /\ snap'[r] = {table})
    /\ \A x \in Claims(k) : lock'[x] = r
    /\ \A x \in Keys : lock[x] = r => lock'[x] = r

\* Between the writes of its items, a transaction has written for earlier items only.
LEMMA Earlier ==
  ASSUME Types, NEW r \in Requests, Authored(r), pc[r] \notin {"new", "observe", "commit"},
         NEW k \in Keys, dirty[r][k] # Untouched
  PROVE  /\ Len(job[r].items) # 1
         /\ \E p \in 1 .. pos[r] :
               /\ p < pos[r] /\ job[r].items[p].key = k
               /\ IF dirty[r][k] = NoRow THEN job[r].items[p].op \in {"remove", "delete"}
                                         ELSE dirty[r][k].ver = <<r, p>>
  <1>1. PICK p \in 1 .. pos[r] :
               /\ p < pos[r] /\ job[r].items[p].key = k
               /\ IF dirty[r][k] = NoRow THEN job[r].items[p].op \in {"remove", "delete"}
                                         ELSE dirty[r][k].ver = <<r, p>>
    BY DEF Authored
  <1>2. pos[r] \in 1 .. Len(job[r].items) /\ Len(job[r].items) \in Nat
    BY ItemFacts
  <1>3. Len(job[r].items) # 1
    <2>1. \A m, n \in Nat : m \in 1 .. n => \A i \in 1 .. m : i < m => n # 1
      OBVIOUS
    <2>2. pos[r] \in Nat
      BY <1>2
    <2> QED
      BY <1>1, <1>2, <2>1, <2>2
  <1> QED
    BY <1>1, <1>3

LEMMA PutInvariant ==
  ASSUME IInv, NEW r \in Requests, Types', Apart(r), NEW rec, Puts(r, rec),
         It(r).cond => table[It(r).key] # NoRow /\ table[It(r).key].ver = seen[r].ver,
         rec # NoRow /\ table[It(r).key] # NoRow /\ Upserts(job[r].items, It(r).key, pos[r]) =>
            /\ table[It(r).key].guard <= rec.guard
            /\ It(r).op = "upsert" /\ It(r).guard # 0 => table[It(r).key].guard < rec.guard
  PROVE  Inv(r)'
  <1> DEFINE k == It(r).key
  <1>1. /\ Types /\ Counted(r) /\ Guarded(r) /\ Chained(r) /\ Answering(r) /\ Authored(r) /\ Newer(r)
    BY DEF IInv, Inv
  <1>2. pc[r] # "new" /\ engine' = engine /\ SameDB' = SameDB /\ pos'[r] = pos[r] /\ results'[r] = results[r]
    BY ZenonT(60) DEF Puts, Apart, Same
  <1>3. k \in Keys /\ It(r)' = It(r) /\ It(r)'.key = k /\ pos[r] \in Nat /\ pos[r] >= 1
    <2>1. k \in Keys /\ pos[r] \in Nat /\ pos[r] >= 1
      BY <1>1, <1>2, ItemFacts
    <2>2. job'[r] = job[r]
      BY DEF Puts
    <2>3. It(r)' = It(r)
      BY <1>2, <2>2 DEF It
    <2> QED
      BY <2>1, <2>3
  <1>4. rec # Untouched
    BY RowsDiffer DEF Puts, Rows
  <1>5. Counted(r)'
    BY <1>1, <1>2 DEF Counted, Puts
  <1>6. Guarded(r)'
    <2>1. \A x \in Keys : Claims(x) \subseteq Keys /\ Claims(x)' = Claims(x)
      BY <1>2 DEF Claims
    <2>2. ASSUME NEW x \in Keys, dirty'[r][x] # Untouched PROVE \A y \in Claims(x)' : lock'[y] = r
      <3>1. CASE x = k
        BY <2>1, <3>1 DEF Puts
      <3>2. CASE x # k
        BY <1>1, <2>1, <2>2, <3>2 DEF Puts, Guarded
      <3> QED
        BY <3>1, <3>2
    <2>3. dirty'[r][It(r)'.key] # Untouched
      BY <1>3, <1>4 DEF Puts
    <2>4. /\ engine' = "lock" => snap'[r] = {}
          /\ \A s, t \in snap'[r] : s = t
      BY <1>1, <1>2 DEF Puts, Guarded
    <2> QED
      BY <2>2, <2>3, <2>4 DEF Puts, Guarded
  <1>7. Settled(r)'
    BY DEF Settled, Puts
  <1>8. Chained(r)'
    <2>1. CASE ~SameDB
      BY <1>1, <1>2, <2>1 DEF Chained, Puts
    <2>2. CASE SameDB
      <3>1. /\ History(events[r], table, Own(r)) /\ events[r] \in Seq(Event)
            /\ \A i \in DOMAIN events[r] : dirty[r][events[r][i].key] # Untouched
        BY <1>1, <2>2, TypeFacts DEF Chained, Puts, Reported
      <3>2. ASSUME NEW x \in Keys PROVE Reported(r)'[x] = Own(r)[x]
        <4>1. Reported(r)' = [Own(r)' EXCEPT ![k] = Own(r)[k]]
          BY <1>3 DEF Reported, Puts
        <4>2. x # k => Own(r)'[x] = Own(r)[x]
          BY DEF Own, Puts
        <4> QED
          BY <4>1, <4>2 DEF Own
      <3>3. History(events[r], table, Reported(r)')
        BY <3>1, <3>2, HistoryElsewhere
      <3>4. \A i \in DOMAIN events[r] : dirty'[r][events[r][i].key] # Untouched
        BY <1>4, <3>1, EventFacts DEF Puts
      <3>5. /\ events'[r] = events[r] /\ table' = table
            /\ History(events[r], table, Reported(r))'
        BY <3>3 DEF History, Leaves, Puts
      <3> QED
        BY <1>2, <2>2, <3>4, <3>5 DEF Chained
    <2> QED
      BY <2>1, <2>2
  <1>9. Answering(r)'
    <2>1. \A p : /\ Tells(log, r, p)' <=> Tells(log, r, p)
                 /\ Tells(events[r], r, p)' <=> Tells(events[r], r, p)
      BY DEF Puts, Tells
    <2> QED
      BY <1>1, <1>2, <2>1 DEF Answering, Puts
  <1>10. Authored(r)'
    <2> SUFFICES ASSUME NEW x \in Keys, dirty'[r][x] # Untouched
                 PROVE  \E p \in 1 .. pos'[r] :
                            /\ job'[r].items[p].key = x
                            /\ p < pos'[r] \/ pc'[r] \in {"observe", "commit"}
                            /\ IF dirty'[r][x] = NoRow THEN job'[r].items[p].op \in {"remove", "delete"}
                                                       ELSE dirty'[r][x].ver = <<r, p>>
      BY DEF Authored
    <2>1. CASE x = k
      <3>1. pos[r] \in 1 .. pos'[r] /\ job'[r].items[pos[r]] = It(r)
        BY <1>2, <1>3 DEF It, Puts
      <3> QED
        BY ZenonT(60), <2>1, <3>1 DEF Puts
    <2>2. CASE x # k
      BY <1>1, <1>2, <2>2 DEF Authored, Puts
    <2> QED
      BY <2>1, <2>2
  <1>11. Conditional(r)'
    BY ZenonT(60), <1>3 DEF Conditional, Puts
  <1>12. Newer(r)'
    <2> SUFFICES ASSUME NEW x \in Keys, dirty'[r][x] \notin {Untouched, NoRow}, table'[x] # NoRow,
                        Upserts(job'[r].items, x, dirty'[r][x].ver[2])
                 PROVE  /\ table'[x].guard <= dirty'[r][x].guard
                        /\ LET it == job'[r].items[dirty'[r][x].ver[2]]
                           IN  it.op = "upsert" /\ it.guard # 0 => table'[x].guard < dirty'[r][x].guard
      BY ZenonT(60) DEF Newer, Upserts
    <2>1. CASE x = k
      <3>1. dirty'[r][x] = rec /\ rec # NoRow /\ job'[r] = job[r] /\ table' = table
        BY <2>1 DEF Puts
      <3>2. rec.ver = <<r, pos[r]>>
        BY <3>1 DEF Puts
      <3>3. rec.ver[2] = pos[r]
        BY <3>2
      <3> QED
        BY <2>1, <3>1, <3>3 DEF It
    <2>2. CASE x # k
      <3>1. dirty'[r][x] = dirty[r][x] /\ job'[r] = job[r] /\ table' = table
        BY <2>2 DEF Puts
      <3> QED
        BY <1>1, <3>1 DEF Newer, Upserts
    <2> QED
      BY ZenonT(60), <2>1, <2>2
  <1> QED
    BY <1>5, <1>6, <1>7, <1>8, <1>9, <1>10, <1>11, <1>12 DEF Inv

LEMMA PutStep ==
  ASSUME IInv, NEW r \in Requests, Types', Apart(r), NEW rec, Puts(r, rec), Inv(r)'
  PROVE  IInv'
  <1>1. TableBy(r) /\ LogBy(r)
    BY DEF Puts, TableBy, LogBy, Tells
  <1>2. SameDB => History(log', EmptyTable, table')
    BY DEF IInv, Puts
  <1> QED
    BY <1>1, <1>2, StepOfOne

-----------------------------------------------------------------------------
\* INSERT and UPDATE or DELETE.
LEMMA InsertKeeps == ASSUME IInv, None \notin Requests, NEW r \in Requests, Insert(r) PROVE IInv'
  <1> DEFINE k == It(r).key
             rec == [id |-> This(r), ver |-> This(r), guard |-> It(r).guard, gone |-> FALSE]
  <1>1. Types /\ Guarded(r) /\ Authored(r) /\ Conditional(r)
    BY DEF IInv, Inv
  <1>2. Types' /\ Apart(r)
    BY <1>1, StepInsert
  <1>3. /\ pc[r] = "insert" /\ UNCHANGED <<table, log, job, pos, seen, events, results>> /\ Snapshot(r)
        /\ before'[r] = NoRow
    BY <1>1, TypeFacts DEF Insert
  <1>4. k \in Keys /\ pos[r] \in Nat /\ pos[r] >= 1
    BY <1>1, <1>3, ItemFacts
  <1>5. snap'[r] = IF engine = "snapshot" /\ snap[r] = {} THEN {table} ELSE snap[r]
    BY <1>1, <1>3, SnapshotFacts
  <1>6. rec \in Row /\ rec \in Rows /\ rec # NoRow /\ rec.ver = <<r, pos[r]>>
    BY <1>1, <1>3, InsertedFacts, RowsDiffer DEF Rows
  <1> HIDE DEF k, rec
  <1>7. CASE Goto(r, "refuse") /\ UNCHANGED <<lock, dirty>>
    <2>1. pc'[r] = "refuse"
      BY <1>1, <1>7, TypeFacts DEF Goto
    <2>2. Quiet(r)
      BY <1>3, <1>5, <1>7, <2>1 DEF Quiet, Same
    <2>3. Inv(r)'
      BY <1>2, <2>1, <2>2, QuietInvariant
    <2> QED
      BY <1>2, <2>2, <2>3, QuietStep
  <1>8. ASSUME ~Outdated(r), View(r, k) = NoRow, CanLock(r, k), TakeLock(r, k), Put(r, rec),
               Goto(r, "observe")
        PROVE  IInv'
    <2>1. pc'[r] = "observe"
      BY <1>1, <1>8, TypeFacts DEF Goto
    <2>2. Own(r)[k] = NoRow
      BY <1>1, <1>4, <1>8, ViewFacts
    <2>3. /\ dirty'[r][k] = rec /\ \A x \in Keys \ {k} : dirty'[r][x] = dirty[r][x]
          /\ \A x \in Claims(k) : lock'[x] = r
          /\ \A x \in Keys : lock[x] = r => lock'[x] = r
      BY <1>1, <1>3, <1>4, <1>6, <1>8, LockFacts, PutFacts DEF k
    <2>4. Puts(r, rec)
      BY <1>3, <1>5, <1>6, <2>1, <2>2, <2>3 DEF Puts, Same, k
    <2>5. ~It(r).cond
      BY <1>1, <1>3 DEF Conditional
    <2>6. table[k] # NoRow => ~Upserts(job[r].items, k, pos[r])
      <3> SUFFICES ASSUME table[k] # NoRow PROVE ~Upserts(job[r].items, k, pos[r])
        OBVIOUS
      <3>1. dirty[r][k] = NoRow /\ dirty[r][k] # Untouched
        BY <1>4, <2>2, RowsDiffer DEF Own
      <3>2. PICK p \in 1 .. pos[r] : job[r].items[p].key = k /\ job[r].items[p].op \in {"remove", "delete"}
        BY <1>1, <1>3, <1>4, <3>1, Earlier
      <3> QED
        BY <3>2 DEF Upserts
    <2>7. Inv(r)'
      BY <1>2, <2>4, <2>5, <2>6, PutInvariant DEF k
    <2> QED
      BY <1>2, <2>4, <2>7, PutStep
  <1> QED
    BY <1>7, <1>8 DEF Insert, k, rec

LEMMA HitKeeps ==
  ASSUME IInv, None \notin Requests, NEW r \in Requests, Write(r), Hits(r)
  PROVE  IInv'
  <1> DEFINE k == It(r).key
             old == View(r, k)
             rec == Written(r, old)
  <1>1. Types /\ Guarded(r) /\ Authored(r) /\ Conditional(r) /\ Settled(r) /\ Newer(r)
    BY DEF IInv, Inv
  <1>2. Types' /\ Apart(r)
    BY <1>1, StepWrite
  <1>3. /\ pc[r] = "write" /\ Snapshot(r)
        /\ UNCHANGED <<table, log, job, pos, seen, before, events, results>>
    BY WriteOutcome DEF Hits
  <1>4. k \in Keys /\ pos[r] \in Nat /\ pos[r] >= 1 /\ It(r).guard \in Nat
    BY <1>1, <1>3, ItemFacts
  <1>5. snap'[r] = IF engine = "snapshot" /\ snap[r] = {} THEN {table} ELSE snap[r]
    BY <1>1, <1>3, SnapshotFacts
  <1>6. old \in Row /\ old = Own(r)[k] /\ before[r] = old /\ Fresh(It(r), old)
    BY <1>1, <1>3, <1>4, ViewFacts DEF Hits, Rows, Settled
  <1>7. /\ rec \in Rows
        /\ IF rec = NoRow THEN It(r).op \in {"remove", "delete"} ELSE rec.ver = <<r, pos[r]>>
        /\ It(r).op \notin {"remove", "delete"} =>
              rec.guard = IF It(r).guard # 0 THEN It(r).guard ELSE old.guard
    BY <1>1, <1>3, <1>6, WrittenFacts
  <1>8. CanLock(r, k) /\ TakeLock(r, k) /\ Put(r, rec) /\ Goto(r, "observe")
    BY DEF Hits
  <1> HIDE DEF k, rec, old
  <1>9. pc'[r] = "observe"
    BY <1>1, <1>8, TypeFacts DEF Goto
  <1>10. /\ dirty'[r][k] = rec /\ \A x \in Keys \ {k} : dirty'[r][x] = dirty[r][x]
         /\ \A x \in Claims(k) : lock'[x] = r
         /\ \A x \in Keys : lock[x] = r => lock'[x] = r
    BY <1>1, <1>3, <1>4, <1>7, <1>8, LockFacts, PutFacts DEF k
  <1>11. Puts(r, rec)
    BY <1>3, <1>5, <1>6, <1>7, <1>9, <1>10 DEF Puts, Same, k
  <1>12. ASSUME It(r).cond PROVE table[k] # NoRow /\ table[k].ver = seen[r].ver
    <2>1. Len(job[r].items) = 1
      BY <1>1, <1>3, <1>12, ItemFacts
    <2>2. dirty[r][k] = Untouched
      BY <1>1, <1>3, <1>4, <2>1, Earlier
    <2>3. old = table[k]
      BY <1>4, <1>6, <2>2 DEF Own
    <2> QED
      BY <1>1, <1>3, <1>6, <1>12, <2>3, RowsDiffer DEF Conditional
  <1>13. ASSUME rec # NoRow, table[k] # NoRow, Upserts(job[r].items, k, pos[r])
         PROVE  /\ table[k].guard <= rec.guard
                /\ It(r).op = "upsert" /\ It(r).guard # 0 => table[k].guard < rec.guard
    <2>1. It(r).op = "upsert"
      <3>1. It(r).op \in {"create", "upsert", "ignore"}
        BY <1>4, <1>13 DEF Upserts, It, k
      <3> QED
        BY <1>1, <1>3, <3>1 DEF Settled
    <2>2. table[k] \in Row
      BY <1>1, <1>4, <1>13, TypeFacts DEF Rows
    <2>3. table[k].guard \in Nat /\ old.guard \in Nat
      BY <1>6, <2>2 DEF Row
    <2>4. table[k].guard <= old.guard
      <3>1. CASE dirty[r][k] = Untouched
        <4>1. old = table[k]
          BY ZenonT(60), <1>4, <1>6, <3>1 DEF Own
        <4> QED
          BY <2>3, <4>1
      <3>2. CASE dirty[r][k] # Untouched
        <4>1. dirty[r][k] = old /\ old # NoRow
          BY <1>4, <1>6, <3>2, RowsDiffer DEF Own
        <4>2. PICK p \in 1 .. pos[r] : p < pos[r] /\ old.ver = <<r, p>>
          BY <1>1, <1>3, <1>4, <3>2, <4>1, Earlier
        <4>3. Upserts(job[r].items, k, old.ver[2])
          BY <1>4, <1>13, <4>2 DEF Upserts
        <4> QED
          BY <1>1, <1>4, <1>13, <3>2, <4>1, <4>3 DEF Newer
      <3> QED
        BY <3>1, <3>2
    <2>5. rec.guard = IF It(r).guard # 0 THEN It(r).guard ELSE old.guard
      BY <1>7, <2>1
    <2>6. It(r).guard # 0 => old.guard = 0 \/ old.guard < It(r).guard
      BY <1>6, <2>1 DEF Fresh
    <2> QED
      BY <1>4, <2>3, <2>4, <2>5, <2>6
  <1>14. Inv(r)'
    BY <1>2, <1>11, <1>12, <1>13, PutInvariant DEF k
  <1> QED
    BY <1>2, <1>11, <1>14, PutStep

LEMMA WriteKeeps == ASSUME IInv, None \notin Requests, NEW r \in Requests, Write(r) PROVE IInv'
  <1>1. Types /\ Guarded(r)
    BY DEF IInv, Inv
  <1>2. Types' /\ Apart(r)
    BY <1>1, StepWrite
  <1>3. pc[r] = "write" /\ Snapshot(r) /\ UNCHANGED <<table, log, job, seen, before, events>>
    BY WriteOutcome
  <1>4. snap'[r] = IF engine = "snapshot" /\ snap[r] = {} THEN {table} ELSE snap[r]
    BY <1>1, <1>3, SnapshotFacts
  <1>5. CASE Hits(r)
    BY <1>5, HitKeeps
  <1>6. CASE ItemDone(r, "unchanged") /\ UNCHANGED <<lock, dirty>>
    <2>1. "unchanged" \in Outcomes \ Changed
      BY DEF Outcomes, Changed
    <2>2. Quiet(r) /\ pc'[r] # "write" /\ (pc'[r] = "insert" => pos'[r] = pos[r] + 1)
      BY <1>1, <1>3, <1>4, <1>6, <2>1, DoneQuiet
    <2>3. pc'[r] = "insert" => ~It(r)'.cond
      BY <1>1, <1>2, <1>3, <2>2, NextItem
    <2>4. Inv(r)'
      BY <1>2, <2>2, <2>3, QuietInvariant
    <2> QED
      BY <1>2, <2>2, <2>4, QuietStep
  <1>7. CASE Goto(r, "refuse") /\ UNCHANGED <<lock, dirty, pos, results>>
    <2>1. pc'[r] = "refuse"
      BY <1>1, <1>7, TypeFacts DEF Goto
    <2>2. Quiet(r)
      BY <1>3, <1>4, <1>7, <2>1 DEF Quiet, Same
    <2>3. Inv(r)'
      BY <1>2, <2>1, <2>2, QuietInvariant
    <2> QED
      BY <1>2, <2>2, <2>3, QuietStep
  <1> QED
    BY <1>5, <1>6, <1>7, WriteOutcome

-----------------------------------------------------------------------------
\* What longer histories tell.
LEMMA TellsAppend ==
  ASSUME NEW h \in Seq(Event), NEW e, NEW r, NEW p
  PROVE  Tells(Append(h, e), r, p) <=> Tells(h, r, p) \/ e.by = <<r, p>>
  <1>1. /\ Len(h) \in Nat /\ DOMAIN h = 1 .. Len(h) /\ DOMAIN Append(h, e) = 1 .. (Len(h) + 1)
        /\ Append(h, e)[Len(h) + 1] = e /\ \A i \in 1 .. Len(h) : Append(h, e)[i] = h[i]
    BY LenProperties
  <1>2. \A i \in 1 .. (Len(h) + 1) : i \in 1 .. Len(h) \/ i = Len(h) + 1
    BY <1>1
  <1>3. 1 .. Len(h) \subseteq 1 .. (Len(h) + 1) /\ Len(h) + 1 \in 1 .. (Len(h) + 1)
    BY <1>1
  <1> QED
    BY <1>1, <1>2, <1>3 DEF Tells

LEMMA TellsConcat ==
  ASSUME NEW h \in Seq(Event), NEW g \in Seq(Event), NEW r, NEW p
  PROVE  Tells(h \o g, r, p) <=> Tells(h, r, p) \/ Tells(g, r, p)
  <1> DEFINE n == Len(h)
             m == Len(g)
             c == h \o g
  <1>1. /\ n \in Nat /\ m \in Nat /\ DOMAIN h = 1 .. n /\ DOMAIN g = 1 .. m /\ DOMAIN c = 1 .. (n + m)
        /\ \A i \in 1 .. n : c[i] = h[i]
        /\ \A i \in 1 .. (n + m) : i > n => c[i] = g[i - n]
    <2>1. c \in Seq(Event) /\ Len(c) = n + m
      BY ConcatProperties
    <2>2. n \in Nat /\ m \in Nat /\ DOMAIN c = 1 .. (n + m)
      BY <2>1, LenProperties
    <2> QED
      BY <2>1, <2>2, LenProperties, ConcatProperties
  <1> HIDE DEF n, m, c
  <1>2. \A i \in 1 .. (n + m) : i \in 1 .. n \/ (i > n /\ i - n \in 1 .. m)
    BY <1>1
  <1>3. 1 .. n \subseteq 1 .. (n + m)
    BY <1>1
  <1>4. ASSUME NEW i \in 1 .. m PROVE n + i \in 1 .. (n + m) /\ c[n + i] = g[i]
    <2>1. n + i \in 1 .. (n + m) /\ n + i > n /\ (n + i) - n = i
      BY <1>1
    <2> QED
      BY <2>1, <1>1
  <1>5. Tells(c, r, p) => Tells(h, r, p) \/ Tells(g, r, p)
    <2> SUFFICES ASSUME NEW i \in 1 .. (n + m), c[i].by = <<r, p>> PROVE Tells(h, r, p) \/ Tells(g, r, p)
      BY <1>1 DEF Tells
    <2>1. CASE i \in 1 .. n
      BY <1>1, <2>1 DEF Tells
    <2>2. CASE i > n /\ i - n \in 1 .. m
      <3>1. g[i - n].by = <<r, p>>
        BY <1>1, <2>2
      <3> QED
        BY <1>1, <2>2, <3>1 DEF Tells
    <2> QED
      BY <1>2, <2>1, <2>2
  <1>6. Tells(h, r, p) => Tells(c, r, p)
    BY <1>1, <1>3 DEF Tells
  <1>7. Tells(g, r, p) => Tells(c, r, p)
    <2> SUFFICES ASSUME NEW i \in 1 .. m, g[i].by = <<r, p>> PROVE Tells(c, r, p)
      BY <1>1 DEF Tells
    <2>1. n + i \in 1 .. (n + m) /\ c[n + i].by = <<r, p>>
      BY <1>4
    <2> QED
      BY <1>1, <2>1 DEF Tells
  <1> QED
    BY <1>5, <1>6, <1>7 DEF c

\* The audit row and the outbox messages of an item.
LEMMA ObserveKeeps == ASSUME IInv, NEW r \in Requests, Observe(r) PROVE IInv'
  <1> DEFINE k == It(r).key
             e == EventOf(r)
  <1>1. /\ Types /\ Counted(r) /\ Guarded(r) /\ Chained(r) /\ Answering(r) /\ Authored(r)
        /\ Conditional(r) /\ Newer(r)
    BY DEF IInv, Inv
  <1>2. /\ Types' /\ Apart(r) /\ Moves(r) /\ e \in Event
        /\ OnlyAt(r, events, events', IF SameDB THEN Append(events[r], e) ELSE events[r])
        /\ log' = IF SameDB THEN log ELSE Append(log, e)
        /\ \E outcome \in Changed : ItemDone(r, outcome)
    BY <1>1, StepObserve
  <1>3. pc[r] = "observe" /\ UNCHANGED <<table, lock, job, seen, before, dirty, snap>>
    BY DEF Observe
  <1>4. /\ k \in Keys /\ pos[r] \in Nat /\ pos[r] >= 1 /\ Len(results[r]) = pos[r] - 1
        /\ engine' = engine /\ SameDB' = SameDB
    BY <1>1, <1>2, <1>3, ItemFacts DEF Apart, Counted
  <1>5. /\ e.by = <<r, pos[r]>> /\ e.by[1] = r /\ e.key = k /\ e.before = before[r] /\ e.after = dirty[r][k]
    BY DEF EventOf, This
  <1>6. PICK outcome \in Changed : results'[r] = Append(results[r], outcome)
    BY <1>1, <1>2, <1>3, DoneMoves DEF Outcomes
  <1>7. \/ pos'[r] = pos[r] /\ pc'[r] = "commit"
        \/ ~job[r].partial /\ pos'[r] = pos[r] + 1 /\ pc'[r] \in {"insert", "read"}
    BY <1>1, <1>2, <1>3, DoneMoves DEF Outcomes
  <1> HIDE DEF k, e
  <1>8. /\ Len(results'[r]) = pos[r]
        /\ \A p \in 1 .. pos[r] : results'[r][p] = IF p = pos[r] THEN outcome ELSE results[r][p]
    <2>1. results[r] \in Seq(Outcomes) /\ Len(results[r]) + 1 = pos[r]
      BY <1>1, <1>4, TypeFacts
    <2>2. /\ Len(results'[r]) = pos[r] /\ results'[r][pos[r]] = outcome
          /\ \A p \in 1 .. Len(results[r]) : results'[r][p] = results[r][p]
      BY <1>6, <2>1, AppendProperties
    <2>3. \A p \in 1 .. pos[r] : p # pos[r] => p \in 1 .. Len(results[r])
      BY <1>4
    <2> QED
      BY <2>2, <2>3
  <1>9. log \in Seq(Event) /\ events[r] \in Seq(Event)
    BY <1>1, TypeFacts
  <1>10. \A q, p : /\ Tells(log', q, p) <=> Tells(log, q, p) \/ (~SameDB /\ <<q, p>> = <<r, pos[r]>>)
                   /\ Tells(events'[r], q, p) <=> Tells(events[r], q, p) \/ (SameDB /\ <<q, p>> = <<r, pos[r]>>)
    BY <1>2, <1>5, <1>9, TellsAppend DEF OnlyAt
  <1>11. TableBy(r) /\ LogBy(r)
    BY <1>3, <1>10 DEF TableBy, LogBy
  <1>12. SameDB => History(log', EmptyTable, table')
    BY <1>2, <1>3 DEF IInv
  <1>13. Counted(r)' /\ Settled(r)'
    BY <1>4, <1>7, <1>8 DEF Counted, Settled
  <1>14. Guarded(r)'
    <2>1. \A x \in Keys : Claims(x)' = Claims(x)
      BY <1>4 DEF Claims
    <2> QED
      BY <1>1, <1>3, <1>4, <1>7, <2>1 DEF Guarded
  <1>15. Chained(r)'
    <2>1. Own(r)' = Own(r) /\ Reported(r)' = Own(r)
      BY <1>3, <1>7 DEF Own, Reported
    <2>2. CASE SameDB
      <3>1. /\ History(events[r], table, Reported(r))
            /\ \A i \in DOMAIN events[r] : dirty[r][events[r][i].key] # Untouched
        BY <1>1, <2>2 DEF Chained
      <3>2. /\ e.before = Reported(r)[e.key] /\ e.after = Own(r)[e.key]
            /\ \A x \in Keys \ {e.key} : Own(r)[x] = Reported(r)[x]
            /\ dirty[r][e.key] # Untouched
        BY <1>1, <1>3, <1>4, <1>5 DEF Reported, Own, Guarded, k
      <3>3. History(Append(events[r], e), table, Own(r))
        BY <1>2, <1>9, <3>1, <3>2, HistoryAppend
      <3>4. events'[r] = Append(events[r], e)
        BY <1>2, <2>2 DEF OnlyAt
      <3>5. \A i \in DOMAIN events'[r] : dirty[r][events'[r][i].key] # Untouched
        <4>1. /\ DOMAIN events'[r] = 1 .. (Len(events[r]) + 1) /\ DOMAIN events[r] = 1 .. Len(events[r])
              /\ Len(events[r]) \in Nat
              /\ events'[r][Len(events[r]) + 1] = e
              /\ \A i \in 1 .. Len(events[r]) : events'[r][i] = events[r][i]
          BY <1>9, <3>4, LenProperties
        <4>2. \A i \in 1 .. (Len(events[r]) + 1) : i \in 1 .. Len(events[r]) \/ i = Len(events[r]) + 1
          BY <4>1
        <4> QED
          BY <3>1, <3>2, <4>1, <4>2
      <3>6. History(events'[r], table', Reported(r)')
        BY <1>3, <2>1, <3>3, <3>4
      <3> QED
        BY <1>3, <1>4, <2>2, <3>5, <3>6 DEF Chained, History, Leaves
    <2>3. CASE ~SameDB
      BY <1>1, <1>2, <1>4, <2>3 DEF Chained, OnlyAt
    <2> QED
      BY <2>2, <2>3
  <1>16. Answering(r)'
    <2>1. \A i \in DOMAIN events'[r] : events'[r][i].by[1] = r
      <3>1. CASE SameDB
        <4>1. /\ DOMAIN events'[r] = 1 .. (Len(events[r]) + 1) /\ DOMAIN events[r] = 1 .. Len(events[r])
              /\ Len(events[r]) \in Nat
              /\ events'[r][Len(events[r]) + 1] = e
              /\ \A i \in 1 .. Len(events[r]) : events'[r][i] = events[r][i]
          BY <1>2, <1>9, <3>1, LenProperties DEF OnlyAt
        <4>2. \A i \in 1 .. (Len(events[r]) + 1) : i \in 1 .. Len(events[r]) \/ i = Len(events[r]) + 1
          BY <4>1
        <4> QED
          BY <1>1, <1>5, <4>1, <4>2 DEF Answering
      <3>2. CASE ~SameDB
        BY <1>1, <1>2, <3>2 DEF Answering, OnlyAt
      <3> QED
        BY <3>1, <3>2
    <2>2. ASSUME NEW p \in 1 .. Len(results'[r]), results'[r][p] \in Changed
          PROVE  Tells(log', r, p) \/ Tells(events'[r], r, p)
      <3>1. p = pos[r] \/ (p \in 1 .. Len(results[r]) /\ results[r][p] \in Changed)
        BY <1>4, <1>8, <2>2
      <3> QED
        BY <1>1, <1>10, <3>1 DEF Answering
    <2>3. ASSUME SameDB, NEW p \in Nat, Tells(log', r, p) \/ Tells(events'[r], r, p)
          PROVE  /\ p \in 1 .. Len(results'[r]) /\ results'[r][p] \in Changed
                 /\ Tells(log', r, p) => job[r].partial /\ p < pos[r]
                 /\ Tells(events'[r], r, p) /\ job[r].partial => p = pos[r]
      <3>1. CASE p = pos[r]
        <4>1. ~Tells(log, r, p)
          BY <1>1, <1>4, <2>3, <3>1 DEF Answering
        <4> QED
          BY <1>4, <1>8, <1>10, <2>3, <3>1, <4>1
      <3>2. CASE p # pos[r]
        <4>1. Tells(log, r, p) \/ Tells(events[r], r, p)
          BY <1>10, <2>3, <3>2
        <4>2. /\ p \in 1 .. Len(results[r]) /\ results[r][p] \in Changed
              /\ Tells(log, r, p) => job[r].partial
              /\ Tells(events[r], r, p) => ~job[r].partial
          BY <1>1, <1>3, <2>3, <4>1 DEF Answering
        <4> QED
          BY <1>4, <1>8, <1>10, <2>3, <3>2, <4>2
      <3> QED
        BY <3>1, <3>2
    <2> QED
      BY <1>3, <1>4, <1>7, <2>1, <2>2, <2>3 DEF Answering, Tells
  <1>17. Authored(r)'
    <2> SUFFICES ASSUME NEW x \in Keys, dirty'[r][x] # Untouched
                 PROVE  \E p \in 1 .. pos'[r] :
                            /\ job'[r].items[p].key = x
                            /\ p < pos'[r] \/ pc'[r] \in {"observe", "commit"}
                            /\ IF dirty'[r][x] = NoRow THEN job'[r].items[p].op \in {"remove", "delete"}
                                                       ELSE dirty'[r][x].ver = <<r, p>>
      BY DEF Authored
    <2>1. PICK p \in 1 .. pos[r] :
              /\ job[r].items[p].key = x
              /\ IF dirty[r][x] = NoRow THEN job[r].items[p].op \in {"remove", "delete"}
                                        ELSE dirty[r][x].ver = <<r, p>>
      BY <1>1, <1>3 DEF Authored
    <2>2. p \in 1 .. pos'[r] /\ (p < pos'[r] \/ pc'[r] = "commit")
      BY <1>4, <1>7
    <2> QED
      BY <1>3, <2>1, <2>2
  <1>18. Conditional(r)'
    <2>1. CASE pos'[r] = pos[r] /\ pc'[r] = "commit"
      <3>1. It(r)' = It(r) /\ It(r)'.key = It(r).key
        BY <1>3, <2>1 DEF It
      <3> QED
        BY <1>1, <1>3, <2>1, <3>1 DEF Conditional
    <2>2. CASE pos'[r] = pos[r] + 1 /\ pc'[r] \in {"insert", "read"}
      BY ZenonT(60), <1>1, <1>2, <1>3, <2>2, NextItem DEF Conditional
    <2> QED
      BY <1>7, <2>1, <2>2
  <1>19. Newer(r)'
    BY ZenonT(60), <1>1, <1>3 DEF Newer, Upserts
  <1>20. Inv(r)'
    BY <1>13, <1>14, <1>15, <1>16, <1>17, <1>18, <1>19 DEF Inv
  <1> QED
    BY <1>2, <1>11, <1>12, <1>20, StepOfOne

-----------------------------------------------------------------------------
\* A request arrives.
LEMMA BeginKeeps == ASSUME IInv, NEW r \in Requests, NEW j \in Jobs(r), Begin(r, j) PROVE IInv'
  <1>1. Types /\ Counted(r) /\ Guarded(r) /\ Answering(r) /\ \A q \in Requests : Counted(q)
    BY DEF IInv, Inv
  <1>2. Types' /\ Apart(r)
    BY <1>1, TypesBegin, ApartBegin
  <1>3. pc[r] = "new" /\ UNCHANGED <<table, log, pos, dirty, events, snap, results>>
    BY DEF Begin, tx
  <1>4. pc'[r] = "prepare"
    BY <1>1, TypeFacts DEF Begin, Goto
  <1>5. /\ Guarded(r)' /\ Settled(r)' /\ Chained(r)' /\ Authored(r)' /\ Conditional(r)' /\ Newer(r)'
        /\ \A p : ~Tells(events[r], r, p)'
    BY <1>1, <1>2, <1>3, <1>4, FreshTransaction DEF Guarded
  <1>6. pos[r] = 1 /\ Len(results[r]) = 0
    BY <1>1, <1>3 DEF Counted
  <1>7. Counted(r)'
    BY <1>3, <1>4, <1>6 DEF Counted
  <1>8. Answering(r)'
    <2>1. SameDB => \A p \in Nat : ~Tells(log, r, p)
      BY <1>1, <1>6 DEF Answering
    <2>2. \A p : Tells(log, r, p)' <=> Tells(log, r, p)
      BY <1>3 DEF Tells
    <2> QED
      BY <1>1, <1>2, <1>3, <1>5, <1>6, <2>1, <2>2 DEF Answering, Apart
  <1>9. Inv(r)'
    BY <1>5, <1>7, <1>8 DEF Inv
  <1>10. TableBy(r) /\ LogBy(r)
    BY <1>3 DEF TableBy, LogBy, Tells
  <1>11. SameDB => History(log', EmptyTable, table')
    BY <1>3 DEF IInv
  <1> QED
    BY <1>2, <1>9, <1>10, <1>11, StepOfOne

\* The answer to an item that failed.
LEMMA AbortResults ==
  ASSUME IInv, NEW r \in Requests, pc[r] \notin {"new", "done"}, NEW outs \in Seq(Outcomes),
         \/ outs = Errors(r) /\ ~(pc[r] = "commit" /\ job[r].partial)
         \/ outs = [results[r] EXCEPT ![pos[r]] = "error"] /\ pc[r] = "commit" /\ job[r].partial
  PROVE  /\ job[r].partial => Len(outs) = pos[r]
         /\ \A p \in 1 .. Len(outs) : outs[p] \in Changed => Tells(log, r, p)
         /\ SameDB => \A p \in Nat : Tells(log, r, p) =>
                p \in 1 .. Len(outs) /\ outs[p] \in Changed /\ job[r].partial
  <1>1. Types /\ Counted(r) /\ Chained(r) /\ Answering(r)
    BY DEF IInv, Inv
  <1>2. /\ results[r] \in Seq(Outcomes) /\ Len(results[r]) \in Nat /\ pos[r] \in Nat /\ pos[r] >= 1
        /\ DOMAIN results[r] = 1 .. Len(results[r])
    BY <1>1, TypeFacts, LenProperties
  <1>3. "error" \notin Changed
    BY DEF Changed
  <1>4. ~SameDB => \A p : ~Tells(events[r], r, p)
    BY <1>1 DEF Chained, Tells
  <1>5. CASE outs = Errors(r) /\ ~job[r].partial
    <2>1. \A p \in 1 .. Len(outs) : outs[p] = "error"
      BY <1>1, <1>5, ErrorsFacts
    <2>2. SameDB => \A p \in Nat : ~Tells(log, r, p)
      BY <1>1, <1>5 DEF Answering
    <2> QED
      BY <1>3, <1>5, <2>1, <2>2
  <1>6. CASE outs = Errors(r) /\ job[r].partial /\ pc[r] # "commit"
    <2>1. outs = Append(results[r], "error") /\ Len(results[r]) = pos[r] - 1
      BY <1>1, <1>6, ErrorsFacts DEF Counted
    <2>2. /\ Len(outs) = pos[r] /\ outs[pos[r]] = "error"
          /\ \A p \in 1 .. Len(results[r]) : outs[p] = results[r][p]
      <3>1. pos[r] = Len(results[r]) + 1
        BY <1>2, <2>1
      <3> QED
        BY <1>2, <2>1, <3>1, AppendProperties
    <2>3. \A p \in 1 .. pos[r] : p # pos[r] => p \in 1 .. Len(results[r])
      BY <1>2, <2>1
    <2>4. ASSUME NEW p \in 1 .. Len(outs), outs[p] \in Changed PROVE Tells(log, r, p)
      <3>1. p \in 1 .. Len(results[r]) /\ results[r][p] \in Changed /\ p \in Nat
        BY <1>2, <1>3, <2>2, <2>3, <2>4
      <3>2. ~Tells(events[r], r, p)
        BY <1>1, <1>4, <1>6, <3>1 DEF Answering
      <3> QED
        BY <1>1, <3>1, <3>2 DEF Answering
    <2>5. ASSUME SameDB, NEW p \in Nat, Tells(log, r, p)
          PROVE  p \in 1 .. Len(outs) /\ outs[p] \in Changed
      <3>1. p \in 1 .. Len(results[r]) /\ results[r][p] \in Changed
        BY <1>1, <2>5 DEF Answering
      <3> QED
        BY <1>2, <2>1, <2>2, <3>1
    <2> QED
      BY <1>6, <2>2, <2>4, <2>5
  <1>7. CASE outs = [results[r] EXCEPT ![pos[r]] = "error"] /\ pc[r] = "commit" /\ job[r].partial
    <2>1. Len(results[r]) = pos[r]
      BY <1>1, <1>7 DEF Counted
    <2>2. /\ DOMAIN outs = 1 .. pos[r] /\ outs[pos[r]] = "error"
          /\ \A p \in 1 .. pos[r] : p # pos[r] => outs[p] = results[r][p]
      BY <1>2, <1>7, <2>1
    <2>3. Len(outs) = pos[r]
      <3>1. Len(outs) \in Nat /\ DOMAIN outs = 1 .. Len(outs)
        BY LenProperties
      <3>2. \A m, n \in Nat : 1 .. m = 1 .. n => m = n
        <4> SUFFICES ASSUME NEW m \in Nat, NEW n \in Nat, 1 .. m = 1 .. n PROVE m = n
          OBVIOUS
        <4>1. m > n => m \in 1 .. m /\ m \notin 1 .. n
          OBVIOUS
        <4>2. n > m => n \in 1 .. n /\ n \notin 1 .. m
          OBVIOUS
        <4> QED
          BY <4>1, <4>2
      <3> QED
        BY <1>2, <2>2, <3>1, <3>2
    <2>4. ASSUME NEW p \in 1 .. Len(outs), outs[p] \in Changed PROVE Tells(log, r, p)
      <3>1. p \in 1 .. Len(results[r]) /\ results[r][p] \in Changed /\ p \in Nat /\ p # pos[r]
        BY <1>2, <1>3, <2>1, <2>2, <2>3, <2>4
      <3>2. ~Tells(events[r], r, p)
        BY <1>1, <1>4, <1>7, <3>1 DEF Answering
      <3> QED
        BY <1>1, <3>1, <3>2 DEF Answering
    <2>5. ASSUME SameDB, NEW p \in Nat, Tells(log, r, p)
          PROVE  p \in 1 .. Len(outs) /\ outs[p] \in Changed
      <3>1. p \in 1 .. Len(results[r]) /\ results[r][p] \in Changed /\ p < pos[r]
        BY <1>1, <1>7, <2>5 DEF Answering
      <3> QED
        BY <1>2, <2>1, <2>2, <2>3, <3>1
    <2> QED
      BY <1>7, <2>3, <2>4, <2>5
  <1> QED
    BY <1>5, <1>6, <1>7

\* A transaction that ends, and what its request has been told by then.
LEMMA EndInvariant ==
  ASSUME IInv, None \notin Requests, NEW r \in Requests, pc[r] # "new",
         NEW outs \in Seq(Outcomes), Ends(r, outs), table' \in [Keys -> Rows], log' \in Seq(Event),
         job[r].partial => Len(outs) = pos[r],
         \A p \in 1 .. Len(outs) : outs[p] \in Changed => Tells(log', r, p),
         SameDB => \A p \in Nat : Tells(log', r, p) =>
                p \in 1 .. Len(outs) /\ outs[p] \in Changed /\ (pc'[r] # "done" => job[r].partial)
  PROVE  Types' /\ Apart(r) /\ Inv(r)'
  <1>1. Types
    BY DEF IInv
  <1>2. /\ Types' /\ Apart(r) /\ results'[r] = outs
        /\ dirty'[r] = Clean /\ events'[r] = <<>> /\ snap'[r] = {}
        /\ \/ pos'[r] = pos[r] /\ pc'[r] = "done"
           \/ job[r].partial /\ pos'[r] = pos[r] + 1 /\ pc'[r] = "prepare"
    BY <1>1, StepEnd
  <1>3. job' = job /\ SameDB' = SameDB /\ pos[r] \in Nat
    BY <1>1, <1>2, TypeFacts DEF Ends, Apart
  <1>4. /\ Guarded(r)' /\ Settled(r)' /\ Chained(r)' /\ Authored(r)' /\ Conditional(r)' /\ Newer(r)'
        /\ \A p : ~Tells(events[r], r, p)'
    BY <1>2, FreshTransaction
  <1>5. Counted(r)'
    BY <1>2, <1>3 DEF Counted
  <1>6. Answering(r)'
    <2>1. DOMAIN events'[r] = {}
      BY <1>2
    <2>2. \A p : Tells(log, r, p)' <=> Tells(log', r, p)
      BY DEF Tells
    <2> QED
      BY <1>2, <1>3, <1>4, <2>1, <2>2 DEF Answering
  <1> QED
    BY <1>2, <1>4, <1>5, <1>6 DEF Inv

LEMMA AbortKeeps ==
  ASSUME IInv, None \notin Requests, NEW r \in Requests, Refuse(r) \/ Victim(r) \/ Fail(r)
  PROVE  IInv'
  <1>1. Types
    BY DEF IInv
  <1>2. PICK outs \in Seq(Outcomes) :
           /\ Ends(r, outs)
           /\ \/ outs = Errors(r) /\ ~(pc[r] = "commit" /\ job[r].partial)
              \/ outs = [results[r] EXCEPT ![pos[r]] = "error"] /\ pc[r] = "commit" /\ job[r].partial
    BY <1>1, StepAbort
  <1>3. pc[r] \notin {"new", "done"} /\ UNCHANGED <<table, log>>
    BY <1>1, StepAbort
  <1>4. /\ job[r].partial => Len(outs) = pos[r]
        /\ \A p \in 1 .. Len(outs) : outs[p] \in Changed => Tells(log, r, p)
        /\ SameDB => \A p \in Nat : Tells(log, r, p) =>
               p \in 1 .. Len(outs) /\ outs[p] \in Changed /\ job[r].partial
    BY <1>2, <1>3, AbortResults
  <1>5. table' \in [Keys -> Rows] /\ log' \in Seq(Event) /\ \A q, p : Tells(log', q, p) <=> Tells(log, q, p)
    BY <1>1, <1>3, TypeFacts
  <1>6. Types' /\ Apart(r) /\ Inv(r)'
    BY <1>2, <1>3, <1>4, <1>5, EndInvariant
  <1>7. TableBy(r) /\ LogBy(r)
    BY <1>3 DEF TableBy, LogBy, Tells
  <1>8. SameDB => History(log', EmptyTable, table')
    BY <1>3 DEF IInv
  <1> QED
    BY <1>6, <1>7, <1>8, StepOfOne

LEMMA CommitKeeps == ASSUME IInv, None \notin Requests, NEW r \in Requests, Commit(r) PROVE IInv'
  <1>1. Types /\ Counted(r) /\ Chained(r) /\ Answering(r)
    BY DEF IInv, Inv
  <1>2. /\ pc[r] = "commit" /\ Ends(r, results[r]) /\ results[r] \in Seq(Outcomes)
        /\ table' = Own(r) /\ table' \in [Keys -> Rows]
        /\ log' = log \o events[r] /\ log' \in Seq(Event)
    BY <1>1, StepCommit
  <1>3. log \in Seq(Event) /\ events[r] \in Seq(Event)
    BY <1>1, TypeFacts
  <1>4. \A q, p : Tells(log', q, p) <=> Tells(log, q, p) \/ Tells(events[r], q, p)
    BY <1>2, <1>3, TellsConcat
  <1>5. Len(results[r]) = pos[r]
    BY <1>1, <1>2 DEF Counted
  <1>6. pc'[r] # "done" => job[r].partial
    BY <1>1, <1>2, StepEnd
  <1>7. Types' /\ Apart(r) /\ Inv(r)'
    <2>1. \A p \in 1 .. Len(results[r]) : results[r][p] \in Changed => Tells(log', r, p)
      BY <1>1, <1>4 DEF Answering
    <2>2. SameDB => \A p \in Nat : Tells(log', r, p) =>
             p \in 1 .. Len(results[r]) /\ results[r][p] \in Changed /\ (pc'[r] # "done" => job[r].partial)
      BY <1>1, <1>4, <1>6 DEF Answering
    <2> QED
      BY <1>2, <1>5, <2>1, <2>2, EndInvariant
  <1>8. TableBy(r)
    BY <1>2 DEF TableBy, Own
  <1>9. LogBy(r)
    <2>1. \A q, p : q # r => ~Tells(events[r], q, p)
      BY <1>1 DEF Answering, Tells
    <2> QED
      BY <1>4, <2>1 DEF LogBy
  <1>10. SameDB => History(log', EmptyTable, table')
    <2> SUFFICES ASSUME SameDB PROVE History(log \o events[r], EmptyTable, Own(r))
      BY <1>2
    <2>1. History(events[r], table, Own(r))
      BY <1>1, <1>2 DEF Chained, Reported
    <2>2. History(log, EmptyTable, table)
      BY DEF IInv
    <2> QED
      BY <1>3, <2>1, <2>2, HistoryConcat
  <1> QED
    BY <1>7, <1>8, <1>9, <1>10, StepOfOne

-----------------------------------------------------------------------------
\* Every step keeps the invariant.
LEMMA NextKeeps == IInv /\ [Next]_vars => IInv'
  <1> SUFFICES ASSUME IInv, [Next]_vars PROVE IInv'
    OBVIOUS
  <1>1. None \notin Requests
    BY EntityAssumption
  <1>2. ASSUME NEW r \in Requests, NEW j \in Jobs(r), Begin(r, j) PROVE IInv'
    BY <1>2, BeginKeeps
  <1>3. ASSUME NEW r \in Requests, Step(r) PROVE IInv'
    <2>1. CASE Prepare(r)
      BY <2>1, PrepareKeeps
    <2>2. CASE Read(r)
      BY <1>1, <2>2, ReadKeeps
    <2>3. CASE Insert(r)
      BY <1>1, <2>3, InsertKeeps
    <2>4. CASE Write(r)
      BY <1>1, <2>4, WriteKeeps
    <2>5. CASE NoFields(r)
      BY <2>5, NoFieldsKeeps
    <2>6. CASE Observe(r)
      BY <2>6, ObserveKeeps
    <2>7. CASE Commit(r)
      BY <1>1, <2>7, CommitKeeps
    <2>8. CASE Refuse(r) \/ Victim(r)
      BY <1>1, <2>8, AbortKeeps
    <2> QED
      BY <1>3, <2>1, <2>2, <2>3, <2>4, <2>5, <2>6, <2>7, <2>8 DEF Step
  <1>4. ASSUME NEW r \in Requests, Fail(r) PROVE IInv'
    BY <1>1, <1>4, AbortKeeps
  <1>5. CASE UNCHANGED vars
    <2>1. Types'
      BY <1>5 DEF IInv, Types, TypeOK, Jobs, Rows, Row, Event, Outcomes, Changed, vars
    <2>2. (SameDB => History(log, EmptyTable, table))'
      <3>1. SameDB' = SameDB /\ log' = log /\ table' = table
        BY <1>5 DEF SameDB, vars
      <3> QED
        BY <3>1 DEF IInv, EmptyTable, History, Leaves
    <2>3. ASSUME NEW r \in Requests PROVE Inv(r)'
      <3>1. Inv(r)
        BY DEF IInv
      <3>2. It(r)' = It(r) /\ engine' = engine /\ SameDB' = SameDB
        BY <1>5 DEF It, engine, SameDB, vars
      <3>3. Reported(r)' = Reported(r)
        BY <1>5, <3>2 DEF Reported, Own, vars
      <3>4. Counted(r)' /\ Guarded(r)' /\ Settled(r)'
        BY <1>5, <3>1, <3>2 DEF Inv, Counted, Guarded, Settled, Claims, Clean, View, vars
      <3>5. Chained(r)'
        <4>1. events' = events /\ table' = table /\ dirty' = dirty
          BY <1>5 DEF vars
        <4>2. History(events[r], table, Reported(r))' <=> History(events[r], table, Reported(r))
          BY <3>3, <4>1 DEF History, Leaves
        <4> QED
          BY <3>1, <3>2, <4>1, <4>2 DEF Inv, Chained
      <3>6. Answering(r)'
        BY ZenonT(60), <1>5, <3>1, <3>2 DEF Inv, Answering, Tells, vars
      <3>7. Authored(r)' /\ Conditional(r)' /\ Newer(r)'
        BY ZenonT(60), <1>5, <3>1, <3>2 DEF Inv, Authored, Conditional, Newer, Upserts, vars
      <3> QED
        BY <3>4, <3>5, <3>6, <3>7 DEF Inv
    <2> QED
      BY <2>1, <2>2, <2>3 DEF IInv
  <1> QED
    BY <1>2, <1>3, <1>4, <1>5 DEF Next

\* The rows of a table change only at a COMMIT.
LEMMA OnlyCommits ==
  ASSUME IInv, [Next]_vars, table' # table
  PROVE  \E r \in Requests : Commit(r)
  <1>1. ASSUME NEW r \in Requests, Step(r) \/ Fail(r) \/ \E j \in Jobs(r) : Begin(r, j)
        PROVE  Commit(r) \/ table' = table
    BY <1>1 DEF Step, Fail, Begin, Prepare, Read, Insert, Write, NoFields, Observe, Refuse, Victim, Rollback
  <1>2. ~UNCHANGED vars
    BY DEF vars
  <1> QED
    BY <1>1, <1>2 DEF Next

\* What the invariant says of a commit.
LEMMA CommitRespects ==
  ASSUME IInv, [Next]_vars
  PROVE  ConditionHeld /\ NewestKept
  <1>1. CASE table' = table
    BY <1>1 DEF ConditionHeld, NewestKept
  <1>2. CASE table' # table
    <2>1. PICK r \in Requests : Commit(r)
      BY <1>2, OnlyCommits
    <2>2. None \notin Requests
      BY EntityAssumption
    <2>3. Types /\ Authored(r) /\ Conditional(r) /\ Newer(r)
      BY DEF IInv, Inv
    <2>4. /\ pc[r] = "commit" /\ Ends(r, results[r]) /\ results[r] \in Seq(Outcomes)
          /\ table' = Own(r) /\ table' \in [Keys -> Rows]
          /\ log' \in Seq(Event)
      BY <2>1, <2>3, StepCommit
    <2>5. Apart(r)
      BY <2>2, <2>3, <2>4, StepEnd
    <2>6. pos[r] \in Nat /\ pos[r] \in 1 .. Len(job[r].items) /\ table \in [Keys -> Rows]
      BY <2>3, <2>4, ItemFacts, TypeFacts
    <2>7. ConditionHeld
      <3> SUFFICES ASSUME NEW q \in Requests, pc[q] = "commit", pc'[q] = "done", It(q).cond
                   PROVE  table[It(q).key].ver = seen[q].ver
        BY DEF ConditionHeld
      <3>1. q = r
        BY <2>5 DEF Apart, OnlyAt
      <3>2. Len(job[r].items) = 1
        BY <2>3, <2>4, <3>1, ItemFacts
      <3>3. PICK x \in Keys : table'[x] # table[x]
        BY <1>2, <2>4, <2>6
      <3>4. dirty[r][x] # Untouched
        BY <2>4, <3>3 DEF Own
      <3>5. PICK p \in 1 .. pos[r] : job[r].items[p].key = x
        BY <2>3, <3>4 DEF Authored
      <3>6. p = pos[r]
        BY <2>6, <3>2, <3>5
      <3>7. It(r).key = x
        BY ZenonT(60), <3>5, <3>6 DEF It
      <3> QED
        BY <2>3, <2>4, <3>1, <3>4, <3>7 DEF Conditional
    <2>8. NewestKept
      <3> SUFFICES ASSUME NEW k \in Keys, table[k] # NoRow, table'[k] # NoRow, table'[k] # table[k],
                          job[table'[k].ver[1]].items[table'[k].ver[2]].op = "upsert",
                          job[table'[k].ver[1]].items[table'[k].ver[2]].guard # 0,
                          Upserts(job[table'[k].ver[1]].items, k, table'[k].ver[2])
                   PROVE  table[k].guard < table'[k].guard
        BY ZenonT(60) DEF NewestKept
      <3>1. dirty[r][k] # Untouched /\ table'[k] = dirty[r][k]
        BY ZenonT(60), <2>4 DEF Own
      <3>2. PICK p \in 1 .. pos[r] : dirty[r][k].ver = <<r, p>>
        BY ZenonT(60), <2>3, <3>1 DEF Authored
      <3>3. table'[k].ver[1] = r /\ table'[k].ver[2] = p /\ dirty[r][k].ver[2] = p
        BY <3>1, <3>2
      <3>4. /\ dirty[r][k] \notin {Untouched, NoRow}
            /\ Upserts(job[r].items, k, dirty[r][k].ver[2])
            /\ job[r].items[dirty[r][k].ver[2]].op = "upsert"
            /\ job[r].items[dirty[r][k].ver[2]].guard # 0
        BY <3>1, <3>3
      <3>5. table[k].guard < dirty[r][k].guard
        BY ZenonT(60), <2>3, <3>4 DEF Newer
      <3> QED
        BY <3>1, <3>5
    <2> QED
      BY <2>7, <2>8
  <1> QED
    BY <1>1, <1>2

\* What the invariant says of a state.
LEMMA InvariantAnswers == IInv => LogExplainsTable /\ AnswersTruthful
  <1> SUFFICES ASSUME IInv PROVE LogExplainsTable /\ AnswersTruthful
    OBVIOUS
  <1>1. LogExplainsTable
    BY DEF IInv, LogExplainsTable, EmptyTable
  <1>2. Types
    BY DEF IInv
  <1>3. ASSUME NEW r \in Requests, pc[r] = "done", NEW p \in 1 .. Len(results[r])
        PROVE  LET traced == \E i \in 1 .. Len(log) : log[i].by = <<r, p>>
               IN  /\ results[r][p] \in Changed => traced
                   /\ SameDB => (traced => results[r][p] \in Changed)
    <2>1. Answering(r) /\ Guarded(r)
      BY DEF IInv, Inv
    <2>2. DOMAIN log = 1 .. Len(log) /\ p \in Nat
      BY <1>2, TypeFacts, LenProperties
    <2>3. events[r] = <<>>
      BY <1>3, <2>1 DEF Guarded
    <2>4. ~Tells(events[r], r, p)
      BY <2>3 DEF Tells
    <2>5. Tells(log, r, p) <=> \E i \in 1 .. Len(log) : log[i].by = <<r, p>>
      BY <2>2 DEF Tells
    <2> QED
      BY <2>1, <2>2, <2>4, <2>5 DEF Answering
  <1>4. AnswersTruthful
    BY <1>3 DEF AnswersTruthful
  <1> QED
    BY <1>1, <1>4

-----------------------------------------------------------------------------
\* The invariant holds of the write path for any keys, requests, deployments and jobs
\* (handler/create.go, upsert.go, update.go, delete.go, write.go, tx.go).
THEOREM EntityInvariant == Spec => []IInv
  <1> QED
    BY InitInvariant, NextKeeps, PTL DEF Spec

\* No commit overwrites a row its client has not seen (If-Match) or newer data (stale_guard).
THEOREM NothingOverwritten == Spec => NoneOverwritten
  <1>1. IInv /\ [Next]_vars => [ConditionHeld /\ NewestKept]_vars
    BY CommitRespects
  <1> QED
    BY <1>1, EntityInvariant, PTL DEF Spec, NoneOverwritten

-----------------------------------------------------------------------------
\* In the composition that the run checks.
Composed == deployed # Off => IInv

LEMMA ComposedStep == Composed /\ [InWrite(Next) \/ InRules(R!Next)]_all => Composed'
  <1> SUFFICES ASSUME Composed, [InWrite(Next) \/ InRules(R!Next)]_all PROVE Composed'
    OBVIOUS
  <1>1. CASE InWrite(Next)
    BY <1>1, NextKeeps DEF InWrite, Composed
  <1>2. CASE UNCHANGED vars
    <2>1. IInv => IInv'
      BY <1>2, NextKeeps
    <2> QED
      BY <1>2, <2>1 DEF Composed, vars
  <1> QED
    BY <1>1, <1>2 DEF InRules, all

LEMMA ComposedInvariant == EntitySpec => []Composed
  <1>1. (Init /\ RulesOff) \/ (WriteOff /\ R!Init) => Composed
    BY InitInvariant DEF WriteOff, Composed
  <1> QED
    BY <1>1, ComposedStep, PTL DEF EntitySpec

\* Audit rows and outbox messages are the history of the rows (handler/factory.go: observe).
THEOREM LogIsHistory == EntitySpec => []ChangesLogged
  <1>1. Composed => ChangesLogged
    BY InvariantAnswers DEF Composed, ChangesLogged
  <1> QED
    BY <1>1, ComposedInvariant, PTL

\* What a request is told is what happened (handler/create.go, write.go).
THEOREM AnswersAreTrue == EntitySpec => []ToldTheTruth
  <1>1. Composed => ToldTheTruth
    BY InvariantAnswers DEF Composed, ToldTheTruth
  <1> QED
    BY <1>1, ComposedInvariant, PTL

\* No commit overwrites a row its client has not seen (If-Match) or newer data (stale_guard).
THEOREM NewerDataIsKept == EntitySpec => KeepsNewer
  <1>1. Composed /\ [InWrite(Next) \/ InRules(R!Next)]_all
          => [deployed # Off => ConditionHeld /\ NewestKept]_all
    <2> SUFFICES ASSUME deployed # Off, IInv, InWrite(Next) \/ InRules(R!Next)
                 PROVE  ConditionHeld /\ NewestKept
      BY DEF Composed
    <2>1. [Next]_vars
      BY DEF InWrite, InRules
    <2> QED
      BY <2>1, CommitRespects
  <1> QED
    BY <1>1, ComposedInvariant, PTL DEF EntitySpec, KeepsNewer

-----------------------------------------------------------------------------
(* Rules and stamps of one row *)

\* A nonempty set of natural numbers has a least element.
LEMMA LeastNumber ==
  ASSUME NEW S \in SUBSET Nat, S # {}
  PROVE  \E n \in S : \A m \in S : n <= m
  <1>1. PICK n \in S : \A m \in S : ~(<<m, n>> \in OpToRel(<, Nat))
    BY NatLessThanWellFounded, WFMin
  <1>2. \A m \in S : ~(m < n)
    BY <1>1 DEF OpToRel
  <1> QED
    BY <1>2

\* A set that holds 0 and the successor of every number in it holds all numbers.
LEMMA AllNumbers ==
  ASSUME NEW S, 0 \in S, \A n \in Nat : n \in S => n + 1 \in S
  PROVE  Nat \subseteq S
  <1> SUFFICES ASSUME Nat \ S # {} PROVE FALSE
    OBVIOUS
  <1>1. PICK n \in Nat \ S : \A m \in Nat \ S : n <= m
    BY LeastNumber, Nat \ S \in SUBSET Nat
  <1>2. n - 1 \in Nat
    BY <1>1
  <1>3. n - 1 \in S
    BY <1>1, <1>2
  <1> QED
    BY <1>1, <1>2, <1>3

\* What an operand reads of a column.
At(values, col) == IF col \in DOMAIN values THEN values[col] ELSE R!Null

\* A condition reads its own columns, and null where there is none.
LEMMA EvalReads ==
  ASSUME NEW c, R!OperandsKnown(c), NEW u, NEW v, \A col \in R!ColumnsIn(c) : At(u, col) = At(v, col)
  PROVE  R!Eval(c, u) = R!Eval(c, v) /\ (R!Holds(c, u) <=> R!Holds(c, v))
  <1>1. ASSUME NEW o \in {c.left, c.right}, NEW other
        PROVE  R!OperandValue(o, other, u) = R!OperandValue(o, other, v)
    <2>1. CASE o.of = "now"
      BY <2>1 DEF R!OperandValue
    <2>2. CASE o.of = "literal"
      BY <2>2 DEF R!OperandValue
    <2>3. CASE o.of = "field"
      <3>1. o.col \in R!ColumnsIn(c)
        BY <2>3 DEF R!ColumnsIn
      <3>2. At(u, o.col) = At(v, o.col)
        BY <3>1
      <3> QED
        BY <2>3, <3>2 DEF R!OperandValue, At
    <2> QED
      BY <2>1, <2>2, <2>3 DEF R!OperandsKnown
  <1>2. R!Eval(c, u) = R!Eval(c, v)
    BY <1>1 DEF R!Eval
  <1> QED
    BY <1>2 DEF R!Holds

\* Conditions depend on the moment and the entity, which a request does not change.
LEMMA EvalAfter ==
  ASSUME NEW c, entity' = entity, now' = now
  PROVE  R!Eval(c, row)' = R!Eval(c, row') /\ (R!Holds(c, row)' <=> R!Holds(c, row'))
  <1>1. ASSUME NEW o, NEW other PROVE R!OperandValue(o, other, row)' = R!OperandValue(o, other, row')
    BY DEF R!OperandValue, R!OperandKind, R!Field
  <1>2. R!Eval(c, row)' = R!Eval(c, row')
    BY <1>1 DEF R!Eval
  <1> QED
    BY <1>2 DEF R!Holds

\* What one turn of the loop does to a change: nothing, or it sets its own field.
Turned(data, new, f) ==
    \/ new = data
    \/ /\ f.stamp # {} /\ DOMAIN new = DOMAIN data \cup {f.col}
       /\ \A c \in DOMAIN data \ {f.col} : new[c] = data[c]

LEMMA StampIs ==
  ASSUME NEW old, NEW data, NEW f
  PROVE  Turned(data, R!Stamp(old, data, f), f)
  BY DEF R!Stamp, Turned

\* The loop, turn by turn.
LEMMA StampedTurns ==
  ASSUME R!RulesAssumption, entity \in Entities, NEW old, NEW data
  PROVE  \E d : /\ d[0] = data /\ R!Stamped(old, data) = d[Len(entity.fields)]
                /\ \A i \in 1 .. Len(entity.fields) : d[i] = R!Stamp(old, d[i-1], entity.fields[i])
  <1> DEFINE N == Len(entity.fields)
             E(d, m) == [i \in 0 .. m |-> IF i = 0 THEN data ELSE R!Stamp(old, d[i-1], entity.fields[i])]
             T == {m \in Nat : \E d : d = E(d, m)}
             turn == CHOOSE d : d = E(d, N)
  <1>1. N \in Nat
    BY DEF R!RulesAssumption
  <1>2. 0 \in T
    <2>1. [i \in 0 .. 0 |-> data] = E([i \in 0 .. 0 |-> data], 0)
      OBVIOUS
    <2> QED
      BY <2>1
  <1>3. ASSUME NEW n \in Nat, n \in T PROVE n + 1 \in T
    <2>1. PICK d : d = E(d, n)
      BY <1>3
    <2> DEFINE g == [i \in 0 .. n + 1 |-> IF i = n + 1 THEN R!Stamp(old, d[n], entity.fields[n + 1]) ELSE d[i]]
    <2>2. ASSUME NEW i \in 0 .. n + 1
          PROVE  g[i] = IF i = 0 THEN data ELSE R!Stamp(old, g[i-1], entity.fields[i])
      <3>1. CASE i = n + 1
        BY <3>1
      <3>2. CASE i # n + 1
        <4>1. i \in 0 .. n /\ (i # 0 => i - 1 \in 0 .. n + 1 /\ i - 1 # n + 1)
          BY <3>2
        <4>2. d[i] = IF i = 0 THEN data ELSE R!Stamp(old, d[i-1], entity.fields[i])
          BY <2>1, <4>1
        <4>3. g[i] = d[i] /\ (i # 0 => g[i-1] = d[i-1])
          BY <3>2, <4>1
        <4> QED
          BY <4>2, <4>3
      <3> QED
        BY <3>1, <3>2
    <2>3. g = E(g, n + 1)
      BY <2>2
    <2>4. \E e : e = E(e, n + 1)
      <3> HIDE DEF E, g
      <3> QED
        BY <2>3
    <2> QED
      BY <2>4
  <1>4. N \in T
    <2> HIDE DEF T
    <2> QED
      BY <1>1, <1>2, <1>3, AllNumbers
  <1>5. turn = E(turn, N)
    <2>1. \E d : d = E(d, N)
      BY <1>4
    <2> HIDE DEF E
    <2> QED
      BY <2>1
  <1> HIDE DEF turn
  <1>6. R!Stamped(old, data) = turn[N]
    BY DEF R!Stamped, turn
  <1>7. turn[0] = data
    BY <1>1, <1>5
  <1>8. ASSUME NEW i \in 1 .. N PROVE turn[i] = R!Stamp(old, turn[i-1], entity.fields[i])
    BY <1>1, <1>5, i \in 0 .. N, i # 0
  <1> QED
    BY <1>6, <1>7, <1>8

\* Only columns of the entity are stamped.
LEMMA StampedColumns ==
  ASSUME R!RulesAssumption, entity \in Entities, NEW old, NEW data, DOMAIN data \subseteq R!Columns
  PROVE  DOMAIN R!Stamped(old, data) \subseteq R!Columns
  <1> DEFINE N == Len(entity.fields)
  <1>1. N \in Nat /\ DOMAIN entity.fields = 1 .. N
    BY DEF R!RulesAssumption
  <1>2. PICK d : /\ d[0] = data /\ R!Stamped(old, data) = d[N]
                 /\ \A i \in 1 .. N : d[i] = R!Stamp(old, d[i-1], entity.fields[i])
    BY StampedTurns
  <1> DEFINE T == {n \in Nat : n <= N => DOMAIN d[n] \subseteq R!Columns}
  <1>3. 0 \in T
    BY <1>2
  <1>4. ASSUME NEW n \in Nat, n \in T PROVE n + 1 \in T
    <2> SUFFICES ASSUME n + 1 <= N PROVE DOMAIN d[n + 1] \subseteq R!Columns
      OBVIOUS
    <2>1. Turned(d[n], d[n + 1], entity.fields[n + 1]) /\ n + 1 \in 1 .. N
      <3>1. d[n + 1] = R!Stamp(old, d[n], entity.fields[n + 1]) /\ n + 1 \in 1 .. N
        BY <1>1, <1>2
      <3> QED
        BY <3>1, StampIs
    <2>2. DOMAIN d[n] \subseteq R!Columns /\ entity.fields[n + 1].col \in R!Columns
      BY <1>1, <1>4, <2>1 DEF R!Columns
    <2> QED
      BY <2>1, <2>2 DEF Turned
  <1> HIDE DEF T
  <1>5. N \in T
    BY <1>1, <1>3, <1>4, AllNumbers
  <1> QED
    BY <1>1, <1>2, <1>5 DEF T

\* The columns that stamps from the i-th field on are kept in.
Later(i) == {entity.fields[j].col : j \in {j \in i .. Len(entity.fields) : entity.fields[j].stamp # {}}}

\* The stamp of one field: set or cleared if its condition turns, untouched otherwise.
LEMMA StampedField ==
  ASSUME R!RulesAssumption, entity \in Entities, NEW old, NEW data,
         NEW i \in DOMAIN entity.fields, NEW c \in entity.fields[i].stamp,
         entity.fields[i].col \notin DOMAIN data, R!ColumnsIn(c) \cap Later(i) = {}
  PROVE  \A s : s = R!Stamped(old, data) =>
           LET col == entity.fields[i].col
               heard == R!ColumnsIn(c) \cap DOMAIN s # {}
               after == R!Holds(c, R!Over(s, old))
               prev == old # R!NoRow /\ R!Holds(c, old)
           IN  /\ ~heard \/ (after <=> prev) => col \notin DOMAIN s
               /\ heard /\ after /\ ~prev => col \in DOMAIN s /\ s[col] # R!Null
               /\ heard /\ ~after /\ prev => col \in DOMAIN s /\ s[col] = R!Null
  <1> DEFINE N == Len(entity.fields)
             f == entity.fields[i]
  <1>1. N \in Nat /\ DOMAIN entity.fields = 1 .. N /\ R!OperandsKnown(c) /\ f.stamp = {c}
    BY DEF R!RulesAssumption
  <1>2. PICK d : /\ d[0] = data /\ R!Stamped(old, data) = d[N]
                 /\ \A j \in 1 .. N : d[j] = R!Stamp(old, d[j-1], entity.fields[j])
    BY StampedTurns
  \* Before its turn the field is not in the change.
  <1> DEFINE T == {n \in Nat : n < i => f.col \notin DOMAIN d[n]}
  <1>3. 0 \in T
    BY <1>2
  <1>4. ASSUME NEW n \in Nat, n \in T PROVE n + 1 \in T
    <2> SUFFICES ASSUME n + 1 < i PROVE f.col \notin DOMAIN d[n + 1]
      OBVIOUS
    <2>1. Turned(d[n], d[n + 1], entity.fields[n + 1]) /\ n + 1 \in 1 .. N /\ n + 1 # i
      <3>1. d[n + 1] = R!Stamp(old, d[n], entity.fields[n + 1]) /\ n + 1 \in 1 .. N /\ n + 1 # i
        BY <1>1, <1>2
      <3> QED
        BY <3>1, StampIs
    <2>2. entity.fields[n + 1].col # f.col
      BY <1>1, <2>1 DEF R!RulesAssumption
    <2>3. f.col \notin DOMAIN d[n]
      BY <1>1, <1>4
    <2> QED
      BY <2>1, <2>2, <2>3 DEF Turned
  <1>5. f.col \notin DOMAIN d[i-1]
    <2>1. i - 1 \in T
      <3> HIDE DEF T
      <3> QED
        BY <1>1, <1>3, <1>4, AllNumbers, i - 1 \in Nat
    <2> QED
      BY <1>1, <2>1
  <1>6. d[i] = R!Stamp(old, d[i-1], f) /\ i - 1 \in Nat
    BY <1>1, <1>2
  \* Afterwards neither the field nor what its condition reads changes.
  <1> DEFINE Fixed(x, y, col) == (col \in DOMAIN x <=> col \in DOMAIN y) /\ (col \in DOMAIN x => x[col] = y[col])
             U == {n \in Nat : \A m \in i .. N : m = i + n =>
                      Fixed(d[m], d[i], f.col) /\ \A col \in R!ColumnsIn(c) : Fixed(d[m], d[i-1], col)}
  <1>7. \A col \in R!ColumnsIn(c) : col # f.col
    <2>1. i \in {j \in i .. Len(entity.fields) : entity.fields[j].stamp # {}}
      BY <1>1
    <2>2. f.col \in Later(i)
      BY <2>1 DEF Later
    <2> QED
      BY <2>2
  <1>8. 0 \in U
    <2>1. \A col \in R!ColumnsIn(c) : Fixed(d[i], d[i-1], col)
      <3>1. Turned(d[i-1], d[i], f)
        BY <1>6, StampIs
      <3> QED
        BY <1>7, <3>1 DEF Turned
    <2> QED
      BY <2>1
  <1>9. ASSUME NEW n \in Nat, n \in U PROVE n + 1 \in U
    <2> SUFFICES ASSUME NEW m \in i .. N, m = i + (n + 1)
                 PROVE  Fixed(d[m], d[i], f.col) /\ \A col \in R!ColumnsIn(c) : Fixed(d[m], d[i-1], col)
      OBVIOUS
    <2>1. m - 1 \in i .. N /\ m - 1 = i + n /\ m \in 1 .. N /\ m # i
      BY <1>1
    <2>2. /\ Fixed(d[m-1], d[i], f.col)
          /\ \A col \in R!ColumnsIn(c) : Fixed(d[m-1], d[i-1], col)
      BY <1>9, <2>1
    <2> DEFINE g == entity.fields[m]
    <2>3. Turned(d[m-1], d[m], g)
      <3>1. d[m] = R!Stamp(old, d[m-1], g)
        BY <1>2, <2>1
      <3> QED
        BY <3>1, StampIs
    <2>4. g.col # f.col
      BY <1>1, <2>1 DEF R!RulesAssumption
    <2>5. g.stamp # {} => \A col \in R!ColumnsIn(c) : col # g.col
      BY <1>1, <2>1 DEF Later
    <2>6. Fixed(d[m], d[m-1], f.col) /\ \A col \in R!ColumnsIn(c) : Fixed(d[m], d[m-1], col)
      <3> HIDE DEF f, g
      <3> QED
        BY <2>3, <2>4, <2>5 DEF Turned
    <2> QED
      BY <2>2, <2>6
  <1>10. Fixed(d[N], d[i], f.col) /\ \A col \in R!ColumnsIn(c) : Fixed(d[N], d[i-1], col)
    <2>1. N - i \in U
      <3> HIDE DEF U
      <3> QED
        BY <1>1, <1>8, <1>9, AllNumbers, N - i \in Nat
    <2>2. \A m \in i .. N : m = i + (N - i) =>
             Fixed(d[m], d[i], f.col) /\ \A col \in R!ColumnsIn(c) : Fixed(d[m], d[i-1], col)
      BY <2>1
    <2> QED
      <3>1. N \in i .. N /\ N = i + (N - i)
        BY <1>1
      <3> HIDE DEF Fixed
      <3> QED
        BY <2>2, <3>1
  \* Hence the turn saw the condition as it is at the end.
  <1>11. \A col \in R!ColumnsIn(c) : At(R!Over(d[N], old), col) = At(R!Over(d[i-1], old), col)
    BY <1>10 DEF At, R!Over
  <1>12. R!Holds(c, R!Over(d[N], old)) <=> R!Holds(c, R!Over(d[i-1], old))
    BY <1>1, <1>11, EvalReads
  <1> DEFINE heard == R!ColumnsIn(c) \cap DOMAIN d[N] # {}
             after == R!Holds(c, R!Over(d[N], old))
             prev == old # R!NoRow /\ R!Holds(c, old)
  <1>13. {x \in f.stamp : R!ColumnsIn(x) \cap DOMAIN d[i-1] # {}} = IF heard THEN {c} ELSE {}
    BY <1>1, <1>10
  <1>14. R!StampValue(f) # R!Null
    BY DEF R!StampValue, R!V, R!Null
  <1>15. /\ ~heard \/ (after <=> prev) => f.col \notin DOMAIN d[i]
         /\ heard /\ after /\ ~prev => f.col \in DOMAIN d[i] /\ d[i][f.col] # R!Null
         /\ heard /\ ~after /\ prev => f.col \in DOMAIN d[i] /\ d[i][f.col] = R!Null
    <2> HIDE DEF f
    <2>1. CASE ~heard
      <3>1. d[i] = d[i-1]
        BY <1>6, <1>13, <2>1 DEF R!Stamp
      <3> QED
        BY <1>5, <2>1, <3>1
    <2>2. CASE heard
      <3>1. d[i] = IF after <=> prev THEN d[i-1]
                   ELSE [x \in DOMAIN d[i-1] \cup {f.col} |->
                            IF x = f.col THEN IF after THEN R!StampValue(f) ELSE R!Null ELSE d[i-1][x]]
        <4> DEFINE due == {x \in f.stamp : R!ColumnsIn(x) \cap DOMAIN d[i-1] # {}}
                   then == \A x \in due : R!Holds(x, R!Over(d[i-1], old))
                   was == old # R!NoRow /\ \A x \in due : R!Holds(x, old)
        <4>1. d[i] = IF due = {} \/ then = was THEN d[i-1]
                     ELSE [x \in DOMAIN d[i-1] \cup {f.col} |->
                              IF x = f.col THEN IF then THEN R!StampValue(f) ELSE R!Null ELSE d[i-1][x]]
          BY <1>6 DEF R!Stamp, R!Merged
        <4>2. due = {c}
          BY <1>13, <2>2
        <4>3. (then <=> after) /\ (was <=> prev)
          BY <4>2, <1>12
        <4>4. then \in BOOLEAN /\ was \in BOOLEAN
          OBVIOUS
        <4> HIDE DEF due, then, was, after, prev
        <4>5. (then = was) <=> (after <=> prev)
          BY <4>3, <4>4
        <4> QED
          BY <4>1, <4>2, <4>3, <4>5
      <3> HIDE DEF after, prev
      <3> QED
        BY <1>5, <1>14, <2>2, <3>1
    <2> QED
      BY <2>1, <2>2
  <1> QED
    BY <1>2, <1>10, <1>15

-----------------------------------------------------------------------------
\* The row has the columns of its entity.
RowInv ==
    /\ entity \in Entities
    /\ row = R!NoRow \/ DOMAIN row = R!Columns

\* An entity's field is known by its column.
LEMMA FieldOf ==
  ASSUME R!RulesAssumption, entity \in Entities, NEW i \in DOMAIN entity.fields
  PROVE  R!Field(entity, entity.fields[i].col) = entity.fields[i] /\ entity.fields[i].col \in R!Columns
  BY DEF R!RulesAssumption, R!Field, R!Columns

\* What a client sends has columns of the entity, and no stamp among them.
LEMMA InputIs ==
  ASSUME R!RulesAssumption, entity \in Entities, NEW body, NEW role, NEW update
  PROVE  /\ DOMAIN R!Input(body, role, update) \subseteq R!Columns
         /\ \A i \in DOMAIN entity.fields :
               entity.fields[i].stamp # {} => entity.fields[i].col \notin DOMAIN R!Input(body, role, update)
  BY FieldOf DEF R!Input, R!StripServerManaged, R!Restricted

\* Every request leaves the columns as they are.
LEMMA StepRowInv ==
  ASSUME R!RulesAssumption, RowInv, [R!Next]_ruleVars
  PROVE  RowInv'
  <1>1. ASSUME NEW values, NEW op, NEW filled, R!Save(op, values, filled), DOMAIN values = R!Columns
        PROVE  RowInv'
    BY <1>1 DEF R!Save, RowInv, R!Columns
  <1>2. ASSUME NEW op, R!Refuse(op) PROVE RowInv'
    BY <1>2 DEF R!Refuse, RowInv, R!Columns
  <1>3. ASSUME NEW op, NEW data, R!Insert(op, data) PROVE RowInv'
    BY <1>1, <1>2, <1>3 DEF R!Insert
  <1>4. ASSUME NEW data, DOMAIN data \subseteq R!Columns, DOMAIN row = R!Columns
        PROVE  DOMAIN R!Over(data, row) = R!Columns
    BY <1>4 DEF R!Over
  <1>5. ASSUME NEW op \in {"create", "upsert"}, NEW body \in Bodies, NEW role \in Roles, R!Create(op, body, role)
        PROVE  RowInv'
    <2> DEFINE data == R!Input(body, role, FALSE)
               stamped == R!Stamped(R!NoRow, data)
    <2>1. DOMAIN stamped \subseteq R!Columns
      BY InputIs, StampedColumns DEF RowInv
    <2>2. \/ R!Refuse(op)
          \/ R!Insert(op, stamped)
          \/ row # R!NoRow /\ R!Overwrite(stamped)
      BY <1>5 DEF R!Create
    <2> HIDE DEF stamped
    <2>3. CASE row # R!NoRow /\ R!Overwrite(stamped)
      <3> DEFINE update == R!Restricted(R!StripServerManaged(stamped, TRUE), R!Columns \ entity.key)
      <3>1. DOMAIN update \subseteq R!Columns
        BY <2>1 DEF R!Restricted, R!StripServerManaged
      <3>2. R!Save("upsert", R!Over(update, row), {})
        BY <2>3 DEF R!Overwrite
      <3> HIDE DEF update
      <3> QED
        BY <1>1, <1>4, <2>3, <3>1, <3>2 DEF RowInv
    <2> QED
      BY <1>2, <1>3, <2>2, <2>3
  <1>6. ASSUME NEW op \in {"patch", "put"}, NEW body \in Bodies, NEW role \in Roles, R!Update(op, body, role)
        PROVE  RowInv'
    <2> DEFINE input == R!Input(body, role, TRUE)
               data == IF op = "put" THEN R!FillReplaceDefaults(input, role) ELSE input
               stamped == R!Stamped(row, data)
    <2>1. DOMAIN data \subseteq R!Columns
      BY InputIs DEF R!FillReplaceDefaults, R!Over, RowInv
    <2> HIDE DEF data
    <2>2. DOMAIN stamped \subseteq R!Columns
      BY <2>1, StampedColumns DEF RowInv
    <2>3. row # R!NoRow /\ (R!Refuse(op) \/ R!Save(op, R!Over(stamped, row), {}))
      BY <1>6 DEF R!Update, data
    <2> HIDE DEF stamped
    <2> QED
      BY <1>1, <1>2, <1>4, <2>2, <2>3 DEF RowInv
  <1>7. CASE R!Delete
    BY <1>7 DEF R!Delete, R!Save, RowInv, R!Columns
  <1>8. CASE R!Tick \/ UNCHANGED ruleVars
    BY <1>8 DEF R!Tick, ruleVars, RowInv, R!Columns
  <1> QED
    BY <1>5, <1>6, <1>7, <1>8 DEF R!Next

\* A row is stored with what its rules and stamps were judged by, as far as the request could
\* know: a column the change leaves to the database holds null, or is among those it filled in.
Stores(s, values, filled) ==
    /\ DOMAIN s \subseteq DOMAIN values /\ DOMAIN values = R!Columns
    /\ \A col \in DOMAIN s : values[col] = s[col]
    /\ \A col \in R!Columns \ DOMAIN s : values[col] = R!Null \/ col \in filled

\* A create: the rules have seen the row, and a stamp is there just where its condition holds.
LEMMA CreateObeys ==
  ASSUME R!RulesAssumption, RowInv, NEW body, NEW role, R!Create("create", body, role)
  PROVE  R!RulesHold /\ R!StampsFollow
  <1> DEFINE data == R!Input(body, role, FALSE)
             s == R!Stamped(R!NoRow, data)
  <1> SUFFICES ASSUME last'.ok, row' # row PROVE R!RulesHold /\ R!StampsFollow
    BY DEF R!RulesHold, R!StampsFollow
  <1>1. DOMAIN data \subseteq R!Columns /\ DOMAIN s \subseteq R!Columns
    BY InputIs, StampedColumns DEF RowInv
  <1>2. row = R!NoRow /\ ~R!Broken(s) /\ R!Insert("create", s)
    BY DEF R!Create, R!Refuse
  <1>3. entity' = entity /\ now' = now /\ Stores(s, row', last'.filled)
    <2> HIDE DEF s
    <2> QED
      BY <1>1, <1>2 DEF R!Insert, R!Refuse, R!Save, Stores
  <1>4. ASSUME NEW c, R!OperandsKnown(c), R!ColumnsIn(c) \cap last'.filled = {}
        PROVE  R!Eval(c, row') = R!Eval(c, s) /\ (R!Holds(c, row') <=> R!Holds(c, s))
    <2>1. \A col \in R!ColumnsIn(c) : At(row', col) = At(s, col)
      <3> HIDE DEF s
      <3> QED
        BY <1>3, <1>4 DEF Stores, At
    <2> HIDE DEF s
    <2> QED
      BY <1>4, <2>1, EvalReads
  <1>5. R!RulesHold
    <2> SUFFICES ASSUME NEW i \in DOMAIN entity.rules, R!ColumnsIn(entity.rules[i]) \cap last'.filled = {}
                 PROVE  R!Eval(entity.rules[i], row') # {FALSE}
      BY DEF R!RulesHold
    <2>1. R!OperandsKnown(entity.rules[i])
      BY DEF R!RulesAssumption, RowInv
    <2>2. R!Eval(entity.rules[i], s) # {FALSE}
      BY <1>2 DEF R!Broken
    <2> QED
      BY <1>4, <2>1, <2>2
  <1>6. ASSUME NEW i \in DOMAIN entity.fields, R!Plain(i)', R!InStep(i) PROVE R!InStep(i)'
    <2> DEFINE f == entity.fields[i]
    <2> SUFFICES ASSUME NEW c \in f.stamp PROVE R!Holds(c, row') <=> row'[f.col] # R!Null
      <3>1. \A c \in f.stamp : R!Holds(c, row)' <=> R!Holds(c, row')
        BY <1>3, EvalAfter
      <3>2. row' # R!NoRow
        BY <1>2
      <3> QED
        BY <1>3, <3>1, <3>2 DEF R!InStep
    <2>1. /\ f.col \notin last'.filled /\ f.col \in R!Columns
          /\ R!ColumnsIn(c) \cap Later(i) = {} /\ R!ColumnsIn(c) \cap last'.filled = {}
      BY <1>3, <1>6, FieldOf DEF R!Plain, Later, RowInv
    <2>2. R!OperandsKnown(c) /\ f.stamp # {}
      BY DEF R!RulesAssumption, RowInv
    <2>3. f.col \notin DOMAIN data
      BY <2>2, InputIs DEF RowInv
    <2>4. ~R!Holds(c, R!NoRow)
      BY <1>2, <1>6 DEF R!InStep
    <2>5. R!Holds(c, row') <=> R!Holds(c, s)
      BY <1>4, <2>1, <2>2
    <2> DEFINE heard == R!ColumnsIn(c) \cap DOMAIN s # {}
               after == R!Holds(c, R!Over(s, R!NoRow))
    <2>6. /\ ~heard \/ ~after => f.col \notin DOMAIN s
          /\ heard /\ after => f.col \in DOMAIN s /\ s[f.col] # R!Null
      BY <2>1, <2>3, StampedField DEF RowInv
    <2> HIDE DEF s
    <2>7. after <=> R!Holds(c, s)
      <3>1. \A col \in R!ColumnsIn(c) : At(R!Over(s, R!NoRow), col) = At(s, col)
        BY DEF At, R!Over, R!NoRow
      <3> QED
        BY <2>2, <3>1, EvalReads
    <2>8. ~heard => ~R!Holds(c, s)
      <3> SUFFICES ASSUME ~heard PROVE ~R!Holds(c, s)
        OBVIOUS
      <3>1. \A col \in R!ColumnsIn(c) : At(s, col) = At(R!NoRow, col)
        BY DEF At, R!NoRow
      <3> QED
        BY <2>2, <2>4, <3>1, EvalReads
    <2>9. IF f.col \in DOMAIN s THEN row'[f.col] = s[f.col] ELSE row'[f.col] = R!Null
      BY <1>3, <2>1 DEF Stores
    <2> HIDE DEF heard, after
    <2> QED
      BY <2>5, <2>6, <2>7, <2>8, <2>9
  <1>7. R!StampsFollow
    BY <1>2, <1>6 DEF R!StampsFollow
  <1> QED
    BY <1>5, <1>7

\* A change of a row: the rules have seen the row as stored, and a PATCH touches a stamp just
\* when its condition turns.
LEMMA UpdateObeys ==
  ASSUME R!RulesAssumption, RowInv, NEW op \in {"patch", "put"}, NEW body, NEW role, R!Update(op, body, role)
  PROVE  R!RulesHold /\ R!StampsFollow
  <1> DEFINE input == R!Input(body, role, TRUE)
             data == IF op = "put" THEN R!FillReplaceDefaults(input, role) ELSE input
             s == R!Stamped(row, data)
  <1> SUFFICES ASSUME last'.ok, row' # row PROVE R!RulesHold /\ R!StampsFollow
    BY DEF R!RulesHold, R!StampsFollow
  <1>1. /\ row # R!NoRow /\ ~R!Broken(R!Over(s, row)) /\ row' = R!Over(s, row) /\ last'.op = op
        /\ entity' = entity /\ now' = now
    <2>1. row # R!NoRow /\ ~R!Broken(R!Merged(row, s)) /\ R!Save(op, R!Over(s, row), {})
      BY DEF R!Update, R!Refuse
    <2> HIDE DEF s
    <2> QED
      BY <2>1 DEF R!Save, R!Merged
  <1> HIDE DEF s
  <1>2. R!RulesHold
    BY <1>1 DEF R!RulesHold, R!Broken
  <1>3. ASSUME op = "patch", NEW i \in DOMAIN entity.fields, R!Plain(i)', R!InStep(i)
        PROVE  /\ R!InStep(i)'
               /\ (\A c \in entity.fields[i].stamp : R!Holds(c, row) /\ R!Holds(c, row')) /\ entity.fields[i].stamp # {}
                     => row'[entity.fields[i].col] = row[entity.fields[i].col]
    <2> DEFINE f == entity.fields[i]
    <2>1. DOMAIN row = R!Columns /\ f.col \in R!Columns
      BY <1>1, FieldOf DEF RowInv
    <2>2. row'[f.col] = IF f.col \in DOMAIN s THEN s[f.col] ELSE row[f.col]
      BY <1>1, <2>1 DEF R!Over
    <2>3. row' # R!NoRow
      <3>1. f.col \in DOMAIN row'
        BY <1>1, <2>1 DEF R!Over
      <3> QED
        BY <3>1 DEF R!NoRow
    <2>4. ASSUME NEW c \in f.stamp
          PROVE  /\ R!Holds(c, row') <=> row'[f.col] # R!Null
                 /\ R!Holds(c, row) /\ R!Holds(c, row') => row'[f.col] = row[f.col]
      <3>1. R!ColumnsIn(c) \cap Later(i) = {}
        BY <1>1, <1>3, <2>4 DEF R!Plain, Later
      <3>2. R!OperandsKnown(c) /\ f.stamp # {}
        BY <2>4 DEF R!RulesAssumption, RowInv
      <3>3. f.col \notin DOMAIN data
        BY <1>3, <3>2, InputIs DEF RowInv
      <3>4. R!Holds(c, row) <=> row[f.col] # R!Null
        BY <1>1, <1>3, <2>4 DEF R!InStep
      <3> DEFINE heard == R!ColumnsIn(c) \cap DOMAIN s # {}
                 after == R!Holds(c, row')
                 prev == R!Holds(c, row)
      <3>5. /\ ~heard \/ (after <=> prev) => f.col \notin DOMAIN s
            /\ heard /\ after /\ ~prev => f.col \in DOMAIN s /\ s[f.col] # R!Null
            /\ heard /\ ~after /\ prev => f.col \in DOMAIN s /\ s[f.col] = R!Null
        <4> DEFINE kept == R!Holds(c, R!Over(s, row))
                   was == row # R!NoRow /\ R!Holds(c, row)
        <4>1. s = R!Stamped(row, data)
          BY DEF s
        <4> HIDE DEF data
        <4>2. /\ ~heard \/ (kept <=> was) => f.col \notin DOMAIN s
              /\ heard /\ kept /\ ~was => f.col \in DOMAIN s /\ s[f.col] # R!Null
              /\ heard /\ ~kept /\ was => f.col \in DOMAIN s /\ s[f.col] = R!Null
          BY <2>4, <3>1, <3>3, <4>1, StampedField DEF RowInv
        <4>3. (kept <=> after) /\ (was <=> prev)
          BY <1>1
        <4> QED
          BY <4>2, <4>3
      <3>6. ~heard => (after <=> prev)
        <4> SUFFICES ASSUME ~heard PROVE after <=> prev
          OBVIOUS
        <4>1. \A col \in R!ColumnsIn(c) : At(row', col) = At(row, col)
          BY <1>1 DEF At, R!Over
        <4> QED
          BY <3>2, <4>1, EvalReads
      <3> HIDE DEF heard, after, prev
      <3>7. (after <=> row'[f.col] # R!Null) /\ (prev /\ after => row'[f.col] = row[f.col])
        BY <2>2, <3>4, <3>5, <3>6 DEF prev
      <3> QED
        BY <3>7 DEF after, prev
    <2>5. \A c \in f.stamp : R!Holds(c, row)' <=> R!Holds(c, row')
      BY <1>1, EvalAfter
    <2>6. R!InStep(i)'
      BY <1>1, <2>3, <2>4, <2>5 DEF R!InStep
    <2> QED
      BY <2>4, <2>6
  <1>4. R!StampsFollow
    BY <1>1, <1>3 DEF R!StampsFollow
  <1> QED
    BY <1>2, <1>4

\* Every step of the row obeys: only creates, PATCHes and PUTs are asked to.
LEMMA StepObeys ==
  ASSUME R!RulesAssumption, RowInv, [R!Next]_ruleVars
  PROVE  R!RulesHold /\ R!StampsFollow
  <1> SUFFICES ASSUME last'.ok, last'.op \in {"create", "patch", "put"}, row' # row
               PROVE  R!RulesHold /\ R!StampsFollow
    BY DEF R!RulesHold, R!StampsFollow
  <1>1. CASE R!Delete \/ R!Tick \/ UNCHANGED ruleVars
    BY <1>1 DEF R!Delete, R!Save, R!Tick, ruleVars
  <1>2. ASSUME NEW op \in {"create", "upsert"}, NEW body, NEW role, R!Create(op, body, role)
        PROVE  R!RulesHold /\ R!StampsFollow
    <2>1. \/ R!Refuse(op) \/ \E data : R!Insert(op, data)
          \/ op = "upsert" /\ \E data : R!Overwrite(data)
      BY <1>2 DEF R!Create
    <2>2. last'.op = op
      <3>1. CASE R!Refuse(op)
        BY <3>1 DEF R!Refuse
      <3>2. ASSUME NEW data, R!Insert(op, data) PROVE last'.op = op
        BY <3>1, <3>2 DEF R!Insert, R!Refuse, R!Save
      <3>3. ASSUME NEW data, R!Overwrite(data) PROVE last'.op = "upsert"
        BY <3>3 DEF R!Overwrite, R!Save
      <3> QED
        BY <2>1, <3>1, <3>2, <3>3
    <2> QED
      BY <1>2, <2>2, CreateObeys
  <1>3. ASSUME NEW op \in {"patch", "put"}, NEW body, NEW role, R!Update(op, body, role)
        PROVE  R!RulesHold /\ R!StampsFollow
    BY <1>3, UpdateObeys
  <1> QED
    BY <1>1, <1>2, <1>3 DEF R!Next

\* The composition keeps the row's columns while rules are on.
RulesComposed == last # Off => RowInv

LEMMA RulesComposedStep == RulesComposed /\ [InWrite(Next) \/ InRules(R!Next)]_all => RulesComposed'
  <1> SUFFICES ASSUME RulesComposed, [InWrite(Next) \/ InRules(R!Next)]_all PROVE RulesComposed'
    OBVIOUS
  <1>1. CASE UNCHANGED ruleVars
    BY <1>1 DEF RulesComposed, RowInv, ruleVars, R!Columns
  <1>2. CASE InRules(R!Next)
    BY <1>2, StepRowInv, RulesAssumed DEF RulesComposed, InRules
  <1> QED
    BY <1>1, <1>2 DEF InWrite, all

LEMMA RulesComposedInvariant == EntitySpec => []RulesComposed
  <1>1. (Init /\ RulesOff) \/ (WriteOff /\ R!Init) => RulesComposed
    BY DEF RulesOff, R!Init, RulesComposed, RowInv
  <1> QED
    BY <1>1, RulesComposedStep, PTL DEF EntitySpec

\* docs/entities.md: a create, a PATCH or a PUT leaves no rule broken, and a create or a PATCH
\* no stamp out of step with its condition (handler/rules.go: applyRules).
THEOREM RulesAreObeyed == EntitySpec => RowsObey
  <1>1. RulesComposed /\ [InWrite(Next) \/ InRules(R!Next)]_all => [last # Off => R!RulesHold /\ R!StampsFollow]_all
    <2> SUFFICES ASSUME last # Off, RowInv, InWrite(Next) \/ InRules(R!Next)
                 PROVE  R!RulesHold /\ R!StampsFollow
      BY DEF RulesComposed
    <2>1. [R!Next]_ruleVars
      BY DEF InWrite, InRules
    <2> QED
      BY <2>1, StepObeys, RulesAssumed
  <1> QED
    BY <1>1, RulesComposedInvariant, PTL DEF EntitySpec, RowsObey
=============================================================================

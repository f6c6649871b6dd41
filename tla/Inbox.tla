------------------------------- MODULE Inbox -------------------------------
(***************************************************************************)
(* One inbound webhook: the receiver (internal/inbox/receiver.go), the     *)
(* table yaypi_inbox, the replicas' workers (inbox/worker.go) and the rows *)
(* their routes write through Factory.Write (handler/write.go).            *)
(*                                                                         *)
(* A row is claimed by one worker at a time: what Queue shows of the claim *)
(* and its lease is taken for granted here, and so is the isolation of one *)
(* write's transaction (module EntityWrite).                               *)
(***************************************************************************)
EXTENDS Webhook, FiniteSets

CONSTANTS
    WellFormed,   \* events whose values have an unambiguous meaning for the entity's fields
    Defs,         \* name -> definition an operator may write
    Events,       \* provider events; each has one request body
    Sends,        \* name -> the events its provider sends
    Body,         \* event -> decoded body
    Id,           \* event -> its id, as the X-Event-Id header carries it
    Workers,      \* how many rows the replicas' workers can hold together
    MaxAttempts,  \* Policy.MaxAttempts
    Retention,    \* outbox.retention, in ticks
    Skews,        \* by how much the provider's clock may be off
    MaxTime, MaxRows, MaxFaults  \* bounds

VARIABLES
    name,     \* of the webhook this server runs
    hook,     \* the webhook as NewReceiver and NewWorker compile it, with what it makes of each event
    skew,     \* the provider's clock - ours
    mounted,  \* FALSE once the webhook is removed from the configuration
    now,
    inbox,    \* rows of yaypi_inbox in the order they were stored; status "gone" once purged
    acked,    \* events the provider has had a 200 for
    hold,     \* inbox row -> what the worker that holds it has: Free, Started or the result of its write
    table,    \* entity key -> [ver, gone] or NoRow
    effects,  \* history: inbox row -> how often its write took effect
    removed,  \* history: keys a delete took effect on
    faults

ivars == <<name, hook, skew, mounted, now, inbox, acked, hold, table, effects, removed, faults>>

def == Defs[name]
NoRow == [ver |-> 0, gone |-> TRUE]
Free == "free"
Started == "started"

-----------------------------------------------------------------------------
(* Requests. *)

\* Headers and parameters that carry credentials.
Credentials == {"Authorization", "Cookie", "Proxy-Authorization", "X-Api-Key", "X-Token", "token"}

\* The definitions with which the server starts.
Running == {n \in DOMAIN Defs : Valid(Defs[n])}

Signs == Scheme(def) \in Signing
S == hook.scheme
TimeSigned == Signs /\ Stamped(S)

\* A request: the event, when it was signed (0 where no time is), the signature headers, and what
\* it shows to the other guards.
Request(e, ts, signed, token, listed, authed) ==
    [event |-> e, ts |-> ts, signed |-> signed, token |-> token, listed |-> listed, authed |-> authed]

\* The provider signs with the secret -- under Stripe with that of a rotation, too --, shows the
\* token and comes from its own address.
Genuine(e, ts) ==
    LET signed == IF ~Signs THEN <<>>
                  ELSE IF S.name # "stripe" THEN Sign(S, def.secret, e, ts)
                  ELSE Showing(S, {Digest(S, k, ts, e) : k \in {def.secret, "old"}}, ts)
    IN  Request(e, ts, signed, TRUE, TRUE, TRUE)

\* Requests that are not the provider's: a stranger has nothing to show or another key; a body was
\* changed on the way; the time was changed since.
Stray(e, from) ==
    CASE from = "stranger" ->
           {Request(e, now, <<>>, FALSE, FALSE, FALSE)}
           \cup (IF Signs THEN {[Genuine(e, now) EXCEPT !.signed = Sign(S, "other", e, now)]} ELSE {})
      [] from = "altered" /\ Signs -> {[Genuine(o, now) EXCEPT !.event = e] : o \in Sends[name] \ {e}}
      [] from = "retimed" /\ TimeSigned ->
           {[Genuine(e, now) EXCEPT !.signed = Showing(S, {Digest(S, def.secret, now - 1, e)}, now)]}
      [] OTHER -> {}

\* What the paths of a definition see of an event's request; the headers of the provider's
\* requests carry the event's id and a credential.
Flat(texts) == Json("map", [h \in DOMAIN texts |-> Json("text", texts[h])])
Scope(e, headers) == Json("map", "body" :> Body[e] @@ "headers" :> Flat(headers) @@ "query" :> Flat(<<>>))
Headers(e) == "X-Event-Id" :> Id[e] @@ "X-Api-Key" :> "k" @@ "X-Token" :> "t"

\* What is stored of headers and query: no credential.
Strip(texts) == [h \in DOMAIN texts \ Credentials |-> texts[h]]

Received(e, path) == Text(Scope(e, Headers(e)), path)
Rendered(d, e, block) == RenderFields(d, Scope(e, Strip(Headers(e))), block)

-----------------------------------------------------------------------------
(* The receiver. *)

IpAllowed(req) == def.ips => req.listed
TokenOK(req) == def.token # "" => req.token

\* A plugin's verifier knows its provider.
Verified(req) ==
    CASE Scheme(def) = "plugin" -> req.authed
      [] Signs -> Verify(S, def.secret, req.signed, req.event, now) = "ok"
      [] OTHER -> TRUE

\* The type of an event as the column holds it.
Column(type) == IF type \in LongNames THEN "cut" ELSE type

\* Without a dedupe key each request has a key of its own.
DedupeKey(e) == IF def.dedupe = <<>> THEN <<"uuid", Len(inbox) + 1>> ELSE <<"key", hook.dedupe[e]>>

Handshake(e) == def.challenge.method = "POST" /\ hook.type[e] = def.challenge.when

MutDuplicate(e) == \E i \in DOMAIN inbox : inbox[i].status = "pending" /\ inbox[i].key = DedupeKey(e)

\* The unique index on (webhook, dedupe_key).
Duplicate(e) == \E i \in DOMAIN inbox : inbox[i].status # "gone" /\ inbox[i].key = DedupeKey(e)

\* The answer to a POST; the guard auth is middleware in front of the receiver.
Answer(req) ==
    IF def.auth /\ ~req.authed THEN "rejected"
    ELSE IF ~IpAllowed(req) \/ ~TokenOK(req) \/ ~Verified(req) THEN "rejected"
    ELSE IF Handshake(req.event) THEN "challenge"
    ELSE IF DedupeKey(req.event) = <<"key", "">> THEN "rejected"
    ELSE IF Duplicate(req.event) THEN "duplicate" ELSE "accepted"

Stored(req, from) ==
    [event |-> req.event, key |-> DedupeKey(req.event), ts |-> req.ts, from |-> from, created |-> now,
     status |-> "pending", attempts |-> 0, due |-> TRUE]

\* ServeHTTP.  The INSERT or the answer may fail once the row is there (a failure before that leaves
\* nothing behind).
Receive(req, from, lost) ==
    LET answer == Answer(req)
    IN  /\ mounted
        /\ lost => faults < MaxFaults
        /\ answer = "accepted" => Len(inbox) < MaxRows
        /\ faults' = IF lost THEN faults + 1 ELSE faults
        /\ inbox' = IF answer = "accepted" THEN Append(inbox, Stored(req, from)) ELSE inbox
        /\ acked' = IF from = "provider" /\ ~lost /\ answer \in {"accepted", "duplicate", "challenge"}
                    THEN acked \cup {req.event} ELSE acked
        /\ UNCHANGED <<name, hook, skew, mounted, now, hold, table, effects, removed>>

\* The provider sends an event until it is acknowledged, and again when it has lost track.
Send(e, lost) == Receive(Genuine(e, now + skew), "provider", lost)

\* A copy of the request that was stored as row i arrives.
Again(i) ==
    /\ i \in DOMAIN inbox /\ inbox[i].from = "provider"
    /\ Receive(Genuine(inbox[i].event, inbox[i].ts), "provider", FALSE)

\* Bound: while the inbox is empty.
Mistaken(e) ==
    /\ inbox = <<>>
    /\ \E from \in {"stranger", "altered", "retimed"} : \E req \in Stray(e, from) : Receive(req, from, FALSE)

-----------------------------------------------------------------------------
(* The worker. *)

SetRow(i, status, attempts) ==
    inbox' = [inbox EXCEPT ![i].status = status, ![i].attempts = attempts]

Held == {i \in DOMAIN hold : hold[i] # Free}

\* Which worker claims a row makes no difference.
Claim(i) ==
    /\ i \in DOMAIN inbox /\ hold[i] = Free /\ Cardinality(Held) < Workers
    /\ inbox[i].status = "pending" /\ inbox[i].due
    /\ hold' = [hold EXCEPT ![i] = Started]
    /\ inbox' = [inbox EXCEPT ![i].due = FALSE]
    /\ UNCHANGED <<name, hook, skew, mounted, now, acked, table, effects, removed, faults>>

\* The lease of a row nobody holds runs out, or the time of its next attempt has come.
Wake(i) ==
    /\ i \in DOMAIN inbox /\ inbox[i].status = "pending" /\ ~inbox[i].due /\ hold[i] = Free
    /\ inbox' = [inbox EXCEPT ![i].due = TRUE]
    /\ UNCHANGED <<name, hook, skew, mounted, now, acked, hold, table, effects, removed, faults>>

\* Data and key are refused for good when they do not fit the entity.
Unfit(d, data, key) ==
    \/ \E f \in DOMAIN data :
          ~Coerces(d.entity.types[f], data[f]) /\ (data[f].is # "null" \/ f \in d.entity.natural)
    \/ \E f \in DOMAIN key : ~Coerces(d.entity.types[f], key[f])

\* The operation of an event's route, "none" without a route.
Operation(d, type) == IF Routed(d, type) THEN d.routes[RouteOf(d, type)].op ELSE "none"

\* What the worker makes of an event: the operation, and the entity key and the version it writes.
Work(d, e) ==
    LET type == Column(Received(e, d.event))
        op == Operation(d, type)
        route == d.routes[RouteOf(d, type)]
        data == Rendered(d, e, route.map)
        key == Rendered(d, e, route.key)
        target == IF DOMAIN key = {} THEN data ELSE key
        written == op \notin {"none", "handler"}
        fit == written => ~Unfit(d, data, key)
    IN  [op |-> op, fit |-> fit,
         key |-> IF written /\ fit THEN Plain(target["ref"]) ELSE "",
         ver |-> IF written /\ fit /\ DOMAIN data # {} THEN Numeral[Plain(data["ver"])] ELSE 0]

WorkOn(i) == hook.work[inbox[i].event]

MutNewer(ver, row) == TRUE

\* stale_guard: the stored value is older.
Newer(ver, row) == def.entity.guard => row.ver < ver

\* What a write finds: an upsert or create also meets a soft-deleted row.
Outcome(op, ver, row) ==
    CASE op = "create" /\ row # NoRow /\ def.entity.natural # {} -> "conflict"
      [] op = "update" /\ row.gone -> "not found"
      [] op = "delete" /\ row.gone -> "unchanged"
      [] op = "upsert" /\ row # NoRow /\ ~Newer(ver, row) -> "unchanged"
      [] OTHER -> "written"

\* The row a write leaves.
After(op, ver, row) ==
    IF op # "delete" THEN [ver |-> ver, gone |-> FALSE]
    ELSE IF def.entity.soft THEN [row EXCEPT !.gone = TRUE] ELSE NoRow

\* One write, in one transaction.
Write(i, op, k, ver) ==
    LET outcome == Outcome(op, ver, table[k])
        written == outcome = "written"
    IN  /\ hold' = [hold EXCEPT ![i] = outcome]
        /\ table' = IF written THEN [table EXCEPT ![k] = After(op, ver, @)] ELSE table
        /\ effects' = IF written THEN [effects EXCEPT ![i] = @ + 1] ELSE effects
        /\ removed' = IF written /\ op = "delete" THEN removed \cup {k} ELSE removed

\* The results of an event that no write is tried for.
Unwritten(work) ==
    IF ~mounted THEN {"removed"}
    ELSE IF work.op = "none" THEN {"ignored"}
    ELSE IF work.op = "handler" THEN {"handled", "failed", "permanent"}
    ELSE IF ~Authorized(def, work.op) THEN {"denied"}
    ELSE IF ~work.fit THEN {"invalid"} ELSE {}

\* The policy engine is asked, and may not answer.
Unsure(work) == mounted /\ work.op \notin {"none", "handler"} /\ Asked(def)

\* process: the route, the plugin's handler, or as_role's grants and the write.
Process(i) ==
    /\ hold[i] = Started
    /\ LET work == WorkOn(i)
           results == Unwritten(work) \cup (IF Unsure(work) THEN {"unsure"} ELSE {})
       IN  \/ Unwritten(work) = {} /\ Write(i, work.op, work.key, work.ver)
           \/ /\ \E r \in results : hold' = [hold EXCEPT ![i] = r]
              /\ UNCHANGED <<table, effects, removed>>
    /\ UNCHANGED <<name, hook, skew, mounted, now, inbox, acked, faults>>

Succeeded(result) == result \in {"written", "unchanged", "handled", "ignored"}

MutPermanent(result) == result \in {"invalid", "denied", "permanent", "removed", "not found"}

\* A write that can never succeed; an update whose row is not there yet may.
Permanent(result) == result \in {"invalid", "denied", "permanent", "removed"}

MutRecord(i) ==
    LET attempts == inbox[i].attempts + 1
    IN  /\ hold[i] \notin {Free, Started}
        /\ IF Succeeded(hold[i]) THEN SetRow(i, "done", attempts)
           ELSE IF Permanent(hold[i]) \/ attempts >= MaxAttempts THEN SetRow(i, "dead", attempts)
           ELSE SetRow(i, "pending", inbox[i].attempts)
        /\ hold' = [hold EXCEPT ![i] = Free]
        /\ UNCHANGED <<name, hook, skew, mounted, now, acked, table, effects, removed, faults>>

\* processAndRecord's end: Done or Fail.
Record(i) ==
    LET attempts == inbox[i].attempts + 1
    IN  /\ hold[i] \notin {Free, Started}
        /\ IF Succeeded(hold[i]) THEN SetRow(i, "done", attempts)
           ELSE IF Permanent(hold[i]) \/ attempts >= MaxAttempts THEN SetRow(i, "dead", attempts)
           ELSE SetRow(i, "pending", attempts)
        /\ hold' = [hold EXCEPT ![i] = Free]
        /\ UNCHANGED <<name, hook, skew, mounted, now, acked, table, effects, removed, faults>>

\* The replica dies, the handler's time runs out, or the statement that records fails.  (Bound:
\* MaxFaults.  A handler whose time always runs out is not counted: module Delivery shows that.)
Halt(i) ==
    /\ hold[i] # Free /\ faults < MaxFaults
    /\ hold' = [hold EXCEPT ![i] = Free]
    /\ faults' = faults + 1
    /\ UNCHANGED <<name, hook, skew, mounted, now, inbox, acked, table, effects, removed>>

\* Done rows go once they are older than the retention, and with them their dedupe key.
Purge(i) ==
    /\ i \in DOMAIN inbox /\ inbox[i].status = "done" /\ inbox[i].created < now - Retention
    /\ inbox' = [inbox EXCEPT ![i].status = "gone"]
    /\ UNCHANGED <<name, hook, skew, mounted, now, acked, hold, table, effects, removed, faults>>

\* A restart with a configuration that no longer has the webhook.
Unmount ==
    /\ mounted /\ faults < MaxFaults
    /\ mounted' = FALSE /\ faults' = faults + 1
    /\ UNCHANGED <<name, hook, skew, now, inbox, acked, hold, table, effects, removed>>

Tick ==
    /\ now < MaxTime
    /\ now' = now + 1
    /\ UNCHANGED <<name, hook, skew, mounted, inbox, acked, hold, table, effects, removed, faults>>

-----------------------------------------------------------------------------
Compiled(d) ==
    [scheme |-> IF Scheme(d) \in Signing THEN Resolve(d.sig, d.secret) ELSE NoSignature,
     type |-> [e \in Events |-> Received(e, d.event)],
     dedupe |-> [e \in Events |-> Received(e, d.dedupe)],
     work |-> [e \in Events |-> Work(d, e)]]

EntityKeys == {hook.work[e].key : e \in Events}

-----------------------------------------------------------------------------
\* What the settings of a signature come to; validation asks for none of it.  The signed text has
\* the body in it.
SignsBody(s) ==
    \E i \in DOMAIN s.payload : s.payload[i] = "{body}" /\ \A j \in 1 .. i - 1 : s.payload[j] # "{body}"

\* It has the time in it.
SignsTime(s) == \E i \in DOMAIN s.payload : s.payload[i] = "{timestamp}"

\* Signature and time have a header each, the clocks are within the tolerance, and without a header
\* for the time there is none in the signed text.
Agrees(s) ==
    /\ s.header # s.timestamp
    /\ IF Stamped(s) THEN Skews \subseteq -s.tolerance .. s.tolerance ELSE ~SignsTime(s)

\* A row is kept until its request is too old to be accepted again.
Outlived(s) == 2 * s.tolerance <= Retention

\* A template of a map reads a header or parameter that is not stored.
ReadsCredential(d) ==
    \E t \in DOMAIN d.routes : \E path \in TemplatePaths(d.routes[t].map) : Len(path) = 2 /\ path[2] \in Credentials

ASSUME InboxAssumption ==
    /\ MaxRows \in Nat /\ MaxAttempts \in Nat /\ Retention \in Nat /\ Skews \subseteq Int
    /\ \A k \in Skews : Missing < k
    /\ \A n \in Running : Sends[n] \subseteq Events

\* The key of a stranger is not the provider's; a duration is not negative (config/duration.go).
ASSUME SecretAssumption == \A n \in Running : Defs[n].secret # "other" /\ Defs[n].sig.tolerance \in Nat

\* Versions are numbers; WellFormed is what it says.
ASSUME WorkAssumption ==
    \A n \in Running : \A e \in Events :
        LET work == Work(Defs[n], e)
        IN  work.ver \in Nat /\ (e \in WellFormed => work.fit \/ ReadsCredential(Defs[n]))

-----------------------------------------------------------------------------

Init ==
    /\ name \in Running /\ hook = Compiled(def) /\ skew \in IF TimeSigned THEN Skews ELSE {0}
    /\ mounted = TRUE /\ now = 0
    /\ inbox = <<>> /\ acked = {}
    /\ hold = [i \in 1 .. MaxRows |-> Free]
    /\ table = [k \in EntityKeys |-> NoRow]
    /\ effects = [i \in 1 .. MaxRows |-> 0]
    /\ removed = {} /\ faults = 0

Next ==
    \/ \E e \in Sends[name] : (\E lost \in BOOLEAN : Send(e, lost)) \/ Mistaken(e)
    \/ \E i \in 1 .. MaxRows : Again(i) \/ Claim(i) \/ Wake(i) \/ Process(i) \/ Record(i) \/ Halt(i) \/ Purge(i)
    \/ Unmount \/ Tick

\* The workers' loops and the clock go on.
Fairness ==
    \A i \in 1 .. MaxRows : WF_ivars(Claim(i)) /\ WF_ivars(Wake(i)) /\ WF_ivars(Process(i)) /\ WF_ivars(Record(i))

Spec == Init /\ [][Next]_ivars /\ Fairness

-----------------------------------------------------------------------------
TypeOK ==
    /\ name \in DOMAIN Defs /\ mounted \in BOOLEAN /\ now \in 0 .. MaxTime /\ faults \in 0 .. MaxFaults
    /\ \A i \in DOMAIN inbox :
          /\ inbox[i].status \in {"pending", "done", "dead", "gone"} /\ inbox[i].attempts \in 0 .. MaxAttempts
    /\ Cardinality(Held) <= Workers
    /\ \A i \in Held : i \in DOMAIN inbox /\ inbox[i].status = "pending"
    /\ \A k \in EntityKeys : table[k].ver \in {0} \cup {Numeral[n] : n \in Numbers}

\* docs/webhooks.md: "Every receiver must say how it is protected; the server refuses to start
\* otherwise": with any definition that passes validation, a request with nothing to show for
\* itself, or with another key, is not stored; nor is one whose body or time was changed, unless
\* the definition's signed_payload leaves body or time out (validation does not look at it).
OnlyAuthentic ==
    \A i \in DOMAIN inbox :
        \/ inbox[i].from = "provider"
        \/ inbox[i].from = "altered" /\ ~SignsBody(S)
        \/ inbox[i].from = "retimed" /\ ~SignsTime(S)

\* A request the provider sends now is not refused, whatever the scheme, its overrides, a secret
\* being rotated or a clock off by less than the tolerance (Sign and Verify agree, as
\* docs/webhooks.md says of two yayPi services) -- unless header and timestamp_header are one, or
\* signed_payload names a time that no header carries, which validation lets pass.
GenuineAccepted ==
    (Signs => Agrees(S)) =>
        \A e \in Sends[name] : Answer(Genuine(e, now + skew)) = "rejected" => DedupeKey(e) = <<"key", "">>

\* With a dedupe key an event is stored once per retention; and one and the same request, which
\* may arrive any number of times, is stored once for good if its signature carries its time and
\* the tolerance runs out before the row is purged.
StoredOnce ==
    def.dedupe # <<>> =>
        \A i, j \in DOMAIN inbox :
            (i < j /\ inbox[i].event = inbox[j].event) =>
                /\ inbox[j].created > inbox[i].created + Retention
                /\ TimeSigned /\ Outlived(S) => inbox[i].ts # inbox[j].ts

\* An event's create takes effect once, though the provider repeats it and workers die between
\* the write and its record -- on an entity with a natural key, unless the row was deleted since.
CreatedOnce ==
    def.entity.natural # {} =>
        \A i, j \in DOMAIN inbox :
            (/\ inbox[i].event = inbox[j].event /\ WorkOn(i).op = "create"
             /\ effects[i] > 0 /\ WorkOn(i).key \notin removed)
                => effects[i] = 1 /\ (j # i => effects[j] = 0)

\* receiver.go, worker.go: a repeated delivery is neither stored nor carried out a second time.
OncePerEvent == StoredOnce /\ CreatedOnce

\* With stale_guard, a processed upsert is never undone by an older one, however late that comes
\* and however often either is retried (routes that only upsert).
Converges ==
    (def.entity.guard /\ \A t \in DOMAIN def.routes : def.routes[t].op \in {"upsert", "handler"}) =>
        \A i \in DOMAIN inbox :
            (WorkOn(i).op = "upsert" /\ effects[i] > 0) => table[WorkOn(i).key].ver >= WorkOn(i).ver

\* No event is given up while trying again could help: it is dead after max_attempts, or for a
\* reason of its own (docs/webhooks.md: update is "retried if it doesn't exist yet").
DeadForReason ==
    \A i \in DOMAIN inbox :
        inbox[i].status = "dead" =>
            \/ inbox[i].attempts >= MaxAttempts \/ ~mounted
            \/ WorkOn(i).op = "handler" \/ ~Authorized(def, WorkOn(i).op)
            \/ inbox[i].event \notin WellFormed
            \/ ReadsCredential(def)

\* as_role: what the webhook wrote, that role may do -- create and update for an upsert; if there
\* is a policy engine to ask.
Granted(op) ==
    IF op = "upsert" THEN {<<def.role, "create">>, <<def.role, "update">>} \subseteq Grants ELSE <<def.role, op>> \in Grants
WithinGrants == (def.role # "" /\ def.enforcer) => \A i \in DOMAIN inbox : effects[i] > 0 => Granted(WorkOn(i).op)

\* validate_webhooks.go, receiver.go: a receiver lets in what its definition says, all of it and
\* nothing else, and what comes of it is within its role; the settings of a definition that leave
\* a part of this open are named above.
GuardsHold == OnlyAuthentic /\ GenuineAccepted /\ WithinGrants

\* What was acknowledged is processed or given up in the end, once handlers have stopped running out
\* of time (not: forgotten, or retried for ever).
AcknowledgedSettles ==
    \A e \in Events :
        (e \in acked /\ ~Handshake(e)) ~>
            (\E i \in DOMAIN inbox : inbox[i].event = e /\ inbox[i].status # "pending")
=============================================================================

---------------------------- MODULE InboxProofs ----------------------------
(***************************************************************************)
(* Proofs about module Inbox, for every definition, any number of events,  *)
(* rows and faults: what is stored came from the provider, as far as its   *)
(* signature covers it, and comes once, and what comes of it is neither    *)
(* repeated, undone nor given up early.                                    *)
(***************************************************************************)
EXTENDS Inbox, SequenceTheorems, TLAPS

DedupeKeys == ({"uuid"} \X Nat) \cup ({"key"} \X {hook.dedupe[e] : e \in Events})

Origins == {"provider", "stranger", "altered", "retimed"}

InboxRows ==
    [event : Events, key : DedupeKeys, ts : Int, from : Origins, created : Nat,
     status : {"pending", "done", "dead", "gone"}, attempts : Nat, due : BOOLEAN]

\* What a worker holds of a row.
Results ==
    {Free, Started, "removed", "denied", "invalid", "permanent", "failed", "unsure", "conflict", "not found",
     "ignored", "handled", "unchanged", "written"}

Types ==
    /\ name \in Running /\ hook = Compiled(def) /\ skew \in IF TimeSigned THEN Skews ELSE {0}
    /\ mounted \in BOOLEAN /\ now \in Nat
    /\ inbox \in Seq(InboxRows) /\ Len(inbox) <= MaxRows
    /\ hold \in [1 .. MaxRows -> Results]
    /\ table \in [EntityKeys -> [ver : Nat, gone : BOOLEAN]]
    /\ effects \in [1 .. MaxRows -> Nat]

\* Only a row that is there and pending is worked on or was written for.
Worked ==
    \A i \in 1 .. MaxRows :
        /\ hold[i] # Free => i \in DOMAIN inbox /\ inbox[i].status = "pending"
        /\ effects[i] > 0 => i \in DOMAIN inbox

\* What a worker holds tells why.
Reasons ==
    \A i \in DOMAIN inbox :
        /\ hold[i] = "removed" => ~mounted
        /\ hold[i] = "denied" => ~Authorized(def, WorkOn(i).op)
        /\ hold[i] = "permanent" => WorkOn(i).op = "handler"
        /\ hold[i] = "invalid" => ~WorkOn(i).fit

\* With a dedupe key, the rows that are still there have one each.
Keyed ==
    def.dedupe # <<>> => \A i \in DOMAIN inbox : inbox[i].key = <<"key", hook.dedupe[inbox[i].event]>>

\* A row is purged after its retention, and was stored within the tolerance of its signature.
Dated ==
    \A i \in DOMAIN inbox :
        /\ inbox[i].created <= now
        /\ inbox[i].status = "gone" => inbox[i].created + Retention < now
        /\ TimeSigned => inbox[i].created - inbox[i].ts \in -S.tolerance .. S.tolerance

\* What was created and not deleted is in the table.
CreatedStays ==
    def.entity.natural # {} =>
        \A i \in DOMAIN inbox :
            (WorkOn(i).op = "create" /\ effects[i] > 0 /\ WorkOn(i).key \notin removed)
                => table[WorkOn(i).key] # NoRow

IInv ==
    /\ Types /\ Worked /\ Reasons /\ Keyed /\ Dated /\ CreatedStays
    /\ OnlyAuthentic /\ WithinGrants /\ StoredOnce /\ CreatedOnce /\ Converges /\ DeadForReason

-----------------------------------------------------------------------------
(* Rows. *)

\* What of a row never changes.
Same(new, old) ==
    /\ new.event = old.event /\ new.key = old.key /\ new.ts = old.ts
    /\ new.from = old.from /\ new.created = old.created

\* A request of this origin may pass.
Admitted(from) ==
    \/ from = "provider"
    \/ from = "altered" /\ ~SignsBody(S)
    \/ from = "retimed" /\ ~SignsTime(S)

\* A row that Receive stores.
NewRow(row) ==
    /\ row \in InboxRows /\ Admitted(row.from) /\ row.status = "pending" /\ row.created = now
    /\ def.dedupe # <<>> => row.key = <<"key", hook.dedupe[row.event]>>
    /\ \A i \in DOMAIN inbox : inbox[i].status # "gone" => inbox[i].key # row.key
    /\ TimeSigned => now - row.ts \in -S.tolerance .. S.tolerance

\* Row i is rewritten.
Rewrites(i, row) ==
    /\ i \in DOMAIN inbox /\ row \in InboxRows /\ Same(row, inbox[i])
    /\ inbox' = [inbox EXCEPT ![i] = row]

LEMMA Rewritten ==
  ASSUME Types, NEW i, NEW row, Rewrites(i, row)
  PROVE  /\ inbox' \in Seq(InboxRows) /\ Len(inbox') = Len(inbox) /\ DOMAIN inbox' = DOMAIN inbox
         /\ inbox'[i] = row /\ \A j \in DOMAIN inbox : j # i => inbox'[j] = inbox[j]
  <1>1. inbox \in Seq(InboxRows) /\ i \in 1 .. Len(inbox) /\ row \in InboxRows
    BY DEF Types, Rewrites
  <1>2. /\ inbox' \in Seq(InboxRows) /\ Len(inbox') = Len(inbox)
        /\ \A j \in 1 .. Len(inbox) : inbox'[j] = IF j = i THEN row ELSE inbox[j]
    BY <1>1, ExceptSeq DEF Rewrites
  <1> QED
    BY <1>1, <1>2

LEMMA Appended ==
  ASSUME Types, NEW row \in InboxRows, inbox' = Append(inbox, row)
  PROVE  /\ inbox' \in Seq(InboxRows) /\ Len(inbox') = Len(inbox) + 1
         /\ DOMAIN inbox' = 1 .. (Len(inbox) + 1)
         /\ inbox'[Len(inbox) + 1] = row /\ \A j \in DOMAIN inbox : inbox'[j] = inbox[j]
  BY AppendProperties DEF Types

\* Every row has its place and its fields.
LEMMA RowFacts ==
  ASSUME Types
  PROVE  /\ Len(inbox) \in Nat /\ DOMAIN inbox = 1 .. Len(inbox) /\ DOMAIN inbox \subseteq 1 .. MaxRows
         /\ \A i \in DOMAIN inbox : inbox[i] \in InboxRows
  BY InboxAssumption DEF Types

\* What the compiled webhook holds.
LEMMA HookFacts ==
  ASSUME Types
  PROVE  /\ name \in Running /\ name \in DOMAIN Defs /\ Valid(def)
         /\ S = IF Scheme(def) \in Signing THEN Resolve(def.sig, def.secret) ELSE NoSignature
         /\ \A e \in Events : hook.work[e] = Work(def, e) /\ hook.work[e].key \in EntityKeys
  BY DEF Types, Running, Compiled, S, def, EntityKeys

LEMMA WorkFacts ==
  ASSUME Types, NEW i \in DOMAIN inbox
  PROVE  /\ inbox[i].event \in Events /\ WorkOn(i) = Work(def, inbox[i].event)
         /\ WorkOn(i).key \in EntityKeys /\ WorkOn(i).ver \in Nat
  BY RowFacts, HookFacts, WorkAssumption DEF InboxRows, WorkOn, def

-----------------------------------------------------------------------------
(* What each step does to the rows. *)

LEMMA Claims ==
  ASSUME Types, NEW i, Claim(i)
  PROVE  Rewrites(i, [inbox[i] EXCEPT !.due = FALSE])
  BY RowFacts DEF Claim, Rewrites, Same, InboxRows

LEMMA Wakes ==
  ASSUME Types, NEW i, Wake(i)
  PROVE  Rewrites(i, [inbox[i] EXCEPT !.due = TRUE])
  BY RowFacts DEF Wake, Rewrites, Same, InboxRows

LEMMA Purges ==
  ASSUME Types, NEW i, Purge(i)
  PROVE  Rewrites(i, [inbox[i] EXCEPT !.status = "gone"])
  BY RowFacts DEF Purge, Rewrites, Same, InboxRows

\* Record: done, dead for good or after MaxAttempts, or pending.
LEMMA Records ==
  ASSUME Types, Worked, NEW i \in 1 .. MaxRows, Record(i)
  PROVE  \E status \in {"done", "dead", "pending"}, attempts \in Nat :
            /\ Rewrites(i, [inbox[i] EXCEPT !.status = status, !.attempts = attempts])
            /\ status = "dead" => Permanent(hold[i]) \/ attempts >= MaxAttempts
  <1>1. i \in DOMAIN inbox /\ inbox[i] \in InboxRows
    BY RowFacts DEF Record, Worked
  <1>2. ASSUME NEW status \in {"done", "dead", "pending"}, SetRow(i, status, inbox[i].attempts + 1)
        PROVE  Rewrites(i, [inbox[i] EXCEPT !.status = status, !.attempts = inbox[i].attempts + 1])
    <2> DEFINE row == [inbox[i] EXCEPT !.status = status, !.attempts = inbox[i].attempts + 1]
    <2>1. row \in InboxRows /\ Same(row, inbox[i])
      <3> DEFINE ended == [inbox[i] EXCEPT !.status = status]
      <3>1. ended \in InboxRows /\ Same(ended, inbox[i]) /\ row = [ended EXCEPT !.attempts = inbox[i].attempts + 1]
        BY <1>1 DEF Same, InboxRows
      <3>2. inbox[i].attempts + 1 \in Nat
        BY <1>1 DEF InboxRows
      <3> HIDE DEF ended
      <3> QED
        BY <3>1, <3>2 DEF Same, InboxRows
    <2>2. inbox' = [inbox EXCEPT ![i] = row]
      BY <1>1, <1>2, RowFacts DEF SetRow
    <2> QED
      BY <1>1, <2>1, <2>2 DEF Rewrites
  <1>3. inbox[i].attempts + 1 \in Nat
    BY <1>1 DEF InboxRows
  <1> QED
    BY <1>2, <1>3 DEF Record

-----------------------------------------------------------------------------
(* Signatures (module Signature). *)

\* The candidate digests of a signature header.
Candidates(s, h) == IF s.header \in DOMAIN h THEN h[s.header].candidates ELSE {}

\* The time that headers show.
Timed(s, h, ts) ==
    IF s.name = "stripe" THEN s.header \in DOMAIN h /\ h[s.header].t = ts
    ELSE s.timestamp # "" => s.timestamp \in DOMAIN h /\ h[s.timestamp].t = ts

\* The digests that headers show, and no time in a header of its own where none is signed.
Shows(s, h, digests) ==
    /\ s.header \in DOMAIN h /\ h[s.header].candidates = digests
    /\ s.name # "stripe" => h[s.header].prefix = s.prefix
    /\ ~Stamped(s) => DOMAIN h = {s.header}

\* Verify accepts no request whose time is not within the tolerance.
LEMMA OkIsFresh ==
  ASSUME NEW s, NEW secret, NEW h, NEW body, NEW at, NEW ts,
         Stamped(s), Timed(s, h, ts), Verify(s, secret, h, body, at) = "ok"
  PROVE  at - ts \in -s.tolerance .. s.tolerance
  BY DEF Stamped, Timed, Verify, Fresh, NoValue, Value

\* Verify accepts no request without a digest of its body under the secret ...
LEMMA OkIsSigned ==
  ASSUME NEW s, NEW secret, NEW h, NEW body, NEW at, Verify(s, secret, h, body, at) = "ok"
  PROVE  \E unix : Digest(s, secret, unix, body) \in Candidates(s, h)
  BY DEF Verify, Candidates, NoValue, Value

\* ... at the time it shows.
LEMMA OkIsSignedThen ==
  ASSUME NEW s, NEW secret, NEW h, NEW body, NEW at, NEW ts,
         Stamped(s), Timed(s, h, ts), Verify(s, secret, h, body, at) = "ok"
  PROVE  Digest(s, secret, ts, body) \in Candidates(s, h)
  BY DEF Stamped, Timed, Verify, Candidates, NoValue, Value

LEMMA Reserved == Missing # Garbled
  BY DEF Missing, Garbled

\* Where no time is signed, the digest decides.
LEMMA OkWithoutTime ==
  ASSUME NEW s, NEW secret, NEW h, NEW body, NEW at, NEW digests, s.header # "",
         ~Stamped(s), Shows(s, h, digests), Digest(s, secret, Missing, body) \in digests
  PROVE  Verify(s, secret, h, body, at) = "ok"
  <1>1. s.name # "stripe" /\ s.timestamp = "" /\ "" \notin DOMAIN h
    BY DEF Stamped, Shows
  <1>2. s.header \in DOMAIN h /\ h[s.header].prefix = s.prefix /\ h[s.header].candidates = digests
    BY <1>1 DEF Shows
  <1>3. Fresh(s, Missing, at)
    BY DEF Fresh
  <1>4. h[s.header] # NoValue
    <2>1. NoValue.candidates = {}
      BY DEF NoValue, Value
    <2> QED
      BY <1>2, <2>1
  <1> QED
    BY <1>1, <1>2, <1>3, <1>4, Reserved DEF Verify

\* Where a time is signed, it has to be of late, too.
LEMMA OkWithTime ==
  ASSUME NEW s, NEW secret, NEW h, NEW body, NEW at, NEW ts, NEW digests, s.name = "stripe" => s.timestamp = "",
         Stamped(s), Timed(s, h, ts), Shows(s, h, digests), Digest(s, secret, ts, body) \in digests,
         ts # Missing, ts # Garbled, Fresh(s, ts, at)
  PROVE  Verify(s, secret, h, body, at) = "ok"
  <1>1. s.header \in DOMAIN h /\ h[s.header].candidates = digests
    BY DEF Shows
  <1>2. h[s.header] # NoValue
    <2>1. NoValue.candidates = {}
      BY DEF NoValue, Value
    <2> QED
      BY <1>1, <2>1
  <1>3. CASE s.name = "stripe"
    BY <1>1, <1>2, <1>3 DEF Verify, Timed
  <1>4. CASE s.name # "stripe"
    <2>1. s.timestamp # "" /\ s.timestamp \in DOMAIN h /\ h[s.timestamp].t = ts /\ h[s.header].prefix = s.prefix
      BY <1>4 DEF Stamped, Timed, Shows
    <2> QED
      BY <1>1, <1>2, <1>4, <2>1 DEF Verify
  <1> QED
    BY <1>3, <1>4

LEMMA OtherKey ==
  ASSUME NEW s, NEW k1, NEW k2, NEW t1, NEW t2, NEW b1, NEW b2, k1 # k2
  PROVE  Digest(s, k1, t1, b1) # Digest(s, k2, t2, b2)
  <1>1. \A k, t, b : Digest(s, k, t, b).key = k
    BY DEF Digest
  <1> QED
    BY <1>1

LEMMA OtherBody ==
  ASSUME NEW s, SignsBody(s), NEW k1, NEW k2, NEW t1, NEW t2, NEW b1, NEW b2, b1 # b2
  PROVE  Digest(s, k1, t1, b1) # Digest(s, k2, t2, b2)
  <1>1. PICK i \in DOMAIN s.payload : s.payload[i] = "{body}" /\ \A j \in 1 .. i - 1 : s.payload[j] # "{body}"
    BY DEF SignsBody
  <1>2. \A k, t, b : Digest(s, k, t, b).text[i] = <<"body", b>>
    BY <1>1 DEF Digest
  <1> QED
    BY <1>2

LEMMA OtherTime ==
  ASSUME NEW s, SignsTime(s), NEW k1, NEW k2, NEW t1, NEW t2, NEW b1, NEW b2, t1 # t2
  PROVE  Digest(s, k1, t1, b1) # Digest(s, k2, t2, b2)
  <1>1. PICK i \in DOMAIN s.payload : s.payload[i] = "{timestamp}"
    BY DEF SignsTime
  <1>2. \A k, t, b : Digest(s, k, t, b).text[i] = <<"timestamp", t>>
    BY <1>1 DEF Digest
  <1> QED
    BY <1>2

\* A signed text without the time is the same at any time.
LEMMA Timeless ==
  ASSUME NEW s, ~SignsTime(s), NEW k, NEW t1, NEW t2, NEW b
  PROVE  Digest(s, k, t1, b) = Digest(s, k, t2, b)
  <1>1. \A i \in DOMAIN s.payload : s.payload[i] # "{timestamp}"
    BY DEF SignsTime
  <1> QED
    BY <1>1 DEF Digest

\* What the headers of a sender show; a header that is the time's, too, shows the time alone.
LEMMA Shown ==
  ASSUME NEW s, s.name = "stripe" => s.timestamp = "", s.header # "", NEW digests, NEW ts
  PROVE  /\ Timed(s, Showing(s, digests, ts), ts)
         /\ Candidates(s, Showing(s, digests, ts)) \subseteq digests
         /\ s.header # s.timestamp => Shows(s, Showing(s, digests, ts), digests)
  <1> DEFINE h == Showing(s, digests, ts)
             timed == IF s.name = "stripe" \/ s.timestamp = "" THEN {} ELSE {s.timestamp}
             value == IF s.name = "stripe" THEN Value("", ts, digests) ELSE Value(s.prefix, Missing, digests)
             time == Value("", ts, {})
  <1>1. h = [header \in {s.header} \cup timed |-> IF header \in timed THEN time ELSE value]
    BY DEF Showing
  <1>2. /\ value.candidates = digests /\ (IF s.name = "stripe" THEN value.t = ts ELSE value.prefix = s.prefix)
        /\ time.candidates = {} /\ time.t = ts
    BY DEF Value
  <1>3. /\ s.name = "stripe" => timed = {}
        /\ s.timestamp = "" => timed = {}
        /\ (s.name # "stripe" /\ s.timestamp # "") => timed = {s.timestamp}
        /\ (~Stamped(s) => timed = {}) /\ (s.header # s.timestamp => s.header \notin timed)
    BY DEF Stamped
  <1> HIDE DEF h, timed, value, time
  <1>4. /\ DOMAIN h = {s.header} \cup timed /\ \A header \in timed : h[header] = time
        /\ s.header \notin timed => h[s.header] = value
    BY <1>1
  <1>5. Timed(s, h, ts)
    BY <1>2, <1>3, <1>4 DEF Timed
  <1>6. Candidates(s, h) \subseteq digests
    <2>1. h[s.header] = value \/ h[s.header] = time
      BY <1>4
    <2> QED
      BY <1>2, <1>4, <2>1 DEF Candidates
  <1>7. s.header # s.timestamp => Shows(s, h, digests)
    BY <1>2, <1>3, <1>4 DEF Shows
  <1> QED
    BY <1>5, <1>6, <1>7 DEF h

-----------------------------------------------------------------------------
(* The receiver. *)

\* What a running definition's signature is.
LEMMA SchemeFacts ==
  ASSUME Types, Signs
  PROVE  /\ S = Resolve(def.sig, def.secret) /\ S.tolerance \in Nat
         /\ S.header # "" /\ (S.name = "stripe" => S.timestamp = "")
         /\ def.secret # "other"
  <1>1. Defs[name] = def /\ name \in Running /\ def.sig.tolerance \in Nat
    BY HookFacts, SecretAssumption DEF def
  <1>2. S = Resolve(def.sig, def.secret) /\ def.secret # "other"
    BY <1>1, HookFacts, SecretAssumption DEF Signs
  <1>3. S.tolerance \in Nat
    BY <1>1, <1>2, SignatureAssumption DEF Resolve, Tolerance
  <1>4. S.name = "stripe" => S.timestamp = ""
    BY <1>2 DEF Resolve
  <1>5. S.header # ""
    <2>1. Scheme(def) \in Signing /\ (Scheme(def) \in {"hmac_sha256", "hmac_sha1"} => def.sig.header # "")
      BY HookFacts DEF Signs, Valid, SignatureValid
    <2>2. S.header = Or(def.sig.header, Presets[Scheme(def)].header)
      BY <1>2 DEF Resolve, Scheme
    <2>3. \A n \in {"yaypi_v1", "github", "slack", "stripe"} : Presets[n].header # ""
      <3>1. /\ Presets["yaypi_v1"].header = "X-Yaypi-Signature" /\ Presets["github"].header = "X-Hub-Signature-256"
            /\ Presets["slack"].header = "X-Slack-Signature" /\ Presets["stripe"].header = "Stripe-Signature"
        BY DEF Presets, Preset
      <3> QED
        BY <3>1
    <2>4. Scheme(def) \in {"hmac_sha256", "hmac_sha1"} \/ Scheme(def) \in {"yaypi_v1", "github", "slack", "stripe"}
      BY <2>1 DEF Signing
    <2> QED
      BY <2>1, <2>2, <2>3, <2>4 DEF Or
  <1> QED
    BY <1>2, <1>3, <1>4, <1>5

\* The provider's request: signed with the secret, at the time it says.
LEMMA GenuineFacts ==
  ASSUME Types, NEW e, NEW ts
  PROVE  /\ Genuine(e, ts).event = e /\ Genuine(e, ts).ts = ts
         /\ Genuine(e, ts).token /\ Genuine(e, ts).listed /\ Genuine(e, ts).authed
         /\ Signs =>
              \E digests :
                 /\ Genuine(e, ts).signed = Showing(S, digests, ts) /\ Digest(S, def.secret, ts, e) \in digests
                 /\ \A d \in digests : \E k : d = Digest(S, k, ts, e)
  <1> DEFINE new == {Digest(S, def.secret, ts, e)}
             both == {Digest(S, k, ts, e) : k \in {def.secret, "old"}}
  <1>1. /\ Genuine(e, ts).event = e /\ Genuine(e, ts).ts = ts
        /\ Genuine(e, ts).token /\ Genuine(e, ts).listed /\ Genuine(e, ts).authed
    BY DEF Genuine, Request
  <1>2. ASSUME Signs, S.name # "stripe" PROVE Genuine(e, ts).signed = Showing(S, new, ts)
    BY <1>2 DEF Genuine, Request, Sign
  <1>3. ASSUME Signs, S.name = "stripe" PROVE Genuine(e, ts).signed = Showing(S, both, ts)
    BY <1>3 DEF Genuine, Request
  <1>4. \A digests \in {new, both} :
            /\ Digest(S, def.secret, ts, e) \in digests /\ \A d \in digests : \E k : d = Digest(S, k, ts, e)
    OBVIOUS
  <1> HIDE DEF new, both
  <1>5. Signs => \E digests \in {new, both} : Genuine(e, ts).signed = Showing(S, digests, ts)
    BY <1>2, <1>3
  <1> QED
    BY <1>1, <1>4, <1>5

\* Without a digest of its body under the secret a request is refused.
LEMMA UndigestedRefused ==
  ASSUME Signs, NEW req, \A unix : Digest(S, def.secret, unix, req.event) \notin Candidates(S, req.signed)
  PROVE  Answer(req) = "rejected"
  <1>1. Verify(S, def.secret, req.signed, req.event, now) # "ok"
    BY OkIsSigned
  <1>2. Scheme(def) # "plugin"
    BY DEF Signing, Signs
  <1> QED
    BY <1>1, <1>2 DEF Answer, Verified

\* A request that shows nothing or was signed with another key is refused.
LEMMA StrangerRefused ==
  ASSUME Types, NEW e, NEW req \in Stray(e, "stranger")
  PROVE  Answer(req) = "rejected"
  <1>1. CASE req = Request(e, now, <<>>, FALSE, FALSE, FALSE)
    <2>1. req.signed = <<>> /\ ~req.token /\ ~req.listed /\ ~req.authed
      BY <1>1 DEF Request
    <2>2. Scheme(def) \in Signing \cup {"none", "plugin"} /\ Guarded(def)
      BY HookFacts DEF Valid, SignatureValid
    <2>3. CASE Scheme(def) = "plugin"
      <3>1. ~Verified(req)
        BY <2>1, <2>3 DEF Verified, Signs, Signing
      <3> QED
        BY <3>1 DEF Answer
    <2>4. CASE Scheme(def) = "none"
      BY <2>1, <2>2, <2>4 DEF Guarded, Unsigned, InboundGuarded, Answer, IpAllowed, TokenOK
    <2>5. CASE Scheme(def) \in Signing
      <3>1. Verify(S, def.secret, req.signed, req.event, now) # "ok"
        BY <2>1 DEF Verify
      <3>2. Scheme(def) # "plugin" /\ Signs
        BY <2>5 DEF Signing, Signs
      <3> QED
        BY <3>1, <3>2 DEF Answer, Verified
    <2> QED
      BY <2>2, <2>3, <2>4, <2>5
  <1>2. CASE Signs /\ req = [Genuine(e, now) EXCEPT !.signed = Sign(S, "other", e, now)]
    <2>1. req.signed = Showing(S, {Digest(S, "other", now, e)}, now)
      BY <1>2 DEF Genuine, Request, Sign
    <2>2. Candidates(S, req.signed) \subseteq {Digest(S, "other", now, e)}
      <3>1. (S.name = "stripe" => S.timestamp = "") /\ S.header # ""
        BY <1>2, SchemeFacts
      <3> QED
        BY <2>1, <3>1, Shown
    <2>3. \A unix : Digest(S, def.secret, unix, req.event) # Digest(S, "other", now, e)
      BY <1>2, SchemeFacts, OtherKey
    <2> QED
      BY <1>2, <2>2, <2>3, UndigestedRefused
  <1> QED
    BY <1>1, <1>2 DEF Stray

\* What is known of a request that was changed on the way: its event is another, it shows the time
\* it says, and if the signed text has the body in it, it is refused.
LEMMA AlteredFacts ==
  ASSUME Types, NEW e, NEW req \in Stray(e, "altered")
  PROVE  /\ req.event = e /\ req.ts = now
         /\ Signs => Timed(S, req.signed, now)
         /\ SignsBody(S) => Answer(req) = "rejected"
  <1>1. Signs
    BY DEF Stray
  <1>2. PICK o \in Sends[name] \ {e} : req = [Genuine(o, now) EXCEPT !.event = e]
    BY <1>1 DEF Stray
  <1>3. req.signed = Genuine(o, now).signed /\ req.event = e /\ req.ts = now
    BY <1>2 DEF Genuine, Request
  <1>4. PICK digests : /\ Genuine(o, now).signed = Showing(S, digests, now)
                       /\ \A d \in digests : \E k : d = Digest(S, k, now, o)
    BY <1>1, GenuineFacts
  <1>5. Timed(S, req.signed, now) /\ Candidates(S, req.signed) \subseteq digests
    <2>1. (S.name = "stripe" => S.timestamp = "") /\ S.header # ""
      BY <1>1, SchemeFacts
    <2> QED
      BY <1>3, <1>4, <2>1, Shown
  <1>6. ASSUME SignsBody(S) PROVE Answer(req) = "rejected"
    <2>1. \A k, unix : Digest(S, def.secret, unix, e) # Digest(S, k, now, o)
      BY <1>2, <1>6, OtherBody
    <2> QED
      BY <1>1, <1>3, <1>4, <1>5, <2>1, UndigestedRefused
  <1> QED
    BY <1>3, <1>5, <1>6

\* A request with another time: if the signed text has the time in it, it is refused.
LEMMA RetimedFacts ==
  ASSUME Types, NEW e, NEW req \in Stray(e, "retimed")
  PROVE  /\ req.event = e /\ req.ts = now
         /\ Signs => Timed(S, req.signed, now)
         /\ SignsTime(S) => Answer(req) = "rejected"
  <1> DEFINE old == Digest(S, def.secret, now - 1, e)
  <1>1. Signs /\ Stamped(S)
    BY DEF Stray, TimeSigned
  <1>2. req = [Genuine(e, now) EXCEPT !.signed = Showing(S, {old}, now)]
    BY <1>1 DEF Stray, TimeSigned
  <1>3. req.signed = Showing(S, {old}, now) /\ req.event = e /\ req.ts = now
    BY <1>2 DEF Genuine, Request
  <1> HIDE DEF old
  <1>4. Timed(S, req.signed, now) /\ Candidates(S, req.signed) \subseteq {old}
    <2>1. (S.name = "stripe" => S.timestamp = "") /\ S.header # ""
      BY <1>1, SchemeFacts
    <2> QED
      BY <1>3, <2>1, Shown
  <1>5. ASSUME SignsTime(S) PROVE Answer(req) = "rejected"
    <2>1. Digest(S, def.secret, now, e) # old
      <3>1. now # now - 1
        BY DEF Types
      <3> QED
        BY <1>5, <3>1, OtherTime DEF old
    <2>2. Verify(S, def.secret, req.signed, e, now) # "ok"
      BY <1>1, <1>4, <2>1, OkIsSignedThen
    <2>3. Scheme(def) # "plugin"
      BY <1>1 DEF Signing, Signs
    <2> QED
      BY <1>1, <1>3, <2>2, <2>3 DEF Answer, Verified
  <1> QED
    BY <1>3, <1>4, <1>5

\* Sign and Verify agree: what the provider signs now passes.
LEMMA GenuinePasses ==
  ASSUME Types, Signs => Agrees(S), NEW e
  PROVE  Answer(Genuine(e, now + skew)) = "rejected" => DedupeKey(e) = <<"key", "">>
  <1> DEFINE ts == now + skew
             req == Genuine(e, ts)
  <1>1. req.event = e /\ req.token /\ req.listed /\ req.authed
    BY GenuineFacts
  <1>2. ASSUME Signs PROVE Verify(S, def.secret, req.signed, e, now) = "ok"
    <2>1. PICK digests : req.signed = Showing(S, digests, ts) /\ Digest(S, def.secret, ts, e) \in digests
      BY <1>2, GenuineFacts
    <2>2. Agrees(S) /\ S.tolerance \in Nat /\ (S.name = "stripe" => S.timestamp = "") /\ S.header # ""
      BY <1>2, SchemeFacts
    <2> HIDE DEF req, ts
    <2>3. Timed(S, req.signed, ts) /\ Shows(S, req.signed, digests)
      BY <2>1, <2>2, Shown DEF Agrees
    <2>4. CASE Stamped(S)
      <3>1. TimeSigned /\ skew \in Skews
        BY <1>2, <2>4 DEF TimeSigned, Types
      <3>2. now \in Nat /\ skew \in Int /\ -1000 < skew /\ skew \in -S.tolerance .. S.tolerance
        <4>1. Skews \subseteq -S.tolerance .. S.tolerance
          BY <2>2, <2>4 DEF Agrees
        <4> QED
          BY <3>1, <4>1, InboxAssumption DEF Missing, Types
      <3>3. ts # Missing /\ ts # Garbled /\ now - ts \in -S.tolerance .. S.tolerance
        <4>1. ts \in Int /\ ts > -1000 /\ now - ts = -skew
          BY <3>2 DEF ts
        <4>2. -skew \in -S.tolerance .. S.tolerance
          <5>1. \A tol \in Nat : skew \in -tol .. tol => -skew \in -tol .. tol
            BY <3>2
          <5> QED
            BY ZenonT(60), <2>2, <3>2, <5>1
        <4> QED
          BY <4>1, <4>2 DEF Missing, Garbled
      <3> QED
        BY <2>1, <2>2, <2>3, <2>4, <3>3, OkWithTime DEF Fresh
    <2>5. CASE ~Stamped(S)
      <3>1. Digest(S, def.secret, Missing, e) \in digests
        BY <2>1, <2>2, <2>5, Timeless DEF Agrees
      <3> QED
        BY <2>2, <2>3, <2>5, <3>1, OkWithoutTime
    <2> QED
      BY <2>4, <2>5
  <1> HIDE DEF req
  <1>3. IpAllowed(req) /\ TokenOK(req) /\ Verified(req)
    BY <1>1, <1>2 DEF IpAllowed, TokenOK, Verified
  <1> QED
    BY <1>1, <1>3 DEF Answer, req

\* Whose request it is.
From(req, from) ==
    \/ from = "provider" /\ \E e \in Events, ts \in Int : req = Genuine(e, ts)
    \/ from \in Origins \ {"provider"} /\ \E e \in Sends[name] : req \in Stray(e, from)

\* A request that is not refused is one that may pass, and shows the time it says.
LEMMA PassedFacts ==
  ASSUME Types, NEW req, NEW from, From(req, from), Answer(req) # "rejected"
  PROVE  /\ Admitted(from) /\ from \in Origins /\ req.event \in Events /\ req.ts \in Int
         /\ Signs => Timed(S, req.signed, req.ts)
  <1>1. Sends[name] \subseteq Events /\ now \in Int
    BY HookFacts, InboxAssumption DEF Types
  <1>2. CASE from = "provider"
    <2>1. PICK e \in Events, ts \in Int : req = Genuine(e, ts)
      BY <1>2 DEF From, Origins
    <2>2. req.event = e /\ req.ts = ts
      BY <2>1, GenuineFacts
    <2>3. ASSUME Signs PROVE Timed(S, req.signed, ts)
      <3>1. PICK digests : req.signed = Showing(S, digests, ts)
        BY <2>1, <2>3, GenuineFacts
      <3>2. (S.name = "stripe" => S.timestamp = "") /\ S.header # ""
        BY <2>3, SchemeFacts
      <3> QED
        BY <3>1, <3>2, Shown
    <2> QED
      BY <1>2, <2>2, <2>3 DEF Admitted, Origins
  <1>3. CASE from = "stranger"
    BY <1>3, StrangerRefused DEF From
  <1>4. CASE from = "altered"
    BY <1>1, <1>4, AlteredFacts DEF From, Admitted, Origins
  <1>5. CASE from = "retimed"
    BY <1>1, <1>5, RetimedFacts DEF From, Admitted, Origins
  <1> QED
    BY <1>2, <1>3, <1>4, <1>5 DEF From, Origins

\* What is stored may pass, has a key of its own and was signed of late.
LEMMA Receipts ==
  ASSUME Types, NEW req, NEW from, NEW lost, From(req, from), Receive(req, from, lost)
  PROVE  \/ inbox' = inbox
         \/ Len(inbox) < MaxRows /\ \E row : NewRow(row) /\ inbox' = Append(inbox, row)
  <1> SUFFICES ASSUME Answer(req) = "accepted"
               PROVE  Len(inbox) < MaxRows /\ \E row : NewRow(row) /\ inbox' = Append(inbox, row)
    BY DEF Receive
  <1> DEFINE row == Stored(req, from)
             e == req.event
  <1>1. /\ Admitted(from) /\ from \in Origins /\ e \in Events /\ req.ts \in Int
        /\ Signs => Timed(S, req.signed, req.ts)
    BY PassedFacts
  <1>2. inbox' = Append(inbox, row) /\ Len(inbox) < MaxRows
    BY RowFacts, InboxAssumption DEF Receive
  <1>3. ~Duplicate(e) /\ Verified(req)
    BY DEF Answer
  <1>4. DedupeKey(e) = IF def.dedupe = <<>> THEN <<"uuid", Len(inbox) + 1>> ELSE <<"key", hook.dedupe[e]>>
    BY DEF DedupeKey
  <1>5. row \in InboxRows
    <2>1. DedupeKey(e) \in DedupeKeys
      BY <1>1, <1>4, RowFacts DEF DedupeKeys
    <2>2. now \in Nat
      BY DEF Types
    <2> QED
      BY <1>1, <2>1, <2>2 DEF Stored, InboxRows
  <1>6. ASSUME TimeSigned PROVE now - req.ts \in -S.tolerance .. S.tolerance
    <2>1. Signs /\ Stamped(S) /\ Scheme(def) # "plugin"
      BY <1>6 DEF TimeSigned, Signs, Signing
    <2>2. Verify(S, def.secret, req.signed, e, now) = "ok"
      BY <1>3, <2>1 DEF Verified
    <2> QED
      BY <1>1, <2>1, <2>2, OkIsFresh
  <1>7. NewRow(row)
    <2>1. row.event = e /\ row.key = DedupeKey(e) /\ row.ts = req.ts /\ row.from = from /\ row.created = now
          /\ row.status = "pending"
      BY DEF Stored
    <2> QED
      BY <1>1, <1>3, <1>4, <1>5, <1>6, <2>1 DEF NewRow, Duplicate
  <1> QED
    BY <1>2, <1>7

-----------------------------------------------------------------------------
(* Steps. *)

\* The steps of the program, requests told by whose they are.
LEMMA NextCases ==
  ASSUME Types, Next
  PROVE  \/ \E req, from, lost : From(req, from) /\ Receive(req, from, lost)
         \/ \E i \in 1 .. MaxRows : Claim(i) \/ Wake(i) \/ Process(i) \/ Record(i) \/ Halt(i) \/ Purge(i)
         \/ Unmount \/ Tick
  <1>1. Sends[name] \subseteq Events
    BY HookFacts, InboxAssumption
  <1>2. ASSUME NEW e \in Sends[name], NEW lost, Send(e, lost)
        PROVE  \E req, from : From(req, from) /\ Receive(req, from, lost)
    <2>1. now + skew \in Int
      BY InboxAssumption DEF Types
    <2> QED
      BY <1>1, <1>2, <2>1 DEF Send, From
  <1>3. ASSUME NEW e \in Sends[name], Mistaken(e)
        PROVE  \E req, from, lost : From(req, from) /\ Receive(req, from, lost)
    <2>1. PICK from \in {"stranger", "altered", "retimed"} : \E req \in Stray(e, from) : Receive(req, from, FALSE)
      BY <1>3 DEF Mistaken
    <2>2. from \in Origins \ {"provider"}
      BY DEF Origins
    <2> QED
      BY <2>1, <2>2 DEF From
  <1>4. ASSUME NEW i, Again(i)
        PROVE  \E req, from, lost : From(req, from) /\ Receive(req, from, lost)
    <2>1. inbox[i].event \in Events /\ inbox[i].ts \in Int
      BY <1>4, RowFacts DEF Again, InboxRows
    <2> QED
      BY <1>4, <2>1 DEF Again, From
  <1> QED
    BY <1>2, <1>3, <1>4 DEF Next

\* What no step changes.
LEMMA Fixed ==
  ASSUME [Next]_ivars
  PROVE  /\ name' = name /\ hook' = hook /\ skew' = skew /\ def' = def
         /\ S' = S /\ TimeSigned' = TimeSigned /\ EntityKeys' = EntityKeys /\ InboxRows' = InboxRows
         /\ (now' = now \/ now' = now + 1) /\ (mounted' => mounted)
  <1>1. name' = name /\ hook' = hook /\ skew' = skew /\ (now' = now \/ now' = now + 1) /\ (mounted' => mounted)
    <2>1. ASSUME NEW req, NEW from, NEW lost, Receive(req, from, lost) PROVE UNCHANGED <<name, hook, skew, mounted, now>>
      BY <2>1 DEF Receive
    <2>2. ASSUME NEW i, Claim(i) \/ Wake(i) \/ Process(i) PROVE UNCHANGED <<name, hook, skew, mounted, now>>
      BY <2>2 DEF Claim, Wake, Process
    <2>3. ASSUME NEW i, Record(i) \/ Halt(i) \/ Purge(i) PROVE UNCHANGED <<name, hook, skew, mounted, now>>
      BY <2>3 DEF Record, Halt, Purge
    <2>4. ASSUME Unmount \/ Tick
          PROVE  /\ UNCHANGED <<name, hook, skew>>
                 /\ (now' = now \/ now' = now + 1) /\ (mounted' => mounted)
      BY <2>4 DEF Unmount, Tick
    <2>5. CASE UNCHANGED ivars
      BY <2>5 DEF ivars
    <2> QED
      BY <2>1, <2>2, <2>3, <2>4, <2>5 DEF Next, Send, Mistaken, Again
  <1> QED
    BY <1>1 DEF def, S, TimeSigned, Signs, EntityKeys, InboxRows, DedupeKeys

\* Rows are added one at a time and keep what they were stored with.
LEMMA Grows ==
  ASSUME Types, Worked, [Next]_ivars
  PROVE  /\ inbox' \in Seq(InboxRows) /\ Len(inbox') <= MaxRows
         /\ \A i \in DOMAIN inbox : i \in DOMAIN inbox' /\ Same(inbox'[i], inbox[i])
         /\ \A i \in DOMAIN inbox' \ DOMAIN inbox :
               /\ i = Len(inbox) + 1 /\ i \in 1 .. MaxRows /\ NewRow(inbox'[i])
               /\ hold' = hold /\ table' = table /\ effects' = effects /\ removed' = removed
  <1> DEFINE Grown ==
         /\ inbox' \in Seq(InboxRows) /\ Len(inbox') <= MaxRows
         /\ \A i \in DOMAIN inbox : i \in DOMAIN inbox' /\ Same(inbox'[i], inbox[i])
         /\ \A i \in DOMAIN inbox' \ DOMAIN inbox :
               /\ i = Len(inbox) + 1 /\ i \in 1 .. MaxRows /\ NewRow(inbox'[i])
               /\ hold' = hold /\ table' = table /\ effects' = effects /\ removed' = removed
  <1>1. ASSUME inbox' = inbox PROVE Grown
    BY <1>1 DEF Types, Same
  <1>2. ASSUME NEW i, NEW row, Rewrites(i, row) PROVE Grown
    <2>1. /\ inbox' \in Seq(InboxRows) /\ Len(inbox') = Len(inbox) /\ DOMAIN inbox' = DOMAIN inbox
          /\ inbox'[i] = row /\ \A j \in DOMAIN inbox : j # i => inbox'[j] = inbox[j]
      BY <1>2, Rewritten
    <2>2. \A j \in DOMAIN inbox : Same(inbox'[j], inbox[j])
      BY <1>2, <2>1 DEF Rewrites, Same
    <2> QED
      BY <2>1, <2>2 DEF Types
  <1>3. ASSUME NEW req, NEW from, NEW lost, From(req, from), Receive(req, from, lost)
        PROVE  Grown
    <2> SUFFICES ASSUME Len(inbox) < MaxRows, NEW row, NewRow(row), inbox' = Append(inbox, row)
                 PROVE  Grown
      BY <1>1, <1>3, Receipts
    <2>1. row \in InboxRows
      BY DEF NewRow
    <2>2. /\ inbox' \in Seq(InboxRows) /\ Len(inbox') = Len(inbox) + 1
          /\ DOMAIN inbox' = 1 .. (Len(inbox) + 1)
          /\ inbox'[Len(inbox) + 1] = row /\ \A j \in DOMAIN inbox : inbox'[j] = inbox[j]
      BY <2>1, Appended
    <2>3. hold' = hold /\ table' = table /\ effects' = effects /\ removed' = removed
      BY <1>3 DEF Receive
    <2>4. Len(inbox) \in Nat /\ DOMAIN inbox = 1 .. Len(inbox) /\ MaxRows \in Nat
      BY RowFacts, InboxAssumption
    <2> QED
      BY <2>2, <2>3, <2>4 DEF Same
  <1> SUFFICES Grown
    OBVIOUS
  <1> HIDE DEF Grown
  <1>4. CASE Next
    <2>1. ASSUME NEW i \in 1 .. MaxRows, Claim(i) \/ Wake(i) \/ Record(i) \/ Purge(i) PROVE Grown
      BY <1>2, <2>1, Claims, Wakes, Records, Purges
    <2>2. ASSUME NEW i \in 1 .. MaxRows, Process(i) \/ Halt(i) PROVE Grown
      BY <1>1, <2>2 DEF Process, Halt
    <2>3. ASSUME Unmount \/ Tick PROVE Grown
      BY <1>1, <2>3 DEF Unmount, Tick
    <2> QED
      BY <1>3, <1>4, <2>1, <2>2, <2>3, NextCases
  <1>5. CASE UNCHANGED ivars
    BY <1>1, <1>5 DEF ivars
  <1> QED
    BY <1>4, <1>5

\* What is made of a row stays the same.
LEMMA WorkStays ==
  ASSUME Types, Worked, [Next]_ivars, NEW i \in DOMAIN inbox
  PROVE  i \in DOMAIN inbox' /\ WorkOn(i)' = WorkOn(i)
  BY Grows, Fixed DEF Same, WorkOn

-----------------------------------------------------------------------------
(* What a step does to statuses, to the table and to what workers hold. *)

\* A row is purged after its retention; it dies for good or after MaxAttempts.
LEMMA Statuses ==
  ASSUME Types, Worked, [Next]_ivars, NEW j \in DOMAIN inbox
  PROVE  /\ inbox'[j].status = "gone" => inbox[j].status = "gone" \/ inbox[j].created + Retention < now
         /\ inbox'[j].status = "dead" =>
               \/ inbox[j].status = "dead" /\ inbox'[j].attempts = inbox[j].attempts
               \/ Permanent(hold[j]) \/ inbox'[j].attempts >= MaxAttempts
  <1> DEFINE Told ==
         /\ inbox'[j].status = "gone" => inbox[j].status = "gone" \/ inbox[j].created + Retention < now
         /\ inbox'[j].status = "dead" =>
               \/ inbox[j].status = "dead" /\ inbox'[j].attempts = inbox[j].attempts
               \/ Permanent(hold[j]) \/ inbox'[j].attempts >= MaxAttempts
  <1> SUFFICES Told
    OBVIOUS
  <1>1. ASSUME inbox'[j] = inbox[j] PROVE Told
    BY <1>1
  <1>2. ASSUME NEW i, NEW row, Rewrites(i, row)
        PROVE  IF j = i THEN inbox'[j] = row /\ inbox[j] \in InboxRows ELSE inbox'[j] = inbox[j]
    BY <1>2, Rewritten, RowFacts
  <1>3. ASSUME NEW i, Claim(i) PROVE Told
    <2>1. CASE j = i
      <3>1. inbox'[j] = [inbox[j] EXCEPT !.due = FALSE] /\ inbox[j] \in InboxRows
        BY <1>2, <1>3, <2>1, Claims
      <3> QED
        BY <3>1 DEF InboxRows
    <2> QED
      BY <1>1, <1>2, <1>3, <2>1, Claims
  <1>4. ASSUME NEW i, Wake(i) PROVE Told
    <2>1. CASE j = i
      <3>1. inbox'[j] = [inbox[j] EXCEPT !.due = TRUE] /\ inbox[j] \in InboxRows
        BY <1>2, <1>4, <2>1, Wakes
      <3> QED
        BY <3>1 DEF InboxRows
    <2> QED
      BY <1>1, <1>2, <1>4, <2>1, Wakes
  <1>5. ASSUME NEW i, Purge(i) PROVE Told
    <2>1. CASE j = i
      <3>1. inbox'[j] = [inbox[j] EXCEPT !.status = "gone"] /\ inbox[j] \in InboxRows
        BY <1>2, <1>5, <2>1, Purges
      <3>2. inbox[j].created + Retention < now
        BY SMTT(60), <1>5, <2>1, <3>1, InboxAssumption DEF Purge, Types, InboxRows
      <3> QED
        BY <3>1, <3>2 DEF InboxRows
    <2> QED
      BY <1>1, <1>2, <1>5, <2>1, Purges
  <1>6. ASSUME NEW i \in 1 .. MaxRows, Record(i) PROVE Told
    <2>1. PICK status \in {"done", "dead", "pending"}, attempts \in Nat :
             /\ Rewrites(i, [inbox[i] EXCEPT !.status = status, !.attempts = attempts])
             /\ status = "dead" => Permanent(hold[i]) \/ attempts >= MaxAttempts
      BY <1>6, Records
    <2>2. CASE j = i
      <3>1. inbox'[j] = [inbox[j] EXCEPT !.status = status, !.attempts = attempts] /\ inbox[j] \in InboxRows
        BY <1>2, <2>1, <2>2
      <3>2. inbox'[j].status = status /\ inbox'[j].attempts = attempts
        <4> DEFINE ended == [inbox[j] EXCEPT !.status = status]
        <4>1. inbox'[j] = [ended EXCEPT !.attempts = attempts] /\ ended \in InboxRows /\ ended.status = status
          BY <3>1 DEF InboxRows
        <4> HIDE DEF ended
        <4> QED
          BY <4>1 DEF InboxRows
      <3> QED
        BY <2>1, <2>2, <3>2
    <2> QED
      BY <1>1, <1>2, <2>1, <2>2
  <1>7. ASSUME NEW req, NEW from, NEW lost, From(req, from), Receive(req, from, lost)
        PROVE  Told
    <2>1. inbox'[j] = inbox[j]
      BY <1>7, Receipts, Appended DEF NewRow
    <2> QED
      BY <1>1, <2>1
  <1> HIDE DEF Told
  <1>8. CASE Next
    <2>1. ASSUME NEW i, Process(i) \/ Halt(i) PROVE inbox' = inbox
      BY <2>1 DEF Process, Halt
    <2>2. ASSUME Unmount \/ Tick PROVE inbox' = inbox
      BY <2>2 DEF Unmount, Tick
    <2> QED
      BY <1>1, <1>3, <1>4, <1>5, <1>6, <1>7, <1>8, <2>1, <2>2, NextCases
  <1>9. CASE UNCHANGED ivars
    BY <1>1, <1>9 DEF ivars
  <1> QED
    BY <1>8, <1>9

\* The write of row i takes effect.
Takes(i, op, k, ver) ==
    /\ i \in DOMAIN inbox /\ i \in 1 .. MaxRows /\ inbox' = inbox
    /\ op = WorkOn(i).op /\ k = WorkOn(i).key /\ ver = WorkOn(i).ver
    /\ mounted /\ op \notin {"none", "handler"} /\ Authorized(def, op)
    /\ Outcome(op, ver, table[k]) = "written"
    /\ table' = [table EXCEPT ![k] = After(op, ver, table[k])]
    /\ effects' = [effects EXCEPT ![i] = effects[i] + 1]
    /\ removed' = IF op = "delete" THEN removed \cup {k} ELSE removed

\* process either writes or says why not.
LEMMA Processes ==
  ASSUME Types, Worked, NEW i \in 1 .. MaxRows, Process(i)
  PROVE  /\ i \in DOMAIN inbox /\ hold[i] = Started /\ inbox' = inbox
         /\ \E r \in Results :
               /\ hold' = [hold EXCEPT ![i] = r]
               /\ r = "removed" => ~mounted
               /\ r = "denied" => ~Authorized(def, WorkOn(i).op)
               /\ r = "permanent" => WorkOn(i).op = "handler"
               /\ r = "invalid" => ~WorkOn(i).fit
         /\ \/ UNCHANGED <<table, effects, removed>>
            \/ Takes(i, WorkOn(i).op, WorkOn(i).key, WorkOn(i).ver)
  <1> DEFINE work == WorkOn(i)
             outcome == Outcome(work.op, work.ver, table[work.key])
  <1>1. i \in DOMAIN inbox /\ hold[i] = Started /\ inbox' = inbox
    BY DEF Process, Worked, Free, Started
  <1> DEFINE results == Unwritten(work) \cup (IF Unsure(work) THEN {"unsure"} ELSE {})
  <1>2. CASE \E r \in results : hold' = [hold EXCEPT ![i] = r] /\ UNCHANGED <<table, effects, removed>>
    <2>1. PICK r \in results : hold' = [hold EXCEPT ![i] = r] /\ UNCHANGED <<table, effects, removed>>
      BY <1>2
    <2>2. /\ r \in Results
          /\ r = "removed" => ~mounted
          /\ r = "denied" => ~Authorized(def, work.op)
          /\ r = "permanent" => work.op = "handler"
          /\ r = "invalid" => ~work.fit
      <3>1. \/ r = "removed" /\ ~mounted
            \/ r \in {"ignored", "handled", "failed", "unsure"}
            \/ r = "permanent" /\ work.op = "handler"
            \/ r = "denied" /\ ~Authorized(def, work.op)
            \/ r = "invalid" /\ ~work.fit
        BY <2>1 DEF Unwritten
      <3> QED
        BY <3>1 DEF Results
    <2> QED
      BY <1>1, <2>1, <2>2
  <1>3. CASE Unwritten(work) = {} /\ Write(i, work.op, work.key, work.ver)
    <2>1. /\ hold' = [hold EXCEPT ![i] = outcome]
          /\ table' = IF outcome = "written"
                      THEN [table EXCEPT ![work.key] = After(work.op, work.ver, table[work.key])] ELSE table
          /\ effects' = IF outcome = "written" THEN [effects EXCEPT ![i] = effects[i] + 1] ELSE effects
          /\ removed' = IF outcome = "written" /\ work.op = "delete" THEN removed \cup {work.key} ELSE removed
      BY <1>3 DEF Write
    <2>2. outcome \in {"conflict", "not found", "unchanged", "written"}
      BY DEF Outcome
    <2>3. mounted /\ work.op \notin {"none", "handler"} /\ Authorized(def, work.op)
      BY <1>3 DEF Unwritten
    <2>4. /\ outcome \in Results /\ outcome \notin {"removed", "denied", "permanent", "invalid"}
      BY <2>2 DEF Results
    <2>5. CASE outcome = "written"
      <3>1. Takes(i, work.op, work.key, work.ver)
        BY <1>1, <2>1, <2>3, <2>5 DEF Takes
      <3> QED
        BY <1>1, <2>1, <2>4, <3>1
    <2>6. CASE outcome # "written"
      BY <1>1, <2>1, <2>4, <2>6
    <2> QED
      BY <2>5, <2>6
  <1>4. \/ Unwritten(work) = {} /\ Write(i, work.op, work.key, work.ver)
        \/ \E r \in results : hold' = [hold EXCEPT ![i] = r] /\ UNCHANGED <<table, effects, removed>>
    BY DEF Process
  <1> QED
    BY <1>2, <1>3, <1>4

\* Only a write that takes effect changes the table.
LEMMA Effects ==
  ASSUME Types, Worked, [Next]_ivars
  PROVE  \/ UNCHANGED <<table, effects, removed>>
         \/ \E i \in 1 .. MaxRows : Takes(i, WorkOn(i).op, WorkOn(i).key, WorkOn(i).ver)
  <1>1. ASSUME NEW req, NEW from, NEW lost, Receive(req, from, lost)
        PROVE  UNCHANGED <<table, effects, removed>>
    BY <1>1 DEF Receive
  <1>2. ASSUME NEW i, Claim(i) \/ Wake(i) \/ Record(i) \/ Halt(i) \/ Purge(i)
        PROVE  UNCHANGED <<table, effects, removed>>
    BY <1>2 DEF Claim, Wake, Record, Halt, Purge
  <1>3. ASSUME Unmount \/ Tick PROVE UNCHANGED <<table, effects, removed>>
    BY <1>3 DEF Unmount, Tick
  <1>4. CASE Next
    BY <1>1, <1>2, <1>3, <1>4, NextCases, Processes
  <1>5. CASE UNCHANGED ivars
    BY <1>5 DEF ivars
  <1> QED
    BY <1>4, <1>5

\* What the table holds of a write that took effect.
LEMMA AfterFacts ==
  ASSUME Types, NEW op, NEW ver \in Nat, NEW k \in EntityKeys
  PROVE  /\ After(op, ver, table[k]) \in [ver : Nat, gone : BOOLEAN]
         /\ op # "delete" => After(op, ver, table[k]) = [ver |-> ver, gone |-> FALSE]
         /\ [ver |-> ver, gone |-> FALSE] # NoRow /\ NoRow \in [ver : Nat, gone : BOOLEAN]
  <1>1. table[k] \in [ver : Nat, gone : BOOLEAN]
    BY DEF Types
  <1>2. NoRow \in [ver : Nat, gone : BOOLEAN] /\ NoRow.gone = TRUE
    BY DEF NoRow
  <1>3. [table[k] EXCEPT !.gone = TRUE] \in [ver : Nat, gone : BOOLEAN]
    BY <1>1
  <1>4. [ver |-> ver, gone |-> FALSE].gone = FALSE
    OBVIOUS
  <1> QED
    BY <1>2, <1>3, <1>4 DEF After

-----------------------------------------------------------------------------
(* Each part of the invariant is kept by every step. *)

LEMMA TypesStep ==
  ASSUME Types, Worked, [Next]_ivars
  PROVE  Types'
  <1>1. name' \in Running /\ hook' = Compiled(def)' /\ skew' \in IF TimeSigned' THEN Skews ELSE {0}
    BY Fixed DEF Types, Compiled
  <1>2. now' \in Nat
    BY Fixed DEF Types
  <1>3. mounted' \in BOOLEAN
    <2>1. ASSUME NEW req, NEW from, NEW lost, Receive(req, from, lost) PROVE mounted' = mounted
      BY <2>1 DEF Receive
    <2>2. ASSUME NEW i, Claim(i) \/ Wake(i) \/ Process(i) \/ Record(i) \/ Halt(i) \/ Purge(i)
          PROVE  mounted' = mounted
      BY <2>2 DEF Claim, Wake, Process, Record, Halt, Purge
    <2>3. ASSUME Unmount \/ Tick PROVE mounted' \in {FALSE, mounted}
      BY <2>3 DEF Unmount, Tick
    <2>4. CASE UNCHANGED ivars
      BY <2>4 DEF ivars, Types
    <2>5. CASE Next
      BY <2>1, <2>2, <2>3, <2>5, NextCases DEF Types
    <2> QED
      BY <2>4, <2>5
  <1>4. inbox' \in Seq(InboxRows') /\ Len(inbox') <= MaxRows
    BY Grows, Fixed
  <1>5. hold' \in [1 .. MaxRows -> Results]
    <2>1. hold \in [1 .. MaxRows -> Results] /\ Free \in Results /\ Started \in Results
      BY DEF Types, Results
    <2>2. ASSUME NEW req, NEW from, NEW lost, Receive(req, from, lost) PROVE hold' = hold
      BY <2>2 DEF Receive
    <2>3. ASSUME NEW i, Wake(i) \/ Purge(i) \/ Unmount \/ Tick PROVE hold' = hold
      BY <2>3 DEF Wake, Purge, Unmount, Tick
    <2>4. ASSUME NEW i, Claim(i) \/ Record(i) \/ Halt(i)
          PROVE  hold' = [hold EXCEPT ![i] = Started] \/ hold' = [hold EXCEPT ![i] = Free]
      BY <2>4 DEF Claim, Record, Halt
    <2>5. CASE UNCHANGED ivars
      BY <2>1, <2>5 DEF ivars
    <2>6. CASE Next
      BY <2>1, <2>2, <2>3, <2>4, <2>6, NextCases, Processes
    <2> QED
      BY <2>5, <2>6
  <1>6. table' \in [EntityKeys' -> [ver : Nat, gone : BOOLEAN]] /\ effects' \in [1 .. MaxRows -> Nat]
    <2>1. CASE UNCHANGED <<table, effects, removed>>
      BY <2>1, Fixed DEF Types
    <2>2. ASSUME NEW i \in 1 .. MaxRows, Takes(i, WorkOn(i).op, WorkOn(i).key, WorkOn(i).ver)
          PROVE  table' \in [EntityKeys' -> [ver : Nat, gone : BOOLEAN]] /\ effects' \in [1 .. MaxRows -> Nat]
      <3> DEFINE k == WorkOn(i).key
                 row == After(WorkOn(i).op, WorkOn(i).ver, table[k])
      <3>1. i \in DOMAIN inbox /\ table' = [table EXCEPT ![k] = row] /\ effects' = [effects EXCEPT ![i] = effects[i] + 1]
        BY <2>2 DEF Takes
      <3>2. row \in [ver : Nat, gone : BOOLEAN]
        BY <3>1, WorkFacts, AfterFacts
      <3> HIDE DEF k, row
      <3>3. table' \in [EntityKeys' -> [ver : Nat, gone : BOOLEAN]]
        BY <3>1, <3>2, Fixed DEF Types
      <3>4. effects \in [1 .. MaxRows -> Nat]
        BY DEF Types
      <3> QED
        BY <3>1, <3>3, <3>4
    <2> QED
      BY <2>1, <2>2, Effects
  <1> QED
    BY <1>1, <1>2, <1>3, <1>4, <1>5, <1>6 DEF Types

LEMMA WorkedStep ==
  ASSUME Types, Worked, [Next]_ivars
  PROVE  Worked'
  <1>1. ASSUME NEW j \in 1 .. MaxRows, effects'[j] > 0
        PROVE  j \in DOMAIN inbox'
    <2>1. CASE UNCHANGED <<table, effects, removed>>
      BY <1>1, <2>1, Grows DEF Worked
    <2>2. ASSUME NEW i \in 1 .. MaxRows, Takes(i, WorkOn(i).op, WorkOn(i).key, WorkOn(i).ver)
          PROVE  j \in DOMAIN inbox
      BY <1>1, <2>2 DEF Takes, Worked, Types
    <2> QED
      BY <2>1, <2>2, Effects, Grows
  <1>2. ASSUME NEW j \in 1 .. MaxRows, hold'[j] # Free
        PROVE  j \in DOMAIN inbox' /\ inbox'[j].status = "pending"
    <2> DEFINE Pending == j \in DOMAIN inbox' /\ inbox'[j].status = "pending"
    <2>1. ASSUME hold'[j] = hold[j], inbox' = inbox PROVE Pending
      BY <1>2, <2>1 DEF Worked
    <2>2. ASSUME NEW i, NEW row, Rewrites(i, row), hold'[j] = hold[j], j # i PROVE Pending
      <3>1. j \in DOMAIN inbox' /\ inbox'[j] = inbox[j]
        BY <1>2, <2>2, Rewritten DEF Worked
      <3> QED
        BY <1>2, <2>2, <3>1 DEF Worked
    <2>3. ASSUME NEW i, NEW row, Rewrites(i, row), row.status = "pending", j = i PROVE Pending
      BY <2>3, Rewritten DEF Rewrites
    <2>4. hold \in [1 .. MaxRows -> Results]
      BY DEF Types
    <2>5. ASSUME NEW i \in 1 .. MaxRows, Claim(i) PROVE Pending
      <3>1. Rewrites(i, [inbox[i] EXCEPT !.due = FALSE]) /\ inbox[i] \in InboxRows
        BY <2>5, Claims, RowFacts DEF Claim
      <3>2. [inbox[i] EXCEPT !.due = FALSE].status = "pending" /\ (j # i => hold'[j] = hold[j])
        BY <2>4, <2>5, <3>1 DEF Claim, InboxRows
      <3> QED
        BY <2>2, <2>3, <3>1, <3>2
    <2>6. ASSUME NEW i \in 1 .. MaxRows, Wake(i) PROVE Pending
      <3>1. Rewrites(i, [inbox[i] EXCEPT !.due = TRUE]) /\ j # i /\ hold'[j] = hold[j]
        BY <1>2, <2>6, Wakes DEF Wake
      <3> QED
        BY <2>2, <3>1
    <2>7. ASSUME NEW i \in 1 .. MaxRows, Purge(i) PROVE Pending
      <3>1. Rewrites(i, [inbox[i] EXCEPT !.status = "gone"]) /\ j # i /\ hold'[j] = hold[j]
        BY <1>2, <2>7, Purges DEF Purge, Worked
      <3> QED
        BY <2>2, <3>1
    <2>8. ASSUME NEW i \in 1 .. MaxRows, Record(i) PROVE Pending
      <3>1. j # i /\ hold'[j] = hold[j]
        BY <1>2, <2>4, <2>8 DEF Record
      <3>2. \E row : Rewrites(i, row)
        BY <2>8, Records
      <3> QED
        BY <2>2, <3>1, <3>2
    <2>9. ASSUME NEW i \in 1 .. MaxRows, Process(i) PROVE Pending
      <3>1. j = i => hold[j] # Free
        BY <2>9 DEF Process, Started, Free
      <3>2. inbox' = inbox /\ (j # i => hold'[j] = hold[j])
        BY <2>4, <2>9, Processes
      <3> QED
        BY <1>2, <2>1, <3>1, <3>2 DEF Worked
    <2>10. ASSUME NEW i \in 1 .. MaxRows, Halt(i) PROVE Pending
      <3>1. inbox' = inbox /\ j # i /\ hold'[j] = hold[j]
        BY <1>2, <2>4, <2>10 DEF Halt
      <3> QED
        BY <2>1, <3>1
    <2>11. ASSUME Unmount \/ Tick PROVE Pending
      BY <2>1, <2>11 DEF Unmount, Tick
    <2>12. ASSUME NEW req, NEW from, NEW lost, From(req, from), Receive(req, from, lost)
           PROVE  Pending
      <3>1. hold' = hold /\ j \in DOMAIN inbox /\ inbox[j].status = "pending"
        BY <1>2, <2>12 DEF Receive, Worked
      <3>2. inbox'[j] = inbox[j]
        BY <2>12, <3>1, Receipts, Appended DEF NewRow
      <3> QED
        BY <3>1, <3>2, Grows
    <2> SUFFICES Pending
      OBVIOUS
    <2> HIDE DEF Pending
    <2>13. CASE UNCHANGED ivars
      BY <2>1, <2>13 DEF ivars
    <2>14. CASE Next
      <3>1. ASSUME NEW i \in 1 .. MaxRows,
                   Claim(i) \/ Wake(i) \/ Process(i) \/ Record(i) \/ Halt(i) \/ Purge(i)
            PROVE  Pending
        BY <2>5, <2>6, <2>7, <2>8, <2>9, <2>10, <3>1
      <3> QED
        BY <2>11, <2>12, <2>14, <3>1, NextCases
    <2> QED
      BY <2>13, <2>14
  <1> QED
    BY <1>1, <1>2 DEF Worked

LEMMA ReasonsStep ==
  ASSUME Types, Worked, Reasons, [Next]_ivars
  PROVE  Reasons'
  <1> SUFFICES ASSUME NEW j \in DOMAIN inbox'
               PROVE  /\ hold'[j] = "removed" => ~mounted'
                      /\ hold'[j] = "denied" => ~Authorized(def, WorkOn(j).op)'
                      /\ hold'[j] = "permanent" => WorkOn(j)'.op = "handler"
                      /\ hold'[j] = "invalid" => ~WorkOn(j)'.fit
    BY DEF Reasons
  <1>1. CASE j \notin DOMAIN inbox
    <2>1. j \in 1 .. MaxRows /\ hold' = hold
      BY <1>1, Grows
    <2>2. hold[j] = Free
      BY <1>1, <2>1 DEF Worked
    <2> QED
      BY <2>1, <2>2 DEF Free
  <1>2. CASE j \in DOMAIN inbox
    <2> DEFINE Told(r) ==
          /\ r = "removed" => ~mounted
          /\ r = "denied" => ~Authorized(def, WorkOn(j).op)
          /\ r = "permanent" => WorkOn(j).op = "handler"
          /\ r = "invalid" => ~WorkOn(j).fit
    <2>1. Told(hold[j]) /\ Told(Free) /\ Told(Started)
      BY <1>2 DEF Reasons, Free, Started
    <2>2. j \in 1 .. MaxRows /\ hold \in [1 .. MaxRows -> Results]
      BY <1>2, RowFacts DEF Types
    <2>3. ASSUME NEW i \in 1 .. MaxRows, Process(i) PROVE Told(hold'[j])
      BY ZenonT(60), <2>1, <2>2, <2>3, Processes
    <2> SUFFICES Told(hold'[j])
      <3>1. WorkOn(j)' = WorkOn(j) /\ def' = def /\ (mounted' => mounted)
        BY <1>2, WorkStays, Fixed
      <3> QED
        BY <3>1 DEF Authorized, Asked
    <2> HIDE DEF Told
    <2>4. ASSUME NEW req, NEW from, NEW lost, Receive(req, from, lost) PROVE Told(hold'[j])
      BY <2>1, <2>4 DEF Receive
    <2>5. ASSUME NEW i \in 1 .. MaxRows, Claim(i) \/ Record(i) \/ Halt(i) PROVE Told(hold'[j])
      BY <2>1, <2>2, <2>5 DEF Claim, Record, Halt
    <2>6. ASSUME NEW i, Wake(i) \/ Purge(i) \/ Unmount \/ Tick PROVE Told(hold'[j])
      BY <2>1, <2>6 DEF Wake, Purge, Unmount, Tick
    <2>7. CASE UNCHANGED ivars
      BY <2>1, <2>7 DEF ivars
    <2>8. CASE Next
      BY <2>3, <2>4, <2>5, <2>6, <2>8, NextCases
    <2> QED
      BY <2>7, <2>8
  <1> QED
    BY <1>1, <1>2

LEMMA DeadStep ==
  ASSUME Types, Worked, Reasons, DeadForReason, [Next]_ivars
  PROVE  DeadForReason'
  <1> SUFFICES ASSUME NEW j \in DOMAIN inbox', inbox'[j].status = "dead"
               PROVE  \/ inbox'[j].attempts >= MaxAttempts \/ ~mounted'
                      \/ WorkOn(j)'.op = "handler" \/ ~Authorized(def, WorkOn(j).op)'
                      \/ inbox'[j].event \notin WellFormed \/ ReadsCredential(def)'
    BY DEF DeadForReason
  <1>1. j \in DOMAIN inbox
    BY Grows DEF NewRow
  <1>2. /\ WorkOn(j)' = WorkOn(j) /\ inbox'[j].event = inbox[j].event /\ (mounted' => mounted)
        /\ (Authorized(def, WorkOn(j).op)' <=> Authorized(def, WorkOn(j).op))
        /\ (ReadsCredential(def)' <=> ReadsCredential(def))
    <2>1. WorkOn(j)' = WorkOn(j) /\ inbox'[j].event = inbox[j].event /\ def' = def /\ (mounted' => mounted)
      BY <1>1, WorkStays, Grows, Fixed DEF Same
    <2> QED
      BY <2>1 DEF Authorized, Asked, ReadsCredential
  <1>3. CASE inbox[j].status = "dead" /\ inbox'[j].attempts = inbox[j].attempts
    BY <1>1, <1>2, <1>3 DEF DeadForReason
  <1>4. CASE Permanent(hold[j])
    <2>1. hold[j] \in {"invalid", "denied", "permanent", "removed"}
      BY <1>4 DEF Permanent
    <2>2. \/ ~mounted \/ WorkOn(j).op = "handler" \/ ~Authorized(def, WorkOn(j).op) \/ ~WorkOn(j).fit
      BY <1>1, <2>1 DEF Reasons
    <2>3. WorkOn(j).fit \/ inbox[j].event \notin WellFormed \/ ReadsCredential(def)
      BY <1>1, WorkFacts, HookFacts, WorkAssumption DEF def
    <2> QED
      BY <1>2, <2>2, <2>3
  <1> QED
    BY <1>1, <1>3, <1>4, Statuses

\* Rows keep their keys, times and origin; new ones have what NewRow says.
LEMMA StoredStep ==
  ASSUME Types, Worked, Keyed, Dated, OnlyAuthentic, [Next]_ivars
  PROVE  Keyed' /\ Dated' /\ OnlyAuthentic'
  <1>1. ASSUME NEW j \in DOMAIN inbox', j \in DOMAIN inbox
        PROVE  /\ inbox'[j].event = inbox[j].event /\ inbox'[j].key = inbox[j].key /\ inbox'[j].ts = inbox[j].ts
               /\ inbox'[j].from = inbox[j].from /\ inbox'[j].created = inbox[j].created
    BY <1>1, Grows DEF Same
  <1>2. ASSUME NEW j \in DOMAIN inbox', j \notin DOMAIN inbox PROVE NewRow(inbox'[j])
    BY <1>2, Grows
  <1>3. Keyed'
    BY <1>1, <1>2, Fixed DEF Keyed, NewRow
  <1>4. OnlyAuthentic'
    <2>1. \A j \in DOMAIN inbox : Admitted(inbox[j].from)
      BY DEF OnlyAuthentic, Admitted
    <2>2. \A j \in DOMAIN inbox' : Admitted(inbox'[j].from)
      BY <1>1, <1>2, <2>1 DEF NewRow
    <2>3. S' = S
      BY Fixed
    <2> QED
      BY <2>2, <2>3 DEF OnlyAuthentic, Admitted
  <1>5. ASSUME NEW j \in DOMAIN inbox'
        PROVE  /\ inbox'[j].created <= now'
               /\ inbox'[j].status = "gone" => inbox'[j].created + Retention < now'
               /\ TimeSigned' => inbox'[j].created - inbox'[j].ts \in -S'.tolerance .. S'.tolerance
    <2>1. now \in Nat /\ now' \in Nat /\ now <= now' /\ Retention \in Nat /\ S' = S /\ TimeSigned' = TimeSigned
      BY Fixed, InboxAssumption DEF Types
    <2>2. CASE j \in DOMAIN inbox
      <3>1. inbox[j].created \in Nat
        BY <2>2, RowFacts DEF InboxRows
      <3>2. /\ inbox[j].created <= now
            /\ inbox[j].status = "gone" => inbox[j].created + Retention < now
            /\ TimeSigned => inbox[j].created - inbox[j].ts \in -S.tolerance .. S.tolerance
        BY <2>2 DEF Dated
      <3>3. inbox'[j].status = "gone" => inbox[j].created + Retention < now
        BY <2>2, <3>2, Statuses
      <3> QED
        BY <1>1, <2>1, <2>2, <3>1, <3>2, <3>3
    <2>3. CASE j \notin DOMAIN inbox
      <3>1. NewRow(inbox'[j])
        BY <1>2, <2>3
      <3> QED
        BY <2>1, <3>1 DEF NewRow
    <2> QED
      BY <2>2, <2>3
  <1>6. Dated'
    BY <1>5 DEF Dated
  <1> QED
    BY <1>3, <1>4, <1>6

\* A request is too old to be accepted again before its row is purged.
LEMMA StoredOnceStep ==
  ASSUME Types, Worked, Keyed, Dated, StoredOnce, [Next]_ivars
  PROVE  StoredOnce'
  <1> SUFFICES ASSUME def.dedupe # <<>>,
                      NEW i \in DOMAIN inbox', NEW j \in DOMAIN inbox', i < j, inbox'[i].event = inbox'[j].event
               PROVE  /\ inbox'[j].created > inbox'[i].created + Retention
                      /\ TimeSigned /\ Outlived(S) => inbox'[i].ts # inbox'[j].ts
    BY Fixed DEF StoredOnce
  <1>1. ASSUME NEW k \in DOMAIN inbox', k \in DOMAIN inbox
        PROVE  /\ inbox'[k].event = inbox[k].event /\ inbox'[k].ts = inbox[k].ts
               /\ inbox'[k].created = inbox[k].created
    BY <1>1, Grows DEF Same
  <1>2. CASE j \in DOMAIN inbox
    <2>1. i \in DOMAIN inbox
      BY <1>2, Grows, RowFacts
    <2> QED
      BY <1>1, <1>2, <2>1 DEF StoredOnce
  <1>3. CASE j \notin DOMAIN inbox
    <2>1. NewRow(inbox'[j]) /\ j = Len(inbox) + 1
      BY <1>3, Grows
    <2>2. i \in DOMAIN inbox
      BY <2>1, Grows
    <2>3. inbox[i].key = inbox'[j].key
      BY <1>1, <2>1, <2>2 DEF Keyed, NewRow
    <2>4. inbox[i].created + Retention < now /\ inbox'[j].created = now
      BY <2>1, <2>2, <2>3 DEF NewRow, Dated
    <2>5. ASSUME TimeSigned, Outlived(S) PROVE inbox[i].ts # inbox'[j].ts
      <3>1. S.tolerance \in Nat /\ 2 * S.tolerance <= Retention
        BY <2>5, SchemeFacts DEF TimeSigned, Outlived
      <3>2. /\ inbox[i].created - inbox[i].ts \in -S.tolerance .. S.tolerance
            /\ now - inbox'[j].ts \in -S.tolerance .. S.tolerance
        BY <2>1, <2>2, <2>5 DEF Dated, NewRow
      <3>3. /\ inbox[i].created \in Nat /\ inbox[i].ts \in Int /\ inbox'[j].ts \in Int
            /\ now \in Nat /\ Retention \in Nat
        BY <2>1, <2>2, RowFacts, InboxAssumption DEF InboxRows, NewRow, Types
      <3> DEFINE tol == S.tolerance
                 created == inbox[i].created
                 ts == inbox[i].ts
                 next == inbox'[j].ts
      <3>4. tol \in Nat /\ created \in Nat /\ ts \in Int /\ next \in Int /\ 2 * tol <= Retention
        BY <3>1, <3>3
      <3>5. created - ts >= -tol /\ now - next <= tol /\ created + Retention < now
        <4>1. created + Retention < now
          BY <2>4
        <4>2. created - ts \in -tol .. tol /\ now - next \in -tol .. tol
          BY <3>2
        <4> HIDE DEF tol, created, ts, next
        <4> QED
          BY <3>3, <3>4, <4>1, <4>2
      <3> HIDE DEF tol, created, ts, next
      <3>6. ts < next
        BY <3>3, <3>4, <3>5
      <3> QED
        BY <3>4, <3>6 DEF ts, next
    <2> QED
      BY <1>1, <2>2, <2>4, <2>5
  <1> QED
    BY <1>2, <1>3

\* A row that was just stored has had no effect.
LEMMA NewWithoutEffect ==
  ASSUME Types, Worked, [Next]_ivars, NEW j \in DOMAIN inbox', effects'[j] # 0
  PROVE  j \in DOMAIN inbox
  <1> SUFFICES ASSUME j \notin DOMAIN inbox PROVE FALSE
    OBVIOUS
  <1>1. j \in 1 .. MaxRows /\ effects' = effects
    BY Grows
  <1>2. effects[j] \in Nat
    BY <1>1 DEF Types
  <1> QED
    BY <1>1, <1>2 DEF Worked

\* A create finds the row an earlier one has left.
LEMMA CreatedStep ==
  ASSUME Types, Worked, CreatedStays, CreatedOnce, [Next]_ivars
  PROVE  CreatedStays' /\ CreatedOnce'
  <1> USE DEF CreatedStays, CreatedOnce
  <1>1. ASSUME NEW j \in DOMAIN inbox
        PROVE  /\ j \in DOMAIN inbox' /\ WorkOn(j)' = WorkOn(j) /\ inbox'[j].event = inbox[j].event
               /\ effects[j] \in Nat /\ WorkOn(j).key \in EntityKeys
    BY <1>1, WorkStays, Grows, RowFacts, WorkFacts DEF Same, Types
  <1>2. def' = def
    BY Fixed
  <1>3. CASE UNCHANGED <<table, effects, removed>>
    <2>1. CreatedStays'
      <3> SUFFICES ASSUME def.entity.natural # {}, NEW j \in DOMAIN inbox',
                          WorkOn(j)'.op = "create", effects'[j] > 0, WorkOn(j)'.key \notin removed'
                   PROVE  table'[WorkOn(j)'.key] # NoRow
        BY <1>2 DEF NoRow
      <3>1. j \in DOMAIN inbox
        BY NewWithoutEffect
      <3> QED
        BY <1>1, <1>3, <3>1
    <2>2. CreatedOnce'
      <3> SUFFICES ASSUME def.entity.natural # {}, NEW i \in DOMAIN inbox', NEW j \in DOMAIN inbox',
                          inbox'[i].event = inbox'[j].event, WorkOn(i)'.op = "create",
                          effects'[i] > 0, WorkOn(i)'.key \notin removed'
                   PROVE  effects'[i] = 1 /\ (j # i => effects'[j] = 0)
        BY <1>2
      <3>1. i \in DOMAIN inbox /\ (effects'[j] # 0 => j \in DOMAIN inbox)
        BY NewWithoutEffect
      <3> QED
        BY <1>1, <1>3, <3>1
    <2> QED
      BY <2>1, <2>2
  <1>4. ASSUME NEW w \in 1 .. MaxRows, Takes(w, WorkOn(w).op, WorkOn(w).key, WorkOn(w).ver)
        PROVE  CreatedStays' /\ CreatedOnce'
    <2> DEFINE op == WorkOn(w).op
               key == WorkOn(w).key
               ver == WorkOn(w).ver
    <2>1. /\ w \in DOMAIN inbox /\ inbox' = inbox /\ Outcome(op, ver, table[key]) = "written"
          /\ table' = [table EXCEPT ![key] = After(op, ver, table[key])]
          /\ effects' = [effects EXCEPT ![w] = effects[w] + 1]
          /\ removed' = IF op = "delete" THEN removed \cup {key} ELSE removed
      BY <1>4 DEF Takes
    <2>2. key \in EntityKeys /\ ver \in Nat
      BY <2>1, WorkFacts
    <2>3. op # "delete" => After(op, ver, table[key]) # NoRow
      BY <2>2, AfterFacts
    <2> HIDE DEF op, key, ver
    <2>4. /\ table' \in [EntityKeys -> [ver : Nat, gone : BOOLEAN]] /\ \A k \in EntityKeys : k # key => table'[k] = table[k]
          /\ table'[key] = After(op, ver, table[key])
      BY <2>1, <2>2, TypesStep, Fixed DEF Types
    <2>5. /\ \A j \in DOMAIN inbox : j # w => effects'[j] = effects[j]
          /\ effects'[w] = effects[w] + 1
      BY <2>1, RowFacts DEF Types
    <2>6. CreatedStays'
      <3> SUFFICES ASSUME def.entity.natural # {}, NEW j \in DOMAIN inbox,
                          WorkOn(j).op = "create", effects'[j] > 0, WorkOn(j).key \notin removed'
                   PROVE  table'[WorkOn(j).key] # NoRow
        BY <1>1, <1>2, <2>1 DEF NoRow
      <3>1. CASE WorkOn(j).key = key
        <4>1. op # "delete"
          BY <2>1, <3>1
        <4> QED
          BY <2>3, <2>4, <3>1, <4>1
      <3>2. CASE WorkOn(j).key # key
        <4>1. j # w
          BY <3>2 DEF key
        <4>2. table[WorkOn(j).key] # NoRow
          BY <2>1, <2>5, <4>1
        <4> QED
          BY <1>1, <2>4, <3>2, <4>2
      <3> QED
        BY <3>1, <3>2
    <2>7. CreatedOnce'
      <3> SUFFICES ASSUME def.entity.natural # {}, NEW i \in DOMAIN inbox, NEW j \in DOMAIN inbox,
                          inbox[i].event = inbox[j].event, WorkOn(i).op = "create",
                          effects'[i] > 0, WorkOn(i).key \notin removed'
                   PROVE  effects'[i] = 1 /\ (j # i => effects'[j] = 0)
        BY <1>1, <1>2, <2>1
      <3>1. WorkOn(j) = WorkOn(i) /\ effects[i] \in Nat /\ effects[j] \in Nat /\ WorkOn(i).key \notin removed
        BY <1>1, <2>1 DEF WorkOn
      <3>2. ASSUME NEW k \in DOMAIN inbox, WorkOn(k) = WorkOn(w), WorkOn(k) = WorkOn(i), effects[k] > 0
            PROVE  FALSE
        <4>1. op = "create" /\ key = WorkOn(i).key
          BY <3>2 DEF op, key
        <4>2. table[key] # NoRow
          BY <3>1, <3>2, <4>1
        <4> QED
          BY <2>1, <4>1, <4>2 DEF Outcome
      <3>3. CASE w = i
        BY <2>5, <3>1, <3>2, <3>3
      <3>4. CASE w # i
        <4>1. effects[i] > 0 /\ effects'[i] = effects[i]
          BY <2>5, <3>4
        <4>2. effects[i] = 1 /\ (j # i => effects[j] = 0)
          BY <3>1, <4>1
        <4>3. w # j
          BY <3>1, <3>2, <4>1
        <4> QED
          BY <2>5, <4>1, <4>2, <4>3
      <3> QED
        BY <3>3, <3>4
    <2> QED
      BY <2>6, <2>7
  <1> QED
    BY <1>3, <1>4, Effects

\* Where all routes only upsert, every write is an upsert.
LEMMA Upserting ==
  ASSUME Types, NEW i \in DOMAIN inbox, \A t \in DOMAIN def.routes : def.routes[t].op \in {"upsert", "handler"}
  PROVE  WorkOn(i).op \in {"none", "handler", "upsert"}
  <1>1. WorkOn(i) = Work(def, inbox[i].event)
    BY WorkFacts
  <1>2. Work(def, inbox[i].event).op = Operation(def, Column(Received(inbox[i].event, def.event)))
    BY DEF Work
  <1>3. \A type : Operation(def, type) \in {"none", "handler", "upsert"}
    BY DEF Operation, Routed
  <1> QED
    BY <1>1, <1>2, <1>3

\* A guarded upsert never lowers a version.
LEMMA ConvergesStep ==
  ASSUME Types, Worked, Converges, [Next]_ivars
  PROVE  Converges'
  <1> SUFFICES ASSUME def.entity.guard, \A t \in DOMAIN def.routes : def.routes[t].op \in {"upsert", "handler"},
                      NEW j \in DOMAIN inbox', WorkOn(j)'.op = "upsert", effects'[j] > 0
               PROVE  table'[WorkOn(j)'.key].ver >= WorkOn(j)'.ver
    BY Fixed DEF Converges
  <1>1. j \in DOMAIN inbox /\ WorkOn(j)' = WorkOn(j)
    BY NewWithoutEffect, WorkStays
  <1>2. WorkOn(j).key \in EntityKeys /\ WorkOn(j).ver \in Nat /\ j \in 1 .. MaxRows
    BY <1>1, WorkFacts, RowFacts
  <1>3. effects[j] > 0 => table[WorkOn(j).key].ver >= WorkOn(j).ver
    BY <1>1 DEF Converges
  <1>4. CASE UNCHANGED <<table, effects, removed>>
    BY <1>1, <1>3, <1>4
  <1>5. ASSUME NEW w \in 1 .. MaxRows, Takes(w, WorkOn(w).op, WorkOn(w).key, WorkOn(w).ver)
        PROVE  table'[WorkOn(j).key].ver >= WorkOn(j).ver
    <2> DEFINE op == WorkOn(w).op
               key == WorkOn(w).key
               ver == WorkOn(w).ver
    <2>1. /\ w \in DOMAIN inbox /\ op \notin {"none", "handler"} /\ Outcome(op, ver, table[key]) = "written"
          /\ table' = [table EXCEPT ![key] = After(op, ver, table[key])]
          /\ effects' = [effects EXCEPT ![w] = effects[w] + 1]
      BY <1>5 DEF Takes
    <2>2. op = "upsert" /\ key \in EntityKeys /\ ver \in Nat
      BY <2>1, Upserting, WorkFacts
    <2>3. table[key] \in [ver : Nat, gone : BOOLEAN] /\ (table[key] = NoRow \/ table[key].ver < ver)
      BY <2>1, <2>2 DEF Types, Outcome, Newer
    <2>4. table[key].ver <= ver /\ table[key].ver \in Nat
      BY <2>2, <2>3 DEF NoRow
    <2>5. After(op, ver, table[key]).ver = ver
      BY <2>2 DEF After
    <2>6. table'[key].ver = ver /\ \A k \in EntityKeys : k # key => table'[k] = table[k]
      <3> HIDE DEF op, key, ver
      <3> QED
        BY <2>1, <2>2, <2>5 DEF Types
    <2>7. CASE j = w
      BY <2>2, <2>6, <2>7
    <2>8. CASE j # w
      <3>1. table[WorkOn(j).key].ver >= WorkOn(j).ver
        BY <1>2, <1>3, <2>1, <2>8 DEF Types
      <3> HIDE DEF op, key, ver
      <3> QED
        BY <1>2, <2>2, <2>4, <2>6, <3>1
    <2> QED
      BY <2>7, <2>8
  <1> QED
    BY <1>1, <1>4, <1>5, Effects

LEMMA GrantsStep ==
  ASSUME Types, Worked, WithinGrants, [Next]_ivars
  PROVE  WithinGrants'
  <1> SUFFICES ASSUME def.role # "", def.enforcer, NEW j \in DOMAIN inbox', effects'[j] > 0
               PROVE  Granted(WorkOn(j).op)'
    BY Fixed DEF WithinGrants, Granted
  <1>1. j \in DOMAIN inbox /\ WorkOn(j)' = WorkOn(j)
    <2>1. j \in 1 .. MaxRows /\ (j \notin DOMAIN inbox => effects' = effects)
      BY Grows, RowFacts
    <2>2. j \in DOMAIN inbox
      BY <2>1 DEF Worked
    <2> QED
      BY <2>2, WorkStays
  <1>2. effects[j] > 0 => Granted(WorkOn(j).op)
    BY <1>1 DEF WithinGrants
  <1>3. ASSUME NEW w \in 1 .. MaxRows, Takes(w, WorkOn(w).op, WorkOn(w).key, WorkOn(w).ver), w # j
        PROVE  effects'[j] = effects[j]
    BY <1>1, <1>3, RowFacts DEF Takes, Types
  <1>4. ASSUME Takes(j, WorkOn(j).op, WorkOn(j).key, WorkOn(j).ver) PROVE Granted(WorkOn(j).op)
    BY <1>4 DEF Takes, Authorized, Asked, Needs, Granted
  <1>5. Granted(WorkOn(j).op)' <=> Granted(WorkOn(j).op)
    BY <1>1, Fixed DEF Granted
  <1> QED
    BY <1>1, <1>2, <1>3, <1>4, <1>5, Effects

-----------------------------------------------------------------------------
LEMMA InitInvariant ==
  ASSUME Init
  PROVE  IInv
  <1>1. Types
    <2>1. inbox \in Seq(InboxRows) /\ Len(inbox) = 0 /\ DOMAIN inbox = {}
      BY DEF Init
    <2>2. hold \in [1 .. MaxRows -> Results] /\ effects \in [1 .. MaxRows -> Nat]
      BY DEF Init, Results
    <2>3. table \in [EntityKeys -> [ver : Nat, gone : BOOLEAN]]
      BY DEF Init, NoRow
    <2> QED
      BY <2>1, <2>2, <2>3, InboxAssumption DEF Init, Types
  <1>2. DOMAIN inbox = {} /\ \A i \in 1 .. MaxRows : hold[i] = Free /\ effects[i] = 0
    BY DEF Init
  <1> QED
    BY <1>1, <1>2 DEF IInv, Worked, Reasons, Keyed, Dated, CreatedStays, OnlyAuthentic, WithinGrants, StoredOnce,
                      CreatedOnce, Converges, DeadForReason

LEMMA StepInvariant ==
  ASSUME IInv, [Next]_ivars
  PROVE  IInv'
  <1>1. Types' /\ Worked' /\ Reasons'
    BY TypesStep, WorkedStep, ReasonsStep DEF IInv
  <1>2. Keyed' /\ Dated' /\ OnlyAuthentic' /\ StoredOnce'
    BY StoredStep, StoredOnceStep DEF IInv
  <1>3. CreatedStays' /\ CreatedOnce' /\ WithinGrants'
    BY CreatedStep, GrantsStep DEF IInv
  <1>4. Converges' /\ DeadForReason'
    BY ConvergesStep, DeadStep DEF IInv
  <1> QED
    BY <1>1, <1>2, <1>3, <1>4 DEF IInv

\* internal/inbox: the inductive invariant, of receiver, table, workers and entity together.
THEOREM InboxInvariant == Spec => []IInv
  <1>1. Init => IInv
    BY InitInvariant
  <1>2. IInv /\ [Next]_ivars => IInv'
    BY StepInvariant
  <1> QED
    BY <1>1, <1>2, PTL DEF Spec

\* config/validate_webhooks.go, inbox/receiver.go: with every definition that passes validation, a stranger's
\* request is not stored, nor a changed body or time that the signed text has in it; what the provider sends
\* is not refused where its headers can show what it signs; and what comes of it is within a role that a
\* policy engine is asked about.  The settings excepted are those validation does not look at.
THEOREM OnlyTheProvider == Spec => []GuardsHold
  <1>1. IInv => GuardsHold
    BY GenuinePasses DEF IInv, GuardsHold, GenuineAccepted
  <1> QED
    BY <1>1, InboxInvariant, PTL

\* inbox/receiver.go, inbox/worker.go: whatever is repeated, by the provider, by somebody with a copy or by
\* a worker after a crash, an event is stored once per retention and creates one row.
THEOREM EventsCountOnce == Spec => []OncePerEvent
  <1>1. IInv => OncePerEvent
    BY DEF IInv, OncePerEvent
  <1> QED
    BY <1>1, InboxInvariant, PTL

\* handler/write.go (stale_guard): events out of order leave the newest.
THEOREM OrderDoesNotMatter == Spec => []Converges
  <1>1. IInv => Converges
    BY DEF IInv
  <1> QED
    BY <1>1, InboxInvariant, PTL

\* inbox/worker.go: an event that is given up has used its attempts or could never succeed.
THEOREM NothingDiesEarly == Spec => []DeadForReason
  <1>1. IInv => DeadForReason
    BY DEF IInv
  <1> QED
    BY <1>1, InboxInvariant, PTL
=============================================================================

----------------------------- MODULE Signature -----------------------------
(***************************************************************************)
(* Webhook signatures (internal/signature): the scheme a definition gives, *)
(* the headers a sender signs with and the verdict of the receiver.        *)
(*                                                                         *)
(* A digest is a term: hash, key and signed text.  Equal terms are equal   *)
(* digests and nothing else is.                                            *)
(***************************************************************************)
EXTENDS Integers, Sequences, TLC

CONSTANT DefaultTolerance  \* in ticks

ASSUME SignatureAssumption == DefaultTolerance \in Nat

Missing == -1000  \* no timestamp
Garbled == -1001  \* a timestamp that is no number

\* What a definition leaves out ("signature:" absent, or a field of it).
NoSignature == [scheme |-> "", header |-> "", prefix |-> "", encoding |-> "", timestamp |-> "",
                tolerance |-> 0, payload |-> <<>>]

Effective(sig, secret) ==
    IF sig.scheme # "" THEN sig.scheme ELSE IF secret # "" THEN "yaypi_v1" ELSE "none"

Signing == {"yaypi_v1", "hmac_sha256", "hmac_sha1", "github", "stripe", "slack"}

Preset(header, prefix, timestamp, hash) == [header |-> header, prefix |-> prefix, timestamp |-> timestamp, hash |-> hash]
Presets ==
    [yaypi_v1    |-> Preset("X-Yaypi-Signature", "v1=", "X-Yaypi-Timestamp", "sha256"),
     github      |-> Preset("X-Hub-Signature-256", "sha256=", "", "sha256"),
     slack       |-> Preset("X-Slack-Signature", "v0=", "X-Slack-Request-Timestamp", "sha256"),
     stripe      |-> Preset("Stripe-Signature", "", "", "sha256"),
     hmac_sha256 |-> Preset("", "", "", "sha256"),
     hmac_sha1   |-> Preset("", "", "", "sha1")]

Or(a, b) == IF a # "" THEN a ELSE b

Tolerance(sig) == IF sig.tolerance = 0 THEN DefaultTolerance ELSE sig.tolerance

\* Stripe carries the timestamp inside its header; a scheme with a timestamp signs it.
Resolve(sig, secret) ==
    LET name == Effective(sig, secret)
        preset == Presets[name]
        stamped == IF name = "stripe" THEN "" ELSE Or(sig.timestamp, preset.timestamp)
    IN  [name |-> name, hash |-> preset.hash, timestamp |-> stamped,
         header |-> Or(sig.header, preset.header), prefix |-> Or(sig.prefix, preset.prefix),
         encoding |-> Or(sig.encoding, "hex"),
         tolerance |-> Tolerance(sig),
         payload |-> IF sig.payload # <<>> THEN sig.payload
                     ELSE IF name = "slack" THEN <<"v0:", "{timestamp}", ":", "{body}">>
                     ELSE IF stamped # "" \/ name = "stripe" THEN <<"{timestamp}", ".", "{body}">>
                     ELSE <<"{body}">>]

Stamped(s) == s.timestamp # "" \/ s.name = "stripe"

\* The signed text: every {timestamp}, and the first {body}, filled in.
Digest(s, secret, unix, body) ==
    LET first(i) == \A j \in 1 .. i - 1 : s.payload[j] # "{body}"
        fill(i) == CASE s.payload[i] = "{timestamp}" -> <<"timestamp", unix>>
                     [] s.payload[i] = "{body}" /\ first(i) -> <<"body", body>>
                     [] OTHER -> <<"text", s.payload[i]>>
    IN  [key |-> secret, hash |-> s.hash, encoding |-> s.encoding, text |-> [i \in DOMAIN s.payload |-> fill(i)]]

\* A header: its prefix, the time inside it (Stripe's t=, or all of a timestamp header) and the
\* candidate digests.
Value(prefix, t, candidates) == [prefix |-> prefix, t |-> t, candidates |-> candidates]
NoValue == Value("", Missing, {})

\* The headers that show digests and the time; of two with one name the time is the one that stays.
Showing(s, digests, ts) ==
    LET timed == IF s.name = "stripe" \/ s.timestamp = "" THEN {} ELSE {s.timestamp}
        value == IF s.name = "stripe" THEN Value("", ts, digests) ELSE Value(s.prefix, Missing, digests)
    IN  [header \in {s.header} \cup timed |-> IF header \in timed THEN Value("", ts, {}) ELSE value]

\* The headers that sign a body at a time.
Sign(s, secret, body, ts) == Showing(s, {Digest(s, secret, ts, body)}, ts)

\* Within the tolerance, whichever clock is ahead.
Fresh(s, unix, now) == unix # Missing => now - unix \in -s.tolerance .. s.tolerance

\* The verdict on a request with headers h.
Verify(s, secret, h, body, now) ==
    LET value == IF s.header \in DOMAIN h THEN h[s.header] ELSE NoValue
        unix == IF s.name = "stripe" THEN value.t
                ELSE IF s.timestamp \in DOMAIN h THEN h[s.timestamp].t ELSE Missing
    IN  IF value = NoValue THEN "missing"
        ELSE IF s.name = "stripe" /\ (unix = Missing \/ value.candidates = {}) THEN "malformed"
        ELSE IF s.name # "stripe" /\ s.prefix # "" /\ value.prefix # s.prefix THEN "malformed"
        ELSE IF s.timestamp # "" /\ unix = Missing THEN "missing"
        ELSE IF unix = Garbled THEN "malformed"
        ELSE IF ~Fresh(s, unix, now) THEN "stale"
        ELSE IF value.prefix = s.prefix \/ s.name = "stripe"
             THEN IF Digest(s, secret, unix, body) \in value.candidates THEN "ok" ELSE "mismatch"
        ELSE "mismatch"
=============================================================================

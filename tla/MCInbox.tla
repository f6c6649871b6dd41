------------------------------ MODULE MCInbox ------------------------------
(***************************************************************************)
(* Instances of Inbox for TLC: a contact is created, then updated, and a   *)
(* third event makes no sense for a contact.  Among the definitions are    *)
(* those that validation lets pass though their signatures do not cover    *)
(* what they should.                                                       *)
(***************************************************************************)
EXTENDS Inbox

MCSkews == {-1, 1}
MCEvents == {"e1", "e2", "odd"}
MCId == [e \in MCEvents |-> e]
Number(n) == Json("number", n)
Words(t) == Json("text", t)
Payload(type, ref, ver, at) ==
    Json("map", [type |-> Words(type), tags |-> Json("list", <<Words("x"), ver>>),
                 data |-> Json("map", [ref |-> ref, ver |-> ver, at |-> at])])

\* Numbers where the column is text, and text where it is a number; a reference that is an object.
Bodies == [e \in MCEvents |->
    CASE e = "e1" -> Payload("created", Number("7"), Words("1"), Number("1"))
      [] e = "e2" -> Payload("updated", Words("7"), Number("2"), Number("2"))
      [] e = "odd" -> Payload("a name too long", Json("map", [a |-> Null]), Null, Null)]

-----------------------------------------------------------------------------
Placeholder(path) == [kind |-> "placeholder", path |-> path]
Mixed(before, path) == [kind |-> "mixed", before |-> before, path |-> path]
Literal(value) == [kind |-> "literal", value |-> value]

Ref == Placeholder(<<"body", "data", "ref">>)
Contact == [ref |-> Ref, ver |-> Placeholder(<<"body", "tags", "1">>), at |-> Placeholder(<<"body", "data", "at">>),
            name |-> Mixed("no. ", <<"query", "n">>), on |-> Literal(Words("true"))]

Route(op, key, map) == [op |-> op, key |-> key, map |-> map]
Create == Route("create", <<>>, Contact)
Upsert == Route("upsert", <<>>, Contact)
Update == Route("update", [ref |-> Ref], Contact)
Delete == Route("delete", [ref |-> Ref], <<>>)
Handler == Route("handler", <<>>, <<>>)

FieldTypes == [ref |-> "string", ver |-> "integer", at |-> "timestamptz", name |-> "string", on |-> "boolean"]
Entity(natural, guard, soft) == [types |-> FieldTypes, natural |-> natural, guard |-> guard, soft |-> soft]
Guarded1 == Entity({"ref"}, TRUE, TRUE)

Type == <<"body", "type">>
EventId == <<"headers", "X-Event-Id">>
NoChallenge == [method |-> "", when |-> ""]
Def(secret, sig, dedupe, routes, entity) ==
    [secret |-> secret, sig |-> sig, token |-> "", ips |-> FALSE, auth |-> FALSE, dedupe |-> dedupe,
     event |-> Type, challenge |-> NoChallenge, role |-> "", enforcer |-> TRUE, routes |-> routes, entity |-> entity]
Sig(scheme) == [NoSignature EXCEPT !.scheme = scheme]
Hmac(timestamp, payload) ==
    [Sig("hmac_sha256") EXCEPT !.header = "X-Sig", !.timestamp = timestamp, !.payload = payload]

\* Definitions that run ...
Plain1 == Def("s", NoSignature, EventId, [created |-> Create, updated |-> Update], Entity({"ref"}, FALSE, FALSE))
Deleting == [Def("s", Sig("github"), EventId, [created |-> Create, updated |-> Delete], Entity({"ref"}, FALSE, FALSE))
                EXCEPT !.auth = TRUE]
Upserting == [Def("s", Sig("stripe"), EventId, [created |-> Upsert, updated |-> Upsert] @@ "*" :> Handler, Guarded1)
                 EXCEPT !.challenge = [method |-> "POST", when |-> "updated"]]
Syncing == Def("s", [Hmac("X-Time", <<"{body}", "|", "{timestamp}">>) EXCEPT !.encoding = "base64"],
               <<>>, "*" :> Upsert, Guarded1)
Tokened == [Def("", NoSignature, EventId, "*" :> Upsert, Guarded1)
               EXCEPT !.token = "header", !.ips = TRUE, !.event = <<>>, !.role = "writer"]
Creating == [Def("s", Sig("github"), EventId, [created |-> Upsert, updated |-> Create], Guarded1)
                EXCEPT !.role = "creator", !.token = "query"]
Verifying == Def("", Sig("plugin"), EventId, [updated |-> Route("upsert", <<>>,
                 [Contact EXCEPT !.ref = Placeholder(<<"headers", "X-Api-Key">>)])], Guarded1)
Signed(sig) == Def("s", sig, EventId, "*" :> Upsert, Guarded1)
Unpoliced == [Signed(Sig("slack")) EXCEPT !.role = "nobody", !.enforcer = FALSE]

\* ... some of them with a signature that leaves something out ...
Loose == [bodiless |-> Signed(Hmac("X-Time", <<"v1:", "{timestamp}">>)), untimed |-> Signed(Hmac("X-Time", <<"{body}">>)),
          undated |-> Signed(Hmac("", <<"{timestamp}", "{body}">>)), clashing |-> Signed(Hmac("X-Sig", <<>>)),
          patient |-> Signed([Sig("yaypi_v1") EXCEPT !.tolerance = 2])]

\* ... and definitions that are refused at boot.
Definitions ==
    [plain |-> Plain1, deleting |-> Deleting, upserting |-> Upserting, syncing |-> Syncing, tokened |-> Tokened,
     creating |-> Creating, verifying |-> Verifying, unpoliced |-> Unpoliced,
     open |-> [Tokened EXCEPT !.token = "", !.ips = FALSE],
     unkeyed |-> [Tokened EXCEPT !.dedupe = <<>>],
     unchecked |-> [Plain1 EXCEPT !.sig = Sig("none")],
     secretless |-> [Plain1 EXCEPT !.secret = "", !.sig = Sig("yaypi_v1")],
     unrouted |-> [Plain1 EXCEPT !.event = <<>>],
     ambiguous |-> [Upserting EXCEPT !.entity.natural = {}],
     partial |-> [Deleting EXCEPT !.entity.natural = {"ref", "name"}]] @@ Loose

SentTo ==
    [n \in DOMAIN Definitions |->
        CASE n = "unpoliced" -> {"e1", "odd"} [] n \in {"upserting", "verifying"} -> {"e2", "odd"}
          [] n \in {"tokened", "untimed", "patient"} -> {"e1"} [] OTHER -> {"e1", "e2"}]
MCGrants == {<<"writer", "create">>, <<"writer", "update">>, <<"creator", "create">>}

\* TLC evaluates a definition once, but not the one that a constant stands for.
MCDefs == Definitions
MCSends == SentTo
MCBody == Bodies
=============================================================================

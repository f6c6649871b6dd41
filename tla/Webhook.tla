------------------------------ MODULE Webhook ------------------------------
(***************************************************************************)
(* The definition of an inbound webhook: which definitions a server starts *)
(* with (config/validate_webhooks.go), and how a definition reads values   *)
(* out of a request and fits them to an entity (inbox/template.go).        *)
(*                                                                         *)
(* A definition is a record                                                *)
(*   secret, sig (module Signature), token ("", "header" or "query"),      *)
(*   ips, auth (is the guard set), dedupe and event (paths),               *)
(*   challenge [method, when], role,                                       *)
(*   enforcer (is a policy engine configured beside it),                   *)
(*   routes: event text -> [op, key, map], key and map being fields ->     *)
(*           templates, op = "handler" for a plugin's                      *)
(*   entity: [types (field -> type), natural, guard, soft]                 *)
(* A path is a sequence of names.                                          *)
(***************************************************************************)
EXTENDS Signature

CONSTANTS
    Grants,     \* <<role, operation>> pairs the policy allows on the entity
    LongNames   \* event names longer than the column

-----------------------------------------------------------------------------
(* Values: decoded JSON as [is, of]. *)

Json(is, of) == [is |-> is, of |-> of]
Null == Json("null", "")

\* An array index, as a path spells it.
Index == [i \in {"0", "1", "2"} |-> CASE i = "0" -> 1 [] i = "1" -> 2 [] OTHER -> 3]

Into(node, name) ==
    IF node.is = "map" /\ name \in DOMAIN node.of THEN node.of[name]
    ELSE IF node.is = "list" /\ name \in DOMAIN Index /\ Index[name] \in DOMAIN node.of THEN node.of[Index[name]]
    ELSE Null

\* Null when a name on the way is missing.
Lookup(scope, path) ==
    LET at[i \in 0 .. Len(path)] == IF i = 0 THEN scope ELSE Into(at[i - 1], path[i])
    IN  at[Len(path)]

\* The text of a value, "" when there is none.
Plain(node) ==
    CASE node.is = "null" -> ""
      [] node.is \in {"map", "list"} -> "{}"
      [] OTHER -> node.of

Text(scope, path) == IF path = <<>> THEN "" ELSE Plain(Lookup(scope, path))

\* A template: exactly one placeholder keeps the value's type, mixed text is text, anything
\* else is a literal.
Render(scope, template) ==
    CASE template.kind = "placeholder" -> Lookup(scope, template.path)
      [] template.kind = "mixed" -> Json("text", template.before \o Text(scope, template.path))
      [] OTHER -> template.value

\* The numbers and booleans the texts of the model spell, and the time of a number of seconds.
Numeral == [n \in {"1", "2", "7"} |-> CASE n = "1" -> 1 [] n = "2" -> 2 [] OTHER -> 7]
Numbers == DOMAIN Numeral
Booleans == {"true", "false"}
Rfc3339(seconds) == seconds \o "Z"
Times == {Rfc3339(n) : n \in Numbers}

\* A machine's value whose meaning is unambiguous, in the type of the field.
Adapt(type, node) ==
    CASE type = "string" /\ node.is \in {"number", "bool"} -> Json("text", node.of)
      [] type = "integer" /\ node.is = "text" /\ node.of \in Numbers -> Json("number", node.of)
      [] type = "boolean" /\ node.is = "text" /\ node.of \in Booleans -> Json("bool", node.of)
      [] type = "timestamptz" /\ node.is = "number" -> Json("text", Rfc3339(node.of))
      [] OTHER -> node

\* What create and update accept for a field; null is refused where it is a key.
Coerces(type, node) ==
    CASE type = "string" -> node.is = "text"
      [] type = "integer" -> node.is = "number"
      [] type = "boolean" -> node.is = "bool"
      [] type = "timestamptz" -> node.is = "text" /\ node.of \in Times

RenderFields(def, scope, block) ==
    [f \in DOMAIN block |-> IF f \in DOMAIN def.entity.types THEN Adapt(def.entity.types[f], Render(scope, block[f]))
                            ELSE Render(scope, block[f])]

-----------------------------------------------------------------------------
(* Validation at boot. *)

Scheme(def) == Effective(def.sig, def.secret)
Unsigned(def) == Scheme(def) = "none"

InboundGuarded(def) == def.auth \/ def.token # "" \/ def.ips

\* A path names a part of the request.
RequestPath(path) == path # <<>> /\ path[1] \in {"body", "headers", "query"}

SignatureValid(def) ==
    /\ Scheme(def) \in Signing \cup {"none", "plugin"}
    /\ Unsigned(def) => def.secret = ""
    /\ Scheme(def) \in Signing => def.secret # ""
    /\ Scheme(def) \in {"hmac_sha256", "hmac_sha1"} => def.sig.header # ""
    /\ def.sig.encoding \in {"", "hex", "base64"}

MutGuarded(def) == Unsigned(def) => def.dedupe # <<>>

\* An unsigned receiver says how it is protected, and drops repeats.
Guarded(def) == Unsigned(def) => InboundGuarded(def) /\ def.dedupe # <<>>

ChallengeValid(def) ==
    def.challenge.method = "POST" => def.challenge.when # "" /\ def.event # <<>>

PathsValid(def) == \A path \in {def.dedupe, def.event} : path # <<>> => RequestPath(path)

\* The key of an update or delete is the primary key alone or exactly the natural key.
KeyIsUnique(def, fields) == fields = {"id"} \/ (fields # {} /\ fields = def.entity.natural)

TemplatePaths(block) == {block[f].path : f \in {g \in DOMAIN block : block[g].kind # "literal"}}

RouteValid(def, route) ==
    \/ route.op = "handler" /\ DOMAIN route.map = {} /\ DOMAIN route.key = {}
    \/ /\ route.op \in {"create", "upsert", "update", "delete"}
       /\ (DOMAIN route.map = {}) <=> route.op = "delete"
       /\ IF route.op \in {"create", "upsert"} THEN DOMAIN route.key = {}
          ELSE KeyIsUnique(def, DOMAIN route.key)
       /\ route.op = "upsert" => def.entity.natural # {}
       /\ \A block \in {route.map, route.key} :
             /\ DOMAIN block \subseteq DOMAIN def.entity.types \cup {"id"}
             /\ \A path \in TemplatePaths(block) : RequestPath(path)

RoutesValid(def) ==
    /\ DOMAIN def.routes # {}
    /\ def.event = <<>> => DOMAIN def.routes = {"*"}
    /\ \A e \in DOMAIN def.routes : RouteValid(def, def.routes[e])

\* The definitions a server starts with.
Valid(def) ==
    SignatureValid(def) /\ Guarded(def) /\ ChallengeValid(def) /\ PathsValid(def) /\ RoutesValid(def)

-----------------------------------------------------------------------------
(* Routing and authorization in the worker. *)

\* An event's own route, or "*".
RouteOf(def, event) == IF event \in DOMAIN def.routes THEN event ELSE "*"
Routed(def, event) == RouteOf(def, event) \in DOMAIN def.routes

\* An upsert needs create and update; without a role, or without a policy engine, nobody is asked.
Needs(op) == IF op = "upsert" THEN {"create", "update"} ELSE {op}
Asked(def) == def.role # "" /\ def.enforcer
Authorized(def, op) == Asked(def) => \A a \in Needs(op) : <<def.role, a>> \in Grants
=============================================================================

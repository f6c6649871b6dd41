----------------------------- MODULE Lifecycle -----------------------------
(***************************************************************************)
(* One server process from Run to its return: the boot, stage by stage,    *)
(* the background parts it starts, and the graceful shutdown, with a load  *)
(* balancer that polls readiness and routes requests here.                 *)
(*                                                                         *)
(* Time counts from the start of the shutdown.  The main goroutine's steps *)
(* take no time except where the code waits.                               *)
(***************************************************************************)
EXTENDS Integers, Sequences, FiniteSets

CONSTANTS
    Configs,      \* [strict, has (features), dbs, plugins, drain (drain_delay), grace (shutdown_timeout)]
    Breakages,    \* sets of stages that go wrong
    Requests,
    CronStop,     \* gocron's own limit on waiting for its jobs
    PollEvery     \* the load balancer reads readiness at least this often

\* Durations are numbers.
LifecycleAssumption ==
    /\ PollEvery \in Nat /\ CronStop \in Nat
    /\ \A c \in Configs : c.drain \in Nat /\ c.grace \in Nat

VARIABLES
    conf, bad,
    at,           \* where Run is: "boot", "serving", a step of the shutdown, "exited"
    stage,        \* the boot's stage
    built,        \* boot stages that did their work
    opened,       \* databases connected, -1 once closed
    plugins,      \* [up, down]: plugins initialised and shut down
    part,         \* background part -> "off", "idle" or "busy"
    asked,        \* parts told to stop
    net,          \* [listener, draining, failed (runErr)]
    time,         \* [elapsed, closed (when the listener was), cron (time spent in sched.Stop)]
    req,          \* request -> "none", "sent", "inflight", "done" or "refused"
    balancer      \* [routes, age (of its last poll)]

lvars == <<conf, bad, at, stage, built, opened, plugins, part, asked, net, time, req, balancer>>

Workers == {"outbox", "inbox"}
Parts == Workers \cup {"cron", "audit"}
Has(f) == f \in conf.has

-----------------------------------------------------------------------------
(* Boot *)

Stages == <<"config", "validate", "schema", "databases", "migrate", "policy", "queue", "email", "outbox", "audit",
            "tokens", "auth", "openapi", "apikeys", "proxies", "plugins", "inbound", "cron", "outboxStart", "inboxStart">>

Stage == Stages[stage]
Booting == at = "boot"
Served == stage = Len(Stages) + 1

\* Which stages a configuration has.
Configured(s) ==
    CASE s = "databases" -> conf.dbs > 0
      [] s = "migrate" -> conf.dbs > 0 /\ Has("auto_migrate")
      [] s \in {"queue", "outbox"} -> Has("webhooks") \/ Has("emails") \/ Has("reset")
      [] s = "outboxStart" -> "outbox" \in built
      [] s = "email" -> Has("emails")
      [] s = "audit" -> Has("audit") /\ conf.dbs > 0
      [] s \in {"tokens", "auth"} -> Has("auth")
      [] s = "inboxStart" -> "inbound" \in built
      [] s \in {"policy", "openapi", "apikeys", "plugins", "inbound", "cron"} -> Has(s)
      [] OTHER -> TRUE

\* What a stage asks of the rest of the configuration.
Unmet(s) ==
    \/ s \in {"queue", "auth", "apikeys", "inbound"} /\ conf.dbs = 0
    \/ s = "auth" /\ Has("reset") /\ ~Has("smtp")
    \/ s = "email" /\ ~Has("smtp")

Goes(s) == Configured(s) /\ ~Unmet(s) /\ s \notin bad
MayDegrade == {"email", "openapi", "cron"}

\* The databases are opened and pinged one after the other, the plugins initialised one after
\* the other; the first that fails ends the boot.
Connect ==
    /\ Booting /\ Stage = "databases" /\ opened < conf.dbs /\ Goes("databases")
    /\ opened' = opened + 1
    /\ UNCHANGED <<conf, bad, at, stage, built, plugins, part, asked, net, time, req, balancer>>

InitAll ==
    /\ Booting /\ Stage = "plugins" /\ Goes("plugins") /\ plugins.up < conf.plugins
    /\ plugins' = [plugins EXCEPT !.up = @ + 1]
    /\ UNCHANGED <<conf, bad, at, stage, built, opened, part, asked, net, time, req, balancer>>

\* The background part a stage starts.
Starts(s) ==
    CASE s = "outboxStart" -> {"outbox"} [] s = "inboxStart" -> {"inbox"} [] s = "audit" -> {"audit"}
      [] s = "cron" -> {"cron"} [] OTHER -> {}

Pass ==
    /\ Booting
    /\ Stage = "databases" => opened = conf.dbs
    /\ (Stage = "plugins" /\ Configured(Stage)) => plugins.up = conf.plugins
    /\ ~Configured(Stage) \/ Goes(Stage)
    /\ built' = IF Configured(Stage) THEN built \cup {Stage} ELSE built
    /\ part' = [p \in Parts |-> IF Configured(Stage) /\ p \in Starts(Stage)
                                THEN IF p = "audit" THEN "busy" ELSE "idle" ELSE part[p]]
    /\ stage' = stage + 1
    /\ at' = IF stage = Len(Stages) THEN "serving" ELSE at
    /\ UNCHANGED <<conf, bad, opened, plugins, asked, net, time, req, balancer>>

\* Unless strict_startup, a degraded subsystem is left out.
Degrade ==
    /\ Booting /\ Configured(Stage) /\ ~Goes(Stage)
    /\ Stage \in MayDegrade /\ ~conf.strict
    /\ stage' = stage + 1
    /\ UNCHANGED <<conf, bad, at, built, opened, plugins, part, asked, net, time, req, balancer>>

\* Run returns; only what was deferred is cleaned up: a Manager that NewManager returned.
Abort ==
    /\ Booting /\ Configured(Stage) /\ ~Goes(Stage)
    /\ Stage \in MayDegrade => conf.strict
    /\ at' = "exited"
    /\ opened' = IF "databases" \in built THEN -1 ELSE opened
    /\ UNCHANGED <<conf, bad, stage, built, plugins, part, asked, net, time, req, balancer>>

-----------------------------------------------------------------------------
(* Serving *)

\* The listener's goroutine: it does not open a listener once Shutdown was called.
Listen ==
    /\ at \in {"serving", "drain"} /\ net.listener = "starting" /\ "listen" \notin bad
    /\ net' = [net EXCEPT !.listener = "open"]
    /\ UNCHANGED <<conf, bad, at, stage, built, opened, plugins, part, asked, time, req, balancer>>

ListenFails ==
    /\ at \in {"serving", "drain"} /\ net.listener = "starting" /\ "listen" \in bad
    /\ net' = [net EXCEPT !.listener = "closed"]
    /\ UNCHANGED <<conf, bad, at, stage, built, opened, plugins, part, asked, time, req, balancer>>

Readiness(ping) == net.listener = "open" /\ (Has("health") => ~net.draining /\ ping)

\* The load balancer reads readiness (or, without it, whether the port answers).
Poll(ping) ==
    /\ at # "exited"
    /\ balancer' = [routes |-> Readiness(ping), age |-> 0]
    /\ UNCHANGED <<conf, bad, at, stage, built, opened, plugins, part, asked, net, time, req>>

Send(r) ==
    /\ balancer.routes /\ req[r] = "none"
    /\ req' = [req EXCEPT ![r] = "sent"]
    /\ UNCHANGED <<conf, bad, at, stage, built, opened, plugins, part, asked, net, time, balancer>>

Receive(r) ==
    /\ req[r] = "sent"
    /\ req' = [req EXCEPT ![r] = IF net.listener = "open" THEN "inflight" ELSE "refused"]
    /\ UNCHANGED <<conf, bad, at, stage, built, opened, plugins, part, asked, net, time, balancer>>

Answer(r) ==
    /\ at # "exited" /\ req[r] = "inflight"
    /\ req' = [req EXCEPT ![r] = "done"]
    /\ UNCHANGED <<conf, bad, at, stage, built, opened, plugins, part, asked, net, time, balancer>>

\* A worker that is told to stop may still see its ticker first; gocron starts no job then.
WorkStarts(p) ==
    /\ at # "exited" /\ part[p] = "idle" /\ (p = "cron" => p \notin asked)
    /\ part' = [part EXCEPT ![p] = "busy"]
    /\ UNCHANGED <<conf, bad, at, stage, built, opened, plugins, asked, net, time, req, balancer>>

WorkEnds(p) ==
    /\ at # "exited" /\ part[p] = "busy"
    /\ part' = [part EXCEPT ![p] = "idle"]
    /\ UNCHANGED <<conf, bad, at, stage, built, opened, plugins, asked, net, time, req, balancer>>

LoopEnds(p) ==
    /\ at # "exited" /\ part[p] = "idle" /\ p \in asked
    /\ part' = [part EXCEPT ![p] = "off"]
    /\ UNCHANGED <<conf, bad, at, stage, built, opened, plugins, asked, net, time, req, balancer>>

-----------------------------------------------------------------------------
(* Shutdown *)

\* The context of the whole shutdown.
Deadline == conf.grace + conf.drain
Expired == time.elapsed >= Deadline

MutSetDraining(failed) ==
    /\ net' = [net EXCEPT !.failed = failed]
    /\ at' = IF conf.drain > 0 /\ ~failed THEN "drain" ELSE "close"

\* Readiness fails from now on; without an error the server keeps serving for drain_delay.
SetDraining(failed) ==
    /\ net' = [net EXCEPT !.draining = TRUE, !.failed = failed]
    /\ at' = IF conf.drain > 0 /\ ~failed THEN "drain" ELSE "close"

\* A signal, or the listener's error, whichever the select sees.
StopServing ==
    /\ at = "serving"
    /\ SetDraining(FALSE) \/ (net.listener = "closed" /\ SetDraining(TRUE))
    /\ UNCHANGED <<conf, bad, stage, built, opened, plugins, part, asked, time, req, balancer>>

Drained ==
    /\ at = "drain" /\ time.elapsed >= conf.drain
    /\ at' = "close"
    /\ UNCHANGED <<conf, bad, stage, built, opened, plugins, part, asked, net, time, req, balancer>>

\* srv.Shutdown closes the listener and then waits for the requests or the context.
CloseListener ==
    /\ at = "close"
    /\ net' = [net EXCEPT !.listener = "closed"]
    /\ time' = [time EXCEPT !.closed = time.elapsed]
    /\ at' = "requests"
    /\ UNCHANGED <<conf, bad, stage, built, opened, plugins, part, asked, req, balancer>>

\* An unbounded context instead.
MutRequestsOver ==
    /\ at = "requests"
    /\ \A r \in Requests : req[r] # "inflight"
    /\ at' = "cron"
    /\ UNCHANGED <<conf, bad, stage, built, opened, plugins, part, asked, net, time, req, balancer>>

RequestsOver ==
    /\ at = "requests"
    /\ Expired \/ \A r \in Requests : req[r] # "inflight"
    /\ at' = "cron"
    /\ UNCHANGED <<conf, bad, stage, built, opened, plugins, part, asked, net, time, req, balancer>>

\* sched.Stop, worker.Stop and stopAuditRetention in turn: each tells the part to stop and waits.
After(p) == CASE p = "cron" -> "outbox" [] p = "outbox" -> "inbox" [] p = "inbox" -> "audit" [] OTHER -> "shutdownAll"

Ask ==
    /\ at \in Parts /\ at \notin asked
    /\ asked' = asked \cup {at}
    /\ UNCHANGED <<conf, bad, at, stage, built, opened, plugins, part, net, time, req, balancer>>

MutStopped(p) == part[p] # "busy" \/ Expired

\* gocron waits for its jobs up to a limit of its own, the workers for the loop and what is in
\* flight up to the context, and nobody waits for the purge.
Stopped(p) ==
    CASE p = "cron" -> part[p] # "busy" \/ time.cron >= CronStop
      [] p \in Workers -> part[p] = "off" \/ Expired
      [] OTHER -> TRUE

Stop ==
    /\ at \in asked /\ Stopped(at)
    /\ at' = After(at)
    /\ UNCHANGED <<conf, bad, stage, built, opened, plugins, part, asked, net, time, req, balancer>>

\* A plugin takes what time it wants, up to the context.
ShutdownAll ==
    /\ at = "shutdownAll"
    /\ IF plugins.down < conf.plugins
       THEN plugins' = [plugins EXCEPT !.down = @ + 1] /\ UNCHANGED <<at, opened>>
       ELSE at' = "exited" /\ opened' = (IF "databases" \in built THEN -1 ELSE opened) /\ UNCHANGED plugins
    /\ UNCHANGED <<conf, bad, stage, built, part, asked, net, time, req, balancer>>

-----------------------------------------------------------------------------
Main == \/ Connect \/ InitAll \/ Pass \/ Degrade \/ Abort
        \/ Drained \/ CloseListener \/ RequestsOver \/ Ask \/ Stop \/ ShutdownAll

\* Time passes only while Run waits: asleep, for requests, for a part, or in a plugin.
Waits ==
    \/ at = "drain" /\ time.elapsed < conf.drain
    \/ at = "requests" /\ ~Expired /\ \E r \in Requests : req[r] = "inflight"
    \/ at \in asked /\ ~Stopped(at)
    \/ at = "shutdownAll" /\ ~Expired

Tick ==
    /\ Waits /\ balancer.age < PollEvery /\ \A r \in Requests : req[r] # "sent"
    /\ time' = [time EXCEPT !.elapsed = @ + 1, !.cron = IF at = "cron" THEN @ + 1 ELSE @]
    /\ balancer' = [balancer EXCEPT !.age = @ + 1]
    /\ UNCHANGED <<conf, bad, at, stage, built, opened, plugins, part, asked, net, req>>

Init ==
    /\ conf \in Configs /\ bad \in Breakages
    /\ at = "boot" /\ stage = 1 /\ built = {} /\ opened = 0
    /\ plugins = [up |-> 0, down |-> 0]
    /\ part = [p \in Parts |-> "off"] /\ asked = {}
    /\ net = [listener |-> "starting", draining |-> FALSE, failed |-> FALSE]
    /\ time = [elapsed |-> 0, closed |-> 0, cron |-> 0]
    /\ req = [r \in Requests |-> "none"]
    /\ balancer = [routes |-> FALSE, age |-> 0]

Next ==
    \/ Main \/ StopServing \/ Listen \/ ListenFails \/ Tick
    \/ \E ping \in BOOLEAN : Poll(ping)
    \/ \E r \in Requests : Send(r) \/ Receive(r) \/ Answer(r)
    \/ \E p \in Parts : WorkStarts(p) \/ WorkEnds(p) \/ LoopEnds(p)

\* Run goes on, time passes, the balancer polls and what it sent arrives.
Fairness ==
    /\ WF_lvars(Main) /\ WF_lvars(Tick)
    /\ WF_lvars(\E ping \in BOOLEAN : Poll(ping))
    /\ \A r \in Requests : WF_lvars(Receive(r))

Spec == Init /\ [][Next]_lvars /\ Fairness

-----------------------------------------------------------------------------
TypeOK ==
    /\ conf \in Configs /\ bad \in Breakages
    /\ stage \in 1 .. Len(Stages) + 1
    /\ at \in Parts \cup {"boot", "serving", "drain", "close", "requests", "shutdownAll", "exited"}
    /\ built \subseteq {Stages[i] : i \in DOMAIN Stages} /\ opened \in -1 .. conf.dbs
    /\ plugins \in [up : 0 .. conf.plugins, down : 0 .. conf.plugins]
    /\ part \in [Parts -> {"off", "idle", "busy"}] /\ asked \subseteq Parts
    /\ net \in [listener : {"starting", "open", "closed"}, draining : BOOLEAN, failed : BOOLEAN]
    /\ req \in [Requests -> {"none", "sent", "inflight", "done", "refused"}]

\* When the first plugin is shut down or the pools close, nothing that uses them is running
\* any more, unless the time for it was over (server.go: "4. shut plugins down; databases close").
QuietClose ==
    (Served /\ at \in {"shutdownAll", "exited"}) =>
        /\ (\E r \in Requests : req[r] = "inflight") => Expired
        /\ (\E p \in Workers : part[p] # "off") => Expired
        /\ part["cron"] = "busy" => time.cron >= CronStop

\* A request that the shutdown leaves unfinished had the whole of shutdown_timeout after the
\* last connection was accepted, however long the drain.
GraceHonoured ==
    ((\E r \in Requests : req[r] = "inflight") /\ Served /\ at \notin {"serving", "drain", "close", "requests"})
        => time.elapsed - time.closed >= conf.grace

\* docs/production.md: "With readiness draining and graceful shutdown, a rolling restart applies
\* config changes without dropping requests": a balancer that polls within drain_delay sends
\* nothing to a closed port.
NoRefusal ==
    (Has("health") /\ conf.drain > PollEvery /\ ~net.failed) => \A r \in Requests : req[r] # "refused"

\* Run returns within shutdown_timeout + drain_delay and what gocron adds to it.
ShutdownBounded == time.elapsed <= Deadline + (IF "cron" \in built THEN CronStop ELSE 0)

\* Shutdown (server.go): the steps follow one another on one deadline, and each leaves the
\* later ones what they were promised.
StopsInOrder == QuietClose /\ GraceHonoured /\ ShutdownBounded

\* A boot ends in a server or in an error, and a shutdown ends, whatever does not.
ComesToRest == at \notin {"serving", "exited"} ~> at \in {"serving", "exited"}
=============================================================================

---------------------------- MODULE MCLifecycle ----------------------------
(***************************************************************************)
(* Instances for TLC of what runs beside the requests: a server's boot and *)
(* shutdown, with everything, with parts of it, with needs that are not    *)
(* met or with a stage that fails; and a cron job on the replicas that     *)
(* serve.  They share no state, so a behaviour runs one of them; the       *)
(* variables of the other are Off.                                         *)
(***************************************************************************)
EXTENDS Integers, Sequences, FiniteSets

CONSTANTS
    Replicas, Period, Skew, Lease, MinHold, MaxTries, Timeout, Delay, MaxDelay, Faults,  \* CronLock
    Configs, Breakages, Requests, CronStop, PollEvery,                                 \* Lifecycle
    Off

Conf(strict, has, dbs, drain) ==
    [strict |-> strict, has |-> has, dbs |-> dbs, plugins |-> 2, drain |-> drain, grace |-> 2]

Everything == {"auto_migrate", "policy", "webhooks", "emails", "smtp", "reset", "audit", "auth", "openapi",
               "apikeys", "plugins", "inbound", "cron", "health"}

MCConfigs ==
    {Conf(TRUE, Everything, 2, 2),
     Conf(FALSE, Everything \ {"smtp", "reset"}, 2, 0),
     Conf(TRUE, {"policy", "plugins", "health"}, 0, 2),
     Conf(FALSE, {"inbound", "openapi"}, 0, 0),
     Conf(TRUE, {"cron", "auth", "reset", "plugins"}, 1, 0)}

MCBreakages ==
    {{}, {"openapi", "cron"}}
    \cup {{s} : s \in {"config", "validate", "schema", "databases", "migrate", "policy", "outbox", "tokens",
                       "apikeys", "proxies", "plugins", "inbound", "cron", "listen"}}

-----------------------------------------------------------------------------
VARIABLES
    owner, until, phase, due, runs, pc, age, try, spent,                                        \* CronLock
    conf, bad, at, stage, built, opened, plugins, part, asked, net, time, req, balancer         \* Lifecycle

C == INSTANCE CronLock

P == INSTANCE Lifecycle

ASSUME BackgroundAssumption == C!CronAssumption /\ C!PauseAssumption /\ P!LifecycleAssumption

processVars == <<conf, bad, at, stage, built, opened, plugins, part, asked, net, time, req, balancer>>
cronVars == <<owner, until, phase, due, runs, pc, age, try, spent>>
background == <<cronVars, processVars>>

CronOff == /\ owner = Off /\ until = Off /\ phase = Off /\ due = Off /\ runs = Off
           /\ pc = Off /\ age = Off /\ try = Off /\ spent = Off
ProcessOff == /\ conf = Off /\ bad = Off /\ at = Off /\ stage = Off /\ built = Off /\ opened = Off /\ plugins = Off
              /\ part = Off /\ asked = Off /\ net = Off /\ time = Off /\ req = Off /\ balancer = Off

InCron(A) == pc # Off /\ A /\ UNCHANGED processVars
InProcess(A) == at # Off /\ A /\ UNCHANGED cronVars

\* A stage that a configuration does not have cannot fail.
LifecycleInit ==
    \/ CronOff /\ P!Init /\ \A s \in bad : P!Configured(s)
    \/ C!Init /\ ProcessOff

LifecycleNext == InCron(C!Next) \/ InProcess(P!Next)

\* The fairness of CronLock and of Lifecycle.
LifecycleFairness ==
    /\ WF_background(InCron(C!Tick))
    /\ \A r \in Replicas : WF_background(InCron(C!Step(r))) /\ WF_background(InCron(C!Restart(r))) /\ SF_background(InCron(C!Gets(r)))
    /\ WF_background(InProcess(P!Main)) /\ WF_background(InProcess(P!Tick))
    /\ WF_background(InProcess(\E ping \in BOOLEAN : P!Poll(ping)))
    /\ \A r \in Requests : WF_background(InProcess(P!Receive(r)))

LifecycleSpec == LifecycleInit /\ [][LifecycleNext]_background /\ LifecycleFairness

-----------------------------------------------------------------------------
\* docs/jobs.md, cron/locker.go: a tick runs on one replica, and no two runs overlap.
CronOnce == pc # Off => C!TickOnce
CronAlone == pc # Off => C!NoOverlap

\* cron/locker.go: the job never stops being run, whatever a crashed replica left behind.
CronGoesOn ==
    <>[](pc # Off => \A r \in Replicas : pc[r] # "down")
        => []<>(pc # Off => \E r \in Replicas : pc[r] = "attempt")

\* server/server.go: the steps of a shutdown follow one another on one deadline, and each
\* leaves the later ones what they were promised.
StopsInOrder == at # Off => P!StopsInOrder

\* docs/production.md: a rolling restart drops no request.
NoRefusal == at # Off => P!NoRefusal

\* server/server.go: a boot ends in a server or in an error, and a shutdown ends.
ComesToRest ==
    (at # Off /\ at \notin {"serving", "exited"}) ~> (at # Off /\ at \in {"serving", "exited"})
=============================================================================

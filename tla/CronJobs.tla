------------------------------ MODULE CronJobs ------------------------------
(***************************************************************************)
(* The periodic jobs of cron.service.ts: the map in the configuration that  *)
(* says which of them are switched off, the schedulers BullMQ has for them, *)
(* the requests that switch one and the servers that start and register     *)
(* them all.  Both change the map and the schedulers one after the other,   *)
(* an error of Redis is only logged, and two of them may overlap.           *)
(***************************************************************************)
EXTENDS FiniteSets

CONSTANTS
    CronNames,    \* the periodic jobs
    CronActs,     \* the handler executions: requests and starts of servers
    CronFaults    \* what may fail: a subset of {"redis", "crash"}

ASSUME CronConstants == CronNames # {} /\ CronFaults \subseteq {"redis", "crash"}

VARIABLES
    statuses,    \* CRON_JOB_STATUSES in system_configs
    schedulers,  \* the jobs BullMQ has a scheduler for
    switch,      \* the handler executions
    lastRun,     \* the last run of each job, skipped if there was none
    parted       \* history: the jobs whose scheduler need not follow the map

cronVars == <<statuses, schedulers, switch, lastRun, parted>>

\* A job the map does not name is on.
StatusesType == [CronNames -> {"unset", "on", "off"}]
On(map, j) == map[j] # "off"

\* rest are the jobs whose scheduler is still to be set; mixed says that another
\* handler was at work meanwhile.
SwitchType == [pc : {"idle", "read", "write", "move"}, op : {"toggle", "boot"},
               want : {"on", "off"}, got : StatusesType,
               rest : SUBSET CronNames, mixed : BOOLEAN]
NoSwitch == [pc |-> "idle", op |-> "boot", want |-> "on",
             got |-> [j \in CronNames |-> "unset"], rest |-> {}, mixed |-> FALSE]

CronTypeOK ==
    /\ statuses \in StatusesType
    /\ schedulers \subseteq CronNames
    /\ switch \in [CronActs -> SwitchType]
    /\ lastRun \in [CronNames -> {"waits", "ran", "skipped"}]
    /\ parted \subseteq CronNames

\* A new installation: no server has started yet.
CronInit ==
    /\ statuses = [j \in CronNames |-> "unset"]
    /\ schedulers = {}
    /\ switch = [a \in CronActs |-> NoSwitch]
    /\ lastRun = [j \in CronNames |-> "skipped"]
    /\ parted = CronNames

-----------------------------------------------------------------------------
Switching(a) == switch[a].pc # "idle"

\* Handler a starts: those at work now, and a if there are any, are mixed.
StartSwitch(a, record) ==
    LET others == {b \in CronActs : Switching(b)}
    IN  /\ ~Switching(a)
        /\ switch' = [b \in CronActs |->
              IF b = a THEN [record EXCEPT !.mixed = others # {}]
              ELSE IF b \in others THEN [switch[b] EXCEPT !.mixed = TRUE] ELSE switch[b]]
        /\ UNCHANGED <<statuses, schedulers, lastRun, parted>>

\* toggleJob
Toggle(a, j, want) ==
    StartSwitch(a, [NoSwitch EXCEPT !.pc = "read", !.op = "toggle",
                                    !.want = want, !.rest = {j}])

\* server.ts at its start
BootServer(a) == StartSwitch(a, [NoSwitch EXCEPT !.pc = "read", !.rest = CronNames])

\* getJobStatuses, in setJobStatus and before registerDefaultSchedulers
ReadStatuses(a) ==
    /\ switch[a].pc = "read"
    /\ switch' = [switch EXCEPT ![a].got = statuses,
                     ![a].pc = IF switch[a].op = "toggle" THEN "write" ELSE "move"]
    /\ UNCHANGED <<statuses, schedulers, lastRun, parted>>

\* Seeded fault: only the job's own status is written.
NewStatusesAlone(a) ==
    [j \in CronNames |-> IF j \in switch[a].rest THEN switch[a].want ELSE "unset"]

\* setJobStatus: the map that was read, with the one status changed.
NewStatuses(a) ==
    [j \in CronNames |->
        IF j \in switch[a].rest THEN switch[a].want ELSE switch[a].got[j]]

WriteStatuses(a) ==
    /\ switch[a].pc = "write"
    /\ statuses' = NewStatuses(a)
    /\ switch' = [switch EXCEPT ![a].pc = "move", ![a].got = NewStatuses(a)]
    /\ UNCHANGED <<schedulers, lastRun, parted>>

\* enableJobScheduler and disableJobScheduler, for the next of the jobs.  What
\* Redis refuses is logged, and the handler goes on.
Move(a, j) ==
    /\ switch[a].pc = "move" /\ j \in switch[a].rest
    /\ \/ /\ schedulers' = IF On(switch[a].got, j)
                           THEN schedulers \cup {j} ELSE schedulers \ {j}
          /\ parted' = IF switch[a].mixed THEN parted ELSE parted \ {j}
       \/ /\ "redis" \in CronFaults
          /\ UNCHANGED schedulers /\ parted' = parted \cup {j}
    /\ switch' = [switch EXCEPT ![a].rest = @ \ {j}]
    /\ UNCHANGED <<statuses, lastRun>>

\* The handler is through.  Of two that overlapped, one may have written an old
\* map over the other's, and set schedulers by it.
EndSwitch(a) ==
    /\ switch[a].pc = "move" /\ switch[a].rest = {}
    /\ parted' = IF switch[a].mixed THEN CronNames ELSE parted
    /\ switch' = [switch EXCEPT ![a] = NoSwitch]
    /\ UNCHANGED <<statuses, schedulers, lastRun>>

\* A scheduler's time comes; the worker then looks at the map (isJobEnabled) and
\* executes the job or skips it.
Fire(j) ==
    /\ j \in schedulers /\ lastRun[j] # "waits"
    /\ lastRun' = [lastRun EXCEPT ![j] = "waits"]
    /\ UNCHANGED <<statuses, schedulers, switch, parted>>

Process(j) ==
    /\ lastRun[j] = "waits"
    /\ lastRun' = [lastRun EXCEPT ![j] = IF On(statuses, j) THEN "ran" ELSE "skipped"]
    /\ UNCHANGED <<statuses, schedulers, switch, parted>>

\* The process dies, or the database refuses a statement.
StopSwitch(a) ==
    /\ "crash" \in CronFaults /\ Switching(a)
    /\ parted' = IF switch[a].mixed THEN CronNames
                 ELSE parted \cup IF switch[a].pc = "move" THEN switch[a].rest ELSE {}
    /\ switch' = [switch EXCEPT ![a] = NoSwitch]
    /\ UNCHANGED <<statuses, schedulers, lastRun>>

CronNext ==
    \/ \E a \in CronActs :
          \/ BootServer(a) \/ ReadStatuses(a) \/ WriteStatuses(a)
          \/ EndSwitch(a) \/ StopSwitch(a)
          \/ \E j \in CronNames :
                Move(a, j) \/ \E want \in {"on", "off"} : Toggle(a, j, want)
    \/ \E j \in CronNames : Fire(j) \/ Process(j)

CronSpec == CronInit /\ [][CronNext]_cronVars

-----------------------------------------------------------------------------
\* BullMQ has a scheduler for exactly the jobs the map has not switched off, when
\* no toggle (toggleJob) and no start of a server (registerDefaultSchedulers) is
\* under way and, since the last one that set the job's scheduler alone, none
\* overlapped another, was cut off, or failed to reach Redis.
SchedulersFollowMap ==
    (\A a \in CronActs : ~Switching(a)) =>
        \A j \in CronNames \ parted : j \in schedulers <=> On(statuses, j)
=============================================================================

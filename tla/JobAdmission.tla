---------------------------- MODULE JobAdmission ----------------------------
(***************************************************************************)
(* How crawl jobs of one unprivileged user come into being, and the two     *)
(* quotas on them: jobs per day and jobs at a time.  Three handlers create  *)
(* jobs:                                                                    *)
(*   create   POST /crawl-jobs (and rerun, which calls it)                  *)
(*   trigger  POST /crawl-schedules/:id/trigger                             *)
(*   tick     one due schedule in a processDueSchedules of the worker       *)
(* create and trigger count and insert under the user's lock; tick takes no *)
(* lock.  Each count is a statement of its own, and so is the insert.       *)
(***************************************************************************)
EXTENDS Integers, FiniteSets

CONSTANTS
    Requests,        \* the handler executions
    Procs,           \* the Node processes they run in
    NoToken,         \* the lock's key is not set
    Kinds,           \* the handlers in use
    MaxJobsPerDay,   \* user.maxJobsPerDayLimit
    MaxConcurrent,   \* user.maxConcurrentJobsLimit
    OtherZone,       \* schedules are kept in a time zone other than UTC+7
    MaxTime,         \* bound on the half days that pass
    Faults           \* what may go wrong

ASSUME AdmissionConstants ==
    /\ IsFiniteSet(Requests)
    /\ Procs # {}
    /\ NoToken \notin Requests
    /\ Kinds \subseteq {"create", "trigger", "tick"}
    /\ MaxJobsPerDay \in Nat \ {0}
    /\ MaxConcurrent \in Nat \ {0}
    /\ OtherZone \in BOOLEAN
    /\ MaxTime \in Nat
    /\ Faults \subseteq {"redis", "slow", "crash", "restart"}

VARIABLES
    lock,      \* lock:quota:<userId>
    req,       \* the handler executions
    job,       \* the job each of them creates
    time,      \* in half days; the UTC+7 day begins at even times
    exposed    \* history: who was let in without, or outlived, the Redis lock,
               \* whom nobody counted for, and whose job was taken up again
               \* after it had ended

vars == <<lock, req, job, time, exposed>>

INSTANCE DistributedLock WITH Tokens <- Requests

-----------------------------------------------------------------------------
(* Shapes *)

ReqPCs == {"idle", "lock", "total", "waived", "concurrent", "create",
           "release", "done", "dead"}

ReqType == [pc : ReqPCs, kind : {"create", "trigger", "tick"}, home : Procs,
            since : Nat, total : Nat]

IdleRequest == [pc |-> "idle", kind |-> "create", home |-> CHOOSE p \in Procs : TRUE,
                since |-> 0, total |-> 0]

\* A job counts as active until it has an outcome; an outcome is waived when
\* it is a failure without pages that is put down to a lost connection.
JobType == [state : {"none", "active", "ended", "waived"}, at : Nat,
            recent : BOOLEAN, deleted : BOOLEAN]

NoJob == [state |-> "none", at |-> 0, recent |-> FALSE, deleted |-> FALSE]

\* countConcurrentJobs: active, not deleted, not older than two hours.
Counted == {q \in Requests :
               job[q].state = "active" /\ job[q].recent /\ ~job[q].deleted}

\* The two statements of countJobsSince; deleted jobs are among them.
CreatedSince(t) == {q \in Requests : job[q].state # "none" /\ job[q].at >= t}
WaivedSince(t) == {q \in CreatedSince(t) : job[q].state = "waived"}

\* Seeded fault: the start of the schedule's day is not capped.
StartOfDayUncapped(kind) ==
    IF kind # "create" /\ OtherZone
    THEN 2 * ((time + 1) \div 2) - 1 ELSE 2 * (time \div 2)

\* The start of the day for quotas: that of UTC+7 in create, that of the
\* schedule's own zone in trigger and tick, half a day off when it differs.
StartOfDay(kind) ==
    IF kind # "create" /\ OtherZone /\ time > 0
    THEN 2 * ((time + 1) \div 2) - 1 ELSE 2 * (time \div 2)

Locked(r) == req[r].kind # "tick"

\* Between the acquisition of the lock and its release.
Inside(r) == Locked(r) /\ req[r].pc \in {"total", "waived", "concurrent",
                                         "create", "release"}

-----------------------------------------------------------------------------
(* The handlers *)

Goto(r, pc) == req' = [req EXCEPT ![r].pc = pc]

\* Out of the try block, or out of the loop body.
Leave(r) == Goto(r, IF Locked(r) THEN "release" ELSE "done")

Begin(r, kind, p) ==
    /\ req[r].pc = "idle"
    /\ req' = [req EXCEPT ![r] = [pc |-> IF kind = "tick" THEN "total" ELSE "lock",
                                  kind |-> kind, home |-> p,
                                  since |-> 0, total |-> 0]]
    /\ exposed' = IF kind = "tick" THEN exposed \cup {r} ELSE exposed
    /\ UNCHANGED <<lock, job, time>>

\* Seeded fault: the key is set without NX.
AcquireAlways(r) ==
    /\ req[r].pc = "lock"
    /\ lock' = [lock EXCEPT !.redis = r]
    /\ Goto(r, "total")
    /\ UNCHANGED <<job, time, exposed>>

\* acquireDistributedLock.  When Redis does not answer, or fails after it has
\* set the key, the local table decides.  Without the lock the answer is 429.
Acquire(r) ==
    LET p == req[r].home
        redisOnly == SetNX(lock, r)
    IN  /\ req[r].pc = "lock"
        /\ \/ /\ lock' = redisOnly
              /\ Goto(r, IF redisOnly.redis = r THEN "total" ELSE "done")
              /\ UNCHANGED exposed
           \/ /\ "redis" \in Faults
              /\ \E before \in {lock, redisOnly} :
                    LET after == SetLocal(before, p, r)
                        won == after.local[p] = r
                    IN  /\ lock' = after
                        /\ Goto(r, IF won THEN "total" ELSE "done")
                        /\ exposed' = IF won THEN exposed \cup {r} ELSE exposed
        /\ UNCHANGED <<job, time>>

\* countJobsSince, first statement.
CountTotal(r) ==
    /\ req[r].pc = "total"
    /\ LET since == StartOfDay(req[r].kind)
       IN  req' = [req EXCEPT ![r].pc = "waived", ![r].since = since,
                              ![r].total = Cardinality(CreatedSince(since))]
    /\ UNCHANGED <<lock, job, time, exposed>>

\* A trigger counts nothing when an administrator asks for it, or when the
\* schedule's owner cannot be read: that error is swallowed.
SkipQuota(r) ==
    /\ req[r].pc = "total" /\ req[r].kind = "trigger"
    /\ Goto(r, "create")
    /\ exposed' = exposed \cup {r}
    /\ UNCHANGED <<lock, job, time>>

\* Seeded fault: the limit itself is still let through.
CountWaivedOffByOne(r) ==
    /\ req[r].pc = "waived"
    /\ IF req[r].total > MaxJobsPerDay THEN Leave(r) ELSE Goto(r, "concurrent")
    /\ UNCHANGED <<lock, job, time, exposed>>

\* countJobsSince, second statement, which may fail and then waives nothing.
CountWaived(r) ==
    /\ req[r].pc = "waived"
    /\ \E w \in {0, Cardinality(WaivedSince(req[r].since))} :
           IF req[r].total >= MaxJobsPerDay + w
           THEN Leave(r) ELSE Goto(r, "concurrent")
    /\ UNCHANGED <<lock, job, time, exposed>>

\* Seeded fault: the limit itself is still let through.
CountConcurrentOffByOne(r) ==
    /\ req[r].pc = "concurrent"
    /\ IF Cardinality(Counted) > MaxConcurrent
       THEN Leave(r) ELSE Goto(r, "create")
    /\ UNCHANGED <<lock, job, time, exposed>>

CountConcurrent(r) ==
    /\ req[r].pc = "concurrent"
    /\ IF Cardinality(Counted) >= MaxConcurrent
       THEN Leave(r) ELSE Goto(r, "create")
    /\ UNCHANGED <<lock, job, time, exposed>>

\* repository.create; a tick that lost claimDueSchedule to another process
\* creates nothing.
Create(r) ==
    /\ req[r].pc = "create"
    /\ \/ job' = [job EXCEPT ![r] = [state |-> "active", at |-> time,
                                     recent |-> TRUE, deleted |-> FALSE]]
       \/ ~Locked(r) /\ UNCHANGED job
    /\ Leave(r)
    /\ UNCHANGED <<lock, time, exposed>>

\* releaseDistributedLock in the finally block; a Redis error is swallowed.
Release(r) ==
    /\ req[r].pc = "release"
    /\ \E answered \in {TRUE} \cup (IF "redis" \in Faults THEN {FALSE} ELSE {}) :
           lock' = DelLocal(IF answered THEN DelIfOwner(lock, r) ELSE lock,
                            req[r].home, r)
    /\ Goto(r, "done")
    /\ UNCHANGED <<job, time, exposed>>

RequestStep(r) ==
    \/ Acquire(r)
    \/ CountTotal(r) \/ SkipQuota(r) \/ CountWaived(r) \/ CountConcurrent(r)
    \/ Create(r) \/ Release(r)

-----------------------------------------------------------------------------
(* Time and faults *)

\* The key's time to live runs out: for an owner that is gone, or for one that
\* takes longer than 7 seconds.
Expire ==
    /\ lock.redis # NoToken
    /\ Inside(lock.redis) => "slow" \in Faults
    /\ lock' = Expired(lock)
    /\ exposed' = IF Inside(lock.redis) THEN exposed \cup {lock.redis} ELSE exposed
    /\ UNCHANGED <<req, job, time>>

ExpireLocal(p) ==
    /\ lock.local[p] # NoToken
    /\ Inside(lock.local[p]) => "slow" \in Faults
    /\ lock' = ProcGone(lock, p)
    /\ UNCHANGED <<req, job, time, exposed>>

Crash(p) ==
    /\ "crash" \in Faults
    /\ lock' = ProcGone(lock, p)
    /\ req' = [r \in Requests |->
                  IF req[r].home = p /\ req[r].pc \notin {"idle", "done"}
                  THEN [req[r] EXCEPT !.pc = "dead"] ELSE req[r]]
    /\ req' # req
    /\ UNCHANGED <<job, time, exposed>>

\* A job ends; CrawlJob says how.
JobEnds(q) ==
    /\ job[q].state = "active"
    /\ \E s \in {"ended", "waived"} : job' = [job EXCEPT ![q].state = s]
    /\ UNCHANGED <<lock, req, time, exposed>>

\* The next attempt of a job that FAILED sets it to RUNNING.
JobRestarts(q) ==
    /\ "restart" \in Faults
    /\ job[q].state \in {"ended", "waived"}
    /\ job' = [job EXCEPT ![q].state = "active"]
    /\ exposed' = exposed \cup {q}
    /\ UNCHANGED <<lock, req, time>>

\* Two hours after its creation an active job no longer takes up a slot.
JobAges(q) ==
    /\ job[q].recent
    /\ job' = [job EXCEPT ![q].recent = FALSE]
    /\ UNCHANGED <<lock, req, time, exposed>>

JobDeleted(q) ==
    /\ job[q].state # "none" /\ ~job[q].deleted
    /\ job' = [job EXCEPT ![q].deleted = TRUE]
    /\ UNCHANGED <<lock, req, time, exposed>>

TimePasses ==
    /\ time < MaxTime
    /\ time' = time + 1
    /\ UNCHANGED <<lock, req, job, exposed>>

JobStep(q) == JobEnds(q) \/ JobRestarts(q) \/ JobAges(q) \/ JobDeleted(q)

-----------------------------------------------------------------------------
Init ==
    /\ lock = FreeLock
    /\ req = [r \in Requests |-> IdleRequest]
    /\ job = [r \in Requests |-> NoJob]
    /\ time = 0
    /\ exposed = {}

Next ==
    \/ \E r \in Requests : \/ \E kind \in Kinds, p \in Procs : Begin(r, kind, p)
                           \/ RequestStep(r)
                           \/ JobStep(r)
    \/ Expire
    \/ \E p \in Procs : ExpireLocal(p) \/ Crash(p)
    \/ TimePasses

Spec == Init /\ [][Next]_vars

-----------------------------------------------------------------------------
(* Properties *)

TypeOK ==
    /\ lock \in LockType
    /\ req \in [Requests -> ReqType]
    /\ job \in [Requests -> JobType]
    /\ time \in 0..MaxTime
    /\ exposed \subseteq Requests

\* Whoever is inside has the Redis key, unless it is among the exposed: a slow
\* request that lost its key cannot take the next owner's key away with it.
OwnersKeepTheirKey == \A r \in Requests : Inside(r) /\ r \notin exposed => lock.redis = r

\* The concurrency quota holds for all jobs but those of the exposed: whatever
\* else overlaps, and whoever else creates jobs beyond the limit, a request
\* that keeps its key creates none beyond it.
ProtectedWithinQuota == Cardinality(Counted \ exposed) <= MaxConcurrent

\* As long as nobody was exposed, and schedules are kept in UTC+7, no UTC+7 day
\* sees more jobs than the daily quota, failures by a lost connection not
\* counted, not even when midnight passes between a count and the insert.
DailyQuota ==
    exposed = {} =>
        \A d \in {t \in 0..time : t % 2 = 0} :
            Cardinality({q \in CreatedSince(d) \ WaivedSince(d) : job[q].at < d + 2})
                <= MaxJobsPerDay
=============================================================================

----------------------------- MODULE UserQuotas -----------------------------
(***************************************************************************)
(* The limits of one user and what is counted against them.  The limits are *)
(* columns of the user, which administrators write, copy from the role of   *)
(* the user, and reset along with the instant from which jobs count.        *)
(* getUsage of auth.service.ts reports what is left, create of              *)
(* crawl-job.service.ts refuses when nothing is: each does its own          *)
(* arithmetic over the same jobs.                                           *)
(***************************************************************************)
EXTENDS Integers, FiniteSets, Sequences, FiniteSetsExt

CONSTANTS
    Admins,       \* handler executions that change limits
    Creators,     \* those that create jobs
    Limits,       \* the values limits may have
    QuotaTime,    \* bound on the time that passes
    QuotaDay,     \* instants in a day of UTC+7,
    QuotaMonth,   \* and in a month
    QuotaLoads    \* what administrators do in a behaviour, and bounds on the jobs of
                  \* the user, on the limits of the role and on the time

\* pages: maxPagesLimit; daily: maxJobsPerDayLimit; the other three are copied alike.
LimitsType == [pages : Limits, daily : Limits]
QuotaOps == {"update role", "reset role", "reset user", "update user", "assign", "switch"}

ASSUME QuotaConstants ==
    /\ Limits \subseteq Nat \ {0} /\ Limits # {} /\ QuotaTime \in Nat
    /\ {QuotaDay, QuotaMonth} \subseteq Nat \ {0} /\ QuotaMonth % QuotaDay = 0
    /\ \A l \in QuotaLoads : /\ l.ops \subseteq QuotaOps /\ l.until \in 0..QuotaTime
                             /\ {l.jobs, l.changes} \subseteq Nat

VARIABLES
    quotaLoad,   \* one of QuotaLoads, for good
    clock,       \* the instant it is
    customer,    \* the row of the user
    roleLimits,  \* the limits of the custom role and of the role its legacy role names
    enabled,     \* the custom role is active
    quotaJob,    \* the jobs of the user, in the order they were created
    admin,       \* handlers of administrators
    creator,     \* handlers of create
    snapshots,   \* history: the limits that one role had at a time
    given        \* history: those an administrator wrote since a role was last copied

quotaVars == <<quotaLoad, clock, customer, roleLimits, enabled, quotaJob, admin, creator,
               snapshots, given>>

QuotaRoles == {"custom", "legacy"}
LimitColumns == {"pages", "daily"}
NotGiven == 0
NoneGiven == [column \in LimitColumns |-> NotGiven]
NoLimits == [pages |-> 0, daily |-> 0]
IdleAdmin == [pc |-> "idle", op |-> "update role", at |-> 0, limits |-> NoLimits]
IdleCreator == [pc |-> "idle", limits |-> NoLimits, reset |-> 0, pages |-> 0]

QuotaJobType == [at : 0..QuotaTime, pages : Nat, state : {"active", "done", "waived"}]

QuotasTypeOK ==
    /\ quotaLoad \in QuotaLoads /\ clock \in 0..QuotaTime
    /\ customer \in [limits : LimitsType, reset : 0..QuotaTime, member : BOOLEAN]
    /\ roleLimits \in [QuotaRoles -> LimitsType] /\ enabled \in BOOLEAN
    /\ quotaJob \in Seq(QuotaJobType) /\ Len(quotaJob) <= quotaLoad.jobs
    /\ admin \in [Admins -> [pc : {"idle", "read", "copy"}, op : QuotaOps, at : 0..QuotaTime,
                             limits : LimitsType \cup {NoLimits}]]
    /\ creator \in [Creators -> [pc : {"idle", "admit"}, reset : 0..QuotaTime,
                                 limits : LimitsType \cup {NoLimits}, pages : Nat]]
    /\ snapshots \subseteq LimitsType
    /\ given \in [LimitColumns -> Limits \cup {NotGiven}]

QuotasInit ==
    /\ quotaLoad \in QuotaLoads /\ clock = 0 /\ enabled = TRUE
    /\ LET least == [pages |-> Min(Limits), daily |-> Min(Limits)]
       IN  /\ customer = [limits |-> least, reset |-> 0, member |-> TRUE]
           /\ roleLimits = [r \in QuotaRoles |-> least]
           /\ snapshots = {least} /\ given = NoneGiven
    /\ quotaJob = <<>>
    /\ admin = [a \in Admins |-> IdleAdmin]
    /\ creator = [c \in Creators |-> IdleCreator]

-----------------------------------------------------------------------------
(* Administrators *)

Acts(a, op) == admin[a].pc = "idle" /\ op \in quotaLoad.ops
ChangesLeft == Cardinality(snapshots) <= quotaLoad.changes
JobsApart == UNCHANGED <<quotaLoad, clock, quotaJob, creator>>

\* A column that is given is written; with syncUsersQuota, the row that comes
\* back is what the users of the role are to have.
UpdateRole(a, column, n, sync) ==
    LET updated == [roleLimits["custom"] EXCEPT ![column] = n]
    IN  /\ Acts(a, "update role") /\ ChangesLeft
        /\ roleLimits' = [roleLimits EXCEPT !["custom"] = updated]
        /\ snapshots' = snapshots \cup {updated}
        /\ admin' = IF ~sync THEN admin
                    ELSE [admin EXCEPT ![a] = [IdleAdmin EXCEPT !.pc = "copy",
                                                                !.limits = updated]]
        /\ UNCHANGED <<customer, enabled, given>> /\ JobsApart

\* One statement resets the instant; when the limits are to be those of the role as
\* well, the clock is looked at first and the role is read after it.
ResetQuota(a, op, sync) ==
    /\ op \in {"reset role", "reset user"} /\ Acts(a, op)
    /\ admin' = IF ~sync THEN admin
                ELSE [admin EXCEPT ![a] = [IdleAdmin EXCEPT !.pc = "read", !.op = op,
                                                            !.at = clock]]
    /\ customer' = IF sync \/ (op = "reset role" /\ ~customer.member) THEN customer
                   ELSE [customer EXCEPT !.reset = clock]
    /\ UNCHANGED <<roleLimits, enabled, snapshots, given>> /\ JobsApart

\* The first role of the user that is active, else the one its legacy role names.
PrimaryRole == IF customer.member /\ enabled THEN "custom" ELSE "legacy"

ReadRole(a) ==
    LET r == IF admin[a].op = "reset role" THEN "custom" ELSE PrimaryRole
    IN  /\ admin[a].pc = "read"
        /\ admin' = [admin EXCEPT ![a].pc = "copy", ![a].limits = roleLimits[r]]
        /\ UNCHANGED <<customer, roleLimits, enabled, snapshots, given>> /\ JobsApart

\* One statement for the users that have the role then, or for the user.
CopyLimits(a) ==
    LET own == [customer EXCEPT !.limits = admin[a].limits]
        reached == admin[a].op = "reset user" \/ customer.member
    IN  /\ admin[a].pc = "copy"
        /\ customer' = IF ~reached THEN customer
                       ELSE IF admin[a].op = "update role" THEN own
                       ELSE [own EXCEPT !.reset = admin[a].at]
        /\ given' = IF reached THEN NoneGiven ELSE given
        /\ admin' = [admin EXCEPT ![a] = IdleAdmin]
        /\ UNCHANGED <<roleLimits, enabled, snapshots>> /\ JobsApart

\* Only the columns that the request gives are written.
UpdateUser(a, columns, limits) ==
    LET Written(old) ==
            [column \in LimitColumns |-> IF column \in columns THEN limits[column]
                                         ELSE old[column]]
    IN  /\ Acts(a, "update user")
        /\ customer' = [customer EXCEPT !.limits = Written(@)]
        /\ given' = Written(given)
        /\ UNCHANGED <<roleLimits, enabled, admin, snapshots>> /\ JobsApart

\* A role that is given to a user, or taken, brings no limits with it.
AssignRole(a) ==
    /\ Acts(a, "assign") /\ customer' = [customer EXCEPT !.member = ~@]
    /\ UNCHANGED <<roleLimits, enabled, admin, snapshots, given>> /\ JobsApart

SwitchRole(a) ==
    /\ Acts(a, "switch") /\ enabled' = ~enabled
    /\ UNCHANGED <<customer, roleLimits, admin, snapshots, given>> /\ JobsApart

-----------------------------------------------------------------------------
(* crawl-job.repository.ts *)

JobsSince(t) == {i \in DOMAIN quotaJob : quotaJob[i].at >= t}
Kept(jobs) == {i \in jobs : quotaJob[i].state # "waived"}

CountJobsSince(t) == Cardinality(Kept(JobsSince(t)))
SumPagesCrawled(t) == MapThenSumSet(LAMBDA i : quotaJob[i].pages, Kept(JobsSince(t)))

-----------------------------------------------------------------------------
(* The report, and what create decides *)

StartOf(period) == clock - (clock % period)

\* Seeded fault: the report counts the whole day.
ReportedSinceMidnight(period, reset) == StartOf(period)

ReportedSince(period, reset) == Max({StartOf(period), reset})

GetUsage ==
    LET day == ReportedSince(QuotaDay, customer.reset)
        month == ReportedSince(QuotaMonth, customer.reset)
    IN  [jobsUsedToday |-> CountJobsSince(day),
         jobsRemainingToday |-> Max({0, customer.limits.daily - CountJobsSince(day)}),
         pagesCrawledToday |-> SumPagesCrawled(day),
         pagesRemainingToday |-> Max({0, customer.limits.pages - SumPagesCrawled(day)}),
         jobsUsedThisMonth |-> CountJobsSince(month),
         pagesCrawledThisMonth |-> SumPagesCrawled(month)]

\* The pages of one job, and the jobs of the day; the months are not asked for.
Refusal(limits, reset, pages) ==
    LET start == StartOf(QuotaDay)
    IN  IF pages > limits.pages THEN "pages"
        ELSE IF CountJobsSince(IF reset > start THEN reset ELSE start) >= limits.daily
             THEN "day" ELSE "no"

\* The user is read before the lock is asked for.
ReadCustomer(c, pages) ==
    /\ creator[c].pc = "idle" /\ Len(quotaJob) < quotaLoad.jobs
    /\ creator' = [creator EXCEPT ![c] = [pc |-> "admit", limits |-> customer.limits,
                                          reset |-> customer.reset, pages |-> pages]]
    /\ UNCHANGED <<quotaLoad, clock, customer, roleLimits, enabled, quotaJob, admin, snapshots,
                   given>>

\* Under the lock of the user: JobAdmission has what happens when it fails.
CreateJob(c) ==
    /\ creator[c].pc = "admit"
    /\ quotaJob' = IF Refusal(creator[c].limits, creator[c].reset, creator[c].pages) # "no"
                      \/ Len(quotaJob) = quotaLoad.jobs
                   THEN quotaJob
                   ELSE Append(quotaJob, [at |-> clock, pages |-> 0, state |-> "active"])
    /\ creator' = [creator EXCEPT ![c] = IdleCreator]
    /\ UNCHANGED <<quotaLoad, clock, customer, roleLimits, enabled, admin, snapshots, given>>

\* A job that failed without a good page because of the connection is waived,
\* and the pages it found with it.
EndJob(i, state, pages) ==
    /\ quotaJob[i].state = "active"
    /\ quotaJob' = [quotaJob EXCEPT ![i].state = state, ![i].pages = pages]
    /\ UNCHANGED <<quotaLoad, clock, customer, roleLimits, enabled, admin, creator, snapshots,
                   given>>

PassTime ==
    /\ clock < quotaLoad.until /\ clock' = clock + 1
    /\ UNCHANGED <<quotaLoad, customer, roleLimits, enabled, quotaJob, admin, creator, snapshots,
                   given>>

QuotasNext ==
    \/ \E a \in Admins :
          \/ \E sync \in BOOLEAN :
                \/ \E n \in Limits, column \in LimitColumns :
                      UpdateRole(a, column, n, sync)
                \/ \E op \in QuotaOps : ResetQuota(a, op, sync)
          \/ ReadRole(a) \/ CopyLimits(a) \/ AssignRole(a) \/ SwitchRole(a)
          \/ \E columns \in (SUBSET LimitColumns) \ {{}}, limits \in LimitsType :
                UpdateUser(a, columns, limits)
    \/ \E c \in Creators :
          \/ \E pages \in Limits : ReadCustomer(c, pages)
          \/ CreateJob(c)
    \/ \E i \in DOMAIN quotaJob, state \in {"done", "waived"}, pages \in Limits :
          EndJob(i, state, pages)
    \/ PassTime

QuotasSpec == QuotasInit /\ [][QuotasNext]_quotaVars

-----------------------------------------------------------------------------
\* What the user is told is what the user gets: as long as nobody changes anything,
\* a job is refused for the quota of the day exactly when the report says that none
\* remains, whatever was reset or waived; no day has more than its month.  And each
\* limit of the user is the one an administrator wrote last, or else, like all of its
\* kind, that of one role at one time: whichever updates and resets ran beside each
\* other, two roles never mix and a copy leaves none of the limits it finds.
QuotasAgree ==
    /\ LET usage == GetUsage
       IN  /\ \A pages \in 1..customer.limits.pages :
                 (Refusal(customer.limits, customer.reset, pages) = "day")
                     = (usage.jobsRemainingToday = 0)
           /\ usage.jobsUsedToday <= usage.jobsUsedThisMonth
           /\ usage.pagesCrawledToday <= usage.pagesCrawledThisMonth
    /\ \E role \in snapshots :
          customer.limits = [column \in LimitColumns |->
                                IF given[column] = NotGiven THEN role[column]
                                ELSE given[column]]
=============================================================================

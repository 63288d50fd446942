---------------------------- MODULE CrawlSchedule ----------------------------
(***************************************************************************)
(* One crawl schedule, the schedule workers that look for due runs, and the *)
(* API handlers that update, trigger and delete it meanwhile.  Every worker *)
(* works on the row as it found it at the beginning of its pass; only the   *)
(* claim looks at the row again.  A handler works on the row it opened, and *)
(* writes a next run that it computed some time before.                     *)
(***************************************************************************)
EXTENDS Integers

CONSTANTS
    Workers,   \* processes that run startScheduleWorker
    Requests,  \* API requests in flight
    Ops,       \* what they do
    Times,     \* frequency, hour, minute and time zone
    Days,      \* dayOfWeek, dayOfMonth and cronExpression
    NoDay,     \* these columns are null
    Slots,     \* for each plan, the instants it wants to run at
    MaxTime,   \* bound on the instants
    Faults     \* what may go wrong

\* The settings a schedule may have.
Plans == [time : Times, day : Days \cup {NoDay}]

\* calculateNextRun finds the first wanted instant after t (ScheduleCalculator
\* says when it does).
IsNextSlot(p, t, s) ==
    /\ s > t
    /\ \A u \in Slots[p] : u > t => s <= u

ASSUME ScheduleConstants ==
    /\ Ops \subseteq {"update", "trigger", "delete"}
    /\ NoDay \notin Days
    /\ MaxTime \in Nat
    /\ Slots \in [Plans -> SUBSET Nat]
    /\ \A p \in Plans, t \in 0..MaxTime : \E s \in Slots[p] : IsNextSlot(p, t, s)
    /\ Faults \subseteq {"crash", "queue", "quota"}

VARIABLES
    now,
    row,      \* the crawl_schedules row
    pass,     \* the workers' passes over the due schedules
    req,      \* the API requests
    served,   \* history: the slots that were claimed
    queued,   \* history: the slots whose job was handed to the queue
    late,     \* history: a handler wrote a next run that was already due
    foreign   \* history: the next run is one that a handler wrote by settings
              \* the row did not have

vars == <<now, row, pass, req, served, queued, late, foreign>>

-----------------------------------------------------------------------------
(* Shapes *)

NextSlot(p, t) == CHOOSE s \in Slots[p] : IsNextSlot(p, t, s)

Never == -1
Instants == Nat \cup {Never}

RowType == [exists : BOOLEAN, isActive : BOOLEAN, plan : Plans, nextRunAt : Instants]

PassType == [pc : {"idle", "find", "claim", "create", "add"}, at : 0..MaxTime,
             plan : Plans, slot : Instants]

ReqType == [pc : {"idle", "compute", "write", "done"}, op : {"update", "trigger", "delete"},
            isActive : BOOLEAN, plan : Plans, next : Instants]

SomePlan == CHOOSE p \in Plans : TRUE
IdlePass == [pc |-> "idle", at |-> 0, plan |-> SomePlan, slot |-> Never]
IdleReq == [pc |-> "idle", op |-> "delete", isActive |-> FALSE, plan |-> SomePlan,
            next |-> Never]

DueAt(t) == /\ row.exists /\ row.isActive
            /\ row.nextRunAt # Never /\ row.nextRunAt <= t

-----------------------------------------------------------------------------
(* processDueSchedules *)

\* isProcessing keeps the passes of one worker apart.
StartPass(w) ==
    /\ pass[w].pc = "idle"
    /\ pass' = [pass EXCEPT ![w] = [IdlePass EXCEPT !.pc = "find", !.at = now]]
    /\ UNCHANGED <<now, row, req, served, queued, late, foreign>>

\* findDueSchedules
Find(w) ==
    /\ pass[w].pc = "find"
    /\ pass' = [pass EXCEPT ![w] =
                   IF DueAt(pass[w].at)
                   THEN [@ EXCEPT !.pc = "claim", !.plan = row.plan]
                   ELSE IdlePass]
    /\ UNCHANGED <<now, row, req, served, queued, late, foreign>>

\* The user is inactive, over a quota, or a count fails: the run stays due.
Skip(w) ==
    /\ "quota" \in Faults
    /\ pass[w].pc = "claim"
    /\ pass' = [pass EXCEPT ![w] = IdlePass]
    /\ UNCHANGED <<now, row, req, served, queued, late, foreign>>

\* What is left to do by a worker that has claimed slot s.
Claimed(s) == [IdlePass EXCEPT !.pc = "create", !.slot = s]

\* Seeded fault: the claim does not ask whether the run is still due.
ClaimUnconditionally(w) ==
    /\ pass[w].pc = "claim"
    /\ row.exists /\ row.isActive
    /\ row' = [row EXCEPT !.nextRunAt = NextSlot(pass[w].plan, pass[w].at)]
    /\ served' = served \cup {row.nextRunAt}
    /\ pass' = [pass EXCEPT ![w] = Claimed(row.nextRunAt)]
    /\ UNCHANGED <<now, req, queued, late, foreign>>

\* Seeded fault: a run that is due right now is left alone.
ClaimOverdue(w) ==
    /\ pass[w].pc = "claim"
    /\ IF DueAt(pass[w].at - 1)
       THEN /\ row' = [row EXCEPT !.nextRunAt = NextSlot(pass[w].plan, pass[w].at)]
            /\ served' = served \cup {row.nextRunAt}
            /\ pass' = [pass EXCEPT ![w] = Claimed(row.nextRunAt)]
       ELSE /\ pass' = [pass EXCEPT ![w] = IdlePass]
            /\ UNCHANGED <<row, served>>
    /\ UNCHANGED <<now, req, queued, late, foreign>>

\* Seeded fault: the worker takes for its slot what the row says afterwards.
ClaimReadsBack(w) ==
    /\ pass[w].pc = "claim"
    /\ DueAt(pass[w].at)
    /\ row' = [row EXCEPT !.nextRunAt = NextSlot(pass[w].plan, pass[w].at)]
    /\ served' = served \cup {row.nextRunAt}
    /\ pass' = [pass EXCEPT ![w] = Claimed(row'.nextRunAt)]
    /\ UNCHANGED <<now, req, queued, late, foreign>>

\* claimDueSchedule, one conditional UPDATE.
Claim(w) ==
    /\ pass[w].pc = "claim"
    /\ IF DueAt(pass[w].at)
       THEN /\ row' = [row EXCEPT !.nextRunAt = NextSlot(pass[w].plan, pass[w].at)]
            /\ served' = served \cup {row.nextRunAt}
            /\ pass' = [pass EXCEPT ![w] = Claimed(row.nextRunAt)]
            /\ foreign' = FALSE
       ELSE /\ pass' = [pass EXCEPT ![w] = IdlePass]
            /\ UNCHANGED <<row, served, foreign>>
    /\ UNCHANGED <<now, req, queued, late>>

\* jobRepository.create; it refers to the schedule, so it fails without it.
CreateJob(w) ==
    /\ pass[w].pc = "create"
    /\ pass' = [pass EXCEPT ![w] = IF row.exists THEN [@ EXCEPT !.pc = "add"]
                                                 ELSE IdlePass]
    /\ UNCHANGED <<now, row, req, served, queued, late, foreign>>

\* crawlQueue.add, which may reject; the error is logged.
AddJob(w) ==
    /\ pass[w].pc = "add"
    /\ \/ queued' = queued \cup {pass[w].slot}
       \/ "queue" \in Faults /\ UNCHANGED queued
    /\ pass' = [pass EXCEPT ![w] = IdlePass]
    /\ UNCHANGED <<now, row, req, served, late, foreign>>

Crash(w) ==
    /\ "crash" \in Faults
    /\ pass[w].pc # "idle"
    /\ pass' = [pass EXCEPT ![w] = IdlePass]
    /\ UNCHANGED <<now, row, req, served, queued, late, foreign>>

PassStep(w) == StartPass(w) \/ Find(w) \/ Claim(w) \/ CreateJob(w) \/ AddJob(w)

-----------------------------------------------------------------------------
(* CrawlScheduleService: update, triggerRun, delete *)

\* findById; an update merges what it asks for into the row it found, and a
\* day can be replaced but not removed.
Open(c, op) ==
    /\ req[c].pc = "idle" /\ row.exists
    /\ \E a \in BOOLEAN, p \in Plans :
          /\ op # "update" => a = row.isActive /\ p = row.plan
          /\ p.day \in Days \cup {row.plan.day}
          /\ req' = [req EXCEPT ![c] =
                        [pc |-> IF op = "delete" THEN "write" ELSE "compute",
                         op |-> op, isActive |-> a, plan |-> p, next |-> Never]]
    /\ UNCHANGED <<now, row, pass, served, queued, late, foreign>>

\* update: a schedule that is switched off has no next run.  trigger: the job
\* has been created and queued, and a schedule that is off gets one, too.
Compute(c) ==
    /\ req[c].pc = "compute"
    /\ req' = [req EXCEPT ![c].pc = "write",
                          ![c].next = IF req[c].op = "trigger" \/ req[c].isActive
                                      THEN NextSlot(req[c].plan, now) ELSE Never]
    /\ UNCHANGED <<now, row, pass, served, queued, late, foreign>>

Answered(c) == req' = [req EXCEPT ![c] = [IdleReq EXCEPT !.pc = "done"]]

\* triggerRun ends earlier: no lock, over a quota, or no job in the queue.  So
\* does an update: a URL it refuses, or more pages than the user may have.
GiveUp(c) ==
    /\ req[c].pc = "compute"
    /\ Answered(c)
    /\ UNCHANGED <<now, row, pass, served, queued, late, foreign>>

WrittenLate(c) == late \/ (req[c].next # Never /\ req[c].next <= now)

\* The row's settings after an update by p: a null day is not written.
Merged(p) == IF p.day = NoDay THEN [p EXCEPT !.day = row.plan.day] ELSE p

\* Seeded fault: an update leaves the next run as it is.
UpdateWithoutNext(c) ==
    /\ req[c].pc = "write" /\ req[c].op = "update"
    /\ row.exists
    /\ row' = [row EXCEPT !.isActive = req[c].isActive, !.plan = Merged(req[c].plan)]
    /\ Answered(c)
    /\ UNCHANGED <<now, pass, served, queued, late, foreign>>

\* repository.update, with settings and next run together; without the row it
\* throws, as do the other two.
Update(c) ==
    /\ req[c].pc = "write" /\ req[c].op = "update"
    /\ row' = IF row.exists
              THEN [row EXCEPT !.isActive = req[c].isActive,
                               !.plan = Merged(req[c].plan),
                               !.nextRunAt = req[c].next]
              ELSE row
    /\ late' = WrittenLate(c)
    /\ foreign' = IF row.exists
                  THEN req[c].isActive /\ Merged(req[c].plan) # req[c].plan
                  ELSE foreign
    /\ Answered(c)
    /\ UNCHANGED <<now, pass, served, queued>>

\* updateNextRun, which looks at nothing.
UpdateNextRun(c) ==
    /\ req[c].pc = "write" /\ req[c].op = "trigger"
    /\ row' = IF row.exists THEN [row EXCEPT !.nextRunAt = req[c].next] ELSE row
    /\ late' = WrittenLate(c)
    /\ foreign' = IF row.exists
                  THEN row.plan # req[c].plan \/ ~row.isActive
                  ELSE foreign
    /\ Answered(c)
    /\ UNCHANGED <<now, pass, served, queued>>

\* repository.delete
Delete(c) ==
    /\ req[c].pc = "write" /\ req[c].op = "delete"
    /\ row' = [row EXCEPT !.exists = FALSE]
    /\ Answered(c)
    /\ UNCHANGED <<now, pass, served, queued, late, foreign>>

ReqStep(c) == \/ \E op \in Ops : Open(c, op)
              \/ Compute(c) \/ GiveUp(c)
              \/ Update(c) \/ UpdateNextRun(c) \/ Delete(c)

-----------------------------------------------------------------------------
TimePasses ==
    /\ now < MaxTime
    /\ now' = now + 1
    /\ UNCHANGED <<row, pass, req, served, queued, late, foreign>>

\* CrawlScheduleService.create has stored a row with its first run.
Init ==
    /\ now = 0
    /\ \E a \in BOOLEAN, p \in Plans :
          row = [exists |-> TRUE, isActive |-> a, plan |-> p,
                 nextRunAt |-> IF a THEN NextSlot(p, 0) ELSE Never]
    /\ pass = [w \in Workers |-> IdlePass]
    /\ req = [c \in Requests |-> IdleReq]
    /\ served = {} /\ queued = {}
    /\ late = FALSE /\ foreign = FALSE

Next ==
    \/ \E w \in Workers : PassStep(w) \/ Skip(w) \/ Crash(w)
    \/ \E c \in Requests : ReqStep(c)
    \/ TimePasses

Spec == Init /\ [][Next]_vars

\* Every worker's timer keeps firing, and a pass that has begun goes on.  Not all
\* passes crash at the query, nor crash or find a quota full at the claim.
FairSpec ==
    /\ Spec
    /\ \A w \in Workers : WF_vars(PassStep(w))
    /\ SF_vars(\E w \in Workers : Find(w))
    /\ SF_vars(\E w \in Workers : Claim(w))

-----------------------------------------------------------------------------
(* Properties *)

TypeOK ==
    /\ now \in 0..MaxTime
    /\ row \in RowType
    /\ pass \in [Workers -> PassType]
    /\ req \in [Requests -> ReqType]
    /\ served \subseteq Nat /\ queued \subseteq served
    /\ late \in BOOLEAN /\ foreign \in BOOLEAN

\* Two workers never run the same slot: the next run stays ahead of everything
\* that was claimed, unless a handler wrote one that had passed meanwhile.
SlotServedOnce ==
    ~late => row.nextRunAt = Never \/ \A s \in served : s < row.nextRunAt

\* The next run is one of the settings the schedule has now, and there is one
\* just when it is switched on: a worker that claims by settings that have been
\* changed since it read them does not get through.  Late writes excepted, and,
\* until the next claim or update, the two writes by settings that are not the
\* row's: that of a trigger which opened the row before they were changed, and
\* that of an update which found no day beside one that has given one.
NextRunFollowsPlan ==
    ~late /\ ~foreign =>
        IF row.isActive THEN row.nextRunAt \in Slots[row.plan]
                        ELSE row.nextRunAt = Never

\* A due run is taken up in the end, or the schedule is changed so that none is
\* due.
DueRunsAreClaimed == DueAt(now) ~> ~DueAt(now)
=============================================================================

--------------------------- MODULE WebhookDelivery ---------------------------
(***************************************************************************)
(* One row of table webhook_deliveries: the callers that create it or ask   *)
(* for it again, the BullMQ jobs they leave behind, and the runs of the      *)
(* webhook worker that post it and record the outcome.  Every job of a       *)
(* delivery writes the one row, and nothing tells the jobs apart in it.      *)
(*                                                                          *)
(* Of the row's columns the status and the attempt are kept.                *)
(***************************************************************************)
EXTENDS Integers

CONSTANTS
    Callers,    \* API requests and the crawl run that dispatches
    First,      \* the caller that creates the delivery
    Runs,       \* concurrent executions of the worker's processor
    Attempts,   \* attempts of a job
    MaxStalled, \* how often BullMQ forgives a job that it stalled
    Faults      \* what may go wrong

ASSUME WebhookConstants ==
    /\ First \in Callers
    /\ Attempts \in Nat \ {0}
    /\ MaxStalled \in Nat
    /\ Faults \subseteq {"crash", "lock", "queue", "database"}

VARIABLES
    config,    \* whether the webhook_configs row exists
    delivery,  \* the webhook_deliveries row
    caller,    \* the callers of WebhookDeliveryService
    job,       \* for each caller, the job it has added
    run,       \* the worker's runs
    answered,  \* history: the receiver has answered a post with 2xx
    tries,     \* history: how often an attempt of each job has failed
    lost       \* history: somebody who owed the row an outcome is gone

vars == <<config, delivery, caller, job, run, answered, tries, lost>>

-----------------------------------------------------------------------------
(* Shapes *)

WEBHOOK_DELIVERY_STATUS == {"PENDING", "SUCCESS", "FAILED"}

DeliveryType == [exists : BOOLEAN, status : WEBHOOK_DELIVERY_STATUS, attempt : 1..Attempts]

CallerType == [pc : {"start", "create", "reset", "add", "send", "done"},
               op : {"dispatch", "test", "redeliver"}]

JobType == [state : {"none", "waiting", "active", "completed", "failed"},
            attemptsMade : 0..Attempts, stalled : 0..MaxStalled]

\* owns: the run still has the lock of its job.
RunType == [pc : {"idle", "find", "attempt", "post", "record", "mark", "done", "throw"},
            job : Callers, attempt : 1..Attempts, owns : BOOLEAN]

IdleRun == [pc |-> "idle", job |-> First, attempt |-> 1, owns |-> FALSE]

NewRun(c, attempt, owns) == [pc |-> "find", job |-> c, attempt |-> attempt, owns |-> owns]

RunGoesTo(r, pc) == run' = [run EXCEPT ![r].pc = pc]

CallerGoesTo(c, pc) == caller' = [caller EXCEPT ![c].pc = pc]

IsTest(r) == caller[run[r].job].op = "test"

Owns(r, c) == run[r].pc # "idle" /\ run[r].owns /\ run[r].job = c

-----------------------------------------------------------------------------
(* dispatch, test, redeliver *)

\* findActiveConfigsByEvent, findConfigById, findDeliveryById
Lookup(c) ==
    /\ caller[c].pc = "start"
    /\ CallerGoesTo(c, CASE caller[c].op = "redeliver" /\ delivery.exists -> "reset"
                         [] caller[c].op # "redeliver" /\ config          -> "create"
                         [] OTHER                                         -> "done")
    /\ UNCHANGED <<config, delivery, job, run, answered, tries, lost>>

\* createDelivery; the row refers to the config.
CreateDelivery(c) ==
    /\ caller[c].pc = "create"
    /\ IF config
       THEN /\ delivery' = [exists |-> TRUE, status |-> "PENDING", attempt |-> 1]
            /\ CallerGoesTo(c, IF caller[c].op = "test" THEN "send" ELSE "add")
       ELSE /\ CallerGoesTo(c, "done")
            /\ UNCHANGED delivery
    /\ UNCHANGED <<config, job, run, answered, tries, lost>>

\* redeliver resets the row whatever its jobs are doing.
Reset(c) ==
    /\ caller[c].pc = "reset"
    /\ IF delivery.exists
       THEN /\ delivery' = [delivery EXCEPT !.status = "PENDING", !.attempt = 1]
            /\ CallerGoesTo(c, "add")
       ELSE /\ CallerGoesTo(c, "done")
            /\ UNCHANGED delivery
    /\ UNCHANGED <<config, job, run, answered, tries, lost>>

\* Seeded fault: the job has the delivery's id, so that BullMQ ignores it when
\* the delivery has had a job before.
AddDeduplicated(c) ==
    /\ caller[c].pc = "add"
    /\ CallerGoesTo(c, "done")
    /\ job' = IF \A d \in Callers : job[d].state = "none"
              THEN [job EXCEPT ![c].state = "waiting"] ELSE job
    /\ UNCHANGED <<config, delivery, run, answered, tries, lost>>

\* webhookQueue.add, which rejects at once while Redis is away.
Add(c) ==
    /\ caller[c].pc = "add"
    /\ CallerGoesTo(c, "done")
    /\ \/ job' = [job EXCEPT ![c].state = "waiting"] /\ UNCHANGED lost
       \/ "queue" \in Faults /\ lost' = TRUE /\ UNCHANGED job
    /\ UNCHANGED <<config, delivery, run, answered, tries>>

\* test calls send itself.
SendTest(c) ==
    /\ caller[c].pc = "send"
    /\ \E r \in Runs : /\ run[r].pc = "idle"
                       /\ run' = [run EXCEPT ![r] = NewRun(c, 1, FALSE)]
    /\ CallerGoesTo(c, "done")
    /\ UNCHANGED <<config, delivery, job, answered, tries, lost>>

CallerCrash(c) ==
    /\ "crash" \in Faults
    /\ caller[c].pc \in {"create", "reset", "add", "send"}
    /\ CallerGoesTo(c, "done")
    /\ lost' = (lost \/ caller[c].pc \in {"add", "send"})
    /\ UNCHANGED <<config, delivery, job, run, answered, tries>>

CallerStep(c) == Lookup(c) \/ CreateDelivery(c) \/ Reset(c) \/ Add(c) \/ SendTest(c)

\* Deliveries go with their config (onDelete: Cascade).
DeleteConfig ==
    /\ config
    /\ config' = FALSE
    /\ delivery' = [delivery EXCEPT !.exists = FALSE]
    /\ UNCHANGED <<caller, job, run, answered, tries, lost>>

-----------------------------------------------------------------------------
(* BullMQ *)

Pick(r, c) ==
    /\ run[r].pc = "idle" /\ job[c].state = "waiting"
    /\ run' = [run EXCEPT ![r] = NewRun(c, job[c].attemptsMade + 1, TRUE)]
    /\ job' = [job EXCEPT ![c].state = "active"]
    /\ UNCHANGED <<config, delivery, caller, answered, tries, lost>>

\* moveToFinished; refused to a run that has lost the lock.
Return(r) ==
    /\ run[r].pc = "done"
    /\ run' = [run EXCEPT ![r] = IdleRun]
    /\ job' = IF run[r].owns THEN [job EXCEPT ![run[r].job].state = "completed"] ELSE job
    /\ UNCHANGED <<config, delivery, caller, answered, tries, lost>>

\* Seeded fault: no attempt is the last one.
ThrowForever(r) ==
    /\ run[r].pc = "throw"
    /\ run' = [run EXCEPT ![r] = IdleRun]
    /\ job' = IF run[r].owns
              THEN [job EXCEPT ![run[r].job].attemptsMade = run[r].attempt,
                               ![run[r].job].state = "waiting"]
              ELSE job
    /\ UNCHANGED <<config, delivery, caller, answered, tries, lost>>

\* A failed attempt is followed by another one as long as there are any.
Throw(r) ==
    /\ run[r].pc = "throw"
    /\ run' = [run EXCEPT ![r] = IdleRun]
    /\ job' = IF run[r].owns
              THEN [job EXCEPT ![run[r].job].attemptsMade = run[r].attempt,
                               ![run[r].job].state =
                                   IF run[r].attempt < Attempts THEN "waiting" ELSE "failed"]
              ELSE job
    /\ UNCHANGED <<config, delivery, caller, answered, tries, lost>>

\* The lock is not renewed in time, but the run goes on.
LoseLock(r) ==
    /\ "lock" \in Faults
    /\ run[r].pc # "idle" /\ run[r].owns
    /\ run' = [run EXCEPT ![r].owns = FALSE]
    /\ UNCHANGED <<config, delivery, caller, job, answered, tries, lost>>

Crash(r) ==
    /\ "crash" \in Faults
    /\ run[r].pc # "idle"
    /\ run' = [run EXCEPT ![r] = IdleRun]
    /\ lost' = (lost \/ IsTest(r))
    /\ UNCHANGED <<config, delivery, caller, job, answered, tries>>

\* An active job that nobody has locked waits again, or has failed; then
\* nobody calls markFailed.
Stall(c) ==
    /\ job[c].state = "active" /\ \A r \in Runs : ~Owns(r, c)
    /\ IF job[c].stalled < MaxStalled
       THEN /\ job' = [job EXCEPT ![c].state = "waiting", ![c].stalled = @ + 1]
            /\ UNCHANGED lost
       ELSE /\ job' = [job EXCEPT ![c].state = "failed"]
            /\ lost' = TRUE
    /\ UNCHANGED <<config, delivery, caller, run, answered, tries>>

-----------------------------------------------------------------------------
(* The processor: send, and what the worker does when it fails *)

\* Seeded fault: the last attempt is not recognised.
CaughtByOffByOne(r) ==
    IF IsTest(r) THEN "done" ELSE IF run[r].attempt > Attempts THEN "mark" ELSE "throw"

\* Seeded fault: the delivery is given up one attempt too soon.
CaughtByEarly(r) ==
    IF IsTest(r) THEN "done" ELSE IF run[r].attempt + 1 >= Attempts THEN "mark" ELSE "throw"

\* An error reaches the worker, or test, which drops it.
CaughtBy(r) ==
    IF IsTest(r) THEN "done" ELSE IF run[r].attempt >= Attempts THEN "mark" ELSE "throw"

\* A test that failed leaves the status as it is.
FailsIn(r) ==
    /\ RunGoesTo(r, CaughtBy(r))
    /\ tries' = [tries EXCEPT ![run[r].job] = @ + 1]
    /\ lost' = (lost \/ IsTest(r))

FindDelivery(r) ==
    /\ run[r].pc = "find"
    /\ \/ delivery.exists /\ RunGoesTo(r, "attempt") /\ UNCHANGED <<tries, lost>>
       \/ (~delivery.exists \/ "database" \in Faults) /\ FailsIn(r)
    /\ UNCHANGED <<config, delivery, caller, job, answered>>

SetAttempt(r) ==
    /\ run[r].pc = "attempt"
    /\ \/ /\ delivery.exists
          /\ delivery' = [delivery EXCEPT !.attempt = run[r].attempt]
          /\ RunGoesTo(r, "post") /\ UNCHANGED <<tries, lost>>
       \/ /\ ~delivery.exists \/ "database" \in Faults
          /\ FailsIn(r) /\ UNCHANGED delivery
    /\ UNCHANGED <<config, caller, job, answered>>

\* Seeded fault: an answer that is no success counts as one.
PostAnyAnswer(r) ==
    /\ run[r].pc = "post"
    /\ \/ RunGoesTo(r, "record") /\ answered' \in {answered, TRUE} /\ UNCHANGED <<tries, lost>>
       \/ FailsIn(r) /\ UNCHANGED answered
    /\ UNCHANGED <<config, delivery, caller, job>>

\* validateUrlAsync and post.  The catch clause records the error without
\* touching the status and throws, whether or not it can record it.
Post(r) ==
    /\ run[r].pc = "post"
    /\ \/ RunGoesTo(r, "record") /\ answered' = TRUE /\ UNCHANGED <<tries, lost>>
       \/ FailsIn(r) /\ UNCHANGED answered
    /\ UNCHANGED <<config, delivery, caller, job>>

\* The update after a success stands in the same try block as the post.
RecordSuccess(r) ==
    /\ run[r].pc = "record"
    /\ \/ /\ delivery.exists
          /\ delivery' = [delivery EXCEPT !.status = "SUCCESS"]
          /\ RunGoesTo(r, "done") /\ UNCHANGED <<tries, lost>>
       \/ /\ ~delivery.exists \/ "database" \in Faults
          /\ FailsIn(r) /\ UNCHANGED delivery
    /\ UNCHANGED <<config, caller, job, answered>>

MarkFailed(r) ==
    /\ run[r].pc = "mark"
    /\ RunGoesTo(r, "throw")
    /\ \/ /\ delivery.exists
          /\ delivery' = [delivery EXCEPT !.status = "FAILED"]
          /\ UNCHANGED lost
       \/ /\ ~delivery.exists \/ "database" \in Faults
          /\ lost' = TRUE
          /\ UNCHANGED delivery
    /\ UNCHANGED <<config, caller, job, answered, tries>>

RunStep(r) == \/ FindDelivery(r) \/ SetAttempt(r) \/ Post(r) \/ RecordSuccess(r)
              \/ MarkFailed(r) \/ Return(r) \/ Throw(r)

-----------------------------------------------------------------------------
Init ==
    /\ config = TRUE
    /\ delivery = [exists |-> FALSE, status |-> "PENDING", attempt |-> 1]
    /\ \E op \in {"dispatch", "test"} :
          caller = [c \in Callers |->
                       [pc |-> "start", op |-> IF c = First THEN op ELSE "redeliver"]]
    /\ job = [c \in Callers |-> [state |-> "none", attemptsMade |-> 0, stalled |-> 0]]
    /\ run = [r \in Runs |-> IdleRun]
    /\ answered = FALSE
    /\ tries = [c \in Callers |-> 0]
    /\ lost = FALSE

Next ==
    \/ \E c \in Callers : CallerStep(c) \/ CallerCrash(c) \/ Stall(c)
    \/ \E r \in Runs : RunStep(r) \/ LoseLock(r) \/ Crash(r)
    \/ \E r \in Runs, c \in Callers : Pick(r, c)
    \/ DeleteConfig

Spec == Init /\ [][Next]_vars

\* Handlers and runs that have begun go on, the worker takes up what waits, and
\* BullMQ looks for stalled jobs.  Nobody has to call, to crash or to delete.
Fairness ==
    /\ \A c \in Callers : /\ WF_vars(caller[c].pc # "start" /\ CallerStep(c))
                          /\ WF_vars(\E r \in Runs : Pick(r, c))
                          /\ WF_vars(Stall(c))
    /\ \A r \in Runs : WF_vars(RunStep(r))

-----------------------------------------------------------------------------
(* Properties *)

TypeOK ==
    /\ config \in BOOLEAN
    /\ delivery \in DeliveryType
    /\ caller \in [Callers -> CallerType]
    /\ job \in [Callers -> JobType]
    /\ run \in [Runs -> RunType]
    /\ answered \in BOOLEAN /\ lost \in BOOLEAN
    /\ tries \in [Callers -> Nat]

\* A delivery that waits for its outcome is owed one: by a caller that is about
\* to add its job, by a job BullMQ still has, or by a test under way.  Otherwise
\* one of those that owed it an outcome is known to be gone.
Owed ==
    \/ \E c \in Callers : \/ caller[c].pc \in {"add", "send"}
                          \/ job[c].state \in {"waiting", "active"}
    \/ \E r \in Runs : run[r].pc # "idle" /\ IsTest(r)

PendingIsOwed ==
    delivery.exists /\ delivery.status = "PENDING" => lost \/ Owed

\* The row says SUCCESS only if the receiver has accepted the event.
SuccessIsTrue == delivery.status = "SUCCESS" => answered

\* The row says FAILED only after as many failed attempts of one job as a job has:
\* no run of another job, and none that has lost its lock, gives up any sooner.
FailedIsTried ==
    delivery.status = "FAILED" => \E c \in Callers : tries[c] >= Attempts

\* A delivery does not stay PENDING, unless what was to settle it is lost.
DeliverySettles ==
    delivery.exists /\ delivery.status = "PENDING"
        ~> ~delivery.exists \/ delivery.status # "PENDING" \/ lost
=============================================================================

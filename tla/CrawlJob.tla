------------------------------ MODULE CrawlJob ------------------------------
(***************************************************************************)
(* The life of one crawl job: the row in the database, the BullMQ job that *)
(* stands for it in queue crawl-jobs, every execution of processCrawlJob    *)
(* that BullMQ starts for it, and the API handlers that read, cancel and    *)
(* delete it meanwhile.                                                     *)
(*                                                                          *)
(* A step of a run or of a client ends at an await that touches shared      *)
(* state, so a step is at most one statement on the row.  Runs are numbered *)
(* in the order BullMQ starts them.  A run outlives its BullMQ attempt when *)
(* the attempt times out (withTimeout only races the promise) or when the   *)
(* worker loses the job's lock; such a run keeps executing beside the next  *)
(* one.                                                                     *)
(***************************************************************************)
EXTENDS JobRow, Integers

CONSTANTS
    Modes,        \* the crawl modes a job may be created with
    MaxPages,     \* crawlJob.maxPages: pages the provider may deliver
    MaxAttempts,  \* BullMQ attempts of the queue's defaultJobOptions
    MaxStalled,   \* maxStalledCount of the worker
    PollEvery,    \* shouldCancel reads the row on every PollEvery-th poll
    Clients,      \* API requests in flight at a time
    ClientOps,    \* the operations clients use
    Faults        \* what may go wrong around the worker

CrawlModes == {"SCRAPE", "SITEMAP", "URL_LIST", "CRAWL"}
Ops == {"view", "list", "cancel", "delete"}
FaultKinds == {"timeout", "crash", "lockLoss", "enqueue", "unheard"}

ASSUME ConstantsOK ==
    /\ Modes \subseteq CrawlModes
    /\ MaxPages \in Nat \ {0}
    /\ MaxAttempts \in Nat \ {0}
    /\ MaxStalled \in Nat
    /\ PollEvery \in Nat \ {0}
    /\ ClientOps \subseteq Ops
    /\ Faults \subseteq FaultKinds

\* An attempt ends by failing, of which there are MaxAttempts, or by being
\* found stalled, which is forgiven MaxStalled times.
RunId == 1..(MaxAttempts + MaxStalled)

VARIABLES
    mode,    \* crawlJob.mode
    row,     \* the crawl_jobs row
    queue,   \* the BullMQ job
    run,     \* the executions of processCrawlJob
    client,  \* the API requests in flight
    sent,    \* webhook events dispatched for the job
    skipped  \* history: those a finally block passed over

vars == <<mode, row, queue, run, client, sent, skipped>>

-----------------------------------------------------------------------------
(* Shapes *)

Min2(a, b) == IF a < b THEN a ELSE b
Max2(a, b) == IF a > b THEN a ELSE b

QueueStates == {"unsent", "absent", "waiting", "active", "completed",
                "failed", "removed"}

QueueType == [state : QueueStates, attempts : Nat, stalls : Nat]

\* Where a run is.  "write" is an updateStatus call; why says which one.
RunPCs == {"idle", "load", "write", "validate", "fetch", "poll", "check",
           "persist", "progress", "result", "batch", "diff", "finally",
           "return", "done", "dead"}

Whys == {"none", "start", "blocked", "scraped", "scrapeFailed", "canceled",
         "failed", "completed", "threw"}

Events == {"COMPLETED", "FAILED"}

RunType ==
    [pc : RunPCs, aborted : BOOLEAN, why : Whys,
     polls : 0..(PollEvery - 1),       \* pollCount modulo PollEvery
     done : 0..MaxPages,               \* pages the provider delivered
     total : 0..MaxPages,              \* pages the provider announced
     final : BOOLEAN,                  \* the provider's status is terminal
     seen : Events \cup {"none"},      \* what the finally block read
     late : 0..PollEvery]              \* polls passed with the row CANCELED

IdleRun == [pc |-> "idle", aborted |-> FALSE, why |-> "none", polls |-> 0,
            done |-> 0, total |-> 0, final |-> FALSE, seen |-> "none",
            late |-> 0]

\* Nothing of a run is left once it has returned or its process has died.
Ended(pc) == [IdleRun EXCEPT !.pc = pc]

ClientType == [pc : {"idle", "auto", "act", "remove", "purge"}, op : Ops]

\* A client is where its handler is, or back at rest.
ClientAt(pc, op) == [pc |-> pc, op |-> IF pc = "idle" THEN "view" ELSE op]
IdleClient == ClientAt("idle", "view")

Live(r) == run[r].pc \notin {"idle", "done", "dead"}

\* The run whose promise BullMQ is waiting for.
Holder == queue.attempts + queue.stalls + 1
Holds(r) == queue.state = "active" /\ r = Holder

-----------------------------------------------------------------------------
(* BullMQ: queue crawl-jobs and its worker (external) *)

\* Seeded fault: a retry is queued whatever the number of attempts.
AttemptFailedForever(q) == [q EXCEPT !.state = "waiting"]

\* An attempt that throws is retried until the attempts are used up.
AttemptFailed(q) ==
    [q EXCEPT !.attempts = @ + 1,
              !.state = IF q.attempts + 1 < MaxAttempts
                        THEN "waiting" ELSE "failed"]

\* crawlQueue.add, after repository.create.
Enqueue ==
    /\ queue.state = "unsent"
    /\ queue' = [queue EXCEPT !.state = "waiting"]
    /\ UNCHANGED <<mode, row, run, client, sent, skipped>>

\* add rejects (Redis is down) or there is no queue (503): the row stays.
EnqueueFails ==
    /\ "enqueue" \in Faults
    /\ queue.state = "unsent"
    /\ queue' = [queue EXCEPT !.state = "absent"]
    /\ UNCHANGED <<mode, row, run, client, sent, skipped>>

\* The worker takes the job, after any backoff.
Pick ==
    /\ queue.state = "waiting"
    /\ queue' = [queue EXCEPT !.state = "active"]
    /\ run' = [run EXCEPT ![Holder].pc = "load"]
    /\ UNCHANGED <<mode, row, client, sent, skipped>>

\* withTimeout: the signal is aborted and the attempt rejects; the run itself
\* goes on.  A run that lost its lock has a timer too, but nobody listens.
Timeout(r) ==
    /\ "timeout" \in Faults
    /\ Live(r) /\ ~run[r].aborted
    /\ run' = [run EXCEPT ![r].aborted = TRUE]
    /\ queue' = IF Holds(r) THEN AttemptFailed(queue) ELSE queue
    /\ UNCHANGED <<mode, row, client, sent, skipped>>

\* The worker process of a run dies.
Crash(r) ==
    /\ "crash" \in Faults
    /\ Live(r)
    /\ run' = [run EXCEPT ![r] = Ended("dead")]
    /\ UNCHANGED <<mode, row, queue, client, sent, skipped>>

\* The stalled check finds the active job without a lock.
ToStalled ==
    /\ queue' = [queue EXCEPT !.stalls = @ + 1,
                              !.state = IF queue.stalls < MaxStalled
                                        THEN "waiting" ELSE "failed"]
    /\ UNCHANGED <<mode, row, run, client, sent, skipped>>

\* The lock expired because its worker died.
Stalled == queue.state = "active" /\ run[Holder].pc = "dead" /\ ToStalled

\* The lock expired although the worker lives: it could not renew it in time.
LockLost ==
    /\ "lockLoss" \in Faults
    /\ queue.state = "active" /\ run[Holder].pc # "dead"
    /\ ToStalled

-----------------------------------------------------------------------------
(* processCrawlJob *)

\* Move run r on to pc.
Goto(r, pc) == run' = [run EXCEPT ![r].pc = pc]

\* Leave for the updateStatus call that why stands for.
GotoWrite(r, why) == run' = [run EXCEPT ![r].pc = "write", ![r].why = why]

\* Seeded fault: the run goes to work without setting RUNNING first.
LoadWithoutStart(r) ==
    /\ run[r].pc = "load"
    /\ IF Visible(row) /\ row.status # "CANCELED"
       THEN Goto(r, "validate") ELSE Goto(r, "return")
    /\ UNCHANGED <<mode, row, queue, client, sent, skipped>>

\* Seeded fault: a job that is RUNNING already is taken for someone else's.
LoadUnlessRunning(r) ==
    /\ run[r].pc = "load"
    /\ IF Visible(row) /\ row.status \notin {"CANCELED", "RUNNING"}
       THEN GotoWrite(r, "start") ELSE Goto(r, "return")
    /\ UNCHANGED <<mode, row, queue, client, sent, skipped>>

\* findById, and the two early exits in front of the try block.
Load(r) ==
    /\ run[r].pc = "load"
    /\ \/ /\ ~Visible(row)
          /\ run' = [run EXCEPT ![r].pc = "return", ![r].why = "threw"]
       \/ /\ Visible(row)
          /\ row.status = "CANCELED" \/ run[r].aborted
          /\ Goto(r, "return")
       \/ /\ Visible(row)
          /\ row.status # "CANCELED" /\ ~run[r].aborted
          /\ GotoWrite(r, "start")
    /\ UNCHANGED <<mode, row, queue, client, sent, skipped>>

StatusFor(why) ==
    CASE why = "start"                   -> "RUNNING"
      [] why \in {"scraped", "completed"} -> "COMPLETED"
      [] why = "canceled"                -> "CANCELED"
      [] OTHER                           -> "FAILED"

\* Seeded fault: the failed counter of a failed crawl has no lower bound.
CountsForUnbounded(r) ==
    IF run[r].why = "failed"
    THEN {Counts(Max2(run[r].total, run[r].done), s, run[r].total - s) :
              s \in 0..run[r].done}
    ELSE {row.counts}

\* The counters an updateStatus call may carry.  s is currentSuccessCount, the
\* delivered pages that were saved; k counts the failed and the robots-blocked
\* URLs that persistBatchResults adds.
CountsFor(r) ==
    LET done == run[r].done
        total == run[r].total
    IN  CASE run[r].why = "blocked" ->
               {Counts(0, 0, 0)} \cup
               (IF mode = "URL_LIST" THEN {Counts(0, 0, MaxPages)} ELSE {})
          [] run[r].why = "scraped" -> {Counts(1, 1, 0)}
          [] run[r].why = "scrapeFailed" -> {Counts(1, 0, 1)}
          [] run[r].why = "canceled" ->
               {Counts(Max2(total, done), s, row.counts.failedPages) :
                    s \in 0..done}
          [] run[r].why = "failed" ->
               {Counts(Max2(total, done), s, Max2(1, total - s)) :
                    s \in 0..done}
          [] run[r].why = "completed" ->
               {Counts(done + k, done, k) : k \in 0..(MaxPages - done)}
          [] OTHER -> {row.counts}

AfterWrite(why) ==
    CASE why = "start" -> "validate"
      [] why \in {"scraped", "completed"} -> "diff"
      [] OTHER -> "finally"

\* One updateStatus call; the callback counters of the crawl end with it.
Write(r) ==
    /\ run[r].pc = "write"
    /\ \E c \in CountsFor(r) :
           row' = UpdateStatus(row, StatusFor(run[r].why), c)
    /\ run' = [run EXCEPT ![r] =
                  [IdleRun EXCEPT !.pc = AfterWrite(run[r].why),
                                  !.aborted = run[r].aborted,
                                  !.why = IF run[r].why = "threw"
                                          THEN "threw" ELSE "none"]]
    /\ UNCHANGED <<mode, queue, client, sent, skipped>>

\* Seeded fault: a blocked URL ends the run without a FAILED write.
ValidateSilently(r) ==
    /\ run[r].pc = "validate"
    /\ Goto(r, "finally") \/ Goto(r, "fetch")
    /\ UNCHANGED <<mode, row, queue, client, sent, skipped>>

\* URL validation in front of the crawl; SITEMAP also has its sitemap fetched,
\* parsed and filtered, and any failure there is a FAILED write too.
Validate(r) ==
    /\ run[r].pc = "validate"
    /\ GotoWrite(r, "blocked") \/ Goto(r, "fetch")
    /\ UNCHANGED <<mode, row, queue, client, sent, skipped>>

\* scrapePage, with the abort check in front of it and behind it.
Scrape(r) ==
    /\ run[r].pc = "fetch" /\ mode = "SCRAPE"
    /\ \/ GotoWrite(r, "threw")
       \/ /\ run[r].aborted
          /\ Goto(r, "finally")
       \/ /\ ~run[r].aborted
          /\ \E why \in {"scraped", "scrapeFailed"} :
                 run' = [run EXCEPT ![r].pc = "batch", ![r].why = why]
    /\ UNCHANGED <<mode, row, queue, client, sent, skipped>>

\* What follows the return of crawlSite or batchScrapePages: an aborted run
\* leaves without a write.
AfterCrawl(r, why, result) ==
    run' = [run EXCEPT ![r] =
                [result EXCEPT !.why = why,
                               !.pc = IF result.aborted THEN "finally"
                                      ELSE IF why = "completed" THEN "batch"
                                      ELSE "write"]]

\* CRAWL stores the provider's job id, but only here, after crawlSite returned.
StoreCrawlId(r) ==
    row' = IF mode = "CRAWL" /\ ~run[r].aborted
           THEN SaveFirecrawlJobId(row) ELSE row

\* asyncCrawlUrl or asyncBatchScrapeUrls.
StartCrawl(r) ==
    /\ run[r].pc = "fetch" /\ mode # "SCRAPE"
    /\ \/ GotoWrite(r, "threw")
       \/ AfterCrawl(r, "failed", run[r])
       \/ Goto(r, "poll")
    /\ UNCHANGED <<mode, row, queue, client, sent, skipped>>

\* Seeded fault: the cancel hook looks at the abort signal only.
PollDeaf(r) ==
    /\ run[r].pc = "poll"
    /\ IF run[r].aborted
       THEN AfterCrawl(r, "canceled", run[r])
       ELSE run' = [run EXCEPT ![r].pc = "check",
                               ![r].late = IF row.status = "CANCELED"
                                           THEN Min2(@ + 1, PollEvery) ELSE @]
    /\ UNCHANGED <<mode, row, queue, client, sent, skipped>>

\* Seeded fault: the cancel hook does not look at the abort signal.
PollThroughAbort(r) ==
    /\ run[r].pc = "poll"
    /\ Goto(r, "check")
    /\ UNCHANGED <<mode, row, queue, client, sent, skipped>>

\* shouldCancel.  Only every PollEvery-th call reads the row, and a deleted
\* row reads as null, which is not CANCELED.
Poll(r) ==
    LET n == (run[r].polls + 1) % PollEvery
        heard == /\ n = 0 /\ Visible(row) /\ row.status = "CANCELED"
    IN  /\ run[r].pc = "poll"
        /\ IF run[r].aborted \/ heard
           THEN /\ AfterCrawl(r, "canceled", [run[r] EXCEPT !.total = 0])
                /\ StoreCrawlId(r)
           ELSE /\ run' = [run EXCEPT ![r].pc = "check", ![r].polls = n,
                             ![r].late = IF row.status = "CANCELED"
                                         THEN Min2(@ + 1, PollEvery) ELSE @]
                /\ UNCHANGED row
        /\ UNCHANGED <<mode, queue, client, sent, skipped>>

\* checkCrawlStatus or checkBatchScrapeStatus: it throws, it answers without
\* success, or it reports d pages of t; then onProgress begins, which an
\* aborted run leaves at once.
Check(r) ==
    /\ run[r].pc = "check"
    /\ \/ /\ GotoWrite(r, "threw")
          /\ UNCHANGED row
       \/ /\ AfterCrawl(r, "failed", [run[r] EXCEPT !.total = 0])
          /\ StoreCrawlId(r)
       \/ /\ \E d \in run[r].done..MaxPages : \E t \in d..MaxPages :
               \E final \in BOOLEAN :
                 run' = [run EXCEPT
                    ![r].done = d, ![r].total = t, ![r].final = final,
                    ![r].pc = IF ~run[r].aborted
                              THEN IF d > 0 THEN "persist" ELSE "progress"
                              ELSE IF final THEN "result" ELSE "poll"]
          /\ UNCHANGED row
    /\ UNCHANGED <<mode, queue, client, sent, skipped>>

\* persistIncrementalPages; errors of single pages are swallowed.
Persist(r) ==
    /\ run[r].pc = "persist"
    /\ row' = UpsertPages(row)
    /\ Goto(r, "progress")
    /\ UNCHANGED <<mode, queue, client, sent, skipped>>

\* updateProgress at the end of onProgress, with f pages saved as failed, then the test
\* for a final status.  The pages saved as successes are never more than the provider
\* has completed, so that the greater of the two numbers is the provider's.
Progress(r) ==
    /\ run[r].pc = "progress"
    /\ \E f \in 0..run[r].done :
           row' = UpdateProgress(row, run[r].total, run[r].done, f)
    /\ Goto(r, IF run[r].final THEN "result" ELSE "poll")
    /\ UNCHANGED <<mode, queue, client, sent, skipped>>

\* The provider's crawl has ended as completed, failed or cancelled.  Pages, or
\* status completed, make it a success whatever the status says.
Result(r) ==
    /\ run[r].pc = "result"
    /\ \/ AfterCrawl(r, "completed", run[r])
       \/ /\ run[r].done = 0
          /\ \E why \in {"failed", "canceled"} : AfterCrawl(r, why, run[r])
    /\ StoreCrawlId(r)
    /\ UNCHANGED <<mode, queue, client, sent, skipped>>

\* persistBatchResults, or the page and asset rows of a scraped page.  There
\* is no abort check between here and the status write.  Errors of single pages are
\* swallowed, but not those of a scraped page or of its assets.
Batch(r) ==
    /\ run[r].pc = "batch"
    /\ \/ row' = UpsertPages(row) /\ Goto(r, "write")
       \/ /\ mode = "SCRAPE"
          /\ row' \in {row, UpsertPages(row)}
          /\ GotoWrite(r, "threw")
    /\ UNCHANGED <<mode, queue, client, sent, skipped>>

\* The diff report: its own columns, its errors swallowed.  An error of the look at
\* its switch is not: it fails the job that was COMPLETED a moment ago.
Diff(r) ==
    /\ run[r].pc = "diff"
    /\ Goto(r, "finally") \/ GotoWrite(r, "threw")
    /\ UNCHANGED <<mode, row, queue, client, sent, skipped>>

\* The outcome a finally block would announce: it reads the row again.
Outcome == IF Visible(row) /\ row.status \in Events THEN row.status ELSE "none"

\* Seeded fault: only a COMPLETED job is announced.
FinallyCompletedOnly(r) ==
    /\ run[r].pc = "finally"
    /\ run' = [run EXCEPT ![r].pc = "return",
                          ![r].seen = IF Outcome = "COMPLETED" THEN Outcome ELSE "none"]
    /\ UNCHANGED <<mode, row, queue, client, sent, skipped>>

\* The finally block goes on to the dispatch, unless webhook deliveries are switched
\* off, or the look at the row or at the switch fails, which is logged and no more.
Finally(r) ==
    /\ run[r].pc = "finally"
    /\ \/ /\ run' = [run EXCEPT ![r].pc = "return", ![r].seen = Outcome]
          /\ UNCHANGED skipped
       \/ /\ "unheard" \in Faults
          /\ Goto(r, "return")
          /\ skipped' = skipped \cup ({Outcome} \ {"none"})
    /\ UNCHANGED <<mode, row, queue, client, sent>>

\* The webhook is dispatched (not awaited) and the promise settles.  BullMQ
\* hears of it only if this run still is the active attempt.
Return(r) ==
    /\ run[r].pc = "return"
    /\ sent' = sent \cup ({run[r].seen} \ {"none"})
    /\ run' = [run EXCEPT ![r] = Ended("done")]
    /\ queue' = IF ~Holds(r) THEN queue
                ELSE IF run[r].why = "threw" THEN AttemptFailed(queue)
                ELSE [queue EXCEPT !.state = "completed"]
    /\ UNCHANGED <<mode, row, client, skipped>>

RunStep(r) ==
    \/ Load(r) \/ Write(r) \/ Validate(r) \/ Scrape(r) \/ StartCrawl(r)
    \/ Poll(r) \/ Check(r) \/ Persist(r) \/ Progress(r) \/ Result(r)
    \/ Batch(r) \/ Diff(r) \/ Finally(r) \/ Return(r)

-----------------------------------------------------------------------------
(* CrawlJobService: findById, findAllByUser, cancel, delete *)

\* Seeded fault: cancel removes the BullMQ job and leaves the row alone.
NextPCNoWrite(op, status) ==
    IF op \in {"view", "list"} \/ status \in {"RUNNING", "COMPLETED"}
    THEN "idle" ELSE "remove"

\* What a handler does once it has the job with this status in hand: reading
\* handlers answer, cancel refuses a COMPLETED job, delete a running one.
NextPC(op, status) ==
    IF \/ op \in {"view", "list"}
       \/ op = "cancel" /\ status = "COMPLETED"
       \/ op = "delete" /\ status \in {"RUNNING", "PROCESSING_EXPORT"}
    THEN "idle"
    ELSE IF op = "cancel" THEN "act" ELSE "remove"

\* Every handler starts by reading the row.
Open(c, op) ==
    /\ client[c].pc = "idle"
    /\ Visible(row)
    /\ LET pc == IF AutoCompletes(row, MaxPages) THEN "auto"
                 ELSE NextPC(op, row.status)
       IN  /\ pc # "idle"
           /\ client' = [client EXCEPT ![c] = ClientAt(pc, op)]
    /\ UNCHANGED <<mode, row, queue, run, sent, skipped>>

\* The row was RUNNING with all pages processed when it was read: it is set to
\* COMPLETED, by updateStatus, or by batchUpdateStatus in the list handler.
AutoComplete(c) ==
    LET op == client[c].op
    IN  /\ client[c].pc = "auto"
        /\ row' = IF op = "list" THEN BatchUpdateStatus(row, "COMPLETED")
                  ELSE UpdateStatus(row, "COMPLETED", row.counts)
        /\ client' = [client EXCEPT ![c] =
                         ClientAt(NextPC(op, row'.status), op)]
        /\ UNCHANGED <<mode, queue, run, sent, skipped>>

\* cancel writes CANCELED on the strength of the status it read.
CancelWrite(c) ==
    /\ client[c].pc = "act"
    /\ row' = UpdateStatus(row, "CANCELED", row.counts)
    /\ client' = [client EXCEPT ![c].pc = "remove"]
    /\ UNCHANGED <<mode, queue, run, sent, skipped>>

\* removeBullMQJob finds a waiting job by its id, or by its data when a schedule
\* queued it under another id, and removes it.  The lock of an active one makes
\* remove() throw, which is swallowed, unless that lock has expired already.
RemoveBullMQJob(c) ==
    /\ client[c].pc = "remove"
    /\ \/ /\ \/ queue.state = "waiting"
             \/ /\ queue.state = "active"
                /\ run[Holder].pc = "dead" \/ "lockLoss" \in Faults
          /\ queue' = [queue EXCEPT !.state = "removed"]
       \/ queue.state # "waiting" /\ UNCHANGED queue
    /\ client' = [client EXCEPT ![c] =
                     ClientAt(IF client[c].op = "delete" THEN "purge"
                              ELSE "idle", client[c].op)]
    /\ UNCHANGED <<mode, row, run, sent, skipped>>

\* repository.delete, the last step of the delete handler.
Purge(c) ==
    /\ client[c].pc = "purge"
    /\ row' = SoftDelete(row)
    /\ client' = [client EXCEPT ![c] = IdleClient]
    /\ UNCHANGED <<mode, queue, run, sent, skipped>>

ClientStep(c) ==
    \/ \E op \in ClientOps : Open(c, op)
    \/ AutoComplete(c) \/ CancelWrite(c) \/ RemoveBullMQJob(c) \/ Purge(c)

-----------------------------------------------------------------------------
Init ==
    /\ mode \in Modes
    /\ row = NewRow
    /\ queue = [state |-> "unsent", attempts |-> 0, stalls |-> 0]
    /\ run = [r \in RunId |-> IdleRun]
    /\ client = [c \in Clients |-> IdleClient]
    /\ sent = {} /\ skipped = {}

Next ==
    \/ Enqueue \/ EnqueueFails \/ Pick \/ Stalled \/ LockLost
    \/ \E r \in RunId : RunStep(r) \/ Timeout(r) \/ Crash(r)
    \/ \E c \in Clients : ClientStep(c)

Spec == Init /\ [][Next]_vars

\* BullMQ keeps serving the queue, a live process keeps executing, a job's
\* timer fires, and a handler that has begun finishes.  No client has to ask
\* for anything and nothing has to fail.
Fairness ==
    /\ WF_vars(Enqueue \/ EnqueueFails)
    /\ WF_vars(Pick)
    /\ WF_vars(Stalled)
    /\ \A r \in RunId : WF_vars(RunStep(r)) /\ WF_vars(Timeout(r))
    /\ \A c \in Clients : WF_vars(AutoComplete(c) \/ CancelWrite(c)
                                  \/ RemoveBullMQJob(c) \/ Purge(c))

\* The provider reports the end of a crawl (the step is Check's last disjunct).
ProviderEnds(r) == Check(r) /\ run'[r].final

\* On top of it the provider does not keep a crawl running for ever.
ProviderFairness == Fairness /\ \A r \in RunId : SF_vars(ProviderEnds(r))
ProviderFairSpec == Spec /\ ProviderFairness

-----------------------------------------------------------------------------
(* Properties *)

\* Every variable keeps its shape.
TypeOK ==
    /\ mode \in Modes
    /\ row \in RowType
    /\ queue \in QueueType
    /\ run \in [RunId -> RunType]
    /\ client \in [Clients -> ClientType]
    /\ sent \subseteq Events /\ skipped \subseteq Events

\* No interleaving of runs, retries, late writes of timed-out runs and
\* auto-completing readers takes a job out of CANCELED.
CancelIsFinal ==
    [][row.status = "CANCELED" => row'.status = "CANCELED"]_vars

\* A run gets through fewer than PollEvery polls once its job is CANCELED,
\* wherever in its polling cycle the cancellation falls, as long as the row is
\* not deleted as well.
CancelHeard == ~row.deleted => \A r \in RunId : run[r].late < PollEvery

\* The BullMQ job is taken away only from a job that is CANCELED, deleted or
\* being deleted: none is left waiting for a worker that will never come.
NoOrphanedRow ==
    queue.state = "removed" =>
        \/ row.status = "CANCELED" \/ row.deleted
        \/ \E c \in Clients : client[c].pc = "purge"

\* Without timeouts and lock losses, however often workers crash and requests
\* interfere, a job BullMQ has finished with has a terminal status, unless it
\* was found stalled too often or was deleted.
Finished ==
    \/ queue.state = "completed"
    \/ queue.state = "failed" /\ queue.stalls <= MaxStalled

FinishedMeansSettled == Finished => row.status \in Terminal \/ row.deleted

\* Such a job is settled, and its outcome does not get lost: however many attempts were
\* cut short before their finally block, what the row says in the end has been
\* dispatched as a webhook event, or a reader has completed a job whose end as FAILED
\* was.  An event is missing only when a finally block had that very outcome to announce
\* and found the switch off or could not look, which "unheard" is about.
Announced(events) ==
    \/ row.status \in events
    \/ row.status = "COMPLETED" /\ "FAILED" \in events

OutcomeIsAnnounced ==
    /\ FinishedMeansSettled
    /\ Finished /\ row.status \in Events /\ ~row.deleted =>
          Announced(sent \cup skipped)

\* An outcome is announced only for a job that has left PENDING for good, and a
\* PENDING job has neither pages nor counters.
NothingBeforeStart ==
    row.status = "PENDING" =>
        /\ sent = {} /\ skipped = {}
        /\ ~row.pages /\ row.counts = Counts(0, 0, 0)

\* Every run that BullMQ starts comes to an end: a crawl that never finishes is
\* ended by its timeout, even when the run is no longer BullMQ's.
RunsEnd == \A r \in RunId : Live(r) ~> ~Live(r)

\* A job in the queue is finished with, whatever fails on the way, and so is each
\* run of it, also one that BullMQ has given up.
QueueDrains ==
    /\ queue.state = "waiting" ~> queue.state \in {"completed", "failed", "removed"}
    /\ RunsEnd

\* Without timeouts and lock losses, a queued job ends up in a terminal status
\* and stays there, unless it is deleted or stalls too often.
JobsSettle ==
    queue.state = "waiting" ~>
        \/ [](row.status \in Terminal)
        \/ row.deleted \/ queue.stalls > MaxStalled
=============================================================================

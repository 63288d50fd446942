--------------------------- MODULE CrawlJobProofs ---------------------------
(***************************************************************************)
(* Theorems about CrawlJob, for every value of its constants: any number of *)
(* pages, attempts, stalls and clients, any polling cycle, any faults.      *)
(***************************************************************************)
EXTENDS MCCrawlJob, TLAPS

-----------------------------------------------------------------------------
(* The statements on the row *)

\* Whatever statement is run on a well-formed row leaves a well-formed row.
LEMMA StatusTyped ==
    ASSUME NEW rw \in RowType, NEW s \in JOB_STATUS, NEW c \in CountsType
    PROVE  /\ UpdateStatus(rw, s, c) \in RowType
           /\ BatchUpdateStatus(rw, s) \in RowType
BY DEF RowType, UpdateStatus, BatchUpdateStatus

LEMMA ProgressTyped ==
    ASSUME NEW rw \in RowType, NEW t \in Nat, NEW d \in Nat, NEW f \in Nat
    PROVE  UpdateProgress(rw, t, d, f) \in RowType
BY DEF RowType, CountsType, UpdateProgress

LEMMA MarksTyped ==
    ASSUME NEW rw \in RowType
    PROVE  /\ SaveFirecrawlJobId(rw) \in RowType
           /\ UpsertPages(rw) \in RowType
           /\ SoftDelete(rw) \in RowType
BY DEF RowType, SaveFirecrawlJobId, UpsertPages, SoftDelete

\* The status a run may write is one of the column's values.
LEMMA StatusForTyped == \A why \in Whys : StatusFor(why) \in JOB_STATUS
BY DEF Whys, StatusFor, JOB_STATUS

-----------------------------------------------------------------------------
(* Type correctness *)

\* Counting polls modulo PollEvery adds one, or wraps to zero.
LEMMA PollWraps ==
    ASSUME NEW n \in 0..(PollEvery - 1)
    PROVE  /\ (n + 1) % PollEvery \in 0..(PollEvery - 1)
           /\ \/ (n + 1) % PollEvery = 0
              \/ (n + 1) % PollEvery = n + 1
BY ConstantsOK, SMTT(30)

\* The counters that a status write carries are natural numbers.
LEMMA CountsForTyped ==
    ASSUME TypeOK, NEW r \in RunId
    PROVE  CountsFor(r) \subseteq CountsType
<1> DEFINE d == run[r].done
           t == run[r].total
<1>1. d \in Nat /\ t \in Nat /\ d <= MaxPages /\ row.counts \in CountsType
      /\ MaxPages \in Nat
  BY ConstantsOK DEF TypeOK, RunType, RowType
<1>2. \A a \in Nat, b \in Nat, c \in Nat : Counts(a, b, c) \in CountsType
  BY DEF Counts, CountsType
<1>3. row.counts.failedPages \in Nat
  BY <1>1 DEF CountsType
<1>4. Max2(t, d) \in Nat
  BY <1>1 DEF Max2
<1>5. \A s \in 0..d : Max2(1, t - s) \in Nat /\ s \in Nat
  BY <1>1 DEF Max2
<1>6. \A k \in 0..(MaxPages - d) : d + k \in Nat /\ k \in Nat
  BY <1>1
<1> HIDE DEF d, t
<1>7. CountsFor(r) \subseteq
        {row.counts, Counts(0, 0, 0), Counts(0, 0, MaxPages),
         Counts(1, 1, 0), Counts(1, 0, 1)}
        \cup {Counts(Max2(t, d), s, row.counts.failedPages) : s \in 0..d}
        \cup {Counts(Max2(t, d), s, Max2(1, t - s)) : s \in 0..d}
        \cup {Counts(d + k, d, k) : k \in 0..(MaxPages - d)}
  BY DEF CountsFor, d, t
<1>8. QED
  BY <1>1, <1>2, <1>3, <1>4, <1>5, <1>6, <1>7

\* A run that has left for the code behind crawlSite is well-formed when the
\* result it carries is.
LEMMA AfterCrawlTyped ==
    ASSUME TypeOK, NEW r \in RunId, NEW why \in Whys, NEW result \in RunType,
           AfterCrawl(r, why, result)
    PROVE  run' \in [RunId -> RunType]
<1>1. [result EXCEPT !.why = why,
                     !.pc = IF result.aborted THEN "finally"
                            ELSE IF why = "completed" THEN "batch"
                            ELSE "write"] \in RunType
  BY DEF RunType, RunPCs
<1>2. QED
  BY <1>1 DEF AfterCrawl, TypeOK

\* A run at rest, at any place, is well-formed.
LEMMA EndedTyped ==
    ASSUME NEW pc \in RunPCs
    PROVE  IdleRun \in RunType /\ Ended(pc) \in RunType
<1>1. IdleRun \in RunType
  BY ConstantsOK DEF IdleRun, RunType, Whys, RunPCs
<1>2. QED
  BY <1>1 DEF Ended, RunType

\* A run that goes on to another place, or to a status write, is well-formed.
LEMMA GotoTyped ==
    ASSUME TypeOK, NEW r \in RunId, NEW pc \in RunPCs, NEW why \in Whys,
           Goto(r, pc) \/ GotoWrite(r, why)
    PROVE  run' \in [RunId -> RunType]
<1>1. run[r] \in RunType /\ "write" \in RunPCs
  BY DEF TypeOK, RunPCs
<1>2. [run[r] EXCEPT !.pc = pc] \in RunType
  BY <1>1 DEF RunType
<1>3. [run[r] EXCEPT !.pc = "write", !.why = why] \in RunType
  BY <1>1 DEF RunType
<1>4. QED
  BY <1>2, <1>3 DEF TypeOK, Goto, GotoWrite

LEMMA InitTyped == Init => TypeOK
<1>1. IdleRun \in RunType
  BY ConstantsOK DEF IdleRun, RunType, Whys, RunPCs
<1>2. NewRow \in RowType
  BY DEF NewRow, RowType, CountsType, Counts, JOB_STATUS
<1>3. IdleClient \in ClientType
  BY DEF IdleClient, ClientAt, ClientType, Ops
<1>4. QED
  BY <1>1, <1>2, <1>3 DEF Init, TypeOK, QueueType, QueueStates

\* What BullMQ does to its job keeps the job's shape.
LEMMA QueueTyped ==
    ASSUME NEW q \in QueueType, NEW s \in QueueStates
    PROVE  /\ [q EXCEPT !.state = s] \in QueueType
           /\ [q EXCEPT !.stalls = @ + 1, !.state = s] \in QueueType
           /\ AttemptFailed(q) \in QueueType
<1>1. q.attempts + 1 \in Nat /\ q.stalls + 1 \in Nat
  BY DEF QueueType
<1>2. \A x \in QueueStates :
          [q EXCEPT !.attempts = q.attempts + 1, !.state = x] \in QueueType
  BY <1>1 DEF QueueType
<1>3. (IF q.attempts + 1 < MaxAttempts THEN "waiting" ELSE "failed")
          \in QueueStates
  BY DEF QueueStates
<1>4. AttemptFailed(q) \in QueueType
  BY <1>2, <1>3, Zenon DEF AttemptFailed
<1>5. QED
  BY <1>1, <1>4 DEF QueueType

\* The steps of BullMQ and of the environment.
LEMMA QueueStepTyped ==
    ASSUME TypeOK,
           \/ Enqueue \/ EnqueueFails \/ Pick \/ ToStalled
           \/ \E r \in RunId : Timeout(r) \/ Crash(r)
    PROVE  TypeOK'
<1> USE DEF TypeOK, QueueStates
<1>1. CASE Enqueue
  BY <1>1, QueueTyped DEF Enqueue
<1>2. CASE EnqueueFails
  BY <1>2, QueueTyped DEF EnqueueFails
<1>3. CASE Pick
  <2>1. run' \in [RunId -> RunType]
    <3>1. CASE Holder \in RunId
      <4>1. [run[Holder] EXCEPT !.pc = "load"] \in RunType
        BY <3>1 DEF RunType, RunPCs
      <4>2. QED
        BY <1>3, <3>1, <4>1 DEF Pick
    <3>2. CASE Holder \notin RunId
      BY <1>3, <3>2 DEF Pick
    <3>3. QED
      BY <3>1, <3>2
  <2>2. QED
    BY <1>3, <2>1, QueueTyped DEF Pick
<1>4. CASE ToStalled
  <2>1. (IF queue.stalls < MaxStalled THEN "waiting" ELSE "failed")
            \in QueueStates
    OBVIOUS
  <2>2. queue' \in QueueType
    BY <1>4, <2>1, QueueTyped, Zenon DEF ToStalled
  <2>3. QED
    BY <1>4, <2>2 DEF ToStalled
<1>5. ASSUME NEW r \in RunId, Timeout(r)
      PROVE  TypeOK'
  <2>1. [run[r] EXCEPT !.aborted = TRUE] \in RunType
    BY DEF RunType
  <2>2. run' \in [RunId -> RunType]
    BY <1>5, <2>1 DEF Timeout
  <2>3. queue' \in QueueType
    BY <1>5, QueueTyped DEF Timeout
  <2>4. QED
    BY <1>5, <2>2, <2>3 DEF Timeout
<1>6. ASSUME NEW r \in RunId, Crash(r)
      PROVE  TypeOK'
  <2>1. Ended("dead") \in RunType
    BY EndedTyped DEF RunPCs
  <2>2. QED
    BY <1>6, <2>1 DEF Crash
<1>7. QED
  BY <1>1, <1>2, <1>3, <1>4, <1>5, <1>6

\* The steps of a run that touch nothing but the run.
LEMMA QuietRunStepTyped ==
    ASSUME TypeOK, NEW r \in RunId,
           \/ Load(r) \/ Validate(r) \/ Scrape(r) \/ StartCrawl(r)
           \/ Diff(r) \/ Finally(r)
    PROVE  TypeOK'
<1>0. "batch" \in RunPCs /\ "return" \in RunPCs
  BY DEF RunPCs
<1>3. run[r] \in RunType
  BY DEF TypeOK
<1>1. \A why \in Whys :
          [run[r] EXCEPT !.pc = "batch", !.why = why] \in RunType
  BY <1>0, <1>3 DEF RunType
<1>2. \A e \in Events \cup {"none"} :
          [run[r] EXCEPT !.pc = "return", !.seen = e] \in RunType
  BY <1>0, <1>3 DEF RunType
<1>4. run' \in [RunId -> RunType]
  <2>1. CASE Load(r)
    <3>1. [run[r] EXCEPT !.pc = "return", !.why = "threw"] \in RunType
      BY <1>3 DEF RunType, RunPCs, Whys
    <3>2. QED
      BY <2>1, <3>1, GotoTyped DEF Load, TypeOK, Whys, RunPCs
  <2>2. CASE Validate(r)
    BY <2>2, GotoTyped DEF Validate, Whys, RunPCs
  <2>3. CASE Scrape(r)
    BY <2>3, <1>1, GotoTyped DEF Scrape, TypeOK, Whys, RunPCs
  <2>4. CASE StartCrawl(r)
    BY <2>4, <1>3, AfterCrawlTyped, GotoTyped DEF StartCrawl, Whys, RunPCs
  <2>5. CASE Diff(r)
    BY <2>5, GotoTyped DEF Diff, RunPCs, Whys
  <2>6. CASE Finally(r)
    <3>1. Outcome \in Events \cup {"none"}
      BY DEF Outcome
    <3> QED
      BY <2>6, <3>1, <1>2, GotoTyped DEF Finally, TypeOK, RunPCs, Whys
  <2>7. QED
    BY <2>1, <2>2, <2>3, <2>4, <2>5, <2>6
<1>5. UNCHANGED <<mode, row, queue, client, sent>> /\ skipped' \subseteq Events
  BY DEF Load, Validate, Scrape, StartCrawl, Diff, Finally, Outcome, TypeOK
<1>6. QED
  BY <1>4, <1>5 DEF TypeOK

\* The steps of a run that run a statement on the row.
LEMMA RowRunStepTyped ==
    ASSUME TypeOK, NEW r \in RunId,
           \/ Write(r) \/ Poll(r) \/ Check(r) \/ Persist(r) \/ Progress(r)
           \/ Result(r) \/ Batch(r)
    PROVE  TypeOK'
<1>1. run[r] \in RunType /\ row \in RowType /\ MaxPages \in Nat
  BY ConstantsOK DEF TypeOK
<1>2. run[r].done \in Nat /\ run[r].total \in Nat
  BY <1>1 DEF RunType
<1>3. CASE Write(r)
  <2>1. run[r].why \in Whys /\ StatusFor(run[r].why) \in JOB_STATUS
    BY <1>1, StatusForTyped DEF RunType
  <2>2. row' \in RowType
    BY <1>1, <1>3, <2>1, CountsForTyped, StatusTyped DEF Write
  <2>3. AfterWrite(run[r].why) \in RunPCs
    BY DEF AfterWrite, RunPCs
  <2>4. [IdleRun EXCEPT !.pc = AfterWrite(run[r].why),
                        !.aborted = run[r].aborted,
                        !.why = IF run[r].why = "threw"
                                THEN "threw" ELSE "none"] \in RunType
    BY <1>1, <2>3, EndedTyped DEF RunType, Whys
  <2>5. QED
    BY <1>3, <2>2, <2>4 DEF Write, TypeOK
<1>4. ASSUME StoreCrawlId(r)
      PROVE  row' \in RowType
  BY <1>1, <1>4, MarksTyped DEF StoreCrawlId
<1>5. CASE Poll(r)
  <2>1. run[r].polls \in 0..(PollEvery - 1) /\ run[r].late \in 0..PollEvery
    BY <1>1 DEF RunType
  <2>2. [run[r] EXCEPT !.total = 0] \in RunType
    BY <1>1 DEF RunType
  <2>3. ASSUME AfterCrawl(r, "canceled", [run[r] EXCEPT !.total = 0])
        PROVE  run' \in [RunId -> RunType]
    BY <2>2, <2>3, AfterCrawlTyped DEF Whys
  <2>4. DEFINE late == IF row.status = "CANCELED"
                       THEN Min2(run[r].late + 1, PollEvery)
                       ELSE run[r].late
               n == (run[r].polls + 1) % PollEvery
  <2>5. late \in 0..PollEvery
    BY <2>1, ConstantsOK DEF Min2
  <2>6. n \in 0..(PollEvery - 1)
    BY <2>1, PollWraps
  <2> HIDE DEF late, n
  <2>7. [run[r] EXCEPT !.pc = "check", !.polls = n, !.late = late]
            \in RunType
    BY <1>1, <2>5, <2>6 DEF RunType, RunPCs
  <2>8. \/ run' \in [RunId -> RunType] /\ StoreCrawlId(r)
        \/ /\ run' = [run EXCEPT ![r] = [run[r] EXCEPT
                          !.pc = "check", !.polls = n, !.late = late]]
           /\ UNCHANGED row
    BY <1>5, <2>3, Zenon DEF Poll, n, late
  <2>9. QED
    BY <1>1, <1>4, <1>5, <2>7, <2>8 DEF Poll, TypeOK
<1>6. CASE Check(r)
  <2>1. [run[r] EXCEPT !.total = 0] \in RunType
    BY <1>1 DEF RunType
  <2>2. CASE GotoWrite(r, "threw") /\ UNCHANGED row
    BY <1>1, <1>6, <2>2, GotoTyped DEF Check, TypeOK, Whys, RunPCs
  <2>3. CASE /\ AfterCrawl(r, "failed", [run[r] EXCEPT !.total = 0])
             /\ StoreCrawlId(r)
    BY <1>4, <1>6, <2>1, <2>3, AfterCrawlTyped DEF Check, TypeOK, Whys
  <2>4. ASSUME NEW d \in run[r].done..MaxPages, NEW t \in d..MaxPages,
               NEW final \in BOOLEAN, UNCHANGED row,
               run' = [run EXCEPT
                    ![r].done = d, ![r].total = t, ![r].final = final,
                    ![r].pc = IF ~run[r].aborted
                              THEN IF d > 0 THEN "persist" ELSE "progress"
                              ELSE IF final THEN "result" ELSE "poll"]
        PROVE  TypeOK'
    <3>1. d \in 0..MaxPages /\ t \in 0..MaxPages
      BY <1>1, <1>2
    <3> DEFINE pc == IF ~run[r].aborted
                     THEN IF d > 0 THEN "persist" ELSE "progress"
                     ELSE IF final THEN "result" ELSE "poll"
    <3>2. pc \in RunPCs
      BY DEF RunPCs
    <3> HIDE DEF pc
    <3>3. [run[r] EXCEPT !.done = d, !.total = t, !.final = final, !.pc = pc]
              \in RunType
      BY <1>1, <3>1, <3>2 DEF RunType
    <3>4. run' = [run EXCEPT ![r] = [run[r] EXCEPT
                      !.done = d, !.total = t, !.final = final, !.pc = pc]]
      BY <2>4 DEF pc
    <3>5. run' \in [RunId -> RunType]
      BY <3>3, <3>4 DEF TypeOK
    <3>6. UNCHANGED <<mode, queue, client, sent, skipped>>
      BY <1>6, Zenon DEF Check
    <3>7. QED
      BY <2>4, <3>5, <3>6 DEF TypeOK
  <2>5. QED
    BY <1>6, <2>2, <2>3, <2>4, Zenon DEF Check
<1>7. CASE Persist(r)
  BY <1>1, <1>7, MarksTyped, GotoTyped DEF Persist, TypeOK, RunPCs, Whys
<1>8. CASE Progress(r)
  <2>1. (IF run[r].final THEN "result" ELSE "poll") \in RunPCs
    BY DEF RunPCs
  <2>2. run' \in [RunId -> RunType]
    BY <1>8, <2>1, GotoTyped, Zenon DEF Progress, Whys
  <2>3. PICK f \in 0..run[r].done : row' = UpdateProgress(row, run[r].total, run[r].done, f)
    BY <1>8 DEF Progress
  <2>4. row' \in RowType
    BY <1>1, <1>2, <2>3, ProgressTyped
  <2>5. QED
    BY <1>8, <2>2, <2>4 DEF Progress, TypeOK
<1>9. CASE Result(r)
  BY <1>1, <1>4, <1>9, AfterCrawlTyped DEF Result, TypeOK, Whys
<1>10. CASE Batch(r)
  BY <1>1, <1>10, MarksTyped, GotoTyped DEF Batch, TypeOK, RunPCs, Whys
<1>11. QED
  BY <1>3, <1>5, <1>6, <1>7, <1>8, <1>9, <1>10

LEMMA ReturnTyped ==
    ASSUME TypeOK, NEW r \in RunId, Return(r)
    PROVE  TypeOK'
<1>1. run' \in [RunId -> RunType]
  BY EndedTyped DEF Return, TypeOK, RunPCs
<1>2. queue' \in QueueType
  BY QueueTyped DEF Return, TypeOK, QueueStates
<1>3. run[r].seen \in Events \cup {"none"}
  BY DEF TypeOK, RunType
<1>4. QED
  BY <1>1, <1>2, <1>3 DEF Return, TypeOK

\* The steps of the API handlers.
LEMMA ClientStepTyped ==
    ASSUME TypeOK, NEW c \in Clients, ClientStep(c)
    PROVE  TypeOK'
<1>1. \A pc \in {"idle", "auto", "act", "remove", "purge"}, op \in Ops :
          ClientAt(pc, op) \in ClientType
  BY DEF ClientAt, ClientType, Ops
<1>2. \A op \in Ops, status \in JOB_STATUS :
          NextPC(op, status) \in {"idle", "act", "remove"}
  BY DEF NextPC
<1>3. client[c] \in ClientType /\ row \in RowType
  BY DEF TypeOK
<1>4. row.counts \in CountsType /\ row.status \in JOB_STATUS
  BY <1>3 DEF RowType
<1>5. {"COMPLETED", "CANCELED"} \subseteq JOB_STATUS
  BY DEF JOB_STATUS
<1>6. ASSUME NEW op \in ClientOps, Open(c, op)
      PROVE  TypeOK'
  <2>1. op \in Ops
    BY ConstantsOK
  <2>2. \A pc \in {"auto", NextPC(op, row.status)} :
            ClientAt(pc, op) \in ClientType
    BY <1>1, <1>2, <1>4, <2>1
  <2>3. client' \in [Clients -> ClientType]
    BY <1>6, <2>2 DEF Open, TypeOK
  <2>4. QED
    BY <1>6, <2>3 DEF Open, TypeOK
<1>7. CASE AutoComplete(c)
  <2>1. client[c].op \in Ops
    BY <1>3 DEF ClientType
  <2>2. row' \in RowType
    BY <1>3, <1>4, <1>5, <1>7, StatusTyped DEF AutoComplete
  <2>3. NextPC(client[c].op, row'.status) \in {"idle", "act", "remove"}
    BY <1>2, <2>1, <2>2 DEF RowType
  <2>4. client' \in [Clients -> ClientType]
    BY <1>1, <1>7, <2>1, <2>3 DEF AutoComplete, TypeOK
  <2>5. QED
    BY <1>7, <2>2, <2>4 DEF AutoComplete, TypeOK
<1>8. CASE CancelWrite(c)
  <2>1. row' \in RowType
    BY <1>3, <1>4, <1>5, <1>8, StatusTyped DEF CancelWrite
  <2>2. [client[c] EXCEPT !.pc = "remove"] \in ClientType
    BY <1>3 DEF ClientType
  <2>3. QED
    BY <1>8, <2>1, <2>2 DEF CancelWrite, TypeOK
<1>9. CASE RemoveBullMQJob(c)
  <2>1. queue' \in QueueType
    BY <1>9, QueueTyped DEF RemoveBullMQJob, TypeOK, QueueStates
  <2>2. client[c].op \in Ops
    BY <1>3 DEF ClientType
  <2>3. client' \in [Clients -> ClientType]
    BY <1>1, <1>9, <2>2 DEF RemoveBullMQJob, TypeOK
  <2>4. QED
    BY <1>9, <2>1, <2>3 DEF RemoveBullMQJob, TypeOK
<1>10. CASE Purge(c)
  <2>1. row' \in RowType
    BY <1>3, <1>10, MarksTyped DEF Purge
  <2>2. IdleClient \in ClientType
    BY <1>1 DEF IdleClient, Ops
  <2>3. QED
    BY <1>10, <2>1, <2>2 DEF Purge, TypeOK
<1>11. QED
  BY <1>6, <1>7, <1>8, <1>9, <1>10 DEF ClientStep

\* Every step keeps the shapes.
LEMMA StepTyped == TypeOK /\ [Next]_vars => TypeOK'
<1> SUFFICES ASSUME TypeOK, [Next]_vars PROVE TypeOK'
  OBVIOUS
<1>1. ASSUME NEW r \in RunId, RunStep(r)
      PROVE  TypeOK'
  BY <1>1, QuietRunStepTyped, RowRunStepTyped, ReturnTyped DEF RunStep
<1>2. CASE Stalled \/ LockLost
  BY <1>2, QueueStepTyped DEF Stalled, LockLost
<1>3. CASE UNCHANGED vars
  BY <1>3 DEF vars, TypeOK
<1>4. QED
  BY <1>1, <1>2, <1>3, QueueStepTyped, ClientStepTyped DEF Next

\* No schedule of runs, retries, failures and requests gives a variable of the
\* job a value outside its type: counters stay natural numbers, a run's
\* counters stay within MaxPages.
THEOREM TypeCorrect == Spec => []TypeOK
BY InitTyped, StepTyped, PTL DEF Spec

-----------------------------------------------------------------------------
(* CANCELED is final *)

\* One of the repository's statements on the row.
RowStatement ==
    \/ \E s \in JOB_STATUS, c \in CountsType : row' = UpdateStatus(row, s, c)
    \/ row' = BatchUpdateStatus(row, "COMPLETED")
    \/ \E t \in Nat, d \in Nat, f \in Nat : row' = UpdateProgress(row, t, d, f)
    \/ row' \in {SaveFirecrawlJobId(row), UpsertPages(row), SoftDelete(row)}

LEMMA RunRowSteps ==
    ASSUME TypeOK, NEW r \in RunId, RunStep(r)
    PROVE  UNCHANGED row \/ RowStatement
<1>1. CASE Write(r)
  <2>1. run[r].why \in Whys
    BY DEF TypeOK, RunType
  <2>2. QED
    BY <1>1, <2>1, StatusForTyped, CountsForTyped DEF Write, RowStatement
<1>2. CASE Progress(r)
  <2>1. run[r].total \in Nat /\ run[r].done \in Nat
    BY ConstantsOK DEF TypeOK, RunType
  <2>2. PICK f \in 0..run[r].done : row' = UpdateProgress(row, run[r].total, run[r].done, f)
    BY <1>2 DEF Progress
  <2>3. QED
    BY <2>1, <2>2 DEF RowStatement
<1>3. StoreCrawlId(r) => UNCHANGED row \/ RowStatement
  BY DEF StoreCrawlId, RowStatement
<1>4. CASE Poll(r) \/ Check(r) \/ Result(r)
  BY <1>3, <1>4 DEF Poll, Check, Result
<1>5. CASE Persist(r) \/ Batch(r)
  BY <1>5 DEF Persist, Batch, RowStatement
<1>6. CASE \/ Load(r) \/ Validate(r) \/ Scrape(r) \/ StartCrawl(r)
           \/ Diff(r) \/ Finally(r) \/ Return(r)
  BY <1>6 DEF Load, Validate, Scrape, StartCrawl, Diff, Finally, Return
<1>7. QED
  BY <1>1, <1>2, <1>4, <1>5, <1>6 DEF RunStep

LEMMA ClientRowSteps ==
    ASSUME TypeOK, NEW c \in Clients, ClientStep(c)
    PROVE  UNCHANGED row \/ RowStatement
<1>1. row.counts \in CountsType
  BY DEF TypeOK, RowType
<1>2. {"COMPLETED", "CANCELED"} \subseteq JOB_STATUS
  BY DEF JOB_STATUS
<1>3. CASE AutoComplete(c)
  BY <1>1, <1>2, <1>3 DEF AutoComplete, RowStatement
<1>4. CASE CancelWrite(c)
  BY <1>1, <1>2, <1>4 DEF CancelWrite, RowStatement
<1>5. CASE Purge(c)
  BY <1>5 DEF Purge, RowStatement
<1>6. QED
  BY <1>3, <1>4, <1>5 DEF ClientStep, Open, RemoveBullMQJob

\* Every step runs at most one statement on the row.
LEMMA RowSteps ==
    ASSUME TypeOK, Next
    PROVE  UNCHANGED row \/ RowStatement
<1>1. CASE Enqueue \/ EnqueueFails \/ Pick \/ Stalled \/ LockLost
  BY <1>1 DEF Enqueue, EnqueueFails, Pick, Stalled, LockLost, ToStalled
<1>2. ASSUME NEW r \in RunId, Timeout(r) \/ Crash(r)
      PROVE  UNCHANGED row
  BY <1>2 DEF Timeout, Crash
<1>3. QED
  BY <1>1, <1>2, RunRowSteps, ClientRowSteps DEF Next

\* No statement takes a row out of CANCELED or undeletes it.
LEMMA StatementsKeep ==
    ASSUME TypeOK, RowStatement
    PROVE  /\ row.status = "CANCELED" => row'.status = "CANCELED"
           /\ row.deleted => row'.deleted
<1>1. row \in RowType
  BY DEF TypeOK
<1>2. ASSUME NEW s \in JOB_STATUS, NEW c \in CountsType
      PROVE  LET rw == UpdateStatus(row, s, c)
             IN  /\ row.status = "CANCELED" => rw.status = "CANCELED"
                 /\ row.deleted => rw.deleted
  BY <1>1 DEF UpdateStatus, RowType
<1>3. LET rw == BatchUpdateStatus(row, "COMPLETED")
      IN  /\ row.status = "CANCELED" => rw.status = "CANCELED"
          /\ row.deleted => rw.deleted
  BY <1>1 DEF BatchUpdateStatus, RowType
<1>4. ASSUME NEW t \in Nat, NEW d \in Nat, NEW f \in Nat
      PROVE  LET rw == UpdateProgress(row, t, d, f)
             IN  rw.status = row.status /\ rw.deleted = row.deleted
  BY <1>1 DEF UpdateProgress, RowType
<1>5. \A rw \in {SaveFirecrawlJobId(row), UpsertPages(row), SoftDelete(row)} :
          rw.status = row.status /\ (row.deleted => rw.deleted)
  BY <1>1 DEF SaveFirecrawlJobId, UpsertPages, SoftDelete, RowType
<1>6. QED
  BY <1>2, <1>3, <1>4, <1>5 DEF RowStatement

LEMMA CanceledKept ==
    ASSUME TypeOK, [Next]_vars
    PROVE  /\ row.status = "CANCELED" => row'.status = "CANCELED"
           /\ row.deleted => row'.deleted
BY RowSteps, StatementsKeep DEF vars

\* No interleaving of timed-out runs, retries, auto-completing readers and
\* requests takes a job out of CANCELED.
THEOREM CanceledForGood == Spec => CancelIsFinal
<1>1. TypeOK /\ [Next]_vars =>
          [row.status = "CANCELED" => row'.status = "CANCELED"]_vars
  BY CanceledKept
<1>2. QED
  BY <1>1, TypeCorrect, PTL DEF Spec, CancelIsFinal

-----------------------------------------------------------------------------
(* A running crawl hears of its cancellation within one polling cycle *)

\* The strengthening: late counts only polls since the job became CANCELED, and
\* as long as the row is visible it has not overtaken the cycle's own counter.
LateBehindPolls ==
    \A q \in RunId : /\ run[q].late > 0 => row.status = "CANCELED"
                     /\ ~row.deleted => run[q].late <= run[q].polls

\* A step leaves run q's counters alone or sets them back.
CountersKept(q) ==
    \/ run'[q].late = run[q].late /\ run'[q].polls = run[q].polls
    \/ run'[q].late = 0 /\ run'[q].polls = 0

\* The poll that goes on to the provider.
PollsOn(q) ==
    LET n == (run[q].polls + 1) % PollEvery
    IN  /\ ~(n = 0 /\ Visible(row) /\ row.status = "CANCELED")
        /\ run'[q].polls = n
        /\ run'[q].late = IF row.status = "CANCELED"
                          THEN Min2(run[q].late + 1, PollEvery)
                          ELSE run[q].late
        /\ UNCHANGED row

LEMMA RunCounterSteps ==
    ASSUME TypeOK, NEW r \in RunId, RunStep(r), NEW q \in RunId
    PROVE  CountersKept(q) \/ PollsOn(q)
<1>1. run \in [RunId -> RunType] /\ run[q] \in RunType /\ run[r] \in RunType
  BY DEF TypeOK
<1>3. ASSUME NEW pc \in RunPCs, NEW why \in Whys,
             Goto(r, pc) \/ GotoWrite(r, why)
      PROVE  CountersKept(q)
  BY <1>1, <1>3 DEF Goto, GotoWrite, CountersKept, RunType
<1>4. ASSUME NEW why \in Whys, NEW result \in RunType,
             result.late = run[r].late, result.polls = run[r].polls,
             AfterCrawl(r, why, result)
      PROVE  CountersKept(q)
  BY <1>1, <1>4 DEF AfterCrawl, CountersKept, RunType
<1>5. /\ [run[r] EXCEPT !.total = 0] \in RunType
      /\ [run[r] EXCEPT !.total = 0].late = run[r].late
      /\ [run[r] EXCEPT !.total = 0].polls = run[r].polls
  BY <1>1, ConstantsOK DEF RunType
<1>6. CASE Load(r) \/ Validate(r) \/ Persist(r) \/ Progress(r) \/ Batch(r)
           \/ Diff(r) \/ Finally(r)
  BY <1>1, <1>6 DEF Load, Validate, Persist, Progress, Batch, Diff, Finally,
                    Goto, GotoWrite, CountersKept, RunType
<1>7. CASE Write(r) \/ Return(r)
  <2>1. \A pc, a, w :
            /\ [IdleRun EXCEPT !.pc = pc, !.aborted = a, !.why = w].late = 0
            /\ [IdleRun EXCEPT !.pc = pc, !.aborted = a, !.why = w].polls = 0
            /\ Ended(pc).late = 0 /\ Ended(pc).polls = 0
    BY DEF Ended, IdleRun
  <2>2. CASE Write(r)
    BY <1>1, <2>1, <2>2 DEF Write, CountersKept
  <2>3. CASE Return(r)
    BY <1>1, <2>1, <2>3 DEF Return, CountersKept
  <2>4. QED
    BY <1>7, <2>2, <2>3
<1>8. CASE Scrape(r)
  BY <1>1, <1>8 DEF Scrape, Goto, GotoWrite, CountersKept, RunType
<1>9. CASE StartCrawl(r)
  BY <1>1, <1>3, <1>4, <1>9 DEF StartCrawl, Whys, RunPCs
<1>10. CASE Result(r)
  BY <1>1, <1>4, <1>10 DEF Result, Whys
<1>11. CASE Check(r)
  <2>1. CASE \E d \in run[r].done..MaxPages : \E t \in d..MaxPages :
               \E final \in BOOLEAN :
                 run' = [run EXCEPT
                    ![r].done = d, ![r].total = t, ![r].final = final,
                    ![r].pc = IF ~run[r].aborted
                              THEN IF d > 0 THEN "persist" ELSE "progress"
                              ELSE IF final THEN "result" ELSE "poll"]
    BY <1>1, <2>1 DEF CountersKept, RunType
  <2>2. QED
    BY <1>3, <1>4, <1>5, <1>11, <2>1 DEF Check, Whys, RunPCs
<1>12. CASE Poll(r)
  <2>1. CASE AfterCrawl(r, "canceled", [run[r] EXCEPT !.total = 0])
    BY <1>4, <1>5, <2>1 DEF Whys
  <2>2. CASE ~AfterCrawl(r, "canceled", [run[r] EXCEPT !.total = 0])
    BY <1>1, <1>12, <2>2 DEF Poll, PollsOn, CountersKept, RunType
  <2>3. QED
    BY <2>1, <2>2
<1>13. QED
  BY <1>6, <1>7, <1>8, <1>9, <1>10, <1>11, <1>12 DEF RunStep

LEMMA CounterSteps ==
    ASSUME TypeOK, [Next]_vars, NEW q \in RunId
    PROVE  CountersKept(q) \/ PollsOn(q)
<1>1. run \in [RunId -> RunType] /\ run[q] \in RunType
  BY DEF TypeOK
<1>2. CASE Pick
  BY <1>1, <1>2 DEF Pick, CountersKept, RunType
<1>3. ASSUME NEW r \in RunId, Timeout(r) \/ Crash(r)
      PROVE  CountersKept(q)
  BY <1>1, <1>3 DEF Timeout, Crash, Ended, IdleRun, CountersKept, RunType
<1>4. CASE UNCHANGED run
  BY <1>4 DEF CountersKept
<1>5. Enqueue \/ EnqueueFails \/ Stalled \/ LockLost => UNCHANGED run
  BY DEF Enqueue, EnqueueFails, Stalled, LockLost, ToStalled
<1>6. \A c \in Clients : ClientStep(c) => UNCHANGED run
  BY DEF ClientStep, Open, AutoComplete, CancelWrite, RemoveBullMQJob, Purge
<1>7. QED
  BY <1>2, <1>3, <1>4, <1>5, <1>6, RunCounterSteps DEF Next, vars

LEMMA LateStep ==
    ASSUME TypeOK, LateBehindPolls, [Next]_vars
    PROVE  LateBehindPolls'
<1> SUFFICES ASSUME NEW q \in RunId
             PROVE  /\ run'[q].late > 0 => row'.status = "CANCELED"
                    /\ ~row'.deleted => run'[q].late <= run'[q].polls
  BY DEF LateBehindPolls
<1>1. /\ run[q].late > 0 => row.status = "CANCELED"
      /\ ~row.deleted => run[q].late <= run[q].polls
  BY DEF LateBehindPolls
<1>2. run[q].late \in Nat /\ run[q].polls \in 0..(PollEvery - 1)
      /\ row.deleted \in BOOLEAN
  BY ConstantsOK DEF TypeOK, RunType, RowType
<1>3. CASE CountersKept(q)
  BY <1>1, <1>2, <1>3, CanceledKept DEF CountersKept
<1>4. CASE PollsOn(q)
  <2> DEFINE n == (run[q].polls + 1) % PollEvery
  <2>1. n = 0 \/ n = run[q].polls + 1
    BY <1>2, PollWraps
  <2>2. ~(n = 0 /\ ~row.deleted /\ row.status = "CANCELED")
    BY <1>4 DEF PollsOn, Visible
  <2>3. run'[q].polls = n /\ UNCHANGED row
    BY <1>4 DEF PollsOn
  <2>4. run'[q].late = IF row.status = "CANCELED"
                       THEN Min2(run[q].late + 1, PollEvery)
                       ELSE run[q].late
    BY <1>4 DEF PollsOn
  <2> HIDE DEF n
  <2>5. CASE row.status = "CANCELED"
    BY <1>1, <1>2, <2>1, <2>2, <2>3, <2>4, <2>5, ConstantsOK DEF Min2
  <2>6. CASE row.status # "CANCELED"
    BY <1>1, <1>2, <2>1, <2>3, <2>4, <2>6
  <2>7. QED
    BY <2>5, <2>6
<1>5. QED
  BY <1>3, <1>4, CounterSteps

\* Wherever in its polling cycle a crawl is when its job is canceled, and
\* however it is interleaved with other runs, it asks the provider fewer than
\* PollEvery times more, unless the job is deleted as well.
THEOREM CancellationHeard == Spec => []CancelHeard
<1>1. Init => LateBehindPolls
  BY DEF Init, IdleRun, LateBehindPolls
<1>2. TypeOK /\ LateBehindPolls /\ [Next]_vars => LateBehindPolls'
  BY LateStep
<1>3. TypeOK /\ LateBehindPolls => CancelHeard
  BY ConstantsOK DEF LateBehindPolls, CancelHeard, TypeOK, RunType
<1>4. QED
  BY <1>1, <1>2, <1>3, TypeCorrect, PTL DEF Spec

-----------------------------------------------------------------------------
(* Nothing happens to a PENDING job, and the status follows the lifecycle *)

\* A run that has not got past its first status write, or is on its way out
\* without having done so.
Unstarted(x) ==
    /\ \/ x.pc \in {"idle", "load", "done", "dead", "return"}
       \/ x.pc = "write" /\ x.why = "start"
    /\ x.seen = "none"

\* The strengthening of NothingBeforeStart: while the job is PENDING no run has
\* started work, and no reader has found it complete.
PendingIsUntouched ==
    row.status = "PENDING" =>
        /\ sent = {} /\ skipped = {}
        /\ ~row.pages /\ row.counts = Counts(0, 0, 0)
        /\ \A q \in RunId : Unstarted(run[q])
        /\ \A c \in Clients : client[c].pc # "auto"

\* The statuses that the program ever writes.
StatusReached ==
    row.status \in {"PENDING", "RUNNING", "COMPLETED", "FAILED", "CANCELED"}

StartInv == PendingIsUntouched /\ StatusReached

\* What a step does to the status and the mark: Lifecycle's steps, spelled out.
StatusKept == row'.status = row.status /\ row'.deleted = row.deleted
StatusStep ==
    \/ StatusKept
    \/ /\ row'.deleted = row.deleted
       /\ \/ row.status # "CANCELED" /\ row'.status = "RUNNING"
          \/ /\ row.status \in {"RUNNING", "COMPLETED", "FAILED"}
             /\ row'.status \in {"COMPLETED", "FAILED"}
          \/ row'.status = "CANCELED"
    \/ row'.status = row.status /\ row'.deleted = TRUE

\* updateStatus in terms of the lifecycle.
LEMMA UpdateStatusSteps ==
    ASSUME TypeOK, StatusReached, NEW s \in JOB_STATUS, NEW c \in CountsType,
           s \in {"RUNNING", "CANCELED", "COMPLETED", "FAILED"},
           s \in {"COMPLETED", "FAILED"} => row.status # "PENDING",
           row' = UpdateStatus(row, s, c)
    PROVE  StatusStep
<1>1. row \in RowType
  BY DEF TypeOK
<1>2. CASE s # "CANCELED" /\ row.status = "CANCELED"
  BY <1>2 DEF UpdateStatus, StatusStep, StatusKept
<1>3. CASE ~(s # "CANCELED" /\ row.status = "CANCELED")
  <2>1. row' = [row EXCEPT !.status = s, !.counts = c]
    BY <1>3 DEF UpdateStatus
  <2>2. row'.status = s /\ row'.deleted = row.deleted
    BY <1>1, <2>1 DEF RowType
  <2>3. QED
    BY <1>3, <2>2 DEF StatusReached, StatusStep
<1>4. QED
  BY <1>2, <1>3

LEMMA RunStatusSteps ==
    ASSUME TypeOK, StartInv, NEW r \in RunId, RunStep(r)
    PROVE  StatusStep
<1>1. row \in RowType
  BY DEF TypeOK
<1>2. CASE Write(r)
  <2>1. run[r].why \in Whys
    BY DEF TypeOK, RunType
  <2>2. PICK c \in CountsType : row' = UpdateStatus(row, StatusFor(run[r].why), c)
    BY <1>2, CountsForTyped DEF Write
  <2>3. StatusFor(run[r].why) \in {"RUNNING", "CANCELED", "COMPLETED", "FAILED"}
    BY DEF StatusFor
  <2>4. row.status = "PENDING" => run[r].why = "start"
    BY <1>2 DEF Write, StartInv, PendingIsUntouched, Unstarted
  <2>5. run[r].why = "start" => StatusFor(run[r].why) = "RUNNING"
    BY DEF StatusFor
  <2>6. QED
    BY <2>1, <2>2, <2>3, <2>4, <2>5, StatusForTyped, UpdateStatusSteps
       DEF StartInv
<1>3. /\ SaveFirecrawlJobId(row).status = row.status
      /\ SaveFirecrawlJobId(row).deleted = row.deleted
      /\ UpsertPages(row).status = row.status
      /\ UpsertPages(row).deleted = row.deleted
  BY <1>1 DEF RowType, SaveFirecrawlJobId, UpsertPages
<1>4. \A t, d, f : /\ UpdateProgress(row, t, d, f).status = row.status
                   /\ UpdateProgress(row, t, d, f).deleted = row.deleted
  BY <1>1 DEF RowType, UpdateProgress
<1>5. CASE Poll(r) \/ Check(r) \/ Result(r)
  BY <1>3, <1>5 DEF Poll, Check, Result, StoreCrawlId, StatusStep, StatusKept
<1>6. CASE Persist(r) \/ Batch(r)
  BY <1>3, <1>6 DEF Persist, Batch, StatusStep, StatusKept
<1>7. CASE Progress(r)
  BY <1>4, <1>7 DEF Progress, StatusStep, StatusKept
<1>8. CASE \/ Load(r) \/ Validate(r) \/ Scrape(r) \/ StartCrawl(r)
           \/ Diff(r) \/ Finally(r) \/ Return(r)
  BY <1>8 DEF Load, Validate, Scrape, StartCrawl, Diff, Finally, Return,
              StatusStep, StatusKept
<1>9. QED
  BY <1>2, <1>5, <1>6, <1>7, <1>8 DEF RunStep

LEMMA ClientStatusSteps ==
    ASSUME TypeOK, StartInv, NEW c \in Clients, ClientStep(c)
    PROVE  StatusStep
<1>1. row \in RowType /\ row.counts \in CountsType
  BY DEF TypeOK, RowType
<1>2. {"COMPLETED", "CANCELED"} \subseteq JOB_STATUS
  BY DEF JOB_STATUS
<1>3. CASE AutoComplete(c)
  <2>1. row.status # "PENDING"
    BY <1>3 DEF AutoComplete, StartInv, PendingIsUntouched
  <2>2. CASE row' = UpdateStatus(row, "COMPLETED", row.counts)
    BY <1>1, <1>2, <2>1, <2>2, UpdateStatusSteps DEF StartInv
  <2>3. CASE row' = BatchUpdateStatus(row, "COMPLETED")
    BY <1>1, <2>1, <2>3
       DEF BatchUpdateStatus, RowType, StartInv, StatusReached, StatusStep,
           StatusKept
  <2>4. QED
    BY <1>3, <2>2, <2>3 DEF AutoComplete
<1>4. CASE CancelWrite(c)
  BY <1>1, <1>2, <1>4, UpdateStatusSteps DEF CancelWrite, StartInv
<1>5. CASE Purge(c)
  BY <1>1, <1>5 DEF Purge, SoftDelete, RowType, StatusStep
<1>6. QED
  BY <1>3, <1>4, <1>5
     DEF ClientStep, Open, RemoveBullMQJob, StatusStep, StatusKept

LEMMA StatusSteps ==
    ASSUME TypeOK, StartInv, [Next]_vars
    PROVE  StatusStep
<1>1. CASE UNCHANGED row
  BY <1>1 DEF StatusStep, StatusKept
<1>2. CASE Enqueue \/ EnqueueFails \/ Pick \/ Stalled \/ LockLost
  BY <1>1, <1>2 DEF Enqueue, EnqueueFails, Pick, Stalled, LockLost, ToStalled
<1>3. ASSUME NEW r \in RunId, Timeout(r) \/ Crash(r)
      PROVE  UNCHANGED row
  BY <1>3 DEF Timeout, Crash
<1>4. QED
  BY <1>1, <1>2, <1>3, RunStatusSteps, ClientStatusSteps DEF Next, vars

\* A run's step on a job that is PENDING and stays so is Load or Return.
LEMMA PendingRunSteps ==
    ASSUME TypeOK, StartInv, NEW r \in RunId, RunStep(r),
           row.status = "PENDING", row'.status = "PENDING"
    PROVE  PendingIsUntouched'
<1>1. /\ sent = {} /\ skipped = {}
      /\ ~row.pages /\ row.counts = Counts(0, 0, 0)
      /\ \A q \in RunId : Unstarted(run[q])
      /\ \A c \in Clients : client[c].pc # "auto"
  BY DEF StartInv, PendingIsUntouched
<1>2. run \in [RunId -> RunType] /\ run[r] \in RunType /\ row \in RowType
  BY DEF TypeOK
<1>3. CASE Load(r)
  <2>1. UNCHANGED <<row, client, sent, skipped>>
    BY <1>3 DEF Load
  <2>2. run[r].seen = "none"
    BY <1>1 DEF Unstarted
  <2>3. Unstarted(run'[r])
    BY <1>2, <1>3, <2>2 DEF Load, Goto, GotoWrite, Unstarted, RunType
  <2>4. \A q \in RunId \ {r} : run'[q] = run[q]
    BY <1>2, <1>3 DEF Load, Goto, GotoWrite
  <2>5. \A q \in RunId : Unstarted(run'[q])
    BY <1>1, <2>3, <2>4
  <2>6. QED
    BY <1>1, <2>1, <2>5 DEF PendingIsUntouched
<1>4. CASE Return(r)
  <2>1. UNCHANGED <<row, client, skipped>>
    BY <1>4 DEF Return
  <2>2. sent' = {}
    BY <1>1, <1>4 DEF Return, Unstarted
  <2>3. Unstarted(Ended("done"))
    BY DEF Ended, IdleRun, Unstarted
  <2>4. \A q \in RunId : Unstarted(run'[q])
    BY <1>1, <1>2, <1>4, <2>3 DEF Return
  <2>5. QED
    BY <1>1, <2>1, <2>2, <2>4 DEF PendingIsUntouched
<1>5. CASE Write(r)
  <2>1. run[r].why = "start"
    BY <1>1, <1>5 DEF Write, Unstarted
  <2>2. PICK c : row' = UpdateStatus(row, "RUNNING", c)
    BY <1>5, <2>1 DEF Write, StatusFor
  <2>3. row'.status = "RUNNING"
    BY <1>2, <2>2 DEF UpdateStatus, RowType
  <2>4. QED
    BY <2>3
<1>6. run[r].pc \in {"idle", "load", "done", "dead", "return", "write"}
  BY <1>1 DEF Unstarted
<1>7. QED
  BY <1>3, <1>4, <1>5, <1>6
     DEF RunStep, Validate, Scrape, StartCrawl, Poll, Check, Persist,
         Progress, Result, Batch, Diff, Finally

\* Nor does a request, a fault or BullMQ touch a job that stays PENDING.
LEMMA PendingOtherSteps ==
    ASSUME TypeOK, StartInv, Next, \A r \in RunId : ~RunStep(r),
           row.status = "PENDING", row'.status = "PENDING"
    PROVE  PendingIsUntouched'
<1>1. /\ sent = {} /\ skipped = {}
      /\ ~row.pages /\ row.counts = Counts(0, 0, 0)
      /\ \A q \in RunId : Unstarted(run[q])
      /\ \A c \in Clients : client[c].pc # "auto"
  BY DEF StartInv, PendingIsUntouched
<1>2. run \in [RunId -> RunType] /\ row \in RowType
      /\ client \in [Clients -> ClientType]
  BY DEF TypeOK
<1>3. CASE Enqueue \/ EnqueueFails \/ Stalled \/ LockLost
  <2>1. UNCHANGED <<row, run, client, sent, skipped>>
    BY <1>3 DEF Enqueue, EnqueueFails, Stalled, LockLost, ToStalled
  <2>2. QED
    BY <1>1, <2>1 DEF PendingIsUntouched
<1>4. CASE Pick
  <2>1. UNCHANGED <<row, client, sent, skipped>>
    BY <1>4 DEF Pick
  <2>2. \A q \in RunId : Unstarted(run'[q])
    BY <1>1, <1>2, <1>4 DEF Pick, Unstarted, RunType
  <2>3. QED
    BY <1>1, <2>1, <2>2 DEF PendingIsUntouched
<1>5. ASSUME NEW r \in RunId, Timeout(r) \/ Crash(r)
      PROVE  PendingIsUntouched'
  <2>1. UNCHANGED <<row, client, sent, skipped>>
    BY <1>5 DEF Timeout, Crash
  <2>2. Unstarted(Ended("dead"))
    BY DEF Ended, IdleRun, Unstarted
  <2>3. Unstarted([run[r] EXCEPT !.aborted = TRUE])
    BY <1>1, <1>2 DEF Unstarted, RunType
  <2>4. \A q \in RunId : Unstarted(run'[q])
    BY <1>1, <1>2, <1>5, <2>2, <2>3 DEF Timeout, Crash
  <2>5. QED
    BY <1>1, <2>1, <2>4 DEF PendingIsUntouched
<1>6. ASSUME NEW c \in Clients, ClientStep(c)
      PROVE  PendingIsUntouched'
  <2>1. UNCHANGED <<run, sent, skipped>>
    BY <1>6
       DEF ClientStep, Open, AutoComplete, CancelWrite, RemoveBullMQJob, Purge
  <2>2. \A op : \A pc \in {"idle", "act", "remove", "purge"} :
            ClientAt(pc, op).pc # "auto"
    BY DEF ClientAt
  <2>3. ASSUME UNCHANGED row, NEW x,
               client' = [client EXCEPT ![c] = x], x.pc # "auto"
        PROVE  PendingIsUntouched'
    BY <1>1, <1>2, <2>1, <2>3 DEF PendingIsUntouched
  <2>4. ASSUME NEW op \in ClientOps, Open(c, op)
        PROVE  PendingIsUntouched'
    <3>1. ~AutoCompletes(row, MaxPages)
      BY DEF AutoCompletes
    <3>2. NextPC(op, row.status) \in {"idle", "act", "remove"}
      BY DEF NextPC
    <3>3. QED
      BY <2>2, <2>3, <2>4, <3>1, <3>2 DEF Open
  <2>5. CASE CancelWrite(c)
    BY <1>2, <2>5 DEF CancelWrite, UpdateStatus, RowType
  <2>6. CASE RemoveBullMQJob(c)
    BY <2>2, <2>3, <2>6 DEF RemoveBullMQJob
  <2>7. CASE Purge(c)
    <3>1. ~row'.pages /\ row'.counts = row.counts
      BY <1>2, <2>7 DEF Purge, SoftDelete, RowType
    <3>2. \A d \in Clients : client'[d].pc # "auto"
      BY <1>1, <1>2, <2>2, <2>7 DEF Purge, IdleClient
    <3>3. QED
      BY <1>1, <2>1, <3>1, <3>2 DEF PendingIsUntouched
  <2>8. QED
    BY <1>1, <1>6, <2>4, <2>5, <2>6, <2>7 DEF ClientStep, AutoComplete
<1>7. QED
  BY <1>3, <1>4, <1>5, <1>6 DEF Next

LEMMA StartInit == Init => StartInv
BY DEF Init, NewRow, IdleRun, IdleClient, ClientAt, Unstarted, StartInv,
       PendingIsUntouched, StatusReached

LEMMA StartStep ==
    ASSUME TypeOK, StartInv, [Next]_vars
    PROVE  StartInv'
<1>1. StatusReached'
  BY StatusSteps DEF StatusStep, StatusKept, StartInv, StatusReached
<1>2. row'.status = "PENDING" => row.status = "PENDING"
  BY StatusSteps DEF StatusStep, StatusKept
<1>3. CASE UNCHANGED vars
  BY <1>1, <1>3 DEF vars, StartInv, PendingIsUntouched
<1>4. CASE Next /\ row'.status = "PENDING"
  BY <1>1, <1>2, <1>4, PendingRunSteps, PendingOtherSteps DEF StartInv
<1>5. CASE row'.status # "PENDING"
  BY <1>1, <1>5 DEF StartInv, PendingIsUntouched
<1>6. QED
  BY <1>3, <1>4, <1>5

THEOREM StartInvariant == Spec => []StartInv
BY StartInit, StartStep, TypeCorrect, PTL DEF Spec

\* While a job is PENDING, whatever runs, crashes and requests are about, no
\* webhook has been dispatched for it and it has neither pages nor counters.
THEOREM PendingUntouched == Spec => []NothingBeforeStart
<1>1. StartInv => NothingBeforeStart
  BY DEF StartInv, PendingIsUntouched, NothingBeforeStart
<1>2. QED
  BY <1>1, StartInvariant, PTL

\* The status column implements the abstract lifecycle: its first value, and
\* every change any actor makes, is one the lifecycle allows.
THEOREM LifecycleImplemented == Spec => ImplementsLifecycle
<1>1. Init => Lifecycle!LifecycleInit
  BY DEF Init, NewRow, Lifecycle!LifecycleInit
<1>2. TypeOK /\ StartInv /\ [Next]_vars =>
          [Lifecycle!LifecycleNext]_(Lifecycle!lifecycleVars)
  <2> SUFFICES ASSUME TypeOK, StartInv, [Next]_vars
               PROVE  [Lifecycle!LifecycleNext]_(Lifecycle!lifecycleVars)
    OBVIOUS
  <2>1. StatusStep
    BY StatusSteps
  <2>2. QED
    BY <2>1
       DEF StatusStep, StatusKept, Lifecycle!LifecycleNext, Lifecycle!Start,
           Lifecycle!Finish, Lifecycle!Cancel, Lifecycle!Delete,
           Lifecycle!lifecycleVars
<1>3. QED
  BY <1>1, <1>2, TypeCorrect, StartInvariant, PTL
     DEF Spec, ImplementsLifecycle, Lifecycle!LifecycleSpec

-----------------------------------------------------------------------------
(* A BullMQ job is removed only for a job that is canceled or deleted *)

\* The strengthening: a handler about to remove the BullMQ job is the delete
\* handler, or the cancel handler after its write.
RemovalInv ==
    /\ \A c \in Clients :
          /\ client[c].pc = "act" => client[c].op = "cancel"
          /\ client[c].pc = "remove" =>
                client[c].op = "delete" \/ row.status = "CANCELED"
    /\ NoOrphanedRow

\* Runs, faults and BullMQ neither move a handler nor remove the BullMQ job.
LEMMA QuietForRemoval ==
    ASSUME TypeOK, RemovalInv, [Next]_vars, \A c \in Clients : ~ClientStep(c)
    PROVE  RemovalInv'
<1>1. queue \in QueueType
  BY DEF TypeOK
<1>2. UNCHANGED client
  <2>1. \A r \in RunId : RunStep(r) => UNCHANGED client
    BY DEF RunStep, Load, Write, Validate, Scrape, StartCrawl, Poll, Check,
           Persist, Progress, Result, Batch, Diff, Finally, Return
  <2>2. QED
    BY <2>1 DEF Next, Enqueue, EnqueueFails, Pick, Stalled, LockLost, ToStalled,
                Timeout, Crash, vars
<1>3. queue'.state = "removed" => queue.state = "removed"
  <2>1. \A r \in RunId : Return(r) \/ Timeout(r) => 
            queue' \in {queue, AttemptFailed(queue),
                       [queue EXCEPT !.state = "completed"]}
    BY DEF Return, Timeout
  <2>2. AttemptFailed(queue).state # "removed"
    BY <1>1 DEF AttemptFailed, QueueType
  <2>3. \A r \in RunId : RunStep(r) => Return(r) \/ UNCHANGED queue
    BY DEF RunStep, Load, Write, Validate, Scrape, StartCrawl, Poll, Check,
           Persist, Progress, Result, Batch, Diff, Finally
  <2>4. CASE Enqueue \/ EnqueueFails \/ Pick \/ Stalled \/ LockLost
    BY <1>1, <2>4 DEF Enqueue, EnqueueFails, Pick, Stalled, LockLost, ToStalled,
                      QueueType
  <2>5. \A r \in RunId : Crash(r) => UNCHANGED queue
    BY DEF Crash
  <2>6. QED
    BY <1>1, <2>1, <2>2, <2>3, <2>4, <2>5 DEF Next, vars, QueueType
<1>4. QED
  BY <1>2, <1>3, CanceledKept DEF RemovalInv, NoOrphanedRow

LEMMA ClientRemovalStep ==
    ASSUME TypeOK, RemovalInv, NEW c \in Clients, ClientStep(c),
           row.status = "CANCELED" => row'.status = "CANCELED",
           row.deleted => row'.deleted
    PROVE  RemovalInv'
<1>1. client \in [Clients -> ClientType] /\ client[c].op \in Ops
      /\ row \in RowType /\ queue \in QueueType
  BY DEF TypeOK, ClientType
<1>2. \A op : \A pc \in {"idle", "auto", "act", "remove", "purge"} :
          ClientAt(pc, op).pc = pc /\ (pc # "idle" => ClientAt(pc, op).op = op)
  BY DEF ClientAt
<1>3. \A status : \A op \in Ops :
          /\ NextPC(op, status) \in {"idle", "act", "remove"}
          /\ NextPC(op, status) = "act" => op = "cancel"
          /\ NextPC(op, status) = "remove" => op = "delete"
  BY DEF NextPC, Ops
<1>4. \A d \in Clients \ {c} : client'[d] = client[d]
  BY <1>1 DEF ClientStep, Open, AutoComplete, CancelWrite, RemoveBullMQJob, Purge
\* It is enough to look at where c has gone.
<1>5. ASSUME client'[c].pc = "act" => client'[c].op = "cancel",
             client'[c].pc = "remove" =>
                 client'[c].op = "delete" \/ row'.status = "CANCELED",
             queue'.state = "removed" =>
                 \/ row'.status = "CANCELED" \/ row'.deleted
                 \/ client'[c].pc = "purge"
                 \/ queue.state = "removed" /\ client[c].pc # "purge"
      PROVE  RemovalInv'
  <2>1. NoOrphanedRow'
    BY <1>4, <1>5 DEF RemovalInv, NoOrphanedRow
  <2>2. QED
    BY <1>4, <1>5, <2>1 DEF RemovalInv
<1>6. ASSUME NEW op \in ClientOps, Open(c, op)
      PROVE  RemovalInv'
  <2>1. op \in Ops
    BY ConstantsOK
  <2>2. PICK pc \in {"auto", NextPC(op, row.status)} :
            pc # "idle" /\ client'[c] = ClientAt(pc, op)
    BY <1>1, <1>6 DEF Open
  <2>3. UNCHANGED queue /\ client[c].pc = "idle"
    BY <1>6 DEF Open
  <2>4. client'[c].pc = pc /\ client'[c].op = op
    BY <1>2, <1>3, <2>1, <2>2
  <2>5. QED
    BY <1>3, <1>5, <2>1, <2>2, <2>3, <2>4
<1>7. CASE AutoComplete(c)
  <2>1. UNCHANGED queue /\ client[c].pc = "auto"
    BY <1>7 DEF AutoComplete
  <2>2. PICK pc : /\ pc = NextPC(client[c].op, row'.status)
                  /\ client'[c] = ClientAt(pc, client[c].op)
    BY <1>1, <1>7 DEF AutoComplete
  <2>3. client'[c].pc = pc /\ (pc # "idle" => client'[c].op = client[c].op)
    BY <1>1, <1>2, <1>3, <2>2
  <2>4. QED
    BY <1>1, <1>3, <1>5, <2>1, <2>2, <2>3
<1>8. CASE CancelWrite(c)
  <2>1. row'.status = "CANCELED"
    BY <1>1, <1>8 DEF CancelWrite, UpdateStatus, RowType
  <2>2. client'[c].pc = "remove"
    BY <1>1, <1>8 DEF CancelWrite, ClientType
  <2>3. QED
    BY <1>5, <2>1, <2>2
<1>9. CASE RemoveBullMQJob(c)
  <2>1. client[c].op = "delete" \/ row'.status = "CANCELED"
    BY <1>9 DEF RemoveBullMQJob, RemovalInv
  <2>2. client[c].pc # "purge"
    BY <1>9 DEF RemoveBullMQJob
  <2>3. PICK pc \in {"idle", "purge"} :
            /\ client'[c] = ClientAt(pc, client[c].op)
            /\ client[c].op = "delete" => pc = "purge"
    BY <1>1, <1>9 DEF RemoveBullMQJob
  <2>4. client'[c].pc = pc
    BY <1>2, <2>3
  <2>5. QED
    BY <1>5, <2>1, <2>2, <2>3, <2>4
<1>10. CASE Purge(c)
  <2>1. row'.deleted
    BY <1>1, <1>10 DEF Purge, SoftDelete, RowType
  <2>2. client'[c].pc = "idle"
    BY <1>1, <1>2, <1>10 DEF Purge, IdleClient
  <2>3. QED
    BY <1>5, <2>1, <2>2
<1>11. QED
  BY <1>6, <1>7, <1>8, <1>9, <1>10 DEF ClientStep

\* However cancel, delete and the worker interleave, the job BullMQ holds is
\* never taken away from a row that still counts on being processed.
THEOREM NoneOrphaned == Spec => []NoOrphanedRow
<1>1. Init => RemovalInv
  BY DEF Init, IdleClient, ClientAt, RemovalInv, NoOrphanedRow
<1>2. TypeOK /\ RemovalInv /\ [Next]_vars => RemovalInv'
  BY QuietForRemoval, ClientRemovalStep, CanceledKept
<1>3. RemovalInv => NoOrphanedRow
  BY DEF RemovalInv
<1>4. QED
  BY <1>1, <1>2, <1>3, TypeCorrect, PTL DEF Spec

-----------------------------------------------------------------------------
(* What a settled job ends as is announced *)

\* Of what has been dispatched or passed over, or is about to be, e says how the job has
\* ended.
Told(e) ==
    \/ row.status \in Events \cap e
    \/ row.status = "COMPLETED" /\ "FAILED" \in e

\* A job that needs no announcement any more: it is canceled or deleted.
Void == row.status = "CANCELED" \/ row.deleted

\* What a run behind its last status write knows of the row.
OutcomeKnown(x) ==
    /\ ~x.aborted
    /\ x.pc \in {"diff", "finally"} => Void \/ row.status \in Events
    /\ x.pc = "return" => Void \/ Told({x.seen} \cup skipped)

\* The strengthening of OutcomeIsAnnounced: BullMQ waits for the one run that is live,
\* and that run, once it has written how the job ends, finds nothing else in the row.
OutcomeInv ==
    /\ \A q \in RunId : Live(q) => Holds(q)
    /\ \A q \in RunId : OutcomeKnown(run[q])
    /\ Finished => Void \/ Told(sent \cup skipped)

\* What the statements of clients, and of runs at work, do to a job that has ended.
Settles ==
    /\ Void => Void'
    /\ skipped' = skipped
    /\ row.status \in Events => Void' \/ row'.status \in {row.status, "COMPLETED"}

LEMMA SettlesKeeps ==
    ASSUME Settles
    PROVE  /\ row.status \in Events => Void' \/ row'.status \in Events
           /\ \A e : Told(e) => Void' \/ Told(e)'
BY DEF Settles, Told, Events

LEMMA KnownKept ==
    ASSUME Settles, NEW x, OutcomeKnown(x)
    PROVE  OutcomeKnown(x)'
<1>1. ASSUME x.pc \in {"diff", "finally"}
      PROVE  (Void \/ row.status \in Events)'
  BY <1>1, SettlesKeeps DEF OutcomeKnown, Settles
<1>2. ASSUME x.pc = "return"
      PROVE  (Void \/ Told({x.seen} \cup skipped))'
  <2>1. Void \/ Told({x.seen} \cup skipped)
    BY <1>2 DEF OutcomeKnown
  <2>2. Void => Void'
    BY DEF Settles
  <2>3. skipped' = skipped
    BY DEF Settles
  <2>4. row.status \in Events => Void' \/ row'.status \in {row.status, "COMPLETED"}
    BY DEF Settles
  <2> QED
    BY <2>1, <2>2, <2>3, <2>4 DEF Told, Events
<1> QED
  BY <1>1, <1>2 DEF OutcomeKnown

\* Nothing that is said of a run can be wrong of one that is not live.
LEMMA KnownAtRest ==
    ASSUME NEW pc \in {"done", "dead"}
    PROVE  OutcomeKnown(Ended(pc)) /\ OutcomeKnown(Ended(pc))' /\ Ended(pc).pc = pc
BY DEF OutcomeKnown, Ended, IdleRun

\* What a statement of a run that is at work does to the row.
LEMMA QuietStatements ==
    ASSUME NEW rw \in RowType, NEW t, NEW d, NEW f
    PROVE  \A x \in {SaveFirecrawlJobId(rw), UpsertPages(rw), UpdateProgress(rw, t, d, f)} :
              x.status = rw.status /\ x.deleted = rw.deleted
BY DEF RowType, SaveFirecrawlJobId, UpsertPages, UpdateProgress

\* A run goes on to a place where nothing is said of it.
AtWork(x) == ~x.aborted /\ x.pc \notin {"diff", "finally", "return"}

LEMMA WorkKnown ==
    ASSUME NEW x, AtWork(x)
    PROVE  OutcomeKnown(x) /\ OutcomeKnown(x)'
BY DEF AtWork, OutcomeKnown

LEMMA LeavesWorking ==
    ASSUME NEW r \in RunId, NEW why \in Whys, NEW result \in RunType, ~result.aborted,
           run \in [RunId -> RunType], AfterCrawl(r, why, result)
    PROVE  AtWork(run'[r])
<1> DEFINE pc == IF why = "completed" THEN "batch" ELSE "write"
           x == [result EXCEPT !.why = why, !.pc = pc]
<1>1. run'[r] = x
  BY DEF AfterCrawl
<1>2. ~x.aborted /\ x.pc = pc
  BY DEF RunType
<1> QED
  BY <1>1, <1>2 DEF AtWork

LEMMA GoesWorking ==
    ASSUME NEW r \in RunId, NEW pc, NEW why, run \in [RunId -> RunType], ~run[r].aborted,
           \/ Goto(r, pc) /\ pc \notin {"diff", "finally", "return"}
           \/ GotoWrite(r, why)
    PROVE  AtWork(run'[r])
BY DEF Goto, GotoWrite, AtWork, RunType

\* The steps of a run that leave it at work.
LEMMA WorkSteps ==
    ASSUME TypeOK, NEW r \in RunId, ~run[r].aborted,
           \/ Validate(r) \/ Scrape(r) \/ StartCrawl(r) \/ Poll(r) \/ Check(r)
           \/ Persist(r) \/ Progress(r) \/ Result(r) \/ Batch(r)
    PROVE  AtWork(run'[r]) /\ row'.status = row.status /\ row'.deleted = row.deleted
<1>1. run \in [RunId -> RunType] /\ run[r] \in RunType /\ row \in RowType
  BY DEF TypeOK
<1>2. UNCHANGED row \/ \E t, d, f :
          row' \in {SaveFirecrawlJobId(row), UpsertPages(row), UpdateProgress(row, t, d, f)}
  BY DEF Validate, Scrape, StartCrawl, Poll, Check, Persist, Progress, Result, Batch,
         StoreCrawlId
<1>3. row'.status = row.status /\ row'.deleted = row.deleted
  BY <1>1, <1>2, QuietStatements
<1>4. [run[r] EXCEPT !.total = 0] \in RunType /\ ~[run[r] EXCEPT !.total = 0].aborted
  BY <1>1, ConstantsOK DEF RunType
<1>5. AtWork(run'[r])
  <2>1. CASE Validate(r) \/ Persist(r) \/ Progress(r) \/ Batch(r)
    BY <1>1, <2>1, GoesWorking DEF Validate, Persist, Progress, Batch
  <2>2. CASE Scrape(r)
    <3>1. CASE GotoWrite(r, "threw")
      BY <1>1, <3>1, GoesWorking
    <3>2. CASE \E why \in {"scraped", "scrapeFailed"} :
                   run' = [run EXCEPT ![r].pc = "batch", ![r].why = why]
      BY <1>1, <3>2 DEF AtWork, RunType
    <3> QED
      BY <2>2, <3>1, <3>2 DEF Scrape
  <2>3. CASE StartCrawl(r)
    BY <1>1, <2>3, GoesWorking, LeavesWorking DEF StartCrawl, Whys
  <2>4. CASE Poll(r)
    <3>1. CASE AfterCrawl(r, "canceled", [run[r] EXCEPT !.total = 0])
      BY <1>1, <1>4, <3>1, LeavesWorking DEF Whys
    <3>2. CASE \E n, l :
                   run' = [run EXCEPT ![r].pc = "check", ![r].polls = n, ![r].late = l]
      BY <1>1, <3>2 DEF AtWork, RunType
    <3> QED
      BY <2>4, <3>1, <3>2 DEF Poll
  <2>5. CASE Check(r)
    <3>1. CASE GotoWrite(r, "threw")
      BY <1>1, <3>1, GoesWorking
    <3>2. CASE AfterCrawl(r, "failed", [run[r] EXCEPT !.total = 0])
      BY <1>1, <1>4, <3>2, LeavesWorking DEF Whys
    <3>3. CASE \E d \in run[r].done..MaxPages : \E t \in d..MaxPages :
               \E final \in BOOLEAN :
                 run' = [run EXCEPT
                    ![r].done = d, ![r].total = t, ![r].final = final,
                    ![r].pc = IF ~run[r].aborted
                              THEN IF d > 0 THEN "persist" ELSE "progress"
                              ELSE IF final THEN "result" ELSE "poll"]
      BY <1>1, <3>3 DEF AtWork, RunType
    <3> QED
      BY <2>5, <3>1, <3>2, <3>3, Zenon DEF Check
  <2>6. CASE Result(r)
    BY <1>1, <2>6, LeavesWorking DEF Result, Whys
  <2> QED
    BY <2>1, <2>2, <2>3, <2>4, <2>5, <2>6
<1> QED
  BY <1>3, <1>5

\* A status write behind which nothing else of the outcome is to come.
LEMMA WriteKnown ==
    ASSUME TypeOK, NEW r \in RunId, ~run[r].aborted, Write(r)
    PROVE  /\ OutcomeKnown(run[r])' /\ run'[r].pc \in {"validate", "diff", "finally"}
           /\ row.deleted => row'.deleted
<1>1. run \in [RunId -> RunType] /\ run[r] \in RunType /\ row \in RowType
  BY DEF TypeOK
<1> DEFINE why == run[r].why
           x == [IdleRun EXCEPT !.pc = AfterWrite(why), !.aborted = run[r].aborted,
                                !.why = IF why = "threw" THEN "threw" ELSE "none"]
<1>2. run'[r] = x /\ x.pc = AfterWrite(why) /\ ~x.aborted
  BY <1>1 DEF Write, IdleRun
<1>3. PICK c \in CountsFor(r) : row' = UpdateStatus(row, StatusFor(why), c)
  BY DEF Write
<1>4. \/ row'.status = "CANCELED" /\ row'.deleted = row.deleted
      \/ row'.status = StatusFor(why) /\ row'.deleted = row.deleted
  BY <1>1, <1>3 DEF UpdateStatus, RowType
<1>5. AfterWrite(why) \in {"validate", "diff", "finally"}
  BY DEF AfterWrite
<1>6. AfterWrite(why) # "validate" => StatusFor(why) \in Events \cup {"CANCELED"}
  BY DEF AfterWrite, StatusFor, Events
<1> HIDE DEF x, why
<1> QED
  BY <1>2, <1>4, <1>5, <1>6 DEF OutcomeKnown, Void

\* The other steps behind the last write, and the exits in front of the first.
LEMMA ExitKnown ==
    ASSUME TypeOK, NEW r \in RunId, OutcomeKnown(run[r]),
           Load(r) \/ Diff(r) \/ Finally(r)
    PROVE  OutcomeKnown(run[r])' /\ UNCHANGED row
<1>1. run \in [RunId -> RunType] /\ run[r] \in RunType /\ row \in RowType
  BY DEF TypeOK
<1>2. UNCHANGED row /\ ~run[r].aborted
  BY DEF Load, Diff, Finally, OutcomeKnown
<1>3. CASE Load(r)
  <2>1. ~run'[r].aborted /\ (run'[r].pc = "return" => Void)
        /\ run'[r].pc \in {"return", "write"}
    BY <1>1, <1>2, <1>3 DEF Load, Goto, GotoWrite, Void, Visible, RunType
  <2> QED
    BY <1>2, <2>1 DEF OutcomeKnown, Void
<1>4. CASE Diff(r)
  <2>1. ~run'[r].aborted /\ run'[r].pc \in {"finally", "write"}
    BY <1>1, <1>2, <1>4 DEF Diff, Goto, GotoWrite, RunType
  <2>2. Void \/ row.status \in Events
    BY <1>4 DEF Diff, OutcomeKnown
  <2> QED
    BY <1>2, <2>1, <2>2 DEF OutcomeKnown, Void
<1>5. CASE Finally(r)
  <2>1. /\ ~run'[r].aborted /\ run'[r].pc = "return"
        /\ Outcome \in ({run'[r].seen} \cup skipped') \cup {"none"}
    BY <1>1, <1>2, <1>5 DEF Finally, Goto, RunType
  <2>2. Void \/ row.status \in Events
    BY <1>5 DEF Finally, OutcomeKnown
  <2>3. ~Void => Outcome = row.status /\ Outcome # "none"
    BY <2>2 DEF Outcome, Void, Visible, Events
  <2> QED
    BY <1>2, <2>1, <2>2, <2>3 DEF OutcomeKnown, Void, Told
<1> QED
  BY <1>2, <1>3, <1>4, <1>5

\* A step of a run that goes on concerns that run alone, and BullMQ not at all.
LEMMA RunGoesOn ==
    ASSUME TypeOK, NEW r \in RunId,
           \/ Validate(r) \/ Scrape(r) \/ StartCrawl(r) \/ Poll(r) \/ Check(r)
           \/ Persist(r) \/ Progress(r) \/ Result(r) \/ Batch(r) \/ Write(r)
           \/ Load(r) \/ Diff(r) \/ Finally(r)
    PROVE  /\ UNCHANGED <<queue, sent>> /\ Live(r)
           /\ \A q \in RunId \ {r} : run'[q] = run[q]
<1>1. run \in [RunId -> RunType]
  BY DEF TypeOK
<1>2. UNCHANGED <<queue, sent>> /\ Live(r)
  BY DEF Validate, Scrape, StartCrawl, Poll, Check, Persist, Progress, Result, Batch,
         Write, Load, Diff, Finally, Live
<1>3. CASE Validate(r) \/ Scrape(r) \/ Persist(r) \/ Progress(r) \/ Batch(r) \/ Load(r)
           \/ Diff(r) \/ Finally(r)
  BY <1>1, <1>2, <1>3 DEF Validate, Scrape, Persist, Progress, Batch, Load, Diff, Finally,
                          Goto, GotoWrite
<1>4. CASE StartCrawl(r) \/ Poll(r) \/ Result(r)
  BY <1>1, <1>2, <1>4 DEF StartCrawl, Poll, Result, Goto, GotoWrite, AfterCrawl
<1>5. CASE Check(r)
  BY <1>1, <1>2, <1>5 DEF Check, GotoWrite, AfterCrawl
<1>6. CASE Write(r)
  BY <1>1, <1>2, <1>6 DEF Write
<1> QED
  BY <1>3, <1>4, <1>5, <1>6

LEMMA RunKeepsOutcome ==
    ASSUME TypeOK, OutcomeInv, NEW r \in RunId, RunStep(r), ~Return(r)
    PROVE  OutcomeInv'
<1>1. /\ UNCHANGED <<queue, sent>> /\ Live(r)
      /\ \A q \in RunId \ {r} : run'[q] = run[q]
  BY RunGoesOn DEF RunStep
<1>2. Holds(r) /\ ~run[r].aborted /\ OutcomeKnown(run[r])
  BY <1>1 DEF OutcomeInv, OutcomeKnown
<1>3. OutcomeKnown(run[r])'
  BY <1>2, WorkSteps, WorkKnown, WriteKnown, ExitKnown DEF RunStep
<1>4. \A q \in RunId \ {r} : ~Live(q) /\ ~Live(q)' /\ OutcomeKnown(run[q])'
  <2>1. \A q \in RunId \ {r} : ~Holds(q)
    BY <1>2 DEF Holds
  <2> QED
    BY <1>1, <2>1 DEF OutcomeInv, Live, OutcomeKnown
<1>5. ~Finished'
  BY <1>1, <1>2 DEF Holds, Finished
<1>6. Holds(r)'
  BY <1>1, <1>2 DEF Holds, Holder
<1> QED
  BY <1>3, <1>4, <1>5, <1>6 DEF OutcomeInv

\* A run that returns is the last word: BullMQ has finished with the job, or tries again.
LEMMA ReturnKeepsOutcome ==
    ASSUME TypeOK, OutcomeInv, NEW r \in RunId, Return(r)
    PROVE  OutcomeInv'
<1>1. run \in [RunId -> RunType] /\ queue \in QueueType
  BY DEF TypeOK
<1>2. Live(r) /\ Holds(r) /\ UNCHANGED <<row, skipped>>
  BY DEF Return, Live, OutcomeInv
<1>3. run'[r] = Ended("done") /\ \A q \in RunId \ {r} : run'[q] = run[q]
  BY <1>1 DEF Return
<1>4. \A q \in RunId : ~Live(q)'
  <2>1. \A q \in RunId \ {r} : ~Live(q)
    BY <1>2 DEF OutcomeInv, Holds
  <2> QED
    BY <1>3, <2>1, KnownAtRest DEF Live
<1>5. \A q \in RunId : OutcomeKnown(run[q])'
  <2>1. OutcomeKnown(run[r])'
    BY <1>3, KnownAtRest
  <2>2. \A q \in RunId \ {r} : OutcomeKnown(run[q])'
    BY <1>2, <1>3 DEF OutcomeInv, OutcomeKnown, Void, Told
  <2> QED
    BY <2>1, <2>2
<1>6. (Void \/ Told(sent \cup skipped))'
  <2>1. Void \/ Told({run[r].seen} \cup skipped)
    BY DEF Return, OutcomeInv, OutcomeKnown
  <2>2. sent' = sent \cup ({run[r].seen} \ {"none"})
    BY DEF Return
  <2> QED
    BY <1>2, <2>1, <2>2 DEF Void, Told, Events
<1> QED
  BY <1>4, <1>5, <1>6 DEF OutcomeInv

\* Clients complete, cancel and delete; none of them brings another end about.
LEMMA ClientSettles ==
    ASSUME TypeOK, NEW c \in Clients, ClientStep(c)
    PROVE  Settles /\ UNCHANGED <<run, sent, skipped>>
<1>1. row \in RowType
  BY DEF TypeOK
<1>2. UNCHANGED <<run, sent, skipped>>
  BY DEF ClientStep, Open, AutoComplete, CancelWrite, RemoveBullMQJob, Purge
<1>3. CASE AutoComplete(c)
  <2>1. row' \in {UpdateStatus(row, "COMPLETED", row.counts),
                  BatchUpdateStatus(row, "COMPLETED")}
    BY <1>3 DEF AutoComplete
  <2> QED
    BY <1>1, <1>2, <2>1 DEF Settles, Void, UpdateStatus, BatchUpdateStatus, RowType
<1>4. CASE CancelWrite(c)
  BY <1>1, <1>2, <1>4 DEF CancelWrite, Settles, Void, UpdateStatus, RowType
<1>5. CASE Purge(c)
  BY <1>1, <1>2, <1>5 DEF Purge, Settles, Void, SoftDelete, RowType
<1>6. CASE RemoveBullMQJob(c) \/ \E op \in ClientOps : Open(c, op)
  BY <1>2, <1>6 DEF RemoveBullMQJob, Open, Settles, Void
<1> QED
  BY <1>3, <1>4, <1>5, <1>6 DEF ClientStep

LEMMA ClientKeepsOutcome ==
    ASSUME TypeOK, OutcomeInv, "lockLoss" \notin Faults,
           NEW c \in Clients, ClientStep(c)
    PROVE  OutcomeInv'
<1>1. Settles /\ UNCHANGED <<run, sent, skipped>>
  BY ClientSettles
<1>2. \A q \in RunId : OutcomeKnown(run[q])'
  BY <1>1, KnownKept DEF OutcomeInv
<1>3. CASE UNCHANGED queue
  BY <1>1, <1>2, <1>3, SettlesKeeps DEF OutcomeInv, Live, Holds, Holder, Finished, Settles
<1>4. CASE RemoveBullMQJob(c) /\ queue' # queue
  <2>1. queue.state = "waiting" \/ (queue.state = "active" /\ run[Holder].pc = "dead")
    BY <1>4 DEF RemoveBullMQJob
  <2>2. \A q \in RunId : ~Live(q)
    BY <2>1 DEF OutcomeInv, Live, Holds
  <2>3. ~Finished'
    BY <1>4 DEF RemoveBullMQJob, Finished, TypeOK, QueueType
  <2> QED
    BY <1>1, <1>2, <2>2, <2>3 DEF OutcomeInv, Live
<1> QED
  BY <1>3, <1>4 DEF ClientStep, Open, AutoComplete, CancelWrite, Purge

\* BullMQ starts a run when none is live, and finds a job stalled when its run is dead.
LEMMA QueueKeepsOutcome ==
    ASSUME TypeOK, OutcomeInv, Enqueue \/ EnqueueFails \/ Pick \/ Stalled
    PROVE  OutcomeInv'
<1>1. run \in [RunId -> RunType] /\ queue \in QueueType /\ UNCHANGED <<row, sent, skipped>>
  BY DEF TypeOK, Enqueue, EnqueueFails, Pick, Stalled, ToStalled
<1>2. \A q \in RunId : ~Live(q)
  <2>1. queue.state \in {"unsent", "waiting"} \/ run[Holder].pc = "dead"
    BY DEF Enqueue, EnqueueFails, Pick, Stalled
  <2> QED
    BY <2>1 DEF OutcomeInv, Live, Holds
<1>3. ~Finished'
  <2>1. CASE Stalled
    BY <1>1, <2>1, ConstantsOK DEF Stalled, ToStalled, Finished, QueueType
  <2>2. CASE Enqueue \/ EnqueueFails \/ Pick
    BY <1>1, <2>2 DEF Enqueue, EnqueueFails, Pick, Finished, QueueType
  <2> QED
    BY <2>1, <2>2
<1>4. CASE UNCHANGED run
  BY <1>1, <1>2, <1>3, <1>4 DEF OutcomeInv, Live, OutcomeKnown, Void, Told
<1>5. CASE Pick
  <2>1. \A q \in RunId : q # Holder => run'[q] = run[q]
    BY <1>1, <1>5 DEF Pick
  <2>2. \A q \in RunId : q = Holder => run'[q].pc = "load" /\ ~run'[q].aborted
    BY <1>1, <1>5 DEF Pick, RunType, OutcomeInv, OutcomeKnown
  <2>3. queue'.state = "active" /\ Holder' = Holder
    BY <1>1, <1>5 DEF Pick, QueueType, Holder
  <2>4. \A q \in RunId : OutcomeKnown(run[q])'
    BY <1>1, <2>1, <2>2 DEF OutcomeInv, OutcomeKnown, Void, Told
  <2> QED
    BY <1>2, <1>3, <2>1, <2>3, <2>4 DEF OutcomeInv, Live, Holds
<1> QED
  BY <1>4, <1>5 DEF Enqueue, EnqueueFails, Stalled, ToStalled

\* A run that dies is said nothing of, and BullMQ does not know yet.
LEMMA CrashKeepsOutcome ==
    ASSUME TypeOK, OutcomeInv, NEW r \in RunId, Crash(r)
    PROVE  OutcomeInv'
<1>1. /\ UNCHANGED <<row, queue, sent, skipped>> /\ run'[r] = Ended("dead")
      /\ \A q \in RunId \ {r} : run'[q] = run[q]
  BY DEF Crash, TypeOK
<1>2. OutcomeKnown(run[r])' /\ ~Live(r)'
  BY <1>1, KnownAtRest DEF Live
<1> QED
  BY <1>1, <1>2 DEF OutcomeInv, OutcomeKnown, Void, Told, Live, Holds, Holder, Finished

\* However often workers die and whatever clients do meanwhile, a job that BullMQ has
\* finished with has ended, and a finally block has had its end to announce (or a reader
\* has completed a job announced as FAILED), which it did unless the switch of the
\* deliveries was off or it could not look: processCrawlJob's status writes, its finally
\* block and BullMQ's attempts and stalls, for any number of attempts, stalls, pages and
\* clients.  Timeouts and lost locks are left out, as in the property: the run that they
\* abort leaves the job as it is.
THEOREM OutcomeAnnounced ==
    ASSUME "timeout" \notin Faults, "lockLoss" \notin Faults
    PROVE  Spec => []OutcomeIsAnnounced
<1>1. Init => OutcomeInv
  BY DEF Init, IdleRun, OutcomeInv, OutcomeKnown, Live, Finished
<1>2. TypeOK /\ OutcomeInv /\ [Next]_vars => OutcomeInv'
  <2> SUFFICES ASSUME TypeOK, OutcomeInv, [Next]_vars PROVE OutcomeInv'
    OBVIOUS
  <2>1. CASE UNCHANGED vars
    BY <2>1 DEF vars, OutcomeInv, OutcomeKnown, Void, Told, Live, Holds, Holder, Finished
  <2>2. \A r \in RunId : ~Timeout(r)
    BY DEF Timeout
  <2>3. ~LockLost
    BY DEF LockLost
  <2> QED
    BY <2>1, <2>2, <2>3, RunKeepsOutcome, ReturnKeepsOutcome, ClientKeepsOutcome,
       QueueKeepsOutcome, CrashKeepsOutcome DEF Next
<1>3. OutcomeInv => OutcomeIsAnnounced
  BY DEF OutcomeInv, OutcomeIsAnnounced, FinishedMeansSettled, Announced, Void, Told,
         Events, Terminal
<1> QED
  BY <1>1, <1>2, <1>3, TypeCorrect, PTL DEF Spec
=============================================================================

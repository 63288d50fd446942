------------------------ MODULE WebhookDeliveryProofs ------------------------
(***************************************************************************)
(* Theorems about WebhookDelivery, for any number of callers, runs,         *)
(* attempts and stalls: no delivery is forgotten, SUCCESS is true, and      *)
(* FAILED comes after the last attempt.                                     *)
(***************************************************************************)
EXTENDS WebhookDelivery, TLAPS

RunPCs == {"idle", "find", "attempt", "post", "record", "mark", "done", "throw"}

LEMMA RunMoves ==
    ASSUME run \in [Runs -> RunType], NEW r \in Runs, NEW pc \in RunPCs, RunGoesTo(r, pc)
    PROVE  /\ run' \in [Runs -> RunType]
           /\ \A s \in Runs \ {r} : run'[s] = run[s]
           /\ run'[r].pc = pc /\ run'[r].job = run[r].job
           /\ run'[r].attempt = run[r].attempt /\ run'[r].owns = run[r].owns
<1>1. run[r] \in RunType
  OBVIOUS
<1>2. [run[r] EXCEPT !.pc = pc] \in RunType
  BY <1>1 DEF RunType, RunPCs
<1>3. /\ [run[r] EXCEPT !.pc = pc].pc = pc
      /\ [run[r] EXCEPT !.pc = pc].job = run[r].job
      /\ [run[r] EXCEPT !.pc = pc].attempt = run[r].attempt
      /\ [run[r] EXCEPT !.pc = pc].owns = run[r].owns
  BY <1>1 DEF RunType
<1>4. run' = [run EXCEPT ![r] = [run[r] EXCEPT !.pc = pc]]
  BY DEF RunGoesTo
<1>5. QED
  BY <1>2, <1>3, <1>4

LEMMA CallerMoves ==
    ASSUME caller \in [Callers -> CallerType], NEW c \in Callers,
           NEW pc \in {"start", "create", "reset", "add", "send", "done"},
           CallerGoesTo(c, pc)
    PROVE  /\ caller' \in [Callers -> CallerType]
           /\ \A d \in Callers \ {c} : caller'[d] = caller[d]
           /\ caller'[c].pc = pc /\ caller'[c].op = caller[c].op
<1>1. caller[c] \in CallerType
  OBVIOUS
<1>2. [caller[c] EXCEPT !.pc = pc] \in CallerType
  BY <1>1 DEF CallerType
<1>3. /\ [caller[c] EXCEPT !.pc = pc].pc = pc
      /\ [caller[c] EXCEPT !.pc = pc].op = caller[c].op
  BY <1>1 DEF CallerType
<1>4. caller' = [caller EXCEPT ![c] = [caller[c] EXCEPT !.pc = pc]]
  BY DEF CallerGoesTo
<1>5. QED
  BY <1>2, <1>3, <1>4

\* What the worker does about an error.
LEMMA Caught ==
    ASSUME NEW r \in Runs
    PROVE  /\ CaughtBy(r) \in {"done", "mark", "throw"}
           /\ IsTest(r) => CaughtBy(r) = "done"
           /\ ~IsTest(r) => CaughtBy(r) # "done"
           /\ CaughtBy(r) = "throw" => ~(run[r].attempt >= Attempts)
BY DEF CaughtBy

LEMMA IdleTyped == IdleRun \in RunType /\ IdleRun.pc = "idle"
BY WebhookConstants DEF IdleRun, RunType

-----------------------------------------------------------------------------
(* Type correctness *)

\* A caller that has not finished has added no job yet; a job has an attempt
\* left until it ends; and only one run owns it, while it is active.
JobInv ==
    /\ \A c \in Callers : caller[c].pc # "done" => job[c].state = "none"
    /\ \A c \in Callers :
          job[c].state \in {"none", "waiting", "active"} => job[c].attemptsMade < Attempts
    /\ \A r \in Runs, c \in Callers : Owns(r, c) => job[c].state = "active"
    /\ \A r, s \in Runs, c \in Callers : Owns(r, c) /\ Owns(s, c) => r = s

\* Only tests are sent without a job.
TestInv == \A c \in Callers : caller[c].pc = "send" => caller[c].op = "test"

TypeInv == TypeOK /\ JobInv /\ TestInv

LEMMA InitTyped ==
    ASSUME Init
    PROVE  TypeInv
<1>1. 1 \in 1..Attempts /\ 0 \in 0..Attempts /\ 0 \in 0..MaxStalled /\ 0 < Attempts
  BY WebhookConstants
<1>2. PICK op \in {"dispatch", "test"} :
          caller = [c \in Callers |->
                       [pc |-> "start", op |-> IF c = First THEN op ELSE "redeliver"]]
  BY DEF Init
<1>3. caller \in [Callers -> CallerType]
  BY <1>2 DEF CallerType
<1>4. job \in [Callers -> JobType]
      /\ \A c \in Callers : job[c].state = "none" /\ job[c].attemptsMade = 0
  BY <1>1 DEF Init, JobType
<1>5. TypeOK
  BY <1>1, <1>3, <1>4, IdleTyped
     DEF Init, TypeOK, DeliveryType, WEBHOOK_DELIVERY_STATUS
<1>6. \A r \in Runs, c \in Callers : ~Owns(r, c)
  BY IdleTyped DEF Init, Owns
<1>7. \A c \in Callers : caller[c].pc = "start"
  BY <1>2
<1>8. QED
  BY <1>1, <1>4, <1>5, <1>6, <1>7 DEF TypeInv, JobInv, TestInv

LEMMA CallerTyped ==
    ASSUME TypeInv, NEW c \in Callers, CallerStep(c) \/ CallerCrash(c)
    PROVE  TypeOK'
<1>1. /\ caller \in [Callers -> CallerType] /\ delivery \in DeliveryType
      /\ job \in [Callers -> JobType] /\ run \in [Runs -> RunType]
      /\ lost \in BOOLEAN
  BY DEF TypeInv, TypeOK
<1>2. 1 \in 1..Attempts
  BY WebhookConstants
<1>3. CASE Lookup(c)
  <2>1. \E pc \in {"reset", "create", "done"} : CallerGoesTo(c, pc)
    BY <1>3 DEF Lookup
  <2>2. caller' \in [Callers -> CallerType]
    BY <1>1, <2>1, CallerMoves
  <2>3. QED
    BY <1>3, <2>2 DEF Lookup, TypeInv, TypeOK
<1>4. CASE CreateDelivery(c)
  <2>1. \E pc \in {"send", "add", "done"} : CallerGoesTo(c, pc)
    BY <1>4 DEF CreateDelivery
  <2>2. caller' \in [Callers -> CallerType]
    BY <1>1, <2>1, CallerMoves
  <2>3. delivery' \in DeliveryType
    <3>1. [exists |-> TRUE, status |-> "PENDING", attempt |-> 1] \in DeliveryType
      BY <1>2 DEF DeliveryType, WEBHOOK_DELIVERY_STATUS
    <3>2. QED
      BY <1>1, <1>4, <3>1 DEF CreateDelivery
  <2>4. QED
    BY <1>4, <2>2, <2>3 DEF CreateDelivery, TypeInv, TypeOK
<1>5. CASE Reset(c)
  <2>1. \E pc \in {"add", "done"} : CallerGoesTo(c, pc)
    BY <1>5 DEF Reset
  <2>2. caller' \in [Callers -> CallerType]
    BY <1>1, <2>1, CallerMoves
  <2>3. delivery' \in DeliveryType
    BY <1>1, <1>2, <1>5 DEF Reset, DeliveryType, WEBHOOK_DELIVERY_STATUS
  <2>4. QED
    BY <1>5, <2>2, <2>3 DEF Reset, TypeInv, TypeOK
<1>6. CASE Add(c)
  <2>1. caller' \in [Callers -> CallerType]
    BY <1>1, <1>6, CallerMoves DEF Add
  <2>2. [job[c] EXCEPT !.state = "waiting"] \in JobType
    BY <1>1 DEF JobType
  <2>3. job' \in [Callers -> JobType]
    BY <1>1, <1>6, <2>2 DEF Add
  <2>4. lost' \in BOOLEAN
    BY <1>1, <1>6 DEF Add
  <2>5. QED
    BY <1>6, <2>1, <2>3, <2>4 DEF Add, TypeInv, TypeOK
<1>7. CASE SendTest(c)
  <2>1. NewRun(c, 1, FALSE) \in RunType
    BY <1>2 DEF NewRun, RunType
  <2>2. caller' \in [Callers -> CallerType]
    BY <1>1, <1>7, CallerMoves DEF SendTest
  <2>3. QED
    BY <1>1, <1>7, <2>1, <2>2 DEF SendTest, TypeInv, TypeOK
<1>8. CASE CallerCrash(c)
  <2>1. caller' \in [Callers -> CallerType]
    BY <1>1, <1>8, CallerMoves DEF CallerCrash
  <2>2. QED
    BY <1>1, <1>8, <2>1 DEF CallerCrash, TypeInv, TypeOK
<1>9. QED
  BY <1>3, <1>4, <1>5, <1>6, <1>7, <1>8 DEF CallerStep

LEMMA RunTyped ==
    ASSUME TypeInv, NEW r \in Runs, RunStep(r) \/ LoseLock(r) \/ Crash(r)
    PROVE  TypeOK'
<1>1. /\ delivery \in DeliveryType /\ run[r] \in RunType
      /\ job \in [Callers -> JobType] /\ run \in [Runs -> RunType]
      /\ lost \in BOOLEAN /\ tries \in [Callers -> Nat]
  BY DEF TypeInv, TypeOK
<1>2. ASSUME FailsIn(r)
      PROVE  run' \in [Runs -> RunType] /\ lost' \in BOOLEAN /\ tries' \in [Callers -> Nat]
  <2>1. CaughtBy(r) \in RunPCs
    BY Caught DEF RunPCs
  <2>2. RunGoesTo(r, CaughtBy(r)) /\ lost' = (lost \/ IsTest(r))
    BY <1>2 DEF FailsIn
  <2>3. tries' \in [Callers -> Nat]
    BY <1>1, <1>2 DEF FailsIn, RunType
  <2>4. QED
    BY <1>1, <2>1, <2>2, <2>3, RunMoves
<1>3. ASSUME NEW pc \in RunPCs, RunGoesTo(r, pc)
      PROVE  run' \in [Runs -> RunType]
  BY <1>1, <1>3, RunMoves
<1>4. CASE FindDelivery(r)
  BY <1>1, <1>2, <1>3, <1>4 DEF FindDelivery, RunPCs, TypeInv, TypeOK
<1>5. CASE SetAttempt(r)
  <2>1. [delivery EXCEPT !.attempt = run[r].attempt] \in DeliveryType
    BY <1>1 DEF DeliveryType, RunType
  <2>2. run' \in [Runs -> RunType] /\ lost' \in BOOLEAN /\ tries' \in [Callers -> Nat]
    BY <1>1, <1>2, <1>3, <1>5 DEF SetAttempt, RunPCs
  <2>3. QED
    BY <1>5, <2>1, <2>2 DEF SetAttempt, TypeInv, TypeOK
<1>6. CASE Post(r)
  <2>1. run' \in [Runs -> RunType] /\ lost' \in BOOLEAN /\ tries' \in [Callers -> Nat]
    BY <1>1, <1>2, <1>3, <1>6 DEF Post, RunPCs
  <2>2. QED
    BY <1>6, <2>1 DEF Post, TypeInv, TypeOK
<1>7. CASE RecordSuccess(r)
  <2>1. [delivery EXCEPT !.status = "SUCCESS"] \in DeliveryType
    BY <1>1 DEF DeliveryType, WEBHOOK_DELIVERY_STATUS
  <2>2. run' \in [Runs -> RunType] /\ lost' \in BOOLEAN /\ tries' \in [Callers -> Nat]
    BY <1>1, <1>2, <1>3, <1>7 DEF RecordSuccess, RunPCs
  <2>3. QED
    BY <1>7, <2>1, <2>2 DEF RecordSuccess, TypeInv, TypeOK
<1>8. CASE MarkFailed(r)
  <2>1. [delivery EXCEPT !.status = "FAILED"] \in DeliveryType
    BY <1>1 DEF DeliveryType, WEBHOOK_DELIVERY_STATUS
  <2>2. run' \in [Runs -> RunType]
    BY <1>1, <1>3, <1>8 DEF MarkFailed, RunPCs
  <2>3. delivery' \in DeliveryType /\ lost' \in BOOLEAN
    BY <1>1, <1>8, <2>1 DEF MarkFailed
  <2>4. QED
    BY <1>8, <2>2, <2>3 DEF MarkFailed, TypeInv, TypeOK
<1>9. CASE Return(r)
  <2>1. [job[run[r].job] EXCEPT !.state = "completed"] \in JobType
    BY <1>1 DEF JobType, RunType
  <2>2. job' \in [Callers -> JobType]
    BY <1>1, <1>9, <2>1 DEF Return
  <2>3. QED
    BY <1>1, <1>9, <2>2, IdleTyped DEF Return, TypeInv, TypeOK
<1>10. CASE Throw(r)
  <2>1. ASSUME NEW state \in {"waiting", "failed"}
        PROVE  [job[run[r].job] EXCEPT !.attemptsMade = run[r].attempt, !.state = state]
                   \in JobType
    <3>1. run[r].attempt \in 0..Attempts
      BY <1>1, WebhookConstants DEF RunType
    <3>2. job[run[r].job] \in JobType
      BY <1>1 DEF RunType
    <3>3. QED
      BY <3>1, <3>2 DEF JobType
  <2>2. job' \in [Callers -> JobType]
    BY <1>1, <1>10, <2>1 DEF Throw
  <2>3. QED
    BY <1>1, <1>10, <2>2, IdleTyped DEF Throw, TypeInv, TypeOK
<1>11. CASE LoseLock(r)
  <2>1. [run[r] EXCEPT !.owns = FALSE] \in RunType
    BY <1>1 DEF RunType
  <2>2. QED
    BY <1>1, <1>11, <2>1 DEF LoseLock, TypeInv, TypeOK
<1>12. CASE Crash(r)
  BY <1>1, <1>12, IdleTyped DEF Crash, TypeInv, TypeOK
<1>13. QED
  BY <1>4, <1>5, <1>6, <1>7, <1>8, <1>9, <1>10, <1>11, <1>12 DEF RunStep

LEMMA QueueTyped ==
    ASSUME TypeInv, NEW c \in Callers, Stall(c) \/ \E r \in Runs : Pick(r, c)
    PROVE  TypeOK'
<1>1. /\ job[c] \in JobType /\ job \in [Callers -> JobType]
      /\ run \in [Runs -> RunType] /\ lost \in BOOLEAN
  BY DEF TypeInv, TypeOK
<1>2. CASE Stall(c)
  <2>1. CASE job[c].stalled < MaxStalled
    <3>1. [job[c] EXCEPT !.state = "waiting", !.stalled = job[c].stalled + 1] \in JobType
      <4>1. job[c].stalled + 1 \in 0..MaxStalled
        BY <1>1, <2>1, WebhookConstants DEF JobType
      <4>2. QED
        BY <1>1, <4>1 DEF JobType
    <3>2. job' = [job EXCEPT ![c] = [job[c] EXCEPT !.state = "waiting",
                                                   !.stalled = job[c].stalled + 1]]
      BY <1>2, <2>1 DEF Stall
    <3>3. QED
      BY <1>1, <1>2, <2>1, <3>1, <3>2 DEF Stall, TypeInv, TypeOK
  <2>2. CASE ~(job[c].stalled < MaxStalled)
    <3>1. [job[c] EXCEPT !.state = "failed"] \in JobType
      BY <1>1 DEF JobType
    <3>2. QED
      BY <1>1, <1>2, <2>2, <3>1 DEF Stall, TypeInv, TypeOK
  <2>3. QED
    BY <2>1, <2>2
<1>3. ASSUME NEW r \in Runs, Pick(r, c)
      PROVE  TypeOK'
  <2>1. [job[c] EXCEPT !.state = "active"] \in JobType
    BY <1>1 DEF JobType
  <2>2. job[c].attemptsMade + 1 \in 1..Attempts
    <3>1. job[c].attemptsMade \in Nat /\ job[c].attemptsMade < Attempts
      BY <1>1, <1>3, WebhookConstants DEF Pick, TypeInv, JobInv, JobType
    <3>2. QED
      BY <3>1, WebhookConstants
  <2>3. NewRun(c, job[c].attemptsMade + 1, TRUE) \in RunType
    BY <2>2 DEF NewRun, RunType
  <2>4. QED
    BY <1>1, <1>3, <2>1, <2>3 DEF Pick, TypeInv, TypeOK
<1>4. QED
  BY <1>2, <1>3

-----------------------------------------------------------------------------
(* How steps move runs and jobs *)

Work(r) == FindDelivery(r) \/ SetAttempt(r) \/ Post(r) \/ RecordSuccess(r) \/ MarkFailed(r)

\* The run has settled the row, and its job ends with it.
Over(r) == run[r].pc = "done" \/ (run[r].pc = "throw" /\ run[r].attempt >= Attempts)

\* While a run works it keeps its job, and when it is over the row is settled.
LEMMA WorkMoves ==
    ASSUME TypeOK, NEW r \in Runs, Work(r)
    PROVE  /\ UNCHANGED <<config, job, caller>>
           /\ \A s \in Runs \ {r} : run'[s] = run[s]
           /\ run[r].pc # "idle" /\ run'[r].pc # "idle"
           /\ run'[r].job = run[r].job /\ run'[r].owns = run[r].owns
           /\ run'[r].attempt = run[r].attempt
           /\ lost => lost'
           /\ delivery'.exists = delivery.exists
           /\ \/ delivery'.status = delivery.status
              \/ delivery.exists /\ delivery'.status \in {"SUCCESS", "FAILED"}
           /\ Over(r)' \/ (IsTest(r) /\ run'[r].pc = "throw") =>
                  lost' \/ ~delivery.exists \/ delivery'.status \in {"SUCCESS", "FAILED"}
<1>1. run \in [Runs -> RunType] /\ delivery \in DeliveryType
  BY DEF TypeOK
<1>2. \E pc \in RunPCs \ {"idle"} : RunGoesTo(r, pc)
  <2>1. FailsIn(r) => \E pc \in RunPCs \ {"idle"} : RunGoesTo(r, pc)
    BY Caught DEF FailsIn, RunPCs
  <2>2. QED
    BY <2>1 DEF Work, FindDelivery, SetAttempt, Post, RecordSuccess, MarkFailed, RunPCs
<1>3. PICK pc \in RunPCs \ {"idle"} : RunGoesTo(r, pc)
  BY <1>2
<1>4. /\ \A s \in Runs \ {r} : run'[s] = run[s]
      /\ run'[r].pc = pc /\ run'[r].job = run[r].job
      /\ run'[r].attempt = run[r].attempt /\ run'[r].owns = run[r].owns
  BY <1>1, <1>3, RunMoves
<1>5. UNCHANGED <<config, job, caller>> /\ run[r].pc # "idle"
  BY DEF Work, FindDelivery, SetAttempt, Post, RecordSuccess, MarkFailed
<1>6. lost => lost'
  BY DEF Work, FindDelivery, SetAttempt, Post, RecordSuccess, MarkFailed, FailsIn
<1>7. /\ delivery'.exists = delivery.exists
      /\ \/ delivery'.status = delivery.status
         \/ delivery.exists /\ delivery'.status \in {"SUCCESS", "FAILED"}
  BY <1>1 DEF Work, FindDelivery, SetAttempt, Post, RecordSuccess, MarkFailed, DeliveryType
<1>8. ASSUME Over(r)' \/ (IsTest(r) /\ run'[r].pc = "throw")
      PROVE  lost' \/ ~delivery.exists \/ delivery'.status \in {"SUCCESS", "FAILED"}
  <2>1. pc = "done" \/ (pc = "throw" /\ (run[r].attempt >= Attempts \/ IsTest(r)))
    BY <1>4, <1>8 DEF Over
  <2>2. \A q \in {"attempt", "post", "record"} : ~RunGoesTo(r, q)
    <3>1. ASSUME NEW q \in {"attempt", "post", "record"}, RunGoesTo(r, q)
          PROVE  FALSE
      <4>1. run'[r].pc = q
        BY <1>1, <3>1, RunMoves DEF RunPCs
      <4>2. QED
        BY <1>4, <2>1, <4>1
    <3>2. QED
      BY <3>1
  <2>3. CASE FailsIn(r)
    <3>1. run'[r].pc = CaughtBy(r)
      <4>1. CaughtBy(r) \in RunPCs
        BY Caught DEF RunPCs
      <4>2. QED
        BY <1>1, <2>3, <4>1, RunMoves DEF FailsIn
    <3>2. IsTest(r)
      BY <1>4, <2>1, <3>1, Caught
    <3>3. QED
      BY <2>3, <3>2 DEF FailsIn
  <2>4. CASE MarkFailed(r)
    BY <1>1, <2>4 DEF MarkFailed, DeliveryType
  <2>5. CASE RecordSuccess(r) /\ ~FailsIn(r)
    BY <1>1, <2>5 DEF RecordSuccess, DeliveryType
  <2>6. QED
    BY <2>2, <2>3, <2>4, <2>5 DEF Work, FindDelivery, SetAttempt, Post
<1>9. QED
  BY <1>3, <1>4, <1>5, <1>6, <1>7, <1>8

\* A run that is idle owns nothing.
LEMMA IdleOwnsNothing ==
    ASSUME TypeOK, NEW r \in Runs, run' = [run EXCEPT ![r] = IdleRun]
    PROVE  /\ \A s \in Runs \ {r} : run'[s] = run[s]
           /\ run'[r].pc = "idle"
           /\ \A s \in Runs, c \in Callers : Owns(s, c)' <=> (s # r /\ Owns(s, c))
<1>1. run \in [Runs -> RunType] /\ IdleRun \in RunType /\ IdleRun.pc = "idle"
  BY IdleTyped DEF TypeOK
<1>2. run'[r] = IdleRun /\ \A s \in Runs \ {r} : run'[s] = run[s]
  BY <1>1
<1>3. QED
  BY <1>1, <1>2 DEF Owns

\* Steps that touch no job and give none to a run keep JobInv.
LEMMA QuietStep ==
    ASSUME JobInv, job' = job,
           \A c \in Callers : caller'[c].pc # "done" => caller[c].pc # "done",
           \A r \in Runs, c \in Callers : Owns(r, c)' => Owns(r, c)
    PROVE  JobInv'
BY DEF JobInv

LEMMA CallerKeepsJobs ==
    ASSUME TypeInv, NEW c \in Callers, CallerStep(c) \/ CallerCrash(c)
    PROVE  JobInv'
<1>1. /\ caller \in [Callers -> CallerType] /\ run \in [Runs -> RunType]
      /\ job \in [Callers -> JobType]
  BY DEF TypeInv, TypeOK
<1>2. CASE Lookup(c) \/ CreateDelivery(c) \/ Reset(c)
  <2>1. \E pc \in {"reset", "create", "add", "send", "done"} : CallerGoesTo(c, pc)
    BY <1>2 DEF Lookup, CreateDelivery, Reset
  <2>2. caller[c].pc # "done" /\ job' = job /\ run' = run
    BY <1>2 DEF Lookup, CreateDelivery, Reset
  <2>3. \A d \in Callers : caller'[d].pc # "done" => caller[d].pc # "done"
    BY <1>1, <2>1, <2>2, CallerMoves
  <2>4. QED
    BY <2>2, <2>3, QuietStep DEF Owns, TypeInv
<1>3. CASE CallerCrash(c) \/ SendTest(c)
  <2>1. \A d \in Callers : caller'[d].pc # "done" => caller[d].pc # "done"
    BY <1>1, <1>3, CallerMoves DEF CallerCrash, SendTest
  <2>2. \A r \in Runs, d \in Callers : Owns(r, d)' => Owns(r, d)
    <3>1. NewRun(c, 1, FALSE).owns = FALSE
      BY DEF NewRun
    <3>2. QED
      BY <1>1, <1>3, <3>1 DEF CallerCrash, SendTest, Owns
  <2>3. job' = job
    BY <1>3 DEF CallerCrash, SendTest
  <2>4. QED
    BY <2>1, <2>2, <2>3, QuietStep DEF TypeInv
<1>4. CASE Add(c)
  <2>1. /\ caller[c].pc = "add" /\ run' = run
        /\ \A d \in Callers : caller'[d].pc # "done" => d # c /\ caller[d].pc # "done"
    BY <1>1, <1>4, CallerMoves DEF Add
  <2>2. job[c].state = "none" /\ job[c].attemptsMade < Attempts
    BY <2>1 DEF TypeInv, JobInv
  <2>3. \A r \in Runs : ~Owns(r, c)
    BY <2>2 DEF TypeInv, JobInv
  <2>4. CASE job' = job
    BY <2>1, <2>4, QuietStep DEF Owns, TypeInv
  <2>5. CASE job' = [job EXCEPT ![c].state = "waiting"]
    <3>1. /\ \A d \in Callers \ {c} : job'[d] = job[d]
          /\ job'[c].state = "waiting" /\ job'[c].attemptsMade = job[c].attemptsMade
      <4>1. /\ [job[c] EXCEPT !.state = "waiting"].state = "waiting"
            /\ [job[c] EXCEPT !.state = "waiting"].attemptsMade = job[c].attemptsMade
        BY <1>1 DEF JobType
      <4>2. QED
        BY <1>1, <2>5, <4>1
    <3>2. \A r \in Runs, d \in Callers : Owns(r, d)' => d # c /\ Owns(r, d)
      BY <2>1, <2>3 DEF Owns
    <3>3. QED
      BY <2>1, <2>2, <3>1, <3>2 DEF TypeInv, JobInv
  <2>6. QED
    BY <1>4, <2>4, <2>5 DEF Add
<1>5. QED
  BY <1>2, <1>3, <1>4 DEF CallerStep

LEMMA RunKeepsJobs ==
    ASSUME TypeInv, NEW r \in Runs, RunStep(r) \/ LoseLock(r) \/ Crash(r)
    PROVE  JobInv'
<1>1. /\ run \in [Runs -> RunType] /\ run[r] \in RunType
      /\ job \in [Callers -> JobType] /\ caller' = caller
  BY DEF TypeInv, TypeOK, RunStep, FindDelivery, SetAttempt, Post, RecordSuccess,
         MarkFailed, Return, Throw, LoseLock, Crash
<1>2. CASE Work(r)
  <2>1. \A s \in Runs, c \in Callers : Owns(s, c)' => Owns(s, c)
    BY <1>2, WorkMoves DEF Owns, TypeInv
  <2>2. QED
    BY <1>2, <2>1, WorkMoves, QuietStep DEF TypeInv
<1>3. CASE LoseLock(r)
  <2>1. [run[r] EXCEPT !.owns = FALSE].owns = FALSE
    BY <1>1 DEF RunType
  <2>2. \A s \in Runs, c \in Callers : Owns(s, c)' => Owns(s, c)
    BY <1>1, <1>3, <2>1 DEF LoseLock, Owns
  <2>3. QED
    BY <1>1, <1>3, <2>2, QuietStep DEF LoseLock, TypeInv
<1>4. CASE Crash(r)
  BY <1>1, <1>4, IdleOwnsNothing, QuietStep DEF Crash, TypeInv
<1>5. CASE Return(r) \/ Throw(r)
  <2>1. /\ \A s \in Runs, c \in Callers : Owns(s, c)' <=> (s # r /\ Owns(s, c))
        /\ run[r].pc # "idle"
    BY <1>5, IdleOwnsNothing DEF Return, Throw, TypeInv
  <2>2. CASE ~run[r].owns
    <3>1. job' = job
      BY <1>5, <2>2 DEF Return, Throw
    <3>2. QED
      BY <1>1, <2>1, <3>1, QuietStep DEF TypeInv
  <2>3. CASE run[r].owns
    <3> DEFINE c == run[r].job
    <3>1. c \in Callers /\ job[c] \in JobType
      BY <1>1 DEF RunType
    <3>2. Owns(r, c)
      BY <2>1, <2>3 DEF Owns
    <3>3. /\ job[c].state = "active" /\ caller[c].pc = "done"
          /\ \A s \in Runs : Owns(s, c) => s = r
      BY <3>1, <3>2 DEF TypeInv, JobInv
    <3>4. /\ \A d \in Callers \ {c} : job'[d] = job[d]
          /\ job'[c].state \in {"waiting", "completed", "failed"}
          /\ job'[c].state = "waiting" => job'[c].attemptsMade < Attempts
      <4>1. CASE Return(r)
        <5>1. [job[c] EXCEPT !.state = "completed"].state = "completed"
          BY <3>1 DEF JobType
        <5>2. job' = [job EXCEPT ![c] = [job[c] EXCEPT !.state = "completed"]]
          BY <2>3, <4>1 DEF Return
        <5>3. QED
          BY <1>1, <3>1, <5>1, <5>2
      <4>2. CASE Throw(r)
        <5> DEFINE state == IF run[r].attempt < Attempts THEN "waiting" ELSE "failed"
        <5> DEFINE new == [job[c] EXCEPT !.attemptsMade = run[r].attempt, !.state = state]
        <5>1. new.state = state /\ new.attemptsMade = run[r].attempt
          BY <3>1 DEF JobType
        <5>2. job' = [job EXCEPT ![c] = new]
          BY <2>3, <4>2 DEF Throw
        <5>3. job'[c] = new /\ \A d \in Callers \ {c} : job'[d] = job[d]
          BY <1>1, <3>1, <5>2
        <5>4. QED
          BY <5>1, <5>3
      <4>3. QED
        BY <1>5, <4>1, <4>2
    <3> HIDE DEF c
    <3>5. \A s \in Runs, d \in Callers : Owns(s, d)' => d # c /\ Owns(s, d)
      BY <2>1, <3>3
    <3>6. QED
      BY <1>1, <3>1, <3>3, <3>4, <3>5 DEF TypeInv, JobInv
  <2>4. QED
    BY <2>2, <2>3
<1>6. QED
  BY <1>2, <1>3, <1>4, <1>5 DEF RunStep, Work

\* A pick gives a waiting job to one run.
LEMMA PickMoves ==
    ASSUME TypeInv, NEW r \in Runs, NEW c \in Callers, Pick(r, c)
    PROVE  /\ UNCHANGED <<config, delivery, caller, answered, tries, lost>>
           /\ job[c].state = "waiting" /\ run[r].pc = "idle"
           /\ \A d \in Callers \ {c} : job'[d] = job[d]
           /\ job'[c].state = "active" /\ job'[c].attemptsMade = job[c].attemptsMade
           /\ \A s \in Runs \ {r} : run'[s] = run[s]
           /\ run'[r].pc = "find" /\ run'[r].job = c /\ run'[r].owns
           /\ \A s \in Runs : Owns(s, c)' => s = r
           /\ \A s \in Runs, d \in Callers \ {c} : Owns(s, d)' <=> Owns(s, d)
<1>1. run \in [Runs -> RunType] /\ job \in [Callers -> JobType]
  BY DEF TypeInv, TypeOK
<1> DEFINE new == NewRun(c, job[c].attemptsMade + 1, TRUE)
<1>2. new.pc = "find" /\ new.job = c /\ new.owns
  BY DEF NewRun
<1>3. run' = [run EXCEPT ![r] = new] /\ run[r].pc = "idle" /\ job[c].state = "waiting"
  BY DEF Pick
<1> HIDE DEF new
<1>4. run'[r] = new /\ \A s \in Runs \ {r} : run'[s] = run[s]
  BY <1>1, <1>3
<1>5. /\ [job[c] EXCEPT !.state = "active"].state = "active"
      /\ [job[c] EXCEPT !.state = "active"].attemptsMade = job[c].attemptsMade
  BY <1>1 DEF JobType
<1>6. /\ \A d \in Callers \ {c} : job'[d] = job[d]
      /\ job'[c].state = "active" /\ job'[c].attemptsMade = job[c].attemptsMade
  BY <1>1, <1>5 DEF Pick
<1>7. \A s \in Runs : ~Owns(s, c)
  BY <1>3 DEF TypeInv, JobInv
<1>8. /\ \A s \in Runs : Owns(s, c)' => s = r
      /\ \A s \in Runs, d \in Callers \ {c} : Owns(s, d)' <=> Owns(s, d)
  <2>1. ASSUME NEW s \in Runs, NEW d \in Callers, s # r
        PROVE  Owns(s, d)' <=> Owns(s, d)
    BY <1>4, <2>1 DEF Owns
  <2>2. \A d \in Callers \ {c} : ~Owns(r, d) /\ ~Owns(r, d)'
    BY <1>2, <1>3, <1>4 DEF Owns
  <2>3. QED
    BY <1>7, <2>1, <2>2
<1>9. UNCHANGED <<config, delivery, caller, answered, tries, lost>>
  BY DEF Pick
<1>10. QED
  BY <1>2, <1>3, <1>4, <1>6, <1>8, <1>9

LEMMA StallMoves ==
    ASSUME TypeInv, NEW c \in Callers, Stall(c)
    PROVE  /\ UNCHANGED <<config, delivery, caller, run, answered, tries>>
           /\ \A r \in Runs : ~Owns(r, c)
           /\ \A d \in Callers \ {c} : job'[d] = job[d]
           /\ job[c].state = "active" /\ job'[c].attemptsMade = job[c].attemptsMade
           /\ (job'[c].state = "waiting" /\ lost' = lost) \/ (job'[c].state = "failed" /\ lost')
<1>1. job \in [Callers -> JobType] /\ job[c] \in JobType
  BY DEF TypeInv, TypeOK
<1>2. CASE job[c].stalled < MaxStalled
  <2> DEFINE new == [job[c] EXCEPT !.state = "waiting", !.stalled = job[c].stalled + 1]
  <2>1. new.state = "waiting" /\ new.attemptsMade = job[c].attemptsMade
    BY <1>1 DEF JobType
  <2>2. job' = [job EXCEPT ![c] = new] /\ lost' = lost
    BY <1>2 DEF Stall
  <2> HIDE DEF new
  <2>3. job'[c] = new /\ \A d \in Callers \ {c} : job'[d] = job[d]
    BY <1>1, <2>2
  <2>4. QED
    BY <2>1, <2>2, <2>3 DEF Stall
<1>3. CASE ~(job[c].stalled < MaxStalled)
  <2> DEFINE new == [job[c] EXCEPT !.state = "failed"]
  <2>1. new.state = "failed" /\ new.attemptsMade = job[c].attemptsMade
    BY <1>1 DEF JobType
  <2>2. job' = [job EXCEPT ![c] = new] /\ lost'
    BY <1>3 DEF Stall
  <2> HIDE DEF new
  <2>3. job'[c] = new /\ \A d \in Callers \ {c} : job'[d] = job[d]
    BY <1>1, <2>2
  <2>4. QED
    BY <2>1, <2>2, <2>3 DEF Stall
<1>4. QED
  BY <1>2, <1>3

LEMMA QueueKeepsJobs ==
    ASSUME TypeInv, NEW c \in Callers, Stall(c) \/ \E r \in Runs : Pick(r, c)
    PROVE  JobInv'
<1>1. CASE Stall(c)
  <2>1. \A r \in Runs, d \in Callers : Owns(r, d)' => d # c /\ Owns(r, d)
    BY <1>1, StallMoves DEF Owns
  <2>2. job[c].attemptsMade < Attempts /\ caller[c].pc = "done"
    BY <1>1, StallMoves DEF TypeInv, JobInv
  <2>3. /\ caller' = caller /\ \A d \in Callers \ {c} : job'[d] = job[d]
        /\ job'[c].attemptsMade = job[c].attemptsMade
    BY <1>1, StallMoves
  <2>4. QED
    BY <2>1, <2>2, <2>3 DEF TypeInv, JobInv
<1>2. ASSUME NEW r \in Runs, Pick(r, c)
      PROVE  JobInv'
  <2>1. job[c].attemptsMade < Attempts /\ caller[c].pc = "done"
    BY <1>2, PickMoves DEF TypeInv, JobInv
  <2>2. /\ caller' = caller /\ \A d \in Callers \ {c} : job'[d] = job[d]
        /\ job'[c].state = "active" /\ job'[c].attemptsMade = job[c].attemptsMade
        /\ \A s \in Runs : Owns(s, c)' => s = r
        /\ \A s \in Runs, d \in Callers \ {c} : Owns(s, d)' <=> Owns(s, d)
    BY <1>2, PickMoves
  <2>3. QED
    BY <2>1, <2>2 DEF TypeInv, JobInv
<1>3. QED
  BY <1>1, <1>2

LEMMA OnlyTestsSend ==
    ASSUME TypeInv, [Next]_vars
    PROVE  TestInv'
<1>1. caller \in [Callers -> CallerType]
  BY DEF TypeInv, TypeOK
<1>2. ASSUME NEW c \in Callers, CallerStep(c) \/ CallerCrash(c)
      PROVE  TestInv'
  <2>1. PICK pc \in {"create", "reset", "add", "send", "done"} : CallerGoesTo(c, pc)
    BY <1>2 DEF CallerStep, Lookup, CreateDelivery, Reset, Add, SendTest, CallerCrash
  <2>2. /\ caller'[c].pc = pc /\ caller'[c].op = caller[c].op
        /\ \A d \in Callers \ {c} : caller'[d] = caller[d]
    BY <1>1, <2>1, CallerMoves
  <2>3. ASSUME pc = "send"
        PROVE  caller[c].op = "test"
    <3>1. \A q \in {"create", "reset", "add", "done"} : ~CallerGoesTo(c, q)
      <4>1. ASSUME NEW q \in {"create", "reset", "add", "done"}, CallerGoesTo(c, q)
            PROVE  FALSE
        <5>1. caller'[c].pc = q
          BY <1>1, <4>1, CallerMoves
        <5>2. QED
          BY <2>2, <2>3, <5>1
      <4>2. QED
        BY <4>1
    <3>2. QED
      BY <1>2, <3>1 DEF CallerStep, Lookup, CreateDelivery, Reset, Add, SendTest, CallerCrash
  <2>4. QED
    BY <2>2, <2>3 DEF TypeInv, TestInv
<1>3. CASE caller' = caller
  BY <1>3 DEF TypeInv, TestInv
<1>4. QED
  BY <1>2, <1>3 DEF Next, vars, Stall, RunStep, FindDelivery, SetAttempt, Post,
     RecordSuccess, MarkFailed, Return, Throw, LoseLock, Crash, Pick, DeleteConfig

LEMMA NextTyped ==
    ASSUME TypeInv, [Next]_vars
    PROVE  TypeInv'
<1>1. CASE DeleteConfig
  <2>1. TypeOK'
    <3>1. [delivery EXCEPT !.exists = FALSE] \in DeliveryType
      BY DEF TypeInv, TypeOK, DeliveryType
    <3>2. QED
      BY <1>1, <3>1 DEF DeleteConfig, TypeInv, TypeOK
  <2>2. JobInv'
    BY <1>1, QuietStep DEF DeleteConfig, Owns, TypeInv
  <2>3. QED
    BY <2>1, <2>2, OnlyTestsSend DEF TypeInv
<1>2. CASE UNCHANGED vars
  BY <1>2, OnlyTestsSend DEF vars, TypeInv, TypeOK, JobInv, Owns
<1>3. QED
  BY <1>1, <1>2, OnlyTestsSend, CallerTyped, CallerKeepsJobs, RunTyped, RunKeepsJobs, QueueTyped,
     QueueKeepsJobs DEF Next, TypeInv

\* The row, the callers, the jobs and the runs keep their shapes; no run has an
\* attempt beyond the last, and no job stalls more often than it may.
THEOREM DeliveryTypeCorrect == Spec => []TypeOK
<1>1. Spec => []TypeInv
  BY InitTyped, NextTyped, PTL DEF Spec
<1>2. QED
  BY <1>1, PTL DEF TypeInv

-----------------------------------------------------------------------------
(* No delivery is forgotten *)

\* A job that has not ended, and whose run has not settled the row yet.
Good(c) ==
    \/ job[c].state = "waiting"
    \/ job[c].state = "active" /\ \A r \in Runs : Owns(r, c) => ~Over(r)

\* A test that has not ended.
UnderWay(r) == run[r].pc \notin {"idle", "done", "throw"} /\ IsTest(r)

Waits == delivery.exists /\ delivery.status = "PENDING" /\ ~lost

\* The strengthening of PendingIsOwed: whoever owes the outcome has not written
\* it yet, for a caller that resets the row adds a job of its own afterwards.
OwedInv ==
    Waits => \/ \E c \in Callers : caller[c].pc \in {"add", "send"} \/ Good(c)
             \/ \E r \in Runs : UnderWay(r)

LEMMA OwedImplies ==
    ASSUME OwedInv
    PROVE  PendingIsOwed
BY DEF OwedInv, Waits, PendingIsOwed, Owed, Good, UnderWay

\* As long as nobody who owes the outcome moves, it stays owed.
LEMMA StillOwed ==
    ASSUME OwedInv, Waits' => Waits,
           \A c \in Callers : caller[c].pc \in {"add", "send"} => caller'[c].pc = caller[c].pc,
           \A c \in Callers : Good(c) => Good(c)',
           \A r \in Runs : UnderWay(r) => UnderWay(r)'
    PROVE  OwedInv'
<1>1. SUFFICES ASSUME Waits'
               PROVE  \/ \E c \in Callers : caller'[c].pc \in {"add", "send"} \/ Good(c)'
                      \/ \E r \in Runs : UnderWay(r)'
  BY DEF OwedInv
<1>2. CASE \E c \in Callers : caller[c].pc \in {"add", "send"} \/ Good(c)
  BY <1>2
<1>3. CASE \E r \in Runs : UnderWay(r)
  BY <1>3
<1>4. QED
  BY <1>1, <1>2, <1>3 DEF OwedInv

LEMMA CallerOwes ==
    ASSUME TypeInv, OwedInv, NEW c \in Callers, CallerStep(c) \/ CallerCrash(c)
    PROVE  OwedInv'
<1>1. /\ caller \in [Callers -> CallerType] /\ run \in [Runs -> RunType]
      /\ job \in [Callers -> JobType] /\ delivery \in DeliveryType
  BY DEF TypeInv, TypeOK
<1>2. \A d \in Callers : caller'[d].op = caller[d].op
  <2>1. \E pc \in {"create", "reset", "add", "send", "done"} : CallerGoesTo(c, pc)
    BY DEF CallerStep, Lookup, CreateDelivery, Reset, Add, SendTest, CallerCrash
  <2>2. QED
    BY <1>1, <2>1, CallerMoves
<1>3. CASE Lookup(c) \/ CallerCrash(c)
  <2>1. CASE caller[c].pc \in {"add", "send"}
    <3>1. lost'
      BY <1>3, <2>1 DEF CallerCrash, Lookup
    <3>2. QED
      BY <3>1 DEF OwedInv, Waits
  <2>2. CASE caller[c].pc \notin {"add", "send"}
    <3>1. \E pc \in {"create", "reset", "done"} : CallerGoesTo(c, pc)
      BY <1>3 DEF Lookup, CallerCrash
    <3>2. \A d \in Callers : caller[d].pc \in {"add", "send"} => caller'[d].pc = caller[d].pc
      BY <1>1, <2>2, <3>1, CallerMoves
    <3>3. UNCHANGED <<delivery, job, run>>
      BY <1>3 DEF Lookup, CallerCrash
    <3>4. Waits' => Waits
      <4>1. CASE Lookup(c)
        BY <3>3, <4>1 DEF Lookup, Waits
      <4>2. CASE CallerCrash(c)
        <5>1. lost => lost'
          BY <4>2 DEF CallerCrash
        <5>2. QED
          BY <3>3, <5>1 DEF Waits
      <4>3. QED
        BY <1>3, <4>1, <4>2
    <3>5. \A d \in Callers : Good(d) => Good(d)'
      BY <3>3 DEF Good, Owns, Over
    <3>6. \A r \in Runs : UnderWay(r) => UnderWay(r)'
      BY <1>1, <1>2, <3>3 DEF UnderWay, IsTest, RunType
    <3>7. QED
      BY <3>2, <3>4, <3>5, <3>6, StillOwed
  <2>3. QED
    BY <2>1, <2>2
<1>4. CASE CreateDelivery(c) \/ Reset(c)
  <2>1. CASE CallerGoesTo(c, "add") \/ CallerGoesTo(c, "send")
    <3>1. caller'[c].pc \in {"add", "send"}
      BY <1>1, <2>1, CallerMoves
    <3>2. QED
      BY <3>1 DEF OwedInv
  <2>2. CASE CallerGoesTo(c, "done") /\ delivery' = delivery
    <3>1. /\ UNCHANGED <<delivery, job, run, lost>> /\ caller[c].pc \notin {"add", "send"}
      BY <1>4, <2>2 DEF CreateDelivery, Reset
    <3>2. \A d \in Callers : caller[d].pc \in {"add", "send"} => caller'[d].pc = caller[d].pc
      BY <1>1, <2>2, <3>1, CallerMoves
    <3>3. Waits' => Waits
      BY <3>1 DEF Waits
    <3>4. \A d \in Callers : Good(d) => Good(d)'
      BY <3>1 DEF Good, Owns, Over
    <3>5. \A r \in Runs : UnderWay(r) => UnderWay(r)'
      BY <1>1, <1>2, <3>1 DEF UnderWay, IsTest, RunType
    <3>6. QED
      BY <3>2, <3>3, <3>4, <3>5, StillOwed
  <2>3. QED
    BY <1>4, <2>1, <2>2 DEF CreateDelivery, Reset
<1>5. CASE Add(c)
  <2>1. CASE lost'
    BY <2>1 DEF OwedInv, Waits
  <2>2. CASE job' = [job EXCEPT ![c].state = "waiting"]
    <3>1. [job[c] EXCEPT !.state = "waiting"].state = "waiting"
      BY <1>1 DEF JobType
    <3>2. job'[c].state = "waiting"
      BY <1>1, <2>2, <3>1
    <3>3. QED
      BY <3>2 DEF OwedInv, Good
  <2>3. QED
    BY <1>5, <2>1, <2>2 DEF Add
<1>6. CASE SendTest(c)
  <2>1. PICK r \in Runs : run[r].pc = "idle" /\ run' = [run EXCEPT ![r] = NewRun(c, 1, FALSE)]
    BY <1>6 DEF SendTest
  <2>2. run'[r] = NewRun(c, 1, FALSE) /\ \A s \in Runs \ {r} : run'[s] = run[s]
    BY <1>1, <2>1
  <2>3. NewRun(c, 1, FALSE).owns = FALSE /\ NewRun(c, 1, FALSE).pc = "find"
        /\ NewRun(c, 1, FALSE).job = c
    BY DEF NewRun
  <2>4. caller[c].op = "test"
    BY <1>6 DEF SendTest, TypeInv, TestInv
  <2>5. UnderWay(r)'
    BY <1>2, <2>2, <2>3, <2>4 DEF UnderWay, IsTest
  <2>6. QED
    BY <2>5 DEF OwedInv
<1>7. QED
  BY <1>3, <1>4, <1>5, <1>6 DEF CallerStep

LEMMA RunOwes ==
    ASSUME TypeInv, OwedInv, NEW r \in Runs, RunStep(r) \/ LoseLock(r) \/ Crash(r)
    PROVE  OwedInv'
<1>1. /\ run \in [Runs -> RunType] /\ run[r] \in RunType
      /\ job \in [Callers -> JobType] /\ caller' = caller
      /\ delivery \in DeliveryType
  BY DEF TypeInv, TypeOK, RunStep, FindDelivery, SetAttempt, Post, RecordSuccess,
         MarkFailed, Return, Throw, LoseLock, Crash
<1>2. CASE Work(r)
  <2>1. /\ UNCHANGED <<job, caller>>
        /\ \A s \in Runs \ {r} : run'[s] = run[s]
        /\ run[r].pc # "idle" /\ run'[r].pc # "idle"
        /\ run'[r].job = run[r].job /\ run'[r].owns = run[r].owns
        /\ lost => lost'
        /\ delivery'.exists = delivery.exists
        /\ \/ delivery'.status = delivery.status
           \/ delivery.exists /\ delivery'.status \in {"SUCCESS", "FAILED"}
        /\ Over(r)' \/ (IsTest(r) /\ run'[r].pc = "throw") =>
               lost' \/ ~delivery.exists \/ delivery'.status \in {"SUCCESS", "FAILED"}
    BY <1>2, WorkMoves DEF TypeInv
  <2>2. CASE ~Waits'
    BY <2>2 DEF OwedInv
  <2>3. CASE Waits'
    <3>1. ~lost' /\ delivery.exists /\ delivery'.status = "PENDING"
      BY <2>1, <2>3 DEF Waits
    <3>2. Waits
      BY <2>1, <3>1 DEF Waits
    <3>3. ~Over(r)' /\ ~(IsTest(r) /\ run'[r].pc = "throw")
      BY <2>1, <3>1
    <3>4. \A c \in Callers : Good(c) => Good(c)'
      <4>1. ASSUME NEW c \in Callers, Good(c)
            PROVE  Good(c)'
        <5>1. ASSUME NEW s \in Runs, Owns(s, c)'
              PROVE  ~Over(s)'
          <6>1. CASE s = r
            BY <3>3, <6>1
          <6>2. CASE s # r
            <7>1. run'[s] = run[s]
              BY <2>1, <6>2
            <7>2. Owns(s, c)
              BY <5>1, <7>1 DEF Owns
            <7>3. CASE job[c].state = "active"
              BY <4>1, <7>1, <7>2, <7>3 DEF Good, Over
            <7>4. CASE job[c].state = "waiting"
              BY <7>2, <7>4 DEF TypeInv, JobInv
            <7>5. QED
              BY <4>1, <7>3, <7>4 DEF Good
          <6>3. QED
            BY <6>1, <6>2
        <5>2. QED
          BY <2>1, <4>1, <5>1 DEF Good
      <4>2. QED
        BY <4>1
    <3>5. \A s \in Runs : UnderWay(s) => UnderWay(s)'
      <4>1. ASSUME NEW s \in Runs, UnderWay(s)
            PROVE  UnderWay(s)'
        <5>1. CASE s = r
          <6>1. run'[r].pc # "done"
            BY <3>3 DEF Over
          <6>2. IsTest(r) /\ IsTest(r)'
            BY <1>1, <2>1, <4>1, <5>1 DEF UnderWay, IsTest
          <6>3. QED
            BY <2>1, <3>3, <5>1, <6>1, <6>2 DEF UnderWay
        <5>2. CASE s # r
          BY <1>1, <2>1, <4>1, <5>2 DEF UnderWay, IsTest
        <5>3. QED
          BY <5>1, <5>2
      <4>2. QED
        BY <4>1
    <3>6. QED
      BY <2>1, <3>2, <3>4, <3>5, StillOwed
  <2>4. QED
    BY <2>2, <2>3
<1>3. CASE LoseLock(r) \/ Crash(r)
  <2>1. /\ UNCHANGED <<delivery, job>> /\ \A s \in Runs \ {r} : run'[s] = run[s]
        /\ run'[r].pc = "idle"
           \/ (run'[r].pc = run[r].pc /\ run'[r].job = run[r].job /\ run'[r].owns = FALSE)
    <3>1. /\ [run[r] EXCEPT !.owns = FALSE].owns = FALSE
          /\ [run[r] EXCEPT !.owns = FALSE].pc = run[r].pc
          /\ [run[r] EXCEPT !.owns = FALSE].job = run[r].job
      BY <1>1 DEF RunType
    <3>2. QED
      BY <1>1, <1>3, <3>1, IdleTyped DEF LoseLock, Crash
  <2>2. Waits' => Waits
    <3>1. CASE LoseLock(r)
      BY <2>1, <3>1 DEF LoseLock, Waits
    <3>2. CASE Crash(r)
      BY <2>1, <3>2 DEF Crash, Waits
    <3>3. QED
      BY <1>3, <3>1, <3>2
  <2>3. ASSUME NEW c \in Callers, Good(c)
        PROVE  Good(c)'
    <3>1. ASSUME NEW s \in Runs, Owns(s, c)'
          PROVE  Owns(s, c) /\ run'[s] = run[s]
      BY <2>1, <3>1 DEF Owns
    <3>2. QED
      BY <2>1, <2>3, <3>1 DEF Good, Over
  <2>4. CASE Crash(r) /\ IsTest(r)
    <3>1. lost'
      BY <2>4 DEF Crash
    <3>2. QED
      BY <3>1 DEF OwedInv, Waits
  <2>5. CASE ~(Crash(r) /\ IsTest(r))
    <3>1. UnderWay(r) => UnderWay(r)'
      <4>1. CASE Crash(r)
        BY <2>5, <4>1 DEF UnderWay
      <4>2. CASE LoseLock(r)
        <5>1. [run[r] EXCEPT !.owns = FALSE].pc = run[r].pc
              /\ [run[r] EXCEPT !.owns = FALSE].job = run[r].job
          BY <1>1 DEF RunType
        <5>2. run'[r].pc = run[r].pc /\ run'[r].job = run[r].job
          BY <1>1, <4>2, <5>1 DEF LoseLock
        <5>3. QED
          BY <1>1, <5>2 DEF UnderWay, IsTest
      <4>3. QED
        BY <1>3, <4>1, <4>2
    <3>2. \A s \in Runs \ {r} : UnderWay(s) => UnderWay(s)'
      BY <1>1, <2>1 DEF UnderWay, IsTest
    <3>3. QED
      BY <1>1, <2>2, <2>3, <3>1, <3>2, StillOwed
  <2>6. QED
    BY <2>4, <2>5
<1>4. CASE Return(r) \/ Throw(r)
  <2>1. /\ UNCHANGED <<delivery, lost>> /\ run[r].pc \in {"done", "throw"}
        /\ \A s \in Runs \ {r} : run'[s] = run[s]
        /\ \A s \in Runs, c \in Callers : Owns(s, c)' <=> (s # r /\ Owns(s, c))
    BY <1>4, IdleOwnsNothing DEF Return, Throw, TypeInv
  <2>2. Waits' => Waits
    BY <2>1 DEF Waits
  <2>3. \A s \in Runs : UnderWay(s) => UnderWay(s)'
    BY <1>1, <2>1 DEF UnderWay, IsTest
  <2>4. ASSUME NEW c \in Callers, Good(c)
        PROVE  Good(c)'
    <3>1. \A s \in Runs : Owns(s, c)' => Owns(s, c) /\ run'[s] = run[s]
      BY <2>1
    <3>2. CASE job'[c] = job[c]
      BY <2>4, <3>1, <3>2 DEF Good, Over
    <3>3. CASE job'[c] # job[c]
      <4>1. run[r].owns /\ run[r].job = c
        BY <1>1, <1>4, <3>3 DEF Return, Throw, RunType
      <4>2. Owns(r, c)
        BY <2>1, <4>1 DEF Owns
      <4>3. job[c].state = "active" /\ ~Over(r)
        BY <2>4, <4>2 DEF Good, TypeInv, JobInv
      <4>4. Throw(r) /\ run[r].attempt < Attempts
        <5>1. run[r].attempt \in Nat /\ Attempts \in Nat
          BY <1>1, WebhookConstants DEF RunType
        <5>2. run[r].pc = "throw" /\ ~(run[r].attempt >= Attempts)
          BY <2>1, <4>3 DEF Over
        <5>3. QED
          BY <1>4, <5>1, <5>2 DEF Return
      <4> DEFINE new == [job[c] EXCEPT !.attemptsMade = run[r].attempt, !.state = "waiting"]
      <4>5. new.state = "waiting"
        BY <1>1 DEF JobType
      <4>6. job' = [job EXCEPT ![c] = new]
        BY <4>1, <4>4 DEF Throw
      <4>7. job'[c].state = "waiting"
        BY <1>1, <4>5, <4>6
      <4>8. QED
        BY <4>7 DEF Good
    <3>4. QED
      BY <3>2, <3>3
  <2>5. QED
    BY <1>1, <2>2, <2>3, <2>4, StillOwed
<1>5. QED
  BY <1>2, <1>3, <1>4 DEF RunStep, Work

LEMMA QueueOwes ==
    ASSUME TypeInv, OwedInv, NEW c \in Callers, Stall(c) \/ \E r \in Runs : Pick(r, c)
    PROVE  OwedInv'
<1>1. CASE Stall(c)
  <2>1. CASE job'[c].state = "waiting"
    BY <2>1 DEF OwedInv, Good
  <2>2. CASE lost'
    BY <2>2 DEF OwedInv, Waits
  <2>3. QED
    BY <1>1, <2>1, <2>2, StallMoves
<1>2. ASSUME NEW r \in Runs, Pick(r, c)
      PROVE  OwedInv'
  <2>1. /\ job'[c].state = "active" /\ run'[r].pc = "find"
        /\ \A s \in Runs : Owns(s, c)' => s = r
    BY <1>2, PickMoves
  <2>2. Good(c)'
    BY <2>1 DEF Good, Over
  <2>3. QED
    BY <2>2 DEF OwedInv
<1>3. QED
  BY <1>1, <1>2

\* No delivery is forgotten: as long as the row says PENDING somebody still has
\* to write its outcome, however callers and jobs overlap, unless the one that
\* owed it crashed, was refused by the queue or by the database, or stalled too
\* often.
THEOREM NothingForgotten == Spec => []PendingIsOwed
<1>1. Init => OwedInv
  <2>1. ASSUME Init
        PROVE  ~delivery.exists
    BY <2>1 DEF Init
  <2>2. QED
    BY <2>1 DEF OwedInv, Waits
<1>2. TypeInv /\ OwedInv /\ [Next]_vars => OwedInv'
  <2>1. ASSUME TypeInv, OwedInv, [Next]_vars
        PROVE  OwedInv'
    <3>1. CASE DeleteConfig
      <4>1. delivery'.exists = FALSE
        BY <2>1, <3>1 DEF DeleteConfig, TypeInv, TypeOK, DeliveryType
      <4>2. QED
        BY <4>1 DEF OwedInv, Waits
    <3>2. CASE UNCHANGED vars
      BY <2>1, <3>2 DEF vars, OwedInv, Waits, Good, Owns, Over, UnderWay, IsTest
    <3>3. QED
      BY <2>1, <3>1, <3>2, CallerOwes, RunOwes, QueueOwes DEF Next
  <2>2. QED
    BY <2>1
<1>3. Spec => []TypeInv
  BY InitTyped, NextTyped, PTL DEF Spec
<1>4. Spec => []OwedInv
  BY <1>1, <1>2, <1>3, PTL DEF Spec
<1>5. QED
  BY <1>4, OwedImplies, PTL

-----------------------------------------------------------------------------
(* SUCCESS is true *)

\* A run that is about to record a success has had the receiver's answer.
AnsweredInv ==
    SuccessIsTrue /\ \A r \in Runs : run[r].pc = "record" => answered

LEMMA AnsweredStep ==
    ASSUME TypeInv, AnsweredInv, [Next]_vars
    PROVE  AnsweredInv'
<1>1. /\ run \in [Runs -> RunType] /\ delivery \in DeliveryType
  BY DEF TypeInv, TypeOK
<1>2. ASSUME answered => answered',
             delivery'.status = "SUCCESS" => delivery.status = "SUCCESS" \/ answered,
             \A r \in Runs : run'[r].pc = "record" => run[r].pc = "record" \/ answered'
      PROVE  AnsweredInv'
  BY <1>2 DEF AnsweredInv, SuccessIsTrue
<1>3. ASSUME NEW c \in Callers, CallerStep(c) \/ CallerCrash(c)
      PROVE  AnsweredInv'
  <2>1. answered' = answered
    BY <1>3 DEF CallerStep, Lookup, CreateDelivery, Reset, Add, SendTest, CallerCrash
  <2>2. delivery' = delivery \/ delivery'.status = "PENDING"
    <3>1. CASE CreateDelivery(c)
      BY <3>1 DEF CreateDelivery
    <3>2. CASE Reset(c)
      BY <1>1, <3>2 DEF Reset, DeliveryType
    <3>3. QED
      BY <1>3, <3>1, <3>2 DEF CallerStep, Lookup, Add, SendTest, CallerCrash
  <2>3. \A r \in Runs : run'[r].pc = "record" => run[r].pc = "record"
    <3>1. NewRun(c, 1, FALSE).pc = "find"
      BY DEF NewRun
    <3>2. QED
      BY <1>1, <1>3, <3>1 DEF CallerStep, Lookup, CreateDelivery, Reset, Add, SendTest,
                              CallerCrash
  <2>4. QED
    BY <1>2, <2>1, <2>2, <2>3
<1>4. ASSUME NEW r \in Runs, Work(r)
      PROVE  AnsweredInv'
  <2>1. answered => answered'
    BY <1>4 DEF Work, FindDelivery, SetAttempt, Post, RecordSuccess, MarkFailed
  <2>2. delivery'.status = "SUCCESS" => delivery.status = "SUCCESS" \/ answered
    <3>1. CASE RecordSuccess(r)
      BY <3>1 DEF RecordSuccess, AnsweredInv
    <3>2. CASE ~RecordSuccess(r)
      BY <1>1, <1>4, <3>2 DEF Work, FindDelivery, SetAttempt, Post, MarkFailed, DeliveryType
    <3>3. QED
      BY <3>1, <3>2
  <2>3. ASSUME NEW s \in Runs, run'[s].pc = "record"
        PROVE  run[s].pc = "record" \/ answered'
    <3>1. CASE s # r
      BY <1>4, <2>3, <3>1, WorkMoves DEF TypeInv
    <3>2. CASE s = r
      <4>1. \A pc \in RunPCs \ {"record"} : ~RunGoesTo(r, pc)
        BY <1>1, <2>3, <3>2, RunMoves
      <4>2. ~FailsIn(r)
        BY <4>1, Caught DEF FailsIn, RunPCs
      <4>3. answered'
        BY <1>4, <4>1, <4>2 DEF Work, FindDelivery, SetAttempt, Post, RecordSuccess,
                                MarkFailed, RunPCs
      <4>4. QED
        BY <4>3
    <3>3. QED
      BY <3>1, <3>2
  <2>4. QED
    BY <1>2, <2>1, <2>2, <2>3
<1>5. ASSUME NEW r \in Runs, Return(r) \/ Throw(r) \/ LoseLock(r) \/ Crash(r)
      PROVE  AnsweredInv'
  <2>1. [run[r] EXCEPT !.owns = FALSE].pc = run[r].pc
    BY <1>1 DEF RunType
  <2>2. UNCHANGED <<answered, delivery>>
        /\ \A s \in Runs : run'[s].pc = "record" => run[s].pc = "record"
    BY <1>1, <1>5, <2>1, IdleTyped DEF Return, Throw, LoseLock, Crash
  <2>3. QED
    BY <1>2, <2>2
<1>6. ASSUME NEW r \in Runs, NEW c \in Callers, Pick(r, c)
      PROVE  AnsweredInv'
  <2>1. UNCHANGED <<answered, delivery>>
        /\ \A s \in Runs : run'[s].pc = "record" => run[s].pc = "record"
    BY <1>6, PickMoves
  <2>2. QED
    BY <1>2, <2>1
<1>7. ASSUME NEW c \in Callers, Stall(c)
      PROVE  AnsweredInv'
  BY <1>2, <1>7 DEF Stall
<1>8. CASE DeleteConfig
  BY <1>1, <1>2, <1>8 DEF DeleteConfig, DeliveryType
<1>9. CASE UNCHANGED vars
  BY <1>2, <1>9 DEF vars
<1>10. QED
  BY <1>3, <1>4, <1>5, <1>6, <1>7, <1>8, <1>9 DEF Next, RunStep, Work

\* A row that says SUCCESS was posted and accepted: no error path, redelivery or
\* overlapping run leads to SUCCESS without an answer of the receiver.
THEOREM SuccessProved == Spec => []SuccessIsTrue
<1>1. Init => AnsweredInv
  BY IdleTyped DEF Init, AnsweredInv, SuccessIsTrue
<1>2. Spec => []TypeInv
  BY InitTyped, NextTyped, PTL DEF Spec
<1>3. QED
  BY <1>1, <1>2, AnsweredStep, PTL DEF Spec, AnsweredInv

-----------------------------------------------------------------------------
(* FAILED comes after the last attempt *)

\* A job has failed as often as its attempts say, and a run that has the error in
\* its hands once more than its earlier attempts; the last attempt alone marks the row.
TriesInv ==
    /\ \A c \in Callers : tries[c] >= job[c].attemptsMade
    /\ \A r \in Runs : run[r].pc # "idle" => tries[run[r].job] >= run[r].attempt - 1
    /\ \A r \in Runs :
          /\ run[r].pc \in {"mark", "throw"} => tries[run[r].job] >= run[r].attempt
          /\ run[r].pc = "mark" => run[r].attempt >= Attempts
    /\ FailedIsTried

\* Tries are counted up only, and FAILED is written by markFailed alone.
LEMMA TriesGrow ==
    ASSUME TypeOK, TriesInv,
           tries' \in [Callers -> Nat], \A c \in Callers : tries'[c] >= tries[c],
           delivery'.status = "FAILED" =>
               \/ delivery.status = "FAILED"
               \/ \E c \in Callers : tries'[c] >= Attempts,
           \A c \in Callers : tries'[c] >= job'[c].attemptsMade,
           \A r \in Runs : run'[r] = run[r] \/ run'[r].pc = "idle" \/
               /\ tries'[run'[r].job] >= run'[r].attempt - 1
               /\ run'[r].pc \in {"mark", "throw"} => tries'[run'[r].job] >= run'[r].attempt
               /\ run'[r].pc = "mark" => run'[r].attempt >= Attempts
    PROVE  TriesInv'
<1>1. /\ run \in [Runs -> RunType] /\ tries \in [Callers -> Nat]
      /\ Attempts \in Nat /\ \A r \in Runs : run[r].attempt \in Nat /\ run[r].job \in Callers
  BY WebhookConstants DEF TypeOK, RunType
<1>2. \A r \in Runs : run'[r] = run[r] =>
          /\ run'[r].pc # "idle" => tries'[run'[r].job] >= run'[r].attempt - 1
          /\ run'[r].pc \in {"mark", "throw"} => tries'[run'[r].job] >= run'[r].attempt
          /\ run'[r].pc = "mark" => run'[r].attempt >= Attempts
  BY <1>1 DEF TriesInv
<1>3. FailedIsTried'
  BY <1>1 DEF TriesInv, FailedIsTried
<1>4. QED
  BY <1>2, <1>3 DEF TriesInv

LEMMA TriesStep ==
    ASSUME TypeInv, TypeOK', TriesInv, [Next]_vars
    PROVE  TriesInv'
<1>1. /\ run \in [Runs -> RunType] /\ delivery \in DeliveryType
      /\ job \in [Callers -> JobType] /\ caller \in [Callers -> CallerType]
      /\ tries \in [Callers -> Nat] /\ tries' \in [Callers -> Nat] /\ TypeOK
      /\ Attempts \in Nat
  BY WebhookConstants DEF TypeInv, TypeOK
<1>2. \A r \in Runs : run[r].attempt \in Nat /\ run[r].job \in Callers
  BY <1>1 DEF RunType
<1>3. \A c \in Callers : job[c].attemptsMade \in Nat
  BY <1>1 DEF JobType
<1>4. ASSUME NEW c \in Callers, CallerStep(c) \/ CallerCrash(c)
      PROVE  TriesInv'
  <2>1. tries' = tries
    BY <1>4 DEF CallerStep, Lookup, CreateDelivery, Reset, Add, SendTest, CallerCrash
  <2>2. delivery' = delivery \/ delivery'.status = "PENDING"
    <3>1. CASE CreateDelivery(c)
      BY <3>1 DEF CreateDelivery
    <3>2. CASE Reset(c)
      BY <1>1, <3>2 DEF Reset, DeliveryType
    <3>3. QED
      BY <1>4, <3>1, <3>2 DEF CallerStep, Lookup, Add, SendTest, CallerCrash
  <2>3. \A d \in Callers : job'[d].attemptsMade = job[d].attemptsMade
    <3>1. [job[c] EXCEPT !.state = "waiting"].attemptsMade = job[c].attemptsMade
      BY <1>1 DEF JobType
    <3>2. QED
      BY <1>1, <1>4, <3>1 DEF CallerStep, Lookup, CreateDelivery, Reset, Add, SendTest,
                              CallerCrash
  <2>4. \A r \in Runs :
            run'[r] = run[r] \/ (run'[r].pc = "find" /\ run'[r].attempt = 1 /\ run'[r].job = c)
    <3>1. /\ NewRun(c, 1, FALSE).pc = "find" /\ NewRun(c, 1, FALSE).attempt = 1
          /\ NewRun(c, 1, FALSE).job = c
      BY DEF NewRun
    <3>2. QED
      BY <1>1, <1>4, <3>1 DEF CallerStep, Lookup, CreateDelivery, Reset, Add, SendTest,
                              CallerCrash
  <2>5. \A d \in Callers : tries'[d] >= tries[d] /\ tries'[d] >= job'[d].attemptsMade
    BY <1>1, <1>3, <2>1, <2>3 DEF TriesInv
  <2>6. \A r \in Runs : run'[r] = run[r] \/ run'[r].pc = "idle" \/
            /\ tries'[run'[r].job] >= run'[r].attempt - 1
            /\ run'[r].pc \in {"mark", "throw"} => tries'[run'[r].job] >= run'[r].attempt
            /\ run'[r].pc = "mark" => run'[r].attempt >= Attempts
    BY <1>1, <2>1, <2>4
  <2>7. QED
    BY <1>1, <2>2, <2>5, <2>6, TriesGrow
<1>5. ASSUME NEW r \in Runs, Work(r)
      PROVE  TriesInv'
  <2>1. /\ \A s \in Runs \ {r} : run'[s] = run[s]
        /\ run[r].pc # "idle" /\ run'[r].job = run[r].job
        /\ run'[r].attempt = run[r].attempt /\ job' = job
    BY <1>1, <1>5, WorkMoves
  <2>2. tries' = tries \/ (FailsIn(r) /\ tries' = [tries EXCEPT ![run[r].job] = @ + 1])
    BY <1>5 DEF Work, FindDelivery, SetAttempt, Post, RecordSuccess, MarkFailed, FailsIn
  <2>3. \A c \in Callers : tries'[c] >= tries[c]
    BY <1>1, <1>2, <2>2
  <2>4. /\ tries'[run'[r].job] >= run'[r].attempt - 1
        /\ run'[r].pc \in {"mark", "throw"} => tries'[run'[r].job] >= run'[r].attempt
        /\ run'[r].pc = "mark" => run'[r].attempt >= Attempts
    <3>1. tries[run[r].job] >= run[r].attempt - 1
      BY <2>1 DEF TriesInv
    <3>2. CASE FailsIn(r)
      <4>1. tries'[run[r].job] >= run[r].attempt
        BY <1>1, <1>2, <3>1, <3>2 DEF FailsIn
      <4>2. run'[r].pc = CaughtBy(r)
        <5>1. CaughtBy(r) \in RunPCs
          BY Caught DEF RunPCs
        <5>2. QED
          BY <1>1, <3>2, <5>1, RunMoves DEF FailsIn
      <4>3. CaughtBy(r) = "mark" => run[r].attempt >= Attempts
        BY DEF CaughtBy
      <4>4. QED
        BY <1>1, <1>2, <2>1, <4>1, <4>2, <4>3
    <3>3. CASE MarkFailed(r)
      <4>1. tries[run[r].job] >= run[r].attempt /\ run'[r].pc = "throw" /\ tries' = tries
        <5>1. run'[r].pc = "throw"
          BY <1>1, <3>3, RunMoves DEF MarkFailed, RunPCs
        <5>2. QED
          BY <3>3, <5>1 DEF MarkFailed, TriesInv
      <4>2. QED
        BY <1>1, <1>2, <2>1, <4>1
    <3>4. CASE ~FailsIn(r) /\ ~MarkFailed(r)
      <4>1. \E pc \in {"attempt", "post", "record", "done"} : RunGoesTo(r, pc)
        BY <1>5, <3>4 DEF Work, FindDelivery, SetAttempt, Post, RecordSuccess
      <4>2. run'[r].pc \in {"attempt", "post", "record", "done"}
        BY <1>1, <4>1, RunMoves DEF RunPCs
      <4>3. QED
        BY <2>1, <2>2, <3>1, <3>4, <4>2
    <3>5. QED
      BY <3>2, <3>3, <3>4
  <2>5. delivery'.status = "FAILED" =>
            delivery.status = "FAILED" \/ \E c \in Callers : tries'[c] >= Attempts
    <3>1. CASE MarkFailed(r)
      <4>1. tries'[run[r].job] >= Attempts
        BY <1>1, <1>2, <3>1 DEF MarkFailed, TriesInv
      <4>2. QED
        BY <1>2, <4>1
    <3>2. CASE ~MarkFailed(r)
      BY <1>1, <1>5, <3>2 DEF Work, FindDelivery, SetAttempt, Post, RecordSuccess, DeliveryType
    <3>3. QED
      BY <3>1, <3>2
  <2>6. \A c \in Callers : tries'[c] >= job'[c].attemptsMade
    BY <1>1, <1>3, <2>1, <2>3 DEF TriesInv
  <2>7. QED
    BY <1>1, <2>1, <2>3, <2>4, <2>5, <2>6, TriesGrow
<1>6. ASSUME NEW r \in Runs, Return(r) \/ Throw(r) \/ LoseLock(r) \/ Crash(r)
      PROVE  TriesInv'
  <2>1. UNCHANGED <<tries, delivery>>
    BY <1>6 DEF Return, Throw, LoseLock, Crash
  <2>2. \A s \in Runs : run'[s] = run[s] \/ run'[s].pc = "idle" \/
            /\ run'[s].pc = run[s].pc /\ run[s].pc # "idle" /\ run'[s].job = run[s].job
            /\ run'[s].attempt = run[s].attempt
    <3>1. /\ [run[r] EXCEPT !.owns = FALSE].pc = run[r].pc
          /\ [run[r] EXCEPT !.owns = FALSE].job = run[r].job
          /\ [run[r] EXCEPT !.owns = FALSE].attempt = run[r].attempt
      BY <1>1 DEF RunType
    <3>2. QED
      BY <1>1, <1>6, <3>1, IdleTyped DEF Return, Throw, LoseLock, Crash
  <2>3. \A c \in Callers : tries[c] >= job'[c].attemptsMade
    <3>1. CASE Throw(r) /\ run[r].owns
      <4> DEFINE c == run[r].job
      <4> DEFINE state == IF run[r].attempt < Attempts THEN "waiting" ELSE "failed"
      <4> DEFINE new == [job[c] EXCEPT !.attemptsMade = run[r].attempt, !.state = state]
      <4>1. job[c] \in JobType
        BY <1>1, <1>2
      <4>2. new.attemptsMade = run[r].attempt
        BY <4>1 DEF JobType
      <4>3. job' = [job EXCEPT ![c] = new]
        BY <3>1 DEF Throw
      <4> HIDE DEF new
      <4>4. \A d \in Callers : job'[d] = job[d] \/ (d = c /\ job'[d] = new)
        BY <1>1, <4>3
      <4>5. tries[c] >= run[r].attempt
        BY <3>1 DEF Throw, TriesInv
      <4>6. QED
        BY <4>2, <4>4, <4>5 DEF TriesInv
    <3>2. CASE Return(r) /\ run[r].owns
      <4> DEFINE c == run[r].job
      <4> DEFINE new == [job[c] EXCEPT !.state = "completed"]
      <4>1. job[c] \in JobType
        BY <1>1, <1>2
      <4>2. new.attemptsMade = job[c].attemptsMade
        BY <4>1 DEF JobType
      <4>3. job' = [job EXCEPT ![c] = new]
        BY <3>2 DEF Return
      <4> HIDE DEF new
      <4>4. \A d \in Callers : job'[d] = job[d] \/ (d = c /\ job'[d] = new)
        BY <1>1, <4>3
      <4>5. QED
        BY <4>2, <4>4 DEF TriesInv
    <3>3. CASE job' = job
      BY <3>3 DEF TriesInv
    <3>4. QED
      BY <1>6, <3>1, <3>2, <3>3 DEF Return, Throw, LoseLock, Crash
  <2>4. \A s \in Runs : run'[s] = run[s] \/ run'[s].pc = "idle" \/
            /\ tries'[run'[s].job] >= run'[s].attempt - 1
            /\ run'[s].pc \in {"mark", "throw"} => tries'[run'[s].job] >= run'[s].attempt
            /\ run'[s].pc = "mark" => run'[s].attempt >= Attempts
    BY <2>1, <2>2 DEF TriesInv
  <2>5. QED
    BY <1>1, <2>1, <2>3, <2>4, TriesGrow
<1>7. ASSUME NEW r \in Runs, NEW c \in Callers, Pick(r, c)
      PROVE  TriesInv'
  <2>1. /\ UNCHANGED <<delivery, tries>>
        /\ \A d \in Callers \ {c} : job'[d] = job[d]
        /\ job'[c].attemptsMade = job[c].attemptsMade
        /\ \A s \in Runs \ {r} : run'[s] = run[s]
        /\ run'[r].pc = "find" /\ run'[r].job = c
    BY <1>7, PickMoves
  <2>2. run'[r].attempt = job[c].attemptsMade + 1
    <3>1. NewRun(c, job[c].attemptsMade + 1, TRUE).attempt = job[c].attemptsMade + 1
      BY DEF NewRun
    <3>2. QED
      BY <1>1, <1>7, <3>1 DEF Pick
  <2>3. \A d \in Callers : tries'[d] >= job'[d].attemptsMade
    BY <2>1 DEF TriesInv
  <2>4. tries'[run'[r].job] >= run'[r].attempt - 1
    BY <1>1, <1>3, <2>1, <2>2 DEF TriesInv
  <2>5. QED
    BY <1>1, <2>1, <2>3, <2>4, TriesGrow
<1>8. ASSUME NEW c \in Callers, Stall(c)
      PROVE  TriesInv'
  <2>1. /\ UNCHANGED <<delivery, run, tries>>
        /\ \A d \in Callers \ {c} : job'[d] = job[d]
        /\ job'[c].attemptsMade = job[c].attemptsMade
    BY <1>8, StallMoves
  <2>2. \A d \in Callers : tries'[d] >= job'[d].attemptsMade
    BY <2>1 DEF TriesInv
  <2>3. QED
    BY <1>1, <2>1, <2>2, TriesGrow
<1>9. CASE DeleteConfig
  <2>1. delivery'.status = delivery.status /\ UNCHANGED <<job, run, tries>>
    BY <1>1, <1>9 DEF DeleteConfig, DeliveryType
  <2>2. \A d \in Callers : tries'[d] >= job'[d].attemptsMade
    BY <2>1 DEF TriesInv
  <2>3. QED
    BY <1>1, <2>1, <2>2, TriesGrow
<1>10. CASE UNCHANGED vars
  BY <1>10 DEF vars, TriesInv, FailedIsTried
<1>11. QED
  BY <1>4, <1>5, <1>6, <1>7, <1>8, <1>9, <1>10 DEF Next, RunStep, Work

\* A row that says FAILED had a job that failed in every one of its attempts: an
\* earlier run, one that lost its lock or one of another job never gives it up sooner.
THEOREM FailedTried == Spec => []FailedIsTried
<1>1. Init => TriesInv
  <2>1. ASSUME Init
        PROVE  TriesInv
    <3>1. /\ \A c \in Callers : tries[c] = 0 /\ job[c].attemptsMade = 0
          /\ \A r \in Runs : run[r].pc = "idle"
          /\ delivery.status = "PENDING"
      BY <2>1, IdleTyped DEF Init
    <3>2. QED
      BY <3>1 DEF TriesInv, FailedIsTried
  <2>2. QED
    BY <2>1
<1>2. Spec => [](TypeInv /\ TypeOK)
  BY InitTyped, NextTyped, PTL DEF Spec, TypeInv
<1>3. TriesInv => FailedIsTried
  BY DEF TriesInv
<1>4. QED
  BY <1>1, <1>2, <1>3, TriesStep, PTL DEF Spec
=============================================================================

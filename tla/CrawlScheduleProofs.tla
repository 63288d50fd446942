------------------------ MODULE CrawlScheduleProofs ------------------------
(***************************************************************************)
(* Theorems about CrawlSchedule, for any number of workers, requests and    *)
(* plans: each slot is run once, and by the settings of its day.            *)
(***************************************************************************)
EXTENDS CrawlSchedule, TLAPS

\* The next slot of a plan is a wanted instant after t.
LEMMA NextSlotIsAhead ==
    ASSUME NEW p \in Plans, NEW t \in 0..MaxTime
    PROVE  NextSlot(p, t) \in Slots[p] /\ NextSlot(p, t) \in Nat /\ NextSlot(p, t) > t
<1>1. \E s \in Slots[p] : IsNextSlot(p, t, s)
  BY ScheduleConstants
<1>2. NextSlot(p, t) \in Slots[p] /\ IsNextSlot(p, t, NextSlot(p, t))
  BY <1>1 DEF NextSlot
<1>3. Slots[p] \subseteq Nat
  BY ScheduleConstants
<1>4. QED
  BY <1>2, <1>3 DEF IsNextSlot

-----------------------------------------------------------------------------
(* Type correctness *)

\* A worker that has claimed a slot finds it among the served ones.
TypeInv ==
    /\ TypeOK
    /\ \A w \in Workers : pass[w].pc \in {"create", "add"} => pass[w].slot \in served

LEMMA InitTyped ==
    ASSUME Init
    PROVE  TypeInv
<1>1. PICK a \in BOOLEAN, p \in Plans :
          row = [exists |-> TRUE, isActive |-> a, plan |-> p,
                 nextRunAt |-> IF a THEN NextSlot(p, 0) ELSE Never]
  BY DEF Init
<1>2. NextSlot(p, 0) \in Nat /\ 0 \in 0..MaxTime /\ SomePlan \in Plans
  BY NextSlotIsAhead, ScheduleConstants DEF SomePlan
<1>3. row \in RowType
  BY <1>1, <1>2 DEF RowType, Instants
<1>4. IdlePass \in PassType /\ IdleReq \in ReqType /\ IdlePass.pc = "idle"
  BY <1>2 DEF IdlePass, IdleReq, PassType, ReqType, Instants
<1>5. QED
  BY <1>2, <1>3, <1>4 DEF Init, TypeInv, TypeOK

LEMMA PassTyped ==
    ASSUME TypeInv, NEW w \in Workers, PassStep(w) \/ Skip(w) \/ Crash(w)
    PROVE  TypeInv'
<1>1. /\ pass[w] \in PassType /\ pass \in [Workers -> PassType]
      /\ row \in RowType /\ now \in 0..MaxTime
      /\ served \subseteq Nat /\ queued \subseteq served
  BY DEF TypeInv, TypeOK
<1>2. SomePlan \in Plans
  BY <1>1 DEF SomePlan, RowType
<1>3. IdlePass \in PassType /\ IdlePass.pc = "idle"
  BY <1>1, <1>2, ScheduleConstants DEF IdlePass, PassType, Instants
<1>4. CASE StartPass(w)
  <2>1. [IdlePass EXCEPT !.pc = "find", !.at = now] \in PassType
    BY <1>1, <1>3 DEF PassType
  <2>2. [IdlePass EXCEPT !.pc = "find", !.at = now].pc = "find"
    BY DEF IdlePass
  <2>3. QED
    BY <1>1, <1>4, <2>1, <2>2 DEF StartPass, TypeInv, TypeOK
<1>5. CASE Find(w)
  <2>1. [pass[w] EXCEPT !.pc = "claim", !.plan = row.plan] \in PassType
    BY <1>1 DEF PassType, RowType
  <2>2. [pass[w] EXCEPT !.pc = "claim", !.plan = row.plan].pc = "claim"
    BY <1>1 DEF PassType
  <2>3. pass'[w] \in PassType /\ pass'[w].pc \in {"claim", "idle"}
    BY <1>1, <1>3, <1>5, <2>1, <2>2 DEF Find
  <2>4. pass' \in [Workers -> PassType] /\ \A v \in Workers \ {w} : pass'[v] = pass[v]
    BY <1>1, <1>5, <2>3 DEF Find
  <2>5. QED
    BY <1>5, <2>3, <2>4 DEF Find, TypeInv, TypeOK
<1>6. CASE Skip(w) \/ Crash(w)
  BY <1>1, <1>3, <1>6 DEF Skip, Crash, TypeInv, TypeOK
<1>7. CASE Claim(w)
  <2>1. CASE ~DueAt(pass[w].at)
    BY <1>1, <1>3, <1>7, <2>1 DEF Claim, TypeInv, TypeOK
  <2>2. CASE DueAt(pass[w].at)
    <3>1. row.nextRunAt \in Nat
      BY <1>1, <2>2 DEF DueAt, RowType, Instants
    <3>2. NextSlot(pass[w].plan, pass[w].at) \in Nat
      BY <1>1, NextSlotIsAhead DEF PassType
    <3>3. row' \in RowType
      BY <1>1, <1>7, <2>2, <3>2 DEF Claim, RowType, Instants
    <3>4. Claimed(row.nextRunAt) \in PassType
      BY <1>3, <3>1 DEF Claimed, PassType, Instants
    <3>5. Claimed(row.nextRunAt).slot = row.nextRunAt
      BY DEF Claimed, IdlePass
    <3>6. pass' = [pass EXCEPT ![w] = Claimed(row.nextRunAt)]
      BY <1>7, <2>2 DEF Claim
    <3>7. /\ pass' \in [Workers -> PassType] /\ pass'[w].slot = row.nextRunAt
          /\ \A v \in Workers \ {w} : pass'[v] = pass[v]
      BY <1>1, <3>4, <3>5, <3>6
    <3>8. served' = served \cup {row.nextRunAt}
      BY <1>7, <2>2 DEF Claim
    <3>9. \A v \in Workers : pass'[v].pc \in {"create", "add"} => pass'[v].slot \in served'
      BY <3>7, <3>8 DEF TypeInv
    <3>10. foreign' \in BOOLEAN
      BY <1>7, <2>2 DEF Claim
    <3>11. QED
      BY <1>1, <1>7, <3>1, <3>3, <3>7, <3>8, <3>9, <3>10 DEF Claim, TypeInv, TypeOK
  <2>3. QED
    BY <2>1, <2>2
<1>8. CASE CreateJob(w)
  <2>1. [pass[w] EXCEPT !.pc = "add"] \in PassType
    BY <1>1 DEF PassType
  <2>2. [pass[w] EXCEPT !.pc = "add"].slot = pass[w].slot
    BY <1>1 DEF PassType
  <2>3. pass' = [pass EXCEPT ![w] = IF row.exists THEN [pass[w] EXCEPT !.pc = "add"]
                                                  ELSE IdlePass]
        /\ pass[w].pc = "create"
    BY <1>8 DEF CreateJob
  <2>4. /\ pass' \in [Workers -> PassType]
        /\ \A v \in Workers \ {w} : pass'[v] = pass[v]
        /\ pass'[w].pc = "idle" \/ pass'[w].slot = pass[w].slot
    BY <1>1, <1>3, <2>1, <2>2, <2>3
  <2>5. QED
    BY <1>8, <2>3, <2>4 DEF CreateJob, TypeInv, TypeOK
<1>9. CASE AddJob(w)
  <2>1. queued' \subseteq served
    <3>1. pass[w].slot \in served
      BY <1>9 DEF AddJob, TypeInv
    <3>2. queued' = queued \cup {pass[w].slot} \/ queued' = queued
      BY <1>9 DEF AddJob
    <3>3. QED
      BY <1>1, <3>1, <3>2
  <2>2. QED
    BY <1>1, <1>3, <1>9, <2>1 DEF AddJob, TypeInv, TypeOK
<1>10. QED
  BY <1>4, <1>5, <1>6, <1>7, <1>8, <1>9 DEF PassStep

LEMMA ReqTyped ==
    ASSUME TypeInv, NEW c \in Requests, ReqStep(c)
    PROVE  TypeInv'
<1>1. /\ req[c] \in ReqType /\ req \in [Requests -> ReqType]
      /\ row \in RowType /\ now \in 0..MaxTime
  BY DEF TypeInv, TypeOK
<1>2. ASSUME Answered(c)
      PROVE  req' \in [Requests -> ReqType]
  <2>1. SomePlan \in Plans
    BY <1>1 DEF SomePlan, RowType
  <2>2. [IdleReq EXCEPT !.pc = "done"] \in ReqType
    BY <2>1 DEF IdleReq, ReqType, Instants
  <2>3. QED
    BY <1>1, <1>2, <2>2 DEF Answered
<1>3. ASSUME NEW op \in Ops, Open(c, op)
      PROVE  TypeInv'
  <2>1. PICK a \in BOOLEAN, p \in Plans :
            req' = [req EXCEPT ![c] =
                       [pc |-> IF op = "delete" THEN "write" ELSE "compute",
                        op |-> op, isActive |-> a, plan |-> p, next |-> Never]]
    BY <1>3 DEF Open
  <2>2. req' \in [Requests -> ReqType]
    BY <1>1, <2>1, ScheduleConstants DEF ReqType, Instants
  <2>3. QED
    BY <1>3, <2>2 DEF Open, TypeInv, TypeOK
<1>4. CASE Compute(c)
  <2> DEFINE next == IF req[c].op = "trigger" \/ req[c].isActive
                     THEN NextSlot(req[c].plan, now) ELSE Never
  <2>1. next \in Instants
    BY <1>1, NextSlotIsAhead DEF ReqType, Instants
  <2> HIDE DEF next
  <2>2. [req[c] EXCEPT !.pc = "write", !.next = next] \in ReqType
    BY <1>1, <2>1 DEF ReqType
  <2>3. req' = [req EXCEPT ![c] = [req[c] EXCEPT !.pc = "write", !.next = next]]
    BY <1>4 DEF Compute, next
  <2>4. QED
    BY <1>1, <1>4, <2>2, <2>3 DEF Compute, TypeInv, TypeOK
<1>5. CASE GiveUp(c)
  BY <1>1, <1>2, <1>5 DEF GiveUp, TypeInv, TypeOK
<1>6. WrittenLate(c) \in BOOLEAN
  BY DEF WrittenLate, TypeInv, TypeOK
<1>7. CASE Update(c)
  <2>1. Merged(req[c].plan) \in Plans
    BY <1>1 DEF Merged, Plans, RowType, ReqType
  <2>2. [row EXCEPT !.isActive = req[c].isActive, !.plan = Merged(req[c].plan),
                    !.nextRunAt = req[c].next] \in RowType
    BY <1>1, <2>1 DEF RowType, ReqType
  <2>3. foreign' \in BOOLEAN
    BY <1>1, <1>7 DEF Update, TypeInv, TypeOK, ReqType
  <2>4. QED
    BY <1>1, <1>2, <1>6, <1>7, <2>2, <2>3 DEF Update, TypeInv, TypeOK
<1>8. CASE UpdateNextRun(c)
  <2>1. [row EXCEPT !.nextRunAt = req[c].next] \in RowType
    BY <1>1 DEF RowType, ReqType
  <2>2. foreign' \in BOOLEAN
    BY <1>8 DEF UpdateNextRun, TypeInv, TypeOK
  <2>3. QED
    BY <1>1, <1>2, <1>6, <1>8, <2>1, <2>2 DEF UpdateNextRun, TypeInv, TypeOK
<1>9. CASE Delete(c)
  <2>1. [row EXCEPT !.exists = FALSE] \in RowType
    BY <1>1 DEF RowType
  <2>2. QED
    BY <1>1, <1>2, <1>9, <2>1 DEF Delete, TypeInv, TypeOK
<1>10. QED
  BY <1>3, <1>4, <1>5, <1>7, <1>8, <1>9 DEF ReqStep

LEMMA NextTyped ==
    ASSUME TypeInv, [Next]_vars
    PROVE  TypeInv'
<1>1. CASE TimePasses
  BY <1>1, ScheduleConstants DEF TimePasses, TypeInv, TypeOK
<1>2. CASE UNCHANGED vars
  BY <1>2 DEF vars, TypeInv, TypeOK
<1>3. QED
  BY <1>1, <1>2, PassTyped, ReqTyped DEF Next

\* Rows, passes and requests keep their shapes, no claim takes a run that does
\* not exist, and only claimed slots get jobs from the workers.
THEOREM ScheduleTypeCorrect == Spec => []TypeOK
<1>1. Spec => []TypeInv
  BY InitTyped, NextTyped, PTL DEF Spec
<1>2. QED
  BY <1>1, PTL DEF TypeInv

-----------------------------------------------------------------------------
(* A slot is run once *)

\* What was claimed has passed, and no pass is ahead of the clock.
PastInv ==
    /\ \A s \in served : s <= now
    /\ \A w \in Workers : pass[w].at <= now

\* The strengthening of SlotServedOnce.
OnceInv == SlotServedOnce /\ PastInv

\* A step of one worker leaves the others alone, and the clock.
LEMMA OnePassMoves ==
    ASSUME TypeOK, NEW w \in Workers, PassStep(w) \/ Skip(w) \/ Crash(w)
    PROVE  /\ \A v \in Workers \ {w} : pass'[v] = pass[v]
           /\ pass'[w].at \in {0, now, pass[w].at}
           /\ UNCHANGED <<now, req, late>>
<1>1. pass \in [Workers -> PassType] /\ pass[w] \in PassType
  BY DEF TypeOK
<1>2. IdlePass.at = 0
  BY DEF IdlePass
<1>3. CASE StartPass(w)
  <2>1. [IdlePass EXCEPT !.pc = "find", !.at = now].at = now
    BY DEF IdlePass
  <2>2. QED
    BY <1>1, <1>3, <2>1 DEF StartPass
<1>4. CASE Find(w)
  <2>1. [pass[w] EXCEPT !.pc = "claim", !.plan = row.plan].at = pass[w].at
    BY <1>1 DEF PassType
  <2>2. QED
    BY <1>1, <1>2, <1>4, <2>1 DEF Find
<1>5. CASE Claim(w)
  <2>1. Claimed(row.nextRunAt).at = 0
    BY DEF Claimed, IdlePass
  <2>2. pass' = [pass EXCEPT ![w] = Claimed(row.nextRunAt)]
        \/ pass' = [pass EXCEPT ![w] = IdlePass]
    BY <1>5 DEF Claim
  <2>3. QED
    BY <1>1, <1>2, <1>5, <2>1, <2>2 DEF Claim
<1>6. CASE CreateJob(w)
  <2>1. [pass[w] EXCEPT !.pc = "add"].at = pass[w].at
    BY <1>1 DEF PassType
  <2>2. QED
    BY <1>1, <1>2, <1>6, <2>1 DEF CreateJob
<1>7. CASE AddJob(w) \/ Skip(w) \/ Crash(w)
  BY <1>1, <1>2, <1>7 DEF AddJob, Skip, Crash
<1>8. QED
  BY <1>3, <1>4, <1>5, <1>6, <1>7 DEF PassStep

\* A successful claim moves the next run past the worker's clock.
LEMMA ClaimMovesOn ==
    ASSUME TypeOK, NEW w \in Workers, Claim(w), DueAt(pass[w].at)
    PROVE  /\ row.nextRunAt \in Nat /\ row'.nextRunAt \in Nat
           /\ pass[w].at \in Nat
           /\ row.nextRunAt <= pass[w].at /\ pass[w].at < row'.nextRunAt
           /\ row'.nextRunAt \in Slots[pass[w].plan]
           /\ served' = served \cup {row.nextRunAt}
           /\ row'.plan = row.plan /\ row'.isActive = row.isActive /\ row.isActive
<1>1. row \in RowType /\ pass[w] \in PassType
  BY DEF TypeOK
<1>2. NextSlot(pass[w].plan, pass[w].at) \in Slots[pass[w].plan]
      /\ NextSlot(pass[w].plan, pass[w].at) \in Nat
      /\ NextSlot(pass[w].plan, pass[w].at) > pass[w].at
  BY <1>1, NextSlotIsAhead DEF PassType
<1>3. row'.nextRunAt = NextSlot(pass[w].plan, pass[w].at)
      /\ row'.plan = row.plan /\ row'.isActive = row.isActive
  BY <1>1 DEF Claim, RowType
<1>4. row.nextRunAt \in Nat /\ row.nextRunAt <= pass[w].at /\ row.isActive
  BY <1>1 DEF DueAt, RowType, Instants
<1>5. pass[w].at \in Nat
  BY <1>1, ScheduleConstants DEF PassType
<1>6. QED
  BY <1>2, <1>3, <1>4, <1>5 DEF Claim

\* Unless it claims, a worker touches neither the row nor the served slots.
LEMMA OnlyClaimsWrite ==
    ASSUME NEW w \in Workers, PassStep(w) \/ Skip(w) \/ Crash(w),
           ~(Claim(w) /\ DueAt(pass[w].at))
    PROVE  UNCHANGED <<row, served>>
BY DEF PassStep, StartPass, Find, Claim, CreateJob, AddJob, Skip, Crash

\* What a handler writes for the next run.
LEMMA HandlersWrite ==
    ASSUME TypeOK, NEW c \in Requests, ReqStep(c)
    PROVE  /\ UNCHANGED <<now, pass, served, queued>>
           /\ row'.nextRunAt # row.nextRunAt =>
                  /\ row'.nextRunAt = req[c].next
                  /\ late' = WrittenLate(c)
           /\ ~late' => ~late
<1>1. row \in RowType
  BY DEF TypeOK
<1>2. CASE Update(c)
  BY <1>1, <1>2 DEF Update, RowType, WrittenLate
<1>3. CASE UpdateNextRun(c)
  BY <1>1, <1>3 DEF UpdateNextRun, RowType, WrittenLate
<1>4. CASE Delete(c)
  BY <1>1, <1>4 DEF Delete, RowType
<1>5. CASE (\E op \in Ops : Open(c, op)) \/ Compute(c) \/ GiveUp(c)
  BY <1>5 DEF Open, Compute, GiveUp
<1>6. QED
  BY <1>2, <1>3, <1>4, <1>5 DEF ReqStep

LEMMA OnceStep ==
    ASSUME TypeOK, OnceInv, [Next]_vars
    PROVE  OnceInv'
<1>1. now \in Nat /\ served \subseteq Nat /\ row \in RowType
      /\ pass \in [Workers -> PassType]
  BY ScheduleConstants DEF TypeOK
<1>2. ASSUME NEW w \in Workers, PassStep(w) \/ Skip(w) \/ Crash(w)
      PROVE  OnceInv'
  <2>1. \A v \in Workers : pass'[v].at <= now'
    <3>1. pass[w].at <= now /\ now' = now
      BY <1>2, OnePassMoves DEF OnceInv, PastInv
    <3>2. QED
      BY <1>1, <1>2, <3>1, OnePassMoves DEF OnceInv, PastInv
  <2>2. CASE Claim(w) /\ DueAt(pass[w].at)
    <3>1. pass[w].at <= now /\ now' = now /\ late' = late
      BY <1>2, OnePassMoves DEF OnceInv, PastInv
    <3>2. ASSUME NEW s \in served'
          PROVE  s <= now'
      <4>1. CASE s = row.nextRunAt
        <5>1. s \in Nat /\ pass[w].at \in Nat /\ s <= pass[w].at
          BY <2>2, <4>1, ClaimMovesOn
        <5>2. QED
          BY <1>1, <3>1, <5>1
      <4>2. CASE s \in served
        BY <3>1, <4>2 DEF OnceInv, PastInv
      <4>3. QED
        BY <2>2, <3>2, <4>1, <4>2, ClaimMovesOn
    <3>3. ASSUME ~late, NEW s \in served'
          PROVE  s < row'.nextRunAt
      <4>1. CASE s = row.nextRunAt
        BY <2>2, <4>1, ClaimMovesOn
      <4>2. CASE s \in served
        <5>1. s < row.nextRunAt
          <6>1. row.nextRunAt # Never
            BY <2>2, ClaimMovesOn DEF Never
          <6>2. QED
            BY <3>3, <4>2, <6>1 DEF OnceInv, SlotServedOnce
        <5>2. s \in Nat
          BY <1>1, <4>2
        <5>3. QED
          BY <2>2, <5>1, <5>2, ClaimMovesOn
      <4>3. QED
        BY <2>2, <3>3, <4>1, <4>2, ClaimMovesOn
    <3>4. QED
      BY <2>1, <3>1, <3>2, <3>3 DEF OnceInv, PastInv, SlotServedOnce
  <2>3. CASE ~(Claim(w) /\ DueAt(pass[w].at))
    <3>1. UNCHANGED <<row, served, now, late>>
      BY <1>2, <2>3, OnlyClaimsWrite, OnePassMoves
    <3>2. QED
      BY <2>1, <3>1 DEF OnceInv, PastInv, SlotServedOnce
  <2>4. QED
    BY <2>2, <2>3
<1>3. ASSUME NEW c \in Requests, ReqStep(c)
      PROVE  OnceInv'
  <2>1. /\ UNCHANGED <<now, pass, served>>
        /\ row'.nextRunAt # row.nextRunAt =>
               row'.nextRunAt = req[c].next /\ late' = WrittenLate(c)
        /\ ~late' => ~late
    BY <1>3, HandlersWrite
  <2>2. CASE row'.nextRunAt = row.nextRunAt
    BY <2>1, <2>2 DEF OnceInv, PastInv, SlotServedOnce
  <2>3. CASE row'.nextRunAt # row.nextRunAt
    <3>1. req[c].next \in Instants
      BY DEF TypeOK, ReqType
    <3>2. ASSUME ~late'
          PROVE  req[c].next = Never \/ req[c].next > now
      <4>1. ~(req[c].next # Never /\ req[c].next <= now)
        BY <2>1, <2>3, <3>2 DEF WrittenLate
      <4>2. QED
        BY <1>1, <3>1, <4>1 DEF Instants, Never
    <3>3. \A s \in served : s \in Nat /\ s <= now
      BY <1>1 DEF OnceInv, PastInv
    <3>4. SlotServedOnce'
      <4>1. CASE late'
        BY <4>1 DEF SlotServedOnce
      <4>2. CASE req[c].next = Never
        BY <2>1, <2>3, <4>2 DEF SlotServedOnce
      <4>3. CASE req[c].next # Never /\ req[c].next > now
        <5>1. \A s \in served : s < req[c].next
          BY <1>1, <3>1, <3>3, <4>3 DEF Instants, Never
        <5>2. QED
          BY <2>1, <2>3, <5>1 DEF SlotServedOnce
      <4>4. QED
        BY <3>2, <4>1, <4>2, <4>3
    <3>5. QED
      BY <2>1, <3>4 DEF OnceInv, PastInv
  <2>4. QED
    BY <2>2, <2>3
<1>4. CASE TimePasses
  <2>1. now' = now + 1 /\ UNCHANGED <<row, pass, served, late>>
    BY <1>4 DEF TimePasses
  <2>2. \A w \in Workers : pass[w].at \in Nat
    BY <1>1, ScheduleConstants DEF PassType
  <2>3. PastInv'
    BY <1>1, <2>1, <2>2 DEF OnceInv, PastInv
  <2>4. QED
    BY <2>1, <2>3 DEF OnceInv, SlotServedOnce
<1>5. CASE UNCHANGED vars
  BY <1>5 DEF vars, OnceInv, PastInv, SlotServedOnce
<1>6. QED
  BY <1>2, <1>3, <1>4, <1>5 DEF Next

\* However many workers look for due runs, none claims a slot that was claimed
\* before, as long as no handler stores a next run that has passed meanwhile.
THEOREM SlotOnce == Spec => []SlotServedOnce
<1>1. Init => OnceInv
  BY ScheduleConstants DEF Init, IdlePass, OnceInv, PastInv, SlotServedOnce
<1>2. TypeOK /\ OnceInv /\ [Next]_vars => OnceInv'
  BY OnceStep
<1>3. QED
  BY <1>1, <1>2, ScheduleTypeCorrect, PTL DEF Spec, OnceInv

-----------------------------------------------------------------------------
(* The next run is one of the settings the schedule has *)

\* A claim by settings that are no longer the schedule's finds nothing due.
ClaimsByPlan ==
    \A w \in Workers :
        pass[w].pc = "claim" /\ ~late =>
            \/ pass[w].plan = row.plan
            \/ row.nextRunAt = Never
            \/ row.nextRunAt > pass[w].at

\* A handler is about to write a next run of the settings it has.
WritesByPlan ==
    \A c \in Requests :
        req[c].pc = "write" =>
            /\ req[c].op = "update" =>
                   IF req[c].isActive THEN req[c].next \in Slots[req[c].plan]
                                      ELSE req[c].next = Never
            /\ req[c].op = "trigger" => req[c].next \in Slots[req[c].plan]

\* The strengthening of NextRunFollowsPlan.
PlanInv == NextRunFollowsPlan /\ ClaimsByPlan /\ WritesByPlan

LEMMA PassKeepsPlan ==
    ASSUME TypeOK, OnceInv, PlanInv,
           NEW w \in Workers, PassStep(w) \/ Skip(w) \/ Crash(w)
    PROVE  PlanInv'
<1>1. /\ pass \in [Workers -> PassType] /\ pass[w] \in PassType
      /\ row \in RowType /\ UNCHANGED <<req, late>>
      /\ \A v \in Workers \ {w} : pass'[v] = pass[v]
  BY OnePassMoves DEF TypeOK
<1>2. WritesByPlan'
  BY <1>1 DEF PlanInv, WritesByPlan
<1>3. CASE Claim(w) /\ DueAt(pass[w].at)
  <2>1. /\ row.nextRunAt \in Nat /\ row'.nextRunAt \in Nat /\ pass[w].at \in Nat
        /\ row.nextRunAt <= pass[w].at /\ pass[w].at < row'.nextRunAt
        /\ row'.nextRunAt \in Slots[pass[w].plan]
        /\ row'.plan = row.plan /\ row'.isActive = row.isActive /\ row.isActive
    BY <1>3, ClaimMovesOn
  <2>2. pass[w].pc = "claim" /\ pass'[w].pc = "create"
    <3>1. Claimed(row.nextRunAt).pc = "create"
      BY DEF Claimed, IdlePass
    <3>2. pass' = [pass EXCEPT ![w] = Claimed(row.nextRunAt)]
      BY <1>3 DEF Claim
    <3>3. QED
      BY <1>1, <1>3, <3>1, <3>2 DEF Claim
  <2>3. NextRunFollowsPlan'
    <3>1. ~(row.nextRunAt > pass[w].at) /\ row.nextRunAt # Never
      BY <2>1 DEF Never
    <3>2. ~late => pass[w].plan = row.plan
      BY <2>2, <3>1 DEF PlanInv, ClaimsByPlan
    <3>3. QED
      BY <1>1, <2>1, <3>2 DEF NextRunFollowsPlan
  <2>4. ASSUME NEW v \in Workers, pass'[v].pc = "claim", ~late
        PROVE  pass'[v].plan = row'.plan \/ row'.nextRunAt > pass'[v].at
    <3>1. v # w /\ pass'[v] = pass[v]
      BY <1>1, <2>2, <2>4
    <3>2. pass[v].plan = row.plan \/ row.nextRunAt > pass[v].at
      <4>1. row.nextRunAt # Never
        BY <2>1 DEF Never
      <4>2. QED
        BY <2>4, <3>1, <4>1 DEF PlanInv, ClaimsByPlan
    <3>3. pass[v].at \in Nat
      BY <1>1, ScheduleConstants DEF PassType
    <3>4. row.nextRunAt > pass[v].at => row'.nextRunAt > pass[v].at
      BY <2>1, <3>3
    <3>5. QED
      BY <2>1, <3>1, <3>2, <3>4
  <2>5. QED
    BY <1>1, <1>2, <2>3, <2>4 DEF PlanInv, ClaimsByPlan
<1>4. CASE ~(Claim(w) /\ DueAt(pass[w].at))
  <2>1. row' = row
    BY <1>4, OnlyClaimsWrite
  <2>2. pass'[w].pc = "claim" => pass'[w].plan = row.plan
    <3>1. [pass[w] EXCEPT !.pc = "claim", !.plan = row.plan].plan = row.plan
      BY <1>1 DEF PassType
    <3>2. [IdlePass EXCEPT !.pc = "find", !.at = now].pc = "find" /\ IdlePass.pc = "idle"
      BY DEF IdlePass
    <3>3. [pass[w] EXCEPT !.pc = "add"].pc = "add"
      BY <1>1 DEF PassType
    <3>4. CASE StartPass(w)
      BY <1>1, <3>2, <3>4 DEF StartPass
    <3>5. CASE Find(w)
      BY <1>1, <3>1, <3>2, <3>5 DEF Find
    <3>6. CASE CreateJob(w)
      BY <1>1, <3>2, <3>3, <3>6 DEF CreateJob
    <3>7. CASE AddJob(w) \/ Skip(w) \/ Crash(w) \/ (Claim(w) /\ ~DueAt(pass[w].at))
      BY <1>1, <3>2, <3>7 DEF AddJob, Skip, Crash, Claim
    <3>8. QED
      BY <1>4, <3>4, <3>5, <3>6, <3>7 DEF PassStep
  <2>3. foreign' = foreign
    BY <1>4 DEF PassStep, StartPass, Find, Claim, CreateJob, AddJob, Skip, Crash
  <2>4. QED
    BY <1>1, <1>2, <2>1, <2>2, <2>3 DEF PlanInv, NextRunFollowsPlan, ClaimsByPlan
<1>5. QED
  BY <1>3, <1>4

LEMMA RequestKeepsPlan ==
    ASSUME TypeOK, OnceInv, PlanInv, NEW c \in Requests, ReqStep(c)
    PROVE  PlanInv'
<1>1. /\ req \in [Requests -> ReqType] /\ req[c] \in ReqType
      /\ row \in RowType /\ now \in Nat /\ now \in 0..MaxTime
      /\ UNCHANGED <<now, pass>>
      /\ \A w \in Workers : pass[w].at \in Nat /\ pass[w].at <= now
  BY HandlersWrite, ScheduleConstants DEF TypeOK, PassType, OnceInv, PastInv
<1>2. [IdleReq EXCEPT !.pc = "done"].pc = "done"
  BY DEF IdleReq
<1>3. WritesByPlan'
  <2>1. ASSUME NEW op \in Ops, Open(c, op)
        PROVE  WritesByPlan'
    <3>1. PICK a \in BOOLEAN, p \in Plans :
              req' = [req EXCEPT ![c] =
                         [pc |-> IF op = "delete" THEN "write" ELSE "compute",
                          op |-> op, isActive |-> a, plan |-> p, next |-> Never]]
      BY <2>1 DEF Open
    <3>2. /\ \A d \in Requests \ {c} : req'[d] = req[d]
          /\ req'[c].pc = "write" => req'[c].op = "delete"
      BY <1>1, <3>1
    <3>3. QED
      BY <3>2 DEF PlanInv, WritesByPlan
  <2>2. CASE Compute(c)
    <3> DEFINE next == IF req[c].op = "trigger" \/ req[c].isActive
                       THEN NextSlot(req[c].plan, now) ELSE Never
    <3>1. /\ next \in Slots[req[c].plan] \/ ~(req[c].op = "trigger" \/ req[c].isActive)
          /\ ~(req[c].op = "trigger" \/ req[c].isActive) => next = Never
      BY <1>1, NextSlotIsAhead DEF ReqType
    <3>2. req' = [req EXCEPT ![c] = [req[c] EXCEPT !.pc = "write", !.next = next]]
      BY <2>2 DEF Compute
    <3> HIDE DEF next
    <3> DEFINE new == [req[c] EXCEPT !.pc = "write", !.next = next]
    <3>3. /\ new.op = req[c].op /\ new.next = next
          /\ new.isActive = req[c].isActive /\ new.plan = req[c].plan
      BY <1>1 DEF ReqType
    <3>4. req'[c] = new /\ \A d \in Requests \ {c} : req'[d] = req[d]
      BY <1>1, <3>2
    <3> HIDE DEF new
    <3>5. ASSUME NEW d \in Requests, req'[d].pc = "write"
          PROVE  /\ req'[d].op = "update" =>
                        IF req'[d].isActive THEN req'[d].next \in Slots[req'[d].plan]
                                            ELSE req'[d].next = Never
                 /\ req'[d].op = "trigger" => req'[d].next \in Slots[req'[d].plan]
      <4>1. CASE d = c
        BY <3>1, <3>3, <3>4, <4>1
      <4>2. CASE d # c
        BY <3>4, <3>5, <4>2 DEF PlanInv, WritesByPlan
      <4>3. QED
        BY <4>1, <4>2
    <3>6. QED
      BY <3>5 DEF WritesByPlan
  <2>3. CASE Answered(c)
    BY <1>1, <1>2, <2>3 DEF Answered, PlanInv, WritesByPlan
  <2>4. QED
    BY <2>1, <2>2, <2>3 DEF ReqStep, GiveUp, Update, UpdateNextRun, Delete
<1>4. ASSUME row'.nextRunAt = req[c].next, late' = WrittenLate(c), ~late'
      PROVE  row'.nextRunAt = Never \/ \A w \in Workers : row'.nextRunAt > pass[w].at
  <2>1. ~(req[c].next # Never /\ req[c].next <= now)
    BY <1>4 DEF WrittenLate
  <2>2. req[c].next \in Instants
    BY <1>1 DEF ReqType
  <2>3. QED
    BY <1>1, <1>4, <2>1, <2>2 DEF Instants, Never
<1>5. CASE Update(c) /\ row.exists
  <2>1. /\ row'.nextRunAt = req[c].next /\ late' = WrittenLate(c)
        /\ row'.isActive = req[c].isActive
        /\ req[c].isActive /\ ~foreign' => row'.plan = req[c].plan
        /\ req[c].pc = "write" /\ req[c].op = "update"
    BY <1>1, <1>5 DEF Update, RowType
  <2>2. NextRunFollowsPlan'
    BY <2>1 DEF PlanInv, WritesByPlan, NextRunFollowsPlan
  <2>3. ClaimsByPlan'
    BY <1>1, <1>4, <2>1 DEF ClaimsByPlan
  <2>4. QED
    BY <1>3, <2>2, <2>3 DEF PlanInv
<1>6. CASE UpdateNextRun(c) /\ row.exists
  <2>1. /\ row'.nextRunAt = req[c].next /\ late' = WrittenLate(c)
        /\ row'.isActive = row.isActive /\ row'.plan = row.plan
        /\ req[c].pc = "write" /\ req[c].op = "trigger"
        /\ foreign' = (row.plan # req[c].plan \/ ~row.isActive)
    BY <1>1, <1>6 DEF UpdateNextRun, RowType
  <2>2. NextRunFollowsPlan'
    BY <2>1 DEF PlanInv, WritesByPlan, NextRunFollowsPlan
  <2>3. ClaimsByPlan'
    BY <1>1, <1>4, <2>1 DEF ClaimsByPlan
  <2>4. QED
    BY <1>3, <2>2, <2>3 DEF PlanInv
<1>7. CASE /\ row'.nextRunAt = row.nextRunAt
           /\ row'.isActive = row.isActive /\ row'.plan = row.plan
           /\ (late => late') /\ (foreign => foreign')
  <2>1. NextRunFollowsPlan'
    BY <1>7 DEF PlanInv, NextRunFollowsPlan
  <2>2. ASSUME NEW w \in Workers, pass'[w].pc = "claim", ~late'
        PROVE  \/ pass'[w].plan = row'.plan
               \/ row'.nextRunAt = Never
               \/ row'.nextRunAt > pass'[w].at
    <3>1. pass[w].pc = "claim" /\ ~late
      BY <1>1, <1>7, <2>2
    <3>2. \/ pass[w].plan = row.plan
          \/ row.nextRunAt = Never
          \/ row.nextRunAt > pass[w].at
      BY <3>1 DEF PlanInv, ClaimsByPlan
    <3>3. pass'[w] = pass[w]
      BY <1>1
    <3>4. QED
      BY <1>7, <3>2, <3>3
  <2>3. QED
    BY <1>3, <2>1, <2>2 DEF PlanInv, ClaimsByPlan
<1>8. CASE UNCHANGED row
  <2>1. late => late'
    BY <1>8 DEF ReqStep, Open, Compute, GiveUp, Update, UpdateNextRun, Delete,
                WrittenLate
  <2>2. ~(Update(c) /\ row.exists) /\ ~(UpdateNextRun(c) /\ row.exists) => foreign' = foreign
    BY DEF ReqStep, Open, Compute, GiveUp, Update, UpdateNextRun, Delete
  <2>3. QED
    BY <1>5, <1>6, <1>7, <1>8, <2>1, <2>2
<1>9. CASE Delete(c)
  BY <1>1, <1>7, <1>9 DEF Delete, RowType
<1>10. QED
  BY <1>5, <1>6, <1>8, <1>9
     DEF ReqStep, Open, Compute, GiveUp, Update, UpdateNextRun

\* A schedule that is switched on has its next run at an instant its settings
\* name, and one that is switched off has none, whatever the workers and the
\* handlers do; but for late writes, and for the writes of a trigger or of an
\* update by settings that are not the row's, until a worker claims the run or
\* another update writes it.
THEOREM PlanFollowed == Spec => []NextRunFollowsPlan
<1>1. Init => OnceInv /\ PlanInv
  <2>1. ASSUME Init
        PROVE  PlanInv
    <3>1. PICK a \in BOOLEAN, p \in Plans :
              row = [exists |-> TRUE, isActive |-> a, plan |-> p,
                     nextRunAt |-> IF a THEN NextSlot(p, 0) ELSE Never]
      BY <2>1 DEF Init
    <3>2. NextSlot(p, 0) \in Slots[p]
      BY NextSlotIsAhead, ScheduleConstants
    <3>3. NextRunFollowsPlan
      BY <3>1, <3>2 DEF NextRunFollowsPlan
    <3>4. \A w \in Workers : pass[w].pc = "idle"
      BY <2>1 DEF Init, IdlePass
    <3>5. \A c \in Requests : req[c].pc = "idle"
      BY <2>1 DEF Init, IdleReq
    <3>6. QED
      BY <3>3, <3>4, <3>5 DEF PlanInv, ClaimsByPlan, WritesByPlan
  <2>2. Init => OnceInv
    BY ScheduleConstants DEF Init, IdlePass, OnceInv, PastInv, SlotServedOnce
  <2>3. QED
    BY <2>1, <2>2
<1>2. TypeOK /\ OnceInv /\ PlanInv /\ [Next]_vars => OnceInv' /\ PlanInv'
  <2>1. ASSUME TypeOK, OnceInv, PlanInv, [Next]_vars
        PROVE  PlanInv'
    <3>1. CASE TimePasses \/ UNCHANGED vars
      <4>1. UNCHANGED <<row, pass, req, late, foreign>>
        BY <3>1 DEF TimePasses, vars
      <4>2. QED
        BY <2>1, <4>1 DEF PlanInv, NextRunFollowsPlan, ClaimsByPlan, WritesByPlan
    <3>2. QED
      BY <2>1, <3>1, PassKeepsPlan, RequestKeepsPlan DEF Next
  <2>2. QED
    BY <2>1, OnceStep
<1>3. QED
  BY <1>1, <1>2, ScheduleTypeCorrect, PTL DEF Spec, PlanInv
=============================================================================

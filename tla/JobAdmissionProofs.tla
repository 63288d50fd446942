------------------------- MODULE JobAdmissionProofs -------------------------
(***************************************************************************)
(* Theorems about JobAdmission, for any number of requests and processes    *)
(* and any quota: who may be inside, and how many jobs that can cost.       *)
(***************************************************************************)
EXTENDS JobAdmission, FiniteSetTheorems, TLAPS

-----------------------------------------------------------------------------
(* Type correctness *)

\* Half of a time is a time, so a start of day is.
LEMMA HalfDays ==
    ASSUME NEW t \in Nat
    PROVE  /\ 2 * (t \div 2) \in Nat
           /\ t > 0 => 2 * ((t + 1) \div 2) - 1 \in Nat
BY SMTT(30)

\* The lock operations keep the lock's shape.
LEMMA LockTyped ==
    ASSUME NEW l \in LockType, NEW r \in Requests, NEW p \in Procs
    PROVE  /\ SetNX(l, r) \in LockType
           /\ SetLocal(l, p, r) \in LockType
           /\ DelIfOwner(l, r) \in LockType
           /\ DelLocal(l, p, r) \in LockType
           /\ Expired(l) \in LockType
           /\ ProcGone(l, p) \in LockType
BY DEF LockType, Slot, SetNX, SetLocal, DelIfOwner, DelLocal, Expired, ProcGone

LEMMA InitTyped == Init => TypeOK
<1>1. IdleRequest \in ReqType
  BY AdmissionConstants DEF IdleRequest, ReqType, ReqPCs
<1>2. NoJob \in JobType
  BY DEF NoJob, JobType
<1>3. FreeLock \in LockType
  BY DEF FreeLock, LockType, Slot
<1>4. QED
  BY <1>1, <1>2, <1>3, AdmissionConstants DEF Init, TypeOK

LEMMA GotoTyped ==
    ASSUME TypeOK, NEW r \in Requests, NEW pc \in ReqPCs, Goto(r, pc)
    PROVE  req' \in [Requests -> ReqType]
<1>1. [req[r] EXCEPT !.pc = pc] \in ReqType
  BY DEF TypeOK, ReqType
<1>2. QED
  BY <1>1 DEF TypeOK, Goto

LEMMA LeaveTyped ==
    ASSUME TypeOK, NEW r \in Requests, Leave(r)
    PROVE  req' \in [Requests -> ReqType]
BY GotoTyped DEF Leave, ReqPCs

\* A count over the jobs is a natural number.
LEMMA CountsTyped ==
    ASSUME NEW S \in SUBSET Requests
    PROVE  IsFiniteSet(S) /\ Cardinality(S) \in Nat
BY AdmissionConstants, FS_Subset, FS_CardinalityType

LEMMA RequestStepTyped ==
    ASSUME TypeOK, NEW r \in Requests, RequestStep(r)
    PROVE  TypeOK'
<1>1. lock \in LockType /\ req[r].home \in Procs /\ req[r] \in ReqType
  BY DEF TypeOK, ReqType
<1>2. CASE Acquire(r)
  <2>1. lock' \in LockType
    BY <1>1, <1>2, LockTyped DEF Acquire
  <2>2. req' \in [Requests -> ReqType]
    BY <1>2, GotoTyped DEF Acquire, ReqPCs
  <2>3. exposed' \subseteq Requests
    BY <1>2 DEF Acquire, TypeOK
  <2>4. QED
    BY <1>2, <2>1, <2>2, <2>3 DEF Acquire, TypeOK
<1>3. CASE CountTotal(r)
  <2>1. StartOfDay(req[r].kind) \in Nat
    <3>1. time \in Nat
      BY AdmissionConstants DEF TypeOK
    <3>2. QED
      BY <3>1, HalfDays DEF StartOfDay
  <2>2. Cardinality(CreatedSince(StartOfDay(req[r].kind))) \in Nat
    BY CountsTyped DEF CreatedSince
  <2> DEFINE since == StartOfDay(req[r].kind)
             n == Cardinality(CreatedSince(since))
  <2> HIDE DEF since, n
  <2>3. [req[r] EXCEPT !.pc = "waived", !.since = since, !.total = n] \in ReqType
    BY <1>1, <2>1, <2>2 DEF ReqType, ReqPCs, since, n
  <2>4. req' = [req EXCEPT ![r] =
                  [req[r] EXCEPT !.pc = "waived", !.since = since, !.total = n]]
    BY <1>3 DEF CountTotal, since, n
  <2>5. QED
    BY <1>3, <2>3, <2>4 DEF CountTotal, TypeOK
<1>4. CASE SkipQuota(r) \/ CountWaived(r)
  BY <1>4, GotoTyped, LeaveTyped DEF SkipQuota, CountWaived, TypeOK, ReqPCs
<1>5. CASE CountConcurrent(r)
  BY <1>5, GotoTyped, LeaveTyped DEF CountConcurrent, TypeOK, ReqPCs
<1>6. CASE Create(r)
  <2>1. [state |-> "active", at |-> time, recent |-> TRUE, deleted |-> FALSE]
            \in JobType
    BY AdmissionConstants DEF TypeOK, JobType
  <2>2. job' \in [Requests -> JobType]
    BY <1>6, <2>1 DEF Create, TypeOK
  <2>3. QED
    BY <1>6, <2>2, LeaveTyped DEF Create, TypeOK
<1>7. CASE Release(r)
  <2>1. lock' \in LockType
    BY <1>1, <1>7, LockTyped DEF Release
  <2>2. QED
    BY <1>7, <2>1, GotoTyped DEF Release, TypeOK, ReqPCs
<1>8. QED
  BY <1>2, <1>3, <1>4, <1>5, <1>6, <1>7 DEF RequestStep

LEMMA JobStepTyped ==
    ASSUME TypeOK, NEW q \in Requests, JobStep(q)
    PROVE  TypeOK'
<1>1. job[q] \in JobType
  BY DEF TypeOK
<1>2. /\ \A s \in {"active", "ended", "waived"} :
             [job[q] EXCEPT !.state = s] \in JobType
      /\ [job[q] EXCEPT !.recent = FALSE] \in JobType
      /\ [job[q] EXCEPT !.deleted = TRUE] \in JobType
  BY <1>1 DEF JobType
<1>3. job' \in [Requests -> JobType]
  BY <1>2 DEF JobStep, JobEnds, JobRestarts, JobAges, JobDeleted, TypeOK
<1>4. QED
  BY <1>3 DEF JobStep, JobEnds, JobRestarts, JobAges, JobDeleted, TypeOK

LEMMA OtherStepTyped ==
    ASSUME TypeOK,
           \/ \E r \in Requests, kind \in Kinds, p \in Procs : Begin(r, kind, p)
           \/ Expire \/ TimePasses
           \/ \E p \in Procs : ExpireLocal(p) \/ Crash(p)
    PROVE  TypeOK'
<1>1. ASSUME NEW r \in Requests, NEW kind \in Kinds, NEW p \in Procs,
             Begin(r, kind, p)
      PROVE  TypeOK'
  <2>1. [pc |-> IF kind = "tick" THEN "total" ELSE "lock", kind |-> kind,
         home |-> p, since |-> 0, total |-> 0] \in ReqType
    BY AdmissionConstants DEF ReqType, ReqPCs
  <2>2. QED
    BY <1>1, <2>1 DEF Begin, TypeOK
<1>2. CASE Expire
  <2>1. lock.redis \in Requests
    BY <1>2 DEF Expire, TypeOK, LockType, Slot
  <2>2. lock' \in LockType
    BY <1>2, <2>1, AdmissionConstants DEF Expire, Expired, TypeOK, LockType, Slot
  <2>3. QED
    BY <1>2, <2>1, <2>2 DEF Expire, TypeOK
<1>3. CASE TimePasses
  BY <1>3, AdmissionConstants DEF TimePasses, TypeOK
<1>4. ASSUME NEW p \in Procs
      PROVE  ProcGone(lock, p) \in LockType
  BY DEF TypeOK, ProcGone, LockType, Slot
<1>5. ASSUME NEW p \in Procs, ExpireLocal(p)
      PROVE  TypeOK'
  BY <1>4, <1>5 DEF ExpireLocal, TypeOK
<1>6. ASSUME NEW p \in Procs, Crash(p)
      PROVE  TypeOK'
  <2>1. \A r \in Requests : [req[r] EXCEPT !.pc = "dead"] \in ReqType
    BY DEF TypeOK, ReqType, ReqPCs
  <2>2. req' \in [Requests -> ReqType]
    BY <1>6, <2>1 DEF Crash, TypeOK
  <2>3. QED
    BY <1>4, <1>6, <2>2 DEF Crash, TypeOK
<1>7. QED
  BY <1>1, <1>2, <1>3, <1>5, <1>6

\* Whatever overlaps, expires or crashes, the lock, the requests and the jobs
\* keep their shapes; no start of day is negative.
THEOREM AdmissionTypeCorrect == Spec => []TypeOK
<1>1. TypeOK /\ [Next]_vars => TypeOK'
  <2>1. CASE UNCHANGED vars
    BY <2>1 DEF vars, TypeOK
  <2>2. QED
    BY <2>1, RequestStepTyped, JobStepTyped, OtherStepTyped DEF Next
<1>2. QED
  BY <1>1, InitTyped, PTL DEF Spec

-----------------------------------------------------------------------------
(* The lock *)

\* The strengthening of OwnersKeepTheirKey: a tick is exposed from the start,
\* so that whoever creates a job unexposed is inside.
KeyInv ==
    /\ OwnersKeepTheirKey
    /\ \A r \in Requests : req[r].pc # "idle" /\ ~Locked(r) => r \in exposed

\* Two requests that are inside and not exposed are the same.
LEMMA OneUnexposed ==
    ASSUME KeyInv, NEW r \in Requests, NEW q \in Requests,
           Inside(r), Inside(q), r \notin exposed, q \notin exposed
    PROVE  r = q
BY DEF KeyInv, OwnersKeepTheirKey

\* A step of request r is seen by the others only in the lock.
LEMMA OnlyOneMoves ==
    ASSUME TypeOK, NEW r \in Requests, RequestStep(r)
    PROVE  /\ \A q \in Requests \ {r} : req'[q] = req[q]
           /\ req'[r].kind = req[r].kind
           /\ req[r].pc # "idle" /\ req'[r].pc # "idle"
           /\ exposed' \in {exposed, exposed \cup {r}}
<1>1. req \in [Requests -> ReqType] /\ req[r] \in ReqType
  BY DEF TypeOK
<1>2. ASSUME NEW pc \in ReqPCs \ {"idle"}, req[r].pc # "idle", Goto(r, pc)
      PROVE  /\ \A q \in Requests \ {r} : req'[q] = req[q]
             /\ req'[r].kind = req[r].kind
             /\ req[r].pc # "idle" /\ req'[r].pc # "idle"
  <2>1. /\ [req[r] EXCEPT !.pc = pc].kind = req[r].kind
        /\ [req[r] EXCEPT !.pc = pc].pc = pc
    BY <1>1 DEF ReqType
  <2>2. QED
    BY <1>1, <1>2, <2>1 DEF Goto
<1>3. CASE Acquire(r)
  BY <1>2, <1>3 DEF Acquire, ReqPCs
<1>4. CASE CountTotal(r)
  <2> DEFINE since == StartOfDay(req[r].kind)
             n == Cardinality(CreatedSince(since))
             moved == [req[r] EXCEPT !.pc = "waived", !.since = since, !.total = n]
  <2> HIDE DEF since, n
  <2>1. moved.kind = req[r].kind /\ moved.pc = "waived"
    BY <1>1 DEF ReqType
  <2> HIDE DEF moved
  <2>2. req' = [req EXCEPT ![r] = moved] /\ req[r].pc = "total" /\ exposed' = exposed
    BY <1>4 DEF CountTotal, since, n, moved
  <2>3. QED
    BY <1>1, <2>1, <2>2
<1>5. CASE SkipQuota(r) \/ CountWaived(r) \/ CountConcurrent(r)
  BY <1>2, <1>5 DEF SkipQuota, CountWaived, CountConcurrent, Leave, ReqPCs
<1>6. CASE Create(r) \/ Release(r)
  BY <1>2, <1>6 DEF Create, Release, Leave, ReqPCs
<1>7. QED
  BY <1>3, <1>4, <1>5, <1>6 DEF RequestStep

LEMMA RequestStepKey ==
    ASSUME TypeOK, KeyInv, NEW r \in Requests, RequestStep(r)
    PROVE  KeyInv'
<1>1. \A q \in Requests : req'[q].pc # "idle" /\ ~Locked(q)' => q \in exposed'
  BY OnlyOneMoves DEF KeyInv, Locked
<1>2. \A q \in Requests \ {r} : Inside(q)' = Inside(q)
  BY OnlyOneMoves DEF Inside, Locked
<1>3. \A q \in Requests : q \notin exposed' => q \notin exposed
  BY OnlyOneMoves
<1>4. lock \in LockType /\ req[r] \in ReqType
  BY DEF TypeOK
<1>5. CASE Acquire(r)
  <2>1. /\ SetNX(lock, r).redis = IF lock.redis = NoToken THEN r ELSE lock.redis
        /\ \A l \in LockType, p \in Procs : SetLocal(l, p, r).redis = l.redis
        /\ SetNX(lock, r) \in LockType
    BY <1>4 DEF SetNX, SetLocal, LockType, Slot
  <2>2. lock'.redis \in {lock.redis, SetNX(lock, r).redis}
    BY <1>4, <1>5, <2>1 DEF Acquire, ReqType
  <2>3. Inside(r)' /\ r \notin exposed' => lock'.redis = r
    BY <1>4, <1>5 DEF Acquire, Goto, Inside, TypeOK, ReqType
  <2>4. \A q \in Requests : lock.redis = q => lock'.redis = q
    BY <2>1, <2>2, AdmissionConstants
  <2>5. QED
    BY <1>1, <1>2, <1>3, <2>3, <2>4 DEF KeyInv, OwnersKeepTheirKey
<1>6. CASE Release(r)
  <2>1. ~Inside(r)'
    BY <1>4, <1>6 DEF Release, Goto, Inside, TypeOK, ReqType
  <2>2. \A q \in Requests \ {r} : lock.redis = q => lock'.redis = q
    BY <1>4, <1>6 DEF Release, DelLocal, DelIfOwner, LockType
  <2>3. QED
    BY <1>1, <1>2, <1>3, <2>1, <2>2 DEF KeyInv, OwnersKeepTheirKey
<1>7. CASE SkipQuota(r)
  BY <1>1, <1>2, <1>3, <1>7 DEF SkipQuota, KeyInv, OwnersKeepTheirKey
<1>8. CASE CountTotal(r) \/ CountWaived(r) \/ CountConcurrent(r) \/ Create(r)
  <2>1. UNCHANGED lock
    BY <1>8 DEF CountTotal, CountWaived, CountConcurrent, Create
  <2>2. Inside(r)' => Inside(r)
    BY <1>4, <1>8, OnlyOneMoves
       DEF CountTotal, CountWaived, CountConcurrent, Create, Inside, Locked
  <2>3. QED
    BY <1>1, <1>2, <1>3, <2>1, <2>2 DEF KeyInv, OwnersKeepTheirKey
<1>9. QED
  BY <1>5, <1>6, <1>7, <1>8 DEF RequestStep

LEMMA KeyStep ==
    ASSUME TypeOK, KeyInv, [Next]_vars
    PROVE  KeyInv'
<1>1. ASSUME NEW r \in Requests, NEW kind \in Kinds, NEW p \in Procs,
             Begin(r, kind, p)
      PROVE  KeyInv'
  <2>1. ~Inside(r)' \/ r \in exposed'
    BY <1>1 DEF Begin, TypeOK, Inside, Locked
  <2>2. \A q \in Requests \ {r} : req'[q] = req[q]
    BY <1>1 DEF Begin, TypeOK
  <2>3. req'[r].kind = "tick" => r \in exposed'
    BY <1>1 DEF Begin, TypeOK
  <2>4. UNCHANGED lock /\ exposed \subseteq exposed'
    BY <1>1 DEF Begin
  <2>5. QED
    BY <2>1, <2>2, <2>3, <2>4 DEF KeyInv, OwnersKeepTheirKey, Inside, Locked
<1>2. CASE Expire
  <2>1. exposed \subseteq exposed' /\ UNCHANGED req
        /\ (Inside(lock.redis) => lock.redis \in exposed')
    BY <1>2 DEF Expire
  <2>2. QED
    BY <2>1 DEF KeyInv, OwnersKeepTheirKey, Inside, Locked
<1>3. ASSUME NEW p \in Procs
      PROVE  ProcGone(lock, p).redis = lock.redis
  BY DEF ProcGone, TypeOK, LockType
<1>4. ASSUME NEW p \in Procs, ExpireLocal(p)
      PROVE  KeyInv'
  BY <1>3, <1>4 DEF ExpireLocal, KeyInv, OwnersKeepTheirKey, Inside, Locked
<1>5. ASSUME NEW p \in Procs, Crash(p)
      PROVE  KeyInv'
  <2>1. \A q \in Requests : /\ req'[q].pc \in {req[q].pc, "dead"}
                            /\ req'[q].kind = req[q].kind
                            /\ req'[q].pc # "idle" => req[q].pc # "idle"
    BY <1>5 DEF Crash, TypeOK, ReqType
  <2>2. UNCHANGED exposed /\ lock'.redis = lock.redis
    BY <1>3, <1>5 DEF Crash
  <2>3. QED
    BY <2>1, <2>2 DEF KeyInv, OwnersKeepTheirKey, Inside, Locked
<1>6. ASSUME NEW q \in Requests, JobStep(q)
      PROVE  KeyInv'
  <2>1. UNCHANGED <<lock, req>> /\ exposed \subseteq exposed'
    BY <1>6 DEF JobStep, JobEnds, JobRestarts, JobAges, JobDeleted
  <2>2. QED
    BY <2>1 DEF KeyInv, OwnersKeepTheirKey, Inside, Locked
<1>7. CASE TimePasses \/ UNCHANGED vars
  BY <1>7 DEF TimePasses, vars, KeyInv, OwnersKeepTheirKey, Inside, Locked
<1>8. QED
  BY <1>1, <1>2, <1>4, <1>5, <1>6, <1>7, RequestStepKey DEF Next

\* A request loses the user's quota lock only to its time to live: no release
\* of another request, whether late, repeated or after a crash, frees its key.
THEOREM KeyKept == Spec => []OwnersKeepTheirKey
<1>1. Init => KeyInv
  BY DEF Init, IdleRequest, KeyInv, OwnersKeepTheirKey, Inside, Locked
<1>2. TypeOK /\ KeyInv /\ [Next]_vars => KeyInv'
  BY KeyStep
<1>3. QED
  BY <1>1, <1>2, AdmissionTypeCorrect, PTL DEF Spec, KeyInv

-----------------------------------------------------------------------------
(* The concurrency quota *)

\* The strengthening of ProtectedWithinQuota: between its count and its insert
\* an unexposed request still finds the slot that it counted.
QuotaInv ==
    /\ ProtectedWithinQuota
    /\ \A r \in Requests :
           req[r].pc = "create" /\ r \notin exposed =>
               Cardinality(Counted \ exposed) < MaxConcurrent

\* A step that adds no unexposed job, and that brings no unexposed request to
\* its insert, keeps the quota.
LEMMA Fewer ==
    ASSUME QuotaInv,
           (Counted \ exposed)' \subseteq Counted \ exposed,
           \A q \in Requests : req'[q].pc = "create" /\ q \notin exposed' =>
                                   req[q].pc = "create" /\ q \notin exposed
    PROVE  QuotaInv'
<1> DEFINE before == Cardinality(Counted \ exposed)
           after == Cardinality((Counted \ exposed)')
<1>1. IsFiniteSet(Counted \ exposed)
  BY CountsTyped DEF Counted
<1>2. after <= before /\ after \in Nat /\ before \in Nat
  BY <1>1, FS_Subset, FS_CardinalityType
<1>3. before <= MaxConcurrent
  BY DEF QuotaInv, ProtectedWithinQuota
<1>4. after <= MaxConcurrent
  BY <1>2, <1>3, AdmissionConstants
<1>5. ASSUME NEW q \in Requests, req'[q].pc = "create", q \notin exposed'
      PROVE  after < MaxConcurrent
  <2>1. before < MaxConcurrent
    BY <1>5 DEF QuotaInv
  <2>2. QED
    BY <1>2, <2>1, AdmissionConstants
<1>6. QED
  BY <1>4, <1>5 DEF QuotaInv, ProtectedWithinQuota

\* One more element is at most one more.
LEMMA OneMore ==
    ASSUME NEW S, NEW x, IsFiniteSet(S)
    PROVE  /\ IsFiniteSet(S \cup {x})
           /\ Cardinality(S \cup {x}) <= Cardinality(S) + 1
           /\ Cardinality(S \cup {x}) \in Nat
<1>1. Cardinality(S) \in Nat
  BY FS_CardinalityType
<1>2. IsFiniteSet(S \cup {x})
  BY FS_AddElement
<1>3. Cardinality(S \cup {x}) = IF x \in S THEN Cardinality(S) ELSE Cardinality(S) + 1
  BY FS_AddElement
<1>4. QED
  BY <1>1, <1>2, <1>3

LEMMA CreateQuota ==
    ASSUME TypeOK, KeyInv, QuotaInv, NEW r \in Requests, Create(r)
    PROVE  QuotaInv'
<1>1. /\ \A q \in Requests \ {r} : req'[q] = req[q]
      /\ req'[r].pc # "create" /\ UNCHANGED exposed
  BY DEF Create, Leave, Goto, TypeOK, ReqType
<1>2. \A q \in Requests : req'[q].pc = "create" => req[q].pc = "create"
  BY <1>1
<1>3. (Counted \ exposed)' \subseteq (Counted \ exposed) \cup {r}
  BY <1>1 DEF Create, Counted, TypeOK
<1>4. CASE r \in exposed
  BY <1>1, <1>2, <1>3, <1>4, Fewer
<1>5. CASE r \notin exposed
  <2> DEFINE before == Counted \ exposed
  <2>1. IsFiniteSet(before) /\ Cardinality(before) \in Nat
    BY CountsTyped DEF Counted
  <2>2. /\ IsFiniteSet(before \cup {r})
        /\ Cardinality(before \cup {r}) <= Cardinality(before) + 1
        /\ Cardinality(before \cup {r}) \in Nat
    BY <2>1, OneMore
  <2>3. Cardinality(before) < MaxConcurrent
    BY <1>5 DEF QuotaInv, Create
  <2>4. /\ Cardinality((Counted \ exposed)') <= Cardinality(before \cup {r})
        /\ Cardinality((Counted \ exposed)') \in Nat
    BY <1>3, <2>2, FS_Subset, FS_CardinalityType
  <2>5. ProtectedWithinQuota'
    BY <2>1, <2>2, <2>3, <2>4, AdmissionConstants DEF ProtectedWithinQuota
  <2>6. ASSUME NEW q \in Requests, req'[q].pc = "create", q \notin exposed
        PROVE  FALSE
    <3>1. req[r].pc = "create" /\ req[q].pc = "create" /\ q # r
      BY <1>1, <1>2, <2>6 DEF Create
    <3>2. Inside(r) /\ Inside(q)
      BY <1>5, <2>6, <3>1 DEF KeyInv, Inside
    <3>3. QED
      BY <1>5, <2>6, <3>1, <3>2, OneUnexposed
  <2>7. QED
    BY <1>1, <2>5, <2>6 DEF QuotaInv
<1>6. QED
  BY <1>4, <1>5

LEMMA RequestStepQuota ==
    ASSUME TypeOK, KeyInv, QuotaInv, NEW r \in Requests, RequestStep(r)
    PROVE  QuotaInv'
<1>1. \A q \in Requests \ {r} : req'[q] = req[q]
  BY OnlyOneMoves
<1>2. CASE Acquire(r) \/ CountTotal(r) \/ CountWaived(r) \/ Release(r)
  <2>1. req'[r].pc # "create"
    <3>1. req[r] \in ReqType /\ req \in [Requests -> ReqType]
      BY DEF TypeOK
    <3>2. CASE Acquire(r) \/ Release(r)
      BY <3>1, <3>2 DEF Acquire, Release, Goto, ReqType
    <3>3. CASE CountWaived(r)
      BY <3>1, <3>3 DEF CountWaived, Goto, Leave, ReqType
    <3>4. CASE CountTotal(r)
      BY <3>1, <3>4 DEF CountTotal, ReqType
    <3>5. QED
      BY <1>2, <3>2, <3>3, <3>4
  <2>2. UNCHANGED job /\ exposed \subseteq exposed'
    BY <1>2 DEF Acquire, CountTotal, CountWaived, Release
  <2>3. (Counted \ exposed)' \subseteq Counted \ exposed
    BY <2>2 DEF Counted
  <2>4. QED
    BY <1>1, <2>1, <2>2, <2>3, Fewer
<1>3. CASE CountConcurrent(r)
  <2>1. UNCHANGED <<job, exposed>>
    BY <1>3 DEF CountConcurrent
  <2>2. req'[r].pc = "create" => Cardinality(Counted) < MaxConcurrent
    <3>1. Cardinality(Counted) \in Nat /\ req[r] \in ReqType
      BY CountsTyped DEF Counted, TypeOK
    <3>2. CASE Cardinality(Counted) >= MaxConcurrent
      BY <1>3, <3>1, <3>2 DEF CountConcurrent, Leave, Goto, TypeOK, ReqType
    <3>3. QED
      BY <3>1, <3>2, AdmissionConstants
  <2>3. /\ Cardinality(Counted \ exposed) <= Cardinality(Counted)
        /\ Cardinality(Counted \ exposed) \in Nat /\ Cardinality(Counted) \in Nat
    <3>1. IsFiniteSet(Counted) /\ Counted \ exposed \subseteq Counted
      BY CountsTyped DEF Counted
    <3>2. QED
      BY <3>1, FS_Subset, FS_CardinalityType
  <2>4. Counted' = Counted
    BY <2>1 DEF Counted
  <2>5. ProtectedWithinQuota'
    BY <2>1, <2>4 DEF QuotaInv, ProtectedWithinQuota
  <2>6. ASSUME NEW q \in Requests, req'[q].pc = "create", q \notin exposed
        PROVE  Cardinality(Counted \ exposed) < MaxConcurrent
    <3>1. CASE q = r
      BY <2>2, <2>3, <2>6, <3>1, AdmissionConstants
    <3>2. CASE q # r
      BY <1>1, <2>6, <3>2 DEF QuotaInv
    <3>3. QED
      BY <3>1, <3>2
  <2>7. QED
    BY <2>1, <2>4, <2>5, <2>6 DEF QuotaInv
<1>4. CASE SkipQuota(r)
  <2>1. UNCHANGED job /\ exposed \subseteq exposed' /\ r \in exposed'
    BY <1>4 DEF SkipQuota
  <2>2. (Counted \ exposed)' \subseteq Counted \ exposed
    BY <2>1 DEF Counted
  <2>3. QED
    BY <1>1, <2>1, <2>2, Fewer
<1>5. QED
  BY <1>2, <1>3, <1>4, CreateQuota DEF RequestStep

LEMMA QuotaStep ==
    ASSUME TypeOK, KeyInv, QuotaInv, [Next]_vars
    PROVE  QuotaInv'
<1>1. ASSUME \/ \E r \in Requests, kind \in Kinds, p \in Procs : Begin(r, kind, p)
             \/ Expire \/ TimePasses \/ UNCHANGED vars
             \/ \E p \in Procs : ExpireLocal(p) \/ Crash(p)
      PROVE  QuotaInv'
  <2>1. UNCHANGED job /\ exposed \subseteq exposed'
    BY <1>1 DEF Begin, Expire, TimePasses, vars, ExpireLocal, Crash
  <2>2. \A q \in Requests : req'[q].pc = "create" => req[q].pc = "create"
    <3>1. ASSUME NEW r \in Requests, NEW kind \in Kinds, NEW p \in Procs,
                 Begin(r, kind, p), NEW q \in Requests, req'[q].pc = "create"
          PROVE  req[q].pc = "create"
      BY <3>1 DEF Begin, TypeOK
    <3>2. ASSUME NEW p \in Procs, Crash(p), NEW q \in Requests,
                 req'[q].pc = "create"
          PROVE  req[q].pc = "create"
      <4>1. req'[q] \in {[req[q] EXCEPT !.pc = "dead"], req[q]}
        BY <3>2 DEF Crash
      <4>2. req[q] \in ReqType
        BY DEF TypeOK
      <4>3. QED
        BY <3>2, <4>1, <4>2 DEF ReqType
    <3>3. QED
      BY <1>1, <3>1, <3>2 DEF Expire, TimePasses, vars, ExpireLocal
  <2>3. (Counted \ exposed)' \subseteq Counted \ exposed
    BY <2>1 DEF Counted
  <2>4. QED
    BY <2>1, <2>2, <2>3, Fewer
<1>2. ASSUME NEW q \in Requests, JobStep(q)
      PROVE  QuotaInv'
  <2>1. UNCHANGED req /\ exposed \subseteq exposed'
    BY <1>2 DEF JobStep, JobEnds, JobRestarts, JobAges, JobDeleted
  <2>2. \A j \in Requests \ exposed' :
            job'[j].state = "active" /\ job'[j].recent /\ ~job'[j].deleted
                => job[j].state = "active" /\ job[j].recent /\ ~job[j].deleted
    <3>1. job \in [Requests -> JobType] /\ job[q] \in JobType
      BY DEF TypeOK
    <3>2. QED
      BY <1>2, <3>1
         DEF JobStep, JobEnds, JobRestarts, JobAges, JobDeleted, JobType
  <2>3. (Counted \ exposed)' \subseteq Counted \ exposed
    BY <2>1, <2>2 DEF Counted
  <2>4. QED
    BY <2>1, <2>3, Fewer
<1>3. QED
  BY <1>1, <1>2, RequestStepQuota DEF Next

\* For any number of requests in any number of processes, whoever keeps its
\* Redis key from count to insert creates no job beyond the concurrency quota,
\* whatever the exposed ones create, end and take up again meanwhile.
THEOREM QuotaHeld == Spec => []ProtectedWithinQuota
<1>1. Init => KeyInv
  BY DEF Init, IdleRequest, KeyInv, OwnersKeepTheirKey, Inside, Locked
<1>2. Init => QuotaInv
  <2>1. SUFFICES ASSUME Init PROVE QuotaInv
    OBVIOUS
  <2>2. Counted \ exposed = {}
    BY <2>1 DEF Init, Counted, NoJob
  <2>3. Cardinality(Counted \ exposed) = 0
    BY <2>2, FS_EmptySet
  <2>4. QED
    BY <2>1, <2>3, AdmissionConstants
       DEF QuotaInv, ProtectedWithinQuota, Init, IdleRequest
<1>3. TypeOK /\ KeyInv /\ QuotaInv /\ [Next]_vars => KeyInv' /\ QuotaInv'
  BY KeyStep, QuotaStep
<1>4. QED
  BY <1>1, <1>2, <1>3, AdmissionTypeCorrect, PTL DEF Spec, QuotaInv

-----------------------------------------------------------------------------
(* The daily quota *)

\* The jobs of the days from d on that count.
Live(d) == CreatedSince(d) \ WaivedSince(d)
OfDay(d) == {q \in Live(d) : job[q].at < d + 2}

\* A request counts from an even time on, one that is not later than now.
Since(r) == req[r].since \in 0..time /\ req[r].since % 2 = 0

\* What a request knows of the jobs: it has counted them all, or found that those
\* that count leave room for one.
CountKnown(r) ==
    /\ req[r].pc \in {"waived", "concurrent", "create"} => Since(r)
    /\ req[r].pc = "waived" => req[r].total = Cardinality(CreatedSince(req[r].since))
    /\ req[r].pc \in {"concurrent", "create"} =>
           Cardinality(Live(req[r].since)) < MaxJobsPerDay

\* The strengthening of DailyQuota.
DayInv ==
    /\ \A q \in Requests : job[q].at <= time
    /\ \A r \in Requests : req[r].kind \in Kinds \cup {"create"}
    /\ exposed = {} => /\ \A r \in Requests : CountKnown(r)
                       /\ \A d \in Nat : d % 2 = 0 => Cardinality(OfDay(d)) <= MaxJobsPerDay

\* An even time is the latest one before the day after it.
LEMMA Evens ==
    ASSUME NEW t \in Nat
    PROVE  /\ 2 * (t \div 2) \in 0..t /\ (2 * (t \div 2)) % 2 = 0
           /\ \A a \in Nat, b \in Nat : a % 2 = 0 /\ b % 2 = 0 /\ a <= t /\ t < b + 2 => a <= b
<1>1. 2 * (t \div 2) \in 0..t
  BY SMTT(30)
<1>2. (2 * (t \div 2)) % 2 = 0
  <2>1. t \div 2 \in Nat
    BY SMTT(30)
  <2>2. \A k \in Nat : (2 * k) % 2 = 0
    BY SMTT(30)
  <2>3. QED
    BY <2>1, <2>2
<1>3. ASSUME NEW a \in Nat, NEW b \in Nat, a % 2 = 0, b % 2 = 0, a <= t, t < b + 2
      PROVE  a <= b
  <2>1. a < b + 2
    BY <1>3
  <2>2. a # b + 1
    BY <1>3, SMTT(30)
  <2>3. QED
    BY <2>1, <2>2
<1>4. QED
  BY <1>1, <1>2, <1>3

\* A step that creates no job, and brings no job back to those that count, keeps
\* the quota; a request that goes on knows what it knew.
LEMMA DayQuiet ==
    ASSUME TypeOK, DayInv, time' \in Nat, time <= time',
           exposed \subseteq exposed',
           exposed' = {} =>
               \A q \in Requests : /\ (job'[q].state = "none") = (job[q].state = "none")
                                   /\ job[q].state = "waived" => job'[q].state = "waived",
           \A q \in Requests : job'[q].at = job[q].at,
           \A r \in Requests :
               \/ req'[r] = req[r]
               \/ /\ req'[r].kind \in Kinds \cup {"create"}
                  /\ req'[r].pc \notin {"waived", "concurrent", "create"}
    PROVE  DayInv'
<1>1. /\ time \in Nat /\ \A q \in Requests : job[q].at \in Nat
      /\ \A r \in Requests : req[r].since \in Nat
      /\ MaxJobsPerDay \in Nat
  BY AdmissionConstants DEF TypeOK, JobType, ReqType
<1>2. \A q \in Requests : job'[q].at <= time'
  BY <1>1 DEF DayInv
<1>3. \A r \in Requests : req'[r].kind \in Kinds \cup {"create"}
  BY DEF DayInv
<1>4. ASSUME exposed' = {}
      PROVE  /\ \A r \in Requests : CountKnown(r)'
             /\ \A d \in Nat : d % 2 = 0 => Cardinality(OfDay(d)') <= MaxJobsPerDay
  <2>1. /\ \A r \in Requests : CountKnown(r)
        /\ \A d \in Nat : d % 2 = 0 => Cardinality(OfDay(d)) <= MaxJobsPerDay
    BY <1>4 DEF DayInv
  <2>2. \A d \in Nat : CreatedSince(d)' = CreatedSince(d)
    BY <1>4 DEF CreatedSince
  <2>3. \A d \in Nat : Live(d)' \subseteq Live(d) /\ OfDay(d)' \subseteq OfDay(d)
    BY <1>4 DEF CreatedSince, Live, OfDay, WaivedSince
  <2>4. \A d \in Nat : /\ Cardinality(Live(d)') <= Cardinality(Live(d))
                       /\ Cardinality(OfDay(d)') <= Cardinality(OfDay(d))
                       /\ Cardinality(Live(d)) \in Nat /\ Cardinality(OfDay(d)) \in Nat
                       /\ Cardinality(Live(d)') \in Nat /\ Cardinality(OfDay(d)') \in Nat
    <3>1. \A d \in Nat : Live(d) \in SUBSET Requests /\ OfDay(d) \in SUBSET Requests
      BY DEF CreatedSince, Live, OfDay
    <3>2. QED
      BY <2>3, <3>1, CountsTyped, FS_Subset, FS_CardinalityType
  <2>5. \A d \in Nat : d % 2 = 0 => Cardinality(OfDay(d)') <= MaxJobsPerDay
    BY <1>1, <2>1, <2>4
  <2>6. ASSUME NEW r \in Requests
        PROVE  CountKnown(r)'
    <3>1. CASE req'[r] = req[r]
      <4>1. PICK d \in Nat : d = req[r].since /\ d = req'[r].since
        BY <1>1, <3>1
      <4>2. /\ CreatedSince(req[r].since)' = CreatedSince(d)'
            /\ CreatedSince(req[r].since) = CreatedSince(d)
            /\ Live(req[r].since)' = Live(d)' /\ Live(req[r].since) = Live(d)
        BY <4>1 DEF CreatedSince, Live, WaivedSince
      <4>3. (req[r].pc \in {"waived", "concurrent", "create"} => Since(r))
            => (req'[r].pc \in {"waived", "concurrent", "create"} => Since(r)')
        BY <1>1, <3>1 DEF Since
      <4>4. Cardinality(CreatedSince(req[r].since)') = Cardinality(CreatedSince(req[r].since))
        BY <2>2, <4>2
      <4>5. /\ Cardinality(Live(req[r].since)') <= Cardinality(Live(req[r].since))
            /\ Cardinality(Live(req[r].since)') \in Nat /\ Cardinality(Live(req[r].since)) \in Nat
        BY <2>4, <4>2
      <4>6. QED
        BY <1>1, <2>1, <3>1, <4>3, <4>4, <4>5 DEF CountKnown
    <3>2. CASE req'[r].pc \notin {"waived", "concurrent", "create"}
      BY <3>2 DEF CountKnown
    <3>3. QED
      BY <3>1, <3>2
  <2>7. QED
    BY <2>5, <2>6
<1>5. QED
  BY <1>2, <1>3, <1>4 DEF DayInv

\* One more job of the day, where there was room for one since that day or before.
LEMMA CreateDay ==
    ASSUME TypeOK, KeyInv, DayInv, NEW r \in Requests, Create(r)
    PROVE  DayInv'
<1>1. /\ time \in Nat /\ \A q \in Requests : job[q].at \in Nat
      /\ MaxJobsPerDay \in Nat /\ req \in [Requests -> ReqType]
      /\ job \in [Requests -> JobType]
  BY AdmissionConstants DEF TypeOK, JobType
<1>2. /\ \A q \in Requests \ {r} : req'[q] = req[q]
      /\ req'[r].pc \in {"release", "done"} /\ req'[r].kind = req[r].kind
      /\ req[r].pc = "create" /\ UNCHANGED <<exposed, time>>
  BY <1>1 DEF Create, Leave, Goto, ReqType
<1>3. /\ \A q \in Requests : job'[q].at <= time'
      /\ \A q \in Requests : req'[q].kind \in Kinds \cup {"create"}
  BY <1>1, <1>2 DEF Create, DayInv
<1>4. ASSUME exposed' = {}
      PROVE  /\ \A q \in Requests : CountKnown(q)'
             /\ \A d \in Nat : d % 2 = 0 => Cardinality(OfDay(d)') <= MaxJobsPerDay
  <2>1. CountKnown(r) /\ \A d \in Nat : d % 2 = 0 => Cardinality(OfDay(d)) <= MaxJobsPerDay
    BY <1>2, <1>4 DEF DayInv
  <2>2. Inside(r) /\ Locked(r)
    BY <1>2, <1>4 DEF KeyInv, Inside
  <2>3. \A q \in Requests \ {r} : req'[q].pc \notin {"waived", "concurrent", "create"}
    <3>1. ASSUME NEW q \in Requests \ {r}, req[q].pc \in {"waived", "concurrent", "create"}
          PROVE  FALSE
      <4>1. Inside(q)
        BY <1>2, <1>4, <3>1 DEF KeyInv, Inside
      <4>2. QED
        BY <1>2, <1>4, <2>2, <3>1, <4>1, OneUnexposed
    <3>2. QED
      BY <1>2, <3>1
  <2>4. \A q \in Requests : CountKnown(q)'
    BY <1>2, <2>3 DEF CountKnown
  <2>5. PICK since \in Nat : /\ since = req[r].since /\ since <= time /\ since % 2 = 0
                             /\ Cardinality(Live(since)) < MaxJobsPerDay
    BY <1>1, <1>2, <2>1 DEF CountKnown, Since
  <2>6. job' = [job EXCEPT ![r] = [state |-> "active", at |-> time,
                                   recent |-> TRUE, deleted |-> FALSE]]
    BY <2>2 DEF Create
  <2>7. ASSUME NEW d \in Nat, d % 2 = 0
        PROVE  Cardinality(OfDay(d)') <= MaxJobsPerDay
    <3>1. /\ IsFiniteSet(OfDay(d)) /\ Cardinality(OfDay(d)) \in Nat
          /\ IsFiniteSet(Live(since)) /\ Cardinality(Live(since)) \in Nat
      BY CountsTyped DEF OfDay, Live, CreatedSince
    <3>2. CASE d <= time /\ time < d + 2
      <4>1. since <= d
        BY <1>1, <2>5, <2>7, <3>2, Evens
      <4>2. OfDay(d)' \subseteq Live(since) \cup {r}
        BY <1>1, <2>6, <4>1 DEF OfDay, Live, CreatedSince, WaivedSince
      <4>3. /\ IsFiniteSet(Live(since) \cup {r})
            /\ Cardinality(Live(since) \cup {r}) <= Cardinality(Live(since)) + 1
            /\ Cardinality(Live(since) \cup {r}) \in Nat
        BY <3>1, OneMore
      <4>4. /\ Cardinality(OfDay(d)') <= Cardinality(Live(since) \cup {r})
            /\ Cardinality(OfDay(d)') \in Nat
        BY <4>2, <4>3, FS_Subset, FS_CardinalityType
      <4>5. QED
        BY <1>1, <2>5, <3>1, <4>3, <4>4
    <3>3. CASE ~(d <= time /\ time < d + 2)
      <4>1. OfDay(d)' \subseteq OfDay(d)
        BY <1>1, <2>6, <3>3 DEF OfDay, Live, CreatedSince, WaivedSince
      <4>2. Cardinality(OfDay(d)') <= Cardinality(OfDay(d)) /\ Cardinality(OfDay(d)') \in Nat
        BY <3>1, <4>1, FS_Subset, FS_CardinalityType
      <4>3. QED
        BY <1>1, <2>1, <2>7, <3>1, <4>2
    <3>4. QED
      BY <3>2, <3>3
  <2>8. QED
    BY <2>4, <2>7
<1>5. QED
  BY <1>3, <1>4 DEF DayInv

\* A request that finds room has counted all jobs of its day but those it may waive.
LEMMA CountDay ==
    ASSUME OtherZone => "trigger" \notin Kinds,
           TypeOK, KeyInv, DayInv, NEW r \in Requests,
           CountTotal(r) \/ CountWaived(r) \/ CountConcurrent(r)
    PROVE  DayInv'
<1>1. /\ time \in Nat /\ MaxJobsPerDay \in Nat
      /\ req \in [Requests -> ReqType] /\ req[r] \in ReqType
  BY AdmissionConstants DEF TypeOK
<1>2. UNCHANGED <<job, time, exposed>>
  BY DEF CountTotal, CountWaived, CountConcurrent
<1>3. /\ \A q \in Requests \ {r} : req'[q] = req[q]
      /\ req'[r].kind = req[r].kind
  BY OnlyOneMoves DEF RequestStep
<1>4. ASSUME exposed' = {}
      PROVE  CountKnown(r)'
  <2>1. CountKnown(r) /\ exposed = {}
    BY <1>2, <1>4 DEF DayInv
  <2>2. CASE CountTotal(r)
    <3> DEFINE start == StartOfDay(req[r].kind)
    <3>1. req[r].kind # "tick"
      BY <2>1, <2>2 DEF CountTotal, KeyInv, Locked
    <3>2. req[r].kind = "create" \/ ~OtherZone
      BY <1>1, <3>1 DEF DayInv, ReqType
    <3>3. start = 2 * (time \div 2)
      BY <3>2 DEF StartOfDay
    <3>4. start \in 0..time /\ start % 2 = 0
      BY <1>1, <3>3, Evens
    <3> DEFINE n == Cardinality(CreatedSince(start))
               counted == [req[r] EXCEPT !.pc = "waived", !.since = start, !.total = n]
    <3>5. req' = [req EXCEPT ![r] = counted]
      BY <2>2 DEF CountTotal
    <3> HIDE DEF start
    <3>6. CreatedSince(start) = {q \in Requests : job[q].state # "none" /\ job[q].at >= start}
      BY DEF CreatedSince
    <3> HIDE DEF n
    <3>7. counted.pc = "waived" /\ counted.since = start /\ counted.total = n
      BY <1>1 DEF ReqType
    <3> HIDE DEF counted
    <3>8. req'[r] = counted
      BY <1>1, <3>5
    <3>9. CreatedSince(req[r].since)' = CreatedSince(start)
      BY <1>2, <3>6, <3>7, <3>8 DEF CreatedSince
    <3>10. QED
      BY <1>2, <3>4, <3>7, <3>8, <3>9 DEF CountKnown, Since, n
  <2>3. CASE CountWaived(r)
    <3>1. PICK since \in Nat : /\ since = req[r].since /\ since \in 0..time /\ since % 2 = 0
                               /\ req[r].total = Cardinality(CreatedSince(since))
      BY <1>1, <2>1, <2>3 DEF CountKnown, CountWaived, Since
    <3>2. /\ IsFiniteSet(CreatedSince(since)) /\ Cardinality(CreatedSince(since)) \in Nat
          /\ CreatedSince(since) \cap WaivedSince(since) = WaivedSince(since)
          /\ Cardinality(WaivedSince(since)) \in Nat
      <4>1. CreatedSince(since) \in SUBSET Requests /\ WaivedSince(since) \in SUBSET Requests
        BY DEF CreatedSince, WaivedSince
      <4>2. CreatedSince(since) \cap WaivedSince(since) = WaivedSince(since)
        BY DEF WaivedSince
      <4>3. QED
        BY <4>1, <4>2, CountsTyped
    <3>3. Cardinality(Live(since)) =
              Cardinality(CreatedSince(since)) - Cardinality(WaivedSince(since))
      BY <3>2, FS_Difference DEF Live
    <3>4. WaivedSince(req[r].since) = WaivedSince(since)
      BY <3>1
    <3>5. req'[r].pc = "concurrent" => Cardinality(Live(since)) < MaxJobsPerDay
      <4>1. ASSUME NEW w \in {0, Cardinality(WaivedSince(since))},
                   ~(req[r].total >= MaxJobsPerDay + w)
            PROVE  Cardinality(Live(since)) < MaxJobsPerDay
        BY <1>1, <3>1, <3>2, <3>3, <4>1
      <4>2. Leave(r) => req'[r].pc # "concurrent"
        BY <1>1 DEF Leave, Goto, ReqType
      <4>3. QED
        BY <2>3, <3>4, <4>1, <4>2 DEF CountWaived
    <3>6. /\ req'[r].pc \in {"concurrent", "release", "done"} /\ req'[r].since = since
      BY <1>1, <2>3, <3>1 DEF CountWaived, Leave, Goto, ReqType
    <3>7. Live(req[r].since)' = Live(since)
      BY <1>2, <3>6 DEF Live, CreatedSince, WaivedSince
    <3>8. QED
      BY <1>2, <3>1, <3>5, <3>6, <3>7 DEF CountKnown, Since
  <2>4. CASE CountConcurrent(r)
    <3>1. PICK since \in Nat : /\ since = req[r].since /\ since \in 0..time /\ since % 2 = 0
                               /\ Cardinality(Live(since)) < MaxJobsPerDay
      BY <1>1, <2>1, <2>4 DEF CountKnown, CountConcurrent, Since
    <3>2. /\ req'[r].pc \in {"create", "release", "done"} /\ req'[r].since = since
      BY <1>1, <2>4, <3>1 DEF CountConcurrent, Leave, Goto, ReqType
    <3>3. Live(req[r].since)' = Live(since)
      BY <1>2, <3>2 DEF Live, CreatedSince, WaivedSince
    <3>4. QED
      BY <1>2, <3>1, <3>2, <3>3 DEF CountKnown, Since
  <2>5. QED
    BY <2>2, <2>3, <2>4
<1>5. ASSUME exposed' = {}, NEW q \in Requests \ {r}
      PROVE  CountKnown(q)'
  <2>1. CountKnown(q)
    BY <1>2, <1>5 DEF DayInv
  <2>2. /\ CreatedSince(req[q].since)' = CreatedSince(req[q].since)
        /\ Live(req[q].since)' = Live(req[q].since) /\ (Since(q)' <=> Since(q))
    BY <1>2, <1>3 DEF Live, CreatedSince, WaivedSince, Since
  <2>3. QED
    BY <1>3, <2>1, <2>2 DEF CountKnown
<1>6. \A d : OfDay(d)' = OfDay(d)
  BY <1>2 DEF OfDay, Live, CreatedSince, WaivedSince
<1>7. QED
  BY <1>2, <1>3, <1>4, <1>5, <1>6 DEF DayInv

LEMMA DayStep ==
    ASSUME OtherZone => "trigger" \notin Kinds, TypeOK, TypeOK', KeyInv, DayInv, [Next]_vars
    PROVE  DayInv'
<1>1. /\ time \in Nat /\ time' \in Nat
      /\ req \in [Requests -> ReqType] /\ job \in [Requests -> JobType]
  BY AdmissionConstants DEF TypeOK
<1>2. \A r \in Requests : req[r].kind \in Kinds \cup {"create"}
  BY DEF DayInv
<1>3. ASSUME NEW r \in Requests, NEW kind \in Kinds, NEW p \in Procs, Begin(r, kind, p)
      PROVE  DayInv'
  <2>1. /\ \A q \in Requests \ {r} : req'[q] = req[q]
        /\ req'[r].kind \in Kinds /\ req'[r].pc \in {"lock", "total"}
        /\ UNCHANGED <<job, time>> /\ exposed \subseteq exposed'
    BY <1>1, <1>3 DEF Begin
  <2>2. QED
    BY <1>1, <2>1, DayQuiet
<1>4. ASSUME NEW r \in Requests, Acquire(r) \/ Release(r)
      PROVE  DayInv'
  <2>1. \A q \in Requests \ {r} : req'[q] = req[q]
    BY <1>4, OnlyOneMoves DEF RequestStep
  <2>2. req'[r].kind = req[r].kind /\ req'[r].pc \in {"total", "done"}
    <3>1. \E pc \in {"total", "done"} : Goto(r, pc)
      BY <1>4 DEF Acquire, Release
    <3>2. req[r] \in ReqType
      BY <1>1
    <3>3. QED
      BY <1>1, <3>1, <3>2 DEF Goto, ReqType
  <2>3. UNCHANGED <<job, time>> /\ exposed \subseteq exposed'
    BY <1>4 DEF Acquire, Release
  <2>4. QED
    BY <1>1, <1>2, <2>1, <2>2, <2>3, DayQuiet
<1>5. ASSUME NEW p \in Procs, ExpireLocal(p) \/ Crash(p)
      PROVE  DayInv'
  <2>1. UNCHANGED <<job, time, exposed>>
    BY <1>5 DEF ExpireLocal, Crash
  <2>2. \A q \in Requests : \/ req'[q] = req[q]
                            \/ req'[q].kind = req[q].kind /\ req'[q].pc = "dead"
    <3>1. \A q \in Requests : /\ [req[q] EXCEPT !.pc = "dead"].kind = req[q].kind
                              /\ [req[q] EXCEPT !.pc = "dead"].pc = "dead"
      BY <1>1 DEF ReqType
    <3>2. QED
      BY <1>1, <1>5, <3>1 DEF ExpireLocal, Crash
  <2>3. QED
    BY <1>1, <1>2, <2>1, <2>2, DayQuiet
<1>6. ASSUME NEW q \in Requests, JobStep(q)
      PROVE  DayInv'
  <2>1. UNCHANGED <<req, time>> /\ exposed \subseteq exposed'
    BY <1>6 DEF JobStep, JobEnds, JobRestarts, JobAges, JobDeleted
  <2>2. /\ job[q] \in JobType
        /\ \A p \in Requests \ {q} : job'[p] = job[p]
        /\ job'[q].at = job[q].at
        /\ exposed' = {} => /\ (job'[q].state = "none") = (job[q].state = "none")
                            /\ job[q].state = "waived" => job'[q].state = "waived"
    BY <1>1, <1>6 DEF JobStep, JobEnds, JobRestarts, JobAges, JobDeleted, JobType
  <2>3. QED
    BY <1>1, <2>1, <2>2, DayQuiet
<1>7. CASE Expire \/ TimePasses \/ UNCHANGED vars
  <2>1. UNCHANGED <<job, req>> /\ time <= time' /\ exposed \subseteq exposed'
    BY <1>1, <1>7 DEF Expire, TimePasses, vars
  <2>2. QED
    BY <1>1, <2>1, DayQuiet
<1>8. ASSUME NEW r \in Requests, SkipQuota(r)
      PROVE  DayInv'
  <2>1. UNCHANGED <<job, time>> /\ exposed' # {}
    BY <1>8 DEF SkipQuota
  <2>2. \A q \in Requests : req'[q].kind = req[q].kind
    BY <1>8, OnlyOneMoves DEF RequestStep
  <2>3. QED
    BY <2>1, <2>2 DEF DayInv
<1>9. QED
  BY <1>3, <1>4, <1>5, <1>6, <1>7, <1>8, CountDay, CreateDay DEF Next, RequestStep

\* With schedules in UTC+7, or without triggers, no UTC+7 day sees more jobs than the
\* daily quota while every request has had its Redis key: not when midnight passes
\* between the count and the insert, and not when a crash keeps the key.
THEOREM DayHeld ==
    ASSUME OtherZone => "trigger" \notin Kinds
    PROVE  Spec => []DailyQuota
<1>1. Init => KeyInv
  BY DEF Init, IdleRequest, KeyInv, OwnersKeepTheirKey, Inside, Locked
<1>2. Init => DayInv
  <2>1. SUFFICES ASSUME Init PROVE DayInv
    OBVIOUS
  <2>2. \A d \in Nat : Cardinality(OfDay(d)) = 0
    <3>1. \A d \in Nat : OfDay(d) = {}
      BY <2>1 DEF Init, NoJob, OfDay, Live, CreatedSince
    <3>2. QED
      BY <3>1, FS_EmptySet
  <2>3. /\ \A q \in Requests : job[q].at <= time
        /\ \A r \in Requests : req[r].kind = "create" /\ CountKnown(r)
    BY <2>1 DEF Init, NoJob, IdleRequest, CountKnown
  <2>4. QED
    BY <2>2, <2>3, AdmissionConstants DEF DayInv
<1>3. TypeOK /\ TypeOK' /\ KeyInv /\ DayInv /\ [Next]_vars => KeyInv' /\ DayInv'
  BY KeyStep, DayStep
<1>4. TypeOK /\ DayInv => DailyQuota
  <2>1. ASSUME TypeOK, DayInv, exposed = {}, NEW d \in {t \in 0..time : t % 2 = 0}
        PROVE  Cardinality({q \in CreatedSince(d) \ WaivedSince(d) : job[q].at < d + 2})
                   <= MaxJobsPerDay
    <3>1. d \in Nat /\ d % 2 = 0
      BY <2>1
    <3>2. {q \in CreatedSince(d) \ WaivedSince(d) : job[q].at < d + 2} = OfDay(d)
      BY DEF OfDay, Live
    <3>3. QED
      BY <2>1, <3>1, <3>2 DEF DayInv
  <2>2. QED
    BY <2>1 DEF DailyQuota
<1>5. QED
  BY <1>1, <1>2, <1>3, <1>4, AdmissionTypeCorrect, PTL DEF Spec
=============================================================================

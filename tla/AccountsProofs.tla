--------------------------- MODULE AccountsProofs ---------------------------
(***************************************************************************)
(* Theorems about the accounts, for any number of handlers: a registration  *)
(* that fails takes nobody's account with it, and the report of a user's    *)
(* quotas says what create decides; and the types of all the accounts.      *)
(***************************************************************************)
EXTENDS MCAccounts, AccessProofs, FiniteSetTheorems, WellFoundedInduction, TLAPS

-----------------------------------------------------------------------------
(* Registration *)

\* The strengthening of VerifiedStay: a row that waits for its confirmation is not
\* among those that have been activated and not suspended since, which a roll back
\* would delete; and a handler that goes on to write has found or made a row.
VerifiedInv ==
    /\ RegistrationTypeOK
    /\ VerifiedStay
    /\ ~person.active => person.id \notin confirmed \ suspended
    /\ \A c \in Callers : call[c].pc = "activate" => call[c].id # 0

\* A handler that goes on or ends, while the row and what became of it stay.
LEMMA CallGoesOn ==
    ASSUME VerifiedInv, NEW c \in Callers, NEW new \in CallType,
           call' = [call EXCEPT ![c] = new], new.pc = "activate" => new.id # 0,
           UNCHANGED <<person, confirmed, suspended>>,
           rowsMade' \in 0..MaxRows, mails' \in 0..MaxMails, linked' \in BOOLEAN
    PROVE  VerifiedInv'
<1>1. call \in [Callers -> CallType]
  BY DEF VerifiedInv, RegistrationTypeOK
<1>2. /\ call' \in [Callers -> CallType] /\ call'[c] = new
      /\ \A d \in Callers \ {c} : call'[d] = call[d]
  BY <1>1
<1>3. QED
  BY <1>2 DEF VerifiedInv, RegistrationTypeOK, VerifiedStay

\* What the handlers' writes make of a record.
LEMMA CallTyped ==
    ASSUME VerifiedInv, NEW c \in Callers
    PROVE  /\ call[c] \in CallType /\ NoCall \in CallType /\ NoCall.pc = "idle"
           /\ \A pc \in {"find", "create", "send", "roll back", "activate"} :
                 /\ [call[c] EXCEPT !.pc = pc] \in CallType
                 /\ [call[c] EXCEPT !.pc = pc].pc = pc
                 /\ [call[c] EXCEPT !.pc = pc].id = call[c].id
           /\ \A op \in CallOps : [NoCall EXCEPT !.pc = "find", !.op = op] \in CallType
           /\ \A pc \in {"send", "activate"}, id \in 0..MaxRows, own \in BOOLEAN :
                 [call[c] EXCEPT !.id = id, !.pc = pc, !.own = own] \in CallType
<1>1. call[c] \in CallType
  BY DEF VerifiedInv, RegistrationTypeOK
<1>2. NoCall \in CallType /\ NoCall.pc = "idle"
  BY RegistrationConstants DEF NoCall, CallType, CallOps
<1>3. QED
  BY <1>1, <1>2 DEF CallType

\* The row changes hands: what becomes of it is told by the row and the history alone.
LEMMA RowChanges ==
    ASSUME VerifiedInv, call' \in [Callers -> CallType],
           \A c \in Callers : call'[c].pc = "activate" => call'[c].id # 0,
           person' \in [id : 0..MaxRows, active : BOOLEAN, deleted : BOOLEAN],
           confirmed' \subseteq Ids, suspended' \subseteq Ids,
           rowsMade' \in 0..MaxRows, UNCHANGED <<mails, linked>>,
           VerifiedStay', ~person'.active => person'.id \notin confirmed' \ suspended'
    PROVE  VerifiedInv'
BY DEF VerifiedInv, RegistrationTypeOK

LEMMA RegistrationStep ==
    ASSUME VerifiedInv, [RegistrationNext]_registrationVars
    PROVE  VerifiedInv'
<1>1. /\ person \in [id : 0..MaxRows, active : BOOLEAN, deleted : BOOLEAN]
      /\ call \in [Callers -> CallType] /\ rowsMade \in 0..MaxRows /\ mails \in 0..MaxMails
      /\ linked \in BOOLEAN /\ confirmed \subseteq Ids /\ suspended \subseteq Ids
      /\ MaxRows \in Nat /\ MaxMails \in Nat
  BY RegistrationConstants DEF VerifiedInv, RegistrationTypeOK
<1>2. ~person.active => confirmed \ suspended = {}
  BY DEF VerifiedInv, VerifiedStay
<1>3. \A c \in Callers : [call EXCEPT ![c] = NoCall] \in [Callers -> CallType]
  BY <1>1, CallTyped
<1>4. ASSUME NEW c \in Callers, NEW op \in CallOps, Call(c, op)
      PROVE  VerifiedInv'
  <2> DEFINE new == [NoCall EXCEPT !.pc = "find", !.op = op]
  <2>1. new \in CallType /\ new.pc = "find"
    BY CallTyped DEF NoCall
  <2>2. call' = [call EXCEPT ![c] = new]
        /\ UNCHANGED <<person, rowsMade, mails, linked, confirmed, suspended>>
    BY <1>4 DEF Call
  <2> HIDE DEF new
  <2>3. QED
    BY <1>1, <2>1, <2>2, CallGoesOn
<1>5. ASSUME NEW c \in Callers, FindPerson(c)
      PROVE  VerifiedInv'
  <2>1. PICK new \in CallType : call' = [call EXCEPT ![c] = new]
                                /\ (new.pc = "activate" => new.id # 0)
    <3> DEFINE pc == IF call[c].op = "verify" THEN "activate" ELSE "send"
               found == [call[c] EXCEPT !.id = person.id, !.pc = pc]
    <3>1. CASE HasRow /\ ~person.active /\ ~person.deleted
      <4>1. call' = [call EXCEPT ![c] = found]
        BY <1>5, <3>1 DEF FindPerson
      <4>2. found \in CallType /\ found.id = person.id
        BY <1>1 DEF CallType
      <4>3. QED
        BY <3>1, <4>1, <4>2 DEF HasRow
    <3>2. CASE ~(HasRow /\ ~person.active /\ ~person.deleted)
      BY <1>5, <3>2, CallTyped DEF FindPerson, CallTo, Ended
    <3>3. QED
      BY <3>1, <3>2
  <2>2. QED
    BY <1>1, <1>5, <2>1, CallGoesOn DEF FindPerson
<1>6. ASSUME NEW c \in Callers, CreateUser(c)
      PROVE  VerifiedInv'
  <2>1. CASE HasRow
    <3>1. call' = [call EXCEPT ![c] = NoCall]
          /\ UNCHANGED <<person, rowsMade, mails, linked, confirmed, suspended>>
      BY <1>6, <2>1 DEF CreateUser, Ended
    <3>2. QED
      BY <1>1, <3>1, CallTyped, CallGoesOn
  <2>2. CASE ~HasRow
    <3> DEFINE new == [call[c] EXCEPT !.pc = "send", !.id = rowsMade', !.own = TRUE]
               row == [NoPerson EXCEPT !.id = rowsMade']
    <3>1. /\ rowsMade' = rowsMade + 1 /\ person' = row
          /\ call' = [call EXCEPT ![c] = new] /\ UNCHANGED <<mails, linked, confirmed, suspended>>
      BY <1>6, <2>2 DEF CreateUser
    <3>2. rowsMade' \in Ids /\ rowsMade' \in 0..MaxRows
      BY <1>1, <1>6, <2>2 DEF CreateUser, Ids
    <3>3. new \in CallType /\ new.pc = "send"
      BY <1>1, <3>2 DEF CallType
    <3>4. /\ row \in [id : 0..MaxRows, active : BOOLEAN, deleted : BOOLEAN]
          /\ row.id = rowsMade' /\ ~row.active
      BY <3>2 DEF NoPerson
    <3> HIDE DEF new, row
    <3>5. /\ call' \in [Callers -> CallType]
          /\ \A d \in Callers : call'[d].pc = "activate" => call'[d].id # 0
      BY <1>1, <3>1, <3>3 DEF VerifiedInv
    <3>6. confirmed \ suspended = {}
      BY <1>1, <2>2 DEF VerifiedInv, VerifiedStay, HasRow, Ids
    <3>7. QED
      BY <1>1, <3>1, <3>2, <3>4, <3>5, <3>6, RowChanges DEF VerifiedStay
  <2>3. QED
    BY <2>1, <2>2
<1>7. ASSUME NEW c \in Callers, SendVerificationEmail(c)
      PROVE  VerifiedInv'
  <2>1. /\ mails' = mails + 1 /\ mails < MaxMails /\ linked' \in {linked, TRUE}
        /\ UNCHANGED <<person, rowsMade, confirmed, suspended>>
    BY <1>7 DEF SendVerificationEmail
  <2>2. PICK new \in CallType : call' = [call EXCEPT ![c] = new] /\ new.pc # "activate"
    BY <1>7, CallTyped DEF SendVerificationEmail, CallTo, Ended
  <2>3. mails' \in 0..MaxMails
    BY <1>1, <2>1
  <2>4. linked' \in BOOLEAN
    BY <1>1, <2>1, Zenon
  <2>5. QED
    BY <1>1, <2>1, <2>2, <2>3, <2>4, CallGoesOn
<1>8. ASSUME NEW c \in Callers, RollBack(c)
      PROVE  VerifiedInv'
  <2>1. /\ call' \in [Callers -> CallType]
        /\ UNCHANGED <<rowsMade, mails, linked, confirmed, suspended>>
        /\ \A d \in Callers : call'[d].pc = "activate" => call'[d].id # 0
    BY <1>1, <1>3, <1>8, CallTyped DEF RollBack, Ended, VerifiedInv
  <2>2. CASE person.id = call[c].id /\ ~person.active
    <3>1. person' = NoPerson /\ NoPerson.id = 0 /\ ~NoPerson.active /\ confirmed \ suspended = {}
      BY <1>2, <1>8, <2>2 DEF RollBack, DeleteUnverifiedUser, NoPerson
    <3>2. NoPerson \in [id : 0..MaxRows, active : BOOLEAN, deleted : BOOLEAN]
      BY <1>1 DEF NoPerson
    <3>3. VerifiedStay' /\ person'.id \notin confirmed' \ suspended'
      BY <2>1, <3>1 DEF VerifiedStay
    <3>4. QED
      BY <1>1, <2>1, <3>1, <3>2, <3>3, RowChanges
  <2>3. CASE ~(person.id = call[c].id /\ ~person.active)
    BY <1>1, <1>8, <2>1, <2>3, RowChanges
       DEF RollBack, DeleteUnverifiedUser, VerifiedInv, VerifiedStay
  <2>4. QED
    BY <2>2, <2>3
<1>9. ASSUME HasRow, Activate(person.id)
      PROVE  /\ person' \in [id : 0..MaxRows, active : BOOLEAN, deleted : BOOLEAN]
             /\ confirmed' \subseteq Ids /\ suspended' \subseteq Ids
             /\ VerifiedStay' /\ person'.active
  <2>1. person.id \in Ids
    BY <1>1, <1>9 DEF HasRow, Ids
  <2>2. person' \in [id : 0..MaxRows, active : BOOLEAN, deleted : BOOLEAN]
        /\ person'.id = person.id /\ person'.active
    BY <1>1, <1>9 DEF Activate
  <2>3. QED
    BY <1>1, <1>9, <2>1, <2>2 DEF Activate, VerifiedInv, VerifiedStay
<1>10. ASSUME NEW c \in Callers, VerifyEmail(c)
       PROVE  VerifiedInv'
  <2>1. call' \in [Callers -> CallType] /\ UNCHANGED <<rowsMade, mails, linked>>
        /\ \A d \in Callers : call'[d].pc = "activate" => call'[d].id # 0
    BY <1>1, <1>3, <1>10, CallTyped DEF VerifyEmail, Ended, VerifiedInv
  <2>2. CASE person.id = call[c].id
    <3>1. HasRow /\ Activate(person.id)
      BY <1>10, <2>2 DEF VerifyEmail, VerifiedInv, HasRow
    <3>2. QED
      BY <1>1, <1>9, <2>1, <3>1, RowChanges
  <2>3. CASE person.id # call[c].id
    BY <1>1, <1>10, <2>1, <2>3, RowChanges DEF VerifyEmail, VerifiedInv, VerifiedStay
  <2>4. QED
    BY <2>2, <2>3
<1>11. CASE Admit
  BY <1>1, <1>9, <1>11, RowChanges DEF Admit, VerifiedInv
<1>12. ASSUME Suspend \/ Remove
       PROVE  VerifiedInv'
  <2>1. /\ person.id \in Ids /\ suspended' = suspended \cup {person.id}
        /\ UNCHANGED <<call, rowsMade, mails, linked, confirmed>>
    BY <1>1, <1>12 DEF Suspend, Remove, HasRow, Ids
  <2>2. /\ person' \in [id : 0..MaxRows, active : BOOLEAN, deleted : BOOLEAN]
        /\ person'.id = person.id /\ ~person'.active
    <3>1. CASE Suspend
      BY <1>1, <3>1 DEF Suspend
    <3>2. CASE Remove
      BY <1>1, <3>2 DEF Remove
    <3>3. QED
      BY <1>12, <3>1, <3>2
  <2>3. QED
    BY <1>1, <2>1, <2>2, RowChanges DEF VerifiedInv, VerifiedStay
<1>13. CASE UNCHANGED registrationVars
  BY <1>13 DEF registrationVars, VerifiedInv, RegistrationTypeOK, VerifiedStay
<1>14. QED
  BY <1>4, <1>5, <1>6, <1>7, <1>8, <1>10, <1>11, <1>12, <1>13 DEF RegistrationNext

LEMMA VerifiedAlways == RegistrationSpec => []VerifiedInv
<1>1. RegistrationInit => VerifiedInv
  <2>1. /\ NoCall \in CallType /\ NoCall.pc = "idle" /\ NoPerson.id = 0 /\ ~NoPerson.active
        /\ NoPerson \in [id : 0..MaxRows, active : BOOLEAN, deleted : BOOLEAN]
    BY RegistrationConstants DEF NoCall, NoPerson, CallType, CallOps
  <2>2. RegistrationInit => linked \in BOOLEAN
    BY Zenon DEF RegistrationInit
  <2>3. 0 \in 0..MaxRows /\ 0 \in 0..MaxMails
    BY RegistrationConstants
  <2>4. RegistrationInit => RegistrationTypeOK
    BY <2>1, <2>2, <2>3, Zenon DEF RegistrationInit, RegistrationTypeOK
  <2>5. QED
    BY <2>1, <2>4 DEF RegistrationInit, VerifiedInv, VerifiedStay
<1> QED
  BY <1>1, RegistrationStep, PTL DEF RegistrationSpec

\* The row of a user who has confirmed the address, or was admitted, and was not
\* locked or removed since, is there: whatever registrations, resends and links of the
\* address run beside each other and whichever mails are lost or only said to be.
THEOREM ConfirmedStay == RegistrationSpec => []VerifiedStay
<1>1. VerifiedInv => VerifiedStay
  BY DEF VerifiedInv
<1> QED
  BY <1>1, VerifiedAlways, PTL

-----------------------------------------------------------------------------
(* Arithmetic of the quotas *)

LEMMA MaxOfTwo ==
    ASSUME NEW a \in Int, NEW b \in Int
    PROVE  Max({a, b}) = IF a > b THEN a ELSE b
<1>1. \E x \in {a, b} : \A y \in {a, b} : x >= y
  OBVIOUS
<1>2. Max({a, b}) \in {a, b} /\ \A y \in {a, b} : Max({a, b}) >= y
  BY <1>1 DEF Max
<1>3. QED
  BY <1>2

\* A month of whole days begins no later than the day.
LEMMA DayWithinMonth ==
    ASSUME NEW c \in Nat, NEW d \in Nat \ {0}, NEW m \in Nat \ {0}, m % d = 0
    PROVE  c % d <= c % m
<1> DEFINE r == c % m
           s == c % d
           k == m \div d
           p == c \div m
           q == c \div d
           w == q - k * p
<1>1. r \in 0..(m - 1) /\ c = m * p + r /\ p \in Nat
  OBVIOUS
<1>2. s \in 0..(d - 1) /\ c = d * q + s /\ q \in Nat
  OBVIOUS
<1>3. k \in Nat /\ m = d * k
  OBVIOUS
<1> HIDE DEF r, s, k, p, q
<1>4. m * p = d * (k * p) /\ k * p \in Int
  BY <1>1, <1>3
<1>5. d * w = d * q - d * (k * p) /\ w \in Int
  BY <1>2, <1>4
<1> HIDE DEF w
<1>6. r = d * w + s /\ d * w \in Int /\ d * q \in Int /\ d * (k * p) \in Int
  BY <1>1, <1>2, <1>4, <1>5
<1>7. w < 0 => d * w <= 0 - d
  BY <1>5
<1>8. w >= 0 => d * w >= 0
  BY <1>5
<1>9. s <= r
  BY <1>1, <1>2, <1>5, <1>6, <1>7, <1>8
<1>10. QED
  BY <1>9 DEF r, s

\* Among the subsets of a finite set that are in B, one contains no other.
LEMMA SmallestSubset ==
    ASSUME NEW S, IsFiniteSet(S), NEW B, B \subseteq SUBSET S, B # {}
    PROVE  \E s \in B : \A t \in B : ~(t \subseteq s /\ t # s)
<1>1. IsWellFoundedOn(StrictSubsetOrdering(S), SUBSET S)
  BY FS_StrictSubsetOrderingWellFounded, FS_FiniteSubsetsOfFinite
<1>2. PICK s \in B : \A t \in B : ~(<<t, s>> \in StrictSubsetOrdering(S))
  BY <1>1, WFMin
<1>3. \A t \in B : t \subseteq s /\ t # s => <<t, s>> \in StrictSubsetOrdering(S)
  BY DEF StrictSubsetOrdering
<1>4. \A t \in B : ~(t \subseteq s /\ t # s)
  BY <1>2, <1>3, Zenon
<1>5. QED
  BY <1>4

\* The pages of the jobs in S, as pairs.
UnitsOf(i) == {<<i, k>> : k \in 1..quotaJob[i].pages}
Units(S) == UNION {UnitsOf(i) : i \in S}

LEMMA UnitsOfOne ==
    ASSUME NEW i, quotaJob[i].pages \in Nat
    PROVE  IsFiniteSet(UnitsOf(i)) /\ Cardinality(UnitsOf(i)) = quotaJob[i].pages
<1> DEFINE n == quotaJob[i].pages
           f == [k \in 1..n |-> <<i, k>>]
<1>1. f \in Bijection(1..n, UnitsOf(i))
  BY DEF UnitsOf, Bijection, Injection, Surjection, IsInjective
<1>2. IsFiniteSet(1..n) /\ Cardinality(1..n) = n
  <2> n \in Nat /\ 1 \in Int /\ n \in Int
    OBVIOUS
  <2> HIDE DEF n
  <2>1. IsFiniteSet(1..n) /\ Cardinality(1..n) = IF 1 > n THEN 0 ELSE n - 1 + 1
    BY FS_Interval
  <2>2. QED
    BY <2>1
<1>3. QED
  BY <1>1, <1>2, FS_Bijection DEF ExistsBijection

LEMMA UnitsUnfold ==
    ASSUME NEW S, NEW x \in S
    PROVE  /\ Units(S) = Units(S \ {x}) \cup UnitsOf(x)
           /\ Units(S \ {x}) \cap UnitsOf(x) = {}
BY DEF Units, UnitsOf

LEMMA UnitsFinite ==
    ASSUME NEW S, IsFiniteSet(S), \A i \in S : quotaJob[i].pages \in Nat
    PROVE  \A s \in SUBSET S : IsFiniteSet(Units(s))
<1> DEFINE B == {s \in SUBSET S : ~IsFiniteSet(Units(s))}
<1> SUFFICES ASSUME B # {} PROVE FALSE
  OBVIOUS
<1>1. B \subseteq SUBSET S
  OBVIOUS
<1>2. PICK s \in B : \A t \in B : ~(t \subseteq s /\ t # s)
  <2> HIDE DEF B
  <2> QED
    BY <1>1, SmallestSubset
<1>3. s # {}
  BY FS_EmptySet DEF Units
<1>4. PICK x \in s : TRUE
  BY <1>3
<1>5. IsFiniteSet(Units(s \ {x}))
  BY <1>2, <1>4
<1>6. IsFiniteSet(UnitsOf(x)) /\ Units(s) = Units(s \ {x}) \cup UnitsOf(x)
  BY UnitsUnfold, UnitsOfOne
<1>7. QED
  BY <1>5, <1>6, FS_Union

\* What the fold of the community modules computes.
LEMMA SumIsCount ==
    ASSUME NEW S, IsFiniteSet(S), \A i \in S : quotaJob[i].pages \in Nat
    PROVE  MapThenSumSet(LAMBDA i : quotaJob[i].pages, S) = Cardinality(Units(S))
<1> DEFINE first(s) == CHOOSE x \in s : TRUE
           next(g, s) == IF s = {} THEN 0
                         ELSE quotaJob[first(s)].pages + g[s \ {first(s)}]
           sums == CHOOSE iter : iter = [s \in SUBSET S |-> next(iter, s)]
           count == [s \in SUBSET S |-> Cardinality(Units(s))]
<1>1. MapThenSumSet(LAMBDA i : quotaJob[i].pages, S) = sums[S]
  BY DEF MapThenSumSet, MapThenFoldSet
<1>2. \A s \in SUBSET S : count[s] = next(count, s)
  <2>1. TAKE s \in SUBSET S
  <2>2. CASE s = {}
    BY <2>2, FS_EmptySet DEF Units
  <2>3. CASE s # {}
    <3>1. first(s) \in s
      BY <2>3
    <3>2. PICK x \in s : x = first(s)
      BY <3>1
    <3>3. /\ IsFiniteSet(Units(s \ {x})) /\ IsFiniteSet(UnitsOf(x))
          /\ Cardinality(UnitsOf(x)) = quotaJob[x].pages
      BY UnitsFinite, UnitsOfOne
    <3>4. Units(s) = Units(s \ {x}) \cup UnitsOf(x) /\ Units(s \ {x}) \cap UnitsOf(x) = {}
      BY UnitsUnfold
    <3>5. Cardinality(Units(s)) = Cardinality(Units(s \ {x})) + quotaJob[x].pages
      <4> DEFINE U == Units(s \ {x})
                 V == UnitsOf(x)
      <4>1. IsFiniteSet(U) /\ IsFiniteSet(V) /\ U \cap V = {}
            /\ Cardinality(V) = quotaJob[x].pages /\ Units(s) = U \cup V
        BY <3>3, <3>4
      <4> HIDE DEF U, V
      <4>2. Cardinality(U \cup V) = Cardinality(U) + Cardinality(V) - Cardinality({})
        BY <4>1, FS_Union
      <4>3. Cardinality({}) = 0 /\ Cardinality(U) \in Nat /\ Cardinality(V) \in Nat
        BY <4>1, FS_EmptySet, FS_CardinalityType
      <4>4. Cardinality(Units(s)) = Cardinality(U) + quotaJob[x].pages
        BY <4>1, <4>2, <4>3
      <4>5. QED
        BY <4>4 DEF U
    <3>6. Cardinality(Units(s \ {x})) \in Nat /\ quotaJob[x].pages \in Nat
      BY <3>3, FS_CardinalityType
    <3>7. QED
      BY <2>3, <3>2, <3>5, <3>6
  <2>4. QED
    BY <2>2, <2>3
<1>3. sums = [s \in SUBSET S |-> next(sums, s)]
  <2>1. count = [s \in SUBSET S |-> next(count, s)]
    BY <1>2
  <2>2. QED
    BY <2>1
<1> HIDE DEF sums
<1>4. \A s \in SUBSET S : sums[s] = count[s]
  <2> DEFINE B == {s \in SUBSET S : sums[s] # count[s]}
  <2> SUFFICES ASSUME B # {} PROVE FALSE
    OBVIOUS
  <2>1. B \subseteq SUBSET S
    OBVIOUS
  <2>2. PICK s \in B : \A t \in B : ~(t \subseteq s /\ t # s)
    <3> HIDE DEF B
    <3> QED
      BY <2>1, SmallestSubset
  <2>3. s \in SUBSET S /\ sums[s] # count[s]
    OBVIOUS
  <2>4. sums[s] = next(sums, s) /\ count[s] = next(count, s)
    BY <1>2, <1>3, <2>3
  <2>5. s # {}
    BY <2>3, <2>4
  <2>6. PICK x \in s : x = first(s)
    BY <2>5
  <2>7. s \ {x} \in SUBSET S /\ s \ {x} \notin B
    BY <2>2, <2>3, <2>6
  <2>8. sums[s \ {x}] = count[s \ {x}]
    BY <2>7
  <2> HIDE DEF count, B
  <2>9. QED
    BY <2>3, <2>4, <2>5, <2>6, <2>8
<1>5. QED
  BY <1>1, <1>4

\* More jobs have as many pages at least.
LEMMA SumGrows ==
    ASSUME NEW S, IsFiniteSet(S), \A i \in S : quotaJob[i].pages \in Nat, NEW T \in SUBSET S
    PROVE  MapThenSumSet(LAMBDA i : quotaJob[i].pages, T)
              <= MapThenSumSet(LAMBDA i : quotaJob[i].pages, S)
<1>1. IsFiniteSet(T) /\ IsFiniteSet(Units(S)) /\ Units(T) \subseteq Units(S)
  BY FS_Subset, UnitsFinite DEF Units
<1>2. /\ MapThenSumSet(LAMBDA i : quotaJob[i].pages, T) = Cardinality(Units(T))
      /\ MapThenSumSet(LAMBDA i : quotaJob[i].pages, S) = Cardinality(Units(S))
  BY <1>1, SumIsCount
<1>3. QED
  BY <1>1, <1>2, FS_Subset

-----------------------------------------------------------------------------
(* The report of the quotas *)

\* The jobs that count since a time are finitely many, and fewer since a later one.
LEMMA FewerSince ==
    ASSUME QuotasTypeOK, NEW t \in Int, NEW u \in Int, t <= u
    PROVE  /\ IsFiniteSet(Kept(JobsSince(t))) /\ CountJobsSince(t) \in Nat
           /\ Kept(JobsSince(u)) \subseteq Kept(JobsSince(t))
           /\ CountJobsSince(u) <= CountJobsSince(t)
           /\ SumPagesCrawled(u) <= SumPagesCrawled(t)
<1>1. /\ IsFiniteSet(DOMAIN quotaJob) /\ \A i \in DOMAIN quotaJob : quotaJob[i] \in QuotaJobType
  BY FS_Interval DEF QuotasTypeOK
<1>2. /\ Kept(JobsSince(u)) \subseteq Kept(JobsSince(t))
      /\ Kept(JobsSince(t)) \subseteq DOMAIN quotaJob
  BY <1>1 DEF Kept, JobsSince, QuotaJobType
<1>3. IsFiniteSet(Kept(JobsSince(t))) /\ CountJobsSince(t) \in Nat
  BY <1>1, <1>2, FS_Subset, FS_CardinalityType DEF CountJobsSince
<1>4. CountJobsSince(u) <= CountJobsSince(t)
  BY <1>2, <1>3, FS_Subset DEF CountJobsSince
<1>5. SumPagesCrawled(u) <= SumPagesCrawled(t)
  BY <1>1, <1>2, <1>3, SumGrows DEF SumPagesCrawled, QuotaJobType
<1>6. QED
  BY <1>2, <1>3, <1>4, <1>5

\* Both arithmetics of a day come to the same, and no day has more than its month.
LEMMA ReportIsTrue ==
    ASSUME QuotasTypeOK
    PROVE  LET usage == GetUsage
           IN  /\ \A pages \in 1..customer.limits.pages :
                     (Refusal(customer.limits, customer.reset, pages) = "day")
                         = (usage.jobsRemainingToday = 0)
               /\ usage.jobsUsedToday <= usage.jobsUsedThisMonth
               /\ usage.pagesCrawledToday <= usage.pagesCrawledThisMonth
<1> DEFINE day == ReportedSince(QuotaDay, customer.reset)
           month == ReportedSince(QuotaMonth, customer.reset)
           start == StartOf(QuotaDay)
           since == IF customer.reset > start THEN customer.reset ELSE start
<1>1. /\ clock \in Nat /\ customer.reset \in Nat /\ customer.limits.pages \in Nat
      /\ customer.limits.daily \in Nat
  <2>1. /\ clock \in 0..QuotaTime /\ customer.reset \in 0..QuotaTime
        /\ customer.limits \in LimitsType
    BY DEF QuotasTypeOK
  <2>2. customer.limits.pages \in Limits /\ customer.limits.daily \in Limits
    BY <2>1 DEF LimitsType
  <2>3. Limits \subseteq Nat /\ QuotaTime \in Nat
    BY QuotaConstants
  <2>4. clock \in Nat /\ customer.reset \in Nat
    BY <2>1, <2>3
  <2> QED
    BY <2>2, <2>3, <2>4
<1>2. /\ start \in Int /\ StartOf(QuotaMonth) \in Int /\ StartOf(QuotaMonth) <= start
  <2>1. QuotaDay \in Nat \ {0} /\ QuotaMonth \in Nat \ {0} /\ QuotaMonth % QuotaDay = 0
    BY QuotaConstants
  <2>2. clock % QuotaDay <= clock % QuotaMonth
    BY <1>1, <2>1, DayWithinMonth
  <2>3. clock % QuotaDay \in Nat /\ clock % QuotaMonth \in Nat
    BY <1>1, <2>1
  <2>4. QED
    BY <1>1, <2>2, <2>3 DEF StartOf
<1>3. day = since /\ day \in Int /\ month \in Int /\ month <= day
  BY <1>1, <1>2, MaxOfTwo DEF ReportedSince
<1>4. /\ CountJobsSince(day) \in Nat
      /\ CountJobsSince(day) <= CountJobsSince(month)
      /\ SumPagesCrawled(day) <= SumPagesCrawled(month)
  BY <1>3, FewerSince
<1>5. Max({0, customer.limits.daily - CountJobsSince(day)}) = 0
          <=> CountJobsSince(day) >= customer.limits.daily
  BY <1>1, <1>4, MaxOfTwo
<1>6. ASSUME NEW pages \in 1..customer.limits.pages
      PROVE  Refusal(customer.limits, customer.reset, pages) = "day"
                 <=> CountJobsSince(day) >= customer.limits.daily
  BY <1>1, <1>3, <1>6 DEF Refusal
<1>7. QED
  BY <1>4, <1>5, <1>6 DEF GetUsage

\* These limits, but where others are given.
Overridden(limits, others) ==
    [column \in LimitColumns |->
        IF others[column] = NotGiven THEN limits[column] ELSE others[column]]

\* The strengthening of QuotasAgree: whatever is copied to the user is one of the
\* limits that a role had at a time.
QuotaInv ==
    /\ QuotasTypeOK
    /\ \E own \in snapshots : customer.limits = Overridden(own, given)
    /\ \A r \in QuotaRoles : roleLimits[r] \in snapshots
    /\ \A a \in Admins : admin[a].pc = "copy" => admin[a].limits \in snapshots

AdminType == [pc : {"idle", "read", "copy"}, op : QuotaOps, at : 0..QuotaTime,
              limits : LimitsType \cup {NoLimits}]
CustomerType == [limits : LimitsType, reset : 0..QuotaTime, member : BOOLEAN]
GivenType == [LimitColumns -> Limits \cup {NotGiven}]

\* An administrator's handler goes on; the user and the roles may change with it.
LEMMA AdminKeeps ==
    ASSUME QuotaInv, NEW a \in Admins, NEW new \in AdminType,
           admin' \in {admin, [admin EXCEPT ![a] = new]},
           customer' \in CustomerType, roleLimits' \in [QuotaRoles -> LimitsType],
           enabled' \in BOOLEAN, snapshots' \subseteq LimitsType, snapshots \subseteq snapshots',
           given' \in GivenType,
           \E own \in snapshots' : customer'.limits = Overridden(own, given'),
           \A r \in QuotaRoles : roleLimits'[r] \in snapshots',
           new.pc = "copy" => new.limits \in snapshots', JobsApart
    PROVE  QuotaInv'
<1>1. admin \in [Admins -> AdminType]
  BY DEF QuotaInv, QuotasTypeOK, AdminType
<1>2. /\ admin' \in [Admins -> AdminType]
      /\ \A b \in Admins : admin'[b] = admin[b] \/ admin'[b] = new
  BY <1>1
<1>3. QuotasTypeOK'
  BY <1>2 DEF QuotaInv, QuotasTypeOK, AdminType, CustomerType, GivenType, JobsApart
<1>4. (\E own \in snapshots : customer.limits = Overridden(own, given))'
  BY DEF Overridden
<1>5. QED
  BY <1>2, <1>3, <1>4 DEF QuotaInv

\* Jobs come and go, and time passes.
LEMMA JobsKeep ==
    ASSUME QuotaInv, UNCHANGED <<quotaLoad, customer, roleLimits, enabled, admin, snapshots,
                                 given>>,
           QuotasTypeOK'
    PROVE  QuotaInv'
BY DEF QuotaInv, Overridden

LEMMA AdminStep ==
    ASSUME QuotaInv, NEW a \in Admins,
           \/ \E sync \in BOOLEAN :
                 \/ \E n \in Limits, column \in LimitColumns : UpdateRole(a, column, n, sync)
                 \/ \E op \in QuotaOps : ResetQuota(a, op, sync)
           \/ ReadRole(a) \/ CopyLimits(a) \/ AssignRole(a) \/ SwitchRole(a)
           \/ \E columns \in (SUBSET LimitColumns) \ {{}}, limits \in LimitsType :
                 UpdateUser(a, columns, limits)
    PROVE  QuotaInv'
<1>1. /\ customer \in CustomerType /\ roleLimits \in [QuotaRoles -> LimitsType]
      /\ enabled \in BOOLEAN /\ snapshots \subseteq LimitsType /\ clock \in 0..QuotaTime
      /\ admin[a] \in AdminType /\ given \in GivenType
      /\ \A r \in QuotaRoles : roleLimits[r] \in snapshots
  BY DEF QuotaInv, QuotasTypeOK, CustomerType, AdminType, GivenType
<1>11. PICK base \in snapshots : customer.limits = Overridden(base, given)
  BY DEF QuotaInv
<1>2. IdleAdmin \in AdminType /\ IdleAdmin.pc = "idle"
  <2>1. 0 \in 0..QuotaTime
    BY QuotaConstants
  <2>2. QED
    BY <2>1 DEF IdleAdmin, AdminType, QuotaOps
<1>3. ASSUME NEW sync \in BOOLEAN, NEW n \in Limits, NEW column \in LimitColumns,
             UpdateRole(a, column, n, sync)
      PROVE  QuotaInv'
  <2> DEFINE updated == [roleLimits["custom"] EXCEPT ![column] = n]
             new == [IdleAdmin EXCEPT !.pc = "copy", !.limits = updated]
  <2>1. updated \in LimitsType
    BY <1>1 DEF LimitsType, LimitColumns, QuotaRoles
  <2>2. /\ roleLimits' = [roleLimits EXCEPT !["custom"] = updated]
        /\ snapshots' = snapshots \cup {updated} /\ UNCHANGED <<customer, enabled, given>>
        /\ admin' \in {admin, [admin EXCEPT ![a] = new]} /\ JobsApart
    BY <1>3 DEF UpdateRole
  <2> HIDE DEF updated
  <2>3. new \in AdminType /\ new.limits = updated
    BY <1>2, <2>1 DEF AdminType
  <2> HIDE DEF new
  <2>4. /\ roleLimits' \in [QuotaRoles -> LimitsType]
        /\ \A r \in QuotaRoles : roleLimits'[r] \in snapshots'
    BY <1>1, <2>1, <2>2
  <2>5. QED
    BY <1>1, <1>11, <2>1, <2>2, <2>3, <2>4, AdminKeeps
<1>4. ASSUME NEW sync \in BOOLEAN, NEW op \in QuotaOps, ResetQuota(a, op, sync)
      PROVE  QuotaInv'
  <2> DEFINE new == [IdleAdmin EXCEPT !.pc = "read", !.op = op, !.at = clock]
             own == [customer EXCEPT !.reset = clock]
  <2>1. new \in AdminType /\ new.pc = "read"
    BY <1>1, <1>2 DEF AdminType
  <2>2. own \in CustomerType /\ own.limits = customer.limits
    BY <1>1 DEF CustomerType
  <2>3. /\ admin' \in {admin, [admin EXCEPT ![a] = new]} /\ customer' \in {customer, own}
        /\ UNCHANGED <<roleLimits, enabled, snapshots, given>> /\ JobsApart
    BY <1>4 DEF ResetQuota
  <2> HIDE DEF new, own
  <2>4. QED
    BY <1>1, <1>11, <2>1, <2>2, <2>3, AdminKeeps
<1>5. CASE ReadRole(a)
  <2>1. PICK r \in QuotaRoles : admin' = [admin EXCEPT ![a] =
                                     [@ EXCEPT !.pc = "copy", !.limits = roleLimits[r]]]
    BY <1>5 DEF ReadRole, PrimaryRole, QuotaRoles
  <2> DEFINE new == [admin[a] EXCEPT !.pc = "copy", !.limits = roleLimits[r]]
  <2>2. new \in AdminType /\ new.limits = roleLimits[r]
    BY <1>1 DEF AdminType
  <2>3. admin' = [admin EXCEPT ![a] = new] /\ UNCHANGED <<customer, roleLimits, enabled, snapshots>>
        /\ UNCHANGED given /\ JobsApart
    BY <1>5, <2>1 DEF ReadRole
  <2> HIDE DEF new
  <2>4. QED
    BY <1>1, <1>11, <2>2, <2>3, AdminKeeps
<1>6. CASE CopyLimits(a)
  <2>1. admin[a].limits \in LimitsType /\ admin[a].limits \in snapshots
    BY <1>1, <1>6 DEF CopyLimits, QuotaInv
  <2>2. /\ customer' \in CustomerType
        /\ \/ customer'.limits = customer.limits /\ given' = given
           \/ customer'.limits = admin[a].limits /\ given' = NoneGiven
    BY <1>1, <1>6, <2>1 DEF CopyLimits, CustomerType, AdminType
  <2>3. /\ admin' = [admin EXCEPT ![a] = IdleAdmin] /\ UNCHANGED <<roleLimits, enabled, snapshots>>
        /\ JobsApart
    BY <1>6 DEF CopyLimits
  <2>4. NoneGiven \in GivenType /\ admin[a].limits = Overridden(admin[a].limits, NoneGiven)
    BY <2>1 DEF NoneGiven, GivenType, Overridden, LimitsType, LimitColumns
  <2>5. /\ given' \in GivenType
        /\ \E s \in snapshots' : customer'.limits = Overridden(s, given')
    BY <1>1, <1>11, <2>1, <2>2, <2>3, <2>4
  <2>6. QED
    BY <1>1, <1>2, <2>2, <2>3, <2>5, AdminKeeps
<1>7. ASSUME NEW columns \in SUBSET LimitColumns, NEW limits \in LimitsType,
             UpdateUser(a, columns, limits)
      PROVE  QuotaInv'
  <2> DEFINE NewLimits(old) == [column \in LimitColumns |->
                                   IF column \in columns THEN limits[column] ELSE old[column]]
  <2>1. /\ customer' = [customer EXCEPT !.limits = NewLimits(customer.limits)]
        /\ given' = NewLimits(given) /\ JobsApart
        /\ UNCHANGED <<roleLimits, enabled, admin, snapshots>>
    BY <1>7 DEF UpdateUser
  <2>2. /\ \A column \in LimitColumns : limits[column] \in Limits
        /\ \A column \in LimitColumns : customer.limits[column] \in Limits
    BY <1>1 DEF LimitsType, LimitColumns, CustomerType
  <2>3. NewLimits(customer.limits) \in LimitsType /\ NewLimits(given) \in GivenType
    BY <1>1, <2>2 DEF LimitsType, LimitColumns, GivenType
  <2>4. NewLimits(customer.limits) = Overridden(base, NewLimits(given))
    <3>1. \A column \in columns : limits[column] # NotGiven
      BY <2>2, QuotaConstants DEF NotGiven
    <3> QED
      BY <1>11, <3>1 DEF Overridden
  <2> HIDE DEF NewLimits
  <2>5. customer' \in CustomerType /\ customer'.limits = NewLimits(customer.limits)
    BY <1>1, <2>1, <2>3 DEF CustomerType
  <2>6. \E s \in snapshots' : customer'.limits = Overridden(s, given')
    BY <1>11, <2>1, <2>4, <2>5
  <2>7. QED
    BY <1>1, <1>2, <2>1, <2>3, <2>5, <2>6, AdminKeeps
<1>8. CASE AssignRole(a)
  <2>1. customer' \in CustomerType /\ customer'.limits = customer.limits
    BY <1>1, <1>8 DEF AssignRole, CustomerType
  <2>2. QED
    BY <1>1, <1>2, <1>8, <1>11, <2>1, AdminKeeps DEF AssignRole
<1>9. CASE SwitchRole(a)
  BY <1>1, <1>2, <1>9, <1>11, AdminKeeps DEF SwitchRole
<1>10. QED
  BY <1>3, <1>4, <1>5, <1>6, <1>7, <1>8, <1>9

LEMMA QuotasStep ==
    ASSUME QuotaInv, [QuotasNext]_quotaVars
    PROVE  QuotaInv'
<1>1. /\ QuotasTypeOK /\ customer \in CustomerType /\ clock \in 0..QuotaTime
      /\ creator \in [Creators -> [pc : {"idle", "admit"}, reset : 0..QuotaTime,
                                    limits : LimitsType \cup {NoLimits}, pages : Nat]]
      /\ quotaJob \in Seq(QuotaJobType) /\ Len(quotaJob) <= quotaLoad.jobs
      /\ quotaLoad.until \in 0..QuotaTime /\ quotaLoad.jobs \in Nat
      /\ Limits \subseteq Nat /\ QuotaTime \in Nat /\ 0 \in 0..QuotaTime
  BY QuotaConstants DEF QuotaInv, QuotasTypeOK, CustomerType
<1>2. ASSUME NEW c \in Creators, NEW pages \in Limits, ReadCustomer(c, pages)
      PROVE  QuotaInv'
  <2> DEFINE new == [pc |-> "admit", limits |-> customer.limits, reset |-> customer.reset,
                     pages |-> pages]
  <2>1. new \in [pc : {"idle", "admit"}, reset : 0..QuotaTime,
                 limits : LimitsType \cup {NoLimits}, pages : Nat]
    BY <1>1, QuotaConstants DEF CustomerType
  <2>2. /\ creator' = [creator EXCEPT ![c] = new]
        /\ UNCHANGED <<quotaLoad, clock, customer, roleLimits, enabled, quotaJob, admin, snapshots,
                       given>>
    BY <1>2 DEF ReadCustomer
  <2> HIDE DEF new
  <2>3. QuotasTypeOK'
    BY <1>1, <2>1, <2>2 DEF QuotasTypeOK
  <2>4. QED
    BY <2>2, <2>3, JobsKeep
<1>3. ASSUME NEW c \in Creators, CreateJob(c)
      PROVE  QuotaInv'
  <2> DEFINE job == [at |-> clock, pages |-> 0, state |-> "active"]
  <2>1. job \in QuotaJobType
    BY <1>1 DEF QuotaJobType
  <2>2. IdleCreator \in [pc : {"idle", "admit"}, reset : 0..QuotaTime,
                         limits : LimitsType \cup {NoLimits}, pages : Nat]
    BY <1>1 DEF IdleCreator
  <2>3. /\ creator' = [creator EXCEPT ![c] = IdleCreator]
        /\ quotaJob' \in {quotaJob, Append(quotaJob, job)}
        /\ quotaJob' # quotaJob => Len(quotaJob) # quotaLoad.jobs
        /\ UNCHANGED <<quotaLoad, clock, customer, roleLimits, enabled, admin, snapshots,
                       given>>
    BY <1>3 DEF CreateJob
  <2> HIDE DEF job
  <2>4. quotaJob' \in Seq(QuotaJobType) /\ Len(quotaJob') <= quotaLoad.jobs
    <3>1. CASE quotaJob' = quotaJob
      BY <1>1, <3>1
    <3>2. CASE quotaJob' # quotaJob
      <4>1. quotaJob' = Append(quotaJob, job) /\ Len(quotaJob) # quotaLoad.jobs
            /\ Len(quotaJob) \in Nat
        BY <1>1, <2>3, <3>2
      <4>2. Len(quotaJob') = Len(quotaJob) + 1 /\ quotaJob' \in Seq(QuotaJobType)
        BY <1>1, <2>1, <4>1
      <4>3. QED
        BY <1>1, <4>1, <4>2
    <3>3. QED
      BY <3>1, <3>2
  <2>5. creator' \in [Creators -> [pc : {"idle", "admit"}, reset : 0..QuotaTime,
                                   limits : LimitsType \cup {NoLimits}, pages : Nat]]
    BY <1>1, <2>2, <2>3
  <2>6. QuotasTypeOK'
    BY <1>1, <2>3, <2>4, <2>5 DEF QuotasTypeOK
  <2>7. QED
    BY <2>3, <2>6, JobsKeep
<1>4. ASSUME NEW i \in DOMAIN quotaJob, NEW state \in {"done", "waived"}, NEW pages \in Limits,
             EndJob(i, state, pages)
      PROVE  QuotaInv'
  <2> DEFINE job == [quotaJob[i] EXCEPT !.state = state, !.pages = pages]
  <2>1. job \in QuotaJobType
    <3>1. quotaJob[i] \in QuotaJobType /\ pages \in Nat
      BY <1>1
    <3>2. QED
      BY <3>1 DEF QuotaJobType
  <2>2. /\ quotaJob' = [quotaJob EXCEPT ![i] = job]
        /\ UNCHANGED <<quotaLoad, clock, customer, roleLimits, enabled, admin, creator, snapshots,
                       given>>
    BY <1>4 DEF EndJob
  <2> HIDE DEF job
  <2>3. quotaJob' \in Seq(QuotaJobType) /\ Len(quotaJob') = Len(quotaJob)
    BY <1>1, <2>1, <2>2
  <2>4. QuotasTypeOK'
    BY <1>1, <2>2, <2>3 DEF QuotasTypeOK
  <2>5. QED
    BY <2>2, <2>4, JobsKeep
<1>5. CASE PassTime
  <2>1. /\ clock < quotaLoad.until /\ clock' = clock + 1
        /\ UNCHANGED <<quotaLoad, customer, roleLimits, enabled, quotaJob, admin, creator,
                       snapshots, given>>
    BY <1>5 DEF PassTime
  <2>2. clock' \in 0..QuotaTime
    BY <1>1, <2>1
  <2>3. QuotasTypeOK'
    BY <1>1, <2>1, <2>2 DEF QuotasTypeOK
  <2>4. QED
    BY <2>1, <2>3, JobsKeep
<1>6. CASE UNCHANGED quotaVars
  BY <1>6 DEF quotaVars, QuotaInv, QuotasTypeOK, Overridden
<1>7. QED
  BY <1>2, <1>3, <1>4, <1>5, <1>6, AdminStep DEF QuotasNext

LEMMA QuotasBegin == QuotasInit => QuotaInv
<1>1. SUFFICES ASSUME QuotasInit PROVE QuotaInv
  OBVIOUS
<1> DEFINE least == [pages |-> Min(Limits), daily |-> Min(Limits)]
<1>2. Min(Limits) \in Limits
  <2>1. PICK n \in Limits : \A k \in Limits : n <= k
    <3>1. Limits \subseteq Nat /\ Limits # {}
      BY QuotaConstants
    <3> DEFINE below == {pair \in Nat \X Nat : pair[1] < pair[2]}
    <3>2. below = OpToRel(<, Nat)
      BY Zenon DEF OpToRel
    <3>3. IsWellFoundedOn(below, Nat)
      BY <3>2, NatLessThanWellFounded, Zenon
    <3>4. \A k, n \in Nat : k < n => <<k, n>> \in below
      OBVIOUS
    <3> HIDE DEF below
    <3>5. PICK n \in Limits : \A k \in Limits : ~(<<k, n>> \in below)
      BY <3>1, <3>3, WFMin, Zenon
    <3>6. \A k \in Limits : ~(k < n)
      BY <3>1, <3>4, <3>5, Zenon
    <3>7. n \in Nat /\ \A k \in Limits : k \in Nat
      BY <3>1
    <3>8. \A k \in Limits : n <= k
      BY <3>6, <3>7
    <3>9. QED
      BY <3>8
  <2>2. QED
    BY <2>1 DEF Min
<1>3. least \in LimitsType
  BY <1>2 DEF LimitsType
<1>4. /\ customer = [limits |-> least, reset |-> 0, member |-> TRUE]
      /\ roleLimits = [r \in QuotaRoles |-> least] /\ snapshots = {least}
      /\ given = NoneGiven /\ quotaLoad \in QuotaLoads /\ clock = 0 /\ quotaJob = <<>>
      /\ admin = [a \in Admins |-> IdleAdmin] /\ creator = [c \in Creators |-> IdleCreator]
  BY <1>1 DEF QuotasInit
<1> HIDE DEF least
<1>5. 0 \in 0..QuotaTime /\ quotaLoad.jobs \in Nat
  BY <1>4, QuotaConstants
<1>6. IdleAdmin \in AdminType /\ IdleAdmin.pc = "idle"
  BY <1>5 DEF IdleAdmin, AdminType, QuotaOps
<1>7. customer \in CustomerType /\ customer.limits = least
  BY <1>3, <1>4, <1>5 DEF CustomerType
<1>8. creator \in [Creators -> [pc : {"idle", "admit"}, reset : 0..QuotaTime,
                                limits : LimitsType \cup {NoLimits}, pages : Nat]]
  BY <1>4, <1>5 DEF IdleCreator
<1>9. enabled \in BOOLEAN
  BY <1>1, Zenon DEF QuotasInit
<1>10. quotaJob \in Seq(QuotaJobType) /\ Len(quotaJob) <= quotaLoad.jobs
  BY <1>4, <1>5
<1>13. given \in GivenType /\ least = Overridden(least, given)
  BY <1>3, <1>4 DEF NoneGiven, GivenType, Overridden, LimitsType, LimitColumns
<1>11. QuotasTypeOK
  BY <1>13, <1>3, <1>4, <1>5, <1>6, <1>7, <1>8, <1>9, <1>10
     DEF QuotasTypeOK, AdminType, CustomerType, GivenType
<1>12. QED
  BY <1>4, <1>6, <1>7, <1>11, <1>13 DEF QuotaInv

LEMMA QuotaAlways == QuotasSpec => []QuotaInv
BY QuotasBegin, QuotasStep, PTL DEF QuotasSpec

\* For any limits, any lengths of day and month, any administrators and any jobs: what
\* the report says is left is what create allows, and the limits of the user that no
\* administrator wrote since a role was last copied are those of one role at one time.
THEOREM QuotasReported == QuotasSpec => []QuotasAgree
<1>1. QuotaInv => QuotasAgree
  BY ReportIsTrue DEF QuotaInv, QuotasAgree, Overridden
<1>2. QED
  BY <1>1, QuotaAlways, PTL

-----------------------------------------------------------------------------
(* All the accounts *)

\* The four parts share no state: a behaviour of the composition is one of the part
\* that moves, so that whatever a part promises it promises here.
LEMMA PartMoves ==
    ASSUME [AccountsNext /\ UNCHANGED part]_<<part, vars, roleVars,
                                              registrationVars, quotaVars>>
    PROVE  /\ part' = part
           /\ part = "sessions" => [Next]_vars
           /\ part = "roles" => [RolesNext]_roleVars
           /\ part = "registration" => [RegistrationNext]_registrationVars
           /\ part = "quotas" => [QuotasNext]_quotaVars
BY Zenon DEF AccountsNext

LEMMA PartBegins ==
    ASSUME AccountsInit
    PROVE  /\ Init /\ RolesInit /\ RegistrationInit /\ QuotasInit
           /\ part \in {"sessions", "roles", "registration", "quotas"}
BY Zenon DEF AccountsInit

\* Every variable of sessions, roles, registration and quotas keeps its type, whichever
\* of them moves, for any numbers of handlers, processes and limits.
THEOREM AccountsTypeCorrect == AccountsSpec => []AccountsTypeOK
<1>1. (part = "sessions" /\ TypeOK) => AccountsTypeOK
  BY DEF AccountsTypeOK
<1>2. (part = "roles" /\ RolesTypeOK) => AccountsTypeOK
  BY DEF AccountsTypeOK
<1>3. (part = "registration" /\ RegistrationTypeOK) => AccountsTypeOK
  BY DEF AccountsTypeOK
<1>4. (part = "quotas" /\ QuotasTypeOK) => AccountsTypeOK
  BY DEF AccountsTypeOK
<1> DEFINE step == [AccountsNext /\ UNCHANGED part]_<<part, vars, roleVars,
                                                       registrationVars, quotaVars>>
<1>5. AccountsSpec /\ part = "sessions" => []AccountsTypeOK
  <2>1. RequestsInv => TypeOK
    BY DEF RequestsInv
  <2>2. AccountsInit => Init
    BY PartBegins
  <2>3. part = "sessions" /\ step => [Next]_vars /\ (part = "sessions")'
    BY PartMoves
  <2> QED
    BY <1>1, <2>1, <2>2, <2>3, SessionsTypeCorrect, PTL DEF AccountsSpec, Spec
<1>6. AccountsSpec /\ part = "roles" => []AccountsTypeOK
  <2>1. RolesInv => RolesTypeOK
    BY DEF RolesInv
  <2>2. AccountsInit => RolesInit
    BY PartBegins
  <2>3. part = "roles" /\ step => [RolesNext]_roleVars /\ (part = "roles")'
    BY PartMoves
  <2> QED
    BY <1>2, <2>1, <2>2, <2>3, RolesTypeCorrect, PTL DEF AccountsSpec, RolesSpec
<1>7. AccountsSpec /\ part = "registration" => []AccountsTypeOK
  <2>1. VerifiedInv => RegistrationTypeOK
    BY DEF VerifiedInv
  <2>2. AccountsInit => RegistrationInit
    BY PartBegins
  <2>3. part = "registration" /\ step
        => [RegistrationNext]_registrationVars /\ (part = "registration")'
    BY PartMoves
  <2> QED
    BY <1>3, <2>1, <2>2, <2>3, VerifiedAlways, PTL DEF AccountsSpec, RegistrationSpec
<1>8. AccountsSpec /\ part = "quotas" => []AccountsTypeOK
  <2>1. QuotaInv => QuotasTypeOK
    BY DEF QuotaInv
  <2>2. AccountsInit => QuotasInit
    BY PartBegins
  <2>3. part = "quotas" /\ step => [QuotasNext]_quotaVars /\ (part = "quotas")'
    BY PartMoves
  <2> QED
    BY <1>4, <2>1, <2>2, <2>3, QuotaAlways, PTL DEF AccountsSpec, QuotasSpec
<1>9. AccountsInit => \/ part = "sessions" \/ part = "roles"
                      \/ part = "registration" \/ part = "quotas"
  BY PartBegins
<1> QED
  BY <1>5, <1>6, <1>7, <1>8, <1>9, PTL DEF AccountsSpec
=============================================================================

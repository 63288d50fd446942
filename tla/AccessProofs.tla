---------------------------- MODULE AccessProofs ----------------------------
(***************************************************************************)
(* What TLAPS proves of Sessions and of Roles: who is let in, with what, and *)
(* what the processes believe he may do, for any requests, processes, users *)
(* and handlers.                                                            *)
(***************************************************************************)
EXTENDS Sessions, Roles, TLAPS, FiniteSetTheorems

-----------------------------------------------------------------------------
(* Sessions: the requests *)

\* Every request is at one of the steps of its handler.  Who is about to store a
\* token knows the password and the login that the token goes back to.
FollowsHandler(q) ==
    /\ q.op = "login" => q.pc \in {"idle", "read", "sign", "save"}
    /\ q.op = "refresh" => q.pc \in {"find", "drop", "user", "delete", "save"}
    /\ q.op = "logout" => q.pc \in {"drop", "mark", "revoke", "mark again"}
    /\ q.op = "use" => q.pc \in {"block", "check", "owner", "effect"}
    /\ q.op = "change" => q.pc \in {"read", "write", "purge", "keys", "mark", "sign", "save"}
    /\ q.op = "reset" => q.pc \in {"read", "write", "purge", "keys", "mark"}
    /\ q.op = "confirm" => q.pc \in {"read", "leave"}
    /\ \/ q.pc \in {"user", "delete", "sign", "save"}
       \/ q.op = "change" /\ q.pc # "read"
       => q.pwd # 0
    /\ q.pc \in {"user", "delete", "save"} => q.root # 0
    /\ q.pc \in {"delete", "save"} => q.iat # 0
    /\ q.op = "logout" => q.tok # 0

RequestsInv ==
    /\ TypeOK
    /\ \A r \in Requests : FollowsHandler(req[r])
    /\ \A t \in stored : origin[t].pwd # 0 /\ origin[t].root # 0

LEMMA IdleTyped ==
    /\ Idle \in ReqType /\ FollowsHandler(Idle)
    /\ Idle.pc = "idle" /\ Idle.op = "login" /\ Idle.pwd = 0 /\ Idle.late = FALSE
    /\ Idle.iat = 0 /\ Idle.root = 0 /\ Idle.tok = 0 /\ Idle.floor = 0 /\ Idle.blocked = FALSE
  BY SessionConstants DEF Idle, Request, ReqType, PCs, UserOps, FollowsHandler

\* A request that goes on with other fields.
LEMMA Reached ==
    ASSUME NEW q \in ReqType, NEW pc \in PCs
    PROVE  LET new == [q EXCEPT !.pc = pc]
           IN  /\ new \in ReqType /\ new.pc = pc /\ new.op = q.op /\ new.home = q.home
               /\ new.tok = q.tok /\ new.iat = q.iat /\ new.pwd = q.pwd /\ new.root = q.root
               /\ new.late = q.late /\ new.floor = q.floor /\ new.blocked = q.blocked
  BY DEF ReqType

LEMMA Vouched ==
    ASSUME NEW q \in ReqType, NEW pwd \in 0..MaxPasswords
    PROVE  LET new == [q EXCEPT !.pwd = pwd]
           IN  /\ new \in ReqType /\ new.pc = q.pc /\ new.op = q.op /\ new.home = q.home
               /\ new.tok = q.tok /\ new.iat = q.iat /\ new.pwd = pwd /\ new.root = q.root
               /\ new.late = q.late /\ new.floor = q.floor /\ new.blocked = q.blocked
  BY DEF ReqType

LEMMA Rooted ==
    ASSUME NEW q \in ReqType, NEW root \in 0..MaxLogins
    PROVE  LET new == [q EXCEPT !.root = root]
           IN  /\ new \in ReqType /\ new.pc = q.pc /\ new.op = q.op /\ new.home = q.home
               /\ new.tok = q.tok /\ new.iat = q.iat /\ new.pwd = q.pwd /\ new.root = root
               /\ new.late = q.late /\ new.floor = q.floor /\ new.blocked = q.blocked
  BY DEF ReqType

LEMMA Delayed ==
    ASSUME NEW q \in ReqType, NEW late \in BOOLEAN
    PROVE  LET new == [q EXCEPT !.late = late]
           IN  /\ new \in ReqType /\ new.pc = q.pc /\ new.op = q.op /\ new.home = q.home
               /\ new.tok = q.tok /\ new.iat = q.iat /\ new.pwd = q.pwd /\ new.root = q.root
               /\ new.late = late /\ new.floor = q.floor /\ new.blocked = q.blocked
  BY DEF ReqType

LEMMA Signed ==
    ASSUME NEW q \in ReqType, NEW iat \in 0..MaxTime
    PROVE  LET new == [q EXCEPT !.iat = iat]
           IN  /\ new \in ReqType /\ new.pc = q.pc /\ new.op = q.op /\ new.home = q.home
               /\ new.tok = q.tok /\ new.iat = iat /\ new.pwd = q.pwd /\ new.root = q.root
               /\ new.late = q.late /\ new.floor = q.floor /\ new.blocked = q.blocked
  BY DEF ReqType

LEMMA Brought ==
    ASSUME NEW q \in ReqType, NEW tok \in 0..MaxTime
    PROVE  LET new == [q EXCEPT !.tok = tok]
           IN  /\ new \in ReqType /\ new.pc = q.pc /\ new.op = q.op /\ new.home = q.home
               /\ new.tok = tok /\ new.iat = q.iat /\ new.pwd = q.pwd /\ new.root = q.root
               /\ new.late = q.late /\ new.floor = q.floor /\ new.blocked = q.blocked
  BY DEF ReqType

\* Request r is over, or goes on at pc; the others stay.
OthersStay(r) ==
    req' \in [Requests -> ReqType] /\ \A q \in Requests \ {r} : req'[q] = req[q]
Ends(r) == OthersStay(r) /\ req'[r] = Idle
Turns(r, pc, pwd, root, late, iat, tok) ==
    /\ OthersStay(r)
    /\ req'[r].pc = pc /\ req'[r].op = req[r].op /\ req'[r].home = req[r].home
    /\ req'[r].pwd = pwd /\ req'[r].root = root /\ req'[r].late = late
    /\ req'[r].iat = iat /\ req'[r].tok = tok
    /\ req'[r].floor = req[r].floor /\ req'[r].blocked = req[r].blocked
Goes(r, pc) ==
    Turns(r, pc, req[r].pwd, req[r].root, req[r].late, req[r].iat, req[r].tok)

LEMMA BecomesAnother ==
    ASSUME req \in [Requests -> ReqType], NEW r \in Requests, NEW new \in ReqType,
           Becomes(r, new)
    PROVE  OthersStay(r) /\ req'[r] = new
  BY DEF Becomes, OthersStay

LEMMA DoneEnds ==
    ASSUME req \in [Requests -> ReqType], NEW r \in Requests, Done(r)
    PROVE  Ends(r)
  BY BecomesAnother, IdleTyped DEF Done, Ends

LEMMA GotoGoes ==
    ASSUME req \in [Requests -> ReqType], NEW r \in Requests, NEW pc \in PCs, Goto(r, pc)
    PROVE  Goes(r, pc)
<1> DEFINE new == [req[r] EXCEPT !.pc = pc]
<1>1. req[r] \in ReqType
  OBVIOUS
<1>2. /\ new \in ReqType /\ new.pc = pc /\ new.op = req[r].op /\ new.home = req[r].home
      /\ new.tok = req[r].tok /\ new.iat = req[r].iat /\ new.pwd = req[r].pwd
      /\ new.root = req[r].root /\ new.late = req[r].late /\ new.floor = req[r].floor
      /\ new.blocked = req[r].blocked
  BY <1>1, Reached
<1> HIDE DEF new
<1>3. OthersStay(r) /\ req'[r] = new
  BY <1>2, BecomesAnother DEF Goto, new
<1>4. QED
  BY <1>2, <1>3 DEF Goes, Turns

LEMMA ReadTurns ==
    ASSUME RequestsInv, NEW r \in Requests, Read(r)
    PROVE  \/ Ends(r)
           \/ /\ LiveAndActive
              /\ Turns(r, CASE req[r].op = "login" -> "sign" [] req[r].op = "confirm" -> "leave"
                            [] OTHER -> "write",
                       account.pwd, req[r].root, req[r].late, req[r].iat, req[r].tok)
<1> DEFINE next == CASE req[r].op = "login" -> "sign" [] req[r].op = "confirm" -> "leave"
                     [] OTHER -> "write"
           there == [req[r] EXCEPT !.pc = next]
           new == [there EXCEPT !.pwd = account.pwd]
<1>1. req \in [Requests -> ReqType] /\ req[r] \in ReqType /\ next \in PCs
  BY DEF RequestsInv, TypeOK, PCs
<1>2. account.pwd \in 0..MaxPasswords
  BY DEF RequestsInv, TypeOK, AccountType, Passwords
<1>3. Done(r) \/ (LiveAndActive /\ Becomes(r, new))
  BY DEF Read
<1> HIDE DEF next
<1>4. /\ there \in ReqType /\ there.pc = next /\ there.op = req[r].op /\ there.home = req[r].home
      /\ there.tok = req[r].tok /\ there.iat = req[r].iat /\ there.pwd = req[r].pwd
      /\ there.root = req[r].root /\ there.late = req[r].late /\ there.floor = req[r].floor
      /\ there.blocked = req[r].blocked
  BY <1>1, Reached
<1> HIDE DEF there
<1>5. /\ new \in ReqType /\ new.pc = there.pc /\ new.op = there.op /\ new.home = there.home
      /\ new.tok = there.tok /\ new.iat = there.iat /\ new.pwd = account.pwd
      /\ new.root = there.root /\ new.late = there.late /\ new.floor = there.floor
      /\ new.blocked = there.blocked
  BY <1>2, <1>4, Vouched
<1> HIDE DEF new
<1>6. CASE Done(r)
  BY <1>1, <1>6, DoneEnds
<1>7. CASE LiveAndActive /\ Becomes(r, new)
  <2>1. OthersStay(r) /\ req'[r] = new
    BY <1>1, <1>5, <1>7, BecomesAnother
  <2>2. Turns(r, next, account.pwd, req[r].root, req[r].late, req[r].iat, req[r].tok)
    BY <1>4, <1>5, <2>1 DEF Turns
  <2>3. QED
    BY <1>7, <2>2 DEF next
<1>8. QED
  BY <1>3, <1>6, <1>7

LEMMA FindTurns ==
    ASSUME RequestsInv, NEW r \in Requests, Find(r)
    PROVE  LET t == req[r].tok
           IN  IF t \in stored
               THEN Turns(r, "user", origin[t].pwd, origin[t].root, t \in leaked, req[r].iat, t)
               ELSE Ends(r)
<1> DEFINE t == req[r].tok
           q1 == [req[r] EXCEPT !.pc = "user"]
           q2 == [q1 EXCEPT !.pwd = origin[t].pwd]
           q3 == [q2 EXCEPT !.root = origin[t].root]
           new == [q3 EXCEPT !.late = t \in leaked]
<1>1. req \in [Requests -> ReqType] /\ req[r] \in ReqType /\ "user" \in PCs
  BY DEF RequestsInv, TypeOK, PCs
<1>2. CASE t \notin stored
  BY <1>1, <1>2, DoneEnds DEF Find
<1>3. CASE t \in stored
  <2>1. origin[t].pwd \in 0..MaxPasswords /\ origin[t].root \in 0..MaxLogins
    BY <1>3 DEF RequestsInv, TypeOK
  <2>2. (t \in leaked) \in BOOLEAN
    OBVIOUS
  <2>3. Becomes(r, new)
    BY <1>3 DEF Find
  <2>4. /\ q1 \in ReqType /\ q1.pc = "user" /\ q1.op = req[r].op /\ q1.home = req[r].home
        /\ q1.tok = req[r].tok /\ q1.iat = req[r].iat /\ q1.pwd = req[r].pwd
        /\ q1.root = req[r].root /\ q1.late = req[r].late /\ q1.floor = req[r].floor
        /\ q1.blocked = req[r].blocked
    BY <1>1, Reached
  <2> HIDE DEF q1
  <2>5. /\ q2 \in ReqType /\ q2.pc = q1.pc /\ q2.op = q1.op /\ q2.home = q1.home
        /\ q2.tok = q1.tok /\ q2.iat = q1.iat /\ q2.pwd = origin[t].pwd /\ q2.root = q1.root
        /\ q2.late = q1.late /\ q2.floor = q1.floor /\ q2.blocked = q1.blocked
    BY <2>1, <2>4, Vouched
  <2> HIDE DEF q2
  <2>6. /\ q3 \in ReqType /\ q3.pc = q2.pc /\ q3.op = q2.op /\ q3.home = q2.home
        /\ q3.tok = q2.tok /\ q3.iat = q2.iat /\ q3.pwd = q2.pwd /\ q3.root = origin[t].root
        /\ q3.late = q2.late /\ q3.floor = q2.floor /\ q3.blocked = q2.blocked
    BY <2>1, <2>5, Rooted
  <2> HIDE DEF q3
  <2>7. /\ new \in ReqType /\ new.pc = q3.pc /\ new.op = q3.op /\ new.home = q3.home
        /\ new.tok = q3.tok /\ new.iat = q3.iat /\ new.pwd = q3.pwd /\ new.root = q3.root
        /\ new.late = (t \in leaked) /\ new.floor = q3.floor /\ new.blocked = q3.blocked
    BY <2>2, <2>6, Delayed
  <2> HIDE DEF new
  <2>8. OthersStay(r) /\ req'[r] = new
    BY <1>1, <2>3, <2>7, BecomesAnother
  <2>9. Turns(r, "user", origin[t].pwd, origin[t].root, t \in leaked, req[r].iat, t)
    BY <2>4, <2>5, <2>6, <2>7, <2>8 DEF Turns
  <2>10. QED
    BY <1>3, <2>9
<1>4. QED
  BY <1>2, <1>3

LEMMA UserTurns ==
    ASSUME RequestsInv, NEW r \in Requests, User(r)
    PROVE  Ends(r) \/ (LiveAndActive /\ Turns(r, "delete", req[r].pwd, req[r].root, req[r].late, now, req[r].tok))
<1> DEFINE q1 == [req[r] EXCEPT !.pc = "delete"]
           new == [q1 EXCEPT !.iat = now]
<1>1. req \in [Requests -> ReqType] /\ req[r] \in ReqType
  BY DEF RequestsInv, TypeOK
<1>2. now \in 0..MaxTime /\ "delete" \in PCs
  BY DEF RequestsInv, TypeOK, Seconds, PCs
<1>3. Done(r) \/ (LiveAndActive /\ Becomes(r, new))
  BY <1>2 DEF User
<1>4. /\ q1 \in ReqType /\ q1.pc = "delete" /\ q1.op = req[r].op
      /\ q1.home = req[r].home /\ q1.tok = req[r].tok /\ q1.iat = req[r].iat
      /\ q1.pwd = req[r].pwd /\ q1.root = req[r].root /\ q1.late = req[r].late
      /\ q1.floor = req[r].floor /\ q1.blocked = req[r].blocked
  BY <1>1, <1>2, Reached
<1> HIDE DEF q1
<1>5. /\ new \in ReqType /\ new.pc = q1.pc /\ new.op = q1.op /\ new.home = q1.home
      /\ new.tok = q1.tok /\ new.iat = now /\ new.pwd = q1.pwd /\ new.root = q1.root
      /\ new.late = q1.late /\ new.floor = q1.floor /\ new.blocked = q1.blocked
  BY <1>1, <1>2, <1>4, Signed
<1> HIDE DEF new
<1>6. CASE Done(r)
  BY <1>1, <1>6, DoneEnds
<1>7. CASE LiveAndActive /\ Becomes(r, new)
  <2>1. OthersStay(r) /\ req'[r] = new
    BY <1>1, <1>5, <1>7, BecomesAnother
  <2>2. Turns(r, "delete", req[r].pwd, req[r].root, req[r].late, now, req[r].tok)
    BY <1>4, <1>5, <2>1 DEF Turns
  <2>3. QED
    BY <1>2, <1>7, <2>2
<1>8. QED
  BY <1>3, <1>6, <1>7

LEMMA DeleteTurns ==
    ASSUME RequestsInv, NEW r \in Requests, Delete(r)
    PROVE  Turns(r, "save", req[r].pwd, req[r].root, req[r].late, req[r].iat, 0)
<1> DEFINE q1 == [req[r] EXCEPT !.pc = "save"]
           new == [q1 EXCEPT !.tok = 0]
<1>1. req \in [Requests -> ReqType] /\ req[r] \in ReqType
  BY DEF RequestsInv, TypeOK
<1>2. 0 \in 0..MaxTime /\ "save" \in PCs
  BY SessionConstants DEF PCs
<1>3. Becomes(r, new)
  BY <1>2 DEF Delete
<1>4. /\ q1 \in ReqType /\ q1.pc = "save" /\ q1.op = req[r].op /\ q1.home = req[r].home
      /\ q1.tok = req[r].tok /\ q1.iat = req[r].iat /\ q1.pwd = req[r].pwd
      /\ q1.root = req[r].root /\ q1.late = req[r].late /\ q1.floor = req[r].floor
      /\ q1.blocked = req[r].blocked
  BY <1>1, <1>2, Reached
<1> HIDE DEF q1
<1>5. /\ new \in ReqType /\ new.pc = q1.pc /\ new.op = q1.op /\ new.home = q1.home
      /\ new.tok = 0 /\ new.iat = q1.iat /\ new.pwd = q1.pwd /\ new.root = q1.root
      /\ new.late = q1.late /\ new.floor = q1.floor /\ new.blocked = q1.blocked
  BY <1>1, <1>2, <1>4, Brought
<1> HIDE DEF new
<1>6. OthersStay(r) /\ req'[r] = new
  BY <1>1, <1>3, <1>5, BecomesAnother
<1>7. Turns(r, "save", req[r].pwd, req[r].root, req[r].late, req[r].iat, 0)
  BY <1>4, <1>5, <1>6 DEF Turns
<1>8. QED
  BY <1>2, <1>7

LEMMA SignTurns ==
    ASSUME RequestsInv, NEW r \in Requests, Sign(r)
    PROVE  Turns(r, "save", req[r].pwd, logins + 1, req[r].late, now, req[r].tok)
<1> DEFINE q1 == [req[r] EXCEPT !.pc = "save"]
           q2 == [q1 EXCEPT !.iat = now]
           new == [q2 EXCEPT !.root = logins + 1]
<1>1. req \in [Requests -> ReqType] /\ req[r] \in ReqType
  BY DEF RequestsInv, TypeOK
<1>2. now \in 0..MaxTime /\ "save" \in PCs /\ logins + 1 \in 0..MaxLogins
  BY SessionConstants DEF RequestsInv, TypeOK, Seconds, PCs, Sign
<1>3. Becomes(r, new)
  BY <1>2 DEF Sign
<1>4. /\ q1 \in ReqType /\ q1.pc = "save" /\ q1.op = req[r].op /\ q1.home = req[r].home
      /\ q1.tok = req[r].tok /\ q1.iat = req[r].iat /\ q1.pwd = req[r].pwd
      /\ q1.root = req[r].root /\ q1.late = req[r].late /\ q1.floor = req[r].floor
      /\ q1.blocked = req[r].blocked
  BY <1>1, <1>2, Reached
<1> HIDE DEF q1
<1>5. /\ q2 \in ReqType /\ q2.pc = q1.pc /\ q2.op = q1.op /\ q2.home = q1.home
      /\ q2.tok = q1.tok /\ q2.iat = now /\ q2.pwd = q1.pwd /\ q2.root = q1.root
      /\ q2.late = q1.late /\ q2.floor = q1.floor /\ q2.blocked = q1.blocked
  BY <1>1, <1>2, <1>4, Signed
<1> HIDE DEF q2
<1>6. /\ new \in ReqType /\ new.pc = q2.pc /\ new.op = q2.op /\ new.home = q2.home
      /\ new.tok = q2.tok /\ new.iat = q2.iat /\ new.pwd = q2.pwd
      /\ new.root = logins + 1 /\ new.late = q2.late /\ new.floor = q2.floor
      /\ new.blocked = q2.blocked
  BY <1>1, <1>2, <1>5, Rooted
<1> HIDE DEF new
<1>7. OthersStay(r) /\ req'[r] = new
  BY <1>1, <1>3, <1>6, BecomesAnother
<1>8. Turns(r, "save", req[r].pwd, logins + 1, req[r].late, now, req[r].tok)
  BY <1>4, <1>5, <1>6, <1>7 DEF Turns
<1>9. QED
  BY <1>2, <1>8

LEMMA WriteTurns ==
    ASSUME RequestsInv, NEW r \in Requests, Write(r)
    PROVE  Turns(r, "purge", account.pwd + 1, req[r].root, req[r].late, req[r].iat, req[r].tok)
<1> DEFINE q1 == [req[r] EXCEPT !.pc = "purge"]
           new == [q1 EXCEPT !.pwd = account.pwd + 1]
<1>1. req \in [Requests -> ReqType] /\ req[r] \in ReqType
  BY DEF RequestsInv, TypeOK
<1>2. "purge" \in PCs /\ account.pwd + 1 \in 0..MaxPasswords
  BY SessionConstants DEF RequestsInv, TypeOK, AccountType, Passwords, PCs, Write
<1>3. Becomes(r, new)
  BY <1>2 DEF Write
<1>4. /\ q1 \in ReqType /\ q1.pc = "purge" /\ q1.op = req[r].op /\ q1.home = req[r].home
      /\ q1.tok = req[r].tok /\ q1.iat = req[r].iat /\ q1.pwd = req[r].pwd
      /\ q1.root = req[r].root /\ q1.late = req[r].late /\ q1.floor = req[r].floor
      /\ q1.blocked = req[r].blocked
  BY <1>1, <1>2, Reached
<1> HIDE DEF q1
<1>5. /\ new \in ReqType /\ new.pc = q1.pc /\ new.op = q1.op /\ new.home = q1.home
      /\ new.tok = q1.tok /\ new.iat = q1.iat /\ new.pwd = account.pwd + 1
      /\ new.root = q1.root /\ new.late = q1.late /\ new.floor = q1.floor
      /\ new.blocked = q1.blocked
  BY <1>1, <1>2, <1>4, Vouched
<1> HIDE DEF new
<1>6. OthersStay(r) /\ req'[r] = new
  BY <1>1, <1>3, <1>5, BecomesAnother
<1>7. Turns(r, "purge", account.pwd + 1, req[r].root, req[r].late, req[r].iat, req[r].tok)
  BY <1>4, <1>5, <1>6 DEF Turns
<1>8. QED
  BY <1>2, <1>7

\* What a request starts with.
Fresh(q) ==
    /\ q \in ReqType /\ FollowsHandler(q) /\ q.pc # "idle" /\ q.root = 0 /\ q.late = FALSE
    /\ q.op \in {"login", "refresh", "change"} => q.pwd = 0 /\ q.pc \in {"read", "find", "drop"}
    /\ q.op = "logout" => q.pc = "drop"
    /\ q.op = "use" => /\ q.pc = "block" /\ q.floor = floor
                      /\ q.blocked = (q.tok \in list.redis.blocked)
    /\ q.op \in {"reset", "confirm"} => q.pc = "read"

LEMMA RequestTyped ==
    \A op \in UserOps, pc \in PCs, p \in Procs, tok \in 0..MaxTime :
        /\ Request(op, pc, p, tok) \in ReqType
        /\ Request(op, pc, p, tok).pc = pc /\ Request(op, pc, p, tok).op = op
        /\ Request(op, pc, p, tok).tok = tok /\ Request(op, pc, p, tok).pwd = 0
        /\ Request(op, pc, p, tok).root = 0 /\ Request(op, pc, p, tok).late = FALSE
  BY SessionConstants DEF Request, ReqType

LEMMA BeginTurns ==
    ASSUME RequestsInv, NEW r \in Requests, NEW p \in Procs, Begin(r, p)
    PROVE  /\ req[r].pc = "idle" /\ OthersStay(r) /\ Fresh(req'[r]) /\ Unchanged
<1>1. PICK q : Start(r, q) /\ Fresh(q)
  <2>1. ASSUME NEW op, op \in {"login", "change"}, Start(r, Request(op, "read", p, 0))
        PROVE  \E q : Start(r, q) /\ Fresh(q)
    <3> DEFINE q == Request(op, "read", p, 0)
    <3>0. op \in UserOps /\ "read" \in PCs /\ 0 \in 0..MaxTime
      BY <2>1, SessionConstants DEF PCs, UserOps
    <3>1. q \in ReqType /\ q.pc = "read" /\ q.op = op /\ q.pwd = 0 /\ q.root = 0 /\ q.late = FALSE
      BY <3>0, RequestTyped
    <3> HIDE DEF q
    <3>2. Fresh(q)
      BY <2>1, <3>1 DEF Fresh, FollowsHandler
    <3>3. QED
      BY <2>1, <3>2 DEF q
  <2>2. ASSUME NEW op, op \in {"reset", "confirm"},
               Start(r, [Request(op, "read", p, 0) EXCEPT !.pwd = account.pwd])
        PROVE  \E q : Start(r, q) /\ Fresh(q)
    <3> DEFINE bare == Request(op, "read", p, 0)
               q == [bare EXCEPT !.pwd = account.pwd]
    <3>1. account.pwd \in 0..MaxPasswords
      BY DEF RequestsInv, TypeOK, AccountType, Passwords
    <3>0. op \in UserOps /\ "read" \in PCs /\ 0 \in 0..MaxTime
      BY <2>2, SessionConstants DEF PCs, UserOps
    <3>2. /\ bare \in ReqType /\ bare.pc = "read" /\ bare.op = op /\ bare.root = 0
          /\ bare.late = FALSE
      BY <3>0, RequestTyped
    <3> HIDE DEF bare
    <3>3. q \in ReqType /\ q.pc = "read" /\ q.op = op /\ q.root = 0 /\ q.late = FALSE
      BY <3>1, <3>2, Vouched
    <3> HIDE DEF q
    <3>4. Fresh(q)
      BY <2>2, <3>3 DEF Fresh, FollowsHandler
    <3>5. QED
      BY <2>2, <3>4 DEF q, bare
  <2>3. ASSUME NEW t \in Seconds, NEW op, op \in {"refresh", "logout"},
               NEW pc, pc \in {"find", "drop"}, op = "logout" => pc = "drop", Start(r, Request(op, pc, p, t))
        PROVE  \E q : Start(r, q) /\ Fresh(q)
    <3> DEFINE q == Request(op, pc, p, t)
    <3>0. op \in UserOps /\ pc \in PCs
      BY <2>3 DEF UserOps, PCs
    <3>1. t \in 0..MaxTime /\ t # 0
      BY SessionConstants DEF Seconds
    <3>2. /\ q \in ReqType /\ q.pc = pc /\ q.op = op /\ q.pwd = 0 /\ q.root = 0
          /\ q.late = FALSE /\ q.tok = t
      BY <3>0, <3>1, RequestTyped
    <3> HIDE DEF q
    <3>3. Fresh(q)
      BY <2>3, <3>1, <3>2 DEF Fresh, FollowsHandler
    <3>4. QED
      BY <2>3, <3>3 DEF q
  <2>4. ASSUME NEW t \in Seconds,
               Start(r, [Request("use", "block", p, t) EXCEPT !.floor = floor,
                             !.blocked = t \in list.redis.blocked])
        PROVE  \E q : Start(r, q) /\ Fresh(q)
    <3> DEFINE bare == Request("use", "block", p, t)
               at == [bare EXCEPT !.floor = floor]
               q == [at EXCEPT !.blocked = t \in list.redis.blocked]
    <3>1. /\ floor \in 0..MaxTime + 1 /\ t \in 0..MaxTime
          /\ "use" \in UserOps /\ "block" \in PCs
      BY SessionConstants DEF RequestsInv, TypeOK, Blocklist!Marks, Seconds, UserOps, PCs
    <3>2. (t \in list.redis.blocked) \in BOOLEAN
      OBVIOUS
    <3>3. /\ bare \in ReqType /\ bare.pc = "block" /\ bare.op = "use" /\ bare.root = 0
          /\ bare.late = FALSE /\ bare.tok = t
      BY <3>1, RequestTyped
    <3> HIDE DEF bare
    <3>4. /\ at \in ReqType /\ at.pc = "block" /\ at.op = "use" /\ at.root = 0
          /\ at.late = FALSE /\ at.tok = t /\ at.floor = floor
      BY <3>1, <3>3 DEF ReqType
    <3> HIDE DEF at
    <3>5. /\ q \in ReqType /\ q.pc = "block" /\ q.op = "use" /\ q.root = 0
          /\ q.late = FALSE /\ q.tok = t /\ q.floor = floor
          /\ q.blocked = (t \in list.redis.blocked)
      BY <3>2, <3>4 DEF ReqType
    <3> HIDE DEF q
    <3>6. Fresh(q)
      BY <3>5 DEF Fresh, FollowsHandler
    <3>7. QED
      BY <2>4, <3>6 DEF q, at, bare
  <2>5. QED
    BY <2>1, <2>2, <2>3, <2>4 DEF Begin
<1>2. req \in [Requests -> ReqType] /\ q \in ReqType
  BY <1>1 DEF RequestsInv, TypeOK, Fresh
<1>3. OthersStay(r) /\ req'[r] = q
  BY <1>1, <1>2, BecomesAnother DEF Start
<1>4. QED
  BY <1>1, <1>3 DEF Start

\* A request that finds that what it looked at is deleted, if it is in S.
ButLate(o, q) ==
    /\ o.pc = q.pc /\ o.op = q.op /\ o.home = q.home /\ o.tok = q.tok /\ o.iat = q.iat
    /\ o.pwd = q.pwd /\ o.root = q.root /\ o.floor = q.floor /\ o.blocked = q.blocked
StaysButLate(q) == ButLate(req'[q], req[q])
WithLate(o, q, S) == ButLate(o, req[q]) /\ (IF q \in S THEN o.late = TRUE ELSE o = req[q])
Delays(q, S) == WithLate(req'[q], q, S)

LEMMA OvertakenTyped ==
    ASSUME req \in [Requests -> ReqType], NEW S
    PROVE  /\ Overtaken(S) \in [Requests -> ReqType]
           /\ \A q \in Requests : WithLate(Overtaken(S)[q], q, S)
<1>1. ASSUME NEW q \in Requests
      PROVE  Overtaken(S)[q] \in ReqType /\ WithLate(Overtaken(S)[q], q, S)
  <2>1. req[q] \in ReqType /\ TRUE \in BOOLEAN
    OBVIOUS
  <2> DEFINE new == [req[q] EXCEPT !.late = TRUE]
  <2>2. /\ new \in ReqType /\ new.pc = req[q].pc /\ new.op = req[q].op
        /\ new.home = req[q].home /\ new.tok = req[q].tok /\ new.iat = req[q].iat
        /\ new.pwd = req[q].pwd /\ new.root = req[q].root /\ new.late = TRUE
        /\ new.floor = req[q].floor /\ new.blocked = req[q].blocked
    BY <2>1, Delayed
  <2>3. Overtaken(S)[q] = IF q \in S THEN new ELSE req[q]
    BY DEF Overtaken
  <2> HIDE DEF new
  <2>4. QED
    BY <2>1, <2>2, <2>3 DEF WithLate, ButLate
<1>2. QED
  BY <1>1 DEF Overtaken

-----------------------------------------------------------------------------
(* Sessions: the list of revoked tokens *)

LEMMA TokenRevoked ==
    ASSUME list \in Blocklist!ListType, NEW p \in Procs, NEW token \in Seconds, NEW answers \in BOOLEAN
    PROVE  LET new == Blocklist!RevokeToken(list, p, token, answers)
           IN  /\ new \in Blocklist!ListType /\ new.redis.mark = list.redis.mark
               /\ list.redis.blocked \subseteq new.redis.blocked
  BY DEF Blocklist!RevokeToken, Blocklist!ListType, Blocklist!Table

LEMMA MarkWritten ==
    ASSUME list \in Blocklist!ListType, NEW p \in Procs, NEW second \in Blocklist!Marks,
           NEW answers \in BOOLEAN
    PROVE  LET new == Blocklist!RevokeUserTokens(list, p, second, answers)
           IN  /\ new \in Blocklist!ListType /\ new.redis.blocked = list.redis.blocked
               /\ new.redis.mark = IF answers THEN second ELSE list.redis.mark
  BY DEF Blocklist!RevokeUserTokens, Blocklist!ListType, Blocklist!Table

LEMMA ListLapsed ==
    ASSUME list \in Blocklist!ListType, now \in Seconds
    PROVE  LET new == Blocklist!Lapsed(list, now)
           IN  /\ new \in Blocklist!ListType
               /\ new.redis.blocked = {t \in list.redis.blocked : now < t + MarkLife}
               /\ new.redis.mark = IF now + 1 < list.redis.mark + MarkLife
                                   THEN list.redis.mark ELSE 0
  BY DEF Blocklist!Lapsed, Blocklist!ListType, Blocklist!Table, Blocklist!Marks

LEMMA ListRestarted ==
    ASSUME list \in Blocklist!ListType, NEW p \in Procs
    PROVE  LET new == Blocklist!Restarted(list, p)
           IN  new \in Blocklist!ListType /\ new.redis = list.redis
  BY DEF Blocklist!Restarted, Blocklist!ListType, Blocklist!Table, Blocklist!Marks, Blocklist!EmptyTable

-----------------------------------------------------------------------------
(* Sessions: the types *)

LEMMA OneFollows ==
    ASSUME RequestsInv, NEW r \in Requests, OthersStay(r), FollowsHandler(req'[r])
    PROVE  req' \in [Requests -> ReqType] /\ \A q \in Requests : FollowsHandler(req'[q])
  BY DEF RequestsInv, OthersStay

LEMMA SameFollows ==
    ASSUME NEW q, NEW s, FollowsHandler(q), s.pc = q.pc, s.op = q.op, s.tok = q.tok,
           s.iat = q.iat, s.pwd = q.pwd, s.root = q.root
    PROVE  FollowsHandler(s)
  BY DEF FollowsHandler

LEMMA AllFollow ==
    ASSUME RequestsInv, req' \in [Requests -> ReqType],
           NEW r \in Requests, FollowsHandler(req'[r]),
           \A q \in Requests \ {r} : StaysButLate(q)
    PROVE  \A q \in Requests : FollowsHandler(req'[q])
<1>1. SUFFICES ASSUME NEW q \in Requests
               PROVE  FollowsHandler(req'[q])
  OBVIOUS
<1>2. CASE q = r
  BY <1>2
<1>3. CASE q # r
  <2>1. FollowsHandler(req[q]) /\ StaysButLate(q)
    BY <1>3 DEF RequestsInv
  <2>2. QED
    BY <2>1, SameFollows DEF StaysButLate, ButLate
<1>4. QED
  BY <1>2, <1>3

LEMMA EndsFollows ==
    ASSUME RequestsInv, NEW r \in Requests, Ends(r)
    PROVE  req' \in [Requests -> ReqType] /\ \A q \in Requests : FollowsHandler(req'[q])
  BY OneFollows, IdleTyped DEF Ends

LEMMA AnswersAreBoolean == Answers \subseteq BOOLEAN
  BY DEF Answers

\* What an answer may add to the reasons of a loss.
LEMMA MissedTyped ==
    ASSUME lost \subseteq {"redis", "crash", "lowered"}, NEW answers \in BOOLEAN
    PROVE  /\ Missed(answers) \subseteq {"redis", "crash", "lowered"} /\ lost \subseteq Missed(answers)
           /\ Missed(answers) \subseteq {"lowered"} => answers = TRUE
           /\ \A second : Lowered(answers, second) \subseteq {"lowered"}
  BY DEF Missed, Lowered

LEMMA ReadKept ==
    ASSUME RequestsInv, NEW r \in Requests, Read(r), UNCHANGED load
    PROVE  RequestsInv'
<1>0. FollowsHandler(req[r]) /\ req[r] \in ReqType /\ req \in [Requests -> ReqType]
  BY DEF RequestsInv, TypeOK
<1>1. \/ Ends(r)
      \/ Turns(r, CASE req[r].op = "login" -> "sign" [] req[r].op = "confirm" -> "leave"
                    [] OTHER -> "write",
               account.pwd, req[r].root, req[r].late, req[r].iat, req[r].tok)
  BY ReadTurns
<1>2. account.pwd # 0 /\ req[r].pc = "read"
  BY SessionConstants DEF RequestsInv, TypeOK, AccountType, Passwords, Read
<1>8. req' \in [Requests -> ReqType] /\ \A q \in Requests : FollowsHandler(req'[q])
  <2>1. CASE Ends(r)
    BY <2>1, EndsFollows
  <2>2. CASE Turns(r, CASE req[r].op = "login" -> "sign" [] req[r].op = "confirm" -> "leave"
                        [] OTHER -> "write",
                   account.pwd, req[r].root, req[r].late, req[r].iat, req[r].tok)
    <3>1. FollowsHandler(req'[r])
      BY <1>0, <1>2, <2>2 DEF FollowsHandler, Turns
    <3>2. QED
      BY <2>2, <3>1, OneFollows DEF Turns
  <2>3. QED
    BY <1>1, <2>1, <2>2
<1>9. QED
  BY <1>8 DEF Read, Unchanged, history, RequestsInv, TypeOK

LEMMA FindKept ==
    ASSUME RequestsInv, NEW r \in Requests, Find(r), UNCHANGED load
    PROVE  RequestsInv'
<1>0. FollowsHandler(req[r]) /\ req[r] \in ReqType /\ req \in [Requests -> ReqType]
  BY DEF RequestsInv, TypeOK
<1>1. LET t == req[r].tok
      IN  IF t \in stored
          THEN Turns(r, "user", origin[t].pwd, origin[t].root, t \in leaked, req[r].iat, t)
          ELSE Ends(r)
  BY FindTurns
<1>8. req' \in [Requests -> ReqType] /\ \A q \in Requests : FollowsHandler(req'[q])
  <2>1. CASE Ends(r)
    BY <2>1, EndsFollows
  <2>2. CASE req[r].tok \in stored
    <3>1. origin[req[r].tok].pwd # 0 /\ origin[req[r].tok].root # 0 /\ req[r].pc = "find"
      BY <2>2 DEF RequestsInv, Find
    <3>2. FollowsHandler(req'[r])
      BY <1>0, <1>1, <2>2, <3>1 DEF FollowsHandler, Turns
    <3>3. QED
      BY <1>1, <2>2, <3>2, OneFollows DEF Turns
  <2>3. QED
    BY <1>1, <2>1, <2>2
<1>9. QED
  BY <1>8 DEF Find, Unchanged, history, RequestsInv, TypeOK

LEMMA UserKept ==
    ASSUME RequestsInv, NEW r \in Requests, User(r), UNCHANGED load
    PROVE  RequestsInv'
<1>0. FollowsHandler(req[r]) /\ req[r] \in ReqType /\ req \in [Requests -> ReqType]
  BY DEF RequestsInv, TypeOK
<1>1. Ends(r) \/ Turns(r, "delete", req[r].pwd, req[r].root, req[r].late, now, req[r].tok)
  BY UserTurns
<1>2. now # 0 /\ req[r].pc = "user"
  BY SessionConstants DEF RequestsInv, TypeOK, Seconds, User
<1>8. req' \in [Requests -> ReqType] /\ \A q \in Requests : FollowsHandler(req'[q])
  <2>1. CASE Ends(r)
    BY <2>1, EndsFollows
  <2>2. CASE Turns(r, "delete", req[r].pwd, req[r].root, req[r].late, now, req[r].tok)
    <3>1. FollowsHandler(req'[r])
      BY <1>0, <1>2, <2>2 DEF FollowsHandler, Turns
    <3>2. QED
      BY <2>2, <3>1, OneFollows DEF Turns
  <2>3. QED
    BY <1>1, <2>1, <2>2
<1>9. QED
  BY <1>8 DEF User, Unchanged, history, RequestsInv, TypeOK

LEMMA DeleteKept ==
    ASSUME RequestsInv, NEW r \in Requests, Delete(r), UNCHANGED load
    PROVE  RequestsInv'
<1>0. FollowsHandler(req[r]) /\ req[r] \in ReqType /\ req \in [Requests -> ReqType]
  BY DEF RequestsInv, TypeOK
<1>1. Turns(r, "save", req[r].pwd, req[r].root, req[r].late, req[r].iat, 0)
  BY DeleteTurns
<1>2. req[r].pc = "delete" /\ req[r].root # 0 /\ req[r].root \in 0..MaxLogins
  BY <1>0 DEF Delete, FollowsHandler, ReqType
<1>3. req[r].root \in 1..MaxLogins
  BY <1>2, SessionConstants
<1>8. req' \in [Requests -> ReqType] /\ \A q \in Requests : FollowsHandler(req'[q])
  <2>1. FollowsHandler(req'[r])
    BY <1>0, <1>1, <1>2 DEF FollowsHandler, Turns
  <2>2. QED
    BY <1>1, <2>1, OneFollows DEF Turns
<1>9. QED
  BY <1>8, <1>3 DEF Delete, Unchanged, history, RequestsInv, TypeOK

LEMMA DropKept ==
    ASSUME RequestsInv, NEW r \in Requests, Drop(r), UNCHANGED load
    PROVE  RequestsInv'
<1>0. FollowsHandler(req[r]) /\ req[r] \in ReqType /\ req \in [Requests -> ReqType]
  BY DEF RequestsInv, TypeOK
<1>1. Ends(r) \/ (req[r].op = "logout" /\ Goes(r, "mark"))
  BY <1>0, DoneEnds, GotoGoes DEF Drop, PCs
<1>2. \A t \in stored : origin[t].root \in 1..MaxLogins
  BY SessionConstants DEF RequestsInv, TypeOK
<1>8. req' \in [Requests -> ReqType] /\ \A q \in Requests : FollowsHandler(req'[q])
  <2>1. CASE Ends(r)
    BY <2>1, EndsFollows
  <2>2. CASE req[r].op = "logout" /\ Goes(r, "mark")
    <3>1. FollowsHandler(req'[r])
      BY <1>0, <2>2 DEF FollowsHandler, Turns, Goes
    <3>2. QED
      BY <2>2, <3>1, OneFollows DEF Turns, Goes
  <2>3. QED
    BY <1>1, <2>1, <2>2
<1>9. QED
  BY <1>8, <1>2 DEF Drop, Unchanged, history, RequestsInv, TypeOK

LEMMA SignKept ==
    ASSUME RequestsInv, NEW r \in Requests, Sign(r), UNCHANGED load
    PROVE  RequestsInv'
<1>0. FollowsHandler(req[r]) /\ req[r] \in ReqType /\ req \in [Requests -> ReqType]
  BY DEF RequestsInv, TypeOK
<1>1. Turns(r, "save", req[r].pwd, logins + 1, req[r].late, now, req[r].tok)
  BY SignTurns
<1>2. /\ req[r].pc = "sign" /\ now # 0 /\ logins + 1 # 0 /\ logins + 1 \in 0..MaxLogins
  BY SessionConstants DEF Sign, RequestsInv, TypeOK, Seconds
<1>8. req' \in [Requests -> ReqType] /\ \A q \in Requests : FollowsHandler(req'[q])
  <2>1. FollowsHandler(req'[r])
    BY <1>0, <1>1, <1>2 DEF FollowsHandler, Turns
  <2>2. QED
    BY <1>1, <2>1, OneFollows DEF Turns
<1>9. QED
  BY <1>8, <1>2 DEF Sign, Unchanged, history, RequestsInv, TypeOK

LEMMA SaveKept ==
    ASSUME RequestsInv, NEW r \in Requests, Save(r), UNCHANGED load
    PROVE  RequestsInv'
<1>0. FollowsHandler(req[r]) /\ req[r] \in ReqType /\ req \in [Requests -> ReqType]
  BY DEF RequestsInv, TypeOK
<1>1. Ends(r)
  BY <1>0, DoneEnds DEF Save
<1>2. /\ req[r].pc = "save" /\ req[r].iat \in Seconds /\ req[r].pwd # 0 /\ req[r].root # 0
      /\ req[r].pwd \in 0..MaxPasswords /\ req[r].root \in 0..MaxLogins
  BY <1>0, SessionConstants DEF Save, FollowsHandler, ReqType, Seconds
<1> DEFINE source == [root |-> req[r].root, pwd |-> req[r].pwd]
<1>3. /\ source \in [root : 0..MaxLogins, pwd : 0..MaxPasswords]
      /\ source.root # 0 /\ source.pwd # 0
  BY <1>2
<1> HIDE DEF source
<1>4. \/ UNCHANGED <<stored, origin, leaked>>
      \/ /\ stored' = stored \cup {req[r].iat} /\ origin' = [origin EXCEPT ![req[r].iat] = source]
         /\ leaked' \subseteq leaked \cup {req[r].iat}
  BY DEF Save, source
<1>5. /\ stored' \subseteq Seconds /\ leaked' \subseteq stored'
      /\ origin' \in [Seconds -> [root : 0..MaxLogins, pwd : 0..MaxPasswords]]
      /\ \A t \in stored' : origin'[t].pwd # 0 /\ origin'[t].root # 0
  BY <1>2, <1>3, <1>4 DEF RequestsInv, TypeOK
<1>8. req' \in [Requests -> ReqType] /\ \A q \in Requests : FollowsHandler(req'[q])
  BY <1>1, EndsFollows
<1>9. QED
  BY <1>8, <1>5 DEF Save, Unchanged, history, RequestsInv, TypeOK

LEMMA WriteKept ==
    ASSUME RequestsInv, NEW r \in Requests, Write(r), UNCHANGED load
    PROVE  RequestsInv'
<1>0. FollowsHandler(req[r]) /\ req[r] \in ReqType /\ req \in [Requests -> ReqType]
  BY DEF RequestsInv, TypeOK
<1>1. Turns(r, "purge", account.pwd + 1, req[r].root, req[r].late, req[r].iat, req[r].tok)
  BY WriteTurns
<1>2. /\ req[r].pc = "write" /\ account.pwd + 1 # 0 /\ account.pwd + 1 \in Passwords
  BY SessionConstants DEF Write, RequestsInv, TypeOK, AccountType, Passwords
<1>3. account' \in AccountType
  BY <1>2 DEF Write, RequestsInv, TypeOK, AccountType
<1>8. req' \in [Requests -> ReqType] /\ \A q \in Requests : FollowsHandler(req'[q])
  <2>1. FollowsHandler(req'[r])
    BY <1>0, <1>1, <1>2 DEF FollowsHandler, Turns
  <2>2. QED
    BY <1>1, <2>1, OneFollows DEF Turns
<1>9. QED
  BY <1>8, <1>3 DEF Write, Unchanged, history, RequestsInv, TypeOK

LEMMA KeysKept ==
    ASSUME RequestsInv, NEW r \in Requests, Keys(r), UNCHANGED load
    PROVE  RequestsInv'
<1>0. FollowsHandler(req[r]) /\ req[r] \in ReqType /\ req \in [Requests -> ReqType]
  BY DEF RequestsInv, TypeOK
<1>1. Goes(r, "mark")
  BY <1>0, GotoGoes DEF Keys, PCs
<1>2. account' \in AccountType
  BY SessionConstants DEF Keys, RequestsInv, TypeOK, AccountType
<1>8. req' \in [Requests -> ReqType] /\ \A q \in Requests : FollowsHandler(req'[q])
  <2>1. FollowsHandler(req'[r])
    BY <1>0, <1>1 DEF FollowsHandler, Turns, Goes, Keys
  <2>2. QED
    BY <1>1, <2>1, OneFollows DEF Turns, Goes
<1>9. QED
  BY <1>8, <1>2 DEF Keys, Unchanged, history, RequestsInv, TypeOK

\* Requests in S find out that what they looked at has gone; r goes on as another.
LEMMA DelaysOthers ==
    ASSUME req \in [Requests -> ReqType], NEW r \in Requests, NEW S, NEW new \in ReqType,
           req' = [Overtaken(S) EXCEPT ![r] = new]
    PROVE  /\ req' \in [Requests -> ReqType] /\ req'[r] = new
           /\ \A q \in Requests \ {r} : Delays(q, S)
<1>1. Overtaken(S) \in [Requests -> ReqType]
  BY OvertakenTyped
<1>2. req' \in [Requests -> ReqType] /\ req'[r] = new
  BY <1>1
<1>3. ASSUME NEW q \in Requests \ {r}
      PROVE  Delays(q, S)
  <2>1. req'[q] = Overtaken(S)[q]
    BY <1>1
  <2>2. QED
    BY <2>1, OvertakenTyped DEF Delays
<1>4. QED
  BY <1>2, <1>3

LEMMA PurgeTurns ==
    ASSUME RequestsInv, NEW r \in Requests, Purge(r)
    PROVE  /\ req' \in [Requests -> ReqType]
           /\ req'[r].pc = "keys" /\ req'[r].op = req[r].op /\ req'[r].home = req[r].home
           /\ req'[r].pwd = req[r].pwd /\ req'[r].root = req[r].root
           /\ req'[r].late = req[r].late /\ req'[r].iat = req[r].iat
           /\ req'[r].tok = req[r].tok /\ req'[r].floor = req[r].floor
           /\ req'[r].blocked = req[r].blocked
           /\ \A q \in Requests \ {r} :
                 Delays(q, {x \in UnderWay \ {r} : req[x].pwd # account.pwd})
<1> DEFINE new == [req[r] EXCEPT !.pc = "keys"]
           S == {x \in UnderWay \ {r} : req[x].pwd # account.pwd}
<1>1. req \in [Requests -> ReqType] /\ req[r] \in ReqType
  BY DEF RequestsInv, TypeOK
<1>2. "keys" \in PCs
  BY DEF PCs
<1>3. /\ new \in ReqType /\ new.pc = "keys" /\ new.op = req[r].op /\ new.home = req[r].home
      /\ new.tok = req[r].tok /\ new.iat = req[r].iat /\ new.pwd = req[r].pwd
      /\ new.root = req[r].root /\ new.late = req[r].late /\ new.floor = req[r].floor
      /\ new.blocked = req[r].blocked
  BY <1>1, <1>2, Reached
<1>4. req' = [Overtaken(S) EXCEPT ![r] = new]
  BY DEF Purge
<1> HIDE DEF new, S
<1>5. /\ req' \in [Requests -> ReqType] /\ req'[r] = new
      /\ \A q \in Requests \ {r} : Delays(q, S)
  BY <1>1, <1>3, <1>4, DelaysOthers
<1>6. QED
  BY <1>3, <1>5 DEF S

LEMMA LeaveTurns ==
    ASSUME RequestsInv, NEW r \in Requests, Leave(r)
    PROVE  /\ req' \in [Requests -> ReqType] /\ req'[r] = Idle
           /\ \A q \in Requests \ {r} : Delays(q, UnderWay)
  BY DelaysOthers, IdleTyped DEF RequestsInv, TypeOK, Leave

LEMMA AdminDeleteTurns ==
    ASSUME RequestsInv, AdminDelete
    PROVE  /\ req' \in [Requests -> ReqType] /\ \A q \in Requests : Delays(q, UnderWay)
<1>1. req \in [Requests -> ReqType] /\ req' = Overtaken(UnderWay)
  BY DEF RequestsInv, TypeOK, AdminDelete
<1>2. QED
  BY <1>1, OvertakenTyped DEF Delays

LEMMA MarkTurns ==
    ASSUME RequestsInv, NEW r \in Requests, Mark(r)
    PROVE  \/ req[r].op = "logout" /\ Goes(r, "revoke")
           \/ req[r].op = "change" /\ Goes(r, "sign")
           \/ Ends(r)
<1>1. req \in [Requests -> ReqType] /\ "revoke" \in PCs /\ "sign" \in PCs
  BY DEF RequestsInv, TypeOK, PCs
<1>2. \/ req[r].op = "logout" /\ Goto(r, "revoke")
      \/ req[r].op = "change" /\ Goto(r, "sign")
      \/ Done(r)
  BY DEF Mark
<1>3. QED
  BY <1>1, <1>2, GotoGoes, DoneEnds

LEMMA LetsIn ==
    ASSUME RequestsInv, NEW r \in Requests
    PROVE  /\ Block(r) => Ends(r) \/ Goes(r, "check")
           /\ Check(r) => Ends(r) \/ Goes(r, "owner")
           /\ Owner(r) => Ends(r) \/ Goes(r, "effect")
           /\ Effect(r) => Ends(r)
           /\ Revoke(r) => Goes(r, "mark again")
<1>1. /\ req \in [Requests -> ReqType] /\ "check" \in PCs /\ "owner" \in PCs
      /\ "effect" \in PCs /\ "mark again" \in PCs
  BY DEF RequestsInv, TypeOK, PCs
<1>2. Block(r) => Done(r) \/ Goto(r, "check")
  BY DEF Block
<1>3. Check(r) => Done(r) \/ Goto(r, "owner")
  BY DEF Check
<1>4. (Owner(r) => Done(r) \/ Goto(r, "effect")) /\ (Effect(r) => Done(r))
  BY DEF Owner, Effect
<1>5. Revoke(r) => Goto(r, "mark again")
  BY DEF Revoke
<1>6. QED
  BY <1>1, <1>2, <1>3, <1>4, <1>5, GotoGoes, DoneEnds

LEMMA PurgeKept ==
    ASSUME RequestsInv, NEW r \in Requests, Purge(r), UNCHANGED load
    PROVE  RequestsInv'
<1>0. FollowsHandler(req[r]) /\ req[r] \in ReqType /\ req[r].pc = "purge"
  BY DEF RequestsInv, TypeOK, Purge
<1>1. req' \in [Requests -> ReqType] /\ \A q \in Requests \ {r} : StaysButLate(q)
  BY PurgeTurns DEF Delays, WithLate, StaysButLate
<1>2. FollowsHandler(req'[r])
  BY <1>0, PurgeTurns DEF FollowsHandler
<1>3. \A q \in Requests : FollowsHandler(req'[q])
  BY <1>1, <1>2, AllFollow
<1>4. QED
  BY <1>1, <1>3 DEF Purge, RequestsInv, TypeOK

LEMMA MarkKept ==
    ASSUME RequestsInv, NEW r \in Requests, Mark(r), UNCHANGED load
    PROVE  RequestsInv'
<1>0. FollowsHandler(req[r]) /\ req[r] \in ReqType /\ req \in [Requests -> ReqType]
  BY DEF RequestsInv, TypeOK
<1>1. req' \in [Requests -> ReqType] /\ \A q \in Requests : FollowsHandler(req'[q])
  <2>1. CASE Ends(r)
    BY <2>1, EndsFollows
  <2>2. CASE req[r].op = "logout" /\ Goes(r, "revoke")
    <3>1. FollowsHandler(req'[r])
      BY <1>0, <2>2 DEF FollowsHandler, Turns, Goes
    <3>2. QED
      BY <2>2, <3>1, OneFollows DEF Turns, Goes
  <2>3. CASE req[r].op = "change" /\ Goes(r, "sign")
    <3>0. req[r].pc \in {"mark", "mark again"}
      BY DEF Mark
    <3>1. FollowsHandler(req'[r])
      BY <1>0, <2>3, <3>0 DEF FollowsHandler, Turns, Goes
    <3>2. QED
      BY <2>3, <3>1, OneFollows DEF Turns, Goes
  <2>4. QED
    BY <2>1, <2>2, <2>3, MarkTurns
<1>2. /\ now \in Blocklist!Marks /\ now + 1 \in Blocklist!Marks /\ floor \in Blocklist!Marks
      /\ list \in Blocklist!ListType /\ lost \subseteq {"redis", "crash", "lowered"}
  BY DEF RequestsInv, TypeOK, Blocklist!Marks
<1> DEFINE second == IF req[r].op = "reset" THEN now + 1 ELSE now
<1>3. second \in Blocklist!Marks
  BY <1>2
<1>4. PICK answers \in Answers :
          /\ list' = Blocklist!RevokeUserTokens(list, req[r].home, second, answers)
          /\ floor' = IF answers /\ second > floor THEN second ELSE floor
          /\ lost' = Missed(answers) \cup Lowered(answers, second)
  BY DEF Mark
<1> HIDE DEF second
<1>5. answers \in BOOLEAN /\ req[r].home \in Procs
  BY <1>0, AnswersAreBoolean DEF ReqType
<1>6. list' \in Blocklist!ListType
  BY <1>2, <1>3, <1>4, <1>5, MarkWritten
<1>7. lost' \subseteq {"redis", "crash", "lowered"} /\ floor' \in Blocklist!Marks
  BY <1>2, <1>3, <1>4, <1>5, MissedTyped
<1>8. QED
  BY <1>1, <1>6, <1>7 DEF Mark, RequestsInv, TypeOK

LEMMA RevokeKept ==
    ASSUME RequestsInv, NEW r \in Requests, Revoke(r), UNCHANGED load
    PROVE  RequestsInv'
<1>0. /\ FollowsHandler(req[r]) /\ req[r] \in ReqType /\ req[r].pc = "revoke"
      /\ req \in [Requests -> ReqType]
  BY DEF RequestsInv, TypeOK, Revoke
<1>1. req' \in [Requests -> ReqType] /\ \A q \in Requests : FollowsHandler(req'[q])
  <2>1. Goes(r, "mark again")
    BY LetsIn
  <2>2. FollowsHandler(req'[r])
    BY <1>0, <2>1 DEF FollowsHandler, Turns, Goes
  <2>3. QED
    BY <2>1, <2>2, OneFollows DEF Turns, Goes
<1>2. req[r].op = "logout" /\ req[r].tok \in Seconds /\ req[r].home \in Procs
  BY <1>0, SessionConstants DEF FollowsHandler, ReqType, UserOps, Seconds
<1>3. PICK answers \in Answers :
          /\ list' = Blocklist!RevokeToken(list, req[r].home, req[r].tok, answers)
          /\ lost' = Missed(answers)
  BY DEF Revoke
<1>4. answers \in BOOLEAN /\ list \in Blocklist!ListType /\ lost \subseteq {"redis", "crash", "lowered"}
  BY AnswersAreBoolean DEF RequestsInv, TypeOK
<1>5. list' \in Blocklist!ListType
  BY <1>2, <1>3, <1>4, TokenRevoked
<1>6. lost' \subseteq {"redis", "crash", "lowered"}
  BY <1>3, <1>4, MissedTyped
<1>7. QED
  BY <1>1, <1>5, <1>6 DEF Revoke, RequestsInv, TypeOK

LEMMA LetInKept ==
    ASSUME RequestsInv, NEW r \in Requests, Block(r) \/ Check(r) \/ Owner(r) \/ Effect(r),
           UNCHANGED load
    PROVE  RequestsInv'
<1>0. /\ FollowsHandler(req[r]) /\ req[r] \in ReqType /\ req \in [Requests -> ReqType]
      /\ lost \subseteq {"redis", "crash", "lowered"}
  BY DEF RequestsInv, TypeOK
<1>1. req' \in [Requests -> ReqType] /\ \A q \in Requests : FollowsHandler(req'[q])
  <2>1. CASE Ends(r)
    BY <2>1, EndsFollows
  <2>2. ASSUME NEW pc \in {"check", "owner", "effect"}, Goes(r, pc)
        PROVE  req' \in [Requests -> ReqType] /\ \A q \in Requests : FollowsHandler(req'[q])
    <3>0. req[r].pc \in {"block", "check", "owner", "effect"}
      BY DEF Block, Check, Owner, Effect
    <3>1. FollowsHandler(req'[r])
      BY <1>0, <2>2, <3>0 DEF FollowsHandler, Turns, Goes, ReqType, UserOps
    <3>2. QED
      BY <2>2, <3>1, OneFollows DEF Turns, Goes
  <2>3. QED
    BY <2>1, <2>2, LetsIn
<1>2. lost' \subseteq {"redis", "crash", "lowered"}
  BY <1>0, MissedTyped, AnswersAreBoolean DEF Block, Check, Owner, Effect, Unchanged, history
<1>3. account' \in AccountType
  BY SessionConstants
     DEF Block, Check, Owner, Effect, Unchanged, RequestsInv, TypeOK, AccountType, Passwords
<1>4. QED
  BY <1>1, <1>2, <1>3
     DEF Block, Check, Owner, Effect, Unchanged, history, RequestsInv, TypeOK

LEMMA DeactivatedTyped ==
    ASSUME account \in AccountType
    PROVE  /\ Deactivated(account) \in AccountType /\ Deactivated(account).deleted = TRUE
           /\ Deactivated(account).pwd = account.pwd /\ Deactivated(account).key = 0
<1> DEFINE a1 == [account EXCEPT !.deleted = TRUE]
           a2 == [a1 EXCEPT !.active = FALSE]
           new == [a2 EXCEPT !.key = 0]
<1>1. 0 \in 0..MaxPasswords
  BY SessionConstants
<1>2. a1 \in AccountType /\ a1.deleted = TRUE /\ a1.pwd = account.pwd
  BY DEF AccountType
<1> HIDE DEF a1
<1>3. a2 \in AccountType /\ a2.deleted = TRUE /\ a2.pwd = account.pwd
  BY <1>2 DEF AccountType
<1> HIDE DEF a2
<1>4. new \in AccountType /\ new.deleted = TRUE /\ new.pwd = account.pwd /\ new.key = 0
  BY <1>1, <1>3 DEF AccountType
<1>5. Deactivated(account) = new
  BY DEF Deactivated, a1, a2
<1> HIDE DEF new
<1>6. QED
  BY <1>4, <1>5

LEMMA LeaveKept ==
    ASSUME RequestsInv, NEW r \in Requests, Leave(r), UNCHANGED load
    PROVE  RequestsInv'
<1>1. req' \in [Requests -> ReqType] /\ \A q \in Requests \ {r} : StaysButLate(q)
  BY LeaveTurns DEF Delays, WithLate, StaysButLate
<1>2. FollowsHandler(req'[r])
  BY LeaveTurns, IdleTyped
<1>3. \A q \in Requests : FollowsHandler(req'[q])
  BY <1>1, <1>2, AllFollow
<1>4. account' \in AccountType
  BY DeactivatedTyped DEF Leave, RequestsInv, TypeOK
<1>5. QED
  BY <1>1, <1>3, <1>4 DEF Leave, RequestsInv, TypeOK

LEMMA BeginKept ==
    ASSUME RequestsInv, NEW r \in Requests, NEW p \in Procs, Begin(r, p), UNCHANGED load
    PROVE  RequestsInv'
<1>1. OthersStay(r) /\ Fresh(req'[r]) /\ Unchanged
  BY BeginTurns
<1>2. req' \in [Requests -> ReqType] /\ \A q \in Requests : FollowsHandler(req'[q])
  BY <1>1, OneFollows DEF Fresh
<1>3. QED
  BY <1>1, <1>2 DEF Unchanged, history, RequestsInv, TypeOK

LEMMA AdminDeleteKept ==
    ASSUME RequestsInv, AdminDelete, UNCHANGED load
    PROVE  RequestsInv'
<1>1. req' \in [Requests -> ReqType] /\ \A q \in Requests : StaysButLate(q)
  BY AdminDeleteTurns DEF Delays, WithLate, StaysButLate
<1>2. ASSUME NEW q \in Requests
      PROVE  FollowsHandler(req'[q])
  <2>1. FollowsHandler(req[q]) /\ StaysButLate(q)
    BY <1>1 DEF RequestsInv
  <2>2. QED
    BY <2>1, SameFollows DEF StaysButLate, ButLate
<1>3. account' \in AccountType
  BY DeactivatedTyped DEF AdminDelete, RequestsInv, TypeOK
<1>4. QED
  BY <1>1, <1>2, <1>3 DEF AdminDelete, RequestsInv, TypeOK

LEMMA RestartTurns ==
    ASSUME RequestsInv, NEW p \in Procs, Restart(p)
    PROVE  /\ req' \in [Requests -> ReqType]
           /\ \A q \in Requests :
                 \/ req'[q] = req[q]
                 \/ req'[q] = Idle /\ (Revoking(q) => "crash" \in lost')
           /\ lost \subseteq lost' /\ lost' \subseteq {"redis", "crash", "lowered"}
  BY IdleTyped DEF Restart, RequestsInv, TypeOK

LEMMA RestartKept ==
    ASSUME RequestsInv, NEW p \in Procs, Restart(p), UNCHANGED load
    PROVE  RequestsInv'
<1>1. \A q \in Requests : FollowsHandler(req'[q])
  BY RestartTurns, IdleTyped DEF RequestsInv
<1>2. list' \in Blocklist!ListType
  BY ListRestarted DEF Restart, RequestsInv, TypeOK
<1>3. QED
  BY <1>1, <1>2, RestartTurns DEF Restart, RequestsInv, TypeOK

LEMMA TimeKept ==
    ASSUME RequestsInv, UNCHANGED load,
           \/ SendToken \/ TokenExpires \/ (\E b \in BOOLEAN : SetActive(b))
           \/ CleanUp \/ Lapse \/ Tick
    PROVE  RequestsInv'
<1>1. CASE SendToken \/ TokenExpires
  BY <1>1 DEF SendToken, TokenExpires, history, RequestsInv, TypeOK
<1>2. CASE \E b \in BOOLEAN : SetActive(b)
  BY <1>2 DEF SetActive, history, RequestsInv, TypeOK, AccountType
<1>3. CASE CleanUp
  BY <1>3 DEF CleanUp, RequestsInv, TypeOK
<1>4. CASE Lapse
  <2>1. list' \in Blocklist!ListType
    BY <1>4, ListLapsed DEF Lapse, RequestsInv, TypeOK
  <2>2. QED
    BY <1>4, <2>1 DEF Lapse, history, RequestsInv, TypeOK
<1>5. CASE Tick
  <2>1. now' \in Seconds
    BY <1>5, SessionConstants DEF Tick, RequestsInv, TypeOK, Seconds
  <2>2. QED
    BY <1>5, <2>1 DEF Tick, history, RequestsInv, TypeOK
<1>6. QED
  BY <1>1, <1>2, <1>3, <1>4, <1>5

LEMMA RequestsStart ==
    ASSUME Init
    PROVE  RequestsInv
<1>1. /\ account \in AccountType /\ now \in Seconds /\ floor \in Blocklist!Marks
      /\ list \in Blocklist!ListType
  BY SessionConstants
     DEF Init, AccountType, Passwords, Seconds, Blocklist!Marks, Blocklist!ListType,
         Blocklist!EmptyList, Blocklist!EmptyTable, Blocklist!Table
<1>2. req \in [Requests -> ReqType] /\ \A r \in Requests : FollowsHandler(req[r])
  BY IdleTyped DEF Init
<1>3. origin \in [Seconds -> [root : 0..MaxLogins, pwd : 0..MaxPasswords]]
  BY SessionConstants DEF Init
<1>4. QED
  BY <1>1, <1>2, <1>3, SessionConstants DEF Init, RequestsInv, TypeOK

LEMMA RequestsKept ==
    ASSUME RequestsInv, [Next]_vars
    PROVE  RequestsInv'
<1>1. CASE UNCHANGED vars
  BY <1>1 DEF vars, RequestsInv, TypeOK
<1>2. CASE Step /\ UNCHANGED load
  <2>1. ASSUME NEW r \in Requests, RequestStep(r)
        PROVE  RequestsInv'
    BY <1>2, <2>1, ReadKept, FindKept, UserKept, DeleteKept, DropKept, SignKept, SaveKept,
       WriteKept, PurgeKept, KeysKept, MarkKept, RevokeKept, LetInKept, LeaveKept
       DEF RequestStep
  <2>2. ASSUME NEW r \in Requests, NEW p \in Procs, Begin(r, p)
        PROVE  RequestsInv'
    BY <1>2, <2>2, BeginKept
  <2>3. CASE AdminDelete
    BY <1>2, <2>3, AdminDeleteKept
  <2>4. ASSUME NEW p \in Procs, Restart(p)
        PROVE  RequestsInv'
    BY <1>2, <2>4, RestartKept
  <2>5. QED
    BY <1>2, <2>1, <2>2, <2>3, <2>4, TimeKept DEF Step
<1>3. QED
  BY <1>1, <1>2 DEF Next

\* Every variable of Sessions keeps its type, and every request is at a step of its
\* handler: whoever is about to store a refresh token knows the password and the
\* login behind it.
THEOREM SessionsTypeCorrect == Spec => []RequestsInv
<1>1. Init => RequestsInv
  BY RequestsStart
<1>2. RequestsInv /\ [Next]_vars => RequestsInv'
  BY RequestsKept
<1>3. QED
  BY <1>1, <1>2, PTL DEF Spec

-----------------------------------------------------------------------------
(* Sessions: the end of old sessions *)

\* The refresh tokens of former passwords are still to be deleted.
Owed == \E s \in Requests : req[s].pc = "purge" /\ req[s].pwd = account.pwd

\* What a token or a request may go back to: the present password, or one whose
\* tokens are still to be deleted.
Vouches(pwd) == ~account.deleted /\ (pwd = account.pwd \/ Owed \/ "crash" \in lost)

\* A request that stores a token which was not to be deleted when it looked.
Counts(q) == q \in UnderWay /\ ~req[q].late

\* The inductive form of OldSessionsEnd: it speaks of the time between the write
\* of a password and the deletion of what is older, and of the requests that are
\* about to store a token.
PasswordInv ==
    /\ \A t \in stored \ leaked : Vouches(origin[t].pwd)
    /\ \A q \in Requests : Counts(q) => Vouches(req[q].pwd)
    /\ \/ account.key \in {0, account.pwd}
       \/ \E s \in Requests : req[s].pc \in {"purge", "keys"}
       \/ "crash" \in lost

\* A step after which the same passwords vouch.
LEMMA VouchesStill ==
    ASSUME account'.pwd = account.pwd, account'.deleted = account.deleted, lost \subseteq lost',
           \A q \in Requests : req[q].pc = "purge" =>
              "crash" \in lost' \/ (req'[q].pc = "purge" /\ req'[q].pwd = req[q].pwd)
    PROVE  \A pwd : Vouches(pwd) => Vouches(pwd)'
  BY DEF Vouches, Owed

\* A step of request r that writes no password and deletes nobody's tokens.
LEMMA OneVouched ==
    ASSUME PasswordInv, NEW r \in Requests, OthersStay(r), req[r].pc # "purge",
           account'.pwd = account.pwd, account'.deleted = account.deleted, lost \subseteq lost',
           account'.key \in {0, account.pwd, account.key},
           req[r].pc = "keys" => account'.key = 0,
           Counts(r)' => Vouches(req'[r].pwd),
           \A t \in stored' \ leaked' : Vouches(origin'[t].pwd)
    PROVE  PasswordInv'
<1>1. \A q \in Requests : req[q].pc = "purge" =>
         "crash" \in lost' \/ (req'[q].pc = "purge" /\ req'[q].pwd = req[q].pwd)
  BY DEF OthersStay
<1>2. \A pwd : Vouches(pwd) => Vouches(pwd)'
  BY <1>1, VouchesStill
<1>3. \A q \in Requests : Counts(q)' => Vouches(req'[q].pwd)
  BY DEF OthersStay, Counts, UnderWay, PasswordInv
<1>4. \/ account'.key \in {0, account'.pwd}
      \/ \E s \in Requests : req'[s].pc \in {"purge", "keys"}
      \/ "crash" \in lost'
  BY DEF PasswordInv, OthersStay
<1>5. QED
  BY <1>2, <1>3, <1>4 DEF PasswordInv

LEMMA CountsWhen ==
    ASSUME NEW r \in Requests
    PROVE  /\ Ends(r) => ~Counts(r)'
           /\ \A pc, root, iat, tok :
                 Turns(r, pc, req[r].pwd, root, req[r].late, iat, tok) =>
                    (Counts(r)' => Counts(r) /\ req'[r].pwd = req[r].pwd)
  BY IdleTyped DEF Ends, Turns, Counts, UnderWay

\* Steps of a request that leave the row, and add no token.
LEMMA PlainVouched ==
    ASSUME RequestsInv, PasswordInv, NEW r \in Requests,
           \/ Find(r) \/ User(r) \/ Delete(r) \/ Drop(r) \/ Sign(r) \/ Mark(r) \/ Revoke(r)
           \/ Block(r) \/ Check(r) \/ Owner(r)
    PROVE  PasswordInv'
<1>1. \/ Ends(r)
      \/ \E pc, root, iat, tok : Turns(r, pc, req[r].pwd, root, req[r].late, iat, tok)
      \/ /\ Find(r) /\ req[r].tok \in stored
         /\ \E root, iat, tok :
               Turns(r, "user", origin[req[r].tok].pwd, root, req[r].tok \in leaked, iat, tok)
  <2>1. Find(r) => \/ Ends(r)
                   \/ /\ req[r].tok \in stored
                      /\ \E root, iat, tok :
                            Turns(r, "user", origin[req[r].tok].pwd, root,
                                  req[r].tok \in leaked, iat, tok)
    BY FindTurns
  <2>2. User(r) \/ Delete(r) \/ Sign(r) =>
           \/ Ends(r)
           \/ \E pc, root, iat, tok : Turns(r, pc, req[r].pwd, root, req[r].late, iat, tok)
    BY UserTurns, DeleteTurns, SignTurns
  <2>3. \A pc : Goes(r, pc) =>
           \E root, iat, tok : Turns(r, pc, req[r].pwd, root, req[r].late, iat, tok)
    BY DEF Goes
  <2>4. Drop(r) => Ends(r) \/ \E pc : Goes(r, pc)
    BY DoneEnds, GotoGoes DEF Drop, RequestsInv, TypeOK, PCs
  <2>5. Mark(r) \/ Revoke(r) \/ Block(r) \/ Check(r) \/ Owner(r) => Ends(r) \/ \E pc : Goes(r, pc)
    BY MarkTurns, LetsIn
  <2>6. QED
    BY <2>1, <2>2, <2>3, <2>4, <2>5
<1>2. OthersStay(r)
  BY <1>1 DEF Ends, Turns
<1>3. Counts(r)' => Vouches(req'[r].pwd)
  <2>1. CASE \E pc, root, iat, tok : Turns(r, pc, req[r].pwd, root, req[r].late, iat, tok)
    BY <2>1, CountsWhen DEF PasswordInv
  <2>2. CASE /\ req[r].tok \in stored
             /\ \E root, iat, tok :
                   Turns(r, "user", origin[req[r].tok].pwd, root, req[r].tok \in leaked, iat, tok)
    BY <2>2 DEF Turns, Counts, PasswordInv
  <2>3. QED
    BY <1>1, <2>1, <2>2, CountsWhen
<1>4. /\ account' = account /\ origin' = origin /\ stored' \ leaked' \subseteq stored \ leaked
      /\ req[r].pc # "purge" /\ req[r].pc # "keys"
  BY DEF Find, User, Delete, Drop, Sign, Mark, Revoke, Block, Check, Owner, Unchanged, history
<1>5. lost \subseteq lost'
  <2>1. lost' = lost \/ \E answers \in Answers : \E more : lost' = Missed(answers) \cup more
    <3>1. CASE Mark(r)
      BY <3>1 DEF Mark
    <3>2. CASE Revoke(r) \/ Block(r) \/ Check(r)
      <4>1. \E answers \in Answers : lost' = Missed(answers)
        BY <3>2 DEF Revoke, Block, Check
      <4>2. \A answers \in Answers : Missed(answers) = Missed(answers) \cup {}
        OBVIOUS
      <4>3. QED
        BY <4>1, <4>2
    <3>3. CASE ~Mark(r) /\ ~Revoke(r) /\ ~Block(r) /\ ~Check(r)
      BY <3>3 DEF Find, User, Delete, Drop, Sign, Owner, Unchanged, history
    <3>4. QED
      BY <3>1, <3>2, <3>3
  <2>2. \A answers : lost \subseteq Missed(answers)
    BY DEF Missed
  <2>3. QED
    BY <2>1, <2>2
<1>6. \A t \in stored' \ leaked' : Vouches(origin'[t].pwd)
  BY <1>4 DEF PasswordInv
<1>7. QED
  BY <1>2, <1>3, <1>4, <1>5, <1>6, OneVouched

LEMMA BeginVouched ==
    ASSUME RequestsInv, PasswordInv, NEW r \in Requests, NEW p \in Procs, Begin(r, p)
    PROVE  PasswordInv'
<1>1. req[r].pc = "idle" /\ OthersStay(r) /\ Fresh(req'[r]) /\ Unchanged
  BY BeginTurns
<1>2. ~Counts(r)'
  BY <1>1 DEF Fresh, Counts, UnderWay
<1>3. \A t \in stored' \ leaked' : Vouches(origin'[t].pwd)
  BY <1>1 DEF Unchanged, history, PasswordInv
<1>4. QED
  BY <1>1, <1>2, <1>3, OneVouched DEF Unchanged, history

\* The password is read.
LEMMA ReadVouched ==
    ASSUME RequestsInv, PasswordInv, NEW r \in Requests, Read(r)
    PROVE  PasswordInv'
<1>1. \/ Ends(r)
      \/ LiveAndActive /\ OthersStay(r) /\ req'[r].pwd = account.pwd
  BY ReadTurns DEF Turns
<1>2. OthersStay(r)
  BY <1>1 DEF Ends
<1>3. Counts(r)' => Vouches(req'[r].pwd)
  BY <1>1, CountsWhen DEF Vouches, LiveAndActive
<1>4. req[r].pc = "read" /\ Unchanged
  BY DEF Read
<1>5. \A t \in stored' \ leaked' : Vouches(origin'[t].pwd)
  BY <1>4 DEF Unchanged, history, PasswordInv
<1>6. QED
  BY <1>2, <1>3, <1>4, <1>5, OneVouched DEF Unchanged, history

\* A token is stored for a password that vouches, unless its request is late.
LEMMA SaveVouched ==
    ASSUME RequestsInv, PasswordInv, NEW r \in Requests, Save(r)
    PROVE  PasswordInv'
<1>1. Ends(r)
  BY DoneEnds DEF Save, RequestsInv, TypeOK
<1>2. /\ req[r].pc = "save" /\ req[r].pwd # 0 /\ req[r].iat \in Seconds
      /\ req[r].op \in {"login", "refresh", "change"}
  <2>1. /\ req[r].pc = "save" /\ FollowsHandler(req[r]) /\ req[r].op \in UserOps
        /\ req[r].iat \in 0..MaxTime
    BY DEF Save, RequestsInv, TypeOK, ReqType
  <2>2. req[r].pwd # 0 /\ req[r].iat # 0
    BY <2>1 DEF FollowsHandler
  <2>3. req[r].op \in {"login", "refresh", "change"}
    BY <2>1 DEF FollowsHandler, UserOps
  <2>4. QED
    BY <2>1, <2>2, <2>3, SessionConstants DEF Seconds
<1>3. r \in UnderWay
  BY <1>2 DEF UnderWay
<1>4. \A t \in stored' \ leaked' : Vouches(origin'[t].pwd)
  <2>1. CASE req[r].iat \in stored
    BY <2>1 DEF Save, PasswordInv
  <2>2. CASE req[r].iat \notin stored
    <3> DEFINE source == [root |-> req[r].root, pwd |-> req[r].pwd]
    <3>1. source.pwd = req[r].pwd
      OBVIOUS
    <3>2. /\ stored' = stored \cup {req[r].iat}
          /\ origin' = [origin EXCEPT ![req[r].iat] = source]
          /\ leaked' = IF req[r].late THEN leaked \cup {req[r].iat} ELSE leaked \ {req[r].iat}
      BY <2>2 DEF Save, source
    <3> HIDE DEF source
    <3>3. origin \in [Seconds -> [root : 0..MaxLogins, pwd : 0..MaxPasswords]]
          /\ stored \subseteq Seconds
      BY DEF RequestsInv, TypeOK
    <3>4. ASSUME NEW t \in stored' \ leaked', t # req[r].iat
          PROVE  Vouches(origin'[t].pwd)
      BY <3>2, <3>3, <3>4 DEF PasswordInv
    <3>5. ASSUME req[r].iat \in stored' \ leaked'
          PROVE  Vouches(origin'[req[r].iat].pwd)
      <4>1. ~req[r].late
        BY <3>2, <3>5
      <4>2. origin'[req[r].iat] = source
        BY <1>2, <3>2, <3>3
      <4>3. QED
        BY <1>3, <3>1, <4>1, <4>2 DEF PasswordInv, Counts
    <3>6. QED
      BY <3>4, <3>5
  <2>3. QED
    BY <2>1, <2>2
<1>5. QED
  BY <1>1, <1>2, <1>4, CountsWhen, OneVouched DEF Ends, Save

LEMMA KeyVouched ==
    ASSUME RequestsInv, PasswordInv, NEW r \in Requests, Keys(r) \/ Effect(r)
    PROVE  PasswordInv'
<1>0. account \in AccountType /\ req \in [Requests -> ReqType] /\ "mark" \in PCs
  BY DEF RequestsInv, TypeOK, PCs
<1>1. \/ /\ req[r].pc = "keys" /\ account'.key = 0
         /\ account'.pwd = account.pwd /\ account'.deleted = account.deleted
         /\ Goes(r, "mark")
      \/ /\ req[r].pc = "effect" /\ account'.key \in {0, account.pwd}
         /\ account'.pwd = account.pwd /\ account'.deleted = account.deleted
         /\ Ends(r)
  BY <1>0, GotoGoes, DoneEnds DEF Keys, Effect, AccountType
<1>2. OthersStay(r) /\ (Counts(r)' => Vouches(req'[r].pwd))
  BY <1>1, CountsWhen DEF Ends, Goes, Turns, PasswordInv
<1>3. UNCHANGED <<stored, origin, leaked, lost>>
  BY DEF Keys, Effect, history
<1>4. \A t \in stored' \ leaked' : Vouches(origin'[t].pwd)
  BY <1>3 DEF PasswordInv
<1>5. QED
  BY <1>1, <1>2, <1>3, <1>4, OneVouched

\* A password is written: what is older is to be deleted from now on.
LEMMA WriteVouched ==
    ASSUME RequestsInv, PasswordInv, NEW r \in Requests, Write(r)
    PROVE  PasswordInv'
<1>1. Turns(r, "purge", account.pwd + 1, req[r].root, req[r].late, req[r].iat, req[r].tok)
  BY WriteTurns
<1>2. /\ account'.pwd = account.pwd + 1 /\ account'.deleted = account.deleted
      /\ account'.key = account.key /\ UNCHANGED <<stored, origin, leaked, lost>>
      /\ req[r].pc = "write"
  BY DEF Write, RequestsInv, TypeOK, AccountType, history
<1>3. Owed'
  BY <1>1, <1>2 DEF Owed, Turns
<1>4. \A pwd, x : Vouches(pwd) => Vouches(x)'
  BY <1>2, <1>3 DEF Vouches
<1>5. ASSUME NEW q \in Requests, Counts(q)'
      PROVE  Vouches(req[q].pwd)'
  <2>1. CASE q # r
    BY <1>1, <1>4, <1>5, <2>1 DEF Turns, OthersStay, Counts, UnderWay, PasswordInv
  <2>2. CASE q = r
    <3>1. req[r].op \in {"login", "refresh", "change"} /\ ~req[r].late
      BY <1>1, <1>5, <2>2 DEF Turns, Counts, UnderWay
    <3>2. req[r].pwd # 0
      BY <1>2, <3>1 DEF RequestsInv, FollowsHandler
    <3>3. Counts(r)
      BY <3>1, <3>2 DEF Counts, UnderWay
    <3>4. QED
      BY <1>4, <2>2, <3>3 DEF PasswordInv
  <2>3. QED
    BY <2>1, <2>2
<1>6. req'[r].pc = "purge"
  BY <1>1 DEF Turns
<1>7. QED
  BY <1>2, <1>4, <1>5, <1>6 DEF PasswordInv

\* The older tokens are deleted, and whoever looked at one of them is late.
LEMMA PurgeVouched ==
    ASSUME RequestsInv, PasswordInv, NEW r \in Requests, Purge(r)
    PROVE  PasswordInv'
<1> DEFINE S == {x \in UnderWay \ {r} : req[x].pwd # account.pwd}
<1>1. /\ req'[r].pc = "keys" /\ req'[r].op = req[r].op /\ req'[r].pwd = req[r].pwd
      /\ req'[r].late = req[r].late
      /\ \A q \in Requests \ {r} : Delays(q, S)
  BY PurgeTurns
<1>2. stored' = {} /\ account' = account /\ lost' = lost /\ req[r].pc = "purge"
  BY DEF Purge
<1>3. \A q \in Requests \ {r} : req'[q].pc = req[q].pc /\ req'[q].pwd = req[q].pwd
  BY <1>1 DEF Delays, WithLate, ButLate
<1>4. ASSUME NEW q \in Requests, Counts(q)'
      PROVE  Vouches(req[q].pwd)'
  <2>1. CASE q # r
    <3>1. Counts(q) /\ req'[q].pwd = req[q].pwd /\ q \notin S
      BY <1>1, <1>4, <2>1 DEF Delays, WithLate, ButLate, Counts, UnderWay
    <3>2. req[q].pwd = account.pwd /\ ~account.deleted
      BY <2>1, <3>1 DEF Counts, PasswordInv, Vouches
    <3>3. QED
      BY <1>2, <3>1, <3>2 DEF Vouches
  <2>2. CASE q = r
    <3>1. Counts(r) /\ req'[r].pwd = req[r].pwd
      BY <1>1, <1>4, <2>2 DEF Counts, UnderWay
    <3>2. Vouches(req[r].pwd)
      BY <3>1 DEF PasswordInv
    <3>3. QED
      <4>1. CASE req[r].pwd = account.pwd \/ "crash" \in lost
        BY <1>2, <2>2, <3>1, <3>2, <4>1 DEF Vouches
      <4>2. CASE req[r].pwd # account.pwd /\ Owed
        <5>1. PICK s \in Requests : req[s].pc = "purge" /\ req[s].pwd = account.pwd
          BY <4>2 DEF Owed
        <5>2. Owed'
          BY <1>2, <1>3, <4>2, <5>1 DEF Owed
        <5>3. QED
          BY <1>2, <3>2, <5>2 DEF Vouches
      <4>3. QED
        BY <3>2, <4>1, <4>2 DEF Vouches
  <2>3. QED
    BY <2>1, <2>2
<1>5. QED
  BY <1>1, <1>2, <1>4 DEF PasswordInv

\* A user who is deleted has no token left, and whoever looked is late.
LEMMA DeletedVouched ==
    ASSUME RequestsInv, PasswordInv, (\E r \in Requests : Leave(r)) \/ AdminDelete
    PROVE  PasswordInv'
<1>1. stored' = {} /\ account'.key = 0
  BY DeactivatedTyped DEF Leave, AdminDelete, RequestsInv, TypeOK
<1>2. \A q \in Requests : req'[q] = Idle \/ Delays(q, UnderWay)
  BY LeaveTurns, AdminDeleteTurns
<1>3. \A q \in Requests : ~Counts(q)'
  BY <1>2, IdleTyped DEF Delays, WithLate, ButLate, Counts, UnderWay
<1>4. QED
  BY <1>1, <1>3 DEF PasswordInv

LEMMA RestartVouched ==
    ASSUME RequestsInv, PasswordInv, NEW p \in Procs, Restart(p)
    PROVE  PasswordInv'
<1>1. /\ \A q \in Requests :
            req'[q] = req[q] \/ (req'[q] = Idle /\ (Revoking(q) => "crash" \in lost'))
      /\ lost \subseteq lost'
  BY RestartTurns
<1>2. UNCHANGED <<account, stored, origin, leaked>>
  BY DEF Restart
<1>3. \A q \in Requests : req[q].pc \in {"purge", "keys"} =>
         req'[q] = req[q] \/ "crash" \in lost'
  BY <1>1 DEF Revoking
<1>4. \A pwd : Vouches(pwd) => Vouches(pwd)'
  BY <1>1, <1>2, <1>3, VouchesStill
<1>5. \A q \in Requests : Counts(q)' => Counts(q) /\ req'[q].pwd = req[q].pwd
  BY <1>1, IdleTyped DEF Counts, UnderWay
<1>6. QED
  BY <1>1, <1>2, <1>3, <1>4, <1>5 DEF PasswordInv

LEMMA TimeVouched ==
    ASSUME RequestsInv, PasswordInv,
           \/ SendToken \/ TokenExpires \/ (\E b \in BOOLEAN : SetActive(b))
           \/ CleanUp \/ Lapse \/ Tick \/ UNCHANGED vars
    PROVE  PasswordInv'
<1>1. /\ account'.pwd = account.pwd /\ account'.deleted = account.deleted
      /\ account'.key = account.key
  BY DEF SendToken, TokenExpires, SetActive, CleanUp, Lapse, Tick, vars, RequestsInv, TypeOK,
         AccountType
<1>2. req' = req /\ lost' = lost /\ origin' = origin /\ stored' \ leaked' \subseteq stored \ leaked
  BY DEF SendToken, TokenExpires, SetActive, CleanUp, Lapse, Tick, vars, history
<1>3. \A pwd : Vouches(pwd) => Vouches(pwd)'
  BY <1>1, <1>2, VouchesStill
<1>4. \A q \in Requests : Counts(q)' <=> Counts(q)
  BY <1>2 DEF Counts, UnderWay
<1>5. QED
  BY <1>1, <1>2, <1>3, <1>4 DEF PasswordInv

LEMMA PasswordStart ==
    ASSUME Init
    PROVE  PasswordInv
  BY IdleTyped DEF Init, PasswordInv, Counts, UnderWay

LEMMA PasswordKept ==
    ASSUME RequestsInv, PasswordInv, [Next]_vars
    PROVE  PasswordInv'
<1>1. CASE UNCHANGED vars
  BY <1>1, TimeVouched
<1>2. CASE Step
  <2>1. ASSUME NEW r \in Requests, RequestStep(r)
        PROVE  PasswordInv'
    BY <2>1, PlainVouched, ReadVouched, SaveVouched, KeyVouched, WriteVouched, PurgeVouched,
       DeletedVouched DEF RequestStep
  <2>2. QED
    BY <1>2, <2>1, BeginVouched, DeletedVouched, RestartVouched, TimeVouched DEF Step
<1>3. QED
  BY <1>1, <1>2 DEF Next

\* Once changePassword or resetPassword has deleted the refresh tokens and the API
\* keys, nothing that goes back to a former password, or to a user who was deleted,
\* is left, but for the tokens of handlers that were under way: whatever handlers
\* run at once in whatever processes, and whatever restarts.
THEOREM OldSessionsEnded == Spec => []OldSessionsEnd
<1>1. Init => PasswordInv
  BY PasswordStart
<1>2. RequestsInv /\ PasswordInv /\ [Next]_vars => PasswordInv'
  BY PasswordKept
<1>3. PasswordInv => OldSessionsEnd
  BY DEF PasswordInv, OldSessionsEnd, Vouches, Owed
<1>4. QED
  BY <1>1, <1>2, <1>3, SessionsTypeCorrect, PTL DEF Spec

-----------------------------------------------------------------------------
(* Sessions: revoked tokens *)

\* Redis holds the latest mark, or one of a second before it that took the place
\* of the mark of a reset; or the mark has lapsed, and with it the tokens.
MarkHeld ==
    /\ floor <= now + 1
    /\ \/ /\ list.redis.mark # 0 /\ floor <= list.redis.mark + 1
          /\ "lowered" \notin lost => floor <= list.redis.mark
       \/ /\ list.redis.mark = 0 /\ (floor = 0 \/ floor + MarkLife <= now + 2)
          /\ "lowered" \notin lost => floor = 0 \/ floor + MarkLife <= now + 1

\* What each of the questions of authMiddleware has settled so far.
Refuses(r) ==
    req[r].op = "use" =>
        /\ req[r].floor <= floor
        /\ req[r].pc = "block" /\ now < req[r].tok + AccessLife /\ req[r].blocked =>
              req[r].tok \in list.redis.blocked
        /\ req[r].pc \in {"check", "owner", "effect"} /\ lost \subseteq {"lowered"}
           /\ now < req[r].tok + AccessLife => ~req[r].blocked
        /\ req[r].pc \in {"owner", "effect"} /\ lost \subseteq {"lowered"}
           /\ now < req[r].tok + AccessLife =>
              /\ req[r].tok + 1 >= req[r].floor
              /\ "lowered" \notin lost => req[r].tok >= req[r].floor

\* The inductive form of RevokedAreRefused.
RevocationInv == MarkHeld /\ \A r \in Requests : Refuses(r)

\* Time and marks go forward, losses stay, and Redis forgets only what has expired.
Onward ==
    /\ floor <= floor' /\ lost \subseteq lost' /\ now <= now'
    /\ \A t \in Seconds : t \in list.redis.blocked /\ now < t + MarkLife => t \in list'.redis.blocked

LEMMA ClockTyped ==
    ASSUME RequestsInv
    PROVE  /\ now \in Nat /\ now # 0 /\ floor \in Nat /\ list.redis.mark \in Nat
           /\ now \in Blocklist!Marks /\ now + 1 \in Blocklist!Marks
           /\ list \in Blocklist!ListType
           /\ AccessLife \in Nat /\ MarkLife \in Nat /\ AccessLife <= MarkLife
           /\ \A r \in Requests : req[r].tok \in Nat /\ req[r].floor \in Nat
           /\ \A r \in Requests : req[r].tok \in 0..MaxTime /\ req[r].home \in Procs
<1>1. now \in Seconds /\ floor \in Blocklist!Marks /\ list \in Blocklist!ListType
  BY DEF RequestsInv, TypeOK
<1>2. now \in Nat /\ now # 0 /\ \A m \in Blocklist!Marks : m \in Nat
  BY <1>1, SessionConstants DEF Seconds, Blocklist!Marks
<1>3. now \in Blocklist!Marks /\ now + 1 \in Blocklist!Marks
  BY <1>1 DEF Blocklist!Marks
<1>4. list.redis.mark \in Blocklist!Marks
  BY <1>1 DEF Blocklist!ListType, Blocklist!Table
<1>5. AccessLife \in Nat /\ MarkLife \in Nat /\ AccessLife <= MarkLife
  BY SessionConstants
<1>6. \A r \in Requests : req[r].tok \in 0..MaxTime /\ req[r].home \in Procs
                             /\ req[r].floor \in 0..MaxTime + 1
  BY DEF RequestsInv, TypeOK, ReqType
<1>7. \A r \in Requests : req[r].tok \in Nat /\ req[r].floor \in Nat
  BY <1>6, SessionConstants
<1>8. QED
  BY <1>1, <1>2, <1>3, <1>4, <1>5, <1>6, <1>7

\* A request that goes on as it was, or finds out that it is late.
LEMMA RefusesStill ==
    ASSUME RequestsInv, RequestsInv', Onward, NEW q \in Requests, Refuses(q),
           ButLate(req'[q], req[q])
    PROVE  Refuses(q)'
<1>1. /\ now \in Nat /\ now' \in Nat /\ floor \in Nat /\ floor' \in Nat /\ AccessLife \in Nat
      /\ MarkLife \in Nat /\ AccessLife <= MarkLife
      /\ req[q].tok \in Nat /\ req[q].floor \in Nat /\ req[q].tok \in 0..MaxTime
  <2>1. now' \in 1..MaxTime /\ floor' \in {0} \cup 1..MaxTime \cup {s + 1 : s \in 1..MaxTime}
    BY DEF RequestsInv, TypeOK, Seconds, Blocklist!Marks
  <2>2. MaxTime \in Nat
    BY SessionConstants
  <2>3. now' \in Nat /\ floor' \in Nat
    BY <2>1, <2>2
  <2>4. QED
    BY <2>3, ClockTyped
<1>2. ASSUME req[q].blocked, now' < req[q].tok + AccessLife, req[q].tok \in list.redis.blocked
      PROVE  req[q].tok \in list'.redis.blocked
  <2>1. req[q].tok \in Seconds
    <3>1. list \in Blocklist!ListType
      BY ClockTyped
    <3>2. list.redis.blocked \subseteq Seconds
      BY <3>1 DEF Blocklist!ListType, Blocklist!Table
    <3>3. QED
      BY <1>2, <3>2
  <2>2. now < req[q].tok + MarkLife
    BY <1>1, <1>2 DEF Onward
  <2>3. QED
    BY <1>2, <2>1, <2>2 DEF Onward
<1>3. now' < req[q].tok + AccessLife => now < req[q].tok + AccessLife
  BY <1>1 DEF Onward
<1>4. /\ lost' \subseteq {"lowered"} => lost \subseteq {"lowered"}
      /\ "lowered" \notin lost' => "lowered" \notin lost
  BY DEF Onward
<1>5. req[q].op = "use" => req[q].floor <= floor'
  BY <1>1 DEF Onward, Refuses
<1>6. QED
  BY <1>2, <1>3, <1>4, <1>5 DEF Refuses, ButLate

\* Every step goes onward and keeps the mark.
LEMMA MarkOnward ==
    ASSUME RequestsInv, MarkHeld, NEW r \in Requests, Mark(r)
    PROVE  Onward /\ MarkHeld'
<1> DEFINE second == IF req[r].op = "reset" THEN now + 1 ELSE now
<1>1. PICK answers \in Answers :
          /\ list' = Blocklist!RevokeUserTokens(list, req[r].home, second, answers)
          /\ floor' = IF answers /\ second > floor THEN second ELSE floor
          /\ lost' = Missed(answers) \cup Lowered(answers, second)
  BY DEF Mark
<1>2. /\ now \in Nat /\ now # 0 /\ floor \in Nat /\ second \in Blocklist!Marks
      /\ second \in {now, now + 1} /\ list \in Blocklist!ListType /\ req[r].home \in Procs
  BY ClockTyped
<1> HIDE DEF second
<1>3. /\ list'.redis.blocked = list.redis.blocked
      /\ list'.redis.mark = IF answers THEN second ELSE list.redis.mark
  BY <1>1, <1>2, AnswersAreBoolean, MarkWritten
<1>4. now' = now
  BY DEF Mark
<1>5. lost \subseteq lost' /\ floor <= floor'
  BY <1>1, <1>2 DEF Missed
<1>6. MarkHeld'
  <2>1. CASE answers
    <3>1. second < floor => "lowered" \in lost'
      BY <1>1, <2>1 DEF Lowered
    <3>2. list'.redis.mark = second /\ second # 0 /\ second \in Nat
      BY <1>2, <1>3, <2>1
    <3>3. floor' = (IF second > floor THEN second ELSE floor) /\ floor <= now + 1
      BY <1>1, <2>1 DEF MarkHeld
    <3>4. /\ floor' <= now + 1 /\ floor' <= second + 1
          /\ "lowered" \notin lost' => floor' <= second
      BY <1>2, <3>1, <3>2, <3>3
    <3>5. QED
      BY <1>4, <3>2, <3>4 DEF MarkHeld
  <2>2. CASE ~answers
    <3>1. floor' = floor /\ list'.redis.mark = list.redis.mark
      BY <1>1, <1>3, <2>2
    <3>2. "lowered" \notin lost' => "lowered" \notin lost
      BY <1>5
    <3>3. QED
      BY <1>4, <3>1, <3>2 DEF MarkHeld
  <2>3. QED
    BY <1>5, <2>1, <2>2, AnswersAreBoolean
<1>7. QED
  BY <1>3, <1>4, <1>5, <1>6, <1>2 DEF Onward

LEMMA RevokeOnward ==
    ASSUME RequestsInv, MarkHeld, NEW r \in Requests, Revoke(r)
    PROVE  Onward /\ MarkHeld'
<1>1. PICK answers \in Answers :
          /\ list' = Blocklist!RevokeToken(list, req[r].home, req[r].tok, answers)
          /\ lost' = Missed(answers)
  BY DEF Revoke
<1>2. /\ now \in Nat /\ floor \in Nat /\ list \in Blocklist!ListType /\ req[r].home \in Procs
      /\ req[r].tok \in 0..MaxTime /\ FollowsHandler(req[r]) /\ req[r].op \in UserOps
      /\ req[r].pc = "revoke"
  BY ClockTyped DEF RequestsInv, TypeOK, ReqType, Revoke
<1>3. req[r].tok \in Seconds
  BY <1>2, SessionConstants DEF FollowsHandler, UserOps, Seconds
<1>4. list'.redis.mark = list.redis.mark /\ list.redis.blocked \subseteq list'.redis.blocked
  BY <1>1, <1>2, <1>3, AnswersAreBoolean, TokenRevoked
<1>5. UNCHANGED <<now, floor>> /\ lost \subseteq lost'
  BY <1>1 DEF Revoke, Missed
<1>6. QED
  BY <1>2, <1>4, <1>5 DEF Onward, MarkHeld

LEMMA LapseOnward ==
    ASSUME RequestsInv, MarkHeld, Lapse
    PROVE  Onward /\ MarkHeld'
<1>1. /\ now \in Nat /\ floor \in Nat /\ list.redis.mark \in Nat /\ MarkLife \in Nat
      /\ list \in Blocklist!ListType /\ now \in Seconds
  BY ClockTyped DEF RequestsInv, TypeOK
<1>2. /\ list'.redis.blocked = {t \in list.redis.blocked : now < t + MarkLife}
      /\ list'.redis.mark = IF now + 1 < list.redis.mark + MarkLife THEN list.redis.mark ELSE 0
      /\ UNCHANGED <<now, floor, lost>>
  BY <1>1, ListLapsed DEF Lapse, history
<1>3. MarkHeld'
  BY <1>1, <1>2 DEF MarkHeld
<1>4. QED
  BY <1>1, <1>2, <1>3 DEF Onward

LEMMA OtherOnward ==
    ASSUME RequestsInv, MarkHeld,
           \/ UNCHANGED <<list, floor>> /\ lost \subseteq lost' /\ now' \in {now, now + 1}
           \/ \E p \in Procs : Restart(p)
    PROVE  Onward /\ MarkHeld'
<1>1. /\ now \in Nat /\ floor \in Nat /\ list.redis.mark \in Nat /\ MarkLife \in Nat
      /\ list \in Blocklist!ListType
  BY ClockTyped
<1>2. /\ list'.redis = list.redis /\ floor' = floor /\ lost \subseteq lost'
      /\ now' \in {now, now + 1}
  BY <1>1, ListRestarted DEF Restart
<1>3. now <= now' /\ floor <= floor' /\ floor' <= now' + 1
  <2>1. (now' = now \/ now' = now + 1) /\ floor' = floor
    BY <1>2
  <2>2. floor <= now + 1
    BY DEF MarkHeld
  <2>3. QED
    BY <1>1, <2>1, <2>2
<1>4. /\ floor + MarkLife <= now + 2 => floor' + MarkLife <= now' + 2
      /\ floor + MarkLife <= now + 1 => floor' + MarkLife <= now' + 1
  <2>1. (now' = now \/ now' = now + 1) /\ floor' = floor
    BY <1>2
  <2>2. QED
    BY <1>1, <2>1
<1>5. MarkHeld'
  BY <1>2, <1>3, <1>4 DEF MarkHeld
<1>6. QED
  BY <1>2, <1>3, <1>5 DEF Onward

LEMMA NextOnward ==
    ASSUME RequestsInv, MarkHeld, [Next]_vars
    PROVE  Onward /\ MarkHeld'
<1>1. ASSUME NEW r \in Requests,
             \/ Read(r) \/ Find(r) \/ User(r) \/ Delete(r) \/ Drop(r) \/ Sign(r) \/ Save(r)
             \/ Write(r) \/ Purge(r) \/ Keys(r) \/ Owner(r) \/ Effect(r) \/ Leave(r)
             \/ \E p \in Procs : Begin(r, p)
      PROVE  Onward /\ MarkHeld'
  <2>1. UNCHANGED <<list, floor, lost, now>>
    BY <1>1 DEF Read, Find, User, Delete, Drop, Sign, Save, Write, Purge, Keys, Owner, Effect,
                Leave, Begin, Start, Unchanged, history
  <2>2. QED
    BY <2>1, OtherOnward
<1>2. ASSUME NEW r \in Requests, Block(r) \/ Check(r)
      PROVE  Onward /\ MarkHeld'
  <2>1. UNCHANGED <<list, floor, now>> /\ lost \subseteq lost'
    BY <1>2 DEF Block, Check, Missed
  <2>2. QED
    BY <2>1, OtherOnward
<1>3. CASE \/ SendToken \/ TokenExpires \/ (\E b \in BOOLEAN : SetActive(b)) \/ AdminDelete
           \/ CleanUp \/ Tick \/ UNCHANGED vars
  <2>1. UNCHANGED <<list, floor, lost>> /\ now' \in {now, now + 1}
    BY <1>3 DEF SendToken, TokenExpires, SetActive, AdminDelete, CleanUp, Tick, vars, history
  <2>2. QED
    BY <2>1, OtherOnward
<1>4. QED
  BY <1>1, <1>2, <1>3, MarkOnward, RevokeOnward, LapseOnward, OtherOnward
     DEF Next, Step, RequestStep

\* The requests of the other handlers are never those of authMiddleware.
LEMMA OthersRefuse ==
    ASSUME RequestsInv, NEW r \in Requests,
           \/ Read(r) \/ Find(r) \/ User(r) \/ Delete(r) \/ Drop(r) \/ Sign(r) \/ Save(r)
           \/ Write(r) \/ Purge(r) \/ Keys(r) \/ Mark(r) \/ Revoke(r) \/ Effect(r) \/ Leave(r)
    PROVE  \A q \in Requests : req'[q].op # "use" \/ ButLate(req'[q], req[q])
<1>1. FollowsHandler(req[r]) /\ req \in [Requests -> ReqType]
  BY DEF RequestsInv, TypeOK
<1>2. ASSUME OthersStay(r), req'[r].op # "use"
      PROVE  \A q \in Requests : req'[q].op # "use" \/ ButLate(req'[q], req[q])
  BY <1>2 DEF OthersStay, ButLate
<1>3. CASE Ends(r)
  BY <1>2, <1>3, IdleTyped DEF Ends
<1>4. ASSUME NEW pc, NEW pwd, NEW root, NEW late, NEW iat, NEW tok,
             Turns(r, pc, pwd, root, late, iat, tok),
             req[r].pc \notin {"block", "check", "owner", "effect"}
      PROVE  \A q \in Requests : req'[q].op # "use" \/ ButLate(req'[q], req[q])
  BY <1>1, <1>2, <1>4 DEF Turns, FollowsHandler
<1>5. CASE Read(r) \/ Find(r) \/ User(r) \/ Delete(r) \/ Sign(r) \/ Write(r)
  <2>1. req[r].pc \notin {"block", "check", "owner", "effect"}
    BY <1>5 DEF Read, Find, User, Delete, Sign, Write
  <2>2. Ends(r) \/ \E pc, pwd, root, late, iat, tok : Turns(r, pc, pwd, root, late, iat, tok)
    BY <1>5, ReadTurns, FindTurns, UserTurns, DeleteTurns, SignTurns, WriteTurns
  <2>3. QED
    BY <1>3, <1>4, <2>1, <2>2
<1>6. CASE Drop(r) \/ Keys(r) \/ Mark(r) \/ Revoke(r)
  <2>1. req[r].pc \notin {"block", "check", "owner", "effect"}
    BY <1>6 DEF Drop, Keys, Mark, Revoke
  <2>2. Ends(r) \/ \E pc : Goes(r, pc)
    BY <1>1, <1>6, DoneEnds, GotoGoes, MarkTurns, LetsIn DEF Drop, Keys, PCs
  <2>3. QED
    BY <1>3, <1>4, <2>1, <2>2 DEF Goes
<1>7. CASE Save(r) \/ Effect(r)
  BY <1>1, <1>3, <1>7, DoneEnds DEF Save, Effect
<1>8. CASE Purge(r)
  <2>1. req[r].op # "use"
    BY <1>1, <1>8 DEF Purge, FollowsHandler
  <2>2. QED
    BY <1>8, <2>1, PurgeTurns DEF Delays, WithLate
<1>9. CASE Leave(r)
  BY <1>9, LeaveTurns, IdleTyped DEF Delays, WithLate
<1>10. QED
  BY <1>5, <1>6, <1>7, <1>8, <1>9

\* authMiddleware asks for the token.
LEMMA BlockRefuses ==
    ASSUME RequestsInv, RevocationInv, NEW r \in Requests, Block(r)
    PROVE  Refuses(r)'
<1>1. PICK answers \in Answers :
          /\ IF Blocklist!IsBlocked(list, req[r].home, req[r].tok, answers)
             THEN Done(r) ELSE Goto(r, "check")
          /\ lost' = Missed(answers)
  BY DEF Block
<1>2. /\ req \in [Requests -> ReqType] /\ "check" \in PCs /\ req[r].pc = "block"
      /\ UNCHANGED <<now, floor, list>>
  BY DEF RequestsInv, TypeOK, PCs, Block
<1>3. CASE Ends(r)
  BY <1>3, IdleTyped DEF Ends, Refuses
<1>4. CASE /\ ~Blocklist!IsBlocked(list, req[r].home, req[r].tok, answers)
           /\ Goes(r, "check")
  <2>1. lost' \subseteq {"lowered"} => answers = TRUE
    BY <1>1, AnswersAreBoolean DEF Missed
  <2>2. lost' \subseteq {"lowered"} => req[r].tok \notin list.redis.blocked
    BY <1>4, <2>1 DEF Blocklist!IsBlocked
  <2>3. /\ req'[r].pc = "check" /\ req'[r].op = req[r].op /\ req'[r].tok = req[r].tok
        /\ req'[r].floor = req[r].floor /\ req'[r].blocked = req[r].blocked
    BY <1>4 DEF Goes, Turns
  <2>4. QED
    BY <1>2, <2>2, <2>3 DEF Refuses, RevocationInv
<1>5. QED
  BY <1>1, <1>2, <1>3, <1>4, DoneEnds, GotoGoes

\* authMiddleware asks for the mark of the user.
LEMMA CheckRefuses ==
    ASSUME RequestsInv, RevocationInv, NEW r \in Requests, Check(r)
    PROVE  Refuses(r)'
<1>1. PICK answers \in Answers :
          /\ IF Blocklist!IsMarked(list, req[r].home, req[r].tok, answers)
             THEN Done(r) ELSE Goto(r, "owner")
          /\ lost' = Missed(answers)
  BY DEF Check
<1>2. /\ req \in [Requests -> ReqType] /\ "owner" \in PCs /\ req[r].pc = "check"
      /\ UNCHANGED <<now, floor, list>>
  BY DEF RequestsInv, TypeOK, PCs, Check
<1>3. CASE Ends(r)
  BY <1>3, IdleTyped DEF Ends, Refuses
<1>4. CASE /\ ~Blocklist!IsMarked(list, req[r].home, req[r].tok, answers)
           /\ Goes(r, "owner")
  <2>1. lost' \subseteq {"lowered"} => answers = TRUE /\ lost' = lost
    BY <1>1, AnswersAreBoolean DEF Missed
  <2>2. /\ now \in Nat /\ floor \in Nat /\ list.redis.mark \in Nat /\ req[r].tok \in Nat
        /\ req[r].floor \in Nat /\ AccessLife \in Nat /\ MarkLife \in Nat
        /\ AccessLife <= MarkLife
    BY ClockTyped
  <2>3. /\ req'[r].pc = "owner" /\ req'[r].op = req[r].op /\ req'[r].tok = req[r].tok
        /\ req'[r].floor = req[r].floor /\ req'[r].blocked = req[r].blocked
    BY <1>4 DEF Goes, Turns
  <2>4. ASSUME lost' \subseteq {"lowered"}, now < req[r].tok + AccessLife, req[r].floor <= floor
        PROVE  req[r].tok + 1 >= req[r].floor /\ ("lowered" \notin lost' => req[r].tok >= req[r].floor)
    <3>0. /\ \/ /\ list.redis.mark # 0 /\ floor <= list.redis.mark + 1
             \/ /\ list.redis.mark = 0 /\ (floor = 0 \/ floor + MarkLife <= now + 2)
          /\ "lowered" \notin lost' =>
                \/ list.redis.mark # 0 /\ floor <= list.redis.mark
                \/ list.redis.mark = 0 /\ (floor = 0 \/ floor + MarkLife <= now + 1)
      BY <2>1, <2>4 DEF RevocationInv, MarkHeld
    <3>1. list.redis.mark # 0 => ~(req[r].tok < list.redis.mark)
      BY <1>4, <2>1, <2>4 DEF Blocklist!IsMarked
    <3>2. CASE list.redis.mark # 0
      BY <2>2, <2>4, <3>0, <3>1, <3>2
    <3>3. CASE list.redis.mark = 0
      BY <2>2, <2>4, <3>0, <3>3
    <3>4. QED
      BY <3>2, <3>3
  <2>5. QED
    BY <1>2, <2>1, <2>3, <2>4 DEF Refuses, RevocationInv
<1>5. QED
  BY <1>1, <1>2, <1>3, <1>4, DoneEnds, GotoGoes

\* authMiddleware reads the user.
LEMMA OwnerRefuses ==
    ASSUME RequestsInv, RevocationInv, NEW r \in Requests, Owner(r)
    PROVE  Refuses(r)'
<1>1. Ends(r) \/ Goes(r, "effect")
  BY LetsIn
<1>2. req[r].pc = "owner" /\ UNCHANGED <<now, floor, list, lost>>
  BY DEF Owner, Unchanged, history
<1>3. QED
  BY <1>1, <1>2, IdleTyped DEF Ends, Goes, Turns, Refuses, RevocationInv

\* A request comes in.
LEMMA BeginRefuses ==
    ASSUME RequestsInv, NEW r \in Requests, NEW p \in Procs, Begin(r, p)
    PROVE  Refuses(r)'
<1>1. Fresh(req'[r]) /\ UNCHANGED <<floor, list>>
  BY BeginTurns DEF Unchanged, history
<1>2. floor \in Nat
  BY ClockTyped
<1>3. ASSUME req'[r].op = "use"
      PROVE  /\ req'[r].pc = "block" /\ req'[r].floor = floor
             /\ req'[r].blocked => req'[r].tok \in list.redis.blocked
  BY <1>1, <1>3, Zenon DEF Fresh
<1>4. QED
  BY <1>1, <1>2, <1>3 DEF Refuses

LEMMA RevocationKept ==
    ASSUME RequestsInv, RevocationInv, [Next]_vars
    PROVE  RevocationInv'
<1>1. Onward /\ MarkHeld' /\ RequestsInv'
  BY NextOnward, RequestsKept DEF RevocationInv
<1>2. ASSUME NEW q \in Requests, req'[q].op # "use" \/ ButLate(req'[q], req[q])
      PROVE  Refuses(q)'
  <2>1. Refuses(q)
    BY DEF RevocationInv
  <2>2. CASE req'[q].op # "use"
    BY <2>2 DEF Refuses
  <2>3. QED
    BY <1>1, <1>2, <2>1, <2>2, RefusesStill
<1>3. ASSUME NEW r \in Requests, OthersStay(r), Refuses(r)'
      PROVE  \A q \in Requests : Refuses(q)'
  <2>1. \A q \in Requests \ {r} : ButLate(req'[q], req[q])
    BY <1>3 DEF OthersStay, ButLate
  <2>2. QED
    BY <1>2, <1>3, <2>1
<1>4. ASSUME NEW r \in Requests, Block(r) \/ Check(r) \/ Owner(r)
      PROVE  \A q \in Requests : Refuses(q)'
  <2>1. OthersStay(r)
    BY <1>4, LetsIn DEF Ends, Goes, Turns
  <2>2. Refuses(r)'
    BY <1>4, BlockRefuses, CheckRefuses, OwnerRefuses
  <2>3. QED
    BY <1>3, <2>1, <2>2
<1>5. ASSUME NEW r \in Requests, NEW p \in Procs, Begin(r, p)
      PROVE  \A q \in Requests : Refuses(q)'
  BY <1>3, <1>5, BeginTurns, BeginRefuses
<1>6. ASSUME NEW p \in Procs, Restart(p)
      PROVE  \A q \in Requests : Refuses(q)'
  <2>1. \A q \in Requests : req'[q].op # "use" \/ ButLate(req'[q], req[q])
    BY <1>6, RestartTurns, IdleTyped DEF ButLate
  <2>2. QED
    BY <1>2, <2>1
<1>7. CASE AdminDelete
  <2>1. \A q \in Requests : ButLate(req'[q], req[q])
    BY <1>7, AdminDeleteTurns DEF Delays, WithLate
  <2>2. QED
    BY <1>1, <1>2, <2>1 DEF RevocationInv
<1>8. CASE \/ SendToken \/ TokenExpires \/ (\E b \in BOOLEAN : SetActive(b))
           \/ CleanUp \/ Lapse \/ Tick \/ UNCHANGED vars
  <2>1. req' = req
    BY <1>8 DEF SendToken, TokenExpires, SetActive, CleanUp, Lapse, Tick, vars
  <2>2. \A q \in Requests : ButLate(req'[q], req[q])
    BY <2>1 DEF ButLate
  <2>3. QED
    BY <1>1, <1>2, <2>2 DEF RevocationInv
<1>9. ASSUME NEW r \in Requests,
             \/ Read(r) \/ Find(r) \/ User(r) \/ Delete(r) \/ Drop(r) \/ Sign(r) \/ Save(r)
             \/ Write(r) \/ Purge(r) \/ Keys(r) \/ Mark(r) \/ Revoke(r) \/ Effect(r) \/ Leave(r)
      PROVE  \A q \in Requests : Refuses(q)'
  BY <1>2, <1>9, OthersRefuse
<1>10. \/ \A q \in Requests : Refuses(q)'
       \/ RevocationInv'
  BY <1>4, <1>5, <1>6, <1>7, <1>8, <1>9 DEF Next, Step, RequestStep
<1>11. QED
  BY <1>1, <1>10 DEF RevocationInv

\* Whoever is let in brings a token that was not revoked when the request came in,
\* as long as Redis answers and no process dies between the write of a password and
\* its mark: it was not blocked by a logout, and not issued before the second of the
\* latest mark; or, where a later mark has lowered that of a reset, it was issued in
\* the second of the reset.
THEOREM RevokedRefused == Spec => []RevokedAreRefused
<1>1. Init => RevocationInv
  BY SessionConstants, IdleTyped
     DEF Init, RevocationInv, MarkHeld, Refuses, Blocklist!EmptyList, Blocklist!EmptyTable
<1>2. RequestsInv /\ RevocationInv /\ [Next]_vars => RevocationInv'
  BY RevocationKept
<1>3. RequestsInv /\ RevocationInv => RevokedAreRefused
  <2>1. ASSUME RequestsInv, NEW r \in Requests, req[r].pc = "effect"
        PROVE  req[r].op = "use"
    BY <2>1 DEF RequestsInv, TypeOK, ReqType, UserOps, FollowsHandler
  <2>2. QED
    BY <2>1 DEF RevocationInv, Refuses, RevokedAreRefused
<1>4. QED
  BY <1>1, <1>2, <1>3, SessionsTypeCorrect, PTL DEF Spec

-----------------------------------------------------------------------------
(* Sessions: one token for each login *)

\* The inductive form of SessionsEndOnce: a request that is about to save counts
\* for the token it will store, and no login was heard of that has not begun.
OneTokenInv ==
    /\ \A s, t \in stored : s # t /\ origin[s].root = origin[t].root => origin[t].root \in forked
    /\ \A t \in stored, r \in Requests :
          req[r].pc = "save" /\ req[r].root = origin[t].root => origin[t].root \in forked
    /\ \A q, r \in Requests :
          q # r /\ req[q].pc = "save" /\ req[r].pc = "save" /\ req[q].root = req[r].root =>
             req[r].root \in forked
    /\ \A t \in stored : origin[t].root \in ended => origin[t].root \in forked
    /\ \A r \in Requests : req[r].pc = "save" /\ req[r].root \in ended => req[r].root \in forked
    /\ \A t \in stored : origin[t].root <= logins
    /\ \A r \in Requests : req[r].pc \in {"user", "delete", "save"} => req[r].root <= logins
    /\ \A root \in ended : root <= logins

LEMMA CountsTyped ==
    ASSUME RequestsInv
    PROVE  /\ logins \in Nat /\ \A t \in Seconds : origin[t].root \in Nat
           /\ \A r \in Requests : req[r].root \in Nat
           /\ stored \subseteq Seconds /\ ended \subseteq Nat
           /\ req \in [Requests -> ReqType]
  BY SessionConstants DEF RequestsInv, TypeOK, ReqType

\* A step that stores no token and lets nobody else begin to.
LEMMA NoneAdded ==
    ASSUME OneTokenInv, stored' \subseteq stored, origin' = origin, ended' = ended,
           forked \subseteq forked', logins' = logins,
           \A q \in Requests :
              /\ req'[q].pc = "save" => req[q].pc = "save" /\ req'[q].root = req[q].root
              /\ req'[q].pc \in {"user", "delete"} => req'[q].root <= logins
    PROVE  OneTokenInv'
<1>1. \A t \in stored' : t \in stored /\ origin'[t].root = origin[t].root
  OBVIOUS
<1>2. \A s, t \in stored' :
         s # t /\ origin'[s].root = origin'[t].root => origin'[t].root \in forked'
  BY <1>1 DEF OneTokenInv
<1>3. \A t \in stored', r \in Requests :
         req'[r].pc = "save" /\ req'[r].root = origin'[t].root => origin'[t].root \in forked'
  BY <1>1 DEF OneTokenInv
<1>4. \A q, r \in Requests :
         q # r /\ req'[q].pc = "save" /\ req'[r].pc = "save" /\ req'[q].root = req'[r].root =>
            req'[r].root \in forked'
  BY DEF OneTokenInv
<1>5. \A t \in stored' : origin'[t].root \in ended' => origin'[t].root \in forked'
  BY <1>1 DEF OneTokenInv
<1>6. \A r \in Requests :
         req'[r].pc = "save" /\ req'[r].root \in ended' => req'[r].root \in forked'
  BY DEF OneTokenInv
<1>7. /\ \A t \in stored' : origin'[t].root <= logins'
      /\ \A root \in ended' : root <= logins'
  BY <1>1 DEF OneTokenInv
<1>8. \A r \in Requests : req'[r].pc \in {"user", "delete", "save"} => req'[r].root <= logins'
  BY DEF OneTokenInv
<1>9. QED
  BY <1>2, <1>3, <1>4, <1>5, <1>6, <1>7, <1>8 DEF OneTokenInv

\* refresh deletes the token it exchanges, or goes on with a login somebody else has.
LEMMA DeleteOnce ==
    ASSUME RequestsInv, OneTokenInv, NEW r \in Requests, Delete(r)
    PROVE  OneTokenInv'
<1> DEFINE t == req[r].tok
           root == req[r].root
<1>1. Turns(r, "save", req[r].pwd, root, req[r].late, req[r].iat, 0)
  BY DeleteTurns
<1>2. /\ req[r].pc = "delete" /\ stored' = stored \ {t}
      /\ UNCHANGED <<origin, ended, logins>>
      /\ forked' = IF t \in stored /\ origin[t].root = root THEN forked ELSE forked \cup {root}
  BY DEF Delete
<1>3. /\ req'[r].pc = "save" /\ req'[r].root = root
      /\ \A q \in Requests \ {r} : req'[q] = req[q]
  BY <1>1 DEF Turns, OthersStay
<1> HIDE DEF t, root
<1>4. \A s \in stored' : origin[s].root = root => root \in forked'
  BY <1>2 DEF OneTokenInv
<1>5. \A q \in Requests \ {r} : req[q].pc = "save" /\ req[q].root = root => root \in forked'
  BY <1>2 DEF OneTokenInv
<1>6. root \in ended => root \in forked'
  BY <1>2 DEF OneTokenInv
<1>7. root <= logins
  BY <1>2 DEF OneTokenInv, root
<1>8. \A s, x \in stored' : s # x /\ origin'[s].root = origin'[x].root => origin'[x].root \in forked'
  BY <1>2 DEF OneTokenInv
<1>9. \A x \in stored', q \in Requests :
         req'[q].pc = "save" /\ req'[q].root = origin'[x].root => origin'[x].root \in forked'
  BY <1>2, <1>3, <1>4 DEF OneTokenInv
<1>10. \A p, q \in Requests :
          p # q /\ req'[p].pc = "save" /\ req'[q].pc = "save" /\ req'[p].root = req'[q].root =>
             req'[q].root \in forked'
  BY <1>2, <1>3, <1>5 DEF OneTokenInv
<1>11. /\ \A x \in stored' : origin'[x].root \in ended' => origin'[x].root \in forked'
       /\ \A q \in Requests :
             req'[q].pc = "save" /\ req'[q].root \in ended' => req'[q].root \in forked'
  BY <1>2, <1>3, <1>6 DEF OneTokenInv
<1>12. /\ \A x \in stored' : origin'[x].root <= logins'
       /\ \A q \in Requests : req'[q].pc \in {"user", "delete", "save"} => req'[q].root <= logins'
       /\ \A x \in ended' : x <= logins'
  BY <1>2, <1>3, <1>7 DEF OneTokenInv
<1>13. QED
  BY <1>8, <1>9, <1>10, <1>11, <1>12 DEF OneTokenInv

\* A login begins: nobody has heard of it.
LEMMA SignOnce ==
    ASSUME RequestsInv, OneTokenInv, NEW r \in Requests, Sign(r)
    PROVE  OneTokenInv'
<1>1. /\ req'[r].pc = "save" /\ req'[r].root = logins + 1
      /\ \A q \in Requests \ {r} : req'[q] = req[q]
  BY SignTurns DEF Turns, OthersStay
<1>2. /\ logins' = logins + 1 /\ UNCHANGED <<stored, origin, ended, forked>>
      /\ logins \in Nat /\ \A t \in stored : origin[t].root \in Nat
      /\ \A q \in Requests : req[q].root \in Nat
      /\ \A x \in ended : x \in Nat
  BY CountsTyped DEF Sign
<1>3. /\ \A t \in stored : origin[t].root < logins'
      /\ \A q \in Requests : req[q].pc = "save" => req[q].root < logins'
      /\ \A x \in ended : x < logins'
  BY <1>2 DEF OneTokenInv
<1>4. /\ \A t \in stored' : origin'[t].root <= logins'
      /\ \A q \in Requests : req'[q].pc \in {"user", "delete", "save"} => req'[q].root <= logins'
      /\ \A x \in ended' : x <= logins'
  BY <1>1, <1>2 DEF OneTokenInv
<1>5. \A x \in stored', q \in Requests :
         req'[q].pc = "save" /\ req'[q].root = origin'[x].root => origin'[x].root \in forked'
  BY <1>1, <1>2, <1>3 DEF OneTokenInv
<1>6. \A p, q \in Requests :
         p # q /\ req'[p].pc = "save" /\ req'[q].pc = "save" /\ req'[p].root = req'[q].root =>
            req'[q].root \in forked'
  BY <1>1, <1>2, <1>3 DEF OneTokenInv
<1>7. \A q \in Requests :
         req'[q].pc = "save" /\ req'[q].root \in ended' => req'[q].root \in forked'
  BY <1>1, <1>2, <1>3 DEF OneTokenInv
<1>8. /\ \A s, x \in stored' :
            s # x /\ origin'[s].root = origin'[x].root => origin'[x].root \in forked'
      /\ \A x \in stored' : origin'[x].root \in ended' => origin'[x].root \in forked'
  BY <1>2 DEF OneTokenInv
<1>9. QED
  BY <1>4, <1>5, <1>6, <1>7, <1>8 DEF OneTokenInv

\* The request that was to store a token stores it.
LEMMA SaveOnce ==
    ASSUME RequestsInv, OneTokenInv, NEW r \in Requests, Save(r)
    PROVE  OneTokenInv'
<1>1. Ends(r)
  BY DoneEnds DEF Save, RequestsInv, TypeOK
<1>2. \A q \in Requests : req'[q] = Idle \/ (q # r /\ req'[q] = req[q])
  BY <1>1 DEF Ends, OthersStay
<1>3. req[r].pc = "save" /\ UNCHANGED <<ended, forked, logins>>
  BY DEF Save
<1>4. CASE req[r].iat \in stored
  <2>1. UNCHANGED <<stored, origin>>
    BY <1>4 DEF Save
  <2>2. \A q \in Requests :
           /\ req'[q].pc = "save" => req[q].pc = "save" /\ req'[q].root = req[q].root
           /\ req'[q].pc \in {"user", "delete"} => req'[q].root <= logins
    BY <1>2, IdleTyped DEF OneTokenInv
  <2>3. QED
    BY <1>3, <2>1, <2>2, NoneAdded
<1>5. CASE req[r].iat \notin stored
  <2> DEFINE t == req[r].iat
             root == req[r].root
             source == [root |-> root, pwd |-> req[r].pwd]
  <2>1. source.root = root
    OBVIOUS
  <2>2. stored' = stored \cup {t} /\ origin' = [origin EXCEPT ![t] = source]
    BY <1>5 DEF Save
  <2>3. origin \in [Seconds -> [root : 0..MaxLogins, pwd : 0..MaxPasswords]]
        /\ stored \subseteq Seconds /\ t \in Seconds
    <3>1. t \in 0..MaxTime /\ FollowsHandler(req[r])
      BY DEF RequestsInv, TypeOK, ReqType
    <3>2. t # 0
      BY <1>3, <3>1 DEF FollowsHandler
    <3>3. t \in Seconds
      BY <3>1, <3>2, SessionConstants DEF Seconds
    <3>4. QED
      BY <3>3 DEF RequestsInv, TypeOK
  <2> HIDE DEF source, t
  <2>4. origin'[t].root = root /\ \A s \in stored : s # t => origin'[s] = origin[s]
    BY <2>1, <2>2, <2>3
  <2>5. t \notin stored
    BY <1>5 DEF t
  <2> HIDE DEF root
  <2>6. \A s \in stored' : \/ s = t /\ origin'[s].root = root
                           \/ s # t /\ s \in stored /\ origin'[s].root = origin[s].root
    BY <2>2, <2>4, <2>5
  <2>7. /\ \A s \in stored : origin[s].root = root => root \in forked
        /\ \A q \in Requests \ {r} : req[q].pc = "save" /\ req[q].root = root => root \in forked
        /\ root \in ended => root \in forked
        /\ root <= logins
    BY <1>3 DEF OneTokenInv, root
  <2>8. \A s, x \in stored' :
           s # x /\ origin'[s].root = origin'[x].root => origin'[x].root \in forked'
    BY <1>3, <2>6, <2>7 DEF OneTokenInv
  <2>9. \A q \in Requests : req'[q].pc \in {"user", "delete", "save"} => q # r /\ req'[q] = req[q]
    BY <1>2, IdleTyped
  <2>10. \A x \in stored', q \in Requests :
            req'[q].pc = "save" /\ req'[q].root = origin'[x].root => origin'[x].root \in forked'
    BY <1>3, <2>6, <2>7, <2>9 DEF OneTokenInv
  <2>11. \A p, q \in Requests :
            p # q /\ req'[p].pc = "save" /\ req'[q].pc = "save" /\ req'[p].root = req'[q].root =>
               req'[q].root \in forked'
    BY <1>3, <2>9 DEF OneTokenInv
  <2>12. /\ \A x \in stored' : origin'[x].root \in ended' => origin'[x].root \in forked'
         /\ \A q \in Requests :
               req'[q].pc = "save" /\ req'[q].root \in ended' => req'[q].root \in forked'
    BY <1>3, <2>6, <2>7, <2>9 DEF OneTokenInv
  <2>13. /\ \A x \in stored' : origin'[x].root <= logins'
         /\ \A q \in Requests :
               req'[q].pc \in {"user", "delete", "save"} => req'[q].root <= logins'
         /\ \A x \in ended' : x <= logins'
    BY <1>3, <2>6, <2>7, <2>9 DEF OneTokenInv
  <2>14. QED
    BY <2>8, <2>10, <2>11, <2>12, <2>13 DEF OneTokenInv
<1>6. QED
  BY <1>4, <1>5

\* A logout ends the login of the token it deletes.
LEMMA DropOnce ==
    ASSUME RequestsInv, OneTokenInv, NEW r \in Requests, Drop(r)
    PROVE  OneTokenInv'
<1> DEFINE t == req[r].tok
<1>1. \A q \in Requests : req'[q].pc \in {"user", "delete", "save"} => req'[q] = req[q]
  <2>1. Ends(r) \/ Goes(r, "mark")
    BY DoneEnds, GotoGoes DEF Drop, RequestsInv, TypeOK, PCs
  <2>2. QED
    BY <2>1, IdleTyped DEF Ends, Goes, Turns, OthersStay
<1>2. /\ stored' = stored \ {t} /\ UNCHANGED <<origin, forked, logins>>
      /\ ended' = ended \/ (t \in stored /\ ended' = ended \cup {origin[t].root})
  BY DEF Drop
<1> HIDE DEF t
<1>3. CASE ended' = ended
  BY <1>1, <1>2, <1>3, NoneAdded DEF OneTokenInv
<1>4. CASE t \in stored /\ ended' = ended \cup {origin[t].root}
  <2>1. /\ \A s, x \in stored' :
              s # x /\ origin'[s].root = origin'[x].root => origin'[x].root \in forked'
        /\ \A x \in stored' : origin'[x].root \in ended' => origin'[x].root \in forked'
    BY <1>2, <1>4 DEF OneTokenInv
  <2>2. /\ \A x \in stored', q \in Requests :
              req'[q].pc = "save" /\ req'[q].root = origin'[x].root => origin'[x].root \in forked'
        /\ \A q \in Requests :
              req'[q].pc = "save" /\ req'[q].root \in ended' => req'[q].root \in forked'
    BY <1>1, <1>2, <1>4 DEF OneTokenInv
  <2>3. \A p, q \in Requests :
           p # q /\ req'[p].pc = "save" /\ req'[q].pc = "save" /\ req'[p].root = req'[q].root =>
              req'[q].root \in forked'
    BY <1>1, <1>2 DEF OneTokenInv
  <2>4. /\ \A x \in stored' : origin'[x].root <= logins'
        /\ \A q \in Requests :
              req'[q].pc \in {"user", "delete", "save"} => req'[q].root <= logins'
        /\ \A x \in ended' : x <= logins'
    BY <1>1, <1>2, <1>4 DEF OneTokenInv
  <2>5. QED
    BY <2>1, <2>2, <2>3, <2>4 DEF OneTokenInv
<1>5. QED
  BY <1>2, <1>3, <1>4

\* The other steps.
LEMMA OthersOnce ==
    ASSUME RequestsInv, OneTokenInv, NEW r \in Requests,
           \/ Read(r) \/ Find(r) \/ User(r) \/ Write(r) \/ Purge(r) \/ Keys(r) \/ Mark(r)
           \/ Revoke(r) \/ Block(r) \/ Check(r) \/ Owner(r) \/ Effect(r) \/ Leave(r)
           \/ \E p \in Procs : Begin(r, p)
    PROVE  OneTokenInv'
<1>0. req \in [Requests -> ReqType]
  BY DEF RequestsInv, TypeOK
<1>1. ASSUME OthersStay(r), req'[r].pc # "save",
             req'[r].pc \in {"user", "delete"} => req'[r].root <= logins
      PROVE  \A q \in Requests :
                /\ req'[q].pc = "save" => req[q].pc = "save" /\ req'[q].root = req[q].root
                /\ req'[q].pc \in {"user", "delete"} => req'[q].root <= logins
  BY <1>1 DEF OthersStay, OneTokenInv
<1>2. ASSUME Ends(r)
      PROVE  \A q \in Requests :
                /\ req'[q].pc = "save" => req[q].pc = "save" /\ req'[q].root = req[q].root
                /\ req'[q].pc \in {"user", "delete"} => req'[q].root <= logins
  BY <1>1, <1>2, IdleTyped DEF Ends
<1>3. ASSUME NEW pc, Goes(r, pc), pc \notin {"user", "delete", "save"}
      PROVE  \A q \in Requests :
                /\ req'[q].pc = "save" => req[q].pc = "save" /\ req'[q].root = req[q].root
                /\ req'[q].pc \in {"user", "delete"} => req'[q].root <= logins
  BY <1>1, <1>3 DEF Goes, Turns
<1>4. \A q \in Requests :
         /\ req'[q].pc = "save" => req[q].pc = "save" /\ req'[q].root = req[q].root
         /\ req'[q].pc \in {"user", "delete"} => req'[q].root <= logins
  <2>1. CASE Read(r)
    BY <1>1, <1>2, <2>1, ReadTurns DEF Turns
  <2>2. CASE Find(r)
    BY <1>1, <1>2, <2>2, FindTurns DEF Turns, OneTokenInv
  <2>3. CASE User(r)
    <3>1. req[r].root <= logins
      BY <2>3 DEF User, OneTokenInv
    <3>2. QED
      BY <1>1, <1>2, <2>3, <3>1, UserTurns DEF Turns
  <2>4. CASE Write(r)
    BY <1>1, <2>4, WriteTurns DEF Turns
  <2>5. CASE Purge(r)
    <3>1. \A q \in Requests \ {r} : ButLate(req'[q], req[q])
      BY <2>5, PurgeTurns DEF Delays, WithLate
    <3>2. req'[r].pc = "keys"
      BY <2>5, PurgeTurns
    <3>3. QED
      BY <3>1, <3>2 DEF ButLate, OneTokenInv
  <2>6. CASE Keys(r)
    BY <1>0, <1>3, <2>6, GotoGoes DEF Keys, PCs
  <2>7. CASE Mark(r) \/ Revoke(r)
    BY <1>2, <1>3, <2>7, MarkTurns, LetsIn
  <2>8. CASE Block(r) \/ Check(r) \/ Owner(r) \/ Effect(r)
    BY <1>2, <1>3, <2>8, LetsIn
  <2>9. CASE Leave(r)
    BY <2>9, LeaveTurns, IdleTyped DEF Delays, WithLate, ButLate, OneTokenInv
  <2>10. ASSUME NEW p \in Procs, Begin(r, p)
         PROVE  \A q \in Requests :
                   /\ req'[q].pc = "save" => req[q].pc = "save" /\ req'[q].root = req[q].root
                   /\ req'[q].pc \in {"user", "delete"} => req'[q].root <= logins
    <3>1. OthersStay(r) /\ Fresh(req'[r])
      BY <2>10, BeginTurns
    <3>2. req'[r].pc \notin {"user", "delete", "save"}
      BY <3>1 DEF Fresh, ReqType, UserOps
    <3>3. QED
      BY <1>1, <3>1, <3>2
  <2>11. QED
    BY <2>1, <2>2, <2>3, <2>4, <2>5, <2>6, <2>7, <2>8, <2>9, <2>10
<1>5. stored' \subseteq stored /\ UNCHANGED <<origin, ended, forked, logins>>
  BY DEF Read, Find, User, Write, Purge, Keys, Mark, Revoke, Block, Check, Owner, Effect, Leave,
         Begin, Start, Unchanged, history
<1>6. QED
  BY <1>4, <1>5, NoneAdded

LEMMA OneTokenKept ==
    ASSUME RequestsInv, OneTokenInv, [Next]_vars
    PROVE  OneTokenInv'
<1>1. ASSUME stored' \subseteq stored, UNCHANGED <<origin, ended, forked, logins>>,
             \A q \in Requests : req'[q] = Idle \/ ButLate(req'[q], req[q])
      PROVE  OneTokenInv'
  <2>1. \A q \in Requests :
           /\ req'[q].pc = "save" => req[q].pc = "save" /\ req'[q].root = req[q].root
           /\ req'[q].pc \in {"user", "delete"} => req'[q].root <= logins
    BY <1>1, IdleTyped DEF ButLate, OneTokenInv
  <2>2. QED
    BY <1>1, <2>1, NoneAdded
<1>2. CASE \/ SendToken \/ TokenExpires \/ (\E b \in BOOLEAN : SetActive(b)) \/ CleanUp
           \/ Lapse \/ Tick \/ UNCHANGED vars
  <2>1. /\ stored' \subseteq stored /\ UNCHANGED <<origin, ended, forked, logins>>
        /\ req' = req
    BY <1>2 DEF SendToken, TokenExpires, SetActive, CleanUp, Lapse, Tick, vars, history
  <2>2. QED
    BY <1>1, <2>1 DEF ButLate
<1>3. CASE AdminDelete
  BY <1>1, <1>3, AdminDeleteTurns DEF AdminDelete, Delays, WithLate
<1>4. ASSUME NEW p \in Procs, Restart(p)
      PROVE  OneTokenInv'
  BY <1>1, <1>4, RestartTurns DEF Restart, ButLate
<1>5. QED
  BY <1>2, <1>3, <1>4, DeleteOnce, SignOnce, SaveOnce, DropOnce, OthersOnce
     DEF Next, Step, RequestStep

\* A login has one refresh token at a time and none after its logout, however
\* logins, refreshes and logouts interleave; but for the logins of which a refresh
\* lost its token to anybody between its find and its delete.
THEOREM OneTokenPerLogin == Spec => []SessionsEndOnce
<1>1. Init => OneTokenInv
  BY IdleTyped DEF Init, OneTokenInv
<1>2. RequestsInv /\ OneTokenInv /\ [Next]_vars => OneTokenInv'
  BY OneTokenKept
<1>3. OneTokenInv => SessionsEndOnce
  BY DEF OneTokenInv, SessionsEndOnce
<1>4. QED
  BY <1>1, <1>2, <1>3, SessionsTypeCorrect, PTL DEF Spec

-----------------------------------------------------------------------------
(* Roles: the handlers *)

\* What the validation of a request lets through.
Valid(w) ==
    /\ w \in Wants
    /\ w.op = "create" => w.legacy # "same"
    /\ w.op = "assign" => w.roles # {}
    /\ w.op = "role switch" => w.active # "same"

SuperAsks(a) == "super_admin" \in SlugsOf(a.as)

Demotes(w) ==
    \/ w.op = "update" /\ w.active = "off"
    \/ w.op = "delete"
    \/ w.op = "replace" /\ "super_admin" \notin w.roles

\* What a handler has been told by the time it is at a step: who asks, and what
\* the checks before the step have let through.
Asked(a) ==
    a.pc # "idle" =>
        /\ Valid(a.want)
        /\ a.pc \in {"fetch", "fill", "look"} => a.super = FALSE
        /\ a.pc = "target" => a.want.op \in {"update", "delete", "replace", "assign", "revoke"}
        /\ a.pc = "count" => a.want.op \in {"leave", "update", "delete", "replace", "revoke"}
        /\ a.pc = "assign" => a.want.op \in {"create", "update"}
        /\ a.pc = "change" /\ a.want.op = "role delete" => a.want.roles \cap SystemRoles = {}
        /\ /\ a.pc \in {"target", "count", "change"}
           /\ a.want.op \in {"replace", "assign", "revoke"} /\ "super_admin" \in a.want.roles
           => SuperAsks(a)
        /\ a.pc \in {"count", "change"} /\ a.super = TRUE =>
              SuperAsks(a) \/ (a.want.op = "delete" /\ a.as = {})
        /\ a.pc = "change" /\ a.super = TRUE /\ Demotes(a.want) => Cardinality(a.seen) > 1
        /\ a.pc \in {"target", "change"} /\ a.want.op = "revoke" /\ "super_admin" \in a.want.roles =>
              Cardinality(a.seen) > 1
        /\ a.pc \in {"count", "change"} /\ a.want.op = "update" =>
              (a.want.legacy \notin {"same", a.was} => a.was # "ADMIN")

\* A transaction deletes what it is asked to, and inserts what it has deleted of
\* the roles that are to be; what it has inserted stays, and a role with it.
Fits(w, t) ==
    /\ w.op = "replace" /\ t.at = "ready" =>
          /\ w.roles \cap t.gone \subseteq t.left /\ t.left \subseteq w.roles
          /\ \A r \in t.left : Exists(r)
    /\ w.op = "revoke" => t.gone \subseteq w.roles

TxFine(h) == Fits(act[h].want, tx[h]) /\ (act[h].pc # "change" => tx[h] = NoTx)

\* The system roles are there, and whoever fills a cache does so in a process of
\* this case for a user who has come into being.
RolesInv ==
    /\ RolesTypeOK
    /\ \A r \in SystemRoles : Exists(r)
    /\ \A h \in Handlers : Asked(act[h]) /\ TxFine(h)
    /\ \A h \in Handlers :
          act[h].pc \in {"fetch", "fill"} =>
              act[h].home \in case.nodes /\ user[act[h].actor].state # "none"

LEMMA FreeTyped ==
    /\ Free \in ActType /\ Asked(Free)
    /\ Free.pc = "idle" /\ Free.super = FALSE /\ Free.as = {} /\ Free.got = {}
<1>1. \E w \in Wants : w.op = "leave"
  <2>1. PICK u \in Users : TRUE
    BY RolesConstants
  <2> DEFINE w == [op |-> "leave", target |-> u, roles |-> {}, legacy |-> "same",
                   active |-> "same", grants |-> "nothing"]
  <2>2. w \in Wants /\ w.op = "leave"
    BY DEF Wants, TargetOps, RoleOps, LegacyRoles, Grants
  <2>3. QED
    BY <2>2
<1>2. (CHOOSE w \in Wants : w.op = "leave") \in Wants
  BY <1>1
<1>3. (CHOOSE n \in Nodes : TRUE) \in Nodes /\ (CHOOSE u \in Users : TRUE) \in Users
  BY RolesConstants
<1>4. QED
  BY <1>2, <1>3 DEF Free, Asked, ActType, ActPCs, LegacyRoles, Shown

\* The records that a handler goes on with, field by field.
LEMMA Stepped ==
    ASSUME NEW a \in ActType, NEW pc \in ActPCs
    PROVE  LET new == [a EXCEPT !.pc = pc]
           IN  /\ new \in ActType /\ new.pc = pc /\ new.home = a.home
               /\ new.actor = a.actor /\ new.want = a.want /\ new.as = a.as
               /\ new.mark = a.mark /\ new.super = a.super /\ new.was = a.was
               /\ new.seen = a.seen /\ new.got = a.got /\ new.stale = a.stale
  BY DEF ActType

Summons(a, n, u, w, mark) == [a EXCEPT !.home = n, !.actor = u, !.want = w, !.mark = mark]

LEMMA Summoned ==
    ASSUME NEW a \in ActType, NEW n \in Nodes, NEW u \in Users, NEW w \in Wants,
           NEW mark \in LegacyRoles
    PROVE  LET new == Summons(a, n, u, w, mark)
           IN  /\ new \in ActType /\ new.pc = a.pc /\ new.home = n
               /\ new.actor = u /\ new.want = w /\ new.as = a.as
               /\ new.mark = mark /\ new.super = a.super /\ new.was = a.was
               /\ new.seen = a.seen /\ new.got = a.got /\ new.stale = a.stale
  BY DEF ActType, Summons

SummonsAlone(a, n, u, w, pc) == [a EXCEPT !.home = n, !.actor = u, !.want = w, !.pc = pc]

LEMMA SummonedAlone ==
    ASSUME NEW a \in ActType, NEW n \in Nodes, NEW u \in Users, NEW w \in Wants,
           NEW pc \in ActPCs
    PROVE  LET new == SummonsAlone(a, n, u, w, pc)
           IN  /\ new \in ActType /\ new.pc = pc /\ new.home = n
               /\ new.actor = u /\ new.want = w /\ new.as = a.as
               /\ new.mark = a.mark /\ new.super = a.super /\ new.was = a.was
               /\ new.seen = a.seen /\ new.got = a.got /\ new.stale = a.stale
  BY DEF ActType, SummonsAlone

Knows(a, pc, as) == [a EXCEPT !.pc = pc, !.as = as]

LEMMA KnownAs ==
    ASSUME NEW a \in ActType, NEW pc \in ActPCs, NEW as \in Shown
    PROVE  LET new == Knows(a, pc, as)
           IN  /\ new \in ActType /\ new.pc = pc /\ new.home = a.home
               /\ new.actor = a.actor /\ new.want = a.want /\ new.as = as
               /\ new.mark = a.mark /\ new.super = a.super /\ new.was = a.was
               /\ new.seen = a.seen /\ new.got = a.got /\ new.stale = a.stale
  BY DEF ActType, Knows

Fills(a, pc, as) == [a EXCEPT !.pc = pc, !.as = as, !.got = {}, !.stale = FALSE]

LEMMA FilledAs ==
    ASSUME NEW a \in ActType, NEW pc \in ActPCs, NEW as \in Shown
    PROVE  LET new == Fills(a, pc, as)
           IN  /\ new \in ActType /\ new.pc = pc /\ new.home = a.home
               /\ new.actor = a.actor /\ new.want = a.want /\ new.as = as
               /\ new.mark = a.mark /\ new.super = a.super /\ new.was = a.was
               /\ new.seen = a.seen
  BY DEF ActType, Shown, Fills

IsAnswered(a, pc, got) == [a EXCEPT !.pc = pc, !.got = got]

LEMMA AnsweredWith ==
    ASSUME NEW a \in ActType, NEW pc \in ActPCs, NEW got \in Shown
    PROVE  LET new == IsAnswered(a, pc, got)
           IN  /\ new \in ActType /\ new.pc = pc /\ new.home = a.home
               /\ new.actor = a.actor /\ new.want = a.want /\ new.as = a.as
               /\ new.mark = a.mark /\ new.super = a.super /\ new.was = a.was
               /\ new.seen = a.seen /\ new.got = got /\ new.stale = a.stale
  BY DEF ActType, IsAnswered

Looks(a, pc, was) == [a EXCEPT !.pc = pc, !.was = was]

LEMMA Looked ==
    ASSUME NEW a \in ActType, NEW pc \in ActPCs, NEW was \in LegacyRoles
    PROVE  LET new == Looks(a, pc, was)
           IN  /\ new \in ActType /\ new.pc = pc /\ new.home = a.home
               /\ new.actor = a.actor /\ new.want = a.want /\ new.as = a.as
               /\ new.mark = a.mark /\ new.super = a.super /\ new.was = was
               /\ new.seen = a.seen /\ new.got = a.got /\ new.stale = a.stale
  BY DEF ActType, Looks

Judges(a, pc, super) == [a EXCEPT !.super = super, !.pc = pc]

LEMMA Judged ==
    ASSUME NEW a \in ActType, NEW pc \in ActPCs, NEW super \in BOOLEAN
    PROVE  LET new == Judges(a, pc, super)
           IN  /\ new \in ActType /\ new.pc = pc /\ new.home = a.home
               /\ new.actor = a.actor /\ new.want = a.want /\ new.as = a.as
               /\ new.mark = a.mark /\ new.super = super /\ new.was = a.was
               /\ new.seen = a.seen /\ new.got = a.got /\ new.stale = a.stale
  BY DEF ActType, Judges

Counting(a, pc, seen) == [a EXCEPT !.pc = pc, !.seen = seen]

LEMMA HasCounted ==
    ASSUME NEW a \in ActType, NEW pc \in ActPCs, NEW seen \in SUBSET Users
    PROVE  LET new == Counting(a, pc, seen)
           IN  /\ new \in ActType /\ new.pc = pc /\ new.home = a.home
               /\ new.actor = a.actor /\ new.want = a.want /\ new.as = a.as
               /\ new.mark = a.mark /\ new.super = a.super /\ new.was = a.was
               /\ new.seen = seen /\ new.got = a.got /\ new.stale = a.stale
  BY DEF ActType, Counting

LEMMA HasMissed ==
    ASSUME NEW a \in ActType
    PROVE  LET new == [a EXCEPT !.stale = TRUE]
           IN  /\ new \in ActType /\ new.pc = a.pc /\ new.home = a.home
               /\ new.actor = a.actor /\ new.want = a.want /\ new.as = a.as
               /\ new.mark = a.mark /\ new.super = a.super /\ new.was = a.was
               /\ new.seen = a.seen /\ new.got = a.got /\ new.stale = TRUE
  BY DEF ActType

-----------------------------------------------------------------------------
(* Roles: the tables *)

LEMMA TruthTyped ==
    ASSUME RolesTypeOK, NEW u \in Users
    PROVE  Truth(u) \in Shown
<1>1. user[u].roles \subseteq Slugs
  BY DEF RolesTypeOK, UserType
<1>2. \A r \in Slugs : role[r].grants \in Grants
  BY DEF RolesTypeOK, RoleType
<1>3. QED
  BY <1>1, <1>2 DEF Truth, Shown

\* Who has the same roles, of the same state and with the same grants, is shown alike.
LEMMA TruthStays ==
    ASSUME NEW u \in Users, user'[u].roles = user[u].roles,
           \A r \in user[u].roles : role'[r] = role[r]
    PROVE  Truth(u)' = Truth(u)
  BY DEF Truth

LEMMA LegacyTyped ==
    /\ \A roles : LegacyFor(roles) \in LegacyRoles
    /\ \A legacy : RoleFor(legacy) \in {"admin", "viewer", "crawler_user"}
  BY DEF LegacyFor, RoleFor, LegacyRoles

LEMMA WithRoleTyped ==
    ASSUME NEW u \in UserType, NEW r \in Slugs
    PROVE  LET new == WithRole(u, r)
           IN  /\ new \in UserType /\ new.state = u.state /\ new.active = u.active
               /\ new.roles = u.roles \cup {r}
               /\ new.legacy = IF r \in {"super_admin", "admin"} THEN "ADMIN" ELSE u.legacy
  BY DEF WithRole, UserType, LegacyRoles

LEMMA CreatedTyped ==
    ASSUME NEW w, Valid(w), w.op = "create"
    PROVE  /\ Created(w) \in UserType /\ Created(w).state = "live" /\ Created(w).roles = {}
  BY DEF Created, UserType, Valid, Wants

LEMMA UpdatedTyped ==
    ASSUME NEW w \in Wants, NEW u \in UserType
    PROVE  LET new == Updated(w, u)
           IN  /\ new \in UserType /\ new.state = u.state /\ new.roles = u.roles
               /\ new.active = IF w.active = "same" THEN u.active ELSE w.active = "on"
               /\ new.legacy = IF w.legacy = "same" THEN u.legacy ELSE w.legacy
<1>1. (w.active = "on") \in BOOLEAN
  OBVIOUS
<1>2. w.legacy \in LegacyRoles \cup {"same"}
  BY DEF Wants
<1> DEFINE active == IF w.active = "same" THEN u.active ELSE w.active = "on"
           legacy == IF w.legacy = "same" THEN u.legacy ELSE w.legacy
<1>3. active \in BOOLEAN /\ legacy \in LegacyRoles
  BY <1>1, <1>2 DEF UserType
<1>4. Updated(w, u) = [u EXCEPT !.active = active, !.legacy = legacy]
  BY DEF Updated
<1> HIDE DEF active, legacy
<1>5. LET new == [u EXCEPT !.active = active, !.legacy = legacy]
      IN  /\ new \in UserType /\ new.state = u.state /\ new.roles = u.roles
          /\ new.active = active /\ new.legacy = legacy
  BY <1>3 DEF UserType
<1>6. QED
  BY <1>4, <1>5 DEF active, legacy

LEMMA RemovedTyped ==
    ASSUME NEW u \in UserType
    PROVE  /\ Removed(u) \in UserType /\ Removed(u).state = "deleted"
           /\ Removed(u).roles = u.roles /\ Removed(u).legacy = u.legacy
  BY DEF Removed, UserType

LEMMA ReplacedTyped ==
    ASSUME NEW w, NEW t \in TxType, NEW u \in UserType
    PROVE  LET new == Replaced(w, t, u)
           IN  /\ new \in UserType /\ new.state = u.state /\ new.active = u.active
               /\ new.roles = (u.roles \ t.gone) \cup t.left /\ new.legacy = LegacyFor(w.roles)
  BY LegacyTyped DEF Replaced, UserType, TxType

LEMMA RevokedTyped ==
    ASSUME NEW t \in TxType, NEW u \in UserType
    PROVE  LET new == Revoked(t, u)
           IN  /\ new \in UserType /\ new.state = u.state /\ new.active = u.active
               /\ new.roles = u.roles \ t.gone /\ new.legacy = LegacyFor(t.left)
  BY LegacyTyped DEF Revoked, UserType

-----------------------------------------------------------------------------
(* Roles: what the steps of a handler make of it *)

HandlersKeep(h) ==
    act' \in [Handlers -> ActType] /\ \A q \in Handlers \ {h} : act'[q] = act[q]
SameTask(r, a) ==
    r.home = a.home /\ r.actor = a.actor /\ r.want = a.want /\ r.mark = a.mark

LEMMA BecomesIt ==
    ASSUME act \in [Handlers -> ActType], NEW h \in Handlers, NEW new \in ActType,
           ActBecomes(h, new)
    PROVE  HandlersKeep(h) /\ act'[h] = new
  BY DEF ActBecomes, HandlersKeep

LEMMA StopOutcome ==
    ASSUME act \in [Handlers -> ActType], NEW h \in Handlers, Stop(h)
    PROVE  HandlersKeep(h) /\ act'[h] = Free
  BY BecomesIt, FreeTyped DEF Stop

LEMMA ProceedOutcome ==
    ASSUME act \in [Handlers -> ActType], NEW h \in Handlers, NEW pc \in ActPCs, Proceed(h, pc)
    PROVE  /\ HandlersKeep(h) /\ SameTask(act'[h], act[h]) /\ act'[h].pc = pc
           /\ act'[h].as = act[h].as /\ act'[h].super = act[h].super
           /\ act'[h].was = act[h].was /\ act'[h].seen = act[h].seen
<1> DEFINE new == [act[h] EXCEPT !.pc = pc]
<1>1. act[h] \in ActType
  OBVIOUS
<1>2. /\ new \in ActType /\ SameTask(new, act[h]) /\ new.pc = pc
      /\ new.as = act[h].as /\ new.super = act[h].super
      /\ new.was = act[h].was /\ new.seen = act[h].seen
  BY <1>1, Stepped DEF SameTask
<1>3. ActBecomes(h, new)
  BY DEF Proceed
<1> HIDE DEF new
<1>4. HandlersKeep(h) /\ act'[h] = new
  BY <1>2, <1>3, BecomesIt
<1>5. QED
  BY <1>2, <1>4

LEMMA EnterOutcome ==
    ASSUME RolesTypeOK, NEW h \in Handlers, NEW n \in Nodes, NEW a \in Users, NEW w \in Wants,
           Enter(h, n, a, w)
    PROVE  /\ HandlersKeep(h) /\ act'[h].pc \in {"look", "fetch"} /\ act'[h].super = FALSE
           /\ act'[h].home = n /\ act'[h].actor = a /\ act'[h].want = w
<1> DEFINE asked == Summons(Free, n, a, w, user[a].legacy)
           there == Knows(asked, "look", cache[n][a].shown)
           waits == [asked EXCEPT !.pc = "fetch"]
<1>1. act \in [Handlers -> ActType] /\ user[a].legacy \in LegacyRoles
  BY DEF RolesTypeOK, UserType
<1>2. cache[n][a].shown \in Shown
  BY DEF RolesTypeOK, EntryType
<1>3. /\ asked \in ActType /\ asked.super = FALSE
      /\ asked.home = n /\ asked.actor = a /\ asked.want = w
  BY <1>1, FreeTyped, Summoned
<1>4. ActBecomes(h, there) \/ ActBecomes(h, waits)
  BY DEF Enter, Summons, Knows
<1> HIDE DEF asked
<1>5. "look" \in ActPCs /\ "fetch" \in ActPCs
  BY DEF ActPCs
<1>6. /\ there \in ActType /\ there.pc = "look" /\ there.super = FALSE
      /\ there.home = n /\ there.actor = a /\ there.want = w
  BY <1>2, <1>3, <1>5, KnownAs
<1>7. /\ waits \in ActType /\ waits.pc = "fetch" /\ waits.super = FALSE
      /\ waits.home = n /\ waits.actor = a /\ waits.want = w
  BY <1>3, <1>5, Stepped
<1> HIDE DEF there, waits
<1>8. CASE ActBecomes(h, there)
  <2>1. HandlersKeep(h) /\ act'[h] = there
    BY <1>1, <1>6, <1>8, BecomesIt
  <2>2. QED
    BY <1>6, <2>1
<1>9. CASE ActBecomes(h, waits)
  <2>1. HandlersKeep(h) /\ act'[h] = waits
    BY <1>1, <1>7, <1>9, BecomesIt
  <2>2. QED
    BY <1>7, <2>1
<1>10. QED
  BY <1>4, <1>8, <1>9

LEMMA EnterAloneOutcome ==
    ASSUME RolesTypeOK, NEW h \in Handlers, NEW n \in Nodes, NEW w \in Wants,
           EnterAlone(h, n, w)
    PROVE  /\ HandlersKeep(h) /\ act'[h].super = FALSE /\ act'[h].want = w
           /\ act'[h].pc = IF w.op = "leave" THEN "look" ELSE "change"
<1> DEFINE pc == IF w.op = "leave" THEN "look" ELSE "change"
           new == SummonsAlone(Free, n, w.target, w, pc)
<1>1. act \in [Handlers -> ActType] /\ w.target \in Users /\ pc \in ActPCs
  BY DEF RolesTypeOK, Wants, ActPCs
<1>2. ActBecomes(h, new)
  BY DEF EnterAlone, SummonsAlone
<1> HIDE DEF pc
<1>3. /\ new \in ActType /\ new.super = FALSE /\ new.want = w /\ new.pc = pc
  BY <1>1, FreeTyped, SummonedAlone
<1> HIDE DEF new
<1>4. HandlersKeep(h) /\ act'[h] = new
  BY <1>1, <1>2, <1>3, BecomesIt
<1>5. QED
  BY <1>3, <1>4 DEF pc

LEMMA FetchOutcome ==
    ASSUME RolesTypeOK, NEW h \in Handlers, Fetch(h)
    PROVE  /\ HandlersKeep(h) /\ SameTask(act'[h], act[h]) /\ act'[h].pc = "fill"
           /\ act'[h].super = act[h].super /\ act'[h].got = Truth(act[h].actor)
<1> DEFINE new == IsAnswered(act[h], "fill", Truth(act[h].actor))
<1>1. act \in [Handlers -> ActType] /\ act[h] \in ActType /\ "fill" \in ActPCs
  BY DEF RolesTypeOK, ActPCs
<1>2. act[h].actor \in Users
  BY <1>1 DEF ActType
<1>3. Truth(act[h].actor) \in Shown
  BY <1>2, TruthTyped
<1>4. ActBecomes(h, new)
  BY DEF Fetch, IsAnswered
<1>5. /\ new \in ActType /\ SameTask(new, act[h]) /\ new.pc = "fill"
      /\ new.super = act[h].super /\ new.got = Truth(act[h].actor)
  BY <1>1, <1>3, AnsweredWith DEF SameTask
<1> HIDE DEF new
<1>6. HandlersKeep(h) /\ act'[h] = new
  BY <1>1, <1>4, <1>5, BecomesIt
<1>7. QED
  BY <1>5, <1>6

LEMMA FillOutcome ==
    ASSUME RolesTypeOK, NEW h \in Handlers, Fill(h)
    PROVE  /\ HandlersKeep(h)
           /\ \/ act'[h] = Free
              \/ /\ SameTask(act'[h], act[h]) /\ act'[h].pc = "look"
                 /\ act'[h].super = act[h].super
<1> DEFINE new == Fills(act[h], "look", act[h].got)
<1>1. act \in [Handlers -> ActType] /\ act[h] \in ActType /\ "look" \in ActPCs
  BY DEF RolesTypeOK, ActPCs
<1>2. act[h].got \in Shown
  BY <1>1 DEF ActType
<1>3. ActBecomes(h, new) \/ Stop(h)
  BY DEF Fill, Fills
<1>4. /\ new \in ActType /\ SameTask(new, act[h]) /\ new.pc = "look"
      /\ new.super = act[h].super
  BY <1>1, <1>2, FilledAs DEF SameTask
<1> HIDE DEF new
<1>5. CASE ActBecomes(h, new)
  <2>1. HandlersKeep(h) /\ act'[h] = new
    BY <1>1, <1>4, <1>5, BecomesIt
  <2>2. QED
    BY <1>4, <2>1
<1>6. CASE Stop(h)
  BY <1>1, <1>6, StopOutcome
<1>7. QED
  BY <1>3, <1>5, <1>6

LEMMA LookOutcome ==
    ASSUME RolesTypeOK, NEW h \in Handlers, Look(h)
    PROVE  /\ HandlersKeep(h)
           /\ \/ act'[h] = Free
              \/ /\ LookPasses(h)
                 /\ SameTask(act'[h], act[h]) /\ act'[h].pc = AfterLook(act[h].want)
                 /\ act'[h].as = act[h].as /\ act'[h].super = act[h].super
<1> DEFINE w == act[h].want
           new == Looks(act[h], AfterLook(w), user[w.target].legacy)
<1>1. act \in [Handlers -> ActType] /\ act[h] \in ActType
  BY DEF RolesTypeOK
<1>2. w.target \in Users
  BY <1>1 DEF ActType, Wants
<1>3. AfterLook(w) \in ActPCs /\ user[w.target].legacy \in LegacyRoles
  BY <1>2 DEF AfterLook, ActPCs, RolesTypeOK, UserType
<1>4. (LookPasses(h) /\ ActBecomes(h, new)) \/ Stop(h)
  BY DEF Look, Looks
<1>5. /\ new \in ActType /\ SameTask(new, act[h]) /\ new.pc = AfterLook(w)
      /\ new.as = act[h].as /\ new.super = act[h].super
  BY <1>1, <1>3, Looked DEF SameTask
<1> HIDE DEF new
<1>6. CASE LookPasses(h) /\ ActBecomes(h, new)
  <2>1. HandlersKeep(h) /\ act'[h] = new
    BY <1>1, <1>5, <1>6, BecomesIt
  <2>2. QED
    BY <1>5, <1>6, <2>1
<1>7. CASE Stop(h)
  BY <1>1, <1>7, StopOutcome
<1>8. QED
  BY <1>4, <1>6, <1>7

LEMMA CheckTargetOutcome ==
    ASSUME RolesTypeOK, NEW h \in Handlers, CheckTarget(h)
    PROVE  LET w == act[h].want
               super == IsSuper(w.target)
           IN  /\ HandlersKeep(h)
               /\ \/ act'[h] = Free
                  \/ /\ ~Protected(h) /\ (w.op = "update" => MayChangeLegacy(h))
                     /\ SameTask(act'[h], act[h]) /\ act'[h].as = act[h].as
                     /\ act'[h].was = act[h].was /\ act'[h].seen = act[h].seen
                     /\ act'[h].super = super
                     /\ act'[h].pc = IF super /\ Demotes(w) THEN "count" ELSE "change"
<1> DEFINE w == act[h].want
           super == IsSuper(w.target)
           pc == IF super /\ Demotes(w) THEN "count" ELSE "change"
           new == Judges(act[h], pc, super)
<1>1. act \in [Handlers -> ActType] /\ act[h] \in ActType
  BY DEF RolesTypeOK
<1>2. pc \in ActPCs
  BY DEF ActPCs
<1>3. super \in BOOLEAN
  BY DEF IsSuper
<1>4. \/ /\ ~Protected(h) /\ (w.op = "update" => MayChangeLegacy(h))
         /\ ActBecomes(h, new)
      \/ Stop(h)
  BY DEF CheckTarget, Demotes, Judges
<1> HIDE DEF pc, super
<1>5. /\ new \in ActType /\ SameTask(new, act[h]) /\ new.pc = pc /\ new.super = super
      /\ new.as = act[h].as /\ new.was = act[h].was /\ new.seen = act[h].seen
  BY <1>1, <1>2, <1>3, Judged DEF SameTask
<1> HIDE DEF new
<1>6. CASE /\ ~Protected(h) /\ (w.op = "update" => MayChangeLegacy(h))
           /\ ActBecomes(h, new)
  <2>1. HandlersKeep(h) /\ act'[h] = new
    BY <1>1, <1>5, <1>6, BecomesIt
  <2>2. QED
    BY <1>5, <1>6, <2>1 DEF pc, super
<1>7. CASE Stop(h)
  BY <1>1, <1>7, StopOutcome
<1>8. QED
  BY <1>4, <1>6, <1>7

LEMMA CountOthersOutcome ==
    ASSUME RolesTypeOK, NEW h \in Handlers, CountOthers(h)
    PROVE  LET w == act[h].want
           IN  /\ HandlersKeep(h)
               /\ \/ act'[h] = Free
                  \/ /\ SameTask(act'[h], act[h]) /\ act'[h].as = act[h].as
                     /\ act'[h].was = act[h].was /\ act'[h].super = act[h].super
                     /\ Cardinality(act'[h].seen) > 1
                     /\ act'[h].pc = IF w.op = "revoke" THEN "target" ELSE "change"
<1> DEFINE w == act[h].want
           counted == IF w.op = "leave" THEN ActiveAdmins ELSE ActiveSupers
           pc == IF w.op = "revoke" THEN "target" ELSE "change"
           new == Counting(act[h], pc, counted)
<1>1. act \in [Handlers -> ActType] /\ act[h] \in ActType
  BY DEF RolesTypeOK
<1>2. pc \in ActPCs /\ counted \in SUBSET Users
  BY DEF ActPCs, ActiveAdmins, ActiveSupers
<1>3. (Cardinality(counted) > 1 /\ ActBecomes(h, new)) \/ Stop(h)
  BY DEF CountOthers, Counting
<1> HIDE DEF pc, counted
<1>4. /\ new \in ActType /\ SameTask(new, act[h]) /\ new.pc = pc /\ new.super = act[h].super
      /\ new.as = act[h].as /\ new.was = act[h].was /\ new.seen = counted
  BY <1>1, <1>2, HasCounted DEF SameTask
<1> HIDE DEF new
<1>5. CASE Cardinality(counted) > 1 /\ ActBecomes(h, new)
  <2>1. HandlersKeep(h) /\ act'[h] = new
    BY <1>1, <1>4, <1>5, BecomesIt
  <2>2. QED
    BY <1>4, <1>5, <2>1 DEF pc
<1>6. CASE Stop(h)
  BY <1>1, <1>6, StopOutcome
<1>7. QED
  BY <1>3, <1>5, <1>6

\* Invalidations overtake queries.
ButStale(r, a) ==
    /\ r.pc = a.pc /\ SameTask(r, a) /\ r.as = a.as /\ r.super = a.super
    /\ r.was = a.was /\ r.seen = a.seen /\ r.got = a.got

\* What becomes of the executions when process n drops the users who are gone.
OvertakenIn(out, n, gone) ==
    \A q \in Handlers :
        /\ out[q] \in ActType
        /\ out[q] = act[q] \/ (ButStale(out[q], act[q]) /\ out[q].stale = TRUE)
        /\ act[q].pc = "fill" /\ act[q].home = n /\ act[q].actor \in gone => out[q].stale = TRUE

LEMMA OutdateTyped ==
    ASSUME act \in [Handlers -> ActType], NEW n \in Nodes, NEW gone \in SUBSET Users
    PROVE  /\ Outdate(n, gone) \in [Handlers -> ActType]
           /\ OvertakenIn(Outdate(n, gone), n, gone)
<1>1. ASSUME NEW q \in Handlers
      PROVE  LET r == Outdate(n, gone)[q]
             IN  /\ r \in ActType
                 /\ r = act[q] \/ (ButStale(r, act[q]) /\ r.stale = TRUE)
                 /\ act[q].pc = "fill" /\ act[q].home = n /\ act[q].actor \in gone => r.stale = TRUE
  <2> DEFINE new == [act[q] EXCEPT !.stale = TRUE]
             P == act[q].pc = "fill" /\ act[q].home = n /\ act[q].actor \in gone
  <2>1. act[q] \in ActType
    OBVIOUS
  <2>2. new \in ActType /\ ButStale(new, act[q]) /\ new.stale = TRUE
    BY <2>1, HasMissed DEF ButStale, SameTask
  <2>3. Outdate(n, gone)[q] = IF P THEN new ELSE act[q]
    BY DEF Outdate
  <2> HIDE DEF new
  <2>4. QED
    BY <2>1, <2>2, <2>3
<1>2. OvertakenIn(Outdate(n, gone), n, gone)
  BY <1>1 DEF OvertakenIn
<1>3. QED
  BY <1>1, <1>2 DEF Outdate

-----------------------------------------------------------------------------
(* Roles: types, and what a handler has been told *)

LEMMA WantsAreValid ==
    ASSUME case \in Cases, NEW w \in case.wants
    PROVE  Valid(w)
  BY RolesConstants DEF Valid

LEMMA StaleAsked ==
    ASSUME NEW a, NEW r, Asked(a), ButStale(r, a)
    PROVE  Asked(r)
  BY DEF Asked, ButStale, SameTask, SuperAsks

LEMMA NoTxFits ==
    /\ NoTx \in TxType /\ \A w : Fits(w, NoTx)
  BY DEF NoTx, TxType, Fits

\* h is in no transaction after the step, and others are where they were.
TxEnds(h) ==
    /\ tx' \in [Handlers -> TxType] /\ tx'[h] = NoTx
    /\ \A q \in Handlers \ {h} : tx'[q] = tx[q]

LEMMA QuietTx ==
    ASSUME RolesInv, NEW h \in Handlers, act[h].pc # "change", tx' = tx
    PROVE  TxEnds(h)
  BY DEF RolesInv, RolesTypeOK, TxFine, TxEnds

LEMMA AbortedTx ==
    ASSUME RolesInv, NEW h \in Handlers, tx' = [tx EXCEPT ![h] = NoTx]
    PROVE  TxEnds(h)
  BY NoTxFits DEF RolesInv, RolesTypeOK, TxEnds

LEMMA TxStays ==
    ASSUME RolesInv, NEW h \in Handlers, HandlersKeep(h), TxEnds(h), role' = role
    PROVE  \A q \in Handlers : TxFine(q)'
<1>1. ASSUME NEW q \in Handlers
      PROVE  TxFine(q)'
  <2>1. CASE q = h
    BY <2>1 DEF TxEnds, TxFine, Fits, NoTx
  <2>2. CASE q # h
    <3>1. act'[q] = act[q] /\ tx'[q] = tx[q]
      BY <2>2 DEF HandlersKeep, TxEnds
    <3>2. QED
      BY <3>1 DEF RolesInv, TxFine, Fits, Exists
  <2>3. QED
    BY <2>1, <2>2
<1>2. QED
  BY <1>1

\* Steps of one handler that write to no table.
LEMMA StepKeepsRoles ==
    ASSUME RolesInv, NEW h \in Handlers, HandlersKeep(h), Asked(act'[h]), TxEnds(h),
           act'[h].pc \in {"fetch", "fill"} =>
               act'[h].home \in case.nodes /\ user[act'[h].actor].state # "none",
           UNCHANGED <<case, user, role, inbox, missed>>,
           cache' \in [Nodes -> [Users -> EntryType]]
    PROVE  RolesInv'
<1>1. RolesTypeOK'
  BY DEF RolesInv, RolesTypeOK, HandlersKeep, TxEnds, Exists
<1>2. (\A r \in SystemRoles : Exists(r))'
  BY DEF RolesInv, Exists
<1>3. ASSUME NEW q \in Handlers
      PROVE  /\ Asked(act'[q])
             /\ act'[q].pc \in {"fetch", "fill"} =>
                   act'[q].home \in case'.nodes /\ user'[act'[q].actor].state # "none"
  <2>1. CASE q = h
    BY <2>1
  <2>2. CASE q # h
    <3>1. act'[q] = act[q]
      BY <2>2 DEF HandlersKeep
    <3>2. QED
      BY <3>1 DEF RolesInv
  <2>3. QED
    BY <2>1, <2>2
<1>4. \A q \in Handlers : TxFine(q)'
  BY TxStays
<1>5. QED
  BY <1>1, <1>2, <1>3, <1>4 DEF RolesInv

LEMMA EnterRoles ==
    ASSUME RolesInv, NEW h \in Handlers, NEW n \in case.nodes, NEW a \in case.actors,
           NEW w \in case.wants, Enter(h, n, a, w), UNCHANGED case
    PROVE  RolesInv'
<1>1. RolesTypeOK /\ n \in Nodes /\ a \in Users
  BY RolesConstants DEF RolesInv, RolesTypeOK
<1>2. Valid(w) /\ w \in Wants
  BY <1>1, WantsAreValid DEF RolesTypeOK, Valid
<1>3. /\ HandlersKeep(h) /\ act'[h].pc \in {"look", "fetch"} /\ act'[h].super = FALSE
      /\ act'[h].home = n /\ act'[h].actor = a /\ act'[h].want = w
  BY <1>1, <1>2, EnterOutcome
<1>4. Asked(act'[h])
  BY <1>2, <1>3 DEF Asked
<1>5. user[a].state # "none"
  BY DEF Enter, LiveActive, Live
<1>6. cache' \in [Nodes -> [Users -> EntryType]]
  BY <1>1 DEF Enter, RolesTypeOK
<1>7. UNCHANGED <<case, user, role, inbox, missed>> /\ TxEnds(h)
  BY QuietTx DEF Enter
<1>8. QED
  BY <1>3, <1>4, <1>5, <1>6, <1>7, StepKeepsRoles

LEMMA EnterAloneRoles ==
    ASSUME RolesInv, NEW h \in Handlers, NEW n \in case.nodes, NEW w \in case.wants,
           EnterAlone(h, n, w), UNCHANGED case
    PROVE  RolesInv'
<1>1. RolesTypeOK /\ n \in Nodes
  BY RolesConstants DEF RolesInv, RolesTypeOK
<1>2. Valid(w) /\ w \in Wants
  BY <1>1, WantsAreValid DEF RolesTypeOK, Valid
<1>3. /\ HandlersKeep(h) /\ act'[h].super = FALSE /\ act'[h].want = w
      /\ act'[h].pc = IF w.op = "leave" THEN "look" ELSE "change"
  BY <1>1, <1>2, EnterAloneOutcome
<1>4. w.op \in {"leave", "ensure"}
  BY DEF EnterAlone
<1>5. Asked(act'[h])
  BY <1>2, <1>3, <1>4 DEF Asked
<1>6. cache' \in [Nodes -> [Users -> EntryType]]
  BY <1>1 DEF EnterAlone, RolesTypeOK
<1>7. UNCHANGED <<case, user, role, inbox, missed>> /\ TxEnds(h)
  BY QuietTx DEF EnterAlone
<1>8. act'[h].pc \notin {"fetch", "fill"}
  BY <1>3
<1>9. QED
  BY <1>3, <1>5, <1>6, <1>7, <1>8, StepKeepsRoles

LEMMA FetchRoles ==
    ASSUME RolesInv, NEW h \in Handlers, Fetch(h), UNCHANGED case
    PROVE  RolesInv'
<1>1. RolesTypeOK /\ Asked(act[h]) /\ act[h].pc = "fetch"
  BY DEF RolesInv, Fetch
<1>2. /\ HandlersKeep(h) /\ SameTask(act'[h], act[h]) /\ act'[h].pc = "fill"
      /\ act'[h].super = act[h].super
  BY <1>1, FetchOutcome
<1>3. Asked(act'[h])
  BY <1>1, <1>2 DEF Asked, SameTask
<1>4. act'[h].home \in case.nodes /\ user[act'[h].actor].state # "none"
  BY <1>1, <1>2 DEF RolesInv, SameTask
<1>5. cache' \in [Nodes -> [Users -> EntryType]]
  BY <1>1 DEF Fetch, RolesTypeOK
<1>6. UNCHANGED <<case, user, role, inbox, missed>> /\ TxEnds(h)
  BY QuietTx DEF Fetch
<1>7. QED
  BY <1>2, <1>3, <1>4, <1>5, <1>6, StepKeepsRoles

\* The cache with one entry more.
LEMMA FillCache ==
    ASSUME RolesTypeOK, NEW h \in Handlers, Fill(h)
    PROVE  LET a == act[h]
               new == [on |-> TRUE, shown |-> a.got, stale |-> a.stale]
           IN  /\ new \in EntryType /\ a.home \in Nodes /\ a.actor \in Users
               /\ IF case.caching
                  THEN cache' = [cache EXCEPT ![a.home][a.actor] = new] ELSE cache' = cache
<1>1. act[h] \in ActType
  BY DEF RolesTypeOK
<1>2. act[h].got \in Shown /\ act[h].stale \in BOOLEAN
      /\ act[h].home \in Nodes /\ act[h].actor \in Users
  BY <1>1 DEF ActType
<1>3. QED
  BY <1>2 DEF Fill, EntryType

LEMMA FillRoles ==
    ASSUME RolesInv, NEW h \in Handlers, Fill(h), UNCHANGED case
    PROVE  RolesInv'
<1>1. RolesTypeOK /\ Asked(act[h]) /\ act[h].pc = "fill"
  BY DEF RolesInv, Fill
<1>2. /\ HandlersKeep(h)
      /\ \/ act'[h] = Free
         \/ SameTask(act'[h], act[h]) /\ act'[h].pc = "look" /\ act'[h].super = act[h].super
  BY <1>1, FillOutcome
<1>3. Asked(act'[h]) /\ act'[h].pc \notin {"fetch", "fill"}
  <2>1. CASE act'[h] = Free
    BY <2>1, FreeTyped
  <2>2. CASE SameTask(act'[h], act[h]) /\ act'[h].pc = "look" /\ act'[h].super = act[h].super
    BY <1>1, <2>2 DEF Asked, SameTask
  <2>3. QED
    BY <1>2, <2>1, <2>2
<1>4. cache' \in [Nodes -> [Users -> EntryType]]
  <2> DEFINE a == act[h]
             new == [on |-> TRUE, shown |-> a.got, stale |-> a.stale]
  <2>1. /\ new \in EntryType /\ a.home \in Nodes /\ a.actor \in Users
        /\ IF case.caching
           THEN cache' = [cache EXCEPT ![a.home][a.actor] = new] ELSE cache' = cache
    BY <1>1, FillCache
  <2> HIDE DEF new, a
  <2>2. cache \in [Nodes -> [Users -> EntryType]]
    BY <1>1 DEF RolesTypeOK
  <2>3. [cache EXCEPT ![a.home][a.actor] = new] \in [Nodes -> [Users -> EntryType]]
    BY <2>1, <2>2
  <2>4. QED
    BY <2>1, <2>2, <2>3
<1>5. UNCHANGED <<case, user, role, inbox, missed>> /\ TxEnds(h)
  BY QuietTx DEF Fill
<1>6. QED
  BY <1>2, <1>3, <1>4, <1>5, StepKeepsRoles

LEMMA LookRoles ==
    ASSUME RolesInv, NEW h \in Handlers, Look(h), UNCHANGED case
    PROVE  RolesInv'
<1> DEFINE w == act[h].want
<1>1. RolesTypeOK /\ Asked(act[h]) /\ act[h].pc = "look" /\ act[h] \in ActType
  BY DEF RolesInv, RolesTypeOK, Look
<1>2. Valid(w) /\ act[h].super = FALSE
  BY <1>1 DEF Asked
<1>3. /\ HandlersKeep(h)
      /\ \/ act'[h] = Free
         \/ /\ LookPasses(h)
            /\ SameTask(act'[h], act[h]) /\ act'[h].pc = AfterLook(w)
            /\ act'[h].as = act[h].as /\ act'[h].super = act[h].super
  BY <1>1, LookOutcome
<1>4. Asked(act'[h]) /\ act'[h].pc \notin {"fetch", "fill"}
  <2>1. CASE act'[h] = Free
    BY <2>1, FreeTyped
  <2>2. CASE /\ LookPasses(h)
             /\ SameTask(act'[h], act[h]) /\ act'[h].pc = AfterLook(w)
             /\ act'[h].as = act[h].as /\ act'[h].super = act[h].super
    <3>1. act'[h].want = w /\ w.op \in TargetOps \cup RoleOps
      BY <1>2, <2>2 DEF SameTask, Valid, Wants
    <3>2. /\ w.op \in {"replace", "assign", "revoke"} /\ "super_admin" \in w.roles
             => SuperAsks(act'[h])
      <4>1. ASSUME w.op \in {"replace", "assign", "revoke"}, "super_admin" \in w.roles
            PROVE  "super_admin" \in SlugsOf(act[h].as)
        BY <2>2, <4>1 DEF LookPasses, MayName, ByASuper, ActorRoles
      <4>2. QED
        BY <2>2, <4>1 DEF SuperAsks
    <3>3. w.op = "role delete" => w.roles \cap SystemRoles = {}
      BY <2>2 DEF LookPasses, RoleMayGo
    <3>4. act'[h].pc = "target" => w.op \in {"update", "delete", "replace", "assign", "revoke"}
      BY <2>2, <3>1 DEF AfterLook, TargetOps, RoleOps
    <3>5. act'[h].pc = "target" /\ w.op = "revoke" => "super_admin" \notin w.roles
      BY <2>2, <3>1 DEF AfterLook, TargetOps, RoleOps
    <3>6. /\ act'[h].pc \in {"target", "count", "change"}
          /\ act'[h].pc = "count" => w.op \in {"leave", "revoke"}
          /\ act'[h].pc = "change" => w.op \notin {"update", "revoke"}
      BY <2>2, <3>1 DEF AfterLook, TargetOps, RoleOps
    <3>7. QED
      BY <1>2, <2>2, <3>1, <3>2, <3>3, <3>4, <3>5, <3>6 DEF Asked
  <2>3. QED
    BY <1>3, <2>1, <2>2
<1>5. cache' \in [Nodes -> [Users -> EntryType]]
  BY <1>1 DEF Look, RolesTypeOK
<1>6. UNCHANGED <<case, user, role, inbox, missed>> /\ TxEnds(h)
  BY QuietTx DEF Look
<1>7. QED
  BY <1>3, <1>4, <1>5, <1>6, StepKeepsRoles

LEMMA CheckTargetRoles ==
    ASSUME RolesInv, NEW h \in Handlers, CheckTarget(h), UNCHANGED case
    PROVE  RolesInv'
<1> DEFINE w == act[h].want
           super == IsSuper(w.target)
<1>1. RolesTypeOK /\ Asked(act[h]) /\ act[h].pc = "target" /\ act[h] \in ActType
  BY DEF RolesInv, RolesTypeOK, CheckTarget
<1>2. Valid(w) /\ w.op \in {"update", "delete", "replace", "assign", "revoke"}
  BY <1>1 DEF Asked
<1>3. /\ HandlersKeep(h)
      /\ \/ act'[h] = Free
         \/ /\ ~Protected(h) /\ (w.op = "update" => MayChangeLegacy(h))
            /\ SameTask(act'[h], act[h]) /\ act'[h].as = act[h].as
            /\ act'[h].was = act[h].was /\ act'[h].seen = act[h].seen
            /\ act'[h].super = super
            /\ act'[h].pc = IF super /\ Demotes(w) THEN "count" ELSE "change"
  BY <1>1, CheckTargetOutcome
<1>4. Asked(act'[h]) /\ act'[h].pc \notin {"fetch", "fill"}
  <2>1. CASE act'[h] = Free
    BY <2>1, FreeTyped
  <2>2. CASE /\ ~Protected(h) /\ (w.op = "update" => MayChangeLegacy(h))
             /\ SameTask(act'[h], act[h]) /\ act'[h].as = act[h].as
             /\ act'[h].was = act[h].was /\ act'[h].seen = act[h].seen
             /\ act'[h].super = super
             /\ act'[h].pc = IF super /\ Demotes(w) THEN "count" ELSE "change"
    <3>1. act'[h].want = w
      BY <2>2 DEF SameTask
    <3>2. act'[h].super = TRUE => SuperAsks(act'[h]) \/ (w.op = "delete" /\ act'[h].as = {})
      <4>1. ASSUME super
            PROVE  ByASuper(h) \/ (w.op = "delete" /\ act[h].as = {})
        BY <2>2, <4>1 DEF Protected
      <4>2. ByASuper(h) => "super_admin" \in SlugsOf(act[h].as)
        <5>1. act[h].mark # "super_admin"
          BY <1>1 DEF ActType, LegacyRoles
        <5>2. QED
          BY <5>1 DEF ByASuper, ActorRoles
      <4>3. QED
        BY <2>2, <4>1, <4>2 DEF SuperAsks
    <3>3. w.op = "update" => (w.legacy \notin {"same", act'[h].was} => act'[h].was # "ADMIN")
      BY <2>2 DEF MayChangeLegacy, ChangesLegacy
    <3>4. SuperAsks(act[h]) => SuperAsks(act'[h])
      BY <2>2 DEF SuperAsks
    <3>5. act'[h].pc = "count" => Demotes(w)
      BY <2>2
    <3>6. act'[h].pc = "change" /\ act'[h].super = TRUE => ~Demotes(w)
      BY <2>2
    <3>7. act'[h].pc \in {"count", "change"} /\ act'[h].seen = act[h].seen
      BY <2>2
    <3>8. w.op \in {"replace", "assign", "revoke"} /\ "super_admin" \in w.roles => SuperAsks(act'[h])
      BY <1>1, <3>4 DEF Asked
    <3>9. w.op = "revoke" /\ "super_admin" \in w.roles => Cardinality(act'[h].seen) > 1
      BY <1>1, <3>7 DEF Asked
    <3>10. act'[h].pc = "count" => w.op \in {"update", "delete", "replace"}
      BY <3>5 DEF Demotes
    <3>11. QED
      BY <1>2, <3>1, <3>2, <3>3, <3>6, <3>7, <3>8, <3>9, <3>10 DEF Asked
  <2>3. QED
    BY <1>3, <2>1, <2>2
<1>5. cache' \in [Nodes -> [Users -> EntryType]]
  BY <1>1 DEF CheckTarget, RolesTypeOK
<1>6. UNCHANGED <<case, user, role, inbox, missed>> /\ TxEnds(h)
  BY QuietTx DEF CheckTarget
<1>7. QED
  BY <1>3, <1>4, <1>5, <1>6, StepKeepsRoles

LEMMA CountOthersRoles ==
    ASSUME RolesInv, NEW h \in Handlers, CountOthers(h), UNCHANGED case
    PROVE  RolesInv'
<1> DEFINE w == act[h].want
<1>1. RolesTypeOK /\ Asked(act[h]) /\ act[h].pc = "count" /\ act[h] \in ActType
  BY DEF RolesInv, RolesTypeOK, CountOthers
<1>2. Valid(w) /\ w.op \in {"leave", "update", "delete", "replace", "revoke"}
  BY <1>1 DEF Asked
<1>3. /\ HandlersKeep(h)
      /\ \/ act'[h] = Free
         \/ /\ SameTask(act'[h], act[h]) /\ act'[h].as = act[h].as
            /\ act'[h].was = act[h].was /\ act'[h].super = act[h].super
            /\ Cardinality(act'[h].seen) > 1
            /\ act'[h].pc = IF w.op = "revoke" THEN "target" ELSE "change"
  BY <1>1, CountOthersOutcome
<1>4. Asked(act'[h]) /\ act'[h].pc \notin {"fetch", "fill"}
  <2>1. CASE act'[h] = Free
    BY <2>1, FreeTyped
  <2>2. CASE /\ SameTask(act'[h], act[h]) /\ act'[h].as = act[h].as
             /\ act'[h].was = act[h].was /\ act'[h].super = act[h].super
             /\ Cardinality(act'[h].seen) > 1
             /\ act'[h].pc = IF w.op = "revoke" THEN "target" ELSE "change"
    <3>1. act'[h].want = w /\ act'[h].pc \in {"target", "change"}
      BY <2>2 DEF SameTask
    <3>2. SuperAsks(act[h]) => SuperAsks(act'[h])
      BY <2>2 DEF SuperAsks
    <3>3. w.op \in {"replace", "assign", "revoke"} /\ "super_admin" \in w.roles => SuperAsks(act'[h])
      BY <1>1, <3>2 DEF Asked
    <3>4. act'[h].super = TRUE => SuperAsks(act'[h]) \/ (w.op = "delete" /\ act'[h].as = {})
      BY <1>1, <2>2, <3>2 DEF Asked
    <3>5. w.op = "update" => (w.legacy \notin {"same", act'[h].was} => act'[h].was # "ADMIN")
      BY <1>1, <2>2 DEF Asked
    <3>6. act'[h].pc = "target" => w.op = "revoke"
      BY <2>2
    <3>7. QED
      BY <1>2, <2>2, <3>1, <3>3, <3>4, <3>5, <3>6 DEF Asked
  <2>3. QED
    BY <1>3, <2>1, <2>2
<1>5. cache' \in [Nodes -> [Users -> EntryType]]
  BY <1>1 DEF CountOthers, RolesTypeOK
<1>6. UNCHANGED <<case, user, role, inbox, missed>> /\ TxEnds(h)
  BY QuietTx DEF CountOthers
<1>7. QED
  BY <1>3, <1>4, <1>5, <1>6, StepKeepsRoles

-----------------------------------------------------------------------------
(* Roles: the steps that write to the tables *)

\* What the statement of a request does.
Statement(w, t) ==
    \/ /\ w.op \in TargetOps
       /\ user' = [user EXCEPT ![w.target] = Written(w, t, @)] /\ role' = role
    \/ /\ w.op = "ensure"
       /\ role' = [r \in Slugs |-> IF r \in SystemRoles THEN Ensured(r) ELSE role[r]]
       /\ user' = user
    \/ /\ w.op \in RoleOps \ {"ensure"}
       /\ role' = [r \in Slugs |-> IF r \in w.roles THEN WrittenRole(w, r) ELSE role[r]]
       /\ user' = Cascaded(w)

LEMMA ChangeOutcome ==
    ASSUME RolesTypeOK, NEW h \in Handlers, Valid(act[h].want), Change(h)
    PROVE  LET w == act[h].want
           IN  /\ HandlersKeep(h) /\ UNCHANGED <<cache, inbox, missed>> /\ Close(h) /\ MayWrite(h)
               /\ \/ act'[h] = Free /\ UNCHANGED <<user, role>>
                  \/ /\ ~WriteFails(w) /\ Statement(w, tx[h])
                     /\ \/ w.op = "leave" /\ act'[h] = Free
                        \/ /\ w.op # "leave"
                           /\ SameTask(act'[h], act[h]) /\ act'[h].pc = AfterChange(h)
<1> DEFINE w == act[h].want
<1>1. act \in [Handlers -> ActType]
  BY DEF RolesTypeOK
<1>2. w.op \in TargetOps \cup RoleOps
  BY DEF Valid, Wants
<1>3. UNCHANGED <<cache, inbox, missed>> /\ Close(h) /\ MayWrite(h)
  BY DEF Change
<1>4. CASE WriteFails(w)
  <2>1. Stop(h) /\ UNCHANGED <<user, role>>
    BY <1>4 DEF Change
  <2>2. QED
    BY <1>1, <1>3, <2>1, StopOutcome
<1>5. CASE ~WriteFails(w)
  <2>1. Statement(w, tx[h])
    <3>1. CASE w.op \in TargetOps
      BY <1>5, <3>1 DEF Change, Statement
    <3>2. CASE w.op = "ensure"
      BY <1>5, <3>2 DEF Change, Statement, TargetOps
    <3>3. CASE w.op \in RoleOps \ {"ensure"}
      <4>1. w.op \notin TargetOps /\ w.op # "ensure"
        BY <3>3 DEF TargetOps, RoleOps
      <4>2. QED
        BY <1>5, <3>3, <4>1 DEF Change, Statement
    <3>4. QED
      BY <1>2, <3>1, <3>2, <3>3
  <2>2. CASE w.op = "leave"
    <3>1. Stop(h)
      BY <1>5, <2>2 DEF Change
    <3>2. QED
      BY <1>1, <1>3, <1>5, <2>1, <2>2, <3>1, StopOutcome
  <2>3. CASE w.op # "leave"
    <3>1. Proceed(h, AfterChange(h)) /\ AfterChange(h) \in ActPCs
      BY <1>5, <2>3 DEF Change, AfterChange, ActPCs
    <3>2. HandlersKeep(h) /\ SameTask(act'[h], act[h]) /\ act'[h].pc = AfterChange(h)
      BY <1>1, <3>1, ProceedOutcome
    <3>3. QED
      BY <1>3, <1>5, <2>1, <2>3, <3>2
  <2>4. QED
    BY <2>2, <2>3
<1>6. QED
  BY <1>4, <1>5

\* What a request that transaction t carries out may write to a user.
MaySay(w, t) ==
    /\ Valid(w) /\ w.op \in TargetOps /\ ~WriteFails(w)
    /\ Fits(w, t) /\ (Transacts(w) => t.at = "ready")

LEMMA WrittenTyped ==
    ASSUME RolesInv, NEW w, NEW t \in TxType, MaySay(w, t)
    PROVE  LET u == user[w.target]
               new == Written(w, t, u)
           IN  /\ new \in UserType /\ \A r \in new.roles : Exists(r)
               /\ u.state # "none" => new.state # "none"
               /\ w.op \in {"update", "delete", "leave"} => new.roles = u.roles
               /\ w.op = "create" => u.state = "none"
<1> DEFINE u == user[w.target]
           new == Written(w, t, u)
<1>1. w \in Wants /\ w.target \in Users /\ w.roles \subseteq Slugs
      /\ Valid(w) /\ w.op \in TargetOps /\ ~WriteFails(w)
  BY DEF MaySay, Valid, Wants
<1>2. u \in UserType /\ (\A r \in u.roles : Exists(r))
  BY <1>1 DEF RolesInv, RolesTypeOK
<1>3. CASE w.op = "create"
  <2>1. new = Created(w) /\ u.state = "none"
    BY <1>1, <1>3 DEF Written, WriteFails
  <2>2. QED
    BY <1>1, <1>3, <2>1, CreatedTyped DEF Valid
<1>4. CASE w.op = "update"
  <2>1. new = Updated(w, u)
    BY <1>4 DEF Written
  <2>2. QED
    BY <1>1, <1>2, <1>4, <2>1, UpdatedTyped
<1>5. CASE w.op \in {"delete", "leave"}
  <2>1. new = Removed(u)
    BY <1>5 DEF Written
  <2>2. QED
    BY <1>2, <1>5, <2>1, RemovedTyped
<1>6. CASE w.op = "replace"
  <2>1. new = Replaced(w, t, u) /\ \A r \in t.left : Exists(r)
    BY <1>6 DEF Written, MaySay, Fits, Transacts
  <2>2. /\ new \in UserType /\ new.state = u.state /\ new.roles = (u.roles \ t.gone) \cup t.left
    BY <1>2, <2>1, ReplacedTyped
  <2>3. QED
    BY <1>2, <1>6, <2>1, <2>2
<1>7. CASE w.op = "assign"
  <2> DEFINE r == CHOOSE r \in w.roles : TRUE
  <2>1. new = WithRole(u, r) /\ AllExist(w)
    BY <1>1, <1>7 DEF Written, WriteFails
  <2>2. r \in w.roles
    BY <1>1, <1>7 DEF Valid
  <2> HIDE DEF r
  <2>3. r \in Slugs /\ Exists(r)
    BY <1>1, <2>1, <2>2 DEF AllExist
  <2>4. QED
    BY <1>2, <1>7, <2>1, <2>3, WithRoleTyped
<1>8. CASE w.op = "revoke"
  <2>1. new = Revoked(t, u)
    BY <1>8 DEF Written
  <2>2. QED
    BY <1>2, <1>8, <2>1, RevokedTyped
<1>9. QED
  BY <1>1, <1>3, <1>4, <1>5, <1>6, <1>7, <1>8 DEF TargetOps

LEMMA WrittenRoleTyped ==
    ASSUME RolesInv, NEW w, Valid(w), w.op \in RoleOps \ {"ensure"}, ~WriteFails(w),
           NEW r \in w.roles
    PROVE  LET new == WrittenRole(w, r)
           IN  /\ new \in RoleType
               /\ w.op # "role delete" => new.state \in {"on", "off"}
<1>1. w \in Wants /\ r \in Slugs
  BY DEF Valid, Wants
<1>2. role[r] \in RoleType
  BY <1>1 DEF RolesInv, RolesTypeOK
<1>3. CASE w.op = "role create"
  <2>1. WrittenRole(w, r) = [state |-> "on", grants |-> w.grants] /\ w.grants \in Grants
    BY <1>1, <1>3 DEF WrittenRole, Wants
  <2>2. QED
    BY <2>1 DEF RoleType
<1>4. CASE w.op = "role switch"
  <2>1. WrittenRole(w, r) = [role[r] EXCEPT !.state = w.active] /\ w.active \in {"on", "off"}
    BY <1>1, <1>4 DEF WrittenRole, Wants, Valid
  <2>2. QED
    BY <1>2, <2>1 DEF RoleType
<1>5. CASE w.op = "role delete"
  <2>1. WrittenRole(w, r) = [role[r] EXCEPT !.state = "gone"]
    BY <1>5 DEF WrittenRole
  <2>2. QED
    BY <1>2, <1>5, <2>1 DEF RoleType
<1>6. CASE w.op = "role grant"
  <2>1. WrittenRole(w, r) = [role[r] EXCEPT !.grants = w.grants] /\ w.grants \in Grants
    BY <1>1, <1>6 DEF WrittenRole, Wants
  <2>2. role[r].state \in {"on", "off"}
    BY <1>6 DEF WriteFails, AllExist, Exists
  <2>3. QED
    BY <1>2, <2>1, <2>2 DEF RoleType
<1>7. QED
  BY <1>3, <1>4, <1>5, <1>6 DEF RoleOps

\* The tables stay in order.
TablesKept ==
    /\ user' \in [Users -> UserType] /\ role' \in [Slugs -> RoleType]
    /\ \A u \in Users : \A r \in user'[u].roles : role'[r].state \in {"on", "off"}
    /\ \A r \in SystemRoles : role'[r].state \in {"on", "off"}
    /\ \A u \in Users : user[u].state # "none" => user'[u].state # "none"

\* A role stays unless it is deleted.
RolesStay(w) ==
    \A r \in Slugs : Exists(r) /\ (w.op = "role delete" => r \notin w.roles) =>
                        role'[r].state \in {"on", "off"}

LEMMA EffectKeepsTables ==
    ASSUME RolesInv, NEW w, NEW t \in TxType, Valid(w), ~WriteFails(w), Statement(w, t),
           Fits(w, t), Transacts(w) => t.at = "ready",
           w.op = "role delete" => w.roles \cap SystemRoles = {}
    PROVE  TablesKept /\ RolesStay(w)
<1>1. /\ user \in [Users -> UserType] /\ role \in [Slugs -> RoleType]
      /\ \A u \in Users : \A r \in user[u].roles : Exists(r)
      /\ \A r \in SystemRoles : Exists(r)
  BY DEF RolesInv, RolesTypeOK
<1>2. w.target \in Users /\ w.roles \subseteq Slugs
  BY DEF Valid, Wants
<1>3. CASE /\ w.op \in TargetOps
           /\ user' = [user EXCEPT ![w.target] = Written(w, t, @)] /\ role' = role
  <2> DEFINE new == Written(w, t, user[w.target])
  <2>1. /\ new \in UserType /\ \A r \in new.roles : Exists(r)
        /\ user[w.target].state # "none" => new.state # "none"
    BY <1>3, WrittenTyped DEF MaySay
  <2>2. user' = [user EXCEPT ![w.target] = new]
    BY <1>3
  <2> HIDE DEF new
  <2>3. QED
    BY <1>1, <1>2, <1>3, <2>1, <2>2 DEF TablesKept, RolesStay, Exists
<1>4. CASE /\ w.op = "ensure"
           /\ role' = [r \in Slugs |-> IF r \in SystemRoles THEN Ensured(r) ELSE role[r]]
           /\ user' = user
  <2>1. \A r \in Slugs : Ensured(r) \in RoleType /\ Ensured(r).state = "on"
    BY DEF Ensured, RoleType, DefaultGrants, Grants
  <2>2. \A u \in Users : user[u].roles \subseteq Slugs
    BY <1>1 DEF UserType
  <2>3. SystemRoles \subseteq Slugs
    BY DEF Slugs
  <2>4. role' \in [Slugs -> RoleType]
    BY <1>1, <1>4, <2>1
  <2>5. \A r \in Slugs : Exists(r) => role'[r].state \in {"on", "off"}
    BY <1>1, <1>4, <2>1 DEF Exists
  <2>6. QED
    BY <1>1, <1>4, <2>2, <2>3, <2>4, <2>5 DEF TablesKept, RolesStay
<1>5. CASE /\ w.op \in RoleOps \ {"ensure"}
           /\ role' = [r \in Slugs |-> IF r \in w.roles THEN WrittenRole(w, r) ELSE role[r]]
           /\ user' = Cascaded(w)
  <2>1. \A r \in w.roles : /\ WrittenRole(w, r) \in RoleType
                           /\ w.op # "role delete" => WrittenRole(w, r).state \in {"on", "off"}
    BY <1>5, WrittenRoleTyped
  <2>2. role' \in [Slugs -> RoleType]
    BY <1>1, <1>5, <2>1
  <2>3. \A r \in Slugs : Exists(r) /\ (w.op = "role delete" => r \notin w.roles) =>
                             role'[r].state \in {"on", "off"}
    BY <1>5, <2>1 DEF Exists
  <2>4. \A u \in Users : /\ user'[u] \in UserType /\ user'[u].state = user[u].state
                         /\ user'[u].roles \subseteq user[u].roles
                         /\ w.op = "role delete" => user'[u].roles \cap w.roles = {}
    <3>1. CASE w.op = "role delete"
      <4>1. ASSUME NEW u \in Users
            PROVE  /\ user'[u] \in UserType /\ user'[u].state = user[u].state
                   /\ user'[u].roles = user[u].roles \ w.roles
        <5>1. user'[u] = [user[u] EXCEPT !.roles = @ \ w.roles]
          BY <1>5, <3>1 DEF Cascaded
        <5>2. user[u] \in UserType
          BY <1>1
        <5>3. QED
          BY <5>1, <5>2 DEF UserType
      <4>2. QED
        BY <4>1
    <3>2. CASE w.op # "role delete"
      BY <1>1, <1>5, <3>2 DEF Cascaded
    <3>3. QED
      BY <3>1, <3>2
  <2>5. user' \in [Users -> UserType]
    <3>1. \/ user' = user
          \/ user' = [u \in Users |-> [user[u] EXCEPT !.roles = @ \ w.roles]]
      BY <1>5 DEF Cascaded
    <3>2. QED
      BY <1>1, <2>4, <3>1
  <2>6. \A u \in Users : user'[u].roles \subseteq Slugs
    BY <2>5 DEF UserType
  <2>7. SystemRoles \subseteq Slugs
    BY DEF Slugs
  <2>8. \A u \in Users : \A r \in user'[u].roles : role'[r].state \in {"on", "off"}
    BY <1>1, <2>3, <2>4, <2>6
  <2>9. \A r \in SystemRoles : role'[r].state \in {"on", "off"}
    BY <1>1, <2>3, <2>7
  <2>10. QED
    BY <2>2, <2>4, <2>3, <2>5, <2>8, <2>9 DEF TablesKept, RolesStay
<1>6. QED
  BY <1>3, <1>4, <1>5 DEF Statement

\* Steps of one handler that write to the tables.
LEMMA WriteKeepsRoles ==
    ASSUME RolesInv, NEW h \in Handlers, HandlersKeep(h), Asked(act'[h]),
           act'[h].pc \notin {"fetch", "fill"}, TablesKept,
           UNCHANGED <<case, cache, inbox>>, missed' \subseteq {"redis", "crash", "create"},
           tx' \in [Handlers -> TxType], \A q \in Handlers : TxFine(q)'
    PROVE  RolesInv'
<1>1. RolesTypeOK'
  BY DEF RolesInv, RolesTypeOK, HandlersKeep, TablesKept, Exists
<1>2. (\A r \in SystemRoles : Exists(r))'
  BY DEF TablesKept, Exists
<1>3. ASSUME NEW q \in Handlers
      PROVE  /\ Asked(act'[q])
             /\ act'[q].pc \in {"fetch", "fill"} =>
                   act'[q].home \in case'.nodes /\ user'[act'[q].actor].state # "none"
  <2>1. CASE q = h
    BY <2>1
  <2>2. CASE q # h
    <3>1. act'[q] = act[q] /\ act'[q].actor \in Users
      BY <2>2 DEF HandlersKeep, ActType
    <3>2. QED
      BY <3>1 DEF RolesInv, TablesKept
  <2>3. QED
    BY <2>1, <2>2
<1>4. QED
  BY <1>1, <1>2, <1>3 DEF RolesInv

\* The commit of a transaction leaves those of others less to delete, and what
\* they have inserted is still there.
LEMMA ClosedTx ==
    ASSUME RolesInv, NEW h \in Handlers, HandlersKeep(h), act'[h].pc # "change",
           Close(h), MayWrite(h), RolesStay(act[h].want)
    PROVE  tx' \in [Handlers -> TxType] /\ \A q \in Handlers : TxFine(q)'
<1> DEFINE w == act[h].want
<1>1. tx \in [Handlers -> TxType] /\ act \in [Handlers -> ActType]
  BY DEF RolesInv, RolesTypeOK
<1>2. ASSUME NEW q \in Handlers
      PROVE  tx'[q] \in TxType /\ TxFine(q)'
  <2>1. CASE q = h
    <3>1. tx'[q] = NoTx
      BY <2>1 DEF Close
    <3>2. QED
      BY <2>1, <3>1, NoTxFits DEF TxFine, Fits, NoTx
  <2>2. CASE q # h
    <3> DEFINE t == tx[q]
    <3>1. t \in TxType /\ TxFine(q) /\ act'[q] = act[q]
      BY <1>1, <2>2 DEF RolesInv, HandlersKeep
    <3>2. /\ tx'[q] \in TxType /\ tx'[q].at = t.at /\ tx'[q].left = t.left
          /\ tx'[q].gone \subseteq t.gone /\ (t = NoTx => tx'[q] = NoTx)
      <4>1. tx'[q] = t \/ tx'[q] = [t EXCEPT !.gone = @ \ tx[h].gone]
        BY <2>2 DEF Close
      <4>2. QED
        BY <3>1, <4>1 DEF TxType, NoTx
    <3>3. act[q].want.op = "replace" /\ t.at = "ready" => \A r \in t.left : role'[r].state \in {"on", "off"}
      <4>1. ASSUME act[q].want.op = "replace", t.at = "ready", NEW r \in t.left
            PROVE  role'[r].state \in {"on", "off"}
        <5>1. Exists(r) /\ r \in Slugs
          BY <3>1, <4>1 DEF TxFine, Fits, TxType
        <5>2. act[q].want.target \in Users
          BY <1>1 DEF ActType, Wants
        <5>3. r \in Locked(h, Users)
          BY <2>2, <4>1, <5>2 DEF Locked
        <5>4. w.op = "role delete" => r \notin w.roles
          BY <5>3 DEF MayWrite
        <5>5. QED
          BY <5>1, <5>4 DEF RolesStay
      <4>2. QED
        BY <4>1
    <3> HIDE DEF t
    <3>4. Fits(act[q].want, t) /\ (act[q].pc # "change" => t = NoTx)
      BY <3>1 DEF TxFine, t
    <3>5. QED
      BY <3>1, <3>2, <3>3, <3>4 DEF TxFine, Fits, Exists
  <2>3. QED
    BY <2>1, <2>2
<1>3. \E f : tx' = [q \in Handlers |-> f[q]]
  <2>1. tx' = [q \in Handlers |-> tx'[q]]
    BY DEF Close
  <2>2. QED
    BY <2>1
<1>4. QED
  BY <1>2, <1>3

LEMMA ChangeRoles ==
    ASSUME RolesInv, NEW h \in Handlers, Change(h), UNCHANGED case
    PROVE  RolesInv'
<1> DEFINE w == act[h].want
<1>1. RolesTypeOK /\ Asked(act[h]) /\ act[h].pc = "change" /\ Fits(w, tx[h]) /\ tx[h] \in TxType
  BY DEF RolesInv, RolesTypeOK, TxFine, Change
<1>2. Valid(w) /\ (w.op = "role delete" => w.roles \cap SystemRoles = {})
  BY <1>1 DEF Asked
<1>3. /\ HandlersKeep(h) /\ UNCHANGED <<cache, inbox, missed>> /\ Close(h) /\ MayWrite(h)
      /\ \/ act'[h] = Free /\ UNCHANGED <<user, role>>
         \/ /\ ~WriteFails(w) /\ Statement(w, tx[h])
            /\ \/ w.op = "leave" /\ act'[h] = Free
               \/ /\ w.op # "leave"
                  /\ SameTask(act'[h], act[h]) /\ act'[h].pc = AfterChange(h)
  BY <1>1, <1>2, ChangeOutcome
<1>4. missed' \subseteq {"redis", "crash", "create"}
  BY <1>1, <1>3 DEF RolesTypeOK
<1>5. Asked(act'[h]) /\ act'[h].pc \notin {"fetch", "fill"}
  <2>1. CASE act'[h] = Free
    BY <2>1, FreeTyped
  <2>2. CASE SameTask(act'[h], act[h]) /\ act'[h].pc = AfterChange(h)
    <3>1. act'[h].want = w /\ act'[h].pc \in {"assign", "clear"}
          /\ (act'[h].pc = "assign" => w.op \in {"create", "update"})
      BY <2>2 DEF SameTask, AfterChange
    <3>2. QED
      BY <1>2, <3>1 DEF Asked
  <2>3. QED
    BY <1>3, <2>1, <2>2
<1>6. TablesKept /\ RolesStay(w)
  <2>1. CASE UNCHANGED <<user, role>>
    BY <2>1 DEF TablesKept, RolesStay, RolesInv, RolesTypeOK, Exists
  <2>2. CASE ~WriteFails(w) /\ Statement(w, tx[h])
    BY <1>1, <1>2, <1>3, <2>2, EffectKeepsTables DEF MayWrite
  <2>3. QED
    BY <1>3, <2>1, <2>2
<1>7. act'[h].pc # "change"
  BY <1>3, FreeTyped DEF AfterChange
<1>8. tx' \in [Handlers -> TxType] /\ \A q \in Handlers : TxFine(q)'
  BY <1>3, <1>6, <1>7, ClosedTx
<1>9. QED
  BY <1>3, <1>4, <1>5, <1>6, <1>8, WriteKeepsRoles

LEMMA AssignOutcome ==
    ASSUME RolesInv, NEW h \in Handlers, AssignMatching(h)
    PROVE  LET w == act[h].want
               r == RoleFor(w.legacy)
           IN  /\ HandlersKeep(h) /\ r \in {"admin", "viewer", "crawler_user"}
               /\ user' = [user EXCEPT ![w.target] = WithRole(@, r)] /\ role' = role
               /\ \/ w.op = "create" /\ act'[h] = Free
                  \/ /\ w.op # "create"
                     /\ SameTask(act'[h], act[h]) /\ act'[h].pc = "clear"
<1>1. act \in [Handlers -> ActType] /\ "clear" \in ActPCs
  BY DEF RolesInv, RolesTypeOK, ActPCs
<1>2. user' = [user EXCEPT ![act[h].want.target] = WithRole(@, RoleFor(act[h].want.legacy))]
      /\ role' = role
  BY DEF AssignMatching
<1>3. CASE act[h].want.op = "create"
  <2>1. Stop(h)
    BY <1>3 DEF AssignMatching
  <2>2. QED
    BY <1>1, <1>2, <1>3, <2>1, StopOutcome, LegacyTyped
<1>4. CASE act[h].want.op # "create"
  <2>1. Proceed(h, "clear")
    BY <1>4 DEF AssignMatching
  <2>2. QED
    BY <1>1, <1>2, <1>4, <2>1, ProceedOutcome, LegacyTyped
<1>5. QED
  BY <1>3, <1>4

LEMMA AssignRoles ==
    ASSUME RolesInv, NEW h \in Handlers, AssignMatching(h), UNCHANGED case
    PROVE  RolesInv'
<1> DEFINE w == act[h].want
           r == RoleFor(w.legacy)
           new == WithRole(user[w.target], r)
<1>1. RolesTypeOK /\ Asked(act[h]) /\ act[h].pc = "assign"
  BY DEF RolesInv, AssignMatching
<1>2. Valid(w) /\ w.target \in Users
  BY <1>1 DEF Asked, Valid, Wants
<1>3. /\ HandlersKeep(h) /\ r \in {"admin", "viewer", "crawler_user"}
      /\ user' = [user EXCEPT ![w.target] = WithRole(@, r)] /\ role' = role
      /\ \/ w.op = "create" /\ act'[h] = Free
         \/ /\ w.op # "create"
            /\ SameTask(act'[h], act[h]) /\ act'[h].pc = "clear"
  BY AssignOutcome
<1> HIDE DEF r
<1>4. r \in SystemRoles /\ r \in Slugs
  BY <1>3 DEF SystemRoles, Slugs
<1>5. user[w.target] \in UserType
  BY <1>1, <1>2 DEF RolesTypeOK
<1>6. /\ new \in UserType /\ new.state = user[w.target].state
      /\ new.roles = user[w.target].roles \cup {r}
  BY <1>4, <1>5, WithRoleTyped
<1>7. user' = [user EXCEPT ![w.target] = new]
  BY <1>3
<1> HIDE DEF new
<1>8. TablesKept
  BY <1>2, <1>3, <1>4, <1>6, <1>7 DEF TablesKept, RolesInv, RolesTypeOK, Exists
<1>9. Asked(act'[h]) /\ act'[h].pc \notin {"fetch", "fill"}
  <2>1. CASE act'[h] = Free
    BY <2>1, FreeTyped
  <2>2. CASE SameTask(act'[h], act[h]) /\ act'[h].pc = "clear"
    BY <1>2, <2>2 DEF Asked, SameTask
  <2>3. QED
    BY <1>3, <2>1, <2>2
<1>10. missed' \subseteq {"redis", "crash", "create"} /\ UNCHANGED <<case, cache, inbox>>
  BY <1>1 DEF AssignMatching, RolesTypeOK
<1>11. tx' \in [Handlers -> TxType] /\ \A q \in Handlers : TxFine(q)'
  <2>1. TxEnds(h)
    BY <1>1, QuietTx DEF AssignMatching
  <2>2. QED
    BY <1>3, <2>1, TxStays DEF TxEnds
<1>12. QED
  BY <1>3, <1>8, <1>9, <1>10, <1>11, WriteKeepsRoles

\* Steps within a transaction.
LEMMA TxKeepsRoles ==
    ASSUME RolesInv, NEW h \in Handlers, NEW new \in TxType, tx' = [tx EXCEPT ![h] = new],
           Fits(act[h].want, new), act[h].pc = "change",
           UNCHANGED <<case, user, role, cache, inbox, act, missed>>
    PROVE  RolesInv'
<1>1. RolesTypeOK'
  BY DEF RolesInv, RolesTypeOK, Exists
<1>2. ASSUME NEW q \in Handlers
      PROVE  TxFine(q)'
  <2>1. CASE q = h
    BY <2>1 DEF RolesInv, RolesTypeOK, TxFine, Fits, Exists
  <2>2. CASE q # h
    BY <2>2 DEF RolesInv, RolesTypeOK, TxFine, Fits, Exists
  <2>3. QED
    BY <2>1, <2>2
<1>3. QED
  BY <1>1, <1>2 DEF RolesInv, Exists

LEMMA DeleteRowsRoles ==
    ASSUME RolesInv, NEW h \in Handlers, DeleteRows(h), UNCHANGED case
    PROVE  RolesInv'
<1> DEFINE w == act[h].want
           rows == user[w.target].roles
           gone == IF w.op = "replace" THEN rows ELSE rows \cap w.roles
           new == [tx[h] EXCEPT !.at = "deleting", !.gone = gone]
<1>1. tx \in [Handlers -> TxType] /\ act[h] \in ActType /\ user \in [Users -> UserType]
  BY DEF RolesInv, RolesTypeOK
<1>2. w.target \in Users /\ rows \subseteq Slugs
  BY <1>1 DEF ActType, Wants, UserType
<1>3. gone \subseteq Slugs /\ (w.op = "revoke" => gone \subseteq w.roles)
  BY <1>2
<1> HIDE DEF gone
<1>4. new \in TxType /\ new.at = "deleting" /\ new.gone = gone
  BY <1>1, <1>3 DEF TxType
<1>5. Fits(w, new)
  BY <1>3, <1>4 DEF Fits
<1>6. tx' = [tx EXCEPT ![h] = new]
  BY <1>1 DEF DeleteRows, gone, TxType
<1> HIDE DEF new
<1>7. QED
  BY <1>4, <1>5, <1>6, TxKeepsRoles DEF DeleteRows

LEMMA SeeRowsRoles ==
    ASSUME RolesInv, NEW h \in Handlers, SeeRows(h), UNCHANGED case
    PROVE  RolesInv'
<1> DEFINE w == act[h].want
           others == user[w.target].roles \ tx[h].gone
           left == IF w.op = "replace" THEN w.roles \ others ELSE others
           new == [tx[h] EXCEPT !.at = "ready", !.left = left]
<1>1. tx \in [Handlers -> TxType] /\ act[h] \in ActType /\ user \in [Users -> UserType]
  BY DEF RolesInv, RolesTypeOK
<1>2. /\ w.target \in Users /\ w.roles \subseteq Slugs /\ others \subseteq Slugs
      /\ others \cap tx[h].gone = {}
  BY <1>1 DEF ActType, Wants, UserType
<1>3. act[h].pc = "change" /\ Fits(w, tx[h])
  BY DEF SeeRows, RolesInv, TxFine, NoTx
<1>4. /\ left \subseteq Slugs
      /\ w.op = "replace" => /\ left \subseteq w.roles /\ w.roles \cap tx[h].gone \subseteq left
                             /\ \A r \in w.roles : Exists(r)
  BY <1>2 DEF SeeRows, AllExist
<1> HIDE DEF left
<1>5. new \in TxType /\ new.at = "ready" /\ new.left = left /\ new.gone = tx[h].gone
  BY <1>1, <1>4 DEF TxType
<1>6. Fits(w, new)
  BY <1>3, <1>4, <1>5 DEF Fits
<1>7. tx' = [tx EXCEPT ![h] = new]
  BY <1>1 DEF SeeRows, left, TxType
<1> HIDE DEF new
<1>8. QED
  BY <1>3, <1>5, <1>6, <1>7, TxKeepsRoles DEF SeeRows

LEMMA AbortRoles ==
    ASSUME RolesInv, NEW h \in Handlers, Abort(h), UNCHANGED case
    PROVE  RolesInv'
<1>1. act \in [Handlers -> ActType] /\ cache' \in [Nodes -> [Users -> EntryType]]
  BY DEF RolesInv, RolesTypeOK, Abort
<1>2. HandlersKeep(h) /\ act'[h] = Free
  BY <1>1, StopOutcome DEF Abort
<1>3. TxEnds(h) /\ UNCHANGED <<case, user, role, inbox, missed>>
  BY AbortedTx DEF Abort
<1>4. QED
  BY <1>1, <1>2, <1>3, FreeTyped, StepKeepsRoles

-----------------------------------------------------------------------------
(* Roles: the steps of the cache by itself *)

\* Steps that drop entries, end executions and overtake queries.
LEMMA DropKeepsRoles ==
    ASSUME RolesInv, UNCHANGED <<case, user, role>>,
           cache' \in [Nodes -> [Users -> EntryType]],
           inbox' \in [Nodes -> SUBSET Users],
           missed' \subseteq {"redis", "crash", "create"},
           act' \in [Handlers -> ActType],
           \A q \in Handlers :
              act'[q] = Free \/ act'[q] = act[q] \/ ButStale(act'[q], act[q]),
           tx' \in [Handlers -> TxType],
           \A q \in Handlers :
              \/ tx'[q] = NoTx
              \/ tx'[q] = tx[q] /\ (act'[q] = act[q] \/ ButStale(act'[q], act[q]))
    PROVE  RolesInv'
<1>1. RolesTypeOK'
  BY DEF RolesInv, RolesTypeOK, Exists
<1>2. (\A r \in SystemRoles : Exists(r))'
  BY DEF RolesInv, Exists
<1>3. ASSUME NEW q \in Handlers
      PROVE  /\ Asked(act'[q])
             /\ act'[q].pc \in {"fetch", "fill"} =>
                   act'[q].home \in case'.nodes /\ user'[act'[q].actor].state # "none"
  <2>1. CASE act'[q] = Free
    BY <2>1, FreeTyped
  <2>2. CASE act'[q] = act[q]
    BY <2>2 DEF RolesInv
  <2>3. CASE ButStale(act'[q], act[q])
    <3>1. Asked(act'[q])
      BY <2>3, StaleAsked DEF RolesInv
    <3>2. QED
      BY <2>3, <3>1 DEF RolesInv, ButStale, SameTask
  <2>4. QED
    BY <2>1, <2>2, <2>3
<1>4. ASSUME NEW q \in Handlers
      PROVE  TxFine(q)'
  <2>1. CASE tx'[q] = NoTx
    BY <2>1 DEF TxFine, Fits, NoTx
  <2>2. CASE tx'[q] = tx[q] /\ (act'[q] = act[q] \/ ButStale(act'[q], act[q]))
    <3>1. act'[q].want = act[q].want /\ act'[q].pc = act[q].pc
      BY <2>2 DEF ButStale, SameTask
    <3>2. QED
      BY <2>2, <3>1 DEF RolesInv, TxFine, Fits, Exists
  <2>3. QED
    BY <2>1, <2>2
<1>5. QED
  BY <1>1, <1>2, <1>3, <1>4 DEF RolesInv

LEMMA ForgetTyped ==
    ASSUME NEW entries \in [Users -> EntryType], NEW gone \in SUBSET Users
    PROVE  Forget(entries, gone) \in [Users -> EntryType]
<1>1. EmptyEntry \in EntryType
  BY DEF EmptyEntry, EntryType, Shown
<1>2. QED
  BY <1>1 DEF Forget

\* Process n drops the users who are gone, and nothing else is dropped.
DropsOnly(n, gone) ==
    \A m \in Nodes, u \in Users :
        cache'[m][u] = IF m = n /\ u \in gone THEN EmptyEntry ELSE cache[m][u]

LEMMA DroppedTyped ==
    ASSUME RolesTypeOK, NEW n \in Nodes, NEW gone \in SUBSET Users,
           cache' = [cache EXCEPT ![n] = Forget(@, gone)]
    PROVE  /\ cache' \in [Nodes -> [Users -> EntryType]]
           /\ DropsOnly(n, gone)
<1> DEFINE entries == Forget(cache[n], gone)
<1>1. cache \in [Nodes -> [Users -> EntryType]] /\ cache[n] \in [Users -> EntryType]
  BY DEF RolesTypeOK
<1>2. entries \in [Users -> EntryType]
  BY <1>1, ForgetTyped
<1>3. \A u \in Users : entries[u] = IF u \in gone THEN EmptyEntry ELSE cache[n][u]
  BY DEF Forget
<1>4. cache' = [cache EXCEPT ![n] = entries]
  OBVIOUS
<1> HIDE DEF entries
<1>5. cache' \in [Nodes -> [Users -> EntryType]]
  BY <1>1, <1>2, <1>4
<1>6. \A m \in Nodes : cache'[m] = IF m = n THEN entries ELSE cache[m]
  BY <1>1, <1>4
<1>7. QED
  BY <1>3, <1>5, <1>6 DEF DropsOnly

LEMMA CoveredUsers ==
    ASSUME NEW w \in Wants
    PROVE  Covered(w) \subseteq Users
  BY DEF Covered, Wants

LEMMA InvalidateOutcome ==
    ASSUME RolesInv, NEW h \in Handlers, Invalidate(h)
    PROVE  LET gone == Covered(act[h].want)
               home == act[h].home
               out == Outdate(home, gone)
           IN  /\ gone \in SUBSET Users /\ home \in Nodes
               /\ OvertakenIn(out, home, gone)
               /\ act' \in [Handlers -> ActType] /\ act'[h] = Free
               /\ \A q \in Handlers \ {h} : act'[q] = out[q]
<1> DEFINE gone == Covered(act[h].want)
           home == act[h].home
           out == Outdate(home, gone)
<1>1. act \in [Handlers -> ActType] /\ act[h] \in ActType
  BY DEF RolesInv, RolesTypeOK
<1>2. act[h].want \in Wants /\ home \in Nodes
  BY <1>1 DEF ActType
<1>3. gone \in SUBSET Users
  BY <1>2, CoveredUsers
<1>4. act' = [out EXCEPT ![h] = Free]
  BY DEF Invalidate
<1> HIDE DEF gone, home
<1>5. out \in [Handlers -> ActType] /\ OvertakenIn(out, home, gone)
  BY <1>1, <1>2, <1>3, OutdateTyped
<1> HIDE DEF out
<1>6. /\ act' \in [Handlers -> ActType] /\ act'[h] = Free
      /\ \A q \in Handlers \ {h} : act'[q] = out[q]
  BY <1>4, <1>5, FreeTyped
<1>7. QED
  BY <1>2, <1>3, <1>5, <1>6 DEF gone, home, out

LEMMA InvalidateRoles ==
    ASSUME RolesInv, NEW h \in Handlers, Invalidate(h), UNCHANGED case
    PROVE  RolesInv'
<1> DEFINE gone == Covered(act[h].want)
           home == act[h].home
<1>1. RolesTypeOK
  BY DEF RolesInv
<1>2. /\ gone \in SUBSET Users /\ home \in Nodes
      /\ OvertakenIn(Outdate(home, gone), home, gone)
      /\ act' \in [Handlers -> ActType] /\ act'[h] = Free
      /\ \A q \in Handlers \ {h} : act'[q] = Outdate(home, gone)[q]
  BY InvalidateOutcome
<1>3. cache' \in [Nodes -> [Users -> EntryType]]
  <2>1. cache' = [cache EXCEPT ![home] = Forget(@, gone)]
    BY DEF Invalidate
  <2> HIDE DEF gone, home
  <2>2. QED
    BY <1>1, <1>2, <2>1, DroppedTyped
<1>4. inbox' \in [Nodes -> SUBSET Users]
  <2>1. \/ UNCHANGED inbox
        \/ inbox' = [n \in Nodes |-> inbox[n] \cup
                        (IF case.caching /\ n \in case.nodes THEN gone ELSE {})]
    BY DEF Invalidate
  <2> HIDE DEF gone
  <2>2. QED
    BY <1>1, <1>2, <2>1 DEF RolesTypeOK
<1>5. missed' \subseteq {"redis", "crash", "create"}
  BY <1>1 DEF Invalidate, RolesTypeOK
<1>6. UNCHANGED <<user, role>>
  BY DEF Invalidate
<1> HIDE DEF gone, home
<1>7. \A q \in Handlers : act'[q] = Free \/ act'[q] = act[q] \/ ButStale(act'[q], act[q])
  BY <1>2 DEF OvertakenIn
<1>8. /\ tx' \in [Handlers -> TxType]
      /\ \A q \in Handlers :
            \/ tx'[q] = NoTx
            \/ tx'[q] = tx[q] /\ (act'[q] = act[q] \/ ButStale(act'[q], act[q]))
  <2>1. TxEnds(h) /\ tx' = tx
    BY QuietTx DEF Invalidate
  <2>2. \A q \in Handlers \ {h} : act'[q] = act[q] \/ ButStale(act'[q], act[q])
    BY <1>2 DEF OvertakenIn
  <2>3. QED
    BY <2>1, <2>2 DEF TxEnds
<1>9. QED
  BY <1>2, <1>3, <1>4, <1>5, <1>6, <1>7, <1>8, DropKeepsRoles

LEMMA DeliverRoles ==
    ASSUME RolesInv, NEW n \in Nodes, NEW u \in Users, Deliver(n, u), UNCHANGED case
    PROVE  RolesInv'
<1>1. RolesTypeOK /\ act \in [Handlers -> ActType]
  BY DEF RolesInv, RolesTypeOK
<1> DEFINE gone == {u}
<1>2. gone \in SUBSET Users /\ cache' = [cache EXCEPT ![n] = Forget(@, gone)]
      /\ act' = Outdate(n, gone)
  BY DEF Deliver
<1>3. inbox' \in [Nodes -> SUBSET Users] /\ missed' \subseteq {"redis", "crash", "create"}
      /\ UNCHANGED <<user, role>>
  BY <1>1 DEF Deliver, RolesTypeOK
<1> HIDE DEF gone
<1>4. cache' \in [Nodes -> [Users -> EntryType]]
  BY <1>1, <1>2, DroppedTyped
<1>5. act' \in [Handlers -> ActType]
      /\ \A q \in Handlers : act'[q] = act[q] \/ ButStale(act'[q], act[q])
  BY <1>1, <1>2, OutdateTyped DEF OvertakenIn
<1>6. tx' = tx /\ tx' \in [Handlers -> TxType]
  BY <1>1 DEF Deliver, RolesTypeOK
<1>7. QED
  BY <1>3, <1>4, <1>5, <1>6, DropKeepsRoles

LEMMA ExpireRoles ==
    ASSUME RolesInv, NEW n \in Nodes, NEW u \in Users, Expire(n, u), UNCHANGED case
    PROVE  RolesInv'
<1>1. RolesTypeOK /\ act \in [Handlers -> ActType]
  BY DEF RolesInv, RolesTypeOK
<1>2. EmptyEntry \in EntryType
  BY DEF EmptyEntry, EntryType, Shown
<1>3. cache' = [cache EXCEPT ![n][u] = EmptyEntry]
  BY DEF Expire
<1>4. cache \in [Nodes -> [Users -> EntryType]]
  BY <1>1 DEF RolesTypeOK
<1>5. cache' \in [Nodes -> [Users -> EntryType]]
  BY <1>2, <1>3, <1>4
<1>6. UNCHANGED <<user, role, inbox, act, tx, missed>>
  BY DEF Expire
<1>7. QED
  BY <1>1, <1>5, <1>6, DropKeepsRoles DEF RolesTypeOK

LEMMA DieRoles ==
    ASSUME RolesInv, NEW n \in Nodes, Die(n), UNCHANGED case
    PROVE  RolesInv'
<1>1. RolesTypeOK /\ act \in [Handlers -> ActType]
  BY DEF RolesInv, RolesTypeOK
<1>2. EmptyEntry \in EntryType
  BY DEF EmptyEntry, EntryType, Shown
<1>3. cache' \in [Nodes -> [Users -> EntryType]]
  BY <1>1, <1>2 DEF Die, RolesTypeOK
<1>4. inbox' \in [Nodes -> SUBSET Users] /\ missed' \subseteq {"redis", "crash", "create"}
      /\ UNCHANGED <<user, role>>
  BY <1>1 DEF Die, RolesTypeOK
<1>5. act' \in [Handlers -> ActType] /\ \A q \in Handlers : act'[q] = Free \/ act'[q] = act[q]
  BY <1>1, FreeTyped DEF Die
<1>6. /\ tx' \in [Handlers -> TxType]
      /\ \A q \in Handlers : tx'[q] = NoTx \/ (tx'[q] = tx[q] /\ act'[q] = act[q])
  BY <1>1, NoTxFits DEF Die, RolesTypeOK
<1>7. QED
  BY <1>3, <1>4, <1>5, <1>6, DropKeepsRoles

LEMMA RolesStart ==
    ASSUME RolesInit
    PROVE  RolesInv
<1>1. case \in Cases /\ user \in [Users -> UserType] /\ case.custom \in RoleType
      /\ \A u \in Users : "custom" \in user[u].roles => case.custom.state = "on"
  BY RolesConstants DEF RolesInit
<1>2. \A r \in Slugs : r # "custom" => role[r].state = "on" /\ role[r].grants \in Grants
  BY DEF RolesInit, DefaultGrants, Grants
<1>3. role["custom"] = case.custom /\ SystemRoles \subseteq Slugs /\ "custom" \notin SystemRoles
  BY DEF RolesInit, Slugs, SystemRoles
<1>4. role \in [Slugs -> RoleType]
  <2>1. \A r \in Slugs : (IF r = "custom" THEN case.custom
                          ELSE [state |-> "on", grants |-> DefaultGrants(r)]) \in RoleType
    BY <1>1 DEF RoleType, DefaultGrants, Grants
  <2>2. QED
    BY <2>1 DEF RolesInit
<1>5. \A u \in Users : \A r \in user[u].roles : Exists(r)
  <2>1. \A u \in Users : user[u].roles \subseteq Slugs
    BY <1>1 DEF UserType
  <2>2. QED
    BY <1>1, <1>2, <1>3, <2>1 DEF Exists
<1>6. \A r \in SystemRoles : Exists(r)
  BY <1>2, <1>3 DEF Exists
<1>7. act \in [Handlers -> ActType] /\ \A h \in Handlers : act[h] = Free
  BY FreeTyped DEF RolesInit
<1>8. EmptyEntry \in EntryType
  BY DEF EmptyEntry, EntryType, Shown
<1>9. cache \in [Nodes -> [Users -> EntryType]] /\ inbox \in [Nodes -> SUBSET Users]
      /\ missed \subseteq {"redis", "crash", "create"}
  BY <1>8 DEF RolesInit
<1>10. tx \in [Handlers -> TxType] /\ \A h \in Handlers : TxFine(h)
  BY NoTxFits DEF RolesInit, TxFine
<1>11. RolesTypeOK
  BY <1>1, <1>4, <1>5, <1>7, <1>9, <1>10 DEF RolesTypeOK
<1>12. \A h \in Handlers : Asked(act[h]) /\ act[h].pc \notin {"fetch", "fill"}
  BY <1>7, FreeTyped
<1>13. QED
  BY <1>6, <1>10, <1>11, <1>12 DEF RolesInv

\* A step of the system is a step of a handler, of a request that comes in, or of
\* the cache.
LEMMA RolesStepKeeps ==
    ASSUME RolesInv, [RolesNext]_roleVars
    PROVE  RolesInv'
<1>1. CASE UNCHANGED roleVars
  <2>1. UNCHANGED <<case, user, role, cache, inbox, act, tx, missed>>
    BY <1>1 DEF roleVars
  <2>2. QED
    BY <2>1, DropKeepsRoles DEF RolesInv, RolesTypeOK
<1>2. ASSUME NEW h \in Handlers, HandlerStep(h), UNCHANGED case
      PROVE  RolesInv'
  BY <1>2, FetchRoles, FillRoles, LookRoles, CheckTargetRoles, CountOthersRoles, DeleteRowsRoles,
     SeeRowsRoles, AbortRoles, ChangeRoles, AssignRoles, InvalidateRoles DEF HandlerStep
<1>3. ASSUME NEW h \in Handlers, NEW n \in case.nodes, NEW w \in case.wants, UNCHANGED case,
             EnterAlone(h, n, w) \/ \E a \in case.actors : Enter(h, n, a, w)
      PROVE  RolesInv'
  BY <1>3, EnterRoles, EnterAloneRoles
<1>4. ASSUME NEW n \in Nodes, UNCHANGED case,
             Die(n) \/ \E u \in Users : Deliver(n, u) \/ Expire(n, u)
      PROVE  RolesInv'
  BY <1>4, DieRoles, DeliverRoles, ExpireRoles
<1>5. QED
  BY <1>1, <1>2, <1>3, <1>4 DEF RolesNext, RolesStep

\* Types, with the foreign key: nobody has a role that is gone, and the system
\* roles stay; and what each handler has been told when it writes is what the
\* checks before have let through.
THEOREM RolesTypeCorrect == RolesSpec => []RolesInv
<1>1. RolesInit => RolesInv
  BY RolesStart
<1>2. RolesInv /\ [RolesNext]_roleVars => RolesInv'
  BY RolesStepKeeps
<1>3. QED
  BY <1>1, <1>2, PTL DEF RolesSpec

-----------------------------------------------------------------------------
(* Roles: the cache *)

\* An invalidation of u is to come in process n.
Pending(n, u) ==
    \/ u \in inbox[n]
    \/ \E h \in Handlers : act[h].pc = "clear" /\ u \in Covered(act[h].want)

\* What CacheIsCurrent says of an entry holds of the query that makes it too, and
\* entries are made in the processes that messages reach, for users who exist.
CacheInv ==
    /\ \A n \in Nodes, u \in Users :
          cache[n][u].on => case.caching /\ n \in case.nodes /\ user[u].state # "none"
    /\ \A n \in Nodes, u \in Users :
          cache[n][u].on /\ ~cache[n][u].stale /\ missed = {} =>
              cache[n][u].shown = Truth(u) \/ Pending(n, u)
    /\ \A h \in Handlers, n \in Nodes, u \in Users :
          /\ act[h].pc = "fill" /\ act[h].home = n /\ act[h].actor = u
          /\ case.caching /\ ~act[h].stale /\ missed = {}
          => act[h].got = Truth(u) \/ Pending(n, u)

\* Who is in no process's cache, nor on the way to one.
Unknown(u) ==
    /\ \A n \in Nodes : ~cache[n][u].on
    /\ \A q \in Handlers : act[q].pc = "fill" => act[q].actor # u

LEMMA PendingStays ==
    ASSUME NEW h \in Handlers, HandlersKeep(h), act[h].pc # "clear", UNCHANGED inbox,
           NEW n \in Nodes, NEW u \in Users, Pending(n, u)
    PROVE  Pending(n, u)'
<1>1. CASE u \in inbox[n]
  BY <1>1 DEF Pending
<1>2. CASE \E q \in Handlers : act[q].pc = "clear" /\ u \in Covered(act[q].want)
  <2>1. PICK q \in Handlers : act[q].pc = "clear" /\ u \in Covered(act[q].want)
    BY <1>2
  <2>2. act'[q] = act[q]
    BY <2>1 DEF HandlersKeep
  <2>3. act'[q].pc = "clear" /\ u \in Covered(act'[q].want)
    BY <2>1, <2>2
  <2>4. QED
    BY <2>3 DEF Pending, Covered
<1>3. QED
  BY <1>1, <1>2 DEF Pending

\* Steps of a handler that write to no table, and put in the cache what the
\* handler's query has answered, if anything.
LEMMA StepKeepsCache ==
    ASSUME RolesInv, CacheInv, NEW h \in Handlers, HandlersKeep(h), act[h].pc # "clear",
           UNCHANGED <<case, user, role, inbox, missed>>,
           act'[h].pc = "fill" => act'[h].got = Truth(act'[h].actor),
           \A n \in Nodes, u \in Users :
              \/ cache'[n][u] = cache[n][u]
              \/ /\ act[h].pc = "fill" /\ act[h].home = n /\ act[h].actor = u /\ case.caching
                 /\ cache'[n][u].shown = act[h].got /\ cache'[n][u].stale = act[h].stale
    PROVE  CacheInv'
<1>1. \A u \in Users : Truth(u)' = Truth(u)
  BY DEF Truth
<1>2. \A n \in Nodes, u \in Users : Pending(n, u) => Pending(n, u)'
  BY PendingStays
<1>3. ASSUME NEW n \in Nodes, NEW u \in Users
      PROVE  /\ cache'[n][u].on => case'.caching /\ n \in case'.nodes /\ user'[u].state # "none"
             /\ cache'[n][u].on /\ ~cache'[n][u].stale /\ missed' = {} =>
                   cache'[n][u].shown = Truth(u)' \/ Pending(n, u)'
  <2>1. CASE cache'[n][u] = cache[n][u]
    BY <1>1, <1>2, <2>1 DEF CacheInv
  <2>2. CASE /\ act[h].pc = "fill" /\ act[h].home = n /\ act[h].actor = u /\ case.caching
             /\ cache'[n][u].shown = act[h].got /\ cache'[n][u].stale = act[h].stale
    <3>1. n \in case.nodes /\ user[u].state # "none"
      BY <2>2 DEF RolesInv
    <3>2. ~act[h].stale /\ missed = {} => act[h].got = Truth(u) \/ Pending(n, u)
      BY <2>2 DEF CacheInv
    <3>3. QED
      BY <1>1, <1>2, <2>2, <3>1, <3>2
  <2>3. QED
    BY <2>1, <2>2
<1>4. ASSUME NEW q \in Handlers, NEW n \in Nodes, NEW u \in Users,
             act'[q].pc = "fill", act'[q].home = n, act'[q].actor = u,
             case'.caching, ~act'[q].stale, missed' = {}
      PROVE  act'[q].got = Truth(u)' \/ Pending(n, u)'
  <2>1. CASE q = h
    <3>1. act'[q].got = Truth(u)
      BY <1>4, <2>1
    <3>2. QED
      BY <1>1, <3>1
  <2>2. CASE q # h
    <3>1. act'[q] = act[q]
      BY <2>2 DEF HandlersKeep
    <3>2. act[q].got = Truth(u) \/ Pending(n, u)
      BY <1>4, <3>1 DEF CacheInv
    <3>3. QED
      BY <1>1, <1>2, <3>1, <3>2
  <2>3. QED
    BY <2>1, <2>2
<1>5. QED
  BY <1>3, <1>4 DEF CacheInv

\* Steps of a handler that write to the tables: an invalidation is to come for
\* whoever is shown otherwise and may be known.
LEMMA WriteKeepsCache ==
    ASSUME RolesInv, CacheInv, NEW h \in Handlers, HandlersKeep(h),
           act[h].pc # "clear", act'[h].pc # "fill", TablesKept,
           UNCHANGED <<case, cache, inbox>>, missed \subseteq missed',
           \A u \in Users :
              \/ missed' # {} \/ Unknown(u) \/ Truth(u)' = Truth(u)
              \/ act'[h].pc = "clear" /\ u \in Covered(act'[h].want)
    PROVE  CacheInv'
<1>1. \A n \in Nodes, u \in Users : Pending(n, u) => Pending(n, u)'
  BY PendingStays
<1>2. ASSUME NEW u \in Users, missed' = {}, ~Unknown(u), NEW n \in Nodes
      PROVE  Truth(u)' = Truth(u) \/ Pending(n, u)'
  <2>1. CASE act'[h].pc = "clear" /\ u \in Covered(act'[h].want)
    BY <2>1 DEF Pending, Covered
  <2>2. QED
    BY <1>2, <2>1
<1>3. ASSUME NEW n \in Nodes, NEW u \in Users
      PROVE  /\ cache'[n][u].on => case'.caching /\ n \in case'.nodes /\ user'[u].state # "none"
             /\ cache'[n][u].on /\ ~cache'[n][u].stale /\ missed' = {} =>
                   cache'[n][u].shown = Truth(u)' \/ Pending(n, u)'
  <2>1. cache'[n][u].on => ~Unknown(u)
    BY DEF Unknown
  <2>2. QED
    BY <1>1, <1>2, <2>1 DEF CacheInv, TablesKept
<1>4. ASSUME NEW q \in Handlers, NEW n \in Nodes, NEW u \in Users,
             act'[q].pc = "fill", act'[q].home = n, act'[q].actor = u,
             case'.caching, ~act'[q].stale, missed' = {}
      PROVE  act'[q].got = Truth(u)' \/ Pending(n, u)'
  <2>1. act'[q] = act[q]
    BY <1>4 DEF HandlersKeep
  <2>2. ~Unknown(u) /\ missed = {}
    BY <1>4, <2>1 DEF Unknown
  <2>3. act[q].got = Truth(u) \/ Pending(n, u)
    BY <1>4, <2>1, <2>2 DEF CacheInv
  <2>4. QED
    BY <1>1, <1>2, <1>4, <2>1, <2>2, <2>3
<1>5. QED
  BY <1>3, <1>4 DEF CacheInv

\* The invalidation of u in process n is still to come, or lost.
StillPending(n, u) ==
    case.caching /\ n \in case.nodes /\ Pending(n, u) => Pending(n, u)' \/ missed' # {}

\* Steps that drop entries, end executions and overtake queries.
LEMMA DropKeepsCache ==
    ASSUME RolesInv, CacheInv, UNCHANGED <<case, user, role>>, missed \subseteq missed',
           \A n \in Nodes, u \in Users :
              cache'[n][u] = EmptyEntry \/ (cache'[n][u] = cache[n][u] /\ StillPending(n, u)),
           \A q \in Handlers, n \in Nodes, u \in Users :
              act'[q].pc = "fill" /\ act'[q].home = n /\ act'[q].actor = u =>
                 act'[q].stale = TRUE \/ (act'[q] = act[q] /\ StillPending(n, u))
    PROVE  CacheInv'
<1>1. \A u \in Users : Truth(u)' = Truth(u)
  BY DEF Truth
<1>2. ASSUME NEW n \in Nodes, NEW u \in Users
      PROVE  /\ cache'[n][u].on => case'.caching /\ n \in case'.nodes /\ user'[u].state # "none"
             /\ cache'[n][u].on /\ ~cache'[n][u].stale /\ missed' = {} =>
                   cache'[n][u].shown = Truth(u)' \/ Pending(n, u)'
  <2>1. CASE cache'[n][u] = EmptyEntry
    BY <2>1 DEF EmptyEntry
  <2>2. CASE cache'[n][u] = cache[n][u] /\ StillPending(n, u)
    BY <1>1, <2>2 DEF CacheInv, StillPending
  <2>3. QED
    BY <2>1, <2>2
<1>3. ASSUME NEW q \in Handlers, NEW n \in Nodes, NEW u \in Users,
             act'[q].pc = "fill", act'[q].home = n, act'[q].actor = u,
             case'.caching, ~act'[q].stale, missed' = {}
      PROVE  act'[q].got = Truth(u)' \/ Pending(n, u)'
  <2>1. act'[q] = act[q] /\ StillPending(n, u)
    BY <1>3
  <2>2. missed = {} /\ n \in case.nodes /\ case.caching
    BY <1>3, <2>1 DEF RolesInv
  <2>3. act[q].got = Truth(u) \/ Pending(n, u)
    BY <1>3, <2>1, <2>2 DEF CacheInv
  <2>4. QED
    BY <1>1, <1>3, <2>1, <2>2, <2>3 DEF StillPending
<1>4. QED
  BY <1>2, <1>3 DEF CacheInv

LEMMA EnterCache ==
    ASSUME RolesInv, CacheInv, NEW h \in Handlers, NEW n \in case.nodes, NEW a \in case.actors,
           NEW w \in case.wants, Enter(h, n, a, w), UNCHANGED case
    PROVE  CacheInv'
<1>1. RolesTypeOK /\ n \in Nodes /\ a \in Users
  BY RolesConstants DEF RolesInv, RolesTypeOK
<1>2. w \in Wants
  BY <1>1, WantsAreValid DEF RolesTypeOK, Valid
<1>3. HandlersKeep(h) /\ act'[h].pc # "fill"
  BY <1>1, <1>2, EnterOutcome
<1>4. act[h].pc # "clear" /\ UNCHANGED <<user, role, cache, inbox, missed>>
  BY DEF Enter
<1>5. QED
  BY <1>3, <1>4, StepKeepsCache

LEMMA EnterAloneCache ==
    ASSUME RolesInv, CacheInv, NEW h \in Handlers, NEW n \in case.nodes, NEW w \in case.wants,
           EnterAlone(h, n, w), UNCHANGED case
    PROVE  CacheInv'
<1>1. RolesTypeOK /\ n \in Nodes
  BY RolesConstants DEF RolesInv, RolesTypeOK
<1>2. w \in Wants
  BY <1>1, WantsAreValid DEF RolesTypeOK, Valid
<1>3. HandlersKeep(h) /\ act'[h].pc # "fill"
  BY <1>1, <1>2, EnterAloneOutcome
<1>4. act[h].pc # "clear" /\ UNCHANGED <<user, role, cache, inbox, missed>>
  BY DEF EnterAlone
<1>5. QED
  BY <1>3, <1>4, StepKeepsCache

LEMMA FetchCache ==
    ASSUME RolesInv, CacheInv, NEW h \in Handlers, Fetch(h), UNCHANGED case
    PROVE  CacheInv'
<1>1. RolesTypeOK
  BY DEF RolesInv
<1>2. HandlersKeep(h) /\ act'[h].got = Truth(act[h].actor) /\ act'[h].actor = act[h].actor
  BY <1>1, FetchOutcome DEF SameTask
<1>3. act[h].pc # "clear" /\ UNCHANGED <<user, role, cache, inbox, missed>>
  BY DEF Fetch
<1>4. QED
  BY <1>2, <1>3, StepKeepsCache

LEMMA FillKeepsCache ==
    ASSUME RolesInv, CacheInv, NEW h \in Handlers, Fill(h), UNCHANGED case
    PROVE  CacheInv'
<1> DEFINE a == act[h]
           new == [on |-> TRUE, shown |-> a.got, stale |-> a.stale]
<1>1. RolesTypeOK /\ act[h].pc = "fill"
  BY DEF RolesInv, Fill
<1>2. HandlersKeep(h) /\ act'[h].pc # "fill"
  BY <1>1, FillOutcome, FreeTyped
<1>3. UNCHANGED <<user, role, inbox, missed>>
  BY DEF Fill
<1>4. /\ new \in EntryType /\ a.home \in Nodes /\ a.actor \in Users
      /\ IF case.caching
         THEN cache' = [cache EXCEPT ![a.home][a.actor] = new] ELSE cache' = cache
  BY <1>1, FillCache
<1>5. new.shown = act[h].got /\ new.stale = act[h].stale
  OBVIOUS
<1>6. cache \in [Nodes -> [Users -> EntryType]]
  BY <1>1 DEF RolesTypeOK
<1> HIDE DEF new
<1>7. ASSUME NEW n \in Nodes, NEW u \in Users
      PROVE  \/ cache'[n][u] = cache[n][u]
             \/ /\ act[h].pc = "fill" /\ act[h].home = n /\ act[h].actor = u /\ case.caching
                /\ cache'[n][u].shown = act[h].got /\ cache'[n][u].stale = act[h].stale
  <2>1. CASE case.caching
    <3>1. cache' = [cache EXCEPT ![act[h].home][act[h].actor] = new]
      BY <1>4, <2>1
    <3>2. cache'[n][u] = IF n = act[h].home /\ u = act[h].actor THEN new ELSE cache[n][u]
      BY <1>4, <1>6, <3>1
    <3>3. QED
      BY <1>1, <1>5, <2>1, <3>2
  <2>2. CASE ~case.caching
    BY <1>4, <2>2
  <2>3. QED
    BY <2>1, <2>2
<1>8. act[h].pc # "clear"
  BY <1>1
<1>9. QED
  BY <1>2, <1>3, <1>7, <1>8, StepKeepsCache

LEMMA LookCache ==
    ASSUME RolesInv, CacheInv, NEW h \in Handlers, Look(h), UNCHANGED case
    PROVE  CacheInv'
<1>1. RolesTypeOK
  BY DEF RolesInv
<1>2. HandlersKeep(h) /\ act'[h].pc # "fill"
  BY <1>1, LookOutcome, FreeTyped DEF AfterLook
<1>3. act[h].pc # "clear" /\ UNCHANGED <<user, role, cache, inbox, missed>>
  BY DEF Look
<1>4. QED
  BY <1>2, <1>3, StepKeepsCache

LEMMA CheckTargetCache ==
    ASSUME RolesInv, CacheInv, NEW h \in Handlers, CheckTarget(h), UNCHANGED case
    PROVE  CacheInv'
<1>1. RolesTypeOK
  BY DEF RolesInv
<1>2. HandlersKeep(h) /\ act'[h].pc # "fill"
  BY <1>1, CheckTargetOutcome, FreeTyped
<1>3. act[h].pc # "clear" /\ UNCHANGED <<user, role, cache, inbox, missed>>
  BY DEF CheckTarget
<1>4. QED
  BY <1>2, <1>3, StepKeepsCache

LEMMA CountOthersCache ==
    ASSUME RolesInv, CacheInv, NEW h \in Handlers, CountOthers(h), UNCHANGED case
    PROVE  CacheInv'
<1>1. RolesTypeOK
  BY DEF RolesInv
<1>2. HandlersKeep(h) /\ act'[h].pc # "fill"
  BY <1>1, CountOthersOutcome, FreeTyped
<1>3. act[h].pc # "clear" /\ UNCHANGED <<user, role, cache, inbox, missed>>
  BY DEF CountOthers
<1>4. QED
  BY <1>2, <1>3, StepKeepsCache

LEMMA AbortCache ==
    ASSUME RolesInv, CacheInv, NEW h \in Handlers, Abort(h), UNCHANGED case
    PROVE  CacheInv'
<1>1. act \in [Handlers -> ActType]
  BY DEF RolesInv, RolesTypeOK
<1>2. HandlersKeep(h) /\ act'[h].pc # "fill"
  BY <1>1, StopOutcome, FreeTyped DEF Abort
<1>3. act[h].pc # "clear" /\ UNCHANGED <<user, role, cache, inbox, missed>>
  BY DEF Abort, RolesInv, TxFine, NoTx
<1>4. QED
  BY <1>2, <1>3, StepKeepsCache

\* Who has not come into being is in no cache.
LEMMA UnbornUnknown ==
    ASSUME RolesInv, CacheInv, NEW u \in Users, user[u].state = "none"
    PROVE  Unknown(u)
<1>1. \A n \in Nodes : ~cache[n][u].on
  BY DEF CacheInv
<1>2. \A q \in Handlers : act[q].pc = "fill" => act[q].actor # u
  BY DEF RolesInv
<1>3. QED
  BY <1>1, <1>2 DEF Unknown

\* Whom a statement shows otherwise is who it is about, unless it is on a role;
\* what users are changed by update, delete and confirmDeactivation is not shown.
LEMMA EffectShows ==
    ASSUME RolesInv, NEW w, NEW t \in TxType, Valid(w), ~WriteFails(w), Statement(w, t),
           Fits(w, t), Transacts(w) => t.at = "ready", NEW u \in Users
    PROVE  \/ user[u].state = "none" \/ Truth(u)' = Truth(u)
           \/ u \in Covered(w) /\ w.op \notin {"create", "update", "delete", "leave"}
<1>1. w.target \in Users /\ w.op \in TargetOps \cup RoleOps
  BY DEF Valid, Wants
<1>2. CASE w.op \in TargetOps
  <2>1. user' = [user EXCEPT ![w.target] = Written(w, t, user[w.target])] /\ role' = role
    <3>1. w.op \notin RoleOps
      BY <1>2 DEF TargetOps, RoleOps
    <3>2. QED
      BY <3>1 DEF Statement, RoleOps
  <2>2. user \in [Users -> UserType]
    BY DEF RolesInv, RolesTypeOK
  <2>3. CASE u # w.target
    <3>1. user'[u] = user[u]
      BY <2>1, <2>2, <2>3
    <3>2. QED
      BY <2>1, <3>1, TruthStays
  <2>4. CASE u = w.target
    <3>1. user'[u] = Written(w, t, user[u])
      BY <2>1, <2>2, <2>4
    <3>2. CASE w.op \in {"update", "delete", "leave"}
      <4>1. user'[u].roles = user[u].roles
        BY <1>2, <2>4, <3>1, <3>2, WrittenTyped DEF MaySay
      <4>2. QED
        BY <2>1, <4>1, TruthStays
    <3>3. CASE w.op = "create"
      <4>1. user[u].state = "none"
        BY <1>2, <2>4, <3>3, WrittenTyped DEF MaySay
      <4>2. QED
        BY <4>1
    <3>4. CASE w.op \notin {"create", "update", "delete", "leave"}
      BY <1>2, <2>4, <3>4 DEF Covered, TargetOps, RoleOps
    <3>5. QED
      BY <3>2, <3>3, <3>4
  <2>5. QED
    BY <2>3, <2>4
<1>3. CASE w.op \in RoleOps
  BY <1>3 DEF Covered, RoleOps
<1>4. QED
  BY <1>1, <1>2, <1>3

LEMMA ChangeCache ==
    ASSUME RolesInv, CacheInv, NEW h \in Handlers, Change(h), UNCHANGED case
    PROVE  CacheInv'
<1> DEFINE w == act[h].want
<1>1. RolesTypeOK /\ Asked(act[h]) /\ act[h].pc = "change" /\ Fits(w, tx[h]) /\ tx[h] \in TxType
  BY DEF RolesInv, RolesTypeOK, TxFine, Change
<1>2. Valid(w) /\ (w.op = "role delete" => w.roles \cap SystemRoles = {})
  BY <1>1 DEF Asked
<1>3. /\ HandlersKeep(h) /\ UNCHANGED <<cache, inbox, missed>> /\ Close(h) /\ MayWrite(h)
      /\ \/ act'[h] = Free /\ UNCHANGED <<user, role>>
         \/ /\ ~WriteFails(w) /\ Statement(w, tx[h])
            /\ \/ w.op = "leave" /\ act'[h] = Free
               \/ /\ w.op # "leave"
                  /\ SameTask(act'[h], act[h]) /\ act'[h].pc = AfterChange(h)
  BY <1>1, <1>2, ChangeOutcome
<1>4. act'[h].pc # "fill"
  BY <1>3, FreeTyped DEF AfterChange
<1>5. TablesKept
  <2>1. CASE UNCHANGED <<user, role>>
    BY <2>1 DEF TablesKept, RolesInv, RolesTypeOK, Exists
  <2>2. CASE ~WriteFails(w) /\ Statement(w, tx[h])
    BY <1>1, <1>2, <1>3, <2>2, EffectKeepsTables DEF MayWrite
  <2>3. QED
    BY <1>3, <2>1, <2>2
<1>6. ASSUME NEW u \in Users
      PROVE  \/ Unknown(u) \/ Truth(u)' = Truth(u)
             \/ act'[h].pc = "clear" /\ u \in Covered(act'[h].want)
  <2>1. CASE UNCHANGED <<user, role>>
    BY <2>1 DEF Truth
  <2>2. CASE ~WriteFails(w) /\ Statement(w, tx[h])
    <3>1. \/ user[u].state = "none" \/ Truth(u)' = Truth(u)
          \/ u \in Covered(w) /\ w.op \notin {"create", "update", "delete", "leave"}
      BY <1>1, <1>2, <1>3, <2>2, EffectShows DEF MayWrite
    <3>2. CASE user[u].state = "none"
      BY <3>2, UnbornUnknown
    <3>3. CASE u \in Covered(w) /\ w.op \notin {"create", "update", "delete", "leave"}
      <4>1. CASE UNCHANGED <<user, role>>
        BY <4>1 DEF Truth
      <4>2. CASE act'[h].want = w /\ act'[h].pc = AfterChange(h)
        BY <3>3, <4>2 DEF AfterChange
      <4>3. QED
        BY <1>3, <3>3, <4>1, <4>2 DEF SameTask
    <3>4. QED
      BY <3>1, <3>2, <3>3
  <2>3. QED
    BY <1>3, <2>1, <2>2
<1>7. act[h].pc # "clear" /\ missed \subseteq missed' /\ UNCHANGED <<case, cache, inbox>>
  BY <1>1, <1>3
<1>8. QED
  BY <1>3, <1>4, <1>5, <1>6, <1>7, WriteKeepsCache

LEMMA AssignCache ==
    ASSUME RolesInv, CacheInv, NEW h \in Handlers, AssignMatching(h), UNCHANGED case
    PROVE  CacheInv'
<1> DEFINE w == act[h].want
           r == RoleFor(w.legacy)
           new == WithRole(user[w.target], r)
<1>1. RolesTypeOK /\ Asked(act[h]) /\ act[h].pc = "assign"
  BY DEF RolesInv, AssignMatching
<1>2. Valid(w) /\ w.target \in Users /\ w.op \in {"create", "update"}
  BY <1>1 DEF Asked, Valid, Wants
<1>3. /\ HandlersKeep(h) /\ r \in {"admin", "viewer", "crawler_user"}
      /\ user' = [user EXCEPT ![w.target] = WithRole(@, r)] /\ role' = role
      /\ \/ w.op = "create" /\ act'[h] = Free
         \/ /\ w.op # "create"
            /\ SameTask(act'[h], act[h]) /\ act'[h].pc = "clear"
  BY AssignOutcome
<1>4. RolesInv' /\ user' = [user EXCEPT ![w.target] = new]
  BY <1>3, AssignRoles
<1> HIDE DEF r
<1>5. r \in Slugs /\ user[w.target] \in UserType
  BY <1>1, <1>2, <1>3 DEF SystemRoles, Slugs, RolesTypeOK
<1>6. new.state = user[w.target].state
  BY <1>5, WithRoleTyped
<1> HIDE DEF new
<1>7. user \in [Users -> UserType]
  BY <1>1 DEF RolesTypeOK
<1>8. TablesKept
  <2>1. \A u \in Users : user'[u].state = user[u].state
    BY <1>4, <1>6, <1>7
  <2>2. QED
    BY <1>4, <2>1 DEF TablesKept, RolesInv, RolesTypeOK, Exists
<1>9. ASSUME NEW u \in Users
      PROVE  \/ missed' # {} \/ Unknown(u) \/ Truth(u)' = Truth(u)
             \/ act'[h].pc = "clear" /\ u \in Covered(act'[h].want)
  <2>1. CASE u # w.target
    <3>1. user'[u] = user[u]
      BY <1>4, <1>7, <2>1
    <3>2. QED
      BY <1>3, <3>1, TruthStays
  <2>2. CASE u = w.target /\ w.op = "create"
    <3>1. CASE missed' = missed \cup {"create"}
      BY <3>1
    <3>2. CASE /\ \A n \in Nodes : ~cache[n][u].on
               /\ \A q \in Handlers : ~(act[q].pc = "fill" /\ act[q].actor = u)
      BY <3>2 DEF Unknown
    <3>3. QED
      BY <2>2, <3>1, <3>2 DEF AssignMatching
  <2>3. CASE u = w.target /\ w.op = "update"
    <3>1. act'[h].pc = "clear" /\ act'[h].want = w
      BY <1>3, <2>3 DEF SameTask
    <3>2. QED
      BY <2>3, <3>1 DEF Covered, RoleOps
  <2>4. QED
    BY <1>2, <2>1, <2>2, <2>3
<1>10. act[h].pc # "clear" /\ missed \subseteq missed' /\ UNCHANGED <<case, cache, inbox>>
  BY <1>1 DEF AssignMatching
<1>11. act'[h].pc # "fill"
  BY <1>3, FreeTyped
<1>12. QED
  BY <1>3, <1>8, <1>9, <1>10, <1>11, WriteKeepsCache

LEMMA InvalidateCache ==
    ASSUME RolesInv, CacheInv, NEW h \in Handlers, Invalidate(h), UNCHANGED case
    PROVE  CacheInv'
<1> DEFINE gone == Covered(act[h].want)
           home == act[h].home
           out == Outdate(home, gone)
<1>1. RolesTypeOK
  BY DEF RolesInv
<1>2. /\ gone \in SUBSET Users /\ home \in Nodes
      /\ OvertakenIn(out, home, gone)
      /\ act' \in [Handlers -> ActType] /\ act'[h] = Free
      /\ \A q \in Handlers \ {h} : act'[q] = out[q]
  BY InvalidateOutcome
<1>3. cache' = [cache EXCEPT ![home] = Forget(@, gone)] /\ UNCHANGED <<user, role>>
  BY DEF Invalidate
<1>4. \/ inbox' = [n \in Nodes |-> inbox[n] \cup
                      (IF case.caching /\ n \in case.nodes THEN gone ELSE {})]
         /\ missed' = missed
      \/ missed' = missed \cup {"redis"} /\ inbox' = inbox
  BY DEF Invalidate
<1>5. ASSUME NEW n \in Nodes, NEW u \in Users
      PROVE  StillPending(n, u)
  <2>1. CASE missed' = missed \cup {"redis"}
    BY <2>1 DEF StillPending
  <2>2. CASE inbox' = [m \in Nodes |-> inbox[m] \cup
                          (IF case.caching /\ m \in case.nodes THEN gone ELSE {})]
    <3>1. SUFFICES ASSUME case.caching, n \in case.nodes, Pending(n, u)
                   PROVE  Pending(n, u)'
      BY DEF StillPending
    <3>2. inbox'[n] = inbox[n] \cup gone
      BY <2>2, <3>1
    <3>3. CASE u \in inbox[n] \/ u \in gone
      BY <3>2, <3>3 DEF Pending
    <3>4. CASE \E q \in Handlers : act[q].pc = "clear" /\ u \in Covered(act[q].want) /\ q # h
      <4>1. PICK q \in Handlers : act[q].pc = "clear" /\ u \in Covered(act[q].want) /\ q # h
        BY <3>4
      <4>2. act'[q].pc = "clear" /\ act'[q].want = act[q].want
        BY <1>2, <4>1 DEF OvertakenIn, ButStale, SameTask
      <4>3. act'[q].pc = "clear" /\ u \in Covered(act'[q].want)
        BY <4>1, <4>2
      <4>4. QED
        BY <4>3 DEF Pending, Covered
    <3>5. QED
      BY <3>1, <3>3, <3>4 DEF Pending
  <2>3. QED
    BY <1>4, <2>1, <2>2
<1> HIDE DEF gone, home, out
<1>6. \A n \in Nodes, u \in Users :
         cache'[n][u] = EmptyEntry \/ (cache'[n][u] = cache[n][u] /\ StillPending(n, u))
  BY <1>1, <1>2, <1>3, <1>5, DroppedTyped DEF DropsOnly
<1>7. \A q \in Handlers, n \in Nodes, u \in Users :
         act'[q].pc = "fill" /\ act'[q].home = n /\ act'[q].actor = u =>
            act'[q].stale = TRUE \/ (act'[q] = act[q] /\ StillPending(n, u))
  BY <1>2, <1>5, FreeTyped DEF OvertakenIn
<1>8. missed \subseteq missed'
  BY <1>4
<1>9. QED
  BY <1>3, <1>6, <1>7, <1>8, DropKeepsCache

LEMMA DeliverCache ==
    ASSUME RolesInv, CacheInv, NEW m \in Nodes, NEW v \in Users, Deliver(m, v), UNCHANGED case
    PROVE  CacheInv'
<1> DEFINE gone == {v}
           out == Outdate(m, gone)
<1>1. RolesTypeOK /\ act \in [Handlers -> ActType] /\ inbox \in [Nodes -> SUBSET Users]
  BY DEF RolesInv, RolesTypeOK
<1>2. /\ inbox' = [inbox EXCEPT ![m] = @ \ gone] /\ act' = out
      /\ UNCHANGED <<user, role, missed>>
  BY DEF Deliver
<1>3. \A u \in Users : u \in gone <=> u = v
  OBVIOUS
<1>4. gone \in SUBSET Users
  OBVIOUS
<1>5. cache' = [cache EXCEPT ![m] = Forget(@, gone)]
  BY DEF Deliver
<1> HIDE DEF gone
<1>6. OvertakenIn(out, m, gone)
  BY <1>1, <1>4, OutdateTyped
<1> HIDE DEF out
<1>7. ASSUME NEW n \in Nodes, NEW u \in Users, n # m \/ u # v
      PROVE  StillPending(n, u)
  <2>1. SUFFICES ASSUME Pending(n, u)
                 PROVE  Pending(n, u)'
    BY DEF StillPending
  <2>2. CASE u \in inbox[n]
    <3>1. u \in inbox'[n]
      BY <1>1, <1>2, <1>3, <1>7, <2>2
    <3>2. QED
      BY <3>1 DEF Pending
  <2>3. CASE \E q \in Handlers : act[q].pc = "clear" /\ u \in Covered(act[q].want)
    <3>1. PICK q \in Handlers : act[q].pc = "clear" /\ u \in Covered(act[q].want)
      BY <2>3
    <3>2. act'[q].pc = "clear" /\ act'[q].want = act[q].want
      BY <1>2, <1>6, <3>1 DEF OvertakenIn, ButStale, SameTask
    <3>3. act'[q].pc = "clear" /\ u \in Covered(act'[q].want)
      BY <3>1, <3>2
    <3>4. QED
      BY <3>3 DEF Pending, Covered
  <2>4. QED
    BY <2>1, <2>2, <2>3 DEF Pending
<1>8. DropsOnly(m, gone)
  BY <1>1, <1>4, <1>5, DroppedTyped
<1>9. \A n \in Nodes, u \in Users :
         cache'[n][u] = EmptyEntry \/ (cache'[n][u] = cache[n][u] /\ StillPending(n, u))
  BY <1>3, <1>7, <1>8 DEF DropsOnly
<1>10. ASSUME NEW q \in Handlers, NEW n \in Nodes, NEW u \in Users,
             act'[q].pc = "fill", act'[q].home = n, act'[q].actor = u
      PROVE  act'[q].stale = TRUE \/ (act'[q] = act[q] /\ StillPending(n, u))
  <2>1. act'[q] = act[q] \/ act'[q].stale = TRUE
    BY <1>2, <1>6 DEF OvertakenIn
  <2>2. act'[q] = act[q] /\ n = m /\ u = v => act'[q].stale = TRUE
    BY <1>2, <1>3, <1>6, <1>10 DEF OvertakenIn
  <2>3. QED
    BY <1>7, <2>1, <2>2
<1>11. QED
  BY <1>2, <1>9, <1>10, DropKeepsCache

LEMMA ExpireCache ==
    ASSUME RolesInv, CacheInv, NEW m \in Nodes, NEW v \in Users, Expire(m, v), UNCHANGED case
    PROVE  CacheInv'
<1>1. cache \in [Nodes -> [Users -> EntryType]]
  BY DEF RolesInv, RolesTypeOK
<1>2. cache' = [cache EXCEPT ![m][v] = EmptyEntry] /\ UNCHANGED <<user, role, inbox, act, tx, missed>>
  BY DEF Expire
<1>3. \A n \in Nodes, u \in Users : StillPending(n, u)
  BY <1>2 DEF StillPending, Pending, Covered
<1>4. \A n \in Nodes, u \in Users : cache'[n][u] \in {EmptyEntry, cache[n][u]}
  BY <1>1, <1>2
<1>5. QED
  BY <1>2, <1>3, <1>4, DropKeepsCache

LEMMA DieCache ==
    ASSUME RolesInv, CacheInv, NEW m \in Nodes, Die(m), UNCHANGED case
    PROVE  CacheInv'
<1>1. /\ cache \in [Nodes -> [Users -> EntryType]] /\ inbox \in [Nodes -> SUBSET Users]
      /\ act \in [Handlers -> ActType]
  BY DEF RolesInv, RolesTypeOK
<1>2. /\ cache' = [cache EXCEPT ![m] = [u \in Users |-> EmptyEntry]]
      /\ inbox' = [inbox EXCEPT ![m] = {}] /\ UNCHANGED <<user, role>>
      /\ \A h \in Handlers : act'[h] = IF act[h].home = m THEN Free ELSE act[h]
      /\ missed' = IF \E h \in Handlers : act[h].home = m /\ act[h].pc = "clear"
                   THEN missed \cup {"crash"} ELSE missed
  BY DEF Die
<1>3. ASSUME NEW n \in Nodes, NEW u \in Users, n # m
      PROVE  StillPending(n, u)
  <2>1. SUFFICES ASSUME Pending(n, u), missed' = {}
                 PROVE  Pending(n, u)'
    BY DEF StillPending
  <2>2. CASE u \in inbox[n]
    <3>1. u \in inbox'[n]
      BY <1>1, <1>2, <1>3, <2>2
    <3>2. QED
      BY <3>1 DEF Pending
  <2>3. CASE \E q \in Handlers : act[q].pc = "clear" /\ u \in Covered(act[q].want)
    <3>1. PICK q \in Handlers : act[q].pc = "clear" /\ u \in Covered(act[q].want)
      BY <2>3
    <3>2. act[q].home # m
      BY <1>2, <2>1, <3>1
    <3>3. act'[q] = act[q]
      BY <1>2, <3>2
    <3>4. act'[q].pc = "clear" /\ u \in Covered(act'[q].want)
      BY <3>1, <3>3
    <3>5. QED
      BY <3>4 DEF Pending, Covered
  <2>4. QED
    BY <2>1, <2>2, <2>3 DEF Pending
<1>4. \A n \in Nodes, u \in Users : cache'[n][u] = IF n = m THEN EmptyEntry ELSE cache[n][u]
  BY <1>1, <1>2
<1>5. \A n \in Nodes, u \in Users :
         cache'[n][u] = EmptyEntry \/ (cache'[n][u] = cache[n][u] /\ StillPending(n, u))
  BY <1>3, <1>4
<1>6. \A q \in Handlers, n \in Nodes, u \in Users :
         act'[q].pc = "fill" /\ act'[q].home = n /\ act'[q].actor = u =>
            act'[q].stale = TRUE \/ (act'[q] = act[q] /\ StillPending(n, u))
  BY <1>2, <1>3, FreeTyped
<1>7. missed \subseteq missed'
  BY <1>2
<1>8. QED
  BY <1>2, <1>5, <1>6, <1>7, DropKeepsCache

LEMMA CacheStep ==
    ASSUME RolesInv, CacheInv, [RolesNext]_roleVars
    PROVE  CacheInv'
<1>1. CASE UNCHANGED roleVars
  BY <1>1 DEF roleVars, CacheInv, Pending, Truth, Covered
<1>2. ASSUME NEW h \in Handlers, HandlerStep(h), UNCHANGED case
      PROVE  CacheInv'
  <2>1. CASE DeleteRows(h) \/ SeeRows(h)
    <3>1. UNCHANGED <<case, user, role, cache, inbox, act, missed>>
      BY <1>2, <2>1 DEF DeleteRows, SeeRows
    <3>2. QED
      BY <3>1 DEF CacheInv, Pending, Truth, Covered
  <2>2. QED
    BY <1>2, <2>1, FetchCache, FillKeepsCache, LookCache, CheckTargetCache, CountOthersCache,
       AbortCache, ChangeCache, AssignCache, InvalidateCache DEF HandlerStep
<1>3. ASSUME NEW h \in Handlers, NEW n \in case.nodes, NEW w \in case.wants, UNCHANGED case,
             EnterAlone(h, n, w) \/ \E a \in case.actors : Enter(h, n, a, w)
      PROVE  CacheInv'
  BY <1>3, EnterCache, EnterAloneCache
<1>4. ASSUME NEW n \in Nodes, UNCHANGED case,
             Die(n) \/ \E u \in Users : Deliver(n, u) \/ Expire(n, u)
      PROVE  CacheInv'
  BY <1>4, DieCache, DeliverCache, ExpireCache
<1>5. QED
  BY <1>1, <1>2, <1>3, <1>4 DEF RolesNext, RolesStep

\* What a process believes of a user's roles and permissions is what the tables
\* say, unless an invalidation is still to come, overtook the query or was lost:
\* in whatever order requests, queries, messages and deaths of processes come.
THEOREM CacheCurrent == RolesSpec => []CacheIsCurrent
<1>1. RolesInit => RolesInv /\ CacheInv
  <2>1. RolesInit => CacheInv
    BY FreeTyped DEF RolesInit, CacheInv, EmptyEntry
  <2>2. QED
    BY <2>1, RolesStart
<1>2. RolesInv /\ CacheInv /\ [RolesNext]_roleVars => RolesInv' /\ CacheInv'
  BY RolesStepKeeps, CacheStep
<1>3. CacheInv => CacheIsCurrent
  BY DEF CacheInv, CacheIsCurrent, Pending
<1>4. QED
  BY <1>1, <1>2, <1>3, PTL DEF RolesSpec

-----------------------------------------------------------------------------
(* Roles: the administrators *)

\* Steps that touch nobody's being, activity, legacy role and system roles.
SparesAdmins ==
    \A u \in Users :
        /\ user'[u].state = user[u].state /\ user'[u].active = user[u].active
        /\ user'[u].legacy = user[u].legacy
        /\ \A r \in SystemRoles : r \in user'[u].roles <=> r \in user[u].roles

AdminRoles == {"super_admin", "admin"}
Marked(u) == u.roles \cap AdminRoles # {} => u.legacy = "ADMIN"

\* The user has a role that a replacement or revocation has not seen.
Unseen(w, t, u) ==
    \/ w.op = "replace" /\ ~(u.roles \subseteq t.gone \cup w.roles)
    \/ w.op = "revoke" /\ ~(u.roles \subseteq t.gone \cup t.left)

LEMMA SparedAreSafe ==
    ASSUME SparesAdmins
    PROVE  LastSuperAdminStays /\ SuperAdminsAreGuarded
<1>1. "super_admin" \in SystemRoles
  BY DEF SystemRoles
<1>2. \A u \in Users : (IsSuper(u)' = IsSuper(u)) /\ (Live(u)' = Live(u))
  BY <1>1 DEF SparesAdmins, IsSuper, Live
<1>3. SuperAdminsAreGuarded
  BY <1>2 DEF SuperAdminsAreGuarded
<1>4. ActiveSupers' = ActiveSupers
  BY <1>1 DEF SparesAdmins, ActiveSupers, IsSuper, LiveActive, Live
<1>5. QED
  BY <1>3, <1>4 DEF LastSuperAdminStays

LEMMA SparedAreMarked ==
    ASSUME SparesAdmins, NEW u \in Users, Marked(user[u])
    PROVE  Marked(user'[u])
  BY DEF SparesAdmins, Marked, AdminRoles, SystemRoles

\* A statement on a role.
LEMMA RoleOpsSpare ==
    ASSUME RolesInv, NEW w, NEW t, w.op \notin TargetOps, Statement(w, t),
           w.op = "role delete" => w.roles \cap SystemRoles = {}
    PROVE  SparesAdmins
<1>1. CASE user' = user
  BY <1>1 DEF SparesAdmins
<1>2. CASE w.op = "role delete" /\ user' = Cascaded(w)
  <2>1. ASSUME NEW u \in Users
        PROVE  /\ user'[u].state = user[u].state /\ user'[u].active = user[u].active
               /\ user'[u].legacy = user[u].legacy /\ user'[u].roles = user[u].roles \ w.roles
    <3>1. user'[u] = [user[u] EXCEPT !.roles = @ \ w.roles]
      BY <1>2 DEF Cascaded
    <3>2. user[u] \in UserType
      BY DEF RolesInv, RolesTypeOK
    <3>3. QED
      BY <3>1, <3>2 DEF UserType
  <2>2. QED
    BY <1>2, <2>1 DEF SparesAdmins
<1>3. QED
  BY <1>1, <1>2 DEF Statement, Cascaded

\* What a statement on a user leaves of him.
LEMMA WrittenAdmins ==
    ASSUME RolesInv, NEW w, NEW t \in TxType, MaySay(w, t)
    PROVE  LET u == user[w.target]
               new == Written(w, t, u)
           IN  /\ w.op \in {"update", "replace", "assign", "revoke"} => new.state = u.state
               /\ w.op \in {"replace", "assign", "revoke"} => new.active = u.active
               /\ w.op = "update" => new.active = IF w.active = "same" THEN u.active ELSE w.active = "on"
               /\ w.op \in {"update", "delete", "leave"} => new.roles = u.roles
               /\ w.op = "create" => u.state = "none" /\ new.roles = {}
               /\ w.op = "replace" => new.roles = (u.roles \ t.gone) \cup t.left
               /\ w.op = "assign" => \E r \in w.roles : new.roles = u.roles \cup {r}
               /\ w.op = "revoke" => new.roles = u.roles \ t.gone
               /\ w.op = "update" => new.legacy = IF w.legacy = "same" THEN u.legacy ELSE w.legacy
               /\ w.op # "update" /\ Marked(u) /\ ~Marked(new) => Unseen(w, t, u)
<1> DEFINE u == user[w.target]
           new == Written(w, t, u)
<1>1. w \in Wants /\ w.target \in Users /\ Valid(w) /\ w.op \in TargetOps /\ ~WriteFails(w)
  BY DEF MaySay, Valid, Wants
<1>2. u \in UserType
  BY <1>1 DEF RolesInv, RolesTypeOK
<1>3. \A roles : roles \cap AdminRoles # {} => LegacyFor(roles) = "ADMIN"
  BY DEF LegacyFor, AdminRoles
<1>4. CASE w.op = "create"
  <2>1. new = Created(w) /\ u.state = "none"
    BY <1>1, <1>4 DEF Written, WriteFails
  <2>2. QED
    BY <1>1, <1>4, <2>1, CreatedTyped DEF Marked
<1>5. CASE w.op = "update"
  <2>1. new = Updated(w, u)
    BY <1>5 DEF Written
  <2>2. QED
    BY <1>1, <1>2, <1>5, <2>1, UpdatedTyped
<1>6. CASE w.op \in {"delete", "leave"}
  <2>1. new = Removed(u)
    BY <1>6 DEF Written
  <2>2. QED
    BY <1>2, <1>6, <2>1, RemovedTyped DEF Marked
<1>7. CASE w.op = "replace"
  <2>1. new = Replaced(w, t, u) /\ t.left \subseteq w.roles
    BY <1>7 DEF Written, MaySay, Fits, Transacts
  <2>2. /\ new.state = u.state /\ new.active = u.active
        /\ new.roles = (u.roles \ t.gone) \cup t.left /\ new.legacy = LegacyFor(w.roles)
    BY <1>2, <2>1, ReplacedTyped
  <2>3. ~Marked(new) => Unseen(w, t, u)
    BY <1>3, <1>7, <2>1, <2>2 DEF Marked, Unseen
  <2>4. QED
    BY <1>7, <2>2, <2>3
<1>8. CASE w.op = "assign"
  <2> DEFINE r == CHOOSE r \in w.roles : TRUE
  <2>1. new = WithRole(u, r)
    BY <1>8 DEF Written
  <2>2. r \in w.roles
    BY <1>1, <1>8 DEF Valid
  <2> HIDE DEF r
  <2>3. r \in Slugs
    BY <1>1, <2>2 DEF Wants
  <2>4. /\ new.state = u.state /\ new.active = u.active /\ new.roles = u.roles \cup {r}
        /\ new.legacy = IF r \in {"super_admin", "admin"} THEN "ADMIN" ELSE u.legacy
    BY <1>2, <2>1, <2>3, WithRoleTyped
  <2>5. Marked(u) => Marked(new)
    BY <2>4 DEF Marked, AdminRoles
  <2>6. QED
    BY <1>8, <2>2, <2>4, <2>5
<1>9. CASE w.op = "revoke"
  <2>1. new = Revoked(t, u)
    BY <1>9 DEF Written
  <2>2. /\ new.state = u.state /\ new.active = u.active
        /\ new.roles = u.roles \ t.gone /\ new.legacy = LegacyFor(t.left)
    BY <1>2, <2>1, RevokedTyped
  <2>3. ~Marked(new) => Unseen(w, t, u)
    BY <1>3, <1>9, <2>2 DEF Marked, Unseen
  <2>4. QED
    BY <1>9, <2>2, <2>3
<1>10. QED
  BY <1>1, <1>4, <1>5, <1>6, <1>7, <1>8, <1>9 DEF TargetOps

\* A handler at the step that writes to a user, and what it writes.
WritesTo(h) ==
    LET w == act[h].want IN
    /\ act[h].pc = "change" /\ act'[h].pc # "change" /\ Asked(act[h]) /\ w.target \in Users
    /\ tx[h] \in TxType /\ MaySay(w, tx[h])
    /\ user' = [user EXCEPT ![w.target] = Written(w, tx[h], @)]

\* Who does not lose the role, the activity or his being stays an active super
\* administrator.
LEMMA SuperStays ==
    ASSUME RolesInv, NEW h \in Handlers, WritesTo(h), act[h].want.op # "leave",
           ~Demotes(act[h].want),
           act[h].want.op = "revoke" => "super_admin" \notin act[h].want.roles,
           act[h].want.target \in ActiveSupers
    PROVE  act[h].want.target \in ActiveSupers'
<1> DEFINE w == act[h].want
           t == w.target
           new == Written(w, tx[h], user[t])
<1>1. Valid(w) /\ w.op \in TargetOps /\ MaySay(w, tx[h]) /\ t \in Users /\ tx[h] \in TxType
  BY DEF WritesTo, MaySay
<1>2. user'[t] = new
  BY <1>1 DEF WritesTo, RolesInv, RolesTypeOK
<1>3. user[t].state = "live" /\ user[t].active /\ "super_admin" \in user[t].roles
  BY DEF ActiveSupers, IsSuper, LiveActive, Live
<1>4. w.active \in {"same", "on", "off"}
  BY <1>1 DEF Valid, Wants
<1>5. new.state = "live" /\ new.active /\ "super_admin" \in new.roles
  <2>1. w.op # "create"
    BY <1>1, <1>3, WrittenAdmins
  <2>2. CASE w.op = "update"
    <3>1. /\ new.state = user[t].state /\ new.roles = user[t].roles
          /\ new.active = IF w.active = "same" THEN user[t].active ELSE w.active = "on"
      BY <1>1, <2>2, WrittenAdmins
    <3>2. w.active # "off"
      BY <2>2 DEF Demotes
    <3>3. QED
      BY <1>3, <1>4, <3>1, <3>2
  <2>3. CASE w.op \in {"replace", "assign", "revoke"}
    <3>1. /\ new.state = user[t].state /\ new.active = user[t].active
          /\ w.op = "replace" => new.roles = (user[t].roles \ tx[h].gone) \cup tx[h].left
          /\ w.op = "assign" => \E r \in w.roles : new.roles = user[t].roles \cup {r}
          /\ w.op = "revoke" => new.roles = user[t].roles \ tx[h].gone
      BY <1>1, <2>3, WrittenAdmins
    <3>2. /\ w.op = "replace" => w.roles \cap tx[h].gone \subseteq tx[h].left
          /\ w.op = "revoke" => tx[h].gone \subseteq w.roles
      BY <1>1 DEF MaySay, Fits, Transacts
    <3>3. w.op = "replace" => "super_admin" \in w.roles
      BY DEF Demotes
    <3>4. QED
      BY <1>3, <2>3, <3>1, <3>2, <3>3
  <2>4. QED
    BY <1>1, <2>1, <2>2, <2>3 DEF Demotes, TargetOps
<1> HIDE DEF new, t
<1>6. QED
  BY <1>1, <1>2, <1>5 DEF ActiveSupers, IsSuper, LiveActive, Live, t

LEMMA WriteLeavesASuper ==
    ASSUME RolesInv, NEW h \in Handlers, WritesTo(h)
    PROVE  LastSuperAdminStays
<1> DEFINE w == act[h].want
           t == w.target
<1>1. SUFFICES ASSUME ActiveSupers # {}, ActiveSupers' = {}, w.op # "leave",
                      act[h].seen \ ActiveSupers = {}, act[h].super
               PROVE  FALSE
  <2>1. Writes(h, t) /\ t \in Users
    BY DEF Writes, WritesTo
  <2>2. QED
    BY <2>1 DEF LastSuperAdminStays
<1>2. \A u \in Users : u # t => user'[u] = user[u]
  BY DEF WritesTo, RolesInv, RolesTypeOK
<1>3. ActiveSupers \subseteq {t}
  <2>1. ASSUME NEW u \in ActiveSupers, u # t
        PROVE  u \in ActiveSupers'
    <3>1. u \in Users /\ user'[u] = user[u]
      BY <1>2, <2>1 DEF ActiveSupers
    <3>2. QED
      BY <3>1 DEF ActiveSupers, IsSuper, LiveActive, Live
  <2>2. QED
    BY <1>1, <2>1
<1>4. t \in ActiveSupers
  BY <1>1, <1>3
<1>5. Demotes(w) \/ (w.op = "revoke" /\ "super_admin" \in w.roles)
  BY <1>1, <1>4, SuperStays
<1>6. Cardinality(act[h].seen) > 1
  BY <1>1, <1>5 DEF WritesTo, Asked
<1>7. act[h].seen = {} \/ act[h].seen = {t}
  BY <1>1, <1>3
<1>8. Cardinality(act[h].seen) \in {0, 1}
  BY <1>7, FS_EmptySet, FS_Singleton
<1>9. QED
  BY <1>6, <1>8

LEMMA WriteIsGuarded ==
    ASSUME RolesInv, NEW h \in Handlers, WritesTo(h)
    PROVE  SuperAdminsAreGuarded
<1> DEFINE w == act[h].want
           t == w.target
           new == Written(w, tx[h], user[t])
<1>1. /\ Valid(w) /\ w.op \in TargetOps /\ MaySay(w, tx[h]) /\ t \in Users /\ tx[h] \in TxType
      /\ Asked(act[h]) /\ act[h].pc = "change" /\ act'[h].pc # "change"
  BY DEF WritesTo, MaySay
<1>2. user \in [Users -> UserType] /\ act[h] \in ActType
  BY DEF RolesInv, RolesTypeOK
<1>3. user' = [user EXCEPT ![t] = new]
  BY DEF WritesTo, MaySay
<1>4. SuperAsks(act[h]) => ByASuper(h)
  BY DEF SuperAsks, ByASuper, ActorRoles
<1> HIDE DEF new, t
<1>5. SUFFICES ASSUME NEW u \in Users
               PROVE  \/ IsSuper(u)' = IsSuper(u) /\ Live(u)' = Live(u)
                      \/ ~IsSuper(u) /\ ~IsSuper(u)'
                      \/ /\ Writes(h, u)
                         /\ \/ ByASuper(h)
                            \/ IsSuper(u) /\ (~act[h].super \/ act[h].as = {})
                            \/ act[h].want.op = "leave"
  BY DEF SuperAdminsAreGuarded
<1>6. CASE u # t
  <2>1. user'[u] = user[u]
    BY <1>2, <1>3, <1>6
  <2>2. QED
    BY <2>1 DEF IsSuper, Live
<1>7. CASE u = t
  <2>1. Writes(h, u) /\ user'[u] = new
    BY <1>1, <1>2, <1>3, <1>7 DEF Writes, t
  <2>2. CASE IsSuper(u)
    <3>1. act[h].super \in BOOLEAN
      BY <1>2 DEF ActType
    <3>2. ~act[h].super \/ SuperAsks(act[h]) \/ act[h].as = {}
      BY <1>1, <3>1 DEF Asked
    <3>3. QED
      BY <1>4, <2>1, <2>2, <3>2
  <2>3. CASE ~IsSuper(u)
    <3>1. CASE "super_admin" \in new.roles
      <4>1. w.op \in {"replace", "assign"} /\ "super_admin" \in w.roles
        <5>1. w.op = "replace" => tx[h].left \subseteq w.roles
          BY <1>1 DEF MaySay, Fits, Transacts
        <5>2. "super_admin" \notin user[t].roles
          BY <1>7, <2>3 DEF IsSuper
        <5>3. /\ w.op \in {"update", "delete", "leave"} => new.roles = user[t].roles
              /\ w.op = "create" => new.roles = {}
              /\ w.op = "replace" => new.roles = (user[t].roles \ tx[h].gone) \cup tx[h].left
              /\ w.op = "assign" => \E r \in w.roles : new.roles = user[t].roles \cup {r}
              /\ w.op = "revoke" => new.roles = user[t].roles \ tx[h].gone
          BY <1>1, WrittenAdmins DEF new, t
        <5>4. QED
          BY <1>1, <3>1, <5>1, <5>2, <5>3 DEF TargetOps
      <4>2. SuperAsks(act[h])
        BY <1>1, <4>1 DEF Asked
      <4>3. QED
        BY <1>4, <2>1, <4>2
    <3>2. CASE "super_admin" \notin new.roles
      BY <2>1, <2>3, <3>2 DEF IsSuper
    <3>3. QED
      BY <3>1, <3>2
  <2>4. QED
    BY <2>2, <2>3
<1>8. QED
  BY <1>6, <1>7

\* An administrator's mark goes only when an update that has looked before, or
\* a transaction that has not seen a role he has got, writes over it.
Unmarks(h, u) ==
    /\ Writes(h, u)
    /\ (act[h].want.op = "update" /\ act[h].was # user[u].legacy) \/ Unseen(act[h].want, tx[h], user[u])

LEMMA WriteKeepsMark ==
    ASSUME RolesInv, NEW h \in Handlers, WritesTo(h), NEW u \in Users,
           Marked(user[u]), ~Marked(user'[u])
    PROVE  Unmarks(h, u)
<1> DEFINE w == act[h].want
           t == w.target
           new == Written(w, tx[h], user[t])
<1>1. /\ Valid(w) /\ w.op \in TargetOps /\ MaySay(w, tx[h]) /\ t \in Users /\ tx[h] \in TxType
      /\ Asked(act[h]) /\ act[h].pc = "change" /\ act'[h].pc # "change"
  BY DEF WritesTo, MaySay
<1>2. user \in [Users -> UserType]
  BY DEF RolesInv, RolesTypeOK
<1>3. user' = [user EXCEPT ![t] = new]
  BY DEF WritesTo
<1> HIDE DEF new, t
<1>4. u = t /\ user'[u] = new
  BY <1>1, <1>2, <1>3
<1>5. Writes(h, u)
  BY <1>1, <1>4 DEF Writes, t
<1>6. CASE w.op # "update"
  <2>1. Unseen(w, tx[h], user[t])
    BY <1>1, <1>4, <1>6, WrittenAdmins DEF new, t
  <2>2. QED
    BY <1>4, <1>5, <2>1 DEF Unmarks
<1>7. CASE w.op = "update"
  <2>1. /\ new.roles = user[t].roles
        /\ new.legacy = IF w.legacy = "same" THEN user[t].legacy ELSE w.legacy
    BY <1>1, <1>7, WrittenAdmins DEF new, t
  <2>2. user[u].legacy = "ADMIN" /\ w.legacy \notin {"same", "ADMIN"}
    BY <1>4, <2>1 DEF Marked
  <2>3. act[h].was # "ADMIN"
    BY <1>1, <1>7, <2>2 DEF Asked
  <2>4. QED
    BY <1>5, <1>7, <2>2, <2>3 DEF Unmarks
<1>8. QED
  BY <1>6, <1>7

\* A step spares the administrators, or writes to one user as asked, or gives him
\* the role that matches his legacy role.
Matches ==
    \E t \in Users, r \in SystemRoles \ {"super_admin"} : user' = [user EXCEPT ![t] = WithRole(@, r)]

LEMMA WhoWrites ==
    ASSUME RolesNext, user' # user
    PROVE  \E h \in Handlers : Change(h) \/ AssignMatching(h)
<1>1. ASSUME NEW h \in Handlers, HandlerStep(h)
      PROVE  Change(h) \/ AssignMatching(h)
  BY <1>1 DEF HandlerStep, Fetch, Fill, Look, CheckTarget, CountOthers, DeleteRows, SeeRows, Abort, Invalidate
<1>2. ASSUME NEW h, NEW n, NEW w
      PROVE  ~EnterAlone(h, n, w) /\ \A a : ~Enter(h, n, a, w)
  BY DEF EnterAlone, Enter
<1>3. ASSUME NEW n
      PROVE  ~Die(n) /\ \A u : ~Deliver(n, u) /\ ~Expire(n, u)
  BY DEF Die, Deliver, Expire
<1>4. QED
  BY <1>1, <1>2, <1>3 DEF RolesNext, RolesStep

LEMMA WaysToWrite ==
    ASSUME RolesInv, RolesNext
    PROVE  SparesAdmins \/ Matches \/ \E h \in Handlers : WritesTo(h)
<1>1. CASE user' = user
  BY <1>1 DEF SparesAdmins
<1>2. CASE \E h \in Handlers : Change(h)
  <2>1. PICK h \in Handlers : Change(h)
    BY <1>2
  <2> DEFINE w == act[h].want
  <2>2. /\ RolesTypeOK /\ Asked(act[h]) /\ act[h].pc = "change"
        /\ tx[h] \in TxType /\ Fits(w, tx[h])
    BY <2>1 DEF RolesInv, RolesTypeOK, TxFine, Change
  <2>3. Valid(w) /\ w.target \in Users /\ (w.op = "role delete" => w.roles \cap SystemRoles = {})
    BY <2>2 DEF Asked, Valid, Wants
  <2>4. /\ user' = user \/ (~WriteFails(w) /\ Statement(w, tx[h]))
        /\ act'[h].pc # "change" /\ MayWrite(h)
    BY <2>1, <2>2, <2>3, ChangeOutcome, FreeTyped DEF AfterChange
  <2>5. CASE ~WriteFails(w) /\ Statement(w, tx[h])
    <3>1. CASE w.op \in TargetOps
      <4>1. w.op \notin RoleOps
        BY <3>1 DEF TargetOps, RoleOps
      <4>2. user' = [user EXCEPT ![w.target] = Written(w, tx[h], @)]
        BY <2>5, <4>1 DEF Statement, RoleOps
      <4>3. MaySay(w, tx[h])
        BY <2>2, <2>3, <2>4, <2>5, <3>1 DEF MaySay, MayWrite
      <4>4. QED
        BY <2>2, <2>3, <2>4, <4>2, <4>3 DEF WritesTo
    <3>2. CASE w.op \notin TargetOps
      BY <2>3, <2>5, <3>2, RoleOpsSpare
    <3>3. QED
      BY <3>1, <3>2
  <2>6. QED
    BY <1>1, <2>4, <2>5
<1>3. CASE \E h \in Handlers : AssignMatching(h)
  <2>1. PICK h \in Handlers : AssignMatching(h)
    BY <1>3
  <2> DEFINE w == act[h].want
             r == RoleFor(w.legacy)
  <2>2. Asked(act[h]) /\ act[h].pc = "assign"
    BY <2>1 DEF RolesInv, AssignMatching
  <2>3. w.target \in Users
    BY <2>2 DEF Asked, Valid, Wants
  <2>4. r \in {"admin", "viewer", "crawler_user"}
        /\ user' = [user EXCEPT ![w.target] = WithRole(@, r)]
    BY <2>1, AssignOutcome
  <2>5. r \in SystemRoles \ {"super_admin"}
    BY <2>4 DEF SystemRoles
  <2> HIDE DEF r
  <2>6. QED
    BY <2>3, <2>4, <2>5 DEF Matches
<1>4. QED
  BY <1>1, <1>2, <1>3, WhoWrites

LEMMA MatchesSpares ==
    ASSUME RolesInv, Matches
    PROVE  /\ LastSuperAdminStays /\ SuperAdminsAreGuarded
           /\ \A u \in Users : Marked(user[u]) => Marked(user'[u])
<1>1. PICK t \in Users, r \in SystemRoles \ {"super_admin"} :
         user' = [user EXCEPT ![t] = WithRole(@, r)]
  BY DEF Matches
<1> DEFINE new == WithRole(user[t], r)
<1>2. user \in [Users -> UserType] /\ r \in Slugs
  BY DEF RolesInv, RolesTypeOK, Slugs
<1>3. /\ new.state = user[t].state /\ new.active = user[t].active
      /\ new.roles = user[t].roles \cup {r}
      /\ new.legacy = IF r \in {"super_admin", "admin"} THEN "ADMIN" ELSE user[t].legacy
  BY <1>2, WithRoleTyped
<1>4. \A u \in Users : user'[u] = IF u = t THEN new ELSE user[u]
  BY <1>1, <1>2
<1> HIDE DEF new
<1>5. \A u \in Users : /\ "super_admin" \in user'[u].roles <=> "super_admin" \in user[u].roles
                       /\ user'[u].state = user[u].state /\ user'[u].active = user[u].active
  BY <1>3, <1>4
<1>6. \A u \in Users : (IsSuper(u)' = IsSuper(u)) /\ (Live(u)' = Live(u))
  BY <1>5 DEF IsSuper, Live
<1>7. SuperAdminsAreGuarded
  BY <1>6 DEF SuperAdminsAreGuarded
<1>8. ActiveSupers' = ActiveSupers
  BY <1>5 DEF ActiveSupers, IsSuper, LiveActive, Live
<1>9. \A u \in Users : Marked(user[u]) => Marked(user'[u])
  BY <1>3, <1>4 DEF Marked, AdminRoles
<1>10. QED
  BY <1>7, <1>8, <1>9 DEF LastSuperAdminStays

\* In whatever order the handlers of administrators look and write, a super
\* administrator stays, and only super administrators make, unmake and delete
\* one, but for those cases the code lets through: who leaves by himself, what a
\* look before the write cannot see, and an actor without roles who deletes.
THEOREM SuperAdminsSafe == RolesSpec => SuperAdminsAreSafe
<1>1. RolesInv /\ [RolesNext]_roleVars => [LastSuperAdminStays /\ SuperAdminsAreGuarded]_roleVars
  BY WaysToWrite, SparedAreSafe, MatchesSpares, WriteLeavesASuper, WriteIsGuarded
<1>2. QED
  BY <1>1, RolesTypeCorrect, PTL DEF RolesSpec, SuperAdminsAreSafe

\* Who has the role of an administrator keeps the legacy role that goes with it,
\* however the transactions that give and take roles come between each other's
\* statements, unless an update that has looked at it before writes over it, or a
\* transaction that has not seen a role the user has got since.
THEOREM AdminsMarked == RolesSpec => AdminsAreMarked
<1> DEFINE Kept ==
       \A u \in Users : Marked(user[u]) /\ ~Marked(user'[u]) => \E h \in Handlers : Unmarks(h, u)
<1>1. RolesInv /\ [RolesNext]_roleVars => [Kept]_roleVars
  BY WaysToWrite, SparedAreMarked, MatchesSpares, WriteKeepsMark
<1>2. [Kept]_roleVars =>
         [\A u \in Users :
            LET marked == user[u].roles \cap {"super_admin", "admin"} # {} => user[u].legacy = "ADMIN"
            IN  marked /\ ~marked' =>
                   \E h \in Handlers :
                      /\ Writes(h, u)
                      /\ \/ act[h].want.op = "update" /\ act[h].was # user[u].legacy
                         \/ /\ act[h].want.op = "replace"
                            /\ ~(user[u].roles \subseteq tx[h].gone \cup act[h].want.roles)
                         \/ /\ act[h].want.op = "revoke"
                            /\ ~(user[u].roles \subseteq tx[h].gone \cup tx[h].left)]_roleVars
  BY DEF Marked, AdminRoles, Unmarks, Unseen
<1>3. QED
  BY <1>1, <1>2, RolesTypeCorrect, PTL DEF RolesSpec, AdminsAreMarked

=============================================================================

------------------------------ MODULE Sessions ------------------------------
(***************************************************************************)
(* One user account and its sessions: the row of the user, the refresh      *)
(* tokens stored for it, the list of revoked access tokens, the mails that   *)
(* carry a token, and the handlers of auth.service.ts that several requests *)
(* run at once in several processes.  A step is what happens from one await *)
(* to the next.                                                             *)
(*                                                                         *)
(* Tokens are named by the second they were issued in: the access and the   *)
(* refresh token of one user that are signed in one second are each one     *)
(* string, and the column of the refresh token is unique.                   *)
(***************************************************************************)
EXTENDS Naturals, FiniteSets

CONSTANTS
    Requests,      \* the handler executions
    Procs,         \* the Node processes
    Loads,         \* what goes on in a behaviour: handlers in use, what may
                   \* go wrong, and the last second
    MaxTime,       \* bound on the seconds that pass
    MaxPasswords,  \* bound on the passwords the user has had
    MaxLogins,     \* bound on the sessions that begin
    AccessLife,    \* jwtConfig.accessExpiresIn
    RefreshLife,   \* jwtConfig.refreshExpiresIn
    MarkLife       \* ttlSeconds of the blocklist

\* Handlers of the user, and what an administrator may do.
UserOps == {"login", "refresh", "logout", "use", "change", "reset", "confirm"}
AdminOps == {"lock", "remove"}

ASSUME SessionConstants ==
    /\ Procs # {}
    /\ \A l \in Loads : /\ l.ops \subseteq UserOps \cup AdminOps
                        /\ l.faults \subseteq {"redis", "restart"}
                        /\ l.until \in 1..MaxTime
    /\ MaxTime \in Nat \ {0}
    /\ MaxPasswords \in Nat \ {0}
    /\ MaxLogins \in Nat \ {0}
    /\ AccessLife \in Nat \ {0}
    /\ RefreshLife \in Nat \ {0}
    /\ MarkLife \in Nat \ {0}
    /\ AccessLife <= MarkLife

VARIABLES
    load,       \* one of Loads, for good
    account,    \* the row of the user
    stored,     \* refresh_tokens
    list,       \* the revoked access tokens
    mailed,     \* a token bound to the present password was sent by mail
    now,        \* the second it is
    req,        \* the handler executions
    origin,     \* history: of each token, the login and the password behind it
    logins,     \* history: how many sessions have begun
    ended,      \* history: the logins whose session was logged out
    forked,     \* history: the logins that a refresh goes on with although its
                \* token was deleted, or made again, after it had found it
    leaked,     \* history: the stored tokens that were saved by a handler that
                \* had looked before they were to be deleted
    floor,      \* history: tokens issued before it were all revoked
    lost        \* history: why a revocation is not complete

vars == <<load, account, stored, list, mailed, now, req, origin, logins, ended, forked, leaked, floor, lost>>
history == <<origin, logins, ended, forked, leaked, floor, lost>>

Seconds == 1..MaxTime
Passwords == 1..MaxPasswords

Blocklist == INSTANCE TokenBlocklist

-----------------------------------------------------------------------------
(* Shapes *)

\* A password is named by its hash, which is new at every change.  key is the
\* password under which the API key was last made active, 0 when it is not.
AccountType == [deleted : BOOLEAN, active : BOOLEAN, pwd : Passwords,
                key : 0..MaxPasswords]

PCs == {"idle", "read", "find", "user", "delete", "drop", "sign", "save", "write",
        "purge", "keys", "mark", "revoke", "mark again", "block", "check",
        "owner", "effect", "leave"}

\* tok is the token the request brings, iat the second it signs its own in,
\* pwd the password that vouches for it, root the login it goes on with, late
\* whether what it looked at has been deleted since.
ReqType == [pc : PCs, op : UserOps, home : Procs, tok : 0..MaxTime,
            iat : 0..MaxTime, pwd : 0..MaxPasswords, root : 0..MaxLogins,
            late : BOOLEAN, floor : 0..MaxTime + 1, blocked : BOOLEAN]

Request(op, pc, p, tok) ==
    [pc |-> pc, op |-> op, home |-> p, tok |-> tok, iat |-> 0, pwd |-> 0, root |-> 0,
     late |-> FALSE, floor |-> 0, blocked |-> FALSE]
Idle == Request("login", "idle", CHOOSE p \in Procs : TRUE, 0)

Answers == {TRUE} \cup (IF "redis" \in load.faults THEN {FALSE} ELSE {})

Missed(answers) == IF answers THEN lost ELSE lost \cup {"redis"}

\* The mark of a reset is one second ahead, and a later mark of that second
\* takes its place.
Lowered(answers, second) == IF answers /\ second < floor THEN {"lowered"} ELSE {}

-----------------------------------------------------------------------------
(* Statements of auth.repository.ts, as values *)

\* findById and findByEmail hide deleted users; their callers refuse users
\* that are not active.
LiveAndActive == ~account.deleted /\ account.active

\* deactivateUser, and delete of user.repository.ts: in one transaction the
\* user, the refresh tokens and the API keys.
Deactivated(a) == [a EXCEPT !.deleted = TRUE, !.active = FALSE, !.key = 0]

-----------------------------------------------------------------------------
(* Steps of a request *)

Becomes(r, new) == req' = [req EXCEPT ![r] = new]
Goto(r, pc) == Becomes(r, [req[r] EXCEPT !.pc = pc])
Done(r) == Becomes(r, Idle)

\* Requests that have looked at a password or a token already.
UnderWay == {q \in Requests : req[q].op \in {"login", "refresh", "change"} /\ req[q].pwd # 0}

\* What these requests have looked at is deleted now.
Overtaken(S) == [q \in Requests |-> IF q \in S THEN [req[q] EXCEPT !.late = TRUE] ELSE req[q]]

Unchanged == UNCHANGED <<account, stored, list, mailed, now>> /\ UNCHANGED history

\* A request comes in.
Start(r, request) ==
    /\ req[r].pc = "idle" /\ request.op \in load.ops
    /\ Becomes(r, request)
    /\ Unchanged

\* login and change bring the password, reset and confirm a token that was
\* sent by mail, the others a token that somebody was given in second t; a
\* JWT's signature and life are checked before the first await.
Begin(r, p) ==
    \/ \E op \in {"login", "change"} : Start(r, Request(op, "read", p, 0))
    \/ \E op \in {"reset", "confirm"} :
          mailed /\ Start(r, [Request(op, "read", p, 0) EXCEPT !.pwd = account.pwd])
    \/ \E t \in Seconds :
          /\ origin[t].pwd # 0
          /\ \/ Start(r, Request("refresh", IF now < t + RefreshLife THEN "find" ELSE "drop",
                                p, t))
             \/ Start(r, Request("logout", "drop", p, t))
             \/ /\ now < t + AccessLife
                /\ Start(r, [Request("use", "block", p, t) EXCEPT !.floor = floor,
                                !.blocked = t \in list.redis.blocked])

\* The user is read, and what it says is compared with what the request
\* brings: login and change know the password, a token sent by mail was made
\* with one.
Read(r) ==
    LET stale == req[r].op \in {"reset", "confirm"} /\ req[r].pwd # account.pwd
        next == CASE req[r].op = "login" -> "sign"
                  [] req[r].op = "confirm" -> "leave"
                  [] OTHER -> "write"
    IN  /\ req[r].pc = "read"
        /\ IF LiveAndActive /\ ~stale
           THEN Becomes(r, [req[r] EXCEPT !.pc = next, !.pwd = account.pwd])
           ELSE Done(r)
        /\ Unchanged

\* refresh: findRefreshToken.
Find(r) ==
    LET t == req[r].tok
    IN  /\ req[r].pc = "find"
        /\ IF t \in stored
           THEN Becomes(r, [req[r] EXCEPT !.pc = "user", !.pwd = origin[t].pwd,
                                          !.root = origin[t].root, !.late = t \in leaked])
           ELSE Done(r)
        /\ Unchanged

\* refresh: findById, and the new tokens are signed.
User(r) ==
    /\ req[r].pc = "user"
    /\ IF LiveAndActive
       THEN Becomes(r, [req[r] EXCEPT !.pc = "delete", !.iat = now])
       ELSE Done(r)
    /\ Unchanged

\* Seeded fault: the token that was exchanged stays.
DeleteNothing(r) ==
    /\ req[r].pc = "delete"
    /\ Goto(r, "save")
    /\ Unchanged

\* refresh: deleteRefreshToken, which does not say whether there was one.
Delete(r) ==
    LET t == req[r].tok
    IN  /\ req[r].pc = "delete"
        /\ stored' = stored \ {t}
        /\ forked' = IF t \in stored /\ origin[t].root = req[r].root
                     THEN forked ELSE forked \cup {req[r].root}
        /\ Becomes(r, [req[r] EXCEPT !.pc = "save", !.tok = 0])
        /\ leaked' = leaked \ {t}
        /\ UNCHANGED <<account, list, mailed, now, origin, logins, ended, floor, lost>>

\* deleteRefreshToken of a logout, or for a token that has expired.
Drop(r) ==
    LET t == req[r].tok
        out == req[r].op = "logout"
    IN  /\ req[r].pc = "drop"
        /\ stored' = stored \ {t}
        /\ leaked' = leaked \ {t}
        /\ ended' = IF out /\ t \in stored THEN ended \cup {origin[t].root} ELSE ended
        /\ IF out THEN Goto(r, "mark") ELSE Done(r)
        /\ UNCHANGED <<account, list, mailed, now, origin, logins, forked, floor, lost>>

\* login, and change after its mark: the tokens are signed.
Sign(r) ==
    /\ req[r].pc = "sign" /\ logins < MaxLogins
    /\ logins' = logins + 1
    /\ Becomes(r, [req[r] EXCEPT !.pc = "save", !.iat = now, !.root = logins + 1])
    /\ UNCHANGED <<account, stored, list, mailed, now, origin, ended, forked, leaked, floor, lost>>

\* saveRefreshToken, which fails when the same token is stored already.
Save(r) ==
    LET t == req[r].iat
    IN  /\ req[r].pc = "save"
        /\ IF t \in stored
           THEN UNCHANGED <<stored, origin, leaked>>
           ELSE /\ stored' = stored \cup {t}
                /\ origin' = [origin EXCEPT ![t] = [root |-> req[r].root, pwd |-> req[r].pwd]]
                /\ leaked' = IF req[r].late THEN leaked \cup {t} ELSE leaked \ {t}
        /\ Done(r)
        /\ UNCHANGED <<account, list, mailed, now, logins, ended, forked, floor, lost>>

\* change and reset: updateUser with the new password.
Write(r) ==
    /\ req[r].pc = "write" /\ account.pwd < MaxPasswords
    /\ account' = [account EXCEPT !.pwd = @ + 1]
    /\ mailed' = FALSE
    /\ Becomes(r, [req[r] EXCEPT !.pc = "purge", !.pwd = account.pwd + 1])
    /\ UNCHANGED <<stored, list, now>> /\ UNCHANGED history

\* Seeded fault: the sessions of the former password stay.
PurgeNothing(r) ==
    /\ req[r].pc = "purge"
    /\ Goto(r, "keys")
    /\ Unchanged

\* deleteUserRefreshTokens
Purge(r) ==
    /\ req[r].pc = "purge"
    /\ stored' = {} /\ leaked' = {}
    /\ req' = [Overtaken({q \in UnderWay \ {r} : req[q].pwd # account.pwd})
                  EXCEPT ![r] = [req[r] EXCEPT !.pc = "keys"]]
    /\ UNCHANGED <<account, list, mailed, now, origin, logins, ended, forked, floor, lost>>

\* deactivateUserApiKeys
Keys(r) ==
    /\ req[r].pc = "keys"
    /\ account' = [account EXCEPT !.key = 0]
    /\ Goto(r, "mark")
    /\ UNCHANGED <<stored, list, mailed, now>> /\ UNCHANGED history

\* revokeUserTokens: a reset revokes what is issued in this second as well.
Mark(r) ==
    LET second == IF req[r].op = "reset" THEN now + 1 ELSE now
    IN  /\ req[r].pc \in {"mark", "mark again"}
        /\ \E answers \in Answers :
              /\ list' = Blocklist!RevokeUserTokens(list, req[r].home, second, answers)
              /\ floor' = IF answers /\ second > floor THEN second ELSE floor
              /\ lost' = Missed(answers) \cup Lowered(answers, second)
        /\ CASE req[r].pc = "mark" /\ req[r].op = "logout" -> Goto(r, "revoke")
             [] req[r].op = "change" -> Goto(r, "sign")
             [] OTHER -> Done(r)
        /\ UNCHANGED <<account, stored, mailed, now, origin, logins, ended, forked, leaked>>

\* logout: revokeToken.
Revoke(r) ==
    /\ req[r].pc = "revoke"
    /\ \E answers \in Answers :
          /\ list' = Blocklist!RevokeToken(list, req[r].home, req[r].tok, answers)
          /\ lost' = Missed(answers)
    /\ Goto(r, "mark again")
    /\ UNCHANGED <<account, stored, mailed, now, origin, logins, ended, forked, leaked, floor>>

\* authMiddleware: isTokenRevoked in its two parts, then findById.
Block(r) ==
    /\ req[r].pc = "block"
    /\ \E answers \in Answers :
          /\ IF Blocklist!IsBlocked(list, req[r].home, req[r].tok, answers)
             THEN Done(r) ELSE Goto(r, "check")
          /\ lost' = Missed(answers)
    /\ UNCHANGED <<account, stored, list, mailed, now, origin, logins, ended, forked, leaked, floor>>

Check(r) ==
    /\ req[r].pc = "check"
    /\ \E answers \in Answers :
          /\ IF Blocklist!IsMarked(list, req[r].home, req[r].tok, answers)
             THEN Done(r) ELSE Goto(r, "owner")
          /\ lost' = Missed(answers)
    /\ UNCHANGED <<account, stored, list, mailed, now, origin, logins, ended, forked, leaked, floor>>

Owner(r) ==
    /\ req[r].pc = "owner"
    /\ IF LiveAndActive THEN Goto(r, "effect") ELSE Done(r)
    /\ Unchanged

\* What the user may do when let in; of these, creating an API key or making
\* it active again, or inactive, matters here.
Effect(r) ==
    /\ req[r].pc = "effect"
    /\ \E k \in {0, account.pwd} : account' = [account EXCEPT !.key = k]
    /\ Done(r)
    /\ UNCHANGED <<stored, list, mailed, now>> /\ UNCHANGED history

\* confirmDeactivation: deactivateUser.  Whether the last administrator may
\* leave is a question of its own.
Leave(r) ==
    /\ req[r].pc = "leave"
    /\ account' = Deactivated(account)
    /\ stored' = {} /\ leaked' = {}
    /\ req' = [Overtaken(UnderWay) EXCEPT ![r] = Idle]
    /\ UNCHANGED <<list, mailed, now, origin, logins, ended, forked, floor, lost>>

RequestStep(r) ==
    \/ Read(r) \/ Find(r) \/ User(r) \/ Delete(r) \/ Drop(r) \/ Sign(r) \/ Save(r)
    \/ Write(r) \/ Purge(r) \/ Keys(r) \/ Mark(r) \/ Revoke(r)
    \/ Block(r) \/ Check(r) \/ Owner(r) \/ Effect(r) \/ Leave(r)

-----------------------------------------------------------------------------
(* Handlers of a single step, administrators, time *)

\* forgotPassword and requestDeactivation read the user and send a token whose
\* secret has the password in it.  It expires, and is of no use to anybody once
\* the password has changed.
SendToken ==
    /\ LiveAndActive /\ load.ops \cap {"reset", "confirm"} # {}
    /\ mailed' = TRUE
    /\ UNCHANGED <<account, stored, list, now, req>> /\ UNCHANGED history

TokenExpires ==
    /\ mailed' = FALSE
    /\ UNCHANGED <<account, stored, list, now, req>> /\ UNCHANGED history

\* An administrator locks the account or opens it, verifyEmail opens it: the
\* tokens stay.
SetActive(b) ==
    /\ "lock" \in load.ops /\ ~account.deleted
    /\ account' = [account EXCEPT !.active = b]
    /\ UNCHANGED <<stored, list, mailed, now, req>> /\ UNCHANGED history

\* An administrator deletes the user.
AdminDelete ==
    /\ "remove" \in load.ops /\ ~account.deleted
    /\ account' = Deactivated(account)
    /\ stored' = {} /\ leaked' = {}
    /\ req' = Overtaken(UnderWay)
    /\ UNCHANGED <<list, mailed, now, origin, logins, ended, forked, floor, lost>>

\* cleanupExpiredTokens of the cron jobs.
CleanUp ==
    /\ stored' = {t \in stored : now < t + RefreshLife}
    /\ leaked' = leaked \cap stored'
    /\ UNCHANGED <<account, list, mailed, now, req, origin, logins, ended, forked, floor, lost>>

Lapse ==
    /\ list' = Blocklist!Lapsed(list, now)
    /\ UNCHANGED <<account, stored, mailed, now, req>> /\ UNCHANGED history

\* A password is written and what it replaces is not revoked yet.
Revoking(r) == req[r].pc \in {"purge", "keys", "mark", "revoke", "mark again"}

\* A process dies and starts again.
Restart(p) ==
    /\ "restart" \in load.faults
    /\ list' = Blocklist!Restarted(list, p)
    /\ req' = [r \in Requests |-> IF req[r].home = p THEN Idle ELSE req[r]]
    /\ lost' = IF \E r \in Requests : req[r].home = p /\ Revoking(r)
               THEN lost \cup {"crash"} ELSE lost
    /\ UNCHANGED <<account, stored, mailed, now, origin, logins, ended, forked, leaked, floor>>

Tick ==
    /\ now < load.until
    /\ now' = now + 1
    /\ UNCHANGED <<account, stored, list, mailed, req>> /\ UNCHANGED history

-----------------------------------------------------------------------------
Init ==
    /\ load \in Loads
    /\ account = [deleted |-> FALSE, active |-> TRUE, pwd |-> 1, key |-> 0]
    /\ stored = {}
    /\ list = Blocklist!EmptyList
    /\ mailed = FALSE
    /\ now = 1
    /\ req = [r \in Requests |-> Idle]
    /\ origin = [t \in Seconds |-> [root |-> 0, pwd |-> 0]]
    /\ logins = 0 /\ ended = {} /\ forked = {} /\ leaked = {} /\ floor = 0 /\ lost = {}

Step ==
    \/ \E r \in Requests : RequestStep(r) \/ \E p \in Procs : Begin(r, p)
    \/ SendToken \/ TokenExpires
    \/ \E b \in BOOLEAN : SetActive(b)
    \/ AdminDelete \/ CleanUp \/ Lapse \/ Tick
    \/ \E p \in Procs : Restart(p)

Next == Step /\ UNCHANGED load

Spec == Init /\ [][Next]_vars

-----------------------------------------------------------------------------
(* Properties *)

TypeOK ==
    /\ load \in Loads
    /\ account \in AccountType
    /\ stored \subseteq Seconds
    /\ list \in Blocklist!ListType
    /\ mailed \in BOOLEAN
    /\ now \in Seconds
    /\ req \in [Requests -> ReqType]
    /\ origin \in [Seconds -> [root : 0..MaxLogins, pwd : 0..MaxPasswords]]
    /\ logins \in 0..MaxLogins /\ ended \subseteq 1..MaxLogins
    /\ forked \subseteq 1..MaxLogins /\ leaked \subseteq stored
    /\ floor \in Blocklist!Marks
    /\ lost \subseteq {"redis", "crash", "lowered"}

\* Whoever is let in (authMiddleware) brings a token that was not revoked when
\* the request came in: it was not blocked by a logout, and it was issued in or
\* after the second of the latest mark of a logout, a change or a reset.  Only
\* when a later mark has lowered that of a reset may a token of the second of
\* the reset itself be let in again, and no older one.
RevokedAreRefused ==
    \A r \in Requests :
        req[r].pc = "effect" /\ lost \subseteq {"lowered"} /\ now < req[r].tok + AccessLife =>
            /\ ~req[r].blocked
            /\ req[r].tok + 1 >= req[r].floor
            /\ "lowered" \notin lost => req[r].tok >= req[r].floor

\* Once changePassword or resetPassword has deleted the refresh tokens and the
\* API keys, every refresh token that is stored goes back to a login with the
\* present password of a user who is not deleted, and the API key was made
\* active under it; but for the tokens of handlers that were under way.
OldSessionsEnd ==
    (\A r \in Requests : req[r].pc \notin {"purge", "keys"}) /\ "crash" \notin lost =>
        /\ \A t \in stored \ leaked :
              ~account.deleted /\ origin[t].pwd = account.pwd
        /\ account.key \in {0, account.pwd}

\* A login has one refresh token at a time, and none after its logout: refresh
\* exchanges tokens, it does not add to them.  Left out are the logins of which
\* a refresh, between its find and its delete, lost the token to anybody: to a
\* second refresh with the token, a logout, a change of the password, the
\* removal of the user, the clean-up, or a login that had the same token made.
SessionsEndOnce ==
    \A s, t \in stored :
        origin[t].root \notin forked =>
            /\ origin[t].root \notin ended
            /\ s # t => origin[s].root # origin[t].root
=============================================================================

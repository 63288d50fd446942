---------------------------- MODULE Registration ----------------------------
(***************************************************************************)
(* The account of one e-mail address before anybody uses it: register,      *)
(* resendVerificationEmail and verifyEmail of auth.service.ts, several at   *)
(* once, and what an administrator does to the row meanwhile.  register     *)
(* takes its row back when the mail does not go out, but the mail server    *)
(* may have delivered what it reports as failed.  A step is what happens    *)
(* from one await to the next.                                              *)
(***************************************************************************)
EXTENDS Naturals

CONSTANTS
    Callers,   \* handler executions
    MaxRows,   \* bound on the rows that one address has had
    MaxMails   \* bound on the mails that are sent

ASSUME RegistrationConstants == MaxRows \in Nat \ {0} /\ MaxMails \in Nat \ {0}

VARIABLES
    person,     \* the row of users with the address
    call,       \* the handlers
    rowsMade,   \* ids that were given out
    mails,      \* verification mails that have been sent
    linked,     \* the client has the link of one of them: it names the address alone
    confirmed,  \* history: the rows that a link or an administrator has activated
    suspended   \* history: those an administrator has locked or removed since

registrationVars == <<person, call, rowsMade, mails, linked, confirmed, suspended>>

Ids == 1..MaxRows
CallOps == {"register", "resend", "verify"}
NoCall == [pc |-> "idle", op |-> "register", id |-> 0, own |-> FALSE]
NoPerson == [id |-> 0, active |-> FALSE, deleted |-> FALSE]

\* own: the handler has created the row it sends a mail for.
CallType == [pc : {"idle", "find", "create", "send", "roll back", "activate"},
             op : CallOps, id : 0..MaxRows, own : BOOLEAN]

RegistrationTypeOK ==
    /\ person \in [id : 0..MaxRows, active : BOOLEAN, deleted : BOOLEAN]
    /\ call \in [Callers -> CallType]
    /\ rowsMade \in 0..MaxRows /\ mails \in 0..MaxMails /\ linked \in BOOLEAN
    /\ confirmed \subseteq Ids /\ suspended \subseteq Ids

RegistrationInit ==
    /\ person = NoPerson /\ call = [c \in Callers |-> NoCall]
    /\ rowsMade = 0 /\ mails = 0 /\ linked = FALSE
    /\ confirmed = {} /\ suspended = {}

-----------------------------------------------------------------------------
CallTo(c, pc) == call' = [call EXCEPT ![c].pc = pc]
Ended(c) == call' = [call EXCEPT ![c] = NoCall]

HasRow == person.id # 0

\* isRegistrationEnabled comes first; verify has checked its token.
Call(c, op) ==
    /\ call[c].pc = "idle" /\ (op = "verify" => linked)
    /\ call' = [call EXCEPT ![c] = [NoCall EXCEPT !.pc = "find", !.op = op]]
    /\ UNCHANGED <<person, rowsMade, mails, linked, confirmed, suspended>>

\* A registration finds deleted users as well, and refuses; a row that is not active
\* is sent its mail again, be it new or locked.
FindPerson(c) ==
    LET GoesOn == HasRow /\ ~person.active /\ ~person.deleted
    IN  /\ call[c].pc = "find"
        /\ CASE GoesOn ->
                   call' = [call EXCEPT ![c].id = person.id,
                                ![c].pc = IF call[c].op = "verify" THEN "activate" ELSE "send"]
             [] ~HasRow /\ call[c].op = "register" -> CallTo(c, "create")
             [] OTHER -> Ended(c)
        /\ UNCHANGED <<person, rowsMade, mails, linked, confirmed, suspended>>

\* The address is unique, that of a deleted user too.
CreateUser(c) ==
    /\ call[c].pc = "create"
    /\ IF HasRow THEN Ended(c) /\ UNCHANGED <<person, rowsMade>>
       ELSE /\ rowsMade < MaxRows /\ rowsMade' = rowsMade + 1
            /\ person' = [NoPerson EXCEPT !.id = rowsMade']
            /\ call' = [call EXCEPT ![c] =
                            [@ EXCEPT !.pc = "send", !.id = rowsMade', !.own = TRUE]]
    /\ UNCHANGED <<mails, linked, confirmed, suspended>>

\* The mail may arrive whatever the mail server answers.
SendVerificationEmail(c) ==
    /\ call[c].pc = "send" /\ mails < MaxMails /\ mails' = mails + 1
    /\ \/ Ended(c) /\ linked' = TRUE
       \/ /\ IF call[c].own THEN CallTo(c, "roll back") ELSE Ended(c)
          /\ linked' \in {linked, TRUE}
    /\ UNCHANGED <<person, rowsMade, confirmed, suspended>>

\* Seeded fault: the row is deleted whatever has become of it.
DeleteUser(id) == person' = IF person.id = id THEN NoPerson ELSE person

DeleteUnverifiedUser(id) ==
    person' = IF person.id = id /\ ~person.active THEN NoPerson ELSE person

RollBack(c) ==
    /\ call[c].pc = "roll back"
    /\ DeleteUnverifiedUser(call[c].id)
    /\ Ended(c)
    /\ UNCHANGED <<rowsMade, mails, linked, confirmed, suspended>>

Activate(id) ==
    /\ person' = [person EXCEPT !.active = TRUE]
    /\ confirmed' = confirmed \cup {id}
    /\ suspended' = IF person.deleted THEN suspended ELSE suspended \ {id}

\* The update names the row alone; it rejects when the row is gone.
VerifyEmail(c) ==
    /\ call[c].pc = "activate" /\ Ended(c)
    /\ IF person.id = call[c].id
       THEN Activate(person.id)
       ELSE UNCHANGED <<person, confirmed, suspended>>
    /\ UNCHANGED <<rowsMade, mails, linked>>

-----------------------------------------------------------------------------
(* user.service.ts: an administrator locks, admits or removes the user *)

Suspend ==
    /\ HasRow /\ person.active /\ ~person.deleted
    /\ person' = [person EXCEPT !.active = FALSE]
    /\ suspended' = suspended \cup {person.id}
    /\ UNCHANGED <<call, rowsMade, mails, linked, confirmed>>

Remove ==
    /\ HasRow /\ ~person.deleted
    /\ person' = [person EXCEPT !.active = FALSE, !.deleted = TRUE]
    /\ suspended' = suspended \cup {person.id}
    /\ UNCHANGED <<call, rowsMade, mails, linked, confirmed>>

Admit ==
    /\ HasRow /\ ~person.active /\ ~person.deleted
    /\ Activate(person.id)
    /\ UNCHANGED <<call, rowsMade, mails, linked>>

RegistrationNext ==
    \/ \E c \in Callers :
          \/ \E op \in CallOps : Call(c, op)
          \/ FindPerson(c) \/ CreateUser(c) \/ SendVerificationEmail(c)
          \/ RollBack(c) \/ VerifyEmail(c)
    \/ Suspend \/ Admit \/ Remove

RegistrationSpec == RegistrationInit /\ [][RegistrationNext]_registrationVars

-----------------------------------------------------------------------------
\* A registration that fails takes nobody's account with it: the row of a user who
\* has followed a link, of whichever mail, or was admitted is never deleted, unless
\* an administrator has locked or removed that user since.  And a row that is active
\* was activated itself: none inherits what was confirmed for an earlier row.
VerifiedStay ==
    /\ \A i \in confirmed \ suspended : person.id = i
    /\ person.active => person.id \in confirmed
=============================================================================

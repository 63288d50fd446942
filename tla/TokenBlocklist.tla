--------------------------- MODULE TokenBlocklist ---------------------------
(***************************************************************************)
(* token-blocklist.helper.ts: which access tokens of one user are revoked.  *)
(* Single tokens are blocked by their hash; all tokens issued before a mark *)
(* are revoked by the mark.  Both are kept in Redis, or, when Redis does    *)
(* not answer, in a table of the process that was asked.  A list is a       *)
(* value: the specification that instantiates this module keeps it.         *)
(*                                                                         *)
(* A token is named by the second it was issued in: a JWT of one user with  *)
(* one payload is the same string when it is signed twice in one second.    *)
(***************************************************************************)
EXTENDS Naturals

CONSTANTS Seconds,   \* instants, counted from 1
          Procs,     \* the Node processes
          MarkLife   \* the time to live of both keys, 86400 seconds

\* Second 0 stands for no mark; a reset sets a mark one second ahead.
Marks == {0} \cup Seconds \cup {s + 1 : s \in Seconds}

Table == [blocked : SUBSET Seconds, mark : Marks]
EmptyTable == [blocked |-> {}, mark |-> 0]

ListType == [redis : Table, local : [Procs -> Table]]
EmptyList == [redis |-> EmptyTable, local |-> [p \in Procs |-> EmptyTable]]

\* revokeToken in process p, when Redis answers or not.
RevokeToken(list, p, token, answers) ==
    IF answers
    THEN [list EXCEPT !.redis.blocked = @ \cup {token}]
    ELSE [list EXCEPT !.local[p].blocked = @ \cup {token}]

\* Seeded fault: the mark in milliseconds, as Date.now() gives it.
RevokeUserTokensMillis(list, p, second, answers) ==
    IF answers
    THEN [list EXCEPT !.redis.mark = 1000 * second]
    ELSE [list EXCEPT !.local[p].mark = 1000 * second]

\* Seeded fault: the mark is set only where there is none.
RevokeUserTokensOnce(list, p, second, answers) ==
    IF answers
    THEN IF list.redis.mark = 0 THEN [list EXCEPT !.redis.mark = second] ELSE list
    ELSE [list EXCEPT !.local[p].mark = second]

\* revokeUserTokens: the mark is overwritten, whatever it was.
RevokeUserTokens(list, p, second, answers) ==
    IF answers
    THEN [list EXCEPT !.redis.mark = second]
    ELSE [list EXCEPT !.local[p].mark = second]

\* isTokenRevoked, first part.
IsBlocked(list, p, token, answers) ==
    \/ answers /\ token \in list.redis.blocked
    \/ token \in list.local[p].blocked

\* isTokenRevoked, second part: the table of the process counts only when
\* Redis has no mark.
IsMarked(list, p, token, answers) ==
    LET mark == IF answers /\ list.redis.mark # 0
                THEN list.redis.mark ELSE list.local[p].mark
    IN  mark # 0 /\ token < mark

\* The keys' time to live, and the sweep of the local tables: what was
\* blocked or marked MarkLife ago may go.  The local marks stay.
Lapsed(list, now) ==
    LET Kept(tokens) == {t \in tokens : now < t + MarkLife}
    IN  [redis |-> [blocked |-> Kept(list.redis.blocked),
                    mark |-> IF now + 1 < list.redis.mark + MarkLife
                             THEN list.redis.mark ELSE 0],
         local |-> [p \in Procs |->
                       [list.local[p] EXCEPT !.blocked = Kept(@)]]]

\* Process p starts again with empty tables.
Restarted(list, p) == [list EXCEPT !.local[p] = EmptyTable]
=============================================================================

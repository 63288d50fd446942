---------------------------- MODULE EventStreams ----------------------------
(***************************************************************************)
(* streamEvents of crawl-job.controller.ts: the event streams of one user   *)
(* in one process.  A map counts them against a limit; a stream gives its   *)
(* place back when its client leaves, when it is ended by a tick or by the  *)
(* ten minutes, and when its job is over or unknown from the beginning.     *)
(* A tick waits for findById, so several of one stream may be under way.    *)
(***************************************************************************)
EXTENDS Naturals, FiniteSets

CONSTANTS
    Streams,      \* requests of the user
    StreamLimit,  \* MAX_CONCURRENT_STREAMS_PER_USER
    MaxTicks      \* bound on the ticks of one stream that wait at a time

ASSUME StreamConstants ==
    IsFiniteSet(Streams) /\ StreamLimit \in Nat \ {0} /\ MaxTicks \in Nat \ {0}

VARIABLES
    stream,   \* the requests
    active    \* activeUserStreams of the user, 0 when the map has no entry

streamVars == <<stream, active>>

\* gone: the client has left; closed: isClosed; ended: the response was ended.
StreamType == [pc : {"new", "asking", "open", "over"}, gone : BOOLEAN,
               closed : BOOLEAN, ended : BOOLEAN, ticks : 0..MaxTicks]

StreamsTypeOK == stream \in [Streams -> StreamType] /\ active \in 0..StreamLimit

StreamsInit ==
    /\ stream = [s \in Streams |-> [pc |-> "new", gone |-> FALSE, closed |-> FALSE,
                                    ended |-> FALSE, ticks |-> 0]]
    /\ active = 0

DecrementActiveStream == active' = IF active <= 1 THEN 0 ELSE active - 1

OpenStream(s) ==
    /\ stream[s].pc = "new" /\ active < StreamLimit
    /\ stream' = [stream EXCEPT ![s].pc = "asking"]
    /\ active' = active + 1

\* The job is over, or findById rejects: there is no more to come.
AnswerOnce(s) ==
    /\ stream[s].pc = "asking"
    /\ stream' = [stream EXCEPT ![s].pc = "over", ![s].ended = TRUE]
    /\ DecrementActiveStream

\* From here on the handler hears of a client that leaves, not of one that has left.
BeginStream(s) ==
    /\ stream[s].pc = "asking"
    /\ stream' = [stream EXCEPT ![s].pc = "open"]
    /\ UNCHANGED active

\* Seeded fault: every event that closes a stream gives its place back.
CleanupEveryTime(s, changed) ==
    /\ stream' = [stream EXCEPT ![s] = [changed EXCEPT !.closed = TRUE]]
    /\ DecrementActiveStream

\* The timers are stopped, too: none of them fires once isClosed is set.
Cleanup(s, changed) ==
    /\ stream' = [stream EXCEPT ![s] = [changed EXCEPT !.closed = TRUE]]
    /\ IF stream[s].closed THEN UNCHANGED active ELSE DecrementActiveStream

Leave(s) ==
    /\ ~stream[s].gone /\ ~stream[s].ended
    /\ LET left == [stream[s] EXCEPT !.gone = TRUE]
       IN  \/ /\ stream[s].pc = "asking" /\ stream' = [stream EXCEPT ![s] = left]
              /\ UNCHANGED active
           \/ stream[s].pc = "open" /\ Cleanup(s, left)

\* The close event of a response that was ended.
ResponseClosed(s) ==
    /\ stream[s].pc = "open" /\ stream[s].ended /\ ~stream[s].gone
    /\ Cleanup(s, [stream[s] EXCEPT !.gone = TRUE])

Tick(s) ==
    /\ stream[s].pc = "open" /\ ~stream[s].closed
    /\ IF stream[s].gone \/ stream[s].ended THEN Cleanup(s, stream[s])
       ELSE /\ stream[s].ticks < MaxTicks
            /\ stream' = [stream EXCEPT ![s].ticks = @ + 1]
            /\ UNCHANGED active

\* What findById has found is written, be the stream closed or not; a job that is
\* over, or a rejection, ends the stream, perhaps a second time.
TickAnswered(s) ==
    /\ stream[s].ticks > 0
    /\ LET answered == [stream[s] EXCEPT !.ticks = @ - 1]
       IN  \/ stream' = [stream EXCEPT ![s] = answered] /\ UNCHANGED active
           \/ Cleanup(s, [answered EXCEPT !.ended = TRUE])

MaxDuration(s) ==
    /\ stream[s].pc = "open" /\ ~stream[s].closed
    /\ Cleanup(s, [stream[s] EXCEPT !.ended = TRUE])

StreamsNext ==
    \E s \in Streams :
        \/ OpenStream(s) \/ AnswerOnce(s) \/ BeginStream(s) \/ Leave(s)
        \/ ResponseClosed(s) \/ Tick(s) \/ TickAnswered(s) \/ MaxDuration(s)

StreamsSpec == StreamsInit /\ [][StreamsNext]_streamVars

-----------------------------------------------------------------------------
\* The count is that of the streams that have a place, however many events have
\* closed each of them: no more than the limit are being answered, and none that is
\* over keeps the next one out.
SlotsMatchStreams ==
    LET Has(s) == stream[s].pc = "asking" \/ (stream[s].pc = "open" /\ ~stream[s].closed)
        Served(s) == stream[s].pc \in {"asking", "open"} /\ ~stream[s].gone /\ ~stream[s].ended
    IN  /\ StreamsTypeOK
        /\ active = Cardinality({s \in Streams : Has(s)})
        /\ Cardinality({s \in Streams : Served(s)}) <= StreamLimit
        /\ \A s \in Streams : stream[s].ended => ~Has(s)
=============================================================================

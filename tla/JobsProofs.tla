----------------------------- MODULE JobsProofs -----------------------------
(***************************************************************************)
(* Theorems about what goes on around a job: the event streams of a user,   *)
(* for any number of requests, limit and ticks; the pages and counters of a *)
(* crawl, for any site and order of two attempts; the report of a job, for  *)
(* any sites, baselines, requests and deletions; the rows of pages and what *)
(* the export writers make of them, for any texts.                          *)
(***************************************************************************)
EXTENDS EventStreams, PageStore, ChangeDetection, MCExports, FiniteSetTheorems, SequenceTheorems,
        WellFoundedInduction, TLAPS

-----------------------------------------------------------------------------
(* Event streams *)

\* The streams that have a place.
Placed == {s \in Streams : stream[s].pc = "asking" \/ (stream[s].pc = "open" /\ ~stream[s].closed)}

\* The strengthening of SlotsMatchStreams: a stream that is closed was left or ended,
\* one that was ended has been closed, and only an open one is asked by ticks.
SlotInv ==
    /\ StreamsTypeOK
    /\ active = Cardinality(Placed)
    /\ \A s \in Streams :
          /\ stream[s].pc \in {"new", "asking"} => ~stream[s].closed /\ ~stream[s].ended
          /\ stream[s].pc = "open" /\ stream[s].ended => stream[s].closed
          /\ stream[s].closed => stream[s].gone \/ stream[s].ended
          /\ stream[s].ticks > 0 => stream[s].pc = "open"

LEMMA PlacedFinite == IsFiniteSet(Placed) /\ Cardinality(Placed) \in Nat
BY StreamConstants, FS_Subset, FS_CardinalityType DEF Placed

\* Who has a place has it counted, and one less is counted when it is given back.
LEMMA GivesBack ==
    ASSUME SlotInv, NEW s \in Placed, Placed' = Placed \ {s}, DecrementActiveStream
    PROVE  active' = Cardinality(Placed') /\ active' \in 0..StreamLimit
<1>1. /\ IsFiniteSet(Placed) /\ Cardinality(Placed) \in Nat
      /\ active = Cardinality(Placed) /\ active \in 0..StreamLimit
  BY PlacedFinite DEF SlotInv, StreamsTypeOK
<1>2. Cardinality(Placed') = Cardinality(Placed) - 1 /\ Cardinality(Placed') \in Nat
  BY <1>1, FS_RemoveElement, FS_CardinalityType
<1>3. QED
  BY <1>1, <1>2, StreamConstants DEF DecrementActiveStream

\* Closing a stream, left or ended, gives its place back the first time alone.
LEMMA CleanupKeeps ==
    ASSUME SlotInv, NEW s \in Streams, NEW changed \in StreamType, stream[s].pc = "open",
           changed.pc = "open", changed.closed = stream[s].closed,
           changed.gone \/ changed.ended,
           Cleanup(s, changed)
    PROVE  SlotInv'
<1>1. stream \in [Streams -> StreamType]
  BY DEF SlotInv, StreamsTypeOK
<1> DEFINE new == [changed EXCEPT !.closed = TRUE]
<1>2. /\ new \in StreamType /\ new.pc = "open" /\ new.closed
      /\ new.gone = changed.gone /\ new.ended = changed.ended
  BY DEF StreamType
<1>3. stream' = [stream EXCEPT ![s] = new]
  BY DEF Cleanup
<1> HIDE DEF new
<1>4. stream' \in [Streams -> StreamType] /\ stream'[s] = new
      /\ \A t \in Streams \ {s} : stream'[t] = stream[t]
  BY <1>1, <1>2, <1>3
<1>5. Placed' = Placed \ {s}
  BY <1>2, <1>4 DEF Placed
<1>6. active' = Cardinality(Placed') /\ active' \in 0..StreamLimit
  <2>1. CASE stream[s].closed
    <3>1. s \notin Placed
      BY <2>1 DEF Placed
    <3>2. Placed' = Placed /\ active' = active
      BY <1>5, <2>1, <3>1 DEF Cleanup
    <3>3. QED
      BY <3>2 DEF SlotInv, StreamsTypeOK
  <2>2. CASE ~stream[s].closed
    <3>1. s \in Placed /\ DecrementActiveStream
      BY <2>2 DEF Placed, Cleanup
    <3>2. QED
      BY <1>5, <3>1, GivesBack
  <2>3. QED
    BY <2>1, <2>2
<1>7. QED
  BY <1>2, <1>4, <1>6 DEF SlotInv, StreamsTypeOK

\* The other changes of one stream are to its fields alone.
LEMMA StreamChanges ==
    ASSUME SlotInv, NEW s \in Streams, NEW new \in StreamType,
           stream' = [stream EXCEPT ![s] = new],
           active' = Cardinality(Placed'), active' \in 0..StreamLimit,
           new.pc \in {"new", "asking"} => ~new.closed /\ ~new.ended,
           new.pc = "open" /\ new.ended => new.closed,
           new.closed => new.gone \/ new.ended,
           new.ticks > 0 => new.pc = "open"
    PROVE  SlotInv'
<1>1. stream \in [Streams -> StreamType]
  BY DEF SlotInv, StreamsTypeOK
<1>2. stream' \in [Streams -> StreamType] /\ stream'[s] = new
      /\ \A t \in Streams \ {s} : stream'[t] = stream[t]
  BY <1>1
<1>3. QED
  BY <1>2 DEF SlotInv, StreamsTypeOK

LEMMA SlotStep ==
    ASSUME SlotInv, [StreamsNext]_streamVars
    PROVE  SlotInv'
<1>1. stream \in [Streams -> StreamType] /\ active \in 0..StreamLimit
      /\ active = Cardinality(Placed)
  BY DEF SlotInv, StreamsTypeOK
<1>2. ASSUME NEW s \in Streams, OpenStream(s)
      PROVE  SlotInv'
  <2> DEFINE new == [stream[s] EXCEPT !.pc = "asking"]
  <2>1. stream[s].ticks = 0 /\ ~stream[s].closed /\ ~stream[s].ended /\ stream[s] \in StreamType
    BY <1>1, <1>2 DEF OpenStream, SlotInv, StreamType
  <2>2. /\ new \in StreamType /\ new.pc = "asking" /\ ~new.closed /\ ~new.ended /\ new.ticks = 0
    BY <2>1 DEF StreamType
  <2>3. stream' = [stream EXCEPT ![s] = new] /\ active' = active + 1 /\ active < StreamLimit
        /\ stream[s].pc = "new"
    BY <1>2 DEF OpenStream
  <2> HIDE DEF new
  <2>4. Placed' = Placed \cup {s} /\ s \notin Placed
    BY <1>1, <2>2, <2>3 DEF Placed
  <2>5. active' = Cardinality(Placed')
    BY <1>1, <2>3, <2>4, PlacedFinite, FS_AddElement
  <2>6. active' \in 0..StreamLimit
    BY <1>1, <2>3, StreamConstants
  <2>7. /\ new.pc = "open" /\ new.ended => new.closed
        /\ new.closed => new.gone \/ new.ended
        /\ new.ticks > 0 => new.pc = "open"
    BY <2>2
  <2>8. QED
    BY <2>2, <2>3, <2>5, <2>6, <2>7, StreamChanges
<1>3. ASSUME NEW s \in Streams, AnswerOnce(s)
      PROVE  SlotInv'
  <2> DEFINE new == [stream[s] EXCEPT !.pc = "over", !.ended = TRUE]
  <2>1. stream[s].ticks = 0 /\ ~stream[s].closed /\ stream[s] \in StreamType
    BY <1>1, <1>3 DEF AnswerOnce, SlotInv, StreamType
  <2>2. new \in StreamType /\ new.pc = "over" /\ ~new.closed /\ new.ended /\ new.ticks = 0
    BY <2>1 DEF StreamType
  <2>3. stream' = [stream EXCEPT ![s] = new] /\ DecrementActiveStream
        /\ stream[s].pc = "asking"
    BY <1>3 DEF AnswerOnce
  <2> HIDE DEF new
  <2>4. Placed' = Placed \ {s} /\ s \in Placed
    BY <1>1, <2>2, <2>3 DEF Placed
  <2>5. active' = Cardinality(Placed') /\ active' \in 0..StreamLimit
    BY <2>3, <2>4, GivesBack
  <2>6. /\ new.pc \in {"new", "asking"} => ~new.closed /\ ~new.ended
        /\ new.pc = "open" /\ new.ended => new.closed
        /\ new.closed => new.gone \/ new.ended
        /\ new.ticks > 0 => new.pc = "open"
    BY <2>2
  <2>7. QED
    BY <2>2, <2>3, <2>5, <2>6, StreamChanges
<1>4. ASSUME NEW s \in Streams, NEW new \in StreamType, stream' = [stream EXCEPT ![s] = new],
             UNCHANGED active, new.pc = stream[s].pc, new.pc \in {"asking", "open"},
             new.closed = stream[s].closed, new.ended = stream[s].ended,
             stream[s].gone => new.gone,
             new.ticks > 0 => new.pc = "open"
      PROVE  SlotInv'
  <2>1. Placed' = Placed
    BY <1>1, <1>4 DEF Placed, SlotInv
  <2>2. /\ new.pc = "asking" => ~new.closed /\ ~new.ended
        /\ new.pc = "open" /\ new.ended => new.closed
        /\ new.closed => new.gone \/ new.ended
    BY <1>4 DEF SlotInv
  <2>3. QED
    BY <1>1, <1>4, <2>1, <2>2, StreamChanges
<1>5. ASSUME NEW s \in Streams, BeginStream(s)
      PROVE  SlotInv'
  <2> DEFINE new == [stream[s] EXCEPT !.pc = "open"]
  <2>1. stream[s] \in StreamType /\ stream[s].pc = "asking"
    BY <1>1, <1>5 DEF BeginStream
  <2>2. /\ new \in StreamType /\ new.pc = "open" /\ new.closed = stream[s].closed
        /\ new.ended = stream[s].ended /\ new.gone = stream[s].gone
    BY <2>1 DEF StreamType
  <2>3. stream' = [stream EXCEPT ![s] = new] /\ UNCHANGED active
    BY <1>5 DEF BeginStream
  <2> HIDE DEF new
  <2>4. Placed' = Placed
    BY <1>1, <2>1, <2>2, <2>3 DEF Placed, SlotInv
  <2>5. QED
    BY <1>1, <2>1, <2>2, <2>3, <2>4, StreamChanges DEF SlotInv
<1>6. ASSUME NEW s \in Streams, Leave(s)
      PROVE  SlotInv'
  <2> DEFINE left == [stream[s] EXCEPT !.gone = TRUE]
  <2>1. stream[s] \in StreamType
    BY <1>1
  <2>2. /\ left \in StreamType /\ left.pc = stream[s].pc /\ left.closed = stream[s].closed
        /\ left.ended = stream[s].ended /\ left.gone /\ left.ticks = stream[s].ticks
    BY <2>1 DEF StreamType
  <2>3. \/ stream[s].pc = "asking" /\ stream' = [stream EXCEPT ![s] = left] /\ UNCHANGED active
        \/ stream[s].pc = "open" /\ Cleanup(s, left)
    BY <1>6 DEF Leave
  <2> HIDE DEF left
  <2>4. left.ticks > 0 => left.pc = "open"
    BY <2>2 DEF SlotInv
  <2>5. CASE stream[s].pc = "open" /\ Cleanup(s, left)
    BY <2>2, <2>5, CleanupKeeps
  <2>6. CASE stream[s].pc = "asking" /\ stream' = [stream EXCEPT ![s] = left] /\ UNCHANGED active
    BY <1>4, <2>2, <2>4, <2>6
  <2>7. QED
    BY <2>3, <2>5, <2>6
<1>7. ASSUME NEW s \in Streams, ResponseClosed(s)
      PROVE  SlotInv'
  <2> DEFINE closing == [stream[s] EXCEPT !.gone = TRUE]
  <2>1. stream[s] \in StreamType /\ stream[s].pc = "open" /\ Cleanup(s, closing)
    BY <1>1, <1>7 DEF ResponseClosed
  <2>2. /\ closing \in StreamType /\ closing.pc = "open" /\ closing.gone
        /\ closing.closed = stream[s].closed
    BY <2>1 DEF StreamType
  <2> HIDE DEF closing
  <2>3. QED
    BY <2>1, <2>2, CleanupKeeps
<1>8. ASSUME NEW s \in Streams, Tick(s)
      PROVE  SlotInv'
  <2>1. stream[s] \in StreamType /\ stream[s].pc = "open" /\ ~stream[s].closed
    BY <1>1, <1>8 DEF Tick
  <2>2. CASE stream[s].gone \/ stream[s].ended
    <3>1. Cleanup(s, stream[s])
      BY <1>8, <2>2 DEF Tick
    <3>2. QED
      BY <2>1, <2>2, <3>1, CleanupKeeps
  <2>3. CASE ~(stream[s].gone \/ stream[s].ended)
    <3> DEFINE new == [stream[s] EXCEPT !.ticks = stream[s].ticks + 1]
    <3>1. stream[s].ticks < MaxTicks /\ stream' = [stream EXCEPT ![s] = new] /\ UNCHANGED active
      BY <1>8, <2>3 DEF Tick
    <3>2. stream[s].ticks + 1 \in 0..MaxTicks
      BY <2>1, <3>1, StreamConstants DEF StreamType
    <3>3. /\ new \in StreamType /\ new.pc = "open" /\ new.closed = stream[s].closed
          /\ new.ended = stream[s].ended /\ new.gone = stream[s].gone
      BY <2>1, <3>2 DEF StreamType
    <3> HIDE DEF new
    <3>4. QED
      BY <1>4, <2>1, <3>1, <3>3
  <2>4. QED
    BY <2>2, <2>3
<1>9. ASSUME NEW s \in Streams, TickAnswered(s)
      PROVE  SlotInv'
  <2> DEFINE answered == [stream[s] EXCEPT !.ticks = stream[s].ticks - 1]
             ending == [answered EXCEPT !.ended = TRUE]
  <2>1. stream[s] \in StreamType /\ stream[s].ticks > 0 /\ stream[s].pc = "open"
    BY <1>1, <1>9 DEF TickAnswered, SlotInv
  <2>2. stream[s].ticks - 1 \in 0..MaxTicks
    BY <2>1, StreamConstants DEF StreamType
  <2>3. /\ answered \in StreamType /\ answered.pc = "open"
        /\ answered.closed = stream[s].closed
        /\ answered.ended = stream[s].ended /\ answered.gone = stream[s].gone
    BY <2>1, <2>2 DEF StreamType
  <2>4. \/ stream' = [stream EXCEPT ![s] = answered] /\ UNCHANGED active
        \/ Cleanup(s, ending)
    BY <1>9 DEF TickAnswered
  <2> HIDE DEF answered
  <2>5. /\ ending \in StreamType /\ ending.pc = "open" /\ ending.ended
        /\ ending.closed = stream[s].closed
    BY <2>3 DEF StreamType
  <2> HIDE DEF ending
  <2>6. CASE Cleanup(s, ending)
    BY <2>1, <2>5, <2>6, CleanupKeeps
  <2>7. CASE stream' = [stream EXCEPT ![s] = answered] /\ UNCHANGED active
    BY <1>4, <2>1, <2>3, <2>7
  <2>8. QED
    BY <2>4, <2>6, <2>7
<1>10. ASSUME NEW s \in Streams, MaxDuration(s)
       PROVE  SlotInv'
  <2> DEFINE ending == [stream[s] EXCEPT !.ended = TRUE]
  <2>1. stream[s] \in StreamType /\ stream[s].pc = "open" /\ Cleanup(s, ending)
    BY <1>1, <1>10 DEF MaxDuration
  <2>2. /\ ending \in StreamType /\ ending.pc = "open" /\ ending.ended
        /\ ending.closed = stream[s].closed
    BY <2>1 DEF StreamType
  <2> HIDE DEF ending
  <2>3. QED
    BY <2>1, <2>2, CleanupKeeps
<1>11. CASE UNCHANGED streamVars
  BY <1>11 DEF streamVars, SlotInv, StreamsTypeOK, Placed
<1>12. QED
  BY <1>2, <1>3, <1>5, <1>6, <1>7, <1>8, <1>9, <1>10, <1>11 DEF StreamsNext

\* However often a stream is closed, by its client, its ticks that were under way, its
\* job or its ten minutes, its place is given back once: the count is that of the
\* streams that have one, and no more than the limit are served.
THEOREM SlotsCounted == StreamsSpec => []SlotsMatchStreams
<1>1. StreamsInit => SlotInv
  <2>1. ASSUME StreamsInit
        PROVE  SlotInv
    <3>1. Placed = {}
      BY <2>1 DEF StreamsInit, Placed
    <3>2. Cardinality(Placed) = 0
      BY <3>1, FS_EmptySet
    <3>3. QED
      BY <2>1, <3>2, StreamConstants DEF StreamsInit, SlotInv, StreamsTypeOK, StreamType
  <2>2. QED
    BY <2>1
<1>2. SlotInv => SlotsMatchStreams
  <2>1. ASSUME SlotInv
        PROVE  SlotsMatchStreams
    <3> DEFINE served == {s \in Streams : /\ stream[s].pc \in {"asking", "open"}
                                          /\ ~stream[s].gone /\ ~stream[s].ended}
    <3>1. served \subseteq Placed
      BY <2>1 DEF SlotInv, Placed
    <3>2. Cardinality(served) <= Cardinality(Placed) /\ Cardinality(served) \in Nat
      BY <3>1, PlacedFinite, FS_Subset, FS_CardinalityType
    <3>3. Cardinality(served) <= StreamLimit
      BY <2>1, <3>2, PlacedFinite, StreamConstants DEF SlotInv, StreamsTypeOK
    <3>4. \A s \in Streams : stream[s].ended => s \notin Placed
      BY <2>1 DEF SlotInv, Placed
    <3>5. QED
      BY <2>1, <3>3, <3>4 DEF SlotInv, SlotsMatchStreams, Placed
  <2>2. QED
    BY <2>1
<1>3. QED
  BY <1>1, <1>2, SlotStep, PTL DEF StreamsSpec

-----------------------------------------------------------------------------
(* Pages and counters *)

\* The addresses of the result of attempt r, and those the provider or robots.txt refused.
Fetched(r) == Range(crawl[r].pages)
Refused(r) == Range(crawl[r].failed)
Forbidden(r) == Range(crawl[r].robots)

\* What persistBatchResults has been through at a stage, and what it is going through.
Stages == {"batch", "failed", "robots"}
Behind(r, pc) ==
    CASE pc = "batch" -> {} [] pc = "failed" -> Fetched(r)
      [] OTHER -> Fetched(r) \cup Refused(r)
Ahead(r, pc) ==
    CASE pc = "batch" -> Fetched(r) [] pc = "failed" -> Refused(r) [] OTHER -> Forbidden(r)

\* What run r has stored and counted, as long as every save succeeds.
RunTrue(r, x) ==
    /\ \A u \in x.seen : page[u] # "none"
    /\ x.errors = 0
    /\ x.pc \in {"waits", "poll", "hook"} => x.seen \subseteq Fetched(r) /\ x.ok = 0 /\ x.bad = 0
    /\ x.pc = "hook" => Range(x.todo) \subseteq Fetched(r)
    /\ x.pc \in Stages =>
          /\ Behind(r, x.pc) \subseteq x.seen /\ x.seen \subseteq Behind(r, x.pc) \cup Ahead(r, x.pc)
          /\ Range(x.todo) \subseteq Ahead(r, x.pc) /\ Ahead(r, x.pc) \subseteq x.seen \cup Range(x.todo)
          /\ x.ok = Len(crawl[r].pages) - (IF x.pc = "batch" THEN Len(x.todo) ELSE 0)
          /\ x.bad = Cardinality(x.seen \ Fetched(r))
    /\ x.pc = "write" /\ crawl[r].ends = "completed" =>
          /\ x.seen = Named(crawl[r]) /\ x.ok = Len(crawl[r].pages)
          /\ x.bad = Cardinality(x.seen \ Fetched(r))

\* Every row is one that the crawl of an attempt asks for.
MayBeStored(u, kind) == \E r \in Runs : u \in Named(crawl[r]) /\ kind = RowFor(r, u)
RowsExpected == \A u \in Urls : page[u] = "none" \/ MayBeStored(u, page[u])

\* The counters of a completed job are those of the attempt that wrote its status.
CountedBy(r) ==
    /\ \A u \in Named(crawl[r]) : page[u] # "none"
    /\ counts.total = Cardinality(Named(crawl[r])) /\ counts.ok = Len(crawl[r].pages)
    /\ counts.failed = Cardinality(Named(crawl[r]) \ Fetched(r))
Counted == counts.status = "COMPLETED" => counts.by \in Runs /\ CountedBy(counts.by)

\* What every run is about, also when saves fail.
RunShape(r, x) ==
    /\ x.seen \subseteq Named(crawl[r])
    /\ x.pc = "hook" => x.polled \in DOMAIN crawl[r].polls /\ Range(x.todo) \subseteq Fetched(r)
    /\ x.pc \in Stages => Range(x.todo) \subseteq Ahead(r, x.pc)

\* The strengthening of CountsAreTrue.
PagesInv ==
    /\ PagesTypeOK
    /\ \A r \in Runs : RunShape(r, run[r])
    /\ spoilt = {} => RowsExpected /\ Counted /\ \A r \in Runs : RunTrue(r, run[r])

\* Sequences have finitely many elements; taking the first away takes one of them.
LEMMA RangeFinite ==
    ASSUME NEW S, NEW s \in Seq(S)
    PROVE  IsFiniteSet(Range(s)) /\ Range(s) \subseteq S
<1>1. Len(s) \in Nat /\ DOMAIN s = 1..Len(s) /\ s \in [1..Len(s) -> S]
  BY LenProperties
<1>2. s \in Surjection(1..Len(s), Range(s))
  BY <1>1 DEF Surjection, Range
<1>3. IsFiniteSet(1..Len(s))
  BY <1>1, FS_Interval
<1> QED
  BY <1>1, <1>2, <1>3, FS_Surjection DEF Range

LEMMA HeadAndTail ==
    ASSUME NEW S, NEW s \in Seq(S), s # <<>>
    PROVE  /\ Head(s) \in Range(s) /\ Tail(s) \in Seq(S) /\ Len(Tail(s)) = Len(s) - 1
           /\ Range(s) = {Head(s)} \cup Range(Tail(s)) /\ Len(s) \in Nat \ {0}
<1>1. /\ Tail(s) \in Seq(S) /\ Len(Tail(s)) = Len(s) - 1
      /\ \A i \in 1..Len(Tail(s)) : Tail(s)[i] = s[i + 1]
  BY HeadTailProperties
<1>2. Len(s) \in Nat \ {0} /\ DOMAIN s = 1..Len(s) /\ DOMAIN Tail(s) = 1..(Len(s) - 1)
  BY <1>1, EmptySeq, LenProperties
<1>3. Head(s) = s[1]
  BY DEF Head
<1>4. \A i \in 1..Len(s) : i = 1 \/ (i - 1 \in 1..(Len(s) - 1) /\ Tail(s)[i - 1] = s[i])
  BY <1>1, <1>2
<1>5. \A i \in 1..(Len(s) - 1) : i + 1 \in 1..Len(s) /\ Tail(s)[i] = s[i + 1]
  BY <1>1, <1>2
<1>6. /\ \A i \in 1..Len(s) : s[i] \in Range(s)
      /\ \A i \in 1..(Len(s) - 1) : Tail(s)[i] \in Range(Tail(s))
      /\ \A x \in Range(s) : \E i \in 1..Len(s) : x = s[i]
      /\ \A x \in Range(Tail(s)) : \E i \in 1..(Len(s) - 1) : x = Tail(s)[i]
  BY <1>2, Zenon DEF Range
<1>7. Head(s) \in Range(s)
  BY <1>2, <1>3, <1>6
<1>8. Range(Tail(s)) \subseteq Range(s)
  BY <1>5, <1>6
<1>9. ASSUME NEW x \in Range(s) PROVE x = Head(s) \/ x \in Range(Tail(s))
  <2>1. PICK i \in 1..Len(s) : x = s[i]
    BY <1>6
  <2>2. CASE i = 1
    BY <1>3, <2>1, <2>2
  <2>3. CASE i - 1 \in 1..(Len(s) - 1) /\ Tail(s)[i - 1] = s[i]
    BY <1>6, <2>1, <2>3
  <2> QED
    BY <1>4, <2>2, <2>3
<1> QED
  BY <1>1, <1>2, <1>7, <1>8, <1>9

LEMMA NothingLeft == Range(<<>>) = {} /\ Len(<<>>) = 0
BY DEF Range

\* What is known of the crawl.
LEMMA CrawlFacts ==
    ASSUME PagesTypeOK, NEW r \in Runs
    PROVE  /\ crawl[r].polls \in Seq(Seq(Urls)) /\ crawl[r].pages \in Seq(Urls)
           /\ crawl[r].failed \in Seq(Urls) /\ crawl[r].robots \in Seq(Urls)
           /\ crawl[r].ends \in {"completed", "failed"} /\ Len(crawl[r].pages) \in Nat
           /\ Named(crawl[r]) = Fetched(r) \cup Refused(r) \cup Forbidden(r)
           /\ Named(crawl[r]) \subseteq Urls
           /\ \A U : U \subseteq Named(crawl[r]) => IsFiniteSet(U) /\ Cardinality(U) \in Nat
           /\ \A i \in DOMAIN crawl[r].polls :
                 crawl[r].polls[i] \in Seq(Urls) /\ Range(crawl[r].polls[i]) \subseteq Fetched(r)
<1>1. crawl \in Crawls /\ crawl[r] \in CrawlType
  BY PageConstants DEF PagesTypeOK
<1>2. /\ crawl[r].polls \in Seq(Seq(Urls)) /\ crawl[r].pages \in Seq(Urls)
      /\ crawl[r].failed \in Seq(Urls) /\ crawl[r].robots \in Seq(Urls)
      /\ crawl[r].ends \in {"completed", "failed"}
  BY <1>1 DEF CrawlType
<1>3. Named(crawl[r]) = Fetched(r) \cup Refused(r) \cup Forbidden(r)
  BY DEF Named, Fetched, Refused, Forbidden
<1>4. IsFiniteSet(Named(crawl[r])) /\ Named(crawl[r]) \subseteq Urls
  <2>1. /\ IsFiniteSet(Fetched(r)) /\ IsFiniteSet(Refused(r)) /\ IsFiniteSet(Forbidden(r))
        /\ Fetched(r) \subseteq Urls /\ Refused(r) \subseteq Urls /\ Forbidden(r) \subseteq Urls
    BY <1>2, RangeFinite DEF Fetched, Refused, Forbidden
  <2>2. IsFiniteSet(Fetched(r) \cup Refused(r))
    BY <2>1, FS_Union
  <2>3. IsFiniteSet((Fetched(r) \cup Refused(r)) \cup Forbidden(r))
    BY <2>1, <2>2, FS_Union
  <2> QED
    BY <1>3, <2>1, <2>3
<1>5. \A U : U \subseteq Named(crawl[r]) => IsFiniteSet(U) /\ Cardinality(U) \in Nat
  BY <1>4, FS_Subset, FS_CardinalityType
<1>6. \A i \in DOMAIN crawl[r].polls : crawl[r].polls[i] \in Seq(Urls)
  BY <1>2, LenProperties
<1>7. \A i \in DOMAIN crawl[r].polls : Range(crawl[r].polls[i]) \subseteq Fetched(r)
  <2>1. \A i \in DOMAIN crawl[r].polls : Range(crawl[r].polls[i]) \subseteq Range(crawl[r].pages)
    BY <1>1, PollsGrow, Zenon
  <2> QED
    BY <2>1 DEF Fetched
<1>8. Len(crawl[r].pages) \in Nat
  BY <1>2, LenProperties
<1> QED
  BY <1>2, <1>3, <1>4, <1>5, <1>6, <1>7, <1>8

\* A step moves run r alone, and what is stored stays stored.
Moves(r) ==
    /\ r \in Runs /\ PagesTypeOK' /\ UNCHANGED crawl
    /\ \A q \in Runs \ {r} : run'[q] = run[q]
    /\ spoilt' = {} => spoilt = {}
    /\ \A u \in Urls : page[u] # "none" => page'[u] # "none"

LEMMA MovesKeeps ==
    ASSUME PagesInv, NEW r, Moves(r), RunShape(r, run'[r]),
           spoilt' = {} => RowsExpected' /\ Counted' /\ RunTrue(r, run[r])'
    PROVE  PagesInv'
<1>1. crawl' = crawl /\ \A q \in Runs \ {r} : run'[q] = run[q]
  BY DEF Moves
<1>2. \A q \in Runs : RunShape(q, run[q])'
  BY <1>1 DEF PagesInv, RunShape, Named, Fetched, Ahead, Refused, Forbidden
<1>3. ASSUME spoilt' = {}, NEW q \in Runs \ {r} PROVE RunTrue(q, run[q])'
  <2>1. RunTrue(q, run[q]) /\ run'[q] = run[q] /\ run[q].seen \subseteq Urls
    BY <1>3, <1>1 DEF Moves, PagesInv, PagesTypeOK, RunType
  <2>2. \A u \in run[q].seen : page'[u] # "none"
    BY <2>1 DEF RunTrue, Moves
  <2> QED
    BY <1>1, <2>1, <2>2 DEF RunTrue, Named, Fetched, Ahead, Behind, Refused, Forbidden
<1> QED
  BY <1>2, <1>3 DEF PagesInv, Moves

\* Counters that are not touched stay true when rows only come.
LEMMA CountedKept ==
    ASSUME PagesInv, NEW r, Moves(r), UNCHANGED counts, spoilt' = {}
    PROVE  Counted'
<1>1. Counted /\ crawl' = crawl /\ counts' = counts
  BY DEF PagesInv, Moves
<1>2. ASSUME NEW q \in Runs, CountedBy(q) PROVE CountedBy(q)'
  <2>1. Named(crawl[q]) \subseteq Urls
    BY CrawlFacts DEF PagesInv
  <2>2. \A u \in Named(crawl[q]) : page[u] # "none" => page'[u] # "none"
    BY <2>1 DEF Moves
  <2> QED
    BY <1>1, <1>2, <2>2 DEF CountedBy, Fetched
<1> QED
  BY <1>1, <1>2 DEF Counted

\* So do rows that are not touched.
LEMMA RowsKept ==
    ASSUME RowsExpected, crawl' = crawl, page' = page
    PROVE  RowsExpected'
<1>1. \A u \in Urls : \A kind : MayBeStored(u, kind)' = MayBeStored(u, kind)
  BY DEF MayBeStored, RowFor
<1> QED
  BY <1>1 DEF RowsExpected

LEMMA CountedWhileRunning ==
    ASSUME counts'.status # "COMPLETED"
    PROVE  Counted'
BY DEF Counted

-----------------------------------------------------------------------------
\* What a run that is not about to store a page may do.
LEMMA StartRunKeeps ==
    ASSUME PagesInv, NEW r \in Runs, StartRun(r)
    PROVE  PagesInv'
<1>1. run \in [Runs -> RunType] /\ run[r] \in RunType /\ counts \in CountType
  BY DEF PagesInv, PagesTypeOK
<1>2. /\ run' \in [Runs -> RunType] /\ \A q \in Runs \ {r} : run'[q] = run[q]
      /\ run'[r].pc = "poll" /\ run'[r].seen = run[r].seen /\ run'[r].ok = run[r].ok
      /\ run'[r].bad = run[r].bad /\ run'[r].errors = run[r].errors
      /\ run[r].pc = "waits" /\ UNCHANGED <<crawl, page, assets, flight, spoilt>>
  BY <1>1 DEF StartRun, RunType
<1>3. counts' \in CountType /\ counts'.status # "COMPLETED"
  BY <1>1 DEF StartRun, CountType
<1>4. Moves(r)
  BY <1>2, <1>3 DEF Moves, PagesInv, PagesTypeOK
<1>5. RunShape(r, run'[r])
  BY <1>2 DEF PagesInv, RunShape, Stages
<1>6. ASSUME spoilt' = {} PROVE RowsExpected' /\ Counted' /\ RunTrue(r, run[r])'
  <2>1. RowsExpected'
    BY <1>2, <1>6, RowsKept DEF PagesInv
  <2>2. RunTrue(r, run[r])'
    BY <1>2, <1>6 DEF PagesInv, RunTrue, Fetched, Stages
  <2> QED
    BY <1>3, <2>1, <2>2, CountedWhileRunning
<1> QED
  BY <1>4, <1>5, <1>6, MovesKeeps

LEMMA TimeOutKeeps ==
    ASSUME PagesInv, NEW r \in Runs, TimeOut(r)
    PROVE  PagesInv'
<1>1. run \in [Runs -> RunType] /\ run[r] \in RunType
  BY DEF PagesInv, PagesTypeOK
<1>2. /\ run' \in [Runs -> RunType] /\ \A q \in Runs \ {r} : run'[q] = run[q]
      /\ run'[r].pc = run[r].pc /\ run'[r].seen = run[r].seen /\ run'[r].ok = run[r].ok
      /\ run'[r].bad = run[r].bad /\ run'[r].errors = run[r].errors
      /\ run'[r].todo = run[r].todo /\ run'[r].polled = run[r].polled
      /\ UNCHANGED <<crawl, page, assets, counts, flight, spoilt>>
  BY <1>1 DEF TimeOut, RunType
<1>3. Moves(r)
  BY <1>2 DEF Moves, PagesInv, PagesTypeOK
<1>4. RunShape(r, run'[r])
  BY <1>2 DEF PagesInv, RunShape
<1>5. ASSUME spoilt' = {} PROVE RowsExpected' /\ Counted' /\ RunTrue(r, run[r])'
  <2>1. RowsExpected'
    BY <1>2, <1>5, RowsKept DEF PagesInv
  <2>2. RunTrue(r, run[r])'
    <3>1. RunTrue(r, run'[r])
      BY <1>2, <1>5 DEF PagesInv, RunTrue
    <3> QED
      BY <1>2, <3>1 DEF RunTrue, Fetched, Refused, Forbidden, Behind, Ahead, Named
  <2> QED
    BY <1>2, <1>3, <1>5, <2>1, <2>2, CountedKept
<1> QED
  BY <1>3, <1>4, <1>5, MovesKeeps

LEMMA PollKeeps ==
    ASSUME PagesInv, NEW r \in Runs, Poll(r)
    PROVE  PagesInv'
<1>1. run \in [Runs -> RunType] /\ run[r] \in RunType
  BY DEF PagesInv, PagesTypeOK
<1> DEFINE n == run[r].polled + 1
           shown == crawl[r].polls[n]
<1>2. n \in DOMAIN crawl[r].polls
  <2>1. run[r].polled \in Nat /\ run[r].polled < Len(crawl[r].polls)
    BY <1>1 DEF Poll, RunType
  <2>2. Len(crawl[r].polls) \in Nat /\ DOMAIN crawl[r].polls = 1..Len(crawl[r].polls)
    BY CrawlFacts, LenProperties DEF PagesInv
  <2> QED
    BY <2>1, <2>2
<1>3. shown \in Seq(Urls) /\ Range(shown) \subseteq Fetched(r) /\ n \in Nat
  BY <1>1, <1>2, CrawlFacts DEF PagesInv, RunType
<1>4. run' = [run EXCEPT ![r].pc = "hook", ![r].polled = n, ![r].todo = shown]
  BY DEF Poll
<1>5. run[r].pc = "poll" /\ UNCHANGED <<crawl, page, assets, counts, flight, spoilt>>
  BY DEF Poll
<1> HIDE DEF n, shown
<1>6. /\ run' \in [Runs -> RunType] /\ \A q \in Runs \ {r} : run'[q] = run[q]
      /\ run'[r].pc = "hook" /\ run'[r].seen = run[r].seen /\ run'[r].ok = run[r].ok
      /\ run'[r].bad = run[r].bad /\ run'[r].errors = run[r].errors
      /\ run'[r].todo = shown /\ run'[r].polled = n
      /\ run[r].pc = "poll" /\ UNCHANGED <<crawl, page, assets, counts, flight, spoilt>>
  BY <1>1, <1>3, <1>4, <1>5 DEF RunType
<1>7. Moves(r)
  BY <1>6 DEF Moves, PagesInv, PagesTypeOK
<1>8. RunShape(r, run'[r])
  BY <1>2, <1>3, <1>6 DEF PagesInv, RunShape, Stages
<1>9. ASSUME spoilt' = {} PROVE RowsExpected' /\ Counted' /\ RunTrue(r, run[r])'
  <2>1. RowsExpected'
    BY <1>6, <1>9, RowsKept DEF PagesInv
  <2>2. RunTrue(r, run[r])'
    BY <1>3, <1>6, <1>9 DEF PagesInv, RunTrue, Fetched, Stages
  <2> QED
    BY <1>6, <1>7, <1>9, <2>1, <2>2, CountedKept
<1> QED
  BY <1>7, <1>8, <1>9, MovesKeeps

LEMMA ShowProgressKeeps ==
    ASSUME PagesInv, NEW r \in Runs, ShowProgress(r)
    PROVE  PagesInv'
<1>1. run \in [Runs -> RunType] /\ run[r] \in RunType /\ counts \in CountType
  BY DEF PagesInv, PagesTypeOK
<1>2. /\ run' \in [Runs -> RunType] /\ \A q \in Runs \ {r} : run'[q] = run[q]
      /\ run'[r].pc = "poll" /\ run'[r].seen = run[r].seen /\ run'[r].ok = run[r].ok
      /\ run'[r].bad = run[r].bad /\ run'[r].errors = run[r].errors
      /\ run[r].pc = "hook" /\ UNCHANGED <<crawl, page, assets, flight>>
  BY <1>1 DEF ShowProgress, RunType
<1> DEFINE shown == Larger(Len(crawl[r].polls[run[r].polled]), run[r].stored)
<1>3. shown \in Nat
  <2>1. run[r].polled \in DOMAIN crawl[r].polls
    BY <1>2 DEF PagesInv, RunShape
  <2>2. Len(crawl[r].polls[run[r].polled]) \in Nat
    BY <2>1, CrawlFacts, LenProperties DEF PagesInv
  <2> QED
    BY <1>1, <2>2 DEF Larger, RunType
<1>4. counts' \in CountType /\ counts'.status = counts.status
  <2>1. counts' = [counts EXCEPT !.ok = shown, !.total = Len(crawl[r].pages)]
    BY DEF ShowProgress
  <2>2. Len(crawl[r].pages) \in Nat
    BY CrawlFacts DEF PagesInv
  <2> HIDE DEF shown
  <2> QED
    BY <1>1, <1>3, <2>1, <2>2 DEF CountType
<1>5. /\ spoilt' \subseteq spoilt \cup {"written late"} /\ spoilt \subseteq spoilt'
      /\ spoilt' = {} => counts.status = "RUNNING"
  BY DEF ShowProgress
<1>6. Moves(r)
  BY <1>2, <1>4, <1>5 DEF Moves, PagesInv, PagesTypeOK
<1>7. RunShape(r, run'[r])
  BY <1>2 DEF PagesInv, RunShape, Stages
<1>8. ASSUME spoilt' = {} PROVE RowsExpected' /\ Counted' /\ RunTrue(r, run[r])'
  <2>1. RowsExpected' /\ spoilt = {}
    BY <1>2, <1>5, <1>8, RowsKept DEF PagesInv
  <2>2. RunTrue(r, run[r])'
    BY <1>2, <2>1 DEF PagesInv, RunTrue, Fetched, Stages
  <2> QED
    BY <1>4, <1>5, <1>8, <2>1, <2>2, CountedWhileRunning
<1> QED
  BY <1>6, <1>7, <1>8, MovesKeeps

LEMMA ResultKeeps ==
    ASSUME PagesInv, NEW r \in Runs, Result(r)
    PROVE  PagesInv'
<1>1. run \in [Runs -> RunType] /\ run[r] \in RunType /\ crawl[r].pages \in Seq(Urls)
  BY CrawlFacts DEF PagesInv, PagesTypeOK
<1>2. /\ run' \in [Runs -> RunType] /\ \A q \in Runs \ {r} : run'[q] = run[q]
      /\ \/ run'[r].pc \in {"over", "batch"}
         \/ run'[r].pc = "write" /\ crawl[r].ends # "completed"
      /\ run'[r].seen = run[r].seen /\ run'[r].ok = run[r].ok
      /\ run'[r].bad = run[r].bad /\ run'[r].errors = run[r].errors
      /\ run'[r].todo = crawl[r].pages
      /\ run[r].pc = "poll" /\ UNCHANGED <<crawl, page, assets, counts, flight, spoilt>>
  BY <1>1 DEF Result, RunType
<1>3. Moves(r)
  BY <1>2 DEF Moves, PagesInv, PagesTypeOK
<1>4. RunShape(r, run'[r])
  BY <1>2 DEF PagesInv, RunShape, Stages, Ahead, Fetched
<1>5. ASSUME spoilt' = {} PROVE RowsExpected' /\ Counted' /\ RunTrue(r, run[r])'
  <2>1. RowsExpected'
    BY <1>2, <1>5, RowsKept DEF PagesInv
  <2>2. RunTrue(r, run[r])'
    <3>1. RunTrue(r, run[r]) /\ run[r].seen \subseteq Fetched(r) /\ run[r].ok = 0 /\ run[r].bad = 0
      BY <1>2, <1>5 DEF PagesInv, RunTrue
    <3>2. Cardinality(run[r].seen \ Fetched(r)) = 0 /\ Len(crawl[r].pages) - Len(crawl[r].pages) = 0
      <4>1. run[r].seen \ Fetched(r) = {}
        BY <3>1
      <4> QED
        BY <4>1, FS_EmptySet, CrawlFacts DEF PagesInv
    <3> QED
      BY <1>2, <3>1, <3>2 DEF RunTrue, Fetched, Stages, Behind, Ahead
  <2> QED
    BY <1>2, <1>3, <1>5, <2>1, <2>2, CountedKept
<1> QED
  BY <1>3, <1>4, <1>5, MovesKeeps

-----------------------------------------------------------------------------
\* A page is stored, or refused, and then it is said that a save failed.
LEMMA SaveFacts ==
    ASSUME PagesTypeOK, NEW r, NEW u \in Urls, Save(r, u)
    PROVE  /\ page' \in [Urls -> {"none", "page", "error", "blocked"}]
           /\ assets' \in [Urls -> Nat] /\ spoilt' \subseteq {"save failed", "written late"}
           /\ spoilt' = {} => /\ spoilt = {} /\ Saved
                              /\ page' = [page EXCEPT ![u] = "page"]
           /\ \A v \in Urls : page[v] # "none" => page'[v] # "none"
<1>1. /\ page \in [Urls -> {"none", "page", "error", "blocked"}] /\ assets \in [Urls -> Nat]
      /\ spoilt \subseteq {"save failed", "written late"}
  BY DEF PagesTypeOK
<1>2. CASE /\ page' = [page EXCEPT ![u] = "page"] /\ assets' = [assets EXCEPT ![u] = @ + 1]
           /\ UNCHANGED spoilt
  <2>1. assets'[u] = assets[u] + 1 /\ assets[u] \in Nat
    BY <1>1, <1>2
  <2>2. assets' # assets
    BY <2>1
  <2>3. /\ page' \in [Urls -> {"none", "page", "error", "blocked"}]
        /\ assets' \in [Urls -> Nat] /\ \A v \in Urls : page[v] # "none" => page'[v] # "none"
    <3>1. assets' \in [Urls -> Nat]
      <4> DEFINE n == assets[u] + 1
      <4>1. n \in Nat /\ assets' = [assets EXCEPT ![u] = n]
        BY <1>2, <2>1
      <4> HIDE DEF n
      <4> QED
        BY <1>1, <4>1
    <3>2. /\ page' \in [Urls -> {"none", "page", "error", "blocked"}]
          /\ \A v \in Urls : page[v] # "none" => page'[v] # "none"
      BY <1>1, <1>2
    <3> QED
      BY <3>1, <3>2
  <2> QED
    BY <1>1, <1>2, <2>2, <2>3 DEF Saved
<1>3. CASE /\ page' \in {page, [page EXCEPT ![u] = "page"]}
           /\ spoilt' = spoilt \cup {"save failed"} /\ UNCHANGED assets
  BY <1>1, <1>3
<1> QED
  BY <1>2, <1>3 DEF Save

LEMMA RowStored ==
    ASSUME RowsExpected, NEW r \in Runs, NEW u \in Named(crawl[r]),
           page \in [Urls -> {"none", "page", "error", "blocked"}],
           page' = [page EXCEPT ![u] = RowFor(r, u)], UNCHANGED crawl
    PROVE  RowsExpected'
<1>1. \A v \in Urls : \A kind : MayBeStored(v, kind)' = MayBeStored(v, kind)
  BY DEF MayBeStored, RowFor
<1>2. MayBeStored(u, RowFor(r, u))
  BY DEF MayBeStored
<1>3. \A v \in Urls : page'[v] = page[v] \/ (v = u /\ page'[v] = RowFor(r, u))
  OBVIOUS
<1> QED
  BY <1>1, <1>2, <1>3 DEF RowsExpected

\* The run has dealt with u, the first of what it had to do: it is stored, or was.
Deals(r, u) ==
    /\ Moves(r) /\ run[r].todo # <<>> /\ u = Head(run[r].todo)
    /\ run'[r].todo = Tail(run[r].todo) /\ run'[r].seen = run[r].seen \cup {u}
    /\ run'[r].pc = run[r].pc /\ run'[r].polled = run[r].polled /\ UNCHANGED counts
    /\ run[r].pc \in {"hook"} \cup Stages
    /\ spoilt' = {} => /\ u \in run[r].seen \/ page' = [page EXCEPT ![u] = RowFor(r, u)]
                       /\ u \in run[r].seen => UNCHANGED page

LEMMA AheadNamed ==
    ASSUME PagesTypeOK, NEW r \in Runs, NEW pc
    PROVE  Ahead(r, pc) \subseteq Named(crawl[r]) /\ Behind(r, pc) \subseteq Named(crawl[r])
BY CrawlFacts DEF Ahead, Behind

LEMMA DealsShape ==
    ASSUME PagesInv, NEW r, NEW u, Deals(r, u)
    PROVE  /\ r \in Runs /\ run[r] \in RunType /\ run[r].todo \in Seq(Urls)
           /\ u \in Range(run[r].todo) /\ u \in Named(crawl[r]) /\ u \in Urls
           /\ Range(run[r].todo) = {u} \cup Range(run'[r].todo)
           /\ Len(run'[r].todo) = Len(run[r].todo) - 1 /\ Len(run[r].todo) \in Nat \ {0}
           /\ RunShape(r, run'[r])
<1>1. r \in Runs /\ run[r] \in RunType /\ run[r].todo \in Seq(Urls) /\ RunShape(r, run[r])
  BY DEF Deals, Moves, PagesInv, PagesTypeOK, RunType
<1>2. /\ u \in Range(run[r].todo) /\ Range(run[r].todo) = {u} \cup Range(run'[r].todo)
      /\ Len(run'[r].todo) = Len(run[r].todo) - 1 /\ Len(run[r].todo) \in Nat \ {0}
  BY <1>1, HeadAndTail DEF Deals
<1>3. u \in Named(crawl[r]) /\ u \in Urls
  <2>1. Fetched(r) \subseteq Named(crawl[r]) /\ Ahead(r, run[r].pc) \subseteq Named(crawl[r])
        /\ Named(crawl[r]) \subseteq Urls
    BY CrawlFacts, AheadNamed DEF PagesInv, Deals, Moves
  <2> QED
    BY <1>1, <1>2, <2>1 DEF Deals, RunShape
<1>4. RunShape(r, run'[r])
  BY <1>1, <1>2, <1>3 DEF Deals, RunShape
<1> QED
  BY <1>1, <1>2, <1>3, <1>4

LEMMA DealsRows ==
    ASSUME PagesInv, NEW r, NEW u, Deals(r, u), spoilt' = {}
    PROVE  /\ spoilt = {} /\ RowsExpected' /\ Counted'
           /\ \A v \in run'[r].seen : page'[v] # "none"
<1>1. spoilt = {} /\ UNCHANGED crawl
  BY DEF Deals, Moves
<1>2. u \in Named(crawl[r]) /\ u \in Urls /\ run[r] \in RunType
  BY DealsShape
<1>3. RowsExpected'
  <2>1. CASE page' = page
    BY <1>1, <2>1, RowsKept DEF PagesInv
  <2>2. CASE page' = [page EXCEPT ![u] = RowFor(r, u)]
    BY <1>1, <1>2, <2>2, DealsShape, RowStored DEF PagesInv, PagesTypeOK
  <2> QED
    BY <2>1, <2>2 DEF Deals
<1>4. Counted'
  BY CountedKept DEF Deals
<1>5. \A v \in run'[r].seen : page'[v] # "none"
  <2>1. RowFor(r, u) # "none"
    BY DEF RowFor
  <2>2. RunTrue(r, run[r]) /\ \A v \in Urls : page[v] # "none" => page'[v] # "none"
    BY <1>1 DEF Deals, Moves, PagesInv
  <2>3. u \in run[r].seen \/ page'[u] = RowFor(r, u)
    BY <1>2 DEF Deals, PagesInv, PagesTypeOK
  <2> QED
    BY <1>2, <2>1, <2>2, <2>3 DEF Deals, RunTrue, RunType
<1> QED
  BY <1>1, <1>3, <1>4, <1>5

\* While polling nothing is counted for the batch.
LEMMA DealsWhilePolling ==
    ASSUME PagesInv, NEW r, NEW u, Deals(r, u), run[r].pc = "hook",
           run'[r].ok = run[r].ok, run'[r].bad = run[r].bad, run'[r].errors = run[r].errors
    PROVE  PagesInv'
<1>1. UNCHANGED crawl /\ run'[r].pc = "hook"
  BY DEF Deals, Moves
<1>2. ASSUME spoilt' = {} PROVE RunTrue(r, run[r])'
  <2>1. RunTrue(r, run[r]) /\ \A v \in run'[r].seen : page'[v] # "none"
    BY <1>2, DealsRows, DealsShape DEF PagesInv
  <2>2. Range(run[r].todo) \subseteq Fetched(r) /\ u \in Fetched(r)
        /\ Range(run'[r].todo) \subseteq Fetched(r)
    BY DealsShape DEF PagesInv, RunShape
  <2>3. run'[r].seen \subseteq Fetched(r) /\ run'[r].errors = 0 /\ run'[r].ok = 0 /\ run'[r].bad = 0
    BY <2>1, <2>2 DEF Deals, RunTrue
  <2> QED
    BY <1>1, <2>1, <2>2, <2>3 DEF RunTrue, Stages, Fetched
<1> QED
  BY <1>2, DealsRows, DealsShape, MovesKeeps DEF Deals

LEMMA BatchTrue ==
    ASSUME UNCHANGED crawl, NEW r, NEW z, z.pc \in Stages, \A v \in z.seen : page'[v] # "none",
           Behind(r, z.pc) \subseteq z.seen, z.seen \subseteq Behind(r, z.pc) \cup Ahead(r, z.pc),
           Range(z.todo) \subseteq Ahead(r, z.pc), Ahead(r, z.pc) \subseteq z.seen \cup Range(z.todo),
           z.ok = Len(crawl[r].pages) - (IF z.pc = "batch" THEN Len(z.todo) ELSE 0),
           z.bad = Cardinality(z.seen \ Fetched(r)), z.errors = 0
    PROVE  RunTrue(r, z)'
<1>1. Behind(r, z.pc)' = Behind(r, z.pc) /\ Ahead(r, z.pc)' = Ahead(r, z.pc) /\ Fetched(r)' = Fetched(r)
  BY DEF Behind, Ahead, Fetched, Refused, Forbidden
<1>2. z.pc \notin {"waits", "poll", "hook", "write"}
  BY DEF Stages
<1> QED
  BY <1>1, <1>2 DEF RunTrue

\* In the batch a page is one success more, another address one failure more if it is new.
LEMMA DealsInBatch ==
    ASSUME PagesInv, NEW r, NEW u, Deals(r, u), run[r].pc \in Stages,
           spoilt' = {} =>
              /\ run'[r].errors = run[r].errors
              /\ run'[r].ok = IF run[r].pc = "batch" THEN run[r].ok + 1 ELSE run[r].ok
              /\ run'[r].bad = IF run[r].pc = "batch" \/ u \in run[r].seen
                               THEN run[r].bad ELSE run[r].bad + 1
    PROVE  PagesInv'
<1>1. UNCHANGED crawl /\ run'[r].pc = run[r].pc
  BY DEF Deals, Moves
<1> DEFINE x == run[r]
           y == run'[r]
<1>2. ASSUME spoilt' = {} PROVE RunTrue(r, run[r])'
  <2>1. RunTrue(r, x) /\ \A v \in y.seen : page'[v] # "none"
    BY <1>2, DealsRows, DealsShape DEF PagesInv
  <2>2. /\ Range(x.todo) = {u} \cup Range(y.todo) /\ Len(y.todo) = Len(x.todo) - 1
        /\ Len(x.todo) \in Nat \ {0} /\ y.seen = x.seen \cup {u}
        /\ x \in RunType /\ x.seen \subseteq Named(crawl[r]) /\ u \in Named(crawl[r])
    BY DealsShape DEF Deals, PagesInv, RunShape
  <2>3. /\ Behind(r, x.pc) \subseteq x.seen /\ x.seen \subseteq Behind(r, x.pc) \cup Ahead(r, x.pc)
        /\ Range(x.todo) \subseteq Ahead(r, x.pc) /\ Ahead(r, x.pc) \subseteq x.seen \cup Range(x.todo)
        /\ x.ok = Len(crawl[r].pages) - (IF x.pc = "batch" THEN Len(x.todo) ELSE 0)
        /\ x.bad = Cardinality(x.seen \ Fetched(r)) /\ x.errors = 0
    BY <2>1 DEF RunTrue
  <2>4. /\ Behind(r, x.pc) \subseteq y.seen /\ y.seen \subseteq Behind(r, x.pc) \cup Ahead(r, x.pc)
        /\ Range(y.todo) \subseteq Ahead(r, x.pc) /\ Ahead(r, x.pc) \subseteq y.seen \cup Range(y.todo)
    BY <2>2, <2>3
  <2>5. y.ok = Len(crawl[r].pages) - (IF x.pc = "batch" THEN Len(y.todo) ELSE 0) /\ y.errors = 0
    <3>1. Len(crawl[r].pages) \in Nat
      BY CrawlFacts DEF PagesInv
    <3>2. y.errors = 0 /\ y.ok = IF x.pc = "batch" THEN x.ok + 1 ELSE x.ok
      BY <1>2, <2>3
    <3> HIDE DEF x, y
    <3>3. CASE x.pc = "batch"
      BY <2>2, <2>3, <3>1, <3>2, <3>3
    <3>4. CASE x.pc # "batch"
      BY <2>3, <3>2, <3>4
    <3> QED
      BY <3>2, <3>3, <3>4
  <2>6. y.bad = Cardinality(y.seen \ Fetched(r))
    <3>1. IsFiniteSet(x.seen \ Fetched(r))
      <4>1. PagesTypeOK /\ r \in Runs /\ x.seen \ Fetched(r) \subseteq Named(crawl[r])
        BY <2>2, DealsShape DEF PagesInv
      <4> HIDE DEF x
      <4> QED
        BY <4>1, CrawlFacts
    <3>2. CASE x.pc = "batch"
      <4>1. u \in Fetched(r)
        BY <2>2, <2>3, <3>2 DEF Ahead
      <4>2. y.seen \ Fetched(r) = x.seen \ Fetched(r)
        BY <2>2, <4>1
      <4> QED
        BY <1>2, <2>3, <3>2, <4>2
    <3>3. CASE x.pc # "batch"
      <4>1. Fetched(r) \subseteq x.seen
        BY <2>3, <3>3 DEF Behind
      <4>2. CASE u \in x.seen
        <5>1. y.seen = x.seen
          BY <2>2, <4>2
        <5> QED
          BY <1>2, <2>3, <4>2, <5>1
      <4>3. CASE u \notin x.seen
        <5>1. y.seen \ Fetched(r) = (x.seen \ Fetched(r)) \cup {u} /\ u \notin x.seen \ Fetched(r)
          BY <2>2, <4>1, <4>3
        <5>2. Cardinality(y.seen \ Fetched(r)) = Cardinality(x.seen \ Fetched(r)) + 1
          BY <3>1, <5>1, FS_AddElement
        <5> QED
          BY <1>2, <2>3, <3>3, <4>3, <5>2
      <4> QED
        BY <4>2, <4>3
    <3> QED
      BY <3>2, <3>3
  <2> QED
    BY <1>1, <2>1, <2>4, <2>5, <2>6, BatchTrue
<1> QED
  BY <1>2, DealsRows, DealsShape, MovesKeeps DEF Deals

-----------------------------------------------------------------------------
\* The first of what a run has to do, and the run without it.
LEMMA FirstOfTodo ==
    ASSUME PagesInv, NEW r \in Runs, run[r].todo # <<>>, run[r].pc \in {"hook"} \cup Stages
    PROVE  /\ run \in [Runs -> RunType] /\ run[r] \in RunType /\ PagesTypeOK
           /\ run[r].todo \in Seq(Urls) /\ Tail(run[r].todo) \in Seq(Urls)
           /\ Head(run[r].todo) \in Urls /\ Head(run[r].todo) \in Named(crawl[r])
           /\ run[r].pc \in {"hook", "batch"} => Head(run[r].todo) \in Fetched(r)
<1>1. run \in [Runs -> RunType] /\ run[r] \in RunType /\ PagesTypeOK
  BY DEF PagesInv, PagesTypeOK
<1>2. run[r].todo \in Seq(Urls)
  BY <1>1 DEF RunType
<1>3. /\ Tail(run[r].todo) \in Seq(Urls) /\ Head(run[r].todo) \in Range(run[r].todo)
  BY <1>2, HeadAndTail
<1>4. Range(run[r].todo) \subseteq (IF run[r].pc = "hook" THEN Fetched(r) ELSE Ahead(r, run[r].pc))
  BY DEF PagesInv, RunShape
<1>5. /\ Head(run[r].todo) \in Named(crawl[r]) /\ Named(crawl[r]) \subseteq Urls
  BY <1>1, <1>3, <1>4, CrawlFacts, AheadNamed
<1> QED
  BY <1>1, <1>2, <1>3, <1>4, <1>5 DEF Ahead

LEMMA SaveIncrementKeeps ==
    ASSUME PagesInv, NEW r \in Runs, SaveIncrement(r)
    PROVE  PagesInv'
<1> DEFINE u == Head(run[r].todo)
           rest == Tail(run[r].todo)
<1>1. run[r].todo # <<>> /\ run[r].pc = "hook" /\ UNCHANGED <<crawl, counts, flight>>
  BY DEF SaveIncrement
<1>2. /\ run \in [Runs -> RunType] /\ run[r] \in RunType /\ PagesTypeOK
      /\ rest \in Seq(Urls) /\ u \in Urls /\ u \in Fetched(r)
  BY <1>1, FirstOfTodo
<1>3. CASE u \in run[r].seen
  <2>1. run' = [run EXCEPT ![r].todo = rest] /\ UNCHANGED <<page, assets, spoilt>>
    BY <1>3 DEF SaveIncrement
  <2> HIDE DEF u, rest
  <2>2. /\ run' \in [Runs -> RunType] /\ \A q \in Runs \ {r} : run'[q] = run[q]
        /\ run'[r].pc = run[r].pc /\ run'[r].seen = run[r].seen /\ run'[r].ok = run[r].ok
        /\ run'[r].bad = run[r].bad /\ run'[r].errors = run[r].errors
        /\ run'[r].polled = run[r].polled /\ run'[r].todo = rest
    BY <1>2, <2>1 DEF RunType
  <2>3. Moves(r)
    BY <1>1, <1>2, <2>1, <2>2 DEF Moves, PagesTypeOK
  <2>4. Deals(r, u)
    BY <1>1, <1>3, <2>1, <2>2, <2>3 DEF Deals, u, rest
  <2> QED
    BY <1>1, <2>2, <2>4, DealsWhilePolling
<1>4. CASE u \notin run[r].seen
  <2> DEFINE n == IF Saved THEN run[r].stored + 1 ELSE run[r].stored
  <2>1. /\ Save(r, u)
        /\ run' = [run EXCEPT ![r].todo = rest, ![r].seen = run[r].seen \cup {u},
                              ![r].stored = n]
    BY <1>4 DEF SaveIncrement
  <2>2. n \in Nat
    BY <1>2 DEF RunType
  <2> HIDE DEF u, rest, n
  <2>3. /\ run' \in [Runs -> RunType] /\ \A q \in Runs \ {r} : run'[q] = run[q]
        /\ run'[r].pc = run[r].pc /\ run'[r].seen = run[r].seen \cup {u}
        /\ run'[r].ok = run[r].ok
        /\ run'[r].bad = run[r].bad /\ run'[r].errors = run[r].errors
        /\ run'[r].polled = run[r].polled /\ run'[r].todo = rest
    BY <1>2, <2>1, <2>2 DEF RunType
  <2>4. /\ page' \in [Urls -> {"none", "page", "error", "blocked"}]
        /\ assets' \in [Urls -> Nat] /\ spoilt' \subseteq {"save failed", "written late"}
        /\ spoilt' = {} => spoilt = {} /\ page' = [page EXCEPT ![u] = "page"]
        /\ \A v \in Urls : page[v] # "none" => page'[v] # "none"
    BY <1>2, <2>1, SaveFacts
  <2>5. Moves(r)
    BY <1>1, <1>2, <2>3, <2>4 DEF Moves, PagesTypeOK
  <2>6. RowFor(r, u) = "page"
    BY <1>2 DEF RowFor, Fetched
  <2>7. Deals(r, u)
    BY <1>1, <1>4, <2>3, <2>4, <2>5, <2>6 DEF Deals, u, rest
  <2> QED
    BY <1>1, <2>3, <2>7, DealsWhilePolling
<1> QED
  BY <1>3, <1>4

LEMMA BatchPageKeeps ==
    ASSUME PagesInv, NEW r \in Runs, BatchPage(r)
    PROVE  PagesInv'
<1> DEFINE u == Head(run[r].todo)
           rest == Tail(run[r].todo)
<1>1. run[r].todo # <<>> /\ run[r].pc = "batch" /\ UNCHANGED <<crawl, counts>>
  BY DEF BatchPage
<1>2. /\ run \in [Runs -> RunType] /\ run[r] \in RunType /\ PagesTypeOK
      /\ rest \in Seq(Urls) /\ u \in Urls /\ u \in Fetched(r) /\ u \in Named(crawl[r])
  BY <1>1, FirstOfTodo DEF Stages
<1>3. CASE u \in run[r].seen
  <2>1. /\ run' = [run EXCEPT ![r] = [run[r] EXCEPT !.todo = rest, !.ok = run[r].ok + 1]]
        /\ UNCHANGED <<page, assets, spoilt, flight>>
    BY <1>3 DEF BatchPage, BatchKnown
  <2>2. run[r].ok + 1 \in Nat
    BY <1>2 DEF RunType
  <2> DEFINE x == [run[r] EXCEPT !.todo = rest, !.ok = run[r].ok + 1]
  <2> HIDE DEF u, rest
  <2>3. /\ x \in RunType /\ x.pc = run[r].pc /\ x.seen = run[r].seen
        /\ x.ok = run[r].ok + 1 /\ x.bad = run[r].bad /\ x.errors = run[r].errors
        /\ x.polled = run[r].polled /\ x.todo = rest
    BY <1>2, <2>2 DEF RunType
  <2> HIDE DEF x
  <2>4. /\ run' \in [Runs -> RunType] /\ \A q \in Runs \ {r} : run'[q] = run[q]
        /\ run'[r] = x
    BY <1>2, <2>1, <2>3 DEF x
  <2>5. Moves(r)
    BY <1>1, <1>2, <2>1, <2>4 DEF Moves, PagesTypeOK
  <2>6. Deals(r, u)
    BY <1>1, <1>3, <2>1, <2>3, <2>4, <2>5 DEF Deals, Stages, u, rest
  <2> QED
    BY <1>1, <2>3, <2>4, <2>6, DealsInBatch DEF Stages
<1>4. CASE u \notin run[r].seen
  <2> DEFINE ok == IF Saved THEN run[r].ok + 1 ELSE run[r].ok
             errors == IF Saved THEN run[r].errors ELSE run[r].errors + 1
             settled == run[r].ok + run[r].bad + run[r].errors + 1
             failed == run[r].bad + run[r].errors + IF Saved THEN 0 ELSE 1
             progress == [ok |-> settled - failed, failed |-> failed,
                          total |-> Cardinality(run[r].seen \cup {u})]
  <2>1. /\ Save(r, u)
        /\ run' = [run EXCEPT ![r].todo = rest, ![r].seen = run[r].seen \cup {u},
                              ![r].ok = ok, ![r].errors = errors]
        /\ flight' \subseteq flight \cup {progress}
    BY <1>4 DEF BatchPage
  <2>2. ok \in Nat /\ errors \in Nat /\ (Saved => ok = run[r].ok + 1 /\ errors = run[r].errors)
    BY <1>2 DEF RunType
  <2>3. progress \in ProgressType
    <3>1. settled - failed \in Nat /\ failed \in Nat
      BY <1>2 DEF RunType
    <3>2. run[r].seen \cup {u} \subseteq Named(crawl[r])
      BY <1>2 DEF PagesInv, RunShape
    <3>3. Cardinality(run[r].seen \cup {u}) \in Nat
      BY <1>2, <3>2, CrawlFacts
    <3> HIDE DEF settled, failed, u
    <3> QED
      BY <3>1, <3>3 DEF ProgressType
  <2> HIDE DEF u, rest, ok, errors, progress
  <2>4. /\ run' \in [Runs -> RunType] /\ \A q \in Runs \ {r} : run'[q] = run[q]
        /\ run'[r].pc = run[r].pc /\ run'[r].seen = run[r].seen \cup {u}
        /\ run'[r].ok = ok /\ run'[r].bad = run[r].bad /\ run'[r].errors = errors
        /\ run'[r].polled = run[r].polled /\ run'[r].todo = rest
    <3> DEFINE next == [run[r] EXCEPT !.todo = rest, !.seen = run[r].seen \cup {u},
                                      !.ok = ok, !.errors = errors]
    <3>1. run[r].seen \cup {u} \subseteq Urls /\ run[r] \in RunType /\ rest \in Seq(Urls)
      BY <1>2 DEF RunType
    <3>2. next \in RunType
      BY <2>2, <3>1 DEF RunType
    <3>3. /\ next.pc = run[r].pc /\ next.seen = run[r].seen \cup {u} /\ next.ok = ok
          /\ next.bad = run[r].bad /\ next.errors = errors
          /\ next.polled = run[r].polled /\ next.todo = rest
      BY <3>1 DEF RunType
    <3>4. run' = [run EXCEPT ![r] = next]
      BY <2>1
    <3> HIDE DEF next
    <3>5. run'[r] = next /\ run' \in [Runs -> RunType] /\ \A q \in Runs \ {r} : run'[q] = run[q]
      BY <1>2, <3>2, <3>4
    <3> QED
      BY <3>3, <3>5
  <2>5. /\ page' \in [Urls -> {"none", "page", "error", "blocked"}]
        /\ assets' \in [Urls -> Nat] /\ spoilt' \subseteq {"save failed", "written late"}
        /\ spoilt' = {} => spoilt = {} /\ Saved /\ page' = [page EXCEPT ![u] = "page"]
        /\ \A v \in Urls : page[v] # "none" => page'[v] # "none"
    BY <1>2, <2>1, SaveFacts
  <2>6. Moves(r)
    BY <1>1, <1>2, <2>1, <2>3, <2>4, <2>5 DEF Moves, PagesTypeOK
  <2>7. RowFor(r, u) = "page"
    BY <1>2 DEF RowFor, Fetched
  <2>8. Deals(r, u)
    BY <1>1, <1>4, <2>4, <2>5, <2>6, <2>7 DEF Deals, Stages, u, rest
  <2> QED
    BY <1>1, <2>2, <2>4, <2>5, <2>8, DealsInBatch DEF Stages
<1> QED
  BY <1>3, <1>4

LEMMA BatchOtherKeeps ==
    ASSUME PagesInv, NEW r \in Runs, BatchOther(r)
    PROVE  PagesInv'
<1> DEFINE u == Head(run[r].todo)
           rest == Tail(run[r].todo)
           kind == IF run[r].pc = "failed" THEN "error" ELSE "blocked"
<1>1. /\ run[r].todo # <<>> /\ run[r].pc \in {"failed", "robots"}
      /\ UNCHANGED <<crawl, assets, counts, flight>>
  BY DEF BatchOther
<1>2. /\ run \in [Runs -> RunType] /\ run[r] \in RunType /\ PagesTypeOK
      /\ rest \in Seq(Urls) /\ u \in Urls /\ u \in Named(crawl[r])
      /\ u \in Ahead(r, run[r].pc)
  <2>1. u \in Range(run[r].todo)
    BY <1>1, FirstOfTodo, HeadAndTail DEF Stages
  <2> QED
    BY <1>1, <2>1, FirstOfTodo DEF Stages, PagesInv, RunShape
<1>3. CASE u \in run[r].seen
  <2>1. run' = [run EXCEPT ![r].todo = rest] /\ UNCHANGED <<page, spoilt>>
    BY <1>3 DEF BatchOther
  <2> HIDE DEF u, rest
  <2>2. /\ run' \in [Runs -> RunType] /\ \A q \in Runs \ {r} : run'[q] = run[q]
        /\ run'[r].pc = run[r].pc /\ run'[r].seen = run[r].seen /\ run'[r].ok = run[r].ok
        /\ run'[r].bad = run[r].bad /\ run'[r].errors = run[r].errors
        /\ run'[r].polled = run[r].polled /\ run'[r].todo = rest
    BY <1>2, <2>1 DEF RunType
  <2>3. Moves(r)
    BY <1>1, <1>2, <2>1, <2>2 DEF Moves, PagesTypeOK
  <2>4. Deals(r, u)
    BY <1>1, <1>3, <2>1, <2>2, <2>3 DEF Deals, Stages, u, rest
  <2> QED
    BY <1>1, <1>3, <2>2, <2>4, DealsInBatch DEF Stages
<1>4. CASE /\ u \notin run[r].seen /\ page' = [page EXCEPT ![u] = kind] /\ UNCHANGED spoilt
           /\ run' = [run EXCEPT ![r].todo = rest, ![r].seen = run[r].seen \cup {u},
                                 ![r].bad = run[r].bad + 1]
  <2>1. run[r].bad + 1 \in Nat
    BY <1>2 DEF RunType
  <2> HIDE DEF u, rest
  <2>2. /\ run' \in [Runs -> RunType] /\ \A q \in Runs \ {r} : run'[q] = run[q]
        /\ run'[r].pc = run[r].pc /\ run'[r].seen = run[r].seen \cup {u}
        /\ run'[r].ok = run[r].ok
        /\ run'[r].bad = run[r].bad + 1 /\ run'[r].errors = run[r].errors
        /\ run'[r].polled = run[r].polled /\ run'[r].todo = rest
    BY <1>2, <1>4, <2>1 DEF RunType
  <2>3. Moves(r)
    BY <1>1, <1>2, <1>4, <2>2 DEF Moves, PagesTypeOK
  <2>4. spoilt = {} => kind = RowFor(r, u)
    BY <1>1, <1>2, <1>4 DEF PagesInv, RunTrue, Stages, Behind, Ahead,
     RowFor, Fetched, Refused, Forbidden
  <2>5. Deals(r, u)
    BY <1>1, <1>4, <2>2, <2>3, <2>4 DEF Deals, Stages, u, rest
  <2> QED
    BY <1>1, <1>4, <2>2, <2>5, DealsInBatch DEF Stages
<1>5. CASE /\ u \notin run[r].seen /\ spoilt' = spoilt \cup {"save failed"} /\ UNCHANGED page
           /\ run' = [run EXCEPT ![r].todo = rest, ![r].seen = run[r].seen \cup {u},
                                 ![r].errors = run[r].errors + 1]
  <2>1. run[r].errors + 1 \in Nat
    BY <1>2 DEF RunType
  <2> HIDE DEF u, rest
  <2>2. /\ run' \in [Runs -> RunType] /\ \A q \in Runs \ {r} : run'[q] = run[q]
        /\ run'[r].pc = run[r].pc /\ run'[r].seen = run[r].seen \cup {u}
        /\ run'[r].polled = run[r].polled /\ run'[r].todo = rest
    BY <1>2, <1>5, <2>1 DEF RunType
  <2>3. Moves(r)
    BY <1>1, <1>2, <1>5, <2>2 DEF Moves, PagesTypeOK
  <2>4. Deals(r, u)
    BY <1>1, <1>5, <2>2, <2>3 DEF Deals, Stages, u, rest
  <2> QED
    BY <1>1, <1>5, <2>4, DealsInBatch DEF Stages
<1> QED
  BY <1>3, <1>4, <1>5 DEF BatchOther

-----------------------------------------------------------------------------
\* The next part of the batch, or the writing of the status.
LEMMA BatchNextKeeps ==
    ASSUME PagesInv, NEW r \in Runs, BatchNext(r)
    PROVE  PagesInv'
<1> DEFINE pc == CASE run[r].pc = "batch" -> "failed" [] run[r].pc = "failed" -> "robots"
                   [] OTHER -> "write"
           todo == CASE run[r].pc = "batch" -> crawl[r].failed
                     [] run[r].pc = "failed" -> crawl[r].robots [] OTHER -> <<>>
           x == run[r]
<1>1. /\ run \in [Runs -> RunType] /\ x \in RunType /\ PagesTypeOK /\ RunShape(r, x)
      /\ spoilt = {} => RunTrue(r, x)
  BY DEF PagesInv, PagesTypeOK
<1>2. /\ x.pc \in Stages /\ x.todo = <<>>
      /\ UNCHANGED <<crawl, page, assets, counts, flight, spoilt>>
  BY DEF BatchNext, Stages
<1>3. run' = [run EXCEPT ![r].pc = pc, ![r].todo = todo]
  BY DEF BatchNext
<1>4. /\ pc \in {"failed", "robots", "write"} /\ todo \in Seq(Urls)
      /\ pc \in Stages => Range(todo) = Ahead(r, pc)
      /\ pc = "failed" => x.pc = "batch"
      /\ pc = "robots" => x.pc = "failed"
      /\ pc = "write" => x.pc = "robots"
  BY <1>1, <1>2, CrawlFacts DEF Stages, Ahead, Refused, Forbidden
<1> HIDE DEF pc, todo
<1>5. /\ run' \in [Runs -> RunType] /\ \A q \in Runs \ {r} : run'[q] = run[q]
      /\ run'[r].pc = pc /\ run'[r].todo = todo /\ run'[r].seen = x.seen
      /\ run'[r].ok = x.ok /\ run'[r].bad = x.bad /\ run'[r].errors = x.errors
  BY <1>1, <1>3, <1>4 DEF RunType
<1>6. Moves(r)
  BY <1>1, <1>2, <1>5 DEF Moves, PagesTypeOK
<1>7. RunShape(r, run'[r])
  BY <1>1, <1>4, <1>5 DEF RunShape
<1>8. ASSUME spoilt' = {} PROVE RowsExpected' /\ Counted' /\ RunTrue(r, run[r])'
  <2>1. spoilt = {} /\ RowsExpected'
    BY <1>2, <1>8, RowsKept DEF PagesInv
  <2>2. /\ Behind(r, x.pc) \subseteq x.seen /\ x.seen \subseteq Behind(r, x.pc) \cup Ahead(r, x.pc)
        /\ Ahead(r, x.pc) \subseteq x.seen /\ x.ok = Len(crawl[r].pages)
        /\ x.bad = Cardinality(x.seen \ Fetched(r)) /\ x.errors = 0
        /\ \A v \in x.seen : page[v] # "none"
    BY <1>1, <1>2, <2>1, NothingLeft, CrawlFacts DEF RunTrue
  <2>3. RunTrue(r, run[r])'
    <3>1. CASE pc \in Stages
      <4>1. Behind(r, pc) \subseteq x.seen /\ x.seen \subseteq Behind(r, pc) \cup Ahead(r, pc)
        BY <1>4, <2>2, <3>1 DEF Behind, Ahead, Stages
      <4>2. pc # "batch" /\ x.ok = Len(crawl[r].pages) - 0
        BY <1>1, <1>4, <2>2 DEF RunType
      <4> QED
        BY <1>2, <1>4, <1>5, <2>2, <3>1, <4>1, <4>2, BatchTrue
    <3>2. CASE pc = "write"
      <4>1. x.seen = Named(crawl[r])
        BY <1>1, <1>4, <2>2, <3>2, CrawlFacts DEF Behind, Ahead, RunShape
      <4> QED
        BY <1>2, <1>5, <2>2, <3>2, <4>1 DEF RunTrue, Stages, Named, Fetched
    <3> QED
      BY <1>4, <3>1, <3>2 DEF Stages
  <2> QED
    BY <1>2, <1>6, <1>8, <2>1, <2>3, CountedKept
<1> QED
  BY <1>6, <1>7, <1>8, MovesKeeps

LEMMA WriteStatusKeeps ==
    ASSUME PagesInv, NEW r \in Runs, WriteStatus(r)
    PROVE  PagesInv'
<1> DEFINE x == run[r]
           size == Cardinality(x.seen)
<1>1. /\ run \in [Runs -> RunType] /\ x \in RunType /\ PagesTypeOK /\ RunShape(r, x)
      /\ spoilt = {} => RunTrue(r, x)
  BY DEF PagesInv, PagesTypeOK
<1>2. x.pc = "write" /\ UNCHANGED <<crawl, page, assets, flight, spoilt>>
  BY DEF WriteStatus
<1>3. /\ run' \in [Runs -> RunType] /\ \A q \in Runs \ {r} : run'[q] = run[q]
      /\ run'[r].pc = "over" /\ run'[r].seen = {} /\ run'[r].errors = 0
  <2> DEFINE done == [NewRun EXCEPT !.pc = "over", !.aborted = run[r].aborted]
  <2>1. done \in RunType /\ done.pc = "over" /\ done.seen = {} /\ done.errors = 0
    <3>1. <<>> \in Seq(Urls)
      BY EmptySeq
    <3> QED
      BY <1>1, <3>1 DEF NewRun, RunType
  <2>2. run' = [run EXCEPT ![r] = done]
    BY DEF WriteStatus
  <2> HIDE DEF done
  <2> QED
    BY <1>1, <2>1, <2>2
<1>4. /\ size \in Nat /\ x.bad + x.errors \in Nat /\ x.ok \in Nat /\ x.stored \in Nat
      /\ Len(crawl[r].pages) \in Nat
  <2>1. size \in Nat /\ Len(crawl[r].pages) \in Nat
    BY <1>1, CrawlFacts DEF RunShape
  <2>2. x.bad + x.errors \in Nat /\ x.ok \in Nat /\ x.stored \in Nat
    BY <1>1 DEF RunType
  <2> QED
    BY <2>1, <2>2
<1>5. counts \in CountType
  BY <1>1 DEF PagesTypeOK
<1>6. /\ counts' \in CountType
      /\ \/ counts'.status = "FAILED"
         \/ /\ crawl[r].ends = "completed"
            /\ counts' = [status |-> "COMPLETED", total |-> size,
                          ok |-> x.ok, failed |-> x.bad + x.errors, by |-> r]
  <2>1. CASE crawl[r].ends = "completed"
    <3>1. counts' = [status |-> "COMPLETED", total |-> size,
                     ok |-> x.ok, failed |-> x.bad + x.errors, by |-> r]
      BY <2>1 DEF WriteStatus
    <3> HIDE DEF size, x
    <3> QED
      BY <1>4, <2>1, <3>1 DEF CountType
  <2>2. CASE counts' = [counts EXCEPT !.status = "FAILED", !.by = r]
    BY <1>5, <2>2 DEF CountType
  <2>3. ASSUME NEW told \in {0, Len(crawl[r].pages)},
               counts' = [status |-> "FAILED", ok |-> x.stored, by |-> r,
                          total |-> Larger(told, size), failed |-> Larger(1, told - x.stored)]
        PROVE  counts' \in CountType /\ counts'.status = "FAILED"
    <3>1. Larger(told, size) \in Nat /\ Larger(1, told - x.stored) \in Nat
      <4>1. told \in Nat
        BY <1>4
      <4> HIDE DEF size, x
      <4> QED
        BY <1>4, <4>1 DEF Larger
    <3> HIDE DEF size, x
    <3> QED
      BY <1>4, <2>3, <3>1 DEF CountType
  <2> QED
    BY <2>1, <2>2, <2>3 DEF WriteStatus
<1>7. Moves(r)
  BY <1>1, <1>2, <1>3, <1>6 DEF Moves, PagesTypeOK
<1>8. RunShape(r, run'[r])
  BY <1>3 DEF RunShape, Stages
<1>9. ASSUME spoilt' = {} PROVE RowsExpected' /\ Counted' /\ RunTrue(r, run[r])'
  <2>1. spoilt = {} /\ RowsExpected'
    BY <1>2, <1>9, RowsKept DEF PagesInv
  <2>2. RunTrue(r, run[r])'
    BY <1>3 DEF RunTrue, Stages
  <2>3. Counted'
    <3>1. CASE counts'.status # "FAILED"
      <4>1. /\ crawl[r].ends = "completed"
            /\ counts'.total = size /\ counts'.ok = x.ok
            /\ counts'.failed = x.bad + x.errors /\ counts'.by = r
        BY <1>6, <3>1
      <4>2. /\ x.seen = Named(crawl[r]) /\ x.ok = Len(crawl[r].pages) /\ x.errors = 0
            /\ x.bad = Cardinality(Named(crawl[r]) \ Fetched(r))
            /\ \A v \in Named(crawl[r]) : page[v] # "none"
        BY <1>1, <1>2, <2>1, <4>1 DEF RunTrue
      <4>3. x.bad + x.errors = x.bad
        BY <1>1, <4>2 DEF RunType
      <4>4. CountedBy(r)'
        BY <1>2, <4>1, <4>2, <4>3 DEF CountedBy, Fetched
      <4> QED
        BY <4>1, <4>4 DEF Counted
    <3>2. CASE counts'.status = "FAILED"
      BY <3>2, CountedWhileRunning
    <3> QED
      BY <3>1, <3>2
  <2> QED
    BY <2>1, <2>2, <2>3
<1> QED
  BY <1>7, <1>8, <1>9, MovesKeeps

LEMMA LandKeeps ==
    ASSUME PagesInv, NEW p \in flight, Land(p)
    PROVE  PagesInv'
<1>1. counts \in CountType /\ p \in ProgressType /\ PagesTypeOK
  BY DEF PagesInv, PagesTypeOK
<1>2. /\ UNCHANGED <<crawl, page, assets, run>> /\ flight' \subseteq flight
      /\ counts' = [counts EXCEPT !.total = p.total, !.ok = p.ok, !.failed = p.failed]
      /\ spoilt' \subseteq spoilt \cup {"written late"} /\ spoilt \subseteq spoilt'
      /\ spoilt' = {} => counts.status = "RUNNING"
  BY DEF Land, WithProgress
<1>3. counts' \in CountType /\ counts'.status = counts.status
  BY <1>1, <1>2 DEF CountType, ProgressType
<1>4. PagesTypeOK'
  BY <1>1, <1>2, <1>3 DEF PagesTypeOK
<1>5. \A q \in Runs : RunShape(q, run[q])'
  BY <1>2 DEF PagesInv, RunShape, Named, Fetched, Ahead, Refused, Forbidden
<1>6. ASSUME spoilt' = {} PROVE RowsExpected' /\ Counted' /\ \A q \in Runs : RunTrue(q, run[q])'
  <2>1. spoilt = {} /\ RowsExpected'
    BY <1>2, <1>6, RowsKept DEF PagesInv
  <2>2. Counted'
    BY <1>2, <1>3, <1>6, CountedWhileRunning
  <2>3. ASSUME NEW q \in Runs PROVE RunTrue(q, run[q])'
    <3>1. RunTrue(q, run[q]) /\ run' = run /\ page' = page /\ crawl' = crawl
      BY <1>2, <2>1 DEF PagesInv
    <3> QED
      BY <3>1 DEF RunTrue, Named, Fetched, Ahead, Behind, Refused, Forbidden
  <2> QED
    BY <2>1, <2>2, <2>3
<1> QED
  BY <1>4, <1>5, <1>6 DEF PagesInv

LEMMA PagesInitially == PagesInit => PagesInv
<1> SUFFICES ASSUME PagesInit PROVE PagesInv
  OBVIOUS
<1>1. NewRun \in RunType
  <2>1. <<>> \in Seq(Urls)
    BY EmptySeq
  <2> QED
    BY <2>1 DEF NewRun, RunType
<1>2. PagesTypeOK
  BY <1>1 DEF PagesInit, PagesTypeOK, CountType
<1>3. ASSUME NEW r \in Runs PROVE RunShape(r, run[r]) /\ RunTrue(r, run[r])
  <2>1. run[r].pc = "waits" /\ run[r].seen = {} /\ run[r].errors = 0
        /\ run[r].ok = 0 /\ run[r].bad = 0
    BY <1>3 DEF PagesInit, NewRun
  <2> QED
    BY <2>1 DEF RunShape, RunTrue, Stages
<1>4. RowsExpected /\ Counted
  BY DEF PagesInit, RowsExpected, Counted
<1> QED
  BY <1>2, <1>3, <1>4 DEF PagesInv

LEMMA PagesStutter == PagesInv /\ UNCHANGED pageVars => PagesInv'
<1> SUFFICES ASSUME PagesInv, UNCHANGED pageVars PROVE PagesInv'
  OBVIOUS
<1>1. /\ crawl' = crawl /\ page' = page /\ assets' = assets /\ counts' = counts
      /\ run' = run /\ flight' = flight /\ spoilt' = spoilt
  BY DEF pageVars
<1>2. PagesTypeOK' /\ \A q \in Runs : RunShape(q, run[q])'
  BY <1>1 DEF PagesInv, PagesTypeOK, RunShape, Named, Fetched, Ahead, Refused, Forbidden
<1>3. ASSUME spoilt' = {} PROVE RowsExpected' /\ Counted' /\ \A q \in Runs : RunTrue(q, run[q])'
  <2>1. spoilt = {}
    BY <1>1, <1>3
  <2>2. RowsExpected'
    BY <1>1, <2>1, RowsKept DEF PagesInv
  <2>3. Counted'
    BY <1>1, <2>1 DEF PagesInv, Counted, CountedBy, Fetched
  <2>4. ASSUME NEW q \in Runs PROVE RunTrue(q, run[q])'
    <3>1. RunTrue(q, run[q])
      BY <2>1 DEF PagesInv
    <3> QED
      BY <1>1, <3>1 DEF RunTrue, Named, Fetched, Ahead, Behind, Refused, Forbidden
  <2> QED
    BY <2>2, <2>3, <2>4
<1> QED
  BY <1>2, <1>3 DEF PagesInv

\* What a crawl asks for is of a kind that says whether the address was fetched.
LEMMA InvariantCounts == PagesInv => CountsAreTrue
<1> DEFINE r == counts.by
           Of(kinds) == {u \in Named(crawl[r]) : RowFor(r, u) \in kinds}
<1> SUFFICES ASSUME PagesInv, counts.status = "COMPLETED", spoilt = {}
             PROVE  /\ counts.total = Cardinality(Named(crawl[r]))
                    /\ counts.failed = Cardinality(Of({"error", "blocked"}))
                    /\ NamedOnce(crawl[r]) => counts.ok = Cardinality(Of({"page"}))
                    /\ \A u \in Named(crawl[r]) :
                          \E q \in Runs : u \in Named(crawl[q]) /\ page[u] = RowFor(q, u)
  BY DEF CountsAreTrue
<1>1. /\ r \in Runs /\ \A u \in Named(crawl[r]) : page[u] # "none"
      /\ counts.total = Cardinality(Named(crawl[r])) /\ counts.ok = Len(crawl[r].pages)
      /\ counts.failed = Cardinality(Named(crawl[r]) \ Fetched(r))
  BY DEF PagesInv, Counted, CountedBy
<1>2. Named(crawl[r]) \subseteq Urls /\ Fetched(r) \subseteq Named(crawl[r])
  BY <1>1, CrawlFacts DEF PagesInv
<1>3. \A u \in Named(crawl[r]) : MayBeStored(u, page[u])
  BY <1>1, <1>2 DEF PagesInv, RowsExpected
<1> HIDE DEF r
<1>4. \A u : RowFor(r, u) = "page" <=> u \in Fetched(r)
  BY DEF RowFor, Fetched
<1>5. \A u : RowFor(r, u) \in {"page", "error", "blocked"}
  BY DEF RowFor
<1>6. Of({"error", "blocked"}) = Named(crawl[r]) \ Fetched(r)
  BY <1>4, <1>5
<1>7. Of({"page"}) = Fetched(r)
  BY <1>2, <1>4
<1>8. NamedOnce(crawl[r]) => Len(crawl[r].pages) = Cardinality(Fetched(r))
  BY DEF NamedOnce, Fetched
<1>9. \A u \in Named(crawl[r]) :
        \E q \in Runs : u \in Named(crawl[q]) /\ page[u] = RowFor(q, u)
  BY <1>3 DEF MayBeStored
<1> QED
  BY <1>1, <1>6, <1>7, <1>8, <1>9

LEMMA PagesStep == PagesInv /\ [PagesNext]_pageVars => PagesInv'
<1> SUFFICES ASSUME PagesInv, PagesNext PROVE PagesInv'
  BY PagesStutter
<1>1. ASSUME NEW r \in Runs,
             \/ StartRun(r) \/ TimeOut(r) \/ Poll(r) \/ SaveIncrement(r) \/ ShowProgress(r)
             \/ Result(r) \/ BatchPage(r) \/ BatchOther(r) \/ BatchNext(r) \/ WriteStatus(r)
      PROVE  PagesInv'
  BY <1>1, StartRunKeeps, TimeOutKeeps, PollKeeps, SaveIncrementKeeps, ShowProgressKeeps,
     ResultKeeps, BatchPageKeeps, BatchOtherKeeps, BatchNextKeeps, WriteStatusKeeps
<1>2. ASSUME NEW p \in flight, Land(p) PROVE PagesInv'
  BY <1>2, LandKeeps
<1> QED
  BY <1>1, <1>2 DEF PagesNext

\* The counters of a completed job are those of the crawl of the attempt that completed
\* it, for every pair of crawls, every order of two attempts and every result:
\* persistIncrementalPages, persistBatchResults and the writes of counters between them
\* neither forget an address of that crawl nor count one twice.
THEOREM CountersTrue == PagesSpec => []CountsAreTrue
BY PagesInitially, PagesStep, InvariantCounts, PTL DEF PagesSpec

-----------------------------------------------------------------------------
(* Reports *)

DiffRow == [site : SUBSET PageType, scheduled : BOOLEAN, pages : SUBSET PageType,
            deleted : BOOLEAN, status : {"RUNNING", "COMPLETED", "FAILED"}]

Maps == UNION {MapsOf(pages) : pages \in SUBSET AllPages}
AllKeys == KeysOf(AllPages)
ReaderRow == [busy : BOOLEAN, against : DiffJobs \cup {None}, current : Maps, late : BOOLEAN]
ReportRow == [previous : DiffJobs \cup {None}, current : Maps, before : Maps,
              late : BOOLEAN, new : SUBSET AllKeys, modified : SUBSET AllKeys,
              deleted : SUBSET AllKeys, unchanged : SUBSET AllKeys, made : BOOLEAN]

\* Who has read the pages after the last of them was stored has them as they are.
ReadAll ==
    ~diffJob[Subject].deleted =>
        /\ report.made /\ ~report.late => report.current \in MapsOf(diffJob[Subject].pages)
        /\ \A r \in Readers : reader[r].busy /\ ~reader[r].late =>
              reader[r].current \in MapsOf(diffJob[Subject].pages)

DiffRowsOK == /\ diffJob \in [DiffJobs -> DiffRow]
              /\ \A j \in DiffJobs : diffJob[j].pages \subseteq diffJob[j].site

\* The strengthening of DiffsAreTrue.
DiffInv ==
    /\ DiffRowsOK /\ report \in ReportRow /\ reader \in [Readers -> ReaderRow]
    /\ report.made => Compares(report)
    /\ ReadAll

\* Of finitely many jobs one is the newest.
LEMMA NewestThere ==
    ASSUME NEW n \in Nat, NEW S \in SUBSET (1..n), S # {}
    PROVE  Max(S) \in S
<1> DEFINE T == {n - x : x \in S}
           less == OpToRel(<, Nat)
<1>1. T \subseteq Nat /\ T # {}
  <2>1. \A x \in S : n - x \in Nat
    OBVIOUS
  <2>2. PICK x \in S : TRUE
    OBVIOUS
  <2> QED
    BY <2>1, <2>2
<1>2. PICK t \in T : \A y \in T : ~(<<y, t>> \in less)
  <2>1. IsWellFoundedOn(less, Nat)
    BY NatLessThanWellFounded
  <2> QED
    BY <1>1, <2>1, WFMin
<1>3. \A y \in T : ~(y < t)
  BY <1>1, <1>2 DEF OpToRel
<1>4. PICK x \in S : t = n - x
  OBVIOUS
<1>5. \A y \in S : x >= y
  BY <1>3, <1>4
<1> QED
  BY <1>5 DEF Max

LEMMA BaselineThere == FindBaselineJob \in DiffJobs \cup {None}
<1> DEFINE completed == {k \in DiffJobs \ {Subject} :
                            diffJob[k].status = "COMPLETED" /\ ~diffJob[k].deleted}
           planned == {k \in completed : diffJob[Subject].scheduled /\ diffJob[k].scheduled}
<1>1. planned \subseteq DiffJobs /\ completed \subseteq DiffJobs
  OBVIOUS
<1>2. Cardinality(DiffJobs) \in Nat
  BY DiffConstants, FS_CardinalityType DEF DiffConstants
<1> HIDE DEF completed, planned
<1>3. /\ planned # {} => Max(planned) \in DiffJobs
      /\ completed # {} => Max(completed) \in DiffJobs
  BY <1>1, <1>2, DiffConstants, NewestThere DEF DiffConstants
<1>4. FindBaselineJob = IF planned # {} THEN Max(planned)
                        ELSE IF completed # {} THEN Max(completed) ELSE None
  BY DEF FindBaselineJob, completed, planned
<1> QED
  BY <1>3, <1>4

\* A map of pages of these jobs names each by its key.
LEMMA MapFacts ==
    ASSUME NEW pages \in SUBSET AllPages, NEW f \in MapsOf(pages)
    PROVE  f \in Maps /\ IsMap(f) /\ DOMAIN f \subseteq AllKeys
<1>1. f \in Maps
  BY DEF Maps
<1>2. f \in [KeysOf(pages) -> pages] /\ \A x \in KeysOf(pages) : KeyOf(f[x]) = x
  BY DEF MapsOf
<1>3. KeysOf(pages) \subseteq AllKeys
  BY DEF KeysOf, AllKeys
<1> QED
  BY <1>1, <1>2, <1>3 DEF IsMap

LEMMA MapsAreMaps == \A f \in Maps : IsMap(f) /\ DOMAIN f \subseteq AllKeys
<1> SUFFICES ASSUME NEW f \in Maps PROVE IsMap(f) /\ DOMAIN f \subseteq AllKeys
  OBVIOUS
<1>1. PICK pages \in SUBSET AllPages : f \in MapsOf(pages)
  BY DEF Maps
<1> QED
  BY <1>1, MapFacts

LEMMA EmptyMap == <<>> \in MapsOf({}) /\ <<>> \in Maps /\ KeysOf({}) = {}
<1>1. KeysOf({}) = {}
  BY DEF KeysOf
<1>2. <<>> \in [{} -> {}]
  OBVIOUS
<1>3. <<>> \in MapsOf({})
  BY <1>1, <1>2 DEF MapsOf
<1> QED
  BY <1>1, <1>3 DEF Maps

LEMMA NoneMade == NoReport \in ReportRow /\ NoReader \in ReaderRow
BY EmptyMap DEF NoReport, NoReader, ReportRow, ReaderRow

LEMMA DiffFacts ==
    ASSUME DiffRowsOK
    PROVE  /\ Subject \in DiffJobs /\ None \notin DiffJobs
           /\ \A j \in DiffJobs :
                 /\ diffJob[j] \in DiffRow /\ diffJob[j].pages \subseteq diffJob[j].site
                 /\ diffJob[j].site \subseteq AllPages /\ diffJob[j].pages \subseteq AllPages
<1>1. Subject \in DiffJobs /\ None \notin DiffJobs
  <2>1. Cardinality(DiffJobs) \in Nat
    BY DiffConstants, FS_CardinalityType DEF DiffConstants
  <2> QED
    BY <2>1, DiffConstants DEF DiffConstants, None
<1>2. \A j \in DiffJobs : diffJob[j].site \subseteq AllPages
  BY DEF AllPages
<1> QED
  BY <1>1, <1>2 DEF DiffRowsOK

\* What ComparePageSets makes of two maps is so.
LEMMA ComparedRight ==
    ASSUME NEW k \in DiffJobs \cup {None}, NEW current \in Maps, NEW before \in Maps,
           NEW late \in BOOLEAN
    PROVE  LET r == ComparePageSets(current, k, before, late)
           IN  /\ Compares(r) /\ r \in ReportRow
               /\ r.current = current /\ r.late = late
<1> DEFINE both == DOMAIN current \cap DOMAIN before
           modified == {x \in both : Modified(before[x], current[x])}
           r == ComparePageSets(current, k, before, late)
<1>1. r = [previous |-> k, current |-> current, before |-> before, late |-> late, made |-> TRUE,
           new |-> DOMAIN current \ DOMAIN before, modified |-> modified,
           unchanged |-> both \ modified, deleted |-> DOMAIN before \ DOMAIN current]
  BY DEF ComparePageSets
<1>2. DOMAIN current \subseteq AllKeys /\ DOMAIN before \subseteq AllKeys
  BY MapsAreMaps
<1>3. modified \subseteq both
  OBVIOUS
<1>4. /\ \A x \in modified : Modified(before[x], current[x])
      /\ \A x \in both \ modified : ~Modified(before[x], current[x])
  OBVIOUS
<1> HIDE DEF r, modified
<1>5. r \in ReportRow
  BY <1>1, <1>2, <1>3 DEF ReportRow
<1>6. /\ r.new = DOMAIN current \ DOMAIN before /\ r.modified = modified
      /\ r.unchanged = both \ modified /\ r.deleted = DOMAIN before \ DOMAIN current
      /\ r.current = current /\ r.before = before /\ r.late = late
  BY <1>1
<1>7. /\ r.new \cup r.modified \cup r.unchanged = DOMAIN r.current
      /\ r.deleted \cup r.modified \cup r.unchanged = DOMAIN r.before
      /\ r.new \cap DOMAIN r.before = {} /\ r.deleted \cap DOMAIN r.current = {}
  BY <1>3, <1>6
<1>8. ASSUME NEW x \in r.unchanged
      PROVE  /\ r.before[x].status = r.current[x].status
             /\ r.before[x].hash # NoHash /\ r.current[x].hash # NoHash =>
                   r.before[x].hash = r.current[x].hash
  BY <1>4, <1>6 DEF Modified
<1>9. ASSUME NEW x \in r.modified PROVE ~SamePage(r.before[x], r.current[x])
  BY <1>4, <1>6 DEF Modified, SamePage
<1> QED
  BY <1>5, <1>6, <1>7, <1>8, <1>9 DEF Compares, r

-----------------------------------------------------------------------------
\* A step keeps the sites.
SitesStay == DiffRowsOK' /\ \A j \in DiffJobs : diffJob'[j].site = diffJob[j].site

LEMMA SitesStayFacts ==
    ASSUME SitesStay
    PROVE  /\ AllPages' = AllPages /\ Maps' = Maps /\ ReaderRow' = ReaderRow
           /\ ReportRow' = ReportRow
<1>1. AllPages' = AllPages
  BY DEF SitesStay, AllPages
<1>2. Maps' = Maps /\ AllKeys' = AllKeys
  BY <1>1 DEF Maps, AllKeys
<1> QED
  BY <1>1, <1>2 DEF ReaderRow, ReportRow

\* A step that changes the row of one job.
LEMMA RowGrows ==
    ASSUME DiffRowsOK, NEW j \in DiffJobs, NEW row \in DiffRow,
           diffJob' = [diffJob EXCEPT ![j] = row],
           row.site = diffJob[j].site, row.pages \subseteq row.site
    PROVE  SitesStay /\ diffJob'[j] = row /\ \A k \in DiffJobs \ {j} : diffJob'[k] = diffJob[k]
<1>1. /\ diffJob' \in [DiffJobs -> DiffRow] /\ diffJob'[j] = row
      /\ \A k \in DiffJobs \ {j} : diffJob'[k] = diffJob[k]
  BY DEF DiffRowsOK
<1>2. \A k \in DiffJobs : diffJob'[k].pages \subseteq diffJob'[k].site
  BY <1>1 DEF DiffRowsOK
<1> QED
  BY <1>1, <1>2 DEF SitesStay, DiffRowsOK

LEMMA SitesStayWithRows ==
    ASSUME DiffRowsOK, diffJob' = diffJob
    PROVE  SitesStay
BY DEF SitesStay, DiffRowsOK

\* The report stays, with its mark or without, or goes.
LEMMA ReportMarked ==
    ASSUME NEW r \in ReportRow, NEW late \in BOOLEAN, r.made => Compares(r)
    PROVE  LET new == [r EXCEPT !.late = late]
           IN  /\ new \in ReportRow /\ new.late = late /\ new.made = r.made
               /\ new.current = r.current
               /\ new.made => Compares(new)
<1> DEFINE new == [r EXCEPT !.late = late]
<1>1. /\ new \in ReportRow /\ new.late = late /\ new.made = r.made /\ new.current = r.current
      /\ new.before = r.before /\ new.new = r.new /\ new.modified = r.modified
      /\ new.deleted = r.deleted /\ new.unchanged = r.unchanged
  BY DEF ReportRow
<1> HIDE DEF new
<1>2. ASSUME Compares(r) PROVE Compares(new)
  BY <1>1, <1>2 DEF Compares
<1> QED
  BY <1>1, <1>2 DEF new

-----------------------------------------------------------------------------
LEMMA StorePageKeeps ==
    ASSUME DiffInv, NEW j \in DiffJobs, StorePage(j)
    PROVE  DiffInv'
<1>1. /\ DiffRowsOK /\ report \in ReportRow /\ reader \in [Readers -> ReaderRow]
      /\ report.made => Compares(report)
      /\ ReadAll
  BY DEF DiffInv
<1>2. PICK found \in diffJob[j].site \ diffJob[j].pages :
        diffJob' = [diffJob EXCEPT ![j].pages =
                       {p \in @ : p.address # found.address} \cup {found}]
  BY DEF StorePage
<1> DEFINE old == diffJob[j]
           pages == {p \in old.pages : p.address # found.address} \cup {found}
           row == [old EXCEPT !.pages = pages]
<1>3. old \in DiffRow /\ old.pages \subseteq old.site /\ pages \subseteq old.site
  BY <1>1, DiffFacts
<1>4. diffJob' = [diffJob EXCEPT ![j] = row]
  BY <1>2
<1> HIDE DEF pages
<1>5. row \in DiffRow /\ row.site = old.site /\ row.pages \subseteq row.site
      /\ row.deleted = old.deleted
  BY <1>3 DEF DiffRow
<1> HIDE DEF row
<1>6. SitesStay /\ \A k \in DiffJobs \ {j} : diffJob'[k] = diffJob[k]
  BY <1>1, <1>4, <1>5, RowGrows
<1>7. Subject \in DiffJobs
  BY <1>1, DiffFacts
<1>8. CASE j = Subject
  <2>1. /\ reader' = [r \in Readers |-> [reader[r] EXCEPT !.late = reader[r].busy]]
        /\ report' = [report EXCEPT !.late = report.made]
    BY <1>8 DEF StorePage
  <2>2. report.made \in BOOLEAN
    BY <1>1 DEF ReportRow
  <2>3. /\ report' \in ReportRow
        /\ report'.made => report'.late
        /\ report'.made => Compares(report)'
    <3>1. /\ report' \in ReportRow /\ report'.late = report.made /\ report'.made = report.made
          /\ report'.made => Compares(report')
      BY <1>1, <2>1, <2>2, ReportMarked
    <3> QED
      BY <3>1 DEF Compares
  <2>4. ASSUME NEW r \in Readers
        PROVE  reader'[r] \in ReaderRow /\ (reader'[r].busy => reader'[r].late)
    <3>1. reader[r] \in ReaderRow /\ reader'[r] = [reader[r] EXCEPT !.late = reader[r].busy]
      BY <1>1, <2>1
    <3> QED
      BY <3>1 DEF ReaderRow
  <2>5. reader' \in [Readers -> ReaderRow]
    BY <2>1, <2>4
  <2>6. ReadAll'
    BY <2>3, <2>4 DEF ReadAll
  <2> QED
    BY <1>6, <2>3, <2>5, <2>6, SitesStayFacts DEF DiffInv, SitesStay
<1>9. CASE j # Subject
  <2>1. report' = report /\ reader' = reader
    BY <1>9 DEF StorePage
  <2>2. diffJob'[Subject] = diffJob[Subject]
    BY <1>6, <1>7, <1>9
  <2>3. ReadAll'
    BY <1>1, <2>1, <2>2 DEF ReadAll
  <2>4. report'.made => Compares(report)'
    BY <1>1, <2>1 DEF Compares
  <2> QED
    BY <1>1, <1>6, <2>1, <2>3, <2>4, SitesStayFacts DEF DiffInv, SitesStay
<1> QED
  BY <1>8, <1>9

\* A reader that has just read the pages has them as they are.
LEMMA ReportBegun ==
    ASSUME DiffInv, NEW r \in Readers, NEW k \in DiffJobs \cup {None}, BeginsReport(r, k),
           SitesStay, diffJob'[Subject].pages = diffJob[Subject].pages,
           diffJob'[Subject].deleted = diffJob[Subject].deleted, report' = report
    PROVE  DiffInv'
<1>1. /\ DiffRowsOK /\ report \in ReportRow /\ reader \in [Readers -> ReaderRow]
      /\ report.made => Compares(report)
      /\ ReadAll
  BY DEF DiffInv
<1>2. PICK current \in MapsOf(diffJob[Subject].pages) :
        reader' = [reader EXCEPT ![r] = [busy |-> TRUE, against |-> k, current |-> current,
                                         late |-> FALSE]]
  BY DEF BeginsReport
<1> DEFINE asked == [busy |-> TRUE, against |-> k, current |-> current, late |-> FALSE]
<1>3. current \in Maps
  BY <1>1, <1>2, DiffFacts, MapFacts
<1>4. asked \in ReaderRow /\ asked.current = current
  BY <1>3 DEF ReaderRow
<1>5. reader' = [reader EXCEPT ![r] = asked]
  BY <1>2
<1> HIDE DEF asked
<1>6. /\ reader' \in [Readers -> ReaderRow] /\ reader'[r].current = current
      /\ \A q \in Readers \ {r} : reader'[q] = reader[q]
  BY <1>1, <1>4, <1>5
<1>7. ReadAll'
  <2> SUFFICES ASSUME ~diffJob'[Subject].deleted
               PROVE  /\ report'.made /\ ~report'.late =>
                            report'.current \in MapsOf(diffJob[Subject].pages)'
                      /\ \A q \in Readers : reader'[q].busy /\ ~reader'[q].late =>
                            reader'[q].current \in MapsOf(diffJob[Subject].pages)'
    BY DEF ReadAll
  <2>1. MapsOf(diffJob[Subject].pages)' = MapsOf(diffJob[Subject].pages)
    BY DEF MapsOf
  <2> QED
    BY <1>1, <1>2, <1>6, <2>1 DEF ReadAll
<1>8. report'.made => Compares(report)'
  BY <1>1 DEF Compares
<1> QED
  BY <1>1, <1>6, <1>7, <1>8, SitesStayFacts DEF DiffInv, SitesStay

\* A step of a status, or a deletion.
LEMMA CrawlGoesOn ==
    ASSUME DiffInv, NEW j \in DiffJobs,
           CompleteJob(j) \/ FailJob(j) \/ RunAgain(j) \/ DeleteJob(j)
    PROVE  DiffInv'
<1> DEFINE old == diffJob[j]
<1>1. /\ DiffRowsOK /\ report \in ReportRow /\ reader \in [Readers -> ReaderRow]
      /\ report.made => Compares(report)
      /\ ReadAll /\ Subject \in DiffJobs
      /\ old \in DiffRow /\ old.pages \subseteq old.site
  BY DiffFacts DEF DiffInv
<1>2. ASSUME NEW status \in {"RUNNING", "COMPLETED", "FAILED"},
             diffJob' = [diffJob EXCEPT ![j].status = status]
      PROVE  /\ SitesStay /\ diffJob'[Subject].pages = diffJob[Subject].pages
             /\ diffJob'[Subject].deleted = diffJob[Subject].deleted
  <2> DEFINE row == [old EXCEPT !.status = status]
  <2>1. diffJob' = [diffJob EXCEPT ![j] = row]
    BY <1>2
  <2>2. /\ row \in DiffRow /\ row.site = old.site /\ row.pages = old.pages
        /\ row.deleted = old.deleted
    BY <1>1 DEF DiffRow
  <2> HIDE DEF row
  <2>3. SitesStay /\ diffJob'[j] = row /\ \A k \in DiffJobs \ {j} : diffJob'[k] = diffJob[k]
    BY <1>1, <2>1, <2>2, RowGrows
  <2> QED
    BY <1>1, <2>2, <2>3
<1>3. ASSUME SitesStay, diffJob'[Subject].pages = diffJob[Subject].pages,
             diffJob'[Subject].deleted = diffJob[Subject].deleted,
             report' = report, reader' = reader
      PROVE  DiffInv'
  <2>1. ReadAll'
    BY <1>1, <1>3 DEF ReadAll, MapsOf
  <2>2. report'.made => Compares(report)'
    BY <1>1, <1>3 DEF Compares
  <2> QED
    BY <1>1, <1>3, <2>1, <2>2, SitesStayFacts DEF DiffInv, SitesStay
<1>4. CASE CompleteJob(j)
  <2>1. diffJob' = [diffJob EXCEPT ![j].status = "COMPLETED"] /\ report' = report
    BY <1>4 DEF CompleteJob
  <2>2. CASE reader' = reader
    BY <1>2, <1>3, <2>1, <2>2
  <2>3. CASE BeginsReport(Worker, None)
    <3>1. Worker \in Readers /\ None \in DiffJobs \cup {None}
      BY DEF Readers
    <3> QED
      BY <1>2, <2>1, <2>3, <3>1, ReportBegun
  <2> QED
    BY <1>4, <2>2, <2>3 DEF CompleteJob
<1>5. CASE FailJob(j) \/ RunAgain(j)
  <2>1. /\ \E status \in {"RUNNING", "COMPLETED", "FAILED"} :
              diffJob' = [diffJob EXCEPT ![j].status = status]
        /\ report' = report /\ reader' = reader
    BY <1>5 DEF FailJob, RunAgain
  <2> QED
    BY <1>2, <1>3, <2>1
<1>6. CASE DeleteJob(j)
  <2> DEFINE row == [old EXCEPT !.deleted = TRUE, !.pages = {}]
  <2>1. /\ diffJob' = [diffJob EXCEPT ![j].deleted = TRUE, ![j].pages = {}]
        /\ report' = IF j = Subject THEN NoReport ELSE report
        /\ reader' = reader
    BY <1>6 DEF DeleteJob
  <2>2. diffJob' = [diffJob EXCEPT ![j] = row]
    BY <1>1, <2>1 DEF DiffRowsOK
  <2>3. /\ row \in DiffRow /\ row.site = old.site /\ row.pages \subseteq row.site
        /\ row.deleted
    BY <1>1 DEF DiffRow
  <2> HIDE DEF row
  <2>4. SitesStay /\ diffJob'[j] = row /\ \A k \in DiffJobs \ {j} : diffJob'[k] = diffJob[k]
    BY <1>1, <2>2, <2>3, RowGrows
  <2>5. CASE j = Subject
    <3>1. report' \in ReportRow /\ ~report'.made
      BY <2>1, <2>5, NoneMade DEF NoReport
    <3>2. ReadAll'
      BY <2>3, <2>4, <2>5 DEF ReadAll
    <3> QED
      BY <1>1, <2>1, <2>4, <3>1, <3>2, SitesStayFacts DEF DiffInv, SitesStay
  <2>6. CASE j # Subject
    BY <1>1, <1>3, <2>1, <2>4, <2>6
  <2> QED
    BY <2>5, <2>6
<1> QED
  BY <1>4, <1>5, <1>6

LEMMA AskReportKeeps ==
    ASSUME DiffInv, NEW c \in Askers, NEW k \in DiffJobs \cup {None}, AskReport(c, k)
    PROVE  DiffInv'
<1>1. c \in Readers /\ BeginsReport(c, k) /\ diffJob' = diffJob /\ report' = report
  BY DEF AskReport, Readers
<1>2. SitesStay
  BY <1>1, SitesStayWithRows DEF DiffInv
<1> QED
  BY <1>1, <1>2, ReportBegun

LEMMA ReaderEnds ==
    ASSUME DiffInv, NEW r \in Readers, WriteReport(r) \/ GiveUpReport(r)
    PROVE  DiffInv'
<1>1. /\ DiffRowsOK /\ report \in ReportRow /\ reader \in [Readers -> ReaderRow]
      /\ report.made => Compares(report)
      /\ ReadAll
  BY DEF DiffInv
<1>2. /\ reader[r].busy /\ reader' = [reader EXCEPT ![r] = NoReader] /\ diffJob' = diffJob
  BY DEF WriteReport, GiveUpReport
<1>3. /\ reader' \in [Readers -> ReaderRow] /\ ~reader'[r].busy
      /\ \A q \in Readers \ {r} : reader'[q] = reader[q]
  BY <1>1, <1>2, NoneMade DEF NoReader
<1>4. SitesStay
  BY <1>1, <1>2, SitesStayWithRows
<1>5. ASSUME report' \in ReportRow, report'.made => Compares(report'),
             ~diffJob[Subject].deleted => (report'.made /\ ~report'.late =>
                 report'.current \in MapsOf(diffJob[Subject].pages))
      PROVE  DiffInv'
  <2>1. ReadAll'
    BY <1>1, <1>2, <1>3, <1>5 DEF ReadAll, MapsOf
  <2>2. report'.made => Compares(report)'
    BY <1>5 DEF Compares
  <2> QED
    BY <1>3, <1>4, <1>5, <2>1, <2>2, SitesStayFacts DEF DiffInv, SitesStay
<1>6. CASE GiveUpReport(r)
  <2>1. report' = report
    BY <1>6 DEF GiveUpReport
  <2> QED
    BY <1>1, <1>5, <2>1 DEF ReadAll
<1>7. CASE WriteReport(r)
  <2> DEFINE k == IF reader[r].against # None THEN reader[r].against ELSE FindBaselineJob
  <2>1. PICK before \in MapsOf(IF k = None THEN {} ELSE diffJob[k].pages) :
          report' = ComparePageSets(reader[r].current, k, before, reader[r].late)
    BY <1>7 DEF WriteReport
  <2>2. reader[r] \in ReaderRow
    BY <1>1
  <2>3. k \in DiffJobs \cup {None}
    BY <2>2, BaselineThere DEF ReaderRow
  <2> HIDE DEF k
  <2>4. before \in Maps
    <3>1. CASE k = None
      BY <2>1, <3>1, MapFacts
    <3>2. CASE k # None
      BY <1>1, <2>1, <2>3, <3>2, DiffFacts, MapFacts
    <3> QED
      BY <3>1, <3>2
  <2>5. reader[r].current \in Maps /\ reader[r].late \in BOOLEAN
    BY <2>2 DEF ReaderRow
  <2>6. /\ Compares(report') /\ report' \in ReportRow
        /\ report'.current = reader[r].current /\ report'.late = reader[r].late
    BY <2>1, <2>3, <2>4, <2>5, ComparedRight
  <2>7. ~diffJob[Subject].deleted => (report'.made /\ ~report'.late =>
            report'.current \in MapsOf(diffJob[Subject].pages))
    BY <1>1, <1>2, <2>6 DEF ReadAll
  <2> QED
    BY <1>5, <2>6, <2>7
<1> QED
  BY <1>6, <1>7

LEMMA DiffInvariant == DiffInv => DiffsAreTrue
<1> SUFFICES ASSUME DiffInv PROVE DiffsAreTrue
  OBVIOUS
<1>1. /\ DiffRowsOK /\ report \in ReportRow /\ reader \in [Readers -> ReaderRow]
      /\ report.made => Compares(report)
      /\ ReadAll
  BY DEF DiffInv
<1>2. \A j \in DiffJobs :
          /\ diffJob[j].pages \subseteq diffJob[j].site
          /\ diffJob[j].status \in {"RUNNING", "COMPLETED", "FAILED"}
          /\ diffJob[j].scheduled \in BOOLEAN /\ diffJob[j].deleted \in BOOLEAN
  BY <1>1, DiffFacts DEF DiffRow
<1>3. /\ report.previous \in DiffJobs \cup {None} /\ report.made \in BOOLEAN
      /\ report.late \in BOOLEAN /\ report.current \in Maps /\ report.before \in Maps
  BY <1>1 DEF ReportRow
<1>4. ASSUME NEW r \in Readers
      PROVE  /\ reader[r].busy \in BOOLEAN /\ reader[r].against \in DiffJobs \cup {None}
             /\ reader[r].late \in BOOLEAN /\ reader[r].current \in Maps
  <2>1. reader[r] \in ReaderRow
    BY <1>1
  <2> QED
    BY <2>1 DEF ReaderRow
<1>5. DiffTypeOK
  BY <1>2, <1>3, <1>4, MapsAreMaps DEF DiffTypeOK
<1> QED
  BY <1>1, <1>5 DEF DiffsAreTrue, ReadAll

\* The report of a job is true of the two jobs it names, for every site and baseline and
\* every order of attempts, crawls, deletions and requests: each page of either job has
\* the place that ComparePageSets gives its contents, and the report is of all pages
\* of the job, unless one was stored after its reader had read them.
THEOREM ReportsTrue == DiffSpec => []DiffsAreTrue
<1>1. DiffInit => DiffInv
  <2> SUFFICES ASSUME DiffInit PROVE DiffInv
    OBVIOUS
  <2>1. PICK load \in DiffLoads :
          diffJob = [j \in DiffJobs |->
                        [site |-> load[j].site, scheduled |-> load[j].scheduled,
                         pages |-> {}, deleted |-> FALSE, status |-> "RUNNING"]]
    BY DEF DiffInit
  <2>2. load \in [DiffJobs -> [site : SUBSET PageType, scheduled : BOOLEAN]]
    BY DiffConstants DEF DiffConstants
  <2>3. \A j \in DiffJobs : load[j].site \in SUBSET PageType /\ load[j].scheduled \in BOOLEAN
    BY <2>2
  <2>4. DiffRowsOK
    BY <2>1, <2>3 DEF DiffRowsOK, DiffRow
  <2>5. report = NoReport /\ ~report.made /\ reader = [r \in Readers |-> NoReader]
        /\ \A r \in Readers : ~reader[r].busy
    BY DEF DiffInit, NoReport, NoReader
  <2> QED
    BY <2>4, <2>5, NoneMade DEF DiffInv, ReadAll
<1>2. DiffInv /\ [DiffNext]_diffVars => DiffInv'
  <2> SUFFICES ASSUME DiffInv, [DiffNext]_diffVars PROVE DiffInv'
    OBVIOUS
  <2>1. ASSUME NEW j \in DiffJobs, StorePage(j) PROVE DiffInv'
    BY <2>1, StorePageKeeps
  <2>2. ASSUME NEW j \in DiffJobs,
               CompleteJob(j) \/ FailJob(j) \/ RunAgain(j) \/ DeleteJob(j)
        PROVE  DiffInv'
    BY <2>2, CrawlGoesOn
  <2>3. ASSUME NEW c \in Askers, NEW k \in DiffJobs \cup {None}, AskReport(c, k)
        PROVE  DiffInv'
    BY <2>3, AskReportKeeps
  <2>4. ASSUME NEW r \in Readers, WriteReport(r) \/ GiveUpReport(r) PROVE DiffInv'
    BY <2>4, ReaderEnds
  <2>5. CASE UNCHANGED diffVars
    <3>1. diffJob' = diffJob /\ report' = report /\ reader' = reader
      BY <2>5 DEF diffVars
    <3>2. SitesStay
      BY <3>1, SitesStayWithRows DEF DiffInv
    <3>3. ReadAll' /\ (report'.made => Compares(report)')
      BY <3>1 DEF DiffInv, ReadAll, MapsOf, Compares
    <3> QED
      BY <3>1, <3>2, <3>3, SitesStayFacts DEF DiffInv, SitesStay
  <2> QED
    BY <2>1, <2>2, <2>3, <2>4, <2>5 DEF DiffNext
<1> QED
  BY <1>1, <1>2, DiffInvariant, PTL DEF DiffSpec

-----------------------------------------------------------------------------
(* Numbers *)

\* A set of numbers has a least one.
LEMMA LeastNumber ==
    ASSUME NEW T, T \subseteq Nat, T # {}
    PROVE  \E n \in T : \A k \in T : n <= k
<1> DEFINE below == {pair \in Nat \X Nat : pair[1] < pair[2]}
<1>1. below = OpToRel(<, Nat)
  BY Zenon DEF OpToRel
<1>2. IsWellFoundedOn(below, Nat)
  BY <1>1, NatLessThanWellFounded, Zenon
<1>3. \A k, n \in Nat : k < n => <<k, n>> \in below
  OBVIOUS
<1> HIDE DEF below
<1>4. PICK n \in T : \A k \in T : ~(<<k, n>> \in below)
  BY <1>2, WFMin, Zenon
<1>5. \A k \in T : ~(k < n)
  BY <1>3, <1>4, Zenon
<1>6. n \in Nat /\ \A k \in T : k \in Nat
  OBVIOUS
<1>7. QED
  BY <1>4, <1>5, <1>6

\* So has a set of integers with a lower bound, and a greatest one if it has an upper.
LEMMA LeastInteger ==
    ASSUME NEW T, T \subseteq Int, T # {}, NEW b \in Int, \A k \in T : b <= k
    PROVE  /\ Min(T) \in T /\ \A k \in T : Min(T) <= k
           /\ \A m \in T : (\A k \in T : m <= k) => m = Min(T)
<1> DEFINE above == {k \in Nat : b + k \in T}
<1>1. PICK t \in T : TRUE
  OBVIOUS
<1>2. t - b \in above
  BY <1>1
<1>3. PICK n \in above : \A k \in above : n <= k
  <2>1. above \subseteq Nat /\ above # {}
    BY <1>2
  <2> HIDE DEF above
  <2> QED
    BY <2>1, LeastNumber
<1>4. \A k \in T : k - b \in above
  OBVIOUS
<1>5. b + n \in T /\ n \in Nat
  BY <1>3
<1>6. \A k \in T : b + n <= k
  BY <1>3, <1>4, <1>5
<1>7. \E m \in T : \A k \in T : m <= k
  BY <1>5, <1>6
<1>8. Min(T) \in T /\ \A k \in T : Min(T) <= k
  BY <1>7 DEF Min
<1>9. ASSUME NEW m \in T, \A k \in T : m <= k PROVE m = Min(T)
  <2>1. m <= Min(T) /\ Min(T) <= m /\ m \in Int /\ Min(T) \in Int
    BY <1>8, <1>9
  <2> QED
    BY <2>1
<1>10. QED
  BY <1>8, <1>9

LEMMA GreatestInteger ==
    ASSUME NEW T, T \subseteq Int, T # {}, NEW b \in Int, \A k \in T : k <= b
    PROVE  Max(T) \in T /\ \A k \in T : k <= Max(T)
<1> DEFINE below == {k \in Nat : b - k \in T}
<1>1. PICK t \in T : TRUE
  OBVIOUS
<1>2. b - t \in below
  BY <1>1
<1>3. PICK n \in below : \A k \in below : n <= k
  <2>1. below \subseteq Nat /\ below # {}
    BY <1>2
  <2> HIDE DEF below
  <2> QED
    BY <2>1, LeastNumber
<1>4. \A k \in T : b - k \in below
  OBVIOUS
<1>5. b - n \in T /\ n \in Nat
  BY <1>3
<1>6. ASSUME NEW k \in T PROVE b - n >= k
  <2>1. n <= b - k
    BY <1>3, <1>4
  <2> QED
    BY <1>5, <2>1
<1>7. \E m \in T : \A k \in T : m >= k
  BY <1>5, <1>6
<1>8. Max(T) \in T /\ \A k \in T : Max(T) >= k
  BY <1>7 DEF Max
<1>9. QED
  BY <1>8

LEMMA MinOfTwo ==
    ASSUME NEW a \in Int, NEW b \in Int
    PROVE  Min({a, b}) = IF a <= b THEN a ELSE b
<1>1. \E x \in {a, b} : \A y \in {a, b} : x <= y
  OBVIOUS
<1>2. Min({a, b}) \in {a, b} /\ \A y \in {a, b} : Min({a, b}) <= y
  BY <1>1 DEF Min
<1> QED
  BY <1>2

LEMMA MaxOfTwo ==
    ASSUME NEW a \in Int, NEW b \in Int, a <= b
    PROVE  Max({a, b}) = b
<1>1. \E x \in {a, b} : \A y \in {a, b} : x >= y
  OBVIOUS
<1>2. Max({a, b}) \in {a, b} /\ \A y \in {a, b} : Max({a, b}) >= y
  BY <1>1 DEF Max
<1> QED
  BY <1>2

-----------------------------------------------------------------------------
(* Recursive functions of numbers.  The library's theorem takes the step as an *)
(* operator; here it is a function of the position and the value before it.    *)

RunsTo(g, n, V, base, step) ==
    /\ g \in [0..n -> V] /\ g[0] = base
    /\ \A i \in 1..n : g[i] = step[<<i, g[i - 1]>>]

LEMMA RunsUpTo ==
    ASSUME NEW V, NEW base \in V, NEW step \in [Nat \X V -> V], NEW n \in Nat
    PROVE  \E g : RunsTo(g, n, V, base, step)
<1> DEFINE Unbuilt == {m \in Nat : ~\E g : RunsTo(g, m, V, base, step)}
<1> SUFFICES ASSUME Unbuilt # {} PROVE FALSE
  OBVIOUS
<1>1. PICK m \in Unbuilt : \A k \in Unbuilt : m <= k
  <2>1. Unbuilt \subseteq Nat
    OBVIOUS
  <2> HIDE DEF Unbuilt
  <2> QED
    BY <2>1, LeastNumber
<1>2. m \in Nat /\ ~\E g : RunsTo(g, m, V, base, step)
  OBVIOUS
<1>3. m # 0
  <2>1. RunsTo([i \in 0..0 |-> base], 0, V, base, step)
    BY DEF RunsTo
  <2> QED
    BY <1>2, <2>1
<1>4. m - 1 \in Nat /\ m - 1 \notin Unbuilt
  BY <1>1, <1>2, <1>3
<1>5. PICK g : RunsTo(g, m - 1, V, base, step)
  BY <1>4
<1> DEFINE h == [i \in 0..m |-> IF i = m THEN step[<<m, g[m - 1]>>] ELSE g[i]]
<1>6. g[m - 1] \in V
  BY <1>4, <1>5 DEF RunsTo
<1>7. step[<<m, g[m - 1]>>] \in V
  BY <1>2, <1>6
<1>8. \A i \in 0..m : i # m => i \in 0..(m - 1) /\ g[i] \in V
  BY <1>2, <1>5 DEF RunsTo
<1>9. h \in [0..m -> V] /\ h[0] = base
  BY <1>2, <1>3, <1>5, <1>7, <1>8 DEF RunsTo
<1>10. ASSUME NEW i \in 1..m PROVE h[i] = step[<<i, h[i - 1]>>]
  <2>1. i - 1 \in 0..m /\ i - 1 # m /\ h[i - 1] = g[i - 1]
    BY <1>2
  <2>2. CASE i = m
    BY <1>2, <2>1, <2>2
  <2>3. CASE i # m
    <3>1. i \in 1..(m - 1)
      BY <1>2, <2>3
    <3>2. g[i] = step[<<i, g[i - 1]>>]
      BY <1>5, <3>1 DEF RunsTo
    <3> QED
      BY <1>2, <2>1, <2>3, <3>2
  <2> QED
    BY <2>2, <2>3
<1>11. RunsTo(h, m, V, base, step)
  BY <1>9, <1>10 DEF RunsTo
<1> QED
  BY <1>2, <1>11

LEMMA RunsAlike ==
    ASSUME NEW V, NEW base, NEW step, NEW m \in Nat, NEW n \in Nat, m <= n,
           NEW g, RunsTo(g, m, V, base, step), NEW h, RunsTo(h, n, V, base, step)
    PROVE  \A i \in 0..m : g[i] = h[i]
<1> DEFINE Apart == {i \in 0..m : g[i] # h[i]}
<1> SUFFICES ASSUME Apart # {} PROVE FALSE
  OBVIOUS
<1>1. PICK i \in Apart : \A k \in Apart : i <= k
  <2>1. Apart \subseteq Nat
    OBVIOUS
  <2> HIDE DEF Apart
  <2> QED
    BY <2>1, LeastNumber
<1>2. i \in 0..m /\ g[i] # h[i]
  OBVIOUS
<1>3. i # 0
  BY <1>2 DEF RunsTo
<1>4. i - 1 \in 0..m /\ i - 1 \notin Apart
  BY <1>1, <1>2, <1>3
<1>5. g[i - 1] = h[i - 1]
  BY <1>4
<1>6. i \in 1..m /\ i \in 1..n
  BY <1>2, <1>3
<1> QED
  BY <1>2, <1>5, <1>6 DEF RunsTo

RunsOn(g, V, base, step) ==
    /\ g \in [Nat -> V] /\ g[0] = base
    /\ \A i \in Nat \ {0} : g[i] = step[<<i, g[i - 1]>>]

LEMMA Recursion ==
    ASSUME NEW V, NEW base \in V, NEW step \in [Nat \X V -> V]
    PROVE  \E g : RunsOn(g, V, base, step)
<1> DEFINE runs == [n \in Nat |-> CHOOSE g : RunsTo(g, n, V, base, step)]
           g == [n \in Nat |-> runs[n][n]]
<1>1. \A n \in Nat : RunsTo(runs[n], n, V, base, step)
  BY RunsUpTo
<1> HIDE DEF runs
<1>2. \A n \in Nat : runs[n][n] \in V /\ runs[n][0] = base
  BY <1>1 DEF RunsTo
<1>3. ASSUME NEW i \in Nat \ {0} PROVE g[i] = step[<<i, g[i - 1]>>]
  <2>1. i - 1 \in Nat /\ i - 1 \in 0..(i - 1) /\ i \in 1..i /\ i - 1 <= i
    OBVIOUS
  <2>2. RunsTo(runs[i], i, V, base, step) /\ RunsTo(runs[i - 1], i - 1, V, base, step)
    BY <1>1, <2>1
  <2>3. runs[i][i] = step[<<i, runs[i][i - 1]>>]
    BY <2>1, <2>2 DEF RunsTo
  <2>4. runs[i - 1][i - 1] = runs[i][i - 1]
    <3> HIDE DEF g
    <3> DEFINE m == i - 1
    <3>1. m \in Nat /\ i \in Nat /\ m <= i /\ m \in 0..m /\ RunsTo(runs[m], m, V, base, step)
      BY <2>1, <2>2
    <3> HIDE DEF m
    <3>2. \A k \in 0..m : runs[m][k] = runs[i][k]
      <4>1. PICK a : a = runs[m]
        OBVIOUS
      <4>2. PICK b : b = runs[i]
        OBVIOUS
      <4>3. RunsTo(a, m, V, base, step) /\ RunsTo(b, i, V, base, step)
        BY <2>2, <3>1, <4>1, <4>2
      <4>4. \A k \in 0..m : a[k] = b[k]
        BY <3>1, <4>3, RunsAlike
      <4> QED
        BY <4>1, <4>2, <4>4
    <3>3. runs[m][m] = runs[i][m]
      BY <3>1, <3>2
    <3> QED
      BY <3>3 DEF m
  <2> QED
    BY <2>1, <2>3, <2>4
<1>4. g \in [Nat -> V] /\ g[0] = base
  BY <1>2
<1>5. RunsOn(g, V, base, step)
  BY <1>3, <1>4 DEF RunsOn
<1> QED
  BY <1>5

-----------------------------------------------------------------------------
(* Folds of a sequence.  The fold of the community modules is a recursive *)
(* function of sets of positions, which takes the last position first.    *)

FoldsTo(h, n, V, base, step) ==
    /\ h \in [SUBSET (1..n) -> V] /\ h[{}] = base
    /\ \A s \in SUBSET (1..n) : s # {} => h[s] = step[<<Max(s), h[s \ {Max(s)}]>>]

LEMMA LastPosition ==
    ASSUME NEW n \in Nat, NEW s \in SUBSET (1..n), s # {}
    PROVE  Max(s) \in s /\ \A k \in s : k <= Max(s)
<1>1. s \subseteq Int /\ n \in Int /\ \A k \in s : k <= n
  OBVIOUS
<1>2. Max(s) \in s /\ \A k \in s : Max(s) >= k
  BY <1>1, GreatestInteger
<1> QED
  BY <1>1, <1>2

LEMMA LastOf ==
    ASSUME NEW n \in Nat \ {0}, NEW s \in SUBSET (1..n), n \in s
    PROVE  Max(s) = n
<1>1. PICK k : k = Max(s)
  OBVIOUS
<1>2. s # {} /\ n \in Nat
  OBVIOUS
<1>3. k \in s /\ n <= k
  BY <1>1, <1>2, LastPosition
<1> QED
  BY <1>1, <1>3

LEMMA FoldExists ==
    ASSUME NEW V, NEW base \in V, NEW step \in [Nat \X V -> V], NEW n \in Nat
    PROVE  \E h : FoldsTo(h, n, V, base, step)
<1> DEFINE Unbuilt == {m \in Nat : ~\E h : FoldsTo(h, m, V, base, step)}
<1> SUFFICES ASSUME Unbuilt # {} PROVE FALSE
  OBVIOUS
<1>1. PICK m \in Unbuilt : \A k \in Unbuilt : m <= k
  <2>1. Unbuilt \subseteq Nat
    OBVIOUS
  <2> HIDE DEF Unbuilt
  <2> QED
    BY <2>1, LeastNumber
<1>2. m \in Nat /\ ~\E h : FoldsTo(h, m, V, base, step)
  OBVIOUS
<1>3. m # 0
  <2>1. 1..0 = {}
    OBVIOUS
  <2>2. FoldsTo([s \in SUBSET (1..0) |-> base], 0, V, base, step)
    BY <2>1 DEF FoldsTo
  <2> QED
    BY <1>2, <2>2
<1>4. m - 1 \in Nat /\ m - 1 \notin Unbuilt /\ m \in Nat \ {0}
  BY <1>1, <1>2, <1>3
<1>5. PICK g : FoldsTo(g, m - 1, V, base, step)
  BY <1>4
<1> DEFINE less == SUBSET (1..(m - 1))
           h == [s \in SUBSET (1..m) |->
                   IF m \in s THEN step[<<m, g[s \ {m}]>>] ELSE g[s]]
<1>6. \A s \in SUBSET (1..m) : s \ {m} \in less /\ (m \notin s => s \in less /\ s \ {m} = s)
  BY <1>2
<1>7. g \in [less -> V] /\ g[{}] = base /\ {} \in less
      /\ \A s \in less : s # {} => g[s] = step[<<Max(s), g[s \ {Max(s)}]>>]
  BY <1>5 DEF FoldsTo
<1> HIDE DEF less
<1>8. \A s \in SUBSET (1..m) : g[s \ {m}] \in V /\ step[<<m, g[s \ {m}]>>] \in V
  BY <1>4, <1>6, <1>7
<1>9. h \in [SUBSET (1..m) -> V] /\ h[{}] = base
  BY <1>6, <1>7, <1>8
<1>10. ASSUME NEW s \in SUBSET (1..m), s # {} PROVE h[s] = step[<<Max(s), h[s \ {Max(s)}]>>]
  <2>1. CASE m \in s
    <3>1. Max(s) = m
      BY <1>4, <2>1, LastOf
    <3>2. h[s] = step[<<m, g[s \ {m}]>>] /\ h[s \ {m}] = g[s \ {m}]
      BY <2>1
    <3> HIDE DEF h
    <3> QED
      BY <3>1, <3>2
  <2>2. CASE m \notin s
    <3>1. s \in less /\ s \ {Max(s)} \in SUBSET (1..m) /\ m \notin s \ {Max(s)}
      BY <1>2, <1>6, <2>2
    <3>2. h[s] = g[s] /\ h[s \ {Max(s)}] = g[s \ {Max(s)}]
      BY <2>2, <3>1
    <3> HIDE DEF h
    <3> QED
      BY <1>7, <1>10, <3>1, <3>2
  <2> QED
    BY <2>1, <2>2
<1>11. FoldsTo(h, m, V, base, step)
  <2> HIDE DEF h
  <2> QED
    BY <1>9, <1>10 DEF FoldsTo
<1> QED
  BY <1>2, <1>11

\* Two that start alike and go on alike end alike.
LEMMA FoldsAlike ==
    ASSUME NEW n \in Nat, NEW g, NEW h, g[{}] = h[{}],
           \A s \in SUBSET (1..n) :
              s # {} /\ g[s \ {Max(s)}] = h[s \ {Max(s)}] => g[s] = h[s]
    PROVE  g[1..n] = h[1..n]
<1> DEFINE Apart == {m \in 0..n : \E s \in SUBSET (1..m) : g[s] # h[s]}
<1>1. Apart = {}
  <2> SUFFICES ASSUME Apart # {} PROVE FALSE
    OBVIOUS
  <2>1. PICK m \in Apart : \A k \in Apart : m <= k
    <3>1. Apart \subseteq Nat
      OBVIOUS
    <3> HIDE DEF Apart
    <3> QED
      BY <3>1, LeastNumber
  <2>2. PICK s \in SUBSET (1..m) : g[s] # h[s]
    OBVIOUS
  <2>3. m \in 0..n /\ s # {}
    BY <2>2
  <2>4. PICK k : k = Max(s)
    OBVIOUS
  <2>5. k \in s /\ \A j \in s : j <= k
    <3>1. m \in Nat
      BY <2>3
    <3> HIDE DEF Apart
    <3> QED
      BY <2>3, <2>4, <3>1, LastPosition
  <2>6. k \in 1..m /\ k - 1 \in 0..n /\ s \ {k} \in SUBSET (1..(k - 1))
    BY <2>3, <2>5
  <2>7. k - 1 \notin Apart
    BY <2>1, <2>3, <2>6
  <2>8. g[s \ {k}] = h[s \ {k}]
    BY <2>6, <2>7
  <2>9. s \in SUBSET (1..n)
    BY <2>3
  <2> QED
    BY <2>2, <2>3, <2>4, <2>8, <2>9
<1>2. n \in 0..n /\ 1..n \in SUBSET (1..n)
  OBVIOUS
<1> QED
  BY <1>1, <1>2

-----------------------------------------------------------------------------
(* Texts *)

LEMMA Between ==
    ASSUME NEW V, NEW s \in Seq(V), NEW full \in SUBSET DOMAIN s, full # {}
    PROVE  SubSeq(s, Min(full), Max(full)) \in Seq(V)
<1>1. Len(s) \in Nat /\ DOMAIN s = 1..Len(s)
  OBVIOUS
<1>2. full \subseteq Int /\ \A k \in full : 1 <= k /\ k <= Len(s)
  BY <1>1
<1>3. Min(full) \in full
  BY <1>2, LeastInteger
<1>4. Max(full) \in full
  BY <1>1, <1>2, GreatestInteger
<1>5. PICK i, j : i = Min(full) /\ j = Max(full)
  OBVIOUS
<1>6. i \in 1..Len(s) /\ j \in 1..Len(s)
  BY <1>1, <1>3, <1>4, <1>5
<1>7. SubSeq(s, i, j) \in Seq(V)
  BY <1>6
<1> QED
  BY <1>5, <1>7

LEMMA MainLines ==
    ASSUME NEW lines \in Seq(LineType)
    PROVE  /\ ExtractMainContent(lines) \in Seq(LineType)
           /\ lines = <<>> => ExtractMainContent(lines) = <<>>
<1> DEFINE times(l) == Cardinality({i \in DOMAIN lines : lines[i].text = l.text})
           kept(l) == IsBlank(l) \/ (l.kind = "text" /\ times(l) < 3)
           keep(s, l) == IF kept(l) THEN Append(s, l) ELSE s
           n == Len(lines)
           next(f, s) == IF s = {} THEN <<>> ELSE keep(f[s \ {Max(s)}], lines[Max(s)])
           folds == CHOOSE iter : iter = [s \in SUBSET (DOMAIN lines) |-> next(iter, s)]
           V == Seq(LineType)
           step == [q \in Nat \X V |-> IF q[1] \in 1..n THEN keep(q[2], lines[q[1]]) ELSE q[2]]
           all == folds[DOMAIN lines]
           full == {i \in DOMAIN all : ~IsBlank(all[i])}
<1>1. n \in Nat /\ DOMAIN lines = 1..n /\ \A i \in 1..n : lines[i] \in LineType
  OBVIOUS
<1>2. ExtractMainContent(lines) = IF full = {} THEN <<>> ELSE SubSeq(all, Min(full), Max(full))
  BY DEF ExtractMainContent, Trimmed, FoldLeft, MapThenFoldSet
<1>3. \A f \in V, l \in LineType : keep(f, l) \in V
  <2> HIDE DEF kept
  <2> QED
    OBVIOUS
<1> HIDE DEF keep
<1>4. step \in [Nat \X V -> V]
  BY <1>1, <1>3
<1>5. PICK h : FoldsTo(h, n, V, <<>>, step)
  <2> HIDE DEF step, n
  <2>1. <<>> \in V
    OBVIOUS
  <2> QED
    BY <1>1, <1>4, <2>1, FoldExists
<1>6. h[{}] = <<>> /\ h[1..n] \in V /\ h \in [SUBSET (1..n) -> V]
  BY <1>5 DEF FoldsTo
<1>7. ASSUME NEW s \in SUBSET (1..n), s # {}
      PROVE  h[s] = keep(h[s \ {Max(s)}], lines[Max(s)])
  <2>1. PICK k : k = Max(s)
    OBVIOUS
  <2>2. k \in 1..n /\ k \in Nat
    <3> HIDE DEF n, step
    <3>1. k \in s
      BY <1>1, <1>7, <2>1, LastPosition
    <3> QED
      BY <1>1, <3>1
  <2>3. h[s] = step[<<k, h[s \ {k}]>>] /\ h[s \ {k}] \in V
    BY <1>5, <1>7, <2>1 DEF FoldsTo
  <2>4. step[<<k, h[s \ {k}]>>] = keep(h[s \ {k}], lines[k])
    BY <2>2, <2>3
  <2> QED
    BY <2>1, <2>3, <2>4
<1>8. h = [s \in SUBSET (DOMAIN lines) |-> next(h, s)]
  <2>1. \A s \in SUBSET (1..n) : h[s] = next(h, s)
    BY <1>6, <1>7
  <2> HIDE DEF next
  <2> QED
    BY <1>1, <1>6, <2>1
<1>9. folds = [s \in SUBSET (DOMAIN lines) |-> next(folds, s)]
  <2> HIDE DEF next
  <2> QED
    BY <1>8
<1> HIDE DEF folds
<1>10. \A s \in SUBSET (1..n) : folds[s] = next(folds, s)
  <2> HIDE DEF next
  <2> QED
    BY <1>1, <1>9
<1>11. folds[{}] = h[{}]
  BY <1>6, <1>10
<1>12. \A s \in SUBSET (1..n) :
          s # {} /\ folds[s \ {Max(s)}] = h[s \ {Max(s)}] => folds[s] = h[s]
  BY <1>7, <1>10
<1>13. folds[1..n] = h[1..n]
  <2> HIDE DEF n, step
  <2> QED
    BY <1>1, <1>11, <1>12, FoldsAlike
<1>14. all \in V /\ (lines = <<>> => all = <<>>)
  <2>1. lines = <<>> => 1..n = {}
    OBVIOUS
  <2> QED
    BY <1>1, <1>6, <1>13, <2>1
<1>15. full # {} => SubSeq(all, Min(full), Max(full)) \in Seq(LineType)
  <2>1. full \in SUBSET DOMAIN all
    OBVIOUS
  <2> HIDE DEF all, full
  <2> QED
    BY <1>14, <2>1, Between
<1>16. lines = <<>> => full = {}
  BY <1>14
<1> QED
  <2> HIDE DEF all, full
  <2> QED
    BY <1>2, <1>15, <1>16

LEMMA PlainText ==
    ASSUME NEW main \in Seq(LineType)
    PROVE  /\ StripMarkdown(main) \in Seq(Seq(STRING))
           /\ main = <<>> => StripMarkdown(main) = <<>>
<1> DEFINE line(s, l) == IF l.plain = <<>> /\ s # <<>> /\ Last(s) = <<>>
                         THEN s ELSE Append(s, l.plain)
           n == Len(main)
           next(f, s) == IF s = {} THEN <<>> ELSE line(f[s \ {Max(s)}], main[Max(s)])
           folds == CHOOSE iter : iter = [s \in SUBSET (DOMAIN main) |-> next(iter, s)]
           V == Seq(Seq(STRING))
           step == [q \in Nat \X V |-> IF q[1] \in 1..n THEN line(q[2], main[q[1]]) ELSE q[2]]
           all == folds[DOMAIN main]
           full == {i \in DOMAIN all : ~IsWordless(all[i])}
<1>1. n \in Nat /\ DOMAIN main = 1..n /\ \A i \in 1..n : main[i] \in LineType
  OBVIOUS
<1>2. StripMarkdown(main) = IF full = {} THEN <<>> ELSE SubSeq(all, Min(full), Max(full))
  BY DEF StripMarkdown, Trimmed, FoldLeft, MapThenFoldSet
<1>3. \A f \in V, l \in LineType : line(f, l) \in V
  <2> DEFINE W == Seq(STRING)
  <2>1. \A l \in LineType : l.plain \in W
    BY DEF LineType
  <2> HIDE DEF W
  <2>2. \A f \in Seq(W), w \in W : Append(f, w) \in Seq(W)
    OBVIOUS
  <2>3. V = Seq(W)
    BY DEF W
  <2> HIDE DEF V
  <2> QED
    BY <2>1, <2>2, <2>3
<1> HIDE DEF line
<1>4. step \in [Nat \X V -> V]
  BY <1>1, <1>3
<1>5. PICK h : FoldsTo(h, n, V, <<>>, step)
  <2> HIDE DEF step, n
  <2>1. <<>> \in V
    OBVIOUS
  <2> QED
    BY <1>1, <1>4, <2>1, FoldExists
<1>6. h[{}] = <<>> /\ h[1..n] \in V /\ h \in [SUBSET (1..n) -> V]
  BY <1>5 DEF FoldsTo
<1>7. ASSUME NEW s \in SUBSET (1..n), s # {}
      PROVE  h[s] = line(h[s \ {Max(s)}], main[Max(s)])
  <2>1. PICK k : k = Max(s)
    OBVIOUS
  <2>2. k \in 1..n /\ k \in Nat
    <3> HIDE DEF n, step
    <3>1. k \in s
      BY <1>1, <1>7, <2>1, LastPosition
    <3> QED
      BY <1>1, <3>1
  <2>3. h[s] = step[<<k, h[s \ {k}]>>] /\ h[s \ {k}] \in V
    BY <1>5, <1>7, <2>1 DEF FoldsTo
  <2>4. step[<<k, h[s \ {k}]>>] = line(h[s \ {k}], main[k])
    BY <2>2, <2>3
  <2> QED
    BY <2>1, <2>3, <2>4
<1>8. h = [s \in SUBSET (DOMAIN main) |-> next(h, s)]
  <2>1. \A s \in SUBSET (1..n) : h[s] = next(h, s)
    BY <1>6, <1>7
  <2> HIDE DEF next
  <2> QED
    BY <1>1, <1>6, <2>1
<1>9. folds = [s \in SUBSET (DOMAIN main) |-> next(folds, s)]
  <2> HIDE DEF next
  <2> QED
    BY <1>8
<1> HIDE DEF folds
<1>10. \A s \in SUBSET (1..n) : folds[s] = next(folds, s)
  <2> HIDE DEF next
  <2> QED
    BY <1>1, <1>9
<1>11. folds[{}] = h[{}]
  BY <1>6, <1>10
<1>12. \A s \in SUBSET (1..n) :
          s # {} /\ folds[s \ {Max(s)}] = h[s \ {Max(s)}] => folds[s] = h[s]
  BY <1>7, <1>10
<1>13. folds[1..n] = h[1..n]
  <2> HIDE DEF n, step
  <2> QED
    BY <1>1, <1>11, <1>12, FoldsAlike
<1>14. all \in V /\ (main = <<>> => all = <<>>)
  <2>1. main = <<>> => 1..n = {}
    OBVIOUS
  <2> QED
    BY <1>1, <1>6, <1>13, <2>1
<1>15. full # {} => SubSeq(all, Min(full), Max(full)) \in V
  <2>1. full \in SUBSET DOMAIN all
    OBVIOUS
  <2> HIDE DEF all, full
  <2> QED
    BY <1>14, <2>1, Between
<1>16. (main = <<>> => full = {}) /\ <<>> \in V
  BY <1>14
<1> QED
  <2> HIDE DEF all, full
  <2> QED
    BY <1>2, <1>15, <1>16

LEMMA WordsCounted ==
    ASSUME NEW text \in Seq(Seq(STRING))
    PROVE  CountWords(text) \in Nat /\ (text = <<>> => CountWords(text) = 0)
<1> DEFINE n == Len(text)
           V == Seq(STRING)
           next(f, i) == IF i = 1 THEN text[i] ELSE f[i - 1] \o text[i]
           flatten == CHOOSE f : f = [i \in 1..n |-> next(f, i)]
           step == [q \in Nat \X V |->
                       IF q[1] \notin 1..n THEN q[2]
                       ELSE IF q[1] = 1 THEN text[1] ELSE q[2] \o text[q[1]]]
<1>1. n \in Nat /\ (\A i \in 1..n : text[i] \in V) /\ <<>> \in V
      /\ \A v, w \in V : v \o w \in V
  OBVIOUS
<1>2. CountWords(text) = IF n = 0 THEN Len(text) ELSE Len(flatten[n])
  BY DEF CountWords, FlattenSeq
<1> SUFFICES (n # 0 => flatten[n] \in V) /\ Len(text) \in Nat /\ (text = <<>> => n = 0)
  BY <1>1, <1>2
<1>0. Len(text) \in Nat /\ (text = <<>> => n = 0)
  OBVIOUS
<1> HIDE DEF V, n
<1>3. step \in [Nat \X V -> V]
  BY <1>1
<1>4. PICK g : RunsTo(g, n, V, <<>>, step)
  <2> HIDE DEF step
  <2> QED
    BY <1>1, <1>3, RunsUpTo
<1>5. g \in [0..n -> V] /\ \A i \in 1..n : g[i] = step[<<i, g[i - 1]>>] /\ g[i - 1] \in V
  <2> HIDE DEF step
  <2>1. \A i \in 1..n : i - 1 \in 0..n
    BY <1>1
  <2> QED
    BY <1>4, <2>1 DEF RunsTo
<1>6. \A i \in 1..n : g[i] = next(g, i) /\ g[i] \in V
  <2> SUFFICES ASSUME NEW i \in 1..n PROVE g[i] = next(g, i) /\ g[i] \in V
    OBVIOUS
  <2>1. i \in Nat /\ i \in 0..n /\ g[i] = step[<<i, g[i - 1]>>] /\ g[i - 1] \in V
    <3> HIDE DEF step
    <3> QED
      BY <1>1, <1>5
  <2>2. g[i] \in V
    <3> HIDE DEF step
    <3> QED
      BY <1>5, <2>1
  <2>3. step[<<i, g[i - 1]>>] = next(g, i)
    BY <2>1
  <2> QED
    <3> HIDE DEF step, next
    <3> QED
      BY <2>1, <2>2, <2>3
<1> DEFINE h == [i \in 1..n |-> g[i]]
<1>7. \A i \in 1..n : h[i] = next(h, i)
  <2> SUFFICES ASSUME NEW i \in 1..n PROVE h[i] = next(h, i)
    OBVIOUS
  <2>1. i = 1 \/ i - 1 \in 1..n
    BY <1>1
  <2> QED
    BY <1>6, <2>1
<1>8. h = [i \in 1..n |-> next(h, i)]
  <2> HIDE DEF next
  <2> QED
    BY <1>7
<1>9. flatten = [i \in 1..n |-> next(flatten, i)]
  <2> HIDE DEF next
  <2> QED
    BY <1>8
<1> HIDE DEF flatten
<1>10. \A i \in 1..n : flatten[i] = next(flatten, i)
  <2> HIDE DEF next
  <2> QED
    BY <1>9
<1>11. \A i \in 1..n : flatten[i] \in V
  <2> DEFINE Odd == {i \in 1..n : flatten[i] \notin V}
  <2> SUFFICES ASSUME Odd # {} PROVE FALSE
    OBVIOUS
  <2>1. PICK i \in Odd : \A k \in Odd : i <= k
    <3>1. Odd \subseteq Nat
      BY <1>1
    <3> HIDE DEF Odd
    <3> QED
      BY <3>1, LeastNumber
  <2>2. i \in 1..n /\ flatten[i] \notin V /\ flatten[i] = next(flatten, i)
    BY <1>10
  <2>3. i # 1
    BY <1>1, <2>2
  <2>4. i - 1 \in 1..n /\ i - 1 \notin Odd
    BY <1>1, <2>1, <2>2, <2>3
  <2>5. flatten[i - 1] \in V
    BY <2>4
  <2> QED
    BY <1>1, <2>2, <2>3, <2>5
<1> QED
  BY <1>0, <1>1, <1>11

-----------------------------------------------------------------------------
(* The rows of pages *)

LEMMA RuleFound ==
    ASSUME NEW n \in Nat, NEW rules, DOMAIN rules = 1..n, NEW T,
           \A i \in 1..n : rules[i].says \in T, NEW otherwise \in T, NEW error
    PROVE  FirstRule(rules, error, otherwise) \in T
<1> DEFINE known == {i \in DOMAIN rules : rules[i].words \cap error # {}}
<1>1. known # {} => Min(known) \in known
  <2>1. known \subseteq Int /\ 1 \in Int /\ \A k \in known : 1 <= k
    OBVIOUS
  <2> HIDE DEF known
  <2> QED
    BY <2>1, LeastInteger
<1> QED
  BY <1>1 DEF FirstRule

LEMMA ErrorIsNoSuccess ==
    ASSUME NEW error, error # {}
    PROVE  InferStatus(error, 0) \in Statuses \ {"SUCCESS"}
<1> DEFINE rules == <<Rule({"robots", "robots.txt"}, "BLOCKED"),
                     Rule({"captcha"}, "CAPTCHA_DETECTED"),
                     Rule({"paywall"}, "PAYWALL_DETECTED"),
                     Rule({"login required"}, "REQUIRES_LOGIN"),
                     Rule({"timeout"}, "TIMEOUT"),
                     Rule({"api key", "forbidden key"}, "FAILED"),
                     Rule({"cloudflare", "access denied", "private ip", "rate limit",
                           "403", "forbidden", "ip block"}, "BLOCKED")>>
           T == Statuses \ {"SUCCESS"}
<1>1. DOMAIN rules = 1..7 /\ \A i \in 1..7 : rules[i].says \in T
  <2>1. DOMAIN rules = 1..7
    OBVIOUS
  <2>2. /\ rules[1].says \in T /\ rules[2].says \in T /\ rules[3].says \in T
        /\ rules[4].says \in T /\ rules[5].says \in T /\ rules[6].says \in T
        /\ rules[7].says \in T
    BY DEF Rule, Statuses
  <2> HIDE DEF rules, T
  <2>3. \A i \in 1..7 : i \in {1, 2, 3, 4, 5, 6, 7}
    OBVIOUS
  <2> QED
    BY <2>1, <2>2, <2>3
<1>2. "FAILED" \in T
  BY DEF Statuses
<1>3. InferStatus(error, 0) = FirstRule(rules, error, "FAILED")
  BY DEF InferStatus
<1> HIDE DEF rules, T
<1>4. FirstRule(rules, error, "FAILED") \in T
  BY <1>1, <1>2, RuleFound
<1> QED
  BY <1>3, <1>4 DEF T

LEMMA MessageIsKnown == \A error : MapCrawlError(error) \in Messages
<1> SUFFICES ASSUME NEW error PROVE MapCrawlError(error) \in Messages
  OBVIOUS
<1> DEFINE rules == <<Rule({"robots.txt"}, "robots"),
                Rule({"captcha"}, "captcha"),
                Rule({"login required"}, "login"),
                Rule({"paywall"}, "paywall"),
                Rule({"unauthorized", "api key", "credit", "402", "forbidden key"}, "auth"),
                Rule({"timeout"}, "timeout"),
                Rule({"cloudflare", "403", "forbidden", "access denied", "ip block"}, "denied"),
                Rule({"dns"}, "host"),
                Rule({"rate limit"}, "rate limit"),
                Rule({"private ip"}, "private ip")>>
           T == Messages
<1>1. DOMAIN rules = 1..10 /\ \A i \in 1..10 : rules[i].says \in T
  <2>1. DOMAIN rules = 1..10
    OBVIOUS
  <2>2. /\ rules[1].says \in T /\ rules[2].says \in T /\ rules[3].says \in T
        /\ rules[4].says \in T /\ rules[5].says \in T /\ rules[6].says \in T
        /\ rules[7].says \in T /\ rules[8].says \in T /\ rules[9].says \in T
        /\ rules[10].says \in T
    BY DEF Rule, Messages
  <2> HIDE DEF rules, T
  <2>3. \A i \in 1..10 : i \in {1, 2, 3, 4, 5, 6, 7, 8, 9, 10}
    OBVIOUS
  <2> QED
    BY <2>1, <2>2, <2>3
<1>2. "other" \in T
  BY DEF Messages
<1>3. MapCrawlError(error) = FirstRule(rules, error, "other")
  BY DEF MapCrawlError
<1> HIDE DEF rules, T
<1>4. FirstRule(rules, error, "other") \in T
  BY <1>1, <1>2, RuleFound
<1> QED
  BY <1>3, <1>4 DEF T

\* That a page is a copy or has a menu adds a warning of its own and changes no other.
AlikeBut(title, description, words, score, duplicate, noise) ==
    DetectWarnings(title, description, words, score, FALSE, FALSE) =
        DetectWarnings(title, description, words, score, duplicate, noise)
            \ {"DUPLICATE_CONTENT", "NAV_NOISE"}

LEMMA WarningsAlike ==
    ASSUME NEW title, NEW description, NEW words, NEW score, NEW duplicate, NEW noise
    PROVE  /\ AlikeBut(title, description, words, score, duplicate, noise)
           /\ DetectWarnings(title, description, words, score, FALSE, FALSE) \subseteq Warnings
<1> DEFINE warned(condition, warning) == IF condition THEN {warning} ELSE {}
           w1 == warned(~title, "MISSING_TITLE")
           w2 == warned(~description, "MISSING_DESCRIPTION")
           w3 == warned(0 < words /\ words < MinWords, "TOO_SHORT")
           w6 == warned(score # NoScore /\ score < 30, "LOW_QUALITY_SCORE")
           w4(d) == warned(d, "DUPLICATE_CONTENT")
           w5(d) == warned(d, "NAV_NOISE")
           all(d, e) == UNION {w1, w2, w3, w4(d), w5(e), w6}
           known == {"DUPLICATE_CONTENT", "NAV_NOISE"}
<1>1. /\ DetectWarnings(title, description, words, score, FALSE, FALSE) = all(FALSE, FALSE)
      /\ DetectWarnings(title, description, words, score, duplicate, noise)
            = all(duplicate, noise)
  BY DEF DetectWarnings
<1>2. /\ w1 \in SUBSET (Warnings \ known) /\ w2 \in SUBSET (Warnings \ known)
      /\ w3 \in SUBSET (Warnings \ known) /\ w6 \in SUBSET (Warnings \ known)
      /\ w4(duplicate) \in SUBSET known /\ w5(noise) \in SUBSET known
      /\ w4(FALSE) = {} /\ w5(FALSE) = {}
  BY DEF Warnings
<1> HIDE DEF w1, w2, w3, w4, w5, w6, known
<1>3. all(FALSE, FALSE) = w1 \cup w2 \cup w3 \cup w6
  BY <1>2
<1>4. all(duplicate, noise) = w1 \cup w2 \cup w3 \cup w6 \cup w4(duplicate) \cup w5(noise)
  OBVIOUS
<1> HIDE DEF all
<1>5. all(duplicate, noise) \ known = w1 \cup w2 \cup w3 \cup w6
  BY <1>2, <1>4
<1>6. all(FALSE, FALSE) = all(duplicate, noise) \ known /\ all(FALSE, FALSE) \subseteq Warnings
  BY <1>2, <1>3, <1>5
<1> QED
  BY <1>1, <1>6, Zenon DEF known, AlikeBut

LEMMA ScoreType ==
    ASSUME NEW success, NEW main, NEW words, NEW title, NEW description
    PROVE  /\ CalcDataQualityScore(success, main, words, title, description)
                  \in Nat \cup {NoScore}
           /\ ~success => CalcDataQualityScore(success, main, words, title, description)
                            = NoScore
BY DEF CalcDataQualityScore, NoScore

Names == {"status", "error", "title", "description", "lines", "words", "hash", "score",
          "warnings", "table"}
Optional == {"title", "description", "lines", "hash", "score", "table"}

\* All columns of a page that the provider returns, the empty ones among them.
Full(raw) ==
    LET main == ExtractMainContent(raw.lines)
        clean == StripMarkdown(main)
        words == CountWords(clean)
        status == InferStatus({}, raw.code)
        score == CalcDataQualityScore(status = "SUCCESS", main, words, raw.title,
                                      raw.description)
    IN  [status |-> status, title |-> raw.title, description |-> raw.description,
         lines |-> raw.lines, words |-> words, hash |-> clean, score |-> score,
         warnings |-> DetectWarnings(raw.title, raw.description, words, score, FALSE, FALSE),
         table |-> raw.table]

LEMMA FullColumns ==
    ASSUME NEW raw \in RawPages
    PROVE  /\ raw.lines \in Seq(LineType)
           /\ DOMAIN Full(raw) = Names \ {"error"}
           /\ Full(raw).status \in Statuses /\ Full(raw).title \in BOOLEAN
           /\ Full(raw).description \in BOOLEAN /\ Full(raw).lines = raw.lines
           /\ Full(raw).words \in Nat /\ Full(raw).hash \in Seq(Seq(STRING))
           /\ Full(raw).score \in Nat \cup {NoScore} /\ Full(raw).warnings \subseteq Warnings
           /\ Full(raw).table \in Seq([th : Nat, td : Nat])
<1>1. /\ raw.lines \in Seq(LineType) /\ raw.title \in BOOLEAN /\ raw.description \in BOOLEAN
      /\ raw.table \in Seq([th : Nat, td : Nat])
  <2>1. raw \in RawPageType
    BY RecordConstants
  <2> HIDE DEF LineType
  <2> QED
    BY <2>1 DEF RawPageType
<1> DEFINE main == ExtractMainContent(raw.lines)
           clean == StripMarkdown(main)
           words == CountWords(clean)
           status == InferStatus({}, raw.code)
           score == CalcDataQualityScore(status = "SUCCESS", main, words, raw.title,
                                         raw.description)
           warnings == DetectWarnings(raw.title, raw.description, words, score, FALSE, FALSE)
<1>2. main \in Seq(LineType)
  BY <1>1, MainLines
<1> HIDE DEF main
<1>3. clean \in Seq(Seq(STRING))
  BY <1>2, PlainText
<1> HIDE DEF clean
<1>4. words \in Nat
  BY <1>3, WordsCounted
<1>5. status \in Statuses
  BY DEF InferStatus, Statuses
<1>6. score \in Nat \cup {NoScore}
  BY ScoreType
<1>7. warnings \subseteq Warnings
  BY WarningsAlike
<1>8. Full(raw) = [status |-> status, title |-> raw.title, description |-> raw.description,
                   lines |-> raw.lines, words |-> words, hash |-> clean, score |-> score,
                   warnings |-> warnings, table |-> raw.table]
  BY DEF Full, main, clean
<1> HIDE DEF words, status, score, warnings, LineType
<1> QED
  BY <1>1, <1>3, <1>4, <1>5, <1>6, <1>7, <1>8 DEF Names

LEMMA NewColumns ==
    /\ DOMAIN NewRow = Names /\ NewRow.lines = <<>> /\ NewRow.words = 0 /\ NewRow.hash = <<>>
    /\ NewRow.score = NoScore /\ NewRow.warnings = {} /\ NewRow.title = FALSE
    /\ NewRow.description = FALSE /\ NewRow.error = "" /\ NewRow.table = <<>>
BY DEF NewRow, Names

LEMMA Normalized ==
    ASSUME NEW raw \in RawPages
    PROVE  /\ Names \ (Optional \cup {"error"}) \subseteq DOMAIN Normalize(raw)
           /\ DOMAIN Normalize(raw) \subseteq Names \ {"error"}
           /\ \A c \in DOMAIN Normalize(raw) : Normalize(raw)[c] = Full(raw)[c]
           /\ \A c \in Optional \ DOMAIN Normalize(raw) : Full(raw)[c] = NewRow[c]
<1> DEFINE missing == {c \in {"title", "description", "hash", "score"} : Full(raw)[c] = NewRow[c]}
                       \cup IF raw.lines = <<>> THEN {"lines", "table"} ELSE {}
<1>1. Normalize(raw) = [c \in DOMAIN Full(raw) \ missing |-> Full(raw)[c]]
  BY DEF Normalize, GivenColumns, Full, Restrict
<1>2. DOMAIN Full(raw) = Names \ {"error"}
  BY FullColumns
<1>3. raw.lines = <<>> => Full(raw)["lines"] = NewRow["lines"]
                          /\ Full(raw)["table"] = NewRow["table"]
  BY TablesInText DEF Full, NewRow
<1> HIDE DEF missing
<1>4. missing \subseteq Optional /\ \A c \in missing : Full(raw)[c] = NewRow[c]
  BY <1>3 DEF missing, Optional
<1> QED
  BY <1>1, <1>2, <1>4 DEF Names, Optional

LEMMA NormalizedFailed ==
    ASSUME NEW error \in CrawlErrors
    PROVE  /\ DOMAIN NormalizeFailedPage(error) = {"status", "error", "words", "warnings"}
           /\ NormalizeFailedPage(error)["status"] \in Statuses \ {"SUCCESS"}
           /\ NormalizeFailedPage(error)["error"] \in Messages
           /\ NormalizeFailedPage(error)["words"] = 0
           /\ NormalizeFailedPage(error)["warnings"] = {}
<1>1. InferStatus(error, 0) \in Statuses \ {"SUCCESS"} /\ MapCrawlError(error) \in Messages
  BY ErrorsHaveText, ErrorIsNoSuccess, MessageIsKnown
<1> QED
  BY <1>1 DEF NormalizeFailedPage
-----------------------------------------------------------------------------
(* The strengthening of RecordsTypeOK: a row has the columns that its last save gave *)

SavedWhole(columns) ==
    \/ \E raw \in RawPages : columns = Normalize(raw)
    \/ \E error \in CrawlErrors : columns = NormalizeFailedPage(error)

\* A row whose last save gave the columns.
Keeps(row, columns) ==
    /\ row \in Columns /\ DOMAIN row = Names
    /\ \A c \in DOMAIN columns : row[c] = columns[c]

RecordsInv ==
    /\ RecordsTypeOK
    /\ order \in Seq(Addresses)
    /\ \A u \in DOMAIN latest : SavedWhole(latest[u]) /\ Keeps(pageRow[u], latest[u])

LEMMA SavedColumns ==
    ASSUME NEW columns, SavedWhole(columns)
    PROVE  /\ DOMAIN columns \subseteq Names /\ "status" \in DOMAIN columns
           /\ columns["status"] \in Statuses
           /\ "error" \in DOMAIN columns => columns["error"] \in Messages
           /\ "title" \in DOMAIN columns => columns["title"] \in BOOLEAN
           /\ "description" \in DOMAIN columns => columns["description"] \in BOOLEAN
           /\ "lines" \in DOMAIN columns => columns["lines"] \in Seq(LineType)
           /\ "words" \in DOMAIN columns => columns["words"] \in Nat
           /\ "hash" \in DOMAIN columns => columns["hash"] \in Seq(Seq(STRING))
           /\ "score" \in DOMAIN columns => columns["score"] \in Nat \cup {NoScore}
           /\ "warnings" \in DOMAIN columns => columns["warnings"] \in SUBSET Warnings
           /\ "table" \in DOMAIN columns => columns["table"] \in Seq([th : Nat, td : Nat])
<1>1. CASE \E raw \in RawPages : columns = Normalize(raw)
  <2>1. PICK raw \in RawPages : columns = Normalize(raw)
    BY <1>1
  <2>2. /\ Names \ (Optional \cup {"error"}) \subseteq DOMAIN columns
        /\ DOMAIN columns \subseteq Names \ {"error"}
        /\ \A c \in DOMAIN columns : columns[c] = Full(raw)[c]
    BY <2>1, Normalized
  <2>3. "status" \in DOMAIN columns /\ "error" \notin DOMAIN columns
        /\ DOMAIN columns \subseteq Names
    BY <2>2 DEF Names, Optional
  <2> HIDE DEF LineType
  <2> QED
    BY <2>2, <2>3, FullColumns
<1>2. CASE \E error \in CrawlErrors : columns = NormalizeFailedPage(error)
  <2>1. PICK error \in CrawlErrors : columns = NormalizeFailedPage(error)
    BY <1>2
  <2> HIDE DEF LineType
  <2> QED
    BY <2>1, NormalizedFailed DEF Names
<1> QED
  BY <1>1, <1>2 DEF SavedWhole

LEMMA OverKeeps ==
    ASSUME NEW columns, SavedWhole(columns), NEW old, old \in Columns, DOMAIN old = Names
    PROVE  Keeps(Over(columns, old), columns)
<1> DEFINE row == Over(columns, old)
<1>1. DOMAIN columns \subseteq Names
  BY SavedColumns
<1>2. row = [c \in Names |-> IF c \in DOMAIN columns THEN columns[c] ELSE old[c]]
  BY <1>1 DEF Over
<1>3. DOMAIN row = Names /\ \A c \in DOMAIN columns : row[c] = columns[c]
  BY <1>1, <1>2
<1>4. /\ row["status"] \in Statuses /\ row["error"] \in Messages \cup {""}
      /\ row["title"] \in BOOLEAN /\ row["description"] \in BOOLEAN
      /\ row["lines"] \in Seq(LineType) /\ row["words"] \in Nat
      /\ row["hash"] \in Seq(Seq(STRING)) /\ row["score"] \in Nat \cup {NoScore}
      /\ row["warnings"] \in SUBSET Warnings
      /\ row["table"] \in Seq([th : Nat, td : Nat])
  <2> HIDE DEF LineType
  <2>1. /\ old["status"] \in Statuses /\ old["error"] \in Messages \cup {""}
        /\ old["title"] \in BOOLEAN /\ old["description"] \in BOOLEAN
        /\ old["lines"] \in Seq(LineType) /\ old["words"] \in Nat
        /\ old["hash"] \in Seq(Seq(STRING)) /\ old["score"] \in Nat \cup {NoScore}
        /\ old["warnings"] \in SUBSET Warnings
        /\ old["table"] \in Seq([th : Nat, td : Nat])
    BY DEF Columns
  <2> HIDE DEF row
  <2> QED
    BY <1>2, <2>1, SavedColumns DEF Names
<1>5. row \in Columns
  <2> HIDE DEF LineType
  <2> QED
    BY <1>2, <1>4 DEF Columns, Names
<1> QED
  BY <1>3, <1>5 DEF Keeps

\* A page that has no row begins with the status that every save replaces.
LEMMA NewKeeps ==
    ASSUME NEW columns, SavedWhole(columns)
    PROVE  Keeps(Over(columns, NewRow), columns)
<1> DEFINE old == [NewRow EXCEPT !.status = columns["status"]]
<1>1. "status" \in DOMAIN columns /\ columns["status"] \in Statuses
      /\ DOMAIN columns \subseteq Names
  BY SavedColumns
<1>2. old \in Columns /\ DOMAIN old = Names
  <2>1. <<>> \in Seq(LineType) /\ <<>> \in Seq(Seq(STRING))
        /\ <<>> \in Seq([th : Nat, td : Nat])
    OBVIOUS
  <2> HIDE DEF LineType
  <2> QED
    BY <1>1, <2>1 DEF NewRow, Columns, Names
<1>3. Keeps(Over(columns, old), columns)
  <2> HIDE DEF old
  <2> QED
    BY <1>2, OverKeeps
<1>4. Over(columns, old) = Over(columns, NewRow)
  <2>1. DOMAIN NewRow = Names
    BY NewColumns
  <2>2. \A c \in Names : c \notin DOMAIN columns => old[c] = NewRow[c]
    BY <1>1, <2>1
  <2> HIDE DEF old
  <2> QED
    BY <1>1, <1>2, <2>1, <2>2 DEF Over
<1> QED
  BY <1>3, <1>4

LEMMA UpsertSaves ==
    ASSUME RecordsInv, NEW u \in Addresses, NEW columns, SavedWhole(columns), Upsert(u, columns),
           handled' = handled \cup {u},
           asset' \in Seq([page : DOMAIN pageRow \cup {u}, kind : AssetKinds,
                           url : STRING]),
           UNCHANGED attempt
    PROVE  RecordsInv'
<1> DEFINE D == DOMAIN pageRow
           old == IF u \in D THEN pageRow[u] ELSE NewRow
<1>1. /\ order \in Seq(Addresses) /\ IsInjective(order)
      /\ D = Range(order) /\ DOMAIN latest = Range(order) /\ handled \subseteq D
      /\ attempt \in {1, 2} /\ D \subseteq Addresses
  BY DEF RecordsInv, RecordsTypeOK
<1>2. \A v \in D : SavedWhole(latest[v]) /\ Keeps(pageRow[v], latest[v])
  BY <1>1 DEF RecordsInv
<1>3. /\ pageRow' = Over([v \in {u} |-> Over(columns, old)], pageRow)
      /\ latest' = Over([v \in {u} |-> columns], latest)
      /\ order' = IF u \in D THEN order ELSE Append(order, u)
  BY DEF Upsert, Store
<1>4. /\ DOMAIN pageRow' = D \cup {u} /\ pageRow'[u] = Over(columns, old)
      /\ \A v \in D : v # u => pageRow'[v] = pageRow[v]
  BY <1>3 DEF Over
<1>5. /\ DOMAIN latest' = D \cup {u} /\ latest'[u] = columns
      /\ \A v \in D : v # u => latest'[v] = latest[v]
  BY <1>1, <1>3 DEF Over
<1>6. Keeps(Over(columns, old), columns)
  <2>1. CASE u \in D
    <3>1. old = pageRow[u] /\ old \in Columns /\ DOMAIN old = Names
      BY <1>2, <2>1 DEF Keeps
    <3> QED
      BY <3>1, OverKeeps
  <2>2. CASE u \notin D
    BY <2>2, NewKeeps
  <2> QED
    BY <2>1, <2>2
<1>7. \A v \in D \cup {u} : SavedWhole(latest'[v]) /\ Keeps(pageRow'[v], latest'[v])
  <2> HIDE DEF old, D
  <2> QED
    BY <1>2, <1>4, <1>5, <1>6
<1>8. /\ order' \in Seq(Addresses) /\ Range(order') = D \cup {u} /\ IsInjective(order')
  <2>1. CASE u \in D
    BY <1>1, <1>3, <2>1
  <2>2. CASE u \notin D
    <3>1. order' = Append(order, u)
      BY <1>3, <2>2
    <3>2. /\ order' \in Seq(Addresses) /\ Len(order') = Len(order) + 1
          /\ DOMAIN order = 1..Len(order) /\ DOMAIN order' = 1..(Len(order) + 1)
          /\ order'[Len(order) + 1] = u /\ Len(order) \in Nat
          /\ \A i \in 1..Len(order) : order'[i] = order[i]
      BY <1>1, <3>1
    <3>3. \A i \in 1..(Len(order) + 1) : i = Len(order) + 1 \/ i \in 1..Len(order)
      BY <3>2
    <3>4. Range(order') = Range(order) \cup {u}
      BY <3>2, <3>3 DEF Range
    <3>5. \A i \in 1..Len(order) : order[i] # u
      BY <1>1, <2>2, <3>2 DEF Range
    <3>6. IsInjective(order')
      BY <1>1, <3>2, <3>3, <3>5 DEF IsInjective
    <3> QED
      BY <1>1, <3>2, <3>4, <3>6
  <2> QED
    BY <2>1, <2>2
<1>9. RecordsTypeOK'
  <2>1. \A v \in D \cup {u} : v \in Addresses /\ pageRow'[v] \in Columns
    BY <1>1, <1>7 DEF Keeps
  <2>2. handled' \subseteq D \cup {u} /\ attempt' \in {1, 2}
    BY <1>1
  <2> HIDE DEF D
  <2> QED
    BY <1>4, <1>5, <1>8, <2>1, <2>2 DEF RecordsTypeOK, D
<1> QED
  <2> HIDE DEF D
  <2> QED
    BY <1>5, <1>7, <1>8, <1>9 DEF RecordsInv

LEMMA RecordsStart == ASSUME RecordsInit PROVE RecordsInv
<1>1. /\ attempt = 1 /\ handled = {} /\ order = <<>> /\ asset = <<>>
      /\ DOMAIN pageRow = {} /\ DOMAIN latest = {}
  BY DEF RecordsInit
<1>2. Range(order) = {} /\ IsInjective(order) /\ order \in Seq(Addresses)
  BY <1>1 DEF Range, IsInjective
<1> QED
  BY <1>1, <1>2 DEF RecordsInv, RecordsTypeOK

LEMMA RecordsStep == ASSUME RecordsInv, [RecordsNext]_recordVars PROVE RecordsInv'
<1> DEFINE AssetsOn(D) == [page : D, kind : AssetKinds, url : STRING]
<1>1. asset \in Seq(AssetsOn(DOMAIN pageRow))
  BY DEF RecordsInv, RecordsTypeOK
<1>2. ASSUME NEW u PROVE asset \in Seq(AssetsOn(DOMAIN pageRow \cup {u}))
  <2> DEFINE A == AssetsOn(DOMAIN pageRow)
             B == AssetsOn(DOMAIN pageRow \cup {u})
  <2>1. A \subseteq B
    OBVIOUS
  <2> HIDE DEF A, B
  <2>2. asset \in Seq(A)
    BY <1>1 DEF A
  <2>3. asset \in Seq(B)
    BY <2>1, <2>2
  <2> QED
    BY <2>3 DEF B
<1>3. ASSUME NEW u \in Addresses, NEW raw \in RawPages, SavePage(u, raw) PROVE RecordsInv'
  <2> DEFINE A == AssetsOn(DOMAIN pageRow \cup {u})
             images == [i \in DOMAIN raw.images |->
                          [page |-> u, kind |-> "IMAGE", url |-> raw.images[i]]]
             links == [i \in DOMAIN raw.links |->
                          [page |-> u, kind |-> "LINK", url |-> raw.links[i]]]
             pdfs == [i \in DOMAIN raw.pdfs |->
                          [page |-> u, kind |-> "PDF", url |-> raw.pdfs[i]]]
  <2>1. raw.images \in Seq(STRING) /\ raw.links \in Seq(STRING) /\ raw.pdfs \in Seq(STRING)
    <3>1. raw \in RawPageType
      BY RecordConstants
    <3> HIDE DEF LineType
    <3> QED
      BY <3>1 DEF RawPageType
  <2>2. images \in Seq(A) /\ links \in Seq(A) /\ pdfs \in Seq(A)
    <3>1. /\ Len(raw.images) \in Nat /\ DOMAIN raw.images = 1..Len(raw.images)
          /\ Len(raw.links) \in Nat /\ DOMAIN raw.links = 1..Len(raw.links)
          /\ Len(raw.pdfs) \in Nat /\ DOMAIN raw.pdfs = 1..Len(raw.pdfs)
      BY <2>1
    <3>2. /\ \A i \in 1..Len(raw.images) : images[i] \in A
          /\ \A i \in 1..Len(raw.links) : links[i] \in A
          /\ \A i \in 1..Len(raw.pdfs) : pdfs[i] \in A
      BY <2>1, <3>1 DEF AssetKinds
    <3>3. images = [i \in 1..Len(raw.images) |-> images[i]]
          /\ links = [i \in 1..Len(raw.links) |-> links[i]]
          /\ pdfs = [i \in 1..Len(raw.pdfs) |-> pdfs[i]]
      BY <3>1
    <3> HIDE DEF A, images, links, pdfs
    <3>4. /\ images \in [1..Len(raw.images) -> A] /\ links \in [1..Len(raw.links) -> A]
          /\ pdfs \in [1..Len(raw.pdfs) -> A]
      BY <3>2, <3>3
    <3>5. ASSUME NEW n \in Nat, NEW f \in [1..n -> A] PROVE f \in Seq(A)
      BY SeqDef
    <3> QED
      BY <3>1, <3>4, <3>5
  <2>3. asset' = asset \o images \o links \o pdfs
    BY <1>3 DEF SavePage, SavePageAssets
  <2>4. asset' \in Seq(A)
    <3>1. asset \in Seq(A)
      BY <1>2
    <3> HIDE DEF A, images, links, pdfs
    <3> QED
      BY <2>2, <2>3, <3>1
  <2>5. SavedWhole(Normalize(raw))
    BY DEF SavedWhole
  <2>6. Upsert(u, Normalize(raw)) /\ handled' = handled \cup {u} /\ UNCHANGED attempt
    BY <1>3 DEF SavePage
  <2> QED
    BY <2>4, <2>5, <2>6, UpsertSaves
<1>4. ASSUME NEW u \in Addresses, NEW error \in CrawlErrors, SaveError(u, error)
      PROVE  RecordsInv'
  <2>1. asset' \in Seq(AssetsOn(DOMAIN pageRow \cup {u}))
    BY <1>2, <1>4 DEF SaveError
  <2>2. SavedWhole(NormalizeFailedPage(error))
    BY DEF SavedWhole
  <2>3. Upsert(u, NormalizeFailedPage(error)) /\ handled' = handled \cup {u}
        /\ UNCHANGED attempt
    BY <1>4 DEF SaveError
  <2> QED
    BY <2>1, <2>2, <2>3, UpsertSaves
<1>5. CASE Retry
  BY <1>5 DEF Retry, RecordsInv, RecordsTypeOK, Keeps
<1>6. CASE UNCHANGED recordVars
  BY <1>6 DEF recordVars, RecordsInv, RecordsTypeOK, Keeps
<1> QED
  BY <1>3, <1>4, <1>5, <1>6 DEF RecordsNext
-----------------------------------------------------------------------------
(* The writers *)

LEMMA PageSaved ==
    ASSUME RecordsInv, NEW i \in Pages
    PROVE  /\ order[i] \in DOMAIN latest /\ order[i] \in DOMAIN pageRow
           /\ SavedWhole(latest[order[i]]) /\ Keeps(PageAt(i), latest[order[i]])
<1>1. order[i] \in Range(order)
  BY DEF Pages, Range
<1> QED
  BY <1>1 DEF RecordsInv, RecordsTypeOK, PageAt

\* What a row has is what can be computed from its text.
LEMMA RowsRecomputed ==
    ASSUME RecordsInv, NEW i \in Pages, IsFresh(i)
    PROVE  /\ PageAt(i).lines \in Seq(LineType)
           /\ PageAt(i).words = CountWords(CleanText(i)) /\ PageAt(i).hash = CleanText(i)
           /\ PageAt(i).score = CalcDataQualityScore(PageAt(i).status = "SUCCESS",
                  MainContent(i), PageAt(i).words, PageAt(i).title, PageAt(i).description)
           /\ PageAt(i).lines # <<>> =>
                 PageAt(i).warnings = DetectWarnings(PageAt(i).title, PageAt(i).description,
                                         PageAt(i).words, PageAt(i).score, FALSE, FALSE)
<1> DEFINE columns == latest[order[i]]
           row == PageAt(i)
<1>1. /\ SavedWhole(columns) /\ DOMAIN row = Names
      /\ \A c \in DOMAIN columns : row[c] = columns[c]
  BY PageSaved DEF Keeps
<1>2. \A c \in Names \ DOMAIN columns : row[c] = NewRow[c]
  BY NewColumns DEF IsFresh
<1>3. CleanText(i) = StripMarkdown(MainContent(i)) /\ MainContent(i) = ExtractMainContent(row.lines)
  BY DEF CleanText, MainContent
<1> HIDE DEF columns, row
<1>4. ASSUME NEW raw \in RawPages, columns = Normalize(raw)
      PROVE  /\ row.lines \in Seq(LineType)
             /\ row.words = CountWords(CleanText(i)) /\ row.hash = CleanText(i)
             /\ row.score = CalcDataQualityScore(row.status = "SUCCESS",
                    MainContent(i), row.words, row.title, row.description)
             /\ row.lines # <<>> =>
                   row.warnings = DetectWarnings(row.title, row.description,
                                         row.words, row.score, FALSE, FALSE)
  <2>1. \A c \in Names \ {"error"} : row[c] = Full(raw)[c]
    <3>1. \A c \in DOMAIN columns : row[c] = Full(raw)[c]
      BY <1>1, <1>4, Normalized
    <3>2. \A c \in Optional \ DOMAIN columns : row[c] = NewRow[c] /\ Full(raw)[c] = NewRow[c]
      BY <1>2, <1>4, Normalized DEF Names, Optional
    <3>3. Names \ (Optional \cup {"error"}) \subseteq DOMAIN columns
      BY <1>4, Normalized
    <3> QED
      BY <3>1, <3>2, <3>3
  <2>2. /\ row.lines = Full(raw).lines /\ row.words = Full(raw).words
        /\ row.hash = Full(raw).hash /\ row.score = Full(raw).score
        /\ row.status = Full(raw).status /\ row.title = Full(raw).title
        /\ row.description = Full(raw).description /\ row.warnings = Full(raw).warnings
    BY <2>1 DEF Names
  <2>3. row.lines = raw.lines /\ raw.lines \in Seq(LineType)
    BY <2>2, FullColumns
  <2> DEFINE main == ExtractMainContent(raw.lines)
             clean == StripMarkdown(main)
             words == CountWords(clean)
             status == InferStatus({}, raw.code)
             score == CalcDataQualityScore(status = "SUCCESS", main, words, raw.title,
                                           raw.description)
             warnings == DetectWarnings(raw.title, raw.description, words, score, FALSE, FALSE)
  <2>4. MainContent(i) = main /\ CleanText(i) = clean
    BY <1>3, <2>3
  <2>5. /\ Full(raw).words = words /\ Full(raw).hash = clean /\ Full(raw).score = score
        /\ Full(raw).status = status /\ Full(raw).title = raw.title
        /\ Full(raw).description = raw.description /\ Full(raw).warnings = warnings
    BY DEF Full
  <2>6. /\ score = CalcDataQualityScore(status = "SUCCESS", main, words, raw.title,
                                           raw.description)
        /\ warnings = DetectWarnings(raw.title, raw.description, words, score, FALSE, FALSE)
        /\ words = CountWords(clean)
    OBVIOUS
  <2> HIDE DEF main, clean, words, status, score, warnings, LineType
  <2> QED
    BY <2>2, <2>3, <2>4, <2>5, <2>6
<1>5. ASSUME NEW error \in CrawlErrors, columns = NormalizeFailedPage(error)
      PROVE  /\ row.lines = <<>> /\ row.words = 0 /\ row.hash = <<>> /\ row.score = NoScore
             /\ row.status # "SUCCESS"
  <2>1. DOMAIN columns = {"status", "error", "words", "warnings"}
        /\ columns["status"] \in Statuses \ {"SUCCESS"} /\ columns["words"] = 0
    BY <1>5, NormalizedFailed
  <2>2. row["status"] = columns["status"] /\ row["words"] = columns["words"]
    BY <1>1, <2>1
  <2>3. row["lines"] = NewRow["lines"] /\ row["hash"] = NewRow["hash"]
        /\ row["score"] = NewRow["score"]
    BY <1>2, <2>1 DEF Names
  <2> QED
    BY <2>1, <2>2, <2>3, NewColumns
<1>6. ASSUME NEW error \in CrawlErrors, columns = NormalizeFailedPage(error)
      PROVE  /\ row.lines \in Seq(LineType) /\ row.lines = <<>>
             /\ row.words = CountWords(CleanText(i)) /\ row.hash = CleanText(i)
             /\ row.score = CalcDataQualityScore(row.status = "SUCCESS",
                    MainContent(i), row.words, row.title, row.description)
  <2>1. /\ row.lines = <<>> /\ row.words = 0 /\ row.hash = <<>> /\ row.score = NoScore
        /\ row.status # "SUCCESS"
    BY <1>5, <1>6
  <2>2. <<>> \in Seq(LineType) /\ <<>> \in Seq(Seq(STRING))
    OBVIOUS
  <2>3. MainContent(i) = <<>> /\ CleanText(i) = <<>>
    <3> HIDE DEF LineType
    <3>1. MainContent(i) = <<>>
      BY <1>3, <2>1, <2>2, MainLines
    <3> QED
      BY <1>3, <2>2, <3>1, PlainText
  <2>4. CountWords(CleanText(i)) = 0
    BY <2>2, <2>3, WordsCounted
  <2> HIDE DEF LineType
  <2> QED
    BY <2>1, <2>2, <2>3, <2>4 DEF CalcDataQualityScore
<1> QED
  <2> HIDE DEF LineType
  <2> QED
    BY <1>1, <1>4, <1>6 DEF SavedWhole, row

LEMMA RecordsFollow == ASSUME RecordsInv PROVE RecordsAgree
<1> SUFFICES ASSUME NEW i \in Pages, IsFresh(i)
             PROVE  LET json == TransformPageToRecord(i)
                        csv == ExportPages(i)
                        xlsx == ExportPagesXlsx(i)
                    IN  /\ \A c \in DOMAIN csv : csv[c] = json[c]
                        /\ \A c \in {"status", "words", "score"} : xlsx[c] = json[c]
                        /\ IsPrefix(xlsx.preview, json.main)
                        /\ json.hash = PageAt(i).hash
                        /\ PageAt(i).lines # <<>> =>
                              PageAt(i).warnings = json.warnings
                                                      \ {"DUPLICATE_CONTENT", "NAV_NOISE"}
  BY DEF RecordsAgree
<1> DEFINE p == PageAt(i)
           words == CountWords(CleanText(i))
           main == MainContent(i)
           score == CalcDataQualityScore(p.status = "SUCCESS", main, words, p.title,
                                         p.description)
           duplicate == SeenBefore(i, CleanText, Pages)
           noise == IsNavNoise(p.lines, main)
           warnings == DetectWarnings(p.title, p.description, words, score, duplicate, noise)
           json == TransformPageToRecord(i)
           csv == ExportPages(i)
           xlsx == ExportPagesXlsx(i)
           n == Min({Len(main), PreviewLength})
<1>1. /\ p.lines \in Seq(LineType) /\ p.words = words /\ p.hash = CleanText(i)
      /\ p.score = CalcDataQualityScore(p.status = "SUCCESS", main, p.words, p.title,
                                        p.description)
      /\ p.lines # <<>> =>
            p.warnings = DetectWarnings(p.title, p.description, p.words, p.score, FALSE, FALSE)
  <2> HIDE DEF LineType
  <2> QED
    BY RowsRecomputed
<1>2. json = [status |-> p.status, words |-> words, hash |-> CleanText(i), score |-> score,
              main |-> main, warnings |-> warnings]
  BY DEF TransformPageToRecord
<1>3. csv = [status |-> p.status, words |-> p.words, score |-> p.score, main |-> main]
  BY DEF ExportPages
<1>4. xlsx = [status |-> p.status, words |-> p.words, score |-> p.score,
              preview |-> SubSeq(main, 1, n)]
  BY DEF ExportPagesXlsx
<1>5. main \in Seq(LineType)
  <2>1. main = ExtractMainContent(p.lines)
    BY DEF MainContent
  <2> HIDE DEF LineType
  <2> QED
    BY <1>1, <2>1, MainLines
<1> HIDE DEF main, p, duplicate, noise
<1>6. score = p.score
  BY <1>1
<1>7. DetectWarnings(p.title, p.description, words, score, FALSE, FALSE) =
          warnings \ {"DUPLICATE_CONTENT", "NAV_NOISE"}
  <2>1. PICK t, e, w, s, d, m :
           /\ t = p.title /\ e = p.description /\ w = words /\ s = score
           /\ d = duplicate /\ m = noise
    OBVIOUS
  <2> HIDE DEF words, score
  <2>2. AlikeBut(t, e, w, s, d, m)
    BY WarningsAlike, Zenon
  <2>3. DetectWarnings(t, e, w, s, FALSE, FALSE) =
           DetectWarnings(t, e, w, s, d, m) \ {"DUPLICATE_CONTENT", "NAV_NOISE"}
    BY <2>2, Zenon DEF AlikeBut
  <2> QED
    BY <2>1, <2>3, Zenon
<1>8. IsPrefix(SubSeq(main, 1, n), main)
  <2>1. n \in Nat /\ n <= Len(main)
    <3>1. Len(main) \in Nat /\ PreviewLength \in Nat
      BY <1>5, RecordConstants
    <3> QED
      BY <3>1, MinOfTwo
  <2> HIDE DEF n, LineType
  <2>2. SubSeq(main, 1, n) \in Seq(LineType) /\ Len(SubSeq(main, 1, n)) = n
    BY <1>5, <2>1
  <2>3. SubSeq(SubSeq(main, 1, n), 1, n) = SubSeq(main, 1, n)
    <3>1. PICK start : start = SubSeq(main, 1, n)
      OBVIOUS
    <3>2. start \in Seq(LineType) /\ Len(start) = n
      BY <2>2, <3>1
    <3>3. SubSeq(start, 1, n) = start
      BY <2>1, <3>2
    <3> QED
      BY <3>1, <3>3
  <2> QED
    BY <2>1, <2>2, <2>3 DEF IsPrefix
<1> HIDE DEF words, score, warnings, json, csv, xlsx, n, LineType
<1>9. \A c \in DOMAIN csv : csv[c] = json[c]
  BY <1>1, <1>2, <1>3, <1>6
<1>10. \A c \in {"status", "words", "score"} : xlsx[c] = json[c]
  BY <1>1, <1>2, <1>4, <1>6
<1>11. IsPrefix(xlsx.preview, json.main)
  <2>1. xlsx.preview = SubSeq(main, 1, n) /\ json.main = main
    BY <1>2, <1>4
  <2> QED
    BY <1>8, <2>1
<1>12. json.hash = p.hash /\ json.warnings = warnings
  BY <1>1, <1>2
<1>13. p.lines # <<>> => p.warnings = json.warnings \ {"DUPLICATE_CONTENT", "NAV_NOISE"}
  BY <1>1, <1>6, <1>7, <1>12
<1> QED
  BY <1>9, <1>10, <1>11, <1>12, <1>13 DEF json, csv, xlsx, p
LEMMA StatusOfPage ==
    ASSUME RecordsInv, NEW i \in Pages
    PROVE  PageAt(i).status \in Statuses
<1>1. PageAt(i) \in Columns
  BY PageSaved DEF Keeps
<1> HIDE DEF LineType
<1> QED
  BY <1>1 DEF Columns

LEMMA ReportsFollow == ASSUME RecordsInv PROVE ReportsAgree
<1> DEFINE good == {i \in Pages : PageAt(i).status = "SUCCESS"}
           failed == {i \in Pages : PageAt(i).status \notin {"SUCCESS", "SKIPPED"}}
           errors == {order[i] : i \in failed}
<1>1. \A i \in Pages : PageAt(i).status \notin {"PENDING", "SKIPPED"}
  BY StatusOfPage DEF Statuses
<1>2. WriteErrors = errors
  BY <1>1 DEF WriteErrors
<1>3. IsFiniteSet(Pages)
  <2>1. order \in Seq(Addresses)
    BY DEF RecordsInv
  <2>2. Pages = 1..Len(order) /\ Len(order) \in Int
    BY <2>1 DEF Pages
  <2> QED
    BY <2>2, FS_Interval
<1>4. Pages = good \cup failed /\ good \cap failed = {}
      /\ good \subseteq Pages /\ failed \subseteq Pages
  BY <1>1
<1>5. IsFiniteSet(good) /\ IsFiniteSet(failed)
  BY <1>3, <1>4, FS_Subset
<1>6. Cardinality(Pages) = Cardinality(good) + Cardinality(failed)
  <2>1. Cardinality(good \cup failed)
           = Cardinality(good) + Cardinality(failed) - Cardinality(good \cap failed)
    BY <1>5, FS_Union
  <2>2. Cardinality(good \cap failed) = 0
    BY <1>4, FS_EmptySet
  <2>3. Cardinality(good) \in Nat /\ Cardinality(failed) \in Nat
    BY <1>5, FS_CardinalityType
  <2> HIDE DEF good, failed
  <2> QED
    BY <1>4, <2>1, <2>2, <2>3
<1>7. Cardinality(errors) = Cardinality(failed)
  <2> DEFINE name == [i \in failed |-> order[i]]
  <2>1. \A i, j \in Pages : order[i] = order[j] => i = j
    BY DEF RecordsInv, RecordsTypeOK, IsInjective, Pages
  <2>2. name \in [failed -> errors] /\ (\A i, j \in failed : name[i] = name[j] => i = j)
        /\ \A u \in errors : \E i \in failed : name[i] = u
    BY <1>4, <2>1
  <2> HIDE DEF name, failed, errors
  <2>3. name \in Bijection(failed, errors)
    BY <2>2 DEF Bijection, Injection, Surjection, IsInjective
  <2>4. ExistsBijection(failed, errors)
    BY <2>3 DEF ExistsBijection
  <2> QED
    BY <1>5, <2>4, FS_Bijection
<1>8. /\ WriteSummary.totalPages = Cardinality(Pages)
      /\ WriteSummary.successPages = Cardinality(good)
      /\ WriteSummary.failedPages = Cardinality(failed)
  BY DEF WriteSummary, Where, Succeeded
<1>9. /\ WriteDataQuality.successPages = Cardinality(good)
      /\ WriteDataQuality.errorPages = Cardinality(errors)
  BY <1>2 DEF WriteDataQuality, Where, Succeeded
<1> HIDE DEF good, failed, errors
<1> QED
  BY <1>6, <1>7, <1>8, <1>9 DEF ReportsAgree

LEMMA AssetsFollow == ASSUME RecordsInv PROVE AssetsAgree
<1> SUFFICES ASSUME Len(asset) <= AssetLimit
             PROVE  /\ ExportLinks = UNION {TransformLinks(u) : u \in Range(order)}
                    /\ ExportImages = UNION {{[page |-> u, url |-> x] :
                                                x \in TransformImages(u)} : u \in Range(order)}
  BY DEF AssetsAgree
<1>1. asset \in Seq([page : Range(order), kind : AssetKinds, url : STRING])
  BY DEF RecordsInv, RecordsTypeOK
<1>2. \A k \in DOMAIN asset : k <= AssetLimit /\ asset[k].page \in Range(order)
  <2> DEFINE A == [page : Range(order), kind : AssetKinds, url : STRING]
  <2>1. \A a \in A : a.page \in Range(order)
    OBVIOUS
  <2>2. asset \in Seq(A)
    BY <1>1
  <2> HIDE DEF A
  <2>3. DOMAIN asset = 1..Len(asset) /\ Len(asset) \in Nat
        /\ \A k \in 1..Len(asset) : asset[k] \in A
    BY <2>2
  <2>4. AssetLimit \in Nat
    BY RecordConstants
  <2> QED
    BY <2>1, <2>3, <2>4
<1>3. FoundAssets("LINK") = {k \in DOMAIN asset : asset[k].kind = "LINK"}
      /\ FoundAssets("IMAGE") = {k \in DOMAIN asset : asset[k].kind = "IMAGE"}
  BY <1>2 DEF FoundAssets
<1>4. ExportLinks = UNION {TransformLinks(u) : u \in Range(order)}
  BY <1>2, <1>3 DEF ExportLinks, TransformLinks, AssetsOf
<1> DEFINE of(u) == {[page |-> u, url |-> x] : x \in TransformImages(u)}
<1>5. ASSUME NEW r \in ExportImages PROVE \E u \in Range(order) : r \in of(u)
  <2>1. PICK k \in FoundAssets("IMAGE") : r = [page |-> asset[k].page, url |-> asset[k].url]
    BY DEF ExportImages
  <2>2. k \in AssetsOf(asset[k].page, "IMAGE") /\ asset[k].page \in Range(order)
    BY <1>2, <1>3, <2>1 DEF AssetsOf
  <2>3. asset[k].url \in TransformImages(asset[k].page)
    BY <2>2 DEF TransformImages
  <2> QED
    BY <2>1, <2>2, <2>3
<1>6. ASSUME NEW u \in Range(order), NEW r \in of(u) PROVE r \in ExportImages
  <2>1. PICK x \in TransformImages(u) : r = [page |-> u, url |-> x]
    OBVIOUS
  <2>2. PICK k \in AssetsOf(u, "IMAGE") : x = asset[k].url
    BY <2>1 DEF TransformImages
  <2>3. k \in FoundAssets("IMAGE") /\ asset[k].page = u
    BY <1>3, <2>2 DEF AssetsOf
  <2> QED
    BY <2>1, <2>2, <2>3 DEF ExportImages
<1>7. ExportImages = UNION {of(u) : u \in Range(order)}
  <2> HIDE DEF of
  <2> QED
    BY <1>5, <1>6
<1> QED
  BY <1>4, <1>7

LEMMA TablesFollow == TablesAgree
BY DEF TablesAgree, ExportTables, ExtractAllHtmlTables, ParsePageTables

LEMMA WritersFollow == ASSUME RecordsInv PROVE WritersAgree
BY RecordsFollow, ReportsFollow, AssetsFollow, TablesFollow DEF WritersAgree

\* The writers of an export agree: pages.json, which computes scores, words, hashes and
\* warnings again (data-contract.helper.ts:365-435), has what normalize has stored and
\* the csv and xlsx files read, unless a retry left a column of an earlier attempt; the
\* three reports count the same pages, and the lists the same links, images and rows of
\* tables.  For any pages, errors and order of saving, after one attempt or two.
THEOREM WritersAlike == RecordsSpec => []WritersAgree
<1>1. RecordsInit => RecordsInv
  BY RecordsStart
<1>2. RecordsInv /\ [RecordsNext]_recordVars => RecordsInv'
  BY RecordsStep
<1>3. RecordsInv => WritersAgree
  BY WritersFollow
<1> QED
  BY <1>1, <1>2, <1>3, PTL DEF RecordsSpec

=============================================================================

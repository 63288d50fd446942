------------------------------ MODULE PageStore -----------------------------
(***************************************************************************)
(* The pages a crawl stores and the counters its job shows: what             *)
(* crawl.worker.processor.ts saves while it polls (persistIncrementalPages), *)
(* what it saves and counts at the end (persistBatchResults), and the        *)
(* counters it writes on the way, some of which it does not wait for.  A run *)
(* that timed out saves on beside the run of the next attempt, which knows   *)
(* nothing of it and has the provider crawl the site again.  A step is the   *)
(* handling of one page.                                                     *)
(***************************************************************************)
EXTENDS Integers, FiniteSets, Sequences, SequencesExt

CONSTANTS
    Urls,            \* addresses of pages
    Crawls,          \* what the provider may tell each attempt of one site
    ProgressEvery,   \* the pages from one write of counters to the next, 10
    SaveFails        \* whether a page may fail to be saved

Runs == 1..2   \* the attempts of the job

\* polls are the pages so far at each poll, pages, failed and robots the result; a crawl
\* that ends as failed told of no pages, or could not be asked any more.
CrawlType == [polls : Seq(Seq(Urls)), pages : Seq(Urls), failed : Seq(Urls),
              robots : Seq(Urls), ends : {"completed", "failed"}]

ASSUME PageConstants ==
    /\ Crawls \subseteq [Runs -> CrawlType]
    /\ ProgressEvery \in Nat \ {0} /\ SaveFails \in BOOLEAN

\* What the provider shows at a poll is among what it shows in the end.
ASSUME PollsGrow ==
    \A crawls \in Crawls, r \in Runs : LET c == crawls[r] IN
        \A i \in DOMAIN c.polls : Range(c.polls[i]) \subseteq Range(c.pages)

VARIABLES
    crawl,    \* what the provider tells each attempt, one of Crawls, for good
    page,     \* crawl_pages of the job, by address
    assets,   \* how often the assets of a page were inserted
    counts,   \* status and counters of the job; by: the attempt that wrote the status last
    run,      \* the runs of processCrawlJob
    flight,   \* writes of counters that nobody waits for
    spoilt    \* history: what keeps the counters from being true

pageVars == <<crawl, page, assets, counts, run, flight, spoilt>>

Named(c) == Range(c.pages) \cup Range(c.failed) \cup Range(c.robots)

CountType == [status : {"PENDING", "RUNNING", "COMPLETED", "FAILED"},
              total : Nat, ok : Nat, failed : Nat, by : Runs \cup {0}]
ProgressType == [total : Nat, ok : Nat, failed : Nat]

\* polled counts the polls that were taken, todo are the items before the run,
\* seen is persistedUrls; stored, ok, bad and errors are the counters of the
\* polls and of the batch.
RunType == [pc : {"waits", "poll", "hook", "batch", "failed", "robots", "write", "over"},
            polled : Nat, todo : Seq(Urls), seen : SUBSET Urls, aborted : BOOLEAN,
            stored : Nat, ok : Nat, bad : Nat, errors : Nat]
NewRun == [pc |-> "waits", polled |-> 0, todo |-> <<>>, seen |-> {}, aborted |-> FALSE,
           stored |-> 0, ok |-> 0, bad |-> 0, errors |-> 0]

PagesTypeOK ==
    /\ crawl \in Crawls
    /\ page \in [Urls -> {"none", "page", "error", "blocked"}]
    /\ assets \in [Urls -> Nat]
    /\ counts \in CountType
    /\ run \in [Runs -> RunType]
    /\ flight \subseteq ProgressType
    /\ spoilt \subseteq {"save failed", "written late"}

PagesInit ==
    /\ crawl \in Crawls
    /\ page = [u \in Urls |-> "none"] /\ assets = [u \in Urls |-> 0]
    /\ counts = [status |-> "PENDING", total |-> 0, ok |-> 0, failed |-> 0, by |-> 0]
    /\ run = [r \in Runs |-> NewRun]
    /\ flight = {} /\ spoilt = {}

-----------------------------------------------------------------------------
Larger(a, b) == IF a > b THEN a ELSE b

\* updateProgress, whatever the status is.
WithProgress(p) ==
    [counts EXCEPT !.total = p.total, !.ok = p.ok, !.failed = p.failed]

\* The first attempt, and the second, which begins when the first was given up, failed, or
\* died after its last write: RUNNING, with the counters as they were.
StartRun(r) ==
    /\ run[r].pc = "waits" /\ (r = 2 => run[1].aborted \/ run[1].pc = "over")
    /\ run' = [run EXCEPT ![r].pc = "poll"]
    /\ counts' = [counts EXCEPT !.status = "RUNNING", !.by = r]
    /\ UNCHANGED <<crawl, page, assets, flight, spoilt>>

\* withTimeout gives the run up; it hears of it where it looks at the signal.
TimeOut(r) ==
    /\ r = 1 /\ run[r].pc \notin {"waits", "over"} /\ ~run[r].aborted
    /\ run' = [run EXCEPT ![r].aborted = TRUE]
    /\ UNCHANGED <<crawl, page, assets, counts, flight, spoilt>>

\* persistSinglePage: the row and its assets; a page may be refused before its row
\* is written (by validateUrlAsync or by the database) or after (createMany).
Save(r, u) ==
    \/ /\ page' = [page EXCEPT ![u] = "page"] /\ assets' = [assets EXCEPT ![u] = @ + 1]
       /\ UNCHANGED spoilt
    \/ /\ SaveFails /\ page' \in {page, [page EXCEPT ![u] = "page"]}
       /\ spoilt' = spoilt \cup {"save failed"} /\ UNCHANGED assets
Saved == spoilt' = spoilt /\ assets' # assets

-----------------------------------------------------------------------------
(* While polling *)

\* The provider shows what it has so far; an aborted run does not look at it.
Poll(r) ==
    /\ run[r].pc = "poll" /\ ~run[r].aborted
    /\ run[r].polled < Len(crawl[r].polls)
    /\ run' = [run EXCEPT ![r].pc = "hook", ![r].polled = @ + 1,
                          ![r].todo = crawl[r].polls[run[r].polled + 1]]
    /\ UNCHANGED <<crawl, page, assets, counts, flight, spoilt>>

\* persistIncrementalPages: the address counts as persisted before it is saved.
SaveIncrement(r) ==
    /\ run[r].pc = "hook" /\ run[r].todo # <<>>
    /\ LET u == Head(run[r].todo)
       IN  IF u \in run[r].seen
           THEN /\ run' = [run EXCEPT ![r].todo = Tail(@)]
                /\ UNCHANGED <<page, assets, spoilt>>
           ELSE /\ Save(r, u)
                /\ run' = [run EXCEPT ![r].todo = Tail(@), ![r].seen = @ \cup {u},
                                      ![r].stored = IF Saved THEN @ + 1 ELSE @]
    /\ UNCHANGED <<crawl, counts, flight>>

\* The counters after a poll: the larger of what the provider says and what was
\* stored.  The provider's pages are never marked as failed.
ShowProgress(r) ==
    /\ run[r].pc = "hook" /\ run[r].todo = <<>>
    /\ LET completed == Len(crawl[r].polls[run[r].polled])
       IN  counts' = [counts EXCEPT !.ok = Larger(completed, run[r].stored),
                                    !.total = Len(crawl[r].pages)]
    /\ spoilt' = spoilt \cup IF counts.status = "RUNNING" THEN {} ELSE {"written late"}
    /\ run' = [run EXCEPT ![r].pc = "poll"]
    /\ UNCHANGED <<crawl, page, assets, flight>>

\* The polls are over, by an abort or with a result.
Result(r) ==
    /\ run[r].pc = "poll"
    /\ run[r].aborted \/ run[r].polled = Len(crawl[r].polls)
    /\ run' = [run EXCEPT
          ![r].pc = IF run[r].aborted THEN "over"
                    ELSE IF crawl[r].ends = "failed" THEN "write" ELSE "batch",
          ![r].todo = crawl[r].pages]
    /\ UNCHANGED <<crawl, page, assets, counts, flight, spoilt>>

-----------------------------------------------------------------------------
(* At the end: persistBatchResults, which does not look at the signal *)

\* Seeded fault: a page that was saved while polling is passed over uncounted.
BatchKnownUncounted(r) == [run[r] EXCEPT !.todo = Tail(@)]

\* A page whose address is in persistedUrls counts as a success.
BatchKnown(r) == [run[r] EXCEPT !.todo = Tail(@), !.ok = @ + 1]

\* Any other is saved and counted; every so often the counters are written, and
\* the write is not waited for.
BatchPage(r) ==
    /\ run[r].pc = "batch" /\ run[r].todo # <<>>
    /\ LET u == Head(run[r].todo)
           handled == run[r].ok + run[r].bad + run[r].errors + 1
           failed == run[r].bad + run[r].errors + IF Saved THEN 0 ELSE 1
           progress == [ok |-> handled - failed, failed |-> failed,
                        total |-> Cardinality(run[r].seen \cup {u})]
       IN  IF u \in run[r].seen
           THEN /\ run' = [run EXCEPT ![r] = BatchKnown(r)]
                /\ UNCHANGED <<page, assets, spoilt, flight>>
           ELSE /\ Save(r, u)
                /\ run' = [run EXCEPT ![r].todo = Tail(@), ![r].seen = @ \cup {u},
                              ![r].ok = IF Saved THEN @ + 1 ELSE @,
                              ![r].errors = IF Saved THEN @ ELSE @ + 1]
                /\ flight' = IF handled % ProgressEvery = 0
                             THEN flight \cup {progress} ELSE flight
    /\ UNCHANGED <<crawl, counts>>

\* The addresses the provider could not fetch, then those robots.txt forbids.
BatchOther(r) ==
    /\ run[r].pc \in {"failed", "robots"} /\ run[r].todo # <<>>
    /\ LET u == Head(run[r].todo)
           row == IF run[r].pc = "failed" THEN "error" ELSE "blocked"
       IN  IF u \in run[r].seen
           THEN /\ run' = [run EXCEPT ![r].todo = Tail(@)]
                /\ UNCHANGED <<page, spoilt>>
           ELSE \/ /\ page' = [page EXCEPT ![u] = row] /\ UNCHANGED spoilt
                   /\ run' = [run EXCEPT ![r].todo = Tail(@), ![r].seen = @ \cup {u},
                                         ![r].bad = @ + 1]
                \/ /\ SaveFails /\ spoilt' = spoilt \cup {"save failed"} /\ UNCHANGED page
                   /\ run' = [run EXCEPT ![r].todo = Tail(@), ![r].seen = @ \cup {u},
                                         ![r].errors = @ + 1]
    /\ UNCHANGED <<crawl, assets, counts, flight>>

BatchNext(r) ==
    /\ run[r].pc \in {"batch", "failed", "robots"} /\ run[r].todo = <<>>
    /\ run' = [run EXCEPT
          ![r].pc = CASE run[r].pc = "batch" -> "failed" [] run[r].pc = "failed" -> "robots"
                      [] OTHER -> "write",
          ![r].todo = CASE run[r].pc = "batch" -> crawl[r].failed
                        [] run[r].pc = "failed" -> crawl[r].robots [] OTHER -> <<>>]
    /\ UNCHANGED <<crawl, page, assets, counts, flight, spoilt>>

\* The status, with the counters of the batch, or of the polls after a failure, in which
\* the provider's total may be missing; an exception leaves the counters.
WriteStatus(r) ==
    /\ run[r].pc = "write"
    /\ IF crawl[r].ends = "completed"
       THEN counts' = [status |-> "COMPLETED", total |-> Cardinality(run[r].seen),
                       ok |-> run[r].ok, failed |-> run[r].bad + run[r].errors, by |-> r]
       ELSE \/ counts' = [counts EXCEPT !.status = "FAILED", !.by = r]
            \/ \E told \in {0, Len(crawl[r].pages)} :
                 counts' = [status |-> "FAILED", ok |-> run[r].stored, by |-> r,
                            total |-> Larger(told, Cardinality(run[r].seen)),
                            failed |-> Larger(1, told - run[r].stored)]
    /\ run' = [run EXCEPT ![r] = [NewRun EXCEPT !.pc = "over", !.aborted = run[r].aborted]]
    /\ UNCHANGED <<crawl, page, assets, flight, spoilt>>

\* A write of counters arrives, in whatever order.
Land(p) ==
    /\ p \in flight /\ flight' = flight \ {p}
    /\ counts' = WithProgress(p)
    /\ spoilt' = spoilt \cup IF counts.status = "RUNNING" THEN {} ELSE {"written late"}
    /\ UNCHANGED <<crawl, page, assets, run>>

PagesNext ==
    \/ \E r \in Runs :
          \/ StartRun(r) \/ TimeOut(r) \/ Poll(r) \/ SaveIncrement(r) \/ ShowProgress(r)
          \/ Result(r) \/ BatchPage(r) \/ BatchOther(r) \/ BatchNext(r) \/ WriteStatus(r)
    \/ \E p \in flight : Land(p)

PagesSpec == PagesInit /\ [][PagesNext]_pageVars

-----------------------------------------------------------------------------
\* The kind of row the crawl of r asks for an address.
RowFor(r, u) ==
    IF u \in Range(crawl[r].pages) THEN "page"
    ELSE IF u \in Range(crawl[r].failed) THEN "error" ELSE "blocked"
NamedOnce(c) == Len(c.pages) = Cardinality(Range(c.pages))

\* The counters of a completed job are those of the crawl of the attempt that completed
\* it: every address this crawl named is stored and counted once, as success or as
\* failure, whether it was saved by persistIncrementalPages or by persistBatchResults,
\* and the row is of the kind that was counted, unless the crawl of the other attempt,
\* which may go on beside it, asks for another; all this unless a save failed, or a
\* write of counters that nobody waited for came after the status.  A page the
\* provider gives twice is one row but counts twice as a success.
CountsAreTrue ==
    (counts.status = "COMPLETED" /\ spoilt = {}) =>
        LET c == crawl[counts.by]
            Counted(kinds) == Cardinality({u \in Named(c) : RowFor(counts.by, u) \in kinds})
        IN  /\ counts.total = Cardinality(Named(c))
            /\ counts.failed = Counted({"error", "blocked"})
            /\ NamedOnce(c) => counts.ok = Counted({"page"})
            /\ \A u \in Named(c) :
                  \E r \in Runs : u \in Named(crawl[r]) /\ page[u] = RowFor(r, u)
=============================================================================

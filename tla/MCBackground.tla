---------------------------- MODULE MCBackground ----------------------------
(***************************************************************************)
(* WebhookDelivery, ChangeDetection, EventStreams and CronJobs for TLC:     *)
(* what goes on beside the crawls.  They share no state here: a behaviour   *)
(* is of one delivery, of the report of one job, of the event streams of    *)
(* one user, or of the switches of the periodic jobs, as part says, and the *)
(* others stay as they began.                                               *)
(***************************************************************************)
EXTENDS WebhookDelivery, ChangeDetection, EventStreams, CronJobs, TLC

VARIABLE part

\* One caller creates the delivery, the others redeliver it.  The handlers of CronJobs
\* are the same model values as the runs of the webhook worker.
Permutable == Permutations(Runs) \cup Permutations(Callers \ {First})

-----------------------------------------------------------------------------
(* What three crawls of one site find *)

Found(address, hash, status) ==
    [address |-> address, hash |-> hash, status |-> status,
     words |-> IF hash = NoHash THEN 0 ELSE 1]
At(path, query) == [path |-> path, query |-> query, capitals |-> FALSE,
                    slash |-> FALSE, fragment |-> FALSE]
Param(name, value) == [name |-> name, value |-> value]
PageX == <<Param("page", "1"), Param("sort", "x")>>
XPage == <<Param("sort", "x"), Param("gclid", "7"), Param("page", "1")>>

\* a is found under two addresses by one crawl; b, without text, by one attempt and with
\* it by another, and by a third crawl with its parameters in another order, with a
\* tracking parameter and a slash.
Twice == {Found([At("a", <<>>) EXCEPT !.capitals = TRUE], "one", "SUCCESS"),
          Found(At("a", <<>>), "two", "SUCCESS")}
Broken == {Found([At("a", <<>>) EXCEPT !.fragment = TRUE], "two", "FAILED")}
Flaky == {Found(At("b", PageX), NoHash, "FAILED"), Found(At("b", PageX), "two", "SUCCESS")}
Small == {Found([At("b", XPage) EXCEPT !.slash = TRUE], "two", "SUCCESS")}
SiteCrawl(site, scheduled) == [site |-> site, scheduled |-> scheduled]

SomeDiffLoads ==
    {<<SiteCrawl(Twice, TRUE), SiteCrawl(Broken, TRUE), SiteCrawl({}, FALSE)>>,
     <<SiteCrawl({}, FALSE), SiteCrawl(Flaky, FALSE), SiteCrawl(Small, TRUE)>>}

-----------------------------------------------------------------------------
BackgroundInit ==
    /\ part \in {"delivery", "report", "streams", "cron"}
    /\ Init /\ DiffInit /\ StreamsInit /\ CronInit
    /\ part # "delivery" => caller[First].op = "dispatch"
    /\ part # "report" => LET l == CHOOSE l \in DiffLoads : TRUE
                          IN  \A j \in DiffJobs : diffJob[j].site = l[j].site

BackgroundNext ==
    \/ part = "delivery" /\ Next /\ UNCHANGED <<diffVars, streamVars, cronVars>>
    \/ part = "report" /\ DiffNext /\ UNCHANGED <<vars, streamVars, cronVars>>
    \/ part = "streams" /\ StreamsNext /\ UNCHANGED <<vars, diffVars, cronVars>>
    \/ part = "cron" /\ CronNext /\ UNCHANGED <<vars, diffVars, streamVars>>

BackgroundSpec ==
    BackgroundInit /\ [][BackgroundNext /\ UNCHANGED part]_<<part, vars, diffVars,
                                                             streamVars, cronVars>>
=============================================================================

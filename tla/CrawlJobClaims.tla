--------------------------- MODULE CrawlJobClaims ---------------------------
(***************************************************************************)
(* What the README says of a crawl job's end and the code does not keep.   *)
(***************************************************************************)
EXTENDS CrawlJob

\* README.md:189-192: a job the worker has received ends up COMPLETED or FAILED
\* (or CANCELED, or deleted), also when its attempts time out.
TimedOutJobsSettle ==
    queue.state = "waiting" ~> row.status \in Terminal \/ row.deleted
=============================================================================

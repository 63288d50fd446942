------------------------------- MODULE JobRow -------------------------------
(***************************************************************************)
(* One row of table crawl_jobs and the statements that the repository      *)
(* (modules/crawl-jobs/crawl-job.repository.ts) runs on it.  A statement is *)
(* one UPDATE, hence one atomic step of whoever issues it; its WHERE clause *)
(* is evaluated on the row as it is then, not on what the caller read      *)
(* earlier.                                                                 *)
(*                                                                          *)
(* Columns kept: the status, the soft-delete mark, the three page counters, *)
(* whether the provider's job id is known, and whether page rows hang off   *)
(* the job.  Times, messages and URLs are left out.                         *)
(***************************************************************************)
EXTENDS Naturals

JOB_STATUS == {"PENDING", "QUEUED", "RUNNING", "PROCESSING_EXPORT",
               "COMPLETED", "FAILED", "CANCELED", "EXPIRED"}

\* The statuses no handler is expected to leave any more.
Terminal == {"COMPLETED", "FAILED", "CANCELED"}

\* The statuses that occupy one of the user's concurrency slots.
ActiveStatuses == {"PENDING", "QUEUED", "RUNNING", "PROCESSING_EXPORT"}

Counts(t, s, f) == [totalPages |-> t, successPages |-> s, failedPages |-> f]

CountsType == [totalPages : Nat, successPages : Nat, failedPages : Nat]

RowType == [status : JOB_STATUS, deleted : BOOLEAN, counts : CountsType,
            firecrawlJobId : BOOLEAN, pages : BOOLEAN]

\* create: every job is inserted as PENDING with zero counters.
NewRow == [status |-> "PENDING", deleted |-> FALSE, counts |-> Counts(0, 0, 0),
           firecrawlJobId |-> FALSE, pages |-> FALSE]

\* findById answers null for a soft-deleted row.
Visible(row) == ~row.deleted

\* Seeded fault: the guard on CANCELED is missing.
UpdateStatusUnguarded(row, status, counts) ==
    [row EXCEPT !.status = status, !.counts = counts]

\* updateStatus: CANCELED is written unconditionally, any other status only
\* over a row that is not CANCELED.  The soft-delete mark is not looked at.
UpdateStatus(row, status, counts) ==
    IF status # "CANCELED" /\ row.status = "CANCELED"
    THEN row
    ELSE [row EXCEPT !.status = status, !.counts = counts]

\* Seeded fault: the same guard is missing in the batch statement.
BatchUpdateStatusUnguarded(row, status) == [row EXCEPT !.status = status]

\* batchUpdateStatus: the same guard, no counters.
BatchUpdateStatus(row, status) ==
    IF row.status = "CANCELED" THEN row ELSE [row EXCEPT !.status = status]

\* updateProgress: no guard at all; failedPages is given only when pages have failed.
UpdateProgress(row, total, success, failed) ==
    [row EXCEPT !.counts.totalPages = total, !.counts.successPages = success,
                !.counts.failedPages = IF failed > 0 THEN failed ELSE @]

SaveFirecrawlJobId(row) == [row EXCEPT !.firecrawlJobId = TRUE]

\* The upsert of a page row, which does not read the job row.
UpsertPages(row) == [row EXCEPT !.pages = TRUE]

\* delete: pages, assets, logs and exports go, the row stays with its mark.
SoftDelete(row) == [row EXCEPT !.deleted = TRUE, !.pages = FALSE]

\* The reader's test for "RUNNING but every page has been processed".
AutoCompletes(row, maxPages) ==
    LET target == IF row.counts.totalPages < maxPages
                  THEN row.counts.totalPages ELSE maxPages
    IN  /\ row.status = "RUNNING"
        /\ row.counts.totalPages > 0
        /\ row.counts.successPages + row.counts.failedPages >= target
=============================================================================

---------------------------- MODULE JobLifecycle ----------------------------
(***************************************************************************)
(* What the crawl-job API promises about a job's status, whatever happens  *)
(* between workers, retries and requests:                                   *)
(*   - a job starts PENDING and never returns there;                        *)
(*   - it has an outcome only after it was RUNNING;                         *)
(*   - CANCELED is final;                                                   *)
(*   - deletion is final and leaves the status as it is;                    *)
(*   - QUEUED and PROCESSING_EXPORT are never seen.                         *)
(* An outcome is not final: a retry, or a second execution of the same job, *)
(* takes a COMPLETED or FAILED job back to RUNNING, and such a job can be   *)
(* canceled.                                                                *)
(***************************************************************************)
VARIABLES status, deleted

lifecycleVars == <<status, deleted>>

LifecycleInit == status = "PENDING" /\ deleted = FALSE

\* A worker takes the job up, for the first time or again.
Start ==
    /\ status # "CANCELED"
    /\ status' = "RUNNING"
    /\ UNCHANGED deleted

\* A worker, or a reader that found all pages processed, sets the outcome.
Finish ==
    /\ status \in {"RUNNING", "COMPLETED", "FAILED"}
    /\ status' \in {"COMPLETED", "FAILED"}
    /\ UNCHANGED deleted

\* A user cancels, or a worker finds the crawl canceled.
Cancel == status' = "CANCELED" /\ UNCHANGED deleted

Delete == deleted' = TRUE /\ UNCHANGED status

LifecycleNext == Start \/ Finish \/ Cancel \/ Delete

LifecycleSpec == LifecycleInit /\ [][LifecycleNext]_lifecycleVars
=============================================================================

----------------------------- MODULE MCCrawlJob -----------------------------
(***************************************************************************)
(* CrawlJob for TLC, with the abstract lifecycle it implements.             *)
(***************************************************************************)
EXTENDS CrawlJob

Lifecycle == INSTANCE JobLifecycle
                WITH status <- row.status, deleted <- row.deleted

\* The status column, under all interleavings and failures, goes only through
\* the steps the lifecycle allows.
ImplementsLifecycle == Lifecycle!LifecycleSpec
=============================================================================

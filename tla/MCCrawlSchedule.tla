--------------------------- MODULE MCCrawlSchedule ---------------------------
(***************************************************************************)
(* CrawlSchedule for TLC: a weekly schedule, which may ask for a day; its   *)
(* last instants are after all instants of the run.                         *)
(***************************************************************************)
EXTENDS CrawlSchedule

CONSTANTS weekly, monday, friday

SlotsOfPlans ==
    [p \in Plans |-> CASE p.day = NoDay -> {2, 4}
                      [] p.day = monday -> {1, 3}
                      [] p.day = friday -> 1..3]
=============================================================================

-------------------------- MODULE ChangeDetection ---------------------------
(***************************************************************************)
(* The report of change-detection.service.ts: what the pages of a job are   *)
(* compared with, and when.  The worker writes the report when the job is   *)
(* completed, clients ask for one at any time, with or without a job to     *)
(* compare with, and all of them write the one file of the job, while this  *)
(* and other jobs of the same user run, fail, run again and are deleted.    *)
(* The reports of several jobs share nothing, so there is one: that of      *)
(* Subject.                                                                 *)
(***************************************************************************)
EXTENDS Integers, FiniteSets, Sequences, SequencesExt, FiniteSetsExt

CONSTANTS
    DiffJobs,    \* the jobs of one user and domain: 1, 2, ... as they were created
    Subject,     \* the job whose report this is
    DiffLoads,   \* the pages the crawls of each job may find, and whether a schedule began it
    Askers       \* requests that are open at the same time

\* path: host and path in lower case; query: the parameters in their order.
AddressType == [path : STRING, capitals : BOOLEAN, slash : BOOLEAN, fragment : BOOLEAN,
                query : Seq([name : STRING, value : STRING])]
PageType == [address : AddressType, hash : STRING,
             words : Nat, status : {"SUCCESS", "FAILED"}]

ASSUME DiffConstants ==
    /\ IsFiniteSet(DiffJobs) /\ DiffJobs = 1..Cardinality(DiffJobs) /\ Subject \in DiffJobs
    /\ DiffLoads \subseteq [DiffJobs -> [site : SUBSET PageType, scheduled : BOOLEAN]]

VARIABLES
    diffJob,    \* rows of crawl_jobs with their crawl_pages
    report,     \* diff_report.json of Subject, and the pages it was made from
    reader      \* who is making the report: the worker of Subject, or clients

diffVars == <<diffJob, report, reader>>

NoHash == ""
None == 0
NoReport == [previous |-> None, current |-> <<>>, before |-> <<>>, late |-> FALSE,
             new |-> {}, modified |-> {}, deleted |-> {}, unchanged |-> {}, made |-> FALSE]
NoReader == [busy |-> FALSE, against |-> None, current |-> <<>>, late |-> FALSE]
Worker == "worker"
Readers == {Worker} \cup Askers

-----------------------------------------------------------------------------
(* The pages of a job by their normalised address *)

Tracking == {"utm_source", "utm_medium", "utm_campaign", "utm_term", "utm_content",
             "fbclid", "gclid"}

\* Without fragment, last slash and tracking; the parameters are sorted by name, and
\* those of one name keep their order.  The comparison ignores capitals.
NormalizeUrl(address) ==
    LET IsKept(p) == p.name \notin Tracking
        kept == SelectSeq(address.query, IsKept)
        Values(n) == LET Named(p) == p.name = n IN SelectSeq(kept, Named)
    IN  [path |-> address.path, query |-> {Values(kept[i].name) : i \in DOMAIN kept}]

KeyOf(page) == NormalizeUrl(page.address)
KeysOf(pages) == {KeyOf(page) : page \in pages}

\* Of two pages with one key the later one read stays in the map, and the query that
\* reads them names no order.
MapsOf(pages) ==
    {f \in [KeysOf(pages) -> pages] : \A x \in KeysOf(pages) : KeyOf(f[x]) = x}

-----------------------------------------------------------------------------
AllPages == UNION {diffJob[j].site : j \in DiffJobs}
IsMap(f) == \A x \in DOMAIN f : f[x] \in AllPages /\ KeyOf(f[x]) = x

DiffTypeOK ==
    /\ \A j \in DiffJobs :
          /\ diffJob[j].pages \subseteq diffJob[j].site
          /\ diffJob[j].status \in {"RUNNING", "COMPLETED", "FAILED"}
          /\ diffJob[j].scheduled \in BOOLEAN /\ diffJob[j].deleted \in BOOLEAN
    /\ report.previous \in DiffJobs \cup {None} /\ report.made \in BOOLEAN
    /\ report.late \in BOOLEAN /\ IsMap(report.current) /\ IsMap(report.before)
    /\ \A r \in Readers :
          /\ reader[r].busy \in BOOLEAN /\ reader[r].against \in DiffJobs \cup {None}
          /\ reader[r].late \in BOOLEAN /\ IsMap(reader[r].current)

DiffInit ==
    /\ \E load \in DiffLoads :
          diffJob = [j \in DiffJobs |->
                        [site |-> load[j].site, scheduled |-> load[j].scheduled,
                         pages |-> {}, deleted |-> FALSE, status |-> "RUNNING"]]
    /\ report = NoReport
    /\ reader = [r \in Readers |-> NoReader]

-----------------------------------------------------------------------------
\* Seeded fault: a page without text is never modified.
ModifiedWithText(old, new) ==
    old.hash # NoHash /\ new.hash # NoHash /\ old.hash # new.hash

\* Another text, another status, or, with no text on either side, another length.
Modified(old, new) ==
    \/ old.hash # NoHash /\ new.hash # NoHash /\ old.hash # new.hash
    \/ old.status # new.status
    \/ old.hash = NoHash /\ new.hash = NoHash /\ old.words # new.words

ComparePageSets(current, k, before, late) ==
    LET both == DOMAIN current \cap DOMAIN before
        modified == {x \in both : Modified(before[x], current[x])}
    IN  [previous |-> k, current |-> current, before |-> before, late |-> late, made |-> TRUE,
         new |-> DOMAIN current \ DOMAIN before, modified |-> modified,
         unchanged |-> both \ modified, deleted |-> DOMAIN before \ DOMAIN current]

\* The newest completed job of the schedule, else of the domain; not the job itself,
\* but perhaps one that was created after it.
FindBaselineJob ==
    LET completed == {k \in DiffJobs \ {Subject} :
                         diffJob[k].status = "COMPLETED" /\ ~diffJob[k].deleted}
        planned == {k \in completed : diffJob[Subject].scheduled /\ diffJob[k].scheduled}
    IN  IF planned # {} THEN Max(planned)
        ELSE IF completed # {} THEN Max(completed) ELSE None

-----------------------------------------------------------------------------
(* The crawl *)

\* An upsert by address, in whatever status the job is: a run that timed out goes on
\* beside the next one.
StorePage(j) ==
    /\ \E page \in diffJob[j].site \ diffJob[j].pages :
          diffJob' = [diffJob EXCEPT ![j].pages =
                         {p \in @ : p.address # page.address} \cup {page}]
    /\ IF j = Subject
       THEN /\ reader' = [r \in Readers |-> [reader[r] EXCEPT !.late = reader[r].busy]]
            /\ report' = [report EXCEPT !.late = report.made]
       ELSE UNCHANGED <<report, reader>>

\* r has read the pages of Subject.
BeginsReport(r, k) ==
    \E current \in MapsOf(diffJob[Subject].pages) :
        reader' = [reader EXCEPT ![r] = [busy |-> TRUE, against |-> k, current |-> current,
                                         late |-> FALSE]]

\* The job is completed, and the worker reads its pages for the report, if the feature
\* is on and nothing fails before.
CompleteJob(j) ==
    /\ diffJob[j].status = "RUNNING"
    /\ diffJob' = [diffJob EXCEPT ![j].status = "COMPLETED"]
    /\ \/ UNCHANGED reader
       \/ j = Subject /\ ~diffJob[j].deleted /\ BeginsReport(Worker, None)
    /\ UNCHANGED report

\* Also a job that is completed already, when what follows fails.
FailJob(j) ==
    /\ diffJob[j].status \in {"RUNNING", "COMPLETED"}
    /\ diffJob' = [diffJob EXCEPT ![j].status = "FAILED"]
    /\ UNCHANGED <<report, reader>>

\* The next attempt, or the run after a crash.
RunAgain(j) ==
    /\ diffJob[j].status \in {"COMPLETED", "FAILED"} /\ ~diffJob[j].deleted
    /\ diffJob' = [diffJob EXCEPT ![j].status = "RUNNING"]
    /\ UNCHANGED <<report, reader>>

\* The row is hidden; the pages go, and the report with the files of the job.
DeleteJob(j) ==
    /\ diffJob[j].status # "RUNNING" /\ ~diffJob[j].deleted
    /\ diffJob' = [diffJob EXCEPT ![j].deleted = TRUE, ![j].pages = {}]
    /\ report' = IF j = Subject THEN NoReport ELSE report
    /\ UNCHANGED reader

-----------------------------------------------------------------------------
(* The report *)

\* getDiffReport answers with the file it finds, whatever it was compared with; a
\* job to compare with, or no file, begins a new one, also for a running job.
AskReport(c, k) ==
    /\ ~reader[c].busy /\ ~diffJob[Subject].deleted
    /\ k # None \/ ~report.made
    /\ BeginsReport(c, k)
    /\ UNCHANGED <<diffJob, report>>

\* The job to compare with: the one that was asked for, or the baseline.  The pages
\* come with it, and the file is written before anything else happens.
WriteReport(r) ==
    /\ reader[r].busy
    /\ LET k == IF reader[r].against # None THEN reader[r].against ELSE FindBaselineJob
       IN  /\ k # None => ~diffJob[k].deleted
           /\ \E before \in MapsOf(IF k = None THEN {} ELSE diffJob[k].pages) :
                 report' = ComparePageSets(reader[r].current, k, before, reader[r].late)
    /\ reader' = [reader EXCEPT ![r] = NoReader]
    /\ UNCHANGED diffJob

\* The job to compare with is gone, or the database fails.
GiveUpReport(r) ==
    /\ reader[r].busy
    /\ reader' = [reader EXCEPT ![r] = NoReader]
    /\ UNCHANGED <<diffJob, report>>

DiffNext ==
    \/ \E j \in DiffJobs :
          StorePage(j) \/ CompleteJob(j) \/ FailJob(j) \/ RunAgain(j) \/ DeleteJob(j)
    \/ \E c \in Askers, k \in DiffJobs \cup {None} : AskReport(c, k)
    \/ \E r \in Readers : WriteReport(r) \/ GiveUpReport(r)

DiffSpec == DiffInit /\ [][DiffNext]_diffVars

-----------------------------------------------------------------------------
SamePage(old, new) ==
    old.status = new.status /\ old.hash = new.hash /\ old.words = new.words

\* What r says of the pages it was made from is so: the current pages are the unchanged,
\* modified and new ones, the previous are the unchanged, modified and deleted ones,
\* none of them twice; what is unchanged has kept its status and its text, as far as
\* both crawls found one; what is the same on both sides is not modified.
Compares(r) ==
    /\ r.new \cup r.modified \cup r.unchanged = DOMAIN r.current
    /\ r.deleted \cup r.modified \cup r.unchanged = DOMAIN r.before
    /\ r.new \cap DOMAIN r.before = {} /\ r.deleted \cap DOMAIN r.current = {}
    /\ \A x \in r.unchanged :
          LET old == r.before[x]
              new == r.current[x]
          IN  /\ old.status = new.status
              /\ old.hash # NoHash /\ new.hash # NoHash => old.hash = new.hash
    /\ \A x \in r.modified : ~SamePage(r.before[x], r.current[x])

\* Every page has the place in the report that its contents give it.  And the report is
\* of all pages of the job as they are stored now, whatever attempts there were, who
\* asked and which of several readers wrote last, unless a page was stored after its
\* reader had read them.
DiffsAreTrue ==
    /\ DiffTypeOK
    /\ report.made =>
          /\ Compares(report)
          /\ ~report.late /\ ~diffJob[Subject].deleted =>
                report.current \in MapsOf(diffJob[Subject].pages)
=============================================================================

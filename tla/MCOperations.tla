---------------------------- MODULE MCOperations ----------------------------
(***************************************************************************)
(* StoredFiles, ConfigCaches, PageStore, ExportContents, ExportFolder and   *)
(* ScheduleCalculator for TLC.  They share no state here: a behaviour is of *)
(* one of them, as part says, and the others stay as they began.            *)
(***************************************************************************)
EXTENDS StoredFiles, ConfigCaches, PageStore, MCExports, ExportFolder,
        MCScheduleCalculator, TLC

VARIABLE part

\* The handlers of three of the modules are the same model values.
Interchangeable == Permutations(FileActs)

-----------------------------------------------------------------------------
(* What goes on in StoredFiles *)

Fault(ops) == [ops |-> ops, crashes |-> TRUE]
NoFault(ops) == [ops |-> ops, crashes |-> FALSE]

SomeFileLoads ==
    {NoFault({"export", "zip", "delete", "cleanup"}),
     NoFault({"export", "remove", "compare"}),
     NoFault({"zip", "cleanup", "remove"}),
     NoFault({"upload"}),
     Fault({"export", "delete"}),
     Fault({"upload", "compare"})}

-----------------------------------------------------------------------------
(* What goes on in ConfigCaches: one setting, two templates *)

CONSTANTS setting, listed, unlisted, server1, server2, worker

CacheRow(value, public) == [there |-> TRUE, value |-> value, public |-> public]
Table(r) ==
    [k \in Keys |-> CASE k = setting -> r [] k = listed -> CacheRow(FALSE, FALSE)
                      [] OTHER -> NoRow]
CacheLoad(r, ops, keys, nodes, faults) ==
    [rows |-> Table(r), ops |-> ops, keys |-> keys, nodes |-> nodes, faults |-> faults]

SomeCacheLoads ==
    LET private == CacheRow(FALSE, FALSE)
        public == CacheRow(FALSE, TRUE)
    IN  {CacheLoad(private, {"get", "update"}, {setting}, Servers, {}),
         CacheLoad(public, {"list", "toggle", "sync"}, {setting}, Servers, {"boot"}),
         CacheLoad(public, {"get", "toggle"}, {setting}, Servers, {"crash", "redis"}),
         CacheLoad(NoRow, {"list", "create", "delete"}, {setting}, {server1}, {}),
         CacheLoad(private, {"get", "create", "delete"}, {unlisted}, {server1, worker}, {}),
         CacheLoad(private, {"get", "forget"}, Templates, {worker}, {})}

-----------------------------------------------------------------------------
(* What the provider tells of a site *)

Told(polls, pages, failed, robots, ends) ==
    [polls |-> polls, pages |-> pages, failed |-> failed, robots |-> robots, ends |-> ends]

Same(crawls) == {<<c, c>> : c \in crawls}

\* Both attempts find the same site, or another one: pages come, go, and break.
SomeCrawls ==
    LET grown == Told(<<<<"a">>>>, <<"a", "b">>, <<"c">>, <<"d">>, "completed")
        lost == Told(<<<<"a">>>>, <<"a", "c">>, <<"b">>, <<>>, "completed")
        broken == Told(<<<<"a">>, <<"a", "b">>>>, <<"a", "b">>, <<>>, <<>>, "failed")
    IN  Same({Told(<<<<"a">>, <<"a", "b">>>>, <<"a", "b", "c">>, <<>>, <<>>, "completed"),
              Told(<<<<"a", "a">>>>, <<"a", "a", "b">>, <<"b">>, <<>>, "completed"),
              Told(<<>>, <<"a", "b", "c">>, <<>>, <<>>, "completed"), broken})
        \cup {<<grown, lost>>, <<broken, lost>>}

-----------------------------------------------------------------------------
(* What goes on in ExportFolder: between the editions, two pages change places *)

TwoEditions == <<{"1-a.md", "2-b.md"}, {"1-b.md", "2-a.md"}>>

Times(ops, n) == [op \in Exports |-> IF op \in ops THEN n ELSE 0]
SomeExportLoads ==
    {Times({"zip", "csv"}, 1), Times({"zip", "markdown"}, 1),
     Times({"json", "xlsx", "markdown"}, 1), Times({"csv"}, 3)}

-----------------------------------------------------------------------------
Parts == {"files", "caches", "pages", "records", "folder", "calendar"}

\* The parts other than the one that moves begin in one way only.
OperationsInit ==
    /\ part \in Parts
    /\ FilesInit /\ CachesInit /\ PagesInit /\ RecordsInit /\ FolderInit
    /\ part # "files" => fileLoad = CHOOSE l \in FileLoads : TRUE
    /\ part # "caches" => cacheLoad = CHOOSE l \in CacheLoads : TRUE
    /\ part # "folder" => wanted = CHOOSE l \in ExportLoads : TRUE
    /\ part # "pages" => crawl = CHOOSE c \in Crawls : TRUE
    /\ \/ part = "calendar" /\ Init
       \/ /\ part # "calendar"
          /\ plan = CHOOSE p \in Plans : TRUE
          /\ zone = CHOOSE z \in Zones : TRUE
          /\ computedAt = MinTime
          /\ nextRunAt = NextRun(plan, zone, computedAt)

\* The variables of the parts named stay as they are.
Still(names) ==
    /\ "files" \in names => UNCHANGED fileVars
    /\ "caches" \in names => UNCHANGED cacheVars
    /\ "pages" \in names => UNCHANGED pageVars
    /\ "records" \in names => UNCHANGED recordVars
    /\ "folder" \in names => UNCHANGED folderVars
    /\ "calendar" \in names => UNCHANGED vars

OperationsNext ==
    /\ \/ part = "files" /\ FilesNext
       \/ part = "caches" /\ CachesNext
       \/ part = "pages" /\ PagesNext
       \/ part = "records" /\ RecordsNext
       \/ part = "folder" /\ FolderNext
       \/ part = "calendar" /\ Claim
    /\ Still(Parts \ {part})

OperationsSpec ==
    OperationsInit /\ [][OperationsNext /\ UNCHANGED part]_<<part, fileVars, cacheVars,
                            pageVars, recordVars, folderVars, vars>>

-----------------------------------------------------------------------------
\* Every variable of the part that moves keeps its type.
OperationsTypeOK ==
    CASE part = "files" -> FilesTypeOK
      [] part = "caches" -> CachesTypeOK
      [] part = "pages" -> PagesTypeOK
      [] part = "records" -> RecordsTypeOK
      [] part = "folder" -> FolderTypeOK
      [] OTHER -> TRUE

\* The files of an export agree with each other, and its archive has all of them.
ExportsAgree == WritersAgree /\ ArchivesAreWhole

\* calculateNextRun gives the first instant that the settings of a schedule want.
NextRunIsEarliest == part = "calendar" => NextIsEarliest
=============================================================================

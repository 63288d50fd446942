---------------------------- MODULE ExportFolder ----------------------------
(***************************************************************************)
(* The folder of a job under src/src/modules/exports: every export of a job *)
(* writes its files there under the same names, one after another, and then *)
(* packs what it finds under those names.  result.zip runs all the other    *)
(* exports first.  An attempt of the job may save its pages again meanwhile.*)
(*                                                                         *)
(* A file is the set of editions of the rows it was made from.              *)
(***************************************************************************)
EXTENDS Naturals, FiniteSets, Sequences

CONSTANTS
    Exporters,      \* exports that are made at the same time
    ExportLoads,    \* how often each export may be asked for in a behaviour
    MaxEdition,     \* bound on how often the rows of the job change
    MarkdownFiles,  \* the names of the pages' files, for each edition
    Structured      \* the editions in which a page has structured data

ASSUME FolderConstants ==
    /\ MaxEdition \in Nat \ {0} /\ Structured \subseteq 1..MaxEdition
    /\ DOMAIN MarkdownFiles = 1..MaxEdition

VARIABLES
    wanted,    \* how often each export may still be asked for
    edition,   \* how often the rows have changed
    folder,    \* the files
    archive,   \* the archive that was packed last
    exporter   \* the exports

folderVars == <<wanted, edition, folder, archive, exporter>>

Unfinished == 0
NoFile == {}

-----------------------------------------------------------------------------
(* What each export does, from one await to the next.  pages.json stands for the   *)
(* three files of that step, summary.json for the four that are written together.  *)

JsonSteps == <<"readAssets", "pages.json", "json.zip">>
CsvSteps == <<"readAssets", "pages.csv", "links.csv", "images.csv", "csv.zip">>
XlsxSteps == <<"pages.xlsx", "tables.xlsx", "xlsx.zip">>
MarkdownSteps == <<"markdown", "markdown.zip">>

\* The assets are read first and kept; then come the four others, with structured.json
\* after the first of them and the links and images once more after the second.
ZipSteps ==
    <<"keepAssets", "readAssets", "pages.json", "json.zip", "structured.json",
      "readAssets", "pages.csv", "links.csv", "images.csv", "csv.zip",
      "links.csv", "images.csv", "pages.xlsx", "tables.xlsx", "xlsx.zip",
      "markdown", "markdown.zip", "summary.json", "result.zip">>

Exports == {"json", "csv", "xlsx", "markdown", "zip"}
StepsOf(op) == CASE op = "json" -> JsonSteps [] op = "csv" -> CsvSteps [] op = "xlsx" -> XlsxSteps
                 [] op = "markdown" -> MarkdownSteps [] OTHER -> ZipSteps

ASSUME ExportsCounted == ExportLoads \subseteq [Exports -> Nat]

AllMarkdown == UNION {MarkdownFiles[e] : e \in 1..MaxEdition}
DataFiles == {"pages.json", "structured.json", "pages.csv", "links.csv", "images.csv",
              "pages.xlsx", "tables.xlsx"}
FileNames == DataFiles \cup AllMarkdown \cup {"summary.json"}

\* The files an archive takes if they are there.
Members ==
    [a \in {"json.zip", "csv.zip", "xlsx.zip", "markdown.zip", "result.zip"} |->
        CASE a = "json.zip" -> {"pages.json", "structured.json"}
          [] a = "csv.zip" -> {"pages.csv", "links.csv", "images.csv"}
          [] a = "xlsx.zip" -> {"pages.xlsx", "tables.xlsx"}
          [] a = "markdown.zip" -> AllMarkdown
          [] OTHER -> FileNames]
Archives == DOMAIN Members

-----------------------------------------------------------------------------
Editions == Unfinished..MaxEdition

\* kept are the assets that the zip export reads at its start; mixed says that
\* another export was under way or the rows have changed.
NoExporter == [op |-> "json", step |-> 0, pages |-> 0, assets |-> 0, kept |-> 0,
               open |-> FALSE, packing |-> {}, mixed |-> FALSE]
NoArchive == [name |-> "result.zip", pages |-> 0, packed |-> <<>>, mixed |-> FALSE]

IsPacked(p) == DOMAIN p \subseteq FileNames /\ \A f \in DOMAIN p : p[f] \subseteq Editions

FolderTypeOK ==
    /\ wanted \in [Exports -> Nat] /\ edition \in 1..MaxEdition
    /\ folder \in [FileNames -> SUBSET Editions]
    /\ archive.name \in Archives /\ archive.pages \in Editions /\ IsPacked(archive.packed)
    /\ \A x \in Exporters :
          LET e == exporter[x]
          IN  /\ e.op \in Exports /\ e.step \in 0..Len(StepsOf(e.op))
              /\ {e.pages, e.assets, e.kept} \subseteq Editions
              /\ e.packing \subseteq FileNames

FolderInit ==
    /\ wanted \in ExportLoads /\ edition = 1
    /\ folder = [f \in FileNames |-> NoFile]
    /\ archive = NoArchive
    /\ exporter = [x \in Exporters |-> NoExporter]

-----------------------------------------------------------------------------
Exporting(x) == exporter[x].step # 0
Now(x) == StepsOf(exporter[x].op)[exporter[x].step]

\* e one step further, or at its end.
Onward(e) ==
    IF e.step = Len(StepsOf(e.op)) THEN NoExporter
    ELSE [e EXCEPT !.step = @ + 1, !.open = FALSE, !.packing = {}]

\* generate reads the job with its pages.
Generate(x, op) ==
    /\ ~Exporting(x) /\ wanted[op] > 0 /\ wanted' = [wanted EXCEPT ![op] = @ - 1]
    /\ LET others == {y \in Exporters : Exporting(y)}
       IN  exporter' = [y \in Exporters |->
              IF y = x THEN [NoExporter EXCEPT !.op = op, !.step = 1, !.pages = edition,
                                               !.mixed = others # {}]
              ELSE IF y \in others THEN [exporter[y] EXCEPT !.mixed = TRUE]
              ELSE exporter[y]]
    /\ UNCHANGED <<edition, folder, archive>>

\* An attempt saves the pages and their assets again.
SaveAgain ==
    /\ edition < MaxEdition /\ edition' = edition + 1
    /\ exporter' = [y \in Exporters |->
          IF Exporting(y) THEN [exporter[y] EXCEPT !.mixed = TRUE] ELSE exporter[y]]
    /\ UNCHANGED <<wanted, folder, archive>>

ReadAssets(x) ==
    /\ Exporting(x) /\ Now(x) \in {"readAssets", "keepAssets"}
    /\ exporter' = [exporter EXCEPT ![x] =
          IF Now(x) = "keepAssets" THEN Onward([@ EXCEPT !.kept = edition])
          ELSE Onward([@ EXCEPT !.assets = edition])]
    /\ UNCHANGED <<wanted, edition, folder, archive>>

\* The files of the step, each with what it is made from.  structured.json is not
\* touched when there is nothing to write.  After csv.zip, the zip export writes the
\* links and images once more, with its own assets.
Made(x) ==
    LET e == exporter[x]
        again == e.op = "zip" /\ \E k \in 1..e.step : ZipSteps[k] = "csv.zip"
        rows == {e.pages}
    IN  CASE Now(x) = "pages.json" ->
                [f \in {"pages.json"} \cup IF e.pages \in Structured
                                           THEN {"structured.json"} ELSE {} |->
                    IF f = "pages.json" THEN {e.pages, e.assets} ELSE rows]
          [] Now(x) \in {"links.csv", "images.csv"} ->
                [f \in {Now(x)} |-> {e.pages, IF again THEN e.kept ELSE e.assets}]
          [] Now(x) = "structured.json" ->
                [f \in IF e.pages \in Structured THEN {Now(x)} ELSE {} |-> rows]
          [] Now(x) = "markdown" -> [f \in MarkdownFiles[e.pages] |-> rows]
          [] OTHER -> [f \in {Now(x)} |-> rows]

\* The workbooks are streams: opening one empties it.  The others are written
\* between two awaits.
Streamed == {"pages.xlsx", "tables.xlsx"}
AtOnce == {"pages.json", "structured.json", "pages.csv", "links.csv", "images.csv",
           "markdown", "summary.json"}

OpenFile(x) ==
    /\ Exporting(x) /\ Now(x) \in Streamed /\ ~exporter[x].open
    /\ folder' = [folder EXCEPT ![Now(x)] = {Unfinished}]
    /\ exporter' = [exporter EXCEPT ![x].open = TRUE]
    /\ UNCHANGED <<wanted, edition, archive>>

WriteFiles(x) ==
    /\ Exporting(x)
    /\ Now(x) \in AtOnce \/ (Now(x) \in Streamed /\ exporter[x].open)
    /\ folder' = [f \in FileNames |-> IF f \in DOMAIN Made(x) THEN Made(x)[f] ELSE folder[f]]
    /\ exporter' = [exporter EXCEPT ![x] = Onward(@)]
    /\ UNCHANGED <<wanted, edition, archive>>

\* The archive takes the files that are there when it is begun, and reads them
\* later: here, all of them when it is closed.
OpenArchive(x) ==
    /\ Exporting(x) /\ Now(x) \in Archives /\ ~exporter[x].open
    /\ exporter' = [exporter EXCEPT
          ![x].open = TRUE,
          ![x].packing = {f \in Members[Now(x)] : folder[f] # NoFile}]
    /\ UNCHANGED <<wanted, edition, folder, archive>>

CloseArchive(x) ==
    /\ Exporting(x) /\ Now(x) \in Archives /\ exporter[x].open
    /\ archive' = [name |-> Now(x), pages |-> exporter[x].pages,
                   packed |-> [f \in exporter[x].packing |-> folder[f]],
                   mixed |-> exporter[x].mixed]
    /\ exporter' = [exporter EXCEPT ![x] = Onward(@)]
    /\ UNCHANGED <<wanted, edition, folder>>

\* A writer rejects, or the process dies.
GiveUp(x) ==
    /\ Exporting(x)
    /\ exporter' = [exporter EXCEPT ![x] = NoExporter]
    /\ UNCHANGED <<wanted, edition, folder, archive>>

FolderNext ==
    \/ SaveAgain
    \/ \E x \in Exporters :
          \/ \E op \in Exports : Generate(x, op)
          \/ ReadAssets(x) \/ OpenFile(x) \/ WriteFiles(x)
          \/ OpenArchive(x) \/ CloseArchive(x) \/ GiveUp(x)

FolderSpec == FolderInit /\ [][FolderNext]_folderVars

-----------------------------------------------------------------------------
\* The files an export of the edition is made of.
Expected(a, e) ==
    LET unwanted == AllMarkdown \ MarkdownFiles[e]
    IN  {f \in Members[a] \ unwanted : f = "structured.json" => e \in Structured}

\* An archive of an export that was alone, of a job that was not saved again
\* meanwhile, has every file that belongs to it, complete and of the rows that the
\* export read, whatever other exports have left in the folder.
ArchivesAreWhole ==
    archive.pages # 0 /\ ~archive.mixed =>
        \A f \in Expected(archive.name, archive.pages) :
            f \in DOMAIN archive.packed /\ archive.packed[f] = {archive.pages}
=============================================================================

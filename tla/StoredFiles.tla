---------------------------- MODULE StoredFiles -----------------------------
(***************************************************************************)
(* The files of a crawl job and of a user against the rows that name them:  *)
(* exports (generate of export.service.ts, the deletions of an export and   *)
(* of the job, the clean-up of cron.service.ts), the comparison report of   *)
(* a job, and the user's picture (uploadAvatar).  Files and rows change in  *)
(* different steps of several handlers, any of which may fail or die.       *)
(*                                                                         *)
(* The path of an export is fixed by its job and its type: a file is named  *)
(* by the type here.  The clean-up looks for stray pictures in a directory  *)
(* that they are not stored in, and so finds none: it is left out.          *)
(***************************************************************************)
EXTENDS FiniteSets

CONSTANTS
    Types,        \* export types, one of them "zip"
    ExportIds,    \* the export rows there is room for
    Pictures,     \* the pictures a user may upload, a name for each upload
    FileActs,     \* the handler executions
    FileLoads     \* the operations that may happen in a behaviour

Report == "report"
Files == Types \cup Pictures \cup {Report}
NoPicture == "no picture"
FileOps == {"export", "zip", "delete", "remove", "cleanup", "compare", "upload"}

ASSUME StoredFilesConstants ==
    /\ "zip" \in Types /\ ExportIds # {}
    /\ Report \notin Types \cup Pictures /\ NoPicture \notin Pictures
    /\ Types \cap Pictures = {}
    /\ \A l \in FileLoads : l.ops \subseteq FileOps /\ l.crashes \in BOOLEAN

VARIABLES
    fileLoad,   \* one of FileLoads, for good
    stored,     \* the files there are
    export,     \* crawl_exports
    job,        \* the crawl job: deleted or not, with a report or not
    picture,    \* avatarUrl of the user
    actor,      \* the handler executions
    shared,     \* history: the types of which two exports were there at once
    astray      \* history: files that a failure or an overlap took away or left

fileVars == <<fileLoad, stored, export, job, picture, actor, shared, astray>>

ExportType == [status : {"none", "PENDING", "COMPLETED", "gone"}, type : Types]

\* files are those to write or to delete, rows those to insert or to delete,
\* old is the picture an upload found.
ActorType == [pc : {"idle", "write", "insert", "complete", "unlink", "drop", "record"},
              op : FileOps, rows : SUBSET ExportIds, files : SUBSET Files,
              old : Pictures \cup {NoPicture}]
NoActor == [pc |-> "idle", op |-> "compare", rows |-> {}, files |-> {}, old |-> NoPicture]

FilesTypeOK ==
    /\ fileLoad \in FileLoads
    /\ stored \subseteq Files
    /\ export \in [ExportIds -> ExportType]
    /\ job \in [deleted : BOOLEAN, report : BOOLEAN]
    /\ picture \in Pictures \cup {NoPicture}
    /\ actor \in [FileActs -> ActorType]
    /\ shared \subseteq Types /\ astray \subseteq Files

FilesInit ==
    /\ fileLoad \in FileLoads
    /\ stored = {}
    /\ export = [e \in ExportIds |-> [status |-> "none", type |-> "zip"]]
    /\ job = [deleted |-> FALSE, report |-> FALSE]
    /\ picture = NoPicture
    /\ actor = [a \in FileActs |-> NoActor]
    /\ shared = {} /\ astray = {}

-----------------------------------------------------------------------------
Rows == {e \in ExportIds : export[e].status \in {"PENDING", "COMPLETED"}}
Fresh == {e \in ExportIds : export[e].status = "none"}
FilesOf(rows) == {export[e].type : e \in rows}

Busy(a) == actor[a].pc # "idle"
GoTo(a, pc) == actor' = [actor EXCEPT ![a].pc = pc]
Done(a) == actor' = [actor EXCEPT ![a] = NoActor]

Starts(a, op, pc, rows, files) ==
    /\ op \in fileLoad.ops /\ ~Busy(a)
    /\ actor' = [actor EXCEPT ![a] =
          [NoActor EXCEPT !.pc = pc, !.op = op, !.rows = rows, !.files = files]]
    /\ UNCHANGED <<fileLoad, stored, export, job, picture, shared, astray>>

\* createExport of a job that has pages
Request(a, type) == ~job.deleted /\ Starts(a, "export", "write", {}, {type})

\* exportJob, which gives back a complete zip whose file is there
RequestZip(a) ==
    /\ ~job.deleted
    /\ ~ /\ "zip" \in stored
         /\ \E e \in Rows : export[e].type = "zip" /\ export[e].status = "COMPLETED"
    /\ Starts(a, "zip", "write", {}, {"zip"})

\* generateAndSaveDiffReport
Compare(a) == ~job.deleted /\ Starts(a, "compare", "write", {}, {Report})

\* uploadAvatar: a new name, made of the user and the instant.
Unused ==
    {p \in Pictures \ (stored \cup astray \cup {picture}) :
        \A a \in FileActs : p \notin actor[a].files /\ p # actor[a].old}
Upload(a) ==
    /\ "upload" \in fileLoad.ops /\ ~Busy(a) /\ Unused # {}
    /\ actor' = [actor EXCEPT ![a] =
          [NoActor EXCEPT !.pc = "write", !.op = "upload", !.old = picture,
                          !.files = {CHOOSE p \in Unused : TRUE}]]
    /\ UNCHANGED <<fileLoad, stored, export, job, picture, shared, astray>>

\* delete of an export
DeleteExport(a, e) ==
    e \in Rows /\ ~job.deleted /\ Starts(a, "delete", "unlink", {e}, FilesOf({e}))

\* Seeded fault: the exports' files are left to the clean-up, which goes by rows.
RemoveJobKeepFiles(a) ==
    /\ ~job.deleted
    /\ Starts(a, "remove", "unlink", Rows, IF job.report THEN {Report} ELSE {})

\* delete of a job that does not run
RemoveJob(a) ==
    /\ ~job.deleted
    /\ Starts(a, "remove", "unlink", Rows,
              FilesOf(Rows) \cup (IF job.report THEN {Report} ELSE {}))

\* cleanupOldExports and cleanupExpiredExports, with the rows found to be old
FindOld(a, rows) ==
    rows # {} /\ rows \subseteq Rows /\ Starts(a, "cleanup", "drop", rows, FilesOf(rows))

-----------------------------------------------------------------------------
\* The file of an export, of a report or of a picture is written.
WriteFile(a) ==
    /\ actor[a].pc = "write"
    /\ stored' = stored \cup actor[a].files
    /\ GoTo(a, CASE actor[a].op = "upload" -> "unlink"
                 [] actor[a].op = "compare" -> "record"
                 [] OTHER -> "insert")
    /\ shared' = shared \cup
          {t \in actor[a].files \cap Types :
              \/ t \in FilesOf(Rows)
              \/ \E b \in FileActs \ {a} : t \in actor[b].files}
    /\ UNCHANGED <<fileLoad, export, job, picture, astray>>

\* generate, after its file: the row, then its status.  A deleted job keeps its
\* own row, so this is not refused.
Insert(a) ==
    /\ actor[a].pc = "insert" /\ Fresh # {}
    /\ LET e == CHOOSE e \in Fresh : TRUE
       IN  /\ \E type \in actor[a].files :
                 export' = [export EXCEPT ![e] = [status |-> "PENDING", type |-> type]]
           /\ actor' = [actor EXCEPT ![a].pc = "complete", ![a].rows = {e}]
    /\ UNCHANGED <<fileLoad, stored, job, picture, shared, astray>>

Complete(a) ==
    /\ actor[a].pc = "complete"
    /\ export' = [e \in ExportIds |->
          IF e \in actor[a].rows \cap Rows
          THEN [export[e] EXCEPT !.status = "COMPLETED"] ELSE export[e]]
    /\ Done(a)
    /\ UNCHANGED <<fileLoad, stored, job, picture, shared, astray>>

\* updateDiffReport, whether the job was deleted or not
RecordReport(a) ==
    /\ actor[a].pc = "record" /\ actor[a].op = "compare"
    /\ job' = [job EXCEPT !.report = TRUE]
    /\ Done(a)
    /\ astray' = astray \cup IF job.deleted THEN {Report} ELSE {}
    /\ UNCHANGED <<fileLoad, stored, export, picture, shared>>

\* updateUser: the picture of an upload that this one did not know of is left.
RecordPicture(a) ==
    /\ actor[a].pc = "record" /\ actor[a].op = "upload"
    /\ picture' \in actor[a].files
    /\ Done(a)
    /\ astray' = astray \cup ({picture} \ {actor[a].old, NoPicture})
    /\ UNCHANGED <<fileLoad, stored, export, job, shared>>

\* deleteFile, whose errors no caller minds: of the old picture, or of what a
\* deletion is about.
Unlink(a) ==
    /\ actor[a].pc = "unlink"
    /\ LET taken == IF actor[a].op = "upload" THEN {actor[a].old} \ {NoPicture}
                    ELSE actor[a].files
       IN  \/ stored' = stored \ taken /\ UNCHANGED astray
           \/ UNCHANGED stored /\ astray' = astray \cup (taken \cap stored)
    /\ CASE actor[a].op = "upload" -> GoTo(a, "record")
         [] actor[a].op = "cleanup" -> Done(a)
         [] OTHER -> GoTo(a, "drop")
    /\ UNCHANGED <<fileLoad, export, job, picture, shared>>

\* The rows are deleted: with a job, all it has by now.
Drop(a) ==
    /\ actor[a].pc = "drop"
    /\ LET removal == actor[a].op = "remove"
           gone == IF removal THEN Rows ELSE actor[a].rows
           new == FilesOf(gone \ actor[a].rows) \cup
                  (IF removal /\ job.report THEN {Report} \cap stored ELSE {})
       IN  /\ export' = [e \in ExportIds |->
                IF e \in gone THEN [export[e] EXCEPT !.status = "gone"] ELSE export[e]]
           /\ job' = IF removal THEN [job EXCEPT !.deleted = TRUE] ELSE job
           /\ astray' = astray \cup new
    /\ IF actor[a].op = "cleanup" THEN GoTo(a, "unlink") ELSE Done(a)
    /\ UNCHANGED <<fileLoad, stored, picture, shared>>

\* The process dies, or a statement fails.
Abort(a) ==
    /\ fileLoad.crashes /\ Busy(a)
    /\ Done(a)
    /\ astray' = astray \cup actor[a].files \cup ({actor[a].old} \ {NoPicture})
    /\ UNCHANGED <<fileLoad, stored, export, job, picture, shared>>

FilesNext ==
    \E a \in FileActs :
       \/ \E type \in Types : Request(a, type)
       \/ RequestZip(a) \/ Compare(a) \/ RemoveJob(a)
       \/ \E e \in ExportIds : DeleteExport(a, e)
       \/ Upload(a) \/ Insert(a)
       \/ \E rows \in SUBSET ExportIds : FindOld(a, rows)
       \/ WriteFile(a) \/ Complete(a) \/ RecordReport(a) \/ RecordPicture(a)
       \/ Unlink(a) \/ Drop(a) \/ Abort(a)

FilesSpec == FilesInit /\ [][FilesNext]_fileVars

-----------------------------------------------------------------------------
Removing(e) == \E a \in FileActs : actor[a].pc = "drop" /\ e \in actor[a].rows

\* What a row names is there to be downloaded: a complete export of a type of
\* which there was no other at the time, the report, the picture; unless the deletion of
\* the row is under way, or a failure or an overlap came between.
RowsHaveFiles ==
    /\ \A e \in Rows :
          (export[e].status = "COMPLETED" /\ export[e].type \notin stored) =>
              Removing(e) \/ export[e].type \in shared \cup astray
    /\ (job.report /\ ~job.deleted /\ Report \notin stored) =>
          \/ Report \in astray
          \/ \E a \in FileActs : actor[a].pc = "drop" /\ Report \in actor[a].files
    /\ (picture # NoPicture /\ picture \notin stored) =>
          picture \in astray \/ \E a \in FileActs : picture = actor[a].old

\* No file is left without a row that names it, unless a handler is about to
\* insert the row or to delete the file, or a failure or an overlap came between.
FilesHaveRows ==
    \A f \in stored \ astray :
       \/ f \in FilesOf(Rows)
       \/ f = Report /\ job.report /\ ~job.deleted
       \/ f = picture
       \/ \E a \in FileActs : f \in actor[a].files \/ f = actor[a].old

\* Files and rows agree: generate (export.service.ts), the deletions of exports and
\* jobs, the clean-up and uploadAvatar change them in separate steps.
FilesMatchRows == RowsHaveFiles /\ FilesHaveRows
=============================================================================

-------------------------- MODULE OperationsProofs --------------------------
(***************************************************************************)
(* Theorems about what the servers and the periodic jobs keep in order, for *)
(* any number of handlers: the schedulers of the periodic jobs beside the   *)
(* map of those that are on, the files of the storage beside the rows that  *)
(* name them, the caches of the configuration beside its rows, the folder   *)
(* that the exports of a job share, and the next run of a schedule; then    *)
(* about all of them together, as the runs compose them.                    *)
(***************************************************************************)
EXTENDS MCOperations, CronJobs, JobsProofs

-----------------------------------------------------------------------------
(* Periodic jobs *)

\* The schedulers follow the map, but for those of the jobs named.
FollowsBut(S) == \A j \in CronNames \ (parted \cup S) : j \in schedulers <=> On(statuses, j)

\* What the handler that is alone has still to set.
Unset(a) == IF switch[a].pc = "move" THEN switch[a].rest ELSE {}

\* The strengthening of SchedulersFollowMap: of handlers that overlap each knows it, and
\* one that is alone knows the map and has nothing to set but what it says.
CronInv ==
    /\ CronTypeOK
    /\ \A a, b \in CronActs : Switching(a) /\ Switching(b) /\ a # b => switch[a].mixed
    /\ \A a \in CronActs : Switching(a) /\ ~switch[a].mixed =>
          /\ FollowsBut(Unset(a))
          /\ switch[a].pc \in {"write", "move"} => switch[a].got = statuses
    /\ (\A a \in CronActs : ~Switching(a)) => FollowsBut({})

\* A handler that starts alone finds the schedulers as the map says.
LEMMA StartKeeps ==
    ASSUME CronInv, NEW a \in CronActs, NEW record \in SwitchType, record.pc = "read",
           StartSwitch(a, record)
    PROVE  CronInv'
<1> DEFINE others == {b \in CronActs : Switching(b)}
           begun == [record EXCEPT !.mixed = others # {}]
<1>1. switch \in [CronActs -> SwitchType] /\ UNCHANGED <<statuses, schedulers, lastRun, parted>>
  BY DEF CronInv, CronTypeOK, StartSwitch
<1>2. begun \in SwitchType /\ begun.pc = "read" /\ (begun.mixed <=> others # {})
  BY DEF SwitchType
<1>3. \A b \in others : /\ [switch[b] EXCEPT !.mixed = TRUE] \in SwitchType
                        /\ [switch[b] EXCEPT !.mixed = TRUE].mixed
                        /\ [switch[b] EXCEPT !.mixed = TRUE].pc = switch[b].pc
  BY <1>1 DEF SwitchType
<1>4. /\ ~Switching(a) /\ a \notin others
      /\ switch' = [b \in CronActs |->
              IF b = a THEN begun
              ELSE IF b \in others THEN [switch[b] EXCEPT !.mixed = TRUE] ELSE switch[b]]
  BY DEF StartSwitch
<1> HIDE DEF begun
<1>5. /\ switch' \in [CronActs -> SwitchType] /\ switch'[a] = begun
      /\ \A b \in others : switch'[b].mixed /\ switch'[b].pc # "idle"
      /\ \A b \in CronActs \ (others \cup {a}) : switch'[b].pc = "idle"
  BY <1>1, <1>2, <1>3, <1>4 DEF Switching
<1>6. \A b, c \in CronActs : Switching(b)' /\ Switching(c)' /\ b # c => switch'[b].mixed
  BY <1>2, <1>5 DEF Switching
<1>7. ASSUME NEW b \in CronActs, Switching(b)', ~switch'[b].mixed
      PROVE  FollowsBut({}) /\ Unset(b)' = {} /\ switch'[b].pc = "read"
  <2>1. b = a /\ others = {}
    BY <1>2, <1>5, <1>7 DEF Switching
  <2>2. FollowsBut({})
    BY <2>1 DEF CronInv
  <2>3. QED
    BY <1>2, <1>5, <2>1, <2>2 DEF Unset
<1>8. FollowsBut({})' <=> FollowsBut({})
  BY <1>1 DEF FollowsBut
<1>9. \A b \in CronActs : Switching(b)' /\ ~switch'[b].mixed => FollowsBut(Unset(b))'
  BY <1>1, <1>7 DEF FollowsBut
<1>10. Switching(a)'
  BY <1>2, <1>5 DEF Switching
<1>11. QED
  BY <1>1, <1>5, <1>6, <1>7, <1>9, <1>10 DEF CronInv, CronTypeOK

\* One handler goes on; the others, and whom it overlaps, stay as they are.
LEMMA GoesOn ==
    ASSUME CronInv, NEW a \in CronActs, NEW new \in SwitchType, Switching(a),
           switch' = [switch EXCEPT ![a] = new], new.pc # "idle",
           new.mixed = switch[a].mixed,
           statuses' \in StatusesType, schedulers' \subseteq CronNames, parted' \subseteq CronNames,
           UNCHANGED lastRun,
           ~new.mixed => /\ \A j \in CronNames \ (parted' \cup Unset(a)') :
                               j \in schedulers' <=> On(statuses', j)
                         /\ new.pc \in {"write", "move"} => new.got = statuses'
    PROVE  CronInv'
<1>1. switch \in [CronActs -> SwitchType]
  BY DEF CronInv, CronTypeOK
<1>2. /\ switch' \in [CronActs -> SwitchType] /\ switch'[a] = new
      /\ \A b \in CronActs \ {a} : switch'[b] = switch[b]
  BY <1>1
<1>3. \A b \in CronActs : (Switching(b)' <=> Switching(b)) /\ switch'[b].mixed = switch[b].mixed
  BY <1>2 DEF Switching
<1>4. \A b \in CronActs \ {a} : Switching(b) => switch[b].mixed
  BY DEF CronInv
<1>5. \A b \in CronActs : Switching(b)' /\ ~switch'[b].mixed => b = a
  BY <1>3, <1>4
<1>6. FollowsBut(Unset(a))' <=> \A j \in CronNames \ (parted' \cup Unset(a)') :
                                     j \in schedulers' <=> On(statuses', j)
  BY DEF FollowsBut, On
<1>7. QED
  BY <1>2, <1>3, <1>5, <1>6 DEF CronInv, CronTypeOK

\* One handler is through or cut off.
LEMMA GoesHome ==
    ASSUME CronInv, NEW a \in CronActs, Switching(a),
           switch' = [switch EXCEPT ![a] = NoSwitch], NoSwitch \in SwitchType,
           UNCHANGED <<statuses, schedulers, lastRun>>, parted' \subseteq CronNames,
           switch[a].mixed => parted' = CronNames,
           ~switch[a].mixed => parted \cup Unset(a) \subseteq parted'
    PROVE  CronInv'
<1>1. switch \in [CronActs -> SwitchType] /\ NoSwitch.pc = "idle"
  BY DEF CronInv, CronTypeOK, NoSwitch
<1>2. /\ switch' \in [CronActs -> SwitchType] /\ switch'[a].pc = "idle"
      /\ \A b \in CronActs \ {a} : switch'[b] = switch[b]
  BY <1>1
<1>3. \A b \in CronActs \ {a} : Switching(b) => switch[b].mixed
  BY DEF CronInv
<1>4. \A b \in CronActs : Switching(b)' => b # a /\ switch'[b].mixed
  BY <1>2, <1>3 DEF Switching
<1>5. FollowsBut({})'
  <2>1. CASE switch[a].mixed
    BY <2>1 DEF FollowsBut
  <2>2. CASE ~switch[a].mixed
    <3>1. FollowsBut(Unset(a))
      BY <2>2 DEF CronInv
    <3>2. QED
      BY <2>2, <3>1 DEF FollowsBut
  <2>3. QED
    BY <2>1, <2>2
<1>6. QED
  BY <1>2, <1>4, <1>5 DEF CronInv, CronTypeOK

LEMMA CronStep ==
    ASSUME CronInv, [CronNext]_cronVars
    PROVE  CronInv'
<1>1. /\ switch \in [CronActs -> SwitchType] /\ statuses \in StatusesType
      /\ schedulers \subseteq CronNames /\ parted \subseteq CronNames
  BY DEF CronInv, CronTypeOK
<1>2. NoSwitch \in SwitchType
  BY DEF NoSwitch, SwitchType, StatusesType
<1>3. ASSUME NEW a \in CronActs, BootServer(a)
      PROVE  CronInv'
  <2>1. [NoSwitch EXCEPT !.pc = "read", !.rest = CronNames] \in SwitchType
        /\ [NoSwitch EXCEPT !.pc = "read", !.rest = CronNames].pc = "read"
    BY <1>2 DEF SwitchType
  <2>2. QED
    BY <1>3, <2>1, StartKeeps DEF BootServer
<1>4. ASSUME NEW a \in CronActs, NEW j \in CronNames, NEW want \in {"on", "off"},
             Toggle(a, j, want)
      PROVE  CronInv'
  <2> DEFINE record == [NoSwitch EXCEPT !.pc = "read", !.op = "toggle",
                                        !.want = want, !.rest = {j}]
  <2>1. record \in SwitchType /\ record.pc = "read"
    BY <1>2 DEF SwitchType
  <2>2. StartSwitch(a, record)
    BY <1>4 DEF Toggle
  <2> HIDE DEF record
  <2>3. QED
    BY <2>1, <2>2, StartKeeps
<1>5. ASSUME NEW a \in CronActs, ReadStatuses(a)
      PROVE  CronInv'
  <2> DEFINE pc == IF switch[a].op = "toggle" THEN "write" ELSE "move"
             new == [switch[a] EXCEPT !.got = statuses, !.pc = pc]
  <2>1. switch[a] \in SwitchType /\ switch[a].pc = "read"
    BY <1>1, <1>5 DEF ReadStatuses
  <2>2. /\ new \in SwitchType /\ new.pc \in {"write", "move"} /\ new.got = statuses
        /\ new.mixed = switch[a].mixed
    BY <1>1, <2>1 DEF SwitchType
  <2>3. switch' = [switch EXCEPT ![a] = new] /\ UNCHANGED <<statuses, schedulers, lastRun, parted>>
    BY <1>5 DEF ReadStatuses
  <2> HIDE DEF new
  <2>4. ~new.mixed => \A j \in CronNames \ (parted' \cup Unset(a)') :
                          j \in schedulers' <=> On(statuses', j)
    <3>1. ~new.mixed => FollowsBut({})
      BY <2>1, <2>2 DEF CronInv, Switching, Unset
    <3>2. QED
      BY <2>3, <3>1 DEF FollowsBut
  <2>5. QED
    BY <1>1, <2>1, <2>2, <2>3, <2>4, GoesOn DEF Switching
<1>6. ASSUME NEW a \in CronActs, WriteStatuses(a)
      PROVE  CronInv'
  <2> DEFINE new == [switch[a] EXCEPT !.pc = "move", !.got = NewStatuses(a)]
  <2>1. switch[a] \in SwitchType /\ switch[a].pc = "write"
    BY <1>1, <1>6 DEF WriteStatuses
  <2>2. NewStatuses(a) \in StatusesType
    BY <2>1 DEF NewStatuses, StatusesType, SwitchType
  <2>3. /\ new \in SwitchType /\ new.pc = "move" /\ new.got = NewStatuses(a)
        /\ new.mixed = switch[a].mixed /\ new.rest = switch[a].rest
    BY <2>1, <2>2 DEF SwitchType
  <2>4. /\ switch' = [switch EXCEPT ![a] = new] /\ statuses' = NewStatuses(a)
        /\ UNCHANGED <<schedulers, lastRun, parted>>
    BY <1>6 DEF WriteStatuses
  <2> HIDE DEF new
  <2>5. ~new.mixed => \A j \in CronNames \ (parted' \cup Unset(a)') :
                          j \in schedulers' <=> On(statuses', j)
    <3>1. ~new.mixed => FollowsBut({}) /\ switch[a].got = statuses
      BY <2>1, <2>3 DEF CronInv, Switching, Unset
    <3>2. Unset(a)' = switch[a].rest
      BY <1>1, <2>3, <2>4 DEF Unset
    <3>3. \A j \in CronNames \ switch[a].rest : NewStatuses(a)[j] = switch[a].got[j]
      BY DEF NewStatuses
    <3>4. QED
      BY <2>4, <3>1, <3>2, <3>3 DEF FollowsBut, On
  <2>6. QED
    BY <1>1, <2>1, <2>2, <2>3, <2>4, <2>5, GoesOn DEF Switching
<1>7. ASSUME NEW a \in CronActs, NEW j \in CronNames, Move(a, j)
      PROVE  CronInv'
  <2> DEFINE new == [switch[a] EXCEPT !.rest = switch[a].rest \ {j}]
  <2>1. switch[a] \in SwitchType /\ switch[a].pc = "move"
    BY <1>1, <1>7 DEF Move
  <2>2. /\ new \in SwitchType /\ new.pc = "move" /\ new.got = switch[a].got
        /\ new.mixed = switch[a].mixed /\ new.rest = switch[a].rest \ {j}
    BY <2>1 DEF SwitchType
  <2>3. /\ switch' = [switch EXCEPT ![a] = new] /\ UNCHANGED <<statuses, lastRun>>
        /\ \/ /\ schedulers' = IF On(switch[a].got, j)
                               THEN schedulers \cup {j} ELSE schedulers \ {j}
              /\ parted' = IF switch[a].mixed THEN parted ELSE parted \ {j}
           \/ UNCHANGED schedulers /\ parted' = parted \cup {j}
    BY <1>7 DEF Move
  <2> HIDE DEF new
  <2>4. ~new.mixed => \A i \in CronNames \ (parted' \cup Unset(a)') :
                          i \in schedulers' <=> On(statuses', i)
    <3>1. ~new.mixed => FollowsBut(switch[a].rest) /\ switch[a].got = statuses
      BY <2>1, <2>2 DEF CronInv, Switching, Unset
    <3>2. Unset(a)' = switch[a].rest \ {j}
      BY <1>1, <2>2, <2>3 DEF Unset
    <3>3. ASSUME ~new.mixed, NEW i \in CronNames \ (parted' \cup Unset(a)')
          PROVE  i \in schedulers' <=> On(statuses, i)
      <4>1. CASE i = j
        BY <2>2, <2>3, <3>1, <3>3, <4>1
      <4>2. CASE i # j
        BY <2>2, <2>3, <3>1, <3>2, <3>3, <4>2 DEF FollowsBut
      <4>3. QED
        BY <4>1, <4>2
    <3>4. QED
      BY <2>3, <3>3
  <2>5. ~new.mixed => new.got = statuses'
    BY <2>1, <2>2, <2>3 DEF CronInv, Switching
  <2>6. QED
    BY <1>1, <2>1, <2>2, <2>3, <2>4, <2>5, GoesOn DEF Switching
<1>8. ASSUME NEW a \in CronActs, EndSwitch(a) \/ StopSwitch(a)
      PROVE  CronInv'
  <2>1. Switching(a) /\ switch' = [switch EXCEPT ![a] = NoSwitch]
        /\ UNCHANGED <<statuses, schedulers, lastRun>>
    BY <1>8 DEF EndSwitch, StopSwitch, Switching
  <2>2. switch[a].mixed => parted' = CronNames
    BY <1>8 DEF EndSwitch, StopSwitch
  <2>3. ~switch[a].mixed => parted \cup Unset(a) \subseteq parted'
    BY <1>8 DEF EndSwitch, StopSwitch, Unset
  <2>4. parted' \subseteq CronNames
    BY <1>1, <1>8 DEF EndSwitch, StopSwitch, SwitchType
  <2>5. QED
    BY <1>2, <2>1, <2>2, <2>3, <2>4, GoesHome
<1>9. ASSUME NEW j \in CronNames, Fire(j) \/ Process(j)
      PROVE  CronInv'
  <2>1. UNCHANGED <<statuses, schedulers, switch, parted>>
        /\ lastRun' \in [CronNames -> {"waits", "ran", "skipped"}]
    BY <1>9 DEF Fire, Process, CronInv, CronTypeOK
  <2>2. QED
    BY <2>1 DEF CronInv, CronTypeOK, FollowsBut, Unset, Switching, On
<1>10. CASE UNCHANGED cronVars
  BY <1>10 DEF cronVars, CronInv, CronTypeOK, FollowsBut, Unset, Switching, On
<1>11. QED
  BY <1>3, <1>4, <1>5, <1>6, <1>7, <1>8, <1>9, <1>10 DEF CronNext

\* The schedulers and the map of statuses agree again whenever no handler is at work,
\* for each job that was set alone since: of any number of toggles and starts, cut off
\* or refused by Redis wherever they may be.
THEOREM SchedulersAgree == CronSpec => []SchedulersFollowMap
<1>1. CronInit => CronInv
  <2>1. NoSwitch \in SwitchType /\ NoSwitch.pc = "idle"
    BY DEF NoSwitch, SwitchType, StatusesType
  <2>2. QED
    BY <2>1 DEF CronInit, CronInv, CronTypeOK, StatusesType, FollowsBut, Switching
<1>2. CronInv => SchedulersFollowMap
  BY DEF CronInv, SchedulersFollowMap, FollowsBut
<1>3. QED
  BY <1>1, <1>2, CronStep, PTL DEF CronSpec

-----------------------------------------------------------------------------
(* Files and rows *)

\* What a handler of each kind may be doing, and with which files and rows.
WritingExport(r) ==
    /\ r.op \in {"export", "zip"} /\ r.pc \in {"write", "insert", "complete"}
    /\ r.old = NoPicture /\ \E t \in Types : r.files = {t}
WritingReport(r) ==
    /\ r.op = "compare" /\ r.pc \in {"write", "record"}
    /\ r.files = {Report} /\ r.old = NoPicture
Uploading(r) ==
    /\ r.op = "upload" /\ r.pc \in {"write", "unlink", "record"}
    /\ \E p \in Pictures : r.files = {p}
Erasing(r) ==
    /\ r.op \in {"delete", "remove"} /\ r.pc \in {"unlink", "drop"}
    /\ r.files \subseteq Types \cup (IF r.op = "remove" THEN {Report} ELSE {})
    /\ r.old = NoPicture
Cleaning(r) ==
    /\ r.op = "cleanup" /\ r.pc \in {"drop", "unlink"}
    /\ r.files \subseteq Types /\ r.old = NoPicture
Deleting(r) == Erasing(r) \/ Cleaning(r)

\* The files whose name two exports shared, or that a failure or an overlap is to blame for.
Blamed == shared \cup astray

ShapesOK ==
    \A a \in FileActs :
       \/ actor[a] = NoActor
       \/ WritingExport(actor[a]) \/ WritingReport(actor[a]) \/ Uploading(actor[a])
       \/ /\ Deleting(actor[a])
          /\ \A e \in actor[a].rows :
                export[e].status # "none" /\ export[e].type \in actor[a].files
          /\ Report \in actor[a].files => job.report
          /\ Cleaning(actor[a]) /\ actor[a].pc = "unlink" => actor[a].rows \cap Rows = {}

\* A type has one row and one handler with a file for it, the others are blamed.
Wrote(a) == actor[a].pc = "insert"
NamesApart ==
    /\ \A e, f \in Rows : e # f /\ export[e].type = export[f].type =>
          export[e].type \in Blamed
    /\ \A a \in FileActs, e \in Rows : export[e].type \in actor[a].files \ Blamed =>
          /\ ~Wrote(a)
          /\ Deleting(actor[a]) => e \in actor[a].rows
    /\ \A a, b \in FileActs : a # b /\ Wrote(a) /\ (Wrote(b) \/ Deleting(actor[b])) =>
          actor[a].files \cap actor[b].files \subseteq Blamed

\* What is written stays until its row is deleted.
WrittenStay ==
    /\ \A a \in FileActs : Wrote(a) => actor[a].files \subseteq stored \cup Blamed
    /\ \A e \in Rows : export[e].type \notin stored \cup Blamed => Removing(e)
    
\* A row that no handler is to delete after its file, and a handler that will insert
\* the row of a file or delete the file.
Lasting(e) ==
    /\ e \in Rows
    /\ \A a \in FileActs : Erasing(actor[a]) /\ actor[a].pc = "drop" => e \notin actor[a].rows
Holds(a, t) ==
    /\ t \in actor[a].files
    /\ actor[a].pc \in {"write", "insert", "unlink"} \/ Cleaning(actor[a])
TypesHaveRows ==
    \A t \in (stored \cap Types) \ astray :
       (\E e \in ExportIds : Lasting(e) /\ export[e].type = t) \/ \E a \in FileActs : Holds(a, t)

ReportsMatch ==
    /\ Report \in stored \ astray =>
          (job.report /\ ~job.deleted) \/ \E a \in FileActs : Report \in actor[a].files
    /\ (job.report \/ \E a \in FileActs : actor[a].op = "compare" /\ actor[a].pc = "record") =>
          \/ job.deleted \/ Report \in stored \cup astray
          \/ \E a \in FileActs : actor[a].pc = "drop" /\ Report \in actor[a].files

\* The name of a picture that is not recorded yet is known to its handler only.
PicturesMatch ==
    /\ \A a \in FileActs : \A p \in actor[a].files \cap Pictures :
          /\ p # picture
          /\ \A b \in FileActs : p # actor[b].old /\ (a # b => p \notin actor[b].files)
          /\ actor[a].pc # "write" => p \in stored
    /\ \A a \in FileActs :
          actor[a].pc = "record" => actor[a].old \notin (stored \cap Pictures) \ astray
    /\ picture \notin stored \cup astray \cup {NoPicture} =>
          \E a \in FileActs : picture = actor[a].old
    /\ \A p \in (stored \cap Pictures) \ astray :
          p = picture \/ \E a \in FileActs : p \in actor[a].files \/ p = actor[a].old

FilesInv ==
    /\ FilesTypeOK /\ ShapesOK /\ NamesApart /\ WrittenStay /\ TypesHaveRows
    /\ ReportsMatch /\ PicturesMatch

\* The handler of an action becomes r, the others stay.
Becomes(a, r) ==
    /\ r \in ActorType
    /\ actor' \in [FileActs -> ActorType]
    /\ actor'[a] = r
    /\ \A b \in FileActs \ {a} : actor'[b] = actor[b]

LEMMA BecomesNew ==
    ASSUME actor \in [FileActs -> ActorType], NEW a \in FileActs, NEW r \in ActorType,
           actor' = [actor EXCEPT ![a] = r]
    PROVE  Becomes(a, r)
BY DEF Becomes

\* Another place of the same handler.
At(r, pc) == [r EXCEPT !.pc = pc]
LEMMA AtPlace ==
    ASSUME NEW r \in ActorType,
           NEW pc \in {"idle", "write", "insert", "complete", "unlink", "drop", "record"}
    PROVE  /\ At(r, pc) \in ActorType /\ At(r, pc).pc = pc /\ At(r, pc).op = r.op
           /\ At(r, pc).rows = r.rows /\ At(r, pc).files = r.files /\ At(r, pc).old = r.old
BY DEF At, ActorType

LEMMA GoesTo ==
    ASSUME actor \in [FileActs -> ActorType], NEW a \in FileActs,
           NEW pc \in {"idle", "write", "insert", "complete", "unlink", "drop", "record"},
           GoTo(a, pc)
    PROVE  Becomes(a, At(actor[a], pc))
<1>1. actor[a] \in ActorType
  OBVIOUS
<1>2. At(actor[a], pc) \in ActorType
  BY <1>1, AtPlace
<1>3. actor' = [actor EXCEPT ![a] = At(actor[a], pc)]
  BY DEF GoTo, At
<1> QED
  BY <1>2, <1>3, BecomesNew

LEMMA NoActorShape ==
    /\ NoActor \in ActorType /\ NoActor.pc = "idle" /\ NoActor.op = "compare"
    /\ NoActor.rows = {} /\ NoActor.files = {} /\ NoActor.old = NoPicture
BY DEF NoActor, ActorType, FileOps

LEMMA IsDone ==
    ASSUME actor \in [FileActs -> ActorType], NEW a \in FileActs, Done(a)
    PROVE  Becomes(a, NoActor)
BY NoActorShape, BecomesNew DEF Done

-----------------------------------------------------------------------------
\* What a handler that starts may be.
NewActor(r) ==
    \/ (WritingExport(r) \/ WritingReport(r)) /\ r.pc = "write"
    \/ /\ Deleting(r) /\ r.rows \subseteq Rows
       /\ r.files \cap Types = FilesOf(r.rows)
       /\ r.pc = (IF r.op = "cleanup" THEN "drop" ELSE "unlink")
       /\ Report \in r.files => job.report
    \/ /\ Uploading(r) /\ r.pc = "write" /\ r.old = picture
       /\ \A p \in r.files : p \in Unused

\* The handler x, when it begins an execution of op, or an upload, at pc.
MadeFile(x, op, pc, rows, files) ==
    [x EXCEPT !.pc = pc, !.op = op, !.rows = rows, !.files = files]
MadeUpload(x, files, old) ==
    [x EXCEPT !.pc = "write", !.op = "upload", !.old = old, !.files = files]

LEMMA MadeShape ==
    ASSUME NEW x \in ActorType, NEW op \in FileOps, NEW pc \in {"write", "unlink", "drop"},
           NEW rows \in SUBSET ExportIds, NEW files \in SUBSET Files
    PROVE  LET r == MadeFile(x, op, pc, rows, files)
           IN  /\ r \in ActorType
               /\ r.pc = pc /\ r.op = op /\ r.rows = rows /\ r.files = files
               /\ r.old = x.old
BY DEF ActorType, MadeFile

LEMMA MadeUploadShape ==
    ASSUME NEW x \in ActorType, NEW files \in SUBSET Files,
           NEW old \in Pictures \cup {NoPicture}
    PROVE  LET r == MadeUpload(x, files, old)
           IN  /\ r \in ActorType
               /\ r.pc = "write" /\ r.op = "upload" /\ r.files = files /\ r.old = old
BY DEF ActorType, MadeUpload, FileOps

LEMMA StartShape ==
    ASSUME FilesTypeOK, NEW a \in FileActs,
           NEW op \in FileOps, NEW pc \in {"write", "unlink", "drop"},
           NEW rows \in SUBSET ExportIds, NEW files \in SUBSET Files,
           Starts(a, op, pc, rows, files)
    PROVE  Becomes(a, MadeFile(NoActor, op, pc, rows, files))
<1> DEFINE r == MadeFile(NoActor, op, pc, rows, files)
<1>1. r \in ActorType
  BY MadeShape, NoActorShape
<1>2. actor' = [actor EXCEPT ![a] = r]
  BY DEF Starts, MadeFile
<1> HIDE DEF r
<1>3. Becomes(a, r)
  BY <1>1, <1>2, BecomesNew DEF FilesTypeOK
<1> QED
  BY <1>3 DEF r

\* A handler starts: nothing else changes.
Begun(a, r) ==
    /\ actor[a].pc = "idle" /\ Becomes(a, r) /\ NewActor(r)
    /\ UNCHANGED <<fileLoad, stored, export, job, picture, shared, astray>>

LEMMA RowsTyped ==
    ASSUME FilesTypeOK, NEW rows \in SUBSET Rows
    PROVE  rows \in SUBSET ExportIds /\ FilesOf(rows) \subseteq Types
<1>1. rows \in SUBSET ExportIds
  BY DEF Rows
<1>2. \A e \in rows : export[e].type \in Types
  BY <1>1 DEF FilesTypeOK, ExportType
<1> QED
  BY <1>1, <1>2 DEF FilesOf

LEMMA StartingBegins ==
    ASSUME FilesTypeOK, NEW a \in FileActs,
           \/ \E type \in Types : Request(a, type)
           \/ RequestZip(a) \/ Compare(a)
    PROVE  \E r \in ActorType : Begun(a, r)
<1>1. ASSUME NEW type \in Types, Request(a, type)
      PROVE  \E r \in ActorType : Begun(a, r)
  <2> DEFINE r == MadeFile(NoActor, "export", "write", {}, {type})
  <2>1. {type} \in SUBSET Files /\ "export" \in FileOps
    BY DEF Files, FileOps
  <2>2. Becomes(a, r)
    BY <1>1, <2>1, StartShape DEF Request
  <2>9. /\ r.pc = "write" /\ r.op = "export" /\ r.rows = {} /\ r.files = {type}
        /\ r.old = NoPicture
    BY MadeShape, NoActorShape, <2>1
  <2> HIDE DEF r
  <2>3. NewActor(r)
    BY <2>9 DEF NewActor, WritingExport
  <2>4. Begun(a, r)
    BY <1>1, <2>2, <2>3 DEF Begun, Request, Starts, Busy
  <2> QED
    BY <2>2, <2>4 DEF Becomes
<1>2. ASSUME RequestZip(a)
      PROVE  \E r \in ActorType : Begun(a, r)
  <2> DEFINE r == MadeFile(NoActor, "zip", "write", {}, {"zip"})
  <2>1. {"zip"} \in SUBSET Files /\ "zip" \in FileOps
    BY StoredFilesConstants DEF Files, FileOps
  <2>2. Becomes(a, r)
    BY <1>2, <2>1, StartShape DEF RequestZip
  <2>9. /\ r.pc = "write" /\ r.op = "zip" /\ r.rows = {} /\ r.files = {"zip"}
        /\ r.old = NoPicture
    BY MadeShape, NoActorShape, <2>1
  <2> HIDE DEF r
  <2>3. NewActor(r)
    BY <2>9, StoredFilesConstants DEF NewActor, WritingExport
  <2>4. Begun(a, r)
    BY <1>2, <2>2, <2>3 DEF Begun, RequestZip, Starts, Busy
  <2> QED
    BY <2>2, <2>4 DEF Becomes
<1>3. ASSUME Compare(a)
      PROVE  \E r \in ActorType : Begun(a, r)
  <2> DEFINE r == MadeFile(NoActor, "compare", "write", {}, {Report})
  <2>1. {Report} \in SUBSET Files /\ "compare" \in FileOps
    BY DEF Files, FileOps
  <2>2. Becomes(a, r)
    BY <1>3, <2>1, StartShape DEF Compare
  <2>9. /\ r.pc = "write" /\ r.op = "compare" /\ r.rows = {} /\ r.files = {Report}
        /\ r.old = NoPicture
    BY MadeShape, NoActorShape, <2>1
  <2> HIDE DEF r
  <2>3. NewActor(r)
    BY <2>9 DEF NewActor, WritingReport
  <2>4. Begun(a, r)
    BY <1>3, <2>2, <2>3 DEF Begun, Compare, Starts, Busy
  <2> QED
    BY <2>2, <2>4 DEF Becomes
<1> QED
  BY <1>1, <1>2, <1>3

LEMMA DeletingBegins ==
    ASSUME FilesTypeOK, NEW a \in FileActs,
           \/ RemoveJob(a)
           \/ \E e \in ExportIds : DeleteExport(a, e)
           \/ \E rows \in SUBSET ExportIds : FindOld(a, rows)
    PROVE  \E r \in ActorType : Begun(a, r)
<1>1. ASSUME RemoveJob(a)
      PROVE  \E r \in ActorType : Begun(a, r)
  <2> DEFINE rows == Rows
             files == FilesOf(rows) \cup (IF job.report THEN {Report} ELSE {})
             r == MadeFile(NoActor, "remove", "unlink", rows, files)
  <2>1. rows \in SUBSET Rows
    BY <1>1 DEF RemoveJob
  <2>2. rows \in SUBSET ExportIds /\ FilesOf(rows) \subseteq Types
    BY <2>1, RowsTyped
  <2>3. files \in SUBSET Files /\ "remove" \in FileOps
    BY <2>2 DEF Files, FileOps
  <2>4. files \cap Types = FilesOf(rows) /\ (Report \in files => job.report)
        /\ files \subseteq Types \cup {Report}
    BY <2>2, StoredFilesConstants
  <2>5. Starts(a, "remove", "unlink", rows, files)
    BY <1>1 DEF RemoveJob
  <2> HIDE DEF rows, files
  <2>6. /\ r.pc = "unlink" /\ r.op = "remove" /\ r.rows = rows /\ r.files = files
        /\ r.old = NoPicture
    BY <2>2, <2>3, MadeShape, NoActorShape
  <2>7. Becomes(a, r)
    BY <2>2, <2>3, <2>5, StartShape
  <2> HIDE DEF r
  <2>8. NewActor(r)
    BY <2>1, <2>4, <2>6 DEF NewActor, Deleting, Erasing
  <2>9. Begun(a, r)
    BY <2>5, <2>7, <2>8 DEF Begun, Starts, Busy
  <2> QED
    BY <2>7, <2>9 DEF Becomes
<1>2. ASSUME NEW e \in ExportIds, DeleteExport(a, e)
      PROVE  \E r \in ActorType : Begun(a, r)
  <2> DEFINE rows == {e}
             files == FilesOf(rows)
             r == MadeFile(NoActor, "delete", "unlink", rows, files)
  <2>1. rows \in SUBSET Rows
    BY <1>2 DEF DeleteExport
  <2>2. rows \in SUBSET ExportIds /\ FilesOf(rows) \subseteq Types
    BY <2>1, RowsTyped
  <2>3. files \in SUBSET Files /\ "delete" \in FileOps
    BY <2>2 DEF Files, FileOps
  <2>4. files \cap Types = FilesOf(rows) /\ Report \notin files
        /\ files \subseteq Types
    BY <2>2, StoredFilesConstants
  <2>5. Starts(a, "delete", "unlink", rows, files)
    BY <1>2 DEF DeleteExport
  <2> HIDE DEF rows, files
  <2>6. /\ r.pc = "unlink" /\ r.op = "delete" /\ r.rows = rows /\ r.files = files
        /\ r.old = NoPicture
    BY <2>2, <2>3, MadeShape, NoActorShape
  <2>7. Becomes(a, r)
    BY <2>2, <2>3, <2>5, StartShape
  <2> HIDE DEF r
  <2>8. NewActor(r)
    BY <2>1, <2>4, <2>6 DEF NewActor, Deleting, Erasing
  <2>9. Begun(a, r)
    BY <2>5, <2>7, <2>8 DEF Begun, Starts, Busy
  <2> QED
    BY <2>7, <2>9 DEF Becomes
<1>3. ASSUME NEW old \in SUBSET ExportIds, FindOld(a, old)
      PROVE  \E r \in ActorType : Begun(a, r)
  <2> DEFINE rows == old
             files == FilesOf(rows)
             r == MadeFile(NoActor, "cleanup", "drop", rows, files)
  <2>1. rows \in SUBSET Rows
    BY <1>3 DEF FindOld
  <2>2. rows \in SUBSET ExportIds /\ FilesOf(rows) \subseteq Types
    BY <2>1, RowsTyped
  <2>3. files \in SUBSET Files /\ "cleanup" \in FileOps
    BY <2>2 DEF Files, FileOps
  <2>4. files \cap Types = FilesOf(rows) /\ Report \notin files
        /\ files \subseteq Types
    BY <2>2, StoredFilesConstants
  <2>5. Starts(a, "cleanup", "drop", rows, files)
    BY <1>3 DEF FindOld
  <2> HIDE DEF rows, files
  <2>6. /\ r.pc = "drop" /\ r.op = "cleanup" /\ r.rows = rows /\ r.files = files
        /\ r.old = NoPicture
    BY <2>2, <2>3, MadeShape, NoActorShape
  <2>7. Becomes(a, r)
    BY <2>2, <2>3, <2>5, StartShape
  <2> HIDE DEF r
  <2>8. NewActor(r)
    BY <2>1, <2>4, <2>6 DEF NewActor, Deleting, Cleaning
  <2>9. Begun(a, r)
    BY <2>5, <2>7, <2>8 DEF Begun, Starts, Busy
  <2> QED
    BY <2>7, <2>9 DEF Becomes
<1> QED
  BY <1>1, <1>2, <1>3

LEMMA UploadBegins ==
    ASSUME FilesTypeOK, NEW a \in FileActs, Upload(a)
    PROVE  \E r \in ActorType : Begun(a, r)
<1> DEFINE p == CHOOSE q \in Unused : TRUE
           r == MadeUpload(NoActor, {p}, picture)
<1>1. p \in Unused /\ p \in Pictures
  BY DEF Upload, Unused
<1> HIDE DEF p
<1>2. {p} \in SUBSET Files /\ picture \in Pictures \cup {NoPicture} /\ "upload" \in FileOps
  BY <1>1 DEF Files, FileOps, FilesTypeOK
<1>3. /\ r \in ActorType /\ r.pc = "write" /\ r.op = "upload" /\ r.files = {p}
      /\ r.old = picture
  BY <1>2, MadeUploadShape, NoActorShape
<1>4. actor' = [actor EXCEPT ![a] = r]
  BY DEF Upload, p, MadeUpload
<1> HIDE DEF r
<1>5. Becomes(a, r)
  BY <1>3, <1>4, BecomesNew DEF FilesTypeOK
<1>6. NewActor(r)
  BY <1>1, <1>3 DEF NewActor, Uploading
<1>7. Begun(a, r)
  BY <1>5, <1>6 DEF Begun, Upload, Busy
<1> QED
  BY <1>3, <1>7

-----------------------------------------------------------------------------
LEMMA IdleIsNoActor ==
    ASSUME ShapesOK, NEW a \in FileActs, actor[a].pc = "idle"
    PROVE  actor[a] = NoActor
BY DEF ShapesOK, WritingExport, WritingReport, Uploading, Deleting, Erasing, Cleaning

LEMMA BegunKeepsNames ==
    ASSUME FilesInv, NEW a \in FileActs, NEW r \in ActorType, Begun(a, r)
    PROVE  FilesTypeOK' /\ ShapesOK' /\ NamesApart'
<1>1. /\ actor[a] = NoActor /\ actor'[a] = r /\ NewActor(r)
      /\ \A b \in FileActs \ {a} : actor'[b] = actor[b]
      /\ actor' \in [FileActs -> ActorType]
  BY IdleIsNoActor DEF FilesInv, Begun, Becomes
<1>2. UNCHANGED <<fileLoad, stored, export, job, picture, shared, astray>>
  BY DEF Begun
<1>3. FilesTypeOK'
  BY <1>1, <1>2 DEF FilesInv, FilesTypeOK
<1>4. ShapesOK'
  <2>1. ASSUME Deleting(r)
        PROVE  /\ \A e \in r.rows : export[e].status # "none" /\ export[e].type \in r.files
               /\ Report \in r.files => job.report
               /\ ~(Cleaning(r) /\ r.pc = "unlink")
    <3>1. /\ r.rows \subseteq Rows /\ FilesOf(r.rows) \subseteq r.files
          /\ Report \in r.files => job.report
          /\ ~(Cleaning(r) /\ r.pc = "unlink")
      BY <1>1, <2>1 DEF NewActor, Deleting, Erasing, Cleaning, WritingExport, WritingReport,
                        Uploading
    <3> QED
      BY <3>1 DEF Rows, FilesOf
  <2>2. WritingExport(r) \/ WritingReport(r) \/ Uploading(r) \/ Deleting(r)
    BY <1>1 DEF NewActor
  <2>3. Rows' = Rows
    BY <1>2 DEF Rows
  <2> QED
    BY <1>1, <1>2, <2>1, <2>2, <2>3 DEF FilesInv, ShapesOK
<1>5. r.pc # "insert"
  BY <1>1 DEF NewActor, Uploading, Deleting, Erasing, Cleaning
<1>6. ASSUME Deleting(r), NEW e \in Rows, export[e].type \in r.files
      PROVE  \E f \in r.rows : f \in Rows /\ export[f].type = export[e].type
  <2>1. r.rows \subseteq Rows /\ r.files \cap Types = FilesOf(r.rows)
    BY <1>1, <1>6 DEF NewActor, Deleting, Erasing, Cleaning, WritingExport, WritingReport,
                      Uploading
  <2>2. export[e].type \in Types
    BY DEF Rows, FilesInv, FilesTypeOK, ExportType
  <2> QED
    BY <1>6, <2>1, <2>2 DEF FilesOf
<1>7. ASSUME Deleting(r), NEW b \in FileActs \ {a}, Wrote(b),
             NEW x \in actor[b].files \cap r.files
      PROVE  x \in Blamed
  <2>1. x \in Types
    <3>1. WritingExport(actor[b])
      BY <1>7 DEF FilesInv, ShapesOK, Wrote, Deleting, Erasing, Cleaning, Uploading,
                  WritingReport, NoActor
    <3> QED
      BY <1>7, <3>1 DEF WritingExport
  <2>2. r.rows \subseteq Rows /\ r.files \cap Types = FilesOf(r.rows)
    BY <1>1, <1>7 DEF NewActor, Deleting, Erasing, Cleaning, WritingExport, WritingReport,
                      Uploading
  <2>3. PICK f \in Rows : export[f].type = x
    BY <1>7, <2>1, <2>2 DEF FilesOf
  <2> QED
    BY <1>7, <2>3 DEF FilesInv, NamesApart
<1>8. /\ Rows' = Rows /\ Blamed' = Blamed /\ export' = export
      /\ \A b \in FileActs \ {a} : Wrote(b)' <=> Wrote(b)
      /\ ~Wrote(a)'
  BY <1>1, <1>2, <1>5 DEF Rows, Blamed, Wrote
<1>9. NamesApart'
  <2>1. \A e, f \in Rows : e # f /\ export[e].type = export[f].type => export[e].type \in Blamed
    BY DEF FilesInv, NamesApart
  <2>2. ASSUME NEW b \in FileActs, NEW e \in Rows,
               export[e].type \in actor'[b].files \ Blamed
        PROVE  ~Wrote(b)' /\ (Deleting(actor'[b]) => e \in actor'[b].rows)
    <3>1. CASE b = a
      BY <1>1, <1>6, <1>8, <2>1, <2>2, <3>1
    <3>2. CASE b # a
      BY <1>1, <1>8, <2>2, <3>2 DEF FilesInv, NamesApart
    <3> QED
      BY <3>1, <3>2
  <2>3. ASSUME NEW b \in FileActs, NEW c \in FileActs, b # c, Wrote(b)',
               Wrote(c)' \/ Deleting(actor'[c])
        PROVE  actor'[b].files \cap actor'[c].files \subseteq Blamed
    <3>1. b # a
      BY <1>8, <2>3
    <3>2. CASE c = a
      BY <1>1, <1>7, <1>8, <2>3, <3>1, <3>2
    <3>3. CASE c # a
      BY <1>1, <1>8, <2>3, <3>1, <3>3 DEF FilesInv, NamesApart
    <3> QED
      BY <3>2, <3>3
  <2> QED
    BY <1>8, <2>1, <2>2, <2>3 DEF NamesApart
<1> QED
  BY <1>3, <1>4, <1>9

LEMMA BegunKeepsFiles ==
    ASSUME FilesInv, NEW a \in FileActs, NEW r \in ActorType, Begun(a, r)
    PROVE  WrittenStay' /\ TypesHaveRows' /\ ReportsMatch'
<1>1. /\ actor[a] = NoActor /\ actor'[a] = r /\ NewActor(r)
      /\ \A b \in FileActs \ {a} : actor'[b] = actor[b]
  BY IdleIsNoActor DEF FilesInv, Begun, Becomes
<1>2. UNCHANGED <<fileLoad, stored, export, job, picture, shared, astray>>
  BY DEF Begun
<1>3. r.pc \notin {"insert", "record"} /\ ~(Erasing(r) /\ r.pc = "drop")
  BY <1>1 DEF NewActor, Uploading, Deleting, Erasing, Cleaning, WritingReport, WritingExport
<1>4. Rows' = Rows /\ Blamed' = Blamed
  BY <1>2 DEF Rows, Blamed
<1>5. WrittenStay'
  <2>1. \A b \in FileActs : Wrote(b)' => Wrote(b) /\ actor'[b] = actor[b]
    BY <1>1, <1>3 DEF Wrote
  <2>2. \A e \in Rows : Removing(e) => Removing(e)'
    BY <1>1, NoActorShape DEF Removing
  <2> QED
    BY <1>2, <1>4, <2>1, <2>2 DEF FilesInv, WrittenStay
<1>6. TypesHaveRows'
  <2>1. \A e \in ExportIds : Lasting(e) => Lasting(e)'
    BY <1>1, <1>3, <1>4 DEF Lasting
  <2>2. \A b \in FileActs, t \in Types : Holds(b, t) => Holds(b, t)'
    BY <1>1, NoActorShape DEF Holds
  <2> QED
    BY <1>2, <2>1, <2>2 DEF FilesInv, TypesHaveRows
<1>7. ReportsMatch'
  BY <1>1, <1>2, <1>3, NoActorShape DEF FilesInv, ReportsMatch
<1> QED
  BY <1>5, <1>6, <1>7

LEMMA BegunKeepsPictures ==
    ASSUME FilesInv, NEW a \in FileActs, NEW r \in ActorType, Begun(a, r)
    PROVE  PicturesMatch'
<1>1. /\ actor[a] = NoActor /\ actor'[a] = r /\ NewActor(r)
      /\ \A b \in FileActs \ {a} : actor'[b] = actor[b]
  BY IdleIsNoActor DEF FilesInv, Begun, Becomes
<1>2. UNCHANGED <<fileLoad, stored, export, job, picture, shared, astray>>
  BY DEF Begun
<1>3. ASSUME NEW p \in r.files \cap Pictures
      PROVE  p \in Unused /\ r.pc = "write" /\ r.old = picture
  BY <1>1, <1>3, StoredFilesConstants
     DEF NewActor, Uploading, Deleting, Erasing, Cleaning, WritingReport, WritingExport
<1>4. r.pc # "record" /\ r.old \in {picture, NoPicture}
  BY <1>1 DEF NewActor, Uploading, Deleting, Erasing, Cleaning, WritingReport, WritingExport
<1>5. \A b \in FileActs : \A p \in actor'[b].files \cap Pictures :
        /\ p # picture /\ (\A c \in FileActs : p # actor'[c].old)
        /\ \A c \in FileActs : b # c => p \notin actor'[c].files
        /\ actor'[b].pc # "write" => p \in stored
  <2>1. ASSUME NEW b \in FileActs, NEW p \in actor'[b].files \cap Pictures
        PROVE  /\ p # picture /\ (\A c \in FileActs : p # actor'[c].old)
               /\ \A c \in FileActs : b # c => p \notin actor'[c].files
               /\ actor'[b].pc # "write" => p \in stored
    <3>1. CASE b = a
      BY <1>1, <1>3, <2>1, <3>1 DEF Unused
    <3>2. CASE b # a
      <4>1. /\ p \in actor[b].files /\ p # picture /\ p # NoPicture
            /\ \A c \in FileActs : p # actor[c].old /\ (b # c => p \notin actor[c].files)
            /\ actor[b].pc # "write" => p \in stored
        BY <1>1, <2>1, <3>2, StoredFilesConstants DEF FilesInv, PicturesMatch
      <4>2. p \notin r.files
        BY <1>3, <2>1, <3>2, <4>1 DEF Unused
      <4> QED
        BY <1>1, <1>4, <3>2, <4>1, <4>2
    <3> QED
      BY <3>1, <3>2
  <2> QED
    BY <2>1
<1>6. /\ \A b \in FileActs : actor'[b].pc = "record" =>
            actor'[b].old \notin (stored \cap Pictures) \ astray
      /\ picture \notin stored \cup astray \cup {NoPicture} =>
            \E b \in FileActs : picture = actor'[b].old
      /\ \A p \in (stored \cap Pictures) \ astray :
            p = picture \/ \E b \in FileActs : p \in actor'[b].files \/ p = actor'[b].old
  BY <1>1, <1>4, NoActorShape, StoredFilesConstants DEF FilesInv, PicturesMatch
<1> QED
  BY <1>2, <1>5, <1>6 DEF PicturesMatch

-----------------------------------------------------------------------------
\* What a handler that writes may be.
LEMMA WriterShape ==
    ASSUME FilesInv, NEW a \in FileActs, actor[a].pc = "write"
    PROVE  /\ WritingExport(actor[a]) \/ WritingReport(actor[a]) \/ Uploading(actor[a])
           /\ actor[a] \in ActorType
<1>1. actor[a] \in ActorType
  BY DEF FilesInv, FilesTypeOK
<1> QED
  BY <1>1, NoActorShape DEF FilesInv, ShapesOK, Deleting, Erasing, Cleaning

LEMMA WriteKeepsNames ==
    ASSUME FilesInv, NEW a \in FileActs, WriteFile(a)
    PROVE  FilesTypeOK' /\ ShapesOK' /\ NamesApart'
<1> DEFINE pc == CASE actor[a].op = "upload" -> "unlink"
                   [] actor[a].op = "compare" -> "record"
                   [] OTHER -> "insert"
           r == At(actor[a], pc)
<1>1. /\ WritingExport(actor[a]) \/ WritingReport(actor[a]) \/ Uploading(actor[a])
      /\ actor[a] \in ActorType /\ actor \in [FileActs -> ActorType]
  BY WriterShape DEF WriteFile, FilesInv, FilesTypeOK
<1>2. pc \in {"unlink", "record", "insert"}
  OBVIOUS
<1>3. GoTo(a, pc)
  BY DEF WriteFile
<1>4. /\ pc = "insert" <=> WritingExport(actor[a])
      /\ pc = "record" <=> WritingReport(actor[a])
  BY <1>1 DEF WritingExport, WritingReport, Uploading
<1> HIDE DEF pc
<1>5. /\ Becomes(a, r) /\ r.pc = pc /\ r.op = actor[a].op /\ r.rows = actor[a].rows
      /\ r.files = actor[a].files /\ r.old = actor[a].old /\ r \in ActorType
  BY <1>1, <1>2, <1>3, GoesTo, AtPlace
<1> HIDE DEF r
<1>6. /\ actor'[a] = r /\ actor' \in [FileActs -> ActorType]
      /\ \A b \in FileActs \ {a} : actor'[b] = actor[b]
  BY <1>5 DEF Becomes
<1>7. WritingExport(r) \/ WritingReport(r) \/ Uploading(r)
  BY <1>1, <1>2, <1>4, <1>5 DEF WritingExport, WritingReport, Uploading
<1>8. /\ UNCHANGED <<fileLoad, export, job, picture, astray>>
      /\ stored' = stored \cup actor[a].files /\ shared \subseteq shared'
  BY DEF WriteFile
<1>9. shared' \subseteq Types
  BY DEF WriteFile, FilesInv, FilesTypeOK
<1>10. FilesTypeOK'
  BY <1>1, <1>6, <1>8, <1>9 DEF FilesInv, FilesTypeOK, ActorType
<1>11. ShapesOK'
  <2>1. Rows' = Rows
    BY <1>8 DEF Rows
  <2> QED
    BY <1>6, <1>7, <1>8, <2>1 DEF FilesInv, ShapesOK
<1>12. /\ Rows' = Rows /\ Blamed \subseteq Blamed'
       /\ \A b \in FileActs \ {a} : Wrote(b)' <=> Wrote(b)
  BY <1>6, <1>8 DEF Rows, Blamed, Wrote
<1>13. ASSUME NEW t \in actor[a].files \cap Types,
              t \in FilesOf(Rows) \/ \E b \in FileActs \ {a} : t \in actor[b].files
       PROVE  t \in Blamed'
  BY <1>13 DEF WriteFile, Blamed
<1>14. Wrote(a)' => r.files \subseteq Types
  BY <1>4, <1>5, <1>6, <1>7 DEF Wrote, WritingExport
<1>15. ~Deleting(r)
  BY <1>1, <1>5 DEF WritingExport, WritingReport, Uploading, Deleting, Erasing, Cleaning
<1>16. NamesApart'
  <2>1. \A e, f \in Rows : e # f /\ export[e].type = export[f].type => export[e].type \in Blamed'
    BY <1>12 DEF FilesInv, NamesApart
  <2>2. ASSUME NEW b \in FileActs, NEW e \in Rows,
               export[e].type \in actor'[b].files \ Blamed'
        PROVE  ~Wrote(b)' /\ (Deleting(actor'[b]) => e \in actor'[b].rows)
    <3>1. CASE b = a
      <4>1. export[e].type \in FilesOf(Rows)
        BY DEF FilesOf
      <4> QED
        BY <1>5, <1>6, <1>13, <1>14, <1>15, <2>2, <3>1, <4>1
    <3>2. CASE b # a
      BY <1>6, <1>12, <2>2, <3>2 DEF FilesInv, NamesApart
    <3> QED
      BY <3>1, <3>2
  <2>3. ASSUME NEW b \in FileActs, NEW c \in FileActs, b # c, Wrote(b)',
               Wrote(c)' \/ Deleting(actor'[c]), NEW x \in actor'[b].files \cap actor'[c].files
        PROVE  x \in Blamed'
    <3>1. CASE b = a
      BY <1>5, <1>6, <1>13, <1>14, <2>3, <3>1
    <3>2. CASE c = a
      <4>1. Wrote(c)' /\ x \in actor[a].files \cap Types
        BY <1>5, <1>6, <1>14, <1>15, <2>3, <3>2
      <4> QED
        BY <1>6, <1>13, <2>3, <3>2, <4>1
    <3>3. CASE b # a /\ c # a
      BY <1>6, <1>12, <2>3, <3>3 DEF FilesInv, NamesApart
    <3> QED
      BY <3>1, <3>2, <3>3
  <2> QED
    BY <1>8, <1>12, <2>1, <2>2, <2>3 DEF NamesApart
<1> QED
  BY <1>10, <1>11, <1>16

LEMMA WriteKeepsFiles ==
    ASSUME FilesInv, NEW a \in FileActs, WriteFile(a)
    PROVE  WrittenStay' /\ TypesHaveRows' /\ ReportsMatch' /\ PicturesMatch'
<1> DEFINE pc == CASE actor[a].op = "upload" -> "unlink"
                   [] actor[a].op = "compare" -> "record"
                   [] OTHER -> "insert"
           r == At(actor[a], pc)
<1>1. /\ WritingExport(actor[a]) \/ WritingReport(actor[a]) \/ Uploading(actor[a])
      /\ actor[a] \in ActorType /\ actor \in [FileActs -> ActorType] /\ actor[a].pc = "write"
  BY WriterShape DEF WriteFile, FilesInv, FilesTypeOK
<1>2. pc \in {"unlink", "record", "insert"}
  OBVIOUS
<1>3. GoTo(a, pc)
  BY DEF WriteFile
<1>4. /\ pc = "insert" <=> WritingExport(actor[a])
      /\ pc = "record" <=> WritingReport(actor[a])
  BY <1>1 DEF WritingExport, WritingReport, Uploading
<1> HIDE DEF pc
<1>5. /\ Becomes(a, r) /\ r.pc = pc /\ r.op = actor[a].op /\ r.rows = actor[a].rows
      /\ r.files = actor[a].files /\ r.old = actor[a].old /\ r \in ActorType
  BY <1>1, <1>2, <1>3, GoesTo, AtPlace
<1> HIDE DEF r
<1>6. /\ actor'[a] = r /\ \A b \in FileActs \ {a} : actor'[b] = actor[b]
      /\ \A b \in FileActs : actor'[b].files = actor[b].files /\ actor'[b].old = actor[b].old
      /\ \A b \in FileActs : actor[b].pc = "drop" => actor'[b] = actor[b]
  BY <1>1, <1>5 DEF Becomes
<1>7. /\ UNCHANGED <<fileLoad, export, job, picture, astray>>
      /\ stored' = stored \cup actor[a].files /\ shared \subseteq shared'
  BY DEF WriteFile
<1>8. Rows' = Rows /\ Blamed \subseteq Blamed'
  BY <1>7 DEF Rows, Blamed
<1>9. WrittenStay'
  <2>1. ASSUME NEW b \in FileActs, Wrote(b)'
        PROVE  actor'[b].files \subseteq stored' \cup Blamed'
    BY <1>6, <1>7, <1>8, <2>1 DEF FilesInv, WrittenStay, Wrote
  <2>2. \A e \in Rows : Removing(e) => Removing(e)'
    BY <1>6 DEF Removing
  <2> QED
    BY <1>7, <1>8, <2>1, <2>2 DEF FilesInv, WrittenStay
<1>10. TypesHaveRows'
  <2>1. \A e \in ExportIds : Lasting(e) => Lasting(e)'
    <3>1. \A b \in FileActs : Erasing(actor'[b]) /\ actor'[b].pc = "drop" => actor'[b] = actor[b]
      BY <1>2, <1>5, <1>6
    <3> QED
      BY <1>6, <1>8, <3>1 DEF Lasting
  <2>2. ASSUME NEW b \in FileActs, NEW t \in Types, Holds(b, t)
        PROVE  Holds(b, t)'
    <3>1. CASE b = a
      BY <1>1, <1>4, <1>5, <1>6, <2>2, <3>1, StoredFilesConstants
         DEF Holds, WritingReport, Uploading
    <3>2. CASE b # a
      BY <1>6, <2>2, <3>2 DEF Holds
    <3> QED
      BY <3>1, <3>2
  <2>3. ASSUME NEW t \in actor[a].files \cap Types
        PROVE  Holds(a, t)'
    BY <1>1, <1>4, <1>5, <1>6, <2>3, StoredFilesConstants DEF Holds, WritingReport, Uploading
  <2> QED
    BY <1>7, <2>1, <2>2, <2>3 DEF FilesInv, TypesHaveRows
<1>11. ReportsMatch'
  <2>1. Report \in stored' \ astray' =>
           (job'.report /\ ~job'.deleted) \/ \E b \in FileActs : Report \in actor'[b].files
    BY <1>6, <1>7 DEF FilesInv, ReportsMatch
  <2>2. ASSUME NEW b \in FileActs, actor'[b].op = "compare", actor'[b].pc = "record"
        PROVE  Report \in stored' \/ (actor[b].op = "compare" /\ actor[b].pc = "record")
    BY <1>1, <1>4, <1>5, <1>6, <1>7, <2>2 DEF WritingReport
  <2> QED
    BY <1>6, <1>7, <2>1, <2>2 DEF FilesInv, ReportsMatch
<1>12. PicturesMatch'
  <2>1. \A b \in FileActs : \A p \in actor'[b].files \cap Pictures :
          /\ p # picture
          /\ \A c \in FileActs : p # actor'[c].old /\ (b # c => p \notin actor'[c].files)
          /\ actor'[b].pc # "write" => p \in stored'
    BY <1>6, <1>7 DEF FilesInv, PicturesMatch
  <2>2. ASSUME NEW b \in FileActs, actor'[b].pc = "record"
        PROVE  actor'[b].old \notin (stored' \cap Pictures) \ astray
    <3>1. CASE b = a
      BY <1>4, <1>5, <1>6, <2>2, <3>1, StoredFilesConstants DEF WritingReport
    <3>2. CASE b # a
      BY <1>6, <1>7, <2>2, <3>2 DEF FilesInv, PicturesMatch
    <3> QED
      BY <3>1, <3>2
  <2> QED
    BY <1>6, <1>7, <2>1, <2>2 DEF FilesInv, PicturesMatch
<1> QED
  BY <1>9, <1>10, <1>11, <1>12

-----------------------------------------------------------------------------
Inserted(r, e) == [r EXCEPT !.pc = "complete", !.rows = {e}]
LEMMA InsertedShape ==
    ASSUME NEW r \in ActorType, NEW e \in ExportIds
    PROVE  /\ Inserted(r, e) \in ActorType /\ Inserted(r, e).pc = "complete"
           /\ Inserted(r, e).op = r.op /\ Inserted(r, e).rows = {e}
           /\ Inserted(r, e).files = r.files /\ Inserted(r, e).old = r.old
BY DEF Inserted, ActorType

\* The row of a handler's file is inserted: the handler becomes r.
Inserts(a, e, t, r) ==
    /\ e \in ExportIds /\ export[e].status = "none"
    /\ actor[a].pc = "insert" /\ WritingExport(actor[a]) /\ actor[a].files = {t} /\ t \in Types
    /\ export' \in [ExportIds -> ExportType]
    /\ export'[e].status = "PENDING" /\ export'[e].type = t
    /\ \A f \in ExportIds \ {e} : export'[f] = export[f]
    /\ Becomes(a, r) /\ r.pc = "complete" /\ r.op = actor[a].op /\ r.files = {t}
    /\ r.old = actor[a].old
    /\ UNCHANGED <<fileLoad, stored, job, picture, shared, astray>>

LEMMA InsertInserts ==
    ASSUME FilesInv, NEW a \in FileActs, Insert(a)
    PROVE  \E e \in ExportIds, t \in Types, r \in ActorType : Inserts(a, e, t, r)
<1> DEFINE e == CHOOSE x \in Fresh : TRUE
           r == Inserted(actor[a], e)
<1>1. e \in ExportIds /\ export[e].status = "none"
  BY DEF Insert, Fresh
<1>2. PICK t \in actor[a].files :
         export' = [export EXCEPT ![e] = [status |-> "PENDING", type |-> t]]
  BY DEF Insert
<1>3. WritingExport(actor[a]) /\ actor[a].files = {t} /\ t \in Types
  <2>1. WritingExport(actor[a])
    BY NoActorShape DEF Insert, FilesInv, ShapesOK, WritingReport, Uploading, Deleting, Erasing,
                        Cleaning
  <2> QED
    BY <1>2, <2>1 DEF WritingExport
<1>4. actor' = [actor EXCEPT ![a] = r]
  BY DEF Insert, Inserted
<1> HIDE DEF e
<1>5. actor \in [FileActs -> ActorType]
  BY DEF FilesInv, FilesTypeOK
<1>6. /\ r \in ActorType /\ r.pc = "complete" /\ r.op = actor[a].op /\ r.files = actor[a].files
      /\ r.old = actor[a].old
  BY <1>1, <1>5, InsertedShape
<1> HIDE DEF r
<1>7. Becomes(a, r)
  BY <1>4, <1>5, <1>6, BecomesNew
<1>8. export \in [ExportIds -> ExportType] /\ [status |-> "PENDING", type |-> t] \in ExportType
  BY <1>3 DEF FilesInv, FilesTypeOK, ExportType
<1>9. /\ export' \in [ExportIds -> ExportType]
      /\ export'[e].status = "PENDING" /\ export'[e].type = t
      /\ \A f \in ExportIds \ {e} : export'[f] = export[f]
  BY <1>1, <1>2, <1>8
<1>10. Inserts(a, e, t, r)
  BY <1>1, <1>3, <1>6, <1>7, <1>9 DEF Inserts, Insert
<1> QED
  BY <1>1, <1>3, <1>6, <1>10

LEMMA InsertKeeps ==
    ASSUME FilesInv, NEW a \in FileActs, Insert(a)
    PROVE  FilesInv'
<1>1. PICK e \in ExportIds, t \in Types, r \in ActorType : Inserts(a, e, t, r)
  BY InsertInserts
<1>2. /\ export[e].status = "none" /\ Wrote(a) /\ actor[a].files = {t}
      /\ export' \in [ExportIds -> ExportType]
      /\ export'[e].status = "PENDING" /\ export'[e].type = t
      /\ \A f \in ExportIds \ {e} : export'[f] = export[f]
      /\ UNCHANGED <<fileLoad, stored, job, picture, shared, astray>>
  BY <1>1 DEF Inserts, Wrote
<1>3. /\ actor'[a] = r /\ actor' \in [FileActs -> ActorType]
      /\ \A b \in FileActs \ {a} : actor'[b] = actor[b]
      /\ \A b \in FileActs : actor'[b].files = actor[b].files /\ actor'[b].old = actor[b].old
      /\ r.pc = "complete" /\ actor[a].pc = "insert"
  BY <1>1 DEF Inserts, Becomes
<1>4. WritingExport(r)
  BY <1>1 DEF Inserts, WritingExport
<1>5. ~Deleting(r)
  BY <1>3 DEF Deleting, Erasing, Cleaning
<1>6. FilesTypeOK'
  BY <1>2, <1>3 DEF FilesInv, FilesTypeOK
<1>7. ShapesOK'
  <2>1. ASSUME NEW b \in FileActs \ {a}, Deleting(actor[b]), NEW f \in actor[b].rows,
               export[f].status # "none"
        PROVE  export'[f] = export[f]
    <3>1. f \in ExportIds /\ f # e
      BY <1>2, <2>1 DEF FilesInv, FilesTypeOK, ActorType
    <3> QED
      BY <1>2, <3>1
  <2>2. Rows' = Rows \cup {e}
    BY <1>2 DEF Rows
  <2>3. ASSUME NEW b \in FileActs \ {a}, Deleting(actor[b]),
               \A f \in actor[b].rows : export[f].status # "none"
        PROVE  e \notin actor[b].rows
    BY <1>2, <2>3
  <2> QED
    BY <1>2, <1>3, <1>4, <2>1, <2>2, <2>3 DEF FilesInv, ShapesOK
<1>8. /\ Rows' = Rows \cup {e} /\ e \notin Rows /\ Blamed' = Blamed
      /\ \A f \in Rows : f \in ExportIds /\ export'[f] = export[f]
      /\ ~Wrote(a)' /\ \A b \in FileActs \ {a} : Wrote(b)' <=> Wrote(b)
  BY <1>2, <1>3 DEF Rows, Blamed, Wrote
<1>9. \A b \in FileActs : Deleting(actor[b]) => e \notin actor[b].rows
  <2>1. NoActor.rows = {}
    BY NoActorShape
  <2>2. ASSUME NEW b \in FileActs, Deleting(actor[b]), e \in actor[b].rows
        PROVE  FALSE
    BY <1>2, <2>1, <2>2 DEF FilesInv, ShapesOK, WritingExport, WritingReport, Uploading,
                            Deleting, Erasing, Cleaning
  <2> QED
    BY <2>2
<1>10. NamesApart'
  <2>1. ASSUME NEW f \in Rows, export[f].type = t
        PROVE  t \in Blamed
    BY <1>2, <2>1 DEF FilesInv, NamesApart
  <2>2. \A f, g \in Rows' : f # g /\ export'[f].type = export'[g].type => export'[f].type \in Blamed
    BY <1>2, <1>8, <2>1 DEF FilesInv, NamesApart
  <2>3. ASSUME NEW b \in FileActs, NEW f \in Rows',
               export'[f].type \in actor'[b].files \ Blamed
        PROVE  ~Wrote(b)' /\ (Deleting(actor'[b]) => f \in actor'[b].rows)
    <3>1. CASE b = a
      BY <1>3, <1>5, <1>8, <3>1
    <3>2. CASE b # a /\ f \in Rows
      BY <1>3, <1>8, <2>3, <3>2 DEF FilesInv, NamesApart
    <3>3. CASE b # a /\ f = e
      BY <1>2, <1>3, <1>8, <2>3, <3>3 DEF FilesInv, NamesApart
    <3> QED
      BY <1>8, <3>1, <3>2, <3>3
  <2>4. \A b, c \in FileActs : b # c /\ Wrote(b)' /\ (Wrote(c)' \/ Deleting(actor'[c])) =>
            actor'[b].files \cap actor'[c].files \subseteq Blamed
    BY <1>3, <1>5, <1>8 DEF FilesInv, NamesApart
  <2> QED
    BY <1>8, <2>2, <2>3, <2>4 DEF NamesApart
<1>11. WrittenStay'
  <2>1. \A f \in Rows : Removing(f) => Removing(f)'
    BY <1>3 DEF Removing
  <2>2. t \in stored \cup Blamed
    BY <1>2 DEF FilesInv, WrittenStay
  <2> QED
    BY <1>2, <1>3, <1>8, <2>1, <2>2 DEF FilesInv, WrittenStay
<1>12. TypesHaveRows'
  <2>1. \A f \in ExportIds : Lasting(f) => Lasting(f)' /\ export'[f] = export[f]
    BY <1>3, <1>5, <1>8 DEF Lasting, Deleting
  <2>2. Lasting(e)'
    BY <1>3, <1>5, <1>8, <1>9 DEF Lasting, Deleting
  <2>3. \A b \in FileActs \ {a}, x \in Types : Holds(b, x) => Holds(b, x)'
    BY <1>3 DEF Holds
  <2>4. \A x \in Types : Holds(a, x) => x = t
    BY <1>2 DEF Holds
  <2> QED
    BY <1>2, <2>1, <2>2, <2>3, <2>4 DEF FilesInv, TypesHaveRows
<1>13. ReportsMatch'
  BY <1>2, <1>3 DEF FilesInv, ReportsMatch
<1>14. PicturesMatch'
  BY <1>2, <1>3 DEF FilesInv, PicturesMatch
<1> QED
  BY <1>6, <1>7, <1>10, <1>11, <1>12, <1>13, <1>14 DEF FilesInv

-----------------------------------------------------------------------------
LEMMA CompleteKeeps ==
    ASSUME FilesInv, NEW a \in FileActs, Complete(a)
    PROVE  FilesInv'
<1>1. /\ actor \in [FileActs -> ActorType] /\ Done(a) /\ actor[a].pc = "complete"
      /\ UNCHANGED <<fileLoad, stored, job, picture, shared, astray>>
  BY DEF Complete, FilesInv, FilesTypeOK
<1>2. /\ actor'[a] = NoActor /\ actor' \in [FileActs -> ActorType]
      /\ \A b \in FileActs \ {a} : actor'[b] = actor[b]
  BY <1>1, IsDone DEF Becomes
<1>3. WritingExport(actor[a])
  BY <1>1, NoActorShape DEF FilesInv, ShapesOK, WritingReport, Uploading, Deleting, Erasing,
                            Cleaning
<1>4. /\ export' \in [ExportIds -> ExportType]
      /\ \A e \in ExportIds : export'[e].type = export[e].type
                           /\ (export'[e].status = "none" <=> export[e].status = "none")
      /\ Rows' = Rows
  <2>1. \A e \in ExportIds : /\ [export[e] EXCEPT !.status = "COMPLETED"] \in ExportType
                             /\ [export[e] EXCEPT !.status = "COMPLETED"].type = export[e].type
                             /\ [export[e] EXCEPT !.status = "COMPLETED"].status = "COMPLETED"
    BY DEF FilesInv, FilesTypeOK, ExportType
  <2>2. export' = [e \in ExportIds |-> IF e \in actor[a].rows \cap Rows
            THEN [export[e] EXCEPT !.status = "COMPLETED"] ELSE export[e]]
    BY DEF Complete
  <2>3. export \in [ExportIds -> ExportType]
    BY DEF FilesInv, FilesTypeOK
  <2>4. /\ export' \in [ExportIds -> ExportType]
        /\ \A e \in ExportIds : export'[e].type = export[e].type
        /\ \A e \in ExportIds : IF e \in actor[a].rows \cap Rows
                                THEN export'[e].status = "COMPLETED"
                                ELSE export'[e].status = export[e].status
    BY <2>1, <2>2, <2>3
  <2> QED
    BY <2>4 DEF Rows
<1>5. FilesTypeOK'
  BY <1>1, <1>2, <1>4 DEF FilesInv, FilesTypeOK
<1>6. Blamed' = Blamed /\ (\A b \in FileActs : Wrote(b)' => Wrote(b) /\ b # a)
      /\ ~Deleting(NoActor)
  BY <1>1, <1>2, NoActorShape DEF Blamed, Wrote, Deleting, Erasing, Cleaning
<1>7. \A e \in Rows : e \in ExportIds
  BY DEF Rows
<1>8. ShapesOK'
  <2>1. ASSUME NEW b \in FileActs \ {a}, Deleting(actor[b])
        PROVE  actor[b].rows \subseteq ExportIds
    BY <2>1 DEF FilesInv, FilesTypeOK, ActorType
  <2> QED
    BY <1>1, <1>2, <1>4, <2>1 DEF FilesInv, ShapesOK
<1>9. NamesApart'
  BY <1>2, <1>4, <1>6, <1>7 DEF FilesInv, NamesApart
<1>10. WrittenStay'
  <2>1. \A e \in Rows : Removing(e) => Removing(e)'
    BY <1>1, <1>2 DEF Removing
  <2> QED
    BY <1>1, <1>2, <1>4, <1>6, <1>7, <2>1 DEF FilesInv, WrittenStay
<1>11. TypesHaveRows'
  <2>1. \A e \in ExportIds : Lasting(e) => Lasting(e)'
    BY <1>2, <1>4, <1>6 DEF Lasting, Deleting
  <2>2. ~Deleting(actor[a])
    BY <1>1 DEF Deleting, Erasing, Cleaning
  <2>3. \A b \in FileActs, t \in Types : Holds(b, t) => Holds(b, t)'
    BY <1>1, <1>2, <2>2 DEF Holds, Deleting
  <2> QED
    BY <1>1, <1>4, <2>1, <2>3 DEF FilesInv, TypesHaveRows
<1>12. ReportsMatch'
  <2>1. Report \notin actor[a].files /\ NoActor.pc = "idle"
    BY <1>3, StoredFilesConstants, NoActorShape DEF WritingExport
  <2> QED
    BY <1>1, <1>2, <2>1 DEF FilesInv, ReportsMatch
<1>13. PicturesMatch'
  <2>1. /\ actor[a].files \cap Pictures = {} /\ actor[a].old = NoPicture /\ NoActor.files = {}
        /\ NoActor.old = NoPicture /\ NoActor.pc = "idle" /\ NoPicture \notin Pictures
    BY <1>3, StoredFilesConstants, NoActorShape DEF WritingExport
  <2>2. \A b \in FileActs : \A p \in actor'[b].files \cap Pictures :
          /\ p # picture
          /\ \A c \in FileActs : p # actor'[c].old /\ (b # c => p \notin actor'[c].files)
          /\ actor'[b].pc # "write" => p \in stored
    BY <1>2, <2>1 DEF FilesInv, PicturesMatch
  <2>3. /\ \A b \in FileActs : actor'[b].pc = "record" =>
              actor'[b].old \notin (stored \cap Pictures) \ astray
        /\ picture \notin stored \cup astray \cup {NoPicture} =>
              \E b \in FileActs : picture = actor'[b].old
        /\ \A p \in (stored \cap Pictures) \ astray :
              p = picture \/ \E b \in FileActs : p \in actor'[b].files \/ p = actor'[b].old
    BY <1>2, <2>1 DEF FilesInv, PicturesMatch
  <2> QED
    BY <1>1, <2>2, <2>3 DEF PicturesMatch
<1> QED
  BY <1>5, <1>8, <1>9, <1>10, <1>11, <1>12, <1>13 DEF FilesInv

-----------------------------------------------------------------------------
\* A handler ends, and what it leaves unfinished is said to be astray.
Ends(a) ==
    /\ actor' \in [FileActs -> ActorType] /\ actor'[a] = NoActor
    /\ \A b \in FileActs \ {a} : actor'[b] = actor[b]
    /\ UNCHANGED <<fileLoad, stored, export, shared>>
    /\ job' \in [deleted : BOOLEAN, report : BOOLEAN] /\ (job.report => job'.report)
    /\ astray \subseteq astray' /\ astray' \subseteq Files
    /\ \A t \in Types : Holds(a, t) => t \in astray'
    /\ actor[a].pc = "drop" => actor[a].files \subseteq astray'

LEMMA EndKeepsRows ==
    ASSUME FilesInv, NEW a \in FileActs, Ends(a)
    PROVE  ShapesOK' /\ NamesApart' /\ WrittenStay' /\ TypesHaveRows'
<1>1. /\ actor'[a] = NoActor /\ \A b \in FileActs \ {a} : actor'[b] = actor[b]
      /\ UNCHANGED <<fileLoad, stored, export, shared>> /\ (job.report => job'.report)
      /\ astray \subseteq astray' /\ \A t \in Types : Holds(a, t) => t \in astray'
      /\ actor[a].pc = "drop" => actor[a].files \subseteq astray'
  BY DEF Ends
<1>2. /\ Rows' = Rows /\ Blamed \subseteq Blamed' /\ astray' \subseteq Blamed'
      /\ (\A b \in FileActs : Wrote(b)' => Wrote(b) /\ b # a)
      /\ ~Deleting(NoActor)
  BY <1>1, NoActorShape DEF Rows, Blamed, Wrote, Deleting, Erasing, Cleaning
<1>3. ShapesOK'
  BY <1>1, <1>2 DEF FilesInv, ShapesOK
<1>4. NamesApart'
  BY <1>1, <1>2 DEF FilesInv, NamesApart
<1>5. WrittenStay'
  <2>1. ASSUME NEW e \in Rows, Removing(e)
        PROVE  Removing(e)' \/ export[e].type \in Blamed'
    <3>1. PICK b \in FileActs : actor[b].pc = "drop" /\ e \in actor[b].rows
      BY <2>1 DEF Removing
    <3>2. CASE b = a
      <4>1. Deleting(actor[a])
        BY <3>1, <3>2, NoActorShape DEF FilesInv, ShapesOK, WritingExport, WritingReport, Uploading
      <4>2. export[e].type \in actor[a].files
        BY <3>1, <3>2, <4>1, NoActorShape
           DEF FilesInv, ShapesOK, WritingExport, WritingReport, Uploading
      <4> QED
        BY <1>1, <1>2, <3>1, <3>2, <4>2
    <3>3. CASE b # a
      BY <1>1, <3>1, <3>3 DEF Removing
    <3> QED
      BY <3>2, <3>3
  <2> QED
    BY <1>1, <1>2, <2>1 DEF FilesInv, WrittenStay
<1>6. TypesHaveRows'
  <2>1. \A e \in ExportIds : Lasting(e) => Lasting(e)'
    BY <1>1, <1>2 DEF Lasting, Deleting
  <2>2. \A b \in FileActs \ {a}, t \in Types : Holds(b, t) => Holds(b, t)'
    BY <1>1 DEF Holds
  <2> QED
    BY <1>1, <2>1, <2>2 DEF FilesInv, TypesHaveRows
<1> QED
  BY <1>3, <1>4, <1>5, <1>6

LEMMA RecordReportKeeps ==
    ASSUME FilesInv, NEW a \in FileActs, RecordReport(a)
    PROVE  FilesInv'
<1>1. /\ actor \in [FileActs -> ActorType] /\ Done(a) /\ actor[a].pc = "record"
      /\ actor[a].op = "compare" /\ UNCHANGED <<fileLoad, stored, export, picture, shared>>
      /\ astray' = astray \cup IF job.deleted THEN {Report} ELSE {}
  BY DEF RecordReport, FilesInv, FilesTypeOK
<1>2. /\ actor'[a] = NoActor /\ actor' \in [FileActs -> ActorType]
      /\ \A b \in FileActs \ {a} : actor'[b] = actor[b]
  BY <1>1, IsDone DEF Becomes
<1>3. /\ job' \in [deleted : BOOLEAN, report : BOOLEAN] /\ job'.report
      /\ job'.deleted = job.deleted
  BY DEF RecordReport, FilesInv, FilesTypeOK
<1>4. actor[a].files = {Report} /\ actor[a].old = NoPicture
  BY <1>1, NoActorShape DEF FilesInv, ShapesOK, WritingExport, WritingReport, Uploading,
                            Deleting, Erasing, Cleaning
<1>5. /\ Report \in Files /\ Report \notin Types /\ Report \notin Pictures
      /\ NoPicture \notin Pictures
  BY StoredFilesConstants DEF Files
<1>6. astray \subseteq astray' /\ astray' \subseteq Files
  BY <1>1, <1>5 DEF FilesInv, FilesTypeOK
<1>7. Ends(a)
  BY <1>1, <1>2, <1>3, <1>4, <1>5, <1>6 DEF Ends, Holds
<1>8. ShapesOK' /\ NamesApart' /\ WrittenStay' /\ TypesHaveRows'
  BY <1>7, EndKeepsRows
<1>9. FilesTypeOK'
  BY <1>1, <1>2, <1>3, <1>6 DEF FilesInv, FilesTypeOK
<1>10. ReportsMatch'
  <2>1. Report \in stored' \ astray' => job'.report /\ ~job'.deleted
    BY <1>1, <1>3
  <2>2. \/ job'.deleted \/ Report \in stored' \cup astray'
        \/ \E b \in FileActs : actor'[b].pc = "drop" /\ Report \in actor'[b].files
    <3>1. \/ job.deleted \/ Report \in stored \cup astray
          \/ \E b \in FileActs : actor[b].pc = "drop" /\ Report \in actor[b].files
      BY <1>1 DEF FilesInv, ReportsMatch
    <3> QED
      BY <1>1, <1>2, <1>3, <3>1
  <2> QED
    BY <2>1, <2>2 DEF ReportsMatch
<1>11. PicturesMatch'
  <2>1. \A b \in FileActs : \A p \in actor'[b].files \cap Pictures :
          /\ p # picture
          /\ \A c \in FileActs : p # actor'[c].old /\ (b # c => p \notin actor'[c].files)
          /\ actor'[b].pc # "write" => p \in stored
    BY <1>2, <1>5, NoActorShape DEF FilesInv, PicturesMatch
  <2>2. /\ \A b \in FileActs : actor'[b].pc = "record" =>
              actor'[b].old \notin (stored \cap Pictures) \ astray'
        /\ picture \notin stored \cup astray' \cup {NoPicture} =>
              \E b \in FileActs : picture = actor'[b].old
        /\ \A p \in (stored \cap Pictures) \ astray' :
              p = picture \/ \E b \in FileActs : p \in actor'[b].files \/ p = actor'[b].old
    BY <1>2, <1>4, <1>5, <1>6, NoActorShape DEF FilesInv, PicturesMatch
  <2> QED
    BY <1>1, <2>1, <2>2 DEF PicturesMatch
<1> QED
  BY <1>8, <1>9, <1>10, <1>11 DEF FilesInv

LEMMA RecordPictureKeeps ==
    ASSUME FilesInv, NEW a \in FileActs, RecordPicture(a)
    PROVE  FilesInv'
<1>1. /\ actor \in [FileActs -> ActorType] /\ Done(a) /\ actor[a].pc = "record"
      /\ actor[a].op = "upload" /\ UNCHANGED <<fileLoad, stored, export, job, shared>>
      /\ astray' = astray \cup ({picture} \ {actor[a].old, NoPicture})
  BY DEF RecordPicture, FilesInv, FilesTypeOK
<1>2. /\ actor'[a] = NoActor /\ actor' \in [FileActs -> ActorType]
      /\ \A b \in FileActs \ {a} : actor'[b] = actor[b]
  BY <1>1, IsDone DEF Becomes
<1>3. PICK p \in Pictures : actor[a].files = {p} /\ picture' = p
  BY <1>1, NoActorShape DEF FilesInv, ShapesOK, WritingExport, WritingReport, Uploading,
                            Deleting, Erasing, Cleaning, RecordPicture
<1>4. p \notin Types /\ p # Report /\ p # NoPicture /\ p \in Files /\ Report \notin Pictures
  BY StoredFilesConstants DEF Files
<1>5. astray \subseteq astray' /\ astray' \subseteq Files
  BY <1>1 DEF FilesInv, FilesTypeOK, Files
<1>6. job \in [deleted : BOOLEAN, report : BOOLEAN]
  BY DEF FilesInv, FilesTypeOK
<1>7. Ends(a)
  BY <1>1, <1>2, <1>3, <1>4, <1>5, <1>6 DEF Ends, Holds
<1>8. ShapesOK' /\ NamesApart' /\ WrittenStay' /\ TypesHaveRows'
  BY <1>7, EndKeepsRows
<1>9. FilesTypeOK'
  BY <1>1, <1>2, <1>3, <1>5 DEF FilesInv, FilesTypeOK
<1>10. ReportsMatch'
  BY <1>1, <1>2, <1>3, <1>4, <1>5, NoActorShape DEF FilesInv, ReportsMatch
<1>11. PicturesMatch'
  <2>1. /\ p \in stored /\ p # picture
        /\ \A c \in FileActs : p # actor[c].old /\ (a # c => p \notin actor[c].files)
    BY <1>1, <1>3 DEF FilesInv, PicturesMatch
  <2>2. \A b \in FileActs : \A q \in actor'[b].files \cap Pictures :
          /\ q # picture'
          /\ \A c \in FileActs : q # actor'[c].old /\ (b # c => q \notin actor'[c].files)
          /\ actor'[b].pc # "write" => q \in stored
    BY <1>2, <1>3, <1>4, <2>1, NoActorShape, StoredFilesConstants DEF FilesInv, PicturesMatch
  <2>3. \A b \in FileActs : actor'[b].pc = "record" =>
              actor'[b].old \notin (stored \cap Pictures) \ astray'
    BY <1>2, <1>5, NoActorShape DEF FilesInv, PicturesMatch
  <2>4. ASSUME NEW q \in (stored \cap Pictures) \ astray'
        PROVE  q = picture' \/ \E b \in FileActs : q \in actor'[b].files \/ q = actor'[b].old
    <3>1. q # actor[a].old
      BY <1>1, <1>5, <2>4 DEF FilesInv, PicturesMatch
    <3>2. q # picture
      BY <1>1, <2>4, <3>1, StoredFilesConstants
    <3>3. PICK b \in FileActs : q \in actor[b].files \/ q = actor[b].old
      BY <1>5, <2>4, <3>2 DEF FilesInv, PicturesMatch
    <3> QED
      BY <1>2, <1>3, <3>1, <3>3
  <2> QED
    BY <1>1, <1>3, <2>1, <2>2, <2>3, <2>4 DEF PicturesMatch
<1> QED
  BY <1>8, <1>9, <1>10, <1>11 DEF FilesInv

LEMMA AbortKeeps ==
    ASSUME FilesInv, NEW a \in FileActs, Abort(a)
    PROVE  FilesInv'
<1>1. /\ actor \in [FileActs -> ActorType] /\ Done(a)
      /\ UNCHANGED <<fileLoad, stored, export, job, picture, shared>>
      /\ astray' = astray \cup actor[a].files \cup ({actor[a].old} \ {NoPicture})
  BY DEF Abort, FilesInv, FilesTypeOK
<1>2. /\ actor'[a] = NoActor /\ actor' \in [FileActs -> ActorType]
      /\ \A b \in FileActs \ {a} : actor'[b] = actor[b]
  BY <1>1, IsDone DEF Becomes
<1>3. /\ actor[a].files \subseteq astray' /\ astray \subseteq astray'
      /\ actor[a].old # NoPicture => actor[a].old \in astray'
  BY <1>1
<1>4. actor[a].files \subseteq Files /\ actor[a].old \in Pictures \cup {NoPicture}
  BY <1>1 DEF ActorType
<1>5. astray' \subseteq Files /\ job \in [deleted : BOOLEAN, report : BOOLEAN]
  BY <1>1, <1>4 DEF FilesInv, FilesTypeOK, Files
<1>6. Ends(a)
  BY <1>1, <1>2, <1>3, <1>5 DEF Ends, Holds
<1>7. ShapesOK' /\ NamesApart' /\ WrittenStay' /\ TypesHaveRows'
  BY <1>6, EndKeepsRows
<1>8. FilesTypeOK'
  BY <1>1, <1>2, <1>5 DEF FilesInv, FilesTypeOK
<1>9. ReportsMatch'
  BY <1>1, <1>2, <1>3, NoActorShape DEF FilesInv, ReportsMatch
<1>10. PicturesMatch'
  <2>1. \A b \in FileActs : \A q \in actor'[b].files \cap Pictures :
          /\ q # picture
          /\ \A c \in FileActs : q # actor'[c].old /\ (b # c => q \notin actor'[c].files)
          /\ actor'[b].pc # "write" => q \in stored
    BY <1>2, NoActorShape, StoredFilesConstants DEF FilesInv, PicturesMatch
  <2>2. /\ \A b \in FileActs : actor'[b].pc = "record" =>
              actor'[b].old \notin (stored \cap Pictures) \ astray'
        /\ picture \notin stored \cup astray' \cup {NoPicture} =>
              \E b \in FileActs : picture = actor'[b].old
        /\ \A q \in (stored \cap Pictures) \ astray' :
              q = picture \/ \E b \in FileActs : q \in actor'[b].files \/ q = actor'[b].old
    BY <1>2, <1>3, NoActorShape, StoredFilesConstants DEF FilesInv, PicturesMatch
  <2> QED
    BY <1>1, <2>1, <2>2 DEF PicturesMatch
<1> QED
  BY <1>7, <1>8, <1>9, <1>10 DEF FilesInv

-----------------------------------------------------------------------------
\* The files that a handler deletes, and what is left of them.
Taken(r) == IF r.op = "upload" THEN {r.old} \ {NoPicture} ELSE r.files
Unlinks(a, r) ==
    /\ actor[a].pc = "unlink" /\ (Uploading(actor[a]) \/ Deleting(actor[a]))
    /\ actor' \in [FileActs -> ActorType] /\ actor'[a] = r
    /\ \A b \in FileActs \ {a} : actor'[b] = actor[b]
    /\ UNCHANGED <<fileLoad, export, job, picture, shared>>
    /\ stored' \subseteq stored /\ astray \subseteq astray' /\ astray' \subseteq Files
    /\ \A x \in stored' \ astray' : x \in stored \ astray /\ x \notin Taken(actor[a])
    /\ \A x \in stored \ Taken(actor[a]) : x \in stored'
    /\ IF Cleaning(actor[a]) THEN r = NoActor
       ELSE /\ r.op = actor[a].op /\ r.rows = actor[a].rows /\ r.files = actor[a].files
            /\ r.old = actor[a].old
            /\ IF Erasing(actor[a]) THEN Erasing(r) /\ r.pc = "drop"
                                    ELSE Uploading(r) /\ r.pc = "record"

LEMMA UnlinkUnlinks ==
    ASSUME FilesInv, NEW a \in FileActs, Unlink(a)
    PROVE  \E r \in ActorType : Unlinks(a, r)
<1>1. /\ actor \in [FileActs -> ActorType] /\ actor[a].pc = "unlink"
      /\ UNCHANGED <<fileLoad, export, job, picture, shared>>
      /\ stored \subseteq Files /\ astray \subseteq Files
  BY DEF Unlink, FilesInv, FilesTypeOK
<1>2. Uploading(actor[a]) \/ Deleting(actor[a])
  BY <1>1, NoActorShape DEF FilesInv, ShapesOK, WritingExport, WritingReport
<1>3. \/ stored' = stored \ Taken(actor[a]) /\ astray' = astray
      \/ stored' = stored /\ astray' = astray \cup (Taken(actor[a]) \cap stored)
  BY DEF Unlink, Taken
<1>4. /\ stored' \subseteq stored /\ astray \subseteq astray' /\ astray' \subseteq Files
      /\ \A x \in stored' \ astray' : x \in stored \ astray /\ x \notin Taken(actor[a])
      /\ \A x \in stored \ Taken(actor[a]) : x \in stored'
  BY <1>1, <1>3
<1>5. CASE Uploading(actor[a])
  <2> DEFINE r == At(actor[a], "record")
  <2>1. GoTo(a, "record")
    BY <1>5 DEF Unlink, Uploading
  <2>2. /\ Becomes(a, r) /\ r.pc = "record" /\ r.op = actor[a].op /\ r.rows = actor[a].rows
        /\ r.files = actor[a].files /\ r.old = actor[a].old /\ r \in ActorType
    BY <1>1, <2>1, GoesTo, AtPlace
  <2> HIDE DEF r
  <2>3. Uploading(r) /\ ~Cleaning(actor[a]) /\ ~Erasing(actor[a])
    BY <1>5, <2>2 DEF Uploading, Cleaning, Erasing
  <2>4. Unlinks(a, r)
    BY <1>1, <1>2, <1>4, <2>2, <2>3 DEF Unlinks, Becomes
  <2> QED
    BY <2>2, <2>4
<1>6. CASE Erasing(actor[a])
  <2> DEFINE r == At(actor[a], "drop")
  <2>1. GoTo(a, "drop")
    BY <1>6 DEF Unlink, Erasing
  <2>2. /\ Becomes(a, r) /\ r.pc = "drop" /\ r.op = actor[a].op /\ r.rows = actor[a].rows
        /\ r.files = actor[a].files /\ r.old = actor[a].old /\ r \in ActorType
    BY <1>1, <2>1, GoesTo, AtPlace
  <2> HIDE DEF r
  <2>3. Erasing(r) /\ ~Cleaning(actor[a])
    BY <1>6, <2>2 DEF Cleaning, Erasing
  <2>4. Unlinks(a, r)
    BY <1>1, <1>2, <1>4, <1>6, <2>2, <2>3 DEF Unlinks, Becomes
  <2> QED
    BY <2>2, <2>4
<1>7. CASE Cleaning(actor[a])
  <2>1. Done(a)
    BY <1>7 DEF Unlink, Cleaning
  <2>2. Becomes(a, NoActor)
    BY <1>1, <2>1, IsDone
  <2>3. Unlinks(a, NoActor)
    BY <1>1, <1>2, <1>4, <1>7, <2>2 DEF Unlinks, Becomes
  <2> QED
    BY <2>3, NoActorShape
<1> QED
  BY <1>2, <1>5, <1>6, <1>7 DEF Deleting

LEMMA UnlinkKeeps ==
    ASSUME FilesInv, NEW a \in FileActs, Unlink(a)
    PROVE  FilesInv'
<1>1. PICK r \in ActorType : Unlinks(a, r)
  BY UnlinkUnlinks
<1> DEFINE taken == Taken(actor[a])
<1>2. /\ actor' \in [FileActs -> ActorType] /\ actor'[a] = r /\ actor[a].pc = "unlink"
      /\ \A b \in FileActs \ {a} : actor'[b] = actor[b]
      /\ UNCHANGED <<fileLoad, export, job, picture, shared>>
      /\ stored' \subseteq stored /\ astray \subseteq astray' /\ astray' \subseteq Files
      /\ \A x \in stored' \ astray' : x \in stored \ astray /\ x \notin taken
      /\ \A x \in stored \ taken : x \in stored'
  BY <1>1 DEF Unlinks
<1>3. Uploading(actor[a]) \/ Erasing(actor[a]) \/ Cleaning(actor[a])
  BY <1>1 DEF Unlinks, Deleting
<1>4. ASSUME Uploading(actor[a])
      PROVE  /\ taken = {actor[a].old} \ {NoPicture} /\ Uploading(r) /\ r.pc = "record"
             /\ r.files = actor[a].files /\ r.old = actor[a].old
             /\ ~Deleting(actor[a]) /\ ~Deleting(r)
  BY <1>1, <1>4 DEF Unlinks, Taken, Uploading, Deleting, Erasing, Cleaning
<1>5. ASSUME Erasing(actor[a])
      PROVE  /\ taken = actor[a].files /\ Erasing(r) /\ r.pc = "drop" /\ r.op = actor[a].op
             /\ r.files = actor[a].files /\ r.old = NoPicture /\ r.rows = actor[a].rows
             /\ taken \cap Pictures = {} /\ ~Cleaning(r)
  BY <1>1, <1>5, StoredFilesConstants DEF Unlinks, Taken, Erasing, Cleaning
<1>6. ASSUME Cleaning(actor[a])
      PROVE  /\ taken = actor[a].files /\ r = NoActor /\ taken \subseteq Types
             /\ taken \cap Pictures = {} /\ actor[a].old = NoPicture
  BY <1>1, <1>6, StoredFilesConstants DEF Unlinks, Taken, Cleaning
<1>7. actor[a].old \in Pictures \cup {NoPicture}
  BY DEF FilesInv, FilesTypeOK, ActorType
<1> HIDE DEF taken
<1>8. /\ Rows' = Rows /\ Blamed \subseteq Blamed' /\ astray' \subseteq Blamed'
      /\ (\A b \in FileActs : Wrote(b)' => Wrote(b) /\ b # a)
      /\ NoActor.pc = "idle" /\ NoActor.files = {} /\ NoActor.old = NoPicture
      /\ ~Deleting(NoActor)
  BY <1>2, <1>3, <1>4, <1>5, <1>6, NoActorShape
     DEF Rows, Blamed, Wrote, Deleting, Erasing, Cleaning
<1>9. FilesTypeOK'
  BY <1>2 DEF FilesInv, FilesTypeOK
<1>10. ShapesOK'
  <2>1. \A b \in FileActs \ {a} : actor'[b] = actor[b]
    BY <1>2
  <2>2. Erasing(actor[a]) =>
          /\ \A e \in actor[a].rows :
                export[e].status # "none" /\ export[e].type \in actor[a].files
          /\ Report \in actor[a].files => job.report
    BY <1>2, NoActorShape DEF FilesInv, ShapesOK, WritingExport, WritingReport, Uploading, Erasing
  <2> QED
    BY <1>2, <1>3, <1>4, <1>5, <1>6, <1>8, <2>1, <2>2 DEF FilesInv, ShapesOK, Deleting
<1>11. NamesApart'
  <2>1. Deleting(r) => Deleting(actor[a]) /\ r.rows = actor[a].rows /\ r.files = actor[a].files
    BY <1>3, <1>4, <1>5, <1>6, <1>8 DEF Deleting
  <2> QED
    BY <1>2, <1>8, <2>1 DEF FilesInv, NamesApart
<1>12. WrittenStay'
  <2>1. ASSUME NEW b \in FileActs, Wrote(b)'
        PROVE  actor'[b].files \subseteq stored' \cup Blamed'
    <3>1. actor[b].files \subseteq Types /\ Wrote(b) /\ b # a /\ actor'[b] = actor[b]
      BY <1>2, <1>8, <2>1, NoActorShape DEF FilesInv, ShapesOK, Wrote, WritingExport,
                     WritingReport, Uploading, Deleting, Erasing, Cleaning
    <3>2. actor[b].files \cap taken \subseteq Blamed
      <4>1. CASE Uploading(actor[a])
        BY <1>4, <1>7, <3>1, <4>1, StoredFilesConstants
      <4>2. CASE Deleting(actor[a])
        BY <1>5, <1>6, <3>1, <4>2 DEF FilesInv, NamesApart, Deleting
      <4> QED
        BY <1>3, <4>1, <4>2 DEF Deleting
    <3> QED
      BY <1>2, <1>8, <3>1, <3>2 DEF FilesInv, WrittenStay
  <2>2. ASSUME NEW e \in Rows, export[e].type \notin stored' \cup Blamed'
        PROVE  Removing(e)'
    <3>1. e \in ExportIds /\ export[e].type \in Types
      BY DEF Rows, FilesInv, FilesTypeOK, ExportType
    <3>2. CASE export[e].type \notin stored
      <4>1. PICK b \in FileActs : actor[b].pc = "drop" /\ e \in actor[b].rows
        BY <1>8, <2>2, <3>2 DEF FilesInv, WrittenStay, Removing
      <4> QED
        BY <1>2, <4>1 DEF Removing
    <3>3. CASE export[e].type \in stored
      <4>1. export[e].type \in taken
        BY <1>2, <2>2, <3>3
      <4>2. ~Uploading(actor[a])
        BY <1>4, <1>7, <3>1, <4>1, StoredFilesConstants
      <4>3. Deleting(actor[a]) /\ export[e].type \in actor[a].files
        BY <1>3, <1>5, <1>6, <4>1, <4>2 DEF Deleting
      <4>4. e \in actor[a].rows
        BY <1>8, <2>2, <4>3 DEF FilesInv, NamesApart
      <4>5. ~Cleaning(actor[a])
        BY <1>2, <4>4, NoActorShape DEF FilesInv, ShapesOK, WritingExport, WritingReport,
                                        Uploading, Cleaning
      <4> QED
        BY <1>2, <1>3, <1>5, <4>2, <4>4, <4>5 DEF Removing
    <3> QED
      BY <3>2, <3>3
  <2> QED
    BY <1>2, <1>8, <2>1, <2>2 DEF WrittenStay
<1>13. TypesHaveRows'
  <2>1. ASSUME NEW e \in ExportIds, Lasting(e), export[e].type \notin taken
        PROVE  Lasting(e)'
    <3>1. ASSUME Erasing(r)
          PROVE  e \notin r.rows
      <4>1. Erasing(actor[a]) /\ r.rows = actor[a].rows /\ taken = actor[a].files
        BY <1>3, <1>4, <1>5, <1>6, <1>8, <3>1 DEF Deleting
      <4>2. \A f \in actor[a].rows : export[f].type \in actor[a].files
        BY <1>2, <4>1, NoActorShape DEF FilesInv, ShapesOK, WritingExport, WritingReport,
                                        Uploading, Erasing
      <4> QED
        BY <2>1, <4>1, <4>2
    <3> QED
      BY <1>2, <1>8, <2>1, <3>1 DEF Lasting
  <2>2. ASSUME NEW b \in FileActs, NEW t \in Types \ taken, Holds(b, t)
        PROVE  Holds(b, t)'
    <3>1. b # a
      BY <1>3, <1>4, <1>5, <1>6, <2>2, StoredFilesConstants DEF Holds, Uploading
    <3> QED
      BY <1>2, <2>2, <3>1 DEF Holds
  <2> QED
    BY <1>2, <2>1, <2>2 DEF FilesInv, TypesHaveRows
<1>14. ReportsMatch'
  <2>1. Report \in stored' \ astray' =>
          (job.report /\ ~job.deleted) \/ \E b \in FileActs : Report \in actor'[b].files
    <3>1. ASSUME Report \in actor[a].files, Report \notin taken
          PROVE  FALSE
      BY <1>3, <1>4, <1>5, <1>6, <3>1, StoredFilesConstants DEF Uploading
    <3> QED
      BY <1>2, <3>1 DEF FilesInv, ReportsMatch
  <2>2. Report \in taken => \E b \in FileActs : actor'[b].pc = "drop" /\ Report \in actor'[b].files
    BY <1>2, <1>3, <1>4, <1>5, <1>6, <1>7, StoredFilesConstants
  <2>3. \A b \in FileActs : actor'[b].op = "compare" /\ actor'[b].pc = "record" =>
            actor[b].op = "compare" /\ actor[b].pc = "record"
    BY <1>2, <1>3, <1>4, <1>5, <1>6, <1>8 DEF Uploading
  <2> QED
    BY <1>2, <2>1, <2>2, <2>3 DEF FilesInv, ReportsMatch
<1>15. PicturesMatch'
  <2>1. \A b \in FileActs : /\ actor'[b].files \cap Pictures = actor[b].files \cap Pictures
                            /\ actor'[b].old = actor[b].old
    BY <1>2, <1>3, <1>4, <1>5, <1>6, <1>8 DEF Erasing
  <2>2. \A b \in FileActs : \A p \in actor[b].files \cap Pictures : p \notin taken
    BY <1>3, <1>4, <1>5, <1>6 DEF FilesInv, PicturesMatch
  <2>3. \A b \in FileActs : actor'[b].pc # "write" => actor[b].pc # "write"
    BY <1>2
  <2>4. \A b \in FileActs : \A p \in actor'[b].files \cap Pictures :
          /\ p # picture
          /\ \A c \in FileActs : p # actor'[c].old /\ (b # c => p \notin actor'[c].files)
          /\ actor'[b].pc # "write" => p \in stored'
    BY <1>2, <2>1, <2>2, <2>3 DEF FilesInv, PicturesMatch
  <2>5. ASSUME NEW b \in FileActs, actor'[b].pc = "record"
        PROVE  actor'[b].old \notin (stored' \cap Pictures) \ astray'
    <3>1. CASE b = a
      <4>1. Uploading(actor[a])
        BY <1>2, <1>3, <1>5, <1>6, <1>8, <2>5, <3>1
      <4> QED
        BY <1>2, <1>4, <2>1, <3>1, <4>1, StoredFilesConstants
    <3>2. CASE b # a
      BY <1>2, <2>5, <3>2 DEF FilesInv, PicturesMatch
    <3> QED
      BY <3>1, <3>2
  <2>6. ASSUME picture \notin stored' \cup astray' \cup {NoPicture}
        PROVE  \E b \in FileActs : picture = actor'[b].old
    <3>1. CASE picture \in stored
      <4>1. picture \in taken /\ picture \in Pictures
        BY <1>2, <2>6, <3>1 DEF FilesInv, FilesTypeOK
      <4> QED
        BY <1>3, <1>4, <1>5, <1>6, <2>1, <4>1
    <3>2. CASE picture \notin stored
      BY <1>2, <2>1, <2>6, <3>2 DEF FilesInv, PicturesMatch
    <3> QED
      BY <3>1, <3>2
  <2>7. \A p \in (stored' \cap Pictures) \ astray' :
            p = picture \/ \E b \in FileActs : p \in actor'[b].files \/ p = actor'[b].old
    BY <1>2, <2>1 DEF FilesInv, PicturesMatch
  <2> QED
    BY <1>2, <2>4, <2>5, <2>6, <2>7 DEF PicturesMatch
<1> QED
  BY <1>9, <1>10, <1>11, <1>12, <1>13, <1>14, <1>15 DEF FilesInv

-----------------------------------------------------------------------------
\* The rows that go: with a job, all it has by now.
Gone(a) == IF actor[a].op = "remove" THEN Rows ELSE actor[a].rows
Drops(a, r) ==
    /\ actor[a].pc = "drop" /\ (Erasing(actor[a]) \/ Cleaning(actor[a]))
    /\ actor' \in [FileActs -> ActorType] /\ actor'[a] = r
    /\ \A b \in FileActs \ {a} : actor'[b] = actor[b]
    /\ UNCHANGED <<fileLoad, stored, picture, shared>>
    /\ export' \in [ExportIds -> ExportType]
    /\ \A e \in ExportIds : export'[e].type = export[e].type
    /\ \A e \in ExportIds : export'[e].status = "none" => export[e].status = "none"
    /\ Rows' = Rows \ Gone(a)
    /\ job' \in [deleted : BOOLEAN, report : BOOLEAN] /\ job'.report = job.report
    /\ job'.deleted = (job.deleted \/ actor[a].op = "remove")
    /\ astray \subseteq astray' /\ astray' \subseteq Files
    /\ \A e \in Gone(a) \ actor[a].rows : export[e].type \in astray'
    /\ actor[a].op = "remove" /\ job.report /\ Report \in stored => Report \in astray'
    /\ IF Erasing(actor[a]) THEN r = NoActor
       ELSE /\ Cleaning(r) /\ r.pc = "unlink" /\ r.op = actor[a].op
            /\ r.rows = actor[a].rows /\ r.files = actor[a].files

LEMMA DropDrops ==
    ASSUME FilesInv, NEW a \in FileActs, Drop(a)
    PROVE  \E r \in ActorType : Drops(a, r)
<1> DEFINE gone == Gone(a)
           new == FilesOf(gone \ actor[a].rows) \cup
                     (IF actor[a].op = "remove" /\ job.report THEN {Report} \cap stored ELSE {})
<1>1. /\ actor \in [FileActs -> ActorType] /\ actor[a].pc = "drop"
      /\ UNCHANGED <<fileLoad, stored, picture, shared>>
      /\ export \in [ExportIds -> ExportType] /\ stored \subseteq Files /\ astray \subseteq Files
      /\ job \in [deleted : BOOLEAN, report : BOOLEAN]
  BY DEF Drop, FilesInv, FilesTypeOK
<1>2. /\ Erasing(actor[a]) \/ Cleaning(actor[a])
      /\ \A e \in actor[a].rows : export[e].status # "none"
  BY <1>1, NoActorShape DEF FilesInv, ShapesOK, WritingExport, WritingReport, Uploading, Deleting
<1>3. /\ export' = [e \in ExportIds |->
            IF e \in gone THEN [export[e] EXCEPT !.status = "gone"] ELSE export[e]]
      /\ job' = (IF actor[a].op = "remove" THEN [job EXCEPT !.deleted = TRUE] ELSE job)
      /\ astray' = astray \cup new
  BY DEF Drop, Gone
<1>4. /\ gone \subseteq ExportIds /\ \A e \in gone : export[e].status # "none"
  BY <1>1, <1>2 DEF Gone, Rows, ActorType
<1>5. /\ export' \in [ExportIds -> ExportType]
      /\ \A e \in ExportIds : export'[e].type = export[e].type
      /\ \A e \in ExportIds : IF e \in gone THEN export'[e].status = "gone"
                              ELSE export'[e].status = export[e].status
  <2>1. \A e \in ExportIds : /\ [export[e] EXCEPT !.status = "gone"] \in ExportType
                             /\ [export[e] EXCEPT !.status = "gone"].type = export[e].type
                             /\ [export[e] EXCEPT !.status = "gone"].status = "gone"
    BY <1>1 DEF ExportType
  <2> QED
    BY <1>1, <1>3, <2>1
<1>6. /\ Rows' = Rows \ gone
      /\ \A e \in ExportIds : export'[e].status = "none" => export[e].status = "none"
  BY <1>4, <1>5 DEF Rows
<1>7. /\ job' \in [deleted : BOOLEAN, report : BOOLEAN] /\ job'.report = job.report
      /\ job'.deleted = (job.deleted \/ actor[a].op = "remove")
  BY <1>1, <1>3
<1>8. /\ FilesOf(gone \ actor[a].rows) \subseteq Types
      /\ \A e \in gone \ actor[a].rows : export[e].type \in FilesOf(gone \ actor[a].rows)
  BY <1>1, <1>4 DEF FilesOf, ExportType
<1> HIDE DEF gone
<1>9. /\ astray \subseteq astray' /\ astray' \subseteq Files
      /\ \A e \in gone \ actor[a].rows : export[e].type \in astray'
      /\ actor[a].op = "remove" /\ job.report /\ Report \in stored => Report \in astray'
  BY <1>1, <1>3, <1>8 DEF Files
<1>10. CASE Erasing(actor[a])
  <2>1. Done(a)
    BY <1>10 DEF Drop, Erasing
  <2>2. Becomes(a, NoActor)
    BY <1>1, <2>1, IsDone
  <2>3. Drops(a, NoActor)
    BY <1>1, <1>2, <1>5, <1>6, <1>7, <1>9, <1>10, <2>2 DEF Drops, Becomes, gone
  <2> QED
    BY <2>3, NoActorShape
<1>11. CASE Cleaning(actor[a])
  <2> DEFINE r == At(actor[a], "unlink")
  <2>1. GoTo(a, "unlink")
    BY <1>11 DEF Drop, Cleaning
  <2>2. /\ Becomes(a, r) /\ r.pc = "unlink" /\ r.op = actor[a].op /\ r.rows = actor[a].rows
        /\ r.files = actor[a].files /\ r.old = actor[a].old /\ r \in ActorType
    BY <1>1, <2>1, GoesTo, AtPlace
  <2> HIDE DEF r
  <2>3. Cleaning(r) /\ ~Erasing(actor[a])
    BY <1>11, <2>2 DEF Cleaning, Erasing
  <2>4. Drops(a, r)
    BY <1>1, <1>2, <1>5, <1>6, <1>7, <1>9, <2>2, <2>3 DEF Drops, Becomes, gone
  <2> QED
    BY <2>2, <2>4
<1> QED
  BY <1>2, <1>10, <1>11

LEMMA DropKeeps ==
    ASSUME FilesInv, NEW a \in FileActs, Drop(a)
    PROVE  FilesInv'
<1>1. PICK r \in ActorType : Drops(a, r)
  BY DropDrops
<1>2. /\ actor[a].pc = "drop" /\ (Erasing(actor[a]) \/ Cleaning(actor[a]))
      /\ actor' \in [FileActs -> ActorType] /\ actor'[a] = r
      /\ \A b \in FileActs \ {a} : actor'[b] = actor[b]
      /\ UNCHANGED <<fileLoad, stored, picture, shared>>
  BY <1>1 DEF Drops
<1>3. /\ export' \in [ExportIds -> ExportType] /\ Rows' = Rows \ Gone(a)
      /\ \A e \in ExportIds : export'[e].type = export[e].type
      /\ \A e \in ExportIds : export'[e].status = "none" => export[e].status = "none"
      /\ \A e \in Rows : e \in ExportIds
      /\ \A e \in Rows' : e \in Rows /\ e \notin actor[a].rows
  BY <1>1 DEF Drops, Gone, Rows
<1>4. /\ job' \in [deleted : BOOLEAN, report : BOOLEAN] /\ job'.report = job.report
      /\ job'.deleted = (job.deleted \/ actor[a].op = "remove")
      /\ astray \subseteq astray' /\ astray' \subseteq Files
      /\ \A e \in Gone(a) \ actor[a].rows : export[e].type \in astray'
      /\ actor[a].op = "remove" /\ job.report /\ Report \in stored => Report \in astray'
  BY <1>1 DEF Drops
<1>5. /\ Erasing(actor[a]) => r = NoActor
      /\ ~Erasing(actor[a]) => /\ Cleaning(r) /\ r.pc = "unlink" /\ r.op = actor[a].op
                               /\ r.rows = actor[a].rows /\ r.files = actor[a].files
  BY <1>1 DEF Drops
<1>6. /\ \A e \in actor[a].rows : export[e].status # "none" /\ export[e].type \in actor[a].files
      /\ Report \in actor[a].files => job.report
      /\ Deleting(actor[a])
  BY <1>2, NoActorShape DEF FilesInv, ShapesOK, WritingExport, WritingReport, Uploading, Deleting
<1>7. actor[a].old = NoPicture /\ actor[a].files \cap Pictures = {}
  BY <1>2, StoredFilesConstants DEF Erasing, Cleaning
<1>8. /\ ~Deleting(NoActor) /\ NoActor.pc = "idle" /\ NoActor.files = {}
      /\ NoActor.old = NoPicture
  BY NoActorShape DEF Deleting, Erasing, Cleaning
<1>9. /\ ~Wrote(a)' /\ Blamed \subseteq Blamed' /\ astray' \subseteq Blamed'
      /\ \A b \in FileActs \ {a} : Wrote(b)' <=> Wrote(b)
  BY <1>2, <1>4, <1>5, <1>8 DEF Wrote, Blamed
<1>10. FilesTypeOK'
  BY <1>2, <1>3, <1>4 DEF FilesInv, FilesTypeOK
<1>11. ShapesOK'
  <2>1. ASSUME NEW b \in FileActs \ {a}, NEW e \in actor[b].rows
        PROVE  e \in ExportIds
    BY <2>1 DEF FilesInv, FilesTypeOK, ActorType
  <2>2. \A e \in actor[a].rows : e \in ExportIds /\ e \notin Rows'
    BY <1>3 DEF FilesInv, FilesTypeOK, ActorType
  <2>3. Rows' \subseteq Rows
    BY <1>3
  <2>4. \/ r = NoActor
        \/ /\ Deleting(r)
           /\ \A e \in r.rows : export'[e].status # "none" /\ export'[e].type \in r.files
           /\ Report \in r.files => job'.report
           /\ Cleaning(r) /\ r.pc = "unlink" => r.rows \cap Rows' = {}
    BY <1>3, <1>4, <1>5, <1>6, <2>2 DEF Deleting
  <2> QED
    BY <1>2, <1>3, <1>4, <2>1, <2>3, <2>4 DEF FilesInv, ShapesOK
<1>12. NamesApart'
  <2>1. Deleting(r) => r.rows = actor[a].rows /\ r.files = actor[a].files
    BY <1>5, <1>8
  <2>2. \A e, f \in Rows' :
          e # f /\ export'[e].type = export'[f].type => export'[e].type \in Blamed'
    BY <1>3, <1>9 DEF FilesInv, NamesApart
  <2>3. ASSUME NEW b \in FileActs, NEW e \in Rows', export'[e].type \in actor'[b].files \ Blamed'
        PROVE  ~Wrote(b)' /\ (Deleting(actor'[b]) => e \in actor'[b].rows)
    BY <1>2, <1>3, <1>5, <1>6, <1>8, <1>9, <2>1, <2>3 DEF FilesInv, NamesApart
  <2>4. \A b, c \in FileActs : b # c /\ Wrote(b)' /\ (Wrote(c)' \/ Deleting(actor'[c])) =>
            actor'[b].files \cap actor'[c].files \subseteq Blamed'
    BY <1>2, <1>6, <1>9, <2>1 DEF FilesInv, NamesApart
  <2> QED
    BY <2>2, <2>3, <2>4 DEF NamesApart
<1>13. WrittenStay'
  <2>1. \A e \in Rows' : Removing(e) => Removing(e)'
    BY <1>2, <1>3 DEF Removing
  <2> QED
    BY <1>2, <1>3, <1>9, <2>1 DEF FilesInv, WrittenStay
<1>14. TypesHaveRows'
  <2>1. ASSUME NEW e \in ExportIds, Lasting(e), export[e].type \notin astray'
        PROVE  Lasting(e)' \/ Holds(a, export[e].type)'
    <3>1. CASE e \in Gone(a)
      <4>1. e \in actor[a].rows
        BY <1>4, <2>1, <3>1
      <4>2. ~Erasing(actor[a])
        BY <1>2, <2>1, <4>1 DEF Lasting
      <4> QED
        BY <1>2, <1>3, <1>5, <1>6, <4>1, <4>2 DEF Holds
    <3>2. CASE e \notin Gone(a)
      <4>1. ~Erasing(r) \/ r.pc # "drop"
        BY <1>5, <1>8
      <4> QED
        BY <1>2, <1>3, <2>1, <3>2, <4>1 DEF Lasting
    <3> QED
      BY <3>1, <3>2
  <2>2. ASSUME NEW b \in FileActs, NEW t \in Types, Holds(b, t)
        PROVE  Holds(b, t)'
    <3>1. CASE b = a
      <4>1. Cleaning(actor[a]) /\ t \in actor[a].files
        BY <1>2, <2>2, <3>1 DEF Holds
      <4>2. ~Erasing(actor[a])
        BY <4>1 DEF Erasing, Cleaning
      <4> QED
        BY <1>2, <1>5, <3>1, <4>1, <4>2 DEF Holds
    <3>2. CASE b # a
      BY <1>2, <2>2, <3>2 DEF Holds
    <3> QED
      BY <3>1, <3>2
  <2> QED
    BY <1>2, <1>3, <1>4, <2>1, <2>2 DEF FilesInv, TypesHaveRows
<1>15. ReportsMatch'
  <2>1. actor[a].op # "remove" => Report \notin actor[a].files
    BY <1>2, StoredFilesConstants DEF Erasing, Cleaning
  <2>2. ASSUME Report \in stored \ astray'
        PROVE  (job'.report /\ ~job'.deleted) \/ \E b \in FileActs : Report \in actor'[b].files
    BY <1>2, <1>4, <1>6, <2>1, <2>2 DEF FilesInv, ReportsMatch
  <2>3. \A b \in FileActs : actor'[b].op = "compare" /\ actor'[b].pc = "record" =>
            actor[b].op = "compare" /\ actor[b].pc = "record"
    BY <1>2, <1>5, <1>8
  <2>4. (job.report \/ \E b \in FileActs : actor[b].op = "compare" /\ actor[b].pc = "record") =>
           \/ job'.deleted \/ Report \in stored \cup astray'
           \/ \E b \in FileActs : actor'[b].pc = "drop" /\ Report \in actor'[b].files
    BY <1>2, <1>4, <2>1 DEF FilesInv, ReportsMatch
  <2> QED
    BY <1>2, <1>4, <2>2, <2>3, <2>4 DEF ReportsMatch
<1>16. PicturesMatch'
  <2>1. r.files \cap Pictures = {} /\ r.pc # "record" /\ r.old = NoPicture
    BY <1>5, <1>7, <1>8 DEF Cleaning
  <2>2. \A b \in FileActs : \A p \in actor'[b].files \cap Pictures :
          /\ p # picture
          /\ \A c \in FileActs : p # actor'[c].old /\ (b # c => p \notin actor'[c].files)
          /\ actor'[b].pc # "write" => p \in stored
    BY <1>2, <2>1, StoredFilesConstants DEF FilesInv, PicturesMatch
  <2>3. /\ \A b \in FileActs : actor'[b].pc = "record" =>
              actor'[b].old \notin (stored \cap Pictures) \ astray'
        /\ picture \notin stored \cup astray' \cup {NoPicture} =>
              \E b \in FileActs : picture = actor'[b].old
        /\ \A p \in (stored \cap Pictures) \ astray' :
              p = picture \/ \E b \in FileActs : p \in actor'[b].files \/ p = actor'[b].old
    BY <1>2, <1>4, <1>7, <2>1, StoredFilesConstants DEF FilesInv, PicturesMatch
  <2> QED
    BY <1>2, <2>2, <2>3 DEF PicturesMatch
<1> QED
  BY <1>10, <1>11, <1>12, <1>13, <1>14, <1>15, <1>16 DEF FilesInv

-----------------------------------------------------------------------------
LEMMA FilesStart == FilesInit => FilesInv
<1> SUFFICES ASSUME FilesInit
             PROVE  FilesInv
  OBVIOUS
<1>1. FilesTypeOK
  BY NoActorShape, StoredFilesConstants DEF FilesInit, FilesTypeOK, ExportType
<1>2. /\ Rows = {} /\ stored = {} /\ ~job.report /\ picture = NoPicture
      /\ \A a \in FileActs : actor[a] = NoActor
  BY DEF FilesInit, Rows
<1>3. ShapesOK /\ WrittenStay /\ TypesHaveRows /\ ReportsMatch
  BY <1>2, NoActorShape DEF ShapesOK, WrittenStay, Wrote, TypesHaveRows, ReportsMatch
<1>4. NamesApart /\ PicturesMatch
  BY <1>2, NoActorShape DEF NamesApart, Wrote, PicturesMatch
<1> QED
  BY <1>1, <1>3, <1>4 DEF FilesInv

LEMMA FilesStep == FilesInv /\ [FilesNext]_fileVars => FilesInv'
<1> SUFFICES ASSUME FilesInv, [FilesNext]_fileVars
             PROVE  FilesInv'
  OBVIOUS
<1>1. FilesTypeOK
  BY DEF FilesInv
<1>2. ASSUME NEW a \in FileActs, NEW r \in ActorType, Begun(a, r)
      PROVE  FilesInv'
  BY <1>2, BegunKeepsNames, BegunKeepsFiles, BegunKeepsPictures DEF FilesInv
<1>3. ASSUME NEW a \in FileActs,
             \/ \E type \in Types : Request(a, type)
             \/ RequestZip(a) \/ Compare(a)
      PROVE  FilesInv'
  BY <1>1, <1>2, <1>3, StartingBegins
<1>4. ASSUME NEW a \in FileActs,
             \/ RemoveJob(a)
             \/ \E e \in ExportIds : DeleteExport(a, e)
             \/ \E rows \in SUBSET ExportIds : FindOld(a, rows)
      PROVE  FilesInv'
  BY <1>1, <1>2, <1>4, DeletingBegins
<1>5. ASSUME NEW a \in FileActs, Upload(a)
      PROVE  FilesInv'
  BY <1>1, <1>2, <1>5, UploadBegins
<1>6. ASSUME NEW a \in FileActs, WriteFile(a)
      PROVE  FilesInv'
  BY <1>6, WriteKeepsNames, WriteKeepsFiles DEF FilesInv
<1>7. CASE UNCHANGED fileVars
  BY <1>7 DEF fileVars, FilesInv, FilesTypeOK, ShapesOK, NamesApart, WrittenStay, TypesHaveRows,
              ReportsMatch, PicturesMatch, Rows, Blamed, Wrote, Removing, Lasting, Holds
<1> QED
  BY <1>3, <1>4, <1>5, <1>6, <1>7, InsertKeeps, CompleteKeeps, RecordReportKeeps,
     RecordPictureKeeps, UnlinkKeeps, DropKeeps, AbortKeeps DEF FilesNext

LEMMA FilesInvMatches == FilesInv => FilesMatchRows
<1> SUFFICES ASSUME FilesInv
             PROVE  FilesMatchRows
  OBVIOUS
<1>1. RowsHaveFiles
  BY DEF FilesInv, WrittenStay, ReportsMatch, PicturesMatch, Blamed, RowsHaveFiles
<1>2. ASSUME NEW t \in (stored \cap Types) \ astray
      PROVE  t \in FilesOf(Rows) \/ \E a \in FileActs : t \in actor[a].files
  BY DEF FilesInv, TypesHaveRows, Lasting, Holds, FilesOf
<1>3. stored \subseteq Types \cup Pictures \cup {Report}
  BY DEF FilesInv, FilesTypeOK, Files
<1>4. FilesHaveRows
  BY <1>2, <1>3 DEF FilesInv, ReportsMatch, PicturesMatch, FilesHaveRows
<1> QED
  BY <1>1, <1>4 DEF FilesMatchRows

\* The files of exports, reports and pictures and the rows that name them agree at every
\* instant, but for a deletion under way, names that two exports shared and files that a
\* failure or an overlap is to blame for (generate, delete of exports and jobs, the clean-up,
\* updateDiffReport and uploadAvatar), for any number of handlers, types and rows.
THEOREM FilesAndRows == FilesSpec => []FilesMatchRows
<1>1. FilesInit => FilesInv
  BY FilesStart
<1>2. FilesInv /\ [FilesNext]_fileVars => FilesInv'
  BY FilesStep
<1> QED
  BY <1>1, <1>2, FilesInvMatches, PTL DEF FilesSpec

-----------------------------------------------------------------------------
(* What the processes keep in memory *)

\* A handler execution has changed k, and has yet to say so.
Tells(r, k) ==
    /\ k \in (IF r.op = "sync" THEN Defaults ELSE {r.key}) /\ r.op # "forget"
    /\ r.pc = "tell" \/ (r.op = "sync" /\ r.pc = "write")
Pending(k) == \E a \in CacheActs : Tells(ask[a], k)

\* Why process n may have an entry of k, or the list of settings, that is out of date.
Excused(n, k) == k \in news[n] \/ Pending(k) \/ k \in untold \/ ~Hears(n, k)
ListExcused(n) == \E k \in Settings : k \in news[n] \/ Pending(k) \/ k \in untold

\* Only the processes of the behaviour have something in memory, and only servers the list;
\* the end of a crawl only tells.
Homes ==
    /\ \A n \in Nodes, k \in Keys : kept[n][k].on => n \in cacheLoad.nodes
    /\ \A n \in Nodes : shown[n].on => n \in cacheLoad.nodes \cap Servers
    /\ \A a \in CacheActs : ask[a].pc # "idle" =>
          /\ ask[a].home \in cacheLoad.nodes
          /\ ask[a].op = "list" => ask[a].home \in Servers
    /\ \A a \in CacheActs : ask[a].op = "forget" => ask[a].pc = "tell"

KeptCurrent ==
    \A n \in Nodes, k \in Keys :
       kept[n][k].on /\ kept[n][k].row # row[k] => kept[n][k].late \/ Excused(n, k)
ShownCurrent ==
    \A n \in Nodes :
       shown[n].on /\ shown[n].public # Public(row) => shown[n].late \/ ListExcused(n)

\* What a query has answered is as current as what is in memory, for it will be.
AnswersCurrent ==
    \A a \in CacheActs, n \in Nodes :
       ask[a].pc = "fill" /\ ~ask[a].late /\ ask[a].home = n =>
          /\ \A k \in Keys : ask[a].op = "get" /\ ask[a].key = k /\ ask[a].got # row[k] =>
                Excused(n, k)
          /\ ask[a].op = "list" /\ ask[a].public # Public(row) => ListExcused(n)

CachesInv ==
    /\ CachesTypeOK /\ Homes /\ KeptCurrent /\ ShownCurrent /\ AnswersCurrent

\* The execution of an action becomes r, the others stay.
Asked(a, r) ==
    /\ r \in AskType /\ ask' \in [CacheActs -> AskType] /\ ask'[a] = r
    /\ \A b \in CacheActs \ {a} : ask'[b] = ask[b]

LEMMA AskedNew ==
    ASSUME ask \in [CacheActs -> AskType], NEW a \in CacheActs, NEW r \in AskType,
           ask' = [ask EXCEPT ![a] = r]
    PROVE  Asked(a, r)
BY DEF Asked

LEMMA NoAskShape ==
    /\ NoAsk \in AskType /\ NoAsk.pc = "idle" /\ NoAsk.op = "get"
    /\ NoAsk.got = NoRow /\ NoAsk.public = {} /\ ~NoAsk.late /\ NoAsk.rest = {}
<1>1. (CHOOSE n \in Nodes : TRUE) \in Nodes /\ (CHOOSE k \in Keys : TRUE) \in Keys
  BY CacheConstants
<1>2. NoRow \in RowType /\ {} \in PublicType /\ "get" \in CacheOps /\ {} \in SUBSET Defaults
  BY DEF NoRow, RowType, PublicType, CacheOps
<1> QED
  BY <1>1, <1>2 DEF NoAsk, AskType

LEMMA IsAnswered ==
    ASSUME ask \in [CacheActs -> AskType], NEW a \in CacheActs, Answered(a)
    PROVE  Asked(a, NoAsk)
BY NoAskShape, AskedNew DEF Answered

\* Another place of the same execution, and one that has read a row.
PlacedAt(r, pc) == [r EXCEPT !.pc = pc]
Found(r, row1) == [r EXCEPT !.pc = "write", !.got = row1]
LEMMA PlacedShape ==
    ASSUME NEW r \in AskType, NEW pc \in {"idle", "fetch", "fill", "find", "write", "tell"}
    PROVE  /\ PlacedAt(r, pc) \in AskType /\ PlacedAt(r, pc).pc = pc /\ PlacedAt(r, pc).op = r.op
           /\ PlacedAt(r, pc).home = r.home /\ PlacedAt(r, pc).key = r.key
           /\ PlacedAt(r, pc).rest = r.rest
BY DEF PlacedAt, AskType
LEMMA FoundShape ==
    ASSUME NEW r \in AskType, NEW row1 \in RowType
    PROVE  /\ Found(r, row1) \in AskType /\ Found(r, row1).pc = "write"
           /\ Found(r, row1).op = r.op /\ Found(r, row1).home = r.home
           /\ Found(r, row1).key = r.key
BY DEF Found, AskType

LEMMA AsksPlaced ==
    ASSUME ask \in [CacheActs -> AskType], NEW a \in CacheActs,
           NEW pc \in {"idle", "fetch", "fill", "find", "write", "tell"}, Asks(a, pc)
    PROVE  Asked(a, PlacedAt(ask[a], pc))
<1>1. PlacedAt(ask[a], pc) \in AskType
  BY PlacedShape
<1>2. ask' = [ask EXCEPT ![a] = PlacedAt(ask[a], pc)]
  BY DEF Asks, PlacedAt
<1> QED
  BY <1>1, <1>2, AskedNew

\* The list depends on the settings only.
LEMMA PublicOf ==
    ASSUME NEW r, NEW s, \A k \in Settings : r[k] = s[k]
    PROVE  Public(r) = Public(s)
BY DEF Public

LEMMA PublicTyped ==
    ASSUME NEW r \in [Keys -> RowType]
    PROVE  Public(r) \in PublicType
<1>1. \A k \in Settings : r[k].value \in BOOLEAN
  BY DEF Keys, RowType
<1> QED
  BY <1>1 DEF Public, PublicType

\* What is excused stays so while nothing that was to be told is forgotten.
LEMMA ExcusesStay ==
    ASSUME \A k \in Keys : Pending(k) => Pending(k)', news' = news, untold \subseteq untold'
    PROVE  /\ \A n \in Nodes, k \in Keys : Excused(n, k) => Excused(n, k)'
           /\ \A n \in Nodes : ListExcused(n) => ListExcused(n)'
BY DEF Excused, ListExcused, Hears, Keys

LEMMA PendingStays ==
    ASSUME NEW a \in CacheActs, NEW r \in AskType, Asked(a, r),
           \A k \in Keys : Tells(ask[a], k) => Tells(r, k)
    PROVE  \A k \in Keys : Pending(k) => Pending(k)'
BY DEF Pending, Asked

-----------------------------------------------------------------------------
\* Nothing but an execution changes, which keeps what it has to tell.
Goes(a, r) ==
    /\ Asked(a, r) /\ UNCHANGED <<cacheLoad, row, kept, shown, news, untold>>
    /\ \A k \in Keys : Tells(ask[a], k) => Tells(r, k)
    /\ r.pc # "idle" => /\ r.home \in cacheLoad.nodes
                        /\ r.op = "list" => r.home \in Servers
    /\ r.op = "forget" => r.pc = "tell"
    /\ r.pc = "fill" => /\ r.op = "get" => r.got = row[r.key]
                        /\ r.op = "list" => r.public = Public(row)

LEMMA GoesKeeps ==
    ASSUME CachesInv, NEW a \in CacheActs, NEW r \in AskType, Goes(a, r)
    PROVE  CachesInv'
<1>1. /\ ask' \in [CacheActs -> AskType] /\ ask'[a] = r
      /\ \A b \in CacheActs \ {a} : ask'[b] = ask[b]
      /\ UNCHANGED <<cacheLoad, row, kept, shown, news, untold>>
  BY DEF Goes, Asked
<1>2. \A k \in Keys : Pending(k) => Pending(k)'
  BY PendingStays DEF Goes
<1>3. /\ \A n \in Nodes, k \in Keys : Excused(n, k) => Excused(n, k)'
      /\ \A n \in Nodes : ListExcused(n) => ListExcused(n)'
  BY <1>1, <1>2, ExcusesStay
<1>4. CachesTypeOK'
  BY <1>1 DEF CachesInv, CachesTypeOK
<1>5. Homes'
  BY <1>1 DEF CachesInv, Homes, Goes
<1>6. KeptCurrent' /\ ShownCurrent'
  BY <1>1, <1>3 DEF CachesInv, KeptCurrent, ShownCurrent
<1>7. AnswersCurrent'
  BY <1>1, <1>3 DEF CachesInv, AnswersCurrent, Goes
<1> QED
  BY <1>4, <1>5, <1>6, <1>7 DEF CachesInv

\* How an execution begins, or has an answer.
ReadAsk(x, n, k) == [x EXCEPT !.pc = "fetch", !.home = n, !.key = k]
ListAsk(x, n) == [x EXCEPT !.pc = "fetch", !.op = "list", !.home = n]
ChangeAsk(x, pc, op, n, k, rest) ==
    [x EXCEPT !.pc = pc, !.op = op, !.home = n, !.key = k, !.rest = rest]
FetchedAsk(x, got, public) == [x EXCEPT !.pc = "fill", !.got = got, !.public = public]

LEMMA ReadAskShape ==
    ASSUME NEW x \in AskType, NEW n \in Nodes, NEW k \in Keys
    PROVE  /\ ReadAsk(x, n, k) \in AskType /\ ReadAsk(x, n, k).pc = "fetch"
           /\ ReadAsk(x, n, k).home = n /\ ReadAsk(x, n, k).op = x.op
BY DEF ReadAsk, AskType
LEMMA ListAskShape ==
    ASSUME NEW x \in AskType, NEW n \in Nodes
    PROVE  /\ ListAsk(x, n) \in AskType /\ ListAsk(x, n).pc = "fetch"
           /\ ListAsk(x, n).home = n /\ ListAsk(x, n).op = "list"
BY DEF ListAsk, AskType, CacheOps
LEMMA ChangeAskShape ==
    ASSUME NEW x \in AskType, NEW pc \in {"tell", "write", "find"}, NEW op \in CacheOps,
           NEW n \in Nodes, NEW k \in Keys, NEW rest \in SUBSET Defaults
    PROVE  LET r == ChangeAsk(x, pc, op, n, k, rest)
           IN  r \in AskType /\ r.pc = pc /\ r.op = op /\ r.home = n
BY DEF ChangeAsk, AskType
LEMMA FetchedAskShape ==
    ASSUME NEW x \in AskType, NEW got \in RowType, NEW public \in PublicType
    PROVE  LET r == FetchedAsk(x, got, public)
           IN  /\ r \in AskType /\ r.pc = "fill" /\ r.op = x.op /\ r.home = x.home
               /\ r.key = x.key /\ r.got = got /\ r.public = public
BY DEF FetchedAsk, AskType

LEMMA Untelling ==
    ASSUME NEW r, r.pc \notin {"tell", "write"}
    PROVE  \A k \in Keys : ~Tells(r, k)
BY DEF Tells

LEMMA ReadKeeps ==
    ASSUME CachesInv, NEW a \in CacheActs, NEW n \in Nodes,
           ReadList(a, n) \/ \E k \in Keys : Read(a, n, k)
    PROVE  CachesInv'
<1>1. ask \in [CacheActs -> AskType]
  BY DEF CachesInv, CachesTypeOK
<1>2. ASSUME NEW k \in Keys, Read(a, n, k)
      PROVE  CachesInv'
  <2> DEFINE r == ReadAsk(NoAsk, n, k)
  <2>1. r \in AskType /\ r.pc = "fetch" /\ r.home = n /\ r.op = "get"
    BY NoAskShape, ReadAskShape
  <2>2. ask' = [ask EXCEPT ![a] = r]
    BY <1>2 DEF Read, ReadAsk
  <2> HIDE DEF r
  <2>3. Asked(a, r)
    BY <1>1, <2>1, <2>2, AskedNew
  <2>4. \A j \in Keys : ~Tells(ask[a], j)
    BY <1>2, Untelling DEF Read
  <2>5. Goes(a, r)
    BY <1>2, <2>1, <2>3, <2>4 DEF Goes, Read
  <2> QED
    BY <2>1, <2>5, GoesKeeps
<1>3. ASSUME ReadList(a, n)
      PROVE  CachesInv'
  <2> DEFINE r == ListAsk(NoAsk, n)
  <2>1. r \in AskType /\ r.pc = "fetch" /\ r.home = n /\ r.op = "list"
    BY NoAskShape, ListAskShape
  <2>2. ask' = [ask EXCEPT ![a] = r]
    BY <1>3 DEF ReadList, ListAsk
  <2> HIDE DEF r
  <2>3. Asked(a, r)
    BY <1>1, <2>1, <2>2, AskedNew
  <2>4. \A j \in Keys : ~Tells(ask[a], j)
    BY <1>3, Untelling DEF ReadList
  <2>5. Goes(a, r)
    BY <1>3, <2>1, <2>3, <2>4 DEF Goes, ReadList
  <2> QED
    BY <2>1, <2>5, GoesKeeps
<1> QED
  BY <1>2, <1>3

LEMMA FetchKeeps ==
    ASSUME CachesInv, NEW a \in CacheActs, Fetch(a)
    PROVE  CachesInv'
<1> DEFINE public == IF ask[a].op = "list" THEN Public(row) ELSE {}
           r == FetchedAsk(ask[a], row[ask[a].key], public)
<1>1. /\ ask \in [CacheActs -> AskType] /\ ask[a] \in AskType /\ row \in [Keys -> RowType]
      /\ ask[a].key \in Keys
  BY DEF CachesInv, CachesTypeOK, AskType
<1>2. public \in PublicType /\ row[ask[a].key] \in RowType
  BY <1>1, PublicTyped DEF PublicType
<1>3. ask' = [ask EXCEPT ![a] = r]
  BY DEF Fetch, FetchedAsk
<1>4. ask[a].op = "list" => public = Public(row)
  OBVIOUS
<1> HIDE DEF public
<1>5. /\ r \in AskType /\ r.pc = "fill" /\ r.op = ask[a].op /\ r.home = ask[a].home
      /\ r.key = ask[a].key /\ r.got = row[ask[a].key] /\ r.public = public
  BY <1>1, <1>2, FetchedAskShape
<1> HIDE DEF r
<1>6. Asked(a, r)
  BY <1>1, <1>3, <1>5, AskedNew
<1>7. \A j \in Keys : ~Tells(ask[a], j)
  BY Untelling DEF Fetch
<1>8. /\ ask[a].home \in cacheLoad.nodes
      /\ ask[a].op = "list" => ask[a].home \in Servers
      /\ ask[a].op # "forget"
  BY DEF Fetch, CachesInv, Homes
<1>9. Goes(a, r)
  BY <1>4, <1>5, <1>6, <1>7, <1>8 DEF Goes, Fetch
<1> QED
  BY <1>5, <1>9, GoesKeeps

LEMMA ChangeKeeps ==
    ASSUME CachesInv, NEW a \in CacheActs, NEW op \in CacheOps, NEW n \in Nodes, NEW k \in Keys,
           Change(a, op, n, k)
    PROVE  CachesInv'
<1> DEFINE pc == CASE op = "forget" -> "tell"
                   [] op = "sync" \/ (op = "create" /\ k \in Templates) -> "write"
                   [] OTHER -> "find"
           rest == IF op = "sync" THEN Defaults ELSE {}
           r == ChangeAsk(NoAsk, pc, op, n, k, rest)
<1>1. ask \in [CacheActs -> AskType]
  BY DEF CachesInv, CachesTypeOK
<1>2. pc \in {"tell", "write", "find"} /\ rest \in SUBSET Defaults
  OBVIOUS
<1>3. ask' = [ask EXCEPT ![a] = r]
  BY DEF Change, ChangeAsk
<1>4. op = "forget" => pc = "tell"
  OBVIOUS
<1> HIDE DEF pc, rest
<1>5. r \in AskType /\ r.pc = pc /\ r.op = op /\ r.home = n
  BY <1>2, NoAskShape, ChangeAskShape
<1> HIDE DEF r
<1>6. Asked(a, r)
  BY <1>1, <1>3, <1>5, AskedNew
<1>7. \A j \in Keys : ~Tells(ask[a], j)
  BY Untelling DEF Change
<1>8. Goes(a, r)
  BY <1>2, <1>4, <1>5, <1>6, <1>7 DEF Goes, Change
<1> QED
  BY <1>5, <1>8, GoesKeeps

LEMMA FindKeeps ==
    ASSUME CachesInv, NEW a \in CacheActs, Find(a)
    PROVE  CachesInv'
<1>1. /\ ask \in [CacheActs -> AskType] /\ ask[a] \in AskType /\ row[ask[a].key] \in RowType
  BY DEF CachesInv, CachesTypeOK, AskType
<1>2. \A j \in Keys : ~Tells(ask[a], j)
  BY Untelling DEF Find
<1>3. /\ ask[a].home \in cacheLoad.nodes
      /\ ask[a].op = "list" => ask[a].home \in Servers
      /\ ask[a].op # "forget"
  BY DEF Find, CachesInv, Homes
<1>4. CASE row[ask[a].key].there = (ask[a].op # "create")
  <2> DEFINE r == Found(ask[a], row[ask[a].key])
  <2>1. r \in AskType /\ r.pc = "write" /\ r.op = ask[a].op /\ r.home = ask[a].home
    BY <1>1, FoundShape
  <2>2. ask' = [ask EXCEPT ![a] = r]
    BY <1>4 DEF Find, Found
  <2> HIDE DEF r
  <2>3. Asked(a, r)
    BY <1>1, <2>1, <2>2, AskedNew
  <2>4. Goes(a, r)
    BY <1>2, <1>3, <2>1, <2>3 DEF Goes, Find
  <2> QED
    BY <2>1, <2>4, GoesKeeps
<1>5. CASE row[ask[a].key].there # (ask[a].op # "create")
  <2>1. Asked(a, NoAsk)
    BY <1>1, <1>5, IsAnswered DEF Find
  <2>2. Goes(a, NoAsk)
    BY <1>2, <2>1, NoAskShape DEF Goes, Find
  <2> QED
    BY <2>2, NoAskShape, GoesKeeps
<1> QED
  BY <1>4, <1>5

-----------------------------------------------------------------------------
\* Rows change while all of them are to be told, or are known to be untold.
Rewrites(a, r, keys) ==
    /\ keys \subseteq Keys /\ row' \in [Keys -> RowType]
    /\ \A k \in Keys \ keys : row'[k] = row[k]
    /\ \A k \in keys : Tells(r, k)
    /\ Asked(a, r) /\ UNCHANGED <<cacheLoad, kept, shown, news, untold>>
    /\ \A k \in Keys : Tells(ask[a], k) => Tells(r, k)
    /\ r.pc \in {"write", "tell"} /\ r.home = ask[a].home /\ r.op = ask[a].op
    /\ ask[a].pc # "idle" /\ ask[a].op # "forget"

LEMMA ListUnchanged ==
    ASSUME NEW keys \in SUBSET Keys, \A k \in Keys \ keys : row'[k] = row[k]
    PROVE  keys \cap Settings = {} => Public(row)' = Public(row)
BY PublicOf DEF Public, Keys

LEMMA RewritesKeeps ==
    ASSUME CachesInv, NEW a \in CacheActs, NEW r \in AskType, NEW keys \in SUBSET Keys,
           Rewrites(a, r, keys)
    PROVE  CachesInv'
<1>1. /\ ask' \in [CacheActs -> AskType] /\ ask'[a] = r
      /\ \A b \in CacheActs \ {a} : ask'[b] = ask[b]
      /\ UNCHANGED <<cacheLoad, kept, shown, news, untold>>
      /\ row' \in [Keys -> RowType] /\ \A k \in Keys \ keys : row'[k] = row[k]
      /\ r.pc \notin {"fill", "idle"} /\ r.home = ask[a].home /\ r.op = ask[a].op
      /\ ask[a].pc # "idle" /\ ask[a].op # "forget"
  BY DEF Rewrites, Asked
<1>2. \A k \in Keys : Pending(k) => Pending(k)'
  BY PendingStays DEF Rewrites
<1>3. /\ \A n \in Nodes, k \in Keys : Excused(n, k) => Excused(n, k)'
      /\ \A n \in Nodes : ListExcused(n) => ListExcused(n)'
  BY <1>1, <1>2, ExcusesStay
<1>4. \A k \in keys : Pending(k)'
  BY <1>1 DEF Pending, Rewrites
<1>5. /\ \A n \in Nodes, k \in keys : Excused(n, k)'
      /\ keys \cap Settings # {} => \A n \in Nodes : ListExcused(n)'
  BY <1>4 DEF Excused, ListExcused
<1>6. keys \cap Settings = {} => Public(row)' = Public(row)
  BY <1>1, ListUnchanged
<1>7. CachesTypeOK'
  BY <1>1 DEF CachesInv, CachesTypeOK
<1>8. Homes'
  BY <1>1 DEF CachesInv, Homes
<1>9. KeptCurrent'
  BY <1>1, <1>3, <1>5 DEF CachesInv, KeptCurrent
<1>10. ShownCurrent'
  BY <1>1, <1>3, <1>5, <1>6 DEF CachesInv, ShownCurrent
<1>11. AnswersCurrent'
  BY <1>1, <1>3, <1>5, <1>6 DEF CachesInv, AnswersCurrent
<1> QED
  BY <1>7, <1>8, <1>9, <1>10, <1>11 DEF CachesInv

LEMMA ToggledTyped ==
    ASSUME NEW r \in RowType, NEW s \in RowType
    PROVE  [r EXCEPT !.value = ~s.value] \in RowType
BY DEF RowType

LEMMA WriteKeeps ==
    ASSUME CachesInv, NEW a \in CacheActs, Write(a)
    PROVE  CachesInv'
<1>1. /\ ask \in [CacheActs -> AskType] /\ ask[a] \in AskType /\ row \in [Keys -> RowType]
      /\ ask[a].key \in Keys
  BY DEF CachesInv, CachesTypeOK, AskType
<1>2. \A j \in Keys : ~Tells(ask[a], j)
  BY DEF Write, Tells
<1>3. /\ ask[a].home \in cacheLoad.nodes
      /\ ask[a].op = "list" => ask[a].home \in Servers
      /\ ask[a].op # "forget"
  BY DEF Write, CachesInv, Homes
<1>4. CASE row[ask[a].key].there = (ask[a].op # "create")
  <2> DEFINE r == PlacedAt(ask[a], "tell")
             keys == {ask[a].key}
  <2>1. PICK new \in NewRows(a) : row' = [row EXCEPT ![ask[a].key] = new]
    BY <1>4 DEF Write
  <2>2. new \in RowType
    <3>1. [row[ask[a].key] EXCEPT !.value = ~ask[a].got.value] \in RowType
      BY <1>1, ToggledTyped DEF AskType
    <3>2. NoRow \in RowType
      BY DEF NoRow, RowType
    <3> QED
      BY <2>1, <3>1, <3>2 DEF NewRows
  <2>3. /\ r \in AskType /\ r.pc = "tell" /\ r.op = ask[a].op /\ r.home = ask[a].home
        /\ r.key = ask[a].key
    BY <1>1, PlacedShape
  <2>4. Asked(a, r)
    BY <1>1, <1>4, AsksPlaced DEF Write
  <2> HIDE DEF r
  <2>5. \A k \in keys : Tells(r, k)
    BY <1>3, <2>3 DEF Tells, Write
  <2>6. Rewrites(a, r, keys)
    BY <1>1, <1>2, <1>3, <2>1, <2>2, <2>3, <2>4, <2>5 DEF Rewrites, Write
  <2> QED
    BY <1>1, <2>3, <2>6, RewritesKeeps
<1>5. CASE row[ask[a].key].there # (ask[a].op # "create")
  <2>1. Asked(a, NoAsk) /\ row' = row
    BY <1>1, <1>5, IsAnswered DEF Write
  <2>2. Goes(a, NoAsk)
    BY <1>2, <2>1, NoAskShape DEF Goes, Write
  <2> QED
    BY <2>2, NoAskShape, GoesKeeps
<1> QED
  BY <1>4, <1>5

\* What syncFromEnv has left to write.
RestAsk(x, k) == [x EXCEPT !.rest = @ \ {k}]
LEMMA RestAskShape ==
    ASSUME NEW x \in AskType, NEW k
    PROVE  /\ RestAsk(x, k) \in AskType /\ RestAsk(x, k).pc = x.pc
           /\ RestAsk(x, k).op = x.op /\ RestAsk(x, k).home = x.home
BY DEF RestAsk, AskType

LEMMA SyncKeeps ==
    ASSUME CachesInv, NEW a \in CacheActs, Sync(a)
    PROVE  CachesInv'
<1>1. /\ ask \in [CacheActs -> AskType] /\ ask[a] \in AskType /\ row \in [Keys -> RowType]
      /\ ask[a].rest \in SUBSET Defaults /\ ask[a].pc = "write" /\ ask[a].op = "sync"
  BY DEF CachesInv, CachesTypeOK, AskType, Sync
<1>2. ask[a].home \in cacheLoad.nodes
  BY <1>1 DEF CachesInv, Homes
<1>3. CASE ask[a].rest = {}
  <2> DEFINE r == PlacedAt(ask[a], "tell")
  <2>1. /\ r \in AskType /\ r.pc = "tell" /\ r.op = "sync" /\ r.home = ask[a].home
    BY <1>1, PlacedShape
  <2>2. Asked(a, r)
    BY <1>1, <1>3, AsksPlaced DEF Sync
  <2> HIDE DEF r
  <2>3. \A k \in Keys : Tells(ask[a], k) => Tells(r, k)
    BY <1>1, <2>1 DEF Tells
  <2>4. Goes(a, r)
    BY <1>2, <1>3, <2>1, <2>2, <2>3 DEF Goes, Sync
  <2> QED
    BY <2>1, <2>4, GoesKeeps
<1>4. CASE ask[a].rest # {}
  <2>1. PICK k \in ask[a].rest : /\ ask' = [ask EXCEPT ![a].rest = @ \ {k}]
                                 /\ row' \in {row, [row EXCEPT ![k] = FromEnv]}
    BY <1>4 DEF Sync
  <2> DEFINE r == RestAsk(ask[a], k)
  <2>2. ask' = [ask EXCEPT ![a] = r]
    BY <2>1 DEF RestAsk
  <2>3. r \in AskType /\ r.pc = "write" /\ r.op = "sync" /\ r.home = ask[a].home
    BY <1>1, RestAskShape
  <2> HIDE DEF r
  <2>4. Asked(a, r)
    BY <1>1, <2>2, <2>3, AskedNew
  <2>5. k \in Keys /\ k \in Defaults /\ FromEnv \in RowType
    BY <1>1, CacheConstants DEF Keys, FromEnv, RowType
  <2>6. row' \in [Keys -> RowType] /\ \A j \in Keys \ {k} : row'[j] = row[j]
    BY <1>1, <2>1, <2>5
  <2>7. \A j \in Keys : (Tells(ask[a], j) => Tells(r, j)) /\ (j = k => Tells(r, j))
    BY <1>1, <2>3, <2>5 DEF Tells
  <2>8. Rewrites(a, r, {k})
    BY <1>1, <2>3, <2>4, <2>5, <2>6, <2>7 DEF Rewrites, Sync
  <2> QED
    BY <2>3, <2>5, <2>8, RewritesKeeps
<1> QED
  BY <1>3, <1>4

-----------------------------------------------------------------------------
LEMMA NothingTyped ==
    /\ NoEntry \in EntryType /\ ~NoEntry.on
    /\ NoList \in ListType /\ ~NoList.on
BY DEF NoEntry, EntryType, NoRow, RowType, NoList, ListType, PublicType

LEMMA ForgottenShape ==
    ASSUME CachesTypeOK, NEW n \in Nodes, NEW keys
    PROVE  /\ Forgotten(n, keys) \in [Keys -> EntryType]
           /\ \A k \in Keys : Forgotten(n, keys)[k] = (IF k \in keys THEN NoEntry ELSE kept[n][k])
BY NothingTyped DEF Forgotten, CachesTypeOK

\* What is remembered, and is not remembered already, is what an execution has read.
Remembers(a) ==
    /\ UNCHANGED <<cacheLoad, row, news, untold>>
    /\ kept' \in [Nodes -> [Keys -> EntryType]] /\ shown' \in [Nodes -> ListType]
    /\ \A n \in Nodes, k \in Keys : kept'[n][k].on =>
          \/ kept'[n][k] = kept[n][k]
          \/ /\ ask[a].pc = "fill" /\ ask[a].op = "get" /\ ask[a].home = n /\ ask[a].key = k
             /\ kept'[n][k].row = ask[a].got /\ kept'[n][k].late = ask[a].late
    /\ \A n \in Nodes : shown'[n].on =>
          \/ shown'[n] = shown[n]
          \/ /\ ask[a].pc = "fill" /\ ask[a].op = "list" /\ ask[a].home = n
             /\ shown'[n].public = ask[a].public /\ shown'[n].late = ask[a].late
    /\ ask' = ask \/ (ask[a].pc = "fill" /\ Asked(a, NoAsk))

LEMMA RemembersKeeps ==
    ASSUME CachesInv, NEW a \in CacheActs, Remembers(a)
    PROVE  CachesInv'
<1>1. /\ UNCHANGED <<cacheLoad, row, news, untold>>
      /\ kept' \in [Nodes -> [Keys -> EntryType]] /\ shown' \in [Nodes -> ListType]
      /\ ask' \in [CacheActs -> AskType]
      /\ \A b \in CacheActs : ask'[b] = ask[b] \/ (ask'[b] = NoAsk /\ ask[b].pc = "fill")
  BY DEF Remembers, Asked, CachesInv, CachesTypeOK
<1>2. \A k \in Keys : Pending(k) => Pending(k)'
  BY <1>1 DEF Pending, Tells
<1>3. /\ \A n \in Nodes, k \in Keys : Excused(n, k) => Excused(n, k)'
      /\ \A n \in Nodes : ListExcused(n) => ListExcused(n)'
  BY <1>1, <1>2, ExcusesStay
<1>4. CachesTypeOK'
  BY <1>1 DEF CachesInv, CachesTypeOK
<1>5. Homes'
  BY <1>1, NoAskShape DEF CachesInv, Homes, Remembers
<1>6. KeptCurrent'
  BY <1>1, <1>3 DEF CachesInv, KeptCurrent, AnswersCurrent, Remembers
<1>7. ShownCurrent'
  BY <1>1, <1>3 DEF CachesInv, ShownCurrent, AnswersCurrent, Remembers
<1>8. AnswersCurrent'
  BY <1>1, <1>3, NoAskShape DEF CachesInv, AnswersCurrent
<1> QED
  BY <1>4, <1>5, <1>6, <1>7, <1>8 DEF CachesInv

LEMMA FillKeeps ==
    ASSUME CachesInv, NEW a \in CacheActs, Fill(a)
    PROVE  CachesInv'
<1> DEFINE n == ask[a].home
           k == ask[a].key
           full == Cardinality({t \in Templates : kept[n][t].on}) >= MaxTemplates
           entry == [on |-> TRUE, row |-> ask[a].got, late |-> ask[a].late]
           AsBefore(f) == \A j \in Keys : f[j] = kept[n][j] \/ ~f[j].on
           AsFilled(f) == \E g \in [Keys -> EntryType] : AsBefore(g) /\ f = [g EXCEPT ![k] = entry]
<1>1. /\ ask[a].pc = "fill" /\ ask[a].op = "get"
      /\ UNCHANGED <<cacheLoad, row, shown, news, untold>>
      /\ ask \in [CacheActs -> AskType] /\ n \in Nodes /\ k \in Keys
      /\ kept \in [Nodes -> [Keys -> EntryType]] /\ shown \in [Nodes -> ListType]
  BY DEF Fill, CachesInv, CachesTypeOK, AskType
<1>2. Asked(a, NoAsk)
  BY <1>1, IsAnswered DEF Fill
<1>3. entry \in EntryType
  BY <1>1 DEF AskType, EntryType
<1>4. entry.row = ask[a].got /\ entry.late = ask[a].late
  OBVIOUS
<1>5. CASE k \in Settings
  <2>1. kept' = kept \/ kept' = [kept EXCEPT ![n][k] = entry]
    BY <1>5 DEF Fill
  <2> HIDE DEF entry, n, k
  <2>2. \/ kept' = kept
        \/ /\ kept' \in [Nodes -> [Keys -> EntryType]] /\ kept'[n][k] = entry
           /\ \A m \in Nodes, j \in Keys : m # n \/ j # k => kept'[m][j] = kept[m][j]
    BY <1>1, <1>3, <2>1
  <2>3. Remembers(a)
    BY <1>1, <1>2, <1>4, <2>2 DEF Remembers, n, k
  <2> QED
    BY <2>3, RemembersKeeps
<1>6. CASE k \notin Settings
  <2>1. PICK t \in Templates :
            kept' = [kept EXCEPT ![n] = [IF full THEN Forgotten(n, {t}) ELSE kept[n]
                                         EXCEPT ![k] = entry]]
    BY <1>6 DEF Fill
  <2> DEFINE g == IF full THEN Forgotten(n, {t}) ELSE kept[n]
  <2>2. Forgotten(n, {t}) \in [Keys -> EntryType] /\ AsBefore(Forgotten(n, {t}))
    BY <1>1, ForgottenShape, NothingTyped DEF CachesInv
  <2>3. g \in [Keys -> EntryType] /\ AsBefore(g)
    BY <1>1, <2>2
  <2>4. kept' = [kept EXCEPT ![n] = [g EXCEPT ![k] = entry]]
    BY <2>1
  <2> HIDE DEF entry, n, k, g
  <2>5. [g EXCEPT ![k] = entry] \in [Keys -> EntryType]
    BY <1>1, <1>3, <2>3
  <2>6. /\ kept' \in [Nodes -> [Keys -> EntryType]] /\ kept'[n][k] = entry
        /\ \A m \in Nodes \ {n}, j \in Keys : kept'[m][j] = kept[m][j]
        /\ \A j \in Keys \ {k} : kept'[n][j] = kept[n][j] \/ ~kept'[n][j].on
    BY <1>1, <2>3, <2>4, <2>5
  <2>7. Remembers(a)
    BY <1>1, <1>2, <1>4, <2>6 DEF Remembers, n, k
  <2> QED
    BY <2>7, RemembersKeeps
<1> QED
  BY <1>5, <1>6

LEMMA FillListKeeps ==
    ASSUME CachesInv, NEW a \in CacheActs, FillList(a)
    PROVE  CachesInv'
<1> DEFINE list == [on |-> TRUE, public |-> ask[a].public, late |-> ask[a].late]
<1>1. /\ ask[a].pc = "fill" /\ ask[a].op = "list"
      /\ UNCHANGED <<cacheLoad, row, kept, news, untold>>
      /\ ask \in [CacheActs -> AskType] /\ ask[a].home \in Nodes
      /\ kept \in [Nodes -> [Keys -> EntryType]] /\ shown \in [Nodes -> ListType]
  BY DEF FillList, CachesInv, CachesTypeOK, AskType
<1>2. Asked(a, NoAsk)
  BY <1>1, IsAnswered DEF FillList
<1>3. list \in ListType
  BY <1>1 DEF AskType, ListType
<1>4. list.public = ask[a].public /\ list.late = ask[a].late
  OBVIOUS
<1>5. shown' = [shown EXCEPT ![ask[a].home] = list]
  BY DEF FillList
<1> HIDE DEF list
<1>6. /\ shown' \in [Nodes -> ListType] /\ shown'[ask[a].home] = list
      /\ \A n \in Nodes \ {ask[a].home} : shown'[n] = shown[n]
  BY <1>1, <1>3, <1>5
<1>7. Remembers(a)
  BY <1>1, <1>2, <1>4, <1>6 DEF Remembers
<1> QED
  BY <1>7, RemembersKeeps

\* Memory is only lost.
Forgets ==
    /\ kept' \in [Nodes -> [Keys -> EntryType]] /\ shown' \in [Nodes -> ListType]
    /\ \A n \in Nodes, k \in Keys : kept'[n][k].on => kept'[n][k] = kept[n][k]
    /\ \A n \in Nodes : shown'[n].on => shown'[n] = shown[n]

LEMMA LapseKeeps ==
    ASSUME CachesInv, NEW n \in Nodes, LapseList(n) \/ \E k \in Keys : Lapse(n, k)
    PROVE  CachesInv'
<1>1. /\ UNCHANGED <<cacheLoad, row, news, ask, untold>>
      /\ kept \in [Nodes -> [Keys -> EntryType]] /\ shown \in [Nodes -> ListType]
  BY DEF LapseList, Lapse, CachesInv, CachesTypeOK
<1>2. Forgets
  <2>1. CASE LapseList(n)
    BY <1>1, <2>1, NothingTyped DEF LapseList, Forgets
  <2>2. ASSUME NEW k \in Keys, Lapse(n, k)
        PROVE  Forgets
    BY <1>1, <2>2, NothingTyped DEF Lapse, Forgets
  <2> QED
    BY <2>1, <2>2
<1>3. \A k \in Keys : Pending(k) => Pending(k)'
  BY <1>1 DEF Pending
<1>4. /\ \A m \in Nodes, k \in Keys : Excused(m, k) => Excused(m, k)'
      /\ \A m \in Nodes : ListExcused(m) => ListExcused(m)'
  BY <1>1, <1>3, ExcusesStay
<1>5. CachesTypeOK' /\ Homes'
  BY <1>1, <1>2 DEF CachesInv, CachesTypeOK, Homes, Forgets
<1>6. KeptCurrent' /\ ShownCurrent' /\ AnswersCurrent'
  BY <1>1, <1>2, <1>4 DEF CachesInv, KeptCurrent, ShownCurrent, AnswersCurrent, Forgets
<1> QED
  BY <1>5, <1>6 DEF CachesInv

-----------------------------------------------------------------------------
\* The same execution, whose answer may have come too late.
Later(x, y) ==
    /\ y \in AskType /\ y.pc = x.pc /\ y.op = x.op /\ y.home = x.home /\ y.key = x.key
    /\ y.got = x.got /\ y.public = x.public /\ (x.late => y.late)
MarkedLate(x) == [x EXCEPT !.late = TRUE]
LEMMA MarkedShape ==
    ASSUME NEW x \in AskType
    PROVE  Later(x, MarkedLate(x)) /\ MarkedLate(x).late /\ Later(x, x)
BY DEF Later, MarkedLate, AskType

\* An answer that is out of date when process n clears the keys.
Overtaken(b, n, keys) ==
    /\ ask[b].pc = "fill" /\ ask[b].home = n
    /\ \/ ask[b].op = "get" /\ ask[b].key \in keys /\ ask[b].got # row[ask[b].key]
       \/ ask[b].op = "list" /\ keys \cap Settings # {} /\ ask[b].public # Public(row)

LEMMA TooLateShape ==
    ASSUME ask \in [CacheActs -> AskType], NEW n \in Nodes, NEW keys
    PROVE  /\ TooLate(n, keys) \in [CacheActs -> AskType]
           /\ \A b \in CacheActs :
                 /\ Later(ask[b], TooLate(n, keys)[b])
                 /\ Overtaken(b, n, keys) => TooLate(n, keys)[b].late
<1>1. \A b \in CacheActs :
         TooLate(n, keys)[b] = (IF Overtaken(b, n, keys) THEN MarkedLate(ask[b]) ELSE ask[b])
  BY DEF TooLate, Overtaken, MarkedLate
<1>2. TooLate(n, keys) = [b \in CacheActs |-> TooLate(n, keys)[b]]
  BY DEF TooLate
<1>3. \A b \in CacheActs : Later(ask[b], MarkedLate(ask[b])) /\ MarkedLate(ask[b]).late
                           /\ Later(ask[b], ask[b])
  BY MarkedShape
<1>4. \A b \in CacheActs : /\ Later(ask[b], TooLate(n, keys)[b])
                           /\ Overtaken(b, n, keys) => TooLate(n, keys)[b].late
  BY <1>1, <1>3
<1>5. \A b \in CacheActs : TooLate(n, keys)[b] \in AskType
  BY <1>4 DEF Later
<1> QED
  BY <1>2, <1>4, <1>5

LEMMA LaterTells ==
    ASSUME NEW x, NEW y, Later(x, y)
    PROVE  \A k \in Keys : Tells(x, k) => Tells(y, k)
BY DEF Later, Tells

\* Process n clears the keys: an entry or an answer of it that is out of date goes, or
\* comes too late, and the excuses of the others stay.
Clears(n, keys) ==
    /\ UNCHANGED <<cacheLoad, row>>
    /\ Forgets /\ ask' \in [CacheActs -> AskType]
    /\ news' \in [Nodes -> SUBSET Keys] /\ untold' \subseteq Keys
    /\ \A k \in keys : ~kept'[n][k].on
    /\ keys \cap Settings # {} => ~shown'[n].on
    /\ \A b \in CacheActs : \/ ask'[b] = NoAsk
                            \/ /\ Later(ask[b], ask'[b])
                               /\ Overtaken(b, n, keys) => ask'[b].late
    /\ \A m \in cacheLoad.nodes, k \in Keys : m \in Nodes /\ (m # n \/ k \notin keys) =>
          (Excused(m, k) => Excused(m, k)')
    /\ \A m \in cacheLoad.nodes \cap Servers : m # n \/ keys \cap Settings = {} =>
          (ListExcused(m) => ListExcused(m)')

LEMMA ClearsKeeps ==
    ASSUME CachesInv, NEW n \in Nodes, NEW keys \in SUBSET Keys, Clears(n, keys)
    PROVE  CachesInv'
<1>1. /\ UNCHANGED <<cacheLoad, row>>
      /\ Forgets /\ ask' \in [CacheActs -> AskType]
      /\ news' \in [Nodes -> SUBSET Keys] /\ untold' \subseteq Keys
      /\ \A k \in keys : ~kept'[n][k].on
      /\ keys \cap Settings # {} => ~shown'[n].on
  BY DEF Clears
<1>2. /\ \A m \in cacheLoad.nodes, k \in Keys : m \in Nodes /\ (m # n \/ k \notin keys) =>
            (Excused(m, k) => Excused(m, k)')
      /\ \A m \in cacheLoad.nodes \cap Servers : m # n \/ keys \cap Settings = {} =>
            (ListExcused(m) => ListExcused(m)')
  BY DEF Clears
<1>3. \A b \in CacheActs : \/ ask'[b] = NoAsk
                           \/ /\ Later(ask[b], ask'[b])
                              /\ Overtaken(b, n, keys) => ask'[b].late
  BY DEF Clears
<1>4. CachesTypeOK'
  BY <1>1 DEF CachesInv, CachesTypeOK, Forgets
<1>5. Homes'
  <2>1. /\ \A m \in Nodes, k \in Keys : kept'[m][k].on => m \in cacheLoad.nodes
        /\ \A m \in Nodes : shown'[m].on => m \in cacheLoad.nodes \cap Servers
    BY <1>1 DEF CachesInv, Homes, Forgets
  <2>2. ASSUME NEW b \in CacheActs
        PROVE  \/ ask'[b].pc = "idle" /\ ask'[b].op = "get"
               \/ /\ ask'[b].pc = ask[b].pc /\ ask'[b].op = ask[b].op
                  /\ ask'[b].home = ask[b].home
    BY <1>3, NoAskShape DEF Later
  <2>3. \A b \in CacheActs : ask'[b].pc # "idle" =>
           /\ ask'[b].home \in cacheLoad.nodes
           /\ ask'[b].op = "list" => ask'[b].home \in Servers
    BY <2>2 DEF CachesInv, Homes
  <2>4. \A b \in CacheActs : ask'[b].op = "forget" => ask'[b].pc = "tell"
    BY <2>2 DEF CachesInv, Homes
  <2> QED
    BY <1>1, <2>1, <2>3, <2>4 DEF Homes
<1>6. KeptCurrent'
  BY <1>1, <1>2 DEF CachesInv, KeptCurrent, Forgets, Homes
<1>7. ShownCurrent'
  BY <1>1, <1>2 DEF CachesInv, ShownCurrent, Forgets, Homes
<1>8. AnswersCurrent'
  <2>1. ASSUME NEW b \in CacheActs, ask'[b].pc = "fill", ~ask'[b].late
        PROVE  /\ ask[b].pc = "fill" /\ ~ask[b].late /\ ask[b].home = ask'[b].home
               /\ ask[b].op = ask'[b].op /\ ask[b].key = ask'[b].key
               /\ ask[b].got = ask'[b].got /\ ask[b].public = ask'[b].public
               /\ ~Overtaken(b, n, keys)
    BY <1>3, <2>1, NoAskShape DEF Later
  <2>2. ASSUME NEW b \in CacheActs, NEW m \in Nodes, NEW k \in Keys,
               ask'[b].pc = "fill", ~ask'[b].late, ask'[b].home = m,
               ask'[b].op = "get", ask'[b].key = k, ask'[b].got # row[k]
        PROVE  Excused(m, k)'
    <3>1. Excused(m, k) /\ m \in cacheLoad.nodes
      BY <2>1, <2>2 DEF CachesInv, AnswersCurrent, Homes
    <3>2. m # n \/ k \notin keys
      BY <2>1, <2>2 DEF Overtaken
    <3> QED
      BY <1>2, <3>1, <3>2
  <2>3. ASSUME NEW b \in CacheActs, NEW m \in Nodes,
               ask'[b].pc = "fill", ~ask'[b].late, ask'[b].home = m,
               ask'[b].op = "list", ask'[b].public # Public(row)
        PROVE  ListExcused(m)'
    <3>1. ListExcused(m) /\ m \in cacheLoad.nodes \cap Servers
      BY <2>1, <2>3 DEF CachesInv, AnswersCurrent, Homes
    <3>2. m # n \/ keys \cap Settings = {}
      BY <2>1, <2>3 DEF Overtaken
    <3> QED
      BY <1>2, <3>1, <3>2
  <2> QED
    BY <1>1, <2>2, <2>3 DEF AnswersCurrent
<1> QED
  BY <1>4, <1>5, <1>6, <1>7, <1>8 DEF CachesInv

LEMMA LocalClear ==
    ASSUME CachesTypeOK, NEW n \in Nodes, NEW keys \in SUBSET Keys,
           kept' = [kept EXCEPT ![n] = Forgotten(n, keys)],
           shown' = [shown EXCEPT ![n] = ListAfter(n, keys)]
    PROVE  /\ Forgets /\ \A k \in keys : ~kept'[n][k].on
           /\ keys \cap Settings # {} => ~shown'[n].on
<1> DEFINE f == Forgotten(n, keys)
           l == ListAfter(n, keys)
<1>1. /\ kept \in [Nodes -> [Keys -> EntryType]] /\ shown \in [Nodes -> ListType]
  BY DEF CachesTypeOK
<1>2. /\ f \in [Keys -> EntryType] /\ \A k \in Keys : f[k].on => f[k] = kept[n][k]
      /\ \A k \in keys : ~f[k].on
  BY ForgottenShape, NothingTyped
<1>3. l \in ListType /\ (l.on => l = shown[n]) /\ (keys \cap Settings # {} => ~l.on)
  BY <1>1, NothingTyped DEF ListAfter
<1> HIDE DEF f, l
<1>4. /\ kept' = [kept EXCEPT ![n] = f] /\ shown' = [shown EXCEPT ![n] = l]
  BY DEF f, l
<1> QED
  BY <1>1, <1>2, <1>3, <1>4 DEF Forgets

LEMMA HearKeeps ==
    ASSUME CachesInv, NEW n \in Nodes, NEW k \in Keys, Hear(n, k)
    PROVE  CachesInv'
<1>1. /\ UNCHANGED <<cacheLoad, row, untold>> /\ ask' = TooLate(n, {k})
      /\ kept' = [kept EXCEPT ![n] = Forgotten(n, {k})]
      /\ shown' = [shown EXCEPT ![n] = ListAfter(n, {k})]
      /\ news' = [news EXCEPT ![n] = @ \ {k}]
  BY DEF Hear
<1>2. /\ CachesTypeOK /\ ask \in [CacheActs -> AskType] /\ news \in [Nodes -> SUBSET Keys]
      /\ untold \subseteq Keys
  BY DEF CachesInv, CachesTypeOK
<1>3. /\ Forgets /\ ~kept'[n][k].on /\ ({k} \cap Settings # {} => ~shown'[n].on)
  BY <1>1, <1>2, LocalClear
<1>4. /\ ask' \in [CacheActs -> AskType]
      /\ \A b \in CacheActs : Later(ask[b], ask'[b]) /\ (Overtaken(b, n, {k}) => ask'[b].late)
  BY <1>1, <1>2, TooLateShape
<1>5. \A j \in Keys : Pending(j) => Pending(j)'
  BY <1>4, LaterTells DEF Pending
<1>6. /\ news' \in [Nodes -> SUBSET Keys]
      /\ \A m \in Nodes, j \in Keys : j \in news[m] /\ (m # n \/ j # k) => j \in news'[m]
  BY <1>1, <1>2
<1>7. \A m \in Nodes, j \in Keys : m # n \/ j # k => (Excused(m, j) => Excused(m, j)')
  BY <1>1, <1>5, <1>6 DEF Excused, Hears
<1>8. \A m \in Nodes : m # n \/ {k} \cap Settings = {} => (ListExcused(m) => ListExcused(m)')
  BY <1>1, <1>5, <1>6 DEF ListExcused, Keys
<1>9. Clears(n, {k})
  BY <1>1, <1>2, <1>3, <1>4, <1>6, <1>7, <1>8 DEF Clears, Nodes
<1> QED
  BY <1>9, ClearsKeeps

LEMMA TellKeeps ==
    ASSUME CachesInv, NEW a \in CacheActs, Tell(a)
    PROVE  CachesInv'
<1> DEFINE n == ask[a].home
           keys == Cleared(a)
<1>1. /\ CachesTypeOK /\ ask \in [CacheActs -> AskType] /\ news \in [Nodes -> SUBSET Keys]
      /\ untold \subseteq Keys /\ n \in Nodes /\ ask[a].key \in Keys /\ ask[a].pc = "tell"
      /\ n \in cacheLoad.nodes
  BY DEF CachesInv, CachesTypeOK, AskType, Tell, Homes
<1>2. keys \in SUBSET Keys /\ \A k \in Keys : Tells(ask[a], k) => k \in keys /\ ask[a].op # "forget"
  BY <1>1, CacheConstants DEF Cleared, Tells, Keys
<1>3. /\ UNCHANGED <<cacheLoad, row>>
      /\ kept' = [kept EXCEPT ![n] = Forgotten(n, keys)]
      /\ shown' = [shown EXCEPT ![n] = ListAfter(n, keys)]
      /\ ask' = [TooLate(n, keys) EXCEPT ![a] = NoAsk]
      /\ \/ /\ news' = [m \in Nodes |-> IF m \in cacheLoad.nodes
                            THEN news[m] \cup {k \in keys : Hears(m, k)} ELSE {}]
            /\ untold' = untold \ keys
         \/ /\ news' = news
            /\ untold' = untold \cup IF ask[a].op = "forget" THEN {} ELSE keys
  BY DEF Tell
<1> HIDE DEF n, keys
<1>4. /\ Forgets /\ (\A k \in keys : ~kept'[n][k].on)
      /\ keys \cap Settings # {} => ~shown'[n].on
  BY <1>1, <1>2, <1>3, LocalClear
<1>5. /\ TooLate(n, keys) \in [CacheActs -> AskType]
      /\ \A b \in CacheActs : /\ Later(ask[b], TooLate(n, keys)[b])
                              /\ Overtaken(b, n, keys) => TooLate(n, keys)[b].late
  BY <1>1, TooLateShape
<1>6. /\ ask' \in [CacheActs -> AskType] /\ ask'[a] = NoAsk
      /\ \A b \in CacheActs \ {a} :
            Later(ask[b], ask'[b]) /\ (Overtaken(b, n, keys) => ask'[b].late)
  BY <1>3, <1>5, NoAskShape
<1>7. \A k \in Keys : Pending(k) => Pending(k)' \/ (k \in keys /\ ask[a].op # "forget")
  BY <1>2, <1>6, LaterTells DEF Pending
<1>8. /\ news' \in [Nodes -> SUBSET Keys] /\ untold' \subseteq Keys
  BY <1>1, <1>2, <1>3
<1>9. /\ \A m \in cacheLoad.nodes \cap Nodes, k \in Keys :
            k \in news[m] => k \in news'[m]
      /\ \A k \in Keys : k \in untold => k \in untold' \/ (k \in keys /\
            \A m \in cacheLoad.nodes \cap Nodes : Hears(m, k) => k \in news'[m])
      /\ \A k \in keys : ask[a].op # "forget" => k \in untold' \/
            \A m \in cacheLoad.nodes \cap Nodes : Hears(m, k) => k \in news'[m]
  BY <1>1, <1>2, <1>3
<1>10. \A m \in cacheLoad.nodes, k \in Keys : m \in Nodes => (Excused(m, k) => Excused(m, k)')
  <2>1. ASSUME NEW m \in cacheLoad.nodes \cap Nodes, NEW k \in Keys, Excused(m, k)
        PROVE  k \in news'[m] \/ Pending(k)' \/ k \in untold' \/ ~Hears(m, k)
    BY <1>7, <1>9, <2>1 DEF Excused
  <2> QED
    BY <2>1 DEF Excused, Hears
<1>11. \A m \in cacheLoad.nodes \cap Servers : ListExcused(m) => ListExcused(m)'
  <2>1. ASSUME NEW m \in cacheLoad.nodes \cap Servers, NEW k \in Settings,
               k \in news[m] \/ Pending(k) \/ k \in untold
        PROVE  k \in news'[m] \/ Pending(k)' \/ k \in untold'
    <3>1. k \in Keys /\ m \in Nodes /\ Hears(m, k)
      BY DEF Keys, Nodes, Hears
    <3> QED
      BY <1>7, <1>9, <2>1, <3>1
  <2> QED
    BY <2>1 DEF ListExcused
<1>12. Clears(n, keys)
  BY <1>3, <1>4, <1>6, <1>8, <1>10, <1>11 DEF Clears
<1> QED
  BY <1>1, <1>2, <1>12, ClearsKeeps

-----------------------------------------------------------------------------
LEMMA DieKeeps ==
    ASSUME CachesInv, NEW n \in Nodes, Die(n)
    PROVE  CachesInv'
<1> DEFINE gone == {a \in CacheActs : ask[a].home = n /\ ask[a].pc # "idle"}
<1>1. /\ UNCHANGED <<cacheLoad, row>>
      /\ ask' = [a \in CacheActs |-> IF a \in gone THEN NoAsk ELSE ask[a]]
      /\ untold' = untold \cup UNION {Changed(a) : a \in {b \in gone :
                       ask[b].pc = "tell" \/ ask[b].op = "sync"}}
      /\ kept' = [kept EXCEPT ![n] = [k \in Keys |-> NoEntry]]
      /\ shown' = [shown EXCEPT ![n] = NoList]
      /\ news' = [news EXCEPT ![n] = {}]
  BY DEF Die
<1>2. /\ ask \in [CacheActs -> AskType] /\ news \in [Nodes -> SUBSET Keys]
      /\ untold \subseteq Keys
      /\ kept \in [Nodes -> [Keys -> EntryType]] /\ shown \in [Nodes -> ListType]
  BY DEF CachesInv, CachesTypeOK
<1>3. /\ Forgets /\ (\A k \in Keys : ~kept'[n][k].on) /\ ~shown'[n].on
  BY <1>1, <1>2, NothingTyped DEF Forgets
<1>4. \A a \in CacheActs : Changed(a) \subseteq Keys
  BY <1>2, CacheConstants DEF Changed, Keys, AskType
<1>5. \A b \in gone, k \in Keys : Tells(ask[b], k) => k \in untold'
  BY <1>1 DEF Tells, Changed
<1>6. untold \subseteq untold' /\ untold' \subseteq Keys
  BY <1>1, <1>2, <1>4
<1>7. /\ ask' \in [CacheActs -> AskType]
      /\ \A b \in CacheActs : ask'[b] = (IF b \in gone THEN NoAsk ELSE ask[b])
  BY <1>1, <1>2, NoAskShape
<1>8. \A k \in Keys : Pending(k) => Pending(k)' \/ k \in untold'
  BY <1>5, <1>7 DEF Pending
<1>9. /\ news' \in [Nodes -> SUBSET Keys] /\ \A m \in Nodes \ {n} : news'[m] = news[m]
  BY <1>1, <1>2
<1>10. \A b \in CacheActs : \/ ask'[b] = NoAsk
                            \/ /\ Later(ask[b], ask'[b])
                               /\ Overtaken(b, n, Keys) => ask'[b].late
  BY <1>2, <1>7, MarkedShape DEF Overtaken
<1>11. \A m \in Nodes, k \in Keys : m # n => (Excused(m, k) => Excused(m, k)')
  BY <1>6, <1>8, <1>9 DEF Excused, Hears
<1>12. \A m \in Nodes : m # n => (ListExcused(m) => ListExcused(m)')
  BY <1>6, <1>8, <1>9 DEF ListExcused, Keys
<1>13. CASE Settings # {}
  <2>1. \A m \in Nodes : m # n \/ Keys \cap Settings = {} => (ListExcused(m) => ListExcused(m)')
    BY <1>12, <1>13 DEF Keys
  <2>2. Clears(n, Keys)
    BY <1>1, <1>3, <1>6, <1>7, <1>9, <1>10, <1>11, <2>1 DEF Clears, Nodes
  <2> QED
    BY <2>2, ClearsKeeps
<1>14. CASE Settings = {}
  <2>1. \A m \in Nodes : ~ListExcused(m)
    BY <1>14 DEF ListExcused
  <2>2. Clears(n, Keys)
    BY <1>1, <1>3, <1>6, <1>7, <1>9, <1>10, <1>11, <2>1 DEF Clears, Nodes
  <2> QED
    BY <2>2, ClearsKeeps
<1> QED
  BY <1>13, <1>14

LEMMA BootKeeps ==
    ASSUME CachesInv, NEW n \in Nodes, NEW k \in Keys, Boot(n, k)
    PROVE  CachesInv'
<1>1. /\ UNCHANGED <<cacheLoad, news, ask>> /\ row' = [row EXCEPT ![k] = FromEnv]
      /\ untold' = untold \cup {k} /\ k \in Settings
      /\ kept' = [kept EXCEPT ![n] = [x \in Keys |-> NoEntry]]
      /\ shown' = [shown EXCEPT ![n] = NoList]
  BY CacheConstants DEF Boot
<1>2. /\ row \in [Keys -> RowType] /\ FromEnv \in RowType
      /\ kept \in [Nodes -> [Keys -> EntryType]] /\ shown \in [Nodes -> ListType]
  BY DEF CachesInv, CachesTypeOK, FromEnv, RowType
<1>3. Forgets
  BY <1>1, <1>2, NothingTyped DEF Forgets
<1>4. row' \in [Keys -> RowType] /\ \A j \in Keys \ {k} : row'[j] = row[j]
  BY <1>1, <1>2
<1>5. \A j \in Keys : Pending(j) => Pending(j)'
  BY <1>1 DEF Pending
<1>6. /\ \A m \in Nodes, j \in Keys : Excused(m, j) => Excused(m, j)'
      /\ \A m \in Nodes : ListExcused(m) => ListExcused(m)'
  BY <1>1, <1>5, ExcusesStay
<1>7. /\ \A m \in Nodes : Excused(m, k)' /\ ListExcused(m)'
  BY <1>1 DEF Excused, ListExcused
<1>8. CachesTypeOK' /\ Homes'
  BY <1>1, <1>3, <1>4 DEF CachesInv, CachesTypeOK, Homes, Forgets
<1>9. KeptCurrent'
  BY <1>1, <1>3, <1>4, <1>6, <1>7 DEF CachesInv, KeptCurrent, Forgets
<1>10. ShownCurrent'
  BY <1>7 DEF ShownCurrent
<1>11. AnswersCurrent'
  BY <1>1, <1>4, <1>6, <1>7 DEF CachesInv, AnswersCurrent
<1> QED
  BY <1>8, <1>9, <1>10, <1>11 DEF CachesInv

-----------------------------------------------------------------------------
LEMMA CachesStart == CachesInit => CachesInv
<1> SUFFICES ASSUME CachesInit
             PROVE  CachesInv
  OBVIOUS
<1>1. /\ cacheLoad \in CacheLoads /\ row = cacheLoad.rows
      /\ \A n \in Nodes, k \in Keys : kept[n][k] = NoEntry
      /\ \A n \in Nodes : shown[n] = NoList
      /\ \A a \in CacheActs : ask[a] = NoAsk
  BY DEF CachesInit
<1>2. CachesTypeOK
  BY <1>1, CacheConstants, NothingTyped, NoAskShape DEF CachesInit, CachesTypeOK
<1>3. Homes /\ KeptCurrent /\ ShownCurrent /\ AnswersCurrent
  BY <1>1, NothingTyped, NoAskShape DEF Homes, KeptCurrent, ShownCurrent, AnswersCurrent
<1> QED
  BY <1>2, <1>3 DEF CachesInv

LEMMA CachesStep == CachesInv /\ [CachesNext]_cacheVars => CachesInv'
<1> SUFFICES ASSUME CachesInv, [CachesNext]_cacheVars
             PROVE  CachesInv'
  OBVIOUS
<1>1. CASE UNCHANGED cacheVars
  BY <1>1 DEF cacheVars, CachesInv, CachesTypeOK, Homes, KeptCurrent, ShownCurrent,
              AnswersCurrent, Excused, ListExcused, Pending, Hears
<1>2. ASSUME NEW a \in CacheActs, NEW n \in Nodes, ReadList(a, n)
      PROVE  CachesInv'
  BY <1>2, ReadKeeps
<1>3. ASSUME NEW a \in CacheActs, NEW n \in Nodes, NEW k \in Keys, Read(a, n, k)
      PROVE  CachesInv'
  BY <1>3, ReadKeeps
<1>4. ASSUME NEW n \in Nodes, NEW k \in Keys, Lapse(n, k) \/ LapseList(n)
      PROVE  CachesInv'
  BY <1>4, LapseKeeps
<1>5. ASSUME NEW n \in Nodes, LapseList(n)
      PROVE  CachesInv'
  BY <1>5, LapseKeeps
<1> QED
  BY <1>1, <1>2, <1>3, <1>4, <1>5, FetchKeeps, ChangeKeeps, FindKeeps, WriteKeeps, SyncKeeps,
     FillKeeps, FillListKeeps, TellKeeps, HearKeeps, DieKeeps, BootKeeps DEF CachesNext

LEMMA CachesInvCurrent == CachesInv => CachesAreCurrent
<1> SUFFICES ASSUME CachesInv
             PROVE  CachesAreCurrent
  OBVIOUS
<1>1. \A a \in CacheActs, k \in Keys : Tells(ask[a], k) =>
         /\ k \in Changed(a) /\ ask[a].op # "forget"
         /\ ask[a].pc = "tell" \/ (ask[a].op = "sync" /\ ask[a].pc = "write")
  BY DEF Tells, Changed
<1>2. \A n \in Nodes, k \in Keys : Pending(k) => OnItsWay(n, k)
  BY <1>1 DEF Pending, OnItsWay
<1>3. \A n \in Nodes, k \in Keys : Excused(n, k) => OnItsWay(n, k) \/ k \in untold \/ ~Hears(n, k)
  BY <1>2 DEF Excused, OnItsWay
<1>4. \A n \in Nodes \cap Servers :
        ListExcused(n) => \E k \in Settings : OnItsWay(n, k) \/ k \in untold
  BY <1>2 DEF ListExcused, OnItsWay, Hears, Keys
<1> QED
  BY <1>3, <1>4 DEF CachesInv, KeptCurrent, ShownCurrent, Homes, CachesAreCurrent

\* What a process keeps in memory of the settings and the templates is what the tables say,
\* unless the news of a change is on its way, was lost, or came before the answer that it
\* made out of date (SystemConfigService, extraction-runner.ts): for any number of processes,
\* keys and executions.
THEOREM CachesCurrent == CachesSpec => []CachesAreCurrent
<1>1. CachesInit => CachesInv
  BY CachesStart
<1>2. CachesInv /\ [CachesNext]_cacheVars => CachesInv'
  BY CachesStep
<1> QED
  BY <1>1, <1>2, CachesInvCurrent, PTL DEF CachesSpec

-----------------------------------------------------------------------------
(* The folder of a job *)

\* The files that a step writes for the rows of an edition.
WrittenAt(s, e) ==
    CASE s = "pages.json" -> {"pages.json"} \cup IF e \in Structured THEN {"structured.json"}
                                               ELSE {}
      [] s = "structured.json" -> IF e \in Structured THEN {"structured.json"} ELSE {}
      [] s = "markdown" -> MarkdownFiles[e]
      [] s \in {"pages.csv", "links.csv", "images.csv", "summary.json"} \cup Streamed -> {s}
      [] OTHER -> {}

\* The steps that an export has behind it.
StepsTaken(op, n) == {StepsOf(op)[k] : k \in 1..(n - 1)}

\* What the record e of an export says of the files when the rows have not changed
\* since it was begun: it has read this edition only, all it has written is of this
\* edition, but for the file that is open, and an archive it has begun takes all of it.
Faithful(e, files, ed) ==
    LET now == StepsOf(e.op)[e.step]
        taken == StepsTaken(e.op, e.step)
    IN  /\ e.pages = ed
        /\ "readAssets" \in taken => e.assets = ed
        /\ "keepAssets" \in taken => e.kept = ed
        /\ \A s \in taken : \A f \in WrittenAt(s, ed) :
              files[f] = {ed} \/ (e.open /\ now \in Streamed /\ f = now)
        /\ e.open /\ now \in Archives => Expected(now, ed) \subseteq e.packing

\* An export that is not mixed is alone and faithful.
Alone(x) ==
    /\ \A y \in Exporters \ {x} : ~Exporting(y)
    /\ Faithful(exporter[x], folder, edition)

ExporterType == [op : Exports, step : Nat, pages : Editions, assets : Editions, kept : Editions,
                 open : BOOLEAN, packing : SUBSET FileNames, mixed : BOOLEAN]

\* The strengthening of ArchivesAreWhole.
FolderInv ==
    /\ edition \in 1..MaxEdition
    /\ folder \in [FileNames -> SUBSET Editions]
    /\ exporter \in [Exporters -> ExporterType]
    /\ \A x \in Exporters : exporter[x].step \in 0..Len(StepsOf(exporter[x].op))
    /\ \A x \in Exporters : Exporting(x) /\ ~exporter[x].mixed => Alone(x)
    /\ ArchivesAreWhole


\* The steps whose files an archive is made of.
Needed(a) ==
    CASE a = "json.zip" -> {"pages.json"}
      [] a = "csv.zip" -> {"pages.csv", "links.csv", "images.csv"}
      [] a = "xlsx.zip" -> {"pages.xlsx", "tables.xlsx"}
      [] a = "markdown.zip" -> {"markdown"}
      [] OTHER -> {"pages.json", "structured.json", "pages.csv", "links.csv", "images.csv",
                   "pages.xlsx", "tables.xlsx", "markdown", "summary.json"}

LEMMA ExpectedWritten ==
    ASSUME NEW a \in Archives, NEW e \in 1..MaxEdition
    PROVE  Expected(a, e) \subseteq UNION {WrittenAt(s, e) : s \in Needed(a)}
<1> SUFFICES ASSUME NEW f \in Expected(a, e)
             PROVE  \E s \in Needed(a) : f \in WrittenAt(s, e)
  OBVIOUS
<1>1. /\ f \in Members[a] /\ (f \in AllMarkdown => f \in MarkdownFiles[e])
      /\ f = "structured.json" => e \in Structured
  BY DEF Expected
<1>2. /\ WrittenAt("markdown", e) = MarkdownFiles[e]
      /\ "pages.json" \in WrittenAt("pages.json", e)
      /\ e \in Structured => "structured.json" \in WrittenAt("pages.json", e)
      /\ \A s \in {"pages.csv", "links.csv", "images.csv", "pages.xlsx", "tables.xlsx",
                   "summary.json"} : s \in WrittenAt(s, e)
  BY DEF WrittenAt, Streamed
<1>3. CASE a = "json.zip"
  BY <1>1, <1>2, <1>3 DEF Members, Archives, Needed
<1>4. CASE a = "csv.zip"
  BY <1>1, <1>2, <1>4 DEF Members, Archives, Needed
<1>5. CASE a = "xlsx.zip"
  BY <1>1, <1>2, <1>5 DEF Members, Archives, Needed
<1>6. CASE a = "markdown.zip"
  BY <1>1, <1>2, <1>6 DEF Members, Archives, Needed
<1>7. CASE a = "result.zip"
  <2>1. f \in FileNames
    BY <1>1, <1>7 DEF Members, Archives
  <2>2. CASE f \in AllMarkdown
    BY <1>1, <1>2, <1>7, <2>2 DEF Needed
  <2>3. CASE f \in DataFiles \cup {"summary.json"}
    BY <1>1, <1>2, <1>7, <2>3 DEF Needed, DataFiles
  <2> QED
    BY <2>1, <2>2, <2>3 DEF FileNames
<1> QED
  BY <1>3, <1>4, <1>5, <1>6, <1>7 DEF Archives, Members

LEMMA NeededBy ==
    /\ Needed("json.zip") = {"pages.json"}
    /\ Needed("csv.zip") = {"pages.csv", "links.csv", "images.csv"}
    /\ Needed("xlsx.zip") = {"pages.xlsx", "tables.xlsx"}
    /\ Needed("markdown.zip") = {"markdown"}
    /\ Needed("result.zip") = {"pages.json", "structured.json", "pages.csv", "links.csv",
                               "images.csv", "pages.xlsx", "tables.xlsx", "markdown",
                               "summary.json"}
    /\ Archives = {"json.zip", "csv.zip", "xlsx.zip", "markdown.zip", "result.zip"}
BY DEF Needed, Archives, Members

\* Before it packs an archive an export has written what belongs to it, and before it
\* writes links and images it has read them: s is the n-th step, T are those before.
InOrder(s, T) ==
    /\ s \in {"pages.json", "links.csv", "images.csv"} => "readAssets" \in T
    /\ s \in Archives => Needed(s) \subseteq T

LEMMA ZipInOrder ==
    ASSUME NEW q, NEW T, NEW n \in 1..19, \A k \in 1..(n - 1) : q[k] \in T,
           q[1] = "keepAssets", q[2] = "readAssets", q[3] = "pages.json", q[4] = "json.zip",
           q[5] = "structured.json", q[6] = "readAssets", q[7] = "pages.csv",
           q[8] = "links.csv", q[9] = "images.csv", q[10] = "csv.zip", q[11] = "links.csv",
           q[12] = "images.csv", q[13] = "pages.xlsx", q[14] = "tables.xlsx", q[15] = "xlsx.zip",
           q[16] = "markdown", q[17] = "markdown.zip", q[18] = "summary.json",
           q[19] = "result.zip"
    PROVE  InOrder(q[n], T) /\ (n > 1 => "keepAssets" \in T)
<1>1. /\ n > 1 => "keepAssets" \in T
      /\ n > 2 => "readAssets" \in T
      /\ n > 3 => "pages.json" \in T
  OBVIOUS
<1>2. /\ n > 5 => "structured.json" \in T
      /\ n > 7 => "pages.csv" \in T
      /\ n > 8 => "links.csv" \in T
      /\ n > 9 => "images.csv" \in T
  OBVIOUS
<1>3. /\ n > 13 => "pages.xlsx" \in T
      /\ n > 14 => "tables.xlsx" \in T
      /\ n > 16 => "markdown" \in T
      /\ n > 18 => "summary.json" \in T
  OBVIOUS
<1>4. \/ n = 1 \/ n = 2 \/ n = 3 \/ n = 4 \/ n = 5 \/ n = 6 \/ n = 7 \/ n = 8 \/ n = 9 \/ n = 10
      \/ n = 11 \/ n = 12 \/ n = 13 \/ n = 14 \/ n = 15 \/ n = 16 \/ n = 17 \/ n = 18 \/ n = 19
  OBVIOUS
<1>5. q[n] = "json.zip" => n > 3
  BY <1>4
<1>6. q[n] = "csv.zip" => n > 9
  BY <1>4
<1>7. q[n] = "xlsx.zip" => n > 14
  BY <1>4
<1>8. q[n] = "markdown.zip" => n > 16
  BY <1>4
<1>9. q[n] = "result.zip" => n > 18
  BY <1>4
<1>10. q[n] \in {"pages.json", "links.csv", "images.csv"} => n > 2
  BY <1>4
<1>11. q[n] \in Archives => Needed(q[n]) \subseteq T
  BY <1>1, <1>2, <1>3, <1>5, <1>6, <1>7, <1>8, <1>9, NeededBy
<1> QED
  BY <1>1, <1>10, <1>11 DEF InOrder

\* The same of each export.
LEMMA StepsInOrder ==
    ASSUME NEW op \in Exports, NEW n \in 1..Len(StepsOf(op))
    PROVE  /\ InOrder(StepsOf(op)[n], StepsTaken(op, n))
           /\ op = "zip" /\ n > 1 => "keepAssets" \in StepsTaken(op, n)
<1>1. \A k \in 1..(n - 1) : StepsOf(op)[k] \in StepsTaken(op, n)
  BY DEF StepsTaken
<1> DEFINE q == StepsOf(op)
           T == StepsTaken(op, n)
<1>3. CASE op = "json"
  <2>1. /\ Len(q) = 3 /\ q[1] = "readAssets" /\ q[2] = "pages.json" /\ q[3] = "json.zip"
    BY <1>3 DEF StepsOf, JsonSteps
  <2> HIDE DEF q, T
  <2>2. /\ n = 1 \/ n = 2 \/ n = 3
        /\ n > 1 => "readAssets" \in T
        /\ n > 2 => "pages.json" \in T
    BY <1>1, <2>1 DEF q, T
  <2>3. InOrder(q[n], T)
    BY <2>1, <2>2, NeededBy DEF InOrder
  <2> QED
    BY <1>3, <2>3 DEF q, T
<1>4. CASE op = "csv"
  <2>1. /\ Len(q) = 5 /\ q[1] = "readAssets" /\ q[2] = "pages.csv" /\ q[3] = "links.csv"
        /\ q[4] = "images.csv" /\ q[5] = "csv.zip"
    BY <1>4 DEF StepsOf, CsvSteps
  <2> HIDE DEF q, T
  <2>2. /\ n = 1 \/ n = 2 \/ n = 3 \/ n = 4 \/ n = 5
        /\ n > 1 => "readAssets" \in T
        /\ n > 4 => {"pages.csv", "links.csv", "images.csv"} \subseteq T
    BY <1>1, <2>1 DEF q, T
  <2>3. InOrder(q[n], T)
    BY <2>1, <2>2, NeededBy DEF InOrder
  <2> QED
    BY <1>4, <2>3 DEF q, T
<1>5. CASE op = "xlsx"
  <2>1. /\ Len(q) = 3 /\ q[1] = "pages.xlsx" /\ q[2] = "tables.xlsx" /\ q[3] = "xlsx.zip"
    BY <1>5 DEF StepsOf, XlsxSteps
  <2> HIDE DEF q, T
  <2>2. /\ n = 1 \/ n = 2 \/ n = 3
        /\ n > 2 => {"pages.xlsx", "tables.xlsx"} \subseteq T
    BY <1>1, <2>1 DEF q, T
  <2>3. InOrder(q[n], T)
    BY <2>1, <2>2, NeededBy DEF InOrder
  <2> QED
    BY <1>5, <2>3 DEF q, T
<1>6. CASE op = "markdown"
  <2>1. /\ Len(q) = 2 /\ q[1] = "markdown" /\ q[2] = "markdown.zip"
    BY <1>6 DEF StepsOf, MarkdownSteps
  <2> HIDE DEF q, T
  <2>2. /\ n = 1 \/ n = 2
        /\ n > 1 => "markdown" \in T
    BY <1>1, <2>1 DEF q, T
  <2>3. InOrder(q[n], T)
    BY <2>1, <2>2, NeededBy DEF InOrder
  <2> QED
    BY <1>6, <2>3 DEF q, T
<1>7. CASE op = "zip"
  <2>1. /\ Len(q) = 19 /\ q[1] = "keepAssets" /\ q[2] = "readAssets" /\ q[3] = "pages.json"
        /\ q[4] = "json.zip" /\ q[5] = "structured.json" /\ q[6] = "readAssets"
        /\ q[7] = "pages.csv" /\ q[8] = "links.csv" /\ q[9] = "images.csv"
        /\ q[10] = "csv.zip" /\ q[11] = "links.csv" /\ q[12] = "images.csv"
        /\ q[13] = "pages.xlsx" /\ q[14] = "tables.xlsx" /\ q[15] = "xlsx.zip"
        /\ q[16] = "markdown" /\ q[17] = "markdown.zip" /\ q[18] = "summary.json"
        /\ q[19] = "result.zip"
    BY <1>7 DEF StepsOf, ZipSteps
  <2> HIDE DEF q, T
  <2>2. n \in 1..19 /\ \A k \in 1..(n - 1) : q[k] \in T
    BY <1>1, <2>1 DEF q, T
  <2>3. InOrder(q[n], T) /\ (n > 1 => "keepAssets" \in T)
    BY <2>1, <2>2, ZipInOrder
  <2> QED
    BY <2>3 DEF q, T
<1> QED
  BY <1>3, <1>4, <1>5, <1>6, <1>7 DEF Exports

LEMMA LengthsKnown ==
    /\ \A op \in Exports : Len(StepsOf(op)) \in Nat
    /\ \A k \in 1..19 : ZipSteps[k] = "csv.zip" => k = 10
    /\ Len(ZipSteps) = 19
<1>1. /\ Len(JsonSteps) = 3 /\ Len(CsvSteps) = 5 /\ Len(XlsxSteps) = 3
      /\ Len(MarkdownSteps) = 2 /\ Len(ZipSteps) = 19
  BY DEF JsonSteps, CsvSteps, XlsxSteps, MarkdownSteps, ZipSteps
<1>2. \A op \in Exports : Len(StepsOf(op)) \in {2, 3, 5, 19}
  BY <1>1 DEF StepsOf, Exports
<1>3. ASSUME NEW k \in 1..19, ZipSteps[k] = "csv.zip" PROVE k = 10
  BY <1>3 DEF ZipSteps
<1> QED
  BY <1>1, <1>2, <1>3

LEMMA TakenNext ==
    ASSUME NEW op, NEW n \in Nat \ {0}
    PROVE  StepsTaken(op, n + 1) = StepsTaken(op, n) \cup {StepsOf(op)[n]}
<1>1. 1..(n + 1 - 1) = 1..(n - 1) \cup {n}
  OBVIOUS
<1> QED
  BY <1>1 DEF StepsTaken

LEMMA NoExporterShape ==
    /\ NoExporter \in ExporterType /\ NoExporter.step = 0
    /\ 0 \in 0..Len(StepsOf(NoExporter.op))
<1>1. "json" \in Exports /\ 0 \in Editions
  BY FolderConstants DEF Exports, Editions, Unfinished
<1>2. NoExporter \in ExporterType /\ NoExporter.step = 0 /\ NoExporter.op = "json"
  BY <1>1 DEF NoExporter, ExporterType
<1> QED
  BY <1>1, <1>2, LengthsKnown

\* An export goes on to its next step or ends.
LEMMA OnwardShape ==
    ASSUME NEW e \in ExporterType, e.step \in 1..Len(StepsOf(e.op))
    PROVE  /\ Onward(e) \in ExporterType
           /\ Onward(e).step \in 0..Len(StepsOf(Onward(e).op))
           /\ Onward(e).step # 0 =>
                 /\ Onward(e).op = e.op /\ Onward(e).step = e.step + 1 /\ ~Onward(e).open
                 /\ Onward(e).pages = e.pages /\ Onward(e).assets = e.assets
                 /\ Onward(e).kept = e.kept /\ Onward(e).mixed = e.mixed
<1>1. /\ e.op \in Exports /\ e.step \in Nat /\ Len(StepsOf(e.op)) \in Nat
      /\ Len(StepsOf("json")) \in Nat
  BY LengthsKnown DEF ExporterType, Exports
<1>2. NoExporter \in ExporterType /\ NoExporter.step = 0 /\ NoExporter.op = "json"
  <2>1. "json" \in Exports /\ 0 \in Editions
    BY FolderConstants DEF Exports, Editions, Unfinished
  <2> QED
    BY <2>1 DEF NoExporter, ExporterType
<1> DEFINE m == [e EXCEPT !.step = e.step + 1, !.open = FALSE, !.packing = {}]
<1>3. /\ m \in ExporterType /\ m.op = e.op /\ m.step = e.step + 1 /\ ~m.open
      /\ m.pages = e.pages /\ m.assets = e.assets /\ m.kept = e.kept /\ m.mixed = e.mixed
  <2> DEFINE n == e.step + 1
  <2>1. n \in Nat
    BY <1>1
  <2> HIDE DEF n
  <2>2. m \in ExporterType
    BY <2>1 DEF ExporterType, n
  <2>3. /\ m.op = e.op /\ m.step = n /\ ~m.open
        /\ m.pages = e.pages /\ m.assets = e.assets /\ m.kept = e.kept /\ m.mixed = e.mixed
    BY DEF ExporterType, n
  <2> QED
    BY <2>2, <2>3 DEF n
<1>4. Onward(e) = IF e.step = Len(StepsOf(e.op)) THEN NoExporter ELSE m
  BY DEF Onward
<1> HIDE DEF m
<1>5. CASE e.step = Len(StepsOf(e.op))
  BY <1>1, <1>2, <1>4, <1>5
<1>6. CASE e.step # Len(StepsOf(e.op))
  BY <1>1, <1>3, <1>4, <1>6
<1> QED
  BY <1>5, <1>6

\* Export m is e with a step more behind it, and has done it for the rows of edition ed.
MovesOn(e, m, files, ed) ==
    LET taken == StepsTaken(e.op, e.step) \cup {StepsOf(e.op)[e.step]}
    IN  /\ e \in ExporterType /\ e.step \in 1..Len(StepsOf(e.op))
        /\ m.op = e.op /\ m.step = e.step + 1 /\ ~m.open /\ m.pages = ed
        /\ "readAssets" \in taken => m.assets = ed
        /\ "keepAssets" \in taken => m.kept = ed
        /\ \A s \in taken : \A f \in WrittenAt(s, ed) : files[f] = {ed}

\* An export that has left an archive or a file behind keeps what is said of it.
LEMMA FaithfulOnward ==
    ASSUME NEW e, NEW m, NEW files, NEW ed, MovesOn(e, m, files, ed)
    PROVE  Faithful(m, files, ed)
<1> DEFINE taken == StepsTaken(e.op, e.step) \cup {StepsOf(e.op)[e.step]}
<1>1. /\ e \in ExporterType /\ e.step \in 1..Len(StepsOf(e.op))
      /\ m.op = e.op /\ m.step = e.step + 1 /\ ~m.open /\ m.pages = ed
      /\ "readAssets" \in taken => m.assets = ed
      /\ "keepAssets" \in taken => m.kept = ed
      /\ \A s \in taken : \A f \in WrittenAt(s, ed) : files[f] = {ed}
  BY DEF MovesOn
<1>2. e.step \in Nat \ {0}
  BY <1>1 DEF ExporterType
<1>3. StepsTaken(m.op, m.step) = taken
  BY <1>1, <1>2, TakenNext
<1> HIDE DEF taken
<1> QED
  BY <1>1, <1>3 DEF Faithful

\* Export x becomes the record m, the others stay.
LEMMA OneExporter ==
    ASSUME FolderInv, NEW x \in Exporters, Exporting(x), NEW m \in ExporterType,
           exporter' = [exporter EXCEPT ![x] = m], m.step \in 0..Len(StepsOf(m.op)),
           edition' = edition, folder' \in [FileNames -> SUBSET Editions], ArchivesAreWhole',
           m.step # 0 => m.mixed = exporter[x].mixed,
           (m.step # 0 /\ Faithful(exporter[x], folder, edition)) => Faithful(m, folder', edition)
    PROVE  FolderInv'
<1>1. /\ exporter' \in [Exporters -> ExporterType] /\ exporter'[x] = m
      /\ \A y \in Exporters \ {x} : exporter'[y] = exporter[y]
  BY DEF FolderInv
<1>2. \A y \in Exporters : exporter'[y].step \in 0..Len(StepsOf(exporter'[y].op))
  BY <1>1 DEF FolderInv
<1>3. ASSUME NEW y \in Exporters, Exporting(y)', ~exporter'[y].mixed
      PROVE  Alone(y)'
  <2>1. CASE y = x
    <3>1. m.step # 0 /\ ~exporter[x].mixed
      BY <1>1, <1>3, <2>1 DEF Exporting
    <3>2. Alone(x)
      BY <3>1 DEF FolderInv
    <3>3. \A z \in Exporters \ {x} : ~Exporting(z)'
      BY <1>1, <3>2 DEF Alone, Exporting
    <3>4. Faithful(m, folder', edition')
      BY <3>1, <3>2 DEF Alone
    <3> QED
      BY <1>1, <2>1, <3>3, <3>4 DEF Alone
  <2>2. CASE y # x
    <3>1. Exporting(y) /\ ~exporter[y].mixed
      BY <1>1, <1>3, <2>2 DEF Exporting
    <3>2. ~Exporting(x)
      BY <2>2, <3>1 DEF FolderInv, Alone
    <3> QED
      BY <3>2
  <2> QED
    BY <2>1, <2>2
<1> QED
  BY <1>1, <1>2, <1>3 DEF FolderInv

\* What an action finds of the export it moves.
LEMMA ExporterFacts ==
    ASSUME FolderInv, NEW x \in Exporters, Exporting(x)
    PROVE  /\ exporter[x] \in ExporterType
           /\ exporter[x].step \in 1..Len(StepsOf(exporter[x].op))
           /\ InOrder(Now(x), StepsTaken(exporter[x].op, exporter[x].step))
           /\ exporter[x].op = "zip" /\ exporter[x].step > 1 =>
                 "keepAssets" \in StepsTaken(exporter[x].op, exporter[x].step)
           /\ Now(x) = StepsOf(exporter[x].op)[exporter[x].step]
           /\ edition \in 1..MaxEdition /\ edition \in Editions /\ edition \in Nat
<1>1. /\ exporter[x] \in ExporterType /\ edition \in 1..MaxEdition
      /\ exporter[x].step \in 0..Len(StepsOf(exporter[x].op)) /\ exporter[x].step # 0
  BY DEF FolderInv, Exporting
<1>2. exporter[x].op \in Exports /\ exporter[x].step \in Nat
  BY <1>1 DEF ExporterType
<1>3. exporter[x].step \in 1..Len(StepsOf(exporter[x].op))
  <2>1. Len(StepsOf(exporter[x].op)) \in Nat
    BY <1>2, LengthsKnown
  <2> QED
    BY <1>1, <1>2, <2>1
<1>4. edition \in Editions /\ edition \in Nat
  BY <1>1, FolderConstants DEF Editions, Unfinished
<1> QED
  BY <1>1, <1>2, <1>3, <1>4, StepsInOrder DEF Now

LEMMA StepKinds ==
    /\ Streamed \cap Archives = {} /\ AtOnce \cap Archives = {} /\ Streamed \cap AtOnce = {}
    /\ Streamed \subseteq FileNames
    /\ \A s \in {"readAssets", "keepAssets"} : s \notin Streamed \cup AtOnce \cup Archives
    /\ \A s \in Streamed \cup AtOnce : s # "readAssets" /\ s # "keepAssets"
    /\ \A a \in Archives : a # "readAssets" /\ a # "keepAssets"
    /\ \A s \in {"readAssets", "keepAssets"} \cup Archives, e \in Editions : WrittenAt(s, e) = {}
<1>1. Archives = {"json.zip", "csv.zip", "xlsx.zip", "markdown.zip", "result.zip"}
  BY NeededBy
<1> QED
  BY <1>1 DEF Streamed, AtOnce, FileNames, DataFiles, WrittenAt

LEMMA ReadAssetsKeeps ==
    ASSUME FolderInv, NEW x \in Exporters, ReadAssets(x) PROVE FolderInv'
<1>1. /\ Exporting(x) /\ Now(x) \in {"readAssets", "keepAssets"}
      /\ UNCHANGED <<wanted, edition, folder, archive>>
  BY DEF ReadAssets
<1> DEFINE e == exporter[x]
           g == IF Now(x) = "keepAssets" THEN [e EXCEPT !.kept = edition]
                ELSE [e EXCEPT !.assets = edition]
<1>2. exporter' = [exporter EXCEPT ![x] = Onward(g)]
  BY DEF ReadAssets
<1>3. /\ e \in ExporterType /\ e.step \in 1..Len(StepsOf(e.op))
      /\ Now(x) = StepsOf(e.op)[e.step] /\ edition \in Editions
  BY <1>1, ExporterFacts
<1>4. /\ g \in ExporterType /\ g.op = e.op /\ g.step = e.step /\ g.pages = e.pages
      /\ g.mixed = e.mixed /\ g.open = e.open
  <2>1. CASE Now(x) = "keepAssets"
    BY <1>3, <2>1 DEF ExporterType
  <2>2. CASE Now(x) # "keepAssets"
    BY <1>3, <2>2 DEF ExporterType
  <2> QED
    BY <2>1, <2>2
<1>5. /\ Now(x) = "keepAssets" => g.kept = edition /\ g.assets = e.assets
      /\ Now(x) # "keepAssets" => g.assets = edition /\ g.kept = e.kept
  BY <1>3 DEF ExporterType
<1> HIDE DEF g
<1>6. PICK m \in ExporterType : m = Onward(g)
  BY <1>3, <1>4, OnwardShape
<1>7. /\ m.step \in 0..Len(StepsOf(m.op))
      /\ m.step # 0 => /\ m.op = e.op /\ m.step = e.step + 1 /\ ~m.open
                       /\ m.pages = e.pages /\ m.assets = g.assets
                       /\ m.kept = g.kept /\ m.mixed = e.mixed
  BY <1>3, <1>4, <1>6, OnwardShape
<1>8. ArchivesAreWhole' /\ edition' = edition /\ folder' \in [FileNames -> SUBSET Editions]
  BY <1>1 DEF FolderInv, ArchivesAreWhole
<1>9. ASSUME m.step # 0, Faithful(e, folder, edition) PROVE Faithful(m, folder', edition)
  <2>1. /\ m.pages = edition
        /\ "readAssets" \in StepsTaken(e.op, e.step) => e.assets = edition
        /\ "keepAssets" \in StepsTaken(e.op, e.step) => e.kept = edition
    BY <1>7, <1>9 DEF Faithful
  <2>2. /\ "readAssets" \in StepsTaken(e.op, e.step) \cup {Now(x)} => m.assets = edition
        /\ "keepAssets" \in StepsTaken(e.op, e.step) \cup {Now(x)} => m.kept = edition
    BY <1>1, <1>5, <1>7, <1>9, <2>1
  <2>3. \A s \in StepsTaken(e.op, e.step) : \A f \in WrittenAt(s, edition) : folder[f] = {edition}
    BY <1>1, <1>3, <1>9, StepKinds DEF Faithful
  <2>4. \A s \in StepsTaken(e.op, e.step) \cup {Now(x)} :
           \A f \in WrittenAt(s, edition) : folder'[f] = {edition}
    BY <1>1, <1>3, <2>3, StepKinds
  <2>5. PICK files : files = folder'
    OBVIOUS
  <2> HIDE DEF e
  <2>6. /\ e \in ExporterType /\ e.step \in 1..Len(StepsOf(e.op))
        /\ m.op = e.op /\ m.step = e.step + 1 /\ ~m.open /\ m.pages = edition
    BY <1>3, <1>7, <1>9, <2>1
  <2>7. /\ "readAssets" \in StepsTaken(e.op, e.step) \cup {StepsOf(e.op)[e.step]} =>
              m.assets = edition
        /\ "keepAssets" \in StepsTaken(e.op, e.step) \cup {StepsOf(e.op)[e.step]} =>
              m.kept = edition
    BY <1>3, <2>2
  <2>8. \A s \in StepsTaken(e.op, e.step) \cup {StepsOf(e.op)[e.step]} :
           \A f \in WrittenAt(s, edition) : files[f] = {edition}
    BY <1>3, <2>4, <2>5
  <2>9. MovesOn(e, m, files, edition)
    BY <2>6, <2>7, <2>8 DEF MovesOn
  <2>10. Faithful(m, files, edition)
    BY <2>9, FaithfulOnward
  <2> QED
    BY <2>5, <2>10
<1> QED
  BY <1>1, <1>2, <1>6, <1>7, <1>8, <1>9, OneExporter


\* What a step writes is of the edition of a faithful export.
LEMMA MadeFaithful ==
    ASSUME FolderInv, NEW x \in Exporters, Exporting(x), Now(x) \in Streamed \cup AtOnce,
           Faithful(exporter[x], folder, edition)
    PROVE  /\ WrittenAt(Now(x), edition) \subseteq DOMAIN Made(x)
           /\ \A f \in DOMAIN Made(x) : Made(x)[f] = {edition}
           /\ Now(x) \in Streamed => Now(x) \in DOMAIN Made(x)
<1> DEFINE e == exporter[x]
           again == e.op = "zip" /\ \E k \in 1..e.step : ZipSteps[k] = "csv.zip"
<1>1. /\ e \in ExporterType /\ e.step \in 1..Len(StepsOf(e.op)) /\ e.step \in Nat
      /\ InOrder(Now(x), StepsTaken(e.op, e.step)) /\ e.pages = edition
      /\ "readAssets" \in StepsTaken(e.op, e.step) => e.assets = edition
      /\ "keepAssets" \in StepsTaken(e.op, e.step) => e.kept = edition
      /\ e.op = "zip" /\ e.step > 1 => "keepAssets" \in StepsTaken(e.op, e.step)
  BY ExporterFacts DEF Faithful
<1>2. again => e.kept = edition
  <2> SUFFICES ASSUME e.op = "zip", NEW k \in 1..e.step, ZipSteps[k] = "csv.zip"
               PROVE  e.kept = edition
    OBVIOUS
  <2>1. Len(StepsOf(e.op)) = 19
    BY LengthsKnown DEF StepsOf
  <2>2. e.step \in 1..19 /\ k \in 1..e.step
    BY <1>1, <2>1
  <2> HIDE DEF e
  <2>3. k \in 1..19
    BY <2>2
  <2>4. k = 10
    BY <2>3, LengthsKnown
  <2>5. e.step > 1
    BY <2>2, <2>4
  <2> QED
    BY <1>1, <2>5
<1>3. Now(x) \in {"pages.json", "links.csv", "images.csv"} => e.assets = edition
  BY <1>1 DEF InOrder
<1>4. Made(x) = CASE Now(x) = "pages.json" ->
                       [f \in {"pages.json"} \cup IF e.pages \in Structured
                                                  THEN {"structured.json"} ELSE {} |->
                           IF f = "pages.json" THEN {e.pages, e.assets} ELSE {e.pages}]
                  [] Now(x) \in {"links.csv", "images.csv"} ->
                       [f \in {Now(x)} |-> {e.pages, IF again THEN e.kept ELSE e.assets}]
                  [] Now(x) = "structured.json" ->
                       [f \in IF e.pages \in Structured THEN {Now(x)} ELSE {} |-> {e.pages}]
                  [] Now(x) = "markdown" -> [f \in MarkdownFiles[e.pages] |-> {e.pages}]
                  [] OTHER -> [f \in {Now(x)} |-> {e.pages}]
  BY DEF Made
<1> HIDE DEF again, e
<1>5. CASE Now(x) = "pages.json"
  BY <1>1, <1>3, <1>4, <1>5 DEF WrittenAt, Streamed
<1>6. CASE Now(x) \in {"links.csv", "images.csv"}
  BY <1>1, <1>2, <1>3, <1>4, <1>6 DEF WrittenAt, Streamed
<1>7. CASE Now(x) = "structured.json"
  BY <1>1, <1>4, <1>7 DEF WrittenAt, Streamed
<1>8. CASE Now(x) = "markdown"
  BY <1>1, <1>4, <1>8 DEF WrittenAt, Streamed
<1>9. CASE Now(x) \in {"pages.csv", "pages.xlsx", "tables.xlsx", "summary.json"}
  BY <1>1, <1>4, <1>9 DEF WrittenAt, Streamed
<1> QED
  BY <1>5, <1>6, <1>7, <1>8, <1>9 DEF Streamed, AtOnce

\* Whatever the rows, a step writes editions there are.
LEMMA MadeTyped ==
    ASSUME FolderInv, NEW x \in Exporters, Exporting(x)
    PROVE  \A f \in DOMAIN Made(x) : Made(x)[f] \subseteq Editions
<1>1. /\ exporter[x].pages \in Editions /\ exporter[x].assets \in Editions
      /\ exporter[x].kept \in Editions
  BY ExporterFacts DEF ExporterType
<1>2. CASE Now(x) = "pages.json"
  BY <1>1, <1>2 DEF Made
<1>3. CASE Now(x) \in {"links.csv", "images.csv"}
  BY <1>1, <1>3 DEF Made
<1>4. CASE Now(x) \notin {"pages.json", "links.csv", "images.csv"}
  BY <1>1, <1>4 DEF Made
<1> QED
  BY <1>2, <1>3, <1>4

LEMMA WriteFilesKeeps ==
    ASSUME FolderInv, NEW x \in Exporters, WriteFiles(x) PROVE FolderInv'
<1> DEFINE e == exporter[x]
<1>1. /\ Exporting(x) /\ Now(x) \in Streamed \cup AtOnce /\ (Now(x) \in Streamed => e.open)
      /\ folder' = [f \in FileNames |-> IF f \in DOMAIN Made(x) THEN Made(x)[f] ELSE folder[f]]
      /\ exporter' = [exporter EXCEPT ![x] = Onward(e)]
      /\ UNCHANGED <<wanted, edition, archive>>
  BY StepKinds DEF WriteFiles
<1>2. /\ e \in ExporterType /\ e.step \in 1..Len(StepsOf(e.op))
      /\ Now(x) = StepsOf(e.op)[e.step] /\ edition \in 1..MaxEdition
  BY <1>1, ExporterFacts
<1>3. PICK m \in ExporterType : m = Onward(e)
  BY <1>2, OnwardShape
<1>4. /\ m.step \in 0..Len(StepsOf(m.op))
      /\ m.step # 0 => /\ m.op = e.op /\ m.step = e.step + 1 /\ ~m.open
                       /\ m.pages = e.pages /\ m.assets = e.assets
                       /\ m.kept = e.kept /\ m.mixed = e.mixed
  BY <1>2, <1>3, OnwardShape
<1>5. PICK files : files = folder'
  OBVIOUS
<1>6. files \in [FileNames -> SUBSET Editions]
  BY <1>1, <1>5, MadeTyped DEF FolderInv
<1>7. ArchivesAreWhole' /\ edition' = edition
  BY <1>1 DEF FolderInv, ArchivesAreWhole
<1>8. ASSUME m.step # 0, Faithful(e, folder, edition) PROVE Faithful(m, files, edition)
  <2>1. /\ WrittenAt(Now(x), edition) \subseteq DOMAIN Made(x)
        /\ \A f \in DOMAIN Made(x) : Made(x)[f] = {edition}
        /\ Now(x) \in Streamed => Now(x) \in DOMAIN Made(x)
    BY <1>1, <1>8, MadeFaithful
  <2>2. \A s \in StepsTaken(e.op, e.step) : \A f \in WrittenAt(s, edition) :
           folder[f] = {edition} \/ f \in DOMAIN Made(x)
    BY <1>2, <1>8, <2>1 DEF Faithful
  <2>3. \A s : WrittenAt(s, edition) \subseteq FileNames
    BY <1>2 DEF WrittenAt, Streamed, FileNames, DataFiles, AllMarkdown
  <2>4. \A s \in StepsTaken(e.op, e.step) \cup {Now(x)} :
           \A f \in WrittenAt(s, edition) : files[f] = {edition}
    BY <1>1, <1>5, <2>1, <2>2, <2>3
  <2>5. /\ m.pages = edition
        /\ "readAssets" \in StepsTaken(e.op, e.step) => m.assets = edition
        /\ "keepAssets" \in StepsTaken(e.op, e.step) => m.kept = edition
    BY <1>4, <1>8 DEF Faithful
  <2>6. Now(x) # "readAssets" /\ Now(x) # "keepAssets"
    BY <1>1, StepKinds
  <2> HIDE DEF e
  <2>7. /\ e \in ExporterType /\ e.step \in 1..Len(StepsOf(e.op))
        /\ m.op = e.op /\ m.step = e.step + 1 /\ ~m.open /\ m.pages = edition
    BY <1>2, <1>4, <1>8, <2>5
  <2>8. /\ "readAssets" \in StepsTaken(e.op, e.step) \cup {StepsOf(e.op)[e.step]} =>
              m.assets = edition
        /\ "keepAssets" \in StepsTaken(e.op, e.step) \cup {StepsOf(e.op)[e.step]} =>
              m.kept = edition
    BY <1>2, <2>5, <2>6
  <2>9. \A s \in StepsTaken(e.op, e.step) \cup {StepsOf(e.op)[e.step]} :
           \A f \in WrittenAt(s, edition) : files[f] = {edition}
    BY <1>2, <2>4
  <2>10. MovesOn(e, m, files, edition)
    BY <2>7, <2>8, <2>9 DEF MovesOn
  <2> QED
    BY <2>10, FaithfulOnward
<1> QED
  BY <1>1, <1>3, <1>4, <1>5, <1>6, <1>7, <1>8, OneExporter

\* An export that stays at its step with the file or archive open.
LEMMA OpenedShape ==
    ASSUME NEW e \in ExporterType, NEW p \in SUBSET FileNames
    PROVE  LET m == [e EXCEPT !.open = TRUE, !.packing = p]
           IN  /\ m \in ExporterType /\ m.op = e.op /\ m.step = e.step /\ m.open
               /\ m.pages = e.pages /\ m.assets = e.assets /\ m.kept = e.kept
               /\ m.mixed = e.mixed /\ m.packing = p
<1> DEFINE m == [e EXCEPT !.open = TRUE, !.packing = p]
<1>1. m \in ExporterType
  BY DEF ExporterType
<1>2. /\ m.op = e.op /\ m.step = e.step /\ m.open /\ m.pages = e.pages /\ m.assets = e.assets
      /\ m.kept = e.kept /\ m.mixed = e.mixed /\ m.packing = p
  BY DEF ExporterType
<1> QED
  BY <1>1, <1>2

LEMMA OpenFileKeeps ==
    ASSUME FolderInv, NEW x \in Exporters, OpenFile(x) PROVE FolderInv'
<1> DEFINE e == exporter[x]
<1>1. /\ Exporting(x) /\ Now(x) \in Streamed /\ ~e.open
      /\ folder' = [folder EXCEPT ![Now(x)] = {Unfinished}]
      /\ exporter' = [exporter EXCEPT ![x].open = TRUE]
      /\ UNCHANGED <<wanted, edition, archive>>
  BY DEF OpenFile
<1>2. /\ e \in ExporterType /\ e.step \in 1..Len(StepsOf(e.op))
      /\ Now(x) = StepsOf(e.op)[e.step] /\ edition \in 1..MaxEdition
  BY <1>1, ExporterFacts
<1>3. PICK m : m = [e EXCEPT !.open = TRUE]
  OBVIOUS
<1>4. /\ m \in ExporterType /\ m.op = e.op /\ m.step = e.step /\ m.open
      /\ m.pages = e.pages /\ m.assets = e.assets /\ m.kept = e.kept
      /\ m.mixed = e.mixed /\ m.packing = e.packing
  BY <1>2, <1>3 DEF ExporterType
<1>5. exporter' = [exporter EXCEPT ![x] = m]
  BY <1>1, <1>3
<1>6. PICK files : files = folder'
  OBVIOUS
<1>7. {Unfinished} \in SUBSET Editions /\ Now(x) \in FileNames
  BY <1>1, StepKinds, FolderConstants DEF Editions, Unfinished
<1>8. /\ files \in [FileNames -> SUBSET Editions]
      /\ \A f \in FileNames : f # Now(x) => files[f] = folder[f]
  BY <1>1, <1>6, <1>7 DEF FolderInv
<1>9. ArchivesAreWhole' /\ edition' = edition /\ m.step \in 0..Len(StepsOf(m.op))
  BY <1>1, <1>2, <1>4 DEF ArchivesAreWhole, FolderInv
<1>10. ASSUME Faithful(e, folder, edition) PROVE Faithful(m, files, edition)
  <2>1. \A s : WrittenAt(s, edition) \subseteq FileNames
    BY <1>2 DEF WrittenAt, Streamed, FileNames, DataFiles, AllMarkdown
  <2>2. \A s \in StepsTaken(e.op, e.step) : \A f \in WrittenAt(s, edition) : folder[f] = {edition}
    BY <1>1, <1>10 DEF Faithful
  <2>3. \A s \in StepsTaken(e.op, e.step) : \A f \in WrittenAt(s, edition) :
           files[f] = {edition} \/ f = Now(x)
    BY <1>8, <2>1, <2>2
  <2>4. Now(x) \notin Archives
    BY <1>1, StepKinds
  <2>5. /\ m.pages = edition
        /\ "readAssets" \in StepsTaken(e.op, e.step) => m.assets = edition
        /\ "keepAssets" \in StepsTaken(e.op, e.step) => m.kept = edition
    BY <1>4, <1>10 DEF Faithful
  <2> HIDE DEF e
  <2> QED
    BY <1>1, <1>2, <1>4, <2>3, <2>4, <2>5 DEF Faithful
<1> QED
  BY <1>1, <1>4, <1>5, <1>6, <1>8, <1>9, <1>10, OneExporter

\* Each file that belongs to an archive is there, and of the edition, when a faithful
\* export comes to pack it.
LEMMA AllThere ==
    ASSUME FolderInv, NEW x \in Exporters, Exporting(x), Now(x) \in Archives,
           Faithful(exporter[x], folder, edition)
    PROVE  \A f \in Expected(Now(x), edition) : f \in Members[Now(x)] /\ folder[f] = {edition}
<1>1. /\ edition \in 1..MaxEdition
      /\ Now(x) = StepsOf(exporter[x].op)[exporter[x].step]
      /\ Needed(Now(x)) \subseteq StepsTaken(exporter[x].op, exporter[x].step)
  BY ExporterFacts DEF InOrder
<1>2. Now(x) \notin Streamed
  BY StepKinds
<1>3. \A s \in Needed(Now(x)) : \A f \in WrittenAt(s, edition) : folder[f] = {edition}
  BY <1>1, <1>2 DEF Faithful
<1>4. Expected(Now(x), edition) \subseteq UNION {WrittenAt(s, edition) : s \in Needed(Now(x))}
  BY <1>1, ExpectedWritten
<1>5. \A f \in Expected(Now(x), edition) : f \in Members[Now(x)]
  BY DEF Expected
<1> QED
  BY <1>3, <1>4, <1>5

LEMMA OpenArchiveKeeps ==
    ASSUME FolderInv, NEW x \in Exporters, OpenArchive(x) PROVE FolderInv'
<1> DEFINE e == exporter[x]
           p == {f \in Members[Now(x)] : folder[f] # NoFile}
<1>1. /\ Exporting(x) /\ Now(x) \in Archives /\ ~e.open
      /\ UNCHANGED <<wanted, edition, folder, archive>>
  BY DEF OpenArchive
<1>2. exporter' = [exporter EXCEPT ![x] = [e EXCEPT !.open = TRUE, !.packing = p]]
  BY DEF OpenArchive
<1>3. /\ e \in ExporterType /\ e.step \in 1..Len(StepsOf(e.op))
      /\ Now(x) = StepsOf(e.op)[e.step] /\ edition \in 1..MaxEdition
  BY <1>1, ExporterFacts
<1>4. p \in SUBSET FileNames
  BY <1>1 DEF Archives, Members, FileNames, DataFiles
<1>5. PICK m : m = [e EXCEPT !.open = TRUE, !.packing = p]
  <2> HIDE DEF e, p
  <2> QED
    OBVIOUS
<1>6. /\ m \in ExporterType /\ m.op = e.op /\ m.step = e.step /\ m.open
      /\ m.pages = e.pages /\ m.assets = e.assets /\ m.kept = e.kept
      /\ m.mixed = e.mixed /\ m.packing = p
  <2> HIDE DEF e, p
  <2> QED
    BY <1>3, <1>4, <1>5, OpenedShape
<1>7. /\ ArchivesAreWhole' /\ edition' = edition /\ m.step \in 0..Len(StepsOf(m.op))
      /\ folder' \in [FileNames -> SUBSET Editions]
  BY <1>1, <1>3, <1>6 DEF ArchivesAreWhole, FolderInv
<1>8. ASSUME Faithful(e, folder, edition) PROVE Faithful(m, folder, edition)
  <2>1. Expected(Now(x), edition) \subseteq p
    BY <1>1, <1>8, AllThere DEF NoFile
  <2>2. /\ m.pages = edition
        /\ "readAssets" \in StepsTaken(e.op, e.step) => m.assets = edition
        /\ "keepAssets" \in StepsTaken(e.op, e.step) => m.kept = edition
        /\ \A s \in StepsTaken(e.op, e.step) :
              \A f \in WrittenAt(s, edition) : folder[f] = {edition}
    BY <1>1, <1>6, <1>8 DEF Faithful
  <2> HIDE DEF e, p
  <2> QED
    BY <1>3, <1>6, <2>1, <2>2 DEF Faithful
<1>9. Faithful(e, folder, edition) => Faithful(m, folder', edition)
  BY <1>1, <1>8
<1> QED
  BY <1>1, <1>2, <1>5, <1>6, <1>7, <1>9, OneExporter

LEMMA CloseArchiveKeeps ==
    ASSUME FolderInv, NEW x \in Exporters, CloseArchive(x) PROVE FolderInv'
<1> DEFINE e == exporter[x]
<1>1. /\ Exporting(x) /\ Now(x) \in Archives /\ e.open
      /\ archive' = [name |-> Now(x), pages |-> e.pages,
                     packed |-> [f \in e.packing |-> folder[f]], mixed |-> e.mixed]
      /\ exporter' = [exporter EXCEPT ![x] = Onward(e)]
      /\ UNCHANGED <<wanted, edition, folder>>
  BY DEF CloseArchive
<1>2. /\ e \in ExporterType /\ e.step \in 1..Len(StepsOf(e.op))
      /\ Now(x) = StepsOf(e.op)[e.step] /\ edition \in 1..MaxEdition
  BY <1>1, ExporterFacts
<1>3. PICK m \in ExporterType : m = Onward(e)
  BY <1>2, OnwardShape
<1>4. /\ m.step \in 0..Len(StepsOf(m.op))
      /\ m.step # 0 => /\ m.op = e.op /\ m.step = e.step + 1 /\ ~m.open
                       /\ m.pages = e.pages /\ m.assets = e.assets
                       /\ m.kept = e.kept /\ m.mixed = e.mixed
  BY <1>2, <1>3, OnwardShape
<1>5. ArchivesAreWhole'
  <2>1. SUFFICES ASSUME ~e.mixed, NEW f \in Expected(Now(x), e.pages)
                 PROVE  f \in e.packing /\ folder[f] = {e.pages}
    BY <1>1 DEF ArchivesAreWhole, Expected
  <2>2. Faithful(e, folder, edition)
    BY <1>1, <2>1 DEF FolderInv, Alone
  <2>3. e.pages = edition /\ Expected(Now(x), edition) \subseteq e.packing
    BY <1>1, <1>2, <2>2 DEF Faithful
  <2> QED
    BY <1>1, <2>1, <2>2, <2>3, AllThere
<1>6. edition' = edition /\ folder' \in [FileNames -> SUBSET Editions]
  BY <1>1 DEF FolderInv
<1>7. ASSUME m.step # 0, Faithful(e, folder, edition) PROVE Faithful(m, folder, edition)
  <2>1. Now(x) \notin Streamed /\ Now(x) # "readAssets" /\ Now(x) # "keepAssets"
        /\ WrittenAt(Now(x), edition) = {}
    BY <1>1, <1>2, ExporterFacts, StepKinds
  <2>2. \A s \in StepsTaken(e.op, e.step) : \A f \in WrittenAt(s, edition) : folder[f] = {edition}
    BY <1>2, <1>7, <2>1 DEF Faithful
  <2>3. /\ m.pages = edition
        /\ "readAssets" \in StepsTaken(e.op, e.step) => m.assets = edition
        /\ "keepAssets" \in StepsTaken(e.op, e.step) => m.kept = edition
    BY <1>4, <1>7 DEF Faithful
  <2> HIDE DEF e
  <2>4. /\ e \in ExporterType /\ e.step \in 1..Len(StepsOf(e.op))
        /\ m.op = e.op /\ m.step = e.step + 1 /\ ~m.open /\ m.pages = edition
    BY <1>2, <1>4, <1>7, <2>3
  <2>5. /\ "readAssets" \in StepsTaken(e.op, e.step) \cup {StepsOf(e.op)[e.step]} =>
              m.assets = edition
        /\ "keepAssets" \in StepsTaken(e.op, e.step) \cup {StepsOf(e.op)[e.step]} =>
              m.kept = edition
    BY <1>2, <2>1, <2>3
  <2>6. \A s \in StepsTaken(e.op, e.step) \cup {StepsOf(e.op)[e.step]} :
           \A f \in WrittenAt(s, edition) : folder[f] = {edition}
    BY <1>2, <2>1, <2>2
  <2>7. MovesOn(e, m, folder, edition)
    BY <2>4, <2>5, <2>6 DEF MovesOn
  <2> QED
    BY <2>7, FaithfulOnward
<1>8. (m.step # 0 /\ Faithful(e, folder, edition)) => Faithful(m, folder', edition)
  BY <1>1, <1>7
<1> QED
  BY <1>1, <1>3, <1>4, <1>5, <1>6, <1>8, OneExporter

LEMMA GiveUpKeeps ==
    ASSUME FolderInv, NEW x \in Exporters, GiveUp(x) PROVE FolderInv'
<1>1. /\ Exporting(x) /\ exporter' = [exporter EXCEPT ![x] = NoExporter]
      /\ UNCHANGED <<wanted, edition, folder, archive>>
  BY DEF GiveUp
<1>2. NoExporter \in ExporterType /\ NoExporter.step = 0
      /\ 0 \in 0..Len(StepsOf(NoExporter.op))
  BY NoExporterShape
<1>3. ArchivesAreWhole' /\ edition' = edition /\ folder' \in [FileNames -> SUBSET Editions]
  BY <1>1 DEF FolderInv, ArchivesAreWhole
<1> QED
  BY <1>1, <1>2, <1>3, OneExporter

\* An export that is mixed from now on says nothing.
LEMMA MixedShape ==
    ASSUME NEW e \in ExporterType
    PROVE  LET m == [e EXCEPT !.mixed = TRUE]
           IN  m \in ExporterType /\ m.op = e.op /\ m.step = e.step /\ m.mixed
BY DEF ExporterType

LEMMA SaveAgainKeeps ==
    ASSUME FolderInv, SaveAgain PROVE FolderInv'
<1>1. /\ edition < MaxEdition /\ edition' = edition + 1
      /\ exporter' = [y \in Exporters |->
            IF Exporting(y) THEN [exporter[y] EXCEPT !.mixed = TRUE] ELSE exporter[y]]
      /\ UNCHANGED <<wanted, folder, archive>>
  BY DEF SaveAgain
<1>2. ASSUME NEW y \in Exporters
      PROVE  /\ exporter'[y] \in ExporterType
             /\ exporter'[y].step \in 0..Len(StepsOf(exporter'[y].op))
             /\ ~(Exporting(y)' /\ ~exporter'[y].mixed)
  <2>1. CASE Exporting(y)
    BY <1>1, <2>1, MixedShape DEF FolderInv
  <2>2. CASE ~Exporting(y)
    BY <1>1, <2>2 DEF FolderInv, Exporting
  <2> QED
    BY <2>1, <2>2
<1>3. exporter' \in [Exporters -> ExporterType]
  BY <1>1, <1>2
<1>4. edition' \in 1..MaxEdition
  BY <1>1, FolderConstants DEF FolderInv
<1>5. ArchivesAreWhole' /\ folder' \in [FileNames -> SUBSET Editions]
  BY <1>1 DEF FolderInv, ArchivesAreWhole
<1> QED
  BY <1>2, <1>3, <1>4, <1>5 DEF FolderInv

LEMMA GenerateKeeps ==
    ASSUME FolderInv, NEW x \in Exporters, NEW op \in Exports, Generate(x, op)
    PROVE  FolderInv'
<1> DEFINE others == {y \in Exporters : Exporting(y)}
<1>1. /\ ~Exporting(x) /\ UNCHANGED <<edition, folder, archive>>
      /\ exporter' = [y \in Exporters |->
            IF y = x THEN [NoExporter EXCEPT !.op = op, !.step = 1, !.pages = edition,
                                             !.mixed = others # {}]
            ELSE IF y \in others THEN [exporter[y] EXCEPT !.mixed = TRUE]
            ELSE exporter[y]]
  BY DEF Generate
<1>2. PICK m : m = [NoExporter EXCEPT !.op = op, !.step = 1, !.pages = edition,
                                      !.mixed = others # {}]
  OBVIOUS
<1>3. edition \in Editions /\ edition \in 1..MaxEdition
  BY FolderConstants DEF FolderInv, Editions, Unfinished
<1>4. /\ m \in ExporterType /\ m.op = op /\ m.step = 1 /\ m.pages = edition /\ ~m.open
      /\ m.mixed = (others # {})
  <2>1. NoExporter \in ExporterType /\ ~NoExporter.open /\ (others # {}) \in BOOLEAN
    BY NoExporterShape DEF NoExporter
  <2> HIDE DEF others
  <2> QED
    BY <1>2, <1>3, <2>1 DEF ExporterType
<1>5. 1 \in 0..Len(StepsOf(op))
  <2>1. /\ Len(JsonSteps) = 3 /\ Len(CsvSteps) = 5 /\ Len(XlsxSteps) = 3
        /\ Len(MarkdownSteps) = 2 /\ Len(ZipSteps) = 19
    BY DEF JsonSteps, CsvSteps, XlsxSteps, MarkdownSteps, ZipSteps
  <2>2. Len(StepsOf(op)) \in {2, 3, 5, 19}
    BY <2>1 DEF StepsOf, Exports
  <2> QED
    BY <2>2
<1>6. ASSUME NEW y \in Exporters, y # x
      PROVE  /\ exporter'[y] \in ExporterType
             /\ exporter'[y].step \in 0..Len(StepsOf(exporter'[y].op))
             /\ Exporting(y)' => y \in others /\ exporter'[y].mixed
  <2>1. CASE y \in others
    BY <1>1, <1>6, <2>1, MixedShape DEF FolderInv
  <2>2. CASE y \notin others
    BY <1>1, <1>6, <2>2 DEF FolderInv, Exporting
  <2> QED
    BY <2>1, <2>2
<1>7. exporter'[x] = m
  BY <1>1, <1>2
<1>8. exporter' \in [Exporters -> ExporterType]
  BY <1>1, <1>4, <1>6, <1>7
<1>9. ASSUME others = {} PROVE Alone(x)'
  <2>1. \A y \in Exporters \ {x} : ~Exporting(y)'
    BY <1>6, <1>9
  <2>2. StepsTaken(m.op, m.step) = {}
    BY <1>4 DEF StepsTaken
  <2>3. Faithful(m, folder', edition')
    BY <1>1, <1>4, <2>2 DEF Faithful
  <2> QED
    BY <1>7, <2>1, <2>3 DEF Alone
<1>10. ArchivesAreWhole' /\ folder' \in [FileNames -> SUBSET Editions]
       /\ edition' \in 1..MaxEdition
  BY <1>1, <1>3 DEF FolderInv, ArchivesAreWhole
<1>11. ASSUME NEW y \in Exporters, Exporting(y)', ~exporter'[y].mixed PROVE Alone(y)'
  <2>1. y = x
    BY <1>6, <1>11
  <2>2. others = {}
    BY <1>4, <1>7, <1>11, <2>1
  <2> QED
    BY <1>9, <2>1, <2>2
<1>12. \A y \in Exporters : exporter'[y].step \in 0..Len(StepsOf(exporter'[y].op))
  BY <1>4, <1>5, <1>6, <1>7
<1> HIDE DEF others
<1> QED
  BY <1>8, <1>10, <1>11, <1>12 DEF FolderInv

LEMMA FolderStart == FolderInit => FolderInv
<1> SUFFICES ASSUME FolderInit PROVE FolderInv
  OBVIOUS
<1>1. /\ edition = 1 /\ folder = [f \in FileNames |-> NoFile] /\ archive = NoArchive
      /\ exporter = [x \in Exporters |-> NoExporter]
  BY DEF FolderInit
<1>2. NoExporter \in ExporterType /\ NoExporter.step = 0
      /\ 0 \in 0..Len(StepsOf(NoExporter.op))
  BY NoExporterShape
<1>3. edition \in 1..MaxEdition
  BY <1>1, FolderConstants
<1>4. archive.pages = 0
  BY <1>1 DEF NoArchive
<1>5. folder \in [FileNames -> SUBSET Editions]
  BY <1>1 DEF NoFile
<1> QED
  BY <1>1, <1>2, <1>3, <1>4, <1>5 DEF FolderInv, ArchivesAreWhole, Exporting

LEMMA FolderStep == FolderInv /\ [FolderNext]_folderVars => FolderInv'
<1> SUFFICES ASSUME FolderInv, [FolderNext]_folderVars PROVE FolderInv'
  OBVIOUS
<1>1. CASE UNCHANGED folderVars
  BY <1>1 DEF folderVars, FolderInv, Alone, Exporting, ArchivesAreWhole
<1>2. CASE SaveAgain
  BY <1>2, SaveAgainKeeps
<1>3. ASSUME NEW x \in Exporters,
             \/ \E op \in Exports : Generate(x, op)
             \/ ReadAssets(x) \/ OpenFile(x) \/ WriteFiles(x)
             \/ OpenArchive(x) \/ CloseArchive(x) \/ GiveUp(x)
      PROVE  FolderInv'
  BY <1>3, GenerateKeeps, ReadAssetsKeeps, OpenFileKeeps, WriteFilesKeeps,
     OpenArchiveKeeps, CloseArchiveKeeps, GiveUpKeeps
<1> QED
  BY <1>1, <1>2, <1>3 DEF FolderNext

\* An archive of an export that was alone has every file that belongs to it, complete
\* and of the rows that the export read (zip-export.service.ts:38-336 and the writers it
\* calls), for any number of exports, editions and files of pages.
THEOREM ArchivesWhole == FolderSpec => []ArchivesAreWhole
<1>1. FolderInv => ArchivesAreWhole
  BY DEF FolderInv
<1> QED
  BY <1>1, FolderStart, FolderStep, PTL DEF FolderSpec

\* What FolderInv does not say of the types.
Unsaid ==
    /\ wanted \in [Exports -> Nat]
    /\ archive.name \in Archives /\ archive.pages \in Editions /\ IsPacked(archive.packed)

LEMMA FolderTypesOf == FolderInv /\ Unsaid => FolderTypeOK
<1> SUFFICES ASSUME FolderInv, Unsaid PROVE FolderTypeOK
  OBVIOUS
<1>1. ASSUME NEW x \in Exporters
      PROVE  /\ exporter[x].op \in Exports
             /\ exporter[x].step \in 0..Len(StepsOf(exporter[x].op))
             /\ {exporter[x].pages, exporter[x].assets, exporter[x].kept} \subseteq Editions
             /\ exporter[x].packing \subseteq FileNames
  BY DEF FolderInv, ExporterType
<1> QED
  BY <1>1 DEF FolderInv, Unsaid, FolderTypeOK

LEMMA FolderTypesStart == FolderInit => FolderTypeOK
<1> SUFFICES ASSUME FolderInit PROVE FolderTypeOK
  OBVIOUS
<1>1. FolderInv
  BY FolderStart
<1>2. wanted \in [Exports -> Nat]
  BY ExportsCounted DEF FolderInit
<1>3. archive.name = "result.zip" /\ archive.pages = 0 /\ archive.packed = <<>>
  BY DEF FolderInit, NoArchive
<1>4. archive.name \in Archives /\ archive.pages \in Editions
  BY <1>3, FolderConstants DEF Archives, Members, Editions, Unfinished
<1>5. IsPacked(archive.packed)
  <2>1. DOMAIN archive.packed = {}
    BY <1>3
  <2> QED
    BY <2>1 DEF IsPacked
<1> QED
  BY <1>1, <1>2, <1>4, <1>5, FolderTypesOf DEF Unsaid

LEMMA FolderTypesStep ==
    FolderInv /\ FolderTypeOK /\ [FolderNext]_folderVars => FolderTypeOK'
<1> SUFFICES ASSUME FolderInv, FolderTypeOK, [FolderNext]_folderVars PROVE FolderTypeOK'
  OBVIOUS
<1>1. FolderInv'
  BY FolderStep
<1>2. Unsaid
  BY DEF FolderTypeOK, Unsaid
<1>3. ASSUME UNCHANGED <<wanted, archive>> PROVE Unsaid'
  BY <1>2, <1>3 DEF Unsaid
<1>4. ASSUME NEW x \in Exporters, NEW op \in Exports, Generate(x, op) PROVE Unsaid'
  <2>1. wanted \in [Exports -> Nat] /\ wanted[op] > 0 /\ wanted[op] \in Nat
    BY <1>2, <1>4 DEF Generate, Unsaid
  <2>2. wanted' = [wanted EXCEPT ![op] = @ - 1] /\ archive' = archive
    BY <1>4 DEF Generate
  <2>3. wanted[op] - 1 \in Nat
    BY <2>1
  <2>4. wanted' \in [Exports -> Nat]
    BY <2>1, <2>2, <2>3
  <2> QED
    BY <1>2, <2>2, <2>4 DEF Unsaid
<1>5. ASSUME NEW x \in Exporters, CloseArchive(x) PROVE Unsaid'
  <2> DEFINE e == exporter[x]
  <2>1. /\ Now(x) \in Archives /\ wanted' = wanted
        /\ archive' = [name |-> Now(x), pages |-> e.pages,
                       packed |-> [f \in e.packing |-> folder[f]], mixed |-> e.mixed]
    BY <1>5 DEF CloseArchive
  <2>2. e \in ExporterType /\ folder \in [FileNames -> SUBSET Editions]
    BY DEF FolderInv
  <2>3. e.pages \in Editions /\ e.packing \subseteq FileNames
    BY <2>2 DEF ExporterType
  <2>4. archive'.name \in Archives /\ archive'.pages \in Editions
    BY <2>1, <2>3
  <2>5. archive'.packed = [f \in e.packing |-> folder[f]]
    BY <2>1
  <2>6. IsPacked([f \in e.packing |-> folder[f]])
    BY <2>2, <2>3 DEF IsPacked
  <2>7. IsPacked(archive.packed)'
    BY <2>5, <2>6
  <2> QED
    BY <1>2, <2>1, <2>4, <2>7 DEF Unsaid
<1>6. ASSUME NEW x \in Exporters,
             ReadAssets(x) \/ OpenFile(x) \/ WriteFiles(x) \/ OpenArchive(x) \/ GiveUp(x)
      PROVE  UNCHANGED <<wanted, archive>>
  BY <1>6 DEF ReadAssets, OpenFile, WriteFiles, OpenArchive, GiveUp
<1>7. SaveAgain => UNCHANGED <<wanted, archive>>
  BY DEF SaveAgain
<1>8. UNCHANGED folderVars => UNCHANGED <<wanted, archive>>
  BY DEF folderVars
<1>9. Unsaid'
  BY <1>3, <1>4, <1>5, <1>6, <1>7, <1>8 DEF FolderNext
<1> QED
  <2>1. ASSUME NEW x \in Exporters
        PROVE  /\ exporter'[x].op \in Exports
               /\ exporter'[x].step \in 0..Len(StepsOf(exporter'[x].op))
               /\ {exporter'[x].pages, exporter'[x].assets, exporter'[x].kept} \subseteq Editions
               /\ exporter'[x].packing \subseteq FileNames
    BY <1>1 DEF FolderInv, ExporterType
  <2> QED
    BY <1>1, <1>9, <2>1 DEF FolderInv, Unsaid, FolderTypeOK

-----------------------------------------------------------------------------
(* The calendar *)

LEMMA MonthsHaveDays == \A m \in Nat : DaysInMonth(m) \in Nat \ {0}
<1>1. ASSUME NEW m \in Nat PROVE DaysInMonth(m) \in Nat \ {0}
  <2> DEFINE n == Len(MonthLengths)
  <2>1. n \in Nat \ {0} /\ \A i \in 1..n : MonthLengths[i] \in Nat \ {0}
    BY CalendarOK
  <2> HIDE DEF n
  <2>2. (m % n) + 1 \in 1..n
    BY <2>1
  <2>3. DaysInMonth(m) = MonthLengths[(m % n) + 1]
    BY DEF DaysInMonth, n
  <2> QED
    BY <2>1, <2>2, <2>3
<1> QED
  BY <1>1

LEMMA FirstDays ==
    /\ FirstDay \in [Nat -> Nat] /\ FirstDay[0] = 0
    /\ \A m \in Nat : FirstDay[m + 1] = FirstDay[m] + DaysInMonth(m)
<1> DEFINE step == [q \in Nat \X Nat |-> IF q[1] = 0 THEN 0 ELSE q[2] + DaysInMonth(q[1] - 1)]
           Def(f, m) == IF m = 0 THEN 0 ELSE f[m - 1] + DaysInMonth(m - 1)
<1>1. step \in [Nat \X Nat -> Nat]
  BY MonthsHaveDays
<1>2. PICK g \in [Nat -> Nat] :
         g[0] = 0 /\ \A i \in Nat \ {0} : g[i] = step[<<i, g[i - 1]>>]
  <2>1. \E g : RunsOn(g, Nat, 0, step)
    <3> HIDE DEF step
    <3> QED
      BY <1>1, Recursion
  <2> HIDE DEF step
  <2> QED
    BY <2>1 DEF RunsOn
<1>3. ASSUME NEW m \in Nat PROVE g[m] = Def(g, m)
  <2>1. CASE m = 0
    BY <1>2, <2>1
  <2>2. CASE m # 0
    <3>1. m - 1 \in Nat /\ m \in Nat \ {0}
      BY <2>2
    <3>2. g[m - 1] \in Nat /\ g[m] = step[<<m, g[m - 1]>>]
      <4> HIDE DEF step
      <4> QED
        BY <1>2, <3>1
    <3>3. \A v \in Nat : step[<<m, v>>] = v + DaysInMonth(m - 1)
      BY <2>2
    <3>4. g[m] = g[m - 1] + DaysInMonth(m - 1)
      <4> HIDE DEF step
      <4> QED
        BY <3>2, <3>3
    <3> QED
      BY <2>2, <3>4
  <2> QED
    BY <2>1, <2>2
<1>4. g = [m \in Nat |-> Def(g, m)]
  BY <1>3
<1>5. FirstDay = [m \in Nat |-> Def(FirstDay, m)]
  <2>1. FirstDay = CHOOSE f : f = [m \in Nat |-> Def(f, m)]
    BY DEF FirstDay
  <2> HIDE DEF Def
  <2> QED
    BY <1>4, <2>1
<1>6. \A m \in Nat : FirstDay[m] = Def(FirstDay, m)
  <2> HIDE DEF Def
  <2> QED
    BY <1>5
<1>7. FirstDay[0] = 0
  BY <1>6
<1>8. ASSUME NEW m \in Nat PROVE FirstDay[m + 1] = FirstDay[m] + DaysInMonth(m)
  <2>1. m + 1 \in Nat /\ m + 1 # 0 /\ (m + 1) - 1 = m
    OBVIOUS
  <2>2. FirstDay[m + 1] = FirstDay[(m + 1) - 1] + DaysInMonth((m + 1) - 1)
    BY <1>6, <2>1
  <2> QED
    BY <2>1, <2>2
<1>9. \A m \in Nat : FirstDay[m] \in Nat
  <2> DEFINE Odd == {m \in Nat : FirstDay[m] \notin Nat}
  <2> SUFFICES ASSUME Odd # {} PROVE FALSE
    OBVIOUS
  <2>1. PICK m \in Odd : \A k \in Odd : m <= k
    <3>1. Odd \subseteq Nat
      OBVIOUS
    <3> HIDE DEF Odd
    <3> QED
      BY <3>1, LeastNumber
  <2>2. m \in Nat /\ FirstDay[m] \notin Nat /\ m # 0
    BY <1>7
  <2>3. m - 1 \in Nat /\ (m - 1) + 1 = m /\ m - 1 \notin Odd
    BY <2>1, <2>2
  <2>4. FirstDay[m - 1] \in Nat
    BY <2>3
  <2>5. FirstDay[m] = FirstDay[m - 1] + DaysInMonth(m - 1)
    BY <1>8, <2>3
  <2> QED
    BY <2>2, <2>3, <2>4, <2>5, MonthsHaveDays
<1>10. \E f : FirstDay = [m \in Nat |-> f[m]]
  <2>1. FirstDay = [m \in Nat |-> [i \in Nat |-> Def(FirstDay, i)][m]]
    BY <1>5
  <2> QED
    BY <2>1
<1> QED
  BY <1>7, <1>8, <1>9, <1>10

LEMMA FirstDaysRise ==
    ASSUME NEW m \in Nat, NEW n \in Nat, m < n
    PROVE  FirstDay[m] + DaysInMonth(m) <= FirstDay[n]
<1> DEFINE Low == {k \in Nat : m < k /\ FirstDay[k] < FirstDay[m + 1]}
<1>1. m + 1 \in Nat /\ FirstDay[m + 1] = FirstDay[m] + DaysInMonth(m)
  BY FirstDays
<1>2. \A k \in Nat : FirstDay[k] \in Nat
  BY FirstDays
<1>3. Low = {}
  <2> SUFFICES ASSUME Low # {} PROVE FALSE
    OBVIOUS
  <2>1. PICK k \in Low : \A j \in Low : k <= j
    <3>1. Low \subseteq Nat
      OBVIOUS
    <3> HIDE DEF Low
    <3> QED
      BY <3>1, LeastNumber
  <2>2. k \in Nat /\ m < k /\ FirstDay[k] < FirstDay[m + 1]
    OBVIOUS
  <2>3. k # m + 1
    BY <1>1, <1>2, <2>2
  <2>4. k - 1 \in Nat /\ m < k - 1 /\ k - 1 \notin Low /\ (k - 1) + 1 = k
    BY <2>1, <2>2, <2>3
  <2>5. FirstDay[k] = FirstDay[k - 1] + DaysInMonth(k - 1)
    BY <2>4, FirstDays
  <2>6. ~(FirstDay[k - 1] < FirstDay[m + 1])
    BY <2>4
  <2>7. FirstDay[k - 1] \in Nat /\ FirstDay[k] \in Nat /\ FirstDay[m + 1] \in Nat
        /\ DaysInMonth(k - 1) \in Nat
    BY <1>1, <1>2, <2>4, MonthsHaveDays
  <2> QED
    BY <2>2, <2>5, <2>6, <2>7
<1>4. ~(FirstDay[n] < FirstDay[m + 1])
  BY <1>3
<1> HIDE DEF Low
<1> QED
  BY <1>1, <1>2, <1>4

LEMMA FirstDayNotBefore == \A m \in Nat : m <= FirstDay[m]
<1> DEFINE Early == {m \in Nat : FirstDay[m] < m}
<1>1. \A k \in Nat : FirstDay[k] \in Nat
  BY FirstDays
<1>2. Early = {}
  <2> SUFFICES ASSUME Early # {} PROVE FALSE
    OBVIOUS
  <2>1. PICK m \in Early : \A k \in Early : m <= k
    <3>1. Early \subseteq Nat
      OBVIOUS
    <3> HIDE DEF Early
    <3> QED
      BY <3>1, LeastNumber
  <2>2. m \in Nat /\ FirstDay[m] < m
    OBVIOUS
  <2>3. m # 0
    BY <1>1, <2>2
  <2>4. m - 1 \in Nat /\ m - 1 \notin Early /\ (m - 1) + 1 = m
    BY <2>1, <2>2, <2>3
  <2>5. ~(FirstDay[m - 1] < m - 1)
    BY <2>4
  <2>6. FirstDay[m] = FirstDay[m - 1] + DaysInMonth(m - 1)
    BY <2>4, FirstDays
  <2>7. FirstDay[m - 1] \in Nat /\ DaysInMonth(m - 1) \in Nat \ {0}
    BY <1>1, <2>4, MonthsHaveDays
  <2> QED
    BY <2>2, <2>5, <2>6, <2>7
<1> QED
  BY <1>1, <1>2

\* Each day is in one month.
LEMMA MonthOfDay ==
    ASSUME NEW d \in Nat
    PROVE  /\ MonthOf(d) \in Nat /\ FirstDay[MonthOf(d)] <= d
           /\ d < FirstDay[MonthOf(d)] + DaysInMonth(MonthOf(d))
           /\ \A m \in Nat : FirstDay[m] <= d /\ d < FirstDay[m] + DaysInMonth(m)
                 => m = MonthOf(d)
<1> DEFINE Has(m) == FirstDay[m] <= d /\ d < FirstDay[m + 1]
           Beyond == {m \in Nat : d < FirstDay[m]}
<1>1. \A k \in Nat : FirstDay[k] \in Nat /\ DaysInMonth(k) \in Nat
                    /\ FirstDay[k + 1] = FirstDay[k] + DaysInMonth(k)
  BY FirstDays, MonthsHaveDays
<1>2. d + 1 \in Beyond
  <2>1. d + 1 \in Nat /\ d + 1 <= FirstDay[d + 1]
    BY FirstDayNotBefore
  <2> QED
    BY <1>1, <2>1
<1>3. PICK n \in Beyond : \A k \in Beyond : n <= k
  <2>1. Beyond \subseteq Nat /\ Beyond # {}
    BY <1>2
  <2> HIDE DEF Beyond
  <2> QED
    BY <2>1, LeastNumber
<1>4. n \in Nat /\ d < FirstDay[n] /\ n <= d + 1
  BY <1>2, <1>3
<1>5. n # 0
  BY <1>4, FirstDays
<1>6. n - 1 \in 0..d /\ n - 1 \in Nat /\ (n - 1) + 1 = n /\ n - 1 \notin Beyond
  BY <1>3, <1>4, <1>5
<1>7. FirstDay[n - 1] <= d
  BY <1>1, <1>6
<1>8. Has(n - 1)
  BY <1>4, <1>6, <1>7
<1>9. MonthOf(d) \in 0..d /\ Has(MonthOf(d))
  <2>1. MonthOf(d) = CHOOSE m \in 0..d : Has(m)
    BY DEF MonthOf
  <2> HIDE DEF Has
  <2> QED
    BY <1>6, <1>8, <2>1
<1>10. ASSUME NEW m \in Nat, NEW k \in Nat, m < k, Has(m), Has(k) PROVE FALSE
  <2>1. FirstDay[m] + DaysInMonth(m) <= FirstDay[k]
    BY <1>10, FirstDaysRise
  <2> QED
    BY <1>1, <1>10, <2>1
<1>11. ASSUME NEW m \in Nat, Has(m) PROVE m = MonthOf(d)
  <2>1. MonthOf(d) \in Nat
    BY <1>9
  <2>2. ~(m < MonthOf(d)) /\ ~(MonthOf(d) < m)
    <3> HIDE DEF Has
    <3> QED
      BY <1>9, <1>10, <1>11, <2>1
  <2> QED
    BY <2>1, <2>2
<1>12. MonthOf(d) \in Nat
  BY <1>9
<1> QED
  BY <1>1, <1>9, <1>11, <1>12

-----------------------------------------------------------------------------
(* Days and minutes *)

LEMMA Euclid ==
    ASSUME NEW c \in Nat, NEW k \in Nat \ {0}
    PROVE  /\ c \div k \in Nat /\ c % k \in 0..(k - 1)
           /\ c = (c \div k) * k + (c % k)
<1>1. c \div k \in Nat /\ c % k \in 0..(k - 1)
  OBVIOUS
<1>2. c = k * (c \div k) + (c % k)
  BY <1>1
<1>3. k * (c \div k) = (c \div k) * k
  BY <1>1
<1> QED
  BY <1>1, <1>2, <1>3

LEMMA EuclidOnce ==
    ASSUME NEW k \in Nat \ {0}, NEW d \in Nat, NEW t \in 0..(k - 1)
    PROVE  /\ d * k + t \in Nat /\ (d * k + t) \div k = d /\ (d * k + t) % k = t
<1>1. d * k \in Nat /\ d * k + t \in Nat
  OBVIOUS
<1> QED
  BY <1>1

LEMMA TimesGrow ==
    ASSUME NEW a \in Int, NEW b \in Int, a <= b, NEW k \in Nat
    PROVE  a * k <= b * k
OBVIOUS

-----------------------------------------------------------------------------
(* The plans of a day, a week and a month *)

Regular(p) ==
    /\ p.frequency \in {"DAILY", "WEEKLY", "MONTHLY"}
    /\ p.time \in 0..(DayLength - 1) /\ p.dow \in 0..(WeekLength - 1)
    /\ p.dom \in Nat \ {0}

\* The day of the month that a monthly plan wants.
DayWanted(p, month) == Min({p.dom, DaysInMonth(month)})

WantedDay(p, d) ==
    /\ p.frequency = "WEEKLY" => d % WeekLength = p.dow
    /\ p.frequency = "MONTHLY" =>
          d - FirstDay[MonthOf(d)] + 1 = DayWanted(p, MonthOf(d))

LEMMA PartsOfTime ==
    ASSUME NEW c \in Nat
    PROVE  /\ c \div DayLength \in Nat /\ c % DayLength \in 0..(DayLength - 1)
           /\ DateParts(c).month = MonthOf(c \div DayLength)
           /\ DateParts(c).day = c \div DayLength - FirstDay[MonthOf(c \div DayLength)] + 1
           /\ DateParts(c).dow = (c \div DayLength) % WeekLength
           /\ DateParts(c).time = c % DayLength
<1>1. DayLength \in Nat \ {0}
  BY CalendarOK
<1>2. c \div DayLength \in Nat /\ c % DayLength \in 0..(DayLength - 1)
  BY <1>1, Euclid
<1> QED
  BY <1>2 DEF DateParts

LEMMA WantedOn ==
    ASSUME NEW p, Regular(p), NEW c \in Nat
    PROVE  Wanted(p, c) <=> c % DayLength = p.time /\ WantedDay(p, c \div DayLength)
<1> DEFINE d == c \div DayLength
<1>1. /\ DateParts(c).month = MonthOf(d) /\ DateParts(c).dow = d % WeekLength
      /\ DateParts(c).day = d - FirstDay[MonthOf(d)] + 1
      /\ DateParts(c).time = c % DayLength
  BY PartsOfTime
<1> HIDE DEF d
<1> DEFINE Both == Wanted(p, c) <=> c % DayLength = p.time /\ WantedDay(p, d)
<1>2. ASSUME p.frequency = "DAILY" PROVE Both
  BY <1>1, <1>2 DEF Wanted, WantedDay
<1>3. ASSUME p.frequency = "WEEKLY" PROVE Both
  BY <1>1, <1>3 DEF Wanted, WantedDay
<1>4. ASSUME p.frequency = "MONTHLY" PROVE Both
  BY <1>1, <1>4 DEF Wanted, WantedDay, DayWanted
<1>5. Both
  <2> HIDE DEF Both
  <2> QED
    BY <1>2, <1>3, <1>4 DEF Regular
<1> QED
  BY <1>5 DEF d

\* The first day on which the time of the plan is still to come.
FirstDayLeft(p, local) ==
    IF p.time <= local % DayLength THEN local \div DayLength + 1 ELSE local \div DayLength

LEMMA DayLeft ==
    ASSUME NEW p, Regular(p), NEW local \in Nat, NEW d \in Nat
    PROVE  local < d * DayLength + p.time <=> FirstDayLeft(p, local) <= d
<1> DEFINE k == DayLength
           e == local \div k
           t == local % k
<1>1. k \in Nat \ {0} /\ e \in Nat /\ t \in 0..(k - 1) /\ local = e * k + t
  BY CalendarOK, Euclid
<1>2. p.time \in 0..(k - 1)
  BY DEF Regular
<1>3. FirstDayLeft(p, local) = IF p.time <= t THEN e + 1 ELSE e
  BY DEF FirstDayLeft
<1> HIDE DEF k, e, t
<1>4. e * k \in Nat /\ d * k \in Nat /\ (e + 1) * k = e * k + k
  BY <1>1
<1>5. CASE d < e
  <2>1. (d + 1) * k <= e * k /\ (d + 1) * k = d * k + k
    BY <1>1, <1>5, TimesGrow
  <2> QED
    BY <1>1, <1>2, <1>3, <1>4, <1>5, <2>1 DEF k
<1>6. CASE d = e
  BY <1>1, <1>2, <1>3, <1>4, <1>6 DEF k
<1>7. CASE d > e
  <2>1. (e + 1) * k <= d * k
    BY <1>1, <1>7, TimesGrow
  <2> QED
    BY <1>1, <1>2, <1>3, <1>4, <1>7, <2>1 DEF k
<1> QED
  BY <1>1, <1>5, <1>6, <1>7

\* The first wanted day that is left has the earliest wanted instant.
LEMMA EarliestFound ==
    ASSUME NEW p, Regular(p), NEW z, NEW off \in Int, \A t : Offset(z, t) = off,
           NEW from \in Int, from + off \in Nat, NEW d \in Nat, WantedDay(p, d),
           FirstDayLeft(p, from + off) <= d,
           \A e \in Nat : FirstDayLeft(p, from + off) <= e /\ WantedDay(p, e) => d <= e,
           d * DayLength + p.time <= from + off + Horizon
    PROVE  /\ Earliest(p, z, from) = d * DayLength + p.time - off
           /\ Earliest(p, z, from) \in (from + 1)..(from + Horizon)
<1> DEFINE k == DayLength
           r == d * k + p.time - off
           T == {t \in (from + 1)..(from + Horizon) : Wanted(p, t + off)}
<1>1. k \in Nat \ {0} /\ p.time \in 0..(k - 1) /\ Horizon \in Nat
  BY CalendarOK DEF Regular
<1>2. d * k + p.time \in Nat /\ (d * k + p.time) \div k = d /\ (d * k + p.time) % k = p.time
  BY <1>1, EuclidOnce
<1>3. Earliest(p, z, from) = Min(T)
  <2>1. T = {t \in (from + 1)..(from + Horizon) : Wanted(p, t + Offset(z, t))}
    OBVIOUS
  <2> QED
    BY <2>1 DEF Earliest
<1>4. r \in T
  <2>1. r + off = d * k + p.time /\ r \in Int
    BY <1>1, <1>2
  <2>2. Wanted(p, r + off)
    BY <1>2, <2>1, WantedOn
  <2>3. from + off < d * k + p.time
    BY DayLeft
  <2>4. d * k + p.time <= from + off + Horizon
    OBVIOUS
  <2> HIDE DEF r, k
  <2>5. r \in (from + 1)..(from + Horizon)
    BY <1>1, <1>2, <2>1, <2>3, <2>4
  <2> QED
    BY <2>2, <2>5
<1>5. ASSUME NEW t \in T PROVE r <= t
  <2> DEFINE c == t + off
             e == c \div k
  <2>1. c \in Nat /\ t \in Int /\ Wanted(p, c) /\ from + off < c
    BY <1>1
  <2>2. e \in Nat /\ c % k \in 0..(k - 1) /\ c = e * k + (c % k)
    BY <1>1, <2>1, Euclid
  <2>3. c % k = p.time /\ WantedDay(p, e)
    BY <2>1, WantedOn
  <2>4. FirstDayLeft(p, from + off) <= e
    BY <2>1, <2>2, <2>3, DayLeft
  <2>5. d <= e
    BY <2>2, <2>3, <2>4
  <2>6. d * k <= e * k
    BY <1>1, <2>2, <2>5, TimesGrow
  <2>7. e * k \in Int /\ d * k \in Int /\ c = t + off
    BY <1>1, <2>2
  <2> HIDE DEF c, e, k
  <2> QED
    BY <1>1, <2>1, <2>2, <2>3, <2>6, <2>7
<1>6. r = Min(T)
  <2>1. T \subseteq Int /\ T # {} /\ r \in Int
    BY <1>1, <1>2, <1>4
  <2> HIDE DEF T, r
  <2> QED
    BY <1>4, <1>5, <2>1, LeastInteger
<1>7. T \subseteq (from + 1)..(from + Horizon)
  OBVIOUS
<1> QED
  <2> HIDE DEF T
  <2> QED
    BY <1>3, <1>4, <1>6, <1>7

LEMMA UtcOfDay ==
    ASSUME NEW z, NEW off \in Int, \A t : Offset(z, t) = off, NEW month \in Nat,
           NEW day \in Int, NEW time \in Int, NEW d \in Int, FirstDay[month] + day - 1 = d
    PROVE  UtcDate(z, month, day, time) = d * DayLength + time - off
<1>1. FirstDay[month] \in Nat /\ DayLength \in Nat
  BY FirstDays, CalendarOK
<1> DEFINE raw == d * DayLength + time
<1>2. UtcDate(z, month, day, time) = raw - Offset(z, raw)
  <2>1. (FirstDay[month] + day - 1) * DayLength + time = raw
    OBVIOUS
  <2> HIDE DEF raw
  <2> QED
    BY <2>1 DEF UtcDate
<1>3. d * DayLength \in Int
  BY <1>1
<1>4. raw - off = d * DayLength + time - off
  BY <1>3
<1> HIDE DEF raw
<1> QED
  BY <1>2, <1>4

LEMMA DaysAhead ==
    ASSUME NEW month \in Nat, NEW day \in Int, NEW n \in Nat
    PROVE  /\ DaysOn(month, day, n).month \in Nat /\ DaysOn(month, day, n).day \in Int
           /\ FirstDay[DaysOn(month, day, n).month] + DaysOn(month, day, n).day - 1
                 = FirstDay[month] + day - 1 + n
<1>1. /\ FirstDay[month + 1] = FirstDay[month] + DaysInMonth(month) /\ month + 1 \in Nat
      /\ FirstDay[month] \in Nat /\ DaysInMonth(month) \in Nat
  BY FirstDays, MonthsHaveDays
<1>2. CASE day + n > DaysInMonth(month)
  BY <1>1, <1>2 DEF DaysOn
<1>3. CASE ~(day + n > DaysInMonth(month))
  BY <1>1, <1>3 DEF DaysOn
<1> QED
  BY <1>2, <1>3

\* What all three begin with.
LEMMA NowIsLocal ==
    ASSUME NEW z, NEW off \in Int, \A t : Offset(z, t) = off,
           NEW from \in Int, from + off \in Nat
    PROVE  LET now0 == ZonedDateParts(z, from)
               today == (from + off) \div DayLength
           IN  /\ now0 = DateParts(from + off) /\ today \in Nat
               /\ now0.month = MonthOf(today) /\ now0.month \in Nat
               /\ now0.day = today - FirstDay[MonthOf(today)] + 1 /\ now0.day \in Int
               /\ now0.dow = today % WeekLength
               /\ now0.time = (from + off) % DayLength /\ now0.time \in 0..(DayLength - 1)
               /\ FirstDay[now0.month] + now0.day - 1 = today
               /\ from + off = today * DayLength + now0.time
<1> DEFINE c == from + off
           d == c \div DayLength
<1>1. ZonedDateParts(z, from) = DateParts(c)
  BY DEF ZonedDateParts
<1>2. /\ d \in Nat /\ c % DayLength \in 0..(DayLength - 1)
      /\ c = d * DayLength + (c % DayLength)
  BY CalendarOK, Euclid
<1>3. /\ DateParts(c).month = MonthOf(d) /\ DateParts(c).day = d - FirstDay[MonthOf(d)] + 1
      /\ DateParts(c).dow = d % WeekLength /\ DateParts(c).time = c % DayLength
  BY PartsOfTime
<1>4. MonthOf(d) \in Nat /\ FirstDay[MonthOf(d)] \in Nat
  BY <1>2, MonthOfDay, FirstDays
<1> HIDE DEF c, d
<1>5. /\ DateParts(c).day \in Int
      /\ FirstDay[DateParts(c).month] + DateParts(c).day - 1 = d
  BY <1>2, <1>3, <1>4
<1>6. c = from + off /\ d = c \div DayLength
  BY DEF c, d
<1> QED
  BY <1>1, <1>2, <1>3, <1>4, <1>5, <1>6

LEMMA DailyEarliest ==
    ASSUME NEW p, Regular(p), p.frequency = "DAILY",
           NEW z, NEW off \in Int, \A t : Offset(z, t) = off,
           NEW from \in Int, from + off \in Nat
    PROVE  /\ DailyRun(p, z, from) = Earliest(p, z, from)
           /\ Earliest(p, z, from) \in (from + 1)..(from + Horizon)
<1> DEFINE now0 == ZonedDateParts(z, from)
           local == from + off
           today == local \div DayLength
           n == IF p.time <= now0.time THEN 1 ELSE 0
           on == DaysOn(now0.month, now0.day, n)
           k == DayLength
<1>1. /\ today \in Nat /\ now0.month \in Nat /\ now0.day \in Int
      /\ now0.time = local % k /\ now0.time \in 0..(k - 1)
      /\ FirstDay[now0.month] + now0.day - 1 = today /\ local = today * k + now0.time
  BY NowIsLocal
<1>2. k \in Nat \ {0} /\ Horizon \in Nat /\ p.time \in 0..(k - 1) /\ n \in {0, 1}
  BY CalendarOK DEF Regular
<1>3. /\ on.month \in Nat /\ on.day \in Int
      /\ FirstDay[on.month] + on.day - 1 = today + n
  <2>1. n \in Nat
    BY <1>2
  <2>2. PICK month, day : month = now0.month /\ day = now0.day
    OBVIOUS
  <2>3. on = DaysOn(month, day, n) /\ month \in Nat /\ day \in Int
        /\ FirstDay[month] + day - 1 = today
    BY <1>1, <2>2
  <2> HIDE DEF now0, today, n, on
  <2>4. /\ on.month \in Nat /\ on.day \in Int
        /\ FirstDay[on.month] + on.day - 1 = FirstDay[month] + day - 1 + n
    BY <2>1, <2>3, DaysAhead
  <2> QED
    BY <2>3, <2>4, FirstDays
<1>4. FirstDayLeft(p, local) = today + n
  BY <1>1 DEF FirstDayLeft
<1>5. DailyRun(p, z, from) = (today + n) * k + p.time - off
  <2>1. DailyRun(p, z, from) = UtcDate(z, on.month, on.day, p.time)
    BY DEF DailyRun
  <2>2. p.time \in Int
    BY <1>2
  <2> DEFINE d == today + n
             month == on.month
             day == on.day
             time == p.time
  <2>3. d \in Int /\ month \in Nat /\ day \in Int /\ time \in Int
        /\ FirstDay[month] + day - 1 = d
    BY <1>1, <1>2, <1>3
  <2> HIDE DEF d, month, day, time
  <2>4. UtcDate(z, month, day, time) = d * DayLength + time - off
    BY <2>3, UtcOfDay
  <2> QED
    BY <2>1, <2>4 DEF d, month, day, time
<1>6. (today + n) * k + p.time <= local + Horizon
  <2>1. (today + n) * k = today * k + n * k /\ today * k \in Nat
    BY <1>1, <1>2
  <2>2. k <= Horizon
    <3>1. WeekLength * k <= Horizon /\ WeekLength \in Nat \ {0}
      BY CalendarOK, HorizonOK
    <3>2. 1 * k <= WeekLength * k
      BY <1>2, <3>1, TimesGrow
    <3> HIDE DEF k
    <3> QED
      BY <1>2, <3>1, <3>2
  <2>3. n * k = IF p.time <= now0.time THEN k ELSE 0
    BY <1>2
  <2> HIDE DEF now0, local, today, n, k
  <2> QED
    BY <1>1, <1>2, <2>1, <2>2, <2>3
<1>7. WantedDay(p, today + n) /\ today + n \in Nat
  BY <1>1, <1>2 DEF WantedDay
<1>8. \A e \in Nat : FirstDayLeft(p, local) <= e => today + n <= e
  BY <1>4
<1> HIDE DEF now0, today, n
<1>9. /\ Earliest(p, z, from) = (today + n) * DayLength + p.time - off
      /\ Earliest(p, z, from) \in (from + 1)..(from + Horizon)
  <2> DEFINE d == today + n
  <2>1. d \in Nat /\ WantedDay(p, d) /\ FirstDayLeft(p, local) <= d
        /\ \A e \in Nat : FirstDayLeft(p, local) <= e => d <= e
        /\ d * DayLength + p.time <= from + off + Horizon
    BY <1>4, <1>6, <1>7, <1>8
  <2> HIDE DEF d
  <2>2. /\ Earliest(p, z, from) = d * DayLength + p.time - off
        /\ Earliest(p, z, from) \in (from + 1)..(from + Horizon)
    BY <2>1, EarliestFound
  <2> QED
    BY <2>2 DEF d
<1> QED
  BY <1>5, <1>9

\* From day d to the next day dow of a week of W days, with today for one.
AheadBy(W, d, dow) == (dow - (d % W) + W) % W

NoneBetween(W, d, dow, a) ==
    \A e \in Nat : e % W = dow => (e >= d => e >= d + a) /\ (e > d + a => e >= d + a + W)

LEMMA WeekAhead ==
    ASSUME NEW W \in Nat \ {0}, NEW d \in Nat, NEW dow \in 0..(W - 1)
    PROVE  /\ AheadBy(W, d, dow) \in 0..(W - 1) /\ (d + AheadBy(W, d, dow)) % W = dow
           /\ (d + W) % W = d % W
           /\ NoneBetween(W, d, dow, AheadBy(W, d, dow))
<1> DEFINE a == (dow - (d % W) + W) % W
           q == d \div W
           r == d % W
           u == IF dow >= r THEN q ELSE q + 1
<1>1. q \in Nat /\ r \in 0..(W - 1) /\ d = q * W + r
  BY Euclid
<1>2. (d + W) % W = r
  <2>1. d + W = (q + 1) * W + r
    BY <1>1
  <2> HIDE DEF q, r
  <2>2. q + 1 \in Nat /\ r \in 0..(W - 1)
    BY <1>1
  <2>3. ((q + 1) * W + r) % W = r
    BY <2>2, EuclidOnce
  <2> QED
    BY <2>1, <2>3
<1>3. a = IF dow >= r THEN dow - r ELSE dow - r + W
  <2> HIDE DEF r
  <2>1. CASE dow >= r
    <3>1. dow - r \in 0..(W - 1) /\ dow - r + W = 1 * W + (dow - r)
      BY <1>1, <2>1
    <3>2. (1 * W + (dow - r)) % W = dow - r
      BY <3>1, EuclidOnce
    <3> QED
      BY <2>1, <3>1, <3>2 DEF r
  <2>2. CASE ~(dow >= r)
    <3>1. dow - r + W \in 0..(W - 1) /\ dow - r + W = 0 * W + (dow - r + W)
      BY <1>1, <2>2
    <3>2. (0 * W + (dow - r + W)) % W = dow - r + W
      BY <3>1, EuclidOnce
    <3> QED
      BY <2>2, <3>1, <3>2 DEF r
  <2> QED
    BY <2>1, <2>2
<1> HIDE DEF a
<1>4. a \in 0..(W - 1) /\ u \in Nat
  BY <1>1, <1>3
<1>5. d + a = u * W + dow
  BY <1>1, <1>3
<1>6. (d + a) % W = dow
  <2> HIDE DEF u
  <2>1. (u * W + dow) % W = dow
    BY <1>4, EuclidOnce
  <2> QED
    BY <1>5, <2>1
<1>7. ASSUME NEW e \in Nat, e % W = dow
      PROVE  (e >= d => e >= d + a) /\ (e > d + a => e >= d + a + W)
  <2> DEFINE v == e \div W
  <2>1. v \in Nat /\ e = v * W + dow
    BY <1>7, Euclid
  <2> HIDE DEF v
  <2>2. CASE v < u
    <3>1. v * W <= (u - 1) * W /\ (u - 1) * W = u * W - W /\ u * W \in Int /\ v * W \in Int
      BY <1>4, <2>1, <2>2, TimesGrow
    <3>2. CASE dow >= r
      BY <1>1, <1>3, <1>4, <1>5, <2>1, <3>1, <3>2
    <3>3. CASE ~(dow >= r)
      <4>1. v <= q /\ v * W <= q * W /\ q * W \in Int
        BY <1>1, <2>1, <2>2, <3>3, TimesGrow
      <4> HIDE DEF q, r, u
      <4> QED
        BY <1>1, <1>4, <1>5, <2>1, <3>1, <3>3, <4>1
    <3> QED
      BY <3>2, <3>3
  <2>3. CASE v = u
    <3> HIDE DEF u
    <3> QED
      BY <1>4, <1>5, <2>1, <2>3
  <2>4. CASE v > u
    <3>1. (u + 1) * W <= v * W /\ (u + 1) * W = u * W + W /\ u * W \in Int /\ v * W \in Int
      BY <1>4, <2>1, <2>4, TimesGrow
    <3> HIDE DEF u
    <3> QED
      BY <1>4, <1>5, <2>1, <3>1
  <2> QED
    BY <1>4, <2>1, <2>2, <2>3, <2>4
<1>8. a = AheadBy(W, d, dow) /\ NoneBetween(W, d, dow, a)
  <2> HIDE DEF a
  <2>1. NoneBetween(W, d, dow, a)
    BY <1>7 DEF NoneBetween
  <2> QED
    BY <2>1 DEF a, AheadBy
<1> HIDE DEF a
<1> QED
  BY <1>2, <1>4, <1>6, <1>8

LEMMA WeeklyEarliest ==
    ASSUME NEW p, Regular(p), p.frequency = "WEEKLY",
           NEW z, NEW off \in Int, \A t : Offset(z, t) = off,
           NEW from \in Int, from + off \in Nat
    PROVE  /\ WeeklyRun(p, z, from) = Earliest(p, z, from)
           /\ Earliest(p, z, from) \in (from + 1)..(from + Horizon)
<1> DEFINE now0 == ZonedDateParts(z, from)
           local == from + off
           today == local \div DayLength
           k == DayLength
           W == WeekLength
           a == (p.dow - now0.dow + W) % W
           n == IF a = 0 /\ p.time <= now0.time THEN W ELSE a
           on == DaysOn(now0.month, now0.day, n)
           d == today + n
<1>1. /\ today \in Nat /\ now0.month \in Nat /\ now0.day \in Int /\ now0.dow = today % W
      /\ now0.time = local % k /\ now0.time \in 0..(k - 1)
      /\ FirstDay[now0.month] + now0.day - 1 = today /\ local = today * k + now0.time
  BY NowIsLocal
<1>2. /\ k \in Nat \ {0} /\ Horizon \in Nat /\ p.time \in 0..(k - 1)
      /\ W \in Nat \ {0} /\ p.dow \in 0..(W - 1) /\ W * k <= Horizon
  BY CalendarOK, HorizonOK DEF Regular
<1>3. /\ a \in 0..(W - 1) /\ (today + a) % W = p.dow /\ (today + W) % W = today % W
      /\ NoneBetween(W, today, p.dow, a)
  <2>1. a = AheadBy(W, today, p.dow)
    BY <1>1 DEF AheadBy
  <2> HIDE DEF W, today, a
  <2> QED
    BY <1>1, <1>2, <2>1, WeekAhead
<1>4. n \in 0..W /\ d \in Nat
  <2> HIDE DEF a, now0, today
  <2> QED
    BY <1>1, <1>2, <1>3
<1>5. FirstDayLeft(p, local) = IF p.time <= now0.time THEN today + 1 ELSE today
  BY <1>1 DEF FirstDayLeft
<1>6. FirstDayLeft(p, local) <= d
  <2> DEFINE past == p.time <= now0.time
  <2>1. n = IF a = 0 /\ past THEN W ELSE a
    OBVIOUS
  <2>2. FirstDayLeft(p, local) = IF past THEN today + 1 ELSE today
    BY <1>5
  <2>3. today \in Nat /\ W \in Nat \ {0} /\ a \in 0..(W - 1) /\ d = today + n
    BY <1>1, <1>2, <1>3
  <2> HIDE DEF a, now0, today, local, n, W, past, d
  <2> QED
    BY <2>1, <2>2, <2>3
<1>7. d % W = p.dow
  <2>1. CASE a = 0 /\ p.time <= now0.time
    <3>1. (today + 0) % W = p.dow /\ today + 0 = today
      BY <1>1, <1>3, <2>1
    <3> HIDE DEF a, now0, today
    <3> QED
      BY <1>3, <2>1, <3>1
  <2>2. CASE ~(a = 0 /\ p.time <= now0.time)
    <3> HIDE DEF a, now0, today
    <3> QED
      BY <1>3, <2>2
  <2> QED
    BY <2>1, <2>2
<1>8. ASSUME NEW e \in Nat, FirstDayLeft(p, local) <= e, e % W = p.dow PROVE d <= e
  <2> DEFINE past == p.time <= now0.time
  <2>1. n = IF a = 0 /\ past THEN W ELSE a
    OBVIOUS
  <2>2. FirstDayLeft(p, local) = IF past THEN today + 1 ELSE today
    BY <1>5
  <2>3. today \in Nat /\ W \in Nat \ {0} /\ a \in 0..(W - 1) /\ d = today + n
    BY <1>1, <1>2, <1>3
  <2> HIDE DEF a, now0, today, local, n, W, past, d
  <2>4. (e >= today => e >= today + a) /\ (e > today + a => e >= today + a + W)
    BY <1>3, <1>8 DEF NoneBetween
  <2> QED
    BY <1>8, <2>1, <2>2, <2>3, <2>4
<1>9. d * k + p.time <= local + Horizon
  <2>1. d * k = today * k + n * k /\ today * k \in Int /\ n * k \in Int
    <3> HIDE DEF n, today
    <3> QED
      BY <1>1, <1>2, <1>4
  <2>2. CASE n = W
    <3>1. p.time <= now0.time
      <4> HIDE DEF a, now0
      <4> QED
        BY <1>2, <1>3, <2>2
    <3> HIDE DEF n, today, now0, local, d, W, k
    <3> QED
      BY <1>1, <1>2, <2>1, <2>2, <3>1
  <2>3. CASE n # W
    <3>1. n <= W - 1 /\ n * k <= (W - 1) * k /\ (W - 1) * k = W * k - k /\ W * k \in Int
      <4> HIDE DEF n, W, k
      <4> QED
        BY <1>2, <1>4, <2>3, TimesGrow
    <3> HIDE DEF n, today, now0, local, d, W, k
    <3> QED
      BY <1>1, <1>2, <2>1, <3>1
  <2> QED
    BY <2>2, <2>3
<1>10. WantedDay(p, d) /\ \A e \in Nat : WantedDay(p, e) => e % W = p.dow
  BY <1>7 DEF WantedDay
<1>11. /\ on.month \in Nat /\ on.day \in Int /\ FirstDay[on.month] + on.day - 1 = d
  <2>1. n \in Nat
    BY <1>2, <1>4
  <2>2. PICK month, day : month = now0.month /\ day = now0.day
    OBVIOUS
  <2>3. on = DaysOn(month, day, n) /\ month \in Nat /\ day \in Int
        /\ FirstDay[month] + day - 1 = today
    BY <1>1, <2>2
  <2> HIDE DEF now0, today, n, on
  <2>4. /\ on.month \in Nat /\ on.day \in Int
        /\ FirstDay[on.month] + on.day - 1 = FirstDay[month] + day - 1 + n
    BY <2>1, <2>3, DaysAhead
  <2> QED
    BY <2>3, <2>4, FirstDays
<1>12. WeeklyRun(p, z, from) = d * DayLength + p.time - off
  <2>1. WeeklyRun(p, z, from) = UtcDate(z, on.month, on.day, p.time)
    BY DEF WeeklyRun
  <2> DEFINE month == on.month
             day == on.day
             time == p.time
  <2>2. d \in Int /\ month \in Nat /\ day \in Int /\ time \in Int
        /\ FirstDay[month] + day - 1 = d
    BY <1>2, <1>4, <1>11
  <2> HIDE DEF d, month, day, time, on
  <2>3. UtcDate(z, month, day, time) = d * DayLength + time - off
    BY <2>2, UtcOfDay
  <2> QED
    BY <2>1, <2>3 DEF month, day, time
<1>13. /\ Earliest(p, z, from) = d * DayLength + p.time - off
       /\ Earliest(p, z, from) \in (from + 1)..(from + Horizon)
  <2> HIDE DEF d
  <2> QED
    BY <1>4, <1>6, <1>8, <1>9, <1>10, EarliestFound
<1> QED
  BY <1>12, <1>13

\* The day that a monthly plan wants of a month.
WantedOf(p, m) == FirstDay[m] + DayWanted(p, m) - 1

LEMMA WantedInMonth ==
    ASSUME NEW p, Regular(p), p.frequency = "MONTHLY", NEW m \in Nat
    PROVE  /\ DayWanted(p, m) \in 1..DaysInMonth(m) /\ WantedOf(p, m) \in Nat
           /\ FirstDay[m] <= WantedOf(p, m) /\ WantedOf(p, m) < FirstDay[m + 1]
           /\ MonthOf(WantedOf(p, m)) = m /\ WantedDay(p, WantedOf(p, m))
<1>1. /\ FirstDay[m] \in Nat /\ DaysInMonth(m) \in Nat \ {0}
      /\ FirstDay[m + 1] = FirstDay[m] + DaysInMonth(m)
  BY FirstDays, MonthsHaveDays
<1>2. DayWanted(p, m) \in 1..DaysInMonth(m)
  <2>1. p.dom \in Nat \ {0}
    BY DEF Regular
  <2>2. p.dom \in Int /\ DaysInMonth(m) \in Int
    BY <1>1, <2>1
  <2>3. DayWanted(p, m) = IF p.dom <= DaysInMonth(m) THEN p.dom ELSE DaysInMonth(m)
    BY <2>2, MinOfTwo DEF DayWanted
  <2> QED
    BY <1>1, <2>1, <2>3
<1> DEFINE d == WantedOf(p, m)
<1>3. d \in Nat /\ FirstDay[m] <= d /\ d < FirstDay[m] + DaysInMonth(m)
      /\ d - FirstDay[m] + 1 = DayWanted(p, m)
  BY <1>1, <1>2 DEF WantedOf
<1> HIDE DEF d
<1>4. MonthOf(d) = m
  BY <1>3, MonthOfDay
<1>5. WantedDay(p, d)
  BY <1>3, <1>4 DEF WantedDay
<1> QED
  BY <1>1, <1>2, <1>3, <1>4, <1>5 DEF d

LEMMA MonthlyEarliest ==
    ASSUME NEW p, Regular(p), p.frequency = "MONTHLY",
           NEW z, NEW off \in Int, \A t : Offset(z, t) = off,
           NEW from \in Int, from + off \in Nat
    PROVE  /\ MonthlyRun(p, z, from) = Earliest(p, z, from)
           /\ Earliest(p, z, from) \in (from + 1)..(from + Horizon)
<1> DEFINE now0 == ZonedDateParts(z, from)
           local == from + off
           k == DayLength
           today == local \div k
           this == MonthOf(today)
           wantedDay == DayWanted(p, this)
           past == \/ now0.day > wantedDay
                   \/ now0.day = wantedDay /\ p.time <= now0.time
           month == IF past THEN this + 1 ELSE this
           d == WantedOf(p, month)
           left == FirstDayLeft(p, local)
<1>1. /\ today \in Nat /\ now0.month = this /\ this \in Nat
      /\ now0.day = today - FirstDay[this] + 1
      /\ now0.time = local % k /\ now0.time \in 0..(k - 1) /\ local = today * k + now0.time
  BY NowIsLocal
<1>2. /\ k \in Nat \ {0} /\ Horizon \in Nat /\ p.time \in 0..(k - 1)
  BY CalendarOK DEF Regular
<1>3. FirstDay[this] \in Nat /\ FirstDay[this] <= today /\ today < FirstDay[this + 1]
      /\ FirstDay[this + 1] \in Nat
      /\ FirstDay[this + 1] = FirstDay[this] + DaysInMonth(this) /\ this + 1 \in Nat
  <2>1. today \in Nat
    BY <1>1
  <2> HIDE DEF today
  <2>2. this \in Nat /\ FirstDay[this] <= today /\ today < FirstDay[this] + DaysInMonth(this)
    BY <2>1, MonthOfDay
  <2> HIDE DEF this
  <2>3. /\ FirstDay[this] \in Nat /\ DaysInMonth(this) \in Nat
        /\ FirstDay[this + 1] = FirstDay[this] + DaysInMonth(this)
    BY <2>2, FirstDays, MonthsHaveDays
  <2> QED
    BY <2>2, <2>3
<1>4. month \in Nat /\ this + 1 \in Nat
  BY <1>1, <1>3
<1>5. left = IF p.time <= now0.time THEN today + 1 ELSE today
  BY <1>1 DEF FirstDayLeft
<1>6. /\ wantedDay \in 1..DaysInMonth(this) /\ WantedOf(p, this) \in Nat
      /\ WantedOf(p, this) = FirstDay[this] + wantedDay - 1
      /\ WantedOf(p, this) < FirstDay[this + 1]
      /\ WantedOf(p, this + 1) \in Nat /\ FirstDay[this + 1] <= WantedOf(p, this + 1)
      /\ WantedOf(p, this + 1) < FirstDay[this + 2]
  <2>1. /\ WantedOf(p, this + 1) \in Nat /\ FirstDay[this + 1] <= WantedOf(p, this + 1)
        /\ WantedOf(p, this + 1) < FirstDay[(this + 1) + 1]
    <3> DEFINE next == this + 1
    <3>1. next \in Nat
      BY <1>4
    <3> HIDE DEF next, this
    <3>2. WantedOf(p, next) \in Nat /\ FirstDay[next] <= WantedOf(p, next)
          /\ WantedOf(p, next) < FirstDay[next + 1]
      BY <3>1, WantedInMonth
    <3> QED
      BY <3>2 DEF next
  <2>2. (this + 1) + 1 = this + 2
    BY <1>1
  <2>3. WantedOf(p, this) = FirstDay[this] + wantedDay - 1
    BY DEF WantedOf
  <2> HIDE DEF this
  <2> QED
    BY <1>1, <2>1, <2>2, <2>3, WantedInMonth DEF wantedDay
<1>7. past <=> WantedOf(p, this) < left
  <2> HIDE DEF today, this, wantedDay, left, now0, local, k
  <2> QED
    BY <1>1, <1>2, <1>3, <1>5, <1>6
<1>8. left <= d
  <2>1. CASE past
    <3>1. d = WantedOf(p, this + 1)
      BY <2>1
    <3> HIDE DEF today, this, wantedDay, left, now0, local, k, d, past
    <3> QED
      BY <1>1, <1>2, <1>3, <1>5, <1>6, <3>1
  <2>2. CASE ~past
    <3>1. d = WantedOf(p, this)
      BY <2>2
    <3> HIDE DEF today, this, wantedDay, left, now0, local, k, d, past
    <3> QED
      BY <1>1, <1>5, <1>6, <1>7, <2>2, <3>1
  <2> QED
    BY <2>1, <2>2
<1>9. d \in Nat /\ WantedDay(p, d)
  <2> HIDE DEF month
  <2> QED
    BY <1>4, WantedInMonth
<1>10. ASSUME NEW e \in Nat, left <= e, WantedDay(p, e) PROVE d <= e
  <2> DEFINE m == MonthOf(e)
  <2>1. m \in Nat /\ e = WantedOf(p, m) /\ FirstDay[m] <= e /\ e < FirstDay[m + 1]
    <3>1. m \in Nat /\ FirstDay[m] <= e /\ e < FirstDay[m] + DaysInMonth(m)
      BY MonthOfDay
    <3>2. e - FirstDay[m] + 1 = DayWanted(p, m)
      BY <1>10 DEF WantedDay
    <3>3. FirstDay[m] \in Nat /\ FirstDay[m + 1] = FirstDay[m] + DaysInMonth(m)
      BY <3>1, FirstDays
    <3>4. DayWanted(p, m) \in Int
      BY <3>1, WantedInMonth
    <3> HIDE DEF m
    <3> QED
      BY <3>1, <3>2, <3>3, <3>4 DEF WantedOf
  <2> HIDE DEF m
  <2>2. today <= e
    <3> HIDE DEF today, left, now0
    <3> QED
      BY <1>1, <1>5, <1>10
  <2>3. CASE m < this
    <3>1. FirstDay[m] + DaysInMonth(m) <= FirstDay[this]
          /\ FirstDay[m + 1] = FirstDay[m] + DaysInMonth(m)
      <4> HIDE DEF this
      <4> QED
        BY <1>1, <2>1, <2>3, FirstDaysRise, FirstDays
    <3>2. FirstDay[m + 1] \in Nat
      BY <2>1, FirstDays
    <3> HIDE DEF today, this
    <3> QED
      BY <1>1, <1>3, <2>1, <2>2, <3>1, <3>2
  <2>4. CASE m = this
    <3>1. left \in Int
      <4> HIDE DEF today, now0, left
      <4> QED
        BY <1>1, <1>5
    <3>2. ~past
      <4>1. WantedOf(p, this) = e
        BY <2>1, <2>4
      <4> HIDE DEF past, left, this
      <4> QED
        BY <1>7, <1>10, <3>1, <4>1
    <3>3. d = WantedOf(p, this)
      BY <3>2
    <3> HIDE DEF d, this
    <3> QED
      BY <2>1, <2>4, <3>3
  <2>5. CASE m = this + 1
    <3>1. WantedOf(p, this) <= WantedOf(p, this + 1)
      <4> HIDE DEF this
      <4> QED
        BY <1>3, <1>6
    <3>2. d = WantedOf(p, this) \/ d = WantedOf(p, this + 1)
      OBVIOUS
    <3> HIDE DEF d, this
    <3> QED
      BY <1>6, <2>1, <2>5, <3>1, <3>2
  <2>6. CASE m > this + 1
    <3>1. FirstDay[this + 1] + DaysInMonth(this + 1) <= FirstDay[m]
          /\ FirstDay[this + 1 + 1] = FirstDay[this + 1] + DaysInMonth(this + 1)
      <4> DEFINE next == this + 1
      <4>1. next \in Nat /\ next < m
        BY <1>4, <2>6
      <4> HIDE DEF next, this
      <4>2. FirstDay[next] + DaysInMonth(next) <= FirstDay[m]
            /\ FirstDay[next + 1] = FirstDay[next] + DaysInMonth(next)
        BY <4>1, <2>1, FirstDaysRise, FirstDays
      <4> QED
        BY <4>2 DEF next
    <3>2. this + 1 + 1 = this + 2 /\ FirstDay[this + 2] \in Nat /\ FirstDay[m] \in Nat
      BY <1>1, <2>1, FirstDays
    <3>3. d = WantedOf(p, this) \/ d = WantedOf(p, this + 1)
      OBVIOUS
    <3> HIDE DEF d, this
    <3> QED
      BY <1>3, <1>6, <2>1, <3>1, <3>2, <3>3
  <2> QED
    <3> HIDE DEF this
    <3> QED
      BY <1>1, <2>1, <2>3, <2>4, <2>5, <2>6
<1>11. d * k + p.time <= local + Horizon
  <2> DEFINE long == DaysInMonth(this) + DaysInMonth(this + 1)
  <2>1. long * k <= Horizon /\ long \in Nat
    <3> DEFINE n == Len(MonthLengths)
               i == (this % n) + 1
               j == ((this + 1) % n) + 1
    <3>1. n \in Nat \ {0}
      BY CalendarOK
    <3>2. i \in 1..n /\ j \in 1..n
      <4> HIDE DEF n, this
      <4> QED
        BY <1>1, <1>4, <3>1
    <3>3. i \in DOMAIN MonthLengths /\ j \in DOMAIN MonthLengths
      <4> HIDE DEF i, j
      <4> QED
        BY <3>2, CalendarOK
    <3>4. (MonthLengths[i] + MonthLengths[j]) * k <= Horizon
      <4> HIDE DEF i, j
      <4> QED
        BY <3>3, HorizonOK
    <3>5. DaysInMonth(this) = MonthLengths[i] /\ DaysInMonth(this + 1) = MonthLengths[j]
      BY DEF DaysInMonth
    <3>6. DaysInMonth(this) \in Nat /\ DaysInMonth(this + 1) \in Nat
      BY <1>1, <1>4, MonthsHaveDays
    <3> HIDE DEF this, i, j
    <3> QED
      BY <3>4, <3>5, <3>6
  <2>2. d <= today + long - 1
    <3>1. FirstDay[this + 1 + 1] = FirstDay[this + 1] + DaysInMonth(this + 1)
          /\ this + 1 + 1 = this + 2
      <4> DEFINE next == this + 1
      <4>1. next \in Nat
        BY <1>4
      <4> HIDE DEF next, this
      <4>2. FirstDay[next + 1] = FirstDay[next] + DaysInMonth(next)
        BY <4>1, FirstDays
      <4> QED
        BY <1>1, <4>2 DEF next
    <3>2. d = WantedOf(p, this) \/ d = WantedOf(p, this + 1)
      OBVIOUS
    <3>3. DaysInMonth(this) \in Nat /\ DaysInMonth(this + 1) \in Nat
      BY <1>1, <1>4, MonthsHaveDays
    <3> HIDE DEF d, this, today
    <3> QED
      BY <1>1, <1>3, <1>6, <3>1, <3>2, <3>3
  <2> HIDE DEF d, today, long, k, local, now0
  <2>3. d * k <= (today + long - 1) * k
    BY <1>1, <1>2, <1>9, <2>1, <2>2, TimesGrow
  <2>4. (today + long - 1) * k = today * k + long * k - k
        /\ today * k \in Int /\ long * k \in Int /\ d * k \in Int
    BY <1>1, <1>2, <1>9, <2>1
  <2> QED
    BY <1>1, <1>2, <2>1, <2>3, <2>4
<1>12. MonthlyRun(p, z, from) = d * DayLength + p.time - off
  <2>1. MonthlyRun(p, z, from) = UtcDate(z, month, DayWanted(p, month), p.time)
    <3> DEFINE m0 == now0.month
               want0 == Min({p.dom, DaysInMonth(m0)})
               past0 == \/ now0.day > want0
                        \/ now0.day = want0 /\ p.time <= now0.time
               next0 == IF past0 THEN m0 + 1 ELSE m0
    <3>1. MonthlyRun(p, z, from) = UtcDate(z, next0, Min({p.dom, DaysInMonth(next0)}), p.time)
      BY DEF MonthlyRun
    <3>2. m0 = this
      BY <1>1
    <3>3. want0 = wantedDay
      BY <3>2 DEF DayWanted
    <3>4. next0 = month
      BY <3>2, <3>3
    <3> QED
      BY <3>1, <3>4 DEF DayWanted
  <2> DEFINE day == DayWanted(p, month)
             time == p.time
  <2>2. d \in Int /\ day \in Int /\ time \in Int /\ FirstDay[month] + day - 1 = d
    <3>1. day \in Int
      <4> HIDE DEF month
      <4> QED
        BY <1>4, WantedInMonth
    <3>2. d = FirstDay[month] + day - 1
      BY DEF WantedOf
    <3> QED
      BY <1>2, <1>9, <3>1, <3>2
  <2> HIDE DEF d, month, day, time
  <2>3. UtcDate(z, month, day, time) = d * DayLength + time - off
    BY <1>4, <2>2, UtcOfDay
  <2> QED
    BY <2>1, <2>3 DEF day, time
<1>13. /\ Earliest(p, z, from) = d * DayLength + p.time - off
       /\ Earliest(p, z, from) \in (from + 1)..(from + Horizon)
  <2> HIDE DEF d
  <2> QED
    BY <1>8, <1>9, <1>10, <1>11, EarliestFound
<1> QED
  BY <1>12, <1>13

-----------------------------------------------------------------------------
(* Cron expressions *)

LEMMA CustomEarliest ==
    ASSUME NEW p, p.frequency = "CUSTOM",
           NEW z, NEW off \in Int, \A t : Offset(z, t) = off,
           NEW from \in Int, from + off \in Nat, CronHits(p, z, from) # {}
    PROVE  /\ CustomRun(p, z, from) = Earliest(p, z, from)
           /\ Earliest(p, z, from) \in (from + 1)..(from + Horizon)
<1> DEFINE local == from + off
           hits == CronHits(p, z, from)
           c == Min(hits)
           T == {t \in (from + 1)..(from + Horizon) : Wanted(p, t + off)}
<1>1. Horizon \in Nat /\ DayLength \in Nat \ {0}
  BY CalendarOK
<1>2. hits = {x \in (local + 1)..(local + 1 + Horizon - 1) : CronMatches(p, DateParts(x))}
  BY DEF CronHits
<1>3. hits \subseteq Int /\ \A x \in hits : local + 1 <= x
  BY <1>1, <1>2
<1>4. c \in hits /\ \A x \in hits : c <= x
  <2> DEFINE first == local + 1
  <2>1. first \in Int /\ hits # {}
    OBVIOUS
  <2>2. \A x \in hits : first <= x
    BY <1>3
  <2> HIDE DEF hits, first
  <2>3. PICK least : least = Min(hits)
    OBVIOUS
  <2>4. least \in hits /\ \A x \in hits : least <= x
    BY <1>3, <2>1, <2>2, <2>3, LeastInteger
  <2> QED
    BY <2>3, <2>4
<1> HIDE DEF c
<1>5. c \in Nat /\ c \in (local + 1)..(local + 1 + Horizon - 1) /\ CronMatches(p, DateParts(c))
  BY <1>1, <1>2, <1>4
<1>6. CustomRun(p, z, from) = c - off
  <2> DEFINE d == c \div DayLength
             month == DateParts(c).month
             day == DateParts(c).day
             time == DateParts(c).time
  <2>1. /\ d \in Nat /\ month = MonthOf(d) /\ day = d - FirstDay[MonthOf(d)] + 1
        /\ time = c % DayLength /\ c % DayLength \in 0..(DayLength - 1)
        /\ c = d * DayLength + (c % DayLength)
    BY <1>1, <1>5, PartsOfTime, Euclid
  <2>2. CustomRun(p, z, from) = UtcDate(z, month, day, time)
    BY DEF CustomRun, c
  <2> HIDE DEF d, month, day, time
  <2>3. MonthOf(d) \in Nat /\ FirstDay[MonthOf(d)] \in Nat
    BY <2>1, MonthOfDay, FirstDays
  <2>4. month \in Nat /\ day \in Int /\ time \in Int /\ FirstDay[month] + day - 1 = d
        /\ d \in Int
    BY <1>1, <2>1, <2>3
  <2>5. UtcDate(z, month, day, time) = d * DayLength + time - off
    BY <2>4, UtcOfDay
  <2>6. d * DayLength \in Int
    BY <1>1, <2>1
  <2> QED
    BY <1>5, <2>1, <2>2, <2>4, <2>5, <2>6
<1>7. Earliest(p, z, from) = Min(T)
  <2>1. T = {t \in (from + 1)..(from + Horizon) : Wanted(p, t + Offset(z, t))}
    OBVIOUS
  <2> QED
    BY <2>1 DEF Earliest
<1>8. \A t \in Int : Wanted(p, t + off) <=> CronMatches(p, DateParts(t + off))
  BY DEF Wanted
<1>9. c - off \in T
  <2>1. c - off \in Int /\ (c - off) + off = c
        /\ c - off \in (from + 1)..(from + Horizon)
    BY <1>1, <1>5
  <2> QED
    BY <1>5, <1>8, <2>1
<1>10. ASSUME NEW t \in T PROVE c - off <= t
  <2>1. t \in Int /\ t + off \in (local + 1)..(local + 1 + Horizon - 1)
    BY <1>1
  <2>2. t + off \in hits
    BY <1>2, <1>8, <2>1
  <2>3. c <= t + off
    BY <1>4, <2>2
  <2> QED
    BY <1>5, <2>1, <2>3
<1>11. c - off = Min(T)
  <2> DEFINE r == c - off
  <2>1. T \subseteq Int /\ r \in T /\ r \in Int /\ \A t \in T : r <= t
    BY <1>1, <1>5, <1>9, <1>10
  <2> HIDE DEF T, r
  <2>2. r = Min(T)
    BY <2>1, LeastInteger
  <2> QED
    BY <2>2 DEF r
<1>12. T \subseteq (from + 1)..(from + Horizon)
  OBVIOUS
<1> QED
  <2> HIDE DEF T
  <2> QED
    BY <1>6, <1>7, <1>9, <1>11, <1>12

LEMMA NextRunEarliest ==
    ASSUME NEW p \in Plans, NEW z \in Zones, z.before = z.after, NEW from \in MinTime..MaxTime,
           HasRun(p, z, from)
    PROVE  /\ NextRun(p, z, from) = Earliest(p, z, from)
           /\ Earliest(p, z, from) \in (from + 1)..(from + Horizon)
<1> DEFINE off == z.before
<1>1. off \in Int /\ MinTime + off >= 0 /\ MinTime \in Nat /\ MaxTime \in Nat
  BY SettingsOK, CalendarOK
<1>2. \A t : Offset(z, t) = off
  BY DEF Offset
<1>3. from \in Int /\ from + off \in Nat
  BY <1>1
<1> HIDE DEF off
<1>4. CASE p.frequency = "CUSTOM"
  <2>1. CronHits(p, z, from) # {}
    BY <1>4 DEF HasRun
  <2>2. NextRun(p, z, from) = CustomRun(p, z, from)
    BY <1>4 DEF NextRun
  <2> QED
    BY <1>1, <1>2, <1>3, <1>4, <2>1, <2>2, CustomEarliest
<1>5. CASE p.frequency # "CUSTOM"
  <2>1. Regular(p)
    BY <1>5, SettingsOK DEF Regular
  <2>2. CASE p.frequency = "DAILY"
    <3>1. NextRun(p, z, from) = DailyRun(p, z, from)
      BY <2>2 DEF NextRun
    <3> QED
      BY <1>1, <1>2, <1>3, <2>1, <2>2, <3>1, DailyEarliest
  <2>3. CASE p.frequency = "WEEKLY"
    <3>1. NextRun(p, z, from) = WeeklyRun(p, z, from)
      BY <2>3 DEF NextRun
    <3> QED
      BY <1>1, <1>2, <1>3, <2>1, <2>3, <3>1, WeeklyEarliest
  <2>4. CASE p.frequency = "MONTHLY"
    <3>1. NextRun(p, z, from) = MonthlyRun(p, z, from)
      BY <2>4 DEF NextRun
    <3> QED
      BY <1>1, <1>2, <1>3, <2>1, <2>4, <3>1, MonthlyEarliest
  <2> QED
    BY <2>1, <2>2, <2>3, <2>4 DEF Regular
<1> QED
  BY <1>4, <1>5

-----------------------------------------------------------------------------
(* A schedule over time *)

\* A schedule has the next run of its last calculation, which found one; time does not
\* go back.
CalendarInv ==
    /\ plan \in Plans /\ zone \in Zones
    /\ nextRunAt = NextRun(plan, zone, computedAt)
    /\ zone.before = zone.after => computedAt \in MinTime..MaxTime
    /\ HasRun(plan, zone, computedAt)

LEMMA CalendarInit == ASSUME Init PROVE CalendarInv
BY DEF Init, CalendarInv

LEMMA CalendarStep == ASSUME CalendarInv, [Claim]_vars PROVE CalendarInv'
<1>1. CASE UNCHANGED vars
  BY <1>1 DEF CalendarInv, vars
<1>2. CASE Claim
  <2>1. /\ plan' \in Plans /\ zone' \in Zones /\ zone' = zone
        /\ nextRunAt' = NextRun(plan', zone', computedAt') /\ HasRun(plan', zone', computedAt')
    BY <1>2 DEF CalendarInv, Claim
  <2>2. ASSUME zone.before = zone.after PROVE computedAt' \in MinTime..MaxTime
    <3>1. computedAt \in MinTime..MaxTime /\ MinTime \in Nat /\ Horizon \in Nat
      BY <2>2, CalendarOK DEF CalendarInv
    <3>2. nextRunAt \in (computedAt + 1)..(computedAt + Horizon)
      BY <2>2, <3>1, NextRunEarliest DEF CalendarInv
    <3>3. nextRunAt \in Int /\ computedAt <= nextRunAt /\ computedAt \in Int
      BY <3>1, <3>2
    <3>4. Max({computedAt, nextRunAt}) = nextRunAt
      BY <3>3, MaxOfTwo
    <3> QED
      BY <1>2, <3>1, <3>3, <3>4, CalendarOK DEF Claim
  <2> QED
    BY <2>1, <2>2 DEF CalendarInv
<1> QED
  BY <1>1, <1>2

LEMMA CalendarEarliest ==
    ASSUME CalendarInv
    PROVE  NextIsEarliest /\ (zone.before = zone.after => NextIsToCome)
<1>1. ASSUME zone.before = zone.after
      PROVE  nextRunAt = Earliest(plan, zone, computedAt) /\ computedAt < nextRunAt
  <2>1. computedAt \in MinTime..MaxTime /\ MinTime \in Nat /\ Horizon \in Nat
    BY <1>1, CalendarOK DEF CalendarInv
  <2>2. nextRunAt = Earliest(plan, zone, computedAt)
        /\ nextRunAt \in (computedAt + 1)..(computedAt + Horizon)
    BY <1>1, <2>1, NextRunEarliest DEF CalendarInv
  <2> QED
    BY <2>1, <2>2
<1> QED
  BY <1>1 DEF NextIsEarliest, NextIsToCome

-----------------------------------------------------------------------------
(* All the parts *)

\* The parts share no state: a behaviour of the composition is one of the part that
\* moves, and the others stay as they began.
LEMMA PartMoves ==
    ASSUME [OperationsNext /\ UNCHANGED part]_<<part, fileVars, cacheVars, pageVars,
                                                recordVars, folderVars, vars>>
    PROVE  /\ part' = part
           /\ [FilesNext]_fileVars /\ [CachesNext]_cacheVars /\ [PagesNext]_pageVars
           /\ [RecordsNext]_recordVars /\ [FolderNext]_folderVars /\ [Claim]_vars
<1>1. CASE UNCHANGED <<part, fileVars, cacheVars, pageVars, recordVars, folderVars, vars>>
  BY <1>1, Zenon
<1>2. CASE OperationsNext /\ UNCHANGED part
  <2>1. /\ part = "files" \/ UNCHANGED fileVars
        /\ part = "caches" \/ UNCHANGED cacheVars
        /\ part = "pages" \/ UNCHANGED pageVars
        /\ part = "records" \/ UNCHANGED recordVars
        /\ part = "folder" \/ UNCHANGED folderVars
        /\ part = "calendar" \/ UNCHANGED vars
    BY <1>2, Zenon DEF OperationsNext, Still, Parts
  <2>2. /\ part = "files" => FilesNext
        /\ part = "caches" => CachesNext
        /\ part = "pages" => PagesNext
        /\ part = "records" => RecordsNext
        /\ part = "folder" => FolderNext
        /\ part = "calendar" => Claim
    BY <1>2 DEF OperationsNext
  <2> QED
    BY <1>2, <2>1, <2>2, Zenon
<1> QED
  BY <1>1, <1>2, Zenon

LEMMA PartBegins ==
    ASSUME OperationsInit
    PROVE  /\ FilesInit /\ CachesInit /\ PagesInit /\ RecordsInit /\ FolderInit
           /\ part = "calendar" => Init
BY Zenon DEF OperationsInit

\* What holds of every part, whichever of them moves.
OperationsInv ==
    /\ FilesInv /\ CachesInv /\ PagesInv /\ RecordsInv /\ FolderInv /\ FolderTypeOK
    /\ part = "calendar" => CalendarInv

LEMMA OperationsAlways == OperationsSpec => []OperationsInv
<1>1. OperationsInit => OperationsInv
  BY PartBegins, FilesStart, CachesStart, PagesInitially, RecordsStart, FolderStart,
     FolderTypesStart, CalendarInit, Zenon DEF OperationsInv
<1> DEFINE step == [OperationsNext /\ UNCHANGED part]_<<part, fileVars, cacheVars, pageVars,
                                                       recordVars, folderVars, vars>>
<1>2. OperationsInv /\ step => OperationsInv'
  <2> SUFFICES ASSUME OperationsInv, step PROVE OperationsInv'
    OBVIOUS
  <2>1. /\ part' = part
        /\ [FilesNext]_fileVars /\ [CachesNext]_cacheVars /\ [PagesNext]_pageVars
        /\ [RecordsNext]_recordVars /\ [FolderNext]_folderVars /\ [Claim]_vars
    BY PartMoves
  <2>2. FilesInv' /\ CachesInv' /\ PagesInv'
    BY <2>1, FilesStep, CachesStep, PagesStep DEF OperationsInv
  <2>3. RecordsInv' /\ FolderInv' /\ FolderTypeOK'
    BY <2>1, RecordsStep, FolderStep, FolderTypesStep DEF OperationsInv
  <2>4. part' = "calendar" => CalendarInv'
    BY <2>1, CalendarStep DEF OperationsInv
  <2> QED
    BY <2>2, <2>3, <2>4 DEF OperationsInv
<1> QED
  BY <1>1, <1>2, PTL DEF OperationsSpec

\* Every variable of the part that moves keeps its type, for any numbers of handlers,
\* processes, sites, pages, exports and schedules.
THEOREM OperationsTypeCorrect == OperationsSpec => []OperationsTypeOK
<1>1. OperationsInv => OperationsTypeOK
  BY DEF OperationsInv, OperationsTypeOK, FilesInv, CachesInv, PagesInv, RecordsInv
<1> QED
  BY <1>1, OperationsAlways, PTL

\* The files that the export writers make of the pages agree with each other, and an
\* archive of an export that was alone has all of them (modules/exports), for any pages
\* and errors of two attempts, and any exports of a job at once.
THEOREM ExportsAlike == OperationsSpec => []ExportsAgree
<1>1. OperationsInv => ExportsAgree
  <2> SUFFICES ASSUME OperationsInv PROVE ExportsAgree
    OBVIOUS
  <2>1. RecordsInv /\ ArchivesAreWhole
    BY DEF OperationsInv, FolderInv
  <2> QED
    BY <2>1, WritersFollow DEF ExportsAgree
<1> QED
  BY <1>1, OperationsAlways, PTL

\* calculateNextRun (schedule-calculator.helper.ts:195-362) gives the first instant that
\* the settings of a schedule want, over all ends of weeks, months and years, for any
\* calendar, plan and zone that does not change its offset, whenever it is asked.
THEOREM NextRunsEarliest == OperationsSpec => []NextRunIsEarliest
<1>1. OperationsInv => NextRunIsEarliest
  BY CalendarEarliest DEF OperationsInv, NextRunIsEarliest
<1> QED
  BY <1>1, OperationsAlways, PTL

\* Where the offset of the zone never changes, the next run is after the instant that it
\* was computed at: a schedule that processDueSchedules claims is not due again at once.
THEOREM NextRunsToCome ==
    OperationsSpec => [](part = "calendar" /\ zone.before = zone.after => NextIsToCome)
<1>1. OperationsInv => (part = "calendar" /\ zone.before = zone.after => NextIsToCome)
  BY CalendarEarliest DEF OperationsInv
<1> QED
  BY <1>1, OperationsAlways, PTL
=============================================================================

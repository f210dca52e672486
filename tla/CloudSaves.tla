------------------------------ MODULE CloudSaves ------------------------------
(***************************************************************************)
(* Save games between the game directory and Google Play's snapshots:      *)
(* MKXPActivity.updateSaveFiles, writeSnapshot and loadSaveGames, and the  *)
(* legacy migration of LoginActivity.                                      *)
(*                                                                         *)
(* The game writes its files on the SDL thread and then sends message 400; *)
(* everything else runs on the UI thread, in listeners of asynchronous     *)
(* Tasks.  A listener is one action, except that a download writes its     *)
(* file in steps the game, or the end of the process, can fall between.    *)
(*                                                                         *)
(* Contents are version numbers in the order of saving, on any device.     *)
(* The unit of time is 15 seconds.                                         *)
(***************************************************************************)
EXTENDS Integers, Sequences, FiniteSets, SequencesExt

CONSTANTS
  Files,        \* names isSaveFile accepts
  Underscored,  \* those with an underscore of their own
  Envs,         \* what may happen: one of these subsets of EnvKinds
  MaxVersions,  \* bound: saves made
  MaxTime       \* bound: ticks of the clock

\* slow: time passes while Tasks and messages are pending.  reorder: Tasks
\* complete in any order.  fail: a Task fails.  conflict: opening a snapshot
\* that is already open reports a conflict.  early: the game saves while the
\* saves are still loading.  exit: the process ends.  tear: even while a
\* download is being written.  unwritable: a download cannot be written, or not
\* be dated.  device: another device saves.  migrate: the player migrates legacy
\* saves.  unreadable: migrating one fails.
EnvKinds == {"slow", "reorder", "fail", "conflict", "early", "exit", "tear",
             "unwritable", "device", "migrate", "unreadable"}

ASSUME FilesAssumption  == IsFiniteSet(Files) /\ Underscored \subseteq Files
ASSUME EnvsAssumption   == Envs \subseteq SUBSET EnvKinds
ASSUME BoundsAssumption == MaxVersions \in Nat /\ MaxTime \in Nat

VARIABLES
  env,       \* constant in a behaviour: what may happen in it
  local,     \* per file: its version and lastModified
  remote,    \* external: per file, the snapshot's version and timestamp
  newest,    \* history: per file, the version saved last on any device
  versions,  \* how many versions exist
  now,
  process,   \* "login": LoginActivity; "game": MKXPActivity; "none"
  messages,  \* messages 400 not yet handled
  tasks,     \* Tasks not yet complete, in the order they were started
  writing    \* the download being written: its stage, file, version, timestamp

vars == <<local, remote, newest, versions, now, process, messages, tasks, writing>>

Absent == 0
Torn   == -1    \* the content of a file whose writing was cut short
Recent == 1     \* 15000 ms
Fresh  == 2     \* 30000 ms
Idle   == [stage |-> "idle"]

Version == Torn..MaxVersions
Task == [kind : {"list"}]
        \cup [kind : {"download"}, file : Files, time : 0..MaxTime]
        \cup [kind : {"upload", "commit"}, file : Files, version : Version]

TypeOK ==
  /\ env \in Envs
  /\ local \in [Files -> [version : Version, time : 0..MaxTime]]
  /\ remote \in [Files -> [version : Version, time : 0..MaxTime]]
  /\ newest \in [Files -> 0..MaxVersions]
  /\ versions \in 0..MaxVersions /\ now \in 0..MaxTime
  /\ process \in {"none", "login", "game"}
  /\ messages \in Nat /\ tasks \in Seq(Task)
  /\ \/ writing = Idle
     \/ writing \in [stage : {"truncated", "written"}, file : Files,
                     version : Version, time : 0..MaxTime]

NoCopy == [version |-> Absent, time |-> 0]

Init ==
  /\ env \in Envs
  /\ local = [f \in Files |-> NoCopy] /\ remote = [f \in Files |-> NoCopy]
  /\ newest = [f \in Files |-> 0] /\ versions = 0 /\ now = 0
  /\ process = "none" /\ messages = 0 /\ tasks = <<>> /\ writing = Idle

Copy(v, t) == [version |-> v, time |-> t]
Loading    == writing # Idle \/ \E i \in DOMAIN tasks : tasks[i].kind \in {"list", "download"}
Pending    == messages > 0 \/ tasks # <<>> \/ writing # Idle

-----------------------------------------------------------------------------
(***************************************************************************)
(* Outside: the clock, the process, other devices, LoginActivity.          *)
(***************************************************************************)

Tick ==
  /\ now < MaxTime /\ (Pending => "slow" \in env)
  /\ now' = now + 1
  /\ UNCHANGED <<local, remote, newest, versions, process, messages, tasks, writing>>

Launch ==
  /\ process = "none"
  /\ process' = "login"
  /\ UNCHANGED <<local, remote, newest, versions, now, messages, tasks, writing>>

\* nativeExit, or a crash: Tasks and messages of the process are gone.
Exit ==
  /\ process # "none" /\ "exit" \in env
  /\ writing # Idle => "tear" \in env
  /\ process' = "none" /\ messages' = 0 /\ tasks' = <<>> /\ writing' = Idle
  /\ UNCHANGED <<local, remote, newest, versions, now>>

NewVersion(f) ==
  /\ versions < MaxVersions
  /\ versions' = versions + 1
  /\ newest' = [newest EXCEPT ![f] = versions + 1]

\* Another device uploads its own save, not within Recent of one made here.
OtherDeviceSaves(f) ==
  /\ "device" \in env /\ process = "none"
  /\ local[f] # NoCopy => local[f].time < now
  /\ NewVersion(f)
  /\ remote' = [remote EXCEPT ![f] = Copy(versions + 1, now)]
  /\ UNCHANGED <<local, now, process, messages, tasks, writing>>

\* Mutant of Migrate: the date of the legacy file is taken over, ahead of ours.
MigrateKeepsDate(f) ==
  /\ process = "login" /\ "migrate" \in env
  /\ \/ /\ NewVersion(f)
        /\ local' = [local EXCEPT ![f] = Copy(versions + 1, MaxTime + 1)]
     \/ /\ "unreadable" \in env
        /\ \E left \in {NoCopy, Copy(Torn, now)} : local' = [local EXCEPT ![f] = left]
        /\ UNCHANGED <<newest, versions>>
  /\ UNCHANGED <<remote, now, process, messages, tasks, writing>>

\* onActivityResult, for one file of the legacy folder.  The existing save is
\* deleted before the legacy one is opened: no file is left when that fails, a
\* truncated one when the copying fails, or the process ends, half-way.
Migrate(f) ==
  /\ process = "login" /\ "migrate" \in env
  /\ \/ /\ NewVersion(f)
        /\ local' = [local EXCEPT ![f] = Copy(versions + 1, now)]
     \/ /\ "unreadable" \in env
        /\ \E left \in {NoCopy, Copy(Torn, now)} : local' = [local EXCEPT ![f] = left]
        /\ UNCHANGED <<newest, versions>>
  /\ UNCHANGED <<remote, now, process, messages, tasks, writing>>

\* startGame, MKXPActivity.onCreate and the start of loadSaveGames.
StartGame ==
  /\ process = "login"
  /\ process' = "game"
  /\ tasks' = <<[kind |-> "list"]>>
  /\ UNCHANGED <<local, remote, newest, versions, now, messages, writing>>

\* The C program saves and sends message 400 (external).
GameSaves(f) ==
  /\ process = "game" /\ (Loading => "early" \in env)
  /\ NewVersion(f)
  /\ local' = [local EXCEPT ![f] = Copy(versions + 1, now)]
  /\ messages' = messages + 1
  /\ UNCHANGED <<remote, now, process, tasks, writing>>

-----------------------------------------------------------------------------
(***************************************************************************)
(* Uploading.                                                              *)
(***************************************************************************)

\* Mutant of Uploadable: the modification time is not looked at.
UploadableAlways(f) == local[f].version # Absent

Uploadable(f) == local[f].version # Absent /\ local[f].time > now - Recent

\* updateSaveFiles, for message 400: read and open every recent save.
UpdateSaveFiles ==
  /\ process = "game" /\ messages > 0 /\ writing = Idle
  /\ messages' = messages - 1
  /\ tasks' = tasks \o SetToSeq({[kind |-> "upload", file |-> f,
                                   version |-> local[f].version] :
                                   f \in {g \in Files : Uploadable(g)}})
  /\ UNCHANGED <<local, remote, newest, versions, now, process, writing>>

\* A Task completes, the oldest one first unless they may be reordered.
Completes(i, kind) ==
  /\ process = "game" /\ writing = Idle
  /\ i \in DOMAIN tasks /\ tasks[i].kind = kind
  /\ i = 1 \/ "reorder" \in env

AlreadyOpen(f) == \E i \in DOMAIN tasks : tasks[i].kind = "commit" /\ tasks[i].file = f

\* A failure, a conflict and a null snapshot are logged and forgotten, and so is
\* a download whose file cannot be opened for writing.
TaskFails(i) ==
  /\ \E kind \in {"list", "download", "upload", "commit"} : Completes(i, kind)
  /\ \/ "fail" \in env
     \/ "unwritable" \in env /\ tasks[i].kind = "download"
     \/ "conflict" \in env /\ tasks[i].kind \in {"download", "upload"}
                           /\ AlreadyOpen(tasks[i].file)
  /\ tasks' = RemoveAt(tasks, i)
  /\ UNCHANGED <<local, remote, newest, versions, now, process, messages, writing>>

\* Mutant of UploadOpened: the data is never committed.
UploadOpenedOnly(i) ==
  /\ Completes(i, "upload")
  /\ tasks' = RemoveAt(tasks, i)
  /\ UNCHANGED <<local, remote, newest, versions, now, process, messages, writing>>

UploadOpened(i) ==
  /\ Completes(i, "upload")
  /\ "conflict" \in env => ~AlreadyOpen(tasks[i].file)
  /\ tasks' = Append(RemoveAt(tasks, i), [tasks[i] EXCEPT !.kind = "commit"])
  /\ UNCHANGED <<local, remote, newest, versions, now, process, messages, writing>>

\* commitAndClose, seen from the server.
Committed(i) ==
  /\ Completes(i, "commit")
  /\ tasks' = RemoveAt(tasks, i)
  /\ remote' = [remote EXCEPT ![tasks[i].file] = Copy(tasks[i].version, now)]
  /\ UNCHANGED <<local, newest, versions, now, process, messages, writing>>

-----------------------------------------------------------------------------
(***************************************************************************)
(* Downloading.                                                            *)
(***************************************************************************)

\* Mutants of Stale: only absence counts; the comparison is turned round.
StaleIfAbsent(f, time) == local[f].version = Absent
StaleIfOlder(f, time)  == local[f].version = Absent \/ local[f].time - time >= 0

Stale(f, time) == local[f].version = Absent \/ time - local[f].time >= Fresh

\* loadSaveGames' first listener.  A name is split at its last underscore, so
\* an underscored file seems to belong to another package.
Listed(i) ==
  /\ Completes(i, "list")
  /\ LET wanted == {f \in Files \ Underscored :
                      remote[f].version # Absent /\ Stale(f, remote[f].time)}
     IN  tasks' = RemoveAt(tasks, i)
                  \o SetToSeq({[kind |-> "download", file |-> f,
                                time |-> remote[f].time] : f \in wanted})
  /\ UNCHANGED <<local, remote, newest, versions, now, process, messages, writing>>

\* The second listener reads the snapshot as it is by now, and overwrites.
DownloadOpened(i) ==
  /\ Completes(i, "download")
  /\ "conflict" \in env => ~AlreadyOpen(tasks[i].file)
  /\ tasks' = RemoveAt(tasks, i)
  /\ LET f == tasks[i].file
     IN  /\ writing' = [stage |-> "truncated", file |-> f,
                        version |-> remote[f].version, time |-> tasks[i].time]
         /\ local' = [local EXCEPT ![f] = Copy(Torn, now)]
  /\ UNCHANGED <<remote, newest, versions, now, process, messages>>

DownloadWritten ==
  /\ writing # Idle /\ writing.stage = "truncated"
  /\ local' = [local EXCEPT ![writing.file] = Copy(writing.version, now)]
  /\ writing' = [writing EXCEPT !.stage = "written"]
  /\ UNCHANGED <<remote, newest, versions, now, process, messages, tasks>>

\* Mutant of DownloadStamped: setLastModifiedTime is forgotten.
DownloadNotStamped ==
  /\ writing # Idle /\ writing.stage = "written"
  /\ writing' = Idle
  /\ UNCHANGED <<local, remote, newest, versions, now, process, messages, tasks>>

\* setLastModifiedTime, with the timestamp of the list.
DownloadStamped ==
  /\ writing # Idle /\ writing.stage = "written"
  /\ local' = [local EXCEPT ![writing.file].time = writing.time]
  /\ writing' = Idle
  /\ UNCHANGED <<remote, newest, versions, now, process, messages, tasks>>

\* IOException, caught and logged.  From Files.write it leaves the file as the
\* truncation, or the part that was written, made it; from setLastModifiedTime,
\* complete but dated when it was written.  Loading goes on.
DownloadFails ==
  /\ writing # Idle /\ "unwritable" \in env
  /\ \/ UNCHANGED local
     \/ /\ writing.stage = "truncated"
        /\ local' = [local EXCEPT ![writing.file] = Copy(Torn, now)]
  /\ writing' = Idle
  /\ UNCHANGED <<remote, newest, versions, now, process, messages, tasks>>

-----------------------------------------------------------------------------
TaskCompletes ==
  \E i \in DOMAIN tasks :
    TaskFails(i) \/ UploadOpened(i) \/ Committed(i) \/ Listed(i) \/ DownloadOpened(i)
UIThread == UpdateSaveFiles \/ TaskCompletes
            \/ DownloadWritten \/ DownloadStamped \/ DownloadFails
Outside  == Tick \/ Launch \/ Exit \/ StartGame
            \/ \E f \in Files : OtherDeviceSaves(f) \/ Migrate(f) \/ GameSaves(f)

Next == (UIThread \/ Outside) /\ UNCHANGED env
Spec == Init /\ [][Next]_<<vars, env>>

\* The looper runs and every Task completes; nobody is obliged to play.
FairSpec == Spec /\ WF_vars(UIThread)

-----------------------------------------------------------------------------
(***************************************************************************)
(* What the synchronisation promises.                                      *)
(***************************************************************************)

\* Tasks complete in order and in time, nobody saves before the saves are loaded,
\* one device is used at a time, and legacy saves can be read.  Tasks may fail,
\* the process may end, and the writing of a download may be cut short.
Orderly  == env \subseteq {"fail", "exit", "tear", "unwritable", "device", "migrate"}
MayBeCut == env \cap {"tear", "unwritable"} # {}

\* In such an environment the save made last is in the game directory or in the
\* cloud, across failed Tasks and restarts.  It is lost in one way only: a file
\* that a download left truncated is uploaded over it.
NewestSaveSurvives ==
  Orderly => \A f \in Files :
    \/ newest[f] \in {Absent, local[f].version, remote[f].version}
    \/ MayBeCut /\ remote[f].version = Torn

\* Under the same conditions a snapshot is never replaced by an older save, and by
\* a truncated one only where the writing of a download may be cut short.
RemoteNeverRegresses ==
  [][Orderly => \A f \in Files :
       \/ remote'[f].version >= remote[f].version
       \/ MayBeCut /\ remote'[f].version = Torn]_vars

\* A copy that looks fresher than its original hides the next version of it
\* from the 30-second rule.  In every environment, a complete copy comes to look
\* fresher only when the download that writes it fails or the process ends in it.
LooksFresher(f) ==
  /\ writing = Idle \/ writing.file # f
  /\ local[f].version = remote[f].version /\ local[f].version # Torn
  /\ local[f].time > remote[f].time
CutShort(f) == writing # Idle /\ writing.file = f /\ (DownloadFails \/ Exit)
FresherOnlyIfCutShort ==
  [][\A f \in Files : LooksFresher(f)' => LooksFresher(f) \/ CutShort(f)]_vars

\* When moreover nothing fails or is cut short, a save the game made reaches the cloud unless
\* the process ends first.
Reliable == env \subseteq {"exit", "device"}
SavesReachCloud ==
  \A f \in Files : \A v \in 1..MaxVersions :
    Reliable /\ local[f] = Copy(v, now) /\ messages > 0
      ~> remote[f].version >= v \/ process = "none"

\* Under the same conditions a snapshot at least 30 seconds newer than the local
\* save, or without one, when the game starts loading arrives unless the process
\* ends first.
NewerSnapshotArrives ==
  \A f \in Files \ Underscored : \A v \in 1..MaxVersions :
    (/\ Reliable
     /\ \E i \in DOMAIN tasks : tasks[i].kind = "list"
     /\ remote[f].version = v
     /\ local[f].version = Absent \/ local[f].time + Fresh <= remote[f].time)
      ~> local[f].version >= v \/ process = "none"

\* loadSaveGames logs "Skipping remote file since local version is fresh".  A
\* download never overwrites a save that is fresh by that rule.
FreshIsSkipped ==
  [][writing = Idle /\ writing' # Idle => Stale(writing'.file, writing'.time)]_vars
=============================================================================

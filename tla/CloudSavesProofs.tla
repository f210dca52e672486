--------------------------- MODULE CloudSavesProofs ---------------------------
(***************************************************************************)
(* An orderly synchronisation loses or rolls back a save only by uploading *)
(* a file its own download left truncated, and a complete copy looks       *)
(* fresher than its original only after a download that was cut short, for *)
(* any number of files and versions.                                       *)
(***************************************************************************)
EXTENDS CloudSaves, TLAPS, FiniteSetTheorems, SequenceTheorems

-----------------------------------------------------------------------------
(***************************************************************************)
(* Sequences of Tasks.                                                     *)
(***************************************************************************)

\* A finite set listed as a sequence: only its elements.
LEMMA SetToSeqProperties ==
  ASSUME NEW S, IsFiniteSet(S)
  PROVE  /\ SetToSeq(S) \in Seq(S)
         /\ \A i \in DOMAIN SetToSeq(S) : SetToSeq(S)[i] \in S
<1> DEFINE n == Cardinality(S)
<1>1. n \in Nat /\ ExistsBijection(1..n, S)
  BY FS_CardinalityType
<1>2. \E f \in [1..n -> S] : IsInjective(f)
  BY <1>1 DEF ExistsBijection, Bijection, Injection
<1>3. SetToSeq(S) \in [1..n -> S]
  BY <1>2 DEF SetToSeq
<1> QED BY <1>1, <1>3

\* A Task removed: every remaining one was there, at another place.
LEMMA RemoveAtProperties ==
  ASSUME NEW S, NEW q \in Seq(S), NEW i \in DOMAIN q
  PROVE  /\ RemoveAt(q, i) \in Seq(S)
         /\ \A j \in DOMAIN RemoveAt(q, i) : \E k \in DOMAIN q : k # i /\ RemoveAt(q, i)[j] = q[k]
<1>1. i \in 1..Len(q) /\ Len(q) \in Nat /\ \A j \in 1..Len(q) : q[j] \in S
  BY LenProperties
<1> DEFINE a == SubSeq(q, 1, i-1)  b == SubSeq(q, i+1, Len(q))
<1>2. /\ a \in Seq(S) /\ Len(a) = i - 1 /\ \A j \in 1..(i - 1) : a[j] = q[j]
  BY <1>1, SubSeqProperties
<1>3. /\ b \in Seq(S) /\ Len(b) = Len(q) - i /\ \A j \in 1..(Len(q) - i) : b[j] = q[i + j]
  <2>1. \A j \in (i+1)..Len(q) : q[j] \in S
    BY <1>1
  <2>2. /\ b \in Seq(S) /\ Len(b) = (IF i+1 <= Len(q) THEN Len(q) - (i+1) + 1 ELSE 0)
        /\ \A j \in 1..(Len(q) - (i+1) + 1) : b[j] = q[i + 1 + j - 1]
    BY <1>1, <2>1, SubSeqProperties
  <2> QED BY <1>1, <2>2
<1> HIDE DEF a, b
<1>4. /\ a \o b \in Seq(S) /\ Len(a \o b) = Len(q) - 1
      /\ \A j \in 1..(Len(q) - 1) : (a \o b)[j] = IF j <= i - 1 THEN a[j] ELSE b[j - (i - 1)]
  <2>1. Len(a) + Len(b) = Len(q) - 1
    BY <1>1, <1>2, <1>3
  <2>2. /\ a \o b \in Seq(S) /\ Len(a \o b) = Len(a) + Len(b)
        /\ \A j \in 1..(Len(a) + Len(b)) : (a \o b)[j] = IF j <= Len(a) THEN a[j] ELSE b[j - Len(a)]
    BY <1>2, <1>3, ConcatProperties
  <2>3. Len(a) = i - 1
    BY <1>2
  <2> QED BY <2>1, <2>2, <2>3
<1>5. RemoveAt(q, i) = a \o b
  BY DEF RemoveAt, a, b
<1>6. DOMAIN (a \o b) = 1..(Len(q) - 1)
  BY <1>4, LenProperties
<1>7. ASSUME NEW j \in 1..(Len(q) - 1)
      PROVE  \E k \in DOMAIN q : k # i /\ (a \o b)[j] = q[k]
  <2>1. CASE j <= i - 1
    <3>1. j \in 1..(i - 1) /\ j \in 1..Len(q) /\ j # i
      BY <1>1, <2>1
    <3> QED BY <1>1, <1>2, <1>4, <2>1, <3>1
  <2>2. CASE ~(j <= i - 1)
    <3>1. j - (i - 1) \in 1..(Len(q) - i) /\ j + 1 \in 1..Len(q) /\ j + 1 # i
          /\ i + (j - (i - 1)) = j + 1
      BY <1>1, <2>2
    <3>2. (a \o b)[j] = b[j - (i - 1)]
      BY <1>4, <2>2
    <3>3. b[j - (i - 1)] = q[j + 1]
      BY <1>3, <3>1
    <3>4. j + 1 \in DOMAIN q
      BY <3>1, LenProperties
    <3> QED BY <3>1, <3>2, <3>3, <3>4
  <2> QED BY <2>1, <2>2
<1> QED BY <1>4, <1>5, <1>6, <1>7

-----------------------------------------------------------------------------
Uploads(task) == task.kind \in {"upload", "commit"}

\* The fields of each kind of Task, and an upload that becomes a commit.
LEMMA TaskShape ==
  ASSUME NEW task \in Task
  PROVE  /\ task.kind = "list" \/ task.kind = "download" \/ Uploads(task)
         /\ task.kind # "list" => task.file \in Files
         /\ task.kind = "download" => task.time \in 0..MaxTime
         /\ Uploads(task) => /\ task.version \in Version
                             /\ [task EXCEPT !.kind = "commit"] \in Task
                             /\ [task EXCEPT !.kind = "commit"].kind = "commit"
                             /\ [task EXCEPT !.kind = "commit"].file = task.file
                             /\ [task EXCEPT !.kind = "commit"].version = task.version
<1>1. CASE task \in [kind : {"list"}]
  BY <1>1 DEF Uploads
<1>2. CASE task \in [kind : {"download"}, file : Files, time : 0..MaxTime]
  BY <1>2 DEF Uploads
<1>3. CASE task \in [kind : {"upload", "commit"}, file : Files, version : Version]
  <2>1. [task EXCEPT !.kind = "commit"] \in [kind : {"upload", "commit"}, file : Files, version : Version]
    BY <1>3
  <2> QED BY <1>3, <2>1 DEF Uploads, Task
<1> QED BY <1>1, <1>2, <1>3 DEF Task

\* The Tasks updateSaveFiles and the list start.
UploadOf(f)   == [kind |-> "upload", file |-> f, version |-> local[f].version]
DownloadOf(f) == [kind |-> "download", file |-> f, time |-> remote[f].time]
Wanted(f)     == f \notin Underscored /\ remote[f].version # Absent /\ Stale(f, remote[f].time)

\* The Tasks a handler starts are Tasks, and finitely many.
LEMMA NewTasks ==
  ASSUME TypeOK
  PROVE  /\ {UploadOf(f) : f \in {g \in Files : Uploadable(g)}} \subseteq Task
         /\ IsFiniteSet({UploadOf(f) : f \in {g \in Files : Uploadable(g)}})
         /\ {DownloadOf(f) : f \in {g \in Files : Wanted(g)}} \subseteq Task
         /\ IsFiniteSet({DownloadOf(f) : f \in {g \in Files : Wanted(g)}})
<1>1. \A f \in Files : /\ UploadOf(f) \in [kind : {"upload", "commit"}, file : Files, version : Version]
                       /\ DownloadOf(f) \in [kind : {"download"}, file : Files, time : 0..MaxTime]
  BY DEF TypeOK, UploadOf, DownloadOf
<1>2. \A f \in Files : UploadOf(f) \in Task /\ DownloadOf(f) \in Task
  BY <1>1 DEF Task
<1>3. ASSUME NEW T \in SUBSET Files
      PROVE  IsFiniteSet({UploadOf(f) : f \in T}) /\ IsFiniteSet({DownloadOf(f) : f \in T})
  <2>1. IsFiniteSet(T)
    BY FilesAssumption, FS_Subset
  <2>2. [f \in T |-> UploadOf(f)] \in Surjection(T, {UploadOf(f) : f \in T})
    BY DEF Surjection
  <2>3. [f \in T |-> DownloadOf(f)] \in Surjection(T, {DownloadOf(f) : f \in T})
    BY DEF Surjection
  <2> QED BY <2>1, <2>2, <2>3, FS_Surjection
<1> QED BY <1>2, <1>3

\* A sequence followed by the elements of a finite set.
LEMMA Grown ==
  ASSUME NEW q \in Seq(Task), NEW S \in SUBSET Task, IsFiniteSet(S)
  PROVE  /\ q \o SetToSeq(S) \in Seq(Task)
         /\ \A j \in DOMAIN (q \o SetToSeq(S)) :
              \/ (q \o SetToSeq(S))[j] \in S /\ j \notin DOMAIN q
              \/ j \in DOMAIN q /\ (q \o SetToSeq(S))[j] = q[j]
<1> DEFINE r == SetToSeq(S)
<1>1. r \in Seq(Task) /\ \A j \in 1..Len(r) : r[j] \in S
  <2>1. r \in Seq(S) /\ \A j \in DOMAIN r : r[j] \in S
    BY SetToSeqProperties
  <2> QED BY <2>1, SeqMonotonic, LenProperties
<1> HIDE DEF r
<1>2. /\ q \o r \in Seq(Task) /\ Len(q \o r) = Len(q) + Len(r)
      /\ \A j \in 1..(Len(q) + Len(r)) : (q \o r)[j] = IF j <= Len(q) THEN q[j] ELSE r[j - Len(q)]
  BY <1>1, ConcatProperties
<1>3. /\ Len(q) \in Nat /\ Len(r) \in Nat /\ DOMAIN q = 1..Len(q)
      /\ DOMAIN (q \o r) = 1..(Len(q) + Len(r))
  BY <1>1, <1>2, LenProperties
<1>4. ASSUME NEW j \in 1..(Len(q) + Len(r))
      PROVE  \/ (q \o r)[j] \in S /\ j \notin DOMAIN q
             \/ j \in DOMAIN q /\ (q \o r)[j] = q[j]
  <2>1. CASE j <= Len(q)
    BY <1>2, <1>3, <2>1
  <2>2. CASE ~(j <= Len(q))
    <3>1. j - Len(q) \in 1..Len(r) /\ j \notin DOMAIN q
      BY <1>3, <2>2
    <3> QED BY <1>1, <1>2, <2>2, <3>1
  <2> QED BY <2>1, <2>2
<1>5. q \o r \in Seq(Task) /\ \A j \in DOMAIN (q \o r) :
                                 \/ (q \o r)[j] \in S /\ j \notin DOMAIN q
                                 \/ j \in DOMAIN q /\ (q \o r)[j] = q[j]
  BY <1>2, <1>3, <1>4
<1> QED BY <1>5 DEF r

\* UpdateSaveFiles and Listed start the Tasks named above.
LEMMA StartedTasks ==
  /\ UpdateSaveFiles => tasks' = tasks \o SetToSeq({UploadOf(f) : f \in {g \in Files : Uploadable(g)}})
  /\ \A i : Listed(i) => tasks' = RemoveAt(tasks, i)
                                  \o SetToSeq({DownloadOf(f) : f \in {g \in Files : Wanted(g)}})
<1>1. {f \in Files \ Underscored : remote[f].version # Absent /\ Stale(f, remote[f].time)}
        = {g \in Files : Wanted(g)}
  BY DEF Wanted
<1> QED BY <1>1 DEF UpdateSaveFiles, Listed, UploadOf, DownloadOf

\* Where the Tasks after a step come from.
Started(task) ==
  \/ task = [kind |-> "list"]
  \/ \E f \in Files : task = UploadOf(f) /\ Uploadable(f) /\ UpdateSaveFiles
  \/ \E f \in Files : task = DownloadOf(f) /\ Wanted(f) /\ \E i \in DOMAIN tasks : Listed(i)
  \/ \E i \in DOMAIN tasks : Completes(i, "upload") /\ task = [tasks[i] EXCEPT !.kind = "commit"]

\* Every Task after a step was pending before it or has just been started.
LEMMA TasksStep ==
  ASSUME TypeOK, Next
  PROVE  /\ tasks' \in Seq(Task)
         /\ \A j \in DOMAIN tasks' :
              (\E k \in DOMAIN tasks : tasks'[j] = tasks[k]) \/ Started(tasks'[j])
<1>1. tasks \in Seq(Task)
  BY DEF TypeOK
<1>2. CASE UNCHANGED tasks
  BY <1>1, <1>2
<1>3. CASE tasks' = <<>>
  BY <1>3
<1>4. CASE StartGame
  <2>1. tasks' = <<[kind |-> "list"]>> /\ [kind |-> "list"] \in Task
    BY <1>4 DEF StartGame, Task
  <2>2. tasks' \in Seq(Task) /\ DOMAIN tasks' = {1} /\ tasks'[1] = [kind |-> "list"]
    BY <2>1, SMT
  <2> QED BY <2>2 DEF Started
<1>5. CASE UpdateSaveFiles
  <2> DEFINE S == {UploadOf(f) : f \in {g \in Files : Uploadable(g)}}
  <2>1. tasks' = tasks \o SetToSeq(S)
    BY <1>5, StartedTasks
  <2>2. S \in SUBSET Task /\ IsFiniteSet(S)
    BY NewTasks
  <2>3. \A task \in S : Started(task)
    BY <1>5 DEF Started
  <2> HIDE DEF S
  <2>4. /\ tasks' \in Seq(Task)
        /\ \A j \in DOMAIN tasks' : tasks'[j] \in S \/ (j \in DOMAIN tasks /\ tasks'[j] = tasks[j])
    BY <1>1, <2>1, <2>2, Grown
  <2> QED BY <2>3, <2>4
<1>6. ASSUME NEW i \in DOMAIN tasks, TaskFails(i) \/ Committed(i) \/ DownloadOpened(i)
      PROVE  /\ tasks' \in Seq(Task)
             /\ \A j \in DOMAIN tasks' : \E k \in DOMAIN tasks : tasks'[j] = tasks[k]
  <2>1. tasks' = RemoveAt(tasks, i)
    BY <1>6 DEF TaskFails, Committed, DownloadOpened
  <2> QED BY <1>1, <2>1, RemoveAtProperties
<1>7. ASSUME NEW i \in DOMAIN tasks, Listed(i)
      PROVE  /\ tasks' \in Seq(Task)
             /\ \A j \in DOMAIN tasks' :
                  (\E k \in DOMAIN tasks : tasks'[j] = tasks[k]) \/ Started(tasks'[j])
  <2> DEFINE S == {DownloadOf(f) : f \in {g \in Files : Wanted(g)}}
             q == RemoveAt(tasks, i)
  <2>1. tasks' = q \o SetToSeq(S)
    BY <1>7, StartedTasks
  <2>2. S \in SUBSET Task /\ IsFiniteSet(S)
    BY NewTasks
  <2>3. \A task \in S : Started(task)
    BY <1>7 DEF Started
  <2>4. q \in Seq(Task) /\ \A j \in DOMAIN q : \E k \in DOMAIN tasks : q[j] = tasks[k]
    BY <1>1, RemoveAtProperties
  <2> HIDE DEF S, q
  <2>5. /\ tasks' \in Seq(Task)
        /\ \A j \in DOMAIN tasks' : tasks'[j] \in S \/ (j \in DOMAIN q /\ tasks'[j] = q[j])
    BY <2>1, <2>2, <2>4, Grown
  <2> QED BY <2>3, <2>4, <2>5
<1>8. ASSUME NEW i \in DOMAIN tasks, UploadOpened(i)
      PROVE  /\ tasks' \in Seq(Task)
             /\ \A j \in DOMAIN tasks' :
                  (\E k \in DOMAIN tasks : tasks'[j] = tasks[k]) \/ Started(tasks'[j])
  <2> DEFINE q == RemoveAt(tasks, i)
             task == [tasks[i] EXCEPT !.kind = "commit"]
  <2>1. tasks' = Append(q, task) /\ Completes(i, "upload") /\ Started(task)
    BY <1>8 DEF UploadOpened, Started
  <2>2. tasks[i] \in Task /\ tasks[i].kind = "upload"
    BY <1>1, <2>1 DEF Completes
  <2>3. task \in Task
    BY <2>2, TaskShape DEF Uploads
  <2>4. q \in Seq(Task) /\ \A j \in DOMAIN q : \E k \in DOMAIN tasks : q[j] = tasks[k]
    BY <1>1, RemoveAtProperties
  <2> HIDE DEF task, q
  <2>5. /\ tasks' \in Seq(Task)
        /\ \A j \in DOMAIN tasks' : tasks'[j] = task \/ (j \in DOMAIN q /\ tasks'[j] = q[j])
    BY <2>1, <2>3, <2>4
  <2> QED BY <2>1, <2>4, <2>5
<1> QED
  BY <1>2, <1>3, <1>4, <1>5, <1>6, <1>7, <1>8
  DEF Next, UIThread, Outside, TaskCompletes, DownloadWritten, DownloadStamped, DownloadFails,
      Tick, Launch, Exit,
      OtherDeviceSaves, Migrate, GameSaves

-----------------------------------------------------------------------------
(***************************************************************************)
(* Types.                                                                  *)
(***************************************************************************)

Stored  == [version : Version, time : 0..MaxTime]
Writing == [stage : {"truncated", "written"}, file : Files, version : Version, time : 0..MaxTime]

\* Copy makes a copy.
LEMMA CopyType == \A v \in Version, t \in 0..MaxTime : Copy(v, t) \in Stored
BY DEF Copy, Stored

\* The constants used as versions and times are in their ranges.
LEMMA Constants == /\ Absent \in Version /\ Torn \in Version /\ 0 \in 0..MaxTime
                   /\ NoCopy \in Stored /\ 0 \in 0..MaxVersions
                   /\ Version \subseteq Int /\ 0..MaxVersions \subseteq Version
BY BoundsAssumption DEF Absent, Torn, NoCopy, Stored, Version

\* A download being written has its four fields.
LEMMA WritingShape ==
  ASSUME TypeOK, writing # Idle
  PROVE  writing \in Writing
BY DEF TypeOK, Writing

\* The new version is a version.
LEMMA NewVersionType ==
  ASSUME TypeOK, NEW f \in Files, NewVersion(f)
  PROVE  /\ versions' = versions + 1 /\ versions' \in 0..MaxVersions /\ versions' \in Version
         /\ newest' \in [Files -> 0..MaxVersions] /\ newest'[f] = versions'
         /\ \A g \in Files : g # f => newest'[g] = newest[g]
<1>1. versions' = versions + 1 /\ versions + 1 \in 0..MaxVersions /\ versions + 1 \in Version
  BY BoundsAssumption DEF TypeOK, NewVersion, Version, Torn
<1>2. newest' = [newest EXCEPT ![f] = versions + 1] /\ newest \in [Files -> 0..MaxVersions]
  BY DEF TypeOK, NewVersion
<1> QED BY <1>1, <1>2

\* A step leaves a version and a time in every place.
LEMMA CopiesType ==
  ASSUME TypeOK, Next
  PROVE  local' \in [Files -> Stored] /\ remote' \in [Files -> Stored]
<1>1. local \in [Files -> Stored] /\ remote \in [Files -> Stored] /\ now \in 0..MaxTime
  BY DEF TypeOK, Stored
<1>2. CASE UNCHANGED <<local, remote>>
  BY <1>1, <1>2
<1>3. ASSUME NEW f \in Files, OtherDeviceSaves(f)
      PROVE  local' \in [Files -> Stored] /\ remote' \in [Files -> Stored]
  <2>1. Copy(versions + 1, now) \in Stored
    BY <1>1, <1>3, NewVersionType, CopyType DEF OtherDeviceSaves
  <2> QED BY <1>1, <1>3, <2>1 DEF OtherDeviceSaves
<1>4. ASSUME NEW f \in Files, Migrate(f) \/ GameSaves(f)
      PROVE  local' \in [Files -> Stored] /\ remote' \in [Files -> Stored]
  <2>1. /\ remote' = remote
        /\ \/ NewVersion(f) /\ local' = [local EXCEPT ![f] = Copy(versions + 1, now)]
           \/ local' = [local EXCEPT ![f] = NoCopy]
           \/ local' = [local EXCEPT ![f] = Copy(Torn, now)]
    BY <1>4 DEF Migrate, GameSaves
  <2>2. (NewVersion(f) => Copy(versions + 1, now) \in Stored) /\ Copy(Torn, now) \in Stored
    BY <1>1, NewVersionType, CopyType, Constants
  <2> QED BY <1>1, <2>1, <2>2, Constants
<1>5. ASSUME NEW i \in DOMAIN tasks, Committed(i)
      PROVE  local' \in [Files -> Stored] /\ remote' \in [Files -> Stored]
  <2>1. tasks[i] \in Task /\ tasks[i].kind = "commit"
    BY <1>5 DEF TypeOK, Committed, Completes
  <2>2. Copy(tasks[i].version, now) \in Stored
    BY <1>1, <2>1, TaskShape, CopyType DEF Uploads
  <2> QED BY <1>1, <1>5, <2>2 DEF Committed
<1>6. ASSUME NEW i \in DOMAIN tasks, DownloadOpened(i)
      PROVE  local' \in [Files -> Stored] /\ remote' \in [Files -> Stored]
  <2>1. Copy(Torn, now) \in Stored
    BY <1>1, Constants, CopyType
  <2> QED BY <1>1, <1>6, <2>1 DEF DownloadOpened
<1>7. CASE DownloadWritten
  <2>1. Copy(writing.version, now) \in Stored
    BY <1>1, <1>7, WritingShape, CopyType DEF DownloadWritten, Writing
  <2> QED BY <1>1, <1>7, <2>1 DEF DownloadWritten
<1>8. CASE DownloadStamped
  <2>1. writing.time \in 0..MaxTime /\ writing.file \in Files
    BY <1>8, WritingShape DEF DownloadStamped, Writing
  <2>2. [local[writing.file] EXCEPT !.time = writing.time] \in Stored
    BY <1>1, <2>1 DEF Stored
  <2> QED BY <1>1, <1>8, <2>1, <2>2 DEF DownloadStamped
<1>9. CASE DownloadFails
  <2>1. Copy(Torn, now) \in Stored
    BY <1>1, Constants, CopyType
  <2> QED BY <1>1, <1>9, <2>1 DEF DownloadFails
<1> QED
  BY <1>2, <1>3, <1>4, <1>5, <1>6, <1>7, <1>8, <1>9
  DEF Next, UIThread, Outside, TaskCompletes, UpdateSaveFiles, TaskFails, UploadOpened, Listed,
      Tick, Launch, Exit, StartGame

\* A step leaves nothing or a well-formed download being written.
LEMMA WritingType ==
  ASSUME TypeOK, Next
  PROVE  writing' = Idle \/ writing' \in Writing
<1>1. ASSUME NEW i \in DOMAIN tasks, DownloadOpened(i)
      PROVE  writing' \in Writing
  <2>1. tasks[i] \in Task /\ tasks[i].kind = "download"
    BY <1>1 DEF TypeOK, DownloadOpened, Completes
  <2>2. tasks[i].file \in Files /\ tasks[i].time \in 0..MaxTime
    BY <2>1, TaskShape
  <2>3. remote[tasks[i].file].version \in Version
    BY <2>2 DEF TypeOK
  <2> QED BY <1>1, <2>2, <2>3 DEF DownloadOpened, Writing
<1>2. CASE DownloadWritten
  BY <1>2, WritingShape DEF DownloadWritten, Writing
<1>3. CASE writing' = Idle \/ writing' = writing
  BY <1>3, WritingShape
<1> QED
  BY <1>1, <1>2, <1>3
  DEF Next, UIThread, Outside, TaskCompletes, UpdateSaveFiles, TaskFails, UploadOpened, Listed,
      Committed, DownloadStamped, DownloadFails, Tick, Launch, Exit, StartGame, OtherDeviceSaves, Migrate,
      GameSaves

\* The counters, the history and the phase of the process.
LEMMA CountersType ==
  ASSUME TypeOK, Next
  PROVE  /\ newest' \in [Files -> 0..MaxVersions] /\ versions' \in 0..MaxVersions
         /\ now' \in 0..MaxTime /\ messages' \in Nat /\ env' \in Envs
         /\ process' \in {"none", "login", "game"}
<1>1. newest' \in [Files -> 0..MaxVersions] /\ versions' \in 0..MaxVersions
  <2>1. UNCHANGED <<newest, versions>> \/ \E f \in Files : NewVersion(f)
    BY DEF Next, UIThread, Outside, TaskCompletes, UpdateSaveFiles, TaskFails, UploadOpened,
           Listed, Committed, DownloadOpened, DownloadWritten, DownloadStamped, DownloadFails, Tick, Launch,
           Exit, StartGame, OtherDeviceSaves, Migrate, GameSaves
  <2> QED BY <2>1, NewVersionType DEF TypeOK
<1>2. now' \in 0..MaxTime
  <2>1. now' = now \/ (now < MaxTime /\ now' = now + 1)
    BY DEF Next, UIThread, Outside, TaskCompletes, UpdateSaveFiles, TaskFails, UploadOpened,
           Listed, Committed, DownloadOpened, DownloadWritten, DownloadStamped, DownloadFails, Tick, Launch,
           Exit, StartGame, OtherDeviceSaves, Migrate, GameSaves
  <2> QED BY <2>1, BoundsAssumption DEF TypeOK
<1>3. messages' \in Nat
  <2>1. messages' \in {messages, messages + 1, 0} \/ (messages > 0 /\ messages' = messages - 1)
    BY DEF Next, UIThread, Outside, TaskCompletes, UpdateSaveFiles, TaskFails, UploadOpened,
           Listed, Committed, DownloadOpened, DownloadWritten, DownloadStamped, DownloadFails, Tick, Launch,
           Exit, StartGame, OtherDeviceSaves, Migrate, GameSaves
  <2> QED BY <2>1 DEF TypeOK
<1>4. process' \in {"none", "login", "game"} /\ env' \in Envs
  BY DEF TypeOK, Next, UIThread, Outside, TaskCompletes, UpdateSaveFiles, TaskFails, UploadOpened,
      Listed, Committed, DownloadOpened, DownloadWritten, DownloadStamped, DownloadFails, Tick, Launch,
      Exit, StartGame, OtherDeviceSaves, Migrate, GameSaves
<1> QED BY <1>1, <1>2, <1>3, <1>4

\* Every variable keeps its type: in particular no message is taken that was not
\* sent, and no time or version leaves its bounds.
THEOREM TypeCorrect == Spec => []TypeOK
<1>1. Init => TypeOK
  <2> SUFFICES ASSUME Init PROVE TypeOK
    OBVIOUS
  <2>1. local \in [Files -> Stored] /\ remote \in [Files -> Stored]
    BY Constants DEF Init
  <2>2. tasks \in Seq(Task) /\ newest \in [Files -> 0..MaxVersions]
    BY Constants DEF Init
  <2> QED BY <2>1, <2>2, Constants DEF Init, TypeOK, Stored
<1>2. TypeOK /\ [Next]_<<vars, env>> => TypeOK'
  <2> SUFFICES ASSUME TypeOK, [Next]_<<vars, env>> PROVE TypeOK'
    OBVIOUS
  <2>1. CASE Next
    BY <2>1, TasksStep, CopiesType, WritingType, CountersType DEF TypeOK, Stored, Writing
  <2>2. CASE UNCHANGED <<vars, env>>
    BY <2>2 DEF vars, TypeOK
  <2> QED BY <2>1, <2>2
<1> QED BY <1>1, <1>2, PTL DEF Spec

-----------------------------------------------------------------------------
(***************************************************************************)
(* Dates and version numbers, in every environment.                        *)
(***************************************************************************)

\* Nothing is newer than the newest version or later than now.
CopyDated(copy) == copy.version <= versions /\ copy.time <= now

\* A Task, or a download being written, has a version that exists; the date it
\* will stamp is no later than that of the snapshot, whose date only grows.
TaskDated(task) ==
  /\ Uploads(task) => task.version <= versions
  /\ task.kind = "download" => task.time <= remote[task.file].time
WritingDated ==
  writing # Idle => writing.version <= versions /\ writing.time <= remote[writing.file].time

DatesInv ==
  /\ \A f \in Files : CopyDated(local[f]) /\ CopyDated(remote[f])
  /\ \A i \in DOMAIN tasks : TaskDated(tasks[i])
  /\ WritingDated

\* A version or a date that is a number.
LEMMA Numbers ==
  ASSUME TypeOK
  PROVE  /\ versions \in Nat /\ now \in Nat
         /\ \A f \in Files : /\ local[f].version \in Int /\ local[f].time \in Nat
                             /\ remote[f].version \in Int /\ remote[f].time \in Nat
                             /\ newest[f] \in Nat
BY BoundsAssumption DEF TypeOK, Version, Torn

\* The clock and the number of versions never go back.
LEMMA CountersGrow ==
  ASSUME TypeOK, Next
  PROVE  versions' >= versions /\ now' >= now
<1>1. versions' \in {versions, versions + 1}
  BY DEF Next, UIThread, Outside, TaskCompletes, UpdateSaveFiles, TaskFails, UploadOpened,
         Listed, Committed, DownloadOpened, DownloadWritten, DownloadStamped, DownloadFails, Tick, Launch,
         Exit, StartGame, OtherDeviceSaves, Migrate, GameSaves, NewVersion
<1>2. now' \in {now, now + 1}
  BY DEF Next, UIThread, Outside, TaskCompletes, UpdateSaveFiles, TaskFails, UploadOpened,
         Listed, Committed, DownloadOpened, DownloadWritten, DownloadStamped, DownloadFails, Tick, Launch,
         Exit, StartGame, OtherDeviceSaves, Migrate, GameSaves
<1> QED BY <1>1, <1>2, Numbers

\* A snapshot is only ever replaced by one dated now.
LEMMA RemoteStep ==
  ASSUME TypeOK, DatesInv, Next, NEW f \in Files
  PROVE  /\ remote'[f].time >= remote[f].time
         /\ remote'[f].version <= versions' /\ remote'[f].time <= now'
         /\ remote'[f] = remote[f] \/ remote'[f].time = now
<1>1. /\ versions' >= versions /\ now' >= now /\ versions' \in Nat /\ now' \in Nat
      /\ CopyDated(remote[f])
  BY CountersGrow, CountersType, BoundsAssumption DEF DatesInv
<1>2. CASE remote'[f] = remote[f]
  BY <1>1, <1>2, Numbers DEF CopyDated
<1>3. ASSUME NEW v \in Int, v <= versions', remote'[f] = Copy(v, now), now' = now
      PROVE  /\ remote'[f].time >= remote[f].time
             /\ remote'[f].version <= versions' /\ remote'[f].time <= now'
             /\ remote'[f].time = now
  BY <1>1, <1>3, Numbers DEF CopyDated, Copy
<1>4. ASSUME NEW g \in Files, OtherDeviceSaves(g), g = f
      PROVE  /\ remote'[f] = Copy(versions', now) /\ now' = now
  BY <1>4, NewVersionType DEF OtherDeviceSaves, TypeOK
<1>5. ASSUME NEW i \in DOMAIN tasks, Committed(i), tasks[i].file = f
      PROVE  /\ remote'[f] = Copy(tasks[i].version, now) /\ now' = now
             /\ tasks[i].version \in Int /\ tasks[i].version <= versions'
  <2>1. tasks[i] \in Task /\ tasks[i].kind = "commit" /\ TaskDated(tasks[i])
    BY <1>5 DEF TypeOK, Committed, Completes, DatesInv
  <2>2. tasks[i].version \in Int /\ tasks[i].version <= versions
    BY <2>1, TaskShape, Constants DEF Uploads, TaskDated
  <2>3. versions' = versions
    BY <1>5 DEF Committed
  <2> QED BY <1>5, <2>2, <2>3 DEF Committed, TypeOK
<1>6. \/ remote'[f] = remote[f]
      \/ \E g \in Files : OtherDeviceSaves(g) /\ g = f
      \/ \E i \in DOMAIN tasks : Committed(i) /\ tasks[i].file = f
  <2>1. \A g \in Files : OtherDeviceSaves(g) /\ g # f => remote'[f] = remote[f]
    BY DEF OtherDeviceSaves, TypeOK
  <2>2. \A i \in DOMAIN tasks : Committed(i) /\ tasks[i].file # f => remote'[f] = remote[f]
    BY DEF Committed, TypeOK
  <2> QED
    BY <2>1, <2>2
    DEF Next, UIThread, Outside, TaskCompletes, UpdateSaveFiles, TaskFails, UploadOpened,
        Listed, DownloadOpened, DownloadWritten, DownloadStamped, DownloadFails, Tick, Launch,
        Exit, StartGame, Migrate, GameSaves
<1>7. versions' \in Int
  BY <1>1
<1> QED BY <1>1, <1>2, <1>3, <1>4, <1>5, <1>6, <1>7

\* What a step writes into the game directory.
LEMMA LocalStep ==
  ASSUME TypeOK, Next, NEW f \in Files
  PROVE  \/ local'[f] = local[f]
         \/ local'[f] = Copy(versions', now) /\ versions' = versions + 1 /\ now' = now
            /\ remote' = remote /\ writing' = writing
         \/ local'[f] = NoCopy /\ remote' = remote
         \/ local'[f] = Copy(Torn, now) /\ remote' = remote
         \/ \E i \in DOMAIN tasks : DownloadOpened(i) /\ tasks[i].file = f
                                    /\ local'[f] = Copy(Torn, now)
         \/ DownloadWritten /\ writing.file = f /\ local'[f] = Copy(writing.version, now)
         \/ DownloadStamped /\ writing.file = f /\ local'[f] = [local[f] EXCEPT !.time = writing.time]
<1>1. ASSUME NEW g \in Files, Migrate(g) \/ GameSaves(g)
      PROVE  \/ local'[f] = local[f]
             \/ local'[f] = Copy(versions', now) /\ versions' = versions + 1 /\ now' = now
                /\ remote' = remote /\ writing' = writing
             \/ local'[f] = NoCopy /\ remote' = remote
             \/ local'[f] = Copy(Torn, now) /\ remote' = remote
  <2>1. /\ UNCHANGED <<remote, now, writing>>
        /\ \/ NewVersion(g) /\ local' = [local EXCEPT ![g] = Copy(versions + 1, now)]
           \/ local' = [local EXCEPT ![g] = NoCopy]
           \/ local' = [local EXCEPT ![g] = Copy(Torn, now)]
    BY <1>1 DEF Migrate, GameSaves
  <2> QED BY <2>1, NewVersionType DEF TypeOK
<1>2. ASSUME NEW i \in DOMAIN tasks, DownloadOpened(i)
      PROVE  local'[f] = local[f] \/ (tasks[i].file = f /\ local'[f] = Copy(Torn, now))
  BY <1>2 DEF DownloadOpened, TypeOK
<1>3. CASE DownloadWritten
  BY <1>3 DEF DownloadWritten, TypeOK
<1>4. CASE DownloadStamped
  BY <1>4 DEF DownloadStamped, TypeOK
<1>5. CASE local' = local
  BY <1>5
<1>6. CASE DownloadFails
  BY <1>6 DEF DownloadFails, TypeOK
<1> QED
  BY <1>1, <1>2, <1>3, <1>4, <1>5, <1>6
  DEF Next, UIThread, Outside, TaskCompletes, UpdateSaveFiles, TaskFails, UploadOpened,
      Listed, Committed, Tick, Launch, Exit, StartGame, OtherDeviceSaves

\* No local save is newer than the newest version or dated in the future.
LEMMA LocalDated ==
  ASSUME TypeOK, DatesInv, Next, NEW f \in Files
  PROVE  local'[f].version <= versions' /\ local'[f].time <= now'
<1>1. /\ versions' >= versions /\ now' >= now /\ versions' \in Nat /\ now' \in Nat
      /\ CopyDated(local[f]) /\ CopyDated(remote[f])
  BY CountersGrow, CountersType, BoundsAssumption DEF DatesInv
<1>2. CASE local'[f] = local[f]
  BY <1>1, <1>2, Numbers DEF CopyDated
<1>3. CASE local'[f] = Copy(versions', now) \/ local'[f] = NoCopy \/ local'[f] = Copy(Torn, now)
  BY <1>1, <1>3, Numbers DEF Copy, NoCopy, Absent, Torn
<1>4. ASSUME writing # Idle, writing.file = f
      PROVE  /\ writing.version <= versions /\ writing.time <= now
             /\ writing.version \in Int /\ writing.time \in Nat
  <2>1. writing.version \in Int /\ writing.time \in Nat
    BY <1>4, WritingShape, Constants DEF Writing
  <2>2. writing.version <= versions /\ writing.time <= remote[f].time
    BY <1>4 DEF DatesInv, WritingDated
  <2> QED BY <1>1, <2>1, <2>2, Numbers DEF CopyDated
<1>5. CASE DownloadWritten /\ writing.file = f /\ local'[f] = Copy(writing.version, now)
  BY <1>1, <1>4, <1>5, Numbers DEF DownloadWritten, Copy
<1>6. CASE DownloadStamped /\ writing.file = f /\ local'[f] = [local[f] EXCEPT !.time = writing.time]
  <2>1. local'[f].version = local[f].version /\ local'[f].time = writing.time
    BY <1>6 DEF TypeOK
  <2> QED BY <1>1, <1>4, <1>6, <2>1, Numbers DEF DownloadStamped, CopyDated
<1> QED BY <1>2, <1>3, <1>5, <1>6, LocalStep

\* TaskDated for a Task of the next state.
DatedNow(task) ==
  /\ Uploads(task) => task.version <= versions'
  /\ task.kind = "download" => task.time <= remote'[task.file].time

\* Every pending Task still has a version and a date its snapshot has reached.
LEMMA TasksDated ==
  ASSUME TypeOK, DatesInv, Next, NEW j \in DOMAIN tasks'
  PROVE  DatedNow(tasks'[j])
<1>1. /\ versions' >= versions /\ versions \in Nat /\ versions' \in Nat
      /\ \A f \in Files : remote'[f].time >= remote[f].time
  BY CountersGrow, CountersType, RemoteStep, Numbers
<1>2. \A f \in Files : remote'[f].time \in Nat /\ remote[f].time \in Nat
  BY CopiesType, Numbers DEF Stored
<1>3. ASSUME NEW k \in DOMAIN tasks
      PROVE  /\ Uploads(tasks[k]) => tasks[k].version <= versions'
             /\ tasks[k].kind = "download" => tasks[k].time <= remote'[tasks[k].file].time
  <2>1. tasks[k] \in Task /\ TaskDated(tasks[k])
    BY DEF TypeOK, DatesInv
  <2>2. Uploads(tasks[k]) => tasks[k].version <= versions'
    <3>1. Uploads(tasks[k]) => tasks[k].version \in Int
      BY <2>1, TaskShape, Constants
    <3>2. Uploads(tasks[k]) => tasks[k].version <= versions
      BY <2>1 DEF TaskDated, Uploads
    <3> QED BY <1>1, <3>1, <3>2 DEF Uploads
  <2>3. tasks[k].kind = "download" => tasks[k].time <= remote'[tasks[k].file].time
    <3> SUFFICES ASSUME tasks[k].kind = "download"
                 PROVE  tasks[k].time <= remote'[tasks[k].file].time
      OBVIOUS
    <3>1. tasks[k].file \in Files /\ tasks[k].time \in 0..MaxTime
      BY <2>1, TaskShape
    <3>2. tasks[k].time <= remote[tasks[k].file].time
      BY <2>1 DEF TaskDated
    <3> QED BY <1>1, <1>2, <3>1, <3>2, BoundsAssumption
  <2> QED BY <2>2, <2>3
<1>4. CASE \E k \in DOMAIN tasks : tasks'[j] = tasks[k]
  BY <1>3, <1>4 DEF DatedNow
<1>5. CASE Started(tasks'[j])
  <2>1. CASE tasks'[j] = [kind |-> "list"]
    BY <2>1 DEF DatedNow, Uploads
  <2>2. ASSUME NEW f \in Files, tasks'[j] = UploadOf(f)
        PROVE  DatedNow(tasks'[j])
    <3>1. local[f].version <= versions'
      BY <1>1, Numbers DEF DatesInv, CopyDated
    <3> QED BY <2>2, <3>1 DEF DatedNow, Uploads, UploadOf
  <2>3. ASSUME NEW f \in Files, tasks'[j] = DownloadOf(f)
        PROVE  DatedNow(tasks'[j])
    BY <1>1, <1>2, <2>3 DEF DatedNow, Uploads, DownloadOf
  <2>4. ASSUME NEW i \in DOMAIN tasks, Completes(i, "upload"),
               tasks'[j] = [tasks[i] EXCEPT !.kind = "commit"]
        PROVE  DatedNow(tasks'[j])
    <3>1. tasks[i] \in Task /\ Uploads(tasks[i])
      BY <2>4 DEF TypeOK, Completes, Uploads
    <3>2. tasks'[j].kind = "commit" /\ tasks'[j].version = tasks[i].version
      BY <2>4, <3>1, TaskShape
    <3> QED BY <1>3, <3>1, <3>2 DEF DatedNow, Uploads
  <2> QED BY <1>5, <2>1, <2>2, <2>3, <2>4 DEF Started
<1> QED BY <1>4, <1>5, TasksStep

\* So has the download being written.
LEMMA WritingKept ==
  ASSUME TypeOK, DatesInv, Next
  PROVE  WritingDated'
<1>1. \A f \in Files : remote'[f].time >= remote[f].time
                       /\ remote'[f].time \in Nat /\ remote[f].time \in Nat
  BY RemoteStep, CopiesType, Numbers DEF Stored
<1>2. versions' >= versions /\ versions \in Nat /\ versions' \in Nat
  BY CountersGrow, CountersType, Numbers
<1>3. CASE writing' = Idle
  BY <1>3 DEF WritingDated
<1>4. ASSUME NEW i \in DOMAIN tasks, DownloadOpened(i)
      PROVE  WritingDated'
  <2>1. tasks[i] \in Task /\ tasks[i].kind = "download" /\ TaskDated(tasks[i])
    BY <1>4 DEF TypeOK, DownloadOpened, Completes, DatesInv
  <2> DEFINE f == tasks[i].file
  <2>2. f \in Files /\ tasks[i].time <= remote[f].time /\ remote[f].version <= versions
    BY <2>1, TaskShape DEF TaskDated, DatesInv, CopyDated
  <2>3. /\ writing' = [stage |-> "truncated", file |-> f, version |-> remote[f].version,
                       time |-> tasks[i].time]
        /\ UNCHANGED <<remote, versions>>
    BY <1>4 DEF DownloadOpened
  <2> QED BY <2>2, <2>3 DEF WritingDated
<1>5. ASSUME writing # Idle, writing'.file = writing.file, writing'.version = writing.version,
             writing'.time = writing.time
      PROVE  WritingDated'
  <2>1. writing.file \in Files /\ writing.version \in Int /\ writing.time \in Nat
    BY <1>5, WritingShape, Constants, BoundsAssumption DEF Writing
  <2>2. writing.version <= versions /\ writing.time <= remote[writing.file].time
    BY <1>5 DEF DatesInv, WritingDated
  <2> QED BY <1>1, <1>2, <1>5, <2>1, <2>2 DEF WritingDated
<1>6. CASE writing' = writing
  BY <1>3, <1>5, <1>6
<1>7. CASE DownloadWritten
  <2>1. writing # Idle /\ writing' = [writing EXCEPT !.stage = "written"]
    BY <1>7 DEF DownloadWritten
  <2>2. writing \in Writing
    BY <2>1, WritingShape
  <2> QED BY <1>5, <2>1, <2>2 DEF Writing
<1> QED
  BY <1>3, <1>4, <1>6, <1>7
  DEF Next, UIThread, Outside, TaskCompletes, UpdateSaveFiles, TaskFails, UploadOpened, Listed,
      Committed, DownloadStamped, DownloadFails, Tick, Launch, Exit, StartGame, OtherDeviceSaves, Migrate,
      GameSaves

\* No version and no date is ahead of the counters, whatever happens.
LEMMA DatesKept == Spec => []DatesInv
<1>1. Init => DatesInv
  BY BoundsAssumption DEF Init, DatesInv, CopyDated, WritingDated, NoCopy, Absent
<1>2. TypeOK /\ DatesInv /\ [Next]_<<vars, env>> => DatesInv'
  <2> SUFFICES ASSUME TypeOK, DatesInv, [Next]_<<vars, env>> PROVE DatesInv'
    OBVIOUS
  <2>1. CASE Next
    BY <2>1, LocalDated, RemoteStep, TasksDated, WritingKept DEF DatesInv, CopyDated, TaskDated, DatedNow
  <2>2. CASE UNCHANGED <<vars, env>>
    BY <2>2 DEF vars, DatesInv, CopyDated, WritingDated, TaskDated
  <2> QED BY <2>1, <2>2
<1> QED BY <1>1, <1>2, TypeCorrect, PTL DEF Spec

\* In every environment, a complete copy comes to look fresher than its original,
\* and so hides the next version of it from the 30-second rule of loadSaveGames,
\* only in a step that cuts its own download short.
THEOREM NoFresher == Spec => FresherOnlyIfCutShort
<1>1. TypeOK /\ DatesInv /\ [Next]_<<vars, env>>
        => [\A f \in Files : LooksFresher(f)' => LooksFresher(f) \/ CutShort(f)]_vars
  <2> SUFFICES ASSUME TypeOK, DatesInv, Next, NEW f \in Files, LooksFresher(f)', ~CutShort(f)
               PROVE  LooksFresher(f)
    BY DEF vars
  <2>1. /\ writing' = Idle \/ writing'.file # f
        /\ local'[f].version = remote'[f].version /\ local'[f].version # Torn
        /\ local'[f].time > remote'[f].time
    BY DEF LooksFresher
  <2>2. /\ local'[f].time \in Nat /\ remote'[f].time \in Nat /\ remote'[f].time >= remote[f].time
        /\ remote'[f] = remote[f] \/ remote'[f].time = now
    BY CopiesType, RemoteStep, BoundsAssumption DEF Stored
  <2>3. CASE DownloadStamped /\ writing.file = f
    <3>1. local'[f].time = writing.time /\ writing.time <= remote[f].time /\ remote' = remote
      BY <2>3 DEF DownloadStamped, TypeOK, DatesInv, WritingDated
    <3>2. writing.time \in Nat
      BY <2>3, WritingShape, BoundsAssumption DEF DownloadStamped, Writing
    <3> QED BY <2>1, <2>2, <3>1, <3>2, Numbers
  <2>4. CASE local'[f] = local[f] /\ ~(DownloadStamped /\ writing.file = f)
    <3>1. writing = Idle \/ writing.file # f
      <4>1. CASE Exit \/ DownloadFails
        BY <4>1 DEF CutShort
      <4>2. CASE DownloadStamped
        BY <2>4, <4>2
      <4>3. CASE DownloadWritten
        <5>1. writing' = [writing EXCEPT !.stage = "written"] /\ writing \in Writing
          BY <4>3, WritingShape DEF DownloadWritten
        <5>2. writing'.stage = "written" /\ writing'.file = writing.file
          BY <5>1 DEF Writing
        <5> QED BY <2>1, <5>2 DEF Idle
      <4>4. CASE writing' = writing \/ writing = Idle
        BY <2>1, <4>4
      <4> QED
        BY <4>1, <4>2, <4>3, <4>4
        DEF Next, UIThread, Outside, TaskCompletes, UpdateSaveFiles, TaskFails, UploadOpened,
            Listed, Committed, DownloadOpened, Completes, Tick, Launch, StartGame,
            OtherDeviceSaves, Migrate, GameSaves
    <3>2. CASE remote'[f] = remote[f]
      BY <2>1, <2>4, <3>1, <3>2 DEF LooksFresher
    <3>3. CASE remote'[f].time = now
      BY <2>1, <2>4, <3>3, Numbers DEF DatesInv, CopyDated
    <3> QED BY <2>2, <3>2, <3>3
  <2>5. CASE local'[f] = Copy(versions', now) /\ versions' = versions + 1 /\ remote' = remote
    <3>1. local'[f].version = versions + 1 /\ remote[f].version <= versions
      BY <2>5 DEF Copy, DatesInv, CopyDated
    <3> QED BY <2>1, <2>5, <3>1, Numbers
  <2>6. CASE local'[f] = NoCopy
    BY <2>1, <2>2, <2>6 DEF NoCopy
  <2>7. CASE local'[f] = Copy(Torn, now)
    BY <2>1, <2>7 DEF Copy
  <2>8. CASE DownloadWritten /\ writing.file = f
    <3>1. writing' = [writing EXCEPT !.stage = "written"] /\ writing \in Writing
      BY <2>8, WritingShape DEF DownloadWritten
    <3>2. writing'.file = f /\ writing'.stage = "written"
      BY <2>8, <3>1 DEF Writing
    <3> QED BY <2>1, <3>2 DEF Idle
  <2> QED BY <2>3, <2>4, <2>5, <2>6, <2>7, <2>8, LocalStep
<1> QED BY <1>1, TypeCorrect, DatesKept, PTL DEF Spec, FresherOnlyIfCutShort

-----------------------------------------------------------------------------
(***************************************************************************)
(* The order of Tasks and copies, when the environment is orderly.         *)
(***************************************************************************)

\* No download of this file is being written.
Settled(f) == writing = Idle \/ writing.file # f

\* Tasks and messages belong to a process in the game; while saves are being
\* loaded, none is uploaded and the game has not announced one.
PhaseInv ==
  /\ process # "game" => (tasks = <<>> /\ messages = 0 /\ writing = Idle)
  /\ Loading => (messages = 0 /\ \A i \in DOMAIN tasks : ~Uploads(tasks[i]))

\* The content a file may be left with when its download is cut short.
Partial == IF MayBeCut THEN {Torn} ELSE {}

\* Which of the two places has the newest version shows in their dates, unless a
\* truncated file, which looks like one just saved, was left or even uploaded.
PlaceInv(f) ==
  /\ \/ remote[f].version \in 0..newest[f]
     \/ remote[f].version \in Partial /\ local[f].version # Absent
  /\ newest[f] \in {local[f].version, remote[f].version} \/ remote[f].version \in Partial
  /\ newest[f] # remote[f].version => local[f].time >= remote[f].time
  /\ (Settled(f) /\ newest[f] # local[f].version)
       => (local[f] = NoCopy \/ local[f].time < remote[f].time \/ local[f].version \in Partial)

\* Only the newest version is ever downloaded.
WritingInv ==
  writing # Idle =>
    /\ writing.version = remote[writing.file].version
    /\ writing.version = newest[writing.file]
    /\ local[writing.file].version = IF writing.stage = "written" THEN writing.version ELSE Torn
    /\ writing.time = remote[writing.file].time

\* The file was saved, or truncated, just now.
Recently(f) ==
  /\ local[f].time = now /\ local[f].version # Absent
  /\ local[f].version = newest[f] \/ local[f].version \in Partial

\* A pending upload lies between the snapshot and the save it was taken from, or
\* carries a truncated file.
TaskInv(task) ==
  /\ task.kind = "download" => /\ newest[task.file] = remote[task.file].version
                               /\ task.time = remote[task.file].time
  /\ Uploads(task) =>
       /\ Recently(task.file)
       /\ \/ task.version \in Partial
          \/ /\ local[task.file].version = newest[task.file]
             /\ remote[task.file].version <= task.version
             /\ task.version <= newest[task.file]

\* Of two uploads of a file, the one that reaches the server first.
Before(s, i, j) ==
  /\ Uploads(s[i]) /\ Uploads(s[j]) /\ s[i].file = s[j].file
  /\ \/ s[i].kind = s[j].kind /\ i < j
     \/ s[i].kind = "commit" /\ s[j].kind = "upload"
InOrder(s) == \A i, j \in DOMAIN s : Before(s, i, j) => s[i].version <= s[j].version

TasksInv == InOrder(tasks) /\ \A i \in DOMAIN tasks : TaskInv(tasks[i])
PlacesInv == \A f \in Files : PlaceInv(f)
OrderParts == PhaseInv /\ WritingInv /\ PlacesInv /\ TasksInv
OrderInv == Orderly => OrderParts

\* What does not happen in an orderly environment.
LEMMA OrderlyEnv ==
  ASSUME Orderly
  PROVE  /\ "slow" \notin env /\ "reorder" \notin env /\ "early" \notin env
         /\ "unreadable" \notin env
BY DEF Orderly

\* Truncated files are Torn, and there are some only where writing may be cut short.
LEMMA PartialTorn ==
  /\ \A v \in Partial : v = Torn /\ MayBeCut
  /\ "tear" \in env \/ "unwritable" \in env => Torn \in Partial
BY DEF Partial, MayBeCut

\* What may be left does not change.
LEMMA PartialKept == env' = env => Partial' = Partial
BY DEF Partial, MayBeCut

\* Completing the oldest Task leaves the others in their order.
LEMMA HeadRemoved ==
  ASSUME NEW S, NEW q \in Seq(S), 1 \in DOMAIN q
  PROVE  /\ RemoveAt(q, 1) \in Seq(S) /\ Len(q) \in Nat /\ Len(q) >= 1
         /\ DOMAIN q = 1..Len(q) /\ DOMAIN RemoveAt(q, 1) = 1..(Len(q) - 1)
         /\ \A j \in DOMAIN RemoveAt(q, 1) : j + 1 \in DOMAIN q /\ RemoveAt(q, 1)[j] = q[j + 1]
<1>1. Len(q) \in Nat /\ Len(q) >= 1 /\ DOMAIN q = 1..Len(q) /\ \A j \in 1..Len(q) : q[j] \in S
  BY LenProperties
<1> DEFINE a == SubSeq(q, 1, 0)  b == SubSeq(q, 2, Len(q))
<1>2. a \in Seq(S) /\ Len(a) = 0
  BY <1>1, SubSeqProperties
<1>3. /\ b \in Seq(S) /\ Len(b) = Len(q) - 1 /\ \A j \in 1..(Len(q) - 1) : b[j] = q[j + 1]
  <2>1. \A j \in 2..Len(q) : q[j] \in S
    BY <1>1
  <2>2. /\ b \in Seq(S) /\ Len(b) = (IF 2 <= Len(q) THEN Len(q) - 2 + 1 ELSE 0)
        /\ \A j \in 1..(Len(q) - 2 + 1) : b[j] = q[2 + j - 1]
    BY <1>1, <2>1, SubSeqProperties
  <2> QED BY <1>1, <2>2
<1> HIDE DEF a, b
<1>4. /\ a \o b \in Seq(S) /\ Len(a \o b) = Len(a) + Len(b)
      /\ \A j \in 1..(Len(a) + Len(b)) : (a \o b)[j] = IF j <= Len(a) THEN a[j] ELSE b[j - Len(a)]
  BY <1>2, <1>3, ConcatProperties
<1>5. /\ Len(a \o b) = Len(q) - 1
      /\ \A j \in 1..(Len(q) - 1) : (a \o b)[j] = q[j + 1]
  BY <1>1, <1>2, <1>3, <1>4
<1>6. RemoveAt(q, 1) = a \o b
  BY DEF RemoveAt, a, b
<1>7. DOMAIN (a \o b) = 1..(Len(q) - 1)
  BY <1>4, <1>5, LenProperties
<1>8. \A j \in 1..(Len(q) - 1) : j + 1 \in 1..Len(q)
  BY <1>1
<1> QED BY <1>1, <1>4, <1>5, <1>6, <1>7, <1>8

\* Nothing to order when nothing is pending.
LEMMA NothingPending ==
  ASSUME messages' = 0, writing' = Idle,
         tasks' = <<>> \/ (tasks' = <<[kind |-> "list"]>> /\ process' = "game")
  PROVE  PhaseInv' /\ WritingInv' /\ TasksInv'
<1>1. CASE tasks' = <<>>
  <2>1. \A i \in DOMAIN tasks' : FALSE
    BY <1>1
  <2> QED BY <1>1, <2>1 DEF PhaseInv, WritingInv, TasksInv, InOrder
<1>2. CASE tasks' = <<[kind |-> "list"]>> /\ process' = "game"
  <2>1. \A i \in DOMAIN tasks' : tasks'[i].kind = "list"
    BY <1>2
  <2> QED BY <1>2, <2>1 DEF PhaseInv, WritingInv, TasksInv, InOrder, TaskInv, Before, Uploads
<1> QED BY <1>1, <1>2

\* A step that moves no copy moves no place, unless it stops writing.
LEMMA SamePlaces ==
  ASSUME PlacesInv, UNCHANGED <<local, remote, newest>>, writing' = writing \/ writing = Idle,
         Partial' = Partial
  PROVE  PlacesInv'
BY DEF PlacesInv, PlaceInv, Settled

\* A download that is cut short leaves a truncated file, or the newest version.
LEMMA CutShortPlaces ==
  ASSUME TypeOK, OrderParts, writing # Idle, writing' = Idle, UNCHANGED <<remote, newest>>,
         Partial' = Partial, Torn \in Partial,
         \/ UNCHANGED local
         \/ /\ writing.stage = "truncated"
            /\ local' = [local EXCEPT ![writing.file] = Copy(Torn, now)]
  PROVE  PlacesInv'
<1> DEFINE f == writing.file
<1>1. /\ f \in Files /\ newest[f] = remote[f].version /\ newest[f] \in Nat
      /\ local[f].version = newest[f] \/ local[f].version = Torn
  BY WritingShape, Numbers DEF OrderParts, WritingInv, Writing
<1>2. /\ local'[f].version = newest[f] \/ local'[f].version = Torn
      /\ \A g \in Files : g # f => local'[g] = local[g]
  BY <1>1 DEF TypeOK, Copy
<1>3. ASSUME NEW g \in Files, g = f
      PROVE  PlaceInv(g)'
  <2>1. /\ newest'[g] = newest[g] /\ remote'[g].version = newest[g] /\ newest[g] \in Nat
        /\ local'[g].version = newest[g] \/ local'[g].version \in Partial'
    BY <1>1, <1>2, <1>3
  <2> QED BY <2>1 DEF PlaceInv
<1>4. ASSUME NEW g \in Files, g # f
      PROVE  PlaceInv(g)'
  <2>1. PlaceInv(g) /\ Settled(g)
    BY <1>4 DEF OrderParts, PlacesInv, Settled
  <2>2. local'[g] = local[g] /\ remote'[g] = remote[g] /\ newest'[g] = newest[g]
    BY <1>2, <1>4
  <2> QED BY <2>1, <2>2 DEF PlaceInv, Settled
<1> QED BY <1>3, <1>4 DEF PlacesInv

\* Everything outside the game process: nothing is pending after it.
LEMMA OutsideStep ==
  ASSUME TypeOK, DatesInv, OrderParts, Orderly, Partial' = Partial, Tick \/ Launch \/ Exit \/ StartGame
  PROVE  OrderParts'
<1>1. CASE Exit
  <2>1. /\ messages' = 0 /\ tasks' = <<>> /\ writing' = Idle /\ UNCHANGED <<local, remote, newest>>
        /\ writing # Idle => "tear" \in env
    BY <1>1 DEF Exit
  <2>2. PhaseInv' /\ WritingInv' /\ TasksInv'
    BY <2>1, NothingPending
  <2>3. CASE writing = Idle
    BY <2>1, <2>2, <2>3, SamePlaces DEF OrderParts
  <2>4. CASE writing # Idle
    BY <2>1, <2>2, <2>4, CutShortPlaces, PartialTorn DEF OrderParts
  <2> QED BY <2>3, <2>4
<1>2. CASE Tick \/ Launch \/ StartGame
  <2>1. /\ messages' = 0 /\ writing = Idle /\ writing' = Idle /\ UNCHANGED <<local, remote, newest>>
        /\ tasks' = <<>> \/ (tasks' = <<[kind |-> "list"]>> /\ process' = "game")
    <3>1. CASE Tick
      BY <3>1, OrderlyEnv DEF Tick, Pending, TypeOK
    <3>2. CASE Launch
      BY <3>2 DEF Launch, OrderParts, PhaseInv
    <3>3. CASE StartGame
      BY <3>3 DEF StartGame, OrderParts, PhaseInv
    <3> QED BY <1>2, <3>1, <3>2, <3>3
  <2>2. PhaseInv' /\ WritingInv' /\ TasksInv'
    BY <2>1, NothingPending
  <2>3. PlacesInv'
    BY <2>1, SamePlaces DEF OrderParts
  <2> QED BY <2>2, <2>3 DEF OrderParts
<1> QED BY <1>1, <1>2

\* A new version lands where it is dated last.
LEMMA NewPlace ==
  ASSUME TypeOK, DatesInv, OrderParts, NEW f \in Files, NewVersion(f), UNCHANGED <<now, writing>>,
         Partial' = Partial,
         \/ /\ local' = [local EXCEPT ![f] = Copy(versions + 1, now)] /\ remote' = remote
            /\ Settled(f)
         \/ /\ remote' = [remote EXCEPT ![f] = Copy(versions + 1, now)] /\ local' = local
            /\ local[f] # NoCopy => local[f].time < now
  PROVE  PlacesInv'
<1>1. /\ versions' = versions + 1 /\ newest'[f] = versions + 1 /\ versions \in Nat
      /\ \A g \in Files : g # f => newest'[g] = newest[g]
  BY NewVersionType, Numbers
<1>2. CopyDated(local[f]) /\ CopyDated(remote[f]) /\ PlaceInv(f)
  BY DEF DatesInv, OrderParts, PlacesInv
<1>3. CASE /\ local' = [local EXCEPT ![f] = Copy(versions + 1, now)] /\ remote' = remote
  <2>1. local'[f].version = versions + 1 /\ local'[f].time = now
    BY <1>3 DEF TypeOK, Copy
  <2>2. /\ remote'[f].version \in 0..newest'[f] \/ remote'[f].version \in Partial
        /\ local'[f].time >= remote'[f].time /\ local'[f].version # Absent
    BY <1>1, <1>2, <1>3, <2>1, Numbers DEF CopyDated, PlaceInv, Absent
  <2>3. \A g \in Files : g # f => local'[g] = local[g] /\ remote'[g] = remote[g]
    BY <1>3 DEF TypeOK
  <2>4. PlaceInv(f)'
    BY <1>1, <2>1, <2>2 DEF PlaceInv
  <2> QED BY <1>1, <2>3, <2>4 DEF OrderParts, PlacesInv, PlaceInv, Settled
<1>4. CASE /\ remote' = [remote EXCEPT ![f] = Copy(versions + 1, now)] /\ local' = local
           /\ local[f] # NoCopy => local[f].time < now
  <2>1. remote'[f].version = versions + 1 /\ remote'[f].time = now
    BY <1>4 DEF TypeOK, Copy
  <2>2. remote'[f].version \in 0..newest'[f]
    BY <1>1, <2>1
  <2>3. \A g \in Files : g # f => local'[g] = local[g] /\ remote'[g] = remote[g]
    BY <1>4 DEF TypeOK
  <2>4. PlaceInv(f)'
    BY <1>1, <1>4, <2>1, <2>2 DEF PlaceInv
  <2> QED BY <1>1, <2>3, <2>4 DEF OrderParts, PlacesInv, PlaceInv, Settled
<1> QED BY <1>3, <1>4

\* Another device, and the migration of a legacy save.
LEMMA SavedElsewhere ==
  ASSUME TypeOK, DatesInv, OrderParts, Partial' = Partial, Orderly, NEW f \in Files, OtherDeviceSaves(f) \/ Migrate(f)
  PROVE  OrderParts'
<1>1. /\ process # "game" /\ NewVersion(f) /\ UNCHANGED <<now, process, messages, tasks, writing>>
      /\ \/ local' = [local EXCEPT ![f] = Copy(versions + 1, now)] /\ remote' = remote
         \/ /\ remote' = [remote EXCEPT ![f] = Copy(versions + 1, now)] /\ local' = local
            /\ local[f] # NoCopy => local[f].time < now
  BY OrderlyEnv DEF OtherDeviceSaves, Migrate
<1>2. messages' = 0 /\ writing = Idle /\ writing' = Idle /\ tasks' = <<>>
  BY <1>1 DEF OrderParts, PhaseInv
<1>3. PhaseInv' /\ WritingInv' /\ TasksInv'
  BY <1>2, NothingPending
<1>4. PlacesInv'
  BY <1>1, <1>2, NewPlace DEF Settled
<1> QED BY <1>3, <1>4 DEF OrderParts

\* When an upload is pending nothing is being loaded.
LEMMA UploadsNotLoading ==
  ASSUME OrderParts, NEW i \in DOMAIN tasks, Uploads(tasks[i])
  PROVE  ~Loading
BY DEF OrderParts, PhaseInv

\* When nothing is being loaded, every pending Task uploads.
LEMMA NotLoading ==
  ASSUME TypeOK, ~Loading
  PROVE  writing = Idle /\ \A i \in DOMAIN tasks : tasks[i] \in Task /\ Uploads(tasks[i])
<1>1. \A i \in DOMAIN tasks : tasks[i] \in Task /\ tasks[i].kind \notin {"list", "download"}
  BY DEF TypeOK, Loading
<1> QED BY <1>1, TaskShape DEF Loading

\* The numbers in a Task that uploads.
LEMMA UploadNumbers ==
  ASSUME TypeOK, DatesInv, NEW i \in DOMAIN tasks, Uploads(tasks[i])
  PROVE  /\ tasks[i].version \in Int /\ tasks[i].version <= versions
         /\ tasks[i].file \in Files /\ tasks[i].kind # "list" /\ tasks[i].kind # "download"
<1>1. tasks[i] \in Task /\ TaskDated(tasks[i])
  BY DEF TypeOK, DatesInv
<1>2. tasks[i].version \in Int
  BY <1>1, TaskShape, Constants
<1>3. tasks[i].version <= versions
  BY <1>1 DEF TaskDated
<1>4. tasks[i].kind # "list" /\ tasks[i].kind # "download"
  BY DEF Uploads
<1>5. tasks[i].file \in Files
  BY <1>1, <1>4, TaskShape
<1> QED BY <1>2, <1>3, <1>4, <1>5

\* The game saves: pending uploads of the file stay behind its new version.
LEMMA SavedHere ==
  ASSUME TypeOK, DatesInv, OrderParts, Partial' = Partial, Orderly, NEW f \in Files, GameSaves(f)
  PROVE  OrderParts'
<1>1. /\ ~Loading /\ NewVersion(f) /\ local' = [local EXCEPT ![f] = Copy(versions + 1, now)]
      /\ UNCHANGED <<remote, now, process, tasks, writing>> /\ process = "game"
  BY OrderlyEnv DEF GameSaves
<1>2. /\ writing = Idle /\ \A i \in DOMAIN tasks : tasks[i] \in Task /\ Uploads(tasks[i])
  BY <1>1, NotLoading
<1>3. PhaseInv' /\ WritingInv'
  BY <1>1, <1>2 DEF PhaseInv, Loading, WritingInv
<1>4. PlacesInv'
  BY <1>1, <1>2, NewPlace DEF Settled
<1>5. /\ newest'[f] = versions + 1 /\ local'[f] = Copy(versions + 1, now)
      /\ \A g \in Files : g # f => newest'[g] = newest[g] /\ local'[g] = local[g]
  BY <1>1, NewVersionType DEF TypeOK
<1>6. ASSUME NEW i \in DOMAIN tasks
      PROVE  TaskInv(tasks[i])'
  <2>1. /\ Uploads(tasks[i]) /\ tasks[i].version \in Int /\ tasks[i].version <= versions
        /\ tasks[i].file \in Files /\ tasks[i].kind # "download" /\ TaskInv(tasks[i])
    BY <1>2, UploadNumbers DEF OrderParts, TasksInv
  <2>2. CASE tasks[i].file = f
    <3>1. tasks'[i].version <= versions + 1 /\ versions + 1 # Absent
      BY <1>1, <2>1, Numbers DEF Absent
    <3>2. local'[f].time = now /\ local'[f].version = versions + 1
      BY <1>5 DEF Copy
    <3> QED BY <1>1, <1>5, <2>1, <2>2, <3>1, <3>2 DEF TaskInv, Recently
  <2>3. CASE tasks[i].file # f
    BY <1>1, <1>5, <2>1, <2>3 DEF TaskInv, Recently
  <2> QED BY <2>2, <2>3
<1>7. TasksInv'
  BY <1>1, <1>6 DEF OrderParts, TasksInv, InOrder, Before
<1> QED BY <1>3, <1>4, <1>7 DEF OrderParts

\* A recent save is the newest version, or truncated, and dated now.
LEMMA UploadableIsRecent ==
  ASSUME TypeOK, DatesInv, OrderParts, writing = Idle, NEW f \in Files, Uploadable(f)
  PROVE  Recently(f)
<1>1. CopyDated(local[f]) /\ CopyDated(remote[f]) /\ PlaceInv(f)
  BY DEF DatesInv, OrderParts, PlacesInv
<1>2. local[f].time = now
  BY <1>1, Numbers DEF Uploadable, CopyDated, Recent
<1>3. local[f].version = newest[f] \/ local[f].version \in Partial
  BY <1>1, <1>2, Numbers DEF Uploadable, PlaceInv, CopyDated, NoCopy, Settled
<1> QED BY <1>2, <1>3 DEF Uploadable, Recently

\* In an orderly environment the oldest Task completes.
LEMMA OldestCompletes ==
  ASSUME TypeOK, Orderly, NEW i \in DOMAIN tasks, NEW kind, Completes(i, kind)
  PROVE  /\ i = 1 /\ 1 \in DOMAIN tasks /\ tasks[1].kind = kind /\ tasks[1] \in Task
         /\ process = "game" /\ writing = Idle
BY OrderlyEnv DEF Completes, TypeOK

\* What holds of the Tasks still holds without the oldest one, as long as the
\* copies stay as they are.
LEMMA RestInOrder ==
  ASSUME TypeOK, OrderParts, 1 \in DOMAIN tasks
  PROVE  /\ InOrder(RemoveAt(tasks, 1))
         /\ \A j \in DOMAIN RemoveAt(tasks, 1) : TaskInv(RemoveAt(tasks, 1)[j])
<1> DEFINE q == RemoveAt(tasks, 1)
<1>1. /\ \A j \in DOMAIN q : j \in Int /\ j + 1 \in DOMAIN tasks /\ q[j] = tasks[j + 1]
  BY HeadRemoved DEF TypeOK
<1>2. InOrder(tasks) /\ \A i \in DOMAIN tasks : TaskInv(tasks[i])
  BY DEF OrderParts, TasksInv
<1> HIDE DEF q
<1>3. ASSUME NEW i \in DOMAIN q, NEW j \in DOMAIN q, Before(q, i, j)
      PROVE  q[i].version <= q[j].version
  <2>1. Before(tasks, i + 1, j + 1)
    BY <1>1, <1>3 DEF Before
  <2> QED BY <1>1, <1>2, <2>1 DEF InOrder
<1>4. \A j \in DOMAIN q : TaskInv(q[j])
  BY <1>1, <1>2
<1> QED BY <1>3, <1>4 DEF q, InOrder

\* Without the oldest Task, no more is being loaded than before.
LEMMA RestLoading ==
  ASSUME TypeOK, OrderParts, 1 \in DOMAIN tasks, tasks' = RemoveAt(tasks, 1),
         UNCHANGED <<process, messages>>, process = "game",
         writing' # Idle => Loading
  PROVE  PhaseInv'
<1>1. \A j \in DOMAIN tasks' : j + 1 \in DOMAIN tasks /\ tasks'[j] = tasks[j + 1]
  BY HeadRemoved DEF TypeOK
<1>2. Loading' => Loading
  BY <1>1 DEF Loading
<1>3. Loading' => messages' = 0 /\ \A j \in DOMAIN tasks' : ~Uploads(tasks'[j])
  BY <1>1, <1>2 DEF OrderParts, PhaseInv
<1> QED BY <1>3 DEF PhaseInv

\* A failed Task is forgotten, and the others keep their order.
LEMMA OrderAfterFailure ==
  ASSUME TypeOK, OrderParts, Partial' = Partial, Orderly, NEW i \in DOMAIN tasks, TaskFails(i)
  PROVE  OrderParts'
<1>1. /\ i = 1 /\ 1 \in DOMAIN tasks /\ tasks' = RemoveAt(tasks, 1) /\ process = "game"
      /\ UNCHANGED <<local, remote, newest, now, process, messages, writing>> /\ writing = Idle
  BY OldestCompletes DEF TaskFails
<1>2. PhaseInv' /\ WritingInv'
  BY <1>1, RestLoading DEF WritingInv
<1>3. PlacesInv'
  BY <1>1, SamePlaces DEF OrderParts
<1>4. TasksInv'
  BY <1>1, RestInOrder DEF TasksInv, TaskInv, Recently
<1> QED BY <1>2, <1>3, <1>4 DEF OrderParts

\* An upload whose snapshot is open is behind the commits already sent.
LEMMA OrderAfterOpening ==
  ASSUME TypeOK, DatesInv, OrderParts, Partial' = Partial, Orderly, NEW i \in DOMAIN tasks, UploadOpened(i)
  PROVE  OrderParts'
<1> DEFINE q == RemoveAt(tasks, 1)
           task == [tasks[1] EXCEPT !.kind = "commit"]
<1>1. /\ i = 1 /\ 1 \in DOMAIN tasks /\ tasks' = Append(q, task) /\ process = "game"
      /\ UNCHANGED <<local, remote, newest, now, process, messages, writing>> /\ writing = Idle
      /\ tasks[1].kind = "upload" /\ tasks[1] \in Task
  BY OldestCompletes DEF UploadOpened
<1>2. /\ task \in Task /\ task.kind = "commit" /\ Uploads(tasks[1])
      /\ task.file = tasks[1].file /\ task.version = tasks[1].version
  BY <1>1, TaskShape DEF Uploads
<1>3. /\ q \in Seq(Task) /\ InOrder(q) /\ \A j \in DOMAIN q : TaskInv(q[j])
      /\ \A j \in DOMAIN q : j \in Int /\ j >= 1 /\ j + 1 \in DOMAIN tasks /\ q[j] = tasks[j + 1]
  BY <1>1, HeadRemoved, RestInOrder DEF TypeOK
<1>4. ~Loading /\ \A j \in DOMAIN tasks : Uploads(tasks[j])
  BY <1>1, <1>2, UploadsNotLoading, NotLoading
<1>5. TaskInv(tasks[1]) /\ InOrder(tasks)
  BY <1>1 DEF OrderParts, TasksInv
<1> HIDE DEF q, task
<1>6. \A j \in DOMAIN tasks' : \/ j = Len(q) + 1 /\ tasks'[j] = task
                               \/ j \in DOMAIN q /\ tasks'[j] = q[j] /\ j < Len(q) + 1
  BY <1>1, <1>2, <1>3
<1>7. \A j \in DOMAIN tasks' : Uploads(tasks'[j])
  BY <1>2, <1>3, <1>4, <1>6 DEF Uploads
<1>8. PhaseInv' /\ WritingInv'
  <2>1. ~Loading'
    BY <1>1, <1>7 DEF Loading, Uploads
  <2> QED BY <1>1, <2>1 DEF PhaseInv, WritingInv
<1>9. PlacesInv'
  BY <1>1, SamePlaces DEF OrderParts
<1>10. ASSUME NEW j \in DOMAIN tasks', NEW k \in DOMAIN tasks', Before(tasks', j, k)
       PROVE  tasks'[j].version <= tasks'[k].version
  <2>1. CASE j \in DOMAIN q /\ tasks'[j] = q[j] /\ k \in DOMAIN q /\ tasks'[k] = q[k]
    BY <1>3, <1>10, <2>1 DEF InOrder, Before
  <2>2. CASE j \in DOMAIN q /\ tasks'[j] = q[j] /\ k = Len(q) + 1 /\ tasks'[k] = task
    <3>1. Before(tasks, j + 1, 1)
      BY <1>1, <1>2, <1>3, <1>4, <1>10, <2>2 DEF Before
    <3> QED BY <1>1, <1>2, <1>3, <1>5, <2>2, <3>1 DEF InOrder
  <2>3. CASE j = Len(q) + 1 /\ tasks'[j] = task /\ k \in DOMAIN q /\ tasks'[k] = q[k]
             /\ k < Len(q) + 1
    <3>1. Before(tasks, 1, k + 1)
      BY <1>1, <1>2, <1>3, <1>4, <1>10, <2>3 DEF Before
    <3> QED BY <1>1, <1>2, <1>3, <1>5, <2>3, <3>1 DEF InOrder
  <2>4. CASE tasks'[j] = task /\ tasks'[k] = task
    <3>1. tasks[1].version \in Int
      BY <1>1, <1>2, UploadNumbers
    <3> QED BY <1>2, <2>4, <3>1
  <2> QED BY <1>6, <2>1, <2>2, <2>3, <2>4
<1>11. \A j \in DOMAIN tasks' : TaskInv(tasks'[j])
  <2>1. TaskInv(task)
    BY <1>2, <1>5 DEF TaskInv, Uploads
  <2> QED BY <1>3, <1>6, <2>1 DEF TaskInv
<1>12. TasksInv'
  BY <1>1, <1>10, <1>11 DEF TasksInv, InOrder, TaskInv, Recently
<1> QED BY <1>8, <1>9, <1>12 DEF OrderParts

\* No content is numbered below a truncated one.
LEMMA VersionsAreTorn ==
  ASSUME TypeOK
  PROVE  /\ \A f \in Files : local[f].version >= Torn /\ remote[f].version >= Torn
         /\ \A v \in Version : v >= Torn
BY BoundsAssumption DEF TypeOK, Version, Torn

\* A save that is uploaded next is newer than those on their way.
LEMMA OrderAfterUpdate ==
  ASSUME TypeOK, DatesInv, OrderParts, Partial' = Partial, UpdateSaveFiles
  PROVE  OrderParts'
<1> DEFINE S == {UploadOf(f) : f \in {g \in Files : Uploadable(g)}}
<1>1. /\ UNCHANGED <<local, remote, newest, now, process, writing>> /\ process = "game"
      /\ writing = Idle /\ messages > 0 /\ tasks' = tasks \o SetToSeq(S)
  BY StartedTasks DEF UpdateSaveFiles
<1>2. ~Loading /\ \A i \in DOMAIN tasks : Uploads(tasks[i])
  <2>1. ~Loading
    BY <1>1 DEF OrderParts, PhaseInv
  <2> QED BY <2>1, NotLoading
<1>3. S \in SUBSET Task /\ IsFiniteSet(S)
  BY NewTasks
<1>4. \A task \in S : /\ task.kind = "upload" /\ Uploads(task) /\ TaskInv(task)
                      /\ task.version = local[task.file].version /\ task.file \in Files
  <2> SUFFICES ASSUME NEW f \in Files, Uploadable(f)
               PROVE  /\ UploadOf(f).kind = "upload" /\ Uploads(UploadOf(f)) /\ TaskInv(UploadOf(f))
                      /\ UploadOf(f).version = local[f].version /\ UploadOf(f).file = f
    OBVIOUS
  <2>1. Recently(f)
    BY <1>1, UploadableIsRecent
  <2>2. remote[f].version <= newest[f]
    BY Numbers, PartialTorn DEF OrderParts, PlacesInv, PlaceInv, Torn
  <2>3. local[f].version \in Partial \/ (local[f].version = newest[f] /\ newest[f] <= newest[f])
    BY <2>1, Numbers DEF Recently
  <2> QED BY <2>1, <2>2, <2>3 DEF UploadOf, Uploads, TaskInv
<1> HIDE DEF S
<1>5. \A j \in DOMAIN tasks' : \/ tasks'[j] \in S /\ j \notin DOMAIN tasks
                               \/ j \in DOMAIN tasks /\ tasks'[j] = tasks[j]
  BY <1>1, <1>3, Grown DEF TypeOK
<1>6. tasks' \in Seq(Task)
  BY <1>1, <1>3, Grown DEF TypeOK
<1>7. \A j \in DOMAIN tasks' : Uploads(tasks'[j])
  BY <1>2, <1>4, <1>5
<1>8. PhaseInv' /\ WritingInv'
  <2>1. ~Loading'
    BY <1>1, <1>7 DEF Loading, Uploads
  <2> QED BY <1>1, <2>1 DEF PhaseInv, WritingInv
<1>9. PlacesInv'
  BY <1>1, SamePlaces DEF OrderParts
<1>10. ASSUME NEW j \in DOMAIN tasks', NEW k \in DOMAIN tasks', Before(tasks', j, k)
       PROVE  tasks'[j].version <= tasks'[k].version
  <2>1. CASE j \in DOMAIN tasks /\ tasks'[j] = tasks[j] /\ k \in DOMAIN tasks /\ tasks'[k] = tasks[k]
    BY <1>10, <2>1 DEF OrderParts, TasksInv, InOrder, Before
  <2>2. CASE j \in DOMAIN tasks /\ tasks'[j] = tasks[j] /\ tasks'[k] \in S
    <3>1. tasks[j].file \in Files /\ local[tasks[j].file].version >= Torn
      BY <1>2, <2>2, UploadNumbers, VersionsAreTorn
    <3>2. tasks[j].version <= local[tasks[j].file].version
      BY <1>2, <2>2, <3>1, PartialTorn DEF OrderParts, TasksInv, TaskInv, Torn
    <3>3. tasks'[k].version = local[tasks'[k].file].version /\ tasks[j].file = tasks'[k].file
      BY <1>4, <1>10, <2>2 DEF Before
    <3> QED BY <2>2, <3>2, <3>3
  <2>3. CASE tasks'[j] \in S /\ j \notin DOMAIN tasks /\ k \in DOMAIN tasks /\ tasks'[k] = tasks[k]
    <3>1. tasks'[j].kind = "upload"
      BY <1>4, <2>3
    <3>2. j < k
      BY <1>10, <3>1 DEF Before
    <3>3. DOMAIN tasks = 1..Len(tasks) /\ DOMAIN tasks' = 1..Len(tasks') /\ Len(tasks) \in Nat
          /\ Len(tasks') \in Nat
      BY <1>6, LenProperties DEF TypeOK
    <3> QED BY <2>3, <3>2, <3>3
  <2>4. CASE tasks'[j] \in S /\ tasks'[k] \in S
    <3>1. /\ tasks'[j].version = local[tasks'[j].file].version
          /\ tasks'[k].version = local[tasks'[k].file].version
          /\ tasks'[j].file = tasks'[k].file /\ tasks'[k].file \in Files
      BY <1>4, <1>10, <2>4 DEF Before
    <3> QED BY <3>1, Numbers
  <2> QED BY <1>5, <2>1, <2>2, <2>3, <2>4
<1>11. \A j \in DOMAIN tasks' : TaskInv(tasks'[j])
  BY <1>4, <1>5 DEF OrderParts, TasksInv, TaskInv
<1>12. TasksInv'
  BY <1>1, <1>10, <1>11 DEF TasksInv, InOrder, TaskInv, Recently
<1> QED BY <1>8, <1>9, <1>12 DEF OrderParts

\* The snapshot moves forward, unless to a truncated file, to a version no later
\* than those on their way.
LEMMA OrderAfterCommit ==
  ASSUME TypeOK, DatesInv, OrderParts, Partial' = Partial, Orderly, NEW i \in DOMAIN tasks, Committed(i)
  PROVE  /\ OrderParts'
         /\ \A f \in Files : remote'[f].version >= remote[f].version \/ remote'[f].version \in Partial
<1> DEFINE q == RemoveAt(tasks, 1)
           f == tasks[1].file
           v == tasks[1].version
<1>1. /\ i = 1 /\ 1 \in DOMAIN tasks /\ tasks' = q /\ process = "game"
      /\ UNCHANGED <<local, newest, now, process, messages, writing>> /\ writing = Idle
      /\ tasks[1].kind = "commit" /\ tasks[1] \in Task
      /\ remote' = [remote EXCEPT ![f] = Copy(v, now)]
  BY OldestCompletes DEF Committed
<1>2. /\ f \in Files /\ v \in Int /\ Uploads(tasks[1]) /\ Recently(f)
      /\ v \in Partial \/ (local[f].version = newest[f] /\ remote[f].version <= v /\ v <= newest[f])
  <2>1. Uploads(tasks[1])
    BY <1>1 DEF Uploads
  <2>2. TaskInv(tasks[1])
    BY <1>1 DEF OrderParts, TasksInv
  <2> QED BY <1>1, <2>1, <2>2, UploadNumbers DEF TaskInv
<1>3. /\ q \in Seq(Task) /\ InOrder(q) /\ \A j \in DOMAIN q : TaskInv(q[j])
      /\ \A j \in DOMAIN q : j \in Int /\ j >= 1 /\ j + 1 \in DOMAIN tasks /\ q[j] = tasks[j + 1]
  BY <1>1, HeadRemoved, RestInOrder DEF TypeOK
<1>4. \A j \in DOMAIN tasks : Uploads(tasks[j])
  BY <1>1, <1>2, UploadsNotLoading, NotLoading
<1> HIDE DEF q, f, v
<1>5. /\ remote'[f].version = v /\ remote'[f].time = now
      /\ \A g \in Files : g # f => remote'[g] = remote[g]
  BY <1>1, <1>2 DEF TypeOK, Copy
<1>6. \A g \in Files : remote'[g].version >= remote[g].version \/ remote'[g].version \in Partial
  BY <1>2, <1>5, Numbers
<1>7. PhaseInv' /\ WritingInv'
  BY <1>1, RestLoading DEF WritingInv, q
<1>8. PlacesInv'
  <2> SUFFICES ASSUME NEW g \in Files PROVE PlaceInv(g)'
    BY DEF PlacesInv
  <2>1. PlaceInv(g)
    BY DEF OrderParts, PlacesInv
  <2>2. CASE g = f
    <3>1. /\ local'[g].time = now /\ newest'[g] = newest[g] /\ local'[g].version # Absent
          /\ local'[g].version = newest'[g] \/ local'[g].version \in Partial
      BY <1>1, <1>2, <2>2 DEF Recently
    <3>2. remote'[g].time = now /\ remote'[g].version = v
      BY <1>5, <2>2
    <3>3. v \in Partial \/ (local'[g].version = newest'[g] /\ v \in 0..newest'[g])
      <4> SUFFICES ASSUME v \notin Partial PROVE local'[g].version = newest'[g] /\ v \in 0..newest'[g]
        OBVIOUS
      <4>1. local[f].version = newest[f] /\ remote[f].version <= v /\ v <= newest[f]
        BY <1>2
      <4>2. remote[f].version \in 0..newest[f] \/ (remote[f].version = Torn /\ Torn \in Partial)
        BY <2>1, <2>2, PartialTorn DEF PlaceInv
      <4>3. v # Torn \/ Torn \notin Partial
        OBVIOUS
      <4>4. v >= 0
        BY <1>2, <2>2, <4>1, <4>2, <4>3, Numbers DEF Torn
      <4> QED BY <1>1, <1>2, <2>2, <4>1, <4>4, Numbers
    <3> QED BY <3>1, <3>2, <3>3, Numbers DEF PlaceInv
  <2>3. CASE g # f
    BY <1>1, <1>5, <2>1, <2>3 DEF PlaceInv, Settled
  <2> QED BY <2>2, <2>3
<1>9. ASSUME NEW j \in DOMAIN q
      PROVE  /\ Uploads(q[j]) /\ q[j].kind # "download"
             /\ Recently(q[j].file)
             /\ \/ q[j].version \in Partial
                \/ /\ local[q[j].file].version = newest[q[j].file]
                   /\ remote'[q[j].file].version <= q[j].version
                   /\ q[j].version <= newest[q[j].file]
  <2>1. /\ Uploads(q[j]) /\ TaskInv(q[j]) /\ q[j].kind # "download" /\ q[j].file \in Files
    BY <1>3, <1>4, UploadNumbers
  <2>2. q[j].version \in Partial \/ remote'[q[j].file].version <= q[j].version
    <3>1. CASE q[j].file = f
      <4>1. Before(tasks, 1, j + 1)
        BY <1>1, <1>2, <1>3, <2>1, <3>1 DEF Before, Uploads, f
      <4>2. v <= q[j].version
        BY <1>1, <1>3, <4>1 DEF OrderParts, TasksInv, InOrder, v
      <4> QED BY <1>5, <3>1, <4>2
    <3>2. CASE q[j].file # f
      BY <1>5, <2>1, <3>2 DEF TaskInv
    <3> QED BY <3>1, <3>2
  <2> QED BY <2>1, <2>2 DEF TaskInv
<1>10. TasksInv'
  BY <1>1, <1>3, <1>9 DEF TasksInv, TaskInv, Recently
<1> QED BY <1>6, <1>7, <1>8, <1>10 DEF OrderParts

\* While saves are being loaded every Task loads.
LEMMA LoadingTasks ==
  ASSUME OrderParts, Loading
  PROVE  messages = 0 /\ InOrder(tasks) /\ \A i \in DOMAIN tasks : ~Uploads(tasks[i]) /\ TaskInv(tasks[i])
BY DEF OrderParts, PhaseInv, TasksInv

\* A snapshot that looks fresher than the local save is the newest version.
LEMMA WantedIsNewest ==
  ASSUME TypeOK, OrderParts, NEW f \in Files, Wanted(f)
  PROVE  newest[f] = remote[f].version
<1>1. PlaceInv(f)
  BY DEF OrderParts, PlacesInv
<1>2. remote[f].version # 0 /\ (local[f].version = 0 \/ remote[f].time - local[f].time >= 2)
  BY DEF Wanted, Stale, Absent, Fresh
<1>3. remote[f].version \in Partial => remote[f].version \notin 0..newest[f]
  BY PartialTorn, Numbers DEF Torn
<1> QED BY <1>1, <1>2, <1>3, Numbers DEF PlaceInv, Absent

\* The list asks for nothing but newest versions.
LEMMA OrderAfterList ==
  ASSUME TypeOK, OrderParts, Partial' = Partial, Orderly, NEW i \in DOMAIN tasks, Listed(i)
  PROVE  OrderParts'
<1> DEFINE S == {DownloadOf(f) : f \in {g \in Files : Wanted(g)}}
           q == RemoveAt(tasks, 1)
<1>1. /\ i = 1 /\ 1 \in DOMAIN tasks /\ process = "game" /\ writing = Idle
      /\ UNCHANGED <<local, remote, newest, now, process, messages, writing>>
      /\ tasks' = q \o SetToSeq(S) /\ tasks[1].kind = "list"
  <2>1. tasks' = RemoveAt(tasks, i) \o SetToSeq(S)
    BY StartedTasks
  <2>2. Completes(i, "list") /\ UNCHANGED <<local, remote, newest, now, process, messages, writing>>
    BY DEF Listed
  <2>3. i = 1 /\ 1 \in DOMAIN tasks /\ process = "game" /\ writing = Idle /\ tasks[1].kind = "list"
    BY <2>2, OldestCompletes
  <2> QED BY <2>1, <2>2, <2>3
<1>2. messages = 0 /\ \A k \in DOMAIN tasks : ~Uploads(tasks[k])
  <2>1. Loading
    BY <1>1 DEF Loading
  <2> QED BY <2>1, LoadingTasks
<1>3. S \in SUBSET Task /\ IsFiniteSet(S)
  BY NewTasks
<1>4. \A task \in S : ~Uploads(task) /\ TaskInv(task)
  BY WantedIsNewest DEF DownloadOf, Uploads, TaskInv
<1>5. /\ q \in Seq(Task) /\ \A j \in DOMAIN q : TaskInv(q[j])
      /\ \A j \in DOMAIN q : j + 1 \in DOMAIN tasks /\ q[j] = tasks[j + 1]
  BY <1>1, HeadRemoved, RestInOrder DEF TypeOK
<1> HIDE DEF S, q
<1>6. \A j \in DOMAIN tasks' : \/ tasks'[j] \in S
                               \/ j \in DOMAIN q /\ tasks'[j] = q[j]
  BY <1>1, <1>3, <1>5, Grown
<1>7. \A j \in DOMAIN tasks' : ~Uploads(tasks'[j])
  BY <1>2, <1>4, <1>5, <1>6
<1>8. \A j \in DOMAIN tasks' : TaskInv(tasks'[j])
  BY <1>4, <1>5, <1>6 DEF TaskInv
<1>9. PhaseInv' /\ WritingInv'
  BY <1>1, <1>2, <1>7 DEF PhaseInv, WritingInv
<1>10. PlacesInv'
  BY <1>1, SamePlaces DEF OrderParts
<1>11. TasksInv'
  BY <1>1, <1>7, <1>8 DEF TasksInv, InOrder, Before, TaskInv
<1> QED BY <1>9, <1>10, <1>11 DEF OrderParts

\* What is not being uploaded does not depend on the local copies.
LEMMA LoadsUnaffected ==
  ASSUME UNCHANGED <<remote, newest>>,
         \A j \in DOMAIN tasks' : ~Uploads(tasks'[j]) /\ TaskInv(tasks'[j])
  PROVE  TasksInv'
BY DEF TasksInv, InOrder, Before, TaskInv, Uploads

\* The copy that is overwritten is also in the cloud.
LEMMA OrderAfterDownload ==
  ASSUME TypeOK, OrderParts, Partial' = Partial, Orderly, NEW i \in DOMAIN tasks, DownloadOpened(i)
  PROVE  OrderParts'
<1> DEFINE q == RemoveAt(tasks, 1)
<1>1. /\ i = 1 /\ 1 \in DOMAIN tasks /\ process = "game" /\ writing = Idle
      /\ UNCHANGED <<remote, newest, process, messages>>
      /\ tasks' = q /\ tasks[1].kind = "download" /\ tasks[1] \in Task
      /\ writing' = [stage |-> "truncated", file |-> tasks[1].file,
                     version |-> remote[tasks[1].file].version, time |-> tasks[1].time]
      /\ local' = [local EXCEPT ![tasks[1].file] = Copy(Torn, now)]
  BY OldestCompletes DEF DownloadOpened
<1>2. Loading
  BY <1>1 DEF Loading
<1>3. \A k \in DOMAIN tasks : ~Uploads(tasks[k]) /\ TaskInv(tasks[k])
  BY <1>2, LoadingTasks
<1>4. /\ \A j \in DOMAIN q : j + 1 \in DOMAIN tasks /\ q[j] = tasks[j + 1]
  BY <1>1, HeadRemoved DEF TypeOK
<1>5. PhaseInv'
  BY <1>1, <1>2, RestLoading
<1>6. /\ tasks[1].file \in Files /\ newest[tasks[1].file] = remote[tasks[1].file].version
      /\ tasks[1].time = remote[tasks[1].file].time
  BY <1>1, <1>3, TaskShape DEF TaskInv
<1>7. WritingInv'
  <2>1. local'[tasks[1].file].version = Torn
    BY <1>1, <1>6 DEF TypeOK, Copy
  <2> QED BY <1>1, <1>6, <2>1 DEF WritingInv
<1>8. ASSUME NEW g \in Files
      PROVE  PlaceInv(g)'
  <2>1. PlaceInv(g)
    BY DEF OrderParts, PlacesInv
  <2>2. CASE g = tasks[1].file
    <3>1. writing' # Idle /\ writing'.file = g
      BY <1>1, <2>2 DEF Idle
    <3>2. newest[g] \in Nat /\ remote[g].version = newest[g] /\ UNCHANGED <<newest, remote>>
      BY <1>1, <1>6, <2>2, Numbers
    <3> QED BY <3>1, <3>2 DEF PlaceInv, Settled
  <2>3. CASE g # tasks[1].file
    <3>1. local'[g] = local[g]
      BY <1>1, <2>3 DEF TypeOK
    <3> QED BY <1>1, <2>1, <3>1 DEF PlaceInv, Settled
  <2> QED BY <2>2, <2>3
<1>9. TasksInv'
  <2>1. \A j \in DOMAIN tasks' : ~Uploads(tasks'[j]) /\ TaskInv(tasks'[j])
    BY <1>1, <1>3, <1>4 DEF Uploads, TaskInv
  <2> QED BY <1>1, <2>1, LoadsUnaffected
<1> QED BY <1>5, <1>7, <1>8, <1>9 DEF OrderParts, PlacesInv

\* The download ends with the newest version in both places, or fails.
LEMMA OrderAfterWriting ==
  ASSUME TypeOK, OrderParts, Partial' = Partial,
         DownloadWritten \/ DownloadStamped \/ DownloadFails
  PROVE  OrderParts'
<1> DEFINE f == writing.file
<1>1. /\ writing # Idle /\ writing \in Writing /\ Loading
      /\ UNCHANGED <<remote, newest, process, messages, tasks>>
  BY WritingShape DEF DownloadWritten, DownloadStamped, DownloadFails, Loading
<1>2. messages = 0 /\ \A k \in DOMAIN tasks : ~Uploads(tasks[k]) /\ TaskInv(tasks[k])
  BY <1>1, LoadingTasks
<1>3. process = "game"
  BY <1>1 DEF OrderParts, PhaseInv, TypeOK
<1>4. PhaseInv' /\ TasksInv'
  BY <1>1, <1>2, <1>3, LoadsUnaffected DEF PhaseInv, Uploads, TaskInv
<1>5. /\ f \in Files /\ writing.version = remote[f].version /\ writing.version = newest[f]
      /\ writing.stage = "written" => local[f].version = writing.version
      /\ writing.time = remote[f].time /\ newest[f] \in Nat
  BY Numbers, <1>1 DEF OrderParts, WritingInv, Writing
<1>6. CASE DownloadWritten
  <2>1. /\ writing' # Idle /\ writing'.file = f /\ writing'.version = writing.version
        /\ writing'.time = writing.time /\ local'[f].version = writing.version
        /\ writing'.stage = "written"
        /\ \A g \in Files : g # f => local'[g] = local[g]
    <3>1. /\ writing' = [writing EXCEPT !.stage = "written"]
          /\ local' = [local EXCEPT ![f] = Copy(writing.version, now)]
      BY <1>6 DEF DownloadWritten
    <3>2. /\ writing'.stage = "written" /\ writing'.file = f
          /\ writing'.version = writing.version /\ writing'.time = writing.time
      BY <1>1, <3>1 DEF Writing
    <3> QED BY <1>5, <3>1, <3>2 DEF Idle, Copy, TypeOK
  <2>2. WritingInv'
    BY <1>1, <1>5, <2>1 DEF WritingInv
  <2>3. ASSUME NEW g \in Files
        PROVE  PlaceInv(g)'
    <3>1. PlaceInv(g)
      BY DEF OrderParts, PlacesInv
    <3>2. CASE g = f
      <4>1. /\ newest'[g] = newest[g] /\ remote'[g].version = newest[g] /\ newest[g] \in Nat
            /\ local'[g].version = newest[g]
        BY <1>1, <1>5, <2>1, <3>2
      <4> QED BY <4>1 DEF PlaceInv
    <3>3. CASE g # f
      <4>1. /\ local'[g] = local[g] /\ remote'[g] = remote[g] /\ newest'[g] = newest[g]
            /\ Settled(g)
        BY <1>1, <2>1, <3>3 DEF Settled
      <4> QED BY <3>1, <4>1 DEF PlaceInv, Settled
    <3> QED BY <3>2, <3>3
  <2> QED BY <1>4, <2>2, <2>3 DEF OrderParts, PlacesInv
<1>7. CASE DownloadStamped
  <2>1. /\ writing' = Idle /\ writing.stage = "written" /\ local'[f].version = local[f].version
        /\ \A g \in Files : g # f => local'[g] = local[g]
    BY <1>5, <1>7 DEF DownloadStamped, TypeOK
  <2>2. WritingInv'
    BY <2>1 DEF WritingInv
  <2>3. PlacesInv'
    BY <1>1, <1>5, <2>1 DEF OrderParts, PlacesInv, PlaceInv, Settled
  <2> QED BY <1>4, <2>2, <2>3 DEF OrderParts
<1>8. CASE DownloadFails
  <2>1. /\ writing' = Idle /\ "unwritable" \in env
        /\ \/ UNCHANGED local
           \/ /\ writing.stage = "truncated"
              /\ local' = [local EXCEPT ![writing.file] = Copy(Torn, now)]
    BY <1>8 DEF DownloadFails
  <2>2. WritingInv'
    BY <2>1 DEF WritingInv
  <2>3. PlacesInv'
    BY <1>1, <2>1, CutShortPlaces, PartialTorn
  <2> QED BY <1>4, <2>2, <2>3 DEF OrderParts
<1> QED BY <1>6, <1>7, <1>8

\* Every step keeps the order and moves every snapshot forward, unless to a
\* truncated file.
LEMMA OrderStep ==
  ASSUME TypeOK, DatesInv, OrderParts, Orderly, Next
  PROVE  /\ OrderParts'
         /\ \A f \in Files : remote'[f].version >= remote[f].version \/ remote'[f].version \in Partial
<1>0. Partial' = Partial
  BY PartialKept DEF Next
<1>1. CASE UNCHANGED remote
  <2>1. \A f \in Files : remote'[f].version >= remote[f].version
    BY <1>1, Numbers
  <2>2. ~(\E f \in Files : OtherDeviceSaves(f)) /\ ~(\E i \in DOMAIN tasks : Committed(i)) => OrderParts'
    BY <1>0, OutsideStep, SavedElsewhere, SavedHere, OrderAfterUpdate, OrderAfterFailure, OrderAfterOpening,
       OrderAfterList, OrderAfterDownload, OrderAfterWriting
    DEF Next, UIThread, Outside, TaskCompletes
  <2>3. \A f \in Files : OtherDeviceSaves(f) => OrderParts'
    BY <1>0, SavedElsewhere
  <2>4. \A i \in DOMAIN tasks : Committed(i) => OrderParts'
    BY <1>0, OrderAfterCommit
  <2> QED BY <2>1, <2>2, <2>3, <2>4
<1>2. ASSUME NEW i \in DOMAIN tasks, Committed(i)
      PROVE  OrderParts' /\ \A f \in Files : remote'[f].version >= remote[f].version \/ remote'[f].version \in Partial
  BY <1>0, <1>2, OrderAfterCommit
<1>3. ASSUME NEW g \in Files, OtherDeviceSaves(g)
      PROVE  OrderParts' /\ \A f \in Files : remote'[f].version >= remote[f].version \/ remote'[f].version \in Partial
  <2>1. remote' = [remote EXCEPT ![g] = Copy(versions + 1, now)] /\ CopyDated(remote[g])
    BY <1>3 DEF OtherDeviceSaves, DatesInv
  <2>2. remote'[g].version = versions + 1 /\ remote[g].version <= versions
        /\ \A f \in Files : f # g => remote'[f] = remote[f]
    BY <2>1 DEF Copy, CopyDated, TypeOK
  <2> QED BY <1>0, <1>3, <2>2, Numbers, SavedElsewhere
<1> QED
  BY <1>1, <1>2, <1>3
  DEF Next, UIThread, Outside, TaskCompletes, UpdateSaveFiles, TaskFails, UploadOpened, Listed,
      DownloadOpened, DownloadWritten, DownloadStamped, DownloadFails, Tick, Launch, Exit,
      StartGame, Migrate, GameSaves

\* Copies, Tasks and the download are in order in every orderly behaviour.
LEMMA OrderKept == Spec => []OrderInv
<1>1. Init => OrderInv
  <2> SUFFICES ASSUME Init PROVE OrderParts
    BY DEF OrderInv
  <2>1. writing = Idle /\ messages = 0 /\ tasks = <<>> /\ DOMAIN tasks = {}
    BY DEF Init
  <2>2. PhaseInv /\ WritingInv /\ TasksInv
    BY <2>1 DEF PhaseInv, Loading, WritingInv, TasksInv, InOrder
  <2>3. PlacesInv
    BY DEF Init, PlacesInv, PlaceInv, NoCopy, Absent
  <2> QED BY <2>2, <2>3 DEF OrderParts
<1>2. TypeOK /\ DatesInv /\ OrderInv /\ [Next]_<<vars, env>> => OrderInv'
  <2> SUFFICES ASSUME TypeOK, DatesInv, OrderInv, [Next]_<<vars, env>>, Orderly' PROVE OrderParts'
    BY DEF OrderInv
  <2>1. env' = env
    BY DEF Next
  <2>2. Orderly /\ OrderParts
    BY <2>1 DEF Orderly, OrderInv
  <2>3. CASE Next
    BY <2>2, <2>3, OrderStep
  <2>4. CASE UNCHANGED <<vars, env>>
    <3>1. Partial' = Partial
      BY <2>1, PartialKept
    <3> QED
      BY <2>2, <2>4, <3>1
      DEF vars, OrderParts, PhaseInv, Loading, WritingInv, PlacesInv, PlaceInv, Settled, TasksInv,
          TaskInv, Recently
  <2> QED BY <2>3, <2>4
<1> QED BY <1>1, <1>2, TypeCorrect, DatesKept, PTL DEF Spec

\* In an orderly environment, with any number of files, versions, failed Tasks,
\* failed writes and restarts, the save made last is in the game directory or in
\* the cloud, unless a truncated file was uploaded over it.
THEOREM SaveSurvives == Spec => []NewestSaveSurvives
<1>1. OrderInv => NewestSaveSurvives
  BY PartialTorn DEF OrderInv, OrderParts, PlacesInv, PlaceInv, NewestSaveSurvives
<1> QED BY <1>1, OrderKept, PTL

\* In an orderly environment no snapshot is replaced by an older save: commits
\* arrive in the order the saves were made.  Where writing may be cut short, it
\* may be replaced by a truncated file.
THEOREM NeverRegresses == Spec => RemoteNeverRegresses
<1>1. TypeOK /\ DatesInv /\ OrderInv /\ [Next]_<<vars, env>>
        => [Orderly => \A f \in Files : \/ remote'[f].version >= remote[f].version
                                        \/ MayBeCut /\ remote'[f].version = Torn]_vars
  <2> SUFFICES ASSUME TypeOK, DatesInv, OrderInv, Next, Orderly, NEW f \in Files
               PROVE  \/ remote'[f].version >= remote[f].version
                      \/ MayBeCut /\ remote'[f].version = Torn
    BY DEF vars
  <2>1. \A g \in Files : remote'[g].version >= remote[g].version \/ remote'[g].version \in Partial
    BY OrderStep DEF OrderInv
  <2> QED BY <2>1, PartialTorn
<1> QED BY <1>1, TypeCorrect, DatesKept, OrderKept, PTL DEF Spec, RemoteNeverRegresses
=============================================================================

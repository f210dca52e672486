--------------------------- MODULE HIDDevicesProofs ---------------------------
(***************************************************************************)
(* The safety invariants of HIDDevices, for every number of devices,       *)
(* interfaces and calls.                                                   *)
(***************************************************************************)
EXTENDS HIDDevices, TLAPS, FiniteSetTheorems, SequenceTheorems

-----------------------------------------------------------------------------
(***************************************************************************)
(* The shape of the state.                                                 *)
(***************************************************************************)

Broadcast == [kind : {"attached", "detached", "granted", "denied"}, of : Devices]
Object    == [of : Interface, id : Nat, mManager : BOOLEAN, mRunning : BOOLEAN,
              mConnection : Nat, mInputThread : Nat]
Reader    == [of : Nat, at : {"new", "loop", "reading", "dead"}, on : Nat]
Doing     == [job : Job, at : At, device : Nat, todo : Seq(Devices \cup Nat), local : Nat]

WorldTypes ==
  /\ plugged \in [Devices -> {"before", "in", "out"}] /\ permitted \subseteq Devices
  /\ asked \in [Devices -> Nat] /\ \A d \in Devices : asked[d] <= calls
  /\ broadcasts \in Seq(Broadcast) /\ registered \in BOOLEAN
  /\ calls \in 0..Budget /\ ports \in {1..n : n \in 1..MaxPorts}
  /\ process \in {"running", "released", "crashed"}
TableTypes ==
  /\ saved \in [id : [Interface -> Nat], next : Nat] /\ mNextDeviceId \in Nat
  /\ DOMAIN mDevicesById \subseteq Nat /\ IsFiniteSet(DOMAIN mDevicesById)
  /\ \A id \in DOMAIN mDevicesById : mDevicesById[id] \in DOMAIN devices
ObjectTypes ==
  /\ devices \in Seq(Object) /\ connections \in Seq(BOOLEAN) /\ threads \in Seq(Reader)
  /\ overlap \subseteq DOMAIN devices
  /\ \A o \in DOMAIN devices : /\ devices[o].mConnection \in 0..Len(connections)
                               /\ devices[o].mInputThread \in 0..Len(threads)
  /\ \A t \in DOMAIN threads : /\ threads[t].of \in DOMAIN devices
                               /\ threads[t].on \in 0..Len(connections)
                               /\ threads[t].at = "reading" => threads[t].on # 0

OpenAt   == {"connect", "store", "claim", "run", "create", "start"}
CloseAt  == {"stop", "test", "loop", "joining", "forget", "free", "release"}
DeviceAt == OpenAt \cup CloseAt \cup {"clear"}

\* Which lines a job may reach, and the values of its local variable there.
Reaches(job, at, local) ==
  /\ at \in DeviceAt
  /\ at \in OpenAt => job \in {"open", "permission"}
  /\ at = "clear" => job \in {"detach", "destroy"}
  /\ at = "store" => local \in 0..Len(connections)
  /\ at = "joining" => local \in DOMAIN threads
InDevice(a) ==
  /\ actor[a].device \in DOMAIN devices
  /\ Reaches(actor[a].job, actor[a].at, actor[a].local)

\* A thread is idle, in its own part of a job, or in a device.
MainShape ==
  \/ actor["main"] = Idle
  \/ /\ actor["main"].job \in {"detach", "permission", "destroy"}
     /\ InDevice("main") \/ (actor["main"].device = 0 /\ actor["main"].at = "next")
SDLShape ==
  \/ actor["sdl"] = Idle
  \/ /\ actor["sdl"].job = "initialize" /\ actor["sdl"].at \in {"register", "list", "enumerate"}
     /\ actor["sdl"].device = 0
  \/ actor["sdl"].job \in {"open", "close"} /\ InDevice("sdl")

\* The main thread's loop visits entries of the table, each once.
TodoShape ==
  /\ actor["sdl"].todo \in Seq(Devices) /\ actor["main"].todo \in Seq(Nat)
  /\ \A i \in DOMAIN actor["main"].todo : actor["main"].todo[i] \in DOMAIN mDevicesById
  /\ \A i, j \in DOMAIN actor["main"].todo :
       actor["main"].todo[i] = actor["main"].todo[j] => i = j

ActorShape == actor \in [Actor -> Doing] /\ MainShape /\ SDLShape /\ TodoShape
Shape == WorldTypes /\ TableTypes /\ ObjectTypes /\ ActorShape

-----------------------------------------------------------------------------
(***************************************************************************)
(* A step of open() or close(): what it leaves alone.                      *)
(***************************************************************************)

\* The thread leaves the device, or is in it still.
Moves(a) ==
  /\ actor' \in [Actor -> Doing] /\ \A b \in Actor : b # a => actor'[b] = actor[b]
  /\ process' \in {process, "crashed"}
  /\ \/ actor[a].job \in {"open", "close"} /\ actor'[a] = Idle
     \/ /\ actor'[a].job = actor[a].job /\ actor'[a].todo = actor[a].todo
        /\ \/ /\ actor[a].job \notin {"open", "close"}
              /\ actor'[a].at = "next" /\ actor'[a].device = 0
           \/ /\ actor'[a].device = actor[a].device
              /\ Reaches(actor[a].job, actor[a].at, actor[a].local)'

\* Only fields of the object that the thread is in change.
Touches(a) ==
  /\ devices' \in Seq(Object) /\ Len(devices') = Len(devices)
  /\ \A o \in DOMAIN devices :
       /\ devices'[o].of = devices[o].of /\ devices'[o].id = devices[o].id
       /\ o # actor[a].device => devices'[o] = devices[o]
       /\ devices'[o].mConnection \in 0..Len(connections')
       /\ devices'[o].mInputThread \in 0..Len(threads')
  /\ connections' \in Seq(BOOLEAN) /\ Len(connections') >= Len(connections)
  /\ threads' \in Seq(Reader) /\ Len(threads') >= Len(threads)
  /\ \A t \in DOMAIN threads' :
       /\ threads'[t].of \in DOMAIN devices
       /\ threads'[t].on \in 0..Len(connections')
       /\ threads'[t].at = "reading" => threads'[t].on # 0

LEMMA DomainOfSeq ==
  ASSUME NEW S, NEW s \in Seq(S)
  PROVE  DOMAIN s = 1..Len(s) /\ Len(s) \in Nat /\ \A i \in DOMAIN s : s[i] \in S
BY LenProperties, ElementOfSeq

LEMMA ObjectFields ==
  ASSUME ObjectTypes, NEW o \in DOMAIN devices
  PROVE  /\ devices[o] \in Object /\ devices[o].of \in Interface /\ devices[o].id \in Nat
         /\ devices[o].mManager \in BOOLEAN /\ devices[o].mRunning \in BOOLEAN
         /\ devices[o].mConnection \in Nat /\ devices[o].mInputThread \in Nat /\ o \in Nat
<1>1. devices[o] \in Object /\ DOMAIN devices = 1..Len(devices) /\ Len(devices) \in Nat
  BY DomainOfSeq DEF ObjectTypes
<1> QED BY <1>1 DEF Object

\* The object a thread is in.
LEMMA InsideDevice ==
  ASSUME Shape, NEW a \in Actor, actor[a].at \in DeviceAt
  PROVE  /\ InDevice(a) /\ actor[a].device \in DOMAIN devices /\ Device(a) \in Object
         /\ a = "main" => actor[a].job \in {"detach", "permission", "destroy"}
         /\ a = "sdl" => actor[a].job \in {"open", "close"}
<1>1. InDevice(a)
  BY DEF Shape, ActorShape, MainShape, SDLShape, Actor, Idle, DeviceAt, OpenAt, CloseAt
<1>2. /\ a = "main" => actor[a].job \in {"detach", "permission", "destroy"}
      /\ a = "sdl" => actor[a].job \in {"open", "close"}
  BY DEF Shape, ActorShape, MainShape, SDLShape, Actor, Idle, DeviceAt, OpenAt, CloseAt
<1> QED BY <1>1, <1>2, DomainOfSeq DEF InDevice, Device, Shape, ObjectTypes

\* What an assignment to a field of an object does.
LEMMA SetsField ==
  ASSUME Shape, NEW a \in Actor, actor[a].at \in DeviceAt, NEW field, NEW value,
         \/ field \in {"mManager", "mRunning"} /\ value \in BOOLEAN
         \/ field \in {"mConnection", "mInputThread"} /\ value \in Nat,
         Sets(a, field, value)
  PROVE  /\ devices' \in Seq(Object) /\ Len(devices') = Len(devices)
         /\ DOMAIN devices' = DOMAIN devices
         /\ devices'[actor[a].device] = [Device(a) EXCEPT ![field] = value]
         /\ \A o \in DOMAIN devices : o # actor[a].device => devices'[o] = devices[o]
         /\ \A o \in DOMAIN devices : /\ devices'[o].of = devices[o].of
                                      /\ devices'[o].id = devices[o].id
<1>1. actor[a].device \in DOMAIN devices /\ Device(a) \in Object /\ devices \in Seq(Object)
  BY InsideDevice DEF Shape, ObjectTypes
<1>2. [Device(a) EXCEPT ![field] = value] \in Object
  BY <1>1 DEF Object
<1>3. devices' = [devices EXCEPT ![actor[a].device] = [Device(a) EXCEPT ![field] = value]]
  BY DEF Sets, Device
<1>4. /\ devices' \in Seq(Object) /\ Len(devices') = Len(devices)
      /\ \A j \in 1..Len(devices) :
           devices'[j] = IF j = actor[a].device THEN [Device(a) EXCEPT ![field] = value] ELSE devices[j]
  BY <1>1, <1>2, <1>3, DomainOfSeq, ExceptSeq
<1>5. DOMAIN devices' = DOMAIN devices /\ DOMAIN devices = 1..Len(devices)
  BY <1>1, <1>4, DomainOfSeq
<1>6. /\ [Device(a) EXCEPT ![field] = value].of = Device(a).of
      /\ [Device(a) EXCEPT ![field] = value].id = Device(a).id
  BY <1>1 DEF Object
<1> QED BY <1>1, <1>4, <1>5, <1>6 DEF Device

\* Growing sequences keep the references into them.
LEMMA GoesOn ==
  ASSUME Shape, NEW a \in Actor, actor[a].at \in DeviceAt, NEW at, NEW l \in Nat,
         actor' = [actor EXCEPT ![a].at = at, ![a].local = l],
         at \in DeviceAt, at \in OpenAt => actor[a].job \in {"open", "permission"},
         at = "clear" => actor[a].job \in {"detach", "destroy"},
         at = "store" => l \in 0..Len(connections'),
         at = "joining" => l \in DOMAIN threads',
         process' = process
  PROVE  Moves(a)
<1>1. actor \in [Actor -> Doing] /\ at \in At /\ actor[a] \in Doing
  BY DEF Shape, ActorShape, DeviceAt, OpenAt, CloseAt, At
<1>2. [actor[a] EXCEPT !.at = at, !.local = l] \in Doing
  BY <1>1 DEF Doing
<1>3. actor' = [actor EXCEPT ![a] = [actor[a] EXCEPT !.at = at, !.local = l]]
  BY <1>1
<1>4. /\ actor' \in [Actor -> Doing] /\ \A b \in Actor : b # a => actor'[b] = actor[b]
      /\ actor'[a] = [actor[a] EXCEPT !.at = at, !.local = l]
  BY <1>1, <1>2, <1>3
<1>5. /\ actor'[a].job = actor[a].job /\ actor'[a].todo = actor[a].todo
      /\ actor'[a].device = actor[a].device /\ actor'[a].at = at /\ actor'[a].local = l
  BY <1>1, <1>4 DEF Doing
<1>6. Reaches(actor[a].job, actor[a].at, actor[a].local)'
  BY <1>5 DEF Reaches
<1> QED BY <1>4, <1>5, <1>6 DEF Moves

LEMMA GoesMoves ==
  ASSUME Shape, NEW a \in Actor, actor[a].at \in DeviceAt, NEW at, Goes(a, at),
         at \in DeviceAt, at \in OpenAt => actor[a].job \in {"open", "permission"},
         at = "clear" => actor[a].job \in {"detach", "destroy"},
         at \notin {"store", "joining"}, process' = process
  PROVE  Moves(a)
<1>1. actor \in [Actor -> Doing] /\ actor[a] \in Doing /\ actor[a].local \in Nat
  BY DEF Shape, ActorShape, Doing
<1>2. [actor[a] EXCEPT !.at = at] = [actor[a] EXCEPT !.at = at, !.local = actor[a].local]
  BY <1>1 DEF Doing
<1>3. actor' = [actor EXCEPT ![a] = [actor[a] EXCEPT !.at = at]]
  BY <1>1 DEF Goes
<1>4. actor' = [actor EXCEPT ![a].at = at, ![a].local = actor[a].local]
  BY <1>1, <1>2, <1>3
<1> QED BY <1>1, <1>4, GoesOn

LEMMA IdleIsDoing == Idle \in Doing
<1>1. <<>> \in Seq(Devices \cup Nat)
  BY EmptySeq
<1> QED BY <1>1 DEF Idle, Doing, Job, At

LEMMA LeaveMoves ==
  ASSUME Shape, NEW a \in Actor, actor[a].at \in DeviceAt, Leave(a), process' = process
  PROVE  /\ Moves(a) /\ \A b \in Actor : b # a => actor'[b] = actor[b]
         /\ actor'[a].device = 0
         /\ actor[a].job \in {"open", "close"} => actor'[a] = Idle
         /\ actor[a].job \notin {"open", "close"} =>
              /\ actor'[a].at = "next"
              /\ actor'[a].job = actor[a].job /\ actor'[a].todo = actor[a].todo
<1>1. actor \in [Actor -> Doing] /\ actor[a] \in Doing
  BY DEF Shape, ActorShape
<1>2. CASE actor[a].job \in {"open", "close"}
  <2>1. actor' = [actor EXCEPT ![a] = Idle]
    BY <1>1, <1>2 DEF Leave
  <2> QED BY <1>1, <1>2, <2>1, IdleIsDoing DEF Moves, Idle
<1>3. CASE actor[a].job \notin {"open", "close"}
  <2>1. actor' = [actor EXCEPT ![a] = [actor[a] EXCEPT !.at = "next", !.device = 0]]
    BY <1>1, <1>3 DEF Leave
  <2>2. [actor[a] EXCEPT !.at = "next", !.device = 0] \in Doing
    BY <1>1 DEF Doing, At
  <2>3. /\ [actor[a] EXCEPT !.at = "next", !.device = 0].at = "next"
        /\ [actor[a] EXCEPT !.at = "next", !.device = 0].device = 0
        /\ [actor[a] EXCEPT !.at = "next", !.device = 0].job = actor[a].job
        /\ [actor[a] EXCEPT !.at = "next", !.device = 0].todo = actor[a].todo
    BY <1>1 DEF Doing
  <2>4. /\ actor' \in [Actor -> Doing] /\ \A b \in Actor : b # a => actor'[b] = actor[b]
        /\ actor'[a] = [actor[a] EXCEPT !.at = "next", !.device = 0]
    BY <1>1, <2>1, <2>2
  <2> QED BY <1>3, <2>3, <2>4 DEF Moves
<1> QED BY <1>2, <1>3

LEMMA TouchesNothing ==
  ASSUME Shape, UNCHANGED objects
  PROVE  \A a \in Actor : Touches(a)
BY DEF Touches, objects, Shape, ObjectTypes

LEMMA ThrowsMoves ==
  ASSUME Shape, NEW a \in Actor, actor[a].at \in DeviceAt, Throws(a)
  PROVE  Moves(a) /\ Touches(a)
<1>1. Touches(a)
  BY TouchesNothing DEF Throws
<1>2. CASE a = "sdl"
  BY <1>1, <1>2, LeaveMoves DEF Throws
<1>3. CASE a # "sdl"
  <2>1. actor' = actor /\ process' = "crashed" /\ UNCHANGED objects
    BY <1>3 DEF Throws
  <2>2. InDevice(a) /\ actor \in [Actor -> Doing]
    BY InsideDevice DEF Shape, ActorShape
  <2>3. Reaches(actor[a].job, actor[a].at, actor[a].local)'
    BY <2>1, <2>2 DEF InDevice, Reaches, objects
  <2> QED BY <1>1, <2>1, <2>2, <2>3 DEF Moves
<1> QED BY <1>2, <1>3

\* An assignment to a field that keeps the references.
LEMMA SetsTouches ==
  ASSUME Shape, NEW a \in Actor, actor[a].at \in DeviceAt, NEW field, NEW value,
         \/ field \in {"mManager", "mRunning"} /\ value \in BOOLEAN
         \/ field = "mConnection" /\ value \in 0..Len(connections')
         \/ field = "mInputThread" /\ value \in 0..Len(threads'),
         Sets(a, field, value),
         connections' \in Seq(BOOLEAN), Len(connections') >= Len(connections),
         threads' \in Seq(Reader), Len(threads') >= Len(threads),
         \A t \in DOMAIN threads' :
           /\ threads'[t].of \in DOMAIN devices
           /\ threads'[t].on \in 0..Len(connections')
           /\ threads'[t].at = "reading" => threads'[t].on # 0
  PROVE  Touches(a)
<1>1. /\ connections \in Seq(BOOLEAN) /\ threads \in Seq(Reader)
      /\ Len(connections) \in Nat /\ Len(threads) \in Nat
      /\ Len(connections') \in Nat /\ Len(threads') \in Nat
  BY DomainOfSeq DEF Shape, ObjectTypes
<1>2. \/ field \in {"mManager", "mRunning"} /\ value \in BOOLEAN
      \/ field \in {"mConnection", "mInputThread"} /\ value \in Nat
  BY <1>1
<1>3. /\ devices' \in Seq(Object) /\ Len(devices') = Len(devices)
      /\ DOMAIN devices' = DOMAIN devices
      /\ devices'[actor[a].device] = [Device(a) EXCEPT ![field] = value]
      /\ \A o \in DOMAIN devices : o # actor[a].device => devices'[o] = devices[o]
      /\ \A o \in DOMAIN devices : /\ devices'[o].of = devices[o].of
                                   /\ devices'[o].id = devices[o].id
  BY <1>2, SetsField
<1>4. actor[a].device \in DOMAIN devices /\ Device(a) \in Object
  BY InsideDevice
<1>5. \A o \in DOMAIN devices : /\ devices[o].mConnection \in 0..Len(connections')
                                /\ devices[o].mInputThread \in 0..Len(threads')
  BY <1>1 DEF Shape, ObjectTypes
<1>6. /\ Device(a).mConnection \in 0..Len(connections')
      /\ Device(a).mInputThread \in 0..Len(threads')
  BY <1>4, <1>5 DEF Device
<1>7. /\ [Device(a) EXCEPT ![field] = value].mConnection \in 0..Len(connections')
      /\ [Device(a) EXCEPT ![field] = value].mInputThread \in 0..Len(threads')
  BY <1>4, <1>6 DEF Object
<1>8. \A o \in DOMAIN devices : /\ devices'[o].mConnection \in 0..Len(connections')
                                /\ devices'[o].mInputThread \in 0..Len(threads')
  BY <1>3, <1>5, <1>7
<1> QED BY <1>3, <1>8 DEF Touches

LEMMA GrownConnections ==
  ASSUME Shape, connections' = Append(connections, TRUE)
  PROVE  /\ connections' \in Seq(BOOLEAN) /\ Len(connections') = Len(connections) + 1
         /\ DOMAIN connections' = 1..(Len(connections) + 1)
         /\ Len(connections) \in Nat /\ DOMAIN connections = 1..Len(connections)
         /\ \A c \in DOMAIN connections : connections'[c] = connections[c]
         /\ connections'[Len(connections) + 1] = TRUE
<1>1. connections \in Seq(BOOLEAN) /\ Len(connections) \in Nat /\ DOMAIN connections = 1..Len(connections)
  BY DomainOfSeq DEF Shape, ObjectTypes
<1> QED BY <1>1, AppendProperties, DomainOfSeq

LEMMA GrownThreads ==
  ASSUME Shape, NEW t \in Reader, threads' = Append(threads, t)
  PROVE  /\ threads' \in Seq(Reader) /\ Len(threads') = Len(threads) + 1
         /\ DOMAIN threads' = 1..(Len(threads) + 1)
         /\ Len(threads) \in Nat /\ DOMAIN threads = 1..Len(threads)
         /\ \A u \in DOMAIN threads : threads'[u] = threads[u]
         /\ threads'[Len(threads) + 1] = t
<1>1. threads \in Seq(Reader) /\ Len(threads) \in Nat /\ DOMAIN threads = 1..Len(threads)
  BY DomainOfSeq DEF Shape, ObjectTypes
<1> QED BY <1>1, AppendProperties, DomainOfSeq

LEMMA ThreadsKept ==
  ASSUME Shape, UNCHANGED threads, Len(connections') >= Len(connections),
         connections' \in Seq(BOOLEAN)
  PROVE  /\ threads' \in Seq(Reader) /\ Len(threads') >= Len(threads)
         /\ \A t \in DOMAIN threads' :
              /\ threads'[t].of \in DOMAIN devices
              /\ threads'[t].on \in 0..Len(connections')
              /\ threads'[t].at = "reading" => threads'[t].on # 0
<1>1. Len(connections) \in Nat /\ Len(connections') \in Nat /\ Len(threads) \in Nat
  BY DomainOfSeq DEF Shape, ObjectTypes
<1> QED BY <1>1 DEF Shape, ObjectTypes

LEMMA ObjectsKept ==
  ASSUME Shape, UNCHANGED devices,
         connections' \in Seq(BOOLEAN), Len(connections') >= Len(connections),
         threads' \in Seq(Reader), Len(threads') >= Len(threads),
         \A t \in DOMAIN threads' :
           /\ threads'[t].of \in DOMAIN devices
           /\ threads'[t].on \in 0..Len(connections')
           /\ threads'[t].at = "reading" => threads'[t].on # 0
  PROVE  \A a \in Actor : Touches(a)
<1>1. /\ Len(connections) \in Nat /\ Len(connections') \in Nat
      /\ Len(threads) \in Nat /\ Len(threads') \in Nat
  BY DomainOfSeq DEF Shape, ObjectTypes
<1> QED BY <1>1 DEF Touches, Shape, ObjectTypes

LEMMA SetsFlag ==
  ASSUME Shape, NEW a \in Actor, actor[a].at \in DeviceAt, NEW field \in {"mManager", "mRunning"},
         NEW value \in BOOLEAN, Sets(a, field, value), UNCHANGED <<connections, threads>>
  PROVE  Touches(a)
<1>1. /\ connections' \in Seq(BOOLEAN) /\ Len(connections') >= Len(connections)
  BY DomainOfSeq DEF Shape, ObjectTypes
<1>2. /\ threads' \in Seq(Reader) /\ Len(threads') >= Len(threads)
      /\ \A t \in DOMAIN threads' :
           /\ threads'[t].of \in DOMAIN devices
           /\ threads'[t].on \in 0..Len(connections')
           /\ threads'[t].at = "reading" => threads'[t].on # 0
  BY <1>1, ThreadsKept
<1> QED BY <1>1, <1>2, SetsTouches

\* In every step of open() and close(), the thread is at the line of that step.
DeviceSteps(a) ==
  \/ OpenConnection(a) \/ StoreConnection(a) \/ ClaimInterface(a)
  \/ StartRunning(a) \/ CreateThread(a) \/ StartThread(a)
  \/ StopRunning(a) \/ TestThread(a) \/ JoinThread(a) \/ Joined(a)
  \/ ForgetThread(a) \/ TestConnection(a) \/ ReleaseConnection(a) \/ ClearManager(a)

LEMMA DeviceStepFrame ==
  ASSUME Shape, NEW a \in Actor, DeviceSteps(a)
  PROVE  actor[a].at \in DeviceAt /\ Moves(a) /\ Touches(a)
<1>1. actor[a].at \in DeviceAt
  BY DEF DeviceSteps, OpenConnection, StoreConnection, ClaimInterface, StartRunning,
         CreateThread, StartThread, StopRunning, TestThread, JoinThread, Joined,
         ForgetThread, TestConnection, ReleaseConnection, ClearManager, Step,
         DeviceAt, OpenAt, CloseAt
<1>2. /\ InDevice(a) /\ actor[a].device \in DOMAIN devices /\ Device(a) \in Object
      /\ Device(a).mConnection \in 0..Len(connections)
      /\ Device(a).mInputThread \in 0..Len(threads)
  BY <1>1, InsideDevice DEF Device, Shape, ObjectTypes
<1>3. /\ connections \in Seq(BOOLEAN) /\ DOMAIN connections = 1..Len(connections) /\ Len(connections) \in Nat
      /\ threads \in Seq(Reader) /\ DOMAIN threads = 1..Len(threads) /\ Len(threads) \in Nat
  BY DomainOfSeq DEF Shape, ObjectTypes
<1>4. actor \in [Actor -> Doing] /\ actor[a] \in Doing /\ actor[a].local \in Nat
  BY DEF Shape, ActorShape, Doing
<1>5. CASE OpenConnection(a)
  <2>1. CASE Throws(a)
    BY <1>1, <2>1, ThrowsMoves
  <2>2. CASE /\ connections' = Append(connections, TRUE)
             /\ actor' = [actor EXCEPT ![a].at = "store", ![a].local = Len(connections) + 1]
             /\ UNCHANGED <<devices, threads, process>>
    <3>1. /\ connections' \in Seq(BOOLEAN) /\ Len(connections') = Len(connections) + 1
      BY <2>2, GrownConnections
    <3>2. actor[a].job \in {"open", "permission"}
      BY <1>2, <1>5 DEF InDevice, Reaches, OpenAt, OpenConnection, Step
    <3> DEFINE at == "store"  l == Len(connections) + 1
    <3>3. /\ actor' = [actor EXCEPT ![a].at = at, ![a].local = l]
          /\ at \in OpenAt /\ at \in DeviceAt /\ l \in Nat /\ l \in 0..Len(connections')
          /\ at # "clear" /\ at # "joining" /\ process' = process
      BY <1>3, <2>2, <3>1 DEF DeviceAt, OpenAt
    <3> HIDE DEF at, l
    <3>4. Moves(a)
      BY <1>1, <3>2, <3>3, GoesOn
    <3> QED BY <1>1, <1>3, <2>2, <3>1, <3>4, ThreadsKept, ObjectsKept
  <2>3. CASE /\ actor' = [actor EXCEPT ![a].at = "store", ![a].local = 0]
             /\ UNCHANGED <<devices, connections, threads, process>>
    <3>1. actor[a].job \in {"open", "permission"}
      BY <1>2, <1>5 DEF InDevice, Reaches, OpenAt, OpenConnection, Step
    <3> DEFINE at == "store"  l == 0
    <3>2. /\ actor' = [actor EXCEPT ![a].at = at, ![a].local = l]
          /\ at \in OpenAt /\ at \in DeviceAt /\ l \in Nat /\ l \in 0..Len(connections')
          /\ at # "clear" /\ at # "joining" /\ process' = process
      BY <1>3, <2>3 DEF DeviceAt, OpenAt
    <3> HIDE DEF at, l
    <3>3. Moves(a)
      BY <1>1, <3>1, <3>2, GoesOn
    <3> QED BY <1>1, <2>3, <3>3, TouchesNothing DEF objects
  <2> QED BY <1>5, <2>1, <2>2, <2>3 DEF OpenConnection
<1>6. CASE StoreConnection(a)
  <2>1. /\ actor[a].local \in 0..Len(connections) /\ actor[a].job \in {"open", "permission"}
    BY <1>2, <1>6 DEF InDevice, Reaches, OpenAt, StoreConnection, Step
  <2>2. Touches(a)
    BY <1>1, <1>3, <1>6, <2>1, ThreadsKept, SetsTouches DEF StoreConnection
  <2>3. Moves(a)
    BY <1>1, <1>6, <2>1, LeaveMoves, GoesMoves DEF StoreConnection, DeviceAt, OpenAt
  <2> QED BY <1>1, <2>2, <2>3
<1>7. CASE ClaimInterface(a)
  <2>1. actor[a].job \in {"open", "permission"}
    BY <1>2, <1>7 DEF InDevice, Reaches, OpenAt, ClaimInterface, Step
  <2>2. CASE Throws(a)
    BY <1>1, <2>2, ThrowsMoves
  <2>3. CASE (Goes(a, "run") \/ Goes(a, "stop")) /\ UNCHANGED <<objects, process>>
    <3>1. Moves(a)
      BY <1>1, <2>1, <2>3, GoesMoves DEF DeviceAt, OpenAt, CloseAt
    <3> QED BY <1>1, <2>3, <3>1, TouchesNothing
  <2> QED BY <1>7, <2>2, <2>3 DEF ClaimInterface
<1>8. CASE StartRunning(a)
  <2>1. actor[a].job \in {"open", "permission"}
    BY <1>2, <1>8 DEF InDevice, Reaches, OpenAt, StartRunning, Step
  <2>2. Touches(a)
    <3>1. Sets(a, "mRunning", TRUE) /\ UNCHANGED <<connections, threads>>
      BY <1>8 DEF StartRunning
    <3> DEFINE field == "mRunning"  value == TRUE
    <3>2. field \in {"mManager", "mRunning"} /\ value \in BOOLEAN
          /\ Sets(a, field, value)
      BY <3>1
    <3> HIDE DEF field, value
    <3> QED BY <1>1, <3>1, <3>2, SetsFlag
  <2>3. Moves(a)
    BY <1>1, <1>8, <2>1, GoesMoves DEF StartRunning, DeviceAt, OpenAt
  <2> QED BY <1>1, <2>2, <2>3
<1>9. CASE CreateThread(a)
  <2>1. actor[a].job \in {"open", "permission"}
    BY <1>2, <1>9 DEF InDevice, Reaches, OpenAt, CreateThread, Step
  <2> DEFINE new == [of |-> actor[a].device, at |-> "new", on |-> 0]
  <2>2. new \in Reader /\ new.of = actor[a].device /\ new.at = "new" /\ new.on = 0
    BY <1>4 DEF Reader, Doing
  <2> HIDE DEF new
  <2>3. /\ threads' \in Seq(Reader) /\ Len(threads') = Len(threads) + 1
        /\ DOMAIN threads' = 1..(Len(threads) + 1)
        /\ \A u \in DOMAIN threads : threads'[u] = threads[u]
        /\ threads'[Len(threads) + 1] = new
    BY <1>9, <2>2, GrownThreads DEF CreateThread, new
  <2>4. ASSUME NEW t \in DOMAIN threads'
        PROVE  /\ threads'[t].of \in DOMAIN devices
               /\ threads'[t].on \in 0..Len(connections)
               /\ threads'[t].at = "reading" => threads'[t].on # 0
    <3>1. CASE t \in DOMAIN threads
      BY <2>3, <3>1 DEF Shape, ObjectTypes
    <3>2. CASE t = Len(threads) + 1
      BY <1>2, <1>3, <2>2, <2>3, <3>2
    <3> QED BY <1>3, <2>3, <3>1, <3>2
  <2>5. Touches(a)
    <3>1. Sets(a, "mInputThread", Len(threads) + 1) /\ UNCHANGED connections
      BY <1>9 DEF CreateThread
    <3> DEFINE field == "mInputThread"  value == Len(threads) + 1
    <3>2. field = "mInputThread" /\ value \in 0..Len(threads') /\ Sets(a, field, value)
      BY <1>3, <2>3, <3>1
    <3> HIDE DEF field, value
    <3>3. /\ connections' \in Seq(BOOLEAN) /\ Len(connections') >= Len(connections)
          /\ Len(threads') >= Len(threads) /\ Len(connections') = Len(connections)
      BY <1>3, <2>3, <3>1
    <3>4. \A t \in DOMAIN threads' :
            /\ threads'[t].of \in DOMAIN devices
            /\ threads'[t].on \in 0..Len(connections')
            /\ threads'[t].at = "reading" => threads'[t].on # 0
      BY <2>4, <3>3
    <3> QED BY <1>1, <2>3, <3>2, <3>3, <3>4, SetsTouches
  <2>6. Moves(a)
    BY <1>1, <1>9, <2>1, GoesMoves DEF CreateThread, DeviceAt, OpenAt
  <2> QED BY <1>1, <2>5, <2>6
<1>10. CASE StartThread(a)
  <2>1. CASE Throws(a)
    BY <1>1, <2>1, ThrowsMoves
  <2>2. CASE ~Throws(a)
    <3> DEFINE t == Device(a).mInputThread
    <3>1. /\ t # 0 /\ threads[t].at = "new" /\ threads' = [threads EXCEPT ![t].at = "loop"]
          /\ Leave(a) /\ UNCHANGED <<devices, connections, process>>
      BY <1>10, <2>2 DEF StartThread
    <3>2. t \in 1..Len(threads) /\ t \in DOMAIN threads /\ threads[t] \in Reader
      BY <1>2, <1>3, <3>1, DomainOfSeq
    <3> HIDE DEF t
    <3> DEFINE x == [threads[t] EXCEPT !.at = "loop"]
    <3>3. x \in Reader /\ x.at = "loop" /\ x.of = threads[t].of /\ x.on = threads[t].on
      BY <3>2 DEF Reader
    <3>4. threads' = [threads EXCEPT ![t] = x]
      BY <3>1
    <3> HIDE DEF x
    <3>5. /\ threads' \in Seq(Reader) /\ Len(threads') = Len(threads)
          /\ \A u \in 1..Len(threads) : threads'[u] = IF u = t THEN x ELSE threads[u]
      BY <1>3, <3>2, <3>3, <3>4, ExceptSeq
    <3>6. DOMAIN threads' = DOMAIN threads
      BY <1>3, <3>5, DomainOfSeq
    <3>7. ASSUME NEW u \in DOMAIN threads'
          PROVE  /\ threads'[u].of \in DOMAIN devices
                 /\ threads'[u].on \in 0..Len(connections)
                 /\ threads'[u].at = "reading" => threads'[u].on # 0
      BY <1>3, <3>3, <3>5, <3>6 DEF Shape, ObjectTypes
    <3>8. Touches(a)
      BY <1>3, <3>1, <3>5, <3>7, ObjectsKept
    <3> QED BY <1>1, <3>1, <3>8, LeaveMoves
  <2> QED BY <2>1, <2>2
<1>11. CASE StopRunning(a)
  <2>1. Touches(a)
    <3>1. Sets(a, "mRunning", FALSE) /\ UNCHANGED <<connections, threads>>
      BY <1>11 DEF StopRunning
    <3> DEFINE field == "mRunning"  value == FALSE
    <3>2. field \in {"mManager", "mRunning"} /\ value \in BOOLEAN
          /\ Sets(a, field, value)
      BY <3>1
    <3> HIDE DEF field, value
    <3> QED BY <1>1, <3>1, <3>2, SetsFlag
  <2>2. Moves(a)
    BY <1>1, <1>11, GoesMoves DEF StopRunning, DeviceAt, OpenAt, CloseAt
  <2> QED BY <1>1, <2>1, <2>2
<1>12. CASE TestThread(a)
  <2>1. Moves(a)
    BY <1>1, <1>12, GoesMoves DEF TestThread, DeviceAt, OpenAt, CloseAt
  <2> QED BY <1>1, <1>12, <2>1, TouchesNothing DEF TestThread
<1>13. CASE JoinThread(a)
  <2>1. CASE Throws(a)
    BY <1>1, <2>1, ThrowsMoves
  <2>2. CASE ~Throws(a)
    <3> DEFINE t == Device(a).mInputThread
               at == IF threads[t].at \in {"new", "dead"} THEN "forget" ELSE "joining"
    <3>1. /\ t # 0 /\ actor' = [actor EXCEPT ![a].at = at, ![a].local = t]
          /\ UNCHANGED <<objects, process>>
      BY <1>13, <2>2 DEF JoinThread
    <3>2. t \in DOMAIN threads /\ t \in Nat /\ at \in {"forget", "joining"}
      BY <1>2, <1>3, <3>1
    <3> HIDE DEF t, at
    <3>3. Moves(a)
      BY <1>1, <3>1, <3>2, GoesOn DEF DeviceAt, OpenAt, CloseAt, objects
    <3> QED BY <1>1, <3>1, <3>3, TouchesNothing
  <2> QED BY <2>1, <2>2
<1>14. CASE Joined(a)
  <2>1. Moves(a)
    BY <1>1, <1>14, GoesMoves DEF Joined, DeviceAt, OpenAt, CloseAt
  <2> QED BY <1>1, <1>14, <2>1, TouchesNothing DEF Joined
<1>15. CASE ForgetThread(a)
  <2>1. Touches(a)
    BY <1>1, <1>3, <1>15, ThreadsKept, SetsTouches DEF ForgetThread
  <2>2. Moves(a)
    BY <1>1, <1>15, GoesMoves DEF ForgetThread, DeviceAt, OpenAt, CloseAt
  <2> QED BY <1>1, <2>1, <2>2
<1>16. ASSUME Closed(a), UNCHANGED process
       PROVE  Moves(a)
  BY <1>1, <1>16, GoesMoves, LeaveMoves DEF Closed, DeviceAt, OpenAt, CloseAt
<1>17. CASE TestConnection(a)
  <2>1. Moves(a)
    BY <1>1, <1>16, <1>17, GoesMoves DEF TestConnection, DeviceAt, OpenAt, CloseAt
  <2> QED BY <1>1, <1>17, <2>1, TouchesNothing DEF TestConnection
<1>18. CASE ReleaseConnection(a)
  <2>1. CASE Throws(a)
    BY <1>1, <2>1, ThrowsMoves
  <2>2. CASE ~Throws(a)
    <3> DEFINE c == Device(a).mConnection
    <3>1. /\ c # 0 /\ connections' = [connections EXCEPT ![c] = FALSE]
          /\ Sets(a, "mConnection", 0) /\ Closed(a) /\ UNCHANGED <<threads, process>>
      BY <1>18, <2>2 DEF ReleaseConnection
    <3>2. c \in 1..Len(connections)
      BY <1>2, <1>3, <3>1
    <3> HIDE DEF c
    <3>3. connections' \in Seq(BOOLEAN) /\ Len(connections') = Len(connections)
      BY <1>3, <3>1, <3>2, ExceptSeq
    <3>4. Touches(a)
      BY <1>1, <1>3, <3>1, <3>3, ThreadsKept, SetsTouches
    <3> QED BY <1>1, <1>16, <3>1, <3>4
  <2> QED BY <2>1, <2>2
<1>19. CASE ClearManager(a)
  <2>1. Touches(a)
    <3>1. Sets(a, "mManager", FALSE) /\ UNCHANGED <<connections, threads>>
      BY <1>19 DEF ClearManager
    <3> DEFINE field == "mManager"  value == FALSE
    <3>2. field \in {"mManager", "mRunning"} /\ value \in BOOLEAN
          /\ Sets(a, field, value)
      BY <3>1
    <3> HIDE DEF field, value
    <3> QED BY <1>1, <3>1, <3>2, SetsFlag
  <2> QED BY <1>1, <1>19, <2>1, LeaveMoves DEF ClearManager
<1> QED BY DeviceSteps(a), <1>5, <1>6, <1>7, <1>8, <1>9, <1>10, <1>11, <1>12, <1>13,
           <1>14, <1>15, <1>17, <1>18, <1>19 DEF DeviceSteps

-----------------------------------------------------------------------------
(***************************************************************************)
(* Ids, and the table.                                                     *)
(***************************************************************************)

\* A finite set listed as a sequence: each of its elements, once.
LEMMA Listing ==
  ASSUME NEW S, IsFiniteSet(S)
  PROVE  /\ SetToSeq(S) \in Seq(S)
         /\ \A i \in DOMAIN SetToSeq(S) : SetToSeq(S)[i] \in S
         /\ \A i, j \in DOMAIN SetToSeq(S) : SetToSeq(S)[i] = SetToSeq(S)[j] => i = j
         /\ \A x \in S : \E i \in DOMAIN SetToSeq(S) : SetToSeq(S)[i] = x
<1> DEFINE n == Cardinality(S)
<1>1. n \in Nat /\ ExistsBijection(1..n, S)
  BY FS_CardinalityType
<1>2. \E f \in [1..n -> S] : IsInjective(f)
  BY <1>1 DEF ExistsBijection, Bijection, Injection
<1>3. SetToSeq(S) \in [1..n -> S] /\ IsInjective(SetToSeq(S))
  BY <1>2 DEF SetToSeq
<1>4. SetToSeq(S) \in Injection(1..n, S)
  BY <1>3 DEF Injection
<1>5. Cardinality(1..n) = n
  BY <1>1, FS_Interval
<1>6. SetToSeq(S) \in Surjection(1..n, S)
  BY <1>4, <1>5, FS_Injection
<1> QED BY <1>1, <1>3, <1>6 DEF IsInjective, Surjection

Rank(d, p) == Cardinality({q \in Unnumbered(d) : q < p})

\* The interfaces without an id get different numbers, in their order.
LEMMA Ranks ==
  ASSUME WorldTypes, NEW d
  PROVE  /\ Cardinality(Unnumbered(d)) \in Nat
         /\ Unnumbered(d) = {} => Cardinality(Unnumbered(d)) = 0
         /\ \A p \in Unnumbered(d) :
              /\ Rank(d, p) \in Nat /\ Rank(d, p) < Cardinality(Unnumbered(d))
              /\ \A q \in Unnumbered(d) : p < q => Rank(d, p) < Rank(d, q)
<1>1. ports \subseteq Int /\ IsFiniteSet(ports)
  BY FS_Interval DEF WorldTypes
<1> DEFINE U == Unnumbered(d)  Below(p) == {q \in U : q < p}
<1>2. U \subseteq ports /\ IsFiniteSet(U) /\ Cardinality(U) \in Nat
  BY <1>1, FS_Subset, FS_CardinalityType DEF Unnumbered
<1> HIDE DEF U
<1>3. ASSUME NEW p \in U
      PROVE  /\ IsFiniteSet(Below(p)) /\ Cardinality(Below(p)) \in Nat
             /\ Cardinality(Below(p)) < Cardinality(U)
  <2>1. p \in Int /\ p \notin Below(p) /\ Below(p) \subseteq U /\ Below(p) # U
    BY <1>1, <1>2, <1>3
  <2>2. /\ IsFiniteSet(Below(p)) /\ Cardinality(Below(p)) <= Cardinality(U)
        /\ Cardinality(U) # Cardinality(Below(p))
    BY <1>2, <2>1, FS_Subset
  <2>3. Cardinality(Below(p)) \in Nat
    BY <2>2, FS_CardinalityType
  <2> QED BY <1>2, <2>2, <2>3
<1>4. ASSUME NEW p \in U, NEW q \in U, p < q
      PROVE  Cardinality(Below(p)) < Cardinality(Below(q))
  <2>0. p \in Int /\ q \in Int /\ \A r \in U : r \in Int
    BY <1>1, <1>2, <1>4
  <2>9. ASSUME NEW r \in Below(p) PROVE r \in Below(q)
    <3>1. r \in U /\ r \in Int /\ r < p
      BY <2>0
    <3>2. r < q
      BY <1>4, <2>0, <3>1
    <3> QED BY <3>1, <3>2
  <2>1. Below(p) \subseteq Below(q) /\ p \in Below(q) /\ p \notin Below(p)
    <3>1. Below(p) \subseteq Below(q)
      BY <2>9
    <3>2. p \in Below(q)
      BY <1>4
    <3>3. p \notin Below(p)
      BY <2>0
    <3> QED BY <3>1, <3>2, <3>3
  <2>2. /\ IsFiniteSet(Below(q)) /\ Cardinality(Below(q)) \in Nat /\ Cardinality(Below(p)) \in Nat
    BY <1>3
  <2>3. /\ Cardinality(Below(p)) <= Cardinality(Below(q))
        /\ Cardinality(Below(q)) # Cardinality(Below(p))
    BY <2>1, <2>2, FS_Subset
  <2> QED BY <2>2, <2>3
<1>5. U = {} => Cardinality(U) = 0
  BY FS_EmptySet
<1> QED BY <1>2, <1>3, <1>4, <1>5 DEF Rank, U

\* Stored ids are below the next one, and no two interfaces have the same; the
\* first interface of all has id 0, which counts as none.
IdsInv ==
  /\ saved.next = mNextDeviceId
  /\ \A n \in DOMAIN devices : /\ devices[n].id < mNextDeviceId
                               /\ devices[n].id # 0 => saved.id[devices[n].of] = devices[n].id
  /\ \A m, n \in DOMAIN devices :
       devices[m].id = 0 /\ devices[n].id = 0 => devices[m].of = devices[n].of
  /\ \A i \in Interface : saved.id[i] = 0 \/ saved.id[i] < mNextDeviceId
  /\ \A i, j \in Interface : saved.id[i] = saved.id[j] /\ saved.id[i] # 0 => i = j

TableInv == \A id \in DOMAIN mDevicesById : devices[mDevicesById[id]].id = id

LEMMA PortsOf ==
  ASSUME WorldTypes, NEW d \in Devices
  PROVE  /\ ports \subseteq 1..MaxPorts /\ IsFiniteSet(ports) /\ Cardinality(ports) \in Nat
         /\ \A p \in ports : <<d, p>> \in Interface
<1>1. ports \subseteq 1..MaxPorts /\ IsFiniteSet(ports)
  <2>1. PICK n \in 1..MaxPorts : ports = 1..n
    BY DEF WorldTypes
  <2>2. MaxPorts \in Nat /\ n \in Nat /\ n <= MaxPorts
    BY <2>1, BoundsAssumption
  <2>3. IsFiniteSet(1..n)
    BY <2>2, FS_Interval
  <2> QED BY <2>1, <2>2, <2>3
<1>2. Cardinality(ports) \in Nat
  BY <1>1, FS_CardinalityType
<1>3. \A p \in ports : <<d, p>> \in Interface
  BY <1>1 DEF Interface
<1> QED BY <1>1, <1>2, <1>3

\* The ids of a device: below the next id after it, and different.
LEMMA IdsOfDevice ==
  ASSUME Shape, IdsInv, NEW d \in Devices
  PROVE  /\ \A p \in ports :
              /\ IdOf(d, p) \in Nat
              /\ IdOf(d, p) < mNextDeviceId + Cardinality(Unnumbered(d))
              /\ p \in Unnumbered(d) => IdOf(d, p) >= mNextDeviceId
              /\ p \notin Unnumbered(d) =>
                   /\ IdOf(d, p) = saved.id[<<d, p>>]
                   /\ IdOf(d, p) # 0 /\ IdOf(d, p) < mNextDeviceId
         /\ \A p, q \in ports : IdOf(d, p) = IdOf(d, q) => p = q
<1>1. /\ Cardinality(Unnumbered(d)) \in Nat /\ mNextDeviceId \in Nat
      /\ \A p \in Unnumbered(d) :
              /\ Rank(d, p) \in Nat /\ Rank(d, p) < Cardinality(Unnumbered(d))
              /\ \A q \in Unnumbered(d) : p < q => Rank(d, p) < Rank(d, q)
  BY Ranks DEF Shape, TableTypes
<1>2. \A p \in ports : p \in Int /\ <<d, p>> \in Interface /\ saved.id[<<d, p>>] \in Nat
  BY PortsOf DEF Shape, TableTypes
<1>3. \A p \in ports : p \in Unnumbered(d) => IdOf(d, p) = mNextDeviceId + Rank(d, p)
  BY DEF IdOf, Rank, Following
<1>4. \A p \in ports : p \notin Unnumbered(d) =>
        /\ IdOf(d, p) = saved.id[<<d, p>>] /\ IdOf(d, p) # 0
        /\ IdOf(d, p) < mNextDeviceId
  BY <1>2 DEF IdOf, Unnumbered, IdsInv
<1>5. ASSUME NEW p \in ports
      PROVE  /\ IdOf(d, p) \in Nat
             /\ IdOf(d, p) < mNextDeviceId + Cardinality(Unnumbered(d))
             /\ p \in Unnumbered(d) => IdOf(d, p) >= mNextDeviceId
  <2>1. CASE p \in Unnumbered(d)
    BY <1>1, <1>3, <2>1
  <2>2. CASE p \notin Unnumbered(d)
    <3>1. IdOf(d, p) \in Nat /\ IdOf(d, p) < mNextDeviceId
      BY <1>2, <1>4, <2>2
    <3> QED BY <1>1, <2>2, <3>1
  <2> QED BY <2>1, <2>2
<1>6. ASSUME NEW p \in ports, NEW q \in ports, IdOf(d, p) = IdOf(d, q)
      PROVE  p = q
  <2>1. CASE p \in Unnumbered(d) /\ q \in Unnumbered(d)
    <3>1. Rank(d, p) = Rank(d, q)
      BY <1>1, <1>3, <1>6, <2>1
    <3>2. p \in Int /\ q \in Int /\ Rank(d, p) \in Nat /\ Rank(d, q) \in Nat
      BY <1>1, <1>2, <2>1
    <3>3. ~(p < q) /\ ~(q < p)
      BY <1>1, <2>1, <3>1, <3>2
    <3> QED BY <3>2, <3>3
  <2>2. CASE p \notin Unnumbered(d) /\ q \notin Unnumbered(d)
    <3>1. saved.id[<<d, p>>] = saved.id[<<d, q>>] /\ saved.id[<<d, p>>] # 0
      BY <1>4, <1>6, <2>2
    <3>2. <<d, p>> = <<d, q>>
      BY <1>2, <3>1 DEF IdsInv
    <3> QED BY <3>2
  <2>3. CASE ~(p \in Unnumbered(d) <=> q \in Unnumbered(d))
    <3>1. IdOf(d, p) \in Nat /\ IdOf(d, q) \in Nat /\ mNextDeviceId \in Nat
      BY <1>1, <1>5
    <3>2. CASE p \in Unnumbered(d) /\ q \notin Unnumbered(d)
      <4>1. IdOf(d, p) >= mNextDeviceId
        BY <1>5, <3>2
      <4>2. IdOf(d, q) < mNextDeviceId
        BY <1>4, <3>2
      <4> QED BY <1>6, <3>1, <4>1, <4>2
    <3>3. CASE p \notin Unnumbered(d) /\ q \in Unnumbered(d)
      <4>1. IdOf(d, q) >= mNextDeviceId
        BY <1>5, <3>3
      <4>2. IdOf(d, p) < mNextDeviceId
        BY <1>4, <3>3
      <4> QED BY <1>6, <3>1, <4>1, <4>2
    <3> QED BY <2>3, <3>2, <3>3
  <2> QED BY <2>1, <2>2, <2>3
<1> QED BY <1>4, <1>5, <1>6

LEMMA NewDeviceFields ==
  ASSUME Shape, IdsInv, NEW d \in Devices, NEW p \in ports
  PROVE  /\ NewDevice(d, p) \in Object
         /\ NewDevice(d, p).of = <<d, p>> /\ NewDevice(d, p).id = IdOf(d, p)
         /\ NewDevice(d, p).mManager = TRUE
         /\ NewDevice(d, p).mConnection = 0 /\ NewDevice(d, p).mInputThread = 0
<1>1. IdOf(d, p) \in Nat /\ <<d, p>> \in Interface
  BY IdsOfDevice, PortsOf DEF Shape
<1> QED BY <1>1 DEF NewDevice, Object

\* A device connects: its objects come after the others, and take their entries.
Grows(d) ==
  /\ devices' \in Seq(Object)
  /\ \A o \in DOMAIN devices : o \in DOMAIN devices' /\ devices'[o] = devices[o]
  /\ \A p \in ports : /\ Len(devices) + p \in DOMAIN devices'
                      /\ devices'[Len(devices) + p] = NewDevice(d, p)
  /\ \A o \in DOMAIN devices' : o \in DOMAIN devices \/ \E p \in ports : o = Len(devices) + p
Enters(d) ==
  /\ DOMAIN mDevicesById' = DOMAIN mDevicesById \cup {IdOf(d, p) : p \in ports}
  /\ \A p \in ports : mDevicesById'[IdOf(d, p)] = Len(devices) + p
  /\ \A id \in DOMAIN mDevicesById : (\A p \in ports : IdOf(d, p) # id)
       => mDevicesById'[id] = mDevicesById[id]
Numbers(d) ==
  /\ saved' \in [id : [Interface -> Nat], next : Nat]
  /\ mNextDeviceId' = mNextDeviceId + Cardinality(Unnumbered(d))
  /\ saved'.next = mNextDeviceId'
  /\ \A p \in ports : saved'.id[<<d, p>>] = IdOf(d, p)
  /\ \A i \in Interface : i \notin {d} \X ports => saved'.id[i] = saved.id[i]

LEMMA ConnectUSBGrows ==
  ASSUME Shape, IdsInv, NEW d \in Devices, ConnectUSB(d)
  PROVE  Grows(d)
<1>1. PICK n \in 1..MaxPorts : ports = 1..n
  BY DEF Shape, WorldTypes
<1>2. n \in Nat
  BY <1>1, BoundsAssumption
<1> DEFINE t == [p \in ports |-> NewDevice(d, p)]
<1>3. t \in Seq(Object) /\ Len(t) = n /\ \A p \in ports : t[p] = NewDevice(d, p)
  <2>1. \A p \in ports : NewDevice(d, p) \in Object
    BY NewDeviceFields
  <2>2. t \in [1..n -> Object]
    BY <1>1, <2>1
  <2>3. t \in Seq(Object)
    BY <1>2, <2>2
  <2>4. DOMAIN t = 1..n /\ Len(t) \in Nat /\ DOMAIN t = 1..Len(t)
    BY <1>1, <2>3, DomainOfSeq
  <2>5. Len(t) = n
    BY <1>2, <2>4
  <2> QED BY <2>3, <2>5
<1>4. devices' = devices \o t
  BY DEF ConnectUSB
<1> HIDE DEF t
<1>5. devices \in Seq(Object) /\ Len(devices) \in Nat /\ DOMAIN devices = 1..Len(devices)
  BY DomainOfSeq DEF Shape, ObjectTypes
<1>6. /\ devices' \in Seq(Object) /\ Len(devices') = Len(devices) + n
      /\ \A i \in 1..(Len(devices) + n) :
           devices'[i] = IF i <= Len(devices) THEN devices[i] ELSE t[i - Len(devices)]
  BY <1>3, <1>4, <1>5, ConcatProperties
<1>7. DOMAIN devices' = 1..(Len(devices) + n)
  BY <1>6, DomainOfSeq
<1>8. ASSUME NEW p \in ports
      PROVE  /\ Len(devices) + p \in DOMAIN devices'
             /\ devices'[Len(devices) + p] = NewDevice(d, p)
  <2>1. p \in 1..n /\ Len(devices) + p \in 1..(Len(devices) + n) /\ ~(Len(devices) + p <= Len(devices))
        /\ (Len(devices) + p) - Len(devices) = p
    BY <1>1, <1>2, <1>5
  <2> QED BY <1>3, <1>6, <1>7, <2>1
<1>9. ASSUME NEW o \in DOMAIN devices', o \notin DOMAIN devices
      PROVE  \E p \in ports : o = Len(devices) + p
  <2>1. o - Len(devices) \in ports /\ o = Len(devices) + (o - Len(devices))
    BY <1>1, <1>2, <1>5, <1>7, <1>9
  <2> QED BY <2>1
<1>10. \A o \in DOMAIN devices : o \in DOMAIN devices' /\ devices'[o] = devices[o]
  BY <1>2, <1>5, <1>6, <1>7
<1> QED BY <1>6, <1>8, <1>9, <1>10 DEF Grows

LEMMA ConnectUSBEnters ==
  ASSUME Shape, IdsInv, NEW d \in Devices, ConnectUSB(d)
  PROVE  Enters(d)
<1> DEFINE With(id) == {p \in ports : IdOf(d, p) = id}
<1>1. mDevicesById' = [id \in DOMAIN mDevicesById \cup {IdOf(d, p) : p \in ports} |->
                         IF With(id) # {} THEN Len(devices) + Max(With(id))
                                          ELSE mDevicesById[id]]
  BY DEF ConnectUSB
<1>2. \A p, q \in ports : IdOf(d, p) = IdOf(d, q) => p = q
  BY IdsOfDevice
<1>3. ASSUME NEW p \in ports
      PROVE  With(IdOf(d, p)) = {p} /\ Max({p}) = p
  <2>1. With(IdOf(d, p)) = {p}
    BY <1>2
  <2>2. p \in Int
    BY PortsOf DEF Shape
  <2>3. Max({p}) = p
    BY <2>2 DEF Max
  <2> QED BY <2>1, <2>3
<1>4. \A id : (\A p \in ports : IdOf(d, p) # id) => With(id) = {}
  OBVIOUS
<1> HIDE DEF With
<1> QED BY <1>1, <1>3, <1>4 DEF Enters

LEMMA ConnectUSBNumbers ==
  ASSUME Shape, IdsInv, NEW d \in Devices, ConnectUSB(d)
  PROVE  Numbers(d)
<1> DEFINE n == Cardinality(Unnumbered(d))
<1>1. /\ mNextDeviceId' = mNextDeviceId + n
      /\ saved' = [id   |-> [i \in Interface |->
                              IF i \in {d} \X ports THEN IdOf(d, i[2]) ELSE saved.id[i]],
                  next |-> IF Unnumbered(d) = {} THEN saved.next ELSE mNextDeviceId + n]
  BY DEF ConnectUSB, Following, NextIdSaved
<1>2. n \in Nat /\ (Unnumbered(d) = {} => n = 0) /\ mNextDeviceId \in Nat
      /\ saved.next = mNextDeviceId /\ saved \in [id : [Interface -> Nat], next : Nat]
  BY Ranks DEF Shape, TableTypes, IdsInv
<1> HIDE DEF n
<1>3. ASSUME NEW i \in Interface
      PROVE  (IF i \in {d} \X ports THEN IdOf(d, i[2]) ELSE saved.id[i]) \in Nat
  BY <1>2, IdsOfDevice
<1>4. saved'.next = mNextDeviceId' /\ saved'.next \in Nat
  BY <1>1, <1>2
<1>5. saved'.id = [i \in Interface |->
                    IF i \in {d} \X ports THEN IdOf(d, i[2]) ELSE saved.id[i]]
  BY <1>1
<1>6. saved'.id \in [Interface -> Nat]
  BY <1>3, <1>5
<1>7. saved' \in [id : [Interface -> Nat], next : Nat]
  BY <1>1, <1>4, <1>5, <1>6
<1>8. \A p \in ports : <<d, p>> \in Interface /\ <<d, p>> \in {d} \X ports
  BY PortsOf DEF Shape
<1> QED BY <1>1, <1>4, <1>5, <1>7, <1>8 DEF Numbers, n

LEMMA ConnectUSBFrame ==
  ASSUME Shape, IdsInv, NEW d \in Devices, ConnectUSB(d)
  PROVE  Grows(d) /\ Enters(d) /\ Numbers(d)
BY ConnectUSBGrows, ConnectUSBEnters, ConnectUSBNumbers

-----------------------------------------------------------------------------
(***************************************************************************)
(* Every step keeps the shape.                                             *)
(***************************************************************************)

LEMMA InDeviceKept ==
  ASSUME NEW b \in Actor, InDevice(b), actor'[b] = actor[b],
         connections \in Seq(BOOLEAN), connections' \in Seq(BOOLEAN),
         Len(connections') >= Len(connections),
         DOMAIN threads \subseteq DOMAIN threads', DOMAIN devices \subseteq DOMAIN devices'
  PROVE  InDevice(b)'
<1>1. Len(connections) \in Nat /\ Len(connections') \in Nat
  BY LenProperties
<1>2. Reaches(actor[b].job, actor[b].at, actor[b].local)'
  BY <1>1 DEF InDevice, Reaches
<1> QED BY <1>2 DEF InDevice

\* An actor that a step leaves alone keeps its shape.
LEMMA MainKept ==
  ASSUME Shape, actor'["main"] = actor["main"],
         connections' \in Seq(BOOLEAN), Len(connections') >= Len(connections),
         DOMAIN threads \subseteq DOMAIN threads', DOMAIN devices \subseteq DOMAIN devices'
  PROVE  MainShape'
<1>1. InDevice("main") => InDevice("main")'
  BY InDeviceKept DEF Shape, ObjectTypes, Actor
<1> QED BY <1>1 DEF Shape, ActorShape, MainShape

LEMMA SDLKept ==
  ASSUME Shape, actor'["sdl"] = actor["sdl"],
         connections' \in Seq(BOOLEAN), Len(connections') >= Len(connections),
         DOMAIN threads \subseteq DOMAIN threads', DOMAIN devices \subseteq DOMAIN devices'
  PROVE  SDLShape'
<1>1. InDevice("sdl") => InDevice("sdl")'
  BY InDeviceKept DEF Shape, ObjectTypes, Actor
<1> QED BY <1>1 DEF Shape, ActorShape, SDLShape

LEMMA DeviceStepShape ==
  ASSUME Shape, NEW a \in Actor, DeviceStep(a)
  PROVE  Shape'
<1>1. /\ actor[a].at \in DeviceAt /\ Moves(a) /\ Touches(a)
      /\ UNCHANGED <<plugged, permitted, asked, ports, broadcasts, saved, mNextDeviceId,
                     registered, mDevicesById, overlap, calls>>
  BY DeviceStepFrame DEF DeviceStep, DeviceSteps, Unshared, world, prefs
<1>2. WorldTypes'
  BY <1>1 DEF Shape, WorldTypes, Moves
<1>3. DOMAIN devices' = DOMAIN devices
  BY <1>1, DomainOfSeq DEF Touches, Shape, ObjectTypes
<1>4. TableTypes'
  BY <1>1, <1>3 DEF Shape, TableTypes
<1>5. ObjectTypes'
  BY <1>1, <1>3 DEF Shape, ObjectTypes, Touches
<1>6. /\ connections' \in Seq(BOOLEAN) /\ Len(connections') >= Len(connections)
      /\ DOMAIN threads \subseteq DOMAIN threads' /\ DOMAIN devices \subseteq DOMAIN devices'
  <2>1. /\ connections' \in Seq(BOOLEAN) /\ Len(connections') >= Len(connections)
        /\ threads' \in Seq(Reader) /\ Len(threads') >= Len(threads) /\ threads \in Seq(Reader)
    BY <1>1 DEF Touches, Shape, ObjectTypes
  <2>2. /\ DOMAIN threads = 1..Len(threads) /\ DOMAIN threads' = 1..Len(threads')
        /\ Len(threads) \in Nat /\ Len(threads') \in Nat
    BY <2>1, LenProperties
  <2> QED BY <1>3, <2>1, <2>2
<1>7. actor[a].device \in DOMAIN devices
  BY <1>1, InsideDevice
<1>8. CASE a = "main"
  <2>1. actor["main"].job \in {"detach", "permission", "destroy"}
    BY <1>1, <1>8, InsideDevice
  <2>2. /\ actor'["main"].job = actor["main"].job /\ actor'["main"].todo = actor["main"].todo
        /\ \/ actor'["main"].at = "next" /\ actor'["main"].device = 0
           \/ /\ actor'["main"].device = actor["main"].device
              /\ Reaches(actor["main"].job, actor["main"].at, actor["main"].local)'
    BY <1>1, <1>8, <2>1 DEF Moves
  <2>3. MainShape'
    BY <1>3, <1>7, <1>8, <2>1, <2>2 DEF MainShape, InDevice
  <2>4. actor'["sdl"] = actor["sdl"]
    BY <1>1, <1>8 DEF Moves, Actor
  <2>5. SDLShape'
    BY <1>6, <2>4, SDLKept
  <2>6. TodoShape'
    BY <1>1, <2>2, <2>4 DEF Shape, ActorShape, TodoShape
  <2> QED BY <1>1, <1>2, <1>4, <1>5, <2>3, <2>5, <2>6 DEF Shape, ActorShape, Moves
<1>9. CASE a = "sdl"
  <2>1. actor["sdl"].job \in {"open", "close"}
    BY <1>1, <1>9, InsideDevice
  <2>2. \/ actor'["sdl"] = Idle
        \/ /\ actor'["sdl"].job = actor["sdl"].job /\ actor'["sdl"].todo = actor["sdl"].todo
           /\ actor'["sdl"].device = actor["sdl"].device
           /\ Reaches(actor["sdl"].job, actor["sdl"].at, actor["sdl"].local)'
    BY <1>1, <1>9, <2>1 DEF Moves
  <2>3. SDLShape'
    BY <1>3, <1>7, <1>9, <2>1, <2>2 DEF SDLShape, InDevice
  <2>4. actor'["main"] = actor["main"]
    BY <1>1, <1>9 DEF Moves, Actor
  <2>5. MainShape'
    BY <1>6, <2>4, MainKept
  <2>6. actor'["sdl"].todo \in Seq(Devices)
    <3>1. Idle.todo \in Seq(Devices)
      BY EmptySeq DEF Idle
    <3> QED BY <2>2, <3>1 DEF Shape, ActorShape, TodoShape
  <2>7. TodoShape'
    BY <1>1, <2>4, <2>6 DEF Shape, ActorShape, TodoShape
  <2> QED BY <1>1, <1>2, <1>4, <1>5, <2>3, <2>5, <2>7 DEF Shape, ActorShape, Moves
<1> QED BY <1>8, <1>9 DEF Actor

\* What an InputThread does to itself.
ReaderMoves(t) ==
  /\ threads' \in Seq(Reader) /\ DOMAIN threads' = DOMAIN threads /\ Len(threads') = Len(threads)
  /\ \A u \in DOMAIN threads : u # t => threads'[u] = threads[u]
  /\ threads'[t].of = threads[t].of /\ threads'[t].on \in 0..Len(connections)
  /\ \/ threads[t].at = "reading" /\ threads'[t].at = "loop"
     \/ threads[t].at = "loop" /\ threads'[t].at = "dead"
     \/ LET o == devices[threads[t].of] IN
        /\ threads[t].at = "loop" /\ threads'[t].at = "reading"
        /\ o.mRunning /\ o.mConnection # 0 /\ threads'[t].on = o.mConnection
  /\ process' = process \/ (threads[t].at = "reading" /\ process' = "crashed"
                              /\ ~devices[threads[t].of].mManager)
  /\ UNCHANGED <<world, broadcasts, prefs, registered, mDevicesById, devices,
                 connections, actor, overlap, calls>>

LEMMA InputThreadFrame ==
  ASSUME Shape, NEW t \in DOMAIN threads, InputThread(t)
  PROVE  ReaderMoves(t)
<1>1. /\ threads \in Seq(Reader) /\ t \in 1..Len(threads) /\ threads[t] \in Reader
      /\ threads[t].of \in DOMAIN devices /\ DOMAIN threads = 1..Len(threads)
      /\ threads[t].on \in 0..Len(connections)
  BY DomainOfSeq DEF Shape, ObjectTypes
<1>2. /\ devices[threads[t].of].mConnection \in 0..Len(connections) /\ Len(connections) \in Nat
  BY <1>1, DomainOfSeq DEF Shape, ObjectTypes
<1>3. ASSUME NEW x \in Reader, threads' = [threads EXCEPT ![t] = x]
      PROVE  /\ threads' \in Seq(Reader) /\ DOMAIN threads' = DOMAIN threads /\ Len(threads') = Len(threads)
             /\ \A u \in DOMAIN threads : u # t => threads'[u] = threads[u]
             /\ threads'[t] = x
  <2>1. /\ threads' \in Seq(Reader) /\ Len(threads') = Len(threads)
        /\ \A u \in 1..Len(threads) : threads'[u] = IF u = t THEN x ELSE threads[u]
    BY <1>1, <1>3, ExceptSeq
  <2> QED BY <1>1, <2>1, DomainOfSeq
<1>4. UNCHANGED <<world, broadcasts, prefs, registered, mDevicesById, overlap, calls>>
  BY DEF InputThread, Unshared
<1>5. CASE NextTransfer(t)
  <2> DEFINE o == devices[threads[t].of]
             goesOn == o.mRunning /\ o.mConnection # 0
             x == [threads[t] EXCEPT !.at = IF goesOn THEN "reading" ELSE "dead",
                                     !.on = IF goesOn THEN o.mConnection ELSE 0]
  <2>1. /\ threads' = [threads EXCEPT ![t] = x] /\ threads[t].at = "loop"
        /\ UNCHANGED <<devices, connections, actor, process>>
    BY <1>1, <1>5 DEF NextTransfer
  <2>2. /\ x \in Reader /\ x.of = threads[t].of
        /\ x.on = IF goesOn THEN o.mConnection ELSE 0
        /\ x.at = IF goesOn THEN "reading" ELSE "dead"
    <3>1. o.mConnection \in Nat
      BY <1>2
    <3> HIDE DEF o
    <3> DEFINE at == IF goesOn THEN "reading" ELSE "dead"
               on == IF goesOn THEN o.mConnection ELSE 0
    <3>2. at \in {"new", "loop", "reading", "dead"} /\ on \in Nat
      BY <3>1
    <3> HIDE DEF at, on
    <3>3. [threads[t] EXCEPT !.at = at, !.on = on] \in Reader
          /\ [threads[t] EXCEPT !.at = at, !.on = on].of = threads[t].of
          /\ [threads[t] EXCEPT !.at = at, !.on = on].on = on
          /\ [threads[t] EXCEPT !.at = at, !.on = on].at = at
      BY <1>1, <3>2 DEF Reader
    <3> QED BY <3>3 DEF at, on
  <2> HIDE DEF x
  <2>3. /\ threads' \in Seq(Reader) /\ DOMAIN threads' = DOMAIN threads /\ Len(threads') = Len(threads)
        /\ \A u \in DOMAIN threads : u # t => threads'[u] = threads[u]
        /\ threads'[t] = x
    BY <1>3, <2>1, <2>2
  <2>4. CASE goesOn
    BY <1>2, <1>4, <2>1, <2>2, <2>3, <2>4 DEF ReaderMoves
  <2>5. CASE ~goesOn
    BY <1>2, <1>4, <2>1, <2>2, <2>3, <2>5 DEF ReaderMoves
  <2> QED BY <2>4, <2>5
<1>6. CASE TransferReturns(t)
  <2> DEFINE x == [threads[t] EXCEPT !.at = "loop"]
  <2>1. /\ threads' = [threads EXCEPT ![t] = x] /\ threads[t].at = "reading"
        /\ process' = process \/ (process' = "crashed" /\ ~devices[threads[t].of].mManager)
        /\ UNCHANGED <<devices, connections, actor>>
    BY <1>1, <1>6 DEF TransferReturns
  <2>2. x \in Reader /\ x.of = threads[t].of /\ x.on = threads[t].on /\ x.at = "loop"
    BY <1>1 DEF Reader
  <2> HIDE DEF x
  <2>3. /\ threads' \in Seq(Reader) /\ DOMAIN threads' = DOMAIN threads /\ Len(threads') = Len(threads)
        /\ \A u \in DOMAIN threads : u # t => threads'[u] = threads[u]
        /\ threads'[t] = x
    BY <1>3, <2>1, <2>2
  <2> QED BY <1>1, <1>4, <2>1, <2>2, <2>3 DEF ReaderMoves
<1> QED BY <1>5, <1>6 DEF InputThread

LEMMA InputThreadShape ==
  ASSUME Shape, NEW t \in DOMAIN threads, InputThread(t)
  PROVE  Shape'
<1>1. ReaderMoves(t)
  BY InputThreadFrame
<1>2. WorldTypes'
  BY <1>1 DEF Shape, WorldTypes, ReaderMoves, world
<1>3. TableTypes'
  BY <1>1 DEF Shape, TableTypes, ReaderMoves, prefs
<1>4. threads[t].of \in DOMAIN devices
  BY DEF Shape, ObjectTypes
<1>5. ASSUME NEW u \in DOMAIN threads'
      PROVE  /\ threads'[u].of \in DOMAIN devices
             /\ threads'[u].on \in 0..Len(connections)
             /\ threads'[u].at = "reading" => threads'[u].on # 0
  <2>1. CASE u = t
    BY <1>1, <1>4, <2>1 DEF ReaderMoves
  <2>2. CASE u # t
    BY <1>1, <2>2 DEF ReaderMoves, Shape, ObjectTypes
  <2> QED BY <2>1, <2>2
<1>6. ObjectTypes'
  BY <1>1, <1>5 DEF Shape, ObjectTypes, ReaderMoves
<1>7. connections' \in Seq(BOOLEAN) /\ Len(connections') >= Len(connections)
  BY <1>1, DomainOfSeq DEF ReaderMoves, Shape, ObjectTypes
<1>8. MainShape' /\ SDLShape'
  BY <1>1, <1>7, MainKept, SDLKept DEF ReaderMoves
<1>9. TodoShape' /\ actor' \in [Actor -> Doing]
  BY <1>1 DEF Shape, ActorShape, TodoShape, ReaderMoves
<1> QED BY <1>2, <1>3, <1>6, <1>8, <1>9 DEF Shape, ActorShape

\* The broadcasts that are under way, whatever their order.
Pending == {broadcasts[n] : n \in DOMAIN broadcasts}
Message(kind, d) == [kind |-> kind, of |-> d]

LEMMA SendFrame ==
  ASSUME Shape, NEW kind \in {"attached", "detached", "granted", "denied"}, NEW d \in Devices,
         Send(kind, d)
  PROVE  /\ broadcasts' \in Seq(Broadcast)
         /\ Pending \subseteq Pending' /\ Pending' \subseteq Pending \cup {Message(kind, d)}
         /\ registered => Message(kind, d) \in Pending'
<1>1. broadcasts \in Seq(Broadcast) /\ Message(kind, d) \in Broadcast
      /\ DOMAIN broadcasts = 1..Len(broadcasts) /\ Len(broadcasts) \in Nat
  BY DomainOfSeq DEF Shape, WorldTypes, Message, Broadcast
<1>2. CASE ~registered
  BY <1>1, <1>2 DEF Send, Pending
<1>3. CASE registered
  <2>1. broadcasts' = Append(broadcasts, Message(kind, d))
    BY <1>3 DEF Send, Message
  <2>2. /\ broadcasts' \in Seq(Broadcast) /\ Len(broadcasts') = Len(broadcasts) + 1
        /\ \A i \in 1..Len(broadcasts) : broadcasts'[i] = broadcasts[i]
        /\ broadcasts'[Len(broadcasts) + 1] = Message(kind, d)
    BY <1>1, <2>1, AppendProperties
  <2>3. DOMAIN broadcasts' = 1..(Len(broadcasts) + 1)
    BY <2>2, DomainOfSeq
  <2>4. Message(kind, d) \in Pending'
    BY <1>1, <2>2, <2>3 DEF Pending
  <2>5. Pending \subseteq Pending'
    BY <1>1, <2>2, <2>3 DEF Pending
  <2>6. ASSUME NEW n \in DOMAIN broadcasts'
        PROVE  broadcasts'[n] \in Pending \cup {Message(kind, d)}
    <3>1. CASE n = Len(broadcasts) + 1
      BY <2>2, <3>1
    <3>2. CASE n \in DOMAIN broadcasts
      BY <1>1, <2>2, <3>2 DEF Pending
    <3> QED BY <1>1, <2>3, <3>1, <3>2
  <2> QED BY <2>2, <2>4, <2>5, <2>6 DEF Pending
<1> QED BY <1>2, <1>3

LEMMA ReceivesFrame ==
  ASSUME Shape, NEW kind, NEW d, Receives(kind, d)
  PROVE  /\ broadcasts' \in Seq(Broadcast) /\ Message(kind, d) \in Pending
         /\ Pending' \subseteq Pending /\ Pending \subseteq Pending' \cup {Message(kind, d)}
<1>1. /\ broadcasts \in Seq(Broadcast) /\ broadcasts # <<>> /\ Head(broadcasts) = Message(kind, d)
      /\ broadcasts' = Tail(broadcasts)
      /\ DOMAIN broadcasts = 1..Len(broadcasts) /\ Len(broadcasts) \in Nat
  BY DomainOfSeq DEF Shape, WorldTypes, Receives, Message
<1>2. Len(broadcasts) \in Nat \ {0} /\ Head(broadcasts) = broadcasts[1]
  BY <1>1, EmptySeq
<1>3. /\ broadcasts' \in Seq(Broadcast) /\ Len(broadcasts') = Len(broadcasts) - 1
      /\ \A i \in 1..Len(broadcasts') : broadcasts'[i] = broadcasts[i + 1]
  BY <1>1, HeadTailProperties
<1>4. DOMAIN broadcasts' = 1..(Len(broadcasts) - 1)
  BY <1>3, DomainOfSeq
<1>5. Message(kind, d) \in Pending
  BY <1>1, <1>2 DEF Pending
<1>6. ASSUME NEW n \in DOMAIN broadcasts'
      PROVE  broadcasts'[n] \in Pending
  <2>1. n + 1 \in DOMAIN broadcasts /\ broadcasts'[n] = broadcasts[n + 1]
    BY <1>1, <1>2, <1>3, <1>4
  <2> QED BY <2>1 DEF Pending
<1>7. ASSUME NEW n \in DOMAIN broadcasts
      PROVE  broadcasts[n] \in Pending' \cup {Message(kind, d)}
  <2>1. CASE n = 1
    BY <1>1, <1>2, <2>1
  <2>2. CASE n # 1
    <3>1. n - 1 \in DOMAIN broadcasts' /\ broadcasts'[n - 1] = broadcasts[n]
      BY <1>1, <1>2, <1>3, <1>4, <2>2
    <3> QED BY <3>1 DEF Pending
  <2> QED BY <2>1, <2>2
<1> QED BY <1>3, <1>5, <1>6, <1>7 DEF Pending

LEMMA ObjectsUnchanged ==
  ASSUME Shape, UNCHANGED objects, overlap' \subseteq DOMAIN devices
  PROVE  /\ ObjectTypes'
         /\ actor'["main"] = actor["main"] => MainShape'
         /\ actor'["sdl"] = actor["sdl"] => SDLShape'
<1>1. connections' \in Seq(BOOLEAN) /\ Len(connections') >= Len(connections)
      /\ DOMAIN threads \subseteq DOMAIN threads' /\ DOMAIN devices \subseteq DOMAIN devices'
  BY DomainOfSeq DEF objects, Shape, ObjectTypes
<1>2. ObjectTypes'
  BY DEF objects, Shape, ObjectTypes
<1> QED BY <1>1, <1>2, MainKept, SDLKept

LEMMA WorldStepShape ==
  ASSUME Shape, NEW d \in Devices, Plug(d) \/ Unplug(d) \/ \E g \in BOOLEAN : Answer(d, g)
  PROVE  Shape'
<1>1. /\ UNCHANGED <<saved, mNextDeviceId, registered, mDevicesById, devices, connections,
                     threads, actor, overlap, calls, process, ports>>
      /\ \E kind \in {"attached", "detached", "granted", "denied"} : Send(kind, d)
  BY DEF Plug, Unplug, Answer, prefs, javaHeap, objects
<1>2. broadcasts' \in Seq(Broadcast)
  BY <1>1, SendFrame
<1>3. /\ plugged' \in [Devices -> {"before", "in", "out"}] /\ permitted' \subseteq Devices
      /\ asked' \in [Devices -> Nat] /\ \A e \in Devices : asked'[e] <= calls
  <2>1. CASE Plug(d)
    BY <2>1 DEF Plug, Shape, WorldTypes
  <2>2. CASE Unplug(d)
    BY <2>2 DEF Unplug, Shape, WorldTypes
  <2>3. ASSUME NEW g \in BOOLEAN, Answer(d, g)
        PROVE  <1>3
    <3>1. /\ plugged' = plugged /\ permitted' \subseteq permitted \cup {d}
          /\ asked' = [asked EXCEPT ![d] = asked[d] - 1] /\ asked[d] > 0
      BY <2>3 DEF Answer
    <3>2. calls \in Nat /\ asked \in [Devices -> Nat] /\ \A e \in Devices : asked[e] <= calls
      BY BoundsAssumption DEF Shape, WorldTypes
    <3>3. asked' \in [Devices -> Nat] /\ \A e \in Devices : asked'[e] <= calls
      BY <3>1, <3>2
    <3> QED BY <3>1, <3>3 DEF Shape, WorldTypes
  <2> QED BY <2>1, <2>2, <2>3
<1>4. WorldTypes'
  BY <1>1, <1>2, <1>3 DEF Shape, WorldTypes
<1>5. ObjectTypes' /\ MainShape' /\ SDLShape'
  BY <1>1, ObjectsUnchanged DEF objects, Shape, ObjectTypes
<1>6. TableTypes' /\ TodoShape' /\ actor' \in [Actor -> Doing]
  BY <1>1 DEF Shape, TableTypes, ActorShape, TodoShape
<1> QED BY <1>4, <1>5, <1>6 DEF Shape, ActorShape

\* An assignment to the record of one thread.
LEMMA ActorSet ==
  ASSUME Shape, NEW a \in Actor, NEW r \in Doing, actor' = [actor EXCEPT ![a] = r]
  PROVE  /\ actor' \in [Actor -> Doing] /\ actor'[a] = r
         /\ \A b \in Actor : b # a => actor'[b] = actor[b]
BY DEF Shape, ActorShape

\* The main thread begins a loop over entries of the table.
LEMMA VisitAllFrame ==
  ASSUME Shape, NEW job \in {"detach", "permission", "destroy"},
         NEW ids \in SUBSET DOMAIN mDevicesById, VisitAll(job, ids)
  PROVE  /\ actor' \in [Actor -> Doing] /\ actor'["sdl"] = actor["sdl"]
         /\ actor'["main"].job = job /\ actor'["main"].at = "next" /\ actor'["main"].device = 0
         /\ actor'["main"].todo \in Seq(Nat)
         /\ \A i \in DOMAIN actor'["main"].todo : actor'["main"].todo[i] \in ids
         /\ \A i, j \in DOMAIN actor'["main"].todo :
              actor'["main"].todo[i] = actor'["main"].todo[j] => i = j
         /\ \A id \in ids : \E i \in DOMAIN actor'["main"].todo : actor'["main"].todo[i] = id
<1> DEFINE l == SetToSeq(ids)
<1>1. IsFiniteSet(ids) /\ ids \subseteq Nat
  BY FS_Subset DEF Shape, TableTypes
<1>2. /\ l \in Seq(ids) /\ \A i \in DOMAIN l : l[i] \in ids
      /\ \A i, j \in DOMAIN l : l[i] = l[j] => i = j
      /\ \A x \in ids : \E i \in DOMAIN l : l[i] = x
  BY <1>1, Listing
<1>3. l \in Seq(Nat) /\ l \in Seq(Devices \cup Nat)
  BY <1>1, <1>2, SeqMonotonic
<1>4. actor' = [actor EXCEPT !["main"] = [Idle EXCEPT !.job = job, !.at = "next", !.todo = l]]
  BY DEF VisitAll
<1> HIDE DEF l
<1> DEFINE r == [Idle EXCEPT !.job = job, !.at = "next", !.todo = l]
<1>5. Idle \in Doing /\ Idle.device = 0 /\ job \in Job /\ "next" \in At
  BY IdleIsDoing DEF Idle, Job, At
<1>6. r \in Doing
  BY <1>3, <1>5 DEF Doing
<1>7. /\ r.job = job /\ r.at = "next" /\ r.device = 0 /\ r.todo = l
  BY <1>5 DEF Doing
<1> HIDE DEF r
<1>8. actor' \in [Actor -> Doing] /\ actor'["main"] = r /\ actor'["sdl"] = actor["sdl"]
  BY <1>4, <1>6, ActorSet DEF Actor, r
<1> QED BY <1>2, <1>3, <1>7, <1>8

LEMMA IdsOfDeviceInTable == ASSUME NEW d PROVE IdsOf(d) \subseteq DOMAIN mDevicesById
BY DEF IdsOf

LEMMA TableKept ==
  ASSUME Shape, UNCHANGED <<prefs, mDevicesById, devices>>
  PROVE  TableTypes'
BY DEF Shape, TableTypes, prefs

\* A loop that begins keeps the shape.
LEMMA LoopShape ==
  ASSUME Shape, NEW job \in {"detach", "permission", "destroy"},
         NEW ids \in SUBSET DOMAIN mDevicesById, VisitAll(job, ids),
         UNCHANGED <<prefs, mDevicesById, objects, overlap>>
  PROVE  TableTypes' /\ ObjectTypes' /\ ActorShape'
<1>1. /\ actor' \in [Actor -> Doing] /\ actor'["sdl"] = actor["sdl"]
      /\ actor'["main"].job = job /\ actor'["main"].at = "next" /\ actor'["main"].device = 0
      /\ actor'["main"].todo \in Seq(Nat)
      /\ \A i \in DOMAIN actor'["main"].todo : actor'["main"].todo[i] \in ids
      /\ \A i, j \in DOMAIN actor'["main"].todo :
           actor'["main"].todo[i] = actor'["main"].todo[j] => i = j
  BY VisitAllFrame
<1>2. ObjectTypes' /\ SDLShape'
  BY <1>1, ObjectsUnchanged DEF Shape, ObjectTypes
<1>3. TableTypes'
  BY TableKept DEF objects
<1>4. MainShape'
  BY <1>1 DEF MainShape
<1>5. TodoShape'
  BY <1>1 DEF Shape, ActorShape, TodoShape
<1> QED BY <1>1, <1>2, <1>3, <1>4, <1>5 DEF ActorShape

LEMMA ActorKept ==
  ASSUME Shape, UNCHANGED <<prefs, mDevicesById, objects, overlap, actor>>
  PROVE  TableTypes' /\ ObjectTypes' /\ ActorShape'
<1>1. ObjectTypes' /\ SDLShape' /\ MainShape'
  BY ObjectsUnchanged DEF Shape, ObjectTypes
<1>2. TableTypes'
  BY TableKept DEF objects
<1> QED BY <1>1, <1>2 DEF Shape, ActorShape, TodoShape

\* A device connects.
LEMMA ConnectUSBShape ==
  ASSUME Shape, IdsInv, NEW d \in Devices, ConnectUSB(d),
         UNCHANGED <<connections, threads, overlap>>
  PROVE  /\ TableTypes' /\ ObjectTypes' /\ DOMAIN mDevicesById \subseteq DOMAIN mDevicesById'
         /\ DOMAIN devices \subseteq DOMAIN devices'
         /\ actor'["main"] = actor["main"] => MainShape'
         /\ actor'["sdl"] = actor["sdl"] => SDLShape'
<1>1. Grows(d) /\ Enters(d) /\ Numbers(d)
  BY ConnectUSBFrame
<1>2. DOMAIN devices \subseteq DOMAIN devices'
  BY <1>1 DEF Grows
<1> DEFINE new == {IdOf(d, p) : p \in ports}
<1>3. new \subseteq Nat /\ IsFiniteSet(new)
  <2>1. IsFiniteSet(ports)
    BY PortsOf DEF Shape
  <2>2. [p \in ports |-> IdOf(d, p)] \in Surjection(ports, new)
    BY DEF Surjection
  <2> QED BY <2>1, <2>2, FS_Surjection, IdsOfDevice
<1>4. DOMAIN mDevicesById' = DOMAIN mDevicesById \cup new
  BY <1>1 DEF Enters
<1>5. ASSUME NEW id \in DOMAIN mDevicesById'
      PROVE  mDevicesById'[id] \in DOMAIN devices'
  <2>1. CASE \E p \in ports : IdOf(d, p) = id
    BY <1>1, <2>1 DEF Enters, Grows
  <2>2. CASE ~\E p \in ports : IdOf(d, p) = id
    <3>1. id \in DOMAIN mDevicesById /\ mDevicesById'[id] = mDevicesById[id]
      BY <1>1, <1>4, <2>2 DEF Enters
    <3> QED BY <1>2, <3>1 DEF Shape, TableTypes
  <2> QED BY <2>1, <2>2
<1>6. mNextDeviceId' \in Nat
  BY <1>1, Ranks DEF Numbers, Shape, TableTypes
<1>7. TableTypes'
  <2>1. DOMAIN mDevicesById' \subseteq Nat /\ IsFiniteSet(DOMAIN mDevicesById')
    <3> HIDE DEF new
    <3>1. IsFiniteSet(DOMAIN mDevicesById) /\ DOMAIN mDevicesById \subseteq Nat
      BY DEF Shape, TableTypes
    <3>2. IsFiniteSet(DOMAIN mDevicesById \cup new)
      BY <1>3, <3>1, FS_Union
    <3> QED BY <1>3, <1>4, <3>1, <3>2
  <2>2. saved' \in [id : [Interface -> Nat], next : Nat]
    BY <1>1 DEF Numbers
  <2> QED BY <1>5, <1>6, <2>1, <2>2 DEF TableTypes
<1>8. ASSUME NEW o \in DOMAIN devices'
      PROVE  /\ devices'[o].mConnection \in 0..Len(connections)
             /\ devices'[o].mInputThread \in 0..Len(threads)
  <2>1. CASE o \in DOMAIN devices
    BY <1>1, <2>1 DEF Grows, Shape, ObjectTypes
  <2>2. CASE o \notin DOMAIN devices
    <3>1. PICK p \in ports : o = Len(devices) + p /\ devices'[o] = NewDevice(d, p)
      BY <1>1, <2>2 DEF Grows
    <3>2. Len(connections) \in Nat /\ Len(threads) \in Nat
      BY DomainOfSeq DEF Shape, ObjectTypes
    <3>3. devices'[o].mConnection = 0 /\ devices'[o].mInputThread = 0
      BY <3>1, NewDeviceFields
    <3> QED BY <3>2, <3>3
  <2> QED BY <2>1, <2>2
<1>9. ObjectTypes'
  BY <1>1, <1>2, <1>8 DEF Grows, Shape, ObjectTypes
<1>10. connections' \in Seq(BOOLEAN) /\ Len(connections') >= Len(connections)
       /\ DOMAIN threads \subseteq DOMAIN threads'
  BY DomainOfSeq DEF Shape, ObjectTypes
<1> QED BY <1>2, <1>4, <1>7, <1>9, <1>10, MainKept, SDLKept

LEMMA HandleShape ==
  ASSUME Shape, IdsInv, NEW d \in Devices, Handle(d)
  PROVE  Shape'
<1>1. /\ \E kind \in {"attached", "detached", "granted", "denied"} : Receives(kind, d)
      /\ UNCHANGED <<world, registered, calls>>
      /\ process' \in {process, "crashed"}
  BY DEF Handle, HandleUsbDeviceAttached, HandleUsbDeviceDetached, HandleUsbDevicePermission,
         Receives
<1>2. broadcasts' \in Seq(Broadcast)
  BY <1>1, ReceivesFrame
<1>3. WorldTypes'
  BY <1>1, <1>2 DEF Shape, WorldTypes, world
<1>4. CASE HandleUsbDeviceAttached(d)
  <2>1. ConnectUSB(d) /\ UNCHANGED <<connections, threads, overlap, actor>>
    BY <1>4 DEF HandleUsbDeviceAttached
  <2>2. /\ TableTypes' /\ ObjectTypes' /\ MainShape' /\ SDLShape'
        /\ DOMAIN mDevicesById \subseteq DOMAIN mDevicesById'
    BY <2>1, ConnectUSBShape
  <2> QED BY <1>3, <2>1, <2>2 DEF Shape, ActorShape, TodoShape
<1>5. CASE HandleUsbDeviceDetached(d)
  <2>1. /\ UNCHANGED <<prefs, mDevicesById, objects, overlap>>
        /\ VisitAll("detach", IdsOf(d)) \/ UNCHANGED actor
    BY <1>5 DEF HandleUsbDeviceDetached
  <2>2. IdsOf(d) \in SUBSET DOMAIN mDevicesById
    BY IdsOfDeviceInTable
  <2> QED BY <1>3, <2>1, <2>2, LoopShape, ActorKept DEF Shape
<1>6. CASE HandleUsbDevicePermission(d)
  <2>1. /\ UNCHANGED <<prefs, mDevicesById, objects, overlap>>
        /\ VisitAll("permission", IdsOf(d)) \/ UNCHANGED actor
    BY <1>6 DEF HandleUsbDevicePermission
  <2>2. IdsOf(d) \in SUBSET DOMAIN mDevicesById
    BY IdsOfDeviceInTable
  <2> QED BY <1>3, <2>1, <2>2, LoopShape, ActorKept DEF Shape
<1> QED BY <1>4, <1>5, <1>6 DEF Handle

LEMMA ReleaseShape ==
  ASSUME Shape, Release
  PROVE  Shape'
<1>1. <<>> \in Seq(Broadcast)
  BY EmptySeq
<1>2. WorldTypes'
  BY <1>1 DEF Release, Shape, WorldTypes, world
<1>3. TableTypes' /\ ObjectTypes' /\ ActorShape'
  BY LoopShape DEF Release
<1> QED BY <1>2, <1>3 DEF Shape

LEMMA CallsBounded ==
  ASSUME Shape, Spend
  PROVE  calls \in Nat /\ calls' = calls + 1 /\ calls' \in 0..Budget
<1>1. Cardinality(ports) \in Nat
  <2>1. IsFiniteSet(ports)
    <3>1. PICK n \in 1..MaxPorts : ports = 1..n
      BY DEF Shape, WorldTypes
    <3>2. n \in Nat
      BY <3>1, BoundsAssumption
    <3> QED BY <3>1, <3>2, FS_Interval
  <2> QED BY <2>1, FS_CardinalityType
<1> QED BY <1>1, BoundsAssumption DEF Spend, Shape, WorldTypes

LEMMA StartingShape ==
  /\ Starting \in [Actor -> Doing] /\ Starting["main"] = Idle
  /\ Starting["sdl"].job = "initialize" /\ Starting["sdl"].at = "register"
  /\ Starting["sdl"].device = 0 /\ Starting["sdl"].todo = <<>>
<1> DEFINE r == [Idle EXCEPT !.job = "initialize", !.at = "register"]
<1>1. Idle \in Doing /\ Idle.device = 0 /\ Idle.todo = <<>>
  BY IdleIsDoing DEF Idle
<1>2. /\ r \in Doing /\ r.job = "initialize" /\ r.at = "register"
      /\ r.device = 0 /\ r.todo = <<>>
  BY <1>1 DEF Doing, Job, At
<1>3. Starting = [a \in Actor |-> IF a = "sdl" THEN r ELSE Idle]
  BY DEF Starting
<1> HIDE DEF r
<1> QED BY <1>1, <1>2, <1>3 DEF Actor

LEMMA FreshActors ==
  ASSUME actor = Starting
  PROVE  ActorShape
<1>1. <<>> \in Seq(Devices) /\ <<>> \in Seq(Nat) /\ DOMAIN <<>> = {}
  BY EmptySeq
<1>2. Idle.todo = <<>>
  BY DEF Idle
<1>3. TodoShape
  BY <1>1, <1>2, StartingShape DEF TodoShape
<1> QED BY <1>3, StartingShape DEF ActorShape, MainShape, SDLShape

LEMMA FreshObjects ==
  ASSUME devices = <<>>, connections = <<>>, threads = <<>>, overlap = {}, mDevicesById = <<>>,
         saved \in [id : [Interface -> Nat], next : Nat], mNextDeviceId \in Nat
  PROVE  ObjectTypes /\ TableTypes
<1>1. /\ devices \in Seq(Object) /\ connections \in Seq(BOOLEAN) /\ threads \in Seq(Reader)
      /\ DOMAIN devices = {} /\ DOMAIN threads = {} /\ DOMAIN mDevicesById = {}
  BY EmptySeq
<1> QED BY <1>1, FS_EmptySet DEF ObjectTypes, TableTypes

LEMMA RestartShape ==
  ASSUME Shape, Restart
  PROVE  Shape'
<1>1. <<>> \in Seq(Broadcast)
  BY EmptySeq
<1>2. calls' \in 0..Budget /\ calls' \in Nat
  BY CallsBounded, BoundsAssumption DEF Restart
<1>3. WorldTypes'
  <2>1. /\ plugged' \in [Devices -> {"before", "in"}] /\ UNCHANGED ports
        /\ permitted' \subseteq permitted /\ asked' = [d \in Devices |-> 0]
        /\ broadcasts' = <<>> /\ registered' = FALSE /\ process' = "running"
    BY DEF Restart
  <2>2. plugged' \in [Devices -> {"before", "in", "out"}]
    BY <2>1
  <2>3. asked' \in [Devices -> Nat] /\ \A d \in Devices : asked'[d] <= calls'
    BY <1>2, <2>1
  <2> QED BY <1>1, <1>2, <2>1, <2>2, <2>3 DEF Shape, WorldTypes
<1>4. saved' \in [id : [Interface -> Nat], next : Nat] /\ mNextDeviceId' \in Nat
  BY DEF Restart, Shape, TableTypes
<1>5. ObjectTypes' /\ TableTypes'
  <2>1. devices' = <<>> /\ connections' = <<>> /\ threads' = <<>> /\ overlap' = {} /\ mDevicesById' = <<>>
    BY DEF Restart
  <2>2. /\ devices' \in Seq(Object) /\ connections' \in Seq(BOOLEAN) /\ threads' \in Seq(Reader)
        /\ DOMAIN devices' = {} /\ DOMAIN threads' = {} /\ DOMAIN mDevicesById' = {}
    BY <2>1, EmptySeq
  <2> QED BY <1>4, <2>1, <2>2, FS_EmptySet DEF ObjectTypes, TableTypes
<1>6. ActorShape'
  <2>1. actor' = Starting
    BY DEF Restart
  <2>2. <<>> \in Seq(Devices) /\ <<>> \in Seq(Nat) /\ DOMAIN <<>> = {}
    BY EmptySeq
  <2>3. Idle.todo = <<>>
    BY DEF Idle
  <2>4. TodoShape'
    BY <2>1, <2>2, <2>3, StartingShape DEF TodoShape
  <2> QED BY <2>1, <2>4, StartingShape DEF ActorShape, MainShape, SDLShape
<1> QED BY <1>3, <1>5, <1>6 DEF Shape

\* The steps of initialize() but the last leave the record of the SDL thread with
\* another line and list.
LEMMA InitializeFrame ==
  ASSUME Shape, Initialize
  PROVE  /\ actor["sdl"].job = "initialize" /\ actor["sdl"].device = 0
         /\ actor' \in [Actor -> Doing] /\ actor'["main"] = actor["main"]
         /\ \/ actor'["sdl"] = Idle
            \/ /\ actor'["sdl"].job = "initialize" /\ actor'["sdl"].device = 0
               /\ actor'["sdl"].at \in {"list", "enumerate"}
         /\ actor'["sdl"].todo \in Seq(Devices)
<1>1. /\ actor \in [Actor -> Doing] /\ actor["sdl"] \in Doing
      /\ actor["sdl"].todo \in Seq(Devices)
      /\ actor["sdl"].todo \in Seq(Devices \cup Nat)
  BY DEF Shape, ActorShape, TodoShape, Actor, Doing
<1>2. /\ actor["sdl"].job = "initialize" /\ actor["sdl"].device = 0
      /\ actor["sdl"].at \in {"register", "list", "enumerate"}
  BY DEF Initialize, RegisterReceiver, ListDevices, Enumerate, Shape, ActorShape, SDLShape,
         InDevice, Reaches, DeviceAt, OpenAt, CloseAt, Idle
<1>3. ASSUME NEW at \in {"list", "enumerate"}, NEW l \in Seq(Devices),
             actor' = [actor EXCEPT !["sdl"].at = at, !["sdl"].todo = l]
      PROVE  /\ actor' \in [Actor -> Doing] /\ actor'["main"] = actor["main"]
             /\ actor'["sdl"].job = "initialize" /\ actor'["sdl"].device = 0
             /\ actor'["sdl"].at = at /\ actor'["sdl"].todo = l
  <2> DEFINE r == [actor["sdl"] EXCEPT !.at = at, !.todo = l]
  <2>1. l \in Seq(Devices \cup Nat) /\ at \in At
    BY <1>3, SeqMonotonic DEF At
  <2>2. r \in Doing /\ r.job = "initialize" /\ r.device = 0 /\ r.at = at /\ r.todo = l
    BY <1>1, <1>2, <2>1 DEF Doing
  <2>3. actor' = [actor EXCEPT !["sdl"] = r]
    BY <1>1, <1>3 DEF Actor
  <2> HIDE DEF r
  <2> QED BY <2>2, <2>3, ActorSet DEF Actor
<1>4. CASE RegisterReceiver
  <2> DEFINE r == [actor["sdl"] EXCEPT !.at = "list"]
  <2>1. r \in Doing /\ r.job = "initialize" /\ r.device = 0 /\ r.at = "list"
        /\ r.todo = actor["sdl"].todo
    BY <1>1, <1>2 DEF Doing, At
  <2>2. actor' = [actor EXCEPT !["sdl"] = r]
    BY <1>1, <1>4 DEF RegisterReceiver, Actor
  <2> HIDE DEF r
  <2> QED BY <1>1, <1>2, <2>1, <2>2, ActorSet DEF Actor
<1>5. CASE ListDevices
  <2> DEFINE l == SetToSeq({d \in Devices : plugged[d] = "in"})  at == "enumerate"
  <2>1. l \in Seq(Devices)
    <3>1. IsFiniteSet({d \in Devices : plugged[d] = "in"})
      BY DevicesAssumption, FS_Subset
    <3>2. l \in Seq({d \in Devices : plugged[d] = "in"})
      BY <3>1, Listing
    <3> QED BY <3>2, SeqMonotonic
  <2>2. at \in {"list", "enumerate"} /\ actor' = [actor EXCEPT !["sdl"].at = at, !["sdl"].todo = l]
    BY <1>5 DEF ListDevices
  <2> HIDE DEF l, at
  <2> QED BY <1>2, <1>3, <2>1, <2>2
<1>6. CASE Enumerate /\ actor["sdl"].todo = <<>>
  <2>1. actor' = [actor EXCEPT !["sdl"] = Idle]
    BY <1>6 DEF Enumerate
  <2>2. <<>> \in Seq(Devices) /\ Idle.todo = <<>>
    BY EmptySeq DEF Idle
  <2> QED BY <1>2, <2>1, <2>2, ActorSet, IdleIsDoing DEF Actor
<1>7. CASE Enumerate /\ actor["sdl"].todo # <<>>
  <2> DEFINE l == Tail(actor["sdl"].todo)
             r == [actor["sdl"] EXCEPT !.todo = l]
  <2>1. l \in Seq(Devices) /\ l \in Seq(Devices \cup Nat)
    BY <1>1, <1>7, HeadTailProperties
  <2>2. actor["sdl"].at = "enumerate" /\ actor' = [actor EXCEPT !["sdl"] = r]
    BY <1>1, <1>7 DEF Enumerate, Actor
  <2> HIDE DEF l
  <2>3. r \in Doing /\ r.job = "initialize" /\ r.device = 0 /\ r.at = "enumerate" /\ r.todo = l
    BY <1>1, <1>2, <2>1, <2>2 DEF Doing
  <2> HIDE DEF r
  <2> QED BY <1>2, <2>1, <2>2, <2>3, ActorSet DEF Actor
<1> QED BY <1>4, <1>5, <1>6, <1>7 DEF Initialize

LEMMA InitializeShape ==
  ASSUME Shape, IdsInv, Initialize
  PROVE  Shape'
<1>1. /\ actor' \in [Actor -> Doing] /\ actor'["main"] = actor["main"]
      /\ \/ actor'["sdl"] = Idle
         \/ /\ actor'["sdl"].job = "initialize" /\ actor'["sdl"].device = 0
            /\ actor'["sdl"].at \in {"list", "enumerate"}
      /\ actor'["sdl"].todo \in Seq(Devices)
  BY InitializeFrame
<1>2. SDLShape'
  BY <1>1 DEF SDLShape
<1>3. WorldTypes'
  BY DEF Initialize, RegisterReceiver, ListDevices, Enumerate, Shape, WorldTypes, world
<1>4. /\ TableTypes' /\ ObjectTypes' /\ MainShape'
      /\ DOMAIN mDevicesById \subseteq DOMAIN mDevicesById'
  <2>1. CASE UNCHANGED <<prefs, mDevicesById, objects, overlap>>
    BY <1>1, <2>1, TableKept, ObjectsUnchanged DEF objects, Shape, ObjectTypes
  <2>2. CASE Enumerate /\ actor["sdl"].todo # <<>>
    <3>1. /\ ConnectUSB(Head(actor["sdl"].todo)) /\ Head(actor["sdl"].todo) \in Devices
          /\ UNCHANGED <<connections, threads, overlap>>
      BY <2>2, HeadTailProperties DEF Enumerate, Shape, ActorShape, TodoShape
    <3> QED BY <1>1, <3>1, ConnectUSBShape
  <2>3. \/ UNCHANGED <<prefs, mDevicesById, objects, overlap>>
        \/ Enumerate /\ actor["sdl"].todo # <<>>
    BY DEF Initialize, RegisterReceiver, ListDevices, Enumerate, objects
  <2> QED BY <2>1, <2>2, <2>3
<1>5. TodoShape'
  BY <1>1, <1>4 DEF Shape, ActorShape, TodoShape
<1> QED BY <1>1, <1>2, <1>3, <1>4, <1>5 DEF Shape, ActorShape

\* openDevice or closeDevice begins, for an object in the table.
CallBegins(job, at) ==
  /\ actor' \in [Actor -> Doing] /\ actor'["main"] = actor["main"]
  /\ actor'["sdl"].job = job /\ actor'["sdl"].at = at /\ actor'["sdl"].todo = <<>>
  /\ \E id \in DOMAIN mDevicesById : actor'["sdl"].device = mDevicesById[id]
  /\ Enter("sdl", actor'["sdl"].device, at)

LEMMA CallFrame ==
  ASSUME Shape, NEW job \in {"open", "close"}, NEW at \in {"connect", "stop"}, Call(job, at)
  PROVE  /\ actor["sdl"] = Idle /\ LockFree("sdl") /\ Spend
         /\ UNCHANGED <<plugged, permitted, ports, broadcasts, prefs, registered,
                        mDevicesById, objects, process>>
         /\ asked' \in [Devices -> Nat] /\ \A d \in Devices : asked'[d] <= calls'
         /\ CallBegins(job, at) \/ UNCHANGED <<actor, overlap>>
<1>1. actor["sdl"] = Idle
  BY DEF Call, Shape, ActorShape, SDLShape
<1>2. calls \in Nat /\ calls' = calls + 1 /\ Spend
  BY CallsBounded DEF Call
<1>3. PICK id \in DOMAIN mDevicesById :
       LET o == mDevicesById[id] IN
       \/ /\ actor' = [actor EXCEPT !["sdl"] = [Idle EXCEPT !.job = job, !.at = at,
                                                             !.device = o]]
          /\ Enter("sdl", o, at)
          /\ UNCHANGED asked
       \/ /\ asked' = [asked EXCEPT ![devices[o].of[1]] = @ + 1]
          /\ UNCHANGED <<actor, overlap>>
  BY DEF Call
<1> DEFINE o == mDevicesById[id]
           r == [Idle EXCEPT !.job = job, !.at = at, !.device = o]
<1>4. /\ o \in DOMAIN devices /\ o \in Nat /\ devices[o].of[1] \in Devices
  <2>1. o \in DOMAIN devices
    BY DEF Shape, TableTypes
  <2>2. o \in Nat /\ devices[o] \in Object
    BY <2>1, DomainOfSeq DEF Shape, ObjectTypes
  <2> QED BY <2>1, <2>2 DEF Object, Interface
<1>5. CASE actor' = [actor EXCEPT !["sdl"] = r] /\ Enter("sdl", o, at) /\ UNCHANGED asked
  <2>1. Idle \in Doing /\ Idle.todo = <<>>
    BY IdleIsDoing DEF Idle
  <2>2. r \in Doing /\ r.job = job /\ r.at = at /\ r.device = o /\ r.todo = <<>>
    BY <1>4, <2>1 DEF Doing, Job, At
  <2>3. actor' \in [Actor -> Doing] /\ actor'["sdl"] = r /\ actor'["main"] = actor["main"]
    BY <1>5, <2>2, ActorSet DEF Actor
  <2>4. CallBegins(job, at)
    BY <1>5, <2>2, <2>3 DEF CallBegins
  <2>5. asked' \in [Devices -> Nat] /\ \A d \in Devices : asked'[d] <= calls'
    BY <1>2, <1>5 DEF Shape, WorldTypes
  <2> QED BY <1>1, <1>2, <2>4, <2>5 DEF Call
<1>6. CASE /\ asked' = [asked EXCEPT ![devices[o].of[1]] = @ + 1]
           /\ UNCHANGED <<actor, overlap>>
  <2>1. asked \in [Devices -> Nat] /\ \A d \in Devices : asked[d] <= calls
    BY DEF Shape, WorldTypes
  <2>2. asked' \in [Devices -> Nat] /\ \A d \in Devices : asked'[d] <= calls'
    BY <1>2, <1>4, <1>6, <2>1
  <2> QED BY <1>1, <1>2, <1>6, <2>2 DEF Call
<1> QED BY <1>3, <1>5, <1>6

LEMMA CallShape ==
  ASSUME Shape, NEW job \in {"open", "close"}, NEW at \in {"connect", "stop"},
         job = "open" \/ at = "stop", Call(job, at)
  PROVE  Shape'
<1>1. /\ actor["sdl"] = Idle /\ Spend
      /\ UNCHANGED <<plugged, permitted, ports, broadcasts, prefs, registered,
                     mDevicesById, objects, process>>
      /\ asked' \in [Devices -> Nat] /\ \A d \in Devices : asked'[d] <= calls'
      /\ CallBegins(job, at) \/ UNCHANGED <<actor, overlap>>
  BY CallFrame
<1>2. WorldTypes'
  BY <1>1, CallsBounded DEF Shape, WorldTypes
<1>3. CASE UNCHANGED <<actor, overlap>>
  BY <1>1, <1>2, <1>3, ActorKept DEF Shape
<1>4. CASE CallBegins(job, at)
  <2>1. PICK id \in DOMAIN mDevicesById : actor'["sdl"].device = mDevicesById[id]
    BY <1>4 DEF CallBegins
  <2>2. actor'["sdl"].device \in DOMAIN devices
    BY <2>1 DEF Shape, TableTypes
  <2>3. overlap' \subseteq DOMAIN devices
    BY <1>4, <2>2 DEF CallBegins, Enter, Shape, ObjectTypes
  <2>4. ObjectTypes' /\ MainShape' /\ TableTypes'
    BY <1>1, <1>4, <2>3, ObjectsUnchanged, TableKept DEF CallBegins, objects
  <2>5. SDLShape'
    BY <1>1, <1>4, <2>2 DEF CallBegins, SDLShape, InDevice, Reaches, DeviceAt, OpenAt, CloseAt, objects
  <2>6. TodoShape' /\ actor' \in [Actor -> Doing]
    BY <1>1, <1>4, EmptySeq DEF CallBegins, Shape, ActorShape, TodoShape
  <2> QED BY <1>2, <2>4, <2>5, <2>6 DEF Shape, ActorShape
<1> QED BY <1>1, <1>3, <1>4

\* The main thread enters the next object of its loop.
VisitBegins ==
  LET id == Head(actor["main"].todo)  o == mDevicesById[id]
      job == actor["main"].job  at == IF job = "permission" THEN "connect" ELSE "stop"
  IN /\ actor["main"].at = "next" /\ actor["main"].device = 0
     /\ job \in {"detach", "permission", "destroy"}
     /\ id \in DOMAIN mDevicesById /\ o \in DOMAIN devices
     /\ actor' \in [Actor -> Doing] /\ actor'["sdl"] = actor["sdl"]
     /\ actor'["main"].job = job /\ actor'["main"].at = at /\ actor'["main"].device = o
     /\ actor'["main"].todo \in Seq(Nat)
     /\ \A i \in DOMAIN actor'["main"].todo :
          i + 1 \in DOMAIN actor["main"].todo
          /\ actor'["main"].todo[i] = actor["main"].todo[i + 1]
     /\ \A i \in DOMAIN actor["main"].todo :
          i = 1 \/ (i - 1 \in DOMAIN actor'["main"].todo
                      /\ actor'["main"].todo[i - 1] = actor["main"].todo[i])
     /\ 1 \in DOMAIN actor["main"].todo /\ actor["main"].todo[1] = id
     /\ mDevicesById' = IF job = "detach" THEN Without({id}) ELSE mDevicesById
     /\ Enter("main", o, at)
     /\ UNCHANGED <<world, broadcasts, prefs, registered, objects, calls, process>>

LEMMA VisitFrame ==
  ASSUME Shape, Visit
  PROVE  VisitBegins
<1> DEFINE todo == actor["main"].todo  id == Head(todo)  o == mDevicesById[id]
           job == actor["main"].job  at == IF job = "permission" THEN "connect" ELSE "stop"
           r == [actor["main"] EXCEPT !.todo = Tail(todo), !.at = at, !.device = o]
<1>1. /\ actor \in [Actor -> Doing] /\ actor["main"] \in Doing
      /\ todo \in Seq(Nat) /\ todo \in Seq(Devices \cup Nat) /\ todo # <<>>
      /\ \A i \in DOMAIN todo : todo[i] \in DOMAIN mDevicesById
      /\ actor["main"].at = "next"
  BY DEF Visit, Shape, ActorShape, TodoShape, Actor, Doing
<1>2. job \in {"detach", "permission", "destroy"} /\ actor["main"].device = 0
  BY <1>1 DEF Shape, ActorShape, MainShape, InDevice, Reaches, DeviceAt, OpenAt, CloseAt, Idle
<1>3. Len(todo) \in Nat \ {0} /\ DOMAIN todo = 1..Len(todo) /\ id = todo[1] /\ 1 \in DOMAIN todo
  BY <1>1, EmptySeq, LenProperties
<1>4. id \in DOMAIN mDevicesById /\ o \in DOMAIN devices /\ o \in Nat
  <2>1. id \in DOMAIN mDevicesById
    <3> HIDE DEF id, todo
    <3> QED BY <1>1, <1>3
  <2>2. o \in DOMAIN devices
    BY <2>1 DEF Shape, TableTypes
  <2>3. DOMAIN devices = 1..Len(devices) /\ Len(devices) \in Nat
    BY DomainOfSeq DEF Shape, ObjectTypes
  <2> QED BY <2>1, <2>2, <2>3
<1>5. /\ Tail(todo) \in Seq(Nat) /\ Tail(todo) \in Seq(Devices \cup Nat)
      /\ Len(Tail(todo)) = Len(todo) - 1
      /\ \A i \in 1..Len(Tail(todo)) : Tail(todo)[i] = todo[i + 1]
  BY <1>1, HeadTailProperties
<1>6. DOMAIN Tail(todo) = 1..(Len(todo) - 1)
  BY <1>5, LenProperties
<1>7. /\ actor' = [actor EXCEPT !["main"] = r]
      /\ mDevicesById' = IF job = "detach" THEN Without({id}) ELSE mDevicesById
      /\ Enter("main", o, at)
      /\ UNCHANGED <<world, broadcasts, prefs, registered, objects, calls, process>>
  BY <1>1 DEF Visit, Actor
<1>8. r \in Doing /\ r.job = job /\ r.at = at /\ r.device = o /\ r.todo = Tail(todo)
  <2>1. at \in At
    BY DEF At
  <2> HIDE DEF at, o
  <2> QED BY <1>1, <1>4, <1>5, <2>1 DEF Doing
<1>9. actor' \in [Actor -> Doing] /\ actor'["main"] = r /\ actor'["sdl"] = actor["sdl"]
  <2> HIDE DEF r
  <2> QED BY <1>7, <1>8, ActorSet DEF Actor
<1>10. /\ \A i \in DOMAIN Tail(todo) :
            i + 1 \in DOMAIN todo /\ Tail(todo)[i] = todo[i + 1]
       /\ \A i \in DOMAIN todo :
            i = 1 \/ (i - 1 \in DOMAIN Tail(todo) /\ Tail(todo)[i - 1] = todo[i])
  <2> HIDE DEF todo
  <2> DEFINE rest == Tail(todo)
  <2>1. /\ Len(todo) \in Nat \ {0} /\ DOMAIN todo = 1..Len(todo) /\ DOMAIN rest = 1..(Len(todo) - 1)
        /\ \A i \in 1..(Len(todo) - 1) : rest[i] = todo[i + 1]
    BY <1>3, <1>5, <1>6
  <2> HIDE DEF rest
  <2>2. ASSUME NEW i \in DOMAIN rest PROVE i + 1 \in DOMAIN todo /\ rest[i] = todo[i + 1]
    BY <2>1
  <2>3. ASSUME NEW i \in DOMAIN todo, i # 1
        PROVE  i - 1 \in DOMAIN rest /\ rest[i - 1] = todo[i]
    <3>1. i - 1 \in 1..(Len(todo) - 1) /\ (i - 1) + 1 = i
      BY <2>1, <2>3
    <3>2. rest[i - 1] = todo[(i - 1) + 1]
      BY <2>1, <3>1
    <3> QED BY <2>1, <3>1, <3>2
  <2> QED BY <2>2, <2>3 DEF rest
<1>11. /\ actor'["main"].job = job /\ actor'["main"].at = at /\ actor'["main"].device = o
       /\ actor'["main"].todo = Tail(todo)
  <2> HIDE DEF r
  <2> QED BY <1>8, <1>9
<1>12. /\ actor'["main"].todo \in Seq(Nat)
       /\ \A i \in DOMAIN actor'["main"].todo :
            i + 1 \in DOMAIN todo /\ actor'["main"].todo[i] = todo[i + 1]
       /\ \A i \in DOMAIN todo :
            i = 1 \/ (i - 1 \in DOMAIN actor'["main"].todo
                        /\ actor'["main"].todo[i - 1] = todo[i])
  BY <1>5, <1>10, <1>11
<1> HIDE DEF r
<1> QED BY <1>1, <1>2, <1>3, <1>4, <1>7, <1>9, <1>11, <1>12 DEF VisitBegins

LEMMA VisitShape ==
  ASSUME Shape, Visit
  PROVE  Shape'
<1>1. VisitBegins
  BY VisitFrame
<1> DEFINE todo == actor["main"].todo  id == Head(todo)  o == mDevicesById[id]
           job == actor["main"].job  next == actor'["main"].todo
<1>2. /\ id \in DOMAIN mDevicesById /\ o \in DOMAIN devices
      /\ overlap' \subseteq overlap \cup {o}
      /\ UNCHANGED <<world, broadcasts, prefs, registered, objects, calls, process>>
      /\ actor' \in [Actor -> Doing] /\ actor'["sdl"] = actor["sdl"]
      /\ next \in Seq(Nat)
  BY <1>1 DEF VisitBegins, Enter
<1>3. WorldTypes'
  BY <1>2 DEF Shape, WorldTypes, world
<1>4. ObjectTypes' /\ SDLShape'
  BY <1>2, ObjectsUnchanged DEF Shape, ObjectTypes
<1>5. /\ DOMAIN mDevicesById' \subseteq DOMAIN mDevicesById
      /\ \A i \in DOMAIN mDevicesById : i # id => i \in DOMAIN mDevicesById'
      /\ \A i \in DOMAIN mDevicesById' : mDevicesById'[i] = mDevicesById[i]
      /\ job # "detach" => mDevicesById' = mDevicesById
  BY <1>1 DEF VisitBegins, Without
<1>6. TableTypes'
  <2>1. IsFiniteSet(DOMAIN mDevicesById')
    BY <1>5, FS_Subset DEF Shape, TableTypes
  <2> QED BY <1>2, <1>5, <2>1 DEF Shape, TableTypes, prefs, objects
<1>7. MainShape'
  BY <1>1, <1>2 DEF VisitBegins, MainShape, InDevice, Reaches, DeviceAt, OpenAt, CloseAt, objects
<1>8. /\ \A i \in DOMAIN todo : todo[i] \in DOMAIN mDevicesById
      /\ \A i, j \in DOMAIN todo : todo[i] = todo[j] => i = j
      /\ todo \in Seq(Nat) /\ next \in Seq(Nat)
      /\ 1 \in DOMAIN todo /\ todo[1] = id
      /\ \A i \in DOMAIN next : i + 1 \in DOMAIN todo /\ next[i] = todo[i + 1]
  BY <1>1 DEF VisitBegins, Shape, ActorShape, TodoShape
<1>9. \A i \in DOMAIN next : i \in Nat /\ i # 0
  BY <1>8, DomainOfSeq
<1>10. \A i \in DOMAIN next : next[i] \in DOMAIN mDevicesById'
  <2> SUFFICES ASSUME NEW i \in DOMAIN next PROVE next[i] \in DOMAIN mDevicesById'
    OBVIOUS
  <2>1. i + 1 \in DOMAIN todo /\ next[i] = todo[i + 1] /\ i + 1 # 1
    BY <1>8, <1>9
  <2> HIDE DEF todo, next, id
  <2> QED BY <1>5, <1>8, <2>1
<1>11. \A i, j \in DOMAIN next : next[i] = next[j] => i = j
  <2> SUFFICES ASSUME NEW i \in DOMAIN next, NEW j \in DOMAIN next, next[i] = next[j]
               PROVE  i = j
    OBVIOUS
  <2>1. i + 1 = j + 1 /\ i \in Nat /\ j \in Nat
    BY <1>8, <1>9
  <2> QED BY <2>1
<1>12. TodoShape'
  BY <1>2, <1>10, <1>11 DEF Shape, ActorShape, TodoShape
<1> QED BY <1>2, <1>3, <1>4, <1>6, <1>7, <1>12 DEF Shape, ActorShape

LEMMA VisitedFrame ==
  ASSUME Shape, Visited
  PROVE  /\ actor["main"].at = "next" /\ actor["main"].device = 0 /\ actor["main"].todo = <<>>
         /\ actor["main"].job \in {"detach", "permission", "destroy"}
         /\ actor' \in [Actor -> Doing] /\ actor'["main"] = Idle /\ actor'["sdl"] = actor["sdl"]
         /\ actor["main"].job # "destroy" => mDevicesById' = mDevicesById
         /\ actor["main"].job = "destroy" => mDevicesById' = <<>> /\ DOMAIN mDevicesById' = {}
         /\ UNCHANGED <<world, broadcasts, prefs, registered, objects, overlap, calls, process>>
<1>1. actor["main"].at = "next" /\ actor' = [actor EXCEPT !["main"] = Idle]
  BY DEF Visited
<1>2. actor["main"].job \in {"detach", "permission", "destroy"} /\ actor["main"].device = 0
  BY <1>1 DEF Shape, ActorShape, MainShape, InDevice, Reaches, DeviceAt, OpenAt, CloseAt, Idle
<1>3. actor' \in [Actor -> Doing] /\ actor'["main"] = Idle /\ actor'["sdl"] = actor["sdl"]
  BY <1>1, IdleIsDoing, ActorSet DEF Actor
<1> QED BY <1>1, <1>2, <1>3 DEF Visited

LEMMA VisitedShape ==
  ASSUME Shape, Visited
  PROVE  Shape'
<1>1. /\ actor' \in [Actor -> Doing] /\ actor'["main"] = Idle /\ actor'["sdl"] = actor["sdl"]
      /\ DOMAIN mDevicesById' = {} \/ mDevicesById' = mDevicesById
      /\ UNCHANGED <<world, broadcasts, prefs, registered, objects, overlap, calls, process>>
  BY VisitedFrame
<1>2. WorldTypes'
  BY <1>1 DEF Shape, WorldTypes, world
<1>3. ObjectTypes' /\ SDLShape'
  BY <1>1, ObjectsUnchanged DEF Shape, ObjectTypes
<1>4. TableTypes'
  BY <1>1, FS_EmptySet DEF Shape, TableTypes, prefs, objects
<1>5. Idle.todo = <<>> /\ <<>> \in Seq(Nat) /\ DOMAIN <<>> = {}
  BY EmptySeq DEF Idle
<1>6. MainShape' /\ TodoShape'
  BY <1>1, <1>5 DEF MainShape, TodoShape, Shape, ActorShape
<1> QED BY <1>1, <1>2, <1>3, <1>4, <1>6 DEF Shape, ActorShape

\* A device connects, in one of two ways.
Connects(d) ==
  \/ HandleUsbDeviceAttached(d)
  \/ Enumerate /\ actor["sdl"].todo # <<>> /\ d = Head(actor["sdl"].todo)

\* The steps that connect no device and restart no process.
Others ==
  \/ \E d \in Devices : Plug(d) \/ Unplug(d) \/ (\E g \in BOOLEAN : Answer(d, g))
                        \/ HandleUsbDeviceDetached(d) \/ HandleUsbDevicePermission(d)
  \/ Release \/ RegisterReceiver \/ ListDevices \/ (Enumerate /\ actor["sdl"].todo = <<>>)
  \/ OpenDevice \/ CloseDevice \/ Visit \/ Visited
  \/ (\E a \in Actor : DeviceStep(a)) \/ (\E t \in DOMAIN threads : InputThread(t))

LEMMA StepKinds ==
  ASSUME Shape, Next
  PROVE  Restart \/ Others \/ \E d \in Devices : Connects(d)
<1>1. ASSUME Enumerate, actor["sdl"].todo # <<>>
      PROVE  \E d \in Devices : Connects(d)
  <2>1. Head(actor["sdl"].todo) \in Devices
    BY <1>1, HeadTailProperties DEF Shape, ActorShape, TodoShape
  <2> QED BY <1>1, <2>1 DEF Connects
<1> QED BY <1>1 DEF Next, Handle, Initialize, Others, Connects

LEMMA ConnectsFrame ==
  ASSUME Shape, IdsInv, NEW d \in Devices, Connects(d)
  PROVE  /\ ConnectUSB(d) /\ Grows(d) /\ Enters(d) /\ Numbers(d)
         /\ UNCHANGED <<world, registered, connections, threads, overlap, calls, process>>
<1>1. ConnectUSB(d) /\ UNCHANGED <<world, registered, connections, threads, overlap, calls, process>>
  BY DEF Connects, HandleUsbDeviceAttached, Enumerate
<1> QED BY <1>1, ConnectUSBFrame

\* They keep the prefs, the interface and the id of each object and the entries of
\* the table, but for those they remove.
LEMMA OthersFrame ==
  ASSUME Shape, Others
  PROVE  /\ UNCHANGED prefs /\ DOMAIN devices' = DOMAIN devices
         /\ \A o \in DOMAIN devices : /\ devices'[o].of = devices[o].of
                                      /\ devices'[o].id = devices[o].id
         /\ DOMAIN mDevicesById' \subseteq DOMAIN mDevicesById
         /\ \A id \in DOMAIN mDevicesById' : mDevicesById'[id] = mDevicesById[id]
<1>1. CASE UNCHANGED <<prefs, devices, mDevicesById>>
  BY <1>1
<1>2. CASE Visit
  BY <1>2, VisitFrame DEF VisitBegins, Without, objects
<1>3. CASE Visited
  BY <1>3, VisitedFrame DEF objects
<1>4. ASSUME NEW a \in Actor, DeviceStep(a)
      PROVE  /\ UNCHANGED <<prefs, mDevicesById>> /\ DOMAIN devices' = DOMAIN devices
             /\ \A o \in DOMAIN devices : /\ devices'[o].of = devices[o].of
                                          /\ devices'[o].id = devices[o].id
  <2>1. Touches(a) /\ UNCHANGED <<prefs, mDevicesById>>
    BY <1>4, DeviceStepFrame DEF DeviceStep, DeviceSteps, Unshared
  <2> QED BY <2>1, DomainOfSeq DEF Touches, Shape, ObjectTypes
<1>5. ASSUME NEW t \in DOMAIN threads, InputThread(t)
      PROVE  UNCHANGED <<prefs, devices, mDevicesById>>
  BY <1>5, InputThreadFrame DEF ReaderMoves
<1>6. ASSUME NEW d \in Devices,
             Plug(d) \/ Unplug(d) \/ (\E g \in BOOLEAN : Answer(d, g))
             \/ HandleUsbDeviceDetached(d) \/ HandleUsbDevicePermission(d)
      PROVE  UNCHANGED <<prefs, devices, mDevicesById>>
  BY <1>6 DEF Plug, Unplug, Answer, HandleUsbDeviceDetached, HandleUsbDevicePermission,
              javaHeap, objects
<1>7. ASSUME \/ Release \/ RegisterReceiver \/ ListDevices \/ (Enumerate /\ actor["sdl"].todo = <<>>)
             \/ OpenDevice \/ CloseDevice
      PROVE  UNCHANGED <<prefs, devices, mDevicesById>>
  BY <1>7 DEF Release, RegisterReceiver, ListDevices, Enumerate, OpenDevice, CloseDevice,
              Call, objects
<1> QED BY <1>1, <1>2, <1>3, <1>4, <1>5, <1>6, <1>7 DEF Others

LEMMA NextShape ==
  ASSUME Shape, IdsInv, [Next]_vars
  PROVE  Shape'
<1>1. CASE UNCHANGED vars
  <2>1. UNCHANGED <<plugged, permitted, asked, ports, broadcasts, registered, calls, process,
                    prefs, mDevicesById, objects, actor, overlap>>
    BY <1>1 DEF vars, world, javaHeap
  <2>2. WorldTypes'
    BY <2>1 DEF Shape, WorldTypes
  <2> QED BY <2>1, <2>2, ActorKept DEF Shape
<1>2. CASE Next
  <2>1. ASSUME NEW d \in Devices, Plug(d) \/ Unplug(d) \/ (\E g \in BOOLEAN : Answer(d, g)) \/ Handle(d)
        PROVE  Shape'
    BY <2>1, WorldStepShape, HandleShape
  <2>2. CASE OpenDevice
    BY <2>2, CallShape DEF OpenDevice
  <2>3. CASE CloseDevice
    BY <2>3, CallShape DEF CloseDevice
  <2>4. CASE Restart \/ Release \/ Initialize \/ Visit \/ Visited
    BY <2>4, RestartShape, ReleaseShape, InitializeShape, VisitShape, VisitedShape
  <2> QED BY <1>2, <2>1, <2>2, <2>3, <2>4, DeviceStepShape, InputThreadShape DEF Next
<1> QED BY <1>1, <1>2

LEMMA InitShape ==
  ASSUME Init
  PROVE  Shape /\ IdsInv /\ TableInv
<1>1. DOMAIN devices = {} /\ DOMAIN mDevicesById = {}
  BY EmptySeq DEF Init
<1>2. ObjectTypes /\ TableTypes
  BY FreshObjects DEF Init
<1>3. ActorShape
  BY FreshActors DEF Init
<1>4. WorldTypes
  <2>1. <<>> \in Seq(Broadcast) /\ 0 \in 0..Budget
    BY EmptySeq, BoundsAssumption
  <2>2. plugged \in [Devices -> {"before", "in", "out"}]
    BY DEF Init
  <2>3. asked \in [Devices -> Nat] /\ \A d \in Devices : asked[d] <= calls
    BY DEF Init
  <2> QED BY <2>1, <2>2, <2>3 DEF Init, WorldTypes
<1>5. IdsInv
  BY <1>1 DEF Init, IdsInv
<1>6. TableInv
  BY <1>1 DEF TableInv
<1> QED BY <1>2, <1>3, <1>4, <1>5, <1>6 DEF Shape

\* What a new device's ids are in the prefs, and that they were in no other entry.
LEMMA ConnectsIds ==
  ASSUME Shape, IdsInv, NEW d \in Devices, Grows(d), Numbers(d)
  PROVE  IdsInv'
<1>1. /\ mNextDeviceId \in Nat /\ mNextDeviceId' \in Nat /\ mNextDeviceId <= mNextDeviceId'
      /\ mNextDeviceId' = mNextDeviceId + Cardinality(Unnumbered(d))
      /\ saved.id \in [Interface -> Nat] /\ saved'.id \in [Interface -> Nat]
  BY Ranks DEF Numbers, Shape, TableTypes
<1>2. \A p \in ports : /\ IdOf(d, p) \in Nat /\ IdOf(d, p) < mNextDeviceId'
                       /\ p \in Unnumbered(d) => IdOf(d, p) >= mNextDeviceId
                       /\ p \notin Unnumbered(d) =>
                            /\ IdOf(d, p) = saved.id[<<d, p>>]
                            /\ IdOf(d, p) # 0 /\ IdOf(d, p) < mNextDeviceId
  BY <1>1, IdsOfDevice
<1>3. \A p, q \in ports : IdOf(d, p) = IdOf(d, q) => p = q
  BY IdsOfDevice
<1>4. \A p \in ports : saved'.id[<<d, p>>] = IdOf(d, p) /\ <<d, p>> \in Interface
  BY PortsOf DEF Numbers, Shape
<1>5. \A i \in Interface : i \notin {d} \X ports => saved'.id[i] = saved.id[i]
  BY DEF Numbers
<1>6. \A i \in Interface : saved.id[i] = 0 \/ saved.id[i] < mNextDeviceId
  BY DEF IdsInv
<1>7. \A i \in {d} \X ports : \E p \in ports : i = <<d, p>>
  OBVIOUS
\* An id that was stored is kept.
<1>8. \A i \in Interface : saved.id[i] # 0 => saved'.id[i] = saved.id[i]
  <2> SUFFICES ASSUME NEW i \in Interface, saved.id[i] # 0 PROVE saved'.id[i] = saved.id[i]
    OBVIOUS
  <2>1. CASE i \in {d} \X ports
    <3>1. PICK p \in ports : i = <<d, p>>
      BY <1>7, <2>1
    <3>2. p \notin Unnumbered(d)
      BY <3>1 DEF Unnumbered
    <3> QED BY <1>2, <1>4, <3>1, <3>2
  <2> QED BY <1>5, <2>1
<1>9. \A i \in Interface : saved'.id[i] = 0 \/ saved'.id[i] < mNextDeviceId'
  <2> SUFFICES ASSUME NEW i \in Interface PROVE saved'.id[i] = 0 \/ saved'.id[i] < mNextDeviceId'
    OBVIOUS
  <2>1. CASE i \in {d} \X ports
    BY <1>2, <1>4, <1>7, <2>1
  <2>2. CASE i \notin {d} \X ports
    BY <1>1, <1>5, <1>6, <2>2
  <2> QED BY <2>1, <2>2
<1>10. ASSUME NEW i \in Interface, NEW p \in ports, saved'.id[i] = IdOf(d, p), IdOf(d, p) # 0
       PROVE  i = <<d, p>>
  <2>1. CASE i \in {d} \X ports
    BY <1>3, <1>4, <1>7, <1>10, <2>1
  <2>2. CASE i \notin {d} \X ports
    <3>1. saved.id[i] = IdOf(d, p) /\ IdOf(d, p) < mNextDeviceId
      BY <1>1, <1>5, <1>6, <1>10, <2>2
    <3>2. p \notin Unnumbered(d)
      <4>1. IdOf(d, p) \in Nat /\ (p \in Unnumbered(d) => IdOf(d, p) >= mNextDeviceId)
        BY <1>2
      <4> QED BY <1>1, <3>1, <4>1
    <3>3. saved.id[i] = saved.id[<<d, p>>] /\ saved.id[i] # 0 /\ <<d, p>> \in Interface
      BY <1>2, <1>4, <1>10, <3>1, <3>2
    <3> QED BY <3>3 DEF IdsInv
  <2> QED BY <2>1, <2>2
<1>11. ASSUME NEW i \in Interface, NEW j \in Interface, saved'.id[i] = saved'.id[j], saved'.id[i] # 0
       PROVE  i = j
  <2>1. CASE i \in {d} \X ports
    BY <1>4, <1>7, <1>10, <1>11, <2>1
  <2>2. CASE j \in {d} \X ports
    BY <1>4, <1>7, <1>10, <1>11, <2>2
  <2>3. CASE i \notin {d} \X ports /\ j \notin {d} \X ports
    BY <1>5, <1>11, <2>3 DEF IdsInv
  <2> QED BY <2>1, <2>2, <2>3
<1>12. ASSUME NEW o \in DOMAIN devices'
       PROVE  \/ o \in DOMAIN devices /\ devices'[o] = devices[o]
              \/ \E p \in ports : devices'[o].of = <<d, p>> /\ devices'[o].id = IdOf(d, p)
  <2>1. CASE o \in DOMAIN devices
    BY <2>1 DEF Grows
  <2>2. CASE o \notin DOMAIN devices
    <3>1. PICK p \in ports : devices'[o] = NewDevice(d, p)
      BY <2>2 DEF Grows
    <3>2. devices'[o].of = <<d, p>> /\ devices'[o].id = IdOf(d, p)
      BY <3>1, NewDeviceFields
    <3> QED BY <3>2
  <2> QED BY <2>1, <2>2
<1>13. \A o \in DOMAIN devices : /\ devices[o].id \in Nat /\ devices[o].id < mNextDeviceId
                                 /\ devices[o].of \in Interface
                                 /\ devices[o].id # 0 => saved.id[devices[o].of] = devices[o].id
  BY ObjectFields DEF Shape, IdsInv
<1>14. ASSUME NEW o \in DOMAIN devices'
       PROVE  /\ devices'[o].id < mNextDeviceId'
              /\ devices'[o].id # 0 => saved'.id[devices'[o].of] = devices'[o].id
  <2>1. CASE o \in DOMAIN devices /\ devices'[o] = devices[o]
    BY <1>1, <1>8, <1>13, <2>1
  <2>2. CASE \E p \in ports : devices'[o].of = <<d, p>> /\ devices'[o].id = IdOf(d, p)
    BY <1>2, <1>4, <2>2
  <2> QED BY <1>12, <2>1, <2>2
\* Only the first device of all has an object with id 0, and it has one.
<1>15. ASSUME NEW o \in DOMAIN devices, NEW p \in ports, IdOf(d, p) = 0
       PROVE  FALSE
  <2>1. mNextDeviceId = 0
    <3>1. p \in Unnumbered(d)
      BY <1>2, <1>15
    <3>2. 0 >= mNextDeviceId
      BY <1>2, <1>15, <3>1
    <3> QED BY <1>1, <3>2
  <2>2. devices[o].id \in Nat /\ devices[o].id < 0
    BY <1>13, <2>1
  <2> QED BY <2>2
<1>16. ASSUME NEW m \in DOMAIN devices', NEW n \in DOMAIN devices',
              devices'[m].id = 0, devices'[n].id = 0
       PROVE  devices'[m].of = devices'[n].of
  <2>1. CASE \E p \in ports : devices'[m].of = <<d, p>> /\ devices'[m].id = IdOf(d, p)
    <3>1. PICK p \in ports : devices'[m].of = <<d, p>> /\ IdOf(d, p) = 0
      BY <1>16, <2>1
    <3>2. PICK q \in ports : devices'[n].of = <<d, q>> /\ IdOf(d, q) = 0
      BY <1>12, <1>15, <1>16, <3>1
    <3> QED BY <1>3, <3>1, <3>2
  <2>2. CASE m \in DOMAIN devices /\ devices'[m] = devices[m]
    <3>1. n \in DOMAIN devices /\ devices'[n] = devices[n]
      BY <1>12, <1>15, <1>16, <2>2
    <3> QED BY <1>16, <2>2, <3>1 DEF IdsInv
  <2> QED BY <1>12, <2>1, <2>2
<1>17. saved'.next = mNextDeviceId'
  BY DEF Numbers
<1> QED BY <1>9, <1>11, <1>14, <1>16, <1>17 DEF IdsInv

LEMMA ConnectsTable ==
  ASSUME Shape, IdsInv, TableInv, NEW d \in Devices, Grows(d), Enters(d)
  PROVE  TableInv'
<1> SUFFICES ASSUME NEW id \in DOMAIN mDevicesById'
             PROVE  devices'[mDevicesById'[id]].id = id
  BY DEF TableInv
<1>1. CASE \E p \in ports : IdOf(d, p) = id
  <2>1. PICK p \in ports : IdOf(d, p) = id
    BY <1>1
  <2>2. devices'[mDevicesById'[id]] = NewDevice(d, p)
    BY <2>1 DEF Enters, Grows
  <2> QED BY <2>1, <2>2, NewDeviceFields
<1>2. CASE ~\E p \in ports : IdOf(d, p) = id
  <2>1. id \in DOMAIN mDevicesById /\ mDevicesById'[id] = mDevicesById[id]
    BY <1>2 DEF Enters
  <2> QED BY <2>1 DEF Grows, TableInv, Shape, TableTypes
<1> QED BY <1>1, <1>2

LEMMA NextIds ==
  ASSUME Shape, IdsInv, TableInv, [Next]_vars
  PROVE  IdsInv' /\ TableInv'
<1>1. CASE UNCHANGED vars
  BY <1>1 DEF vars, prefs, javaHeap, objects, IdsInv, TableInv
<1>2. CASE Others
  <2>1. /\ UNCHANGED prefs /\ DOMAIN devices' = DOMAIN devices
        /\ \A o \in DOMAIN devices : /\ devices'[o].of = devices[o].of
                                     /\ devices'[o].id = devices[o].id
        /\ DOMAIN mDevicesById' \subseteq DOMAIN mDevicesById
        /\ \A id \in DOMAIN mDevicesById' : mDevicesById'[id] = mDevicesById[id]
    BY <1>2, OthersFrame
  <2>2. saved' = saved /\ mNextDeviceId' = mNextDeviceId
    BY <2>1 DEF prefs
  <2>3. IdsInv'
    BY <2>1, <2>2 DEF IdsInv
  <2> QED BY <2>1, <2>3 DEF TableInv, Shape, TableTypes
<1>3. ASSUME NEW d \in Devices, Connects(d)
      PROVE  IdsInv' /\ TableInv'
  BY <1>3, ConnectsFrame, ConnectsIds, ConnectsTable
<1>4. CASE Restart
  <2>1. /\ DOMAIN devices' = {} /\ DOMAIN mDevicesById' = {} /\ mNextDeviceId' = saved.next
        /\ UNCHANGED saved
    BY <1>4, EmptySeq DEF Restart
  <2>2. IdsInv'
    BY <2>1 DEF IdsInv
  <2> QED BY <2>1, <2>2 DEF TableInv
<1> QED BY <1>1, <1>2, <1>3, <1>4, StepKinds

-----------------------------------------------------------------------------
\* The table's part of the inductive invariant.
LEMMA TableInductive == Spec => [](Shape /\ IdsInv /\ TableInv)
<1>1. Init => Shape /\ IdsInv /\ TableInv
  BY InitShape
<1>2. Shape /\ IdsInv /\ TableInv /\ [Next]_vars => (Shape /\ IdsInv /\ TableInv)'
  BY NextShape, NextIds
<1> QED BY <1>1, <1>2, PTL DEF Spec

LEMMA ShapeTypes ==
  ASSUME Shape
  PROVE  TypeOK
<1>1. \A d \in Devices : asked[d] \in 0..Budget
  BY BoundsAssumption DEF Shape, WorldTypes
<1>2. broadcasts \in Seq([kind : {"attached", "detached", "granted", "denied"}, of : Devices])
  BY DEF Shape, WorldTypes, Broadcast
<1>3. asked \in [Devices -> 0..Budget]
  BY <1>1 DEF Shape, WorldTypes
<1>4. ports \subseteq 1..MaxPorts
  <2>1. PICK n \in 1..MaxPorts : ports = 1..n
    BY DEF Shape, WorldTypes
  <2> QED BY <2>1, BoundsAssumption
<1>5. /\ devices \in Seq([of : Interface, id : Nat, mManager : BOOLEAN, mRunning : BOOLEAN,
                          mConnection : Nat, mInputThread : Nat])
      /\ connections \in Seq(BOOLEAN) /\ overlap \subseteq DOMAIN devices
      /\ threads \in Seq([of : Nat, at : {"new", "loop", "reading", "dead"}, on : Nat])
  BY DEF Shape, ObjectTypes, Object, Reader
<1>6. \A a \in Actor : actor[a].job \in Job /\ actor[a].at \in At
  BY DEF Shape, ActorShape, Doing
<1>7. saved.id \in [Interface -> Nat] /\ saved.next \in Nat /\ mNextDeviceId \in Nat
  BY DEF Shape, TableTypes
<1> QED BY <1>1, <1>2, <1>3, <1>4, <1>5, <1>6, <1>7 DEF TypeOK, Shape, WorldTypes, TableTypes

\* Every variable has its type, and every entry of the table is one of the objects.
THEOREM TypeCorrect == Spec => []TypeOK
BY TableInductive, ShapeTypes, PTL

\* No two interfaces ever have the same id, in the table or in the preferences,
\* across all restarts.
THEOREM IdsAreUnique == Spec => []IdsUnique
<1>1. ASSUME Shape, IdsInv
      PROVE  IdsUnique
  <2>1. ASSUME NEW m \in DOMAIN devices, NEW n \in DOMAIN devices, devices[m].id = devices[n].id
        PROVE  devices[m].of = devices[n].of
    <3>1. devices[m].of \in Interface /\ devices[n].of \in Interface
      BY <1>1, ObjectFields DEF Shape
    <3>2. CASE devices[m].id = 0
      BY <1>1, <2>1, <3>2 DEF IdsInv
    <3>3. CASE devices[m].id # 0
      BY <1>1, <2>1, <3>1, <3>3 DEF IdsInv
    <3> QED BY <3>2, <3>3
  <2> QED BY <1>1, <2>1 DEF IdsUnique, IdsInv
<1> QED BY <1>1, TableInductive, PTL

-----------------------------------------------------------------------------
(***************************************************************************)
(* No attached device is overlooked.                                       *)
(***************************************************************************)

Announced(d)  == Message("attached", d) \in Pending
Listed(d)     == \A p \in ports : \E id \in DOMAIN mDevicesById :
                   devices[mDevicesById[id]].of = <<d, p>>
Enumerated(d) == /\ actor["sdl"].at = "enumerate"
                 /\ \E i \in DOMAIN actor["sdl"].todo : actor["sdl"].todo[i] = d
Accounted(d)  == Announced(d) \/ Listed(d) \/ Enumerated(d)
UsbOf(id)     == devices[mDevicesById[id]].of[1]

\* While the manager is not released, it is told of each device that comes, and
\* the entries that a detach is about to remove are of devices that are gone.
DetachedAreOut == \A d \in Devices : Message("detached", d) \in Pending => plugged[d] = "out"
Receiving      == actor["sdl"].at # "register" => registered
Removing       == actor["main"].job = "detach" => \A i \in DOMAIN actor["main"].todo :
                    plugged[UsbOf(actor["main"].todo[i])] = "out"
AllAccounted   == actor["sdl"].at \notin {"register", "list"} =>
                    \A d \in Devices : plugged[d] = "in" => Accounted(d)
ListedInv ==
  /\ DetachedAreOut
  /\ process = "running" =>
       Receiving /\ actor["main"].job # "destroy" /\ Removing /\ AllAccounted

\* An entry that a connecting device takes over was an entry of the same interface.
LEMMA EntriesKept ==
  ASSUME Shape, IdsInv, TableInv, NEW d \in Devices, Grows(d), Enters(d), Numbers(d)
  PROVE  \A id \in DOMAIN mDevicesById : /\ id \in DOMAIN mDevicesById'
                                         /\ devices'[mDevicesById'[id]].of = devices[mDevicesById[id]].of
<1> SUFFICES ASSUME NEW id \in DOMAIN mDevicesById
             PROVE  /\ id \in DOMAIN mDevicesById'
                    /\ devices'[mDevicesById'[id]].of = devices[mDevicesById[id]].of
  OBVIOUS
<1>1. id \in DOMAIN mDevicesById'
  BY DEF Enters
<1> DEFINE o == mDevicesById[id]
<1>2. o \in DOMAIN devices /\ devices[o].id = id /\ devices'[o] = devices[o]
  BY DEF Shape, TableTypes, TableInv, Grows
<1>3. CASE \E p \in ports : IdOf(d, p) = id
  <2>1. PICK p \in ports : IdOf(d, p) = id
    BY <1>3
  <2>2. mDevicesById'[id] = Len(devices) + p /\ devices'[mDevicesById'[id]] = NewDevice(d, p)
    BY <2>1 DEF Enters, Grows
  <2>3. devices'[mDevicesById'[id]].of = <<d, p>>
    BY <2>2, NewDeviceFields
  <2>4. /\ id \in Nat /\ id < mNextDeviceId /\ mNextDeviceId \in Nat
        /\ (id # 0 => saved.id[devices[o].of] = id)
        /\ devices[o].of \in Interface /\ <<d, p>> \in Interface
    BY <1>2, ObjectFields, PortsOf DEF IdsInv, Shape, TableTypes
  <2>5. p \notin Unnumbered(d)
    <3>1. p \in Unnumbered(d) => id >= mNextDeviceId
      BY <2>1, IdsOfDevice
    <3> QED BY <2>4, <3>1
  <2>6. id # 0 /\ saved.id[<<d, p>>] = id
    BY <2>1, <2>5, IdsOfDevice
  <2>7. devices[o].of = <<d, p>>
    BY <2>4, <2>6 DEF IdsInv
  <2> QED BY <1>1, <2>3, <2>7
<1>4. CASE ~\E p \in ports : IdOf(d, p) = id
  BY <1>1, <1>2, <1>4 DEF Enters
<1> QED BY <1>3, <1>4

LEMMA ConnectedIsListed ==
  ASSUME Shape, IdsInv, TableInv, NEW d \in Devices, Connects(d)
  PROVE  /\ Listed(d)' /\ \A e \in Devices : Listed(e) => Listed(e)'
         /\ \A id \in DOMAIN mDevicesById : id \in DOMAIN mDevicesById' /\ UsbOf(id)' = UsbOf(id)
<1>1. Grows(d) /\ Enters(d) /\ Numbers(d) /\ ports' = ports
  BY ConnectsFrame DEF world
<1>2. \A id \in DOMAIN mDevicesById : /\ id \in DOMAIN mDevicesById'
                                      /\ devices'[mDevicesById'[id]].of = devices[mDevicesById[id]].of
  BY <1>1, EntriesKept
<1>3. ASSUME NEW p \in ports
      PROVE  \E id \in DOMAIN mDevicesById' : devices'[mDevicesById'[id]].of = <<d, p>>
  <2>1. IdOf(d, p) \in DOMAIN mDevicesById'
        /\ devices'[mDevicesById'[IdOf(d, p)]] = NewDevice(d, p)
    BY <1>1 DEF Enters, Grows
  <2> QED BY <2>1, NewDeviceFields
<1>4. Listed(d)'
  BY <1>1, <1>3 DEF Listed
<1>5. \A e \in Devices : Listed(e) => Listed(e)'
  BY <1>1, <1>2 DEF Listed
<1> QED BY <1>2, <1>4, <1>5 DEF UsbOf

LEMMA PendingKinds ==
  ASSUME NEW j, NEW k, NEW d, NEW e
  PROVE  Message(j, d) = Message(k, e) => j = k /\ d = e
BY DEF Message

LEMMA SDLAt ==
  ASSUME Shape
  PROVE  /\ actor["sdl"].job # "initialize" =>
              actor["sdl"].at \notin {"register", "list", "enumerate"}
         /\ actor["sdl"].job = "initialize" => actor["sdl"].at \in {"register", "list", "enumerate"}
BY DEF Shape, ActorShape, SDLShape, InDevice, Reaches, DeviceAt, OpenAt, CloseAt, Idle

\* Steps that change neither cables nor broadcasts nor the table.
LEMMA ListedKept ==
  ASSUME Shape, ListedInv, UNCHANGED <<plugged, broadcasts, ports, registered>>,
         process' = "running" => process = "running",
         \/ actor'["sdl"].at = actor["sdl"].at /\ actor'["sdl"].todo = actor["sdl"].todo
         \/ {actor["sdl"].at, actor'["sdl"].at} \cap {"register", "list", "enumerate"} = {},
         actor'["main"].job \in {actor["main"].job, "none"},
         \A i \in DOMAIN actor'["main"].todo : \E j \in DOMAIN actor["main"].todo :
            actor'["main"].todo[i] = actor["main"].todo[j],
         DOMAIN devices' = DOMAIN devices,
         \A o \in DOMAIN devices : devices'[o].of = devices[o].of,
         mDevicesById' = mDevicesById
  PROVE  ListedInv'
<1>1. Pending' = Pending
  BY DEF Pending
<1>2. \A id \in DOMAIN mDevicesById : devices'[mDevicesById'[id]].of = devices[mDevicesById[id]].of
  BY DEF Shape, TableTypes
<1>3. \A d \in Devices : (Listed(d) => Listed(d)') /\ (Announced(d) => Announced(d)')
  BY <1>1, <1>2 DEF Listed, Announced
<1>4. DetachedAreOut'
  BY <1>1 DEF ListedInv, DetachedAreOut, Message
<1>5. ASSUME process' = "running"
      PROVE  Receiving' /\ actor'["main"].job # "destroy" /\ Removing' /\ AllAccounted'
  <2>1. Receiving /\ actor["main"].job # "destroy" /\ Removing /\ AllAccounted
    BY <1>5 DEF ListedInv
  <2>2. Receiving'
    BY <2>1 DEF Receiving
  <2>3. Removing'
    <3> SUFFICES ASSUME actor'["main"].job = "detach", NEW i \in DOMAIN actor'["main"].todo
                 PROVE  plugged'[devices'[mDevicesById'[actor'["main"].todo[i]]].of[1]] = "out"
      BY DEF Removing, UsbOf
    <3>1. PICK j \in DOMAIN actor["main"].todo : actor'["main"].todo[i] = actor["main"].todo[j]
      OBVIOUS
    <3>2. actor["main"].todo[j] \in DOMAIN mDevicesById /\ plugged[UsbOf(actor["main"].todo[j])] = "out"
      BY <2>1 DEF Removing, Shape, ActorShape, TodoShape
    <3>3. devices'[mDevicesById'[actor'["main"].todo[i]]].of = devices[mDevicesById[actor["main"].todo[j]]].of
      BY <1>2, <3>1, <3>2
    <3> QED BY <3>2, <3>3 DEF UsbOf
  <2>4. AllAccounted'
    <3> SUFFICES ASSUME actor'["sdl"].at \notin {"register", "list"}, NEW d \in Devices,
                        plugged[d] = "in"
                 PROVE  Accounted(d)'
      BY DEF AllAccounted
    <3>1. Accounted(d)
      BY <2>1 DEF AllAccounted
    <3>2. Enumerated(d) => Enumerated(d)'
      BY DEF Enumerated
    <3> QED BY <1>3, <3>1, <3>2 DEF Accounted
  <2> QED BY <2>1, <2>2, <2>3, <2>4
<1> QED BY <1>4, <1>5 DEF ListedInv

\* A cable or an answer: broadcasts may come, none goes.
LEMMA WorldStepListed ==
  ASSUME Shape, ListedInv, NEW d \in Devices,
         Plug(d) \/ Unplug(d) \/ (\E g \in BOOLEAN : Answer(d, g))
  PROVE  ListedInv'
<1>1. UNCHANGED <<ports, registered, mDevicesById, devices, actor, process>>
  BY DEF Plug, Unplug, Answer, javaHeap, objects
<1>2. /\ Pending \subseteq Pending'
      /\ Plug(d) => /\ Pending' \subseteq Pending \cup {Message("attached", d)}
                    /\ registered => Message("attached", d) \in Pending'
      /\ Unplug(d) => Pending' \subseteq Pending \cup {Message("detached", d)}
      /\ (\E g \in BOOLEAN : Answer(d, g)) =>
           \E k \in {"granted", "denied"} : Pending' \subseteq Pending \cup {Message(k, d)}
  BY SendFrame DEF Plug, Unplug, Answer
<1>3. /\ plugged \in [Devices -> {"before", "in", "out"}]
      /\ \A e \in Devices : e # d => plugged'[e] = plugged[e]
      /\ Plug(d) => plugged[d] = "before" /\ plugged'[d] = "in"
      /\ Unplug(d) => plugged'[d] = "out"
      /\ (\E g \in BOOLEAN : Answer(d, g)) => plugged' = plugged
  BY DEF Plug, Unplug, Answer, Shape, WorldTypes
<1>4. \A e \in Devices : plugged[e] = "out" => plugged'[e] = "out"
  BY <1>3 DEF Unplug
<1>5. DetachedAreOut'
  <2> SUFFICES ASSUME NEW e \in Devices, Message("detached", e) \in Pending'
               PROVE  plugged'[e] = "out"
    BY DEF DetachedAreOut, Message
  <2>1. CASE Message("detached", e) \in Pending
    BY <1>4, <2>1 DEF ListedInv, DetachedAreOut
  <2>2. CASE Unplug(d) /\ Message("detached", e) = Message("detached", d)
    BY <1>3, <2>2, PendingKinds
  <2> QED BY <1>2, <2>1, <2>2, PendingKinds
<1>6. \A e \in Devices : (Listed(e) => Listed(e)') /\ (Announced(e) => Announced(e)')
                          /\ (Enumerated(e) => Enumerated(e)')
  BY <1>1, <1>2 DEF Listed, Announced, Enumerated, Message
<1>7. ASSUME process' = "running"
      PROVE  Receiving' /\ actor'["main"].job # "destroy" /\ Removing' /\ AllAccounted'
  <2>1. Receiving /\ actor["main"].job # "destroy" /\ Removing /\ AllAccounted
    BY <1>1, <1>7 DEF ListedInv
  <2>2. Receiving' /\ actor'["main"].job # "destroy"
    BY <1>1, <2>1 DEF Receiving
  <2>3. Removing'
    <3> SUFFICES ASSUME actor["main"].job = "detach", NEW i \in DOMAIN actor["main"].todo
                 PROVE  plugged'[devices[mDevicesById[actor["main"].todo[i]]].of[1]] = "out"
      BY <1>1 DEF Removing, UsbOf
    <3>1. plugged[UsbOf(actor["main"].todo[i])] = "out"
      BY <2>1 DEF Removing
    <3>2. UsbOf(actor["main"].todo[i]) \in Devices
      <4>1. mDevicesById[actor["main"].todo[i]] \in DOMAIN devices
        BY DEF Shape, TableTypes, ActorShape, TodoShape
      <4>2. devices[mDevicesById[actor["main"].todo[i]]].of \in Interface
        BY <4>1, ObjectFields DEF Shape
      <4> QED BY <4>2 DEF UsbOf, Interface
    <3> QED BY <1>4, <3>1, <3>2 DEF UsbOf
  <2>4. AllAccounted'
    <3> SUFFICES ASSUME actor["sdl"].at \notin {"register", "list"}, NEW e \in Devices,
                        plugged'[e] = "in"
                 PROVE  Accounted(e)'
      BY <1>1 DEF AllAccounted
    <3>1. CASE plugged[e] = "in"
      BY <1>6, <2>1, <3>1 DEF AllAccounted, Accounted
    <3>2. CASE plugged[e] # "in"
      <4>1. Plug(d) /\ e = d /\ registered
        BY <1>3, <2>1, <3>2 DEF Receiving
      <4> QED BY <1>2, <4>1 DEF Accounted, Announced, Message
    <3> QED BY <3>1, <3>2
  <2> QED BY <2>2, <2>3, <2>4
<1> QED BY <1>5, <1>7 DEF ListedInv

\* A detach or a permission is received.
LEMMA HandleListed ==
  ASSUME Shape, ListedInv, NEW d \in Devices,
         HandleUsbDeviceDetached(d) \/ HandleUsbDevicePermission(d)
  PROVE  ListedInv'
<1>1. /\ UNCHANGED <<plugged, ports, registered, mDevicesById, devices>>
      /\ actor["main"].job = "none"
      /\ \/ Receives("detached", d) /\ process' = "crashed"
         \/ Receives("detached", d) /\ VisitAll("detach", IdsOf(d)) /\ process' = process
         \/ Receives("granted", d) /\ VisitAll("permission", IdsOf(d)) /\ process' = process
         \/ Receives("denied", d) /\ actor' = actor /\ process' = process
  BY DEF HandleUsbDeviceDetached, HandleUsbDevicePermission, Receives, world, objects
<1>2. PICK k \in {"detached", "granted", "denied"} : Receives(k, d)
  BY <1>1
<1>3. Pending' \subseteq Pending /\ Pending \subseteq Pending' \cup {Message(k, d)}
  BY <1>2, ReceivesFrame
<1>4. DetachedAreOut'
  BY <1>1, <1>3 DEF ListedInv, DetachedAreOut, Message
<1>5. \A e \in Devices : (Listed(e) => Listed(e)') /\ (Announced(e) => Announced(e)')
  <2>1. \A e \in Devices : Announced(e) => Message("attached", e) \in Pending'
    BY <1>3, PendingKinds DEF Announced
  <2> QED BY <1>1, <2>1 DEF Listed, Announced, Message
<1>6. IdsOf(d) \in SUBSET DOMAIN mDevicesById
  BY IdsOfDeviceInTable
<1>7. ASSUME process' = "running"
      PROVE  Receiving' /\ actor'["main"].job # "destroy" /\ Removing' /\ AllAccounted'
  <2>1. process = "running" /\ Receiving /\ AllAccounted
    BY <1>1, <1>7 DEF ListedInv
  <2>2. CASE Receives("detached", d) /\ VisitAll("detach", IdsOf(d))
    <3>1. /\ actor'["sdl"] = actor["sdl"] /\ actor'["main"].job = "detach"
          /\ \A i \in DOMAIN actor'["main"].todo : actor'["main"].todo[i] \in IdsOf(d)
      BY <1>6, <2>2, VisitAllFrame
    <3>2. plugged[d] = "out"
      BY <2>2, ReceivesFrame DEF ListedInv, DetachedAreOut
    <3>3. Removing'
      BY <1>1, <3>1, <3>2 DEF Removing, UsbOf, IdsOf
    <3> QED BY <1>1, <1>5, <2>1, <3>1, <3>3 DEF Receiving, AllAccounted, Accounted, Enumerated
  <2>3. CASE Receives("granted", d) /\ VisitAll("permission", IdsOf(d))
    <3>1. actor'["sdl"] = actor["sdl"] /\ actor'["main"].job = "permission"
      BY <1>6, <2>3, VisitAllFrame
    <3> QED BY <1>1, <1>5, <2>1, <3>1 DEF Removing, Receiving, AllAccounted, Accounted, Enumerated
  <2>4. CASE actor' = actor
    BY <1>1, <1>5, <2>1, <2>4 DEF Removing, Receiving, AllAccounted, Accounted, Enumerated
  <2> QED BY <1>1, <1>7, <2>2, <2>3, <2>4
<1> QED BY <1>4, <1>7 DEF ListedInv

\* A device connects.
LEMMA ConnectsListed ==
  ASSUME Shape, IdsInv, TableInv, ListedInv, NEW d \in Devices, Connects(d)
  PROVE  ListedInv'
<1>1. /\ Listed(d)' /\ \A e \in Devices : Listed(e) => Listed(e)'
      /\ \A id \in DOMAIN mDevicesById : id \in DOMAIN mDevicesById' /\ UsbOf(id)' = UsbOf(id)
      /\ UNCHANGED <<plugged, ports, registered, process>>
  BY ConnectedIsListed, ConnectsFrame DEF world
<1>2. /\ Pending' \subseteq Pending
      /\ \A e \in Devices : e # d /\ Announced(e) => Message("attached", e) \in Pending'
  <2>1. CASE HandleUsbDeviceAttached(d)
    <3>1. Pending' \subseteq Pending /\ Pending \subseteq Pending' \cup {Message("attached", d)}
      BY <2>1, ReceivesFrame DEF HandleUsbDeviceAttached
    <3> QED BY <3>1, PendingKinds DEF Announced
  <2>2. CASE Enumerate
    <3>1. Pending' = Pending
      BY <2>2 DEF Enumerate, Pending
    <3> QED BY <3>1 DEF Announced
  <2> QED BY <2>1, <2>2 DEF Connects
<1>3. /\ actor'["main"] = actor["main"] /\ actor'["sdl"].at = actor["sdl"].at
      /\ \A e \in Devices : e # d /\ Enumerated(e) => Enumerated(e)'
  <2>1. CASE HandleUsbDeviceAttached(d)
    BY <2>1 DEF HandleUsbDeviceAttached, Enumerated
  <2>2. CASE Enumerate /\ actor["sdl"].todo # <<>> /\ d = Head(actor["sdl"].todo)
    <3> DEFINE todo == actor["sdl"].todo
    <3>1. /\ actor \in [Actor -> Doing] /\ actor["sdl"] \in Doing /\ todo \in Seq(Devices)
      BY DEF Shape, ActorShape, TodoShape, Actor
    <3>2. /\ actor' = [actor EXCEPT !["sdl"].todo = Tail(todo)] /\ actor["sdl"].at = "enumerate"
      BY <2>2 DEF Enumerate
    <3>3. /\ actor'["main"] = actor["main"] /\ actor'["sdl"].at = actor["sdl"].at
          /\ actor'["sdl"].todo = Tail(todo)
      BY <3>1, <3>2 DEF Actor, Doing
    <3>4. Len(todo) \in Nat \ {0} /\ DOMAIN todo = 1..Len(todo) /\ todo[1] = d
      BY <2>2, <3>1, EmptySeq, LenProperties
    <3>5. /\ Tail(todo) \in Seq(Devices) /\ Len(Tail(todo)) = Len(todo) - 1
          /\ \A i \in 1..Len(Tail(todo)) : Tail(todo)[i] = todo[i + 1]
      BY <2>2, <3>1, HeadTailProperties
    <3>6. DOMAIN Tail(todo) = 1..(Len(todo) - 1)
      BY <3>5, LenProperties
    <3>7. ASSUME NEW e \in Devices, e # d, NEW i \in DOMAIN todo, todo[i] = e
          PROVE  \E j \in DOMAIN Tail(todo) : Tail(todo)[j] = e
      <4> HIDE DEF todo
      <4>1. i \in 1..Len(todo) /\ i # 1
        BY <3>4, <3>7
      <4>2. i - 1 \in 1..(Len(todo) - 1) /\ (i - 1) + 1 = i
        BY <3>4, <4>1
      <4>3. Tail(todo)[i - 1] = todo[i]
        BY <3>4, <3>5, <4>2
      <4> QED BY <3>6, <3>7, <4>2, <4>3
    <3> QED BY <3>2, <3>3, <3>7 DEF Enumerated
  <2> QED BY <2>1, <2>2 DEF Connects
<1>4. DetachedAreOut'
  BY <1>1, <1>2 DEF ListedInv, DetachedAreOut, Message
<1>5. ASSUME process' = "running"
      PROVE  Receiving' /\ actor'["main"].job # "destroy" /\ Removing' /\ AllAccounted'
  <2>1. Receiving /\ actor["main"].job # "destroy" /\ Removing /\ AllAccounted
    BY <1>1, <1>5 DEF ListedInv
  <2>2. Receiving' /\ actor'["main"].job # "destroy"
    BY <1>1, <1>3, <2>1 DEF Receiving
  <2>3. Removing'
    <3> SUFFICES ASSUME actor["main"].job = "detach", NEW i \in DOMAIN actor["main"].todo
                 PROVE  plugged[devices'[mDevicesById'[actor["main"].todo[i]]].of[1]] = "out"
      BY <1>1, <1>3 DEF Removing, UsbOf
    <3>1. /\ plugged[UsbOf(actor["main"].todo[i])] = "out"
          /\ actor["main"].todo[i] \in DOMAIN mDevicesById
      BY <2>1 DEF Removing, Shape, ActorShape, TodoShape
    <3>2. \A id \in DOMAIN mDevicesById : devices'[mDevicesById'[id]].of[1] = devices[mDevicesById[id]].of[1]
      BY <1>1 DEF UsbOf
    <3> QED BY <3>1, <3>2 DEF UsbOf
  <2>4. AllAccounted'
    <3> SUFFICES ASSUME actor["sdl"].at \notin {"register", "list"}, NEW e \in Devices,
                        plugged[e] = "in"
                 PROVE  Accounted(e)'
      BY <1>1, <1>3 DEF AllAccounted
    <3>1. CASE e = d
      BY <1>1, <3>1 DEF Accounted
    <3>2. CASE e # d
      <4>1. Accounted(e)
        BY <2>1 DEF AllAccounted
      <4>2. Announced(e) => Announced(e)'
        BY <1>2, <3>2 DEF Announced, Message
      <4> QED BY <1>1, <1>3, <3>2, <4>1, <4>2 DEF Accounted
    <3> QED BY <3>1, <3>2
  <2> QED BY <2>2, <2>3, <2>4
<1> QED BY <1>4, <1>5 DEF ListedInv

\* initialize(): it registers the receiver before it lists the devices.
LEMMA InitializeListed ==
  ASSUME Shape, ListedInv,
         RegisterReceiver \/ ListDevices \/ (Enumerate /\ actor["sdl"].todo = <<>>)
  PROVE  ListedInv'
<1>1. /\ UNCHANGED <<plugged, ports, broadcasts, mDevicesById, devices, process>>
      /\ Initialize
  BY DEF RegisterReceiver, ListDevices, Enumerate, world, objects, Initialize
<1>2. Pending' = Pending
  BY <1>1 DEF Pending
<1>3. actor'["main"] = actor["main"] /\ actor["sdl"] \in Doing /\ actor \in [Actor -> Doing]
  BY <1>1, InitializeFrame DEF Shape, ActorShape, Actor
<1>4. DetachedAreOut'
  BY <1>1, <1>2 DEF ListedInv, DetachedAreOut, Message
<1>5. ASSUME process' = "running"
      PROVE  Receiving' /\ actor'["main"].job # "destroy" /\ Removing' /\ AllAccounted'
  <2>1. Receiving /\ actor["main"].job # "destroy" /\ Removing /\ AllAccounted
    BY <1>1, <1>5 DEF ListedInv
  <2>2. Removing'
    BY <1>1, <1>3, <2>1 DEF Removing, UsbOf
  <2>3. \A e \in Devices : (Listed(e) => Listed(e)') /\ (Announced(e) => Announced(e)')
    BY <1>1, <1>2 DEF Listed, Announced, Message
  <2>4. CASE RegisterReceiver
    <3>1. actor'["sdl"].at = "list" /\ registered' = TRUE
      BY <1>3, <2>4 DEF RegisterReceiver, Actor, Doing
    <3> QED BY <1>3, <2>1, <2>2, <3>1 DEF Receiving, AllAccounted
  <2>5. CASE ListDevices
    <3> DEFINE S == {d \in Devices : plugged[d] = "in"}
    <3>1. /\ actor'["sdl"].at = "enumerate" /\ actor'["sdl"].todo = SetToSeq(S)
          /\ registered' = registered /\ actor["sdl"].at = "list"
      BY <1>3, <2>5 DEF ListDevices, Actor, Doing
    <3>2. \A x \in S : \E i \in DOMAIN SetToSeq(S) : SetToSeq(S)[i] = x
      <4>1. IsFiniteSet(S)
        BY DevicesAssumption, FS_Subset
      <4> QED BY <4>1, Listing
    <3>3. AllAccounted'
      BY <1>1, <3>1, <3>2 DEF AllAccounted, Accounted, Enumerated
    <3> QED BY <1>3, <2>1, <2>2, <3>1, <3>3 DEF Receiving
  <2>6. CASE Enumerate /\ actor["sdl"].todo = <<>>
    <3>1. /\ actor'["sdl"] = Idle /\ actor["sdl"].at = "enumerate" /\ registered' = registered
      BY <1>3, <2>6 DEF Enumerate, Actor
    <3>2. \A e \in Devices : ~Enumerated(e)
      BY <2>6, EmptySeq DEF Enumerated
    <3>3. AllAccounted'
      BY <1>1, <2>1, <2>3, <3>1, <3>2 DEF AllAccounted, Accounted
    <3> QED BY <1>3, <2>1, <2>2, <3>1, <3>3 DEF Receiving
  <2> QED BY <2>4, <2>5, <2>6
<1> QED BY <1>4, <1>5 DEF ListedInv

LEMMA CallListed ==
  ASSUME Shape, ListedInv, OpenDevice \/ CloseDevice
  PROVE  ListedInv'
<1>1. PICK job \in {"open", "close"}, at \in {"connect", "stop"} : Call(job, at)
  BY DEF OpenDevice, CloseDevice
<1>2. /\ actor["sdl"] = Idle
      /\ UNCHANGED <<plugged, ports, broadcasts, registered, mDevicesById, objects, process>>
      /\ CallBegins(job, at) \/ UNCHANGED actor
  BY <1>1, CallFrame
<1>3. actor'["main"] = actor["main"]
  BY <1>2 DEF CallBegins
<1>4. \/ actor'["sdl"].at = actor["sdl"].at /\ actor'["sdl"].todo = actor["sdl"].todo
      \/ {actor["sdl"].at, actor'["sdl"].at} \cap {"register", "list", "enumerate"} = {}
  BY <1>2 DEF CallBegins, Idle
<1> QED BY <1>2, <1>3, <1>4, ListedKept DEF objects

LEMMA VisitedListed ==
  ASSUME Shape, ListedInv, Visited
  PROVE  ListedInv'
<1>1. /\ actor["main"].job \in {"detach", "permission", "destroy"}
      /\ actor'["main"] = Idle /\ actor'["sdl"] = actor["sdl"]
      /\ actor["main"].job # "destroy" => mDevicesById' = mDevicesById
      /\ UNCHANGED <<world, broadcasts, prefs, registered, objects, overlap, calls, process>>
  BY VisitedFrame
<1>2. Idle.job = "none" /\ DOMAIN Idle.todo = {}
  BY EmptySeq DEF Idle
<1>3. CASE actor["main"].job = "destroy"
  <2>1. process # "running"
    BY <1>3 DEF ListedInv
  <2>2. DetachedAreOut'
    BY <1>1 DEF world, ListedInv, DetachedAreOut, Pending, Message
  <2> QED BY <1>1, <2>1, <2>2 DEF ListedInv
<1>4. CASE actor["main"].job # "destroy"
  BY <1>1, <1>2, <1>4, ListedKept DEF world, objects
<1> QED BY <1>3, <1>4

LEMMA VisitListed ==
  ASSUME Shape, TableInv, ListedInv, Visit
  PROVE  ListedInv'
<1> DEFINE todo == actor["main"].todo  id == Head(todo)
           job == actor["main"].job  next == actor'["main"].todo
<1>1. /\ VisitBegins /\ todo \in Seq(Nat) /\ Shape'
      /\ \A i \in DOMAIN todo : todo[i] \in DOMAIN mDevicesById
  BY VisitFrame, VisitShape DEF Shape, ActorShape, TodoShape
<1>2. /\ actor'["sdl"] = actor["sdl"] /\ actor'["main"].job = job
      /\ \A i \in DOMAIN next : i + 1 \in DOMAIN todo /\ next[i] = todo[i + 1]
      /\ 1 \in DOMAIN todo /\ todo[1] = id
      /\ mDevicesById' = IF job = "detach" THEN Without({id}) ELSE mDevicesById
      /\ UNCHANGED <<plugged, ports, broadcasts, registered, devices, process>>
  BY <1>1 DEF VisitBegins, world, objects
<1>3. CASE job # "detach"
  BY <1>2, <1>3, ListedKept
<1>4. CASE job = "detach"
  <2>1. /\ DOMAIN mDevicesById' = DOMAIN mDevicesById \ {id}
        /\ \A i \in DOMAIN mDevicesById : i # id => mDevicesById'[i] = mDevicesById[i]
    BY <1>2, <1>4 DEF Without
  <2>2. Pending' = Pending
    BY <1>2 DEF Pending
  <2>3. DetachedAreOut'
    BY <1>2, <2>2 DEF ListedInv, DetachedAreOut, Message
  <2>4. ASSUME process' = "running"
        PROVE  Receiving' /\ actor'["main"].job # "destroy" /\ Removing' /\ AllAccounted'
    <3>1. Receiving /\ actor["main"].job # "destroy" /\ Removing /\ AllAccounted
      BY <1>2, <2>4 DEF ListedInv
    <3>2. plugged[UsbOf(id)] = "out"
      BY <1>2, <1>4, <3>1 DEF Removing
    <3>3. ASSUME NEW e \in Devices, plugged[e] = "in", Listed(e)
          PROVE  Listed(e)'
      <4> SUFFICES ASSUME NEW p \in ports
                   PROVE  \E n \in DOMAIN mDevicesById' : devices[mDevicesById'[n]].of = <<e, p>>
        BY <1>2 DEF Listed
      <4>1. PICK n \in DOMAIN mDevicesById : devices[mDevicesById[n]].of = <<e, p>>
        BY <3>3 DEF Listed
      <4>2. UsbOf(n) = e
        BY <4>1 DEF UsbOf
      <4>3. n # id
        BY <3>2, <3>3, <4>2
      <4> QED BY <2>1, <4>1, <4>3
    <3>4. Removing'
      <4> SUFFICES ASSUME NEW i \in DOMAIN next
                   PROVE  plugged[devices[mDevicesById'[next[i]]].of[1]] = "out"
        BY <1>2 DEF Removing, UsbOf
      <4>1. i + 1 \in DOMAIN todo /\ next[i] = todo[i + 1]
        BY <1>2
      <4>2. plugged[UsbOf(next[i])] = "out"
        BY <1>4, <3>1, <4>1 DEF Removing
      <4>3. next[i] \in DOMAIN mDevicesById'
        BY <1>1 DEF Shape, ActorShape, TodoShape
      <4>4. mDevicesById'[next[i]] = mDevicesById[next[i]]
        BY <2>1, <4>3
      <4> QED BY <4>2, <4>4 DEF UsbOf
    <3>5. AllAccounted'
      BY <1>2, <2>2, <3>1, <3>3 DEF AllAccounted, Accounted, Announced, Enumerated, Message
    <3> QED BY <1>2, <3>1, <3>4, <3>5 DEF Receiving
  <2> QED BY <2>3, <2>4 DEF ListedInv
<1> QED BY <1>3, <1>4

LEMMA DeviceStepListed ==
  ASSUME Shape, ListedInv, NEW a \in Actor, DeviceStep(a)
  PROVE  ListedInv'
<1>1. /\ actor[a].at \in DeviceAt /\ Moves(a) /\ Touches(a)
      /\ UNCHANGED <<plugged, ports, broadcasts, registered, mDevicesById>>
  BY DeviceStepFrame DEF DeviceStep, DeviceSteps, Unshared, world
<1>2. /\ DOMAIN devices' = DOMAIN devices
      /\ \A o \in DOMAIN devices : devices'[o].of = devices[o].of
  BY <1>1, DomainOfSeq DEF Touches, Shape, ObjectTypes
<1>3. process' = "running" => process = "running"
  BY <1>1 DEF Moves
<1>4. /\ a = "main" => actor[a].job \in {"detach", "permission", "destroy"}
      /\ a = "sdl" => actor[a].job \in {"open", "close"}
  BY <1>1, InsideDevice
<1>5. CASE a = "main"
  <2>1. actor'["sdl"] = actor["sdl"] /\ actor'["main"].job = actor["main"].job
        /\ actor'["main"].todo = actor["main"].todo
    BY <1>1, <1>4, <1>5 DEF Moves, Actor
  <2> QED BY <1>1, <1>2, <1>3, <2>1, ListedKept
<1>6. CASE a = "sdl"
  <2>1. actor'["main"] = actor["main"]
    BY <1>1, <1>6 DEF Moves, Actor
  <2>2. {actor["sdl"].at, actor'["sdl"].at} \cap {"register", "list", "enumerate"} = {}
    BY <1>1, <1>4, <1>6 DEF Moves, Reaches, DeviceAt, OpenAt, CloseAt, Idle
  <2> QED BY <1>1, <1>2, <1>3, <2>1, <2>2, ListedKept
<1> QED BY <1>5, <1>6 DEF Actor

LEMMA NextListed ==
  ASSUME Shape, IdsInv, TableInv, ListedInv, [Next]_vars
  PROVE  ListedInv'
<1>1. CASE UNCHANGED vars
  BY <1>1, ListedKept DEF vars, world, javaHeap, objects
<1>2. CASE Restart
  <2>1. /\ DOMAIN broadcasts' = {} /\ actor'["sdl"].at = "register" /\ actor'["main"] = Idle
    BY <1>2, EmptySeq, StartingShape DEF Restart
  <2>2. DetachedAreOut'
    BY <2>1 DEF DetachedAreOut, Pending
  <2> QED BY <2>1, <2>2 DEF ListedInv, Receiving, Removing, AllAccounted, Idle
<1>3. CASE Release
  <2>1. DOMAIN broadcasts' = {} /\ process' = "released"
    BY <1>3, EmptySeq DEF Release
  <2> QED BY <2>1 DEF ListedInv, DetachedAreOut, Pending
<1>4. ASSUME NEW t \in DOMAIN threads, InputThread(t)
      PROVE  ListedInv'
  <2>1. ReaderMoves(t)
    BY <1>4, InputThreadFrame
  <2> QED BY <2>1, ListedKept DEF ReaderMoves, world
<1>5. CASE Others
  BY <1>3, <1>4, <1>5, WorldStepListed, HandleListed, InitializeListed, CallListed, VisitListed,
     VisitedListed, DeviceStepListed DEF Others
<1>6. ASSUME NEW d \in Devices, Connects(d)
      PROVE  ListedInv'
  BY <1>6, ConnectsListed
<1> QED BY <1>1, <1>2, <1>5, <1>6, StepKinds

LEMMA InitListed ==
  ASSUME Init
  PROVE  ListedInv
<1>1. /\ DOMAIN broadcasts = {} /\ actor["sdl"].at = "register" /\ actor["main"] = Idle
  BY EmptySeq, StartingShape DEF Init
<1>2. DetachedAreOut
  BY <1>1 DEF DetachedAreOut, Pending
<1> QED BY <1>1, <1>2 DEF ListedInv, Receiving, Removing, AllAccounted, Idle

LEMMA ListedInductive == Spec => []ListedInv
<1>1. Init => ListedInv
  BY InitListed
<1>2. Shape /\ IdsInv /\ TableInv /\ ListedInv /\ [Next]_vars => ListedInv'
  BY NextListed
<1> QED BY <1>1, <1>2, TableInductive, PTL DEF Spec

\* Whether a device was plugged in before, during or after initialize(), the
\* manager has it in its table or will be told of it.
THEOREM NoneOverlooked == Spec => []AttachedIsListed
<1>1. ASSUME Shape, ListedInv
      PROVE  AttachedIsListed
  <2> SUFFICES ASSUME process = "running", actor["sdl"].job # "initialize",
                      NEW d \in Devices, plugged[d] = "in"
               PROVE  \/ \E n \in DOMAIN broadcasts : broadcasts[n] = [kind |-> "attached", of |-> d]
                      \/ \A p \in ports : \E id \in DOMAIN mDevicesById :
                           devices[mDevicesById[id]].of = <<d, p>>
    BY DEF AttachedIsListed
  <2>1. actor["sdl"].at \notin {"register", "list", "enumerate"}
    BY <1>1, SDLAt
  <2>2. Accounted(d)
    BY <1>1, <2>1 DEF ListedInv, AllAccounted
  <2> QED BY <2>1, <2>2 DEF Accounted, Announced, Listed, Enumerated, Pending, Message
<1> QED BY <1>1, TableInductive, ListedInductive, PTL
-----------------------------------------------------------------------------
(***************************************************************************)
(* What each step of open() and close() does to the object and its thread. *)
(***************************************************************************)

Connection(o) == devices[o].mConnection
Thread(o)     == devices[o].mInputThread

\* The thread goes on to another line of the same object, or leaves it.
GoesTo(a, at) == /\ actor'[a].at = at /\ actor'[a].device = actor[a].device
                 /\ actor'[a].job = actor[a].job /\ actor'[a].todo = actor[a].todo
Gone(a)       == actor'[a].device = 0 /\ actor'[a].at \in {"idle", "next"}
ClosedTo(a)   == IF actor[a].job \in {"detach", "destroy"} THEN GoesTo(a, "clear") ELSE Gone(a)

\* The fields of the object after the step.
Has(a, c, t) == /\ devices'[actor[a].device].mConnection = c
                /\ devices'[actor[a].device].mInputThread = t
ManagerKept  == \A o \in DOMAIN devices : devices'[o].mManager = devices[o].mManager
Keeps(a)     == Has(a, Device(a).mConnection, Device(a).mInputThread)

\* An access to a field that another thread has cleared.
Nulls(a) ==
  \/ actor[a].at = "connect" /\ ~Device(a).mManager
  \/ actor[a].at \in {"claim", "release"} /\ Device(a).mConnection = 0
  \/ actor[a].at = "start" /\ \/ Device(a).mInputThread = 0
                              \/ threads[Device(a).mInputThread].at # "new"
  \/ actor[a].at = "loop" /\ Device(a).mInputThread = 0
Thrown(a) ==
  /\ Nulls(a) /\ Keeps(a) /\ ManagerKept /\ UNCHANGED <<connections, threads>>
  /\ \/ a = "sdl" /\ Gone(a) /\ process' = process
     \/ a = "main" /\ actor' = actor /\ process' = "crashed"

Quiet(a, from) == actor[a].at = from /\ Keeps(a) /\ ManagerKept /\ UNCHANGED <<connections, threads>>
Connected(a) ==
  /\ actor[a].at = "connect" /\ Keeps(a) /\ ManagerKept /\ Device(a).mManager
  /\ UNCHANGED threads /\ GoesTo(a, "store")
  /\ \/ connections' = Append(connections, TRUE) /\ actor'[a].local = Len(connections) + 1
     \/ UNCHANGED connections /\ actor'[a].local = 0
Stored(a) ==
  /\ actor[a].at = "store" /\ Has(a, actor[a].local, Device(a).mInputThread) /\ ManagerKept
  /\ UNCHANGED <<connections, threads>>
  /\ \/ actor[a].local = 0 /\ Gone(a)
     \/ actor[a].local # 0 /\ GoesTo(a, "claim")
Claimed(a) == /\ Quiet(a, "claim") /\ Device(a).mConnection # 0
              /\ GoesTo(a, "run") \/ GoesTo(a, "stop")
Created(a) ==
  /\ actor[a].at = "create" /\ Has(a, Device(a).mConnection, Len(threads) + 1) /\ ManagerKept
  /\ threads' = Append(threads, [of |-> actor[a].device, at |-> "new", on |-> 0])
  /\ UNCHANGED connections /\ GoesTo(a, "start")
Started(a) ==
  /\ actor[a].at = "start" /\ Keeps(a) /\ ManagerKept /\ UNCHANGED connections /\ Gone(a)
  /\ Device(a).mInputThread # 0 /\ threads[Device(a).mInputThread].at = "new"
  /\ threads' = [threads EXCEPT ![Device(a).mInputThread].at = "loop"]
Tested(a) ==
  /\ Quiet(a, "test")
  /\ \/ Device(a).mInputThread = 0 /\ GoesTo(a, "free")
     \/ Device(a).mInputThread # 0 /\ GoesTo(a, "loop")
Looked(a) ==
  /\ Quiet(a, "loop") /\ Device(a).mInputThread # 0
  /\ \/ threads[Device(a).mInputThread].at \in {"new", "dead"} /\ GoesTo(a, "forget")
     \/ GoesTo(a, "joining") /\ actor'[a].local = Device(a).mInputThread
Forgot(a) ==
  /\ actor[a].at = "forget" /\ Has(a, Device(a).mConnection, 0) /\ ManagerKept
  /\ UNCHANGED <<connections, threads>> /\ GoesTo(a, "free")
Freed(a) ==
  /\ Quiet(a, "free")
  /\ \/ Device(a).mConnection = 0 /\ ClosedTo(a)
     \/ Device(a).mConnection # 0 /\ GoesTo(a, "release")
Released(a) ==
  /\ actor[a].at = "release" /\ Device(a).mConnection # 0
  /\ Has(a, 0, Device(a).mInputThread) /\ ManagerKept /\ UNCHANGED threads
  /\ connections' = [connections EXCEPT ![Device(a).mConnection] = FALSE] /\ ClosedTo(a)
Cleared(a) ==
  /\ actor[a].at = "clear" /\ Keeps(a) /\ UNCHANGED <<connections, threads>> /\ Gone(a)
  /\ \A o \in DOMAIN devices : o # actor[a].device => devices'[o].mManager = devices[o].mManager

Effect(a) ==
  \/ Connected(a) \/ Stored(a) \/ Claimed(a) \/ (Quiet(a, "run") /\ GoesTo(a, "create"))
  \/ Created(a) \/ Started(a) \/ (Quiet(a, "stop") /\ GoesTo(a, "test")) \/ Tested(a)
  \/ Looked(a) \/ (Quiet(a, "joining") /\ GoesTo(a, "loop")) \/ Forgot(a)
  \/ Freed(a) \/ Released(a) \/ Cleared(a)

LEMMA GoesEffect ==
  ASSUME Shape, NEW a \in Actor, NEW at, Goes(a, at)
  PROVE  GoesTo(a, at)
<1>1. actor \in [Actor -> Doing] /\ actor[a] \in Doing
  BY DEF Shape, ActorShape
<1>2. actor'[a] = [actor[a] EXCEPT !.at = at]
  BY <1>1 DEF Goes
<1> QED BY <1>1, <1>2 DEF GoesTo, Doing

LEMMA GoesOnEffect ==
  ASSUME Shape, NEW a \in Actor, NEW at, NEW l,
         actor' = [actor EXCEPT ![a].at = at, ![a].local = l]
  PROVE  GoesTo(a, at) /\ actor'[a].local = l
<1>1. actor \in [Actor -> Doing] /\ actor[a] \in Doing
  BY DEF Shape, ActorShape
<1>2. actor'[a] = [actor[a] EXCEPT !.at = at, !.local = l]
  BY <1>1
<1> QED BY <1>1, <1>2 DEF GoesTo, Doing

LEMMA LeaveEffect ==
  ASSUME Shape, NEW a \in Actor, Leave(a)
  PROVE  Gone(a)
<1>1. actor \in [Actor -> Doing] /\ actor[a] \in Doing
  BY DEF Shape, ActorShape
<1>2. CASE actor[a].job \in {"open", "close"}
  <2>1. actor'[a] = Idle
    BY <1>1, <1>2 DEF Leave
  <2> QED BY <2>1 DEF Gone, Idle
<1>3. CASE actor[a].job \notin {"open", "close"}
  <2>1. actor'[a] = [actor[a] EXCEPT !.at = "next", !.device = 0]
    BY <1>1, <1>3 DEF Leave
  <2> QED BY <1>1, <2>1 DEF Gone, Doing
<1> QED BY <1>2, <1>3

LEMMA KeptObjects ==
  ASSUME UNCHANGED devices
  PROVE  ManagerKept /\ \A a \in Actor : Keeps(a)
BY DEF ManagerKept, Keeps, Has, Device

LEMMA ThrowsEffect ==
  ASSUME Shape, NEW a \in Actor, Nulls(a), Throws(a)
  PROVE  Thrown(a)
<1>1. UNCHANGED objects /\ Keeps(a) /\ ManagerKept
  BY KeptObjects DEF Throws, objects
<1> QED BY <1>1, LeaveEffect DEF Throws, Thrown, objects, Actor

\* What an assignment to a field does to the fields that matter here.
LEMMA SetsEffect ==
  ASSUME Shape, NEW a \in Actor, actor[a].at \in DeviceAt, NEW value \in Nat,
         NEW field, field \in {"mConnection", "mInputThread"}, Sets(a, field, value)
  PROVE  /\ field = "mConnection" => Has(a, value, Device(a).mInputThread) /\ ManagerKept
         /\ field = "mInputThread" => Has(a, Device(a).mConnection, value) /\ ManagerKept
<1>0. \/ field \in {"mManager", "mRunning"} /\ value \in BOOLEAN
      \/ field \in {"mConnection", "mInputThread"} /\ value \in Nat
  OBVIOUS
<1>1. /\ devices' \in Seq(Object) /\ Len(devices') = Len(devices)
      /\ DOMAIN devices' = DOMAIN devices
      /\ devices'[actor[a].device] = [Device(a) EXCEPT ![field] = value]
      /\ \A o \in DOMAIN devices : o # actor[a].device => devices'[o] = devices[o]
      /\ \A o \in DOMAIN devices : /\ devices'[o].of = devices[o].of
                                   /\ devices'[o].id = devices[o].id
  BY <1>0, SetsField
<1>2. Device(a) \in Object /\ actor[a].device \in DOMAIN devices /\ Device(a) = devices[actor[a].device]
  BY InsideDevice DEF Device
<1>3. CASE field = "mConnection"
  <2>1. devices'[actor[a].device] = [Device(a) EXCEPT !["mConnection"] = value]
    BY <1>1, <1>3
  <2>2. /\ devices'[actor[a].device].mConnection = value
        /\ devices'[actor[a].device].mInputThread = Device(a).mInputThread
        /\ devices'[actor[a].device].mManager = Device(a).mManager
    BY <1>2, <1>3, <2>1 DEF Object
  <2> QED BY <1>1, <1>2, <1>3, <2>2 DEF Has, ManagerKept
<1>4. CASE field = "mInputThread"
  <2>1. devices'[actor[a].device] = [Device(a) EXCEPT !["mInputThread"] = value]
    BY <1>1, <1>4
  <2>2. /\ devices'[actor[a].device].mConnection = Device(a).mConnection
        /\ devices'[actor[a].device].mInputThread = value
        /\ devices'[actor[a].device].mManager = Device(a).mManager
    BY <1>2, <1>4, <2>1 DEF Object
  <2> QED BY <1>1, <1>2, <1>4, <2>2 DEF Has, ManagerKept
<1> QED BY <1>3, <1>4

LEMMA FlagEffect ==
  ASSUME Shape, NEW a \in Actor, actor[a].at \in DeviceAt, NEW field, NEW value \in BOOLEAN,
         field \in {"mManager", "mRunning"}, Sets(a, field, value)
  PROVE  /\ Keeps(a)
         /\ field = "mRunning" => ManagerKept
         /\ \A o \in DOMAIN devices : o # actor[a].device => devices'[o].mManager = devices[o].mManager
<1>1. /\ devices'[actor[a].device] = [Device(a) EXCEPT ![field] = value]
      /\ \A o \in DOMAIN devices : o # actor[a].device => devices'[o] = devices[o]
  <2>1. \/ field \in {"mManager", "mRunning"} /\ value \in BOOLEAN
        \/ field \in {"mConnection", "mInputThread"} /\ value \in Nat
    OBVIOUS
  <2> QED BY <2>1, SetsField
<1>2. Device(a) \in Object /\ actor[a].device \in DOMAIN devices /\ Device(a) = devices[actor[a].device]
  BY InsideDevice DEF Device
<1>3. /\ devices'[actor[a].device].mConnection = Device(a).mConnection
      /\ devices'[actor[a].device].mInputThread = Device(a).mInputThread
      /\ field = "mRunning" => devices'[actor[a].device].mManager = Device(a).mManager
  BY <1>1, <1>2 DEF Object
<1> QED BY <1>1, <1>2, <1>3 DEF Has, Keeps, ManagerKept

LEMMA ClosedEffect ==
  ASSUME Shape, NEW a \in Actor, Closed(a)
  PROVE  ClosedTo(a)
BY GoesEffect, LeaveEffect DEF Closed, ClosedTo

\* Every step throws an exception or has one of these effects.
LEMMA DeviceStepEffect ==
  ASSUME Shape, NEW a \in Actor, DeviceSteps(a)
  PROVE  Thrown(a) \/ (process' = process /\ Effect(a))
<1>1. actor[a].at \in DeviceAt
  BY DeviceStepFrame
<1>2. UNCHANGED devices => Keeps(a) /\ ManagerKept
  BY KeptObjects
<1>3. CASE OpenConnection(a)
  <2>1. CASE Throws(a) /\ ~Device(a).mManager
    BY <1>3, <2>1, ThrowsEffect DEF OpenConnection, Step, Nulls
  <2>2. CASE /\ connections' = Append(connections, TRUE)
             /\ actor' = [actor EXCEPT ![a].at = "store", ![a].local = Len(connections) + 1]
             /\ Device(a).mManager /\ UNCHANGED <<devices, threads, process>>
    <3> DEFINE at == "store"  l == Len(connections) + 1
    <3>1. actor' = [actor EXCEPT ![a].at = at, ![a].local = l]
      BY <2>2
    <3> HIDE DEF at, l
    <3>2. GoesTo(a, at) /\ actor'[a].local = l
      BY <3>1, GoesOnEffect
    <3> QED BY <1>2, <1>3, <2>2, <3>2 DEF OpenConnection, Step, Effect, Connected, at, l
  <2>3. CASE /\ actor' = [actor EXCEPT ![a].at = "store", ![a].local = 0]
             /\ Device(a).mManager /\ UNCHANGED <<devices, connections, threads, process>>
    <3> DEFINE at == "store"  l == 0
    <3>1. actor' = [actor EXCEPT ![a].at = at, ![a].local = l]
      BY <2>3
    <3> HIDE DEF at, l
    <3>2. GoesTo(a, at) /\ actor'[a].local = l
      BY <3>1, GoesOnEffect
    <3> QED BY <1>2, <1>3, <2>3, <3>2 DEF OpenConnection, Step, Effect, Connected, at, l
  <2> QED BY <1>3, <2>1, <2>2, <2>3 DEF OpenConnection
<1>4. CASE StoreConnection(a)
  <2>1. actor[a].local \in Nat
    BY DEF Shape, ActorShape, Doing
  <2>2. Has(a, actor[a].local, Device(a).mInputThread) /\ ManagerKept
    BY <1>1, <1>4, <2>1, SetsEffect DEF StoreConnection
  <2> QED BY <1>4, <2>2, GoesEffect, LeaveEffect DEF StoreConnection, Step, Effect, Stored
<1>5. CASE ClaimInterface(a)
  <2>1. CASE Throws(a) /\ Device(a).mConnection = 0
    BY <1>5, <2>1, ThrowsEffect DEF ClaimInterface, Step, Nulls
  <2>2. CASE /\ Device(a).mConnection # 0 /\ UNCHANGED <<objects, process>>
             /\ Goes(a, "run") \/ Goes(a, "stop")
    BY <1>2, <1>5, <2>2, GoesEffect DEF ClaimInterface, Step, Effect, Claimed, Quiet, objects
  <2> QED BY <1>5, <2>1, <2>2 DEF ClaimInterface
<1>6. CASE StartRunning(a)
  <2> DEFINE field == "mRunning"  value == TRUE
  <2>1. field = "mRunning" /\ value \in BOOLEAN /\ Sets(a, field, value)
    BY <1>6 DEF StartRunning
  <2> HIDE DEF field, value
  <2>2. Keeps(a) /\ ManagerKept
    BY <1>1, <2>1, FlagEffect
  <2> QED BY <1>6, <2>2, GoesEffect DEF StartRunning, Step, Effect, Quiet
<1>7. CASE CreateThread(a)
  <2>1. Len(threads) + 1 \in Nat
    BY DomainOfSeq DEF Shape, ObjectTypes
  <2>2. Has(a, Device(a).mConnection, Len(threads) + 1) /\ ManagerKept
    BY <1>1, <1>7, <2>1, SetsEffect DEF CreateThread
  <2> QED BY <1>7, <2>2, GoesEffect DEF CreateThread, Step, Effect, Created
<1>8. CASE StartThread(a)
  <2> DEFINE startable == Device(a).mInputThread # 0 /\ threads[Device(a).mInputThread].at = "new"
  <2>1. CASE ~startable /\ Throws(a)
    BY <1>8, <2>1, ThrowsEffect DEF StartThread, Step, Nulls
  <2>2. CASE /\ startable /\ threads' = [threads EXCEPT ![Device(a).mInputThread].at = "loop"]
             /\ Leave(a) /\ UNCHANGED <<devices, connections, process>>
    BY <1>2, <1>8, <2>2, LeaveEffect DEF StartThread, Step, Effect, Started
  <2> QED BY <1>8, <2>1, <2>2 DEF StartThread
<1>9. CASE StopRunning(a)
  <2> DEFINE field == "mRunning"  value == FALSE
  <2>1. field = "mRunning" /\ value \in BOOLEAN /\ Sets(a, field, value)
    BY <1>9 DEF StopRunning
  <2> HIDE DEF field, value
  <2>2. Keeps(a) /\ ManagerKept
    BY <1>1, <2>1, FlagEffect
  <2> QED BY <1>9, <2>2, GoesEffect DEF StopRunning, Step, Effect, Quiet
<1>10. CASE TestThread(a)
  BY <1>2, <1>10, GoesEffect DEF TestThread, Step, Effect, Tested, Quiet, objects
<1>11. CASE JoinThread(a)
  <2>1. CASE Device(a).mInputThread = 0 /\ Throws(a)
    BY <1>11, <2>1, ThrowsEffect DEF JoinThread, Step, Nulls
  <2>2. CASE Device(a).mInputThread # 0
    <3> DEFINE at == IF threads[Device(a).mInputThread].at \in {"new", "dead"}
                     THEN "forget" ELSE "joining"
               l == Device(a).mInputThread
    <3>1. actor' = [actor EXCEPT ![a].at = at, ![a].local = l] /\ UNCHANGED <<objects, process>>
      BY <1>11, <2>2 DEF JoinThread
    <3>2. \/ at = "forget" /\ threads[Device(a).mInputThread].at \in {"new", "dead"}
          \/ at = "joining"
      OBVIOUS
    <3> HIDE DEF at, l
    <3>3. GoesTo(a, at) /\ actor'[a].local = l
      BY <3>1, GoesOnEffect
    <3> QED BY <1>2, <1>11, <2>2, <3>1, <3>2, <3>3
            DEF JoinThread, Step, Effect, Looked, Quiet, objects, l
  <2> QED BY <1>11, <2>1, <2>2 DEF JoinThread
<1>12. CASE Joined(a)
  BY <1>2, <1>12, GoesEffect DEF Joined, Step, Effect, Quiet, objects
<1>13. CASE ForgetThread(a)
  <2>1. Has(a, Device(a).mConnection, 0) /\ ManagerKept
    BY <1>1, <1>13, SetsEffect DEF ForgetThread
  <2> QED BY <1>13, <2>1, GoesEffect DEF ForgetThread, Step, Effect, Forgot
<1>14. CASE TestConnection(a)
  BY <1>2, <1>14, GoesEffect, ClosedEffect DEF TestConnection, Step, Effect, Freed, Quiet, objects
<1>15. CASE ReleaseConnection(a)
  <2>1. CASE Device(a).mConnection = 0 /\ Throws(a)
    BY <1>15, <2>1, ThrowsEffect DEF ReleaseConnection, Step, Nulls
  <2>2. CASE Device(a).mConnection # 0
    <3>1. /\ connections' = [connections EXCEPT ![Device(a).mConnection] = FALSE]
          /\ Sets(a, "mConnection", 0) /\ Closed(a) /\ UNCHANGED <<threads, process>>
      BY <1>15, <2>2 DEF ReleaseConnection
    <3>2. Has(a, 0, Device(a).mInputThread) /\ ManagerKept
      BY <1>1, <3>1, SetsEffect
    <3> QED BY <1>15, <2>2, <3>1, <3>2, ClosedEffect DEF ReleaseConnection, Step, Effect, Released
  <2> QED BY <1>15, <2>1, <2>2 DEF ReleaseConnection
<1>16. CASE ClearManager(a)
  <2> DEFINE field == "mManager"  value == FALSE
  <2>1. field = "mManager" /\ value \in BOOLEAN /\ Sets(a, field, value)
    BY <1>16 DEF ClearManager
  <2> HIDE DEF field, value
  <2>2. /\ Keeps(a)
        /\ \A o \in DOMAIN devices : o # actor[a].device => devices'[o].mManager = devices[o].mManager
    BY <1>1, <2>1, FlagEffect
  <2> QED BY <1>16, <2>2, LeaveEffect DEF ClearManager, Step, Effect, Cleared
<1> QED BY <1>3, <1>4, <1>5, <1>6, <1>7, <1>8, <1>9, <1>10, <1>11, <1>12, <1>13, <1>14, <1>15,
           <1>16 DEF DeviceSteps

-----------------------------------------------------------------------------
(***************************************************************************)
(* Who owns a connection and a thread, and what a step in one object       *)
(* leaves alone of the others.                                             *)
(***************************************************************************)

\* A thread belongs to the object that names it; no connection, stored or about to
\* be, belongs to two.
ThreadsOwned == \A o \in DOMAIN devices : Thread(o) # 0 => threads[Thread(o)].of = o
ConnectionsOwned ==
  \A o, n \in DOMAIN devices : Connection(o) = Connection(n) => o = n \/ Connection(o) = 0
Storing(a)   == actor[a].at = "store" /\ actor[a].local # 0
LocalsOwned  ==
  \A a \in Actor : Storing(a) =>
    /\ \A o \in DOMAIN devices : Connection(o) # actor[a].local
    /\ \A b \in Actor : Storing(b) /\ actor[b].local = actor[a].local => a = b
OwnedInv == ThreadsOwned /\ ConnectionsOwned /\ LocalsOwned

\* What a step of a in its object does to all the others, their connections and
\* their threads.
Reach(a) ==
  LET p == actor[a].device IN
  /\ p \in DOMAIN devices /\ DOMAIN devices' = DOMAIN devices
  /\ \A o \in DOMAIN devices : o # p => devices'[o] = devices[o]
  /\ DOMAIN threads \subseteq DOMAIN threads'
  /\ \A t \in DOMAIN threads : /\ threads'[t].of = threads[t].of
                               /\ threads[t].of # p => threads'[t] = threads[t]
  /\ \A t \in DOMAIN threads' \ DOMAIN threads : threads'[t].of = p /\ threads'[t].at = "new"
  /\ \A c \in DOMAIN connections :
       /\ c \in DOMAIN connections'
       /\ c # Connection(p) => connections'[c] = connections[c]
  /\ \A b \in Actor : b # a => actor'[b] = actor[b]
  /\ actor'[a].device \in {0, p}
\* What it does to its own references.
Links(a) ==
  LET p == actor[a].device IN
  /\ \/ devices'[p].mConnection \in {0, Connection(p)}
     \/ Storing(a) /\ devices'[p].mConnection = actor[a].local /\ actor'[a].at # "store"
  /\ \/ devices'[p].mInputThread \in {0, Thread(p)}
     \/ devices'[p].mInputThread \in DOMAIN threads' \ DOMAIN threads
  /\ actor'[a].at = "store" =>
       /\ devices'[p].mConnection = Connection(p)
       /\ actor'[a].local # 0 => /\ actor'[a].local = Len(connections) + 1
                                 /\ connections' = Append(connections, TRUE)

LEMMA SameThreads ==
  ASSUME UNCHANGED threads, NEW p
  PROVE  /\ DOMAIN threads \subseteq DOMAIN threads'
         /\ \A t \in DOMAIN threads : /\ threads'[t].of = threads[t].of
                                      /\ threads[t].of # p => threads'[t] = threads[t]
         /\ \A t \in DOMAIN threads' \ DOMAIN threads : threads'[t].of = p /\ threads'[t].at = "new"
OBVIOUS

LEMMA ThreadsReach ==
  ASSUME Shape, ThreadsOwned, NEW a \in Actor, actor[a].device \in DOMAIN devices,
         Thrown(a) \/ Effect(a)
  PROVE  /\ DOMAIN threads \subseteq DOMAIN threads'
         /\ \A t \in DOMAIN threads :
              /\ threads'[t].of = threads[t].of
              /\ threads[t].of # actor[a].device => threads'[t] = threads[t]
         /\ \A t \in DOMAIN threads' \ DOMAIN threads :
              threads'[t].of = actor[a].device /\ threads'[t].at = "new"
<1>1. CASE UNCHANGED threads
  BY <1>1, SameThreads
<1>2. CASE Created(a)
  <2> DEFINE new == [of |-> actor[a].device, at |-> "new", on |-> 0]
  <2>1. actor[a].device \in Nat
    BY DEF Shape, ActorShape, Doing
  <2>2. new \in Reader /\ new.of = actor[a].device /\ new.at = "new"
    BY <2>1 DEF Reader
  <2> HIDE DEF new
  <2>3. /\ DOMAIN threads' = 1..(Len(threads) + 1) /\ DOMAIN threads = 1..Len(threads)
        /\ Len(threads) \in Nat
        /\ \A u \in DOMAIN threads : threads'[u] = threads[u]
        /\ threads'[Len(threads) + 1] = new
    BY <1>2, <2>2, GrownThreads DEF Created, new
  <2> QED BY <2>2, <2>3
<1>3. CASE Started(a)
  <2> DEFINE t == Device(a).mInputThread
  <2>1. t \in DOMAIN threads /\ threads[t].of = actor[a].device
    <3>1. t # 0 /\ t \in 0..Len(threads) /\ t = Thread(actor[a].device)
      BY <1>3 DEF Started, Device, Thread, Shape, ObjectTypes
    <3>2. DOMAIN threads = 1..Len(threads) /\ Len(threads) \in Nat
      BY DomainOfSeq DEF Shape, ObjectTypes
    <3> QED BY <3>1, <3>2 DEF ThreadsOwned
  <2>2. threads' = [threads EXCEPT ![t].at = "loop"]
    BY <1>3 DEF Started
  <2>3. threads \in Seq(Reader) /\ threads[t] \in Reader
    BY <2>1, DomainOfSeq DEF Shape, ObjectTypes
  <2> HIDE DEF t
  <2>4. DOMAIN threads' = DOMAIN threads /\ threads'[t] = [threads[t] EXCEPT !.at = "loop"]
        /\ \A u \in DOMAIN threads : u # t => threads'[u] = threads[u]
    BY <2>1, <2>2
  <2>5. threads'[t].of = threads[t].of
    BY <2>3, <2>4 DEF Reader
  <2> QED BY <2>1, <2>4, <2>5
<1> QED BY <1>1, <1>2, <1>3 DEF Thrown, Effect, Connected, Stored, Claimed, Quiet, Tested, Looked,
           Forgot, Freed, Released, Cleared

LEMMA ConnectionsReach ==
  ASSUME Shape, NEW a \in Actor, actor[a].device \in DOMAIN devices, Thrown(a) \/ Effect(a)
  PROVE  \A c \in DOMAIN connections :
           /\ c \in DOMAIN connections'
           /\ c # Connection(actor[a].device) => connections'[c] = connections[c]
<1>1. CASE UNCHANGED connections
  BY <1>1
<1>2. CASE connections' = Append(connections, TRUE)
  <2>1. /\ DOMAIN connections' = 1..(Len(connections) + 1) /\ Len(connections) \in Nat
        /\ DOMAIN connections = 1..Len(connections)
        /\ \A c \in DOMAIN connections : connections'[c] = connections[c]
    BY <1>2, GrownConnections
  <2> QED BY <2>1
<1>3. CASE Released(a)
  <2>1. /\ connections' = [connections EXCEPT ![Device(a).mConnection] = FALSE]
        /\ Device(a).mConnection = Connection(actor[a].device)
    BY <1>3 DEF Released, Device, Connection
  <2> QED BY <2>1
<1> QED BY <1>1, <1>2, <1>3 DEF Thrown, Effect, Connected, Stored, Claimed, Quiet, Tested, Looked,
           Forgot, Freed, Released, Cleared, Created, Started

LEMMA LinksOf ==
  ASSUME Shape, NEW a \in Actor, Thrown(a) \/ Effect(a),
         DOMAIN threads \subseteq DOMAIN threads'
  PROVE  Links(a)
<1> DEFINE p == actor[a].device
<1>0. /\ Device(a).mConnection = Connection(p) /\ Device(a).mInputThread = Thread(p)
      /\ Has(a, Connection(p), Thread(p))
           <=> (devices'[p].mConnection = Connection(p) /\ devices'[p].mInputThread = Thread(p))
  BY DEF Device, Connection, Thread, Has
<1>1. CASE Keeps(a) /\ actor'[a].at # "store"
  BY <1>0, <1>1 DEF Links, Keeps
<1>2. CASE Connected(a)
  BY <1>0, <1>2 DEF Links, Connected, Keeps
<1>3. CASE Stored(a)
  BY <1>0, <1>3 DEF Links, Stored, Storing, Has, Gone, GoesTo
<1>4. CASE Created(a)
  <2> DEFINE new == [of |-> actor[a].device, at |-> "new", on |-> 0]
  <2>1. actor[a].device \in Nat
    BY DEF Shape, ActorShape, Doing
  <2>2. new \in Reader
    BY <2>1 DEF Reader
  <2> HIDE DEF new
  <2>3. /\ DOMAIN threads' = 1..(Len(threads) + 1) /\ DOMAIN threads = 1..Len(threads)
        /\ Len(threads) \in Nat
    BY <1>4, <2>2, GrownThreads DEF Created, new
  <2>4. Len(threads) + 1 \in DOMAIN threads' \ DOMAIN threads
    BY <2>3
  <2> QED BY <1>0, <1>4, <2>4 DEF Links, Created, Has, GoesTo
<1>5. CASE Forgot(a)
  BY <1>0, <1>5 DEF Links, Forgot, Has, GoesTo
<1>6. CASE Released(a)
  BY <1>0, <1>6 DEF Links, Released, Has, GoesTo, ClosedTo, Gone
<1> QED BY <1>1, <1>2, <1>3, <1>4, <1>5, <1>6 DEF Thrown, Nulls, Effect, Claimed, Quiet, Tested,
           Looked, Freed, Started, Cleared, GoesTo, Gone, ClosedTo

LEMMA DeviceStepReach ==
  ASSUME Shape, OwnedInv, NEW a \in Actor, DeviceSteps(a)
  PROVE  Reach(a) /\ Links(a) /\ actor[a].at \in DeviceAt /\ Shape /\ actor[a].device # 0
<1>1. actor[a].at \in DeviceAt /\ Moves(a) /\ Touches(a)
  BY DeviceStepFrame
<1>2. Thrown(a) \/ Effect(a)
  BY DeviceStepEffect
<1>3. actor[a].device \in DOMAIN devices /\ InDevice(a)
  BY <1>1, InsideDevice
<1>4. DOMAIN devices' = DOMAIN devices /\ actor[a].device # 0
  <2>1. devices \in Seq(Object) /\ devices' \in Seq(Object) /\ Len(devices') = Len(devices)
    BY <1>1 DEF Touches, Shape, ObjectTypes
  <2> QED BY <1>3, <2>1, DomainOfSeq
<1>5. /\ DOMAIN threads \subseteq DOMAIN threads'
      /\ \A t \in DOMAIN threads :
           /\ threads'[t].of = threads[t].of
           /\ threads[t].of # actor[a].device => threads'[t] = threads[t]
      /\ \A t \in DOMAIN threads' \ DOMAIN threads :
           threads'[t].of = actor[a].device /\ threads'[t].at = "new"
  BY <1>2, <1>3, ThreadsReach DEF OwnedInv
<1>6. \A c \in DOMAIN connections :
        /\ c \in DOMAIN connections'
        /\ c # Connection(actor[a].device) => connections'[c] = connections[c]
  BY <1>2, <1>3, ConnectionsReach
<1>7. /\ \A b \in Actor : b # a => actor'[b] = actor[b]
      /\ actor'[a].device \in {0, actor[a].device}
  BY <1>1 DEF Moves, Idle
<1>8. \A o \in DOMAIN devices : o # actor[a].device => devices'[o] = devices[o]
  BY <1>1 DEF Touches
<1>9. Links(a)
  BY <1>2, <1>5, LinksOf
<1> QED BY <1>1, <1>3, <1>4, <1>5, <1>6, <1>7, <1>8, <1>9 DEF Reach

\* A step inside an object keeps ownership: a new thread is the object's own, a new
\* connection is nobody's yet.
LEMMA DeviceStepOwned ==
  ASSUME Shape, OwnedInv, NEW a \in Actor, DeviceSteps(a)
  PROVE  OwnedInv'
<1> DEFINE p == actor[a].device
<1>1. Reach(a) /\ Links(a)
  BY DeviceStepReach
<1>2. ThreadsOwned'
  <2> SUFFICES ASSUME NEW o \in DOMAIN devices, devices'[o].mInputThread # 0
               PROVE  threads'[devices'[o].mInputThread].of = o
    BY <1>1 DEF ThreadsOwned, Thread, Reach
  <2>0. DOMAIN threads = 1..Len(threads) /\ Len(threads) \in Nat
    BY DomainOfSeq DEF Shape, ObjectTypes
  <2>1. CASE devices'[o].mInputThread = Thread(o)
    <3>1. Thread(o) \in DOMAIN threads /\ threads[Thread(o)].of = o
      BY <2>0, <2>1 DEF OwnedInv, ThreadsOwned, Thread, Shape, ObjectTypes
    <3> QED BY <1>1, <2>1, <3>1 DEF Reach
  <2>2. CASE devices'[o].mInputThread # Thread(o)
    <3>1. o = p
      BY <1>1, <2>2 DEF Reach, Thread
    <3> QED BY <1>1, <2>2, <3>1 DEF Reach, Links
  <2> QED BY <2>1, <2>2
<1>3. \A o \in DOMAIN devices : \/ devices'[o].mConnection = Connection(o)
                                \/ o = p /\ devices'[o].mConnection = 0
                                \/ /\ o = p /\ Storing(a) /\ actor'[a].at # "store"
                                   /\ devices'[o].mConnection = actor[a].local
  BY <1>1 DEF Reach, Links, Connection
<1>4. ConnectionsOwned'
  <2> SUFFICES ASSUME NEW o \in DOMAIN devices, NEW n \in DOMAIN devices,
                      devices'[o].mConnection = devices'[n].mConnection,
                      devices'[o].mConnection # 0, o # n
               PROVE  FALSE
    BY <1>1 DEF ConnectionsOwned, Connection, Reach
  <2> QED BY <1>3 DEF OwnedInv, ConnectionsOwned, LocalsOwned
<1>5. LocalsOwned'
  <2>0. /\ Len(connections) \in Nat
        /\ \A o \in DOMAIN devices : Connection(o) \in 0..Len(connections)
        /\ \A b \in Actor : Storing(b) => actor[b].local \in 0..Len(connections)
    <3>1. \A b \in Actor : Storing(b) => InDevice(b)
      BY InsideDevice DEF Storing, DeviceAt, OpenAt
    <3> QED BY <3>1, DomainOfSeq DEF Shape, ObjectTypes, Connection, InDevice, Reaches, Storing
  <2> SUFFICES ASSUME NEW b \in Actor, Storing(b)'
               PROVE  /\ \A o \in DOMAIN devices : devices'[o].mConnection # actor'[b].local
                      /\ \A e \in Actor : Storing(e)' /\ actor'[e].local = actor'[b].local => b = e
    BY <1>1 DEF LocalsOwned, Connection, Reach
  <2>1. \A e \in Actor : Storing(e)' =>
          \/ e # a /\ Storing(e) /\ actor'[e].local = actor[e].local
          \/ e = a /\ actor'[a].local = Len(connections) + 1 /\ devices'[p].mConnection = Connection(p)
    BY <1>1 DEF Reach, Links, Storing
  <2>2. CASE b = a
    BY <1>3, <2>0, <2>1, <2>2 DEF Storing
  <2>3. CASE b # a
    BY <1>3, <2>0, <2>1, <2>3 DEF Storing, OwnedInv, LocalsOwned
  <2> QED BY <2>2, <2>3
<1> QED BY <1>2, <1>4, <1>5 DEF OwnedInv

\* The other steps: they leave the objects alone, and at most one thread enters one.
Aside ==
  /\ UNCHANGED objects /\ overlap' = overlap
  /\ \A a \in Actor :
       \/ actor'[a] = actor[a]
       \/ actor[a].device = 0 /\ actor'[a].device = 0 /\ actor'[a].at \notin DeviceAt
Begins(a) ==
  /\ UNCHANGED objects /\ \A b \in Actor : b # a => actor'[b] = actor[b]
  /\ actor[a].device = 0 /\ actor'[a].device \in DOMAIN devices
  /\ actor'[a].at \in {"connect", "stop"}
  /\ Enter(a, actor'[a].device, actor'[a].at)
  /\ \E id \in DOMAIN mDevicesById : mDevicesById[id] = actor'[a].device
  /\ a = "main" /\ actor'[a].at = "connect" => actor["main"].job = "permission"

LEMMA LoopIsAside ==
  ASSUME Shape, UNCHANGED objects, overlap' = overlap,
         NEW job \in {"detach", "permission", "destroy"},
         NEW ids \in SUBSET DOMAIN mDevicesById, VisitAll(job, ids), actor["main"].job = "none"
  PROVE  Aside
<1>1. actor["main"].device = 0
  BY DEF Shape, ActorShape, MainShape, Idle
<1> QED BY <1>1, VisitAllFrame DEF Aside, Actor, DeviceAt, OpenAt, CloseAt

LEMMA HandleIsAside ==
  ASSUME Shape, NEW d \in Devices, HandleUsbDeviceDetached(d) \/ HandleUsbDevicePermission(d)
  PROVE  Aside
<1>1. UNCHANGED objects /\ overlap' = overlap
  BY DEF HandleUsbDeviceDetached, HandleUsbDevicePermission
<1>2. CASE actor' = actor
  BY <1>1, <1>2 DEF Aside
<1> DEFINE ids == IdsOf(d)
<1>3. ids \in SUBSET DOMAIN mDevicesById
  BY IdsOfDeviceInTable
<1>4. /\ actor["main"].job = "none"
      /\ actor' = actor \/ VisitAll("detach", ids) \/ VisitAll("permission", ids)
  BY DEF HandleUsbDeviceDetached, HandleUsbDevicePermission, Receives
<1> HIDE DEF ids
<1> QED BY <1>1, <1>2, <1>3, <1>4, LoopIsAside

LEMMA CallIsAside ==
  ASSUME Shape, OpenDevice \/ CloseDevice
  PROVE  Aside \/ Begins("sdl")
<1>1. PICK job \in {"open", "close"}, at \in {"connect", "stop"} : Call(job, at)
  BY DEF OpenDevice, CloseDevice
<1>2. UNCHANGED objects /\ actor["sdl"] = Idle
  BY <1>1, CallFrame
<1>3. CASE UNCHANGED <<actor, overlap>>
  BY <1>2, <1>3 DEF Aside
<1>4. CASE CallBegins(job, at)
  <2>1. PICK id \in DOMAIN mDevicesById : actor'["sdl"].device = mDevicesById[id]
    BY <1>4 DEF CallBegins
  <2>2. mDevicesById[id] \in DOMAIN devices
    BY DEF Shape, TableTypes
  <2> QED BY <1>2, <1>4, <2>1, <2>2 DEF CallBegins, Begins, Idle, Actor
<1> QED BY <1>1, <1>3, <1>4, CallFrame

LEMMA VisitIsBegin ==
  ASSUME Shape, Visit
  PROVE  Begins("main")
<1>1. VisitBegins
  BY VisitFrame
<1> QED BY <1>1 DEF VisitBegins, Begins, Actor

LEMMA OthersKinds ==
  ASSUME Shape, Others
  PROVE  \/ Aside \/ \E a \in Actor : Begins(a) \/ DeviceStep(a)
         \/ \E t \in DOMAIN threads : ReaderMoves(t)
<1>1. CASE \E d \in Devices : Plug(d) \/ Unplug(d) \/ \E g \in BOOLEAN : Answer(d, g)
  BY <1>1 DEF Plug, Unplug, Answer, javaHeap, Aside
<1>2. CASE \E d \in Devices : HandleUsbDeviceDetached(d) \/ HandleUsbDevicePermission(d)
  BY <1>2, HandleIsAside
<1>3. CASE Release
  <2> DEFINE ids == DOMAIN mDevicesById
  <2>1. /\ VisitAll("destroy", ids) /\ ids \in SUBSET DOMAIN mDevicesById
        /\ UNCHANGED objects /\ overlap' = overlap /\ actor["main"].job = "none"
    BY <1>3 DEF Release
  <2> HIDE DEF ids
  <2> QED BY <2>1, LoopIsAside
<1>4. CASE RegisterReceiver \/ ListDevices \/ (Enumerate /\ actor["sdl"].todo = <<>>)
  <2>1. Initialize
    BY <1>4 DEF Initialize
  <2>2. UNCHANGED objects /\ overlap' = overlap
    BY <1>4 DEF RegisterReceiver, ListDevices, Enumerate, objects
  <2> QED BY <2>1, <2>2, InitializeFrame DEF Aside, Actor, Idle, DeviceAt, OpenAt, CloseAt
<1>5. CASE OpenDevice \/ CloseDevice
  BY <1>5, CallIsAside DEF Actor
<1>6. CASE Visit
  BY <1>6, VisitIsBegin DEF Actor
<1>7. CASE Visited
  BY <1>7, VisitedFrame DEF Aside, Actor, Idle, DeviceAt, OpenAt, CloseAt
<1>8. CASE \E t \in DOMAIN threads : InputThread(t)
  BY <1>8, InputThreadFrame
<1> QED BY <1>1, <1>2, <1>3, <1>4, <1>5, <1>6, <1>7, <1>8 DEF Others

LEMMA OwnedKept ==
  ASSUME Shape, OwnedInv, DOMAIN devices' = DOMAIN devices,
         \A o \in DOMAIN devices : /\ devices'[o].mConnection = devices[o].mConnection
                                   /\ devices'[o].mInputThread = devices[o].mInputThread,
         \A t \in DOMAIN threads : threads'[t].of = threads[t].of,
         \A a \in Actor : Storing(a)' => Storing(a) /\ actor'[a].local = actor[a].local
  PROVE  OwnedInv'
<1>1. \A o \in DOMAIN devices : Thread(o) # 0 => Thread(o) \in DOMAIN threads
  BY DomainOfSeq DEF Shape, ObjectTypes, Thread
<1>2. ThreadsOwned'
  BY <1>1 DEF OwnedInv, ThreadsOwned, Thread
<1>3. ConnectionsOwned'
  BY DEF OwnedInv, ConnectionsOwned, Connection
<1>4. LocalsOwned'
  BY DEF OwnedInv, LocalsOwned, Connection
<1> QED BY <1>2, <1>3, <1>4 DEF OwnedInv

LEMMA ConnectsOwned ==
  ASSUME Shape, IdsInv, OwnedInv, NEW d \in Devices, Connects(d)
  PROVE  OwnedInv'
<1>1. Grows(d) /\ UNCHANGED <<connections, threads>>
  BY ConnectsFrame
<1>2. \A o \in DOMAIN devices' :
        \/ o \in DOMAIN devices /\ devices'[o] = devices[o]
        \/ devices'[o].mConnection = 0 /\ devices'[o].mInputThread = 0
  <2> SUFFICES ASSUME NEW o \in DOMAIN devices', o \notin DOMAIN devices
               PROVE  devices'[o].mConnection = 0 /\ devices'[o].mInputThread = 0
    BY <1>1 DEF Grows
  <2>1. PICK p \in ports : devices'[o] = NewDevice(d, p)
    BY <1>1 DEF Grows
  <2> QED BY <2>1, NewDeviceFields
<1>3. \A a \in Actor : Storing(a)' => Storing(a) /\ actor'[a].local = actor[a].local
  <2>1. CASE actor' = actor
    BY <2>1 DEF Storing
  <2>2. CASE Initialize
    BY <2>2, InitializeFrame DEF Storing, Actor, Idle
  <2> QED BY <2>1, <2>2 DEF Connects, HandleUsbDeviceAttached, Initialize
<1>4. ThreadsOwned'
  BY <1>1, <1>2 DEF OwnedInv, ThreadsOwned, Thread
<1>5. ConnectionsOwned'
  BY <1>2 DEF OwnedInv, ConnectionsOwned, Connection
<1>6. LocalsOwned'
  <2> SUFFICES ASSUME NEW a \in Actor, Storing(a)'
               PROVE  /\ \A o \in DOMAIN devices' : devices'[o].mConnection # actor'[a].local
                      /\ \A b \in Actor : Storing(b)' /\ actor'[b].local = actor'[a].local => a = b
    BY DEF LocalsOwned, Connection
  <2>1. actor'[a].local = actor[a].local /\ Storing(a) /\ actor[a].local # 0
    BY <1>3 DEF Storing
  <2> QED BY <1>2, <1>3, <2>1 DEF OwnedInv, LocalsOwned, Connection
<1> QED BY <1>4, <1>5, <1>6 DEF OwnedInv

LEMMA NextOwned ==
  ASSUME Shape, IdsInv, OwnedInv, [Next]_vars
  PROVE  OwnedInv'
<1>1. CASE Aside
  <2>1. \A a \in Actor : Storing(a)' => Storing(a) /\ actor'[a].local = actor[a].local
    BY <1>1 DEF Aside, Storing, DeviceAt, OpenAt
  <2>2. UNCHANGED <<devices, threads>>
    BY <1>1 DEF Aside, objects
  <2> QED BY <2>1, <2>2, OwnedKept
<1>2. ASSUME NEW a \in Actor, Begins(a) PROVE OwnedInv'
  <2>1. \A b \in Actor : Storing(b)' => Storing(b) /\ actor'[b].local = actor[b].local
    BY <1>2 DEF Begins, Storing
  <2>2. UNCHANGED <<devices, threads>>
    BY <1>2 DEF Begins, objects
  <2> QED BY <2>1, <2>2, OwnedKept
<1>3. ASSUME NEW a \in Actor, DeviceStep(a) PROVE OwnedInv'
  BY <1>3, DeviceStepOwned DEF DeviceStep, DeviceSteps
<1>4. ASSUME NEW t \in DOMAIN threads, ReaderMoves(t) PROVE OwnedInv'
  <2>1. /\ \A u \in DOMAIN threads : threads'[u].of = threads[u].of
        /\ devices' = devices /\ actor' = actor
    BY <1>4 DEF ReaderMoves
  <2> QED BY <2>1, OwnedKept DEF Storing
<1>5. CASE UNCHANGED vars
  BY <1>1, <1>5 DEF vars, javaHeap, Aside
<1>6. CASE Restart
  BY <1>6, StartingShape DEF Restart, OwnedInv, ThreadsOwned, ConnectionsOwned, LocalsOwned,
     Storing, Actor, Idle
<1>7. CASE \E d \in Devices : Connects(d)
  BY <1>7, ConnectsOwned
<1>8. CASE Others
  BY <1>1, <1>2, <1>3, <1>4, <1>8, OthersKinds
<1> QED BY <1>5, <1>6, <1>7, <1>8, StepKinds

-----------------------------------------------------------------------------
(***************************************************************************)
(* A device that one thread at a time uses: who reads from it, and what    *)
(* each line of open() and close() may rely on.                            *)
(***************************************************************************)

Reads(t, o) == threads[t].of = o /\ threads[t].at \in {"loop", "reading"}
Unread(o)   == \A t \in DOMAIN threads : ~Reads(t, o)
Shut(o)     == Connection(o) = 0 /\ Thread(o) = 0 /\ Unread(o)

\* The connection is open, and only the thread the object names reads from it.
Sound(o) ==
  /\ Connection(o) # 0 => connections[Connection(o)]
  /\ \A t \in DOMAIN threads : Reads(t, o) =>
       /\ t = Thread(o) /\ Connection(o) # 0 /\ devices[o].mManager
       /\ threads[t].at = "reading" => threads[t].on = Connection(o)

\* What holds at each line of open() and close().
Positioned(a, o) ==
  /\ actor[a].at \in {"connect", "store", "clear"} => Shut(o)
  /\ actor[a].at = "connect" /\ a = "main" => devices[o].mManager
  /\ Storing(a) => connections[actor[a].local]
  /\ actor[a].at \in OpenAt \ {"connect"} => devices[o].mManager
  /\ actor[a].at \in {"claim", "run", "create"} => Connection(o) # 0 /\ Thread(o) = 0
  /\ actor[a].at = "start" => /\ Connection(o) # 0 /\ Thread(o) # 0 /\ Unread(o)
                              /\ threads[Thread(o)].at = "new"
  /\ actor[a].at \in {"loop", "joining", "forget"} => Thread(o) # 0
  /\ actor[a].at = "joining" => actor[a].local = Thread(o)
  /\ actor[a].at = "forget" => Unread(o)
  /\ actor[a].at \in {"free", "release"} => Thread(o) = 0
  /\ actor[a].at = "release" => Connection(o) # 0

AloneIn(o) == \A a, b \in Actor : actor[a].device = o /\ actor[b].device = o => a = b
UseOf(o)   == Sound(o) /\ AloneIn(o) /\ \A a \in Actor : actor[a].device = o => Positioned(a, o)
UseInv     == \A o \in DOMAIN devices \ overlap : UseOf(o)

\* A step that leaves the object, its connection and its threads alone.
Untouched(o) ==
  /\ o \in DOMAIN devices'
  /\ devices'[o].mConnection = Connection(o) /\ devices'[o].mInputThread = Thread(o)
  /\ devices'[o].mManager = devices[o].mManager
  /\ Connection(o) # 0 => connections'[Connection(o)] = connections[Connection(o)]
  /\ DOMAIN threads \subseteq DOMAIN threads'
  /\ \A t \in DOMAIN threads : /\ threads'[t].of = threads[t].of
                               /\ threads[t].of = o => threads'[t] = threads[t]
  /\ \A t \in DOMAIN threads' \ DOMAIN threads : threads'[t].at = "new"

LEMMA UntouchedStays ==
  ASSUME Shape, OwnedInv, NEW o \in DOMAIN devices, Untouched(o)
  PROVE  /\ \A t \in DOMAIN threads' : Reads(t, o)' <=> t \in DOMAIN threads /\ Reads(t, o)
         /\ Sound(o) => Sound(o)'
         /\ Unread(o) => Unread(o)'
         /\ Shut(o) => Shut(o)'
<1>1. \A t \in DOMAIN threads' : Reads(t, o)' <=> t \in DOMAIN threads /\ Reads(t, o)
  BY DEF Untouched, Reads
<1>2. \A t \in DOMAIN threads : Reads(t, o) => threads'[t] = threads[t]
  BY DEF Untouched, Reads
<1>3. Sound(o) => Sound(o)'
  BY <1>1, <1>2 DEF Sound, Untouched, Connection, Thread
<1>4. Unread(o) => Unread(o)'
  BY <1>1 DEF Unread
<1>5. Shut(o) => Shut(o)'
  BY <1>4 DEF Shut, Untouched, Connection, Thread
<1> QED BY <1>1, <1>3, <1>4, <1>5

LEMMA UntouchedPosition ==
  ASSUME Shape, OwnedInv, NEW o \in DOMAIN devices, Untouched(o), NEW a \in Actor,
         actor'[a] = actor[a], Storing(a) => connections'[actor[a].local] = connections[actor[a].local],
         Positioned(a, o)
  PROVE  Positioned(a, o)'
<1>1. (Unread(o) => Unread(o)') /\ (Shut(o) => Shut(o)')
  BY UntouchedStays
<1>2. Thread(o) # 0 => threads'[Thread(o)] = threads[Thread(o)]
  BY DomainOfSeq DEF OwnedInv, ThreadsOwned, Untouched, Shape, ObjectTypes, Thread
<1>3. /\ Connection(o)' = Connection(o) /\ Thread(o)' = Thread(o)
      /\ Storing(a)' = Storing(a) /\ devices'[o].mManager = devices[o].mManager
  BY DEF Untouched, Connection, Thread, Storing
<1> QED BY <1>1, <1>2, <1>3 DEF Positioned

\* If every thread that is in the object afterwards was there before, and no other
\* step is taken there, then it is used as before.
LEMMA UseKept ==
  ASSUME Shape, OwnedInv, NEW o \in DOMAIN devices, UseOf(o), Untouched(o),
         \A a \in Actor : actor'[a].device = o => actor'[a] = actor[a],
         \A a \in Actor : Storing(a) /\ actor[a].device = o
            => connections'[actor[a].local] = connections[actor[a].local]
  PROVE  UseOf(o)'
<1>1. Sound(o)'
  BY UntouchedStays DEF UseOf
<1>2. AloneIn(o)'
  BY DEF UseOf, AloneIn
<1>3. ASSUME NEW a \in Actor, actor'[a].device = o PROVE Positioned(a, o)'
  BY <1>3, UntouchedPosition DEF UseOf
<1> QED BY <1>1, <1>2, <1>3 DEF UseOf

\* Steps inside one object do not disturb another.
LEMMA DeviceStepElsewhere ==
  ASSUME Shape, OwnedInv, NEW a \in Actor, DeviceSteps(a),
         NEW o \in DOMAIN devices, o # actor[a].device
  PROVE  /\ Untouched(o) /\ \A b \in Actor : actor'[b].device = o => actor'[b] = actor[b] /\ b # a
         /\ \A b \in Actor : b # a /\ Storing(b)
              => connections'[actor[b].local] = connections[actor[b].local]
<1> DEFINE p == actor[a].device
<1>1. Reach(a) /\ p \in DOMAIN devices
  BY DeviceStepReach DEF Reach
<1>2. DOMAIN connections = 1..Len(connections) /\ Len(connections) \in Nat
      /\ Connection(o) \in 0..Len(connections) /\ Connection(p) \in Nat /\ o # 0
  BY <1>1, DomainOfSeq, ObjectFields DEF Shape, ObjectTypes, Connection
<1>3. Connection(o) # 0 => Connection(o) # Connection(p) /\ Connection(o) \in DOMAIN connections
  BY <1>1, <1>2 DEF OwnedInv, ConnectionsOwned
<1>4. Untouched(o)
  BY <1>1, <1>3 DEF Untouched, Reach, Connection, Thread
<1>5. \A b \in Actor : Storing(b) => /\ actor[b].local \in DOMAIN connections
                                     /\ actor[b].local # Connection(p)
  <2>1. \A b \in Actor : Storing(b) => InDevice(b)
    BY InsideDevice DEF Storing, DeviceAt, OpenAt
  <2> QED BY <1>1, <1>2, <2>1 DEF OwnedInv, LocalsOwned, Storing, InDevice, Reaches
<1> QED BY <1>1, <1>2, <1>4, <1>5 DEF Reach

\* A step that keeps the threads keeps the readers, too.
LEMMA ReadersKept ==
  ASSUME NEW p, UNCHANGED threads
  PROVE  Unread(p)' = Unread(p) /\ \A t \in DOMAIN threads : Reads(t, p)' = Reads(t, p)
BY DEF Unread, Reads

\* Without a thread, a sound object has no reader.
LEMMA NoThreadNoReader ==
  ASSUME Shape, NEW p \in DOMAIN devices, Sound(p), Thread(p) = 0 \/ Connection(p) = 0
  PROVE  Unread(p)
<1>1. \A t \in DOMAIN threads : t # 0
  BY DomainOfSeq DEF Shape, ObjectTypes
<1> QED BY <1>1 DEF Sound, Unread

\* A step of the only thread in an object keeps it sound, and puts the thread where
\* the next line may rely on what it needs.
LEMMA OwnStep ==
  ASSUME Shape, OwnedInv, NEW a \in Actor, DeviceSteps(a), ~Thrown(a),
         NEW p, p = actor[a].device, Sound(p), Positioned(a, p)
  PROVE  /\ Sound(p)' /\ (actor'[a].device = p => Positioned(a, p)')
         /\ actor'[a].device # p /\ actor[a].job \in {"detach", "destroy"} => Shut(p)'
<1>0. /\ p \in DOMAIN devices /\ p # 0 /\ Device(a) = devices[p]
      /\ Reach(a) /\ Effect(a) /\ actor[a].at \in DeviceAt
      /\ actor[a].at \in OpenAt => actor[a].job \in {"open", "permission"}
  BY DeviceStepReach, DeviceStepEffect, InsideDevice DEF Reach, Device, InDevice, Reaches
<1>1. /\ Device(a).mConnection = Connection(p) /\ Device(a).mInputThread = Thread(p)
      /\ \A c, t : Has(a, c, t) <=> Connection(p)' = c /\ Thread(p)' = t
      /\ ManagerKept => devices'[p].mManager = devices[p].mManager
  BY <1>0 DEF Connection, Thread, Has, ManagerKept, Reach
<1>2. Thread(p) = 0 \/ Connection(p) = 0 => Unread(p)
  BY <1>0, NoThreadNoReader
<1>3. \A t \in DOMAIN threads : t # 0
  BY DomainOfSeq DEF Shape, ObjectTypes
<1>4. CASE Connected(a)
  <2>1. /\ Shut(p) /\ Connection(p)' = 0 /\ Thread(p)' = 0 /\ devices'[p].mManager
        /\ UNCHANGED threads /\ GoesTo(a, "store")
    BY <1>0, <1>1, <1>4 DEF Connected, Keeps, Positioned, Shut
  <2>2. Unread(p)'
    BY <2>1, ReadersKept DEF Shut
  <2>3. actor'[a].local # 0 => connections'[actor'[a].local]
    <3>1. CASE connections' = Append(connections, TRUE) /\ actor'[a].local = Len(connections) + 1
      BY <3>1, GrownConnections
    <3>2. CASE actor'[a].local = 0
      BY <3>2
    <3> QED BY <1>4, <3>1, <3>2 DEF Connected
  <2> QED BY <1>1, <1>4, <2>1, <2>2, <2>3
          DEF Sound, Unread, Shut, Positioned, Storing, GoesTo, Connected, OpenAt
<1>5. CASE Stored(a)
  <2>1. /\ Shut(p) /\ Connection(p)' = actor[a].local /\ Thread(p)' = 0
        /\ devices[p].mManager /\ devices'[p].mManager = devices[p].mManager
        /\ UNCHANGED <<connections, threads>>
    BY <1>1, <1>5 DEF Stored, Positioned, Shut, OpenAt
  <2>2. Unread(p)'
    BY <2>1, ReadersKept DEF Shut
  <2>3. Storing(a) => connections[actor[a].local]
    BY DEF Positioned
  <2>4. Sound(p)'
    BY <1>5, <2>1, <2>2, <2>3 DEF Sound, Unread, Stored, Storing
  <2>5. CASE Gone(a)
    BY <1>0, <1>5, <2>4, <2>5 DEF Gone, Stored, OpenAt
  <2>6. CASE GoesTo(a, "claim") /\ actor[a].local # 0
    BY <1>5, <2>1, <2>4, <2>6 DEF GoesTo, Positioned, Storing, OpenAt, Stored
  <2> QED BY <1>5, <2>5, <2>6 DEF Stored
<1>6. CASE Created(a)
  <2>1. /\ Connection(p)' = Connection(p) /\ Connection(p) # 0 /\ Thread(p) = 0
        /\ Thread(p)' = Len(threads) + 1
        /\ devices[p].mManager /\ devices'[p].mManager = devices[p].mManager
        /\ UNCHANGED connections /\ GoesTo(a, "start")
    BY <1>1, <1>6 DEF Created, Positioned, OpenAt
  <2> DEFINE new == [of |-> actor[a].device, at |-> "new", on |-> 0]
  <2>2. p \in Nat
    BY DEF Shape, ActorShape, Doing
  <2>3. new \in Reader /\ new.at = "new"
    BY <2>2 DEF Reader
  <2> HIDE DEF new
  <2>4. /\ DOMAIN threads' = 1..(Len(threads) + 1) /\ DOMAIN threads = 1..Len(threads)
        /\ Len(threads) \in Nat
        /\ \A u \in DOMAIN threads : threads'[u] = threads[u]
        /\ threads'[Len(threads) + 1] = new
    BY <1>6, <2>3, GrownThreads DEF Created, new
  <2>5. Unread(p)'
    BY <1>2, <2>1, <2>3, <2>4 DEF Unread, Reads
  <2>6. Sound(p)'
    BY <2>1, <2>5 DEF Sound, Unread, Connection
  <2> QED BY <1>6, <2>1, <2>3, <2>4, <2>5, <2>6 DEF Positioned, GoesTo, Created, OpenAt, Storing
<1>7. CASE Started(a)
  <2> DEFINE t == Thread(p)
  <2>1. /\ Connection(p)' = Connection(p) /\ Connection(p) # 0 /\ t # 0 /\ Thread(p)' = t
        /\ devices[p].mManager /\ devices'[p].mManager = devices[p].mManager
        /\ Unread(p) /\ threads[t].at = "new"
        /\ UNCHANGED connections /\ Gone(a) /\ threads' = [threads EXCEPT ![t].at = "loop"]
    BY <1>1, <1>7 DEF Started, Positioned, Keeps, OpenAt
  <2>2. DOMAIN threads = 1..Len(threads) /\ Len(threads) \in Nat /\ t \in 0..Len(threads)
    BY <1>0, DomainOfSeq DEF Shape, ObjectTypes, Thread
  <2>3. t \in DOMAIN threads /\ threads[t] \in Reader
    BY <2>1, <2>2, DomainOfSeq DEF Shape, ObjectTypes
  <2> HIDE DEF t
  <2>4. /\ DOMAIN threads' = DOMAIN threads /\ threads'[t] = [threads[t] EXCEPT !.at = "loop"]
        /\ \A u \in DOMAIN threads : u # t => threads'[u] = threads[u]
    BY <2>1, <2>3
  <2>5. threads'[t].at = "loop"
    BY <2>3, <2>4 DEF Reader
  <2>6. \A u \in DOMAIN threads : Reads(u, p)' => u = t
    BY <2>1, <2>4 DEF Unread, Reads
  <2>7. Sound(p)'
    BY <2>1, <2>4, <2>5, <2>6 DEF Sound, Connection
  <2> QED BY <1>0, <1>7, <2>1, <2>7 DEF Gone, Started, OpenAt
<1>8. ASSUME UNCHANGED threads, UNCHANGED connections, Keeps(a), ManagerKept
      PROVE  /\ Sound(p)' /\ Connection(p)' = Connection(p) /\ Thread(p)' = Thread(p)
             /\ devices'[p].mManager = devices[p].mManager
             /\ Unread(p)' = Unread(p) /\ Shut(p)' = Shut(p)
  <2>1. /\ Connection(p)' = Connection(p) /\ Thread(p)' = Thread(p)
        /\ devices'[p].mManager = devices[p].mManager
    BY <1>1, <1>8 DEF Keeps
  <2>2. Unread(p)' = Unread(p) /\ \A t \in DOMAIN threads : Reads(t, p)' = Reads(t, p)
    BY <1>8, ReadersKept
  <2>3. Sound(p)
    OBVIOUS
  <2> QED BY <1>8, <2>1, <2>2, <2>3 DEF Sound, Shut
<1>9. CASE Claimed(a) \/ (Quiet(a, "run") /\ GoesTo(a, "create")) \/ (Quiet(a, "stop") /\ GoesTo(a, "test"))
  BY <1>8, <1>9 DEF Claimed, Quiet, GoesTo, Positioned, OpenAt, Storing
<1>10. CASE Tested(a) \/ Looked(a) \/ (Quiet(a, "joining") /\ GoesTo(a, "loop"))
  <2>1. CASE Tested(a) \/ (Quiet(a, "joining") /\ GoesTo(a, "loop"))
    BY <1>1, <1>8, <2>1 DEF Tested, Quiet, GoesTo, Positioned, OpenAt, Storing
  <2>2. CASE Looked(a)
    <3>1. Quiet(a, "loop") /\ Thread(p) # 0
      BY <1>1, <2>2 DEF Looked
    <3>2. CASE GoesTo(a, "forget") /\ threads[Thread(p)].at \in {"new", "dead"}
      <4>1. Unread(p)
        BY <3>2 DEF Sound, Unread, Reads
      <4> QED BY <1>8, <3>1, <3>2, <4>1 DEF Quiet, GoesTo, Positioned, OpenAt, Storing
    <3>3. CASE GoesTo(a, "joining") /\ actor'[a].local = Thread(p)
      BY <1>8, <3>1, <3>3 DEF Quiet, GoesTo, Positioned, OpenAt, Storing
    <3> QED BY <1>1, <2>2, <3>2, <3>3 DEF Looked
  <2> QED BY <1>10, <2>1, <2>2
<1>11. CASE Forgot(a)
  <2>1. /\ Connection(p)' = Connection(p) /\ Thread(p)' = 0 /\ Unread(p)
        /\ UNCHANGED <<connections, threads>> /\ GoesTo(a, "free")
    BY <1>1, <1>11 DEF Forgot, Positioned
  <2>2. Unread(p)'
    BY <2>1, ReadersKept
  <2>3. Sound(p) /\ Sound(p)'
    BY <2>1, <2>2 DEF Sound, Unread
  <2> QED BY <1>11, <2>1, <2>2, <2>3 DEF Forgot, GoesTo, Positioned, OpenAt, Storing
<1>12. CASE Freed(a)
  <2>1. Quiet(a, "free") /\ Thread(p) = 0 /\ Unread(p)
    BY <1>2, <1>12 DEF Freed, Quiet, Positioned
  <2>2. CASE Connection(p) = 0 /\ GoesTo(a, "clear")
    BY <1>8, <2>1, <2>2 DEF Quiet, GoesTo, Positioned, OpenAt, Storing, Shut
  <2>3. CASE Gone(a) /\ actor[a].job \notin {"detach", "destroy"}
    BY <1>0, <1>8, <2>1, <2>3 DEF Quiet, Gone
  <2>4. CASE Connection(p) # 0 /\ GoesTo(a, "release")
    BY <1>8, <2>1, <2>4 DEF Quiet, GoesTo, Positioned, OpenAt, Storing
  <2> QED BY <1>1, <1>12, <2>2, <2>3, <2>4 DEF Freed, ClosedTo
<1>13. CASE Released(a)
  <2>1. /\ Thread(p) = 0 /\ Unread(p) /\ Connection(p)' = 0 /\ Thread(p)' = 0
        /\ UNCHANGED threads /\ ClosedTo(a)
    BY <1>1, <1>2, <1>13 DEF Released, Positioned
  <2>2. Unread(p)'
    BY <2>1, ReadersKept
  <2>3. Sound(p)' /\ Shut(p)'
    BY <2>1, <2>2 DEF Sound, Unread, Shut
  <2>4. CASE GoesTo(a, "clear")
    BY <1>13, <2>3, <2>4 DEF Released, GoesTo, Positioned, OpenAt, Storing
  <2>5. CASE Gone(a)
    BY <1>0, <1>13, <2>3, <2>5 DEF Released, Gone
  <2> QED BY <2>1, <2>4, <2>5 DEF ClosedTo
<1>14. CASE Cleared(a)
  <2>1. /\ Shut(p) /\ Connection(p)' = 0 /\ Thread(p)' = 0 /\ UNCHANGED threads /\ Gone(a)
    BY <1>1, <1>14 DEF Cleared, Positioned, Keeps, Shut
  <2>2. Unread(p)'
    BY <2>1, ReadersKept DEF Shut
  <2> QED BY <1>0, <1>14, <2>1, <2>2 DEF Sound, Unread, Shut, Gone, Cleared
<1> QED BY <1>0, <1>4, <1>5, <1>6, <1>7, <1>9, <1>10, <1>11, <1>12, <1>13, <1>14 DEF Effect

LEMMA DeviceStepUse ==
  ASSUME Shape, OwnedInv, UseInv, NEW a \in Actor, DeviceSteps(a), overlap' = overlap
  PROVE  UseInv'
<1>1. Reach(a)
  BY DeviceStepReach
<1> SUFFICES ASSUME NEW o \in DOMAIN devices \ overlap PROVE UseOf(o)'
  BY <1>1 DEF UseInv, Reach
<1>2. UseOf(o) /\ o # 0
  BY ObjectFields, DomainOfSeq DEF UseInv, Shape, ObjectTypes
<1>3. CASE o # actor[a].device
  BY <1>2, <1>3, DeviceStepElsewhere, UseKept
<1>4. CASE o = actor[a].device /\ Thrown(a)
  <2>1. Untouched(o)
    BY <1>1, <1>4 DEF Untouched, Thrown, Keeps, Has, ManagerKept, Device, Connection, Thread, Reach
  <2>2. \A b \in Actor : actor'[b].device = o => actor'[b] = actor[b]
    BY <1>1, <1>2, <1>4 DEF Reach, Thrown, Gone
  <2> QED BY <1>2, <1>4, <2>1, <2>2, UseKept DEF Thrown
<1>5. CASE o = actor[a].device /\ ~Thrown(a)
  <2>1. Sound(o) /\ Positioned(a, o) /\ AloneIn(o)
    BY <1>2, <1>5 DEF UseOf
  <2>2. Sound(o)' /\ (actor'[a].device = o => Positioned(a, o)')
    BY <1>5, <2>1, OwnStep
  <2>3. \A b \in Actor : actor'[b].device = o => b = a
    BY <1>1, <1>5, <2>1 DEF Reach, AloneIn
  <2> QED BY <2>2, <2>3 DEF UseOf, AloneIn
<1> QED BY <1>3, <1>4, <1>5

LEMMA UnchangedIsUntouched ==
  ASSUME UNCHANGED objects, NEW o \in DOMAIN devices
  PROVE  Untouched(o)
BY DEF objects, Untouched, Connection, Thread

LEMMA AsideUse ==
  ASSUME Shape, OwnedInv, UseInv, Aside
  PROVE  UseInv'
<1> SUFFICES ASSUME NEW o \in DOMAIN devices \ overlap PROVE UseOf(o)'
  BY DEF UseInv, Aside, objects
<1>1. UseOf(o) /\ o # 0 /\ Untouched(o)
  BY ObjectFields, DomainOfSeq, UnchangedIsUntouched DEF UseInv, Shape, ObjectTypes, Aside
<1>2. UNCHANGED connections /\ \A a \in Actor : actor'[a].device = o => actor'[a] = actor[a]
  BY <1>1 DEF Aside, objects
<1> QED BY <1>1, <1>2, UseKept

\* The entries of the table can call the manager, until it is closed.
TableManaged == actor["main"].job # "destroy" =>
                  \A id \in DOMAIN mDevicesById : devices[mDevicesById[id]].mManager

\* A thread that enters an object that nobody uses finds it as it needs it.
LEMMA BeginsUse ==
  ASSUME Shape, OwnedInv, UseInv, TableManaged, NEW a \in Actor, Begins(a)
  PROVE  UseInv'
<1>1. UNCHANGED <<devices, connections, threads>> /\ overlap \subseteq overlap'
  BY DEF Begins, objects, Enter
<1> SUFFICES ASSUME NEW o \in DOMAIN devices \ overlap' PROVE UseOf(o)'
  BY <1>1 DEF UseInv
<1>2. UseOf(o) /\ o # 0 /\ Untouched(o)
  BY <1>1, ObjectFields, DomainOfSeq, UnchangedIsUntouched DEF UseInv, Shape, ObjectTypes, Begins
<1>3. CASE o # actor'[a].device
  <2>1. \A b \in Actor : actor'[b].device = o => actor'[b] = actor[b]
    BY <1>3 DEF Begins
  <2> QED BY <1>1, <1>2, <2>1, UseKept
<1>4. CASE o = actor'[a].device
  <2>1. ~InUse(a, o, actor'[a].at)
    BY <1>4 DEF Begins, Enter
  <2>2. \A b \in Actor : actor'[b].device = o => b = a
    BY <1>4, <2>1 DEF InUse, Begins
  <2>3. Sound(o) /\ Sound(o)' /\ (Shut(o) => Shut(o)')
    BY <1>2, UntouchedStays DEF UseOf
  <2>4. CASE actor'[a].at = "connect"
    <3>1. Connection(o) = 0 /\ Thread(o) = 0
      BY <2>1, <2>4 DEF InUse, Connection, Thread
    <3>2. Shut(o)'
      BY <2>3, <3>1, NoThreadNoReader DEF Shut
    <3>3. a = "main" => devices'[o].mManager
      BY <1>1, <1>4, <2>4 DEF Begins, TableManaged
    <3> QED BY <2>2, <2>3, <2>4, <3>2, <3>3 DEF UseOf, AloneIn, Positioned, Storing, OpenAt
  <2>5. CASE actor'[a].at = "stop"
    BY <2>2, <2>3, <2>5 DEF UseOf, AloneIn, Positioned, Storing, OpenAt
  <2> QED BY <2>4, <2>5 DEF Begins
<1> QED BY <1>3, <1>4

\* An input thread goes on reading from the connection of its object, or ends.
LEMMA ReaderUse ==
  ASSUME Shape, OwnedInv, UseInv, NEW t \in DOMAIN threads, ReaderMoves(t)
  PROVE  UseInv'
<1>1. UNCHANGED <<devices, connections, actor, overlap>> /\ DOMAIN threads' = DOMAIN threads
  BY DEF ReaderMoves
<1> SUFFICES ASSUME NEW o \in DOMAIN devices \ overlap PROVE UseOf(o)'
  BY <1>1 DEF UseInv
<1>2. UseOf(o)
  BY DEF UseInv
<1>3. CASE threads[t].of # o
  <2>1. Untouched(o)
    BY <1>1, <1>3 DEF Untouched, ReaderMoves, Connection, Thread
  <2> QED BY <1>1, <1>2, <2>1, UseKept
<1>4. CASE threads[t].of = o
  <2>1. /\ Reads(t, o) /\ ~Unread(o) /\ ~Shut(o)
        /\ t = Thread(o) /\ Connection(o) # 0 /\ devices[o].mManager
    BY <1>2, <1>4 DEF ReaderMoves, Reads, UseOf, Sound, Unread, Shut
  <2>2. \A u \in DOMAIN threads : Reads(u, o)' => u = t
    BY <1>1, <1>2, <2>1 DEF UseOf, Sound, ReaderMoves, Reads
  <2>3. Sound(o)'
    BY <1>1, <1>2, <1>4, <2>1, <2>2 DEF Sound, UseOf, ReaderMoves, Connection, Thread
  <2>4. ASSUME NEW a \in Actor, actor'[a].device = o PROVE Positioned(a, o)'
    <3>1. Positioned(a, o)
      BY <1>1, <1>2, <2>4 DEF UseOf
    <3>2. actor[a].at \notin {"connect", "store", "clear", "start", "forget"}
      BY <2>1, <3>1 DEF Positioned
    <3>3. ~Storing(a)
      BY <3>2 DEF Storing
    <3> QED BY <1>1, <2>1, <3>1, <3>2, <3>3 DEF Positioned, Connection, Thread, Storing
  <2> QED BY <1>1, <1>2, <2>3, <2>4 DEF UseOf, AloneIn
<1> QED BY <1>3, <1>4

LEMMA WhereActorsAre ==
  ASSUME Shape, NEW a \in Actor
  PROVE  actor[a].device \in DOMAIN devices \cup {0}
BY DEF Shape, ActorShape, MainShape, SDLShape, InDevice, Actor, Idle

LEMMA ConnectsUse ==
  ASSUME Shape, IdsInv, OwnedInv, UseInv, NEW d \in Devices, Connects(d)
  PROVE  UseInv'
<1>1. Grows(d) /\ UNCHANGED <<connections, threads, overlap>>
  BY ConnectsFrame
<1>2. \A a \in Actor : actor'[a].device = actor[a].device /\ actor'[a].device # 0 => actor'[a] = actor[a]
  <2>1. CASE actor' = actor
    BY <2>1
  <2>2. CASE Initialize
    BY <2>2, InitializeFrame DEF Actor, Idle
  <2> QED BY <2>1, <2>2 DEF Connects, HandleUsbDeviceAttached, Initialize
<1>3. \A a \in Actor : actor'[a].device = actor[a].device
  <2>1. CASE actor' = actor
    BY <2>1
  <2>2. CASE Initialize
    BY <2>2, InitializeFrame DEF Actor, Idle
  <2> QED BY <2>1, <2>2 DEF Connects, HandleUsbDeviceAttached, Initialize
<1> SUFFICES ASSUME NEW o \in DOMAIN devices' \ overlap PROVE UseOf(o)'
  BY <1>1 DEF UseInv
<1>4. o # 0
  BY <1>1, DomainOfSeq DEF Grows
<1>5. CASE o \in DOMAIN devices
  <2>1. Untouched(o)
    BY <1>1, <1>5 DEF Untouched, Grows, Connection, Thread
  <2>2. UseOf(o)
    BY <1>5 DEF UseInv
  <2>3. \A a \in Actor : actor'[a].device = o => actor'[a] = actor[a]
    BY <1>2, <1>3, <1>4
  <2> QED BY <1>1, <1>5, <2>1, <2>2, <2>3, UseKept
<1>6. CASE o \notin DOMAIN devices
  <2>1. PICK p \in ports : devices'[o] = NewDevice(d, p)
    BY <1>1, <1>6 DEF Grows
  <2>2. devices'[o].mConnection = 0 /\ devices'[o].mInputThread = 0
    BY <2>1, NewDeviceFields
  <2>3. \A t \in DOMAIN threads' : ~Reads(t, o)'
    BY <1>1, <1>6 DEF Reads, Shape, ObjectTypes
  <2>4. \A a \in Actor : actor'[a].device # o
    BY <1>3, <1>4, <1>6, WhereActorsAre
  <2> QED BY <2>2, <2>3, <2>4 DEF UseOf, AloneIn, Sound, Connection
<1> QED BY <1>5, <1>6

LEMMA NextUse ==
  ASSUME Shape, IdsInv, OwnedInv, TableManaged, UseInv, [Next]_vars
  PROVE  UseInv'
<1>1. CASE Aside
  BY <1>1, AsideUse
<1>2. ASSUME NEW a \in Actor, DeviceStep(a) PROVE UseInv'
  BY <1>2, DeviceStepUse DEF DeviceStep, DeviceSteps, Unshared
<1>3. CASE UNCHANGED vars
  BY <1>1, <1>3 DEF vars, javaHeap, Aside
<1>4. CASE Restart
  BY <1>4 DEF Restart, UseInv
<1>5. CASE \E d \in Devices : Connects(d)
  BY <1>5, ConnectsUse
<1>6. CASE Others
  BY <1>1, <1>2, <1>6, OthersKinds, BeginsUse, ReaderUse
<1> QED BY <1>3, <1>4, <1>5, <1>6, StepKinds

-----------------------------------------------------------------------------
(***************************************************************************)
(* Who may be without a manager.                                           *)
(***************************************************************************)

InTable(o)   == \E id \in DOMAIN mDevicesById : mDevicesById[id] = o
Replaced(o)  == \E n \in DOMAIN devices : n > o /\ devices[n].id = devices[o].id
In(o, jobs)  == actor["main"].device = o /\ actor["main"].job \in jobs

\* An object that is being detached has left the table.
DetachedIsOut == \A o \in DOMAIN devices : In(o, {"detach"}) => ~InTable(o)
ManagerInv    == TableManaged /\ DetachedIsOut

LEMMA ManagerStays ==
  ASSUME Shape, ManagerInv, DOMAIN devices' = DOMAIN devices,
         \A o \in DOMAIN devices : InTable(o) => devices'[o].mManager = devices[o].mManager,
         DOMAIN mDevicesById' \subseteq DOMAIN mDevicesById,
         \A id \in DOMAIN mDevicesById' : mDevicesById'[id] = mDevicesById[id],
         actor'["main"].job # "destroy" => actor["main"].job # "destroy" \/ DOMAIN mDevicesById' = {},
         actor'["main"].job = "detach" /\ actor'["main"].device # 0 =>
           actor["main"].job = "detach" /\ actor'["main"].device = actor["main"].device
  PROVE  ManagerInv'
<1>1. \A id \in DOMAIN mDevicesById : mDevicesById[id] \in DOMAIN devices /\ InTable(mDevicesById[id])
  BY DEF Shape, TableTypes, InTable
<1>2. TableManaged'
  BY <1>1 DEF ManagerInv, TableManaged
<1>3. \A o \in DOMAIN devices : o # 0
  BY DomainOfSeq DEF Shape, ObjectTypes
<1>4. DetachedIsOut'
  BY <1>3 DEF ManagerInv, DetachedIsOut, In, InTable
<1> QED BY <1>2, <1>4 DEF ManagerInv

LEMMA DeviceStepManager ==
  ASSUME Shape, OwnedInv, ManagerInv, NEW a \in Actor, DeviceStep(a)
  PROVE  ManagerInv'
<1>1. DeviceSteps(a) /\ mDevicesById' = mDevicesById
  BY DEF DeviceStep, DeviceSteps, Unshared
<1>2. Reach(a) /\ Moves(a) /\ (Thrown(a) \/ Effect(a)) /\ actor[a].at \in DeviceAt
  BY <1>1, DeviceStepReach, DeviceStepFrame, DeviceStepEffect
<1>3. /\ InDevice(a)
      /\ a = "main" => actor[a].job \in {"detach", "permission", "destroy"}
      /\ a = "sdl" => actor[a].job \in {"open", "close"}
  BY <1>2, InsideDevice
<1>4. /\ actor'["main"].job = actor["main"].job
      /\ actor'["main"].device \in {0, actor["main"].device}
  BY <1>2, <1>3 DEF Moves, Reach, Actor
<1>5. CASE ~Cleared(a)
  <2>1. ManagerKept
    BY <1>2, <1>5 DEF Thrown, Effect, Connected, Stored, Claimed, Quiet, Tested, Looked, Forgot,
       Freed, Released, Created, Started
  <2> QED BY <1>1, <1>2, <1>4, <2>1, ManagerStays DEF Reach, ManagerKept
<1>6. CASE Cleared(a)
  <2>1. a = "main" /\ actor["main"].job \in {"detach", "destroy"}
    BY <1>3, <1>6 DEF Cleared, InDevice, Reaches, Actor
  <2>2. CASE actor["main"].job = "detach"
    <3>1. \A o \in DOMAIN devices : InTable(o) => o # actor[a].device
      BY <2>1, <2>2 DEF ManagerInv, DetachedIsOut, In
    <3> QED BY <1>1, <1>2, <1>4, <1>6, <3>1, ManagerStays DEF Reach, Cleared
  <2>3. CASE actor["main"].job = "destroy"
    BY <1>4, <2>3 DEF ManagerInv, TableManaged, DetachedIsOut, In
  <2> QED BY <2>1, <2>2, <2>3
<1> QED BY <1>5, <1>6

LEMMA VisitManager ==
  ASSUME Shape, TableInv, ManagerInv, Visit
  PROVE  ManagerInv'
<1>1. VisitBegins
  BY VisitFrame
<1> DEFINE id == Head(actor["main"].todo)  o == mDevicesById[id]
<1>2. CASE actor["main"].job # "detach"
  <2>1. /\ mDevicesById' = mDevicesById /\ devices' = devices
        /\ actor'["main"].job = actor["main"].job /\ actor["main"].job # "detach"
    BY <1>1, <1>2 DEF VisitBegins, objects
  <2> QED BY <2>1, ManagerStays
<1>3. CASE actor["main"].job = "detach"
  <2>1. /\ mDevicesById' = Without({id}) /\ devices' = devices
        /\ actor'["main"].job = "detach" /\ actor'["main"].device = o /\ id \in DOMAIN mDevicesById
    BY <1>1, <1>3 DEF VisitBegins, objects
  <2>2. /\ DOMAIN mDevicesById' = DOMAIN mDevicesById \ {id}
        /\ \A n \in DOMAIN mDevicesById' : mDevicesById'[n] = mDevicesById[n]
    BY <2>1 DEF Without
  <2>3. TableManaged'
    BY <1>3, <2>1, <2>2 DEF ManagerInv, TableManaged
  <2>4. \A n \in DOMAIN mDevicesById : mDevicesById[n] = o => n = id
    BY <2>1 DEF TableInv
  <2>5. DetachedIsOut'
    BY <2>1, <2>2, <2>4 DEF DetachedIsOut, In, InTable
  <2> QED BY <2>3, <2>5 DEF ManagerInv
<1> QED BY <1>2, <1>3

LEMMA OthersManager ==
  ASSUME Shape, OwnedInv, TableInv, ManagerInv, Others
  PROVE  ManagerInv'
<1>1. CASE UNCHANGED <<devices, mDevicesById>> /\ actor'["main"] = actor["main"]
  BY <1>1, ManagerStays
<1>2. CASE UNCHANGED <<devices, mDevicesById>> /\ actor["main"].job = "none" /\ actor'["main"].device = 0
  BY <1>2, ManagerStays
<1>3. CASE \E d \in Devices : Plug(d) \/ Unplug(d) \/ \E g \in BOOLEAN : Answer(d, g)
  BY <1>1, <1>3 DEF Plug, Unplug, Answer, javaHeap, objects
<1>4. ASSUME NEW d \in Devices, HandleUsbDeviceDetached(d) \/ HandleUsbDevicePermission(d)
      PROVE  ManagerInv'
  <2> DEFINE ids == IdsOf(d)
  <2>1. ids \in SUBSET DOMAIN mDevicesById
    BY IdsOfDeviceInTable
  <2>2. /\ actor["main"].job = "none" /\ UNCHANGED <<devices, mDevicesById>>
        /\ actor' = actor \/ VisitAll("detach", ids) \/ VisitAll("permission", ids)
    BY <1>4 DEF HandleUsbDeviceDetached, HandleUsbDevicePermission, Receives, objects
  <2> HIDE DEF ids
  <2> QED BY <1>1, <1>2, <2>1, <2>2, VisitAllFrame
<1>5. CASE Release
  <2> DEFINE ids == DOMAIN mDevicesById
  <2>1. /\ VisitAll("destroy", ids) /\ ids \in SUBSET DOMAIN mDevicesById
        /\ UNCHANGED <<devices, mDevicesById>> /\ actor["main"].job = "none"
    BY <1>5 DEF Release, objects
  <2> HIDE DEF ids
  <2> QED BY <1>2, <2>1, VisitAllFrame
<1>6. CASE RegisterReceiver \/ ListDevices \/ (Enumerate /\ actor["sdl"].todo = <<>>)
  <2>1. actor'["main"] = actor["main"]
    BY <1>6, InitializeFrame DEF Initialize
  <2>2. UNCHANGED <<devices, mDevicesById>>
    BY <1>6 DEF RegisterReceiver, ListDevices, Enumerate, objects
  <2> QED BY <1>1, <2>1, <2>2
<1>7. CASE OpenDevice \/ CloseDevice
  <2>1. PICK job \in {"open", "close"}, at \in {"connect", "stop"} : Call(job, at)
    BY <1>7 DEF OpenDevice, CloseDevice
  <2> QED BY <1>1, <2>1, CallFrame DEF CallBegins, objects
<1>8. CASE Visit
  BY <1>8, VisitManager
<1>9. CASE Visited
  <2>1. /\ devices' = devices /\ actor'["main"].job = "none"
        /\ \/ mDevicesById' = mDevicesById /\ actor["main"].job # "destroy"
           \/ DOMAIN mDevicesById' = {}
    BY <1>9, VisitedFrame DEF objects, Idle
  <2> QED BY <2>1, ManagerStays
<1>10. CASE \E a \in Actor : DeviceStep(a)
  BY <1>10, DeviceStepManager
<1>11. CASE \E t \in DOMAIN threads : InputThread(t)
  BY <1>1, <1>11, InputThreadFrame DEF ReaderMoves
<1> QED BY <1>3, <1>4, <1>5, <1>6, <1>7, <1>8, <1>9, <1>10, <1>11 DEF Others

\* A connecting device enters the table while the main thread is not in it.
LEMMA ConnectsMain ==
  ASSUME Shape, NEW d \in Devices, Connects(d)
  PROVE  /\ actor'["main"] = actor["main"] /\ actor["main"].job # "destroy"
         /\ actor'["sdl"].device = actor["sdl"].device
<1>1. CASE HandleUsbDeviceAttached(d)
  BY <1>1 DEF HandleUsbDeviceAttached, Receives
<1>2. CASE Enumerate /\ actor["sdl"].todo # <<>>
  <2>1. LockFree("sdl")
    BY <1>2 DEF Enumerate
  <2> QED BY <1>2, <2>1, InitializeFrame DEF Initialize, LockFree, Idle
<1> QED BY <1>1, <1>2 DEF Connects

LEMMA ConnectsManager ==
  ASSUME Shape, IdsInv, ManagerInv, NEW d \in Devices, Connects(d)
  PROVE  ManagerInv'
<1>1. Grows(d) /\ Enters(d) /\ actor'["main"] = actor["main"]
  BY ConnectsFrame, ConnectsMain
<1>2. \A id \in DOMAIN mDevicesById' :
        \/ id \in DOMAIN mDevicesById /\ mDevicesById'[id] = mDevicesById[id]
        \/ \E p \in ports : mDevicesById'[id] = Len(devices) + p
  BY <1>1 DEF Enters
<1>3. \A p \in ports : /\ Len(devices) + p \notin DOMAIN devices
                       /\ devices'[Len(devices) + p].mManager
  <2>1. \A p \in ports : p \in Nat /\ p > 0
    BY DEF Shape, WorldTypes
  <2>2. DOMAIN devices = 1..Len(devices) /\ Len(devices) \in Nat
    BY DomainOfSeq DEF Shape, ObjectTypes
  <2>3. \A p \in ports : Len(devices) + p \notin DOMAIN devices
    BY <2>1, <2>2
  <2>4. ASSUME NEW p \in ports PROVE devices'[Len(devices) + p].mManager
    <3>1. devices'[Len(devices) + p] = NewDevice(d, p)
      BY <1>1 DEF Grows
    <3>2. NewDevice(d, p).mManager = TRUE
      BY NewDeviceFields
    <3> QED BY <3>1, <3>2
  <2> QED BY <2>3, <2>4
<1>4. \A id \in DOMAIN mDevicesById : mDevicesById[id] \in DOMAIN devices
  BY DEF Shape, TableTypes
<1>5. TableManaged'
  BY <1>1, <1>2, <1>3, <1>4 DEF ManagerInv, TableManaged, Grows
<1>6. DetachedIsOut'
  <2> SUFFICES ASSUME In(actor["main"].device, {"detach"}), actor["main"].device # 0,
                      NEW id \in DOMAIN mDevicesById', mDevicesById'[id] = actor["main"].device
               PROVE  FALSE
    <3>1. \A o \in DOMAIN devices' : o # 0
      BY <1>1, DomainOfSeq DEF Grows
    <3> QED BY <1>1, <3>1 DEF DetachedIsOut, In, InTable
  <2>1. actor["main"].device \in DOMAIN devices
    BY WhereActorsAre DEF Actor
  <2> QED BY <1>2, <1>3, <2>1 DEF ManagerInv, DetachedIsOut, InTable
<1> QED BY <1>5, <1>6 DEF ManagerInv

LEMMA NextManager ==
  ASSUME Shape, IdsInv, TableInv, OwnedInv, ManagerInv, [Next]_vars
  PROVE  ManagerInv'
<1>1. CASE UNCHANGED vars
  BY <1>1, ManagerStays DEF vars, javaHeap, objects
<1>2. CASE Restart
  BY <1>2, StartingShape DEF Restart, ManagerInv, TableManaged, DetachedIsOut
<1> QED BY <1>1, <1>2, StepKinds, OthersManager, ConnectsManager

-----------------------------------------------------------------------------
(***************************************************************************)
(* What has left the table is shut.                                        *)
(***************************************************************************)

ToVisit(o) == \E i \in DOMAIN actor["main"].todo : mDevicesById[actor["main"].todo[i]] = o

\* An object is in the table, was replaced there, is shut, or is being detached; only
\* objects in the table, or replaced, are opened, closed or destroyed; and while the
\* manager is closed, an object of the table is yet to be shut down, or is shut.
Accountable(o) == InTable(o) \/ Replaced(o) \/ Shut(o) \/ In(o, {"detach"})
UsedFrom(o)    == actor["sdl"].device = o \/ In(o, {"permission", "destroy"})
                    => InTable(o) \/ Replaced(o)
Destroying(o)  == actor["main"].job = "destroy" /\ InTable(o)
                    => \/ ToVisit(o) \/ actor["main"].device = o
                       \/ Shut(o) /\ actor["sdl"].device # o
LeakOf(o) == Accountable(o) /\ UsedFrom(o) /\ Destroying(o)
LeakInv   == \A o \in DOMAIN devices \ overlap : LeakOf(o)

LEMMA SameTable ==
  ASSUME UNCHANGED mDevicesById, DOMAIN devices' = DOMAIN devices,
         \A n \in DOMAIN devices : devices'[n].id = devices[n].id,
         NEW o \in DOMAIN devices
  PROVE  InTable(o)' = InTable(o) /\ Replaced(o)' = Replaced(o)
BY DEF InTable, Replaced

\* A step that keeps the table and the main thread, and sends the SDL thread into no
\* other object.
LEMMA LeakStays ==
  ASSUME Shape, NEW o \in DOMAIN devices, LeakOf(o),
         InTable(o)' = InTable(o), Replaced(o)' = Replaced(o), Shut(o) => Shut(o)',
         actor'["main"] = actor["main"],
         actor'["sdl"].device = o => actor["sdl"].device = o,
         UNCHANGED mDevicesById
  PROVE  LeakOf(o)'
<1>1. In(o, {"detach"})' = In(o, {"detach"}) /\ In(o, {"permission", "destroy"})' = In(o, {"permission", "destroy"})
  BY DEF In
<1>2. Accountable(o)' /\ UsedFrom(o)'
  BY <1>1 DEF LeakOf, Accountable, UsedFrom
<1>3. ToVisit(o)' = ToVisit(o)
  BY DEF ToVisit
<1>4. Destroying(o)'
  BY <1>3 DEF LeakOf, Destroying
<1> QED BY <1>2, <1>4 DEF LeakOf

LEMMA DeviceStepLeak ==
  ASSUME Shape, OwnedInv, UseInv, LeakInv, NEW a \in Actor, DeviceStep(a)
  PROVE  LeakInv'
<1>1. DeviceSteps(a) /\ mDevicesById' = mDevicesById /\ overlap' = overlap
  BY DEF DeviceStep, DeviceSteps, Unshared
<1>2. Reach(a) /\ Moves(a) /\ Touches(a) /\ (Thrown(a) \/ Effect(a)) /\ actor[a].at \in DeviceAt
  BY <1>1, DeviceStepReach, DeviceStepFrame, DeviceStepEffect
<1>3. /\ a = "main" => actor[a].job \in {"detach", "permission", "destroy"}
      /\ a = "sdl" => actor[a].job \in {"open", "close"}
  BY <1>2, InsideDevice
<1>4. /\ actor'["main"].job = actor["main"].job /\ actor'["main"].todo = actor["main"].todo
      /\ \A b \in Actor : actor'[b].device \in {0, actor[b].device}
  BY <1>2, <1>3 DEF Moves, Reach, Actor
<1> SUFFICES ASSUME NEW o \in DOMAIN devices \ overlap PROVE LeakOf(o)'
  BY <1>1, <1>2 DEF LeakInv, Reach
<1>5. LeakOf(o) /\ UseOf(o) /\ o # 0 /\ InTable(o)' = InTable(o) /\ Replaced(o)' = Replaced(o)
  BY <1>1, <1>2, ObjectFields, DomainOfSeq, SameTable DEF LeakInv, UseInv, Touches, Reach, Shape, ObjectTypes
<1>6. UsedFrom(o)' /\ ToVisit(o)' = ToVisit(o)
  BY <1>1, <1>4, <1>5 DEF LeakOf, UsedFrom, In, Actor, ToVisit
<1>7. CASE o # actor[a].device
  <2>1. Shut(o) => Shut(o)'
    BY <1>1, <1>7, DeviceStepElsewhere, UntouchedStays
  <2>2. actor["main"].device = o => actor'["main"].device = o
    BY <1>2, <1>7 DEF Reach, Actor
  <2>3. Accountable(o)'
    BY <1>4, <1>5, <2>1, <2>2 DEF LeakOf, Accountable, In
  <2>4. Destroying(o)'
    BY <1>4, <1>5, <1>6, <2>1, <2>2 DEF LeakOf, Destroying, Actor
  <2> QED BY <1>6, <2>3, <2>4 DEF LeakOf
<1>8. CASE o = actor[a].device /\ a = "main"
  <2>1. CASE Thrown(a)
    <3>1. actor' = actor
      BY <1>8, <2>1 DEF Thrown
    <3>2. Untouched(o)
      BY <1>2, <1>8, <2>1 DEF Untouched, Thrown, Keeps, Has, ManagerKept, Device, Connection, Thread, Reach
    <3>3. Shut(o) => Shut(o)'
      BY <3>2, UntouchedStays
    <3> QED BY <1>1, <1>5, <3>1, <3>3, LeakStays
  <2>2. CASE ~Thrown(a)
    <3>1. Sound(o) /\ Positioned(a, o)
      BY <1>5, <1>8 DEF UseOf
    <3>2. actor'[a].device # o /\ actor[a].job \in {"detach", "destroy"} => Shut(o)'
      BY <1>1, <1>8, <2>2, <3>1, OwnStep
    <3>3. Accountable(o)'
      BY <1>3, <1>4, <1>5, <1>8, <3>2 DEF LeakOf, Accountable, UsedFrom, In
    <3>4. actor'["sdl"].device # o
      BY <1>4, <1>5, <1>8 DEF UseOf, AloneIn, Actor
    <3>5. Destroying(o)'
      BY <1>4, <1>8, <3>2, <3>4 DEF Destroying
    <3> QED BY <1>6, <3>3, <3>5 DEF LeakOf
  <2> QED BY <2>1, <2>2
<1>9. CASE o = actor[a].device /\ a = "sdl"
  <2>1. InTable(o) \/ Replaced(o)
    BY <1>5, <1>9 DEF LeakOf, UsedFrom
  <2>2. actor["main"].device # o
    BY <1>5, <1>9 DEF UseOf, AloneIn, Actor
  <2>3. Accountable(o)'
    BY <1>5, <2>1 DEF Accountable
  <2>4. Destroying(o)'
    BY <1>4, <1>5, <1>6, <1>9, <2>2 DEF LeakOf, Destroying
  <2> QED BY <1>6, <2>3, <2>4 DEF LeakOf
<1> QED BY <1>7, <1>8, <1>9 DEF Actor

\* The main thread begins its loop over the table.
LEMMA LoopLeak ==
  ASSUME Shape, LeakInv, UNCHANGED <<objects, mDevicesById, overlap>>,
         NEW job \in {"detach", "permission", "destroy"},
         NEW ids \in SUBSET DOMAIN mDevicesById, VisitAll(job, ids),
         actor["main"].job = "none", job = "destroy" => ids = DOMAIN mDevicesById
  PROVE  LeakInv'
<1>1. UNCHANGED <<devices, connections, threads>>
  BY DEF objects
<1> SUFFICES ASSUME NEW o \in DOMAIN devices \ overlap PROVE LeakOf(o)'
  BY <1>1 DEF LeakInv
<1>2. LeakOf(o) /\ o # 0
  BY DomainOfSeq DEF LeakInv, Shape, ObjectTypes
<1>3. /\ actor'["main"].device = 0 /\ actor'["main"].job = job /\ actor'["sdl"] = actor["sdl"]
      /\ \A id \in ids : \E i \in DOMAIN actor'["main"].todo : actor'["main"].todo[i] = id
  BY VisitAllFrame
<1>4. /\ InTable(o)' = InTable(o) /\ Replaced(o)' = Replaced(o) /\ Shut(o)' = Shut(o)
      /\ ~In(o, {"detach"})
  BY <1>1 DEF InTable, Replaced, Shut, Unread, Reads, Connection, Thread, In
<1>5. Accountable(o)' /\ UsedFrom(o)'
  BY <1>2, <1>3, <1>4 DEF LeakOf, Accountable, UsedFrom, In
<1>6. Destroying(o)'
  BY <1>3 DEF Destroying, ToVisit, InTable
<1> QED BY <1>5, <1>6 DEF LeakOf

\* Steps that change neither objects nor table: the SDL thread may enter an object,
\* through the table, while the manager is not being closed.
LEMMA QuietLeak ==
  ASSUME Shape, LeakInv, UNCHANGED <<objects, mDevicesById>>, overlap \subseteq overlap',
         actor'["main"] = actor["main"],
         \A o \in DOMAIN devices \ overlap' :
            actor'["sdl"].device = o => \/ actor["sdl"].device = o
                                        \/ InTable(o) /\ actor["main"].job # "destroy"
  PROVE  LeakInv'
<1>1. UNCHANGED <<devices, connections, threads>>
  BY DEF objects
<1> SUFFICES ASSUME NEW o \in DOMAIN devices \ overlap' PROVE LeakOf(o)'
  BY <1>1 DEF LeakInv
<1>2. LeakOf(o)
  BY DEF LeakInv
<1>3. InTable(o)' = InTable(o) /\ Replaced(o)' = Replaced(o) /\ Shut(o)' = Shut(o)
  BY <1>1 DEF InTable, Replaced, Shut, Unread, Reads, Connection, Thread
<1>4. CASE actor'["sdl"].device = o => actor["sdl"].device = o
  BY <1>2, <1>3, <1>4, LeakStays
<1>5. CASE InTable(o) /\ actor["main"].job # "destroy"
  <2>1. Accountable(o)' /\ UsedFrom(o)'
    BY <1>3, <1>5 DEF Accountable, UsedFrom
  <2>2. Destroying(o)'
    BY <1>5 DEF Destroying
  <2> QED BY <2>1, <2>2 DEF LeakOf
<1> QED BY <1>4, <1>5

LEMMA VisitLeak ==
  ASSUME Shape, TableInv, LeakInv, Visit
  PROVE  LeakInv'
<1> DEFINE id == Head(actor["main"].todo)  x == mDevicesById[id]  job == actor["main"].job
<1>1. VisitBegins
  BY VisitFrame
<1>2. /\ UNCHANGED <<devices, connections, threads>> /\ actor'["sdl"] = actor["sdl"]
      /\ actor'["main"].job = job /\ actor'["main"].device = x /\ id \in DOMAIN mDevicesById
      /\ job \in {"detach", "permission", "destroy"} /\ actor["main"].device = 0
      /\ mDevicesById' = IF job = "detach" THEN Without({id}) ELSE mDevicesById
      /\ overlap \subseteq overlap' /\ x \in DOMAIN devices
      /\ actor["sdl"].device = x => x \in overlap'
  BY <1>1 DEF VisitBegins, objects, Enter, InUse, Actor
<1>3. \A i \in DOMAIN actor["main"].todo :
        \/ i = 1 /\ actor["main"].todo[i] = id
        \/ i - 1 \in DOMAIN actor'["main"].todo /\ actor'["main"].todo[i - 1] = actor["main"].todo[i]
  BY <1>1 DEF VisitBegins
<1> HIDE DEF id, x, job
<1> SUFFICES ASSUME NEW o \in DOMAIN devices \ overlap' PROVE LeakOf(o)'
  BY <1>2 DEF LeakInv
<1>4. LeakOf(o) /\ o # 0 /\ (actor["sdl"].device = o => o # x)
  BY <1>2, DomainOfSeq DEF LeakInv, Shape, ObjectTypes
<1>5. Replaced(o)' = Replaced(o) /\ Shut(o)' = Shut(o) /\ ~In(o, {"detach"})
  BY <1>2, <1>4 DEF Replaced, Shut, Unread, Reads, Connection, Thread, In
<1>6. mDevicesById[id] = x /\ job = actor["main"].job
  BY DEF x, job
<1>7. CASE job = "detach"
  <2>1. /\ DOMAIN mDevicesById' = DOMAIN mDevicesById \ {id}
        /\ \A n \in DOMAIN mDevicesById' : mDevicesById'[n] = mDevicesById[n]
    BY <1>2, <1>7 DEF Without
  <2>2. o # x => (InTable(o) => InTable(o)')
    BY <1>6, <2>1 DEF InTable
  <2>3. o = x => In(o, {"detach"})'
    BY <1>2, <1>7 DEF In
  <2>4. Accountable(o)'
    BY <1>4, <1>5, <2>2, <2>3 DEF LeakOf, Accountable
  <2>5. UsedFrom(o)' /\ Destroying(o)'
    BY <1>2, <1>4, <1>5, <1>7, <2>2 DEF LeakOf, UsedFrom, In, Destroying
  <2> QED BY <2>4, <2>5 DEF LeakOf
<1>8. CASE job # "detach"
  <2>1. mDevicesById' = mDevicesById /\ InTable(o)' = InTable(o) /\ InTable(x)
    BY <1>2, <1>6, <1>8 DEF InTable
  <2>2. Accountable(o)' /\ UsedFrom(o)'
    BY <1>2, <1>4, <1>5, <2>1 DEF LeakOf, Accountable, UsedFrom, In
  <2>3. ToVisit(o) => ToVisit(o)' \/ o = x
    <3>1. ASSUME NEW i \in DOMAIN actor["main"].todo, mDevicesById[actor["main"].todo[i]] = o, o # x
          PROVE  ToVisit(o)'
      <4>1. i - 1 \in DOMAIN actor'["main"].todo /\ actor'["main"].todo[i - 1] = actor["main"].todo[i]
        BY <1>3, <1>6, <3>1
      <4> QED BY <2>1, <3>1, <4>1 DEF ToVisit
    <3> QED BY <3>1 DEF ToVisit
  <2>4. Destroying(o)'
    BY <1>2, <1>4, <1>5, <1>6, <2>1, <2>3 DEF LeakOf, Destroying
  <2> QED BY <2>2, <2>4 DEF LeakOf
<1> QED BY <1>7, <1>8

LEMMA VisitedLeak ==
  ASSUME Shape, LeakInv, Visited
  PROVE  LeakInv'
<1>1. /\ UNCHANGED <<devices, connections, threads, overlap>> /\ actor'["sdl"] = actor["sdl"]
      /\ actor'["main"].job = "none" /\ actor["main"].device = 0 /\ actor["main"].todo = <<>>
      /\ actor["main"].job # "destroy" => mDevicesById' = mDevicesById
  BY VisitedFrame DEF objects, Idle
<1> SUFFICES ASSUME NEW o \in DOMAIN devices \ overlap PROVE LeakOf(o)'
  BY <1>1 DEF LeakInv
<1>2. LeakOf(o) /\ o # 0
  BY DomainOfSeq DEF LeakInv, Shape, ObjectTypes
<1>3. Replaced(o)' = Replaced(o) /\ Shut(o)' = Shut(o) /\ ~In(o, {"detach"}) /\ ~ToVisit(o)
  BY <1>1, <1>2 DEF Replaced, Shut, Unread, Reads, Connection, Thread, In, ToVisit
<1>4. Destroying(o)'
  BY <1>1 DEF Destroying
<1>5. CASE actor["main"].job # "destroy"
  <2>1. InTable(o)' = InTable(o)
    BY <1>1, <1>5 DEF InTable
  <2> QED BY <1>1, <1>2, <1>3, <1>4, <2>1 DEF LeakOf, Accountable, UsedFrom, In
<1>6. CASE actor["main"].job = "destroy"
  <2>1. InTable(o) => Shut(o) /\ actor["sdl"].device # o
    BY <1>1, <1>2, <1>3, <1>6 DEF LeakOf, Destroying
  <2>2. Accountable(o)' /\ UsedFrom(o)'
    BY <1>1, <1>2, <1>3, <2>1 DEF LeakOf, Accountable, UsedFrom, In
  <2> QED BY <1>4, <2>2 DEF LeakOf
<1> QED BY <1>5, <1>6

LEMMA ReaderLeak ==
  ASSUME Shape, LeakInv, NEW t \in DOMAIN threads, ReaderMoves(t)
  PROVE  LeakInv'
<1>1. /\ UNCHANGED <<devices, connections, mDevicesById, actor, overlap>>
      /\ DOMAIN threads' = DOMAIN threads
      /\ \A u \in DOMAIN threads : threads'[u].of = threads[u].of
      /\ \A u \in DOMAIN threads : u # t => threads'[u] = threads[u]
      /\ threads[t].at \in {"loop", "reading"}
  BY DEF ReaderMoves
<1> SUFFICES ASSUME NEW o \in DOMAIN devices \ overlap PROVE LeakOf(o)'
  BY <1>1 DEF LeakInv
<1>2. InTable(o)' = InTable(o) /\ Replaced(o)' = Replaced(o) /\ LeakOf(o)
  BY <1>1 DEF InTable, Replaced, LeakInv
<1>3. Shut(o) => Shut(o)'
  BY <1>1 DEF Shut, Unread, Reads, Connection, Thread
<1> QED BY <1>1, <1>2, <1>3, LeakStays

LEMMA OthersLeak ==
  ASSUME Shape, OwnedInv, UseInv, TableInv, LeakInv, Others
  PROVE  LeakInv'
<1>1. CASE UNCHANGED <<objects, mDevicesById, overlap, actor>>
  BY <1>1, QuietLeak
<1>2. CASE \E d \in Devices : Plug(d) \/ Unplug(d) \/ \E g \in BOOLEAN : Answer(d, g)
  BY <1>1, <1>2 DEF Plug, Unplug, Answer, javaHeap
<1>3. ASSUME NEW d \in Devices, HandleUsbDeviceDetached(d) \/ HandleUsbDevicePermission(d)
      PROVE  LeakInv'
  <2> DEFINE ids == IdsOf(d)
  <2>1. ids \in SUBSET DOMAIN mDevicesById
    BY IdsOfDeviceInTable
  <2>2. /\ actor["main"].job = "none" /\ UNCHANGED <<objects, mDevicesById, overlap>>
        /\ actor' = actor \/ VisitAll("detach", ids) \/ VisitAll("permission", ids)
    BY <1>3 DEF HandleUsbDeviceDetached, HandleUsbDevicePermission, Receives
  <2> HIDE DEF ids
  <2> QED BY <1>1, <2>1, <2>2, LoopLeak
<1>4. CASE Release
  <2> DEFINE ids == DOMAIN mDevicesById
  <2>1. /\ VisitAll("destroy", ids) /\ ids \in SUBSET DOMAIN mDevicesById
        /\ UNCHANGED <<objects, mDevicesById, overlap>> /\ actor["main"].job = "none"
        /\ ids = DOMAIN mDevicesById
    BY <1>4 DEF Release
  <2> HIDE DEF ids
  <2> QED BY <2>1, LoopLeak
<1>5. ASSUME UNCHANGED <<objects, mDevicesById, overlap>>, actor'["main"] = actor["main"],
             actor'["sdl"].device = 0
      PROVE  LeakInv'
  <2>1. \A o \in DOMAIN devices : o # 0
    BY DomainOfSeq DEF Shape, ObjectTypes
  <2> QED BY <1>5, <2>1, QuietLeak
<1>6. CASE RegisterReceiver \/ ListDevices \/ (Enumerate /\ actor["sdl"].todo = <<>>)
  <2>1. actor'["main"] = actor["main"] /\ actor'["sdl"].device = 0
    BY <1>6, InitializeFrame DEF Initialize, Idle
  <2>2. UNCHANGED <<objects, mDevicesById, overlap>>
    BY <1>6 DEF RegisterReceiver, ListDevices, Enumerate, objects
  <2> QED BY <1>5, <2>1, <2>2
<1>7. CASE OpenDevice \/ CloseDevice
  <2>1. PICK job \in {"open", "close"}, at \in {"connect", "stop"} : Call(job, at)
    BY <1>7 DEF OpenDevice, CloseDevice
  <2>2. /\ LockFree("sdl") /\ UNCHANGED <<mDevicesById, objects>>
        /\ CallBegins(job, at) \/ UNCHANGED <<actor, overlap>>
    BY <2>1, CallFrame
  <2>3. CASE CallBegins(job, at)
    <3>1. /\ actor'["main"] = actor["main"] /\ overlap \subseteq overlap'
          /\ actor["main"].job # "destroy"
      BY <2>2, <2>3 DEF CallBegins, Enter, LockFree
    <3>2. \A o \in DOMAIN devices : actor'["sdl"].device = o => InTable(o)
      BY <2>3 DEF CallBegins, InTable
    <3> QED BY <2>2, <3>1, <3>2, QuietLeak
  <2> QED BY <1>1, <2>2, <2>3
<1>8. CASE \E a \in Actor : DeviceStep(a)
  BY <1>8, DeviceStepLeak
<1>9. CASE \E t \in DOMAIN threads : InputThread(t)
  BY <1>9, InputThreadFrame, ReaderLeak
<1> QED BY <1>2, <1>3, <1>4, <1>6, <1>7, <1>8, <1>9, VisitLeak, VisitedLeak DEF Others

\* A device that connects brings objects that are in the table, and whatever loses
\* its entry to one of them is replaced.
LEMMA ConnectsLeak ==
  ASSUME Shape, IdsInv, TableInv, LeakInv, NEW d \in Devices, Connects(d)
  PROVE  LeakInv'
<1>1. /\ Grows(d) /\ Enters(d) /\ UNCHANGED <<connections, threads, overlap>>
      /\ actor'["main"] = actor["main"] /\ actor["main"].job # "destroy"
      /\ actor'["sdl"].device = actor["sdl"].device
  BY ConnectsFrame, ConnectsMain
<1> SUFFICES ASSUME NEW o \in DOMAIN devices' \ overlap PROVE LeakOf(o)'
  BY <1>1 DEF LeakInv
<1>2. Destroying(o)'
  BY <1>1 DEF Destroying
<1>3. /\ DOMAIN devices = 1..Len(devices) /\ Len(devices) \in Nat
      /\ \A p \in ports : p \in Nat /\ p > 0
      /\ o # 0
  BY <1>1, DomainOfSeq DEF Shape, ObjectTypes, WorldTypes, Grows
<1>4. CASE o \notin DOMAIN devices
  <2>1. PICK p \in ports : o = Len(devices) + p
    BY <1>1, <1>4 DEF Grows
  <2>2. InTable(o)'
    BY <1>1, <2>1 DEF Enters, InTable
  <2> QED BY <1>2, <2>2 DEF LeakOf, Accountable, UsedFrom
<1>5. CASE o \in DOMAIN devices
  <2>1. LeakOf(o) /\ devices'[o] = devices[o]
    BY <1>1, <1>5 DEF LeakInv, Grows
  <2>2. Shut(o)' = Shut(o)
    BY <1>1, <2>1 DEF Shut, Unread, Reads, Connection, Thread
  <2>3. Replaced(o) => Replaced(o)'
    BY <1>1, <2>1 DEF Replaced, Grows
  <2>4. InTable(o) => InTable(o)' \/ Replaced(o)'
    <3> SUFFICES ASSUME NEW id \in DOMAIN mDevicesById, mDevicesById[id] = o
                 PROVE  InTable(o)' \/ Replaced(o)'
      BY DEF InTable
    <3>1. CASE \E p \in ports : IdOf(d, p) = id
      <4>1. PICK p \in ports : IdOf(d, p) = id
        BY <3>1
      <4>2. devices'[Len(devices) + p].id = id /\ devices'[o].id = id
        <5>1. devices'[Len(devices) + p] = NewDevice(d, p) /\ NewDevice(d, p).id = id
          BY <1>1, <4>1, NewDeviceFields DEF Grows
        <5>2. devices[o].id = id
          BY DEF TableInv
        <5> QED BY <2>1, <5>1, <5>2
      <4>3. Len(devices) + p > o /\ Len(devices) + p \in DOMAIN devices'
        BY <1>1, <1>3, <1>5 DEF Grows
      <4> QED BY <4>2, <4>3 DEF Replaced
    <3>2. CASE ~\E p \in ports : IdOf(d, p) = id
      BY <1>1, <3>2 DEF Enters, InTable
    <3> QED BY <3>1, <3>2
  <2>5. \A jobs : In(o, jobs)' = In(o, jobs)
    BY <1>1 DEF In
  <2> QED BY <1>1, <1>2, <2>1, <2>2, <2>3, <2>4, <2>5 DEF LeakOf, Accountable, UsedFrom
<1> QED BY <1>4, <1>5

LEMMA NextLeak ==
  ASSUME Shape, IdsInv, OwnedInv, UseInv, TableInv, LeakInv, [Next]_vars
  PROVE  LeakInv'
<1>1. CASE UNCHANGED vars
  BY <1>1, QuietLeak DEF vars, javaHeap
<1>2. CASE Restart
  <2>1. DOMAIN devices' = {}
    BY <1>2, EmptySeq DEF Restart
  <2> QED BY <2>1 DEF LeakInv
<1> QED BY <1>1, <1>2, StepKinds, OthersLeak, ConnectsLeak

LEMMA InitUse ==
  ASSUME Init
  PROVE  OwnedInv /\ UseInv /\ ManagerInv /\ LeakInv
<1>1. /\ DOMAIN devices = {} /\ DOMAIN mDevicesById = {}
      /\ \A a \in Actor : actor[a].at # "store"
  BY EmptySeq, StartingShape DEF Init, Actor, Idle
<1>2. OwnedInv
  BY <1>1 DEF OwnedInv, ThreadsOwned, ConnectionsOwned, LocalsOwned, Storing
<1> QED BY <1>1, <1>2 DEF UseInv, ManagerInv, TableManaged, DetachedIsOut, LeakInv

LEMMA UseInductive == Spec => [](OwnedInv /\ UseInv /\ ManagerInv /\ LeakInv)
<1>1. Init => OwnedInv /\ UseInv /\ ManagerInv /\ LeakInv
  BY InitUse
<1>2. /\ Shape /\ IdsInv /\ TableInv /\ OwnedInv /\ UseInv /\ ManagerInv /\ LeakInv
      /\ [Next]_vars
      => (OwnedInv /\ UseInv /\ ManagerInv /\ LeakInv)'
  BY NextOwned, NextUse, NextManager, NextLeak DEF ManagerInv
<1> QED BY <1>1, <1>2, TableInductive, PTL DEF Spec

-----------------------------------------------------------------------------
\* A device that one thread at a time opens and closes has one reader at most, and
\* its reader has the connection it reads from.
THEOREM OneReader == Spec => []SoleReader
<1>1. ASSUME Shape, UseInv
      PROVE  SoleReader
  <2> SUFFICES ASSUME NEW o \in DOMAIN devices \ overlap
               PROVE  /\ Cardinality(Live(o)) <= 1
                      /\ \A t \in Live(o) : threads[t].at = "reading"
                           => connections[threads[t].on] /\ threads[t].on = devices[o].mConnection
    BY DEF SoleReader
  <2>1. Sound(o)
    BY <1>1 DEF UseInv, UseOf
  <2>2. Live(o) \subseteq {Thread(o)}
    BY <2>1 DEF Live, Sound, Reads
  <2>3. Cardinality(Live(o)) <= 1
    <3>1. IsFiniteSet({Thread(o)}) /\ Cardinality({Thread(o)}) = 1
      BY FS_Singleton
    <3> QED BY <2>2, <3>1, FS_Subset
  <2>4. \A t \in Live(o) : threads[t].at = "reading"
          => connections[threads[t].on] /\ threads[t].on = devices[o].mConnection
    BY <2>1 DEF Live, Sound, Reads, Connection
  <2> QED BY <2>3, <2>4
<1> QED BY <1>1, TableInductive, UseInductive, PTL

\* Detaching a device and closing the manager shut down what they take out of the
\* table: open stays only what overlapping calls or a replaced entry left behind.
THEOREM NoneLeaks == Spec => []NothingLeaks
<1>1. ASSUME LeakInv
      PROVE  NothingLeaks
  <2> SUFFICES ASSUME NEW o \in DOMAIN devices \ overlap
               PROVE  \/ InTable(o) \/ \E a \in Actor : actor[a].device = o
                      \/ Replaced(o) \/ (devices[o].mConnection = 0 /\ Live(o) = {})
    BY DEF NothingLeaks, InTable, Replaced
  <2>1. CASE Shut(o)
    BY <2>1 DEF Shut, Unread, Reads, Live, Connection
  <2>2. CASE In(o, {"detach"})
    BY <2>2 DEF In, Actor
  <2> QED BY <1>1, <2>1, <2>2 DEF LeakInv, LeakOf, Accountable
<1> QED BY <1>1, UseInductive, PTL

\* A step that crashes the process.
LEMMA CrashingStep ==
  ASSUME Shape, OwnedInv, UseInv, Next, process # "crashed", process' = "crashed"
  PROVE  CrashNeedsOverlap'
<1>1. ~Restart /\ \A d \in Devices : ~Connects(d)
  BY DEF Restart, Connects, HandleUsbDeviceAttached, Enumerate
<1>2. Others
  BY <1>1, StepKinds
<1>3. ASSUME NEW d \in Devices, HandleUsbDeviceDetached(d)
      PROVE  CrashNeedsOverlap'
  BY <1>3 DEF HandleUsbDeviceDetached, CrashNeedsOverlap
<1>4. ASSUME NEW a \in Actor, DeviceStep(a)
      PROVE  CrashNeedsOverlap'
  <2> DEFINE p == actor[a].device
  <2>1. DeviceSteps(a) /\ overlap' = overlap
    BY <1>4 DEF DeviceStep, DeviceSteps, Unshared
  <2>2. Thrown(a) /\ a = "main" /\ p \in DOMAIN devices
    BY <2>1, DeviceStepEffect, DeviceStepReach DEF Thrown, Reach
  <2>3. Device(a) = devices[p] /\ Nulls(a)
    BY <2>2 DEF Device, Thrown
  <2>4. p \in overlap
    <3> SUFFICES ASSUME Positioned(a, p) PROVE FALSE
      BY <2>2 DEF UseInv, UseOf
    <3> QED BY <2>2, <2>3 DEF Nulls, Positioned, Connection, Thread, OpenAt
  <2> QED BY <2>1, <2>4 DEF CrashNeedsOverlap
<1>5. ASSUME NEW t \in DOMAIN threads, InputThread(t)
      PROVE  CrashNeedsOverlap'
  <2> DEFINE o == threads[t].of
  <2>1. overlap' = overlap /\ threads[t].at = "reading" /\ ~devices[o].mManager
    BY <1>5, InputThreadFrame DEF ReaderMoves
  <2>2. o \in DOMAIN devices /\ Reads(t, o)
    BY <2>1 DEF Shape, ObjectTypes, Reads
  <2>3. o \in overlap
    BY <2>1, <2>2 DEF UseInv, UseOf, Sound
  <2> QED BY <2>1, <2>3 DEF CrashNeedsOverlap
<1>6. ASSUME UNCHANGED process
      PROVE  FALSE
  BY <1>6
<1>7. CASE OpenDevice \/ CloseDevice
  BY <1>7 DEF OpenDevice, CloseDevice, Call
<1> QED BY <1>2, <1>3, <1>4, <1>5, <1>6, <1>7 DEF Others, Plug, Unplug, Answer,
        HandleUsbDevicePermission, Release, RegisterReceiver, ListDevices, Enumerate, Visit, Visited

\* A crashed process takes no step but to start again.
LEMMA CrashedStep ==
  ASSUME Shape, process = "crashed", Next
  PROVE  Restart
<1>1. \A d \in Devices : ~Connects(d)
  BY DEF Connects, HandleUsbDeviceAttached, Receives, Enumerate, Alive
<1>2. ~Others
  BY DEF Others, Plug, Unplug, Answer, HandleUsbDeviceDetached, HandleUsbDevicePermission,
     Receives, Release, RegisterReceiver, ListDevices, Enumerate, OpenDevice, CloseDevice, Call,
     Visit, Visited, DeviceStep, OpenConnection, StoreConnection, ClaimInterface, StartRunning,
     CreateThread, StartThread, StopRunning, TestThread, JoinThread, Joined, ForgetThread,
     TestConnection, ReleaseConnection, ClearManager, Step, InputThread, NextTransfer,
     TransferReturns, Alive
<1> QED BY <1>1, <1>2, StepKinds

\* No exception ends the process but where the calls for a device overlapped, or
\* where a device was detached while initialize() went through the others.
THEOREM CrashesNeedOverlap == Spec => []CrashNeedsOverlap
<1>1. Init => CrashNeedsOverlap
  BY DEF Init, CrashNeedsOverlap
<1>2. Shape /\ OwnedInv /\ UseInv /\ CrashNeedsOverlap /\ [Next]_vars => CrashNeedsOverlap'
  <2> SUFFICES ASSUME Shape, OwnedInv, UseInv, CrashNeedsOverlap, [Next]_vars
               PROVE  CrashNeedsOverlap'
    OBVIOUS
  <2>1. CASE UNCHANGED vars
    BY <2>1 DEF vars, javaHeap, CrashNeedsOverlap
  <2>2. CASE Next /\ process = "crashed"
    BY <2>2, CrashedStep DEF Restart, CrashNeedsOverlap
  <2>3. CASE Next /\ process # "crashed"
    BY <2>3, CrashingStep DEF CrashNeedsOverlap
  <2> QED BY <2>1, <2>2, <2>3
<1> QED BY <1>1, <1>2, TableInductive, UseInductive, PTL DEF Spec
=============================================================================

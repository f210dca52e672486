------------------------------ MODULE HIDDevices ------------------------------
(***************************************************************************)
(* HIDDeviceManager's table of USB devices and the HIDDeviceUSB objects in *)
(* it, with the three kinds of threads that meet there: the main thread    *)
(* (broadcasts of UsbManager, release by onDestroy), the SDL thread        *)
(* (initialize, openDevice, closeDevice, called by the C program), and an  *)
(* InputThread per opened device.                                          *)
(*                                                                         *)
(* The manager locks its table on most paths; a device locks nothing.      *)
(* open() and close() are therefore one action per access to the device's  *)
(* fields, for whichever of the two threads runs them.  A UsbDevice is     *)
(* named after its bus address, which is new whenever it is plugged in: a  *)
(* run of the process sees it come and go at most once.                    *)
(* Reports to a device and setFrozen touch none of this and are left out.  *)
(***************************************************************************)
EXTENDS Integers, FiniteSets, SequencesExt

CONSTANTS
  Devices,      \* UsbDevices
  MaxPorts,     \* bound: HID interfaces of a device
  Budget        \* bound: openDevice and closeDevice calls, restarts, and interfaces

ASSUME DevicesAssumption == IsFiniteSet(Devices)
ASSUME BoundsAssumption == Budget \in Nat /\ MaxPorts \in Nat \ {0}

VARIABLES
  plugged,      \* device -> "before", "in", "out"
  permitted,    \* devices the player granted access to
  asked,        \* questions to the player: how many for each device
  broadcasts,   \* sent to mUsbBroadcast and not yet received, in order
  \* The preferences, and mNextDeviceId.
  saved, mNextDeviceId,
  registered,   \* mUsbBroadcast is registered
  mDevicesById, \* a function from ids to positions in devices
  devices,      \* the HIDDeviceUSB objects, in the order of their creation
  connections,  \* is the n-th UsbDeviceConnection open
  threads,      \* the InputThreads
  actor,        \* what the main and the SDL thread are doing
  overlap,      \* history: devices that open() or close() found in use
  ports,        \* the interfaces of the devices: does not change
  calls,        \* how many calls and restarts there were
  process

world    == <<plugged, permitted, asked, ports>>
objects  == <<devices, connections, threads>>
prefs    == <<saved, mNextDeviceId>>
javaHeap == <<mDevicesById, objects, actor, overlap>>
vars == <<world, broadcasts, prefs, registered, javaHeap, calls, process>>

Interface == Devices \X (1..MaxPorts)
Actor == {"main", "sdl"}
Job   == {"none", "initialize", "open", "close", "detach", "permission", "destroy"}
\* open(): connect .. start.  close(): stop .. release.  shutdown(): clear.
At    == {"idle", "register", "list", "enumerate",
          "connect", "store", "claim", "run", "create", "start",
          "stop", "test", "loop", "joining", "forget", "free", "release", "clear",
          "next"}

\* What a thread is at; the device it is in, 0 for none; the devices or ids that
\* its loop has yet to visit; the local variable of the call.
Idle == [job |-> "none", at |-> "idle", device |-> 0, todo |-> <<>>, local |-> 0]

TypeOK ==
  /\ plugged \in [Devices -> {"before", "in", "out"}]
  /\ permitted \subseteq Devices /\ asked \in [Devices -> 0..Budget]
  /\ broadcasts \in Seq([kind : {"attached", "detached", "granted", "denied"},
                         of : Devices])
  /\ saved.id \in [Interface -> Nat] /\ saved.next \in Nat /\ mNextDeviceId \in Nat
  /\ registered \in BOOLEAN
  /\ \A id \in DOMAIN mDevicesById : mDevicesById[id] \in DOMAIN devices
  /\ devices \in Seq([of : Interface, id : Nat, mManager : BOOLEAN, mRunning : BOOLEAN,
                      mConnection : Nat, mInputThread : Nat])
  /\ connections \in Seq(BOOLEAN)
  /\ threads \in Seq([of : Nat, at : {"new", "loop", "reading", "dead"}, on : Nat])
  /\ \A a \in Actor : actor[a].job \in Job /\ actor[a].at \in At
  /\ overlap \subseteq DOMAIN devices
  /\ calls \in 0..Budget /\ ports \subseteq 1..MaxPorts
  /\ process \in {"running", "released", "crashed"}

\* The SDL thread of a new process calls initialize().
Starting == [a \in Actor |->
               IF a = "sdl" THEN [Idle EXCEPT !.job = "initialize", !.at = "register"]
                            ELSE Idle]

Init ==
  /\ plugged \in [Devices -> {"before", "in"}]
  /\ permitted = {} /\ asked = [d \in Devices |-> 0] /\ broadcasts = <<>>
  /\ saved = [id |-> [i \in Interface |-> 0], next |-> 0] /\ mNextDeviceId = 0
  /\ registered = FALSE /\ mDevicesById = <<>> /\ devices = <<>>
  /\ connections = <<>> /\ threads = <<>> /\ overlap = {}
  /\ ports \in {1..n : n \in 1..MaxPorts} /\ calls = 0 /\ process = "running"
  /\ actor = Starting

-----------------------------------------------------------------------------
(***************************************************************************)
(* The world: cables, the player's answers, the end of the process.        *)
(***************************************************************************)

Alive == process # "crashed"

Spend == calls + Cardinality(ports) < Budget /\ calls' = calls + 1

Send(kind, d) ==
  broadcasts' = IF registered THEN Append(broadcasts, [kind |-> kind, of |-> d])
                              ELSE broadcasts

Plug(d) ==
  /\ Alive /\ plugged[d] = "before" /\ plugged' = [plugged EXCEPT ![d] = "in"]
  /\ Send("attached", d)
  /\ UNCHANGED <<permitted, asked, ports, prefs, registered, javaHeap, calls, process>>

Unplug(d) ==
  /\ Alive /\ plugged[d] = "in" /\ plugged' = [plugged EXCEPT ![d] = "out"]
  /\ permitted' = permitted \ {d}
  /\ Send("detached", d)
  /\ UNCHANGED <<asked, ports, prefs, registered, javaHeap, calls, process>>

Answer(d, granted) ==
  /\ Alive /\ asked[d] > 0 /\ asked' = [asked EXCEPT ![d] = @ - 1]
  /\ permitted' = IF granted /\ plugged[d] = "in" THEN permitted \cup {d} ELSE permitted
  /\ Send(IF granted THEN "granted" ELSE "denied", d)
  /\ UNCHANGED <<plugged, ports, prefs, registered, javaHeap, calls, process>>

\* Android kills the process, or it crashed; the player starts it again, after
\* another boot perhaps, which uses the bus addresses again.  The constructor
\* reads next_device_id.
Restart ==
  /\ Spend
  /\ mNextDeviceId' = saved.next
  /\ registered' = FALSE /\ broadcasts' = <<>> /\ asked' = [d \in Devices |-> 0]
  /\ mDevicesById' = <<>> /\ devices' = <<>> /\ connections' = <<>>
  /\ threads' = <<>> /\ overlap' = {} /\ process' = "running"
  /\ actor' = Starting
  /\ plugged' \in [Devices -> {"before", "in"}]
  /\ permitted' = {d \in permitted : plugged'[d] = "in"}
  /\ UNCHANGED <<ports, saved>>

-----------------------------------------------------------------------------
(***************************************************************************)
(* The table: ids, attached devices, initialize.                           *)
(***************************************************************************)

\* close() holds the lock of the manager while it shuts the devices down.
LockFree(a) == a = "main" \/ actor["main"].job # "destroy"

\* Mutant of NextIdSaved: next_device_id is not put into the preferences.
NextIdForgotten(next) == 0

NextIdSaved(next) == next

\* Mutant of Following: --mNextDeviceId.
Preceding(id, n) == id - n

\* mNextDeviceId++, n times.
Following(id, n) == id + n

\* getDeviceIDForIdentifier: a stored 0 is taken for a missing entry, and the
\* interfaces without one are numbered in their order.
Unnumbered(d) == {p \in ports : saved.id[<<d, p>>] = 0}
IdOf(d, p) ==
  IF p \in Unnumbered(d)
  THEN Following(mNextDeviceId, Cardinality({q \in Unnumbered(d) : q < p}))
  ELSE saved.id[<<d, p>>]

NewDevice(d, p) ==
  [of |-> <<d, p>>, id |-> IdOf(d, p), mManager |-> TRUE, mRunning |-> FALSE,
   mConnection |-> 0, mInputThread |-> 0]

\* connectHIDDeviceUSB, under the lock: an entry with the same id is replaced.
ConnectUSB(d) ==
  LET next == Following(mNextDeviceId, Cardinality(Unnumbered(d)))
      With(id) == {p \in ports : IdOf(d, p) = id}
  IN /\ saved' = [id   |-> [i \in Interface |->
                              IF i \in {d} \X ports THEN IdOf(d, i[2]) ELSE saved.id[i]],
                  next |-> IF Unnumbered(d) = {} THEN saved.next ELSE NextIdSaved(next)]
     /\ mNextDeviceId' = next
     /\ devices' = devices \o [p \in ports |-> NewDevice(d, p)]
     /\ mDevicesById' = [id \in DOMAIN mDevicesById \cup {IdOf(d, p) : p \in ports} |->
                           IF With(id) # {} THEN Len(devices) + Max(With(id))
                                            ELSE mDevicesById[id]]

RegisterReceiver ==
  /\ Alive /\ actor["sdl"].at = "register"
  /\ registered' = TRUE
  /\ actor' = [actor EXCEPT !["sdl"].at = "list"]
  /\ UNCHANGED <<world, broadcasts, prefs, mDevicesById, objects, overlap, calls, process>>

\* Mutant of ListDevices: only attach broadcasts add devices.
ListNoDevices ==
  /\ Alive /\ actor["sdl"].at = "list"
  /\ actor' = [actor EXCEPT !["sdl"].at = "enumerate"]
  /\ UNCHANGED <<world, broadcasts, prefs, registered, mDevicesById, objects, overlap, calls, process>>

ListDevices ==
  /\ Alive /\ actor["sdl"].at = "list"
  /\ actor' = [actor EXCEPT !["sdl"].at = "enumerate",
                 !["sdl"].todo = SetToSeq({d \in Devices : plugged[d] = "in"})]
  /\ UNCHANGED <<world, broadcasts, prefs, registered, mDevicesById, objects, overlap, calls, process>>

Enumerate ==
  /\ Alive /\ actor["sdl"].at = "enumerate"
  /\ IF actor["sdl"].todo = <<>>
     THEN actor' = [actor EXCEPT !["sdl"] = Idle] /\ UNCHANGED <<prefs, devices, mDevicesById>>
     ELSE /\ LockFree("sdl")
          /\ ConnectUSB(Head(actor["sdl"].todo))
          /\ actor' = [actor EXCEPT !["sdl"].todo = Tail(@)]
  /\ UNCHANGED <<world, broadcasts, registered, connections, threads, overlap, calls, process>>

-----------------------------------------------------------------------------
(***************************************************************************)
(* The calls that reach a device, up to its open() or close().             *)
(***************************************************************************)

\* Is o already open, or is the other thread inside its open() or close()?
InUse(a, o, at) ==
  \/ \E b \in Actor \ {a} : actor[b].device = o
  \/ at = "connect" /\ (devices[o].mConnection # 0 \/ devices[o].mInputThread # 0)

Enter(a, o, at) ==
  overlap' = IF InUse(a, o, at) THEN overlap \cup {o} ELSE overlap

Call(job, at) ==
  /\ Alive /\ actor["sdl"].job = "none" /\ LockFree("sdl")
  /\ Spend
  /\ \E id \in DOMAIN mDevicesById :
       LET o == mDevicesById[id] IN
       \/ /\ job = "close" \/ devices[o].of[1] \in permitted
          /\ actor' = [actor EXCEPT !["sdl"] = [Idle EXCEPT !.job = job, !.at = at,
                                                             !.device = o]]
          /\ Enter("sdl", o, at)
          /\ UNCHANGED asked
       \/ /\ job = "open" /\ devices[o].of[1] \notin permitted
          /\ asked' = [asked EXCEPT ![devices[o].of[1]] = @ + 1]
          /\ UNCHANGED <<actor, overlap>>
  /\ UNCHANGED <<plugged, permitted, ports, broadcasts, prefs, registered, mDevicesById, objects, process>>

OpenDevice  == Call("open", "connect")
CloseDevice == Call("close", "stop")

Receives(kind, d) ==
  /\ Alive /\ actor["main"].job = "none"
  /\ broadcasts # <<>> /\ Head(broadcasts) = [kind |-> kind, of |-> d]
  /\ broadcasts' = Tail(broadcasts)

IdsOf(d) == {id \in DOMAIN mDevicesById : devices[mDevicesById[id]].of[1] = d}

HandleUsbDeviceAttached(d) ==
  /\ Receives("attached", d)
  /\ ConnectUSB(d)
  /\ UNCHANGED <<world, registered, connections, threads, actor, overlap, calls, process>>

VisitAll(job, ids) ==
  actor' = [actor EXCEPT !["main"] = [Idle EXCEPT !.job = job, !.at = "next",
                                                  !.todo = SetToSeq(ids)]]

\* The table is read without the lock: while the SDL thread adds to it the
\* iteration may throw.
HandleUsbDeviceDetached(d) ==
  /\ Receives("detached", d)
  /\ \/ VisitAll("detach", IdsOf(d)) /\ UNCHANGED process
     \/ /\ actor["sdl"].at = "enumerate" /\ process' = "crashed"
        /\ UNCHANGED actor
  /\ UNCHANGED <<world, prefs, registered, mDevicesById, objects, overlap, calls>>

\* A refusal changes no device.
HandleUsbDevicePermission(d) ==
  /\ \/ Receives("granted", d) /\ VisitAll("permission", IdsOf(d))
     \/ Receives("denied", d) /\ UNCHANGED actor
  /\ UNCHANGED <<world, prefs, registered, mDevicesById, objects, overlap, calls, process>>

\* onDestroy releases the manager: close().
Release ==
  /\ process = "running" /\ actor["main"].job = "none"
  /\ process' = "released"
  /\ registered' = FALSE /\ broadcasts' = <<>>
  /\ VisitAll("destroy", DOMAIN mDevicesById)
  /\ UNCHANGED <<world, prefs, mDevicesById, objects, overlap, calls>>

Without(ids) == [n \in DOMAIN mDevicesById \ ids |-> mDevicesById[n]]

\* Mutants of Visit: detached devices leave the table without shutdown(), or
\* mManager is cleared before close().
VisitClearsFirst ==
  /\ Alive /\ actor["main"].at = "next" /\ actor["main"].todo # <<>>
  /\ LET id == Head(actor["main"].todo)  o == mDevicesById[id]
         job == actor["main"].job  at == IF job = "permission" THEN "connect" ELSE "stop"
     IN /\ actor' = [actor EXCEPT !["main"].todo = Tail(@), !["main"].at = at,
                                  !["main"].device = o]
        /\ mDevicesById' = IF job = "detach" THEN Without({id}) ELSE mDevicesById
        /\ devices' = [devices EXCEPT ![o].mManager = (job = "permission")]
        /\ Enter("main", o, at)
  /\ UNCHANGED <<world, broadcasts, prefs, registered, connections, threads, calls, process>>
VisitWithoutShutdown ==
  /\ Alive /\ actor["main"].at = "next" /\ actor["main"].todo # <<>>
  /\ LET id == Head(actor["main"].todo)  o == mDevicesById[id]
         job == actor["main"].job  at == IF job = "permission" THEN "connect" ELSE "next"
     IN /\ actor' = [actor EXCEPT !["main"].todo = Tail(@), !["main"].at = at,
                                  !["main"].device = IF at = "next" THEN 0 ELSE o]
        /\ mDevicesById' = IF job = "detach" THEN Without({id}) ELSE mDevicesById
        /\ Enter("main", o, at)
  /\ UNCHANGED <<world, broadcasts, prefs, registered, objects, calls, process>>

\* The next device of the loop of handleUsbDevicePermission, -Detached or close().
Visit ==
  /\ Alive /\ actor["main"].at = "next" /\ actor["main"].todo # <<>>
  /\ LET id == Head(actor["main"].todo)  o == mDevicesById[id]
         job == actor["main"].job  at == IF job = "permission" THEN "connect" ELSE "stop"
     IN /\ actor' = [actor EXCEPT !["main"].todo = Tail(@), !["main"].at = at,
                                  !["main"].device = o]
        /\ mDevicesById' = IF job = "detach" THEN Without({id}) ELSE mDevicesById
        /\ Enter("main", o, at)
  /\ UNCHANGED <<world, broadcasts, prefs, registered, objects, calls, process>>

Visited ==
  /\ Alive /\ actor["main"].at = "next" /\ actor["main"].todo = <<>>
  /\ actor' = [actor EXCEPT !["main"] = Idle]
  /\ mDevicesById' = IF actor["main"].job = "destroy" THEN <<>> ELSE mDevicesById
  /\ UNCHANGED <<world, broadcasts, prefs, registered, objects, overlap, calls, process>>

-----------------------------------------------------------------------------
(***************************************************************************)
(* HIDDeviceUSB.open and close, by either thread.                          *)
(***************************************************************************)

Step(a, at) == Alive /\ actor[a].at = at
Goes(a, at) == actor' = [actor EXCEPT ![a].at = at]
Device(a)   == devices[actor[a].device]
Sets(a, field, value) ==
  devices' = [devices EXCEPT ![actor[a].device] = [@ EXCEPT ![field] = value]]

Leave(a) ==
  actor' = [actor EXCEPT ![a] = IF @.job \in {"open", "close"} THEN Idle
                                ELSE [@ EXCEPT !.at = "next", !.device = 0]]

\* An exception: caught in openDevice and closeDevice, by nobody on the main thread.
Throws(a) ==
  /\ IF a = "sdl" THEN Leave(a) /\ UNCHANGED process
                  ELSE process' = "crashed" /\ UNCHANGED actor
  /\ UNCHANGED objects

Unshared == <<world, broadcasts, prefs, registered, mDevicesById, overlap, calls>>

OpenConnection(a) ==
  /\ Step(a, "connect")
  /\ \/ ~Device(a).mManager /\ Throws(a)
     \/ /\ Device(a).mManager
        /\ \/ /\ plugged[Device(a).of[1]] = "in"
              /\ connections' = Append(connections, TRUE)
              /\ actor' = [actor EXCEPT ![a].at = "store", ![a].local = Len(connections) + 1]
           \/ /\ actor' = [actor EXCEPT ![a].at = "store", ![a].local = 0]
              /\ UNCHANGED connections
        /\ UNCHANGED <<devices, threads, process>>

StoreConnection(a) ==
  /\ Step(a, "store")
  /\ Sets(a, "mConnection", actor[a].local)
  /\ IF actor[a].local = 0 THEN Leave(a) ELSE Goes(a, "claim")
  /\ UNCHANGED <<connections, threads, process>>

\* claimInterface and the search for the endpoints; if either fails, close().
ClaimInterface(a) ==
  /\ Step(a, "claim")
  /\ \/ Device(a).mConnection = 0 /\ Throws(a)
     \/ /\ Device(a).mConnection # 0
        /\ Goes(a, "run") \/ Goes(a, "stop")
        /\ UNCHANGED <<objects, process>>

StartRunning(a) ==
  /\ Step(a, "run")
  /\ Sets(a, "mRunning", TRUE) /\ Goes(a, "create")
  /\ UNCHANGED <<connections, threads, process>>

CreateThread(a) ==
  /\ Step(a, "create")
  /\ threads' = Append(threads, [of |-> actor[a].device, at |-> "new", on |-> 0])
  /\ Sets(a, "mInputThread", Len(threads) + 1) /\ Goes(a, "start")
  /\ UNCHANGED <<connections, process>>

StartThread(a) ==
  /\ Step(a, "start")
  /\ LET t == Device(a).mInputThread
         startable == t # 0 /\ threads[t].at = "new"
     IN \/ ~startable /\ Throws(a)
        \/ /\ startable
           /\ threads' = [threads EXCEPT ![t].at = "loop"]
           /\ Leave(a)
           /\ UNCHANGED <<devices, connections, process>>

\* Mutant of StopRunning: mRunning is left as it is.
StopNothing(a) ==
  /\ Step(a, "stop")
  /\ Goes(a, "test")
  /\ UNCHANGED <<objects, process>>

StopRunning(a) ==
  /\ Step(a, "stop")
  /\ Sets(a, "mRunning", FALSE) /\ Goes(a, "test")
  /\ UNCHANGED <<connections, threads, process>>

\* Mutant of TestThread: the connection is closed without joining the thread.
TestNoThread(a) ==
  /\ Step(a, "test")
  /\ Goes(a, "free")
  /\ UNCHANGED <<objects, process>>

TestThread(a) ==
  /\ Step(a, "test")
  /\ Goes(a, IF Device(a).mInputThread = 0 THEN "free" ELSE "loop")
  /\ UNCHANGED <<objects, process>>

\* while (mInputThread.isAlive()) join; the field is read again every time.
JoinThread(a) ==
  /\ Step(a, "loop")
  /\ LET t == Device(a).mInputThread IN
     \/ t = 0 /\ Throws(a)
     \/ /\ t # 0
        /\ actor' = [actor EXCEPT
             ![a].at = IF threads[t].at \in {"new", "dead"} THEN "forget" ELSE "joining",
             ![a].local = t]
        /\ UNCHANGED <<objects, process>>

Joined(a) ==
  /\ Step(a, "joining") /\ threads[actor[a].local].at = "dead"
  /\ Goes(a, "loop")
  /\ UNCHANGED <<objects, process>>

ForgetThread(a) ==
  /\ Step(a, "forget")
  /\ Sets(a, "mInputThread", 0) /\ Goes(a, "free")
  /\ UNCHANGED <<connections, threads, process>>

\* shutdown() goes on after close(), open() and closeDevice() are over.
Closed(a) ==
  IF actor[a].job \in {"detach", "destroy"} THEN Goes(a, "clear") ELSE Leave(a)

TestConnection(a) ==
  /\ Step(a, "free")
  /\ IF Device(a).mConnection = 0 THEN Closed(a) ELSE Goes(a, "release")
  /\ UNCHANGED <<objects, process>>

ReleaseConnection(a) ==
  /\ Step(a, "release")
  /\ LET c == Device(a).mConnection IN
     \/ c = 0 /\ Throws(a)
     \/ /\ c # 0
        /\ connections' = [connections EXCEPT ![c] = FALSE]
        /\ Sets(a, "mConnection", 0) /\ Closed(a)
        /\ UNCHANGED <<threads, process>>

ClearManager(a) ==
  /\ Step(a, "clear")
  /\ Sets(a, "mManager", FALSE) /\ Leave(a)
  /\ UNCHANGED <<connections, threads, process>>

DeviceStep(a) ==
  /\ \/ OpenConnection(a) \/ StoreConnection(a) \/ ClaimInterface(a)
     \/ StartRunning(a) \/ CreateThread(a) \/ StartThread(a)
     \/ StopRunning(a) \/ TestThread(a) \/ JoinThread(a) \/ Joined(a)
     \/ ForgetThread(a) \/ TestConnection(a) \/ ReleaseConnection(a) \/ ClearManager(a)
  /\ UNCHANGED Unshared

-----------------------------------------------------------------------------
(***************************************************************************)
(* InputThread.run.                                                        *)
(***************************************************************************)

\* The head of the loop; reading through a null mConnection ends it, too.
NextTransfer(t) ==
  /\ Alive /\ threads[t].at = "loop"
  /\ LET o == devices[threads[t].of]
         goesOn == o.mRunning /\ o.mConnection # 0
     IN threads' = [threads EXCEPT ![t].at = IF goesOn THEN "reading" ELSE "dead",
                                   ![t].on = IF goesOn THEN o.mConnection ELSE 0]
  /\ UNCHANGED <<devices, connections, actor, process>>

\* bulkTransfer returns: nothing (a timeout, an error), or a report, for which
\* mManager is called outside any try.
TransferReturns(t) ==
  /\ Alive /\ threads[t].at = "reading"
  /\ threads' = [threads EXCEPT ![t].at = "loop"]
  /\ \/ UNCHANGED process
     \/ /\ plugged[devices[threads[t].of].of[1]] = "in" /\ connections[threads[t].on]
        /\ ~devices[threads[t].of].mManager
        /\ process' = "crashed"
  /\ UNCHANGED <<devices, connections, actor>>

-----------------------------------------------------------------------------
Initialize == RegisterReceiver \/ ListDevices \/ Enumerate
Handle(d)  == \/ HandleUsbDeviceAttached(d) \/ HandleUsbDeviceDetached(d)
              \/ HandleUsbDevicePermission(d)
InputThread(t) == (NextTransfer(t) \/ TransferReturns(t)) /\ UNCHANGED Unshared

Next ==
  \/ \E d \in Devices : Plug(d) \/ Unplug(d) \/ (\E g \in BOOLEAN : Answer(d, g)) \/ Handle(d)
  \/ Restart \/ Release
  \/ Initialize \/ OpenDevice \/ CloseDevice
  \/ Visit \/ Visited \/ \E a \in Actor : DeviceStep(a)
  \/ \E t \in DOMAIN threads : InputThread(t)

Spec == Init /\ [][Next]_vars

\* Both threads go on with what they have begun, and bulkTransfer has a timeout.
Fairness ==
  /\ WF_vars(DeviceStep("main") \/ Visit \/ Visited)
  /\ WF_vars(DeviceStep("sdl") \/ Initialize)
  /\ \A t \in 1..(Budget + 1) : WF_vars(t \in DOMAIN threads /\ InputThread(t))
FairSpec == Spec /\ Fairness

-----------------------------------------------------------------------------
(***************************************************************************)
(* What the manager and its devices promise.                               *)
(***************************************************************************)

\* No attached device is overlooked: whether it was plugged in before, during or
\* after initialize(), by then the table holds all its interfaces.
AttachedIsListed ==
  process = "running" /\ actor["sdl"].job # "initialize" =>
    \A d \in Devices : plugged[d] = "in" =>
      \/ \E n \in DOMAIN broadcasts : broadcasts[n] = [kind |-> "attached", of |-> d]
      \/ \A p \in ports : \E id \in DOMAIN mDevicesById :
           devices[mDevicesById[id]].of = <<d, p>>

\* An id stands for one interface, across all runs of the process: the table never
\* confuses two, although the first interface gets a new id every time.
IdsUnique ==
  /\ \A m, n \in DOMAIN devices : devices[m].id = devices[n].id => devices[m].of = devices[n].of
  /\ \A i, j \in Interface : saved.id[i] = saved.id[j] /\ saved.id[i] # 0 => i = j

Live(o) == {t \in DOMAIN threads : threads[t].of = o /\ threads[t].at \in {"loop", "reading"}}

\* A device whose calls do not overlap has one reader, which never reads from a
\* connection that was closed or replaced under it.
SoleReader ==
  \A o \in DOMAIN devices \ overlap :
    /\ Cardinality(Live(o)) <= 1
    /\ \A t \in Live(o) : threads[t].at = "reading"
         => connections[threads[t].on] /\ threads[t].on = devices[o].mConnection

\* A device that has left the table leaves neither a connection nor a thread
\* behind, unless its calls overlapped or another object took its entry.
NothingLeaks ==
  \A o \in DOMAIN devices \ overlap :
    \/ \E id \in DOMAIN mDevicesById : mDevicesById[id] = o
    \/ \E a \in Actor : actor[a].device = o
    \/ \E n \in DOMAIN devices : n > o /\ devices[n].id = devices[o].id
    \/ devices[o].mConnection = 0 /\ Live(o) = {}

\* Detaching, destroying and late permissions crash the process only where calls
\* for one device overlap, or where a device is detached during initialize().
CrashNeedsOverlap ==
  process = "crashed" => overlap # {} \/ actor["sdl"].at = "enumerate"

\* close() waits for ever only for a thread that an overlapping open() started.
WaitsAlone == Alive /\ \E a \in Actor : actor[a].at = "joining" /\ actor[a].device \notin overlap
CloseReturns == WaitsAlone ~> ~WaitsAlone
=============================================================================

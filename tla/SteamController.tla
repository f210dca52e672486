--------------------------- MODULE SteamController ---------------------------
(***************************************************************************)
(* HIDDeviceBLESteamController: one Steam Controller over Bluetooth LE.    *)
(*                                                                         *)
(* Android's BluetoothGatt carries one request at a time, so the class     *)
(* queues GATT operations and runs the next when the callback of the       *)
(* previous arrives.  Three threads share the queue: the SDL thread, which *)
(* sends and asks for reports; the Binder thread of the callbacks; and the *)
(* main thread, which runs the posted executors and the broadcasts that    *)
(* reconnect or shut the controller down.                                  *)
(*                                                                         *)
(* A synchronized block is one action.  A callback is one action up to     *)
(* finishCurrentGattOperation, whose blocks are actions of their own.      *)
(* Callbacks of a replaced BluetoothGatt are not modelled.                 *)
(***************************************************************************)
EXTENDS Integers, Sequences

CONSTANTS
  FaultCases,  \* what may go wrong: one of these subsets of FaultKinds
  IsChromebook,\* mIsChromebook
  MaxOps,      \* bound: GATT operations ever queued
  MaxLinks     \* bound: calls of connectGatt

\* early: SDL uses the device before it is registered.  refuse: BluetoothGatt
\* returns false although it is idle.  drop: the link is lost.  discovery: it
\* fails, or finds no service.  error: a write's callback reports a failure in
\* its status.  shutdown: the device is removed.
FaultKinds == {"early", "refuse", "drop", "discovery", "error", "shutdown"}

ASSUME FaultCasesAssumption == FaultCases \subseteq SUBSET FaultKinds
ASSUME IsChromebookAssumption == IsChromebook \in BOOLEAN
ASSUME BoundsAssumption == MaxOps \in Nat \ {0} /\ MaxLinks \in Nat \ {0}

VARIABLES
  faults,         \* constant in a behaviour: what may go wrong in it
  mOperations, mCurrentOperation,
  mGatt,          \* 0 is null, n is the n-th BluetoothGatt of the device
  mIsRegistered, mIsConnected, mIsReconnecting,
  posted,         \* Runnables in the main looper, in order
  binder, sdl,    \* program counters, with the operation in hand
  link,           \* external: state of the n-th BluetoothGatt's connection
  services,       \* external: what each BluetoothGatt knows of the services
  air,            \* external: the request on the air
  links, created, \* counters behind MaxLinks and MaxOps
  configured,     \* history: the controller confirmed enterValveMode
  crashed         \* an exception escaped on the main thread

queueVars == <<mOperations, mCurrentOperation, posted>>
gattVars  == <<link, services, air>>
flagVars  == <<mIsRegistered, mIsConnected, mIsReconnecting>>
vars == <<queueVars, gattVars, flagVars, configured, mGatt, binder, sdl, links,
          created, crashed>>

Kind == {"notify", "write", "read"}
\* result folds mResult (FALSE only when refused) with whether run() happened.
Op   == [id : Nat \ {0}, kind : Kind, gatt : Nat, result : {"fresh", "accepted", "refused"}]
NoOp == [id |-> 0]
Air  == {"none", "descriptor", "valve", "write", "read"}

TypeOK ==
  /\ faults \in FaultCases
  /\ mOperations \in Seq(Op) /\ mCurrentOperation \in Op \cup {NoOp}
  /\ mGatt \in 0..MaxLinks
  /\ mIsRegistered \in BOOLEAN /\ mIsConnected \in BOOLEAN
  /\ mIsReconnecting \in BOOLEAN
  /\ posted \in Seq({"run", "discover"})
  /\ binder \in [pc : {"idle", "finish", "taken", "execute"}, op : Op \cup {NoOp}]
  /\ sdl \in [pc : {"idle", "add", "execute"}, kind : Kind]
  /\ link \in {"connecting", "connected", "lost", "closed"}
  /\ services \in [0..MaxLinks -> {"none", "discovering", "known"}] /\ air \in Air
  /\ links \in 1..MaxLinks /\ created \in 0..MaxOps
  /\ configured \in BOOLEAN /\ crashed \in BOOLEAN

\* The constructor: nothing queued, the first connectGatt under way.
Init ==
  /\ faults \in FaultCases
  /\ mOperations = <<>> /\ mCurrentOperation = NoOp /\ posted = <<>>
  /\ mGatt = 1 /\ links = 1
  /\ mIsRegistered = FALSE /\ mIsConnected = FALSE /\ mIsReconnecting = FALSE
  /\ binder = [pc |-> "idle", op |-> NoOp] /\ sdl = [pc |-> "idle", kind |-> "write"]
  /\ link = "connecting" /\ air = "none"
  /\ services = [n \in 0..MaxLinks |-> "none"]
  /\ created = 0 /\ configured = FALSE /\ crashed = FALSE

-----------------------------------------------------------------------------
(***************************************************************************)
(* The queue.                                                              *)
(***************************************************************************)

\* Mutant of NewOp: the result is left unset.
NewOpUnset(kind) == [id |-> created + 1, kind |-> kind, gatt |-> mGatt, result |-> "unset"]

\* queueGattOperation's first block; the gatt is the field's value right now.
NewOp(kind) == [id |-> created + 1, kind |-> kind, gatt |-> mGatt, result |-> "fresh"]
AddOperation(kind) ==
  /\ created < MaxOps
  /\ created' = created + 1
  /\ mOperations' = Append(mOperations, NewOp(kind))

\* Mutant of ExecuteNext: the operation stays in the queue while it runs.
ExecuteNextPeeks ==
  IF mCurrentOperation # NoOp \/ mOperations = <<>> THEN UNCHANGED queueVars
  ELSE /\ mCurrentOperation' = Head(mOperations)
       /\ posted' = Append(posted, "run")
       /\ UNCHANGED mOperations

\* executeNextGattOperation.  Posting after the block is no step of its own:
\* the posted Runnable reads mCurrentOperation only when it runs.
ExecuteNext ==
  IF mCurrentOperation # NoOp \/ mOperations = <<>> THEN UNCHANGED queueVars
  ELSE /\ mCurrentOperation' = Head(mOperations)
       /\ mOperations' = Tail(mOperations)
       /\ posted' = Append(posted, "run")

-----------------------------------------------------------------------------
(***************************************************************************)
(* The main thread.                                                        *)
(***************************************************************************)

Main(kind) == ~crashed /\ posted # <<>> /\ Head(posted) = kind

\* What goes on the air when BluetoothGatt accepts an operation.
Request(kind) == IF kind = "notify" THEN "descriptor" ELSE kind

CanAccept(op) == op.gatt = mGatt /\ link = "connected" /\ air = "none"
Missing(op)   == services[op.gatt] # "known"
Throws(op)    == op.gatt = 0 \/ (op.kind # "notify" /\ Missing(op))
NoSuchCharacteristic(op) == op.gatt # 0 /\ op.kind = "notify" /\ Missing(op)

Answer(op, result) == mCurrentOperation' = [op EXCEPT !.result = result]

\* GattOperation.run, on whatever operation is current by now.  Without the
\* characteristic, reading and writing throw and enabling does nothing.
RunOperation(op) ==
  \/ /\ Throws(op)
     /\ crashed' = TRUE
     /\ UNCHANGED <<mCurrentOperation, air>>
  \/ /\ ~Throws(op) /\ NoSuchCharacteristic(op)
     /\ UNCHANGED <<mCurrentOperation, air, crashed>>
  \/ /\ ~Throws(op) /\ ~NoSuchCharacteristic(op) /\ CanAccept(op)
     /\ Answer(op, "accepted") /\ air' = Request(op.kind)
     /\ UNCHANGED crashed
  \/ /\ ~Throws(op) /\ ~NoSuchCharacteristic(op)
     /\ ~CanAccept(op) \/ "refuse" \in faults
     /\ Answer(op, "refused")
     /\ UNCHANGED <<air, crashed>>

RunPosted ==
  /\ Main("run")
  /\ posted' = Tail(posted)
  /\ IF mCurrentOperation = NoOp
     THEN UNCHANGED <<mCurrentOperation, air, crashed>>
     ELSE RunOperation(mCurrentOperation)
  /\ UNCHANGED <<mOperations, link, services, flagVars, configured, mGatt, binder,
                 sdl, links, created>>

\* The Runnable of onConnectionStateChange: mGatt.discoverServices().
DiscoverPosted ==
  /\ Main("discover")
  /\ posted' = Tail(posted)
  /\ crashed' = (mGatt = 0)
  /\ services' = IF mGatt # 0 /\ link = "connected"
                 THEN [services EXCEPT ![mGatt] = "discovering"] ELSE services
  /\ UNCHANGED <<mOperations, mCurrentOperation, link, air, flagVars, configured,
                 mGatt, binder, sdl, links, created>>

\* disconnect() of the old BluetoothGatt and connectGatt().
Connect ==
  /\ links < MaxLinks
  /\ links' = links + 1 /\ mGatt' = links + 1
  /\ link' = "connecting" /\ air' = "none"

\* ACL_CONNECTED for a known device.
Reconnect ==
  /\ ~crashed /\ mGatt # 0 /\ link = "lost"
  /\ Connect
  /\ UNCHANGED <<queueVars, services, flagVars, configured, binder, sdl, created, crashed>>

\* mCurrentOperation is not cleared.
Shutdown ==
  /\ ~crashed /\ "shutdown" \in faults /\ mGatt # 0
  /\ mGatt' = 0 /\ link' = "closed" /\ air' = "none"
  /\ mIsRegistered' = FALSE /\ mIsConnected' = FALSE
  /\ mOperations' = <<>>
  /\ UNCHANGED <<mCurrentOperation, posted, services, mIsReconnecting, configured, binder,
                 sdl, links, created, crashed>>

-----------------------------------------------------------------------------
(***************************************************************************)
(* The Binder thread: BluetoothGattCallback.                               *)
(***************************************************************************)

Callback == ~crashed /\ binder.pc = "idle"
Status == IF "error" \in faults THEN BOOLEAN ELSE {TRUE}

BinderAt(pc, op) == binder' = [pc |-> pc, op |-> op]

OnConnected ==
  /\ Callback /\ link = "connecting"
  /\ link' = "connected"
  /\ mIsReconnecting' = FALSE /\ mIsConnected' = TRUE
  /\ posted' = IF mIsRegistered THEN posted ELSE Append(posted, "discover")
  /\ UNCHANGED <<mOperations, mCurrentOperation, services, air, mIsRegistered,
                 configured, mGatt, binder, sdl, links, created, crashed>>

\* A lost link takes the outstanding request with it; no callback answers it.
OnDisconnected ==
  /\ Callback /\ link \in {"connecting", "connected"} /\ "drop" \in faults
  /\ link' = "lost" /\ air' = "none"
  /\ mIsReconnecting' = FALSE /\ mIsConnected' = FALSE
  /\ UNCHANGED <<queueVars, services, mIsRegistered, configured, mGatt, binder,
                 sdl, links, created, crashed>>

\* Services found: probeService queues the notification of the input
\* characteristic.  A failed status is ignored; no services means reconnecting.
OnServicesDiscovered ==
  /\ Callback /\ link = "connected" /\ services[mGatt] = "discovering"
  /\ \/ /\ services' = [services EXCEPT ![mGatt] = "known"]
        /\ IF mIsRegistered \/ ~mIsConnected
           THEN UNCHANGED <<mOperations, created, binder>>
           ELSE AddOperation("notify") /\ BinderAt("execute", NoOp)
        /\ UNCHANGED <<flagVars, mGatt, link, air, links>>
     \/ /\ "discovery" \in faults
        /\ services' = [services EXCEPT ![mGatt] = "none"]
        /\ UNCHANGED <<flagVars, mGatt, link, air, links, mOperations, created, binder>>
     \/ /\ "discovery" \in faults
        /\ mIsReconnecting' = TRUE /\ mIsConnected' = FALSE
        /\ Connect
        /\ UNCHANGED <<services, mIsRegistered, mOperations, created, binder>>
  /\ UNCHANGED <<mCurrentOperation, posted, configured, sdl, crashed>>

\* onCharacteristicRead: the report goes to the native side (not modelled).
OnCharacteristicRead ==
  /\ Callback /\ air = "read"
  /\ air' = "none"
  /\ BinderAt("finish", NoOp)
  /\ UNCHANGED <<queueVars, link, services, flagVars, configured, mGatt, sdl,
                 links, created, crashed>>

\* Any write of the report characteristic registers the controller, whatever
\* its status.
OnCharacteristicWrite ==
  /\ Callback /\ air \in {"valve", "write"}
  /\ air' = "none"
  /\ \E ok \in Status : configured' = (configured \/ (air = "valve" /\ ok))
  /\ mIsRegistered' = TRUE
  /\ BinderAt("finish", NoOp)
  /\ UNCHANGED <<queueVars, link, services, mIsConnected, mIsReconnecting, mGatt,
                 sdl, links, created, crashed>>

\* Mutant of OnDescriptorWrite: enterValveMode is not written.
OnDescriptorWriteQuietly ==
  /\ Callback /\ air = "descriptor"
  /\ air' = "none"
  /\ BinderAt("finish", NoOp)
  /\ UNCHANGED <<queueVars, link, services, flagVars, configured, mGatt, sdl,
                 links, created, crashed>>

\* enterValveMode is written directly, past the queue.
OnDescriptorWrite ==
  /\ Callback /\ air = "descriptor"
  /\ air' \in {"valve"} \cup (IF "refuse" \in faults THEN {"none"} ELSE {})
  /\ BinderAt("finish", NoOp)
  /\ UNCHANGED <<queueVars, link, services, flagVars, configured, mGatt, sdl,
                 links, created, crashed>>

\* Mutant of TakeCurrent: mCurrentOperation is not cleared.
TakeCurrentKeeps ==
  /\ ~crashed /\ binder.pc = "finish"
  /\ BinderAt("taken", mCurrentOperation)
  /\ UNCHANGED <<queueVars, gattVars, flagVars, configured, mGatt, sdl, links,
                 created, crashed>>

\* finishCurrentGattOperation: take the current operation, ...
TakeCurrent ==
  /\ ~crashed /\ binder.pc = "finish"
  /\ BinderAt("taken", mCurrentOperation)
  /\ mCurrentOperation' = NoOp
  /\ UNCHANGED <<mOperations, posted, gattVars, flagVars, configured, mGatt, sdl,
                 links, created, crashed>>

\* Mutant of FinishTaken: having put the operation back, it returns.
FinishTakenReturns ==
  /\ ~crashed /\ binder.pc = "taken"
  /\ IF binder.op # NoOp /\ binder.op.result = "refused"
     THEN mOperations' = <<binder.op>> \o mOperations /\ BinderAt("idle", NoOp)
     ELSE UNCHANGED mOperations /\ BinderAt("execute", NoOp)
  /\ UNCHANGED <<mCurrentOperation, posted, gattVars, flagVars, configured, mGatt,
                 sdl, links, created, crashed>>

\* ... put it back in front if it was refused, outside any lock, ...
FinishTaken ==
  /\ ~crashed /\ binder.pc = "taken"
  /\ mOperations' = IF binder.op # NoOp /\ binder.op.result = "refused"
                    THEN <<binder.op>> \o mOperations ELSE mOperations
  /\ BinderAt("execute", NoOp)
  /\ UNCHANGED <<mCurrentOperation, posted, gattVars, flagVars, configured, mGatt,
                 sdl, links, created, crashed>>

\* ... and execute the next.
BinderExecute ==
  /\ ~crashed /\ binder.pc = "execute"
  /\ ExecuteNext
  /\ BinderAt("idle", NoOp)
  /\ UNCHANGED <<gattVars, flagVars, configured, mGatt, sdl, links, created, crashed>>

-----------------------------------------------------------------------------
(***************************************************************************)
(* The SDL thread: sendFeatureReport, sendOutputReport, getFeatureReport.  *)
(***************************************************************************)

SDLIdle == ~crashed /\ sdl.pc = "idle"
SDLAt(pc, kind) == sdl' = [pc |-> pc, kind |-> kind]

\* Mutant of Report: the registration is not tested.
ReportUnchecked(kind) ==
  /\ SDLIdle /\ created < MaxOps
  /\ SDLAt("add", kind)
  /\ UNCHANGED <<queueVars, gattVars, flagVars, configured, mGatt, binder, links,
                 created, crashed>>

Report(kind) ==
  /\ SDLIdle /\ mIsRegistered /\ created < MaxOps
  /\ SDLAt("add", kind)
  /\ UNCHANGED <<queueVars, gattVars, flagVars, configured, mGatt, binder, links,
                 created, crashed>>

\* Before the registration the report is refused and the service probed again:
\* the input characteristic's notification is queued once more, or, without
\* services, a Chromebook connects anew.
ReportTooEarly ==
  /\ SDLIdle /\ ~mIsRegistered /\ mIsConnected /\ "early" \in faults
  /\ \/ /\ services[mGatt] = "known" /\ created < MaxOps
        /\ SDLAt("add", "notify")
        /\ UNCHANGED <<mIsConnected, mIsReconnecting, mGatt, links, gattVars>>
     \/ /\ services[mGatt] # "known" /\ IsChromebook /\ ~mIsReconnecting
        /\ mIsConnected' = FALSE /\ mIsReconnecting' = TRUE
        /\ Connect
        /\ UNCHANGED <<services, sdl>>
  /\ UNCHANGED <<queueVars, mIsRegistered, configured, binder, created, crashed>>

SDLAdd ==
  /\ ~crashed /\ sdl.pc = "add"
  /\ AddOperation(sdl.kind)
  /\ SDLAt("execute", sdl.kind)
  /\ UNCHANGED <<mCurrentOperation, posted, gattVars, flagVars, configured, mGatt,
                 binder, links, crashed>>

\* SDLAdd inside its lock meets FinishTaken outside any: on an empty
\* LinkedList each side may overwrite the other's first and last.
RacyAdd ==
  /\ ~crashed /\ sdl.pc = "add" /\ created < MaxOps
  /\ binder.pc = "taken" /\ binder.op # NoOp /\ binder.op.result = "refused"
  /\ mOperations = <<>>
  /\ mOperations' \in {<<binder.op>>, <<NewOp(sdl.kind)>>}
  /\ created' = created + 1
  /\ SDLAt("execute", sdl.kind) /\ BinderAt("execute", NoOp)
  /\ UNCHANGED <<mCurrentOperation, posted, gattVars, flagVars, configured, mGatt,
                 links, crashed>>

SDLExecute ==
  /\ ~crashed /\ sdl.pc = "execute"
  /\ ExecuteNext
  /\ SDLAt("idle", "write")
  /\ UNCHANGED <<gattVars, flagVars, configured, mGatt, binder, links, created, crashed>>

-----------------------------------------------------------------------------
MainThread   == RunPosted \/ DiscoverPosted \/ Reconnect \/ Shutdown
Callbacks    == OnServicesDiscovered \/ OnCharacteristicRead
                \/ OnCharacteristicWrite \/ OnDescriptorWrite
BinderFinish == TakeCurrent \/ FinishTaken \/ BinderExecute
BinderThread == OnConnected \/ OnDisconnected \/ Callbacks \/ BinderFinish
SDLQueue     == SDLAdd \/ SDLExecute
SDLThread    == ReportTooEarly \/ SDLQueue \/ \E k \in {"write", "read"} : Report(k)

Next == (MainThread \/ BinderThread \/ SDLThread \/ RacyAdd) /\ UNCHANGED faults
Spec == Init /\ [][Next]_<<vars, faults>>

\* Threads run; BluetoothGatt answers what it accepted while the link is up.
\* Nothing obliges SDL to send, nor a lost link to come back.
FairSpec ==
  /\ Spec
  /\ WF_vars(RunPosted) /\ WF_vars(DiscoverPosted)
  /\ WF_vars(OnConnected) /\ WF_vars(Callbacks)
  /\ WF_vars(BinderFinish) /\ WF_vars(SDLQueue)

-----------------------------------------------------------------------------
(***************************************************************************)
(* What the queue promises.                                                *)
(***************************************************************************)

\* An operation is in one place at a time: queued, current, or in the hands of
\* finishCurrentGattOperation.  Re-adding a refused one never duplicates it.
OneHome ==
  LET ids == [i \in DOMAIN mOperations |-> mOperations[i].id]
  IN  /\ \A i, j \in DOMAIN ids : ids[i] = ids[j] => i = j
      /\ \A i \in DOMAIN ids : ids[i] # mCurrentOperation.id /\ ids[i] # binder.op.id
      /\ mCurrentOperation = NoOp \/ mCurrentOperation.id # binder.op.id

\* The queue never rests with work in it: when no operation is current,
\* some thread is on its way to executeNextGattOperation.
NoIdleQueue ==
  mOperations # <<>> /\ mCurrentOperation = NoOp
    => binder.pc \in {"taken", "execute"} \/ sdl.pc = "execute" \/ crashed

\* Comment of onCharacteristicWrite: "Only register controller with the native
\* side once it has been fully configured".
ConfiguredBeforeRegistered == mIsRegistered => configured

\* A report is never run on a connection without services unless the device
\* was reconnected or shut down under it.
FirstLinkNeverThrows == crashed => mGatt = 0 \/ links > 1

\* The executor's comment: "now wait for the GATT callback and when it comes,
\* finish this operation".  An operation is finished only after it was run.
FinishesOnlyRun == binder.op # NoOp => binder.op.result # "fresh"

\* With an obliging Bluetooth stack a new controller is configured and
\* registered.
EventuallyRegistered == faults = {} ~> mIsRegistered

\* With an obliging stack no operation stays current for ever.
NoStall ==
  \A i \in 1..MaxOps :
    faults = {} /\ mCurrentOperation.id = i ~> mCurrentOperation.id # i
=============================================================================

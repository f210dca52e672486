# Verification of android-mkxp

android-mkxp wraps the mkxp game engine (an interpreter of RPG Maker games on
SDL2) in an Android application. The engine, SDL and Ruby are C and C++ in git
submodules, which this repository does not hold. What it does hold is the Java
side: the activities of `src/src/org/ancurio/mkxp`, the on-screen controls of
`src/src/org/ancurio/button_mapping`, and SDL's Android glue in
`src/src/org/libsdl/app`, which drives the native code from the callbacks of
the Android framework. That Java code is where threads meet, and it is the
subject of this project. Native code, the framework, Bluetooth and Google Play
are external: they appear as the calls they make and the answers they give.

## Inventory

| Component | State | Operations | Module |
|---|---|---|---|
| Activity lifecycle and SDL thread (`SDLActivity`, `SDLSurface`, `MKXPActivity`) | static fields: next and current native state, focus, resume request, `mSDLThread`, `mBrokenLibraries`; surface readiness | lifecycle callbacks, window focus, surface callbacks, back button, `SDLMain.run`, `onDestroy` | `SDLActivity`, implementing `GameHost` |
| Cloud saves (`MKXPActivity`, `LoginActivity`) | save files and their dates, snapshots and theirs, Tasks in flight | upload on message 400, download at start, migration of legacy files | `CloudSaves` |
| Steam Controller over Bluetooth LE (`HIDDeviceBLESteamController`) | queue of GATT operations, the current one, connection and registration flags | reports from SDL, GATT callbacks, posted executors, reconnect, shutdown | `SteamController` |
| On-screen controls (`VirtualButton`, `VirtualCross`) | pressed flags, the cross's direction, keys held in SDL | touch events | `VirtualPad` |
| Login flow (`LoginActivity`) | sign-in state, migration preference | sign-in callbacks, `startGame` | its copying of saves in `CloudSaves`; the rest not modelled |
| Message box, commands, window style (`SDLActivity`) | one dialog, its result array, a monitor | blocking calls of the SDL thread served by the UI thread | `MessageBox` |
| Text input (`SDLInputConnection`, `DummyEdit`) | committed text | edits, `updateText`, show, hide, typed keys | `TextInput` |
| HID device manager and USB devices | device table, identifiers in the preferences, permission requests, input threads | broadcasts, open, close, release, reports | `HIDDevices` |
| Joysticks, haptics, mouse (`SDLControllerManager`) | lists of devices | polling, motion events | not modelled yet |
| Audio (`SDLAudioManager`) | one track, one record | open, write, read, close | not modelled yet |
| Touch, sensors, clipboard, cursor, permissions, `SDL` glue | none of their own, or one field | stateless translation | not modelled |
| Engine, SDL, vendored C libraries, build scripts | - | - | external, or not modelled |

How they interact. The UI thread runs every callback of the framework and the
listeners of Google Play's Tasks. The SDL thread runs the C program, which calls
back into Java: reports for HID devices, message boxes, audio, and
`sendMessage(400)` once the game has saved. The two share the static fields of
`SDLActivity` with no lock. Bluetooth callbacks arrive on a Binder thread and
share the GATT queue with the SDL thread and the main looper under a monitor
that does not cover every access. USB devices
are opened and closed by the SDL thread and by broadcasts on the main thread, and
each opened one has an input thread of its own. A message box makes the SDL
thread wait for the UI thread, and `onDestroy` the UI thread for the SDL thread.
The on-screen controls run on the UI thread and talk to SDL through `onNativeKeyDown` and `onNativeKeyUp`. The game writes
its saves on the SDL thread while listeners on the UI thread read and overwrite
the same files.

What is hard, and what makes each component correct:

* **Lifecycle.** Three conditions of a resume come from three unordered sources.
  The end of the SDL thread races with pause, resume and destroy. Correct: no
  resume is lost, the C program runs at most once at a time and is never torn
  down while it runs, `onDestroy` returns.
* **Cloud saves.** Tasks are slow, fail, conflict and overtake one another, the
  game saves at any moment, the process ends at any moment, a file cannot be
  written, another device saves too. Correct: the last save survives, a snapshot
  never goes back, a copy never looks newer than its original, and where a failed
  write breaks this, nothing else does.
* **Steam Controller.** Three threads, a one-at-a-time radio, links that drop.
  Correct: an operation is in one place, the queue never rests with work in it,
  a controller is registered only after it was configured.
* **On-screen controls.** Several fingers per view, gestures that slide off or
  are cancelled. Correct: one direction at a time, the one under the leading
  finger; what SDL holds is what the views believe they pressed.
* **Message box.** Two threads wait for one another by hand: a monitor with no
  condition, a dialog posted before the wait. Correct: the box returns what the
  player chose in it, one box at a time, nobody waits for nothing.
* **USB devices.** The table has a lock most paths take, the devices have none;
  broadcasts, `initialize`, `openDevice`, `closeDevice`, the release of the
  manager and the input threads interleave, and the process restarts with the
  identifiers it saved. Correct: no attached device is overlooked, an identifier
  stands for one device, an opened device has one reader on a live connection,
  nothing is left open when a device goes, `close()` returns.
* **Text input.** An input method edits a text and the C program hears only
  backspaces and new characters. Correct: both end with the same text.

`PROJECT.json` lists the places in the code where these go wrong most easily
("hazards") with the properties that watch over each.

## Modules

Every definition names the code it translates in `PROJECT.json` under "map".
Operators commented as a mutant are altered copies of the definition below
them. They are used by no specification and serve to show that a property
notices the change.

### SDLActivity

The life of one process with one `MKXPActivity` (its `onDestroy` ends in
`nativeExit`). The variables carry the names of the static fields. `life`,
`finishing`, `windowFocus` and `surface` are what the framework knows. `pc[t]`
is where the t-th SDL thread is in `SDLMain.run`, and `mSDLThread` is 0 for null
or the number of a thread. A callback is one action with everything it calls
(`handleNativeState` is `HandleNativeState`), because the UI thread does not
yield inside it. `onDestroy` does yield, in `join()`, so it is three actions:
send SDL_QUIT, read `mSDLThread` again, wait. The tail of `SDLMain.run` is one
action per access to a shared field: `CheckFinishing`, `ClearThread`,
`FinishActivity`. Loading the libraries may fail in either of the two ways
`onCreate` distinguishes. `mHasMultiWindow`, a constant of the device, is chosen
in `Init`. A surface of the wrong orientation is the parameter `skip` of
`SurfaceChanged`.

Not in the module: two activities that overlap in one process, `onLowMemory`,
`onConfigurationChanged`, the requested orientation itself, and the joystick
calls of the C program. Its message boxes are in `MessageBox`.

### GameHost

`GameHost` is the contract, in four actions: a host shows, hides, ends and closes;
a game is awake only while it is shown, runs once at a time, and is over before
the host is gone. The mapping is at the end of `SDLActivity`: the game is the C
program if a thread is inside `nativeRunMain`, asleep after `nativePause`; shown
is RESUMED. `HostContract` is `Host!Spec` under it: checked by `lifecycle`, proved
in `SDLActivityProofs`. Once a game has ended the contract is weaker: `Show` may then
leave the host without a game, or with a new game that starts asleep. That is what
the code does between `mSDLThread = null` and `finish()`.

### MessageBox

`SDLActivity` with the two calls in which the C program waits for the UI thread.
`messageboxShowMessageBox` is `ShowMessageBox` (reset the selection, post the
dialog), `BeginWait` (take the monitor and wait) and `ReturnSelection`; the UI
thread shows the dialog, hears of a button (`OnClick`) and later runs the listener
that notifies (`OnDismiss`). `ChangeWindowStyle` is the wait of 500 ms in
`sendCommand`, which `surfaceChanged` ends earlier. `MainReturns` waits for the
call to return, since `nativeRunMain` is what made it. `ActivityStep` is the UI
thread's part of `SDLActivity`; a dialog on the screen keeps the back button from
the activity, because `setCancelable(false)`. A player answers only in the
foreground. The history variable `missed` remembers that a notify came
before the wait it was meant for. Spurious wake-ups, `InterruptedException` (nobody
interrupts the SDL thread) and the exception of showing a dialog on an activity
that is finished already are left out, and so is the sanity check that refuses a
box whose arrays differ in length.

### HIDDevices

The USB half of `HIDDeviceManager`, with its `HIDDeviceUSB` objects. `actor` holds
what the main thread and the SDL thread are doing: a job (`initialize`, `open`,
`close`, the loops of a detach, a permission answer and the manager's `close()`),
the statement they are at, and the object they are in. `open()` and `close()` of a
device take no lock and are one action per access to `mConnection`, `mRunning` and
`mInputThread`, for whichever thread runs them; so is `InputThread.run`. A block
under the manager's lock is one action, except the manager's `close()`, which holds
the lock while it joins input threads (`LockFree`). A null field is 0. The ways out
are in the model, too: an exception is caught in `openDevice` and `closeDevice`
(`Throws`), ends the process on the main thread, and is caught by the loop of the
input thread when it reads through a null connection. `IdOf` is the identifier of
an interface, saved in the preferences, where 0 reads as missing although the first
identifier is 0; `ConnectUSB` adds all the interfaces of a device at once. A bus address is new whenever a device is plugged in, so a run of
the process sees a `UsbDevice` come and go once; a restart of the process, and of
the phone, uses the addresses again. `overlap` is a history variable: the devices
whose `open()` met another `open()` or `close()` or was called on an open device.

Left out: reports to a device, `setFrozen`, the reference count of the manager
(always 0 or 1 with one activity), the Bluetooth half, the endpoints kept in the
fields, and corruption of the unsynchronised `HashMap` beyond the exception its
iterator throws.

### TextInput

`SDLInputConnection` and the keys that go past it. A text is a sequence of code
points, `appText` the text of the C program as it follows from what it was sent.
`Edit` is any of the three edits, or a printed key on the text field, followed by
`updateText`; the input method may leave any text behind. `UpdateText` sends
backspaces for what no longer matches and then the rest, and, as in the code,
returns in between when a soft return was taken, with `mCommittedText` as it was.
`Show` makes a new connection (`onCreateInputConnection`), `Hide` gives the focus
back to the surface, where a printed key is committed at once. The delete key
prints nothing and reaches the program as a key. The histories `swallowed` and
`erased` remember these two. Simulated scancodes of letters are left out: only that
of a backspace changes the text.

### SteamController

One `HIDDeviceBLESteamController`. A synchronized block is one action.
`finishCurrentGattOperation` is `TakeCurrent`, `FinishTaken`, `BinderExecute`,
because it takes the monitor twice and touches the queue in between without it.
`RacyAdd` is that access colliding with an `add` of the SDL thread on an empty
`LinkedList`: either element may be lost. Posted Runnables read
`mCurrentOperation` when they run, as in the code. `air` is the single request
`BluetoothGatt` carries. The write of enterValveMode in `onDescriptorWrite`
goes past the queue, as in the code. An operation has an
identity, a kind and the BluetoothGatt it was created with; payloads are left
out. Callbacks of a `BluetoothGatt` that was replaced are left out, and so are
input reports, `setFrozen` and the Chromebook check that nothing schedules.

`faults`, one of `FaultCases` and chosen in `Init`, is what may go wrong: `early` reports, a `refuse`d request, a
`drop`ped link, a failed `discovery`, an `error` status, a `shutdown`.

### VirtualPad

`VirtualButton` and `VirtualCross`. `fingers[v]` is the sequence of fingers on a
view by pointer index: `getX()` is the head's. One action per kind of
`MotionEvent`; kinds the code's `default` ignores change the fingers only.
`Left`, `Right`, `Up`, `Down` are the rectangles of `setBounds` with their
paddings, and `Direction` tests them in the code's order. `MCVirtualPad` gives
one point per outcome of the hit test. `debug_mode` is never set and left out.

### CloudSaves

`updateSaveFiles`, `writeSnapshot`, `loadSaveGames` and the copying of
`LoginActivity.onActivityResult` against a snapshot service seen through its
Tasks. Contents are version numbers in the order of saving. The unit of time is
15 seconds, so the 15-second test is `Recent = 1` and the 30-second test
`Fresh = 2`. A download is three steps (truncated, written, stamped), because
the game thread writes the same directory. The IOException that
`MKXPActivity.java:298` catches is `DownloadFails`: from `Files.write` it leaves
a truncated file (`Torn`) dated now, from `setLastModifiedTime` a complete one
dated now, and loading goes on; a file that cannot even be opened for writing is
left alone (`TaskFails`). A migration that fails (`Migrate`) leaves no file when
the legacy one cannot be opened, since the existing save is deleted first, and a
truncated one when `Files.copy` fails half-way. `env`, one of `Envs` and chosen
in `Init`, is what may happen: Tasks that are `slow`, `reorder`ed, `fail`ing or
in `conflict`, saves made `early` while the list is loading, `exit` of the
process, which may `tear` a file being written, a download that is `unwritable`,
another `device`, a `migrate`d file, an `unreadable` legacy file.

## Runs

| Run | Shows | Bounds |
|---|---|---|
| `lifecycle` | all invariants, `GameOverEndsProcess`, `OnDestroyReturns`, and the refinement `HostContract` (11,425 states) | `MaxGames` = 3 |
| `lifecycle_restart` | `StartsOnce` violated | `MaxGames` = 2 |
| `box` | `BoxReturnsChoice`, `OneDialog`, `WaitsForReason`, `AnswerReturns` (66,037 states) | `MaxGames` = 2, 2 calls, 2 buttons |
| `box_destroy` | `OnDestroyReturns` violated once the C program may open a message box | 1 game, 1 call |
| `hid` | `AttachedIsListed`, `IdsUnique`, `SoleReader`, `NothingLeaks`, `CrashNeedsOverlap`, `CloseReturns` (651,924 states) | 1 device of 1 or 2 interfaces, 2 or 1 calls or restarts |
| `text` | `Synced` (94,582 states) | texts of at most 3 of 2 code points, one of them the return |
| `gatt_faults` | `OneHome`, `NoIdleQueue`, `FirstLinkNeverThrows`, `ConfiguredBeforeRegistered` under every fault but `error`; `EventuallyRegistered`, `NoStall` with no fault (162,113 states) | 4 operations, 3 links |
| `gatt_early_finish` | a comment of the code violated | 2 operations |
| `pad` | `HeldKeysMatchViews`, `SteersWithFinger`, `LiftReleases` | 2 fingers per view, 7 points, 1 button |
| `saves_hostile` | `FresherOnlyIfCutShort` with every disturbance, and with every one but `tear` and `unwritable` (304,180 states) | 4 saves, 4 ticks |
| `saves_orderly` | `NewestSaveSurvives`, `RemoteNeverRegresses` with failures, restarts, migration and a second device, Tasks in order and in time; with `tear` and `unwritable`, too, except by the upload of a truncated file; `SavesReachCloud`, `NewerSnapshotArrives` where nothing fails (146,766 states) | 2 files, 3 saves, 4 ticks |
| `saves_early` | `FreshIsSkipped` violated | 2 saves, 2 ticks |

Every passing run checks the module's type invariant, too.

Why the bounds are enough. `MaxGames` = 3 lets the C program return unasked
in two threads, and a third end by SDL_QUIT: the race needs one return and one
restart. (The proofs below have no bound.) Four GATT operations fill the queue,
the current slot and the hands of the Binder thread with one to spare, and a
third link is one reconnection after a reconnection. The tolerance of 30 seconds
is two ticks, so four ticks hold a value on each side of it twice. Two fingers
are enough to let the leading finger change hands. The buttons do not share
state, so one stands for all. Two message boxes let an answer meet the box before
or after it, and two buttons tell their answers apart. In `hid`, one device can
be opened twice, opened and closed, or closed after a restart; with two interfaces
the loops of the manager have a second object to visit while the SDL thread is
in the first. Devices share nothing but the identifiers, which two interfaces
share, too. Three code points let a text agree, differ and go on in all ways, before
and after the return; the proofs have no bound.

`CHECK_DEADLOCK FALSE` stands where the system may go quiet: SDL is not obliged
to send, a device may be shut down, a player need not save or answer, cables and
calls are used up; in `box_destroy` the question is about the two threads, not
about the end of the process. It is on for `SDLActivity`, where only an ended
process stops (`Terminated`), for `VirtualPad` and for `TextInput`.

Fairness. `SDLActivity`: the framework tears down an activity that is finishing,
the UI thread gets on with `onDestroy`, the SDL thread is scheduled, and the C
program obeys SDL_QUIT. That last point is external: it is what
`nativeSendQuit` followed by an unbounded `join()` relies on. Nothing obliges the
user or the framework to do anything else. `SteamController`: the looper runs
what was posted, threads run, and `BluetoothGatt` answers what it accepted;
reports and reconnections are not fair. `MessageBox`: both threads go on with a call the C program made; the
player need not answer and the C program need not call. `HIDDevices`: both threads go on with
what they have begun, and an input thread runs, since `bulkTransfer` has a
timeout of one second; nothing is plugged in, answered or called by obligation.
`CloudSaves`: the looper runs and Tasks complete. Launching and saving are not fair, so the liveness properties end with
"or the process ended" or start from a save made.

## What the code does against its own words

* `lifecycle_restart`: between `mSDLThread = null` (`SDLActivity.java:1883`) and
  `finish()` (1884) a pause and a resume start a second SDL thread, while the
  comment of that branch speaks of the first time. The proved theorems show the
  damage is bounded: the first C program has returned by then.
* `gatt_early_finish`: the callback of the direct write of enterValveMode
  finishes whichever operation is current, even one not run yet, and drops it.
* `saves_early`: freshness is tested when the list arrives, the file overwritten
  listeners later, so a save made in between is lost.
* `box_destroy`: the player presses Back, the C program opens a message box, the
  UI thread enters `onDestroy` and joins a thread that waits for a dialog only the
  UI thread can show or dismiss (`SDLActivity.java:1468` and 599). Neither moves
  again, while the comment at 597 says "Wait for "SDLThread" thread to end".

Seen while modelling, and held against no property of a run:

* An operation `BluetoothGatt` refuses gets no callback, hence is never put back
  although `finishCurrentGattOperation` means to ("Our operation failed, let's add
  it back to the beginning of our queue"): the queue stalls. `NoStall` and
  `EventuallyRegistered` are stated without faults for that reason.
* `onCharacteristicWrite` ignores its status, so a failed write of enterValveMode
  registers a controller that was not configured. `gatt_faults` leaves out the
  fault `error` for that reason.
* The notify of a message box that is answered before the SDL thread reaches
  `wait()` is lost, and the box never returns (`missed`).
* The first identifier of a device is 0, which reads as missing: that device gets
  a new identifier every time. A device that is plugged in while devices are
  listed is handled twice, and the first of its two objects is orphaned. One
  unplugged in between stays in the table.
* `close()` that overlaps an `open()` of the same device may meet a null
  `mInputThread`, or wait for ever for a thread that was started again.
* After a soft return was taken, `mCommittedText` is stale, and the next edit
  backspaces over text that was deleted before.
* A download that cannot be written leaves a truncated file dated now
  (`MKXPActivity.java:298` logs it, and 301 logs "Copied remote file" all the
  same). Any message 400 within 15 seconds uploads it over the snapshot, which may
  be the only good copy. The same happens when the process ends during the write
  and the game is started again at once. `NewestSaveSurvives` and
  `RemoteNeverRegresses` allow this and nothing else. When only the dating fails,
  the copy hides the next version of its snapshot until that one is 30 seconds
  newer (`FresherOnlyIfCutShort` names the cause).
* The existing save is deleted before the legacy one is read
  (`LoginActivity.java:111`): a failed migration loses both.
* `ACTION_CANCEL` leaves a key of the on-screen controls held until the next
  gesture on that view ends (`LiftReleases` shows it does end).
* `nativeExit` is called even when the library that defines it did not load, and
  an upload dropped on a conflict is not tried again.

## Proofs

`SDLActivityProofs` proves, for every number of SDL threads and with no
assumption on `MaxGames` beyond its declared type, that `Spec` implies
`[]TypeOK`, `[]NoLostResume`, `[]ResumedHasSurface`, `[]AtMostOneGame`,
`[]QuitAfterMain`, `[]PauseReachesGame` and `WakesOnlyOnResume`.

These invariants are not inductive as they stand: `QuitAfterMain`, for one, says
nothing of the thread `onDestroy` is joining. The inductive invariant `IInv` adds, in three named parts:

* `GameInv`: a thread that has not cleared `mSDLThread` is the thread
  `mSDLThread` names. Hence at most one such thread exists, and starting another
  only when the field is null is safe, whatever the race in the tail of
  `SDLMain.run`. `nativePaused` is never set before a thread exists.
* `ConditionsInv`: with libraries that did not load there is no surface and no
  thread. This is what makes it harmless that `pauseNativeThread` and
  `resumeNativeThread` record a request and do nothing when the libraries are
  broken. A ready surface exists.
* `DestroyInv`: the thread `onDestroy` joins is the one in the game, if any. So
  when the join returns, or the second read finds null, no thread is in the game.

The lemmas follow the code. `HandleKeeps` says what `handleNativeState` keeps and
establishes, `RequestKeeps` the same for `pauseNativeThread` and
`resumeNativeThread`, `LifecycleStep` for a callback that calls one of them; then
one lemma per group of actions, combined in `NextKeeps`. `AppendStep` and
`ExceptStep` say what the two updates of `pc` do.

The same module proves `Spec => HostContract`: the initial states of
`SDLActivity` are initial states of `GameHost` under the mapping, and under `IInv`
every step is one of its four actions or changes nothing it can see.
A pause is `Hide`, a resume is `Show`, `MainReturns` is `End`, the end of `onDestroy`
is `Close`. `IInv` is needed where the code trusts its fields: that a thread is in the game only if
`mSDLThread` names it, and that none is when `nativeExit` is reached.
`GameHostProofs` says what the contract is worth: `AwakeOnlyShown`.

`VirtualPadProofs` proves, for every set of buttons apart from the directions
(`ButtonsAssumption`), every size, every set of points and any number of fingers,
`[]TypeOK`, `[]HeldKeysMatchViews`, `[]OneDirection`, `SteersWithFinger` and
`LiftReleases`. The invariant has two parts. `PadInv` is `HeldKeysMatchViews` with
the fact that a pressed cross has set its direction; it follows the presses and
releases alone. `FingersInv` says that a cross with a finger on it is pressed,
which is why a slide that finds the direction unchanged may be ignored.
`OneDirection` and `LiftReleases` follow from `PadInv`, since the cross remembers
one direction. `OppositeArmsDisjoint` is about the hit test: left and right, and up
and down, exclude one another for every size of at least 13 pixels. Below that the
rounding of `setBounds` makes them overlap, and the order of the tests decides.

`TextInputProofs` proves, for any set of code points (`CharsAssumption`) and texts
of any length, `[]TypeOK`, `[]Synced` and `EditsStayInside`: no edit backspaces
over what the C program had before the connection, not even one cut short by a
soft return. The inductive invariant adds to `Synced` that `mCommittedText` is the
edited text whenever no update was cut short. The lemmas are about concatenation
and prefixes: the longest common prefix of the committed and the new text, the
backspaces that bring the one back to it and the rest of the other make the
new text.

`MessageBoxProofs` proves, for any number of SDL threads, calls and buttons,
`[]BoxTypeOK`, `[]BoxReturnsChoice`, `[]OneDialog` and `[]WaitsForReason`. The inductive invariant
`Stages` follows one box: asked for, open, answered and leaving, over. It says what the looper,
the dialog and the selection hold at each stage, and that the looper never holds more
than one message of the box. That is why a selection of an earlier box cannot reach a
later one.

`SteamControllerProofs` proves, for any number of operations and links and any set of
faults, `[]TypeOK`, `[]OneHome`, `[]NoIdleQueue`, `[]FirstLinkNeverThrows` and, in
behaviours without the fault `error`, `[]ConfiguredBeforeRegistered`. `OneHome` needs `Homes`: every identity anywhere is one of those handed
out so far, and the Binder thread has an operation in hand only between its two
blocks. So what it puts back outside the lock is nowhere else, even where the two
threads overwrite each other (`RaceKeeps`: an operation may be lost there, never doubled).
For the registration `WriteInv` says that no report to be written exists in any place
before enterValveMode is confirmed, since SDL makes one only for a registered
controller; the first write to be answered is therefore that of enterValveMode.
For `FirstLinkNeverThrows` the invariant `FirstLink` speaks of the time before the first
`BluetoothGatt` is replaced or closed: every operation anywhere is meant for it, and all
but the notification were made once its services were known (`ServedFirst`). That is
enough only because services are discovered once (`DiscoveredOnce`): a second posted
discovery would make known services unknown again.

`CloudSavesProofs` proves, for any finite set of files and any number of saves and ticks,
`[]TypeOK`, `FresherOnlyIfCutShort` in every environment, `[]NewestSaveSurvives` and
`RemoteNeverRegresses`. `FresherOnlyIfCutShort` needs `DatesInv`:
no version and no date is ahead of the counters, and the date a download will stamp,
taken from the list, is one its snapshot has reached, since a snapshot is only replaced
by one dated now (`RemoteStep`). The other two need `OrderParts`, the invariant of orderly
environments, where Tasks may fail, the process may end and the writing of a download may
be cut short (`Partial` is empty where it may not):

* `PhaseInv`: loading and uploading exclude one another.
* `PlacesInv`: one of the two places has the newest version, and which one shows in their
  dates, unless a truncated file was left or uploaded. A save that looks recent enough to
  be uploaded is therefore the newest or truncated (`UploadableIsRecent`), and a snapshot
  that looks fresh enough to be downloaded is the newest (`WantedIsNewest`).
* `TasksInv`: a pending upload lies between the snapshot and the local save, which is
  newer than what it carries or the same, or it carries a truncated file; of two uploads of a file the one that reaches
  the server first is not the newer one (`InOrder`), although opening moves an upload
  behind later ones of other files.
* `WritingInv`: only the newest version is downloaded. A download that is cut short
  (`CutShortPlaces`) therefore loses nothing yet: the snapshot is still there.

`UpdateSaveFiles` and `Listed` start the Tasks of a set of files in an order the model
does not fix, so the proofs speak of the elements of a sequence (`Grown`, `TasksStep`)
wherever the order does not matter.

`HIDDevicesProofs` proves, for any finite set of devices and any number of interfaces,
calls and restarts, `[]TypeOK`, `[]IdsUnique`, `[]AttachedIsListed`, `[]SoleReader`,
`[]NothingLeaks` and `[]CrashNeedsOverlap`. The inductive invariants:

* `Shape` says where each of the two threads can be, what its loop has yet to visit and
  that every reference of an object, a thread or the table has something to refer to.
* `IdsInv`: every id handed out is below `mNextDeviceId`, which equals `next_device_id` in
  the preferences, and belongs to the interface the preferences keep it for. The id 0
  alone is handed out without being kept, and goes to one interface in a run of the
  process. `TableInv`: an entry of the table is an object with that id.
* `ListedInv`: once devices have been listed, a device that is plugged in is in the table,
  has its broadcast on the way, or is still to be enumerated; a device whose entries are
  being removed, or that has a detach broadcast on its way, is out. That is why it is
  essential to register the receiver before listing.
* `OwnedInv`: the thread an object names was started for it, and no connection, stored
  or just opened, belongs to two objects. So a step in one object disturbs no other
  (`DeviceStepElsewhere`).
* `UseInv` speaks of the objects that are not in `overlap`. `Sound`: the connection is
  open, and only the thread the object names reads from it. `AloneIn`: one thread at
  most is in `open()` or `close()`. `Positioned`: what each of their lines relies on, such
  as no reader from the moment `mInputThread` is forgotten. `OwnStep` takes the lines one
  after the other. `SoleReader` is `Sound`; an exception contradicts `Positioned`, which
  is `CrashNeedsOverlap`.
* `ManagerInv`: until the manager is closed, every object in the table can call it, and an
  object being detached is out of the table. This is why a late permission opens no
  device without a manager.
* `LeakInv`: an object is in the table, was replaced there, is shut or is being detached;
  while the manager is closed, an object in the table is still to be visited, or being
  shut down, or shut with the SDL thread elsewhere. The last needs the lock: the SDL thread
  enters no object while the manager is closed (`CallFrame`).

`connectHIDDeviceUSB` is stated in closed form, the interfaces without an id numbered in
their order, because what a fold computes cannot be proved here. The lemmas follow the
kinds of steps: those inside a device leave the table and the world alone
(`DeviceStepFrame`), the input threads leave everything but their own field alone
(`InputThreadFrame`), and a new entry never takes one of another interface
(`EntriesKept`).

`WakesOnlyOnResume`, `OneDirection` and `EditsStayInside` are proved and not in a run's list: the
first follows from `HostContract`, the second from
`HeldKeysMatchViews`, the third, but for the edit that a soft return cuts short, from `Synced`.

Every safety invariant of the passing runs is proved. Only model-checked: all liveness
properties (the proof system does not reason about fairness and ENABLED here), and the
runs that expect a violation. Nothing that a recursion over data computes is
stated as a theorem: it would need induction theorems the provers cannot instantiate.

## Not modelled

The repository is mostly third-party C and C++ (Ruby, Boost, GLib and others under
`src/jni`), which no definition stands for: 2.9 million lines against some 6,400 of
Java that belong to the application and to SDL's glue. Of those, what is left out
keeps no state, or state nothing else reads:

* drawing, layout and menus of the activities and controls; the sign-in flow of
  `LoginActivity`, which shows and hides views and starts the game;
* clipboard, cursors, permissions, display and touch queries: calls into the
  framework;
* `SDLSurface`'s touch, key and sensor listeners: stateless translation.

Left for later, because they have state: joystick polling, haptics and audio
(`SDLControllerManager`, `SDLAudioManager`), two activities in one process, and
`setFrozen` with the reports of HID devices.

## Plan

Done: `SDLActivity` and `GameHost` with their proofs and the refinement,
`MessageBox`, `SteamController`, `TextInput`, `VirtualPad`, `CloudSaves` and `HIDDevices` with
theirs. What is left, in this order:

1. `ActivityInstances`: two starts of `MKXPActivity` in one process through
   `LoginActivity.startGame`, which nothing prevents; the statics are shared.
2. `setFrozen` with the reports of HID devices.
3. `JoystickPolling` with the comparator of motion ranges; `Audio` open and write
   loops; the choice of the requested orientation.

----------------------------- MODULE SDLActivity -----------------------------
(***************************************************************************)
(* The Android activity that hosts the game: the static state machine of   *)
(* SDLActivity (INIT, RESUMED, PAUSED), its SDLSurface, the SDL thread     *)
(* that runs the C program, and MKXPActivity's override of onDestroy.      *)
(*                                                                         *)
(* Every callback of the Android framework runs on the UI thread and is    *)
(* one action, except onDestroy, which blocks in Thread.join and is three. *)
(* The SDL thread interleaves with it: nativeRunMain, then the tail of     *)
(* SDLMain.run, one action per access to the shared static fields.         *)
(*                                                                         *)
(* One process hosts one MKXPActivity at a time: its onDestroy ends in     *)
(* nativeExit, so a behaviour is the life of one process.                  *)
(***************************************************************************)
EXTENDS Integers, Sequences

CONSTANT
  MaxGames         \* bound: the C program returns unasked from fewer threads

ASSUME MaxGamesAssumption == MaxGames \in Nat \ {0}

VARIABLES
  \* What the framework knows of the activity and of its window.
  life, finishing, windowFocus, surface,
  mHasMultiWindow, \* final: SDK_INT >= 24
  \* Static fields of SDLActivity, and mSurface.mIsSurfaceReady.
  mNextNativeState, mCurrentNativeState, mIsResumedCalled, mHasFocus,
  mBrokenLibraries, mIsSurfaceReady,
  mSDLThread,      \* 0 is null, t is the t-th SDL thread of the process
  sensor,          \* the accelerometer listener is registered
  hid,             \* mHIDDeviceManager: null, or last told setFrozen(..)
  \* The SDL threads and the native layer (external).
  pc, nativePaused, quitSent,
  \* The UI thread inside onDestroy, and the thread it joins.
  ui, joined,
  process

frameworkVars == <<life, finishing, windowFocus, surface>>
stateVars     == <<mNextNativeState, mIsResumedCalled, mHasFocus,
                   mBrokenLibraries, mIsSurfaceReady>>
gameVars      == <<mCurrentNativeState, mSDLThread, pc, nativePaused, sensor>>
otherVars     == <<quitSent, ui, joined, process, mHasMultiWindow>>
vars == <<frameworkVars, stateVars, gameVars, hid, otherVars>>

Life   == {"absent", "created", "started", "resumed", "stopped"}
Native == {"INIT", "RESUMED", "PAUSED"}
\* Where an SDL thread is: inside nativeRunMain, past it, about to clear
\* mSDLThread, about to call finish(), ended.
Step   == {"main", "returned", "clearing", "closing", "dead"}
InGame == {"main", "returned", "clearing"}

TypeOK ==
  /\ mHasMultiWindow \in BOOLEAN
  /\ life \in Life /\ finishing \in BOOLEAN /\ windowFocus \in BOOLEAN
  /\ surface \in {"none", "created", "changed"}
  /\ mNextNativeState \in Native /\ mCurrentNativeState \in Native
  /\ mIsResumedCalled \in BOOLEAN /\ mHasFocus \in BOOLEAN
  /\ mBrokenLibraries \in {"no", "unloaded", "mismatch"}
  /\ mIsSurfaceReady \in BOOLEAN
  /\ mSDLThread \in Nat /\ sensor \in BOOLEAN
  /\ hid \in {"null", "live", "frozen"}
  /\ pc \in Seq(Step) /\ nativePaused \in BOOLEAN /\ quitSent \in BOOLEAN
  /\ ui \in {"free", "stopping", "joining"} /\ joined \in Nat
  /\ process \in {"running", "exited", "crashed"}

\* The static initialisers: libraries count as broken until onCreate loads them.
Init ==
  /\ mHasMultiWindow \in BOOLEAN
  /\ life = "absent" /\ finishing = FALSE
  /\ windowFocus = FALSE /\ surface = "none"
  /\ mNextNativeState = "INIT" /\ mCurrentNativeState = "INIT"
  /\ mIsResumedCalled = FALSE /\ mHasFocus = FALSE
  /\ mBrokenLibraries = "unloaded" /\ mIsSurfaceReady = FALSE
  /\ mSDLThread = 0 /\ sensor = FALSE /\ hid = "null"
  /\ pc = <<>> /\ nativePaused = FALSE /\ quitSent = FALSE
  /\ ui = "free" /\ joined = 0 /\ process = "running"

-----------------------------------------------------------------------------
(***************************************************************************)
(* handleNativeState, with the values its callers have just assigned.      *)
(***************************************************************************)

\* Mutant of EnterPaused: nativePause is forgotten.
EnterPausedSilently ==
  /\ sensor' = FALSE /\ mCurrentNativeState' = "PAUSED"
  /\ UNCHANGED <<nativePaused, mSDLThread, pc>>

\* Leaving for the background: pause the C program if there is one, stop the
\* accelerometer (SDLSurface.handlePause).
EnterPaused ==
  /\ nativePaused' = (nativePaused \/ mSDLThread # 0)
  /\ sensor' = FALSE
  /\ mCurrentNativeState' = "PAUSED"
  /\ UNCHANGED <<mSDLThread, pc>>

\* Mutant of EnterResumed: a thread is started without the test for null.
EnterResumedAlwaysStarts ==
  /\ pc' = Append(pc, "main") /\ mSDLThread' = Len(pc) + 1
  /\ sensor' = TRUE /\ mCurrentNativeState' = "RESUMED"
  /\ UNCHANGED nativePaused

\* Mutant of EnterResumed: nativeResume is forgotten.
EnterResumedWithoutWake ==
  /\ IF mSDLThread = 0
     THEN pc' = Append(pc, "main") /\ mSDLThread' = Len(pc) + 1
     ELSE UNCHANGED <<mSDLThread, pc>>
  /\ sensor' = TRUE /\ mCurrentNativeState' = "RESUMED"
  /\ UNCHANGED nativePaused

\* Coming to the foreground: the first time start the SDL thread, later wake it.
EnterResumed ==
  /\ IF mSDLThread = 0
     THEN /\ pc' = Append(pc, "main")
          /\ mSDLThread' = Len(pc) + 1
          /\ UNCHANGED nativePaused
     ELSE /\ nativePaused' = FALSE
          /\ UNCHANGED <<mSDLThread, pc>>
  /\ sensor' = TRUE
  /\ mCurrentNativeState' = "RESUMED"

HandleNativeState(next, ready, focus, resumedCalled) ==
  /\ mNextNativeState' = next
  /\ \/ next = mCurrentNativeState /\ UNCHANGED gameVars
     \/ next # mCurrentNativeState /\ next = "PAUSED" /\ EnterPaused
     \/ /\ next # mCurrentNativeState /\ next = "RESUMED"
        /\ IF ready /\ focus /\ resumedCalled
           THEN EnterResumed ELSE UNCHANGED gameVars

\* pauseNativeThread and resumeNativeThread record the request even when the
\* libraries are broken.
RequestNative(next, resumed) ==
  /\ mIsResumedCalled' = resumed
  /\ IF mBrokenLibraries # "no"
     THEN mNextNativeState' = next /\ UNCHANGED gameVars
     ELSE HandleNativeState(next, mIsSurfaceReady, mHasFocus, resumed)
  /\ UNCHANGED <<mHasFocus, mBrokenLibraries, mIsSurfaceReady>>

\* Mutants: the request is recorded without the transition.
PauseOnlyRecorded ==
  /\ mNextNativeState' = "PAUSED" /\ mIsResumedCalled' = FALSE
  /\ UNCHANGED <<mHasFocus, mBrokenLibraries, mIsSurfaceReady, gameVars>>
ResumeOnlyRecorded ==
  /\ mNextNativeState' = "RESUMED" /\ mIsResumedCalled' = TRUE
  /\ UNCHANGED <<mHasFocus, mBrokenLibraries, mIsSurfaceReady, gameVars>>

PauseNativeThread  == RequestNative("PAUSED", FALSE)
ResumeNativeThread == RequestNative("RESUMED", TRUE)

-----------------------------------------------------------------------------
(***************************************************************************)
(* Lifecycle callbacks.                                                    *)
(***************************************************************************)

UIThread == ui = "free" /\ process = "running"

\* Loading the libraries succeeds, throws, or finds another SDL version; only
\* in the first case are the static fields initialised and the surface made.
OnCreate ==
  /\ UIThread /\ life = "absent"
  /\ life' = "created"
  /\ \E outcome \in {"no", "unloaded", "mismatch"} :
       /\ mBrokenLibraries' = outcome
       /\ IF outcome = "no"
          THEN /\ mHasFocus' = TRUE /\ mIsResumedCalled' = FALSE
               /\ mNextNativeState' = "INIT" /\ mCurrentNativeState' = "INIT"
               /\ mSDLThread' = 0 /\ mIsSurfaceReady' = FALSE
               /\ hid' = "live"
          ELSE UNCHANGED <<mHasFocus, mIsResumedCalled, mNextNativeState,
                           mCurrentNativeState, mSDLThread, mIsSurfaceReady, hid>>
  /\ UNCHANGED <<finishing, windowFocus, surface, pc, nativePaused, sensor,
                 otherVars>>

OnStart ==
  /\ UIThread /\ life \in {"created", "stopped"} /\ ~finishing
  /\ life' = "started"
  /\ IF mHasMultiWindow THEN ResumeNativeThread ELSE UNCHANGED <<stateVars, gameVars>>
  /\ UNCHANGED <<finishing, windowFocus, surface, hid, otherVars>>

\* Mutant of SetFrozen: the null test is dropped.
SetFrozenUnguarded(frozen) ==
  hid' = IF hid = "null" THEN "thrown" ELSE IF frozen THEN "frozen" ELSE "live"

SetFrozen(frozen) ==
  hid' = IF hid = "null" THEN "null" ELSE IF frozen THEN "frozen" ELSE "live"

OnResume ==
  /\ UIThread /\ life = "started" /\ ~finishing
  /\ life' = "resumed"
  /\ SetFrozen(FALSE)
  /\ IF mHasMultiWindow THEN UNCHANGED <<stateVars, gameVars>> ELSE ResumeNativeThread
  /\ UNCHANGED <<finishing, windowFocus, surface, otherVars>>

OnPause ==
  /\ UIThread /\ life = "resumed"
  /\ life' = "started"
  /\ SetFrozen(TRUE)
  /\ IF mHasMultiWindow THEN UNCHANGED <<stateVars, gameVars>> ELSE PauseNativeThread
  /\ UNCHANGED <<finishing, windowFocus, surface, otherVars>>

OnStop ==
  /\ UIThread /\ life = "started"
  /\ life' = "stopped"
  /\ IF mHasMultiWindow THEN PauseNativeThread ELSE UNCHANGED <<stateVars, gameVars>>
  /\ UNCHANGED <<finishing, windowFocus, surface, hid, otherVars>>

OnWindowFocusChanged(hasFocus) ==
  /\ UIThread /\ life # "absent" /\ windowFocus # hasFocus
  /\ hasFocus => life = "resumed"
  /\ windowFocus' = hasFocus
  /\ IF mBrokenLibraries # "no"
     THEN UNCHANGED <<stateVars, gameVars>>
     ELSE /\ mHasFocus' = hasFocus
          /\ IF hasFocus
             THEN HandleNativeState("RESUMED", mIsSurfaceReady, TRUE, mIsResumedCalled)
             ELSE IF mHasMultiWindow
             THEN UNCHANGED <<mNextNativeState, gameVars>>
             ELSE HandleNativeState("PAUSED", mIsSurfaceReady, FALSE, mIsResumedCalled)
          /\ UNCHANGED <<mIsResumedCalled, mBrokenLibraries, mIsSurfaceReady>>
  /\ UNCHANGED <<life, finishing, surface, hid, otherVars>>

\* The back button, or the only button of the "SDL Error" dialog.
OnBackPressed ==
  /\ UIThread /\ life = "resumed" /\ ~finishing
  /\ finishing' = TRUE
  /\ UNCHANGED <<life, windowFocus, surface, stateVars, gameVars, hid, otherVars>>

-----------------------------------------------------------------------------
(***************************************************************************)
(* SDLSurface: the SurfaceHolder callbacks.  With broken libraries no      *)
(* surface view was added to the window.                                   *)
(***************************************************************************)

SurfaceCreated ==
  /\ UIThread /\ surface = "none" /\ life \in {"started", "resumed"}
  /\ mBrokenLibraries = "no"
  /\ surface' = "created"
  /\ UNCHANGED <<life, finishing, windowFocus, stateVars, gameVars, hid, otherVars>>

\* skip: the surface has the wrong orientation for the requested one.
SurfaceChanged(skip) ==
  /\ UIThread /\ surface # "none"
  /\ surface' = "changed"
  /\ mIsSurfaceReady' = ~skip
  /\ IF skip
     THEN UNCHANGED <<mNextNativeState, gameVars>>
     ELSE HandleNativeState("RESUMED", TRUE, mHasFocus, mIsResumedCalled)
  /\ UNCHANGED <<life, finishing, windowFocus, mIsResumedCalled, mHasFocus,
                 mBrokenLibraries, hid, otherVars>>

SurfaceDestroyed ==
  /\ UIThread /\ surface # "none"
  /\ surface' = "none"
  /\ HandleNativeState("PAUSED", mIsSurfaceReady, mHasFocus, mIsResumedCalled)
  /\ mIsSurfaceReady' = FALSE
  /\ UNCHANGED <<life, finishing, windowFocus, mIsResumedCalled, mHasFocus,
                 mBrokenLibraries, hid, otherVars>>

-----------------------------------------------------------------------------
(***************************************************************************)
(* onDestroy: SDLActivity's, then MKXPActivity's call of nativeExit.       *)
(***************************************************************************)

\* nativeExit lives in a library that was never loaded if loading one threw:
\* the call is then an UnsatisfiedLinkError on the UI thread.
NativeExit ==
  process' = IF mBrokenLibraries = "unloaded" THEN "crashed" ELSE "exited"

\* Mutant of OnDestroy: SDL_QUIT is never sent.
OnDestroyWithoutQuit ==
  /\ UIThread /\ life = "stopped"
  /\ hid' = "null"
  /\ IF mBrokenLibraries = "no" /\ mSDLThread # 0
     THEN ui' = "stopping" /\ UNCHANGED process
     ELSE NativeExit /\ UNCHANGED ui
  /\ UNCHANGED <<frameworkVars, stateVars, gameVars, joined, quitSent,
                 mHasMultiWindow>>

OnDestroy ==
  /\ UIThread /\ life = "stopped"
  /\ hid' = "null"
  /\ IF mBrokenLibraries = "no" /\ mSDLThread # 0
     THEN /\ quitSent' = TRUE           \* nativeSendQuit
          /\ ui' = "stopping"
          /\ UNCHANGED process
     ELSE /\ NativeExit
          /\ UNCHANGED <<quitSent, ui>>
  /\ UNCHANGED <<frameworkVars, stateVars, gameVars, joined,
                 mHasMultiWindow>>

\* Mutant of OnDestroyJoin: nobody waits.
OnDestroyWithoutJoin ==
  /\ ui = "stopping" /\ process = "running"
  /\ NativeExit
  /\ UNCHANGED <<frameworkVars, stateVars, gameVars, hid, quitSent, ui, joined,
                 mHasMultiWindow>>

\* mSDLThread is read a second time for join(); null is a caught exception.
OnDestroyJoin ==
  /\ ui = "stopping" /\ process = "running"
  /\ IF mSDLThread = 0
     THEN NativeExit /\ UNCHANGED <<ui, joined>>
     ELSE ui' = "joining" /\ joined' = mSDLThread /\ UNCHANGED process
  /\ UNCHANGED <<frameworkVars, stateVars, gameVars, hid, quitSent,
                 mHasMultiWindow>>

OnDestroyJoined ==
  /\ ui = "joining" /\ process = "running" /\ pc[joined] = "dead"
  /\ NativeExit
  /\ UNCHANGED <<frameworkVars, stateVars, gameVars, hid, quitSent, ui, joined,
                 mHasMultiWindow>>

-----------------------------------------------------------------------------
(***************************************************************************)
(* The SDL thread: SDLMain.run.                                            *)
(***************************************************************************)

GoTo(t, from, to) ==
  /\ process = "running" /\ pc[t] = from
  /\ pc' = [pc EXCEPT ![t] = to]

\* nativeRunMain returns: the player quits the game, or SDL_QUIT arrived.
MainReturns(t) ==
  /\ GoTo(t, "main", "returned")
  /\ quitSent \/ Len(pc) < MaxGames
  /\ UNCHANGED <<frameworkVars, stateVars, mCurrentNativeState, mSDLThread,
                 nativePaused, sensor, hid, otherVars>>

CheckFinishing(t) ==
  /\ GoTo(t, "returned", IF finishing THEN "dead" ELSE "clearing")
  /\ UNCHANGED <<frameworkVars, stateVars, mCurrentNativeState, mSDLThread,
                 nativePaused, sensor, hid, otherVars>>

ClearThread(t) ==
  /\ GoTo(t, "clearing", "closing")
  /\ mSDLThread' = 0
  /\ UNCHANGED <<frameworkVars, stateVars, mCurrentNativeState, nativePaused,
                 sensor, hid, otherVars>>

\* Mutant of FinishActivity: the thread ends without finish().
EndWithoutFinish(t) ==
  /\ GoTo(t, "closing", "dead")
  /\ UNCHANGED <<frameworkVars, stateVars, mCurrentNativeState, mSDLThread,
                 nativePaused, sensor, hid, otherVars>>

FinishActivity(t) ==
  /\ GoTo(t, "closing", "dead")
  /\ finishing' = TRUE
  /\ UNCHANGED <<life, windowFocus, surface, stateVars, mCurrentNativeState,
                 mSDLThread, nativePaused, sensor, hid, otherVars>>

SDLMainTail(t) == CheckFinishing(t) \/ ClearThread(t) \/ FinishActivity(t)
SDLMain(t) == MainReturns(t) \/ SDLMainTail(t)

-----------------------------------------------------------------------------
\* The process is gone; launching the application again is a new behaviour.
Terminated == process # "running" /\ UNCHANGED vars

Lifecycle ==
  \/ OnCreate \/ OnStart \/ OnResume \/ OnPause \/ OnStop
  \/ OnDestroy \/ OnDestroyJoin \/ OnDestroyJoined

Window ==
  \/ \E f \in BOOLEAN : OnWindowFocusChanged(f)
  \/ OnBackPressed
  \/ SurfaceCreated \/ SurfaceDestroyed
  \/ \E skip \in BOOLEAN : SurfaceChanged(skip)

Next ==
  \/ Lifecycle
  \/ Window
  \/ \E t \in DOMAIN pc : SDLMain(t)
  \/ Terminated

Spec == Init /\ [][Next]_vars

\* The framework tears down a finishing activity; the SDL thread is scheduled;
\* the C program obeys SDL_QUIT.  Nothing else is promised.
Teardown == finishing /\ (OnPause \/ OnStop \/ OnDestroy)
Fairness ==
  /\ WF_vars(Teardown)
  /\ WF_vars(OnDestroyJoin \/ OnDestroyJoined)
  /\ WF_vars(\E t \in DOMAIN pc : SDLMainTail(t))
  /\ WF_vars(quitSent /\ \E t \in DOMAIN pc : MainReturns(t))
FairSpec == Spec /\ Fairness

-----------------------------------------------------------------------------
(***************************************************************************)
(* What the activity promises.                                             *)
(***************************************************************************)

\* Whatever the order of onStart/onResume, the focus and the surface
\* callbacks, the one that completes the three conditions resumes the program:
\* no wake-up is lost because an earlier callback was discarded.
NoLostResume ==
  mIsResumedCalled /\ mHasFocus /\ mIsSurfaceReady
    => mCurrentNativeState = "RESUMED"

\* The C program runs in the foreground state only with a surface to draw on
\* and between resumeNativeThread and pauseNativeThread.
ResumedHasSurface ==
  mCurrentNativeState = "RESUMED" => surface # "none" /\ mIsResumedCalled

\* Two SDL threads never execute the C program at once, although a second one
\* can be started (see StartsOnce).
AtMostOneGame ==
  \A s, t \in DOMAIN pc : pc[s] = "main" /\ pc[t] = "main" => s = t

\* nativeQuit and nativeExit dismantle the C side only when no thread is
\* still executing it.
QuitAfterMain ==
  process # "running" => \A t \in DOMAIN pc : pc[t] # "main"

\* In the background a running C program has been told to pause; back in the
\* foreground the first thread's program has been told to resume.
PauseReachesGame ==
  /\ mCurrentNativeState = "PAUSED"
       => \A t \in DOMAIN pc : pc[t] = "main" => nativePaused
  /\ mCurrentNativeState = "RESUMED" /\ Len(pc) = 1 => ~nativePaused

\* The C program is paused and resumed only through the state machine: it
\* never wakes up while the activity stays in the background.
WakesOnlyOnResume ==
  [][nativePaused /\ ~nativePaused' /\ process = "running"
       => mCurrentNativeState' = "RESUMED" /\ mCurrentNativeState = "PAUSED"]_vars

\* Once a C program has returned, the process ends: finish() or the pending
\* teardown always gets through onDestroy, whichever field it finds cleared.
GameOverEndsProcess ==
  (\E t \in DOMAIN pc : pc[t] # "main") ~> (process # "running")

\* onDestroy never blocks the UI thread forever in join().
OnDestroyReturns == (ui # "free") ~> (process # "running")

\* Refinement mapping onto the contract of a host: the game is the C program, if
\* a thread is inside nativeRunMain; RESUMED means shown.
hostGame   == IF \E t \in DOMAIN pc : pc[t] = "main"
              THEN IF nativePaused THEN "asleep" ELSE "awake"
              ELSE "none"
hostShown  == mCurrentNativeState = "RESUMED"
hostPlayed == \E t \in DOMAIN pc : pc[t] # "main"
hostUp     == IF process = "running" THEN "up" ELSE "down"
Host == INSTANCE GameHost WITH
          game <- hostGame, shown <- hostShown, played <- hostPlayed, host <- hostUp

\* The callbacks and the SDL thread together keep the contract of GameHost: every
\* step of theirs is one of its steps or changes nothing the game can notice.
HostContract == Host!Spec

\* handleNativeState's comment on creating the thread: "This is the entry point
\* to the C app. Start up the C app thread ... for the first time".
StartsOnce == Len(pc) <= 1
=============================================================================

-------------------------- MODULE SDLActivityProofs --------------------------
(***************************************************************************)
(* Proofs about SDLActivity, for every number of SDL threads: its safety   *)
(* invariants and its action property follow from one inductive invariant. *)
(***************************************************************************)
EXTENDS SDLActivity, TLAPS

\* About the fields handleNativeState works on: an SDL thread that has not yet
\* cleared mSDLThread is the one mSDLThread names, so there is at most one; and
\* nativePaused follows the native state, which is INIT only before the first thread
\* is started.
GameInv ==
  /\ mSDLThread # 0 => mSDLThread \in DOMAIN pc
  /\ \A t \in DOMAIN pc : pc[t] \in InGame => mSDLThread = t
  /\ mCurrentNativeState = "INIT" => Len(pc) = 0
  /\ nativePaused => Len(pc) # 0
  /\ PauseReachesGame

\* About the conditions of a resume: with broken libraries there is no surface
\* and never was a game.
ConditionsInv ==
  /\ life = "absent" => mBrokenLibraries # "no"
  /\ mBrokenLibraries # "no"
       => /\ Len(pc) = 0 /\ surface = "none" /\ ~mIsSurfaceReady
          /\ mCurrentNativeState # "RESUMED"
  /\ mIsSurfaceReady => surface = "changed"
  /\ NoLostResume /\ ResumedHasSurface

\* About onDestroy: it joins the thread that is running, if one is.
DestroyInv ==
  /\ ui = "joining" => joined \in DOMAIN pc /\ mSDLThread \in {0, joined}
  /\ QuitAfterMain

IInv == TypeOK /\ GameInv /\ ConditionsInv /\ DestroyInv

-----------------------------------------------------------------------------
(***************************************************************************)
(* Sequences of program counters.                                          *)
(***************************************************************************)

\* Starting a thread: what Append does to the program counters.
LEMMA AppendStep ==
  ASSUME NEW s \in Seq(Step), NEW e \in Step
  PROVE  /\ Append(s, e) \in Seq(Step)
         /\ Len(Append(s, e)) = Len(s) + 1
         /\ DOMAIN Append(s, e) = 1..(Len(s) + 1)
         /\ \A t \in DOMAIN s : Append(s, e)[t] = s[t]
         /\ Append(s, e)[Len(s) + 1] = e
  OBVIOUS

\* Moving a thread on: what EXCEPT does to the program counters.
LEMMA ExceptStep ==
  ASSUME NEW s \in Seq(Step), NEW t \in DOMAIN s, NEW e \in Step
  PROVE  /\ [s EXCEPT ![t] = e] \in Seq(Step)
         /\ Len([s EXCEPT ![t] = e]) = Len(s)
         /\ DOMAIN [s EXCEPT ![t] = e] = DOMAIN s
         /\ [s EXCEPT ![t] = e][t] = e
         /\ \A u \in DOMAIN s \ {t} : [s EXCEPT ![t] = e][u] = s[u]
  OBVIOUS

-----------------------------------------------------------------------------
(***************************************************************************)
(* handleNativeState and its callers.                                      *)
(***************************************************************************)

GameTypes == mCurrentNativeState \in Native /\ mSDLThread \in Nat
             /\ pc \in Seq(Step) /\ nativePaused \in BOOLEAN /\ sensor \in BOOLEAN

\* Entering PAUSED keeps the game's invariant and never wakes the C program.
LEMMA EnterPausedKeeps ==
  ASSUME GameTypes, GameInv, EnterPaused
  PROVE  GameTypes' /\ GameInv' /\ mCurrentNativeState' = "PAUSED"
         /\ (nativePaused => nativePaused') /\ pc' = pc
<1>1. /\ mCurrentNativeState' = "PAUSED" /\ sensor' = FALSE
      /\ mSDLThread' = mSDLThread /\ pc' = pc
      /\ nativePaused' = (nativePaused \/ mSDLThread # 0)
  BY DEF EnterPaused
<1>2. /\ nativePaused' \in BOOLEAN
      /\ nativePaused' <=> nativePaused \/ mSDLThread # 0
  BY <1>1
<1>3. nativePaused' => Len(pc') # 0
  BY <1>1, <1>2 DEF GameInv, GameTypes
<1>4. \A t \in DOMAIN pc : pc[t] = "main" => mSDLThread # 0
  BY DEF GameInv, GameTypes, InGame
<1>5. PauseReachesGame'
  BY <1>1, <1>2, <1>4 DEF PauseReachesGame
<1>6. GameTypes'
  BY <1>1, <1>2 DEF GameTypes, Native
<1>7. GameInv'
  BY <1>1, <1>3, <1>5 DEF GameInv
<1> QED BY <1>1, <1>2, <1>6, <1>7

\* So does entering RESUMED, which starts a thread only if none is in the game.
LEMMA EnterResumedKeeps ==
  ASSUME GameTypes, GameInv, mCurrentNativeState # "RESUMED", EnterResumed
  PROVE  GameTypes' /\ GameInv' /\ mCurrentNativeState' = "RESUMED"
         /\ (nativePaused /\ ~nativePaused' => mCurrentNativeState = "PAUSED")
<1>1. CASE mSDLThread = 0
  <2>1. /\ pc' = Append(pc, "main") /\ mSDLThread' = Len(pc) + 1
        /\ nativePaused' = nativePaused /\ mCurrentNativeState' = "RESUMED"
        /\ sensor' = TRUE
    BY <1>1 DEF EnterResumed
  <2>2. /\ pc' \in Seq(Step) /\ Len(pc') = Len(pc) + 1
        /\ DOMAIN pc' = 1..(Len(pc) + 1)
        /\ \A t \in DOMAIN pc : pc'[t] = pc[t]
    BY <2>1, AppendStep DEF GameTypes, Step
  <2>3. Len(pc) \in Nat /\ DOMAIN pc = 1..Len(pc)
    BY DEF GameTypes
  <2>4. \A t \in DOMAIN pc' : pc'[t] \in InGame => mSDLThread' = t
    BY <1>1, <2>1, <2>2, <2>3 DEF GameInv
  <2> QED BY <1>1, <2>1, <2>2, <2>3, <2>4 DEF GameTypes, GameInv, PauseReachesGame, Native
<1>2. CASE mSDLThread # 0
  BY <1>2 DEF EnterResumed, GameTypes, GameInv, PauseReachesGame, InGame, Native
<1> QED BY <1>1, <1>2

\* handleNativeState keeps the game's invariant; afterwards the native state is
\* no longer RESUMED if PAUSED was asked for, and it is RESUMED if that was
\* asked for and the three conditions hold.
LEMMA HandleKeeps ==
  ASSUME NEW next \in {"PAUSED", "RESUMED"}, NEW ready \in BOOLEAN,
         NEW focus \in BOOLEAN, NEW resumed \in BOOLEAN,
         GameTypes, GameInv, HandleNativeState(next, ready, focus, resumed)
  PROVE  /\ GameTypes' /\ GameInv' /\ mNextNativeState' = next
         /\ next = "PAUSED" => mCurrentNativeState' = "PAUSED"
         /\ next = "RESUMED" /\ ready /\ focus /\ resumed
              => mCurrentNativeState' = "RESUMED"
         /\ mCurrentNativeState # "RESUMED" /\ mCurrentNativeState' = "RESUMED"
              => ready /\ focus /\ resumed
         /\ nativePaused /\ ~nativePaused'
              => mCurrentNativeState' = "RESUMED" /\ mCurrentNativeState = "PAUSED"
<1>0. mNextNativeState' = next
  BY DEF HandleNativeState
<1>1. CASE UNCHANGED gameVars /\ (next = mCurrentNativeState
                                 \/ (next = "RESUMED" /\ ~(ready /\ focus /\ resumed)))
  BY <1>0, <1>1 DEF gameVars, GameTypes, GameInv, PauseReachesGame, InGame
<1>2. CASE next = "PAUSED" /\ EnterPaused
  BY <1>0, <1>2, EnterPausedKeeps DEF GameTypes, Native
<1>3. CASE /\ next = "RESUMED" /\ mCurrentNativeState # "RESUMED"
           /\ ready /\ focus /\ resumed /\ EnterResumed
  BY <1>0, <1>3, EnterResumedKeeps
<1>4. \/ UNCHANGED gameVars /\ (next = mCurrentNativeState
                                 \/ (next = "RESUMED" /\ ~(ready /\ focus /\ resumed)))
      \/ next = "PAUSED" /\ EnterPaused
      \/ /\ next = "RESUMED" /\ mCurrentNativeState # "RESUMED"
         /\ ready /\ focus /\ resumed /\ EnterResumed
  BY DEF HandleNativeState
<1> QED BY <1>1, <1>2, <1>3, <1>4

StateTypes == mNextNativeState \in Native /\ mIsResumedCalled \in BOOLEAN
              /\ mHasFocus \in BOOLEAN /\ mIsSurfaceReady \in BOOLEAN
              /\ mBrokenLibraries \in {"no", "unloaded", "mismatch"}

WakeStep == nativePaused /\ ~nativePaused'
              => mCurrentNativeState' = "RESUMED" /\ mCurrentNativeState = "PAUSED"

\* What is left of the invariant once life and surface are known.
Resumable ==
  /\ mBrokenLibraries # "no" => Len(pc) = 0 /\ mCurrentNativeState # "RESUMED"
  /\ NoLostResume
  /\ mCurrentNativeState = "RESUMED" => mIsResumedCalled

\* Pausing and resuming through RequestNative.
LEMMA RequestKeeps ==
  ASSUME NEW next \in {"PAUSED", "RESUMED"}, NEW resumed \in BOOLEAN,
         resumed = (next = "RESUMED"), IInv, RequestNative(next, resumed)
  PROVE  /\ GameTypes' /\ GameInv' /\ StateTypes' /\ Resumable' /\ WakeStep
         /\ mBrokenLibraries' = mBrokenLibraries
         /\ mIsSurfaceReady' = mIsSurfaceReady
         /\ mCurrentNativeState' = "RESUMED" => surface # "none"
<1>1. /\ mIsResumedCalled' = resumed /\ mHasFocus' = mHasFocus
      /\ mBrokenLibraries' = mBrokenLibraries /\ mIsSurfaceReady' = mIsSurfaceReady
  BY DEF RequestNative
<1>2. GameTypes /\ GameInv /\ StateTypes
  BY DEF IInv, TypeOK, GameTypes, StateTypes
<1>3. CASE mBrokenLibraries # "no"
  <2>1. mNextNativeState' = next /\ UNCHANGED gameVars
    BY <1>3 DEF RequestNative
  <2>2. GameTypes' /\ GameInv' /\ StateTypes' /\ WakeStep
    BY <1>1, <1>2, <2>1
    DEF gameVars, GameTypes, GameInv, PauseReachesGame, StateTypes, WakeStep, Native
  <2> QED BY <1>1, <1>3, <2>1, <2>2
          DEF gameVars, IInv, ConditionsInv, Resumable, NoLostResume
<1>4. CASE mBrokenLibraries = "no"
  <2>1. HandleNativeState(next, mIsSurfaceReady, mHasFocus, resumed)
    BY <1>4 DEF RequestNative
  <2>2. /\ GameTypes' /\ GameInv' /\ mNextNativeState' = next
        /\ next = "PAUSED" => mCurrentNativeState' = "PAUSED"
        /\ next = "RESUMED" /\ mIsSurfaceReady /\ mHasFocus /\ resumed
             => mCurrentNativeState' = "RESUMED"
        /\ mCurrentNativeState # "RESUMED" /\ mCurrentNativeState' = "RESUMED"
             => mIsSurfaceReady /\ mHasFocus /\ resumed
        /\ WakeStep
    BY <1>2, <2>1, HandleKeeps DEF StateTypes, WakeStep
  <2>3. StateTypes'
    BY <1>1, <1>2, <2>2 DEF StateTypes, Native
  <2>4. Resumable' /\ (mCurrentNativeState' = "RESUMED" => surface # "none")
    BY <1>1, <1>4, <2>2 DEF IInv, ConditionsInv, Resumable, NoLostResume,
                            ResumedHasSurface
  <2> QED BY <1>1, <2>2, <2>3, <2>4
<1> QED BY <1>3, <1>4

\* Callbacks that may have called RequestNative and move the lifecycle on.
LEMMA LifecycleStep ==
  ASSUME IInv, UIThread, life # "absent", life' \in Life \ {"absent"},
         hid' \in {"null", "live", "frozen"},
         UNCHANGED <<finishing, windowFocus, surface, otherVars>>,
         \/ ResumeNativeThread \/ PauseNativeThread
         \/ UNCHANGED <<stateVars, gameVars>>
  PROVE  IInv' /\ WakeStep
<1>1. CASE UNCHANGED <<stateVars, gameVars>>
  BY <1>1 DEF IInv, TypeOK, GameInv, ConditionsInv, DestroyInv, NoLostResume, WakeStep,
     ResumedHasSurface, PauseReachesGame, QuitAfterMain, stateVars, gameVars, otherVars
<1>2. CASE ResumeNativeThread \/ PauseNativeThread
  <2>1. /\ GameTypes' /\ GameInv' /\ StateTypes' /\ Resumable' /\ WakeStep
        /\ mBrokenLibraries' = mBrokenLibraries
        /\ mIsSurfaceReady' = mIsSurfaceReady
        /\ mCurrentNativeState' = "RESUMED" => surface # "none"
    BY <1>2, RequestKeeps DEF ResumeNativeThread, PauseNativeThread
  <2>2. TypeOK'
    BY <2>1 DEF IInv, TypeOK, GameTypes, StateTypes, otherVars
  <2>3. ConditionsInv'
    BY <2>1 DEF IInv, ConditionsInv, Resumable, ResumedHasSurface
  <2>4. DestroyInv'
    BY DEF DestroyInv, QuitAfterMain, UIThread, otherVars
  <2> QED BY <2>1, <2>2, <2>3, <2>4 DEF IInv
<1> QED BY <1>1, <1>2

-----------------------------------------------------------------------------
(***************************************************************************)
(* One lemma per group of actions.                                         *)
(***************************************************************************)

\* onCreate comes first, so it resets fields no SDL thread is using yet.
LEMMA OnCreateKeeps == ASSUME IInv, OnCreate PROVE IInv' /\ WakeStep
<1>1. /\ life = "absent" /\ life' = "created" /\ process = "running" /\ ui = "free"
      /\ UNCHANGED <<finishing, windowFocus, surface, pc, nativePaused, sensor>>
      /\ UNCHANGED otherVars
      /\ mBrokenLibraries' \in {"no", "unloaded", "mismatch"}
  BY DEF OnCreate, UIThread
<1>2. /\ Len(pc) = 0 /\ DOMAIN pc = {} /\ surface = "none" /\ ~mIsSurfaceReady
      /\ mCurrentNativeState # "RESUMED" /\ ~nativePaused /\ mSDLThread = 0
  BY <1>1 DEF IInv, TypeOK, ConditionsInv, GameInv
<1>3. \/ /\ mBrokenLibraries' = "no" /\ mHasFocus' = TRUE /\ mIsResumedCalled' = FALSE
         /\ mNextNativeState' = "INIT" /\ mCurrentNativeState' = "INIT"
         /\ mSDLThread' = 0 /\ mIsSurfaceReady' = FALSE /\ hid' = "live"
      \/ UNCHANGED <<mHasFocus, mIsResumedCalled, mNextNativeState,
                     mCurrentNativeState, mSDLThread, mIsSurfaceReady, hid>>
  BY DEF OnCreate
<1>4. TypeOK'
  <2>1. /\ mHasFocus' \in BOOLEAN /\ mIsResumedCalled' \in BOOLEAN
        /\ mNextNativeState' \in Native /\ mCurrentNativeState' \in Native
        /\ mSDLThread' \in Nat /\ mIsSurfaceReady' \in BOOLEAN
        /\ hid' \in {"null", "live", "frozen"}
    <3>1. CASE UNCHANGED <<mHasFocus, mIsResumedCalled, mNextNativeState,
                           mCurrentNativeState, mSDLThread, mIsSurfaceReady, hid>>
      BY <3>1 DEF IInv, TypeOK
    <3>2. CASE /\ mHasFocus' = TRUE /\ mIsResumedCalled' = FALSE
               /\ mNextNativeState' = "INIT" /\ mCurrentNativeState' = "INIT"
               /\ mSDLThread' = 0 /\ mIsSurfaceReady' = FALSE /\ hid' = "live"
      BY <3>2 DEF Native
    <3> QED BY <1>3, <3>1, <3>2
  <2> QED BY <1>1, <2>1 DEF IInv, TypeOK, Life, otherVars
<1>5. GameInv' /\ WakeStep
  BY <1>1, <1>2, <1>3 DEF IInv, GameInv, PauseReachesGame, WakeStep
<1>6. ConditionsInv'
  BY <1>1, <1>2, <1>3 DEF IInv, TypeOK, ConditionsInv, NoLostResume, ResumedHasSurface
<1>7. DestroyInv'
  BY <1>1 DEF DestroyInv, QuitAfterMain, otherVars
<1> QED BY <1>4, <1>5, <1>6, <1>7 DEF IInv

\* onStart, onResume, onPause and onStop are lifecycle steps.
LEMMA LifecycleKeeps ==
  ASSUME IInv, OnStart \/ OnResume \/ OnPause \/ OnStop
  PROVE  IInv' /\ WakeStep
<1>1. \A frozen \in BOOLEAN : SetFrozen(frozen) => hid' \in {"null", "live", "frozen"}
  BY DEF SetFrozen
<1>2. hid \in {"null", "live", "frozen"}
  BY DEF IInv, TypeOK
<1>3. CASE OnStart
  BY <1>2, <1>3, LifecycleStep DEF OnStart, Life
<1>4. CASE OnResume
  BY <1>1, <1>4, LifecycleStep DEF OnResume, Life
<1>5. CASE OnPause
  BY <1>1, <1>5, LifecycleStep DEF OnPause, Life
<1>6. CASE OnStop
  BY <1>2, <1>6, LifecycleStep DEF OnStop, Life
<1> QED BY <1>3, <1>4, <1>5, <1>6

\* The focus and the surface change one of the conditions of a resume.
LEMMA FocusKeeps ==
  ASSUME IInv, NEW hasFocus \in BOOLEAN, OnWindowFocusChanged(hasFocus)
  PROVE  IInv' /\ WakeStep
<1>1. /\ UIThread /\ windowFocus' = hasFocus
      /\ UNCHANGED <<life, finishing, surface, hid>> /\ UNCHANGED otherVars
  BY DEF OnWindowFocusChanged
<1>2. CASE UNCHANGED <<stateVars, gameVars>>
  BY <1>1, <1>2 DEF IInv, TypeOK, GameInv, ConditionsInv, DestroyInv, NoLostResume,
     WakeStep, ResumedHasSurface, PauseReachesGame, QuitAfterMain, stateVars, gameVars,
     otherVars
<1>3. CASE mBrokenLibraries = "no"
  <2>1. /\ mHasFocus' = hasFocus /\ mIsResumedCalled' = mIsResumedCalled
        /\ mBrokenLibraries' = mBrokenLibraries /\ mIsSurfaceReady' = mIsSurfaceReady
    BY <1>3 DEF OnWindowFocusChanged
  <2>2. GameTypes /\ GameInv /\ StateTypes
    BY DEF IInv, TypeOK, GameTypes, StateTypes
  <2>3. CASE UNCHANGED <<mNextNativeState, gameVars>> /\ ~hasFocus
    BY <1>1, <1>3, <2>1, <2>3 DEF IInv, TypeOK, GameInv, ConditionsInv, DestroyInv,
       NoLostResume, WakeStep, ResumedHasSurface, PauseReachesGame, QuitAfterMain,
       gameVars, otherVars
  <2>4. CASE HandleNativeState(IF hasFocus THEN "RESUMED" ELSE "PAUSED",
                               mIsSurfaceReady, hasFocus, mIsResumedCalled)
    <3>1. /\ GameTypes' /\ GameInv' /\ WakeStep
          /\ mNextNativeState' = IF hasFocus THEN "RESUMED" ELSE "PAUSED"
          /\ hasFocus /\ mIsSurfaceReady /\ mIsResumedCalled
               => mCurrentNativeState' = "RESUMED"
          /\ mCurrentNativeState # "RESUMED" /\ mCurrentNativeState' = "RESUMED"
               => mIsSurfaceReady /\ mIsResumedCalled
      BY <2>2, <2>4, HandleKeeps DEF StateTypes, WakeStep
    <3>2. TypeOK'
      BY <1>1, <2>1, <2>2, <3>1 DEF IInv, TypeOK, GameTypes, StateTypes, Native, otherVars
    <3>3. ConditionsInv'
      BY <1>1, <1>3, <2>1, <3>1 DEF IInv, TypeOK, ConditionsInv, NoLostResume,
                                   ResumedHasSurface
    <3>4. DestroyInv'
      BY <1>1 DEF DestroyInv, QuitAfterMain, UIThread, otherVars
    <3> QED BY <3>1, <3>2, <3>3, <3>4 DEF IInv
  <2> QED BY <1>3, <2>3, <2>4 DEF OnWindowFocusChanged
<1> QED BY <1>2, <1>3 DEF OnWindowFocusChanged

\* surfaceChanged makes the surface ready and resumes, or takes it back.
LEMMA SurfaceChangedKeeps ==
  ASSUME IInv, NEW skip \in BOOLEAN, SurfaceChanged(skip)
  PROVE  IInv' /\ WakeStep
<1>1. /\ UIThread /\ surface # "none" /\ surface' = "changed"
      /\ mIsSurfaceReady' = ~skip
      /\ UNCHANGED <<life, finishing, windowFocus, mIsResumedCalled, mHasFocus,
                     mBrokenLibraries, hid>>
      /\ UNCHANGED otherVars
  BY DEF SurfaceChanged
<1>2. GameTypes /\ GameInv /\ StateTypes /\ mBrokenLibraries = "no"
  BY <1>1 DEF IInv, TypeOK, GameTypes, StateTypes, ConditionsInv
<1>3. CASE skip
  <2>1. UNCHANGED <<mNextNativeState, gameVars>>
    BY <1>3 DEF SurfaceChanged
  <2> QED BY <1>1, <1>2, <1>3, <2>1 DEF IInv, TypeOK, GameInv, ConditionsInv, DestroyInv,
          NoLostResume, WakeStep, ResumedHasSurface, PauseReachesGame, QuitAfterMain,
          gameVars, otherVars
<1>4. CASE ~skip
  <2>1. HandleNativeState("RESUMED", TRUE, mHasFocus, mIsResumedCalled)
    BY <1>4 DEF SurfaceChanged
  <2>2. /\ GameTypes' /\ GameInv' /\ WakeStep /\ mNextNativeState' = "RESUMED"
        /\ mHasFocus /\ mIsResumedCalled => mCurrentNativeState' = "RESUMED"
        /\ mCurrentNativeState # "RESUMED" /\ mCurrentNativeState' = "RESUMED"
             => mIsResumedCalled
    BY <1>2, <2>1, HandleKeeps DEF StateTypes, WakeStep
  <2>3. TypeOK'
    BY <1>1, <1>2, <2>2 DEF IInv, TypeOK, GameTypes, StateTypes, Native, otherVars
  <2>4. ConditionsInv'
    BY <1>1, <1>2, <2>2 DEF IInv, TypeOK, ConditionsInv, NoLostResume, ResumedHasSurface
  <2>5. DestroyInv'
    BY <1>1 DEF DestroyInv, QuitAfterMain, UIThread, otherVars
  <2> QED BY <2>2, <2>3, <2>4, <2>5 DEF IInv
<1> QED BY <1>3, <1>4

\* surfaceDestroyed pauses before it takes the surface away.
LEMMA SurfaceDestroyedKeeps ==
  ASSUME IInv, SurfaceDestroyed
  PROVE  IInv' /\ WakeStep
<1>1. /\ UIThread /\ surface # "none" /\ surface' = "none"
      /\ mIsSurfaceReady' = FALSE
      /\ UNCHANGED <<life, finishing, windowFocus, mIsResumedCalled, mHasFocus,
                     mBrokenLibraries, hid>>
      /\ UNCHANGED otherVars
      /\ HandleNativeState("PAUSED", mIsSurfaceReady, mHasFocus, mIsResumedCalled)
  BY DEF SurfaceDestroyed
<1>2. GameTypes /\ GameInv /\ StateTypes /\ mBrokenLibraries = "no"
  BY <1>1 DEF IInv, TypeOK, GameTypes, StateTypes, ConditionsInv
<1>3. /\ GameTypes' /\ GameInv' /\ WakeStep /\ mNextNativeState' = "PAUSED"
      /\ mCurrentNativeState' = "PAUSED"
  BY <1>1, <1>2, HandleKeeps DEF StateTypes, WakeStep
<1>4. TypeOK'
  <2>1. /\ mNextNativeState' \in Native /\ surface' \in {"none", "created", "changed"}
        /\ mIsSurfaceReady' \in BOOLEAN
    BY <1>1, <1>3 DEF Native
  <2>2. TypeOK
    BY DEF IInv
  <2> QED BY <1>1, <1>3, <2>1, <2>2 DEF TypeOK, GameTypes, otherVars
<1>5. ConditionsInv'
  BY <1>1, <1>2, <1>3 DEF IInv, TypeOK, ConditionsInv, NoLostResume, ResumedHasSurface
<1>6. DestroyInv'
  BY <1>1 DEF DestroyInv, QuitAfterMain, UIThread, otherVars
<1> QED BY <1>3, <1>4, <1>5, <1>6 DEF IInv

\* The back button and a new surface change no condition of a resume.
LEMMA WindowKeeps ==
  ASSUME IInv, OnBackPressed \/ SurfaceCreated
  PROVE  IInv' /\ WakeStep
<1>1. /\ finishing' \in BOOLEAN /\ surface' \in {surface, "created"}
      /\ surface' # surface => surface = "none" /\ mBrokenLibraries = "no"
      /\ UNCHANGED <<life, windowFocus, hid>>
      /\ UNCHANGED stateVars /\ UNCHANGED gameVars /\ UNCHANGED otherVars
  BY DEF OnBackPressed, SurfaceCreated, IInv, TypeOK
<1> QED BY <1>1 DEF IInv, TypeOK, GameInv, ConditionsInv, DestroyInv, NoLostResume,
        WakeStep, ResumedHasSurface, PauseReachesGame, QuitAfterMain, stateVars,
        gameVars, otherVars

-----------------------------------------------------------------------------
\* onDestroy gets through to nativeExit only when no thread is in the game.
LEMMA OnDestroyKeeps ==
  ASSUME IInv, OnDestroy \/ OnDestroyJoin \/ OnDestroyJoined
  PROVE  IInv' /\ WakeStep
<1>1. /\ UNCHANGED frameworkVars /\ UNCHANGED stateVars /\ UNCHANGED gameVars
      /\ mHasMultiWindow' = mHasMultiWindow
  BY DEF OnDestroy, OnDestroyJoin, OnDestroyJoined
<1>2. hid' \in {"null", "live", "frozen"} /\ quitSent' \in BOOLEAN
  BY DEF OnDestroy, OnDestroyJoin, OnDestroyJoined, IInv, TypeOK
<1>3. pc \in Seq(Step) /\ mSDLThread \in Nat /\ joined \in Nat /\ process = "running"
  BY DEF OnDestroy, OnDestroyJoin, OnDestroyJoined, UIThread, IInv, TypeOK
<1>4. NativeExit => process' \in {"exited", "crashed"}
  BY DEF NativeExit
<1>5. /\ process' \in {"running", "exited", "crashed"}
      /\ ui' \in {"free", "stopping", "joining"} /\ joined' \in Nat
      /\ ui' = "joining" => joined' \in DOMAIN pc /\ mSDLThread \in {0, joined'}
      /\ process' # "running" => \A t \in DOMAIN pc : pc[t] # "main"
  <2>1. CASE OnDestroy
    BY <1>3, <1>4, <2>1 DEF OnDestroy, UIThread, IInv, ConditionsInv, GameInv, InGame, TypeOK
  <2>2. CASE OnDestroyJoin
    BY <1>3, <1>4, <2>2 DEF OnDestroyJoin, IInv, GameInv, InGame, TypeOK
  <2>3. CASE OnDestroyJoined
    BY <1>3, <1>4, <2>3 DEF OnDestroyJoined, IInv, GameInv, DestroyInv, InGame, TypeOK
  <2> QED BY <2>1, <2>2, <2>3
<1>6. TypeOK'
  BY <1>1, <1>2, <1>5 DEF IInv, TypeOK, frameworkVars, stateVars, gameVars
<1>7. GameInv' /\ ConditionsInv' /\ WakeStep
  BY <1>1 DEF IInv, GameInv, ConditionsInv, NoLostResume, WakeStep, ResumedHasSurface,
     PauseReachesGame, frameworkVars, stateVars, gameVars
<1>8. DestroyInv'
  BY <1>1, <1>5 DEF DestroyInv, QuitAfterMain, gameVars
<1> QED BY <1>6, <1>7, <1>8 DEF IInv

\* A thread moving on never enters the game, and clears mSDLThread only when
\* that names itself.
LEMMA SDLMainKeeps ==
  ASSUME IInv, NEW t \in DOMAIN pc, SDLMain(t)
  PROVE  IInv' /\ WakeStep
<1>1. /\ finishing' \in BOOLEAN /\ mSDLThread' \in {mSDLThread, 0}
      /\ UNCHANGED <<life, windowFocus, surface, mCurrentNativeState, nativePaused, sensor, hid>>
      /\ UNCHANGED stateVars /\ UNCHANGED otherVars
  BY DEF SDLMain, SDLMainTail, MainReturns, CheckFinishing, ClearThread,
     FinishActivity, IInv, TypeOK, frameworkVars
<1>2. PICK to \in Step \ {"main"} :
        /\ pc' = [pc EXCEPT ![t] = to] /\ process = "running" /\ pc[t] # "dead"
        /\ to \in InGame => pc[t] \in InGame /\ mSDLThread' = mSDLThread
        /\ mSDLThread' # mSDLThread => pc[t] \in InGame
  BY DEF SDLMain, SDLMainTail, MainReturns, CheckFinishing, ClearThread, FinishActivity,
     GoTo, Step, InGame
<1>3. /\ pc \in Seq(Step) /\ Len(pc) \in Nat /\ DOMAIN pc = 1..Len(pc)
      /\ mSDLThread \in Nat
  BY DEF IInv, TypeOK
<1>4. /\ pc' \in Seq(Step) /\ Len(pc') = Len(pc) /\ DOMAIN pc' = DOMAIN pc
      /\ pc'[t] = to /\ \A u \in DOMAIN pc \ {t} : pc'[u] = pc[u]
  BY <1>2, <1>3, ExceptStep
<1>5. TypeOK'
  BY <1>1, <1>3, <1>4 DEF IInv, TypeOK, stateVars, otherVars
<1>6. \A u \in DOMAIN pc' : pc'[u] \in InGame => mSDLThread' = u
  BY <1>2, <1>3, <1>4 DEF IInv, GameInv
<1>7. \A u \in DOMAIN pc' : pc'[u] = "main" => pc[u] = "main"
  BY <1>2, <1>4
<1>8. GameInv' /\ WakeStep
  BY <1>1, <1>3, <1>4, <1>6, <1>7 DEF IInv, GameInv, PauseReachesGame, WakeStep
<1>9. ConditionsInv'
  BY <1>1, <1>4 DEF IInv, ConditionsInv, NoLostResume, ResumedHasSurface, stateVars
<1>10. DestroyInv'
  BY <1>1, <1>2, <1>4 DEF IInv, DestroyInv, QuitAfterMain, otherVars
<1> QED BY <1>5, <1>8, <1>9, <1>10 DEF IInv

-----------------------------------------------------------------------------
(***************************************************************************)
(* The invariant and what follows from it.                                 *)
(***************************************************************************)

\* A new process satisfies the invariant.
LEMMA InitIInv == Init => IInv
<1> SUFFICES ASSUME Init PROVE IInv
  OBVIOUS
<1>1. pc \in Seq(Step) /\ Len(pc) = 0 /\ DOMAIN pc = {}
  BY DEF Init
<1>2. TypeOK
  BY <1>1 DEF Init, TypeOK, Life, Native
<1>3. GameInv
  BY <1>1 DEF Init, GameInv, PauseReachesGame
<1>4. ConditionsInv /\ DestroyInv
  BY <1>1 DEF Init, ConditionsInv, DestroyInv, NoLostResume, ResumedHasSurface, QuitAfterMain
<1> QED BY <1>2, <1>3, <1>4 DEF IInv

\* Every step keeps the invariant, and wakes the C program only on a resume.
LEMMA NextKeeps == ASSUME IInv, [Next]_vars PROVE IInv' /\ WakeStep
<1>1. CASE Lifecycle
  BY <1>1, OnCreateKeeps, LifecycleKeeps, OnDestroyKeeps DEF Lifecycle
<1>2. CASE Window
  BY <1>2, FocusKeeps, WindowKeeps, SurfaceChangedKeeps, SurfaceDestroyedKeeps DEF Window
<1>3. CASE \E t \in DOMAIN pc : SDLMain(t)
  BY <1>3, SDLMainKeeps
<1>4. CASE UNCHANGED vars
  BY <1>4 DEF IInv, TypeOK, GameInv, ConditionsInv, DestroyInv, NoLostResume, WakeStep,
     ResumedHasSurface, PauseReachesGame, QuitAfterMain, vars, frameworkVars, stateVars,
     gameVars, otherVars
<1> QED BY <1>1, <1>2, <1>3, <1>4 DEF Next, Terminated

\* The invariant holds throughout the life of a process.
LEMMA Invariance == Spec => []IInv
<1>1. Init => IInv
  BY InitIInv
<1>2. IInv /\ [Next]_vars => IInv'
  BY NextKeeps
<1> QED BY <1>1, <1>2, PTL DEF Spec

\* Every field keeps to its type, in any process and with any number of threads.
THEOREM TypeCorrect == Spec => []TypeOK
<1>1. IInv => TypeOK
  BY DEF IInv
<1> QED BY <1>1, Invariance, PTL

\* No resume is lost: whichever callback completes the three conditions of
\* handleNativeState resumes the C program.
THEOREM NothingLost == Spec => []NoLostResume
<1>1. IInv => NoLostResume
  BY DEF IInv, ConditionsInv
<1> QED BY <1>1, Invariance, PTL

\* The native state is RESUMED only with a surface to draw on and between
\* resumeNativeThread and pauseNativeThread.
THEOREM SurfaceWhileResumed == Spec => []ResumedHasSurface
<1>1. IInv => ResumedHasSurface
  BY DEF IInv, ConditionsInv
<1> QED BY <1>1, Invariance, PTL

\* However often the SDL thread is started again, the C program never runs
\* twice at once.
THEOREM OneGame == Spec => []AtMostOneGame
<1>1. IInv => AtMostOneGame
  BY DEF IInv, GameInv, AtMostOneGame, InGame
<1> QED BY <1>1, Invariance, PTL

\* nativeExit is never reached while a thread executes the C program, although
\* onDestroy reads mSDLThread twice without a lock.
THEOREM ExitAfterMain == Spec => []QuitAfterMain
<1>1. IInv => QuitAfterMain
  BY DEF IInv, DestroyInv
<1> QED BY <1>1, Invariance, PTL

\* nativePause and nativeResume reach the C program that runs.
THEOREM PauseReaches == Spec => []PauseReachesGame
<1>1. IInv => PauseReachesGame
  BY DEF IInv, GameInv
<1> QED BY <1>1, Invariance, PTL

\* A paused C program is woken only by a transition from PAUSED to RESUMED.
THEOREM WokenOnlyOnResume == Spec => WakesOnlyOnResume
<1>1. IInv /\ [Next]_vars
        => [nativePaused /\ ~nativePaused' /\ process = "running"
              => mCurrentNativeState' = "RESUMED" /\ mCurrentNativeState = "PAUSED"]_vars
  BY NextKeeps DEF WakeStep
<1> QED BY <1>1, Invariance, PTL DEF Spec, WakesOnlyOnResume
-----------------------------------------------------------------------------
(***************************************************************************)
(* SDLActivity implements GameHost: initial states map to initial states,  *)
(* and every callback and every step of an SDL thread maps to one step of  *)
(* the contract or to none.                                                *)
(***************************************************************************)

\* The steps of the contract, without the host's being up.
HostQuiet == hostGame' = hostGame /\ hostShown' = hostShown /\ hostPlayed' = hostPlayed
HostShows ==
  /\ ~hostShown /\ hostShown' = TRUE /\ hostPlayed' = hostPlayed
  /\ \/ hostGame' = "awake"
     \/ hostPlayed /\ hostGame = "none" /\ hostGame' \in {"none", "asleep"}
HostHides ==
  /\ hostShown /\ hostShown' = FALSE /\ hostPlayed' = hostPlayed
  /\ hostGame' = IF hostGame = "none" THEN "none" ELSE "asleep"
HostMoves == HostQuiet \/ HostShows \/ HostHides

\* What the mapping depends on.
LEMMA QuietIfUnchanged ==
  ASSUME pc' = pc, nativePaused' = nativePaused,
         mCurrentNativeState' = mCurrentNativeState
  PROVE  HostQuiet
BY DEF HostQuiet, hostGame, hostShown, hostPlayed

\* Leaving for the background hides a host that was shown.
LEMMA EnterPausedMoves ==
  ASSUME GameTypes, GameInv, mCurrentNativeState # "PAUSED", EnterPaused
  PROVE  HostQuiet \/ HostHides
<1>1. /\ mCurrentNativeState' = "PAUSED" /\ pc' = pc
      /\ nativePaused' <=> nativePaused \/ mSDLThread # 0
  BY DEF EnterPaused
<1>2. \A t \in DOMAIN pc : pc[t] = "main" => mSDLThread # 0
  BY DEF GameInv, GameTypes, InGame
<1>3. CASE mCurrentNativeState = "RESUMED"
  BY <1>1, <1>2, <1>3 DEF HostHides, hostGame, hostShown, hostPlayed
<1>4. CASE mCurrentNativeState = "INIT"
  <2>1. DOMAIN pc = {}
    BY <1>4 DEF GameInv, GameTypes
  <2> QED BY <1>1, <1>4, <2>1 DEF HostQuiet, hostGame, hostShown, hostPlayed
<1> QED BY <1>3, <1>4 DEF GameTypes, Native

\* Coming to the foreground starts the game or wakes it.  A second game may be
\* born asleep, because nativePaused outlives the first: it has been played then.
LEMMA EnterResumedMoves ==
  ASSUME GameTypes, GameInv, mCurrentNativeState # "RESUMED", EnterResumed
  PROVE  HostShows
<1>0. Len(pc) \in Nat /\ DOMAIN pc = 1..Len(pc) /\ mCurrentNativeState' = "RESUMED"
  BY DEF GameTypes, EnterResumed
<1>1. CASE mSDLThread = 0
  <2>1. pc' = Append(pc, "main") /\ nativePaused' = nativePaused
    BY <1>1 DEF EnterResumed
  <2>2. /\ DOMAIN pc' = 1..(Len(pc) + 1) /\ pc'[Len(pc) + 1] = "main"
        /\ \A t \in DOMAIN pc : pc'[t] = pc[t]
    BY <2>1, AppendStep DEF GameTypes, Step
  <2>3. \A t \in DOMAIN pc : pc[t] # "main"
    BY <1>0, <1>1 DEF GameInv, InGame
  <2>4. hostPlayed' = hostPlayed
    <3>1. (\E t \in DOMAIN pc' : pc'[t] # "main") <=> (\E t \in DOMAIN pc : pc[t] # "main")
      BY <1>0, <2>2
    <3> QED BY <3>1 DEF hostPlayed
  <2>5. hostGame = "none" /\ hostGame' = IF nativePaused' THEN "asleep" ELSE "awake"
    BY <1>0, <2>2, <2>3 DEF hostGame
  <2>6. nativePaused => hostPlayed
    <3>1. nativePaused => Len(pc) # 0
      BY DEF GameInv
    <3>2. Len(pc) # 0 => 1 \in DOMAIN pc
      BY <1>0
    <3> QED BY <2>3, <3>1, <3>2 DEF hostPlayed
  <2> QED BY <1>0, <2>1, <2>4, <2>5, <2>6 DEF HostShows, hostShown
<1>2. CASE mSDLThread # 0
  <2>1. pc' = pc /\ nativePaused' = FALSE
    BY <1>2 DEF EnterResumed
  <2>2. CASE \E t \in DOMAIN pc : pc[t] = "main"
    BY <1>0, <2>1, <2>2 DEF HostShows, hostGame, hostShown, hostPlayed
  <2>3. CASE \A t \in DOMAIN pc : pc[t] # "main"
    <3>1. mSDLThread \in DOMAIN pc
      BY <1>2 DEF GameInv
    <3>2. hostPlayed
      BY <2>3, <3>1 DEF hostPlayed
    <3> QED BY <1>0, <2>1, <2>3, <3>2 DEF HostShows, hostGame, hostShown, hostPlayed
  <2> QED BY <2>2, <2>3
<1> QED BY <1>1, <1>2

\* So handleNativeState is one step of the contract, or none.
LEMMA HandleMoves ==
  ASSUME NEW next, NEW ready, NEW focus, NEW resumed,
         GameTypes, GameInv, HandleNativeState(next, ready, focus, resumed)
  PROVE  HostMoves
<1>1. CASE UNCHANGED gameVars
  BY <1>1, QuietIfUnchanged DEF gameVars, HostMoves
<1>2. CASE mCurrentNativeState # "PAUSED" /\ EnterPaused
  BY <1>2, EnterPausedMoves DEF HostMoves
<1>3. CASE mCurrentNativeState # "RESUMED" /\ EnterResumed
  BY <1>3, EnterResumedMoves DEF HostMoves
<1> QED BY <1>1, <1>2, <1>3 DEF HandleNativeState

\* The requests of onStart, onResume, onPause and onStop.
LEMMA RequestMoves ==
  ASSUME GameTypes, GameInv, ResumeNativeThread \/ PauseNativeThread
  PROVE  HostMoves
<1>1. CASE UNCHANGED gameVars
  BY <1>1, QuietIfUnchanged DEF gameVars, HostMoves
<1>2. \A next, ready, focus, resumed :
        HandleNativeState(next, ready, focus, resumed) => HostMoves
  BY HandleMoves
<1> QED BY <1>1, <1>2 DEF ResumeNativeThread, PauseNativeThread, RequestNative

-----------------------------------------------------------------------------
HostStep == [Host!Next]_(Host!vars)

\* A step of the UI thread that leaves the process running.
LEMMA UpStep ==
  ASSUME HostMoves, process = "running", process' = process
  PROVE  HostStep
<1>1. hostUp = "up" /\ hostUp' = hostUp
  BY DEF hostUp
<1>2. CASE HostQuiet
  BY <1>1, <1>2 DEF HostQuiet, HostStep, Host!vars
<1>3. CASE HostShows
  <2>1. Host!Show
    BY <1>1, <1>3 DEF HostShows, Host!Show
  <2> QED BY <2>1 DEF HostStep, Host!Next
<1>4. CASE HostHides
  <2>1. Host!Hide
    BY <1>1, <1>4 DEF HostHides, Host!Hide
  <2> QED BY <2>1 DEF HostStep, Host!Next
<1> QED BY <1>2, <1>3, <1>4 DEF HostMoves

\* onCreate runs before there is a game; the other callbacks go through
\* handleNativeState, once, or leave the game alone.
LEMMA CallbackMoves ==
  ASSUME IInv, OnCreate \/ OnStart \/ OnResume \/ OnPause \/ OnStop \/ Window
  PROVE  HostStep
<1>1. GameTypes /\ GameInv
  BY DEF IInv, TypeOK, GameTypes
<1>2. process = "running" /\ process' = process
  BY DEF OnCreate, OnStart, OnResume, OnPause, OnStop, Window, OnWindowFocusChanged,
     OnBackPressed, SurfaceCreated, SurfaceDestroyed, SurfaceChanged, UIThread, otherVars
<1>3. UNCHANGED gameVars => HostMoves
  BY QuietIfUnchanged DEF gameVars, HostMoves
<1>4. \A next, ready, focus, resumed :
        HandleNativeState(next, ready, focus, resumed) => HostMoves
  BY <1>1, HandleMoves
<1>5. CASE OnCreate
  <2>1. /\ DOMAIN pc = {} /\ mCurrentNativeState # "RESUMED"
        /\ mCurrentNativeState' \in {mCurrentNativeState, "INIT"} /\ pc' = pc
    BY <1>5 DEF OnCreate, IInv, TypeOK, ConditionsInv
  <2>2. HostQuiet
    BY <2>1 DEF HostQuiet, hostGame, hostShown, hostPlayed
  <2> QED BY <1>2, <2>2, UpStep DEF HostMoves
<1>6. CASE OnStart \/ OnResume \/ OnPause \/ OnStop
  <2>1. HostMoves
    BY <1>1, <1>3, <1>6, RequestMoves DEF OnStart, OnResume, OnPause, OnStop
  <2> QED BY <1>2, <2>1, UpStep
<1>7. CASE Window
  <2>1. HostMoves
    BY <1>3, <1>4, <1>7 DEF Window, OnWindowFocusChanged, OnBackPressed, SurfaceCreated,
       SurfaceDestroyed, SurfaceChanged
  <2> QED BY <1>2, <2>1, UpStep
<1> QED BY <1>5, <1>6, <1>7

\* onDestroy closes the host, and only when no game is left.
LEMMA OnDestroyMoves ==
  ASSUME IInv, IInv', OnDestroy \/ OnDestroyJoin \/ OnDestroyJoined
  PROVE  HostStep
<1>1. process = "running" /\ UNCHANGED gameVars
  BY DEF OnDestroy, OnDestroyJoin, OnDestroyJoined, UIThread
<1>2. HostQuiet
  BY <1>1, QuietIfUnchanged DEF gameVars
<1>3. CASE process' = "running"
  BY <1>1, <1>2, <1>3, UpStep DEF HostMoves
<1>4. CASE process' # "running"
  <2>1. hostGame = "none"
    BY <1>1, <1>4 DEF IInv, DestroyInv, QuitAfterMain, gameVars, hostGame
  <2>2. Host!Close
    BY <1>1, <1>2, <1>4, <2>1 DEF Host!Close, HostQuiet, hostUp
  <2> QED BY <2>2 DEF HostStep, Host!Next
<1> QED BY <1>3, <1>4

\* Of the steps of an SDL thread the contract sees the return of nativeRunMain.
LEMMA SDLMainMoves ==
  ASSUME IInv, NEW t \in DOMAIN pc, SDLMain(t)
  PROVE  HostStep
<1>1. /\ process = "running" /\ process' = process /\ nativePaused' = nativePaused
      /\ mCurrentNativeState' = mCurrentNativeState
  BY DEF SDLMain, SDLMainTail, MainReturns, CheckFinishing, ClearThread, FinishActivity,
     GoTo, otherVars
<1>2. PICK to \in Step \ {"main"} :
        pc' = [pc EXCEPT ![t] = to] /\ (pc[t] = "main" => to = "returned")
  BY DEF SDLMain, SDLMainTail, MainReturns, CheckFinishing, ClearThread, FinishActivity,
     GoTo, Step
<1>3. /\ DOMAIN pc' = DOMAIN pc /\ pc'[t] = to
      /\ \A u \in DOMAIN pc \ {t} : pc'[u] = pc[u]
  BY <1>2, ExceptStep DEF IInv, TypeOK
<1>4. CASE pc[t] = "main"
  <2>1. \A u \in DOMAIN pc : pc[u] = "main" => u = t
    BY <1>4 DEF IInv, GameInv, InGame
  <2>2. hostGame # "none" /\ hostGame' = "none" /\ hostPlayed' = TRUE
    BY <1>2, <1>3, <1>4, <2>1 DEF hostGame, hostPlayed
  <2>3. Host!End
    BY <1>1, <2>2 DEF Host!End, hostShown, hostUp
  <2> QED BY <2>3 DEF HostStep, Host!Next
<1>5. CASE pc[t] # "main"
  <2>1. /\ (\E u \in DOMAIN pc' : pc'[u] = "main") <=> (\E u \in DOMAIN pc : pc[u] = "main")
        /\ (\E u \in DOMAIN pc' : pc'[u] # "main") <=> (\E u \in DOMAIN pc : pc[u] # "main")
    BY <1>2, <1>3, <1>5
  <2>2. HostQuiet
    BY <1>1, <2>1 DEF HostQuiet, hostGame, hostShown, hostPlayed
  <2> QED BY <1>1, <2>2, UpStep DEF HostMoves
<1> QED BY <1>4, <1>5

\* A new process has no game; every step of a process keeps the contract.
LEMMA NextMoves == ASSUME IInv, IInv', [Next]_vars PROVE HostStep
<1>1. CASE Lifecycle
  BY <1>1, CallbackMoves, OnDestroyMoves DEF Lifecycle
<1>2. CASE Window
  BY <1>2, CallbackMoves
<1>3. CASE \E t \in DOMAIN pc : SDLMain(t)
  BY <1>3, SDLMainMoves
<1>4. CASE UNCHANGED vars
  <2>1. pc' = pc /\ nativePaused' = nativePaused /\ process' = process
        /\ mCurrentNativeState' = mCurrentNativeState
    BY <1>4 DEF vars, gameVars, otherVars
  <2>2. HostQuiet /\ hostUp' = hostUp
    BY <2>1, QuietIfUnchanged DEF hostUp
  <2> QED BY <2>2 DEF HostStep, HostQuiet, Host!vars
<1> QED BY <1>1, <1>2, <1>3, <1>4 DEF Next, Terminated

\* The activity, its surface and its threads together are a host of the game:
\* they implement the contract of GameHost, for any number of threads.
THEOREM ImplementsHost == Spec => HostContract
<1>1. Init => Host!Init
  <2> SUFFICES ASSUME Init PROVE Host!Init
    OBVIOUS
  <2>1. DOMAIN pc = {} /\ mCurrentNativeState = "INIT" /\ process = "running"
    BY DEF Init
  <2> QED BY <2>1 DEF Host!Init, hostGame, hostShown, hostPlayed, hostUp
<1>2. IInv /\ IInv' /\ [Next]_vars => HostStep
  BY NextMoves
<1>3. Init /\ []IInv /\ [][Next]_vars => Host!Init /\ [][Host!Next]_(Host!vars)
  BY <1>1, <1>2, PTL DEF HostStep
<1> QED BY <1>3, Invariance, PTL DEF Spec, HostContract, Host!Spec
=============================================================================

------------------------------ MODULE MessageBox ------------------------------
(***************************************************************************)
(* The calls in which the SDL thread waits for the UI thread, composed     *)
(* with the life of the activity: messageboxShowMessageBox, which waits    *)
(* for a button without a limit, and sendCommand, which waits at most half *)
(* a second for the surface to take its new size.                          *)
(*                                                                         *)
(* The C program is inside nativeRunMain while it calls, so it cannot obey *)
(* SDL_QUIT before the call returns; and the UI thread shows no dialog and *)
(* hears of no button while it is inside onDestroy.                        *)
(***************************************************************************)
EXTENDS SDLActivity

CONSTANTS
  Buttons,   \* ids of the buttons of a message box
  MaxCalls   \* bound: blocking calls of the C program

ASSUME ButtonsAssumption == Buttons \subseteq Nat /\ Buttons # {}
ASSUME CallsAssumption   == MaxCalls \in Nat

VARIABLES
  call,       \* what the C program is waiting for
  calls,      \* how many calls it has made
  looper,     \* posted to the UI thread and not yet handled, in order
  dialog,     \* the message box is on the screen
  messageboxSelection,
  clicked,    \* history: what the player chose in the present box, or None
  missed      \* history: notify() found nobody waiting in the present call

boxVars == <<call, calls, looper, dialog, messageboxSelection, clicked, missed>>
allVars == <<vars, boxVars>>

None == -1

\* posted: the dialog is on its way and wait() not yet called.  notified: about
\* to return from wait().  resizing: in sendCommand's wait(500).
Call == {"none", "posted", "waiting", "notified", "resizing"}

BoxTypeOK ==
  /\ call \in Call /\ calls \in 0..MaxCalls
  /\ looper \in Seq({"show", "dismissed"}) /\ dialog \in BOOLEAN
  /\ messageboxSelection \in Buttons \cup {None}
  /\ clicked \in Buttons \cup {None} /\ missed \in BOOLEAN

BoxInit ==
  /\ Init
  /\ call = "none" /\ calls = 0 /\ looper = <<>> /\ dialog = FALSE
  /\ messageboxSelection = None /\ clicked = None /\ missed = FALSE

-----------------------------------------------------------------------------
(***************************************************************************)
(* The SDL thread.                                                         *)
(***************************************************************************)

\* A thread inside nativeRunMain calls; none of its calls is under way.
Calls(kind) ==
  /\ process = "running" /\ \E t \in DOMAIN pc : pc[t] = "main"
  /\ call = "none" /\ calls < MaxCalls
  /\ call' = kind /\ calls' = calls + 1

ShowMessageBox ==
  /\ Calls("posted")
  /\ messageboxSelection' = None /\ clicked' = None /\ missed' = FALSE
  /\ looper' = Append(looper, "show")
  /\ UNCHANGED <<vars, dialog>>

\* Mutants of BeginWait: the selection is reset here, after posting; or the
\* wait has a limit, as sendCommand's has.
BeginWaitResets ==
  /\ process = "running" /\ call = "posted"
  /\ call' = "waiting" /\ messageboxSelection' = None
  /\ UNCHANGED <<vars, calls, looper, dialog, clicked, missed>>
BeginWaitLimited ==
  /\ process = "running" /\ call \in {"posted", "waiting"}
  /\ call' = IF call = "posted" THEN "waiting" ELSE "none"
  /\ UNCHANGED <<vars, calls, looper, dialog, messageboxSelection, clicked, missed>>

BeginWait ==
  /\ process = "running" /\ call = "posted"
  /\ call' = "waiting"
  /\ UNCHANGED <<vars, calls, looper, dialog, messageboxSelection, clicked, missed>>

ReturnSelection ==
  /\ process = "running" /\ call = "notified"
  /\ call' = "none"
  /\ UNCHANGED <<vars, calls, looper, dialog, messageboxSelection, clicked, missed>>

\* sendCommand(COMMAND_CHANGE_WINDOW_STYLE), when the layout is about to change.
ChangeWindowStyle ==
  /\ Calls("resizing")
  /\ UNCHANGED <<vars, looper, dialog, messageboxSelection, clicked, missed>>

\* The 500 ms are over.
GiveUp ==
  /\ process = "running" /\ call = "resizing"
  /\ call' = "none"
  /\ UNCHANGED <<vars, calls, looper, dialog, messageboxSelection, clicked, missed>>

SDLCalls == BeginWait \/ ReturnSelection \/ GiveUp

-----------------------------------------------------------------------------
(***************************************************************************)
(* The UI thread.                                                          *)
(***************************************************************************)

Handles(what) ==
  /\ UIThread /\ looper # <<>> /\ Head(looper) = what
  /\ looper' = Tail(looper)

MessageboxCreateAndShow ==
  /\ Handles("show")
  /\ dialog' = TRUE
  /\ UNCHANGED <<vars, call, calls, messageboxSelection, clicked, missed>>

\* Mutants of OnClick: the place of the button in the row instead of its id; or
\* dialog.hide() instead of dismiss().
OnClickIndex(id) ==
  /\ UIThread /\ dialog /\ life = "resumed"
  /\ messageboxSelection' = id - 1 /\ clicked' = id
  /\ dialog' = FALSE
  /\ looper' = Append(looper, "dismissed")
  /\ UNCHANGED <<vars, call, calls, missed>>
OnClickHides(id) ==
  /\ UIThread /\ dialog /\ life = "resumed"
  /\ messageboxSelection' = id /\ clicked' = id
  /\ dialog' = FALSE
  /\ UNCHANGED <<vars, call, calls, looper, missed>>

\* A button, or the key that stands for it; dismiss() posts the listener.
OnClick(id) ==
  /\ UIThread /\ dialog /\ life = "resumed"
  /\ messageboxSelection' = id /\ clicked' = id
  /\ dialog' = FALSE
  /\ looper' = Append(looper, "dismissed")
  /\ UNCHANGED <<vars, call, calls, missed>>

\* Mutant of OnDismiss: the listener does not notify.
OnDismissQuietly ==
  /\ Handles("dismissed")
  /\ UNCHANGED <<vars, call, calls, dialog, messageboxSelection, clicked, missed>>

\* notify() wakes the thread that waits, if it does already.
OnDismiss ==
  /\ Handles("dismissed")
  /\ call' = IF call = "waiting" THEN "notified" ELSE call
  /\ missed' = (call = "posted")
  /\ UNCHANGED <<vars, calls, dialog, messageboxSelection, clicked>>

UICalls == MessageboxCreateAndShow \/ OnDismiss

\* The rest of the UI thread is SDLActivity's.  A dialog that cannot be cancelled
\* keeps the back button from the activity; surfaceChanged wakes sendCommand.
ActivityStep ==
  /\ \/ /\ \/ Lifecycle
           \/ \E f \in BOOLEAN : OnWindowFocusChanged(f)
           \/ ~dialog /\ OnBackPressed
           \/ SurfaceCreated \/ SurfaceDestroyed
        /\ UNCHANGED call
     \/ /\ \E skip \in BOOLEAN : SurfaceChanged(skip)
        /\ call' = IF call = "resizing" THEN "none" ELSE call
  /\ UNCHANGED <<calls, looper, dialog, messageboxSelection, clicked, missed>>

-----------------------------------------------------------------------------
\* nativeRunMain does not return in the middle of a call.
Returns(t) == call = "none" /\ MainReturns(t) /\ UNCHANGED boxVars
Ends(t)    == SDLMainTail(t) /\ UNCHANGED boxVars

BoxNext ==
  \/ ActivityStep
  \/ \E t \in DOMAIN pc : Returns(t) \/ Ends(t)
  \/ ShowMessageBox \/ ChangeWindowStyle \/ SDLCalls
  \/ UICalls
  \/ \E id \in Buttons : OnClick(id)
  \/ Terminated /\ UNCHANGED boxVars

BoxSpec == BoxInit /\ [][BoxNext]_allVars

\* As in SDLActivity; and both threads go on with a call of the C program.  The
\* player need not answer, the C program need not call.
BoxFairness ==
  /\ WF_allVars(Teardown /\ ActivityStep)
  /\ WF_allVars((OnDestroyJoin \/ OnDestroyJoined) /\ UNCHANGED boxVars)
  /\ WF_allVars(\E t \in DOMAIN pc : Ends(t))
  /\ WF_allVars(quitSent /\ \E t \in DOMAIN pc : Returns(t))
  /\ WF_allVars(SDLCalls)
  /\ WF_allVars(UICalls)
FairBoxSpec == BoxSpec /\ BoxFairness

-----------------------------------------------------------------------------
(***************************************************************************)
(* What the calls promise.                                                 *)
(***************************************************************************)

\* messageboxShowMessageBox returns the button the player chose in this box,
\* never the initial -1 nor the choice made in an earlier box, although the
\* selection is written without a lock.
BoxReturnsChoice ==
  call = "notified" => clicked \in Buttons /\ messageboxSelection = clicked

Shows == {n \in DOMAIN looper : looper[n] = "show"}

\* No two message boxes are on the screen or on their way there, and none
\* outlives the call that asked for it.
OneDialog ==
  /\ dialog => Shows = {}
  /\ \A m, n \in Shows : m = n
  /\ dialog \/ Shows # {} => call \in {"posted", "waiting"}

\* Whoever waits for an answer can still get one, unless the notify() it waits
\* for came before the wait().
WaitsForReason == call = "waiting" => looper # <<>> \/ dialog \/ missed

\* A box that was answered returns, unless its notify() was missed or the UI
\* thread has begun to destroy the activity.
AnswerReturns ==
  clicked # None /\ call \in {"posted", "waiting"}
    ~> call \in {"none", "notified"} \/ missed \/ ui # "free" \/ process # "running"
=============================================================================

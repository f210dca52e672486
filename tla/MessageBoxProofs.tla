--------------------------- MODULE MessageBoxProofs ---------------------------
(***************************************************************************)
(* What the calls of MessageBox promise, for any buttons and any number of *)
(* calls and SDL threads.  The proofs follow one message box through its   *)
(* stages; the rest of the activity plays no part in them, except that     *)
(* surfaceChanged may end a change of window style.                        *)
(***************************************************************************)
EXTENDS MessageBox, TLAPS

\* The dialog is on its way, on the screen with no answer, answered with the
\* listener on its way, or answered and heard.
Asked   == looper = <<"show">> /\ ~dialog /\ clicked = None
Open    == looper = <<>> /\ dialog /\ clicked = None
Chosen  == ~dialog /\ clicked \in Buttons /\ messageboxSelection = clicked
Leaving == looper = <<"dismissed">> /\ Chosen
Over    == looper = <<>> /\ Chosen

\* The inductive invariant: the stage of the box for each stage of the call.  The
\* looper never holds more than one message, since the next box is posted only
\* after the listener of the last one has run.
Stages ==
  /\ call \in Call /\ dialog \in BOOLEAN /\ missed \in BOOLEAN /\ calls \in 0..MaxCalls
  /\ call \in {"none", "resizing"} => looper = <<>> /\ ~dialog
  /\ call \in {"posted", "waiting"} => Asked \/ Open \/ Leaving \/ (Over /\ missed)
  /\ call = "notified" => Over
  /\ clicked \in Buttons \cup {None} /\ messageboxSelection \in Buttons \cup {None}

\* Everything the stages are about, but the call.
boxOnly == <<calls, looper, dialog, messageboxSelection, clicked, missed>>

\* A looper with one message in it gives it out and is empty.
LEMMA OneMessage ==
  ASSUME NEW m PROVE Head(<<m>>) = m /\ Tail(<<m>>) = <<>> /\ <<m>> # <<>>
                     /\ Append(<<>>, m) = <<m>>
OBVIOUS

\* A call that ends, or goes on to a stage with the same obligations, keeps the
\* invariant; so does a step that touches none of it.
LEMMA SameStages ==
  ASSUME Stages, UNCHANGED boxOnly,
         \/ call' = call
         \/ call = "posted" /\ call' = "waiting"
         \/ call \in {"notified", "resizing"} /\ call' = "none"
  PROVE  Stages'
<1>1. /\ Asked' <=> Asked
      /\ Open' <=> Open
      /\ Leaving' <=> Leaving
      /\ Over' <=> Over
  BY DEF boxOnly, Asked, Open, Leaving, Over, Chosen
<1>2. CASE call' = call
  BY <1>1, <1>2 DEF Stages, boxOnly
<1>3. CASE call = "posted" /\ call' = "waiting"
  BY <1>1, <1>3 DEF Stages, boxOnly, Call
<1>4. CASE call \in {"notified", "resizing"} /\ call' = "none"
  BY <1>4 DEF Stages, boxOnly, Call, Over, Chosen
<1> QED BY <1>2, <1>3, <1>4

\* A new box is asked for, and nothing is left of the last one.
LEMMA ShowKeeps == ASSUME Stages, ShowMessageBox PROVE Stages'
<1>1. /\ call = "none" /\ call' = "posted" /\ calls < MaxCalls /\ calls' = calls + 1
      /\ messageboxSelection' = None /\ clicked' = None /\ missed' = FALSE
      /\ looper' = Append(looper, "show") /\ dialog' = dialog
  BY DEF ShowMessageBox, Calls
<1>2. looper = <<>> /\ ~dialog
  BY <1>1 DEF Stages
<1>3. Asked'
  BY <1>1, <1>2, OneMessage DEF Asked, None
<1>4. calls' \in 0..MaxCalls
  BY <1>1, CallsAssumption DEF Stages
<1> QED BY <1>1, <1>2, <1>3, <1>4 DEF Stages, Call, None

\* A change of window style involves no dialog.
LEMMA StyleKeeps == ASSUME Stages, ChangeWindowStyle PROVE Stages'
<1>1. /\ call = "none" /\ call' = "resizing" /\ calls < MaxCalls /\ calls' = calls + 1
      /\ UNCHANGED <<looper, dialog, messageboxSelection, clicked, missed>>
  BY DEF ChangeWindowStyle, Calls
<1>2. calls' \in 0..MaxCalls
  BY <1>1, CallsAssumption DEF Stages
<1> QED BY <1>1, <1>2 DEF Stages, Call

\* The dialog that was asked for appears.
LEMMA CreateKeeps == ASSUME Stages, MessageboxCreateAndShow PROVE Stages'
<1>1. /\ looper # <<>> /\ Head(looper) = "show" /\ looper' = Tail(looper) /\ dialog' = TRUE
      /\ UNCHANGED <<call, calls, messageboxSelection, clicked, missed>>
  BY DEF MessageboxCreateAndShow, Handles
<1>2. call \in {"posted", "waiting"} /\ Asked
  BY <1>1, OneMessage DEF Stages, Call, Asked, Open, Leaving, Over
<1>3. Open'
  BY <1>1, <1>2, OneMessage DEF Open, Asked
<1> QED BY <1>1, <1>2, <1>3 DEF Stages

\* A click answers the dialog and sends the listener on its way.
LEMMA ClickKeeps == ASSUME Stages, NEW id \in Buttons, OnClick(id) PROVE Stages'
<1>1. /\ dialog /\ messageboxSelection' = id /\ clicked' = id /\ dialog' = FALSE
      /\ looper' = Append(looper, "dismissed") /\ UNCHANGED <<call, calls, missed>>
  BY DEF OnClick
<1>2. call \in {"posted", "waiting"} /\ Open
  BY <1>1 DEF Stages, Call, Asked, Open, Leaving, Over, Chosen
<1>3. Leaving'
  BY <1>1, <1>2, OneMessage DEF Open, Leaving, Chosen
<1> QED BY <1>1, <1>2, <1>3 DEF Stages

\* The listener finds the SDL thread waiting, or its notify() is missed.
LEMMA DismissKeeps == ASSUME Stages, OnDismiss PROVE Stages'
<1>1. /\ looper # <<>> /\ Head(looper) = "dismissed" /\ looper' = Tail(looper)
      /\ call' = IF call = "waiting" THEN "notified" ELSE call
      /\ missed' = (call = "posted")
      /\ UNCHANGED <<calls, dialog, messageboxSelection, clicked>>
  BY DEF OnDismiss, Handles
<1>2. call \in {"posted", "waiting"} /\ Leaving
  BY <1>1, OneMessage DEF Stages, Call, Asked, Open, Leaving, Over
<1>3. Over'
  BY <1>1, <1>2, OneMessage DEF Leaving, Over, Chosen
<1>4. CASE call = "waiting"
  BY <1>1, <1>3, <1>4 DEF Stages, Call
<1>5. CASE call = "posted"
  BY <1>1, <1>3, <1>5 DEF Stages, Call
<1> QED BY <1>2, <1>4, <1>5

\* No step of either thread leaves the stages.
LEMMA StagesInductive == Stages /\ [BoxNext]_allVars => Stages'
<1> SUFFICES ASSUME Stages, [BoxNext]_allVars PROVE Stages'
  OBVIOUS
<1>1. CASE ActivityStep
  BY <1>1, SameStages DEF ActivityStep, boxOnly
<1>2. ASSUME NEW t \in DOMAIN pc, Returns(t) \/ Ends(t) PROVE Stages'
  BY <1>2, SameStages DEF Returns, Ends, boxVars, boxOnly
<1>3. CASE ShowMessageBox
  BY <1>3, ShowKeeps
<1>4. CASE ChangeWindowStyle
  BY <1>4, StyleKeeps
<1>5. CASE SDLCalls
  BY <1>5, SameStages DEF SDLCalls, BeginWait, ReturnSelection, GiveUp, boxOnly
<1>6. CASE UICalls
  BY <1>6, CreateKeeps, DismissKeeps DEF UICalls
<1>7. ASSUME NEW id \in Buttons, OnClick(id) PROVE Stages'
  BY <1>7, ClickKeeps
<1>8. CASE Terminated /\ UNCHANGED boxVars
  BY <1>8, SameStages DEF boxVars, boxOnly
<1>9. CASE UNCHANGED allVars
  BY <1>9, SameStages DEF allVars, boxVars, boxOnly
<1> QED
  BY <1>1, <1>2, <1>3, <1>4, <1>5, <1>6, <1>7, <1>8, <1>9 DEF BoxNext

LEMMA StagesAlways == BoxSpec => []Stages
<1>1. ASSUME BoxInit PROVE Stages
  <2>1. /\ call = "none" /\ calls = 0 /\ looper = <<>> /\ dialog = FALSE
        /\ messageboxSelection = None /\ clicked = None /\ missed = FALSE
    BY <1>1 DEF BoxInit
  <2>2. calls \in 0..MaxCalls
    BY <2>1, CallsAssumption
  <2> QED BY <2>1, <2>2 DEF Stages, Call
<1> QED BY <1>1, StagesInductive, PTL DEF BoxSpec

-----------------------------------------------------------------------------
\* A message box returns the button the player chose in it (BoxReturnsChoice),
\* for any buttons and any number of boxes.
THEOREM ReturnsChoice == BoxSpec => []BoxReturnsChoice
<1>1. Stages => BoxReturnsChoice
  BY DEF Stages, Over, Chosen, BoxReturnsChoice
<1> QED BY <1>1, StagesAlways, PTL

\* No two message boxes are shown or on their way (OneDialog).
THEOREM OneBox == BoxSpec => []OneDialog
<1>1. Stages => OneDialog
  <2> SUFFICES ASSUME Stages PROVE OneDialog
    OBVIOUS
  <2>1. CASE looper = <<>>
    <3>1. Shows = {}
      BY <2>1 DEF Shows
    <3> QED BY <3>1 DEF OneDialog, Stages, Call, Over, Chosen
  <2>2. CASE Asked /\ call \in {"posted", "waiting"}
    BY <2>2 DEF OneDialog, Shows, Asked
  <2>3. CASE Leaving
    <3>1. Shows = {} /\ ~dialog
      BY <2>3 DEF Shows, Leaving, Chosen
    <3> QED BY <3>1 DEF OneDialog
  <2> QED BY <2>1, <2>2, <2>3 DEF Stages, Call, Open, Over
<1> QED BY <1>1, StagesAlways, PTL

\* Whoever waits in a message box can still get an answer, or its notify() came
\* too early (WaitsForReason): the code loses an answer in no other way.
THEOREM WaitHasReason == BoxSpec => []WaitsForReason
<1>1. Stages => WaitsForReason
  <2> SUFFICES ASSUME Stages, call = "waiting" PROVE looper # <<>> \/ dialog \/ missed
    BY DEF WaitsForReason
  <2>1. Asked \/ Open \/ Leaving \/ missed
    BY DEF Stages
  <2> QED BY <2>1, OneMessage DEF Asked, Open, Leaving
<1> QED BY <1>1, StagesAlways, PTL

\* The type invariant, for any bounds.
THEOREM BoxTypeCorrect == BoxSpec => []BoxTypeOK
<1>1. Stages => BoxTypeOK
  <2> SUFFICES ASSUME Stages PROVE looper \in Seq({"show", "dismissed"})
    BY DEF Stages, BoxTypeOK
  <2>1. looper = <<>> \/ looper = <<"show">> \/ looper = <<"dismissed">>
    BY DEF Stages, Call, Asked, Open, Leaving, Over
  <2>2. <<"show">> \in Seq({"show", "dismissed"}) /\ <<"dismissed">> \in Seq({"show", "dismissed"})
    BY SMT
  <2>3. <<>> \in Seq({"show", "dismissed"})
    BY SMT
  <2> QED BY <2>1, <2>2, <2>3, Zenon
<1> QED BY <1>1, StagesAlways, PTL
=============================================================================

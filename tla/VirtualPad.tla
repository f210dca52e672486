------------------------------ MODULE VirtualPad ------------------------------
(***************************************************************************)
(* The on-screen controls: VirtualButton and VirtualCross turn the touch   *)
(* events of their view into key presses for SDL.                          *)
(*                                                                         *)
(* A view receives its own stream of events (Android splits multi-touch    *)
(* gestures between views): DOWN for its first finger, POINTER_DOWN and    *)
(* POINTER_UP for further ones, MOVE, UP for the last, or CANCEL.  getX()  *)
(* and getY() are those of the finger at index 0 (here the head of the     *)
(* view's sequence), which need not be the finger that came first.         *)
(* debug_mode is never switched on and is left out.                        *)
(***************************************************************************)
EXTENDS Integers, Sequences, FiniteSets

CONSTANTS
  Buttons,      \* the VirtualButtons, each named by its key
  realSize,     \* side of the cross in pixels
  CrossPoints,  \* where a finger can be, relative to the cross
  MaxFingers    \* bound: fingers on one view

Directions == {"left", "right", "up", "down"}
Cross == "cross"
Views == Buttons \cup {Cross}

ASSUME ButtonsAssumption == Buttons \cap (Directions \cup {Cross, "none"}) = {}
ASSUME PointsAssumption  == CrossPoints \subseteq Int \X Int
ASSUME SizeAssumption    == realSize \in Nat /\ MaxFingers \in Nat \ {0}

VARIABLES
  isPressed,    \* per view
  key_pressed,  \* of the cross: "none" is -1, "unset" the field's initial 0
  fingers,      \* external: per view, its fingers by index
  keysDown      \* external: the keys SDL takes for held

vars == <<isPressed, key_pressed, fingers, keysDown>>

-----------------------------------------------------------------------------
\* VirtualCross.setBounds and the chain of tests that picks a direction:
\* overlaps go to the first match.  Horizontal arms are padded below only.
third   == (realSize * 33) \div 100
padding == (realSize * 20) \div 100

\* Rect.contains
Contains(left, top, right, bottom, p) ==
  left <= p[1] /\ p[1] < right /\ top <= p[2] /\ p[2] < bottom

Left(p)  == Contains(-padding, third, realSize - 2 * third, realSize - third + padding, p)
Right(p) == Contains(2 * third, third, realSize + padding, realSize - third + padding, p)
Up(p)    == Contains(third, -padding, realSize - third, realSize - 2 * third, p)
Down(p)  == Contains(third, 2 * third, realSize - third, realSize + padding, p)

Direction(p) == CASE Left(p) -> "left"
                  [] ~Left(p) /\ Right(p) -> "right"
                  [] ~Left(p) /\ ~Right(p) /\ Up(p) -> "up"
                  [] ~Left(p) /\ ~Right(p) /\ ~Up(p) /\ Down(p) -> "down"
                  [] OTHER -> "none"

InsideCross(p) == Contains(0, 0, realSize, realSize, p)

\* A button only tells a finger within its bounds from one outside.
Points(v)      == IF v = Cross THEN CrossPoints ELSE {"inside", "outside"}
StartPoints(v) == IF v = Cross THEN {p \in CrossPoints : InsideCross(p)} ELSE {"inside"}

TypeOK ==
  /\ isPressed \in [Views -> BOOLEAN]
  /\ key_pressed \in Directions \cup {"none", "unset"}
  /\ DOMAIN fingers = Views
  /\ \A v \in Views : fingers[v] \in Seq(Points(v)) /\ Len(fingers[v]) <= MaxFingers
  /\ keysDown \subseteq Buttons \cup Directions

Init ==
  /\ isPressed = [v \in Views |-> FALSE] /\ key_pressed = "unset"
  /\ fingers = [v \in Views |-> <<>>] /\ keysDown = {}

-----------------------------------------------------------------------------
(***************************************************************************)
(* onPressed and onReleased.                                               *)
(***************************************************************************)

\* Mutant of ButtonPressed: the key is kept in the field the cross uses.
ButtonPressedInSharedField(b) ==
  /\ isPressed' = [isPressed EXCEPT ![b] = TRUE]
  /\ keysDown' = IF isPressed[b] THEN keysDown ELSE keysDown \cup {b}
  /\ key_pressed' = b

ButtonPressed(b) ==
  /\ isPressed' = [isPressed EXCEPT ![b] = TRUE]
  /\ keysDown' = IF isPressed[b] THEN keysDown ELSE keysDown \cup {b}
  /\ UNCHANGED key_pressed

\* Mutant of ButtonReleased: key up without forgetting the press.
ButtonReleasedHalfway(b) ==
  /\ keysDown' = IF isPressed[b] THEN keysDown \ {b} ELSE keysDown
  /\ UNCHANGED <<isPressed, key_pressed>>

ButtonReleased(b) ==
  /\ isPressed' = [isPressed EXCEPT ![b] = FALSE]
  /\ keysDown' = IF isPressed[b] THEN keysDown \ {b} ELSE keysDown
  /\ UNCHANGED key_pressed

\* Mutants of CrossPressed: the previous direction is not released; the
\* direction is remembered only when there is one.
CrossPressedKeepsOld(key) ==
  /\ keysDown' = keysDown \cup ({key} \ {"none"})
  /\ key_pressed' = key
  /\ isPressed' = [isPressed EXCEPT ![Cross] = TRUE]
CrossPressedIgnoresNone(key) ==
  IF key = "none" THEN UNCHANGED <<isPressed, key_pressed, keysDown>>
  ELSE /\ keysDown' = (keysDown \ Directions) \cup {key}
       /\ key_pressed' = key
       /\ isPressed' = [isPressed EXCEPT ![Cross] = TRUE]

CrossPressed(key) ==
  LET previous == IF isPressed[Cross] /\ key_pressed # key
                  THEN {key_pressed} \ {"none"} ELSE {}
  IN  /\ keysDown' = (keysDown \ previous) \cup ({key} \ {"none"})
      /\ key_pressed' = key
      /\ isPressed' = [isPressed EXCEPT ![Cross] = TRUE]

CrossReleased ==
  /\ keysDown' = IF isPressed[Cross] THEN keysDown \ {key_pressed} ELSE keysDown
  /\ key_pressed' = "none"
  /\ isPressed' = [isPressed EXCEPT ![Cross] = FALSE]

-----------------------------------------------------------------------------
(***************************************************************************)
(* onTouchEvent, one action per kind of event.                             *)
(***************************************************************************)

Touch(v, now) == fingers' = [fingers EXCEPT ![v] = now]
Ignored == UNCHANGED <<isPressed, key_pressed, keysDown>>

ActionDown(v) ==
  /\ fingers[v] = <<>>
  /\ \E p \in StartPoints(v) :
       /\ Touch(v, <<p>>)
       /\ IF v = Cross THEN CrossPressed(Direction(p)) ELSE ButtonPressed(v)

ActionUp(v) ==
  /\ Len(fingers[v]) = 1
  /\ Touch(v, <<>>)
  /\ IF v = Cross THEN CrossReleased ELSE ButtonReleased(v)

\* One finger moves; only the head's position is looked at.
ActionMove(v) ==
  \E i \in DOMAIN fingers[v], p \in Points(v) :
    /\ Touch(v, [fingers[v] EXCEPT ![i] = p])
    /\ LET head == Head(fingers'[v])
       IN  IF v = Cross
           THEN IF Direction(head) # key_pressed
                THEN CrossPressed(Direction(head)) ELSE Ignored
           ELSE IF head = "outside" THEN ButtonReleased(v) ELSE Ignored

\* A new finger takes the lowest free pointer id, perhaps index 0.
ActionPointerDown(v) ==
  /\ Len(fingers[v]) \in 1..(MaxFingers - 1)
  /\ \E p \in StartPoints(v) : \/ Touch(v, Append(fingers[v], p))
                               \/ Touch(v, <<p>> \o fingers[v])
  /\ Ignored

ActionPointerUp(v) ==
  /\ Len(fingers[v]) > 1
  /\ \E i \in DOMAIN fingers[v] :
       Touch(v, SubSeq(fingers[v], 1, i - 1) \o SubSeq(fingers[v], i + 1, Len(fingers[v])))
  /\ Ignored

\* The parent took the gesture over, or the window lost it: the default case.
ActionCancel(v) ==
  /\ fingers[v] # <<>>
  /\ Touch(v, <<>>)
  /\ Ignored

OnTouchEvent(v) ==
  \/ ActionDown(v) \/ ActionUp(v) \/ ActionMove(v)
  \/ ActionPointerDown(v) \/ ActionPointerUp(v) \/ ActionCancel(v)

Next == \E v \in Views : OnTouchEvent(v)
Spec == Init /\ [][Next]_vars

-----------------------------------------------------------------------------
(***************************************************************************)
(* What the controls promise.                                              *)
(***************************************************************************)

\* The game never sees two directions of the cross held at once, however the
\* finger slides, whichever finger leads, and after a cancelled gesture.
OneDirection == Cardinality(keysDown \cap Directions) <= 1

\* SDL's idea of the held keys and the views' idea of what they pressed agree,
\* so every key that went down will be the one that goes up.
HeldKeysMatchViews ==
  keysDown = {b \in Buttons : isPressed[b]}
             \cup (IF isPressed[Cross] THEN {key_pressed} \ {"none"} ELSE {})

\* Whenever a finger moves on the cross, the direction held afterwards is the
\* one under the finger at index 0, whatever happened before.
SteersWithFinger ==
  [][Len(fingers[Cross]) > 0 /\ Len(fingers'[Cross]) = Len(fingers[Cross])
       /\ fingers'[Cross] # fingers[Cross]
     => keysDown' \cap Directions = {Direction(Head(fingers'[Cross]))} \ {"none"}]_vars

\* A gesture that ends with the lifting of its last finger leaves no key of its
\* view held, even one that was stuck since an earlier, cancelled gesture.
LiftReleases ==
  [][\A v \in Views : ActionUp(v)
       => keysDown' \cap (IF v = Cross THEN Directions ELSE {v}) = {}]_vars
=============================================================================

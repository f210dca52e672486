--------------------------- MODULE VirtualPadProofs ---------------------------
(***************************************************************************)
(* Proofs about VirtualPad, for every set of buttons, every size of the    *)
(* cross, every set of points and any number of fingers.                   *)
(***************************************************************************)
EXTENDS VirtualPad, TLAPS, FiniteSetTheorems, SequenceTheorems

Presses == Directions \cup {"none"}

\* A pressed cross has set its direction, so the key released is the one held.
PadInv ==
  /\ isPressed \in [Views -> BOOLEAN]
  /\ key_pressed \in Presses \cup {"unset"}
  /\ keysDown \subseteq Buttons \cup Directions
  /\ HeldKeysMatchViews
  /\ isPressed[Cross] => key_pressed # "unset"

\* The fingers are typed, and a cross with a finger on it counts as pressed.
FingersInv ==
  /\ DOMAIN fingers = Views
  /\ \A v \in Views : fingers[v] \in Seq(Points(v)) /\ Len(fingers[v]) <= MaxFingers
  /\ fingers[Cross] # <<>> => isPressed[Cross]

IInv == PadInv /\ FingersInv

\* Opposite arms of the cross never overlap, whatever its size from 13 pixels
\* on (below, rounding makes them): the order of VirtualCross.onTouchEvent's tests
\* decides only between neighbours.
THEOREM OppositeArmsDisjoint ==
  ASSUME realSize >= 13, NEW p \in Int \X Int
  PROVE  ~(Left(p) /\ Right(p)) /\ ~(Up(p) /\ Down(p))
<1>1. third \in Int /\ padding \in Int /\ realSize \in Int /\ p[1] \in Int /\ p[2] \in Int
  BY SizeAssumption DEF third, padding
<1>2. realSize <= 4 * third
  BY SizeAssumption DEF third
<1>3. ~(p[1] < realSize - 2 * third /\ 2 * third <= p[1])
  BY <1>1, <1>2
<1>4. ~(p[2] < realSize - 2 * third /\ 2 * third <= p[2])
  BY <1>1, <1>2
<1> QED BY <1>3, <1>4 DEF Left, Right, Up, Down, Contains

\* The hit test always yields a direction or none.
LEMMA DirectionType == \A p : Direction(p) \in Presses
  BY DEF Direction, Presses, Directions

\* Every press and every release of a view keeps its keys and SDL's in step.
LEMMA ButtonKeeps ==
  ASSUME PadInv, NEW b \in Buttons, ButtonPressed(b) \/ ButtonReleased(b)
  PROVE  PadInv'
<1>1. b # Cross /\ b \in Views /\ Cross \in Views /\ b \notin Directions
  BY ButtonsAssumption DEF Views, Cross
<1>2. key_pressed' = key_pressed
  BY DEF ButtonPressed, ButtonReleased
<1>3. CASE ButtonPressed(b)
  BY <1>1, <1>2, <1>3 DEF PadInv, HeldKeysMatchViews, ButtonPressed, Presses
<1>4. CASE ButtonReleased(b)
  BY <1>1, <1>2, <1>4, ButtonsAssumption
  DEF PadInv, HeldKeysMatchViews, ButtonReleased, Presses
<1> QED BY <1>3, <1>4

\* The cross likewise: the direction it releases is the one it pressed.
LEMMA CrossKeeps ==
  ASSUME PadInv, CrossReleased \/ \E key \in Presses : CrossPressed(key)
  PROVE  PadInv'
<1>1. /\ Cross \in Views /\ Buttons \subseteq Views
      /\ Cross \notin Buttons /\ Buttons \cap Presses = {}
  BY ButtonsAssumption DEF Views, Presses
<1>2. CASE CrossReleased
  <2>1. /\ key_pressed' = "none" /\ isPressed' \in [Views -> BOOLEAN]
        /\ ~isPressed'[Cross] /\ \A b \in Buttons : isPressed'[b] = isPressed[b]
    BY <1>1, <1>2 DEF PadInv, CrossReleased
  <2>2. keysDown' = {b \in Buttons : isPressed[b]}
    <3>1. CASE isPressed[Cross]
      <4>1. key_pressed \in Presses
        BY <3>1 DEF PadInv
      <4>2. keysDown = {b \in Buttons : isPressed[b]} \cup ({key_pressed} \ {"none"})
        BY <3>1 DEF PadInv, HeldKeysMatchViews
      <4>3. keysDown' = keysDown \ {key_pressed}
        BY <1>2, <3>1 DEF CrossReleased
      <4> QED BY <1>1, <4>1, <4>2, <4>3
    <3>2. CASE ~isPressed[Cross]
      BY <1>2, <3>2 DEF PadInv, HeldKeysMatchViews, CrossReleased
    <3> QED BY <3>1, <3>2
  <2>3. HeldKeysMatchViews'
    BY <2>1, <2>2 DEF HeldKeysMatchViews
  <2> QED BY <2>1, <2>2, <2>3 DEF PadInv, Presses
<1>3. CASE \E key \in Presses : CrossPressed(key)
  BY <1>1, <1>3 DEF PadInv, HeldKeysMatchViews, CrossPressed, Presses, Directions
<1> QED BY <1>2, <1>3

-----------------------------------------------------------------------------
(***************************************************************************)
(* Touch events.                                                           *)
(***************************************************************************)

\* What Touch does to the fingers.
LEMMA TouchKeeps ==
  ASSUME FingersInv, NEW v \in Views, NEW now \in Seq(Points(v)),
         Len(now) <= MaxFingers, Touch(v, now),
         IF v = Cross THEN now # <<>> => isPressed'[Cross]
                      ELSE isPressed'[Cross] = isPressed[Cross]
  PROVE  FingersInv' /\ fingers'[v] = now /\ \A w \in Views \ {v} : fingers'[w] = fingers[w]
<1>1. /\ DOMAIN fingers' = Views /\ fingers'[v] = now
      /\ \A w \in Views \ {v} : fingers'[w] = fingers[w]
  BY DEF FingersInv, Touch
<1>2. \A w \in Views : fingers'[w] \in Seq(Points(w)) /\ Len(fingers'[w]) <= MaxFingers
  BY <1>1 DEF FingersInv
<1>3. fingers'[Cross] # <<>> => isPressed'[Cross]
  BY <1>1 DEF FingersInv, Views
<1>4. \A w \in Views : Points(w)' = Points(w)
  BY DEF Points
<1> QED BY <1>1, <1>2, <1>3, <1>4 DEF FingersInv

\* Pressing and releasing change isPressed of their own view only.
LEMMA PressEffects ==
  ASSUME PadInv
  PROVE  /\ \A b \in Buttons : ButtonPressed(b) \/ ButtonReleased(b)
              => isPressed'[Cross] = isPressed[Cross]
         /\ \A key : CrossPressed(key) => isPressed'[Cross] = TRUE /\ key_pressed' = key
         /\ Ignored => PadInv' /\ isPressed' = isPressed
<1>1. \A b \in Buttons : b # Cross
  BY ButtonsAssumption
<1>2. Cross \in Views
  BY DEF Views
<1> QED BY <1>1, <1>2 DEF PadInv, ButtonPressed, ButtonReleased, CrossPressed, Ignored,
        HeldKeysMatchViews

\* The first finger presses its view.
LEMMA DownKeeps == ASSUME IInv, NEW v \in Views, ActionDown(v) PROVE IInv'
<1>1. PICK p \in StartPoints(v) :
        /\ Touch(v, <<p>>)
        /\ IF v = Cross THEN CrossPressed(Direction(p)) ELSE ButtonPressed(v)
  BY DEF ActionDown
<1>2. <<p>> \in Seq(Points(v)) /\ Len(<<p>>) <= MaxFingers
  <2>1. p \in Points(v)
    BY DEF StartPoints, Points
  <2> QED BY <2>1, SizeAssumption
<1>3. PadInv' /\ (IF v = Cross THEN isPressed'[Cross] ELSE isPressed'[Cross] = isPressed[Cross])
  BY <1>1, ButtonKeeps, CrossKeeps, DirectionType, PressEffects DEF IInv, Views
<1> QED BY <1>1, <1>2, <1>3, TouchKeeps DEF IInv

\* The last finger releases it.
LEMMA UpKeeps == ASSUME IInv, NEW v \in Views, ActionUp(v) PROVE IInv' /\ ~isPressed'[v]
<1>1. Touch(v, <<>>) /\ IF v = Cross THEN CrossReleased ELSE ButtonReleased(v)
  BY DEF ActionUp
<1>2. PadInv' /\ (v # Cross => isPressed'[Cross] = isPressed[Cross])
  BY <1>1, ButtonKeeps, CrossKeeps, PressEffects DEF IInv, Views
<1>3. <<>> \in Seq(Points(v)) /\ Len(<<>>) <= MaxFingers
  BY SizeAssumption
<1>4. ~isPressed'[v]
  BY <1>1 DEF CrossReleased, ButtonReleased, IInv, PadInv
<1> QED BY <1>1, <1>2, <1>3, <1>4, TouchKeeps DEF IInv

\* A finger that moves leaves the number of fingers as it is; on the cross the
\* direction held afterwards is the one under the head.
LEMMA MoveKeeps ==
  ASSUME IInv, NEW v \in Views, ActionMove(v)
  PROVE  /\ IInv'
         /\ v = Cross => isPressed'[Cross] /\ key_pressed' = Direction(Head(fingers'[Cross]))
<1>1. PICK i \in DOMAIN fingers[v], p \in Points(v) :
        /\ Touch(v, [fingers[v] EXCEPT ![i] = p])
        /\ IF v = Cross
           THEN IF Direction(Head(fingers'[v])) # key_pressed
                THEN CrossPressed(Direction(Head(fingers'[v]))) ELSE Ignored
           ELSE IF Head(fingers'[v]) = "outside" THEN ButtonReleased(v) ELSE Ignored
  BY DEF ActionMove
<1> DEFINE now == [fingers[v] EXCEPT ![i] = p]
<1>2. /\ fingers[v] \in Seq(Points(v)) /\ Len(fingers[v]) <= MaxFingers
      /\ fingers[v] # <<>>
  BY DEF IInv, FingersInv
<1>3. now \in Seq(Points(v)) /\ Len(now) <= MaxFingers /\ now # <<>>
  BY <1>2
<1>4. CASE v = Cross
  <2>1. isPressed[Cross]
    BY <1>2, <1>4 DEF IInv, FingersInv
  <2>2. PadInv' /\ isPressed'[Cross]
    BY <1>1, <1>4, <2>1, CrossKeeps, DirectionType, PressEffects DEF IInv
  <2>3. key_pressed' = Direction(Head(fingers'[Cross]))
    BY <1>1, <1>4, PressEffects DEF IInv, Ignored
  <2>4. FingersInv'
    BY <1>1, <1>3, <1>4, <2>2, TouchKeeps DEF IInv
  <2> QED BY <2>2, <2>3, <2>4 DEF IInv
<1>5. CASE v # Cross
  <2>1. PadInv' /\ isPressed'[Cross] = isPressed[Cross]
    BY <1>1, <1>5, ButtonKeeps, PressEffects DEF IInv, Views
  <2>2. FingersInv'
    BY <1>1, <1>3, <1>5, <2>1, TouchKeeps DEF IInv
  <2> QED BY <1>5, <2>1, <2>2 DEF IInv
<1> QED BY <1>4, <1>5

\* An event the view ignores changes its fingers only.
LEMMA QuietTouch ==
  ASSUME IInv, NEW v \in Views, NEW now \in Seq(Points(v)), Len(now) <= MaxFingers,
         Len(now) # Len(fingers[v]), fingers[v] # <<>>, Touch(v, now), Ignored
  PROVE  IInv' /\ Len(fingers'[v]) # Len(fingers[v])
<1>1. PadInv' /\ isPressed' = isPressed
  BY PressEffects DEF IInv
<1>2. v = Cross => isPressed'[Cross]
  BY <1>1 DEF IInv, FingersInv
<1> QED BY <1>1, <1>2, TouchKeeps DEF IInv

\* A further finger, wherever it is inserted.
LEMMA PointerDownKeeps ==
  ASSUME IInv, NEW v \in Views, ActionPointerDown(v)
  PROVE  IInv' /\ Len(fingers'[v]) # Len(fingers[v])
<1>1. fingers[v] \in Seq(Points(v)) /\ Len(fingers[v]) \in Nat
  BY DEF IInv, FingersInv
<1>2. PICK p \in StartPoints(v) :
        Touch(v, Append(fingers[v], p)) \/ Touch(v, <<p>> \o fingers[v])
  BY DEF ActionPointerDown
<1>3. p \in Points(v)
  BY DEF StartPoints, Points
<1>4. /\ Append(fingers[v], p) \in Seq(Points(v))
      /\ Len(Append(fingers[v], p)) = Len(fingers[v]) + 1
      /\ <<p>> \o fingers[v] \in Seq(Points(v))
      /\ Len(<<p>> \o fingers[v]) = Len(fingers[v]) + 1
  BY <1>1, <1>3
<1>5. /\ Len(fingers[v]) + 1 <= MaxFingers /\ Len(fingers[v]) + 1 # Len(fingers[v])
      /\ fingers[v] # <<>> /\ Ignored
  BY <1>1, SizeAssumption DEF ActionPointerDown
<1>6. CASE Touch(v, Append(fingers[v], p))
  BY <1>4, <1>5, <1>6, QuietTouch
<1>7. CASE Touch(v, <<p>> \o fingers[v])
  BY <1>4, <1>5, <1>7, QuietTouch
<1> QED BY <1>2, <1>6, <1>7

\* One of several fingers lifts: the others close the gap.
LEMMA PointerUpKeeps ==
  ASSUME IInv, NEW v \in Views, ActionPointerUp(v)
  PROVE  IInv' /\ Len(fingers'[v]) # Len(fingers[v])
<1>1. fingers[v] \in Seq(Points(v)) /\ Len(fingers[v]) \in Nat /\ Len(fingers[v]) <= MaxFingers
  BY DEF IInv, FingersInv
<1>2. PICK i \in 1..Len(fingers[v]) :
        Touch(v, SubSeq(fingers[v], 1, i - 1) \o SubSeq(fingers[v], i + 1, Len(fingers[v])))
  BY <1>1 DEF ActionPointerUp
<1> DEFINE before == SubSeq(fingers[v], 1, i - 1)
           after  == SubSeq(fingers[v], i + 1, Len(fingers[v]))
<1>3. before \in Seq(Points(v)) /\ Len(before) = i - 1
  BY <1>1, SubSeqProperties
<1>4. after \in Seq(Points(v)) /\ Len(after) = Len(fingers[v]) - i
  BY <1>1, SubSeqProperties
<1>5. Touch(v, before \o after)
  BY <1>2
<1> HIDE DEF before, after
<1>6. before \o after \in Seq(Points(v)) /\ Len(before \o after) = Len(fingers[v]) - 1
  <2>1. /\ before \o after \in Seq(Points(v))
        /\ Len(before \o after) = Len(before) + Len(after)
    BY <1>3, <1>4, ConcatProperties
  <2>2. i \in Int /\ (i - 1) + (Len(fingers[v]) - i) = Len(fingers[v]) - 1
    BY <1>1
  <2> QED BY <2>1, <2>2, <1>3, <1>4
<1>7. /\ Len(fingers[v]) - 1 <= MaxFingers /\ Len(fingers[v]) - 1 # Len(fingers[v])
      /\ fingers[v] # <<>> /\ Ignored
  BY <1>1, SizeAssumption DEF ActionPointerUp
<1> QED BY <1>5, <1>6, <1>7, QuietTouch

\* A cancelled gesture is no news to the view either.
LEMMA CancelKeeps ==
  ASSUME IInv, NEW v \in Views, ActionCancel(v)
  PROVE  IInv' /\ Len(fingers'[v]) # Len(fingers[v])
<1>1. fingers[v] \in Seq(Points(v)) /\ fingers[v] # <<>> /\ Touch(v, <<>>) /\ Ignored
  BY DEF ActionCancel, IInv, FingersInv
<1>2. <<>> \in Seq(Points(v)) /\ Len(<<>>) <= MaxFingers /\ Len(<<>>) # Len(fingers[v])
  BY <1>1, SizeAssumption
<1> QED BY <1>1, <1>2, QuietTouch

-----------------------------------------------------------------------------
(***************************************************************************)
(* The invariant and what follows from it.                                 *)
(***************************************************************************)

\* Untouched controls hold nothing.
LEMMA InitIInv == Init => IInv
<1> SUFFICES ASSUME Init PROVE IInv
  OBVIOUS
<1>1. Cross \in Views /\ Buttons \subseteq Views
  BY DEF Views
<1>2. PadInv
  BY <1>1 DEF Init, PadInv, HeldKeysMatchViews, Presses
<1>3. FingersInv
  BY <1>1, SizeAssumption DEF Init, FingersInv
<1> QED BY <1>2, <1>3 DEF IInv

\* Every event keeps the invariant.
LEMMA NextKeeps == ASSUME IInv, [Next]_vars PROVE IInv'
<1>1. CASE UNCHANGED vars
  BY <1>1 DEF IInv, PadInv, FingersInv, HeldKeysMatchViews, Points, vars
<1>2. ASSUME NEW v \in Views, OnTouchEvent(v) PROVE IInv'
  BY <1>2, DownKeeps, UpKeeps, MoveKeeps, PointerDownKeeps, PointerUpKeeps, CancelKeeps
  DEF OnTouchEvent
<1> QED BY <1>1, <1>2 DEF Next

\* The invariant holds in every behaviour.
LEMMA Invariance == Spec => []IInv
<1>1. Init => IInv
  BY InitIInv
<1>2. IInv /\ [Next]_vars => IInv'
  BY NextKeeps
<1> QED BY <1>1, <1>2, PTL DEF Spec

\* The views, the fingers and SDL's keys keep to their types.
THEOREM TypeCorrect == Spec => []TypeOK
<1>1. IInv => TypeOK
  BY DEF IInv, PadInv, FingersInv, TypeOK, Presses
<1> QED BY <1>1, Invariance, PTL

\* What SDL takes for held is what the views remember to have pressed, after any
\* sequence of touches, slides, second fingers and cancelled gestures.
THEOREM KeysMatch == Spec => []HeldKeysMatchViews
<1>1. IInv => HeldKeysMatchViews
  BY DEF IInv, PadInv
<1> QED BY <1>1, Invariance, PTL

\* SDL never holds two directions of the cross at once.
THEOREM OneDirectionAtATime == Spec => []OneDirection
<1>1. ASSUME IInv PROVE OneDirection
  <2>1. CASE ~isPressed[Cross] \/ key_pressed = "none"
    <3>1. keysDown \cap Directions = {}
      BY <1>1, <2>1, ButtonsAssumption DEF IInv, PadInv, HeldKeysMatchViews
    <3> QED BY <3>1, FS_EmptySet DEF OneDirection
  <2>2. CASE isPressed[Cross] /\ key_pressed # "none"
    <3>1. keysDown \cap Directions = {key_pressed}
      BY <1>1, <2>2, ButtonsAssumption DEF IInv, PadInv, HeldKeysMatchViews, Presses
    <3> QED BY <3>1, FS_Singleton DEF OneDirection
  <2> QED BY <2>1, <2>2
<1> QED BY <1>1, Invariance, PTL

\* After a finger has moved on the cross, the direction held is the one under
\* the finger at index 0.
THEOREM CrossSteers == Spec => SteersWithFinger
<1>1. ASSUME IInv, Next, Len(fingers[Cross]) > 0,
             Len(fingers'[Cross]) = Len(fingers[Cross]), fingers'[Cross] # fingers[Cross]
      PROVE  keysDown' \cap Directions = {Direction(Head(fingers'[Cross]))} \ {"none"}
  <2>1. PICK v \in Views : OnTouchEvent(v)
    BY <1>1 DEF Next
  <2>2. v = Cross
    BY <1>1, <2>1 DEF OnTouchEvent, ActionDown, ActionUp, ActionMove, ActionPointerDown,
       ActionPointerUp, ActionCancel, Touch, IInv, FingersInv, Views
  <2>3. ActionMove(Cross)
    <3>1. ~(ActionPointerDown(Cross) \/ ActionPointerUp(Cross) \/ ActionCancel(Cross))
      BY <1>1, PointerDownKeeps, PointerUpKeeps, CancelKeeps DEF Views
    <3>2. ~ActionDown(Cross)
      BY <1>1 DEF ActionDown
    <3>3. ~ActionUp(Cross)
      BY <1>1 DEF ActionUp, Touch, IInv, FingersInv, Views
    <3> QED BY <2>1, <2>2, <3>1, <3>2, <3>3 DEF OnTouchEvent
  <2>4. IInv' /\ isPressed'[Cross] /\ key_pressed' = Direction(Head(fingers'[Cross]))
    BY <1>1, <2>3, MoveKeeps DEF Views
  <2>5. key_pressed' \in Presses
    BY <2>4, DirectionType
  <2> QED BY <2>4, <2>5, ButtonsAssumption DEF IInv, PadInv, HeldKeysMatchViews, Presses
<1>2. IInv /\ [Next]_vars
        => [Len(fingers[Cross]) > 0 /\ Len(fingers'[Cross]) = Len(fingers[Cross])
              /\ fingers'[Cross] # fingers[Cross]
            => keysDown' \cap Directions = {Direction(Head(fingers'[Cross]))} \ {"none"}]_vars
  BY <1>1
<1> QED BY <1>2, Invariance, PTL DEF Spec, SteersWithFinger

\* A gesture that ends with the lifting of its last finger leaves no key of its
\* view held.
THEOREM UpReleases == Spec => LiftReleases
<1>1. ASSUME IInv, NEW v \in Views, ActionUp(v)
      PROVE  keysDown' \cap (IF v = Cross THEN Directions ELSE {v}) = {}
  <2>1. PadInv' /\ ~isPressed'[v]
    BY <1>1, UpKeeps DEF IInv
  <2> QED BY <2>1, ButtonsAssumption DEF PadInv, HeldKeysMatchViews, Presses, Views
<1>2. IInv /\ [Next]_vars
        => [\A v \in Views : ActionUp(v)
              => keysDown' \cap (IF v = Cross THEN Directions ELSE {v}) = {}]_vars
  BY <1>1
<1> QED BY <1>2, Invariance, PTL DEF Spec, LiftReleases
=============================================================================

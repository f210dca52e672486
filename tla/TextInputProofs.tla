--------------------------- MODULE TextInputProofs ---------------------------
(***************************************************************************)
(* The C program follows the edited text, for every alphabet and length.   *)
(***************************************************************************)
EXTENDS TextInput, TLAPS

-----------------------------------------------------------------------------
(***************************************************************************)
(* Texts, element by element.                                              *)
(***************************************************************************)

\* Two texts are equal if they have the same length and the same code points.
LEMMA SameText ==
  ASSUME NEW p \in Seq(Chars), NEW q \in Seq(Chars), Len(p) = Len(q),
         \A i \in 1..Len(p) : p[i] = q[i]
  PROVE  p = q
BY SMT

\* The code points of a concatenation.
LEMMA Concat ==
  ASSUME NEW p \in Seq(Chars), NEW q \in Seq(Chars)
  PROVE  /\ p \o q \in Seq(Chars) /\ Len(p \o q) = Len(p) + Len(q)
         /\ \A i \in 1..(Len(p) + Len(q)) :
              (p \o q)[i] = IF i <= Len(p) THEN p[i] ELSE q[i - Len(p)]
BY SMT

\* The code points of a part.
LEMMA Part ==
  ASSUME NEW s \in Seq(Chars), NEW m \in 1..(Len(s) + 1), NEW n \in 0..Len(s), m <= n + 1
  PROVE  /\ SubSeq(s, m, n) \in Seq(Chars) /\ Len(SubSeq(s, m, n)) = n - m + 1
         /\ \A i \in 1..(n - m + 1) : SubSeq(s, m, n)[i] = s[m + i - 1]
BY SMT

\* Of a text and the part that was there before, backspaces over the end of the
\* text leave that part and the head of the text.
LEMMA BackspacedAppend ==
  ASSUME NEW b \in Seq(Chars), NEW s \in Seq(Chars), NEW k \in 0..Len(s)
  PROVE  Backspaced(b \o s, Len(s) - k) = b \o SubSeq(s, 1, k)
<1>1. /\ b \o s \in Seq(Chars) /\ Len(b \o s) = Len(b) + Len(s)
      /\ \A i \in 1..(Len(b) + Len(s)) :
           (b \o s)[i] = IF i <= Len(b) THEN b[i] ELSE s[i - Len(b)]
  BY Concat
<1>. DEFINE all == b \o s
            left == SubSeq(all, 1, Len(b) + k)
            head == SubSeq(s, 1, k)
            right == b \o head
<1>2. Backspaced(all, Len(s) - k) = left
  BY <1>1, SMT DEF Backspaced
<1>3. /\ left \in Seq(Chars) /\ Len(left) = Len(b) + k
      /\ \A i \in 1..(Len(b) + k) : left[i] = all[i]
  <2>. HIDE DEF all
  <2>1. all \in Seq(Chars) /\ Len(b) + k \in 0..Len(all) /\ 1 \in 1..(Len(all) + 1)
    BY <1>1, SMT DEF all
  <2>2. 1 <= Len(b) + k + 1
    BY SMT
  <2>. QED
    BY <2>1, <2>2, Part, SMT
<1>4. /\ head \in Seq(Chars) /\ Len(head) = k
      /\ \A i \in 1..k : head[i] = s[i]
  BY Part, SMT
<1>. HIDE DEF all, left, head
<1>5. /\ right \in Seq(Chars) /\ Len(right) = Len(b) + k
      /\ \A i \in 1..(Len(b) + k) :
           right[i] = IF i <= Len(b) THEN b[i] ELSE head[i - Len(b)]
  BY <1>4, Concat
<1>6. \A i \in 1..(Len(b) + k) : all[i] = IF i <= Len(b) THEN b[i] ELSE s[i - Len(b)]
  BY <1>1, SMT DEF all
<1>. HIDE DEF right
<1>7. \A i \in 1..Len(left) : left[i] = right[i]
  <2>. SUFFICES ASSUME NEW i \in 1..(Len(b) + k) PROVE left[i] = right[i]
    BY <1>3
  <2>0. Len(b) \in Nat /\ Len(s) \in Nat
    BY SMT
  <2>1. left[i] = IF i <= Len(b) THEN b[i] ELSE s[i - Len(b)]
    <3>1. i \in 1..(Len(b) + Len(s))
      BY <2>0, SMT
    <3>. QED
      BY <1>3, <1>6, <3>1
  <2>2. right[i] = IF i <= Len(b) THEN b[i] ELSE head[i - Len(b)]
    BY <1>5
  <2>3. CASE i <= Len(b)
    BY <2>1, <2>2, <2>3
  <2>4. CASE ~(i <= Len(b))
    <3>1. i - Len(b) \in 1..k
      BY <2>0, <2>4, SMT
    <3>. QED
      BY <1>4, <2>1, <2>2, <2>4, <3>1
  <2>. QED
    BY <2>3, <2>4
<1>8. left = right
  BY <1>3, <1>5, <1>7, SameText
<1>. QED
  BY <1>2, <1>8 DEF all, right, head

\* The text b, the head of s of length k and the rest of t.
Rebuilt(b, s, t, k) == (b \o SubSeq(s, 1, k)) \o SubSeq(t, k + 1, Len(t))

\* A common head of two texts followed by the rest of the second is the second.
LEMMA HeadAndRest ==
  ASSUME NEW b \in Seq(Chars), NEW s \in Seq(Chars), NEW t \in Seq(Chars),
         NEW k \in 0..Len(t), IsMatchLength(k, s, t)
  PROVE  Rebuilt(b, s, t, k) = b \o t
<1>1. k \in 0..Len(s) /\ \A i \in 1..k : s[i] = t[i]
  BY SMT DEF IsMatchLength
<1>. DEFINE head == SubSeq(s, 1, k)
            rest == SubSeq(t, k + 1, Len(t))
            p == b \o head
            left == p \o rest
            right == b \o t
<1>2. /\ head \in Seq(Chars) /\ Len(head) = k
      /\ \A i \in 1..k : head[i] = t[i]
  BY <1>1, Part, SMT
<1>3. /\ rest \in Seq(Chars) /\ Len(rest) = Len(t) - k
      /\ \A i \in 1..(Len(t) - k) : rest[i] = t[k + i]
  <2>1. k + 1 \in 1..(Len(t) + 1) /\ Len(t) \in 0..Len(t) /\ k + 1 <= Len(t) + 1
    BY SMT
  <2>2. /\ rest \in Seq(Chars) /\ Len(rest) = Len(t) - (k + 1) + 1
        /\ \A i \in 1..(Len(t) - (k + 1) + 1) : rest[i] = t[(k + 1) + i - 1]
    BY <2>1, Part
  <2>. HIDE DEF rest
  <2>. QED
    BY <2>2, SMT
<1>. HIDE DEF head, rest
<1>4. /\ p \in Seq(Chars) /\ Len(p) = Len(b) + k
      /\ \A i \in 1..(Len(b) + k) : p[i] = IF i <= Len(b) THEN b[i] ELSE head[i - Len(b)]
  BY <1>2, Concat
<1>. HIDE DEF p
<1>5. /\ left \in Seq(Chars) /\ Len(left) = Len(p) + Len(rest)
      /\ \A i \in 1..(Len(p) + Len(rest)) :
           left[i] = IF i <= Len(p) THEN p[i] ELSE rest[i - Len(p)]
  BY <1>3, <1>4, Concat
<1>6. /\ right \in Seq(Chars) /\ Len(right) = Len(b) + Len(t)
      /\ \A i \in 1..(Len(b) + Len(t)) :
           right[i] = IF i <= Len(b) THEN b[i] ELSE t[i - Len(b)]
  BY Concat
<1>. HIDE DEF left, right
<1>7. Len(left) = Len(right)
  BY <1>3, <1>4, <1>5, <1>6, SMT
<1>8. \A i \in 1..Len(left) : left[i] = right[i]
  <2>. SUFFICES ASSUME NEW i \in 1..Len(left) PROVE left[i] = right[i]
    OBVIOUS
  <2>0. Len(b) \in Nat /\ Len(t) \in Nat /\ i \in Nat
    <3>1. Len(left) \in Nat
      BY <1>5, SMT
    <3>. QED
      BY <3>1, SMT
  <2>1. left[i] = IF i <= Len(b) + k THEN p[i] ELSE rest[i - (Len(b) + k)]
    BY <1>4, <1>5
  <2>2. right[i] = IF i <= Len(b) THEN b[i] ELSE t[i - Len(b)]
    BY <1>6, <1>7
  <2>3. CASE i <= Len(b)
    <3>1. i <= Len(b) + k /\ i \in 1..(Len(b) + k)
      BY <2>0, <2>3, SMT
    <3>. QED
      BY <1>4, <2>1, <2>2, <2>3, <3>1
  <2>4. CASE ~(i <= Len(b)) /\ i <= Len(b) + k
    <3>1. i \in 1..(Len(b) + k) /\ i - Len(b) \in 1..k
      BY <2>0, <2>4, SMT
    <3>. QED
      BY <1>2, <1>4, <2>1, <2>2, <2>4, <3>1
  <2>5. CASE ~(i <= Len(b) + k)
    <3>1. i - (Len(b) + k) \in 1..(Len(t) - k) /\ ~(i <= Len(b))
      BY <1>6, <1>7, <2>0, <2>5, SMT
    <3>2. rest[i - (Len(b) + k)] = t[k + (i - (Len(b) + k))]
      BY <1>3, <3>1
    <3>3. k + (i - (Len(b) + k)) = i - Len(b)
      BY <2>0, SMT
    <3>. QED
      BY <2>1, <2>2, <2>5, <3>1, <3>2, <3>3
  <2>. QED
    BY <2>3, <2>4, <2>5
<1>9. left = right
  BY <1>5, <1>6, <1>7, <1>8, SameText
<1>. QED
  BY <1>9 DEF left, right, p, head, rest, Rebuilt
-----------------------------------------------------------------------------
(***************************************************************************)
(* The specification.                                                      *)
(***************************************************************************)

\* While it is in use, the connection remembers exactly what it has sent.
Remembers ==
  shown /\ ~swallowed /\ ~erased => mCommittedText = content /\ appText = base \o content

\* The empty text is a text.
LEMMA EmptyText == <<>> \in Seq(Chars)
BY SMT

\* What is left after backspaces is a text.
LEMMA BackspacedTyping ==
  ASSUME NEW s \in Seq(Chars), NEW n \in Nat
  PROVE  Backspaced(s, n) \in Seq(Chars)
BY SMT DEF Backspaced

\* Every step keeps the types: the C program is only ever sent code points of the
\* edited text.
THEOREM TypeCorrect == Spec => []TypeOK
<1>1. Init => TypeOK
  BY EmptyText DEF Init, TypeOK
<1>2. TypeOK /\ [Next]_vars => TypeOK'
  <2>. SUFFICES ASSUME TypeOK, [Next]_vars PROVE TypeOK'
    OBVIOUS
  <2>1. ASSUME NEW text \in Texts, NEW taken \in BOOLEAN, Edit(text, taken)
        PROVE  TypeOK'
    <3>1. text \in Seq(Chars)
      BY SMT DEF Texts
    <3>2. PICK k \in 0..Len(text) :
            /\ IsMatchLength(k, mCommittedText, text)
            /\ IF taken /\ \E i \in 1..Len(SubSeq(text, k + 1, Len(text))) :
                             SubSeq(text, k + 1, Len(text))[i] = Return
               THEN /\ appText' = Backspaced(appText, Len(mCommittedText) - k)
                    /\ swallowed' = TRUE /\ UNCHANGED mCommittedText
               ELSE /\ appText' = Backspaced(appText, Len(mCommittedText) - k)
                                    \o SubSeq(text, k + 1, Len(text))
                    /\ mCommittedText' = text /\ UNCHANGED swallowed
      BY <2>1 DEF Edit, UpdateText
    <3>3. Len(mCommittedText) - k \in Nat
      BY <3>1, <3>2, SMT DEF IsMatchLength, TypeOK
    <3>4. Backspaced(appText, Len(mCommittedText) - k) \in Seq(Chars)
      BY <3>3, BackspacedTyping DEF TypeOK
    <3>5. SubSeq(text, k + 1, Len(text)) \in Seq(Chars)
      BY <3>1, <3>2, SMT
    <3>6. Backspaced(appText, Len(mCommittedText) - k) \o SubSeq(text, k + 1, Len(text))
            \in Seq(Chars)
      BY <3>4, <3>5, Concat
    <3>7. appText' \in Seq(Chars) /\ mCommittedText' \in Seq(Chars) /\ swallowed' \in BOOLEAN
      BY <3>1, <3>2, <3>4, <3>6 DEF TypeOK
    <3>. QED
      BY <2>1, <3>1, <3>7 DEF Edit, TypeOK
  <2>2. ASSUME Show PROVE TypeOK'
    BY <2>2, EmptyText DEF Show, TypeOK
  <2>3. ASSUME Hide PROVE TypeOK'
    BY <2>3 DEF Hide, TypeOK
  <2>4. ASSUME DeleteKey PROVE TypeOK'
    <3>1. Backspaced(appText, 1) \in Seq(Chars)
      BY BackspacedTyping, SMT DEF TypeOK
    <3>. QED
      BY <2>4, <3>1 DEF DeleteKey, TypeOK
  <2>5. ASSUME NEW c \in Chars, KeyOnSurface(c) PROVE TypeOK'
    <3>1. Append(appText, c) \in Seq(Chars)
      BY SMT DEF TypeOK
    <3>. QED
      BY <2>5, <3>1 DEF KeyOnSurface, TypeOK
  <2>6. CASE UNCHANGED vars
    BY <2>6 DEF vars, TypeOK
  <2>. QED
    BY <2>1, <2>2, <2>3, <2>4, <2>5, <2>6 DEF Next
<1>. QED
  BY <1>1, <1>2, PTL DEF Spec

\* The step: updateText sends what leads from the committed text to the edited one.
LEMMA RemembersStep ==
  TypeOK /\ TypeOK' /\ Remembers /\ [Next]_vars => Remembers'
<1>. SUFFICES ASSUME TypeOK, TypeOK', Remembers, [Next]_vars PROVE Remembers'
  OBVIOUS
<1>1. ASSUME NEW text \in Texts, NEW taken \in BOOLEAN, Edit(text, taken)
      PROVE  Remembers'
  <2>. SUFFICES ASSUME shown', ~swallowed', ~erased'
                PROVE  mCommittedText' = content' /\ appText' = base' \o content'
    BY DEF Remembers
  <2>1. text \in Seq(Chars)
    BY SMT DEF Texts
  <2>2. PICK k \in 0..Len(text) :
          /\ IsMatchLength(k, mCommittedText, text)
          /\ IF taken /\ \E i \in 1..Len(SubSeq(text, k + 1, Len(text))) :
                           SubSeq(text, k + 1, Len(text))[i] = Return
             THEN /\ appText' = Backspaced(appText, Len(mCommittedText) - k)
                  /\ swallowed' = TRUE /\ UNCHANGED mCommittedText
             ELSE /\ appText' = Backspaced(appText, Len(mCommittedText) - k)
                                  \o SubSeq(text, k + 1, Len(text))
                  /\ mCommittedText' = text /\ UNCHANGED swallowed
    BY <1>1 DEF Edit, UpdateText
  <2>3. /\ appText' = Backspaced(appText, Len(mCommittedText) - k)
                        \o SubSeq(text, k + 1, Len(text))
        /\ mCommittedText' = text /\ ~swallowed
    BY <2>2
  <2>4. content' = text /\ base' = base /\ shown /\ ~erased
    BY <1>1 DEF Edit
  <2>5. mCommittedText = content /\ appText = base \o mCommittedText
    BY <2>3, <2>4 DEF Remembers
  <2>6. k \in 0..Len(mCommittedText)
    BY <2>1, <2>2, SMT DEF IsMatchLength, TypeOK
  <2>7. Backspaced(appText, Len(mCommittedText) - k) = base \o SubSeq(mCommittedText, 1, k)
    BY <2>5, <2>6, BackspacedAppend DEF TypeOK
  <2>8. Rebuilt(base, mCommittedText, text, k) = base \o text
    <3>1. base \in Seq(Chars) /\ mCommittedText \in Seq(Chars)
      BY DEF TypeOK
    <3>2. IsMatchLength(k, mCommittedText, text)
      BY <2>2
    <3>. QED
      BY <2>1, <3>1, <3>2, HeadAndRest, Zenon
  <2>9. appText' = base \o text
    BY <2>3, <2>7, <2>8, Zenon DEF Rebuilt
  <2>. QED
    BY <2>3, <2>4, <2>9
<1>2. ASSUME Show PROVE Remembers'
  <2>1. appText \o <<>> = appText
    BY SMT DEF TypeOK
  <2>. QED
    BY <1>2, <2>1 DEF Show, Remembers
<1>3. ASSUME Hide PROVE Remembers'
  BY <1>3 DEF Hide, Remembers
<1>4. ASSUME DeleteKey PROVE Remembers'
  BY <1>4 DEF DeleteKey, Remembers, TypeOK
<1>5. ASSUME NEW c \in Chars, KeyOnSurface(c) PROVE Remembers'
  BY <1>5 DEF KeyOnSurface, Remembers
<1>6. CASE UNCHANGED vars
  BY <1>6 DEF vars, Remembers
<1>. QED
  BY <1>1, <1>2, <1>3, <1>4, <1>5, <1>6 DEF Next

\* The text of the C program is always the text before the connection followed by
\* the edited text, unless a soft return was taken or a delete key went by.
THEOREM AlwaysSynced == Spec => []Synced
<1>1. Init => Remembers
  BY DEF Init, Remembers
<1>2. Remembers => Synced
  BY DEF Remembers, Synced
<1>. QED
  BY <1>1, <1>2, RemembersStep, TypeCorrect, PTL DEF Spec

\* A text starts with the part that was there before.
LEMMA StartsWith ==
  ASSUME NEW b \in Seq(Chars), NEW s \in Seq(Chars)
  PROVE  Len(b \o s) >= Len(b) /\ SubSeq(b \o s, 1, Len(b)) = b
<1>. DEFINE all == b \o s
            head == SubSeq(all, 1, Len(b))
<1>1. /\ all \in Seq(Chars) /\ Len(all) = Len(b) + Len(s)
      /\ \A i \in 1..(Len(b) + Len(s)) : all[i] = IF i <= Len(b) THEN b[i] ELSE s[i - Len(b)]
  BY Concat
<1>. HIDE DEF all
<1>2. Len(b) \in Nat /\ Len(s) \in Nat
  BY SMT
<1>3. Len(b) \in 0..Len(all) /\ 1 \in 1..(Len(all) + 1) /\ 1 <= Len(b) + 1
  BY <1>1, <1>2, SMT
<1>4. /\ head \in Seq(Chars) /\ Len(head) = Len(b) - 1 + 1
      /\ \A i \in 1..(Len(b) - 1 + 1) : head[i] = all[1 + i - 1]
  BY <1>1, <1>3, Part
<1>. HIDE DEF head
<1>5. Len(head) = Len(b) /\ \A i \in 1..Len(head) : head[i] = b[i]
  BY <1>1, <1>2, <1>4, SMT
<1>6. head = b
  BY <1>4, <1>5, SameText
<1>7. Len(all) >= Len(b)
  BY <1>1, <1>2, SMT
<1>. QED
  BY <1>6, <1>7 DEF all, head

\* Not even the backspaces of an update that a soft return cuts short reach the
\* text from before the connection.
THEOREM StaysInside == Spec => EditsStayInside
<1>1. TypeOK /\ Remembers /\ [Next]_vars
        => [shown /\ shown' /\ ~swallowed /\ ~erased /\ ~erased'
              => Len(appText') >= Len(base) /\ SubSeq(appText', 1, Len(base)) = base]_vars
  <2>. SUFFICES ASSUME TypeOK, Remembers, [Next]_vars, shown, shown',
                       ~swallowed, ~erased, ~erased'
                PROVE  Len(appText') >= Len(base) /\ SubSeq(appText', 1, Len(base)) = base
    OBVIOUS
  <2>0. /\ mCommittedText = content /\ appText = base \o mCommittedText
        /\ base \in Seq(Chars) /\ mCommittedText \in Seq(Chars)
    BY DEF Remembers, TypeOK
  <2>1. ASSUME NEW text \in Texts, NEW taken \in BOOLEAN, Edit(text, taken)
        PROVE  \E s \in Seq(Chars) : appText' = base \o s
    <3>1. text \in Seq(Chars)
      BY SMT DEF Texts
    <3>2. PICK k \in 0..Len(text) :
            /\ IsMatchLength(k, mCommittedText, text)
            /\ \/ appText' = Backspaced(appText, Len(mCommittedText) - k)
               \/ appText' = Backspaced(appText, Len(mCommittedText) - k)
                               \o SubSeq(text, k + 1, Len(text))
      BY <2>1 DEF Edit, UpdateText
    <3>3. k \in 0..Len(mCommittedText)
      BY <2>0, <3>1, <3>2, SMT DEF IsMatchLength
    <3>4. Backspaced(appText, Len(mCommittedText) - k) = base \o SubSeq(mCommittedText, 1, k)
      BY <2>0, <3>3, BackspacedAppend
    <3>5. Rebuilt(base, mCommittedText, text, k) = base \o text
      <4>1. IsMatchLength(k, mCommittedText, text)
        BY <3>2
      <4>2. base \in Seq(Chars) /\ mCommittedText \in Seq(Chars)
        BY <2>0
      <4>. QED
        BY <3>1, <4>1, <4>2, HeadAndRest, Zenon
    <3>6. SubSeq(mCommittedText, 1, k) \in Seq(Chars)
      BY <2>0, <3>3, SMT
    <3>7. \/ appText' = base \o SubSeq(mCommittedText, 1, k)
          \/ appText' = base \o text
      BY <3>2, <3>4, <3>5, Zenon DEF Rebuilt
    <3>. QED
      BY <3>1, <3>6, <3>7, Zenon
  <2>2. ~Show /\ ~Hide /\ ~DeleteKey /\ \A c \in Chars : ~KeyOnSurface(c)
    BY DEF Show, Hide, DeleteKey, KeyOnSurface
  <2>3. UNCHANGED vars => \E s \in Seq(Chars) : appText' = base \o s
    BY <2>0 DEF vars
  <2>4. \E s \in Seq(Chars) : appText' = base \o s
    BY <2>1, <2>2, <2>3 DEF Next
  <2>. QED
    BY <2>0, <2>4, StartsWith
<1>2. Spec => []Remembers
  <2>1. Init => Remembers
    BY DEF Init, Remembers
  <2>. QED
    BY <2>1, RemembersStep, TypeCorrect, PTL DEF Spec
<1>. QED
  BY <1>1, <1>2, TypeCorrect, PTL DEF Spec, EditsStayInside
=============================================================================

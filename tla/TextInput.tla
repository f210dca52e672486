------------------------------ MODULE TextInput ------------------------------
(***************************************************************************)
(* SDLInputConnection: an input method edits the text of an invisible      *)
(* EditText in any way it likes, and after every edit updateText turns the *)
(* difference to mCommittedText into what the C program understands,       *)
(* backspaces and new text.  Keys that reach the program past the          *)
(* connection are here, too.                                               *)
(*                                                                         *)
(* The C program (external) keeps the text it was sent; a text is a        *)
(* sequence of code points.                                                *)
(***************************************************************************)
EXTENDS Integers, Sequences

CONSTANTS
  Chars,       \* code points
  Return,      \* the one that stands for the soft return key
  MaxLength    \* bound: length of the edited text, and of the text before it

ASSUME CharsAssumption  == Return \in Chars
ASSUME LengthAssumption == MaxLength \in Nat

VARIABLES
  content,         \* the text of mEditText
  mCommittedText,
  appText,         \* the text of the C program
  base,            \* history: appText when the connection was made
  shown,           \* mTextEdit has the focus and its connection is in use
  swallowed,       \* history: a soft return cut an update of the connection short
  erased           \* history: a delete key reached the program past the connection

vars == <<content, mCommittedText, appText, base, shown, swallowed, erased>>

TypeOK ==
  /\ content \in Seq(Chars) /\ mCommittedText \in Seq(Chars)
  /\ appText \in Seq(Chars) /\ base \in Seq(Chars)
  /\ shown \in BOOLEAN /\ swallowed \in BOOLEAN /\ erased \in BOOLEAN

Init ==
  /\ content = <<>> /\ mCommittedText = <<>> /\ appText = <<>> /\ base = <<>>
  /\ shown = FALSE /\ swallowed = FALSE /\ erased = FALSE

-----------------------------------------------------------------------------
(***************************************************************************)
(* updateText.                                                             *)
(***************************************************************************)

\* The first k code points of both texts are the same, and no more.
IsMatchLength(k, s, t) ==
  /\ k <= Len(s) /\ k <= Len(t)
  /\ \A i \in 1..k : s[i] = t[i]
  /\ k < Len(s) /\ k < Len(t) => s[k + 1] # t[k + 1]

\* The program's text after n backspaces.
Backspaced(s, n) == SubSeq(s, 1, IF n <= Len(s) THEN Len(s) - n ELSE 0)

\* taken: onNativeSoftReturnKey returns true.  Then updateText returns at once,
\* after the backspaces, and leaves mCommittedText as it was.
UpdateText(text, taken) ==
  \E matchLength \in 0..Len(text) :
    LET kept    == Backspaced(appText, Len(mCommittedText) - matchLength)
        pending == SubSeq(text, matchLength + 1, Len(text))
    IN /\ IsMatchLength(matchLength, mCommittedText, text)
       /\ IF taken /\ \E i \in 1..Len(pending) : pending[i] = Return
          THEN /\ appText' = kept /\ swallowed' = TRUE
               /\ UNCHANGED mCommittedText
          ELSE /\ appText' = kept \o pending /\ mCommittedText' = text
               /\ UNCHANGED swallowed

\* commitText, setComposingText, deleteSurroundingText, or a printing key: the
\* edit, then updateText.
Edit(text, taken) ==
  /\ shown /\ Len(text) <= MaxLength
  /\ content' = text
  /\ UpdateText(text, taken)
  /\ UNCHANGED <<base, shown, erased>>

-----------------------------------------------------------------------------
(***************************************************************************)
(* The connection, and the keys that pass it by.                           *)
(***************************************************************************)

\* Mutant of Show: the new connection takes over mCommittedText.
ShowKeepsCommitted ==
  /\ ~shown /\ Len(appText) <= MaxLength
  /\ shown' = TRUE
  /\ content' = <<>> /\ base' = appText
  /\ swallowed' = FALSE /\ erased' = FALSE
  /\ UNCHANGED <<mCommittedText, appText>>

\* ShowTextInputTask moves the focus to mTextEdit, and the framework asks for an
\* input connection: a new one, with an empty text.
Show ==
  /\ ~shown /\ Len(appText) <= MaxLength
  /\ shown' = TRUE
  /\ content' = <<>> /\ mCommittedText' = <<>> /\ base' = appText
  /\ swallowed' = FALSE /\ erased' = FALSE
  /\ UNCHANGED appText

\* COMMAND_TEXTEDIT_HIDE gives the focus back to the surface.
Hide ==
  /\ shown /\ shown' = FALSE
  /\ UNCHANGED <<content, mCommittedText, appText, base, swallowed, erased>>

\* Mutant of KeyOnSurface: keys that print nothing are committed, too.
UnprintedKeyOnSurface(c) ==
  /\ ~shown /\ Len(appText) < MaxLength
  /\ appText' = Append(appText, 0)
  /\ UNCHANGED <<content, mCommittedText, base, shown, swallowed, erased>>

\* handleKeyEvent on the surface (no connection): nativeCommitText, at once.
KeyOnSurface(c) ==
  /\ ~shown /\ Len(appText) < MaxLength
  /\ appText' = Append(appText, c)
  /\ UNCHANGED <<content, mCommittedText, base, shown, swallowed, erased>>

\* The delete key prints nothing: handleKeyEvent passes it on as a key, and the
\* EditText does not hear of it.
DeleteKey ==
  /\ appText' = Backspaced(appText, 1)
  /\ erased' = (erased \/ shown)
  /\ UNCHANGED <<content, mCommittedText, base, shown, swallowed>>

\* What an input method may leave in the EditText.
Texts == UNION {[1..n -> Chars] : n \in 0..MaxLength}

Next ==
  \/ \E text \in Texts, taken \in BOOLEAN : Edit(text, taken)
  \/ Show \/ Hide \/ DeleteKey
  \/ \E c \in Chars : KeyOnSurface(c)

Spec == Init /\ [][Next]_vars

-----------------------------------------------------------------------------
\* However the input method edits, the C program's text is what it was before the
\* connection followed by the edited text: no character is lost, doubled or
\* deleted twice, unless a soft return was taken or a delete key pressed since.
Synced ==
  shown /\ ~swallowed /\ ~erased => appText = base \o content

\* An edit never reaches behind the connection: what the C program had before is
\* still there, on the same condition.
EditsStayInside ==
  [][shown /\ shown' /\ ~swallowed /\ ~erased /\ ~erased'
       => Len(appText') >= Len(base) /\ SubSeq(appText', 1, Len(base)) = base]_vars
=============================================================================

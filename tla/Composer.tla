------------------------------ MODULE Composer ------------------------------
(***************************************************************************)
(* What a user may expect of an input method: a text is composed in sight, *)
(* and what an application receives is either exactly the text that was in *)
(* sight or, with nothing composed, a full-width space.                    *)
(***************************************************************************)
EXTENDS Sequences

CONSTANTS
  Texts,   \* the texts that can be shown or committed
  Space    \* the text committed by the space bar alone

VARIABLES
  preedit,   \* the text the user sees being composed
  committed  \* the text the last step gave to the application, if any

vars == <<preedit, committed>>

Init == preedit = <<>> /\ committed = <<>>

\* Typing, deleting, converting, choosing.
Compose ==
  /\ preedit' \in Texts
  /\ committed' = <<>>

\* Commit the text in sight; the key may start a new text.
Commit ==
  /\ preedit # <<>>
  /\ committed' = preedit
  /\ preedit' \in Texts

CommitSpace ==
  /\ preedit = <<>>
  /\ committed' = Space
  /\ UNCHANGED preedit

Next == Compose \/ Commit \/ CommitSpace

Spec == Init /\ [][Next]_vars
=============================================================================

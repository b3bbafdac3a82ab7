------------------------------ MODULE FcitxIme ------------------------------
(***************************************************************************)
(* The fcitx input method of senn: the state machine of                    *)
(* senn/src/fcitx/im/immutable/{process-input,select-candidate}.lisp over  *)
(* the states of senn/src/fcitx/im/state/, held by the mutable object of   *)
(* senn/src/fcitx/im/mutable.lisp.  Every request answers with whether the *)
(* key was consumed and with the view the front-end is to show; a request  *)
(* that answers no view leaves the state alone.                            *)
(*                                                                         *)
(* A text is a sequence of strings shown, or committed, side by side.  The *)
(* position of the cursor in a view is a byte offset; it is given here by  *)
(* the string left of the cursor, whose length in bytes it is.             *)
(***************************************************************************)
EXTENDS Converting

CONSTANTS
  TypedChar,  \* the printable characters on the keyboard, all but space
  FullSpace   \* the full-width space

ASSUME ImeAssumption == TypedChar \subseteq Char /\ FullSpace \in Char

VARIABLES
  state,  \* ime-state
  reply   \* the answer to the last request

imeVars == <<state, reply>>

-----------------------------------------------------------------------------
(* Keys (senn/src/fcitx/keys.lisp).                                        *)

SpecialKey == {"space", "backspace", "enter", "left", "up", "right", "down",
               "f7", "tab", "other"}

Mod == {"none", "ctrl", "super"}

Key == [sym : TypedChar \cup SpecialKey, mod : Mod]

CharP(key) == key.sym \in TypedChar

-----------------------------------------------------------------------------
(* States.                                                                 *)

KatakanaState == [kind : {"katakana"}, input : Strings]

SelectingState == [kind : {"selecting"}, predictions : Seq(String), index : Nat]

State == InputtingState \cup ConvertingState \cup KatakanaState \cup SelectingState

\* The indices of a state are positions of the lists they index.
IndicesIn(s) ==
  /\ s.kind = "inputting" => s.buffer.cursor \in 0..Len(s.buffer.string)
  /\ s.kind = "selecting" => s.index \in 0..(Len(s.predictions) - 1)
  /\ s.kind = "converting" =>
       /\ s.current \in 0..(Len(s.segments) - 1)
       /\ \A k \in 1..Len(s.segments) :
            s.segments[k].index \in 0..(Len(s.segments[k].candidates) - 1)

CurrentPrediction(s) == s.predictions[s.index + 1]

Selecting(predictions, i) ==
  [kind |-> "selecting", predictions |-> predictions, index |-> i]

\* state-move! stays in the list.
SelectingMove(s, diff) ==
  IF s.index + diff \in 0..(Len(s.predictions) - 1)
  THEN [s EXCEPT !.index = @ + diff]
  ELSE s

-----------------------------------------------------------------------------
(* Views.                                                                  *)

NoView == [kind |-> "none"]

View ==
  {NoView}
    \cup [kind : {"editing"}, before : Text, input : Text,
          predictions : Seq(String), index : Int, committed : Text]
    \cup [kind : {"converting"}, forms : Text, current : Nat,
          candidates : Seq(String), index : Int]

\* inputting:editing-view, after committing a text.
CommittingView(s, committed) ==
  [kind |-> "editing",
   before |-> Shown(Before(s.buffer)), input |-> Shown(s.buffer.string),
   predictions |-> s.predictions, index |-> -1, committed |-> committed]

InputtingView(s) == CommittingView(s, <<>>)

KatakanaView(s) ==
  [kind |-> "editing", before |-> Shown(s.input), input |-> Shown(s.input),
   predictions |-> <<>>, index |-> -1, committed |-> <<>>]

SelectingView(s) ==
  [kind |-> "editing",
   before |-> Shown(CurrentPrediction(s)), input |-> Shown(CurrentPrediction(s)),
   predictions |-> s.predictions, index |-> s.index, committed |-> <<>>]

\* The candidates of the current segment are shown once they have been
\* asked for, and never while the segment shows katakana.
ConvertingView(s) ==
  LET seg == CurrentSegment(s)
  IN  [kind |-> "converting", forms |-> CurrentForms(s), current |-> s.current,
       candidates |-> IF seg.katakana \/ seg.hasMore THEN <<>> ELSE seg.candidates,
       index |-> IF seg.katakana THEN -1 ELSE seg.index]

\* The view of a state: what its user is shown when nothing is committed.
StateView(s) ==
  CASE s.kind = "inputting"  -> InputtingView(s)
    [] s.kind = "converting" -> ConvertingView(s)
    [] s.kind = "katakana"   -> KatakanaView(s)
    [] s.kind = "selecting"  -> SelectingView(s)

-----------------------------------------------------------------------------
(* Answers.                                                                *)

Reply == [consumed : BOOLEAN, view : View]

\* resp with a view and a state.
Respond(view, s) ==
  /\ reply' = [consumed |-> TRUE, view |-> view]
  /\ state' = s

\* resp with a view alone, where the view is that of the state kept.
Swallow(view) == Respond(view, state)

\* resp with nil: the key is left to the application.
Pass ==
  /\ reply' = [consumed |-> FALSE, view |-> NoView]
  /\ UNCHANGED state

\* Commit a text and start over with the state s.
CommitTo(text, s) == Respond(CommittingView(s, text), s)

Commit(text) == CommitTo(text, EmptyInputting)

-----------------------------------------------------------------------------
(* katakana:state: only Enter leaves it.                                   *)

KatakanaKey(key) ==
  /\ state.kind = "katakana"
  /\ IF key.sym = "enter" THEN Commit(Shown(state.input)) ELSE Swallow(KatakanaView(state))

-----------------------------------------------------------------------------
(* selecting-from-predictions:state.                                       *)

SelectingKey(key) ==
  /\ state.kind = "selecting"
  /\ \/ /\ key.sym = "enter"
        /\ Commit(Shown(CurrentPrediction(state)))
     \/ /\ key.sym \in {"tab", "down"}
        /\ Respond(SelectingView(SelectingMove(state, 1)), SelectingMove(state, 1))
     \/ /\ key.sym = "up"
        /\ Respond(SelectingView(SelectingMove(state, -1)), SelectingMove(state, -1))
     \/ /\ key.sym \notin {"enter", "tab", "down", "up"}
        /\ Swallow(SelectingView(state))

-----------------------------------------------------------------------------
(* converting:state.  Modifier keys are not looked at.                     *)

\* The outcome of a key is a new conversion, shown at once.
Convert(s) == Respond(ConvertingView(s), s)

ConvertingSegmentMove(key) ==
  \/ key.sym = "left" /\ Convert(SegmentMove(state, -1))
  \/ key.sym = "right" /\ Convert(SegmentMove(state, 1))

\* The engine is asked for the pronunciation of the current segment; what it
\* answers only matters when it has not been asked before.
ConvertingCandidate(key) ==
  \E answer \in CandidateLists(CurrentSegment(state).pron) :
    LET asked == TakeFirst(answer, MaxCandidateCount)
    IN  \/ key.sym \in {"space", "down"} /\ Convert(CandidatesMove(state, 1, asked))
        \/ key.sym = "up" /\ Convert(CandidatesMove(state, -1, asked))

ConvertingKatakana(key) == key.sym = "f7" /\ Convert(CurrentKatakana(state))

\* Back to the text that was converted, with the cursor at its end.
ConvertingBackspace(key) ==
  LET s == InputtingWith([string |-> state.pron, cursor |-> Len(state.pron)], <<>>)
  IN  key.sym = "backspace" /\ Respond(InputtingView(s), s)

\* A character commits the conversion and starts the next text; the
\* predictor is not asked about it.
ConvertingChar(key) ==
  LET buffer == InsertChar(EmptyBuffer, key.sym)
  IN  /\ CharP(key)
      /\ Fits(buffer.string)
      /\ CommitTo(CurrentForms(state), InputtingWith(buffer, <<>>))

\* The commit of the text as it was typed.
ConvertingCommitPron(key) ==
  /\ key.sym \in {"enter", "tab", "other"}
  /\ Commit(Shown(state.pron))

ConvertingCommit(key) ==
  /\ key.sym \in {"enter", "tab", "other"}
  /\ Commit(CurrentForms(state))

ConvertingKey(key) ==
  /\ state.kind = "converting"
  /\ \/ ConvertingSegmentMove(key)
     \/ ConvertingCandidate(key)
     \/ ConvertingKatakana(key)
     \/ ConvertingBackspace(key)
     \/ ConvertingChar(key)
     \/ ConvertingCommit(key)

-----------------------------------------------------------------------------
(* inputting:state.                                                        *)

\* Super is never handled; with Ctrl the key is kept from the application
\* while something is being composed.
InputtingModified(key) ==
  \/ key.mod = "super" /\ Pass
  \/ key.mod = "ctrl" /\ IF BufferEmpty(state) THEN Pass ELSE Swallow(InputtingView(state))

Edit(s) == Respond(InputtingView(s), s)

InputtingTab(key) ==
  /\ key.sym = "tab"
  /\ IF state.predictions = <<>>
     THEN Pass
     ELSE LET s == Selecting(state.predictions, 0) IN Respond(SelectingView(s), s)

InputtingChar(key) ==
  /\ CharP(key)
  /\ Fits(InsertChar(state.buffer, key.sym).string)
  /\ Edit(InputtingInsert(state, key.sym))

InputtingF7(key) ==
  /\ key.sym = "f7"
  /\ ~BufferEmpty(state)
  /\ LET s == [kind |-> "katakana", input |-> ToKatakana(state.buffer.string)]
     IN  Respond(KatakanaView(s), s)

InputtingSpace(key) ==
  /\ key.sym = "space"
  /\ IF BufferEmpty(state)
     THEN Commit(<<<<FullSpace>>>>)
     ELSE /\ Fits(GetPron(state))
          /\ \E answer \in Conversions(GetPron(state)) :
               Convert(ConvertedWith(GetPron(state), answer))

InputtingEnter(key) ==
  /\ key.sym = "enter"
  /\ IF BufferEmpty(state) THEN Pass ELSE Commit(Shown(state.buffer.string))

InputtingBackspace(key) ==
  /\ key.sym = "backspace"
  /\ IF BufferEmpty(state) THEN Pass ELSE Edit(InputtingDelete(state))

InputtingCursor(key) ==
  /\ ~BufferEmpty(state)
  /\ \/ key.sym = "left" /\ Edit(InputtingLeft(state))
     \/ key.sym = "right" /\ Edit(InputtingRight(state))

InputtingOther(key) ==
  /\ \/ key.sym \in {"up", "down", "other"}
     \/ key.sym \in {"f7", "left", "right"} /\ BufferEmpty(state)
  /\ Pass

InputtingKey(key) ==
  /\ state.kind = "inputting"
  /\ \/ InputtingModified(key)
     \/ /\ key.mod = "none"
        /\ \/ InputtingTab(key) \/ InputtingChar(key) \/ InputtingF7(key)
           \/ InputtingSpace(key) \/ InputtingEnter(key) \/ InputtingBackspace(key)
           \/ InputtingCursor(key) \/ InputtingOther(key)

-----------------------------------------------------------------------------
(* The requests of the front-end (senn/src/fcitx/im/server.lisp).          *)

ProcessInput(key) ==
  KatakanaKey(key) \/ SelectingKey(key) \/ ConvertingKey(key) \/ InputtingKey(key)

\* The other states do not answer a click.
SelectCandidate(i) ==
  \/ /\ state.kind = "converting"
     /\ Convert(CandidatesSet(state, i))
  \/ /\ state.kind = "inputting"
     /\ IF i \in 0..(Len(state.predictions) - 1)
        THEN LET s == Selecting(state.predictions, i) IN Respond(SelectingView(s), s)
        ELSE Pass
  \/ /\ state.kind \in {"katakana", "selecting"}
     /\ Pass

\* The answer is OK: no view.
ResetIm ==
  /\ state' = EmptyInputting
  /\ reply' = [consumed |-> FALSE, view |-> NoView]

ImeInit ==
  /\ state = EmptyInputting
  /\ reply = [consumed |-> FALSE, view |-> NoView]

ImeTypeOK == state \in State /\ reply \in Reply
=============================================================================

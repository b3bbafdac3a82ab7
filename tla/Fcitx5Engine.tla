---------------------------- MODULE Fcitx5Engine ----------------------------
(***************************************************************************)
(* The fcitx5 front-end (SennEngine and UI in                              *)
(* senn/package/fcitx5-senn/fcitx_senn.cpp): the one input method object   *)
(* it owns serves every input context, and each input context has a panel  *)
(* of its own with the preedit and the candidate list.  fcitx5 gives key   *)
(* events, clicks and resets to the focused input context only, and        *)
(* deactivates it before another one is activated.                         *)
(***************************************************************************)
EXTENDS FcitxIme

CONSTANTS
  InputContext,  \* the input contexts of the applications
  NoContext      \* no input context has the focus

ASSUME ContextAssumption == NoContext \notin InputContext

VARIABLES
  panel,     \* input context -> what its panel shows
  focus,     \* the input context that is active
  committed  \* the text given to the application by the last event

vars == <<state, reply, panel, focus, committed>>

Panel == [preedit : Text, before : Text, candidates : Seq(String), index : Int]

BlankPanel == [preedit |-> <<>>, before |-> <<>>, candidates |-> <<>>, index |-> -1]

TypeOK ==
  /\ ImeTypeOK
  /\ panel \in [InputContext -> Panel]
  /\ focus \in InputContext \cup {NoContext}
  /\ committed \in Text

Init ==
  /\ ImeInit
  /\ panel = [ic \in InputContext |-> BlankPanel]
  /\ focus = NoContext
  /\ committed = <<>>

-----------------------------------------------------------------------------
\* MakeCandidateWordList puts the cursor on an entry of the list only.
ListCursor(list, i) == IF i \in 0..(Len(list) - 1) THEN i ELSE -1

\* Show of a converting view: the cursor stands left of the current form.
ConvertingPanel(view) ==
  [preedit |-> view.forms, before |-> SubSeq(view.forms, 1, view.current),
   candidates |-> view.candidates, index |-> ListCursor(view.candidates, view.index)]

\* Show of an editing view.
EditingPanel(view) ==
  [preedit |-> view.input, before |-> view.before,
   candidates |-> view.predictions, index |-> ListCursor(view.predictions, view.index)]

\* A request that answers no view leaves the panel and the text alone.
ShowView(ic, view) ==
  \/ /\ view.kind = "none"
     /\ committed' = <<>>
     /\ UNCHANGED panel
  \/ /\ view.kind = "editing"
     /\ committed' = view.committed
     /\ panel' = [panel EXCEPT ![ic] = EditingPanel(view)]
  \/ /\ view.kind = "converting"
     /\ committed' = <<>>
     /\ panel' = [panel EXCEPT ![ic] = ConvertingPanel(view)]

KeyEvent(ic, key) ==
  /\ focus = ic
  /\ ProcessInput(key)
  /\ ShowView(ic, reply'.view)
  /\ UNCHANGED focus

\* A click on an entry of the list in sight.
OnSelectCandidate(ic, i) ==
  /\ focus = ic
  /\ i \in 0..(Len(panel[ic].candidates) - 1)
  /\ SelectCandidate(i)
  /\ ShowView(ic, reply'.view)
  /\ UNCHANGED focus

\* The reset that forgets the panel.
ResetImOnly(ic) ==
  /\ ResetIm
  /\ committed' = <<>>
  /\ UNCHANGED panel

\* reset: ResetIM, then Clear.
ResetAndClear(ic) ==
  /\ ResetIm
  /\ panel' = [panel EXCEPT ![ic] = BlankPanel]
  /\ committed' = <<>>

Reset(ic) ==
  /\ focus = ic
  /\ ResetAndClear(ic)
  /\ UNCHANGED focus

\* The deactivation that leaves the composed text to the next input context.
DeactivateKeeping(ic) ==
  /\ focus = ic
  /\ focus' = NoContext
  /\ committed' = <<>>
  /\ UNCHANGED <<imeVars, panel>>

\* deactivate is a reset.
Deactivate(ic) ==
  /\ focus = ic
  /\ ResetAndClear(ic)
  /\ focus' = NoContext

\* fcitx5 gives the focus; the engine does nothing.
Activate(ic) ==
  /\ focus = NoContext
  /\ focus' = ic
  /\ committed' = <<>>
  /\ UNCHANGED <<imeVars, panel>>

Next ==
  \E ic \in InputContext :
    \/ \E key \in Key : KeyEvent(ic, key)
    \/ \E i \in 0..(Len(panel[ic].candidates) - 1) : OnSelectCandidate(ic, i)
    \/ Reset(ic)
    \/ Deactivate(ic)
    \/ Activate(ic)

Spec == Init /\ [][Next]_vars

-----------------------------------------------------------------------------
(* The panel that shows the state of the input method.                     *)
PanelOf(view) ==
  IF view.kind = "converting" THEN ConvertingPanel(view) ELSE EditingPanel(view)

\* Every index the code uses without a check is one of its list: the cursor
\* of the buffer (subseq in buffer.lisp), the current segment and its current
\* candidate (elt in converting.lisp), the current prediction (nth in
\* selecting-from-predictions.lisp).
IndicesValid == IndicesIn(state)

\* The panel of the focused input context always shows the state of the one
\* input method object, and no other panel shows anything: the events that
\* answer no view changed nothing, and a reset clears both sides.
PanelsReflectState ==
  \A ic \in InputContext :
    panel[ic] = IF ic = focus THEN PanelOf(StateView(state)) ELSE BlankPanel

\* Composed text never crosses from one application to another: with no input
\* context active nothing is being composed.
NothingComposedUnfocused == focus = NoContext => state = EmptyInputting

\* The user sees what is committed: the front-end and the input method
\* together implement Composer.
PreeditInSight == IF focus = NoContext THEN <<>> ELSE panel[focus].preedit

Promise == INSTANCE Composer WITH
  Texts <- Text, Space <- <<<<FullSpace>>>>, preedit <- PreeditInSight

ImplementsComposer == Promise!Spec

\* The key that deletes a character of a text being typed.
Backspace == [sym |-> "backspace", mod |-> "none"]

\* No key makes composed text disappear unless it commits that very text, or
\* is the Backspace that deletes the only character of a text being typed; and
\* what a conversion is asked for, with the cursor at the end of the text, does
\* not end with a letter n that has not become its kana yet
\* (state-buffer-get-pron in inputting.lisp).  With the cursor elsewhere it
\* may: the code completes the n at the end by an n at the cursor.
NoTextLost ==
  [][/\ \A ic \in InputContext :
          (focus = ic /\ reply'.consumed /\ panel[ic].preedit # <<>>) =>
            \/ panel'[ic].preedit # <<>>
            \/ committed' = panel[ic].preedit
            \/ /\ state.kind = "inputting" /\ panel[ic].preedit = <<state.buffer.string>>
               /\ Len(state.buffer.string) = 1
               /\ KeyEvent(ic, Backspace)
     /\ (state.kind = "inputting" /\ state'.kind = "converting"
           /\ state.buffer.cursor = Len(state.buffer.string)) =>
          state'.pron[Len(state'.pron)] # LetterN]_vars

\* The predictions on screen belong to the text on screen, or there are none.
PredictionsFresh ==
  state.kind = "inputting" =>
    state.predictions \in {<<>>, ListPredictions(state.buffer.string)}

\* While a conversion lasts, the candidates of a segment are only ever added to
\* at the end, so that an index keeps naming the form the user saw under it
\* ("Don't change the sort order of current-candidates", converting.lisp); and
\* engines that repeat no form in an answer never make the list repeat one.
CandidatesOnlyExtended ==
  [][(state.kind = "converting" /\ state'.kind = "converting") =>
       /\ Len(state'.segments) = Len(state.segments)
       /\ \A k \in 1..Len(state.segments) :
            LET old == state.segments[k].candidates
                new == state'.segments[k].candidates
            IN  SubSeq(new, 1, Len(old)) = old /\ NoneTwice(new) ]_vars

\* A click on an entry of the list in sight puts that entry into the text in
\* sight, except while a prediction is being selected with the keyboard, when
\* clicks are not answered.
ClickedFormShown ==
  [][\A ic \in InputContext : \A i \in 0..(Len(panel[ic].candidates) - 1) :
       (OnSelectCandidate(ic, i) /\ state.kind # "selecting") =>
         LET place == IF state.kind = "converting" THEN state.current + 1 ELSE 1
         IN  panel'[ic].preedit[place] = panel[ic].candidates[i + 1] ]_vars

=============================================================================

----------------------------- MODULE IbusEngine -----------------------------
(***************************************************************************)
(* The ibus front-end (senn/package/ibus-senn/main.cpp), the proxy that    *)
(* sends its calls to a server (src-cpp/ibus/im/stateful_ime_proxy.cpp)    *)
(* and the ibus input method (senn/src/ibus/stateful-ime.lisp): an input   *)
(* mode around the fcitx state machine.  Every engine object of the process shares the *)
(* one input method; the preedit and the lookup table are those of the     *)
(* focused input context.  The ibus daemon commits the preedit when the    *)
(* focus leaves it, as its mode IBUS_ENGINE_PREEDIT_COMMIT asks.           *)
(***************************************************************************)
EXTENDS FcitxIme

CONSTANT
  LeaveComposing  \* whether the focus may leave while text is composed

ASSUME LeaveAssumption == LeaveComposing \in BOOLEAN

VARIABLES
  inputMode,  \* input-mode
  focused,    \* whether an input context of the engine has the focus
  shownMode,  \* the mode the InputMode property displays
  preedit,    \* the preedit text and where its cursor stands
  table,      \* the lookup table, if it is shown
  committed   \* the text the last event gave to the application

vars == <<imeVars, inputMode, focused, shownMode, preedit, table, committed>>

InputMode == {"direct", "hiragana"}

\* fcitx-state is nil in direct mode.
NilState == [kind |-> "nil"]

HiddenPreedit == [text |-> <<>>, before |-> <<>>]

HiddenTable == [kind |-> "hidden"]

LookupTable(candidates, index) ==
  [kind |-> "shown", candidates |-> candidates, index |-> index]

Preedit == [text : Text, before : Text]

Table == {HiddenTable} \cup [kind : {"shown"}, candidates : Seq(String), index : Int]

TypeOK ==
  /\ state \in State \cup {NilState}
  /\ reply \in Reply
  /\ inputMode \in InputMode
  /\ inputMode = "hiragana" <=> state # NilState
  /\ focused \in BOOLEAN
  /\ shownMode \in InputMode
  /\ preedit \in Preedit
  /\ table \in Table
  /\ committed \in Text

\* The class is initialised once, with its input method and its property.
Init ==
  /\ state = NilState
  /\ reply = [consumed |-> FALSE, view |-> NoView]
  /\ inputMode = "direct"
  /\ focused = FALSE
  /\ shownMode = "direct"
  /\ preedit = HiddenPreedit
  /\ table = HiddenTable
  /\ committed = <<>>

-----------------------------------------------------------------------------
\* Show of a converting view: the table only when there are candidates.
ShowConverting(view) ==
  /\ preedit' = [text |-> view.forms, before |-> SubSeq(view.forms, 1, view.current)]
  /\ table' = IF view.candidates = <<>> THEN HiddenTable
              ELSE LookupTable(view.candidates, view.index)
  /\ committed' = <<>>

\* Show of an editing view: no table, the commit, then the preedit.
ShowEditing(view) ==
  /\ table' = HiddenTable
  /\ committed' = view.committed
  /\ preedit' = IF view.input = <<>> THEN HiddenPreedit
                ELSE [text |-> view.input, before |-> view.before]

ShowView(view) ==
  \/ view.kind = "none" /\ committed' = <<>> /\ UNCHANGED <<preedit, table>>
  \/ view.kind = "editing" /\ ShowEditing(view)
  \/ view.kind = "converting" /\ ShowConverting(view)

-----------------------------------------------------------------------------
(* The input method around the fcitx state machine.                        *)

\* In direct mode the key goes to the application.
KeyInMode(key) ==
  /\ IF inputMode = "hiragana" THEN ProcessInput(key) ELSE Pass
  /\ UNCHANGED inputMode

ClickInMode(i) ==
  /\ IF inputMode = "hiragana" THEN SelectCandidate(i) ELSE Pass
  /\ UNCHANGED inputMode

\* What is composed is dropped.
ToggleMode ==
  /\ inputMode' = IF inputMode = "hiragana" THEN "direct" ELSE "hiragana"
  /\ state' = IF inputMode = "hiragana" THEN NilState ELSE EmptyInputting
  /\ UNCHANGED reply

\* reset-im; the answer is OK.
ResetToDirect ==
  /\ inputMode' = "direct"
  /\ state' = NilState
  /\ reply' = [consumed |-> FALSE, view |-> NoView]

-----------------------------------------------------------------------------
(* The proxy: a request, and the handler its answer asks for.  A request   *)
(* that fails ends the process (ReconnectingClient).                       *)

ProxyProcessInput(key) == KeyInMode(key) /\ ShowView(reply'.view)

ProxySelectCandidate(i) == ClickInMode(i) /\ ShowView(reply'.view)

\* The mode the proxy returns is the one in the answer.
ProxyToggleInputMode(mode) == ToggleMode /\ mode = inputMode'

ProxyResetIM == ResetToDirect

-----------------------------------------------------------------------------
(* The events of the engine.                                               *)

\* The symbol and the label of the property, and the property on the panel.
UpdatePropInputMode(mode) == shownMode' = mode

ProcessKeyEvent(key) ==
  /\ focused
  /\ ProxyProcessInput(key)
  /\ UNCHANGED <<focused, shownMode>>

\* The mode key that leaves the table on the screen.
ToggleTableKept ==
  /\ focused
  /\ \E mode \in InputMode : ProxyToggleInputMode(mode) /\ UpdatePropInputMode(mode)
  /\ preedit' = HiddenPreedit
  /\ committed' = <<>>
  /\ UNCHANGED <<table, focused>>

\* Zenkaku_Hankaku.
ToggleInputMode ==
  /\ focused
  /\ preedit' = HiddenPreedit /\ table' = HiddenTable
  /\ \E mode \in InputMode : ProxyToggleInputMode(mode) /\ UpdatePropInputMode(mode)
  /\ committed' = <<>>
  /\ UNCHANGED focused

CandidateClicked(i) ==
  /\ focused
  /\ table.kind = "shown" /\ i \in 0..(Len(table.candidates) - 1)
  /\ ProxySelectCandidate(i)
  /\ UNCHANGED <<focused, shownMode>>

\* The property is set to direct whatever the shared input method is in.
FocusIn ==
  /\ ~focused
  /\ focused' = TRUE
  /\ UpdatePropInputMode("direct")
  /\ committed' = <<>>
  /\ UNCHANGED <<imeVars, inputMode, preedit, table>>

\* What the daemon does when an engine loses its input context.
PreeditCommitted ==
  /\ committed' = preedit.text
  /\ preedit' = HiddenPreedit /\ table' = HiddenTable
  /\ focused' = FALSE
  /\ UNCHANGED shownMode

\* The engine has no handler for the loss of the focus.
FocusOut ==
  /\ focused
  /\ LeaveComposing \/ preedit = HiddenPreedit
  /\ PreeditCommitted
  /\ UNCHANGED <<imeVars, inputMode>>

\* The user turns to another input method.
Disable == PreeditCommitted /\ ProxyResetIM

Next ==
  \/ \E key \in Key : ProcessKeyEvent(key)
  \/ ToggleInputMode
  \/ table.kind = "shown" /\ \E i \in 0..(Len(table.candidates) - 1) : CandidateClicked(i)
  \/ FocusIn
  \/ FocusOut
  \/ Disable

Spec == Init /\ [][Next]_vars

-----------------------------------------------------------------------------
\* The table of a state: only a conversion has one.
StateTable(s) ==
  IF s.kind # "converting" \/ ConvertingView(s).candidates = <<>> THEN HiddenTable
  ELSE LookupTable(ConvertingView(s).candidates, ConvertingView(s).index)

\* The preedit of a state, with the cursor where the state has it.
StatePreedit(s) ==
  LET view == StateView(s)
  IN  IF view.kind = "converting"
      THEN [text |-> view.forms, before |-> SubSeq(view.forms, 1, view.current)]
      ELSE IF view.input = <<>> THEN HiddenPreedit
      ELSE [text |-> view.input, before |-> view.before]

\* A table on the screen is always that of the shared input method's state,
\* so that a click means the entry the user sees (CandidateClicked in
\* main.cpp, select-candidate in stateful-ime.lisp).
TableReflectsState ==
  table # HiddenTable => state # NilState /\ table = StateTable(state)

\* The same, and while the focus stays where text is composed, the preedit is
\* that of the state; in direct mode and without the focus there is none.
DisplayReflectsState ==
  /\ TableReflectsState
  /\ preedit = IF ~focused \/ state = NilState THEN HiddenPreedit ELSE StatePreedit(state)

\* Under the same condition the front-end and the input method together keep
\* the promise of Composer.
Promise == INSTANCE Composer WITH
  Texts <- Text, Space <- <<<<FullSpace>>>>, preedit <- preedit.text

ImplementsComposer == Promise!Spec

\* "Initial input mode is (a)." (FocusIn in main.cpp): the mode displayed to
\* the user who comes back is the mode keys are processed in.
ModeShownIsMode == focused => shownMode = inputMode
=============================================================================

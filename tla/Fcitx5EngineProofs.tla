------------------------- MODULE Fcitx5EngineProofs -------------------------
(***************************************************************************)
(* The fcitx5 front-end and the input method, for every table of rules,    *)
(* predictor, conversion engine, set of input contexts and length of text: *)
(* indices stay in their lists, panels show the state of the input method, *)
(* and what is committed is what was in sight.                             *)
(***************************************************************************)
EXTENDS Fcitx5Engine, ImeProofs

\* The inductive invariant.  Indices that stay in their lists need the shape
\* of the state; a panel that shows the state needs both, to know that
\* nothing is shown of it after a reset, and that nothing is composed when
\* the focus arrives.
IInv == TypeOK /\ IndicesValid /\ PanelsReflectState /\ NothingComposedUnfocused

-----------------------------------------------------------------------------
(* Panels.                                                                 *)

LEMMA BlankPanelType == BlankPanel \in Panel
<1>1. <<>> \in Text /\ <<>> \in Seq(String) BY DEF Text
<1> QED BY <1>1 DEF BlankPanel, Panel

LEMMA ListCursorType ==
  ASSUME NEW list, NEW i \in Int
  PROVE  ListCursor(list, i) \in Int
BY DEF ListCursor

LEMMA EditingPanelType ==
  ASSUME NEW view \in EditingViews
  PROVE  EditingPanel(view) \in Panel
<1>1. ListCursor(view.predictions, view.index) \in Int
  BY ListCursorType DEF EditingViews
<1> QED BY <1>1 DEF EditingPanel, EditingViews, Panel

\* What the panel of a state shows.
LEMMA StatePanelType ==
  ASSUME NEW s, GoodState(s)
  PROVE  /\ PanelOf(StateView(s)) \in Panel
         /\ PanelOf(StateView(s)).preedit = ComposedText(s)
<1>1. CASE s.kind # "converting"
  <2>1. StateView(s) \in EditingViews BY <1>1, StateViewType
  <2>2. PanelOf(StateView(s)) = EditingPanel(StateView(s))
    BY <2>1 DEF PanelOf, EditingViews
  <2>3. EditingPanel(StateView(s)).preedit = StateView(s).input BY DEF EditingPanel
  <2> QED BY <1>1, <2>1, <2>2, <2>3, EditingPanelType DEF ComposedText
<1>2. CASE s.kind = "converting"
  <2> DEFINE view == ConvertingView(s)
             forms == CurrentForms(s)
  <2>1. StateView(s) = view /\ view.kind = "converting" /\ view.forms = forms
        /\ view.current = s.current
    BY <1>2 DEF StateView, ConvertingView
  <2>2. view \in View BY <1>2, <2>1, StateViewType
  <2>3. view.candidates \in Seq(String) /\ view.index \in Int
    <3> HIDE DEF view
    <3> QED BY <2>1, <2>2 DEF View, NoView
  <2>4. forms \in Text /\ s.current \in 0..Len(forms) /\ Len(forms) \in Nat
    BY <1>2, FormsType, ConvertingParts
  <2> HIDE DEF view, forms
  <2>5. SubSeq(forms, 1, s.current) \in Text
    <3>1. \A i \in 1..s.current : forms[i] \in String BY <2>4, ElementOfSeq DEF Text
    <3>2. s.current \in Nat BY <2>4
    <3> QED BY <3>1, <3>2, SubSeqProperties DEF Text
  <2>6. ListCursor(view.candidates, view.index) \in Int BY <2>3, ListCursorType
  <2>7. ConvertingPanel(view) \in Panel /\ ConvertingPanel(view).preedit = forms
    BY <2>1, <2>3, <2>4, <2>5, <2>6 DEF ConvertingPanel, Panel
  <2>8. PanelOf(StateView(s)) = ConvertingPanel(view) BY <2>1 DEF PanelOf
  <2> QED BY <1>2, <2>7, <2>8 DEF ComposedText, forms
<1> QED BY <1>1, <1>2

\* A committed text is not part of the panel.
LEMMA CommittingPanel ==
  ASSUME NEW s, s.kind = "inputting", NEW text
  PROVE  /\ EditingPanel(CommittingView(s, text)) = PanelOf(StateView(s))
         /\ CommittingView(s, text).kind = "editing"
         /\ CommittingView(s, text).committed = text
BY DEF EditingPanel, CommittingView, PanelOf, StateView, InputtingView

\* Before the first key the panel is blank.
LEMMA EmptyPanel == PanelOf(StateView(EmptyInputting)) = BlankPanel
<1>1. Before(EmptyBuffer) = <<>>
  BY EmptyBufferValid, BeforeAfter, EmptySeq DEF BufferValid, EmptyBuffer, String
<1>2. Shown(<<>>) = <<>> BY DEF Shown
<1>3. ListCursor(<<>>, -1) = -1 BY DEF ListCursor
<1> QED BY <1>1, <1>2, <1>3
    DEF PanelOf, StateView, EmptyInputting, InputtingWith, InputtingView, CommittingView,
        EditingPanel, BlankPanel, EmptyBuffer

-----------------------------------------------------------------------------
(* Steps.                                                                  *)

\* What a step does to the user: the invariant holds again and the step is
\* one the abstract specification allows.
GoodStep == IInv' /\ [Promise!Next]_Promise!vars

LEMMA IInvParts ==
  ASSUME IInv
  PROVE  /\ GoodState(state) /\ reply \in Reply
         /\ panel \in [InputContext -> Panel]
         /\ focus \in InputContext \cup {NoContext}
         /\ committed \in Text
         /\ \A ic \in InputContext :
              panel[ic] = IF ic = focus THEN PanelOf(StateView(state)) ELSE BlankPanel
         /\ focus = NoContext => state = EmptyInputting
BY DEF IInv, TypeOK, ImeTypeOK, IndicesValid, PanelsReflectState,
       NothingComposedUnfocused, GoodState

\* An answer shown to the focused input context.
LEMMA AnswerShown ==
  ASSUME IInv, NEW ic \in InputContext, focus = ic, Answered,
         ShowView(ic, reply'.view), UNCHANGED focus
  PROVE  GoodStep
<1> DEFINE view == reply'.view
           shown == PanelOf(StateView(state'))
<1>1. GoodState(state) /\ GoodState(state') /\ reply' \in Reply
      /\ AnswerOf(state, state', view)
  BY IInvParts DEF Answered
<1>2. ic # NoContext BY ContextAssumption
<1>3. shown \in Panel /\ shown.preedit = ComposedText(state')
      /\ ComposedText(state') \in Text
  BY <1>1, StatePanelType, ComposedTextType
<1>4. panel[ic] = PanelOf(StateView(state)) /\ panel[ic].preedit = ComposedText(state)
  BY <1>1, IInvParts, StatePanelType
<1>5. /\ panel' = [panel EXCEPT ![ic] = shown]
      /\ \/ committed' = <<>>
         \/ committed' = ComposedText(state)
         \/ ComposedText(state) = <<>> /\ ComposedText(state') = <<>>
            /\ committed' = <<<<FullSpace>>>>
  <2>1. CASE view = NoView /\ state' = state
    <3>1. committed' = <<>> /\ panel' = panel BY <2>1 DEF ShowView, NoView
    <3>2. panel = [panel EXCEPT ![ic] = shown] BY <1>4, <2>1, IInvParts
    <3> QED BY <3>1, <3>2
  <2>2. CASE view = StateView(state')
    <3>1. CASE state'.kind = "converting"
      <4>1. view.kind = "converting" BY <1>1, <2>2, <3>1, StateViewType
      <4>2. shown = ConvertingPanel(view) BY <2>2, <4>1 DEF PanelOf
      <4> QED BY <4>1, <4>2 DEF ShowView
    <3>2. CASE state'.kind # "converting"
      <4>1. view.kind = "editing" /\ view.committed = <<>>
        BY <1>1, <2>2, <3>2, StateViewType DEF EditingViews
      <4>2. shown = EditingPanel(view) BY <2>2, <4>1 DEF PanelOf
      <4> QED BY <4>1, <4>2 DEF ShowView
    <3> QED BY <3>1, <3>2
  <2>3. ASSUME NEW text, state'.kind = "inputting", view = CommittingView(state', text)
        PROVE  panel' = [panel EXCEPT ![ic] = shown] /\ committed' = text
    <3>1. view.kind = "editing" /\ view.committed = text /\ EditingPanel(view) = shown
      BY <2>3, CommittingPanel
    <3> QED BY <3>1 DEF ShowView
  <2>4. CASE state'.kind = "inputting" /\ view = CommittingView(state', ComposedText(state))
    BY <2>3, <2>4
  <2>5. CASE /\ ComposedText(state) = <<>>
             /\ state' = EmptyInputting
             /\ view = CommittingView(state', <<<<FullSpace>>>>)
    <3>1. ComposedText(state') = <<>> BY <1>3, <2>5, EmptyPanel DEF BlankPanel
    <3> QED BY <2>3, <2>5, <3>1, EmptyInputtingKind
  <2> QED BY <1>1, <2>1, <2>2, <2>4, <2>5 DEF AnswerOf
<1>6. <<<<FullSpace>>>> \in Text /\ <<>> \in Text BY ImeAssumption DEF Text, String
<1>7. committed' \in Text
  BY <1>1, <1>5, <1>6, ComposedTextType
<1>8. panel' \in [InputContext -> Panel]
      /\ \A c \in InputContext : panel'[c] = IF c = ic THEN shown ELSE panel[c]
  BY <1>3, <1>5, IInvParts
<1>9. IInv'
  <2>1. TypeOK' BY <1>1, <1>7, <1>8, IInvParts DEF TypeOK, ImeTypeOK, GoodState
  <2>2. IndicesValid' BY <1>1 DEF IndicesValid, GoodState
  <2>3. PanelsReflectState' BY <1>8, IInvParts DEF PanelsReflectState
  <2>4. NothingComposedUnfocused' BY <1>2 DEF NothingComposedUnfocused
  <2> QED BY <2>1, <2>2, <2>3, <2>4 DEF IInv
<1>10. PreeditInSight = ComposedText(state) /\ PreeditInSight' = ComposedText(state')
  BY <1>2, <1>3, <1>4, <1>8 DEF PreeditInSight
<1>11. Promise!Next
  BY <1>3, <1>5, <1>10 DEF Promise!Next, Promise!Compose, Promise!Commit, Promise!CommitSpace
<1> QED BY <1>9, <1>11 DEF GoodStep

\* Whatever clears both the input method and the panel in sight.
LEMMA ClearedStep ==
  ASSUME IInv, NEW ic \in InputContext, focus = ic, ResetAndClear(ic),
         focus' \in {ic, NoContext}
  PROVE  GoodStep
<1>1. /\ state' = EmptyInputting /\ committed' = <<>>
      /\ reply' = [consumed |-> FALSE, view |-> NoView]
      /\ panel' = [panel EXCEPT ![ic] = BlankPanel]
  BY DEF ResetAndClear, ResetIm
<1>2. reply' \in Reply BY <1>1 DEF Reply, View
<1>3. <<>> \in Text BY DEF Text
<1>4. /\ panel' \in [InputContext -> Panel]
      /\ \A c \in InputContext : panel'[c] = BlankPanel
  BY <1>1, IInvParts, BlankPanelType
<1>5. GoodState(state') BY <1>1, EmptyInputtingGood
<1>6. IInv'
  <2>1. TypeOK' BY <1>1, <1>2, <1>3, <1>4, <1>5 DEF TypeOK, ImeTypeOK, GoodState
  <2>2. IndicesValid' BY <1>5 DEF IndicesValid, GoodState
  <2>3. PanelsReflectState' BY <1>1, <1>4, EmptyPanel DEF PanelsReflectState
  <2>4. NothingComposedUnfocused' BY <1>1 DEF NothingComposedUnfocused
  <2> QED BY <2>1, <2>2, <2>3, <2>4 DEF IInv
<1>7. PreeditInSight' = <<>> BY <1>4 DEF PreeditInSight, BlankPanel
<1>8. Promise!Next BY <1>1, <1>3, <1>7 DEF Promise!Next, Promise!Compose
<1> QED BY <1>6, <1>8 DEF GoodStep

\* The focus arrives at a blank panel, and finds nothing composed.
LEMMA ActivateStep ==
  ASSUME IInv, NEW ic \in InputContext, Activate(ic)
  PROVE  GoodStep
<1>1. /\ focus = NoContext /\ focus' = ic /\ committed' = <<>>
      /\ state' = state /\ reply' = reply /\ panel' = panel
  BY DEF Activate, imeVars
<1>2. state = EmptyInputting BY <1>1, IInvParts
<1>3. <<>> \in Text BY DEF Text
<1>4. \A c \in InputContext : panel[c] = BlankPanel
  BY <1>1, <1>2, IInvParts, EmptyPanel
<1>5. IInv'
  <2>1. TypeOK' BY <1>1, <1>3, IInvParts DEF TypeOK, ImeTypeOK, GoodState
  <2>2. IndicesValid' BY <1>1, IInvParts DEF IndicesValid, GoodState
  <2>3. PanelsReflectState' BY <1>1, <1>2, <1>4, EmptyPanel DEF PanelsReflectState
  <2>4. NothingComposedUnfocused' BY <1>1, <1>2 DEF NothingComposedUnfocused
  <2> QED BY <2>1, <2>2, <2>3, <2>4 DEF IInv
<1>6. PreeditInSight' = <<>>
  BY <1>1, <1>4, ContextAssumption DEF PreeditInSight, BlankPanel
<1>7. Promise!Next BY <1>1, <1>3, <1>6 DEF Promise!Next, Promise!Compose
<1> QED BY <1>5, <1>7 DEF GoodStep

LEMMA InitGood == Init => IInv /\ Promise!Init
<1> SUFFICES ASSUME Init PROVE IInv /\ Promise!Init OBVIOUS
<1>1. /\ state = EmptyInputting /\ reply = [consumed |-> FALSE, view |-> NoView]
      /\ panel = [ic \in InputContext |-> BlankPanel]
      /\ focus = NoContext /\ committed = <<>>
  BY DEF Init, ImeInit
<1>2. reply \in Reply BY <1>1 DEF Reply, View
<1>3. <<>> \in Text BY DEF Text
<1>4. /\ panel \in [InputContext -> Panel]
      /\ \A c \in InputContext : panel[c] = BlankPanel
  BY <1>1, BlankPanelType
<1>5. TypeOK BY <1>1, <1>2, <1>3, <1>4, EmptyInputtingGood DEF TypeOK, ImeTypeOK, GoodState
<1>6. IndicesValid BY <1>1, EmptyInputtingGood DEF IndicesValid, GoodState
<1>7. PanelsReflectState BY <1>1, <1>4, ContextAssumption DEF PanelsReflectState
<1>8. NothingComposedUnfocused BY <1>1 DEF NothingComposedUnfocused
<1>9. Promise!Init BY <1>1 DEF Promise!Init, PreeditInSight
<1> QED BY <1>5, <1>6, <1>7, <1>8, <1>9 DEF IInv

LEMMA NextGood == IInv /\ [Next]_vars => GoodStep
<1> SUFFICES ASSUME IInv, [Next]_vars PROVE GoodStep OBVIOUS
<1>1. ASSUME NEW ic \in InputContext, NEW key \in Key, KeyEvent(ic, key)
      PROVE  GoodStep
  BY <1>1, IInvParts, ProcessInputAnswers, AnswerShown DEF KeyEvent
<1>2. ASSUME NEW ic \in InputContext, NEW i \in 0..(Len(panel[ic].candidates) - 1),
             OnSelectCandidate(ic, i)
      PROVE  GoodStep
  <2>1. i \in Int OBVIOUS
  <2> QED BY <1>2, <2>1, IInvParts, SelectCandidateAnswers, AnswerShown DEF OnSelectCandidate
<1>3. ASSUME NEW ic \in InputContext, Reset(ic) PROVE GoodStep
  BY <1>3, ClearedStep DEF Reset
<1>4. ASSUME NEW ic \in InputContext, Deactivate(ic) PROVE GoodStep
  BY <1>4, ClearedStep DEF Deactivate
<1>5. ASSUME NEW ic \in InputContext, Activate(ic) PROVE GoodStep
  BY <1>5, ActivateStep
<1>6. CASE UNCHANGED vars
  <2>1. state' = state /\ reply' = reply /\ panel' = panel /\ focus' = focus
        /\ committed' = committed
    BY <1>6 DEF vars
  <2>2. IInv'
    BY <2>1 DEF IInv, TypeOK, ImeTypeOK, IndicesValid, PanelsReflectState,
                NothingComposedUnfocused
  <2>3. UNCHANGED Promise!vars BY <2>1 DEF Promise!vars, PreeditInSight
  <2> QED BY <2>2, <2>3 DEF GoodStep
<1> QED BY <1>1, <1>2, <1>3, <1>4, <1>5, <1>6 DEF Next

-----------------------------------------------------------------------------
(* What the steps make of the state of the input method.                   *)

\* The steps: a request whose view is shown to the focused input context, a
\* reset, the arrival of the focus.
LEMMA StepKinds ==
  ASSUME IInv, Next
  PROVE  \/ /\ Outcome(state, state', CommittedBy(reply'.view))
            /\ \E ic \in InputContext : focus = ic /\ focus' = ic /\ ShowView(ic, reply'.view)
         \/ state' = EmptyInputting /\ ~reply'.consumed
         \/ state' = state /\ focus = NoContext
<1>1. GoodState(state) BY IInvParts
<1>2. ASSUME NEW ic \in InputContext, NEW key \in Key, KeyEvent(ic, key)
      PROVE  /\ Outcome(state, state', CommittedBy(reply'.view))
             /\ focus = ic /\ focus' = ic /\ ShowView(ic, reply'.view)
  BY <1>1, <1>2, KeyOutcome DEF KeyEvent
<1>3. ASSUME NEW ic \in InputContext, NEW i \in 0..(Len(panel[ic].candidates) - 1),
             OnSelectCandidate(ic, i)
      PROVE  /\ Outcome(state, state', CommittedBy(reply'.view))
             /\ focus = ic /\ focus' = ic /\ ShowView(ic, reply'.view)
  <2>1. i \in Int OBVIOUS
  <2> QED BY <1>1, <1>3, <2>1, ClickOutcome DEF OnSelectCandidate
<1>4. ASSUME NEW ic \in InputContext, ResetAndClear(ic)
      PROVE  state' = EmptyInputting /\ ~reply'.consumed
  BY <1>4 DEF ResetAndClear, ResetIm
<1>5. ASSUME NEW ic \in InputContext, Activate(ic) PROVE state' = state /\ focus = NoContext
  BY <1>5 DEF Activate, imeVars
<1> QED BY <1>2, <1>3, <1>4, <1>5 DEF Next, Reset, Deactivate

\* What is composed, and what the next step commits of it.
LEMMA ShownAndCommitted ==
  ASSUME IInv, IInv', NEW ic \in InputContext, focus = ic, focus' = ic, ShowView(ic, reply'.view)
  PROVE  /\ panel[ic].preedit = ComposedText(state)
         /\ panel'[ic].preedit = ComposedText(state')
         /\ committed' = CommittedBy(reply'.view)
<1>1. GoodState(state) /\ panel[ic] = PanelOf(StateView(state)) BY IInvParts
<1>2. GoodState(state') /\ panel'[ic] = PanelOf(StateView(state'))
  BY DEF IInv, TypeOK, ImeTypeOK, IndicesValid, PanelsReflectState, GoodState
<1>3. committed' = CommittedBy(reply'.view) BY DEF ShowView, CommittedBy
<1> QED BY <1>1, <1>2, <1>3, StatePanelType

LEMMA FreshStep == IInv /\ Fresh(state) /\ [Next]_vars => Fresh(state)'
<1> SUFFICES ASSUME IInv, Fresh(state), [Next]_vars PROVE Fresh(state') BY DEF Fresh
<1>1. CASE Next
  <2>1. Fresh(EmptyInputting) BY DEF Fresh, EmptyInputting, InputtingWith
  <2> QED BY <1>1, <2>1, StepKinds, FreshOutcome, IInvParts
<1>2. CASE UNCHANGED vars BY <1>2 DEF vars
<1> QED BY <1>1, <1>2

LEMMA GoodStates ==
  ASSUME IInv, [Next]_vars
  PROVE  GoodState(state) /\ GoodState(state')
<1>1. IInv' BY NextGood DEF GoodStep
<1> QED BY <1>1, IInvParts DEF IInv, TypeOK, ImeTypeOK, IndicesValid, GoodState

LEMMA EmptyIsFilled == Offered(EmptyInputting) /\ Filled(EmptyInputting)
<1>1. /\ EmptyInputting.kind = "inputting" /\ EmptyInputting.predictions = <<>>
      /\ Len(<<>>) = 0
  BY EmptySeq DEF EmptyInputting, InputtingWith
<1> QED BY <1>1 DEF Filled, Offered

LEMMA OfferedStep ==
  ASSUME PredictorOffersWords
  PROVE  IInv /\ Offered(state) /\ [Next]_vars => Offered(state)'
<1> SUFFICES ASSUME IInv, Offered(state), [Next]_vars PROVE Offered(state') BY DEF Offered
<1>1. CASE Next BY <1>1, EmptyIsFilled, GoodStates, StepKinds, OfferedOutcome
<1>2. CASE UNCHANGED vars BY <1>2 DEF vars
<1> QED BY <1>1, <1>2

LEMMA FilledStep ==
  ASSUME TableCompletesN, PredictorOffersWords
  PROVE  IInv /\ Filled(state) /\ [Next]_vars => Filled(state)'
<1> SUFFICES ASSUME IInv, Filled(state), [Next]_vars PROVE Filled(state')
  BY DEF Filled, Offered
<1>1. CASE Next BY <1>1, EmptyIsFilled, GoodStates, StepKinds, NothingLost
<1>2. CASE UNCHANGED vars BY <1>2 DEF vars
<1> QED BY <1>1, <1>2

LEMMA UnrepeatedStep ==
  ASSUME EngineRepeatsNothing
  PROVE  IInv /\ Unrepeated(state) /\ [Next]_vars => Unrepeated(state)'
<1> SUFFICES ASSUME IInv, Unrepeated(state), [Next]_vars PROVE Unrepeated(state')
  BY DEF Unrepeated
<1>1. CASE Next
  <2>1. Unrepeated(EmptyInputting) BY EmptyInputtingKind DEF Unrepeated
  <2> QED BY <1>1, <2>1, StepKinds, UnrepeatedOutcome, IInvParts
<1>2. CASE UNCHANGED vars BY <1>2 DEF vars
<1> QED BY <1>1, <1>2

\* While a text is being typed, no click empties it and no reset is consumed.
LEMMA EmptiedByKey ==
  ASSUME Next, NEW ic \in InputContext, focus = ic, reply'.consumed,
         state.kind = "inputting", state'.kind = "inputting"
  PROVE  \E key \in Key : KeyEvent(ic, key)
<1>1. ASSUME NEW c \in InputContext, NEW i, OnSelectCandidate(c, i) PROVE FALSE
  BY <1>1 DEF OnSelectCandidate, SelectCandidate, Respond, Pass, Selecting
<1>2. ASSUME NEW c \in InputContext, Reset(c) \/ Deactivate(c) PROVE FALSE
  BY <1>2 DEF Reset, Deactivate, ResetAndClear, ResetIm
<1>3. ASSUME NEW c \in InputContext, Activate(c) PROVE FALSE
  BY <1>3, ContextAssumption DEF Activate
<1> QED BY <1>1, <1>2, <1>3 DEF Next, KeyEvent

\* What a click on an entry of the list shows.
LEMMA ClickShows ==
  ASSUME IInv, Offered(state),
         NEW ic \in InputContext, NEW i \in 0..(Len(panel[ic].candidates) - 1),
         OnSelectCandidate(ic, i), state.kind # "selecting", IInv'
  PROVE  LET place == IF state.kind = "converting" THEN state.current + 1 ELSE 1
         IN  panel'[ic].preedit[place] = panel[ic].candidates[i + 1]
<1>1. /\ GoodState(state) /\ panel[ic] = PanelOf(StateView(state))
      /\ focus = ic /\ focus' = ic /\ SelectCandidate(i) /\ ShowView(ic, reply'.view)
  BY IInvParts DEF OnSelectCandidate
<1>2. panel'[ic].preedit = ComposedText(state') BY <1>1, ShownAndCommitted
<1>3. panel[ic].candidates = Listed(StateView(state))
  BY <1>1 DEF PanelOf, Listed, ConvertingPanel, EditingPanel
<1> QED BY <1>1, <1>2, <1>3, ClickText

-----------------------------------------------------------------------------
(* Theorems.                                                               *)

LEMMA Invariance == Spec => []IInv
<1>1. IInv /\ [Next]_vars => IInv' BY NextGood DEF GoodStep
<1> QED BY <1>1, InitGood, PTL DEF Spec

\* The states, answers and panels have the shapes the code gives them, in
\* every run of the front-end with the input method (process-input.lisp,
\* select-candidate.lisp, fcitx_senn.cpp).
THEOREM TypeCorrect == Spec => []TypeOK
<1>1. IInv => TypeOK BY DEF IInv
<1> QED BY <1>1, Invariance, PTL

\* No index the code uses without a check ever leaves its list (buffer.lisp,
\* converting.lisp, selecting-from-predictions.lisp).
THEOREM IndicesStayValid == Spec => []IndicesValid
<1>1. IInv => IndicesValid BY DEF IInv
<1> QED BY <1>1, Invariance, PTL

\* The panel in sight is never stale and no other panel shows anything
\* (Show, Clear and reset in fcitx_senn.cpp).
THEOREM PanelsNeverStale == Spec => []PanelsReflectState
<1>1. IInv => PanelsReflectState BY DEF IInv
<1> QED BY <1>1, Invariance, PTL

\* Composed text never waits in the shared input method for the next
\* application (deactivate in fcitx_senn.cpp).
THEOREM NothingLeftBehind == Spec => []NothingComposedUnfocused
<1>1. IInv => NothingComposedUnfocused BY DEF IInv
<1> QED BY <1>1, Invariance, PTL

\* What an application receives is the text that was in sight, or a space
\* when nothing was: the detailed specification implements Composer.
THEOREM CommitsWhatIsInSight == Spec => ImplementsComposer
<1>1. Init => Promise!Init BY InitGood
<1>2. IInv /\ [Next]_vars => [Promise!Next]_Promise!vars BY NextGood DEF GoodStep
<1> QED BY <1>1, <1>2, Invariance, PTL DEF Spec, ImplementsComposer, Promise!Spec

\* The predictions on screen are never those of an older text
\* (state-insert-char, state-delete-char and moves in inputting.lisp).
THEOREM PredictionsAreFresh == Spec => []PredictionsFresh
<1>1. Init => Fresh(state)
  BY DEF Init, ImeInit, Fresh, EmptyInputting, InputtingWith
<1>2. Fresh(state) => PredictionsFresh BY DEF Fresh, PredictionsFresh
<1> QED BY <1>1, <1>2, FreshStep, Invariance, PTL DEF Spec

\* With a table in which every rule has a kana and a second n completes the
\* first, and a predictor that offers words, a key that is consumed empties the
\* preedit only by committing all of it, or it is the Backspace that deletes
\* the only character of a text being typed; and what is converted ends in no
\* letter n when the cursor is at the end of the text
\* (process-input.lisp, state-buffer-get-pron in inputting.lisp).
THEOREM TextIsNeverLost ==
  ASSUME TableCompletesN, PredictorOffersWords
  PROVE  Spec => NoTextLost
<1>1. Init => Filled(state) BY EmptyIsFilled DEF Init, ImeInit
<1> DEFINE Kept(ic) == (focus = ic /\ reply'.consumed /\ panel[ic].preedit # <<>>) =>
                         \/ panel'[ic].preedit # <<>>
                         \/ committed' = panel[ic].preedit
                         \/ /\ state.kind = "inputting" /\ panel[ic].preedit = <<state.buffer.string>>
                            /\ Len(state.buffer.string) = 1
                            /\ KeyEvent(ic, Backspace)
           Completed == (state.kind = "inputting" /\ state'.kind = "converting"
                           /\ state.buffer.cursor = Len(state.buffer.string)) =>
                          state'.pron[Len(state'.pron)] # LetterN
<1>2. IInv /\ IInv' /\ Filled(state) /\ Next => (\A ic \in InputContext : Kept(ic)) /\ Completed
  <2> SUFFICES ASSUME IInv, IInv', Filled(state), Next
               PROVE  (\A ic \in InputContext : Kept(ic)) /\ Completed
    OBVIOUS
  <2>1. GoodState(state) /\ GoodState(state')
    BY IInvParts DEF IInv, TypeOK, ImeTypeOK, IndicesValid, GoodState
  <2>2. ASSUME NEW ic \in InputContext, focus = ic, reply'.consumed, panel[ic].preedit # <<>>
        PROVE  \/ panel'[ic].preedit # <<>>
               \/ committed' = panel[ic].preedit
               \/ /\ state.kind = "inputting" /\ panel[ic].preedit = <<state.buffer.string>>
                  /\ Len(state.buffer.string) = 1
                  /\ KeyEvent(ic, Backspace)
    <3> SUFFICES ASSUME panel'[ic].preedit = <<>>, committed' # panel[ic].preedit
                 PROVE  /\ state.kind = "inputting" /\ panel[ic].preedit = <<state.buffer.string>>
                        /\ Len(state.buffer.string) = 1
                        /\ KeyEvent(ic, Backspace)
      OBVIOUS
    <3>1. /\ Outcome(state, state', CommittedBy(reply'.view))
          /\ focus' = ic /\ ShowView(ic, reply'.view)
      BY <2>2, StepKinds, ContextAssumption
    <3>2. /\ panel[ic].preedit = ComposedText(state)
          /\ panel'[ic].preedit = ComposedText(state')
          /\ committed' = CommittedBy(reply'.view)
      BY <2>2, <3>1, ShownAndCommitted
    <3>3. LastDeleted(state, state')
      BY <2>1, <2>2, <3>1, <3>2, NothingLost DEF Lost
    <3>4. /\ state.kind = "inputting" /\ Len(state.buffer.string) = 1
          /\ state'.kind = "inputting"
      BY <3>3 DEF LastDeleted, InputtingDelete, WithBuffer, InputtingWith
    <3>5. panel[ic].preedit = <<state.buffer.string>> /\ ~BufferEmpty(state)
      BY <2>1, <2>2, <3>2, <3>4, TextOfKind DEF Shown, BufferEmpty
    <3>6. PICK key \in Key : KeyEvent(ic, key) BY <2>2, <3>2, <3>4, <3>5, EmptiedByKey
    <3>7. key = Backspace
      BY <2>1, <2>2, <3>2, <3>4, <3>5, <3>6, OnlyBackspaceDeletes DEF KeyEvent, Backspace
    <3> QED BY <3>4, <3>5, <3>6, <3>7
  <2>3. ASSUME state.kind = "inputting", state'.kind = "converting",
               state.buffer.cursor = Len(state.buffer.string)
        PROVE  state'.pron[Len(state'.pron)] # LetterN
    <3>1. Outcome(state, state', CommittedBy(reply'.view))
      BY <2>3, StepKinds, EmptyInputtingKind
    <3>2. /\ ~BufferEmpty(state)
          /\ \E answer \in Conversions(GetPron(state)) :
               state' = ConvertedWith(GetPron(state), answer)
      BY <2>1, <2>3, <3>1, ConversionOutcome
    <3>3. state'.pron = GetPron(state) BY <3>2 DEF ConvertedWith
    <3> QED BY <2>1, <2>3, <3>2, <3>3, PronCompleted
  <2> QED BY <2>2, <2>3
<1>3. IInv /\ IInv' /\ Filled(state) /\ [Next]_vars
        => [(\A ic \in InputContext : Kept(ic)) /\ Completed]_vars
  <2> HIDE DEF Kept, Completed
  <2> QED BY <1>2
<1>4. IInv /\ [Next]_vars => IInv' BY NextGood DEF GoodStep
<1> QED BY <1>1, <1>3, <1>4, FilledStep, InitGood, PTL DEF Spec, NoTextLost

\* With an engine that repeats no form in an answer, an index keeps naming the
\* form the user saw under it, and the list never shows a form twice
\* (converting.lisp, "Don't change the sort order of current-candidates").
THEOREM CandidatesKeepTheirPlaces ==
  ASSUME EngineRepeatsNothing
  PROVE  Spec => CandidatesOnlyExtended
<1>1. Init => Unrepeated(state)
  BY EmptyInputtingKind DEF Init, ImeInit, Unrepeated
<1> DEFINE Extended ==
      (state.kind = "converting" /\ state'.kind = "converting") =>
        /\ Len(state'.segments) = Len(state.segments)
        /\ \A k \in 1..Len(state.segments) :
             LET old == state.segments[k].candidates
                 new == state'.segments[k].candidates
             IN  SubSeq(new, 1, Len(old)) = old /\ NoneTwice(new)
<1>2. IInv /\ Unrepeated(state) /\ Next => Extended
  <2> SUFFICES ASSUME IInv, Unrepeated(state), Next,
                      state.kind = "converting", state'.kind = "converting"
               PROVE  Extends(state, state')
    BY DEF Extends
  <2>1. GoodState(state) BY IInvParts
  <2>2. CASE Outcome(state, state', CommittedBy(reply'.view)) BY <2>1, <2>2, UnrepeatedOutcome
  <2>3. CASE state' = state BY <2>1, <2>3, SameExtends
  <2> QED BY <2>2, <2>3, StepKinds, EmptyInputtingKind
<1>3. IInv /\ Unrepeated(state) /\ [Next]_vars => [Extended]_vars
  <2> HIDE DEF Extended
  <2> QED BY <1>2
<1> QED BY <1>1, <1>3, UnrepeatedStep, Invariance, PTL DEF Spec, CandidatesOnlyExtended

\* With a predictor that offers words, a click puts the very entry that was
\* clicked into the text in sight (on_select_candidate in fcitx_senn.cpp,
\* select-candidate.lisp).
THEOREM ClickMeansItsEntry ==
  ASSUME PredictorOffersWords
  PROVE  Spec => ClickedFormShown
<1>1. Init => Offered(state) BY EmptyIsFilled DEF Init, ImeInit
<1> DEFINE Meant ==
      \A ic \in InputContext : \A i \in 0..(Len(panel[ic].candidates) - 1) :
        (OnSelectCandidate(ic, i) /\ state.kind # "selecting") =>
          LET place == IF state.kind = "converting" THEN state.current + 1 ELSE 1
          IN  panel'[ic].preedit[place] = panel[ic].candidates[i + 1]
<1>2. IInv /\ IInv' /\ Offered(state) => Meant BY ClickShows
<1>3. IInv /\ IInv' /\ Offered(state) => [Meant]_vars
  <2> HIDE DEF Meant
  <2> QED BY <1>2
<1>4. IInv /\ [Next]_vars => IInv' BY NextGood DEF GoodStep
<1> QED BY <1>1, <1>3, <1>4, OfferedStep, InitGood, PTL DEF Spec, ClickedFormShown
=============================================================================

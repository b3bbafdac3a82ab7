-------------------------- MODULE IbusEngineProofs --------------------------
(***************************************************************************)
(* The ibus front-end with its input method, for every table of rules,     *)
(* predictor, conversion engine and length of text: what is on the screen  *)
(* belongs to the state, and what is committed is what was in sight.       *)
(***************************************************************************)
EXTENDS IbusEngine, ImeProofs

StateGood == state # NilState => GoodState(state)

\* The inductive invariant, whoever takes the focus.  A table that shows the
\* state needs the shape of the state, to know what a key makes of it.
IInv == TypeOK /\ StateGood /\ TableReflectsState

\* The inductive invariant as long as the focus stays where text is composed:
\* without the focus nothing is composed that the next context would get.
CalmInv ==
  /\ IInv /\ DisplayReflectsState
  /\ ~focused /\ state # NilState => StatePreedit(state) = HiddenPreedit

-----------------------------------------------------------------------------
(* What is shown of a state.                                               *)

LEMMA HiddenType == HiddenPreedit \in Preedit /\ HiddenTable \in Table /\ <<>> \in Text
BY DEF HiddenPreedit, Preedit, HiddenTable, Table, Text

\* There is no state that is nil to the fcitx state machine.
LEMMA GoodStateIsState ==
  ASSUME NEW s, GoodState(s)
  PROVE  s \in State /\ s # NilState
BY KindOfState DEF GoodState, NilState

LEMMA StatePreeditType ==
  ASSUME NEW s, GoodState(s)
  PROVE  StatePreedit(s) \in Preedit /\ StatePreedit(s).text = ComposedText(s)
<1>1. CASE s.kind # "converting"
  <2> DEFINE view == StateView(s)
  <2>1. view \in EditingViews BY <1>1, StateViewType
  <2> HIDE DEF view
  <2>2. view.kind = "editing" /\ view.input \in Text /\ view.before \in Text
    BY <2>1 DEF EditingViews
  <2>3. StatePreedit(s) = IF view.input = <<>> THEN HiddenPreedit
                          ELSE [text |-> view.input, before |-> view.before]
    BY <2>2 DEF StatePreedit, view
  <2>4. ComposedText(s) = view.input BY <1>1 DEF ComposedText, view
  <2> QED BY <2>2, <2>3, <2>4, HiddenType DEF HiddenPreedit, Preedit
<1>2. CASE s.kind = "converting"
  <2> DEFINE forms == CurrentForms(s)
  <2>1. /\ StateView(s).kind = "converting" /\ StateView(s).forms = forms
        /\ StateView(s).current = s.current
    BY <1>2 DEF StateView, ConvertingView
  <2>2. forms \in Text /\ s.current \in 0..Len(forms) /\ Len(forms) \in Nat
    BY <1>2, FormsType, ConvertingParts
  <2> HIDE DEF forms
  <2>3. SubSeq(forms, 1, s.current) \in Text
    <3>1. \A i \in 1..s.current : forms[i] \in String BY <2>2, ElementOfSeq DEF Text
    <3>2. s.current \in Nat BY <2>2
    <3> QED BY <3>1, <3>2, SubSeqProperties DEF Text
  <2>4. StatePreedit(s) = [text |-> forms, before |-> SubSeq(forms, 1, s.current)]
    BY <2>1 DEF StatePreedit
  <2> QED BY <1>2, <2>2, <2>3, <2>4 DEF ComposedText, Preedit, forms
<1> QED BY <1>1, <1>2

LEMMA StateTableType ==
  ASSUME NEW s, GoodState(s)
  PROVE  StateTable(s) \in Table
<1>1. CASE s.kind # "converting" BY <1>1, HiddenType DEF StateTable
<1>2. CASE s.kind = "converting"
  <2> DEFINE view == ConvertingView(s)
  <2>1. StateView(s) = view /\ view.kind = "converting" /\ StateView(s) \in View
    BY <1>2, StateViewType DEF StateView, ConvertingView
  <2>2. view.candidates \in Seq(String) /\ view.index \in Int
    <3> HIDE DEF view
    <3> QED BY <2>1 DEF View, NoView
  <2>3. LookupTable(view.candidates, view.index) \in Table
    <3> HIDE DEF view
    <3> QED BY <2>2 DEF LookupTable, Table
  <2> QED BY <2>3, HiddenType DEF StateTable
<1> QED BY <1>1, <1>2

\* A fresh state shows nothing.
LEMMA EmptyShowsNothing ==
  /\ StatePreedit(EmptyInputting) = HiddenPreedit
  /\ StateTable(EmptyInputting) = HiddenTable
  /\ ComposedText(EmptyInputting) = <<>>
<1>1. Shown(<<>>) = <<>> BY DEF Shown
<1>2. EmptyInputting.kind = "inputting" BY EmptyInputtingKind
<1>3. /\ StateView(EmptyInputting).kind = "editing"
      /\ StateView(EmptyInputting).input = <<>>
  BY <1>1, <1>2 DEF StateView, InputtingView, CommittingView, EmptyInputting, InputtingWith, EmptyBuffer
<1> QED BY <1>2, <1>3 DEF StatePreedit, StateTable, ComposedText

-----------------------------------------------------------------------------
(* Answers on the screen.                                                  *)

Space == <<<<FullSpace>>>>

\* The key or click changes nothing, or the screen shows the new state.
Unmoved == UNCHANGED <<state, preedit, table>> /\ committed' = <<>>

Moved ==
  /\ GoodState(state) /\ GoodState(state')
  /\ preedit' = StatePreedit(state') /\ table' = StateTable(state')
  /\ \/ committed' = <<>>
     \/ committed' = ComposedText(state)
     \/ ComposedText(state) = <<>> /\ ComposedText(state') = <<>> /\ committed' = Space

LEMMA SpaceType == Space \in Text
BY ImeAssumption DEF Space, Text, String

LEMMA ViewShown ==
  ASSUME GoodState(state), Answered, ShowView(reply'.view)
  PROVE  reply' \in Reply /\ (Unmoved \/ Moved)
<1> DEFINE view == reply'.view
<1>1. /\ GoodState(state') /\ reply' \in Reply /\ AnswerOf(state, state', view)
  BY DEF Answered
<1>2. CASE view = NoView /\ state' = state
  BY <1>1, <1>2 DEF ShowView, NoView, Unmoved
<1>3. ASSUME view.kind = "editing", state'.kind # "converting",
             view.input = StateView(state').input, view.before = StateView(state').before,
             StateView(state').kind = "editing"
      PROVE  /\ preedit' = StatePreedit(state') /\ table' = StateTable(state')
             /\ committed' = view.committed
  BY <1>3 DEF ShowView, ShowEditing, StatePreedit, StateTable
<1>4. CASE view = StateView(state') /\ state'.kind = "converting"
  <2>1. view = ConvertingView(state') /\ view.kind = "converting"
    BY <1>4 DEF StateView, ConvertingView
  <2> HIDE DEF view
  <2>2. ShowConverting(view) BY <2>1 DEF ShowView, view
  <2>3. preedit' = StatePreedit(state') /\ table' = StateTable(state') /\ committed' = <<>>
    BY <1>4, <2>1, <2>2 DEF ShowConverting, StatePreedit, StateTable
  <2> QED BY <1>1, <2>3 DEF Moved
<1>5. CASE view = StateView(state') /\ state'.kind # "converting"
  <2>1. view.kind = "editing" /\ view.committed = <<>>
    BY <1>1, <1>5, StateViewType DEF EditingViews
  <2>2. preedit' = StatePreedit(state') /\ table' = StateTable(state') /\ committed' = <<>>
    BY <1>3, <1>5, <2>1
  <2> QED BY <1>1, <2>2 DEF Moved
<1>6. ASSUME NEW text, state'.kind = "inputting", view = CommittingView(state', text)
      PROVE  /\ preedit' = StatePreedit(state') /\ table' = StateTable(state')
             /\ committed' = text
  <2>1. /\ view.kind = "editing" /\ view.committed = text
        /\ view.input = StateView(state').input /\ view.before = StateView(state').before
        /\ StateView(state').kind = "editing"
    BY <1>6 DEF StateView, InputtingView, CommittingView
  <2> QED BY <1>3, <1>6, <2>1
<1>7. CASE state'.kind = "inputting" /\ view = CommittingView(state', ComposedText(state))
  BY <1>1, <1>6, <1>7 DEF Moved
<1>8. CASE /\ ComposedText(state) = <<>>
           /\ state' = EmptyInputting
           /\ view = CommittingView(state', Space)
  BY <1>1, <1>6, <1>8, EmptyShowsNothing, EmptyInputtingKind DEF Moved
<1> QED BY <1>1, <1>2, <1>4, <1>5, <1>7, <1>8 DEF AnswerOf, Space

LEMMA IInvParts ==
  ASSUME IInv
  PROVE  /\ inputMode = "hiragana" => GoodState(state)
         /\ inputMode # "hiragana" => state = NilState
         /\ reply \in Reply
         /\ preedit \in Preedit /\ table \in Table /\ committed \in Text
BY DEF IInv, TypeOK, StateGood

LEMMA PassShowsNothing ==
  ASSUME Pass, ShowView(reply'.view)
  PROVE  reply' \in Reply /\ Unmoved
<1>1. reply' = [consumed |-> FALSE, view |-> NoView] /\ state' = state BY DEF Pass
<1>2. NoView \in View /\ NoView.kind = "none" BY DEF View, NoView
<1>3. reply' \in Reply /\ reply'.view.kind = "none" BY <1>1, <1>2 DEF Reply
<1> QED BY <1>1, <1>3 DEF ShowView, Unmoved

LEMMA KeyMoves ==
  ASSUME IInv, NEW key \in Key, ProxyProcessInput(key)
  PROVE  reply' \in Reply /\ (Unmoved \/ Moved)
<1>1. CASE inputMode = "hiragana"
  <2>1. GoodState(state) /\ ProcessInput(key) /\ ShowView(reply'.view)
    BY <1>1, IInvParts DEF ProxyProcessInput, KeyInMode
  <2> QED BY <2>1, ProcessInputAnswers, ViewShown
<1>2. CASE inputMode # "hiragana"
  BY <1>2, PassShowsNothing DEF ProxyProcessInput, KeyInMode
<1> QED BY <1>1, <1>2

LEMMA ClickMoves ==
  ASSUME IInv, NEW i \in Int, ProxySelectCandidate(i)
  PROVE  reply' \in Reply /\ (Unmoved \/ Moved)
<1>1. CASE inputMode = "hiragana"
  <2>1. GoodState(state) /\ SelectCandidate(i) /\ ShowView(reply'.view)
    BY <1>1, IInvParts DEF ProxySelectCandidate, ClickInMode
  <2> QED BY <2>1, SelectCandidateAnswers, ViewShown
<1>2. CASE inputMode # "hiragana"
  BY <1>2, PassShowsNothing DEF ProxySelectCandidate, ClickInMode
<1> QED BY <1>1, <1>2

-----------------------------------------------------------------------------
(* Steps: the first invariant holds again; while the focus stays where text *)
(* is composed so does the second, and the step is one Composer allows.     *)

GoodStep ==
  /\ IInv'
  /\ (~LeaveComposing /\ CalmInv) => (CalmInv' /\ [Promise!Next]_Promise!vars)

\* A change in the focused context.
LEMMA MovedStep ==
  ASSUME IInv, focused, reply' \in Reply, Unmoved \/ Moved,
         UNCHANGED <<inputMode, focused, shownMode>>
  PROVE  GoodStep
<1>1. CASE Unmoved
  <2>1. IInv'
    BY <1>1, HiddenType DEF Unmoved, IInv, TypeOK, StateGood, TableReflectsState
  <2>2. CalmInv => CalmInv'
    BY <1>1, <2>1 DEF Unmoved, CalmInv, DisplayReflectsState, IInv
  <2>3. Promise!Next
    BY <1>1 DEF Unmoved, IInv, TypeOK, Preedit, Promise!Next, Promise!Compose
  <2> QED BY <2>1, <2>2, <2>3 DEF GoodStep
<1>2. CASE Moved
  <2>1. /\ GoodState(state) /\ GoodState(state')
        /\ preedit' = StatePreedit(state') /\ table' = StateTable(state')
    BY <1>2 DEF Moved
  <2>2. /\ state # NilState /\ state' # NilState /\ state' \in State
        /\ preedit' \in Preedit /\ preedit'.text = ComposedText(state')
        /\ table' \in Table
        /\ ComposedText(state) \in Text /\ ComposedText(state') \in Text
    BY <2>1, GoodStateIsState, StatePreeditType, StateTableType, ComposedTextType
  <2>3. committed' \in Text
    BY <1>2, <2>2, SpaceType, HiddenType DEF Moved
  <2>4. TypeOK'
    BY <2>2, <2>3 DEF IInv, TypeOK
  <2>5. IInv' BY <2>1, <2>2, <2>4 DEF IInv, StateGood, TableReflectsState
  <2>6. CalmInv => CalmInv'
    BY <2>1, <2>2, <2>5 DEF CalmInv, DisplayReflectsState, IInv
  <2>7. CalmInv => preedit.text = ComposedText(state)
    BY <2>1, <2>2, StatePreeditType DEF CalmInv, DisplayReflectsState
  <2>8. CalmInv => Promise!Next
    BY <1>2, <2>2, <2>7
       DEF Moved, Space, Promise!Next, Promise!Compose, Promise!Commit, Promise!CommitSpace
  <2> QED BY <2>5, <2>6, <2>8 DEF GoodStep
<1> QED BY <1>1, <1>2

\* The preedit is given to the application, or was dropped.
LEMMA PreeditGivenStep ==
  ASSUME TypeOK, preedit' = HiddenPreedit, committed' \in {<<>>, preedit.text}
  PROVE  Promise!Next /\ preedit' \in Preedit /\ committed' \in Text
<1>1. preedit.text \in Text /\ <<>> \in Text /\ preedit'.text = <<>>
  BY HiddenType DEF TypeOK, Preedit, HiddenPreedit
<1> QED BY <1>1, HiddenType DEF Promise!Next, Promise!Compose, Promise!Commit

LEMMA ToggleStep == IInv /\ ToggleInputMode => GoodStep
<1> SUFFICES ASSUME IInv, ToggleInputMode PROVE GoodStep OBVIOUS
<1>1. /\ preedit' = HiddenPreedit /\ table' = HiddenTable /\ committed' = <<>>
      /\ focused' = focused /\ reply' = reply /\ shownMode' = inputMode'
      /\ focused
      /\ inputMode' = IF inputMode = "hiragana" THEN "direct" ELSE "hiragana"
      /\ state' = IF inputMode = "hiragana" THEN NilState ELSE EmptyInputting
  BY DEF ToggleInputMode, ProxyToggleInputMode, ToggleMode, UpdatePropInputMode
<1>2. Promise!Next /\ preedit' \in Preedit /\ committed' \in Text
  BY <1>1, PreeditGivenStep DEF IInv
<1>3. EmptyInputting \in State /\ EmptyInputting # NilState /\ GoodState(EmptyInputting)
  BY EmptyInputtingGood, GoodStateIsState
<1>4. inputMode' \in InputMode /\ (inputMode' = "hiragana" <=> state' # NilState)
  BY <1>1, <1>3 DEF InputMode
<1>5. state' \in State \cup {NilState} /\ (state' # NilState => GoodState(state'))
  BY <1>1, <1>3
<1>6. TypeOK' BY <1>1, <1>2, <1>4, <1>5, HiddenType DEF IInv, TypeOK
<1>7. IInv' BY <1>1, <1>5, <1>6 DEF IInv, StateGood, TableReflectsState
<1>8. CalmInv'
  BY <1>1, <1>7, EmptyShowsNothing DEF CalmInv, DisplayReflectsState, IInv
<1> QED BY <1>2, <1>7, <1>8 DEF GoodStep

\* The focus arrives where nothing is composed.
LEMMA FocusInStep == IInv /\ FocusIn => GoodStep
<1> SUFFICES ASSUME IInv, FocusIn PROVE GoodStep OBVIOUS
<1>1. /\ state' = state /\ reply' = reply /\ inputMode' = inputMode
      /\ preedit' = preedit /\ table' = table /\ committed' = <<>>
      /\ ~focused /\ focused' = TRUE /\ shownMode' = "direct"
  BY DEF FocusIn, imeVars, UpdatePropInputMode
<1>2. TypeOK' BY <1>1, HiddenType DEF IInv, TypeOK, InputMode
<1>3. IInv' BY <1>1, <1>2 DEF IInv, StateGood, TableReflectsState
<1>4. CalmInv => CalmInv' BY <1>1, <1>3 DEF CalmInv, DisplayReflectsState, IInv
<1>5. Promise!Next BY <1>1 DEF IInv, TypeOK, Preedit, Promise!Next, Promise!Compose
<1> QED BY <1>3, <1>4, <1>5 DEF GoodStep

LEMMA FocusOutStep == IInv /\ FocusOut => GoodStep
<1> SUFFICES ASSUME IInv, FocusOut PROVE GoodStep OBVIOUS
<1>1. /\ state' = state /\ reply' = reply /\ inputMode' = inputMode
      /\ committed' = preedit.text /\ preedit' = HiddenPreedit /\ table' = HiddenTable
      /\ focused /\ focused' = FALSE /\ shownMode' = shownMode
      /\ LeaveComposing \/ preedit = HiddenPreedit
  BY DEF FocusOut, PreeditCommitted, imeVars
<1>2. Promise!Next /\ preedit' \in Preedit /\ committed' \in Text
  BY <1>1, PreeditGivenStep DEF IInv
<1>3. TypeOK' BY <1>1, <1>2, HiddenType DEF IInv, TypeOK
<1>4. IInv' BY <1>1, <1>3 DEF IInv, StateGood, TableReflectsState
<1>5. ~LeaveComposing /\ CalmInv => CalmInv'
  BY <1>1, <1>4 DEF CalmInv, DisplayReflectsState, IInv
<1> QED BY <1>2, <1>4, <1>5 DEF GoodStep

LEMMA DisableStep == IInv /\ Disable => GoodStep
<1> SUFFICES ASSUME IInv, Disable PROVE GoodStep OBVIOUS
<1>1. /\ state' = NilState /\ reply' = [consumed |-> FALSE, view |-> NoView]
      /\ inputMode' = "direct"
      /\ committed' = preedit.text /\ preedit' = HiddenPreedit /\ table' = HiddenTable
      /\ focused' = FALSE /\ shownMode' = shownMode
  BY DEF Disable, PreeditCommitted, ProxyResetIM, ResetToDirect
<1>2. Promise!Next /\ preedit' \in Preedit /\ committed' \in Text
  BY <1>1, PreeditGivenStep DEF IInv
<1>3. reply' \in Reply BY <1>1 DEF Reply, View
<1>4. TypeOK' BY <1>1, <1>2, <1>3, HiddenType DEF IInv, TypeOK, InputMode
<1>5. IInv' BY <1>1, <1>4 DEF IInv, StateGood, TableReflectsState
<1>6. CalmInv' BY <1>1, <1>5 DEF CalmInv, DisplayReflectsState, IInv
<1> QED BY <1>2, <1>5, <1>6 DEF GoodStep

LEMMA InitGood == Init => IInv /\ CalmInv /\ Promise!Init
<1> SUFFICES ASSUME Init PROVE IInv /\ CalmInv /\ Promise!Init OBVIOUS
<1>1. reply \in Reply BY DEF Init, Reply, View
<1>2. TypeOK BY <1>1, HiddenType DEF Init, TypeOK, InputMode
<1>3. IInv BY <1>2 DEF Init, IInv, StateGood, TableReflectsState
<1>4. CalmInv BY <1>3 DEF Init, CalmInv, DisplayReflectsState, IInv
<1>5. Promise!Init BY DEF Init, Promise!Init, HiddenPreedit
<1> QED BY <1>3, <1>4, <1>5

LEMMA NextGood == IInv /\ [Next]_vars => GoodStep
<1> SUFFICES ASSUME IInv, [Next]_vars PROVE GoodStep OBVIOUS
<1>1. ASSUME NEW key \in Key, ProcessKeyEvent(key) PROVE GoodStep
  <2>1. inputMode' = inputMode
    BY <1>1 DEF ProcessKeyEvent, ProxyProcessInput, KeyInMode
  <2> QED BY <1>1, <2>1, KeyMoves, MovedStep DEF ProcessKeyEvent
<1>2. ASSUME NEW i \in 0..(Len(table.candidates) - 1), CandidateClicked(i)
      PROVE  GoodStep
  <2>1. i \in Int OBVIOUS
  <2>2. inputMode' = inputMode
    BY <1>2 DEF CandidateClicked, ProxySelectCandidate, ClickInMode
  <2> QED BY <1>2, <2>1, <2>2, ClickMoves, MovedStep DEF CandidateClicked
<1>3. CASE ToggleInputMode BY <1>3, ToggleStep
<1>4. CASE FocusIn BY <1>4, FocusInStep
<1>5. CASE FocusOut BY <1>5, FocusOutStep
<1>6. CASE Disable BY <1>6, DisableStep
<1>7. CASE UNCHANGED vars
  <2>1. /\ state' = state /\ reply' = reply /\ inputMode' = inputMode /\ focused' = focused
        /\ shownMode' = shownMode /\ preedit' = preedit /\ table' = table
        /\ committed' = committed
    BY <1>7 DEF vars, imeVars
  <2>2. IInv' BY <2>1 DEF IInv, TypeOK, StateGood, TableReflectsState
  <2>3. CalmInv => CalmInv' BY <2>1, <2>2 DEF CalmInv, DisplayReflectsState, IInv
  <2>4. UNCHANGED Promise!vars BY <2>1 DEF Promise!vars
  <2> QED BY <2>2, <2>3, <2>4 DEF GoodStep
<1> QED BY <1>1, <1>2, <1>3, <1>4, <1>5, <1>6, <1>7 DEF Next

-----------------------------------------------------------------------------
(* Theorems.                                                               *)

LEMMA Invariance == Spec => []IInv
<1>1. IInv /\ [Next]_vars => IInv' BY NextGood DEF GoodStep
<1> QED BY <1>1, InitGood, PTL DEF Spec

LEMMA CalmInvariance == ASSUME ~LeaveComposing PROVE Spec => []CalmInv
<1>1. IInv /\ CalmInv /\ [Next]_vars => CalmInv' BY NextGood DEF GoodStep
<1> QED BY <1>1, Invariance, InitGood, PTL DEF Spec

\* The states, the answers and what is displayed have the shapes the code
\* gives them, and there is a state of the fcitx state machine exactly in
\* hiragana mode (stateful-ime.lisp).
THEOREM TypeCorrect == Spec => []TypeOK
<1>1. IInv => TypeOK BY DEF IInv
<1> QED BY <1>1, Invariance, PTL

\* A table on the screen is that of the shared state, wherever the focus goes:
\* the entry clicked is the entry chosen (CandidateClicked in main.cpp).
THEOREM ClicksMeanWhatIsSeen == Spec => []TableReflectsState
<1>1. IInv => TableReflectsState BY DEF IInv
<1> QED BY <1>1, Invariance, PTL

\* While the focus stays where text is composed, the screen shows the state
\* (Show and the focus handlers in main.cpp).
THEOREM DisplayNeverStale == ASSUME ~LeaveComposing PROVE Spec => []DisplayReflectsState
<1>1. CalmInv => DisplayReflectsState BY DEF CalmInv
<1> QED BY <1>1, CalmInvariance, PTL

\* Under the same condition an application receives the text in sight, also
\* from the daemon and when the user turns to another input method, or a space
\* when there was none.
THEOREM CommitsWhatIsInSight == ASSUME ~LeaveComposing PROVE Spec => ImplementsComposer
<1>1. IInv /\ CalmInv /\ [Next]_vars => [Promise!Next]_Promise!vars
  BY NextGood DEF GoodStep
<1> QED BY <1>1, InitGood, Invariance, CalmInvariance, PTL
    DEF Spec, ImplementsComposer, Promise!Spec
=============================================================================

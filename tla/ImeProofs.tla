------------------------------ MODULE ImeProofs ------------------------------
(***************************************************************************)
(* Every request to the fcitx input method keeps its state well-formed,    *)
(* answers with the view of the state it leaves behind, and makes of the   *)
(* state one of a few things (Outcome), none of which loses a text, shows  *)
(* predictions of another text or moves a candidate from its place.        *)
(***************************************************************************)
EXTENDS FcitxIme, DataProofs

\* A state of the right shape whose indices are positions of their lists.
GoodState(s) == s \in State /\ IndicesIn(s)

-----------------------------------------------------------------------------
(* The states that every input method has.                                 *)

LEMMA GoodKinds ==
  ASSUME NEW s
  PROVE  /\ GoodState(s) /\ s.kind = "inputting" <=> GoodTyping(s)
         /\ GoodState(s) /\ s.kind = "converting" <=> GoodConversion(s)
<1>1. ASSUME GoodState(s), s.kind = "inputting" PROVE GoodTyping(s)
  <2>1. s \in InputtingState
    BY <1>1 DEF GoodState, State, ConvertingState, KatakanaState, SelectingState
  <2> QED BY <1>1, <2>1 DEF GoodState, GoodTyping, IndicesIn
<1>2. ASSUME GoodTyping(s) PROVE GoodState(s) /\ s.kind = "inputting"
  <2>1. s.kind = "inputting" BY <1>2 DEF GoodTyping, InputtingState
  <2> QED BY <1>2, <2>1 DEF GoodState, State, IndicesIn, GoodTyping
<1>3. ASSUME GoodState(s), s.kind = "converting" PROVE GoodConversion(s)
  <2>1. s \in ConvertingState
    BY <1>3 DEF GoodState, State, InputtingState, KatakanaState, SelectingState
  <2> QED BY <1>3, <2>1 DEF GoodState, GoodConversion, IndicesIn
<1>4. ASSUME GoodConversion(s) PROVE GoodState(s) /\ s.kind = "converting"
  <2>1. s.kind = "converting" BY <1>4 DEF GoodConversion, ConvertingState
  <2> QED BY <1>4, <2>1 DEF GoodState, State, IndicesIn, GoodConversion
<1> QED BY <1>1, <1>2, <1>3, <1>4

LEMMA GoodInputting ==
  ASSUME NEW b, BufferValid(b), Fits(b.string), NEW predictions \in Seq(String)
  PROVE  GoodState(InputtingWith(b, predictions))
         /\ InputtingWith(b, predictions) \in InputtingState
BY TypingIsGood, GoodKinds DEF GoodTyping

LEMMA EmptyInputtingGood == GoodState(EmptyInputting) /\ EmptyInputting \in InputtingState
BY EmptyTyping, GoodKinds DEF GoodTyping

LEMMA InputtingBuffer ==
  ASSUME NEW s, GoodState(s), s.kind = "inputting"
  PROVE  /\ s \in InputtingState
         /\ s = InputtingWith(s.buffer, s.predictions)
         /\ s.predictions \in Seq(String)
         /\ BufferValid(s.buffer) /\ Fits(s.buffer.string)
         /\ s.buffer.string \in Strings
BY GoodKinds, TypingBuffer

LEMMA GoodWithBuffer ==
  ASSUME NEW b, BufferValid(b), Fits(b.string)
  PROVE  GoodState(WithBuffer(b)) /\ WithBuffer(b) \in InputtingState
BY TypedIsGood, GoodKinds DEF GoodTyping

LEMMA PronType ==
  ASSUME NEW s, GoodState(s), s.kind = "inputting"
  PROVE  GetPron(s) \in String
BY GoodKinds, PronOfTyping

LEMMA ConvertingParts ==
  ASSUME NEW s, GoodState(s), s.kind = "converting"
  PROVE  /\ s \in ConvertingState
         /\ s.segments \in Seq(Segment) /\ Len(s.segments) \in Nat
         /\ s.current \in 0..(Len(s.segments) - 1)
         /\ s.current + 1 \in 1..Len(s.segments)
         /\ \A k \in 1..Len(s.segments) :
              /\ s.segments[k] \in Segment
              /\ s.segments[k].index \in 0..(Len(s.segments[k].candidates) - 1)
         /\ s.pron \in Strings
<1>1. GoodConversion(s) BY GoodKinds
<1> QED BY <1>1, ConversionParts

LEMMA FormsType ==
  ASSUME NEW s, GoodState(s), s.kind = "converting"
  PROVE  CurrentForms(s) \in Text /\ Len(CurrentForms(s)) = Len(s.segments)
BY GoodKinds, FormsOfConversion

LEMMA GoodCandidatesMove ==
  ASSUME NEW s, GoodState(s), s.kind = "converting",
         NEW diff \in {1, -1}, NEW answer \in Seq(String)
  PROVE  /\ GoodState(CandidatesMove(s, diff, answer))
         /\ CandidatesMove(s, diff, answer).kind = "converting"
BY GoodKinds, CandidatesMoved

LEMMA GoodCandidatesSet ==
  ASSUME NEW s, GoodState(s), s.kind = "converting", NEW i \in Int
  PROVE  GoodState(CandidatesSet(s, i)) /\ CandidatesSet(s, i).kind = "converting"
BY GoodKinds, CandidatesChosen

LEMMA GoodKatakana ==
  ASSUME NEW s, GoodState(s), s.kind = "converting"
  PROVE  GoodState(CurrentKatakana(s)) /\ CurrentKatakana(s).kind = "converting"
BY GoodKinds, KatakanaMade

LEMMA GoodSegmentMove ==
  ASSUME NEW s, GoodState(s), s.kind = "converting", NEW diff \in {1, -1}
  PROVE  GoodState(SegmentMove(s, diff)) /\ SegmentMove(s, diff).kind = "converting"
BY GoodKinds, SegmentMoved

LEMMA GoodConverted ==
  ASSUME NEW pron \in Strings, NEW answer \in Conversions(pron)
  PROVE  GoodState(ConvertedWith(pron, answer)) /\ ConvertedWith(pron, answer).kind = "converting"
<1>1. answer \in Seq(KkcSegment) /\ answer # <<>> BY ConvertingAssumption
<1>2. GoodConversion(ConvertedWith(pron, answer)) BY <1>1, ConvertedIsGood
<1> QED BY <1>2, GoodKinds

-----------------------------------------------------------------------------
(* The remaining states, and views.                                        *)

LEMMA SelectingParts ==
  ASSUME NEW s, GoodState(s), s.kind = "selecting"
  PROVE  /\ s \in SelectingState
         /\ s.predictions \in Seq(String) /\ Len(s.predictions) \in Nat
         /\ s.index \in 0..(Len(s.predictions) - 1)
         /\ CurrentPrediction(s) \in String
<1>1. s \in SelectingState
  BY DEF GoodState, State, InputtingState, ConvertingState, KatakanaState, SelectingState
<1>2. s.predictions \in Seq(String) /\ Len(s.predictions) \in Nat
  BY <1>1, LenProperties DEF SelectingState
<1>3. s.index \in 0..(Len(s.predictions) - 1) BY DEF GoodState, IndicesIn
<1>4. s.index + 1 \in 1..Len(s.predictions) BY <1>2, <1>3
<1>5. s.predictions[s.index + 1] \in String BY <1>2, <1>4, ElementOfSeq
<1> QED BY <1>1, <1>2, <1>3, <1>5 DEF CurrentPrediction

LEMMA GoodSelecting ==
  ASSUME NEW predictions \in Seq(String), NEW i \in 0..(Len(predictions) - 1)
  PROVE  GoodState(Selecting(predictions, i)) /\ Selecting(predictions, i).kind = "selecting"
<1>1. i \in Nat OBVIOUS
<1>2. Selecting(predictions, i) \in SelectingState BY <1>1 DEF Selecting, SelectingState
<1>3. IndicesIn(Selecting(predictions, i)) BY DEF IndicesIn, Selecting
<1> QED BY <1>2, <1>3 DEF GoodState, State, Selecting

LEMMA GoodSelectingMove ==
  ASSUME NEW s, GoodState(s), s.kind = "selecting", NEW diff \in {1, -1}
  PROVE  GoodState(SelectingMove(s, diff)) /\ SelectingMove(s, diff).kind = "selecting"
<1>1. CASE s.index + diff \in 0..(Len(s.predictions) - 1)
  <2>1. SelectingMove(s, diff) = Selecting(s.predictions, s.index + diff)
    BY <1>1, SelectingParts DEF SelectingMove, SelectingState, Selecting
  <2> QED BY <1>1, <2>1, SelectingParts, GoodSelecting
<1>2. CASE s.index + diff \notin 0..(Len(s.predictions) - 1)
  BY <1>2 DEF SelectingMove
<1> QED BY <1>1, <1>2

LEMMA GoodKatakanaState ==
  ASSUME NEW s, GoodState(s), s.kind = "katakana"
  PROVE  s \in KatakanaState /\ s.input \in String
<1>1. s \in KatakanaState
  BY DEF GoodState, State, InputtingState, ConvertingState, KatakanaState, SelectingState
<1> QED BY <1>1, StringsAreBounded DEF KatakanaState

LEMMA KindOfState ==
  ASSUME NEW s, GoodState(s)
  PROVE  s.kind \in {"inputting", "converting", "katakana", "selecting"}
BY DEF GoodState, State, InputtingState, ConvertingState, KatakanaState, SelectingState

EditingViews ==
  [kind : {"editing"}, before : Text, input : Text,
   predictions : Seq(String), index : Int, committed : Text]

LEMMA CommittingViewType ==
  ASSUME NEW s, GoodState(s), s.kind = "inputting", NEW text \in Text
  PROVE  CommittingView(s, text) \in EditingViews
<1>1. s.buffer.string \in String /\ Before(s.buffer) \in String
  BY InputtingBuffer, StringsAreBounded, BeforeAfter DEF BufferValid
<1>2. Shown(s.buffer.string) \in Text /\ Shown(Before(s.buffer)) \in Text
  BY <1>1, ShownType
<1> QED BY <1>2, InputtingBuffer DEF CommittingView, EditingViews

\* What a state shows is well-formed, and commits nothing.
LEMMA StateViewType ==
  ASSUME NEW s, GoodState(s)
  PROVE  /\ StateView(s) \in View
         /\ s.kind # "converting" => /\ StateView(s) \in EditingViews
                                     /\ StateView(s).committed = <<>>
         /\ s.kind = "converting" => StateView(s).kind = "converting"
<1>0. <<>> \in Text /\ <<>> \in Seq(String) BY DEF Text
<1>1. CASE s.kind = "inputting"
  <2>1. StateView(s) = CommittingView(s, <<>>) BY <1>1 DEF StateView, InputtingView
  <2>2. CommittingView(s, <<>>).committed = <<>> BY DEF CommittingView
  <2> QED BY <1>0, <1>1, <2>1, <2>2, CommittingViewType DEF View, EditingViews
<1>2. CASE s.kind = "katakana"
  <2>1. StateView(s) = KatakanaView(s) BY <1>2 DEF StateView
  <2>2. Shown(s.input) \in Text BY <1>2, GoodKatakanaState, ShownType
  <2>3. KatakanaView(s) \in EditingViews /\ KatakanaView(s).committed = <<>>
    BY <1>0, <2>2 DEF KatakanaView, EditingViews
  <2> QED BY <1>2, <2>1, <2>3 DEF View, EditingViews
<1>3. CASE s.kind = "selecting"
  <2>1. StateView(s) = SelectingView(s) BY <1>3 DEF StateView
  <2>2. Shown(CurrentPrediction(s)) \in Text BY <1>3, SelectingParts, ShownType
  <2>3. s.predictions \in Seq(String) /\ s.index \in Int BY <1>3, SelectingParts
  <2>4. SelectingView(s) \in EditingViews /\ SelectingView(s).committed = <<>>
    BY <1>0, <2>2, <2>3 DEF SelectingView, EditingViews
  <2> QED BY <1>3, <2>1, <2>4 DEF View, EditingViews
<1>4. CASE s.kind = "converting"
  <2>1. StateView(s) = ConvertingView(s) BY <1>4 DEF StateView
  <2>2. CurrentForms(s) \in Text /\ s.current \in Nat
    BY <1>4, FormsType, ConvertingParts DEF ConvertingState
  <2>3. CurrentSegment(s) \in Segment
    BY <1>4, ConvertingParts DEF CurrentSegment
  <2>4. /\ CurrentSegment(s).candidates \in Seq(String)
        /\ CurrentSegment(s).index \in Int
    BY <2>3 DEF Segment
  <2>5. /\ ConvertingView(s) \in [kind : {"converting"}, forms : Text, current : Nat,
                                  candidates : Seq(String), index : Int]
        /\ ConvertingView(s).kind = "converting"
    BY <1>0, <2>2, <2>4 DEF ConvertingView
  <2> QED BY <1>4, <2>1, <2>5 DEF View
<1> QED BY <1>1, <1>2, <1>3, <1>4, KindOfState

-----------------------------------------------------------------------------
(* Answers.                                                                *)

\* The text that a commit of the state s gives to the application.
ComposedText(s) ==
  IF s.kind = "converting" THEN CurrentForms(s) ELSE StateView(s).input

\* How a view answers a request that led from s to t.
AnswerOf(s, t, view) ==
  \/ view = NoView /\ t = s
  \/ view = StateView(t)
  \/ t.kind = "inputting" /\ view = CommittingView(t, ComposedText(s))
  \/ /\ ComposedText(s) = <<>>
     /\ t = EmptyInputting
     /\ view = CommittingView(t, <<<<FullSpace>>>>)

Answered ==
  /\ GoodState(state')
  /\ reply' \in Reply
  /\ AnswerOf(state, state', reply'.view)

LEMMA ComposedTextType ==
  ASSUME NEW s, GoodState(s)
  PROVE  ComposedText(s) \in Text
<1>1. CASE s.kind = "converting" BY <1>1, FormsType DEF ComposedText
<1>2. CASE s.kind # "converting"
  BY <1>2, StateViewType DEF ComposedText, EditingViews
<1> QED BY <1>1, <1>2

LEMMA PassAnswers ==
  ASSUME GoodState(state), Pass
  PROVE  Answered
BY DEF Pass, Answered, AnswerOf, Reply, View

LEMMA ShowAnswers ==
  ASSUME NEW t, GoodState(t), Respond(StateView(t), t)
  PROVE  Answered
<1>1. StateView(t) \in View BY StateViewType
<1>2. reply' = [consumed |-> TRUE, view |-> StateView(t)] /\ state' = t BY DEF Respond
<1>3. reply' \in Reply /\ reply'.view = StateView(t) BY <1>1, <1>2 DEF Reply
<1> QED BY <1>2, <1>3 DEF Answered, AnswerOf

LEMMA CommitAnswers ==
  ASSUME GoodState(state), NEW t, GoodState(t), t.kind = "inputting",
         CommitTo(ComposedText(state), t)
  PROVE  Answered
<1> DEFINE view == CommittingView(t, ComposedText(state))
<1>1. view \in View BY ComposedTextType, CommittingViewType DEF View, EditingViews
<1>2. reply' = [consumed |-> TRUE, view |-> view] /\ state' = t BY DEF CommitTo, Respond
<1>3. reply' \in Reply /\ reply'.view = view
  <2> HIDE DEF view
  <2> QED BY <1>1, <1>2 DEF Reply
<1> QED BY <1>2, <1>3 DEF Answered, AnswerOf

LEMMA EmptyInputtingKind == EmptyInputting.kind = "inputting"
BY DEF EmptyInputting, InputtingWith

LEMMA KatakanaAnswers ==
  ASSUME GoodState(state), NEW key \in Key, KatakanaKey(key)
  PROVE  Answered
<1>1. state.kind = "katakana" BY DEF KatakanaKey
<1>2. StateView(state) = KatakanaView(state) BY <1>1 DEF StateView
<1>3. CASE key.sym = "enter"
  <2>1. ComposedText(state) = Shown(state.input)
    BY <1>1, <1>2 DEF ComposedText, KatakanaView
  <2>2. CommitTo(ComposedText(state), EmptyInputting)
    BY <1>3, <2>1 DEF KatakanaKey, Commit
  <2> QED BY <2>2, CommitAnswers, EmptyInputtingGood, EmptyInputtingKind
<1>4. CASE key.sym # "enter"
  <2>1. Respond(StateView(state), state) BY <1>2, <1>4 DEF KatakanaKey, Swallow
  <2> QED BY <2>1, ShowAnswers
<1> QED BY <1>3, <1>4

LEMMA SelectingAnswers ==
  ASSUME GoodState(state), NEW key \in Key, SelectingKey(key)
  PROVE  Answered
<1>1. state.kind = "selecting" BY DEF SelectingKey
<1>2. StateView(state) = SelectingView(state) BY <1>1 DEF StateView
<1>3. CASE Commit(Shown(CurrentPrediction(state)))
  <2>1. ComposedText(state) = Shown(CurrentPrediction(state))
    BY <1>1, <1>2 DEF ComposedText, SelectingView
  <2>2. CommitTo(ComposedText(state), EmptyInputting) BY <1>3, <2>1 DEF Commit
  <2> QED BY <2>2, CommitAnswers, EmptyInputtingGood, EmptyInputtingKind
<1>4. ASSUME NEW diff \in {1, -1},
             Respond(SelectingView(SelectingMove(state, diff)), SelectingMove(state, diff))
      PROVE  Answered
  <2> DEFINE t == SelectingMove(state, diff)
  <2>1. GoodState(t) /\ t.kind = "selecting" BY <1>1, GoodSelectingMove
  <2>2. StateView(t) = SelectingView(t) BY <2>1 DEF StateView
  <2>3. Respond(StateView(t), t) BY <1>4, <2>2
  <2> QED BY <2>1, <2>3, ShowAnswers
<1>5. CASE Swallow(SelectingView(state)) BY <1>2, <1>5, ShowAnswers DEF Swallow
<1> QED BY <1>3, <1>4, <1>5 DEF SelectingKey

LEMMA ConvertAnswers ==
  ASSUME NEW t, GoodState(t), t.kind = "converting", Convert(t)
  PROVE  Answered
<1>1. StateView(t) = ConvertingView(t) BY DEF StateView
<1> QED BY <1>1, ShowAnswers DEF Convert

LEMMA EditAnswers ==
  ASSUME NEW t, GoodState(t), t.kind = "inputting", Respond(InputtingView(t), t)
  PROVE  Answered
<1>1. StateView(t) = InputtingView(t) BY DEF StateView
<1> QED BY <1>1, ShowAnswers

\* The list kept of what the engine answered is a list of strings.
LEMMA AskedType ==
  ASSUME GoodState(state), state.kind = "converting",
         NEW answer \in CandidateLists(CurrentSegment(state).pron)
  PROVE  TakeFirst(answer, MaxCandidateCount) \in Seq(String)
<1>1. CurrentSegment(state) \in Segment BY ConvertingParts DEF CurrentSegment
<1>2. CurrentSegment(state).pron \in Strings BY <1>1 DEF Segment
<1>3. answer \in Seq(String) BY <1>2, ConvertingAssumption
<1> QED BY <1>3, TakeFirstType, InputtingAssumption

LEMMA ConvertingAnswers ==
  ASSUME GoodState(state), NEW key \in Key, ConvertingKey(key)
  PROVE  Answered
<1>1. state.kind = "converting" BY DEF ConvertingKey
<1>2. ComposedText(state) = CurrentForms(state) BY <1>1 DEF ComposedText
<1>3. CASE ConvertingSegmentMove(key)
  <2>1. ASSUME NEW diff \in {1, -1}, Convert(SegmentMove(state, diff))
        PROVE  Answered
    BY <1>1, <2>1, GoodSegmentMove, ConvertAnswers
  <2> QED BY <1>3, <2>1 DEF ConvertingSegmentMove
<1>4. CASE ConvertingCandidate(key)
  <2>1. PICK answer \in CandidateLists(CurrentSegment(state).pron) :
          \/ Convert(CandidatesMove(state, 1, TakeFirst(answer, MaxCandidateCount)))
          \/ Convert(CandidatesMove(state, -1, TakeFirst(answer, MaxCandidateCount)))
    BY <1>4 DEF ConvertingCandidate
  <2>2. TakeFirst(answer, MaxCandidateCount) \in Seq(String) BY <1>1, AskedType
  <2>3. ASSUME NEW diff \in {1, -1},
               Convert(CandidatesMove(state, diff, TakeFirst(answer, MaxCandidateCount)))
        PROVE  Answered
    BY <1>1, <2>2, <2>3, GoodCandidatesMove, ConvertAnswers
  <2> QED BY <2>1, <2>3
<1>5. CASE ConvertingKatakana(key)
  BY <1>1, <1>5, GoodKatakana, ConvertAnswers DEF ConvertingKatakana
<1>6. CASE ConvertingBackspace(key)
  <2> DEFINE buffer == [string |-> state.pron, cursor |-> Len(state.pron)]
             t == InputtingWith(buffer, <<>>)
  <2>1. state.pron \in String /\ Len(state.pron) \in Nat /\ Len(state.pron) <= MaxLen
    BY <1>1, ConvertingParts, StringsAreBounded, LenProperties DEF String
  <2>2. BufferValid(buffer) /\ Fits(buffer.string)
    BY <2>1 DEF BufferValid, Buffer, Fits
  <2>3. t.kind = "inputting" BY DEF InputtingWith
  <2>4. <<>> \in Seq(String) OBVIOUS
  <2>5. GoodState(t) BY <2>2, <2>4, GoodInputting
  <2>6. Respond(InputtingView(t), t) BY <1>6 DEF ConvertingBackspace
  <2> QED BY <2>3, <2>5, <2>6, EditAnswers
<1>7. CASE ConvertingChar(key)
  <2> DEFINE buffer == InsertChar(EmptyBuffer, key.sym)
             t == InputtingWith(buffer, <<>>)
  <2>1. key.sym \in Char BY <1>7, ImeAssumption DEF ConvertingChar, CharP
  <2>2. BufferValid(buffer) BY <2>1, EmptyBufferValid, InsertCharValid
  <2>3. Fits(buffer.string) /\ CommitTo(ComposedText(state), t)
    BY <1>2, <1>7 DEF ConvertingChar
  <2>4. <<>> \in Seq(String) OBVIOUS
  <2>5. t.kind = "inputting" BY DEF InputtingWith
  <2> HIDE DEF buffer
  <2>6. GoodState(t) BY <2>2, <2>3, <2>4, GoodInputting
  <2> QED BY <2>3, <2>5, <2>6, CommitAnswers
<1>8. CASE ConvertingCommit(key)
  <2>1. CommitTo(ComposedText(state), EmptyInputting)
    BY <1>2, <1>8 DEF ConvertingCommit, Commit
  <2> QED BY <2>1, CommitAnswers, EmptyInputtingGood, EmptyInputtingKind
<1> QED BY <1>3, <1>4, <1>5, <1>6, <1>7, <1>8 DEF ConvertingKey

LEMMA InputtingAnswers ==
  ASSUME GoodState(state), NEW key \in Key, InputtingKey(key)
  PROVE  Answered
<1>1. state.kind = "inputting" BY DEF InputtingKey
<1>2. /\ state \in InputtingState /\ BufferValid(state.buffer) /\ Fits(state.buffer.string)
      /\ state.predictions \in Seq(String) /\ state.buffer.string \in Strings
      /\ state = InputtingWith(state.buffer, state.predictions)
  BY <1>1, InputtingBuffer
<1>3. StateView(state) = InputtingView(state) BY <1>1 DEF StateView
<1>4. ComposedText(state) = Shown(state.buffer.string)
  BY <1>1, <1>3 DEF ComposedText, InputtingView, CommittingView
<1>5. CASE Pass BY <1>5, PassAnswers
<1>6. CASE InputtingModified(key)
  BY <1>1, <1>6, PassAnswers, EditAnswers DEF InputtingModified, Swallow
<1>7. CASE InputtingTab(key)
  <2> DEFINE t == Selecting(state.predictions, 0)
  <2>1. CASE state.predictions # <<>>
    <3>1. Len(state.predictions) \in Nat \ {0} BY <1>2, <2>1, EmptySeq
    <3>2. 0 \in 0..(Len(state.predictions) - 1) BY <3>1
    <3>3. GoodState(t) /\ t.kind = "selecting" BY <1>2, <3>2, GoodSelecting
    <3>4. StateView(t) = SelectingView(t) BY <3>3 DEF StateView
    <3>5. Respond(StateView(t), t) BY <1>7, <2>1, <3>4 DEF InputtingTab
    <3> QED BY <3>3, <3>5, ShowAnswers
  <2> QED BY <1>5, <1>7, <2>1 DEF InputtingTab
<1>8. CASE InputtingChar(key)
  <2> DEFINE buffer == InsertChar(state.buffer, key.sym)
             t == WithBuffer(buffer)
  <2>1. key.sym \in Char BY <1>8, ImeAssumption DEF InputtingChar, CharP
  <2>2. BufferValid(buffer) BY <1>2, <2>1, InsertCharValid
  <2>3. Fits(buffer.string) /\ Respond(InputtingView(t), t)
    BY <1>8 DEF InputtingChar, Edit, InputtingInsert
  <2>4. t.kind = "inputting" BY DEF WithBuffer, InputtingWith
  <2> HIDE DEF buffer
  <2>5. GoodState(t) BY <2>2, <2>3, GoodWithBuffer
  <2> QED BY <2>3, <2>4, <2>5, EditAnswers
<1>9. CASE InputtingF7(key)
  <2> DEFINE t == [kind |-> "katakana", input |-> ToKatakana(state.buffer.string)]
  <2>1. ToKatakana(state.buffer.string) \in Strings BY <1>2, KatakanaType
  <2>2. t \in KatakanaState /\ t.kind = "katakana" BY <2>1 DEF KatakanaState
  <2>3. Respond(KatakanaView(t), t) BY <1>9 DEF InputtingF7
  <2> HIDE DEF t
  <2>4. GoodState(t) BY <2>2 DEF GoodState, State, IndicesIn
  <2>5. StateView(t) = KatakanaView(t) BY <2>2 DEF StateView
  <2> QED BY <2>3, <2>4, <2>5, ShowAnswers
<1>10. CASE InputtingSpace(key)
  <2>1. CASE BufferEmpty(state)
    <3> DEFINE view == CommittingView(EmptyInputting, <<<<FullSpace>>>>)
    <3>1. reply' = [consumed |-> TRUE, view |-> view] /\ state' = EmptyInputting
      BY <1>10, <2>1 DEF InputtingSpace, Commit, CommitTo, Respond
    <3>2. <<<<FullSpace>>>> \in Text BY ImeAssumption DEF Text, String
    <3>3. view \in View
      BY <3>2, CommittingViewType, EmptyInputtingGood, EmptyInputtingKind
      DEF View, EditingViews
    <3>4. ComposedText(state) = <<>> BY <1>4, <2>1 DEF BufferEmpty, Shown
    <3>5. reply' \in Reply /\ reply'.view = view
      <4> HIDE DEF view
      <4> QED BY <3>1, <3>3 DEF Reply
    <3> QED BY <3>1, <3>4, <3>5, EmptyInputtingGood DEF Answered, AnswerOf
  <2>2. CASE ~BufferEmpty(state)
    <3>1. Fits(GetPron(state)) BY <1>10, <2>2 DEF InputtingSpace
    <3>2. GetPron(state) \in Strings
      BY <1>1, <3>1, PronType, StringsAreBounded DEF Fits
    <3>3. PICK answer \in Conversions(GetPron(state)) :
            Convert(ConvertedWith(GetPron(state), answer))
      BY <1>10, <2>2 DEF InputtingSpace
    <3> QED BY <3>2, <3>3, GoodConverted, ConvertAnswers
  <2> QED BY <2>1, <2>2
<1>11. CASE InputtingEnter(key)
  <2>1. CASE ~BufferEmpty(state)
    <3>1. CommitTo(ComposedText(state), EmptyInputting)
      BY <1>4, <1>11, <2>1 DEF InputtingEnter, Commit
    <3> QED BY <3>1, CommitAnswers, EmptyInputtingGood, EmptyInputtingKind
  <2> QED BY <1>5, <1>11, <2>1 DEF InputtingEnter
<1>12. CASE InputtingBackspace(key)
  <2>1. CASE ~BufferEmpty(state)
    <3> DEFINE buffer == DeleteChar(state.buffer)
               t == WithBuffer(buffer)
    <3>1. BufferValid(buffer) /\ Fits(buffer.string)
      <4>1. /\ BufferValid(buffer) /\ Len(buffer.string) <= Len(state.buffer.string)
            /\ Len(buffer.string) \in Nat /\ Len(state.buffer.string) \in Nat
        BY <1>2, DeleteCharValid, LenProperties DEF BufferValid, Buffer, String
      <4> QED BY <1>2, <4>1, InputtingAssumption DEF Fits
    <3>2. Respond(InputtingView(t), t)
      BY <1>12, <2>1 DEF InputtingBackspace, Edit, InputtingDelete
    <3>3. t.kind = "inputting" BY DEF WithBuffer, InputtingWith
    <3> HIDE DEF buffer
    <3>4. GoodState(t) BY <3>1, GoodWithBuffer
    <3> QED BY <3>2, <3>3, <3>4, EditAnswers
  <2> QED BY <1>5, <1>12, <2>1 DEF InputtingBackspace
<1>13. CASE InputtingCursor(key)
  <2>1. ASSUME NEW buffer, BufferValid(buffer), buffer.string = state.buffer.string,
               Edit([state EXCEPT !.buffer = buffer])
        PROVE  Answered
    <3> DEFINE t == [state EXCEPT !.buffer = buffer]
    <3>1. t = InputtingWith(buffer, state.predictions)
      BY <1>2 DEF InputtingWith, InputtingState
    <3>2. t.kind = "inputting" BY <3>1 DEF InputtingWith
    <3>3. GoodState(t) BY <1>2, <2>1, <3>1, GoodInputting
    <3>4. Respond(InputtingView(t), t) BY <2>1 DEF Edit
    <3> HIDE DEF t
    <3> QED BY <3>2, <3>3, <3>4, EditAnswers
  <2>2. CASE Edit(InputtingLeft(state))
    BY <1>2, <2>1, <2>2, MoveCursorValid DEF InputtingLeft
  <2>3. CASE Edit(InputtingRight(state))
    BY <1>2, <2>1, <2>3, MoveCursorValid DEF InputtingRight
  <2> QED BY <1>13, <2>2, <2>3 DEF InputtingCursor
<1>14. CASE InputtingOther(key) BY <1>5, <1>14 DEF InputtingOther
<1> QED BY <1>6, <1>7, <1>8, <1>9, <1>10, <1>11, <1>12, <1>13, <1>14 DEF InputtingKey

-----------------------------------------------------------------------------
(* The requests.                                                           *)

LEMMA ProcessInputAnswers ==
  ASSUME GoodState(state), NEW key \in Key, ProcessInput(key)
  PROVE  Answered
BY KatakanaAnswers, SelectingAnswers, ConvertingAnswers, InputtingAnswers DEF ProcessInput

LEMMA SelectCandidateAnswers ==
  ASSUME GoodState(state), NEW i \in Int, SelectCandidate(i)
  PROVE  Answered
<1>1. CASE state.kind = "converting"
  <2>1. Convert(CandidatesSet(state, i)) BY <1>1 DEF SelectCandidate
  <2> QED BY <1>1, <2>1, GoodCandidatesSet, ConvertAnswers
<1>2. CASE state.kind = "inputting"
  <2> DEFINE t == Selecting(state.predictions, i)
  <2>1. CASE i \in 0..(Len(state.predictions) - 1)
    <3>1. GoodState(t) /\ t.kind = "selecting"
      BY <1>2, <2>1, InputtingBuffer, GoodSelecting
    <3>2. StateView(t) = SelectingView(t) BY <3>1 DEF StateView
    <3>3. Respond(StateView(t), t) BY <1>2, <2>1, <3>2 DEF SelectCandidate
    <3> QED BY <3>1, <3>3, ShowAnswers
  <2>2. CASE i \notin 0..(Len(state.predictions) - 1)
    BY <1>2, <2>2, PassAnswers DEF SelectCandidate
  <2> QED BY <2>1, <2>2
<1>3. CASE state.kind \in {"katakana", "selecting"}
  BY <1>3, PassAnswers DEF SelectCandidate
<1> QED BY <1>1, <1>2, <1>3, KindOfState

-----------------------------------------------------------------------------
(* What a request may make of the state.                                   *)

\* A conversion as it is changed by a key or a click.
Chosen(s, t) ==
  \/ \E diff \in {1, -1} : t = SegmentMove(s, diff)
  \/ t = CurrentKatakana(s)
  \/ \E i \in Int : t = CandidatesSet(s, i)
  \/ \E diff \in {1, -1} : \E answer \in CandidateLists(CurrentSegment(s).pron) :
       t = CandidatesMove(s, diff, TakeFirst(answer, MaxCandidateCount))

\* A typed text as it is changed by a key.
Edited(s, t) ==
  \/ \E ch \in Char : t = InputtingInsert(s, ch)
  \/ ~BufferEmpty(s) /\ t = InputtingDelete(s)
  \/ t = InputtingLeft(s) \/ t = InputtingRight(s)

\* From the state s to the state t, committing text.
Outcome(s, t, text) ==
  \/ t = s
  \/ t = EmptyInputting /\ (text = ComposedText(s) \/ ComposedText(s) = <<>>)
  \/ s.kind = "selecting" /\ \E diff \in {1, -1} : t = SelectingMove(s, diff)
  \/ s.kind = "converting" /\ Chosen(s, t)
  \/ /\ s.kind = "converting"
     /\ t = InputtingWith([string |-> s.pron, cursor |-> Len(s.pron)], <<>>)
  \/ /\ s.kind = "converting" /\ text = ComposedText(s)
     /\ \E ch \in Char : t = InputtingWith(InsertChar(EmptyBuffer, ch), <<>>)
  \/ s.kind = "inputting" /\ Edited(s, t)
  \/ /\ s.kind = "inputting"
     /\ \E i \in 0..(Len(s.predictions) - 1) : t = Selecting(s.predictions, i)
  \/ /\ s.kind = "inputting" /\ ~BufferEmpty(s)
     /\ t = [kind |-> "katakana", input |-> ToKatakana(s.buffer.string)]
  \/ /\ s.kind = "inputting" /\ ~BufferEmpty(s) /\ Fits(GetPron(s))
     /\ \E answer \in Conversions(GetPron(s)) : t = ConvertedWith(GetPron(s), answer)

\* The text a view commits.
CommittedBy(view) == IF view.kind = "editing" THEN view.committed ELSE <<>>

LEMMA CommitOutcome ==
  ASSUME NEW text, NEW t, CommitTo(text, t)
  PROVE  state' = t /\ CommittedBy(reply'.view) = text
BY DEF CommitTo, Respond, CommittedBy, CommittingView

LEMMA KeyOutcome ==
  ASSUME GoodState(state), NEW key \in Key, ProcessInput(key)
  PROVE  Outcome(state, state', CommittedBy(reply'.view))
<1> DEFINE text == CommittedBy(reply'.view)
<1>1. CASE KatakanaKey(key)
  <2>1. ComposedText(state) = Shown(state.input)
    BY <1>1 DEF KatakanaKey, ComposedText, StateView, KatakanaView
  <2>2. CASE Commit(Shown(state.input))
    BY <2>1, <2>2, CommitOutcome DEF Commit, Outcome
  <2> QED BY <1>1, <2>2 DEF KatakanaKey, Swallow, Respond, Outcome
<1>2. CASE SelectingKey(key)
  <2>1. ComposedText(state) = Shown(CurrentPrediction(state))
    BY <1>2 DEF SelectingKey, ComposedText, StateView, SelectingView
  <2>2. CASE Commit(Shown(CurrentPrediction(state)))
    BY <2>1, <2>2, CommitOutcome DEF Commit, Outcome
  <2> QED BY <1>2, <2>2 DEF SelectingKey, Swallow, Respond, Outcome
<1>3. CASE ConvertingKey(key)
  <2>1. state.kind = "converting" /\ ComposedText(state) = CurrentForms(state)
    BY <1>3 DEF ConvertingKey, ComposedText
  <2>2. CASE ConvertingSegmentMove(key) \/ ConvertingCandidate(key) \/ ConvertingKatakana(key)
    <3>1. Chosen(state, state')
      BY <2>2 DEF ConvertingSegmentMove, ConvertingCandidate, ConvertingKatakana, Convert,
                  Respond, Chosen
    <3> QED BY <2>1, <3>1 DEF Outcome
  <2>3. CASE ConvertingBackspace(key)
    BY <2>1, <2>3 DEF ConvertingBackspace, Respond, Outcome
  <2>4. CASE ConvertingChar(key)
    <3>1. key.sym \in Char BY <2>4, ImeAssumption DEF ConvertingChar, CharP
    <3>2. state' = InputtingWith(InsertChar(EmptyBuffer, key.sym), <<>>)
          /\ text = CurrentForms(state)
      BY <2>4, CommitOutcome DEF ConvertingChar
    <3> QED BY <2>1, <3>1, <3>2 DEF Outcome
  <2>5. CASE ConvertingCommit(key)
    BY <2>1, <2>5, CommitOutcome DEF ConvertingCommit, Commit, Outcome
  <2> QED BY <1>3, <2>2, <2>3, <2>4, <2>5 DEF ConvertingKey
<1>4. CASE InputtingKey(key)
  <2>1. state.kind = "inputting" /\ ComposedText(state) = Shown(state.buffer.string)
    BY <1>4 DEF InputtingKey, ComposedText, StateView, InputtingView, CommittingView
  <2>2. CASE state' = state BY <2>2 DEF Outcome
  <2>3. CASE InputtingModified(key)
    BY <2>2, <2>3 DEF InputtingModified, Pass, Swallow, Respond
  <2>4. CASE InputtingTab(key)
    <3>1. CASE state.predictions # <<>>
      <4>1. Len(state.predictions) \in Nat \ {0} BY <2>1, <3>1, InputtingBuffer, EmptySeq
      <4>2. 0 \in 0..(Len(state.predictions) - 1) BY <4>1
      <4>3. state' = Selecting(state.predictions, 0)
        BY <2>4, <3>1 DEF InputtingTab, Respond
      <4> QED BY <2>1, <4>2, <4>3 DEF Outcome
    <3> QED BY <2>2, <2>4, <3>1 DEF InputtingTab, Pass
  <2>5. CASE InputtingChar(key)
    <3>1. key.sym \in Char BY <2>5, ImeAssumption DEF InputtingChar, CharP
    <3>2. Edited(state, state') BY <2>5, <3>1 DEF InputtingChar, Edit, Respond, Edited
    <3> QED BY <2>1, <3>2 DEF Outcome
  <2>6. CASE InputtingF7(key)
    BY <2>1, <2>6 DEF InputtingF7, Respond, Outcome
  <2>7. CASE InputtingSpace(key)
    <3>1. CASE BufferEmpty(state)
      <4>1. ComposedText(state) = <<>> BY <2>1, <3>1 DEF BufferEmpty, Shown
      <4>2. state' = EmptyInputting
        BY <2>7, <3>1, CommitOutcome DEF InputtingSpace, Commit
      <4> QED BY <4>1, <4>2 DEF Outcome
    <3>2. CASE ~BufferEmpty(state)
      BY <2>1, <2>7, <3>2 DEF InputtingSpace, Convert, Respond, Outcome
    <3> QED BY <3>1, <3>2
  <2>8. CASE InputtingEnter(key)
    <3>1. CASE Commit(Shown(state.buffer.string))
      BY <2>1, <3>1, CommitOutcome DEF Commit, Outcome
    <3> QED BY <2>2, <2>8, <3>1 DEF InputtingEnter, Pass
  <2>9. CASE InputtingBackspace(key)
    <3>1. CASE ~BufferEmpty(state)
      <4>1. Edited(state, state')
        BY <2>9, <3>1 DEF InputtingBackspace, Edit, Respond, Edited
      <4> QED BY <2>1, <4>1 DEF Outcome
    <3> QED BY <2>2, <2>9, <3>1 DEF InputtingBackspace, Pass
  <2>10. CASE InputtingCursor(key)
    <3>1. Edited(state, state') BY <2>10 DEF InputtingCursor, Edit, Respond, Edited
    <3> QED BY <2>1, <3>1 DEF Outcome
  <2>11. CASE InputtingOther(key) BY <2>2, <2>11 DEF InputtingOther, Pass
  <2> QED BY <1>4, <2>3, <2>4, <2>5, <2>6, <2>7, <2>8, <2>9, <2>10, <2>11 DEF InputtingKey
<1> QED BY <1>1, <1>2, <1>3, <1>4 DEF ProcessInput

LEMMA ClickOutcome ==
  ASSUME GoodState(state), NEW i \in Int, SelectCandidate(i)
  PROVE  Outcome(state, state', CommittedBy(reply'.view))
<1>1. CASE state.kind = "converting"
  <2>1. state' = CandidatesSet(state, i) BY <1>1 DEF SelectCandidate, Convert, Respond
  <2> QED BY <1>1, <2>1 DEF Outcome, Chosen
<1>2. CASE state.kind = "inputting"
  BY <1>2 DEF SelectCandidate, Respond, Pass, Outcome
<1>3. CASE state.kind \notin {"converting", "inputting"}
  BY <1>3 DEF SelectCandidate, Pass, Outcome
<1> QED BY <1>1, <1>2, <1>3

LEMMA AskedList ==
  ASSUME NEW s, GoodState(s), s.kind = "converting",
         NEW answer \in CandidateLists(CurrentSegment(s).pron)
  PROVE  /\ answer \in Seq(String)
         /\ TakeFirst(answer, MaxCandidateCount) \in Seq(String)
         /\ CurrentSegment(s).pron \in Strings
<1>1. CurrentSegment(s).pron \in Strings BY ConvertingParts DEF CurrentSegment, Segment
<1>2. answer \in Seq(String) BY <1>1, ConvertingAssumption
<1> QED BY <1>1, <1>2, TakeFirstType, InputtingAssumption

LEMMA ChosenKind ==
  ASSUME NEW s, GoodState(s), s.kind = "converting", NEW t, Chosen(s, t)
  PROVE  t.kind = "converting"
<1>1. ASSUME NEW diff \in {1, -1}, t = SegmentMove(s, diff) PROVE t.kind = "converting"
  BY <1>1, GoodSegmentMove
<1>2. CASE t = CurrentKatakana(s) BY <1>2, GoodKatakana
<1>3. ASSUME NEW i \in Int, t = CandidatesSet(s, i) PROVE t.kind = "converting"
  BY <1>3, GoodCandidatesSet
<1>4. ASSUME NEW diff \in {1, -1}, NEW answer \in CandidateLists(CurrentSegment(s).pron),
             t = CandidatesMove(s, diff, TakeFirst(answer, MaxCandidateCount))
      PROVE  t.kind = "converting"
  BY <1>4, AskedList, GoodCandidatesMove
<1> QED BY <1>1, <1>2, <1>3, <1>4 DEF Chosen

-----------------------------------------------------------------------------
(* Predictions belong to their text.                                       *)

Fresh(s) ==
  s.kind = "inputting" => s.predictions \in {<<>>, ListPredictions(s.buffer.string)}

LEMMA FreshOutcome ==
  ASSUME NEW s, GoodState(s), Fresh(s), NEW t, NEW text, Outcome(s, t, text)
  PROVE  Fresh(t)
<1>1. CASE t = s BY <1>1
<1>2. CASE t = EmptyInputting BY <1>2 DEF EmptyInputting, InputtingWith, Fresh
<1>3. ASSUME s.kind = "selecting", NEW diff \in {1, -1}, t = SelectingMove(s, diff)
      PROVE  Fresh(t)
  BY <1>3, GoodSelectingMove DEF Fresh
<1>4. CASE s.kind = "converting" /\ Chosen(s, t) BY <1>4, ChosenKind DEF Fresh
<1>5. ASSUME NEW buffer, t = InputtingWith(buffer, <<>>) PROVE Fresh(t)
  BY <1>5 DEF Fresh, InputtingWith
<1>6. CASE s.kind = "inputting" /\ Edited(s, t)
  <2>1. BufferValid(s.buffer) BY <1>6, InputtingBuffer
  <2>2. s.predictions \in {<<>>, ListPredictions(s.buffer.string)} BY <1>6 DEF Fresh
  <2>3. ASSUME NEW buffer, t = WithBuffer(buffer) PROVE Fresh(t)
    BY <2>3 DEF Fresh, WithBuffer, InputtingWith
  <2>4. ASSUME NEW buffer, buffer.string = s.buffer.string, t = [s EXCEPT !.buffer = buffer]
        PROVE  Fresh(t)
    <3>1. t = InputtingWith(buffer, s.predictions)
      BY <1>6, <2>4, InputtingBuffer DEF InputtingWith
    <3> QED BY <2>2, <2>4, <3>1 DEF Fresh, InputtingWith
  <2> QED BY <1>6, <2>1, <2>3, <2>4, MoveCursorValid
      DEF Edited, InputtingInsert, InputtingDelete, InputtingLeft, InputtingRight
<1>7. ASSUME NEW predictions, NEW i, t = Selecting(predictions, i) PROVE Fresh(t)
  BY <1>7 DEF Selecting, Fresh
<1>8. ASSUME NEW input, t = [kind |-> "katakana", input |-> input] PROVE Fresh(t)
  BY <1>8 DEF Fresh
<1>9. ASSUME NEW pron, NEW answer, t = ConvertedWith(pron, answer) PROVE Fresh(t)
  BY <1>9 DEF Fresh, ConvertedWith
<1> QED BY <1>1, <1>2, <1>3, <1>4, <1>5, <1>6, <1>7, <1>8, <1>9 DEF Outcome

-----------------------------------------------------------------------------
(* Candidates are added at the end, and none comes twice.                  *)

Unrepeated(s) ==
  s.kind = "converting" =>
    \A k \in 1..Len(s.segments) : NoneTwice(s.segments[k].candidates)

Extends(s, t) ==
  /\ Len(t.segments) = Len(s.segments)
  /\ \A k \in 1..Len(s.segments) :
       LET old == s.segments[k].candidates
           new == t.segments[k].candidates
       IN  SubSeq(new, 1, Len(old)) = old /\ NoneTwice(new)

LEMMA CandidatesOfSegment ==
  ASSUME NEW s, GoodState(s), s.kind = "converting", NEW k \in 1..Len(s.segments)
  PROVE  /\ s.segments[k].candidates \in Seq(String)
         /\ SubSeq(s.segments[k].candidates, 1, Len(s.segments[k].candidates))
              = s.segments[k].candidates
<1>1. s.segments[k].candidates \in Seq(String) BY ConvertingParts DEF Segment
<1> QED BY <1>1, SubSeqFull

LEMMA SameExtends ==
  ASSUME NEW s, GoodState(s), s.kind = "converting", Unrepeated(s),
         NEW t, t.segments = s.segments
  PROVE  Extends(s, t)
BY CandidatesOfSegment DEF Extends, Unrepeated

LEMMA ReplacedExtends ==
  ASSUME NEW s, GoodState(s), s.kind = "converting", Unrepeated(s),
         NEW seg \in Segment, NoneTwice(seg.candidates),
         SubSeq(seg.candidates, 1, Len(CurrentSegment(s).candidates))
           = CurrentSegment(s).candidates
  PROVE  Extends(s, [s EXCEPT !.segments[s.current + 1] = seg])
<1> DEFINE c == s.current + 1
           segs == [s.segments EXCEPT ![c] = seg]
           t == [s EXCEPT !.segments[s.current + 1] = seg]
<1>1. s \in ConvertingState /\ s.segments \in Seq(Segment) /\ c \in 1..Len(s.segments)
  BY ConvertingParts
<1>2. /\ Len(segs) = Len(s.segments)
      /\ \A k \in 1..Len(s.segments) : segs[k] = IF k = c THEN seg ELSE s.segments[k]
  BY <1>1, ExceptSeq
<1>3. t.segments = segs BY <1>1 DEF ConvertingState
<1>4. CurrentSegment(s) = s.segments[c] BY DEF CurrentSegment
<1> HIDE DEF t, segs, c
<1>5. ASSUME NEW k \in 1..Len(s.segments)
      PROVE  /\ SubSeq(segs[k].candidates, 1, Len(s.segments[k].candidates))
                  = s.segments[k].candidates
             /\ NoneTwice(segs[k].candidates)
  <2>1. CASE k = c BY <1>2, <1>4, <2>1
  <2>2. CASE k # c
    <3>1. segs[k] = s.segments[k] BY <1>2, <2>2
    <3> QED BY <3>1, CandidatesOfSegment DEF Unrepeated
  <2> QED BY <2>1, <2>2
<1>6. Extends(s, t) BY <1>2, <1>3, <1>5 DEF Extends
<1> QED BY <1>6 DEF t

LEMMA AppendedExtends ==
  ASSUME NEW list \in Seq(String), NoneTwice(list), NEW answer \in Seq(String), NoneTwice(answer)
  PROVE  /\ AppendCandidates(list, answer) \in Seq(String)
         /\ NoneTwice(AppendCandidates(list, answer))
         /\ SubSeq(AppendCandidates(list, answer), 1, Len(list)) = list
<1> DEFINE all == AppendCandidates(list, answer)
<1>1. /\ all \in Seq(String) /\ Len(list) <= Len(all)
      /\ \A i \in 1..Len(list) : all[i] = list[i]
  BY AppendCandidatesExtends
<1>2. NoneTwice(all) BY AppendRepeatsNothing
<1> HIDE DEF all
<1>3. Len(list) \in Nat /\ Len(all) \in Nat /\ \A i \in 1..Len(list) : list[i] \in String
  BY <1>1, LenProperties
<1>4. \A i \in 1..Len(list) : all[i] \in String BY <1>1, <1>3
<1>5. /\ SubSeq(all, 1, Len(list)) \in Seq(String)
      /\ Len(SubSeq(all, 1, Len(list))) = Len(list)
      /\ \A i \in 1..Len(list) : SubSeq(all, 1, Len(list))[i] = all[i]
  BY <1>3, <1>4, SubSeqProperties
<1>6. SubSeq(all, 1, Len(list)) = list BY <1>1, <1>5, SeqEqual
<1> QED BY <1>1, <1>2, <1>6 DEF all

LEMMA ChosenExtends ==
  ASSUME EngineRepeatsNothing, NEW s, GoodState(s), s.kind = "converting", Unrepeated(s),
         NEW t, Chosen(s, t)
  PROVE  Extends(s, t)
<1> DEFINE seg == s.segments[s.current + 1]
<1>1. /\ s \in ConvertingState /\ seg \in Segment /\ seg.candidates \in Seq(String)
      /\ NoneTwice(seg.candidates) /\ seg = CurrentSegment(s)
      /\ SubSeq(seg.candidates, 1, Len(seg.candidates)) = seg.candidates
  BY ConvertingParts, CandidatesOfSegment DEF Unrepeated, CurrentSegment
<1> HIDE DEF seg
<1>2. ASSUME NEW new \in Segment, NEW list \in Seq(String), new.candidates = list, NoneTwice(list),
             SubSeq(list, 1, Len(seg.candidates)) = seg.candidates,
             t = [s EXCEPT !.segments[s.current + 1] = new]
      PROVE  Extends(s, t)
  BY <1>1, <1>2, ReplacedExtends
<1>3. ASSUME NEW diff \in {1, -1}, t = SegmentMove(s, diff) PROVE Extends(s, t)
  <2>1. t.segments = s.segments BY <1>1, <1>3 DEF SegmentMove, ConvertingState
  <2> QED BY <2>1, SameExtends
<1>4. CASE t = CurrentKatakana(s)
  <2>1. t = [s EXCEPT !.segments[s.current + 1] = [seg EXCEPT !.katakana = TRUE]]
    BY <1>4 DEF CurrentKatakana, seg
  <2>2. /\ [seg EXCEPT !.katakana = TRUE] \in Segment
        /\ [seg EXCEPT !.katakana = TRUE].candidates = seg.candidates
    BY <1>1 DEF Segment
  <2> QED BY <1>1, <1>2, <2>1, <2>2
<1>5. ASSUME NEW i \in Int, t = CandidatesSet(s, i) PROVE Extends(s, t)
  <2>1. CASE i \in 0..(Len(seg.candidates) - 1)
    <3>1. t = [s EXCEPT !.segments[s.current + 1] = [seg EXCEPT !.index = i]]
      BY <1>1, <1>5, <2>1 DEF CandidatesSet, seg
    <3>2. Len(seg.candidates) \in Nat BY <1>1, LenProperties
    <3>3. i \in Nat BY <2>1, <3>2
    <3>4. /\ [seg EXCEPT !.index = i] \in Segment
          /\ [seg EXCEPT !.index = i].candidates = seg.candidates
      BY <1>1, <3>3 DEF Segment
    <3> QED BY <1>1, <1>2, <3>1, <3>4
  <2>2. CASE i \notin 0..(Len(seg.candidates) - 1)
    <3>1. t.segments = s.segments BY <1>1, <1>5, <2>2 DEF CandidatesSet
    <3> QED BY <3>1, SameExtends
  <2> QED BY <2>1, <2>2
<1>6. ASSUME NEW diff \in {1, -1}, NEW answer \in CandidateLists(CurrentSegment(s).pron),
             t = CandidatesMove(s, diff, TakeFirst(answer, MaxCandidateCount))
      PROVE  Extends(s, t)
  <2> DEFINE asked == TakeFirst(answer, MaxCandidateCount)
             full == EnsureCandidatesAppended(seg, asked)
             new == [MoveIndex(full, diff) EXCEPT !.katakana = FALSE]
  <2>1. asked \in Seq(String) /\ NoneTwice(asked)
    <3>1. answer \in Seq(String) /\ CurrentSegment(s).pron \in Strings BY AskedList
    <3>2. NoneTwice(answer) BY <3>1 DEF EngineRepeatsNothing
    <3> QED BY <3>1, <3>2, AskedList, FirstOnesRepeatNothing, InputtingAssumption
  <2>2. t = [s EXCEPT !.segments[s.current + 1] = new] BY <1>6 DEF CandidatesMove, seg
  <2> HIDE DEF asked
  <2>3. /\ full \in Segment /\ full.candidates \in Seq(String) /\ NoneTwice(full.candidates)
        /\ SubSeq(full.candidates, 1, Len(seg.candidates)) = seg.candidates
    <3>1. CASE seg.hasMore
      <4>1. full = [seg EXCEPT !.candidates = AppendCandidates(seg.candidates, asked),
                               !.hasMore = FALSE]
        BY <3>1 DEF EnsureCandidatesAppended
      <4>2. /\ AppendCandidates(seg.candidates, asked) \in Seq(String)
            /\ NoneTwice(AppendCandidates(seg.candidates, asked))
            /\ SubSeq(AppendCandidates(seg.candidates, asked), 1, Len(seg.candidates))
                 = seg.candidates
        BY <1>1, <2>1, AppendedExtends
      <4>3. full \in Segment /\ full.candidates = AppendCandidates(seg.candidates, asked)
        <5> HIDE DEF full
        <5> QED BY <1>1, <4>1, <4>2 DEF Segment
      <4> QED BY <4>2, <4>3
    <3>2. CASE ~seg.hasMore BY <1>1, <3>2 DEF EnsureCandidatesAppended
    <3> QED BY <3>1, <3>2
  <2>4. new.candidates = full.candidates /\ new \in Segment
    <3>1. full.index \in Nat /\ Len(full.candidates) \in Nat BY <2>3, LenProperties DEF Segment
    <3>2. Len(full.candidates) # 0
      <4>1. s.current + 1 \in 1..Len(s.segments) /\ Len(seg.candidates) # 0
        <5>1. seg.index \in 0..(Len(seg.candidates) - 1) BY ConvertingParts DEF seg
        <5> QED BY <5>1, ConvertingParts
      <4>2. ASSUME Len(full.candidates) = 0 PROVE FALSE
        <5>1. full.candidates = <<>> BY <2>3, <4>2, EmptySeq
        <5>2. Len(seg.candidates) \in Nat BY <1>1, LenProperties
        <5>3. Len(seg.candidates) <= Len(full.candidates)
          <6>1. CASE seg.hasMore
            <7>1. full.candidates = AppendCandidates(seg.candidates, asked)
              BY <1>1, <6>1 DEF EnsureCandidatesAppended, Segment
            <7> QED BY <1>1, <2>1, <7>1, AppendCandidatesExtends
          <6>2. CASE ~seg.hasMore BY <5>2, <6>2 DEF EnsureCandidatesAppended
          <6> QED BY <6>1, <6>2
        <5> QED BY <4>1, <4>2, <5>2, <5>3
      <4> QED BY <4>2
    <3>3. (full.index + diff) % Len(full.candidates) \in Nat BY <3>1, <3>2
    <3>4. PICK n \in Nat : n = (full.index + diff) % Len(full.candidates) BY <3>3
    <3>5. new = [full EXCEPT !.index = n, !.katakana = FALSE] BY <3>4 DEF MoveIndex
    <3> HIDE DEF full, new
    <3> QED BY <2>3, <3>5 DEF Segment
  <2> HIDE DEF new, full
  <2> QED BY <1>2, <2>2, <2>3, <2>4
<1> QED BY <1>3, <1>4, <1>5, <1>6 DEF Chosen

-----------------------------------------------------------------------------
(* No text vanishes.                                                       *)

\* No prediction is the empty string.
Offered(s) ==
  s.kind \in {"inputting", "selecting"} =>
    \A i \in 1..Len(s.predictions) : s.predictions[i] # <<>>

\* Nothing in the state that may be shown is empty.
Filled(s) ==
  /\ Offered(s)
  /\ s.kind = "katakana" => s.input # <<>>
  /\ s.kind = "converting" => s.pron # <<>>

LEMMA NotEmpty ==
  ASSUME NEW S, NEW list \in Seq(S)
  PROVE  list # <<>> <=> Len(list) # 0
BY EmptySeq

LEMMA ReplacedString ==
  ASSUME NEW b, NEW diff, NEW kana
  PROVE  ReplaceBeforeCursor(b, diff, kana).string
           = (SubSeq(b.string, 1, b.cursor - diff) \o kana) \o After(b)
BY DEF ReplaceBeforeCursor

LEMMA PairOf ==
  ASSUME NEW ch \in Char
  PROVE  <<ch>> \o <<ch>> = <<ch, ch>>
<1> DEFINE one == <<ch>>
           two == <<ch, ch>>
<1>1. one \in Seq(Char) /\ Len(one) = 1 /\ one[1] = ch OBVIOUS
<1>2. two \in Seq(Char) /\ Len(two) = 2 /\ two[1] = ch /\ two[2] = ch OBVIOUS
<1> HIDE DEF one, two
<1>3. /\ one \o one \in Seq(Char) /\ Len(one \o one) = Len(one) + Len(one)
      /\ \A j \in 1..(Len(one) + Len(one)) :
           (one \o one)[j] = IF j <= Len(one) THEN one[j] ELSE one[j - Len(one)]
  BY <1>1, ConcatProperties
<1>4. Len(one \o one) = 2 BY <1>1, <1>3
<1>5. \A j \in 1..2 : (one \o one)[j] = two[j]
  <2>1. 1 \in 1..(Len(one) + Len(one)) /\ 1 <= Len(one) BY <1>1
  <2>2. 2 \in 1..(Len(one) + Len(one)) /\ ~(2 <= Len(one)) /\ 2 - Len(one) = 1 BY <1>1
  <2>3. (one \o one)[1] = ch BY <2>1, <1>1, <1>3
  <2>4. (one \o one)[2] = ch BY <2>2, <1>1, <1>3
  <2>5. \A j \in 1..2 : j = 1 \/ j = 2 OBVIOUS
  <2> QED BY <1>2, <2>3, <2>4, <2>5
<1>6. one \o one = two BY <1>2, <1>3, <1>4, <1>5, SeqEqual
<1> QED BY <1>6 DEF one, two

\* What a letter makes of a text, when every rule has a kana.
LEMMA InsertionShows ==
  ASSUME TableCompletesN, NEW b, BufferValid(b), NEW ch \in Char
  PROVE  InsertChar(b, ch).string # <<>>
<1>1. InsertChar(b, ch).string \in String BY InsertCharValid DEF BufferValid, Buffer
<1>2. b \in Buffer /\ b.cursor <= Len(b.string) BY DEF BufferValid
<1>3. b.string \in String /\ b.cursor \in Nat /\ Len(b.string) \in Nat
  BY <1>2, LenProperties DEF Buffer, String
<1>4. After(b) \in String /\ Before(b) \in String BY <1>2, BeforeAfter
<1>5. CASE RuleDiffs(b, ch) # {}
  <2>1. PICK diff \in RuleDiffs(b, ch) :
          InsertChar(b, ch) = ReplaceBeforeCursor(b, diff, Hiragana(TrySuffix(b, ch, diff)))
    BY <1>2, <1>5, LongestRule
  <2> DEFINE kana == Hiragana(TrySuffix(b, ch, diff))
             left == SubSeq(b.string, 1, b.cursor - diff)
  <2>2. kana \in String /\ kana # <<>>
    BY RomajiAssumption DEF RuleDiffs, HasRule, TableCompletesN, Hiragana, String
  <2>3. left \in String
    <3>1. b.cursor - diff \in Nat /\ b.cursor - diff <= Len(b.string)
      BY <1>2, <1>3 DEF RuleDiffs, MaxDiff
    <3> QED BY <1>3, <3>1, PartOfString
  <2>4. InsertChar(b, ch).string = (left \o kana) \o After(b)
    BY <2>1, ReplacedString
  <2> HIDE DEF kana, left
  <2>5. left \o kana \in String /\ Len(left \o kana) = Len(left) + Len(kana)
        /\ Len(kana) \in Nat \ {0} /\ Len(left) \in Nat /\ Len(After(b)) \in Nat
    BY <2>2, <2>3, <1>4, ConcatStrings, EmptySeq, LenProperties DEF String
  <2>6. Len((left \o kana) \o After(b)) = Len(left) + Len(kana) + Len(After(b))
    BY <2>5, <1>4, ConcatStrings
  <2>7. Len(InsertChar(b, ch).string) # 0 BY <2>4, <2>5, <2>6
  <2> QED BY <1>1, <2>7, NotEmpty DEF String
<1>6. CASE RuleDiffs(b, ch) = {}
  <2> DEFINE left == ReplaceNAtEnd(Before(b))
  <2>1. left \in String /\ Len(left) \in Nat /\ Len(After(b)) \in Nat
    BY <1>4, ReplaceNKeepsLength, LenProperties DEF String
  <2>2. InsertChar(b, ch).string = (left \o <<ch>>) \o After(b) BY <1>6 DEF InsertChar
  <2> HIDE DEF left
  <2>3. left \o <<ch>> \in String /\ Len(left \o <<ch>>) = Len(left) + 1
    BY <2>1, OneCharString, ConcatStrings
  <2>4. Len((left \o <<ch>>) \o After(b)) = Len(left) + 1 + Len(After(b))
    BY <2>1, <2>3, <1>4, ConcatStrings
  <2>5. Len(InsertChar(b, ch).string) # 0 BY <2>1, <2>2, <2>4
  <2> QED BY <1>1, <2>5, NotEmpty DEF String
<1> QED BY <1>5, <1>6

\* A second n at the end of a text leaves no n there.
LEMMA SecondNCompletes ==
  ASSUME TableCompletesN, NEW b, BufferValid(b), b.cursor = Len(b.string),
         b.string # <<>>, b.string[Len(b.string)] = LetterN
  PROVE  LET string == InsertChar(b, LetterN).string IN string[Len(string)] # LetterN
<1>1. /\ b \in Buffer /\ b.string \in String /\ b.cursor \in Nat \ {0}
      /\ b.cursor <= Len(b.string) /\ LetterN \in Char
  BY EmptySeq, RomajiAssumption DEF BufferValid, Buffer, String
<1>2. RuleDiffs(b, LetterN) # {}
  <2> DEFINE last == SubSeq(b.string, b.cursor, b.cursor)
  <2>1. /\ b.cursor - 1 + 1 = b.cursor /\ 1 \in 0..4 /\ 1 <= b.cursor
        /\ \A i \in b.cursor..b.cursor : i = b.cursor
    BY <1>1
  <2>2. \A i \in b.cursor..b.cursor : b.string[i] \in Char
    BY <2>1, <1>1, RomajiAssumption
  <2>3. /\ last \in Seq(Char) /\ Len(last) = b.cursor - b.cursor + 1
        /\ \A i \in 1..(b.cursor - b.cursor + 1) : last[i] = b.string[b.cursor + i - 1]
    BY <1>1, <2>2, SubSeqProperties
  <2>4. b.cursor - b.cursor + 1 = 1 /\ b.cursor + 1 - 1 = b.cursor /\ 1 \in 1..1 BY <1>1
  <2>5. Len(last) = 1 /\ last[1] = LetterN BY <2>3, <2>4
  <2>6. last = <<LetterN>>
    <3> HIDE DEF last
    <3>1. <<LetterN>> \in Seq(Char) /\ Len(<<LetterN>>) = 1 /\ <<LetterN>>[1] = LetterN
      BY <1>1
    <3>2. \A i \in 1..Len(last) : last[i] = <<LetterN>>[i] BY <2>5, <3>1
    <3> QED BY <2>3, <2>5, <3>1, <3>2, SeqEqual
  <2>7. TrySuffix(b, LetterN, 1) = <<LetterN>> \o <<LetterN>>
    BY <2>1, <2>6 DEF TrySuffix
  <2>8. <<LetterN>> \o <<LetterN>> = <<LetterN, LetterN>> BY <1>1, PairOf
  <2>9. HasRule(TrySuffix(b, LetterN, 1)) BY <2>7, <2>8 DEF HasRule, TableCompletesN
  <2> QED BY <2>1, <2>9 DEF RuleDiffs, MaxDiff
<1>3. PICK diff \in RuleDiffs(b, LetterN) :
        InsertChar(b, LetterN) = ReplaceBeforeCursor(b, diff, Hiragana(TrySuffix(b, LetterN, diff)))
  BY <1>1, <1>2, LongestRule
<1> DEFINE kana == Hiragana(TrySuffix(b, LetterN, diff))
           left == SubSeq(b.string, 1, b.cursor - diff)
<1>4. kana \in String /\ kana # <<>> /\ kana[Len(kana)] # LetterN
  BY RomajiAssumption DEF RuleDiffs, HasRule, TableCompletesN, Hiragana, String
<1>5. left \in String
  <2>1. b.cursor - diff \in Nat /\ b.cursor - diff <= Len(b.string)
    BY <1>1 DEF RuleDiffs, MaxDiff
  <2> QED BY <1>1, <2>1, PartOfString
<1>6. After(b) = <<>>
  <2>1. After(b) \in String /\ Len(After(b)) = Len(b.string) - b.cursor BY <1>1, BeforeAfter
  <2>2. Len(After(b)) = 0 BY <2>1, <1>1
  <2> QED BY <2>1, <2>2, NotEmpty DEF String
<1>7. InsertChar(b, LetterN).string = (left \o kana) \o <<>>
  BY <1>3, <1>6, ReplacedString
<1> HIDE DEF kana, left
<1>8. left \o kana \in String BY <1>4, <1>5, ConcatStrings
<1>9. InsertChar(b, LetterN).string = left \o kana
  BY <1>7, <1>8, ConcatEmptySeq DEF String
<1>10. Len(left) \in Nat /\ Len(kana) \in Nat \ {0}
  BY <1>4, <1>5, EmptySeq, LenProperties DEF String
<1>11. /\ Len(left \o kana) = Len(left) + Len(kana)
       /\ (left \o kana)[Len(left) + Len(kana)] = kana[Len(kana)]
  <2>1. /\ Len(left \o kana) = Len(left) + Len(kana)
        /\ \A j \in 1..(Len(left) + Len(kana)) :
             (left \o kana)[j] = IF j <= Len(left) THEN left[j] ELSE kana[j - Len(left)]
    BY <1>4, <1>5, ConcatProperties DEF String
  <2>2. /\ Len(left) + Len(kana) \in 1..(Len(left) + Len(kana))
        /\ ~(Len(left) + Len(kana) <= Len(left))
        /\ Len(left) + Len(kana) - Len(left) = Len(kana)
    BY <1>10
  <2> QED BY <2>1, <2>2
<1> QED BY <1>4, <1>9, <1>11

LEMMA WordsOffered ==
  ASSUME PredictorOffersWords, NEW string \in Strings
  PROVE  \A i \in 1..Len(ListPredictions(string)) : ListPredictions(string)[i] # <<>>
<1>1. CASE string = <<>>
  <2>1. Len(<<>>) = 0 BY EmptySeq
  <2> QED BY <1>1, <2>1 DEF ListPredictions
<1>2. CASE string # <<>>
  <2> DEFINE list == Predict(string)
             n == MaxCandidateCount
  <2>1. list \in Seq(String) /\ n \in Nat /\ \A i \in 1..Len(list) : list[i] # <<>>
    BY <1>2, InputtingAssumption DEF PredictorOffersWords
  <2>2. ListPredictions(string) = TakeFirst(list, n) BY <1>2 DEF ListPredictions
  <2> HIDE DEF list, n
  <2>3. CASE n < Len(list)
    <3>1. Len(list) \in Nat /\ \A i \in 1..n : i \in 1..Len(list) /\ list[i] \in String
      BY <2>1, <2>3, LenProperties
    <3>2. Len(SubSeq(list, 1, n)) = n /\ \A i \in 1..n : SubSeq(list, 1, n)[i] = list[i]
      BY <2>1, <3>1, SubSeqProperties
    <3> QED BY <2>1, <2>2, <2>3, <3>1, <3>2 DEF TakeFirst
  <2>4. CASE ~(n < Len(list)) BY <2>1, <2>2, <2>4 DEF TakeFirst
  <2> QED BY <2>3, <2>4
<1> QED BY <1>1, <1>2

LEMMA OfferedOutcome ==
  ASSUME PredictorOffersWords, NEW s, GoodState(s), Offered(s),
         NEW t, GoodState(t), NEW text, Outcome(s, t, text)
  PROVE  Offered(t)
<1>1. CASE t = s BY <1>1
<1>2. ASSUME NEW buffer, t = InputtingWith(buffer, <<>>) PROVE Offered(t)
  <2>1. t.predictions = <<>> /\ Len(<<>>) = 0 BY <1>2, EmptySeq DEF InputtingWith
  <2> QED BY <2>1 DEF Offered
<1>3. CASE t = EmptyInputting BY <1>2, <1>3 DEF EmptyInputting
<1>4. ASSUME s.kind = "selecting", NEW diff \in {1, -1}, t = SelectingMove(s, diff)
      PROVE  Offered(t)
  <2>1. t.predictions = s.predictions
    BY <1>4, SelectingParts DEF SelectingMove, SelectingState
  <2> QED BY <1>4, <2>1 DEF Offered
<1>5. CASE s.kind = "converting" /\ Chosen(s, t) BY <1>5, ChosenKind DEF Offered
<1>6. CASE s.kind = "inputting" /\ Edited(s, t)
  <2>1. ASSUME NEW buffer, t = WithBuffer(buffer) PROVE Offered(t)
    <3>1. /\ t.kind = "inputting" /\ t.buffer = buffer
          /\ t.predictions = ListPredictions(buffer.string)
      BY <2>1 DEF WithBuffer, InputtingWith
    <3>2. buffer.string \in Strings BY <3>1, InputtingBuffer
    <3> QED BY <3>1, <3>2, WordsOffered DEF Offered
  <2>2. ASSUME NEW buffer, t = [s EXCEPT !.buffer = buffer] PROVE Offered(t)
    <3>1. t.predictions = s.predictions
      BY <1>6, <2>2, InputtingBuffer DEF InputtingState
    <3> QED BY <1>6, <3>1 DEF Offered
  <2> QED BY <1>6, <2>1, <2>2
      DEF Edited, InputtingInsert, InputtingDelete, InputtingLeft, InputtingRight
<1>7. ASSUME s.kind = "inputting", NEW i, t = Selecting(s.predictions, i) PROVE Offered(t)
  BY <1>7 DEF Selecting, Offered
<1>8. ASSUME NEW input, t = [kind |-> "katakana", input |-> input] PROVE Offered(t)
  BY <1>8 DEF Offered
<1>9. ASSUME NEW pron, NEW answer, t = ConvertedWith(pron, answer) PROVE Offered(t)
  BY <1>9 DEF Offered, ConvertedWith
<1> QED BY <1>1, <1>2, <1>3, <1>4, <1>5, <1>6, <1>7, <1>8, <1>9 DEF Outcome

\* The text to convert is not empty, and ends in no n when it was typed to
\* the end.
LEMMA PronCompleted ==
  ASSUME TableCompletesN, NEW s, GoodState(s), s.kind = "inputting", ~BufferEmpty(s)
  PROVE  /\ GetPron(s) # <<>>
         /\ s.buffer.cursor = Len(s.buffer.string) => GetPron(s)[Len(GetPron(s))] # LetterN
<1>1. BufferValid(s.buffer) /\ s.buffer.string # <<>>
  BY InputtingBuffer DEF BufferEmpty
<1> QED BY <1>1, InsertionShows, SecondNCompletes, RomajiAssumption DEF GetPron

\* What is composed in an emptied state.
LEMMA TextOfKind ==
  ASSUME NEW s, GoodState(s), Filled(s)
  PROVE  /\ s.kind = "inputting" => ComposedText(s) = Shown(s.buffer.string)
         /\ s.kind # "inputting" => ComposedText(s) # <<>>
<1>1. CASE s.kind = "inputting"
  BY <1>1 DEF ComposedText, StateView, InputtingView, CommittingView
<1>2. CASE s.kind = "katakana"
  <2>1. ComposedText(s) = Shown(s.input)
    BY <1>2 DEF ComposedText, StateView, KatakanaView
  <2> QED BY <1>2, <2>1 DEF Filled, Shown
<1>3. CASE s.kind = "selecting"
  <2>1. ComposedText(s) = Shown(CurrentPrediction(s))
    BY <1>3 DEF ComposedText, StateView, SelectingView
  <2>2. s.index + 1 \in 1..Len(s.predictions) BY <1>3, SelectingParts
  <2>3. CurrentPrediction(s) # <<>> BY <1>3, <2>2 DEF Filled, Offered, CurrentPrediction
  <2> QED BY <1>3, <2>1, <2>3 DEF Shown
<1>4. CASE s.kind = "converting"
  <2>1. ComposedText(s) \in Text /\ Len(ComposedText(s)) = Len(s.segments)
        /\ Len(s.segments) # 0
    BY <1>4, FormsType, ConvertingParts DEF ComposedText
  <2> QED BY <1>4, <2>1, NotEmpty DEF Text
<1> QED BY <1>1, <1>2, <1>3, <1>4, KindOfState

\* The deletion of the only character of a text being typed.
LastDeleted(s, t) ==
  /\ s.kind = "inputting" /\ Len(s.buffer.string) = 1 /\ t = InputtingDelete(s)

\* A step that composes nothing any more has committed what was composed, or
\* has deleted its only character.
Lost(s, t, text) ==
  /\ ComposedText(s) # <<>> /\ ComposedText(t) = <<>>
  /\ text # ComposedText(s) /\ ~LastDeleted(s, t)

LEMMA EditFills ==
  ASSUME TableCompletesN, PredictorOffersWords,
         NEW s, GoodState(s), Filled(s), s.kind = "inputting",
         NEW t, GoodState(t), Edited(s, t), NEW text
  PROVE  Filled(t) /\ ~Lost(s, t, text)
<1>1. /\ BufferValid(s.buffer) /\ s = InputtingWith(s.buffer, s.predictions)
      /\ s.buffer.string \in String /\ Len(s.buffer.string) \in Nat
  BY InputtingBuffer, StringsAreBounded, LenProperties DEF String
<1>2. ComposedText(s) = Shown(s.buffer.string) BY TextOfKind
<1>3. ASSUME NEW buffer, t = WithBuffer(buffer)
      PROVE  Filled(t) /\ t.kind = "inputting" /\ t.buffer = buffer
  <2>1. /\ t.kind = "inputting" /\ t.buffer = buffer
        /\ t.predictions = ListPredictions(buffer.string)
    BY <1>3 DEF WithBuffer, InputtingWith
  <2>2. buffer.string \in Strings BY <2>1, InputtingBuffer
  <2> QED BY <2>1, <2>2, WordsOffered DEF Filled, Offered
<1>4. ASSUME Filled(t), t.kind = "inputting", t.buffer.string # <<>> PROVE ~Lost(s, t, text)
  BY <1>4, TextOfKind DEF Lost, Shown
<1>5. ASSUME NEW ch \in Char, t = InputtingInsert(s, ch) PROVE Filled(t) /\ ~Lost(s, t, text)
  <2>1. InsertChar(s.buffer, ch).string # <<>> BY <1>1, InsertionShows
  <2> QED BY <1>3, <1>4, <1>5, <2>1 DEF InputtingInsert
<1>6. ASSUME ~BufferEmpty(s), t = InputtingDelete(s) PROVE Filled(t) /\ ~Lost(s, t, text)
  <2> DEFINE buffer == DeleteChar(s.buffer)
  <2>1. Filled(t) /\ t.kind = "inputting" /\ t.buffer = buffer
    BY <1>3, <1>6 DEF InputtingDelete
  <2>2. /\ BufferValid(buffer) /\ Len(buffer.string) <= Len(s.buffer.string)
        /\ Len(s.buffer.string) <= Len(buffer.string) + 1
    BY <1>1, DeleteCharValid
  <2> HIDE DEF buffer
  <2>3. CASE buffer.string = <<>>
    <3>1. Len(buffer.string) = 0 BY <2>3, EmptySeq
    <3>2. Len(s.buffer.string) # 0 BY <1>1, <1>6, NotEmpty DEF BufferEmpty, String
    <3>3. Len(s.buffer.string) = 1
      <4>1. PICK n \in Nat : n = Len(s.buffer.string) BY <1>1
      <4>2. n <= Len(buffer.string) + 1 BY <2>2, <4>1
      <4>3. n <= 0 + 1 BY <3>1, <4>2
      <4>4. n # 0 BY <3>2, <4>1
      <4>5. n = 1 BY <4>3, <4>4
      <4> QED BY <4>1, <4>5
    <3> QED BY <1>6, <2>1, <3>3 DEF Lost, LastDeleted
  <2>4. CASE buffer.string # <<>> BY <1>4, <2>1, <2>4
  <2> QED BY <2>3, <2>4
<1>7. ASSUME NEW buffer, buffer.string = s.buffer.string, t = [s EXCEPT !.buffer = buffer]
      PROVE  Filled(t) /\ ~Lost(s, t, text)
  <2>1. t = InputtingWith(buffer, s.predictions) BY <1>1, <1>7 DEF InputtingWith
  <2>2. Filled(t) /\ t.kind = "inputting" /\ t.buffer = buffer
    BY <2>1 DEF Filled, Offered, InputtingWith
  <2>3. ComposedText(t) = ComposedText(s) BY <1>2, <1>7, <2>2, TextOfKind
  <2> QED BY <2>2, <2>3 DEF Lost
<1> QED BY <1>1, <1>5, <1>6, <1>7, MoveCursorValid DEF Edited, InputtingLeft, InputtingRight

LEMMA NothingLost ==
  ASSUME TableCompletesN, PredictorOffersWords,
         NEW s, GoodState(s), Filled(s), NEW t, GoodState(t), NEW text, Outcome(s, t, text)
  PROVE  Filled(t) /\ ~Lost(s, t, text)
<1> Offered(t) BY OfferedOutcome DEF Filled
<1>0. ASSUME Filled(t), t.kind # "inputting" PROVE ~Lost(s, t, text)
  BY <1>0, TextOfKind DEF Lost
<1>1. CASE t = s BY <1>1 DEF Lost
<1>2. CASE t = EmptyInputting /\ (text = ComposedText(s) \/ ComposedText(s) = <<>>)
  <2>1. t.kind = "inputting" BY <1>2, EmptyInputtingKind
  <2> QED BY <1>2, <2>1 DEF Filled, Lost
<1>3. ASSUME s.kind = "selecting", NEW diff \in {1, -1}, t = SelectingMove(s, diff)
      PROVE  Filled(t) /\ t.kind # "inputting"
  BY <1>3, GoodSelectingMove DEF Filled
<1>4. CASE s.kind = "converting" /\ Chosen(s, t)
  <2>1. t.kind = "converting" BY <1>4, ChosenKind
  <2>2. t.pron = s.pron
    <3>1. s \in ConvertingState BY <1>4, ConvertingParts
    <3> QED BY <1>4, <3>1
        DEF ConvertingState, Chosen, SegmentMove, CurrentKatakana, CandidatesSet, CandidatesMove
  <2>3. Filled(t) BY <1>4, <2>1, <2>2 DEF Filled
  <2> QED BY <1>0, <2>1, <2>3
<1>5. ASSUME NEW buffer, buffer.string # <<>>, t = InputtingWith(buffer, <<>>)
      PROVE  Filled(t) /\ ~Lost(s, t, text)
  <2>1. t.kind = "inputting" /\ t.buffer = buffer BY <1>5 DEF InputtingWith
  <2>2. Filled(t) BY <2>1 DEF Filled
  <2> QED BY <1>5, <2>1, <2>2, TextOfKind DEF Lost, Shown
<1>6. CASE /\ s.kind = "converting"
           /\ t = InputtingWith([string |-> s.pron, cursor |-> Len(s.pron)], <<>>)
  BY <1>5, <1>6 DEF Filled
<1>7. ASSUME NEW ch \in Char, t = InputtingWith(InsertChar(EmptyBuffer, ch), <<>>)
      PROVE  Filled(t) /\ ~Lost(s, t, text)
  BY <1>5, <1>7, InsertionShows, EmptyBufferValid
<1>8. CASE s.kind = "inputting" /\ Edited(s, t) BY <1>8, EditFills
<1>9. ASSUME s.kind = "inputting", NEW i, t = Selecting(s.predictions, i)
      PROVE  Filled(t) /\ t.kind # "inputting"
  BY <1>9 DEF Selecting, Filled
<1>10. CASE /\ s.kind = "inputting" /\ ~BufferEmpty(s)
            /\ t = [kind |-> "katakana", input |-> ToKatakana(s.buffer.string)]
  <2>1. s.buffer.string \in String /\ s.buffer.string # <<>>
    BY <1>10, InputtingBuffer, StringsAreBounded DEF BufferEmpty
  <2>2. Len(s.buffer.string) \in Nat \ {0} BY <2>1, EmptySeq DEF String
  <2>3. DOMAIN ToKatakana(s.buffer.string) = 1..Len(s.buffer.string) BY DEF ToKatakana
  <2>4. ToKatakana(s.buffer.string) # <<>> BY <2>2, <2>3
  <2>5. t.kind = "katakana" /\ t.input # <<>> BY <1>10, <2>4
  <2> QED BY <1>0, <2>5 DEF Filled
<1>11. ASSUME s.kind = "inputting", ~BufferEmpty(s), NEW answer,
              t = ConvertedWith(GetPron(s), answer)
       PROVE  Filled(t) /\ t.kind # "inputting"
  BY <1>11, PronCompleted DEF ConvertedWith, Filled
<1> QED BY <1>0, <1>1, <1>2, <1>3, <1>4, <1>6, <1>7, <1>8, <1>9, <1>10, <1>11 DEF Outcome

\* A key that leaves nothing of a text being typed, and does not commit it, is
\* the one that deletes.
LEMMA OnlyBackspaceDeletes ==
  ASSUME TableCompletesN, GoodState(state), NEW key \in Key, ProcessInput(key), reply'.consumed,
         state.kind = "inputting", ~BufferEmpty(state), state'.kind = "inputting",
         ComposedText(state') = <<>>, CommittedBy(reply'.view) # ComposedText(state)
  PROVE  key = [sym |-> "backspace", mod |-> "none"]
<1>1. /\ BufferValid(state.buffer) /\ state \in InputtingState
      /\ state = InputtingWith(state.buffer, state.predictions)
  BY InputtingBuffer
<1>2. ComposedText(state) = Shown(state.buffer.string) /\ Shown(state.buffer.string) # <<>>
  BY DEF ComposedText, StateView, InputtingView, CommittingView, Shown, BufferEmpty
<1>3. InputtingKey(key)
  BY DEF ProcessInput, KatakanaKey, SelectingKey, ConvertingKey
<1>4. state' # state BY <1>2
<1>5. ASSUME state'.buffer.string # <<>> PROVE FALSE
  BY <1>5 DEF ComposedText, StateView, InputtingView, CommittingView, Shown
<1>6. CASE key.mod # "none"
  BY <1>3, <1>4, <1>6 DEF InputtingKey, InputtingModified, Pass, Swallow, Respond
<1>7. CASE InputtingTab(key)
  <2>1. state.predictions # <<>> BY <1>4, <1>7 DEF InputtingTab, Pass
  <2> QED BY <1>7, <2>1 DEF InputtingTab, Respond, Selecting
<1>8. CASE InputtingChar(key)
  <2>1. key.sym \in Char BY <1>8, ImeAssumption DEF InputtingChar, CharP
  <2>2. InsertChar(state.buffer, key.sym).string # <<>> BY <1>1, <2>1, InsertionShows
  <2>3. state' = WithBuffer(InsertChar(state.buffer, key.sym))
    BY <1>8 DEF InputtingChar, Edit, Respond, InputtingInsert
  <2> QED BY <1>5, <2>2, <2>3 DEF WithBuffer, InputtingWith
<1>9. CASE InputtingF7(key)
  BY <1>9 DEF InputtingF7, Respond
<1>10. CASE InputtingSpace(key)
  <2>1. PICK answer \in Conversions(GetPron(state)) :
          Convert(ConvertedWith(GetPron(state), answer))
    BY <1>10 DEF InputtingSpace
  <2> QED BY <2>1 DEF Convert, Respond, ConvertedWith
<1>11. CASE InputtingEnter(key)
  BY <1>2, <1>11, CommitOutcome DEF InputtingEnter, Commit
<1>12. CASE InputtingBackspace(key) /\ key.mod = "none"
  BY <1>12 DEF InputtingBackspace, Key
<1>13. CASE InputtingCursor(key)
  <2>1. \E buffer : buffer.string = state.buffer.string /\ state' = [state EXCEPT !.buffer = buffer]
    BY <1>1, <1>13, MoveCursorValid
    DEF InputtingCursor, Edit, Respond, InputtingLeft, InputtingRight
  <2> QED BY <1>1, <1>5, <2>1 DEF InputtingState, BufferEmpty
<1>14. CASE InputtingOther(key)
  BY <1>4, <1>14 DEF InputtingOther, Pass
<1> QED
  BY <1>3, <1>6, <1>7, <1>8, <1>9, <1>10, <1>11, <1>12, <1>13, <1>14 DEF InputtingKey, InputtingModified

-----------------------------------------------------------------------------
(* Where a conversion comes from.                                          *)

LEMMA EditedKind ==
  ASSUME NEW s, GoodState(s), s.kind = "inputting", NEW t, Edited(s, t)
  PROVE  t.kind = "inputting"
<1>1. BufferValid(s.buffer) /\ s \in InputtingState BY InputtingBuffer
<1>2. ASSUME NEW buffer, t = WithBuffer(buffer) PROVE t.kind = "inputting"
  BY <1>2 DEF WithBuffer, InputtingWith
<1>3. ASSUME NEW buffer, t = [s EXCEPT !.buffer = buffer] PROVE t.kind = "inputting"
  BY <1>1, <1>3 DEF InputtingState
<1> QED BY <1>2, <1>3 DEF Edited, InputtingInsert, InputtingDelete, InputtingLeft, InputtingRight

\* A conversion comes from a conversion, or is that of the text typed.
LEMMA ConversionOutcome ==
  ASSUME NEW s, GoodState(s), NEW t, t.kind = "converting", NEW text, Outcome(s, t, text)
  PROVE  \/ s.kind = "converting" /\ (t = s \/ Chosen(s, t))
         \/ /\ s.kind = "inputting" /\ ~BufferEmpty(s) /\ Fits(GetPron(s))
            /\ \E answer \in Conversions(GetPron(s)) : t = ConvertedWith(GetPron(s), answer)
<1>1. ASSUME NEW buffer, NEW predictions, t = InputtingWith(buffer, predictions) PROVE FALSE
  BY <1>1 DEF InputtingWith
<1>2. t # EmptyInputting BY EmptyInputtingKind
<1>3. ASSUME s.kind = "selecting", NEW diff \in {1, -1}, t = SelectingMove(s, diff) PROVE FALSE
  BY <1>3, GoodSelectingMove
<1>4. CASE s.kind = "inputting" /\ Edited(s, t) BY <1>4, EditedKind
<1>5. ASSUME NEW predictions, NEW i, t = Selecting(predictions, i) PROVE FALSE
  BY <1>5 DEF Selecting
<1>6. ASSUME NEW input, t = [kind |-> "katakana", input |-> input] PROVE FALSE BY <1>6
<1>7. CASE t = s
  <2>1. CASE s.kind = "converting" BY <1>7, <2>1
  <2> QED BY <1>7, <2>1
<1> QED BY <1>1, <1>2, <1>3, <1>4, <1>5, <1>6, <1>7 DEF Outcome

LEMMA PronIsString ==
  ASSUME NEW s, GoodState(s), s.kind = "inputting", Fits(GetPron(s))
  PROVE  GetPron(s) \in Strings
BY PronType, StringsAreBounded DEF Fits

LEMMA UnrepeatedOutcome ==
  ASSUME EngineRepeatsNothing, NEW s, GoodState(s), Unrepeated(s),
         NEW t, NEW text, Outcome(s, t, text)
  PROVE  /\ Unrepeated(t)
         /\ s.kind = "converting" /\ t.kind = "converting" => Extends(s, t)
<1>1. CASE t.kind # "converting" BY <1>1 DEF Unrepeated
<1>2. CASE t.kind = "converting" /\ s.kind = "converting"
  <2>1. t = s \/ Chosen(s, t) BY <1>2, ConversionOutcome
  <2>2. Extends(s, t) BY <1>2, <2>1, SameExtends, ChosenExtends
  <2>3. Unrepeated(t) BY <2>2 DEF Extends, Unrepeated
  <2> QED BY <2>2, <2>3
<1>3. CASE t.kind = "converting" /\ s.kind # "converting"
  <2>1. PICK answer \in Conversions(GetPron(s)) :
          s.kind = "inputting" /\ Fits(GetPron(s)) /\ t = ConvertedWith(GetPron(s), answer)
    BY <1>3, ConversionOutcome
  <2>2. GetPron(s) \in Strings BY <2>1, PronIsString
  <2>3. answer \in Seq(KkcSegment) /\ Len(answer) \in Nat
    BY <2>2, ConvertingAssumption
  <2>4. \A k \in 1..Len(answer) : NoneTwice(answer[k].candidates)
    BY <2>2 DEF EngineRepeatsNothing
  <2> DEFINE Seg(k) == [pron |-> answer[k].pron, candidates |-> answer[k].candidates,
                        index |-> 0, hasMore |-> TRUE, katakana |-> FALSE]
  <2>5. t.segments = [k \in 1..Len(answer) |-> Seg(k)] BY <2>1 DEF ConvertedWith
  <2>6. \A k \in 1..Len(answer) : Seg(k).candidates = answer[k].candidates OBVIOUS
  <2> HIDE DEF Seg
  <2>7. Len(t.segments) = Len(answer) BY <2>3, <2>5
  <2>8. \A k \in 1..Len(answer) : t.segments[k] = Seg(k) BY <2>5
  <2>9. \A k \in 1..Len(t.segments) : NoneTwice(t.segments[k].candidates)
    BY <2>4, <2>6, <2>7, <2>8
  <2> QED BY <1>3, <2>9 DEF Unrepeated
<1> QED BY <1>1, <1>2, <1>3

-----------------------------------------------------------------------------
(* What a click shows.                                                     *)

\* The list of a view.
Listed(view) == IF view.kind = "converting" THEN view.candidates ELSE view.predictions

LEMMA ClickText ==
  ASSUME GoodState(state), Offered(state), state.kind # "selecting",
         NEW i \in 0..(Len(Listed(StateView(state))) - 1), SelectCandidate(i)
  PROVE  LET place == IF state.kind = "converting" THEN state.current + 1 ELSE 1
         IN  ComposedText(state')[place] = Listed(StateView(state))[i + 1]
<1> DEFINE list == Listed(StateView(state))
<1>1. i \in Nat OBVIOUS
<1>2. CASE state.kind = "converting"
  <2> DEFINE seg == CurrentSegment(state)
             c == state.current + 1
             new == [seg EXCEPT !.index = i]
  <2>1. /\ state \in ConvertingState /\ seg \in Segment /\ seg = state.segments[c]
        /\ state.segments \in Seq(Segment) /\ c \in 1..Len(state.segments)
    BY <1>2, ConvertingParts DEF CurrentSegment
  <2>2. list = IF seg.katakana \/ seg.hasMore THEN <<>> ELSE seg.candidates
    BY <1>2 DEF StateView, ConvertingView, Listed
  <2>3. ~seg.katakana /\ list = seg.candidates
    <3>1. ASSUME list = <<>> PROVE FALSE
      <4>1. Len(list) = 0 BY <3>1, EmptySeq
      <4> QED BY <4>1
    <3> QED BY <2>2, <3>1
  <2>4. state' = [state EXCEPT !.segments[c] = new]
    <3>1. i \in 0..(Len(seg.candidates) - 1) BY <2>3
    <3> QED BY <1>2, <2>1, <3>1 DEF SelectCandidate, Convert, Respond, CandidatesSet
  <2> HIDE DEF seg, c
  <2>5. CurrentForm(new) = seg.candidates[i + 1]
    BY <2>1, <2>3, <1>1 DEF CurrentForm, Segment
  <2> HIDE DEF new
  <2>6. /\ Len([state.segments EXCEPT ![c] = new]) = Len(state.segments)
        /\ [state.segments EXCEPT ![c] = new][c] = new
    BY <2>1, ElementOfSeq
  <2>7. state'.kind = "converting" /\ state'.segments = [state.segments EXCEPT ![c] = new]
    BY <2>1, <2>4 DEF ConvertingState
  <2>8. ComposedText(state')[c] = CurrentForm(new)
    BY <2>1, <2>6, <2>7 DEF ComposedText, CurrentForms
  <2> QED BY <1>2, <2>3, <2>5, <2>8 DEF c
<1>3. CASE state.kind = "inputting"
  <2>1. list = state.predictions
    BY <1>3 DEF StateView, InputtingView, CommittingView, Listed
  <2>2. state' = Selecting(state.predictions, i)
    BY <1>3, <2>1 DEF SelectCandidate, Respond
  <2>3. i + 1 \in 1..Len(state.predictions) BY <1>1, <2>1, <1>3, InputtingBuffer
  <2>4. state.predictions[i + 1] # <<>> BY <1>3, <2>3 DEF Offered
  <2>5. ComposedText(state') = Shown(state.predictions[i + 1])
    BY <2>2 DEF ComposedText, StateView, SelectingView, Selecting, CurrentPrediction
  <2>6. ComposedText(state')[1] = state.predictions[i + 1] BY <2>4, <2>5 DEF Shown
  <2> QED BY <1>3, <2>1, <2>6
<1>4. CASE state.kind = "katakana"
  <2>1. list = <<>> BY <1>4 DEF StateView, KatakanaView, Listed
  <2>2. Len(list) = 0 BY <2>1, EmptySeq
  <2> QED BY <2>2
<1> QED BY <1>2, <1>3, <1>4, KindOfState
=============================================================================

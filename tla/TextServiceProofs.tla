-------------------------- MODULE TextServiceProofs --------------------------
(***************************************************************************)
(* The Windows text service keeps what it shows in step with the state of  *)
(* the input method, however edit sessions are refused, compositions end,  *)
(* the focus moves or the mode is toggled.  The proofs go in three steps:  *)
(* what a request makes of the state of the input method; what a view      *)
(* makes of the document and of the candidate list; and what an event does *)
(* to the invariant.                                                       *)
(***************************************************************************)
EXTENDS TextService, DataProofs

-----------------------------------------------------------------------------
(* The states of the input method.                                         *)

\* A typing state with the predictions of its text; a conversion in which a
\* list that is not complete is shown by its first form.
Composing(s) ==
  /\ GoodTyping(s)
  /\ s.predictions = ListPredictions(s.buffer.string)

Conversing(s) ==
  /\ GoodConversion(s)
  /\ \A k \in 1..Len(s.segments) :
       /\ s.segments[k].katakana = FALSE
       /\ s.segments[k].hasMore => s.segments[k].index = 0

WellFormed(s) == s = DirectState \/ Composing(s) \/ Conversing(s)

\* No list of the state has a form twice.
Unrepeated(s) ==
  /\ s.kind = "inputting" => NoneTwice(s.predictions)
  /\ s.kind = "converting" =>
       \A k \in 1..Len(s.segments) : NoneTwice(s.segments[k].candidates)

HistoryTyped(h) == DOMAIN h \subseteq Strings /\ \A p \in DOMAIN h : h[p] \in String

LEMMA KindOfState ==
  ASSUME NEW s, WellFormed(s)
  PROVE  /\ s \in State
         /\ s.kind \in {"direct", "inputting", "converting"}
         /\ s.kind = "direct" <=> s = DirectState
         /\ s.kind = "inputting" <=> Composing(s)
         /\ s.kind = "converting" <=> Conversing(s)
<1>1. CASE s = DirectState
  BY <1>1 DEF DirectState, State, Composing, GoodTyping, InputtingState,
              Conversing, GoodConversion, ConvertingState
<1>2. CASE Composing(s)
  BY <1>2 DEF DirectState, State, Composing, GoodTyping, InputtingState,
              Conversing, GoodConversion, ConvertingState
<1>3. CASE Conversing(s)
  BY <1>3 DEF DirectState, State, Composing, GoodTyping, InputtingState,
              Conversing, GoodConversion, ConvertingState
<1> QED BY <1>1, <1>2, <1>3 DEF WellFormed

LEMMA EmptyComposing ==
  /\ Composing(EmptyInputting) /\ EmptyInputting.kind = "inputting"
  /\ EmptyInputting.predictions = <<>> /\ EmptyInputting.buffer.string = <<>>
  /\ Unrepeated(EmptyInputting)
<1>1. /\ EmptyInputting.kind = "inputting" /\ EmptyInputting.predictions = <<>>
      /\ EmptyInputting.buffer.string = <<>>
  BY DEF EmptyInputting, InputtingWith, EmptyBuffer
<1>2. NoneTwice(<<>>) BY EmptySeq DEF NoneTwice
<1> QED BY <1>1, <1>2, EmptyTyping DEF Composing, ListPredictions, Unrepeated

LEMMA TypedComposing ==
  ASSUME NEW b, BufferValid(b), Fits(b.string)
  PROVE  Composing(WithBuffer(b))
BY TypedIsGood DEF Composing, WithBuffer, InputtingWith

\* The predictions shown are a part of the predictor's answer.
LEMMA ComposingUnrepeated ==
  ASSUME PredictorRepeatsNothing, NEW s, Composing(s)
  PROVE  Unrepeated(s)
<1>1. s.kind = "inputting" /\ s.buffer.string \in Strings
  BY TypingBuffer DEF Composing, InputtingState
<1>2. CASE s.buffer.string = <<>>
  BY <1>1, <1>2, EmptySeq DEF Composing, Unrepeated, ListPredictions, NoneTwice
<1>3. CASE s.buffer.string # <<>>
  <2>1. NoneTwice(Predict(s.buffer.string)) /\ Predict(s.buffer.string) \in Seq(String)
        /\ MaxCandidateCount \in Nat
    BY <1>1, InputtingAssumption DEF PredictorRepeatsNothing
  <2>2. NoneTwice(s.predictions)
    BY <1>3, <2>1, FirstOnesRepeatNothing DEF Composing, ListPredictions
  <2> QED BY <1>1, <2>2 DEF Unrepeated
<1> QED BY <1>2, <1>3

\* The buffer of the direct mode: no rule is looked up.
LEMMA InsertDirectValid ==
  ASSUME NEW b, BufferValid(b), NEW ch \in Char
  PROVE  BufferValid(InsertCharDirect(b, ch))
<1>1. /\ b \in Buffer /\ b.cursor <= Len(b.string)
      /\ b.string \in String /\ b.cursor \in Nat /\ Len(b.string) \in Nat
  BY LenProperties DEF BufferValid, Buffer, String
<1>2. /\ Before(b) \in String /\ Len(Before(b)) = b.cursor
      /\ After(b) \in String /\ Len(After(b)) = Len(b.string) - b.cursor
  BY <1>1, BeforeAfter
<1>3. Before(b) \o <<ch>> \in String /\ Len(Before(b) \o <<ch>>) = b.cursor + 1
  BY <1>2, OneCharString, ConcatStrings
<1>4. /\ (Before(b) \o <<ch>>) \o After(b) \in String
      /\ Len((Before(b) \o <<ch>>) \o After(b)) = b.cursor + 1 + (Len(b.string) - b.cursor)
  BY <1>2, <1>3, ConcatStrings
<1> QED BY <1>1, <1>4 DEF InsertCharDirect, BufferValid, Buffer

-----------------------------------------------------------------------------
(* Conversions.                                                            *)

\* A remembered form goes before the others; the rest of the answer stays.
LEMMA RecallParts ==
  ASSUME NEW pron \in Strings, NEW answer \in Conversions(pron), HistoryTyped(history)
  PROVE  /\ Recall(answer) \in Seq(KkcSegment) /\ Recall(answer) # <<>>
         /\ Len(Recall(answer)) = Len(answer)
         /\ \A k \in 1..Len(answer) :
              /\ answer[k] \in KkcSegment
              /\ Recall(answer)[k].pron = answer[k].pron
              /\ (Remembers /\ answer[k].pron \in DOMAIN history) =>
                   /\ history[answer[k].pron] \in String
                   /\ Recall(answer)[k].candidates =
                        AppendCandidates(<<history[answer[k].pron]>>, answer[k].candidates)
                   /\ Recall(answer)[k].candidates[1] = history[answer[k].pron]
              /\ ~(Remembers /\ answer[k].pron \in DOMAIN history) =>
                   Recall(answer)[k].candidates = answer[k].candidates
<1>1. /\ answer \in Seq(KkcSegment) /\ answer # <<>> /\ Len(answer) \in Nat \ {0}
      /\ \A k \in 1..Len(answer) : answer[k] \in KkcSegment
  BY ConvertingAssumption, EmptySeq, LenProperties
<1> DEFINE Remembered(k) == Remembers /\ answer[k].pron \in DOMAIN history
           More(k) == PrependCandidates(answer[k].candidates, <<history[answer[k].pron]>>)
           Seg(k) == IF Remembered(k) THEN [answer[k] EXCEPT !.candidates = More(k)]
                     ELSE answer[k]
<1>2. ASSUME NEW k \in 1..Len(answer), Remembered(k)
      PROVE  /\ history[answer[k].pron] \in String
             /\ More(k) = AppendCandidates(<<history[answer[k].pron]>>, answer[k].candidates)
             /\ More(k) \in Seq(String) \ {<<>>}
             /\ More(k)[1] = history[answer[k].pron]
  <2> DEFINE form == history[answer[k].pron]
             all == AppendCandidates(<<form>>, answer[k].candidates)
  <2>1. form \in String BY <1>2 DEF HistoryTyped
  <2>2. answer[k].candidates \in Seq(String) BY <1>1 DEF KkcSegment
  <2>3. <<form>> \in Seq(String) /\ Len(<<form>>) = 1 /\ <<form>>[1] = form BY <2>1
  <2>4. More(k) = all BY DEF PrependCandidates, AppendCandidates
  <2> HIDE DEF form, More
  <2>5. /\ all \in Seq(String) /\ 1 <= Len(all) /\ all[1] = form
    <3>1. /\ AppendCandidates(<<form>>, answer[k].candidates) \in Seq(String)
          /\ Len(<<form>>) <= Len(AppendCandidates(<<form>>, answer[k].candidates))
          /\ \A i \in 1..Len(<<form>>) :
               AppendCandidates(<<form>>, answer[k].candidates)[i] = <<form>>[i]
      BY <2>2, <2>3, AppendCandidatesExtends
    <3> QED BY <2>3, <3>1
  <2> HIDE DEF all
  <2>6. all # <<>> BY <2>5, EmptySeq
  <2> USE DEF all
  <2> QED BY <2>1, <2>4, <2>5, <2>6 DEF form
<1>3. Recall(answer) = [k \in 1..Len(answer) |-> Seg(k)] BY DEF Recall
<1> HIDE DEF More
<1>4. ASSUME NEW k \in 1..Len(answer)
      PROVE  /\ Seg(k) \in KkcSegment /\ Seg(k).pron = answer[k].pron
             /\ Seg(k).candidates = IF Remembered(k) THEN More(k) ELSE answer[k].candidates
  BY <1>1, <1>2 DEF KkcSegment
<1> HIDE DEF Seg
<1>5. /\ Recall(answer) \in Seq(KkcSegment) /\ Len(Recall(answer)) = Len(answer)
      /\ \A k \in 1..Len(answer) : Recall(answer)[k] = Seg(k)
  <2>1. [k \in 1..Len(answer) |-> Seg(k)] \in [1..Len(answer) -> KkcSegment] BY <1>4
  <2> QED BY <1>1, <1>3, <2>1
<1>6. Recall(answer) # <<>> BY <1>1, <1>5, EmptySeq
<1> QED BY <1>1, <1>2, <1>4, <1>5, <1>6

\* A new conversion starts with the remembered forms and repeats none.
LEMMA ConversionStarts ==
  ASSUME NEW pron \in Strings, NEW answer \in Conversions(pron), HistoryTyped(history),
         NEW s, s = ConvertedWith(pron, Recall(answer))
  PROVE  /\ Conversing(s) /\ s.kind = "converting"
         /\ EngineRepeatsNothing => Unrepeated(s)
         /\ \A k \in 1..Len(s.segments) :
              (Remembers /\ s.segments[k].pron \in DOMAIN history) =>
                CurrentForm(s.segments[k]) = history[s.segments[k].pron]
<1> DEFINE recalled == Recall(answer)
<1>1. /\ recalled \in Seq(KkcSegment) /\ recalled # <<>> /\ Len(recalled) = Len(answer)
      /\ Len(recalled) \in Nat
  BY RecallParts, LenProperties
<1>2. GoodConversion(s) /\ s.kind = "converting" BY <1>1, ConvertedIsGood
<1>3. /\ s.segments = [k \in 1..Len(recalled) |->
                        [pron |-> recalled[k].pron, candidates |-> recalled[k].candidates,
                         index |-> 0, hasMore |-> TRUE, katakana |-> FALSE]]
  BY DEF ConvertedWith
<1>4. /\ Len(s.segments) = Len(answer)
      /\ \A k \in 1..Len(answer) :
           /\ s.segments[k].pron = recalled[k].pron
           /\ s.segments[k].candidates = recalled[k].candidates
           /\ s.segments[k].index = 0 /\ s.segments[k].katakana = FALSE
  <2> HIDE DEF recalled
  <2>1. Len(s.segments) = Len(recalled) BY <1>1, <1>3
  <2> QED BY <1>1, <1>3, <2>1
<1>5. Conversing(s) BY <1>2, <1>4 DEF Conversing
<1>6. ASSUME NEW k \in 1..Len(s.segments), Remembers, s.segments[k].pron \in DOMAIN history
      PROVE  CurrentForm(s.segments[k]) = history[s.segments[k].pron]
  <2>1. /\ recalled[k].pron = answer[k].pron
        /\ recalled[k].candidates[1] = history[answer[k].pron]
    <3>1. k \in 1..Len(answer) /\ recalled[k].pron = answer[k].pron
      BY <1>4, RecallParts
    <3>2. answer[k].pron \in DOMAIN history BY <1>4, <1>6, <3>1
    <3> QED BY <1>6, <3>1, <3>2, RecallParts
  <2>2. CurrentForm(s.segments[k]) = recalled[k].candidates[0 + 1] BY <1>4 DEF CurrentForm
  <2> QED BY <1>4, <2>1, <2>2
<1>7. ASSUME EngineRepeatsNothing, NEW k \in 1..Len(s.segments)
      PROVE  NoneTwice(s.segments[k].candidates)
  <2>1. /\ k \in 1..Len(answer) /\ NoneTwice(answer[k].candidates)
        /\ answer[k].candidates \in Seq(String)
    <3>1. k \in 1..Len(answer) /\ answer[k] \in KkcSegment BY <1>4, RecallParts
    <3> QED BY <1>7, <3>1 DEF EngineRepeatsNothing, KkcSegment
  <2>2. CASE Remembers /\ answer[k].pron \in DOMAIN history
    <3> DEFINE form == history[answer[k].pron]
    <3>1. form \in String
          /\ recalled[k].candidates = AppendCandidates(<<form>>, answer[k].candidates)
      BY <2>1, <2>2, RecallParts
    <3> HIDE DEF form
    <3>2. <<form>> \in Seq(String) /\ NoneTwice(<<form>>) BY <3>1 DEF NoneTwice
    <3> QED BY <1>4, <2>1, <3>1, <3>2, AppendRepeatsNothing
  <2>3. CASE ~(Remembers /\ answer[k].pron \in DOMAIN history)
    <3>1. recalled[k].candidates = answer[k].candidates BY <2>1, <2>3, RecallParts
    <3> QED BY <1>4, <2>1, <3>1
  <2> QED BY <2>2, <2>3
<1> QED BY <1>2, <1>5, <1>6, <1>7 DEF Unrepeated

LEMMA CandidateAsked ==
  ASSUME NEW s, Conversing(s), NEW answer \in CandidateLists(CurrentSegment(s).pron)
  PROVE  /\ answer \in Seq(String)
         /\ EngineRepeatsNothing => NoneTwice(answer)
<1>1. CurrentSegment(s).pron \in Strings
  BY ConversionParts DEF Conversing, CurrentSegment, Segment
<1> QED BY <1>1, ConvertingAssumption DEF EngineRepeatsNothing

\* Moving through the candidates and the segments keeps all this.
LEMMA ConversionMoves ==
  ASSUME NEW s, Conversing(s), NEW diff \in {1, -1},
         NEW answer \in CandidateLists(CurrentSegment(s).pron)
  PROVE  /\ Conversing(CandidatesMove(s, diff, answer))
         /\ CandidatesMove(s, diff, answer).kind = "converting"
         /\ EngineRepeatsNothing /\ Unrepeated(s) => Unrepeated(CandidatesMove(s, diff, answer))
<1> DEFINE t == CandidatesMove(s, diff, answer)
<1>1. GoodConversion(s) /\ answer \in Seq(String)
      /\ (EngineRepeatsNothing => NoneTwice(answer))
  BY CandidateAsked DEF Conversing
<1>2. GoodConversion(t) /\ t.kind = "converting" BY <1>1, CandidatesMoved
<1>3. ASSUME NEW k \in 1..Len(t.segments)
      PROVE  /\ k \in 1..Len(s.segments)
             /\ \/ t.segments[k] = s.segments[k]
                \/ /\ t.segments[k].hasMore = FALSE /\ t.segments[k].katakana = FALSE
                   /\ t.segments[k].candidates \in {s.segments[k].candidates,
                        AppendCandidates(s.segments[k].candidates, answer)}
  BY <1>1, SegmentsMoved
<1> HIDE DEF t
<1>4. Conversing(t) BY <1>2, <1>3 DEF Conversing
<1>5. ASSUME EngineRepeatsNothing, Unrepeated(s), NEW k \in 1..Len(t.segments)
      PROVE  NoneTwice(t.segments[k].candidates)
  <2>1. /\ s.kind = "converting" /\ s.segments[k].candidates \in Seq(String)
        /\ k \in 1..Len(s.segments)
    BY <1>1, <1>3, ConversionParts DEF Segment
  <2>2. NoneTwice(s.segments[k].candidates) BY <1>5, <2>1 DEF Unrepeated
  <2>3. NoneTwice(AppendCandidates(s.segments[k].candidates, answer))
    BY <1>1, <1>5, <2>1, <2>2, AppendRepeatsNothing
  <2> QED BY <1>3, <2>2, <2>3
<1>6. EngineRepeatsNothing /\ Unrepeated(s) => Unrepeated(t) BY <1>2, <1>5 DEF Unrepeated
<1> QED BY <1>2, <1>4, <1>6 DEF t

LEMMA SegmentMoves ==
  ASSUME NEW s, Conversing(s), NEW diff \in {1, -1}
  PROVE  /\ Conversing(SegmentMove(s, diff)) /\ SegmentMove(s, diff).kind = "converting"
         /\ Unrepeated(s) => Unrepeated(SegmentMove(s, diff))
<1>1. GoodConversion(s) /\ s \in ConvertingState /\ s.kind = "converting"
  BY ConversionParts DEF Conversing
<1>2. GoodConversion(SegmentMove(s, diff)) /\ SegmentMove(s, diff).kind = "converting"
  BY <1>1, SegmentMoved
<1>3. SegmentMove(s, diff).segments = s.segments
  BY <1>1 DEF SegmentMove, ConvertingState
<1> QED BY <1>1, <1>2, <1>3 DEF Conversing, Unrepeated

-----------------------------------------------------------------------------
(* Texts, lists and views of the state.                                    *)

LEMMA StateTextType ==
  ASSUME NEW s, WellFormed(s)
  PROVE  /\ StateText(s) \in Text
         /\ Composing(s) => (StateText(s) = <<>> <=> BufferEmpty(s))
         /\ Composing(s) => StateText(s) = Shown(s.buffer.string)
         /\ Conversing(s) => StateText(s) = CurrentForms(s) /\ StateText(s) # <<>>
         /\ s = DirectState => StateText(s) = <<>>
<1>0. <<>> \in Text BY DEF Text
<1>1. CASE s = DirectState
  BY <1>0, <1>1, KindOfState DEF StateText, DirectState
<1>2. CASE Composing(s)
  <2>1. s.buffer.string \in String BY <1>2, TypingBuffer, StringsAreBounded DEF Composing
  <2>2. s.kind = "inputting" /\ StateText(s) = Shown(s.buffer.string)
    BY <1>2, KindOfState DEF StateText
  <2>3. Shown(s.buffer.string) = <<>> <=> s.buffer.string = <<>> BY DEF Shown
  <2>4. s # DirectState /\ ~Conversing(s) BY <2>2, KindOfState DEF DirectState
  <2> QED BY <2>1, <2>2, <2>3, <2>4, ShownType DEF BufferEmpty
<1>3. CASE Conversing(s)
  <2>1. s.kind = "converting" /\ GoodConversion(s) BY <1>3, KindOfState DEF Conversing
  <2>2. StateText(s) = CurrentForms(s) BY <2>1 DEF StateText
  <2>3. /\ CurrentForms(s) \in Text /\ Len(CurrentForms(s)) = Len(s.segments)
        /\ Len(s.segments) \in Nat /\ s.current + 1 \in 1..Len(s.segments)
    BY <2>1, FormsOfConversion, ConversionParts
  <2>4. Len(CurrentForms(s)) # 0 BY <2>3
  <2>5. CurrentForms(s) # <<>> BY <2>4, EmptySeq
  <2>6. s # DirectState /\ ~Composing(s) BY <2>1, KindOfState DEF DirectState
  <2> QED BY <2>2, <2>3, <2>5, <2>6
<1> QED BY <1>1, <1>2, <1>3 DEF WellFormed

\* An index the window can show: none, the first, or that of a candidate.
IndexFits(candidates, index) ==
  /\ index \in Int /\ index >= -1
  /\ index <= 0 \/ index < Len(candidates)

LEMMA EditingViewType ==
  ASSUME NEW s, Composing(s)
  PROVE  /\ EditingView(s) \in View /\ EditingView(s) # NoView
         /\ EditingView(s).kind = "editing"
         /\ EditingView(s).input = StateText(s) /\ StateText(s) \in Text
         /\ EditingView(s).predictions = s.predictions
         /\ s.predictions \in Seq(String) /\ IndexFits(s.predictions, -1)
         /\ StateList(s) = List(s.predictions, -1)
<1>1. /\ s.kind = "inputting" /\ s.predictions \in Seq(String)
      /\ StateText(s) \in Text /\ StateText(s) = Shown(s.buffer.string)
  BY KindOfState, StateTextType, TypingBuffer DEF WellFormed, Composing
<1>2. EditingView(s) = [kind |-> "editing", input |-> StateText(s), predictions |-> s.predictions]
  BY <1>1 DEF EditingView
<1> QED BY <1>1, <1>2 DEF View, NoView, StateList, IndexFits

LEMMA ConvertingViewType ==
  ASSUME NEW s, Conversing(s)
  PROVE  /\ ConvertingView(s) \in View /\ ConvertingView(s) # NoView
         /\ ConvertingView(s).kind = "converting"
         /\ ConvertingView(s).forms = StateText(s) /\ StateText(s) \in Text
         /\ ConvertingView(s).candidates \in Seq(String)
         /\ IndexFits(ConvertingView(s).candidates, ConvertingView(s).index)
         /\ StateList(s) = List(ConvertingView(s).candidates, ConvertingView(s).index)
         /\ ConvertingView(s).candidates # <<>> =>
              /\ ConvertingView(s).index \in 0..(Len(ConvertingView(s).candidates) - 1)
              /\ ConvertingView(s).candidates[ConvertingView(s).index + 1]
                   = CurrentForm(CurrentSegment(s))
         /\ Unrepeated(s) => NoneTwice(ConvertingView(s).candidates)
<1> DEFINE seg == CurrentSegment(s)
           candidates == IF seg.hasMore THEN <<>> ELSE seg.candidates
<1>1. /\ s.kind = "converting" /\ s.current \in Nat /\ s.current + 1 \in 1..Len(s.segments)
      /\ StateText(s) \in Text /\ StateText(s) = CurrentForms(s)
      /\ seg \in Segment /\ seg.index \in 0..(Len(seg.candidates) - 1)
      /\ seg.katakana = FALSE /\ (seg.hasMore => seg.index = 0)
      /\ seg = s.segments[s.current + 1]
  <2>1. GoodConversion(s) /\ WellFormed(s) BY DEF Conversing, WellFormed
  <2>2. /\ s.kind = "converting" /\ s.current \in 0..(Len(s.segments) - 1)
        /\ Len(s.segments) \in Nat /\ s.current + 1 \in 1..Len(s.segments)
        /\ seg = s.segments[s.current + 1]
        /\ seg \in Segment /\ seg.index \in 0..(Len(seg.candidates) - 1)
    BY <2>1, ConversionParts DEF CurrentSegment
  <2>3. seg.katakana = FALSE /\ (seg.hasMore => seg.index = 0) BY <2>2 DEF Conversing
  <2>4. s.current \in Nat BY <2>2
  <2> QED BY <2>1, <2>2, <2>3, <2>4, StateTextType
<1> HIDE DEF seg
<1>2. /\ seg.candidates \in Seq(String) /\ Len(seg.candidates) \in Nat
      /\ seg.index \in Nat /\ seg.hasMore \in BOOLEAN
  BY <1>1, LenProperties DEF Segment
<1>3. ConvertingView(s) = [kind |-> "converting", forms |-> StateText(s), current |-> s.current,
                           candidates |-> candidates, index |-> seg.index]
  BY <1>1 DEF ConvertingView, seg
<1>4. candidates \in Seq(String) /\ IndexFits(candidates, seg.index)
  <2>1. <<>> \in Seq(String) OBVIOUS
  <2>2. CASE seg.hasMore
    <3>1. seg.index = 0 BY <1>1, <2>2
    <3> QED BY <2>1, <2>2, <3>1 DEF IndexFits
  <2>3. CASE ~seg.hasMore
    <3>1. candidates = seg.candidates BY <2>3
    <3>2. candidates \in Seq(String) /\ seg.index \in 0..(Len(candidates) - 1)
      BY <1>1, <1>2, <3>1
    <3> HIDE DEF candidates
    <3> QED BY <3>2 DEF IndexFits
  <2> QED BY <2>2, <2>3
<1>5. candidates # <<>> => /\ seg.index \in 0..(Len(candidates) - 1)
                           /\ candidates[seg.index + 1] = CurrentForm(seg)
  BY <1>1 DEF CurrentForm
<1>6. Unrepeated(s) => NoneTwice(candidates)
  <2>1. NoneTwice(<<>>) BY EmptySeq DEF NoneTwice
  <2>2. Unrepeated(s) => NoneTwice(seg.candidates) BY <1>1 DEF Unrepeated
  <2> QED BY <2>1, <2>2
<1> HIDE DEF candidates
<1>7. ConvertingView(s) \in View /\ ConvertingView(s) # NoView
  <2>1. seg.index \in Nat /\ s.current \in Nat /\ StateText(s) \in Text
        /\ candidates \in Seq(String)
    BY <1>1, <1>2, <1>4
  <2>2. ConvertingView(s) \in [kind : {"converting"}, forms : Text, current : Nat,
                               candidates : Seq(String), index : Nat]
    BY <1>3, <2>1
  <2> QED BY <1>3, <2>2 DEF View, NoView
<1>8. StateList(s) = List(candidates, seg.index)
  BY <1>1, <1>3 DEF StateList
<1>9. /\ ConvertingView(s).kind = "converting" /\ ConvertingView(s).forms = StateText(s)
      /\ ConvertingView(s).candidates = candidates /\ ConvertingView(s).index = seg.index
  BY <1>3
<1> QED BY <1>1, <1>4, <1>5, <1>6, <1>7, <1>8, <1>9 DEF seg

LEMMA CommittedViewType ==
  ASSUME NEW text \in Text
  PROVE  /\ CommittedView(text) \in View /\ CommittedView(text) # NoView
         /\ CommittedView(text).kind = "committed" /\ CommittedView(text).input = text
BY DEF CommittedView, View, NoView

-----------------------------------------------------------------------------
(* What a key makes of the state of the input method.                      *)

LEMMA GreatestPosition ==
  ASSUME NEW n \in Nat, NEW K \in SUBSET (1..n), K # {}
  PROVE  \E m \in K : \A k \in (m + 1)..n : k \notin K
<1> DEFINE S == {n - k : k \in K}
<1>1. S \in SUBSET Nat /\ S # {}
  <2>1. \A k \in K : n - k \in Nat OBVIOUS
  <2> QED BY <2>1
<1> HIDE DEF S
<1>2. PICK least \in S : \A i \in S : least <= i BY <1>1, LeastNatural
<1> USE DEF S
<1>3. PICK m \in K : least = n - m BY <1>2
<1>4. ASSUME NEW k \in (m + 1)..n, k \in K PROVE FALSE
  <2>1. n - k \in S BY <1>4
  <2>2. least <= n - k BY <1>2, <2>1
  <2> QED BY <1>3, <1>4, <2>2
<1> QED BY <1>4

\* The history remembers strings, and of each pronunciation committed a form
\* committed for it.
LEMMA LearnParts ==
  ASSUME NEW s, Conversing(s), HistoryTyped(history)
  PROVE  /\ HistoryTyped(Learn(s.segments))
         /\ \A k \in 1..Len(s.segments) : \E j \in 1..Len(s.segments) :
              /\ s.segments[j].pron = s.segments[k].pron
              /\ Learn(s.segments)[s.segments[k].pron] = CurrentForm(s.segments[j])
         /\ \A pron \in DOMAIN history :
              \/ pron \in DOMAIN Learn(s.segments) /\ Learn(s.segments)[pron] = history[pron]
              \/ \E k \in 1..Len(s.segments) : s.segments[k].pron = pron
<1> DEFINE segs == s.segments
           prons == {segs[k].pron : k \in 1..Len(segs)}
           IsLast(p, k) == segs[k].pron = p /\ \A j \in (k + 1)..Len(segs) : segs[j].pron # p
           last(p) == CHOOSE k \in 1..Len(segs) : IsLast(p, k)
<1>1. /\ Len(segs) \in Nat
      /\ \A k \in 1..Len(segs) : segs[k].pron \in Strings /\ CurrentForm(segs[k]) \in String
  <2>1. /\ GoodConversion(s) /\ Len(segs) \in Nat
        /\ \A k \in 1..Len(segs) : /\ segs[k] \in Segment
                                   /\ segs[k].index \in 0..(Len(segs[k].candidates) - 1)
    BY ConversionParts DEF Conversing
  <2> QED BY <2>1, FormType DEF Segment
<1>2. ASSUME NEW p \in prons PROVE last(p) \in 1..Len(segs) /\ segs[last(p)].pron = p
  <2> DEFINE K == {k \in 1..Len(segs) : segs[k].pron = p}
  <2>1. K \in SUBSET (1..Len(segs)) /\ K # {} OBVIOUS
  <2> HIDE DEF K
  <2>2. PICK m \in K : \A k \in (m + 1)..Len(segs) : k \notin K
    BY <1>1, <2>1, GreatestPosition
  <2> USE DEF K
  <2>3. m \in 1..Len(segs) /\ segs[m].pron = p BY <2>2
  <2>4. \A j \in (m + 1)..Len(segs) : j \in 1..Len(segs) BY <1>1, <2>3
  <2>5. IsLast(p, m) BY <2>2, <2>3, <2>4
  <2> HIDE DEF IsLast
  <2>6. IsLast(p, last(p)) /\ last(p) \in 1..Len(segs) BY <2>3, <2>5
  <2> QED BY <2>6 DEF IsLast
<1>3. Learn(segs) = [p \in DOMAIN history \cup prons |->
                       IF p \in prons THEN CurrentForm(segs[last(p)]) ELSE history[p]]
  BY DEF Learn
<1> HIDE DEF last
<1>4. \A p \in prons : p \in Strings BY <1>1
<1>5. HistoryTyped(Learn(segs))
  <2> HIDE DEF prons
  <2>1. DOMAIN Learn(segs) = DOMAIN history \cup prons BY <1>3
  <2>2. ASSUME NEW p \in DOMAIN history \cup prons PROVE Learn(segs)[p] \in String
    BY <1>1, <1>2, <1>3, <2>2 DEF HistoryTyped
  <2> QED BY <1>4, <2>1, <2>2 DEF HistoryTyped
<1>6. ASSUME NEW k \in 1..Len(segs)
      PROVE  \E j \in 1..Len(segs) :
               /\ segs[j].pron = segs[k].pron
               /\ Learn(segs)[segs[k].pron] = CurrentForm(segs[j])
  <2>1. segs[k].pron \in prons OBVIOUS
  <2> HIDE DEF prons
  <2>2. Learn(segs)[segs[k].pron] = CurrentForm(segs[last(segs[k].pron)])
    BY <1>3, <2>1
  <2> QED BY <1>2, <2>1, <2>2
<1>7. ASSUME NEW pron \in DOMAIN history, pron \notin prons
      PROVE  pron \in DOMAIN Learn(segs) /\ Learn(segs)[pron] = history[pron]
  <2> HIDE DEF prons
  <2> QED BY <1>3, <1>7
<1> QED BY <1>5, <1>6, <1>7

KeyIgnored ==
  /\ reply' \in [eaten : BOOLEAN, view : {NoView}]
  /\ UNCHANGED <<state, mode, history>>

KeyEdits ==
  /\ Composing(state) /\ Composing(state')
  /\ reply' = [eaten |-> TRUE, view |-> EditingView(state')]
  /\ UNCHANGED <<mode, history>>

KeyConverts ==
  /\ Conversing(state') /\ StateText(state) # <<>>
  /\ reply' = [eaten |-> TRUE, view |-> ConvertingView(state')]
  /\ UNCHANGED <<mode, history>>
  /\ EngineRepeatsNothing /\ Unrepeated(state) => Unrepeated(state')
  /\ Composing(state) =>
       \A k \in 1..Len(state'.segments) :
         (Remembers /\ state'.segments[k].pron \in DOMAIN history) =>
           CurrentForm(state'.segments[k]) = history[state'.segments[k].pron]

\* What Enter commits, and what it leaves.
EnterText(s) == IF StateText(s) = <<>> THEN LineBreak ELSE StateText(s)

KeyCommits ==
  /\ state # DirectState
  /\ reply' = [eaten |-> TRUE, view |-> CommittedView(EnterText(state))]
  /\ UNCHANGED mode
  /\ state' = IF mode = "hiragana" THEN EmptyInputting
              ELSE IF Composing(state) THEN DirectState ELSE state
  /\ history' = IF Conversing(state) THEN Learn(state.segments) ELSE history

KeyAnswers == KeyIgnored \/ KeyEdits \/ KeyConverts \/ KeyCommits

LEMMA IgnoreAnswers ==
  ASSUME Ignore, UNCHANGED mode
  PROVE  KeyIgnored
BY DEF Ignore, KeyIgnored

LEMMA ConvertAnswers ==
  ASSUME NEW s, Conversing(s), Convert(s), UNCHANGED mode, StateText(state) # <<>>,
         EngineRepeatsNothing /\ Unrepeated(state) => Unrepeated(s), Conversing(state)
  PROVE  KeyConverts
<1>1. ~Composing(state)
  <2>1. state.kind = "converting" /\ WellFormed(state) BY KindOfState DEF WellFormed
  <2> QED BY <2>1, KindOfState
<1>2. state' = s /\ reply' = [eaten |-> TRUE, view |-> ConvertingView(s)] /\ history' = history
  BY DEF Convert, Respond
<1> QED BY <1>1, <1>2 DEF KeyConverts

LEMMA ConvertingAnswers ==
  ASSUME Conversing(state), HistoryTyped(history), NEW key \in Key, ConvertingKey(key),
         UNCHANGED mode
  PROVE  KeyAnswers
<1>1. /\ WellFormed(state) /\ state.kind = "converting"
      /\ StateText(state) = CurrentForms(state) /\ StateText(state) # <<>>
      /\ state # DirectState /\ ~Composing(state)
  <2>1. WellFormed(state) /\ state.kind = "converting" BY KindOfState DEF WellFormed
  <2>2. state # DirectState /\ ~Composing(state) BY <2>1, KindOfState DEF DirectState
  <2> QED BY <2>1, <2>2, StateTextType
<1>2. CASE ConvertingEnter(key)
  <2>1. KeyCommits
    BY <1>1, <1>2 DEF ConvertingEnter, Respond, KeyCommits, EnterText
  <2> QED BY <2>1 DEF KeyAnswers
<1>3. ASSUME NEW answer \in CandidateLists(CurrentSegment(state).pron), NEW diff \in {1, -1},
             Convert(CandidatesMove(state, diff, answer))
      PROVE  KeyConverts
  BY <1>1, <1>3, ConversionMoves, ConvertAnswers
<1>4. ASSUME NEW diff \in {1, -1}, Convert(SegmentMove(state, diff)) PROVE KeyConverts
  BY <1>1, <1>4, SegmentMoves, ConvertAnswers
<1>5. CASE ConvertingCandidate(key) BY <1>3, <1>5 DEF ConvertingCandidate, KeyAnswers
<1>6. CASE ConvertingSegmentMove(key) BY <1>4, <1>6 DEF ConvertingSegmentMove, KeyAnswers
<1>7. CASE Ignore BY <1>7, IgnoreAnswers DEF KeyAnswers
<1> QED BY <1>2, <1>5, <1>6, <1>7 DEF ConvertingKey

LEMMA InputtingAnswers ==
  ASSUME Composing(state), HistoryTyped(history), mode \in Mode,
         NEW key \in Key, InputtingKey(key), UNCHANGED mode
  PROVE  KeyAnswers
<1>1. /\ WellFormed(state) /\ state.kind = "inputting" /\ GoodTyping(state)
      /\ BufferValid(state.buffer) /\ Fits(state.buffer.string)
      /\ StateText(state) = Shown(state.buffer.string)
      /\ StateText(state) = <<>> <=> BufferEmpty(state)
      /\ state # DirectState /\ ~Conversing(state)
  <2>1. WellFormed(state) /\ state.kind = "inputting" /\ GoodTyping(state)
    BY KindOfState DEF WellFormed, Composing
  <2>2. state # DirectState /\ ~Conversing(state) BY <2>1, KindOfState DEF DirectState
  <2> QED BY <2>1, <2>2, StateTextType, TypingBuffer
<1>2. ASSUME NEW s, Composing(s), Edit(s) PROVE KeyEdits
  BY <1>2 DEF Edit, Respond, KeyEdits
<1>3. CASE InputtingChar(key)
  <2> DEFINE ch == KeyChar[mode][key]
             b == IF mode = "hiragana" THEN InsertChar(state.buffer, ch)
                  ELSE InsertCharDirect(state.buffer, ch)
  <2>1. ch \in Char BY <1>3, WinAssumption DEF InputtingChar
  <2>2. BufferValid(b) BY <1>1, <2>1, InsertCharValid, InsertDirectValid
  <2>3. Fits(b.string) /\ Edit(WithBuffer(b)) BY <1>3 DEF InputtingChar
  <2> HIDE DEF b
  <2>4. Composing(WithBuffer(b)) BY <2>2, <2>3, TypedComposing
  <2> QED BY <1>2, <2>3, <2>4 DEF KeyAnswers
<1>4. CASE InputtingBackspace(key)
  <2>1. CASE BufferEmpty(state)
    BY <1>4, <2>1, IgnoreAnswers DEF InputtingBackspace, KeyAnswers
  <2>2. CASE ~BufferEmpty(state)
    <3>1. /\ BufferValid(DeleteChar(state.buffer))
          /\ Len(DeleteChar(state.buffer).string) <= Len(state.buffer.string)
      BY <1>1, DeleteCharValid
    <3>2. Len(DeleteChar(state.buffer).string) \in Nat /\ Len(state.buffer.string) \in Nat
      BY <1>1, <3>1, LenProperties DEF BufferValid, Buffer, String
    <3>3. Fits(DeleteChar(state.buffer).string)
      BY <1>1, <3>1, <3>2, InputtingAssumption DEF Fits
    <3>4. Composing(InputtingDelete(state)) BY <3>1, <3>3, TypedComposing DEF InputtingDelete
    <3> QED BY <1>2, <1>4, <2>2, <3>4 DEF InputtingBackspace, KeyAnswers
  <2> QED BY <2>1, <2>2
<1>5. CASE InputtingSpace(key)
  <2>1. CASE BufferEmpty(state)
    BY <1>5, <2>1, IgnoreAnswers DEF InputtingSpace, KeyAnswers
  <2>2. CASE ~BufferEmpty(state)
    <3>1. PICK answer \in Conversions(GetPron(state)) :
            Convert(ConvertedWith(GetPron(state), Recall(answer)))
      BY <1>5, <2>2 DEF InputtingSpace
    <3>2. GetPron(state) \in Strings
      BY <1>1, <1>5, <2>2, PronOfTyping, StringsAreBounded DEF InputtingSpace, Fits
    <3>3. PICK s : s = ConvertedWith(GetPron(state), Recall(answer)) OBVIOUS
    <3>4. /\ Conversing(s)
          /\ EngineRepeatsNothing => Unrepeated(s)
          /\ \A k \in 1..Len(s.segments) :
               (Remembers /\ s.segments[k].pron \in DOMAIN history) =>
                 CurrentForm(s.segments[k]) = history[s.segments[k].pron]
      BY <3>2, <3>3, ConversionStarts
    <3>5. /\ state' = s /\ reply' = [eaten |-> TRUE, view |-> ConvertingView(s)]
          /\ history' = history
      BY <3>1, <3>3 DEF Convert, Respond
    <3>6. KeyConverts BY <1>1, <2>2, <3>4, <3>5 DEF KeyConverts
    <3> QED BY <3>6 DEF KeyAnswers
  <2> QED BY <2>1, <2>2
<1>6. CASE InputtingEnter(key)
  <2>1. EnterText(state) = IF BufferEmpty(state) THEN LineBreak ELSE Shown(state.buffer.string)
    BY <1>1 DEF EnterText
  <2>2. KeyCommits BY <1>1, <1>6, <2>1 DEF InputtingEnter, Respond, KeyCommits
  <2> QED BY <2>2 DEF KeyAnswers
<1>7. CASE Ignore BY <1>7, IgnoreAnswers DEF KeyAnswers
<1> QED BY <1>3, <1>4, <1>5, <1>6, <1>7 DEF InputtingKey

\* The answers a key can have, with the server or without.
LEMMA ProxyAnswers ==
  ASSUME WellFormed(state), HistoryTyped(history), mode \in Mode,
         NEW key \in Key, ProxyProcessInput(key)
  PROVE  KeyAnswers
<1>1. CASE deaf
  BY <1>1 DEF ProxyProcessInput, KeyIgnored, KeyAnswers
<1>2. CASE ~deaf
  <2>1. ProcessInput(key) BY <1>2 DEF ProxyProcessInput
  <2>2. CASE DirectKey BY <2>1, <2>2, IgnoreAnswers DEF ProcessInput, DirectKey, KeyAnswers
  <2>3. CASE ConvertingKey(key)
    <3>1. Conversing(state) BY <2>3, KindOfState DEF ConvertingKey
    <3> QED BY <2>1, <2>3, <3>1, ConvertingAnswers DEF ProcessInput
  <2>4. CASE InputtingKey(key)
    <3>1. Composing(state) BY <2>4, KindOfState DEF InputtingKey
    <3> QED BY <2>1, <2>4, <3>1, InputtingAnswers DEF ProcessInput
  <2> QED BY <2>1, <2>2, <2>3, <2>4 DEF ProcessInput
<1> QED BY <1>1, <1>2

\* What every answer keeps.
LEMMA KeyKeepsState ==
  ASSUME WellFormed(state), HistoryTyped(history), mode \in Mode,
         DirectStateInDirectMode, KeyAnswers
  PROVE  /\ WellFormed(state') /\ HistoryTyped(history') /\ mode' = mode
         /\ reply' \in [eaten : BOOLEAN, view : View]
         /\ DirectStateInDirectMode'
         /\ (EngineRepeatsNothing /\ PredictorRepeatsNothing /\ Unrepeated(state))
              => Unrepeated(state')
<1>1. CASE KeyIgnored
  <2>1. reply' \in [eaten : BOOLEAN, view : View] BY <1>1 DEF KeyIgnored, View
  <2> QED BY <1>1, <2>1 DEF KeyIgnored, DirectStateInDirectMode
<1>2. CASE KeyEdits
  <2>1. WellFormed(state') /\ state'.kind = "inputting"
    BY <1>2, KindOfState DEF KeyEdits, WellFormed
  <2>2. reply' \in [eaten : BOOLEAN, view : View] BY <1>2, EditingViewType DEF KeyEdits
  <2> QED BY <1>2, <2>1, <2>2, ComposingUnrepeated DEF KeyEdits, DirectStateInDirectMode
<1>3. CASE KeyConverts
  <2>1. WellFormed(state') /\ state'.kind = "converting"
    BY <1>3, KindOfState DEF KeyConverts, WellFormed
  <2>2. reply' \in [eaten : BOOLEAN, view : View] BY <1>3, ConvertingViewType DEF KeyConverts
  <2> QED BY <1>3, <2>1, <2>2 DEF KeyConverts, DirectStateInDirectMode
<1>4. CASE KeyCommits
  <2>1. EnterText(state) \in Text BY StateTextType, WinAssumption DEF EnterText
  <2>2. reply' \in [eaten : BOOLEAN, view : View]
    BY <1>4, <2>1, CommittedViewType DEF KeyCommits
  <2>3. HistoryTyped(history') BY <1>4, LearnParts DEF KeyCommits
  <2>4. /\ mode' = mode
        /\ state' = IF mode = "hiragana" THEN EmptyInputting
                    ELSE IF Composing(state) THEN DirectState ELSE state
    BY <1>4 DEF KeyCommits
  <2>5. mode = "hiragana" \/ mode = "direct" BY DEF Mode
  <2>6. DirectStateInDirectMode'
    BY <2>4, <2>5, EmptyComposing DEF DirectStateInDirectMode, DirectState
  <2>7. WellFormed(state') BY <2>4, EmptyComposing DEF WellFormed
  <2>8. Unrepeated(DirectState) BY DEF Unrepeated, DirectState
  <2> QED BY <2>2, <2>3, <2>4, <2>6, <2>7, <2>8, EmptyComposing
<1> QED BY <1>1, <1>2, <1>3, <1>4 DEF KeyAnswers

\* What toggling the mode makes of the state: its text and its list stay.
LEMMA ToggleKeepsState ==
  ASSUME WellFormed(state), mode \in Mode,
         DirectStateInDirectMode, ProxyToggleInputMode
  PROVE  /\ WellFormed(state') /\ history' = history /\ mode' \in Mode /\ reply' = reply
         /\ DirectStateInDirectMode'
         /\ StateText(state') = StateText(state)
         /\ StateList(state') = StateList(state)
         /\ state'.kind = "converting" <=> state.kind = "converting"
         /\ Unrepeated(state) => Unrepeated(state')
         /\ (StateText(state) = <<>> /\ (mode = "direct" => state = DirectState))
              => (mode' = "direct" => state' = DirectState)
<1>1. /\ WellFormed(DirectState) /\ DirectState.kind = "direct" /\ Unrepeated(DirectState)
      /\ StateText(DirectState) = <<>> /\ StateList(DirectState) = List(<<>>, -1)
  BY KindOfState, StateTextType DEF WellFormed, DirectState, StateList, Unrepeated
<1>2. /\ WellFormed(EmptyInputting) /\ EmptyInputting.kind = "inputting"
      /\ Unrepeated(EmptyInputting)
      /\ StateText(EmptyInputting) = <<>> /\ StateList(EmptyInputting) = List(<<>>, -1)
  BY EmptyComposing, StateTextType DEF WellFormed, StateList, Shown
<1>3. reply' = reply BY DEF ProxyToggleInputMode
<1>4. CASE UNCHANGED <<state, mode, history>>
  BY <1>3, <1>4 DEF DirectStateInDirectMode
<1>5. CASE ToggleInputMode
  <2>1. history' = history BY <1>5 DEF ToggleInputMode
  <2>2. CASE state.kind = "direct"
    <3>1. state = DirectState /\ state' = EmptyInputting /\ mode' = "hiragana"
      BY <1>5, <2>2, KindOfState DEF ToggleInputMode
    <3> QED BY <1>1, <1>2, <1>3, <2>1, <3>1 DEF DirectStateInDirectMode, Mode
  <2>3. CASE state.kind = "inputting" /\ mode = "hiragana"
    <3>1. /\ state' = IF BufferEmpty(state) THEN DirectState ELSE state
          /\ mode' = "direct"
      BY <1>5, <2>3 DEF ToggleInputMode
    <3>2. Composing(state) BY <2>3, KindOfState
    <3>3. StateText(state) = <<>> <=> BufferEmpty(state) BY <3>2, StateTextType
    <3>4. BufferEmpty(state) => StateList(state) = List(<<>>, -1)
      BY <2>3, <3>2 DEF StateList, Composing, ListPredictions, BufferEmpty
    <3> QED BY <1>1, <1>3, <2>1, <2>3, <3>1, <3>3, <3>4 DEF DirectStateInDirectMode, Mode
  <2>4. CASE state.kind = "inputting" /\ mode = "direct"
    <3>1. mode' = "hiragana" /\ state' = state BY <1>5, <2>4 DEF ToggleInputMode
    <3> QED BY <1>3, <2>1, <2>4, <3>1 DEF DirectStateInDirectMode, Mode
  <2>5. CASE state.kind = "converting"
    <3>1. mode' = mode /\ state' = state BY <1>5, <2>5 DEF ToggleInputMode
    <3> QED BY <1>3, <2>1, <3>1 DEF DirectStateInDirectMode
  <2> QED BY <2>2, <2>3, <2>4, <2>5, KindOfState DEF Mode
<1> QED BY <1>4, <1>5 DEF ProxyToggleInputMode

-----------------------------------------------------------------------------
(* The candidate list and its window.                                      *)

\* The page of an index holds it; no index, and an empty list, are on the
\* first.
LEMMA PageHolds ==
  ASSUME NEW candidates \in Seq(String), NEW index, IndexFits(candidates, index),
         NEW begin, begin = Page(index) * PageSize
  PROVE  /\ begin \in Nat /\ begin <= Len(candidates)
         /\ index < 0 => begin = 0
         /\ index >= 0 => begin <= index /\ index < begin + PageSize
         /\ candidates # <<>> => begin < Len(candidates)
<1>1. PageSize \in Nat \ {0} /\ index \in Int /\ index >= -1 /\ Len(candidates) \in Nat
      /\ (candidates # <<>> => Len(candidates) # 0)
  BY PageAssumption, LenProperties, EmptySeq DEF IndexFits
<1>2. CASE index < 0
  <2>1. begin = 0 BY <1>1, <1>2 DEF Page
  <2> QED BY <1>1, <1>2, <2>1
<1>3. CASE ~(index < 0)
  <2>1. ASSUME NEW i \in Nat, NEW n \in Nat \ {0}
        PROVE  (i \div n) * n \in Nat /\ (i \div n) * n <= i /\ i < (i \div n) * n + n
    OBVIOUS
  <2>2. index \in Nat /\ begin = (index \div PageSize) * PageSize BY <1>1, <1>3 DEF Page
  <2>3. begin \in Nat /\ begin <= index /\ index < begin + PageSize
    BY <1>1, <2>1, <2>2
  <2>4. index = 0 \/ index < Len(candidates) BY <1>1, <2>2 DEF IndexFits
  <2> QED BY <1>1, <1>3, <2>2, <2>3, <2>4
<1> QED BY <1>2, <1>3

\* The window has the height of what is drawn on it, which is the page of the
\* current candidate.
LEMMA PageDrawn ==
  ASSUME NEW candidates \in Seq(String), NEW index, IndexFits(candidates, index),
         NEW l, l = List(candidates, index), NEW begin, begin = Page(index) * PageSize
  PROVE  /\ CalculateSize(l) \in Nat
         /\ CalculateSize(l) = 0 <=> candidates = <<>>
         /\ DrawCandidates(l).rows \in Seq(String)
         /\ Len(DrawCandidates(l).rows) = CalculateSize(l)
         /\ DrawCandidates(l).highlight = index - begin
         /\ DrawCandidates(l).highlight \in Int
         /\ index \in 0..(Len(candidates) - 1) =>
              /\ index - begin + 1 \in 1..CalculateSize(l)
              /\ DrawCandidates(l).rows[index - begin + 1] = candidates[index + 1]
<1> DEFINE end == Smaller(begin + PageSize, Len(candidates))
           rows == SubSeq(candidates, begin + 1, end)
<1>1. /\ begin \in Nat /\ begin <= Len(candidates)
      /\ index >= 0 => begin <= index /\ index < begin + PageSize
      /\ candidates # <<>> => begin < Len(candidates)
      /\ PageSize \in Nat \ {0} /\ Len(candidates) \in Nat /\ index \in Int
      /\ candidates = <<>> => Len(candidates) = 0
  BY PageHolds, PageAssumption, LenProperties, EmptySeq DEF IndexFits
<1>2. l.candidates = candidates /\ l.index = index BY DEF List
<1>3. /\ CalculateSize(l) = end - begin
      /\ DrawCandidates(l) = [rows |-> rows, highlight |-> index - begin]
  BY <1>2 DEF CalculateSize, DrawCandidates, Rows
<1>4. /\ end \in Nat /\ begin <= end /\ end <= Len(candidates)
      /\ end = begin <=> candidates = <<>>
      /\ index \in 0..(Len(candidates) - 1) => index + 1 <= end
  BY <1>1 DEF Smaller
<1> HIDE DEF end
<1>5. /\ rows \in Seq(String) /\ Len(rows) = end - begin
      /\ \A j \in 1..(end - begin) : rows[j] = candidates[begin + j]
  <2>1. begin + 1 \in Nat /\ \A j \in (begin + 1)..end : candidates[j] \in String
    BY <1>1, <1>4, LenProperties
  <2>2. /\ rows \in Seq(String)
        /\ Len(rows) = IF begin + 1 <= end THEN end - (begin + 1) + 1 ELSE 0
        /\ \A j \in 1..(end - (begin + 1) + 1) : rows[j] = candidates[begin + 1 + j - 1]
    BY <2>1, <1>4, SubSeqProperties
  <2>3. ASSUME NEW j \in 1..(end - begin) PROVE rows[j] = candidates[begin + j]
    <3>1. j \in 1..(end - (begin + 1) + 1) /\ begin + 1 + j - 1 = begin + j BY <1>1, <1>4
    <3> QED BY <2>2, <3>1
  <2>4. Len(rows) = end - begin BY <1>1, <1>4, <2>2
  <2> QED BY <2>2, <2>3, <2>4
<1> HIDE DEF rows
<1>6. ASSUME index \in 0..(Len(candidates) - 1)
      PROVE  /\ index - begin + 1 \in 1..(end - begin)
             /\ rows[index - begin + 1] = candidates[index + 1]
  <2>1. index - begin + 1 \in 1..(end - begin) /\ begin + (index - begin + 1) = index + 1
    BY <1>1, <1>4, <1>6
  <2> QED BY <1>5, <2>1
<1>7. /\ DrawCandidates(l).rows = rows
      /\ DrawCandidates(l).highlight = index - begin
  BY <1>3
<1>8. index - begin \in Int /\ end - begin \in Nat /\ (end - begin = 0 <=> candidates = <<>>)
  BY <1>1, <1>4
<1>9. CalculateSize(l) = end - begin BY <1>3
<1> QED BY <1>5, <1>6, <1>7, <1>8, <1>9

\* The window shows the page of the list, and is visible when there is
\* something on it.
WindowDrawn ==
  /\ list # NoList => IndexFits(list.candidates, list.index)
  /\ ui.kind = "window" =>
       /\ window.shown <=> list.candidates # <<>>
       /\ window.shown =>
            /\ window.height = CalculateSize(list)
            /\ window.rows = DrawCandidates(list).rows
            /\ window.highlight = DrawCandidates(list).highlight

UIGood == UITypeOK(String) /\ WindowDrawn

WindowState ==
  [shown : BOOLEAN, rows : Seq(String), highlight : Int, height : Nat, placed : BOOLEAN]

LEMMA ListUpdated ==
  ASSUME UIGood, NEW context \in Context, NEW uiless \in BOOLEAN,
         NEW candidates \in Seq(String), NEW index, IndexFits(candidates, index),
         UpdateList(context, uiless, candidates, index)
  PROVE  UIGood' /\ list' = List(candidates, index) /\ list' # NoList
<1>1. /\ ui' = Ensured(context, uiless) /\ list' = List(candidates, index)
      /\ NotifyUpdateUI(ui', list') /\ registered' = registered
  BY DEF UpdateList
<1>2. /\ window \in WindowState /\ registered \in BOOLEAN
      /\ ui \in {NoUI} \cup [kind : {"window", "bare", "element"}, context : Context]
  BY DEF UIGood, UITypeOK, WindowState
<1>3. /\ ui' \in [kind : {"window", "bare", "element"}, context : Context]
      /\ ui' # NoUI
  <2>1. Create(context, uiless) \in [kind : {"window", "bare", "element"}, context : Context]
    BY DEF Create
  <2>2. ui' \in [kind : {"window", "bare", "element"}, context : Context]
    BY <1>1, <1>2, <2>1 DEF Ensured
  <2> QED BY <2>2 DEF NoUI
<1>4. /\ list' \in [kind : {"list"}, candidates : Seq(String), index : Int]
      /\ list' # NoList /\ list'.candidates = candidates /\ list'.index = index
  BY <1>1 DEF List, NoList, IndexFits
<1>5. PICK l : l = list' OBVIOUS
<1>6. PICK begin : begin = Page(index) * PageSize OBVIOUS
<1>7. /\ CalculateSize(l) \in Nat
      /\ CalculateSize(l) = 0 <=> candidates = <<>>
      /\ DrawCandidates(l).rows \in Seq(String)
      /\ DrawCandidates(l).highlight \in Int
  BY <1>1, <1>5, <1>6, PageDrawn
<1> DEFINE sized == [window EXCEPT !.height = CalculateSize(l)]
           drawn == WindowProc(sized, l)
<1>8. window' = IF ui'.kind = "window" THEN Show(drawn, l) ELSE window
  BY <1>1, <1>5 DEF NotifyUpdateUI
<1>9. /\ drawn \in WindowState /\ drawn.height = CalculateSize(l)
      /\ CalculateSize(l) # 0 =>
           /\ drawn.rows = DrawCandidates(l).rows
           /\ drawn.highlight = DrawCandidates(l).highlight
  <2>1. sized \in WindowState /\ sized.height = CalculateSize(l) BY <1>2, <1>7 DEF WindowState
  <2>2. CASE CalculateSize(l) = 0 BY <2>1, <2>2 DEF WindowProc
  <2>3. CASE CalculateSize(l) # 0
    <3>1. drawn = [sized EXCEPT !.rows = DrawCandidates(l).rows,
                                !.highlight = DrawCandidates(l).highlight]
      BY <2>1, <2>3 DEF WindowProc
    <3> HIDE DEF sized, drawn
    <3> QED BY <1>7, <2>1, <3>1 DEF WindowState
  <2> QED BY <2>2, <2>3
<1> HIDE DEF drawn
<1>10. /\ Show(drawn, l) \in WindowState
       /\ Show(drawn, l).shown <=> candidates # <<>>
       /\ Show(drawn, l).height = drawn.height /\ Show(drawn, l).rows = drawn.rows
       /\ Show(drawn, l).highlight = drawn.highlight
  BY <1>4, <1>5, <1>9 DEF Show, WindowState
<1>11. UITypeOK(String)'
  <2>1. window' \in WindowState BY <1>2, <1>8, <1>10
  <2> QED BY <1>1, <1>2, <1>3, <1>4, <2>1 DEF UITypeOK, WindowState
<1>12. WindowDrawn'
  <2>1. ASSUME ui'.kind = "window"
        PROVE  /\ window'.shown <=> list'.candidates # <<>>
               /\ window'.shown =>
                    /\ window'.height = CalculateSize(list')
                    /\ window'.rows = DrawCandidates(list').rows
                    /\ window'.highlight = DrawCandidates(list').highlight
    BY <1>4, <1>5, <1>7, <1>8, <1>9, <1>10, <2>1
  <2> QED BY <1>4, <2>1 DEF WindowDrawn
<1> QED BY <1>1, <1>4, <1>11, <1>12 DEF UIGood

LEMMA ListDestroyed ==
  ASSUME UIGood, DestroyUI
  PROVE  UIGood' /\ list' = NoList
<1>1. list' = NoList /\ ui' = NoUI /\ window' = HiddenWindow /\ registered' = registered
  BY DEF DestroyUI
<1>2. HiddenWindow \in WindowState
  <2>1. <<>> \in Seq(String) OBVIOUS
  <2> QED BY <2>1 DEF HiddenWindow, WindowState
<1>3. UITypeOK(String)' BY <1>1, <1>2 DEF UIGood, UITypeOK, WindowState
<1>4. WindowDrawn' BY <1>1 DEF WindowDrawn, NoUI
<1> QED BY <1>1, <1>3, <1>4 DEF UIGood

LEMMA ListKept ==
  ASSUME UIGood, UNCHANGED uiVars
  PROVE  UIGood' /\ list' = list
<1>1. list' = list /\ ui' = ui /\ window' = window /\ registered' = registered BY DEF uiVars
<1> QED BY <1>1 DEF UIGood, UITypeOK, WindowDrawn

LEMMA WindowMoved ==
  ASSUME UIGood, Move
  PROVE  UIGood' /\ list' = list
<1>1. /\ list' = list /\ ui' = ui /\ registered' = registered
      /\ window' = IF ui.kind = "window" THEN [window EXCEPT !.placed = TRUE] ELSE window
  BY DEF Move
<1>2. window \in WindowState BY DEF UIGood, UITypeOK, WindowState
<1>3. /\ window' \in WindowState /\ window'.shown = window.shown
      /\ window'.height = window.height /\ window'.rows = window.rows
      /\ window'.highlight = window.highlight
  BY <1>1, <1>2 DEF WindowState
<1>4. UITypeOK(String)' BY <1>1, <1>3 DEF UIGood, UITypeOK, WindowState
<1>5. WindowDrawn' BY <1>1, <1>3 DEF UIGood, WindowDrawn
<1> QED BY <1>1, <1>4, <1>5 DEF UIGood

LEMMA ClassChanged ==
  ASSUME UIGood, RegisterWindowClass \/ UnregisterWindowClass
  PROVE  UIGood' /\ list' = list
<1>1. /\ list' = list /\ ui' = ui /\ window' = window /\ registered' \in BOOLEAN
  BY DEF RegisterWindowClass, UnregisterWindowClass, UIGood, UITypeOK
<1> QED BY <1>1 DEF UIGood, UITypeOK, WindowDrawn

-----------------------------------------------------------------------------
(* The document.                                                           *)

Compositions == {NoComposition} \cup [kind : {"live", "ended"}, context : Context, text : Text]

\* A composition is ended by the application alone, and is where the keys go
\* unless the focus moves.
Located ==
  /\ composition.kind = "ended" => "ended" \in around
  /\ (composition # NoComposition /\ "moved" \notin around) => composition.context = focus

DocGood ==
  /\ around \in Circumstances /\ focus \in Context
  /\ composition \in Compositions /\ committed \in Text
  /\ refusals \in 0..MaxRefusals
  /\ crash \in {"none", "range", "composition", "element"}
  /\ CrashesHaveCauses
  /\ Located

\* Nothing but refusals and the mode disturbs the composition.
Quiet == "ended" \notin around /\ "moved" \notin around /\ "unstarted" \notin around

Still == around' = around /\ focus' = focus

LEMMA EmptyText == <<>> \in Text
BY DEF Text

LEMMA CompositionKinds ==
  ASSUME NEW c \in Compositions
  PROVE  /\ c = NoComposition <=> c.kind = "none"
         /\ c # NoComposition => /\ c \in [kind : {"live", "ended"}, context : Context, text : Text]
                                 /\ c.kind \in {"live", "ended"}
                                 /\ c.text \in Text
BY DEF Compositions, NoComposition

\* What is written into a composition is in it, unless that has ended or is
\* out of reach.
LEMMA ReplacedParts ==
  ASSUME DocGood, composition # NoComposition, NEW text \in Text, NEW r \in Replaced(text)
  PROVE  /\ r.composition \in Compositions /\ r.composition # NoComposition
         /\ r.composition.kind = composition.kind
         /\ r.composition.context = composition.context
         /\ r.written \in {<<>>, text} /\ r.pointer \in {"none", "range"}
         /\ r.pointer = "range" => "ended" \in around
         /\ r.pointer = "range" => r.composition = composition
         /\ (composition.kind = "ended" \/ composition.context = focus) /\ r.pointer = "none"
              => r.written = text
         /\ (composition.kind = "live" /\ composition.context = focus)
              => r.pointer = "none" /\ r.composition.text = text
<1> DEFINE changed == [composition EXCEPT !.text = text]
<1>1. /\ composition \in [kind : {"live", "ended"}, context : Context, text : Text]
      /\ composition \in Compositions
      /\ composition.kind = "ended" => "ended" \in around
  BY CompositionKinds DEF DocGood, Located
<1>2. /\ changed \in [kind : {"live", "ended"}, context : Context, text : Text]
      /\ changed.kind = composition.kind /\ changed.context = composition.context
      /\ changed.text = text
  BY <1>1
<1> HIDE DEF changed
<1>3. changed \in Compositions /\ changed # NoComposition
  BY <1>2 DEF Compositions, NoComposition
<1>4. CASE composition.kind = "ended"
  <2>1. r \in {[composition |-> changed, written |-> text, pointer |-> "none"],
               [composition |-> composition, written |-> <<>>, pointer |-> "range"]}
    BY <1>4 DEF Replaced, changed
  <2> QED BY <1>1, <1>2, <1>3, <1>4, <2>1
<1>5. CASE composition.kind # "ended" /\ composition.context = focus
  <2>1. r = [composition |-> changed, written |-> text, pointer |-> "none"]
    BY <1>5 DEF Replaced, changed
  <2> QED BY <1>2, <1>3, <1>5, <2>1
<1>6. CASE composition.kind # "ended" /\ composition.context # focus
  <2>1. r = [composition |-> composition, written |-> <<>>, pointer |-> "none"]
    BY <1>6 DEF Replaced
  <2> QED BY <1>1, <1>6, <2>1
<1> QED BY <1>4, <1>5, <1>6

LEMMA InsertedParts ==
  ASSUME NEW text \in Text, NEW i \in Inserted(text)
  PROVE  /\ i.left \in {<<>>, text}
         /\ i.started = TRUE => i.left = <<>>
         /\ "unstarted" \notin around => i.started = TRUE
         /\ i.started \in BOOLEAN
<1>1. CASE i = [started |-> TRUE, left |-> <<>>] BY <1>1
<1>2. CASE "unstarted" \in around /\ i \in [started : {FALSE}, left : {<<>>, text}]
  BY <1>2
<1> QED BY <1>1, <1>2 DEF Inserted

\* A session that writes leaves the document like this; the rest follows.
LEMMA SessionLeaves ==
  ASSUME DocGood, Still, refusals' \in 0..MaxRefusals,
         composition' \in Compositions, committed' \in Text,
         \/ crash' = "none"
         \/ crash' = "range" /\ "ended" \in around
         \/ crash' = "composition" /\ "unstarted" \in around
         \/ crash' = "element" /\ "unmanaged" \in around,
         composition'.kind = "ended" => "ended" \in around,
         (composition' # NoComposition /\ "moved" \notin around) => composition'.context = focus
  PROVE  DocGood'
<1>2. around' = around /\ focus' = focus BY DEF Still
<1>3. CrashesHaveCauses' BY <1>2 DEF CrashesHaveCauses
<1>4. Located' BY <1>2 DEF Located
<1> QED BY <1>2, <1>3, <1>4 DEF DocGood

LEMMA NothingEdited ==
  ASSUME DocGood, Still, refusals' \in 0..MaxRefusals, Edited(composition, <<>>, "none")
  PROVE  DocGood' /\ composition' = composition /\ committed' = <<>> /\ crash' = "none"
<1>1. composition' = composition /\ committed' = <<>> /\ crash' = "none" BY DEF Edited
<1>2. composition \in Compositions /\ Located BY DEF DocGood
<1>3. DocGood' BY <1>1, <1>2, EmptyText, SessionLeaves DEF Located
<1> QED BY <1>1, <1>3

LEMMA Started ==
  ASSUME DocGood, Still, refusals' \in 0..MaxRefusals, NEW text \in Text, Start(text)
  PROVE  /\ DocGood'
         /\ Quiet => InSight' = text /\ committed' = <<>>
<1>1. PICK i \in Inserted(text) :
        Edited(IF i.started THEN Composition(text) ELSE NoComposition, i.left, "none")
  BY DEF Start
<1> DEFINE c == IF i.started THEN Composition(text) ELSE NoComposition
<1>2. i.left \in {<<>>, text} /\ i.left \in Text /\ i.started \in BOOLEAN
      /\ ("unstarted" \notin around => i.started = TRUE)
      /\ (i.started = TRUE => i.left = <<>>)
  BY InsertedParts, EmptyText
<1>3. focus \in Context BY DEF DocGood
<1>4. c \in Compositions /\ c.kind # "ended"
      /\ (c # NoComposition => c.context = focus)
      /\ (i.started = TRUE => c.kind = "live" /\ c.context = focus /\ c.text = text)
  BY <1>2, <1>3 DEF Composition, Compositions, NoComposition
<1>5. composition' = c /\ committed' = i.left /\ crash' = "none" BY <1>1 DEF Edited
<1> HIDE DEF c
<1>6. DocGood' BY <1>2, <1>4, <1>5, SessionLeaves
<1>7. ASSUME Quiet PROVE InSight' = text /\ committed' = <<>>
  <2>1. i.started = TRUE BY <1>2, <1>7 DEF Quiet
  <2>2. composition'.kind = "live" /\ composition'.context = focus' /\ composition'.text = text
    BY <1>4, <1>5, <2>1 DEF Still
  <2> QED BY <1>2, <1>5, <2>1, <2>2 DEF InSight
<1> QED BY <1>6, <1>7

\* A quiet composition is alive and in sight.
LEMMA QuietComposition ==
  ASSUME DocGood, Quiet, composition # NoComposition
  PROVE  /\ composition.kind = "live" /\ composition.context = focus
         /\ InSight = composition.text
<1>1. composition.kind \in {"live", "ended"} BY CompositionKinds DEF DocGood
<1> QED BY <1>1 DEF DocGood, Located, Quiet, InSight

\* What a session that only rewrites a composition leaves.
LEMMA Rewritten ==
  ASSUME DocGood, Still, refusals' \in 0..MaxRefusals, composition # NoComposition,
         NEW text \in Text, NEW r \in Replaced(text), committed' = <<>>, crash' = r.pointer,
         \/ composition' = r.composition
         \/ composition' = NoComposition /\ text = <<>> /\ r.pointer = "none"
  PROVE  DocGood' /\ (Quiet => InSight' = text /\ crash' = "none")
<1>1. /\ r.composition \in Compositions /\ r.composition # NoComposition
      /\ r.composition.kind = composition.kind
      /\ r.composition.context = composition.context
      /\ r.pointer \in {"none", "range"}
      /\ r.pointer = "range" => "ended" \in around
      /\ (composition.kind = "live" /\ composition.context = focus)
           => r.pointer = "none" /\ r.composition.text = text
  BY ReplacedParts
<1>2. Located BY DEF DocGood
<1>3. NoComposition \in Compositions /\ NoComposition.kind = "none"
  BY DEF Compositions, NoComposition
<1>4. DocGood' BY <1>1, <1>2, <1>3, EmptyText, SessionLeaves DEF Located
<1>5. ASSUME Quiet PROVE InSight' = text /\ crash' = "none"
  <2>1. composition.kind = "live" /\ composition.context = focus /\ focus' = focus
    BY <1>5, QuietComposition DEF Still
  <2>2. CASE composition' = r.composition BY <1>1, <2>1, <2>2 DEF InSight
  <2>3. CASE composition' = NoComposition /\ text = <<>>
    BY <1>1, <1>3, <2>1, <2>3 DEF InSight
  <2> QED BY <2>2, <2>3
<1> QED BY <1>4, <1>5

LEMMA EditingEdited ==
  ASSUME DocGood, Still, refusals' \in 0..MaxRefusals,
         NEW view, view.input \in Text, EditEditing(view)
  PROVE  DocGood' /\ (Quiet => InSight' = view.input /\ committed' = <<>> /\ crash' = "none")
<1>1. CASE composition = NoComposition /\ view.input = <<>>
  <2>1. Edited(composition, <<>>, "none") BY <1>1 DEF EditEditing
  <2>2. DocGood' /\ composition' = NoComposition /\ committed' = <<>> /\ crash' = "none"
    BY <1>1, <2>1, NothingEdited
  <2>3. InSight' = <<>> BY <2>2 DEF InSight, NoComposition
  <2> QED BY <1>1, <2>2, <2>3
<1>2. CASE composition = NoComposition /\ view.input # <<>>
  <2>1. Start(view.input) BY <1>2 DEF EditEditing
  <2>2. crash' = "none" BY <2>1 DEF Start, Edited
  <2> QED BY <2>1, <2>2, Started
<1>3. CASE composition # NoComposition
  <2>1. PICK r \in Replaced(view.input) :
          Edited(IF view.input = <<>> /\ r.pointer = "none" THEN NoComposition
                 ELSE r.composition, <<>>, r.pointer)
    BY <1>3 DEF EditEditing
  <2>2. /\ committed' = <<>> /\ crash' = r.pointer
        /\ \/ composition' = r.composition
           \/ composition' = NoComposition /\ view.input = <<>> /\ r.pointer = "none"
    BY <2>1 DEF Edited
  <2> QED BY <1>3, <2>2, Rewritten
<1> QED BY <1>1, <1>2, <1>3

LEMMA ConvertingEdited ==
  ASSUME DocGood, Still, refusals' \in 0..MaxRefusals,
         NEW view, view.forms \in Text, EditConverting(view)
  PROVE  /\ DocGood' /\ committed' = <<>>
         /\ composition = NoComposition => composition' = NoComposition /\ crash' = "none"
         /\ (Quiet /\ composition # NoComposition) => InSight' = view.forms /\ crash' = "none"
<1>1. CASE composition = NoComposition
  <2>1. Edited(composition, <<>>, "none") BY <1>1 DEF EditConverting
  <2> QED BY <1>1, <2>1, NothingEdited
<1>2. CASE composition # NoComposition
  <2>1. PICK r \in Replaced(view.forms) : Edited(r.composition, <<>>, r.pointer)
    BY <1>2 DEF EditConverting
  <2>2. composition' = r.composition /\ committed' = <<>> /\ crash' = r.pointer
    BY <2>1 DEF Edited
  <2> QED BY <1>2, <2>2, Rewritten
<1> QED BY <1>1, <1>2

\* A commit leaves no composition, and the text in the document, unless a
\* composition could not be started, is out of reach, or ends the application.
LEMMA CommittedEdited ==
  ASSUME DocGood, Still, refusals' \in 0..MaxRefusals,
         NEW view, view.input \in Text, EditCommitted(view)
  PROVE  /\ DocGood'
         /\ crash' = "none" => composition' = NoComposition
         /\ Quiet => crash' = "none" /\ committed' = view.input
         /\ ("unstarted" \notin around /\ crash' = "none") =>
              \/ committed' = view.input
              \/ composition.kind = "live" /\ composition.context # focus
<1>0. NoComposition \in Compositions /\ NoComposition.kind = "none"
  BY DEF Compositions, NoComposition
<1>1. CASE composition = NoComposition
  <2>1. PICK i \in Inserted(view.input) :
          IF i.started THEN Edited(NoComposition, view.input, "none")
          ELSE \E pointer \in {"none", "composition"} : Edited(NoComposition, i.left, pointer)
    BY <1>1 DEF EditCommitted, InsertAndEnd
  <2>2. i.left \in Text /\ i.started \in BOOLEAN
        /\ ("unstarted" \notin around => i.started = TRUE)
    BY InsertedParts, EmptyText
  <2>3. CASE i.started = TRUE
    <3>1. composition' = NoComposition /\ committed' = view.input /\ crash' = "none"
      BY <2>1, <2>3 DEF Edited
    <3>2. DocGood' BY <1>0, <3>1, SessionLeaves
    <3> QED BY <3>1, <3>2
  <2>4. CASE i.started = FALSE
    <3>1. /\ composition' = NoComposition /\ committed' = i.left
          /\ crash' \in {"none", "composition"}
      BY <2>1, <2>4 DEF Edited
    <3>2. "unstarted" \in around BY <2>2, <2>4
    <3>3. DocGood' BY <1>0, <2>2, <3>1, <3>2, SessionLeaves
    <3> QED BY <3>1, <3>2, <3>3 DEF Quiet
  <2> QED BY <2>2, <2>3, <2>4
<1>2. CASE composition # NoComposition
  <2>1. PICK r \in Replaced(view.input) :
          Edited(IF r.pointer = "none" THEN NoComposition ELSE r.composition,
                 r.written, r.pointer)
    BY <1>2 DEF EditCommitted
  <2>2. /\ composition' = IF r.pointer = "none" THEN NoComposition ELSE r.composition
        /\ committed' = r.written /\ crash' = r.pointer
    BY <2>1 DEF Edited
  <2>3. /\ r.composition \in Compositions /\ r.composition # NoComposition
        /\ r.composition.kind = composition.kind
        /\ r.composition.context = composition.context
        /\ r.written \in {<<>>, view.input} /\ r.pointer \in {"none", "range"}
        /\ r.pointer = "range" => "ended" \in around
        /\ (composition.kind = "ended" \/ composition.context = focus) /\ r.pointer = "none"
             => r.written = view.input
        /\ (composition.kind = "live" /\ composition.context = focus) => r.pointer = "none"
    BY <1>2, ReplacedParts
  <2>4. Located /\ composition.kind \in {"live", "ended"}
    BY <1>2, CompositionKinds DEF DocGood
  <2>5. DocGood'
    <3>1. composition' \in Compositions /\ committed' \in Text BY <1>0, <2>2, <2>3, EmptyText
    <3>2. composition'.kind = "ended" => "ended" \in around
      BY <1>0, <2>2, <2>3, <2>4 DEF Located
    <3>3. (composition' # NoComposition /\ "moved" \notin around)
            => composition'.context = focus
      BY <1>2, <2>2, <2>3, <2>4 DEF Located
    <3> QED BY <2>2, <2>3, <3>1, <3>2, <3>3, SessionLeaves
  <2>6. Quiet => composition.kind = "live" /\ composition.context = focus
    BY <1>2, QuietComposition
  <2> QED BY <2>2, <2>3, <2>4, <2>5, <2>6
<1> QED BY <1>1, <1>2

-----------------------------------------------------------------------------
(* What a view makes of the document and of the list.                      *)

LEMMA CalmIsQuiet ==
  ASSUME Calm
  PROVE  Quiet /\ "unmanaged" \notin around /\ "refused" \notin around
BY DEF Calm, Quiet

\* A session that is refused leaves the document alone.
LEMMA SessionRefused ==
  ASSUME DocGood, Still, Refused
  PROVE  /\ DocGood' /\ composition' = composition /\ committed' = <<>> /\ crash' = "none"
         /\ refusals' # 0 /\ "refused" \in around
<1>1. refusals \in 0..MaxRefusals /\ MaxRefusals \in Nat BY ServiceAssumption DEF DocGood
<1>2. /\ refusals' \in 0..MaxRefusals /\ refusals' # 0 /\ "refused" \in around
      /\ Edited(composition, <<>>, "none")
  BY <1>1 DEF Refused
<1> QED BY <1>2, NothingEdited

LEMMA SessionGranted ==
  ASSUME Granted
  PROVE  refusals' = 0 /\ refusals' \in 0..MaxRefusals
BY ServiceAssumption DEF Granted

\* The candidates are listed, or nothing can list them.
LEMMA CandidatesListed ==
  ASSUME UIGood, focus \in Context, NEW candidates \in Seq(String), NEW index,
         IndexFits(candidates, index), Listed(candidates, index)
  PROVE  /\ UIGood'
         /\ \/ "unmanaged" \notin around /\ list' = List(candidates, index)
            \/ "unmanaged" \in around /\ crash' = "element"
<1>1. CASE "unmanaged" \notin around
  <2>1. ("uiless" \in around) \in BOOLEAN OBVIOUS
  <2>2. UpdateList(focus, "uiless" \in around, candidates, index) BY <1>1 DEF Listed
  <2> QED BY <1>1, <2>1, <2>2, ListUpdated
<1>2. CASE "unmanaged" \in around
  BY <1>2, ListKept DEF Listed
<1> QED BY <1>1, <1>2

LEMMA EditingShown ==
  ASSUME DocGood, UIGood, Still, NEW s, Composing(s), HandleEditing(EditingView(s))
  PROVE  /\ DocGood' /\ UIGood'
         /\ crash' = "none" => list' = StateList(s)
         /\ (Quiet /\ refusals' = 0 /\ crash' = "none") => InSight' = StateText(s)
         /\ Calm => refusals' = 0 /\ crash' = "none" /\ committed' = <<>>
<1>1. /\ EditingView(s).input = StateText(s) /\ StateText(s) \in Text
      /\ EditingView(s).predictions = s.predictions
      /\ s.predictions \in Seq(String) /\ IndexFits(s.predictions, -1)
      /\ StateList(s) = List(s.predictions, -1)
  BY EditingViewType
<1>2. focus \in Context BY DEF DocGood
<1>3. Listed(s.predictions, -1) BY <1>1 DEF HandleEditing
<1>4. /\ UIGood'
      /\ \/ "unmanaged" \notin around /\ list' = StateList(s)
         \/ "unmanaged" \in around /\ crash' = "element"
  <2>1. PICK index : index = -1 OBVIOUS
  <2> QED BY <1>1, <1>2, <1>3, <2>1, CandidatesListed
<1>5. CASE "unmanaged" \in around
  <2>1. composition' = composition /\ refusals' = refusals /\ committed' = <<>>
    BY <1>5 DEF HandleEditing
  <2>2. crash' = "element" BY <1>4, <1>5
  <2>3. Located /\ composition \in Compositions /\ refusals \in 0..MaxRefusals BY DEF DocGood
  <2>4. DocGood' BY <1>5, <2>1, <2>2, <2>3, EmptyText, SessionLeaves DEF Located
  <2> QED BY <1>4, <1>5, <2>2, <2>4, CalmIsQuiet
<1>6. CASE "unmanaged" \notin around
  <2>1. CASE Refused BY <1>4, <1>6, <2>1, SessionRefused, CalmIsQuiet
  <2>2. CASE Granted /\ EditEditing(EditingView(s))
    <3>1. refusals' = 0 /\ refusals' \in 0..MaxRefusals BY <2>2, SessionGranted
    <3>2. DocGood' /\ (Quiet => InSight' = StateText(s) /\ committed' = <<>> /\ crash' = "none")
      BY <1>1, <2>2, <3>1, EditingEdited
    <3> QED BY <1>4, <1>6, <3>1, <3>2, CalmIsQuiet
  <2> QED BY <1>6, <2>1, <2>2 DEF HandleEditing, Session
<1> QED BY <1>5, <1>6

LEMMA ConvertingShown ==
  ASSUME DocGood, UIGood, Still, NEW s, Conversing(s), HandleConverting(ConvertingView(s))
  PROVE  /\ DocGood' /\ UIGood' /\ committed' = <<>>
         /\ (refusals' = 0 /\ crash' = "none") => list' = StateList(s)
         /\ (Quiet /\ refusals' = 0 /\ composition # NoComposition)
              => InSight' = StateText(s)
         /\ composition = NoComposition => composition' = NoComposition
         /\ Calm => refusals' = 0
<1> DEFINE view == ConvertingView(s)
<1>1. /\ view.forms = StateText(s) /\ StateText(s) \in Text
      /\ view.candidates \in Seq(String) /\ IndexFits(view.candidates, view.index)
      /\ StateList(s) = List(view.candidates, view.index)
  BY ConvertingViewType
<1>2. focus \in Context BY DEF DocGood
<1> HIDE DEF view
<1>3. CASE Refused /\ UNCHANGED uiVars
  BY <1>3, SessionRefused, ListKept, CalmIsQuiet
<1>4. CASE /\ Granted /\ EditConverting(view)
           /\ IF crash' # "none" THEN UNCHANGED uiVars ELSE Listed(view.candidates, view.index)
  <2>1. refusals' = 0 /\ refusals' \in 0..MaxRefusals BY <1>4, SessionGranted
  <2>2. /\ DocGood' /\ committed' = <<>>
        /\ composition = NoComposition => composition' = NoComposition /\ crash' = "none"
        /\ (Quiet /\ composition # NoComposition) => InSight' = StateText(s) /\ crash' = "none"
    BY <1>1, <1>4, <2>1, ConvertingEdited
  <2>3. CASE crash' # "none" BY <1>4, <2>1, <2>2, <2>3, ListKept
  <2>4. CASE crash' = "none"
    <3>1. UIGood' /\ list' = StateList(s)
      BY <1>1, <1>2, <1>4, <2>4, CandidatesListed
    <3> QED BY <2>1, <2>2, <3>1
  <2> QED BY <2>3, <2>4
<1> QED BY <1>3, <1>4 DEF HandleConverting, view

LEMMA CommittedShown ==
  ASSUME DocGood, UIGood, Still, NEW text \in Text, HandleCommitted(CommittedView(text))
  PROVE  /\ DocGood' /\ UIGood' /\ list' = NoList
         /\ (refusals' = 0 /\ crash' = "none") => composition' = NoComposition
         /\ (refusals' = 0 /\ "unstarted" \notin around /\ crash' = "none") =>
              \/ committed' = text
              \/ composition.kind = "live" /\ composition.context # focus
         /\ Calm => refusals' = 0 /\ crash' = "none" /\ committed' = text
<1>1. CommittedView(text).input = text BY CommittedViewType
<1>2. UIGood' /\ list' = NoList BY ListDestroyed DEF HandleCommitted
<1>3. CASE Refused BY <1>2, <1>3, SessionRefused, CalmIsQuiet
<1>4. CASE Granted /\ EditCommitted(CommittedView(text))
  <2>0. refusals' = 0 /\ refusals' \in 0..MaxRefusals BY <1>4, SessionGranted
  <2>1. /\ DocGood'
        /\ crash' = "none" => composition' = NoComposition
        /\ Quiet => crash' = "none" /\ committed' = text
        /\ ("unstarted" \notin around /\ crash' = "none") =>
             \/ committed' = text
             \/ composition.kind = "live" /\ composition.context # focus
    BY <1>1, <1>4, <2>0, CommittedEdited
  <2> QED BY <1>2, <2>0, <2>1, CalmIsQuiet
<1> QED BY <1>3, <1>4 DEF HandleCommitted, Session

-----------------------------------------------------------------------------
(* The invariant.                                                          *)

NothingTwice == (EngineRepeatsNothing /\ PredictorRepeatsNothing) => Unrepeated(state)

ImeGood ==
  /\ WellFormed(state) /\ mode \in Mode /\ HistoryTyped(history)
  /\ reply \in [eaten : BOOLEAN, view : View]
  /\ DirectStateInDirectMode /\ NothingTwice

\* The list is that of the state, unless the last session was refused.
ListFollows == (refusals = 0 /\ list # NoList /\ crash = "none") => list = StateList(state)

\* While nothing goes wrong, the text in sight is that of the state.
CalmInSight ==
  Calm => /\ refusals = 0 /\ InSight = StateText(state)
          /\ mode = "direct" => state = DirectState

IInv ==
  /\ ImeGood /\ UIGood /\ DocGood /\ deaf \in BOOLEAN
  /\ DocumentCatchesUp /\ ListFollows /\ CalmInSight

\* What a step does: the invariant holds again, and the step is one that the
\* abstract specification allows.
GoodStep == IInv' /\ [Promise!Next]_Promise!vars

LEMMA InSightNext ==
  ASSUME DocGood'
  PROVE  InSight' \in Text
<1>1. composition' \in Compositions BY DEF DocGood
<1>2. composition'.kind = "live" => composition'.text \in Text
  BY <1>1, CompositionKinds DEF NoComposition
<1> QED BY <1>2, EmptyText DEF InSight

\* Where something may go wrong the abstract specification is silent.
LEMMA NotCalm ==
  ASSUME ~Calm, around' = around
  PROVE  [Promise!Next]_Promise!vars
<1>1. ~Calm' BY DEF Calm
<1> QED BY <1>1 DEF Promise!vars

LEMMA TextComposed ==
  ASSUME DocGood', around' = around, committed' = <<>>
  PROVE  [Promise!Next]_Promise!vars
<1>1. CASE Calm
  <2>1. Calm' BY <1>1 DEF Calm
  <2>2. InSight' \in Text BY InSightNext
  <2> QED BY <1>1, <2>1, <2>2 DEF Promise!Next, Promise!Compose
<1>2. CASE ~Calm BY <1>2, NotCalm
<1> QED BY <1>1, <1>2

LEMMA TextCommitted ==
  ASSUME Calm, around' = around, DocGood', InSight = StateText(state),
         committed' = EnterText(state), composition' = NoComposition
  PROVE  [Promise!Next]_Promise!vars
<1>1. Calm' BY DEF Calm
<1>2. InSight' = <<>> BY DEF InSight, NoComposition
<1>3. CASE InSight = <<>>
  <2>1. committed' = LineBreak BY <1>3 DEF EnterText
  <2> QED BY <1>1, <1>2, <1>3, <2>1 DEF Promise!Next, Promise!CommitSpace
<1>4. CASE InSight # <<>>
  <2>1. committed' = InSight BY <1>4 DEF EnterText
  <2> QED BY <1>1, <1>2, <1>4, <2>1, EmptyText DEF Promise!Next, Promise!Commit
<1> QED BY <1>3, <1>4

\* An event that leaves the document, the list and what belongs to them.
LEMMA KeptStep ==
  ASSUME IInv, ImeGood', UIGood', deaf' \in BOOLEAN, around' = around,
         focus' \in Context, focus' = focus \/ "moved" \in around,
         list' = list, composition' = composition, refusals' = refusals, crash' = crash,
         committed' = <<>>,
         StateText(state') = StateText(state), StateList(state') = StateList(state),
         state'.kind = "converting" <=> state.kind = "converting",
         Calm => (mode' = "direct" => state' = DirectState)
  PROVE  GoodStep
<1>1. DocGood'
  <2>1. DocGood BY DEF IInv
  <2>2. CrashesHaveCauses' BY <2>1 DEF DocGood, CrashesHaveCauses
  <2>3. Located' BY <2>1 DEF DocGood, Located
  <2> QED BY <2>1, <2>2, <2>3, EmptyText DEF DocGood
<1>2. ("moved" \notin around) => InSight' = InSight BY DEF InSight
<1>3. DocumentCatchesUp'
  <2>1. DocumentCatchesUp BY DEF IInv
  <2> QED BY <1>2, <2>1 DEF DocumentCatchesUp
<1>4. ListFollows' BY DEF IInv, ListFollows
<1>5. CalmInSight'
  <2>1. Calm' <=> Calm BY DEF Calm
  <2>2. CalmInSight BY DEF IInv
  <2> QED BY <1>2, <2>1, <2>2, CalmIsQuiet DEF CalmInSight, Quiet
<1>6. IInv' BY <1>1, <1>3, <1>4, <1>5 DEF IInv
<1> QED BY <1>1, <1>6, TextComposed DEF GoodStep

-----------------------------------------------------------------------------
(* Events.                                                                 *)

LEMMA IgnoredStep ==
  ASSUME IInv, ImeGood', KeyIgnored, Undisturbed, Still, deaf' = deaf
  PROVE  GoodStep
<1>1. UIGood' /\ list' = list BY ListKept DEF IInv, Undisturbed
<1>2. state' = state /\ mode' = mode BY DEF KeyIgnored
<1>3. /\ composition' = composition /\ refusals' = refusals /\ crash' = crash
      /\ committed' = <<>>
  BY DEF Undisturbed
<1>4. /\ deaf' \in BOOLEAN /\ focus' \in Context /\ focus' = focus /\ around' = around
      /\ Calm => (mode = "direct" => state = DirectState)
  BY DEF IInv, DocGood, Still, CalmInSight
<1> QED BY <1>1, <1>2, <1>3, <1>4, KeptStep

LEMMA EditedStep ==
  ASSUME IInv, ImeGood', KeyEdits, HandleEditing(EditingView(state')), Still, deaf' = deaf
  PROVE  GoodStep
<1>1. Composing(state') /\ DocGood /\ UIGood BY DEF KeyEdits, IInv
<1>2. /\ DocGood' /\ UIGood'
      /\ crash' = "none" => list' = StateList(state')
      /\ (Quiet /\ refusals' = 0 /\ crash' = "none") => InSight' = StateText(state')
      /\ Calm => refusals' = 0 /\ crash' = "none" /\ committed' = <<>>
  BY <1>1, EditingShown
<1>3. around' = around /\ (Calm' <=> Calm) BY DEF Still, Calm
<1>4. DocumentCatchesUp' BY <1>2, <1>3 DEF DocumentCatchesUp, Quiet
<1>5. ListFollows' BY <1>2 DEF ListFollows
<1>6. CalmInSight'
  <2>1. state' # DirectState
    <3>1. state'.kind = "inputting" BY <1>1, KindOfState DEF WellFormed
    <3> QED BY <3>1 DEF DirectState
  <2>2. Calm => mode' # "direct"
    <3>1. mode' = mode /\ state # DirectState
      <4>1. mode' = mode /\ Composing(state) BY DEF KeyEdits
      <4>2. state.kind = "inputting" BY <4>1, KindOfState DEF WellFormed
      <4> QED BY <4>1, <4>2 DEF DirectState
    <3> QED BY <3>1 DEF IInv, CalmInSight
  <2> QED BY <1>2, <1>3, <2>2, CalmIsQuiet DEF CalmInSight
<1>7. IInv' BY <1>2, <1>4, <1>5, <1>6 DEF IInv
<1>8. [Promise!Next]_Promise!vars BY <1>2, <1>3, TextComposed, NotCalm
<1> QED BY <1>7, <1>8 DEF GoodStep

LEMMA ConvertedStep ==
  ASSUME IInv, ImeGood', KeyConverts, HandleConverting(ConvertingView(state')), Still,
         deaf' = deaf
  PROVE  GoodStep
<1>1. /\ Conversing(state') /\ DocGood /\ UIGood /\ mode' = mode
      /\ StateText(state) # <<>> /\ state # DirectState
  <2>1. WellFormed(state) BY DEF IInv, ImeGood
  <2> QED BY <2>1, StateTextType DEF KeyConverts, IInv
<1>2. /\ DocGood' /\ UIGood' /\ committed' = <<>>
      /\ (refusals' = 0 /\ crash' = "none") => list' = StateList(state')
      /\ (Quiet /\ refusals' = 0 /\ composition # NoComposition)
           => InSight' = StateText(state')
      /\ composition = NoComposition => composition' = NoComposition
      /\ Calm => refusals' = 0
  BY <1>1, ConvertingShown
<1>3. around' = around /\ (Calm' <=> Calm) BY DEF Still, Calm
<1>4. state'.kind = "converting" BY <1>1, KindOfState DEF WellFormed
<1>5. DocumentCatchesUp' BY <1>2, <1>3, <1>4 DEF DocumentCatchesUp, Quiet
<1>6. ListFollows' BY <1>2 DEF ListFollows
<1>7. CalmInSight'
  <2>1. Calm => InSight = StateText(state) /\ mode # "direct"
    BY <1>1 DEF IInv, CalmInSight
  <2>2. Calm => composition # NoComposition
    BY <1>1, <2>1 DEF InSight, NoComposition
  <2> QED BY <1>1, <1>2, <1>3, <2>1, <2>2, CalmIsQuiet DEF CalmInSight
<1>8. IInv' BY <1>2, <1>5, <1>6, <1>7 DEF IInv
<1> QED BY <1>2, <1>3, <1>8, TextComposed DEF GoodStep

LEMMA CommittedStep ==
  ASSUME IInv, ImeGood', KeyCommits, HandleCommitted(CommittedView(EnterText(state))), Still,
         deaf' = deaf
  PROVE  GoodStep
<1>1. /\ WellFormed(state) /\ DocGood /\ UIGood /\ EnterText(state) \in Text
      /\ state # DirectState /\ mode \in Mode /\ mode' = mode
      /\ state' = IF mode = "hiragana" THEN EmptyInputting
                  ELSE IF Composing(state) THEN DirectState ELSE state
  <2>1. WellFormed(state) BY DEF IInv, ImeGood
  <2>2. EnterText(state) \in Text BY <2>1, StateTextType, WinAssumption DEF EnterText
  <2> QED BY <2>1, <2>2 DEF IInv, ImeGood, KeyCommits
<1>2. /\ DocGood' /\ UIGood' /\ list' = NoList
      /\ (refusals' = 0 /\ crash' = "none") => composition' = NoComposition
      /\ Calm => refusals' = 0 /\ crash' = "none" /\ committed' = EnterText(state)
  BY <1>1, CommittedShown
<1>3. around' = around /\ (Calm' <=> Calm) BY DEF Still, Calm
<1>4. composition' = NoComposition => InSight' = <<>> BY DEF InSight, NoComposition
<1>5. /\ StateText(EmptyInputting) = <<>> /\ StateText(DirectState) = <<>>
  BY EmptyComposing, StateTextType DEF WellFormed, Shown
<1>6. StateText(state') = <<>> \/ state'.kind = "converting"
  BY <1>1, <1>5, KindOfState DEF WellFormed
<1>7. DocumentCatchesUp' BY <1>2, <1>3, <1>4, <1>6 DEF DocumentCatchesUp
<1>8. ListFollows' BY <1>2 DEF ListFollows
<1>9. Calm => mode = "hiragana" /\ InSight = StateText(state)
  BY <1>1 DEF IInv, CalmInSight, Mode
<1>10. CalmInSight'
  BY <1>1, <1>2, <1>3, <1>4, <1>5, <1>9 DEF CalmInSight
<1>11. IInv' BY <1>2, <1>7, <1>8, <1>10 DEF IInv
<1>12. [Promise!Next]_Promise!vars BY <1>2, <1>3, <1>9, TextCommitted, NotCalm
<1> QED BY <1>11, <1>12 DEF GoodStep

\* A key and its answer, and what the handler of a view does with it.
LEMMA KeyHandled ==
  ASSUME IInv, NEW key \in Key, OnKeyDown(key)
  PROVE  /\ ImeGood' /\ Still /\ deaf' = deaf /\ crash = "none" /\ ProxyCanProcess(key)
         /\ \/ KeyIgnored /\ Undisturbed
            \/ KeyEdits /\ HandleEditing(EditingView(state'))
            \/ KeyConverts /\ HandleConverting(ConvertingView(state'))
            \/ KeyCommits /\ HandleCommitted(CommittedView(EnterText(state)))
<1>1. /\ WellFormed(state) /\ HistoryTyped(history) /\ mode \in Mode
      /\ DirectStateInDirectMode /\ NothingTwice
  BY DEF IInv, ImeGood
<1>2. /\ crash = "none" /\ (KeyUnread \/ ProxyProcessInput(key))
      /\ Still /\ deaf' = deaf
      /\ ProxyCanProcess(key)
      /\ IF reply'.view = NoView THEN Undisturbed ELSE HandleIMEView(reply'.view)
  BY DEF OnKeyDown, Still
<1>3. KeyAnswers
  <2>1. KeyUnread => KeyIgnored BY DEF KeyUnread, KeyIgnored
  <2> QED BY <1>1, <1>2, <2>1, ProxyAnswers DEF KeyAnswers
<1>4. ImeGood'
  <2>1. /\ WellFormed(state') /\ HistoryTyped(history') /\ mode' = mode
        /\ reply' \in [eaten : BOOLEAN, view : View]
        /\ DirectStateInDirectMode'
        /\ (EngineRepeatsNothing /\ PredictorRepeatsNothing /\ Unrepeated(state))
             => Unrepeated(state')
    BY <1>1, <1>3, KeyKeepsState
  <2>2. NothingTwice' BY <1>1, <2>1 DEF NothingTwice
  <2> QED BY <1>1, <2>1, <2>2 DEF ImeGood
<1>5. CASE KeyIgnored BY <1>2, <1>4, <1>5 DEF KeyIgnored
<1>6. CASE KeyEdits
  <2>1. reply'.view = EditingView(state') /\ Composing(state') BY <1>6 DEF KeyEdits
  <2>2. reply'.view # NoView /\ reply'.view.kind = "editing" BY <2>1, EditingViewType
  <2> QED BY <1>2, <1>4, <1>6, <2>1, <2>2 DEF HandleIMEView
<1>7. CASE KeyConverts
  <2>1. reply'.view = ConvertingView(state') /\ Conversing(state') BY <1>7 DEF KeyConverts
  <2>2. reply'.view # NoView /\ reply'.view.kind = "converting" BY <2>1, ConvertingViewType
  <2> QED BY <1>2, <1>4, <1>7, <2>1, <2>2 DEF HandleIMEView
<1>8. CASE KeyCommits
  <2>1. reply'.view = CommittedView(EnterText(state)) BY <1>8 DEF KeyCommits
  <2>2. EnterText(state) \in Text BY <1>1, StateTextType, WinAssumption DEF EnterText
  <2>3. reply'.view # NoView /\ reply'.view.kind = "committed" BY <2>1, <2>2, CommittedViewType
  <2> QED BY <1>2, <1>4, <1>8, <2>1, <2>3 DEF HandleIMEView
<1> QED BY <1>2, <1>3, <1>4, <1>5, <1>6, <1>7, <1>8 DEF KeyAnswers

LEMMA KeyStep ==
  ASSUME IInv, NEW key \in Key, OnKeyDown(key)
  PROVE  GoodStep
BY KeyHandled, IgnoredStep, EditedStep, ConvertedStep, CommittedStep

LEMMA ToggleStep ==
  ASSUME IInv, Toggle
  PROVE  GoodStep
<1>1. /\ ImeGood /\ UIGood /\ DocGood /\ deaf \in BOOLEAN
      /\ ("toggled" \in around \/ composition = NoComposition)
      /\ ProxyToggleInputMode /\ Undisturbed /\ Still /\ deaf' = deaf
  BY DEF IInv, Toggle, Still
<1>2. /\ WellFormed(state') /\ history' = history /\ mode' \in Mode /\ reply' = reply
      /\ DirectStateInDirectMode'
      /\ StateText(state') = StateText(state)
      /\ StateList(state') = StateList(state)
      /\ state'.kind = "converting" <=> state.kind = "converting"
      /\ Unrepeated(state) => Unrepeated(state')
      /\ (StateText(state) = <<>> /\ (mode = "direct" => state = DirectState))
           => (mode' = "direct" => state' = DirectState)
  BY <1>1, ToggleKeepsState DEF ImeGood
<1>3. ImeGood' BY <1>1, <1>2 DEF ImeGood, NothingTwice
<1>4. UIGood' /\ list' = list BY <1>1, ListKept DEF Undisturbed
<1>5. Calm => (mode' = "direct" => state' = DirectState)
  <2>1. Calm => /\ InSight = StateText(state) /\ composition = NoComposition
                /\ mode = "direct" => state = DirectState
    BY <1>1 DEF IInv, CalmInSight, Calm
  <2>2. composition = NoComposition => InSight = <<>> BY DEF InSight, NoComposition
  <2> QED BY <1>2, <2>1, <2>2
<1>6. /\ composition' = composition /\ refusals' = refusals /\ crash' = crash
      /\ committed' = <<>> /\ around' = around /\ focus' = focus /\ focus \in Context
  BY <1>1 DEF Undisturbed, Still, DocGood
<1> QED BY <1>1, <1>2, <1>3, <1>4, <1>5, <1>6, KeptStep

\* Events that are none of the input method's business.
LEMMA ElsewhereStep ==
  ASSUME IInv, UNCHANGED imeVars, UIGood', list' = list, deaf' \in BOOLEAN,
         around' = around, focus' \in Context, focus' = focus \/ "moved" \in around,
         composition' = composition, refusals' = refusals, crash' = crash, committed' = <<>>
  PROVE  GoodStep
<1>1. state' = state /\ mode' = mode /\ history' = history /\ reply' = reply BY DEF imeVars
<1>2. ImeGood BY DEF IInv
<1>3. ImeGood' BY <1>1, <1>2 DEF ImeGood, DirectStateInDirectMode, NothingTwice
<1>4. Calm => (mode' = "direct" => state' = DirectState) BY <1>1 DEF IInv, CalmInSight
<1> QED BY <1>1, <1>3, <1>4, KeptStep

LEMMA LayoutStep ==
  ASSUME IInv, NEW context \in Context, OnLayoutChange(context)
  PROVE  GoodStep
<1>1. UIGood' /\ list' = list BY WindowMoved DEF IInv, OnLayoutChange
<1>2. /\ UNCHANGED imeVars /\ deaf' = deaf /\ around' = around /\ focus' = focus
      /\ composition' = composition /\ refusals' = refusals /\ crash' = crash
      /\ committed' = <<>> /\ deaf \in BOOLEAN /\ focus \in Context
  BY DEF OnLayoutChange, IInv, DocGood
<1> QED BY <1>1, <1>2, ElsewhereStep

LEMMA FocusStep ==
  ASSUME IInv, FocusMoves
  PROVE  GoodStep
<1>1. UIGood' /\ list' = list BY ListKept DEF IInv, FocusMoves, Undisturbed
<1>2. /\ UNCHANGED imeVars /\ deaf' = deaf /\ around' = around /\ focus' \in Context
      /\ composition' = composition /\ refusals' = refusals /\ crash' = crash
      /\ committed' = <<>> /\ deaf \in BOOLEAN /\ "moved" \in around
  BY DEF FocusMoves, Undisturbed, IInv
<1> QED BY <1>1, <1>2, ElsewhereStep

LEMMA LossStep ==
  ASSUME IInv, ServerLost
  PROVE  GoodStep
<1>1. UIGood' /\ list' = list
  <2>1. UNCHANGED uiVars BY DEF ServerLost
  <2> QED BY <2>1, ListKept DEF IInv
<1>2. /\ UNCHANGED imeVars /\ deaf' = TRUE /\ around' = around /\ focus' = focus
      /\ composition' = composition /\ refusals' = refusals /\ crash' = crash
      /\ committed' = <<>> /\ focus \in Context
  BY DEF ServerLost, IInv, DocGood
<1> QED BY <1>1, <1>2, ElsewhereStep

LEMMA ThreadStep ==
  ASSUME IInv, ThreadChanges
  PROVE  GoodStep
<1>1. UIGood' /\ list' = list BY ClassChanged DEF IInv, ThreadChanges
<1>2. /\ UNCHANGED imeVars /\ deaf' = deaf /\ around' = around /\ focus' = focus
      /\ composition' = composition /\ refusals' = refusals /\ crash' = crash
      /\ committed' = <<>> /\ deaf \in BOOLEAN /\ focus \in Context
  BY DEF ThreadChanges, IInv, DocGood
<1> QED BY <1>1, <1>2, ElsewhereStep

\* A composition the application has ended is never quiet again.
LEMMA TerminationStep ==
  ASSUME IInv, OnCompositionTerminated
  PROVE  GoodStep
<1>1. /\ "ended" \in around /\ composition.kind = "live" /\ crash = "none"
      /\ composition' = [composition EXCEPT !.kind = "ended"]
      /\ committed' = composition.text
      /\ UNCHANGED imeVars /\ UNCHANGED uiVars
      /\ around' = around /\ focus' = focus /\ refusals' = refusals
      /\ deaf' = deaf /\ crash' = crash
  BY DEF OnCompositionTerminated
<1>2. /\ composition \in [kind : {"live", "ended"}, context : Context, text : Text]
      /\ composition # NoComposition
  BY <1>1, CompositionKinds DEF IInv, DocGood, NoComposition
<1>3. /\ composition' \in [kind : {"live", "ended"}, context : Context, text : Text]
      /\ composition'.context = composition.context /\ composition.text \in Text
  BY <1>1, <1>2
<1>4. DocGood'
  <2>1. composition' \in Compositions BY <1>3 DEF Compositions
  <2>2. Located BY DEF IInv, DocGood
  <2>3. refusals' \in 0..MaxRefusals BY <1>1 DEF IInv, DocGood
  <2>4. DocGood BY DEF IInv
  <2> QED BY <1>1, <1>2, <1>3, <2>1, <2>2, <2>3, <2>4, SessionLeaves DEF Still, Located
<1>5. UIGood' /\ list' = list BY <1>1, ListKept DEF IInv
<1>6. state' = state /\ mode' = mode /\ history' = history /\ reply' = reply
  BY <1>1 DEF imeVars
<1>7. ImeGood'
  <2>1. ImeGood BY DEF IInv
  <2> QED BY <1>6, <2>1 DEF ImeGood, DirectStateInDirectMode, NothingTwice
<1>8. DocumentCatchesUp' BY <1>1 DEF DocumentCatchesUp
<1>9. ListFollows' BY <1>1, <1>5, <1>6 DEF IInv, ListFollows
<1>10. ~Calm BY <1>1 DEF Calm
<1>11. CalmInSight' BY <1>1, <1>10 DEF CalmInSight, Calm
<1>12. IInv' BY <1>1, <1>4, <1>5, <1>7, <1>8, <1>9, <1>11 DEF IInv
<1> QED BY <1>1, <1>10, <1>12, NotCalm DEF GoodStep

LEMMA NothingStep ==
  ASSUME IInv, UNCHANGED vars
  PROVE  GoodStep
<1>1. /\ state' = state /\ mode' = mode /\ history' = history /\ reply' = reply
      /\ UNCHANGED uiVars /\ around' = around /\ focus' = focus
      /\ composition' = composition /\ committed' = committed /\ refusals' = refusals
      /\ deaf' = deaf /\ crash' = crash
  BY DEF vars, imeVars, docVars
<1>2. UIGood' /\ list' = list BY <1>1, ListKept DEF IInv
<1>3. ImeGood'
  <2>1. ImeGood BY DEF IInv
  <2> QED BY <1>1, <2>1 DEF ImeGood, DirectStateInDirectMode, NothingTwice
<1>4. DocGood'
  <2>1. DocGood BY DEF IInv
  <2> QED BY <1>1, <2>1 DEF DocGood, CrashesHaveCauses, Located
<1>5. InSight' = InSight /\ (Calm' <=> Calm) BY <1>1 DEF InSight, Calm
<1>6. DocumentCatchesUp'
  <2>1. DocumentCatchesUp BY DEF IInv
  <2> QED BY <1>1, <1>5, <2>1 DEF DocumentCatchesUp
<1>7. ListFollows' BY <1>1, <1>2 DEF IInv, ListFollows
<1>8. CalmInSight' BY <1>1, <1>5 DEF IInv, CalmInSight
<1>9. IInv' BY <1>1, <1>2, <1>3, <1>4, <1>6, <1>7, <1>8 DEF IInv
<1>10. [Promise!Next]_Promise!vars BY <1>1, <1>5 DEF Promise!vars
<1> QED BY <1>9, <1>10 DEF GoodStep

LEMMA NextGood == IInv /\ [Next]_vars => GoodStep
<1> SUFFICES ASSUME IInv, [Next]_vars PROVE GoodStep OBVIOUS
<1>1. ASSUME NEW key \in Key, OnKeyDown(key) PROVE GoodStep BY <1>1, KeyStep
<1>2. CASE Toggle BY <1>2, ToggleStep
<1>3. ASSUME NEW context \in Context, OnLayoutChange(context) PROVE GoodStep
  BY <1>3, LayoutStep
<1>4. CASE OnCompositionTerminated BY <1>4, TerminationStep
<1>5. CASE FocusMoves BY <1>5, FocusStep
<1>6. CASE ServerLost BY <1>6, LossStep
<1>7. CASE ThreadChanges BY <1>7, ThreadStep
<1>8. CASE UNCHANGED vars BY <1>8, NothingStep
<1> QED BY <1>1, <1>2, <1>3, <1>4, <1>5, <1>6, <1>7, <1>8 DEF Next

LEMMA InitGood == Init => IInv /\ Promise!Init
<1> SUFFICES ASSUME Init PROVE IInv /\ Promise!Init OBVIOUS
<1>1. /\ state = DirectState /\ mode = "direct" /\ history = <<>>
      /\ reply = [eaten |-> FALSE, view |-> NoView]
      /\ list = NoList /\ ui = NoUI /\ window = HiddenWindow /\ registered = TRUE
      /\ around \in Circumstances /\ focus \in Context /\ composition = NoComposition
      /\ committed = <<>> /\ refusals = 0 /\ deaf = FALSE /\ crash = "none"
  BY DEF Init, ImeInit, UIInit
<1>2. WellFormed(DirectState) /\ DirectState.kind = "direct" /\ Unrepeated(DirectState)
      /\ StateText(DirectState) = <<>>
  BY StateTextType DEF WellFormed, DirectState, Unrepeated
<1>3. ImeGood
  <2>1. HistoryTyped(<<>>) BY EmptySeq DEF HistoryTyped
  <2>2. reply \in [eaten : BOOLEAN, view : View] BY <1>1 DEF View
  <2> QED BY <1>1, <1>2, <2>1, <2>2
      DEF ImeGood, Mode, DirectStateInDirectMode, NothingTwice
<1>4. UIGood
  <2>1. HiddenWindow \in WindowState
    <3>1. <<>> \in Seq(String) OBVIOUS
    <3> QED BY <3>1 DEF HiddenWindow, WindowState
  <2>2. UITypeOK(String) BY <1>1, <2>1 DEF UITypeOK, WindowState
  <2>3. WindowDrawn BY <1>1 DEF WindowDrawn, NoUI
  <2> QED BY <2>2, <2>3 DEF UIGood
<1>5. DocGood
  <2>1. 0 \in 0..MaxRefusals BY ServiceAssumption
  <2> QED BY <1>1, <2>1, EmptyText
      DEF DocGood, Compositions, CrashesHaveCauses, Located, NoComposition
<1>6. InSight = <<>> BY <1>1 DEF InSight, NoComposition
<1>7. DocumentCatchesUp BY <1>1, <1>2, <1>6 DEF DocumentCatchesUp
<1>8. ListFollows BY <1>1 DEF ListFollows
<1>9. CalmInSight BY <1>1, <1>2, <1>6 DEF CalmInSight
<1>10. Promise!Init BY <1>1, <1>6 DEF Promise!Init
<1> QED BY <1>1, <1>3, <1>4, <1>5, <1>7, <1>8, <1>9, <1>10 DEF IInv

-----------------------------------------------------------------------------
(* The window and the state; the answers to claimed keys; the history.     *)

\* The list of the state, its forms and its current form.
LEMMA ListOfState ==
  ASSUME NEW s, WellFormed(s)
  PROVE  \E candidates \in Seq(String), index \in Int :
           /\ StateList(s) = List(candidates, index) /\ IndexFits(candidates, index)
           /\ Unrepeated(s) => NoneTwice(candidates)
           /\ s.kind = "inputting" => index = -1
           /\ (s.kind = "converting" /\ candidates # <<>>) =>
                /\ index \in 0..(Len(candidates) - 1)
                /\ candidates[index + 1] = CurrentForm(CurrentSegment(s))
<1>1. CASE s = DirectState
  <2>1. <<>> \in Seq(String) /\ NoneTwice(<<>>) /\ IndexFits(<<>>, -1) /\ -1 \in Int
    BY EmptySeq DEF NoneTwice, IndexFits
  <2>2. StateList(s) = List(<<>>, -1) /\ s.kind = "direct"
    BY <1>1 DEF StateList, DirectState
  <2> QED BY <2>1, <2>2
<1>2. CASE Composing(s)
  <2>1. /\ s.kind = "inputting" /\ s.predictions \in Seq(String)
        /\ IndexFits(s.predictions, -1) /\ StateList(s) = List(s.predictions, -1)
    BY <1>2, KindOfState, EditingViewType
  <2>2. Unrepeated(s) => NoneTwice(s.predictions) BY <2>1 DEF Unrepeated
  <2>3. -1 \in Int OBVIOUS
  <2> QED BY <2>1, <2>2, <2>3
<1>3. CASE Conversing(s)
  <2> DEFINE view == ConvertingView(s)
  <2>1. /\ s.kind = "converting" /\ view.candidates \in Seq(String)
        /\ IndexFits(view.candidates, view.index)
        /\ StateList(s) = List(view.candidates, view.index)
        /\ view.candidates # <<>> =>
             /\ view.index \in 0..(Len(view.candidates) - 1)
             /\ view.candidates[view.index + 1] = CurrentForm(CurrentSegment(s))
        /\ Unrepeated(s) => NoneTwice(view.candidates)
    BY <1>3, KindOfState, ConvertingViewType
  <2>2. view.index \in Int BY <2>1 DEF IndexFits
  <2> HIDE DEF view
  <2> QED BY <2>1, <2>2
<1> QED BY <1>1, <1>2, <1>3 DEF WellFormed

LEMMA WindowIsOfState ==
  ASSUME IInv, Unrepeated(state)
  PROVE  WindowShowsState
<1> SUFFICES ASSUME refusals = 0, list # NoList, crash = "none"
             PROVE  /\ list = StateList(state)
                    /\ NoneTwice(list.candidates)
                    /\ ui.kind = "window" =>
                         /\ window.shown <=> list.candidates # <<>>
                         /\ window.shown =>
                              /\ window.height = Len(window.rows)
                              /\ state.kind = "converting" =>
                                   window.rows[window.highlight + 1]
                                     = CurrentForm(CurrentSegment(state))
                              /\ state.kind = "inputting" =>
                                   window.highlight \notin 0..(Len(window.rows) - 1)
  BY DEF WindowShowsState, NoneTwice
<1>1. list = StateList(state) /\ WellFormed(state) /\ WindowDrawn
  BY DEF IInv, ListFollows, ImeGood, UIGood
<1>2. PICK candidates \in Seq(String), index \in Int :
           /\ list = List(candidates, index) /\ IndexFits(candidates, index)
           /\ NoneTwice(candidates)
           /\ state.kind = "inputting" => index = -1
           /\ (state.kind = "converting" /\ candidates # <<>>) =>
                /\ index \in 0..(Len(candidates) - 1)
                /\ candidates[index + 1] = CurrentForm(CurrentSegment(state))
  BY <1>1, ListOfState
<1>3. PICK begin : begin = Page(index) * PageSize OBVIOUS
<1>4. list.candidates = candidates BY <1>2 DEF List
<1>5. /\ CalculateSize(list) \in Nat
      /\ Len(DrawCandidates(list).rows) = CalculateSize(list)
      /\ DrawCandidates(list).highlight = index - begin
      /\ index \in 0..(Len(candidates) - 1) =>
           DrawCandidates(list).rows[index - begin + 1] = candidates[index + 1]
      /\ index < 0 => begin = 0
  <2>1. candidates \in Seq(String) /\ list = List(candidates, index)
        /\ IndexFits(candidates, index) /\ begin = Page(index) * PageSize
    BY <1>2, <1>3
  <2>2. index < 0 => begin = 0 BY <2>1, PageHolds
  <2>3. /\ CalculateSize(list) \in Nat
        /\ Len(DrawCandidates(list).rows) = CalculateSize(list)
        /\ DrawCandidates(list).highlight = index - begin
        /\ index \in 0..(Len(candidates) - 1) =>
             DrawCandidates(list).rows[index - begin + 1] = candidates[index + 1]
    BY <2>1, PageDrawn, SMTT(20)
  <2> QED BY <2>2, <2>3
<1>6. ASSUME ui.kind = "window", window.shown
      PROVE  /\ window.height = Len(window.rows)
             /\ state.kind = "converting" =>
                  window.rows[window.highlight + 1] = CurrentForm(CurrentSegment(state))
             /\ state.kind = "inputting" =>
                  window.highlight \notin 0..(Len(window.rows) - 1)
  <2>1. /\ candidates # <<>> /\ window.height = CalculateSize(list)
        /\ window.rows = DrawCandidates(list).rows
        /\ window.highlight = index - begin
    BY <1>1, <1>4, <1>5, <1>6 DEF WindowDrawn
  <2>2. state.kind = "inputting" => window.highlight = -1 BY <1>2, <1>5, <2>1
  <2> QED BY <1>2, <1>5, <2>1, <2>2
<1> QED BY <1>1, <1>2, <1>4, <1>6 DEF WindowDrawn

\* A key the hiragana mode claims is answered with a view.
LEMMA ClaimedAnswered ==
  ASSUME mode = "hiragana", NEW key \in Key, CanProcess(key), ProcessInput(key)
  PROVE  reply'.eaten /\ reply'.view # NoView
<1>1. key \in TypedKey <=> key \notin SpecialKey BY WinAssumption DEF Key
<1>2. ASSUME NEW s, Edit(s) \/ Convert(s) PROVE reply'.eaten /\ reply'.view # NoView
  BY <1>2 DEF Edit, Convert, Respond, EditingView, ConvertingView, NoView
<1>3. ASSUME NEW s, NEW text, Respond(CommittedView(text), s)
      PROVE  reply'.eaten /\ reply'.view # NoView
  BY <1>3 DEF Respond, CommittedView, NoView
<1>4. CASE state.kind = "converting"
  <2>1. key \in {"enter", "space", "up", "down", "left", "right"} BY <1>4 DEF CanProcess
  <2>2. key \notin TypedKey BY <1>1, <2>1 DEF SpecialKey
  <2>3. ConvertingEnter(key) \/ ConvertingCandidate(key) \/ ConvertingSegmentMove(key)
    BY <1>4, <2>1, <2>2 DEF ProcessInput, DirectKey, InputtingKey, ConvertingKey
  <2>4. CASE ConvertingEnter(key) BY <1>3, <2>4 DEF ConvertingEnter
  <2>5. CASE ConvertingCandidate(key) BY <1>2, <2>5 DEF ConvertingCandidate
  <2>6. CASE ConvertingSegmentMove(key) BY <1>2, <2>6 DEF ConvertingSegmentMove
  <2> QED BY <2>3, <2>4, <2>5, <2>6
<1>5. CASE state.kind = "inputting"
  <2>1. \/ key \in TypedKey \cup {"enter"}
        \/ key \in {"backspace", "space"} /\ ~BufferEmpty(state)
    BY <1>5 DEF CanProcess
  <2>2. key \notin {"left", "up", "right", "down", "other"} BY <1>1, <2>1 DEF SpecialKey
  <2>3. InputtingChar(key) \/ InputtingBackspace(key) \/ InputtingSpace(key)
        \/ InputtingEnter(key)
    BY <1>5, <2>2 DEF ProcessInput, DirectKey, InputtingKey, ConvertingKey
  <2>4. CASE InputtingChar(key)
    <3>1. \E s : Edit(s) BY <2>4 DEF InputtingChar
    <3> QED BY <1>2, <3>1
  <2>5. CASE InputtingBackspace(key)
    <3>1. ~BufferEmpty(state) BY <1>1, <2>1, <2>5 DEF InputtingBackspace, SpecialKey
    <3> QED BY <1>2, <2>5, <3>1 DEF InputtingBackspace
  <2>6. CASE InputtingSpace(key)
    <3>1. ~BufferEmpty(state) BY <1>1, <2>1, <2>6 DEF InputtingSpace, SpecialKey
    <3>2. \E s : Convert(s) BY <2>6, <3>1 DEF InputtingSpace
    <3> QED BY <1>2, <3>2
  <2>7. CASE InputtingEnter(key) BY <1>3, <2>7 DEF InputtingEnter
  <2> QED BY <2>3, <2>4, <2>5, <2>6, <2>7
<1> QED BY <1>4, <1>5 DEF CanProcess

\* What is kept of the corrections by a step.
Remembered ==
  /\ (state.kind = "converting" /\ reply'.view.kind = "committed" /\ reply' # reply) =>
       \A k \in 1..Len(state.segments) :
         \E j \in 1..Len(state.segments) :
           /\ state.segments[j].pron = state.segments[k].pron
           /\ history'[state.segments[k].pron] = CurrentForm(state.segments[j])
  /\ (state.kind = "inputting" /\ state'.kind = "converting") =>
       \A k \in 1..Len(state'.segments) :
         (Remembers /\ state'.segments[k].pron \in DOMAIN history) =>
           CurrentForm(state'.segments[k]) = history[state'.segments[k].pron]
  /\ \A pron \in DOMAIN history :
       \/ pron \in DOMAIN history' /\ history'[pron] = history[pron]
       \/ /\ state.kind = "converting" /\ reply'.view.kind = "committed"
          /\ \E k \in 1..Len(state.segments) : state.segments[k].pron = pron

LEMMA KeyRemembers ==
  ASSUME IInv, NEW key \in Key, OnKeyDown(key)
  PROVE  Remembered
<1>1. WellFormed(state) /\ HistoryTyped(history) BY DEF IInv, ImeGood
<1>2. CASE KeyIgnored
  <2>1. state' = state /\ history' = history /\ reply'.view.kind = "none"
    BY <1>2 DEF KeyIgnored, NoView
  <2> QED BY <2>1 DEF Remembered
<1>3. CASE KeyEdits
  <2>1. state'.kind = "inputting" /\ history' = history BY <1>3, KindOfState DEF KeyEdits, WellFormed
  <2>2. reply'.view.kind = "editing" BY <1>3 DEF KeyEdits, EditingView
  <2> QED BY <2>1, <2>2 DEF Remembered
<1>4. CASE KeyConverts
  <2>1. reply'.view.kind = "converting" BY <1>4 DEF KeyConverts, ConvertingView
  <2>2. state.kind = "inputting" => Composing(state) BY <1>1, KindOfState
  <2> QED BY <1>4, <2>1, <2>2 DEF Remembered, KeyConverts
<1>5. CASE KeyCommits
  <2>1. state.kind = "inputting" => Composing(state) /\ ~Conversing(state)
    BY <1>1, KindOfState
  <2>2. state'.kind = "converting" => state.kind # "inputting"
    BY <1>5, <2>1, EmptyComposing DEF KeyCommits, DirectState
  <2>3. ASSUME state.kind = "converting"
        PROVE  \A k \in 1..Len(state.segments) :
                 \E j \in 1..Len(state.segments) :
                   /\ state.segments[j].pron = state.segments[k].pron
                   /\ history'[state.segments[k].pron] = CurrentForm(state.segments[j])
    <3>1. Conversing(state) BY <1>1, <2>3, KindOfState
    <3>2. history' = Learn(state.segments) BY <1>5, <3>1 DEF KeyCommits
    <3> QED BY <1>1, <3>1, <3>2, LearnParts
  <2>4. \A pron \in DOMAIN history :
          \/ pron \in DOMAIN history' /\ history'[pron] = history[pron]
          \/ /\ state.kind = "converting" /\ reply'.view.kind = "committed"
             /\ \E k \in 1..Len(state.segments) : state.segments[k].pron = pron
    <3>1. CASE Conversing(state)
      <4>1. state.kind = "converting" /\ reply'.view.kind = "committed"
        BY <1>1, <1>5, <3>1, KindOfState DEF KeyCommits, CommittedView
      <4>2. history' = Learn(state.segments) BY <1>5, <3>1 DEF KeyCommits
      <4> QED BY <1>1, <3>1, <4>1, <4>2, LearnParts
    <3>2. CASE ~Conversing(state) BY <1>5, <3>2 DEF KeyCommits
    <3> QED BY <3>1, <3>2
  <2> QED BY <2>2, <2>3, <2>4 DEF Remembered
<1> QED BY <1>2, <1>3, <1>4, <1>5, KeyHandled

LEMMA StepRemembers == IInv /\ Next => Remembered
<1> SUFFICES ASSUME IInv, Next PROVE Remembered OBVIOUS
<1>1. ASSUME NEW key \in Key, OnKeyDown(key) PROVE Remembered BY <1>1, KeyRemembers
<1>2. CASE Toggle
  <2>1. /\ reply' = reply /\ history' = history
        /\ state'.kind = "converting" <=> state.kind = "converting"
    BY <1>2, ToggleKeepsState DEF Toggle, IInv, ImeGood
  <2> QED BY <2>1 DEF Remembered
<1>3. CASE UNCHANGED imeVars
  <2>1. state' = state /\ reply' = reply /\ history' = history BY <1>3 DEF imeVars
  <2> QED BY <2>1 DEF Remembered
<1> QED BY <1>1, <1>2, <1>3
    DEF Next, OnLayoutChange, OnCompositionTerminated, FocusMoves, ServerLost, ThreadChanges

\* A text that is committed is put into the document, unless the session was
\* refused.
LEMMA KeyArrives ==
  ASSUME IInv, NEW key \in Key, OnKeyDown(key),
         reply'.view.kind = "committed", Granted, crash' = "none", "unstarted" \notin around
  PROVE  \/ committed' = reply'.view.input /\ composition' = NoComposition
         \/ composition.kind = "live" /\ composition.context # focus
<1>1. /\ Still /\ DocGood /\ UIGood /\ WellFormed(state)
      /\ \/ KeyIgnored
         \/ KeyEdits
         \/ KeyConverts
         \/ KeyCommits /\ HandleCommitted(CommittedView(EnterText(state)))
  BY KeyHandled DEF IInv, ImeGood
<1>2. KeyCommits /\ HandleCommitted(CommittedView(EnterText(state)))
  BY <1>1 DEF KeyIgnored, KeyEdits, KeyConverts, NoView, EditingView, ConvertingView
<1>3. EnterText(state) \in Text BY <1>1, StateTextType, WinAssumption DEF EnterText
<1>4. reply'.view.input = EnterText(state) BY <1>2, <1>3, CommittedViewType DEF KeyCommits
<1>5. refusals' = 0 BY DEF Granted
<1> QED BY <1>1, <1>2, <1>3, <1>4, <1>5, CommittedShown

-----------------------------------------------------------------------------
(* The theorems.                                                           *)

LEMMA Invariance == Spec => []IInv
<1>1. IInv /\ [Next]_vars => IInv' BY NextGood DEF GoodStep
<1> QED BY <1>1, InitGood, PTL DEF Spec

\* The fields of KeyEventHandler, of the candidate list and of the input
\* method stay within what their types and the protocol allow, and the element
\* of the user interface lives as long as the list (candidate_ui.cpp).
THEOREM TypeCorrect == Spec => []TypeOK
<1>1. IInv => TypeOK
  <2> SUFFICES ASSUME IInv PROVE TypeOK OBVIOUS
  <2>1. state \in State BY KindOfState DEF IInv, ImeGood
  <2> QED BY <2>1 DEF TypeOK, IInv, ImeGood, ImeTypeOK, HistoryTyped, UIGood, DocGood, Compositions
<1> QED BY <1>1, Invariance, PTL

\* The state whose methods assert direct mode is only met in direct mode
\* (win/im/process-input.lisp, win/im/toggle-input-mode.lisp), however often
\* and whenever the mode is toggled.
THEOREM DirectStateKeepsDirectMode == Spec => []DirectStateInDirectMode
<1>1. IInv => DirectStateInDirectMode BY DEF IInv, ImeGood
<1> QED BY <1>1, Invariance, PTL

\* After a granted session the composition has the text of the state, whatever
\* sessions were refused before it (EditSessionEditing, EditSessionConverting
\* and EditSessionCommitted in key_event_handler.cpp).
THEOREM DocumentIsBroughtUpToDate == Spec => []DocumentCatchesUp
<1>1. IInv => DocumentCatchesUp BY DEF IInv
<1> QED BY <1>1, Invariance, PTL

\* With an engine and a predictor that offer no form twice, the candidate list
\* is that of the state, without repetitions, and the window draws the page of
\* the current form and highlights it (append-candidates, CandidateUI).
THEOREM WindowFollowsState ==
  ASSUME EngineRepeatsNothing, PredictorRepeatsNothing
  PROVE  Spec => []WindowShowsState
<1>1. IInv => WindowShowsState
  <2> SUFFICES ASSUME IInv PROVE WindowShowsState OBVIOUS
  <2>1. Unrepeated(state) BY DEF IInv, ImeGood, NothingTwice
  <2> QED BY <2>1, WindowIsOfState
<1> QED BY <1>1, Invariance, PTL

\* The pointers used without a check are null only in the three circumstances
\* named (ReplaceTextInComposition, EditSessionCommitted and HandleIMEView).
THEOREM NothingElseCrashes == Spec => []CrashesHaveCauses
<1>1. IInv => CrashesHaveCauses BY DEF IInv, DocGood
<1> QED BY <1>1, Invariance, PTL

\* What OnTestKeyDown claims in hiragana mode, OnKeyDown handles, unless the
\* state of the keyboard cannot be read: the two lists of keys agree
\* (can-process.lisp, process-input.lisp).  A key that could not be read leaves
\* text, list and document alone (OnKeyDown in key_event_handler.cpp).
THEOREM ClaimsAreKept == Spec => ClaimedKeysHandled
<1> DEFINE Handled ==
      \A key \in Key : (mode = "hiragana" /\ ~deaf /\ OnKeyDown(key)) =>
        \/ reply'.eaten /\ reply'.view # NoView
        \/ "unread" \in around /\ ~reply'.eaten /\ committed' = <<>>
             /\ UNCHANGED <<state, mode, history, uiVars, composition>>
<1>1. Handled
  <2> SUFFICES ASSUME NEW key \in Key, mode = "hiragana", ~deaf, OnKeyDown(key)
               PROVE  \/ reply'.eaten /\ reply'.view # NoView
                      \/ "unread" \in around /\ ~reply'.eaten /\ committed' = <<>>
                           /\ UNCHANGED <<state, mode, history, uiVars, composition>>
    OBVIOUS
  <2>1. CASE KeyUnread
    <3>1. Undisturbed BY <2>1 DEF OnKeyDown, KeyUnread
    <3> QED BY <2>1, <3>1 DEF KeyUnread, Undisturbed
  <2>2. CASE ~KeyUnread
    <3>1. CanProcess(key) /\ ProcessInput(key)
      BY <2>2 DEF OnKeyDown, ProxyCanProcess, ProxyProcessInput
    <3> QED BY <3>1, ClaimedAnswered
  <2> QED BY <2>1, <2>2
<1>2. [Handled]_vars
  <2> HIDE DEF Handled
  <2> QED BY <1>1
<1> QED BY <1>2, PTL DEF ClaimedKeysHandled

\* The forms of a committed conversion are remembered until another conversion
\* of the same pronunciation is committed, and the next conversion starts with
\* them (history-overwrite, history-apply in im/kkc).
THEOREM CorrectionsAreKept == Spec => CorrectionsRemembered
<1>1. IInv /\ [Next]_vars => [Remembered]_vars BY StepRemembers
<1>2. [][Remembered]_vars => CorrectionsRemembered
  BY PTL DEF CorrectionsRemembered, Remembered
<1>3. Spec => [][Remembered]_vars BY <1>1, Invariance, PTL DEF Spec
<1> QED BY <1>2, <1>3

\* A committed text is in the document after the session that was to put it
\* there, in the place of the composition (EditSessionCommitted).
THEOREM TextsArrive == Spec => CommitsArrive
<1> DEFINE Arrived ==
      (/\ reply'.view.kind = "committed" /\ Granted /\ crash' = "none"
       /\ "unstarted" \notin around
       /\ \E key \in Key : OnKeyDown(key))
         => \/ committed' = reply'.view.input /\ composition' = NoComposition
            \/ composition.kind = "live" /\ composition.context # focus
<1>1. IInv => Arrived BY KeyArrives
<1>2. IInv => [Arrived]_vars
  <2> HIDE DEF Arrived
  <2> QED BY <1>1
<1> QED BY <1>2, Invariance, PTL DEF CommitsArrive

\* While nothing goes wrong around it, what the text service commits is the
\* text that was in sight, or a line break when nothing was: the text service
\* implements Composer.
THEOREM CommitsWhatIsInSight == Spec => ImplementsComposer
<1>1. Init => Promise!Init BY InitGood
<1>2. IInv /\ [Next]_vars => [Promise!Next]_Promise!vars BY NextGood DEF GoodStep
<1> QED BY <1>1, <1>2, Invariance, PTL DEF Spec, ImplementsComposer, Promise!Spec
=============================================================================

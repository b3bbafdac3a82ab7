------------------------- MODULE Fcitx4EngineProofs -------------------------
(***************************************************************************)
(* The fcitx4 front-end and the input method, for every table of rules,    *)
(* predictor, conversion engine, size of page and encoding of characters:  *)
(* the one window shows the state of the input method until a server is    *)
(* lost, and what is committed was in sight.                               *)
(***************************************************************************)
EXTENDS Fcitx4Engine, ImeProofs

Window(preedit, client, caret, words, page, highlight, aux) ==
  [preedit |-> preedit, client |-> client, caret |-> caret,
   words |-> words, page |-> page, highlight |-> highlight, aux |-> aux]

\* A window has these fields.
Shaped(w) ==
  \E preedit, client, caret, words, page, highlight, aux :
    w = Window(preedit, client, caret, words, page, highlight, aux)

\* The text of the window is what is composed.
TextShown ==
  ~lost => /\ window.client = ComposedText(state)
           /\ window.preedit = IF focus \in SupportsPreedit THEN <<>> ELSE ComposedText(state)

\* The list of the window, and the position in it, are those of the view.
ListShown ==
  ~lost =>
    LET view == StateView(state)
    IN  /\ window.words = Listed(view)
        /\ window.aux = IF Listed(view) # <<>> /\ view.index >= 0
                        THEN <<view.index + 1, Len(Listed(view))>> ELSE <<>>
        /\ window.highlight = IF Listed(view) # <<>> /\ view.index >= 0 THEN view.index ELSE -1

\* The inductive invariant: what is shown of a state needs the shape of the
\* state; that no list is left over of an empty text needs predictions that
\* belong to their text; and what is shown after a loss needs the new input
\* method to compose nothing until it answers with a view.
IInv ==
  /\ GoodState(state) /\ reply \in Reply
  /\ Shaped(window)
  /\ Fresh(state)
  /\ TextShown
  /\ CaretInText
  /\ lost \in BOOLEAN
  /\ lost => state = EmptyInputting

-----------------------------------------------------------------------------
(* Strings.                                                                *)

LEMMA FlatNothing == Flat(<<>>) = <<>>
<1>1. Len(<<>>) = 0 BY EmptySeq
<1> QED BY <1>1 DEF Flat, Seqs!FlattenSeq

LEMMA FlatOne ==
  ASSUME NEW string
  PROVE  Flat(<<string>>) = string
<1> DEFINE text == <<string>>
<1>1. Len(text) = 1 /\ text[1] = string OBVIOUS
<1> HIDE DEF text
<1> DEFINE Step(f) == [i \in 1..Len(text) |-> IF i = 1 THEN text[i] ELSE f[i - 1] \o text[i]]
           g == [i \in 1..Len(text) |-> string]
           flatten == CHOOSE f : f = Step(f)
<1>2. g = Step(g)
  <2>1. \A i \in 1..Len(text) : i = 1 BY <1>1
  <2> QED BY <1>1, <2>1
<1>3. flatten = Step(flatten) BY <1>2, Zenon
<1>4. 1 \in 1..Len(text) BY <1>1
<1>5. flatten[1] = string BY <1>1, <1>3, <1>4
<1>6. Flat(text) = flatten[Len(text)] BY <1>1 DEF Flat, Seqs!FlattenSeq
<1>7. Flat(text) = string BY <1>1, <1>5, <1>6
<1> QED BY <1>7 DEF text

LEMMA FlatShown ==
  ASSUME NEW string
  PROVE  Flat(Shown(string)) = string
BY FlatNothing, FlatOne DEF Shown

-----------------------------------------------------------------------------
(* Windows.                                                                *)

LEMMA WindowFields ==
  ASSUME NEW pre, NEW cl, NEW ca, NEW wo, NEW pa, NEW hi, NEW au
  PROVE  LET w == Window(pre, cl, ca, wo, pa, hi, au)
         IN  /\ w.preedit = pre /\ w.client = cl /\ w.caret = ca /\ w.words = wo
             /\ w.page = pa /\ w.highlight = hi /\ w.aux = au
BY DEF Window

\* The changes that fill a window.
WithTexts(w, texts, pre) == [w EXCEPT !.client = texts, !.preedit = pre]
WithWords(w, list) == [w EXCEPT !.words = list]
WithPosition(w, list, page, index, aux) ==
  [w EXCEPT !.words = list, !.page = page, !.highlight = index, !.aux = aux]
WithCaret(w, caret) == [w EXCEPT !.caret = caret]

LEMMA OneChange ==
  ASSUME NEW pre, NEW cl, NEW ca, NEW wo, NEW pa, NEW hi, NEW au, NEW x
  PROVE  /\ WithWords(Window(pre, cl, ca, wo, pa, hi, au), x) = Window(pre, cl, ca, x, pa, hi, au)
         /\ WithCaret(Window(pre, cl, ca, wo, pa, hi, au), x) = Window(pre, cl, x, wo, pa, hi, au)
BY DEF Window, WithWords, WithCaret

LEMMA TextsChange ==
  ASSUME NEW pre, NEW cl, NEW ca, NEW wo, NEW pa, NEW hi, NEW au, NEW x, NEW y
  PROVE  WithTexts(Window(pre, cl, ca, wo, pa, hi, au), x, y) = Window(y, x, ca, wo, pa, hi, au)
<1>1. PICK w : w = Window(pre, cl, ca, wo, pa, hi, au) OBVIOUS
<1>2. PICK v : v = [w EXCEPT !.client = x] OBVIOUS
<1>3. v = Window(pre, x, ca, wo, pa, hi, au) BY <1>1, <1>2 DEF Window
<1>4. PICK u : u = [v EXCEPT !.preedit = y] OBVIOUS
<1>5. u = Window(y, x, ca, wo, pa, hi, au) BY <1>3, <1>4 DEF Window
<1>6. [w EXCEPT !.client = x, !.preedit = y] = [[w EXCEPT !.client = x] EXCEPT !.preedit = y]
  OBVIOUS
<1>7. [w EXCEPT !.client = x, !.preedit = y] = Window(y, x, ca, wo, pa, hi, au)
  BY <1>2, <1>4, <1>5, <1>6, Zenon
<1> QED BY <1>1, <1>7, Zenon DEF WithTexts

LEMMA PositionChange ==
  ASSUME NEW pre, NEW cl, NEW ca, NEW wo, NEW pa, NEW hi, NEW au,
         NEW x, NEW y, NEW h, NEW a
  PROVE  WithPosition(Window(pre, cl, ca, wo, pa, hi, au), x, y, h, a)
           = Window(pre, cl, ca, x, y, h, a)
<1>1. PICK w : w = Window(pre, cl, ca, wo, pa, hi, au) OBVIOUS
<1>2. PICK v : v = [w EXCEPT !.words = x] OBVIOUS
<1>3. v = Window(pre, cl, ca, x, pa, hi, au) BY <1>1, <1>2 DEF Window
<1>4. PICK u : u = [v EXCEPT !.page = y] OBVIOUS
<1>5. u = Window(pre, cl, ca, x, y, hi, au) BY <1>3, <1>4 DEF Window
<1>6. PICK t : t = [u EXCEPT !.highlight = h] OBVIOUS
<1>7. t = Window(pre, cl, ca, x, y, h, au) BY <1>5, <1>6 DEF Window
<1>8. PICK s : s = [t EXCEPT !.aux = a] OBVIOUS
<1>9. s = Window(pre, cl, ca, x, y, h, a) BY <1>7, <1>8 DEF Window
<1>10. [w EXCEPT !.words = x, !.page = y, !.highlight = h, !.aux = a]
         = [[[[w EXCEPT !.words = x] EXCEPT !.page = y] EXCEPT !.highlight = h] EXCEPT !.aux = a]
  OBVIOUS
<1>11. [w EXCEPT !.words = x, !.page = y, !.highlight = h, !.aux = a]
         = Window(pre, cl, ca, x, y, h, a)
  BY <1>2, <1>4, <1>6, <1>8, <1>9, <1>10, Zenon
<1> QED BY <1>1, <1>11, Zenon DEF WithPosition

LEMMA WordListCases ==
  ASSUME NEW w, NEW list, NEW index
  PROVE  /\ list = <<>> => ShowCandidateWordList(w, list, index) = w
         /\ list # <<>> /\ index \in 0..(Len(list) - 1) =>
              ShowCandidateWordList(w, list, index)
                = WithPosition(w, list, index \div PageSize, index, <<index + 1, Len(list)>>)
         /\ list # <<>> /\ index \notin 0..(Len(list) - 1) =>
              ShowCandidateWordList(w, list, index) = WithWords(w, list)
BY Zenon DEF ShowCandidateWordList, WithPosition, WithWords

LEMMA CleanWindow == CleanInputWindow = Window(<<>>, <<>>, window.caret, <<>>, 0, -1, <<>>)
BY DEF CleanInputWindow, BlankWindow, Window

\* A window that shows texts and a list, with the caret at a place.
Shows(w, texts, list, index, caret) ==
  \E pre, page, highlight, aux :
    /\ w = Window(pre, texts, caret, list, page, highlight, aux)
    /\ pre = IF focus \in SupportsPreedit THEN <<>> ELSE texts
    /\ aux = IF list # <<>> /\ index \in 0..(Len(list) - 1)
             THEN <<index + 1, Len(list)>> ELSE <<>>
    /\ highlight = IF list # <<>> /\ index \in 0..(Len(list) - 1) THEN index ELSE -1

\* A cleaned window filled with texts and a list.
LEMMA FilledWindow ==
  ASSUME NEW texts, NEW list, NEW index
  PROVE  Shows(ShowCandidateWordList(Preedited(CleanInputWindow, texts), list, index),
               texts, list, index, window.caret)
<1>1. PICK pre : pre = IF focus \in SupportsPreedit THEN <<>> ELSE texts OBVIOUS
<1> DEFINE filled == Window(pre, texts, window.caret, <<>>, 0, -1, <<>>)
<1>2. Preedited(CleanInputWindow, texts) = filled
  <2>1. Preedited(CleanInputWindow, texts) = WithTexts(CleanInputWindow, texts, pre)
    BY <1>1, Zenon DEF Preedited, WithTexts
  <2> QED BY <2>1, CleanWindow, TextsChange
<1> SUFFICES \E page, highlight, aux :
               /\ ShowCandidateWordList(filled, list, index)
                    = Window(pre, texts, window.caret, list, page, highlight, aux)
               /\ aux = IF list # <<>> /\ index \in 0..(Len(list) - 1)
                        THEN <<index + 1, Len(list)>> ELSE <<>>
               /\ highlight = IF list # <<>> /\ index \in 0..(Len(list) - 1) THEN index ELSE -1
  BY <1>1, <1>2, Zenon DEF Shows
<1>5. CASE list = <<>>
  <2>1. ShowCandidateWordList(filled, list, index)
          = Window(pre, texts, window.caret, list, 0, -1, <<>>)
    BY <1>5, WordListCases
  <2> HIDE DEF filled
  <2> QED BY <1>5, <2>1
<1>6. CASE list # <<>> /\ index \in 0..(Len(list) - 1)
  <2>1. PICK page, aux : page = index \div PageSize /\ aux = <<index + 1, Len(list)>> OBVIOUS
  <2>2. ShowCandidateWordList(filled, list, index) = WithPosition(filled, list, page, index, aux)
    BY <1>6, <2>1, WordListCases
  <2>3. WithPosition(filled, list, page, index, aux)
          = Window(pre, texts, window.caret, list, page, index, aux)
    BY PositionChange
  <2> HIDE DEF filled
  <2> QED BY <1>6, <2>1, <2>2, <2>3
<1>7. CASE list # <<>> /\ index \notin 0..(Len(list) - 1)
  <2>1. ShowCandidateWordList(filled, list, index) = WithWords(filled, list)
    BY <1>7, WordListCases
  <2>2. WithWords(filled, list) = Window(pre, texts, window.caret, list, 0, -1, <<>>)
    BY OneChange
  <2> HIDE DEF filled
  <2> QED BY <1>7, <2>1, <2>2
<1> QED BY <1>5, <1>6, <1>7

-----------------------------------------------------------------------------
(* What an answer shows.                                                   *)

\* The views that show the state s: its own, and those that commit a text
\* besides.
ShowsState(view, s) ==
  \/ view = StateView(s)
  \/ /\ s.kind = "inputting"
     /\ \E text : view = CommittingView(s, text)

LEMMA AnswerShowsState ==
  ASSUME NEW s, NEW t, NEW view, AnswerOf(s, t, view)
  PROVE  (view = NoView /\ t = s) \/ ShowsState(view, t)
<1>1. EmptyInputting.kind = "inputting" BY EmptyInputtingKind
<1> QED BY <1>1 DEF AnswerOf, ShowsState

\* Text, list and caret of such a view.
LEMMA ViewOfState ==
  ASSUME NEW s, GoodState(s), NEW view, ShowsState(view, s)
  PROVE  /\ view.kind = StateView(s).kind /\ view.kind \in {"editing", "converting"}
         /\ view.kind = "converting" <=> s.kind = "converting"
         /\ view.kind = "converting" => view.forms = ComposedText(s)
         /\ view.kind = "editing" => /\ view.input = ComposedText(s)
                                     /\ ComposedText(s) = Shown(Flat(view.input))
         /\ Listed(view) = Listed(StateView(s)) /\ view.index = StateView(s).index
         /\ s.kind = "inputting" => view.before = Shown(Before(s.buffer))
<1>1. CASE s.kind = "converting"
  <2>1. view = ConvertingView(s) BY <1>1 DEF ShowsState, StateView
  <2> QED BY <1>1, <2>1 DEF ConvertingView, StateView, ComposedText
<1>2. CASE s.kind = "inputting"
  <2>1. PICK text : view = CommittingView(s, text)
    BY <1>2 DEF ShowsState, StateView, InputtingView
  <2>2. /\ view.kind = "editing" /\ view.input = Shown(s.buffer.string)
        /\ view.before = Shown(Before(s.buffer)) /\ view.predictions = s.predictions
        /\ view.index = -1
    BY <2>1 DEF CommittingView
  <2>3. /\ StateView(s).kind = "editing" /\ StateView(s).input = Shown(s.buffer.string)
        /\ StateView(s).predictions = s.predictions /\ StateView(s).index = -1
    BY <1>2 DEF StateView, InputtingView, CommittingView
  <2> QED BY <1>2, <2>2, <2>3, FlatShown DEF ComposedText, Listed
<1>3. CASE s.kind = "katakana"
  <2>1. view = KatakanaView(s) /\ StateView(s) = KatakanaView(s)
    BY <1>3 DEF ShowsState, StateView
  <2>2. view.kind = "editing" /\ view.input = Shown(s.input) BY <2>1 DEF KatakanaView
  <2> QED BY <1>3, <2>1, <2>2, FlatShown DEF ComposedText
<1>4. CASE s.kind = "selecting"
  <2>1. view = SelectingView(s) /\ StateView(s) = SelectingView(s)
    BY <1>4 DEF ShowsState, StateView
  <2>2. view.kind = "editing" /\ view.input = Shown(CurrentPrediction(s))
    BY <2>1 DEF SelectingView
  <2> QED BY <1>4, <2>1, <2>2, FlatShown DEF ComposedText
<1> QED BY <1>1, <1>2, <1>3, <1>4, KindOfState

\* A position in the list of a view, when it has one, is a position of it.
LEMMA PositionOfView ==
  ASSUME NEW s, GoodState(s)
  PROVE  LET view == StateView(s)
         IN  Listed(view) # <<>> =>
               (view.index >= 0 <=> view.index \in 0..(Len(Listed(view)) - 1))
<1>1. CASE s.kind = "converting"
  <2> DEFINE seg == CurrentSegment(s)
  <2>1. seg.index \in 0..(Len(seg.candidates) - 1) BY <1>1, ConvertingParts DEF CurrentSegment
  <2>2. /\ Listed(StateView(s)) = IF seg.katakana \/ seg.hasMore THEN <<>> ELSE seg.candidates
        /\ StateView(s).index = IF seg.katakana THEN -1 ELSE seg.index
    BY <1>1 DEF StateView, ConvertingView, Listed
  <2> HIDE DEF seg
  <2> QED BY <2>1, <2>2
<1>2. CASE s.kind = "inputting"
  <2>1. StateView(s).index = -1 BY <1>2 DEF StateView, InputtingView, CommittingView
  <2> QED BY <2>1
<1>3. CASE s.kind = "katakana"
  <2>1. StateView(s).index = -1 BY <1>3 DEF StateView, KatakanaView
  <2> QED BY <2>1
<1>4. CASE s.kind = "selecting"
  <2>1. StateView(s).index = s.index /\ Listed(StateView(s)) = s.predictions
    BY <1>4 DEF StateView, SelectingView, Listed
  <2> QED BY <1>4, <2>1, SelectingParts
<1> QED BY <1>1, <1>2, <1>3, <1>4, KindOfState

\* A state with no text has no list.
LEMMA NoTextNoList ==
  ASSUME NEW s, GoodState(s), Fresh(s), Offered(s), ComposedText(s) = <<>>
  PROVE  Listed(StateView(s)) = <<>>
<1>1. CASE s.kind = "converting"
  <2>1. Len(ComposedText(s)) = Len(s.segments) /\ Len(s.segments) # 0
    BY <1>1, FormsType, ConvertingParts DEF ComposedText
  <2>2. Len(<<>>) = 0 BY EmptySeq
  <2> QED BY <2>1, <2>2
<1>2. CASE s.kind = "inputting"
  <2>1. Shown(s.buffer.string) = <<>>
    BY <1>2 DEF ComposedText, StateView, InputtingView, CommittingView
  <2>2. s.buffer.string = <<>>
    <3>1. Flat(Shown(s.buffer.string)) = Flat(<<>>) BY <2>1
    <3> QED BY <3>1, FlatShown, FlatNothing
  <2>3. s.predictions = <<>> BY <1>2, <2>2 DEF Fresh, ListPredictions
  <2> QED BY <1>2, <2>3 DEF StateView, InputtingView, CommittingView, Listed
<1>3. CASE s.kind = "katakana" BY <1>3 DEF StateView, KatakanaView, Listed
<1>4. CASE s.kind = "selecting"
  <2>1. s.index + 1 \in 1..Len(s.predictions) BY <1>4, SelectingParts
  <2>2. CurrentPrediction(s) # <<>> BY <1>4, <2>1 DEF Offered, CurrentPrediction
  <2>3. Shown(CurrentPrediction(s)) = <<>> BY <1>4 DEF ComposedText, StateView, SelectingView
  <2>4. Flat(Shown(CurrentPrediction(s))) = Flat(<<>>) BY <2>3
  <2> QED BY <2>2, <2>4, FlatShown, FlatNothing
<1> QED BY <1>1, <1>2, <1>3, <1>4, KindOfState

\* The window that shows a state with a text.
LEMMA WindowOfText ==
  ASSUME NEW s, GoodState(s), NEW view, ShowsState(view, s), ShowAnswer(view),
         ComposedText(s) # <<>>
  PROVE  \E caret :
           /\ Shows(window', ComposedText(s), Listed(view), view.index, caret)
           /\ s.kind = "inputting" => caret = Bytes(Before(s.buffer))
<1> DEFINE text == ComposedText(s)
           shown == ShowCandidateWordList(Preedited(CleanInputWindow, text),
                                          Listed(view), view.index)
<1>1. CASE view.kind = "converting"
  <2>1. view.forms = text /\ view.candidates = Listed(view) /\ s.kind # "inputting"
    BY <1>1, ViewOfState DEF Listed
  <2>2. ShowConverting(ParseConverting(view)) BY <1>1 DEF ShowAnswer
  <2>3. window' = ShowCandidateWordList(Preedited(CleanInputWindow, view.forms),
                                        view.candidates, view.index)
    <3>1. PICK v : v = ParseConverting(view) OBVIOUS
    <3>2. /\ v.forms = view.forms /\ v.cursor_form_candidates = view.candidates
          /\ v.cursor_form_candidate_index = view.index
      BY <3>1 DEF ParseConverting
    <3>3. window' = ShowCandidateWordList(Preedited(CleanInputWindow, v.forms),
                      v.cursor_form_candidates, v.cursor_form_candidate_index)
      BY <2>2, <3>1 DEF ShowConverting
    <3> QED BY <3>2, <3>3, Zenon
  <2>4. window' = shown BY <2>1, <2>3
  <2> HIDE DEF text
  <2>5. Shows(shown, text, Listed(view), view.index, window.caret) BY FilledWindow
  <2> HIDE DEF shown
  <2> QED BY <2>1, <2>4, <2>5 DEF text
<1>2. CASE view.kind = "editing"
  <2> DEFINE caret == Bytes(Flat(view.before))
  <2>1. view.input = text /\ text = Shown(Flat(view.input)) /\ view.predictions = Listed(view)
    BY <1>2, ViewOfState DEF Listed
  <2>2. Flat(view.input) # <<>> /\ text = <<Flat(view.input)>> BY <2>1 DEF Shown
  <2>3. ShowEditing(ParseEditing(view)) BY <1>2 DEF ShowAnswer
  <2> HIDE DEF caret
  <2>5. window' = WithCaret(ShowCandidateWordList(
                     Preedited(CleanInputWindow, <<Flat(view.input)>>),
                     view.predictions, view.index), caret)
    <3>1. PICK v : v = ParseEditing(view) OBVIOUS
    <3>2. /\ v.input = Flat(view.input) /\ v.predictions = view.predictions
          /\ v.prediction_index = view.index /\ v.cursor_pos = caret
      BY <3>1 DEF ParseEditing, caret
    <3>3. window' = [ShowCandidateWordList(Preedited(CleanInputWindow, <<v.input>>),
                       v.predictions, v.prediction_index) EXCEPT !.caret = v.cursor_pos]
      BY <2>2, <2>3, <3>1, <3>2 DEF ShowEditing
    <3>4. window' = WithCaret(ShowCandidateWordList(Preedited(CleanInputWindow, <<v.input>>),
                       v.predictions, v.prediction_index), v.cursor_pos)
      BY <3>3, Zenon DEF WithCaret
    <3> QED BY <3>2, <3>4
  <2> HIDE DEF text
  <2>6. window' = WithCaret(shown, caret) BY <2>1, <2>2, <2>5
  <2>7. Shows(shown, text, Listed(view), view.index, window.caret) BY FilledWindow
  <2> HIDE DEF shown
  <2>8. Shows(window', text, Listed(view), view.index, caret)
    <3>1. PICK pre, page, highlight, aux :
            /\ shown = Window(pre, text, window.caret, Listed(view), page, highlight, aux)
            /\ pre = IF focus \in SupportsPreedit THEN <<>> ELSE text
            /\ aux = IF Listed(view) # <<>> /\ view.index \in 0..(Len(Listed(view)) - 1)
                     THEN <<view.index + 1, Len(Listed(view))>> ELSE <<>>
            /\ highlight = IF Listed(view) # <<>> /\ view.index \in 0..(Len(Listed(view)) - 1)
                           THEN view.index ELSE -1
      BY <2>7, Zenon DEF Shows
    <3>2. window' = Window(pre, text, caret, Listed(view), page, highlight, aux)
      BY <2>6, <3>1, OneChange
    <3> QED BY <3>1, <3>2, Zenon DEF Shows
  <2>9. s.kind = "inputting" => caret = Bytes(Before(s.buffer))
    BY ViewOfState, FlatShown DEF caret
  <2> QED BY <2>8, <2>9 DEF text
<1> QED BY <1>1, <1>2, ViewOfState

\* The window that shows a state without a text is clean.
LEMMA WindowOfNoText ==
  ASSUME NEW s, GoodState(s), NEW view, ShowsState(view, s), ShowAnswer(view),
         ComposedText(s) = <<>>
  PROVE  window' = CleanInputWindow
<1>1. s.kind # "converting"
  <2>1. ASSUME s.kind = "converting" PROVE FALSE
    <3>1. Len(ComposedText(s)) = Len(s.segments) /\ Len(s.segments) # 0
      BY <2>1, FormsType, ConvertingParts DEF ComposedText
    <3>2. Len(<<>>) = 0 BY EmptySeq
    <3> QED BY <3>1, <3>2
  <2> QED BY <2>1
<1>2. view.kind = "editing" /\ view.input = <<>> BY <1>1, ViewOfState
<1>3. ShowEditing(ParseEditing(view)) BY <1>2 DEF ShowAnswer
<1>4. ParseEditing(view).input = <<>> BY <1>2, FlatNothing DEF ParseEditing
<1> QED BY <1>3, <1>4 DEF ShowEditing

-----------------------------------------------------------------------------
(* Steps.                                                                  *)

LEMMA ShownFields ==
  ASSUME NEW w, NEW texts, NEW list, NEW index, NEW caret, Shows(w, texts, list, index, caret)
  PROVE  /\ Shaped(w) /\ w.client = texts /\ w.caret = caret /\ w.words = list
         /\ w.preedit = IF focus \in SupportsPreedit THEN <<>> ELSE texts
         /\ w.aux = IF list # <<>> /\ index \in 0..(Len(list) - 1)
                    THEN <<index + 1, Len(list)>> ELSE <<>>
         /\ w.highlight = IF list # <<>> /\ index \in 0..(Len(list) - 1) THEN index ELSE -1
<1>1. PICK pre, page, highlight, aux :
        /\ w = Window(pre, texts, caret, list, page, highlight, aux)
        /\ pre = IF focus \in SupportsPreedit THEN <<>> ELSE texts
        /\ aux = IF list # <<>> /\ index \in 0..(Len(list) - 1)
                 THEN <<index + 1, Len(list)>> ELSE <<>>
        /\ highlight = IF list # <<>> /\ index \in 0..(Len(list) - 1) THEN index ELSE -1
  BY Zenon DEF Shows
<1>2. /\ w.preedit = pre /\ w.client = texts /\ w.caret = caret /\ w.words = list
      /\ w.page = page /\ w.highlight = highlight /\ w.aux = aux
  BY <1>1, WindowFields
<1>3. Shaped(w) BY <1>1, Zenon DEF Shaped
<1> QED BY <1>1, <1>2, <1>3

LEMMA CleanFields ==
  /\ Shaped(CleanInputWindow) /\ CleanInputWindow.client = <<>>
  /\ CleanInputWindow.preedit = <<>> /\ CleanInputWindow.words = <<>>
  /\ CleanInputWindow.aux = <<>> /\ CleanInputWindow.highlight = -1
<1>1. Shaped(CleanInputWindow) BY CleanWindow, Zenon DEF Shaped
<1> QED BY <1>1, CleanWindow, WindowFields

LEMMA TextOfTyping ==
  ASSUME NEW s, s.kind = "inputting"
  PROVE  /\ ComposedText(s) = Shown(s.buffer.string)
         /\ ComposedText(s) = <<>> <=> s.buffer.string = <<>>
<1>1. ComposedText(s) = Shown(s.buffer.string)
  BY DEF ComposedText, StateView, InputtingView, CommittingView
<1>2. Flat(Shown(s.buffer.string)) = s.buffer.string BY FlatShown
<1> QED BY <1>1, <1>2, FlatNothing DEF Shown

LEMMA EmptyComposesNothing == ComposedText(EmptyInputting) = <<>>
<1>1. EmptyInputting.buffer.string = <<>>
  BY DEF EmptyInputting, InputtingWith, EmptyBuffer
<1> QED BY <1>1, EmptyInputtingKind, TextOfTyping

LEMMA EmptyIsFresh == Fresh(EmptyInputting) /\ Offered(EmptyInputting)
<1>1. EmptyInputting.predictions = <<>> /\ Len(<<>>) = 0
  BY EmptySeq DEF EmptyInputting, InputtingWith
<1> QED BY <1>1 DEF Fresh, Offered

\* The window after a view of the state s.
LEMMA WindowAfterView ==
  ASSUME NEW s, GoodState(s), Fresh(s), NEW view, ShowsState(view, s), ShowAnswer(view)
  PROVE  /\ Shaped(window') /\ lost' = FALSE
         /\ window'.client = ComposedText(s)
         /\ window'.preedit = IF focus \in SupportsPreedit THEN <<>> ELSE ComposedText(s)
         /\ s.kind = "inputting" /\ s.buffer.string # <<>> =>
              window'.caret = Bytes(Before(s.buffer))
         /\ Offered(s) =>
              /\ window'.words = Listed(StateView(s))
              /\ window'.aux = IF Listed(StateView(s)) # <<>> /\ StateView(s).index >= 0
                               THEN <<StateView(s).index + 1, Len(Listed(StateView(s)))>>
                               ELSE <<>>
              /\ window'.highlight = IF Listed(StateView(s)) # <<>> /\ StateView(s).index >= 0
                               THEN StateView(s).index ELSE -1
<1>1. /\ view.kind # "none" /\ Listed(view) = Listed(StateView(s))
      /\ view.index = StateView(s).index
  BY ViewOfState
<1>2. lost' = FALSE BY <1>1 DEF ShowAnswer
<1>3. CASE ComposedText(s) = <<>>
  <2>1. window' = CleanInputWindow BY <1>3, WindowOfNoText
  <2>2. Offered(s) => Listed(StateView(s)) = <<>> BY <1>3, NoTextNoList
  <2>3. s.kind = "inputting" => s.buffer.string = <<>> BY <1>3, TextOfTyping
  <2> QED BY <1>2, <1>3, <2>1, <2>2, <2>3, CleanFields
<1>4. CASE ComposedText(s) # <<>>
  <2>1. PICK caret : /\ Shows(window', ComposedText(s), Listed(view), view.index, caret)
                     /\ s.kind = "inputting" => caret = Bytes(Before(s.buffer))
    BY <1>4, WindowOfText
  <2>2. /\ Shaped(window') /\ window'.client = ComposedText(s) /\ window'.caret = caret
        /\ window'.words = Listed(view)
        /\ window'.preedit = IF focus \in SupportsPreedit THEN <<>> ELSE ComposedText(s)
        /\ window'.aux = IF Listed(view) # <<>> /\ view.index \in 0..(Len(Listed(view)) - 1)
                         THEN <<view.index + 1, Len(Listed(view))>> ELSE <<>>
        /\ window'.highlight = IF Listed(view) # <<>> /\ view.index \in 0..(Len(Listed(view)) - 1)
                               THEN view.index ELSE -1
    BY <2>1, ShownFields
  <2>3. window'.aux = IF Listed(StateView(s)) # <<>> /\ StateView(s).index >= 0
                      THEN <<StateView(s).index + 1, Len(Listed(StateView(s)))>> ELSE <<>>
    BY <1>1, <2>2, PositionOfView
  <2>4. window'.highlight = IF Listed(StateView(s)) # <<>> /\ StateView(s).index >= 0
                               THEN StateView(s).index ELSE -1
    BY <1>1, <2>2, PositionOfView
  <2> QED BY <1>1, <1>2, <2>1, <2>2, <2>3, <2>4
<1> QED BY <1>3, <1>4

\* What an answer keeps.
LEMMA AnswerStep ==
  ASSUME IInv, Answered, Fresh(state'), ShowAnswer(reply'.view), UNCHANGED focus
  PROVE  /\ IInv'
         /\ ListShown /\ Offered(state') => ListShown'
         /\ ~lost => ~lost'
<1> DEFINE view == reply'.view
<1>1. GoodState(state') /\ reply' \in Reply /\ AnswerOf(state, state', view) BY DEF Answered
<1>2. CASE view = NoView /\ state' = state
  <2>1. view.kind = "none" BY <1>2 DEF NoView
  <2>2. window' = window /\ lost' = lost /\ focus' = focus /\ state' = state
    <3>1. lost' = (lost /\ view.kind = "none") /\ lost \in BOOLEAN BY DEF ShowAnswer, IInv
    <3>2. lost' = lost BY <2>1, <3>1
    <3>3. window' = window BY <2>1 DEF ShowAnswer
    <3> QED BY <1>2, <3>2, <3>3
  <2>3. IInv' BY <1>1, <2>2 DEF IInv, TextShown, CaretInText, InSight
  <2>4. ListShown => ListShown' BY <2>2 DEF ListShown
  <2> QED BY <2>1, <2>2, <2>3, <2>4
<1>3. CASE ShowsState(view, state')
  <2>1. /\ Shaped(window') /\ lost' = FALSE
        /\ window'.client = ComposedText(state')
        /\ window'.preedit = IF focus \in SupportsPreedit THEN <<>> ELSE ComposedText(state')
        /\ state'.kind = "inputting" /\ state'.buffer.string # <<>> =>
             window'.caret = Bytes(Before(state'.buffer))
        /\ Offered(state') =>
             /\ window'.words = Listed(StateView(state'))
             /\ window'.aux = IF Listed(StateView(state')) # <<>> /\ StateView(state').index >= 0
                              THEN <<StateView(state').index + 1, Len(Listed(StateView(state')))>>
                              ELSE <<>>
             /\ window'.highlight = IF Listed(StateView(state')) # <<>> /\ StateView(state').index >= 0
                                    THEN StateView(state').index ELSE -1
    BY <1>1, <1>3, WindowAfterView
  <2>2. TextShown' BY <2>1 DEF TextShown
  <2>3. CaretInText'
    <3>1. ASSUME state'.kind = "inputting", state'.buffer.string # <<>>
          PROVE  window'.caret = Bytes(SubSeq(Flat(window'.client), 1, state'.buffer.cursor))
      <4>1. Flat(window'.client) = state'.buffer.string BY <2>1, <3>1, TextOfTyping, FlatShown
      <4>2. Before(state'.buffer) = SubSeq(state'.buffer.string, 1, state'.buffer.cursor)
        BY DEF Before
      <4> QED BY <2>1, <3>1, <4>1, <4>2
    <3> QED BY <3>1 DEF CaretInText, InSight
  <2>4. Offered(state') => ListShown' BY <2>1 DEF ListShown
  <2> QED BY <1>1, <2>1, <2>2, <2>3, <2>4 DEF IInv
<1> QED BY <1>1, <1>2, <1>3, AnswerShowsState

\* A request: the state it leaves behind, and the answer shown.
LEMMA RequestStep ==
  ASSUME IInv, Answered, Outcome(state, state', CommittedBy(reply'.view)),
         ShowAnswer(reply'.view), UNCHANGED focus
  PROVE  /\ IInv'
         /\ PredictorOffersWords /\ Offered(state) => Offered(state')
         /\ PredictorOffersWords /\ Offered(state) /\ ListShown => ListShown'
         /\ ~lost => ~lost'
<1>1. GoodState(state) /\ Fresh(state) /\ GoodState(state') BY DEF IInv, Answered
<1>2. Fresh(state') BY <1>1, FreshOutcome
<1>3. PredictorOffersWords /\ Offered(state) => Offered(state') BY <1>1, OfferedOutcome
<1> QED BY <1>2, <1>3, AnswerStep

LEMMA KeyStep ==
  ASSUME IInv, NEW key \in Key, DoInput(key)
  PROVE  /\ Answered /\ Outcome(state, state', CommittedBy(reply'.view))
         /\ ShowAnswer(reply'.view) /\ UNCHANGED focus
<1>1. GoodState(state) /\ ProcessInput(key) /\ ShowAnswer(reply'.view) /\ UNCHANGED focus
  BY DEF IInv, DoInput, ProxyProcessInput
<1> QED BY <1>1, ProcessInputAnswers, KeyOutcome

LEMMA ClickStep ==
  ASSUME IInv, NEW i \in 0..(Len(window.words) - 1), CandidateWordCallback(i)
  PROVE  /\ Answered /\ Outcome(state, state', CommittedBy(reply'.view))
         /\ ShowAnswer(reply'.view) /\ UNCHANGED focus
         /\ SelectCandidate(i)
<1>1. /\ GoodState(state) /\ SelectCandidate(i) /\ ShowAnswer(reply'.view) /\ UNCHANGED focus
  BY DEF IInv, CandidateWordCallback, ProxySelectCandidate, PrivateIndex
<1>2. i \in Int OBVIOUS
<1> QED BY <1>1, <1>2, SelectCandidateAnswers, ClickOutcome

LEMMA ResetStep ==
  ASSUME IInv, ResetIM
  PROVE  IInv' /\ ListShown' /\ state' = EmptyInputting /\ committed' = <<>>
         /\ result' = "reset" /\ lost' = FALSE
<1>1. /\ state' = EmptyInputting /\ reply' = [consumed |-> FALSE, view |-> NoView]
      /\ lost' = FALSE /\ result' = "reset"
  BY DEF ResetIM, ResetIm
<1>2. window' = CleanInputWindow /\ committed' = <<>>
  <2>1. PICK v : v = [input |-> <<>>, committed_input |-> <<>>] OBVIOUS
  <2>2. v.input = <<>> /\ v.committed_input = <<>> BY <2>1
  <2>3. ShowEditing(v) BY <2>1 DEF ResetIM
  <2> QED BY <2>2, <2>3 DEF ShowEditing
<1>3. reply' \in Reply BY <1>1 DEF Reply, View
<1>4. TextShown' BY <1>1, <1>2, CleanFields, EmptyComposesNothing DEF TextShown
<1>5. CaretInText'
  <2>1. state'.buffer.string = <<>>
    BY <1>1, EmptyInputtingKind, EmptyComposesNothing, TextOfTyping
  <2> QED BY <2>1 DEF CaretInText
<1>6. ListShown'
  <2>1. Listed(StateView(EmptyInputting)) = <<>>
    BY EmptyInputtingGood, EmptyIsFresh, EmptyComposesNothing, NoTextNoList
  <2> QED BY <1>1, <1>2, <2>1, CleanFields DEF ListShown
<1> QED BY <1>1, <1>2, <1>3, <1>4, <1>5, <1>6, CleanFields, EmptyInputtingGood, EmptyIsFresh
    DEF IInv

\* A turned page leaves the texts and the list alone.
LEMMA TurnStep ==
  ASSUME IInv, TurnPage
  PROVE  /\ IInv' /\ (ListShown => ListShown')
         /\ state' = state /\ committed' = <<>> /\ result' = "turned"
<1>1. /\ state' = state /\ reply' = reply /\ focus' = focus /\ lost' = lost
      /\ committed' = <<>> /\ result' = "turned"
  BY DEF TurnPage, imeVars
<1>2. PICK page : window' = [window EXCEPT !.page = page] BY DEF TurnPage
<1>3. /\ Shaped(window') /\ window'.client = window.client
      /\ window'.preedit = window.preedit /\ window'.caret = window.caret
      /\ window'.words = window.words /\ window'.aux = window.aux
      /\ window'.highlight = window.highlight
  <2>1. PICK preedit, client, caret, words, old, highlight, aux :
          window = Window(preedit, client, caret, words, old, highlight, aux)
    BY Zenon DEF IInv, Shaped
  <2>2. window' = Window(preedit, client, caret, words, page, highlight, aux)
    BY <1>2, <2>1 DEF Window
  <2>3. Shaped(window') BY <2>2, Zenon DEF Shaped
  <2> QED BY <2>1, <2>2, <2>3, WindowFields
<1>4. TextShown' BY <1>1, <1>3 DEF IInv, TextShown
<1>5. CaretInText' BY <1>1, <1>3 DEF IInv, CaretInText, InSight
<1>6. ListShown => ListShown' BY <1>1, <1>3 DEF ListShown
<1> QED BY <1>1, <1>3, <1>4, <1>5, <1>6 DEF IInv

\* The window outlives the server.
LEMMA ReplacedStep ==
  ASSUME IInv, ServerReplaced
  PROVE  IInv' /\ ListShown' /\ state' = EmptyInputting /\ committed' = <<>> /\ result' = "none"
<1>1. /\ state' = EmptyInputting /\ lost' = TRUE /\ committed' = <<>> /\ result' = "none"
      /\ reply' = reply /\ window' = window /\ focus' = focus
  BY DEF ServerReplaced
<1>2. TextShown' /\ CaretInText' /\ ListShown' BY <1>1 DEF TextShown, CaretInText, ListShown
<1> QED BY <1>1, <1>2, EmptyInputtingGood, EmptyIsFresh DEF IInv

LEMMA SameStep ==
  ASSUME IInv, UNCHANGED vars
  PROVE  IInv' /\ (ListShown => ListShown') /\ state' = state
<1>1. /\ state' = state /\ reply' = reply /\ window' = window /\ focus' = focus
      /\ lost' = lost
  BY DEF vars
<1> QED BY <1>1 DEF IInv, TextShown, CaretInText, InSight, ListShown

LEMMA InitGood == Init => IInv /\ ListShown /\ Offered(state)
<1> SUFFICES ASSUME Init PROVE IInv /\ ListShown /\ Offered(state) OBVIOUS
<1>1. /\ state = EmptyInputting /\ reply = [consumed |-> FALSE, view |-> NoView]
      /\ window = BlankWindow /\ lost = FALSE
  BY DEF Init, ImeInit
<1>2. reply \in Reply BY <1>1 DEF Reply, View
<1>3. /\ Shaped(window) /\ window.client = <<>> /\ window.preedit = <<>>
      /\ window.words = <<>> /\ window.aux = <<>> /\ window.highlight = -1
  <2>1. BlankWindow = Window(<<>>, <<>>, 0, <<>>, 0, -1, <<>>) BY DEF BlankWindow, Window
  <2>2. Shaped(window) BY <1>1, <2>1, Zenon DEF Shaped
  <2> QED BY <1>1, <2>1, <2>2, WindowFields
<1>4. TextShown BY <1>1, <1>3, EmptyComposesNothing DEF TextShown
<1>5. CaretInText
  <2>1. state.buffer.string = <<>>
    BY <1>1, EmptyInputtingKind, EmptyComposesNothing, TextOfTyping
  <2> QED BY <2>1 DEF CaretInText
<1>6. ListShown
  <2>1. Listed(StateView(EmptyInputting)) = <<>>
    BY EmptyInputtingGood, EmptyIsFresh, EmptyComposesNothing, NoTextNoList
  <2> QED BY <1>1, <1>3, <2>1 DEF ListShown
<1> QED BY <1>1, <1>2, <1>3, <1>4, <1>5, <1>6, EmptyInputtingGood, EmptyIsFresh DEF IInv

LEMMA NextGood ==
  ASSUME IInv, [Next]_vars
  PROVE  /\ IInv'
         /\ PredictorOffersWords /\ Offered(state) /\ ListShown => Offered(state') /\ ListShown'
<1> DEFINE Goal == /\ IInv'
                   /\ PredictorOffersWords /\ Offered(state) /\ ListShown =>
                        Offered(state') /\ ListShown'
<1>1. ASSUME Answered, Outcome(state, state', CommittedBy(reply'.view)),
             ShowAnswer(reply'.view), UNCHANGED focus
      PROVE  Goal
  BY <1>1, RequestStep
<1>2. ASSUME NEW key \in Key, DoInput(key) PROVE Goal BY <1>1, <1>2, KeyStep
<1>3. ASSUME NEW i \in 0..(Len(window.words) - 1), CandidateWordCallback(i) PROVE Goal
  BY <1>1, <1>3, ClickStep
<1>4. CASE ResetIM BY <1>4, ResetStep, EmptyIsFresh
<1>5. CASE TurnPage BY <1>5, TurnStep
<1>6. CASE ServerReplaced BY <1>6, ReplacedStep, EmptyIsFresh
<1>7. CASE UNCHANGED vars BY <1>7, SameStep
<1> QED BY <1>2, <1>3, <1>4, <1>5, <1>6, <1>7 DEF Next

\* What an answer commits.
LEMMA AnswerCommits ==
  ASSUME IInv, Answered, ShowAnswer(reply'.view), committed' # <<>>
  PROVE  \/ committed' = InSight
         \/ committed' = <<FullSpace>> /\ (InSight = <<>> \/ lost)
<1> DEFINE view == reply'.view
<1>1. GoodState(state') /\ AnswerOf(state, state', view) BY DEF Answered
<1>2. lost => ComposedText(state) = <<>> BY EmptyComposesNothing DEF IInv
<1>3. ~lost => InSight = Flat(ComposedText(state)) BY DEF IInv, TextShown, InSight
<1>4. ASSUME view.kind = "editing" PROVE committed' = Flat(view.committed)
  <2>1. PICK v : v = ParseEditing(view) OBVIOUS
  <2>2. v.committed_input = Flat(view.committed) BY <2>1 DEF ParseEditing
  <2>3. ShowEditing(v) BY <1>4, <2>1 DEF ShowAnswer
  <2> QED BY <2>2, <2>3 DEF ShowEditing
<1>5. ASSUME NEW text, view = CommittingView(state', text) PROVE committed' = Flat(text)
  <2>1. view.kind = "editing" /\ view.committed = text BY <1>5 DEF CommittingView
  <2> QED BY <1>4, <2>1
<1>6. CASE view = NoView
  <2>1. view.kind = "none" BY <1>6 DEF NoView
  <2> QED BY <2>1 DEF ShowAnswer
<1>7. CASE view = StateView(state')
  <2>1. CASE state'.kind = "converting"
    <3>1. view.kind = "converting" BY <1>1, <1>7, <2>1, StateViewType
    <3> QED BY <3>1 DEF ShowAnswer, ShowConverting
  <2>2. CASE state'.kind # "converting"
    <3>1. view.kind = "editing" /\ view.committed = <<>>
      BY <1>1, <1>7, <2>2, StateViewType DEF EditingViews
    <3> QED BY <1>4, <3>1, FlatNothing
  <2> QED BY <2>1, <2>2
<1>8. CASE view = CommittingView(state', ComposedText(state))
  <2>1. committed' = Flat(ComposedText(state)) BY <1>5, <1>8
  <2> QED BY <1>2, <1>3, <2>1, FlatNothing
<1>9. CASE ComposedText(state) = <<>> /\ view = CommittingView(state', <<<<FullSpace>>>>)
  <2>1. committed' = <<FullSpace>> BY <1>5, <1>9, FlatOne
  <2> QED BY <1>3, <1>9, <2>1, FlatNothing
<1> QED BY <1>1, <1>6, <1>7, <1>8, <1>9 DEF AnswerOf

LEMMA NextCommits ==
  ASSUME IInv, Next, committed' # <<>>
  PROVE  \/ committed' = InSight
         \/ committed' = <<FullSpace>> /\ (InSight = <<>> \/ lost)
BY KeyStep, ClickStep, ResetStep, TurnStep, ReplacedStep, AnswerCommits DEF Next

\* What a click shows: the word clicked, or nothing else.
LEMMA ClickShows ==
  ASSUME IInv, Offered(state), ListShown, NEW i \in 0..(Len(window.words) - 1),
         CandidateWordCallback(i), ~lost, state.kind # "selecting"
  PROVE  LET place == IF state.kind = "converting" THEN state.current + 1 ELSE 1
         IN  window'.client[place] = window.words[i + 1]
<1>1. window.words = Listed(StateView(state)) BY DEF ListShown
<1>2. GoodState(state) BY DEF IInv
<1>3. SelectCandidate(i) /\ IInv' /\ ~lost' BY ClickStep, RequestStep
<1>4. window'.client = ComposedText(state') BY <1>3 DEF IInv, TextShown
<1>5. i \in 0..(Len(Listed(StateView(state))) - 1) BY <1>1
<1> QED BY <1>1, <1>2, <1>3, <1>4, <1>5, ClickText

\* A new input method has no predictions, and a prediction being selected is
\* not left by a click.
LEMMA ClickRefused ==
  ASSUME IInv, NEW i \in 0..(Len(window.words) - 1), CandidateWordCallback(i),
         lost \/ state.kind = "selecting"
  PROVE  result' = "process" /\ committed' = <<>> /\ UNCHANGED <<state, window>>
<1>1. SelectCandidate(i) BY ClickStep
<1>2. Pass
  <2>1. CASE state.kind = "selecting" BY <1>1, <2>1 DEF SelectCandidate
  <2>2. CASE lost
    <3>1. state.kind = "inputting" /\ Len(state.predictions) = 0
      BY <2>2, EmptySeq DEF IInv, EmptyInputting, InputtingWith
    <3>2. i \notin 0..(Len(state.predictions) - 1) BY <3>1
    <3> QED BY <1>1, <3>1, <3>2 DEF SelectCandidate
  <2> QED BY <2>1, <2>2
<1>3. reply' = [consumed |-> FALSE, view |-> NoView] /\ state' = state BY <1>2 DEF Pass
<1>4. ~reply'.consumed /\ reply'.view.kind = "none" BY <1>3 DEF NoView
<1>5. result' = "process" BY <1>4 DEF CandidateWordCallback
<1>6. committed' = <<>> /\ window' = window
  BY <1>4 DEF CandidateWordCallback, ProxySelectCandidate, ShowAnswer
<1> QED BY <1>3, <1>5, <1>6

-----------------------------------------------------------------------------
(* Theorems.                                                               *)

LEMMA Invariance == Spec => []IInv
<1>1. IInv /\ [Next]_vars => IInv' BY NextGood
<1> QED BY <1>1, InitGood, PTL DEF Spec

LEMMA ListInvariance ==
  ASSUME PredictorOffersWords
  PROVE  Spec => [](Offered(state) /\ ListShown)
<1>1. IInv /\ (Offered(state) /\ ListShown) /\ [Next]_vars => (Offered(state) /\ ListShown)'
  <2> SUFFICES ASSUME IInv, Offered(state), ListShown, [Next]_vars
               PROVE  Offered(state') /\ ListShown'
    BY DEF Offered
  <2> QED BY NextGood
<1> QED BY <1>1, InitGood, Invariance, PTL DEF Spec

\* With a predictor that offers words, the window shows the state of the input
\* method, its text where it belongs, its list and the position in it, until
\* a server is lost (Show and ResetIM in fcitx_senn.cpp).
THEOREM WindowNeverStale ==
  ASSUME PredictorOffersWords
  PROVE  Spec => []WindowShowsState
<1>1. IInv /\ Offered(state) /\ ListShown => WindowShowsState
  <2> SUFFICES ASSUME IInv, Offered(state), ListShown, ~lost
               PROVE  LET view == StateView(state)
                          text == IF view.kind = "converting" THEN view.forms ELSE view.input
                      IN  text = ComposedText(state)
    BY DEF WindowShowsState, IInv, TextShown, ListShown, Listed
  <2>1. GoodState(state) /\ ShowsState(StateView(state), state) BY DEF IInv, ShowsState
  <2>2. StateView(state).kind = "converting" => StateView(state).forms = ComposedText(state)
    BY <2>1, ViewOfState
  <2>3. StateView(state).kind = "editing" => StateView(state).input = ComposedText(state)
    BY <2>1, ViewOfState
  <2>4. StateView(state).kind \in {"editing", "converting"} BY <2>1, ViewOfState
  <2> QED BY <2>2, <2>3, <2>4
<1> QED BY <1>1, Invariance, ListInvariance, PTL

\* The caret, counted in bytes by the proxy, lies between two characters,
\* whatever their lengths (views_json.h, ShowEditing in fcitx_senn.cpp).
THEOREM CaretStaysInText == Spec => []CaretInText
<1>1. IInv => CaretInText BY DEF IInv
<1> QED BY <1>1, Invariance, PTL

\* With a predictor that offers words, a click puts the very word that was
\* clicked into the text in sight, whichever page it is on; or, while a
\* prediction is being selected and after the loss of a server, it is left to
\* the application and changes nothing (CandidateWordCallback in
\* fcitx_senn.cpp, select-candidate.lisp).
THEOREM ClickMeansItsWord ==
  ASSUME PredictorOffersWords
  PROVE  Spec => ClickedWordShown
<1> DEFINE Meant ==
      \A i \in 0..(Len(window.words) - 1) : CandidateWordCallback(i) =>
        IF lost \/ state.kind = "selecting"
        THEN result' = "process" /\ committed' = <<>> /\ UNCHANGED <<state, window>>
        ELSE LET place == IF state.kind = "converting" THEN state.current + 1 ELSE 1
             IN  window'.client[place] = window.words[i + 1]
<1>1. IInv /\ Offered(state) /\ ListShown => Meant BY ClickShows, ClickRefused
<1>2. IInv /\ (Offered(state) /\ ListShown) => [Meant]_vars
  <2> HIDE DEF Meant
  <2> QED BY <1>1
<1> QED BY <1>2, Invariance, ListInvariance, PTL DEF Spec, ClickedWordShown

\* What an application is given is the text that was in sight, or the space
\* typed without a text, and the text of a lost server is never committed
\* (DoInput in fcitx_senn.cpp, process-input.lisp).
THEOREM CommitsWhatIsInSight == Spec => CommitsInSight
<1> DEFINE Sound == committed' # <<>> =>
             \/ committed' = InSight
             \/ committed' = <<FullSpace>> /\ (InSight = <<>> \/ lost)
<1>1. IInv /\ Next => Sound BY NextCommits
<1>2. IInv /\ [Next]_vars => [Sound]_vars
  <2> HIDE DEF Sound
  <2> QED BY <1>1
<1> QED BY <1>2, Invariance, PTL DEF Spec, CommitsInSight
=============================================================================

------------------------------ MODULE Inputting ------------------------------
(***************************************************************************)
(* The state in which romaji is typed, shared by the fcitx, ibus and       *)
(* Windows input methods (senn/src/im/inputting.lisp): the buffer and the  *)
(* predictions last computed for it.                                       *)
(***************************************************************************)
EXTENDS RomajiBuffer

CONSTANTS
  Predict(_),        \* the predictor: string -> sequence of strings
  MaxCandidateCount, \* ime-max-candidate-count; nil is a count no list reaches
  MaxLen             \* bound of the model: the longest string composed

\* The strings the model composes; every string handed to the predictor or
\* the conversion engine is one of them.
Strings == UNION {[1..n -> Char] : n \in 0..MaxLen}

Fits(string) == Len(string) <= MaxLen

ASSUME InputtingAssumption ==
  /\ MaxLen \in Nat
  /\ MaxCandidateCount \in Nat
  /\ \A s \in Strings : Predict(s) \in Seq(String)

\* Predictors that offer words only.
PredictorOffersWords ==
  \A s \in Strings \ {<<>>} : \A i \in 1..Len(Predict(s)) : Predict(s)[i] # <<>>

InputtingState ==
  [kind : {"inputting"}, buffer : [string : Strings, cursor : Nat],
   predictions : Seq(String)]

InputtingWith(buffer, predictions) ==
  [kind |-> "inputting", buffer |-> buffer, predictions |-> predictions]

EmptyInputting == InputtingWith(EmptyBuffer, <<>>)

BufferEmpty(s) == s.buffer.string = <<>>

TakeFirst(list, n) == IF n < Len(list) THEN SubSeq(list, 1, n) ELSE list

\* The predictions of a string; the empty string has none.
ListPredictions(string) ==
  IF string = <<>> THEN <<>> ELSE TakeFirst(Predict(string), MaxCandidateCount)

\* state-predictions-update! after the buffer was replaced.
WithBuffer(buffer) == InputtingWith(buffer, ListPredictions(buffer.string))

InputtingInsert(s, ch) == WithBuffer(InsertChar(s.buffer, ch))

\* The deletion that keeps the predictions of the previous text.
InputtingDeleteStale(s) == [s EXCEPT !.buffer = DeleteChar(@)]

\* delete-char! of a non-empty buffer, wherever its cursor is.
InputtingDelete(s) == WithBuffer(DeleteChar(s.buffer))

\* Moving the cursor leaves the predictions alone.
InputtingLeft(s)  == [s EXCEPT !.buffer = MoveCursorLeft(@)]
InputtingRight(s) == [s EXCEPT !.buffer = MoveCursorRight(@)]

\* The text as it stands.
GetPronPlain(s) == s.buffer.string

\* The text handed to the conversion: a final n is completed by typing one
\* more n at the cursor.
GetPron(s) ==
  LET string == s.buffer.string
  IN  IF string[Len(string)] = LetterN
      THEN InsertChar(s.buffer, LetterN).string
      ELSE string
=============================================================================

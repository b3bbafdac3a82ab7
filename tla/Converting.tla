----------------------------- MODULE Converting -----------------------------
(***************************************************************************)
(* The state after a kana-kanji conversion, shared by the fcitx, ibus and  *)
(* Windows input methods (senn/src/im/converting.lisp): a row of segments, *)
(* one of them current, each with its candidates.  Indices are 0-based as  *)
(* in the code.  The conversion engine is a separate program: Conversions  *)
(* and CandidateLists are the answers it may give.                         *)
(***************************************************************************)
EXTENDS Inputting, Integers, FiniteSets

CONSTANTS
  KatakanaOf,        \* hiragana->katakana on one character
  Conversions(_),    \* pron -> the answers to a conversion request
  CandidateLists(_)  \* pron -> the answers to a candidate request

\* What is shown or committed: strings side by side, a string alone, and
\* nothing of the empty string.
Text == Seq(String)

Shown(string) == IF string = <<>> THEN <<>> ELSE <<string>>

\* What the engine says of one segment.
KkcSegment == [pron : Strings, candidates : Seq(String) \ {<<>>}]

ASSUME ConvertingAssumption ==
  /\ KatakanaOf \in [Char -> Char]
  /\ \A p \in Strings : /\ Conversions(p) \subseteq Seq(KkcSegment) \ {<<>>}
                        /\ CandidateLists(p) \subseteq Seq(String)

\* A list in which no form comes twice.
NoneTwice(list) == \A i, j \in 1..Len(list) : list[i] = list[j] => i = j

\* Engines that repeat no form in an answer.
EngineRepeatsNothing ==
  \A p \in Strings :
    /\ \A answer \in Conversions(p) : \A k \in 1..Len(answer) : NoneTwice(answer[k].candidates)
    /\ \A list \in CandidateLists(p) : NoneTwice(list)

\* Predictors that repeat no form either.
PredictorRepeatsNothing == \A string \in Strings : NoneTwice(Predict(string))

Segment == [pron : Strings, candidates : Seq(String), index : Nat,
            hasMore : BOOLEAN, katakana : BOOLEAN]

ConvertingState ==
  [kind : {"converting"}, segments : Seq(Segment), current : Nat, pron : Strings]

ToKatakana(string) == [i \in 1..Len(string) |-> KatakanaOf[string[i]]]

\* The form a segment shows and commits.
CurrentForm(seg) ==
  IF seg.katakana THEN ToKatakana(seg.pron) ELSE seg.candidates[seg.index + 1]

CurrentForms(s) == [i \in 1..Len(s.segments) |-> CurrentForm(s.segments[i])]

CurrentSegment(s) == s.segments[s.current + 1]

\* The k-th smallest member of a set of positions.
Nth(positions, k) ==
  CHOOSE i \in positions : Cardinality({j \in positions : j <= i}) = k

\* The strings of list that are not in other, in their order.
Unlisted(list, other) ==
  LET kept == {i \in 1..Len(list) : \A j \in 1..Len(other) : other[j] # list[i]}
  IN  [k \in 1..Cardinality(kept) |-> list[Nth(kept, k)]]

\* The engine's list first, in the engine's order.
PrependCandidates(current, new) == new \o Unlisted(current, new)

\* The new candidates that are not listed yet, after the listed ones.
AppendCandidates(current, new) == current \o Unlisted(new, current)

\* segment-ensure-candidates-appended!: the engine is asked once.
EnsureCandidatesReordered(seg, answer) ==
  IF seg.hasMore
  THEN [seg EXCEPT !.candidates = PrependCandidates(@, answer), !.hasMore = FALSE]
  ELSE seg

EnsureCandidatesAppended(seg, answer) ==
  IF seg.hasMore
  THEN [seg EXCEPT !.candidates = AppendCandidates(@, answer), !.hasMore = FALSE]
  ELSE seg

\* segment-cursor-pos-move!
MoveIndex(seg, diff) == [seg EXCEPT !.index = (@ + diff) % Len(seg.candidates)]

\* current-segment-candidates-move!
CandidatesMove(s, diff, answer) ==
  LET move(seg) ==
        [MoveIndex(EnsureCandidatesAppended(seg, answer), diff) EXCEPT !.katakana = FALSE]
  IN  [s EXCEPT !.segments[s.current + 1] = move(@)]

\* A click that counts the entries from one.
CandidatesSetFromOne(s, i) ==
  IF i \in 1..Len(CurrentSegment(s).candidates)
  THEN [s EXCEPT !.segments[s.current + 1].index = i - 1]
  ELSE s

\* current-segment-candidates-set!: an index outside the list is ignored and
\* the katakana flag is left as it is.
CandidatesSet(s, i) ==
  IF i \in 0..(Len(CurrentSegment(s).candidates) - 1)
  THEN [s EXCEPT !.segments[s.current + 1].index = i]
  ELSE s

SegmentMove(s, diff) ==
  IF s.current + diff \in 0..(Len(s.segments) - 1)
  THEN [s EXCEPT !.current = @ + diff]
  ELSE s

\* Katakana as one more candidate, past the end of the list.
CurrentKatakanaPastEnd(s) ==
  [s EXCEPT !.segments[s.current + 1].katakana = TRUE,
            !.segments[s.current + 1].index = Len(CurrentSegment(s).candidates)]

\* current-segment-katakana!
CurrentKatakana(s) == [s EXCEPT !.segments[s.current + 1].katakana = TRUE]

\* The state made from the engine's answer to a conversion of pron.
ConvertedWith(pron, answer) ==
  [kind |-> "converting",
   segments |-> [i \in 1..Len(answer) |->
                   [pron |-> answer[i].pron, candidates |-> answer[i].candidates,
                    index |-> 0, hasMore |-> TRUE, katakana |-> FALSE]],
   current |-> 0,
   pron |-> pron]
=============================================================================

--------------------------- MODULE MCFcitx5Engine ---------------------------
(***************************************************************************)
(* Small instances of Fcitx5Engine for TLC: the letters k, a, n with the   *)
(* rules of ja.lisp they take part in, also with a y, and an engine and a  *)
(* predictor that answer with one or two forms.  Hiragana are named h..,   *)
(* katakana k..                                                            *)
(***************************************************************************)
EXTENDS Fcitx5Engine, SequencesExt

MCTypedChar == {"k", "a", "n"}

MCChar == {"k", "a", "n", "y", "hA", "hKA", "hN", "hNA", "hTU", "hKI", "hNI", "hya", "hYA",
           "kA", "kKA", "kN", "kNA", "kTU", "K1", "K2", "FS"}

MCRules ==
  <<"a">> :> <<"hA">> @@ <<"k", "a">> :> <<"hKA">> @@ <<"n", "a">> :> <<"hNA">>
    @@ <<"n", "n">> :> <<"hN">> @@ <<"k", "k">> :> <<"hTU", "k">>
    @@ <<"y", "a">> :> <<"hYA">>
    @@ <<"k", "y", "a">> :> <<"hKI", "hya">> @@ <<"n", "y", "a">> :> <<"hNI", "hya">>

MCKatakanaOf ==
  [c \in MCChar |-> CASE c = "hA" -> "kA" [] c = "hKA" -> "kKA" [] c = "hN" -> "kN"
                      [] c = "hNA" -> "kNA" [] c = "hTU" -> "kTU" [] OTHER -> c]

\* The katakana predictor, and a dictionary entry for texts of one character.
MCPredict(s) ==
  IF Len(s) = 1
  THEN <<[i \in 1..Len(s) |-> MCKatakanaOf[s[i]]], <<"K1", s[1]>>>>
  ELSE <<[i \in 1..Len(s) |-> MCKatakanaOf[s[i]]]>>

\* The pronunciation itself, as after a failed request, or a kanji; a longer
\* text may also come back in two segments.
MCConversions(p) ==
  {<<[pron |-> p, candidates |-> <<p>>]>>, <<[pron |-> p, candidates |-> <<<<"K1">>>>]>>}
    \cup IF Len(p) < 2 THEN {} ELSE
      {<<[pron |-> <<p[1]>>, candidates |-> <<<<"K1">>>>],
         [pron |-> SubSeq(p, 2, Len(p)), candidates |-> <<<<"K2">>>>]>>}

\* No answer, or the kanji in either order before the pronunciation.
MCCandidateLists(p) ==
  {<<>>, SelectSeq(<<<<"K2">>, <<"K1">>>>, LAMBDA form : form # p) \o <<p>>}

Word(letters, meaning) == [romaji |-> letters, kana |-> meaning]

\* Words as they are spelled: an n before another consonant is a kana of its
\* own, a doubled consonant is a small tu.  nya is meant as its rule has it.
Words ==
  {Word(<<"a">>, <<"hA">>), Word(<<"k", "a">>, <<"hKA">>), Word(<<"n", "a">>, <<"hNA">>),
   Word(<<"n", "n">>, <<"hN">>), Word(<<"n", "k", "a">>, <<"hN", "hKA">>),
   Word(<<"k", "k", "a">>, <<"hTU", "hKA">>), Word(<<"k", "y", "a">>, <<"hKI", "hya">>),
   Word(<<"k", "k", "y", "a">>, <<"hTU", "hKI", "hya">>),
   Word(<<"n", "y", "a">>, <<"hNI", "hya">>),
   Word(<<"n", "n", "y", "a", "k", "a">>, <<"hN", "hYA", "hKA">>)}

\* A letter in front of the cursor that may become part of what is typed next.
LetterWaits(buffer) ==
  buffer.cursor > 0 /\ buffer.string[buffer.cursor] \in {"k", "a", "n", "y"}

\* Whatever keys, clicks and resets came before, typing the romaji of a word
\* puts exactly its kana at the cursor: the longest rule wins over the rules
\* it contains, a doubled consonant or an n is resolved by the letter that
\* follows, nothing merges with the text around it, and the cursor ends behind
\* it (insert-char in buffer.lisp).  The word nya is excepted: like nyu, nye
\* and nyo it leaves the text around it alone, but does not give its kana
\* (RulesReached in RomajiTyping).
KanaReadBack ==
  state.kind = "inputting" /\ ~LetterWaits(state.buffer) =>
    \A w \in Words :
      LET left == Before(state.buffer)
          typed == FoldLeft(InsertChar, state.buffer, w.romaji)
      IN  /\ After(typed) = After(state.buffer)
          /\ SubSeq(Before(typed), 1, Len(left)) = left
          /\ w.romaji # <<"n", "y", "a">> => Before(typed) = left \o w.kana

\* What some of the properties depend on.
ASSUME MCDataAssumption == TableCompletesN /\ PredictorOffersWords /\ EngineRepeatsNothing
=============================================================================

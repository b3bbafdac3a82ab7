--------------------------- MODULE MCFcitx4Engine ---------------------------
(***************************************************************************)
(* A small instance of Fcitx4Engine for TLC: the letters k and a, one      *)
(* application that draws preedits and one that does not, pages of two     *)
(* candidates, and lists of up to four.                                    *)
(***************************************************************************)
EXTENDS Fcitx4Engine, TLC

MCTypedChar == {"k", "a"}

MCChar == {"k", "a", "n", "hA", "hKA", "hN", "kA", "kKA", "kN", "K1", "K2", "FS"}

MCRules == <<"a">> :> <<"hA">> @@ <<"k", "a">> :> <<"hKA">>

MCKatakanaOf ==
  [c \in MCChar |-> CASE c = "hA" -> "kA" [] c = "hKA" -> "kKA" [] OTHER -> c]

MCWidth == [c \in MCChar |-> IF c \in {"k", "a", "n"} THEN 1 ELSE 3]

\* One word, or three, of the dictionary.
MCPredict(s) ==
  IF Len(s) = 1 THEN <<<<"K1">>, <<"K2", s[1]>>, <<"K1", "K2">>>> ELSE <<<<"K2">>>>

MCConversions(p) ==
  {<<[pron |-> p, candidates |-> <<<<"K1">>>>]>>}
    \cup IF Len(p) < 2 THEN {} ELSE
      {<<[pron |-> <<p[1]>>, candidates |-> <<<<"K1">>>>],
         [pron |-> SubSeq(p, 2, Len(p)), candidates |-> <<<<"K2">>>>]>>}

MCCandidateLists(p) == {<<>>, <<<<"K2">>, p>>, <<<<"K2">>, <<"K1">>, p, <<"FS">>>>}

\* What the theorems about the window and the commits depend on.
ASSUME MCDataAssumption == PredictorOffersWords
=============================================================================

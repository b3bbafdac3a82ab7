---------------------------- MODULE MCIbusEngine ----------------------------
(***************************************************************************)
(* Small instances of IbusEngine for TLC.  The ibus input method has no    *)
(* predictor.                                                              *)
(***************************************************************************)
EXTENDS IbusEngine, TLC

MCTypedChar == {"k", "a"}

Kanji == {"K01", "K02"}

MCChar == {"k", "a", "hA", "hKA", "hTU", "kA", "kKA", "kTU", "FS", "n", "hN"} \cup Kanji

MCRules ==
  <<"a">> :> <<"hA">> @@ <<"k", "a">> :> <<"hKA">> @@ <<"k", "k">> :> <<"hTU", "k">>

MCKatakanaOf ==
  [c \in MCChar |-> CASE c = "hA" -> "kA" [] c = "hKA" -> "kKA" [] c = "hTU" -> "kTU"
                      [] OTHER -> c]

MCPredict(s) == <<>>

MCConversions(p) ==
  {<<[pron |-> p, candidates |-> <<p>>]>>, <<[pron |-> p, candidates |-> <<<<"K01">>>>]>>}
    \cup IF Len(p) < 2 THEN {} ELSE
      {<<[pron |-> <<p[1]>>, candidates |-> <<<<"K01">>>>],
         [pron |-> SubSeq(p, 2, Len(p)), candidates |-> <<<<"K02">>>>]>>}

MCCandidateLists(p) == {<<>>, <<<<"K02">>, <<"K01">>, p>>}
=============================================================================

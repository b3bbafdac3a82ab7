--------------------------- MODULE MCRomajiTyping ---------------------------
(***************************************************************************)
(* A sample of the table of ja.lisp: a vowel, consonants with a vowel, the *)
(* two n, a doubled consonant, contracted sounds with and without an n in  *)
(* front, a symbol.                                                        *)
(***************************************************************************)
EXTENDS RomajiTyping, TLC

MCChar == {"k", "a", "n", "y", "dot",
           "hA", "hKA", "hN", "hNA", "hTU", "hKI", "hNI", "hya", "hYA", "hDOT"}

MCRules ==
  <<"a">> :> <<"hA">> @@ <<"k", "a">> :> <<"hKA">> @@ <<"n", "a">> :> <<"hNA">>
    @@ <<"n", "n">> :> <<"hN">> @@ <<"k", "k">> :> <<"hTU", "k">>
    @@ <<"y", "a">> :> <<"hYA">>
    @@ <<"k", "y", "a">> :> <<"hKI", "hya">> @@ <<"n", "y", "a">> :> <<"hNI", "hya">>
    @@ <<"dot">> :> <<"hDOT">>
=============================================================================

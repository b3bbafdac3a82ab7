--------------------------- MODULE MCTextService ---------------------------
(***************************************************************************)
(* Small instances of TextService for TLC: one letter with its rule and    *)
(* one symbol key that gives another character in each mode, pages of two  *)
(* candidates, two contexts, one kind of disturbance at a time.            *)
(***************************************************************************)
EXTENDS TextService, TLC

MCLetterKey == {"A"}

MCChar == {"a", "hA", "dash", "-", "K1", "K2", "CRLF", "n", "hN"}

MCRules == <<"a">> :> <<"hA">>

MCKeyChar ==
  [m \in Mode |-> [k \in TypedKey |->
     CASE k = "A" -> "a" [] m = "hiragana" -> "dash" [] OTHER -> "-"]]

MCKatakanaOf == [c \in MCChar |-> c]

MCLineBreak == <<<<"CRLF">>>>

MCPredict(s) == <<<<"K2">>>>

\* Kanji before the pronunciation.
KanjiThen(kanji, p) == SelectSeq(kanji, LAMBDA form : form # p) \o <<p>>

\* A kanji before the pronunciation; a longer text comes back in two segments.
MCConversions(p) ==
  IF Len(p) < 2 THEN {<<[pron |-> p, candidates |-> KanjiThen(<<<<"K1">>>>, p)]>>}
  ELSE {<<[pron |-> <<p[1]>>, candidates |-> <<<<"K1">>>>],
          [pron |-> SubSeq(p, 2, Len(p)), candidates |-> <<p>>]>>}

\* One more kanji among forms already known: two pages of two.
MCCandidateLists(p) == {KanjiThen(<<<<"K2">>, <<"K1">>>>, p)}

\* Refusals may come with a toggled mode; the other disturbances come alone.
MCCircumstances ==
  {{}, {"toggled"}, {"refused", "toggled"}, {"ended"}, {"moved"}, {"unstarted"}, {"threads"},
   {"uiless"}, {"unmanaged"}, {"lost"}, {"unread"}}

ContextsAlike == Permutations(Context)

MCToggled == {{"toggled"}}

\* What theorems about the text service assume of engine and predictor.
ASSUME MCDataAssumption == EngineRepeatsNothing /\ PredictorRepeatsNothing
=============================================================================

---------------------------- MODULE Fcitx4Engine ----------------------------
(***************************************************************************)
(* The fcitx4 front-end (senn/package/fcitx-senn/fcitx_senn.cpp) and the   *)
(* proxy that turns its calls into requests and the answers into views     *)
(* (src-cpp/fcitx/im/stateful_ime_proxy.cpp, views_json.h).  There is one  *)
(* input window for all input contexts, drawn by fcitx when the front-end  *)
(* says so, and one input method, in a server that may be replaced by a    *)
(* new one between two requests (ReconnectingClient).                      *)
(*                                                                         *)
(* A string of the front-end is a sequence of characters, and a position   *)
(* in it counts bytes.                                                     *)
(***************************************************************************)
EXTENDS FcitxIme

CONSTANTS
  InputContext,     \* the input contexts of the applications
  SupportsPreedit,  \* those that draw the preedit in their text
  PageSize,         \* the candidates on a page, a setting of fcitx
  Width             \* the length of each character in UTF-8

ASSUME WindowAssumption ==
  /\ SupportsPreedit \subseteq InputContext
  /\ PageSize \in Nat \ {0}
  /\ Width \in [Char -> 1..4]

VARIABLES
  window,     \* the input window
  focus,      \* the current input context
  committed,  \* the string given to the application by the last event
  result,     \* what the last call returned, or which one returned nothing
  lost        \* whether the server was replaced and no view came since

vars == <<state, reply, window, focus, committed, result, lost>>

Seqs == INSTANCE SequencesExt

BlankWindow ==
  [preedit |-> <<>>, client |-> <<>>, caret |-> 0,
   words |-> <<>>, page |-> 0, highlight |-> -1, aux |-> <<>>]

TypeOK ==
  /\ ImeTypeOK
  /\ window \in [preedit : Seq(String), client : Seq(String), caret : Nat,
                 words : Seq(String), page : Nat, highlight : Int, aux : Seq(Nat)]
  /\ window.words # <<>> => window.page * PageSize < Len(window.words)
  /\ focus \in InputContext
  /\ committed \in String
  /\ result \in {"none", "display", "nothing", "process", "reset", "turned"}
  /\ lost \in BOOLEAN

\* FcitxSennCreate makes the proxy and its input method.
Init ==
  /\ ImeInit
  /\ window = BlankWindow
  /\ focus \in InputContext
  /\ committed = <<>>
  /\ result = "none"
  /\ lost = FALSE

-----------------------------------------------------------------------------
(* What the proxy parses out of an answer.                                 *)

Flat(text) == Seqs!FlattenSeq(text)

Bytes(string) == Seqs!FoldSeq(LAMBDA c, n : n + Width[c], 0, string)

\* The length of what is left of the cursor, counted in characters.
ParseEditing_CaretInCharacters(view) ==
  [input |-> Flat(view.input), cursor_pos |-> Len(Flat(view.before)),
   committed_input |-> Flat(view.committed),
   predictions |-> view.predictions, prediction_index |-> view.index]

ParseEditing(view) ==
  [input |-> Flat(view.input), cursor_pos |-> Bytes(Flat(view.before)),
   committed_input |-> Flat(view.committed),
   predictions |-> view.predictions, prediction_index |-> view.index]

ParseConverting(view) ==
  [forms |-> view.forms, cursor_form_index |-> view.current,
   cursor_form_candidates |-> view.candidates, cursor_form_candidate_index |-> view.index]

-----------------------------------------------------------------------------
(* Show.                                                                   *)

\* FcitxInstanceCleanInputWindow leaves the position of the cursor.
CleanInputWindow == [BlankWindow EXCEPT !.caret = window.caret]

\* The page is the one of the index, if there is one.
ShowCandidateWordList(w, list, index) ==
  IF list = <<>> THEN w
  ELSE IF index \in 0..(Len(list) - 1)
  THEN [w EXCEPT !.words = list, !.page = index \div PageSize,
                 !.highlight = index, !.aux = <<index + 1, Len(list)>>]
  ELSE [w EXCEPT !.words = list]

\* The texts of a view go to the application, and to the window when the
\* application does not draw them.
Preedited(w, texts) ==
  [w EXCEPT !.client = texts, !.preedit = IF focus \in SupportsPreedit THEN <<>> ELSE texts]

ShowConverting(view) ==
  /\ window' = ShowCandidateWordList(Preedited(CleanInputWindow, view.forms),
                 view.cursor_form_candidates, view.cursor_form_candidate_index)
  /\ committed' = <<>>

ShowEditing_EmptyKeepsWindow(view) ==
  /\ committed' = view.committed_input
  /\ window' = IF view.input = <<>> THEN window
               ELSE [ShowCandidateWordList(Preedited(CleanInputWindow, <<view.input>>),
                       view.predictions, view.prediction_index) EXCEPT !.caret = view.cursor_pos]

\* Of an empty input nothing is drawn, not even the cursor.
ShowEditing(view) ==
  /\ committed' = view.committed_input
  /\ window' = IF view.input = <<>> THEN CleanInputWindow
               ELSE [ShowCandidateWordList(Preedited(CleanInputWindow, <<view.input>>),
                       view.predictions, view.prediction_index) EXCEPT !.caret = view.cursor_pos]

\* The type of an answer decides which handler the proxy calls, if any.
ShowAnswer(view) ==
  /\ \/ view.kind = "none" /\ committed' = <<>> /\ UNCHANGED window
     \/ view.kind = "editing" /\ ShowEditing(ParseEditing(view))
     \/ view.kind = "converting" /\ ShowConverting(ParseConverting(view))
  /\ lost' = (lost /\ view.kind = "none")

\* The proxy sends a request and calls a handler before it returns.
ProxyProcessInput(key) == ProcessInput(key) /\ ShowAnswer(reply'.view)

ProxySelectCandidate(i) == SelectCandidate(i) /\ ShowAnswer(reply'.view)

-----------------------------------------------------------------------------
(* The calls of fcitx.                                                     *)

\* IRV_TO_PROCESS, IRV_DISPLAY_CANDWORDS or IRV_DO_NOTHING.
DoInputResult(answer) ==
  IF ~answer.consumed THEN "process" ELSE IF answer.view.kind # "none" THEN "display" ELSE "nothing"

DoInput(key) ==
  /\ ProxyProcessInput(key)
  /\ result' = DoInputResult(reply')
  /\ UNCHANGED focus

OnPage(i) == i \in 0..(Len(window.words) - 1) /\ i \div PageSize = window.page

PrivateIndex_OnPage(i) == i % PageSize

\* What the front-end stores with the word at the position i of the list.
PrivateIndex(i) == i

\* A click on a word of the page in sight.
CandidateWordCallback(i) ==
  /\ OnPage(i)
  /\ ProxySelectCandidate(PrivateIndex(i))
  /\ result' = IF reply'.consumed THEN "display" ELSE "process"
  /\ UNCHANGED focus

\* ResetIM, which fcitx calls when the input ends or another input context
\* becomes the current one: the answer has no view, an empty one is shown.
ResetIM ==
  /\ ResetIm
  /\ ShowEditing([input |-> <<>>, committed_input |-> <<>>])
  /\ focus' \in InputContext
  /\ result' = "reset"
  /\ lost' = FALSE

\* fcitx turns the pages of the list by itself.
TurnPage ==
  /\ \E page \in 0..(Len(window.words) - 1) :
       /\ page * PageSize < Len(window.words)
       /\ page # window.page
       /\ window' = [window EXCEPT !.page = page]
  /\ committed' = <<>>
  /\ result' = "turned"
  /\ UNCHANGED <<imeVars, focus, lost>>

\* The server goes, and the next request meets the new input method of
\* another one.
ServerReplaced ==
  /\ state' = EmptyInputting
  /\ lost' = TRUE
  /\ committed' = <<>>
  /\ result' = "none"
  /\ UNCHANGED <<reply, window, focus>>

Next ==
  \/ \E key \in Key : DoInput(key)
  \/ \E i \in 0..(Len(window.words) - 1) : CandidateWordCallback(i)
  \/ ResetIM
  \/ TurnPage
  \/ ServerReplaced

Spec == Init /\ [][Next]_vars

-----------------------------------------------------------------------------
InSight == Flat(window.client)

\* The window, cleaned and filled piece by piece, shows the state of the input
\* method: its text in the right place, its list, the position in it and the
\* word highlighted, whatever pages were turned.  After the loss of a server it
\* may be a window of the past, until the next view.
WindowShowsState ==
  ~lost =>
    LET view == StateView(state)
        text == IF view.kind = "converting" THEN view.forms ELSE view.input
        list == IF view.kind = "converting" THEN view.candidates ELSE view.predictions
    IN  /\ window.client = text
        /\ window.preedit = IF focus \in SupportsPreedit THEN <<>> ELSE text
        /\ window.words = list
        /\ window.aux = IF list # <<>> /\ view.index >= 0 THEN <<view.index + 1, Len(list)>> ELSE <<>>
        /\ window.highlight = IF list # <<>> /\ view.index >= 0 THEN view.index ELSE -1

\* The cursor of a text being typed lies between two of its characters, left
\* of which is what the input method has there.  (A conversion leaves the
\* cursor wherever the text before it had it.)
CaretInText ==
  (~lost /\ state.kind = "inputting" /\ state.buffer.string # <<>>) =>
    window.caret = Bytes(SubSeq(InSight, 1, state.buffer.cursor))

\* A click puts the word clicked, wherever the pages are, into the text, but
\* for two cases: while a prediction is being selected with the keyboard, and
\* when the server was replaced and its list is still in sight.  Then the click
\* is not consumed (IRV_TO_PROCESS), and nothing changes: no other word is put
\* into the text (select-candidate.lisp, CandidateWordCallback).
ClickedWordShown ==
  [][\A i \in 0..(Len(window.words) - 1) : CandidateWordCallback(i) =>
       IF lost \/ state.kind = "selecting"
       THEN result' = "process" /\ committed' = <<>> /\ UNCHANGED <<state, window>>
       ELSE LET place == IF state.kind = "converting" THEN state.current + 1 ELSE 1
            IN  window'.client[place] = window.words[i + 1] ]_vars

\* Without the loss of a server, an application gets the text that was in
\* sight, or the space typed without a text.  Neither does a server that is
\* replaced commit what another one composed.
CommitsInSight ==
  [][committed' # <<>> =>
       \/ committed' = InSight
       \/ committed' = <<FullSpace>> /\ (InSight = <<>> \/ lost)]_vars
=============================================================================

---------------------------- MODULE TextService ----------------------------
(***************************************************************************)
(* The Windows text service (KeyEventHandler and TextService in            *)
(* senn/package/win/tip/text-service): it turns the views of the input     *)
(* method, which a proxy asks for over COM, into a composition of the      *)
(* application's document and a candidate list.  The document is changed   *)
(* in edit sessions, which the application may refuse.  The text services  *)
(* framework offers a key to OnKeyDown when OnTestKeyDown claimed it.      *)
(***************************************************************************)
EXTENDS WinIme, CandidateUI

CONSTANTS
  Circumstances,  \* what may happen around the service, in one life of it
  MaxRefusals,    \* bound of the model: the sessions refused in a row
  MaxDisturbed    \* bound of the model: the pronunciations remembered where more may
                  \* happen than toggles (MaxHistory otherwise)

\* What the user, the application and the system may do: toggle the mode while
\* text is composed, refuse edit sessions, fail to start a composition, end
\* one, move the focus to another context, draw lists themselves, have no
\* manager of such elements, start and end threads, lose the server, fail to
\* give the state of the keyboard.
Circumstance ==
  {"toggled", "refused", "unstarted", "ended", "moved", "uiless", "unmanaged", "threads", "lost",
   "unread"}

ASSUME ServiceAssumption ==
  /\ Circumstances \subseteq SUBSET Circumstance
  /\ {MaxRefusals, MaxDisturbed} \subseteq Nat

VARIABLES
  around,       \* what may happen this time
  focus,        \* the context keys go to
  composition,  \* composition_holder_ and its composition, or NoComposition
  committed,    \* the text the last event put into the document for good
  refusals,     \* the edit sessions refused since the last one that took place
  deaf,         \* whether the server is gone
  crash         \* the pointer whose use has ended the application, if any

docVars == <<focus, composition, committed, refusals, deaf, crash>>
vars == <<imeVars, uiVars, around, docVars>>

NoComposition == [kind |-> "none"]

\* A composition goes on until it is ended by the application.
Composition(text) == [kind |-> "live", context |-> focus, text |-> text]

TypeOK ==
  /\ ImeTypeOK /\ UITypeOK(String)
  /\ around \in Circumstances
  /\ focus \in Context
  /\ composition \in {NoComposition} \cup [kind : {"live", "ended"}, context : Context, text : Text]
  /\ committed \in Text
  /\ refusals \in 0..MaxRefusals
  /\ deaf \in BOOLEAN
  /\ crash \in {"none", "range", "composition", "element"}

Init ==
  /\ ImeInit /\ UIInit
  /\ around \in Circumstances
  /\ focus \in Context
  /\ composition = NoComposition
  /\ committed = <<>>
  /\ refusals = 0
  /\ deaf = FALSE
  /\ crash = "none"

-----------------------------------------------------------------------------
(* Edit sessions: DoEditSession and the functions of ui.cpp.               *)

\* The session leaves the document and the composition like this.
Edited(c, text, pointer) ==
  /\ composition' = c
  /\ committed' = text
  /\ crash' = pointer

\* What ReplaceTextInComposition can leave: a range that an ended composition
\* does not give is used all the same; of another context than the one that
\* granted the session nothing can be changed.
Replaced(text) ==
  LET Left(c, written, pointer) == [composition |-> c, written |-> written, pointer |-> pointer]
      changed == Left([composition EXCEPT !.text = text], text, "none")
  IN  IF composition.kind = "ended" THEN {changed, Left(composition, <<>>, "range")}
      ELSE IF composition.context = focus THEN {changed}
      ELSE {Left(composition, <<>>, "none")}

\* What InsertTextAndStartComposition can leave: the text may not be inserted,
\* or inserted without a composition.
Inserted(text) ==
  {[started |-> TRUE, left |-> <<>>]} \cup
    IF "unstarted" \in around THEN [started : {FALSE}, left : {<<>>, text}] ELSE {}

Start(text) ==
  \E i \in Inserted(text) :
    Edited(IF i.started THEN Composition(text) ELSE NoComposition, i.left, "none")

EditEditing_NonEmpty(view) ==
  IF view.input = <<>> THEN Edited(composition, <<>>, "none")
  ELSE IF composition = NoComposition THEN Start(view.input)
  ELSE \E r \in Replaced(view.input) : Edited(r.composition, <<>>, r.pointer)

\* An empty text ends the composition, another one starts it or replaces its
\* text.
EditEditing(view) ==
  IF composition = NoComposition
  THEN IF view.input = <<>> THEN Edited(NoComposition, <<>>, "none") ELSE Start(view.input)
  ELSE \E r \in Replaced(view.input) :
         Edited(IF view.input = <<>> /\ r.pointer = "none" THEN NoComposition ELSE r.composition,
                <<>>, r.pointer)

\* Only rewrites the composition there is.
EditConverting(view) ==
  IF composition = NoComposition THEN Edited(NoComposition, <<>>, "none")
  ELSE \E r \in Replaced(view.forms) : Edited(r.composition, <<>>, r.pointer)

\* The text is inserted; a composition that did not start is then ended all
\* the same, by a pointer nobody has set.
InsertAndEnd(text) ==
  \E i \in Inserted(text) :
    IF i.started THEN Edited(NoComposition, text, "none")
    ELSE \E pointer \in {"none", "composition"} : Edited(NoComposition, i.left, pointer)

EditCommitted_TextLeft(view) ==
  IF composition = NoComposition THEN InsertAndEnd(view.input)
  ELSE Edited(NoComposition, composition.text, "none")

EditCommitted_HolderKept(view) ==
  IF composition = NoComposition THEN InsertAndEnd(view.input)
  ELSE \E r \in Replaced(view.input) :
         Edited([r.composition EXCEPT !.kind = "ended"], r.written, r.pointer)

\* Ends the composition with the text, or inserts it where there is none.
EditCommitted(view) ==
  IF composition = NoComposition THEN InsertAndEnd(view.input)
  ELSE \E r \in Replaced(view.input) :
         Edited(IF r.pointer = "none" THEN NoComposition ELSE r.composition,
                r.written, r.pointer)

Refused ==
  /\ "refused" \in around
  /\ refusals < MaxRefusals /\ refusals' = refusals + 1
  /\ Edited(composition, <<>>, "none")

Granted == refusals' = 0

Session(DoEdit) == Refused \/ (Granted /\ DoEdit)

-----------------------------------------------------------------------------
(* Views: HandleIMEView.                                                   *)

\* The candidates are listed; a thread manager that manages no elements leaves
\* the handler without one, which it notifies all the same.
Listed(candidates, index) ==
  \/ "unmanaged" \notin around /\ UpdateList(focus, "uiless" \in around, candidates, index)
  \/ "unmanaged" \in around /\ crash' = "element" /\ UNCHANGED uiVars

\* The list is updated before the session is asked for.
HandleEditing(view) ==
  /\ Listed(view.predictions, -1)
  /\ IF "unmanaged" \in around THEN UNCHANGED <<composition, refusals>> /\ committed' = <<>>
     ELSE Session(EditEditing(view))

\* The list is left alone when the session is refused.
HandleConverting(view) ==
  \/ Refused /\ UNCHANGED uiVars
  \/ /\ Granted /\ EditConverting(view)
     /\ IF crash' # "none" THEN UNCHANGED uiVars ELSE Listed(view.candidates, view.index)

\* The list goes first.
HandleCommitted(view) ==
  /\ DestroyUI
  /\ Session(EditCommitted(view))

HandleIMEView(view) ==
  \/ view.kind = "editing" /\ HandleEditing(view)
  \/ view.kind = "converting" /\ HandleConverting(view)
  \/ view.kind = "committed" /\ HandleCommitted(view)

-----------------------------------------------------------------------------
(* The proxy: requests, and the handler an answer asks for.                *)

\* Without a server the answer is empty, and the truth values read out of it
\* are whatever they were.
ProxyCanProcess(key) == deaf \/ CanProcess(key)

ProxyProcessInput(key) ==
  \/ ~deaf /\ ProcessInput(key)
  \/ /\ deaf
     /\ reply' \in [eaten : BOOLEAN, view : {NoView}]
     /\ UNCHANGED <<state, mode, history>>

ProxyToggleInputMode ==
  /\ IF deaf THEN UNCHANGED <<state, mode, history>> ELSE ToggleInputMode
  /\ UNCHANGED reply

-----------------------------------------------------------------------------
(* Events.                                                                 *)

Undisturbed == committed' = <<>> /\ UNCHANGED <<uiVars, composition, refusals, crash>>

\* GetKeyboardState fails: the key is not eaten, and nobody is asked.
KeyUnread ==
  /\ "unread" \in around
  /\ reply' = [eaten |-> FALSE, view |-> NoView]
  /\ UNCHANGED <<state, mode, history>>

\* A key that was not eaten leads to no view.
OnKeyDown(key) ==
  /\ crash = "none"
  /\ ProxyCanProcess(key)
  /\ KeyUnread \/ ProxyProcessInput(key)
  /\ IF reply'.view = NoView THEN Undisturbed ELSE HandleIMEView(reply'.view)
  /\ around \subseteq {"toggled"} \/ Cardinality(DOMAIN history') <= MaxDisturbed
  /\ UNCHANGED <<around, focus, deaf>>

\* The hankaku/zenkaku key and the button of the language bar.
Toggle ==
  /\ crash = "none"
  /\ "toggled" \in around \/ composition = NoComposition
  /\ ProxyToggleInputMode
  /\ Undisturbed
  /\ UNCHANGED <<around, focus, deaf>>

\* The application tells the layout of a text; the window moves under the
\* composition, if the application knows where that is.
OnLayoutChange(context) ==
  /\ crash = "none"
  /\ ConcernsUI(context) /\ composition.kind = "live" /\ composition.context = context
  /\ Move
  /\ committed' = <<>>
  /\ UNCHANGED <<imeVars, around, focus, composition, refusals, deaf, crash>>

\* OnCompositionTerminated does nothing: the holder keeps the composition,
\* whose text the application has made its own.
OnCompositionTerminated ==
  /\ crash = "none"
  /\ "ended" \in around /\ composition.kind = "live"
  /\ composition' = [composition EXCEPT !.kind = "ended"]
  /\ committed' = composition.text
  /\ UNCHANGED <<imeVars, uiVars, around, focus, refusals, deaf, crash>>

\* The handler is not told where the focus is.
FocusMoves ==
  /\ crash = "none"
  /\ "moved" \in around
  /\ focus' \in Context \ {focus}
  /\ Undisturbed
  /\ UNCHANGED <<imeVars, around, deaf>>

ServerLost ==
  /\ crash = "none"
  /\ "lost" \in around /\ ~deaf
  /\ deaf' = TRUE
  /\ committed' = <<>>
  /\ UNCHANGED <<imeVars, uiVars, around, focus, composition, refusals, crash>>

\* Some thread of the application starts or ends.
ThreadChanges ==
  /\ crash = "none"
  /\ "threads" \in around
  /\ RegisterWindowClass \/ UnregisterWindowClass
  /\ committed' = <<>>
  /\ UNCHANGED <<imeVars, around, focus, composition, refusals, deaf, crash>>

Next ==
  \/ \E key \in Key : OnKeyDown(key)
  \/ Toggle
  \/ \E context \in Context : OnLayoutChange(context)
  \/ OnCompositionTerminated
  \/ FocusMoves
  \/ ServerLost
  \/ ThreadChanges

Spec == Init /\ [][Next]_vars

-----------------------------------------------------------------------------
\* What the state would show, and the list that belongs to it.
StateText(s) ==
  CASE s.kind = "direct"     -> <<>>
    [] s.kind = "inputting"  -> Shown(s.buffer.string)
    [] s.kind = "converting" -> CurrentForms(s)

StateList(s) ==
  CASE s.kind = "direct"     -> List(<<>>, -1)
    [] s.kind = "inputting"  -> List(s.predictions, -1)
    [] s.kind = "converting" ->
         List(ConvertingView(s).candidates, ConvertingView(s).index)

\* The composed text where the user works.
InSight == IF composition.kind = "live" /\ composition.context = focus THEN composition.text ELSE <<>>

\* The state :direct-state is only met in direct mode, as its methods assert
\* (win/im/process-input.lisp, win/im/toggle-input-mode.lisp), and in direct
\* mode nothing but text left from the hiragana mode is composed.
DirectStateInDirectMode == state.kind = "direct" => mode = "direct"

\* A granted session brings the document up to date, also after refused ones
\* and however the mode was toggled in between; only a conversion may be
\* missing from it altogether, when its composition was never started or has
\* ended.  Nothing brings it up to date when the application has ended the
\* composition or the focus has left it.
DocumentCatchesUp ==
  (refusals = 0 /\ around \cap {"ended", "moved", "unstarted"} = {} /\ crash = "none") =>
    InSight = StateText(state) \/ (state.kind = "converting" /\ composition = NoComposition)

\* The candidate list, while there is one, is that of the state, with each
\* form once, whatever was remembered and merged (history-apply,
\* append-candidates).  A window shows the page with the current candidate,
\* all of it and nothing below it, and highlights the form the conversion has
\* in the document, or nothing among predictions (DrawCandidates,
\* CalculateSize, NotifyUpdateUI).
WindowShowsState ==
  (refusals = 0 /\ list # NoList /\ crash = "none") =>
    /\ list = StateList(state)
    /\ \A i, j \in 1..Len(list.candidates) :
         list.candidates[i] = list.candidates[j] => i = j
    /\ ui.kind = "window" =>
         /\ window.shown <=> list.candidates # <<>>
         /\ window.shown =>
              /\ window.height = Len(window.rows)
              /\ state.kind = "converting" =>
                   window.rows[window.highlight + 1] = CurrentForm(CurrentSegment(state))
              /\ state.kind = "inputting" => window.highlight \notin 0..(Len(window.rows) - 1)

\* In hiragana mode the two lists of keys, in can-process and in
\* process-input, agree: a key claimed by OnTestKeyDown is eaten by OnKeyDown
\* and answered with a view, as long as there is a server.  The exception is a
\* key for which the state of the keyboard cannot be read: OnKeyDown gives it
\* back to the application, and then text, list and document are what they
\* were.
ClaimedKeysHandled ==
  [][\A key \in Key : (mode = "hiragana" /\ ~deaf /\ OnKeyDown(key)) =>
       \/ reply'.eaten /\ reply'.view # NoView
       \/ "unread" \in around /\ ~reply'.eaten /\ committed' = <<>>
            /\ UNCHANGED <<state, mode, history, uiVars, composition>>]_vars

\* What the user corrects once is not asked again: after a conversion is
\* committed, the remembered form of each of its pronunciations is one that
\* was just committed for it, and a new conversion starts with the remembered
\* forms.  A form stays remembered until another conversion of the same
\* pronunciation is committed.
CorrectionsRemembered ==
  [][/\ (state.kind = "converting" /\ reply'.view.kind = "committed" /\ reply' # reply) =>
          \A k \in 1..Len(state.segments) :
            \E j \in 1..Len(state.segments) :
              /\ state.segments[j].pron = state.segments[k].pron
              /\ history'[state.segments[k].pron] = CurrentForm(state.segments[j])
     /\ (state.kind = "inputting" /\ state'.kind = "converting") =>
          \A k \in 1..Len(state'.segments) :
            (Remembers /\ state'.segments[k].pron \in DOMAIN history) =>
              CurrentForm(state'.segments[k]) = history[state'.segments[k].pron]
     /\ \A pron \in DOMAIN history :
          \/ pron \in DOMAIN history' /\ history'[pron] = history[pron]
          \/ /\ state.kind = "converting" /\ reply'.view.kind = "committed"
             /\ \E k \in 1..Len(state.segments) : state.segments[k].pron = pron]_vars

\* Every text the input method commits is in the document afterwards, once and
\* where the user works, unless the session was refused or the composition it
\* was to replace is elsewhere.
CommitsArrive ==
  [][(/\ reply'.view.kind = "committed" /\ Granted /\ crash' = "none"
      /\ "unstarted" \notin around
      /\ \E key \in Key : OnKeyDown(key))
         => \/ committed' = reply'.view.input /\ composition' = NoComposition
            \/ composition.kind = "live" /\ composition.context # focus]_vars

\* What ends the application: a composition it has ended itself is replaced, a
\* composition that could not be started is ended, or there is no manager of
\* user interface elements.  Nothing else does.
CrashesHaveCauses ==
  /\ crash = "range" => "ended" \in around
  /\ crash = "composition" => "unstarted" \in around
  /\ crash = "element" => "unmanaged" \in around

\* While the mode is toggled only between texts and nothing goes wrong around
\* it, the text service keeps the promise of Composer: what is committed is
\* what was in sight, or a line break when nothing was composed.
Calm == around = {}

Promise == INSTANCE Composer WITH
  Texts <- Text, Space <- LineBreak,
  preedit <- IF Calm THEN InSight ELSE <<>>, committed <- IF Calm THEN committed ELSE <<>>

ImplementsComposer == Promise!Spec

\* "Composition must have started by the previous EditSessionCommitted"
\* (key_event_handler.cpp).
ConversionInComposition ==
  [][reply'.view.kind = "converting" /\ reply' # reply => composition # NoComposition]_vars
=============================================================================

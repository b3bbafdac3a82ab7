------------------------------- MODULE WinIme -------------------------------
(***************************************************************************)
(* The Windows input method (senn/src/win/stateful-ime.lisp and            *)
(* senn/src/win/im/): an input mode, a state, and the history of the forms *)
(* the user committed.  The Windows text service asks can-process before   *)
(* it sends process-input.                                                 *)
(***************************************************************************)
EXTENDS Converting

CONSTANTS
  TypedKey,   \* the keys of letters, digits and symbols, with or without Shift
  KeyChar,    \* mode -> typed key -> the character it gives
  LineBreak,  \* the text committed by Enter when nothing is composed
  Remembers,  \* whether the engine client is a history-overwrite-mixin
  MaxHistory  \* bound of the model: the pronunciations remembered

Mode == {"hiragana", "direct"}

SpecialKey == {"backspace", "enter", "space", "left", "up", "right", "down", "other"}

Key == TypedKey \cup SpecialKey

ASSUME WinAssumption ==
  /\ TypedKey \cap SpecialKey = {}
  /\ KeyChar \in [Mode -> [TypedKey -> Char]]
  /\ LineBreak \in Text
  /\ Remembers \in BOOLEAN
  /\ MaxHistory \in Nat

VARIABLES
  state,    \* input-state
  mode,     \* input-mode
  history,  \* pronunciation -> form, for the pronunciations committed
  reply     \* the answer to the last process-input

imeVars == <<state, mode, history, reply>>

-----------------------------------------------------------------------------
DirectState == [kind |-> "direct"]

State == {DirectState} \cup InputtingState \cup ConvertingState

NoView == [kind |-> "none"]

EditingView(s) ==
  [kind |-> "editing", input |-> Shown(s.buffer.string), predictions |-> s.predictions]

ConvertingView(s) ==
  LET seg == CurrentSegment(s)
  IN  [kind |-> "converting", forms |-> CurrentForms(s), current |-> s.current,
       candidates |-> IF seg.hasMore THEN <<>> ELSE seg.candidates,
       index |-> seg.index]

CommittedView(text) == [kind |-> "committed", input |-> text]

View ==
  {NoView} \cup [kind : {"committed"}, input : Text]
    \cup [kind : {"editing"}, input : Text, predictions : Seq(String)]
    \cup [kind : {"converting"}, forms : Text, current : Nat,
          candidates : Seq(String), index : Nat]

ImeTypeOK ==
  /\ state \in State
  /\ mode \in Mode
  /\ DOMAIN history \subseteq Strings /\ \A p \in DOMAIN history : history[p] \in String
  /\ reply \in [eaten : BOOLEAN, view : View]

-----------------------------------------------------------------------------
(* History.                                                                *)

\* A history that keeps what it learned first.
LearnOnce(segs) ==
  [p \in DOMAIN history \cup {segs[k].pron : k \in 1..Len(segs)} |->
     IF p \in DOMAIN history THEN history[p]
     ELSE CurrentForm(segs[CHOOSE k \in 1..Len(segs) : segs[k].pron = p])]

\* history-put of every committed segment, in order: the last segment with a
\* pronunciation decides.
Learn(segs) ==
  LET prons == {segs[k].pron : k \in 1..Len(segs)}
      last(p) == CHOOSE k \in 1..Len(segs) :
                   /\ segs[k].pron = p
                   /\ \A j \in (k + 1)..Len(segs) : segs[j].pron # p
  IN  [p \in DOMAIN history \cup prons |->
         IF p \in prons THEN CurrentForm(segs[last(p)]) ELSE history[p]]

\* history-apply: the remembered form first, and nowhere else.
Recall(answer) ==
  [k \in 1..Len(answer) |->
     IF Remembers /\ answer[k].pron \in DOMAIN history
     THEN [answer[k] EXCEPT !.candidates =
             PrependCandidates(@, <<history[answer[k].pron]>>)]
     ELSE answer[k]]

-----------------------------------------------------------------------------
(* can-process.                                                            *)

\* The version that claims the editing keys of an empty buffer too.
CanProcessEmpty(key) ==
  \/ mode = "direct" /\ state.kind \in {"inputting", "converting"}
  \/ /\ mode = "hiragana" /\ state.kind = "converting"
     /\ key \in {"enter", "space", "up", "down", "left", "right"}
  \/ /\ mode = "hiragana" /\ state.kind = "inputting"
     /\ key \in TypedKey \cup {"enter", "backspace", "space"}

\* In direct mode the composing states claim every key.  The state :direct
\* has no method for the hiragana mode; it never meets it.
CanProcess(key) ==
  \/ mode = "direct" /\ state.kind \in {"inputting", "converting"}
  \/ /\ mode = "hiragana" /\ state.kind = "converting"
     /\ key \in {"enter", "space", "up", "down", "left", "right"}
  \/ /\ mode = "hiragana" /\ state.kind = "inputting"
     /\ \/ key \in TypedKey \cup {"enter"}
        \/ key \in {"backspace", "space"} /\ ~BufferEmpty(state)

-----------------------------------------------------------------------------
(* process-input.                                                          *)

Respond(view, s) ==
  /\ reply' = [eaten |-> TRUE, view |-> view]
  /\ state' = s

\* result nil nil.
Ignore ==
  /\ reply' = [eaten |-> FALSE, view |-> NoView]
  /\ UNCHANGED <<state, history>>

DirectKey == state.kind = "direct" /\ Ignore

Convert(s) == Respond(ConvertingView(s), s) /\ UNCHANGED history

\* The commit that keeps the conversion in both modes.
ConvertingEnterKeeping(key) ==
  /\ key = "enter"
  /\ Respond(CommittedView(CurrentForms(state)), state)
  /\ history' = Learn(state.segments)
  /\ Cardinality(DOMAIN history') <= MaxHistory

\* In direct mode the state answered is nil: process-input then keeps the
\* state it has.
ConvertingEnter(key) ==
  /\ key = "enter"
  /\ Respond(CommittedView(CurrentForms(state)),
             IF mode = "hiragana" THEN EmptyInputting ELSE state)
  /\ history' = Learn(state.segments)
  /\ Cardinality(DOMAIN history') <= MaxHistory

ConvertingCandidate(key) ==
  \E answer \in CandidateLists(CurrentSegment(state).pron) :
    \/ key \in {"space", "down"} /\ Convert(CandidatesMove(state, 1, answer))
    \/ key = "up" /\ Convert(CandidatesMove(state, -1, answer))

ConvertingSegmentMove(key) ==
  \/ key = "left" /\ Convert(SegmentMove(state, -1))
  \/ key = "right" /\ Convert(SegmentMove(state, 1))

ConvertingKey(key) ==
  /\ state.kind = "converting"
  /\ \/ ConvertingEnter(key)
     \/ ConvertingCandidate(key)
     \/ ConvertingSegmentMove(key)
     \/ key \in TypedKey \cup {"backspace", "other"} /\ Ignore

Edit(s) == Respond(EditingView(s), s) /\ UNCHANGED history

\* Hiragana mode goes through the romaji table, direct mode does not.
InputtingChar(key) ==
  /\ key \in TypedKey
  /\ LET ch == KeyChar[mode][key]
         buffer == IF mode = "hiragana" THEN InsertChar(state.buffer, ch)
                   ELSE InsertCharDirect(state.buffer, ch)
     IN  Fits(buffer.string) /\ Edit(WithBuffer(buffer))

InputtingBackspace(key) ==
  /\ key = "backspace"
  /\ IF BufferEmpty(state) THEN Ignore ELSE Edit(InputtingDelete(state))

InputtingSpace(key) ==
  /\ key = "space"
  /\ IF BufferEmpty(state)
     THEN Ignore
     ELSE /\ Fits(GetPron(state))
          /\ \E answer \in Conversions(GetPron(state)) :
               Convert(ConvertedWith(GetPron(state), Recall(answer)))

\* The Enter that always leaves the composing states.
InputtingEnterDirect(key) ==
  /\ key = "enter"
  /\ Respond(CommittedView(IF BufferEmpty(state) THEN LineBreak
                           ELSE Shown(state.buffer.string)),
             DirectState)
  /\ UNCHANGED history

InputtingEnter(key) ==
  /\ key = "enter"
  /\ Respond(CommittedView(IF BufferEmpty(state) THEN LineBreak
                           ELSE Shown(state.buffer.string)),
             IF mode = "hiragana" THEN EmptyInputting ELSE DirectState)
  /\ UNCHANGED history

InputtingKey(key) ==
  /\ state.kind = "inputting"
  /\ \/ InputtingChar(key) \/ InputtingBackspace(key)
     \/ InputtingSpace(key) \/ InputtingEnter(key)
     \/ key \in {"left", "up", "right", "down", "other"} /\ Ignore

ProcessInput(key) ==
  /\ DirectKey \/ ConvertingKey(key) \/ InputtingKey(key)
  /\ UNCHANGED mode

-----------------------------------------------------------------------------
(* toggle-input-mode: a conversion is left alone; turning hiragana off with *)
(* text in the buffer keeps the text.                                       *)
ToggleInputMode ==
  /\ \/ /\ state.kind = "direct"
        /\ state' = EmptyInputting /\ mode' = "hiragana"
     \/ /\ state.kind = "inputting" /\ mode = "hiragana"
        /\ state' = IF BufferEmpty(state) THEN DirectState ELSE state
        /\ mode' = "direct"
     \/ /\ state.kind = "inputting" /\ mode = "direct"
        /\ mode' = "hiragana" /\ UNCHANGED state
     \/ /\ state.kind = "converting" /\ UNCHANGED <<state, mode>>
  /\ UNCHANGED history

ImeInit ==
  /\ state = DirectState
  /\ mode = "direct"
  /\ history = <<>>
  /\ reply = [eaten |-> FALSE, view |-> NoView]
=============================================================================

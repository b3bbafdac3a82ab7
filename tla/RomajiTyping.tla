---------------------------- MODULE RomajiTyping ----------------------------
(***************************************************************************)
(* A typist who types the romaji of the table letter by letter into an     *)
(* empty composition buffer (senn/src/im/buffer.lisp with the table of     *)
(* senn/src/ja.lisp).                                                      *)
(***************************************************************************)
EXTENDS RomajiBuffer

VARIABLES
  buffer,  \* the composition buffer
  typed    \* the letters typed so far, the beginning of a rule

vars == <<buffer, typed>>

TypeOK == BufferValid(buffer) /\ typed \in String

Init == buffer = EmptyBuffer /\ typed = <<>>

TypeLetter(c) ==
  /\ \E romaji \in DOMAIN Rules :
       Len(typed) < Len(romaji) /\ SubSeq(romaji, 1, Len(typed) + 1) = Append(typed, c)
  /\ typed' = Append(typed, c)
  /\ buffer' = InsertChar(buffer, c)

Next == \E c \in Char : TypeLetter(c)

Spec == Init /\ [][Next]_vars

-----------------------------------------------------------------------------
\* What the table says (ja.lisp, ("nya" "...") and every other line): a romaji
\* of the table, typed letter by letter, gives the kana the table has for it
\* (insert-char in buffer.lisp).
RulesReached ==
  typed \in DOMAIN Rules =>
    buffer = [string |-> Rules[typed], cursor |-> Len(Rules[typed])]
=============================================================================

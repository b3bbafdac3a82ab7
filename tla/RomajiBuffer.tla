---------------------------- MODULE RomajiBuffer ----------------------------
(***************************************************************************)
(* The composition buffer of senn (senn/src/im/buffer.lisp): a string with *)
(* a cursor into which Latin letters are typed and turned into kana.  A    *)
(* string is a sequence of characters; a buffer is the record of the       *)
(* defstruct, and every operation returns a new one.  The romaji table of  *)
(* senn/src/ja.lisp is the parameter Rules: the function from the romaji   *)
(* of each rule to its kana, so that a romaji outside its domain is one    *)
(* for which the hash table answers nil.                                   *)
(***************************************************************************)
EXTENDS Naturals, Sequences

CONSTANTS
  Char,     \* the characters: letters, kana, kanji, symbols
  Rules,    \* the romaji table: romaji string -> kana string
  LetterN,  \* the letter n
  KanaN     \* the kana that a lone n stands for

ASSUME RomajiAssumption ==
  /\ LetterN \in Char
  /\ KanaN \in Char
  /\ DOMAIN Rules \subseteq Seq(Char)
  /\ \A romaji \in DOMAIN Rules : Rules[romaji] \in Seq(Char)

String == Seq(Char)

\* Every rule has a kana, which does not leave a letter n behind, and a
\* second n completes the first (ja.lisp).
TableCompletesN ==
  /\ <<LetterN, LetterN>> \in DOMAIN Rules
  /\ \A romaji \in DOMAIN Rules :
       Rules[romaji] # <<>> /\ Rules[romaji][Len(Rules[romaji])] # LetterN

\* romaji->hiragana: whether the table has a rule, and what it answers.
HasRule(romaji) == romaji \in DOMAIN Rules
Hiragana(romaji) == Rules[romaji]

Buffer == [string : String, cursor : Nat]

\* A buffer whose cursor is a position of its string.
BufferValid(b) == b \in Buffer /\ b.cursor <= Len(b.string)

EmptyBuffer == [string |-> <<>>, cursor |-> 0]

Before(b) == SubSeq(b.string, 1, b.cursor)
After(b)  == SubSeq(b.string, b.cursor + 1, Len(b.string))

MaxDiff == 4

ReplaceNAtEnd(str) ==
  IF str # <<>> /\ str[Len(str)] = LetterN
  THEN SubSeq(str, 1, Len(str) - 1) \o <<KanaN>>
  ELSE str

InsertCharDirect(b, ch) ==
  [string |-> Before(b) \o <<ch>> \o After(b), cursor |-> b.cursor + 1]

\* What try-insertion looks up after diff steps back from the cursor.
TrySuffix(b, ch, diff) ==
  SubSeq(b.string, b.cursor - diff + 1, b.cursor) \o <<ch>>

\* The distances at which the table has a rule.
RuleDiffs(b, ch) ==
  {diff \in 0..MaxDiff : diff <= b.cursor /\ HasRule(TrySuffix(b, ch, diff))}

\* Replace the diff characters before the cursor by kana.
ReplaceBeforeCursor(b, diff, kana) ==
  [string |-> SubSeq(b.string, 1, b.cursor - diff) \o kana \o After(b),
   cursor |-> b.cursor - diff + Len(kana)]

\* The insertion that looks for the shortest romaji first.
InsertCharShortest(b, ch) ==
  IF RuleDiffs(b, ch) # {}
  THEN LET diff == CHOOSE d \in RuleDiffs(b, ch) : \A e \in RuleDiffs(b, ch) : d <= e
       IN  ReplaceBeforeCursor(b, diff, Hiragana(TrySuffix(b, ch, diff)))
  ELSE [string |-> ReplaceNAtEnd(Before(b)) \o <<ch>> \o After(b),
        cursor |-> b.cursor + 1]

\* try-insertion starts with the longest romaji and steps down to the
\* character alone; without a rule the character goes in as it is, and an n
\* left of it becomes the kana.
InsertChar(b, ch) ==
  IF RuleDiffs(b, ch) # {}
  THEN LET diff == CHOOSE d \in RuleDiffs(b, ch) : \A e \in RuleDiffs(b, ch) : d >= e
       IN  ReplaceBeforeCursor(b, diff, Hiragana(TrySuffix(b, ch, diff)))
  ELSE [string |-> ReplaceNAtEnd(Before(b)) \o <<ch>> \o After(b),
        cursor |-> b.cursor + 1]

DeleteChar(b) ==
  IF 0 < b.cursor
  THEN [string |-> SubSeq(b.string, 1, b.cursor - 1) \o After(b), cursor |-> b.cursor - 1]
  ELSE b

\* The move that does not stop at the start of the text.
MoveCursorLeftUnchecked(b) == [b EXCEPT !.cursor = @ - 1]

\* diff is -1 or +1; the two directions are the two operators.
MoveCursorLeft(b) ==
  IF 0 < b.cursor THEN [b EXCEPT !.cursor = @ - 1] ELSE b

MoveCursorRight(b) ==
  IF b.cursor < Len(b.string) THEN [b EXCEPT !.cursor = @ + 1] ELSE b
=============================================================================

------------------------------ MODULE DataProofs ------------------------------
(***************************************************************************)
(* What the operators on data return, for every table of rules, predictor  *)
(* and engine: the operations of the buffer, of the typing state and of a  *)
(* conversion, and the merging of lists of candidates.  The proofs about   *)
(* the fcitx and the Windows input methods rest on them.                   *)
(***************************************************************************)
EXTENDS Converting, SequenceTheorems, FiniteSetTheorems, WellFoundedInduction, TLAPS
(***************************************************************************)
(* The buffer and the typing state.                                        *)
(***************************************************************************)
\* The strings of the model are the strings of bounded length.
LEMMA StringsAreBounded ==
  ASSUME NEW s
  PROVE  s \in Strings <=> s \in String /\ Len(s) <= MaxLen
<1>1. ASSUME s \in Strings PROVE s \in String /\ Len(s) <= MaxLen
  <2>1. PICK n \in 0..MaxLen : s \in [1..n -> Char] BY <1>1 DEF Strings
  <2>2. MaxLen \in Nat BY InputtingAssumption
  <2> QED BY <2>1, <2>2 DEF String
<1>2. ASSUME s \in String, Len(s) <= MaxLen PROVE s \in Strings
  <2>1. s \in [1..Len(s) -> Char] /\ Len(s) \in Nat BY <1>2, LenProperties DEF String
  <2>2. Len(s) \in 0..MaxLen BY <2>1, <1>2, InputtingAssumption
  <2> QED BY <2>1, <2>2 DEF Strings
<1> QED BY <1>1, <1>2

\* A part of a string is a string, and how long it is.
LEMMA PartOfString ==
  ASSUME NEW s \in String, NEW m \in Nat \ {0}, NEW n \in Nat, n <= Len(s)
  PROVE  /\ SubSeq(s, m, n) \in String
         /\ Len(SubSeq(s, m, n)) = IF m <= n THEN n - m + 1 ELSE 0
<1>1. \A i \in m..n : s[i] \in Char BY LenProperties DEF String
<1> QED BY <1>1, SubSeqProperties DEF String

LEMMA BeforeAfter ==
  ASSUME NEW b \in Buffer, b.cursor <= Len(b.string)
  PROVE  /\ Before(b) \in String /\ Len(Before(b)) = b.cursor
         /\ After(b) \in String /\ Len(After(b)) = Len(b.string) - b.cursor
<1>1. b.string \in String /\ b.cursor \in Nat /\ Len(b.string) \in Nat
  BY LenProperties DEF Buffer, String
<1>2. SubSeq(b.string, 1, b.cursor) \in String
      /\ Len(SubSeq(b.string, 1, b.cursor)) = b.cursor
  BY <1>1, PartOfString
<1>3. b.cursor + 1 \in Nat \ {0} BY <1>1
<1>4. SubSeq(b.string, b.cursor + 1, Len(b.string)) \in String
      /\ Len(SubSeq(b.string, b.cursor + 1, Len(b.string))) = Len(b.string) - b.cursor
  BY <1>1, <1>3, PartOfString
<1> QED BY <1>2, <1>4 DEF Before, After

LEMMA ConcatStrings ==
  ASSUME NEW s \in String, NEW t \in String
  PROVE  s \o t \in String /\ Len(s \o t) = Len(s) + Len(t)
BY ConcatProperties DEF String

LEMMA OneCharString ==
  ASSUME NEW ch \in Char
  PROVE  <<ch>> \in String /\ Len(<<ch>>) = 1
BY DEF String

\* Turning an n at the end of a string into its kana keeps its length.
LEMMA ReplaceNKeepsLength ==
  ASSUME NEW s \in String
  PROVE  ReplaceNAtEnd(s) \in String /\ Len(ReplaceNAtEnd(s)) = Len(s)
<1>1. CASE s # <<>> /\ s[Len(s)] = LetterN
  <2>1. Len(s) \in Nat \ {0} BY <1>1, EmptySeq DEF String
  <2>2. SubSeq(s, 1, Len(s) - 1) \in String /\ Len(SubSeq(s, 1, Len(s) - 1)) = Len(s) - 1
    <3>1. PICK n \in Nat \ {0} : n = Len(s) BY <2>1
    <3>2. n - 1 \in Nat /\ n - 1 <= n /\ 1 \in Nat \ {0} BY <3>1
    <3>3. SubSeq(s, 1, n - 1) \in String
          /\ Len(SubSeq(s, 1, n - 1)) = IF 1 <= n - 1 THEN n - 1 - 1 + 1 ELSE 0
      BY <3>1, <3>2, PartOfString
    <3> QED BY <3>1, <3>3
  <2>3. <<KanaN>> \in String /\ Len(<<KanaN>>) = 1 BY OneCharString, RomajiAssumption
  <2>4. ReplaceNAtEnd(s) = SubSeq(s, 1, Len(s) - 1) \o <<KanaN>> BY <1>1 DEF ReplaceNAtEnd
  <2> QED BY <2>1, <2>2, <2>3, <2>4, ConcatStrings
<1>2. CASE ~(s # <<>> /\ s[Len(s)] = LetterN)
  BY <1>2 DEF ReplaceNAtEnd
<1> QED BY <1>1, <1>2

\* Where the table has a rule, try-insertion takes one of its distances.
LEMMA LongestRule ==
  ASSUME NEW b \in Buffer, b.cursor <= Len(b.string), NEW ch \in Char, RuleDiffs(b, ch) # {}
  PROVE  \E diff \in RuleDiffs(b, ch) :
           InsertChar(b, ch) = ReplaceBeforeCursor(b, diff, Hiragana(TrySuffix(b, ch, diff)))
<1> DEFINE D == RuleDiffs(b, ch)
           Longest(d) == d \in D /\ \A e \in D : d >= e
<1>1. D \subseteq 0..4 BY DEF RuleDiffs, MaxDiff
<1>2. \E d : Longest(d)
  <2>1. CASE 4 \in D BY <2>1, <1>1
  <2>2. CASE 4 \notin D /\ 3 \in D BY <2>2, <1>1
  <2>3. CASE 4 \notin D /\ 3 \notin D /\ 2 \in D BY <2>3, <1>1
  <2>4. CASE 4 \notin D /\ 3 \notin D /\ 2 \notin D /\ 1 \in D BY <2>4, <1>1
  <2>5. CASE 4 \notin D /\ 3 \notin D /\ 2 \notin D /\ 1 \notin D BY <2>5, <1>1
  <2> QED BY <2>1, <2>2, <2>3, <2>4, <2>5
<1>3. (CHOOSE d \in D : \A e \in D : d >= e) \in D BY <1>2
<1> QED BY <1>3 DEF InsertChar

\* insert-char returns a buffer whose cursor is a position of its string,
\* whatever the table says.
LEMMA InsertCharValid ==
  ASSUME NEW b, BufferValid(b), NEW ch \in Char
  PROVE  BufferValid(InsertChar(b, ch))
<1>1. /\ b \in Buffer /\ b.cursor <= Len(b.string)
      /\ b.string \in String /\ b.cursor \in Nat /\ Len(b.string) \in Nat
  BY LenProperties DEF BufferValid, Buffer, String
<1>2. /\ Before(b) \in String /\ Len(Before(b)) = b.cursor
      /\ After(b) \in String /\ Len(After(b)) = Len(b.string) - b.cursor
  BY <1>1, BeforeAfter
<1>3. CASE RuleDiffs(b, ch) # {}
  <2>1. PICK diff \in RuleDiffs(b, ch) :
          InsertChar(b, ch) = ReplaceBeforeCursor(b, diff, Hiragana(TrySuffix(b, ch, diff)))
    BY <1>1, <1>3, LongestRule
  <2> DEFINE kana == Hiragana(TrySuffix(b, ch, diff))
             left == SubSeq(b.string, 1, b.cursor - diff)
  <2>2. diff \in 0..4 /\ diff <= b.cursor BY DEF RuleDiffs, MaxDiff
  <2>3. kana \in String /\ Len(kana) \in Nat
    <3>1. TrySuffix(b, ch, diff) \in DOMAIN Rules BY DEF RuleDiffs, HasRule
    <3> QED BY <3>1, RomajiAssumption, LenProperties DEF Hiragana, String
  <2>4. left \in String /\ Len(left) = b.cursor - diff
    BY <1>1, <2>2, PartOfString
  <2>5. left \o kana \in String /\ Len(left \o kana) = b.cursor - diff + Len(kana)
    BY <2>3, <2>4, ConcatStrings
  <2>6. left \o kana \o After(b) \in String
        /\ Len(left \o kana \o After(b)) = b.cursor - diff + Len(kana) + Len(b.string) - b.cursor
    <3>1. (left \o kana) \o After(b) \in String
          /\ Len((left \o kana) \o After(b)) = Len(left \o kana) + Len(After(b))
      BY <2>5, <1>2, ConcatStrings
    <3> QED BY <3>1, <2>5, <1>2, <1>1, <2>2, <2>3
  <2>7. InsertChar(b, ch) = [string |-> left \o kana \o After(b),
                             cursor |-> b.cursor - diff + Len(kana)]
    BY <2>1 DEF ReplaceBeforeCursor
  <2>8. b.cursor - diff + Len(kana) \in Nat
        /\ b.cursor - diff + Len(kana) <= Len(left \o kana \o After(b))
    <3>1. diff \in Nat BY <2>2
    <3> HIDE DEF kana, left
    <3>2. b.cursor - diff + Len(kana) \in Nat BY <1>1, <2>2, <2>3, <3>1
    <3>3. 0 <= Len(b.string) - b.cursor BY <1>1
    <3> QED BY <1>1, <2>3, <2>6, <3>1, <3>2, <3>3
  <2> HIDE DEF kana, left
  <2> QED BY <2>6, <2>7, <2>8 DEF BufferValid, Buffer
<1>4. CASE RuleDiffs(b, ch) = {}
  <2> DEFINE left == ReplaceNAtEnd(Before(b))
  <2>1. left \in String /\ Len(left) = b.cursor BY <1>2, ReplaceNKeepsLength
  <2>2. <<ch>> \in String /\ Len(<<ch>>) = 1 BY OneCharString
  <2>3. left \o <<ch>> \in String /\ Len(left \o <<ch>>) = b.cursor + 1
    BY <2>1, <2>2, ConcatStrings
  <2>4. left \o <<ch>> \o After(b) \in String
        /\ Len(left \o <<ch>> \o After(b)) = b.cursor + 1 + Len(b.string) - b.cursor
    <3>1. (left \o <<ch>>) \o After(b) \in String
          /\ Len((left \o <<ch>>) \o After(b)) = Len(left \o <<ch>>) + Len(After(b))
      BY <2>3, <1>2, ConcatStrings
    <3> QED BY <3>1, <2>3, <1>2, <1>1
  <2>5. InsertChar(b, ch) = [string |-> left \o <<ch>> \o After(b), cursor |-> b.cursor + 1]
    BY <1>4 DEF InsertChar
  <2> HIDE DEF left
  <2> QED BY <1>1, <2>4, <2>5 DEF BufferValid, Buffer
<1> QED BY <1>3, <1>4

\* delete-char returns a valid buffer that lacks one character at most.
LEMMA DeleteCharValid ==
  ASSUME NEW b, BufferValid(b)
  PROVE  /\ BufferValid(DeleteChar(b))
         /\ Len(DeleteChar(b).string) <= Len(b.string)
         /\ Len(b.string) <= Len(DeleteChar(b).string) + 1
<1>1. /\ b \in Buffer /\ b.cursor <= Len(b.string)
      /\ b.string \in String /\ b.cursor \in Nat /\ Len(b.string) \in Nat
  BY LenProperties DEF BufferValid, Buffer, String
<1>2. CASE 0 < b.cursor
  <2> DEFINE left == SubSeq(b.string, 1, b.cursor - 1)
  <2>1. left \in String /\ Len(left) = b.cursor - 1 BY <1>1, <1>2, PartOfString
  <2>2. After(b) \in String /\ Len(After(b)) = Len(b.string) - b.cursor BY <1>1, BeforeAfter
  <2>3. left \o After(b) \in String /\ Len(left \o After(b)) = Len(b.string) - 1
    BY <1>1, <1>2, <2>1, <2>2, ConcatStrings
  <2>4. DeleteChar(b) = [string |-> left \o After(b), cursor |-> b.cursor - 1]
    BY <1>2 DEF DeleteChar
  <2> HIDE DEF left
  <2> QED BY <1>1, <1>2, <2>3, <2>4 DEF BufferValid, Buffer
<1>3. CASE ~(0 < b.cursor)
  BY <1>1, <1>3 DEF DeleteChar, BufferValid
<1> QED BY <1>2, <1>3

\* Moving the cursor keeps the text and stays in it.
LEMMA MoveCursorValid ==
  ASSUME NEW b, BufferValid(b)
  PROVE  /\ BufferValid(MoveCursorLeft(b)) /\ MoveCursorLeft(b).string = b.string
         /\ BufferValid(MoveCursorRight(b)) /\ MoveCursorRight(b).string = b.string
<1>1. b \in Buffer /\ b.cursor <= Len(b.string) /\ b.cursor \in Nat /\ Len(b.string) \in Nat
  BY LenProperties DEF BufferValid, Buffer, String
<1> QED BY <1>1 DEF MoveCursorLeft, MoveCursorRight, BufferValid, Buffer

(***************************************************************************)
(* append-candidates of converting.lisp returns a list of strings that     *)
(* starts with the list it was given.                                      *)
(***************************************************************************)
\* Every non-empty set of naturals has a least member: among the initial
\* segments of the naturals that end in it, one contains no other.
LEMMA LeastNatural ==
  ASSUME NEW S \in SUBSET Nat, S # {}
  PROVE  \E m \in S : \A k \in S : m <= k
<1> DEFINE T == {0..i : i \in S}
           R == StrictSubsetOrdering(Nat)
           F == FiniteSubsetsOf(Nat)
<1>1. T \subseteq F
  <2>1. ASSUME NEW i \in S PROVE 0..i \in F
    <3>1. IsFiniteSet(0..i) BY FS_Interval
    <3> QED BY <3>1 DEF FiniteSubsetsOf
  <2> QED BY <2>1
<1>2. T # {} OBVIOUS
<1>3. IsWellFoundedOn(R, F) BY FS_StrictSubsetOrderingWellFounded
<1>4. \E x \in T : \A y \in T : ~(<<y, x>> \in R)
  <2> HIDE DEF T, R, F
  <2> QED BY <1>1, <1>2, <1>3, WFMin
<1>5. PICK m \in S : \A y \in T : ~(<<y, 0..m>> \in R) BY <1>4
<1>6. ASSUME NEW k \in S, ~(m <= k) PROVE FALSE
  <2>1. k < m /\ k \in Nat /\ m \in Nat BY <1>6
  <2>2. 0..k \subseteq 0..m /\ 0..k # 0..m
    <3>1. m \in 0..m /\ m \notin 0..k BY <2>1
    <3> QED BY <2>1, <3>1
  <2>3. <<0..k, 0..m>> \in R BY <2>1, <2>2 DEF StrictSubsetOrdering
  <2> QED BY <1>5, <2>3
<1> QED BY <1>6

\* Counting the members of a set of positions up to i reaches every number up
\* to the size of the set, and reaches it at a member.
LEMMA NthExists ==
  ASSUME NEW n \in Nat, NEW K \in SUBSET (1..n), NEW k \in 1..Cardinality(K)
  PROVE  \E i \in K : Cardinality({j \in K : j <= i}) = k
<1> DEFINE UpTo(i) == {j \in K : j <= i}
           S == {i \in 0..n : k <= Cardinality(UpTo(i))}
<1>0. \A j \in K : j \in Nat /\ 1 <= j /\ j <= n /\ ~(j <= 0) OBVIOUS
<1>1. IsFiniteSet(K) /\ Cardinality(K) \in Nat
  <2>1. IsFiniteSet(1..n) BY FS_Interval
  <2>2. IsFiniteSet(K) BY <2>1, FS_Subset
  <2> QED BY <2>2, FS_CardinalityType
<1>2. \A i \in Nat : IsFiniteSet(UpTo(i)) /\ Cardinality(UpTo(i)) \in Nat
  <2>1. ASSUME NEW i \in Nat PROVE IsFiniteSet(UpTo(i))
    BY <1>1, FS_Subset
  <2> QED BY <2>1, FS_CardinalityType
<1>3. n \in S
  <2>1. UpTo(n) = K BY <1>0
  <2> QED BY <2>1, <1>1
<1>4. PICK m \in S : \A i \in S : m <= i
  <2>1. S \in SUBSET Nat /\ S # {} BY <1>3
  <2> HIDE DEF S
  <2> QED BY <2>1, LeastNatural
<1>5. m # 0
  <2>1. UpTo(0) = {} BY <1>0
  <2>2. Cardinality(UpTo(0)) = 0 BY <2>1, FS_EmptySet
  <2> QED BY <2>2, <1>1
<1>6. m \in Nat /\ m - 1 \in Nat /\ m - 1 \in 0..n /\ m - 1 \notin S
  <2>1. m \in 0..n BY <1>4
  <2>2. m \in Nat /\ m - 1 \in Nat /\ m - 1 \in 0..n /\ ~(m <= m - 1) BY <2>1, <1>5
  <2> HIDE DEF S
  <2> QED BY <2>2, <1>4
<1>7. Cardinality(UpTo(m - 1)) < k
  <2>1. Cardinality(UpTo(m - 1)) \in Nat BY <1>2, <1>6
  <2> QED BY <1>6, <2>1, <1>1
<1>8. CASE m \in K
  <2>1. UpTo(m) = UpTo(m - 1) \cup {m}
    <3>1. \A j \in K : j <= m <=> j <= m - 1 \/ j = m BY <1>0, <1>6
    <3> QED BY <3>1, <1>8
  <2>2. m \notin UpTo(m - 1) BY <1>6
  <2>3. Cardinality(UpTo(m)) = Cardinality(UpTo(m - 1)) + 1
    <3>1. IsFiniteSet(UpTo(m - 1)) BY <1>2, <1>6
    <3> HIDE DEF UpTo
    <3> QED BY <2>1, <2>2, <3>1, FS_AddElement
  <2>4. k <= Cardinality(UpTo(m)) BY <1>4
  <2>5. Cardinality(UpTo(m - 1)) \in Nat BY <1>2, <1>6
  <2> HIDE DEF UpTo
  <2>6. Cardinality(UpTo(m)) = k BY <2>3, <2>4, <2>5, <1>7, <1>1
  <2> USE DEF UpTo
  <2> QED BY <2>6, <1>8
<1>9. CASE m \notin K
  <2>1. UpTo(m) = UpTo(m - 1)
    <3>1. \A j \in K : j <= m <=> j <= m - 1 BY <1>0, <1>6, <1>9
    <3> QED BY <3>1
  <2>2. k <= Cardinality(UpTo(m)) BY <1>4
  <2>3. Cardinality(UpTo(m - 1)) \in Nat BY <1>2, <1>6
  <2> HIDE DEF UpTo
  <2> QED BY <2>1, <2>2, <2>3, <1>7, <1>1
<1> QED BY <1>8, <1>9

\* The positions up to i of what is not in the other list.
UnlistedUpTo(list, other, i) ==
  {j \in 1..Len(list) : j <= i /\ \A m \in 1..Len(other) : other[m] # list[j]}

\* What remains of a list of strings: each item is one of its items that are
\* not in the other list, and the k-th of them is in the k-th place.
LEMMA UnlistedItems ==
  ASSUME NEW list \in Seq(String), NEW other \in Seq(String)
  PROVE  /\ Unlisted(list, other) \in Seq(String)
         /\ \A k \in 1..Len(Unlisted(list, other)) :
              \E i \in 1..Len(list) :
                /\ Unlisted(list, other)[k] = list[i]
                /\ \A j \in 1..Len(other) : other[j] # list[i]
                /\ k = Cardinality(UnlistedUpTo(list, other, i))
<1> DEFINE kept == {i \in 1..Len(list) : \A j \in 1..Len(other) : other[j] # list[i]}
           UpTo(i) == {j \in kept : j <= i}
<1>1. Len(list) \in Nat /\ kept \in SUBSET (1..Len(list)) BY LenProperties
<1>2. Cardinality(kept) \in Nat
  <2>1. IsFiniteSet(1..Len(list)) BY <1>1, FS_Interval
  <2> HIDE DEF kept
  <2>2. IsFiniteSet(kept) BY <2>1, <1>1, FS_Subset
  <2> QED BY <2>2, FS_CardinalityType
<1>3. ASSUME NEW k \in 1..Cardinality(kept)
      PROVE  /\ Nth(kept, k) \in kept /\ Nth(kept, k) \in 1..Len(list)
             /\ Cardinality(UpTo(Nth(kept, k))) = k
             /\ list[Nth(kept, k)] \in String
  <2>1. \E i \in kept : Cardinality({j \in kept : j <= i}) = k
    <3> HIDE DEF kept
    <3> QED BY <1>1, NthExists
  <2>2. Nth(kept, k) \in kept /\ Cardinality(UpTo(Nth(kept, k))) = k BY <2>1 DEF Nth
  <2>3. Nth(kept, k) \in 1..Len(list) BY <1>1, <2>2
  <2> QED BY <2>2, <2>3, ElementOfSeq
<1>4. \A i : UpTo(i) = UnlistedUpTo(list, other, i) BY DEF UnlistedUpTo
<1>5. \A i \in kept : i \in 1..Len(list) /\ \A j \in 1..Len(other) : other[j] # list[i]
  OBVIOUS
<1>6. Unlisted(list, other) = [k \in 1..Cardinality(kept) |-> list[Nth(kept, k)]]
  BY DEF Unlisted
<1> HIDE DEF kept, UpTo
<1>7. [k \in 1..Cardinality(kept) |-> list[Nth(kept, k)]] \in [1..Cardinality(kept) -> String]
  BY <1>3
<1>8. Unlisted(list, other) \in Seq(String) /\ Len(Unlisted(list, other)) = Cardinality(kept)
  <2>1. ASSUME NEW n \in Nat, NEW f \in [1..n -> String]
        PROVE  f \in Seq(String) /\ Len(f) = n
    OBVIOUS
  <2> QED BY <1>2, <1>6, <1>7, <2>1
<1>9. ASSUME NEW k \in 1..Len(Unlisted(list, other))
      PROVE  \E i \in 1..Len(list) :
                /\ Unlisted(list, other)[k] = list[i]
                /\ \A j \in 1..Len(other) : other[j] # list[i]
                /\ k = Cardinality(UnlistedUpTo(list, other, i))
  <2>1. Unlisted(list, other)[k] = list[Nth(kept, k)] BY <1>6, <1>8
  <2>2. Nth(kept, k) \in kept /\ Nth(kept, k) \in 1..Len(list)
        /\ k = Cardinality(UpTo(Nth(kept, k)))
    BY <1>3, <1>8
  <2> QED BY <1>4, <1>5, <2>1, <2>2
<1> QED BY <1>8, <1>9

\* Appending candidates keeps the list it is given as a prefix, so that every
\* index into it still names the same form.
LEMMA AppendCandidatesExtends ==
  ASSUME NEW current \in Seq(String), NEW new \in Seq(String)
  PROVE  /\ AppendCandidates(current, new) \in Seq(String)
         /\ Len(current) <= Len(AppendCandidates(current, new))
         /\ \A i \in 1..Len(current) : AppendCandidates(current, new)[i] = current[i]
<1>1. Unlisted(new, current) \in Seq(String) BY UnlistedItems
<1>2. Len(current) \in Nat /\ Len(Unlisted(new, current)) \in Nat
  BY <1>1, LenProperties
<1>3. /\ current \o Unlisted(new, current) \in Seq(String)
      /\ Len(current \o Unlisted(new, current)) = Len(current) + Len(Unlisted(new, current))
      /\ \A i \in 1..(Len(current) + Len(Unlisted(new, current))) :
           (current \o Unlisted(new, current))[i] =
             IF i <= Len(current) THEN current[i] ELSE Unlisted(new, current)[i - Len(current)]
  BY <1>1, ConcatProperties
<1> QED BY <1>2, <1>3 DEF AppendCandidates

\* Lists that repeat nothing make one that repeats nothing.
LEMMA AppendRepeatsNothing ==
  ASSUME NEW current \in Seq(String), NEW new \in Seq(String),
         NoneTwice(current), NoneTwice(new)
  PROVE  NoneTwice(AppendCandidates(current, new))
<1> DEFINE more == Unlisted(new, current)
           all == AppendCandidates(current, new)
           UpTo(i) == UnlistedUpTo(new, current, i)
<1>1. /\ more \in Seq(String)
      /\ \A k \in 1..Len(more) : \E i \in 1..Len(new) :
           /\ more[k] = new[i] /\ \A j \in 1..Len(current) : current[j] # new[i]
           /\ k = Cardinality(UpTo(i))
  BY UnlistedItems
<1>2. Len(current) \in Nat /\ Len(more) \in Nat BY <1>1, LenProperties
<1>3. /\ Len(all) = Len(current) + Len(more)
      /\ \A i \in 1..Len(all) :
           all[i] = IF i <= Len(current) THEN current[i] ELSE more[i - Len(current)]
  BY <1>1, ConcatProperties DEF AppendCandidates
<1>4. ASSUME NEW k \in 1..Len(more), NEW l \in 1..Len(more), more[k] = more[l]
      PROVE  k = l
  <2> HIDE DEF UpTo
  <2>1. PICK i \in 1..Len(new) : more[k] = new[i] /\ k = Cardinality(UpTo(i)) BY <1>1
  <2>2. PICK j \in 1..Len(new) : more[l] = new[j] /\ l = Cardinality(UpTo(j)) BY <1>1
  <2>3. i = j BY <1>4, <2>1, <2>2 DEF NoneTwice
  <2> QED BY <2>1, <2>2, <2>3
<1>5. ASSUME NEW j \in 1..Len(current), NEW k \in 1..Len(more)
      PROVE  current[j] # more[k]
  BY <1>1
<1> HIDE DEF more, all
<1>6. ASSUME NEW i \in 1..Len(all), NEW j \in 1..Len(all), all[i] = all[j]
      PROVE  i = j
  <2>1. CASE i <= Len(current) /\ j <= Len(current)
    <3>1. i \in 1..Len(current) /\ j \in 1..Len(current) BY <2>1, <1>2, <1>3
    <3>2. current[i] = current[j] BY <1>3, <1>6, <2>1
    <3> QED BY <3>1, <3>2 DEF NoneTwice
  <2>2. CASE i <= Len(current) /\ ~(j <= Len(current))
    <3>1. i \in 1..Len(current) /\ j - Len(current) \in 1..Len(more) BY <2>2, <1>2, <1>3
    <3>2. current[i] = more[j - Len(current)] BY <1>3, <1>6, <2>2
    <3> QED BY <3>1, <3>2, <1>5
  <2>3. CASE ~(i <= Len(current)) /\ j <= Len(current)
    <3>1. j \in 1..Len(current) /\ i - Len(current) \in 1..Len(more) BY <2>3, <1>2, <1>3
    <3>2. current[j] = more[i - Len(current)] BY <1>3, <1>6, <2>3
    <3> QED BY <3>1, <3>2, <1>5
  <2>4. CASE ~(i <= Len(current)) /\ ~(j <= Len(current))
    <3>1. i - Len(current) \in 1..Len(more) /\ j - Len(current) \in 1..Len(more)
      BY <2>4, <1>2, <1>3
    <3>2. more[i - Len(current)] = more[j - Len(current)] BY <1>3, <1>6, <2>4
    <3>3. i - Len(current) = j - Len(current) BY <3>1, <3>2, <1>4
    <3> QED BY <3>3, <1>2, <1>3
  <2> QED BY <2>1, <2>2, <2>3, <2>4
<1> QED BY <1>6 DEF NoneTwice, all

LEMMA FirstOnesRepeatNothing ==
  ASSUME NEW list \in Seq(String), NoneTwice(list), NEW n \in Nat
  PROVE  NoneTwice(TakeFirst(list, n))
<1>1. CASE n < Len(list)
  <2>1. Len(list) \in Nat /\ \A i \in 1..n : i \in 1..Len(list) /\ list[i] \in String
    BY <1>1, LenProperties
  <2>2. Len(SubSeq(list, 1, n)) = n /\ \A i \in 1..n : SubSeq(list, 1, n)[i] = list[i]
    BY <2>1, SubSeqProperties
  <2>3. NoneTwice(SubSeq(list, 1, n)) BY <2>1, <2>2 DEF NoneTwice
  <2> QED BY <1>1, <2>3 DEF TakeFirst
<1>2. CASE ~(n < Len(list)) BY <1>2 DEF TakeFirst
<1> QED BY <1>1, <1>2

-----------------------------------------------------------------------------
\* A typing state with its cursor in its text, and a conversion whose indices
\* are positions of their lists.
GoodTyping(s) ==
  /\ s \in InputtingState
  /\ s.buffer.cursor \in 0..Len(s.buffer.string)

GoodConversion(s) ==
  /\ s \in ConvertingState
  /\ s.current \in 0..(Len(s.segments) - 1)
  /\ \A k \in 1..Len(s.segments) :
       s.segments[k].index \in 0..(Len(s.segments[k].candidates) - 1)

-----------------------------------------------------------------------------
(* The typing state.                                                       *)

LEMMA EmptyBufferValid == BufferValid(EmptyBuffer) /\ Len(EmptyBuffer.string) = 0
<1>1. <<>> \in String /\ Len(<<>>) = 0 BY EmptySeq DEF String
<1> QED BY <1>1 DEF EmptyBuffer, BufferValid, Buffer

LEMMA TypingIsGood ==
  ASSUME NEW b, BufferValid(b), Fits(b.string), NEW predictions \in Seq(String)
  PROVE  GoodTyping(InputtingWith(b, predictions))
<1>1. b \in Buffer /\ b.string \in String /\ b.cursor \in 0..Len(b.string) /\ b.cursor \in Nat
  BY LenProperties DEF BufferValid, Buffer, String
<1>2. b.string \in Strings BY <1>1, StringsAreBounded DEF Fits
<1>3. b \in [string : Strings, cursor : Nat] BY <1>1, <1>2 DEF Buffer
<1> QED BY <1>1, <1>3 DEF GoodTyping, InputtingWith, InputtingState

LEMMA EmptyTyping == GoodTyping(EmptyInputting)
<1>1. <<>> \in Seq(String) OBVIOUS
<1>2. Fits(EmptyBuffer.string) BY EmptyBufferValid, InputtingAssumption DEF Fits
<1> QED BY <1>1, <1>2, EmptyBufferValid, TypingIsGood DEF EmptyInputting

LEMMA TypingBuffer ==
  ASSUME NEW s, GoodTyping(s)
  PROVE  /\ s \in InputtingState
         /\ s = InputtingWith(s.buffer, s.predictions)
         /\ s.predictions \in Seq(String)
         /\ BufferValid(s.buffer) /\ Fits(s.buffer.string)
         /\ s.buffer.string \in Strings
<1>1. s \in InputtingState BY DEF GoodTyping
<1>2. s.buffer.string \in String /\ Len(s.buffer.string) <= MaxLen
  BY <1>1, StringsAreBounded DEF InputtingState
<1>3. s.buffer \in Buffer BY <1>1, <1>2 DEF InputtingState, Buffer
<1>4. s.buffer.cursor <= Len(s.buffer.string) BY DEF GoodTyping
<1> QED BY <1>1, <1>2, <1>3, <1>4 DEF InputtingState, InputtingWith, BufferValid, Fits

LEMMA TakeFirstType ==
  ASSUME NEW list \in Seq(String), NEW n \in Nat
  PROVE  TakeFirst(list, n) \in Seq(String)
<1>1. Len(list) \in Nat /\ \A i \in 1..Len(list) : list[i] \in String BY LenProperties
<1>2. CASE n < Len(list)
  <2>1. \A i \in 1..n : list[i] \in String BY <1>1, <1>2
  <2>2. SubSeq(list, 1, n) \in Seq(String) BY <2>1, SubSeqProperties
  <2> QED BY <1>2, <2>2 DEF TakeFirst
<1>3. CASE ~(n < Len(list)) BY <1>3 DEF TakeFirst
<1> QED BY <1>2, <1>3

LEMMA PredictionsType ==
  ASSUME NEW string \in Strings
  PROVE  ListPredictions(string) \in Seq(String)
<1>1. <<>> \in Seq(String) OBVIOUS
<1>2. Predict(string) \in Seq(String) /\ MaxCandidateCount \in Nat BY InputtingAssumption
<1> QED BY <1>1, <1>2, TakeFirstType DEF ListPredictions

LEMMA TypedIsGood ==
  ASSUME NEW b, BufferValid(b), Fits(b.string)
  PROVE  GoodTyping(WithBuffer(b))
<1>1. b.string \in Strings BY StringsAreBounded DEF BufferValid, Buffer, Fits
<1> QED BY <1>1, PredictionsType, TypingIsGood DEF WithBuffer

LEMMA PronOfTyping ==
  ASSUME NEW s, GoodTyping(s)
  PROVE  GetPron(s) \in String
<1>1. BufferValid(InsertChar(s.buffer, LetterN))
  BY TypingBuffer, InsertCharValid, RomajiAssumption
<1>2. InsertChar(s.buffer, LetterN).string \in String BY <1>1 DEF BufferValid, Buffer
<1>3. s.buffer.string \in String BY TypingBuffer, StringsAreBounded
<1> QED BY <1>2, <1>3 DEF GetPron

-----------------------------------------------------------------------------
(* The converting state.                                                   *)

LEMMA ShownType ==
  ASSUME NEW string \in String
  PROVE  Shown(string) \in Text
<1>1. <<>> \in Seq(String) /\ <<string>> \in Seq(String) OBVIOUS
<1> QED BY <1>1 DEF Shown, Text

LEMMA KatakanaType ==
  ASSUME NEW string \in Strings
  PROVE  ToKatakana(string) \in Strings
<1>1. string \in String /\ Len(string) \in Nat /\ Len(string) <= MaxLen
  BY StringsAreBounded, LenProperties DEF String
<1>2. \A i \in 1..Len(string) : KatakanaOf[string[i]] \in Char
  BY <1>1, ConvertingAssumption, LenProperties DEF String
<1>3. ToKatakana(string) \in [1..Len(string) -> Char] BY <1>2 DEF ToKatakana
<1>4. Len(string) \in 0..MaxLen BY <1>1, InputtingAssumption
<1> QED BY <1>3, <1>4 DEF Strings

LEMMA ConversionParts ==
  ASSUME NEW s, GoodConversion(s)
  PROVE  /\ s \in ConvertingState
         /\ s.segments \in Seq(Segment) /\ Len(s.segments) \in Nat
         /\ s.current \in 0..(Len(s.segments) - 1)
         /\ s.current + 1 \in 1..Len(s.segments)
         /\ \A k \in 1..Len(s.segments) :
              /\ s.segments[k] \in Segment
              /\ s.segments[k].index \in 0..(Len(s.segments[k].candidates) - 1)
         /\ s.pron \in Strings
         /\ s.kind = "converting"
<1>1. s \in ConvertingState BY DEF GoodConversion
<1>2. s.segments \in Seq(Segment) /\ s.pron \in Strings /\ s.kind = "converting"
  BY <1>1 DEF ConvertingState
<1>3. Len(s.segments) \in Nat /\ \A k \in 1..Len(s.segments) : s.segments[k] \in Segment
  BY <1>2, LenProperties
<1> QED BY <1>1, <1>2, <1>3 DEF GoodConversion

LEMMA FormType ==
  ASSUME NEW seg \in Segment, seg.index \in 0..(Len(seg.candidates) - 1)
  PROVE  CurrentForm(seg) \in String
<1>1. ToKatakana(seg.pron) \in String
  BY KatakanaType, StringsAreBounded DEF Segment
<1>2. seg.candidates \in Seq(String) /\ Len(seg.candidates) \in Nat
  BY LenProperties DEF Segment
<1>3. seg.index + 1 \in 1..Len(seg.candidates) BY <1>2
<1>4. seg.candidates[seg.index + 1] \in String BY <1>2, <1>3, ElementOfSeq
<1> QED BY <1>1, <1>4 DEF CurrentForm

LEMMA FormsOfConversion ==
  ASSUME NEW s, GoodConversion(s)
  PROVE  CurrentForms(s) \in Text /\ Len(CurrentForms(s)) = Len(s.segments)
<1>1. Len(s.segments) \in Nat
      /\ \A k \in 1..Len(s.segments) : CurrentForm(s.segments[k]) \in String
  BY ConversionParts, FormType
<1>2. CurrentForms(s) \in [1..Len(s.segments) -> String] BY <1>1 DEF CurrentForms
<1> QED BY <1>1, <1>2 DEF Text

\* Replacing the current segment by a good one gives a good state.
LEMMA SegmentReplaced ==
  ASSUME NEW s, GoodConversion(s),
         NEW seg \in Segment, seg.index \in 0..(Len(seg.candidates) - 1)
  PROVE  /\ GoodConversion([s EXCEPT !.segments[s.current + 1] = seg])
         /\ [s EXCEPT !.segments[s.current + 1] = seg].kind = "converting"
<1> DEFINE c == s.current + 1
           segs == [s.segments EXCEPT ![c] = seg]
           t == [s EXCEPT !.segments[s.current + 1] = seg]
<1>1. /\ s \in ConvertingState /\ s.segments \in Seq(Segment) /\ c \in 1..Len(s.segments)
      /\ Len(s.segments) \in Nat /\ s.current \in 0..(Len(s.segments) - 1)
  BY ConversionParts
<1>2. /\ segs \in Seq(Segment) /\ Len(segs) = Len(s.segments)
      /\ \A k \in 1..Len(s.segments) : segs[k] = IF k = c THEN seg ELSE s.segments[k]
  BY <1>1, ExceptSeq
<1>3. /\ t \in ConvertingState /\ t.kind = "converting" /\ t.segments = segs
      /\ t.current = s.current
  BY <1>1, <1>2 DEF ConvertingState
<1>4. \A k \in 1..Len(segs) : segs[k].index \in 0..(Len(segs[k].candidates) - 1)
  BY <1>2, ConversionParts
<1> HIDE DEF t, segs, c
<1>5. GoodConversion(t) BY <1>1, <1>2, <1>3, <1>4 DEF GoodConversion
<1> QED BY <1>3, <1>5 DEF t

\* Moving through the candidates stays in the list, however long the answer
\* of the engine made it.
LEMMA CandidatesMoved ==
  ASSUME NEW s, GoodConversion(s),
         NEW diff \in {1, -1}, NEW answer \in Seq(String)
  PROVE  /\ GoodConversion(CandidatesMove(s, diff, answer))
         /\ CandidatesMove(s, diff, answer).kind = "converting"
<1> DEFINE seg == s.segments[s.current + 1]
           asked == EnsureCandidatesAppended(seg, answer)
           moved == [MoveIndex(asked, diff) EXCEPT !.katakana = FALSE]
<1>1. /\ seg \in Segment /\ seg.index \in 0..(Len(seg.candidates) - 1)
      /\ seg.candidates \in Seq(String) /\ Len(seg.candidates) \in Nat
  BY ConversionParts, LenProperties DEF Segment
<1>2. /\ asked \in Segment /\ asked.index = seg.index /\ asked.index \in Nat
      /\ asked.candidates \in Seq(String) /\ Len(asked.candidates) \in Nat \ {0}
  <2>1. CASE seg.hasMore
    <3>1. /\ AppendCandidates(seg.candidates, answer) \in Seq(String)
          /\ Len(seg.candidates) <= Len(AppendCandidates(seg.candidates, answer))
      BY <1>1, AppendCandidatesExtends
    <3>2. Len(AppendCandidates(seg.candidates, answer)) \in Nat \ {0}
      BY <1>1, <3>1, LenProperties
    <3> HIDE DEF seg
    <3>3. asked = [seg EXCEPT !.candidates = AppendCandidates(seg.candidates, answer),
                              !.hasMore = FALSE]
      BY <2>1 DEF EnsureCandidatesAppended
    <3> QED BY <1>1, <3>1, <3>2, <3>3 DEF Segment
  <2>2. CASE ~seg.hasMore
    <3>1. asked = seg BY <2>2 DEF EnsureCandidatesAppended
    <3> HIDE DEF seg, asked
    <3> QED BY <1>1, <3>1 DEF Segment
  <2> QED BY <2>1, <2>2
<1> HIDE DEF asked, seg
<1>3. (asked.index + diff) % Len(asked.candidates) \in 0..(Len(asked.candidates) - 1)
  <2>1. ASSUME NEW a \in Int, NEW n \in Nat \ {0} PROVE a % n \in 0..(n - 1)
    OBVIOUS
  <2>2. asked.index + diff \in Int BY <1>2
  <2> QED BY <2>1, <2>2, <1>2
<1>4. PICK n \in 0..(Len(asked.candidates) - 1) :
        n = (asked.index + diff) % Len(asked.candidates)
  BY <1>3
<1>5. moved = [asked EXCEPT !.index = n, !.katakana = FALSE]
  BY <1>4 DEF MoveIndex
<1>6. /\ moved \in Segment /\ moved.candidates = asked.candidates
      /\ moved.index = n
  <2>1. n \in Nat BY <1>2
  <2>2. asked \in Segment BY <1>2
  <2> HIDE DEF moved
  <2>3. /\ moved.index = n /\ moved.candidates = asked.candidates
        /\ moved \in Segment
    BY <1>5, <2>1, <2>2 DEF Segment
  <2> QED BY <2>3
<1>7. CandidatesMove(s, diff, answer) = [s EXCEPT !.segments[s.current + 1] = moved]
  BY DEF CandidatesMove, seg, asked
<1> HIDE DEF moved
<1> QED BY <1>4, <1>6, <1>7, SegmentReplaced

\* What moving through the candidates changes: the current segment shows a
\* candidate of the full list, the other segments stay.
LEMMA SegmentsMoved ==
  ASSUME NEW s, GoodConversion(s),
         NEW diff \in {1, -1}, NEW answer \in Seq(String),
         NEW k \in 1..Len(CandidatesMove(s, diff, answer).segments)
  PROVE  LET old == s.segments[k]
             new == CandidatesMove(s, diff, answer).segments[k]
         IN  /\ k \in 1..Len(s.segments)
             /\ \/ new = old
                \/ /\ new.hasMore = FALSE /\ new.katakana = FALSE
                   /\ new.candidates \in
                        {old.candidates, AppendCandidates(old.candidates, answer)}
<1> DEFINE c == s.current + 1
           seg == s.segments[c]
           asked == EnsureCandidatesAppended(seg, answer)
           moved == [MoveIndex(asked, diff) EXCEPT !.katakana = FALSE]
           segs == [s.segments EXCEPT ![c] = moved]
<1>1. /\ s \in ConvertingState /\ s.segments \in Seq(Segment) /\ c \in 1..Len(s.segments)
      /\ Len(s.segments) \in Nat /\ seg \in Segment
  BY ConversionParts
<1>2. asked \in [pron : Strings, candidates : {seg.candidates,
                    AppendCandidates(seg.candidates, answer)}, index : Nat,
                 hasMore : {FALSE}, katakana : BOOLEAN]
  <2>1. CASE seg.hasMore
    <3>1. asked = [seg EXCEPT !.candidates = AppendCandidates(seg.candidates, answer),
                              !.hasMore = FALSE]
      BY <2>1 DEF EnsureCandidatesAppended
    <3> HIDE DEF seg, asked
    <3> QED BY <1>1, <3>1 DEF Segment
  <2>2. CASE ~seg.hasMore
    <3>1. asked = seg BY <2>2 DEF EnsureCandidatesAppended
    <3> HIDE DEF seg, asked
    <3> QED BY <1>1, <3>1, <2>2 DEF Segment
  <2> QED BY <2>1, <2>2
<1>3. CandidatesMove(s, diff, answer) = [s EXCEPT !.segments[c] = moved]
  BY DEF CandidatesMove
<1> HIDE DEF asked
<1>4. /\ moved.hasMore = FALSE /\ moved.katakana = FALSE
      /\ moved.candidates \in {seg.candidates, AppendCandidates(seg.candidates, answer)}
  BY <1>2 DEF MoveIndex
<1> HIDE DEF moved
<1>5. [s EXCEPT !.segments[c] = moved].segments = segs BY <1>1 DEF ConvertingState
<1>6. /\ DOMAIN segs = 1..Len(s.segments) /\ Len(segs) = Len(s.segments)
      /\ segs[k] = IF k = c THEN moved ELSE s.segments[k]
  <2>1. DOMAIN segs = 1..Len(s.segments) /\ Len(segs) = Len(s.segments) BY <1>1
  <2>2. k \in 1..Len(s.segments) BY <2>1, <1>3, <1>5
  <2> QED BY <2>1, <2>2, <1>1
<1> HIDE DEF segs, c
<1> QED BY <1>3, <1>4, <1>5, <1>6 DEF seg

LEMMA CandidatesChosen ==
  ASSUME NEW s, GoodConversion(s), NEW i \in Int
  PROVE  GoodConversion(CandidatesSet(s, i)) /\ CandidatesSet(s, i).kind = "converting"
<1> DEFINE seg == s.segments[s.current + 1]
           new == [seg EXCEPT !.index = i]
<1>1. seg \in Segment /\ Len(seg.candidates) \in Nat
  BY ConversionParts, LenProperties DEF Segment
<1>2. CASE i \in 0..(Len(seg.candidates) - 1)
  <2>1. new \in Segment /\ new.index \in 0..(Len(new.candidates) - 1)
    <3> HIDE DEF seg
    <3> QED BY <1>1, <1>2 DEF Segment
  <2>2. CandidatesSet(s, i) = [s EXCEPT !.segments[s.current + 1] = new]
    BY <1>2 DEF CandidatesSet, CurrentSegment
  <2> HIDE DEF new
  <2> QED BY <2>1, <2>2, SegmentReplaced
<1>3. CASE i \notin 0..(Len(seg.candidates) - 1)
  BY <1>3, ConversionParts DEF CandidatesSet, CurrentSegment
<1> QED BY <1>2, <1>3

LEMMA KatakanaMade ==
  ASSUME NEW s, GoodConversion(s)
  PROVE  GoodConversion(CurrentKatakana(s)) /\ CurrentKatakana(s).kind = "converting"
<1> DEFINE seg == s.segments[s.current + 1]
           new == [seg EXCEPT !.katakana = TRUE]
<1>1. seg \in Segment /\ seg.index \in 0..(Len(seg.candidates) - 1) BY ConversionParts
<1>2. new \in Segment /\ new.index \in 0..(Len(new.candidates) - 1)
  <2> HIDE DEF seg
  <2> QED BY <1>1 DEF Segment
<1>3. CurrentKatakana(s) = [s EXCEPT !.segments[s.current + 1] = new]
  BY DEF CurrentKatakana
<1> HIDE DEF new
<1> QED BY <1>2, <1>3, SegmentReplaced

LEMMA SegmentMoved ==
  ASSUME NEW s, GoodConversion(s), NEW diff \in {1, -1}
  PROVE  GoodConversion(SegmentMove(s, diff)) /\ SegmentMove(s, diff).kind = "converting"
<1>1. s \in ConvertingState /\ Len(s.segments) \in Nat BY ConversionParts
<1>2. CASE s.current + diff \in 0..(Len(s.segments) - 1)
  <2> DEFINE t == [s EXCEPT !.current = s.current + diff]
  <2>1. /\ t \in ConvertingState /\ t.kind = "converting" /\ t.segments = s.segments
        /\ t.current = s.current + diff
    BY <1>1, <1>2 DEF ConvertingState
  <2>2. SegmentMove(s, diff) = t BY <1>2 DEF SegmentMove
  <2> HIDE DEF t
  <2>3. GoodConversion(t) BY <1>2, <2>1, ConversionParts DEF GoodConversion
  <2> QED BY <2>1, <2>2, <2>3
<1>3. CASE s.current + diff \notin 0..(Len(s.segments) - 1)
  BY <1>3, ConversionParts DEF SegmentMove
<1> QED BY <1>2, <1>3

LEMMA ConvertedIsGood ==
  ASSUME NEW pron \in Strings, NEW answer \in Seq(KkcSegment), answer # <<>>
  PROVE  GoodConversion(ConvertedWith(pron, answer)) /\ ConvertedWith(pron, answer).kind = "converting"
<1> DEFINE Seg(i) == [pron |-> answer[i].pron, candidates |-> answer[i].candidates,
                      index |-> 0, hasMore |-> TRUE, katakana |-> FALSE]
           segs == [i \in 1..Len(answer) |-> Seg(i)]
           t == ConvertedWith(pron, answer)
<1>1. answer \in Seq(KkcSegment) /\ Len(answer) \in Nat \ {0} BY EmptySeq
<1>2. \A i \in 1..Len(answer) :
        /\ answer[i].pron \in Strings /\ answer[i].candidates \in Seq(String)
        /\ Len(answer[i].candidates) \in Nat \ {0}
  <2>1. \A i \in 1..Len(answer) : answer[i] \in KkcSegment BY <1>1, ElementOfSeq
  <2> QED BY <2>1, EmptySeq DEF KkcSegment
<1>3. \A i \in 1..Len(answer) :
        Seg(i) \in Segment /\ Seg(i).index \in 0..(Len(Seg(i).candidates) - 1)
  BY <1>2 DEF Segment
<1>4. /\ segs \in [1..Len(answer) -> Segment]
      /\ \A i \in 1..Len(answer) : segs[i] = Seg(i)
  BY <1>3
<1> HIDE DEF Seg
<1>5. segs \in Seq(Segment) /\ Len(segs) = Len(answer) BY <1>1, <1>4
<1>6. /\ t.kind = "converting" /\ t.segments = segs /\ t.current = 0 /\ t.pron = pron
      /\ t = [kind |-> "converting", segments |-> segs, current |-> 0, pron |-> pron]
  BY DEF ConvertedWith, Seg
<1> HIDE DEF segs, t
<1>7. t \in ConvertingState BY <1>5, <1>6 DEF ConvertingState
<1>8. GoodConversion(t) BY <1>1, <1>3, <1>4, <1>5, <1>6, <1>7 DEF GoodConversion
<1> QED BY <1>6, <1>8 DEF t

=============================================================================

---------------------------- MODULE Lexer_proofs ----------------------------
(***************************************************************************)
(* Proofs about the scanner, for every text.                               *)
(*                                                                         *)
(* The column counts the calls of advance, until the NUL has been passed:  *)
(* pointer and index follow from it.                                       *)
(***************************************************************************)
EXTENDS Lexer, Induction, SequenceTheorems, FiniteSetTheorems
LOCAL INSTANCE FiniteSetsExt
LOCAL INSTANCE SequencesExt

(* The cursor in column c. *)
InColumn(c) ==
  [m_CharPtr |-> IF c > m_TextSize THEN NullPtr ELSE c,
   m_Index   |-> IF c > m_TextSize THEN m_TextSize ELSE c,
   m_Column  |-> c]

PosOf(c) == [index |-> IF c > m_TextSize THEN m_TextSize ELSE c, column |-> c]

(* k columns on, but not past the NUL. *)
Onwards(c, k) == IF c + k > m_TextSize THEN m_TextSize + 1 ELSE c + k

CursorInv ==
  /\ m_Text \in Seq(STRING)
  /\ at.m_Column \in 0 .. m_TextSize + 1
  /\ at = InColumn(at.m_Column)

-----------------------------------------------------------------------------
(* What the cursor in a column is made of. *)
LEMMA ColumnFields ==
  ASSUME NEW c
  PROVE  /\ InColumn(c).m_CharPtr = IF c > m_TextSize THEN NullPtr ELSE c
         /\ InColumn(c).m_Index = IF c > m_TextSize THEN m_TextSize ELSE c
         /\ InColumn(c).m_Column = c
         /\ get_current_pos(InColumn(c)) = PosOf(c)
         /\ PosOf(c).index = IF c > m_TextSize THEN m_TextSize ELSE c
         /\ PosOf(c).column = c
BY DEF InColumn, PosOf, get_current_pos

(* The record that advance leaves at the NUL. *)
LEMMA PassedNul ==
  ASSUME NEW x, NEW y, NEW z, NEW p, NEW r, r = [m_CharPtr |-> x, m_Index |-> y, m_Column |-> z]
  PROVE  [r EXCEPT !.m_CharPtr = p, !.m_Column = @ + 1]
           = [m_CharPtr |-> p, m_Index |-> y, m_Column |-> z + 1]
<1>. DEFINE e == [r EXCEPT !.m_CharPtr = p, !.m_Column = @ + 1]
<1>1. e = [i \in DOMAIN r |-> IF i = "m_Column" THEN r.m_Column + 1
                             ELSE IF i = "m_CharPtr" THEN p ELSE r[i]]
  OBVIOUS
<1>2. QED
  BY <1>1

(* One call of advance. *)
LEMMA AdvanceColumn ==
  ASSUME m_TextSize \in Nat, NEW c \in 0 .. m_TextSize + 1
  PROVE  advance(InColumn(c)) = InColumn(Onwards(c, 1))
<1>1. CASE c = m_TextSize + 1
  BY <1>1 DEF InColumn, Onwards, advance, NullPtr
<1>2. CASE c = m_TextSize
  <2>1. InColumn(c) = [m_CharPtr |-> c, m_Index |-> c, m_Column |-> c]
    BY <1>2 DEF InColumn
  <2>2. ~ (InColumn(c).m_CharPtr = NullPtr) /\ InColumn(c).m_Index >= m_TextSize
    BY <1>2, <2>1 DEF NullPtr
  <2>3. advance(InColumn(c)) = [InColumn(c) EXCEPT !.m_CharPtr = NullPtr, !.m_Column = @ + 1]
    BY <2>2 DEF advance
  <2>5. Onwards(c, 1) = c + 1 /\ c + 1 > m_TextSize
    BY <1>2 DEF Onwards
  <2>6. QED
    BY <1>2, <2>1, <2>3, <2>5, PassedNul DEF InColumn
<1>3. CASE c < m_TextSize
  BY <1>3 DEF InColumn, Onwards, advance, NullPtr
<1>4. QED
  BY <1>1, <1>2, <1>3

(* k calls of advance. *)
LEMMA AfterColumn ==
  ASSUME CursorInv, NEW k \in Nat
  PROVE  After(k) = InColumn(Onwards(at.m_Column, k))
<1>. DEFINE c == at.m_Column
            Walked(st) == st = [i \in 0 .. k |-> IF i = 0 THEN at ELSE advance(st[i - 1])]
            seen == [i \in 0 .. k |-> InColumn(Onwards(c, i))]
            st == CHOOSE f : Walked(f)
            S == {i \in Nat : i \in 0 .. k => st[i] = InColumn(Onwards(c, i))}
<1>1. m_TextSize \in Nat /\ c \in 0 .. m_TextSize + 1 /\ at = InColumn(c)
  BY LenProperties DEF CursorInv, m_TextSize
<1>2. After(k) = st[k]
  BY DEF After
<1>. HIDE DEF c
<1>3. Onwards(c, 0) = c
  BY <1>1 DEF Onwards
<1>4. \A i \in Nat : /\ Onwards(c, i) \in 0 .. m_TextSize + 1
                     /\ Onwards(Onwards(c, i), 1) = Onwards(c, i + 1)
  BY <1>1 DEF Onwards
<1>5. \A i \in Nat : advance(InColumn(Onwards(c, i))) = InColumn(Onwards(c, i + 1))
  BY <1>1, <1>4, AdvanceColumn
<1>6. Walked(seen)
  <2>1. \A i \in 0 .. k : seen[i] = IF i = 0 THEN at ELSE advance(seen[i - 1])
    <3>1. \A i \in 0 .. k : i # 0 => i - 1 \in Nat /\ i - 1 \in 0 .. k /\ (i - 1) + 1 = i
      OBVIOUS
    <3>2. QED
      BY <1>1, <1>3, <1>5, <3>1
  <2>2. QED
    BY <2>1
<1>7. Walked(st)
  BY <1>6
<1>. HIDE DEF st
<1>8. \A i \in 0 .. k : st[i] = IF i = 0 THEN at ELSE advance(st[i - 1])
  BY <1>7
<1>9. 0 \in S
  BY <1>1, <1>3, <1>8
<1>10. ASSUME NEW i \in Nat, i \in S
       PROVE  i + 1 \in S
  <2>1. SUFFICES ASSUME i + 1 \in 0 .. k
                 PROVE  st[i + 1] = InColumn(Onwards(c, i + 1))
    OBVIOUS
  <2>2. st[i] = InColumn(Onwards(c, i))
    BY <1>10, <2>1
  <2>3. st[i + 1] = advance(st[i])
    BY <1>8, <2>1
  <2>4. QED
    BY <1>5, <2>2, <2>3
<1>11. k \in S
  <2>. HIDE DEF S
  <2>1. QED
    BY <1>9, <1>10, SetInduction
<1>12. QED
  BY <1>2, <1>11 DEF c

-----------------------------------------------------------------------------
(* Pieces of the text.                                                     *)

(* The k characters from p on. *)
Piece(p, k) == SubSeq(m_Text, p + 1, p + k)

(* A piece is made of the characters of the text. *)
LEMMA PieceElements ==
  ASSUME m_Text \in Seq(STRING), NEW p \in Nat, NEW k \in Nat, p + k <= m_TextSize
  PROVE  /\ Len(Piece(p, k)) = k /\ DOMAIN Piece(p, k) = 1 .. k
         /\ \A i \in 1 .. k : Piece(p, k)[i] = Char(p + i - 1)
<1>1. m_TextSize \in Nat /\ DOMAIN m_Text = 1 .. m_TextSize
      /\ \A i \in 1 .. m_TextSize : m_Text[i] \in STRING
  BY LenProperties, ElementOfSeq DEF m_TextSize
<1>2. \A i \in p + 1 .. p + k : m_Text[i] \in STRING
  BY <1>1
<1>3. /\ Piece(p, k) \in Seq(STRING)
      /\ Len(Piece(p, k)) = IF p + 1 <= p + k THEN (p + k) - (p + 1) + 1 ELSE 0
      /\ \A i \in 1 .. (p + k) - (p + 1) + 1 : Piece(p, k)[i] = m_Text[(p + 1) + i - 1]
  BY <1>2, SubSeqProperties DEF Piece
<1>4. Len(Piece(p, k)) = k
  BY <1>3
<1>5. DOMAIN Piece(p, k) = 1 .. k
  BY <1>3, <1>4, LenProperties
<1>6. ASSUME NEW i \in 1 .. k
      PROVE  Piece(p, k)[i] = Char(p + i - 1)
  <2>1. i \in 1 .. (p + k) - (p + 1) + 1 /\ (p + 1) + i - 1 = (p + i - 1) + 1
        /\ p + i - 1 < m_TextSize
    BY <1>1
  <2>2. QED
    BY <1>3, <2>1 DEF Char
<1>7. QED
  BY <1>4, <1>5, <1>6

(* How many dots a piece has, character by character. *)
LEMMA DotsOfPiece ==
  ASSUME m_Text \in Seq(STRING), NEW p \in Nat, NEW k \in Nat, p + k <= m_TextSize
  PROVE  /\ Dots(Piece(p, 0)) = 0
         /\ Dots(Piece(p, k)) \in Nat
         /\ p + k < m_TextSize =>
              Dots(Piece(p, k + 1)) = Dots(Piece(p, k)) + (IF Char(p + k) = "." THEN 1 ELSE 0)
<1>. DEFINE At(n) == {i \in 1 .. n : Char(p + i - 1) = "."}
<1>1. m_TextSize \in Nat
  BY LenProperties DEF m_TextSize
<1>2. \A n \in Nat : p + n <= m_TextSize => Dots(Piece(p, n)) = Cardinality(At(n))
  BY PieceElements DEF Dots
<1>3. \A n \in Nat : IsFiniteSet(At(n)) /\ Cardinality(At(n)) \in Nat
  <2>1. ASSUME NEW n \in Nat
        PROVE  IsFiniteSet(At(n)) /\ Cardinality(At(n)) \in Nat
    <3>1. IsFiniteSet(1 .. n) /\ At(n) \in SUBSET (1 .. n)
      BY FS_Interval
    <3>2. IsFiniteSet(At(n))
      BY <3>1, FS_Subset
    <3>3. QED
      BY <3>2, FS_CardinalityType
  <2>2. QED
    BY <2>1
<1>4. Dots(Piece(p, 0)) = 0
  <2>1. At(0) = {}
    OBVIOUS
  <2>2. QED
    BY <1>1, <1>2, <2>1, FS_EmptySet
<1>5. ASSUME p + k < m_TextSize
      PROVE  Dots(Piece(p, k + 1)) = Dots(Piece(p, k)) + (IF Char(p + k) = "." THEN 1 ELSE 0)
  <2>1. Dots(Piece(p, k + 1)) = Cardinality(At(k + 1)) /\ Dots(Piece(p, k)) = Cardinality(At(k))
    BY <1>1, <1>2, <1>5
  <2>2. p + (k + 1) - 1 = p + k
    OBVIOUS
  <2>3. At(k + 1) = IF Char(p + k) = "." THEN At(k) \cup {k + 1} ELSE At(k)
    BY <2>2
  <2>4. k + 1 \notin At(k)
    OBVIOUS
  <2>. HIDE DEF At
  <2>5. Cardinality(At(k) \cup {k + 1}) = Cardinality(At(k)) + 1
    BY <1>3, <2>4, FS_AddElement
  <2>6. Cardinality(At(k)) \in Nat
    BY <1>3
  <2>7. CASE Char(p + k) = "."
    BY <2>1, <2>3, <2>5, <2>7
  <2>8. CASE Char(p + k) # "."
    <3>1. At(k + 1) = At(k)
      BY <2>3, <2>8
    <3>2. QED
      BY <2>1, <2>6, <2>8, <3>1
  <2>9. QED
    BY <2>7, <2>8
<1>6. QED
  BY <1>2, <1>3, <1>4, <1>5

(* A piece of certain characters grows by one more of them. *)
LEMMA PieceGrows ==
  ASSUME m_Text \in Seq(STRING), NEW p \in Nat, NEW k \in Nat, p + k < m_TextSize,
         NEW chars, Within(Piece(p, k), chars), Char(p + k) \in chars,
         Char(p + k) = "." => Dots(Piece(p, k)) = 0
  PROVE  Within(Piece(p, k + 1), chars)
<1>. DEFINE s == Piece(p, k)
            t == Piece(p, k + 1)
<1>1. m_TextSize \in Nat /\ p + (k + 1) <= m_TextSize /\ p + k <= m_TextSize /\ k + 1 \in Nat
  BY LenProperties DEF m_TextSize
<1>2. DOMAIN s = 1 .. k /\ \A i \in 1 .. k : s[i] = Char(p + i - 1)
  BY <1>1, PieceElements
<1>3. DOMAIN t = 1 .. k + 1 /\ \A i \in 1 .. k + 1 : t[i] = Char(p + i - 1)
  BY <1>1, PieceElements
<1>4. Dots(t) = Dots(s) + (IF Char(p + k) = "." THEN 1 ELSE 0) /\ Dots(s) \in Nat
  BY <1>1, DotsOfPiece
<1>. HIDE DEF s, t
<1>5. (\A i \in DOMAIN s : s[i] \in chars) /\ Dots(s) <= 1
  BY DEF Within, s
<1>6. ASSUME NEW i \in 1 .. k + 1
      PROVE  t[i] \in chars
  <2>1. CASE i \in 1 .. k
    BY <1>2, <1>3, <1>5, <2>1
  <2>2. CASE i = k + 1
    <3>1. p + i - 1 = p + k
      BY <2>2
    <3>2. QED
      BY <1>3, <3>1
  <2>3. QED
    BY <2>1, <2>2
<1>7. Dots(t) <= 1
  <2>1. CASE Char(p + k) = "."
    BY <1>4, <2>1 DEF s
  <2>2. CASE Char(p + k) # "."
    BY <1>4, <1>5, <2>2
  <2>3. QED
    BY <2>1, <2>2
<1>8. QED
  BY <1>3, <1>6, <1>7 DEF Within, t

(* What Run finds: at least one character, and as many as there are. *)
LEMMA RunIsMaximal ==
  ASSUME CursorInv, at.m_CharPtr # NullPtr, NEW chars, Char(at.m_CharPtr) \in chars, NUL \notin chars
  PROVE  LET p == at.m_CharPtr
             k == Run(chars)
         IN  /\ p \in Nat /\ k \in Nat \ {0} /\ p + k <= m_TextSize
             /\ Within(Piece(p, k), chars)
             /\ p + k < m_TextSize => ~ Within(Piece(p, k + 1), chars)
<1>. DEFINE p == at.m_CharPtr
            T == {k \in 0 .. m_TextSize - p : Within(Piece(p, k), chars)}
<1>1. m_Text \in Seq(STRING) /\ m_TextSize \in Nat
  BY LenProperties DEF CursorInv, m_TextSize
<1>2. at.m_Column \in 0 .. m_TextSize /\ p = at.m_Column
  BY <1>1, ColumnFields DEF CursorInv
<1>3. p < m_TextSize
  BY <1>1, <1>2 DEF Char
<1>4. p \in Nat
  BY <1>2
<1>5. Run(chars) = CHOOSE x \in T : \A y \in T : x >= y
  BY DEF Run, Max, Piece
<1>. HIDE DEF p
<1>6. 1 \in T
  <2>1. Piece(p, 1)[1] = Char(p) /\ DOMAIN Piece(p, 1) = 1 .. 1
    <3>1. p + 1 <= m_TextSize /\ 1 \in 1 .. 1 /\ p + 1 - 1 = p
      BY <1>1, <1>3, <1>4
    <3>2. /\ DOMAIN Piece(p, 1) = 1 .. 1
          /\ \A i \in 1 .. 1 : Piece(p, 1)[i] = Char(p + i - 1)
      BY <1>1, <1>4, <3>1, PieceElements
    <3>3. QED
      BY <3>1, <3>2
  <2>2. \A i \in DOMAIN Piece(p, 1) : Piece(p, 1)[i] \in chars
    BY <2>1 DEF p
  <2>3. Dots(Piece(p, 1)) <= 1
    <3>1. Dots(Piece(p, 0)) = 0 /\ p + 0 < m_TextSize
          => Dots(Piece(p, 0 + 1)) = Dots(Piece(p, 0)) + (IF Char(p + 0) = "." THEN 1 ELSE 0)
      BY <1>1, <1>3, <1>4, DotsOfPiece
    <3>2. Dots(Piece(p, 0)) = 0
      BY <1>1, <1>3, <1>4, DotsOfPiece
    <3>3. QED
      BY <1>1, <1>3, <1>4, <3>1, <3>2
  <2>4. QED
    BY <1>1, <1>3, <1>4, <2>2, <2>3 DEF Within
<1>7. \E x \in T : \A y \in T : x >= y
  <2>. DEFINE R == {r \in Nat : m_TextSize - p - r \in T}
  <2>1. R \subseteq Nat
    OBVIOUS
  <2>2. m_TextSize - p - 1 \in R
    BY <1>1, <1>3, <1>4, <1>6
  <2>3. PICK r \in R : \A y \in R : r <= y
    BY <2>1, <2>2, LeastElement
  <2>4. \A y \in T : m_TextSize - p - y \in R
    BY <1>1, <1>4
  <2>5. \A y \in T : r <= m_TextSize - p - y /\ y \in Int
    BY <2>3, <2>4
  <2>6. m_TextSize - p - r \in T /\ r \in Nat
    BY <2>3
  <2>. HIDE DEF T, R
  <2>7. \A y \in T : m_TextSize - p - r >= y
    BY <2>5, <2>6, <1>1, <1>4
  <2>8. QED
    BY <2>6, <2>7
<1>8. Run(chars) \in T /\ \A y \in T : Run(chars) >= y
  <2>. HIDE DEF T
  <2>1. QED
    BY <1>5, <1>7
<1>9. Run(chars) \in Nat \ {0} /\ p + Run(chars) <= m_TextSize /\ Within(Piece(p, Run(chars)), chars)
  BY <1>1, <1>4, <1>6, <1>8
<1>10. ASSUME p + Run(chars) < m_TextSize, Within(Piece(p, Run(chars) + 1), chars)
       PROVE  FALSE
  <2>1. Run(chars) + 1 \in T
    BY <1>1, <1>4, <1>9, <1>10
  <2>2. QED
    BY <1>8, <1>9, <2>1
<1>11. QED
  BY <1>4, <1>9, <1>10 DEF p

-----------------------------------------------------------------------------
(* The inductive invariant.                                                *)

Entries(s) == {s[k] : k \in 1 .. Len(s)}

(* The offset behind a token. *)
BehindOf(token) == token.start_pos.index + Width(token)

(* The token lies in the text, from one column to a later one. *)
Placed(token) ==
  \E a, b \in 0 .. m_TextSize :
    a < b /\ token.start_pos = PosOf(a) /\ token.end_pos = PosOf(b)

TokensInv ==
  /\ m_Tokens \in Seq(Entries(m_Tokens))
  /\ \A k \in 1 .. Len(m_Tokens) :
       /\ Placed(m_Tokens[k]) /\ Spells(m_Tokens[k])
       /\ Width(m_Tokens[k]) \in Nat /\ BehindOf(m_Tokens[k]) <= at.m_Index
  /\ \A k \in 2 .. Len(m_Tokens) : BehindOf(m_Tokens[k - 1]) <= m_Tokens[k].start_pos.index

(* Nothing is said of an error that was reported in an earlier line. *)
ErrorInv ==
  /\ m_HasError \in BOOLEAN
  /\ m_HasError => m_Error \in [start_pos : Positions, end_pos : Positions]
  /\ ErrorsPlaced

LexerInv ==
  /\ CursorInv /\ TokensInv /\ ErrorInv /\ NothingElseLost
  /\ scanning \in {"running", "done", "out_of_range"}

(* The sequence that a value is appended to. *)
LEMMA AppendEntry ==
  ASSUME NEW s, s \in Seq(Entries(s)), NEW e
  PROVE  /\ Append(s, e) \in Seq(Entries(Append(s, e)))
         /\ Len(s) \in Nat /\ Len(Append(s, e)) = Len(s) + 1
         /\ \A k \in 1 .. Len(s) : Append(s, e)[k] = s[k]
         /\ Append(s, e)[Len(s) + 1] = e
<1>. DEFINE E == Entries(s) \cup {e}
            r == Append(s, e)
<1>1. s \in Seq(E)
  BY SeqMonotonic
<1>2. e \in E
  OBVIOUS
<1>. HIDE DEF E
<1>3. /\ r \in Seq(E) /\ Len(r) = Len(s) + 1
      /\ \A k \in 1 .. Len(s) : r[k] = s[k]
      /\ r[Len(s) + 1] = e
  BY <1>1, <1>2, AppendProperties
<1>4. Len(s) \in Nat
  BY <1>1, LenProperties
<1>. HIDE DEF r
<1>5. Len(r) \in Nat /\ r \in [1 .. Len(r) -> E]
  BY <1>3, LenProperties
<1>6. r \in [1 .. Len(r) -> Entries(r)]
  BY <1>5 DEF Entries
<1>7. r \in Seq(Entries(r))
  BY <1>5, <1>6, SeqDef
<1>8. QED
  BY <1>3, <1>4, <1>7 DEF r

(* What only depends on the text stays while the text does. *)
LEMMA TextKept ==
  ASSUME UNCHANGED m_Text
  PROVE  /\ m_TextSize' = m_TextSize
         /\ \A i : Char(i)' = Char(i)
         /\ \A c : InColumn(c)' = InColumn(c) /\ PosOf(c)' = PosOf(c)
         /\ \A token : Spells(token)' = Spells(token) /\ Placed(token)' = Placed(token)
         /\ Positions' = Positions
<1>1. m_TextSize' = m_TextSize
  BY DEF m_TextSize
<1>2. \A i : Char(i)' = Char(i)
  BY <1>1 DEF Char
<1>3. \A c : InColumn(c)' = InColumn(c) /\ PosOf(c)' = PosOf(c)
  BY <1>1 DEF InColumn, PosOf
<1>4. ASSUME NEW token
      PROVE  Spells(token)' = Spells(token)
  <2>1. Spelling(token)' = Spelling(token)
    BY DEF Spelling
  <2>2. Behind(token)' = Behind(token)
    BY <1>2 DEF Behind
  <2>3. QED
    BY <2>1, <2>2 DEF Spells
<1>5. \A token : Placed(token)' = Placed(token)
  BY <1>1, <1>3 DEF Placed
<1>6. Positions' = Positions
  BY <1>1 DEF Positions
<1>7. QED
  BY <1>1, <1>2, <1>3, <1>4, <1>5, <1>6

(* The cursor of a text that is being scanned. *)
LEMMA CursorFields ==
  ASSUME CursorInv
  PROVE  /\ m_TextSize \in Nat /\ at.m_Column \in 0 .. m_TextSize + 1
         /\ at.m_CharPtr = IF at.m_Column > m_TextSize THEN NullPtr ELSE at.m_Column
         /\ at.m_Index = IF at.m_Column > m_TextSize THEN m_TextSize ELSE at.m_Column
         /\ at.m_Index \in 0 .. m_TextSize
         /\ Passed = 0 .. at.m_Index - 1
         /\ Here = PosOf(at.m_Column)
<1>1. m_TextSize \in Nat /\ at.m_Column \in 0 .. m_TextSize + 1 /\ at = InColumn(at.m_Column)
  BY LenProperties DEF CursorInv, m_TextSize
<1>2. /\ at.m_CharPtr = IF at.m_Column > m_TextSize THEN NullPtr ELSE at.m_Column
      /\ at.m_Index = IF at.m_Column > m_TextSize THEN m_TextSize ELSE at.m_Column
      /\ Here = PosOf(at.m_Column)
  BY <1>1, ColumnFields DEF Here
<1>3. Passed = 0 .. at.m_Index - 1
  BY <1>1, <1>2 DEF Passed, NullPtr
<1>4. QED
  BY <1>1, <1>2, <1>3

(* An iteration goes k columns on. *)
LEMMA MoveKeeps ==
  ASSUME CursorInv, NEW k \in Nat, at' = After(k), UNCHANGED m_Text
  PROVE  /\ CursorInv'
         /\ at'.m_Column = Onwards(at.m_Column, k) /\ at.m_Index <= at'.m_Index
         /\ at'.m_Index \in 0 .. m_TextSize /\ Passed' = 0 .. at'.m_Index - 1
<1>1. m_TextSize \in Nat /\ at.m_Column \in 0 .. m_TextSize + 1 /\ m_Text \in Seq(STRING)
  BY CursorFields DEF CursorInv
<1>2. at' = InColumn(Onwards(at.m_Column, k))
  BY AfterColumn
<1>3. Onwards(at.m_Column, k) \in 0 .. m_TextSize + 1
  BY <1>1 DEF Onwards
<1>4. at'.m_Column = Onwards(at.m_Column, k)
  BY <1>2, ColumnFields
<1>5. CursorInv'
  BY <1>1, <1>2, <1>3, <1>4, TextKept DEF CursorInv
<1>6. at'.m_Index = IF at'.m_Column > m_TextSize THEN m_TextSize ELSE at'.m_Column
  BY <1>2, <1>4, ColumnFields
<1>7. at.m_Index <= at'.m_Index
  BY <1>1, <1>4, <1>6, CursorFields DEF Onwards
<1>8. at'.m_Index \in 0 .. m_TextSize
  BY <1>1, <1>3, <1>4, <1>6
<1>9. Passed' = 0 .. at'.m_Index - 1
  <2>1. at'.m_CharPtr = IF at'.m_Column > m_TextSize THEN NullPtr ELSE at'.m_Column
    BY <1>2, <1>4, ColumnFields
  <2>2. QED
    BY <1>1, <1>3, <1>4, <1>6, <2>1, TextKept DEF Passed, NullPtr
<1>10. QED
  BY <1>4, <1>5, <1>7, <1>8, <1>9

(* A token that begins at the cursor and reaches up to the offset e, but for *)
(* the character behind a relation.                                        *)
NextToken(token, e) ==
  /\ at.m_Column < m_TextSize /\ token.start_pos = PosOf(at.m_Column)
  /\ Placed(token) /\ Spells(token) /\ Width(token) \in Nat
  /\ BehindOf(token) <= e
  /\ e <= BehindOf(token) \/ (token.type \in Relations /\ e <= BehindOf(token) + 1)

-----------------------------------------------------------------------------
(* What the iterations keep.                                               *)

(* An iteration that adds no token. *)
LEMMA TokensStay ==
  ASSUME CursorInv, TokensInv, UNCHANGED <<m_Text, m_Tokens>>, at.m_Index <= at'.m_Index,
         at'.m_Index \in Nat
  PROVE  TokensInv'
<1>1. /\ m_Tokens' \in Seq(Entries(m_Tokens'))
      /\ \A k \in 2 .. Len(m_Tokens') :
           BehindOf(m_Tokens'[k - 1]) <= m_Tokens'[k].start_pos.index
  BY DEF TokensInv
<1>2. ASSUME NEW k \in 1 .. Len(m_Tokens')
      PROVE  /\ Placed(m_Tokens[k])' /\ Spells(m_Tokens[k])'
             /\ Width(m_Tokens'[k]) \in Nat /\ BehindOf(m_Tokens'[k]) <= at'.m_Index
  <2>1. /\ Placed(m_Tokens[k]) /\ Spells(m_Tokens[k])
        /\ Width(m_Tokens[k]) \in Nat /\ BehindOf(m_Tokens[k]) <= at.m_Index
    BY DEF TokensInv
  <2>2. m_Tokens[k].start_pos.index \in Nat
    BY <2>1, ColumnFields, CursorFields DEF Placed
  <2>3. BehindOf(m_Tokens[k]) <= at'.m_Index
    BY <2>1, <2>2, CursorFields DEF BehindOf
  <2>4. QED
    BY <2>1, <2>3, TextKept
<1>3. QED
  BY <1>1, <1>2 DEF TokensInv

(* An iteration that adds a token. *)
LEMMA TokenAdded ==
  ASSUME CursorInv, TokensInv, UNCHANGED m_Text, at.m_Index <= at'.m_Index, at'.m_Index \in Nat,
         NEW token, NextToken(token, at'.m_Index), m_Tokens' = Append(m_Tokens, token)
  PROVE  TokensInv'
<1>1. /\ m_Tokens' \in Seq(Entries(m_Tokens'))
      /\ Len(m_Tokens) \in Nat /\ Len(m_Tokens') = Len(m_Tokens) + 1
      /\ \A k \in 1 .. Len(m_Tokens) : m_Tokens'[k] = m_Tokens[k]
      /\ m_Tokens'[Len(m_Tokens) + 1] = token
  BY AppendEntry DEF TokensInv
<1>2. ASSUME NEW k \in 1 .. Len(m_Tokens)
      PROVE  /\ Placed(m_Tokens[k]) /\ Spells(m_Tokens[k]) /\ Width(m_Tokens[k]) \in Nat
             /\ BehindOf(m_Tokens[k]) <= at.m_Index
             /\ BehindOf(m_Tokens[k]) \in Nat
  <2>1. /\ Placed(m_Tokens[k]) /\ Spells(m_Tokens[k])
        /\ Width(m_Tokens[k]) \in Nat /\ BehindOf(m_Tokens[k]) <= at.m_Index
    BY DEF TokensInv
  <2>2. m_Tokens[k].start_pos.index \in Nat
    BY <2>1, ColumnFields, CursorFields DEF Placed
  <2>3. QED
    BY <2>1, <2>2 DEF BehindOf
<1>3. token.start_pos.index = at.m_Index
  BY CursorFields, ColumnFields DEF NextToken
<1>4. ASSUME NEW k \in 1 .. Len(m_Tokens')
      PROVE  /\ Placed(m_Tokens[k])' /\ Spells(m_Tokens[k])'
             /\ Width(m_Tokens'[k]) \in Nat /\ BehindOf(m_Tokens'[k]) <= at'.m_Index
  <2>1. CASE k \in 1 .. Len(m_Tokens)
    <3>1. BehindOf(m_Tokens[k]) <= at'.m_Index
      BY <1>2, <2>1, CursorFields
    <3>2. QED
      BY <1>1, <1>2, <2>1, <3>1, TextKept
  <2>2. CASE k = Len(m_Tokens) + 1
    BY <1>1, <2>2, TextKept DEF NextToken
  <2>3. QED
    BY <1>1, <2>1, <2>2
<1>5. ASSUME NEW k \in 2 .. Len(m_Tokens')
      PROVE  BehindOf(m_Tokens'[k - 1]) <= m_Tokens'[k].start_pos.index
  <2>1. k - 1 \in 1 .. Len(m_Tokens) /\ m_Tokens'[k - 1] = m_Tokens[k - 1]
    BY <1>1
  <2>2. CASE k \in 2 .. Len(m_Tokens)
    BY <1>1, <2>1, <2>2 DEF TokensInv
  <2>3. CASE k = Len(m_Tokens) + 1
    BY <1>1, <1>2, <1>3, <2>1, <2>3
  <2>4. QED
    BY <1>1, <2>2, <2>3
<1>6. QED
  BY <1>1, <1>4, <1>5 DEF TokensInv

(* The error that is held does not change while no new one is reported. *)
LEMMA ErrorStays ==
  ASSUME ErrorInv, UNCHANGED <<m_Text, m_HasError, m_Error>>
  PROVE  ErrorInv'
BY TextKept DEF ErrorInv, ErrorsPlaced

(* The characters that a token takes are not lost. *)
LEMMA NothingLostByToken ==
  ASSUME LexerInv, scanning = "running", UNCHANGED <<m_Text, m_HasError, scanning>>,
         at.m_Index <= at'.m_Index, at'.m_Index \in 0 .. m_TextSize, Passed' = 0 .. at'.m_Index - 1,
         NEW token, NextToken(token, at'.m_Index), m_Tokens' = Append(m_Tokens, token)
  PROVE  NothingElseLost'
<1>. DEFINE Taken(tokens, i) ==
       \E k \in 1 .. Len(tokens) :
         \/ i \in Extent(tokens[k])
         \/ tokens[k].type \in Relations /\ i = BehindOf(tokens[k])
<1>1. /\ Len(m_Tokens) \in Nat /\ Len(m_Tokens') = Len(m_Tokens) + 1
      /\ \A k \in 1 .. Len(m_Tokens) : m_Tokens'[k] = m_Tokens[k]
      /\ m_Tokens'[Len(m_Tokens) + 1] = token
  BY AppendEntry DEF LexerInv, TokensInv
<1>2. /\ Passed = 0 .. at.m_Index - 1 /\ at.m_Index \in Nat
      /\ Passed' = 0 .. at'.m_Index - 1 /\ at'.m_Index \in Nat
  BY CursorFields DEF LexerInv
<1>3. token.start_pos.index = at.m_Index /\ Width(token) \in Nat
  BY CursorFields, ColumnFields DEF NextToken, LexerInv
<1>4. SUFFICES ASSUME ~ m_HasError, NEW i \in Passed'
               PROVE  Char(i) \in Spaces \/ Taken(m_Tokens', i)
  BY TextKept DEF NothingElseLost, BehindOf
<1>5. CASE i \in Passed
  <2>1. Char(i) \in Spaces \/ Taken(m_Tokens, i)
    BY <1>4, <1>5 DEF LexerInv, NothingElseLost, BehindOf
  <2>2. CASE Taken(m_Tokens, i)
    <3>1. PICK k \in 1 .. Len(m_Tokens) :
            \/ i \in Extent(m_Tokens[k])
            \/ m_Tokens[k].type \in Relations /\ i = BehindOf(m_Tokens[k])
      BY <2>2
    <3>2. k \in 1 .. Len(m_Tokens') /\ m_Tokens'[k] = m_Tokens[k]
      BY <1>1
    <3>3. QED
      BY <3>1, <3>2
  <2>3. QED
    BY <2>1, <2>2
<1>6. CASE i \notin Passed
  <2>1. i \in at.m_Index .. at'.m_Index - 1
    BY <1>2, <1>6
  <2>2. BehindOf(token) = at.m_Index + Width(token)
    BY <1>3 DEF BehindOf
  <2>3. Extent(token) = at.m_Index .. at.m_Index + Width(token) - 1
    BY <1>3 DEF Extent
  <2>4. \/ i \in Extent(token)
        \/ token.type \in Relations /\ i = BehindOf(token)
    <3>1. \/ at'.m_Index <= BehindOf(token)
          \/ token.type \in Relations /\ at'.m_Index <= BehindOf(token) + 1
      BY DEF NextToken
    <3>2. \A b, e, w, x \in Nat :
            b = at.m_Index + w /\ x \in at.m_Index .. e - 1 =>
              /\ e <= b => x \in at.m_Index .. at.m_Index + w - 1
              /\ e <= b + 1 => x \in at.m_Index .. at.m_Index + w - 1 \/ x = b
      BY <1>2
    <3>3. BehindOf(token) \in Nat
      BY <1>2, <1>3, <2>2
    <3>4. i \in Nat
      BY <1>2, <2>1
    <3>5. QED
      BY <1>2, <1>3, <2>1, <2>2, <2>3, <3>1, <3>2, <3>3, <3>4
  <2>5. QED
    BY <1>1, <2>4
<1>7. QED
  BY <1>5, <1>6

(* An iteration that ends with a token. *)
LEMMA EmitKeeps ==
  ASSUME LexerInv, scanning = "running", NEW k \in Nat, at' = After(k),
         NEW token, NextToken(token, After(k).m_Index), Emit(token),
         UNCHANGED <<m_Text, scanning>>
  PROVE  LexerInv'
<1>1. /\ CursorInv /\ CursorInv' /\ at.m_Index <= at'.m_Index
      /\ at'.m_Index \in 0 .. m_TextSize /\ Passed' = 0 .. at'.m_Index - 1
  BY MoveKeeps DEF LexerInv
<1>2. at'.m_Index \in Nat
  BY <1>1, CursorFields
<1>3. m_Tokens' = Append(m_Tokens, token) /\ UNCHANGED <<m_HasError, m_Error>>
      /\ NextToken(token, at'.m_Index)
  BY DEF Emit
<1>4. TokensInv'
  BY <1>1, <1>2, <1>3, TokenAdded DEF LexerInv
<1>5. ErrorInv'
  BY <1>3, ErrorStays DEF LexerInv
<1>6. NothingElseLost'
  BY <1>1, <1>3, NothingLostByToken
<1>7. QED
  BY <1>1, <1>4, <1>5, <1>6 DEF LexerInv

-----------------------------------------------------------------------------
(* The iterations.                                                         *)

(* The loop is on a character of the text. *)
LEMMA OnCharacter ==
  ASSUME CursorInv, at.m_CharPtr # NullPtr, Char(at.m_CharPtr) # NUL
  PROVE  /\ m_TextSize \in Nat /\ at.m_Column \in 0 .. m_TextSize - 1
         /\ at.m_CharPtr = at.m_Column /\ at.m_Index = at.m_Column
         /\ Here = PosOf(at.m_Column)
<1>1. at.m_Column \in 0 .. m_TextSize /\ at.m_CharPtr = at.m_Column /\ m_TextSize \in Nat
  BY CursorFields
<1>2. at.m_Column < m_TextSize
  BY <1>1 DEF Char
<1>3. QED
  BY <1>1, <1>2, CursorFields

(* Where k calls of advance lead. *)
LEMMA AfterFields ==
  ASSUME CursorInv, NEW k \in Nat, NEW c, c = Onwards(at.m_Column, k)
  PROVE  /\ After(k).m_CharPtr = IF c > m_TextSize THEN NullPtr ELSE c
         /\ After(k).m_Index = IF c > m_TextSize THEN m_TextSize ELSE c
         /\ get_current_pos(After(k)) = PosOf(c)
BY AfterColumn, ColumnFields

(* The fields of the tokens that are made. *)
LEMMA TokenFields ==
  ASSUME NEW type, NEW name, NEW num, NEW frac, NEW start, NEW end
  PROVE  /\ LET token == Token(type, name, num, frac, start, end)
            IN  token.type = type /\ token.name = name /\ token.start_pos = start /\ token.end_pos = end
         /\ LET token == Symbol(type, start, end)
            IN  token.type = type /\ token.start_pos = start /\ token.end_pos = end
BY DEF Token, Symbol

(* The characters of a token that takes w of them from column a on. *)
LEMMA TokenPiece ==
  ASSUME m_TextSize \in Nat, NEW a \in 0 .. m_TextSize - 1, NEW w \in Nat, a + w <= m_TextSize,
         NEW token, token.start_pos = PosOf(a), Width(token) = w
  PROVE  /\ Spelling(token) = Piece(a, w) /\ Behind(token) = Char(a + w)
         /\ BehindOf(token) = a + w
<1>1. token.start_pos.index = a
  BY ColumnFields
<1>2. QED
  BY <1>1 DEF Spelling, Piece, Behind, BehindOf

(* A token from column a to column b. *)
LEMMA TokenPlaced ==
  ASSUME m_TextSize \in Nat, NEW a \in 0 .. m_TextSize - 1, NEW b \in a + 1 .. m_TextSize,
         NEW token, token.start_pos = PosOf(a), token.end_pos = PosOf(b)
  PROVE  /\ Placed(token)
         /\ Width(token) = IF token.type \in {"KW_AND", "KW_OR"} THEN 2 ELSE b - a
<1>1. token.start_pos.index = a /\ token.end_pos.index = b
  BY ColumnFields
<1>2. Placed(token)
  BY DEF Placed
<1>3. QED
  BY <1>1, <1>2 DEF Width

(* A word ends where no letter follows. *)
LEMMA WordSpelled ==
  ASSUME CursorInv, at.m_CharPtr # NullPtr, Char(at.m_CharPtr) \in LETTERS,
         NEW k, k = Run(LETTERS)
  PROVE  IsWord(Piece(at.m_CharPtr, k)) /\ Char(at.m_CharPtr + k) \notin LETTERS
<1>. DEFINE p == at.m_CharPtr
<1>1. NUL \notin LETTERS /\ "." \notin LETTERS
  BY DEF NUL, LETTERS
<1>2. /\ p \in Nat /\ k \in Nat \ {0} /\ p + k <= m_TextSize
      /\ Within(Piece(p, k), LETTERS)
      /\ p + k < m_TextSize => ~ Within(Piece(p, k + 1), LETTERS)
  BY <1>1, RunIsMaximal
<1>3. m_Text \in Seq(STRING) /\ m_TextSize \in Nat
  BY CursorFields DEF CursorInv
<1>. HIDE DEF p
<1>4. ASSUME Char(p + k) \in LETTERS
      PROVE  FALSE
  <2>1. p + k < m_TextSize
    BY <1>1, <1>2, <1>3, <1>4 DEF Char
  <2>2. Char(p + k) # "."
    BY <1>1, <1>4
  <2>3. Within(Piece(p, k + 1), LETTERS)
    BY <1>2, <1>3, <1>4, <2>1, <2>2, PieceGrows
  <2>4. QED
    BY <1>2, <2>1, <2>3
<1>5. QED
  BY <1>2, <1>4 DEF p, IsWord

(* A number ends where no digit follows, and no dot if it has none. *)
LEMMA NumberSpelled ==
  ASSUME CursorInv, at.m_CharPtr # NullPtr, Char(at.m_CharPtr) \in Digits,
         NEW k, k = Run(Digits \cup {"."})
  PROVE  LET s == Piece(at.m_CharPtr, k)
             c == Char(at.m_CharPtr + k)
         IN  /\ IsNumber(s) /\ Dots(s) \in {0, 1} /\ c \notin Digits
             /\ Dots(s) = 0 => c # "."
<1>. DEFINE p == at.m_CharPtr
            chars == Digits \cup {"."}
<1>1. NUL \notin chars /\ "." \notin Digits
  BY DEF NUL, Digits, DigitValue
<1>2. /\ p \in Nat /\ k \in Nat \ {0} /\ p + k <= m_TextSize
      /\ Within(Piece(p, k), chars)
      /\ p + k < m_TextSize => ~ Within(Piece(p, k + 1), chars)
  BY <1>1, RunIsMaximal
<1>3. m_Text \in Seq(STRING) /\ m_TextSize \in Nat
  BY CursorFields DEF CursorInv
<1>. HIDE DEF p, chars
<1>4. Dots(Piece(p, k)) \in {0, 1}
  <2>1. Dots(Piece(p, k)) \in Nat
    BY <1>2, <1>3, DotsOfPiece
  <2>2. Dots(Piece(p, k)) <= 1
    BY <1>2 DEF Within
  <2>3. QED
    BY <2>1, <2>2
<1>5. ASSUME Char(p + k) \in chars, Char(p + k) = "." => Dots(Piece(p, k)) = 0
      PROVE  FALSE
  <2>1. p + k < m_TextSize
    BY <1>1, <1>2, <1>3, <1>5 DEF Char
  <2>2. Within(Piece(p, k + 1), chars)
    BY <1>2, <1>3, <1>5, <2>1, PieceGrows
  <2>3. QED
    BY <1>2, <2>1, <2>2
<1>6. IsNumber(Piece(p, k))
  BY <1>2 DEF IsNumber, chars
<1>7. Char(p + k) \notin Digits /\ (Dots(Piece(p, k)) = 0 => Char(p + k) # ".")
  BY <1>1, <1>5 DEF chars
<1>8. QED
  BY <1>4, <1>6, <1>7 DEF p

(* A token of one character. *)
LEMMA SingleKeeps ==
  ASSUME LexerInv, make_single
  PROVE  LexerInv'
<1>. DEFINE c == Char(at.m_CharPtr)
            a == at.m_Column
            token == Symbol(Singles[c], Here, [index |-> Here.index + 1, column |-> Here.column + 1])
<1>1. /\ CursorInv /\ scanning = "running" /\ at.m_CharPtr # NullPtr /\ c \in DOMAIN Singles
      /\ at' = After(1) /\ Emit(token) /\ UNCHANGED <<m_Text, scanning>>
  BY DEF LexerInv, make_single, Scanning
<1>2. NUL \notin DOMAIN Singles
  BY DEF NUL, Singles
<1>3. /\ m_TextSize \in Nat /\ a \in 0 .. m_TextSize - 1 /\ at.m_CharPtr = a
      /\ at.m_Index = a /\ Here = PosOf(a)
  BY <1>1, <1>2, OnCharacter
<1>4. Singles[c] \in {"ADD", "SUB", "NOT", "MUL", "DIV", "LROUND", "RROUND"}
  BY <1>1 DEF Singles
<1>. HIDE DEF a, c
<1>5. Onwards(a, 1) = a + 1
  BY <1>3 DEF Onwards
<1>6. After(1).m_Index = a + 1
  BY <1>1, <1>3, <1>5, AfterFields DEF a
<1>7. [index |-> Here.index + 1, column |-> Here.column + 1] = PosOf(a + 1)
  BY <1>3 DEF PosOf
<1>8. token.type = Singles[c] /\ token.start_pos = PosOf(a) /\ token.end_pos = PosOf(a + 1)
  BY <1>3, <1>7, TokenFields
<1>. HIDE DEF token
<1>9. Placed(token) /\ Width(token) = 1
  BY <1>3, <1>4, <1>8, TokenPlaced
<1>10. Spelling(token) = Piece(a, 1) /\ BehindOf(token) = a + 1
  BY <1>3, <1>8, <1>9, TokenPiece
<1>11. Len(Piece(a, 1)) = 1 /\ Piece(a, 1)[1] = c
  <2>1. a \in Nat /\ a + 1 <= m_TextSize /\ a + 1 - 1 = a /\ 1 \in 1 .. 1
    BY <1>3
  <2>2. Len(Piece(a, 1)) = 1 /\ \A i \in 1 .. 1 : Piece(a, 1)[i] = Char(a + i - 1)
    BY <2>1, <1>1, PieceElements DEF CursorInv
  <2>3. QED
    BY <2>1, <2>2, <1>3 DEF c
<1>12. Spells(token)
  BY <1>4, <1>8, <1>10, <1>11 DEF Spells
<1>13. NextToken(token, After(1).m_Index)
  BY <1>3, <1>6, <1>8, <1>9, <1>10, <1>12 DEF NextToken, a
<1>14. QED
  BY <1>1, <1>13, EmitKeeps

(* A word. *)
LEMMA IdentifierKeeps ==
  ASSUME LexerInv, make_identifier
  PROVE  LexerInv'
<1>. DEFINE a == at.m_Column
            k == Run(LETTERS)
            token == Token("ID", Joined(Piece(a, k)), 0, 0, Here, get_current_pos(After(k)))
<1>1. /\ CursorInv /\ scanning = "running" /\ at.m_CharPtr # NullPtr
      /\ Char(at.m_CharPtr) \in LETTERS
  BY DEF LexerInv, make_identifier, Scanning
<1>2. NUL \notin LETTERS
  BY DEF NUL, LETTERS
<1>3. /\ m_TextSize \in Nat /\ a \in 0 .. m_TextSize - 1 /\ at.m_CharPtr = a
      /\ at.m_Index = a /\ Here = PosOf(a)
  BY <1>1, <1>2, OnCharacter
<1>4. at' = After(k) /\ Emit(token) /\ UNCHANGED <<m_Text, scanning>>
  BY <1>3 DEF make_identifier, Piece
<1>5. k \in Nat \ {0} /\ a + k <= m_TextSize
  BY <1>1, <1>2, <1>3, RunIsMaximal
<1>6. IsWord(Piece(a, k)) /\ Char(a + k) \notin LETTERS
  BY <1>1, <1>3, WordSpelled
<1>. HIDE DEF a, k
<1>7. Onwards(a, k) = a + k
  BY <1>3, <1>5 DEF Onwards
<1>8. After(k).m_Index = a + k /\ get_current_pos(After(k)) = PosOf(a + k)
  BY <1>1, <1>3, <1>5, <1>7, AfterFields DEF a
<1>9. /\ token.type = "ID" /\ token.name = Joined(Piece(a, k))
      /\ token.start_pos = PosOf(a) /\ token.end_pos = PosOf(a + k)
  BY <1>3, <1>8, TokenFields
<1>. HIDE DEF token
<1>10. Placed(token) /\ Width(token) = k
  <2>1. a + k \in a + 1 .. m_TextSize /\ (a + k) - a = k
    BY <1>3, <1>5
  <2>2. QED
    BY <2>1, <1>3, <1>9, TokenPlaced
<1>11. Spelling(token) = Piece(a, k) /\ Behind(token) = Char(a + k) /\ BehindOf(token) = a + k
  BY <1>3, <1>5, <1>9, <1>10, TokenPiece
<1>12. Spells(token)
  BY <1>6, <1>9, <1>11 DEF Spells
<1>13. NextToken(token, After(k).m_Index)
  BY <1>3, <1>5, <1>8, <1>9, <1>10, <1>11, <1>12 DEF NextToken, a
<1>14. QED
  BY <1>1, <1>4, <1>5, <1>13, EmitKeeps

(* A number, or the exception of stoi and stof. *)
LEMMA NumberKeeps ==
  ASSUME LexerInv, make_number
  PROVE  LexerInv'
<1>. DEFINE a == at.m_Column
            k == Run(Digits \cup {"."})
            s == Piece(a, k)
            type == IF Dots(s) = 0 THEN "INT" ELSE "FLOAT"
            token == Token(type, "", Mantissa(s), Fraction(s), Here, get_current_pos(After(k)))
<1>1. /\ CursorInv /\ scanning = "running" /\ at.m_CharPtr # NullPtr
      /\ Char(at.m_CharPtr) \in Digits
  BY DEF LexerInv, make_number, Scanning
<1>2. NUL \notin Digits \cup {"."}
  BY DEF NUL, Digits, DigitValue
<1>3. /\ m_TextSize \in Nat /\ a \in 0 .. m_TextSize - 1 /\ at.m_CharPtr = a
      /\ at.m_Index = a /\ Here = PosOf(a)
  BY <1>1, <1>2, OnCharacter
<1>4. /\ at' = After(k) /\ UNCHANGED m_Text
      /\ \/ scanning' = "out_of_range" /\ UNCHANGED <<m_Tokens, m_HasError, m_Error>>
         \/ Emit(token) /\ UNCHANGED scanning
  BY <1>3 DEF make_number, Piece
<1>5. k \in Nat \ {0} /\ a + k <= m_TextSize
  BY <1>1, <1>2, <1>3, RunIsMaximal
<1>6. /\ IsNumber(s) /\ Dots(s) \in {0, 1} /\ Char(a + k) \notin Digits
      /\ Dots(s) = 0 => Char(a + k) # "."
  BY <1>1, <1>3, NumberSpelled
<1>. HIDE DEF a, k
<1>7. Onwards(a, k) = a + k
  BY <1>3, <1>5 DEF Onwards
<1>8. After(k).m_Index = a + k /\ get_current_pos(After(k)) = PosOf(a + k)
  BY <1>1, <1>3, <1>5, <1>7, AfterFields DEF a
<1>. HIDE DEF s, type
<1>9. /\ token.type = type
      /\ token.start_pos = PosOf(a) /\ token.end_pos = PosOf(a + k)
  BY <1>3, <1>8 DEF Token
<1>. HIDE DEF token
<1>10. Placed(token) /\ Width(token) = k
  <2>1. a + k \in a + 1 .. m_TextSize /\ (a + k) - a = k
    BY <1>3, <1>5
  <2>2. token.type \notin {"KW_AND", "KW_OR"}
    BY <1>9 DEF type
  <2>3. QED
    BY <2>1, <2>2, <1>3, <1>9, TokenPlaced
<1>11. Spelling(token) = s /\ Behind(token) = Char(a + k) /\ BehindOf(token) = a + k
  BY <1>3, <1>5, <1>9, <1>10, TokenPiece DEF s
<1>12. Spells(token)
  <2>1. CASE Dots(s) = 0
    BY <1>6, <1>9, <1>11, <2>1 DEF Spells, type
  <2>2. CASE Dots(s) = 1
    BY <1>6, <1>9, <1>11, <2>2 DEF Spells, type
  <2>3. QED
    BY <1>6, <2>1, <2>2
<1>13. NextToken(token, After(k).m_Index)
  BY <1>3, <1>5, <1>8, <1>9, <1>10, <1>11, <1>12 DEF NextToken, a
<1>14. CASE Emit(token) /\ UNCHANGED scanning
  BY <1>1, <1>4, <1>5, <1>13, <1>14, EmitKeeps
<1>15. CASE scanning' = "out_of_range" /\ UNCHANGED <<m_Tokens, m_HasError, m_Error>>
  <2>1. CursorInv' /\ at.m_Index <= at'.m_Index /\ at'.m_Index \in Nat
    BY <1>1, <1>3, <1>4, <1>5, MoveKeeps
  <2>2. TokensInv'
    BY <1>1, <1>4, <1>15, <2>1, TokensStay DEF LexerInv
  <2>3. ErrorInv'
    BY <1>4, <1>15, ErrorStays DEF LexerInv
  <2>4. NothingElseLost'
    BY <1>15 DEF NothingElseLost
  <2>5. QED
    BY <1>15, <2>1, <2>2, <2>3, <2>4 DEF LexerInv
<1>16. QED
  BY <1>4, <1>14, <1>15

(* The types of the relations. *)
LEMMA RelationTypes ==
  ASSUME NEW c \in DOMAIN Alone
  PROVE  /\ Alone[c] \in {"ASSIGN", "LESS", "GREATER"} \cap Relations
         /\ WithEqual[c] \in {"EQUAL", "LESS_EQ", "GREATER_EQ"} \cap Relations
<1>1. DOMAIN Alone = {"=", "<", ">"} /\ DOMAIN WithEqual = {"=", "<", ">"}
  BY DEF Alone, WithEqual
<1>2. Alone[c] \in Relations /\ WithEqual[c] \in Relations
  BY <1>1 DEF Relations
<1>3. /\ Alone[c] \in {"ASSIGN", "LESS", "GREATER"}
      /\ WithEqual[c] \in {"EQUAL", "LESS_EQ", "GREATER_EQ"}
  BY <1>1 DEF Alone, WithEqual
<1>4. QED
  BY <1>2, <1>3

(* '=', '<' and '>', and those with a '=' behind. *)
LEMMA RelationKeeps ==
  ASSUME LexerInv, make_relation
  PROVE  LexerInv'
<1>. DEFINE a == at.m_Column
            c == Char(at.m_CharPtr)
            w == IF Char(After(1).m_CharPtr) = "=" THEN 2 ELSE 1
            type == IF w = 2 THEN WithEqual[c] ELSE Alone[c]
            token == Symbol(type, Here, get_current_pos(After(w)))
<1>1. /\ CursorInv /\ scanning = "running" /\ at.m_CharPtr # NullPtr /\ c \in DOMAIN Alone
      /\ at' = After(w + 1) /\ Emit(token) /\ UNCHANGED <<m_Text, scanning>>
  BY DEF LexerInv, make_relation, Scanning
<1>2. NUL \notin DOMAIN Alone
  BY DEF NUL, Alone
<1>3. /\ m_TextSize \in Nat /\ a \in 0 .. m_TextSize - 1 /\ at.m_CharPtr = a
      /\ at.m_Index = a /\ Here = PosOf(a) /\ c = Char(a)
  BY <1>1, <1>2, OnCharacter
<1>. HIDE DEF a, c
<1>4. Onwards(a, 1) = a + 1
  BY <1>3 DEF Onwards
<1>5. After(1).m_CharPtr = a + 1
  BY <1>1, <1>3, <1>4, AfterFields DEF a
<1>6. /\ w \in {1, 2} /\ a + w <= m_TextSize
      /\ w = 2 => Char(a + 1) = "="
      /\ w = 1 => Char(a + 1) # "="
  <2>1. Char(a + 1) = "=" => a + 1 < m_TextSize
    BY <1>3 DEF Char, NUL
  <2>2. QED
    BY <1>3, <1>5, <2>1
<1>. HIDE DEF w
<1>7. /\ Onwards(a, w) = a + w
      /\ Onwards(a, w + 1) = IF a + w = m_TextSize THEN m_TextSize + 1 ELSE a + w + 1
  BY <1>3, <1>6 DEF Onwards
<1>8. get_current_pos(After(w)) = PosOf(a + w)
  BY <1>1, <1>6, <1>7, AfterFields DEF a
<1>9. After(w + 1).m_Index \in {a + w, a + w + 1}
  <2>1. w + 1 \in Nat
    BY <1>6
  <2>2. After(w + 1).m_Index = IF Onwards(a, w + 1) > m_TextSize THEN m_TextSize ELSE Onwards(a, w + 1)
    BY <1>1, <2>1, AfterFields DEF a
  <2>3. QED
    BY <1>3, <1>6, <1>7, <2>2
<1>10. /\ Alone[c] \in {"ASSIGN", "LESS", "GREATER"} \cap Relations
       /\ WithEqual[c] \in {"EQUAL", "LESS_EQ", "GREATER_EQ"} \cap Relations
  BY <1>1, RelationTypes
<1>11. token.type = type /\ token.start_pos = PosOf(a) /\ token.end_pos = PosOf(a + w)
  BY <1>3, <1>8, TokenFields
<1>. HIDE DEF token
<1>12. Placed(token) /\ Width(token) = w
  <2>1. a + w \in a + 1 .. m_TextSize /\ (a + w) - a = w
    BY <1>3, <1>6
  <2>2. token.type \notin {"KW_AND", "KW_OR"}
    BY <1>10, <1>11
  <2>3. QED
    BY <2>1, <2>2, <1>3, <1>11, TokenPlaced
<1>13. Spelling(token) = Piece(a, w) /\ Behind(token) = Char(a + w) /\ BehindOf(token) = a + w
  BY <1>3, <1>6, <1>11, <1>12, TokenPiece
<1>14. /\ Len(Piece(a, w)) = w /\ Piece(a, w)[1] = c
       /\ w = 2 => Piece(a, w)[2] = Char(a + 1)
  <2>1. a \in Nat /\ w \in Nat /\ a + 1 - 1 = a /\ a + 2 - 1 = a + 1
    BY <1>3, <1>6
  <2>2. Len(Piece(a, w)) = w /\ \A i \in 1 .. w : Piece(a, w)[i] = Char(a + i - 1)
    BY <2>1, <1>1, <1>6, PieceElements DEF CursorInv
  <2>3. 1 \in 1 .. w /\ (w = 2 => 2 \in 1 .. w)
    BY <1>6
  <2>4. QED
    BY <2>1, <2>2, <2>3, <1>3
<1>15. Spells(token)
  <2>1. CASE w = 1
    BY <1>6, <1>10, <1>11, <1>13, <1>14, <2>1 DEF Spells
  <2>2. CASE w = 2
    BY <1>6, <1>10, <1>11, <1>13, <1>14, <2>2 DEF Spells
  <2>3. QED
    BY <1>6, <2>1, <2>2
<1>16. NextToken(token, After(w + 1).m_Index)
  <2>1. token.type \in Relations
    BY <1>10, <1>11
  <2>. HIDE DEF type
  <2>2. QED
    BY <2>1, <1>3, <1>6, <1>9, <1>11, <1>12, <1>13, <1>15 DEF NextToken, a
<1>17. w + 1 \in Nat
  BY <1>6
<1>18. QED
  BY <1>1, <1>16, <1>17, EmitKeeps

(* '&&' and '||'. *)
LEMMA DoubledKeeps ==
  ASSUME LexerInv, make_doubled
  PROVE  LexerInv'
<1>. DEFINE a == at.m_Column
            c == Char(at.m_CharPtr)
            token == Symbol(Doubled[c], Here, get_current_pos(After(1)))
<1>1. /\ CursorInv /\ scanning = "running" /\ at.m_CharPtr # NullPtr /\ c \in DOMAIN Doubled
      /\ Char(After(1).m_CharPtr) = c
      /\ at' = After(2) /\ Emit(token) /\ UNCHANGED <<m_Text, scanning>>
  BY DEF LexerInv, make_doubled, Scanning
<1>2. NUL \notin DOMAIN Doubled
  BY DEF NUL, Doubled
<1>3. /\ m_TextSize \in Nat /\ a \in 0 .. m_TextSize - 1 /\ at.m_CharPtr = a
      /\ at.m_Index = a /\ Here = PosOf(a) /\ c = Char(a)
  BY <1>1, <1>2, OnCharacter
<1>4. Doubled[c] \in {"KW_AND", "KW_OR"}
  BY <1>1 DEF Doubled
<1>5. Onwards(a, 1) = a + 1
  BY <1>3 DEF Onwards
<1>6. After(1).m_CharPtr = a + 1 /\ get_current_pos(After(1)) = PosOf(a + 1)
  BY <1>1, <1>3, <1>5, AfterFields
<1>7. Char(a + 1) = c /\ a + 1 < m_TextSize
  BY <1>1, <1>2, <1>3, <1>6 DEF Char
<1>. HIDE DEF a, c
<1>8. Onwards(a, 2) = a + 2
  BY <1>3, <1>7 DEF Onwards
<1>9. After(2).m_Index = a + 2
  BY <1>1, <1>3, <1>7, <1>8, AfterFields DEF a
<1>10. token.type = Doubled[c] /\ token.start_pos = PosOf(a) /\ token.end_pos = PosOf(a + 1)
  BY <1>3, <1>6, TokenFields
<1>. HIDE DEF token
<1>11. Placed(token) /\ Width(token) = 2
  BY <1>3, <1>4, <1>10, TokenPlaced
<1>12. Spelling(token) = Piece(a, 2) /\ BehindOf(token) = a + 2
  <2>1. a + 2 <= m_TextSize
    BY <1>3, <1>7
  <2>2. QED
    BY <2>1, <1>3, <1>10, <1>11, TokenPiece
<1>13. Len(Piece(a, 2)) = 2 /\ Piece(a, 2)[1] = c /\ Piece(a, 2)[2] = c
  <2>1. a \in Nat /\ a + 2 <= m_TextSize /\ a + 1 - 1 = a /\ a + 2 - 1 = a + 1
        /\ 1 \in 1 .. 2 /\ 2 \in 1 .. 2
    BY <1>3, <1>7
  <2>2. Len(Piece(a, 2)) = 2 /\ \A i \in 1 .. 2 : Piece(a, 2)[i] = Char(a + i - 1)
    BY <2>1, <1>1, PieceElements DEF CursorInv
  <2>3. QED
    BY <2>1, <2>2, <1>3, <1>7
<1>14. Spells(token)
  BY <1>4, <1>10, <1>12, <1>13 DEF Spells
<1>15. NextToken(token, After(2).m_Index)
  BY <1>3, <1>9, <1>10, <1>11, <1>12, <1>14 DEF NextToken, a
<1>16. QED
  BY <1>1, <1>15, EmitKeeps

(* A space. *)
LEMMA SpaceKeeps ==
  ASSUME LexerInv, SkipSpace
  PROVE  LexerInv'
<1>1. /\ CursorInv /\ scanning = "running" /\ at.m_CharPtr # NullPtr
      /\ Char(at.m_CharPtr) \in Spaces
      /\ at' = After(1) /\ UNCHANGED <<m_Text, m_Tokens, m_HasError, m_Error, scanning>>
  BY DEF LexerInv, SkipSpace, Scanning
<1>2. NUL \notin Spaces
  BY DEF NUL, Spaces
<1>3. /\ m_TextSize \in Nat /\ at.m_Column \in 0 .. m_TextSize - 1
      /\ at.m_CharPtr = at.m_Column /\ at.m_Index = at.m_Column
  BY <1>1, <1>2, OnCharacter
<1>4. Onwards(at.m_Column, 1) = at.m_Column + 1
  BY <1>3 DEF Onwards
<1>5. at'.m_Index = at.m_Index + 1
  BY <1>1, <1>3, <1>4, AfterFields
<1>6. CursorInv' /\ at.m_Index <= at'.m_Index /\ Passed' = 0 .. at'.m_Index - 1
  BY <1>1, MoveKeeps
<1>7. TokensInv' /\ ErrorInv'
  BY <1>1, <1>3, <1>5, <1>6, TokensStay, ErrorStays DEF LexerInv
<1>8. NothingElseLost'
  <2>1. \A i \in Passed' : i \in Passed \/ i = at.m_CharPtr
    BY <1>1, <1>3, <1>5, <1>6, CursorFields
  <2>2. \A i \in Passed' : i \in Passed \/ Char(i) \in Spaces
    BY <1>1, <2>1
  <2>3. QED
    BY <1>1, <2>2, TextKept DEF LexerInv, NothingElseLost
<1>9. QED
  BY <1>1, <1>6, <1>7, <1>8 DEF LexerInv

(* A '&' or '|' that is alone: the error is where the second one should be. *)
LEMMA ExpectKeeps ==
  ASSUME LexerInv, expect_char
  PROVE  LexerInv'
<1>. DEFINE a == at.m_Column
<1>1. /\ CursorInv /\ scanning = "running" /\ at.m_CharPtr # NullPtr
      /\ Char(at.m_CharPtr) \in DOMAIN Doubled
      /\ Char(After(1).m_CharPtr) # Char(at.m_CharPtr)
      /\ at' = After(3) /\ UNCHANGED <<m_Text, m_Tokens, scanning>> /\ m_HasError' = TRUE
      /\ m_Error' = [start_pos |-> get_current_pos(After(1)), end_pos |-> get_current_pos(After(2))]
  BY DEF LexerInv, expect_char, Scanning, Report
<1>2. NUL \notin DOMAIN Doubled
  BY DEF NUL, Doubled
<1>3. /\ m_TextSize \in Nat /\ a \in 0 .. m_TextSize - 1 /\ at.m_CharPtr = a
  BY <1>1, <1>2, OnCharacter
<1>4. Onwards(a, 1) = a + 1 /\ Onwards(a, 2) = a + 2
  BY <1>3 DEF Onwards
<1>5. /\ After(1).m_CharPtr = a + 1 /\ get_current_pos(After(1)) = PosOf(a + 1)
      /\ get_current_pos(After(2)) = PosOf(a + 2)
  BY <1>1, <1>3, <1>4, AfterFields
<1>6. CursorInv' /\ at.m_Index <= at'.m_Index /\ at'.m_Index \in Nat
  BY <1>1, <1>3, MoveKeeps
<1>7. TokensInv'
  BY <1>1, <1>6, TokensStay DEF LexerInv
<1>. HIDE DEF a
<1>8. ErrorInv'
  <2>1. /\ PosOf(a + 1) = [index |-> a + 1, column |-> a + 1]
        /\ PosOf(a + 2) = [index |-> IF a + 2 > m_TextSize THEN m_TextSize ELSE a + 2, column |-> a + 2]
    BY <1>3 DEF PosOf
  <2>2. PosOf(a + 1) \in Positions /\ PosOf(a + 2) \in Positions
    BY <1>3, <2>1 DEF Positions
  <2>3. m_Error' \in [start_pos : Positions, end_pos : Positions]
    BY <1>1, <1>5, <2>2
  <2>4. /\ m_Error'.start_pos.index = a + 1 /\ m_Error'.start_pos.column = a + 1
        /\ m_Error'.end_pos.column = a + 2
    BY <1>1, <1>5, <2>1
  <2>5. (a + 1) - 1 = a
    BY <1>3
  <2>6. Char(a) \in DOMAIN Doubled /\ Char(a) # Char(a + 1)
    BY <1>1, <1>3, <1>5
  <2>7. ErrorsPlaced'
    BY <1>1, <1>3, <2>4, <2>5, <2>6, TextKept DEF ErrorsPlaced
  <2>8. QED
    BY <1>1, <2>3, <2>7, TextKept DEF ErrorInv
<1>9. NothingElseLost'
  BY <1>1 DEF NothingElseLost
<1>10. QED
  BY <1>1, <1>6, <1>7, <1>8, <1>9 DEF LexerInv

(* A character that begins nothing. *)
LEMMA IllegalKeeps ==
  ASSUME LexerInv, illegal_char
  PROVE  LexerInv'
<1>. DEFINE a == at.m_Column
<1>1. /\ CursorInv /\ at.m_CharPtr # NullPtr
      /\ Char(at.m_CharPtr) \notin Known
      /\ at' = After(1) /\ UNCHANGED <<m_Text, m_Tokens>> /\ m_HasError' = TRUE /\ scanning' = "done"
      /\ m_Error' = [start_pos |-> Here, end_pos |-> get_current_pos(After(1))]
  BY DEF LexerInv, illegal_char, Report
<1>2. NUL \in Known
  BY DEF Known
<1>3. /\ m_TextSize \in Nat /\ a \in 0 .. m_TextSize - 1 /\ at.m_CharPtr = a /\ Here = PosOf(a)
  BY <1>1, <1>2, OnCharacter
<1>4. Onwards(a, 1) = a + 1
  BY <1>3 DEF Onwards
<1>5. get_current_pos(After(1)) = PosOf(a + 1)
  BY <1>1, <1>3, <1>4, AfterFields
<1>6. CursorInv' /\ at.m_Index <= at'.m_Index /\ at'.m_Index \in Nat
  BY <1>1, <1>3, MoveKeeps
<1>7. TokensInv'
  BY <1>1, <1>6, TokensStay DEF LexerInv
<1>. HIDE DEF a
<1>8. ErrorInv'
  <2>1. /\ PosOf(a) = [index |-> a, column |-> a]
        /\ PosOf(a + 1) = [index |-> a + 1, column |-> a + 1]
    BY <1>3 DEF PosOf
  <2>2. PosOf(a) \in Positions /\ PosOf(a + 1) \in Positions
    BY <1>3, <2>1 DEF Positions
  <2>3. m_Error' \in [start_pos : Positions, end_pos : Positions]
    BY <1>1, <1>3, <1>5, <2>2
  <2>4. /\ m_Error'.start_pos.index = a /\ m_Error'.start_pos.column = a
        /\ m_Error'.end_pos.column = a + 1
    BY <1>1, <1>3, <1>5, <2>1
  <2>5. ErrorsPlaced'
    BY <1>1, <1>3, <2>4, TextKept DEF ErrorsPlaced
  <2>6. QED
    BY <1>1, <2>3, <2>5, TextKept DEF ErrorInv
<1>9. NothingElseLost'
  BY <1>1 DEF NothingElseLost
<1>10. QED
  BY <1>1, <1>6, <1>7, <1>8, <1>9 DEF LexerInv

(* The NUL: without an error, the whole text has been passed. *)
LEMMA EndKeeps ==
  ASSUME LexerInv, EndOfText
  PROVE  LexerInv'
<1>1. /\ CursorInv /\ scanning = "running" /\ scanning' = "done"
      /\ at.m_CharPtr # NullPtr => Char(at.m_CharPtr) = NUL
      /\ UNCHANGED <<m_Text, at, m_Tokens, m_HasError, m_Error>>
  BY DEF LexerInv, EndOfText
<1>2. CursorInv' /\ TokensInv' /\ ErrorInv' /\ Passed' = Passed
  <2>1. Passed' = Passed
    BY <1>1, TextKept DEF Passed
  <2>2. CursorInv'
    BY <1>1, TextKept DEF CursorInv
  <2>3. TokensInv'
    BY <1>1, TextKept DEF LexerInv, TokensInv
  <2>4. ErrorInv'
    BY <1>1, ErrorStays DEF LexerInv
  <2>5. QED
    BY <2>1, <2>2, <2>3, <2>4
<1>3. Char(Cardinality(Passed)) = NUL
  <2>1. /\ m_TextSize \in Nat /\ at.m_Column \in 0 .. m_TextSize + 1
        /\ at.m_CharPtr = IF at.m_Column > m_TextSize THEN NullPtr ELSE at.m_Column
        /\ at.m_Index = IF at.m_Column > m_TextSize THEN m_TextSize ELSE at.m_Column
        /\ at.m_Index \in Nat /\ Passed = 0 .. at.m_Index - 1
    BY <1>1, CursorFields
  <2>2. Cardinality(Passed) = at.m_Index
    <3>1. \A b \in Int : Cardinality(0 .. b) = IF 0 > b THEN 0 ELSE b - 0 + 1
      BY FS_Interval
    <3>2. at.m_Index - 1 \in Int /\ (at.m_Index - 1) - 0 + 1 = at.m_Index
          /\ (0 > at.m_Index - 1 => at.m_Index = 0)
      BY <2>1
    <3>3. Cardinality(0 .. at.m_Index - 1)
            = IF 0 > at.m_Index - 1 THEN 0 ELSE (at.m_Index - 1) - 0 + 1
      BY <3>1, <3>2
    <3>4. QED
      BY <2>1, <3>2, <3>3
  <2>3. CASE at.m_Column > m_TextSize
    BY <2>1, <2>2, <2>3 DEF Char
  <2>4. CASE at.m_Column <= m_TextSize
    <3>1. at.m_CharPtr = at.m_Index /\ at.m_CharPtr # NullPtr
      BY <2>1, <2>4 DEF NullPtr
    <3>2. QED
      BY <1>1, <2>2, <3>1
  <2>5. QED
    BY <2>1, <2>3, <2>4
<1>4. NothingElseLost'
  BY <1>1, <1>2, <1>3, TextKept DEF LexerInv, NothingElseLost
<1>5. QED
  BY <1>1, <1>2, <1>4 DEF LexerInv

-----------------------------------------------------------------------------
(* How a scan begins, whatever an earlier one has left in m_Error. *)
Loaded ==
  /\ m_Text \in Seq(STRING) /\ m_Tokens = <<>> /\ m_HasError = FALSE
  /\ scanning = "running"
  /\ at = [Unloaded EXCEPT !.m_CharPtr = 0]

(* The invariant holds when a scan begins. *)
LEMMA LoadedInv == Loaded => LexerInv
<1> SUFFICES ASSUME Loaded
             PROVE  LexerInv
  OBVIOUS
<1>1. /\ m_Text \in Seq(STRING) /\ m_Tokens = <<>> /\ m_HasError = FALSE
      /\ scanning = "running"
      /\ at = [Unloaded EXCEPT !.m_CharPtr = 0]
  BY DEF Loaded
<1>2. m_TextSize \in Nat
  BY <1>1, LenProperties DEF m_TextSize
<1>3. at = [m_CharPtr |-> 0, m_Index |-> 0, m_Column |-> 0]
  BY <1>1 DEF Unloaded
<1>4. CursorInv
  <2>1. at.m_Column = 0 /\ ~ (0 > m_TextSize)
    BY <1>2, <1>3
  <2>2. at = InColumn(0)
    BY <1>3, <2>1 DEF InColumn
  <2>3. QED
    BY <1>1, <1>2, <2>1, <2>2 DEF CursorInv
<1>5. TokensInv
  <2>1. Len(m_Tokens) = 0
    BY <1>1
  <2>2. m_Tokens \in Seq(Entries(m_Tokens))
    BY <1>1, EmptySeq
  <2>3. QED
    BY <2>1, <2>2 DEF TokensInv
<1>6. ErrorInv
  BY <1>1 DEF ErrorInv, ErrorsPlaced
<1>7. NothingElseLost
  <2>1. Passed = {}
    BY <1>3 DEF Passed, NullPtr
  <2>2. QED
    BY <1>1, <2>1 DEF NothingElseLost
<1>8. QED
  BY <1>1, <1>4, <1>5, <1>6, <1>7 DEF LexerInv

(* The same of the state that a step leads to. *)
LEMMA LoadedNext == Loaded' => LexerInv'
BY LoadedInv, PTL

(* Every iteration keeps the invariant. *)
LEMMA LexerStep ==
  ASSUME LexerInv, LexerNext
  PROVE  LexerInv'
BY SpaceKeeps, NumberKeeps, IdentifierKeeps, SingleKeeps, RelationKeeps, DoubledKeeps,
   ExpectKeeps, IllegalKeeps, EndKeeps DEF LexerNext

(* So does whatever leaves the scanner alone. *)
LEMMA LexerStutter ==
  ASSUME LexerInv, UNCHANGED lexerVars
  PROVE  LexerInv'
<1>1. UNCHANGED <<m_Text, at, m_Tokens, m_HasError, m_Error, scanning>>
  BY DEF lexerVars
<1>2. CursorInv'
  BY <1>1, TextKept DEF LexerInv, CursorInv
<1>3. TokensInv'
  BY <1>1, TextKept DEF LexerInv, TokensInv
<1>4. ErrorInv'
  BY <1>1, ErrorStays DEF LexerInv
<1>5. NothingElseLost'
  <2>1. Passed' = Passed
    BY <1>1, TextKept DEF Passed
  <2>2. QED
    BY <1>1, <2>1, TextKept DEF LexerInv, NothingElseLost
<1>6. QED
  BY <1>1, <1>2, <1>3, <1>4, <1>5 DEF LexerInv

(* The inductive invariant of the scanner. *)
THEOREM LexerInvCorrect == LexerSpec => []LexerInv
<1>1. LexerInit => LexerInv
  BY LoadedInv, TextsAssumption DEF LexerInit, Loaded
<1>2. LexerInv /\ [LexerNext \/ Scanned]_lexerVars => LexerInv'
  BY LexerStep, LexerStutter DEF Scanned
<1>3. QED
  BY <1>1, <1>2, PTL DEF LexerSpec

(* m_Error is written only together with m_HasError. *)
ErrorWritten == m_HasError \/ m_Error = NoError

(* So it is in every state. *)
LEMMA ErrorWrittenCorrect == LexerSpec => []ErrorWritten
<1>1. LexerInit => ErrorWritten
  BY DEF LexerInit, ErrorWritten
<1>2. ErrorWritten /\ [LexerNext \/ Scanned]_lexerVars => ErrorWritten'
  BY DEF ErrorWritten, LexerNext, SkipSpace, make_number, make_identifier, make_single,
         make_relation, make_doubled, expect_char, illegal_char, EndOfText, Emit, Report,
         Scanned, lexerVars
<1>3. QED
  BY <1>1, <1>2, PTL DEF LexerSpec

(* Every position that is taken lies in the text or on its NUL.            *)
THEOREM LexerTypeCorrect == LexerSpec => []LexerTypeOK
<1>1. ASSUME LexerInv, ErrorWritten
      PROVE  LexerTypeOK
  <2>1. m_TextSize \in Nat /\ at.m_Column \in 0 .. m_TextSize + 1 /\ at = InColumn(at.m_Column)
    BY <1>1, CursorFields DEF LexerInv, CursorInv
  <2>2. at \in [m_CharPtr : {NullPtr} \cup 0 .. m_TextSize, m_Index : 0 .. m_TextSize,
                m_Column : 0 .. m_TextSize + 1]
    <3>. DEFINE c == at.m_Column
    <3>1. at = [m_CharPtr |-> IF c > m_TextSize THEN NullPtr ELSE c,
                m_Index |-> IF c > m_TextSize THEN m_TextSize ELSE c, m_Column |-> c]
      BY <2>1 DEF InColumn
    <3>. HIDE DEF c
    <3>2. c \in 0 .. m_TextSize + 1
      BY <2>1 DEF c
    <3>3. QED
      BY <2>1, <3>1, <3>2
  <2>3. \A a \in 0 .. m_TextSize : PosOf(a) \in Positions
    BY <2>1 DEF PosOf, Positions
  <2>4. ASSUME NEW k \in 1 .. Len(m_Tokens)
        PROVE  {m_Tokens[k].start_pos, m_Tokens[k].end_pos} \subseteq Positions
    BY <1>1, <2>3 DEF LexerInv, TokensInv, Placed
  <2>5. NoError \in [start_pos : Positions, end_pos : Positions]
    BY <2>1 DEF NoError, NoPos, Positions
  <2>6. QED
    BY <1>1, <2>2, <2>4, <2>5 DEF LexerInv, ErrorInv, ErrorWritten, LexerTypeOK
<1>2. QED
  BY <1>1, LexerInvCorrect, ErrorWrittenCorrect, PTL

(* Pointer and index are those of the column. *)
LEMMA CursorOfInv ==
  ASSUME LexerInv
  PROVE  CursorInText
<1>1. /\ m_TextSize \in Nat /\ at.m_Column \in 0 .. m_TextSize + 1
      /\ at.m_CharPtr = IF at.m_Column > m_TextSize THEN NullPtr ELSE at.m_Column
      /\ at.m_Index = IF at.m_Column > m_TextSize THEN m_TextSize ELSE at.m_Column
  BY CursorFields DEF LexerInv
<1>2. Min({at.m_Column, m_TextSize}) = at.m_Index
  <2>. DEFINE T == {at.m_Column, m_TextSize}
  <2>1. at.m_Index \in T /\ \A y \in T : at.m_Index <= y
    BY <1>1
  <2>2. \A x \in T : (\A y \in T : x <= y) => x = at.m_Index
    BY <1>1
  <2>. HIDE DEF T
  <2>3. (CHOOSE x \in T : \A y \in T : x <= y) = at.m_Index
    BY <2>1, <2>2
  <2>4. QED
    BY <2>3 DEF Min, T
<1>3. QED
  BY <1>1, <1>2 DEF CursorInText

(* Reading stays in the text and its NUL: pointer and index are those of    *)
(* the column, and the pointer is null behind the NUL.                      *)
THEOREM CursorInTextCorrect == LexerSpec => []CursorInText
<1>1. LexerInv => CursorInText
  BY CursorOfInv
<1>2. QED
  BY <1>1, LexerInvCorrect, PTL

(* Tokens are what their characters spell, longest first, in the order of   *)
(* the text, and share no character, for every text.                        *)
THEOREM TokensSpelledCorrect == LexerSpec => []TokensSpelled
<1>1. LexerInv => TokensSpelled
  BY DEF LexerInv, TokensInv, TokensSpelled, BehindOf
<1>2. QED
  BY <1>1, LexerInvCorrect, PTL

(* No character is lost without an error but spaces and the one behind a    *)
(* relation, for every text.                                               *)
THEOREM NothingElseLostCorrect == LexerSpec => []NothingElseLost
<1>1. LexerInv => NothingElseLost
  BY DEF LexerInv
<1>2. QED
  BY <1>1, LexerInvCorrect, PTL

(* An error is shown at a character that begins nothing, or at the one in   *)
(* place of a second '&' or '|', for every text.                            *)
THEOREM ErrorsPlacedCorrect == LexerSpec => []ErrorsPlaced
<1>1. LexerInv => ErrorsPlaced
  BY DEF LexerInv, ErrorInv
<1>2. QED
  BY <1>1, LexerInvCorrect, PTL
=============================================================================

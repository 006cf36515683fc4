----------------------------- MODULE Repl_proofs -----------------------------
(***************************************************************************)
(* Proofs about main, for every session and every amount of memory.        *)
(*                                                                         *)
(* The inductive invariant ReplInv has eight parts: what was read, where   *)
(* main is, the scanner, the parser, the messages, the statements, the     *)
(* blank lines and the deletion.  The invariants of the lexer and of the   *)
(* parser are those of their own proofs: each line is one more scan of the *)
(* one, and one more line of the other.                                    *)
(*                                                                         *)
(* TLAPS sees the parser twice, as P in Repl and as PP here, with its      *)
(* lemmas; the first lemmas say that both are the same.                    *)
(***************************************************************************)
EXTENDS Repl, Lexer_proofs

PP == INSTANCE Parser_proofs WITH Lines <- {}, m_Tokens <- tokens

(* Two instances of Parser have the same tables. *)
LEMMA SameTables ==
  /\ PP!Ops = P!Ops /\ PP!Operand = P!Operand /\ PP!UnaryOps = P!UnaryOps
  /\ PP!Levels = P!Levels /\ PP!NumberTokens = P!NumberTokens
  /\ PP!TokenTypes = P!TokenTypes /\ PP!TokenRecords = P!TokenRecords
  /\ PP!Activations = P!Activations /\ PP!Nodes = Nodes /\ P!Nodes = Nodes
  /\ PP!nullptr = nullptr /\ P!nullptr = nullptr
BY DEF PP!Ops, P!Ops, PP!LogicOps, P!LogicOps, PP!CmpOps, P!CmpOps, PP!Operand, P!Operand,
   PP!UnaryOps, P!UnaryOps, PP!Levels, P!Levels, PP!NumberTokens, P!NumberTokens,
   PP!TokenTypes, P!TokenTypes, PP!Tokens, P!Tokens, PP!ArithOps, P!ArithOps,
   PP!TokenRecords, P!TokenRecords, PP!Activations, P!Activations, PP!Functions, P!Functions,
   PP!Nodes, P!Nodes, Nodes, PP!NodeTypes, P!NodeTypes, NodeTypes, Tokens, NumberTokens,
   ArithOps, LogicOps, CmpOps, UnaryOps, PP!nullptr, P!nullptr, nullptr

(* And the same steps. *)
LEMMA SameLoad ==
  ASSUME NEW t, P!Load(t)
  PROVE  PP!Load(t)
BY DEF P!Load, PP!Load, P!Calling, PP!Calling, P!Call, PP!Call, P!nullptr, PP!nullptr

(* Every step that main has the parser take is one of its proofs. *)
LEMMA SameNext ==
  ASSUME P!ParserNext
  PROVE  PP!ParserNext
<1>1. PP!Levels = P!Levels
  BY SameTables
<1> USE SameTables DEF P!Entered, PP!Entered, P!Resumed, PP!Resumed, P!CurrentType,
    PP!CurrentType, P!Token, PP!Token, P!Follows, PP!Follows, P!NextToken, PP!NextToken,
    P!CurrentAt, PP!CurrentAt, P!Size, PP!Size, P!Push, PP!Push, P!Calling, PP!Calling,
    P!Call, PP!Call, P!Descent, PP!Descent, P!advance, PP!advance, P!Stay, PP!Stay, P!Return,
    PP!Return, P!Allocate, PP!Allocate, P!NewNode, PP!NewNode, P!Fail, PP!Fail
<1>2. P!BeginAssign => PP!BeginAssign
  BY DEF P!BeginAssign, PP!BeginAssign
<1>3. P!EndAssign => PP!EndAssign
  BY DEF P!EndAssign, PP!EndAssign, P!AssignNode, PP!AssignNode
<1>4. P!RetreatToName => PP!RetreatToName
  BY DEF P!RetreatToName, PP!RetreatToName
<1>5. P!BeginExpression => PP!BeginExpression
  BY DEF P!BeginExpression, PP!BeginExpression
<1>6. ASSUME NEW level
      PROVE P!MoreOperands(level) => PP!MoreOperands(level)
  BY DEF P!MoreOperands, PP!MoreOperands, P!Joined, PP!Joined, P!BinOpNode, PP!BinOpNode
<1>7. ASSUME NEW level
      PROVE P!LastOperand(level) => PP!LastOperand(level)
  BY DEF P!LastOperand, PP!LastOperand, P!Joined, PP!Joined, P!BinOpNode, PP!BinOpNode
<1>8. P!BeginUnary => PP!BeginUnary
  BY DEF P!BeginUnary, PP!BeginUnary
<1>9. P!EndUnary => PP!EndUnary
  BY DEF P!EndUnary, PP!EndUnary, P!UnryOpNode, PP!UnryOpNode
<1>10. P!Atom => PP!Atom
  BY DEF P!Atom, PP!Atom, P!AtomNode, PP!AtomNode, P!AccessNode, PP!AccessNode, P!NumNode,
     PP!NumNode
<1>11. P!OpenParen => PP!OpenParen
  BY DEF P!OpenParen, PP!OpenParen
<1>12. P!CloseParen => PP!CloseParen
  BY DEF P!CloseParen, PP!CloseParen
<1>13. P!MissingParen => PP!MissingParen
  BY DEF P!MissingParen, PP!MissingParen
<1>14. P!NoAtom => PP!NoAtom
  BY DEF P!NoAtom, PP!NoAtom
<1>15. P!WrapCallable => PP!WrapCallable
  BY DEF P!WrapCallable, PP!WrapCallable
<1>16. P!Accept => PP!Accept
  BY DEF P!Accept, PP!Accept
<1>17. P!Overflow => PP!Overflow
  BY DEF P!Overflow, PP!Overflow
<1>18. P!Parse => PP!Parse
  BY <1>1, <1>2, <1>3, <1>4, <1>5, <1>6, <1>7, <1>8, <1>9, <1>10, <1>11, <1>12, <1>13, <1>14,
     <1>15, <1>16
     DEF P!Parse, PP!Parse
<1>19. QED
  BY <1>17, <1>18 DEF P!ParserNext, PP!ParserNext

(* And the same properties. *)
LEMMA SameTypeOK ==
  PP!ParserTypeOK <=> P!ParserTypeOK
BY SameTables DEF PP!ParserTypeOK, P!ParserTypeOK, PP!IsLine, P!IsLine, PP!NoToken, P!NoToken

(* No token outside the line is read, in the one as in the other. *)
LEMMA SameTokensInLine ==
  PP!TokensInLine <=> P!TokensInLine
BY SameTables DEF PP!TokensInLine, P!TokensInLine, PP!Entered, P!Entered, P!CurrentType,
   PP!CurrentType, P!Token, PP!Token, PP!Size, P!Size, PP!Kept, P!Kept

(* Every node has one owner, in the one as in the other. *)
LEMMA SameHeldOnce ==
  PP!HeldOnce <=> P!HeldOnce
BY SameTables DEF PP!HeldOnce, P!HeldOnce, PP!Holders, P!Holders, PP!WellFormed,
   P!WellFormed, PP!ArithOps, P!ArithOps, PP!LogicOps, P!LogicOps, PP!CmpOps, P!CmpOps

(* What the proofs about the parser assume. *)
LEMMA ParserAssumptions ==
  /\ StackDepth \in Nat
  /\ Literals \subseteq Int
  /\ \A p \in Programs : PP!IsProgram(p)
  /\ \A l \in {} : PP!IsLine(l)
<1>1. ASSUME NEW p, IsProgram(p) PROVE PP!IsProgram(p)
  BY <1>1, SameTables DEF IsProgram, PP!IsProgram, WellFormed, PP!WellFormed, PP!ArithOps,
     ArithOps, PP!LogicOps, LogicOps, PP!CmpOps, CmpOps, PP!UnaryOps, UnaryOps, PP!NumberTokens, NumberTokens
<1>2. QED
  BY <1>1, SizesAssumption, LiteralsAssumption, ProgramsAssumption

-----------------------------------------------------------------------------
(* The program that the statements make.                                   *)

(* Every node is an operand of one node, or the root of one statement. *)
HeldLeft(p, n) ==
  /\ \E i \in 1 .. Len(p.node) : \A j \in 1 .. Len(p.node) : p.node[j].left = n <=> j = i
  /\ \A j \in 1 .. Len(p.node) : p.node[j].right # n
  /\ \A k \in 1 .. Len(p.root) : p.root[k] # n

HeldRight(p, n) ==
  /\ \A j \in 1 .. Len(p.node) : p.node[j].left # n
  /\ \E i \in 1 .. Len(p.node) : \A j \in 1 .. Len(p.node) : p.node[j].right = n <=> j = i
  /\ \A k \in 1 .. Len(p.root) : p.root[k] # n

HeldRoot(p, n) ==
  /\ \A j \in 1 .. Len(p.node) : p.node[j].left # n /\ p.node[j].right # n
  /\ \E k \in 1 .. Len(p.root) : \A j \in 1 .. Len(p.root) : p.root[j] = n <=> j = k

Sound(p) ==
  /\ IsProgram(p)
  /\ \A n \in 1 .. Len(p.node) :
       /\ PP!FieldsByType(p.node[n])
       /\ p.node[n].left < n /\ p.node[n].right < n
       /\ HeldLeft(p, n) \/ HeldRight(p, n) \/ HeldRoot(p, n)

(* What Shift changes. *)
LEMMA ShiftFields ==
  ASSUME NEW e \in Seq(Nodes), NEW k \in Nat
  PROVE  /\ Shift(e, k) \in Seq(Nodes) /\ Len(Shift(e, k)) = Len(e)
         /\ \A i \in 1 .. Len(e) :
              /\ Shift(e, k)[i].type = e[i].type /\ Shift(e, k)[i].op = e[i].op
              /\ Shift(e, k)[i].name = e[i].name /\ Shift(e, k)[i].num = e[i].num
              /\ Shift(e, k)[i].left = IF e[i].left = 0 THEN 0 ELSE e[i].left + k
              /\ Shift(e, k)[i].right = IF e[i].right = 0 THEN 0 ELSE e[i].right + k
<1>1. Len(e) \in Nat /\ DOMAIN e = 1 .. Len(e)
  BY LenProperties
<1>. DEFINE to(m) == IF m = nullptr THEN nullptr ELSE m + k
            moved(nd) == [nd EXCEPT !.left = to(nd.left), !.right = to(nd.right)]
<1>2. ASSUME NEW nd \in Nodes, NEW l, NEW r
      PROVE  [nd EXCEPT !.left = l, !.right = r]
               = [type |-> nd.type, op |-> nd.op, left |-> l, right |-> r,
                  name |-> nd.name, num |-> nd.num]
  <2>1. /\ nd = [type |-> nd.type, op |-> nd.op, left |-> nd.left, right |-> nd.right,
                 name |-> nd.name, num |-> nd.num]
    BY DEF Nodes
  <2>2. DOMAIN nd = {"type", "op", "left", "right", "name", "num"}
    BY <2>1
  <2>3. [nd EXCEPT !.left = l, !.right = r]
          = [i \in DOMAIN nd |-> IF i = "right" THEN r ELSE IF i = "left" THEN l ELSE nd[i]]
    BY <2>2
  <2>4. QED
    BY <2>2, <2>3
<1>3. ASSUME NEW nd \in Nodes
      PROVE  to(nd.left) \in Nat /\ to(nd.right) \in Nat
  <2>1. nd.left \in Nat /\ nd.right \in Nat /\ nullptr = 0
    BY DEF Nodes, nullptr
  <2>2. QED
    BY <2>1
<1>4. ASSUME NEW nd \in Nodes
      PROVE  /\ moved(nd) = [type |-> nd.type, op |-> nd.op, left |-> to(nd.left),
                             right |-> to(nd.right), name |-> nd.name, num |-> nd.num]
             /\ moved(nd) \in Nodes
  <2>. HIDE DEF to
  <2>1. moved(nd) = [type |-> nd.type, op |-> nd.op, left |-> to(nd.left),
                     right |-> to(nd.right), name |-> nd.name, num |-> nd.num]
    BY <1>2
  <2>2. QED
    BY <1>3, <2>1 DEF Nodes
<1>5. Shift(e, k) = [i \in 1 .. Len(e) |-> moved(e[i])]
  BY <1>1 DEF Shift
<1>6. \A i \in 1 .. Len(e) : e[i] \in Nodes
  BY ElementOfSeq
<1>. HIDE DEF moved, to
<1>7. Shift(e, k) \in [1 .. Len(e) -> Nodes]
  BY <1>4, <1>5, <1>6
<1>8. Shift(e, k) \in Seq(Nodes) /\ Len(Shift(e, k)) = Len(e)
  BY <1>1, <1>7, SeqDef, LenProperties
<1>9. ASSUME NEW i \in 1 .. Len(e)
      PROVE  /\ Shift(e, k)[i].type = e[i].type /\ Shift(e, k)[i].op = e[i].op
             /\ Shift(e, k)[i].name = e[i].name /\ Shift(e, k)[i].num = e[i].num
             /\ Shift(e, k)[i].left = to(e[i].left) /\ Shift(e, k)[i].right = to(e[i].right)
  <2>1. Shift(e, k)[i] = moved(e[i])
    BY <1>5
  <2>2. QED
    BY <2>1, <1>4, <1>6
<1>10. QED
  BY <1>8, <1>9 DEF to, nullptr

(* A line more. *)
LineAdded(p, e, q) ==
  /\ q = [node |-> q.node, root |-> q.root]
  /\ q.node \in Seq(Nodes) /\ Len(q.node) = Len(p.node) + Len(e)
  /\ \A j \in 1 .. Len(p.node) : q.node[j] = p.node[j]
  /\ \A i \in 1 .. Len(e) : q.node[Len(p.node) + i] = Shift(e, Len(p.node))[i]
  /\ q.root \in Seq(Nat) /\ Len(q.root) = Len(p.root) + 1
  /\ \A k \in 1 .. Len(p.root) : q.root[k] = p.root[k]
  /\ q.root[Len(p.root) + 1] = IF e = <<>> THEN 0 ELSE Len(p.node) + Len(e)

(* What AddLine makes is the program with a line more. *)
LEMMA AddLineFields ==
  ASSUME NEW p, p.node \in Seq(Nodes), p.root \in Seq(Nat), NEW e, e \in Seq(Nodes)
  PROVE  LineAdded(p, e, AddLine(p, e))
<1>. DEFINE q == AddLine(p, e)
            s == Shift(e, Len(p.node))
            r == IF e = <<>> THEN nullptr ELSE Len(p.node) + Len(e)
<1>1. Len(p.node) \in Nat /\ Len(e) \in Nat /\ Len(p.root) \in Nat
  BY LenProperties
<1>2. s \in Seq(Nodes) /\ Len(s) = Len(e)
  BY <1>1, ShiftFields
<1>3. r \in Nat
  BY <1>1 DEF nullptr
<1>4. q.node = p.node \o s /\ q.root = Append(p.root, r) /\ q = [node |-> q.node, root |-> q.root]
  BY DEF AddLine
<1>. HIDE DEF s, r, q
<1>5. /\ q.node \in Seq(Nodes) /\ Len(q.node) = Len(p.node) + Len(e)
      /\ \A i \in 1 .. Len(p.node) + Len(s) :
           q.node[i] = IF i <= Len(p.node) THEN p.node[i] ELSE s[i - Len(p.node)]
  <2>. DEFINE t == p.node
  <2>1. t \in Seq(Nodes)
    OBVIOUS
  <2>2. /\ t \o s \in Seq(Nodes) /\ Len(t \o s) = Len(t) + Len(s)
        /\ \A i \in 1 .. Len(t) + Len(s) : (t \o s)[i] = IF i <= Len(t) THEN t[i] ELSE s[i - Len(t)]
    <3>. HIDE DEF t
    <3>1. QED
      BY <1>2, <2>1, ConcatProperties
  <2>3. QED
    BY <1>2, <1>4, <2>2
<1>6. ASSUME NEW j \in 1 .. Len(p.node)
      PROVE  q.node[j] = p.node[j]
  <2>1. j \in 1 .. Len(p.node) + Len(s) /\ j <= Len(p.node)
    BY <1>1, <1>2
  <2>2. QED
    BY <1>5, <2>1
<1>7. ASSUME NEW i \in 1 .. Len(e)
      PROVE  q.node[Len(p.node) + i] = s[i]
  <2>1. /\ Len(p.node) + i \in 1 .. Len(p.node) + Len(s) /\ ~ (Len(p.node) + i <= Len(p.node))
        /\ (Len(p.node) + i) - Len(p.node) = i
    BY <1>1, <1>2
  <2>2. QED
    BY <1>5, <2>1
<1>8. /\ q.root \in Seq(Nat) /\ Len(q.root) = Len(p.root) + 1
      /\ \A k \in 1 .. Len(p.root) : q.root[k] = p.root[k]
      /\ q.root[Len(p.root) + 1] = r
  BY <1>3, <1>4, AppendProperties
<1>9. QED
  BY <1>1, <1>4, <1>5, <1>6, <1>7, <1>8 DEF s, r, q, LineAdded, nullptr

(* The fields that hold operands. *)
LEMMA NodeFields == \A nd \in Nodes : nd.left \in Nat /\ nd.right \in Nat
BY DEF Nodes

(* What a sound program is made of. *)
LEMMA SoundFields ==
  ASSUME NEW p, Sound(p)
  PROVE  /\ p.node \in Seq(Nodes) /\ Len(p.node) \in Nat
         /\ p.root \in Seq(Nat) /\ p.root \in Seq(0 .. Len(p.node)) /\ Len(p.root) \in Nat
         /\ \A n \in 1 .. Len(p.node) :
              /\ p.node[n] \in Nodes /\ p.node[n].left \in Nat /\ p.node[n].right \in Nat
              /\ WellFormed(p.node, n) /\ PP!FieldsByType(p.node[n])
              /\ p.node[n].left < n /\ p.node[n].right < n
         /\ \A k \in 1 .. Len(p.root) : p.root[k] \in 0 .. Len(p.node)
<1>1. p.node \in Seq(Nodes) /\ p.root \in Seq(0 .. Len(p.node))
  BY DEF Sound, IsProgram
<1>2. Len(p.node) \in Nat /\ Len(p.root) \in Nat
  BY <1>1, LenProperties
<1>3. p.root \in Seq(Nat)
  BY <1>1, <1>2, SeqMonotonic
<1>4. ASSUME NEW n \in 1 .. Len(p.node)
      PROVE  p.node[n] \in Nodes /\ p.node[n].left \in Nat /\ p.node[n].right \in Nat
  BY <1>1, ElementOfSeq, NodeFields
<1>5. \A k \in 1 .. Len(p.root) : p.root[k] \in 0 .. Len(p.node)
  BY <1>1, ElementOfSeq
<1>6. \A n \in 1 .. Len(p.node) :
              /\ WellFormed(p.node, n) /\ PP!FieldsByType(p.node[n])
              /\ p.node[n].left < n /\ p.node[n].right < n
  BY DEF Sound, IsProgram
<1>7. QED
  BY <1>1, <1>2, <1>3, <1>4, <1>5, <1>6

(* The nodes of the line come behind those that are there. *)
LEMMA AddLineSound ==
  ASSUME NEW p, Sound(p), NEW e, PP!Statement(e)
  PROVE  Sound(AddLine(p, e))
<1>. DEFINE q == AddLine(p, e)
            N == Len(p.node)
            L == Len(e)
            K == Len(p.root)
<1>1. e \in Seq(Nodes) /\ L \in Nat
  BY SameTables, LenProperties DEF PP!Statement
<1>2. /\ p.node \in Seq(Nodes) /\ N \in Nat
      /\ p.root \in Seq(Nat) /\ K \in Nat
      /\ \A n \in 1 .. N :
           /\ p.node[n] \in Nodes /\ p.node[n].left \in Nat /\ p.node[n].right \in Nat
           /\ WellFormed(p.node, n) /\ PP!FieldsByType(p.node[n])
           /\ p.node[n].left < n /\ p.node[n].right < n
      /\ \A k \in 1 .. K : p.root[k] \in 0 .. N
  BY SoundFields
<1>3. /\ q = [node |-> q.node, root |-> q.root]
      /\ q.node \in Seq(Nodes) /\ Len(q.node) = N + L
      /\ \A j \in 1 .. N : q.node[j] = p.node[j]
      /\ \A i \in 1 .. L : q.node[N + i] = Shift(e, N)[i]
      /\ q.root \in Seq(Nat) /\ Len(q.root) = K + 1
      /\ \A k \in 1 .. K : q.root[k] = p.root[k]
      /\ q.root[K + 1] = IF e = <<>> THEN 0 ELSE N + L
  <2>1. LineAdded(p, e, q)
    BY <1>1, <1>2, AddLineFields
  <2>. HIDE DEF q
  <2>2. QED
    BY <2>1 DEF LineAdded
<1>4. \A i \in 1 .. L :
        /\ e[i] \in Nodes /\ e[i].left \in Nat /\ e[i].right \in Nat
        /\ e[i].left < i /\ e[i].right < i
        /\ WellFormed(e, i) /\ PP!FieldsByType(e[i])
  <2>1. ASSUME NEW i \in 1 .. L
        PROVE  e[i] \in Nodes /\ e[i].left \in Nat /\ e[i].right \in Nat
    BY <1>1, ElementOfSeq, NodeFields
  <2>2. ASSUME NEW i \in 1 .. L, PP!WellFormed(e, i)
        PROVE  WellFormed(e, i)
    BY <2>2 DEF WellFormed, PP!WellFormed, PP!ArithOps, ArithOps, PP!LogicOps, LogicOps,
       PP!CmpOps, CmpOps, PP!UnaryOps, UnaryOps, PP!NumberTokens, NumberTokens
  <2>3. QED
    BY <2>1, <2>2 DEF PP!Statement
<1>5. ASSUME NEW i \in 1 .. L
      PROVE  /\ q.node[N + i].type = e[i].type /\ q.node[N + i].op = e[i].op
             /\ q.node[N + i].name = e[i].name
             /\ q.node[N + i].left = IF e[i].left = 0 THEN 0 ELSE e[i].left + N
             /\ q.node[N + i].right = IF e[i].right = 0 THEN 0 ELSE e[i].right + N
  <2>. HIDE DEF q
  <2>1. /\ Shift(e, N)[i].type = e[i].type /\ Shift(e, N)[i].op = e[i].op
        /\ Shift(e, N)[i].name = e[i].name
        /\ Shift(e, N)[i].left = IF e[i].left = 0 THEN 0 ELSE e[i].left + N
        /\ Shift(e, N)[i].right = IF e[i].right = 0 THEN 0 ELSE e[i].right + N
    BY <1>1, <1>2, ShiftFields
  <2>2. QED
    BY <1>3, <2>1
<1>6. \A n \in 1 .. N + L : n \in 1 .. N \/ \E i \in 1 .. L : n = N + i
  <2>1. ASSUME NEW n \in 1 .. N + L, n \notin 1 .. N
        PROVE  n - N \in 1 .. L /\ n = N + (n - N)
    BY <1>1, <1>2, <2>1
  <2>2. QED
    BY <2>1
<1>. HIDE DEF q, N, L, K
<1>7. ASSUME NEW n \in 1 .. N + L
      PROVE  /\ WellFormed(q.node, n) /\ PP!FieldsByType(q.node[n])
             /\ q.node[n].left < n /\ q.node[n].right < n
  <2>1. CASE n \in 1 .. N
    BY <1>2, <1>3, <2>1 DEF WellFormed
  <2>2. ASSUME NEW i \in 1 .. L, n = N + i
        PROVE  /\ WellFormed(q.node, n) /\ PP!FieldsByType(q.node[n])
               /\ q.node[n].left < n /\ q.node[n].right < n
    <3>1. /\ q.node[n].type = e[i].type /\ q.node[n].op = e[i].op
          /\ q.node[n].name = e[i].name
          /\ q.node[n].left = IF e[i].left = 0 THEN 0 ELSE e[i].left + N
          /\ q.node[n].right = IF e[i].right = 0 THEN 0 ELSE e[i].right + N
          /\ e[i].left \in Nat /\ e[i].right \in Nat /\ e[i].left < i /\ e[i].right < i
      BY <1>4, <1>5, <2>2
    <3>2. q.node[n].left < n /\ q.node[n].right < n
      BY <1>1, <1>2, <2>2, <3>1
    <3>3. /\ e[i].left \in 1 .. i - 1 => q.node[n].left \in 1 .. n - 1
          /\ e[i].right \in 1 .. i - 1 => q.node[n].right \in 1 .. n - 1
      BY <1>1, <1>2, <2>2, <3>1
    <3>4. WellFormed(q.node, n)
      BY <1>4, <3>1, <3>3 DEF WellFormed
    <3>5. PP!FieldsByType(q.node[n])
      BY <1>4, <3>1 DEF PP!FieldsByType, PP!nullptr
    <3>6. QED
      BY <3>2, <3>4, <3>5
  <2>3. QED
    BY <1>6, <2>1, <2>2
<1>8. ASSUME NEW n \in 1 .. N
      PROVE  HeldLeft(q, n) \/ HeldRight(q, n) \/ HeldRoot(q, n)
  <2>1. ASSUME NEW i \in 1 .. L
        PROVE  q.node[N + i].left # n /\ q.node[N + i].right # n
    <3>1. /\ q.node[N + i].left = IF e[i].left = 0 THEN 0 ELSE e[i].left + N
          /\ q.node[N + i].right = IF e[i].right = 0 THEN 0 ELSE e[i].right + N
          /\ e[i].left \in Nat /\ e[i].right \in Nat
      BY <1>4, <1>5
    <3>2. QED
      BY <1>2, <3>1
  <2>2. q.root[K + 1] # n
    <3>1. e # <<>> => L # 0
      BY <1>1, EmptySeq DEF L
    <3>2. QED
      BY <1>1, <1>2, <1>3, <3>1
  <2>3. \A j \in 1 .. N : j \in 1 .. N + L
    BY <1>1, <1>2
  <2>4. \A k \in 1 .. K + 1 : k \in 1 .. K \/ k = K + 1
    BY <1>2
  <2>5. \A k \in 1 .. K : k \in 1 .. K + 1
    BY <1>2
  <2>6. CASE HeldLeft(p, n)
    <3>1. PICK i \in 1 .. N : \A j \in 1 .. N : p.node[j].left = n <=> j = i
      BY <2>6 DEF HeldLeft, N
    <3>2. \A j \in 1 .. N + L : q.node[j].left = n <=> j = i
      BY <1>3, <1>6, <2>1, <2>3, <3>1
    <3>3. \A j \in 1 .. N + L : q.node[j].right # n
      <4>1. \A j \in 1 .. N : q.node[j].right # n
        BY <2>6, <1>3 DEF HeldLeft, N
      <4>2. QED
        BY <4>1, <1>6, <2>1
    <3>4. \A k \in 1 .. K + 1 : q.root[k] # n
      BY <2>6, <1>3, <2>2, <2>4 DEF HeldLeft, K
    <3>5. QED
      BY <1>3, <2>3, <3>1, <3>2, <3>3, <3>4 DEF HeldLeft
  <2>7. CASE HeldRight(p, n)
    <3>1. PICK i \in 1 .. N : \A j \in 1 .. N : p.node[j].right = n <=> j = i
      BY <2>7 DEF HeldRight, N
    <3>2. \A j \in 1 .. N + L : q.node[j].right = n <=> j = i
      BY <1>3, <1>6, <2>1, <2>3, <3>1
    <3>3. \A j \in 1 .. N + L : q.node[j].left # n
      <4>1. \A j \in 1 .. N : q.node[j].left # n
        BY <2>7, <1>3 DEF HeldRight, N
      <4>2. QED
        BY <4>1, <1>6, <2>1
    <3>4. \A k \in 1 .. K + 1 : q.root[k] # n
      BY <2>7, <1>3, <2>2, <2>4 DEF HeldRight, K
    <3>5. QED
      BY <1>3, <2>3, <3>1, <3>2, <3>3, <3>4 DEF HeldRight
  <2>8. CASE HeldRoot(p, n)
    <3>1. PICK k \in 1 .. K : \A j \in 1 .. K : p.root[j] = n <=> j = k
      BY <2>8 DEF HeldRoot, K
    <3>2. \A j \in 1 .. K + 1 : q.root[j] = n <=> j = k
      BY <1>2, <1>3, <2>2, <2>4, <3>1
    <3>3. \A j \in 1 .. N + L : q.node[j].left # n /\ q.node[j].right # n
      <4>1. \A j \in 1 .. N : q.node[j].left # n /\ q.node[j].right # n
        BY <2>8, <1>3 DEF HeldRoot, N
      <4>2. QED
        BY <4>1, <1>6, <2>1
    <3>4. QED
      BY <1>3, <2>5, <3>1, <3>2, <3>3 DEF HeldRoot
  <2>9. QED
    BY <2>6, <2>7, <2>8 DEF Sound, N
<1>9. ASSUME NEW m \in 1 .. L
      PROVE  HeldLeft(q, N + m) \/ HeldRight(q, N + m) \/ HeldRoot(q, N + m)
  <2>1. ASSUME NEW j \in 1 .. N
        PROVE  q.node[j].left # N + m /\ q.node[j].right # N + m
    <3>1. /\ q.node[j].left \in Nat /\ q.node[j].right \in Nat
          /\ q.node[j].left < j /\ q.node[j].right < j
      BY <1>2, <1>3
    <3>2. QED
      BY <1>2, <3>1
  <2>2. ASSUME NEW i \in 1 .. L
        PROVE  /\ q.node[N + i].left = N + m <=> e[i].left = m
               /\ q.node[N + i].right = N + m <=> e[i].right = m
    <3>1. /\ q.node[N + i].left = IF e[i].left = 0 THEN 0 ELSE e[i].left + N
          /\ q.node[N + i].right = IF e[i].right = 0 THEN 0 ELSE e[i].right + N
          /\ e[i].left \in Nat /\ e[i].right \in Nat
      BY <1>4, <1>5
    <3>2. QED
      BY <1>2, <3>1
  <2>3. ASSUME NEW k \in 1 .. K
        PROVE  q.root[k] # N + m
    <3>1. q.root[k] \in 0 .. N
      BY <1>2, <1>3
    <3>2. QED
      BY <1>2, <3>1
  <2>4. q.root[K + 1] = N + m <=> m = L
    <3>1. e # <<>>
      BY <1>1 DEF L
    <3>2. QED
      BY <1>1, <1>2, <1>3, <3>1
  <2>5. \A k \in 1 .. K + 1 : k \in 1 .. K \/ k = K + 1
    BY <1>2
  <2>6. K + 1 \in 1 .. K + 1 /\ K + 1 \notin 1 .. K
    BY <1>2
  <2>7. /\ \A i \in 1 .. L : N + i \in 1 .. N + L /\ N + i \notin 1 .. N
        /\ \A i, j \in 1 .. L : N + i = N + j <=> i = j
    BY <1>1, <1>2
  <2>8. CASE m = L
    <3>1. \A i \in 1 .. L : e[i].left # m /\ e[i].right # m
      BY <1>1, <1>4, <2>8
    <3>2. \A j \in 1 .. N + L : q.node[j].left # N + m /\ q.node[j].right # N + m
      BY <1>6, <2>1, <2>2, <3>1
    <3>3. \A k \in 1 .. K + 1 : q.root[k] = N + m <=> k = K + 1
      BY <2>3, <2>4, <2>5, <2>6, <2>8
    <3>4. QED
      BY <1>3, <2>6, <3>2, <3>3 DEF HeldRoot
  <2>9. CASE m # L
    <3>1. \A k \in 1 .. K + 1 : q.root[k] # N + m
      BY <2>3, <2>4, <2>5, <2>9
    <3>2. PP!AsLeft(e, <<>>, L, m) \/ PP!AsRight(e, <<>>, L, m)
      <4>1. m \in 1 .. L - 1
        BY <1>1, <2>9
      <4>2. QED
        BY <4>1 DEF PP!Statement, L
    <3>3. CASE PP!AsLeft(e, <<>>, L, m)
      <4>1. PICK i \in 1 .. L : \A j \in 1 .. L : e[j].left = m <=> j = i
        BY <3>3 DEF PP!AsLeft, L
      <4>2. \A j \in 1 .. L : e[j].right # m
        BY <3>3 DEF PP!AsLeft, L
      <4>3. \A j \in 1 .. N + L : q.node[j].left = N + m <=> j = N + i
        BY <1>6, <2>1, <2>2, <2>7, <4>1
      <4>4. \A j \in 1 .. N + L : q.node[j].right # N + m
        BY <1>6, <2>1, <2>2, <4>2
      <4>5. QED
        BY <1>3, <2>7, <3>1, <4>1, <4>3, <4>4 DEF HeldLeft
    <3>4. CASE PP!AsRight(e, <<>>, L, m)
      <4>1. PICK i \in 1 .. L : \A j \in 1 .. L : e[j].right = m <=> j = i
        BY <3>4 DEF PP!AsRight, L
      <4>2. \A j \in 1 .. L : e[j].left # m
        BY <3>4 DEF PP!AsRight, L
      <4>3. \A j \in 1 .. N + L : q.node[j].right = N + m <=> j = N + i
        BY <1>6, <2>1, <2>2, <2>7, <4>1
      <4>4. \A j \in 1 .. N + L : q.node[j].left # N + m
        BY <1>6, <2>1, <2>2, <4>2
      <4>5. QED
        BY <1>3, <2>7, <3>1, <4>1, <4>3, <4>4 DEF HeldRight
    <3>5. QED
      BY <3>2, <3>3, <3>4
  <2>10. QED
    BY <2>8, <2>9
<1>10. q.root \in Seq(0 .. N + L)
  <2>1. \A k \in 1 .. K + 1 : q.root[k] \in 0 .. N + L
    <3>1. ASSUME NEW k \in 1 .. K
          PROVE  q.root[k] \in 0 .. N + L
      <4>1. q.root[k] \in 0 .. N
        BY <1>2, <1>3
      <4>2. QED
        BY <1>1, <1>2, <4>1
    <3>2. q.root[K + 1] \in 0 .. N + L
      BY <1>1, <1>2, <1>3
    <3>3. \A k \in 1 .. K + 1 : k \in 1 .. K \/ k = K + 1
      BY <1>2
    <3>4. QED
      BY <3>1, <3>2, <3>3
  <2>2. q.root = [k \in 1 .. K + 1 |-> q.root[k]] /\ K + 1 \in Nat
    BY <1>2, <1>3, LenProperties
  <2>3. q.root \in [1 .. K + 1 -> 0 .. N + L]
    BY <2>1, <2>2
  <2>4. QED
    BY <2>2, <2>3, SeqDef
<1>11. IsProgram(q)
  BY <1>3, <1>7, <1>10 DEF IsProgram
<1>12. QED
  BY <1>3, <1>6, <1>7, <1>8, <1>9, <1>11 DEF Sound, q

(* The empty program, and the k-th of the programs that Built defines. *)
NoLines == [node |-> <<>>, root |-> <<>>]
AfterLine(lines, f, k) == IF k = 0 THEN NoLines ELSE AddLine(f[k - 1], lines[k])

(* It begins sound. *)
LEMMA NoLinesSound == Sound(NoLines)
<1>1. /\ NoLines = [node |-> NoLines.node, root |-> NoLines.root]
      /\ NoLines.node = <<>> /\ NoLines.root = <<>>
  BY DEF NoLines
<1>2. Len(NoLines.node) = 0
  BY <1>1
<1>. HIDE DEF NoLines
<1>3. NoLines.node \in Seq(Nodes) /\ NoLines.root \in Seq(0 .. Len(NoLines.node))
  BY <1>1, EmptySeq
<1>4. IsProgram(NoLines)
  BY <1>1, <1>2, <1>3 DEF IsProgram
<1>5. QED
  BY <1>2, <1>4 DEF Sound

(* Program is defined by the recursion it is written with. *)
LEMMA BuiltDefined ==
  ASSUME NEW lines, lines \in Seq(Seq(Nodes))
  PROVE  \A k \in 0 .. Len(lines) : Built(lines)[k] = AfterLine(lines, Built(lines), k)
<1>. DEFINE N == Len(lines)
            V == [node : Seq(Nodes), root : Seq(Nat)]
            Fns == [0 .. N -> V]
            R == [fk \in Fns \X (0 .. N) |-> AfterLine(lines, fk[1], fk[2])]
<1>1. N \in Nat
  BY LenProperties
<1>2. NoLines \in V
  BY EmptySeq DEF NoLines
<1>3. ASSUME NEW p \in V, NEW e, e \in Seq(Nodes)
      PROVE  AddLine(p, e) \in V
  <2>1. p.node \in Seq(Nodes) /\ p.root \in Seq(Nat)
    OBVIOUS
  <2>2. LineAdded(p, e, AddLine(p, e))
    BY <1>3, <2>1, AddLineFields
  <2>3. QED
    BY <2>2 DEF LineAdded
<1>4. V # {}
  BY <1>2
<1>. HIDE DEF N, V
<1>5. ASSUME NEW f \in Fns, NEW k \in 0 .. N
      PROVE  AfterLine(lines, f, k) \in V
  <2>1. CASE k = 0
    BY <1>2, <2>1 DEF AfterLine
  <2>2. CASE k # 0
    <3>1. k - 1 \in 0 .. N /\ k \in 1 .. Len(lines)
      BY <1>1, <2>2 DEF N
    <3>2. f[k - 1] \in V /\ lines[k] \in Seq(Nodes)
      BY <3>1, ElementOfSeq
    <3>3. QED
      BY <1>3, <2>2, <3>2 DEF AfterLine
  <2>3. QED
    BY <2>1, <2>2
<1>6. \A f \in Fns, k \in 0 .. N : R[<<f, k>>] = AfterLine(lines, f, k)
  OBVIOUS
<1>7. R \in [Fns \X (0 .. N) -> V]
  BY <1>5
<1>. HIDE DEF R
<1>8. ASSUME NEW f \in Fns, NEW g \in Fns, NEW k \in 0 .. N, \A i \in 0 .. k - 1 : f[i] = g[i]
      PROVE  R[<<f, k>>] = R[<<g, k>>]
  <2>1. AfterLine(lines, f, k) = AfterLine(lines, g, k)
    <3>1. CASE k = 0
      BY <3>1 DEF AfterLine
    <3>2. CASE k # 0
      <4>1. k - 1 \in 0 .. k - 1
        BY <1>1, <3>2
      <4>2. f[k - 1] = g[k - 1]
        BY <1>8, <4>1
      <4>3. QED
        BY <4>2 DEF AfterLine
    <3>3. QED
      BY <3>1, <3>2
  <2>2. QED
    BY <1>6, <2>1
<1>9. PICK f \in Fns : \A k \in 0 .. N : f[k] = R[<<f, k>>]
  <2>1. R \in Rules(N, V)
    BY <1>7, <1>8 DEF Rules
  <2>2. \E f \in [0 .. N -> V] : FollowsRule(f, R, N)
    BY <1>1, <1>4, <2>1, RecursionExists
  <2>3. QED
    BY <2>2 DEF FollowsRule
<1>10. f = [k \in 0 .. N |-> AfterLine(lines, f, k)]
  BY <1>6, <1>9
<1>11. Built(lines) = [k \in 0 .. N |-> AfterLine(lines, Built(lines), k)]
  BY <1>10 DEF Built, AfterLine, NoLines, N
<1>12. QED
  BY <1>11 DEF N

(* Without a statement the program is empty. *)
LEMMA ProgramOfNone == Program(<<>>) = NoLines
<1>1. <<>> \in Seq(Seq(Nodes)) /\ Len(<<>>) = 0 /\ 0 \in 0 .. 0
  BY EmptySeq
<1>2. Built(<<>>)[0] = AfterLine(<<>>, Built(<<>>), 0)
  BY <1>1, BuiltDefined
<1>3. QED
  BY <1>1, <1>2 DEF Program, AfterLine

(* A statement more is a line more. *)
LEMMA ProgramAppend ==
  ASSUME NEW lines, lines \in Seq(Seq(Nodes)), NEW e, e \in Seq(Nodes)
  PROVE  Program(Append(lines, e)) = AddLine(Program(lines), e)
<1>. DEFINE more == Append(lines, e)
            N == Len(lines)
<1>1. /\ N \in Nat /\ more \in Seq(Seq(Nodes)) /\ Len(more) = N + 1
      /\ \A k \in 1 .. N : more[k] = lines[k]
      /\ more[N + 1] = e
  BY LenProperties, AppendProperties
<1>2. \A k \in 0 .. N : Built(lines)[k] = AfterLine(lines, Built(lines), k)
  BY BuiltDefined
<1>. HIDE DEF more, N
<1>3. \A k \in 0 .. N + 1 : Built(more)[k] = AfterLine(more, Built(more), k)
  BY <1>1, BuiltDefined
<1>. DEFINE S == {k \in Nat : k \in 0 .. N => Built(more)[k] = Built(lines)[k]}
<1>4. 0 \in S
  <2>1. 0 \in 0 .. N /\ 0 \in 0 .. N + 1
    BY <1>1
  <2>2. QED
    BY <1>2, <1>3, <2>1 DEF AfterLine
<1>5. ASSUME NEW k \in Nat, k \in S
      PROVE  k + 1 \in S
  <2>1. SUFFICES ASSUME k + 1 \in 0 .. N
                 PROVE  Built(more)[k + 1] = Built(lines)[k + 1]
    OBVIOUS
  <2>2. /\ k \in 0 .. N /\ k + 1 \in 0 .. N + 1 /\ k + 1 \in 1 .. N
        /\ k + 1 # 0 /\ (k + 1) - 1 = k
    BY <1>1, <2>1
  <2>3. Built(more)[k] = Built(lines)[k]
    BY <1>5, <2>2
  <2>4. Built(more)[k + 1] = AddLine(Built(more)[k], more[k + 1])
    BY <1>3, <2>2 DEF AfterLine
  <2>5. Built(lines)[k + 1] = AddLine(Built(lines)[k], lines[k + 1])
    BY <1>2, <2>1, <2>2 DEF AfterLine
  <2>6. QED
    BY <1>1, <2>2, <2>3, <2>4, <2>5
<1>6. Built(more)[N] = Built(lines)[N]
  <2>. HIDE DEF S
  <2>1. \A k \in Nat : k \in S
    BY <1>4, <1>5, SetInduction
  <2>2. N \in S /\ N \in 0 .. N
    BY <1>1, <2>1
  <2>3. QED
    BY <2>2 DEF S
<1>7. Built(more)[N + 1] = AddLine(Built(more)[N], more[N + 1])
  <2>1. N + 1 \in 0 .. N + 1 /\ N + 1 # 0 /\ (N + 1) - 1 = N
    BY <1>1
  <2>2. QED
    BY <1>3, <2>1 DEF AfterLine
<1>8. QED
  BY <1>1, <1>6, <1>7 DEF Program, more, N

-----------------------------------------------------------------------------
(* The order of the nodes.                                                 *)

(* f is the first node of each tree; the trees of the statements follow     *)
(* each other and leave no node out.                                       *)
Numbered(p, f) ==
  /\ PP!Ordered(p.node, f)
  /\ \A n \in 1 .. Len(p.node) :
       \E k \in 1 .. Len(p.root) : f[p.root[k]] <= n /\ n <= p.root[k]
  /\ \A k \in 1 .. Len(p.root) : p.root[k] # nullptr =>
       \A i \in 1 .. k - 1 : p.root[i] < f[p.root[k]]

(* The trees of a line come behind those that are there. *)
LEMMA AddLineNumbered ==
  ASSUME NEW p, Sound(p), NEW f \in [Nat -> Nat], Numbered(p, f), NEW e, PP!Statement(e)
  PROVE  \E g \in [Nat -> Nat] : Numbered(AddLine(p, e), g)
<1>. DEFINE q == AddLine(p, e)
<1>0. PICK h \in [Nat -> Nat] : PP!Ordered(e, h) /\ (Len(e) # 0 => h[Len(e)] = 1)
  BY DEF PP!Statement
<1>1. PICK N \in Nat, L \in Nat, K \in Nat : N = Len(p.node) /\ L = Len(e) /\ K = Len(p.root)
  BY SoundFields, SameTables, LenProperties DEF PP!Statement
<1>2. /\ e \in Seq(Nodes)
      /\ \A i \in 1 .. L : PP!WellFormed(e, i) /\ e[i] \in Nodes
      /\ p.node \in Seq(Nodes) /\ p.root \in Seq(Nat)
      /\ \A n \in 1 .. N : WellFormed(p.node, n)
      /\ \A k \in 1 .. K : p.root[k] \in 0 .. N
  <2>1. e \in Seq(Nodes) /\ \A i \in 1 .. L : PP!WellFormed(e, i)
    BY <1>1, SameTables DEF PP!Statement
  <2>2. \A i \in 1 .. L : e[i] \in Nodes
    BY <1>1, <2>1, ElementOfSeq
  <2>3. QED
    BY <1>1, <2>1, <2>2, SoundFields
<1>3. PP!Ordered(e, h) /\ (L # 0 => h[L] = 1)
  BY <1>0, <1>1
<1>4. /\ Len(q.node) = N + L
      /\ \A j \in 1 .. N : q.node[j] = p.node[j]
      /\ \A i \in 1 .. L :
           /\ q.node[N + i].type = e[i].type
           /\ q.node[N + i].left = IF e[i].left = 0 THEN 0 ELSE e[i].left + N
           /\ q.node[N + i].right = IF e[i].right = 0 THEN 0 ELSE e[i].right + N
      /\ Len(q.root) = K + 1
      /\ \A k \in 1 .. K : q.root[k] = p.root[k]
      /\ q.root[K + 1] = IF L = 0 THEN 0 ELSE N + L
  <2>1. LineAdded(p, e, q)
    BY <1>1, <1>2, AddLineFields
  <2>. HIDE DEF q
  <2>2. \A i \in 1 .. L :
          /\ Shift(e, N)[i].type = e[i].type
          /\ Shift(e, N)[i].left = IF e[i].left = 0 THEN 0 ELSE e[i].left + N
          /\ Shift(e, N)[i].right = IF e[i].right = 0 THEN 0 ELSE e[i].right + N
    <3>1. \A i \in 1 .. Len(e) :
            /\ Shift(e, N)[i].type = e[i].type
            /\ Shift(e, N)[i].left = IF e[i].left = 0 THEN 0 ELSE e[i].left + N
            /\ Shift(e, N)[i].right = IF e[i].right = 0 THEN 0 ELSE e[i].right + N
      BY <1>2, ShiftFields
    <3>2. QED
      BY <1>1, <3>1
  <2>3. e = <<>> <=> L = 0
    BY <1>1, <1>2, EmptySeq
  <2>4. \A i \in 1 .. L : q.node[N + i] = Shift(e, N)[i]
    BY <1>1, <2>1 DEF LineAdded
  <2>5. /\ Len(q.node) = N + L /\ Len(q.root) = K + 1
        /\ \A j \in 1 .. N : q.node[j] = p.node[j]
        /\ \A k \in 1 .. K : q.root[k] = p.root[k]
        /\ q.root[K + 1] = IF e = <<>> THEN 0 ELSE N + L
    BY <1>1, <2>1 DEF LineAdded
  <2>6. QED
    BY <2>2, <2>3, <2>4, <2>5
<1>. HIDE DEF q
<1>. DEFINE g == [n \in Nat |-> IF n <= N THEN f[n] ELSE IF n - N \in Nat THEN h[n - N] + N ELSE 0]
<1>5. /\ g \in [Nat -> Nat]
      /\ \A n \in 0 .. N : g[n] = f[n]
      /\ \A i \in 1 .. L : g[N + i] = h[i] + N
  <2>1. g \in [Nat -> Nat] /\ \A n \in 0 .. N : g[n] = f[n]
    OBVIOUS
  <2>2. ASSUME NEW i \in 1 .. L
        PROVE  g[N + i] = h[i] + N
    <3>1. N + i \in Nat /\ ~ (N + i <= N) /\ (N + i) - N = i /\ i \in Nat
      OBVIOUS
    <3>2. QED
      BY <3>1
  <2>3. QED
    BY <2>1, <2>2
<1>. HIDE DEF g
<1>6. \A n \in 1 .. N + L : n \in 1 .. N \/ \E i \in 1 .. L : n = N + i
  <2>1. ASSUME NEW n \in 1 .. N + L, n \notin 1 .. N
        PROVE  n - N \in 1 .. L /\ n = N + (n - N)
    BY <2>1
  <2>2. QED
    BY <2>1
<1>. DEFINE Right(n) == /\ g[n] \in 1 .. n
                        /\ g[n] = PP!FirstOf(q.node, g, n)
                        /\ q.node[n].type \in {"BINOP", "UNRYOP", "ASSIGN"} => q.node[n].right = n - 1
                        /\ q.node[n].type = "BINOP" => q.node[n].left = g[q.node[n].right] - 1
<1>7. ASSUME NEW n \in 1 .. N
      PROVE  Right(n)
  <2>1. /\ f[n] \in 1 .. n /\ f[n] = PP!FirstOf(p.node, f, n)
        /\ p.node[n].type \in {"BINOP", "UNRYOP", "ASSIGN"} => p.node[n].right = n - 1
        /\ p.node[n].type = "BINOP" => p.node[n].left = f[p.node[n].right] - 1
    BY <1>1 DEF Numbered, PP!Ordered
  <2>2. /\ p.node[n].type = "BINOP" => p.node[n].left \in 0 .. N
        /\ p.node[n].type \in {"BINOP", "UNRYOP", "ASSIGN"} => p.node[n].right \in 0 .. N
    <3>1. \A i \in 1 .. n - 1 : i \in 0 .. N
      OBVIOUS
    <3>2. WellFormed(p.node, n)
      BY <1>2
    <3>3. QED
      BY <3>1, <3>2 DEF WellFormed
  <2>3. q.node[n] = p.node[n] /\ g[n] = f[n]
    <3>1. n \in 0 .. N
      OBVIOUS
    <3>2. QED
      BY <1>4, <1>5, <3>1
  <2>4. PP!FirstOf(q.node, g, n) = PP!FirstOf(p.node, f, n)
    BY <1>5, <2>2, <2>3 DEF PP!FirstOf
  <2>5. p.node[n].type = "BINOP" => g[p.node[n].right] = f[p.node[n].right]
    BY <1>5, <2>2
  <2>6. QED
    BY <2>1, <2>3, <2>4, <2>5
<1>8. ASSUME NEW i \in 1 .. L
      PROVE  Right(N + i)
  <2>1. /\ h[i] \in 1 .. i /\ h[i] = PP!FirstOf(e, h, i)
        /\ e[i].type \in {"BINOP", "UNRYOP", "ASSIGN"} => e[i].right = i - 1
        /\ e[i].type = "BINOP" => e[i].left = h[e[i].right] - 1
    BY <1>1, <1>3 DEF PP!Ordered
  <2>2. /\ e[i].type = "BINOP" => e[i].left \in 1 .. L /\ e[i].left # 0
        /\ e[i].type \in {"BINOP", "UNRYOP", "ASSIGN"} => e[i].right \in 1 .. L /\ e[i].right # 0
    <3>1. \A j \in 1 .. i - 1 : j \in 1 .. L /\ j # 0
      OBVIOUS
    <3>2. PP!WellFormed(e, i)
      BY <1>2
    <3>3. QED
      BY <3>1, <3>2 DEF PP!WellFormed
  <2>3. /\ q.node[N + i].type = e[i].type
        /\ e[i].type = "BINOP" => q.node[N + i].left = N + e[i].left
        /\ e[i].type \in {"BINOP", "UNRYOP", "ASSIGN"} => q.node[N + i].right = N + e[i].right
    <3>1. \A j \in 1 .. L : j + N = N + j
      OBVIOUS
    <3>2. QED
      BY <1>4, <2>2, <3>1
  <2>4. PP!FirstOf(q.node, g, N + i) = g[N + i]
    <3>1. /\ e[i].type = "BINOP" => g[N + e[i].left] = h[e[i].left] + N
          /\ e[i].type \in {"BINOP", "UNRYOP", "ASSIGN"} => g[N + e[i].right] = h[e[i].right] + N
          /\ g[N + i] = h[i] + N
      BY <1>5, <2>2
    <3>2. i + N = N + i
      OBVIOUS
    <3>3. CASE e[i].type = "BINOP"
      BY <2>1, <2>3, <3>1, <3>3 DEF PP!FirstOf
    <3>4. CASE e[i].type \in {"UNRYOP", "ASSIGN"}
      BY <2>1, <2>3, <3>1, <3>4 DEF PP!FirstOf
    <3>5. CASE e[i].type \notin {"BINOP", "UNRYOP", "ASSIGN"}
      <4>1. h[i] = i
        BY <2>1, <3>5 DEF PP!FirstOf
      <4>2. PP!FirstOf(q.node, g, N + i) = N + i
        BY <2>3, <3>5 DEF PP!FirstOf
      <4>3. QED
        BY <3>1, <3>2, <4>1, <4>2
    <3>6. QED
      BY <3>3, <3>4, <3>5
  <2>5. g[N + i] \in 1 .. N + i
    <3>1. h[i] \in 1 .. i /\ g[N + i] = h[i] + N
      BY <1>5, <2>1
    <3>2. QED
      BY <3>1
  <2>6. e[i].type \in {"BINOP", "UNRYOP", "ASSIGN"} => q.node[N + i].right = (N + i) - 1
    <3>1. N + (i - 1) = (N + i) - 1
      OBVIOUS
    <3>2. QED
      BY <2>1, <2>3, <3>1
  <2>7. e[i].type = "BINOP" => q.node[N + i].left = g[q.node[N + i].right] - 1
    <3>1. ASSUME e[i].type = "BINOP"
          PROVE  q.node[N + i].left = g[q.node[N + i].right] - 1
      <4>1. /\ q.node[N + i].left = N + e[i].left /\ q.node[N + i].right = N + e[i].right
            /\ e[i].left = h[e[i].right] - 1 /\ e[i].right \in 1 .. L
        BY <2>1, <2>2, <2>3, <3>1
      <4>2. g[N + e[i].right] = h[e[i].right] + N /\ h[e[i].right] \in Nat
        BY <1>5, <4>1
      <4>3. \A y \in Nat : N + (y - 1) = (y + N) - 1
        OBVIOUS
      <4>4. QED
        BY <4>1, <4>2, <4>3
    <3>2. QED
      BY <3>1
  <2>8. QED
    BY <2>3, <2>4, <2>5, <2>6, <2>7
<1>9. PP!Ordered(q.node, g)
  <2>1. ASSUME NEW n \in 1 .. N + L
        PROVE  Right(n)
    <3>. HIDE DEF Right
    <3>1. QED
      BY <1>6, <1>7, <1>8
  <2>2. QED
    BY <1>4, <2>1 DEF PP!Ordered
<1>10. ASSUME NEW n \in 1 .. N + L
       PROVE  \E k \in 1 .. K + 1 : g[q.root[k]] <= n /\ n <= q.root[k]
  <2>1. CASE n \in 1 .. N
    <3>1. PICK k \in 1 .. K : f[p.root[k]] <= n /\ n <= p.root[k]
      BY <1>1, <2>1 DEF Numbered
    <3>2. k \in 1 .. K + 1
      OBVIOUS
    <3>3. q.root[k] = p.root[k] /\ g[p.root[k]] = f[p.root[k]]
      BY <1>2, <1>4, <1>5
    <3>4. QED
      BY <3>1, <3>2, <3>3
  <2>2. ASSUME NEW i \in 1 .. L, n = N + i
        PROVE  g[q.root[K + 1]] <= n /\ n <= q.root[K + 1]
    <3>1. L # 0 /\ L \in 1 .. L /\ q.root[K + 1] = N + L
      <4>1. L # 0 /\ L \in 1 .. L
        OBVIOUS
      <4>2. QED
        BY <1>4, <4>1
    <3>2. g[N + L] = 1 + N
      BY <1>3, <1>5, <3>1
    <3>3. 1 + N <= n /\ n <= N + L
      BY <2>2
    <3>4. QED
      BY <3>1, <3>2, <3>3
  <2>3. K + 1 \in 1 .. K + 1
    OBVIOUS
  <2>4. QED
    BY <1>6, <2>1, <2>2, <2>3
<1>11. ASSUME NEW k \in 1 .. K + 1, q.root[k] # 0, NEW i \in 1 .. k - 1
       PROVE  q.root[i] < g[q.root[k]]
  <2>1. i \in 1 .. K /\ q.root[i] = p.root[i] /\ p.root[i] \in 0 .. N
    <3>1. i \in 1 .. K
      OBVIOUS
    <3>2. QED
      BY <1>2, <1>4, <3>1
  <2>2. CASE k \in 1 .. K
    <3>1. q.root[k] = p.root[k] /\ g[p.root[k]] = f[p.root[k]]
      BY <1>2, <1>4, <1>5, <2>2
    <3>2. p.root[i] < f[p.root[k]]
      BY <1>1, <1>11, <2>2, <3>1 DEF Numbered, nullptr
    <3>3. QED
      BY <2>1, <3>1, <3>2
  <2>3. CASE k = K + 1
    <3>1. L # 0 /\ L \in 1 .. L /\ q.root[k] = N + L
      <4>1. q.root[k] = IF L = 0 THEN 0 ELSE N + L
        BY <1>4, <2>3
      <4>2. L # 0
        BY <1>11, <4>1
      <4>3. L \in 1 .. L
        BY <4>2
      <4>4. QED
        BY <4>1, <4>2, <4>3
    <3>2. g[N + L] = 1 + N
      BY <1>3, <1>5, <3>1
    <3>3. \A y \in 0 .. N : y < 1 + N
      OBVIOUS
    <3>4. QED
      BY <2>1, <3>1, <3>2, <3>3
  <2>4. k \in 1 .. K \/ k = K + 1
    OBVIOUS
  <2>5. QED
    BY <2>2, <2>3, <2>4
<1>12. Numbered(q, g)
  BY <1>4, <1>9, <1>10, <1>11 DEF Numbered, nullptr
<1>13. QED
  BY <1>5, <1>12 DEF q

(* The first nodes of the trees are those that FirstNode finds. *)
LEMMA FirstNodeIs ==
  ASSUME NEW p, Sound(p), NEW f \in [Nat -> Nat], PP!Ordered(p.node, f)
  PROVE  \A n \in 1 .. Len(p.node) : FirstNode(p)[n] = f[n]
<1>. DEFINE Below(F, n) == IF n = nullptr THEN nullptr
                           ELSE CASE p.node[n].type = "BINOP"                -> F[p.node[n].left]
                                  [] p.node[n].type \in {"UNRYOP", "ASSIGN"} -> F[p.node[n].right]
                                  [] OTHER                                   -> n
<1>1. PICK N \in Nat : N = Len(p.node)
  BY SoundFields
<1>. DEFINE h == [n \in 0 .. N |-> IF n = 0 THEN 0 ELSE f[n]]
            F == FirstNode(p)
<1>2. \A n \in 1 .. N :
        /\ f[n] = PP!FirstOf(p.node, f, n)
        /\ p.node[n].type = "BINOP" => p.node[n].left \in 1 .. N /\ p.node[n].left \in 0 .. n - 1
        /\ p.node[n].type \in {"UNRYOP", "ASSIGN"} =>
             p.node[n].right \in 1 .. N /\ p.node[n].right \in 0 .. n - 1
  <2>1. ASSUME NEW n \in 1 .. N
        PROVE  /\ f[n] = PP!FirstOf(p.node, f, n)
               /\ WellFormed(p.node, n)
               /\ \A i \in 1 .. n - 1 : i \in 1 .. N /\ i \in 0 .. n - 1
    <3>1. f[n] = PP!FirstOf(p.node, f, n)
      BY <1>1 DEF PP!Ordered
    <3>2. WellFormed(p.node, n)
      BY <1>1, SoundFields
    <3>3. \A i \in 1 .. n - 1 : i \in 1 .. N /\ i \in 0 .. n - 1
      OBVIOUS
    <3>4. QED
      BY <3>1, <3>2, <3>3
  <2>2. QED
    BY <2>1 DEF WellFormed
<1>3. ASSUME NEW n \in 0 .. N
      PROVE  h[n] = Below(h, n)
  <2>1. CASE n = 0
    BY <2>1 DEF nullptr
  <2>2. CASE n # 0
    <3>1. n \in 1 .. N /\ h[n] = f[n] /\ n # nullptr
      BY <1>1, <2>2 DEF nullptr
    <3>2. \A i \in 1 .. N : h[i] = f[i]
      BY <1>1
    <3>. HIDE DEF h
    <3>3. QED
      BY <1>2, <3>1, <3>2 DEF PP!FirstOf
  <2>3. QED
    BY <2>1, <2>2
<1>4. h = [n \in 0 .. N |-> Below(h, n)]
  BY <1>3
<1>5. F = [n \in 0 .. N |-> Below(F, n)]
  BY <1>1, <1>4 DEF FirstNode
<1>. DEFINE S == {n \in Nat : n \in 0 .. N => F[n] = h[n]}
<1>. HIDE DEF F, h
<1>6. ASSUME NEW n \in Nat, \A m \in 0 .. n - 1 : m \in S
      PROVE  n \in S
  <2>1. SUFFICES ASSUME n \in 0 .. N
                 PROVE  F[n] = h[n]
    OBVIOUS
  <2>2. \A i \in 0 .. n - 1 : F[i] = h[i]
    BY <1>1, <1>6, <2>1
  <2>3. F[n] = Below(F, n) /\ h[n] = Below(h, n)
    <3>. HIDE DEF Below
    <3>1. QED
      BY <1>3, <1>5, <2>1
  <2>4. CASE n = nullptr
    BY <2>3, <2>4
  <2>5. CASE n # nullptr
    <3>1. n \in 1 .. N
      BY <1>1, <2>1, <2>5 DEF nullptr
    <3>2. QED
      BY <1>2, <2>2, <2>3, <2>5, <3>1
  <2>6. QED
    BY <2>4, <2>5
<1>7. \A n \in Nat : n \in S
  <2>. HIDE DEF S
  <2>1. QED
    BY <1>6, StrongSetInduction
<1>8. ASSUME NEW n \in 1 .. N
      PROVE  F[n] = f[n]
  <2>1. n \in Nat /\ n \in 0 .. N /\ n # 0
    BY <1>1
  <2>2. F[n] = h[n]
    BY <1>7, <2>1
  <2>3. QED
    BY <2>1, <2>2 DEF h
<1>9. QED
  BY <1>1, <1>8 DEF F

(* So a numbered program is in the order of the text. *)
LEMMA NumberedInOrder ==
  ASSUME NEW p, Sound(p), NEW f \in [Nat -> Nat], Numbered(p, f)
  PROVE  InTextOrder(p)
<1>1. PICK N \in Nat, K \in Nat : N = Len(p.node) /\ K = Len(p.root)
  BY SoundFields
<1>2. PICK first : first = FirstNode(p)
  OBVIOUS
<1>3. /\ \A n \in 1 .. N : first[n] = f[n] /\ WellFormed(p.node, n)
      /\ \A k \in 1 .. K : p.root[k] \in 0 .. N
  <2>1. PP!Ordered(p.node, f)
    BY DEF Numbered
  <2>2. QED
    BY <1>1, <1>2, <2>1, FirstNodeIs, SoundFields
<1>4. ASSUME NEW n \in 1 .. N
      PROVE  /\ p.node[n].type \in {"BINOP", "UNRYOP", "ASSIGN"} => p.node[n].right = n - 1
             /\ p.node[n].type = "BINOP" => p.node[n].left = first[p.node[n].right] - 1
             /\ \E k \in 1 .. K : first[p.root[k]] <= n /\ n <= p.root[k]
  <2>1. /\ p.node[n].type \in {"BINOP", "UNRYOP", "ASSIGN"} => p.node[n].right = n - 1
        /\ p.node[n].type = "BINOP" => p.node[n].left = f[p.node[n].right] - 1
    BY <1>1 DEF Numbered, PP!Ordered
  <2>2. p.node[n].type = "BINOP" => p.node[n].right \in 1 .. N
    <3>1. \A i \in 1 .. n - 1 : i \in 1 .. N
      OBVIOUS
    <3>2. WellFormed(p.node, n)
      BY <1>3
    <3>3. QED
      BY <3>1, <3>2 DEF WellFormed
  <2>3. PICK k \in 1 .. K : f[p.root[k]] <= n /\ n <= p.root[k]
    BY <1>1 DEF Numbered
  <2>4. p.root[k] \in 1 .. N
    <3>1. p.root[k] \in 0 .. N
      BY <1>3
    <3>2. QED
      BY <2>3, <3>1
  <2>5. QED
    BY <1>3, <2>1, <2>2, <2>3, <2>4
<1>5. ASSUME NEW k \in 1 .. K, p.root[k] # nullptr, NEW i \in 1 .. k - 1
      PROVE  p.root[i] < first[p.root[k]]
  <2>1. p.root[i] < f[p.root[k]]
    BY <1>1, <1>5 DEF Numbered
  <2>2. p.root[k] \in 1 .. N
    <3>1. p.root[k] \in 0 .. N
      BY <1>3
    <3>2. QED
      BY <1>5, <3>1 DEF nullptr
  <2>3. QED
    BY <1>3, <2>1, <2>2
<1>6. QED
  BY <1>1, <1>2, <1>4, <1>5 DEF InTextOrder

-----------------------------------------------------------------------------
(* What is scanned.                                                        *)

(* The parser understands what is scanned. *)
Understood(t) ==
  /\ ForParser(t) \in PP!TokenRecords
  /\ t.type = "ID" => t.name \in Names

TokensKnown == \A k \in 1 .. Len(m_Tokens) : Understood(m_Tokens[k])

(* An empty text has no error, and a blank one nothing at all. *)
BlankInv ==
  /\ m_HasError => m_Text # <<>>
  /\ Blank(m_Text) => m_Tokens = <<>> /\ ~ m_HasError /\ scanning # "out_of_range"

(* The types of the symbols. *)
SymbolTypes == {"ADD", "SUB", "NOT", "MUL", "DIV", "LROUND", "RROUND", "ASSIGN", "LESS",
                "GREATER", "EQUAL", "LESS_EQ", "GREATER_EQ", "KW_AND", "KW_OR"}

(* A symbol is a token for the parser. *)
LEMMA SymbolUnderstood ==
  ASSUME NEW type \in SymbolTypes, NEW start, NEW end
  PROVE  Understood(Symbol(type, start, end))
<1>1. /\ ForParser(Symbol(type, start, end)) = [type |-> type, name |-> "", num |-> 0]
      /\ Symbol(type, start, end).type = type
  BY DEF ForParser, Symbol, Token
<1>2. type \in PP!TokenTypes /\ type # "ID"
  BY DEF SymbolTypes, PP!TokenTypes, PP!Tokens, PP!NumberTokens, PP!ArithOps, PP!LogicOps,
     PP!CmpOps, PP!UnaryOps
<1>3. [type |-> type, name |-> "", num |-> 0] \in PP!TokenRecords
  BY <1>2 DEF PP!TokenRecords
<1>4. QED
  BY <1>1, <1>2, <1>3 DEF Understood

(* So are numbers and names that are known. *)
LEMMA TokenUnderstood ==
  ASSUME NEW type \in {"INT", "FLOAT", "ID"}, NEW name \in Names \cup {""},
         NEW num \in Literals \cup {0}, type = "ID" => name \in Names,
         NEW frac, NEW start, NEW end
  PROVE  Understood(Token(type, name, num, frac, start, end))
<1>1. /\ ForParser(Token(type, name, num, frac, start, end))
            = [type |-> type, name |-> name, num |-> num]
      /\ Token(type, name, num, frac, start, end).type = type
      /\ Token(type, name, num, frac, start, end).name = name
  BY DEF ForParser, Token
<1>2. type \in PP!TokenTypes
  BY DEF PP!TokenTypes, PP!Tokens, PP!NumberTokens
<1>3. [type |-> type, name |-> name, num |-> num] \in PP!TokenRecords
  BY <1>2 DEF PP!TokenRecords
<1>4. QED
  BY <1>1, <1>2, <1>3 DEF Understood

(* A token more that is understood. *)
LEMMA KnownEmit ==
  ASSUME TokensInv, TokensKnown, NEW t, Emit(t), Understood(t)
  PROVE  TokensKnown'
<1>1. m_Tokens' = Append(m_Tokens, t) /\ m_Tokens \in Seq(Entries(m_Tokens))
  BY DEF Emit, TokensInv
<1>2. /\ Len(m_Tokens) \in Nat /\ Len(m_Tokens') = Len(m_Tokens) + 1
      /\ \A k \in 1 .. Len(m_Tokens) : m_Tokens'[k] = m_Tokens[k]
      /\ m_Tokens'[Len(m_Tokens) + 1] = t
  BY <1>1, AppendEntry
<1>3. ASSUME NEW k \in 1 .. Len(m_Tokens')
      PROVE  Understood(m_Tokens'[k])
  <2>1. k \in 1 .. Len(m_Tokens) \/ k = Len(m_Tokens) + 1
    BY <1>2
  <2>2. QED
    BY <1>2, <2>1 DEF TokensKnown
<1>4. QED
  BY <1>3 DEF TokensKnown

(* Every iteration makes a token that is understood, or none. *)
LEMMA KnownStep ==
  ASSUME LexerInv, TokensKnown, SpellsKnown(m_Text), LexerNext
  PROVE  TokensKnown'
<1>1. CursorInv /\ TokensInv
  BY DEF LexerInv
<1>2. CASE UNCHANGED m_Tokens
  BY <1>2 DEF TokensKnown
<1>3. CASE make_number
  <2>. DEFINE p == at.m_CharPtr
              n == Run(Digits \cup {"."})
              s == SubSeq(m_Text, p + 1, p + n)
  <2>1. p # NullPtr /\ Char(p) \in Digits
    BY <1>3 DEF make_number, Scanning
  <2>2. NUL \notin Digits \cup {"."}
    BY DEF NUL, Digits, DigitValue
  <2>3. p \in Nat /\ n \in Nat \ {0} /\ p + n <= m_TextSize
    BY <1>1, <2>1, <2>2, RunIsMaximal
  <2>4. IsNumber(s)
    BY <1>1, <2>1, NumberSpelled DEF Piece
  <2>5. \/ UNCHANGED m_Tokens
        \/ /\ ~ TooLarge(s)
           /\ Emit(Token(IF Dots(s) = 0 THEN "INT" ELSE "FLOAT", "", Mantissa(s), Fraction(s),
                         Here, get_current_pos(After(n))))
    BY <1>3 DEF make_number
  <2>6. m_TextSize \in Nat /\ m_TextSize = Len(m_Text)
    BY <1>1, CursorFields DEF m_TextSize
  <2>. HIDE DEF p, n
  <2>7. p + 1 \in 1 .. Len(m_Text) /\ p + n \in p + 1 .. Len(m_Text)
    BY <2>3, <2>6
  <2>8. ~ TooLarge(s) => Mantissa(s) \in Literals \cup {0}
    BY <2>4, <2>7 DEF SpellsKnown
  <2>. HIDE DEF s
  <2>9. (IF Dots(s) = 0 THEN "INT" ELSE "FLOAT") \in {"INT", "FLOAT", "ID"} \ {"ID"}
    OBVIOUS
  <2>10. ~ TooLarge(s) =>
           Understood(Token(IF Dots(s) = 0 THEN "INT" ELSE "FLOAT", "", Mantissa(s),
                            Fraction(s), Here, get_current_pos(After(n))))
    BY <2>8, <2>9, TokenUnderstood
  <2>11. QED
    BY <1>1, <1>2, <2>5, <2>10, KnownEmit
<1>4. CASE make_identifier
  <2>. DEFINE p == at.m_CharPtr
              n == Run(LETTERS)
              s == SubSeq(m_Text, p + 1, p + n)
  <2>1. p # NullPtr /\ Char(p) \in LETTERS
    BY <1>4 DEF make_identifier, Scanning
  <2>2. NUL \notin LETTERS
    BY DEF NUL, LETTERS
  <2>3. p \in Nat /\ n \in Nat \ {0} /\ p + n <= m_TextSize
    BY <1>1, <2>1, <2>2, RunIsMaximal
  <2>4. IsWord(s)
    BY <1>1, <2>1, WordSpelled DEF Piece
  <2>5. Emit(Token("ID", Joined(s), 0, 0, Here, get_current_pos(After(n))))
    BY <1>4 DEF make_identifier
  <2>6. m_TextSize \in Nat /\ m_TextSize = Len(m_Text)
    BY <1>1, CursorFields DEF m_TextSize
  <2>. HIDE DEF p, n
  <2>7. p + 1 \in 1 .. Len(m_Text) /\ p + n \in p + 1 .. Len(m_Text)
    BY <2>3, <2>6
  <2>8. Joined(s) \in Names
    BY <2>4, <2>7 DEF SpellsKnown
  <2>. HIDE DEF s
  <2>9. Understood(Token("ID", Joined(s), 0, 0, Here, get_current_pos(After(n))))
    BY <2>8, TokenUnderstood
  <2>10. QED
    BY <1>1, <2>5, <2>9, KnownEmit
<1>5. CASE make_single
  <2>1. Char(at.m_CharPtr) \in DOMAIN Singles
    BY <1>5 DEF make_single, Scanning
  <2>2. Singles[Char(at.m_CharPtr)] \in SymbolTypes
    BY <2>1 DEF Singles, SymbolTypes
  <2>3. QED
    BY <1>1, <1>5, <2>2, SymbolUnderstood, KnownEmit DEF make_single
<1>6. CASE make_relation
  <2>. DEFINE c == Char(at.m_CharPtr)
  <2>1. c \in DOMAIN Alone
    BY <1>6 DEF make_relation, Scanning
  <2>2. WithEqual[c] \in SymbolTypes /\ Alone[c] \in SymbolTypes
    BY <2>1, RelationTypes DEF SymbolTypes
  <2>3. PICK length \in {1, 2} :
          Emit(Symbol(IF length = 2 THEN WithEqual[c] ELSE Alone[c], Here,
                      get_current_pos(After(length))))
    BY <1>6 DEF make_relation
  <2>4. (IF length = 2 THEN WithEqual[c] ELSE Alone[c]) \in SymbolTypes
    BY <2>2
  <2>5. QED
    BY <1>1, <2>3, <2>4, SymbolUnderstood, KnownEmit
<1>7. CASE make_doubled
  <2>1. Char(at.m_CharPtr) \in DOMAIN Doubled
    BY <1>7 DEF make_doubled, Scanning
  <2>2. Doubled[Char(at.m_CharPtr)] \in SymbolTypes
    BY <2>1 DEF Doubled, SymbolTypes
  <2>3. QED
    BY <1>1, <1>7, <2>2, SymbolUnderstood, KnownEmit DEF make_doubled
<1>8. CASE SkipSpace \/ expect_char \/ illegal_char \/ EndOfText
  BY <1>2, <1>8 DEF SkipSpace, expect_char, illegal_char, EndOfText, Report
<1>9. QED
  BY <1>3, <1>4, <1>5, <1>6, <1>7, <1>8 DEF LexerNext

(* In a blank text there is nothing but spaces. *)
LEMMA BlankStep ==
  ASSUME LexerInv, BlankInv, LexerNext
  PROVE  BlankInv'
<1>1. CursorInv /\ m_Text' = m_Text
  BY DEF LexerInv, LexerNext, SkipSpace, make_number, make_identifier, make_single,
     make_relation, make_doubled, expect_char, illegal_char, EndOfText
<1>2. m_TextSize \in Nat /\ m_TextSize = Len(m_Text)
  BY <1>1, CursorFields DEF m_TextSize
<1>3. at.m_CharPtr # NullPtr => at.m_CharPtr \in Nat
  BY <1>1, CursorFields
<1>4. m_HasError' => m_Text # <<>>
  <2>1. CASE m_HasError' = m_HasError
    BY <2>1 DEF BlankInv
  <2>2. CASE expect_char \/ illegal_char
    <3>1. at.m_CharPtr # NullPtr /\ Char(at.m_CharPtr) # NUL
      BY <2>2 DEF expect_char, illegal_char, Scanning, Known, Doubled, NUL
    <3>2. at.m_CharPtr < m_TextSize
      BY <3>1 DEF Char
    <3>3. m_TextSize # 0
      BY <1>2, <1>3, <3>1, <3>2
    <3>4. QED
      BY <1>2, <3>3
  <2>3. QED
    BY <2>1, <2>2 DEF LexerNext, SkipSpace, make_number, make_identifier, make_single,
       make_relation, make_doubled, EndOfText, Emit
<1>5. ASSUME Blank(m_Text)
      PROVE  m_Tokens' = <<>> /\ ~ m_HasError' /\ scanning' # "out_of_range"
  <2>1. m_Tokens = <<>> /\ ~ m_HasError /\ scanning # "out_of_range"
    BY <1>5 DEF BlankInv
  <2>2. at.m_CharPtr # NullPtr => Char(at.m_CharPtr) \in Spaces \cup {NUL}
    <3>1. ASSUME at.m_CharPtr # NullPtr, at.m_CharPtr < m_TextSize
          PROVE  at.m_CharPtr + 1 \in 1 .. Len(m_Text)
      BY <1>2, <1>3, <3>1
    <3>2. QED
      BY <1>5, <3>1 DEF Char, Blank
  <2>3. /\ (Spaces \cup {NUL}) \cap Digits = {}
        /\ (Spaces \cup {NUL}) \cap LETTERS = {}
        /\ (Spaces \cup {NUL}) \cap DOMAIN Singles = {}
        /\ (Spaces \cup {NUL}) \cap DOMAIN Alone = {}
        /\ (Spaces \cup {NUL}) \cap DOMAIN Doubled = {}
        /\ Spaces \cup {NUL} \subseteq Known
    BY DEF Spaces, NUL, Digits, DigitValue, LETTERS, Singles, Alone, Doubled, Known
  <2>4. CASE SkipSpace
    BY <2>1, <2>4 DEF SkipSpace
  <2>5. CASE EndOfText
    BY <2>1, <2>5 DEF EndOfText
  <2>6. QED
    BY <2>2, <2>3, <2>4, <2>5 DEF LexerNext, make_number, make_identifier, make_single,
       make_relation, make_doubled, expect_char, illegal_char, Scanning
<1>6. QED
  BY <1>1, <1>4, <1>5 DEF BlankInv

-----------------------------------------------------------------------------
(* What is shown of a line.                                                *)

(* A message about columns of a line that is not empty is in line. *)
LEMMA MessageShown ==
  ASSUME NEW line, line \in Seq(STRING), line # <<>>, NEW start, NEW end,
         start.column \in 0 .. Len(line) + 1, end.column \in 0 .. Len(line) + 1,
         start.column < end.column
  PROVE  LET message == generate_message(<<line>>, start, end)
         IN  message \in Messages /\ message.thrown = "none" /\ InLine(message, line)
<1>1. Len(line) \in Nat
  BY LenProperties
<1>2. generate_message(<<line>>, start, end)
        = [thrown |-> "none", shown |-> line, from |-> start.column, to |-> end.column]
  BY <1>1 DEF generate_message, get_error_preview
<1>3. start.column \in Nat /\ end.column \in Nat
  BY <1>1
<1>4. QED
  BY <1>1, <1>2, <1>3 DEF Messages, InLine

(* The error of the lexer can be shown. *)
LEMMA ErrorShown ==
  ASSUME LexerInv, BlankInv, m_HasError
  PROVE  LET message == generate_message(<<m_Text>>, m_Error.start_pos, m_Error.end_pos)
         IN  message \in Messages /\ message.thrown = "none" /\ InLine(message, m_Text)
<1>1. m_Text \in Seq(STRING) /\ m_Text # <<>> /\ m_TextSize = Len(m_Text)
  BY DEF LexerInv, CursorInv, BlankInv, m_TextSize
<1>2. /\ m_Error.start_pos \in Positions /\ m_Error.end_pos \in Positions
      /\ m_Error.start_pos.column < m_Error.end_pos.column
  BY DEF LexerInv, ErrorInv, ErrorsPlaced
<1>3. /\ m_Error.start_pos.column \in 0 .. Len(m_Text) + 1
      /\ m_Error.end_pos.column \in 0 .. Len(m_Text) + 1
  BY <1>1, <1>2 DEF Positions
<1>4. QED
  BY <1>1, <1>2, <1>3, MessageShown

(* So can any token. *)
LEMMA TokenShown ==
  ASSUME LexerInv, NEW k \in 1 .. Len(m_Tokens)
  PROVE  LET message == generate_message(<<m_Text>>, m_Tokens[k].start_pos, m_Tokens[k].end_pos)
         IN  message \in Messages /\ message.thrown = "none" /\ InLine(message, m_Text)
<1>1. m_Text \in Seq(STRING) /\ m_TextSize = Len(m_Text) /\ m_TextSize \in Nat
  BY LenProperties DEF LexerInv, CursorInv, m_TextSize
<1>2. PICK a \in 0 .. m_TextSize, b \in 0 .. m_TextSize :
        a < b /\ m_Tokens[k].start_pos = PosOf(a) /\ m_Tokens[k].end_pos = PosOf(b)
  BY DEF LexerInv, TokensInv, Placed
<1>3. m_Tokens[k].start_pos.column = a /\ m_Tokens[k].end_pos.column = b
  BY <1>2 DEF PosOf
<1>4. m_Text # <<>>
  BY <1>1, <1>2
<1>5. a \in 0 .. Len(m_Text) + 1 /\ b \in 0 .. Len(m_Text) + 1
  BY <1>1
<1>6. QED
  BY <1>1, <1>2, <1>3, <1>4, <1>5, MessageShown

-----------------------------------------------------------------------------
(* The deletion.                                                           *)

In(s, n) == \E i \in 1 .. Len(s) : s[i] = n

IsRoot(p, n) == \E k \in 1 .. Len(p.root) : p.root[k] = n

IsOperand(nd, n) == nd.left = n \/ nd.right = n

(* What is pending or freed is what a freed node, or the root, has pushed,  *)
(* and each of it is there once. *)
Deleting(p, waiting, gone) ==
  /\ waiting \in Seq(1 .. Len(p.node)) /\ gone \in Seq(1 .. Len(p.node))
  /\ \A i, j \in 1 .. Len(waiting) : waiting[i] = waiting[j] => i = j
  /\ \A i, j \in 1 .. Len(gone) : gone[i] = gone[j] => i = j
  /\ \A i \in 1 .. Len(waiting), j \in 1 .. Len(gone) : waiting[i] # gone[j]
  /\ \A n \in 1 .. Len(p.node) :
       In(waiting, n) \/ In(gone, n)
         <=> IsRoot(p, n) \/ \E j \in 1 .. Len(gone) : IsOperand(p.node[gone[j]], n)

(* It begins with the statements. *)
LEMMA DeletionBegins ==
  ASSUME NEW p, Sound(p), \A k \in 1 .. Len(p.root) : p.root[k] # nullptr
  PROVE  Deleting(p, p.root, <<>>)
<1>1. /\ Len(p.node) \in Nat /\ Len(p.root) \in Nat /\ p.root \in Seq(0 .. Len(p.node))
      /\ \A k \in 1 .. Len(p.root) : p.root[k] \in 0 .. Len(p.node)
  BY SoundFields
<1>2. \A k \in 1 .. Len(p.root) : p.root[k] \in 1 .. Len(p.node)
  BY <1>1 DEF nullptr
<1>3. p.root \in Seq(1 .. Len(p.node))
  <2>. DEFINE T == 1 .. Len(p.node)
              n == Len(p.root)
  <2>1. p.root = [k \in 1 .. n |-> p.root[k]] /\ n \in Nat
    BY <1>1, LenProperties
  <2>2. \A k \in 1 .. n : p.root[k] \in T
    BY <1>2
  <2>. HIDE DEF T, n
  <2>3. p.root \in [1 .. n -> T]
    BY <2>1, <2>2
  <2>4. p.root \in Seq(T)
    BY <2>1, <2>3, SeqDef
  <2>5. QED
    BY <2>4 DEF T
<1>4. ASSUME NEW i \in 1 .. Len(p.root), NEW j \in 1 .. Len(p.root), p.root[i] = p.root[j]
      PROVE  i = j
  <2>1. HeldRoot(p, p.root[i])
    BY <1>2 DEF Sound, HeldLeft, HeldRight
  <2>2. PICK k \in 1 .. Len(p.root) : \A m \in 1 .. Len(p.root) : p.root[m] = p.root[i] <=> m = k
    BY <2>1 DEF HeldRoot
  <2>3. QED
    BY <1>4, <2>2
<1>5. <<>> \in Seq(1 .. Len(p.node)) /\ Len(<<>>) = 0
  BY EmptySeq
<1>6. QED
  BY <1>3, <1>4, <1>5 DEF Deleting, In, IsRoot

(* What delete_nodes pushes are the operands of the node. *)
LEMMA OperandsPushed ==
  ASSUME NEW p, Sound(p), NEW n \in 1 .. Len(p.node)
  PROVE  LET o == Operands(p.node[n])
         IN  /\ o \in Seq(1 .. Len(p.node)) /\ Len(o) \in Nat
             /\ \A i \in 1 .. Len(o) : IsOperand(p.node[n], o[i]) /\ o[i] < n
             /\ \A m \in 1 .. Len(p.node) : IsOperand(p.node[n], m) => In(o, m)
             /\ \A i, j \in 1 .. Len(o) : o[i] = o[j] => i = j
<1>. DEFINE nd == p.node[n]
            o == Operands(nd)
            N == Len(p.node)
<1>1. /\ N \in Nat /\ nd \in Nodes /\ WellFormed(p.node, n) /\ PP!FieldsByType(nd)
      /\ nullptr = 0
  BY SoundFields DEF nullptr
<1>2. nd.type \in {"NUM", "BINOP", "UNRYOP", "ASSIGN", "ACCESS"}
  BY <1>1 DEF Nodes, NodeTypes
<1>3. CASE nd.type = "BINOP"
  <2>1. nd.left \in 1 .. n - 1 /\ nd.right \in 1 .. n - 1
    BY <1>1, <1>3 DEF WellFormed
  <2>2. nd.left \in 1 .. N /\ nd.right \in 1 .. N /\ nd.left < n /\ nd.right < n
    BY <1>1, <2>1
  <2>3. nd.left # nd.right
    <3>1. nd.left = nd.left /\ n \in 1 .. Len(p.node)
      OBVIOUS
    <3>2. HeldLeft(p, nd.left) \/ HeldRight(p, nd.left) \/ HeldRoot(p, nd.left)
      BY <2>2 DEF Sound
    <3>3. QED
      BY <3>1, <3>2 DEF HeldLeft, HeldRight, HeldRoot
  <2>4. o = <<nd.right, nd.left>>
    BY <1>3 DEF Operands
  <2>. HIDE DEF nd, o, N
  <2>5. o \in Seq(1 .. N) /\ Len(o) = 2 /\ o[1] = nd.right /\ o[2] = nd.left
    BY <2>2, <2>4
  <2>6. \A i \in 1 .. 2 : i = 1 \/ i = 2
    OBVIOUS
  <2>7. \A m : IsOperand(nd, m) => In(o, m)
    BY <2>5 DEF IsOperand, In
  <2>8. \A i \in 1 .. Len(o) : IsOperand(nd, o[i]) /\ o[i] < n
    BY <2>2, <2>5, <2>6 DEF IsOperand
  <2>9. \A i, j \in 1 .. Len(o) : o[i] = o[j] => i = j
    BY <2>3, <2>5, <2>6
  <2>10. QED
    BY <2>5, <2>7, <2>8, <2>9 DEF nd, o, N
<1>4. CASE nd.type \in {"UNRYOP", "ASSIGN"}
  <2>1. nd.right \in 1 .. n - 1 /\ nd.left = 0
    BY <1>1, <1>4 DEF WellFormed, PP!FieldsByType, PP!nullptr
  <2>2. nd.right \in 1 .. N /\ nd.right < n
    BY <1>1, <2>1
  <2>3. o = <<nd.right>>
    BY <1>4 DEF Operands
  <2>. HIDE DEF nd, o, N
  <2>4. o \in Seq(1 .. N) /\ Len(o) = 1 /\ o[1] = nd.right
    BY <2>2, <2>3
  <2>5. \A i \in 1 .. 1 : i = 1
    OBVIOUS
  <2>6. \A m \in 1 .. N : IsOperand(nd, m) => In(o, m)
    BY <2>1, <2>4 DEF IsOperand, In
  <2>7. QED
    BY <2>2, <2>4, <2>5, <2>6 DEF nd, o, N, IsOperand
<1>5. CASE nd.type \in {"NUM", "ACCESS"}
  <2>1. nd.right = 0 /\ nd.left = 0
    BY <1>1, <1>5 DEF PP!FieldsByType, PP!nullptr
  <2>2. o = <<>>
    BY <1>5 DEF Operands
  <2>. HIDE DEF nd, o, N
  <2>3. o \in Seq(1 .. N) /\ Len(o) = 0
    BY <2>2, EmptySeq
  <2>4. \A m \in 1 .. N : ~ IsOperand(nd, m)
    BY <2>1 DEF IsOperand
  <2>5. QED
    BY <2>3, <2>4 DEF nd, o, N
<1>6. QED
  BY <1>2, <1>3, <1>4, <1>5

(* Nobody else holds an operand. *)
LEMMA OneOwner ==
  ASSUME NEW p, Sound(p), NEW n \in 1 .. Len(p.node), NEW m \in 1 .. Len(p.node),
         IsOperand(p.node[n], m)
  PROVE  /\ ~ IsRoot(p, m)
         /\ \A j \in 1 .. Len(p.node) : IsOperand(p.node[j], m) => j = n
<1>1. HeldLeft(p, m) \/ HeldRight(p, m)
  BY DEF Sound, HeldRoot, IsOperand
<1>2. CASE HeldLeft(p, m)
  BY <1>2 DEF HeldLeft, IsOperand, IsRoot
<1>3. CASE HeldRight(p, m)
  BY <1>3 DEF HeldRight, IsOperand, IsRoot
<1>4. QED
  BY <1>1, <1>2, <1>3

(* One node is freed, and its operands take its place. *)
LEMMA DeletionStep ==
  ASSUME NEW p, Sound(p), NEW waiting, NEW gone, Deleting(p, waiting, gone), waiting # <<>>
  PROVE  LET n == waiting[Len(waiting)]
         IN  Deleting(p, SubSeq(waiting, 1, Len(waiting) - 1) \o Operands(p.node[n]),
                      Append(gone, n))
<1>. DEFINE N == Len(p.node)
            W == Len(waiting)
            G == Len(gone)
            n == waiting[W]
            o == Operands(p.node[n])
            O == Len(o)
            rest == SubSeq(waiting, 1, W - 1)
            waits == rest \o o
            went == Append(gone, n)
<1>1. /\ waiting \in Seq(1 .. N) /\ gone \in Seq(1 .. N)
      /\ W \in Nat \ {0} /\ G \in Nat /\ N \in Nat
  BY LenProperties, EmptySeq, SoundFields DEF Deleting
<1>2. /\ \A i, j \in 1 .. W : waiting[i] = waiting[j] => i = j
      /\ \A i, j \in 1 .. G : gone[i] = gone[j] => i = j
      /\ \A i \in 1 .. W, j \in 1 .. G : waiting[i] # gone[j]
      /\ \A m \in 1 .. N :
           In(waiting, m) \/ In(gone, m)
             <=> IsRoot(p, m) \/ \E j \in 1 .. G : IsOperand(p.node[gone[j]], m)
  BY DEF Deleting
<1>3. n \in 1 .. N /\ \A j \in 1 .. G : gone[j] \in 1 .. N
  BY <1>1, ElementOfSeq
<1>. HIDE DEF N, n
<1>4. /\ o \in Seq(1 .. N) /\ O \in Nat
      /\ \A i \in 1 .. O : IsOperand(p.node[n], o[i]) /\ o[i] < n
      /\ \A m \in 1 .. N : IsOperand(p.node[n], m) => In(o, m)
      /\ \A i, j \in 1 .. O : o[i] = o[j] => i = j
  BY <1>3, OperandsPushed DEF N
<1>. HIDE DEF o
<1>5. /\ rest \in Seq(1 .. N) /\ Len(rest) = W - 1
      /\ \A i \in 1 .. W - 1 : rest[i] = waiting[i]
  <2>. DEFINE T == 1 .. N
  <2>1. waiting \in Seq(T)
    BY <1>1
  <2>2. 1 \in 1 .. W + 1 /\ W - 1 \in 1 - 1 .. W
    BY <1>1
  <2>. HIDE DEF T
  <2>3. /\ rest \in Seq(T)
        /\ Len(rest) = IF 1 <= W - 1 THEN (W - 1) - 1 + 1 ELSE 0
        /\ \A i \in 1 .. (W - 1) - 1 + 1 : rest[i] = waiting[1 + i - 1]
    BY <2>1, <2>2, SubSeqProperties
  <2>. HIDE DEF W, rest
  <2>4. Len(rest) = W - 1 /\ (W - 1) - 1 + 1 = W - 1
    <3>1. W \in Nat \ {0}
      BY <1>1
    <3>2. /\ (W - 1) - 1 + 1 = W - 1
          /\ (IF 1 <= W - 1 THEN (W - 1) - 1 + 1 ELSE 0) = W - 1
      BY <3>1
    <3>3. QED
      BY <2>3, <3>2
  <2>5. \A i \in 1 .. W - 1 : 1 + i - 1 = i
    BY <1>1
  <2>6. \A i \in 1 .. W - 1 : rest[i] = waiting[i]
    BY <2>3, <2>4, <2>5
  <2>7. QED
    BY <2>3, <2>4, <2>6 DEF T
<1>. HIDE DEF rest
<1>6. /\ waits \in Seq(1 .. N) /\ Len(waits) = W - 1 + O
      /\ \A i \in 1 .. W - 1 + O : waits[i] = IF i <= W - 1 THEN waiting[i] ELSE o[i - (W - 1)]
  <2>1. /\ waits \in Seq(1 .. N) /\ Len(waits) = Len(rest) + Len(o)
        /\ \A i \in 1 .. Len(rest) + Len(o) :
             waits[i] = IF i <= Len(rest) THEN rest[i] ELSE o[i - Len(rest)]
    BY <1>4, <1>5, ConcatProperties
  <2>. HIDE DEF waits, W, O
  <2>2. Len(rest) = W - 1 /\ Len(o) = O
    BY <1>5 DEF O
  <2>3. ASSUME NEW i \in 1 .. W - 1 + O
        PROVE  waits[i] = IF i <= W - 1 THEN waiting[i] ELSE o[i - (W - 1)]
    <3>1. i <= W - 1 => i \in 1 .. W - 1
      BY <1>1, <1>4
    <3>2. QED
      BY <1>5, <2>1, <2>2, <3>1
  <2>4. QED
    BY <2>1, <2>2, <2>3
<1>7. /\ went \in Seq(1 .. N) /\ Len(went) = G + 1
      /\ \A i \in 1 .. G : went[i] = gone[i]
      /\ went[G + 1] = n
  BY <1>1, <1>3, AppendProperties
<1>. HIDE DEF waits, went
<1>8. \A i \in 1 .. G + 1 : i \in 1 .. G \/ i = G + 1
  BY <1>1
<1>9. W \in 1 .. W /\ waiting[W] = n
  BY <1>1 DEF n
<1>. HIDE DEF W, G, O
<1>10. ASSUME NEW i \in 1 .. W - 1 + O
       PROVE  \/ i \in 1 .. W - 1 /\ i \in 1 .. W /\ i # W /\ waits[i] = waiting[i]
              \/ i - (W - 1) \in 1 .. O /\ waits[i] = o[i - (W - 1)]
  BY <1>1, <1>4, <1>6
<1>11. ASSUME NEW i \in 1 .. O
       PROVE  ~ In(waiting, o[i]) /\ ~ In(gone, o[i])
  <2>1. o[i] \in 1 .. N /\ IsOperand(p.node[n], o[i])
    BY <1>4, ElementOfSeq DEF O
  <2>2. /\ ~ IsRoot(p, o[i])
        /\ \A j \in 1 .. N : IsOperand(p.node[j], o[i]) => j = n
    BY <1>3, <2>1, OneOwner DEF N
  <2>3. \A j \in 1 .. G : gone[j] # n
    BY <1>2, <1>9
  <2>4. QED
    BY <1>2, <1>3, <2>1, <2>2, <2>3
<1>12. ASSUME NEW i \in 1 .. Len(waits), NEW j \in 1 .. Len(waits), waits[i] = waits[j]
       PROVE  i = j
  <2>1. i \in 1 .. W - 1 + O /\ j \in 1 .. W - 1 + O
    BY <1>6
  <2>2. CASE i \in 1 .. W - 1 /\ j \in 1 .. W - 1
    <3>1. i \in 1 .. W /\ j \in 1 .. W /\ i <= W - 1 /\ j <= W - 1
      BY <1>1, <2>2
    <3>2. waits[i] = waiting[i] /\ waits[j] = waiting[j]
      BY <1>6, <2>1, <3>1
    <3>3. QED
      BY <1>2, <1>12, <3>1, <3>2
  <2>3. CASE i - (W - 1) \in 1 .. O /\ j - (W - 1) \in 1 .. O
                /\ waits[i] = o[i - (W - 1)] /\ waits[j] = o[j - (W - 1)]
    <3>1. i - (W - 1) = j - (W - 1)
      BY <1>4, <1>12, <2>3 DEF O
    <3>2. QED
      BY <1>1, <2>1, <3>1
  <2>4. ASSUME NEW a \in 1 .. W, NEW b \in 1 .. O
        PROVE  waiting[a] # o[b]
    BY <1>11 DEF In, W
  <2>5. QED
    BY <1>10, <1>12, <2>1, <2>2, <2>3, <2>4
<1>13. ASSUME NEW i \in 1 .. Len(went), NEW j \in 1 .. Len(went), went[i] = went[j]
       PROVE  i = j
  <2>1. \A k \in 1 .. G : gone[k] # n
    BY <1>2, <1>9
  <2>2. QED
    BY <1>2, <1>7, <1>8, <1>13, <2>1
<1>14. ASSUME NEW i \in 1 .. Len(waits), NEW j \in 1 .. Len(went)
       PROVE  waits[i] # went[j]
  <2>1. CASE i \in 1 .. W /\ i # W /\ waits[i] = waiting[i]
    <3>1. waiting[i] # n
      BY <1>2, <1>9, <2>1
    <3>2. \A k \in 1 .. G : waiting[i] # gone[k]
      BY <1>2, <2>1
    <3>3. QED
      BY <1>7, <1>8, <2>1, <3>1, <3>2
  <2>2. ASSUME NEW b \in 1 .. O, waits[i] = o[b]
        PROVE  waits[i] # went[j]
    <3>1. ~ In(waiting, o[b]) /\ ~ In(gone, o[b])
      BY <1>11
    <3>2. o[b] # n /\ \A k \in 1 .. G : gone[k] # o[b]
      BY <1>9, <3>1 DEF In, W, G
    <3>3. QED
      BY <1>7, <1>8, <2>2, <3>2
  <2>3. QED
    BY <1>6, <1>10, <2>1, <2>2
<1>15. ASSUME NEW m \in 1 .. N
       PROVE  /\ In(waits, m) \/ In(went, m) <=> In(waiting, m) \/ In(gone, m) \/ In(o, m)
              /\ In(o, m) <=> IsOperand(p.node[n], m)
  <2>1. In(o, m) <=> IsOperand(p.node[n], m)
    BY <1>4 DEF In, O
  <2>2. In(went, m) <=> In(gone, m) \/ m = n
    <3>1. G + 1 \in 1 .. G + 1 /\ \A i \in 1 .. G : i \in 1 .. G + 1
      BY <1>1
    <3>2. QED
      BY <1>7, <1>8, <3>1 DEF In, G
  <2>3. ASSUME In(waits, m)
        PROVE  In(waiting, m) \/ In(o, m)
    <3>1. PICK i \in 1 .. W - 1 + O : waits[i] = m
      BY <1>6, <2>3 DEF In
    <3>2. QED
      BY <1>10, <3>1 DEF In, W, O
  <2>4. ASSUME In(waiting, m), m # n
        PROVE  In(waits, m)
    <3>1. PICK i \in 1 .. W : waiting[i] = m
      BY <2>4 DEF In, W
    <3>2. i # W
      BY <1>9, <2>4, <3>1
    <3>3. i \in 1 .. W - 1 + O /\ i <= W - 1
      BY <1>1, <1>4, <3>1, <3>2
    <3>4. QED
      BY <1>6, <3>1, <3>3 DEF In
  <2>5. ASSUME In(o, m)
        PROVE  In(waits, m)
    <3>1. PICK i \in 1 .. O : o[i] = m
      BY <2>5 DEF In, O
    <3>2. /\ W - 1 + i \in 1 .. W - 1 + O /\ ~ (W - 1 + i <= W - 1)
          /\ (W - 1 + i) - (W - 1) = i
      BY <1>1, <1>4, <3>1
    <3>3. QED
      BY <1>6, <3>1, <3>2 DEF In
  <2>6. In(waiting, n)
    BY <1>9 DEF In, W
  <2>7. QED
    BY <2>1, <2>2, <2>3, <2>4, <2>5, <2>6
<1>16. ASSUME NEW m \in 1 .. N
       PROVE  In(waits, m) \/ In(went, m)
                <=> IsRoot(p, m) \/ \E j \in 1 .. Len(went) : IsOperand(p.node[went[j]], m)
  <2>1. (\E j \in 1 .. G + 1 : IsOperand(p.node[went[j]], m))
          <=> (\E j \in 1 .. G : IsOperand(p.node[gone[j]], m)) \/ IsOperand(p.node[n], m)
    <3>1. G + 1 \in 1 .. G + 1 /\ \A i \in 1 .. G : i \in 1 .. G + 1
      BY <1>1
    <3>2. QED
      BY <1>7, <1>8, <3>1
  <2>2. QED
    BY <1>2, <1>7, <1>15, <2>1
<1>17. Deleting(p, waits, went)
  BY <1>6, <1>7, <1>12, <1>13, <1>14, <1>16 DEF Deleting, N
<1>18. QED
  BY <1>17 DEF waits, went, rest, o, n, W

(* When nothing is pending, everything has been freed. *)
LEMMA DeletionEnds ==
  ASSUME NEW p, Sound(p), NEW gone, Deleting(p, <<>>, gone)
  PROVE  {gone[i] : i \in 1 .. Len(gone)} = DOMAIN p.node
<1>. DEFINE N == Len(p.node)
            S == {k \in Nat : N - k \in 1 .. N => In(gone, N - k)}
<1>1. N \in Nat /\ DOMAIN p.node = 1 .. N
  BY SoundFields, LenProperties
<1>2. gone \in Seq(1 .. N) /\ \A n : ~ In(<<>>, n)
  BY DEF Deleting, In
<1>3. \A n \in 1 .. N : In(gone, n)
         <=> IsRoot(p, n) \/ \E j \in 1 .. Len(gone) : IsOperand(p.node[gone[j]], n)
  BY <1>2 DEF Deleting
<1>4. ASSUME NEW k \in Nat, \A m \in 0 .. k - 1 : m \in S
      PROVE  k \in S
  <2>1. SUFFICES ASSUME N - k \in 1 .. N
                 PROVE  In(gone, N - k)
    OBVIOUS
  <2>. DEFINE n == N - k
  <2>2. HeldLeft(p, n) \/ HeldRight(p, n) \/ HeldRoot(p, n)
    BY <2>1 DEF Sound
  <2>3. ASSUME NEW i \in 1 .. N, IsOperand(p.node[i], n)
        PROVE  In(gone, n)
    <3>1. n < i
      BY <2>3, SoundFields DEF IsOperand
    <3>2. N - i \in 0 .. k - 1 /\ N - (N - i) = i
      BY <1>1, <3>1
    <3>3. In(gone, i)
      BY <1>4, <3>2
    <3>4. QED
      BY <1>3, <2>1, <2>3, <3>3 DEF In
  <2>4. CASE HeldLeft(p, n) \/ HeldRight(p, n)
    <3>1. \E i \in 1 .. N : IsOperand(p.node[i], n)
      BY <2>4 DEF HeldLeft, HeldRight, IsOperand
    <3>2. QED
      BY <2>3, <3>1
  <2>5. CASE HeldRoot(p, n)
    BY <1>3, <2>1, <2>5 DEF HeldRoot, IsRoot
  <2>6. QED
    BY <2>2, <2>4, <2>5
<1>. HIDE DEF N
<1>5. \A k \in Nat : k \in S
  <2>. HIDE DEF S
  <2>1. QED
    BY <1>4, StrongSetInduction
<1>6. ASSUME NEW n \in 1 .. N
      PROVE  In(gone, n)
  <2>1. N - n \in Nat /\ N - (N - n) = n
    BY <1>1
  <2>2. N - n \in S
    BY <1>5, <2>1
  <2>3. QED
    BY <2>1, <2>2
<1>7. \A i \in 1 .. Len(gone) : gone[i] \in 1 .. N
  BY <1>2, ElementOfSeq
<1>8. QED
  BY <1>1, <1>6, <1>7 DEF In

-----------------------------------------------------------------------------
(* The inductive invariant, part by part.                                  *)

(* What was typed, and how much of it was read. *)
InputInv ==
  /\ input \in Sessions
  /\ taken \in 0 .. Len(input.lines)
  /\ eof \in BOOLEAN
  /\ eof => taken = Len(input.lines)
  /\ buffer \in Seq(STRING)
  /\ buffer # <<>> => \E i \in 1 .. taken : buffer = input.lines[i]

Phases == Lost \cup {"reading", "scanning", "parsing", "compile", "running",
                     "compiled", "deleting", "done"}

(* Where main is tells what has become of Chronos.asm. *)
PhaseInv ==
  /\ phase \in Phases
  /\ memory \in Nat
  /\ asm \in {"old", "empty", "code"}
  /\ phase \in {"reading", "scanning", "parsing"} => asm = "old" /\ Exits = {}
  /\ phase = "compile" => asm = "old" /\ Exits = {taken}
  /\ phase \in {"running", "compiled"} => asm = "empty"
  /\ phase \in {"deleting", "done"} <=> asm = "code"
  /\ asm # "old" => Exits = {taken}
  /\ asm = "empty" /\ Ended => Len(nodes) > 0
  /\ phase \in {"compiled", "deleting", "done"} => C!Outcome(Program(nodes)) = "compiled"

(* The lexer is cleared between two lines, and then it is that of Lexer. *)
ScannerInv ==
  /\ Len(files) <= 1
  /\ phase = "reading" =>
       /\ at = Unloaded /\ m_Tokens = <<>> /\ m_HasError = FALSE
       /\ files = <<>> /\ complaint = NoMessage
  /\ phase \in {"scanning", "parsing"} =>
       /\ files = <<buffer>> /\ m_Text = buffer /\ buffer # EXIT
       /\ LexerInv /\ BlankInv /\ TokensKnown
  /\ phase = "scanning" => complaint = NoMessage
  /\ phase = "parsing" => tokens = [k \in DOMAIN m_Tokens |-> ForParser(m_Tokens[k])]

(* The parser keeps its invariants all the time. *)
ParserPart == PP!ParserInv /\ PP!LineInv

MessageInv == complaint \in Messages /\ MessagesInLine

(* The statements are those of a sound program in the order of the text,    *)
(* null where a line was blank.                                             *)
NodesInv ==
  /\ nodes \in Seq(Seq(Nodes))
  /\ Sound(Program(nodes))
  /\ \E f \in [Nat -> Nat] : Numbered(Program(nodes), f)
  /\ Len(Program(nodes).root) = Len(nodes)
  /\ \A k \in 1 .. Len(nodes) : Program(nodes).root[k] = nullptr <=> nodes[k] = <<>>

(* A blank line becomes a null statement. *)
BlankLineInv ==
  \A i \in 1 .. taken :
    Blank(input.lines[i]) =>
      \/ \E k \in 1 .. Len(nodes) : nodes[k] = <<>>
      \/ phase \in {"scanning", "parsing"} /\ buffer = input.lines[i]
      \/ phase \in Lost

DeleteInv ==
  /\ IF phase \in {"deleting", "done"} THEN Deleting(Program(nodes), pending, freed)
                                       ELSE pending = <<>> /\ freed = <<>>
  /\ phase = "done" => pending = <<>>

ReplInv == InputInv /\ PhaseInv /\ ScannerInv /\ ParserPart /\ MessageInv
             /\ NodesInv /\ BlankLineInv /\ DeleteInv

-----------------------------------------------------------------------------
(* Facts about the actions.                                                *)

(* What a session consists of. *)
LEMMA SessionLines ==
  ASSUME InputInv
  PROVE  /\ Len(input.lines) \in Nat
         /\ \A i \in 1 .. Len(input.lines) : /\ input.lines[i] \in Seq(STRING)
                                             /\ input.lines[i] # EXIT => SpellsKnown(input.lines[i])
<1>1. input \in Sessions /\ IsSession(input)
  BY SessionsAssumption DEF InputInv
<1>2. input.lines \in Seq(Seq(STRING))
  BY <1>1 DEF IsSession
<1>3. \A i \in 1 .. Len(input.lines) : input.lines[i] # EXIT => SpellsKnown(input.lines[i])
  BY <1>1, SpellingAssumption
<1>4. \A i \in 1 .. Len(input.lines) : input.lines[i] \in Seq(STRING)
  BY <1>2, ElementOfSeq
<1>5. QED
  BY <1>2, <1>3, <1>4, LenProperties

(* The buffer holds a line of the session, or nothing. *)
LEMMA BufferKnown ==
  ASSUME InputInv, buffer # EXIT
  PROVE  SpellsKnown(buffer)
<1>1. CASE buffer = <<>>
  <2>1. Len(buffer) = 0
    BY <1>1
  <2>2. QED
    BY <2>1 DEF SpellsKnown
<1>2. CASE buffer # <<>>
  <2>1. PICK i \in 1 .. taken : buffer = input.lines[i]
    BY <1>2 DEF InputInv
  <2>2. i \in 1 .. Len(input.lines)
    BY SessionLines DEF InputInv
  <2>3. QED
    BY <2>1, <2>2, SessionLines
<1>3. QED
  BY <1>1, <1>2

(* What every action but the one of the name leaves alone. *)
LEMMA OthersKeep ==
  ASSUME ReplNext
  PROVE  /\ ReadLine \/ UNCHANGED <<input, taken, eof, buffer>>
         /\ Accept \/ UNCHANGED nodes
         /\ input' = input
         /\ LoadTokens \/ Parse \/ UNCHANGED parserVars
<1>. USE DEF inputVars, resultVars
<1>1. CASE ReadLine
  BY <1>1 DEF ReadLine
<1>2. CASE Scan \/ LoadTokens \/ ScanThrows \/ Parse
  BY <1>2 DEF Scan, LoadTokens, ScanThrows, Parse
<1>3. CASE Accept \/ ShowError \/ ParseDies
  BY <1>3 DEF Accept, ShowError, ParseDies
<1>4. CASE OpenOutput \/ Compile \/ Close \/ delete_nodes \/ Return
  BY <1>4 DEF OpenOutput, Compile, Close, delete_nodes, Return
<1>5. QED
  BY <1>1, <1>2, <1>3, <1>4 DEF ReplNext

(* getline reads the lines in their order. *)
LEMMA InputStep ==
  ASSUME InputInv, ReplNext
  PROVE  InputInv'
<1>1. CASE UNCHANGED <<input, taken, eof, buffer>>
  BY <1>1 DEF InputInv
<1>2. CASE ReadLine
  <2>1. /\ buffer' = GetLine /\ eof' = (eof \/ AtEnd) /\ input' = input
        /\ taken' = IF taken < Len(input.lines) THEN taken + 1 ELSE taken
    BY <1>2 DEF ReadLine
  <2>2. /\ Len(input.lines) \in Nat /\ taken \in Nat /\ taken <= Len(input.lines)
        /\ \A i \in 1 .. Len(input.lines) : input.lines[i] \in Seq(STRING)
        /\ <<>> \in Seq(STRING)
    BY SessionLines DEF InputInv
  <2>3. taken' \in 0 .. Len(input.lines) /\ taken <= taken'
    BY <2>1, <2>2
  <2>4. eof' \in BOOLEAN /\ (eof' => taken' = Len(input.lines))
    BY <2>1, <2>2 DEF InputInv, AtEnd
  <2>5. CASE ~ eof /\ taken < Len(input.lines)
    <3>1. buffer' = input.lines[taken + 1] /\ taken' = taken + 1 /\ taken + 1 \in 1 .. taken + 1
          /\ taken + 1 \in 1 .. Len(input.lines)
      BY <2>1, <2>2, <2>5 DEF GetLine
    <3>2. QED
      BY <2>1, <2>2, <2>3, <2>4, <3>1 DEF InputInv
  <2>6. CASE ~ eof /\ ~ (taken < Len(input.lines))
    BY <2>1, <2>2, <2>3, <2>4, <2>6 DEF InputInv, GetLine
  <2>7. CASE eof
    <3>1. buffer' = buffer
      BY <2>1, <2>7 DEF GetLine
    <3>2. taken' = taken
      BY <2>1, <2>2, <2>7 DEF InputInv
    <3>3. QED
      BY <2>1, <2>3, <2>4, <3>1, <3>2 DEF InputInv
  <2>8. QED
    BY <2>5, <2>6, <2>7 DEF InputInv
<1>3. QED
  BY <1>1, <1>2, OthersKeep

(* "exit" is the line that was just read, or none was. *)
LEMMA ExitRead ==
  ASSUME InputInv, ReadLine, Exits = {}
  PROVE  Exits' = IF buffer' = EXIT THEN {taken'} ELSE {}
<1>1. /\ buffer' = GetLine /\ input' = input
      /\ taken' = IF taken < Len(input.lines) THEN taken + 1 ELSE taken
  BY DEF ReadLine
<1>2. /\ Len(input.lines) \in Nat /\ taken \in Nat /\ taken <= Len(input.lines)
      /\ eof => taken = Len(input.lines)
  BY SessionLines DEF InputInv
<1>3. EXIT # <<>> /\ \A i \in 1 .. taken : input.lines[i] # EXIT
  BY DEF EXIT, Exits
<1>4. CASE taken < Len(input.lines)
  <2>1. buffer' = input.lines[taken + 1] /\ taken' = taken + 1
    BY <1>1, <1>2, <1>4 DEF GetLine
  <2>2. \A i \in 1 .. taken + 1 : i \in 1 .. taken \/ i = taken + 1
    BY <1>2
  <2>3. taken + 1 \in 1 .. taken + 1
    BY <1>2
  <2>4. QED
    BY <1>1, <1>3, <2>1, <2>2, <2>3 DEF Exits
<1>5. CASE ~ (taken < Len(input.lines))
  <2>1. taken' = taken
    BY <1>1, <1>5
  <2>2. buffer' = buffer \/ buffer' = <<>>
    BY <1>1, <1>5 DEF GetLine
  <2>3. buffer' # EXIT
    BY <1>3, <2>2 DEF InputInv
  <2>4. QED
    BY <1>1, <2>1, <2>3 DEF Exits
<1>6. QED
  BY <1>4, <1>5

(* How a message can fail. *)
LEMMA MessageThrows ==
  ASSUME NEW lines, NEW start, NEW end
  PROVE  generate_message(lines, start, end).thrown \in {"none", "out_of_range", "length_error"}
BY DEF generate_message, get_error_preview, Thrown

(* A program without statements compiles. *)
LEMMA NothingCompiles == C!Outcome(NoLines) = "compiled"
<1>1. Len(NoLines.node) = 0 /\ Len(NoLines.root) = 0
  BY DEF NoLines
<1>2. C!NullStatements(NoLines) = {}
  BY <1>1 DEF C!NullStatements
<1>3. QED
  BY <1>1, <1>2 DEF C!Outcome, C!MinusFirst

-----------------------------------------------------------------------------
(* Every part is kept by every step.                                       *)

(* Chronos.asm is written after "exit", and filled if the program compiles. *)
LEMMA PhaseStep ==
  ASSUME InputInv, PhaseInv, ParserPart, NodesInv, ReplNext
  PROVE  PhaseInv'
<1>. DEFINE kind == C!Outcome(Program(nodes))
<1>1. /\ ReadLine \/ (Exits' = Exits /\ taken' = taken)
      /\ Accept \/ (nodes' = nodes /\ kind' = kind)
      /\ nodes' = nodes => kind' = kind
  BY OthersKeep DEF Exits
<1>2. kind \in {"out_of_range", "assert", "segfault", "compiled"}
  BY DEF C!Outcome
<1>3. kind # "compiled" => Len(nodes) > 0
  <2>1. CASE nodes = <<>>
    BY <2>1, ProgramOfNone, NothingCompiles
  <2>2. CASE nodes # <<>>
    <3>1. Len(nodes) \in Nat /\ Len(nodes) # 0
      BY <2>2, LenProperties, EmptySeq DEF NodesInv
    <3>2. QED
      BY <3>1
  <2>3. QED
    BY <2>1, <2>2
<1>4. /\ phase \in Phases /\ memory \in Nat /\ asm \in {"old", "empty", "code"}
      /\ phase \in {"reading", "scanning", "parsing"} => asm = "old" /\ Exits = {}
      /\ phase = "compile" => asm = "old" /\ Exits = {taken}
      /\ phase \in {"running", "compiled"} => asm = "empty"
      /\ phase \in {"deleting", "done"} <=> asm = "code"
      /\ asm # "old" => Exits = {taken}
      /\ asm = "empty" /\ Ended => Len(nodes) > 0
      /\ phase \in {"compiled", "deleting", "done"} => kind = "compiled"
  BY DEF PhaseInv
<1>5. SUFFICES
        /\ phase' \in Phases /\ memory' \in Nat /\ asm' \in {"old", "empty", "code"}
        /\ phase' \in {"reading", "scanning", "parsing"} => asm' = "old" /\ Exits' = {}
        /\ phase' = "compile" => asm' = "old" /\ Exits' = {taken'}
        /\ phase' \in {"running", "compiled"} => asm' = "empty"
        /\ phase' \in {"deleting", "done"} <=> asm' = "code"
        /\ asm' # "old" => Exits' = {taken'}
        /\ asm' = "empty" /\ phase' \in Lost \cup {"done"} => Len(nodes') > 0
        /\ phase' \in {"compiled", "deleting", "done"} => kind' = "compiled"
  BY DEF PhaseInv, Ended
<1>. USE DEF Lost, Phases, Ended
<1>. HIDE DEF kind
<1>6. CASE ReadLine
  <2>1. /\ phase = "reading" /\ asm' = asm /\ memory' = memory
        /\ phase' = IF buffer' = EXIT THEN "compile" ELSE "scanning"
    BY <1>6 DEF ReadLine, resultVars
  <2>2. Exits' = IF buffer' = EXIT THEN {taken'} ELSE {}
    BY <1>4, <1>6, <2>1, ExitRead
  <2>3. QED
    BY <1>4, <2>1, <2>2
<1>7. CASE ~ ReadLine /\ phase' = phase /\ asm' = asm /\ memory' = memory /\ nodes' = nodes
  BY <1>1, <1>4, <1>7
<1>8. ASSUME ~ ReadLine, phase \in {"scanning", "parsing"},
             phase' \in Lost \cup {"parsing", "reading"}, asm' = asm, memory' \in Nat
      PROVE  /\ phase' \in Phases /\ memory' \in Nat /\ asm' \in {"old", "empty", "code"}
             /\ phase' \in {"reading", "scanning", "parsing"} => asm' = "old" /\ Exits' = {}
             /\ phase' = "compile" => asm' = "old" /\ Exits' = {taken'}
             /\ phase' \in {"running", "compiled"} => asm' = "empty"
             /\ phase' \in {"deleting", "done"} <=> asm' = "code"
             /\ asm' # "old" => Exits' = {taken'}
             /\ asm' = "empty" /\ phase' \in Lost \cup {"done"} => Len(nodes') > 0
             /\ phase' \in {"compiled", "deleting", "done"} => kind' = "compiled"
  BY <1>1, <1>4, <1>8
<1>9. Len(node) \in Nat
  BY LenProperties DEF ParserPart, PP!ParserInv, PP!ParserTypeOK
<1>10. CASE Scan \/ Parse \/ delete_nodes
  BY <1>7, <1>10 DEF Scan, Parse, delete_nodes, ReadLine, resultVars
<1>11. CASE LoadTokens
  <2>1. phase = "scanning" /\ asm' = asm /\ memory' = memory /\ ~ ReadLine
    BY <1>11 DEF LoadTokens, ReadLine, resultVars
  <2>2. phase' \in {"parsing", "out_of_range", "length_error"}
    BY <1>11, MessageThrows DEF LoadTokens, NoMessage
  <2>3. QED
    BY <1>4, <1>8, <2>1, <2>2
<1>12. CASE ScanThrows \/ ParseDies
  BY <1>4, <1>8, <1>12 DEF ScanThrows, ParseDies, ReadLine, resultVars
<1>13. CASE Accept
  <2>1. /\ phase = "parsing" /\ asm' = asm /\ memory' = memory + (Len(node) + 1) /\ ~ ReadLine
        /\ phase' \in {"bad_alloc", "reading"}
    BY <1>13 DEF Accept, NextLine, ReadLine
  <2>2. QED
    BY <1>4, <1>8, <1>9, <2>1
<1>14. CASE ShowError
  <2>1. phase = "parsing" /\ asm' = asm /\ ~ ReadLine
    BY <1>14 DEF ShowError, ReadLine
  <2>2. /\ memory' = memory \/ memory' = memory + Len(node)
        /\ phase' \in {"bad_alloc", "reading", "out_of_range", "length_error"}
    BY <1>14, MessageThrows DEF ShowError, NextLine
  <2>3. QED
    BY <1>4, <1>8, <1>9, <2>1, <2>2
<1>15. CASE OpenOutput
  BY <1>1, <1>4, <1>15 DEF OpenOutput, ReadLine
<1>16. CASE Compile
  <2>1. phase = "running" /\ phase' = kind /\ asm' = asm /\ memory' = memory
    BY <1>16 DEF Compile, C!Compile, kind
  <2>2. ~ ReadLine /\ ~ Accept
    BY <2>1 DEF ReadLine, Accept
  <2>3. QED
    BY <1>1, <1>2, <1>3, <1>4, <2>1, <2>2
<1>17. CASE Close
  BY <1>1, <1>4, <1>17 DEF Close, ReadLine, Accept
<1>18. CASE Return
  BY <1>1, <1>4, <1>18 DEF Return, ReadLine, Accept, resultVars
<1>19. QED
  BY <1>6, <1>10, <1>11, <1>12, <1>13, <1>14, <1>15, <1>16, <1>17, <1>18 DEF ReplNext

(* The scanner, given the next line, has the invariant of Lexer again. *)
LEMMA ScannerStep ==
  ASSUME InputInv, InputInv', ScannerInv, ParserPart, ReplNext
  PROVE  ScannerInv'
<1>1. /\ Len(files) <= 1
      /\ phase = "reading" => /\ at = Unloaded /\ m_Tokens = <<>> /\ m_HasError = FALSE
                              /\ files = <<>> /\ complaint = NoMessage
      /\ phase \in {"scanning", "parsing"} =>
           /\ files = <<buffer>> /\ m_Text = buffer /\ buffer # EXIT
           /\ LexerInv /\ BlankInv /\ TokensKnown
      /\ phase = "scanning" => complaint = NoMessage
      /\ phase = "parsing" => tokens = [k \in DOMAIN m_Tokens |-> ForParser(m_Tokens[k])]
  BY DEF ScannerInv
<1>2. ASSUME UNCHANGED lexerVars, LexerInv, BlankInv, TokensKnown
      PROVE  (LexerInv /\ BlankInv /\ TokensKnown)'
  <2>1. LexerInv'
    BY <1>2, LexerStutter
  <2>2. UNCHANGED <<m_Text, m_Tokens, m_HasError, scanning>>
    BY <1>2 DEF lexerVars
  <2>3. BlankInv' /\ TokensKnown'
    BY <1>2, <2>2 DEF BlankInv, TokensKnown
  <2>4. QED
    BY <2>1, <2>3
<1>3. CASE ReadLine /\ buffer' = EXIT
  BY <1>1, <1>3 DEF ReadLine, ScannerInv
<1>4. CASE ReadLine /\ buffer' # EXIT
  <2>1. /\ phase = "reading" /\ phase' = "scanning" /\ files' = add_line(files, buffer')
        /\ m_Text' = buffer' /\ at' = [at EXCEPT !.m_CharPtr = 0] /\ scanning' = "running"
        /\ m_Tokens' = m_Tokens /\ m_HasError' = m_HasError /\ complaint' = complaint
    BY <1>4 DEF ReadLine, load_text
  <2>2. files' = <<buffer'>> /\ Len(files') <= 1
    <3>1. files' = <<buffer'>>
      BY <1>1, <2>1 DEF add_line
    <3>2. QED
      BY <3>1
  <2>3. Loaded'
    BY <1>1, <2>1 DEF Loaded, InputInv
  <2>4. LexerInv'
    BY <2>3, LoadedNext
  <2>5. BlankInv' /\ TokensKnown'
    <3>1. m_Tokens' = <<>> /\ Len(m_Tokens') = 0 /\ m_HasError' = FALSE
      BY <1>1, <2>1
    <3>2. QED
      BY <2>1, <3>1 DEF BlankInv, TokensKnown
  <2>6. QED
    BY <1>1, <1>4, <2>1, <2>2, <2>4, <2>5 DEF ScannerInv
<1>5. CASE Scan
  <2>1. /\ phase = "scanning" /\ LexerNext /\ UNCHANGED <<files, buffer, phase, complaint>>
    BY <1>5 DEF Scan, inputVars
  <2>2. m_Text' = m_Text
    BY <2>1 DEF LexerNext, SkipSpace, make_number, make_identifier, make_single,
       make_relation, make_doubled, expect_char, illegal_char, EndOfText
  <2>3. SpellsKnown(m_Text)
    BY <1>1, <2>1, BufferKnown
  <2>4. LexerInv' /\ BlankInv' /\ TokensKnown'
    BY <1>1, <2>1, <2>3, LexerStep, BlankStep, KnownStep
  <2>5. QED
    BY <1>1, <2>1, <2>2, <2>4 DEF ScannerInv
<1>6. CASE LoadTokens
  <2>1. /\ phase = "scanning" /\ UNCHANGED <<files, buffer>> /\ UNCHANGED lexerVars
    BY <1>6 DEF LoadTokens, inputVars
  <2>2. m_Tokens' = m_Tokens /\ m_Text' = m_Text
    BY <2>1 DEF lexerVars
  <2>3. LexerInv' /\ BlankInv' /\ TokensKnown'
    BY <1>1, <1>2, <2>1
  <2>4. \/ /\ phase' = "parsing"
           /\ tokens' = [k \in DOMAIN m_Tokens |-> ForParser(m_Tokens[k])]
        \/ phase' \in {"out_of_range", "length_error"}
    BY <1>6, MessageThrows DEF LoadTokens, P!Load, NoMessage
  <2>5. QED
    BY <1>1, <2>1, <2>2, <2>3, <2>4 DEF ScannerInv
<1>7. CASE Parse
  <2>1. /\ phase = "parsing" /\ UNCHANGED <<files, buffer, phase>> /\ UNCHANGED lexerVars
        /\ P!ParserNext
    BY <1>7 DEF Parse, inputVars
  <2>2. m_Tokens' = m_Tokens /\ m_Text' = m_Text
    BY <2>1 DEF lexerVars
  <2>3. LexerInv' /\ BlankInv' /\ TokensKnown'
    BY <1>1, <1>2, <2>1
  <2>4. PP!ParserNext
    BY <2>1, SameNext
  <2>5. tokens' = tokens
    BY <2>4, PP!HowItEnds, ParserAssumptions DEF ParserPart
  <2>6. QED
    BY <1>1, <2>1, <2>2, <2>3, <2>5 DEF ScannerInv
<1>8. CASE phase' \in {"reading", "bad_alloc"} /\ clear /\ files' = <<>> /\ complaint' = NoMessage
  <2>1. Len(files') = 0
    BY <1>8
  <2>2. QED
    BY <1>8, <2>1 DEF ScannerInv, clear
<1>9. CASE phase' \notin {"reading", "scanning", "parsing"} /\ files' = files
  BY <1>1, <1>9 DEF ScannerInv
<1>10. CASE Accept
  BY <1>8, <1>10 DEF Accept, NextLine
<1>11. CASE ShowError
  <2>1. \/ NextLine(Len(node))
        \/ phase' \in {"out_of_range", "length_error"} /\ files' = files
    BY <1>11, MessageThrows DEF ShowError
  <2>2. QED
    BY <1>8, <1>9, <2>1 DEF NextLine
<1>12. CASE ScanThrows \/ ParseDies
  BY <1>9, <1>12 DEF ScanThrows, ParseDies, inputVars
<1>13. CASE OpenOutput \/ Close \/ delete_nodes \/ Return
  BY <1>9, <1>13 DEF OpenOutput, Close, delete_nodes, Return, inputVars
<1>14. CASE Compile
  <2>1. phase' \in {"out_of_range", "assert", "segfault", "compiled"} /\ files' = files
    BY <1>14 DEF Compile, C!Compile, C!Outcome, inputVars
  <2>2. QED
    BY <1>9, <2>1
<1>15. QED
  BY <1>3, <1>4, <1>5, <1>6, <1>7, <1>10, <1>11, <1>12, <1>13, <1>14 DEF ReplNext

(* load_tokens sets the parser up with tokens it understands. *)
LEMMA ParserPartStep ==
  ASSUME ScannerInv, ParserPart, ReplNext
  PROVE  ParserPart'
<1>1. PP!ParserInv /\ PP!LineInv
  BY DEF ParserPart
<1>2. CASE UNCHANGED parserVars
  <2>1. UNCHANGED PP!parserVars
    BY <1>2 DEF parserVars, PP!parserVars
  <2>2. PP!ParserInv'
    BY <1>1, <2>1, PP!ParserStutter, ParserAssumptions
  <2>3. PP!LineInv'
    BY <1>1, <2>1, PP!LineInvStutter, ParserAssumptions
  <2>4. QED
    BY <2>2, <2>3 DEF ParserPart
<1>3. CASE Parse
  <2>1. PP!ParserNext
    BY <1>3, SameNext DEF Parse
  <2>2. PP!ParserInv'
    BY <1>1, <2>1, PP!ParserStep, ParserAssumptions
  <2>3. PP!LineInv'
    BY <1>1, <2>1, PP!LineInvStep, ParserAssumptions
  <2>4. QED
    BY <2>2, <2>3 DEF ParserPart
<1>4. CASE LoadTokens
  <2>. DEFINE line == [k \in DOMAIN m_Tokens |-> ForParser(m_Tokens[k])]
  <2>1. phase = "scanning" /\ (P!Load(line) \/ UNCHANGED parserVars)
    BY <1>4 DEF LoadTokens
  <2>2. CASE P!Load(line)
    <3>1. LexerInv /\ TokensKnown
      BY <2>1 DEF ScannerInv
    <3>2. m_Tokens \in Seq(Entries(m_Tokens))
      BY <3>1 DEF LexerInv, TokensInv
    <3>3. Len(m_Tokens) \in Nat /\ DOMAIN m_Tokens = 1 .. Len(m_Tokens)
      BY <3>2, LenProperties
    <3>4. /\ line \in [1 .. Len(m_Tokens) -> PP!TokenRecords]
          /\ \A k \in 1 .. Len(m_Tokens) : line[k].type = "ID" => line[k].name \in Names
      BY <3>1, <3>3 DEF TokensKnown, Understood, ForParser
    <3>5. line \in Seq(PP!TokenRecords) /\ Len(line) = Len(m_Tokens)
      <4>. HIDE DEF line
      <4>1. QED
        BY <3>3, <3>4, SeqDef, LenProperties
    <3>. HIDE DEF line
    <3>6. PP!IsLine(line)
      BY <3>4, <3>5 DEF PP!IsLine
    <3>7. PP!Load(line)
      BY <2>2, SameLoad
    <3>8. PP!ParserInv'
      BY <1>1, <3>6, <3>7, PP!LoadKeeps, ParserAssumptions
    <3>9. PP!LineInv'
      BY <3>7, PP!LineInvLoad, ParserAssumptions
    <3>10. QED
      BY <3>8, <3>9 DEF ParserPart
  <2>3. QED
    BY <1>2, <2>1, <2>2
<1>5. QED
  BY <1>2, <1>3, <1>4, OthersKeep

(* Whether a message is in line does not depend on the state. *)
LEMMA MessageStep ==
  ASSUME InputInv, ScannerInv, ParserPart, MessageInv, ReplNext
  PROVE  MessageInv'
<1>1. /\ complaint \in Messages /\ InLine(complaint, buffer)
      /\ \A r \in replies : InLine(r.complaint, r.line) /\ InLine(r.message, r.line)
  BY DEF MessageInv, MessagesInLine
<1>2. NoMessage \in Messages /\ \A line : InLine(NoMessage, line)
  BY EmptySeq DEF NoMessage, Messages, InLine
<1>3. ASSUME complaint' \in Messages, InLine(complaint', buffer'),
             \A r \in replies' : InLine(r.complaint, r.line) /\ InLine(r.message, r.line)
      PROVE  MessageInv'
  BY <1>3 DEF MessageInv, MessagesInLine
<1>4. CASE UNCHANGED <<buffer, replies, complaint>>
  BY <1>1, <1>3, <1>4
<1>5. CASE ReadLine
  <2>1. phase = "reading" /\ complaint' = complaint /\ replies' = replies
    BY <1>5 DEF ReadLine, resultVars
  <2>2. complaint' = NoMessage
    BY <2>1 DEF ScannerInv
  <2>3. QED
    BY <1>1, <1>2, <1>3, <2>1, <2>2
<1>6. CASE LoadTokens
  <2>. DEFINE message == generate_message(files, m_Error.start_pos, m_Error.end_pos)
  <2>1. /\ phase = "scanning" /\ buffer' = buffer /\ replies' = replies
        /\ complaint' = IF m_HasError THEN message ELSE NoMessage
    BY <1>6 DEF LoadTokens, inputVars, resultVars
  <2>2. LexerInv /\ BlankInv /\ files = <<m_Text>> /\ m_Text = buffer
    BY <2>1 DEF ScannerInv
  <2>3. m_HasError => message \in Messages /\ InLine(message, buffer)
    BY <2>2, ErrorShown
  <2>. HIDE DEF message
  <2>4. complaint' \in Messages /\ InLine(complaint', buffer)
    BY <1>2, <2>1, <2>3
  <2>5. QED
    BY <1>1, <1>3, <2>1, <2>4
<1>7. ASSUME NEW kind, NEW tree, NEW message, InLine(message, buffer),
             Reply(kind, tree, message), complaint' = NoMessage
      PROVE  MessageInv'
  <2>. DEFINE r == [line |-> buffer, complaint |-> complaint, kind |-> kind, tree |-> tree,
                    message |-> message]
  <2>1. replies' = replies \cup {r}
    BY <1>7 DEF Reply
  <2>2. r.line = buffer /\ r.complaint = complaint /\ r.message = message
    OBVIOUS
  <2>. HIDE DEF r
  <2>3. \A x \in replies' : InLine(x.complaint, x.line) /\ InLine(x.message, x.line)
    BY <1>1, <1>7, <2>1, <2>2
  <2>4. QED
    BY <1>2, <1>3, <1>7, <2>3
<1>8. CASE Accept
  BY <1>2, <1>7, <1>8 DEF Accept, NextLine
<1>9. CASE ShowError
  <2>. DEFINE where == m_Tokens[error + 1]
              message == generate_message(files, where.start_pos, where.end_pos)
  <2>1. /\ phase = "parsing" /\ parsing = "error" /\ buffer' = buffer
        /\ IF message.thrown = "none"
             THEN Reply("error", <<>>, message) /\ complaint' = NoMessage
             ELSE UNCHANGED <<replies, complaint>>
    BY <1>9 DEF ShowError, NextLine
  <2>2. /\ LexerInv /\ files = <<m_Text>> /\ m_Text = buffer
        /\ tokens = [k \in DOMAIN m_Tokens |-> ForParser(m_Tokens[k])]
    BY <2>1 DEF ScannerInv
  <2>3. error + 1 \in 1 .. Len(m_Tokens)
    <3>1. Len(m_Tokens) \in Nat /\ DOMAIN m_Tokens = 1 .. Len(m_Tokens)
      BY <2>2, LenProperties DEF LexerInv, TokensInv
    <3>2. Len(tokens) = Len(m_Tokens)
      <4>1. tokens \in Seq(PP!TokenRecords)
        BY DEF ParserPart, PP!ParserInv, PP!ParserTypeOK, PP!IsLine
      <4>2. DOMAIN tokens = 1 .. Len(tokens) /\ Len(tokens) \in Nat
        BY <4>1, LenProperties
      <4>3. DOMAIN tokens = 1 .. Len(m_Tokens)
        BY <2>2, <3>1
      <4>4. Len(tokens) # 0 => Len(tokens) \in DOMAIN tokens
        BY <4>2
      <4>5. Len(m_Tokens) # 0 => Len(m_Tokens) \in DOMAIN tokens
        BY <3>1, <4>3
      <4>6. Len(tokens) <= Len(m_Tokens)
        BY <3>1, <4>2, <4>3, <4>4
      <4>7. Len(m_Tokens) <= Len(tokens)
        BY <3>1, <4>2, <4>5
      <4>. DEFINE a == Len(tokens)
                  b == Len(m_Tokens)
      <4>8. a \in Nat /\ b \in Nat /\ a <= b /\ b <= a
        BY <3>1, <4>2, <4>6, <4>7
      <4>. HIDE DEF a, b
      <4>9. a = b
        BY <4>8
      <4>10. QED
        BY <4>9 DEF a, b
    <3>3. error \in 0 .. Len(tokens) - 1
      BY <2>1 DEF ParserPart, PP!LineInv, PP!Size
    <3>4. QED
      BY <3>1, <3>2, <3>3
  <2>4. InLine(message, buffer)
    BY <2>2, <2>3, TokenShown
  <2>. HIDE DEF message
  <2>5. QED
    BY <1>4, <1>7, <2>1, <2>4
<1>10. CASE Scan \/ ScanThrows \/ Parse \/ ParseDies
  BY <1>4, <1>10 DEF Scan, ScanThrows, Parse, ParseDies, inputVars, resultVars
<1>11. CASE OpenOutput \/ Compile \/ Close \/ delete_nodes \/ Return
  BY <1>4, <1>11 DEF OpenOutput, Compile, Close, delete_nodes, Return, inputVars, resultVars
<1>12. QED
  BY <1>5, <1>6, <1>8, <1>9, <1>10, <1>11 DEF ReplNext

(* A statement that is appended keeps the program sound. *)
LEMMA NodesStep ==
  ASSUME ParserPart, NodesInv, ReplNext
  PROVE  NodesInv'
<1>1. CASE nodes' = nodes
  BY <1>1 DEF NodesInv
<1>2. CASE Accept
  <2>. DEFINE p == Program(nodes)
              q == AddLine(p, node)
              K == Len(nodes)
  <2>1. /\ nodes \in Seq(Seq(Nodes)) /\ Sound(p) /\ Len(p.root) = K /\ K \in Nat
        /\ \A k \in 1 .. K : p.root[k] = nullptr <=> nodes[k] = <<>>
    BY LenProperties DEF NodesInv
  <2>2. nodes' = Append(nodes, node) /\ parsing = "ok"
    BY <1>2 DEF Accept, push_back
  <2>3. PP!Statement(node)
    BY <2>2, PP!StatementBuilt, ParserAssumptions DEF ParserPart
  <2>4. node \in Seq(Nodes) /\ Len(node) \in Nat
    BY <2>3, SameTables, LenProperties DEF PP!Statement
  <2>5. /\ nodes' \in Seq(Seq(Nodes)) /\ Len(nodes') = K + 1
        /\ \A k \in 1 .. K : nodes'[k] = nodes[k]
        /\ nodes'[K + 1] = node
    BY <2>1, <2>2, <2>4, AppendProperties
  <2>6. Program(nodes') = q
    BY <2>1, <2>2, <2>4, ProgramAppend
  <2>7. Sound(q)
    BY <2>1, <2>3, AddLineSound
  <2>8. \E f \in [Nat -> Nat] : Numbered(q, f)
    <3>1. PICK f \in [Nat -> Nat] : Numbered(p, f)
      BY DEF NodesInv
    <3>. HIDE DEF p, q
    <3>2. QED
      BY <2>1, <2>3, <3>1, AddLineNumbered DEF q
  <2>9. /\ p.node \in Seq(Nodes) /\ p.root \in Seq(Nat) /\ Len(p.node) \in Nat
    BY <2>1, SoundFields
  <2>10. LineAdded(p, node, q)
    BY <2>4, <2>9, AddLineFields
  <2>. HIDE DEF p, q
  <2>11. /\ Len(q.root) = K + 1 /\ \A k \in 1 .. K : q.root[k] = p.root[k]
         /\ q.root[K + 1] = IF node = <<>> THEN 0 ELSE Len(p.node) + Len(node)
    BY <2>1, <2>10 DEF LineAdded
  <2>12. q.root[K + 1] = nullptr <=> node = <<>>
    <3>1. node # <<>> => Len(node) # 0
      BY <2>4, EmptySeq
    <3>2. QED
      BY <2>4, <2>9, <2>11, <3>1 DEF nullptr
  <2>13. ASSUME NEW k \in 1 .. K + 1
         PROVE  q.root[k] = nullptr <=> nodes'[k] = <<>>
    <3>1. k \in 1 .. K \/ k = K + 1
      BY <2>1
    <3>2. QED
      BY <2>1, <2>5, <2>11, <2>12, <3>1
  <2>14. QED
    BY <2>5, <2>6, <2>7, <2>11, <2>13, <2>8 DEF NodesInv
<1>3. QED
  BY <1>1, <1>2, OthersKeep

(* A blank line has no tokens, and its statement is null. *)
LEMMA BlankLineStep ==
  ASSUME InputInv, PhaseInv, ScannerInv, ParserPart, NodesInv, BlankLineInv, ReplNext
  PROVE  BlankLineInv'
<1>1. SUFFICES ASSUME NEW i \in 1 .. taken', Blank(input.lines[i])
               PROVE  \/ \E k \in 1 .. Len(nodes') : nodes'[k] = <<>>
                      \/ phase' \in {"scanning", "parsing"} /\ buffer' = input.lines[i]
                      \/ phase' \in Lost
  BY OthersKeep DEF BlankLineInv
<1>. DEFINE line == input.lines[i]
            Found == \E k \in 1 .. Len(nodes) : nodes[k] = <<>>
            Found2 == \E k \in 1 .. Len(nodes') : nodes'[k] = <<>>
<1>2. i \in 1 .. taken =>
        \/ Found
        \/ phase \in {"scanning", "parsing"} /\ buffer = line
        \/ phase \in Lost
  <2>1. \A j \in 1 .. taken :
          Blank(input.lines[j]) =>
            \/ Found
            \/ phase \in {"scanning", "parsing"} /\ buffer = input.lines[j]
            \/ phase \in Lost
    BY DEF BlankLineInv
  <2>. HIDE DEF Found, Found2
  <2>2. Blank(line)
    BY <1>1
  <2>3. QED
    BY <2>1, <2>2
<1>3. i \in 1 .. taken \/ (ReadLine /\ buffer' = line)
  <2>1. CASE ReadLine
    <3>1. /\ buffer' = GetLine
          /\ taken' = IF taken < Len(input.lines) THEN taken + 1 ELSE taken
      BY <2>1 DEF ReadLine
    <3>2. /\ Len(input.lines) \in Nat /\ taken \in Nat
          /\ eof => taken = Len(input.lines)
      BY SessionLines DEF InputInv
    <3>3. i \in 1 .. taken \/ (i = taken + 1 /\ taken < Len(input.lines))
      BY <3>1, <3>2
    <3>4. QED
      BY <2>1, <3>1, <3>2, <3>3 DEF GetLine
  <2>2. QED
    BY <2>1, OthersKeep
<1>4. line # EXIT
  <2>1. Len(EXIT) = 4 /\ EXIT[1] = "e" /\ "e" \notin Spaces
    BY DEF EXIT, Spaces
  <2>2. 1 \in 1 .. 4
    OBVIOUS
  <2>. HIDE DEF EXIT
  <2>3. QED
    BY <1>1, <2>1, <2>2 DEF Blank
<1>5. Found => Found2
  <2>1. CASE Accept
    <3>1. nodes' = Append(nodes, node) /\ nodes \in Seq(Seq(Nodes)) /\ node \in Seq(Nodes)
      BY <2>1, SameTables DEF Accept, push_back, NodesInv, ParserPart, PP!ParserInv,
         PP!ParserTypeOK
    <3>2. /\ Len(nodes) \in Nat /\ Len(nodes') = Len(nodes) + 1
          /\ \A k \in 1 .. Len(nodes) : nodes'[k] = nodes[k]
      BY <3>1, LenProperties, AppendProperties
    <3>3. \A k \in 1 .. Len(nodes) : k \in 1 .. Len(nodes')
      BY <3>2
    <3>4. QED
      BY <3>2, <3>3
  <2>2. QED
    BY <2>1, OthersKeep
<1>. HIDE DEF Found, Found2, line
<1>6. SUFFICES \/ Found2 \/ (phase' \in {"scanning", "parsing"} /\ buffer' = line)
               \/ phase' \in Lost
  BY DEF Found2, line
<1>7. ASSUME phase \in {"scanning", "parsing"}, buffer = line
      PROVE  m_Tokens = <<>> /\ ~ m_HasError
  BY <1>1, <1>7 DEF ScannerInv, BlankInv, line
<1>8. CASE ReadLine
  <2>1. phase = "reading" /\ phase' = IF buffer' = EXIT THEN "compile" ELSE "scanning"
    BY <1>8 DEF ReadLine
  <2>2. QED
    BY <1>2, <1>3, <1>4, <1>5, <2>1 DEF Lost
<1>9. CASE i \in 1 .. taken /\ phase \in Lost
  BY <1>9 DEF Lost, ReplNext, ReadLine, Scan, LoadTokens, ScanThrows, Parse, Accept, ShowError,
     ParseDies, OpenOutput, Compile, C!Compile, Close, delete_nodes, Return
<1>10. CASE phase \in {"scanning", "parsing"} /\ buffer = line /\ ~ ReadLine
  <2>1. buffer' = buffer
    BY <1>10, OthersKeep
  <2>2. CASE Scan \/ Parse
    BY <1>10, <2>1, <2>2 DEF Scan, Parse
  <2>3. CASE LoadTokens \/ ScanThrows \/ ParseDies
    <3>1. phase' \in {"parsing"} \cup Lost
      BY <2>3, MessageThrows DEF LoadTokens, ScanThrows, ParseDies, Lost, NoMessage
    <3>2. QED
      BY <1>10, <2>1, <3>1
  <2>4. phase = "parsing" => parsing # "error" /\ (parsing = "ok" => node = <<>>)
    <3>1. SUFFICES ASSUME phase = "parsing"
                   PROVE  tokens = <<>>
      BY DEF ParserPart, PP!LineInv
    <3>2. DOMAIN m_Tokens = {}
      BY <1>7, <1>10
    <3>3. tokens = [k \in {} |-> ForParser(m_Tokens[k])]
      BY <3>1, <3>2 DEF ScannerInv
    <3>4. tokens \in Seq(PP!TokenRecords) /\ DOMAIN tokens = {}
      BY <3>3 DEF ParserPart, PP!ParserInv, PP!ParserTypeOK, PP!IsLine
    <3>5. Len(tokens) = 0
      <4>1. Len(tokens) \in Nat /\ DOMAIN tokens = 1 .. Len(tokens)
        BY <3>4, LenProperties
      <4>2. QED
        BY <3>4, <4>1
    <3>6. QED
      BY <3>4, <3>5, EmptySeq
  <2>5. CASE Accept
    <3>1. nodes' = Append(nodes, <<>>) /\ nodes \in Seq(Seq(Nodes)) /\ <<>> \in Seq(Nodes)
      BY <2>4, <2>5, EmptySeq DEF Accept, push_back, NodesInv
    <3>2. Len(nodes) \in Nat /\ Len(nodes') = Len(nodes) + 1 /\ nodes'[Len(nodes) + 1] = <<>>
      BY <3>1, LenProperties, AppendProperties
    <3>3. Len(nodes) + 1 \in 1 .. Len(nodes')
      BY <3>2
    <3>4. QED
      BY <3>2, <3>3 DEF Found2
  <2>6. CASE ShowError
    BY <2>4, <2>6 DEF ShowError
  <2>7. QED
    BY <1>10, <2>2, <2>3, <2>5, <2>6 DEF ReplNext, OpenOutput, Compile, C!Compile, Close,
       delete_nodes, Return
<1>11. QED
  BY <1>2, <1>3, <1>5, <1>8, <1>9, <1>10

(* delete_nodes begins with the statements and goes on by one node. *)
LEMMA DeleteStep ==
  ASSUME PhaseInv, NodesInv, DeleteInv, ReplNext
  PROVE  DeleteInv'
<1>. DEFINE p == Program(nodes)
<1>1. /\ IF phase \in {"deleting", "done"} THEN Deleting(p, pending, freed)
                                           ELSE pending = <<>> /\ freed = <<>>
      /\ phase = "done" => pending = <<>>
      /\ Sound(p) /\ Len(p.root) \in Nat
  BY SoundFields DEF DeleteInv, NodesInv
<1>2. ASSUME nodes' = nodes, UNCHANGED <<pending, freed>>,
             phase' = phase \/ (phase = "deleting" /\ phase' = "done" /\ pending = <<>>)
               \/ (phase \notin {"deleting", "done"} /\ phase' \notin {"deleting", "done"})
      PROVE  DeleteInv'
  <2>1. p' = p
    BY <1>2
  <2>. HIDE DEF p
  <2>2. IF phase' \in {"deleting", "done"} THEN Deleting(p, pending, freed)
                                           ELSE pending = <<>> /\ freed = <<>>
    BY <1>1, <1>2
  <2>3. phase' = "done" => pending = <<>>
    BY <1>1, <1>2
  <2>4. QED
    BY <1>2, <2>2, <2>3 DEF DeleteInv, p
<1>3. CASE delete_nodes
  <2>. DEFINE n == pending[Len(pending)]
  <2>1. /\ phase = "deleting" /\ phase' = phase /\ pending # <<>> /\ nodes' = nodes
        /\ pending' = SubSeq(pending, 1, Len(pending) - 1) \o Operands(p.node[n])
        /\ freed' = Append(freed, n)
    BY <1>3 DEF delete_nodes, inputVars
  <2>. HIDE DEF p
  <2>2. Deleting(p, pending', freed')
    BY <1>1, <2>1, DeletionStep
  <2>3. QED
    BY <2>1, <2>2 DEF DeleteInv, p
<1>4. CASE Close
  <2>1. /\ phase = "compiled" /\ phase' = "deleting" /\ nodes' = nodes
        /\ pending' = p.root /\ freed' = freed
    BY <1>4 DEF Close, inputVars
  <2>2. C!Outcome(p) = "compiled"
    BY <2>1 DEF PhaseInv
  <2>. HIDE DEF p
  <2>3. \A k \in 1 .. Len(p.root) : p.root[k] # nullptr
    BY <2>2 DEF C!Outcome, C!NullStatements, nullptr, C!nullptr
  <2>4. Deleting(p, p.root, <<>>)
    BY <1>1, <2>3, DeletionBegins
  <2>5. Deleting(p, pending', freed')
    BY <1>1, <2>1, <2>4
  <2>6. QED
    BY <2>1, <2>5 DEF DeleteInv, p
<1>5. CASE Return
  BY <1>2, <1>5 DEF Return, resultVars
<1>6. CASE Accept
  <2>1. /\ phase = "parsing" /\ phase' \in {"bad_alloc", "reading"} /\ UNCHANGED <<pending, freed>>
    BY <1>6 DEF Accept, NextLine
  <2>2. QED
    BY <1>1, <2>1 DEF DeleteInv
<1>7. CASE ShowError
  <2>1. /\ phase = "parsing" /\ UNCHANGED <<nodes, pending, freed>>
        /\ phase' \in {"bad_alloc", "reading", "out_of_range", "length_error"}
    BY <1>7, MessageThrows DEF ShowError, NextLine
  <2>2. QED
    BY <1>2, <2>1
<1>8. CASE ReadLine \/ Scan \/ ScanThrows \/ Parse \/ ParseDies
  BY <1>2, <1>8 DEF ReadLine, Scan, ScanThrows, Parse, ParseDies, resultVars
<1>9. CASE LoadTokens
  <2>1. phase = "scanning" /\ phase' \in {"parsing", "out_of_range", "length_error"}
        /\ UNCHANGED <<nodes, pending, freed>>
    BY <1>9, MessageThrows DEF LoadTokens, NoMessage, resultVars
  <2>2. QED
    BY <1>2, <2>1
<1>10. CASE OpenOutput
  BY <1>2, <1>10 DEF OpenOutput
<1>11. CASE Compile
  <2>1. /\ phase = "running" /\ UNCHANGED <<nodes, pending, freed>>
        /\ phase' \in {"out_of_range", "assert", "segfault", "compiled"}
    BY <1>11 DEF Compile, C!Compile, C!Outcome
  <2>2. QED
    BY <1>2, <2>1
<1>12. QED
  BY <1>3, <1>4, <1>5, <1>6, <1>7, <1>8, <1>9, <1>10, <1>11 DEF ReplNext

(* What does not change anything keeps it. *)
LEMMA ReplStutter ==
  ASSUME ReplInv, UNCHANGED replVars
  PROVE  ReplInv'
<1>1. /\ UNCHANGED <<input, taken, eof, buffer, files>>
      /\ UNCHANGED <<nodes, asm, memory, pending, freed, replies>>
      /\ UNCHANGED <<phase, complaint>>
      /\ UNCHANGED lexerVars /\ UNCHANGED parserVars
  BY DEF replVars, inputVars, resultVars
<1>2. UNCHANGED <<m_Text, at, m_Tokens, m_HasError, scanning, tokens>>
  BY <1>1 DEF lexerVars, parserVars
<1>3. InputInv'
  BY <1>1 DEF ReplInv, InputInv
<1>4. PhaseInv'
  BY <1>1 DEF ReplInv, PhaseInv, Exits, Ended
<1>5. ScannerInv'
  <2>1. phase \in {"scanning", "parsing"} => LexerInv'
    BY <1>1, LexerStutter DEF ReplInv, ScannerInv
  <2>2. QED
    BY <1>1, <1>2, <2>1 DEF ReplInv, ScannerInv, BlankInv, TokensKnown
<1>6. ParserPart'
  <2>1. UNCHANGED PP!parserVars
    BY <1>1 DEF parserVars, PP!parserVars
  <2>2. PP!ParserInv'
    BY <2>1, PP!ParserStutter, ParserAssumptions DEF ReplInv, ParserPart
  <2>3. PP!LineInv'
    BY <2>1, PP!LineInvStutter, ParserAssumptions DEF ReplInv, ParserPart
  <2>4. QED
    BY <2>2, <2>3 DEF ParserPart
<1>7. MessageInv'
  BY <1>1 DEF ReplInv, MessageInv, MessagesInLine
<1>8. NodesInv'
  BY <1>1 DEF ReplInv, NodesInv
<1>9. BlankLineInv'
  BY <1>1 DEF ReplInv, BlankLineInv
<1>10. DeleteInv'
  BY <1>1 DEF ReplInv, DeleteInv
<1>11. QED
  BY <1>3, <1>4, <1>5, <1>6, <1>7, <1>8, <1>9, <1>10 DEF ReplInv

(* main begins with nothing read and nothing parsed. *)
LEMMA ReplBegins ==
  ASSUME ReplInit
  PROVE  ReplInv
<1>1. InputInv
  <2>1. input \in Sessions /\ IsSession(input)
    BY SessionsAssumption DEF ReplInit
  <2>2. Len(input.lines) \in Nat
    BY <2>1, LenProperties DEF IsSession
  <2>3. taken = 0 /\ eof = FALSE /\ buffer = <<>> /\ buffer \in Seq(STRING)
    BY EmptySeq DEF ReplInit
  <2>4. taken \in 0 .. Len(input.lines) /\ eof \in BOOLEAN
    <3>1. eof \in BOOLEAN
      BY <2>3, Zenon
    <3>2. 0 \in 0 .. Len(input.lines)
      BY <2>2
    <3>3. QED
      BY <2>3, <3>1, <3>2, Zenon
  <2>5. eof => taken = Len(input.lines)
    BY <2>3
  <2>6. buffer # <<>> => \E i \in 1 .. taken : buffer = input.lines[i]
    BY <2>3
  <2>7. QED
    BY <2>1, <2>3, <2>4, <2>5, <2>6 DEF InputInv
<1>2. PhaseInv
  <2>1. Exits = {}
    BY DEF ReplInit, Exits
  <2>2. phase = "reading" /\ asm = "old" /\ memory = 0
    BY DEF ReplInit
  <2>3. QED
    BY <2>1, <2>2 DEF PhaseInv, Phases, Ended
<1>3. ScannerInv
  <2>1. Len(files) = 0
    BY DEF ReplInit
  <2>2. QED
    BY <2>1 DEF ReplInit, ScannerInv
<1>4. ParserPart
  <2>1. PP!Idle
    BY DEF ReplInit, PP!Idle, P!NoToken, PP!NoToken, nullptr, PP!nullptr
  <2>2. PP!ParserInv /\ PP!LineInv
    BY <2>1, PP!IdleInv, ParserAssumptions
  <2>3. QED
    BY <2>2 DEF ParserPart
<1>5. MessageInv
  <2>1. complaint = NoMessage /\ replies = {}
    BY DEF ReplInit
  <2>2. NoMessage \in Messages
    BY EmptySeq DEF NoMessage, Messages
  <2>3. QED
    BY <2>1, <2>2 DEF MessageInv, MessagesInLine, InLine
<1>6. NodesInv
  <2>1. nodes = <<>> /\ Len(nodes) = 0 /\ nodes \in Seq(Seq(Nodes))
    BY EmptySeq DEF ReplInit
  <2>2. Program(nodes) = NoLines /\ NoLines.root = <<>>
    BY <2>1, ProgramOfNone DEF NoLines
  <2>3. QED
    <3>1. Numbered(NoLines, [i \in Nat |-> 0])
      BY DEF Numbered, NoLines, PP!Ordered
    <3>2. [i \in Nat |-> 0] \in [Nat -> Nat]
      OBVIOUS
    <3>3. QED
      BY <2>1, <2>2, <3>1, <3>2, NoLinesSound DEF NodesInv
<1>7. BlankLineInv
  BY DEF ReplInit, BlankLineInv
<1>8. DeleteInv
  BY DEF ReplInit, DeleteInv
<1>9. QED
  BY <1>1, <1>2, <1>3, <1>4, <1>5, <1>6, <1>7, <1>8 DEF ReplInv

-----------------------------------------------------------------------------
(* For every session, whatever its lines are, the invariant always holds.   *)
THEOREM ReplInvCorrect == ReplSpec => []ReplInv
<1>1. ReplInit => ReplInv
  BY ReplBegins
<1>2. ReplInv /\ [ReplNext \/ Over]_replVars => ReplInv'
  <2> SUFFICES ASSUME ReplInv, [ReplNext \/ Over]_replVars
               PROVE  ReplInv'
    OBVIOUS
  <2>1. CASE ReplNext
    <3>1. /\ InputInv /\ PhaseInv /\ ScannerInv /\ ParserPart /\ MessageInv
          /\ NodesInv /\ BlankLineInv /\ DeleteInv
      BY DEF ReplInv
    <3>2. InputInv'
      BY <2>1, <3>1, InputStep
    <3>3. PhaseInv' /\ ParserPart' /\ MessageInv' /\ NodesInv'
      BY <2>1, <3>1, PhaseStep, ParserPartStep, MessageStep, NodesStep
    <3>4. ScannerInv' /\ BlankLineInv' /\ DeleteInv'
      BY <2>1, <3>1, <3>2, ScannerStep, BlankLineStep, DeleteStep
    <3>5. QED
      BY <3>2, <3>3, <3>4 DEF ReplInv
  <2>2. CASE UNCHANGED replVars
    BY <2>2, ReplStutter
  <2>3. QED
    BY <2>1, <2>2 DEF Over
<1>3. QED
  BY <1>1, <1>2, PTL DEF ReplSpec

(* The variables of main keep their types, and the files never hold more    *)
(* than one line.                                                           *)
THEOREM ReplTypeCorrect == ReplSpec => []ReplTypeOK
<1>1. ASSUME ReplInv
      PROVE  ReplTypeOK
  <2>1. P!ParserTypeOK
    BY <1>1, SameTypeOK DEF ReplInv, ParserPart, PP!ParserInv
  <2>2. \A k \in 1 .. Len(nodes) : nodes[k] \in Seq(Nodes)
    BY <1>1, ElementOfSeq DEF ReplInv, NodesInv
  <2>3. QED
    BY <1>1, <2>1, <2>2 DEF ReplInv, ReplTypeOK, InputInv, PhaseInv, ScannerInv, MessageInv,
       Phases
<1>2. ReplInv => ReplTypeOK
  BY <1>1
<1>3. QED
  BY <1>2, ReplInvCorrect, PTL

(* What one line leaves in the lexer and the parser does not break what they *)
(* keep for the next, whatever the lines are and however many there are.     *)
THEOREM PartsKeepCorrect == ReplSpec => []PartsKeep
<1>1. ASSUME ReplInv
      PROVE  PartsKeep
  <2>1. ASSUME phase = "scanning"
        PROVE  CursorInText /\ TokensSpelled /\ NothingElseLost
    <3>1. LexerInv
      BY <1>1, <2>1 DEF ReplInv, ScannerInv
    <3>2. QED
      BY <3>1, CursorOfInv DEF LexerInv, TokensInv, TokensSpelled, BehindOf
  <2>2. P!TokensInLine /\ P!HeldOnce
    BY <1>1, SameTokensInLine, SameHeldOnce DEF ReplInv, ParserPart, PP!ParserInv
  <2>3. QED
    BY <2>1, <2>2 DEF PartsKeep
<1>2. ReplInv => PartsKeep
  BY <1>1
<1>3. QED
  BY <1>2, ReplInvCorrect, PTL

(* Every message shows the line it is about and underlines columns of it,   *)
(* and making one never throws.                                             *)
THEOREM MessagesInLineCorrect == ReplSpec => []MessagesInLine
<1>1. ReplInv => MessagesInLine
  BY DEF ReplInv, MessageInv
<1>2. QED
  BY <1>1, ReplInvCorrect, PTL

(* What main compiles is a program: whatever the lines were, the operands of *)
(* a node are there and come before it, and it has one owner.               *)
THEOREM SoundCorrect == ReplSpec => []Sound(Program(nodes))
<1>1. ReplInv => Sound(Program(nodes))
  BY DEF ReplInv, NodesInv
<1>2. QED
  BY <1>1, ReplInvCorrect, PTL

(* Whatever the lines were, the program that main collects is one that       *)
(* compile can take, with the nodes in the order of the text: what is assumed *)
(* of a program elsewhere is so for every session.                           *)
THEOREM ProgramOrderedCorrect == ReplSpec => []ProgramOrdered
<1>1. ASSUME ReplInv
      PROVE  ProgramOrdered
  <2>1. Sound(Program(nodes)) /\ \E f \in [Nat -> Nat] : Numbered(Program(nodes), f)
    BY <1>1 DEF ReplInv, NodesInv
  <2>2. InTextOrder(Program(nodes))
    BY <2>1, NumberedInOrder
  <2>3. QED
    BY <2>1, <2>2 DEF ProgramOrdered, Sound
<1>2. ReplInv => ProgramOrdered
  BY <1>1
<1>3. QED
  BY <1>2, ReplInvCorrect, PTL

(* Chronos.asm is left alone until "exit" has been read, and holds code only *)
(* if no line before was blank, had an unbound name or a minus.             *)
THEOREM AsmWrittenCorrect == ReplSpec => []AsmWritten
<1>1. ASSUME ReplInv
      PROVE  AsmWritten
  <2>. DEFINE p == Program(nodes)
  <2>1. /\ asm # "old" => Exits = {taken}
        /\ asm = "empty" /\ Ended => Len(nodes) > 0
        /\ asm = "code" => phase \in {"deleting", "done"} /\ C!Outcome(p) = "compiled"
    BY <1>1 DEF ReplInv, PhaseInv
  <2>2. \A k \in 1 .. Len(nodes) : p.root[k] = nullptr <=> nodes[k] = <<>>
    BY <1>1 DEF ReplInv, NodesInv
  <2>3. Len(p.root) = Len(nodes)
    BY <1>1 DEF ReplInv, NodesInv
  <2>. HIDE DEF p
  <2>4. SUFFICES ASSUME asm = "code"
                 PROVE  /\ \A i \in 1 .. Len(Before) : ~ Blank(Before[i])
                        /\ \A n \in 1 .. Len(p.node) : ~ C!Unbound(p, n)
                        /\ \A n \in 1 .. Len(p.node) : ~ C!IsMinus(p.node[n])
    BY <2>1 DEF AsmWritten, p
  <2>5. C!NullStatements(p) = {} /\ \A n \in 1 .. Len(p.node) : ~ C!Unbound(p, n)
    BY <2>1, <2>4 DEF C!Outcome
  <2>6. \A n \in 1 .. Len(p.node) : ~ C!IsMinus(p.node[n])
    BY <2>1, <2>4, <2>5 DEF C!Outcome, C!MinusFirst
  <2>7. \A k \in 1 .. Len(nodes) : nodes[k] # <<>>
    BY <2>2, <2>3, <2>5 DEF C!NullStatements, C!nullptr, nullptr
  <2>8. \A i \in 1 .. taken : ~ Blank(input.lines[i])
    BY <1>1, <2>1, <2>4, <2>7 DEF ReplInv, BlankLineInv, Lost
  <2>9. ASSUME NEW i \in 1 .. Len(Before)
        PROVE  i \in 1 .. taken /\ Before[i] = input.lines[i]
    <3>1. input \in Sessions /\ taken \in Nat /\ taken <= Len(input.lines)
      BY <1>1, SessionLines DEF ReplInv, InputInv
    <3>2. input.lines \in Seq(Seq(STRING))
      BY <3>1, SessionsAssumption DEF IsSession
    <3>3. taken # 0
      BY <2>1, <2>4, <3>1 DEF Exits
    <3>4. /\ Len(Before) = IF 1 <= taken - 1 THEN (taken - 1) - 1 + 1 ELSE 0
          /\ \A j \in 1 .. (taken - 1) - 1 + 1 : Before[j] = input.lines[1 + j - 1]
      <4>1. 1 \in 1 .. Len(input.lines) + 1 /\ taken - 1 \in 1 - 1 .. Len(input.lines)
        BY <1>1, <3>1, <3>3, SessionLines DEF ReplInv
      <4>2. QED
        BY <3>2, <4>1, SubSeqProperties DEF Before
    <3>5. i \in 1 .. (taken - 1) - 1 + 1 /\ i \in 1 .. taken /\ 1 + i - 1 = i
      BY <3>1, <3>3, <3>4
    <3>6. QED
      BY <3>4, <3>5
  <2>10. QED
    BY <2>5, <2>6, <2>8, <2>9
<1>2. ReplInv => AsmWritten
  BY <1>1
<1>3. QED
  BY <1>2, ReplInvCorrect, PTL

(* delete_nodes frees no node twice and, when main returns, has missed none, *)
(* whatever the lines were.                                                 *)
THEOREM NodesFreedOnceCorrect == ReplSpec => []NodesFreedOnce
<1>1. ASSUME ReplInv
      PROVE  NodesFreedOnce
  <2>1. CASE phase \in {"deleting", "done"}
    <3>1. Deleting(Program(nodes), pending, freed) /\ Sound(Program(nodes))
      BY <1>1, <2>1 DEF ReplInv, DeleteInv, NodesInv
    <3>2. \A i, j \in 1 .. Len(freed) : freed[i] = freed[j] => i = j
      BY <3>1 DEF Deleting
    <3>3. phase = "done" => pending = <<>>
      BY <1>1 DEF ReplInv, DeleteInv
    <3>4. phase = "done" => {freed[i] : i \in 1 .. Len(freed)} = DOMAIN Program(nodes).node
      BY <3>1, <3>3, DeletionEnds
    <3>5. QED
      BY <3>2, <3>4 DEF NodesFreedOnce
  <2>2. CASE phase \notin {"deleting", "done"}
    <3>1. freed = <<>> /\ Len(<<>>) = 0
      BY <1>1, <2>2 DEF ReplInv, DeleteInv
    <3>2. QED
      BY <2>2, <3>1 DEF NodesFreedOnce
  <2>3. QED
    BY <2>1, <2>2
<1>2. ReplInv => NodesFreedOnce
  BY <1>1
<1>3. QED
  BY <1>2, ReplInvCorrect, PTL
=============================================================================

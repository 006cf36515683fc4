--------------------------- MODULE Machine_proofs ---------------------------
(***************************************************************************)
(* For every program in which the right operand of no && and || contains   *)
(* another one: the compiled program keeps its stack in balance, prints    *)
(* every value as what it is, and changes a variable only by assigning to  *)
(* it.  The proof goes by the typing of StackTypes.                        *)
(*                                                                         *)
(* The code generator writes typed code: every instruction of every block  *)
(* it writes leads from a point to the next one, and the blocks of an      *)
(* activation lead from the point it needs to the point it promises, where *)
(* the jump of a && or || meets the end of the same node (TypedTodoStep).  *)
(* The processor follows the typing: from the point of an instruction each *)
(* step leads to the point of the next one (BodyStep), so it is always at  *)
(* the point of the next instruction (TypingInvCorrect).                   *)
(***************************************************************************)
EXTENDS StackTypes, Compiler_proofs, FiniteSetTheorems

-----------------------------------------------------------------------------
(* Points.                                                                 *)

(* A point with other contents of one word. *)
LEMMA HoldingParts ==
  ASSUME NEW p \in Points, NEW j \in Places, NEW t \in Kinds
  PROVE  /\ Holding(p, j, t) \in Points
         /\ Holding(p, j, t).d = p.d /\ Holding(p, j, t).c = p.c
         /\ Holding(p, j, t).eax = p.eax
         /\ \A i \in Places : Holding(p, j, t).slot[i] = IF i = j THEN t ELSE p.slot[i]
<1>1. [p.slot EXCEPT ![j] = t] \in [Places -> Kinds]
  BY DEF Points
<1>2. \A i \in Places : [p.slot EXCEPT ![j] = t][i] = IF i = j THEN t ELSE p.slot[i]
  BY DEF Points
<1>3. QED
  BY <1>1, <1>2 DEF Holding, Points

(* A point at another depth. *)
LEMMA MovedParts ==
  ASSUME NEW p \in Points, NEW d \in Nat
  PROVE  /\ Moved(p, d) \in Points
         /\ Moved(p, d).d = d /\ Moved(p, d).c = p.c
         /\ Moved(p, d).eax = p.eax /\ Moved(p, d).slot = p.slot
  BY DEF Points, Moved

(* A point with another word in EAX. *)
LEMMA EAXParts ==
  ASSUME NEW p \in Points, NEW t \in Kinds
  PROVE  /\ InEAX(p, t) \in Points
         /\ InEAX(p, t).d = p.d /\ InEAX(p, t).c = p.c
         /\ InEAX(p, t).eax = t /\ InEAX(p, t).slot = p.slot
  BY DEF Points, InEAX

(* The parts of a point. *)
LEMMA PointParts ==
  ASSUME NEW p \in Points
  PROVE  /\ p.d \in Nat /\ p.c \in Nat /\ p.eax \in Kinds
         /\ \A j \in Places : p.slot[j] \in Kinds
  BY DEF Points

(* A word more on the stack. *)
LEMMA PushedParts ==
  ASSUME NEW p \in Points, NEW t \in Kinds
  PROVE  /\ Pushed(p, t) \in Points
         /\ Pushed(p, t).d = p.d + 1 /\ Pushed(p, t).c = p.c
         /\ Pushed(p, t).eax = p.eax
         /\ \A i \in Places : Pushed(p, t).slot[i] = IF i = p.d + 1 THEN t ELSE p.slot[i]
<1>. DEFINE h == Holding(p, p.d + 1, t)
<1>1. p.d + 1 \in Nat /\ p.d + 1 \in Places
  BY PointParts DEF Places
<1>2. /\ h \in Points /\ h.d = p.d /\ h.c = p.c /\ h.eax = p.eax
      /\ \A i \in Places : h.slot[i] = IF i = p.d + 1 THEN t ELSE p.slot[i]
  BY <1>1, HoldingParts
<1>. HIDE DEF h
<1>3. QED
  BY <1>1, <1>2, MovedParts DEF Pushed, h

(* A word less on the stack. *)
LEMMA PoppedParts ==
  ASSUME NEW p \in Points, p.d >= 1
  PROVE  /\ Popped(p) \in Points
         /\ Popped(p).d = p.d - 1 /\ Popped(p).c = p.c
         /\ Popped(p).eax = p.eax
         /\ \A i \in Places : Popped(p).slot[i] = IF i = p.d THEN "ANY" ELSE p.slot[i]
<1>. DEFINE h == Holding(p, p.d, "ANY")
<1>1. p.d - 1 \in Nat /\ p.d \in Places /\ "ANY" \in Kinds
  BY PointParts DEF Places, Kinds
<1>2. /\ h \in Points /\ h.d = p.d /\ h.c = p.c /\ h.eax = p.eax
      /\ \A i \in Places : h.slot[i] = IF i = p.d THEN "ANY" ELSE p.slot[i]
  BY <1>1, HoldingParts
<1>. HIDE DEF h
<1>3. QED
  BY <1>1, <1>2, MovedParts DEF Popped, h

(* Every point is a weaker one of itself. *)
LEMMA WeakensItself ==
  ASSUME NEW p \in Points
  PROVE  Weakens(p, p)
  BY PointParts DEF Weakens

(* Weakening twice is weakening. *)
LEMMA WeakensTwice ==
  ASSUME NEW p \in Points, NEW q \in Points, NEW r \in Points, Weakens(p, q), Weakens(q, r)
  PROVE  Weakens(p, r)
<1>1. r.d = p.d /\ r.c = p.c
  BY DEF Weakens
<1>2. r.eax \in {"ANY", p.eax}
  BY DEF Weakens
<1>3. \A j \in Places : r.slot[j] \in {"ANY", p.slot[j]}
  <2>1. \A j \in Places : r.slot[j] \in {"ANY", q.slot[j]} /\ q.slot[j] \in {"ANY", p.slot[j]}
    BY DEF Weakens
  <2>2. QED
    BY <2>1
<1>4. QED
  BY <1>1, <1>2, <1>3 DEF Weakens

(* The same with the same words on the stack, for a point that says nothing *)
(* of EAX.                                                                 *)
LEMMA WeakensLike ==
  ASSUME NEW p \in Points, NEW a \in Points, NEW q \in Points, Weakens(a, q), q.eax = "ANY",
         p.d = a.d, p.c = a.c, \A j \in Places : a.slot[j] \in {"ANY", p.slot[j]}
  PROVE  Weakens(p, q)
<1>1. \A j \in Places : q.slot[j] \in {"ANY", p.slot[j]}
  <2>1. \A j \in Places : q.slot[j] \in {"ANY", a.slot[j]}
    BY DEF Weakens
  <2>2. QED
    BY <2>1
<1>2. QED
  BY <1>1 DEF Weakens

-----------------------------------------------------------------------------
(* The typing of the instructions.                                         *)

(* The fields of an instruction. *)
LEMMA InstParts ==
  ASSUME NEW op, NEW a, NEW b
  PROVE  /\ Inst2(op, a, b).op = op /\ Inst2(op, a, b).a = a /\ Inst2(op, a, b).b = b
         /\ Inst1(op, a).op = op /\ Inst1(op, a).a = a
  BY DEF Inst1, Inst2

(* The fields of the operands. *)
LEMMA OperandParts ==
  ASSUME NEW n, NEW s
  PROVE  /\ Imm(n).mode = "imm" /\ Imm(n).n = n
         /\ Float(n).mode = "float"
         /\ SubLabel(n).mode = "sub_label" /\ SubLabel(n).n = n
         /\ Sym(s).mode = "sym" /\ Sym(s).name = s
         /\ Deref(s, n).mode = "deref" /\ Deref(s, n).name = s /\ Deref(s, n).n = n
  BY DEF Imm, Float, SubLabel, Sym, Deref, Operand

(* The registers are different operands. *)
LEMMA RegisterParts ==
  /\ EAX.mode = "reg" /\ EAX.name = "EAX" /\ ECX.mode = "reg" /\ ECX.name = "ECX"
  /\ EDX.mode = "reg" /\ EDX.name = "EDX" /\ EBX.mode = "reg" /\ EBX.name = "EBX"
  /\ AL.mode = "reg" /\ AL.name = "AL" /\ CL.mode = "reg" /\ CL.name = "CL"
  /\ ESP.mode = "reg" /\ ESP.name = "ESP" /\ EBP.mode = "reg" /\ EBP.name = "EBP"
  /\ XMM0.mode = "reg" /\ XMM0.name = "XMM0" /\ XMM1.mode = "reg" /\ XMM1.name = "XMM1"
  BY DEF EAX, ECX, EDX, EBX, AL, CL, ESP, EBP, XMM0, XMM1, Reg, Operand

(* PUSH *)
LEMMA RunsPush ==
  ASSUME NEW L, NEW S, NEW B, NEW p, NEW q, NEW o, Readable(p, B, o),
         Weakens(Pushed(p, KindOf(p, S, o)), q)
  PROVE  Runs(Inst1("PUSH", o), L, S, B, p, q)
  BY InstParts DEF Runs

(* POP *)
LEMMA RunsPop ==
  ASSUME NEW L, NEW S, NEW B, NEW p, NEW q, p.d >= 1
  PROVE  /\ Weakens(InEAX(Moved(p, p.d - 1), p.slot[p.d]), q)
              => Runs(Inst1("POP", EAX), L, S, B, p, q)
         /\ p.slot[p.d] = "INT" /\ Weakens(Moved(p, p.d - 1), q)
              => Runs(Inst1("POP", ECX), L, S, B, p, q)
  BY InstParts DEF Runs

(* What changes ESP alone. *)
LEMMA RunsAdjust ==
  ASSUME NEW L, NEW S, NEW B, NEW p, NEW q
  PROVE  /\ p.d >= 1 /\ Weakens(Moved(p, p.d - 1), q)
              => Runs(Inst2("ADD", ESP, Imm(4)), L, S, B, p, q)
         /\ p.d >= 2 /\ Weakens(Moved(p, p.d - 2), q)
              => Runs(Inst2("ADD", ESP, Imm(8)), L, S, B, p, q)
         /\ Weakens(Moved(p, p.d + 1), q) => Runs(Inst2("SUB", ESP, Imm(4)), L, S, B, p, q)
  BY InstParts DEF Runs

(* What leaves an integer in EAX. *)
LEMMA RunsArith ==
  ASSUME NEW L, NEW S, NEW B, NEW p, NEW q, Weakens(InEAX(p, "INT"), q)
  PROVE  /\ Runs(Inst2("ADD", EAX, ECX), L, S, B, p, q)
         /\ Runs(Inst2("SUB", EAX, ECX), L, S, B, p, q)
         /\ Runs(Inst1("MUL", ECX), L, S, B, p, q)
         /\ Runs(Inst1("DIV", ECX), L, S, B, p, q)
<1>1. Runs(Inst2("ADD", EAX, ECX), L, S, B, p, q) /\ Runs(Inst2("SUB", EAX, ECX), L, S, B, p, q)
  BY InstParts DEF Runs
<1>2. Runs(Inst1("MUL", ECX), L, S, B, p, q) /\ Runs(Inst1("DIV", ECX), L, S, B, p, q)
  BY InstParts DEF Runs
<1>3. QED
  BY <1>1, <1>2

(* What changes flags, a byte or an XMM register. *)
LEMMA RunsQuiet ==
  ASSUME NEW L, NEW S, NEW B, NEW p, NEW q, Weakens(p, q), NEW op, NEW a, NEW b,
         \/ op \in FlagOps
         \/ op \in SetOps /\ a \in {AL, CL}
         \/ op \in ScalarOps /\ a \in {XMM0, XMM1}
  PROVE  /\ Runs(Inst2(op, a, b), L, S, B, p, q)
         /\ Runs(Inst1(op, a), L, S, B, p, q)
  BY InstParts DEF Runs

(* Moves. *)
LEMMA RunsMove ==
  ASSUME NEW L, NEW S, NEW B, NEW p, NEW q,
         NEW op \in {"MOV", "MOVSS", "MOVZX", "CVTSI2SS"}, NEW a, NEW b,
         Moves(Inst2(op, a, b), S, B, p, q)
  PROVE  Runs(Inst2(op, a, b), L, S, B, p, q)
<1>1. Inst2(op, a, b).op = op
  BY InstParts
<1>. DEFINE ins == Inst2(op, a, b)
<1>. HIDE DEF ins
<1>2. ins.op \in {"MOV", "MOVSS", "MOVZX", "CVTSI2SS"} /\ Moves(ins, S, B, p, q)
  BY <1>1 DEF ins
<1>3. Runs(ins, L, S, B, p, q)
  BY <1>2 DEF Runs
<1>4. QED
  BY <1>3 DEF ins

(* Labels and jumps. *)
LEMMA RunsControl ==
  ASSUME NEW L, NEW S, NEW B, NEW p, NEW q, NEW l, Weakens(p, q)
  PROVE  /\ p = L[l] => Runs(Define(l), L, S, B, p, q)
         /\ \A op \in JumpOps : Weakens(p, L[l]) => Runs(Inst1(op, SubLabel(l)), L, S, B, p, q)
<1>1. /\ Define(l).op = "SUB_LABEL" /\ Define(l).a.n = l
      /\ \A op : Inst1(op, SubLabel(l)).op = op /\ Inst1(op, SubLabel(l)).a.n = l
  BY InstParts, OperandParts DEF Define
<1>2. p = L[l] => Runs(Define(l), L, S, B, p, q)
  BY <1>1 DEF Runs
<1>3. ASSUME NEW op \in JumpOps, Weakens(p, L[l])
      PROVE  Runs(Inst1(op, SubLabel(l)), L, S, B, p, q)
  <2>. DEFINE ins == Inst1(op, SubLabel(l))
  <2>1. ins.op \in JumpOps /\ ins.a.n = l
    BY <1>1
  <2>. HIDE DEF ins
  <2>2. Runs(ins, L, S, B, p, q)
    BY <1>3, <2>1 DEF Runs
  <2>3. QED
    BY <2>2 DEF ins
<1>4. QED
  BY <1>2, <1>3

(* Calls. *)
LEMMA RunsCall ==
  ASSUME NEW L, NEW S, NEW B, NEW p, NEW q, NEW f, Prints(f, p),
         Weakens(InEAX([p EXCEPT !.c = p.c + 1], "ANY"), q)
  PROVE  Runs(Inst1("CALL", Sym(f)), L, S, B, p, q)
  BY InstParts, OperandParts DEF Runs

-----------------------------------------------------------------------------
(* Blocks of instructions.                                                 *)

(* The block leads from point p to point q. *)
Takes(b, L, S, B, p, q) ==
  /\ b \in Seq(Instructions)
  /\ \E pts \in Seq(Points) :
       /\ Len(pts) = Len(b) + 1 /\ pts[1] = p /\ pts[Len(b) + 1] = q
       /\ \A i \in 1 .. Len(b) : Runs(b[i], L, S, B, pts[i], pts[i + 1])

(* Blocks of a few instructions. *)
LEMMA TakesOne ==
  ASSUME NEW L, NEW S, NEW B, NEW p \in Points, NEW q \in Points, NEW i1 \in Instructions,
         Runs(i1, L, S, B, p, q)
  PROVE  Takes(<<i1>>, L, S, B, p, q)
<1>. DEFINE pts == <<p, q>>
            b == <<i1>>
<1>1. pts \in Seq(Points) /\ Len(pts) = 2 /\ pts[1] = p /\ pts[2] = q
  OBVIOUS
<1>2. b \in Seq(Instructions) /\ Len(b) = 1 /\ b[1] = i1
  OBVIOUS
<1>. HIDE DEF pts, b
<1>3. \A i \in 1 .. Len(b) : Runs(b[i], L, S, B, pts[i], pts[i + 1])
  BY <1>1, <1>2
<1>4. Takes(b, L, S, B, p, q)
  BY <1>1, <1>2, <1>3 DEF Takes
<1>5. QED
  BY <1>4 DEF b

(* Two. *)
LEMMA TakesTwo ==
  ASSUME NEW L, NEW S, NEW B, NEW p \in Points, NEW p1 \in Points, NEW q \in Points,
         NEW i1 \in Instructions, NEW i2 \in Instructions,
         Runs(i1, L, S, B, p, p1), Runs(i2, L, S, B, p1, q)
  PROVE  Takes(<<i1, i2>>, L, S, B, p, q)
<1>. DEFINE pts == <<p, p1, q>>
            b == <<i1, i2>>
<1>1. pts \in Seq(Points) /\ Len(pts) = 3 /\ pts[1] = p /\ pts[2] = p1 /\ pts[3] = q
  OBVIOUS
<1>2. b \in Seq(Instructions) /\ Len(b) = 2 /\ b[1] = i1 /\ b[2] = i2
  OBVIOUS
<1>. HIDE DEF pts, b
<1>3. \A i \in 1 .. Len(b) : Runs(b[i], L, S, B, pts[i], pts[i + 1])
  BY <1>1, <1>2
<1>4. Takes(b, L, S, B, p, q)
  BY <1>1, <1>2, <1>3 DEF Takes
<1>5. QED
  BY <1>4 DEF b

(* Three. *)
LEMMA TakesThree ==
  ASSUME NEW L, NEW S, NEW B, NEW p \in Points, NEW p1 \in Points, NEW p2 \in Points,
         NEW q \in Points,
         NEW i1 \in Instructions, NEW i2 \in Instructions, NEW i3 \in Instructions,
         Runs(i1, L, S, B, p, p1), Runs(i2, L, S, B, p1, p2), Runs(i3, L, S, B, p2, q)
  PROVE  Takes(<<i1, i2, i3>>, L, S, B, p, q)
<1>. DEFINE pts == <<p, p1, p2, q>>
            b == <<i1, i2, i3>>
<1>1. pts \in Seq(Points) /\ Len(pts) = 4 /\ pts[1] = p /\ pts[2] = p1 /\ pts[3] = p2 /\ pts[4] = q
  OBVIOUS
<1>2. b \in Seq(Instructions) /\ Len(b) = 3 /\ b[1] = i1 /\ b[2] = i2 /\ b[3] = i3
  OBVIOUS
<1>. HIDE DEF pts, b
<1>3. \A i \in 1 .. Len(b) : Runs(b[i], L, S, B, pts[i], pts[i + 1])
  BY <1>1, <1>2
<1>4. Takes(b, L, S, B, p, q)
  BY <1>1, <1>2, <1>3 DEF Takes
<1>5. QED
  BY <1>4 DEF b

(* Four. *)
LEMMA TakesFour ==
  ASSUME NEW L, NEW S, NEW B, NEW p \in Points, NEW p1 \in Points, NEW p2 \in Points,
         NEW p3 \in Points, NEW q \in Points,
         NEW i1 \in Instructions, NEW i2 \in Instructions, NEW i3 \in Instructions,
         NEW i4 \in Instructions,
         Runs(i1, L, S, B, p, p1), Runs(i2, L, S, B, p1, p2), Runs(i3, L, S, B, p2, p3),
         Runs(i4, L, S, B, p3, q)
  PROVE  Takes(<<i1, i2, i3, i4>>, L, S, B, p, q)
<1>. DEFINE pts == <<p, p1, p2, p3, q>>
            b == <<i1, i2, i3, i4>>
<1>1. /\ pts \in Seq(Points) /\ Len(pts) = 5
      /\ pts[1] = p /\ pts[2] = p1 /\ pts[3] = p2 /\ pts[4] = p3 /\ pts[5] = q
  OBVIOUS
<1>2. b \in Seq(Instructions) /\ Len(b) = 4 /\ b[1] = i1 /\ b[2] = i2 /\ b[3] = i3 /\ b[4] = i4
  OBVIOUS
<1>. HIDE DEF pts, b
<1>3. \A i \in 1 .. Len(b) : Runs(b[i], L, S, B, pts[i], pts[i + 1])
  BY <1>1, <1>2
<1>4. Takes(b, L, S, B, p, q)
  BY <1>1, <1>2, <1>3 DEF Takes
<1>5. QED
  BY <1>4 DEF b

(* One block and then another. *)
LEMMA TakesBoth ==
  ASSUME NEW L, NEW S, NEW B, NEW p, NEW m, NEW q,
         NEW a, NEW b,
         Takes(a, L, S, B, p, m), Takes(b, L, S, B, m, q)
  PROVE  Takes(a \o b, L, S, B, p, q)
<1>0. a \in Seq(Instructions) /\ b \in Seq(Instructions)
  BY DEF Takes
<1>1. PICK s \in Seq(Points) :
        /\ Len(s) = Len(a) + 1 /\ s[1] = p /\ s[Len(a) + 1] = m
        /\ \A i \in 1 .. Len(a) : Runs(a[i], L, S, B, s[i], s[i + 1])
  BY DEF Takes
<1>2. PICK t \in Seq(Points) :
        /\ Len(t) = Len(b) + 1 /\ t[1] = m /\ t[Len(b) + 1] = q
        /\ \A i \in 1 .. Len(b) : Runs(b[i], L, S, B, t[i], t[i + 1])
  BY DEF Takes
<1>. DEFINE N == Len(a)
            M == Len(b)
            c == a \o b
            u == [i \in 1 .. N + M + 1 |-> IF i <= N THEN s[i] ELSE t[i - N]]
<1>3. /\ N \in Nat /\ M \in Nat /\ Len(c) = N + M /\ c \in Seq(Instructions)
      /\ \A i \in 1 .. Len(c) :
           \/ i \in 1 .. N /\ c[i] = a[i]
           \/ i > N /\ i - N \in 1 .. M /\ c[i] = b[i - N]
  BY <1>0, ConcatParts
<1>4. \A i \in 1 .. N + 1 : s[i] \in Points
  BY <1>1, <1>3, ElementOfSeq
<1>5. \A i \in 1 .. M + 1 : t[i] \in Points
  BY <1>2, <1>3, ElementOfSeq
<1>6. u \in Seq(Points) /\ Len(u) = N + M + 1
  <2>. DEFINE e(i) == IF i <= N THEN s[i] ELSE t[i - N]
              K == N + M + 1
  <2>1. \A i \in 1 .. K : e(i) \in Points
    BY <1>3, <1>4, <1>5
  <2>2. K \in Nat
    BY <1>3
  <2>3. u = [i \in 1 .. K |-> e(i)]
    OBVIOUS
  <2>. HIDE DEF K, e, u
  <2>4. u \in Seq(Points)
    BY <2>1, <2>2, <2>3, IsASeq
  <2>5. Len(u) = K
    BY <2>2, <2>3, <2>4
  <2>6. QED
    BY <2>4, <2>5 DEF K
<1>7. /\ \A i \in 1 .. N + 1 : u[i] = s[i]
      /\ \A i \in N + 1 .. N + M + 1 : u[i] = t[i - N]
  BY <1>1, <1>2, <1>3
<1>. HIDE DEF N, M, u, c
<1>8. u[1] = p /\ u[Len(c) + 1] = q
  <2>1. u[1] = s[1]
    BY <1>3, <1>7
  <2>2. u[N + M + 1] = t[M + 1]
    <3>1. N + M + 1 \in N + 1 .. N + M + 1 /\ (N + M + 1) - N = M + 1
      BY <1>3
    <3>2. QED
      BY <1>7, <3>1
  <2>3. QED
    BY <1>1, <1>2, <1>3, <2>1, <2>2 DEF M
<1>9. ASSUME NEW i \in 1 .. Len(c)
      PROVE  Runs(c[i], L, S, B, u[i], u[i + 1])
  <2>1. CASE i \in 1 .. N /\ c[i] = a[i]
    <3>1. u[i] = s[i] /\ u[i + 1] = s[i + 1]
      BY <1>3, <1>7, <2>1
    <3>2. QED
      BY <1>1, <2>1, <3>1 DEF N
  <2>2. CASE i > N /\ i - N \in 1 .. M /\ c[i] = b[i - N]
    <3>1. u[i] = t[i - N] /\ u[i + 1] = t[(i + 1) - N] /\ (i + 1) - N = (i - N) + 1
      BY <1>3, <1>7, <2>2
    <3>2. Runs(b[i - N], L, S, B, t[i - N], t[(i - N) + 1])
      BY <1>2, <2>2 DEF M
    <3>3. QED
      BY <2>2, <3>1, <3>2
  <2>3. QED
    BY <1>3, <2>1, <2>2
<1>10. Len(u) = Len(c) + 1
  BY <1>3, <1>6
<1>11. Takes(c, L, S, B, p, q)
  BY <1>3, <1>6, <1>8, <1>9, <1>10 DEF Takes
<1>12. QED
  BY <1>11 DEF c

-----------------------------------------------------------------------------
(* What the code generator writes, construct by construct.                 *)

(* Its instructions are instructions of x86ASM.h. *)
LEMMA WrittenType ==
  ASSUME NEW op \in InstTypes, NEW a \in InstOperands, NEW b \in InstOperands
  PROVE  Inst2(op, a, b) \in Instructions /\ Inst1(op, a) \in Instructions
  BY OperandType DEF Inst2, Inst1, Instructions

(* Every kind is one of the three. *)
LEMMA KindType == "INT" \in Kinds /\ "FLOAT" \in Kinds /\ "ANY" \in Kinds
  BY DEF Kinds

(* The top of the stack replaced by another word. *)
LEMMA ReplacedOne ==
  ASSUME NEW p \in Points, p.d >= 1, NEW t \in Kinds
  PROVE  LET a == Pushed(Popped(p), t) IN
           /\ a \in Points /\ a.d = p.d /\ a.c = p.c /\ a.eax = p.eax
           /\ \A i \in Places : a.slot[i] = IF i = p.d THEN t ELSE p.slot[i]
<1>. DEFINE r == Popped(p)
<1>1. /\ r \in Points /\ r.d = p.d - 1 /\ r.c = p.c /\ r.eax = p.eax
      /\ \A i \in Places : r.slot[i] = IF i = p.d THEN "ANY" ELSE p.slot[i]
  BY PoppedParts
<1>. HIDE DEF r
<1>2. /\ Pushed(r, t) \in Points /\ Pushed(r, t).d = r.d + 1 /\ Pushed(r, t).c = r.c
      /\ Pushed(r, t).eax = r.eax
      /\ \A i \in Places : Pushed(r, t).slot[i] = IF i = r.d + 1 THEN t ELSE r.slot[i]
  BY <1>1, PushedParts
<1>3. p.d \in Nat
  BY PointParts
<1>4. QED
  BY <1>1, <1>2, <1>3 DEF r

(* The two words at the top replaced by one. *)
LEMMA ReplacedTwo ==
  ASSUME NEW p \in Points, p.d >= 2, NEW t \in Kinds
  PROVE  LET a == Pushed(Popped(Popped(p)), t) IN
           /\ a \in Points /\ a.d = p.d - 1 /\ a.c = p.c /\ a.eax = p.eax
           /\ \A i \in Places : a.slot[i] = IF i = p.d - 1 THEN t
                                            ELSE IF i = p.d THEN "ANY" ELSE p.slot[i]
<1>. DEFINE r == Popped(p)
<1>1. p.d \in Nat
  BY PointParts
<1>2. /\ r \in Points /\ r.d = p.d - 1 /\ r.c = p.c /\ r.eax = p.eax
      /\ \A i \in Places : r.slot[i] = IF i = p.d THEN "ANY" ELSE p.slot[i]
  BY <1>1, PoppedParts
<1>. HIDE DEF r
<1>3. LET a == Pushed(Popped(r), t) IN
        /\ a \in Points /\ a.d = r.d /\ a.c = r.c /\ a.eax = r.eax
        /\ \A i \in Places : a.slot[i] = IF i = r.d THEN t ELSE r.slot[i]
  BY <1>1, <1>2, ReplacedOne
<1>. DEFINE a == Pushed(Popped(r), t)
<1>. HIDE DEF a
<1>4. /\ a \in Points /\ a.d = p.d - 1 /\ a.c = p.c /\ a.eax = p.eax
      /\ \A i \in Places : a.slot[i] = IF i = p.d - 1 THEN t
                                       ELSE IF i = p.d THEN "ANY" ELSE p.slot[i]
  BY <1>2, <1>3 DEF a
<1>5. QED
  BY <1>4 DEF a, r

(* zero_cmp takes the value it compares from the stack. *)
LEMMA ZeroCmpTakes ==
  ASSUME NEW L, NEW S, NEW B, NEW p \in Points, NEW t \in {"INT", "FLOAT"},
         p.d >= 1, p.slot[p.d] = t
  PROVE  Takes(ZeroCmp(t), L, S, B, p, Moved(p, p.d - 1))
<1>. DEFINE q == Moved(p, p.d - 1)
<1>1. q \in Points /\ Weakens(q, q) /\ Weakens(p, p)
  BY PointParts, MovedParts, WeakensItself
<1>2. CASE t = "INT"
  <2>1. Runs(Inst1("POP", ECX), L, S, B, p, q)
    BY <1>1, <1>2, RunsPop
  <2>2. Runs(Inst2("TEST", ECX, ECX), L, S, B, q, q)
    BY <1>1, RunsQuiet DEF FlagOps
  <2>3. Inst1("POP", ECX) \in Instructions /\ Inst2("TEST", ECX, ECX) \in Instructions
    BY WrittenType, RegisterType DEF InstTypes
  <2>4. Takes(<<Inst1("POP", ECX), Inst2("TEST", ECX, ECX)>>, L, S, B, p, q)
    BY <1>1, <2>1, <2>2, <2>3, TakesTwo
  <2>5. QED
    BY <1>2, <2>4 DEF ZeroCmp, ZeroCmpInt
<1>3. CASE t = "FLOAT"
  <2>1. Runs(Inst2("PXOR", XMM0, XMM0), L, S, B, p, p)
    BY <1>1, RunsQuiet DEF ScalarOps
  <2>2. Runs(Inst2("ADD", ESP, Imm(4)), L, S, B, p, q)
    BY <1>1, RunsAdjust
  <2>3. Runs(Inst2("UCOMISS", XMM0, Deref("ESP", -4)), L, S, B, q, q)
    BY <1>1, RunsQuiet DEF FlagOps
  <2>4. /\ Inst2("PXOR", XMM0, XMM0) \in Instructions
        /\ Inst2("ADD", ESP, Imm(4)) \in Instructions
        /\ Inst2("UCOMISS", XMM0, Deref("ESP", -4)) \in Instructions
    BY WrittenType, OperandType, RegisterType DEF InstTypes, Registers
  <2>5. Takes(<<Inst2("PXOR", XMM0, XMM0), Inst2("ADD", ESP, Imm(4)),
                Inst2("UCOMISS", XMM0, Deref("ESP", -4))>>, L, S, B, p, q)
    BY <1>1, <2>1, <2>2, <2>3, <2>4, TakesThree
  <2>6. QED
    BY <1>3, <2>5 DEF ZeroCmp, ZeroCmpFloat
<1>4. QED
  BY <1>2, <1>3

(* And so does the test before a jump. *)
LEMMA TestJumpTakes ==
  ASSUME NEW L, NEW S, NEW B, NEW p \in Points, NEW q \in Points, NEW t \in {"INT", "FLOAT"},
         p.d >= 1, p.slot[p.d] = t, NEW jump \in JumpOps, NEW l \in Nat,
         Weakens(Moved(p, p.d - 1), L[l]), Weakens(Moved(p, p.d - 1), q)
  PROVE  Takes(TestJump(t, jump, l), L, S, B, p, q)
<1>. DEFINE m == Moved(p, p.d - 1)
<1>1. m \in Points
  BY PointParts, MovedParts
<1>2. Takes(ZeroCmp(t), L, S, B, p, m)
  BY ZeroCmpTakes
<1>3. Runs(Inst1(jump, SubLabel(l)), L, S, B, m, q)
  BY RunsControl
<1>4. Inst1(jump, SubLabel(l)) \in Instructions
  BY WrittenType, OperandType DEF InstTypes, JumpOps
<1>. HIDE DEF m
<1>5. Takes(<<Inst1(jump, SubLabel(l))>>, L, S, B, m, q)
  BY <1>1, <1>3, <1>4, TakesOne
<1>6. QED
  BY <1>2, <1>5, TakesBoth DEF TestJump

(* Three elements and three more. *)
LEMMA SixElements ==
  ASSUME NEW a, NEW b, NEW c, NEW d, NEW e, NEW f
  PROVE  <<a, b, c>> \o <<d, e, f>> = <<a, b, c, d, e, f>>
<1>. DEFINE S == {a, b, c, d, e, f}
            s == <<a, b, c>>
            t == <<d, e, f>>
            u == <<a, b, c, d, e, f>>
<1>1. s \in Seq(S) /\ Len(s) = 3 /\ s[1] = a /\ s[2] = b /\ s[3] = c
  OBVIOUS
<1>2. t \in Seq(S) /\ Len(t) = 3 /\ t[1] = d /\ t[2] = e /\ t[3] = f
  OBVIOUS
<1>3. /\ u \in Seq(S) /\ Len(u) = 6 /\ u[1] = a /\ u[2] = b /\ u[3] = c
      /\ u[4] = d /\ u[5] = e /\ u[6] = f
  OBVIOUS
<1>. HIDE DEF S, s, t, u
<1>4. /\ s \o t \in Seq(S) /\ Len(s \o t) = 6
      /\ \A i \in 1 .. 3 : (s \o t)[i] = s[i]
      /\ \A i \in 4 .. 6 : (s \o t)[i] = t[i - 3]
  <2>1. /\ s \o t \in Seq(S) /\ Len(s \o t) = Len(s) + Len(t)
        /\ \A i \in 1 .. Len(s) + Len(t) : (s \o t)[i] = IF i <= Len(s) THEN s[i] ELSE t[i - Len(s)]
    BY <1>1, <1>2, ConcatProperties
  <2>2. QED
    BY <1>1, <1>2, <2>1
<1>5. \A i \in 1 .. 6 : (s \o t)[i] = u[i]
  <2>1. (s \o t)[1] = u[1] /\ (s \o t)[2] = u[2] /\ (s \o t)[3] = u[3]
    BY <1>1, <1>3, <1>4
  <2>2. (s \o t)[4] = u[4] /\ (s \o t)[5] = u[5] /\ (s \o t)[6] = u[6]
    BY <1>2, <1>3, <1>4
  <2>3. \A i \in 1 .. 6 : i = 1 \/ i = 2 \/ i = 3 \/ i = 4 \/ i = 5 \/ i = 6
    OBVIOUS
  <2>4. QED
    BY <2>1, <2>2, <2>3
<1>6. s \o t = u
  BY <1>3, <1>4, <1>5, SeqEqual
<1>7. QED
  BY <1>6 DEF s, t, u

(* One element and six more. *)
LEMMA SevenElements ==
  ASSUME NEW a, NEW b, NEW c, NEW d, NEW e, NEW f, NEW g
  PROVE  <<a>> \o <<b, c, d, e, f, g>> = <<a, b, c, d, e, f, g>>
<1>. DEFINE S == {a, b, c, d, e, f, g}
            s == <<a>>
            t == <<b, c, d, e, f, g>>
            u == <<a, b, c, d, e, f, g>>
<1>1. s \in Seq(S) /\ Len(s) = 1 /\ s[1] = a
  OBVIOUS
<1>2. /\ t \in Seq(S) /\ Len(t) = 6 /\ t[1] = b /\ t[2] = c /\ t[3] = d
      /\ t[4] = e /\ t[5] = f /\ t[6] = g
  OBVIOUS
<1>3. /\ u \in Seq(S) /\ Len(u) = 7 /\ u[1] = a /\ u[2] = b /\ u[3] = c
      /\ u[4] = d /\ u[5] = e /\ u[6] = f /\ u[7] = g
  OBVIOUS
<1>. HIDE DEF S, s, t, u
<1>4. /\ s \o t \in Seq(S) /\ Len(s \o t) = 7
      /\ (s \o t)[1] = s[1]
      /\ \A i \in 2 .. 7 : (s \o t)[i] = t[i - 1]
  <2>1. /\ s \o t \in Seq(S) /\ Len(s \o t) = Len(s) + Len(t)
        /\ \A i \in 1 .. Len(s) + Len(t) : (s \o t)[i] = IF i <= Len(s) THEN s[i] ELSE t[i - Len(s)]
    BY <1>1, <1>2, ConcatProperties
  <2>2. QED
    BY <1>1, <1>2, <2>1
<1>5. \A i \in 1 .. 7 : (s \o t)[i] = u[i]
  <2>1. (s \o t)[1] = u[1] /\ (s \o t)[2] = u[2] /\ (s \o t)[3] = u[3] /\ (s \o t)[4] = u[4]
    BY <1>1, <1>2, <1>3, <1>4
  <2>2. (s \o t)[5] = u[5] /\ (s \o t)[6] = u[6] /\ (s \o t)[7] = u[7]
    BY <1>2, <1>3, <1>4
  <2>3. \A i \in 1 .. 7 : i = 1 \/ i = 2 \/ i = 3 \/ i = 4 \/ i = 5 \/ i = 6 \/ i = 7
    OBVIOUS
  <2>4. QED
    BY <2>1, <2>2, <2>3
<1>6. s \o t = u
  BY <1>3, <1>4, <1>5, SeqEqual
<1>7. QED
  BY <1>6 DEF s, t, u

(* The points at the ends of && and ||: r is where the operand has been     *)
(* taken from the stack, s where the result is in EAX, q where it has been *)
(* pushed.                                                                 *)
LEMMA LogicPoints ==
  ASSUME NEW L, NEW S, NEW B, NEW p \in Points, NEW q \in Points,
         p.d >= 1, p.eax = "ANY", q.eax = "ANY", Weakens(Pushed(Popped(p), "INT"), q)
  PROVE  LET r == Popped(p)
             s == InEAX(r, "INT")
         IN  /\ r \in Points /\ s \in Points
             /\ Weakens(r, r) /\ Weakens(s, s) /\ Weakens(s, r)
             /\ Weakens(Moved(p, p.d - 1), r)
             /\ \A n \in Int : Runs(Inst2("MOV", EAX, Imm(n)), L, S, B, r, s)
             /\ Runs(Inst1("PUSH", EAX), L, S, B, s, q)
<1>. DEFINE r == Popped(p)
            s == InEAX(r, "INT")
<1>1. /\ r \in Points /\ r.d = p.d - 1 /\ r.c = p.c /\ r.eax = p.eax
      /\ \A i \in Places : r.slot[i] = IF i = p.d THEN "ANY" ELSE p.slot[i]
  BY PoppedParts
<1>2. /\ Moved(p, p.d - 1) \in Points
      /\ Moved(p, p.d - 1).d = p.d - 1 /\ Moved(p, p.d - 1).c = p.c
      /\ Moved(p, p.d - 1).eax = p.eax /\ Moved(p, p.d - 1).slot = p.slot
  <2>1. p.d - 1 \in Nat
    BY PointParts
  <2>2. QED
    BY <2>1, MovedParts
<1>. HIDE DEF r
<1>3. Weakens(Moved(p, p.d - 1), r)
  BY <1>1, <1>2 DEF Weakens
<1>4. /\ s \in Points /\ s.d = r.d /\ s.c = r.c /\ s.eax = "INT" /\ s.slot = r.slot
  BY <1>1, EAXParts, KindType
<1>5. Weakens(r, r) /\ Weakens(s, s) /\ Weakens(s, r)
  BY <1>1, <1>4, WeakensItself, PointParts DEF Weakens
<1>6. \A n \in Int : Runs(Inst2("MOV", EAX, Imm(n)), L, S, B, r, s)
  <2>1. ASSUME NEW n \in Int
        PROVE  Moves(Inst2("MOV", EAX, Imm(n)), S, B, r, s)
    <3>1. KindOf(r, S, Imm(n)) = "INT" /\ Readable(r, B, Imm(n))
      BY OperandParts DEF KindOf, Readable
    <3>2. QED
      BY <1>5, <3>1, InstParts DEF Moves
  <2>2. QED
    BY <2>1, RunsMove
<1>7. Runs(Inst1("PUSH", EAX), L, S, B, s, q)
  <2>1. KindOf(s, S, EAX) = "INT" /\ Readable(s, B, EAX)
    BY <1>4, RegisterParts DEF KindOf, Readable
  <2>2. LET a == Pushed(r, "INT") IN
          /\ a \in Points /\ a.d = p.d /\ a.c = p.c
          /\ \A i \in Places : a.slot[i] = IF i = p.d THEN "INT" ELSE p.slot[i]
    BY ReplacedOne, KindType DEF r
  <2>3. /\ Pushed(s, "INT") \in Points /\ Pushed(s, "INT").d = s.d + 1 /\ Pushed(s, "INT").c = s.c
        /\ \A i \in Places : Pushed(s, "INT").slot[i] = IF i = s.d + 1 THEN "INT" ELSE s.slot[i]
    BY <1>4, PushedParts, KindType
  <2>. DEFINE a == Pushed(r, "INT")
              b == Pushed(s, "INT")
  <2>4. Weakens(a, q)
    BY DEF r
  <2>. HIDE DEF a, b, s
  <2>5. a.d = b.d /\ a.c = b.c /\ \A j \in Places : a.slot[j] = b.slot[j]
    BY <1>1, <1>4, <2>2, <2>3, PointParts DEF a, b
  <2>6. Weakens(b, q)
    BY <2>2, <2>3, <2>4, <2>5, WeakensLike DEF a, b
  <2>7. QED
    BY <2>1, <2>6, RunsPush DEF b
<1>8. QED
  BY <1>1, <1>3, <1>4, <1>5, <1>6, <1>7 DEF r

(* The instructions at the ends of && and ||. *)
LEMMA LogicType ==
  ASSUME NEW l \in Nat
  PROVE  /\ Inst2("MOV", EAX, Imm(1)) \in Instructions /\ Inst2("MOV", EAX, Imm(0)) \in Instructions
         /\ Inst1("JMP", SubLabel(l)) \in Instructions
         /\ Define(l) \in Instructions
         /\ Inst1("PUSH", EAX) \in Instructions
  BY WrittenType, OperandType, RegisterType DEF InstTypes, JumpOps, Define

(* The end of a && : whichever way the code gets there, one word has        *)
(* replaced another.                                                       *)
LEMMA AndEndTakes ==
  ASSUME NEW L, NEW S, NEW B, NEW p \in Points, NEW q \in Points, NEW t \in {"INT", "FLOAT"},
         p.d >= 1, p.slot[p.d] = t, p.eax = "ANY", NEW l \in Nat, q.eax = "ANY",
         Weakens(Pushed(Popped(p), "INT"), q),
         L[l] = Popped(p), L[l + 1] = InEAX(Popped(p), "INT")
  PROVE  Takes(AndEnd(t, l), L, S, B, p, q)
<1>. DEFINE r == Popped(p)
            s == InEAX(r, "INT")
<1>1. /\ r \in Points /\ s \in Points
      /\ Weakens(r, r) /\ Weakens(s, s) /\ Weakens(s, r)
      /\ Weakens(Moved(p, p.d - 1), r)
      /\ \A n \in Int : Runs(Inst2("MOV", EAX, Imm(n)), L, S, B, r, s)
      /\ Runs(Inst1("PUSH", EAX), L, S, B, s, q)
  BY LogicPoints
<1>2. L[l] = r /\ L[l + 1] = s /\ l + 1 \in Nat
  OBVIOUS
<1>. HIDE DEF r, s
<1>3. Takes(TestJump(t, "JE", l), L, S, B, p, r)
  BY <1>1, <1>2, TestJumpTakes DEF JumpOps
<1>4. Runs(Inst1("JMP", SubLabel(l + 1)), L, S, B, s, r)
  BY <1>1, <1>2, RunsControl DEF JumpOps
<1>5. Runs(Define(l), L, S, B, r, r) /\ Runs(Define(l + 1), L, S, B, s, s)
  BY <1>1, <1>2, RunsControl
<1>6. /\ Inst2("MOV", EAX, Imm(1)) \in Instructions /\ Inst2("MOV", EAX, Imm(0)) \in Instructions
      /\ Inst1("JMP", SubLabel(l + 1)) \in Instructions
      /\ Define(l) \in Instructions /\ Define(l + 1) \in Instructions
      /\ Inst1("PUSH", EAX) \in Instructions
  BY <1>2, LogicType
<1>7. Takes(<<Inst2("MOV", EAX, Imm(1)), Inst1("JMP", SubLabel(l + 1)), Define(l)>>, L, S, B, r, r)
  BY <1>1, <1>4, <1>5, <1>6, TakesThree
<1>8. Takes(<<Inst2("MOV", EAX, Imm(0)), Define(l + 1), Inst1("PUSH", EAX)>>, L, S, B, r, q)
  BY <1>1, <1>5, <1>6, TakesThree
<1>9. Takes(<<Inst2("MOV", EAX, Imm(1)), Inst1("JMP", SubLabel(l + 1)), Define(l)>>
              \o <<Inst2("MOV", EAX, Imm(0)), Define(l + 1), Inst1("PUSH", EAX)>>, L, S, B, r, q)
  BY <1>7, <1>8, TakesBoth
<1>10. <<Inst2("MOV", EAX, Imm(1)), Inst1("JMP", SubLabel(l + 1)), Define(l)>>
         \o <<Inst2("MOV", EAX, Imm(0)), Define(l + 1), Inst1("PUSH", EAX)>>
       = <<Inst2("MOV", EAX, Imm(1)), Inst1("JMP", SubLabel(l + 1)), Define(l),
           Inst2("MOV", EAX, Imm(0)), Define(l + 1), Inst1("PUSH", EAX)>>
  BY SixElements
<1>11. QED
  BY <1>3, <1>9, <1>10, TakesBoth DEF AndEnd

(* The end of a ||. *)
LEMMA OrEndTakes ==
  ASSUME NEW L, NEW S, NEW B, NEW p \in Points, NEW q \in Points, NEW t \in {"INT", "FLOAT"},
         p.d >= 1, p.slot[p.d] = t, p.eax = "ANY", NEW l \in Nat, q.eax = "ANY",
         Weakens(Pushed(Popped(p), "INT"), q),
         L[l] = Popped(p), L[l + 1] = Popped(p), L[l + 2] = InEAX(Popped(p), "INT")
  PROVE  Takes(OrEnd(t, l), L, S, B, p, q)
<1>. DEFINE r == Popped(p)
            s == InEAX(r, "INT")
<1>1. /\ r \in Points /\ s \in Points
      /\ Weakens(r, r) /\ Weakens(s, s) /\ Weakens(s, r)
      /\ Weakens(Moved(p, p.d - 1), r)
      /\ \A n \in Int : Runs(Inst2("MOV", EAX, Imm(n)), L, S, B, r, s)
      /\ Runs(Inst1("PUSH", EAX), L, S, B, s, q)
  BY LogicPoints
<1>2. L[l] = r /\ L[l + 1] = r /\ L[l + 2] = s /\ l + 1 \in Nat /\ l + 2 \in Nat
  OBVIOUS
<1>. HIDE DEF r, s
<1>3. Takes(TestJump(t, "JE", l + 1), L, S, B, p, r)
  BY <1>1, <1>2, TestJumpTakes DEF JumpOps
<1>4. Runs(Inst1("JMP", SubLabel(l + 2)), L, S, B, s, r)
  BY <1>1, <1>2, RunsControl DEF JumpOps
<1>5. /\ Runs(Define(l), L, S, B, r, r) /\ Runs(Define(l + 1), L, S, B, r, r)
      /\ Runs(Define(l + 2), L, S, B, s, s)
  BY <1>1, <1>2, RunsControl
<1>6. /\ Inst2("MOV", EAX, Imm(1)) \in Instructions /\ Inst2("MOV", EAX, Imm(0)) \in Instructions
      /\ Inst1("JMP", SubLabel(l + 2)) \in Instructions
      /\ Define(l) \in Instructions /\ Define(l + 1) \in Instructions
      /\ Define(l + 2) \in Instructions
      /\ Inst1("PUSH", EAX) \in Instructions
  BY <1>2, LogicType
<1>. DEFINE a == <<Define(l)>>
            b == <<Inst2("MOV", EAX, Imm(1)), Inst1("JMP", SubLabel(l + 2)), Define(l + 1)>>
            c == <<Inst2("MOV", EAX, Imm(0)), Define(l + 2), Inst1("PUSH", EAX)>>
<1>7. Takes(a, L, S, B, r, r)
  BY <1>1, <1>5, <1>6, TakesOne
<1>8. Takes(b, L, S, B, r, r)
  BY <1>1, <1>4, <1>5, <1>6, TakesThree
<1>9. Takes(c, L, S, B, r, q)
  BY <1>1, <1>5, <1>6, TakesThree
<1>10. Takes(a \o (b \o c), L, S, B, r, q)
  <2>. HIDE DEF a, b, c
  <2>1. Takes(b \o c, L, S, B, r, q)
    BY <1>8, <1>9, TakesBoth
  <2>2. QED
    BY <1>7, <2>1, TakesBoth
<1>11. a \o (b \o c)
       = <<Define(l), Inst2("MOV", EAX, Imm(1)), Inst1("JMP", SubLabel(l + 2)), Define(l + 1),
           Inst2("MOV", EAX, Imm(0)), Define(l + 2), Inst1("PUSH", EAX)>>
  <2>1. <<Inst2("MOV", EAX, Imm(1)), Inst1("JMP", SubLabel(l + 2)), Define(l + 1)>>
          \o <<Inst2("MOV", EAX, Imm(0)), Define(l + 2), Inst1("PUSH", EAX)>>
        = <<Inst2("MOV", EAX, Imm(1)), Inst1("JMP", SubLabel(l + 2)), Define(l + 1),
            Inst2("MOV", EAX, Imm(0)), Define(l + 2), Inst1("PUSH", EAX)>>
    BY SixElements
  <2>2. <<Define(l)>> \o <<Inst2("MOV", EAX, Imm(1)), Inst1("JMP", SubLabel(l + 2)), Define(l + 1),
                           Inst2("MOV", EAX, Imm(0)), Define(l + 2), Inst1("PUSH", EAX)>>
        = <<Define(l), Inst2("MOV", EAX, Imm(1)), Inst1("JMP", SubLabel(l + 2)), Define(l + 1),
            Inst2("MOV", EAX, Imm(0)), Define(l + 2), Inst1("PUSH", EAX)>>
    BY SevenElements
  <2>3. QED
    BY <2>1, <2>2
<1>. HIDE DEF a, b, c
<1>12. Takes(TestJump(t, "JE", l + 1) \o (a \o (b \o c)), L, S, B, p, q)
  BY <1>3, <1>10, TakesBoth
<1>13. QED
  BY <1>11, <1>12 DEF OrEnd

(* A result pushed where one operand was. *)
LEMMA ResultOfOne ==
  ASSUME NEW p \in Points, p.d >= 1, NEW t \in Kinds, NEW q \in Points, q.eax = "ANY",
         Weakens(Pushed(Popped(p), t), q),
         NEW s \in Points, s.d = p.d - 1, s.c = p.c,
         \A j \in Places : j # p.d => s.slot[j] = p.slot[j]
  PROVE  Weakens(Pushed(s, t), q)
<1>. DEFINE a == Pushed(Popped(p), t)
            b == Pushed(s, t)
<1>1. /\ a \in Points /\ a.d = p.d /\ a.c = p.c
      /\ \A i \in Places : a.slot[i] = IF i = p.d THEN t ELSE p.slot[i]
  BY ReplacedOne
<1>2. /\ b \in Points /\ b.d = s.d + 1 /\ b.c = s.c
      /\ \A i \in Places : b.slot[i] = IF i = s.d + 1 THEN t ELSE s.slot[i]
  BY PushedParts
<1>3. Weakens(a, q)
  OBVIOUS
<1>. HIDE DEF a, b
<1>4. a.d = b.d /\ a.c = b.c /\ \A j \in Places : a.slot[j] = b.slot[j]
  BY <1>1, <1>2, PointParts
<1>5. Weakens(b, q)
  BY <1>1, <1>2, <1>3, <1>4, WeakensLike
<1>6. QED
  BY <1>5 DEF b

(* A result pushed where two operands were. *)
LEMMA ResultOfTwo ==
  ASSUME NEW p \in Points, p.d >= 2, NEW t \in Kinds, NEW q \in Points, q.eax = "ANY",
         Weakens(Pushed(Popped(Popped(p)), t), q),
         NEW s \in Points, s.d = p.d - 2, s.c = p.c,
         \A j \in Places : j # p.d /\ j # p.d - 1 => s.slot[j] = p.slot[j]
  PROVE  Weakens(Pushed(s, t), q)
<1>. DEFINE a == Pushed(Popped(Popped(p)), t)
            b == Pushed(s, t)
<1>1. /\ a \in Points /\ a.d = p.d - 1 /\ a.c = p.c
      /\ \A i \in Places : a.slot[i] = IF i = p.d - 1 THEN t
                                       ELSE IF i = p.d THEN "ANY" ELSE p.slot[i]
  BY ReplacedTwo
<1>2. /\ b \in Points /\ b.d = s.d + 1 /\ b.c = s.c
      /\ \A i \in Places : b.slot[i] = IF i = s.d + 1 THEN t ELSE s.slot[i]
  BY PushedParts
<1>3. Weakens(a, q)
  OBVIOUS
<1>. HIDE DEF a, b
<1>4. a.d = b.d /\ a.c = b.c /\ \A j \in Places : a.slot[j] \in {"ANY", b.slot[j]}
  <2>1. p.d \in Nat
    BY PointParts
  <2>2. QED
    BY <1>1, <1>2, <2>1
<1>5. Weakens(b, q)
  BY <1>1, <1>2, <1>3, <1>4, WeakensLike
<1>6. QED
  BY <1>5 DEF b

(* The parts of a point where EAX holds an integer. *)
LEMMA InEAXParts ==
  ASSUME NEW p \in Points, NEW d \in Nat
  PROVE  LET s == InEAX(Moved(p, d), "INT") IN
           /\ s \in Points /\ s.d = d /\ s.c = p.c /\ s.eax = "INT" /\ s.slot = p.slot
           /\ Weakens(InEAX(s, "INT"), s)
<1>. DEFINE m == Moved(p, d)
            s == InEAX(m, "INT")
<1>1. m \in Points /\ m.d = d /\ m.c = p.c /\ m.slot = p.slot
  BY MovedParts
<1>. HIDE DEF m
<1>2. s \in Points /\ s.d = d /\ s.c = p.c /\ s.eax = "INT" /\ s.slot = p.slot
  BY <1>1, EAXParts, KindType
<1>. HIDE DEF s
<1>3. /\ InEAX(s, "INT").d = s.d /\ InEAX(s, "INT").c = s.c
      /\ InEAX(s, "INT").eax = "INT" /\ InEAX(s, "INT").slot = s.slot
  BY <1>2, EAXParts, KindType
<1>4. Weakens(InEAX(s, "INT"), s)
  BY <1>2, <1>3 DEF Weakens
<1>5. QED
  BY <1>2, <1>4 DEF s, m

(* PUSH of EAX or ECX with an integer in it. *)
LEMMA RunsPushInt ==
  ASSUME NEW L, NEW S, NEW B, NEW s, NEW q, Weakens(Pushed(s, "INT"), q)
  PROVE  /\ s.eax = "INT" => Runs(Inst1("PUSH", EAX), L, S, B, s, q)
         /\ Runs(Inst1("PUSH", ECX), L, S, B, s, q)
<1>1. /\ s.eax = "INT" => KindOf(s, S, EAX) = "INT"
      /\ KindOf(s, S, ECX) = "INT"
  BY RegisterParts DEF KindOf
<1>2. Readable(s, B, EAX) /\ Readable(s, B, ECX)
  BY DEF Readable
<1>3. QED
  BY <1>1, <1>2, RunsPush

(* eval_INT_INT_binop *)
LEMMA IntArithTakes ==
  ASSUME NEW L, NEW S, NEW B, NEW p \in Points, NEW q \in Points, NEW op \in ArithOps,
         p.d >= 2, p.slot[p.d] = "INT", p.slot[p.d - 1] = "INT", q.eax = "ANY",
         Weakens(Pushed(Popped(Popped(p)), "INT"), q)
  PROVE  Takes(ArithEnd(op, "INT", "INT"), L, S, B, p, q)
<1>. DEFINE m == Moved(p, p.d - 1)
            s == InEAX(Moved(m, p.d - 2), "INT")
<1>1. p.d \in Nat /\ p.d - 1 \in Nat /\ p.d - 2 \in Nat /\ (p.d - 1) - 1 = p.d - 2
  BY PointParts
<1>2. m \in Points /\ m.d = p.d - 1 /\ m.c = p.c /\ m.slot = p.slot
  BY <1>1, MovedParts
<1>3. Weakens(m, m)
  BY <1>2, WeakensItself
<1>. HIDE DEF m
<1>4. /\ s \in Points /\ s.d = p.d - 2 /\ s.c = p.c /\ s.eax = "INT" /\ s.slot = p.slot
      /\ Weakens(InEAX(s, "INT"), s)
  BY <1>1, <1>2, InEAXParts
<1>5. Weakens(s, s)
  BY <1>4, WeakensItself
<1>6. Runs(Inst1("POP", ECX), L, S, B, p, m)
  BY <1>1, <1>3, RunsPop DEF m
<1>7. Runs(Inst1("POP", EAX), L, S, B, m, s)
  <2>1. m.d >= 1 /\ InEAX(Moved(m, m.d - 1), m.slot[m.d]) = s
    BY <1>1, <1>2
  <2>2. QED
    BY <1>5, <2>1, RunsPop
<1>. HIDE DEF s
<1>8. Runs(Inst1("PUSH", EAX), L, S, B, s, q)
  BY <1>1, <1>4, ResultOfTwo, RunsPushInt, KindType
<1>9. /\ Inst1("POP", ECX) \in Instructions /\ Inst1("POP", EAX) \in Instructions
      /\ Inst1("PUSH", EAX) \in Instructions
      /\ Inst2("ADD", EAX, ECX) \in Instructions /\ Inst2("SUB", EAX, ECX) \in Instructions
      /\ Inst1("MUL", ECX) \in Instructions /\ Inst1("DIV", ECX) \in Instructions
      /\ Inst2("MOV", EDX, Imm(0)) \in Instructions
  <2>1. Imm(0) \in InstOperands
    BY OperandType
  <2>2. {"POP", "PUSH", "ADD", "SUB", "MUL", "DIV", "MOV"} \subseteq InstTypes
    BY DEF InstTypes
  <2>3. QED
    BY <2>1, <2>2, WrittenType, RegisterType
<1>10. Takes(IntIntBinop(op), L, S, B, s, s)
  <2>1. CASE op \in {"ADD", "SUB"}
    <3>1. Runs(Inst2(op, EAX, ECX), L, S, B, s, s) /\ Inst2(op, EAX, ECX) \in Instructions
      BY <1>4, <1>9, <2>1, RunsArith
    <3>2. Takes(<<Inst2(op, EAX, ECX)>>, L, S, B, s, s)
      BY <1>4, <3>1, TakesOne
    <3>3. QED
      BY <2>1, <3>2 DEF IntIntBinop
  <2>2. CASE op = "MUL"
    <3>1. Takes(<<Inst1("MUL", ECX)>>, L, S, B, s, s)
      BY <1>4, <1>9, RunsArith, TakesOne
    <3>2. QED
      BY <2>2, <3>1 DEF IntIntBinop
  <2>3. CASE op = "DIV"
    <3>1. Runs(Inst2("MOV", EDX, Imm(0)), L, S, B, s, s)
      <4>1. Readable(s, B, Imm(0))
        BY OperandParts DEF Readable
      <4>2. Moves(Inst2("MOV", EDX, Imm(0)), S, B, s, s)
        BY <1>5, <4>1, InstParts DEF Moves
      <4>3. QED
        BY <4>2, RunsMove
    <3>2. Runs(Inst1("DIV", ECX), L, S, B, s, s)
      BY <1>4, RunsArith
    <3>3. Takes(<<Inst2("MOV", EDX, Imm(0)), Inst1("DIV", ECX)>>, L, S, B, s, s)
      BY <1>4, <1>9, <3>1, <3>2, TakesTwo
    <3>4. QED
      BY <2>3, <3>3 DEF IntIntBinop
  <2>4. QED
    BY <2>1, <2>2, <2>3 DEF ArithOps
<1>11. Takes(<<Inst1("POP", ECX), Inst1("POP", EAX)>>, L, S, B, p, s)
  BY <1>2, <1>4, <1>6, <1>7, <1>9, TakesTwo
<1>12. Takes(<<Inst1("PUSH", EAX)>>, L, S, B, s, q)
  BY <1>4, <1>8, <1>9, TakesOne
<1>13. Takes((<<Inst1("POP", ECX), Inst1("POP", EAX)>> \o IntIntBinop(op)) \o <<Inst1("PUSH", EAX)>>,
             L, S, B, p, q)
  BY <1>10, <1>11, <1>12, TakesBoth
<1>14. QED
  BY <1>13 DEF ArithEnd

(* An operand goes to an XMM register as a float. *)
LEMMA LoadFloatRuns ==
  ASSUME NEW L, NEW S, NEW B, NEW p \in Points, NEW t \in {"INT", "FLOAT"},
         NEW xmm \in {XMM0, XMM1},
         NEW n \in {0, 4}, OnStack(p, Deref("ESP", n)), p.slot[Place(p, n)] = t
  PROVE  /\ Runs(LoadFloat(t, xmm, n), L, S, B, p, p)
         /\ LoadFloat(t, xmm, n) \in Instructions
<1>1. KindOf(p, S, Deref("ESP", n)) = t /\ Readable(p, B, Deref("ESP", n))
  BY OperandParts DEF KindOf, Readable
<1>2. Weakens(p, p)
  BY WeakensItself
<1>3. CASE t = "INT"
  <2>1. Moves(Inst2("CVTSI2SS", xmm, Deref("ESP", n)), S, B, p, p)
    BY <1>1, <1>2, InstParts DEF Moves
  <2>2. Runs(Inst2("CVTSI2SS", xmm, Deref("ESP", n)), L, S, B, p, p)
    BY <2>1, RunsMove
  <2>3. Inst2("CVTSI2SS", xmm, Deref("ESP", n)) \in Instructions
    BY WrittenType, OperandType, RegisterType DEF InstTypes, Registers
  <2>4. QED
    BY <1>3, <2>2, <2>3 DEF LoadFloat
<1>4. CASE t = "FLOAT"
  <2>1. Moves(Inst2("MOVSS", xmm, Deref("ESP", n)), S, B, p, p)
    BY <1>1, <1>2, <1>4, InstParts DEF Moves
  <2>2. Runs(Inst2("MOVSS", xmm, Deref("ESP", n)), L, S, B, p, p)
    BY <2>1, RunsMove
  <2>3. Inst2("MOVSS", xmm, Deref("ESP", n)) \in Instructions
    BY WrittenType, OperandType, RegisterType DEF InstTypes, Registers
  <2>4. QED
    BY <1>4, <2>2, <2>3 DEF LoadFloat
<1>5. QED
  BY <1>3, <1>4

(* A float goes from XMM0 to the stack. *)
LEMMA StoreFloatRuns ==
  ASSUME NEW L, NEW S, NEW B, NEW p \in Points, NEW n \in {-4, 0, 4},
         n = -4 \/ OnStack(p, Deref("ESP", n))
  PROVE  LET s == Holding(p, Place(p, n), "FLOAT") IN
           /\ s \in Points /\ Weakens(s, s) /\ Place(p, n) \in Places
           /\ Runs(Inst2("MOVSS", Deref("ESP", n), XMM0), L, S, B, p, s)
           /\ Inst2("MOVSS", Deref("ESP", n), XMM0) \in Instructions
<1>. DEFINE s == Holding(p, Place(p, n), "FLOAT")
<1>1. Place(p, n) \in Places
  BY PointParts, OperandParts DEF Place, Places, OnStack
<1>2. s \in Points
  BY <1>1, HoldingParts, KindType
<1>3. Weakens(s, s)
  BY <1>2, WeakensItself
<1>4. KindOf(p, S, XMM0) = "FLOAT" /\ Readable(p, B, XMM0)
  BY RegisterParts DEF KindOf, Readable
<1>5. Moves(Inst2("MOVSS", Deref("ESP", n), XMM0), S, B, p, s)
  <2>1. Inst2("MOVSS", Deref("ESP", n), XMM0).a.n = n
    BY InstParts, OperandParts
  <2>2. QED
    BY <1>3, <1>4, <2>1, InstParts DEF Moves
<1>6. Runs(Inst2("MOVSS", Deref("ESP", n), XMM0), L, S, B, p, s)
  BY <1>5, RunsMove
<1>7. Inst2("MOVSS", Deref("ESP", n), XMM0) \in Instructions
  BY WrittenType, OperandType, RegisterType DEF InstTypes, Registers
<1>8. QED
  BY <1>1, <1>2, <1>3, <1>6, <1>7

(* eval_FLOAT_FLOAT_binop, after an INT operand has been converted. *)
LEMMA FloatArithTakes ==
  ASSUME NEW L, NEW S, NEW B, NEW p \in Points, NEW q \in Points, NEW op \in ArithOps,
         NEW t1 \in {"INT", "FLOAT"}, NEW t2 \in {"INT", "FLOAT"}, "FLOAT" \in {t1, t2},
         p.d >= 2, p.slot[p.d] = t2, p.slot[p.d - 1] = t1, q.eax = "ANY",
         Weakens(Pushed(Popped(Popped(p)), "FLOAT"), q)
  PROVE  Takes(ArithEnd(op, t1, t2), L, S, B, p, q)
<1>. DEFINE m == Moved(p, p.d - 2)
            h == Holding(m, Place(m, -4), "FLOAT")
            i1 == LoadFloat(t1, XMM0, 4)
            i2 == LoadFloat(t2, XMM1, 0)
            i3 == Inst2("ADD", ESP, Imm(8))
            i4 == Inst2(ScalarSingle[op], XMM0, XMM1)
            i5 == Inst2("MOVSS", Deref("ESP", -4), XMM0)
            i6 == Inst2("SUB", ESP, Imm(4))
<1>1. p.d \in Nat /\ p.d - 2 \in Nat
  BY PointParts
<1>2. m \in Points /\ m.d = p.d - 2 /\ m.c = p.c /\ m.slot = p.slot
  BY <1>1, MovedParts
<1>3. Weakens(m, m)
  BY <1>2, WeakensItself
<1>4. Runs(i1, L, S, B, p, p) /\ i1 \in Instructions
  <2>1. OnStack(p, Deref("ESP", 4)) /\ p.slot[Place(p, 4)] = t1
    BY <1>1, OperandParts DEF OnStack, Place
  <2>2. QED
    BY <2>1, LoadFloatRuns
<1>5. Runs(i2, L, S, B, p, p) /\ i2 \in Instructions
  <2>1. OnStack(p, Deref("ESP", 0)) /\ p.slot[Place(p, 0)] = t2
    BY <1>1, OperandParts DEF OnStack, Place
  <2>2. QED
    BY <2>1, LoadFloatRuns
<1>6. Runs(i3, L, S, B, p, m)
  BY <1>3, RunsAdjust
<1>. HIDE DEF m
<1>7. ScalarSingle[op] \in ScalarOps \ {"PXOR"} /\ ScalarSingle[op] \in InstTypes
  BY DEF ScalarSingle, ArithOps, ScalarOps, InstTypes
<1>8. Runs(i4, L, S, B, m, m)
  BY <1>3, <1>7, RunsQuiet
<1>9. h \in Points /\ Runs(i5, L, S, B, m, h) /\ i5 \in Instructions
  BY <1>2, StoreFloatRuns
<1>10. Runs(i6, L, S, B, h, q)
  <2>1. Place(m, -4) = m.d + 1 /\ m.d + 1 \in Places
    BY <1>1, <1>2 DEF Place, Places
  <2>2. h.d = m.d
    BY <1>2, <2>1, HoldingParts, KindType
  <2>3. Moved(h, h.d + 1) = Pushed(m, "FLOAT")
    BY <2>1, <2>2 DEF Pushed
  <2>4. Weakens(Pushed(m, "FLOAT"), q)
    BY <1>2, ResultOfTwo, KindType
  <2>. HIDE DEF h
  <2>5. QED
    BY <2>3, <2>4, RunsAdjust
<1>11. i3 \in Instructions /\ i4 \in Instructions /\ i6 \in Instructions
  <2>1. Imm(8) \in InstOperands /\ Imm(4) \in InstOperands
    BY OperandType
  <2>2. {"ADD", "SUB"} \subseteq InstTypes
    BY DEF InstTypes
  <2>3. QED
    BY <1>7, <2>1, <2>2, WrittenType, RegisterType
<1>. HIDE DEF h, i1, i2, i3, i4, i5, i6
<1>12. Takes(<<i1, i2, i3>>, L, S, B, p, m)
  BY <1>2, <1>4, <1>5, <1>6, <1>11, TakesThree
<1>13. Takes(<<i4, i5, i6>>, L, S, B, m, q)
  BY <1>2, <1>8, <1>9, <1>10, <1>11, TakesThree
<1>14. Takes(<<i1, i2, i3>> \o <<i4, i5, i6>>, L, S, B, p, q)
  BY <1>12, <1>13, TakesBoth
<1>15. ~ (t1 = "INT" /\ t2 = "INT") /\ {t1, t2} \subseteq {"INT", "FLOAT"}
  OBVIOUS
<1>16. ArithEnd(op, t1, t2) = <<i1, i2, i3>> \o <<i4, i5, i6>>
  BY <1>15 DEF ArithEnd, FloatFloatBinop, i1, i2, i3, i4, i5, i6
<1>17. QED
  BY <1>14, <1>16

(* The end of eval_arith_binop, for the type the checker gives the result. *)
LEMMA ArithEndTakes ==
  ASSUME NEW L, NEW S, NEW B, NEW p \in Points, NEW q \in Points, NEW op \in ArithOps,
         NEW t1 \in {"INT", "FLOAT"}, NEW t2 \in {"INT", "FLOAT"},
         p.d >= 2, p.slot[p.d] = t2, p.slot[p.d - 1] = t1, q.eax = "ANY",
         Weakens(Pushed(Popped(Popped(p)), ArithType(t1, t2)), q)
  PROVE  Takes(ArithEnd(op, t1, t2), L, S, B, p, q)
<1>1. CASE t1 = "INT" /\ t2 = "INT"
  <2>1. ArithType(t1, t2) = "INT"
    BY <1>1 DEF ArithType
  <2>2. Weakens(Pushed(Popped(Popped(p)), "INT"), q)
    BY <2>1
  <2>3. Takes(ArithEnd(op, "INT", "INT"), L, S, B, p, q)
    BY <1>1, <2>2, IntArithTakes
  <2>4. QED
    BY <1>1, <2>3
<1>2. CASE "FLOAT" \in {t1, t2}
  <2>1. ArithType(t1, t2) = "FLOAT"
    <3>1. "POINTER" \notin {t1, t2}
      OBVIOUS
    <3>2. QED
      BY <1>2, <3>1 DEF ArithType
  <2>2. Weakens(Pushed(Popped(Popped(p)), "FLOAT"), q)
    BY <2>1
  <2>3. QED
    BY <1>2, <2>2, FloatArithTakes
<1>3. QED
  BY <1>1, <1>2

(* Any comparison leaves an integer where its operands were. *)
LEMMA PushFlagTakes ==
  ASSUME NEW L, NEW S, NEW B, NEW p \in Points, NEW q \in Points, p.d >= 2, q.eax = "ANY",
         Weakens(Pushed(Popped(Popped(p)), "INT"), q),
         NEW r \in Points, r.d = p.d, r.c = p.c,
         \A j \in Places : j # p.d /\ j # p.d - 1 => r.slot[j] = p.slot[j]
  PROVE  Takes(PushFlag, L, S, B, r, q)
<1>. DEFINE s == InEAX(r, "INT")
            m == Moved(s, s.d - 2)
<1>1. p.d \in Nat /\ p.d - 2 \in Nat
  BY PointParts
<1>2. s \in Points /\ s.d = p.d /\ s.c = p.c /\ s.eax = "INT" /\ s.slot = r.slot
  BY EAXParts, KindType
<1>3. Weakens(s, s)
  BY <1>2, WeakensItself
<1>4. Runs(Inst2("MOVZX", EAX, AL), L, S, B, r, s)
  <2>1. KindOf(r, S, AL) = "INT" /\ Readable(r, B, AL)
    BY RegisterParts DEF KindOf, Readable
  <2>2. Moves(Inst2("MOVZX", EAX, AL), S, B, r, s)
    BY <1>3, <2>1, InstParts DEF Moves
  <2>3. QED
    BY <2>2, RunsMove
<1>. HIDE DEF s
<1>5. m \in Points /\ m.d = p.d - 2 /\ m.c = p.c /\ m.eax = "INT" /\ m.slot = r.slot
  <2>1. s.d - 2 = p.d - 2 /\ s.d - 2 \in Nat
    BY <1>1, <1>2
  <2>2. QED
    BY <1>2, <2>1, MovedParts
<1>6. Runs(Inst2("ADD", ESP, Imm(8)), L, S, B, s, m)
  BY <1>2, <1>5, WeakensItself, RunsAdjust
<1>. HIDE DEF m
<1>7. Runs(Inst1("PUSH", EAX), L, S, B, m, q)
  BY <1>5, ResultOfTwo, RunsPushInt, KindType
<1>8. /\ Inst2("MOVZX", EAX, AL) \in Instructions /\ Inst2("ADD", ESP, Imm(8)) \in Instructions
      /\ Inst1("PUSH", EAX) \in Instructions
  <2>1. Imm(8) \in InstOperands
    BY OperandType
  <2>2. {"MOVZX", "ADD", "PUSH"} \subseteq InstTypes
    BY DEF InstTypes
  <2>3. QED
    BY <2>1, <2>2, WrittenType, RegisterType
<1>9. QED
  BY <1>2, <1>4, <1>5, <1>6, <1>7, <1>8, TakesThree DEF PushFlag

(* eval_INT_INT_CMP_binop *)
LEMMA IntCmpTakes ==
  ASSUME NEW L, NEW S, NEW B, NEW p \in Points, NEW q \in Points, NEW op \in CmpOps,
         p.d >= 2, p.slot[p.d - 1] = "INT", q.eax = "ANY",
         Weakens(Pushed(Popped(Popped(p)), "INT"), q)
  PROVE  Takes(IntIntCMP(op), L, S, B, p, q)
<1>. DEFINE s == InEAX(p, "INT")
<1>1. s \in Points /\ s.d = p.d /\ s.c = p.c /\ s.eax = "INT" /\ s.slot = p.slot
  BY EAXParts, KindType
<1>2. Weakens(s, s)
  BY <1>1, WeakensItself
<1>3. Runs(Inst2("MOV", EAX, Deref("ESP", 4)), L, S, B, p, s)
  <2>1. KindOf(p, S, Deref("ESP", 4)) = "INT" /\ Readable(p, B, Deref("ESP", 4))
    BY PointParts, OperandParts DEF KindOf, Readable, OnStack, Place
  <2>2. Moves(Inst2("MOV", EAX, Deref("ESP", 4)), S, B, p, s)
    BY <1>2, <2>1, InstParts DEF Moves
  <2>3. QED
    BY <2>2, RunsMove
<1>. HIDE DEF s
<1>4. Runs(Inst2("CMP", EAX, Deref("ESP", 0)), L, S, B, s, s)
  BY <1>2, RunsQuiet DEF FlagOps
<1>5. SetInt[op] \in SetOps /\ SetInt[op] \in InstTypes
  BY DEF SetInt, CmpOps, SetOps, InstTypes
<1>6. Runs(Inst1(SetInt[op], AL), L, S, B, s, s)
  BY <1>2, <1>5, RunsQuiet
<1>7. /\ Inst2("MOV", EAX, Deref("ESP", 4)) \in Instructions
      /\ Inst2("CMP", EAX, Deref("ESP", 0)) \in Instructions
      /\ Inst1(SetInt[op], AL) \in Instructions
  <2>1. Deref("ESP", 4) \in InstOperands /\ Deref("ESP", 0) \in InstOperands
    BY OperandType DEF Registers
  <2>2. {"MOV", "CMP"} \subseteq InstTypes
    BY DEF InstTypes
  <2>3. QED
    BY <1>5, <2>1, <2>2, WrittenType, RegisterType
<1>8. Takes(<<Inst2("MOV", EAX, Deref("ESP", 4)), Inst2("CMP", EAX, Deref("ESP", 0)),
              Inst1(SetInt[op], AL)>>, L, S, B, p, s)
  BY <1>1, <1>3, <1>4, <1>6, <1>7, TakesThree
<1>9. Takes(PushFlag, L, S, B, s, q)
  BY <1>1, PushFlagTakes
<1>10. QED
  BY <1>8, <1>9, TakesBoth DEF IntIntCMP

(* eval_FLOAT_FLOAT_CMP_binop, the operands being where p has two words. *)
LEMMA FloatCmpTakes ==
  ASSUME NEW L, NEW S, NEW B, NEW p \in Points, NEW q \in Points, NEW op \in CmpOps,
         p.d >= 2, q.eax = "ANY", Weakens(Pushed(Popped(Popped(p)), "INT"), q),
         NEW r \in Points, r.d = p.d, r.c = p.c,
         \A j \in Places : j # p.d /\ j # p.d - 1 => r.slot[j] = p.slot[j]
  PROVE  Takes(FloatFloatCMP(op), L, S, B, r, q)
<1>. DEFINE n1 == LoadedFirst(op)
            n2 == 4 - LoadedFirst(op)
            i1 == Inst1("FLD", Deref("ESP", n1))
            i2 == Inst1("FLD", Deref("ESP", n2))
            i3 == Inst2("FCOMIP", ST0, ST1)
            i4 == Inst1(SetFloat[op], AL)
<1>1. Weakens(r, r)
  BY WeakensItself
<1>2. SetFloat[op] \in SetOps /\ SetFloat[op] \in InstTypes
  BY DEF SetFloat, CmpOps, SetOps, InstTypes
<1>3. Runs(i1, L, S, B, r, r) /\ Runs(i2, L, S, B, r, r) /\ Runs(i3, L, S, B, r, r)
  BY <1>1, RunsQuiet DEF FlagOps
<1>4. Runs(i4, L, S, B, r, r)
  BY <1>1, <1>2, RunsQuiet
<1>5. i1 \in Instructions /\ i2 \in Instructions /\ i3 \in Instructions /\ i4 \in Instructions
  <2>1. Deref("ESP", n1) \in InstOperands /\ Deref("ESP", n2) \in InstOperands
    BY OperandType DEF Registers, LoadedFirst
  <2>2. {"FLD", "FCOMIP"} \subseteq InstTypes
    BY DEF InstTypes
  <2>3. QED
    BY <1>2, <2>1, <2>2, WrittenType, RegisterType
<1>. HIDE DEF i1, i2, i3, i4
<1>6. Takes(<<i1, i2, i3, i4>>, L, S, B, r, r)
  BY <1>3, <1>4, <1>5, TakesFour
<1>7. Takes(PushFlag, L, S, B, r, q)
  BY PushFlagTakes
<1>8. Takes(<<i1, i2, i3, i4>> \o PushFlag, L, S, B, r, q)
  BY <1>6, <1>7, TakesBoth
<1>9. QED
  BY <1>8 DEF FloatFloatCMP, i1, i2, i3, i4

(* An INT operand is converted where it lies. *)
LEMMA ConvertTakes ==
  ASSUME NEW L, NEW S, NEW B, NEW p \in Points, p.d >= 2, NEW n \in {0, 4},
         p.slot[Place(p, n)] = "INT"
  PROVE  LET r == Holding(p, Place(p, n), "FLOAT") IN
           /\ r \in Points /\ r.d = p.d /\ r.c = p.c
           /\ \A j \in Places : j # p.d /\ j # p.d - 1 => r.slot[j] = p.slot[j]
           /\ Takes(ConvertInPlace(n), L, S, B, p, r)
<1>. DEFINE r == Holding(p, Place(p, n), "FLOAT")
            i1 == Inst2("CVTSI2SS", XMM0, Deref("ESP", n))
            i2 == Inst2("MOVSS", Deref("ESP", n), XMM0)
<1>1. p.d \in Nat /\ OnStack(p, Deref("ESP", n))
  BY PointParts, OperandParts DEF OnStack
<1>2. Runs(i1, L, S, B, p, p) /\ i1 \in Instructions
  <2>1. LoadFloat("INT", XMM0, n) = i1
    BY DEF LoadFloat
  <2>. HIDE DEF i1
  <2>2. Runs(LoadFloat("INT", XMM0, n), L, S, B, p, p) /\ LoadFloat("INT", XMM0, n) \in Instructions
    BY <1>1, LoadFloatRuns
  <2>3. QED
    BY <2>1, <2>2
<1>3. r \in Points /\ Place(p, n) \in Places /\ Runs(i2, L, S, B, p, r) /\ i2 \in Instructions
  BY <1>1, StoreFloatRuns
<1>4. Place(p, n) = p.d \/ Place(p, n) = p.d - 1
  BY DEF Place
<1>5. /\ r.d = p.d /\ r.c = p.c
      /\ \A j \in Places : j # p.d /\ j # p.d - 1 => r.slot[j] = p.slot[j]
  BY <1>3, <1>4, HoldingParts, KindType
<1>6. Takes(<<i1, i2>>, L, S, B, p, r)
  BY <1>2, <1>3, TakesTwo
<1>7. QED
  BY <1>3, <1>5, <1>6 DEF ConvertInPlace

(* The end of eval_CMP_binop. *)
LEMMA CmpEndTakes ==
  ASSUME NEW L, NEW S, NEW B, NEW p \in Points, NEW q \in Points, NEW op \in CmpOps,
         NEW t1 \in {"INT", "FLOAT"}, NEW t2 \in {"INT", "FLOAT"},
         p.d >= 2, p.slot[p.d] = t2, p.slot[p.d - 1] = t1, q.eax = "ANY",
         Weakens(Pushed(Popped(Popped(p)), "INT"), q)
  PROVE  Takes(CmpEnd(op, t1, t2), L, S, B, p, q)
<1>1. CASE t1 = "INT" /\ t2 = "INT"
  BY <1>1, IntCmpTakes DEF CmpEnd
<1>2. CASE t1 = "FLOAT" /\ t2 = "INT"
  <2>. DEFINE r == Holding(p, Place(p, 0), "FLOAT")
  <2>1. p.slot[Place(p, 0)] = "INT"
    BY <1>2 DEF Place
  <2>2. /\ r \in Points /\ r.d = p.d /\ r.c = p.c
        /\ \A j \in Places : j # p.d /\ j # p.d - 1 => r.slot[j] = p.slot[j]
        /\ Takes(ConvertInPlace(0), L, S, B, p, r)
    BY <2>1, ConvertTakes
  <2>. HIDE DEF r
  <2>3. Takes(FloatFloatCMP(op), L, S, B, r, q)
    BY <2>2, FloatCmpTakes
  <2>4. QED
    BY <1>2, <2>2, <2>3, TakesBoth DEF CmpEnd
<1>3. CASE t1 = "INT" /\ t2 = "FLOAT"
  <2>. DEFINE r == Holding(p, Place(p, 4), "FLOAT")
  <2>1. p.slot[Place(p, 4)] = "INT"
    BY <1>3 DEF Place
  <2>2. /\ r \in Points /\ r.d = p.d /\ r.c = p.c
        /\ \A j \in Places : j # p.d /\ j # p.d - 1 => r.slot[j] = p.slot[j]
        /\ Takes(ConvertInPlace(4), L, S, B, p, r)
    BY <2>1, ConvertTakes
  <2>. HIDE DEF r
  <2>3. Takes(FloatFloatCMP(op), L, S, B, r, q)
    BY <2>2, FloatCmpTakes
  <2>4. QED
    BY <1>3, <2>2, <2>3, TakesBoth DEF CmpEnd
<1>4. CASE t1 = "FLOAT" /\ t2 = "FLOAT"
  <2>1. Takes(FloatFloatCMP(op), L, S, B, p, q)
    BY FloatCmpTakes
  <2>2. QED
    BY <1>4, <2>1 DEF CmpEnd
<1>5. QED
  BY <1>1, <1>2, <1>3, <1>4

(* eval_NOT_unryop *)
LEMMA NotEndTakes ==
  ASSUME NEW L, NEW S, NEW B, NEW p \in Points, NEW q \in Points, NEW t \in {"INT", "FLOAT"},
         p.d >= 1, p.slot[p.d] = t, q.eax = "ANY", Weakens(Pushed(Popped(p), "INT"), q)
  PROVE  Takes(NotEnd(t), L, S, B, p, q)
<1>. DEFINE m == Moved(p, p.d - 1)
            i1 == Inst1("SETE", CL)
            i2 == Inst2("MOVZX", ECX, CL)
            i3 == Inst1("PUSH", ECX)
<1>1. p.d \in Nat /\ p.d - 1 \in Nat
  BY PointParts
<1>2. m \in Points /\ m.d = p.d - 1 /\ m.c = p.c /\ m.slot = p.slot
  BY <1>1, MovedParts
<1>3. Takes(ZeroCmp(t), L, S, B, p, m)
  BY ZeroCmpTakes
<1>. HIDE DEF m
<1>4. Weakens(m, m)
  BY <1>2, WeakensItself
<1>5. Runs(i1, L, S, B, m, m)
  BY <1>4, RunsQuiet DEF SetOps
<1>6. Runs(i2, L, S, B, m, m)
  <2>1. KindOf(m, S, CL) = "INT" /\ Readable(m, B, CL)
    BY RegisterParts DEF KindOf, Readable
  <2>2. Moves(i2, S, B, m, m)
    BY <1>4, <2>1, InstParts DEF Moves
  <2>3. QED
    BY <2>2, RunsMove
<1>7. Runs(i3, L, S, B, m, q)
  BY <1>2, ResultOfOne, RunsPushInt, KindType
<1>8. i1 \in Instructions /\ i2 \in Instructions /\ i3 \in Instructions
  BY WrittenType, RegisterType DEF InstTypes
<1>. HIDE DEF i1, i2, i3
<1>9. Takes(<<i1, i2, i3>>, L, S, B, m, q)
  BY <1>2, <1>5, <1>6, <1>7, <1>8, TakesThree
<1>10. Takes(ZeroCmp(t) \o <<i1, i2, i3>>, L, S, B, p, q)
  BY <1>3, <1>9, TakesBoth
<1>11. QED
  BY <1>10 DEF NotEnd, i1, i2, i3

(* eval_assing: the value is stored, and stays on the stack. *)
LEMMA AssignEndTakes ==
  ASSUME NEW L, NEW S, NEW B, NEW p \in Points, NEW q \in Points, NEW o \in Nat,
         o \in 1 .. B - 4, p.d >= 1, p.slot[p.d] = S[o], q.eax = "ANY",
         Weakens(Pushed(Popped(p), S[o]), q)
  PROVE  Takes(AssignEnd(o), L, S, B, p, q)
<1>. DEFINE t == S[o]
            s == InEAX(p, t)
            i1 == Inst2("MOV", EAX, Deref("ESP", 0))
            i2 == Inst2("MOV", Deref("EBP", -o), EAX)
<1>1. p.d \in Nat /\ p.d \in Places /\ t \in Kinds
  BY PointParts DEF Places
<1>2. s \in Points /\ s.d = p.d /\ s.c = p.c /\ s.eax = t /\ s.slot = p.slot
  BY <1>1, EAXParts
<1>3. Runs(i1, L, S, B, p, s)
  <2>1. KindOf(p, S, Deref("ESP", 0)) = t /\ Readable(p, B, Deref("ESP", 0))
    BY OperandParts DEF KindOf, Readable, OnStack, Place
  <2>2. Weakens(s, s)
    BY <1>2, WeakensItself
  <2>3. Moves(i1, S, B, p, s)
    BY <2>1, <2>2, InstParts DEF Moves
  <2>4. QED
    BY <2>3, RunsMove
<1>. HIDE DEF s
<1>4. Weakens(s, q)
  <2>. DEFINE a == Pushed(Popped(p), t)
  <2>1. /\ a \in Points /\ a.d = p.d /\ a.c = p.c
        /\ \A i \in Places : a.slot[i] = IF i = p.d THEN t ELSE p.slot[i]
    BY <1>1, ReplacedOne
  <2>2. Weakens(a, q)
    OBVIOUS
  <2>. HIDE DEF a
  <2>3. \A i \in Places : a.slot[i] = s.slot[i]
    BY <1>2, <2>1
  <2>4. QED
    BY <1>2, <2>1, <2>2, <2>3, WeakensLike
<1>5. Runs(i2, L, S, B, s, q)
  <2>1. KindOf(s, S, EAX) = t /\ Readable(s, B, EAX)
    BY <1>2, RegisterParts DEF KindOf, Readable
  <2>2. InFrame(B, Deref("EBP", -o)) /\ Deref("EBP", -o).n = -o /\ -(-o) = o
    BY OperandParts DEF InFrame
  <2>3. Moves(i2, S, B, s, q)
    BY <1>4, <2>1, <2>2, InstParts DEF Moves
  <2>4. QED
    BY <2>3, RunsMove
<1>6. i1 \in Instructions /\ i2 \in Instructions
  <2>1. Deref("ESP", 0) \in InstOperands /\ Deref("EBP", -o) \in InstOperands
    BY OperandType DEF Registers
  <2>2. QED
    BY <2>1, WrittenType, RegisterType DEF InstTypes
<1>. HIDE DEF i1, i2
<1>7. Takes(<<i1, i2>>, L, S, B, p, q)
  BY <1>2, <1>3, <1>5, <1>6, TakesTwo
<1>8. QED
  BY <1>7 DEF AssignEnd, i1, i2

(* eval_num *)
LEMMA EvalNumTakes ==
  ASSUME NEW L, NEW S, NEW B, NEW p \in Points, NEW q \in Points, NEW nd,
         nd.op \in {"INT", "FLOAT"}, nd.num \in Int, Weakens(Pushed(p, nd.op), q)
  PROVE  Takes(EvalNum(nd), L, S, B, p, q)
<1>. DEFINE o == IF nd.op = "INT" THEN Imm(nd.num) ELSE Float(nd.num)
            i1 == Inst1("PUSH", o)
<1>1. o.mode = IF nd.op = "INT" THEN "imm" ELSE "float"
  BY OperandParts
<1>2. o \in InstOperands
  BY OperandType
<1>3. EvalNum(nd) = <<i1>>
  BY DEF EvalNum
<1>. HIDE DEF o
<1>4. KindOf(p, S, o) = nd.op /\ Readable(p, B, o)
  BY <1>1 DEF KindOf, Readable
<1>5. Runs(i1, L, S, B, p, q)
  BY <1>4, RunsPush
<1>6. i1 \in Instructions
  BY <1>2, WrittenType DEF InstTypes
<1>. HIDE DEF i1
<1>7. QED
  BY <1>3, <1>5, <1>6, TakesOne

(* eval_access *)
LEMMA AccessTakes ==
  ASSUME NEW L, NEW S, NEW B, NEW p \in Points, NEW q \in Points, NEW o \in Nat,
         o \in 1 .. B - 4, Weakens(Pushed(p, S[o]), q)
  PROVE  Takes(<<Inst1("PUSH", Deref("EBP", -o))>>, L, S, B, p, q)
<1>. DEFINE x == Deref("EBP", -o)
            i1 == Inst1("PUSH", x)
<1>1. x.mode = "deref" /\ x.name = "EBP" /\ x.n = -o /\ -(-o) = o
  BY OperandParts
<1>2. x \in InstOperands
  BY OperandType DEF Registers
<1>. HIDE DEF x
<1>3. KindOf(p, S, x) = S[o] /\ Readable(p, B, x)
  <2>1. KindOf(p, S, x) = S[-x.n] /\ S[-x.n] = S[o]
    BY <1>1 DEF KindOf
  <2>2. -x.n \in 1 .. B - 4
    BY <1>1
  <2>3. QED
    BY <1>1, <2>1, <2>2 DEF Readable, InFrame
<1>4. Runs(i1, L, S, B, p, q)
  BY <1>3, RunsPush
<1>5. i1 \in Instructions
  BY <1>2, WrittenType DEF InstTypes
<1>. HIDE DEF i1
<1>6. Takes(<<i1>>, L, S, B, p, q)
  BY <1>4, <1>5, TakesOne
<1>7. QED
  BY <1>6 DEF i1, x

-----------------------------------------------------------------------------
(* The points of the statements.                                           *)

(* How many of the first statements are floats. *)
LEMMA FloatsParts ==
  /\ Floats(0) = 0
  /\ \A k \in Nat : /\ Floats(k) \in 0 .. k
                    /\ Floats(k + 1) = Floats(k) + (IF value_type[prog.root[k + 1]] = "FLOAT" THEN 1 ELSE 0)
<1>. DEFINE F(k) == {i \in 1 .. k : value_type[prog.root[i]] = "FLOAT"}
<1>1. \A k \in Nat : IsFiniteSet(F(k)) /\ Cardinality(F(k)) \in 0 .. k
  <2>1. TAKE k \in Nat
  <2>2. IsFiniteSet(1 .. k) /\ Cardinality(1 .. k) = k
    BY FS_Interval
  <2>3. F(k) \in SUBSET (1 .. k)
    OBVIOUS
  <2>. HIDE DEF F
  <2>4. IsFiniteSet(F(k)) /\ Cardinality(F(k)) <= k
    BY <2>2, <2>3, FS_Subset
  <2>5. Cardinality(F(k)) \in Nat
    BY <2>4, FS_CardinalityType
  <2>6. QED
    BY <2>4, <2>5
<1>2. F(0) = {}
  OBVIOUS
<1>3. \A k \in Nat :
        Cardinality(F(k + 1)) =
          Cardinality(F(k)) + (IF value_type[prog.root[k + 1]] = "FLOAT" THEN 1 ELSE 0)
  <2>1. TAKE k \in Nat
  <2>2. Cardinality(F(k)) \in Nat /\ IsFiniteSet(F(k))
    BY <1>1
  <2>3. CASE value_type[prog.root[k + 1]] = "FLOAT"
    <3>1. F(k + 1) = F(k) \cup {k + 1} /\ k + 1 \notin F(k)
      BY <2>3
    <3>. HIDE DEF F
    <3>2. QED
      BY <2>2, <2>3, <3>1, FS_AddElement
  <2>4. CASE value_type[prog.root[k + 1]] # "FLOAT"
    <3>1. F(k + 1) = F(k)
      BY <2>4
    <3>. HIDE DEF F
    <3>2. QED
      BY <2>2, <2>4, <3>1
  <2>5. QED
    BY <2>3, <2>4
<1>4. \A k : Floats(k) = Cardinality(F(k))
  BY DEF Floats
<1>. HIDE DEF F
<1>5. Floats(0) = 0
  BY <1>2, <1>4, FS_EmptySet
<1>6. QED
  BY <1>1, <1>3, <1>4, <1>5

(* How deep the stack is before a statement, and behind it. *)
LEMMA LevelParts ==
  ASSUME NEW k \in Nat
  PROVE  /\ Level(0) = 0
         /\ Level(k) \in Nat /\ Level(k) >= k
         /\ Level(k + 1) = Level(k) + (IF value_type[prog.root[k + 1]] = "FLOAT" THEN 1 ELSE 2)
<1>1. /\ Floats(0) = 0 /\ Floats(k) \in 0 .. k
      /\ Floats(k + 1) = Floats(k) + (IF value_type[prog.root[k + 1]] = "FLOAT" THEN 1 ELSE 0)
  BY FloatsParts
<1>2. QED
  BY <1>1 DEF Level

(* The point of a statement. *)
LEMMA AtStatementParts ==
  ASSUME NEW k \in Nat
  PROVE  LET a == AtStatement(k) IN
           /\ a \in Points /\ Canonical(a)
           /\ a.d = Level(k) /\ a.c = k /\ a.eax = "ANY" /\ \A j \in Places : a.slot[j] = "ANY"
<1>1. Level(k) \in Nat
  BY LevelParts
<1>2. [j \in Places |-> "ANY"] \in [Places -> Kinds]
  BY KindType
<1>3. AtStatement(k) \in Points
  BY <1>1, <1>2, KindType DEF AtStatement, Points
<1>4. QED
  BY <1>3 DEF AtStatement, Canonical

(* print_value: the value is printed as what it is. *)
LEMMA PrintTakes ==
  ASSUME NEW L, NEW S, NEW B, NEW p \in Points, NEW q \in Points, NEW t \in {"INT", "FLOAT"},
         p.c + 1 \in 1 .. Len(prog.root), value_type[prog.root[p.c + 1]] = t,
         p.d = Level(p.c) + 1, p.slot[p.d] = t, Weakens(AtStatement(p.c + 1), q)
  PROVE  Takes(PrintValue(t), L, S, B, p, q)
<1>. DEFINE a == AtStatement(p.c + 1)
<1>1. p.c \in Nat /\ p.c + 1 \in Nat /\ p.d \in Nat
  BY PointParts
<1>2. a.d = Level(p.c + 1) /\ a.c = p.c + 1 /\ a.eax = "ANY" /\ \A j \in Places : a.slot[j] = "ANY"
  BY <1>1, AtStatementParts
<1>. HIDE DEF a
<1>3. Level(p.c) \in Nat /\ Level(p.c + 1) = Level(p.c) + (IF t = "FLOAT" THEN 1 ELSE 2)
  BY <1>1, LevelParts
<1>4. ASSUME NEW r \in Points, r.d = Level(p.c + 1), r.c = p.c
      PROVE  Weakens(InEAX([r EXCEPT !.c = r.c + 1], "ANY"), q)
  <2>. DEFINE s == [r EXCEPT !.c = r.c + 1]
              u == InEAX(s, "ANY")
  <2>1. s \in Points /\ s.d = r.d /\ s.c = p.c + 1 /\ s.slot = r.slot
    BY <1>1, <1>4 DEF Points
  <2>. HIDE DEF s
  <2>2. u \in Points /\ u.d = Level(p.c + 1) /\ u.c = p.c + 1 /\ u.eax = "ANY" /\ u.slot = r.slot
    BY <1>4, <2>1, EAXParts, KindType
  <2>. HIDE DEF u
  <2>3. q.d = a.d /\ q.c = a.c /\ q.eax = "ANY" /\ \A j \in Places : q.slot[j] = "ANY"
    BY <1>2 DEF Weakens, a
  <2>4. Weakens(u, q)
    BY <1>2, <2>2, <2>3 DEF Weakens
  <2>5. QED
    BY <2>4 DEF u, s
<1>5. /\ Inst1("PUSH", Sym("int_format")) \in Instructions
      /\ Inst1("CALL", Sym("printf")) \in Instructions
      /\ Inst1("CALL", Sym("print_float")) \in Instructions
  <2>1. /\ Sym("int_format") \in InstOperands /\ Sym("printf") \in InstOperands
        /\ Sym("print_float") \in InstOperands
    BY OperandType DEF Symbols
  <2>2. {"PUSH", "CALL"} \subseteq InstTypes
    BY DEF InstTypes
  <2>3. QED
    BY <2>1, <2>2, WrittenType
<1>6. CASE t = "INT"
  <2>. DEFINE r == Pushed(p, "ANY")
  <2>1. /\ r \in Points /\ r.d = p.d + 1 /\ r.c = p.c
        /\ \A j \in Places : r.slot[j] = IF j = p.d + 1 THEN "ANY" ELSE p.slot[j]
    BY PushedParts, KindType
  <2>2. Runs(Inst1("PUSH", Sym("int_format")), L, S, B, p, r)
    <3>1. KindOf(p, S, Sym("int_format")) = "ANY" /\ Readable(p, B, Sym("int_format"))
      BY OperandParts DEF KindOf, Readable
    <3>2. Weakens(r, r)
      BY <2>1, WeakensItself
    <3>3. QED
      BY <3>1, <3>2, RunsPush
  <2>. HIDE DEF r
  <2>3. r.slot[r.d - 1] = "INT" /\ r.d >= 2 /\ r.d = Level(p.c + 1)
    <3>1. r.d - 1 = p.d /\ p.d \in Places /\ p.d # p.d + 1
      BY <1>1, <2>1 DEF Places
    <3>2. r.d = Level(p.c + 1) /\ r.d >= 2
      BY <1>3, <1>6, <2>1
    <3>3. QED
      BY <1>6, <2>1, <3>1, <3>2
  <2>4. Prints("printf", r)
    BY <1>6, <2>1, <2>3 DEF Prints
  <2>5. Runs(Inst1("CALL", Sym("printf")), L, S, B, r, q)
    BY <1>4, <2>1, <2>3, <2>4, RunsCall
  <2>6. Takes(<<Inst1("PUSH", Sym("int_format")), Inst1("CALL", Sym("printf"))>>, L, S, B, p, q)
    BY <1>5, <2>1, <2>2, <2>5, TakesTwo
  <2>7. QED
    BY <1>6, <2>6 DEF PrintValue
<1>7. CASE t = "FLOAT"
  <2>1. p.d = Level(p.c + 1) /\ p.d >= 1
    BY <1>3, <1>7
  <2>2. Prints("print_float", p)
    BY <1>7, <2>1 DEF Prints
  <2>3. Runs(Inst1("CALL", Sym("print_float")), L, S, B, p, q)
    BY <1>4, <2>1, <2>2, RunsCall
  <2>4. Takes(<<Inst1("CALL", Sym("print_float"))>>, L, S, B, p, q)
    BY <1>5, <2>3, TakesOne
  <2>5. QED
    BY <1>7, <2>4 DEF PrintValue
<1>8. QED
  BY <1>6, <1>7

-----------------------------------------------------------------------------
(* Code that goes on.                                                      *)

(* The typing of an instruction does not change with what it does not use:  *)
(* other labels and the places of later variables.                         *)
LEMMA RunsKept ==
  ASSUME NEW ins \in Instructions, NEW L, NEW S, NEW B \in Nat, NEW p, NEW q,
         Runs(ins, L, S, B, p, q),
         NEW L2, ins.op \in JumpOps \cup {"SUB_LABEL"} => L2[ins.a.n] = L[ins.a.n],
         NEW S2, NEW B2 \in Nat, B <= B2, \A o \in 1 .. B - 4 : S2[o] = S[o]
  PROVE  Runs(ins, L2, S2, B2, p, q)
<1>1. ASSUME NEW o, Readable(p, B, o)
      PROVE  Readable(p, B2, o) /\ KindOf(p, S2, o) = KindOf(p, S, o)
  <2>1. InFrame(B, o) => InFrame(B2, o) /\ S2[-o.n] = S[-o.n]
    BY DEF InFrame
  <2>2. Readable(p, B2, o)
    BY <1>1, <2>1 DEF Readable
  <2>3. CASE o.mode = "deref" /\ o.name # "ESP"
    <3>1. InFrame(B, o)
      BY <1>1, <2>3, RegisterParts DEF Readable, OnStack
    <3>2. QED
      BY <2>1, <2>2, <2>3, <3>1 DEF KindOf
  <2>4. CASE ~ (o.mode = "deref" /\ o.name # "ESP")
    <3>1. KindOf(p, S2, o) = KindOf(p, S, o)
      BY <2>4 DEF KindOf
    <3>2. QED
      BY <2>2, <3>1
  <2>5. QED
    BY <2>3, <2>4
<1>2. ASSUME Moves(ins, S, B, p, q)
      PROVE  Moves(ins, S2, B2, p, q)
  <2>1. Readable(p, B2, ins.b) /\ KindOf(p, S2, ins.b) = KindOf(p, S, ins.b)
    BY <1>1, <1>2 DEF Moves
  <2>2. InFrame(B, ins.a) => InFrame(B2, ins.a) /\ S2[-ins.a.n] = S[-ins.a.n]
    BY DEF InFrame
  <2>3. QED
    BY <1>2, <2>1, <2>2 DEF Moves
<1>3. CASE ins.op = "PUSH" /\ Readable(p, B, ins.a) /\ Weakens(Pushed(p, KindOf(p, S, ins.a)), q)
  BY <1>1, <1>3 DEF Runs
<1>4. CASE ins.op \in {"MOV", "MOVSS", "MOVZX", "CVTSI2SS"} /\ Moves(ins, S, B, p, q)
  BY <1>2, <1>4 DEF Runs
<1>5. CASE ins.op = "SUB_LABEL" /\ p = L[ins.a.n] /\ Weakens(p, q)
  BY <1>5 DEF Runs
<1>6. CASE ins.op \in JumpOps /\ Weakens(p, L[ins.a.n]) /\ Weakens(p, q)
  BY <1>6 DEF Runs
<1>7. QED
  BY <1>3, <1>4, <1>5, <1>6 DEF Runs

(* The types of the statements are the same at the end of a step. *)
LEMMA LevelsSame ==
  ASSUME UNCHANGED <<prog, value_type>>
  PROVE  \A k : /\ Floats(k)' = Floats(k) /\ Level(k)' = Level(k)
                /\ AtStatement(k)' = AtStatement(k)
<1>1. \A k : Floats(k)' = Floats(k)
  BY DEF Floats
<1>2. \A k : Level(k)' = Level(k)
  BY <1>1 DEF Level
<1>3. \A k : AtStatement(k)' = AtStatement(k)
  BY <1>2 DEF AtStatement
<1>4. QED
  BY <1>1, <1>2, <1>3

(* So is the typing of the instructions. *)
LEMMA RunsSame ==
  ASSUME UNCHANGED <<prog, value_type>>,
         NEW ins, NEW L, NEW S, NEW B, NEW p, NEW q
  PROVE  Runs(ins, L, S, B, p, q)' <=> Runs(ins, L, S, B, p, q)
<1>1. \A f, r : Prints(f, r)' <=> Prints(f, r)
  BY LevelsSame DEF Prints
<1>2. QED
  BY <1>1 DEF Runs

(* And the typing of code. *)
LEMMA TypedCodeSame ==
  ASSUME UNCHANGED <<prog, value_type, m_IntCount, m_FloatCount, m_PtrCount>>,
         NEW c, NEW L, NEW S, NEW B, NEW P
  PROVE  TypedCode(c, L, S, B, P)' <=> TypedCode(c, L, S, B, P)
<1>1. get_alloc_size' = get_alloc_size
  BY DEF get_alloc_size
<1>2. QED
  BY <1>1, LevelsSame, RunsSame DEF TypedCode

(* Labels, and places of variables, of which only later code makes use. *)
SameLabels(c, L, L2)    == \A i \in Labels(c) \cup Jumps(c) : L2[c[i].a.n] = L[c[i].a.n]
SameFrame(S, S2, B, B2) == B <= B2 /\ \A o \in 1 .. B - 4 : S2[o] = S[o]

(* And of code that leads to a point. *)
LEMMA TypedToSame ==
  ASSUME UNCHANGED <<prog, value_type, m_IntCount, m_FloatCount, m_PtrCount>>,
         NEW c, NEW L, NEW S, NEW B, NEW q
  PROVE  TypedTo(c, L, S, B, q)' <=> TypedTo(c, L, S, B, q)
  BY TypedCodeSame DEF TypedTo

(* Typed code is still typed when other labels are placed and variables     *)
(* added.                                                                  *)
LEMMA TypedKept ==
  ASSUME NEW c \in Seq(Instructions), NEW L, NEW S, NEW B \in Nat, NEW q,
         TypedTo(c, L, S, B, q), NEW L2, NEW S2, NEW B2 \in Nat,
         SameFrame(S, S2, B, B2), SameLabels(c, L, L2)
  PROVE  TypedTo(c, L2, S2, B2, q)
<1>0. PICK P \in [Nat -> Points] : TypedCode(c, L, S, B, P) /\ P[Len(c) + 1] = q
  BY DEF TypedTo
<1>1. ASSUME NEW i \in 7 .. Len(c)
      PROVE  Runs(c[i], L2, S2, B2, P[i], P[i + 1])
  <2>. DEFINE ins == c[i]
              p == P[i]
              r == P[i + 1]
  <2>1. i \in 1 .. Len(c)
    BY LenProperties
  <2>2. ins \in Instructions /\ Runs(ins, L, S, B, p, r)
    BY <1>0, <2>1, ElementOfSeq DEF TypedCode
  <2>3. ins.op \in JumpOps \cup {"SUB_LABEL"} => L2[ins.a.n] = L[ins.a.n]
    BY <2>1 DEF Labels, Jumps, SameLabels
  <2>4. B <= B2 /\ \A o \in 1 .. B - 4 : S2[o] = S[o]
    BY DEF SameFrame
  <2>. HIDE DEF ins, p, r
  <2>5. Runs(ins, L2, S2, B2, p, r)
    BY <2>2, <2>3, <2>4, RunsKept
  <2>6. QED
    BY <2>5 DEF ins, p, r
<1>2. TypedCode(c, L2, S2, B2, P)
  BY <1>0, <1>1 DEF TypedCode
<1>3. QED
  BY <1>0, <1>2 DEF TypedTo

(* A block appended to typed code. *)
LEMMA TypedAppend ==
  ASSUME NEW c \in Seq(Instructions), NEW L, NEW S, NEW B, NEW p, NEW b, NEW q,
         TypedTo(c, L, S, B, p), Takes(b, L, S, B, p, q)
  PROVE  TypedTo(c \o b, L, S, B, q)
<1>0. PICK P \in [Nat -> Points] : TypedCode(c, L, S, B, P) /\ P[Len(c) + 1] = p
  BY DEF TypedTo
<1>. DEFINE N == Len(c)
            M == Len(b)
            d == c \o b
<1>1. b \in Seq(Instructions)
  BY DEF Takes
<1>2. PICK pts \in Seq(Points) :
        /\ Len(pts) = M + 1 /\ pts[1] = P[N + 1] /\ pts[M + 1] = q
        /\ \A i \in 1 .. M : Runs(b[i], L, S, B, pts[i], pts[i + 1])
  BY <1>0 DEF Takes
<1>3. /\ N \in Nat /\ M \in Nat /\ Len(d) = N + M
      /\ \A i \in 1 .. N : d[i] = c[i]
      /\ \A i \in 1 .. Len(d) :
           \/ i \in 1 .. N /\ d[i] = c[i]
           \/ i > N /\ i - N \in 1 .. M /\ d[i] = b[i - N]
  BY <1>1, ConcatParts
<1>4. N >= 6
  BY <1>0 DEF TypedCode
<1>5. \A i \in 1 .. M + 1 : pts[i] \in Points
  BY <1>2, <1>3, ElementOfSeq
<1>. DEFINE P2 == [i \in Nat |-> IF i > N /\ i <= N + M + 1 THEN pts[i - N] ELSE P[i]]
<1>6. P2 \in [Nat -> Points]
  <2>1. ASSUME NEW i \in Nat, i > N, i <= N + M + 1
        PROVE  pts[i - N] \in Points
    <3>1. i - N \in 1 .. M + 1
      BY <1>3, <2>1
    <3>2. QED
      BY <1>5, <3>1
  <2>. HIDE DEF N, M
  <2>2. QED
    BY <2>1
<1>7. /\ \A i \in 1 .. N : P2[i] = P[i]
      /\ \A i \in N + 1 .. N + M + 1 : P2[i] = pts[i - N]
  BY <1>3
<1>8. P2[N + 1] = P[N + 1]
  <2>1. N + 1 \in N + 1 .. N + M + 1 /\ (N + 1) - N = 1
    BY <1>3
  <2>. HIDE DEF P2, N, M
  <2>2. QED
    BY <1>2, <1>7, <2>1
<1>. HIDE DEF P2
<1>9. ASSUME NEW i \in 7 .. Len(d)
      PROVE  Runs(d[i], L, S, B, P2[i], P2[i + 1])
  <2>0. i \in 1 .. Len(d)
    BY <1>3
  <2>1. CASE i \in 1 .. N /\ d[i] = c[i]
    <3>1. i \in 7 .. N
      BY <1>3, <2>1
    <3>2. Runs(c[i], L, S, B, P[i], P[i + 1])
      BY <1>0, <3>1 DEF TypedCode
    <3>3. P2[i] = P[i] /\ P2[i + 1] = P[i + 1]
      <4>1. i + 1 \in 1 .. N \/ i = N
        BY <1>3, <2>1
      <4>. HIDE DEF N
      <4>2. QED
        BY <1>7, <1>8, <2>1, <4>1
    <3>4. QED
      BY <2>1, <3>2, <3>3
  <2>2. CASE i > N /\ i - N \in 1 .. M /\ d[i] = b[i - N]
    <3>1. i \in N + 1 .. N + M + 1 /\ i + 1 \in N + 1 .. N + M + 1 /\ (i + 1) - N = (i - N) + 1
      BY <1>3, <2>2
    <3>2. P2[i] = pts[i - N] /\ P2[i + 1] = pts[(i - N) + 1]
      BY <1>7, <3>1
    <3>3. Runs(b[i - N], L, S, B, pts[i - N], pts[(i - N) + 1])
      BY <1>2, <2>2
    <3>4. QED
      BY <2>2, <3>2, <3>3
  <2>3. QED
    BY <1>3, <2>0, <2>1, <2>2
<1>10. P2[7] = AtStatement(0)
  <2>1. 7 \in 1 .. N \/ 7 = N + 1
    BY <1>3, <1>4
  <2>2. P2[7] = P[7]
    BY <1>7, <1>8, <2>1
  <2>3. QED
    BY <1>0, <2>2 DEF TypedCode
<1>11. \A i \in 1 .. 6 : d[i] = Prologue(get_alloc_size)[i]
  <2>1. \A i \in 1 .. 6 : i \in 1 .. N
    BY <1>3, <1>4
  <2>2. QED
    BY <1>0, <1>3, <2>1 DEF TypedCode
<1>12. Len(d) >= 6
  BY <1>3, <1>4
<1>13. TypedCode(d, L, S, B, P2)
  BY <1>9, <1>10, <1>11, <1>12 DEF TypedCode
<1>14. P2[Len(d) + 1] = q
  <2>1. N + M + 1 \in N + 1 .. N + M + 1 /\ (N + M + 1) - N = M + 1
    BY <1>3
  <2>2. P2[N + M + 1] = pts[M + 1]
    BY <1>7, <2>1
  <2>3. QED
    BY <1>2, <1>3, <2>2
<1>15. QED
  BY <1>6, <1>13, <1>14 DEF TypedTo

-----------------------------------------------------------------------------
(* The activations.                                                        *)

(* What they need, and where they lead to, does not change. *)
LEMMA NeedsSame ==
  ASSUME UNCHANGED <<prog, value_type>>, NEW task, NEW p
  PROVE  /\ Needs(task, p)' <=> Needs(task, p)
         /\ After(task, p)' = After(task, p)
         /\ \A n : /\ Logic(n)' <=> Logic(n)
                   /\ \A t : Inner(t, n)' <=> Inner(t, n)
                   /\ TypeAt(n)' = TypeAt(n)
<1>1. /\ \A n : Logic(n)' <=> Logic(n)
      /\ \A n : TypeAt(n)' = TypeAt(n)
      /\ \A n : Node(n)' = Node(n)
      /\ Ids' = Ids
  BY DEF Logic, TypeAt, Node, Ids
<1>2. \A n, t : Inner(t, n)' <=> Inner(t, n)
  BY <1>1 DEF Inner
<1>3. Needs(task, p)' <=> Needs(task, p)
  BY <1>1, LevelsSame DEF Needs
<1>4. After(task, p)' = After(task, p)
  BY <1>1, LevelsSame DEF After
<1>5. QED
  BY <1>1, <1>2, <1>3, <1>4

(* An activation that has ended: the next one starts where it led to. *)
LEMMA LeadsPopped ==
  ASSUME UNCHANGED <<prog, value_type>>, todo \in Seq(Tasks), todo # <<>>, todo' = Tail(todo),
         NEW g \in Seq(Points), Leads(g)
  PROVE  /\ Tail(g) \in Seq(Points) /\ Leads(Tail(g))'
         /\ Len(todo) >= 1 /\ Len(g) = Len(todo) + 1
         /\ g[1] \in Points /\ g[2] \in Points /\ g[1].eax = "ANY" /\ g[2].eax = "ANY"
         /\ Needs(todo[1], g[1]) /\ Weakens(After(todo[1], g[1]), g[2])
         /\ \A k \in 1 .. Len(todo) : Tail(g)[k] = g[k + 1]
         /\ \A k \in 1 .. Len(todo') : k + 1 \in 1 .. Len(todo) /\ todo'[k] = todo[k + 1]
         /\ Len(todo') = Len(todo) - 1
<1>1. /\ Len(todo) \in Nat /\ Len(Tail(todo)) = Len(todo) - 1 /\ 1 \in 1 .. Len(todo)
      /\ \A i \in 1 .. Len(Tail(todo)) : i + 1 \in 1 .. Len(todo) /\ Tail(todo)[i] = todo[i + 1]
  BY HeadOfStack
<1>2. Len(g) = Len(todo) + 1
  BY DEF Leads
<1>3. g # <<>>
  <2>1. Len(g) # 0
    BY <1>1, <1>2
  <2>2. QED
    BY <2>1, EmptySeq
<1>4. /\ Tail(g) \in Seq(Points) /\ Len(Tail(g)) = Len(g) - 1
      /\ \A i \in 1 .. Len(Tail(g)) : i + 1 \in 1 .. Len(g) /\ Tail(g)[i] = g[i + 1]
  BY <1>3, HeadOfStack
<1>. DEFINE h == Tail(g)
<1>5. Len(h) = Len(todo) /\ \A k \in 1 .. Len(todo) : h[k] = g[k + 1]
  BY <1>1, <1>2, <1>4
<1>6. \A i \in 1 .. Len(todo) + 1 : g[i] \in Points /\ Canonical(g[i])
  <2>1. \A i \in 1 .. Len(todo) + 1 : g[i] \in Points
    BY <1>2, ElementOfSeq
  <2>2. QED
    BY <2>1 DEF Leads
<1>7. g[1] \in Points /\ g[2] \in Points /\ g[1].eax = "ANY" /\ g[2].eax = "ANY"
  <2>1. 1 \in 1 .. Len(todo) + 1 /\ 2 \in 1 .. Len(todo) + 1
    BY <1>1
  <2>2. QED
    BY <1>6, <2>1 DEF Canonical
<1>8. Needs(todo[1], g[1]) /\ Weakens(After(todo[1], g[1]), g[2])
  BY <1>1 DEF Leads
<1>. HIDE DEF h
<1>9. Leads(h)'
  <2>1. Len(h) = Len(todo') + 1
    BY <1>1, <1>5
  <2>2. ASSUME NEW k \in 1 .. Len(todo') + 1
        PROVE  Canonical(h[k])
    <3>1. k \in 1 .. Len(todo) /\ k + 1 \in 1 .. Len(todo) + 1
      BY <1>1
    <3>2. QED
      BY <1>5, <1>6, <3>1
  <2>3. ASSUME NEW k \in 1 .. Len(todo')
        PROVE  Needs(todo'[k], h[k]) /\ Weakens(After(todo'[k], h[k]), h[k + 1])
    <3>1. k \in 1 .. Len(todo) /\ k + 1 \in 1 .. Len(todo)
      BY <1>1
    <3>2. todo'[k] = todo[k + 1] /\ h[k] = g[k + 1] /\ h[k + 1] = g[(k + 1) + 1]
      BY <1>1, <1>5, <3>1
    <3>3. Needs(todo[k + 1], g[k + 1]) /\ Weakens(After(todo[k + 1], g[k + 1]), g[(k + 1) + 1])
      BY <3>1 DEF Leads
    <3>4. QED
      BY <3>2, <3>3
  <2>4. \A task, p : (Needs(task, p)' <=> Needs(task, p)) /\ After(task, p)' = After(task, p)
    BY NeedsSame
  <2>5. QED
    BY <2>1, <2>2, <2>3, <2>4 DEF Leads
<1>10. QED
  BY <1>1, <1>2, <1>4, <1>5, <1>7, <1>8, <1>9 DEF h

(* What the stack of activations looks like does not depend on its head.   *)
LEMMA ShapedPopped ==
  ASSUME UNCHANGED prog, todo \in Seq(Tasks), todo # <<>>, todo' = Tail(todo), Shaped
  PROVE  Shaped'
<1>1. /\ Len(todo) \in Nat /\ Len(todo') = Len(todo) - 1
      /\ \A i \in 1 .. Len(todo') : i + 1 \in 1 .. Len(todo) /\ todo'[i] = todo[i + 1]
  BY HeadOfStack
<1>2. Ids' = Ids /\ \A n : (Logic(n)' <=> Logic(n)) /\ Node(n)' = Node(n)
  BY DEF Ids, Logic, Node
<1>3. ASSUME NEW k \in 1 .. Len(todo')
      PROVE  /\ todo'[k].do = "test" =>
                  /\ k + 2 \in 1 .. Len(todo')
                  /\ todo'[k].node \in Ids /\ Logic(todo'[k].node)
                  /\ todo'[k + 1] = Task("eval", Node(todo'[k].node).right)
                  /\ todo'[k + 2] = Task("finish", todo'[k].node)
             /\ todo'[k] = Task("eval", nullptr) =>
                  k + 1 \in 1 .. Len(todo') /\ todo'[k + 1] = Task("print", nullptr)
  <2>. DEFINE m == k + 1
  <2>1. m \in 1 .. Len(todo) /\ todo'[k] = todo[m] /\ m \in Nat
    BY <1>1
  <2>2. /\ todo[m].do = "test" =>
             /\ m + 2 \in 1 .. Len(todo)
             /\ todo[m].node \in Ids /\ Logic(todo[m].node)
             /\ todo[m + 1] = Task("eval", Node(todo[m].node).right)
             /\ todo[m + 2] = Task("finish", todo[m].node)
        /\ todo[m] = Task("eval", nullptr) =>
             m + 1 \in 1 .. Len(todo) /\ todo[m + 1] = Task("print", nullptr)
    BY <2>1 DEF Shaped
  <2>3. /\ m + 2 \in 1 .. Len(todo) => /\ k + 1 \in 1 .. Len(todo') /\ k + 2 \in 1 .. Len(todo')
                                       /\ todo'[k + 1] = todo[m + 1] /\ todo'[k + 2] = todo[m + 2]
        /\ m + 1 \in 1 .. Len(todo) => k + 1 \in 1 .. Len(todo') /\ todo'[k + 1] = todo[m + 1]
    <3>1. /\ m + 2 \in 1 .. Len(todo) => k + 1 \in 1 .. Len(todo') /\ k + 2 \in 1 .. Len(todo')
          /\ m + 1 \in 1 .. Len(todo) => k + 1 \in 1 .. Len(todo')
          /\ m + 1 = (k + 1) + 1 /\ m + 2 = (k + 2) + 1
      BY <1>1
    <3>2. QED
      BY <1>1, <3>1
  <2>. HIDE DEF m
  <2>4. QED
    BY <2>1, <2>2, <2>3
<1>4. QED
  BY <1>2, <1>3 DEF Shaped

(* The end that a jump waits for is where it was, unless it has come. *)
LEMMA WaitsPopped ==
  ASSUME UNCHANGED <<prog, value_type, m_CurrentSubLabel>>, todo \in Seq(Tasks), todo # <<>>,
         todo' = Tail(todo), ~ FinishesLogic(todo[1]),
         NEW L, NEW g, Waits(L, g), NEW h, \A k \in 1 .. Len(todo) : h[k] = g[k + 1],
         Waiting(code', m_CurrentSubLabel) => Waiting(code, m_CurrentSubLabel)
  PROVE  Waits(L, h)'
<1>1. /\ Len(todo) \in Nat /\ Len(todo') = Len(todo) - 1
      /\ \A i \in 1 .. Len(todo') : i + 1 \in 1 .. Len(todo) /\ todo'[i] = todo[i + 1]
  BY HeadOfStack
<1>2. /\ \A t : FinishesLogic(t)' <=> FinishesLogic(t)
      /\ \A t, n : Inner(t, n)' <=> Inner(t, n)
  BY NeedsSame DEF FinishesLogic, Node
<1>3. SUFFICES ASSUME Waiting(code, m_CurrentSubLabel)
               PROVE  \E k \in 1 .. Len(todo') :
                        /\ FinishesLogic(todo'[k])
                        /\ L[m_CurrentSubLabel] = Popped(h[k])
                        /\ \A i \in 1 .. k - 1 : Inner(todo'[i], todo'[k].node)
  BY <1>2 DEF Waits
<1>4. PICK k \in 1 .. Len(todo) :
        /\ FinishesLogic(todo[k])
        /\ L[m_CurrentSubLabel] = Popped(g[k])
        /\ \A i \in 1 .. k - 1 : Inner(todo[i], todo[k].node)
  BY <1>3 DEF Waits
<1>5. k # 1
  BY <1>4
<1>6. k - 1 \in 1 .. Len(todo') /\ k - 1 \in 1 .. Len(todo) /\ (k - 1) + 1 = k
  BY <1>1, <1>5
<1>7. todo'[k - 1] = todo[k] /\ h[k - 1] = g[k]
  BY <1>1, <1>6
<1>8. ASSUME NEW i \in 1 .. (k - 1) - 1
      PROVE  Inner(todo'[i], todo[k].node)
  <2>1. i \in 1 .. Len(todo') /\ i + 1 \in 1 .. k - 1
    BY <1>1, <1>6
  <2>2. QED
    BY <1>1, <1>4, <2>1
<1>9. QED
  BY <1>4, <1>6, <1>7, <1>8

(* An activation that writes a block without jumps and labels, and ends.    *)
LEMMA PlainPop ==
  ASSUME CompilerTypeOK, CompilerTypeOK', LabelInv, Shaped, PlainSteps,
         NEW L \in [Nat -> Points], NEW S \in [Nat -> Kinds],
         NEW g \in Seq(Points), EmitTyped(L, S, g), ~ Doomed,
         todo # <<>>, todo' = Tail(todo), ~ FinishesLogic(todo[1]),
         UNCHANGED <<prog, value_type, m_IntCount, m_FloatCount, m_PtrCount, m_CurrentSubLabel>>,
         m_BPOffset' >= m_BPOffset,
         NEW S2 \in [Nat -> Kinds], \A o \in 1 .. m_BPOffset - 4 : S2[o] = S[o],
         TypedVariables(S2)',
         NEW b, code' = code \o b, Takes(b, L, S2, m_BPOffset', g[1], g[2])
  PROVE  TypedTodo'
<1>1. /\ code \in Seq(Instructions) /\ todo \in Seq(Tasks)
      /\ m_BPOffset \in Nat /\ m_BPOffset' \in Nat
      /\ m_CurrentSubLabel \in Nat /\ Consistent(code, m_CurrentSubLabel)
  BY DEF CompilerTypeOK, LabelInv, Tasks
<1>2. Waiting(code', m_CurrentSubLabel) => Waiting(code, m_CurrentSubLabel)
  <2>1. PICK b2 \in Seq(PlainInsts) : code' = code \o b2
    BY PlainWrite
  <2>2. QED
    BY <1>1, <2>1, AppendPlain
<1>3. Leads(g) /\ Waits(L, g) /\ TypedTo(code, L, S, m_BPOffset, g[1])
  BY DEF EmitTyped
<1>4. TypedTo(code \o b, L, S2, m_BPOffset', g[2])
  <2>. DEFINE B  == m_BPOffset
              B2 == m_BPOffset'
              p  == g[1]
              q  == g[2]
  <2>1. /\ B \in Nat /\ B2 \in Nat /\ TypedTo(code, L, S, B, p)
        /\ Takes(b, L, S2, B2, p, q)
    BY <1>1, <1>3
  <2>2. SameFrame(S, S2, B, B2) /\ SameLabels(code, L, L)
    BY <1>1 DEF SameFrame, SameLabels
  <2>. HIDE DEF B, B2, p, q
  <2>3. TypedTo(code, L, S2, B2, p)
    BY <1>1, <2>1, <2>2, TypedKept
  <2>4. TypedTo(code \o b, L, S2, B2, q)
    BY <1>1, <2>1, <2>3, TypedAppend
  <2>5. QED
    BY <2>4 DEF B2, q
<1>. DEFINE h == Tail(g)
<1>5. /\ h \in Seq(Points) /\ Leads(h)' /\ Len(todo) >= 1
      /\ \A k \in 1 .. Len(todo) : h[k] = g[k + 1]
  BY <1>1, <1>3, LeadsPopped
<1>. HIDE DEF h
<1>6. h[1] = g[2]
  <2>1. 1 \in 1 .. Len(todo)
    BY <1>1, HeadOfStack
  <2>2. h[1] = g[1 + 1]
    BY <1>5, <2>1
  <2>3. QED
    BY <2>2
<1>7. Waits(L, h)'
  BY <1>1, <1>2, <1>3, <1>5, WaitsPopped
<1>8. TypedTo(code, L, S2, m_BPOffset, h[1])'
  BY <1>4, <1>6, TypedToSame
<1>9. EmitTyped(L, S2, h)'
  BY <1>5, <1>7, <1>8 DEF EmitTyped
<1>10. Shaped'
  BY <1>1, ShapedPopped
<1>11. QED
  BY <1>5, <1>9, <1>10 DEF TypedTodo

-----------------------------------------------------------------------------
(* The types of the nodes whose code is written.                           *)

(* A node with a type has INT or FLOAT, its operands have one, and from     *)
(* these it follows.                                                       *)
LEMMA NodeTypes2 ==
  ASSUME CompilerTypeOK, TypesFollow, NoPointers, NEW n \in Ids, Typed(n)
  PROVE  /\ value_type[n] \in {"INT", "FLOAT"}
         /\ value_type[n] = TypeOf(n)
         /\ \A o \in OperandsOf(n) : o \in Ids /\ Typed(o) /\ value_type[o] \in {"INT", "FLOAT"}
<1>1. ASSUME NEW m \in Ids, Typed(m)
      PROVE  value_type[m] \in {"INT", "FLOAT"}
  <2>1. value_type[m] \in ValueTypes
    BY DEF CompilerTypeOK, CheckerTypeOK
  <2>2. QED
    BY <1>1, <2>1 DEF Typed, NoPointers, ValueTypes
<1>2. \A o \in OperandsOf(n) : o \in Ids
  BY OperandProperties DEF OperandsOf, CompilerTypeOK, CheckerTypeOK
<1>3. QED
  BY <1>1, <1>2 DEF TypesFollow

(* So has the node of the next activation. *)
LEMMA HeadTyped ==
  ASSUME CompilerTypeOK, TypesFollow, TodoTyped, NoPointers, todo # <<>>, todo[1].node # nullptr
  PROVE  LET n == todo[1].node IN
           /\ n \in Ids /\ Typed(n) /\ Node(n) \in Nodes /\ WellFormed(prog.node, n)
           /\ value_type[n] \in {"INT", "FLOAT"}
           /\ value_type[n] = TypeOf(n)
           /\ \A o \in OperandsOf(n) : o \in Ids /\ Typed(o) /\ value_type[o] \in {"INT", "FLOAT"}
<1>1. todo[1].node \in Ids
  BY HeadTask
<1>2. 1 \in 1 .. Len(todo)
  BY HeadOfStack DEF CompilerTypeOK
<1>3. Typed(todo[1].node)
  BY <1>2 DEF TodoTyped
<1>4. Node(todo[1].node) \in Nodes /\ WellFormed(prog.node, todo[1].node)
  BY <1>1, NodeProperties DEF CompilerTypeOK, CheckerTypeOK
<1>5. QED
  BY <1>1, <1>3, <1>4, NodeTypes2

(* What is known of the code generator.                                    *)
EmitterFacts ==
  /\ CompilerTypeOK /\ LabelInv /\ TypesFollow /\ TodoTyped /\ BoundWhereUsed
  /\ EmitterInv /\ NoPointers /\ Shaped /\ InTextOrder(prog) /\ Unnested(prog)

(* The points of the next activation and of the one behind it. *)
LEMMA HeadLeads ==
  ASSUME EmitterFacts, todo # <<>>, NEW g \in Seq(Points), Leads(g)
  PROVE  /\ g[1] \in Points /\ g[2] \in Points /\ g[1].eax = "ANY" /\ g[2].eax = "ANY"
         /\ Needs(todo[1], g[1]) /\ Weakens(After(todo[1], g[1]), g[2])
         /\ Len(g) = Len(todo) + 1 /\ Len(todo) \in Nat /\ Len(todo) >= 1
<1>1. Len(todo) \in Nat /\ 1 \in 1 .. Len(todo)
  BY HeadOfStack DEF EmitterFacts, CompilerTypeOK
<1>2. Len(g) = Len(todo) + 1
  BY DEF Leads
<1>3. 1 \in 1 .. Len(todo) + 1 /\ 2 \in 1 .. Len(todo) + 1
  BY <1>1
<1>4. g[1] \in Points /\ g[2] \in Points
  BY <1>2, <1>3, ElementOfSeq
<1>5. g[1].eax = "ANY" /\ g[2].eax = "ANY"
  BY <1>3 DEF Leads, Canonical
<1>6. Needs(todo[1], g[1]) /\ Weakens(After(todo[1], g[1]), g[1 + 1])
  BY <1>1 DEF Leads
<1>7. QED
  BY <1>1, <1>2, <1>4, <1>5, <1>6

(* The block that a step writes leads from the first point to the second. *)
Written(L, S, g) ==
  /\ todo # <<>> /\ todo' = Tail(todo) /\ ~ FinishesLogic(todo[1]) /\ ~ Doomed
  /\ \E b : code' = code \o b /\ Takes(b, L, S, m_BPOffset', g[1], g[2])

(* A literal. *)
LEMMA EvalNumberTyped ==
  ASSUME EmitterFacts, EvalNumber,
         NEW L, NEW S, NEW g \in Seq(Points), Leads(g)
  PROVE  Written(L, S, g)
<1>. DEFINE n == todo[1].node
            nd == Node(n)
            p == g[1]
            q == g[2]
<1>1. /\ todo # <<>> /\ todo[1].do = "eval" /\ n # nullptr /\ nd.type = "NUM"
      /\ todo' = Tail(todo) /\ code' = code \o EvalNum(nd) /\ m_BPOffset' = m_BPOffset
  BY DEF EvalNumber, OnNode, Emitting, Write
<1>2. /\ nd \in Nodes /\ value_type[n] \in {"INT", "FLOAT"} /\ value_type[n] = TypeOf(n)
  BY <1>1, HeadTyped DEF EmitterFacts
<1>3. p \in Points /\ q \in Points /\ Weakens(After(todo[1], p), q)
  BY <1>1, HeadLeads
<1>4. After(todo[1], p) = Pushed(p, nd.op) /\ nd.op \in {"INT", "FLOAT"}
  BY <1>1, <1>2 DEF After, TypeAt, TypeOf
<1>5. nd.num \in Int
  BY <1>2, LiteralType
<1>. HIDE DEF n, nd, p, q
<1>6. Takes(EvalNum(nd), L, S, m_BPOffset', p, q)
  BY <1>3, <1>4, <1>5, EvalNumTakes
<1>7. ~ Doomed /\ ~ FinishesLogic(todo[1])
  BY <1>1 DEF Doomed, Task, FinishesLogic
<1>8. QED
  BY <1>1, <1>6, <1>7 DEF Written, p, q

(* The value of a variable. *)
LEMMA EvalAccessTyped ==
  ASSUME EmitterFacts, EvalAccess,
         NEW L, NEW S, TypedVariables(S), NEW g \in Seq(Points), Leads(g)
  PROVE  Written(L, S, g)
<1>. DEFINE n == todo[1].node
            nd == Node(n)
            o == m_VarTable[nd.name].offset
            p == g[1]
            q == g[2]
            b == <<Inst1("PUSH", Deref("EBP", -o))>>
<1>1. /\ todo # <<>> /\ todo[1].do = "eval" /\ n # nullptr /\ nd.type = "ACCESS"
      /\ todo' = Tail(todo) /\ m_BPOffset' = m_BPOffset
      /\ o # 0 => code' = code \o b
  BY DEF EvalAccess, OnNode, Emitting, Write
<1>2. nd.name \in Names
  BY <1>1, HeadTyped DEF EmitterFacts, WellFormed, Node
<1>3. o # 0 /\ m_VarTable[nd.name].type = value_type[n]
  BY DEF EmitterFacts, BoundWhereUsed, EvalAccess
<1>4. o \in 4 .. m_BPOffset - 4 /\ S[o] = value_type[n] /\ m_BPOffset \in Nat
  BY <1>2, <1>3 DEF TypedVariables, EmitterFacts, CompilerTypeOK
<1>5. o \in Nat /\ o \in 1 .. m_BPOffset - 4
  BY <1>4
<1>6. p \in Points /\ q \in Points /\ Weakens(After(todo[1], p), q)
  BY <1>1, HeadLeads
<1>7. After(todo[1], p) = Pushed(p, S[o])
  BY <1>1, <1>4 DEF After, TypeAt
<1>. HIDE DEF n, nd, p, q, o
<1>8. Takes(b, L, S, m_BPOffset', p, q)
  BY <1>1, <1>5, <1>6, <1>7, AccessTakes
<1>9. ~ Doomed /\ ~ FinishesLogic(todo[1])
  BY <1>1 DEF Doomed, Task, FinishesLogic
<1>10. QED
  BY <1>1, <1>3, <1>8, <1>9 DEF Written, p, q

(* An arithmetic operator or a comparison. *)
LEMMA FinishBinopTyped ==
  ASSUME EmitterFacts, FinishBinop,
         NEW L, NEW S, NEW g \in Seq(Points), Leads(g)
  PROVE  Written(L, S, g)
<1>. DEFINE n == todo[1].node
            nd == Node(n)
            t1 == value_type[nd.left]
            t2 == value_type[nd.right]
            p == g[1]
            q == g[2]
            b == IF nd.op \in ArithOps THEN ArithEnd(nd.op, t1, t2) ELSE CmpEnd(nd.op, t1, t2)
<1>1. /\ todo # <<>> /\ todo[1].do = "finish" /\ n # nullptr
      /\ nd.type = "BINOP" /\ nd.op \notin LogicOps
      /\ todo' = Tail(todo) /\ m_BPOffset' = m_BPOffset
      /\ code' = code \o b
  <2>1. ArithOps \cap CmpOps = {} /\ (ArithOps \cup CmpOps) \cap LogicOps = {}
    BY DEF ArithOps, CmpOps, LogicOps
  <2>2. CASE FinishArith
    BY <2>1, <2>2 DEF FinishArith, OnNode, Emitting, Write
  <2>3. CASE FinishCmp
    BY <2>1, <2>3 DEF FinishCmp, OnNode, Emitting, Write
  <2>4. QED
    BY <2>2, <2>3 DEF FinishBinop
<1>2. /\ nd.op \in ArithOps \cup CmpOps
      /\ t1 \in {"INT", "FLOAT"} /\ t2 \in {"INT", "FLOAT"}
      /\ value_type[n] = BinOpType(nd)
  <2>1. WellFormed(prog.node, n) /\ value_type[n] = TypeOf(n)
        /\ \A o \in OperandsOf(n) : value_type[o] \in {"INT", "FLOAT"}
    BY <1>1, HeadTyped DEF EmitterFacts
  <2>2. nd.left \in OperandsOf(n) /\ nd.right \in OperandsOf(n)
    BY <1>1 DEF OperandsOf
  <2>3. nd.op \in ArithOps \cup LogicOps \cup CmpOps
    BY <1>1, <2>1 DEF WellFormed, Node
  <2>4. QED
    BY <1>1, <2>1, <2>2, <2>3 DEF TypeOf
<1>3. /\ p \in Points /\ q \in Points /\ q.eax = "ANY"
      /\ Needs(todo[1], p) /\ Weakens(After(todo[1], p), q)
  BY <1>1, HeadLeads
<1>4. ~ Logic(n)
  BY <1>1 DEF Logic
<1>5. /\ p.d >= 2 /\ p.slot[p.d] = t2 /\ p.slot[p.d - 1] = t1
      /\ After(todo[1], p) = Pushed(Popped(Popped(p)), value_type[n])
  BY <1>1, <1>3, <1>4 DEF Needs, After
<1>. HIDE DEF n, nd, p, q, t1, t2
<1>6. Takes(b, L, S, m_BPOffset', p, q)
  <2>1. CASE nd.op \in ArithOps
    <3>1. Weakens(Pushed(Popped(Popped(p)), ArithType(t1, t2)), q)
      BY <1>2, <1>3, <1>5, <2>1 DEF BinOpType, t1, t2
    <3>2. Takes(ArithEnd(nd.op, t1, t2), L, S, m_BPOffset', p, q)
      BY <1>2, <1>3, <1>5, <2>1, <3>1, ArithEndTakes
    <3>3. QED
      BY <2>1, <3>2
  <2>2. CASE nd.op \notin ArithOps
    <3>1. Weakens(Pushed(Popped(Popped(p)), "INT"), q)
      BY <1>2, <1>3, <1>5, <2>2 DEF BinOpType
    <3>2. Takes(CmpEnd(nd.op, t1, t2), L, S, m_BPOffset', p, q)
      BY <1>2, <1>3, <1>5, <2>2, <3>1, CmpEndTakes
    <3>3. QED
      BY <2>2, <3>2
  <2>3. QED
    BY <2>1, <2>2
<1>7. ~ Doomed /\ ~ FinishesLogic(todo[1])
  BY <1>1 DEF Doomed, Task, FinishesLogic, nd, n
<1>8. QED
  BY <1>1, <1>6, <1>7 DEF Written, p, q

(* A negation. *)
LEMMA FinishNotTyped ==
  ASSUME EmitterFacts, FinishNot,
         NEW L, NEW S, NEW g \in Seq(Points), Leads(g)
  PROVE  Written(L, S, g)
<1>. DEFINE n == todo[1].node
            nd == Node(n)
            t == value_type[nd.right]
            p == g[1]
            q == g[2]
<1>1. /\ todo # <<>> /\ todo[1].do = "finish" /\ n # nullptr
      /\ nd.type = "UNRYOP" /\ nd.op = "NOT"
      /\ todo' = Tail(todo) /\ m_BPOffset' = m_BPOffset
      /\ code' = code \o NotEnd(t)
  BY DEF FinishNot, OnNode, Emitting, Write
<1>2. t \in {"INT", "FLOAT"} /\ value_type[n] = "INT"
  <2>1. value_type[n] = TypeOf(n) /\ \A o \in OperandsOf(n) : value_type[o] \in {"INT", "FLOAT"}
    BY <1>1, HeadTyped DEF EmitterFacts
  <2>2. nd.right \in OperandsOf(n)
    BY <1>1 DEF OperandsOf
  <2>3. QED
    BY <1>1, <2>1, <2>2 DEF TypeOf
<1>3. /\ p \in Points /\ q \in Points /\ q.eax = "ANY"
      /\ Needs(todo[1], p) /\ Weakens(After(todo[1], p), q)
  BY <1>1, HeadLeads
<1>4. /\ p.d >= 1 /\ p.slot[p.d] = t
      /\ After(todo[1], p) = Pushed(Popped(p), "INT")
  BY <1>1, <1>2, <1>3 DEF Needs, After
<1>. HIDE DEF n, nd, p, q, t
<1>5. Takes(NotEnd(t), L, S, m_BPOffset', p, q)
  BY <1>2, <1>3, <1>4, NotEndTakes
<1>6. ~ Doomed /\ ~ FinishesLogic(todo[1])
  BY <1>1 DEF Doomed, Task, FinishesLogic, nd, n
<1>7. QED
  BY <1>1, <1>5, <1>6 DEF Written, p, q

(* The call that prints a statement. *)
LEMMA PrintStatementTyped ==
  ASSUME EmitterFacts, PrintStatement,
         NEW L, NEW S, NEW g \in Seq(Points), Leads(g)
  PROVE  Written(L, S, g)
<1>. DEFINE n == todo[1].node
            t == value_type[n]
            p == g[1]
            q == g[2]
<1>1. /\ todo # <<>> /\ todo[1].do = "print" /\ n # nullptr
      /\ todo' = Tail(todo) /\ m_BPOffset' = m_BPOffset
      /\ code' = code \o PrintValue(t)
  BY DEF PrintStatement, Emitting, Write
<1>2. t \in {"INT", "FLOAT"}
  BY <1>1, HeadTyped DEF EmitterFacts
<1>3. /\ p \in Points /\ q \in Points /\ Needs(todo[1], p) /\ Weakens(After(todo[1], p), q)
  BY <1>1, HeadLeads
<1>4. /\ p.c + 1 \in 1 .. Len(prog.root) /\ value_type[prog.root[p.c + 1]] = t
      /\ p.d = Level(p.c) + 1 /\ p.slot[p.d] = t
      /\ After(todo[1], p) = AtStatement(p.c + 1)
  BY <1>1, <1>3 DEF Needs, After
<1>. HIDE DEF n, p, q, t
<1>5. Takes(PrintValue(t), L, S, m_BPOffset', p, q)
  BY <1>2, <1>3, <1>4, PrintTakes
<1>6. ~ Doomed /\ ~ FinishesLogic(todo[1])
  BY <1>1 DEF Doomed, Task, FinishesLogic, n
<1>7. QED
  BY <1>1, <1>5, <1>6 DEF Written, p, q

(* The places of the variables are kept where no variable is added. *)
LEMMA VariablesKept ==
  ASSUME NEW S, TypedVariables(S), UNCHANGED <<m_VarTable, m_BPOffset>>
  PROVE  TypedVariables(S)'
  BY DEF TypedVariables

(* The block is written, with S2 the kinds of the frame then. *)
Extended(L, S, S2, g) ==
  /\ Written(L, S2, g)
  /\ TypedVariables(S2)'
  /\ \A o \in 1 .. m_BPOffset - 4 : S2[o] = S[o]

(* An assignment gives the slot it takes the type of the value. *)
LEMMA FinishAssignTyped ==
  ASSUME EmitterFacts, FinishAssign,
         NEW L, NEW S \in [Nat -> Kinds], TypedVariables(S), NEW g \in Seq(Points), Leads(g)
  PROVE  \E S2 \in [Nat -> Kinds] : Extended(L, S, S2, g)
<1>. DEFINE n == todo[1].node
            nd == Node(n)
            t == value_type[n]
            o == m_BPOffset
            p == g[1]
            q == g[2]
<1>1. /\ todo # <<>> /\ todo[1].do = "finish" /\ n # nullptr
      /\ nd.type = "ASSIGN"
      /\ todo' = Tail(todo) /\ m_BPOffset' = m_BPOffset + 4
      /\ code' = code \o AssignEnd(o)
  BY DEF FinishAssign, OnNode, Emitting, Write
<1>2. /\ t \in {"INT", "FLOAT"} /\ value_type[nd.right] = t /\ nd.name \in Names
  <2>1. /\ value_type[n] = TypeOf(n) /\ value_type[n] \in {"INT", "FLOAT"}
        /\ WellFormed(prog.node, n)
    BY <1>1, HeadTyped DEF EmitterFacts
  <2>2. QED
    BY <1>1, <2>1 DEF TypeOf, WellFormed, Node
<1>3. /\ p \in Points /\ q \in Points /\ q.eax = "ANY"
      /\ Needs(todo[1], p) /\ Weakens(After(todo[1], p), q)
  BY <1>1, HeadLeads
<1>4. /\ p.d >= 1 /\ p.slot[p.d] = t
      /\ After(todo[1], p) = Pushed(Popped(p), t)
  BY <1>1, <1>2, <1>3 DEF Needs, After
<1>5. o \in Nat /\ o >= 4
  BY DEF EmitterFacts, EmitterInv, CompilerTypeOK
<1>6. PICK S2 \in [Nat -> Kinds] : S2[o] = t /\ \A i \in 1 .. o - 4 : S2[i] = S[i]
  <2>1. t \in Kinds
    BY <1>2 DEF Kinds
  <2>. HIDE DEF t
  <2>2. [S EXCEPT ![o] = t] \in [Nat -> Kinds]
    BY <2>1
  <2>3. [S EXCEPT ![o] = t][o] = t /\ \A i \in 1 .. o - 4 : [S EXCEPT ![o] = t][i] = S[i]
    BY <1>5
  <2>4. QED
    BY <2>2, <2>3
<1>7. TypedVariables(S2)'
  <2>1. \A y \in Names :
          m_VarTable'[y] = IF y = nd.name /\ m_VarTable[y].offset = 0
                             THEN [offset |-> o, type |-> t]
                             ELSE m_VarTable[y]
    BY FinishAssignStep DEF EmitterFacts
  <2>2. ASSUME NEW x \in Names, m_VarTable'[x].offset # 0
        PROVE  /\ m_VarTable'[x].offset \in 4 .. (o + 4) - 4
               /\ S2[m_VarTable'[x].offset] = m_VarTable'[x].type
    <3>1. CASE m_VarTable'[x] = [offset |-> o, type |-> t]
      <4>1. m_VarTable'[x].offset = o /\ m_VarTable'[x].type = t
        BY <3>1
      <4>2. QED
        BY <1>5, <1>6, <4>1
    <3>2. CASE m_VarTable'[x] = m_VarTable[x]
      <4>1. m_VarTable[x].offset \in 4 .. o - 4 /\ S[m_VarTable[x].offset] = m_VarTable[x].type
        BY <2>2, <3>2 DEF TypedVariables
      <4>2. m_VarTable[x].offset \in 1 .. o - 4 /\ m_VarTable[x].offset \in 4 .. (o + 4) - 4
        BY <1>5, <4>1
      <4>3. S2[m_VarTable[x].offset] = S[m_VarTable[x].offset]
        BY <1>6, <4>2
      <4>4. QED
        BY <3>2, <4>1, <4>2, <4>3
    <3>3. QED
      BY <2>1, <3>1, <3>2
  <2>3. (o + 4) - 4 = m_BPOffset' - 4
    BY <1>1
  <2>4. \A x \in Names : m_VarTable'[x].offset # 0 =>
          /\ m_VarTable'[x].offset \in 4 .. m_BPOffset' - 4
          /\ S2[m_VarTable'[x].offset] = m_VarTable'[x].type
    BY <2>2, <2>3
  <2>5. QED
    BY <2>4 DEF TypedVariables
<1>. HIDE DEF t, n, nd, p, q
<1>8. Takes(AssignEnd(o), L, S2, m_BPOffset', p, q)
  <2>. DEFINE B2 == m_BPOffset'
  <2>1. o \in 1 .. B2 - 4
    BY <1>1, <1>5
  <2>2. p.slot[p.d] = S2[o] /\ Weakens(Pushed(Popped(p), S2[o]), q)
    BY <1>3, <1>4, <1>6
  <2>. HIDE DEF B2, o
  <2>3. Takes(AssignEnd(o), L, S2, B2, p, q)
    BY <1>3, <1>4, <1>5, <1>6, <2>1, <2>2, AssignEndTakes
  <2>4. QED
    BY <2>3 DEF B2
<1>9. ~ Doomed /\ ~ FinishesLogic(todo[1])
  BY <1>1 DEF Doomed, Task, FinishesLogic, nd, n
<1>10. Written(L, S2, g)
  BY <1>1, <1>8, <1>9 DEF Written, p, q
<1>11. Extended(L, S, S2, g)
  BY <1>6, <1>7, <1>10 DEF Extended
<1>12. QED
  BY <1>11

(* A step that writes a block without jumps and labels: the code is typed.  *)
LEMMA PlainTyped ==
  ASSUME EmitterFacts, CompilerTypeOK',
         EvalNumber \/ EvalAccess \/ FinishBinop \/ FinishNot \/ FinishAssign \/ PrintStatement,
         NEW L \in [Nat -> Points], NEW S \in [Nat -> Kinds],
         NEW g \in Seq(Points), EmitTyped(L, S, g)
  PROVE  TypedTodo'
<1>1. Leads(g) /\ TypedVariables(S)
  BY DEF EmitTyped
<1>2. PlainSteps
  BY DEF PlainSteps
<1>3. /\ CompilerTypeOK /\ LabelInv /\ Shaped /\ m_BPOffset \in Nat
  BY DEF EmitterFacts, CompilerTypeOK
<1>4. UNCHANGED <<prog, value_type, m_IntCount, m_FloatCount, m_PtrCount, m_CurrentSubLabel>>
  BY DEF EvalNumber, EvalAccess, FinishBinop, FinishArith, FinishCmp, FinishNot, FinishAssign,
         PrintStatement, checkerVars
<1>5. \E S2 \in [Nat -> Kinds] : Extended(L, S, S2, g)
  <2>1. CASE FinishAssign
    BY <1>1, <2>1, FinishAssignTyped
  <2>2. CASE EvalNumber \/ EvalAccess \/ FinishBinop \/ FinishNot \/ PrintStatement
    <3>1. Written(L, S, g)
      BY <1>1, <2>2, EvalNumberTyped, EvalAccessTyped, FinishBinopTyped, FinishNotTyped,
         PrintStatementTyped
    <3>2. UNCHANGED <<m_VarTable, m_BPOffset>>
      BY <2>2 DEF EvalNumber, EvalAccess, FinishBinop, FinishArith, FinishCmp, FinishNot,
                  PrintStatement
    <3>3. TypedVariables(S)'
      BY <1>1, <3>2, VariablesKept
    <3>4. Extended(L, S, S, g)
      BY <3>1, <3>3 DEF Extended
    <3>5. QED
      BY <3>4
  <2>3. QED
    BY <2>1, <2>2
<1>6. m_BPOffset' >= m_BPOffset
  BY <1>3 DEF EvalNumber, EvalAccess, FinishBinop, FinishArith, FinishCmp, FinishNot,
              FinishAssign, PrintStatement
<1>7a. PICK S2 \in [Nat -> Kinds] : Extended(L, S, S2, g)
  BY <1>5
<1>7. /\ Written(L, S2, g)
      /\ TypedVariables(S2)'
      /\ \A o \in 1 .. m_BPOffset - 4 : S2[o] = S[o]
  BY <1>7a DEF Extended
<1>8. PICK b : code' = code \o b /\ Takes(b, L, S2, m_BPOffset', g[1], g[2])
  BY <1>7 DEF Written
<1>9. todo # <<>> /\ todo' = Tail(todo) /\ ~ FinishesLogic(todo[1]) /\ ~ Doomed
  BY <1>7 DEF Written
<1>10. QED
  BY <1>2, <1>3, <1>4, <1>6, <1>7, <1>8, <1>9, PlainPop

(* Behind the right operand of a && or || the stack is one word deeper than *)
(* behind its test: r, without its last word, is what the test leaves.     *)
LEMMA OperandOver ==
  ASSUME NEW p \in Points, NEW q \in Points, NEW r \in Points, p.d >= 1, r.d >= 1,
         NEW t \in Kinds, r.eax = "ANY",
         Weakens(Popped(p), q), Weakens(Pushed(q, t), r)
  PROVE  Popped(r) \in Points /\ Weakens(Moved(p, p.d - 1), Popped(r))
<1>1. /\ Popped(p).d = p.d - 1 /\ Popped(p).c = p.c
      /\ \A i \in Places : Popped(p).slot[i] = IF i = p.d THEN "ANY" ELSE p.slot[i]
  BY PoppedParts
<1>2. /\ Pushed(q, t).d = q.d + 1 /\ Pushed(q, t).c = q.c
      /\ \A i \in Places : Pushed(q, t).slot[i] = IF i = q.d + 1 THEN t ELSE q.slot[i]
  BY PushedParts
<1>3. /\ Popped(r) \in Points /\ Popped(r).d = r.d - 1 /\ Popped(r).c = r.c
      /\ Popped(r).eax = r.eax
      /\ \A i \in Places : Popped(r).slot[i] = IF i = r.d THEN "ANY" ELSE r.slot[i]
  BY PoppedParts
<1>4. q.d = p.d - 1 /\ q.c = p.c /\ r.d = q.d + 1 /\ r.c = q.c
  BY <1>1, <1>2 DEF Weakens
<1>5. ASSUME NEW i \in Places
      PROVE  Popped(r).slot[i] \in {"ANY", p.slot[i]}
  <2>1. q.slot[i] \in {"ANY", Popped(p).slot[i]} /\ r.slot[i] \in {"ANY", Pushed(q, t).slot[i]}
    BY DEF Weakens
  <2>2. QED
    BY <1>1, <1>2, <1>3, <1>4, <2>1
<1>6. /\ p.d - 1 \in Nat
      /\ Moved(p, p.d - 1).d = p.d - 1 /\ Moved(p, p.d - 1).c = p.c
      /\ Moved(p, p.d - 1).slot = p.slot
  <2>1. p.d - 1 \in Nat
    BY PointParts
  <2>2. QED
    BY <2>1, MovedParts
<1>7. QED
  <2>1. q.d = p.d - 1 /\ r.d - 1 = p.d - 1
    BY <1>4, PointParts
  <2>2. QED
    BY <1>3, <1>4, <1>5, <1>6, <2>1 DEF Weakens

(* The right operand of a node is inner to it. *)
LEMMA RightInner ==
  ASSUME IsProgram(prog), InTextOrder(prog), NEW n \in Ids, Node(n).type = "BINOP"
  PROVE  Inner(Task("eval", Node(n).right), n)
<1>1. n \in 1 .. Len(prog.node)
  BY DEF Ids
<1>2. /\ n \in Nat
      /\ Node(n).right = n - 1 /\ Node(n).right \in 1 .. n - 1
      /\ Node(n).left \in 1 .. n - 1 /\ Node(n).left = FirstNode(prog)[Node(n).right] - 1
      /\ FirstNode(prog)[Node(n).right] \in 1 .. Node(n).right
  BY <1>1, TreesAdjoin DEF Node
<1>3. Node(n).right \in Ids
  BY OperandProperties
<1>4. /\ Node(n).left < Node(n).right /\ Node(n).right < n
      /\ Node(n).left < FirstNode(prog)[Node(n).right]
  BY <1>2
<1>5. QED
  BY <1>3, <1>4 DEF Inner, Task

(* The test of a left operand. *)
LEMMA TestLeftTyped ==
  ASSUME EmitterFacts, CompilerTypeOK', TestLeft,
         NEW L \in [Nat -> Points], NEW S \in [Nat -> Kinds],
         NEW g \in Seq(Points), EmitTyped(L, S, g)
  PROVE  TypedTodo'
<1>. DEFINE n == todo[1].node
            nd == Node(n)
            l == m_CurrentSubLabel
            t == value_type[nd.left]
            B == m_BPOffset
            p == g[1]
            q == g[2]
            r == g[3]
            h == Tail(g)
            b == LogicTest(nd.op, t, l)
<1>1. /\ todo # <<>> /\ todo[1].do = "test" /\ n # nullptr /\ nd.type = "BINOP"
      /\ todo' = Tail(todo) /\ code' = code \o b
      /\ UNCHANGED <<prog, value_type, m_IntCount, m_FloatCount, m_PtrCount,
                     m_CurrentSubLabel, m_VarTable, m_BPOffset>>
  BY DEF TestLeft, OnNode, Emitting, Write, checkerVars
<1>2. /\ code \in Seq(Instructions) /\ todo \in Seq(Tasks) /\ B \in Nat
      /\ l \in Nat /\ Consistent(code, l) /\ IsProgram(prog) /\ InTextOrder(prog)
      /\ CompilerTypeOK /\ Shaped
  BY DEF EmitterFacts, CompilerTypeOK, CheckerTypeOK, LabelInv, Tasks
<1>3. Leads(g) /\ Waits(L, g) /\ TypedVariables(S) /\ (~ Doomed => TypedTo(code, L, S, B, p))
  BY DEF EmitTyped
<1>4. /\ 3 \in 1 .. Len(todo) /\ n \in Ids /\ Logic(n)
      /\ todo[2] = Task("eval", nd.right) /\ todo[3] = Task("finish", n)
  <2>1. 1 \in 1 .. Len(todo)
    BY <1>1, <1>2, HeadOfStack
  <2>2. /\ 1 + 2 \in 1 .. Len(todo) /\ n \in Ids /\ Logic(n)
        /\ todo[1 + 1] = Task("eval", nd.right) /\ todo[1 + 2] = Task("finish", n)
    BY <1>1, <1>2, <2>1 DEF Shaped
  <2>3. QED
    BY <2>2
<1>5. t \in {"INT", "FLOAT"} /\ nd.op \in LogicOps
  <2>1. \A o \in OperandsOf(n) : value_type[o] \in {"INT", "FLOAT"}
    BY <1>1, HeadTyped DEF EmitterFacts
  <2>2. nd.left \in OperandsOf(n)
    BY <1>1 DEF OperandsOf
  <2>3. QED
    BY <1>4, <2>1, <2>2 DEF Logic
<1>6. /\ p \in Points /\ q \in Points /\ q.eax = "ANY"
      /\ Needs(todo[1], p) /\ Weakens(After(todo[1], p), q)
      /\ Len(g) = Len(todo) + 1 /\ Len(todo) \in Nat
  BY <1>1, <1>3, HeadLeads
<1>7. p.d >= 1 /\ p.slot[p.d] = t /\ Weakens(Popped(p), q)
  BY <1>1, <1>6 DEF Needs, After
<1>8. r \in Points /\ r.eax = "ANY" /\ r.d >= 1 /\ Weakens(Pushed(q, TypeAt(nd.right)), r)
  <2>1. 2 \in 1 .. Len(todo) /\ 3 \in 1 .. Len(todo) + 1
    BY <1>4
  <2>2. r \in Points
    BY <1>6, <2>1, ElementOfSeq
  <2>3. Canonical(r) /\ Needs(todo[3], r) /\ Weakens(After(todo[2], q), g[2 + 1])
    BY <1>3, <1>4, <2>1 DEF Leads
  <2>4. After(todo[2], q) = Pushed(q, TypeAt(nd.right))
    BY <1>4 DEF After, Task
  <2>5. r.d >= 1
    BY <1>4, <2>3 DEF Needs, Task
  <2>6. QED
    BY <2>2, <2>3, <2>4, <2>5 DEF Canonical
<1>9. Popped(r) \in Points /\ Weakens(Moved(p, p.d - 1), Popped(r)) /\ Weakens(Moved(p, p.d - 1), q)
  <2>1. TypeAt(nd.right) \in Kinds
    <3>1. \A o \in OperandsOf(n) : value_type[o] \in {"INT", "FLOAT"}
      BY <1>1, HeadTyped DEF EmitterFacts
    <3>2. nd.right \in OperandsOf(n)
      BY <1>1 DEF OperandsOf
    <3>3. QED
      BY <3>1, <3>2 DEF TypeAt, Kinds
  <2>. DEFINE tr == TypeAt(nd.right)
  <2>2. tr \in Kinds /\ Weakens(Pushed(q, tr), r)
    BY <1>8, <2>1
  <2>. HIDE DEF p, q, r, tr
  <2>3. Popped(r) \in Points /\ Weakens(Moved(p, p.d - 1), Popped(r))
    BY <1>6, <1>7, <1>8, <2>2, OperandOver
  <2>4. Weakens(Moved(p, p.d - 1), q)
    <3>1. /\ Popped(p) \in Points /\ Popped(p).d = p.d - 1 /\ Popped(p).c = p.c
          /\ \A i \in Places : Popped(p).slot[i] = IF i = p.d THEN "ANY" ELSE p.slot[i]
      BY <1>6, <1>7, PoppedParts
    <3>2. p.d - 1 \in Nat
      BY <1>6, <1>7, PointParts
    <3>3. /\ Moved(p, p.d - 1) \in Points /\ Moved(p, p.d - 1).d = p.d - 1
          /\ Moved(p, p.d - 1).c = p.c /\ Moved(p, p.d - 1).slot = p.slot
      BY <1>6, <3>2, MovedParts
    <3>4. \A j \in Places : Popped(p).slot[j] \in {"ANY", Moved(p, p.d - 1).slot[j]}
      BY <3>1, <3>3
    <3>5. QED
      BY <1>6, <1>7, <3>1, <3>3, <3>4, WeakensLike
  <2>5. QED
    BY <2>3, <2>4
<1>10. ~ Waiting(code, l)
  <2>1. SUFFICES ASSUME Waiting(code, l)
                 PROVE  FALSE
    OBVIOUS
  <2>2. PICK k \in 1 .. Len(todo) :
          FinishesLogic(todo[k]) /\ \A i \in 1 .. k - 1 : Inner(todo[i], todo[k].node)
    BY <1>3, <2>1 DEF Waits
  <2>3. k # 1
    BY <1>1, <2>2 DEF FinishesLogic
  <2>4. 1 \in 1 .. k - 1
    BY <1>6, <2>3
  <2>5. Inner(todo[1], todo[k].node)
    BY <2>2, <2>4
  <2>6. QED
    BY <1>1, <2>5 DEF Inner
<1>11. PICK L2 \in [Nat -> Points] :
         L2[l] = Popped(r) /\ \A i \in Nat : i # l => L2[i] = L[i]
  <2>1. [L EXCEPT ![l] = Popped(r)] \in [Nat -> Points]
    BY <1>9
  <2>2. [L EXCEPT ![l] = Popped(r)][l] = Popped(r)
        /\ \A i \in Nat : i # l => [L EXCEPT ![l] = Popped(r)][i] = L[i]
    BY <1>2
  <2>3. QED
    BY <2>1, <2>2
<1>12. SameLabels(code, L, L2)
  <2>1. ASSUME NEW i \in Labels(code) \cup Jumps(code)
        PROVE  code[i].a.n \in Nat /\ code[i].a.n # l
    BY <1>2, <1>10 DEF Consistent, Waiting
  <2>2. QED
    BY <1>11, <2>1 DEF SameLabels
<1>13. ~ Doomed
  BY <1>1 DEF Doomed, Task
<1>14. TypedTo(code \o b, L2, S, B, q)
  <2>1. SameFrame(S, S, B, B) /\ TypedTo(code, L, S, B, p)
    BY <1>2, <1>3, <1>13 DEF SameFrame
  <2>2. (IF nd.op = "KW_AND" THEN "JE" ELSE "JNE") \in JumpOps
    BY DEF JumpOps
  <2>. DEFINE jump == IF nd.op = "KW_AND" THEN "JE" ELSE "JNE"
  <2>3. b = TestJump(t, jump, l)
    BY DEF LogicTest
  <2>4. Weakens(Moved(p, p.d - 1), L2[l])
    BY <1>9, <1>11
  <2>. HIDE DEF B, p, q, t, jump, l, b
  <2>5. TypedTo(code, L2, S, B, p)
    BY <1>2, <1>12, <2>1, TypedKept
  <2>6. Takes(TestJump(t, jump, l), L2, S, B, p, q)
    BY <1>2, <1>5, <1>6, <1>7, <1>9, <2>2, <2>4, TestJumpTakes DEF jump
  <2>7. Takes(b, L2, S, B, p, q)
    BY <2>3, <2>6
  <2>8. QED
    BY <1>2, <2>5, <2>7, TypedAppend
<1>15. /\ h \in Seq(Points) /\ Leads(h)'
       /\ \A k \in 1 .. Len(todo) : h[k] = g[k + 1]
       /\ \A k \in 1 .. Len(todo') : todo'[k] = todo[k + 1]
       /\ Len(todo') = Len(todo) - 1
  BY <1>1, <1>2, <1>3, LeadsPopped
<1>. HIDE DEF h
<1>16. h[1] = q /\ h[2] = r /\ 2 \in 1 .. Len(todo') /\ todo'[1] = todo[2] /\ todo'[2] = todo[3]
  <2>1. /\ 1 \in 1 .. Len(todo) /\ 2 \in 1 .. Len(todo)
        /\ 1 \in 1 .. Len(todo') /\ 2 \in 1 .. Len(todo')
    BY <1>4, <1>6, <1>15
  <2>2. h[1] = g[1 + 1] /\ h[2] = g[2 + 1] /\ todo'[1] = todo[1 + 1] /\ todo'[2] = todo[2 + 1]
    BY <1>15, <2>1
  <2>3. QED
    BY <2>1, <2>2
<1>17. Waits(L2, h)'
  <2>1. Inner(Task("eval", nd.right), n)
    BY <1>1, <1>2, <1>4, RightInner
  <2>2. FinishesLogic(Task("finish", n))
    BY <1>1, <1>5 DEF FinishesLogic, Task
  <2>3. /\ \A x : FinishesLogic(x)' <=> FinishesLogic(x)
        /\ \A x, y : Inner(x, y)' <=> Inner(x, y)
    <3>1. \A x : (FinishesLogic(x)' <=> FinishesLogic(x))
      BY <1>1 DEF FinishesLogic, Node
    <3>2. \A x, y : (Inner(x, y)' <=> Inner(x, y))
      BY <1>1, NeedsSame
    <3>3. QED
      BY <3>1, <3>2
  <2>4. FinishesLogic(todo'[2]) /\ Inner(todo'[1], todo'[2].node)
    <3>1. Task("finish", n).node = n
      BY DEF Task
    <3>2. QED
      BY <1>4, <1>16, <2>1, <2>2, <3>1
  <2>5. L2[m_CurrentSubLabel'] = Popped(h[2])
    BY <1>1, <1>11, <1>16
  <2>6. \A i \in 1 .. 2 - 1 : i = 1
    OBVIOUS
  <2>7. \A i \in 1 .. 2 - 1 : Inner(todo'[i], todo'[2].node)
    BY <2>4, <2>6
  <2>8. \E k \in 1 .. Len(todo') :
           /\ FinishesLogic(todo'[k])
           /\ L2[m_CurrentSubLabel'] = Popped(h[k])
           /\ \A i \in 1 .. k - 1 : Inner(todo'[i], todo'[k].node)
    BY <1>16, <2>4, <2>5, <2>7
  <2>9. QED
    BY <2>3, <2>8 DEF Waits
<1>18. TypedVariables(S)'
  BY <1>1, <1>3, VariablesKept
<1>19. TypedTo(code, L2, S, m_BPOffset, h[1])'
  <2>1. TypedTo(code', L2, S, B, h[1])
    BY <1>1, <1>14, <1>16
  <2>2. m_BPOffset' = B
    BY <1>1
  <2>. HIDE DEF B
  <2>3. QED
    BY <1>1, <2>1, <2>2, TypedToSame
<1>20. EmitTyped(L2, S, h)'
  BY <1>15, <1>17, <1>18, <1>19 DEF EmitTyped
<1>21. Shaped'
  BY <1>1, <1>2, ShapedPopped
<1>22. QED
  BY <1>15, <1>20, <1>21 DEF TypedTodo

(* A jump that waits when a && or || ends waits for this end: the one that  *)
(* it waits for contains no other in its right operand.                    *)
LEMMA WaitsForThis ==
  ASSUME EmitterFacts, todo # <<>>, FinishesLogic(todo[1]), NEW L, NEW g, Waits(L, g),
         Waiting(code, m_CurrentSubLabel)
  PROVE  L[m_CurrentSubLabel] = Popped(g[1])
<1>1. todo \in Seq(Tasks) /\ Unnested(prog)
  BY DEF EmitterFacts, CompilerTypeOK, Tasks
<1>2. PICK k \in 1 .. Len(todo) :
        /\ FinishesLogic(todo[k])
        /\ L[m_CurrentSubLabel] = Popped(g[k])
        /\ \A i \in 1 .. k - 1 : Inner(todo[i], todo[k].node)
  BY DEF Waits
<1>. DEFINE n == todo[1].node
            m == todo[k].node
<1>3. SUFFICES ASSUME k # 1
               PROVE  FALSE
  BY <1>2
<1>4. 1 \in 1 .. k - 1
  BY <1>1, <1>3, LenProperties
<1>5. Inner(todo[1], m)
  BY <1>2, <1>4
<1>6. /\ m \in Ids /\ n \in Ids /\ Node(m).left < n /\ n < m
      /\ Node(n).op \in LogicOps /\ Node(m).op \in LogicOps
  <2>1. todo[k] \in Tasks
    BY <1>1, ElementOfSeq
  <2>2. m \in Ids
    BY <1>2, <2>1 DEF FinishesLogic, Tasks
  <2>3. n \in Ids /\ Node(m).left < n /\ n < m
    BY <1>5 DEF Inner
  <2>4. QED
    BY <1>2, <2>2, <2>3 DEF FinishesLogic
<1>7. IsProgram(prog) /\ Node(m).type = "BINOP"
  BY <1>2 DEF EmitterFacts, CompilerTypeOK, CheckerTypeOK, FinishesLogic
<1>8. Node(m).left \in Ids
  BY <1>6, <1>7, OperandProperties
<1>. HIDE DEF n, m
<1>9. n \in Node(m).left + 1 .. m - 1
  <2>1. Node(m).left \in Int /\ n \in Int /\ m \in Int
    BY <1>6, <1>8 DEF Ids
  <2>2. QED
    BY <1>6, <2>1
<1>10. Node(n).op \notin LogicOps
  <2>1. m \in 1 .. Len(prog.node)
    BY <1>6 DEF Ids
  <2>2. \A i \in prog.node[m].left + 1 .. m - 1 : prog.node[i].op \notin LogicOps
    BY <1>1, <1>6, <2>1 DEF Unnested, Node
  <2>3. QED
    BY <1>9, <2>2 DEF Node
<1>11. QED
  BY <1>6, <1>10

(* The end of a && or a ||. *)
LEMMA FinishLogicTyped ==
  ASSUME EmitterFacts, CompilerTypeOK', FinishLogic,
         NEW L \in [Nat -> Points], NEW S \in [Nat -> Kinds],
         NEW g \in Seq(Points), EmitTyped(L, S, g)
  PROVE  TypedTodo'
<1>. DEFINE n == todo[1].node
            nd == Node(n)
            l == m_CurrentSubLabel
            t == value_type[nd.right]
            B == m_BPOffset
            p == g[1]
            q == g[2]
            h == Tail(g)
            b == LogicEnd(nd.op, t, l)
<1>1. /\ todo # <<>> /\ todo[1].do = "finish" /\ n # nullptr /\ nd.type = "BINOP"
      /\ nd.op \in LogicOps
      /\ todo' = Tail(todo) /\ code' = code \o b
      /\ m_CurrentSubLabel' = l + LabelsOf(nd.op)
      /\ UNCHANGED <<prog, value_type, m_IntCount, m_FloatCount, m_PtrCount,
                     m_VarTable, m_BPOffset>>
  BY DEF FinishLogic, OnNode, Emitting, Write, checkerVars
<1>2. /\ code \in Seq(Instructions) /\ todo \in Seq(Tasks) /\ B \in Nat
      /\ l \in Nat /\ Consistent(code, l)
      /\ CompilerTypeOK /\ Shaped
  BY DEF EmitterFacts, CompilerTypeOK, LabelInv, Tasks
<1>3. Leads(g) /\ Waits(L, g) /\ TypedVariables(S) /\ (~ Doomed => TypedTo(code, L, S, B, p))
  BY DEF EmitTyped
<1>4. t \in {"INT", "FLOAT"} /\ value_type[n] = "INT"
  <2>1. value_type[n] = TypeOf(n) /\ \A o \in OperandsOf(n) : value_type[o] \in {"INT", "FLOAT"}
    BY <1>1, HeadTyped DEF EmitterFacts
  <2>2. nd.right \in OperandsOf(n)
    BY <1>1 DEF OperandsOf
  <2>3. nd.op \notin ArithOps
    BY <1>1 DEF LogicOps, ArithOps
  <2>4. QED
    BY <1>1, <2>1, <2>2, <2>3 DEF TypeOf, BinOpType
<1>5. /\ p \in Points /\ q \in Points /\ p.eax = "ANY" /\ q.eax = "ANY"
      /\ Needs(todo[1], p) /\ Weakens(After(todo[1], p), q)
  BY <1>1, <1>3, HeadLeads
<1>6. p.d >= 1 /\ p.slot[p.d] = t /\ Weakens(Pushed(Popped(p), "INT"), q)
  BY <1>1, <1>4, <1>5 DEF Needs, After, Logic
<1>7. Popped(p) \in Points /\ InEAX(Popped(p), "INT") \in Points
  <2>. HIDE DEF p
  <2>1. Popped(p) \in Points
    BY <1>5, <1>6, PoppedParts
  <2>2. QED
    BY <2>1, EAXParts, KindType
<1>8. PICK L2 \in [Nat -> Points] :
        /\ L2[l] = Popped(p)
        /\ L2[l + 1] = IF nd.op = "KW_AND" THEN InEAX(Popped(p), "INT") ELSE Popped(p)
        /\ L2[l + 2] = InEAX(Popped(p), "INT")
        /\ \A i \in 0 .. l - 1 : L2[i] = L[i]
  <2>. DEFINE a == Popped(p)
              c == InEAX(a, "INT")
              m == IF nd.op = "KW_AND" THEN c ELSE a
              L3 == [i \in Nat |-> IF i = l THEN a ELSE IF i = l + 1 THEN m
                                   ELSE IF i = l + 2 THEN c ELSE L[i]]
  <2>1. a \in Points /\ c \in Points /\ m \in Points
    BY <1>7
  <2>. HIDE DEF a, c, m, l
  <2>2. L3 \in [Nat -> Points]
    BY <2>1
  <2>3. l \in Nat
    BY <1>2
  <2>4. L3[l] = a /\ L3[l + 1] = m /\ L3[l + 2] = c /\ \A i \in 0 .. l - 1 : L3[i] = L[i]
    BY <2>3
  <2>. HIDE DEF L3
  <2>5. QED
    BY <2>2, <2>4 DEF a, c, m
<1>9. SameLabels(code, L, L2)
  <2>1. ASSUME NEW i \in Labels(code) \cup Jumps(code)
        PROVE  \/ code[i].a.n \in 0 .. l - 1
               \/ code[i].a.n = l /\ Waiting(code, l)
    BY <1>2 DEF Consistent, Waiting
  <2>2. Waiting(code, l) => L[l] = Popped(p)
    BY <1>1, <1>3, WaitsForThis DEF FinishesLogic
  <2>3. QED
    BY <1>8, <2>1, <2>2 DEF SameLabels
<1>10. ~ Doomed
  BY <1>1 DEF Doomed, Task
<1>11. TypedTo(code \o b, L2, S, B, q)
  <2>1. SameFrame(S, S, B, B) /\ TypedTo(code, L, S, B, p)
    BY <1>2, <1>3, <1>10 DEF SameFrame
  <2>. HIDE DEF B, p, q, t, l, b
  <2>2. TypedTo(code, L2, S, B, p)
    BY <1>2, <1>9, <2>1, TypedKept
  <2>3. Takes(b, L2, S, B, p, q)
    <3>1. CASE nd.op = "KW_AND"
      <4>1. L2[l] = Popped(p) /\ L2[l + 1] = InEAX(Popped(p), "INT")
        BY <1>8, <3>1
      <4>2. Takes(AndEnd(t, l), L2, S, B, p, q)
        BY <1>2, <1>4, <1>5, <1>6, <4>1, AndEndTakes
      <4>3. QED
        BY <3>1, <4>2 DEF LogicEnd, b
    <3>2. CASE nd.op # "KW_AND"
      <4>1. L2[l] = Popped(p) /\ L2[l + 1] = Popped(p) /\ L2[l + 2] = InEAX(Popped(p), "INT")
        BY <1>8, <3>2
      <4>2. Takes(OrEnd(t, l), L2, S, B, p, q)
        BY <1>2, <1>4, <1>5, <1>6, <4>1, OrEndTakes
      <4>3. QED
        BY <3>2, <4>2 DEF LogicEnd, b
    <3>3. QED
      BY <3>1, <3>2
  <2>4. QED
    BY <1>2, <2>2, <2>3, TypedAppend
<1>12. ~ Waiting(code', m_CurrentSubLabel')
  <2>. DEFINE op == nd.op
  <2>. HIDE DEF l, t, op
  <2>1. op \in LogicOps /\ LabelsOf(op) \in Nat \ {0}
    BY <1>1 DEF LabelsOf, op
  <2>2. LogicBlock(LogicEnd(op, t, l), l, l + LabelsOf(op) - 1)
    BY <1>2, <2>1, LogicEndShape
  <2>3. ~ Waiting(code \o LogicEnd(op, t, l), l + LabelsOf(op))
    BY <1>2, <2>1, <2>2, AppendLogic
  <2>4. QED
    BY <1>1, <2>3 DEF op
<1>13. /\ h \in Seq(Points) /\ Leads(h)'
       /\ Len(todo) >= 1 /\ \A k \in 1 .. Len(todo) : h[k] = g[k + 1]
  BY <1>1, <1>2, <1>3, LeadsPopped
<1>. HIDE DEF h
<1>14. h[1] = q
  <2>1. 1 \in 1 .. Len(todo)
    BY <1>1, <1>2, HeadOfStack
  <2>2. h[1] = g[1 + 1]
    BY <1>13, <2>1
  <2>3. QED
    BY <2>2
<1>15. Waits(L2, h)'
  BY <1>12 DEF Waits
<1>16. TypedVariables(S)'
  BY <1>1, <1>3, VariablesKept
<1>17. TypedTo(code, L2, S, m_BPOffset, h[1])'
  <2>1. TypedTo(code', L2, S, B, h[1])
    BY <1>1, <1>11, <1>14
  <2>2. m_BPOffset' = B
    BY <1>1
  <2>. HIDE DEF B
  <2>3. QED
    BY <1>1, <2>1, <2>2, TypedToSame
<1>18. EmitTyped(L2, S, h)'
  BY <1>13, <1>15, <1>16, <1>17 DEF EmitTyped
<1>19. Shaped'
  BY <1>1, <1>2, ShapedPopped
<1>20. QED
  BY <1>13, <1>18, <1>19 DEF TypedTodo

(* Points are equal when their parts are. *)
LEMMA PointEqual ==
  ASSUME NEW p \in Points, NEW q \in Points, p.d = q.d, p.c = q.c, p.eax = q.eax,
         \A j \in Places : p.slot[j] = q.slot[j]
  PROVE  p = q
<1>1. p.slot = q.slot
  <2>1. p.slot \in [Places -> Kinds] /\ q.slot \in [Places -> Kinds]
    BY DEF Points
  <2>2. QED
    BY <2>1
<1>2. p = [d |-> p.d, c |-> p.c, eax |-> p.eax, slot |-> p.slot]
      /\ q = [d |-> q.d, c |-> q.c, eax |-> q.eax, slot |-> q.slot]
  BY DEF Points
<1>3. QED
  BY <1>1, <1>2

(* A word that is pushed and then popped leaves nothing. *)
LEMMA PushedAndPopped ==
  ASSUME NEW p \in Points, Canonical(p), NEW t \in Kinds
  PROVE  /\ Pushed(p, t) \in Points /\ Canonical(Pushed(p, t))
         /\ Pushed(p, t).d >= 1 /\ Pushed(p, t).d = p.d + 1
         /\ Pushed(p, t).slot[Pushed(p, t).d] = t
         /\ \A j \in Places : j <= p.d => Pushed(p, t).slot[j] = p.slot[j]
         /\ Popped(Pushed(p, t)) = p
<1>. DEFINE a == Pushed(p, t)
<1>1. p.d \in Nat
  BY PointParts
<1>2. /\ a \in Points /\ a.d = p.d + 1 /\ a.c = p.c /\ a.eax = p.eax
      /\ \A i \in Places : a.slot[i] = IF i = p.d + 1 THEN t ELSE p.slot[i]
  BY PushedParts
<1>3. p.d + 1 \in Places /\ p.d + 1 >= 1
  BY <1>1 DEF Places
<1>. HIDE DEF a
<1>4. /\ Popped(a) \in Points /\ Popped(a).d = a.d - 1 /\ Popped(a).c = a.c
      /\ Popped(a).eax = a.eax
      /\ \A i \in Places : Popped(a).slot[i] = IF i = a.d THEN "ANY" ELSE a.slot[i]
  BY <1>2, <1>3, PoppedParts
<1>5. \A j \in Places : Popped(a).slot[j] = p.slot[j]
  <2>1. p.slot[p.d + 1] = "ANY"
    BY <1>1, <1>3 DEF Canonical
  <2>2. QED
    BY <1>2, <1>4, <2>1
<1>6. Popped(a) = p
  <2>1. a.d - 1 = p.d
    BY <1>1, <1>2
  <2>2. QED
    BY <1>2, <1>4, <1>5, <2>1, PointEqual
<1>7. Canonical(a)
  <2>1. \A j \in Places : j > a.d => j # p.d + 1 /\ j > p.d
    BY <1>1, <1>2 DEF Places
  <2>2. QED
    BY <1>2, <2>1 DEF Canonical
<1>8. \A j \in Places : j <= p.d => a.slot[j] = p.slot[j]
  <2>1. \A j \in Places : j <= p.d => j # p.d + 1
    BY <1>1 DEF Places
  <2>2. QED
    BY <1>2, <2>1
<1>9. QED
  BY <1>2, <1>3, <1>6, <1>7, <1>8 DEF a

(* Activations s, one after the other, lead through the points w to q. *)
LeadsThrough(s, w, q) ==
  /\ s \in Seq(Tasks) /\ s # <<>>
  /\ w \in Seq(Points) /\ Len(w) = Len(s)
  /\ \A j \in 1 .. Len(s) : Canonical(w[j]) /\ Needs(s[j], w[j])
  /\ \A j \in 1 .. Len(s) - 1 : Weakens(After(s[j], w[j]), w[j + 1])
  /\ Weakens(After(s[Len(s)], w[Len(s)]), q)

(* The places of two joined sequences. *)
LEMMA JoinedPlaces ==
  ASSUME NEW T, NEW s \in Seq(T), NEW u \in Seq(T)
  PROVE  /\ s \o u \in Seq(T) /\ Len(s) \in Nat /\ Len(u) \in Nat /\ Len(s \o u) = Len(s) + Len(u)
         /\ \A i \in 1 .. Len(s) : (s \o u)[i] = s[i]
         /\ \A i \in 1 .. Len(u) : (s \o u)[Len(s) + i] = u[i]
<1>1. s \o u \in Seq(T) /\ Len(s) \in Nat /\ Len(u) \in Nat /\ Len(s \o u) = Len(s) + Len(u)
  BY ConcatProperties, LenProperties
<1>2. \A i \in 1 .. Len(s) + Len(u) : (s \o u)[i] = IF i <= Len(s) THEN s[i] ELSE u[i - Len(s)]
  BY ConcatProperties
<1>. DEFINE v == s \o u
<1>. HIDE DEF v
<1>3. \A i \in 1 .. Len(s) : i \in 1 .. Len(s) + Len(u) /\ i <= Len(s)
  BY <1>1
<1>4. \A i \in 1 .. Len(u) : Len(s) + i \in 1 .. Len(s) + Len(u) /\ ~ (Len(s) + i <= Len(s))
                             /\ (Len(s) + i) - Len(s) = i
  BY <1>1
<1>5. QED
  BY <1>1, <1>2, <1>3, <1>4

(* They take the place of the next activation. *)
LEMMA LeadsPushed ==
  ASSUME UNCHANGED <<prog, value_type>>, todo \in Seq(Tasks), todo # <<>>,
         NEW s, todo' = s \o Tail(todo), NEW g \in Seq(Points), Leads(g),
         NEW w, LeadsThrough(s, w, g[2])
  PROVE  LET h == w \o Tail(g) IN
           /\ h \in Seq(Points) /\ Leads(h)'
           /\ Len(s) \in Nat /\ Len(s) >= 1 /\ Len(todo) \in Nat /\ Len(todo) >= 1
           /\ h[1] = w[1]
           /\ \A k \in 1 .. Len(todo) : h[Len(s) + k] = g[k + 1]
           /\ Len(todo') = Len(s) + (Len(todo) - 1)
           /\ \A k \in 1 .. Len(s) : todo'[k] = s[k]
           /\ \A k \in 1 .. Len(todo) - 1 : todo'[Len(s) + k] = todo[k + 1]
<1>. DEFINE h == w \o Tail(g)
            M == Len(s)
            N == Len(todo)
<1>1. /\ N \in Nat /\ Len(Tail(todo)) = N - 1 /\ 1 \in 1 .. N /\ Tail(todo) \in Seq(Tasks)
      /\ \A i \in 1 .. Len(Tail(todo)) : i + 1 \in 1 .. N /\ Tail(todo)[i] = todo[i + 1]
  BY HeadOfStack
<1>2. Len(g) = N + 1
  BY DEF Leads
<1>3. g # <<>>
  <2>1. Len(g) # 0
    BY <1>1, <1>2
  <2>2. QED
    BY <2>1, EmptySeq
<1>4. /\ Tail(g) \in Seq(Points) /\ Len(Tail(g)) = N
      /\ \A i \in 1 .. N : Tail(g)[i] = g[i + 1]
  <2>1. /\ Tail(g) \in Seq(Points) /\ Len(Tail(g)) = Len(g) - 1
        /\ \A i \in 1 .. Len(Tail(g)) : i + 1 \in 1 .. Len(g) /\ Tail(g)[i] = g[i + 1]
    BY <1>3, HeadOfStack
  <2>2. QED
    BY <1>1, <1>2, <2>1
<1>5. /\ s \in Seq(Tasks) /\ s # <<>> /\ w \in Seq(Points) /\ Len(w) = M
      /\ M \in Nat /\ M >= 1
  <2>1. s \in Seq(Tasks) /\ s # <<>> /\ w \in Seq(Points) /\ Len(w) = M
    BY DEF LeadsThrough
  <2>2. Len(s) \in Nat /\ 1 \in 1 .. Len(s)
    BY <2>1, HeadOfStack
  <2>3. QED
    BY <2>1, <2>2
<1>6. /\ h \in Seq(Points) /\ Len(h) = M + N
      /\ \A i \in 1 .. M : h[i] = w[i]
      /\ \A i \in 1 .. N : h[M + i] = g[i + 1]
  <2>. DEFINE u == Tail(g)
  <2>0. u \in Seq(Points) /\ Len(u) = N /\ \A i \in 1 .. N : u[i] = g[i + 1]
    BY <1>4
  <2>. HIDE DEF u
  <2>1. /\ w \o u \in Seq(Points) /\ Len(w \o u) = Len(w) + Len(u)
        /\ \A i \in 1 .. Len(w) : (w \o u)[i] = w[i]
        /\ \A i \in 1 .. Len(u) : (w \o u)[Len(w) + i] = u[i]
    <3>1. w \in Seq(Points) /\ u \in Seq(Points)
      BY <1>5, <2>0
    <3>. HIDE DEF h, M, N
    <3>2. QED
      BY <3>1, JoinedPlaces
  <2>2. h = w \o u
    BY DEF u
  <2>. HIDE DEF h, M, N
  <2>3. QED
    BY <1>5, <2>0, <2>1, <2>2
<1>7. /\ Len(todo') = M + (N - 1)
      /\ \A i \in 1 .. M : todo'[i] = s[i]
      /\ \A i \in 1 .. N - 1 : todo'[M + i] = todo[i + 1]
  <2>. DEFINE u == Tail(todo)
  <2>1. /\ Len(s \o u) = Len(s) + Len(u)
        /\ \A i \in 1 .. Len(s) : (s \o u)[i] = s[i]
        /\ \A i \in 1 .. Len(u) : (s \o u)[Len(s) + i] = u[i]
    BY <1>1, <1>5, JoinedPlaces
  <2>2. Len(u) = N - 1 /\ \A i \in 1 .. N - 1 : u[i] = todo[i + 1]
    BY <1>1
  <2>3. todo' = s \o u
    OBVIOUS
  <2>. HIDE DEF u
  <2>4. QED
    BY <2>1, <2>2, <2>3
<1>. HIDE DEF h
<1>8. \A task, p : (Needs(task, p)' <=> Needs(task, p)) /\ After(task, p)' = After(task, p)
  BY NeedsSame
<1>9. ASSUME NEW k \in 1 .. Len(todo') + 1
      PROVE  \/ k \in 1 .. M /\ h[k] = w[k] /\ (k <= Len(todo') => todo'[k] = s[k])
             \/ /\ k > M /\ k - M \in 1 .. N /\ h[k] = g[(k - M) + 1] /\ (k - M) + 1 \in 1 .. N + 1
                /\ k <= Len(todo') => /\ todo'[k] = todo[(k - M) + 1] /\ (k - M) + 1 \in 1 .. N
  <2>1. CASE k \in 1 .. M
    BY <1>6, <1>7, <2>1
  <2>2. CASE k \notin 1 .. M
    <3>1. k > M /\ k - M \in 1 .. N /\ M + (k - M) = k /\ (k - M) + 1 \in 1 .. N + 1
          /\ k \in Int /\ Len(todo') \in Int
      BY <1>1, <1>5, <1>7, <2>2
    <3>2. h[M + (k - M)] = g[(k - M) + 1]
      BY <1>6, <3>1
    <3>3. k <= Len(todo') => k - M \in 1 .. N - 1 /\ (k - M) + 1 \in 1 .. N
      BY <1>1, <1>5, <1>7, <3>1
    <3>4. k <= Len(todo') => todo'[M + (k - M)] = todo[(k - M) + 1]
      BY <1>7, <3>3
    <3>5. QED
      BY <3>1, <3>2, <3>3, <3>4
  <2>3. QED
    BY <2>1, <2>2
<1>10. ASSUME NEW k \in 1 .. Len(todo') + 1
       PROVE  Canonical(h[k])
  <2>1. \A i \in 1 .. N + 1 : Canonical(g[i])
    BY DEF Leads
  <2>2. \A i \in 1 .. M : Canonical(w[i])
    BY DEF LeadsThrough
  <2>. HIDE DEF M, N
  <2>3. QED
    BY <1>9, <2>1, <2>2
<1>11. ASSUME NEW k \in 1 .. Len(todo')
       PROVE  Needs(todo'[k], h[k]) /\ Weakens(After(todo'[k], h[k]), h[k + 1])
  <2>1. k \in 1 .. Len(todo') + 1 /\ k <= Len(todo') /\ k \in Nat
    BY <1>1, <1>5, <1>7
  <2>2. CASE k \in 1 .. M
    <3>1. h[k] = w[k] /\ todo'[k] = s[k]
      BY <1>6, <1>7, <2>2
    <3>2. Needs(s[k], w[k])
      BY <2>2 DEF LeadsThrough
    <3>3. CASE k = M
      <4>1. 1 \in 1 .. N
        BY <1>1
      <4>2. h[M + 1] = g[1 + 1]
        BY <1>6, <4>1
      <4>3. Weakens(After(s[M], w[M]), g[2])
        BY DEF LeadsThrough
      <4>4. QED
        BY <3>1, <3>2, <3>3, <4>2, <4>3
    <3>4. CASE k # M
      <4>1. k \in 1 .. M - 1 /\ k + 1 \in 1 .. M
        BY <1>5, <2>2, <3>4
      <4>2. Weakens(After(s[k], w[k]), w[k + 1])
        BY <4>1 DEF LeadsThrough
      <4>3. h[k + 1] = w[k + 1]
        BY <1>6, <4>1
      <4>4. QED
        BY <3>1, <3>2, <4>2, <4>3
    <3>5. QED
      BY <3>3, <3>4
  <2>3. CASE k \notin 1 .. M
    <3>1. k - M \in 1 .. N - 1 /\ (k - M) + 1 \in 1 .. N /\ k - M \in 1 .. N
          /\ M + (k - M) = k /\ M + ((k - M) + 1) = k + 1
      BY <1>1, <1>5, <1>7, <2>1, <2>3
    <3>. DEFINE m == (k - M) + 1
    <3>2. todo'[M + (k - M)] = todo[m] /\ h[M + (k - M)] = g[m] /\ h[M + m] = g[m + 1]
      BY <1>6, <1>7, <3>1
    <3>3. Needs(todo[m], g[m]) /\ Weakens(After(todo[m], g[m]), g[m + 1])
      BY <3>1 DEF Leads
    <3>4. QED
      BY <3>1, <3>2, <3>3
  <2>4. QED
    BY <2>2, <2>3
<1>12. Leads(h)'
  <2>1. Len(h) = Len(todo') + 1
    BY <1>1, <1>5, <1>6, <1>7
  <2>2. QED
    BY <1>8, <1>10, <1>11, <2>1 DEF Leads
<1>13. h[1] = w[1]
  <2>1. 1 \in 1 .. M
    BY <1>5
  <2>2. QED
    BY <1>6, <2>1
<1>14. QED
  BY <1>1, <1>5, <1>6, <1>7, <1>12, <1>13 DEF h

(* Activations through points: four, three and two of them. *)
LEMMA FourLead ==
  ASSUME NEW s1 \in Tasks, NEW s2 \in Tasks, NEW s3 \in Tasks, NEW s4 \in Tasks,
         NEW p1 \in Points, NEW p2 \in Points, NEW p3 \in Points, NEW p4 \in Points, NEW q,
         Canonical(p1), Canonical(p2), Canonical(p3), Canonical(p4),
         Needs(s1, p1), Needs(s2, p2), Needs(s3, p3), Needs(s4, p4),
         Weakens(After(s1, p1), p2), Weakens(After(s2, p2), p3), Weakens(After(s3, p3), p4),
         Weakens(After(s4, p4), q)
  PROVE  LeadsThrough(<<s1, s2, s3, s4>>, <<p1, p2, p3, p4>>, q)
<1>. DEFINE s == <<s1, s2, s3, s4>>
            w == <<p1, p2, p3, p4>>
<1>1. /\ s \in Seq(Tasks) /\ Len(s) = 4 /\ s # <<>>
      /\ s[1] = s1 /\ s[2] = s2 /\ s[3] = s3 /\ s[4] = s4
  OBVIOUS
<1>2. /\ w \in Seq(Points) /\ Len(w) = 4
      /\ w[1] = p1 /\ w[2] = p2 /\ w[3] = p3 /\ w[4] = p4
  OBVIOUS
<1>3. (\A j \in 1 .. 4 : j \in {1, 2, 3, 4}) /\ (\A j \in 1 .. 4 - 1 : j \in {1, 2, 3})
  OBVIOUS
<1>. HIDE DEF s, w
<1>4. \A j \in 1 .. Len(s) : Canonical(w[j]) /\ Needs(s[j], w[j])
  BY <1>1, <1>2, <1>3
<1>5. \A j \in 1 .. Len(s) - 1 : Weakens(After(s[j], w[j]), w[j + 1])
  <2>1. /\ Weakens(After(s[1], w[1]), w[1 + 1]) /\ Weakens(After(s[2], w[2]), w[2 + 1])
        /\ Weakens(After(s[3], w[3]), w[3 + 1])
    BY <1>1, <1>2
  <2>2. QED
    BY <1>1, <1>3, <2>1
<1>6. QED
  BY <1>1, <1>2, <1>4, <1>5 DEF LeadsThrough, s, w

(* Three. *)
LEMMA ThreeLead ==
  ASSUME NEW s1 \in Tasks, NEW s2 \in Tasks, NEW s3 \in Tasks,
         NEW p1 \in Points, NEW p2 \in Points, NEW p3 \in Points, NEW q,
         Canonical(p1), Canonical(p2), Canonical(p3),
         Needs(s1, p1), Needs(s2, p2), Needs(s3, p3),
         Weakens(After(s1, p1), p2), Weakens(After(s2, p2), p3), Weakens(After(s3, p3), q)
  PROVE  LeadsThrough(<<s1, s2, s3>>, <<p1, p2, p3>>, q)
<1>. DEFINE s == <<s1, s2, s3>>
            w == <<p1, p2, p3>>
<1>1. /\ s \in Seq(Tasks) /\ Len(s) = 3 /\ s # <<>>
      /\ s[1] = s1 /\ s[2] = s2 /\ s[3] = s3
  OBVIOUS
<1>2. w \in Seq(Points) /\ Len(w) = 3 /\ w[1] = p1 /\ w[2] = p2 /\ w[3] = p3
  OBVIOUS
<1>3. (\A j \in 1 .. 3 : j \in {1, 2, 3}) /\ (\A j \in 1 .. 3 - 1 : j \in {1, 2})
  OBVIOUS
<1>. HIDE DEF s, w
<1>4. \A j \in 1 .. Len(s) : Canonical(w[j]) /\ Needs(s[j], w[j])
  BY <1>1, <1>2, <1>3
<1>5. \A j \in 1 .. Len(s) - 1 : Weakens(After(s[j], w[j]), w[j + 1])
  <2>1. Weakens(After(s[1], w[1]), w[1 + 1]) /\ Weakens(After(s[2], w[2]), w[2 + 1])
    BY <1>1, <1>2
  <2>2. QED
    BY <1>1, <1>3, <2>1
<1>6. QED
  BY <1>1, <1>2, <1>4, <1>5 DEF LeadsThrough, s, w

(* Two. *)
LEMMA TwoLead ==
  ASSUME NEW s1 \in Tasks, NEW s2 \in Tasks, NEW p1 \in Points, NEW p2 \in Points, NEW q,
         Canonical(p1), Canonical(p2), Needs(s1, p1), Needs(s2, p2),
         Weakens(After(s1, p1), p2), Weakens(After(s2, p2), q)
  PROVE  LeadsThrough(<<s1, s2>>, <<p1, p2>>, q)
<1>. DEFINE s == <<s1, s2>>
            w == <<p1, p2>>
<1>1. s \in Seq(Tasks) /\ Len(s) = 2 /\ s # <<>> /\ s[1] = s1 /\ s[2] = s2
  OBVIOUS
<1>2. w \in Seq(Points) /\ Len(w) = 2 /\ w[1] = p1 /\ w[2] = p2
  OBVIOUS
<1>3. (\A j \in 1 .. 2 : j \in {1, 2}) /\ (\A j \in 1 .. 2 - 1 : j = 1)
  OBVIOUS
<1>. HIDE DEF s, w
<1>4. \A j \in 1 .. Len(s) : Canonical(w[j]) /\ Needs(s[j], w[j])
  BY <1>1, <1>2, <1>3
<1>5. \A j \in 1 .. Len(s) - 1 : Weakens(After(s[j], w[j]), w[j + 1])
  <2>1. Weakens(After(s[1], w[1]), w[1 + 1])
    BY <1>1, <1>2
  <2>2. QED
    BY <1>1, <1>3, <2>1
<1>6. QED
  BY <1>1, <1>2, <1>4, <1>5 DEF LeadsThrough, s, w

(* What the operands and the end of a node need and where they lead to.     *)
LEMMA StepsLead ==
  ASSUME IsProgram(prog), NEW n \in Ids, Node(n).type \in {"BINOP", "UNRYOP", "ASSIGN"},
         \A o \in OperandsOf(n) : value_type[o] \in {"INT", "FLOAT"},
         NEW p \in Points, Canonical(p), NEW q, Weakens(Pushed(p, value_type[n]), q)
  PROVE  \E w : w[1] = p /\ LeadsThrough(Steps(n), w, q)
<1>. DEFINE x == Node(n).left
            y == Node(n).right
            t1 == value_type[x]
            t2 == value_type[y]
            a == Pushed(p, t1)
            b == Pushed(a, t2)
            c == Pushed(p, t2)
            ex == Task("eval", x)
            ey == Task("eval", y)
            tn == Task("test", n)
            fn == Task("finish", n)
<1>1. /\ y \in Ids /\ y # nullptr /\ t2 \in Kinds
      /\ Node(n).type = "BINOP" => x \in Ids /\ x # nullptr /\ t1 \in Kinds
  <2>1. y \in OperandsOf(n) /\ (Node(n).type = "BINOP" => x \in OperandsOf(n))
    BY DEF OperandsOf
  <2>2. OperandsOf(n) \subseteq Ids
    BY OperandsBefore
  <2>3. \A i \in Ids : i # nullptr
    BY DEF Ids, nullptr
  <2>4. t2 \in {"INT", "FLOAT"} /\ (Node(n).type = "BINOP" => t1 \in {"INT", "FLOAT"})
    BY <2>1
  <2>5. QED
    BY <2>1, <2>2, <2>3, <2>4 DEF Kinds
<1>2. /\ ey \in Tasks /\ ey.do = "eval" /\ ey.node = y
      /\ fn \in Tasks /\ fn.do = "finish" /\ fn.node = n
      /\ tn \in Tasks /\ tn.do = "test" /\ tn.node = n
      /\ Node(n).type = "BINOP" => ex \in Tasks /\ ex.do = "eval" /\ ex.node = x
  <2>1. ey.do = "eval" /\ ey.node = y /\ fn.do = "finish" /\ fn.node = n
        /\ tn.do = "test" /\ tn.node = n /\ ex.do = "eval" /\ ex.node = x
    BY DEF Task
  <2>. HIDE DEF x, y
  <2>2. \A do \in {"eval", "test", "finish"}, m \in Ids : Task(do, m) \in Tasks
    BY DEF Task, Tasks
  <2>3. QED
    BY <1>1, <2>1, <2>2
<1>. HIDE DEF ex, ey, tn, fn
<1>3. /\ c \in Points /\ Canonical(c) /\ c.d >= 1 /\ c.slot[c.d] = t2 /\ Popped(c) = p
  <2>. HIDE DEF t2
  <2>1. QED
    BY <1>1, PushedAndPopped
<1>4. Needs(ey, p) /\ After(ey, p) = c /\ Weakens(c, c)
  <2>1. After(ey, p) = c
    BY <1>1, <1>2 DEF After, TypeAt
  <2>. HIDE DEF c, x, y
  <2>2. QED
    BY <1>2, <1>3, <2>1, WeakensItself DEF Needs
<1>5. CASE Node(n).type = "BINOP"
  <2>1. /\ a \in Points /\ Canonical(a) /\ a.d >= 1 /\ a.d = p.d + 1
        /\ a.slot[a.d] = t1 /\ Popped(a) = p
    <3>. HIDE DEF t1
    <3>1. QED
      BY <1>1, <1>5, PushedAndPopped
  <2>2. Needs(ex, p) /\ After(ex, p) = a /\ Weakens(a, a)
    <3>1. After(ex, p) = a
      BY <1>1, <1>2, <1>5 DEF After, TypeAt
    <3>. HIDE DEF a, x, y
    <3>2. QED
      BY <1>2, <1>5, <2>1, <3>1, WeakensItself DEF Needs
  <2>3. CASE Node(n).op \in LogicOps
    <3>1. Steps(n) = <<ex, tn, ey, fn>>
      BY <1>5, <2>3 DEF Steps, ex, tn, ey, fn
    <3>2. Logic(n)
      BY <1>5, <2>3 DEF Logic
    <3>3. Needs(tn, a) /\ After(tn, a) = p
      <4>1. a.slot[a.d] = value_type[Node(tn.node).left]
        BY <1>2, <2>1
      <4>. HIDE DEF a, x, y, t1, t2
      <4>2. QED
        BY <1>2, <2>1, <4>1 DEF Needs, After
    <3>4. Needs(fn, c) /\ After(fn, c) = Pushed(p, value_type[n])
      <4>1. c.slot[c.d] = value_type[Node(fn.node).right]
        BY <1>2, <1>3
      <4>. HIDE DEF c, x, y, t1, t2
      <4>2. QED
        BY <1>2, <1>3, <3>2, <4>1 DEF Needs, After
    <3>5. Weakens(p, p)
      BY WeakensItself
    <3>6. LeadsThrough(<<ex, tn, ey, fn>>, <<p, a, p, c>>, q)
      <4>. HIDE DEF a, c
      <4>1. QED
        BY <1>2, <1>3, <1>4, <1>5, <2>1, <2>2, <3>3, <3>4, <3>5, FourLead
    <3>7. <<p, a, p, c>>[1] = p
      OBVIOUS
    <3>8. QED
      BY <3>1, <3>6, <3>7
  <2>4. CASE Node(n).op \notin LogicOps
    <3>1. Steps(n) = <<ex, ey, fn>>
      BY <1>5, <2>4 DEF Steps, ex, ey, fn
    <3>2. ~ Logic(n)
      BY <2>4 DEF Logic
    <3>3. /\ b \in Points /\ Canonical(b) /\ b.d >= 1 /\ b.d = a.d + 1 /\ b.slot[b.d] = t2
          /\ \A j \in Places : j <= a.d => b.slot[j] = a.slot[j]
          /\ Popped(b) = a
      <4>. HIDE DEF a, t2
      <4>1. QED
        BY <1>1, <2>1, PushedAndPopped
    <3>4. Needs(ey, a) /\ After(ey, a) = b
      <4>1. After(ey, a) = b
        BY <1>1, <1>2 DEF After, TypeAt
      <4>. HIDE DEF a, b, x, y
      <4>2. QED
        BY <1>2, <4>1 DEF Needs
    <3>5. Needs(fn, b)
      <4>1. b.slot[b.d] = value_type[Node(fn.node).right]
        BY <1>2, <3>3
      <4>2. a.d \in Nat /\ a.d >= 1 /\ b.d - 1 = a.d /\ b.d >= 2 /\ a.d \in Places
        <5>. HIDE DEF a, b
        <5>1. a.d \in Nat
          BY <2>1, PointParts
        <5>2. QED
          BY <2>1, <3>3, <5>1 DEF Places
      <4>3. b.slot[a.d] = a.slot[a.d]
        <5>. HIDE DEF a, b
        <5>1. QED
          BY <3>3, <4>2
      <4>4. b.slot[b.d - 1] = value_type[Node(fn.node).left]
        BY <1>2, <2>1, <4>2, <4>3
      <4>. HIDE DEF a, b, c, x, y, t1, t2
      <4>5. QED
        BY <1>2, <3>3, <4>1, <4>2, <4>4 DEF Needs
    <3>6. After(fn, b) = Pushed(p, value_type[n])
      <4>. HIDE DEF a, b
      <4>1. QED
        BY <1>2, <1>5, <2>1, <3>2, <3>3 DEF After
    <3>7. LeadsThrough(<<ex, ey, fn>>, <<p, a, b>>, q)
      <4>. HIDE DEF a, b
      <4>1. Weakens(b, b)
        BY <3>3, WeakensItself
      <4>2. QED
        BY <1>2, <1>5, <2>1, <2>2, <3>3, <3>4, <3>5, <3>6, <4>1, ThreeLead
    <3>8. <<p, a, b>>[1] = p
      OBVIOUS
    <3>9. QED
      BY <3>1, <3>7, <3>8
  <2>5. QED
    BY <2>3, <2>4
<1>6. CASE Node(n).type \in {"UNRYOP", "ASSIGN"}
  <2>1. Steps(n) = <<ey, fn>>
    BY <1>6 DEF Steps, ey, fn
  <2>2. Needs(fn, c) /\ After(fn, c) = Pushed(p, value_type[n])
    <3>1. c.slot[c.d] = value_type[Node(fn.node).right]
      BY <1>2, <1>3
    <3>. HIDE DEF c, x, y, t1, t2
    <3>2. QED
      BY <1>2, <1>3, <1>6, <3>1 DEF Needs, After
  <2>3. LeadsThrough(<<ey, fn>>, <<p, c>>, q)
    <3>. HIDE DEF c
    <3>1. QED
      BY <1>2, <1>3, <1>4, <2>2, TwoLead
  <2>4. <<p, c>>[1] = p
    OBVIOUS
  <2>5. QED
    BY <2>1, <2>3, <2>4
<1>7. QED
  BY <1>5, <1>6

(* The operands of a node lie in the right operand in which it lies, and    *)
(* so does its end.                                                        *)
LEMMA StepsInner ==
  ASSUME IsProgram(prog), InTextOrder(prog), Unnested(prog), NEW n \in Ids, NEW m \in Ids,
         Node(n).type \in {"BINOP", "UNRYOP", "ASSIGN"}, Logic(m),
         Inner(Task("eval", n), m)
  PROVE  \A j \in 1 .. Len(Steps(n)) : Inner(Steps(n)[j], m)
<1>. DEFINE x == Node(n).left
            y == Node(n).right
            z == Node(m).left
            first == FirstNode(prog)
<1>1. z < n /\ n < m /\ z < first[n]
  <2>1. Task("eval", n).do = "eval" /\ Task("eval", n).node = n
    BY DEF Task
  <2>2. QED
    BY <2>1 DEF Inner
<1>2. /\ n \in Nat /\ m \in Nat /\ z \in Nat
      /\ y = n - 1 /\ y \in 1 .. n - 1 /\ first[y] \in 1 .. y
      /\ Node(n).type = "BINOP" =>
           x \in 1 .. n - 1 /\ x = first[y] - 1 /\ first[n] = first[x] /\ first[x] \in 1 .. x
      /\ Node(n).type \in {"UNRYOP", "ASSIGN"} => first[n] = first[y]
      /\ first[n] \in 1 .. n
  <2>1. n \in 1 .. Len(prog.node) /\ m \in 1 .. Len(prog.node)
    BY DEF Ids
  <2>2. /\ n \in Nat /\ first[n] \in 1 .. n
        /\ Node(n).type = "BINOP" =>
             /\ y = n - 1 /\ y \in 1 .. n - 1
             /\ x \in 1 .. n - 1 /\ x = first[y] - 1
             /\ first[n] = first[x] /\ first[x] \in 1 .. x /\ first[y] \in 1 .. y
        /\ Node(n).type \in {"UNRYOP", "ASSIGN"} =>
             y = n - 1 /\ y \in 1 .. n - 1 /\ first[n] = first[y] /\ first[y] \in 1 .. y
    BY <2>1, TreesAdjoin DEF Node
  <2>3. m \in Nat /\ z \in 1 .. m - 1
    BY <2>1, TreesAdjoin DEF Node, Logic
  <2>4. QED
    BY <2>2, <2>3
<1>3. y \in Ids /\ (Node(n).type = "BINOP" => x \in Ids)
  BY OperandProperties
<1>4. Inner(Task("eval", y), m) /\ Inner(Task("finish", n), m)
      /\ (Node(n).type = "BINOP" => Inner(Task("eval", x), m))
  <2>1. /\ z < y /\ y < m /\ z < first[y]
        /\ Node(n).type = "BINOP" => z < x /\ x < m /\ z < first[x]
    <3>1. CASE Node(n).type = "BINOP"
      <4>. HIDE DEF x, y, z, first
      <4>1. QED
        BY <1>1, <1>2, <3>1
    <3>2. CASE Node(n).type \in {"UNRYOP", "ASSIGN"}
      <4>. HIDE DEF x, y, z, first
      <4>1. QED
        BY <1>1, <1>2, <3>2
    <3>3. QED
      BY <3>1, <3>2
  <2>2. /\ Task("eval", y).do = "eval" /\ Task("eval", y).node = y
        /\ Task("finish", n).do = "finish" /\ Task("finish", n).node = n
        /\ Node(n).type = "BINOP" => Task("eval", x).do = "eval" /\ Task("eval", x).node = x
    BY DEF Task
  <2>3. QED
    BY <1>1, <1>3, <2>1, <2>2 DEF Inner
<1>5. ~ Logic(n)
  <2>1. n \in z + 1 .. m - 1
    BY <1>1, <1>2
  <2>2. m \in 1 .. Len(prog.node) /\ prog.node[m].op \in LogicOps
    BY DEF Ids, Logic, Node
  <2>3. \A i \in z + 1 .. m - 1 : prog.node[i].op \notin LogicOps
    BY <2>2 DEF Unnested, Node
  <2>4. QED
    BY <2>1, <2>3 DEF Logic, Node
<1>6. CASE Node(n).type = "BINOP"
  <2>1. Steps(n) = <<Task("eval", x), Task("eval", y), Task("finish", n)>>
    BY <1>5, <1>6 DEF Steps, Logic
  <2>2. QED
    BY <1>4, <1>6, <2>1
<1>7. CASE Node(n).type \in {"UNRYOP", "ASSIGN"}
  <2>1. Steps(n) = <<Task("eval", y), Task("finish", n)>>
    BY <1>7 DEF Steps
  <2>2. QED
    BY <1>4, <2>1
<1>8. QED
  BY <1>6, <1>7

(* The operands and the end of a node, a test before the right operand.     *)
LEMMA StepsShaped ==
  ASSUME IsProgram(prog), NEW n \in Ids, Node(n).type \in {"BINOP", "UNRYOP", "ASSIGN"},
         NEW k \in 1 .. Len(Steps(n))
  PROVE  /\ Steps(n)[k].do = "test" =>
              /\ k + 2 \in 1 .. Len(Steps(n))
              /\ Steps(n)[k].node \in Ids /\ Logic(Steps(n)[k].node)
              /\ Steps(n)[k + 1] = Task("eval", Node(Steps(n)[k].node).right)
              /\ Steps(n)[k + 2] = Task("finish", Steps(n)[k].node)
         /\ Steps(n)[k] # Task("eval", nullptr)
<1>. DEFINE x == Node(n).left
            y == Node(n).right
            s == Steps(n)
<1>1. y # nullptr /\ (Node(n).type = "BINOP" => x # nullptr)
  <2>1. y \in Ids /\ (Node(n).type = "BINOP" => x \in Ids)
    BY OperandProperties
  <2>2. \A i \in Ids : i # nullptr
    BY DEF Ids, nullptr
  <2>3. QED
    BY <2>1, <2>2
<1>2. \A do1, do2, m, i : /\ Task(do1, m).do = do1 /\ Task(do1, m).node = m
                          /\ Task(do1, m) = Task(do2, i) => do1 = do2 /\ m = i
  <2>1. \A do, m : Task(do, m).do = do /\ Task(do, m).node = m
    BY DEF Task
  <2>2. QED
    BY <2>1
<1>3. CASE Node(n).type = "BINOP" /\ Node(n).op \in LogicOps
  <2>1. s = <<Task("eval", x), Task("test", n), Task("eval", y), Task("finish", n)>>
    BY <1>3 DEF Steps
  <2>. HIDE DEF s, x, y
  <2>2. /\ Len(s) = 4 /\ s[1] = Task("eval", x) /\ s[2] = Task("test", n)
        /\ s[3] = Task("eval", y) /\ s[4] = Task("finish", n)
    BY <2>1
  <2>3. k \in {1, 2, 3, 4}
    BY <2>2 DEF s
  <2>4. Logic(n)
    BY <1>3 DEF Logic
  <2>5. s[k] # Task("eval", nullptr)
    BY <1>1, <1>2, <1>3, <2>2, <2>3
  <2>6. s[k].do = "test" => k = 2
    BY <1>2, <2>2, <2>3
  <2>7. s[2].node = n /\ s[2 + 1] = Task("eval", y) /\ s[2 + 2] = Task("finish", n)
    BY <1>2, <2>2
  <2>8. QED
    BY <2>2, <2>4, <2>5, <2>6, <2>7 DEF s, y
<1>4. CASE Node(n).type = "BINOP" /\ Node(n).op \notin LogicOps
  <2>1. s = <<Task("eval", x), Task("eval", y), Task("finish", n)>>
    BY <1>4 DEF Steps
  <2>. HIDE DEF s, x, y
  <2>2. /\ Len(s) = 3 /\ s[1] = Task("eval", x) /\ s[2] = Task("eval", y)
        /\ s[3] = Task("finish", n)
    BY <2>1
  <2>3. k \in {1, 2, 3}
    BY <2>2 DEF s
  <2>4. s[k] # Task("eval", nullptr) /\ s[k].do # "test"
    BY <1>1, <1>2, <1>4, <2>2, <2>3
  <2>5. QED
    BY <2>4 DEF s
<1>5. CASE Node(n).type \in {"UNRYOP", "ASSIGN"}
  <2>1. s = <<Task("eval", y), Task("finish", n)>>
    BY <1>5 DEF Steps
  <2>. HIDE DEF s, x, y
  <2>2. Len(s) = 2 /\ s[1] = Task("eval", y) /\ s[2] = Task("finish", n)
    BY <2>1
  <2>3. k \in {1, 2}
    BY <2>2 DEF s
  <2>4. s[k] # Task("eval", nullptr) /\ s[k].do # "test"
    BY <1>1, <1>2, <2>2, <2>3
  <2>5. QED
    BY <2>4 DEF s
<1>6. QED
  BY <1>3, <1>4, <1>5

(* The stack of activations with s in the place of its head. *)
Unfolded(s) ==
  /\ s \in Seq(Tasks) /\ Len(s) \in Nat /\ Len(s) >= 1 /\ Len(todo) \in Nat /\ Len(todo) >= 1
  /\ Len(todo') = Len(s) + (Len(todo) - 1)
  /\ \A k \in 1 .. Len(s) : todo'[k] = s[k]
  /\ \A k \in 1 .. Len(todo) - 1 : todo'[Len(s) + k] = todo[k + 1]

(* The operands of a node do not change what lies behind them. *)
LEMMA ShapedPushed ==
  ASSUME UNCHANGED prog, IsProgram(prog), Shaped, NEW n \in Ids,
         Node(n).type \in {"BINOP", "UNRYOP", "ASSIGN"}, Unfolded(Steps(n))
  PROVE  Shaped'
<1>. DEFINE s == Steps(n)
            M == Len(s)
            N == Len(todo)
<1>1. Ids' = Ids /\ \A i : (Logic(i)' <=> Logic(i)) /\ Node(i)' = Node(i)
  BY DEF Ids, Logic, Node
<1>2. /\ M \in Nat /\ M >= 1 /\ N \in Nat /\ N >= 1 /\ Len(todo') = M + (N - 1)
      /\ \A k \in 1 .. M : todo'[k] = s[k]
      /\ \A k \in 1 .. N - 1 : todo'[M + k] = todo[k + 1]
  BY DEF Unfolded
<1>3. ASSUME NEW k \in 1 .. Len(todo')
      PROVE  /\ todo'[k].do = "test" =>
                  /\ k + 2 \in 1 .. Len(todo')
                  /\ todo'[k].node \in Ids /\ Logic(todo'[k].node)
                  /\ todo'[k + 1] = Task("eval", Node(todo'[k].node).right)
                  /\ todo'[k + 2] = Task("finish", todo'[k].node)
             /\ todo'[k] = Task("eval", nullptr) =>
                  k + 1 \in 1 .. Len(todo') /\ todo'[k + 1] = Task("print", nullptr)
  <2>1. CASE k \in 1 .. M
    <3>1. /\ s[k].do = "test" =>
               /\ k + 2 \in 1 .. M
               /\ s[k].node \in Ids /\ Logic(s[k].node)
               /\ s[k + 1] = Task("eval", Node(s[k].node).right)
               /\ s[k + 2] = Task("finish", s[k].node)
          /\ s[k] # Task("eval", nullptr)
      BY <2>1, StepsShaped
    <3>. HIDE DEF s
    <3>2. k + 2 \in 1 .. M => /\ k + 2 \in 1 .. Len(todo')
                              /\ todo'[k + 1] = s[k + 1] /\ todo'[k + 2] = s[k + 2]
      <4>. HIDE DEF M, N
      <4>1. k + 2 \in 1 .. M => k + 1 \in 1 .. M /\ k + 2 \in 1 .. Len(todo')
        BY <1>2
      <4>2. QED
        BY <1>2, <4>1
    <3>3. todo'[k] = s[k]
      BY <1>2, <2>1
    <3>4. QED
      BY <3>1, <3>2, <3>3
  <2>2. CASE k \notin 1 .. M
    <3>. DEFINE i == k - M
                m == i + 1
    <3>. HIDE DEF M, N, s
    <3>1. i \in 1 .. N - 1 /\ M + i = k /\ m \in 1 .. N /\ m \in Nat
      BY <1>2, <2>2
    <3>2. todo'[M + i] = todo[m]
      BY <1>2, <3>1
    <3>3. todo'[k] = todo[m]
      BY <3>1, <3>2
    <3>4. /\ todo[m].do = "test" =>
               /\ m + 2 \in 1 .. N
               /\ todo[m].node \in Ids /\ Logic(todo[m].node)
               /\ todo[m + 1] = Task("eval", Node(todo[m].node).right)
               /\ todo[m + 2] = Task("finish", todo[m].node)
          /\ todo[m] = Task("eval", nullptr) =>
               m + 1 \in 1 .. N /\ todo[m + 1] = Task("print", nullptr)
      <4>1. m \in 1 .. Len(todo)
        BY <3>1 DEF N
      <4>. HIDE DEF m
      <4>2. QED
        BY <4>1 DEF Shaped, N
    <3>5. /\ m + 2 \in 1 .. N => /\ k + 2 \in 1 .. Len(todo')
                                 /\ todo'[k + 1] = todo[m + 1] /\ todo'[k + 2] = todo[m + 2]
          /\ m + 1 \in 1 .. N => k + 1 \in 1 .. Len(todo') /\ todo'[k + 1] = todo[m + 1]
      <4>1. /\ m + 2 \in 1 .. N => /\ k + 2 \in 1 .. Len(todo') /\ i + 1 \in 1 .. N - 1
                                   /\ i + 2 \in 1 .. N - 1
            /\ m + 1 \in 1 .. N => k + 1 \in 1 .. Len(todo') /\ i + 1 \in 1 .. N - 1
            /\ M + (i + 1) = k + 1 /\ M + (i + 2) = k + 2
            /\ (i + 1) + 1 = m + 1 /\ (i + 2) + 1 = m + 2
        BY <1>2, <3>1
      <4>2. /\ i + 1 \in 1 .. N - 1 => todo'[M + (i + 1)] = todo[(i + 1) + 1]
            /\ i + 2 \in 1 .. N - 1 => todo'[M + (i + 2)] = todo[(i + 2) + 1]
        BY <1>2
      <4>. HIDE DEF i, m
      <4>3. QED
        BY <4>1, <4>2
    <3>. HIDE DEF i, m
    <3>6. QED
      BY <3>3, <3>4, <3>5
  <2>3. QED
    BY <2>1, <2>2
<1>4. QED
  BY <1>1, <1>3 DEF Shaped

(* Nor where the end is that a jump waits for. *)
LEMMA WaitsPushed ==
  ASSUME EmitterFacts, UNCHANGED <<prog, value_type, m_CurrentSubLabel, code>>,
         todo # <<>>, todo[1].do = "eval", NEW n \in Ids, n = todo[1].node,
         Node(n).type \in {"BINOP", "UNRYOP", "ASSIGN"}, Unfolded(Steps(n)),
         NEW L, NEW g, Waits(L, g),
         NEW h, \A k \in 1 .. Len(todo) : h[Len(Steps(n)) + k] = g[k + 1]
  PROVE  Waits(L, h)'
<1>. DEFINE s == Steps(n)
            M == Len(s)
            N == Len(todo)
<1>1. /\ M \in Nat /\ M >= 1 /\ N \in Nat /\ N >= 1 /\ Len(todo') = M + (N - 1)
      /\ \A k \in 1 .. M : todo'[k] = s[k]
      /\ \A k \in 1 .. N - 1 : todo'[M + k] = todo[k + 1]
  BY DEF Unfolded
<1>2. /\ \A t : FinishesLogic(t)' <=> FinishesLogic(t)
      /\ \A t, i : Inner(t, i)' <=> Inner(t, i)
  BY NeedsSame DEF FinishesLogic, Node
<1>3. SUFFICES ASSUME Waiting(code, m_CurrentSubLabel)
               PROVE  \E k \in 1 .. Len(todo') :
                        /\ FinishesLogic(todo'[k])
                        /\ L[m_CurrentSubLabel] = Popped(h[k])
                        /\ \A i \in 1 .. k - 1 : Inner(todo'[i], todo'[k].node)
  BY <1>2 DEF Waits
<1>4. PICK k \in 1 .. N :
        /\ FinishesLogic(todo[k])
        /\ L[m_CurrentSubLabel] = Popped(g[k])
        /\ \A i \in 1 .. k - 1 : Inner(todo[i], todo[k].node)
  BY <1>3 DEF Waits
<1>. DEFINE m == todo[k].node
            j == M + (k - 1)
<1>5. k # 1
  BY <1>4 DEF FinishesLogic
<1>6. m \in Ids /\ Logic(m)
  <2>1. todo \in Seq(Tasks)
    BY DEF EmitterFacts, CompilerTypeOK, Tasks
  <2>2. todo[k] \in Tasks
    BY <2>1, ElementOfSeq
  <2>3. m \in Ids
    BY <1>4, <2>2 DEF FinishesLogic, Tasks
  <2>4. QED
    BY <1>4, <2>3 DEF FinishesLogic, Logic
<1>7. Inner(Task("eval", n), m)
  <2>1. 1 \in 1 .. k - 1
    BY <1>5
  <2>2. Inner(todo[1], m)
    BY <1>4, <2>1
  <2>3. Task("eval", n).do = todo[1].do /\ Task("eval", n).node = todo[1].node
    BY DEF Task
  <2>. HIDE DEF m
  <2>4. QED
    BY <2>2, <2>3 DEF Inner
<1>8. \A i \in 1 .. M : Inner(s[i], m)
  <2>1. IsProgram(prog) /\ InTextOrder(prog) /\ Unnested(prog)
    BY DEF EmitterFacts, CompilerTypeOK, CheckerTypeOK
  <2>. HIDE DEF m
  <2>2. QED
    BY <1>6, <1>7, <2>1, StepsInner
<1>. HIDE DEF s, M, N
<1>9. /\ k - 1 \in 1 .. N - 1 /\ k - 1 \in 1 .. N /\ (k - 1) + 1 = k /\ j \in 1 .. Len(todo')
      /\ k \in Int
  BY <1>1, <1>5
<1>10. todo'[j] = todo[k] /\ h[j] = g[k]
  <2>1. todo'[M + (k - 1)] = todo[(k - 1) + 1]
    BY <1>1, <1>9
  <2>2. h[M + (k - 1)] = g[(k - 1) + 1]
    BY <1>9 DEF M, N, s
  <2>3. QED
    BY <1>9, <2>1, <2>2
<1>11. ASSUME NEW i \in 1 .. j - 1
       PROVE  Inner(todo'[i], m)
  <2>1. CASE i \in 1 .. M
    BY <1>1, <1>8, <2>1
  <2>2. CASE i \notin 1 .. M
    <3>1. i - M \in 1 .. N - 1 /\ M + (i - M) = i /\ (i - M) + 1 \in 1 .. k - 1
      BY <1>1, <1>9, <2>2
    <3>2. todo'[M + (i - M)] = todo[(i - M) + 1]
      BY <1>1, <3>1
    <3>3. Inner(todo[(i - M) + 1], m)
      BY <1>4, <3>1
    <3>4. QED
      BY <3>1, <3>2, <3>3
  <2>3. QED
    BY <2>1, <2>2
<1>. HIDE DEF j
<1>12. QED
  BY <1>4, <1>9, <1>10, <1>11

(* An operator or an assignment whose operands come next: nothing is        *)
(* written.                                                                *)
LEMMA EvalOperandsTyped ==
  ASSUME EmitterFacts, CompilerTypeOK', EvalOperands,
         NEW L \in [Nat -> Points], NEW S \in [Nat -> Kinds],
         NEW g \in Seq(Points), EmitTyped(L, S, g)
  PROVE  TypedTodo'
<1>. DEFINE n == todo[1].node
            s == Steps(n)
            p == g[1]
            q == g[2]
<1>1. /\ todo # <<>> /\ todo[1].do = "eval" /\ n # nullptr
      /\ Node(n).type \in {"BINOP", "UNRYOP", "ASSIGN"}
      /\ todo' = s \o Tail(todo)
      /\ UNCHANGED <<code, prog, value_type, m_IntCount, m_FloatCount, m_PtrCount,
                     m_CurrentSubLabel, m_VarTable, m_BPOffset>>
  BY DEF EvalOperands, OnNode, Emitting, checkerVars
<1>2. todo \in Seq(Tasks) /\ IsProgram(prog) /\ Shaped
  BY DEF EmitterFacts, CompilerTypeOK, CheckerTypeOK, Tasks
<1>3. /\ Leads(g) /\ Waits(L, g) /\ TypedVariables(S)
      /\ ~ Doomed => TypedTo(code, L, S, m_BPOffset, p)
  BY DEF EmitTyped
<1>4. /\ n \in Ids /\ \A o \in OperandsOf(n) : value_type[o] \in {"INT", "FLOAT"}
  BY <1>1, HeadTyped DEF EmitterFacts
<1>5. /\ p \in Points /\ Canonical(p) /\ Weakens(Pushed(p, value_type[n]), q)
  <2>1. p \in Points /\ Weakens(After(todo[1], p), q) /\ Len(todo) \in Nat /\ Len(todo) >= 1
    BY <1>1, <1>3, HeadLeads
  <2>2. After(todo[1], p) = Pushed(p, value_type[n])
    BY <1>1 DEF After, TypeAt
  <2>3. 1 \in 1 .. Len(todo) + 1
    BY <2>1
  <2>4. QED
    BY <1>3, <2>1, <2>2, <2>3 DEF Leads
<1>6. PICK w : w[1] = p /\ LeadsThrough(s, w, q)
  <2>. HIDE DEF n, p, q
  <2>1. Node(n).type \in {"BINOP", "UNRYOP", "ASSIGN"}
    BY <1>1
  <2>2. QED
    BY <1>2, <1>4, <1>5, <2>1, StepsLead
<1>. DEFINE h == w \o Tail(g)
<1>7. /\ h \in Seq(Points) /\ Leads(h)' /\ h[1] = p
      /\ \A k \in 1 .. Len(todo) : h[Len(s) + k] = g[k + 1]
      /\ Unfolded(s)
  <2>. DEFINE u == s
  <2>1. todo' = u \o Tail(todo) /\ LeadsThrough(u, w, g[2]) /\ UNCHANGED <<prog, value_type>>
        /\ u \in Seq(Tasks) /\ Leads(g) /\ todo \in Seq(Tasks) /\ todo # <<>>
    BY <1>1, <1>2, <1>3, <1>6 DEF LeadsThrough
  <2>. HIDE DEF u, s, n
  <2>2. LET h1 == w \o Tail(g) IN
        /\ h1 \in Seq(Points) /\ Leads(h1)'
        /\ Len(u) \in Nat /\ Len(u) >= 1 /\ Len(todo) \in Nat /\ Len(todo) >= 1
        /\ h1[1] = w[1]
        /\ \A k \in 1 .. Len(todo) : h1[Len(u) + k] = g[k + 1]
        /\ Len(todo') = Len(u) + (Len(todo) - 1)
        /\ \A k \in 1 .. Len(u) : todo'[k] = u[k]
        /\ \A k \in 1 .. Len(todo) - 1 : todo'[Len(u) + k] = todo[k + 1]
    BY <2>1, LeadsPushed, Zenon
  <2>3. /\ h \in Seq(Points) /\ Leads(h)' /\ h[1] = w[1]
        /\ Len(u) \in Nat /\ Len(u) >= 1 /\ Len(todo) \in Nat /\ Len(todo) >= 1
        /\ \A k \in 1 .. Len(todo) : h[Len(u) + k] = g[k + 1]
        /\ Len(todo') = Len(u) + (Len(todo) - 1)
        /\ \A k \in 1 .. Len(u) : todo'[k] = u[k]
        /\ \A k \in 1 .. Len(todo) - 1 : todo'[Len(u) + k] = todo[k + 1]
    BY <2>2
  <2>. HIDE DEF h
  <2>4. Unfolded(u)
    BY <2>1, <2>3 DEF Unfolded
  <2>5. QED
    BY <1>6, <2>3, <2>4 DEF u
<1>. HIDE DEF h
<1>8. Waits(L, h)'
  BY <1>1, <1>3, <1>4, <1>7, WaitsPushed
<1>9. Shaped'
  BY <1>1, <1>2, <1>4, <1>7, ShapedPushed
<1>10. TypedVariables(S)'
  BY <1>1, <1>3, VariablesKept
<1>11. TypedTo(code, L, S, m_BPOffset, h[1])'
  <2>1. ~ Doomed
    BY <1>1 DEF Doomed, Task
  <2>2. TypedTo(code', L, S, m_BPOffset, h[1])
    BY <1>1, <1>3, <1>7, <2>1
  <2>3. m_BPOffset' = m_BPOffset
    BY <1>1
  <2>4. QED
    BY <1>1, <2>2, <2>3, TypedToSame
<1>12. EmitTyped(L, S, h)'
  BY <1>7, <1>8, <1>10, <1>11 DEF EmitTyped
<1>13. QED
  BY <1>7, <1>9, <1>12 DEF TypedTodo

(* A null statement writes nothing; the step that prints it ends the        *)
(* process.                                                                *)
LEMMA EvalNullTyped ==
  ASSUME EmitterFacts, CompilerTypeOK', EvalNull,
         NEW L \in [Nat -> Points], NEW S \in [Nat -> Kinds],
         NEW g \in Seq(Points), EmitTyped(L, S, g)
  PROVE  TypedTodo'
<1>. DEFINE h == Tail(g)
<1>1. /\ todo # <<>> /\ todo[1].do = "eval" /\ todo[1].node = nullptr
      /\ todo' = Tail(todo)
      /\ UNCHANGED <<code, prog, value_type, m_IntCount, m_FloatCount, m_PtrCount,
                     m_CurrentSubLabel, m_VarTable, m_BPOffset>>
  BY DEF EvalNull, Emitting, checkerVars
<1>2. todo \in Seq(Tasks) /\ IsProgram(prog) /\ Shaped
  BY DEF EmitterFacts, CompilerTypeOK, CheckerTypeOK, Tasks
<1>3. Leads(g) /\ Waits(L, g) /\ TypedVariables(S)
  BY DEF EmitTyped
<1>4. /\ h \in Seq(Points) /\ Leads(h)'
      /\ \A k \in 1 .. Len(todo) : h[k] = g[k + 1]
      /\ \A k \in 1 .. Len(todo') : todo'[k] = todo[k + 1]
      /\ Len(todo') = Len(todo) - 1
  BY <1>1, <1>2, <1>3, LeadsPopped
<1>5. ~ FinishesLogic(todo[1])
  BY <1>1 DEF FinishesLogic
<1>. HIDE DEF h
<1>6. Waits(L, h)'
  BY <1>1, <1>2, <1>3, <1>4, <1>5, WaitsPopped
<1>7. TypedVariables(S)'
  BY <1>1, <1>3, VariablesKept
<1>8. Doomed'
  <2>1. todo[1] = Task("eval", nullptr)
    <3>1. todo[1] \in Tasks
      BY <1>1, <1>2, HeadOfStack
    <3>2. QED
      BY <1>1, <3>1 DEF Tasks, Task
  <2>2. 1 \in 1 .. Len(todo) /\ Len(todo) \in Nat
    BY <1>1, <1>2, HeadOfStack
  <2>3. 1 + 1 \in 1 .. Len(todo) /\ todo[1 + 1] = Task("print", nullptr)
    BY <1>2, <2>1, <2>2 DEF Shaped
  <2>4. 1 \in 1 .. Len(todo') /\ todo' \in Seq(Tasks)
    <3>1. todo' \in Seq(Tasks)
      BY <1>1, <1>2, HeadOfStack
    <3>2. QED
      BY <1>4, <2>2, <2>3, <3>1
  <2>5. todo'[1] = Task("print", nullptr)
    BY <1>4, <2>3, <2>4
  <2>6. todo' # <<>>
    BY <2>4, EmptySeq
  <2>7. QED
    BY <2>5, <2>6 DEF Doomed, Task
<1>9. EmitTyped(L, S, h)'
  BY <1>4, <1>6, <1>7, <1>8 DEF EmitTyped
<1>10. Shaped'
  BY <1>1, <1>2, ShapedPopped
<1>11. QED
  BY <1>4, <1>9, <1>10 DEF TypedTodo

-----------------------------------------------------------------------------
(* Where the code generator starts.                                        *)

(* The activations that compile starts. *)
LEMMA BeginTasks ==
  ASSUME CompilerTypeOK, NoPointers, TypesFollow, VisitsTyped, BeginMain
  PROVE  LET K == Len(prog.root) IN
           /\ K \in Nat /\ Len(todo') = 2 * K
           /\ \A i \in 1 .. K : /\ todo'[2 * i - 1] = Task("eval", prog.root[i])
                                /\ todo'[2 * i] = Task("print", prog.root[i])
                                /\ TypeAt(prog.root[i]) \in Kinds
<1>. DEFINE K == Len(prog.root)
            e(k) == Task(IF k % 2 = 1 THEN "eval" ELSE "print", prog.root[(k + 1) \div 2])
<1>1. /\ K \in Nat /\ IsProgram(prog) /\ visits = <<>>
      /\ \A i \in 1 .. K : prog.root[i] \in Ids \cup {nullptr}
  <2>1. K \in Nat /\ Len(prog.node) \in Nat
    BY LenProperties DEF CompilerTypeOK, CheckerTypeOK, IsProgram
  <2>2. \A i \in 1 .. K : prog.root[i] \in 0 .. Len(prog.node)
    BY ElementOfSeq DEF CompilerTypeOK, CheckerTypeOK, IsProgram
  <2>3. QED
    BY <2>1, <2>2 DEF Ids, nullptr, CompilerTypeOK, CheckerTypeOK, BeginMain
<1>2. todo' = [k \in 1 .. 2 * K |-> e(k)]
  BY DEF BeginMain
<1>3. Len(todo') = 2 * K
  <2>1. todo' \in Seq(Tasks)
    BY BeginMainType
  <2>. HIDE DEF e
  <2>2. DOMAIN todo' = 1 .. 2 * K
    BY <1>2
  <2>3. 2 * K \in Nat
    BY <1>1
  <2>4. QED
    BY <2>1, <2>2, <2>3, LenProperties
<1>4. ASSUME NEW i \in 1 .. K
      PROVE  /\ todo'[2 * i - 1] = Task("eval", prog.root[i])
             /\ todo'[2 * i] = Task("print", prog.root[i])
  <2>1. /\ 2 * i - 1 \in 1 .. 2 * K /\ 2 * i \in 1 .. 2 * K
        /\ (2 * i - 1) % 2 = 1 /\ (2 * i) % 2 # 1
        /\ ((2 * i - 1) + 1) \div 2 = i /\ (2 * i + 1) \div 2 = i
    BY <1>1
  <2>2. e(2 * i - 1) = Task("eval", prog.root[i]) /\ e(2 * i) = Task("print", prog.root[i])
    BY <2>1
  <2>. HIDE DEF e
  <2>3. QED
    BY <1>2, <2>1, <2>2
<1>5. ASSUME NEW i \in 1 .. K
      PROVE  TypeAt(prog.root[i]) \in Kinds
  <2>1. Len(visits) = 0
    BY <1>1, EmptySeq
  <2>2. prog.root[i] = nullptr \/ Typed(prog.root[i])
    BY <2>1 DEF VisitsTyped
  <2>3. CASE prog.root[i] = nullptr
    BY <2>3 DEF TypeAt, Kinds
  <2>4. CASE prog.root[i] # nullptr
    <3>. DEFINE n == prog.root[i]
    <3>1. n \in Ids /\ Typed(n)
      BY <1>1, <2>2, <2>4
    <3>. HIDE DEF n
    <3>2. value_type[n] \in {"INT", "FLOAT"}
      BY <3>1, NodeTypes2
    <3>3. QED
      BY <2>4, <3>2 DEF TypeAt, Kinds, n
  <2>5. QED
    BY <2>3, <2>4
<1>6. QED
  BY <1>1, <1>3, <1>4, <1>5

(* And their points. *)
LEMMA BeginLeads ==
  ASSUME CompilerTypeOK, NoPointers, TypesFollow, VisitsTyped, BeginMain
  PROVE  \E g \in Seq(Points) : Leads(g)' /\ g[1] = AtStatement(0)
<1>. DEFINE K == Len(prog.root)
            root(i) == prog.root[i]
            odd(i) == AtStatement(i)
            even(i) == Pushed(AtStatement(i - 1), TypeAt(root(i)))
            e(k) == IF k % 2 = 1 THEN odd(k \div 2) ELSE even(k \div 2)
            W == 2 * K + 1
<1>1. /\ K \in Nat /\ Len(todo') = 2 * K
      /\ \A i \in 1 .. K : /\ todo'[2 * i - 1] = Task("eval", root(i))
                           /\ todo'[2 * i] = Task("print", root(i))
                           /\ TypeAt(root(i)) \in Kinds
  BY BeginTasks
<1>2. \A i \in Nat : odd(i) \in Points /\ Canonical(odd(i))
  BY AtStatementParts
<1>3. ASSUME NEW i \in 1 .. K
      PROVE  /\ even(i) \in Points /\ Canonical(even(i))
             /\ even(i).d = Level(i - 1) + 1 /\ even(i).c = i - 1
             /\ even(i).slot[even(i).d] = TypeAt(root(i))
             /\ i - 1 \in Nat
  <2>. DEFINE j == i - 1
              a == AtStatement(j)
              t == TypeAt(root(i))
  <2>1. j \in Nat /\ t \in Kinds
    BY <1>1
  <2>. HIDE DEF j, t
  <2>2. a \in Points /\ Canonical(a) /\ a.d = Level(j) /\ a.c = j
    BY <2>1, AtStatementParts
  <2>. HIDE DEF a
  <2>3. /\ Pushed(a, t) \in Points /\ Canonical(Pushed(a, t))
        /\ Pushed(a, t).d = a.d + 1 /\ Pushed(a, t).slot[Pushed(a, t).d] = t
    BY <2>1, <2>2, PushedAndPopped
  <2>4. Pushed(a, t).c = a.c
    BY <2>1, <2>2, PushedParts
  <2>5. QED
    BY <2>1, <2>2, <2>3, <2>4 DEF a, j, t
<1>4. \A k \in 1 .. W :
        \/ \E i \in 1 .. K + 1 : k = 2 * i - 1 /\ i - 1 \in Nat /\ e(k) = odd(i - 1)
        \/ \E i \in 1 .. K : k = 2 * i /\ e(k) = even(i)
  <2>1. SUFFICES ASSUME NEW k \in 1 .. W
                 PROVE  \/ \E i \in 1 .. K + 1 : k = 2 * i - 1 /\ i - 1 \in Nat /\ e(k) = odd(i - 1)
                        \/ \E i \in 1 .. K : k = 2 * i /\ e(k) = even(i)
    OBVIOUS
  <2>. DEFINE m == k \div 2
  <2>. HIDE DEF K
  <2>2. k % 2 = 1 => m + 1 \in 1 .. K + 1 /\ k = 2 * (m + 1) - 1 /\ (m + 1) - 1 = m /\ m \in Nat
    BY <1>1
  <2>3. k % 2 # 1 => m \in 1 .. K /\ k = 2 * m
    BY <1>1
  <2>4. /\ k % 2 = 1 => e(k) = odd(m)
        /\ k % 2 # 1 => e(k) = even(m)
    OBVIOUS
  <2>. HIDE DEF m, e, odd, even
  <2>5. CASE k % 2 = 1
    <3>1. /\ m + 1 \in 1 .. K + 1 /\ k = 2 * (m + 1) - 1
          /\ (m + 1) - 1 \in Nat /\ e(k) = odd((m + 1) - 1)
      BY <2>2, <2>4, <2>5
    <3>2. QED
      BY <3>1
  <2>6. CASE k % 2 # 1
    BY <2>3, <2>4, <2>6
  <2>7. QED
    BY <2>5, <2>6
<1>5. \A i \in 1 .. K : e(2 * i - 1) = odd(i - 1) /\ e(2 * i) = even(i) /\ e(2 * i + 1) = odd(i)
  <2>1. \A i \in 1 .. K : /\ (2 * i - 1) % 2 = 1 /\ (2 * i - 1) \div 2 = i - 1
                          /\ (2 * i) % 2 # 1 /\ (2 * i) \div 2 = i
                          /\ (2 * i + 1) % 2 = 1 /\ (2 * i + 1) \div 2 = i
    BY <1>1
  <2>. HIDE DEF odd, even, K
  <2>2. QED
    BY <2>1
<1>6. W \in Nat /\ W >= 1
  BY <1>1
<1>. HIDE DEF e, odd, even, W, root
<1>7. \A k \in 1 .. W : e(k) \in Points /\ Canonical(e(k))
  BY <1>2, <1>3, <1>4
<1>8. PICK g \in Seq(Points) : Len(g) = W /\ \A k \in 1 .. W : g[k] = e(k)
  <2>1. [k \in 1 .. W |-> e(k)] \in Seq(Points) /\ Len([k \in 1 .. W |-> e(k)]) = W
    BY <1>6, <1>7, IsASeq, LenProperties
  <2>2. QED
    BY <2>1
<1>9. ASSUME NEW k \in 1 .. Len(todo')
      PROVE  Needs(todo'[k], g[k]) /\ Weakens(After(todo'[k], g[k]), g[k + 1])
  <2>1. k \in 1 .. W /\ k + 1 \in 1 .. W /\ k # W
    BY <1>1 DEF W
  <2>2. g[k] = e(k) /\ g[k + 1] = e(k + 1)
    BY <1>8, <2>1
  <2>3. CASE \E i \in 1 .. K + 1 : k = 2 * i - 1 /\ i - 1 \in Nat /\ e(k) = odd(i - 1)
    <3>1. PICK i \in 1 .. K + 1 : k = 2 * i - 1 /\ i - 1 \in Nat /\ e(k) = odd(i - 1)
      BY <2>3
    <3>2. i \in 1 .. K /\ k + 1 = 2 * i
      BY <1>1, <2>1, <3>1 DEF W
    <3>3. g[k] = odd(i - 1) /\ g[k + 1] = even(i)
      BY <1>5, <2>2, <3>1, <3>2
    <3>4. todo'[k] = Task("eval", root(i))
      BY <1>1, <3>1, <3>2
    <3>5. After(todo'[k], g[k]) = even(i) /\ Needs(todo'[k], g[k])
      <4>1. todo'[k].do = "eval" /\ todo'[k].node = root(i)
        BY <3>4 DEF Task
      <4>2. Pushed(odd(i - 1), TypeAt(root(i))) = even(i)
        BY DEF odd, even
      <4>3. QED
        BY <3>3, <4>1, <4>2 DEF After, Needs
    <3>6. Weakens(even(i), even(i))
      BY <1>3, <3>2, WeakensItself
    <3>7. QED
      BY <3>3, <3>5, <3>6
  <2>4. CASE \E i \in 1 .. K : k = 2 * i /\ e(k) = even(i)
    <3>1. PICK i \in 1 .. K : k = 2 * i /\ e(k) = even(i)
      BY <2>4
    <3>2. g[k] = even(i) /\ g[k + 1] = odd(i) /\ i \in Nat
      BY <1>5, <2>2, <3>1
    <3>3. todo'[k] = Task("print", root(i))
      BY <1>1, <3>1
    <3>4. todo'[k].do = "print" /\ todo'[k].node = root(i)
      BY <3>3 DEF Task
    <3>5. (i - 1) + 1 = i /\ i \in 1 .. Len(prog.root)
      BY <3>2 DEF K
    <3>6. After(todo'[k], g[k]) = odd(i)
      BY <1>3, <3>2, <3>4, <3>5 DEF After, odd
    <3>7. Needs(todo'[k], g[k])
      <4>. DEFINE q == g[k]
                  n == root(i)
      <4>1. /\ q.c + 1 = i /\ q.d = Level(q.c) + 1
            /\ n # nullptr => q.slot[q.d] = value_type[n]
        BY <1>3, <3>2, <3>5 DEF TypeAt
      <4>2. n = prog.root[i]
        BY DEF root
      <4>. HIDE DEF q, n
      <4>3. QED
        BY <3>4, <3>5, <4>1, <4>2 DEF Needs, q, n
    <3>8. Weakens(odd(i), odd(i))
      BY <1>2, <3>2, WeakensItself
    <3>9. QED
      BY <3>2, <3>6, <3>7, <3>8
  <2>5. QED
    BY <1>4, <2>1, <2>3, <2>4
<1>10. \A k \in 1 .. Len(todo') + 1 : Canonical(g[k])
  BY <1>1, <1>7, <1>8 DEF W
<1>11. Leads(g)'
  <2>1. UNCHANGED <<prog, value_type>>
    BY DEF BeginMain
  <2>2. \A task, p : (Needs(task, p)' <=> Needs(task, p)) /\ After(task, p)' = After(task, p)
    BY <2>1, NeedsSame
  <2>3. Len(g) = Len(todo') + 1
    BY <1>1, <1>8 DEF W
  <2>4. QED
    BY <1>9, <1>10, <2>2, <2>3 DEF Leads
<1>12. g[1] = AtStatement(0)
  <2>1. 1 \in 1 .. W
    BY <1>6
  <2>2. e(1) = odd(0)
    <3>1. 1 % 2 = 1 /\ 1 \div 2 = 0
      OBVIOUS
    <3>2. QED
      BY <3>1 DEF e
  <2>3. QED
    BY <1>8, <2>1, <2>2 DEF odd
<1>13. QED
  BY <1>11, <1>12

(* The prologue leads to the first statement. *)
LEMMA BeginMainTyped ==
  ASSUME CompilerTypeOK, NoPointers, TypesFollow, VisitsTyped, CheckerInv, BeginMain
  PROVE  TypedTodo'
<1>1. /\ UNCHANGED <<prog, value_type, m_IntCount, m_FloatCount, m_PtrCount, m_VarTable>>
      /\ code' = Prologue(get_alloc_size)
  BY DEF BeginMain
<1>2. PICK g \in Seq(Points) : Leads(g)' /\ g[1] = AtStatement(0)
  BY BeginLeads
<1>. DEFINE a == AtStatement(0)
<1>3. a \in Points
  BY AtStatementParts
<1>4. PICK L : L \in [Nat -> Points] /\ \A i \in Nat : L[i] = a
  <2>. HIDE DEF a
  <2>. DEFINE f == [i \in Nat |-> a]
  <2>1. f \in [Nat -> Points] /\ \A i \in Nat : f[i] = a
    BY <1>3
  <2>. HIDE DEF f
  <2>2. QED
    BY <2>1
<1>5. PICK S : S \in [Nat -> Kinds]
  <2>1. [i \in Nat |-> "ANY"] \in [Nat -> Kinds]
    BY KindType
  <2>2. QED
    BY <2>1
<1>6. Shaped'
  <2>. DEFINE K == Len(prog.root)
  <2>1. /\ K \in Nat /\ Len(todo') = 2 * K
        /\ \A i \in 1 .. K : /\ todo'[2 * i - 1] = Task("eval", prog.root[i])
                             /\ todo'[2 * i] = Task("print", prog.root[i])
    BY BeginTasks
  <2>2. ASSUME NEW k \in 1 .. Len(todo')
        PROVE  /\ todo'[k].do # "test"
               /\ todo'[k] = Task("eval", nullptr) =>
                    k + 1 \in 1 .. Len(todo') /\ todo'[k + 1] = Task("print", nullptr)
    <3>. HIDE DEF K
    <3>1. (\E i \in 1 .. K : k = 2 * i - 1) \/ (\E i \in 1 .. K : k = 2 * i)
      <4>0. K \in Nat /\ k \in 1 .. 2 * K
        BY <2>1
      <4>1. k % 2 = 1 => (k + 1) \div 2 \in 1 .. K /\ k = 2 * ((k + 1) \div 2) - 1
        BY <4>0
      <4>2. k % 2 # 1 => k \div 2 \in 1 .. K /\ k = 2 * (k \div 2)
        BY <4>0
      <4>3. QED
        BY <4>1, <4>2
    <3>2. CASE \E i \in 1 .. K : k = 2 * i - 1
      <4>1. PICK i \in 1 .. K : k = 2 * i - 1
        BY <3>2
      <4>2. k + 1 = 2 * i /\ k + 1 \in 1 .. Len(todo')
        BY <2>1, <4>1
      <4>3. todo'[k] = Task("eval", prog.root[i]) /\ todo'[k + 1] = Task("print", prog.root[i])
        BY <2>1, <4>1, <4>2
      <4>4. QED
        BY <4>2, <4>3 DEF Task
    <3>3. CASE \E i \in 1 .. K : k = 2 * i
      <4>1. PICK i \in 1 .. K : todo'[k] = Task("print", prog.root[i])
        BY <2>1, <3>3
      <4>2. QED
        BY <4>1 DEF Task
    <3>4. QED
      BY <3>1, <3>2, <3>3
  <2>3. QED
    BY <2>2 DEF Shaped
<1>7. Waits(L, g)'
  <2>1. code' \in Seq(PlainInsts)
    BY BeginMainType
  <2>2. \A i \in 1 .. Len(code') : code'[i] \in PlainInsts
    BY <2>1, ElementOfSeq
  <2>3. Jumps(code') = {}
    BY <2>2 DEF Jumps, PlainInsts, Control
  <2>4. ~ Waiting(code', m_CurrentSubLabel')
    BY <2>3 DEF Waiting
  <2>5. QED
    BY <2>4 DEF Waits
<1>8. TypedVariables(S)'
  BY <1>1 DEF TypedVariables, CheckerInv
<1>9. TypedTo(code, L, S, m_BPOffset, g[1])'
  <2>1. Len(code') = 6
    BY <1>1 DEF Prologue
  <2>2. L[7] = a /\ L[Len(code') + 1] = a
    BY <1>4, <2>1
  <2>3. TypedCode(code', L, S, m_BPOffset', L)
    <3>1. \A i \in 7 .. Len(code') : FALSE
      BY <2>1
    <3>2. QED
      BY <1>1, <2>1, <2>2, <3>1 DEF TypedCode
  <2>4. TypedTo(code', L, S, m_BPOffset', g[1])
    BY <1>2, <1>4, <2>2, <2>3 DEF TypedTo
  <2>5. QED
    BY <1>1, <2>4, TypedToSame
<1>10. EmitTyped(L, S, g)'
  BY <1>2, <1>7, <1>8, <1>9 DEF EmitTyped
<1>11. QED
  BY <1>2, <1>4, <1>5, <1>6, <1>10 DEF TypedTodo

(* No node has a type at the start.                                        *)
LEMMA NoPointersInit ==
  ASSUME CompilerInit
  PROVE  NoPointers
  BY DEF CompilerInit, CheckerInit, NoPointers, Ids

(* The checker makes no pointer of operands that are none. *)
LEMMA NoPointersStep ==
  ASSUME CompilerTypeOK, EffectInv, NoPointers, CompilerNext
  PROVE  NoPointers'
<1>1. CASE UNCHANGED <<prog, value_type, Scope>>
  BY <1>1 DEF NoPointers, Ids
<1>2. CASE Returning /\ status' = "checking"
  <2>. DEFINE n == visits[1].node
  <2>1. /\ prog' = prog /\ IsProgram(prog) /\ Ids' = Ids /\ status = "checking"
    BY <1>2, CheckerHead DEF Returning, CheckerNext
  <2>2. TypesFollow /\ VisitsTyped
    BY <2>1 DEF EffectInv
  <2>3. /\ n \in Ids
        /\ \A o \in OperandsOf(n) : Typed(o)
        /\ value_type' = [value_type EXCEPT ![n] = TypeOf(n)]
    BY <1>2, <2>2, ReturnsTypeOf
  <2>4. value_type \in [Ids -> ValueTypes] /\ Scope \in [Names -> ValueTypes \cup {"UNBOUND"}]
    BY DEF CompilerTypeOK, CheckerTypeOK
  <2>5. /\ Node(n) \in Nodes /\ WellFormed(prog.node, n)
        /\ OperandsOf(n) \subseteq Ids
    BY <2>1, <2>3, NodeProperties, OperandsBefore DEF Node
  <2>6. \A o \in OperandsOf(n) : value_type[o] \in {"INT", "FLOAT"}
    BY <2>3, <2>4, <2>5 DEF NoPointers, Typed, ValueTypes
  <2>7. TypeOf(n) # "POINTER"
    <3>1. CASE Node(n).type = "NUM"
      BY <2>5, <3>1 DEF TypeOf, WellFormed, Node, NumberTokens
    <3>2. CASE Node(n).type = "ACCESS"
      BY <2>5, <3>2 DEF TypeOf, WellFormed, Node, NoPointers
    <3>3. CASE Node(n).type = "BINOP"
      <4>1. TypeOf(n) = BinOpType(Node(n)) /\ OperandsOf(n) = {Node(n).left, Node(n).right}
        BY <3>3 DEF TypeOf, OperandsOf
      <4>2. /\ value_type[Node(n).left] \in {"INT", "FLOAT"}
            /\ value_type[Node(n).right] \in {"INT", "FLOAT"}
        BY <2>6, <4>1
      <4>3. QED
        BY <4>1, <4>2 DEF BinOpType, ArithType
    <3>4. CASE Node(n).type = "UNRYOP"
      <4>1. /\ TypeOf(n) = (IF Node(n).op = "NOT" THEN "INT" ELSE value_type[Node(n).right])
            /\ OperandsOf(n) = {Node(n).right}
        BY <3>4 DEF TypeOf, OperandsOf
      <4>2. QED
        BY <2>6, <4>1
    <3>5. CASE Node(n).type = "ASSIGN"
      <4>1. TypeOf(n) = value_type[Node(n).right] /\ OperandsOf(n) = {Node(n).right}
        BY <3>5 DEF TypeOf, OperandsOf
      <4>2. QED
        BY <2>6, <4>1
    <3>6. QED
      BY <2>5, <3>1, <3>2, <3>3, <3>4, <3>5 DEF Nodes, NodeTypes
  <2>8. \A m \in Ids : value_type'[m] # "POINTER"
    BY <2>3, <2>4, <2>7 DEF NoPointers
  <2>9. \A x \in Names : Scope'[x] # "POINTER"
    <3>1. CASE ReturnAssign
      <4>1. Node(n).type = "ASSIGN" /\ Scope' = Emplace(Node(n).name, value_type[Node(n).right])
        BY <3>1 DEF ReturnAssign, Visiting
      <4>2. value_type[Node(n).right] \in {"INT", "FLOAT"}
        BY <2>6, <4>1 DEF OperandsOf
      <4>3. QED
        BY <2>4, <4>1, <4>2 DEF Emplace, NoPointers
    <3>2. CASE Scope' = Scope
      BY <3>2 DEF NoPointers
    <3>3. QED
      BY <1>2, <3>1, <3>2 DEF Returning, CheckNum, CheckAccess, ReturnBinop, ReturnUnryop
  <2>10. QED
    BY <2>1, <2>8, <2>9 DEF NoPointers
<1>3. CheckerNext => UNCHANGED <<prog, value_type, Scope>> \/ (Returning /\ status' = "checking")
  BY DEF CheckerNext, Descend, CheckNull, CheckNum, CheckAccess, ReturnBinop, ReturnUnryop,
         ReturnAssign, Returning, Visiting
<1>4. BeginMain \/ EmitterSteps => UNCHANGED <<prog, value_type, Scope>>
  BY EmitterFrame DEF BeginMain
<1>5. QED
  BY <1>1, <1>2, <1>3, <1>4 DEF CompilerNext, EmitterSteps, PlainSteps

(* The epilogue is written behind code that is typed to its end. *)
LEMMA EndMainTyped ==
  ASSUME EmitterFacts, CompilerTypeOK', EndMain, cpu' = "idle",
         NEW L \in [Nat -> Points], NEW S \in [Nat -> Kinds],
         NEW g \in Seq(Points), EmitTyped(L, S, g)
  PROVE  TypedRun'
<1>1. /\ status = "emitting" /\ todo = <<>> /\ code' = code \o Epilogue
      /\ UNCHANGED <<prog, value_type, m_IntCount, m_FloatCount, m_PtrCount, m_BPOffset>>
  BY DEF EndMain, Write
<1>2. code \in Seq(Instructions) /\ Epilogue \in Seq(Instructions) /\ Len(Epilogue) = 5
  BY EpiloguePlain, PlainSubset DEF EmitterFacts, CompilerTypeOK, Epilogue
<1>3. TypedTo(code, L, S, m_BPOffset, g[1])
  BY <1>1 DEF EmitTyped, Doomed
<1>4. PICK P \in [Nat -> Points] : TypedCode(code, L, S, m_BPOffset, P)
  BY <1>3 DEF TypedTo
<1>5. PICK e \in Nat, c \in Seq(Instructions), B \in {m_BPOffset} : e = Len(code) /\ c = code
  BY <1>2, LenProperties
<1>6. /\ TypedCode(c, L, S, B, P)
      /\ e >= 6
  BY <1>2, <1>4, <1>5 DEF TypedCode
<1>7. /\ Len(code') = e + 5
      /\ \A i \in 1 .. 5 : e + i \in 1 .. Len(code') /\ code'[e + i] = Epilogue[i]
  <2>1. PICK d \in Seq(Instructions) : d = Epilogue /\ Len(d) = 5
    BY <1>2
  <2>2. code \in Seq(Instructions) /\ code' = code \o d
    BY <1>1, <1>2, <2>1
  <2>3. /\ Len(code \o d) = Len(code) + Len(d)
        /\ \A i \in 1 .. Len(d) : /\ Len(code) + i \in 1 .. Len(code \o d)
                                  /\ (code \o d)[Len(code) + i] = d[i]
    BY <2>2, ConcatParts
  <2>4. QED
    BY <1>5, <2>1, <2>2, <2>3
<1>8. SubSeq(code', 1, e) = c
  <2>1. SubSeq(code', 1, e) = SubSeq(code, 1, e)
    BY <1>1, <1>2, <1>5, <1>6, SubSeqOfConcat1
  <2>2. QED
    BY <1>2, <1>5, <2>1, SubSeqFull
<1>9. TypedCode(c, L, S, B, P)'
  BY <1>1, <1>6, TypedCodeSame
<1>10. TypedCode(SubSeq(code, 1, e), L, S, m_BPOffset, P)'
  BY <1>1, <1>5, <1>8, <1>9
<1>11. /\ (e + 5 = Len(code))'
       /\ (\A i \in 1 .. 5 : code[e + i] = Epilogue[i])'
  BY <1>7 DEF Epilogue
<1>12. RunTyped(L, S, P, e)'
  BY <1>10, <1>11 DEF RunTyped
<1>13. QED
  BY <1>12 DEF TypedRun

(* What is known of the compiler. *)
CompilerFacts ==
  /\ CompilerTypeOK /\ LabelInv /\ PassesInv /\ BoundWhereUsed
  /\ InTextOrder(prog) /\ Unnested(prog) /\ NoPointers /\ TypedTodo

(* What is known of the compiler while it writes main. *)
LEMMA FactsOfEmitter ==
  ASSUME CompilerFacts, status = "emitting"
  PROVE  /\ EmitterFacts
         /\ \E L \in [Nat -> Points], S \in [Nat -> Kinds], g \in Seq(Points) : EmitTyped(L, S, g)
  BY DEF CompilerFacts, EmitterFacts, PassesInv, EffectInv, TypedTodo

(* Every step of the compiler keeps the typing of what it has written. *)
LEMMA TypedTodoStep ==
  ASSUME CompilerFacts, CompilerNext
  PROVE  TypedTodo'
<1>1. CompilerTypeOK'
  BY CompilerTypeStep DEF CompilerFacts
<1>2. CASE CheckerNext
  <2>1. status' # "emitting"
    BY <1>2, CheckerHead DEF CompilerFacts
  <2>2. QED
    BY <2>1 DEF TypedTodo
<1>3. CASE BeginMain
  <2>1. status = "checking"
    BY <1>3 DEF BeginMain
  <2>2. CompilerTypeOK /\ NoPointers /\ TypesFollow /\ VisitsTyped /\ CheckerInv
    BY <2>1 DEF CompilerFacts, PassesInv, EffectInv
  <2>3. QED
    BY <1>3, <2>2, BeginMainTyped
<1>4. CASE EmitterSteps
  <2>1. /\ status = "emitting"
        /\ status' = CASE FinishSub -> "assert"
                       [] PrintNullStatement -> "segfault"
                       [] EndMain -> "compiled"
                       [] OTHER -> "emitting"
    BY <1>4, EmitterFrame
  <2>2. EmitterFacts
    BY <2>1, FactsOfEmitter
  <2>3. PICK L \in [Nat -> Points], S \in [Nat -> Kinds], g \in Seq(Points) : EmitTyped(L, S, g)
    BY <2>1, FactsOfEmitter
  <2>4. CASE FinishSub \/ PrintNullStatement \/ EndMain
    <3>1. status' # "emitting"
      BY <2>1, <2>4
    <3>2. QED
      BY <3>1 DEF TypedTodo
  <2>5. CASE EvalOperands
    BY <1>1, <2>2, <2>3, <2>5, EvalOperandsTyped
  <2>6. CASE EvalNull
    BY <1>1, <2>2, <2>3, <2>6, EvalNullTyped
  <2>7. CASE TestLeft
    BY <1>1, <2>2, <2>3, <2>7, TestLeftTyped
  <2>8. CASE FinishLogic
    BY <1>1, <2>2, <2>3, <2>8, FinishLogicTyped
  <2>9. CASE EvalNumber \/ EvalAccess \/ FinishBinop \/ FinishNot \/ FinishAssign \/ PrintStatement
    BY <1>1, <2>2, <2>3, <2>9, PlainTyped
  <2>10. QED
    BY <1>4, <2>4, <2>5, <2>6, <2>7, <2>8, <2>9 DEF EmitterSteps, PlainSteps
<1>5. QED
  BY <1>2, <1>3, <1>4 DEF CompilerNext, EmitterSteps, PlainSteps

(* It holds as long as nothing changes. *)
LEMMA TypedTodoStutter ==
  ASSUME TypedTodo, UNCHANGED compilerVars
  PROVE  TypedTodo'
<1>1. /\ UNCHANGED <<prog, value_type, m_IntCount, m_FloatCount, m_PtrCount, status>>
      /\ UNCHANGED <<code, m_VarTable, m_BPOffset, m_CurrentSubLabel, todo>>
  BY DEF compilerVars, checkerVars, emitterVars
<1>2. SUFFICES ASSUME status' = "emitting"
               PROVE  /\ Shaped'
                      /\ (\E L \in [Nat -> Points], S \in [Nat -> Kinds], g \in Seq(Points) :
                            EmitTyped(L, S, g))'
  BY DEF TypedTodo
<1>3. PICK L \in [Nat -> Points], S \in [Nat -> Kinds], g \in Seq(Points) : EmitTyped(L, S, g)
  BY <1>1, <1>2 DEF TypedTodo
<1>4. Shaped'
  BY <1>1, <1>2 DEF TypedTodo, Shaped, Logic, Node, Ids
<1>5. /\ \A task, p : /\ Needs(task, p)' <=> Needs(task, p)
                      /\ After(task, p)' = After(task, p)
      /\ \A t, n : Inner(t, n)' <=> Inner(t, n)
  BY <1>1, NeedsSame
<1>6. Leads(g)'
  BY <1>1, <1>3, <1>5 DEF EmitTyped, Leads
<1>7. Waits(L, g)'
  BY <1>1, <1>3, <1>5 DEF EmitTyped, Waits, Waiting, Jumps, FinishesLogic, Node
<1>8. TypedVariables(S)'
  BY <1>1, <1>3 DEF EmitTyped, TypedVariables
<1>9. PICK c, B, q : c = code /\ B = m_BPOffset /\ q = g[1]
  OBVIOUS
<1>10. TypedTo(c, L, S, B, q)' <=> TypedTo(c, L, S, B, q)
  BY <1>1, TypedToSame
<1>11. (~ Doomed => TypedTo(code, L, S, m_BPOffset, g[1]))'
  BY <1>1, <1>3, <1>9, <1>10 DEF EmitTyped, Doomed
<1>12. EmitTyped(L, S, g)'
  BY <1>6, <1>7, <1>8, <1>11 DEF EmitTyped
<1>13. QED
  BY <1>4, <1>12

(* And the typing of the whole of it. *)
LEMMA NoPointersStutter ==
  ASSUME NoPointers, UNCHANGED compilerVars
  PROVE  NoPointers'
  BY DEF NoPointers, Ids, compilerVars, checkerVars

-----------------------------------------------------------------------------
(* The processor.                                                          *)

(* What an instruction stores is all that changes in memory. *)
LEMMA LoadStored ==
  ASSUME NEW a, NEW w, Store(a, w)
  PROVE  \A b : Load(b)' = IF b = a THEN w ELSE Load(b)
<1>1. \A b : b \in DOMAIN mem' <=> b = a \/ b \in DOMAIN mem
  BY DEF Store
<1>2. \A b \in DOMAIN mem' : mem'[b] = IF b = a THEN w ELSE mem[b]
  BY DEF Store
<1>3. QED
  BY <1>1, <1>2 DEF Load

(* A C function keeps the words above its arguments and forgets the others. *)
LEMMA LoadClobbered ==
  ASSUME NEW args, Clobber(args)
  PROVE  \A b : Load(b)' = Load(b) \/ Load(b)' = Undef
<1>1. \A b \in DOMAIN mem' : b \in DOMAIN mem /\ mem'[b] = mem[b]
  BY DEF Clobber
<1>2. QED
  BY <1>1 DEF Load

(* The frame stays where it is. *)
LEMMA SlotSame ==
  ASSUME UNCHANGED <<ebp, m_IntCount, m_FloatCount, m_PtrCount>>
  PROVE  get_alloc_size' = get_alloc_size /\ \A j : Slot(j)' = Slot(j)
  BY DEF Slot, get_alloc_size

(* A word of which more is known is one of which less is known. *)
LEMMA AtWeaker ==
  ASSUME NEW S, NEW p, NEW q, AtPoint(S, p)', Weakens(p, q)
  PROVE  AtPoint(S, q)'
<1>1. /\ q.d = p.d /\ q.c = p.c
      /\ q.eax \in {"ANY", p.eax}
      /\ \A j \in Places : q.slot[j] \in {"ANY", p.slot[j]}
  BY DEF Weakens
<1>2. \A w : Fits(w, "ANY")
  BY DEF Fits
<1>3. Slot(q.d)' = Slot(p.d)'
  BY <1>1
<1>4. RegistersFit(q.eax)'
  BY <1>1, <1>2 DEF AtPoint, RegistersFit
<1>5. WordsFit(S, q.slot)'
  BY <1>1, <1>2 DEF AtPoint, WordsFit
<1>6. QED
  BY <1>1, <1>3, <1>4, <1>5 DEF AtPoint

(* The words that operations leave. *)
LEMMA ResultsFit ==
  /\ \A i : Fits(IntWord(i), "INT")
  /\ \A n, d : Fits(FloatWord(n, d), "FLOAT")
  /\ \A t : Fits(Undef, t)
  /\ \A b : Fits(Truth(b), "INT")
  /\ \A w : Fits(w, "ANY") /\ Fits(Converted(w), "FLOAT")
  BY DEF Fits, IntWord, FloatWord, Undef, Truth, Word, Converted, ToFloat

(* What is known where the body of main runs. *)
Body(S, p) ==
  /\ AtPoint(S, p)
  /\ esp \in Int /\ ebp \in Int
  /\ DOMAIN reg = GeneralRegisters
  /\ get_alloc_size \in Nat /\ m_BPOffset \in Nat /\ m_BPOffset - 4 <= get_alloc_size

(* An operand is of the kind that the point says. *)
LEMMA GetFits ==
  ASSUME NEW S \in [Nat -> Kinds], NEW p \in Points, Body(S, p), NEW o \in InstOperands,
         Readable(p, m_BPOffset, o)
  PROVE  Fits(Get(o), KindOf(p, S, o))
<1>1. /\ RegistersFit(p.eax) /\ WordsFit(S, p.slot) /\ esp = Slot(p.d)
      /\ esp \in Int /\ ebp \in Int /\ p.d \in Nat
      /\ get_alloc_size \in Nat /\ m_BPOffset \in Nat /\ m_BPOffset - 4 <= get_alloc_size
  BY PointParts DEF Body, AtPoint
<1>2. CASE o \in {EAX, ECX, AL, CL, XMM0, XMM1}
  <2>1. Get(o) = reg[o.name] /\ o.mode = "reg"
    BY <1>2, RegisterParts DEF Get
  <2>2. QED
    BY <1>1, <1>2, <2>1, RegisterParts DEF KindOf, RegistersFit
<1>3. CASE o.mode = "imm"
  BY <1>3, ResultsFit DEF Get, KindOf
<1>4. CASE o.mode = "float"
  BY <1>4, ResultsFit DEF Get, KindOf
<1>5. CASE o.mode = "sym"
  BY <1>5, ResultsFit DEF KindOf
<1>6. CASE OnStack(p, o)
  <2>1. o.mode = "deref" /\ o.name = "ESP" /\ ((o.n = 0 /\ p.d >= 1) \/ (o.n = 4 /\ p.d >= 2))
    BY <1>6 DEF OnStack
  <2>2. Get(o) = Load(esp + o.n) /\ KindOf(p, S, o) = p.slot[Place(p, o.n)]
    BY <2>1 DEF Get, KindOf, Address
  <2>3. Place(p, o.n) \in Places \ {0} /\ esp + o.n = Slot(Place(p, o.n))
    BY <1>1, <2>1 DEF Place, Places, Slot
  <2>4. QED
    BY <1>1, <2>2, <2>3 DEF WordsFit
<1>7. CASE InFrame(m_BPOffset, o)
  <2>1. o.mode = "deref" /\ o.name = "EBP" /\ -o.n \in 1 .. m_BPOffset - 4 /\ o.n \in Int
    BY <1>7 DEF InFrame, InstOperands
  <2>2. Get(o) = Load(ebp + o.n) /\ KindOf(p, S, o) = S[-o.n]
    BY <2>1 DEF Get, KindOf, Address
  <2>3. -o.n \in 1 .. get_alloc_size /\ ebp + o.n = ebp - (-o.n)
    BY <1>1, <2>1
  <2>4. QED
    BY <1>1, <2>2, <2>3 DEF WordsFit
<1>8. QED
  BY <1>2, <1>3, <1>4, <1>5, <1>6, <1>7 DEF Readable

(* The next instruction leads from point p to point q. *)
Executes(L, S, p, q) ==
  Body(S, p) /\ I \in Instructions /\ Runs(I, L, S, m_BPOffset, p, q)

(* While the program runs the compiler does nothing. *)
LEMMA CompilerRests ==
  ASSUME UNCHANGED compilerVars
  PROVE  /\ UNCHANGED <<prog, value_type, Scope, m_IntCount, m_FloatCount, m_PtrCount, status>>
         /\ UNCHANGED <<code, m_VarTable, m_BPOffset, m_CurrentSubLabel, todo>>
         /\ get_alloc_size' = get_alloc_size
  BY DEF compilerVars, checkerVars, emitterVars, get_alloc_size

(* What of an instruction there is to know. *)
LEMMA InstructionParts ==
  ASSUME I \in Instructions
  PROVE  I.a \in InstOperands /\ I.b \in InstOperands /\ I.op \in InstTypes
  BY DEF Instructions

(* Words that stay, or of which nothing is known any more, still fit. *)
LEMMA WordsKept ==
  ASSUME UNCHANGED <<ebp, m_IntCount, m_FloatCount, m_PtrCount>>,
         NEW S, NEW slot, WordsFit(S, slot), \A b : Load(b)' = Load(b) \/ Load(b)' = Undef
  PROVE  WordsFit(S, slot)'
<1>1. \A w, t : Fits(w, t) => \A v : v = w \/ v = Undef => Fits(v, t)
  BY ResultsFit
<1>2. get_alloc_size' = get_alloc_size /\ \A j : Slot(j)' = Slot(j)
  BY SlotSame
<1>3. \A j \in Places \ {0} : Fits(Load(Slot(j)), slot[j])'
  BY <1>1, <1>2 DEF WordsFit
<1>4. \A o \in 1 .. get_alloc_size' : Fits(Load(ebp - o), S[o])'
  BY <1>1, <1>2 DEF WordsFit
<1>5. QED
  BY <1>3, <1>4 DEF WordsFit

(* So do the registers, but for the ones that are written with what fits. *)
LEMMA RegistersKept ==
  ASSUME NEW t, RegistersFit(t), NEW u, Fits(reg'["EAX"], u),
         \A r \in {"ECX", "AL", "CL", "XMM0", "XMM1"} :
           \/ reg'[r] = reg[r]
           \/ r \in {"ECX", "AL", "CL"} /\ Fits(reg'[r], "INT")
           \/ r \in {"XMM0", "XMM1"} /\ Fits(reg'[r], "FLOAT")
  PROVE  RegistersFit(u)'
  BY DEF RegistersFit

(* A word of the stack is written. *)
LEMMA WordStored ==
  ASSUME UNCHANGED <<ebp, m_IntCount, m_FloatCount, m_PtrCount>>,
         ebp \in Int, get_alloc_size \in Nat,
         NEW S, NEW slot, WordsFit(S, slot), NEW k \in Places \ {0}, NEW w, NEW t, Fits(w, t),
         Store(Slot(k), w), NEW slot2, \A j \in Places : slot2[j] = IF j = k THEN t ELSE slot[j]
  PROVE  WordsFit(S, slot2)'
<1>1. get_alloc_size' = get_alloc_size /\ \A j : Slot(j)' = Slot(j)
  BY SlotSame
<1>2. \A b : Load(b)' = IF b = Slot(k) THEN w ELSE Load(b)
  BY LoadStored
<1>3. \A j \in Places \ {0} : Fits(Load(Slot(j)), slot2[j])'
  <2>1. TAKE j \in Places \ {0}
  <2>2. j \in Nat /\ (Slot(j) = Slot(k) <=> j = k)
    BY DEF Slot, Places
  <2>3. Load(Slot(j))' = IF j = k THEN w ELSE Load(Slot(j))
    BY <1>1, <1>2, <2>2
  <2>4. Fits(Load(Slot(j)), slot[j])
    BY DEF WordsFit
  <2>5. QED
    BY <2>3, <2>4
<1>4. \A o \in 1 .. get_alloc_size' : Fits(Load(ebp - o), S[o])'
  <2>1. TAKE o \in 1 .. get_alloc_size'
  <2>2. ebp - o # Slot(k) /\ o \in 1 .. get_alloc_size
    BY <1>1 DEF Slot, Places
  <2>3. Load(ebp - o)' = Load(ebp - o)
    BY <1>2, <2>2
  <2>4. Fits(Load(ebp - o), S[o])
    BY <2>2 DEF WordsFit
  <2>5. QED
    BY <2>3, <2>4
<1>5. QED
  BY <1>3, <1>4 DEF WordsFit

(* A variable is written. *)
LEMMA VariableStored ==
  ASSUME UNCHANGED <<ebp, m_IntCount, m_FloatCount, m_PtrCount>>,
         ebp \in Int, get_alloc_size \in Nat,
         NEW S, NEW slot, WordsFit(S, slot), NEW v \in 1 .. get_alloc_size,
         NEW w, Fits(w, S[v]), Store(ebp - v, w)
  PROVE  WordsFit(S, slot)'
<1>1. get_alloc_size' = get_alloc_size /\ \A j : Slot(j)' = Slot(j)
  BY SlotSame
<1>2. \A b : Load(b)' = IF b = ebp - v THEN w ELSE Load(b)
  BY LoadStored
<1>3. \A j \in Places \ {0} : Fits(Load(Slot(j)), slot[j])'
  <2>1. TAKE j \in Places \ {0}
  <2>2. Slot(j) # ebp - v
    BY DEF Slot, Places
  <2>3. Load(Slot(j))' = Load(Slot(j))
    BY <1>1, <1>2, <2>2
  <2>4. Fits(Load(Slot(j)), slot[j])
    BY DEF WordsFit
  <2>5. QED
    BY <2>3, <2>4
<1>4. \A o \in 1 .. get_alloc_size' : Fits(Load(ebp - o), S[o])'
  <2>1. TAKE o \in 1 .. get_alloc_size'
  <2>2. (ebp - o = ebp - v <=> o = v) /\ o \in 1 .. get_alloc_size
    BY <1>1
  <2>3. Load(ebp - o)' = IF o = v THEN w ELSE Load(ebp - o)
    BY <1>2, <2>2
  <2>4. Fits(Load(ebp - o), S[o])
    BY <2>2 DEF WordsFit
  <2>5. QED
    BY <2>3, <2>4
<1>5. QED
  BY <1>3, <1>4 DEF WordsFit

(* What the point says of the machine. *)
LEMMA BodyParts ==
  ASSUME NEW S, NEW p \in Points, Body(S, p)
  PROVE  /\ p.d \in Nat /\ p.c \in Nat
         /\ esp = Slot(p.d) /\ esp \in Int /\ ebp \in Int
         /\ get_alloc_size \in Nat /\ m_BPOffset \in Nat /\ m_BPOffset - 4 <= get_alloc_size
         /\ Len(printed) = p.c /\ RegistersFit(p.eax) /\ WordsFit(S, p.slot)
         /\ DOMAIN reg = GeneralRegisters
  BY PointParts DEF Body, AtPoint

(* The places around the one that ESP points to. *)
LEMMA SlotsNear ==
  ASSUME NEW S, NEW p \in Points, Body(S, p)
  PROVE  /\ esp - 4 = Slot(p.d + 1)
         /\ p.d >= 1 => esp + 4 = Slot(p.d - 1)
         /\ p.d >= 2 => esp + 8 = Slot(p.d - 2)
<1>1. p.d \in Nat /\ esp = Slot(p.d) /\ esp \in Int /\ ebp \in Int /\ get_alloc_size \in Nat
  BY BodyParts
<1>2. QED
  BY <1>1 DEF Slot

(* PUSH. *)
LEMMA PushReaches ==
  ASSUME NEW L, NEW S \in [Nat -> Kinds], NEW p \in Points, NEW q \in Points,
         Executes(L, S, p, q), Push
  PROVE  AtPoint(S, q)'
<1>1. PICK t, w, r : t = KindOf(p, S, I.a) /\ w = Get(I.a) /\ r = Pushed(p, t)
  OBVIOUS
<1>2. I.op = "PUSH" /\ Body(S, p)
  BY DEF Push, Executing, Executes
<1>3. Readable(p, m_BPOffset, I.a) /\ Weakens(r, q)
  BY <1>1, <1>2 DEF Executes, Runs, JumpOps, ScalarOps, SetOps, FlagOps
<1>4. Fits(w, t)
  BY <1>1, <1>2, <1>3, GetFits, InstructionParts DEF Executes
<1>5. /\ p.d \in Nat /\ esp - 4 = Slot(p.d + 1) /\ ebp \in Int /\ get_alloc_size \in Nat
      /\ Len(printed) = p.c /\ RegistersFit(p.eax) /\ WordsFit(S, p.slot)
  BY <1>2, BodyParts, SlotsNear
<1>6. /\ esp' = esp - 4 /\ Store(Slot(p.d + 1), w)
      /\ UNCHANGED compilerVars /\ UNCHANGED <<reg, ebp, printed>>
  BY <1>1, <1>5 DEF Push
<1>7. UNCHANGED <<m_IntCount, m_FloatCount, m_PtrCount>> /\ \A j : Slot(j)' = Slot(j)
  BY <1>6, SlotSame, CompilerRests
<1>8. /\ r.d = p.d + 1 /\ r.c = p.c /\ r.eax = p.eax
      /\ \A i \in Places : r.slot[i] = IF i = p.d + 1 THEN t ELSE p.slot[i]
  BY <1>1 DEF Pushed, Moved, Holding, Points, Places
<1>9. p.d + 1 \in Places \ {0}
  BY <1>5 DEF Places
<1>10. WordsFit(S, r.slot)'
  BY <1>4, <1>5, <1>6, <1>7, <1>8, <1>9, WordStored
<1>11. AtPoint(S, r)'
  BY <1>5, <1>6, <1>7, <1>8, <1>10 DEF AtPoint, RegistersFit
<1>12. QED
  BY <1>3, <1>11, AtWeaker

(* Neither the stack nor the output are written. *)
LEMMA MovedTo ==
  ASSUME UNCHANGED compilerVars, UNCHANGED <<ebp, mem, printed>>,
         NEW S, NEW p \in Points, Body(S, p),
         NEW r, r.c = p.c, r.slot = p.slot, esp' = Slot(r.d), RegistersFit(r.eax)',
         NEW q, Weakens(r, q)
  PROVE  AtPoint(S, q)'
<1>1. UNCHANGED <<m_IntCount, m_FloatCount, m_PtrCount>> /\ \A j : Slot(j)' = Slot(j)
  BY SlotSame, CompilerRests
<1>2. Len(printed) = p.c /\ WordsFit(S, r.slot)
  BY BodyParts
<1>3. \A b : Load(b)' = Load(b)
  BY DEF Load
<1>4. WordsFit(S, r.slot)'
  BY <1>1, <1>2, <1>3, WordsKept
<1>5. AtPoint(S, r)'
  BY <1>1, <1>2, <1>4 DEF AtPoint
<1>6. QED
  BY <1>5, AtWeaker

(* One register is written. *)
LEMMA RegisterWritten ==
  ASSUME DOMAIN reg = GeneralRegisters, NEW t, RegistersFit(t), NEW r, NEW w,
         reg' = [reg EXCEPT ![r] = w]
  PROVE  /\ r = "EAX" => \A u : Fits(w, u) => RegistersFit(u)'
         /\ r \in {"ECX", "AL", "CL"} /\ Fits(w, "INT") => RegistersFit(t)'
         /\ r \in {"XMM0", "XMM1"} /\ Fits(w, "FLOAT") => RegistersFit(t)'
         /\ r \in {"EDX", "EBX"} => RegistersFit(t)'
<1>1. \A s \in GeneralRegisters : reg'[s] = IF s = r THEN w ELSE reg[s]
  OBVIOUS
<1>2. QED
  BY <1>1 DEF RegistersFit, GeneralRegisters

(* POP. *)
LEMMA PopReaches ==
  ASSUME NEW L, NEW S \in [Nat -> Kinds], NEW p \in Points, NEW q \in Points,
         Executes(L, S, p, q), Pop
  PROVE  AtPoint(S, q)'
<1>1. /\ I.op = "POP" /\ Body(S, p)
      /\ reg' = [reg EXCEPT ![I.a.name] = Load(esp)] /\ esp' = esp + 4
      /\ UNCHANGED compilerVars /\ UNCHANGED <<ebp, mem, printed>>
  BY DEF Pop, Executing, Executes
<1>2. /\ p.d >= 1
      /\ \/ I.a = EAX /\ Weakens(InEAX(Moved(p, p.d - 1), p.slot[p.d]), q)
         \/ I.a = ECX /\ p.slot[p.d] = "INT" /\ Weakens(Moved(p, p.d - 1), q)
  BY <1>1 DEF Executes, Runs, JumpOps, ScalarOps, SetOps, FlagOps
<1>3. /\ p.d \in Nat /\ esp = Slot(p.d) /\ esp + 4 = Slot(p.d - 1)
      /\ RegistersFit(p.eax) /\ WordsFit(S, p.slot) /\ DOMAIN reg = GeneralRegisters
  BY <1>1, <1>2, BodyParts, SlotsNear
<1>4. PICK w : w = Load(esp) /\ reg' = [reg EXCEPT ![I.a.name] = w]
  BY <1>1
<1>5. Fits(w, p.slot[p.d])
  <2>1. p.d \in Places \ {0}
    BY <1>2, <1>3 DEF Places
  <2>2. QED
    BY <1>3, <1>4, <2>1 DEF WordsFit
<1>6. CASE I.a = EAX /\ Weakens(InEAX(Moved(p, p.d - 1), p.slot[p.d]), q)
  <2>1. PICK r : r = InEAX(Moved(p, p.d - 1), p.slot[p.d])
    OBVIOUS
  <2>2. r.c = p.c /\ r.slot = p.slot /\ r.d = p.d - 1 /\ r.eax = p.slot[p.d]
    BY <2>1 DEF InEAX, Moved, Points
  <2>3. RegistersFit(r.eax)'
    BY <1>3, <1>4, <1>5, <1>6, <2>2, RegisterWritten, RegisterParts
  <2>4. QED
    BY <1>1, <1>3, <1>6, <2>1, <2>2, <2>3, MovedTo
<1>7. CASE I.a = ECX /\ p.slot[p.d] = "INT" /\ Weakens(Moved(p, p.d - 1), q)
  <2>1. PICK r : r = Moved(p, p.d - 1)
    OBVIOUS
  <2>2. r.c = p.c /\ r.slot = p.slot /\ r.d = p.d - 1 /\ r.eax = p.eax
    BY <2>1 DEF Moved, Points
  <2>3. RegistersFit(r.eax)'
    BY <1>3, <1>4, <1>5, <1>7, <2>2, RegisterWritten, RegisterParts
  <2>4. QED
    BY <1>1, <1>3, <1>7, <2>1, <2>2, <2>3, MovedTo
<1>8. QED
  BY <1>2, <1>6, <1>7

(* ADD and SUB of ESP. *)
LEMMA AdjustReaches ==
  ASSUME NEW L, NEW S \in [Nat -> Kinds], NEW p \in Points, NEW q \in Points,
         Executes(L, S, p, q), AdjustStack
  PROVE  AtPoint(S, q)'
<1>1. /\ I.op \in {"ADD", "SUB", "AND"} /\ Body(S, p) /\ I.a.name = "ESP"
      /\ esp' = CASE I.op = "ADD" -> esp + I.b.n
                  [] I.op = "SUB" -> esp - I.b.n
                  [] I.op = "AND" -> esp - (esp % (-I.b.n))
      /\ UNCHANGED compilerVars /\ UNCHANGED <<reg, ebp, mem, printed>>
  BY DEF AdjustStack, Executing, Executes, ToRegister
<1>2. \/ I = Inst2("ADD", ESP, Imm(4)) /\ p.d >= 1 /\ Weakens(Moved(p, p.d - 1), q)
      \/ I = Inst2("ADD", ESP, Imm(8)) /\ p.d >= 2 /\ Weakens(Moved(p, p.d - 2), q)
      \/ I = Inst2("SUB", ESP, Imm(4)) /\ Weakens(Moved(p, p.d + 1), q)
  BY <1>1, RegisterParts DEF Executes, Runs, JumpOps, ScalarOps, SetOps, FlagOps
<1>3. PICK d : /\ esp' = Slot(d) /\ Weakens(Moved(p, d), q)
  <2>1. /\ esp - 4 = Slot(p.d + 1)
        /\ p.d >= 1 => esp + 4 = Slot(p.d - 1)
        /\ p.d >= 2 => esp + 8 = Slot(p.d - 2)
    BY <1>1, SlotsNear
  <2>2. CASE I = Inst2("ADD", ESP, Imm(4)) /\ p.d >= 1 /\ Weakens(Moved(p, p.d - 1), q)
    BY <1>1, <2>1, <2>2, InstParts, OperandParts
  <2>3. CASE I = Inst2("ADD", ESP, Imm(8)) /\ p.d >= 2 /\ Weakens(Moved(p, p.d - 2), q)
    BY <1>1, <2>1, <2>3, InstParts, OperandParts
  <2>4. CASE I = Inst2("SUB", ESP, Imm(4)) /\ Weakens(Moved(p, p.d + 1), q)
    BY <1>1, <2>1, <2>4, InstParts, OperandParts
  <2>5. QED
    BY <1>2, <2>2, <2>3, <2>4
<1>4. PICK r : r = Moved(p, d)
  OBVIOUS
<1>5. r.c = p.c /\ r.slot = p.slot /\ r.d = d /\ r.eax = p.eax
  BY <1>4 DEF Moved, Points
<1>6. RegistersFit(p.eax)
  BY <1>1, BodyParts
<1>7. RegistersFit(r.eax)'
  BY <1>1, <1>5, <1>6 DEF RegistersFit
<1>8. QED
  BY <1>1, <1>3, <1>4, <1>5, <1>7, MovedTo

(* A register is written, and ESP stays where it is. *)
LEMMA RegisterReaches ==
  ASSUME UNCHANGED compilerVars, UNCHANGED <<esp, ebp, mem, printed>>,
         NEW S, NEW p \in Points, Body(S, p), NEW q
  PROVE  /\ Weakens(p, q) /\ RegistersFit(p.eax)' => AtPoint(S, q)'
         /\ \A t : Weakens(InEAX(p, t), q) /\ RegistersFit(t)' => AtPoint(S, q)'
<1>1. esp = Slot(p.d)
  BY BodyParts
<1>2. Weakens(p, q) /\ RegistersFit(p.eax)' => AtPoint(S, q)'
  BY <1>1, MovedTo
<1>3. ASSUME NEW t, Weakens(InEAX(p, t), q), RegistersFit(t)'
      PROVE  AtPoint(S, q)'
  <2>1. PICK r : r = InEAX(p, t)
    OBVIOUS
  <2>2. r.c = p.c /\ r.slot = p.slot /\ r.d = p.d /\ r.eax = t
    BY <2>1 DEF InEAX, Points
  <2>3. QED
    BY <1>1, <1>3, <2>1, <2>2, MovedTo
<1>4. QED
  BY <1>2, <1>3

(* Moves to a register. *)
LEMMA MoveRegisterReaches ==
  ASSUME NEW L, NEW S \in [Nat -> Kinds], NEW p \in Points, NEW q \in Points,
         Executes(L, S, p, q), MoveToRegister
  PROVE  AtPoint(S, q)'
<1>1. /\ I.op \in {"MOV", "MOVSS", "MOVZX", "CVTSI2SS"} /\ Body(S, p) /\ I.a.mode = "reg"
      /\ UNCHANGED compilerVars /\ UNCHANGED <<esp, ebp, mem, printed>>
  BY DEF MoveToRegister, Executing, Executes, ToRegister
<1>2. PICK t, w : /\ t = KindOf(p, S, I.b)
                  /\ w = (IF I.op = "CVTSI2SS" THEN Converted(Get(I.b)) ELSE Get(I.b))
                  /\ reg' = [reg EXCEPT ![I.a.name] = w]
  BY DEF MoveToRegister
<1>3. Moves(I, S, m_BPOffset, p, q)
  BY <1>1 DEF Executes, Runs, JumpOps, ScalarOps, SetOps, FlagOps
<1>4. Readable(p, m_BPOffset, I.b)
  BY <1>3 DEF Moves
<1>5. Fits(Get(I.b), t)
  BY <1>1, <1>2, <1>4, GetFits, InstructionParts DEF Executes
<1>6. DOMAIN reg = GeneralRegisters /\ RegistersFit(p.eax)
  BY <1>1, BodyParts
<1>7. CASE I.op \in {"MOV", "MOVZX"} /\ I.a = EAX /\ Weakens(InEAX(p, t), q)
  <2>1. I.a.name = "EAX" /\ Fits(w, t)
    BY <1>2, <1>5, <1>7, RegisterParts
  <2>2. RegistersFit(t)'
    BY <1>2, <1>6, <2>1, RegisterWritten
  <2>3. QED
    BY <1>1, <1>7, <2>2, RegisterReaches
<1>8. CASE I.a = EDX /\ Weakens(p, q)
  <2>1. RegistersFit(p.eax)'
    BY <1>2, <1>6, <1>8, RegisterWritten, RegisterParts
  <2>2. QED
    BY <1>1, <1>8, <2>1, RegisterReaches
<1>9. CASE I.op # "CVTSI2SS" /\ I.a = ECX /\ t = "INT" /\ Weakens(p, q)
  <2>1. I.a.name = "ECX" /\ Fits(w, "INT")
    BY <1>2, <1>5, <1>9, RegisterParts
  <2>2. RegistersFit(p.eax)'
    BY <1>2, <1>6, <2>1, RegisterWritten
  <2>3. QED
    BY <1>1, <1>9, <2>2, RegisterReaches
<1>10. CASE I.a \in {XMM0, XMM1} /\ (t = "FLOAT" \/ I.op = "CVTSI2SS") /\ Weakens(p, q)
  <2>1. I.a.name \in {"XMM0", "XMM1"}
    BY <1>10, RegisterParts
  <2>2. Fits(w, "FLOAT")
    BY <1>2, <1>5, <1>10, ResultsFit
  <2>3. RegistersFit(p.eax)'
    BY <1>2, <1>6, <2>1, <2>2, RegisterWritten
  <2>4. QED
    BY <1>1, <1>10, <2>3, RegisterReaches
<1>11. I.a # Deref("ESP", -4) /\ ~ OnStack(p, I.a) /\ ~ InFrame(m_BPOffset, I.a)
  BY <1>1, OperandParts DEF OnStack, InFrame
<1>12. QED
  BY <1>2, <1>3, <1>7, <1>8, <1>9, <1>10, <1>11 DEF Moves

(* Moves to memory. *)
LEMMA MoveMemoryReaches ==
  ASSUME NEW L, NEW S \in [Nat -> Kinds], NEW p \in Points, NEW q \in Points,
         Executes(L, S, p, q), MoveToMemory
  PROVE  AtPoint(S, q)'
<1>1. /\ I.op \in {"MOV", "MOVSS"} /\ Body(S, p) /\ I.a.mode \in {"deref", "sym"}
      /\ UNCHANGED compilerVars /\ UNCHANGED <<reg, esp, ebp, printed>>
  BY DEF MoveToMemory, Executing, Executes
<1>2. PICK t, w : t = KindOf(p, S, I.b) /\ w = Get(I.b)
  OBVIOUS
<1>3. Moves(I, S, m_BPOffset, p, q)
  BY <1>1 DEF Executes, Runs, JumpOps, ScalarOps, SetOps, FlagOps
<1>4. Readable(p, m_BPOffset, I.b)
  BY <1>3 DEF Moves
<1>5. Fits(w, t)
  BY <1>1, <1>2, <1>4, GetFits, InstructionParts DEF Executes
<1>6. /\ RegistersFit(p.eax) /\ WordsFit(S, p.slot) /\ p.d \in Nat /\ Len(printed) = p.c
      /\ esp = Slot(p.d) /\ esp \in Int /\ ebp \in Int
      /\ get_alloc_size \in Nat /\ m_BPOffset \in Nat /\ m_BPOffset - 4 <= get_alloc_size
      /\ esp - 4 = Slot(p.d + 1)
      /\ p.d >= 1 => esp + 4 = Slot(p.d - 1)
  BY <1>1, BodyParts, SlotsNear
<1>7. UNCHANGED <<m_IntCount, m_FloatCount, m_PtrCount>> /\ \A j : Slot(j)' = Slot(j)
  BY <1>1, SlotSame, CompilerRests
<1>8. \A x : RegistersFit(x) => RegistersFit(x)'
  BY <1>1 DEF RegistersFit
<1>9. I.a \notin {EAX, EDX, ECX, XMM0, XMM1}
  BY <1>1, RegisterParts
<1>10. CASE /\ I.a = Deref("ESP", -4) \/ OnStack(p, I.a)
            /\ Weakens(Holding(p, Place(p, I.a.n), t), q)
  <2>1. PICK k, r : k = Place(p, I.a.n) /\ r = Holding(p, k, t)
    OBVIOUS
  <2>2. k \in Places \ {0} /\ esp + I.a.n = Slot(k) /\ I.a.mode = "deref" /\ I.a.name = "ESP"
    <3>1. I.a.mode = "deref" /\ I.a.name = "ESP"
      BY <1>10, OperandParts DEF OnStack
    <3>2. \/ I.a.n = -4 /\ k = p.d + 1
          \/ I.a.n = 0 /\ k = p.d /\ p.d >= 1
          \/ I.a.n = 4 /\ k = p.d - 1 /\ p.d >= 2
      BY <1>10, <2>1, OperandParts DEF OnStack, Place
    <3>3. k \in Nat /\ k # 0 /\ esp + I.a.n = Slot(k)
      BY <1>6, <3>2
    <3>4. QED
      BY <3>1, <3>3 DEF Places
  <2>3. Store(Slot(k), w)
    BY <1>2, <2>2 DEF MoveToMemory, Address
  <2>4. /\ r.d = p.d /\ r.c = p.c /\ r.eax = p.eax
        /\ \A i \in Places : r.slot[i] = IF i = k THEN t ELSE p.slot[i]
    BY <2>1, <2>2 DEF Holding, Points, Places
  <2>5. WordsFit(S, r.slot)'
    BY <1>1, <1>5, <1>6, <1>7, <2>2, <2>3, <2>4, WordStored
  <2>6. AtPoint(S, r)'
    BY <1>1, <1>6, <1>7, <1>8, <2>4, <2>5 DEF AtPoint
  <2>7. QED
    BY <1>10, <2>1, <2>6, AtWeaker
<1>11. CASE InFrame(m_BPOffset, I.a) /\ t = S[-I.a.n] /\ Weakens(p, q)
  <2>1. PICK v : v = -I.a.n
    OBVIOUS
  <2>2. v \in 1 .. get_alloc_size /\ ebp + I.a.n = ebp - v
        /\ I.a.mode = "deref" /\ I.a.name = "EBP"
    <3>1. I.a.mode = "deref" /\ I.a.name = "EBP" /\ -I.a.n \in 1 .. m_BPOffset - 4
      BY <1>11 DEF InFrame
    <3>2. I.a.n \in Int
      BY InstructionParts DEF Executes, InstOperands
    <3>3. v \in 1 .. get_alloc_size
      BY <1>6, <2>1, <3>1
    <3>4. ebp + I.a.n = ebp - v
      BY <1>6, <2>1, <3>2
    <3>5. QED
      BY <3>1, <3>3, <3>4
  <2>3. Store(ebp - v, w)
    BY <1>2, <2>2 DEF MoveToMemory, Address
  <2>4. WordsFit(S, p.slot)'
    BY <1>1, <1>5, <1>6, <1>7, <1>11, <2>1, <2>2, <2>3, VariableStored
  <2>5. AtPoint(S, p)'
    BY <1>1, <1>6, <1>7, <1>8, <2>4 DEF AtPoint
  <2>6. QED
    BY <1>11, <2>5, AtWeaker
<1>12. QED
  BY <1>2, <1>3, <1>9, <1>10, <1>11 DEF Moves

(* PXOR. *)
LEMMA ClearReaches ==
  ASSUME NEW L, NEW S \in [Nat -> Kinds], NEW p \in Points, NEW q \in Points,
         Executes(L, S, p, q), ClearFloat
  PROVE  AtPoint(S, q)'
<1>1. /\ I.op = "PXOR" /\ Body(S, p)
      /\ reg' = [reg EXCEPT ![I.a.name] = FloatWord(0, 1)]
      /\ UNCHANGED compilerVars /\ UNCHANGED <<esp, ebp, mem, printed>>
  BY DEF ClearFloat, Executing, Executes
<1>2. I.a \in {XMM0, XMM1} /\ Weakens(p, q)
  BY <1>1 DEF Executes, Runs, JumpOps, ScalarOps, SetOps, FlagOps
<1>3. DOMAIN reg = GeneralRegisters /\ RegistersFit(p.eax)
  BY <1>1, BodyParts
<1>4. PICK w : reg' = [reg EXCEPT ![I.a.name] = w] /\ Fits(w, "FLOAT")
  BY <1>1, ResultsFit
<1>5. RegistersFit(p.eax)'
  BY <1>2, <1>3, <1>4, RegisterWritten, RegisterParts
<1>6. QED
  BY <1>1, <1>2, <1>5, RegisterReaches

(* What an arithmetic operation leaves. *)
LEMMA ArithFits ==
  /\ \A x, y : \A op \in {"ADD", "SUB", "MUL"} : Fits(IntArith(op, x, y), "INT")
  /\ \A x, y : \A op \in ArithOps : Fits(FloatArith(op, x, y), "FLOAT")
<1>1. \A x, y : \A op \in {"ADD", "SUB", "MUL"} : Fits(IntArith(op, x, y), "INT")
  BY ResultsFit DEF IntArith
<1>2. \A x, y : \A op \in ArithOps : Fits(FloatArith(op, x, y), "FLOAT")
  BY ResultsFit DEF FloatArith, ArithOps
<1>3. QED
  BY <1>1, <1>2

(* ADD, SUB and MUL: the result is in EAX. *)
LEMMA IntArithReaches ==
  ASSUME NEW L, NEW S \in [Nat -> Kinds], NEW p \in Points, NEW q \in Points,
         Executes(L, S, p, q), IntArithmetic
  PROVE  AtPoint(S, q)'
<1>1. /\ I.op \in {"ADD", "SUB", "MUL"} /\ Body(S, p) /\ (I.op # "MUL" => I.a.name = "EAX")
      /\ UNCHANGED compilerVars /\ UNCHANGED <<esp, ebp, mem, printed>>
  BY DEF IntArithmetic, Executing, Executes, ToRegister
<1>2. PICK w, e : reg' = [reg EXCEPT !.EAX = w, !.EDX = e] /\ Fits(w, "INT")
  <2>1. PICK y : LET w == IF Both("int", reg.EAX, y) THEN IntArith(I.op, reg.EAX, y) ELSE Undef
                 IN  reg' = [reg EXCEPT !.EAX = w, !.EDX = IF I.op = "MUL" THEN Undef ELSE @]
    BY DEF IntArithmetic
  <2>2. Fits(IntArith(I.op, reg.EAX, y), "INT") /\ Fits(Undef, "INT")
    BY <1>1, ArithFits, ResultsFit
  <2>3. QED
    BY <2>1, <2>2
<1>3. Weakens(InEAX(p, "INT"), q)
  BY <1>1, RegisterParts, InstParts DEF Executes, Runs, JumpOps, ScalarOps, SetOps, FlagOps
<1>4. DOMAIN reg = GeneralRegisters /\ RegistersFit(p.eax)
  BY <1>1, BodyParts
<1>5. RegistersFit("INT")'
  <2>1. \A s \in GeneralRegisters : reg'[s] = IF s = "EDX" THEN e ELSE IF s = "EAX" THEN w ELSE reg[s]
    BY <1>2, <1>4
  <2>2. QED
    BY <1>2, <1>4, <2>1 DEF RegistersFit, GeneralRegisters
<1>6. QED
  BY <1>1, <1>3, <1>5, RegisterReaches

(* ADDSS, SUBSS, MULSS and DIVSS. *)
LEMMA FloatArithReaches ==
  ASSUME NEW L, NEW S \in [Nat -> Kinds], NEW p \in Points, NEW q \in Points,
         Executes(L, S, p, q), FloatArithmetic
  PROVE  AtPoint(S, q)'
<1>1. /\ I.op \in {"ADDSS", "SUBSS", "MULSS", "DIVSS"} /\ Body(S, p)
      /\ UNCHANGED compilerVars /\ UNCHANGED <<esp, ebp, mem, printed>>
  BY DEF FloatArithmetic, Executing, Executes
<1>2. PICK op : op = (CHOOSE o \in ArithOps : ScalarSingle[o] = I.op) /\ op \in ArithOps
  BY <1>1 DEF ScalarSingle, ArithOps
<1>3. PICK w : reg' = [reg EXCEPT ![I.a.name] = w] /\ Fits(w, "FLOAT")
  <2>1. PICK x, y : reg' = [reg EXCEPT ![I.a.name] =
                      IF Both("float", x, y) THEN FloatArith(op, x, y) ELSE Undef]
    BY <1>2 DEF FloatArithmetic
  <2>2. Fits(FloatArith(op, x, y), "FLOAT") /\ Fits(Undef, "FLOAT")
    BY <1>2, ArithFits, ResultsFit
  <2>3. QED
    BY <2>1, <2>2
<1>4. I.a \in {XMM0, XMM1} /\ Weakens(p, q)
  BY <1>1 DEF Executes, Runs, JumpOps, ScalarOps, SetOps, FlagOps
<1>5. DOMAIN reg = GeneralRegisters /\ RegistersFit(p.eax)
  BY <1>1, BodyParts
<1>6. RegistersFit(p.eax)'
  BY <1>3, <1>4, <1>5, RegisterWritten, RegisterParts
<1>7. QED
  BY <1>1, <1>4, <1>6, RegisterReaches

(* DIV. *)
LEMMA DivideReaches ==
  ASSUME NEW L, NEW S \in [Nat -> Kinds], NEW p \in Points, NEW q \in Points,
         Executes(L, S, p, q), Divide
  PROVE  AtPoint(S, q)'
<1>1. /\ I.op = "DIV" /\ Body(S, p)
      /\ UNCHANGED compilerVars /\ UNCHANGED <<esp, ebp, mem, printed>>
  BY DEF Divide, Executing, Executes
<1>2. PICK w : reg' = [reg EXCEPT !.EAX = w, !.EDX = Undef] /\ Fits(w, "INT")
  <2>1. PICK x, y : reg' = [reg EXCEPT !.EAX =
                      IF Both("int", x, y) THEN IntWord(Unsigned(x.n) \div Unsigned(y.n)) ELSE Undef,
                      !.EDX = Undef]
    BY DEF Divide
  <2>2. QED
    BY <2>1, ResultsFit
<1>3. Weakens(InEAX(p, "INT"), q)
  BY <1>1 DEF Executes, Runs, JumpOps, ScalarOps, SetOps, FlagOps
<1>4. DOMAIN reg = GeneralRegisters /\ RegistersFit(p.eax)
  BY <1>1, BodyParts
<1>5. RegistersFit("INT")'
  <2>1. \A s \in GeneralRegisters :
          reg'[s] = IF s = "EDX" THEN Undef ELSE IF s = "EAX" THEN w ELSE reg[s]
    BY <1>2, <1>4
  <2>2. QED
    BY <1>2, <1>4, <2>1 DEF RegistersFit, GeneralRegisters
<1>6. QED
  BY <1>1, <1>3, <1>5, RegisterReaches

(* The flags and the x87 registers are of no kind. *)
LEMMA FlagsReach ==
  ASSUME NEW L, NEW S \in [Nat -> Kinds], NEW p \in Points, NEW q \in Points,
         Executes(L, S, p, q), Compare \/ LoadX87 \/ CompareX87 \/ PassLabel
  PROVE  AtPoint(S, q)'
<1>1. /\ I.op \in {"CMP", "TEST", "UCOMISS", "FLD", "FCOMIP", "SUB_LABEL"} /\ Body(S, p)
      /\ UNCHANGED compilerVars /\ UNCHANGED <<reg, esp, ebp, mem, printed>>
  BY DEF Compare, LoadX87, CompareX87, PassLabel, Executing, Executes
<1>2. Weakens(p, q)
  BY <1>1 DEF Executes, Runs, JumpOps, ScalarOps, SetOps, FlagOps
<1>3. RegistersFit(p.eax)
  BY <1>1, BodyParts
<1>4. RegistersFit(p.eax)'
  BY <1>1, <1>3 DEF RegistersFit
<1>5. QED
  BY <1>1, <1>2, <1>4, RegisterReaches

(* SETcc. *)
LEMMA SetReaches ==
  ASSUME NEW L, NEW S \in [Nat -> Kinds], NEW p \in Points, NEW q \in Points,
         Executes(L, S, p, q), SetByte
  PROVE  AtPoint(S, q)'
<1>1. /\ I.op \in SetOps /\ Body(S, p)
      /\ UNCHANGED compilerVars /\ UNCHANGED <<esp, ebp, mem, printed>>
  BY DEF SetByte, Executing, Executes, SetOps
<1>2. PICK b : reg' = [reg EXCEPT ![I.a.name] = Truth(b)]
  BY DEF SetByte
<1>3. I.a \in {AL, CL} /\ Weakens(p, q)
  BY <1>1 DEF Executes, Runs, JumpOps, ScalarOps, SetOps, FlagOps
<1>4. DOMAIN reg = GeneralRegisters /\ RegistersFit(p.eax)
  BY <1>1, BodyParts
<1>5. PICK w : w = Truth(b) /\ Fits(w, "INT")
  BY ResultsFit
<1>6. RegistersFit(p.eax)'
  BY <1>2, <1>3, <1>4, <1>5, RegisterWritten, RegisterParts
<1>7. QED
  BY <1>1, <1>3, <1>6, RegisterReaches

(* The body calls what the next statement is printed with. *)
LEMMA CallOf ==
  ASSUME NEW L, NEW S, NEW p, NEW q, Executes(L, S, p, q), I.op = "CALL"
  PROVE  Prints(I.a.name, p) /\ Weakens(InEAX([p EXCEPT !.c = p.c + 1], "ANY"), q)
  BY DEF Executes, Runs, JumpOps, ScalarOps, SetOps, FlagOps

(* What a call that prints a word prints, and where it leads. *)
PrintsTyped ==
  \E w : /\ printed' = Append(printed, w)
         /\ Fits(w, value_type[prog.root[Len(printed) + 1]])
         /\ value_type[prog.root[Len(printed) + 1]] \in {"INT", "FLOAT"}

(* A call of the body prints a word of the type of its statement. *)
LEMMA PrintedTyped ==
  ASSUME NEW L, NEW S \in [Nat -> Kinds], NEW p \in Points, NEW q \in Points,
         Executes(L, S, p, q), CallPrintf \/ CallPrintFloat
  PROVE  PrintsTyped
<1>1. I.op = "CALL" /\ Body(S, p)
  BY DEF CallPrintf, CallPrintFloat, Calling, Executing, Executes
<1>2. Prints(I.a.name, p)
  BY <1>1, CallOf
<1>3. /\ p.d \in Nat /\ WordsFit(S, p.slot) /\ Len(printed) = p.c
      /\ esp = Slot(p.d)
      /\ p.d >= 1 => esp + 4 = Slot(p.d - 1)
  BY <1>1, BodyParts, SlotsNear
<1>4. PICK t : t = value_type[prog.root[Len(printed) + 1]]
  OBVIOUS
<1>5. CASE CallPrintf
  <2>1. I.a.name = "printf" /\ printed' = Append(printed, Load(esp + 4))
    BY <1>5 DEF CallPrintf, Calling
  <2>2. p.d >= 2 /\ t = "INT" /\ p.slot[p.d - 1] = "INT"
    BY <1>2, <1>3, <1>4, <2>1 DEF Prints
  <2>3. p.d - 1 \in Places \ {0} /\ esp + 4 = Slot(p.d - 1)
    BY <1>3, <2>2 DEF Places
  <2>4. Fits(Load(esp + 4), "INT")
    BY <1>3, <2>2, <2>3 DEF WordsFit
  <2>5. QED
    BY <1>4, <2>1, <2>2, <2>4 DEF PrintsTyped
<1>6. CASE CallPrintFloat
  <2>1. PICK w : /\ w = Load(esp) \/ w = NaN
                 /\ I.a.name = "print_float" /\ printed' = Append(printed, w)
    BY <1>6 DEF CallPrintFloat, Calling
  <2>2. p.d >= 1 /\ t = "FLOAT" /\ p.slot[p.d] = "FLOAT"
    BY <1>2, <1>3, <1>4, <2>1 DEF Prints
  <2>3. p.d \in Places \ {0}
    BY <1>3, <2>2 DEF Places
  <2>4. Fits(Load(esp), "FLOAT") /\ Fits(NaN, "FLOAT")
    <3>1. Fits(Load(esp), "FLOAT")
      BY <1>3, <2>2, <2>3 DEF WordsFit
    <3>2. Fits(NaN, "FLOAT")
      BY DEF Fits, NaN, Word
    <3>3. QED
      BY <3>1, <3>2
  <2>5. QED
    BY <1>4, <2>1, <2>2, <2>4 DEF PrintsTyped
<1>7. QED
  BY <1>5, <1>6

(* After the call. *)
LEMMA CallReaches ==
  ASSUME NEW L, NEW S \in [Nat -> Kinds], NEW p \in Points, NEW q \in Points,
         Executes(L, S, p, q), CallPrintf \/ CallPrintFloat, NEW T, printed \in Seq(T)
  PROVE  AtPoint(S, q)'
<1>1. I.op = "CALL" /\ Body(S, p)
  BY DEF CallPrintf, CallPrintFloat, Calling, Executing, Executes
<1>2. PICK args : Clobber(args)
  BY DEF CallPrintf, CallPrintFloat
<1>3. /\ UNCHANGED compilerVars /\ UNCHANGED <<esp, ebp>>
      /\ reg' = [r \in GeneralRegisters |-> IF r = "EBX" THEN reg.EBX ELSE Undef]
  BY <1>2 DEF Clobber
<1>4. PICK r : r = InEAX([p EXCEPT !.c = p.c + 1], "ANY")
  OBVIOUS
<1>5. Weakens(r, q)
  BY <1>1, <1>4, CallOf
<1>6. r.d = p.d /\ r.c = p.c + 1 /\ r.eax = "ANY" /\ r.slot = p.slot
  BY <1>4 DEF InEAX, Points
<1>7. /\ UNCHANGED <<m_IntCount, m_FloatCount, m_PtrCount>> /\ \A j : Slot(j)' = Slot(j)
      /\ esp = Slot(p.d) /\ Len(printed) = p.c /\ WordsFit(S, p.slot)
  BY <1>1, <1>3, SlotSame, CompilerRests, BodyParts
<1>8. WordsFit(S, r.slot)'
  BY <1>2, <1>3, <1>6, <1>7, LoadClobbered, WordsKept
<1>9. RegistersFit(r.eax)'
  BY <1>3, <1>6, ResultsFit DEF RegistersFit, GeneralRegisters
<1>10. Len(printed') = r.c
  <2>1. PICK w : printed' = Append(printed, w)
    BY PrintedTyped DEF PrintsTyped
  <2>2. Len(Append(printed, w)) = Len(printed) + 1
    OBVIOUS
  <2>3. QED
    BY <1>6, <1>7, <2>1, <2>2
<1>11. AtPoint(S, r)'
  BY <1>3, <1>6, <1>7, <1>8, <1>9, <1>10 DEF AtPoint
<1>12. QED
  BY <1>5, <1>11, AtWeaker

(* A typed program is running. *)
Works(L, S, P, e) ==
  /\ cpu = "running" /\ status = "compiled"
  /\ CompilerTypeOK /\ SlotsInFrame /\ JumpsResolve /\ Shape
  /\ S \in [Nat -> Kinds] /\ P \in [Nat -> Points] /\ e \in Nat
  /\ RunTyped(L, S, P, e)

(* The prologue, the body and the epilogue. *)
LEMMA CodeParts ==
  ASSUME NEW L, NEW S, NEW P, NEW e, Works(L, S, P, e)
  PROVE  /\ Running(S, P, e) /\ pc \in 1 .. e + 5 /\ e \in Nat /\ e >= 6
         /\ code \in Seq(Instructions) /\ Len(code) = e + 5
         /\ \A i \in 1 .. 6 : code[i] = Prologue(get_alloc_size)[i]
         /\ P[7] = AtStatement(0)
         /\ \A i \in 7 .. e : Runs(code[i], L, S, m_BPOffset, P[i], P[i + 1])
         /\ \A i \in 1 .. 5 : code[e + i] = Epilogue[i]
<1>1. /\ Running(S, P, e) /\ e \in Nat /\ code \in Seq(Instructions) /\ e + 5 = Len(code)
      /\ TypedCode(SubSeq(code, 1, e), L, S, m_BPOffset, P)
      /\ \A i \in 1 .. 5 : code[e + i] = Epilogue[i]
  BY DEF Works, RunTyped, CompilerTypeOK
<1>2. pc \in 1 .. e + 5
  BY <1>1 DEF Running
<1>3. PICK c : c = SubSeq(code, 1, e)
  OBVIOUS
<1>4. Len(c) = e /\ \A i \in 1 .. e : c[i] = code[i]
  <2>1. 1 \in 1 .. Len(code) + 1 /\ e \in 1 - 1 .. Len(code)
    BY <1>1
  <2>2. /\ Len(SubSeq(code, 1, e)) = IF 1 <= e THEN e - 1 + 1 ELSE 0
        /\ \A i \in 1 .. e - 1 + 1 : SubSeq(code, 1, e)[i] = code[1 + i - 1]
    BY <1>1, <2>1, SubSeqProperties
  <2>3. QED
    BY <1>1, <1>3, <2>2
<1>5. /\ Len(c) >= 6
      /\ \A i \in 1 .. 6 : c[i] = Prologue(get_alloc_size)[i]
      /\ P[7] = AtStatement(0)
      /\ \A i \in 7 .. Len(c) : Runs(c[i], L, S, m_BPOffset, P[i], P[i + 1])
  BY <1>1, <1>3 DEF TypedCode
<1>6. e >= 6
  BY <1>1, <1>4, <1>5
<1>7. \A i \in 1 .. 6 : code[i] = Prologue(get_alloc_size)[i]
  BY <1>1, <1>4, <1>5, <1>6
<1>8. \A i \in 7 .. e : Runs(code[i], L, S, m_BPOffset, P[i], P[i + 1])
  BY <1>1, <1>4, <1>5, <1>6
<1>9. QED
  BY <1>1, <1>2, <1>5, <1>6, <1>7, <1>8

(* Where the processor is in the body. *)
LEMMA BodyHere ==
  ASSUME NEW L, NEW S, NEW P, NEW e, Works(L, S, P, e), pc \in 7 .. e
  PROVE  /\ P[pc] \in Points /\ P[pc + 1] \in Points
         /\ Executes(L, S, P[pc], P[pc + 1])
<1>1. /\ Running(S, P, e) /\ e \in Nat /\ code \in Seq(Instructions) /\ Len(code) = e + 5
      /\ Runs(I, L, S, m_BPOffset, P[pc], P[pc + 1])
  BY CodeParts DEF I
<1>2. I \in Instructions
  <2>1. pc \in 1 .. Len(code)
    BY <1>1
  <2>2. QED
    BY <1>1, <2>1, ElementOfSeq DEF I
<1>3. /\ AtPoint(S, P[pc]) /\ esp \in Int /\ ebp \in Int
  BY <1>1 DEF Running
<1>4. /\ get_alloc_size \in Nat /\ m_BPOffset \in Nat /\ m_BPOffset - 4 <= get_alloc_size
      /\ DOMAIN reg = GeneralRegisters
  BY DEF Works, CompilerTypeOK, CheckerTypeOK, get_alloc_size, SlotsInFrame, Shape
<1>5. P[pc] \in Points /\ P[pc + 1] \in Points
  BY <1>1 DEF Works
<1>6. QED
  BY <1>1, <1>2, <1>3, <1>4, <1>5 DEF Executes, Body

(* A jump leads to the point of its label. *)
LEMMA JumpReaches ==
  ASSUME NEW L, NEW S, NEW P, NEW e, Works(L, S, P, e), pc \in 7 .. e, Jump
  PROVE  /\ pc' \in 7 .. e + 1 /\ AtPoint(S, P[pc])'
         /\ UNCHANGED compilerVars /\ UNCHANGED <<cpu, ebp, reg, printed>>
<1>1. PICK p, q : p = P[pc] /\ q = P[pc + 1]
  OBVIOUS
<1>2. p \in Points /\ q \in Points /\ Executes(L, S, p, q)
  BY <1>1, BodyHere
<1>3. /\ I.op \in JumpOps /\ Body(S, p) /\ pc' \in {Target(I.a.n), pc + 1}
      /\ UNCHANGED compilerVars /\ UNCHANGED <<cpu, reg, esp, ebp, mem, printed>>
  BY <1>2 DEF Jump, Executing, Executes
<1>4. Weakens(p, L[I.a.n]) /\ Weakens(p, q)
  BY <1>2, <1>3 DEF Executes, Runs, JumpOps, ScalarOps, SetOps, FlagOps
<1>5. RegistersFit(p.eax)'
  <2>1. RegistersFit(p.eax)
    BY <1>2, <1>3, BodyParts
  <2>2. QED
    BY <1>3, <2>1 DEF RegistersFit
<1>6. PICK r : r = L[I.a.n] /\ AtPoint(S, q)' /\ AtPoint(S, r)'
  BY <1>2, <1>3, <1>4, <1>5, RegisterReaches
<1>7. CASE pc' = pc + 1
  <2>1. P[pc]' = q /\ pc' \in 7 .. e + 1
    BY <1>1, <1>7, CodeParts
  <2>2. QED
    BY <1>3, <1>6, <2>1
<1>8. CASE pc' = Target(I.a.n)
  <2>. DEFINE l == I.a.n
  <2>1. pc \in Jumps(code)
    BY <1>3, CodeParts DEF Jumps, I
  <2>2. \E j \in Labels(code) : code[j].a.n = l
    BY <2>1 DEF Works, JumpsResolve, I
  <2>3. Target(l) \in Labels(code) /\ code[Target(l)].a.n = l
    BY <2>2 DEF Target
  <2>4. PICK i : i = Target(l) /\ i \in Labels(code) /\ code[i].a.n = l
    BY <2>3
  <2>5. i \in 1 .. e + 5 /\ code[i].op = "SUB_LABEL"
    BY <2>4, CodeParts DEF Labels
  <2>6. i \in 7 .. e
    <3>1. \A k \in 1 .. 6 : Prologue(get_alloc_size)[k].op # "SUB_LABEL"
      <4>1. /\ Prologue(get_alloc_size)[1].op = "AND" /\ Prologue(get_alloc_size)[2].op = "PUSH"
            /\ Prologue(get_alloc_size)[3].op = "MOV" /\ Prologue(get_alloc_size)[4].op = "SUB"
            /\ Prologue(get_alloc_size)[5].op = "CALL" /\ Prologue(get_alloc_size)[6].op = "MOV"
        BY DEF Prologue, Inst1, Inst2
      <4>2. \A k \in 1 .. 6 : k \in {1, 2, 3, 4, 5, 6}
        OBVIOUS
      <4>3. QED
        BY <4>1, <4>2
    <3>2. \A k \in 1 .. 5 : Epilogue[k].op # "SUB_LABEL"
      BY InstParts DEF Epilogue
    <3>3. i \notin 1 .. 6
      BY <2>5, <3>1, CodeParts
    <3>4. ASSUME i \in e + 1 .. e + 5
          PROVE  FALSE
      <4>1. e \in Nat /\ \A k \in 1 .. 5 : code[e + k] = Epilogue[k]
        BY CodeParts
      <4>2. i - e \in 1 .. 5 /\ e + (i - e) = i
        BY <3>4, <4>1
      <4>3. code[i] = Epilogue[i - e]
        BY <4>1, <4>2
      <4>4. QED
        BY <2>5, <3>2, <4>2, <4>3
    <3>5. e \in Nat
      BY CodeParts
    <3>6. QED
      BY <2>5, <3>3, <3>4, <3>5
  <2>7. Runs(code[i], L, S, m_BPOffset, P[i], P[i + 1])
    BY <2>6, CodeParts
  <2>8. P[i] = r
    BY <1>6, <2>4, <2>5, <2>7 DEF Runs, JumpOps, ScalarOps, SetOps, FlagOps
  <2>9. pc' = i /\ i \in 7 .. e + 1
    BY <1>8, <2>4, <2>6, CodeParts
  <2>10. P[pc]' = r
    BY <2>8, <2>9
  <2>11. QED
    BY <1>3, <1>6, <2>9, <2>10
<1>9. QED
  BY <1>3, <1>7, <1>8

(* The steps of the processor, those of the body but the jumps first. *)
BodySteps ==
  \/ Push \/ Pop \/ AdjustStack \/ MoveToRegister \/ MoveToMemory \/ ClearFloat
  \/ IntArithmetic \/ FloatArithmetic \/ Divide
  \/ Compare \/ LoadX87 \/ CompareX87 \/ PassLabel \/ SetByte
  \/ CallPrintf \/ CallPrintFloat

(* Those of the prologue and the epilogue alone, and all of them. *)
OtherSteps == PopFrame \/ MoveFrame \/ CallAllocHeap \/ AllocHeapExits \/ Exit
ProcessorSteps == BodySteps \/ Jump \/ DivideError \/ OtherSteps

(* The frame is left to the prologue and the epilogue. *)
LEMMA NotInBody ==
  ASSUME NEW L, NEW S, NEW p, NEW q, Executes(L, S, p, q)
  PROVE  ~ OtherSteps
<1>1. ASSUME PopFrame PROVE FALSE
  <2>1. I.op = "POP" /\ I.a.name = "EBP"
    BY <1>1 DEF PopFrame, Executing, ToRegister
  <2>2. I.a \in {EAX, ECX}
    BY <2>1 DEF Executes, Runs, JumpOps, ScalarOps, SetOps, FlagOps
  <2>3. QED
    BY <2>1, <2>2, RegisterParts
<1>2. ASSUME MoveFrame PROVE FALSE
  <2>1. I.op = "MOV" /\ I.a.name \in {"ESP", "EBP"} /\ I.a.mode = "reg"
    BY <1>2 DEF MoveFrame, Executing, ToRegister
  <2>2. Moves(I, S, m_BPOffset, p, q)
    BY <2>1 DEF Executes, Runs, JumpOps, ScalarOps, SetOps, FlagOps
  <2>3. I.a \in {EAX, EDX, ECX, XMM0, XMM1} \/ I.a.mode = "deref"
    BY <2>1, <2>2 DEF Moves, InFrame
  <2>4. QED
    BY <2>1, <2>3, RegisterParts
<1>3. ASSUME CallAllocHeap \/ AllocHeapExits PROVE FALSE
  <2>1. I.op = "CALL" /\ I.a.name = "alloc_heap"
    BY <1>3 DEF CallAllocHeap, AllocHeapExits, Calling, Executing
  <2>2. QED
    BY <2>1, CallOf DEF Prints
<1>4. ASSUME Exit PROVE FALSE
  BY <1>4 DEF Exit, Executing, Executes, Runs, JumpOps, ScalarOps, SetOps, FlagOps
<1>5. QED
  BY <1>1, <1>2, <1>3, <1>4 DEF OtherSteps

(* What the steps of the body have in common. *)
LEMMA BodyAdvances ==
  ASSUME BodySteps
  PROVE  pc' = pc + 1 /\ UNCHANGED compilerVars /\ UNCHANGED <<cpu, ebp>> /\ cpu = "running"
  BY DEF BodySteps, Push, Pop, AdjustStack, MoveToRegister, MoveToMemory, ClearFloat,
         IntArithmetic, FloatArithmetic, Divide, Compare, LoadX87, CompareX87, PassLabel, SetByte,
         CallPrintf, CallPrintFloat, Calling, Clobber, Advance, Executing

(* Every step of the body but a jump leads to the next point. *)
LEMMA BodyReaches ==
  ASSUME NEW L, NEW S \in [Nat -> Kinds], NEW p \in Points, NEW q \in Points,
         Executes(L, S, p, q), BodySteps, NEW T, printed \in Seq(T)
  PROVE  AtPoint(S, q)'
<1>1. CASE Push
  BY <1>1, PushReaches
<1>2. CASE Pop
  BY <1>2, PopReaches
<1>3. CASE AdjustStack
  BY <1>3, AdjustReaches
<1>4. CASE MoveToRegister
  BY <1>4, MoveRegisterReaches
<1>5. CASE MoveToMemory
  BY <1>5, MoveMemoryReaches
<1>6. CASE ClearFloat
  BY <1>6, ClearReaches
<1>7. CASE IntArithmetic
  BY <1>7, IntArithReaches
<1>8. CASE FloatArithmetic
  BY <1>8, FloatArithReaches
<1>9. CASE Divide
  BY <1>9, DivideReaches
<1>10. CASE Compare \/ LoadX87 \/ CompareX87 \/ PassLabel
  BY <1>10, FlagsReach
<1>11. CASE SetByte
  BY <1>11, SetReaches
<1>12. CASE CallPrintf \/ CallPrintFloat
  BY <1>12, CallReaches
<1>13. QED
  BY <1>1, <1>2, <1>3, <1>4, <1>5, <1>6, <1>7, <1>8, <1>9, <1>10, <1>11, <1>12 DEF BodySteps

(* Every step of the body leads to the point of the next instruction. *)
LEMMA BodyStep ==
  ASSUME NEW L, NEW S, NEW P, NEW e, Works(L, S, P, e), pc \in 7 .. e, ProcessorSteps
  PROVE  /\ UNCHANGED compilerVars
         /\ \/ cpu' = "trapped"
            \/ /\ cpu' = "running" /\ ebp' = ebp
               /\ pc' \in 7 .. e + 1 /\ AtPoint(S, P[pc])'
<1>1. PICK p, q : p = P[pc] /\ q = P[pc + 1]
  OBVIOUS
<1>2. p \in Points /\ q \in Points /\ Executes(L, S, p, q) /\ S \in [Nat -> Kinds]
  BY <1>1, BodyHere DEF Works
<1>3. PICK T : printed \in Seq(T)
  BY DEF Works, Shape
<1>4. CASE BodySteps
  <2>1. pc' = pc + 1 /\ UNCHANGED compilerVars /\ UNCHANGED <<cpu, ebp>> /\ cpu = "running"
    BY <1>4, BodyAdvances
  <2>2. P[pc]' = q /\ pc' \in 7 .. e + 1
    BY <1>1, <2>1, CodeParts
  <2>3. AtPoint(S, q)'
    BY <1>2, <1>3, <1>4, BodyReaches
  <2>4. QED
    BY <2>1, <2>2, <2>3
<1>5. CASE Jump
  BY <1>5, JumpReaches DEF Works
<1>6. CASE DivideError
  BY <1>6 DEF DivideError
<1>7. QED
  BY <1>2, <1>4, <1>5, <1>6, NotInBody DEF ProcessorSteps

(* Which steps an instruction allows. *)
LEMMA StepOf ==
  ASSUME ProcessorSteps
  PROVE  /\ I.op = "AND"  => AdjustStack
         /\ I.op = "SUB"  => AdjustStack \/ IntArithmetic
         /\ I.op = "PUSH" => Push
         /\ I.op = "POP"  => Pop \/ PopFrame
         /\ I.op = "MOV"  => MoveFrame \/ MoveToRegister \/ MoveToMemory
         /\ I.op = "CALL" => CallAllocHeap \/ AllocHeapExits \/ CallPrintf \/ CallPrintFloat
         /\ I.op = "INT"  => Exit
  BY DEF ProcessorSteps, BodySteps, OtherSteps, Push, Pop, PopFrame, AdjustStack, MoveFrame,
         MoveToRegister, MoveToMemory, ClearFloat, IntArithmetic, FloatArithmetic, Divide,
         DivideError, Compare, LoadX87, CompareX87, SetByte, Jump, PassLabel, CallAllocHeap,
         AllocHeapExits, CallPrintf, CallPrintFloat, Exit, Calling, Executing, JumpOps

(* Where nothing has been written there is nothing to know. *)
LEMMA FreshPoint ==
  ASSUME NEW S, NEW a, a.d = 0, a.c = 0, a.eax = "ANY", \A j \in Places : a.slot[j] = "ANY",
         Fresh', esp' = Slot(0)', \A o \in 1 .. get_alloc_size' : ebp' - o \notin DOMAIN mem'
  PROVE  AtPoint(S, a)'
<1>1. /\ printed' = <<>>
      /\ \A r \in GeneralRegisters : reg'[r] = Undef
  BY DEF Fresh
<1>2. RegistersFit(a.eax)'
  BY <1>1, ResultsFit DEF RegistersFit, GeneralRegisters
<1>3. \A o \in 1 .. get_alloc_size' : Load(ebp - o)' = Undef
  BY DEF Load
<1>4. WordsFit(S, a.slot)'
  BY <1>3, ResultsFit DEF WordsFit
<1>5. Slot(a.d)' = Slot(0)'
  OBVIOUS
<1>6. Len(printed') = 0
  BY <1>1
<1>7. QED
  BY <1>2, <1>4, <1>5, <1>6 DEF AtPoint

(* The six instructions of the prologue. *)
LEMMA PrologueAt ==
  ASSUME NEW L, NEW S, NEW P, NEW e, Works(L, S, P, e), pc \in 1 .. 6
  PROVE  /\ Running(S, P, e) /\ e \in Nat /\ e >= 6 /\ P[7] = AtStatement(0)
         /\ pc = 1 => I = Inst2("AND", ESP, Imm(-8))
         /\ pc = 2 => I = Inst1("PUSH", EBP)
         /\ pc = 3 => I = Inst2("MOV", EBP, ESP)
         /\ pc = 4 => I = Inst2("SUB", ESP, Imm(get_alloc_size))
         /\ pc = 5 => I = Inst1("CALL", Sym("alloc_heap"))
         /\ pc = 6 => I = Inst2("MOV", Sym("heap_ptr"), EAX)
<1>1. I = Prologue(get_alloc_size)[pc] /\ Running(S, P, e) /\ e \in Nat /\ e >= 6
      /\ P[7] = AtStatement(0)
  BY CodeParts DEF I
<1>2. QED
  BY <1>1 DEF Prologue

(* The point of the first statement: nothing is on the stack. *)
LEMMA FirstStatement ==
  LET a == AtStatement(0) IN
    a.d = 0 /\ a.c = 0 /\ a.eax = "ANY" /\ \A j \in Places : a.slot[j] = "ANY"
<1>1. Level(0) = 0
  BY LevelParts
<1>2. QED
  BY <1>1 DEF AtStatement

(* The steps of the prologue. *)
LEMMA PrologueStep ==
  ASSUME NEW L, NEW S, NEW P, NEW e, Works(L, S, P, e), pc \in 1 .. 6, ProcessorSteps
  PROVE  /\ UNCHANGED compilerVars /\ printed' = printed
         /\ cpu' = "failed" \/ (cpu' = "running" /\ Running(S, P, e)')
<1>1. /\ Running(S, P, e) /\ e \in Nat /\ e >= 6 /\ P[7] = AtStatement(0) /\ cpu = "running"
      /\ esp \in Int /\ ebp \in Int /\ Fresh /\ get_alloc_size \in Nat
  <2>1. /\ Running(S, P, e) /\ e \in Nat /\ e >= 6 /\ P[7] = AtStatement(0) /\ cpu = "running"
    BY PrologueAt DEF Works
  <2>2. pc <= e /\ pc <= 6
    BY <2>1
  <2>3. esp \in Int /\ ebp \in Int /\ Fresh
    BY <2>1, <2>2 DEF Running
  <2>4. get_alloc_size \in Nat
    BY DEF Works, CompilerTypeOK, CheckerTypeOK, get_alloc_size
  <2>5. QED
    BY <2>1, <2>3, <2>4
<1>2. PICK a : a = AtStatement(0)
  OBVIOUS
<1>3. a.d = 0 /\ a.c = 0 /\ a.eax = "ANY" /\ \A j \in Places : a.slot[j] = "ANY"
  BY <1>2, FirstStatement
<1>4. UNCHANGED compilerVars => AtStatement(0)' = a /\ get_alloc_size' = get_alloc_size
  BY <1>2, CompilerRests, LevelsSame
<1>5. CASE pc = 1
  <2>1. I.op = "AND" /\ I.b.n = -8
    BY <1>5, PrologueAt, InstParts, OperandParts
  <2>2. AdjustStack
    BY <2>1, StepOf
  <2>3. /\ esp' = esp - (esp % (-I.b.n)) /\ pc' = 2
        /\ UNCHANGED compilerVars /\ UNCHANGED <<cpu, reg, ebp, mem, printed>>
    BY <1>5, <2>1, <2>2 DEF AdjustStack, Advance
  <2>4. esp' \in Int
    <3>1. esp' = esp - (esp % (-(-8)))
      BY <2>1, <2>3
    <3>2. \A x \in Int : x - (x % (-(-8))) \in Int
      OBVIOUS
    <3>3. QED
      BY <1>1, <3>1, <3>2
  <2>5. DOMAIN mem' = {} /\ Fresh'
    BY <1>1, <1>5, <2>3 DEF Running, Fresh
  <2>6. QED
    BY <1>1, <2>3, <2>4, <2>5 DEF Running
<1>6. CASE pc = 2
  <2>1. I.op = "PUSH"
    BY <1>6, PrologueAt, InstParts
  <2>2. Push
    BY <2>1, StepOf
  <2>3. /\ Store(esp - 4, Get(I.a)) /\ esp' = esp - 4 /\ pc' = 3
        /\ UNCHANGED compilerVars /\ UNCHANGED <<cpu, reg, ebp, printed>>
    BY <1>6, <2>2 DEF Push, Advance
  <2>4. DOMAIN mem' \subseteq {esp'} /\ Fresh' /\ esp' \in Int
    <3>1. DOMAIN mem = {}
      BY <1>1, <1>6 DEF Running
    <3>2. QED
      BY <1>1, <2>3, <3>1 DEF Store, Fresh
  <2>5. QED
    BY <1>1, <2>3, <2>4 DEF Running
<1>7. CASE pc = 3
  <2>1. I.op = "MOV" /\ I.a = EBP
    BY <1>7, PrologueAt, InstParts
  <2>2. MoveFrame
    BY <2>1, StepOf, RegisterParts DEF MoveToRegister, MoveToMemory, ToRegister, GeneralRegisters
  <2>3. /\ ebp' = esp /\ pc' = 4
        /\ UNCHANGED compilerVars /\ UNCHANGED <<cpu, reg, esp, mem, printed>>
    BY <1>7, <2>1, <2>2, RegisterParts DEF MoveFrame, Advance
  <2>4. DOMAIN mem' \subseteq {esp'} /\ Fresh'
    BY <1>1, <1>7, <2>3 DEF Running, Fresh
  <2>5. QED
    BY <1>1, <2>3, <2>4 DEF Running
<1>8. CASE pc = 4
  <2>1. I.op = "SUB" /\ I.a = ESP /\ I.b.n = get_alloc_size
    BY <1>8, PrologueAt, InstParts, OperandParts
  <2>2. AdjustStack
    BY <2>1, StepOf, RegisterParts DEF IntArithmetic, ToRegister
  <2>3. /\ esp' = esp - get_alloc_size /\ pc' = 5
        /\ UNCHANGED compilerVars /\ UNCHANGED <<cpu, reg, ebp, mem, printed>>
    BY <1>8, <2>1, <2>2 DEF AdjustStack, Advance
  <2>4. DOMAIN mem \subseteq {ebp} /\ ebp = esp
    BY <1>1, <1>8 DEF Running
  <2>5. Fresh' /\ esp' \in Int
    BY <1>1, <2>3 DEF Fresh
  <2>6. get_alloc_size' = get_alloc_size
    BY <1>4, <2>3
  <2>7. esp' = Slot(0)'
    BY <1>1, <2>3, <2>4, <2>6 DEF Slot
  <2>8. \A o \in 1 .. get_alloc_size' : ebp' - o \notin DOMAIN mem'
    BY <1>1, <2>3, <2>4, <2>6
  <2>9. AtPoint(S, a)'
    BY <1>3, <2>5, <2>7, <2>8, FreshPoint
  <2>10. AtPoint(S, AtStatement(0))'
    BY <1>4, <2>3, <2>9
  <2>11. QED
    BY <1>1, <2>3, <2>5, <2>10 DEF Running
<1>9. CASE pc = 5
  <2>1. I.op = "CALL" /\ I.a.name = "alloc_heap"
    BY <1>9, PrologueAt, InstParts, OperandParts
  <2>2. CallAllocHeap \/ AllocHeapExits
    BY <2>1, StepOf DEF CallPrintf, CallPrintFloat, Calling
  <2>. SUFFICES ASSUME CallAllocHeap
                PROVE  /\ UNCHANGED compilerVars /\ printed' = printed
                       /\ cpu' = "running" /\ Running(S, P, e)'
    BY <2>2 DEF AllocHeapExits
  <2>3. /\ Clobber(0) /\ pc' = 6
        /\ reg' = [r \in GeneralRegisters |-> IF r = "EBX" THEN reg.EBX ELSE Undef]
        /\ UNCHANGED compilerVars /\ UNCHANGED <<cpu, esp, ebp, printed>>
    BY <1>9 DEF CallAllocHeap, Clobber, Advance
  <2>4. Fresh'
    <3>1. reg.EBX = Undef
      BY <1>1 DEF Fresh, GeneralRegisters
    <3>2. QED
      BY <1>1, <2>3, <3>1 DEF Fresh
  <2>5. AtPoint(S, a)
    BY <1>1, <1>2, <1>9 DEF Running
  <2>6. UNCHANGED <<m_IntCount, m_FloatCount, m_PtrCount>> /\ \A j : Slot(j)' = Slot(j)
    BY <2>3, CompilerRests, SlotSame
  <2>7. WordsFit(S, a.slot)'
    BY <2>3, <2>5, <2>6, LoadClobbered, WordsKept DEF AtPoint
  <2>8. RegistersFit(a.eax)'
    BY <2>4, ResultsFit DEF RegistersFit, Fresh, GeneralRegisters
  <2>9. AtPoint(S, a)'
    BY <2>3, <2>5, <2>6, <2>7, <2>8 DEF AtPoint
  <2>10. AtPoint(S, AtStatement(0))'
    BY <1>4, <2>3, <2>9
  <2>11. QED
    BY <1>1, <2>3, <2>4, <2>10 DEF Running
<1>10. CASE pc = 6
  <2>1. I.op = "MOV" /\ I.a.mode = "sym"
    BY <1>10, PrologueAt, InstParts, OperandParts
  <2>2. MoveToMemory
    BY <2>1, StepOf DEF MoveFrame, MoveToRegister, ToRegister
  <2>3. /\ pc' = 7
        /\ UNCHANGED compilerVars /\ UNCHANGED <<cpu, reg, esp, ebp, mem, printed>>
    BY <1>10, <2>1, <2>2 DEF MoveToMemory, Advance
  <2>4. AtPoint(S, a)
    BY <1>1, <1>2, <1>10 DEF Running
  <2>5. UNCHANGED <<m_IntCount, m_FloatCount, m_PtrCount>> /\ \A j : Slot(j)' = Slot(j)
    BY <2>3, CompilerRests, SlotSame
  <2>6. WordsFit(S, a.slot)' /\ RegistersFit(a.eax)'
    <3>1. \A b : Load(b)' = Load(b)
      BY <2>3 DEF Load
    <3>2. QED
      BY <2>3, <2>4, <2>5, <3>1, WordsKept DEF AtPoint, RegistersFit
  <2>7. AtPoint(S, a)'
    BY <2>3, <2>4, <2>5, <2>6 DEF AtPoint
  <2>8. P[pc]' = a
    BY <1>1, <1>2, <2>3
  <2>9. AtPoint(S, P[pc])'
    BY <2>7, <2>8
  <2>10. QED
    BY <1>1, <2>3, <2>9 DEF Running
<1>11. QED
  BY <1>5, <1>6, <1>7, <1>8, <1>9, <1>10

(* The steps of the epilogue. *)
LEMMA EpilogueStep ==
  ASSUME NEW L, NEW S, NEW P, NEW e, Works(L, S, P, e), pc \in e + 1 .. e + 5, ProcessorSteps
  PROVE  /\ UNCHANGED compilerVars /\ UNCHANGED <<mem, printed>>
         /\ cpu' = "exited" \/ (cpu' = "running" /\ pc' \in e + 2 .. e + 5)
<1>1. /\ e \in Nat /\ cpu = "running"
      /\ \A i \in 1 .. 5 : code[e + i] = Epilogue[i]
  <2>1. \A i \in 1 .. 5 : code[e + i] = Epilogue[i]
    BY CodeParts
  <2>2. QED
    BY <2>1 DEF Works
<1>2. PICK i \in 1 .. 5 : pc = e + i /\ i = pc - e
  BY <1>1
<1>3. I = Epilogue[i]
  BY <1>1, <1>2 DEF I
<1>4. /\ i = 1 => I = Inst2("MOV", ESP, EBP)
      /\ i = 2 => I = Inst1("POP", EBP)
      /\ i = 3 => I = Inst2("MOV", EAX, Imm(1))
      /\ i = 4 => I = Inst2("MOV", EBX, Imm(1))
      /\ i = 5 => I = Inst1("INT", Imm(128))
  BY <1>3 DEF Epilogue
<1>5. /\ i \in {1, 3, 4} => I.op = "MOV" /\ I.a.mode = "reg"
      /\ i = 2 => I.op = "POP"
      /\ i = 5 => I.op = "INT"
  BY <1>4, InstParts, RegisterParts
<1>6. CASE i \in {1, 3, 4}
  <2>1. MoveFrame \/ MoveToRegister
    BY <1>5, <1>6, StepOf DEF MoveToMemory
  <2>2. UNCHANGED compilerVars /\ UNCHANGED <<cpu, mem, printed>> /\ pc' = pc + 1
    BY <2>1 DEF MoveFrame, MoveToRegister, Advance
  <2>3. QED
    BY <1>1, <1>2, <1>6, <2>2
<1>7. CASE i = 2
  <2>1. Pop \/ PopFrame
    BY <1>5, <1>7, StepOf
  <2>2. UNCHANGED compilerVars /\ UNCHANGED <<cpu, mem, printed>> /\ pc' = pc + 1
    BY <2>1 DEF Pop, PopFrame, Advance
  <2>3. QED
    BY <1>1, <1>2, <1>7, <2>2
<1>8. CASE i = 5
  <2>1. Exit
    BY <1>5, <1>8, StepOf
  <2>2. QED
    BY <2>1 DEF Exit
<1>9. QED
  BY <1>2, <1>6, <1>7, <1>8

(* The processor stays at the point of the next instruction. *)
LEMMA RunningStep ==
  ASSUME NEW L, NEW S, NEW P, NEW e, Works(L, S, P, e), ProcessorSteps
  PROVE  /\ UNCHANGED compilerVars
         /\ cpu' \in {"running", "trapped", "exited", "failed"}
         /\ cpu' = "running" => Running(S, P, e)'
<1>1. /\ Running(S, P, e) /\ pc \in 1 .. e + 5 /\ e \in Nat /\ e >= 6
  BY CodeParts
<1>2. CASE pc \in 1 .. 6
  BY <1>2, PrologueStep
<1>3. CASE pc \in e + 1 .. e + 5
  <2>1. /\ UNCHANGED compilerVars
        /\ cpu' = "exited" \/ (cpu' = "running" /\ pc' \in e + 2 .. e + 5)
    BY <1>3, EpilogueStep
  <2>2. pc' \in e + 2 .. e + 5 => Running(S, P, e)'
    BY <1>1 DEF Running
  <2>3. QED
    BY <2>1, <2>2
<1>4. CASE pc \in 7 .. e
  <2>1. /\ UNCHANGED compilerVars
        /\ \/ cpu' = "trapped"
           \/ /\ cpu' = "running" /\ ebp' = ebp
              /\ pc' \in 7 .. e + 1 /\ AtPoint(S, P[pc])'
    BY <1>4, BodyStep
  <2>2. ASSUME ebp' = ebp, pc' \in 7 .. e + 1, AtPoint(S, P[pc])'
        PROVE  Running(S, P, e)'
    <3>1. PICK r : r = P[pc']
      OBVIOUS
    <3>2. r \in Points /\ r.d \in Nat
      BY <1>1, <2>2, <3>1, PointParts DEF Works
    <3>3. AtPoint(S, r)'
      BY <2>2, <3>1
    <3>4. esp' = Slot(r.d)' /\ ebp' \in Int /\ get_alloc_size' \in Nat
      <4>1. ebp \in Int
        BY <1>1, <1>4 DEF Running
      <4>2. get_alloc_size \in Nat
        BY DEF Works, CompilerTypeOK, CheckerTypeOK, get_alloc_size
      <4>3. QED
        BY <2>1, <2>2, <3>3, <4>1, <4>2, CompilerRests DEF AtPoint
    <3>5. esp' \in Int
      BY <3>2, <3>4 DEF Slot
    <3>6. QED
      BY <1>1, <2>2, <3>4, <3>5 DEF Running
  <2>3. QED
    BY <2>1, <2>2
<1>5. QED
  BY <1>1, <1>2, <1>3, <1>4

(* Only the calls of the body print. *)
LEMMA PrintingStep ==
  ASSUME NEW L, NEW S, NEW P, NEW e, Works(L, S, P, e), ProcessorSteps
  PROVE  printed' = printed \/ PrintsTyped
<1>1. pc \in 1 .. e + 5 /\ e \in Nat /\ e >= 6
  BY CodeParts
<1>2. CASE pc \in 1 .. 6
  BY <1>2, PrologueStep
<1>3. CASE pc \in e + 1 .. e + 5
  BY <1>3, EpilogueStep
<1>4. CASE pc \in 7 .. e
  <2>1. PICK p, q : p = P[pc] /\ q = P[pc + 1]
    OBVIOUS
  <2>2. p \in Points /\ q \in Points /\ Executes(L, S, p, q) /\ S \in [Nat -> Kinds]
    BY <1>4, <2>1, BodyHere DEF Works
  <2>3. CASE CallPrintf \/ CallPrintFloat
    BY <2>2, <2>3, PrintedTyped
  <2>4. CASE ~ (CallPrintf \/ CallPrintFloat)
    <3>1. ~ OtherSteps
      BY <2>2, NotInBody
    <3>2. printed' = printed
      BY <2>4, <3>1 DEF ProcessorSteps, BodySteps, Push, Pop, AdjustStack, MoveToRegister,
         MoveToMemory, ClearFloat, IntArithmetic, FloatArithmetic, Divide, DivideError, Compare,
         LoadX87, CompareX87, PassLabel, SetByte, Jump
    <3>3. QED
      BY <3>2
  <2>5. QED
    BY <2>3, <2>4
<1>5. QED
  BY <1>1, <1>2, <1>3, <1>4

(* The values that have been printed are a sequence. *)
LEMMA PrintedSequence ==
  ASSUME NEW T, NEW s \in Seq(T)
  PROVE  s \in Seq({s[i] : i \in DOMAIN s})
<1>. DEFINE n == Len(s)
            e(i) == s[i]
<1>1. n \in Nat /\ DOMAIN s = 1 .. n
  BY LenProperties
<1>2. s = [i \in 1 .. n |-> e(i)]
  BY <1>1
<1>3. \A i \in 1 .. n : e(i) \in {s[j] : j \in DOMAIN s}
  BY <1>1
<1>. HIDE DEF n, e
<1>4. [i \in 1 .. n |-> e(i)] \in Seq({s[j] : j \in DOMAIN s})
  BY <1>1, <1>3, IsASeq
<1>5. QED
  BY <1>2, <1>4

(* The registers stay the registers.                                       *)
LEMMA RegistersStay ==
  ASSUME ProcessorSteps, DOMAIN reg = GeneralRegisters
  PROVE  DOMAIN reg' = GeneralRegisters
<1>1. CASE UNCHANGED reg
  BY <1>1
<1>2. CASE \E r, w : reg' = [reg EXCEPT ![r] = w]
  BY <1>2
<1>3. CASE \E w, x : reg' = [reg EXCEPT !.EAX = w, !.EDX = x]
  BY <1>3
<1>4. CASE \E args : Clobber(args)
  BY <1>4 DEF Clobber
<1>5. Pop \/ MoveToRegister \/ ClearFloat \/ FloatArithmetic \/ SetByte =>
        \E r, w : reg' = [reg EXCEPT ![r] = w]
  BY DEF Pop, MoveToRegister, ClearFloat, FloatArithmetic, SetByte
<1>6. IntArithmetic \/ Divide => \E w, x : reg' = [reg EXCEPT !.EAX = w, !.EDX = x]
  <2>1. IntArithmetic => \E w, x : reg' = [reg EXCEPT !.EAX = w, !.EDX = x]
    BY DEF IntArithmetic
  <2>2. Divide => \E w, x : reg' = [reg EXCEPT !.EAX = w, !.EDX = x]
    BY DEF Divide
  <2>3. QED
    BY <2>1, <2>2
<1>7. CallAllocHeap \/ CallPrintf \/ CallPrintFloat => \E args : Clobber(args)
  BY DEF CallAllocHeap, CallPrintf, CallPrintFloat
<1>8. Push \/ PopFrame \/ AdjustStack \/ MoveFrame \/ MoveToMemory \/ DivideError \/ Compare
        \/ LoadX87 \/ CompareX87 \/ Jump \/ PassLabel \/ AllocHeapExits \/ Exit => UNCHANGED reg
  BY DEF Push, PopFrame, AdjustStack, MoveFrame, MoveToMemory, DivideError, Compare, LoadX87,
         CompareX87, Jump, PassLabel, AllocHeapExits, Exit
<1>9. QED
  BY <1>1, <1>2, <1>3, <1>4, <1>5, <1>6, <1>7, <1>8 DEF ProcessorSteps, BodySteps, OtherSteps

(* What is known of the compiler and of the processor. *)
RunFacts ==
  /\ CompilerTypeOK /\ SlotsInFrame /\ JumpsResolve
  /\ Shape /\ TypedRun /\ PrintedAsTyped

(* Whenever the processor runs it runs a typed program. *)
LEMMA AtWork ==
  ASSUME RunFacts, cpu = "running"
  PROVE  \E L, S, P, e : L \in [Nat -> Points] /\ Works(L, S, P, e)
<1>1. status = "compiled"
  BY DEF RunFacts, Shape
<1>2. PICK L \in [Nat -> Points], S \in [Nat -> Kinds], P \in [Nat -> Points], e \in Nat :
        RunTyped(L, S, P, e)
  BY <1>1 DEF RunFacts, TypedRun
<1>3. Works(L, S, P, e)
  BY <1>1, <1>2 DEF Works, RunFacts
<1>4. QED
  BY <1>3

(* The typing of a program does not change while it runs. *)
LEMMA RunTypedSame ==
  ASSUME UNCHANGED compilerVars, NEW L, NEW S, NEW P, NEW e, RunTyped(L, S, P, e),
         cpu' = "running" => Running(S, P, e)'
  PROVE  RunTyped(L, S, P, e)'
<1>1. /\ UNCHANGED <<prog, value_type, m_IntCount, m_FloatCount, m_PtrCount>>
      /\ UNCHANGED <<code, m_BPOffset>>
  BY CompilerRests
<1>2. PICK c, B : c = SubSeq(code, 1, e) /\ B = m_BPOffset
  OBVIOUS
<1>3. TypedCode(c, L, S, B, P)
  BY <1>2 DEF RunTyped
<1>4. TypedCode(c, L, S, B, P)'
  BY <1>1, <1>3, TypedCodeSame
<1>5. TypedCode(SubSeq(code, 1, e), L, S, m_BPOffset, P)'
  BY <1>1, <1>2, <1>4
<1>6. (e + 5 = Len(code) /\ \A i \in 1 .. 5 : code[e + i] = Epilogue[i])'
  BY <1>1 DEF RunTyped, Epilogue
<1>7. QED
  BY <1>5, <1>6 DEF RunTyped

(* What is printed is printed as it was typed. *)
LEMMA PrintedStep ==
  ASSUME PrintedAsTyped, UNCHANGED <<prog, value_type>>, NEW T, printed \in Seq(T),
         printed' = printed \/ PrintsTyped
  PROVE  PrintedAsTyped' /\ printed' \in Seq({printed'[i] : i \in DOMAIN printed'})
<1>1. CASE printed' = printed
  <2>1. PrintedAsTyped'
    BY <1>1 DEF PrintedAsTyped
  <2>2. QED
    BY <1>1, <2>1, PrintedSequence
<1>2. CASE PrintsTyped
  <2>1. PICK w : /\ printed' = Append(printed, w)
                 /\ Fits(w, value_type[prog.root[Len(printed) + 1]])
                 /\ value_type[prog.root[Len(printed) + 1]] \in {"INT", "FLOAT"}
    BY <1>2 DEF PrintsTyped
  <2>2. PICK len \in Nat : len = Len(printed)
    BY LenProperties
  <2>3. /\ Append(printed, w) \in Seq(T \cup {w})
        /\ Len(Append(printed, w)) = len + 1
        /\ \A i \in 1 .. len : Append(printed, w)[i] = printed[i]
        /\ Append(printed, w)[len + 1] = w
    <3>1. printed \in Seq(T \cup {w}) /\ w \in T \cup {w}
      OBVIOUS
    <3>2. QED
      BY <2>2, <3>1, AppendProperties
  <2>4. printed' \in Seq({printed'[i] : i \in DOMAIN printed'})
    BY <2>1, <2>3, PrintedSequence
  <2>5. ASSUME NEW i \in 1 .. len + 1
        PROVE  printed'[i].k \in {"undef", "nan"} \cup
                 (IF value_type[prog.root[i]] = "FLOAT" THEN {"float"} ELSE {"int"})
    <3>1. CASE i = len + 1
      BY <2>1, <2>2, <2>3, <3>1 DEF Fits
    <3>2. CASE i \in 1 .. len
      BY <2>1, <2>2, <2>3, <3>2 DEF PrintedAsTyped
    <3>3. QED
      BY <2>2, <2>5, <3>1, <3>2
  <2>6. PrintedAsTyped'
    BY <2>1, <2>3, <2>5 DEF PrintedAsTyped
  <2>7. QED
    BY <2>4, <2>6
<1>3. QED
  BY <1>1, <1>2

(* Every step of the processor keeps the typing. *)
LEMMA ProcessorStep ==
  ASSUME RunFacts, ProcessorSteps
  PROVE  UNCHANGED compilerVars /\ Shape' /\ TypedRun' /\ PrintedAsTyped'
<1>1. cpu = "running"
  BY DEF ProcessorSteps, BodySteps, OtherSteps, Push, Pop, PopFrame, AdjustStack, MoveFrame,
         MoveToRegister, MoveToMemory, ClearFloat, IntArithmetic, FloatArithmetic, Divide,
         DivideError, Compare, LoadX87, CompareX87, SetByte, Jump, PassLabel, CallAllocHeap,
         AllocHeapExits, CallPrintf, CallPrintFloat, Exit, Calling, Executing
<1>2. PICK L, S, P, e : L \in [Nat -> Points] /\ Works(L, S, P, e)
  BY <1>1, AtWork
<1>3. /\ UNCHANGED compilerVars
      /\ cpu' \in {"running", "trapped", "exited", "failed"}
      /\ cpu' = "running" => Running(S, P, e)'
  BY <1>2, RunningStep
<1>4. S \in [Nat -> Kinds] /\ P \in [Nat -> Points] /\ e \in Nat /\ status = "compiled"
      /\ RunTyped(L, S, P, e)
  BY <1>2 DEF Works
<1>5. TypedRun'
  <2>1. RunTyped(L, S, P, e)'
    BY <1>3, <1>4, RunTypedSame
  <2>2. QED
    BY <1>2, <1>4, <2>1 DEF TypedRun
<1>6. PrintedAsTyped' /\ printed' \in Seq({printed'[i] : i \in DOMAIN printed'})
  <2>1. printed' = printed \/ PrintsTyped
    BY <1>2, PrintingStep
  <2>2. PICK T : printed \in Seq(T)
    BY DEF RunFacts, Shape
  <2>3. PrintedAsTyped /\ UNCHANGED <<prog, value_type>>
    BY <1>3, CompilerRests DEF RunFacts
  <2>4. QED
    BY <2>1, <2>2, <2>3, PrintedStep
<1>7. Shape'
  <2>1. DOMAIN reg' = GeneralRegisters
    BY RegistersStay DEF RunFacts, Shape
  <2>2. status' = "compiled"
    BY <1>3, <1>4, CompilerRests
  <2>3. QED
    BY <1>3, <1>6, <2>1, <2>2 DEF Shape
<1>8. QED
  BY <1>3, <1>5, <1>6, <1>7

(* The calls of the program are alloc_heap's and those of its body. *)
LEMMA CallsInBody ==
  ASSUME NEW L, NEW S, NEW P, NEW e, Works(L, S, P, e), I.op = "CALL", I.a.name # "alloc_heap"
  PROVE  pc \in 7 .. e
<1>1. /\ pc \in 1 .. e + 5 /\ e \in Nat
      /\ \A i \in 1 .. 5 : code[e + i] = Epilogue[i]
  BY CodeParts
<1>2. pc \notin 1 .. 6
  <2>1. ASSUME pc \in 1 .. 6
        PROVE  FALSE
    <3>1. /\ pc = 1 => I.op = "AND"
          /\ pc = 2 => I.op = "PUSH"
          /\ pc = 3 => I.op = "MOV"
          /\ pc = 4 => I.op = "SUB"
          /\ pc = 5 => I.a.name = "alloc_heap"
          /\ pc = 6 => I.op = "MOV"
      BY <2>1, PrologueAt, InstParts, OperandParts
    <3>2. QED
      BY <2>1, <3>1
  <2>2. QED
    BY <2>1
<1>3. ASSUME pc \in e + 1 .. e + 5
      PROVE  FALSE
  <2>1. pc - e \in 1 .. 5 /\ e + (pc - e) = pc
    BY <1>1, <1>3
  <2>2. I = Epilogue[pc - e]
    BY <1>1, <2>1 DEF I
  <2>3. \A i \in 1 .. 5 : Epilogue[i].op # "CALL"
    BY InstParts DEF Epilogue
  <2>4. QED
    BY <2>1, <2>2, <2>3
<1>4. QED
  BY <1>1, <1>2, <1>3

(* When a value is printed the processor is at a point of the body, and the *)
(* typing of the call says how deep the stack is there.                    *)
LEMMA BalancedWhenPrinting ==
  ASSUME RunFacts
  PROVE  StackBalanced
<1>1. SUFFICES ASSUME Printing
               PROVE  esp = ebp - get_alloc_size - 4 * (2 * (Len(printed) + 1)
                              - Floats(Len(printed) + 1))
  BY DEF StackBalanced, Floats
<1>2. cpu = "running" /\ I.op = "CALL" /\ I.a.name \in {"printf", "print_float"}
  BY <1>1 DEF Printing
<1>3. PICK L, S, P, e : L \in [Nat -> Points] /\ Works(L, S, P, e)
  BY <1>2, AtWork
<1>4. pc \in 7 .. e
  BY <1>2, <1>3, CallsInBody
<1>5. PICK p, q : p = P[pc] /\ q = P[pc + 1]
  OBVIOUS
<1>6. p \in Points /\ Executes(L, S, p, q)
  BY <1>3, <1>4, <1>5, BodyHere
<1>7. Prints(I.a.name, p)
  BY <1>2, <1>6, CallOf
<1>8. esp = Slot(p.d) /\ Len(printed) = p.c /\ p.d = Level(p.c + 1)
  BY <1>6, <1>7, BodyParts DEF Executes, Prints
<1>9. QED
  BY <1>8 DEF Slot, Level

(* The word at a stays what it is. *)
Kept(a) == a \in DOMAIN mem' /\ mem'[a] = mem[a]

(* A store changes one word. *)
LEMMA StoreKeeps ==
  ASSUME NEW a \in DOMAIN mem, NEW b, NEW w, Store(b, w), a # b
  PROVE  Kept(a)
  BY DEF Store, Kept

(* The C functions destroy nothing above their arguments. *)
LEMMA ClobberKeeps ==
  ASSUME NEW a \in DOMAIN mem, NEW args, Clobber(args), a >= esp + 4 * args
  PROVE  Kept(a)
  BY DEF Clobber, Kept

(* The steps of the prologue that could reach a word of the frame. *)
LEMMA PrologueKeeps ==
  ASSUME NEW L, NEW S, NEW P, NEW e, Works(L, S, P, e), pc \in 1 .. 6, ProcessorSteps,
         NEW a \in DOMAIN mem, a \in Int, a >= ebp - get_alloc_size
  PROVE  Kept(a)
<1>1. Running(S, P, e) /\ e \in Nat /\ e >= 6
  BY PrologueAt
<1>2. pc \notin {1, 2}
  BY <1>1 DEF Running
<1>3. CASE pc = 3
  <2>1. I.op = "MOV" /\ I.a = EBP
    BY <1>3, PrologueAt, InstParts
  <2>2. MoveFrame
    BY <2>1, StepOf, RegisterParts DEF MoveToRegister, MoveToMemory, ToRegister, GeneralRegisters
  <2>3. QED
    BY <2>2 DEF MoveFrame, Kept
<1>4. CASE pc = 4
  <2>1. I.op = "SUB" /\ I.a = ESP
    BY <1>4, PrologueAt, InstParts
  <2>2. AdjustStack
    BY <2>1, StepOf, RegisterParts DEF IntArithmetic, ToRegister
  <2>3. QED
    BY <2>2 DEF AdjustStack, Kept
<1>5. CASE pc = 5
  <2>1. I.op = "CALL" /\ I.a.name = "alloc_heap"
    BY <1>5, PrologueAt, InstParts, OperandParts
  <2>2. Clobber(0) \/ AllocHeapExits
    BY <2>1, StepOf DEF CallPrintf, CallPrintFloat, CallAllocHeap, Calling
  <2>3. AtPoint(S, AtStatement(0)) /\ esp \in Int /\ ebp \in Int
    BY <1>1, <1>5 DEF Running
  <2>4. esp = Slot(0)
    BY <2>3, FirstStatement DEF AtPoint
  <2>5. get_alloc_size \in Nat
    BY DEF Works, CompilerTypeOK, CheckerTypeOK, get_alloc_size
  <2>6. a >= esp + 4 * 0
    BY <2>3, <2>4, <2>5 DEF Slot
  <2>7. CASE Clobber(0)
    BY <2>6, <2>7, ClobberKeeps
  <2>8. CASE AllocHeapExits
    BY <2>8 DEF AllocHeapExits, Kept
  <2>9. QED
    BY <2>2, <2>7, <2>8
<1>6. CASE pc = 6
  <2>1. I.op = "MOV" /\ I.a.mode = "sym"
    BY <1>6, PrologueAt, InstParts, OperandParts
  <2>2. MoveToMemory
    BY <2>1, StepOf DEF MoveFrame, MoveToRegister, ToRegister
  <2>3. QED
    BY <2>1, <2>2 DEF MoveToMemory, Kept
<1>7. QED
  BY <1>2, <1>3, <1>4, <1>5, <1>6

(* A push or a call of the body stays below the frame, and a move reaches   *)
(* into it only at the slot it names.                                      *)
LEMMA BodyKeeps ==
  ASSUME NEW L, NEW S \in [Nat -> Kinds], NEW p \in Points, NEW q \in Points,
         Executes(L, S, p, q), BodySteps \/ Jump \/ DivideError,
         NEW i \in Nat, 4 * i <= get_alloc_size, ebp - 4 * i \in DOMAIN mem
  PROVE  Kept(ebp - 4 * i) \/ (I.op = "MOV" /\ I.a = Deref("EBP", -4 * i))
<1>. DEFINE a == ebp - 4 * i
<1>1. /\ Body(S, p) /\ p.d \in Nat /\ ebp \in Int /\ esp \in Int /\ get_alloc_size \in Nat
      /\ esp = Slot(p.d) /\ a \in Int /\ a >= ebp - get_alloc_size
      /\ I \in Instructions
  <2>1. /\ Body(S, p) /\ p.d \in Nat /\ ebp \in Int /\ esp \in Int /\ get_alloc_size \in Nat
        /\ esp = Slot(p.d) /\ I \in Instructions
    BY BodyParts DEF Executes
  <2>2. a \in Int /\ a >= ebp - get_alloc_size
    BY <2>1
  <2>3. QED
    BY <2>1, <2>2
<1>2. esp = ebp - get_alloc_size - 4 * p.d
  BY <1>1 DEF Slot
<1>3. CASE UNCHANGED mem
  BY <1>3 DEF Kept
<1>4. CASE Push
  <2>1. Store(esp - 4, Get(I.a))
    BY <1>4 DEF Push
  <2>2. a # esp - 4
    BY <1>1, <1>2
  <2>3. QED
    BY <2>1, <2>2, StoreKeeps
<1>5. CASE MoveToMemory
  <2>1. /\ I.op \in {"MOV", "MOVSS"} /\ I.a.mode \in {"deref", "sym"}
        /\ IF I.a.mode = "deref" THEN Store(Address(I.a), Get(I.b)) ELSE UNCHANGED mem
    BY <1>5 DEF MoveToMemory, Executing
  <2>2. Moves(I, S, m_BPOffset, p, q)
    BY <2>1 DEF Executes, Runs, JumpOps, ScalarOps, SetOps, FlagOps
  <2>3. I.a \notin {EAX, EDX, ECX, XMM0, XMM1}
    BY <2>1, RegisterParts
  <2>4. CASE I.a = Deref("ESP", -4) \/ OnStack(p, I.a)
    <3>1. I.a.mode = "deref" /\ I.a.name = "ESP"
          /\ (I.a.n = -4 \/ (I.a.n = 0 /\ p.d >= 1) \/ (I.a.n = 4 /\ p.d >= 2))
      <4>1. CASE OnStack(p, I.a)
        BY <4>1 DEF OnStack
      <4>2. CASE I.a = Deref("ESP", -4)
        <5>1. \A m : Deref("ESP", m).mode = "deref" /\ Deref("ESP", m).name = "ESP"
                    /\ Deref("ESP", m).n = m
          BY OperandParts
        <5>2. QED
          BY <4>2, <5>1
      <4>3. QED
        BY <2>4, <4>1, <4>2
    <3>2. Address(I.a) = esp + I.a.n
      BY <3>1 DEF Address
    <3>3. a # Address(I.a)
      BY <1>1, <1>2, <3>1, <3>2
    <3>4. QED
      BY <2>1, <3>1, <3>3, StoreKeeps
  <2>5. CASE I.op = "MOV" /\ InFrame(m_BPOffset, I.a)
    <3>1. I.a.mode = "deref" /\ I.a.name = "EBP" /\ I.a.n \in Int /\ I.a \in InstOperands
      BY <1>1, <2>5, InstructionParts DEF InFrame, InstOperands
    <3>2. Address(I.a) = ebp + I.a.n
      BY <3>1, <2>1 DEF Address
    <3>3. CASE a = Address(I.a)
      <4>1. \A x, y \in Int : ebp - 4 * x = ebp + y => y = -4 * x
        BY <1>1
      <4>2. i \in Int /\ ebp - 4 * i = ebp + I.a.n
        BY <3>2, <3>3
      <4>3. I.a.n = -4 * i
        BY <3>1, <4>1, <4>2
      <4>4. I.a = Deref("EBP", I.a.n)
        BY <3>1 DEF Deref, Operand, InstOperands
      <4>5. QED
        BY <2>5, <4>3, <4>4
    <3>4. CASE a # Address(I.a)
      BY <2>1, <3>1, <3>4, StoreKeeps
    <3>5. QED
      BY <3>3, <3>4
  <2>6. QED
    BY <2>2, <2>3, <2>4, <2>5 DEF Moves
<1>6. CASE CallPrintf \/ CallPrintFloat
  <2>1. I.op = "CALL"
    BY <1>6 DEF CallPrintf, CallPrintFloat, Calling, Executing
  <2>2. Prints(I.a.name, p)
    BY <2>1, CallOf
  <2>3. CASE CallPrintf
    <3>1. Clobber(2) /\ p.d >= 2
      BY <2>2, <2>3 DEF CallPrintf, Calling, Prints
    <3>2. a >= esp + 4 * 2
      BY <1>1, <1>2, <3>1
    <3>3. QED
      BY <3>1, <3>2, ClobberKeeps
  <2>4. CASE CallPrintFloat
    <3>1. Clobber(1) /\ p.d >= 1
      BY <2>2, <2>4 DEF CallPrintFloat, Calling, Prints
    <3>2. a >= esp + 4 * 1
      BY <1>1, <1>2, <3>1
    <3>3. QED
      BY <3>1, <3>2, ClobberKeeps
  <2>5. QED
    BY <1>6, <2>3, <2>4
<1>7. BodySteps \/ Jump \/ DivideError =>
        UNCHANGED mem \/ Push \/ MoveToMemory \/ CallPrintf \/ CallPrintFloat
  BY DEF BodySteps, Pop, AdjustStack, MoveToRegister, ClearFloat, IntArithmetic, FloatArithmetic,
         Divide, Compare, LoadX87, CompareX87, PassLabel, SetByte, Jump, DivideError
<1>8. QED
  BY <1>3, <1>4, <1>5, <1>6, <1>7

(* What FrameIntact says of a step. *)
Intact ==
  \A i \in 1 .. m_BPOffset \div 4 - 1 :
    LET a == ebp - 4 * i IN
      cpu = "running" /\ a \in DOMAIN mem =>
        \/ a \in DOMAIN mem' /\ mem'[a] = mem[a]
        \/ I.op = "MOV" /\ I.a = Deref("EBP", -4 * i)

(* Every step of the processor leaves the other variables what they are. *)
LEMMA FrameKept ==
  ASSUME RunFacts, ProcessorSteps
  PROVE  Intact
<1>1. SUFFICES ASSUME NEW i \in 1 .. m_BPOffset \div 4 - 1, cpu = "running",
                      ebp - 4 * i \in DOMAIN mem
               PROVE  Kept(ebp - 4 * i) \/ (I.op = "MOV" /\ I.a = Deref("EBP", -4 * i))
  BY DEF Intact, Kept
<1>2. PICK L, S, P, e : L \in [Nat -> Points] /\ Works(L, S, P, e)
  BY <1>1, AtWork
<1>3. pc \in 1 .. e + 5 /\ e \in Nat /\ e >= 6 /\ Running(S, P, e)
  BY <1>2, CodeParts
<1>4. /\ get_alloc_size \in Nat /\ m_BPOffset \in Nat /\ m_BPOffset - 4 <= get_alloc_size
  BY <1>2 DEF Works, CompilerTypeOK, CheckerTypeOK, get_alloc_size, SlotsInFrame
<1>5. i \in Nat /\ 4 * i <= get_alloc_size
  BY <1>1, <1>4
<1>6. CASE pc \in e + 1 .. e + 5
  <2>1. UNCHANGED mem
    BY <1>2, <1>6, EpilogueStep
  <2>2. QED
    BY <1>1, <2>1 DEF Kept
<1>7. CASE pc \in 1 .. 6
  <2>1. ebp \in Int
    BY <1>3, <1>7 DEF Running
  <2>2. ebp - 4 * i \in Int /\ ebp - 4 * i >= ebp - get_alloc_size
    BY <1>4, <1>5, <2>1
  <2>3. QED
    BY <1>1, <1>2, <1>7, <2>2, PrologueKeeps
<1>8. CASE pc \in 7 .. e
  <2>1. PICK p, q : p = P[pc] /\ q = P[pc + 1]
    OBVIOUS
  <2>2. p \in Points /\ q \in Points /\ Executes(L, S, p, q) /\ S \in [Nat -> Kinds]
    BY <1>2, <1>8, <2>1, BodyHere DEF Works
  <2>3. BodySteps \/ Jump \/ DivideError
    BY <2>2, NotInBody DEF ProcessorSteps
  <2>4. QED
    BY <1>1, <1>5, <2>2, <2>3, BodyKeeps
<1>9. QED
  BY <1>3, <1>6, <1>7, <1>8

(* At the start. *)
LEMMA MachineStart ==
  ASSUME MachineInit
  PROVE  NoPointers /\ TypedTodo /\ Shape /\ TypedRun /\ PrintedAsTyped
<1>1. /\ CompilerInit /\ status = "checking" /\ cpu = "idle" /\ pc = 1
      /\ reg = [r \in GeneralRegisters |-> Undef] /\ esp \in StackTops /\ ebp = 0
      /\ mem = <<>> /\ printed = <<>>
  BY DEF MachineInit, CompilerInit, CheckerInit
<1>2. NoPointers
  BY <1>1, NoPointersInit
<1>3. TypedTodo /\ TypedRun
  BY <1>1 DEF TypedTodo, TypedRun
<1>4. PrintedAsTyped
  BY <1>1 DEF PrintedAsTyped
<1>5. Shape
  <2>1. printed \in Seq({printed[i] : i \in DOMAIN printed})
    BY <1>1, PrintedSequence
  <2>2. esp \in Int /\ ebp \in Int
    BY <1>1, StackTopsAssumption
  <2>3. Fresh
    BY <1>1 DEF Fresh
  <2>4. QED
    BY <1>1, <2>1, <2>2, <2>3 DEF Shape
<1>6. QED
  BY <1>2, <1>3, <1>4, <1>5

(* While the compiler works the processor has not begun. *)
LEMMA CompileStep ==
  ASSUME RunFacts, CompilerFacts, CompilerNext, CompilerTypeOK', UNCHANGED machineVars
  PROVE  Shape' /\ TypedRun' /\ PrintedAsTyped'
<1>1. status \in {"checking", "emitting"} /\ (status' = "compiled" => EndMain)
  <2>1. CASE CheckerNext
    BY <2>1, CheckerHead DEF CompilerFacts
  <2>2. CASE BeginMain
    BY <2>2 DEF BeginMain
  <2>3. CASE EmitterSteps
    BY <2>3, EmitterFrame
  <2>4. QED
    BY <2>1, <2>2, <2>3 DEF CompilerNext, EmitterSteps, PlainSteps
<1>2. /\ cpu = "idle" /\ pc = 1 /\ mem = <<>> /\ esp \in Int /\ ebp \in Int /\ Fresh
      /\ DOMAIN reg = GeneralRegisters
      /\ printed \in Seq({printed[i] : i \in DOMAIN printed})
  BY <1>1 DEF RunFacts, Shape
<1>3. UNCHANGED <<cpu, pc, reg, esp, ebp, mem, printed>>
  BY DEF machineVars
<1>4. Shape'
  BY <1>2, <1>3 DEF Shape, Fresh
<1>5. PrintedAsTyped'
  BY <1>2, <1>3 DEF PrintedAsTyped, Fresh
<1>6. TypedRun'
  <2>1. CASE status' # "compiled"
    BY <2>1 DEF TypedRun
  <2>2. CASE status' = "compiled"
    <3>1. EndMain
      BY <1>1, <2>2
    <3>2. status = "emitting"
      BY <3>1 DEF EndMain
    <3>3. EmitterFacts
      BY <3>2, FactsOfEmitter
    <3>4. PICK L \in [Nat -> Points], S \in [Nat -> Kinds], g \in Seq(Points) :
            EmitTyped(L, S, g)
      BY <3>2, FactsOfEmitter
    <3>5. cpu' = "idle"
      BY <1>2, <1>3
    <3>6. QED
      BY <3>1, <3>3, <3>4, <3>5, EndMainTyped
  <2>3. QED
    BY <2>1, <2>2
<1>7. QED
  BY <1>4, <1>5, <1>6

(* The program is typed before it begins. *)
LEMMA BeginStep ==
  ASSUME RunFacts, Begin
  PROVE  Shape' /\ TypedRun' /\ PrintedAsTyped'
<1>1. /\ cpu = "idle" /\ status = "compiled" /\ cpu' = "running"
      /\ UNCHANGED compilerVars /\ UNCHANGED <<pc, reg, esp, ebp, mem, printed>>
  BY DEF Begin
<1>2. /\ pc = 1 /\ mem = <<>> /\ esp \in Int /\ ebp \in Int /\ Fresh
      /\ DOMAIN reg = GeneralRegisters
      /\ printed \in Seq({printed[i] : i \in DOMAIN printed})
  BY <1>1 DEF RunFacts, Shape
<1>3. UNCHANGED <<prog, value_type, status>>
  BY <1>1, CompilerRests
<1>4. Shape'
  BY <1>1, <1>2, <1>3 DEF Shape
<1>5. PrintedAsTyped'
  BY <1>1, <1>2, <1>3 DEF PrintedAsTyped, Fresh
<1>6. TypedRun'
  <2>1. PICK L \in [Nat -> Points], S \in [Nat -> Kinds], P \in [Nat -> Points], e \in Nat :
          RunTyped(L, S, P, e)
    BY <1>1 DEF RunFacts, TypedRun
  <2>2. e >= 6
    <3>1. PICK c : c = SubSeq(code, 1, e)
      OBVIOUS
    <3>2. Len(c) >= 6
      BY <2>1, <3>1 DEF RunTyped, TypedCode
    <3>3. code \in Seq(Instructions) /\ e + 5 = Len(code)
      BY <2>1 DEF RunTyped, RunFacts, CompilerTypeOK
    <3>4. Len(c) = e
      <4>1. 1 \in 1 .. Len(code) + 1 /\ e \in 1 - 1 .. Len(code)
        BY <3>3
      <4>2. Len(SubSeq(code, 1, e)) = IF 1 <= e THEN e - 1 + 1 ELSE 0
        BY <3>3, <4>1, SubSeqProperties
      <4>3. QED
        BY <3>1, <4>2
    <3>5. QED
      BY <3>2, <3>4
  <2>3. Fresh'
    BY <1>1, <1>2 DEF Fresh
  <2>4. Running(S, P, e)'
    <3>1. pc' = 1 /\ DOMAIN mem' = {} /\ esp' \in Int /\ ebp' \in Int
      BY <1>1, <1>2
    <3>2. QED
      BY <2>2, <2>3, <3>1 DEF Running
  <2>5. RunTyped(L, S, P, e)'
    BY <1>1, <2>1, <2>4, RunTypedSame
  <2>6. QED
    BY <2>5 DEF TypedRun
<1>7. QED
  BY <1>4, <1>5, <1>6

(* And as long as nothing changes. *)
LEMMA MachineStutter ==
  ASSUME Shape, TypedRun, PrintedAsTyped, UNCHANGED vars
  PROVE  Shape' /\ TypedRun' /\ PrintedAsTyped'
<1>1. /\ UNCHANGED compilerVars /\ UNCHANGED <<cpu, pc, reg, esp, ebp, mem, printed>>
  BY DEF vars, machineVars
<1>2. UNCHANGED <<prog, value_type, status>> /\ get_alloc_size' = get_alloc_size
  BY <1>1, CompilerRests
<1>3. Shape' /\ PrintedAsTyped'
  BY <1>1, <1>2 DEF Shape, PrintedAsTyped, Fresh
<1>4. TypedRun'
  <2>1. SUFFICES ASSUME status' = "compiled"
                 PROVE  TypedRun'
    BY DEF TypedRun
  <2>2. PICK L \in [Nat -> Points], S \in [Nat -> Kinds], P \in [Nat -> Points], e \in Nat :
          RunTyped(L, S, P, e)
    BY <1>2, <2>1 DEF TypedRun
  <2>3. ASSUME cpu' = "running"
        PROVE  Running(S, P, e)'
    <3>1. Running(S, P, e)
      BY <1>1, <2>2, <2>3 DEF RunTyped
    <3>2. PICK r : r = P[pc]
      OBVIOUS
    <3>3. PICK a : a = AtStatement(0)
      OBVIOUS
    <3>4. P[pc]' = r /\ AtStatement(0)' = a
      BY <1>1, <1>2, <3>2, <3>3, LevelsSame
    <3>5. AtPoint(S, r)' <=> AtPoint(S, r)
      BY <1>1, <1>2 DEF AtPoint, RegistersFit, WordsFit, Load, Slot
    <3>6. AtPoint(S, a)' <=> AtPoint(S, a)
      BY <1>1, <1>2 DEF AtPoint, RegistersFit, WordsFit, Load, Slot
    <3>7. /\ pc \in {5, 6} => AtPoint(S, a)
          /\ pc \in 7 .. e + 1 => AtPoint(S, r)
      BY <3>1, <3>2, <3>3 DEF Running
    <3>8. /\ pc' \in {5, 6} => AtPoint(S, AtStatement(0))'
          /\ pc' \in 7 .. e + 1 => AtPoint(S, P[pc])'
      BY <1>1, <3>4, <3>5, <3>6, <3>7
    <3>9. QED
      BY <1>1, <3>1, <3>8 DEF Running, Fresh
  <2>4. RunTyped(L, S, P, e)'
    BY <1>1, <2>2, <2>3, RunTypedSame
  <2>5. QED
    BY <2>4 DEF TypedRun
<1>5. QED
  BY <1>3, <1>4

-----------------------------------------------------------------------------
(* The theorems.                                                           *)

(* A step is one of the compiler, of the loader or of the processor. *)
LEMMA StepsOfMachine ==
  MachineNext <=> (CompilerNext /\ UNCHANGED machineVars) \/ Begin \/ ProcessorSteps
  BY DEF MachineNext, ProcessorSteps, BodySteps, OtherSteps

(* The compiled program does not write to the compiler. *)
LEMMA ProcessorLeaves ==
  ASSUME ProcessorSteps
  PROVE  UNCHANGED compilerVars
<1>1. DivideError \/ Jump \/ OtherSteps => UNCHANGED compilerVars
  BY DEF DivideError, Jump, OtherSteps, PopFrame, MoveFrame, CallAllocHeap, AllocHeapExits,
         Calling, Clobber, Exit
<1>2. QED
  BY <1>1, BodyAdvances DEF ProcessorSteps

(* The first half of the run of both processes is a run of the compiler. *)
LEMMA MachineCompiles ==
  MachineSpec => CompilerSpec
<1>1. MachineInit => CompilerInit
  BY DEF MachineInit
<1>2. [MachineNext \/ (Finished /\ UNCHANGED vars)]_vars => [CompilerNext \/ Stopped]_compilerVars
  BY StepsOfMachine, ProcessorLeaves DEF Begin, vars
<1>3. QED
  BY <1>1, <1>2, PTL DEF MachineSpec, CompilerSpec

(* What holds of the compiler, whatever the program. *)
CompilerHolds ==
  /\ CompilerTypeOK /\ LabelInv /\ PassesInv /\ BoundWhereUsed
  /\ InTextOrder(prog) /\ SlotsInFrame /\ JumpsResolve

(* It does, of the file that is run too. *)
LEMMA CompilerHoldsCorrect ==
  MachineSpec => []CompilerHolds
<1>1. /\ CompilerTypeOK /\ LabelInv /\ PassesInv /\ BoundWhereUsed
      /\ InTextOrder(prog) /\ SlotsInFrame /\ JumpsResolve
      => CompilerHolds
  BY DEF CompilerHolds
<1>2. QED
  BY <1>1, MachineCompiles, CompilerTypeCorrect, LabelInvCorrect, PassesInvCorrect,
     BoundWhereUsedCorrect, ProgramOrdered, SlotsInFrameCorrect, JumpsResolveCorrect, PTL

(* The program does not change. *)
LEMMA ProgramStays ==
  ASSUME CompilerTypeOK, [MachineNext \/ (Finished /\ UNCHANGED vars)]_vars
  PROVE  prog' = prog
<1>1. CompilerNext => prog' = prog
  <2>1. CASE CheckerNext
    BY <2>1, CheckerHead
  <2>2. CASE BeginMain
    BY <2>2 DEF BeginMain
  <2>3. CASE EmitterSteps
    BY <2>3, EmitterFrame
  <2>4. QED
    BY <2>1, <2>2, <2>3 DEF CompilerNext, EmitterSteps, PlainSteps
<1>2. Begin \/ ProcessorSteps \/ UNCHANGED vars => UNCHANGED compilerVars
  BY ProcessorLeaves DEF Begin, vars
<1>3. UNCHANGED compilerVars => prog' = prog
  BY CompilerRests
<1>4. QED
  BY <1>1, <1>2, <1>3, StepsOfMachine

(* The typing of what is written, of what is to be written and of what      *)
(* runs.                                                                   *)
TypingInv ==
  Unnested(prog) /\ NoPointers /\ TypedTodo /\ Shape /\ TypedRun /\ PrintedAsTyped

(* Every step of the machine keeps the typing. *)
LEMMA TypingStep ==
  ASSUME CompilerHolds, CompilerHolds', TypingInv,
         [MachineNext \/ (Finished /\ UNCHANGED vars)]_vars
  PROVE  TypingInv'
<1>1. Unnested(prog)'
  <2>1. PICK p : p = prog
    OBVIOUS
  <2>2. Unnested(p) /\ prog' = p
    BY <2>1, ProgramStays DEF CompilerHolds, TypingInv
  <2>3. Unnested(p)'
    BY <2>2 DEF Unnested
  <2>4. QED
    BY <2>2, <2>3
<1>2. RunFacts /\ CompilerFacts
  BY DEF RunFacts, CompilerFacts, CompilerHolds, TypingInv
<1>3. CASE CompilerNext /\ UNCHANGED machineVars
  <2>1. CompilerTypeOK'
    BY DEF CompilerHolds
  <2>2. Shape' /\ TypedRun' /\ PrintedAsTyped'
    BY <1>2, <1>3, <2>1, CompileStep
  <2>3. TypedTodo'
    BY <1>2, <1>3, TypedTodoStep
  <2>4. NoPointers'
    BY <1>2, <1>3, NoPointersStep DEF CompilerFacts, PassesInv
  <2>5. QED
    BY <1>1, <2>2, <2>3, <2>4 DEF TypingInv
<1>4. CASE UNCHANGED compilerVars
  <2>1. NoPointers' /\ TypedTodo'
    BY <1>4, NoPointersStutter, TypedTodoStutter DEF TypingInv
  <2>2. CASE Begin
    BY <1>1, <1>2, <2>1, <2>2, BeginStep DEF TypingInv
  <2>3. CASE ProcessorSteps
    BY <1>1, <1>2, <2>1, <2>3, ProcessorStep DEF TypingInv
  <2>4. CASE UNCHANGED vars
    BY <1>1, <2>1, <2>4, MachineStutter DEF TypingInv
  <2>5. QED
    BY <1>3, <2>2, <2>3, <2>4, StepsOfMachine
<1>5. QED
  BY <1>3, <1>4, StepsOfMachine, ProcessorLeaves DEF Begin, vars

(* The typing is invariant. *)
LEMMA TypingInvCorrect ==
  MachineSpec /\ Unnested(prog) => []TypingInv
<1>1. MachineInit /\ Unnested(prog) => TypingInv
  BY MachineStart DEF TypingInv
<1>2. CompilerHolds /\ CompilerHolds' /\ TypingInv
        /\ [MachineNext \/ (Finished /\ UNCHANGED vars)]_vars => TypingInv'
  BY TypingStep
<1>3. QED
  BY <1>1, <1>2, CompilerHoldsCorrect, PTL DEF MachineSpec

(* Compiling is what the machine does first: what is proved of the compiler *)
(* holds of the file that is run.                                          *)
THEOREM MachineCompilesFirst ==
  MachineSpec => CompilerSpec
  BY MachineCompiles

(* No expression leaves a word behind or takes one too many: at every print *)
(* the stack holds the arguments of the calls so far and nothing else.     *)
THEOREM StackBalancedCorrect ==
  MachineSpec /\ Unnested(prog) => []StackBalanced
<1>1. CompilerHolds /\ TypingInv => StackBalanced
  BY BalancedWhenPrinting DEF CompilerHolds, TypingInv, RunFacts
<1>2. QED
  BY <1>1, CompilerHoldsCorrect, TypingInvCorrect, PTL

(* Every value is printed by the function for the type of its word. *)
THEOREM PrintedAsTypedCorrect ==
  MachineSpec /\ Unnested(prog) => []PrintedAsTyped
<1>1. TypingInv => PrintedAsTyped
  BY DEF TypingInv
<1>2. QED
  BY <1>1, TypingInvCorrect, PTL

(* A variable changes only by an assignment to it. *)
THEOREM FrameIntactCorrect ==
  MachineSpec /\ Unnested(prog) => FrameIntact
<1>1. CompilerHolds /\ TypingInv /\ [MachineNext \/ (Finished /\ UNCHANGED vars)]_vars
        => [Intact]_vars
  <2>1. SUFFICES ASSUME CompilerHolds, TypingInv, MachineNext
                 PROVE  Intact \/ UNCHANGED vars
    BY DEF Finished
  <2>2. RunFacts
    BY <2>1 DEF RunFacts, CompilerHolds, TypingInv
  <2>3. CASE ProcessorSteps
    BY <2>2, <2>3, FrameKept
  <2>4. CASE UNCHANGED mem
    BY <2>4 DEF Intact
  <2>5. QED
    BY <2>1, <2>3, <2>4, StepsOfMachine DEF machineVars, Begin
<1>2. [][Intact]_vars => FrameIntact
  BY DEF FrameIntact, Intact
<1>3. QED
  BY <1>1, <1>2, CompilerHoldsCorrect, TypingInvCorrect, PTL DEF MachineSpec
=============================================================================

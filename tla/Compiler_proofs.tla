--------------------------- MODULE Compiler_proofs ---------------------------
(***************************************************************************)
(* Proofs about the passes of the compiler.                                *)
(*                                                                         *)
(* First what the code generator writes: instructions of x86ASM.h, whose   *)
(* jumps and labels fit together (LabelInv).  Then why the two passes      *)
(* agree: they bind names at the same places and take no more slots than   *)
(* the frame has, and compile ends as Compilation says (PassesInv).        *)
(***************************************************************************)
EXTENDS Walk, Induction, SequenceTheorems

-----------------------------------------------------------------------------
(* The instructions and the blocks of Emission.                            *)

Control == JumpOps \cup {"SUB_LABEL"}

(* The instructions that neither jump nor are a label. *)
PlainInsts == {inst \in Instructions : inst.op \notin Control}

(* Every operand constructor gives an operand of x86ASM.h. *)
LEMMA OperandType ==
  /\ \A n \in Int : Imm(n) \in InstOperands
  /\ \A n \in Int : Float(n) \in InstOperands
  /\ \A n \in Int : SubLabel(n) \in InstOperands
  /\ \A r \in Registers : Reg(r) \in InstOperands
  /\ \A s \in Symbols : Sym(s) \in InstOperands
  /\ \A r \in Registers, n \in Int : Deref(r, n) \in InstOperands
  /\ NoOperand \in InstOperands
  BY DEF InstOperands, Imm, Float, SubLabel, Reg, Sym, Deref, NoOperand, Operand, Registers, Symbols

(* The names of the registers stand for operands. *)
LEMMA RegisterType ==
  /\ EAX \in InstOperands /\ ECX \in InstOperands /\ EDX \in InstOperands /\ EBX \in InstOperands
  /\ AL \in InstOperands /\ CL \in InstOperands /\ ESP \in InstOperands /\ EBP \in InstOperands
  /\ XMM0 \in InstOperands /\ XMM1 \in InstOperands /\ ST0 \in InstOperands /\ ST1 \in InstOperands
  BY OperandType DEF EAX, ECX, EDX, EBX, AL, CL, ESP, EBP, XMM0, XMM1, ST0, ST1, Registers

(* An instruction that is neither a jump nor a sub label is a plain one. *)
LEMMA PlainType ==
  ASSUME NEW op \in InstTypes \ Control, NEW a \in InstOperands, NEW b \in InstOperands
  PROVE  /\ Inst2(op, a, b) \in PlainInsts
         /\ Inst1(op, a) \in PlainInsts
  BY OperandType DEF Inst2, Inst1, Instructions, PlainInsts

(* zero_cmp writes plain instructions for every value type. *)
LEMMA ZeroCmpPlain ==
  ASSUME NEW t
  PROVE  ZeroCmp(t) \in Seq(PlainInsts)
<1>1. /\ Inst1("POP", ECX) \in PlainInsts
      /\ Inst2("TEST", ECX, ECX) \in PlainInsts
      /\ Inst2("PXOR", XMM0, XMM0) \in PlainInsts
      /\ Inst2("ADD", ESP, Imm(4)) \in PlainInsts
      /\ Inst2("UCOMISS", XMM0, Deref("ESP", -4)) \in PlainInsts
  BY OperandType, RegisterType, PlainType DEF Control, JumpOps, InstTypes, Registers
<1>2. QED
  BY <1>1 DEF ZeroCmp, ZeroCmpInt, ZeroCmpFloat

(* print_value writes plain instructions for every value type. *)
LEMMA PrintValuePlain ==
  ASSUME NEW t
  PROVE  PrintValue(t) \in Seq(PlainInsts)
<1>1. /\ Inst1("PUSH", Sym("int_format")) \in PlainInsts
      /\ Inst1("PUSH", Sym("hex_format")) \in PlainInsts
      /\ Inst1("CALL", Sym("printf")) \in PlainInsts
      /\ Inst1("CALL", Sym("print_float")) \in PlainInsts
  BY OperandType, PlainType DEF Control, JumpOps, InstTypes, Symbols
<1>2. QED
  BY <1>1 DEF PrintValue

(* eval_num writes plain instructions for every literal. *)
LEMMA EvalNumPlain ==
  ASSUME NEW nd, nd.num \in Int
  PROVE  EvalNum(nd) \in Seq(PlainInsts)
<1>1. /\ Inst1("PUSH", Imm(nd.num)) \in PlainInsts
      /\ Inst1("PUSH", Float(nd.num)) \in PlainInsts
  BY OperandType, PlainType DEF Control, JumpOps, InstTypes
<1>2. QED
  BY <1>1 DEF EvalNum

(* The scalar instruction of an arithmetic operator is one of four. *)
LEMMA ScalarSingleType ==
  ASSUME NEW op \in ArithOps
  PROVE  ScalarSingle[op] \in {"ADDSS", "SUBSS", "MULSS", "DIVSS"}
  BY DEF ScalarSingle, ArithOps

(* float_float_binop writes plain instructions. *)
LEMMA FloatFloatBinopPlain ==
  ASSUME NEW op \in ArithOps
  PROVE  FloatFloatBinop(op) \in Seq(PlainInsts)
<1>1. ScalarSingle[op] \in InstTypes \ Control
  BY ScalarSingleType DEF InstTypes, Control, JumpOps
<1>2. /\ Inst2(ScalarSingle[op], XMM0, XMM1) \in PlainInsts
      /\ Inst2("MOVSS", Deref("ESP", -4), XMM0) \in PlainInsts
      /\ Inst2("SUB", ESP, Imm(4)) \in PlainInsts
  BY <1>1, OperandType, RegisterType, PlainType DEF Control, JumpOps, InstTypes, Registers
<1>3. QED
  BY <1>2 DEF FloatFloatBinop

(* The end of an arithmetic operator is plain for every pair of types. *)
LEMMA ArithEndPlain ==
  ASSUME NEW op \in ArithOps, NEW ltype, NEW rtype
  PROVE  ArithEnd(op, ltype, rtype) \in Seq(PlainInsts)
<1>1. IntIntBinop(op) \in Seq(PlainInsts)
  <2>1. /\ op \in {"ADD", "SUB"} => Inst2(op, EAX, ECX) \in PlainInsts
        /\ Inst1("MUL", ECX) \in PlainInsts
        /\ Inst2("MOV", EDX, Imm(0)) \in PlainInsts
        /\ Inst1("DIV", ECX) \in PlainInsts
    BY OperandType, RegisterType, PlainType DEF Control, JumpOps, InstTypes, ArithOps
  <2>2. QED
    BY <2>1 DEF IntIntBinop, ArithOps
<1>2. <<Inst1("POP", ECX), Inst1("POP", EAX)>> \in Seq(PlainInsts)
  BY OperandType, RegisterType, PlainType DEF Control, JumpOps, InstTypes
<1>3. <<Inst1("PUSH", EAX)>> \in Seq(PlainInsts)
  BY OperandType, RegisterType, PlainType DEF Control, JumpOps, InstTypes
<1>4. <<LoadFloat(ltype, XMM0, 4), LoadFloat(rtype, XMM1, 0), Inst2("ADD", ESP, Imm(8))>>
        \in Seq(PlainInsts)
  <2>1. /\ LoadFloat(ltype, XMM0, 4) \in PlainInsts
        /\ LoadFloat(rtype, XMM1, 0) \in PlainInsts
        /\ Inst2("ADD", ESP, Imm(8)) \in PlainInsts
    BY OperandType, RegisterType, PlainType
    DEF LoadFloat, Control, JumpOps, InstTypes, Registers
  <2>2. QED
    BY <2>1
<1>5. QED
  BY <1>1, <1>2, <1>3, <1>4, FloatFloatBinopPlain, ConcatProperties DEF ArithEnd

(* Pushing the byte that SETcc wrote takes plain instructions. *)
LEMMA PushFlagPlain ==
  PushFlag \in Seq(PlainInsts)
<1>1. /\ Inst2("MOVZX", EAX, AL) \in PlainInsts
      /\ Inst2("ADD", ESP, Imm(8)) \in PlainInsts
      /\ Inst1("PUSH", EAX) \in PlainInsts
  BY OperandType, RegisterType, PlainType DEF Control, JumpOps, InstTypes
<1>2. QED
  BY <1>1 DEF PushFlag

(* float_float_cmp writes plain instructions. *)
LEMMA FloatFloatCMPPlain ==
  ASSUME NEW op \in CmpOps
  PROVE  FloatFloatCMP(op) \in Seq(PlainInsts)
<1>1. SetFloat[op] \in InstTypes \ Control
  BY DEF SetFloat, CmpOps, InstTypes, Control, JumpOps
<1>2. LoadedFirst(op) \in Int /\ 4 - LoadedFirst(op) \in Int
  BY DEF LoadedFirst
<1>3. /\ Inst1("FLD", Deref("ESP", LoadedFirst(op))) \in PlainInsts
      /\ Inst1("FLD", Deref("ESP", 4 - LoadedFirst(op))) \in PlainInsts
      /\ Inst2("FCOMIP", ST0, ST1) \in PlainInsts
      /\ Inst1(SetFloat[op], AL) \in PlainInsts
  BY <1>1, <1>2, OperandType, RegisterType, PlainType, SMTT(30) DEF Control, JumpOps,
    InstTypes, Registers
<1>4. QED
  BY <1>3, PushFlagPlain, ConcatProperties DEF FloatFloatCMP

(* The end of a comparison is plain for every pair of types. *)
LEMMA CmpEndPlain ==
  ASSUME NEW op \in CmpOps, NEW ltype, NEW rtype
  PROVE  CmpEnd(op, ltype, rtype) \in Seq(PlainInsts)
<1>1. IntIntCMP(op) \in Seq(PlainInsts)
  <2>1. SetInt[op] \in InstTypes \ Control
    BY DEF SetInt, CmpOps, InstTypes, Control, JumpOps
  <2>2. /\ Inst2("MOV", EAX, Deref("ESP", 4)) \in PlainInsts
        /\ Inst2("CMP", EAX, Deref("ESP", 0)) \in PlainInsts
        /\ Inst1(SetInt[op], AL) \in PlainInsts
    BY <2>1, OperandType, RegisterType, PlainType DEF Control, JumpOps, InstTypes, Registers
  <2>3. QED
    BY <2>2, PushFlagPlain, ConcatProperties DEF IntIntCMP
<1>2. ASSUME NEW n \in Int PROVE ConvertInPlace(n) \in Seq(PlainInsts)
  <2>1. /\ Inst2("CVTSI2SS", XMM0, Deref("ESP", n)) \in PlainInsts
        /\ Inst2("MOVSS", Deref("ESP", n), XMM0) \in PlainInsts
    BY OperandType, RegisterType, PlainType DEF Control, JumpOps, InstTypes, Registers
  <2>2. QED
    BY <2>1 DEF ConvertInPlace
<1>3. ASSUME NEW n \in Int
      PROVE  ConvertInPlace(n) \o FloatFloatCMP(op) \in Seq(PlainInsts)
  BY <1>2, FloatFloatCMPPlain, ConcatProperties
<1>4. QED
  BY <1>1, <1>3, FloatFloatCMPPlain DEF CmpEnd

(* eval_NOT_unryop ends with plain instructions. *)
LEMMA NotEndPlain ==
  ASSUME NEW t
  PROVE  NotEnd(t) \in Seq(PlainInsts)
<1>1. /\ Inst1("SETE", CL) \in PlainInsts
      /\ Inst2("MOVZX", ECX, CL) \in PlainInsts
      /\ Inst1("PUSH", ECX) \in PlainInsts
  BY OperandType, RegisterType, PlainType DEF Control, JumpOps, InstTypes
<1>2. QED
  BY <1>1, ZeroCmpPlain, ConcatProperties DEF NotEnd

(* eval_SUB_unryop ends with plain instructions. *)
LEMMA SubEndPlain ==
  ASSUME NEW t
  PROVE  SubEnd(t) \in Seq(PlainInsts)
<1>1. SignBit \in Int
  BY DEF SignBit
<1>2. /\ Inst1("POP", ECX) \in PlainInsts
      /\ Inst1("NEG", ECX) \in PlainInsts
      /\ Inst1("PUSH", ECX) \in PlainInsts
      /\ Inst2("MOVSS", XMM0, Deref("ESP", 0)) \in PlainInsts
      /\ Inst2("MOV", EAX, Imm(SignBit)) \in PlainInsts
      /\ Inst2("MOVD", XMM1, EAX) \in PlainInsts
      /\ Inst2("PXOR", XMM0, XMM1) \in PlainInsts
      /\ Inst2("MOVSS", Deref("ESP", 0), XMM0) \in PlainInsts
  BY <1>1, OperandType, RegisterType, PlainType DEF Control, JumpOps, InstTypes, Registers
<1>3. QED
  BY <1>2 DEF SubEnd

(* eval_assing ends with plain instructions for every offset. *)
LEMMA AssignEndPlain ==
  ASSUME NEW offset \in Int
  PROVE  AssignEnd(offset) \in Seq(PlainInsts)
<1>1. /\ Inst2("MOV", EAX, Deref("ESP", 0)) \in PlainInsts
      /\ Inst2("MOV", Deref("EBP", -offset), EAX) \in PlainInsts
  BY OperandType, RegisterType, PlainType DEF Control, JumpOps, InstTypes, Registers
<1>2. QED
  BY <1>1 DEF AssignEnd

(* The prologue of main is plain for every size of the frame. *)
LEMMA ProloguePlain ==
  ASSUME NEW alloc \in Int
  PROVE  Prologue(alloc) \in Seq(PlainInsts)
<1>1. /\ Inst2("AND", ESP, Imm(-8)) \in PlainInsts
      /\ Inst1("PUSH", EBP) \in PlainInsts
      /\ Inst2("MOV", EBP, ESP) \in PlainInsts
      /\ Inst2("SUB", ESP, Imm(alloc)) \in PlainInsts
      /\ Inst1("CALL", Sym("alloc_heap")) \in PlainInsts
      /\ Inst2("MOV", Sym("heap_ptr"), EAX) \in PlainInsts
  BY OperandType, RegisterType, PlainType DEF Control, JumpOps, InstTypes, Symbols
<1>2. QED
  BY <1>1 DEF Prologue

(* The epilogue of main is plain. *)
LEMMA EpiloguePlain ==
  Epilogue \in Seq(PlainInsts)
<1>1. /\ Inst2("MOV", ESP, EBP) \in PlainInsts
      /\ Inst1("POP", EBP) \in PlainInsts
      /\ Inst2("MOV", EAX, Imm(1)) \in PlainInsts
      /\ Inst2("MOV", EBX, Imm(1)) \in PlainInsts
      /\ Inst1("INT", Imm(128)) \in PlainInsts
  BY OperandType, RegisterType, PlainType DEF Control, JumpOps, InstTypes
<1>2. QED
  BY <1>1 DEF Epilogue

-----------------------------------------------------------------------------
(* Short-circuit code.                                                     *)

(* Block b has no label, and every jump in it has a target in T. *)
JumpsTo(b, T) ==
  /\ b \in Seq(Instructions)
  /\ \A i \in 1 .. Len(b) : /\ b[i].op # "SUB_LABEL"
                            /\ b[i].op \in JumpOps => b[i].a.n \in T

(* Block b defines each label of l .. u once, and jumps only forward and    *)
(* only to these labels.                                                    *)
LogicBlock(b, l, u) ==
  /\ b \in Seq(Instructions)
  /\ \A i \in 1 .. Len(b) : b[i].op \in Control => b[i].a.n \in l .. u
  /\ \A n \in l .. u : \E i \in 1 .. Len(b) : b[i].op = "SUB_LABEL" /\ b[i].a.n = n
  /\ \A i, j \in 1 .. Len(b) :
       b[i].op = "SUB_LABEL" /\ b[j].op = "SUB_LABEL" /\ b[i].a.n = b[j].a.n => i = j
  /\ \A i, j \in 1 .. Len(b) :
       b[i].op \in JumpOps /\ b[j].op = "SUB_LABEL" /\ b[i].a.n = b[j].a.n => i < j

(* A block of plain instructions is a block of instructions. *)
LEMMA PlainSubset ==
  Seq(PlainInsts) \subseteq Seq(Instructions)
  BY SeqMonotonic DEF PlainInsts

(* A jump or sub label is an instruction that carries its number. *)
LEMMA ControlType ==
  ASSUME NEW op \in Control, NEW n \in Int
  PROVE  /\ Inst1(op, SubLabel(n)) \in Instructions
         /\ Inst1(op, SubLabel(n)).op = op
         /\ Inst1(op, SubLabel(n)).a.n = n
  BY OperandType DEF Inst1, Inst2, Instructions, Control, JumpOps, InstTypes, SubLabel, Operand

(* A test of the operand and its jump aim at the given label only. *)
LEMMA TestJumpShape ==
  ASSUME NEW t, NEW jump \in JumpOps, NEW l \in Nat
  PROVE  JumpsTo(TestJump(t, jump, l), {l})
<1>. DEFINE z == ZeroCmp(t)
            j == Inst1(jump, SubLabel(l))
<1>1. z \in Seq(PlainInsts)
  BY ZeroCmpPlain
<1>2. /\ j \in Instructions /\ j.op = jump /\ j.a.n = l
      /\ jump # "SUB_LABEL"
  BY ControlType DEF Control, JumpOps
<1>3. CASE t \in {"INT", "FLOAT"}
  <2>1. TestJump(t, jump, l) = z \o <<j>>
    BY <1>3 DEF TestJump
  <2>2. z \in Seq(Instructions) /\ \A i \in 1 .. Len(z) : z[i].op \notin Control
    BY <1>1, PlainSubset, ElementOfSeq DEF PlainInsts
  <2>. HIDE DEF z, j
  <2>3. /\ <<j>> \in Seq(Instructions) /\ Len(<<j>>) = 1 /\ <<j>>[1] = j
    BY <1>2
  <2>4. \A i \in 1 .. Len(z \o <<j>>) :
          (z \o <<j>>)[i] = IF i <= Len(z) THEN z[i] ELSE j
    BY <2>2, <2>3, ConcatProperties, LenProperties
  <2>5. z \o <<j>> \in Seq(Instructions)
    BY <2>2, <2>3, ConcatProperties
  <2>6. Len(z \o <<j>>) = Len(z) + 1 /\ Len(z) \in Nat
    BY <2>2, <2>3, ConcatProperties, LenProperties
  <2>7. QED
    BY <1>2, <2>1, <2>2, <2>4, <2>5, <2>6 DEF JumpsTo, Control
<1>4. CASE t \notin {"INT", "FLOAT"}
  BY <1>4 DEF TestJump, JumpsTo
<1>5. QED
  BY <1>3, <1>4

(* What follows a left operand jumps to the current sub label only. *)
LEMMA LogicTestShape ==
  ASSUME NEW op, NEW t, NEW l \in Nat
  PROVE  JumpsTo(LogicTest(op, t, l), {l})
  BY TestJumpShape DEF LogicTest, JumpOps

(* Jumps into a block's own labels may be written in front of it. *)
LEMMA LogicBlockConcat ==
  ASSUME NEW p, NEW b, NEW l \in Nat, NEW u \in Nat,
         JumpsTo(p, l .. u), LogicBlock(b, l, u)
  PROVE  LogicBlock(p \o b, l, u)
<1>. DEFINE c == p \o b
            k == Len(p)
<1>1. /\ p \in Seq(Instructions) /\ b \in Seq(Instructions)
      /\ k \in Nat /\ Len(b) \in Nat
  BY LenProperties DEF JumpsTo, LogicBlock
<1>2. /\ c \in Seq(Instructions)
      /\ Len(c) = k + Len(b)
      /\ \A i \in 1 .. k : c[i] = p[i]
      /\ \A i \in 1 .. Len(b) : c[k + i] = b[i]
      /\ \A i \in 1 .. Len(c) : i > k => i - k \in 1 .. Len(b) /\ c[i] = b[i - k]
  BY <1>1, ConcatProperties
<1>3. \A i \in 1 .. k : /\ p[i].op # "SUB_LABEL"
                        /\ p[i].op \in Control => p[i].a.n \in l .. u
  BY DEF JumpsTo, Control
<1>. HIDE DEF c, k
<1>4. ASSUME NEW i \in 1 .. Len(c), c[i].op \in Control
      PROVE  c[i].a.n \in l .. u
  <2>1. CASE i <= k
    <3>1. i \in 1 .. k /\ c[i] = p[i]
      BY <1>1, <1>2, <2>1
    <3>2. QED
      BY <1>3, <1>4, <3>1
  <2>2. CASE i > k
    <3>1. i - k \in 1 .. Len(b) /\ c[i] = b[i - k]
      BY <1>2, <2>2
    <3>2. QED
      BY <1>4, <3>1 DEF LogicBlock
  <2>3. QED
    BY <1>1, <2>1, <2>2
<1>5. ASSUME NEW n \in l .. u
      PROVE  \E i \in 1 .. Len(c) : c[i].op = "SUB_LABEL" /\ c[i].a.n = n
  <2>1. PICK i \in 1 .. Len(b) : b[i].op = "SUB_LABEL" /\ b[i].a.n = n
    BY DEF LogicBlock
  <2>2. k + i \in 1 .. Len(c) /\ c[k + i] = b[i]
    BY <1>1, <1>2
  <2>3. QED
    BY <2>1, <2>2
<1>6. ASSUME NEW i \in 1 .. Len(c), c[i].op = "SUB_LABEL"
      PROVE  i > k /\ i - k \in 1 .. Len(b) /\ b[i - k] = c[i]
  <2>1. ~ (i \in 1 .. k)
    BY <1>2, <1>3, <1>6
  <2>2. QED
    BY <1>1, <1>2, <2>1
<1>7. ASSUME NEW i \in 1 .. Len(c), NEW j \in 1 .. Len(c),
             c[i].op = "SUB_LABEL", c[j].op = "SUB_LABEL", c[i].a.n = c[j].a.n
      PROVE  i = j
  <2>1. /\ i - k \in 1 .. Len(b) /\ b[i - k] = c[i]
        /\ j - k \in 1 .. Len(b) /\ b[j - k] = c[j]
    BY <1>6, <1>7
  <2>2. i - k = j - k
    BY <1>7, <2>1 DEF LogicBlock
  <2>3. QED
    BY <1>1, <2>2
<1>8. ASSUME NEW i \in 1 .. Len(c), NEW j \in 1 .. Len(c),
             c[i].op \in JumpOps, c[j].op = "SUB_LABEL", c[i].a.n = c[j].a.n
      PROVE  i < j
  <2>1. j > k /\ j - k \in 1 .. Len(b) /\ b[j - k] = c[j]
    BY <1>6, <1>8
  <2>2. CASE i <= k
    BY <1>1, <2>1, <2>2
  <2>3. CASE i > k
    <3>1. i - k \in 1 .. Len(b) /\ b[i - k] = c[i]
      BY <1>2, <2>3
    <3>2. i - k < j - k
      BY <1>8, <2>1, <3>1 DEF LogicBlock
    <3>3. QED
      BY <1>1, <3>2
  <2>4. QED
    BY <1>1, <2>2, <2>3
<1>9. QED
  BY <1>2, <1>4, <1>5, <1>7, <1>8 DEF LogicBlock, c

(* The end of eval_AND_binop and of eval_OR_binop is such a block. *)
LEMMA LogicEndShape ==
  ASSUME NEW op \in LogicOps, NEW t, NEW l \in Nat
  PROVE  LogicBlock(LogicEnd(op, t, l), l, l + LabelsOf(op) - 1)
<1>1. \A n \in {0, 1} : Inst2("MOV", EAX, Imm(n)) \in PlainInsts
  BY OperandType, RegisterType, PlainType DEF Control, JumpOps, InstTypes
<1>2. Inst1("PUSH", EAX) \in PlainInsts
  BY OperandType, RegisterType, PlainType DEF Control, JumpOps, InstTypes
<1>3. \A inst \in PlainInsts : inst \in Instructions /\ inst.op \notin Control
  BY DEF PlainInsts
<1>4. \A n \in Nat : /\ Inst1("JMP", SubLabel(n)) \in Instructions
                     /\ Inst1("JMP", SubLabel(n)).op = "JMP"
                     /\ Inst1("JMP", SubLabel(n)).a.n = n
                     /\ Define(n) \in Instructions
                     /\ Define(n).op = "SUB_LABEL"
                     /\ Define(n).a.n = n
  BY ControlType DEF Define, Control, JumpOps
<1>5. CASE op = "KW_AND"
  <2>. DEFINE b == <<Inst2("MOV", EAX, Imm(1)), Inst1("JMP", SubLabel(l + 1)),
                     Define(l),     Inst2("MOV", EAX, Imm(0)),
                     Define(l + 1), Inst1("PUSH", EAX)>>
  <2>1. /\ b \in Seq(Instructions) /\ Len(b) = 6
        /\ b[1].op \notin Control
        /\ b[2].op = "JMP"       /\ b[2].a.n = l + 1
        /\ b[3].op = "SUB_LABEL" /\ b[3].a.n = l
        /\ b[4].op \notin Control
        /\ b[5].op = "SUB_LABEL" /\ b[5].a.n = l + 1
        /\ b[6].op \notin Control
    BY <1>1, <1>2, <1>3, <1>4
  <2>. HIDE DEF b
  <2>2. \A i \in 1 .. Len(b) : i \in {1, 2, 3, 4, 5, 6}
    BY <2>1
  <2>3. LogicBlock(b, l, l + 1)
    BY <2>1, <2>2 DEF LogicBlock, Control, JumpOps
  <2>4. JumpsTo(TestJump(t, "JE", l), l .. l + 1)
    <3>1. JumpsTo(TestJump(t, "JE", l), {l})
      BY TestJumpShape DEF JumpOps
    <3>2. l \in l .. l + 1
      OBVIOUS
    <3>3. QED
      BY <3>1, <3>2 DEF JumpsTo
  <2>5. LogicBlock(TestJump(t, "JE", l) \o b, l, l + 1)
    BY <2>3, <2>4, LogicBlockConcat
  <2>6. QED
    BY <1>5, <2>5 DEF b, LogicEnd, AndEnd, LabelsOf
<1>6. CASE op = "KW_OR"
  <2>. DEFINE b == <<Define(l),     Inst2("MOV", EAX, Imm(1)), Inst1("JMP", SubLabel(l + 2)),
                     Define(l + 1), Inst2("MOV", EAX, Imm(0)),
                     Define(l + 2), Inst1("PUSH", EAX)>>
  <2>1. /\ b \in Seq(Instructions) /\ Len(b) = 7
        /\ b[1].op = "SUB_LABEL" /\ b[1].a.n = l
        /\ b[2].op \notin Control
        /\ b[3].op = "JMP"       /\ b[3].a.n = l + 2
        /\ b[4].op = "SUB_LABEL" /\ b[4].a.n = l + 1
        /\ b[5].op \notin Control
        /\ b[6].op = "SUB_LABEL" /\ b[6].a.n = l + 2
        /\ b[7].op \notin Control
    BY <1>1, <1>2, <1>3, <1>4
  <2>. HIDE DEF b
  <2>2. \A i \in 1 .. Len(b) : i \in {1, 2, 3, 4, 5, 6, 7}
    BY <2>1
  <2>3. LogicBlock(b, l, l + 2)
    <3>1. \A i \in 1 .. Len(b) : b[i].op \in Control => b[i].a.n \in l .. l + 2
      BY <2>1, <2>2
    <3>2. \A n \in l .. l + 2 : \E i \in 1 .. Len(b) : b[i].op = "SUB_LABEL" /\ b[i].a.n = n
      <4>1. \A n \in l .. l + 2 : n \in {l, l + 1, l + 2}
        OBVIOUS
      <4>2. 1 \in 1 .. Len(b) /\ 4 \in 1 .. Len(b) /\ 6 \in 1 .. Len(b)
        BY <2>1
      <4>3. QED
        BY <2>1, <4>1, <4>2
    <3>3. \A i \in 1 .. Len(b) : b[i].op = "SUB_LABEL" => i \in {1, 4, 6}
      BY <2>1, <2>2 DEF Control
    <3>4. \A i \in 1 .. Len(b) : b[i].op \in JumpOps => i = 3
      BY <2>1, <2>2 DEF Control, JumpOps
    <3>5. \A i, j \in 1 .. Len(b) :
            b[i].op = "SUB_LABEL" /\ b[j].op = "SUB_LABEL" /\ b[i].a.n = b[j].a.n => i = j
      BY <2>1, <3>3, SMTT(30)
    <3>6. \A i, j \in 1 .. Len(b) :
            b[i].op \in JumpOps /\ b[j].op = "SUB_LABEL" /\ b[i].a.n = b[j].a.n => i < j
      BY <2>1, <3>3, <3>4
    <3>7. QED
      BY <2>1, <3>1, <3>2, <3>5, <3>6 DEF LogicBlock
  <2>4. JumpsTo(TestJump(t, "JE", l + 1), l .. l + 2)
    <3>1. JumpsTo(TestJump(t, "JE", l + 1), {l + 1})
      BY TestJumpShape DEF JumpOps
    <3>2. l + 1 \in l .. l + 2
      OBVIOUS
    <3>3. QED
      BY <3>1, <3>2 DEF JumpsTo
  <2>5. LogicBlock(TestJump(t, "JE", l + 1) \o b, l, l + 2)
    BY <2>3, <2>4, LogicBlockConcat
  <2>6. QED
    BY <1>6, <2>5 DEF b, LogicEnd, OrEnd, LabelsOf
<1>7. QED
  BY <1>5, <1>6 DEF LogicOps

-----------------------------------------------------------------------------
(* Appending a block to consistent code.                                   *)

(* The instructions of two joined blocks, by their place. *)
LEMMA ConcatParts ==
  ASSUME NEW c \in Seq(Instructions), NEW b \in Seq(Instructions)
  PROVE  /\ c \o b \in Seq(Instructions)
         /\ Len(c) \in Nat /\ Len(b) \in Nat
         /\ Len(c \o b) = Len(c) + Len(b)
         /\ \A i \in 1 .. Len(c) : i \in 1 .. Len(c \o b) /\ (c \o b)[i] = c[i]
         /\ \A i \in 1 .. Len(b) : /\ Len(c) + i \in 1 .. Len(c \o b)
                                   /\ (c \o b)[Len(c) + i] = b[i]
         /\ \A i \in 1 .. Len(c \o b) :
              \/ i \in 1 .. Len(c) /\ (c \o b)[i] = c[i]
              \/ /\ i > Len(c)
                 /\ i - Len(c) \in 1 .. Len(b) /\ (c \o b)[i] = b[i - Len(c)]
<1>1. Len(c) \in Nat /\ Len(b) \in Nat
  BY LenProperties
<1>2. QED
  BY <1>1, ConcatProperties

(* A block without labels that jumps to the next label only. *)
LEMMA AppendJumps ==
  ASSUME NEW c \in Seq(Instructions), NEW l \in Nat, Consistent(c, l),
         NEW b, NEW T \in SUBSET {l}, JumpsTo(b, T)
  PROVE  /\ Consistent(c \o b, l)
         /\ Waiting(c \o b, l) => Waiting(c, l) \/ T # {}
<1>. DEFINE d == c \o b
<1>1. b \in Seq(Instructions)
  BY DEF JumpsTo
<1>2. /\ Len(c) \in Nat /\ Len(b) \in Nat
      /\ Len(d) = Len(c) + Len(b)
      /\ \A i \in 1 .. Len(c) : i \in 1 .. Len(d) /\ d[i] = c[i]
      /\ \A i \in 1 .. Len(d) :
           \/ i \in 1 .. Len(c) /\ d[i] = c[i]
           \/ /\ i > Len(c)
              /\ i - Len(c) \in 1 .. Len(b) /\ d[i] = b[i - Len(c)]
  BY <1>1, ConcatParts
<1>. HIDE DEF d
<1>3. Labels(d) = Labels(c)
  BY <1>2 DEF Labels, JumpsTo
<1>4. \A i \in Labels(c) : d[i] = c[i]
  BY <1>2 DEF Labels
<1>5. ASSUME NEW i \in Jumps(d)
      PROVE  \/ i \in Jumps(c) /\ d[i] = c[i]
             \/ i > Len(c) /\ d[i].a.n \in T
  BY <1>2 DEF Jumps, JumpsTo
<1>6. \A i \in Jumps(d) : d[i].a.n \in 0 .. l
  <2>1. \A t \in T : t \in 0 .. l
    OBVIOUS
  <2>2. QED
    BY <1>5, <2>1 DEF Consistent
<1>7. ASSUME NEW i \in Jumps(d), NEW j \in Labels(d), d[i].a.n = d[j].a.n
      PROVE  i < j
  <2>1. j \in Labels(c) /\ d[j] = c[j] /\ d[j].a.n \in 0 .. l - 1
    BY <1>3, <1>4 DEF Consistent
  <2>2. i \in Jumps(c) /\ d[i] = c[i]
    BY <1>5, <1>7, <2>1
  <2>3. QED
    BY <1>7, <2>1, <2>2 DEF Consistent
<1>8. Consistent(d, l)
  BY <1>3, <1>4, <1>6, <1>7 DEF Consistent
<1>9. Waiting(d, l) => Waiting(c, l) \/ T # {}
  BY <1>5 DEF Waiting
<1>10. QED
  BY <1>8, <1>9 DEF d

(* A plain block appended to consistent code leaves it consistent. *)
LEMMA AppendPlain ==
  ASSUME NEW c \in Seq(Instructions), NEW l \in Nat, Consistent(c, l),
         NEW b \in Seq(PlainInsts)
  PROVE  /\ c \o b \in Seq(Instructions)
         /\ Consistent(c \o b, l)
         /\ Waiting(c \o b, l) => Waiting(c, l)
<1>1. b \in Seq(Instructions) /\ \A i \in 1 .. Len(b) : b[i].op \notin Control
  BY PlainSubset, ElementOfSeq DEF PlainInsts
<1>2. JumpsTo(b, {})
  BY <1>1 DEF JumpsTo, Control
<1>3. QED
  BY <1>1, <1>2, AppendJumps, ConcatProperties

(* The end of a && or || defines the labels that are waited for. *)
LEMMA AppendLogic ==
  ASSUME NEW c \in Seq(Instructions), NEW l \in Nat, Consistent(c, l),
         NEW b, NEW k \in Nat \ {0}, LogicBlock(b, l, l + k - 1)
  PROVE  /\ c \o b \in Seq(Instructions)
         /\ Consistent(c \o b, l + k)
         /\ ~ Waiting(c \o b, l + k)
<1>. DEFINE d == c \o b
            m == Len(c)
<1>1. b \in Seq(Instructions)
  BY DEF LogicBlock
<1>2. /\ d \in Seq(Instructions)
      /\ m \in Nat /\ Len(b) \in Nat
      /\ Len(d) = m + Len(b)
      /\ \A i \in 1 .. m : i \in 1 .. Len(d) /\ d[i] = c[i]
      /\ \A i \in 1 .. Len(b) : m + i \in 1 .. Len(d) /\ d[m + i] = b[i]
      /\ \A i \in 1 .. Len(d) :
           \/ i \in 1 .. m /\ d[i] = c[i]
           \/ i > m /\ i - m \in 1 .. Len(b) /\ d[i] = b[i - m]
  BY <1>1, ConcatParts
<1>3. /\ \A i \in Labels(c) \cup Jumps(c) : i \in 1 .. m
      /\ \A i \in Labels(d) \cup Jumps(d) : i \in Int
  BY <1>2 DEF Labels, Jumps
<1>. HIDE DEF d, m
<1>4. ASSUME NEW i \in Labels(d)
      PROVE  \/ i \in Labels(c) /\ d[i] = c[i] /\ d[i].a.n \in 0 .. l - 1
             \/ /\ i > m /\ i - m \in 1 .. Len(b) /\ d[i] = b[i - m]
                /\ b[i - m].op = "SUB_LABEL" /\ d[i].a.n \in l .. l + k - 1
  <2>1. i \in 1 .. Len(d) /\ d[i].op = "SUB_LABEL"
    BY DEF Labels
  <2>2. CASE i \in 1 .. m /\ d[i] = c[i]
    BY <2>1, <2>2 DEF Labels, Consistent, m
  <2>3. CASE i > m /\ i - m \in 1 .. Len(b) /\ d[i] = b[i - m]
    BY <2>1, <2>3 DEF LogicBlock, Control
  <2>4. QED
    BY <1>2, <2>1, <2>2, <2>3
<1>5. ASSUME NEW i \in Jumps(d)
      PROVE  \/ i \in Jumps(c) /\ d[i] = c[i] /\ d[i].a.n \in 0 .. l
             \/ /\ i > m /\ i - m \in 1 .. Len(b) /\ d[i] = b[i - m]
                /\ b[i - m].op \in JumpOps /\ d[i].a.n \in l .. l + k - 1
  <2>1. i \in 1 .. Len(d) /\ d[i].op \in JumpOps
    BY DEF Jumps
  <2>2. CASE i \in 1 .. m /\ d[i] = c[i]
    BY <2>1, <2>2 DEF Jumps, Consistent, m
  <2>3. CASE i > m /\ i - m \in 1 .. Len(b) /\ d[i] = b[i - m]
    BY <2>1, <2>3 DEF LogicBlock, Control
  <2>4. QED
    BY <1>2, <2>1, <2>2, <2>3
<1>6. \A i \in Labels(d) : d[i].a.n \in 0 .. l + k - 1
  BY <1>4
<1>7. ASSUME NEW n \in 0 .. l + k - 1
      PROVE  \E i \in Labels(d) : d[i].a.n = n
  <2>1. CASE n \in 0 .. l - 1
    <3>1. PICK i \in Labels(c) : c[i].a.n = n
      BY <2>1 DEF Consistent
    <3>2. i \in Labels(d) /\ d[i] = c[i]
      BY <1>2, <1>3 DEF Labels
    <3>3. QED
      BY <3>1, <3>2
  <2>2. CASE n \in l .. l + k - 1
    <3>1. PICK i \in 1 .. Len(b) : b[i].op = "SUB_LABEL" /\ b[i].a.n = n
      BY <2>2 DEF LogicBlock
    <3>2. m + i \in Labels(d) /\ d[m + i] = b[i]
      BY <1>2, <3>1 DEF Labels
    <3>3. QED
      BY <3>1, <3>2
  <2>3. QED
    BY <2>1, <2>2
<1>8. ASSUME NEW i \in Labels(d), NEW j \in Labels(d), d[i].a.n = d[j].a.n
      PROVE  i = j
  <2>1. CASE d[i].a.n \in 0 .. l - 1
    <3>1. i \in Labels(c) /\ j \in Labels(c) /\ c[i].a.n = c[j].a.n
      BY <1>4, <1>8, <2>1, SMTT(30)
    <3>2. QED
      BY <3>1 DEF Consistent
  <2>2. CASE d[i].a.n \in l .. l + k - 1
    <3>1. /\ i > m /\ i - m \in 1 .. Len(b) /\ d[i] = b[i - m] /\ b[i - m].op = "SUB_LABEL"
          /\ j > m /\ j - m \in 1 .. Len(b) /\ d[j] = b[j - m] /\ b[j - m].op = "SUB_LABEL"
      BY <1>4, <1>8, <2>2
    <3>2. i - m = j - m
      BY <1>8, <3>1 DEF LogicBlock
    <3>3. QED
      BY <1>2, <1>3, <3>2
  <2>3. QED
    BY <1>4, <2>1, <2>2
<1>9. \A i \in Jumps(d) : d[i].a.n \in 0 .. l + k - 1
  BY <1>5
<1>10. ASSUME NEW i \in Jumps(d), NEW j \in Labels(d), d[i].a.n = d[j].a.n
       PROVE  i < j
  <2>1. CASE i \in Jumps(c) /\ d[i] = c[i]
    <3>1. CASE j \in Labels(c) /\ d[j] = c[j]
      BY <1>10, <2>1, <3>1 DEF Consistent
    <3>2. CASE j > m
      <4>1. i \in 1 .. m
        BY <1>3, <2>1
      <4>2. QED
        BY <1>2, <1>3, <3>2, <4>1
    <3>3. QED
      BY <1>4, <3>1, <3>2
  <2>2. CASE /\ i > m /\ i - m \in 1 .. Len(b) /\ d[i] = b[i - m]
             /\ b[i - m].op \in JumpOps /\ d[i].a.n \in l .. l + k - 1
    <3>1. /\ j > m /\ j - m \in 1 .. Len(b) /\ d[j] = b[j - m]
          /\ b[j - m].op = "SUB_LABEL"
      BY <1>4, <1>10, <2>2
    <3>2. i - m < j - m
      BY <1>10, <2>2, <3>1 DEF LogicBlock
    <3>3. QED
      BY <1>2, <1>3, <3>2
  <2>3. QED
    BY <1>5, <2>1, <2>2
<1>11. Consistent(d, l + k)
  BY <1>6, <1>7, <1>8, <1>9, <1>10 DEF Consistent
<1>12. ~ Waiting(d, l + k)
  BY <1>9 DEF Waiting
<1>13. QED
  BY <1>2, <1>11, <1>12 DEF d

-----------------------------------------------------------------------------
(* The two passes.                                                         *)

Visits == [do : {"check", "return"}, node : Ids \cup {nullptr}]
Tasks  == [do : {"eval", "test", "finish", "print"}, node : Ids \cup {nullptr}]

(* Every node of a program is a well formed node record. *)
LEMMA NodeProperties ==
  ASSUME IsProgram(prog), NEW n \in Ids
  PROVE  Node(n) \in Nodes /\ WellFormed(prog.node, n)
  BY ElementOfSeq DEF IsProgram, Ids, Node

(* The literal of a node is an integer. *)
LEMMA LiteralType ==
  ASSUME NEW nd \in Nodes
  PROVE  nd.num \in Int
<1>. DEFINE L == Literals \cup {0}
<1>1. nd \in [type : NodeTypes, op : Tokens, left : Nat, right : Nat,
             name : Names \cup {""}, num : L]
  BY DEF Nodes
<1>2. L \subseteq Int
  BY LiteralsAssumption
<1>. HIDE DEF L
<1>3. QED
  BY <1>1, <1>2

(* The operands of a node are nodes. *)
LEMMA OperandProperties ==
  ASSUME IsProgram(prog), NEW n \in Ids
  PROVE  /\ Node(n).type = "BINOP"  => Node(n).left \in Ids /\ Node(n).right \in Ids
         /\ Node(n).type = "UNRYOP" => Node(n).right \in Ids
         /\ Node(n).type = "ASSIGN" => Node(n).right \in Ids
<1>1. Len(prog.node) \in Nat
  BY LenProperties DEF IsProgram
<1>2. QED
  BY <1>1, NodeProperties DEF WellFormed, Ids, Node

(* The head and the tail of a sequence that is not empty. *)
LEMMA HeadOfStack ==
  ASSUME NEW S, NEW s \in Seq(S), s # <<>>
  PROVE  /\ s[1] \in S
         /\ Tail(s) \in Seq(S)
         /\ Len(s) \in Nat
         /\ Len(Tail(s)) = Len(s) - 1
         /\ \A i \in 1 .. Len(Tail(s)) : i + 1 \in 1 .. Len(s) /\ Tail(s)[i] = s[i + 1]
         /\ 1 \in 1 .. Len(s)
  BY HeadTailProperties, EmptySeq, LenProperties, ElementOfSeq

(* The calls a visit of an inner node makes are visits of nodes. *)
LEMMA CallsType ==
  ASSUME IsProgram(prog), NEW n \in Ids,
         Node(n).type \in {"BINOP", "UNRYOP", "ASSIGN"}
  PROVE  Calls(n) \in Seq(Visits)
<1>. DEFINE ops == Operands(Node(n))
<1>1. ops \in Seq(Ids)
  <2>1. \A a, b \in Ids : <<a, b>> \in Seq(Ids) /\ <<a>> \in Seq(Ids)
    OBVIOUS
  <2>2. QED
    BY <2>1, OperandProperties DEF Operands
<1>2. \A i \in 1 .. Len(ops) : Visit("check", ops[i]) \in Visits
  BY <1>1, ElementOfSeq DEF Visit, Visits
<1>3. Len(ops) \in Nat
  BY <1>1, LenProperties
<1>. HIDE DEF ops
<1>4. [i \in 1 .. Len(ops) |-> Visit("check", ops[i])] \in Seq(Visits)
  BY <1>2, <1>3, IsASeq
<1>5. QED
  BY <1>4 DEF Calls, ops

(* get_bin_op_type returns a value type. *)
LEMMA BinOpTypeType ==
  ASSUME NEW nd
  PROVE  BinOpType(nd) \in ValueTypes
  BY DEF BinOpType, ArithType, ValueTypes

(* The type checker starts in a state of its type. *)
LEMMA CheckerTypeInit ==
  ASSUME CheckerInit
  PROVE  CheckerTypeOK /\ status = "checking"
<1>1. IsProgram(prog)
  BY ProgramsAssumption DEF CheckerInit
<1>2. visits \in Seq(Visits)
  <2>1. Len(prog.root) \in Nat
    BY <1>1, LenProperties DEF IsProgram
  <2>2. \A i \in 1 .. Len(prog.root) : Visit("check", prog.root[i]) \in Visits
    <3>1. \A i \in 1 .. Len(prog.root) : prog.root[i] \in 0 .. Len(prog.node)
      BY <1>1, ElementOfSeq DEF IsProgram
    <3>2. Len(prog.node) \in Nat
      BY <1>1, LenProperties DEF IsProgram
    <3>3. QED
      BY <3>1, <3>2 DEF Visit, Visits, Ids, nullptr
  <2>3. QED
    BY <2>1, <2>2, IsASeq DEF CheckerInit
<1>3. QED
  BY <1>1, <1>2 DEF CheckerInit, CheckerTypeOK, ValueTypes, Visits

(* A return of check_expr that gives a node its type keeps the types. *)
LEMMA ReturnTypeOK ==
  ASSUME CheckerTypeOK, NEW t \in ValueTypes, visits # <<>>, prog' = prog,
         visits[1].node # nullptr, ReturnType(t)
  PROVE  /\ value_type' \in [Ids -> ValueTypes]
         /\ visits' \in Seq(Visits)
<1>1. visits[1] \in Visits /\ Tail(visits) \in Seq(Visits)
  BY HeadOfStack DEF CheckerTypeOK, Visits
<1>2. QED
  BY <1>1 DEF ReturnType, CheckerTypeOK, Visits

(* Every step of the type checker keeps the types. *)
LEMMA CheckerTypeStep ==
  ASSUME CheckerTypeOK, CheckerNext
  PROVE  CheckerTypeOK'
<1>. USE DEF CheckerTypeOK
<1>1. /\ prog' = prog
      /\ IsProgram(prog)
      /\ Ids' = Ids
      /\ Visits' = Visits
  BY DEF CheckerNext, Descend, CheckNull, CheckNum, CheckAccess, ReturnBinop,
         ReturnUnryop, ReturnAssign, Ids, Visits
<1>2. /\ visits # <<>>
      /\ visits[1].node \in Ids \cup {nullptr}
      /\ Tail(visits) \in Seq(Visits)
  <2>1. visits # <<>>
    BY DEF CheckerNext, Descend, CheckNull, CheckNum, CheckAccess, ReturnBinop,
           ReturnUnryop, ReturnAssign, Visiting
  <2>2. visits \in Seq(Visits)
    BY DEF Visits
  <2>3. visits[1] \in Visits /\ Tail(visits) \in Seq(Visits)
    BY <2>1, <2>2, HeadOfStack
  <2>4. QED
    BY <2>1, <2>3 DEF Visits
<1>. DEFINE n == visits[1].node
<1>3. CASE Descend
  <2>1. n \in Ids /\ Node(n).type \in {"BINOP", "UNRYOP", "ASSIGN"}
    BY <1>2, <1>3 DEF Descend, Visiting
  <2>2. Calls(n) \in Seq(Visits)
    BY <1>1, <2>1, CallsType
  <2>3. <<Visit("return", n)>> \in Seq(Visits)
    BY <2>1 DEF Visit, Visits
  <2>4. Calls(n) \o <<Visit("return", n)>> \o Tail(visits) \in Seq(Visits)
    BY <1>2, <2>2, <2>3, ConcatProperties
  <2>5. QED
    BY <1>1, <1>3, <2>4 DEF Descend, Visits
<1>4. CASE CheckNull
  BY <1>1, <1>2, <1>4 DEF CheckNull, Visits
<1>5. CASE CheckNum
  <2>1. n \in Ids /\ Node(n).type = "NUM" /\ ReturnType(Node(n).op)
    BY <1>2, <1>5 DEF CheckNum, Visiting
  <2>2. Node(n).op \in ValueTypes
    BY <1>1, <2>1, NodeProperties DEF WellFormed, Node, NumberTokens, ValueTypes
  <2>3. value_type' \in [Ids -> ValueTypes] /\ visits' \in Seq(Visits)
    BY <1>1, <1>2, <1>5, <2>1, <2>2, ReturnTypeOK DEF CheckNum, Visiting
  <2>4. QED
    BY <1>1, <1>5, <2>3 DEF CheckNum, Visits
<1>6. CASE CheckAccess
  <2>1. n \in Ids /\ Node(n).type = "ACCESS" /\ n # nullptr
    BY <1>2, <1>6 DEF CheckAccess, Visiting
  <2>2. Node(n).name \in Names
    BY <1>1, <2>1, NodeProperties DEF WellFormed, Node
  <2>3. CASE Scope[Node(n).name] = "UNBOUND"
    BY <1>1, <1>6, <2>3 DEF CheckAccess, Visits
  <2>4. CASE Scope[Node(n).name] # "UNBOUND"
    <3>1. Scope[Node(n).name] \in ValueTypes /\ ReturnType(Scope[Node(n).name])
      BY <1>6, <2>2, <2>4 DEF CheckAccess
    <3>2. value_type' \in [Ids -> ValueTypes] /\ visits' \in Seq(Visits)
      BY <1>1, <1>2, <2>1, <3>1, ReturnTypeOK
    <3>3. QED
      BY <1>1, <1>6, <3>2 DEF CheckAccess, Visits
  <2>5. QED
    BY <2>3, <2>4
<1>7. CASE ReturnBinop
  <2>1. n # nullptr /\ ReturnType(BinOpType(Node(n)))
    BY <1>7 DEF ReturnBinop, Visiting
  <2>2. value_type' \in [Ids -> ValueTypes] /\ visits' \in Seq(Visits)
    BY <1>1, <1>2, <2>1, BinOpTypeType, ReturnTypeOK
  <2>3. QED
    BY <1>1, <1>7, <2>2 DEF ReturnBinop, Visits
<1>8. CASE ReturnUnryop
  <2>. DEFINE t == IF Node(n).op = "NOT" THEN "INT" ELSE value_type[Node(n).right]
  <2>1. n \in Ids /\ n # nullptr /\ Node(n).type = "UNRYOP" /\ ReturnType(t)
    BY <1>2, <1>8 DEF ReturnUnryop, Visiting
  <2>2. t \in ValueTypes
    BY <1>1, <2>1, OperandProperties DEF ValueTypes
  <2>. HIDE DEF t
  <2>3. value_type' \in [Ids -> ValueTypes] /\ visits' \in Seq(Visits)
    BY <1>1, <1>2, <2>1, <2>2, ReturnTypeOK
  <2>4. QED
    BY <1>1, <1>8, <2>3 DEF ReturnUnryop, Visits
<1>9. CASE ReturnAssign
  <2>. DEFINE t == value_type[Node(n).right]
  <2>1. n \in Ids /\ n # nullptr /\ Node(n).type = "ASSIGN" /\ ReturnType(t)
    BY <1>2, <1>9 DEF ReturnAssign, Visiting
  <2>2. t \in ValueTypes /\ Node(n).name \in Names
    BY <1>1, <2>1, OperandProperties, NodeProperties DEF WellFormed, Node
  <2>3. value_type' \in [Ids -> ValueTypes] /\ visits' \in Seq(Visits)
    BY <1>1, <1>2, <2>1, <2>2, ReturnTypeOK
  <2>4. Scope' \in [Names -> ValueTypes \cup {"UNBOUND"}]
    BY <1>9, <2>2 DEF ReturnAssign, Emplace
  <2>5. m_IntCount' \in Nat /\ m_FloatCount' \in Nat /\ m_PtrCount' \in Nat
    BY <1>9 DEF ReturnAssign
  <2>6. QED
    BY <1>1, <2>3, <2>4, <2>5 DEF Visits
<1>10. QED
  BY <1>3, <1>4, <1>5, <1>6, <1>7, <1>8, <1>9 DEF CheckerNext

-----------------------------------------------------------------------------
(* The emitter.                                                            *)

(* What every step of the walk keeps.                                      *)
EmitterTypeOK ==
  /\ code \in Seq(Instructions)
  /\ m_VarTable \in [Names -> [offset : Nat, type : ValueTypes]]
  /\ m_BPOffset \in Nat
  /\ m_CurrentSubLabel \in Nat
  /\ todo \in Seq(Tasks)

(* The type invariant, split by the pass that owns the variables. *)
LEMMA TypeParts ==
  CompilerTypeOK <=>
    /\ CheckerTypeOK
    /\ EmitterTypeOK
    /\ status \in {"checking", "emitting", "compiled", "out_of_range", "assert", "segfault"}
  BY DEF CompilerTypeOK, EmitterTypeOK, Tasks

(* The activations that eval_expr starts are activations of nodes. *)
LEMMA StepsType ==
  ASSUME IsProgram(prog), NEW n \in Ids,
         Node(n).type \in {"BINOP", "UNRYOP", "ASSIGN"}
  PROVE  /\ Steps(n) \in Seq(Tasks)
         /\ Steps(n) # <<>>
<1>1. \A do \in {"eval", "test", "finish"}, m \in Ids : Task(do, m) \in Tasks
  BY DEF Task, Tasks
<1>2. CASE Node(n).type = "BINOP"
  <2>1. /\ Task("eval", Node(n).left) \in Tasks
        /\ Task("eval", Node(n).right) \in Tasks
        /\ Task("test", n) \in Tasks
        /\ Task("finish", n) \in Tasks
    BY <1>1, <1>2, OperandProperties
  <2>2. QED
    BY <1>2, <2>1 DEF Steps
<1>3. CASE Node(n).type \in {"UNRYOP", "ASSIGN"}
  <2>1. /\ Task("eval", Node(n).right) \in Tasks
        /\ Task("finish", n) \in Tasks
    BY <1>1, <1>3, OperandProperties
  <2>2. QED
    BY <1>3, <2>1 DEF Steps
<1>4. QED
  BY <1>2, <1>3

(* The steps that write instructions without jumps and labels, or nothing. *)
PlainSteps ==
  \/ EvalOperands \/ EvalNumber \/ EvalAccess \/ EvalNull
  \/ FinishBinop \/ FinishNot \/ FinishSub \/ FinishAssign
  \/ PrintStatement \/ PrintNullStatement
  \/ EndMain

(* The innermost activation and those around it. *)
LEMMA HeadTask ==
  ASSUME CompilerTypeOK, todo # <<>>
  PROVE  /\ todo[1] \in Tasks
         /\ todo[1].node \in Ids \cup {nullptr}
         /\ Tail(todo) \in Seq(Tasks)
<1>1. todo \in Seq(Tasks)
  BY DEF CompilerTypeOK, Tasks
<1>2. todo[1] \in Tasks /\ Tail(todo) \in Seq(Tasks)
  BY <1>1, HeadOfStack
<1>3. QED
  BY <1>2 DEF Tasks

(* Writing nothing leaves the code alone. *)
LEMMA EmptyBlock ==
  ASSUME CompilerTypeOK
  PROVE  <<>> \in Seq(PlainInsts) /\ code \o <<>> = code
  BY ConcatEmptySeq, EmptySeq DEF CompilerTypeOK

(* A step other than one of && and || appends a plain block. *)
LEMMA PlainWrite ==
  ASSUME CompilerTypeOK, PlainSteps
  PROVE  \E b \in Seq(PlainInsts) : code' = code \o b
<1>. DEFINE n == todo[1].node
<1>1. CASE EvalOperands \/ EvalNull \/ PrintNullStatement
  BY <1>1, EmptyBlock DEF EvalOperands, EvalNull, PrintNullStatement, emitterVars
<1>2. CASE EvalNumber
  <2>1. n \in Ids
    BY <1>2, HeadTask DEF EvalNumber, OnNode, Emitting
  <2>2. Node(n) \in Nodes
    BY <2>1, NodeProperties DEF CompilerTypeOK, CheckerTypeOK
  <2>3. Node(n).num \in Int
    BY <2>2, LiteralType
  <2>4. QED
    BY <1>2, <2>3, EvalNumPlain DEF EvalNumber, Write
<1>3. CASE EvalAccess
  <2>1. n \in Ids /\ Node(n).type = "ACCESS"
    BY <1>3, HeadTask DEF EvalAccess, OnNode, Emitting
  <2>2. Node(n).name \in Names
    BY <2>1, NodeProperties DEF CompilerTypeOK, CheckerTypeOK, WellFormed, Node
  <2>3. m_VarTable[Node(n).name].offset \in Nat
    BY <2>2 DEF CompilerTypeOK
  <2>. DEFINE push == Inst1("PUSH", Deref("EBP", -m_VarTable[Node(n).name].offset))
  <2>4. push \in PlainInsts
    BY <2>3, OperandType, PlainType DEF Control, JumpOps, InstTypes, Registers
  <2>. HIDE DEF push
  <2>5. <<push>> \in Seq(PlainInsts)
    BY <2>4
  <2>6. QED
    BY <1>3, <2>5, EmptyBlock DEF EvalAccess, Write, push
<1>4. CASE FinishBinop
  <2>1. CASE FinishArith
    BY <2>1, ArithEndPlain DEF FinishArith, Write
  <2>2. CASE FinishCmp
    BY <2>2, CmpEndPlain DEF FinishCmp, Write
  <2>3. QED
    BY <1>4, <2>1, <2>2 DEF FinishBinop
<1>5. CASE FinishNot
  BY <1>5, NotEndPlain DEF FinishNot, Write
<1>6. CASE FinishSub
  BY <1>6, SubEndPlain DEF FinishSub, Write
<1>7. CASE FinishAssign
  <2>1. m_BPOffset \in Int
    BY DEF CompilerTypeOK
  <2>2. AssignEnd(m_BPOffset) \in Seq(PlainInsts)
    BY <2>1, AssignEndPlain
  <2>3. QED
    BY <1>7, <2>2 DEF FinishAssign, Write
<1>8. CASE PrintStatement
  BY <1>8, PrintValuePlain DEF PrintStatement, Write
<1>9. CASE EndMain
  BY <1>9, EpiloguePlain DEF EndMain, Write
<1>10. QED
  BY <1>1, <1>2, <1>3, <1>4, <1>5, <1>6, <1>7, <1>8, <1>9 DEF PlainSteps

(* What happens to the activations. *)
LEMMA TodoStep ==
  ASSUME CompilerTypeOK, PlainSteps \/ TestLeft \/ FinishLogic
  PROVE  /\ \/ todo # <<>> /\ todo' = Tail(todo)
            \/ EvalOperands /\ todo # <<>> /\ todo' = Steps(todo[1].node) \o Tail(todo)
            \/ todo' = todo
         /\ todo' \in Seq(Tasks)
<1>1. \/ todo # <<>> /\ todo' = Tail(todo)
      \/ EvalOperands /\ todo # <<>> /\ todo' = Steps(todo[1].node) \o Tail(todo)
      \/ todo' = todo
  BY DEF PlainSteps, EvalOperands, EvalNumber, EvalAccess, EvalNull, FinishBinop, FinishArith,
         FinishCmp, FinishNot,
         FinishSub, FinishAssign, PrintStatement, PrintNullStatement, EndMain, TestLeft,
         FinishLogic, OnNode, Emitting, emitterVars
<1>2. CASE todo # <<>> /\ todo' = Tail(todo)
  BY <1>1, <1>2, HeadTask
<1>3. CASE EvalOperands /\ todo # <<>> /\ todo' = Steps(todo[1].node) \o Tail(todo)
  <2>1. todo[1].node \in Ids /\ Node(todo[1].node).type \in {"BINOP", "UNRYOP", "ASSIGN"}
    BY <1>3, HeadTask DEF EvalOperands, OnNode
  <2>2. Steps(todo[1].node) \in Seq(Tasks)
    BY <2>1, StepsType DEF CompilerTypeOK, CheckerTypeOK
  <2>3. QED
    BY <1>1, <1>3, <2>2, HeadTask, ConcatProperties
<1>4. CASE todo' = todo
  BY <1>1, <1>4 DEF CompilerTypeOK, Tasks
<1>5. QED
  BY <1>1, <1>2, <1>3, <1>4

(* What the end of a && or || writes, and for which activation. *)
LEMMA LogicHead ==
  ASSUME CompilerTypeOK, FinishLogic
  PROVE  /\ todo # <<>>
         /\ FinishesLogic(todo[1])
         /\ Node(todo[1].node).op \in LogicOps
         /\ code' = code \o LogicEnd(Node(todo[1].node).op,
                                     value_type[Node(todo[1].node).right], m_CurrentSubLabel)
         /\ m_CurrentSubLabel' = m_CurrentSubLabel + LabelsOf(Node(todo[1].node).op)
  BY DEF FinishLogic, OnNode, Emitting, FinishesLogic, Write

(* What follows a left operand, and for which activation. *)
LEMMA TestHead ==
  ASSUME CompilerTypeOK, TestLeft
  PROVE  /\ todo # <<>>
         /\ todo[1].do = "test"
         /\ code' = code \o LogicTest(Node(todo[1].node).op,
                                      value_type[Node(todo[1].node).left], m_CurrentSubLabel)
         /\ m_CurrentSubLabel' = m_CurrentSubLabel
  BY DEF TestLeft, OnNode, Emitting, Write

(* A logic operator takes at least one label. *)
LEMMA LabelsOfType ==
  ASSUME NEW op
  PROVE  LabelsOf(op) \in Nat \ {0}
  BY DEF LabelsOf

(* The end of a logic operator is a sequence of instructions. *)
LEMMA LogicEndType ==
  ASSUME NEW op \in LogicOps, NEW t, NEW l \in Nat
  PROVE  LogicEnd(op, t, l) \in Seq(Instructions)
<1>. DEFINE b == LogicEnd(op, t, l)
<1>1. LogicBlock(b, l, l + LabelsOf(op) - 1)
  BY LogicEndShape
<1>. HIDE DEF b
<1>2. b \in Seq(Instructions)
  BY <1>1 DEF LogicBlock
<1>3. QED
  BY <1>2 DEF b

(* Every step of the walk leaves a sequence of instructions. *)
LEMMA CodeStep ==
  ASSUME CompilerTypeOK, PlainSteps \/ TestLeft \/ FinishLogic
  PROVE  code' \in Seq(Instructions)
<1>1. code \in Seq(Instructions) /\ m_CurrentSubLabel \in Nat
  BY DEF CompilerTypeOK
<1>2. CASE PlainSteps
  <2>1. PICK b \in Seq(PlainInsts) : code' = code \o b
    BY <1>2, PlainWrite
  <2>2. QED
    BY <1>1, <2>1, PlainSubset, ConcatProperties
<1>3. CASE TestLeft
  <2>. DEFINE b == LogicTest(Node(todo[1].node).op,
                             value_type[Node(todo[1].node).left], m_CurrentSubLabel)
  <2>1. b \in Seq(Instructions)
    BY <1>1, LogicTestShape DEF JumpsTo
  <2>2. code' = code \o b
    BY <1>3, TestHead
  <2>3. QED
    BY <1>1, <2>1, <2>2, ConcatProperties
<1>4. CASE FinishLogic
  <2>. DEFINE b == LogicEnd(Node(todo[1].node).op,
                            value_type[Node(todo[1].node).right], m_CurrentSubLabel)
  <2>1. b \in Seq(Instructions)
    BY <1>1, <1>4, LogicHead, LogicEndType
  <2>2. code' = code \o b
    BY <1>4, LogicHead
  <2>3. QED
    BY <1>1, <2>1, <2>2, ConcatProperties
<1>5. QED
  BY <1>2, <1>3, <1>4

(* The prologue is plain, and no operator is pending at the start. *)
LEMMA BeginMainType ==
  ASSUME CompilerTypeOK, BeginMain
  PROVE  /\ code' \in Seq(PlainInsts)
         /\ todo' \in Seq(Tasks)
         /\ \A k \in 1 .. Len(todo') : todo'[k].do \in {"eval", "print"}
<1>1. get_alloc_size \in Int
  BY DEF CompilerTypeOK, CheckerTypeOK, get_alloc_size
<1>2. code' \in Seq(PlainInsts)
  BY <1>1, ProloguePlain DEF BeginMain
<1>. DEFINE len == Len(prog.root)
            e(i) == Task(IF i % 2 = 1 THEN "eval" ELSE "print", prog.root[(i + 1) \div 2])
<1>3. len \in Nat /\ \A i \in 1 .. len : prog.root[i] \in Ids \cup {nullptr}
  <2>1. len \in Nat /\ Len(prog.node) \in Nat
    BY LenProperties DEF CompilerTypeOK, CheckerTypeOK, IsProgram
  <2>2. \A i \in 1 .. len : prog.root[i] \in 0 .. Len(prog.node)
    BY ElementOfSeq DEF CompilerTypeOK, CheckerTypeOK, IsProgram
  <2>3. QED
    BY <2>1, <2>2 DEF Ids, nullptr
<1>4. \A i \in 1 .. 2 * len : (i + 1) \div 2 \in 1 .. len
  BY <1>3
<1>5. \A i \in 1 .. 2 * len : e(i) \in Tasks /\ e(i).do \in {"eval", "print"}
  BY <1>3, <1>4 DEF Task, Tasks
<1>6. todo' = [i \in 1 .. 2 * len |-> e(i)]
  BY DEF BeginMain
<1>. HIDE DEF e
<1>7. 2 * len \in Nat
  BY <1>3
<1>8. todo' \in Seq(Tasks)
  BY <1>5, <1>6, <1>7, IsASeq
<1>9. DOMAIN todo' = 1 .. Len(todo')
  BY <1>8, LenProperties
<1>10. DOMAIN todo' = 1 .. 2 * len
  BY <1>6
<1>11. \A k \in 1 .. Len(todo') : todo'[k] = e(k) /\ k \in 1 .. 2 * len
  BY <1>6, <1>9, <1>10
<1>12. QED
  BY <1>2, <1>5, <1>8, <1>11

(* The compiler starts in a state of its type. *)
LEMMA CompilerTypeInit ==
  ASSUME CompilerInit
  PROVE  CompilerTypeOK
<1>1. CheckerTypeOK /\ status = "checking"
  BY CheckerTypeInit DEF CompilerInit
<1>2. QED
  BY <1>1 DEF CompilerInit, CompilerTypeOK, ValueTypes

(* Every step of the compiler keeps the types. *)
LEMMA CompilerTypeStep ==
  ASSUME CompilerTypeOK, CompilerNext
  PROVE  CompilerTypeOK'
<1>1. CASE CheckerNext /\ UNCHANGED emitterVars
  <2>1. CheckerTypeOK'
    BY <1>1, CheckerTypeStep DEF CompilerTypeOK
  <2>2. status' \in {status, "out_of_range"} /\ prog' = prog
    BY <1>1 DEF CheckerNext, Descend, CheckNull, CheckNum, CheckAccess, ReturnBinop,
                ReturnUnryop, ReturnAssign
  <2>3. QED
    BY <1>1, <2>1, <2>2 DEF CompilerTypeOK, emitterVars, Ids
<1>2. CASE BeginMain
  <2>1. code' \in Seq(Instructions) /\ todo' \in Seq(Tasks)
    BY <1>2, BeginMainType, PlainSubset
  <2>2. UNCHANGED <<prog, value_type, Scope, m_IntCount, m_FloatCount, m_PtrCount,
                    visits, m_VarTable, m_BPOffset, m_CurrentSubLabel>> /\ status' = "emitting"
    BY <1>2 DEF BeginMain
  <2>3. QED
    BY <2>1, <2>2 DEF CompilerTypeOK, CheckerTypeOK, Ids, Tasks
<1>3. CASE PlainSteps \/ TestLeft \/ FinishLogic
  <2>1. code' \in Seq(Instructions) /\ todo' \in Seq(Tasks)
    BY <1>3, CodeStep, TodoStep
  <2>2. UNCHANGED <<prog, value_type, Scope, m_IntCount, m_FloatCount, m_PtrCount, visits>>
    BY <1>3 DEF PlainSteps, EvalOperands, EvalNumber, EvalAccess, EvalNull, FinishBinop,
                FinishArith, FinishCmp,
         FinishNot, FinishSub, FinishAssign, PrintStatement, PrintNullStatement, EndMain,
         TestLeft, FinishLogic, checkerVars
  <2>3. status' \in {status, "assert", "segfault", "compiled"}
    BY <1>3 DEF PlainSteps, EvalOperands, EvalNumber, EvalAccess, EvalNull, FinishBinop,
                FinishArith, FinishCmp,
         FinishNot, FinishSub, FinishAssign, PrintStatement, PrintNullStatement, EndMain,
         TestLeft, FinishLogic, checkerVars
  <2>4. m_CurrentSubLabel' \in Nat
    <3>1. CASE FinishLogic
      BY <3>1, LogicHead, LabelsOfType DEF CompilerTypeOK
    <3>2. CASE PlainSteps \/ TestLeft
      BY <3>2 DEF PlainSteps, EvalOperands, EvalNumber, EvalAccess, EvalNull, FinishBinop,
                  FinishArith, FinishCmp,
         FinishNot, FinishSub, FinishAssign, PrintStatement, PrintNullStatement, EndMain,
         TestLeft, emitterVars, CompilerTypeOK
    <3>3. QED
      BY <1>3, <3>1, <3>2
  <2>5. /\ m_VarTable' \in [Names -> [offset : Nat, type : ValueTypes]]
        /\ m_BPOffset' \in Nat
    <3>1. CASE FinishAssign
      <4>1. todo[1].node \in Ids /\ Node(todo[1].node).type = "ASSIGN"
        BY <3>1, HeadTask DEF FinishAssign, OnNode, Emitting
      <4>2. Node(todo[1].node).name \in Names /\ value_type[todo[1].node] \in ValueTypes
        BY <4>1, NodeProperties DEF CompilerTypeOK, CheckerTypeOK, WellFormed, Node
      <4>3. [offset |-> m_BPOffset, type |-> value_type[todo[1].node]]
              \in [offset : Nat, type : ValueTypes]
        BY <4>2 DEF CompilerTypeOK
      <4>4. QED
        BY <3>1, <4>2, <4>3 DEF FinishAssign, Insert, CompilerTypeOK
    <3>2. CASE UNCHANGED <<m_VarTable, m_BPOffset>>
      BY <3>2 DEF CompilerTypeOK
    <3>3. QED
      BY <1>3, <3>1, <3>2 DEF PlainSteps, EvalOperands, EvalNumber, EvalAccess, EvalNull,
         FinishBinop, FinishArith, FinishCmp, FinishNot, FinishSub, PrintStatement, PrintNullStatement, EndMain,
         TestLeft, FinishLogic, emitterVars
  <2>6. QED
    BY <2>1, <2>2, <2>3, <2>4, <2>5 DEF CompilerTypeOK, CheckerTypeOK, Ids, Tasks
<1>4. QED
  BY <1>1, <1>2, <1>3 DEF CompilerNext, PlainSteps

(* The types hold as long as nothing changes. *)
LEMMA CompilerTypeStutter ==
  ASSUME CompilerTypeOK, UNCHANGED compilerVars
  PROVE  CompilerTypeOK'
  BY DEF CompilerTypeOK, CheckerTypeOK, compilerVars, checkerVars, emitterVars, Ids

(* The state of the compiler is well typed.  In particular the walk hands   *)
(* every operator a block of instructions of x86ASM.h, and every activation *)
(* a node of the tree. *)
THEOREM CompilerTypeCorrect ==
  CompilerSpec => []CompilerTypeOK
<1>1. CompilerInit => CompilerTypeOK
  BY CompilerTypeInit
<1>2. CompilerTypeOK /\ [CompilerNext \/ Stopped]_compilerVars => CompilerTypeOK'
  BY CompilerTypeStep, CompilerTypeStutter DEF Stopped
<1>3. QED
  BY <1>1, <1>2, PTL DEF CompilerSpec

-----------------------------------------------------------------------------
(* The sub labels.                                                         *)

(* There is no code and no label at the start. *)
LEMMA LabelInit ==
  ASSUME CompilerInit
  PROVE  LabelInv
<1>1. Len(code) = 0 /\ Len(todo) = 0 /\ m_CurrentSubLabel = 0
  BY DEF CompilerInit
<1>2. Consistent(code, 0) /\ ~ Waiting(code, 0)
  BY <1>1 DEF Consistent, Waiting, Labels, Jumps
<1>3. QED
  BY <1>1, <1>2 DEF LabelInv, CompilerInit, TestsPaired

(* A pending end of a && or || stays pending until it is written, and a     *)
(* pending test stays two activations above it. *)
LEMMA StepsPaired ==
  ASSUME IsProgram(prog), NEW n \in Ids, Node(n).type \in {"BINOP", "UNRYOP", "ASSIGN"},
         NEW k \in 1 .. Len(Steps(n)), Steps(n)[k].do = "test"
  PROVE  k + 2 \in 1 .. Len(Steps(n)) /\ FinishesLogic(Steps(n)[k + 2])
<1>1. CASE Node(n).type = "BINOP" /\ Node(n).op \in LogicOps
  <2>. DEFINE s == <<Task("eval", Node(n).left), Task("test", n),
                     Task("eval", Node(n).right), Task("finish", n)>>
  <2>1. Steps(n) = s
    BY <1>1 DEF Steps
  <2>2. k = 2
    BY <2>1 DEF Task
  <2>3. n # nullptr
    BY DEF Ids, nullptr
  <2>4. FinishesLogic(s[4])
    BY <1>1, <2>3 DEF FinishesLogic, Task
  <2>5. QED
    BY <2>1, <2>2, <2>4
<1>2. CASE Node(n).type = "BINOP" /\ Node(n).op \notin LogicOps
  BY <1>2 DEF Steps, Task
<1>3. CASE Node(n).type \in {"UNRYOP", "ASSIGN"}
  BY <1>3 DEF Steps, Task
<1>4. QED
  BY <1>1, <1>2, <1>3

(* No step but the end of a && or || pops its activation. *)
LEMMA TodoPopped ==
  ASSUME CompilerTypeOK, PlainSteps \/ TestLeft, todo' # todo
  PROVE  ~ FinishesLogic(todo[1])
  BY DEF PlainSteps, EvalOperands, EvalNumber, EvalAccess, EvalNull, FinishBinop, FinishArith,
         FinishCmp, FinishNot,
         FinishSub, FinishAssign, PrintStatement, PrintNullStatement, EndMain, TestLeft,
         OnNode, Emitting, emitterVars, FinishesLogic, ArithOps, CmpOps, LogicOps

(* Tests stay paired, and a pending && or || stays pending until it ends. *)
LEMMA PendingStep ==
  ASSUME CompilerTypeOK, TestsPaired, PlainSteps \/ TestLeft \/ FinishLogic
  PROVE  /\ TestsPaired'
         /\ \A k \in 1 .. Len(todo) :
              FinishesLogic(todo[k]) =>
                FinishLogic \/ (\E m \in 1 .. Len(todo) : FinishesLogic(todo[m]))'
<1>1. /\ prog' = prog
      /\ todo \in Seq(Tasks)
      /\ Len(todo) \in Nat
  BY LenProperties
  DEF CompilerTypeOK, Tasks, PlainSteps, EvalOperands, EvalNumber, EvalAccess, EvalNull,
      FinishBinop, FinishArith, FinishCmp, FinishNot, FinishSub, FinishAssign, PrintStatement,
      PrintNullStatement, EndMain, TestLeft, FinishLogic, checkerVars
<1>2. \/ todo # <<>> /\ todo' = Tail(todo)
      \/ EvalOperands /\ todo # <<>> /\ todo' = Steps(todo[1].node) \o Tail(todo)
      \/ todo' = todo
  BY TodoStep
<1>3. CASE todo' = todo
  BY <1>1, <1>3 DEF TestsPaired, FinishesLogic, Node
<1>4. CASE todo # <<>> /\ todo' = Tail(todo) /\ todo' # todo
  <2>1. /\ Len(todo') = Len(todo) - 1
        /\ \A i \in 1 .. Len(todo') : i + 1 \in 1 .. Len(todo) /\ todo'[i] = todo[i + 1]
    BY <1>1, <1>4, HeadOfStack
  <2>2. TestsPaired'
    <3>1. SUFFICES ASSUME NEW k \in 1 .. Len(todo'), todo'[k].do = "test"
                   PROVE  k + 2 \in 1 .. Len(todo') /\ FinishesLogic(todo[k + 2])'
      BY DEF TestsPaired
    <3>2. k + 3 \in 1 .. Len(todo) /\ FinishesLogic(todo[k + 3])
      BY <1>1, <2>1, <3>1 DEF TestsPaired
    <3>3. k + 2 \in 1 .. Len(todo') /\ todo'[k + 2] = todo[k + 3]
      BY <1>1, <2>1, <3>2
    <3>4. QED
      BY <1>1, <3>2, <3>3 DEF FinishesLogic, Node
  <2>3. ASSUME NEW k \in 1 .. Len(todo), FinishesLogic(todo[k]), ~ FinishLogic
        PROVE  (\E m \in 1 .. Len(todo) : FinishesLogic(todo[m]))'
    <3>1. k # 1
      BY <1>4, <2>3, TodoPopped
    <3>2. k - 1 \in 1 .. Len(todo') /\ todo'[k - 1] = todo[k]
      BY <1>1, <2>1, <3>1
    <3>3. FinishesLogic(todo[k - 1])'
      BY <1>1, <2>3, <3>2 DEF FinishesLogic, Node
    <3>4. QED
      BY <3>2, <3>3
  <2>4. QED
    BY <2>2, <2>3
<1>5. CASE EvalOperands /\ todo # <<>> /\ todo' = Steps(todo[1].node) \o Tail(todo)
  <2>. DEFINE n == todo[1].node
              s == Steps(n)
              t == Tail(todo)
  <2>1. n \in Ids /\ Node(n).type \in {"BINOP", "UNRYOP", "ASSIGN"} /\ IsProgram(prog)
    BY <1>5, HeadTask DEF EvalOperands, OnNode, CompilerTypeOK, CheckerTypeOK
  <2>2. s \in Seq(Tasks) /\ Len(s) \in Nat
    BY <2>1, StepsType, LenProperties
  <2>3. \A k \in 1 .. Len(s) :
          s[k].do = "test" => k + 2 \in 1 .. Len(s) /\ FinishesLogic(s[k + 2])
    BY <2>1, StepsPaired
  <2>4. /\ t \in Seq(Tasks) /\ Len(t) = Len(todo) - 1
        /\ \A i \in 1 .. Len(t) : i + 1 \in 1 .. Len(todo) /\ t[i] = todo[i + 1]
    BY <1>1, <1>5, HeadOfStack
  <2>. HIDE DEF s, t
  <2>5. /\ Len(todo') = Len(s) + Len(t)
        /\ \A i \in 1 .. Len(s) : todo'[i] = s[i]
        /\ \A i \in Len(s) + 1 .. Len(todo') :
             i - Len(s) + 1 \in 1 .. Len(todo) /\ todo'[i] = todo[i - Len(s) + 1]
        /\ \A i \in 2 .. Len(todo) :
             i + Len(s) - 1 \in 1 .. Len(todo') /\ todo'[i + Len(s) - 1] = todo[i]
    <3>1. todo' = s \o t
      BY <1>5 DEF s, t
    <3>2. /\ Len(todo') = Len(s) + Len(t)
          /\ \A i \in 1 .. Len(s) + Len(t) :
               todo'[i] = IF i <= Len(s) THEN s[i] ELSE t[i - Len(s)]
      BY <2>2, <2>4, <3>1, ConcatProperties
    <3>3. Len(t) \in Nat
      BY <2>4, LenProperties
    <3>4. \A i \in 1 .. Len(s) : i \in 1 .. Len(s) + Len(t) /\ todo'[i] = s[i]
      BY <2>2, <3>2, <3>3
    <3>5. ASSUME NEW i \in Len(s) + 1 .. Len(todo')
          PROVE  i - Len(s) + 1 \in 1 .. Len(todo) /\ todo'[i] = todo[i - Len(s) + 1]
      <4>1. i - Len(s) \in 1 .. Len(t) /\ todo'[i] = t[i - Len(s)]
        BY <2>2, <3>2, <3>3
      <4>2. QED
        BY <2>4, <4>1
    <3>6. ASSUME NEW i \in 2 .. Len(todo)
          PROVE  i + Len(s) - 1 \in 1 .. Len(todo') /\ todo'[i + Len(s) - 1] = todo[i]
      <4>. DEFINE m == i + Len(s) - 1
      <4>1. /\ m \in 1 .. Len(s) + Len(t) /\ m > Len(s) /\ m - Len(s) = i - 1
            /\ i - 1 \in 1 .. Len(t)
        BY <1>1, <2>2, <2>4, <3>3
      <4>2. todo'[m] = t[i - 1] /\ m \in 1 .. Len(todo')
        BY <2>2, <3>2, <4>1
      <4>3. t[i - 1] = todo[i]
        BY <2>4, <4>1
      <4>4. QED
        BY <4>2, <4>3
    <3>7. QED
      BY <3>2, <3>4, <3>5, <3>6
  <2>6. TestsPaired'
    <3>1. SUFFICES ASSUME NEW k \in 1 .. Len(todo'), todo'[k].do = "test"
                   PROVE  k + 2 \in 1 .. Len(todo') /\ FinishesLogic(todo[k + 2])'
      BY DEF TestsPaired
    <3>2. CASE k \in 1 .. Len(s)
      <4>1. k + 2 \in 1 .. Len(s) /\ FinishesLogic(s[k + 2])
        BY <2>3, <2>5, <3>1, <3>2
      <4>2. k + 2 \in 1 .. Len(todo') /\ todo'[k + 2] = s[k + 2]
        BY <2>4, <2>5, <4>1, <1>1, <2>2, LenProperties
      <4>3. QED
        BY <1>1, <4>1, <4>2 DEF FinishesLogic, Node
    <3>3. CASE k \in Len(s) + 1 .. Len(todo')
      <4>. DEFINE j == k - Len(s) + 1
      <4>1. j \in 1 .. Len(todo) /\ todo'[k] = todo[j]
        BY <2>5, <3>3
      <4>2. j + 2 \in 1 .. Len(todo) /\ FinishesLogic(todo[j + 2])
        BY <3>1, <4>1 DEF TestsPaired
      <4>3. j + 2 \in 2 .. Len(todo) /\ j + 2 + Len(s) - 1 = k + 2
        BY <1>1, <2>2, <4>1, <4>2
      <4>4. k + 2 \in 1 .. Len(todo') /\ todo'[k + 2] = todo[j + 2]
        BY <2>5, <4>3
      <4>5. QED
        BY <1>1, <4>2, <4>4 DEF FinishesLogic, Node
    <3>4. QED
      BY <2>2, <3>1, <3>2, <3>3
  <2>7. ASSUME NEW k \in 1 .. Len(todo), FinishesLogic(todo[k])
        PROVE  (\E m \in 1 .. Len(todo) : FinishesLogic(todo[m]))'
    <3>1. k # 1
      BY <1>5, <2>7 DEF EvalOperands, OnNode, Emitting, FinishesLogic
    <3>2. k \in 2 .. Len(todo)
      BY <1>1, <3>1
    <3>3. PICK m \in 1 .. Len(todo') : todo'[m] = todo[k]
      BY <2>5, <3>2
    <3>4. FinishesLogic(todo[m])'
      BY <1>1, <2>7, <3>3 DEF FinishesLogic, Node
    <3>5. QED
      BY <3>3, <3>4
  <2>8. QED
    BY <2>6, <2>7
<1>6. QED
  BY <1>2, <1>3, <1>4, <1>5

(* Every step of the compiler keeps the invariant of the labels. *)
LEMMA LabelStep ==
  ASSUME CompilerTypeOK, LabelInv, CompilerNext
  PROVE  LabelInv'
<1>1. code \in Seq(Instructions) /\ m_CurrentSubLabel \in Nat
  BY DEF CompilerTypeOK
<1>2. CASE CheckerNext /\ UNCHANGED emitterVars
  <2>1. prog' = prog /\ status = "checking" /\ status' \in {"checking", "out_of_range"}
    BY <1>2 DEF CheckerNext, Descend, CheckNull, CheckNum, CheckAccess, ReturnBinop,
                ReturnUnryop, ReturnAssign, Visiting
  <2>2. QED
    BY <1>2, <2>1 DEF LabelInv, TestsPaired, FinishesLogic, Node, emitterVars
<1>3. CASE BeginMain
  <2>1. code = <<>> /\ m_CurrentSubLabel = 0 /\ m_CurrentSubLabel' = 0
        /\ status' = "emitting"
    BY <1>3 DEF BeginMain, LabelInv
  <2>2. code' \in Seq(PlainInsts) /\ code \o code' = code'
    BY <1>3, <2>1, BeginMainType, ConcatEmptySeq
  <2>3. Consistent(code, 0) /\ ~ Waiting(code, 0)
    <3>1. Len(code) = 0
      BY <2>1, EmptySeq
    <3>2. QED
      BY <2>1, <3>1 DEF LabelInv, Waiting, Jumps
  <2>4. Consistent(code', 0) /\ ~ Waiting(code', 0)
    <3>1. /\ Consistent(code \o code', 0)
          /\ Waiting(code \o code', 0) => Waiting(code, 0)
      BY <1>1, <2>2, <2>3, AppendPlain
    <3>2. QED
      BY <2>2, <2>3, <3>1
  <2>5. TestsPaired'
    BY <1>3, BeginMainType DEF TestsPaired
  <2>6. QED
    BY <2>1, <2>4, <2>5 DEF LabelInv
<1>4. CASE PlainSteps \/ TestLeft \/ FinishLogic
  <2>1. /\ TestsPaired'
        /\ \A k \in 1 .. Len(todo) :
             FinishesLogic(todo[k]) =>
               FinishLogic \/ (\E m \in 1 .. Len(todo) : FinishesLogic(todo[m]))'
    BY <1>4, PendingStep DEF LabelInv
  <2>2. status' # "checking"
    BY <1>4 DEF PlainSteps, EvalOperands, EvalNumber, EvalAccess, EvalNull, FinishBinop,
                FinishArith, FinishCmp,
         FinishNot, FinishSub, FinishAssign, PrintStatement, PrintNullStatement, EndMain,
         TestLeft, FinishLogic, checkerVars, OnNode, Emitting
  <2>3. status' = "compiled" => todo' = <<>>
    BY <1>4 DEF PlainSteps, EvalOperands, EvalNumber, EvalAccess, EvalNull, FinishBinop,
                FinishArith, FinishCmp,
         FinishNot, FinishSub, FinishAssign, PrintStatement, PrintNullStatement, EndMain,
         TestLeft, FinishLogic, checkerVars, OnNode, Emitting
  <2>4. CASE PlainSteps
    <3>1. PICK b \in Seq(PlainInsts) : code' = code \o b
      BY <2>4, PlainWrite
    <3>2. m_CurrentSubLabel' = m_CurrentSubLabel
      BY <2>4 DEF PlainSteps, EvalOperands, EvalNumber, EvalAccess, EvalNull, FinishBinop,
                  FinishArith, FinishCmp,
         FinishNot, FinishSub, FinishAssign, PrintStatement, PrintNullStatement, EndMain,
         emitterVars
    <3>3. /\ Consistent(code', m_CurrentSubLabel')
          /\ Waiting(code', m_CurrentSubLabel') => Waiting(code, m_CurrentSubLabel)
      BY <1>1, <3>1, <3>2, AppendPlain DEF LabelInv
    <3>4. ~ FinishLogic
      BY <2>4 DEF PlainSteps, EvalOperands, EvalNumber, EvalAccess, EvalNull, FinishBinop,
                  FinishArith, FinishCmp,
         FinishNot, FinishSub, FinishAssign, PrintStatement, PrintNullStatement, EndMain,
         FinishLogic, OnNode, Emitting, ArithOps, CmpOps, LogicOps
    <3>5. QED
      BY <2>1, <2>2, <2>3, <3>3, <3>4 DEF LabelInv
  <2>5. CASE TestLeft
    <3>. DEFINE b == LogicTest(Node(todo[1].node).op,
                               value_type[Node(todo[1].node).left], m_CurrentSubLabel)
    <3>1. /\ todo # <<>> /\ todo[1].do = "test"
          /\ code' = code \o b
          /\ m_CurrentSubLabel' = m_CurrentSubLabel
      BY <2>5, TestHead
    <3>2. JumpsTo(b, {m_CurrentSubLabel})
      BY <1>1, LogicTestShape
    <3>3. Consistent(code', m_CurrentSubLabel')
      BY <1>1, <3>1, <3>2, AppendJumps DEF LabelInv
    <3>4. 1 \in 1 .. Len(todo)
      BY <3>1, HeadOfStack DEF CompilerTypeOK, Tasks
    <3>5. 3 \in 1 .. Len(todo) /\ FinishesLogic(todo[3])
      BY <3>1, <3>4 DEF LabelInv, TestsPaired
    <3>6. ~ FinishLogic
      BY <2>5 DEF TestLeft, FinishLogic, OnNode, Emitting
    <3>7. QED
      BY <2>1, <2>2, <2>3, <3>3, <3>5, <3>6 DEF LabelInv
  <2>6. CASE FinishLogic
    <3>. DEFINE op == Node(todo[1].node).op
                b  == LogicEnd(op, value_type[Node(todo[1].node).right], m_CurrentSubLabel)
    <3>1. /\ op \in LogicOps
          /\ code' = code \o b
          /\ m_CurrentSubLabel' = m_CurrentSubLabel + LabelsOf(op)
      BY <2>6, LogicHead
    <3>2. LogicBlock(b, m_CurrentSubLabel, m_CurrentSubLabel + LabelsOf(op) - 1)
      BY <1>1, <3>1, LogicEndShape
    <3>3. LabelsOf(op) \in Nat \ {0}
      BY LabelsOfType
    <3>. HIDE DEF op, b
    <3>4. Consistent(code', m_CurrentSubLabel') /\ ~ Waiting(code', m_CurrentSubLabel')
      BY <1>1, <3>1, <3>2, <3>3, AppendLogic DEF LabelInv
    <3>5. QED
      BY <2>1, <2>2, <2>3, <3>4 DEF LabelInv
  <2>7. QED
    BY <1>4, <2>4, <2>5, <2>6
<1>5. QED
  BY <1>2, <1>3, <1>4 DEF CompilerNext, PlainSteps

(* The invariant of the labels holds as long as nothing changes. *)
LEMMA LabelStutter ==
  ASSUME LabelInv, UNCHANGED compilerVars
  PROVE  LabelInv'
  BY DEF LabelInv, TestsPaired, FinishesLogic, Node, compilerVars, checkerVars, emitterVars

(* The labels of the code are the numbers below m_CurrentSubLabel, and only *)
(* an unfinished && or || is waited for. *)
THEOREM LabelInvCorrect ==
  CompilerSpec => []LabelInv
<1>1. CompilerInit => CompilerTypeOK /\ LabelInv
  BY CompilerTypeInit, LabelInit
<1>2. CompilerTypeOK /\ LabelInv /\ [CompilerNext \/ Stopped]_compilerVars
        => (CompilerTypeOK /\ LabelInv)'
  BY CompilerTypeStep, CompilerTypeStutter, LabelStep, LabelStutter DEF Stopped
<1>3. QED
  BY <1>1, <1>2, PTL DEF CompilerSpec

(* No sub label is ever defined twice, however && and || are nested. *)
THEOREM LabelsUniqueCorrect ==
  CompilerSpec => []LabelsUnique
<1>1. LabelInv => LabelsUnique
  BY DEF LabelInv, Consistent, LabelsUnique
<1>2. QED
  BY <1>1, LabelInvCorrect, PTL

(* A compiled program has no jump backwards, hence no loop. *)
THEOREM JumpsForwardCorrect ==
  CompilerSpec => []JumpsForward
<1>1. LabelInv => JumpsForward
  BY DEF LabelInv, Consistent, JumpsForward
<1>2. QED
  BY <1>1, LabelInvCorrect, PTL

(* Every jump of a compiled program has a label to go to. *)
THEOREM JumpsResolveCorrect ==
  CompilerSpec => []JumpsResolve
<1>1. CompilerTypeOK /\ LabelInv => JumpsResolve
  <2>1. SUFFICES ASSUME CompilerTypeOK, LabelInv, status = "compiled", NEW i \in Jumps(code)
                 PROVE  \E j \in Labels(code) : code[i].a.n = code[j].a.n
    BY DEF JumpsResolve
  <2>2. Len(todo) = 0 /\ m_CurrentSubLabel \in Nat
    BY <2>1, EmptySeq DEF LabelInv, CompilerTypeOK
  <2>3. ~ Waiting(code, m_CurrentSubLabel)
    BY <2>1, <2>2 DEF LabelInv
  <2>4. code[i].a.n \in 0 .. m_CurrentSubLabel - 1
    BY <2>1, <2>2, <2>3 DEF LabelInv, Consistent, Waiting
  <2>5. QED
    BY <2>1, <2>4 DEF LabelInv, Consistent
<1>2. QED
  BY <1>1, CompilerTypeCorrect, LabelInvCorrect, PTL

-----------------------------------------------------------------------------
(* Effects.                                                                *)

(* The effects of single steps are effects, and so is one after another. *)
LEMMA EffectTypes ==
  /\ Nothing \in Effects
  /\ \A x \in Names : Reading(x) \in Effects
  /\ \A x \in Names, n \in Nat : Binding(x, n) \in Effects
  /\ \A a, b \in Effects : Then(a, b) \in Effects
<1>1. nullptr \in Nat
  BY DEF nullptr
<1>2. Nothing \in Effects /\ \A x \in Names : Reading(x) \in Effects
  BY <1>1 DEF Effects, Nothing, Reading
<1>3. \A x \in Names, n \in Nat : Binding(x, n) \in Effects
  BY <1>1 DEF Effects, Binding
<1>4. ASSUME NEW a \in Effects, NEW b \in Effects
      PROVE  Then(a, b) \in Effects
  BY DEF Effects, Then
<1>5. QED
  BY <1>2, <1>3, <1>4

(* Nothing before or behind a walk changes it. *)
LEMMA ThenNothing ==
  ASSUME NEW a \in Effects
  PROVE  Then(Nothing, a) = a /\ Then(a, Nothing) = a
<1>1. /\ a.slots \in Nat
      /\ a.first \in [Names -> Nat]
      /\ a.reads \subseteq Names
      /\ a = [slots |-> a.slots, first |-> a.first, reads |-> a.reads]
  BY DEF Effects
<1>2. Then(Nothing, a) = [slots |-> a.slots, first |-> a.first, reads |-> a.reads]
  <2>1. {x \in a.reads : Nothing.first[x] = nullptr} = a.reads
    BY <1>1 DEF Nothing
  <2>2. [x \in Names |-> IF Nothing.first[x] # nullptr THEN Nothing.first[x] ELSE a.first[x]]
          = a.first
    BY <1>1 DEF Nothing
  <2>3. QED
    BY <1>1, <2>1, <2>2 DEF Then, Nothing
<1>3. Then(a, Nothing) = [slots |-> a.slots, first |-> a.first, reads |-> a.reads]
  <2>1. [x \in Names |-> IF a.first[x] # nullptr THEN a.first[x] ELSE Nothing.first[x]]
          = a.first
    BY <1>1 DEF Nothing
  <2>2. QED
    BY <1>1, <2>1 DEF Then, Nothing
<1>4. QED
  BY <1>1, <1>2, <1>3

(* The parts of one walk after another. *)
LEMMA ThenParts ==
  ASSUME NEW a \in Effects, NEW b \in Effects
  PROVE  /\ Then(a, b).slots = a.slots + b.slots
         /\ \A x \in Names : Then(a, b).first[x]
                               = IF a.first[x] # nullptr THEN a.first[x] ELSE b.first[x]
         /\ Then(a, b).reads = a.reads \cup {x \in b.reads : a.first[x] = nullptr}
  BY DEF Then

(* Two effects with the same parts are the same. *)
LEMMA EqualEffects ==
  ASSUME NEW a \in Effects, NEW b \in Effects, a.slots = b.slots, a.reads = b.reads,
         \A x \in Names : a.first[x] = b.first[x]
  PROVE  a = b
<1>1. a.first = b.first
  BY DEF Effects
<1>2. /\ a = [slots |-> a.slots, first |-> a.first, reads |-> a.reads]
      /\ b = [slots |-> b.slots, first |-> b.first, reads |-> b.reads]
  BY DEF Effects
<1>3. QED
  BY <1>1, <1>2

(* It does not matter how three walks are grouped. *)
LEMMA ThenAssociative ==
  ASSUME NEW a \in Effects, NEW b \in Effects, NEW c \in Effects
  PROVE  Then(Then(a, b), c) = Then(a, Then(b, c))
<1>. DEFINE l == Then(Then(a, b), c)
            r == Then(a, Then(b, c))
<1>1. Then(a, b) \in Effects /\ Then(b, c) \in Effects /\ l \in Effects /\ r \in Effects
  BY EffectTypes
<1>2. a.slots \in Nat /\ b.slots \in Nat /\ c.slots \in Nat
  BY DEF Effects
<1>3. a.reads \subseteq Names /\ b.reads \subseteq Names /\ c.reads \subseteq Names
  BY DEF Effects
<1>4. l.slots = r.slots
  BY <1>1, <1>2, ThenParts
<1>5. \A x \in Names : l.first[x] = r.first[x]
  BY <1>1, ThenParts
<1>6. l.reads = r.reads
  <2>1. l.reads = (a.reads \cup {x \in b.reads : a.first[x] = nullptr})
                    \cup {x \in c.reads : Then(a, b).first[x] = nullptr}
    BY <1>1, ThenParts
  <2>2. r.reads = a.reads \cup {x \in Then(b, c).reads : a.first[x] = nullptr}
    BY <1>1, ThenParts
  <2>3. Then(b, c).reads = b.reads \cup {x \in c.reads : b.first[x] = nullptr}
    BY ThenParts
  <2>4. \A x \in c.reads : Then(a, b).first[x] = nullptr
                             <=> a.first[x] = nullptr /\ b.first[x] = nullptr
    BY <1>3, ThenParts
  <2>. HIDE DEF l, r
  <2>5. QED
    BY <2>1, <2>2, <2>3, <2>4
<1>. HIDE DEF l, r
<1>7. l = r
  BY <1>1, <1>4, <1>5, <1>6, EqualEffects
<1>8. QED
  BY <1>7 DEF l, r

(* To walk a tree twice takes slots again, but binds and reads nothing more. *)
LEMMA ThenTwice ==
  ASSUME NEW a \in Effects, NEW b \in Effects
  PROVE  LET once  == Then(a, b)
             twice == Then(a, Then(a, b))
         IN  /\ once.slots <= twice.slots
             /\ \A x \in Names : once.first[x] = twice.first[x]
             /\ once.reads = twice.reads
<1>1. Then(a, b) \in Effects
  BY EffectTypes
<1>2. a.slots \in Nat /\ b.slots \in Nat
  BY DEF Effects
<1>3. a.reads \subseteq Names /\ b.reads \subseteq Names
  BY DEF Effects
<1>4. Then(a, b).slots <= Then(a, Then(a, b)).slots
  BY <1>1, <1>2, ThenParts
<1>5. \A x \in Names : Then(a, b).first[x] = Then(a, Then(a, b)).first[x]
  BY <1>1, ThenParts
<1>6. Then(a, b).reads = Then(a, Then(a, b)).reads
  <2>1. Then(a, Then(a, b)).reads = a.reads \cup {x \in Then(a, b).reads : a.first[x] = nullptr}
    BY <1>1, ThenParts
  <2>2. Then(a, b).reads = a.reads \cup {x \in b.reads : a.first[x] = nullptr}
    BY ThenParts
  <2>3. QED
    BY <2>1, <2>2
<1>7. QED
  BY <1>4, <1>5, <1>6

-----------------------------------------------------------------------------
(* The effect of a tree.                                                   *)

(* The nodes of a program, and their operands. *)
LEMMA ProgramNodes ==
  ASSUME NEW p, IsProgram(p)
  PROVE  /\ Len(p.node) \in Nat
         /\ \A n \in 1 .. Len(p.node) :
              /\ p.node[n].type \in NodeTypes
              /\ p.node[n].type = "BINOP"  => p.node[n].left \in 1 .. n - 1 /\ p.node[n].right \in 1 .. n - 1
              /\ p.node[n].type = "UNRYOP" => p.node[n].right \in 1 .. n - 1
              /\ p.node[n].type = "ASSIGN" => p.node[n].name \in Names /\ p.node[n].right \in 1 .. n - 1
              /\ p.node[n].type = "ACCESS" => p.node[n].name \in Names
<1>1. p.node \in Seq(Nodes) /\ Len(p.node) \in Nat
  BY LenProperties DEF IsProgram
<1>2. ASSUME NEW n \in 1 .. Len(p.node)
      PROVE  p.node[n].type \in NodeTypes
  <2>1. p.node[n] \in Nodes
    BY <1>1, ElementOfSeq
  <2>2. QED
    BY <2>1 DEF Nodes
<1>3. \A n \in 1 .. Len(p.node) : WellFormed(p.node, n)
  BY DEF IsProgram
<1>4. QED
  BY <1>1, <1>2, <1>3 DEF WellFormed

(* The effect of a node is found from the effects of its operands. *)
LEMMA NodeEffectType ==
  ASSUME NEW p, IsProgram(p), NEW n \in 0 .. Len(p.node), NEW w,
         \A i \in 0 .. n - 1 : w[i] \in Effects
  PROVE  NodeEffect(p, w, n) \in Effects
<1>1. CASE n = nullptr
  BY <1>1, EffectTypes DEF NodeEffect
<1>2. CASE n # nullptr
  <2>1. n \in 1 .. Len(p.node) /\ \A i \in 1 .. n - 1 : w[i] \in Effects
    BY <1>2, ProgramNodes DEF nullptr
  <2>2. n \in Nat
    BY <2>1, ProgramNodes
  <2>3. QED
    BY <1>2, <2>1, <2>2, ProgramNodes, EffectTypes DEF NodeEffect
<1>3. QED
  BY <1>1, <1>2

(* And from nothing else. *)
LEMMA NodeEffectBelow ==
  ASSUME NEW p, IsProgram(p), NEW n \in 0 .. Len(p.node), NEW v, NEW w,
         \A i \in 0 .. n - 1 : v[i] = w[i]
  PROVE  NodeEffect(p, v, n) = NodeEffect(p, w, n)
<1>1. CASE n = nullptr
  BY <1>1 DEF NodeEffect
<1>2. CASE n # nullptr
  <2>1. n \in 1 .. Len(p.node) /\ \A i \in 1 .. n - 1 : v[i] = w[i]
    BY <1>2, ProgramNodes DEF nullptr
  <2>2. QED
    BY <1>2, <2>1, ProgramNodes DEF NodeEffect
<1>3. QED
  BY <1>1, <1>2

(* So every node of a program has an effect, as WalkOf defines it. *)
LEMMA WalkDefined ==
  ASSUME NEW p, IsProgram(p)
  PROVE  /\ WalkOf(p) \in [0 .. Len(p.node) -> Effects]
         /\ \A n \in 0 .. Len(p.node) : WalkOf(p)[n] = NodeEffect(p, WalkOf(p), n)
<1>. DEFINE N == Len(p.node)
            Fns == [0 .. N -> Effects]
            R == [wn \in Fns \X (0 .. N) |-> NodeEffect(p, wn[1], wn[2])]
<1>1. N \in Nat /\ Effects # {}
  BY ProgramNodes, EffectTypes
<1>. HIDE DEF N
<1>2. \A w \in Fns, n \in 0 .. N : R[<<w, n>>] = NodeEffect(p, w, n)
  OBVIOUS
<1>3. R \in [Fns \X (0 .. N) -> Effects]
  <2>1. ASSUME NEW w \in Fns, NEW n \in 0 .. N
        PROVE  NodeEffect(p, w, n) \in Effects
    <3>1. \A i \in 0 .. n - 1 : w[i] \in Effects
      BY <1>1
    <3>2. QED
      BY <3>1, NodeEffectType DEF N
  <2>2. QED
    BY <2>1
<1>. HIDE DEF R
<1>4. \A v, w \in Fns, n \in 0 .. N :
        (\A i \in 0 .. n - 1 : v[i] = w[i]) => R[<<v, n>>] = R[<<w, n>>]
  <2>1. SUFFICES ASSUME NEW v \in Fns, NEW w \in Fns, NEW n \in 0 .. N,
                        \A i \in 0 .. n - 1 : v[i] = w[i]
                 PROVE  R[<<v, n>>] = R[<<w, n>>]
    OBVIOUS
  <2>2. NodeEffect(p, v, n) = NodeEffect(p, w, n)
    <3>. HIDE DEF Fns
    <3>1. QED
      BY <2>1, NodeEffectBelow DEF N
  <2>3. QED
    BY <1>2, <2>2
<1>5. PICK f \in Fns : \A n \in 0 .. N : f[n] = R[<<f, n>>]
  <2>1. R \in Rules(N, Effects)
    BY <1>3, <1>4 DEF Rules
  <2>2. QED
    BY <1>1, <2>1, RecursionExists DEF FollowsRule
<1>6. f = [n \in 0 .. N |-> NodeEffect(p, f, n)]
  BY <1>2, <1>5
<1>7. WalkOf(p) = [n \in 0 .. N |-> NodeEffect(p, WalkOf(p), n)]
  BY <1>6 DEF WalkOf, N
<1>8. \A n \in 0 .. N : WalkOf(p)[n] = NodeEffect(p, WalkOf(p), n)
  BY <1>7
<1>. DEFINE S == {n \in Nat : n \in 0 .. N => WalkOf(p)[n] \in Effects}
<1>9. ASSUME NEW n \in Nat, \A m \in 0 .. n - 1 : m \in S
      PROVE  n \in S
  <2>1. SUFFICES ASSUME n \in 0 .. N
                 PROVE  WalkOf(p)[n] \in Effects
    OBVIOUS
  <2>2. \A m \in 0 .. n - 1 : WalkOf(p)[m] \in Effects
    BY <1>1, <1>9, <2>1
  <2>3. QED
    BY <1>8, <2>1, <2>2, NodeEffectType DEF N
<1>10. \A n \in Nat : n \in S
  <2>. HIDE DEF S
  <2>1. QED
    BY <1>9, StrongSetInduction
<1>11. \A n \in 0 .. N : WalkOf(p)[n] \in Effects
  BY <1>1, <1>10
<1>12. WalkOf(p) \in [0 .. N -> Effects]
  BY <1>7, <1>11
<1>13. QED
  BY <1>8, <1>12 DEF N

-----------------------------------------------------------------------------
(* The effect of a stack.                                                  *)

(* The activations of both passes. *)
Acts(p) == [do : {"check", "return", "eval", "test", "finish", "print"},
            node : 0 .. Len(p.node)]

(* What is left of an activation is an effect. *)
LEMMA PartType ==
  ASSUME NEW p, IsProgram(p), NEW act \in Acts(p)
  PROVE  Part(p, act) \in Effects
<1>1. act.node \in 0 .. Len(p.node) /\ Len(p.node) \in Nat
  BY ProgramNodes DEF Acts
<1>2. WalkOf(p)[act.node] \in Effects
  BY <1>1, WalkDefined
<1>3. act.node # nullptr => act.node \in 1 .. Len(p.node) /\ act.node \in Nat
  BY <1>1 DEF nullptr
<1>4. CASE act.do \in {"check", "eval"}
  BY <1>2, <1>4 DEF Part
<1>5. CASE /\ act.do \in {"return", "finish"}
           /\ act.node # nullptr
           /\ p.node[act.node].type = "ASSIGN"
  <2>1. p.node[act.node].name \in Names
    BY <1>3, <1>5, ProgramNodes
  <2>2. QED
    BY <1>3, <1>5, <2>1, EffectTypes DEF Part
<1>6. QED
  BY <1>4, <1>5, EffectTypes DEF Part

(* OwedBy is a function that obeys its own definition. *)
LEMMA OwedDefined ==
  ASSUME NEW p, IsProgram(p), NEW acts \in Seq(Acts(p))
  PROVE  /\ OwedBy(p, acts) \in [0 .. Len(acts) -> Effects]
         /\ OwedBy(p, acts)[0] = Nothing
         /\ \A i \in 1 .. Len(acts) :
              OwedBy(p, acts)[i] = Then(Part(p, acts[Len(acts) - i + 1]), OwedBy(p, acts)[i - 1])
<1>. DEFINE N == Len(acts)
            Fns == [0 .. N -> Effects]
            Val(f, i) == IF i = 0 THEN Nothing ELSE Then(Part(p, acts[N - i + 1]), f[i - 1])
            R == [fi \in Fns \X (0 .. N) |-> Val(fi[1], fi[2])]
<1>1. N \in Nat /\ Effects # {} /\ \A i \in 1 .. N : Part(p, acts[N - i + 1]) \in Effects
  <2>1. N \in Nat /\ \A i \in 1 .. N : acts[i] \in Acts(p)
    BY LenProperties, ElementOfSeq
  <2>2. \A i \in 1 .. N : N - i + 1 \in 1 .. N
    BY <2>1
  <2>3. QED
    BY <2>1, <2>2, PartType, EffectTypes
<1>2. ASSUME NEW f, NEW i \in 0 .. N, \A j \in 0 .. i - 1 : f[j] \in Effects
      PROVE  Val(f, i) \in Effects
  <2>1. CASE i = 0
    BY <2>1, EffectTypes
  <2>2. CASE i # 0
    <3>1. i \in 1 .. N /\ i - 1 \in 0 .. i - 1
      BY <1>1, <2>2
    <3>2. Part(p, acts[N - i + 1]) \in Effects /\ f[i - 1] \in Effects
      BY <1>1, <1>2, <3>1
    <3>3. QED
      BY <2>2, <3>2, EffectTypes
  <2>3. QED
    BY <2>1, <2>2
<1>3. ASSUME NEW f, NEW g, NEW i \in 0 .. N, \A j \in 0 .. i - 1 : f[j] = g[j]
      PROVE  Val(f, i) = Val(g, i)
  <2>1. i # 0 => f[i - 1] = g[i - 1]
    BY <1>1, <1>3
  <2>2. QED
    BY <2>1
<1>. HIDE DEF N, Val
<1>4. \A f \in Fns, i \in 0 .. N : R[<<f, i>>] = Val(f, i)
  OBVIOUS
<1>5. R \in Rules(N, Effects)
  <2>1. \A f \in Fns, i \in 0 .. N : Val(f, i) \in Effects
    <3>1. \A f \in Fns, i \in 0 .. N : \A j \in 0 .. i - 1 : f[j] \in Effects
      BY <1>1
    <3>. HIDE DEF Fns
    <3>2. QED
      BY <1>2, <3>1
  <2>2. R \in [Fns \X (0 .. N) -> Effects]
    BY <2>1
  <2>. HIDE DEF R
  <2>3. \A f, g \in Fns, i \in 0 .. N :
          (\A j \in 0 .. i - 1 : f[j] = g[j]) => R[<<f, i>>] = R[<<g, i>>]
    <3>. HIDE DEF Fns
    <3>1. QED
      BY <1>3, <1>4
  <2>4. QED
    BY <2>2, <2>3 DEF Rules
<1>. HIDE DEF R
<1>6. PICK f \in Fns : \A i \in 0 .. N : f[i] = R[<<f, i>>]
  BY <1>1, <1>5, RecursionExists DEF FollowsRule
<1>7. f = [i \in 0 .. N |-> Val(f, i)]
  BY <1>4, <1>6
<1>. DEFINE owed == OwedBy(p, acts)
<1>8. owed = [i \in 0 .. N |-> Val(owed, i)]
  BY <1>7 DEF OwedBy, N, Val
<1>. HIDE DEF owed
<1>9. \A i \in 0 .. N : owed[i] = Val(owed, i)
  BY <1>8
<1>. DEFINE S == {i \in Nat : i \in 0 .. N => owed[i] \in Effects}
<1>10. ASSUME NEW i \in Nat, \A j \in 0 .. i - 1 : j \in S
       PROVE  i \in S
  <2>1. SUFFICES ASSUME i \in 0 .. N
                 PROVE  owed[i] \in Effects
    OBVIOUS
  <2>2. \A j \in 0 .. i - 1 : owed[j] \in Effects
    BY <1>1, <1>10, <2>1
  <2>3. QED
    BY <1>2, <1>9, <2>1, <2>2
<1>11. \A i \in Nat : i \in S
  <2>. HIDE DEF S
  <2>1. QED
    BY <1>10, StrongSetInduction
<1>12. \A i \in 0 .. N : owed[i] \in Effects
  BY <1>1, <1>11
<1>13. owed \in [0 .. N -> Effects]
  BY <1>8, <1>12
<1>14. 0 \in 0 .. N /\ \A i \in 1 .. N : i \in 0 .. N /\ i # 0
  BY <1>1
<1>15. QED
  BY <1>9, <1>13, <1>14 DEF owed, N, Val

(* A stack owes an effect, and an empty one nothing. *)
LEMMA OwedType ==
  ASSUME NEW p, IsProgram(p), NEW acts \in Seq(Acts(p))
  PROVE  Owed(p, acts) \in Effects /\ Owed(p, <<>>) = Nothing
<1>1. Len(acts) \in 0 .. Len(acts)
  BY LenProperties
<1>2. Owed(p, acts) \in Effects
  BY <1>1, OwedDefined DEF Owed
<1>3. <<>> \in Seq(Acts(p)) /\ Len(<<>>) = 0
  OBVIOUS
<1>4. Owed(p, <<>>) = Nothing
  BY <1>3, OwedDefined DEF Owed
<1>5. QED
  BY <1>2, <1>4

(* First the innermost activation, then the others. *)
LEMMA OwedHead ==
  ASSUME NEW p, IsProgram(p), NEW acts \in Seq(Acts(p)), acts # <<>>
  PROVE  Owed(p, acts) = Then(Part(p, acts[1]), Owed(p, Tail(acts)))
<1>. DEFINE t == Tail(acts)
            N == Len(acts)
            all  == OwedBy(p, acts)
            rest == OwedBy(p, t)
<1>1. /\ t \in Seq(Acts(p)) /\ N \in Nat /\ N >= 1 /\ Len(t) = N - 1
      /\ \A i \in 1 .. N - 1 : t[i] = acts[i + 1]
  <2>1. /\ t \in Seq(Acts(p)) /\ N \in Nat /\ Len(t) = N - 1
        /\ \A i \in 1 .. Len(t) : t[i] = acts[i + 1]
    BY HeadOfStack
  <2>2. N # 0
    BY EmptySeq
  <2>3. QED
    BY <2>1, <2>2
<1>2. /\ all[0] = Nothing
      /\ \A i \in 1 .. N : all[i] = Then(Part(p, acts[N - i + 1]), all[i - 1])
  BY OwedDefined
<1>3. /\ rest[0] = Nothing
      /\ \A i \in 1 .. N - 1 : rest[i] = Then(Part(p, t[(N - 1) - i + 1]), rest[i - 1])
  BY <1>1, OwedDefined
<1>. HIDE DEF all, rest, t, N
<1>. DEFINE S == {i \in Nat : i \in 0 .. N - 1 => rest[i] = all[i]}
<1>4. 0 \in S
  BY <1>2, <1>3
<1>5. ASSUME NEW i \in Nat, i \in S
      PROVE  i + 1 \in S
  <2>1. SUFFICES ASSUME i + 1 \in 0 .. N - 1
                 PROVE  rest[i + 1] = all[i + 1]
    OBVIOUS
  <2>2. i + 1 \in 1 .. N - 1 /\ i + 1 \in 1 .. N /\ (i + 1) - 1 = i /\ rest[i] = all[i]
    BY <1>1, <1>5, <2>1
  <2>3. t[(N - 1) - (i + 1) + 1] = acts[N - (i + 1) + 1]
    <3>1. /\ (N - 1) - (i + 1) + 1 \in 1 .. N - 1
          /\ ((N - 1) - (i + 1) + 1) + 1 = N - (i + 1) + 1
      BY <1>1, <2>1
    <3>2. QED
      BY <1>1, <3>1
  <2>4. QED
    BY <1>2, <1>3, <2>2, <2>3
<1>6. \A i \in Nat : i \in S
  <2>. HIDE DEF S
  <2>1. QED
    BY <1>4, <1>5, SetInduction
<1>7. rest[N - 1] = all[N - 1]
  BY <1>1, <1>6
<1>8. all[N] = Then(Part(p, acts[1]), all[N - 1])
  <2>1. N \in 1 .. N /\ N - N + 1 = 1
    BY <1>1
  <2>2. QED
    BY <1>2, <2>1
<1>9. QED
  BY <1>1, <1>7, <1>8 DEF Owed, all, rest, t, N

(* The innermost of the activations pushed on a stack comes first. *)
LEMMA OwedPush ==
  ASSUME NEW p, IsProgram(p), NEW a \in Acts(p), NEW acts \in Seq(Acts(p))
  PROVE  /\ <<a>> \o acts \in Seq(Acts(p))
         /\ Owed(p, <<a>> \o acts) = Then(Part(p, a), Owed(p, acts))
<1>. DEFINE s == <<a>> \o acts
<1>1. /\ <<a>> \in Seq(Acts(p)) /\ Len(<<a>>) = 1
      /\ s \in Seq(Acts(p)) /\ Len(s) = 1 + Len(acts) /\ Len(acts) \in Nat
  BY ConcatProperties, LenProperties
<1>2. s # <<>> /\ s[1] = a /\ Tail(s) = acts
  BY <1>1, ConcatProperties
<1>. HIDE DEF s
<1>3. Owed(p, s) = Then(Part(p, a), Owed(p, acts))
  BY <1>1, <1>2, OwedHead
<1>4. QED
  BY <1>1, <1>3 DEF s

(* A short sequence is known from its elements. *)
LEMMA TwoElements ==
  ASSUME NEW S, NEW s \in Seq(S), Len(s) = 2
  PROVE  s = <<s[1], s[2]>>
<1>. DEFINE t == <<s[1], s[2]>>
<1>1. t \in Seq(S) /\ Len(t) = 2 /\ t[1] = s[1] /\ t[2] = s[2]
  BY ElementOfSeq
<1>. HIDE DEF t
<1>2. \A i \in 1 .. Len(s) : s[i] = t[i]
  BY <1>1
<1>3. s = t
  BY <1>1, <1>2, SeqEqual
<1>4. QED
  BY <1>3 DEF t

(* And one of three. *)
LEMMA ThreeElements ==
  ASSUME NEW S, NEW s \in Seq(S), Len(s) = 3
  PROVE  s = <<s[1], s[2], s[3]>>
<1>. DEFINE t == <<s[1], s[2], s[3]>>
<1>1. t \in Seq(S) /\ Len(t) = 3 /\ t[1] = s[1] /\ t[2] = s[2] /\ t[3] = s[3]
  <2>1. \A i \in 1 .. 3 : s[i] \in S
    BY ElementOfSeq
  <2>2. QED
    BY <2>1
<1>. HIDE DEF t
<1>2. \A i \in 1 .. Len(s) : s[i] = t[i]
  BY <1>1
<1>3. s = t
  BY <1>1, <1>2, SeqEqual
<1>4. QED
  BY <1>3 DEF t

(* A pair is two elements, one after the other. *)
LEMMA PairOfElements ==
  ASSUME NEW S, NEW a \in S, NEW b \in S
  PROVE  <<a, b>> = <<a>> \o <<b>>
<1>. DEFINE s == <<a>> \o <<b>>
<1>1. s \in Seq(S) /\ Len(s) = 2 /\ s[1] = a /\ s[2] = b
  OBVIOUS
<1>. HIDE DEF s
<1>2. s = <<a, b>>
  BY <1>1, TwoElements
<1>3. QED
  BY <1>2 DEF s

(* Two activations pushed on a stack: one after the other, then the stack. *)
LEMMA OwedPush2 ==
  ASSUME NEW p, IsProgram(p), NEW q \in Seq(Acts(p)), NEW a \in Acts(p), NEW b \in Acts(p)
  PROVE  /\ <<a, b>> \o q \in Seq(Acts(p))
         /\ Owed(p, <<a, b>> \o q) = Then(Part(p, a), Then(Part(p, b), Owed(p, q)))
<1>. DEFINE A == Acts(p)
            s == <<b>> \o q
<1>1. s \in Seq(A) /\ Owed(p, s) = Then(Part(p, b), Owed(p, q))
  BY OwedPush
<1>2. <<a, b>> \o q = <<a>> \o s
  <2>. HIDE DEF A
  <2>1. <<a>> \in Seq(A) /\ <<b>> \in Seq(A) /\ q \in Seq(A)
    BY DEF A
  <2>2. <<a, b>> = <<a>> \o <<b>>
    BY PairOfElements DEF A
  <2>3. (<<a>> \o <<b>>) \o q = <<a>> \o (<<b>> \o q)
    BY <2>1, ConcatAssociative
  <2>4. QED
    BY <2>2, <2>3
<1>. HIDE DEF s
<1>3. <<a>> \o s \in Seq(A) /\ Owed(p, <<a>> \o s) = Then(Part(p, a), Owed(p, s))
  BY <1>1, OwedPush
<1>4. QED
  BY <1>1, <1>2, <1>3

(* Three. *)
LEMMA OwedPush3 ==
  ASSUME NEW p, IsProgram(p), NEW q \in Seq(Acts(p)),
         NEW a \in Acts(p), NEW b \in Acts(p), NEW c \in Acts(p)
  PROVE  /\ <<a, b, c>> \o q \in Seq(Acts(p))
         /\ Owed(p, <<a, b, c>> \o q)
              = Then(Part(p, a), Then(Part(p, b), Then(Part(p, c), Owed(p, q))))
<1>. DEFINE A == Acts(p)
            s == <<b, c>> \o q
<1>1. s \in Seq(A) /\ Owed(p, s) = Then(Part(p, b), Then(Part(p, c), Owed(p, q)))
  BY OwedPush2
<1>2. <<a, b, c>> \o q = <<a>> \o s
  <2>. HIDE DEF A
  <2>1. <<a>> \in Seq(A) /\ <<b, c>> \in Seq(A) /\ q \in Seq(A)
    BY DEF A
  <2>2. <<a, b, c>> = <<a>> \o <<b, c>>
    OBVIOUS
  <2>3. (<<a>> \o <<b, c>>) \o q = <<a>> \o (<<b, c>> \o q)
    BY <2>1, ConcatAssociative
  <2>4. QED
    BY <2>2, <2>3
<1>. HIDE DEF s
<1>3. <<a>> \o s \in Seq(A) /\ Owed(p, <<a>> \o s) = Then(Part(p, a), Owed(p, s))
  BY <1>1, OwedPush
<1>4. QED
  BY <1>1, <1>2, <1>3

(* Four. *)
LEMMA OwedPush4 ==
  ASSUME NEW p, IsProgram(p), NEW q \in Seq(Acts(p)),
         NEW a \in Acts(p), NEW b \in Acts(p), NEW c \in Acts(p), NEW d \in Acts(p)
  PROVE  /\ <<a, b, c, d>> \o q \in Seq(Acts(p))
         /\ Owed(p, <<a, b, c, d>> \o q)
              = Then(Part(p, a), Then(Part(p, b), Then(Part(p, c), Then(Part(p, d), Owed(p, q)))))
<1>. DEFINE A == Acts(p)
            s == <<b, c, d>> \o q
<1>1. /\ s \in Seq(A)
      /\ Owed(p, s) = Then(Part(p, b), Then(Part(p, c), Then(Part(p, d), Owed(p, q))))
  BY OwedPush3
<1>2. <<a, b, c, d>> \o q = <<a>> \o s
  <2>. HIDE DEF A
  <2>1. <<a>> \in Seq(A) /\ <<b, c, d>> \in Seq(A) /\ q \in Seq(A)
    BY DEF A
  <2>2. <<a, b, c, d>> = <<a>> \o <<b, c, d>>
    OBVIOUS
  <2>3. (<<a>> \o <<b, c, d>>) \o q = <<a>> \o (<<b, c, d>> \o q)
    BY <2>1, ConcatAssociative
  <2>4. QED
    BY <2>2, <2>3
<1>. HIDE DEF s
<1>3. <<a>> \o s \in Seq(A) /\ Owed(p, <<a>> \o s) = Then(Part(p, a), Owed(p, s))
  BY <1>1, OwedPush
<1>4. QED
  BY <1>1, <1>2, <1>3

(* The parts of the activations of the code generator. *)
LEMMA TaskParts ==
  ASSUME IsProgram(prog), NEW n \in Ids
  PROVE  /\ \A do \in {"check", "eval"} :
              Visit(do, n) \in Acts(prog) /\ Part(prog, Visit(do, n)) = WalkOf(prog)[n]
         /\ \A do \in {"return", "finish"} :
              /\ Visit(do, n) \in Acts(prog)
              /\ Part(prog, Visit(do, n)) = IF Node(n).type = "ASSIGN"
                                              THEN Binding(Node(n).name, n) ELSE Nothing
         /\ \A do \in {"test", "print"} :
              Visit(do, n) \in Acts(prog) /\ Part(prog, Visit(do, n)) = Nothing
         /\ \A do : Task(do, n) = Visit(do, n)
<1>1. n \in 0 .. Len(prog.node) /\ n # nullptr
  BY ProgramNodes DEF Ids, nullptr
<1>2. QED
  BY <1>1 DEF Acts, Part, Visit, Task, Node

(* eval_expr of a node with operands: what it starts does what the node     *)
(* does.                                                                   *)
LEMMA OwedSteps ==
  ASSUME IsProgram(prog), NEW n \in Ids, Node(n).type \in {"BINOP", "UNRYOP", "ASSIGN"},
         NEW q \in Seq(Acts(prog))
  PROVE  Owed(prog, Steps(n) \o q) = Then(WalkOf(prog)[n], Owed(prog, q))
<1>. DEFINE l == Node(n).left
            r == Node(n).right
            W == WalkOf(prog)
            rest == Owed(prog, q)
<1>1. /\ r \in Ids /\ W[r] \in Effects /\ rest \in Effects
      /\ Node(n).type = "BINOP" => l \in Ids /\ W[l] \in Effects
      /\ Node(n).type = "ASSIGN" => Node(n).name \in Names
      /\ n # nullptr /\ n \in Nat
      /\ W[n] = NodeEffect(prog, W, n)
  <2>1. /\ r \in Ids
        /\ Node(n).type = "BINOP" => l \in Ids
        /\ Node(n).type = "ASSIGN" => Node(n).name \in Names
    BY OperandProperties, NodeProperties DEF WellFormed, Node
  <2>2. \A m \in Ids : m \in 0 .. Len(prog.node) /\ m # nullptr /\ m \in Nat
    BY ProgramNodes DEF Ids, nullptr
  <2>3. QED
    BY <2>1, <2>2, WalkDefined, OwedType
<1>2. CASE Node(n).type = "BINOP"
  <2>1. W[n] = Then(W[l], W[r])
    BY <1>1, <1>2 DEF NodeEffect, Node
  <2>. DEFINE a == Task("eval", l)
              b == Task("test", n)
              c == Task("eval", r)
              d == Task("finish", n)
  <2>2. /\ a \in Acts(prog) /\ b \in Acts(prog) /\ c \in Acts(prog) /\ d \in Acts(prog)
        /\ Part(prog, a) = W[l] /\ Part(prog, b) = Nothing
        /\ Part(prog, c) = W[r] /\ Part(prog, d) = Nothing
    BY <1>1, <1>2, TaskParts
  <2>3. Steps(n) = <<a, b, c, d>> \/ Steps(n) = <<a, c, d>>
    BY <1>2 DEF Steps
  <2>. HIDE DEF a, b, c, d, W, rest, l, r
  <2>4. /\ Owed(prog, <<a, c, d>> \o q) = Then(W[l], Then(W[r], Then(Nothing, rest)))
        /\ Owed(prog, <<a, b, c, d>> \o q)
             = Then(W[l], Then(Nothing, Then(W[r], Then(Nothing, rest))))
    BY <2>2, OwedPush3, OwedPush4 DEF rest
  <2>5. /\ Then(Nothing, rest) = rest
        /\ Then(Nothing, Then(W[r], rest)) = Then(W[r], rest)
        /\ Then(Then(W[l], W[r]), rest) = Then(W[l], Then(W[r], rest))
    <3>1. W[l] \in Effects /\ W[r] \in Effects /\ rest \in Effects
      BY <1>1, <1>2
    <3>2. Then(W[r], rest) \in Effects
      BY <3>1, EffectTypes
    <3>3. Then(Nothing, rest) = rest /\ Then(Nothing, Then(W[r], rest)) = Then(W[r], rest)
      BY <3>1, <3>2, ThenNothing
    <3>4. Then(Then(W[l], W[r]), rest) = Then(W[l], Then(W[r], rest))
      BY <3>1, ThenAssociative
    <3>5. QED
      BY <3>3, <3>4
  <2>6. QED
    BY <2>1, <2>3, <2>4, <2>5 DEF W, rest
<1>3. CASE Node(n).type \in {"UNRYOP", "ASSIGN"}
  <2>. DEFINE c == Task("eval", r)
              d == Task("finish", n)
              end == Part(prog, d)
  <2>1. /\ c \in Acts(prog) /\ d \in Acts(prog) /\ Part(prog, c) = W[r] /\ end \in Effects
        /\ end = IF Node(n).type = "ASSIGN" THEN Binding(Node(n).name, n) ELSE Nothing
    BY <1>1, <1>3, TaskParts, PartType
  <2>2. Steps(n) = <<c, d>>
    BY <1>3 DEF Steps
  <2>. HIDE DEF c, d, W, rest, r, end
  <2>3. Owed(prog, <<c, d>> \o q) = Then(W[r], Then(end, rest))
    BY <2>1, OwedPush2 DEF rest, end
  <2>4. Then(Then(W[r], end), rest) = Then(W[r], Then(end, rest))
    BY <1>1, <2>1, ThenAssociative
  <2>5. W[n] = Then(W[r], end)
    <3>1. CASE Node(n).type = "ASSIGN"
      BY <1>1, <2>1, <3>1 DEF NodeEffect, Node, r
    <3>2. CASE Node(n).type = "UNRYOP"
      <4>1. W[n] = W[r] /\ end = Nothing
        BY <1>1, <2>1, <3>2 DEF NodeEffect, Node, r
      <4>2. QED
        BY <1>1, <4>1, ThenNothing
    <3>3. QED
      BY <1>3, <3>1, <3>2
  <2>6. QED
    BY <2>2, <2>3, <2>4, <2>5 DEF W, rest
<1>4. QED
  BY <1>2, <1>3

(* The visits that check_type starts at a node with operands: those of the  *)
(* operands, and its own return.                                           *)
LEMMA CallsShape ==
  ASSUME IsProgram(prog), NEW n \in Ids, Node(n).type \in {"BINOP", "UNRYOP", "ASSIGN"}
  PROVE  LET l   == Visit("check", Node(n).left)
             r   == Visit("check", Node(n).right)
             ret == Visit("return", n)
             new == Calls(n) \o <<ret>>
         IN  \/ Node(n).type = "BINOP" /\ new = <<l, r, ret>>
             \/ Node(n).type \in {"UNRYOP", "ASSIGN"} /\ new = <<r, ret>>
             \/ Node(n).type = "UNRYOP" /\ new = <<r, r, ret>>
<1>. DEFINE l   == Visit("check", Node(n).left)
            r   == Visit("check", Node(n).right)
            ret == Visit("return", n)
            new == Calls(n) \o <<ret>>
<1>1. Calls(n) \in Seq(Visits) /\ ret \in Visits /\ <<ret>> \in Seq(Visits)
  <2>1. Calls(n) \in Seq(Visits)
    BY CallsType
  <2>2. ret \in Visits
    BY DEF Visit, Visits
  <2>3. QED
    BY <2>1, <2>2
<1>2. /\ new \in Seq(Visits) /\ Len(new) = Len(Calls(n)) + 1 /\ new[Len(Calls(n)) + 1] = ret
      /\ \A i \in 1 .. Len(Calls(n)) : new[i] = Calls(n)[i]
  BY <1>1, ConcatProperties, LenProperties
<1>. HIDE DEF new
<1>3. CASE Node(n).type = "BINOP"
  <2>1. Calls(n) = [i \in 1 .. 2 |-> Visit("check", <<Node(n).left, Node(n).right>>[i])]
    BY <1>3 DEF Calls, Operands
  <2>2. Len(Calls(n)) = 2 /\ Calls(n)[1] = l /\ Calls(n)[2] = r
    BY <2>1
  <2>3. Len(new) = 3 /\ new[1] = l /\ new[2] = r /\ new[3] = ret
    BY <1>2, <2>2
  <2>4. new = <<l, r, ret>>
    BY <1>2, <2>3, ThreeElements
  <2>5. QED
    BY <1>3, <2>4 DEF new
<1>4. CASE Node(n).type \in {"UNRYOP", "ASSIGN"}
  <2>1. CASE Node(n).type = "UNRYOP" /\ Node(n).op # "NOT"
    <3>1. Calls(n) = [i \in 1 .. 2 |-> Visit("check", <<Node(n).right, Node(n).right>>[i])]
      BY <2>1 DEF Calls, Operands
    <3>2. Len(Calls(n)) = 2 /\ Calls(n)[1] = r /\ Calls(n)[2] = r
      BY <3>1
    <3>3. Len(new) = 3 /\ new[1] = r /\ new[2] = r /\ new[3] = ret
      BY <1>2, <3>2
    <3>4. new = <<r, r, ret>>
      BY <1>2, <3>3, ThreeElements
    <3>5. QED
      BY <2>1, <3>4 DEF new
  <2>2. CASE ~ (Node(n).type = "UNRYOP" /\ Node(n).op # "NOT")
    <3>1. Calls(n) = [i \in 1 .. 1 |-> Visit("check", <<Node(n).right>>[i])]
      BY <1>4, <2>2 DEF Calls, Operands
    <3>2. Len(Calls(n)) = 1 /\ Calls(n)[1] = r
      BY <3>1
    <3>3. Len(new) = 2 /\ new[1] = r /\ new[2] = ret
      BY <1>2, <3>2
    <3>4. new = <<r, ret>>
      BY <1>2, <3>3, TwoElements
    <3>5. QED
      BY <1>4, <3>4 DEF new
  <2>3. QED
    BY <2>1, <2>2
<1>5. QED
  BY <1>3, <1>4

(* An effect that differs from another at most in taking more slots. *)
Covers(a, b) ==
  /\ b.slots <= a.slots
  /\ \A x \in Names : a.first[x] = b.first[x]
  /\ a.reads = b.reads

(* check_type of a node with operands: what it starts does what the node    *)
(* does, and a minus twice what its operand does.                          *)
LEMMA OwedCalls ==
  ASSUME IsProgram(prog), NEW n \in Ids, Node(n).type \in {"BINOP", "UNRYOP", "ASSIGN"},
         NEW q \in Seq(Acts(prog))
  PROVE  /\ Calls(n) \o <<Visit("return", n)>> \o q \in Seq(Acts(prog))
         /\ Covers(Owed(prog, Calls(n) \o <<Visit("return", n)>> \o q),
                   Then(WalkOf(prog)[n], Owed(prog, q)))
<1>. DEFINE W == WalkOf(prog)
            rest == Owed(prog, q)
            l   == Visit("check", Node(n).left)
            r   == Visit("check", Node(n).right)
            ret == Visit("return", n)
            new == Calls(n) \o <<ret>>
            end == Part(prog, ret)
            wl == W[Node(n).left]
            wr == W[Node(n).right]
<1>1. /\ r \in Acts(prog) /\ Part(prog, r) = wr /\ wr \in Effects
      /\ Node(n).type = "BINOP" => l \in Acts(prog) /\ Part(prog, l) = wl /\ wl \in Effects
      /\ ret \in Acts(prog) /\ end \in Effects /\ rest \in Effects
      /\ end = IF Node(n).type = "ASSIGN" THEN Binding(Node(n).name, n) ELSE Nothing
      /\ n # nullptr /\ W[n] = NodeEffect(prog, W, n)
  <2>1. Node(n).right \in Ids /\ (Node(n).type = "BINOP" => Node(n).left \in Ids)
    BY OperandProperties
  <2>2. \A m \in Ids : m \in 0 .. Len(prog.node) /\ m # nullptr
    BY ProgramNodes DEF Ids, nullptr
  <2>3. \A m \in Ids : W[m] \in Effects
    BY <2>2, WalkDefined
  <2>4. W[n] = NodeEffect(prog, W, n)
    BY <2>2, WalkDefined
  <2>5. rest \in Effects
    BY OwedType
  <2>6. ret \in Acts(prog) /\ end = IF Node(n).type = "ASSIGN" THEN Binding(Node(n).name, n)
                                                           ELSE Nothing
    BY TaskParts
  <2>7. end \in Effects
    BY <2>6, PartType
  <2>8. \A m \in Ids : Visit("check", m) \in Acts(prog) /\ Part(prog, Visit("check", m)) = W[m]
    BY TaskParts
  <2>. HIDE DEF W, rest, end
  <2>9. QED
    BY <2>1, <2>2, <2>3, <2>4, <2>5, <2>6, <2>7, <2>8
<1>2. /\ Node(n).type = "BINOP" => W[n] = Then(wl, wr)
      /\ Node(n).type = "UNRYOP" => W[n] = wr
      /\ Node(n).type = "ASSIGN" => W[n] = Then(wr, end)
  BY <1>1 DEF NodeEffect, Node
<1>3. \/ Node(n).type = "BINOP" /\ new = <<l, r, ret>>
      \/ Node(n).type \in {"UNRYOP", "ASSIGN"} /\ new = <<r, ret>>
      \/ Node(n).type = "UNRYOP" /\ new = <<r, r, ret>>
  BY CallsShape
<1>. HIDE DEF W, rest, l, r, ret, new, end, wl, wr
<1>4. Then(Nothing, rest) = rest /\ Then(wr, rest) \in Effects /\ Then(wr, Nothing) = wr
  BY <1>1, ThenNothing, EffectTypes
<1>5. CASE Node(n).type = "BINOP" /\ new = <<l, r, ret>>
  <2>1. /\ new \o q \in Seq(Acts(prog))
        /\ Owed(prog, new \o q) = Then(wl, Then(wr, Then(end, rest)))
    BY <1>1, <1>5, OwedPush3 DEF rest, end
  <2>2. Then(wl, Then(wr, rest)) = Then(W[n], rest)
    BY <1>1, <1>2, <1>5, ThenAssociative
  <2>3. Owed(prog, new \o q) = Then(W[n], rest) /\ Then(W[n], rest) \in Effects
    BY <1>1, <1>4, <1>5, <2>1, <2>2, EffectTypes
  <2>4. QED
    BY <2>1, <2>3 DEF Covers, Effects, W, rest, new, ret
<1>6. CASE Node(n).type \in {"UNRYOP", "ASSIGN"} /\ new = <<r, ret>>
  <2>1. /\ new \o q \in Seq(Acts(prog))
        /\ Owed(prog, new \o q) = Then(wr, Then(end, rest))
    BY <1>1, <1>6, OwedPush2 DEF rest, end
  <2>2. Then(wr, Then(end, rest)) = Then(Then(wr, end), rest)
    BY <1>1, ThenAssociative
  <2>3. W[n] = Then(wr, end)
    BY <1>1, <1>2, <1>4, <1>6
  <2>4. Owed(prog, new \o q) = Then(W[n], rest) /\ Then(W[n], rest) \in Effects
    BY <1>1, <2>1, <2>2, <2>3, EffectTypes
  <2>5. QED
    BY <2>1, <2>4 DEF Covers, Effects, W, rest, new, ret
<1>7. CASE Node(n).type = "UNRYOP" /\ new = <<r, r, ret>>
  <2>1. /\ new \o q \in Seq(Acts(prog))
        /\ Owed(prog, new \o q) = Then(wr, Then(wr, Then(end, rest)))
    BY <1>1, <1>7, OwedPush3 DEF rest, end
  <2>2. Owed(prog, new \o q) = Then(wr, Then(wr, rest))
    BY <1>1, <1>4, <1>7, <2>1
  <2>3. Covers(Then(wr, Then(wr, rest)), Then(wr, rest))
    BY <1>1, ThenTwice DEF Covers
  <2>4. W[n] = wr
    BY <1>2, <1>7
  <2>5. QED
    BY <2>1, <2>2, <2>3, <2>4 DEF W, rest, new, ret
<1>8. QED
  BY <1>3, <1>5, <1>6, <1>7

(* The stacks of the two passes are stacks of activations. *)
LEMMA StacksOfActs ==
  ASSUME IsProgram(prog)
  PROVE  /\ Visits \subseteq Acts(prog) /\ Tasks \subseteq Acts(prog)
         /\ \A s \in Seq(Visits) : s \in Seq(Acts(prog))
         /\ \A s \in Seq(Tasks) : s \in Seq(Acts(prog))
<1>1. Ids \cup {nullptr} = 0 .. Len(prog.node)
  BY ProgramNodes DEF Ids, nullptr
<1>2. Visits \subseteq Acts(prog) /\ Tasks \subseteq Acts(prog)
  BY <1>1 DEF Visits, Tasks, Acts
<1>3. Seq(Visits) \subseteq Seq(Acts(prog)) /\ Seq(Tasks) \subseteq Seq(Acts(prog))
  BY <1>2, SeqMonotonic
<1>4. QED
  BY <1>2, <1>3

(* Every statement of the root is evaluated, then printed: that owes what   *)
(* the whole program does.                                                 *)
LEMMA RootTasks ==
  ASSUME IsProgram(prog)
  PROVE  LET L == Len(prog.root) IN
           Owed(prog, [i \in 1 .. 2 * L |-> Task(IF i % 2 = 1 THEN "eval" ELSE "print",
                                                 prog.root[(i + 1) \div 2])])
             = Total(prog)
<1>. DEFINE L == Len(prog.root)
            t1 == [i \in 1 .. L |-> Visit("check", prog.root[i])]
            t2 == [i \in 1 .. 2 * L |-> Task(IF i % 2 = 1 THEN "eval" ELSE "print",
                                             prog.root[(i + 1) \div 2])]
            o1 == OwedBy(prog, t1)
            o2 == OwedBy(prog, t2)
<1>1. L \in Nat /\ \A i \in 1 .. L : prog.root[i] \in 0 .. Len(prog.node)
  BY LenProperties, ElementOfSeq DEF IsProgram
<1>. HIDE DEF L
<1>2. t1 \in Seq(Acts(prog)) /\ Len(t1) = L
  <2>1. \A i \in 1 .. L : Visit("check", prog.root[i]) \in Acts(prog)
    BY <1>1 DEF Visit, Acts
  <2>2. t1 \in Seq(Acts(prog))
    BY <1>1, <2>1, IsASeq
  <2>3. QED
    BY <1>1, <2>2
<1>3. /\ t2 \in Seq(Acts(prog)) /\ Len(t2) = 2 * L
      /\ \A j \in 1 .. L : /\ t2[2 * j - 1] = Task("eval", prog.root[j])
                           /\ t2[2 * j] = Task("print", prog.root[j])
  <2>. DEFINE e(i) == Task(IF i % 2 = 1 THEN "eval" ELSE "print", prog.root[(i + 1) \div 2])
  <2>1. \A i \in 1 .. 2 * L : (i + 1) \div 2 \in 1 .. L
    BY <1>1
  <2>2. \A i \in 1 .. 2 * L : e(i) \in Acts(prog)
    BY <1>1, <2>1 DEF Task, Acts
  <2>3. 2 * L \in Nat
    BY <1>1
  <2>4. t2 = [i \in 1 .. 2 * L |-> e(i)]
    OBVIOUS
  <2>5. ASSUME NEW j \in 1 .. L
        PROVE  /\ e(2 * j - 1) = Task("eval", prog.root[j]) /\ 2 * j - 1 \in 1 .. 2 * L
               /\ e(2 * j) = Task("print", prog.root[j]) /\ 2 * j \in 1 .. 2 * L
    <3>1. /\ (2 * j - 1) % 2 = 1 /\ ((2 * j - 1) + 1) \div 2 = j
          /\ (2 * j) % 2 = 0 /\ (2 * j + 1) \div 2 = j
          /\ 2 * j - 1 \in 1 .. 2 * L /\ 2 * j \in 1 .. 2 * L
      BY <1>1
    <3>2. QED
      BY <3>1
  <2>. HIDE DEF e, t2
  <2>6. t2 \in Seq(Acts(prog))
    BY <2>2, <2>3, <2>4, IsASeq
  <2>7. Len(t2) = 2 * L
    BY <2>3, <2>4, <2>6, LenProperties
  <2>8. QED
    BY <2>4, <2>5, <2>6, <2>7
<1>. HIDE DEF t1, t2
<1>4. /\ o1[0] = Nothing
      /\ \A i \in 1 .. L : o1[i] = Then(Part(prog, t1[L - i + 1]), o1[i - 1])
  BY <1>2, OwedDefined
<1>5. /\ o2 \in [0 .. 2 * L -> Effects]
      /\ o2[0] = Nothing
      /\ \A i \in 1 .. 2 * L : o2[i] = Then(Part(prog, t2[2 * L - i + 1]), o2[i - 1])
  BY <1>3, OwedDefined
<1>. HIDE DEF o1, o2
<1>. DEFINE S == {i \in Nat : i <= L => o2[2 * i] = o1[i]}
<1>6. 0 \in S
  BY <1>4, <1>5
<1>7. ASSUME NEW i \in Nat, i \in S
      PROVE  i + 1 \in S
  <2>. DEFINE j == L - i
  <2>1. SUFFICES ASSUME i + 1 <= L
                 PROVE  o2[2 * (i + 1)] = o1[i + 1]
    OBVIOUS
  <2>2. j \in 1 .. L /\ o2[2 * i] = o1[i] /\ 2 * i \in 0 .. 2 * L
    BY <1>1, <1>7, <2>1
  <2>3. o1[i + 1] = Then(Part(prog, Visit("check", prog.root[j])), o1[i])
    <3>1. i + 1 \in 1 .. L /\ L - (i + 1) + 1 = j /\ (i + 1) - 1 = i
      BY <1>1, <2>1
    <3>2. t1[j] = Visit("check", prog.root[j])
      BY <2>2 DEF t1
    <3>3. QED
      BY <1>4, <3>1, <3>2
  <2>4. o2[2 * i + 1] = Then(Part(prog, Task("print", prog.root[j])), o2[2 * i])
    <3>1. /\ 2 * i + 1 \in 1 .. 2 * L /\ 2 * L - (2 * i + 1) + 1 = 2 * j
          /\ (2 * i + 1) - 1 = 2 * i
      BY <1>1, <2>1
    <3>2. QED
      BY <1>3, <1>5, <2>2, <3>1
  <2>5. o2[2 * (i + 1)] = Then(Part(prog, Task("eval", prog.root[j])), o2[2 * i + 1])
    <3>1. /\ 2 * (i + 1) \in 1 .. 2 * L /\ 2 * L - 2 * (i + 1) + 1 = 2 * j - 1
          /\ 2 * (i + 1) - 1 = 2 * i + 1
      BY <1>1, <2>1
    <3>2. QED
      BY <1>3, <1>5, <2>2, <3>1
  <2>6. /\ Part(prog, Task("print", prog.root[j])) = Nothing
        /\ Part(prog, Task("eval", prog.root[j])) = Part(prog, Visit("check", prog.root[j]))
    BY DEF Part, Task, Visit
  <2>7. Then(Nothing, o2[2 * i]) = o2[2 * i]
    BY <1>5, <2>2, ThenNothing
  <2>8. QED
    BY <2>2, <2>3, <2>4, <2>5, <2>6, <2>7
<1>8. \A i \in Nat : i \in S
  <2>. HIDE DEF S
  <2>1. QED
    BY <1>6, <1>7, SetInduction
<1>9. o2[2 * L] = o1[L]
  BY <1>1, <1>8
<1>10. Total(prog) = o1[L]
  BY <1>2 DEF Total, Owed, o1, t1, L
<1>11. Owed(prog, t2) = o2[2 * L]
  BY <1>3 DEF Owed, o2
<1>12. QED
  BY <1>9, <1>10, <1>11 DEF t2, L

-----------------------------------------------------------------------------
(* The type checker.                                                       *)

(* What every step of the type checker finds. *)
LEMMA CheckerHead ==
  ASSUME CompilerTypeOK, CheckerNext
  PROVE  /\ prog' = prog /\ IsProgram(prog) /\ Ids' = Ids
         /\ status = "checking" /\ status' \in {"checking", "out_of_range"}
         /\ visits # <<>> /\ visits \in Seq(Visits) /\ visits[1] \in Visits
         /\ visits[1].node \in Ids \cup {nullptr}
         /\ Tail(visits) \in Seq(Visits)
<1>1. /\ prog' = prog /\ Ids' = Ids
      /\ status = "checking" /\ status' \in {"checking", "out_of_range"}
      /\ visits # <<>>
  BY DEF CheckerNext, Descend, CheckNull, CheckNum, CheckAccess, ReturnBinop,
         ReturnUnryop, ReturnAssign, Visiting, Ids
<1>2. visits \in Seq(Visits) /\ IsProgram(prog)
  BY DEF CompilerTypeOK, CheckerTypeOK, Visits
<1>3. visits[1] \in Visits /\ Tail(visits) \in Seq(Visits)
  BY <1>1, <1>2, HeadOfStack
<1>4. QED
  BY <1>1, <1>2, <1>3 DEF Visits

(* The operands of a node are nodes before it. *)
LEMMA OperandsBefore ==
  ASSUME IsProgram(prog), NEW n \in Ids
  PROVE  OperandsOf(n) \subseteq Ids /\ n \notin OperandsOf(n)
<1>1. Len(prog.node) \in Nat
  BY ProgramNodes
<1>2. QED
  BY <1>1, NodeProperties, OperandProperties DEF OperandsOf, WellFormed, Node, Ids

(* The type of a node depends on its operands and on one name only. *)
LEMMA TypeOfKept ==
  ASSUME IsProgram(prog), prog' = prog, NEW n \in Ids,
         \A o \in OperandsOf(n) : value_type'[o] = value_type[o],
         Node(n).type = "ACCESS" => Scope'[Node(n).name] = Scope[Node(n).name]
  PROVE  TypeOf(n)' = TypeOf(n) /\ OperandsOf(n)' = OperandsOf(n)
<1>1. Node(n).type \in NodeTypes
  BY NodeProperties DEF Nodes
<1>2. Node(n)' = Node(n)
  BY DEF Node
<1>3. OperandsOf(n)' = OperandsOf(n)
  BY DEF OperandsOf, Node
<1>4. TypeOf(n)' = TypeOf(n)
  BY <1>1, <1>2 DEF TypeOf, OperandsOf, BinOpType, NodeTypes
<1>5. QED
  BY <1>3, <1>4

(* The actions of the checker that give a node its type. *)
Returning == CheckNum \/ CheckAccess \/ ReturnBinop \/ ReturnUnryop \/ ReturnAssign

(* They give it the type that follows from its operands, which have theirs. *)
LEMMA ReturnsTypeOf ==
  ASSUME CompilerTypeOK, TypesFollow, VisitsTyped, Returning, status' = "checking"
  PROVE  LET n == visits[1].node IN
           /\ n \in Ids
           /\ TypeOf(n) \in ValueTypes \ {"NONE"}
           /\ \A o \in OperandsOf(n) : Typed(o)
           /\ value_type' = [value_type EXCEPT ![n] = TypeOf(n)]
           /\ visits' = Tail(visits)
           /\ \A x \in Names : Bound(x) => Scope'[x] = Scope[x]
           /\ \A x \in Names : Scope'[x] # "NONE"
<1>. DEFINE n == visits[1].node
<1>1. CheckerNext
  BY DEF Returning, CheckerNext
<1>2. /\ n \in Ids \cup {nullptr} /\ IsProgram(prog) /\ prog' = prog
      /\ visits # <<>> /\ visits \in Seq(Visits)
  BY <1>1, CheckerHead
<1>3. n # nullptr
  BY DEF Returning, CheckNum, CheckAccess, ReturnBinop, ReturnUnryop, ReturnAssign, Visiting
<1>4. n \in Ids
  BY <1>2, <1>3
<1>5. /\ value_type \in [Ids -> ValueTypes]
      /\ Scope \in [Names -> ValueTypes \cup {"UNBOUND"}]
      /\ \A x \in Names : Scope[x] # "NONE"
  BY DEF CompilerTypeOK, CheckerTypeOK, TypesFollow
<1>6. WellFormed(prog.node, n) /\ OperandsOf(n) \subseteq Ids
  BY <1>2, <1>4, NodeProperties, OperandsBefore
<1>7. visits[1].do = "return" => \A o \in OperandsOf(n) : Typed(o)
  <2>1. 1 \in 1 .. Len(visits)
    BY <1>2, HeadOfStack
  <2>2. \A j \in 1 .. 1 - 1 : FALSE
    OBVIOUS
  <2>3. QED
    BY <2>1, <2>2 DEF VisitsTyped
<1>8. CASE CheckNum
  <2>1. Node(n).type = "NUM" /\ ReturnType(Node(n).op) /\ Scope' = Scope
    BY <1>8 DEF CheckNum, Visiting
  <2>2. TypeOf(n) = Node(n).op /\ OperandsOf(n) = {}
    BY <2>1 DEF TypeOf, OperandsOf
  <2>3. Node(n).op \in {"INT", "FLOAT"}
    BY <1>6, <2>1 DEF WellFormed, Node, NumberTokens
  <2>4. QED
    BY <1>4, <1>5, <2>1, <2>2, <2>3 DEF ReturnType, ValueTypes
<1>9. CASE CheckAccess
  <2>1. Node(n).type = "ACCESS" /\ Scope' = Scope
    BY <1>9 DEF CheckAccess, Visiting
  <2>2. Node(n).name \in Names
    BY <1>6, <2>1 DEF WellFormed, Node
  <2>3. Scope[Node(n).name] # "UNBOUND" /\ ReturnType(Scope[Node(n).name])
    BY <1>9, <2>1 DEF CheckAccess
  <2>4. TypeOf(n) = Scope[Node(n).name] /\ OperandsOf(n) = {}
    BY <2>1 DEF TypeOf, OperandsOf
  <2>5. QED
    BY <1>4, <1>5, <2>1, <2>2, <2>3, <2>4 DEF ReturnType
<1>10. CASE ReturnBinop
  <2>1. /\ Node(n).type = "BINOP" /\ ReturnType(BinOpType(Node(n))) /\ Scope' = Scope
        /\ visits[1].do = "return"
    BY <1>10 DEF ReturnBinop, Visiting
  <2>2. TypeOf(n) = BinOpType(Node(n))
    BY <2>1 DEF TypeOf
  <2>3. BinOpType(Node(n)) \in ValueTypes \ {"NONE"}
    BY DEF BinOpType, ArithType, ValueTypes
  <2>4. QED
    BY <1>4, <1>5, <1>7, <2>1, <2>2, <2>3 DEF ReturnType
<1>11. CASE ReturnUnryop
  <2>. DEFINE t == IF Node(n).op = "NOT" THEN "INT" ELSE value_type[Node(n).right]
  <2>1. /\ Node(n).type = "UNRYOP" /\ ReturnType(t) /\ Scope' = Scope
        /\ visits[1].do = "return"
    BY <1>11 DEF ReturnUnryop, Visiting
  <2>2. TypeOf(n) = t /\ OperandsOf(n) = {Node(n).right}
    BY <2>1 DEF TypeOf, OperandsOf
  <2>3. Typed(Node(n).right) /\ Node(n).right \in Ids
    BY <1>6, <1>7, <2>1, <2>2
  <2>4. t \in ValueTypes \ {"NONE"}
    BY <1>5, <2>3 DEF Typed, ValueTypes
  <2>. HIDE DEF t
  <2>5. QED
    BY <1>4, <1>5, <1>7, <2>1, <2>2, <2>4 DEF ReturnType
<1>12. CASE ReturnAssign
  <2>. DEFINE t == value_type[Node(n).right]
  <2>1. /\ Node(n).type = "ASSIGN" /\ ReturnType(t) /\ Scope' = Emplace(Node(n).name, t)
        /\ visits[1].do = "return"
    BY <1>12 DEF ReturnAssign, Visiting
  <2>2. TypeOf(n) = t /\ OperandsOf(n) = {Node(n).right}
    BY <2>1 DEF TypeOf, OperandsOf
  <2>3. Typed(Node(n).right) /\ Node(n).right \in Ids
    BY <1>6, <1>7, <2>1, <2>2
  <2>4. t \in ValueTypes \ {"NONE"}
    BY <1>5, <2>3 DEF Typed, ValueTypes
  <2>. HIDE DEF t
  <2>5. \A x \in Names : Scope'[x] = IF x = Node(n).name /\ Scope[x] = "UNBOUND"
                                        THEN t ELSE Scope[x]
    BY <1>5, <2>1 DEF Emplace
  <2>6. QED
    BY <1>4, <1>5, <1>7, <2>1, <2>2, <2>4, <2>5 DEF ReturnType, Bound
<1>13. QED
  BY <1>8, <1>9, <1>10, <1>11, <1>12 DEF Returning

(* A node keeps the type it has, also when it is visited again. *)
LEMMA TypesKept ==
  ASSUME CompilerTypeOK, TypesFollow, VisitsTyped, Returning, status' = "checking"
  PROVE  /\ \A m \in Ids : Typed(m) => value_type'[m] = value_type[m]
         /\ \A m \in Ids : Typed(m) => Typed(m)'
         /\ value_type'[visits[1].node] # "NONE"
<1>. DEFINE n == visits[1].node
<1>1. /\ n \in Ids /\ TypeOf(n) \in ValueTypes \ {"NONE"}
      /\ value_type' = [value_type EXCEPT ![n] = TypeOf(n)]
  BY ReturnsTypeOf
<1>2. value_type \in [Ids -> ValueTypes]
  BY DEF CompilerTypeOK, CheckerTypeOK
<1>3. Typed(n) => value_type[n] = TypeOf(n)
  BY <1>1 DEF TypesFollow
<1>4. \A m \in Ids : value_type'[m] = IF m = n THEN TypeOf(n) ELSE value_type[m]
  BY <1>1, <1>2
<1>5. QED
  BY <1>1, <1>3, <1>4 DEF Typed

(* The types follow from each other after a return as before. *)
LEMMA TypesFollowStep ==
  ASSUME CompilerTypeOK, TypesFollow, VisitsTyped, Returning, status' = "checking"
  PROVE  TypesFollow'
<1>. DEFINE n == visits[1].node
<1>1. /\ n \in Ids /\ TypeOf(n) \in ValueTypes \ {"NONE"}
      /\ value_type' = [value_type EXCEPT ![n] = TypeOf(n)]
      /\ \A o \in OperandsOf(n) : Typed(o)
      /\ \A x \in Names : Bound(x) => Scope'[x] = Scope[x]
      /\ \A x \in Names : Scope'[x] # "NONE"
  BY ReturnsTypeOf
<1>2. prog' = prog /\ IsProgram(prog) /\ Ids' = Ids
  BY CheckerHead DEF Returning, CheckerNext
<1>3. value_type \in [Ids -> ValueTypes]
  BY DEF CompilerTypeOK, CheckerTypeOK
<1>4. /\ \A m \in Ids : Typed(m) => value_type'[m] = value_type[m]
      /\ \A m \in Ids : Typed(m) => Typed(m)'
  BY TypesKept
<1>5. ASSUME NEW m \in Ids, Typed(m)'
      PROVE  (\A o \in OperandsOf(m) : Typed(o))' /\ (value_type[m] = TypeOf(m))'
  <2>1. /\ \A o \in OperandsOf(m) : Typed(o)
        /\ value_type'[m] = TypeOf(m)
        /\ TypeOf(m) \in ValueTypes
    <3>1. CASE m = n
      BY <1>1, <1>3, <3>1
    <3>2. CASE m # n
      <4>1. value_type'[m] = value_type[m] /\ Typed(m)
        BY <1>1, <1>3, <1>5, <3>2 DEF Typed
      <4>2. QED
        BY <1>3, <4>1 DEF TypesFollow
    <3>3. QED
      BY <3>1, <3>2
  <2>2. \A o \in OperandsOf(m) : o \in Ids /\ value_type'[o] = value_type[o] /\ Typed(o)'
    BY <1>2, <1>4, <2>1, OperandsBefore
  <2>3. Node(m).type = "ACCESS" => Scope'[Node(m).name] = Scope[Node(m).name]
    <3>1. SUFFICES ASSUME Node(m).type = "ACCESS"
                   PROVE  Scope'[Node(m).name] = Scope[Node(m).name]
      OBVIOUS
    <3>2. TypeOf(m) = Scope[Node(m).name]
      BY <3>1 DEF TypeOf
    <3>3. Node(m).name \in Names /\ Scope[Node(m).name] # "UNBOUND"
      BY <1>2, <2>1, <3>1, <3>2, NodeProperties DEF WellFormed, Node, ValueTypes
    <3>4. QED
      BY <1>1, <3>3 DEF Bound
  <2>4. TypeOf(m)' = TypeOf(m) /\ OperandsOf(m)' = OperandsOf(m)
    BY <1>2, <2>2, <2>3, TypeOfKept
  <2>5. QED
    BY <2>1, <2>2, <2>4
<1>6. QED
  BY <1>1, <1>2, <1>5 DEF TypesFollow

(* A visit that ends leaves nothing without a type that is not to be        *)
(* visited.                                                                *)
LEMMA PopTyped ==
  ASSUME CompilerTypeOK, VisitsTyped, prog' = prog, visits # <<>>, visits' = Tail(visits),
         \A m \in Ids : Typed(m) => Typed(m)',
         visits[1].node = nullptr \/ value_type'[visits[1].node] # "NONE"
  PROVE  VisitsTyped'
<1>1. IsProgram(prog) /\ visits \in Seq(Visits)
  BY DEF CompilerTypeOK, CheckerTypeOK, Visits
<1>2. /\ Len(visits) \in Nat /\ Len(visits') = Len(visits) - 1
      /\ \A i \in 1 .. Len(visits') : i + 1 \in 1 .. Len(visits) /\ visits'[i] = visits[i + 1]
  BY <1>1, HeadOfStack
<1>3. ASSUME NEW o \in Ids, NEW k \in 0 .. Len(visits'),
             Typed(o) \/ \E j \in 1 .. k + 1 : visits[j].node = o
      PROVE  Typed(o)' \/ \E j \in 1 .. k : visits'[j].node = o
  <2>1. CASE Typed(o)
    BY <2>1
  <2>2. CASE \E j \in 1 .. k + 1 : visits[j].node = o
    <3>1. PICK j \in 1 .. k + 1 : visits[j].node = o
      BY <2>2
    <3>2. CASE j = 1
      <4>1. o # nullptr
        BY DEF Ids, nullptr
      <4>2. QED
        BY <3>1, <3>2, <4>1 DEF Typed
    <3>3. CASE j # 1
      <4>1. j - 1 \in 1 .. k /\ j - 1 \in 1 .. Len(visits') /\ (j - 1) + 1 = j
        BY <1>2, <3>3
      <4>2. visits'[j - 1].node = o
        BY <1>2, <3>1, <4>1
      <4>3. QED
        BY <4>1, <4>2
    <3>4. QED
      BY <3>2, <3>3
  <2>3. QED
    BY <1>3, <2>1, <2>2
<1>4. ASSUME NEW k \in 1 .. Len(visits'), visits'[k].do = "return"
      PROVE  /\ visits'[k].node # nullptr
             /\ \A o \in OperandsOf(visits'[k].node) :
                  Typed(o)' \/ \E j \in 1 .. k - 1 : visits'[j].node = o
  <2>1. k + 1 \in 1 .. Len(visits) /\ visits'[k] = visits[k + 1] /\ visits[k + 1].do = "return"
    BY <1>2, <1>4
  <2>2. /\ visits[k + 1].node # nullptr
        /\ \A o \in OperandsOf(visits[k + 1].node) :
             Typed(o) \/ \E j \in 1 .. (k + 1) - 1 : visits[j].node = o
    BY <2>1 DEF VisitsTyped
  <2>3. visits[k + 1].node \in Ids
    <3>1. visits[k + 1] \in Visits
      BY <1>1, <2>1, ElementOfSeq
    <3>2. QED
      BY <2>2, <3>1 DEF Visits
  <2>4. OperandsOf(visits[k + 1].node) \subseteq Ids
    BY <1>1, <2>3, OperandsBefore
  <2>5. k - 1 \in 0 .. Len(visits') /\ (k - 1) + 1 = (k + 1) - 1
    BY <1>2
  <2>6. ASSUME NEW o \in OperandsOf(visits[k + 1].node)
        PROVE  Typed(o)' \/ \E j \in 1 .. k - 1 : visits'[j].node = o
    <3>1. o \in Ids /\ (Typed(o) \/ \E j \in 1 .. (k - 1) + 1 : visits[j].node = o)
      BY <2>2, <2>4, <2>5
    <3>2. QED
      BY <1>3, <2>5, <3>1
  <2>7. QED
    BY <2>1, <2>2, <2>6
<1>5. ASSUME NEW i \in 1 .. Len(prog.root)
      PROVE  \/ prog.root[i] = nullptr
             \/ Typed(prog.root[i])'
             \/ \E j \in 1 .. Len(visits') : visits'[j].node = prog.root[i]
  <2>1. SUFFICES ASSUME prog.root[i] # nullptr
                 PROVE  \/ Typed(prog.root[i])'
                        \/ \E j \in 1 .. Len(visits') : visits'[j].node = prog.root[i]
    OBVIOUS
  <2>2. prog.root[i] \in Ids
    <3>1. prog.root[i] \in 0 .. Len(prog.node) /\ Len(prog.node) \in Nat
      BY <1>1, ElementOfSeq, ProgramNodes DEF IsProgram
    <3>2. QED
      BY <2>1, <3>1 DEF Ids, nullptr
  <2>3. Typed(prog.root[i]) \/ \E j \in 1 .. Len(visits) : visits[j].node = prog.root[i]
    BY <2>1 DEF VisitsTyped
  <2>4. Len(visits') \in 0 .. Len(visits') /\ Len(visits') + 1 = Len(visits)
    <3>1. Len(visits) # 0
      BY <1>1, EmptySeq
    <3>2. QED
      BY <1>2, <3>1
  <2>5. QED
    BY <1>3, <2>2, <2>3, <2>4, SMTT(30)
<1>6. OperandsOf(nullptr)' = OperandsOf(nullptr) /\ \A m : OperandsOf(m)' = OperandsOf(m)
  BY DEF OperandsOf, Node
<1>7. QED
  BY <1>4, <1>5, <1>6 DEF VisitsTyped

(* The visits of the operands come before the return of their node. *)
LEMMA CallsVisitOperands ==
  ASSUME IsProgram(prog), NEW n \in Ids, Node(n).type \in {"BINOP", "UNRYOP", "ASSIGN"}
  PROVE  LET new == Calls(n) \o <<Visit("return", n)>> IN
           /\ new \in Seq(Visits) /\ Len(new) \in {2, 3}
           /\ new[Len(new)] = Visit("return", n)
           /\ \A i \in 1 .. Len(new) - 1 : new[i].do = "check"
           /\ \A o \in OperandsOf(n) : \E i \in 1 .. Len(new) - 1 : new[i].node = o
<1>. DEFINE l   == Visit("check", Node(n).left)
            r   == Visit("check", Node(n).right)
            ret == Visit("return", n)
            new == Calls(n) \o <<ret>>
<1>1. new \in Seq(Visits)
  <2>1. Calls(n) \in Seq(Visits)
    BY CallsType
  <2>2. ret \in Visits
    BY DEF Visit, Visits
  <2>3. <<ret>> \in Seq(Visits)
    BY <2>2
  <2>4. QED
    BY <2>1, <2>3, ConcatProperties
<1>2. \/ Node(n).type = "BINOP" /\ new = <<l, r, ret>>
      \/ Node(n).type \in {"UNRYOP", "ASSIGN"} /\ new = <<r, ret>>
      \/ Node(n).type = "UNRYOP" /\ new = <<r, r, ret>>
  BY CallsShape
<1>. HIDE DEF new
<1>3. CASE Node(n).type = "BINOP" /\ new = <<l, r, ret>>
  <2>1. /\ Len(new) = 3 /\ new[1] = l /\ new[2] = r /\ new[3] = ret
        /\ OperandsOf(n) = {Node(n).left, Node(n).right}
    BY <1>3 DEF OperandsOf
  <2>2. QED
    BY <1>1, <2>1 DEF Visit, new
<1>4. CASE Node(n).type \in {"UNRYOP", "ASSIGN"} /\ new = <<r, ret>>
  <2>1. /\ Len(new) = 2 /\ new[1] = r /\ new[2] = ret
        /\ OperandsOf(n) = {Node(n).right}
    BY <1>4 DEF OperandsOf
  <2>2. QED
    BY <1>1, <2>1 DEF Visit, new
<1>5. CASE Node(n).type = "UNRYOP" /\ new = <<r, r, ret>>
  <2>1. /\ Len(new) = 3 /\ new[1] = r /\ new[2] = r /\ new[3] = ret
        /\ OperandsOf(n) = {Node(n).right}
    BY <1>5 DEF OperandsOf
  <2>2. QED
    BY <1>1, <2>1 DEF Visit, new
<1>6. QED
  BY <1>2, <1>3, <1>4, <1>5

(* Nothing is forgotten when the checker goes down to the operands. *)
LEMMA DescendTyped ==
  ASSUME CompilerTypeOK, VisitsTyped, Descend
  PROVE  VisitsTyped'
<1>. DEFINE n == visits[1].node
            new == Calls(n) \o <<Visit("return", n)>>
            N == Len(new)
<1>1. /\ prog' = prog /\ IsProgram(prog) /\ value_type' = value_type
      /\ visits \in Seq(Visits) /\ visits # <<>> /\ visits' = new \o Tail(visits)
      /\ n \in Ids /\ n # nullptr /\ Node(n).type \in {"BINOP", "UNRYOP", "ASSIGN"}
  BY CheckerHead DEF Descend, CheckerNext, Visiting
<1>2. /\ new \in Seq(Visits) /\ N \in {2, 3} /\ new[N] = Visit("return", n)
      /\ \A i \in 1 .. N - 1 : new[i].do = "check"
      /\ \A o \in OperandsOf(n) : \E i \in 1 .. N - 1 : new[i].node = o
  BY <1>1, CallsVisitOperands
<1>. HIDE DEF new
<1>3. /\ Len(visits) \in Nat /\ Tail(visits) \in Seq(Visits) /\ Len(Tail(visits)) = Len(visits) - 1
      /\ Len(visits) >= 1
      /\ \A i \in 1 .. Len(visits) - 1 : Tail(visits)[i] = visits[i + 1]
  <2>1. Len(visits) # 0
    BY <1>1, EmptySeq
  <2>2. QED
    BY <1>1, <2>1, HeadOfStack
<1>4. /\ Len(visits') = N + Len(visits) - 1
      /\ \A i \in 1 .. N : visits'[i] = new[i]
      /\ \A i \in 2 .. Len(visits) : visits'[i + N - 1] = visits[i]
  <2>1. /\ Len(visits') = N + Len(Tail(visits))
        /\ \A i \in 1 .. N + Len(Tail(visits)) :
             visits'[i] = IF i <= N THEN new[i] ELSE Tail(visits)[i - N]
    BY <1>1, <1>2, <1>3, ConcatProperties
  <2>2. \A i \in 1 .. N : i \in 1 .. N + Len(Tail(visits)) /\ i <= N
    BY <1>2, <1>3
  <2>3. ASSUME NEW i \in 2 .. Len(visits)
        PROVE  visits'[i + N - 1] = visits[i]
    <3>1. /\ i + N - 1 \in 1 .. N + Len(Tail(visits)) /\ ~ (i + N - 1 <= N)
          /\ (i + N - 1) - N = i - 1 /\ i - 1 \in 1 .. Len(visits) - 1 /\ (i - 1) + 1 = i
      BY <1>2, <1>3
    <3>2. visits'[i + N - 1] = Tail(visits)[i - 1]
      BY <2>1, <3>1
    <3>3. QED
      BY <1>3, <3>1, <3>2
  <2>4. QED
    BY <1>3, <2>1, <2>2, <2>3
<1>5. \A m : Typed(m)' = Typed(m) /\ OperandsOf(m)' = OperandsOf(m)
  BY <1>1 DEF Typed, OperandsOf, Node
<1>6. ASSUME NEW j \in 1 .. Len(visits)
      PROVE  \E i \in 1 .. j + N - 1 : visits'[i].node = visits[j].node
  <2>1. CASE j = 1
    <3>1. N \in 1 .. N /\ j + N - 1 = N
      <4>1. N \in {2, 3}
        BY <1>2
      <4>2. QED
        BY <2>1, <4>1
    <3>2. visits'[N].node = n
      BY <1>2, <1>4, <3>1, SMTT(30) DEF Visit
    <3>3. QED
      BY <2>1, <3>1, <3>2
  <2>2. CASE j # 1
    <3>1. j \in 2 .. Len(visits) /\ j + N - 1 \in 1 .. j + N - 1
      BY <1>2, <1>3, <2>2
    <3>2. QED
      BY <1>4, <3>1
  <2>3. QED
    BY <2>1, <2>2
<1>7. ASSUME NEW k \in 1 .. Len(visits'), visits'[k].do = "return"
      PROVE  /\ visits'[k].node # nullptr
             /\ \A o \in OperandsOf(visits'[k].node) :
                  Typed(o) \/ \E j \in 1 .. k - 1 : visits'[j].node = o
  <2>1. CASE k \in 1 .. N
    <3>1. k = N
      <4>1. visits'[k] = new[k]
        BY <1>4, <2>1
      <4>2. k \in 1 .. N - 1 => new[k].do = "check"
        BY <1>2
      <4>3. QED
        BY <1>2, <1>7, <2>1, <4>1, <4>2
    <3>2. visits'[k].node = n
      BY <1>2, <1>4, <2>1, <3>1 DEF Visit
    <3>3. \A o \in OperandsOf(n) : \E j \in 1 .. k - 1 : visits'[j].node = o
      <4>1. \A j \in 1 .. N - 1 : j \in 1 .. N
        BY <1>2
      <4>2. QED
        BY <1>2, <1>4, <3>1, <4>1
    <3>4. QED
      BY <1>1, <3>2, <3>3
  <2>2. CASE k \notin 1 .. N
    <3>. DEFINE m == k - N + 1
    <3>1. m \in 2 .. Len(visits) /\ m \in 1 .. Len(visits) /\ k = m + N - 1
      BY <1>2, <1>3, <1>4, <2>2
    <3>2. visits'[k] = visits[m]
      BY <1>4, <3>1
    <3>3. /\ visits[m].node # nullptr
          /\ \A o \in OperandsOf(visits[m].node) :
               Typed(o) \/ \E j \in 1 .. m - 1 : visits[j].node = o
      BY <1>7, <3>1, <3>2 DEF VisitsTyped
    <3>4. \A j \in 1 .. m - 1 : /\ j \in 1 .. Len(visits)
                                /\ \A i \in 1 .. j + N - 1 : i \in 1 .. k - 1
      BY <1>2, <1>3, <3>1
    <3>5. ASSUME NEW o \in OperandsOf(visits[m].node), ~ Typed(o)
          PROVE  \E j \in 1 .. k - 1 : visits'[j].node = o
      <4>1. PICK j \in 1 .. m - 1 : visits[j].node = o
        BY <3>3, <3>5
      <4>2. PICK i \in 1 .. j + N - 1 : visits'[i].node = o
        BY <1>6, <3>4, <4>1
      <4>3. i \in 1 .. k - 1
        BY <3>4, <4>1, <4>2
      <4>4. QED
        BY <4>2, <4>3
    <3>6. QED
      BY <3>2, <3>3, <3>5
  <2>3. QED
    BY <2>1, <2>2
<1>8. ASSUME NEW i \in 1 .. Len(prog.root)
      PROVE  \/ prog.root[i] = nullptr
             \/ Typed(prog.root[i])
             \/ \E j \in 1 .. Len(visits') : visits'[j].node = prog.root[i]
  <2>1. \A j \in 1 .. Len(visits) : \A k \in 1 .. j + N - 1 : k \in 1 .. Len(visits')
    BY <1>2, <1>3, <1>4
  <2>2. QED
    BY <1>6, <2>1 DEF VisitsTyped
<1>9. QED
  BY <1>1, <1>5, <1>7, <1>8 DEF VisitsTyped

(* What a visit that ends has done to the names. *)
LEMMA ReturningPart ==
  ASSUME CompilerTypeOK, Returning
  PROVE  LET n == visits[1].node IN
           /\ CheckNum \/ ReturnBinop \/ ReturnUnryop => Part(prog, visits[1]) = Nothing
           /\ CheckAccess => /\ Node(n).name \in Names
                             /\ Part(prog, visits[1]) = Reading(Node(n).name)
           /\ ReturnAssign => /\ Node(n).name \in Names /\ n \in Nat \ {nullptr}
                              /\ Part(prog, visits[1]) = Binding(Node(n).name, n)
<1>. DEFINE n == visits[1].node
<1>1. n \in Ids \cup {nullptr} /\ IsProgram(prog) /\ visits[1] \in Visits
  BY CheckerHead DEF Returning, CheckerNext
<1>2. n # nullptr
  BY DEF Returning, CheckNum, CheckAccess, ReturnBinop, ReturnUnryop, ReturnAssign, Visiting
<1>3. n \in Ids /\ n \in Nat /\ n \in 0 .. Len(prog.node)
  BY <1>1, <1>2, ProgramNodes DEF Ids
<1>4. WalkOf(prog)[n] = NodeEffect(prog, WalkOf(prog), n)
  BY <1>1, <1>3, WalkDefined
<1>5. WellFormed(prog.node, n)
  BY <1>1, <1>3, NodeProperties
<1>6. CASE CheckNum
  <2>1. visits[1].do = "check" /\ Node(n).type = "NUM"
    BY <1>6 DEF CheckNum, Visiting
  <2>2. QED
    BY <1>2, <1>4, <2>1 DEF Part, NodeEffect, Node, CheckAccess, ReturnAssign, Visiting
<1>7. CASE CheckAccess
  <2>1. visits[1].do = "check" /\ Node(n).type = "ACCESS"
    BY <1>7 DEF CheckAccess, Visiting
  <2>2. Node(n).name \in Names
    BY <1>5, <2>1 DEF WellFormed, Node
  <2>3. Part(prog, visits[1]) = Reading(Node(n).name)
    BY <1>2, <1>4, <2>1 DEF Part, NodeEffect, Node
  <2>4. QED
    BY <2>1, <2>2, <2>3 DEF CheckNum, ReturnBinop, ReturnUnryop, ReturnAssign, Visiting
<1>8. CASE ReturnBinop \/ ReturnUnryop
  <2>1. visits[1].do = "return" /\ Node(n).type \in {"BINOP", "UNRYOP"}
    BY <1>8 DEF ReturnBinop, ReturnUnryop, Visiting
  <2>2. QED
    BY <1>2, <2>1 DEF Part, Node, CheckAccess, ReturnAssign, Visiting
<1>9. CASE ReturnAssign
  <2>1. visits[1].do = "return" /\ Node(n).type = "ASSIGN"
    BY <1>9 DEF ReturnAssign, Visiting
  <2>2. Node(n).name \in Names
    BY <1>5, <2>1 DEF WellFormed, Node
  <2>3. Part(prog, visits[1]) = Binding(Node(n).name, n)
    BY <1>2, <2>1 DEF Part, Node
  <2>4. QED
    BY <1>2, <1>3, <2>1, <2>2, <2>3
    DEF CheckNum, CheckAccess, ReturnBinop, ReturnUnryop, Visiting
<1>10. QED
  BY <1>6, <1>7, <1>8, <1>9 DEF Returning

(* A read before another walk. *)
LEMMA ThenAfterRead ==
  ASSUME NEW b \in Effects, NEW x \in Names
  PROVE  /\ Then(Reading(x), b).slots = b.slots
         /\ \A y \in Names : Then(Reading(x), b).first[y] = b.first[y]
         /\ Then(Reading(x), b).reads = {x} \cup b.reads
<1>1. b.slots \in Nat /\ b.reads \subseteq Names
  BY DEF Effects
<1>2. QED
  BY <1>1 DEF Then, Reading

(* A binding before another walk. *)
LEMMA ThenAfterBinding ==
  ASSUME NEW b \in Effects, NEW x \in Names, NEW n \in Nat \ {nullptr}
  PROVE  /\ Then(Binding(x, n), b).slots = 1 + b.slots
         /\ Then(Binding(x, n), b).first[x] = n
         /\ \A y \in Names \ {x} : Then(Binding(x, n), b).first[y] = b.first[y]
         /\ Then(Binding(x, n), b).reads = b.reads \ {x}
<1>1. b.slots \in Nat /\ b.reads \subseteq Names
  BY DEF Effects
<1>2. \A y \in Names : Binding(x, n).first[y] = IF y = x THEN n ELSE nullptr
  BY DEF Binding
<1>3. Then(Binding(x, n), b).reads = {y \in b.reads : Binding(x, n).first[y] = nullptr}
  BY DEF Then, Binding
<1>4. Then(Binding(x, n), b).reads = b.reads \ {x}
  BY <1>1, <1>2, <1>3
<1>5. \A y \in Names : Then(Binding(x, n), b).first[y] = IF y = x THEN n ELSE b.first[y]
  BY <1>2 DEF Then
<1>6. Then(Binding(x, n), b).slots = 1 + b.slots
  BY DEF Then, Binding
<1>7. QED
  BY <1>4, <1>5, <1>6

(* The program does a fixed thing. *)
LEMMA TotalType ==
  ASSUME IsProgram(prog)
  PROVE  Total(prog) \in Effects
<1>. DEFINE t1 == [i \in 1 .. Len(prog.root) |-> Visit("check", prog.root[i])]
<1>1. /\ Len(prog.root) \in Nat
      /\ \A i \in 1 .. Len(prog.root) : Visit("check", prog.root[i]) \in Acts(prog)
  BY LenProperties, ElementOfSeq DEF IsProgram, Visit, Acts
<1>2. t1 \in Seq(Acts(prog))
  BY <1>1, IsASeq
<1>3. QED
  BY <1>2, OwedType DEF Total

(* The names and the slots after an assignment. *)
LEMMA AssignStep ==
  ASSUME CompilerTypeOK, TypesFollow, VisitsTyped, ScopeFirst, CheckerInv,
         ReturnAssign, status' = "checking"
  PROVE  /\ ScopeFirst'
         /\ m_IntCount' + m_FloatCount' + m_PtrCount' = m_IntCount + m_FloatCount + m_PtrCount + 1
         /\ \A y \in Names : Bound(y)' <=> Bound(y) \/ y = Node(visits[1].node).name
<1>. DEFINE n == visits[1].node
            x == Node(n).name
            t == value_type[Node(n).right]
            T == Total(prog)
            rest == Owed(prog, visits)
<1>1. /\ prog' = prog /\ IsProgram(prog) /\ visits # <<>> /\ visits \in Seq(Visits) /\ Ids' = Ids
      /\ Tail(visits) \in Seq(Visits)
  BY CheckerHead DEF CheckerNext
<1>2. /\ Returning
      /\ Node(n).type = "ASSIGN"
      /\ Scope' = Emplace(x, t)
      /\ m_IntCount'   = m_IntCount   + (IF t = "INT" THEN 1 ELSE 0)
      /\ m_FloatCount' = m_FloatCount + (IF t = "FLOAT" THEN 1 ELSE 0)
      /\ m_PtrCount'   = m_PtrCount   + (IF t = "POINTER" THEN 1 ELSE 0)
  BY DEF Returning, ReturnAssign, Visiting
<1>3. /\ n \in Ids /\ TypeOf(n) \in ValueTypes \ {"NONE"}
      /\ value_type' = [value_type EXCEPT ![n] = TypeOf(n)]
  BY <1>2, ReturnsTypeOf
<1>4. t \in {"INT", "FLOAT", "POINTER"} /\ TypeOf(n) = t
  BY <1>2, <1>3 DEF TypeOf, ValueTypes
<1>5. /\ Scope \in [Names -> ValueTypes \cup {"UNBOUND"}] /\ value_type \in [Ids -> ValueTypes]
      /\ m_IntCount \in Nat /\ m_FloatCount \in Nat /\ m_PtrCount \in Nat
      /\ \A y \in Names : Scope[y] # "NONE"
  BY DEF CompilerTypeOK, CheckerTypeOK, TypesFollow
<1>6. x \in Names /\ n \in Nat \ {nullptr} /\ Part(prog, visits[1]) = Binding(x, n)
  BY <1>2, ReturningPart
<1>7. m_IntCount' + m_FloatCount' + m_PtrCount' = m_IntCount + m_FloatCount + m_PtrCount + 1
  BY <1>2, <1>4, <1>5
<1>8. \A y \in Names : Scope'[y] = IF y = x /\ Scope[y] = "UNBOUND" THEN t ELSE Scope[y]
  BY <1>2, <1>5 DEF Emplace
<1>9. \A y \in Names : Bound(y)' <=> Bound(y) \/ y = x
  BY <1>4, <1>8 DEF Bound
<1>10. rest.first[x] = n
  <2>1. visits \in Seq(Acts(prog)) /\ Tail(visits) \in Seq(Acts(prog))
    BY <1>1, StacksOfActs
  <2>2. rest = Then(Binding(x, n), Owed(prog, Tail(visits))) /\ Owed(prog, Tail(visits)) \in Effects
    BY <1>1, <1>6, <2>1, OwedHead, OwedType
  <2>3. QED
    BY <1>6, <2>2, ThenAfterBinding
<1>11. T' = T
  BY <1>1
<1>12. ASSUME NEW y \in Names, Bound(y)'
       PROVE  T.first[y] \in Ids /\ Scope'[y] = value_type'[T.first[y]]
  <2>1. CASE Bound(y)
    <3>1. T.first[y] \in Ids /\ Scope[y] = value_type[T.first[y]]
      BY <2>1 DEF ScopeFirst
    <3>2. Typed(T.first[y])
      BY <1>5, <3>1 DEF Typed
    <3>3. value_type'[T.first[y]] = value_type[T.first[y]]
      BY <1>2, <3>1, <3>2, TypesKept
    <3>4. QED
      BY <1>8, <2>1, <3>1, <3>3 DEF Bound
  <2>2. CASE ~ Bound(y)
    <3>1. y = x /\ T.first[x] = n
      BY <1>9, <1>10, <1>12, <2>2 DEF CheckerInv
    <3>2. value_type'[n] = t /\ Scope'[x] = t
      BY <1>3, <1>4, <1>5, <1>6, <1>8, <2>2, <3>1 DEF Bound
    <3>3. QED
      BY <1>3, <3>1, <3>2
  <2>3. QED
    BY <2>1, <2>2
<1>13. ScopeFirst'
  BY <1>1, <1>11, <1>12 DEF ScopeFirst
<1>14. QED
  BY <1>7, <1>9, <1>13

(* What the checker has done and what it still owes is the whole program,   *)
(* after a return as before.                                               *)
LEMMA ReturningStep ==
  ASSUME CompilerTypeOK, TypesFollow, VisitsTyped, ScopeFirst, CheckerInv,
         Returning, status' = "checking", UNCHANGED emitterVars
  PROVE  ScopeFirst' /\ CheckerInv'
<1>. DEFINE n == visits[1].node
            T == Total(prog)
            part == Part(prog, visits[1])
            rest == Owed(prog, visits)
            tail == Owed(prog, Tail(visits))
<1>1. /\ prog' = prog /\ IsProgram(prog) /\ visits # <<>> /\ visits \in Seq(Visits) /\ Ids' = Ids
      /\ Tail(visits) \in Seq(Visits)
  BY CheckerHead DEF Returning, CheckerNext
<1>2. visits' = Tail(visits)
  BY ReturnsTypeOf
<1>3. /\ visits \in Seq(Acts(prog)) /\ Tail(visits) \in Seq(Acts(prog))
      /\ rest = Then(part, tail) /\ tail \in Effects /\ T \in Effects /\ rest \in Effects
  <2>1. visits \in Seq(Acts(prog)) /\ Tail(visits) \in Seq(Acts(prog))
    BY <1>1, StacksOfActs
  <2>2. QED
    BY <1>1, <2>1, OwedHead, OwedType, TotalType
<1>4. T' = T /\ Owed(prog, visits)' = tail
  BY <1>1, <1>2
<1>5. /\ T.slots <= m_IntCount + m_FloatCount + m_PtrCount + rest.slots
      /\ \A x \in Names : ~ Bound(x) => rest.first[x] = T.first[x]
      /\ T.reads = {x \in rest.reads : ~ Bound(x)}
      /\ m_BPOffset' = 4
      /\ \A x \in Names : m_VarTable'[x].offset = 0
  BY DEF CheckerInv, emitterVars
<1>6. /\ T.slots \in Nat /\ T.reads \subseteq Names /\ tail.slots \in Nat
      /\ m_IntCount \in Nat /\ m_FloatCount \in Nat /\ m_PtrCount \in Nat
  BY <1>3 DEF CompilerTypeOK, CheckerTypeOK, Effects
<1>7. Scope' = Scope => ScopeFirst'
  <2>1. SUFFICES ASSUME Scope' = Scope, NEW y \in Names, Bound(y)
                 PROVE  T.first[y] \in Ids /\ Scope[y] = value_type'[T.first[y]]
    BY <1>1, <1>4 DEF ScopeFirst, Bound
  <2>2. T.first[y] \in Ids /\ Scope[y] = value_type[T.first[y]]
    BY <2>1 DEF ScopeFirst
  <2>3. Typed(T.first[y])
    BY <2>2 DEF Typed, TypesFollow
  <2>4. value_type'[T.first[y]] = value_type[T.first[y]]
    BY <2>2, <2>3, TypesKept
  <2>5. QED
    BY <2>2, <2>4
<1>. HIDE DEF T, rest, tail
<1>8. CASE CheckNum \/ ReturnBinop \/ ReturnUnryop
  <2>1. UNCHANGED <<Scope, m_IntCount, m_FloatCount, m_PtrCount>>
    BY <1>8 DEF CheckNum, ReturnBinop, ReturnUnryop
  <2>2. rest = tail
    BY <1>3, <1>8, ReturningPart, ThenNothing
  <2>3. CheckerInv'
    BY <1>4, <1>5, <2>1, <2>2 DEF CheckerInv, Bound, T, tail
  <2>4. QED
    BY <1>7, <2>1, <2>3
<1>9. CASE CheckAccess
  <2>. DEFINE x == Node(n).name
  <2>1. UNCHANGED <<Scope, m_IntCount, m_FloatCount, m_PtrCount>>
    BY <1>9 DEF CheckAccess
  <2>2. Bound(x)
    BY <1>9 DEF CheckAccess, Bound
  <2>3. x \in Names /\ part = Reading(x)
    BY <1>9, ReturningPart
  <2>. HIDE DEF x, part
  <2>4. /\ rest.slots = tail.slots
        /\ \A y \in Names : rest.first[y] = tail.first[y]
        /\ rest.reads = {x} \cup tail.reads
    BY <1>3, <2>3, ThenAfterRead
  <2>5. T.reads = {y \in tail.reads : ~ Bound(y)}
    BY <1>5, <2>2, <2>4
  <2>6. CheckerInv'
    BY <1>4, <1>5, <2>1, <2>4, <2>5 DEF CheckerInv, Bound, T, tail
  <2>7. QED
    BY <1>7, <2>1, <2>6
<1>10. CASE ReturnAssign
  <2>. DEFINE x == Node(n).name
  <2>1. /\ ScopeFirst'
        /\ m_IntCount' + m_FloatCount' + m_PtrCount' = m_IntCount + m_FloatCount + m_PtrCount + 1
        /\ \A y \in Names : Bound(y)' <=> Bound(y) \/ y = x
    BY <1>10, AssignStep
  <2>2. x \in Names /\ n \in Nat \ {nullptr} /\ part = Binding(x, n)
    BY <1>10, ReturningPart
  <2>. HIDE DEF x, n, part
  <2>3. /\ rest.slots = 1 + tail.slots
        /\ \A y \in Names \ {x} : rest.first[y] = tail.first[y]
        /\ rest.reads = tail.reads \ {x}
    BY <1>3, <2>2, ThenAfterBinding
  <2>4. T.slots <= m_IntCount' + m_FloatCount' + m_PtrCount' + tail.slots
    BY <1>5, <1>6, <2>1, <2>3
  <2>5. \A y \in Names : ~ Bound(y)' => tail.first[y] = T.first[y]
    BY <1>5, <2>1, <2>3
  <2>6. T.reads = {y \in tail.reads : ~ Bound(y)'}
    <3>1. tail.reads \subseteq Names
      BY <1>3 DEF Effects
    <3>2. QED
      BY <1>5, <2>1, <2>3, <3>1
  <2>7. CheckerInv'
    BY <1>4, <1>5, <2>4, <2>5, <2>6 DEF CheckerInv, T, tail
  <2>8. QED
    BY <2>1, <2>7
<1>11. QED
  BY <1>8, <1>9, <1>10 DEF Returning

(* A step that leaves the types alone leaves what follows from them. *)
LEMMA TypesUnchanged ==
  ASSUME UNCHANGED <<prog, value_type, Scope>>
  PROVE  /\ TypesFollow' <=> TypesFollow
         /\ ScopeFirst' <=> ScopeFirst
         /\ \A m : Typed(m)' <=> Typed(m)
<1>1. /\ Ids' = Ids
      /\ \A m : /\ Typed(m)' <=> Typed(m)
                /\ OperandsOf(m)' = OperandsOf(m)
                /\ TypeOf(m)' = TypeOf(m)
  BY DEF Ids, Typed, OperandsOf, TypeOf, Node, BinOpType
<1>2. \A x : Bound(x)' <=> Bound(x)
  BY DEF Bound
<1>3. TypesFollow' <=> TypesFollow
  BY <1>1 DEF TypesFollow
<1>4. ScopeFirst' <=> ScopeFirst
  BY <1>1, <1>2 DEF ScopeFirst
<1>5. QED
  BY <1>1, <1>3, <1>4

(* Every step of the checker keeps the invariant of the passes. *)
LEMMA CheckerPasses ==
  ASSUME CompilerTypeOK, EffectInv, CheckerNext, UNCHANGED emitterVars
  PROVE  EffectInv'
<1>. DEFINE n == visits[1].node
            T == Total(prog)
            rest == Owed(prog, visits)
            tail == Owed(prog, Tail(visits))
<1>1. /\ prog' = prog /\ IsProgram(prog) /\ Ids' = Ids
      /\ status = "checking" /\ status' \in {"checking", "out_of_range"}
      /\ visits # <<>> /\ visits \in Seq(Visits) /\ visits[1] \in Visits
      /\ n \in Ids \cup {nullptr}
      /\ Tail(visits) \in Seq(Visits)
  BY CheckerHead
<1>2. TypesFollow /\ ScopeFirst /\ VisitsTyped /\ CheckerInv
  BY <1>1 DEF EffectInv
<1>3. /\ visits \in Seq(Acts(prog)) /\ Tail(visits) \in Seq(Acts(prog))
      /\ rest = Then(Part(prog, visits[1]), tail) /\ tail \in Effects
  <2>1. visits \in Seq(Acts(prog)) /\ Tail(visits) \in Seq(Acts(prog))
    BY <1>1, StacksOfActs
  <2>2. QED
    BY <1>1, <2>1, OwedHead, OwedType
<1>4. CASE status' = "out_of_range"
  <2>1. UNCHANGED <<prog, value_type, Scope>>
    BY <1>1, <1>4 DEF CheckerNext, Descend, CheckNull, CheckNum, CheckAccess, ReturnBinop,
                      ReturnUnryop, ReturnAssign
  <2>2. CheckAccess /\ Scope[Node(n).name] = "UNBOUND"
    BY <1>1, <1>4 DEF CheckerNext, Descend, CheckNull, CheckNum, CheckAccess, ReturnBinop,
                      ReturnUnryop, ReturnAssign
  <2>3. Node(n).name \in Names /\ Part(prog, visits[1]) = Reading(Node(n).name)
    BY <2>2, ReturningPart DEF Returning
  <2>4. Node(n).name \in rest.reads /\ ~ Bound(Node(n).name)
    BY <1>3, <2>2, <2>3, ThenAfterRead DEF Bound
  <2>5. T.reads # {} /\ T' = T
    BY <1>1, <1>2, <2>4 DEF CheckerInv
  <2>6. UnboundFound'
    BY <1>4, <2>5 DEF UnboundFound
  <2>7. TypesFollow' /\ ScopeFirst'
    BY <1>2, <2>1, TypesUnchanged
  <2>8. QED
    BY <1>4, <2>6, <2>7 DEF EffectInv
<1>5. CASE CheckNull
  <2>1. /\ UNCHANGED <<prog, value_type, Scope, m_IntCount, m_FloatCount, m_PtrCount>>
        /\ n = nullptr /\ visits' = Tail(visits) /\ status' = "checking"
    BY <1>5 DEF CheckNull
  <2>2. /\ TypesFollow' /\ ScopeFirst' /\ \A m \in Ids : Typed(m) => Typed(m)'
        /\ \A x : Bound(x)' <=> Bound(x)
    BY <1>2, <2>1, TypesUnchanged DEF Bound
  <2>3. VisitsTyped'
    BY <1>1, <1>2, <2>1, <2>2, PopTyped
  <2>4. Part(prog, visits[1]) = Nothing
    <3>1. nullptr \in 0 .. Len(prog.node)
      BY <1>1, ProgramNodes DEF nullptr
    <3>2. WalkOf(prog)[nullptr] = NodeEffect(prog, WalkOf(prog), nullptr)
      BY <1>1, <3>1, WalkDefined
    <3>3. QED
      BY <2>1, <3>2 DEF Part, NodeEffect
  <2>5. rest = tail
    BY <1>3, <2>4, ThenNothing
  <2>6. CheckerInv'
    <3>. HIDE DEF rest, tail, T
    <3>1. T' = T /\ Owed(prog, visits)' = rest
      BY <1>1, <2>1, <2>5 DEF T, tail
    <3>2. QED
      BY <1>2, <2>1, <2>2, <3>1 DEF CheckerInv, emitterVars, rest, T
  <2>7. QED
    BY <2>1, <2>2, <2>3, <2>6 DEF EffectInv, UnboundFound
<1>6. CASE Descend
  <2>1. /\ UNCHANGED <<prog, value_type, Scope, m_IntCount, m_FloatCount, m_PtrCount>>
        /\ visits[1].do = "check" /\ n # nullptr /\ status' = "checking"
        /\ Node(n).type \in {"BINOP", "UNRYOP", "ASSIGN"}
        /\ visits' = Calls(n) \o <<Visit("return", n)>> \o Tail(visits)
    BY <1>6 DEF Descend, Visiting
  <2>2. TypesFollow' /\ ScopeFirst' /\ \A x : Bound(x)' <=> Bound(x)
    BY <1>2, <2>1, TypesUnchanged DEF Bound
  <2>3. VisitsTyped'
    BY <1>2, <1>6, DescendTyped
  <2>4. n \in Ids /\ Part(prog, visits[1]) = WalkOf(prog)[n]
    BY <1>1, <2>1 DEF Part
  <2>. DEFINE next == Owed(prog, visits')
  <2>5. Covers(next, rest) /\ next \in Effects
    <3>1. /\ visits' \in Seq(Acts(prog))
          /\ Covers(next, Then(WalkOf(prog)[n], tail))
      BY <1>1, <1>3, <2>1, <2>4, OwedCalls
    <3>2. QED
      BY <1>1, <1>3, <2>4, <3>1, OwedType
  <2>6. CheckerInv'
    <3>1. rest \in Effects /\ T \in Effects
      BY <1>1, <1>3, OwedType, TotalType
    <3>. HIDE DEF rest, tail, T, next
    <3>2. /\ rest.slots \in Nat /\ next.slots \in Nat /\ T.slots \in Nat
          /\ m_IntCount \in Nat /\ m_FloatCount \in Nat /\ m_PtrCount \in Nat
      BY <2>5, <3>1 DEF Effects, CompilerTypeOK, CheckerTypeOK
    <3>3. T' = T /\ Owed(prog, visits)' = next
      BY <1>1 DEF T, next
    <3>4. T.slots <= m_IntCount' + m_FloatCount' + m_PtrCount' + next.slots
      BY <1>2, <2>1, <2>5, <3>2 DEF CheckerInv, Covers, rest, T
    <3>5. QED
      BY <1>2, <2>1, <2>2, <2>5, <3>3, <3>4 DEF CheckerInv, emitterVars, Covers, rest, T
  <2>7. QED
    BY <2>1, <2>2, <2>3, <2>6 DEF EffectInv, UnboundFound
<1>7. CASE Returning /\ status' = "checking"
  <2>1. TypesFollow'
    BY <1>2, <1>7, TypesFollowStep
  <2>2. VisitsTyped'
    <3>1. /\ \A m \in Ids : Typed(m) => Typed(m)'
          /\ value_type'[visits[1].node] # "NONE"
      BY <1>2, <1>7, TypesKept
    <3>2. visits' = Tail(visits)
      BY <1>2, <1>7, ReturnsTypeOf
    <3>3. QED
      BY <1>1, <1>2, <3>1, <3>2, PopTyped
  <2>3. ScopeFirst' /\ CheckerInv'
    BY <1>2, <1>7, ReturningStep
  <2>4. QED
    BY <1>7, <2>1, <2>2, <2>3 DEF EffectInv, UnboundFound
<1>8. QED
  BY <1>1, <1>4, <1>5, <1>6, <1>7 DEF CheckerNext, Returning

(* The invariant of the passes at the start. *)
LEMMA EffectInit ==
  ASSUME CompilerInit
  PROVE  EffectInv
<1>. DEFINE T == Total(prog)
<1>1. CompilerTypeOK /\ IsProgram(prog)
  BY CompilerTypeInit DEF CompilerTypeOK, CheckerTypeOK
<1>2. T \in Effects
  BY <1>1, TotalType
<1>3. /\ status = "checking"
      /\ visits = [i \in 1 .. Len(prog.root) |-> Visit("check", prog.root[i])]
      /\ \A n \in Ids : value_type[n] = "NONE"
      /\ \A x \in Names : Scope[x] = "UNBOUND" /\ m_VarTable[x].offset = 0
      /\ m_IntCount = 0 /\ m_FloatCount = 0 /\ m_PtrCount = 0 /\ m_BPOffset = 4
  BY DEF CompilerInit, CheckerInit
<1>4. Owed(prog, visits) = T
  BY <1>3 DEF Total
<1>5. TypesFollow /\ ScopeFirst
  BY <1>3 DEF TypesFollow, ScopeFirst, Typed, Bound
<1>6. VisitsTyped
  <2>1. Len(prog.root) \in Nat /\ Len(visits) = Len(prog.root)
    BY <1>1, <1>3, LenProperties DEF IsProgram
  <2>2. \A i \in 1 .. Len(visits) : visits[i].do = "check" /\ visits[i].node = prog.root[i]
    BY <1>3, <2>1 DEF Visit
  <2>3. QED
    BY <2>1, <2>2 DEF VisitsTyped
<1>7. CheckerInv
  <2>. HIDE DEF T
  <2>1. T.slots \in Nat /\ T.reads \subseteq Names
    BY <1>2 DEF Effects
  <2>2. QED
    BY <1>3, <1>4, <2>1 DEF CheckerInv, Bound, T
<1>8. QED
  BY <1>3, <1>5, <1>6, <1>7 DEF EffectInv, UnboundFound

-----------------------------------------------------------------------------
(* The code generator.                                                     *)

(* When the checker is done, the code generator owes the whole program.     *)
LEMMA BeginPasses ==
  ASSUME CompilerTypeOK, EffectInv, BeginMain
  PROVE  EffectInv'
<1>. DEFINE T == Total(prog)
<1>1. /\ UNCHANGED <<prog, value_type, Scope, m_IntCount, m_FloatCount, m_PtrCount,
                     m_VarTable, m_BPOffset>>
      /\ status = "checking" /\ status' = "emitting" /\ visits = <<>>
  BY DEF BeginMain
<1>2. IsProgram(prog) /\ TypesFollow /\ ScopeFirst /\ VisitsTyped /\ CheckerInv
  BY <1>1 DEF EffectInv, CompilerTypeOK, CheckerTypeOK
<1>3. TypesFollow' /\ ScopeFirst' /\ \A m : Typed(m)' <=> Typed(m)
  BY <1>1, <1>2, TypesUnchanged
<1>4. Len(visits) = 0 /\ Owed(prog, visits) = Nothing
  BY <1>1, <1>2, OwedType, EmptySeq
<1>5. \A i \in 1 .. Len(prog.root) : prog.root[i] = nullptr \/ Typed(prog.root[i])
  BY <1>2, <1>4 DEF VisitsTyped
<1>6. Owed(prog, todo') = T
  BY <1>2, RootTasks DEF BeginMain
<1>7. TodoTyped'
  <2>. DEFINE len == Len(prog.root)
  <2>1. len \in Nat
    BY <1>2, LenProperties DEF IsProgram
  <2>2. todo' \in Seq(Tasks)
    BY BeginMainType
  <2>3. DOMAIN todo' = 1 .. Len(todo')
    BY <2>2, LenProperties
  <2>4. DOMAIN todo' = 1 .. 2 * len /\ \A k \in 1 .. 2 * len : todo'[k].node = prog.root[(k + 1) \div 2]
    BY DEF BeginMain, Task
  <2>5. \A k \in 1 .. 2 * len : (k + 1) \div 2 \in 1 .. len
    BY <2>1
  <2>6. \A k \in 1 .. Len(todo') : todo'[k].node = nullptr \/ Typed(todo'[k].node)
    BY <1>5, <2>3, <2>4, <2>5
  <2>7. QED
    BY <1>1, <2>6 DEF TodoTyped, Typed
<1>8. EmitterInv' /\ UnboundFound'
  <2>1. T \in Effects /\ T' = T /\ Owed(prog, todo)' = T
    BY <1>1, <1>2, <1>6, TotalType
  <2>. HIDE DEF T
  <2>2. T.slots \in Nat /\ T.reads \subseteq Names
    BY <2>1 DEF Effects
  <2>3. /\ m_IntCount \in Nat /\ m_FloatCount \in Nat /\ m_PtrCount \in Nat
        /\ T.slots <= m_IntCount + m_FloatCount + m_PtrCount
        /\ T.reads = {}
        /\ m_BPOffset = 4
        /\ \A x \in Names : m_VarTable[x].offset = 0
    BY <1>2, <1>4, <2>2 DEF CheckerInv, CompilerTypeOK, CheckerTypeOK, Nothing, T
  <2>4. 4 * T.slots <= get_alloc_size'
    BY <1>1, <2>2, <2>3 DEF get_alloc_size
  <2>5. QED
    BY <1>1, <2>1, <2>2, <2>3, <2>4 DEF EmitterInv, UnboundFound, T
<1>9. QED
  BY <1>1, <1>3, <1>7, <1>8 DEF EffectInv

(* The steps of the code generator after the prologue. *)
EmitterSteps == PlainSteps \/ TestLeft \/ FinishLogic

(* What they leave alone. *)
LEMMA EmitterFrame ==
  ASSUME EmitterSteps
  PROVE  /\ UNCHANGED <<prog, value_type, Scope, m_IntCount, m_FloatCount, m_PtrCount, visits>>
         /\ status = "emitting"
         /\ status' = CASE FinishSub -> "assert"
                        [] PrintNullStatement -> "segfault"
                        [] EndMain -> "compiled"
                        [] OTHER -> "emitting"
         /\ ~ FinishAssign => UNCHANGED <<m_VarTable, m_BPOffset>>
<1>1. /\ UNCHANGED <<prog, value_type, Scope, m_IntCount, m_FloatCount, m_PtrCount, visits>>
      /\ status = "emitting"
  BY DEF EmitterSteps, PlainSteps, EvalOperands, EvalNumber, EvalAccess, EvalNull,
         FinishBinop, FinishArith, FinishCmp,
         FinishNot, FinishSub, FinishAssign, PrintStatement, PrintNullStatement, EndMain,
         TestLeft, FinishLogic, checkerVars, OnNode, Emitting
<1>2. ~ FinishAssign => UNCHANGED <<m_VarTable, m_BPOffset>>
  BY DEF EmitterSteps, PlainSteps, EvalOperands, EvalNumber, EvalAccess, EvalNull,
         FinishBinop, FinishArith, FinishCmp,
         FinishNot, FinishSub, PrintStatement, PrintNullStatement, EndMain,
         TestLeft, FinishLogic, emitterVars
<1>3. status' = CASE FinishSub -> "assert"
                  [] PrintNullStatement -> "segfault"
                  [] EndMain -> "compiled"
                  [] OTHER -> "emitting"
  BY DEF EmitterSteps, PlainSteps, EvalOperands, EvalNumber, EvalAccess, EvalNull,
         FinishBinop, FinishArith, FinishCmp,
         FinishNot, FinishSub, FinishAssign, PrintStatement, PrintNullStatement, EndMain,
         TestLeft, FinishLogic, checkerVars, OnNode, Emitting
<1>4. QED
  BY <1>1, <1>2, <1>3

(* What the step that ends an activation has done to the names. *)
LEMMA EmitterPart ==
  ASSUME CompilerTypeOK, EmitterSteps, todo # <<>>
  PROVE  LET n    == todo[1].node
             part == Part(prog, todo[1])
         IN  /\ EvalNumber \/ EvalNull \/ TestLeft \/ FinishLogic \/ FinishBinop \/ FinishNot
                   \/ PrintStatement => part = Nothing
             /\ EvalAccess => /\ Node(n).name \in Names
                              /\ part = Reading(Node(n).name)
             /\ FinishAssign => /\ Node(n).name \in Names /\ n \in Ids /\ n \in Nat \ {nullptr}
                                /\ part = Binding(Node(n).name, n)
             /\ EvalOperands => /\ n \in Ids /\ Node(n).type \in {"BINOP", "UNRYOP", "ASSIGN"}
                                /\ part = WalkOf(prog)[n]
<1>. DEFINE n == todo[1].node
            part == Part(prog, todo[1])
<1>1. n \in Ids \cup {nullptr} /\ IsProgram(prog)
  BY HeadTask DEF CompilerTypeOK, CheckerTypeOK
<1>2. n \in 0 .. Len(prog.node) /\ WalkOf(prog)[n] = NodeEffect(prog, WalkOf(prog), n)
  <2>1. n \in 0 .. Len(prog.node)
    BY <1>1, ProgramNodes DEF Ids, nullptr
  <2>2. QED
    BY <1>1, <2>1, WalkDefined
<1>3. n # nullptr => n \in Ids /\ n \in Nat /\ WellFormed(prog.node, n)
  <2>1. n # nullptr => n \in Ids
    BY <1>1
  <2>2. QED
    BY <1>1, <2>1, NodeProperties, ProgramNodes DEF Ids
<1>4. EvalNumber \/ EvalNull => part = Nothing
  BY <1>2 DEF EvalNumber, EvalNull, OnNode, Emitting, Part, NodeEffect, Node
<1>5. TestLeft \/ FinishLogic \/ FinishBinop \/ FinishNot \/ PrintStatement => part = Nothing
  BY DEF TestLeft, FinishLogic, FinishBinop, FinishArith, FinishCmp, FinishNot,
         PrintStatement, OnNode, Emitting,
         Part, Node
<1>6. EvalAccess => Node(n).name \in Names /\ part = Reading(Node(n).name)
  BY <1>2, <1>3 DEF EvalAccess, OnNode, Emitting, Part, NodeEffect, Node, WellFormed
<1>7. FinishAssign => /\ Node(n).name \in Names /\ n \in Ids /\ n \in Nat \ {nullptr}
                      /\ part = Binding(Node(n).name, n)
  BY <1>3 DEF FinishAssign, OnNode, Emitting, Part, Node, WellFormed
<1>8. EvalOperands => /\ n \in Ids /\ Node(n).type \in {"BINOP", "UNRYOP", "ASSIGN"}
                      /\ part = WalkOf(prog)[n]
  BY <1>3 DEF EvalOperands, OnNode, Emitting, Part
<1>9. QED
  BY <1>4, <1>5, <1>6, <1>7, <1>8

(* Every activation is at a node with a type, or at none. *)
LEMMA TodoTypedStep ==
  ASSUME CompilerTypeOK, TypesFollow, TodoTyped, EmitterSteps
  PROVE  TodoTyped'
<1>1. UNCHANGED <<prog, value_type, Scope>> /\ IsProgram(prog) /\ todo \in Seq(Tasks)
  BY EmitterFrame DEF CompilerTypeOK, CheckerTypeOK, Tasks
<1>2. \A m : Typed(m)' <=> Typed(m)
  BY <1>1 DEF Typed
<1>3. /\ \/ todo # <<>> /\ todo' = Tail(todo)
         \/ EvalOperands /\ todo # <<>> /\ todo' = Steps(todo[1].node) \o Tail(todo)
         \/ todo' = todo
      /\ todo' \in Seq(Tasks)
  BY TodoStep DEF EmitterSteps
<1>4. SUFFICES ASSUME NEW k \in 1 .. Len(todo')
               PROVE  todo'[k].node = nullptr \/ Typed(todo'[k].node)
  BY <1>1 DEF TodoTyped, Typed
<1>5. CASE todo # <<>> /\ todo' = Tail(todo)
  BY <1>1, <1>4, <1>5, HeadOfStack DEF TodoTyped
<1>6. CASE EvalOperands /\ todo # <<>> /\ todo' = Steps(todo[1].node) \o Tail(todo)
  <2>. DEFINE n == todo[1].node
              s == Steps(n)
              t == Tail(todo)
  <2>1. n \in Ids /\ Node(n).type \in {"BINOP", "UNRYOP", "ASSIGN"}
    BY <1>6, EmitterPart DEF EmitterSteps
  <2>2. Typed(n)
    <3>1. 1 \in 1 .. Len(todo)
      BY <1>1, <1>6, HeadOfStack
    <3>2. n # nullptr
      BY <2>1 DEF Ids, nullptr
    <3>3. QED
      BY <3>1, <3>2 DEF TodoTyped
  <2>3. \A o \in OperandsOf(n) : Typed(o)
    BY <2>1, <2>2 DEF TypesFollow
  <2>4. s \in Seq(Tasks) /\ t \in Seq(Tasks)
    BY <1>1, <1>6, <2>1, StepsType, HeadOfStack
  <2>5. \A i \in 1 .. Len(s) : Typed(s[i].node)
    <3>1. CASE Node(n).type = "BINOP"
      <4>1. Typed(Node(n).left) /\ Typed(Node(n).right)
        BY <2>3, <3>1 DEF OperandsOf
      <4>2. QED
        BY <2>2, <3>1, <4>1 DEF Steps, Task
    <3>2. CASE Node(n).type \in {"UNRYOP", "ASSIGN"}
      <4>1. Typed(Node(n).right)
        BY <2>3, <3>2 DEF OperandsOf
      <4>2. QED
        BY <2>2, <3>2, <4>1 DEF Steps, Task
    <3>3. QED
      BY <2>1, <3>1, <3>2
  <2>6. \A i \in 1 .. Len(t) : t[i].node = nullptr \/ Typed(t[i].node)
    BY <1>1, <1>6, HeadOfStack DEF TodoTyped
  <2>. HIDE DEF s, t
  <2>7. /\ Len(s) \in Nat /\ Len(t) \in Nat
        /\ todo' = s \o t /\ Len(todo') = Len(s) + Len(t)
        /\ \A i \in 1 .. Len(s) + Len(t) : todo'[i] = IF i <= Len(s) THEN s[i] ELSE t[i - Len(s)]
    BY <1>6, <2>4, ConcatProperties, LenProperties DEF s, t
  <2>8. CASE k <= Len(s)
    <3>1. k \in 1 .. Len(s) /\ todo'[k] = s[k]
      BY <2>7, <2>8
    <3>2. QED
      BY <2>5, <3>1
  <2>9. CASE ~ (k <= Len(s))
    <3>1. k - Len(s) \in 1 .. Len(t) /\ todo'[k] = t[k - Len(s)]
      BY <2>7, <2>9
    <3>2. QED
      BY <2>6, <3>1
  <2>10. QED
    BY <2>8, <2>9
<1>7. CASE todo' = todo
  BY <1>4, <1>7 DEF TodoTyped
<1>8. QED
  BY <1>3, <1>5, <1>6, <1>7

(* An assignment binds its name, if that has no slot, and takes the next.   *)
LEMMA FinishAssignStep ==
  ASSUME CompilerTypeOK, FinishAssign
  PROVE  LET n == todo[1].node IN
           /\ m_BPOffset' = m_BPOffset + 4
           /\ todo # <<>> /\ todo' = Tail(todo)
           /\ \A y \in Names :
                m_VarTable'[y] = IF y = Node(n).name /\ m_VarTable[y].offset = 0
                                   THEN [offset |-> m_BPOffset, type |-> value_type[n]]
                                   ELSE m_VarTable[y]
<1>1. m_VarTable \in [Names -> [offset : Nat, type : ValueTypes]]
  BY DEF CompilerTypeOK
<1>2. QED
  BY <1>1 DEF FinishAssign, Insert, OnNode, Emitting

(* What the code generator has done and what it still owes is the whole     *)
(* program, after every step as before.                                    *)
LEMMA EmitterInvStep ==
  ASSUME CompilerTypeOK, EmitterInv, EmitterSteps, status' \in {"emitting", "compiled"}
  PROVE  EmitterInv'
<1>. DEFINE n == todo[1].node
            T == Total(prog)
            part == Part(prog, todo[1])
            rest == Owed(prog, todo)
            tail == Owed(prog, Tail(todo))
            next == Owed(prog, todo')
<1>1. /\ UNCHANGED <<prog, value_type, Scope, m_IntCount, m_FloatCount, m_PtrCount>>
      /\ ~ FinishAssign => UNCHANGED <<m_VarTable, m_BPOffset>>
  BY EmitterFrame
<1>2. IsProgram(prog) /\ todo \in Seq(Tasks) /\ todo \in Seq(Acts(prog)) /\ Ids' = Ids
  BY <1>1, StacksOfActs DEF CompilerTypeOK, CheckerTypeOK, Tasks, Ids
<1>3. T \in Effects /\ rest \in Effects
  BY <1>2, TotalType, OwedType
<1>4. todo # <<>> => rest = Then(part, tail) /\ tail \in Effects /\ Tail(todo) \in Seq(Acts(prog))
  <2>1. SUFFICES ASSUME todo # <<>>
                 PROVE  rest = Then(part, tail) /\ tail \in Effects /\ Tail(todo) \in Seq(Acts(prog))
    OBVIOUS
  <2>2. Tail(todo) \in Seq(Tasks)
    BY <1>2, <2>1, HeadOfStack
  <2>3. Tail(todo) \in Seq(Acts(prog))
    BY <1>2, <2>2, StacksOfActs
  <2>4. QED
    BY <1>2, <2>1, <2>3, OwedHead, OwedType
<1>5. /\ get_alloc_size' = get_alloc_size
      /\ T' = T /\ Owed(prog, todo)' = next
  BY <1>1 DEF get_alloc_size
<1>6. /\ T.slots \in Nat /\ rest.slots \in Nat
      /\ m_BPOffset \in Nat
      /\ m_VarTable \in [Names -> [offset : Nat, type : ValueTypes]]
  BY <1>3 DEF Effects, CompilerTypeOK
<1>7. ASSUME UNCHANGED <<m_VarTable, m_BPOffset>>, next.slots = rest.slots,
             \A y \in Names : next.first[y] = rest.first[y],
             next.reads \subseteq rest.reads
      PROVE  EmitterInv'
  <2>. HIDE DEF T, rest, next
  <2>1. QED
    BY <1>1, <1>2, <1>5, <1>7 DEF EmitterInv, T, rest
<1>8. CASE \/ EvalNumber \/ EvalNull \/ TestLeft \/ FinishLogic \/ FinishBinop \/ FinishNot
           \/ PrintStatement
  <2>1. todo # <<>> /\ todo' = Tail(todo) /\ ~ FinishAssign
    BY <1>8 DEF EvalNumber, EvalNull, TestLeft, FinishLogic, FinishBinop, FinishArith,
                FinishCmp, FinishNot,
                PrintStatement, OnNode, Emitting, FinishAssign
  <2>2. part = Nothing
    BY <1>8, <2>1, EmitterPart DEF EmitterSteps
  <2>3. next = rest
    BY <1>4, <2>1, <2>2, ThenNothing
  <2>4. QED
    BY <1>1, <1>7, <2>1, <2>3
<1>9. CASE EvalAccess
  <2>. DEFINE x == Node(n).name
  <2>1. todo # <<>> /\ todo' = Tail(todo) /\ ~ FinishAssign
    BY <1>9 DEF EvalAccess, OnNode, Emitting, FinishAssign
  <2>2. x \in Names /\ part = Reading(x)
    BY <1>9, <2>1, EmitterPart
  <2>3. next = tail
    BY <2>1
  <2>. HIDE DEF x, part, rest, tail, next
  <2>4. /\ rest.slots = tail.slots
        /\ \A y \in Names : rest.first[y] = tail.first[y]
        /\ rest.reads = {x} \cup tail.reads
    BY <1>4, <2>1, <2>2, ThenAfterRead
  <2>5. QED
    BY <1>1, <1>7, <2>1, <2>3, <2>4
<1>10. CASE EvalOperands
  <2>1. todo # <<>> /\ todo' = Steps(n) \o Tail(todo) /\ ~ FinishAssign
    BY <1>10 DEF EvalOperands, OnNode, Emitting, FinishAssign
  <2>2. n \in Ids /\ Node(n).type \in {"BINOP", "UNRYOP", "ASSIGN"} /\ part = WalkOf(prog)[n]
    BY <1>10, <2>1, EmitterPart
  <2>3. next = rest
    BY <1>2, <1>4, <2>1, <2>2, OwedSteps
  <2>4. QED
    BY <1>1, <1>7, <2>1, <2>3
<1>11. CASE FinishAssign
  <2>. DEFINE x == Node(n).name
              var == [offset |-> m_BPOffset, type |-> value_type[n]]
  <2>1. /\ m_BPOffset' = m_BPOffset + 4
        /\ todo # <<>> /\ todo' = Tail(todo)
        /\ \A y \in Names : m_VarTable'[y] = IF y = x /\ m_VarTable[y].offset = 0
                                               THEN var ELSE m_VarTable[y]
    BY <1>11, FinishAssignStep
  <2>2. x \in Names /\ n \in Ids /\ n \in Nat \ {nullptr} /\ part = Binding(x, n)
    BY <1>11, <2>1, EmitterPart
  <2>3. next = tail
    BY <2>1
  <2>. HIDE DEF x, n, part, rest, tail, next
  <2>4. /\ rest.slots = 1 + tail.slots
        /\ rest.first[x] = n
        /\ \A y \in Names \ {x} : rest.first[y] = tail.first[y]
        /\ rest.reads = tail.reads \ {x}
        /\ tail.slots \in Nat
    BY <1>4, <2>1, <2>2, ThenAfterBinding DEF Effects
  <2>5. /\ 4 * T.slots <= get_alloc_size
        /\ m_BPOffset >= 4
        /\ m_BPOffset + 4 * rest.slots = 4 + 4 * T.slots
        /\ \A y \in Names :
             IF m_VarTable[y].offset = 0
               THEN rest.first[y] = T.first[y] /\ y \notin rest.reads
               ELSE T.first[y] \in Ids /\ m_VarTable[y].type = value_type[T.first[y]]
    BY DEF EmitterInv, rest
  <2>. HIDE DEF T
  <2>6. m_BPOffset' >= 4 /\ m_BPOffset' + 4 * next.slots = 4 + 4 * T.slots
    <3>1. m_BPOffset' = m_BPOffset + 4 /\ m_BPOffset >= 4
      BY <2>1, <2>5
    <3>2. next.slots = tail.slots /\ rest.slots = 1 + tail.slots /\ tail.slots \in Nat
      BY <2>3, <2>4
    <3>3. m_BPOffset + 4 * rest.slots = 4 + 4 * T.slots /\ m_BPOffset \in Nat /\ T.slots \in Nat
      BY <1>6, <2>5
    <3>4. QED
      BY <3>1, <3>2, <3>3
  <2>7. ASSUME NEW y \in Names
        PROVE  IF m_VarTable'[y].offset = 0
                 THEN next.first[y] = T.first[y] /\ y \notin next.reads
                 ELSE T.first[y] \in Ids /\ m_VarTable'[y].type = value_type[T.first[y]]
    <3>1. CASE y = x /\ m_VarTable[y].offset = 0
      <4>1. m_VarTable'[y] = var /\ var.offset # 0 /\ var.type = value_type[n]
        BY <1>6, <2>1, <2>5, <3>1
      <4>2. T.first[y] = n
        BY <2>4, <2>5, <3>1
      <4>3. QED
        BY <2>2, <4>1, <4>2
    <3>2. CASE y # x /\ m_VarTable[y].offset = 0
      <4>1. m_VarTable'[y] = m_VarTable[y]
        BY <2>1, <3>2
      <4>2. QED
        BY <2>3, <2>4, <2>5, <3>2, <4>1
    <3>3. CASE m_VarTable[y].offset # 0
      <4>1. m_VarTable'[y] = m_VarTable[y]
        BY <2>1, <3>3
      <4>2. QED
        BY <2>5, <3>3, <4>1
    <3>4. QED
      BY <3>1, <3>2, <3>3
  <2>8. QED
    BY <1>1, <1>2, <1>5, <2>5, <2>6, <2>7 DEF EmitterInv, T
<1>12. CASE EndMain
  <2>1. todo' = todo /\ ~ FinishAssign
    BY <1>12 DEF EndMain, FinishAssign, OnNode, Emitting
  <2>2. next = rest
    BY <2>1
  <2>3. QED
    BY <1>1, <1>7, <2>1, <2>2
<1>13. ~ FinishSub /\ ~ PrintNullStatement
  BY DEF FinishSub, PrintNullStatement
<1>14. QED
  BY <1>8, <1>9, <1>10, <1>11, <1>12, <1>13 DEF EmitterSteps, PlainSteps

(* Every step of the compiler keeps the invariant of the passes. *)
LEMMA EffectStep ==
  ASSUME CompilerTypeOK, EffectInv, CompilerNext
  PROVE  EffectInv'
<1>1. CASE CheckerNext /\ UNCHANGED emitterVars
  BY <1>1, CheckerPasses
<1>2. CASE BeginMain
  BY <1>2, BeginPasses
<1>3. CASE EmitterSteps
  <2>1. UNCHANGED <<prog, value_type, Scope>> /\ status = "emitting"
    BY <1>3, EmitterFrame
  <2>2. TypesFollow' /\ ScopeFirst'
    BY <2>1, TypesUnchanged DEF EffectInv
  <2>3. TodoTyped'
    BY <1>3, <2>1, TodoTypedStep DEF EffectInv
  <2>4. status' \in {"emitting", "compiled"} => EmitterInv'
    BY <1>3, <2>1, EmitterInvStep DEF EffectInv
  <2>5. status' # "checking"
    BY <1>3, EmitterFrame
  <2>6. UnboundFound'
    <3>1. status' \notin {"checking", "out_of_range"}
      BY <1>3, EmitterFrame
    <3>2. Total(prog).reads = {} /\ Total(prog)' = Total(prog)
      BY <2>1 DEF EffectInv, UnboundFound
    <3>3. QED
      BY <3>1, <3>2 DEF UnboundFound
  <2>7. QED
    BY <2>2, <2>3, <2>4, <2>5, <2>6 DEF EffectInv
<1>4. QED
  BY <1>1, <1>2, <1>3 DEF CompilerNext, EmitterSteps, PlainSteps

(* It holds as long as nothing changes. *)
LEMMA EffectStutter ==
  ASSUME EffectInv, UNCHANGED compilerVars
  PROVE  EffectInv'
<1>1. /\ UNCHANGED <<prog, value_type, Scope>>
      /\ UNCHANGED <<m_IntCount, m_FloatCount, m_PtrCount, visits, status>>
      /\ UNCHANGED <<m_VarTable, m_BPOffset, todo>>
  BY DEF compilerVars, checkerVars, emitterVars
<1>2. /\ TypesFollow' <=> TypesFollow
      /\ ScopeFirst' <=> ScopeFirst
  BY <1>1, TypesUnchanged
<1>3. VisitsTyped' <=> VisitsTyped
  BY <1>1 DEF VisitsTyped, Typed, OperandsOf, Node
<1>4. TodoTyped' <=> TodoTyped
  BY <1>1 DEF TodoTyped, Typed
<1>5. CheckerInv' <=> CheckerInv
  BY <1>1 DEF CheckerInv, Bound
<1>6. EmitterInv' <=> EmitterInv
  BY <1>1 DEF EmitterInv, get_alloc_size, Ids
<1>7. UnboundFound' <=> UnboundFound
  BY <1>1 DEF UnboundFound
<1>8. QED
  BY <1>1, <1>2, <1>3, <1>4, <1>5, <1>6, <1>7 DEF EffectInv

-----------------------------------------------------------------------------
(* The order of the nodes.                                                 *)

(* The first node of a tree, from those of the trees below. *)
FirstBelow(p, f, n) ==
  IF n = nullptr THEN nullptr
  ELSE CASE p.node[n].type = "BINOP"              -> f[p.node[n].left]
         [] p.node[n].type \in {"UNRYOP", "ASSIGN"} -> f[p.node[n].right]
         [] OTHER                                 -> n

(* It is found from the operands, which come before the node. *)
LEMMA FirstBelowOperands ==
  ASSUME NEW p, IsProgram(p), NEW n \in 0 .. Len(p.node), NEW f,
         \A i \in 0 .. n - 1 : f[i] \in 0 .. i /\ (i # 0 => f[i] # 0)
  PROVE  FirstBelow(p, f, n) \in 0 .. n /\ (n # 0 => FirstBelow(p, f, n) # 0)
<1>1. CASE n = 0
  BY <1>1 DEF FirstBelow, nullptr
<1>2. CASE n # 0
  <2>1. n \in 1 .. Len(p.node) /\ n \in Nat /\ n # nullptr
    BY <1>2, ProgramNodes DEF nullptr
  <2>2. /\ p.node[n].type = "BINOP" => p.node[n].left \in 1 .. n - 1
        /\ p.node[n].type \in {"UNRYOP", "ASSIGN"} => p.node[n].right \in 1 .. n - 1
    BY <2>1, ProgramNodes
  <2>3. \A i \in 1 .. n - 1 : f[i] \in 0 .. n /\ f[i] # 0
    BY <2>1
  <2>4. QED
    BY <2>1, <2>2, <2>3 DEF FirstBelow
<1>3. QED
  BY <1>1, <1>2

(* And from nothing else. *)
LEMMA FirstBelowOnly ==
  ASSUME NEW p, IsProgram(p), NEW n \in 0 .. Len(p.node), NEW f, NEW g,
         \A i \in 0 .. n - 1 : f[i] = g[i]
  PROVE  FirstBelow(p, f, n) = FirstBelow(p, g, n)
<1>1. CASE n = nullptr
  BY <1>1 DEF FirstBelow
<1>2. CASE n # nullptr
  <2>1. n \in 1 .. Len(p.node) /\ n \in Nat
    BY <1>2, ProgramNodes DEF nullptr
  <2>2. /\ p.node[n].type = "BINOP" => p.node[n].left \in 0 .. n - 1
        /\ p.node[n].type \in {"UNRYOP", "ASSIGN"} => p.node[n].right \in 0 .. n - 1
    BY <2>1, ProgramNodes
  <2>3. QED
    BY <1>2, <2>2 DEF FirstBelow
<1>3. QED
  BY <1>1, <1>2

(* So every tree has a first node, as FirstNode defines it. *)
LEMMA FirstDefined ==
  ASSUME NEW p, IsProgram(p)
  PROVE  \A n \in 0 .. Len(p.node) :
           /\ FirstNode(p)[n] = FirstBelow(p, FirstNode(p), n)
           /\ FirstNode(p)[n] \in 0 .. n
           /\ n # 0 => FirstNode(p)[n] # 0
<1>. DEFINE N == Len(p.node)
            Fns == [0 .. N -> Nat]
            Rule(f, n) == IF FirstBelow(p, f, n) \in Nat THEN FirstBelow(p, f, n) ELSE 0
            R == [fn \in Fns \X (0 .. N) |-> Rule(fn[1], fn[2])]
            F == FirstNode(p)
<1>1. N \in Nat /\ Nat # {}
  BY ProgramNodes
<1>2. \A f \in Fns, n \in 0 .. N : R[<<f, n>>] = Rule(f, n)
  OBVIOUS
<1>3. R \in [Fns \X (0 .. N) -> Nat]
  OBVIOUS
<1>4. \A f, g \in Fns, n \in 0 .. N :
        (\A i \in 0 .. n - 1 : f[i] = g[i]) => R[<<f, n>>] = R[<<g, n>>]
  <2>1. SUFFICES ASSUME NEW f \in Fns, NEW g \in Fns, NEW n \in 0 .. N,
                        \A i \in 0 .. n - 1 : f[i] = g[i]
                 PROVE  R[<<f, n>>] = R[<<g, n>>]
    OBVIOUS
  <2>2. FirstBelow(p, f, n) = FirstBelow(p, g, n)
    <3>. HIDE DEF Fns
    <3>1. QED
      BY <2>1, FirstBelowOnly
  <2>3. R[<<f, n>>] = Rule(f, n) /\ R[<<g, n>>] = Rule(g, n)
    BY <1>2
  <2>4. QED
    BY <2>2, <2>3
<1>. HIDE DEF N, R
<1>5. PICK f \in Fns : \A n \in 0 .. N : f[n] = R[<<f, n>>]
  <2>1. R \in Rules(N, Nat)
    BY <1>3, <1>4 DEF Rules
  <2>. DEFINE V == Nat
  <2>2. V # {} /\ R \in Rules(N, V)
    BY <2>1
  <2>. HIDE DEF V
  <2>3. \E f \in [0 .. N -> V] : FollowsRule(f, R, N)
    BY <1>1, <2>2, RecursionExists
  <2>4. QED
    BY <2>3 DEF FollowsRule, V
<1>. DEFINE S == {n \in Nat : n \in 0 .. N => /\ f[n] = FirstBelow(p, f, n)
                                             /\ f[n] \in 0 .. n /\ (n # 0 => f[n] # 0)}
<1>6. ASSUME NEW n \in Nat, \A m \in 0 .. n - 1 : m \in S
      PROVE  n \in S
  <2>1. SUFFICES ASSUME n \in 0 .. N
                 PROVE  f[n] = FirstBelow(p, f, n) /\ f[n] \in 0 .. n /\ (n # 0 => f[n] # 0)
    OBVIOUS
  <2>2. \A i \in 0 .. n - 1 : f[i] \in 0 .. i /\ (i # 0 => f[i] # 0)
    BY <1>1, <1>6, <2>1
  <2>3. FirstBelow(p, f, n) \in 0 .. n /\ (n # 0 => FirstBelow(p, f, n) # 0)
    BY <2>1, <2>2, FirstBelowOperands DEF N
  <2>4. f[n] = Rule(f, n)
    BY <1>2, <1>5, <2>1
  <2>5. QED
    BY <2>3, <2>4
<1>7. \A n \in Nat : n \in S
  <2>. HIDE DEF S
  <2>1. QED
    BY <1>6, StrongSetInduction
<1>8. \A n \in 0 .. N : f[n] = FirstBelow(p, f, n) /\ f[n] \in 0 .. n /\ (n # 0 => f[n] # 0)
  BY <1>1, <1>7
<1>9. f = [n \in 0 .. N |-> FirstBelow(p, f, n)]
  BY <1>5, <1>8
<1>10. F = [n \in 0 .. N |-> FirstBelow(p, F, n)]
  BY <1>9 DEF FirstNode, FirstBelow, N
<1>. DEFINE G == {n \in Nat : n \in 0 .. N => F[n] \in 0 .. n /\ (n # 0 => F[n] # 0)}
<1>. HIDE DEF F
<1>11. ASSUME NEW n \in Nat, \A m \in 0 .. n - 1 : m \in G
       PROVE  n \in G
  <2>1. SUFFICES ASSUME n \in 0 .. N
                 PROVE  F[n] \in 0 .. n /\ (n # 0 => F[n] # 0)
    OBVIOUS
  <2>2. \A i \in 0 .. n - 1 : F[i] \in 0 .. i /\ (i # 0 => F[i] # 0)
    BY <1>1, <1>11, <2>1
  <2>3. FirstBelow(p, F, n) \in 0 .. n /\ (n # 0 => FirstBelow(p, F, n) # 0)
    BY <2>1, <2>2, FirstBelowOperands DEF N
  <2>4. QED
    BY <1>10, <2>1, <2>3
<1>12. \A n \in Nat : n \in G
  <2>. HIDE DEF G
  <2>1. QED
    BY <1>11, StrongSetInduction
<1>13. ASSUME NEW n \in 0 .. N
       PROVE  F[n] = FirstBelow(p, F, n) /\ F[n] \in 0 .. n /\ (n # 0 => F[n] # 0)
  <2>1. F[n] \in 0 .. n /\ (n # 0 => F[n] # 0)
    BY <1>1, <1>12
  <2>2. F[n] = FirstBelow(p, F, n)
    BY <1>10
  <2>3. QED
    BY <2>1, <2>2
<1>14. QED
  BY <1>13 DEF F, N

(* What the order says of a node and its operands. *)
LEMMA TreesAdjoin ==
  ASSUME NEW p, IsProgram(p), InTextOrder(p), NEW n \in 1 .. Len(p.node)
  PROVE  LET nd    == p.node[n]
             first == FirstNode(p)
         IN  /\ n \in Nat /\ first[n] \in 1 .. n
             /\ nd.type = "BINOP" =>
                  /\ nd.right = n - 1 /\ nd.right \in 1 .. n - 1
                  /\ nd.left \in 1 .. n - 1 /\ nd.left = first[nd.right] - 1
                  /\ first[n] = first[nd.left]
                  /\ first[nd.left] \in 1 .. nd.left
                  /\ first[nd.right] \in 1 .. nd.right
             /\ nd.type \in {"UNRYOP", "ASSIGN"} =>
                  /\ nd.right = n - 1 /\ nd.right \in 1 .. n - 1
                  /\ first[n] = first[nd.right]
                  /\ first[nd.right] \in 1 .. nd.right
             /\ nd.type \in {"NUM", "ACCESS"} => first[n] = n
             /\ nd.type \in NodeTypes
<1>. DEFINE nd == p.node[n]
            first == FirstNode(p)
<1>1. Len(p.node) \in Nat /\ n \in Nat /\ n # nullptr /\ n \in 0 .. Len(p.node)
  BY ProgramNodes DEF nullptr
<1>2. /\ nd.type \in NodeTypes
      /\ nd.type = "BINOP" => nd.left \in 1 .. n - 1 /\ nd.right \in 1 .. n - 1
      /\ nd.type \in {"UNRYOP", "ASSIGN"} => nd.right \in 1 .. n - 1
  BY ProgramNodes
<1>3. /\ nd.type \in {"BINOP", "UNRYOP", "ASSIGN"} => nd.right = n - 1
      /\ nd.type = "BINOP" => nd.left = first[nd.right] - 1
  BY DEF InTextOrder
<1>4. \A i \in 1 .. n : first[i] \in 1 .. i
  <2>1. ASSUME NEW i \in 1 .. n
        PROVE  first[i] \in 1 .. i
    <3>1. i \in 0 .. Len(p.node) /\ i # 0 /\ i \in Nat
      BY <1>1
    <3>2. first[i] \in 0 .. i /\ first[i] # 0
      BY <3>1, FirstDefined
    <3>. HIDE DEF first
    <3>3. QED
      BY <3>1, <3>2
  <2>2. QED
    BY <2>1
<1>5. first[n] = FirstBelow(p, first, n)
  BY <1>1, FirstDefined
<1>6. /\ nd.type = "BINOP" => first[n] = first[nd.left]
      /\ nd.type \in {"UNRYOP", "ASSIGN"} => first[n] = first[nd.right]
      /\ nd.type \in {"NUM", "ACCESS"} => first[n] = n
  BY <1>1, <1>5 DEF FirstBelow
<1>. HIDE DEF nd, first
<1>7. \A i \in 1 .. n - 1 : first[i] \in 1 .. i
  BY <1>1, <1>4
<1>8. first[n] \in 1 .. n
  BY <1>1, <1>4
<1>9. QED
  BY <1>1, <1>2, <1>3, <1>6, <1>7, <1>8 DEF nd, first

-----------------------------------------------------------------------------
(* What a walk reads and binds, by the numbers of the nodes.               *)

AssignedIn(p, a, b) ==
  {x \in Names : \E m \in a .. b : p.node[m].type = "ASSIGN" /\ p.node[m].name = x}

ReadIn(p, a, b) ==
  {x \in Names : \E m \in a .. b : /\ p.node[m].type = "ACCESS" /\ p.node[m].name = x
                                   /\ x \notin AssignedIn(p, a, m - 1)}

(* The effect e is that of the nodes from a to b. *)
EffectOf(p, e, a, b) ==
  /\ e.reads = ReadIn(p, a, b)
  /\ \A x \in Names : e.first[x] # nullptr <=> x \in AssignedIn(p, a, b)

(* The walk of some nodes and of those that follow. *)
LEMMA SpansJoin ==
  ASSUME NEW p, NEW e \in Effects, NEW f \in Effects, NEW a \in Nat, NEW b \in Int, NEW c \in Nat,
         a <= b + 1, b <= c, EffectOf(p, e, a, b), EffectOf(p, f, b + 1, c)
  PROVE  EffectOf(p, Then(e, f), a, c)
<1>1. \A m \in Nat : b <= m =>
        AssignedIn(p, a, m) = AssignedIn(p, a, b) \cup AssignedIn(p, b + 1, m)
  <2>1. ASSUME NEW m \in Nat, b <= m
        PROVE  a .. m = (a .. b) \cup (b + 1 .. m)
    BY <2>1
  <2>2. QED
    BY <2>1 DEF AssignedIn
<1>2. \A x \in Names : Then(e, f).first[x] # nullptr <=> x \in AssignedIn(p, a, c)
  <2>1. AssignedIn(p, a, c) = AssignedIn(p, a, b) \cup AssignedIn(p, b + 1, c)
    BY <1>1
  <2>2. \A x \in Names : Then(e, f).first[x] = IF e.first[x] # nullptr THEN e.first[x]
                                                                    ELSE f.first[x]
    BY ThenParts
  <2>3. QED
    BY <2>1, <2>2 DEF EffectOf
<1>3. \A x \in ReadIn(p, a, b) : x \in ReadIn(p, a, c)
  <2>1. a .. b \subseteq a .. c
    OBVIOUS
  <2>2. QED
    BY <2>1 DEF ReadIn
<1>4. ASSUME NEW x \in ReadIn(p, b + 1, c), x \notin AssignedIn(p, a, b)
      PROVE  x \in ReadIn(p, a, c)
  <2>1. PICK m \in b + 1 .. c : /\ p.node[m].type = "ACCESS" /\ p.node[m].name = x
                                /\ x \notin AssignedIn(p, b + 1, m - 1)
    BY <1>4 DEF ReadIn
  <2>2. m - 1 \in Nat \/ m = 0
    BY <2>1
  <2>3. CASE m = 0
    <3>1. x \notin AssignedIn(p, a, m - 1) /\ m \in a .. c
      BY <2>1, <2>3 DEF AssignedIn
    <3>2. QED
      BY <1>4, <2>1, <3>1 DEF ReadIn
  <2>4. CASE m - 1 \in Nat
    <3>1. x \notin AssignedIn(p, a, m - 1) /\ m \in a .. c
      BY <1>1, <1>4, <2>1, <2>4
    <3>2. QED
      BY <1>4, <2>1, <3>1 DEF ReadIn
  <2>5. QED
    BY <2>2, <2>3, <2>4
<1>5. ASSUME NEW x \in ReadIn(p, a, c)
      PROVE  x \in ReadIn(p, a, b) \/ (x \in ReadIn(p, b + 1, c) /\ x \notin AssignedIn(p, a, b))
  <2>1. PICK m \in a .. c : /\ p.node[m].type = "ACCESS" /\ p.node[m].name = x
                            /\ x \notin AssignedIn(p, a, m - 1)
    BY <1>5 DEF ReadIn
  <2>2. x \in Names
    BY <1>5 DEF ReadIn
  <2>3. CASE m <= b
    <3>1. m \in a .. b
      BY <2>3
    <3>2. QED
      BY <2>1, <2>2, <3>1 DEF ReadIn
  <2>4. CASE b < m /\ m = 0
    <3>1. m \in b + 1 .. c /\ x \notin AssignedIn(p, b + 1, m - 1) /\ x \notin AssignedIn(p, a, b)
      BY <2>4 DEF AssignedIn
    <3>2. QED
      BY <2>1, <2>2, <3>1 DEF ReadIn
  <2>5. CASE b < m /\ m # 0
    <3>1. m - 1 \in Nat /\ b <= m - 1 /\ m \in b + 1 .. c
      BY <2>5
    <3>2. x \notin AssignedIn(p, b + 1, m - 1) /\ x \notin AssignedIn(p, a, b)
      BY <1>1, <2>1, <3>1
    <3>3. QED
      BY <2>1, <2>2, <3>1, <3>2 DEF ReadIn
  <2>6. QED
    BY <2>3, <2>4, <2>5
<1>6. Then(e, f).reads = ReadIn(p, a, b) \cup {x \in ReadIn(p, b + 1, c) : x \notin AssignedIn(p, a, b)}
  <2>1. \A x \in ReadIn(p, b + 1, c) : e.first[x] = nullptr <=> x \notin AssignedIn(p, a, b)
    BY DEF EffectOf, ReadIn
  <2>2. QED
    BY <2>1, ThenParts DEF EffectOf
<1>7. Then(e, f).reads = ReadIn(p, a, c)
  BY <1>3, <1>4, <1>5, <1>6
<1>8. QED
  BY <1>2, <1>7 DEF EffectOf

(* The walk of one node. *)
LEMMA SpanOfOne ==
  ASSUME NEW p, NEW n \in Nat \ {0}
  PROVE  /\ p.node[n].type \notin {"ACCESS", "ASSIGN"} => EffectOf(p, Nothing, n, n)
         /\ p.node[n].type = "ACCESS" /\ p.node[n].name \in Names
              => EffectOf(p, Reading(p.node[n].name), n, n)
         /\ p.node[n].type = "ASSIGN" /\ p.node[n].name \in Names
              => EffectOf(p, Binding(p.node[n].name, n), n, n)
<1>1. n .. n = {n} /\ n .. n - 1 = {}
  OBVIOUS
<1>2. /\ AssignedIn(p, n, n) = {x \in Names : p.node[n].type = "ASSIGN" /\ p.node[n].name = x}
      /\ AssignedIn(p, n, n - 1) = {}
  BY <1>1 DEF AssignedIn
<1>3. ReadIn(p, n, n) = {x \in Names : p.node[n].type = "ACCESS" /\ p.node[n].name = x}
  BY <1>1, <1>2 DEF ReadIn
<1>4. ASSUME p.node[n].type \notin {"ACCESS", "ASSIGN"}
      PROVE  EffectOf(p, Nothing, n, n)
  BY <1>2, <1>3, <1>4 DEF EffectOf, Nothing
<1>5. ASSUME p.node[n].type = "ACCESS", p.node[n].name \in Names
      PROVE  EffectOf(p, Reading(p.node[n].name), n, n)
  BY <1>2, <1>3, <1>5 DEF EffectOf, Reading
<1>6. ASSUME p.node[n].type = "ASSIGN", p.node[n].name \in Names
      PROVE  EffectOf(p, Binding(p.node[n].name, n), n, n)
  BY <1>2, <1>3, <1>6 DEF EffectOf, Binding, nullptr
<1>7. QED
  BY <1>4, <1>5, <1>6

(* No nodes, no effect. *)
LEMMA SpanOfNone ==
  ASSUME NEW p, NEW a \in Int, NEW b \in Int, b < a
  PROVE  EffectOf(p, Nothing, a, b)
<1>1. a .. b = {}
  OBVIOUS
<1>2. QED
  BY <1>1 DEF EffectOf, ReadIn, AssignedIn, Nothing

(* The walk of a tree is that of the nodes from its first one on. *)
LEMMA SpanOfTree ==
  ASSUME NEW p, IsProgram(p), InTextOrder(p)
  PROVE  \A n \in 1 .. Len(p.node) : EffectOf(p, WalkOf(p)[n], FirstNode(p)[n], n)
<1>. DEFINE N == Len(p.node)
            w == WalkOf(p)
            first == FirstNode(p)
            S == {n \in Nat : n \in 1 .. N => EffectOf(p, w[n], first[n], n)}
<1>1. ASSUME NEW n \in Nat, \A m \in 0 .. n - 1 : m \in S
      PROVE  n \in S
  <2>1. SUFFICES ASSUME n \in 1 .. N
                 PROVE  EffectOf(p, w[n], first[n], n)
    OBVIOUS
  <2>. DEFINE nd == p.node[n]
  <2>2. /\ n # nullptr /\ n # 0 /\ n \in 0 .. N /\ N \in Nat
        /\ w[n] = NodeEffect(p, w, n)
    BY <2>1, ProgramNodes, WalkDefined DEF nullptr
  <2>3. ASSUME NEW m \in 1 .. n - 1
        PROVE  w[m] \in Effects /\ EffectOf(p, w[m], first[m], m)
    <3>1. m \in 0 .. n - 1 /\ m \in 1 .. N /\ m \in 0 .. N
      BY <2>1, <2>2
    <3>2. w[m] \in Effects
      BY <3>1, WalkDefined
    <3>3. EffectOf(p, w[m], first[m], m)
      BY <1>1, <3>1
    <3>4. QED
      BY <3>2, <3>3
  <2>4. /\ first[n] \in 1 .. n
        /\ nd.type = "BINOP" =>
             /\ nd.right = n - 1 /\ nd.right \in 1 .. n - 1
             /\ nd.left \in 1 .. n - 1 /\ nd.left = first[nd.right] - 1
             /\ first[n] = first[nd.left]
             /\ first[nd.left] \in 1 .. nd.left
             /\ first[nd.right] \in 1 .. nd.right
        /\ nd.type \in {"UNRYOP", "ASSIGN"} =>
             /\ nd.right = n - 1 /\ nd.right \in 1 .. n - 1
             /\ first[n] = first[nd.right]
             /\ first[nd.right] \in 1 .. nd.right
        /\ nd.type \in {"NUM", "ACCESS"} => first[n] = n
        /\ nd.type \in NodeTypes
    BY <2>1, TreesAdjoin
  <2>5. nd.type \in {"ACCESS", "ASSIGN"} => nd.name \in Names
    BY <2>1, ProgramNodes
  <2>. HIDE DEF w, first, S
  <2>6. CASE nd.type = "NUM"
    BY <2>2, <2>4, <2>6, SpanOfOne DEF NodeEffect
  <2>7. CASE nd.type = "ACCESS"
    <3>1. w[n] = Reading(nd.name)
      BY <2>2, <2>7 DEF NodeEffect
    <3>2. QED
      BY <2>2, <2>4, <2>5, <2>7, <3>1, SpanOfOne
  <2>8. CASE nd.type = "UNRYOP"
    <3>1. w[n] = w[nd.right]
      BY <2>2, <2>8 DEF NodeEffect
    <3>2. /\ w[nd.right] \in Effects /\ EffectOf(p, w[nd.right], first[n], n - 1)
          /\ EffectOf(p, Nothing, n, n)
      BY <2>2, <2>3, <2>4, <2>8, SpanOfOne
    <3>3. Then(w[nd.right], Nothing) = w[n]
      BY <3>1, <3>2, ThenNothing
    <3>4. first[n] \in Nat /\ first[n] <= (n - 1) + 1 /\ n - 1 <= n /\ (n - 1) + 1 = n /\ n - 1 \in Int
      BY <2>1, <2>4
    <3>5. EffectOf(p, Then(w[nd.right], Nothing), first[n], n)
      BY <3>2, <3>4, SpansJoin, EffectTypes
    <3>6. QED
      BY <3>3, <3>5
  <2>9. CASE nd.type = "ASSIGN"
    <3>. DEFINE b == Binding(nd.name, n)
    <3>1. w[n] = Then(w[nd.right], b)
      BY <2>2, <2>9 DEF NodeEffect
    <3>2. /\ w[nd.right] \in Effects /\ EffectOf(p, w[nd.right], first[n], n - 1)
          /\ EffectOf(p, b, n, n) /\ b \in Effects
      BY <2>2, <2>3, <2>4, <2>5, <2>9, SpanOfOne, EffectTypes
    <3>. HIDE DEF b
    <3>3. first[n] \in Nat /\ first[n] <= (n - 1) + 1 /\ n - 1 <= n /\ (n - 1) + 1 = n /\ n - 1 \in Int
      BY <2>1, <2>4
    <3>4. QED
      BY <3>1, <3>2, <3>3, SpansJoin
  <2>10. CASE nd.type = "BINOP"
    <3>. DEFINE l == nd.left
                both == Then(w[l], w[n - 1])
    <3>1. w[n] = both
      BY <2>2, <2>4, <2>10 DEF NodeEffect
    <3>2. /\ l \in Nat /\ n - 1 \in Nat /\ first[n] \in Nat /\ first[n] <= l + 1 /\ l <= n - 1
          /\ first[n - 1] = l + 1 /\ l \in 1 .. n - 1 /\ n - 1 \in 1 .. n - 1 /\ first[l] = first[n]
      BY <2>1, <2>4, <2>10
    <3>3. /\ w[l] \in Effects /\ EffectOf(p, w[l], first[n], l)
          /\ w[n - 1] \in Effects /\ EffectOf(p, w[n - 1], l + 1, n - 1)
      BY <2>3, <3>2
    <3>. HIDE DEF l
    <3>4. both \in Effects /\ EffectOf(p, both, first[n], n - 1)
      BY <3>2, <3>3, SpansJoin, EffectTypes
    <3>. HIDE DEF both
    <3>5. EffectOf(p, Nothing, n, n)
      BY <2>2, <2>10, SpanOfOne
    <3>6. first[n] <= (n - 1) + 1 /\ n - 1 <= n /\ (n - 1) + 1 = n /\ n - 1 \in Int
      BY <2>1, <2>4, <3>2
    <3>7. EffectOf(p, Then(both, Nothing), first[n], n)
      BY <3>2, <3>4, <3>5, <3>6, SpansJoin, EffectTypes
    <3>8. QED
      BY <3>1, <3>4, <3>7, ThenNothing
  <2>11. QED
    BY <2>4, <2>6, <2>7, <2>8, <2>9, <2>10 DEF NodeTypes
<1>2. \A n \in Nat : n \in S
  <2>. HIDE DEF S
  <2>1. QED
    BY <1>1, StrongSetInduction
<1>3. Len(p.node) \in Nat
  BY ProgramNodes
<1>4. QED
  BY <1>2, <1>3

-----------------------------------------------------------------------------
(* The statements.                                                         *)

(* The last node of the statements before the k-th, if there is any. *)
LEMMA LastBeforeIs ==
  ASSUME NEW p, IsProgram(p), NEW k \in 1 .. Len(p.root) + 1
  PROVE  /\ Contract!LastBefore(p, k) \in 0 .. Len(p.node)
         /\ \A i \in 1 .. k - 1 : p.root[i] <= Contract!LastBefore(p, k)
         /\ Contract!LastBefore(p, k) # 0 =>
              \E i \in 1 .. k - 1 : p.root[i] = Contract!LastBefore(p, k)
<1>. DEFINE earlier == {p.root[i] : i \in 1 .. k - 1} \cup {0}
            N == Len(p.node)
            Bounds == {u \in 0 .. N : \A m \in earlier : m <= u}
<1>1. N \in Nat /\ Len(p.root) \in Nat /\ \A i \in 1 .. Len(p.root) : p.root[i] \in 0 .. N
  BY LenProperties, ElementOfSeq DEF IsProgram
<1>2. \A i \in 1 .. k - 1 : i \in 1 .. Len(p.root)
  BY <1>1
<1>3. earlier \subseteq 0 .. N
  BY <1>1, <1>2
<1>. HIDE DEF earlier, N
<1>4. N \in Bounds /\ Bounds \subseteq Nat
  BY <1>1, <1>3
<1>5. PICK u \in Bounds : \A v \in Bounds : u <= v
  BY <1>4, LeastElement
<1>6. u \in earlier
  <2>1. SUFFICES ASSUME u \notin earlier
                 PROVE  FALSE
    OBVIOUS
  <2>2. 0 \in earlier
    BY DEF earlier
  <2>3. u - 1 \in 0 .. N /\ \A m \in earlier : m <= u - 1
    BY <1>1, <1>3, <2>1, <2>2
  <2>4. QED
    BY <1>5, <2>3
<1>7. \E n \in earlier : \A m \in earlier : m <= n
  BY <1>6
<1>8. Contract!LastBefore(p, k) = CHOOSE n \in earlier : \A m \in earlier : m <= n
  BY DEF Contract!LastBefore, earlier
<1>9. /\ Contract!LastBefore(p, k) \in earlier
      /\ \A m \in earlier : m <= Contract!LastBefore(p, k)
  BY <1>7, <1>8
<1>10. Contract!LastBefore(p, k) \in 0 .. N
  BY <1>3, <1>9
<1>11. \A i \in 1 .. k - 1 : p.root[i] \in earlier
  BY DEF earlier
<1>12. Contract!LastBefore(p, k) # 0 => \E i \in 1 .. k - 1 : p.root[i] = Contract!LastBefore(p, k)
  BY <1>9 DEF earlier
<1>13. QED
  BY <1>9, <1>10, <1>11, <1>12 DEF N

(* A statement begins behind the ones before, and the next one behind it. *)
LEMMA StatementsAdjoin ==
  ASSUME NEW p, IsProgram(p), InTextOrder(p), NEW k \in 1 .. Len(p.root)
  PROVE  LET r      == p.root[k]
             before == Contract!LastBefore(p, k)
             behind == Contract!LastBefore(p, k + 1)
         IN  /\ r = 0 => behind = before
             /\ r # 0 => FirstNode(p)[r] = before + 1 /\ behind = r /\ r \in 1 .. Len(p.node)
<1>. DEFINE r == p.root[k]
            before == Contract!LastBefore(p, k)
            behind == Contract!LastBefore(p, k + 1)
            first == FirstNode(p)
            N == Len(p.node)
            K == Len(p.root)
<1>1. N \in Nat /\ K \in Nat /\ \A i \in 1 .. K : p.root[i] \in 0 .. N
  BY LenProperties, ElementOfSeq DEF IsProgram
<1>2. /\ k \in 1 .. K + 1 /\ k + 1 \in 1 .. K + 1 /\ (k + 1) - 1 = k /\ k \in 1 .. K
  BY <1>1
<1>3. /\ before \in 0 .. N
      /\ \A i \in 1 .. k - 1 : p.root[i] <= before
      /\ before # 0 => \E i \in 1 .. k - 1 : p.root[i] = before
  BY <1>2, LastBeforeIs
<1>4. /\ behind \in 0 .. N
      /\ \A i \in 1 .. k : p.root[i] <= behind
      /\ behind # 0 => \E i \in 1 .. k : p.root[i] = behind
  BY <1>2, LastBeforeIs
<1>5. \A i \in 1 .. K : p.root[i] # 0 =>
        /\ first[p.root[i]] \in 1 .. p.root[i]
        /\ \A j \in 1 .. i - 1 : p.root[j] < first[p.root[i]]
  <2>1. ASSUME NEW i \in 1 .. K, p.root[i] # 0
        PROVE  first[p.root[i]] \in 1 .. p.root[i]
    <3>1. p.root[i] \in 1 .. N
      BY <1>1, <2>1
    <3>2. QED
      BY <3>1, TreesAdjoin
  <2>2. QED
    BY <2>1 DEF InTextOrder, nullptr
<1>6. \A n \in 1 .. N : \E i \in 1 .. K : first[p.root[i]] <= n /\ n <= p.root[i]
  BY DEF InTextOrder
<1>. HIDE DEF before, behind, first, N, K
<1>7. ASSUME r = 0
      PROVE  behind = before
  <2>1. before <= behind
    BY <1>1, <1>2, <1>3, <1>4
  <2>2. behind <= before
    BY <1>1, <1>2, <1>3, <1>4, <1>7
  <2>3. QED
    BY <1>3, <1>4, <2>1, <2>2
<1>8. ASSUME r # 0
      PROVE  first[r] = before + 1 /\ behind = r /\ r \in 1 .. N
  <2>1. r \in 1 .. N /\ first[r] \in 1 .. r /\ \A j \in 1 .. k - 1 : p.root[j] < first[r]
    BY <1>1, <1>2, <1>5, <1>8
  <2>2. before < first[r]
    BY <1>3, <2>1
  <2>3. behind = r
    <3>1. r <= behind
      BY <1>2, <1>4
    <3>2. behind <= r
      <4>1. behind # 0
        BY <1>4, <2>1, <3>1
      <4>2. PICK i \in 1 .. k : p.root[i] = behind
        BY <1>4, <4>1
      <4>3. i = k \/ i \in 1 .. k - 1
        BY <1>2
      <4>4. QED
        BY <1>4, <2>1, <4>2, <4>3
    <3>3. QED
      BY <1>4, <2>1, <3>1, <3>2
  <2>4. first[r] = before + 1
    <3>1. before + 1 \in 1 .. N
      BY <1>1, <1>3, <2>1, <2>2
    <3>2. PICK i \in 1 .. K : first[p.root[i]] <= before + 1 /\ before + 1 <= p.root[i]
      BY <1>6, <3>1
    <3>3. p.root[i] # 0 /\ p.root[i] \in 0 .. N
      BY <1>1, <1>3, <3>2
    <3>4. ~ (i \in 1 .. k - 1)
      BY <1>3, <3>2, <3>3
    <3>5. ~ (k \in 1 .. i - 1)
      <4>1. SUFFICES ASSUME k \in 1 .. i - 1
                     PROVE  FALSE
        OBVIOUS
      <4>2. r < first[p.root[i]] /\ first[p.root[i]] \in 1 .. p.root[i]
        BY <1>5, <3>2, <3>3, <4>1
      <4>3. QED
        BY <1>3, <2>1, <2>2, <3>2, <3>3, <4>2
    <3>6. i = k
      BY <1>2, <3>4, <3>5
    <3>7. QED
      BY <1>3, <2>1, <2>2, <3>2, <3>6
  <2>5. QED
    BY <2>1, <2>3, <2>4
<1>9. QED
  BY <1>7, <1>8 DEF before, behind, first, N

(* The whole program is all of its nodes. *)
LEMMA SpanOfProgram ==
  ASSUME NEW p, IsProgram(p), InTextOrder(p)
  PROVE  EffectOf(p, Total(p), 1, Len(p.node))
<1>. DEFINE N == Len(p.node)
            K == Len(p.root)
            acts == [i \in 1 .. K |-> Visit("check", p.root[i])]
            owed == OwedBy(p, acts)
            Last(k) == Contract!LastBefore(p, k)
            S == {i \in Nat : i <= K => EffectOf(p, owed[i], Last(K - i + 1) + 1, N)}
<1>1. N \in Nat /\ K \in Nat /\ \A i \in 1 .. K : p.root[i] \in 0 .. N
  BY LenProperties, ElementOfSeq DEF IsProgram
<1>. HIDE DEF N, K
<1>2. acts \in Seq(Acts(p)) /\ Len(acts) = K /\ \A i \in 1 .. K : acts[i] = Visit("check", p.root[i])
  <2>1. \A i \in 1 .. K : Visit("check", p.root[i]) \in Acts(p)
    BY <1>1 DEF Visit, Acts, N
  <2>2. acts \in Seq(Acts(p))
    BY <1>1, <2>1, IsASeq
  <2>3. QED
    BY <1>1, <2>2
<1>. HIDE DEF acts
<1>3. /\ owed \in [0 .. K -> Effects] /\ owed[0] = Nothing
      /\ \A i \in 1 .. K : owed[i] = Then(Part(p, acts[K - i + 1]), owed[i - 1])
  BY <1>2, OwedDefined
<1>. HIDE DEF owed
<1>4. \A k \in 1 .. K + 1 : Last(k) \in 0 .. N
  BY LastBeforeIs DEF N, K
<1>5. Last(K + 1) = N
  <2>1. CASE N = 0
    BY <1>1, <1>4, <2>1
  <2>2. CASE N # 0
    <3>1. N \in 1 .. N
      BY <1>1, <2>2
    <3>2. PICK i \in 1 .. K : N <= p.root[i]
      BY <3>1 DEF InTextOrder, N, K
    <3>3. K + 1 \in 1 .. K + 1 /\ i \in 1 .. (K + 1) - 1
      BY <1>1
    <3>4. p.root[i] <= Last(K + 1)
      BY <3>3, LastBeforeIs DEF K
    <3>5. QED
      BY <1>1, <1>4, <3>2, <3>3, <3>4
  <2>3. QED
    BY <2>1, <2>2
<1>6. Last(1) = 0
  <2>1. 1 \in 1 .. K + 1 /\ 1 .. 1 - 1 = {}
    BY <1>1
  <2>2. Last(1) # 0 => \E i \in 1 .. 1 - 1 : p.root[i] = Last(1)
    BY <2>1, LastBeforeIs DEF K
  <2>3. QED
    BY <2>1, <2>2
<1>7. \A k \in 1 .. K :
        /\ p.root[k] = 0 => Last(k + 1) = Last(k)
        /\ p.root[k] # 0 => /\ FirstNode(p)[p.root[k]] = Last(k) + 1
                            /\ Last(k + 1) = p.root[k] /\ p.root[k] \in 1 .. N
  BY StatementsAdjoin DEF K, N
<1>. HIDE DEF Last
<1>8. 0 \in S
  <2>1. EffectOf(p, owed[0], Last(K + 1) + 1, N)
    <3>1. Last(K + 1) + 1 \in Int /\ N \in Int /\ N < Last(K + 1) + 1
      BY <1>1, <1>5
    <3>2. QED
      BY <1>3, <3>1, SpanOfNone
  <2>2. K - 0 + 1 = K + 1
    BY <1>1
  <2>3. QED
    BY <2>1, <2>2
<1>9. ASSUME NEW i \in Nat, i \in S
      PROVE  i + 1 \in S
  <2>. DEFINE k == K - i
              r == p.root[k]
  <2>1. SUFFICES ASSUME i + 1 <= K
                 PROVE  EffectOf(p, owed[i + 1], Last(K - (i + 1) + 1) + 1, N)
    OBVIOUS
  <2>2. /\ k \in 1 .. K /\ K - (i + 1) + 1 = k /\ K - i + 1 = k + 1 /\ i <= K
        /\ i + 1 \in 1 .. K /\ (i + 1) - 1 = i /\ i \in 0 .. K /\ k \in 1 .. K + 1 /\ k + 1 \in 1 .. K + 1
    BY <1>1, <2>1
  <2>3. owed[i] \in Effects /\ EffectOf(p, owed[i], Last(k + 1) + 1, N)
    BY <1>3, <1>9, <2>2
  <2>4. owed[i + 1] = Then(WalkOf(p)[r], owed[i])
    <3>1. owed[i + 1] = Then(Part(p, acts[k]), owed[i])
      BY <1>3, <2>2
    <3>2. Part(p, acts[k]) = WalkOf(p)[r]
      BY <1>2, <2>2 DEF Part, Visit
    <3>3. QED
      BY <3>1, <3>2
  <2>. HIDE DEF S
  <2>5. CASE r = 0
    <3>1. WalkOf(p)[r] = Nothing
      <4>1. 0 \in 0 .. Len(p.node) /\ r = 0
        BY <1>1, <2>5 DEF N
      <4>2. WalkOf(p)[0] = NodeEffect(p, WalkOf(p), 0)
        BY <4>1, WalkDefined
      <4>3. QED
        BY <2>5, <4>2 DEF NodeEffect, nullptr
    <3>2. Last(k + 1) = Last(k)
      BY <1>7, <2>2, <2>5
    <3>3. owed[i + 1] = owed[i]
      BY <2>3, <2>4, <3>1, ThenNothing
    <3>4. QED
      BY <2>2, <2>3, <3>2, <3>3
  <2>6. CASE r # 0
    <3>1. FirstNode(p)[r] = Last(k) + 1 /\ Last(k + 1) = r /\ r \in 1 .. N
      BY <1>7, <2>2, <2>6
    <3>2. EffectOf(p, WalkOf(p)[r], Last(k) + 1, r)
      BY <3>1, SpanOfTree DEF N
    <3>3. WalkOf(p)[r] \in Effects
      <4>1. r \in 0 .. Len(p.node)
        BY <1>1, <3>1 DEF N
      <4>2. QED
        BY <4>1, WalkDefined
    <3>4. Last(k) + 1 <= r
      <4>1. FirstNode(p)[r] \in 1 .. r
        BY <3>1, TreesAdjoin DEF N
      <4>2. QED
        BY <1>1, <3>1, <4>1
    <3>5. Last(k) + 1 \in Nat /\ r \in Int /\ Last(k) + 1 <= r + 1 /\ r <= N
      BY <1>1, <1>4, <2>2, <3>1, <3>4
    <3>6. EffectOf(p, owed[i], r + 1, N)
      BY <2>3, <3>1
    <3>. HIDE DEF r
    <3>7. EffectOf(p, Then(WalkOf(p)[r], owed[i]), Last(k) + 1, N)
      BY <1>1, <2>3, <3>2, <3>3, <3>5, <3>6, SpansJoin
    <3>8. QED
      BY <2>2, <2>4, <3>7
  <2>7. QED
    BY <2>5, <2>6
<1>10. \A i \in Nat : i \in S
  <2>. HIDE DEF S
  <2>1. QED
    BY <1>8, <1>9, SetInduction
<1>11. EffectOf(p, owed[K], 1, N)
  <2>1. EffectOf(p, owed[K], Last(K - K + 1) + 1, N)
    BY <1>1, <1>10
  <2>2. Last(K - K + 1) + 1 = 1
    BY <1>1, <1>6
  <2>3. QED
    BY <2>1, <2>2
<1>12. Total(p) = owed[K]
  BY <1>2 DEF Total, Owed, owed, acts, K
<1>13. QED
  BY <1>11, <1>12 DEF N

(* A program reads a name too early if it has a node that does. *)
LEMMA ReadsUnbound ==
  ASSUME NEW p, IsProgram(p), InTextOrder(p)
  PROVE  Total(p).reads # {} <=> \E n \in 1 .. Len(p.node) : Contract!Unbound(p, n)
<1>1. Total(p).reads = ReadIn(p, 1, Len(p.node))
  BY SpanOfProgram DEF EffectOf
<1>2. ASSUME NEW n \in 1 .. Len(p.node)
      PROVE  Contract!Unbound(p, n) <=>
               /\ p.node[n].type = "ACCESS" /\ p.node[n].name \in Names
               /\ p.node[n].name \notin AssignedIn(p, 1, n - 1)
  <2>1. p.node[n].type = "ACCESS" => p.node[n].name \in Names
    BY ProgramNodes
  <2>2. QED
    BY <2>1 DEF Contract!Unbound, AssignedIn
<1>3. (\E n \in 1 .. Len(p.node) : Contract!Unbound(p, n)) <=> ReadIn(p, 1, Len(p.node)) # {}
  BY <1>2 DEF ReadIn
<1>4. QED
  BY <1>1, <1>3

-----------------------------------------------------------------------------
(* How far the code generator has got in that order.                       *)

(* A place above b on the new stack, behind the c others, and on the old.  *)
LEMMA PlacesShift ==
  ASSUME NEW L \in Nat, NEW c \in Nat, NEW b \in 2 .. L, NEW i \in 1 .. (b - 1 + c) - 1,
         ~ (i <= c)
  PROVE  i \in c + 1 .. L - 1 + c /\ i - c + 1 \in 1 .. b - 1
  OBVIOUS

(* The innermost activation gives way to c others at nodes not behind its   *)
(* own, which finish every minus that it would have.                       *)
LEMMA HeadReplaced ==
  ASSUME prog' = prog, IsProgram(prog), NEW c \in Nat, Len(todo) \in Nat,
         todo[1] # Task("print", nullptr), todo[1].node \in Nat,
         Len(todo') = Len(todo) - 1 + c,
         \A j \in c + 1 .. Len(todo') : todo'[j] = todo[j - c + 1],
         \A j \in 1 .. c : /\ todo'[j].do # "print"
                           /\ todo[1].node # nullptr
                           /\ todo'[j].node \in Nat /\ todo'[j].node <= todo[1].node,
         \A m \in Ids : Contract!IsMinus(Node(m)) /\ Finishes(todo[1], m)
           => \E j \in 1 .. c : Finishes(todo'[j], m),
         MinusAhead, NullsAhead, NullsApart
  PROVE  MinusAhead' /\ NullsAhead' /\ NullsApart'
<1>. DEFINE next == todo'
            L == Len(todo)
            M == Len(todo')
            Null == Task("print", nullptr)
<1>1. /\ Ids' = Ids /\ NullPrints' = {b \in 1 .. M : next[b] = Null}
      /\ Contract!NullStatements(prog)' = Contract!NullStatements(prog)
      /\ \A m : Node(m)' = Node(m)
      /\ \A i, m : Finishes(todo[i], m)' <=> Finishes(next[i], m)
  BY DEF Ids, Node, NullPrints, Finishes
<1>2. /\ \A k \in Contract!NullStatements(prog) : k \in Nat /\ k <= Len(prog.root)
      /\ \A s \in 1 .. Len(prog.root) : prog.root[s] \in Nat
      /\ Len(prog.root) \in Nat
  BY LenProperties, ElementOfSeq DEF IsProgram, Contract!NullStatements
<1>3. \A i \in 2 .. L : i - 1 + c \in c + 1 .. M /\ next[i - 1 + c] = todo[i]
  <2>1. ASSUME NEW i \in 2 .. L
        PROVE  i - 1 + c \in c + 1 .. M /\ next[i - 1 + c] = todo[i]
    <3>1. i - 1 + c \in c + 1 .. M /\ (i - 1 + c) - c + 1 = i
      OBVIOUS
    <3>2. QED
      BY <3>1
  <2>2. QED
    BY <2>1
<1>. DEFINE At(j) == todo[j - c + 1]
<1>4. L \in Nat /\ M = L - 1 + c /\ \A j \in c + 1 .. M : next[j] = At(j)
  OBVIOUS
<1>5. MinusAhead'
  <2>1. SUFFICES ASSUME NEW m \in Ids, Contract!IsMinus(Node(m))
                 PROVE  \E i \in 1 .. M : Finishes(next[i], m)
    BY <1>1 DEF MinusAhead
  <2>2. PICK i \in 1 .. L : Finishes(todo[i], m)
    BY <2>1 DEF MinusAhead
  <2>3. CASE i = 1
    <3>1. PICK j \in 1 .. c : Finishes(next[j], m)
      BY <2>1, <2>2, <2>3
    <3>2. j \in 1 .. M
      BY <2>2
    <3>3. QED
      BY <3>1, <3>2
  <2>4. CASE i # 1
    <3>1. i \in 2 .. L
      BY <2>4
    <3>2. i - 1 + c \in 1 .. M /\ next[i - 1 + c] = todo[i]
      BY <1>3, <3>1
    <3>3. QED
      BY <2>2, <3>2
  <2>5. QED
    BY <2>3, <2>4
<1>6. NullsAhead'
  <2>1. SUFFICES ASSUME NEW k \in Contract!NullStatements(prog)
                 PROVE  \E b \in 1 .. M :
                          /\ next[b] = Null
                          /\ \A i \in 1 .. b - 1 :
                               next[i].node = nullptr
                                 \/ \E s \in 1 .. k - 1 : next[i].node <= prog.root[s]
    BY <1>1 DEF NullsAhead
  <2>2. PICK b \in 1 .. L : /\ todo[b] = Null
                            /\ \A i \in 1 .. b - 1 :
                                 todo[i].node = nullptr
                                   \/ \E s \in 1 .. k - 1 : todo[i].node <= prog.root[s]
    BY DEF NullsAhead, NullPrints
  <2>3. b \in 2 .. L /\ b - 1 + c \in 1 .. M /\ next[b - 1 + c] = Null
    <3>1. b \in 2 .. L
      BY <2>2
    <3>2. QED
      BY <1>3, <2>2, <3>1
  <2>4. ASSUME NEW i \in 1 .. (b - 1 + c) - 1
        PROVE  next[i].node = nullptr \/ \E s \in 1 .. k - 1 : next[i].node <= prog.root[s]
    <3>1. CASE i <= c
      <4>1. i \in 1 .. c /\ 1 \in 1 .. b - 1
        BY <2>3, <3>1
      <4>2. PICK s \in 1 .. k - 1 : todo[1].node <= prog.root[s]
        BY <2>2, <4>1
      <4>3. prog.root[s] \in Nat
        BY <1>2
      <4>4. next[i].node <= prog.root[s]
        BY <4>1, <4>2, <4>3
      <4>5. QED
        BY <4>4
    <3>2. CASE ~ (i <= c)
      <4>1. i \in c + 1 .. M /\ i - c + 1 \in 1 .. b - 1
        <5>1. L \in Nat /\ M = L - 1 + c
          OBVIOUS
        <5>2. b \in 2 .. L
          BY <2>3
        <5>3. i \in c + 1 .. L - 1 + c /\ i - c + 1 \in 1 .. b - 1
          <6>. HIDE DEF L, M, next, At
          <6>1. QED
            BY <3>2, <5>1, <5>2, PlacesShift
        <5>4. QED
          BY <5>1, <5>3
      <4>2. next[i] = todo[i - c + 1]
        BY <1>4, <4>1
      <4>3. QED
        BY <2>2, <4>1, <4>2
    <3>3. QED
      BY <3>1, <3>2
  <2>5. QED
    BY <2>3, <2>4
<1>7. NullsApart'
  <2>1. SUFFICES ASSUME NEW b \in 1 .. M, next[b] = Null
                 PROVE  \E k \in Contract!NullStatements(prog) :
                          \A i \in b + 1 .. M, m \in Ids :
                            Finishes(next[i], m) => \A s \in 1 .. k - 1 : prog.root[s] < m
    BY <1>1 DEF NullsApart
  <2>2. b \in c + 1 .. M
    <3>1. b \notin 1 .. c
      BY <2>1 DEF Task
    <3>2. QED
      BY <3>1
  <2>3. b - c + 1 \in 1 .. L /\ todo[b - c + 1] = Null
    BY <2>1, <2>2
  <2>4. PICK k \in Contract!NullStatements(prog) :
          \A i \in (b - c + 1) + 1 .. L, m \in Ids :
            Finishes(todo[i], m) => \A s \in 1 .. k - 1 : prog.root[s] < m
    BY <2>3 DEF NullsApart, NullPrints
  <2>5. ASSUME NEW i \in b + 1 .. M
        PROVE  i - c + 1 \in (b - c + 1) + 1 .. L /\ next[i] = todo[i - c + 1]
    <3>. HIDE DEF L, M, next, At
    <3>1. i \in c + 1 .. M /\ i - c + 1 \in (b - c + 1) + 1 .. L
      BY <1>4, <2>2
    <3>2. next[i] = At(i)
      BY <1>4, <3>1
    <3>3. QED
      BY <3>1, <3>2 DEF At
  <2>6. QED
    BY <2>4, <2>5
<1>8. QED
  BY <1>5, <1>6, <1>7

(* The steps that end an activation without calls. *)
PopSteps ==
  \/ EvalNumber \/ EvalAccess \/ EvalNull
  \/ TestLeft \/ FinishLogic \/ FinishBinop \/ FinishNot \/ FinishAssign
  \/ PrintStatement

(* They finish no minus, and print no null statement. *)
LEMMA PopsNoMinus ==
  ASSUME CompilerTypeOK, PopSteps, InTextOrder(prog)
  PROVE  /\ todo # <<>> /\ todo' = Tail(todo)
         /\ todo[1] # Task("print", nullptr)
         /\ \A m \in Ids : Contract!IsMinus(Node(m)) => ~ Finishes(todo[1], m)
<1>. DEFINE n == todo[1].node
            first == FirstNode(prog)
<1>1. todo # <<>> /\ todo' = Tail(todo) /\ todo[1] # Task("print", nullptr)
  BY DEF PopSteps, EvalNumber, EvalAccess, EvalNull, TestLeft, FinishLogic, FinishBinop,
         FinishArith, FinishCmp,
         FinishNot, FinishAssign, PrintStatement, OnNode, Emitting, Task
<1>2. IsProgram(prog) /\ n \in Ids \cup {nullptr} /\ \A m \in Ids : m \in Nat \ {0}
  BY <1>1, HeadTask DEF CompilerTypeOK, CheckerTypeOK, Ids
<1>3. CASE EvalNumber \/ EvalAccess
  <2>1. todo[1].do = "eval" /\ n # nullptr /\ Node(n).type \in {"NUM", "ACCESS"}
    BY <1>3 DEF EvalNumber, EvalAccess, OnNode, Emitting
  <2>2. n \in 1 .. Len(prog.node)
    BY <1>2, <2>1 DEF Ids
  <2>3. first[n] = n
    BY <1>2, <2>1, <2>2, TreesAdjoin DEF Node
  <2>4. \A m \in Ids : Finishes(todo[1], m) => m = n
    BY <1>2, <2>1, <2>2, <2>3 DEF Finishes
  <2>5. QED
    BY <1>1, <2>1, <2>4 DEF Contract!IsMinus
<1>4. CASE EvalNull
  <2>1. todo[1].do = "eval" /\ n = 0
    BY <1>4 DEF EvalNull, Emitting, nullptr
  <2>2. \A m \in Ids : ~ Finishes(todo[1], m)
    BY <1>2, <2>1 DEF Finishes
  <2>3. QED
    BY <1>1, <2>2
<1>5. CASE TestLeft \/ PrintStatement
  <2>1. todo[1].do \in {"test", "print"}
    BY <1>5 DEF TestLeft, PrintStatement, OnNode, Emitting
  <2>2. QED
    BY <1>1, <2>1 DEF Finishes
<1>6. CASE FinishLogic \/ FinishBinop \/ FinishNot \/ FinishAssign
  <2>1. todo[1].do = "finish" /\ ~ Contract!IsMinus(Node(n))
    BY <1>6 DEF FinishLogic, FinishBinop, FinishArith, FinishCmp, FinishNot, FinishAssign,
                OnNode, Emitting,
                Contract!IsMinus
  <2>2. QED
    BY <1>1, <2>1 DEF Finishes
<1>7. QED
  BY <1>3, <1>4, <1>5, <1>6 DEF PopSteps

(* So the order holds after them. *)
LEMMA PopOrder ==
  ASSUME CompilerTypeOK, PopSteps, prog' = prog, InTextOrder(prog),
         MinusAhead, NullsAhead, NullsApart
  PROVE  MinusAhead' /\ NullsAhead' /\ NullsApart'
<1>1. /\ todo # <<>> /\ todo' = Tail(todo)
      /\ todo[1] # Task("print", nullptr)
      /\ \A m \in Ids : Contract!IsMinus(Node(m)) => ~ Finishes(todo[1], m)
  BY PopsNoMinus
<1>2. todo \in Seq(Tasks) /\ IsProgram(prog) /\ todo[1].node \in Nat
  <2>1. todo \in Seq(Tasks) /\ IsProgram(prog)
    BY DEF CompilerTypeOK, CheckerTypeOK, Tasks
  <2>2. Ids \cup {nullptr} = 0 .. Len(prog.node)
    BY <2>1, ProgramNodes DEF Ids, nullptr
  <2>3. QED
    BY <1>1, <2>1, <2>2, HeadTask
<1>3. /\ Len(todo) \in Nat /\ Len(todo') = Len(todo) - 1 + 0
      /\ \A j \in 0 + 1 .. Len(todo') : todo'[j] = todo[j - 0 + 1]
      /\ 1 .. 0 = {}
  <2>1. /\ Len(todo) \in Nat /\ Len(todo') = Len(todo) - 1
        /\ \A j \in 1 .. Len(todo') : todo'[j] = todo[j + 1]
    BY <1>1, <1>2, HeadOfStack
  <2>2. QED
    BY <2>1
<1>4. QED
  BY <1>1, <1>2, <1>3, HeadReplaced

(* Calls at the operands of a node, and the rest of the node. *)
LEMMA PushOrder ==
  ASSUME CompilerTypeOK, EvalOperands, prog' = prog, InTextOrder(prog),
         MinusAhead, NullsAhead, NullsApart
  PROVE  MinusAhead' /\ NullsAhead' /\ NullsApart'
<1>. DEFINE n == todo[1].node
            nd == Node(n)
            s == Steps(n)
            t == Tail(todo)
            first == FirstNode(prog)
<1>1. /\ todo # <<>> /\ todo' = s \o t
      /\ todo[1].do = "eval" /\ n # nullptr /\ nd.type \in {"BINOP", "UNRYOP", "ASSIGN"}
  BY DEF EvalOperands, OnNode, Emitting
<1>2. todo \in Seq(Tasks) /\ IsProgram(prog) /\ n \in Ids /\ n \in 1 .. Len(prog.node)
  BY <1>1, HeadTask DEF CompilerTypeOK, CheckerTypeOK, Tasks, Ids
<1>3. /\ n \in Nat /\ first[n] \in 1 .. n
      /\ nd.type = "BINOP" =>
           /\ nd.right = n - 1 /\ nd.right \in 1 .. n - 1
           /\ nd.left \in 1 .. n - 1 /\ nd.left = first[nd.right] - 1
           /\ first[n] = first[nd.left]
           /\ first[nd.left] \in 1 .. nd.left
           /\ first[nd.right] \in 1 .. nd.right
      /\ nd.type \in {"UNRYOP", "ASSIGN"} =>
           /\ nd.right = n - 1 /\ nd.right \in 1 .. n - 1
           /\ first[n] = first[nd.right]
           /\ first[nd.right] \in 1 .. nd.right
  BY <1>2, TreesAdjoin DEF Node
<1>4. s \in Seq(Tasks) /\ t \in Seq(Tasks)
  BY <1>1, <1>2, StepsType, HeadOfStack
<1>5. \A j \in 1 .. Len(s) : s[j].do # "print" /\ s[j].node \in Nat /\ s[j].node <= n
  <2>. HIDE DEF n
  <2>1. CASE nd.type = "BINOP"
    <3>1. \A j \in 1 .. Len(s) : s[j].do # "print" /\ s[j].node \in {n, nd.left, nd.right}
      BY <2>1 DEF Steps, Task
    <3>2. QED
      BY <1>3, <2>1, <3>1
  <2>2. CASE nd.type \in {"UNRYOP", "ASSIGN"}
    <3>1. \A j \in 1 .. Len(s) : s[j].do # "print" /\ s[j].node \in {n, nd.right}
      BY <2>2 DEF Steps, Task
    <3>2. QED
      BY <1>3, <2>2, <3>1
  <2>3. QED
    BY <1>1, <2>1, <2>2
<1>6. ASSUME NEW m \in Ids, Finishes(todo[1], m)
      PROVE  \E j \in 1 .. Len(s) : Finishes(s[j], m)
  <2>1. m \in Nat /\ first[n] <= m /\ m <= n
    BY <1>1, <1>6 DEF Finishes, Ids
  <2>2. /\ \A q : Finishes(Task("eval", q), m) <=> first[q] <= m /\ m <= q
        /\ Finishes(Task("finish", n), m) <=> m = n
    BY DEF Finishes, Task
  <2>. HIDE DEF n, first
  <2>3. CASE nd.type = "BINOP"
    <3>1. \/ Finishes(Task("eval", nd.left), m)
          \/ Finishes(Task("eval", nd.right), m)
          \/ Finishes(Task("finish", n), m)
      BY <1>3, <2>1, <2>2, <2>3
    <3>2. \E i, j, k \in 1 .. Len(s) :
            s[i] = Task("eval", nd.left) /\ s[j] = Task("eval", nd.right) /\ s[k] = Task("finish", n)
      BY <2>3 DEF Steps
    <3>3. QED
      BY <3>1, <3>2
  <2>4. CASE nd.type \in {"UNRYOP", "ASSIGN"}
    <3>1. Finishes(Task("eval", nd.right), m) \/ Finishes(Task("finish", n), m)
      BY <1>3, <2>1, <2>2, <2>4
    <3>2. s = <<Task("eval", nd.right), Task("finish", n)>>
      BY <2>4 DEF Steps
    <3>3. QED
      BY <3>1, <3>2
  <2>5. QED
    BY <1>1, <2>3, <2>4
<1>. DEFINE c == Len(s)
<1>7. /\ c \in Nat /\ Len(t) = Len(todo) - 1 /\ Len(todo) \in Nat
      /\ Len(todo') = c + Len(t)
      /\ \A i \in 1 .. c + Len(t) : todo'[i] = IF i <= c THEN s[i] ELSE t[i - c]
      /\ \A i \in 1 .. Len(t) : t[i] = todo[i + 1]
  <2>1. /\ Len(t) = Len(todo) - 1 /\ Len(todo) \in Nat
        /\ \A i \in 1 .. Len(t) : t[i] = todo[i + 1]
    BY <1>1, <1>2, HeadOfStack
  <2>. HIDE DEF s, t
  <2>2. QED
    BY <1>1, <1>4, <2>1, ConcatProperties, LenProperties
<1>. HIDE DEF s, t, c
<1>8. /\ Len(todo') = Len(todo) - 1 + c
      /\ \A j \in 1 .. c : todo'[j] = s[j]
  BY <1>7
<1>9. ASSUME NEW j \in c + 1 .. Len(todo')
      PROVE  todo'[j] = todo[j - c + 1]
  <2>1. /\ j \in 1 .. c + Len(t) /\ ~ (j <= c) /\ j - c \in 1 .. Len(t)
        /\ (j - c) + 1 = j - c + 1
    BY <1>7
  <2>2. todo'[j] = t[j - c]
    BY <1>7, <2>1
  <2>3. t[j - c] = todo[(j - c) + 1]
    BY <1>7, <2>1
  <2>4. QED
    BY <2>1, <2>2, <2>3
<1>10. \A j \in 1 .. c : /\ todo'[j].do # "print" /\ n # nullptr
                         /\ todo'[j].node \in Nat /\ todo'[j].node <= n
  BY <1>1, <1>5, <1>8 DEF c
<1>11. \A m \in Ids : Contract!IsMinus(Node(m)) /\ Finishes(todo[1], m)
         => \E j \in 1 .. c : Finishes(todo'[j], m)
  BY <1>6, <1>8 DEF c
<1>12. todo[1] # Task("print", nullptr) /\ todo[1].node \in Nat
  BY <1>1, <1>3 DEF Task
<1>13. QED
  BY <1>2, <1>7, <1>8, <1>9, <1>10, <1>11, <1>12, HeadReplaced

(* The statements in their order, each evaluated and then printed.         *)
LEMMA BeginOrder ==
  ASSUME CompilerTypeOK, BeginMain, InTextOrder(prog)
  PROVE  MinusAhead' /\ NullsAhead' /\ NullsApart'
<1>. DEFINE K == Len(prog.root)
            root(k) == prog.root[k]
            first == FirstNode(prog)
            e(i) == Task(IF i % 2 = 1 THEN "eval" ELSE "print", prog.root[(i + 1) \div 2])
            next == todo'
            Null == Task("print", nullptr)
<1>1. prog' = prog /\ IsProgram(prog) /\ K \in Nat /\ Len(prog.node) \in Nat
      /\ \A k \in 1 .. K : root(k) \in 0 .. Len(prog.node)
  BY LenProperties, ElementOfSeq DEF BeginMain, CompilerTypeOK, CheckerTypeOK, IsProgram
<1>2. /\ next = [i \in 1 .. 2 * K |-> e(i)]
      /\ next \in Seq(Tasks)
  BY BeginMainType DEF BeginMain
<1>3. /\ Ids' = Ids /\ NullPrints' = {b \in 1 .. Len(next) : next[b] = Null}
      /\ Contract!NullStatements(prog)' = {k \in 1 .. K : root(k) = nullptr}
      /\ \A m : Node(m)' = Node(m)
      /\ \A i, m : Finishes(todo[i], m)' <=> Finishes(next[i], m)
  <2>1. \A i, m : Finishes(todo[i], m)' <=> Finishes(next[i], m)
    BY <1>1 DEF Finishes
  <2>2. NullPrints' = {b \in 1 .. Len(next) : next[b] = Null}
    BY DEF NullPrints
  <2>3. Ids' = Ids /\ \A m : Node(m)' = Node(m)
    BY <1>1 DEF Ids, Node
  <2>4. Contract!NullStatements(prog)' = {k \in 1 .. K : root(k) = nullptr}
    BY <1>1 DEF Contract!NullStatements, Contract!nullptr, nullptr
  <2>5. QED
    BY <2>1, <2>2, <2>3, <2>4
<1>4. /\ \A n \in Ids : \E k \in 1 .. K : first[root(k)] <= n /\ n <= root(k)
      /\ \A k \in 1 .. K : root(k) # nullptr =>
           \A i \in 1 .. k - 1 : root(i) < first[root(k)]
  BY DEF InTextOrder, Ids
<1>5. \A m : ~ (\E q : Finishes(Task("print", q), m))
             /\ \A q : Finishes(Task("eval", q), m) <=> first[q] <= m /\ m <= q
  BY DEF Finishes, Task
<1>6. \A k \in 1 .. K : root(k) # 0 => first[root(k)] \in Nat
  <2>1. ASSUME NEW k \in 1 .. K, root(k) # 0
        PROVE  first[root(k)] \in Nat
    <3>1. root(k) \in 1 .. Len(prog.node)
      BY <1>1, <2>1
    <3>2. first[root(k)] \in 1 .. root(k) /\ root(k) \in Nat
      BY <1>1, <3>1, TreesAdjoin
    <3>3. QED
      BY <3>2
  <2>2. QED
    BY <2>1
<1>7. \A i \in 1 .. 2 * K : \E k \in 1 .. K :
        \/ i = 2 * k - 1 /\ i % 2 = 1 /\ (i + 1) \div 2 = k
        \/ i = 2 * k /\ i % 2 = 0 /\ (i + 1) \div 2 = k
  <2>1. ASSUME NEW i \in 1 .. 2 * K
        PROVE  \E k \in 1 .. K : \/ i = 2 * k - 1 /\ i % 2 = 1 /\ (i + 1) \div 2 = k
                                 \/ i = 2 * k /\ i % 2 = 0 /\ (i + 1) \div 2 = k
    <3>. DEFINE k == (i + 1) \div 2
    <3>1. /\ k \in 1 .. K
          /\ \/ i = 2 * k - 1 /\ i % 2 = 1
             \/ i = 2 * k /\ i % 2 = 0
      BY <1>1, SMTT(30)
    <3>2. QED
      BY <3>1
  <2>2. QED
    BY <2>1
<1>8. ASSUME NEW k \in 1 .. K
      PROVE  /\ 2 * k - 1 \in 1 .. 2 * K /\ (2 * k - 1) % 2 = 1 /\ ((2 * k - 1) + 1) \div 2 = k
             /\ 2 * k \in 1 .. 2 * K /\ (2 * k) % 2 = 0 /\ (2 * k + 1) \div 2 = k
  BY <1>1
<1>9. /\ Len(next) = 2 * K
      /\ \A k \in 1 .. K : /\ next[2 * k - 1] = Task("eval", root(k)) /\ 2 * k - 1 \in 1 .. 2 * K
                           /\ next[2 * k] = Task("print", root(k)) /\ 2 * k \in 1 .. 2 * K
      /\ \A i \in 1 .. 2 * K : \E k \in 1 .. K : i = 2 * k - 1 \/ i = 2 * k
  <2>1. \A k \in 1 .. K : /\ e(2 * k - 1) = Task("eval", root(k)) /\ 2 * k - 1 \in 1 .. 2 * K
                          /\ e(2 * k) = Task("print", root(k)) /\ 2 * k \in 1 .. 2 * K
    BY <1>8
  <2>2. 2 * K \in Nat
    BY <1>1
  <2>. HIDE DEF e
  <2>3. Len(next) = 2 * K
    BY <1>2, <2>2, LenProperties
  <2>4. QED
    BY <1>2, <1>7, <2>1, <2>3
<1>. HIDE DEF next, root, K, first
<1>10. MinusAhead'
  <2>1. SUFFICES ASSUME NEW m \in Ids
                 PROVE  \E i \in 1 .. Len(next) : Finishes(next[i], m)
    BY <1>3 DEF MinusAhead, next
  <2>2. PICK k \in 1 .. K : first[root(k)] <= m /\ m <= root(k)
    BY <1>4
  <2>3. next[2 * k - 1] = Task("eval", root(k)) /\ 2 * k - 1 \in 1 .. 2 * K
    BY <1>9
  <2>4. Finishes(next[2 * k - 1], m)
    BY <1>5, <2>2, <2>3
  <2>5. QED
    BY <1>9, <2>3, <2>4
<1>11. NullsAhead'
  <2>1. SUFFICES ASSUME NEW k \in 1 .. K, root(k) = nullptr
                 PROVE  \E b \in 1 .. Len(next) :
                          /\ next[b] = Null
                          /\ \A i \in 1 .. b - 1 :
                               next[i].node = nullptr
                                 \/ \E s \in 1 .. k - 1 : next[i].node <= root(s)
    BY <1>1, <1>3 DEF NullsAhead, next, root
  <2>2. 2 * k \in 1 .. Len(next) /\ next[2 * k] = Null
    BY <1>9, <2>1
  <2>3. ASSUME NEW i \in 1 .. 2 * k - 1
        PROVE  next[i].node = nullptr \/ \E s \in 1 .. k - 1 : next[i].node <= root(s)
    <3>1. i \in 1 .. 2 * K
      BY <1>1
    <3>2. PICK s \in 1 .. K : i = 2 * s - 1 \/ i = 2 * s
      BY <1>9, <3>1
    <3>3. next[i].node = root(s)
      <4>1. next[2 * s - 1] = Task("eval", root(s)) /\ next[2 * s] = Task("print", root(s))
        BY <1>9
      <4>2. QED
        BY <3>2, <4>1 DEF Task
    <3>4. s = k \/ s \in 1 .. k - 1
      BY <1>1, <3>2
    <3>5. root(s) <= root(s)
      BY <1>1
    <3>6. QED
      BY <2>1, <3>3, <3>4, <3>5
  <2>4. QED
    BY <2>2, <2>3
<1>12. NullsApart'
  <2>1. SUFFICES ASSUME NEW b \in 1 .. Len(next), next[b] = Null
                 PROVE  \E k \in 1 .. K :
                          /\ root(k) = nullptr
                          /\ \A i \in b + 1 .. Len(next), m \in Ids :
                               Finishes(next[i], m) => \A s \in 1 .. k - 1 : root(s) < m
    BY <1>1, <1>3 DEF NullsApart, next, root
  <2>2. PICK k \in 1 .. K : b = 2 * k - 1 \/ b = 2 * k
    BY <1>9
  <2>3. b = 2 * k /\ root(k) = nullptr
    <3>1. next[2 * k - 1] = Task("eval", root(k)) /\ next[2 * k] = Task("print", root(k))
      BY <1>9
    <3>2. QED
      BY <2>1, <2>2, <3>1 DEF Task
  <2>4. ASSUME NEW i \in b + 1 .. Len(next), NEW m \in Ids, Finishes(next[i], m),
               NEW s \in 1 .. k - 1
        PROVE  root(s) < m
    <3>1. i \in 1 .. 2 * K
      BY <1>9
    <3>2. PICK j \in 1 .. K : i = 2 * j - 1 \/ i = 2 * j
      BY <1>9, <3>1
    <3>3. first[root(j)] <= m /\ m <= root(j) /\ i = 2 * j - 1
      <4>1. next[2 * j - 1] = Task("eval", root(j)) /\ next[2 * j] = Task("print", root(j))
        BY <1>9
      <4>2. QED
        BY <1>5, <2>4, <3>2, <4>1
    <3>4. m \in Nat /\ m # 0
      BY <1>1 DEF Ids
    <3>5. root(j) # 0 /\ j > k
      BY <1>1, <2>3, <3>2, <3>3, <3>4
    <3>6. s \in 1 .. j - 1 /\ s \in 1 .. K
      BY <1>1, <3>5
    <3>7. root(s) < first[root(j)]
      BY <1>4, <3>5, <3>6 DEF nullptr
    <3>8. root(s) \in Nat /\ first[root(j)] \in Nat
      BY <1>1, <1>6, <3>5, <3>6
    <3>9. QED
      BY <3>3, <3>4, <3>7, <3>8
  <2>5. QED
    BY <2>3, <2>4
<1>13. QED
  BY <1>10, <1>11, <1>12

(* A step of the compiler leaves the program alone, and the order holds.   *)
LEMMA OrderStep ==
  ASSUME CompilerTypeOK, InTextOrder(prog), OrderInv, CompilerNext
  PROVE  InTextOrder(prog)' /\ OrderInv'
<1>1. CASE CheckerNext /\ UNCHANGED emitterVars
  <2>1. status = "checking" /\ prog' = prog /\ status' # "emitting"
    BY <1>1 DEF CheckerNext, Descend, CheckNull, CheckNum, CheckAccess, ReturnBinop,
                ReturnUnryop, ReturnAssign, Visiting
  <2>2. QED
    BY <2>1 DEF OrderInv
<1>2. CASE BeginMain
  BY <1>2, BeginOrder DEF OrderInv, BeginMain
<1>3. CASE EmitterSteps
  <2>1. /\ prog' = prog /\ status = "emitting" /\ MinusAhead /\ NullsAhead /\ NullsApart
        /\ status' = CASE FinishSub -> "assert"
                       [] PrintNullStatement -> "segfault"
                       [] EndMain -> "compiled"
                       [] OTHER -> "emitting"
    BY <1>3, EmitterFrame DEF OrderInv
  <2>2. CASE PopSteps
    BY <2>1, <2>2, PopOrder DEF OrderInv
  <2>3. CASE EvalOperands
    BY <2>1, <2>3, PushOrder DEF OrderInv
  <2>4. CASE FinishSub \/ PrintNullStatement \/ EndMain
    <3>1. status' # "emitting"
      BY <2>1, <2>4
    <3>2. QED
      BY <2>1, <3>1 DEF OrderInv
  <2>5. QED
    BY <1>3, <2>2, <2>3, <2>4 DEF EmitterSteps, PlainSteps, PopSteps
<1>4. QED
  BY <1>1, <1>2, <1>3 DEF CompilerNext, EmitterSteps, PlainSteps

(* And it holds as long as nothing changes. *)
LEMMA OrderStutter ==
  ASSUME InTextOrder(prog), OrderInv, UNCHANGED compilerVars
  PROVE  InTextOrder(prog)' /\ OrderInv'
<1>1. UNCHANGED <<prog, status, todo>>
  BY DEF compilerVars, checkerVars, emitterVars
<1>2. QED
  BY <1>1 DEF OrderInv, MinusAhead, NullsAhead, NullsApart, NullPrints, Finishes, Ids, Node

-----------------------------------------------------------------------------
(* How the process ends.                                                   *)

(* Every way to end is the one that the program asks for. *)
LEMMA ContractStep ==
  ASSUME CompilerTypeOK, EffectInv, EffectInv', InTextOrder(prog), OrderInv, CompilerNext
  PROVE  [Contract!Compile]_(Contract!vars)
<1>. DEFINE outcome == IF Ended THEN status ELSE "running"
            p == prog
            Nulls == Contract!NullStatements(p)
            Early == \E n \in 1 .. Len(p.node) : Contract!Unbound(p, n)
<1>1. SUFFICES \/ prog' = prog /\ outcome' = outcome
               \/ outcome = "running" /\ outcome' = Contract!Outcome(prog) /\ prog' = prog
  BY DEF Contract!Compile, Contract!vars
<1>2. IsProgram(prog)
  BY DEF CompilerTypeOK, CheckerTypeOK
<1>3. Total(prog).reads # {} <=> Early
  BY <1>2, ReadsUnbound
<1>4. \A n \in Ids : /\ n \in 1 .. Len(p.node) /\ n \in Nat \ {0}
                     /\ Contract!IsMinus(Node(n)) <=> Contract!IsMinus(p.node[n])
  BY DEF Ids, Node
<1>5. \A k \in Nulls : /\ k \in 1 .. Len(p.root) + 1 /\ k \in Nat
                       /\ Contract!LastBefore(p, k) \in Nat
                       /\ \A s \in 1 .. k - 1 : p.root[s] \in Nat /\ p.root[s] <= Contract!LastBefore(p, k)
                       /\ Contract!LastBefore(p, k) # 0 =>
                            \E s \in 1 .. k - 1 : p.root[s] = Contract!LastBefore(p, k)
  <2>1. SUFFICES ASSUME NEW k \in 1 .. Len(p.root)
                 PROVE  /\ k \in 1 .. Len(p.root) + 1 /\ k \in Nat
                        /\ Contract!LastBefore(p, k) \in Nat
                        /\ \A s \in 1 .. k - 1 : p.root[s] \in Nat /\ p.root[s] <= Contract!LastBefore(p, k)
                        /\ Contract!LastBefore(p, k) # 0 =>
                             \E s \in 1 .. k - 1 : p.root[s] = Contract!LastBefore(p, k)
    BY DEF Contract!NullStatements
  <2>2. Len(p.root) \in Nat /\ \A s \in 1 .. Len(p.root) : p.root[s] \in Nat
    BY <1>2, LenProperties, ElementOfSeq DEF IsProgram
  <2>3. k \in 1 .. Len(p.root) + 1 /\ \A s \in 1 .. k - 1 : p.root[s] \in Nat
    BY <2>2
  <2>4. QED
    BY <1>2, <2>2, <2>3, LastBeforeIs
<1>6. CASE CheckerNext /\ UNCHANGED emitterVars
  <2>1. status = "checking" /\ prog' = prog /\ status' \in {"checking", "out_of_range"}
    BY <1>6 DEF CheckerNext, Descend, CheckNull, CheckNum, CheckAccess, ReturnBinop,
                ReturnUnryop, ReturnAssign, Visiting
  <2>2. CASE status' = "checking"
    BY <2>1, <2>2 DEF Ended
  <2>3. CASE status' = "out_of_range"
    <3>1. Total(prog)'.reads # {} /\ Total(prog)' = Total(prog)
      BY <2>1, <2>3 DEF EffectInv, UnboundFound
    <3>2. Contract!Outcome(prog) = "out_of_range"
      BY <1>3, <3>1 DEF Contract!Outcome
    <3>3. QED
      BY <2>1, <2>3, <3>2 DEF Ended
  <2>4. QED
    BY <2>1, <2>2, <2>3
<1>7. CASE BeginMain
  BY <1>7 DEF BeginMain, Ended
<1>8. CASE EmitterSteps
  <2>1. /\ prog' = prog /\ status = "emitting" /\ MinusAhead /\ NullsAhead /\ NullsApart
        /\ status' = CASE FinishSub -> "assert"
                       [] PrintNullStatement -> "segfault"
                       [] EndMain -> "compiled"
                       [] OTHER -> "emitting"
    BY <1>8, EmitterFrame DEF OrderInv
  <2>2. ~ Early
    BY <1>3, <2>1 DEF EffectInv, UnboundFound
  <2>3. todo \in Seq(Tasks) /\ Len(todo) \in Nat
    BY LenProperties DEF CompilerTypeOK, Tasks
  <2>4. CASE FinishSub
    <3>. DEFINE n == todo[1].node
    <3>1. /\ todo # <<>> /\ todo[1].do = "finish" /\ n # nullptr /\ Contract!IsMinus(Node(n))
          /\ status' = "assert"
      BY <2>1, <2>4 DEF FinishSub, OnNode, Emitting, Contract!IsMinus
    <3>2. n \in Ids
      BY <3>1, HeadTask
    <3>3. ASSUME NEW k \in Nulls
          PROVE  n <= Contract!LastBefore(p, k)
      <4>1. PICK b \in NullPrints : \A i \in 1 .. b - 1 :
              todo[i].node = nullptr \/ \E s \in 1 .. k - 1 : todo[i].node <= p.root[s]
        BY <2>1 DEF NullsAhead
      <4>2. b \in 1 .. Len(todo) /\ b # 1
        BY <3>1, <4>1 DEF NullPrints, Task
      <4>3. PICK s \in 1 .. k - 1 : n <= p.root[s]
        BY <3>1, <4>1, <4>2
      <4>4. QED
        BY <1>4, <1>5, <3>2, <4>3
    <3>4. Contract!MinusFirst(p)
      BY <1>4, <3>1, <3>2, <3>3 DEF Contract!MinusFirst
    <3>5. Contract!Outcome(prog) = "assert"
      BY <2>2, <3>4 DEF Contract!Outcome
    <3>6. QED
      BY <2>1, <3>1, <3>5 DEF Ended
  <2>5. CASE PrintNullStatement
    <3>1. todo # <<>> /\ todo[1].do = "print" /\ todo[1].node = nullptr /\ status' = "segfault"
      BY <2>5 DEF PrintNullStatement, Emitting
    <3>2. 1 \in 1 .. Len(todo) /\ todo[1] = Task("print", nullptr)
      <4>1. 1 \in 1 .. Len(todo) /\ todo[1] \in Tasks
        BY <2>3, <3>1, HeadOfStack
      <4>2. QED
        BY <3>1, <4>1 DEF Tasks, Task
    <3>3. PICK k \in Nulls : \A i \in 1 + 1 .. Len(todo), m \in Ids :
            Finishes(todo[i], m) => \A s \in 1 .. k - 1 : p.root[s] < m
      BY <2>1, <3>2 DEF NullsApart, NullPrints
    <3>4. ASSUME NEW m \in Ids, Contract!IsMinus(Node(m))
          PROVE  ~ (m <= Contract!LastBefore(p, k))
      <4>1. PICK i \in 1 .. Len(todo) : Finishes(todo[i], m)
        BY <2>1, <3>4 DEF MinusAhead
      <4>2. i # 1
        BY <3>1, <4>1 DEF Finishes
      <4>3. \A s \in 1 .. k - 1 : p.root[s] < m
        BY <2>3, <3>3, <4>1, <4>2
      <4>4. Contract!LastBefore(p, k) < m
        BY <1>4, <1>5, <4>3
      <4>5. QED
        BY <1>4, <1>5, <4>4
    <3>5. ~ Contract!MinusFirst(p)
      BY <1>4, <3>4 DEF Contract!MinusFirst, Ids
    <3>6. Contract!Outcome(prog) = "segfault"
      BY <2>2, <3>5 DEF Contract!Outcome
    <3>7. QED
      BY <2>1, <3>1, <3>6 DEF Ended
  <2>6. CASE EndMain
    <3>1. todo = <<>> /\ 1 .. Len(todo) = {} /\ status' = "compiled"
      BY <2>6 DEF EndMain
    <3>2. ~ Contract!MinusFirst(p)
      BY <1>4, <2>1, <3>1 DEF MinusAhead, Contract!MinusFirst, Ids
    <3>3. Nulls = {}
      BY <2>1, <3>1 DEF NullsAhead, NullPrints
    <3>4. Contract!Outcome(prog) = "compiled"
      BY <2>2, <3>2, <3>3 DEF Contract!Outcome
    <3>5. QED
      BY <2>1, <3>1, <3>4 DEF Ended
  <2>7. CASE ~ (FinishSub \/ PrintNullStatement \/ EndMain)
    <3>1. status' = "emitting"
      BY <2>1, <2>7
    <3>2. QED
      BY <2>1, <3>1 DEF Ended
  <2>8. QED
    BY <2>4, <2>5, <2>6, <2>7
<1>9. QED
  BY <1>6, <1>7, <1>8 DEF CompilerNext, EmitterSteps, PlainSteps

-----------------------------------------------------------------------------
(* What the invariant is for.                                              *)

(* The two passes give every name to the same assignment; what a pass has   *)
(* done and what its stack still owes is the whole program; and the code    *)
(* generator finishes the nodes in their order.                            *)
THEOREM PassesInvCorrect ==
  CompilerSpec => []PassesInv
<1>. DEFINE IInv == CompilerTypeOK /\ InTextOrder(prog) /\ PassesInv
<1>1. CompilerInit => IInv
  <2>1. CompilerInit => InTextOrder(prog) /\ OrderInv
    BY OrderAssumption DEF CompilerInit, CheckerInit, OrderInv
  <2>2. QED
    BY <2>1, CompilerTypeInit, EffectInit DEF PassesInv
<1>2. IInv /\ [CompilerNext \/ Stopped]_compilerVars => IInv'
  <2>1. IInv /\ CompilerNext => IInv'
    BY CompilerTypeStep, EffectStep, OrderStep DEF PassesInv
  <2>2. IInv /\ UNCHANGED compilerVars => IInv'
    BY CompilerTypeStutter, EffectStutter, OrderStutter DEF PassesInv
  <2>3. QED
    BY <2>1, <2>2 DEF Stopped
<1>3. QED
  BY <1>1, <1>2, PTL DEF CompilerSpec

(* The program stays in the order of its text.                             *)
LEMMA ProgramOrdered ==
  CompilerSpec => []InTextOrder(prog)
<1>1. CompilerInit => InTextOrder(prog)
  BY OrderAssumption DEF CompilerInit, CheckerInit
<1>2. CompilerTypeOK /\ PassesInv /\ InTextOrder(prog) /\ [CompilerNext \/ Stopped]_compilerVars
        => InTextOrder(prog)'
  BY OrderStep, OrderStutter DEF PassesInv, Stopped
<1>3. QED
  BY <1>1, <1>2, CompilerTypeCorrect, PassesInvCorrect, PTL DEF CompilerSpec

(* The first pass ends the process if and only if the program reads a name  *)
(* before it assigns it.                                                   *)
THEOREM UnboundFoundCorrect ==
  CompilerSpec => []UnboundFound
<1>1. PassesInv => UnboundFound
  BY DEF PassesInv, EffectInv
<1>2. QED
  BY <1>1, PassesInvCorrect, PTL

(* The frame that is sized by the first pass has a slot for every           *)
(* assignment the second pass writes, whatever the program.                *)
THEOREM SlotsInFrameCorrect ==
  CompilerSpec => []SlotsInFrame
<1>1. CompilerTypeOK /\ PassesInv => SlotsInFrame
  <2>1. SUFFICES ASSUME CompilerTypeOK, EmitterInv
                 PROVE  m_BPOffset - 4 <= get_alloc_size
    BY DEF SlotsInFrame, PassesInv, EffectInv
  <2>. DEFINE T == Total(prog)
              rest == Owed(prog, todo)
  <2>2. IsProgram(prog) /\ todo \in Seq(Tasks)
    BY <2>1 DEF CompilerTypeOK, CheckerTypeOK, Tasks
  <2>3. T \in Effects /\ rest \in Effects
    BY <2>2, StacksOfActs, TotalType, OwedType
  <2>4. /\ 4 * T.slots <= get_alloc_size
        /\ m_BPOffset + 4 * rest.slots = 4 + 4 * T.slots
        /\ m_BPOffset \in Nat /\ get_alloc_size \in Nat
    BY <2>1 DEF EmitterInv, CompilerTypeOK, CheckerTypeOK, get_alloc_size
  <2>. HIDE DEF T, rest
  <2>5. T.slots \in Nat /\ rest.slots \in Nat
    BY <2>3 DEF Effects
  <2>6. QED
    BY <2>4, <2>5
<1>2. QED
  BY <1>1, CompilerTypeCorrect, PassesInvCorrect, PTL

(* Every name the second pass reads has a slot, and the type of the value   *)
(* in it is the type that the first pass gave the read.                    *)
THEOREM BoundWhereUsedCorrect ==
  CompilerSpec => []BoundWhereUsed
<1>1. CompilerTypeOK /\ PassesInv => BoundWhereUsed
  <2>. DEFINE n == todo[1].node
              x == Node(n).name
              T == Total(prog)
              rest == Owed(prog, todo)
  <2>1. SUFFICES ASSUME CompilerTypeOK, PassesInv, OnNode("eval", "ACCESS")
                 PROVE  m_VarTable[x].offset # 0 /\ m_VarTable[x].type = value_type[n]
    BY DEF BoundWhereUsed
  <2>2. /\ status = "emitting" /\ todo # <<>> /\ todo[1].do = "eval"
        /\ n # nullptr /\ Node(n).type = "ACCESS"
    BY <2>1 DEF OnNode, Emitting
  <2>3. TypesFollow /\ ScopeFirst /\ TodoTyped /\ EmitterInv
    BY <2>1, <2>2 DEF PassesInv, EffectInv
  <2>4. /\ IsProgram(prog) /\ todo \in Seq(Tasks) /\ n \in Ids
        /\ value_type \in [Ids -> ValueTypes]
    BY <2>1, <2>2, HeadTask DEF CompilerTypeOK, CheckerTypeOK, Tasks
  <2>5. x \in Names
    BY <2>2, <2>4, NodeProperties DEF WellFormed, Node
  <2>6. x \in rest.reads
    <3>1. n \in 0 .. Len(prog.node)
      BY <2>4, ProgramNodes DEF Ids
    <3>2. Part(prog, todo[1]) = Reading(x)
      BY <2>2, <2>4, <3>1, WalkDefined DEF Part, NodeEffect, Node
    <3>3. Tail(todo) \in Seq(Tasks)
      BY <2>2, <2>4, HeadOfStack
    <3>4. /\ Tail(todo) \in Seq(Acts(prog)) /\ todo \in Seq(Acts(prog))
      BY <2>4, <3>3, StacksOfActs
    <3>5. rest = Then(Reading(x), Owed(prog, Tail(todo))) /\ Owed(prog, Tail(todo)) \in Effects
      BY <2>2, <2>4, <3>2, <3>4, OwedHead, OwedType
    <3>6. QED
      BY <2>5, <3>5, ThenAfterRead
  <2>7. /\ m_VarTable[x].offset # 0
        /\ m_VarTable[x].type = value_type[T.first[x]]
    BY <2>3, <2>5, <2>6 DEF EmitterInv
  <2>8. Typed(n) /\ value_type[n] = Scope[x]
    <3>1. 1 \in 1 .. Len(todo)
      BY <2>2, <2>4, HeadOfStack
    <3>2. Typed(n)
      BY <2>2, <2>3, <3>1 DEF TodoTyped
    <3>3. TypeOf(n) = Scope[x]
      BY <2>2 DEF TypeOf
    <3>4. QED
      BY <2>3, <2>4, <3>2, <3>3 DEF TypesFollow
  <2>9. Scope[x] = value_type[T.first[x]]
    <3>1. Bound(x)
      BY <2>4, <2>8 DEF Bound, ValueTypes
    <3>2. QED
      BY <2>3, <2>5, <3>1 DEF ScopeFirst
  <2>10. QED
    BY <2>7, <2>8, <2>9
<1>2. QED
  BY <1>1, CompilerTypeCorrect, PassesInvCorrect, PTL

(* compile ends as the contract has it, with the outcome that the program   *)
(* alone decides, whenever it ends: with out_of_range if and only if a name *)
(* is read before it is bound, else at the first of its minuses and null    *)
(* statements.  (That it does end is checked and not proved.)               *)
THEOREM ContractCorrect ==
  CompilerSpec => Contract!Init /\ [][Contract!Compile]_(Contract!vars)
<1>1. CompilerInit => Contract!Init
  BY DEF CompilerInit, CheckerInit, Contract!Init, Ended
<1>2. /\ CompilerTypeOK /\ InTextOrder(prog) /\ PassesInv /\ PassesInv'
      /\ [CompilerNext \/ Stopped]_compilerVars
      => [Contract!Compile]_(Contract!vars)
  <2>1. CompilerTypeOK /\ InTextOrder(prog) /\ PassesInv /\ PassesInv' /\ CompilerNext
          => [Contract!Compile]_(Contract!vars)
    BY ContractStep DEF PassesInv
  <2>2. UNCHANGED compilerVars => Contract!vars' = Contract!vars
    BY DEF compilerVars, checkerVars, Contract!vars, Ended
  <2>3. QED
    BY <2>1, <2>2 DEF Stopped
<1>3. QED
  BY <1>1, <1>2, CompilerTypeCorrect, PassesInvCorrect, ProgramOrdered, PTL DEF CompilerSpec
=============================================================================

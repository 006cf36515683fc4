----------------------------- MODULE Emission -----------------------------
(***************************************************************************)
(* The x86 instructions of Compiler.h, and what the code generator of      *)
(* Compiler.cpp writes for each construct: every operator below is the     *)
(* sequence of the write() calls of one function, or of the part of a      *)
(* function after its last recursive call.                                 *)
(***************************************************************************)
EXTENDS Ast

(* Instructions (Compiler.h).                                              *)

Operand(mode, name, n) == [mode |-> mode, name |-> name, n |-> n]

Reg(r)      == Operand("reg", r, 0)
Deref(r, n) == Operand("deref", r, n)   \* DWORD [r+n]
Imm(n)      == Operand("imm", "", n)
Float(n)    == Operand("float", "", n)  \* __float32__(n)
SubLabel(l) == Operand("sub_label", "", l)
Sym(s)      == Operand("sym", s, 0)     \* a label outside main
NoOperand   == Operand("none", "", 0)

EAX  == Reg("EAX")
ECX  == Reg("ECX")
EDX  == Reg("EDX")
EBX  == Reg("EBX")
AL   == Reg("AL")
CL   == Reg("CL")
ESP  == Reg("ESP")
EBP  == Reg("EBP")
XMM0 == Reg("XMM0")
XMM1 == Reg("XMM1")
ST0  == Reg("ST0")
ST1  == Reg("ST1")

Inst2(op, a, b) == [op |-> op, a |-> a, b |-> b]
Inst1(op, a)    == Inst2(op, a, NoOperand)
Define(l)       == Inst1("SUB_LABEL", SubLabel(l))

JumpOps == {"JE", "JNE", "JMP"}

(* The members of the enumerations of x86ASM.h that are written to main. *)
InstTypes ==
  {"PUSH", "POP", "MOV", "MOVZX", "CALL", "INT", "ADD", "SUB", "MUL", "DIV", "NEG",
   "AND", "CMP", "TEST", "SETE", "SETA", "SETNB", "SETL", "SETLE", "SETG", "SETGE",
   "FLD", "FCOMIP", "MOVD", "MOVSS", "ADDSS", "SUBSS", "MULSS", "DIVSS", "UCOMISS",
   "PXOR", "CVTSI2SS", "SUB_LABEL"} \cup JumpOps

Registers == {"EAX", "ECX", "EDX", "EBX", "AL", "CL", "ESP", "EBP",
              "XMM0", "XMM1", "ST0", "ST1"}
Symbols   == {"int_format", "hex_format", "heap_ptr",
              "printf", "print_float", "alloc_heap"}

InstOperands == [mode : {"reg", "deref", "imm", "float", "sub_label", "sym", "none"},
                 name : Registers \cup Symbols \cup {""}, n : Int]
Instructions == [op : InstTypes, a : InstOperands, b : InstOperands]

-----------------------------------------------------------------------------
(* What the code generator writes for each construct.                      *)

EvalNum(nd) == <<Inst1("PUSH", IF nd.op = "INT" THEN Imm(nd.num) ELSE Float(nd.num))>>

PrintValue(t) ==
  CASE t = "INT"   -> <<Inst1("PUSH", Sym("int_format")), Inst1("CALL", Sym("printf"))>>
    [] t = "FLOAT" -> <<Inst1("CALL", Sym("print_float"))>>
    [] OTHER       -> <<Inst1("PUSH", Sym("hex_format")), Inst1("CALL", Sym("printf"))>>

(* zero_cmp_int and zero_cmp_float pop the value they compare. *)
ZeroCmpInt   == <<Inst1("POP", ECX), Inst2("TEST", ECX, ECX)>>

(* Faulty variant: the operand is left on the stack. *)
ZeroCmpFloatKeeps == <<Inst2("PXOR", XMM0, XMM0), Inst2("UCOMISS", XMM0, Deref("ESP", 0))>>

ZeroCmpFloat == <<Inst2("PXOR", XMM0, XMM0), Inst2("ADD", ESP, Imm(4)),
                  Inst2("UCOMISS", XMM0, Deref("ESP", -4))>>

ZeroCmp(t) == CASE t = "INT"   -> ZeroCmpInt
                [] t = "FLOAT" -> ZeroCmpFloat
                [] OTHER       -> <<>>

(* Nothing is written for an operand that is neither INT nor FLOAT. *)
TestJump(t, jump, l) ==
  IF t \in {"INT", "FLOAT"} THEN ZeroCmp(t) \o <<Inst1(jump, SubLabel(l))>>
                            ELSE <<>>

(* Faulty variant: the label defined last, not the next one. *)
LogicTestLastLabel(op, t, l) ==
  TestJump(t, IF op = "KW_AND" THEN "JE" ELSE "JNE", l - 1)

(* Faulty variant: the label after the next one. *)
LogicTestSkipsLabel(op, t, l) ==
  TestJump(t, IF op = "KW_AND" THEN "JE" ELSE "JNE", l + 1)

LogicTest(op, t, l) == TestJump(t, IF op = "KW_AND" THEN "JE" ELSE "JNE", l)

(* Faulty variant: label l is not written. *)
AndEndNoLabel(t, l) ==
  TestJump(t, "JE", l) \o
  <<Inst2("MOV", EAX, Imm(1)), Inst1("JMP", SubLabel(l + 1)), Inst2("MOV", EAX, Imm(0)),
    Define(l + 1), Inst1("PUSH", EAX)>>

(* The end of eval_AND_binop, with m_CurrentSubLabel = l. *)
AndEnd(t, l) ==
  TestJump(t, "JE", l) \o
  <<Inst2("MOV", EAX, Imm(1)), Inst1("JMP", SubLabel(l + 1)),
    Define(l),     Inst2("MOV", EAX, Imm(0)),
    Define(l + 1), Inst1("PUSH", EAX)>>

(* The end of eval_OR_binop. *)
OrEnd(t, l) ==
  TestJump(t, "JE", l + 1) \o
  <<Define(l),     Inst2("MOV", EAX, Imm(1)), Inst1("JMP", SubLabel(l + 2)),
    Define(l + 1), Inst2("MOV", EAX, Imm(0)),
    Define(l + 2), Inst1("PUSH", EAX)>>

LogicEnd(op, t, l) == IF op = "KW_AND" THEN AndEnd(t, l) ELSE OrEnd(t, l)

(* Faulty variant: || is taken to define as many labels as &&. *)
LabelsOfTwo(op) == 2

(* offset_sub_label: how many labels the end of the operator has defined. *)
LabelsOf(op) == IF op = "KW_AND" THEN 2 ELSE 3

IntIntBinop(op) ==
  CASE op \in {"ADD", "SUB"} -> <<Inst2(op, EAX, ECX)>>
    [] op = "MUL"            -> <<Inst1("MUL", ECX)>>
    [] op = "DIV"            -> <<Inst2("MOV", EDX, Imm(0)), Inst1("DIV", ECX)>>

ScalarSingle == [ADD |-> "ADDSS", SUB |-> "SUBSS", MUL |-> "MULSS", DIV |-> "DIVSS"]

(* The result is stored below the stack before ESP is moved to cover it. *)
FloatFloatBinop(op) ==
  <<Inst2(ScalarSingle[op], XMM0, XMM1),
    Inst2("MOVSS", Deref("ESP", -4), XMM0), Inst2("SUB", ESP, Imm(4))>>

(* An operand goes to an XMM register, converted if it is an INT. *)
LoadFloat(t, xmm, n) ==
  Inst2(IF t = "INT" THEN "CVTSI2SS" ELSE "MOVSS", xmm, Deref("ESP", n))

ArithEnd(op, ltype, rtype) ==
  CASE ltype = "INT" /\ rtype = "INT" ->
         <<Inst1("POP", ECX), Inst1("POP", EAX)>>
           \o IntIntBinop(op) \o <<Inst1("PUSH", EAX)>>
    [] "FLOAT" \in {ltype, rtype} /\ {ltype, rtype} \subseteq {"INT", "FLOAT"} ->
         <<LoadFloat(ltype, XMM0, 4), LoadFloat(rtype, XMM1, 0),
           Inst2("ADD", ESP, Imm(8))>> \o FloatFloatBinop(op)
    [] OTHER -> <<>>

SetInt == [EQUAL |-> "SETE", LESS |-> "SETL", LESS_EQ |-> "SETLE",
           GREATER |-> "SETG", GREATER_EQ |-> "SETGE"]

(* The flag read after FCOMIP, and the operand that FLD loads first. *)
SetFloat == [EQUAL |-> "SETE", LESS |-> "SETA", LESS_EQ |-> "SETNB",
             GREATER |-> "SETA", GREATER_EQ |-> "SETNB"]

(* Faulty variant: the operands are loaded the other way round. *)
LoadedFirstSwapped(op) == IF op \in {"LESS", "LESS_EQ"} THEN 0 ELSE 4

LoadedFirst(op) == IF op \in {"LESS", "LESS_EQ"} THEN 4 ELSE 0

(* What both comparisons end with: the flag replaces the two operands. *)
PushFlag == <<Inst2("MOVZX", EAX, AL), Inst2("ADD", ESP, Imm(8)), Inst1("PUSH", EAX)>>

IntIntCMP(op) ==
  <<Inst2("MOV", EAX, Deref("ESP", 4)), Inst2("CMP", EAX, Deref("ESP", 0)),
    Inst1(SetInt[op], AL)>> \o PushFlag

FloatFloatCMP(op) ==
  <<Inst1("FLD", Deref("ESP", LoadedFirst(op))),
    Inst1("FLD", Deref("ESP", 4 - LoadedFirst(op))),
    Inst2("FCOMIP", ST0, ST1), Inst1(SetFloat[op], AL)>> \o PushFlag

(* The INT operand of a mixed comparison is converted where it lies. *)
ConvertInPlace(n) ==
  <<Inst2("CVTSI2SS", XMM0, Deref("ESP", n)), Inst2("MOVSS", Deref("ESP", n), XMM0)>>

CmpEnd(op, ltype, rtype) ==
  CASE ltype = "INT"   /\ rtype = "INT"   -> IntIntCMP(op)
    [] ltype = "FLOAT" /\ rtype = "INT"   -> ConvertInPlace(0) \o FloatFloatCMP(op)
    [] ltype = "INT"   /\ rtype = "FLOAT" -> ConvertInPlace(4) \o FloatFloatCMP(op)
    [] ltype = "FLOAT" /\ rtype = "FLOAT" -> FloatFloatCMP(op)
    [] OTHER                              -> <<>>

NotEnd(t) ==
  IF t \in {"INT", "FLOAT"}
    THEN ZeroCmp(t) \o <<Inst1("SETE", CL), Inst2("MOVZX", ECX, CL), Inst1("PUSH", ECX)>>
    ELSE <<>>

SignBit == -2147483647 - 1   \* (int) 0x80000000

SubEnd(t) ==
  CASE t = "INT"   -> <<Inst1("POP", ECX), Inst1("NEG", ECX), Inst1("PUSH", ECX)>>
    [] t = "FLOAT" -> <<Inst2("MOVSS", XMM0, Deref("ESP", 0)),
                        Inst2("MOV", EAX, Imm(SignBit)), Inst2("MOVD", XMM1, EAX),
                        Inst2("PXOR", XMM0, XMM1), Inst2("MOVSS", Deref("ESP", 0), XMM0)>>
    [] OTHER       -> <<>>

(* The value of an assignment stays on the stack. *)
AssignEnd(offset) ==
  <<Inst2("MOV", EAX, Deref("ESP", 0)), Inst2("MOV", Deref("EBP", -offset), EAX)>>

Prologue(alloc) ==
  <<Inst2("AND", ESP, Imm(-8)), Inst1("PUSH", EBP), Inst2("MOV", EBP, ESP),
    Inst2("SUB", ESP, Imm(alloc)),
    Inst1("CALL", Sym("alloc_heap")), Inst2("MOV", Sym("heap_ptr"), EAX)>>

Epilogue ==
  <<Inst2("MOV", ESP, EBP), Inst1("POP", EBP),
    Inst2("MOV", EAX, Imm(1)), Inst2("MOV", EBX, Imm(1)), Inst1("INT", Imm(128))>>

-----------------------------------------------------------------------------
(* The sub labels of a sequence of instructions.                           *)

Labels(c) == {i \in 1 .. Len(c) : c[i].op = "SUB_LABEL"}
Jumps(c)  == {i \in 1 .. Len(c) : c[i].op \in JumpOps}

(* Each of the labels 0 .. l-1 is defined once, no other is, jumps go to    *)
(* labels that are defined below them, or to l.                             *)
Consistent(c, l) ==
  /\ \A i \in Labels(c) : c[i].a.n \in 0 .. l - 1
  /\ \A n \in 0 .. l - 1 : \E i \in Labels(c) : c[i].a.n = n
  /\ \A i, j \in Labels(c) : c[i].a.n = c[j].a.n => i = j
  /\ \A i \in Jumps(c) : c[i].a.n \in 0 .. l
  /\ \A i \in Jumps(c), j \in Labels(c) : c[i].a.n = c[j].a.n => i < j

(* There is a jump to l. *)
Waiting(c, l) == \E i \in Jumps(c) : c[i].a.n = l
=============================================================================

------------------------------ MODULE Machine ------------------------------
(***************************************************************************)
(* A compiled program at work: the instructions that Compiler writes under *)
(* main, executed one at a time by a 32-bit x86 processor, with the C      *)
(* functions it calls (printf, and chlib's print_float and alloc_heap) as  *)
(* single steps.  Only what the written instructions use is modelled: the  *)
(* general registers hold words, ESP and EBP addresses, and AL and CL, the *)
(* low bytes of EAX and ECX, are registers of their own because they are   *)
(* read only by the MOVZX after the SETcc that wrote them.                 *)
(***************************************************************************)
EXTENDS Compiler, Values, FiniteSets

CONSTANTS
  StackTops,  \* where ESP may point to when main is called
  Meaning     \* what the statements of a program mean, see Interpreter
ASSUME StackTopsAssumption == StackTops \subseteq {a \in Nat : a % 4 = 0}

VARIABLES
  cpu,       \* "idle", "running", and how it ended: "exited", "failed", "trapped"
  pc,        \* the number of the next instruction
  reg,       \* the general and the XMM registers
  flags,     \* ZF, CF and SF # OF, each as the set of its possible values
  esp, ebp,
  mem,       \* the words of the stack; those of which nothing is known are left out
  x87,       \* the x87 register stack, ST0 first
  printed    \* the values written to stdout

machineVars == <<cpu, pc, reg, flags, esp, ebp, mem, x87, printed>>
vars == <<compilerVars, machineVars>>

X87Registers == 8

-----------------------------------------------------------------------------
(* Operands.                                                               *)

Load(a)     == IF a \in DOMAIN mem THEN mem[a] ELSE Undef
Store(a, w) == mem' = [b \in DOMAIN mem \cup {a} |-> IF b = a THEN w ELSE mem[b]]

Address(operand) == (IF operand.name = "ESP" THEN esp ELSE ebp) + operand.n

(* The word an instruction reads from an operand.  Addresses, of format     *)
(* strings and of the caller's frame, are words that no operation accepts.  *)
Get(operand) ==
  CASE operand.mode = "reg" /\ operand.name = "EBP" -> Word("address", ebp, 1)
    [] operand.mode = "reg" /\ operand.name # "EBP" -> reg[operand.name]
    [] operand.mode = "deref" -> Load(Address(operand))
    [] operand.mode = "imm"   -> IntWord(operand.n)
    [] operand.mode = "float" -> FloatWord(operand.n, 1)
    [] operand.mode = "sym"   -> Word("address", 0, 1)

I == code[pc]

Executing(ops) == cpu = "running" /\ I.op \in ops
ToRegister(r)  == I.a.mode = "reg" /\ I.a.name \in r
Advance        == pc' = pc + 1

GeneralRegisters == {"EAX", "ECX", "EDX", "EBX", "AL", "CL", "XMM0", "XMM1"}

UnknownFlags == [zf |-> BOOLEAN, cf |-> BOOLEAN, less |-> BOOLEAN]

-----------------------------------------------------------------------------
(* The stack.                                                              *)

Push ==
  /\ Executing({"PUSH"})
  /\ Store(esp - 4, Get(I.a))
  /\ esp' = esp - 4
  /\ Advance
  /\ UNCHANGED <<compilerVars, cpu, reg, flags, ebp, x87, printed>>

Pop ==
  /\ Executing({"POP"})
  /\ ToRegister(GeneralRegisters)
  /\ reg' = [reg EXCEPT ![I.a.name] = Load(esp)]
  /\ esp' = esp + 4
  /\ Advance
  /\ UNCHANGED <<compilerVars, cpu, flags, ebp, mem, x87, printed>>

(* POP EBP: the address the prologue pushed. *)
PopFrame ==
  /\ Executing({"POP"})
  /\ ToRegister({"EBP"})
  /\ ebp' = Load(esp).n
  /\ esp' = esp + 4
  /\ Advance
  /\ UNCHANGED <<compilerVars, cpu, reg, flags, mem, x87, printed>>

(* ADD, SUB and AND with ESP and a constant, where AND is with -2^k. *)
AdjustStack ==
  /\ Executing({"ADD", "SUB", "AND"})
  /\ ToRegister({"ESP"})
  /\ esp' = CASE I.op = "ADD" -> esp + I.b.n
              [] I.op = "SUB" -> esp - I.b.n
              [] I.op = "AND" -> esp - (esp % (-I.b.n))
  /\ flags' = UnknownFlags
  /\ Advance
  /\ UNCHANGED <<compilerVars, cpu, reg, ebp, mem, x87, printed>>

(* MOV EBP, ESP and MOV ESP, EBP. *)
MoveFrame ==
  /\ Executing({"MOV"})
  /\ ToRegister({"ESP", "EBP"})
  /\ IF I.a.name = "EBP" THEN ebp' = esp /\ UNCHANGED esp
                         ELSE esp' = ebp /\ UNCHANGED ebp
  /\ Advance
  /\ UNCHANGED <<compilerVars, cpu, reg, flags, mem, x87, printed>>

-----------------------------------------------------------------------------
(* Moves.                                                                  *)

Converted(w) == IF w.k = "int" THEN ToFloat(w) ELSE Undef

MoveToRegister ==
  /\ Executing({"MOV", "MOVSS", "MOVZX", "CVTSI2SS"})
  /\ ToRegister(GeneralRegisters)
  /\ reg' = [reg EXCEPT ![I.a.name] =
               IF I.op = "CVTSI2SS" THEN Converted(Get(I.b)) ELSE Get(I.b)]
  /\ Advance
  /\ UNCHANGED <<compilerVars, cpu, flags, esp, ebp, mem, x87, printed>>

(* MOV [heap_ptr], EAX writes a word that main never reads. *)
MoveToMemory ==
  /\ Executing({"MOV", "MOVSS"})
  /\ I.a.mode \in {"deref", "sym"}
  /\ IF I.a.mode = "deref" THEN Store(Address(I.a), Get(I.b)) ELSE UNCHANGED mem
  /\ Advance
  /\ UNCHANGED <<compilerVars, cpu, reg, flags, esp, ebp, x87, printed>>

(* PXOR of a register with itself. *)
ClearFloat ==
  /\ Executing({"PXOR"})
  /\ reg' = [reg EXCEPT ![I.a.name] = FloatWord(0, 1)]
  /\ Advance
  /\ UNCHANGED <<compilerVars, cpu, flags, esp, ebp, mem, x87, printed>>

-----------------------------------------------------------------------------
(* Arithmetic.                                                             *)

Both(kind, x, y) == x.k = kind /\ y.k = kind

(* MUL leaves the low word of the product in EAX and the high one in EDX. *)
IntArithmetic ==
  /\ Executing({"ADD", "SUB", "MUL"})
  /\ I.op # "MUL" => ToRegister({"EAX"})
  /\ LET y == Get(IF I.op = "MUL" THEN I.a ELSE I.b)
         w == IF Both("int", reg.EAX, y) THEN IntArith(I.op, reg.EAX, y) ELSE Undef
     IN  reg' = [reg EXCEPT !.EAX = w, !.EDX = IF I.op = "MUL" THEN Undef ELSE @]
  /\ flags' = UnknownFlags
  /\ Advance
  /\ UNCHANGED <<compilerVars, cpu, esp, ebp, mem, x87, printed>>

FloatArithmetic ==
  /\ Executing({"ADDSS", "SUBSS", "MULSS", "DIVSS"})
  /\ LET x  == Get(I.a)
         y  == Get(I.b)
         op == CHOOSE o \in ArithOps : ScalarSingle[o] = I.op
     IN  reg' = [reg EXCEPT ![I.a.name] =
                   IF Both("float", x, y) THEN FloatArith(op, x, y) ELSE Undef]
  /\ Advance
  /\ UNCHANGED <<compilerVars, cpu, flags, esp, ebp, mem, x87, printed>>

(* DIV is unsigned, and EDX, the high word of the dividend, is 0. *)
Divide ==
  /\ Executing({"DIV"})
  /\ LET x == reg.EAX
         y == Get(I.a)
         w == IF Both("int", x, y) THEN IntWord(Unsigned(x.n) \div Unsigned(y.n)) ELSE Undef
     IN  /\ y.k = "int" => y.n # 0
         /\ reg' = [reg EXCEPT !.EAX = w, !.EDX = Undef]
  /\ flags' = UnknownFlags
  /\ Advance
  /\ UNCHANGED <<compilerVars, cpu, esp, ebp, mem, x87, printed>>

(* The divisor is 0, or nothing is known of it: SIGFPE ends the process. *)
DivideError ==
  /\ Executing({"DIV"})
  /\ Get(I.a).k # "int" \/ Get(I.a).n = 0
  /\ cpu' = "trapped"
  /\ UNCHANGED <<compilerVars, pc, reg, flags, esp, ebp, mem, x87, printed>>

-----------------------------------------------------------------------------
(* Flags.                                                                  *)

(* How a comparison of two words sets the flags. *)
Comparison(kind, x, y) ==
  IF Both(kind, x, y)
    THEN [zf   |-> {SameValue(x, y)},
          cf   |-> {IF kind = "int" THEN Unsigned(x.n) < Unsigned(y.n) ELSE Smaller(x, y)},
          less |-> IF kind = "int" THEN {Smaller(x, y)} ELSE BOOLEAN]
    ELSE UnknownFlags

Unordered == [zf |-> {TRUE}, cf |-> {TRUE}, less |-> BOOLEAN]

(* TEST is only used with one register twice: it compares it with 0. *)
Compare ==
  /\ Executing({"CMP", "TEST", "UCOMISS"})
  /\ flags' = CASE I.op = "CMP"     -> Comparison("int", Get(I.a), Get(I.b))
                [] I.op = "TEST"    -> Comparison("int", Get(I.a), IntWord(0))
                [] I.op = "UCOMISS" -> Comparison("float", Get(I.a), Get(I.b))
  /\ Advance
  /\ UNCHANGED <<compilerVars, cpu, reg, esp, ebp, mem, x87, printed>>

(* A push on a full x87 stack puts a NaN over the oldest register. *)
LoadX87 ==
  /\ Executing({"FLD"})
  /\ x87' = IF Len(x87) < X87Registers
               THEN <<Get(I.a)>> \o x87
               ELSE <<NaN>> \o SubSeq(x87, 1, X87Registers - 1)
  /\ Advance
  /\ UNCHANGED <<compilerVars, cpu, reg, flags, esp, ebp, mem, printed>>

(* FCOMIP compares ST0 with ST1 and pops ST0, and only it. *)
CompareX87 ==
  /\ Executing({"FCOMIP"})
  /\ flags' = IF NaN \in {x87[1], x87[2]} THEN Unordered
                                          ELSE Comparison("float", x87[1], x87[2])
  /\ x87' = Tail(x87)
  /\ Advance
  /\ UNCHANGED <<compilerVars, cpu, reg, esp, ebp, mem, printed>>

(* The condition a conditional instruction stands for. *)
Condition(op, zf, cf, less) ==
  CASE op \in {"SETE", "JE"} -> zf
    [] op = "JNE"            -> ~ zf
    [] op = "SETA"           -> ~ cf /\ ~ zf
    [] op = "SETNB"          -> ~ cf
    [] op = "SETL"           -> less
    [] op = "SETLE"          -> less \/ zf
    [] op = "SETG"           -> ~ less /\ ~ zf
    [] op = "SETGE"          -> ~ less
    [] op = "JMP"            -> TRUE

Outcomes(op) ==
  {Condition(op, zf, cf, less) : zf \in flags.zf, cf \in flags.cf, less \in flags.less}

SetByte ==
  /\ Executing({"SETE", "SETA", "SETNB", "SETL", "SETLE", "SETG", "SETGE"})
  /\ \E b \in Outcomes(I.op) : reg' = [reg EXCEPT ![I.a.name] = Truth(b)]
  /\ Advance
  /\ UNCHANGED <<compilerVars, cpu, flags, esp, ebp, mem, x87, printed>>

(* The instruction after the definition of a sub label is numbered by it. *)
Target(l) == CHOOSE i \in Labels(code) : code[i].a.n = l

Jump ==
  /\ Executing(JumpOps)
  /\ \E b \in Outcomes(I.op) : pc' = IF b THEN Target(I.a.n) ELSE pc + 1
  /\ UNCHANGED <<compilerVars, cpu, reg, flags, esp, ebp, mem, x87, printed>>

PassLabel ==
  /\ Executing({"SUB_LABEL"})
  /\ Advance
  /\ UNCHANGED <<compilerVars, cpu, reg, flags, esp, ebp, mem, x87, printed>>

-----------------------------------------------------------------------------
(* Calls.                                                                  *)

Calling(f) == Executing({"CALL"}) /\ I.a.name = f

(* What a C function may destroy: the words below the stack, its own        *)
(* arguments, and the registers that the caller has to save.                *)
Clobber(args) ==
  /\ mem' = [a \in {b \in DOMAIN mem : b >= esp + 4 * args} |-> mem[a]]
  /\ reg' = [r \in GeneralRegisters |-> IF r = "EBX" THEN reg.EBX ELSE Undef]
  /\ flags' = UnknownFlags
  /\ Advance
  /\ UNCHANGED <<compilerVars, cpu, esp, ebp, x87>>

(* What it returns, a pointer or NULL, is never looked at. *)
CallAllocHeap == Calling("alloc_heap") /\ Clobber(0) /\ UNCHANGED printed

(* alloc_bump_block finds no memory for the block: exit(-1). *)
AllocHeapExits ==
  /\ Calling("alloc_heap")
  /\ cpu' = "failed"
  /\ UNCHANGED <<compilerVars, pc, reg, flags, esp, ebp, mem, x87, printed>>

(* printf(format, value) *)
CallPrintf ==
  /\ Calling("printf")
  /\ printed' = Append(printed, Load(esp + 4))
  /\ Clobber(2)

(* print_float converts its argument in an x87 register if it was built     *)
(* without SSE: what it prints is then lost when none is free.              *)
CallPrintFloat ==
  /\ Calling("print_float")
  /\ \E w \in {Load(esp)} \cup (IF Len(x87) = X87Registers THEN {NaN} ELSE {}) :
       printed' = Append(printed, w)
  /\ Clobber(1)

(* INT 0x80 with 1, the number of exit, in EAX. *)
Exit ==
  /\ Executing({"INT"})
  /\ reg.EAX = IntWord(1)
  /\ cpu' = "exited"
  /\ UNCHANGED <<compilerVars, pc, reg, flags, esp, ebp, mem, x87, printed>>

-----------------------------------------------------------------------------
MachineInit ==
  /\ CompilerInit
  /\ cpu = "idle"
  /\ pc = 1
  /\ reg = [r \in GeneralRegisters |-> Undef]
  /\ flags = UnknownFlags
  /\ esp \in StackTops
  /\ ebp = 0
  /\ mem = <<>>
  /\ x87 = <<>>
  /\ printed = <<>>

(* The file is assembled, linked and started. *)
Begin ==
  /\ cpu = "idle"
  /\ status = "compiled"
  /\ cpu' = "running"
  /\ UNCHANGED <<compilerVars, pc, reg, flags, esp, ebp, mem, x87, printed>>

MachineNext ==
  \/ CompilerNext /\ UNCHANGED machineVars
  \/ Begin
  \/ Push \/ Pop \/ PopFrame \/ AdjustStack \/ MoveFrame
  \/ MoveToRegister \/ MoveToMemory \/ ClearFloat
  \/ IntArithmetic \/ FloatArithmetic \/ Divide \/ DivideError
  \/ Compare \/ LoadX87 \/ CompareX87 \/ SetByte
  \/ Jump \/ PassLabel
  \/ CallAllocHeap \/ AllocHeapExits \/ CallPrintf \/ CallPrintFloat
  \/ Exit

(* The compiler died, or the compiled program has ended. *)
Finished == (Ended /\ status # "compiled") \/ cpu \in {"exited", "failed", "trapped"}

(* Both processes run alone and never wait: each takes its next step. *)
MachineSpec ==
  MachineInit /\ [][MachineNext \/ (Finished /\ UNCHANGED vars)]_vars /\ WF_vars(MachineNext)
-----------------------------------------------------------------------------
(* Properties.                                                             *)

Promised == INSTANCE Interpreter WITH
              outcome <- CASE cpu = "exited" -> "done"
                           [] cpu = "failed" -> "failed"
                           [] OTHER          -> "running"

(* The compiled program prints the value of every statement in order and    *)
(* then exits, or stops before the first one because there is no memory for *)
(* the heap: compile, the C library and the processor together implement  *)
(* the interpreter, for programs to which it gives a meaning.               *)
MachineImplements == Promised!Spec

(* About to write a value. *)
Printing == cpu = "running" /\ I.op = "CALL" /\ I.a.name \in {"printf", "print_float"}

(* The right operand of no && and || contains another one: the nodes of it  *)
(* are those between the left operand and the operator.  (In other programs *)
(* a jump may lead to the label of the inner operator, with a word less or  *)
(* more on the stack.)                                                     *)
Unnested(p) ==
  \A n \in 1 .. Len(p.node) : p.node[n].op \in LogicOps =>
    \A m \in p.node[n].left + 1 .. n - 1 : p.node[m].op \notin LogicOps

(* When a value is printed, all that lies between the frame and ESP is what *)
(* the statements so far have pushed for their calls: no expression leaves  *)
(* an operand behind or takes one too many, whichever way its jumps went.   *)
StackBalanced ==
  Printing =>
    LET k      == Len(printed) + 1
        floats == {i \in 1 .. k : value_type[prog.root[i]] = "FLOAT"}
    IN  esp = ebp - get_alloc_size - 4 * (2 * k - Cardinality(floats))

(* What the notes on calling C functions ask for: when a function is called *)
(* the arguments of the earlier calls are gone (asm_notes.md).              *)
ArgumentsRemoved ==
  Printing =>
    esp = ebp - get_alloc_size - (IF I.a.name = "printf" THEN 8 ELSE 4)

(* A variable changes only by an assignment: neither the operands that      *)
(* expressions push nor what the C functions do reaches into the frame.     *)
FrameIntact ==
  [][\A i \in 1 .. m_BPOffset \div 4 - 1 :
       LET a == ebp - 4 * i IN
         cpu = "running" /\ a \in DOMAIN mem =>
           \/ a \in DOMAIN mem' /\ mem'[a] = mem[a]
           \/ I.op = "MOV" /\ I.a = Deref("EBP", -4 * i)]_vars

(* A value is printed the way it was computed: the types by which printf or *)
(* print_float was chosen are those of the words, for every program, also   *)
(* one that reads a word that was never written.                            *)
PrintedAsTyped ==
  \A i \in 1 .. Len(printed) :
    printed[i].k \in {"undef", "nan"} \cup
      (IF value_type[prog.root[i]] = "FLOAT" THEN {"float"} ELSE {"int"})
=============================================================================

----------------------------- MODULE StackTypes -----------------------------
(***************************************************************************)
(* Why a compiled program keeps its stack in balance and prints every      *)
(* value as what it is: the code has a typing.  A point says, of a place   *)
(* in the code, how many words lie between the frame and ESP, how many     *)
(* statements have been printed, and which words are known to be integers  *)
(* or floats.  Every instruction leads from a point to the next one, a     *)
(* jump to the point of its label.  TypedTodo says that the code generator *)
(* has written such code and which points its activations will lead to;    *)
(* TypedRun that the processor, wherever the jumps took it, is at the      *)
(* point of the next instruction.                                          *)
(*                                                                         *)
(* L gives the point of every label, P that before every instruction, S    *)
(* the kind of the word at every offset of the frame, B is m_BPOffset.     *)
(***************************************************************************)
EXTENDS Machine, Walk

Places == Nat  \* the words below the frame, 1 the one next to it

Kinds  == {"INT", "FLOAT", "ANY"}
Points == [d : Nat, c : Nat, eax : Kinds, slot : [Places -> Kinds]]

(* How deep the stack is when k statements have been printed: printf leaves *)
(* its two arguments there, print_float its only one.                      *)
Floats(k) == Cardinality({i \in 1 .. k : value_type[prog.root[i]] = "FLOAT"})
Level(k)  == 2 * k - Floats(k)

AtStatement(k) == [d |-> Level(k), c |-> k, eax |-> "ANY", slot |-> [j \in Places |-> "ANY"]]

(* Point q is point p with some kinds forgotten. *)
Weakens(p, q) ==
  /\ q.d = p.d /\ q.c = p.c
  /\ q.eax \in {"ANY", p.eax}
  /\ \A j \in Places : q.slot[j] \in {"ANY", p.slot[j]}

Holding(p, j, t) == [p EXCEPT !.slot = [p.slot EXCEPT ![j] = t]]
Moved(p, d)      == [p EXCEPT !.d = d]
InEAX(p, t)      == [p EXCEPT !.eax = t]
Pushed(p, t)     == Moved(Holding(p, p.d + 1, t), p.d + 1)
Popped(p)        == Moved(Holding(p, p.d, "ANY"), p.d - 1)

-----------------------------------------------------------------------------
(* The typing of the instructions.                                         *)

(* The word DWORD [ESP+n] is. *)
Place(p, n) == CASE n = -4 -> p.d + 1 [] n = 0 -> p.d [] n = 4 -> p.d - 1

(* Of the registers only EAX holds words of both kinds. *)
KindOf(p, S, o) ==
  CASE o.mode = "reg" -> (IF o.name = "EAX" THEN p.eax
                          ELSE IF o.name \in {"XMM0", "XMM1"} THEN "FLOAT" ELSE "INT")
    [] o.mode = "imm"   -> "INT"
    [] o.mode = "float" -> "FLOAT"
    [] o.mode = "deref" -> (IF o.name = "ESP" THEN p.slot[Place(p, o.n)] ELSE S[-o.n])
    [] OTHER            -> "ANY"

OnStack(p, o) ==
  o.mode = "deref" /\ o.name = "ESP" /\ ((o.n = 0 /\ p.d >= 1) \/ (o.n = 4 /\ p.d >= 2))
InFrame(B, o) == o.mode = "deref" /\ o.name = "EBP" /\ -o.n \in 1 .. B - 4

Readable(p, B, o) ==
  \/ o \in {EAX, ECX, AL, CL, XMM0, XMM1}
  \/ o.mode \in {"imm", "float", "sym"}
  \/ OnStack(p, o)
  \/ InFrame(B, o)

(* The next statement is printed as what it is, and what lies on the stack  *)
(* then is what the calls so far have left there.                          *)
Prints(f, p) ==
  /\ p.c + 1 \in 1 .. Len(prog.root)
  /\ p.d = Level(p.c + 1)
  /\ LET t == value_type[prog.root[p.c + 1]] IN
       \/ f = "printf" /\ p.d >= 2 /\ t = "INT" /\ p.slot[p.d - 1] = "INT"
       \/ f = "print_float" /\ p.d >= 1 /\ t = "FLOAT" /\ p.slot[p.d] = "FLOAT"

ScalarOps == {"PXOR", "ADDSS", "SUBSS", "MULSS", "DIVSS"}
FlagOps   == {"CMP", "TEST", "UCOMISS", "FLD", "FCOMIP"}
SetOps    == {"SETE", "SETA", "SETNB", "SETL", "SETLE", "SETG", "SETGE"}

(* To a register, to the stack, or to a variable. *)
Moves(ins, S, B, p, q) ==
  LET t == KindOf(p, S, ins.b) IN
  /\ Readable(p, B, ins.b)
  /\ \/ ins.op \in {"MOV", "MOVZX"} /\ ins.a = EAX /\ Weakens(InEAX(p, t), q)
     \/ ins.a = EDX /\ Weakens(p, q)
     \/ ins.op # "CVTSI2SS" /\ ins.a = ECX /\ t = "INT" /\ Weakens(p, q)
     \/ ins.a \in {XMM0, XMM1} /\ (t = "FLOAT" \/ ins.op = "CVTSI2SS") /\ Weakens(p, q)
     \/ /\ ins.op = "MOVSS"
        /\ ins.a = Deref("ESP", -4) \/ OnStack(p, ins.a)
        /\ Weakens(Holding(p, Place(p, ins.a.n), t), q)
     \/ ins.op = "MOV" /\ InFrame(B, ins.a) /\ t = S[-ins.a.n] /\ Weakens(p, q)

(* The instruction, executed at point p, leads to point q. *)
Runs(ins, L, S, B, p, q) ==
  \/ ins.op = "PUSH" /\ Readable(p, B, ins.a) /\ Weakens(Pushed(p, KindOf(p, S, ins.a)), q)
  \/ /\ ins.op = "POP" /\ p.d >= 1
     /\ \/ ins.a = EAX /\ Weakens(InEAX(Moved(p, p.d - 1), p.slot[p.d]), q)
        \/ ins.a = ECX /\ p.slot[p.d] = "INT" /\ Weakens(Moved(p, p.d - 1), q)
  \/ /\ ins.op \in {"ADD", "SUB"}
     /\ \/ ins.a = EAX /\ Weakens(InEAX(p, "INT"), q)
        \/ ins = Inst2("ADD", ESP, Imm(4)) /\ p.d >= 1 /\ Weakens(Moved(p, p.d - 1), q)
        \/ ins = Inst2("ADD", ESP, Imm(8)) /\ p.d >= 2 /\ Weakens(Moved(p, p.d - 2), q)
        \/ ins = Inst2("SUB", ESP, Imm(4)) /\ Weakens(Moved(p, p.d + 1), q)
  \/ ins.op \in {"MUL", "DIV"} /\ Weakens(InEAX(p, "INT"), q)
  \/ ins.op \in {"MOV", "MOVSS", "MOVZX", "CVTSI2SS"} /\ Moves(ins, S, B, p, q)
  \/ ins.op \in ScalarOps /\ ins.a \in {XMM0, XMM1} /\ Weakens(p, q)
  \/ ins.op \in SetOps /\ ins.a \in {AL, CL} /\ Weakens(p, q)
  \/ ins.op \in FlagOps /\ Weakens(p, q)
  \/ ins.op = "SUB_LABEL" /\ p = L[ins.a.n] /\ Weakens(p, q)
  \/ ins.op \in JumpOps /\ Weakens(p, L[ins.a.n]) /\ Weakens(p, q)
  \/ /\ ins.op = "CALL" /\ ins.a.mode = "sym" /\ Prints(ins.a.name, p)
     /\ Weakens(InEAX([p EXCEPT !.c = p.c + 1], "ANY"), q)

(* The prologue, and then instructions each of which leads on. *)
TypedCode(c, L, S, B, P) ==
  /\ Len(c) >= 6
  /\ \A i \in 1 .. 6 : c[i] = Prologue(get_alloc_size)[i]
  /\ P[7] = AtStatement(0)
  /\ \A i \in 7 .. Len(c) : Runs(c[i], L, S, B, P[i], P[i + 1])

(* It leads to point q. *)
TypedTo(c, L, S, B, q) ==
  \E P \in [Nat -> Points] : TypedCode(c, L, S, B, P) /\ P[Len(c) + 1] = q

-----------------------------------------------------------------------------
(* The code generator.                                                     *)

TypeAt(n) == IF n = nullptr THEN "ANY" ELSE value_type[n]
Logic(n)  == Node(n).type = "BINOP" /\ Node(n).op \in LogicOps

(* What an activation needs at point p, and where the code it will write    *)
(* leads to from there.                                                    *)
Needs(task, p) ==
  LET n == task.node IN
  /\ task.do \in {"test", "finish"} => n \in Ids
  /\ task.do = "test" => p.d >= 1 /\ p.slot[p.d] = value_type[Node(n).left]
  /\ task.do = "finish" =>
       /\ p.d >= 1 /\ p.slot[p.d] = value_type[Node(n).right]
       /\ Node(n).type = "BINOP" /\ ~ Logic(n) =>
            p.d >= 2 /\ p.slot[p.d - 1] = value_type[Node(n).left]
  /\ task.do = "print" =>
       /\ p.c + 1 \in 1 .. Len(prog.root) /\ n = prog.root[p.c + 1]
       /\ p.d = Level(p.c) + 1
       /\ n # nullptr => p.slot[p.d] = value_type[n]

After(task, p) ==
  CASE task.do = "eval"  -> Pushed(p, TypeAt(task.node))
    [] task.do = "test"  -> Popped(p)
    [] task.do = "finish" ->
         IF Node(task.node).type = "BINOP" /\ ~ Logic(task.node)
           THEN Pushed(Popped(Popped(p)), value_type[task.node])
           ELSE Pushed(Popped(p), value_type[task.node])
    [] task.do = "print" -> AtStatement(p.c + 1)

(* No code depends on what was in EAX or below ESP before it. *)
Canonical(p) == p.eax = "ANY" /\ \A j \in Places : j > p.d => p.slot[j] = "ANY"

(* The points of the activations. *)
Leads(g) ==
  /\ Len(g) = Len(todo) + 1
  /\ \A k \in 1 .. Len(todo) + 1 : Canonical(g[k])
  /\ \A k \in 1 .. Len(todo) : Needs(todo[k], g[k]) /\ Weakens(After(todo[k], g[k]), g[k + 1])

(* A test comes before the right operand and the end of the same node, and  *)
(* nothing but its print behind a null statement.                          *)
Shaped ==
  \A k \in 1 .. Len(todo) :
    /\ todo[k].do = "test" =>
         /\ k + 2 \in 1 .. Len(todo)
         /\ todo[k].node \in Ids /\ Logic(todo[k].node)
         /\ todo[k + 1] = Task("eval", Node(todo[k].node).right)
         /\ todo[k + 2] = Task("finish", todo[k].node)
    /\ todo[k] = Task("eval", nullptr) =>
         k + 1 \in 1 .. Len(todo) /\ todo[k + 1] = Task("print", nullptr)

(* The activation is in the right operand of n. *)
Inner(task, n) ==
  /\ task.do \in {"eval", "finish"} /\ task.node \in Ids
  /\ Node(n).left < task.node /\ task.node < n
  /\ task.do = "eval" => Node(n).left < FirstNode(prog)[task.node]

(* The label that a jump waits for will be written by the end of the && or  *)
(* || whose right operand is being compiled, and has its point.            *)
Waits(L, g) ==
  Waiting(code, m_CurrentSubLabel) =>
    \E k \in 1 .. Len(todo) :
      /\ FinishesLogic(todo[k])
      /\ L[m_CurrentSubLabel] = Popped(g[k])
      /\ \A i \in 1 .. k - 1 : Inner(todo[i], todo[k].node)

TypedVariables(S) ==
  \A x \in Names : m_VarTable[x].offset # 0 =>
    m_VarTable[x].offset \in 4 .. m_BPOffset - 4 /\ S[m_VarTable[x].offset] = m_VarTable[x].type

(* The next step ends the process. *)
Doomed == todo # <<>> /\ todo[1] = Task("print", nullptr)

EmitTyped(L, S, g) ==
  /\ Leads(g)
  /\ Waits(L, g)
  /\ TypedVariables(S)
  /\ ~ Doomed => TypedTo(code, L, S, m_BPOffset, g[1])

TypedTodo ==
  status = "emitting" =>
    /\ Shaped
    /\ \E L \in [Nat -> Points], S \in [Nat -> Kinds], g \in Seq(Points) : EmitTyped(L, S, g)

-----------------------------------------------------------------------------
(* The compiled program.                                                   *)

(* A word of which nothing is known may be anything. *)
Fits(w, t) == /\ t = "INT"   => w.k \in {"int", "undef", "nan"}
              /\ t = "FLOAT" => w.k \in {"float", "undef", "nan"}

Slot(j) == ebp - get_alloc_size - 4 * j

RegistersFit(t) ==
  /\ Fits(reg["EAX"], t)
  /\ \A r \in {"ECX", "AL", "CL"} : Fits(reg[r], "INT")
  /\ \A r \in {"XMM0", "XMM1"} : Fits(reg[r], "FLOAT")

WordsFit(S, slot) ==
  /\ \A j \in Places \ {0} : Fits(Load(Slot(j)), slot[j])
  /\ \A o \in 1 .. get_alloc_size : Fits(Load(ebp - o), S[o])

AtPoint(S, p) ==
  /\ esp = Slot(p.d)
  /\ Len(printed) = p.c
  /\ RegistersFit(p.eax)
  /\ WordsFit(S, p.slot)

(* Before the prologue is done nothing has been written. *)
Fresh == printed = <<>> /\ \A r \in GeneralRegisters : reg[r] = Undef

(* The code without its epilogue has the length e. *)
Running(S, P, e) ==
  /\ pc \in 1 .. e + 5
  /\ pc <= e => esp \in Int /\ ebp \in Int
  /\ pc <= 6 => Fresh
  /\ pc <= 2 => DOMAIN mem = {}
  /\ pc \in {3, 4} => DOMAIN mem \subseteq {esp}
  /\ pc = 4 => ebp = esp
  /\ pc \in {5, 6} => AtPoint(S, AtStatement(0))
  /\ pc \in 7 .. e + 1 => AtPoint(S, P[pc])

RunTyped(L, S, P, e) ==
  /\ e + 5 = Len(code)
  /\ TypedCode(SubSeq(code, 1, e), L, S, m_BPOffset, P)
  /\ \A i \in 1 .. 5 : code[e + i] = Epilogue[i]
  /\ cpu = "running" => Running(S, P, e)

(* What holds of the processor whatever it executes. *)
Shape ==
  /\ DOMAIN reg = GeneralRegisters
  /\ printed \in Seq({printed[i] : i \in DOMAIN printed})
  /\ status # "compiled" => cpu = "idle"
  /\ cpu = "idle" => pc = 1 /\ mem = <<>> /\ esp \in Int /\ ebp \in Int /\ Fresh

TypedRun ==
  status = "compiled" =>
    \E L \in [Nat -> Points], S \in [Nat -> Kinds], P \in [Nat -> Points], e \in Nat :
      RunTyped(L, S, P, e)

(* The checker gives no node another type than INT and FLOAT. *)
NoPointers ==
  /\ \A n \in Ids : value_type[n] # "POINTER"
  /\ \A x \in Names : Scope[x] # "POINTER"
=============================================================================

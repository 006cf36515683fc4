----------------------------- MODULE Compiler -----------------------------
(***************************************************************************)
(* Compiler::compile (Compiler.cpp): the type checker's pass, then one     *)
(* walk over the tree that writes x86 instructions under the label main.   *)
(*                                                                         *)
(* The recursion of eval_expr is a stack of tasks.  "eval" is a call of    *)
(* eval_expr; "test" and "finish" are what the caller still does after the *)
(* left operand of && and ||, and after the last operand; "print" is the   *)
(* print_value that follows every statement of the root.                   *)
(***************************************************************************)
EXTENDS TypeChecker, Emission

VARIABLES
  code,               \* m_Code["main"]
  m_VarTable,         \* frame offset and type of a name; offset 0: no entry
  m_BPOffset,         \* the next free slot of the frame
  m_CurrentSubLabel,  \* the first sub label not yet defined
  todo                \* the activations of eval_expr, innermost first

emitterVars == <<code, m_VarTable, m_BPOffset, m_CurrentSubLabel, todo>>
compilerVars == <<checkerVars, emitterVars>>

-----------------------------------------------------------------------------
(* The walk.                                                               *)

Task(do, n) == [do |-> do, node |-> n]

Emitting(do) == status = "emitting" /\ todo # <<>> /\ todo[1].do = do
OnNode(do, type) ==
  /\ Emitting(do)
  /\ todo[1].node # nullptr
  /\ Node(todo[1].node).type = type

Write(block) == code' = code \o block

(* compile: the checker is done, the prologue is written. *)
BeginMain ==
  /\ status = "checking"
  /\ visits = <<>>
  /\ status' = "emitting"
  /\ code' = Prologue(get_alloc_size)
  /\ todo' = [i \in 1 .. 2 * Len(prog.root) |->
                Task(IF i % 2 = 1 THEN "eval" ELSE "print", prog.root[(i + 1) \div 2])]
  /\ UNCHANGED <<prog, value_type, Scope, m_IntCount, m_FloatCount, m_PtrCount,
                 visits, m_VarTable, m_BPOffset, m_CurrentSubLabel>>

(* The order in which eval_binop, eval_unryop and eval_assing work. *)
Steps(n) ==
  LET nd == Node(n) IN
    CASE nd.type = "BINOP" /\ nd.op \in LogicOps ->
           <<Task("eval", nd.left), Task("test", n), Task("eval", nd.right), Task("finish", n)>>
      [] nd.type = "BINOP" /\ nd.op \notin LogicOps ->
           <<Task("eval", nd.left), Task("eval", nd.right), Task("finish", n)>>
      [] OTHER -> <<Task("eval", nd.right), Task("finish", n)>>

EvalOperands ==
  /\ OnNode("eval", "BINOP") \/ OnNode("eval", "UNRYOP") \/ OnNode("eval", "ASSIGN")
  /\ todo' = Steps(todo[1].node) \o Tail(todo)
  /\ UNCHANGED <<checkerVars, code, m_VarTable, m_BPOffset, m_CurrentSubLabel>>

EvalNumber ==
  /\ OnNode("eval", "NUM")
  /\ Write(EvalNum(Node(todo[1].node)))
  /\ todo' = Tail(todo)
  /\ UNCHANGED <<checkerVars, m_VarTable, m_BPOffset, m_CurrentSubLabel>>

(* eval_access writes nothing for a name that is not in the table. *)
EvalAccess ==
  /\ OnNode("eval", "ACCESS")
  /\ LET var == m_VarTable[Node(todo[1].node).name] IN
       Write(IF var.offset = 0 THEN <<>>
                               ELSE <<Inst1("PUSH", Deref("EBP", -var.offset))>>)
  /\ todo' = Tail(todo)
  /\ UNCHANGED <<checkerVars, m_VarTable, m_BPOffset, m_CurrentSubLabel>>

(* if (!node) return *)
EvalNull ==
  /\ Emitting("eval")
  /\ todo[1].node = nullptr
  /\ todo' = Tail(todo)
  /\ UNCHANGED <<checkerVars, code, m_VarTable, m_BPOffset, m_CurrentSubLabel>>

(* The left operand of && or || has been evaluated. *)
TestLeft ==
  /\ OnNode("test", "BINOP")
  /\ LET nd == Node(todo[1].node) IN
       Write(LogicTest(nd.op, value_type[nd.left], m_CurrentSubLabel))
  /\ todo' = Tail(todo)
  /\ UNCHANGED <<checkerVars, m_VarTable, m_BPOffset, m_CurrentSubLabel>>

FinishLogic ==
  /\ OnNode("finish", "BINOP")
  /\ Node(todo[1].node).op \in LogicOps
  /\ LET nd == Node(todo[1].node) IN
       /\ Write(LogicEnd(nd.op, value_type[nd.right], m_CurrentSubLabel))
       /\ m_CurrentSubLabel' = m_CurrentSubLabel + LabelsOf(nd.op)
  /\ todo' = Tail(todo)
  /\ UNCHANGED <<checkerVars, m_VarTable, m_BPOffset>>

(* eval_arith_binop, when both operands have been evaluated. *)
FinishArith ==
  /\ OnNode("finish", "BINOP")
  /\ Node(todo[1].node).op \in ArithOps
  /\ LET nd == Node(todo[1].node) IN
       Write(ArithEnd(nd.op, value_type[nd.left], value_type[nd.right]))
  /\ todo' = Tail(todo)
  /\ UNCHANGED <<checkerVars, m_VarTable, m_BPOffset, m_CurrentSubLabel>>

(* eval_CMP_binop *)
FinishCmp ==
  /\ OnNode("finish", "BINOP")
  /\ Node(todo[1].node).op \in CmpOps
  /\ LET nd == Node(todo[1].node) IN
       Write(CmpEnd(nd.op, value_type[nd.left], value_type[nd.right]))
  /\ todo' = Tail(todo)
  /\ UNCHANGED <<checkerVars, m_VarTable, m_BPOffset, m_CurrentSubLabel>>

(* eval_binop chooses between them; && and || are FinishLogic. *)
FinishBinop == FinishArith \/ FinishCmp

(* eval_NOT_unryop *)
FinishNot ==
  /\ OnNode("finish", "UNRYOP")
  /\ Node(todo[1].node).op = "NOT"
  /\ Write(NotEnd(value_type[Node(todo[1].node).right]))
  /\ todo' = Tail(todo)
  /\ UNCHANGED <<checkerVars, m_VarTable, m_BPOffset, m_CurrentSubLabel>>

(* eval_SUB_unryop: the assertion after the two cases ends the process. *)
FinishSub ==
  /\ OnNode("finish", "UNRYOP")
  /\ Node(todo[1].node).op = "SUB"
  /\ Write(SubEnd(value_type[todo[1].node]))
  /\ status' = "assert"
  /\ UNCHANGED <<prog, value_type, Scope, m_IntCount, m_FloatCount, m_PtrCount,
                 visits, todo, m_VarTable, m_BPOffset, m_CurrentSubLabel>>

(* Faulty variant: operator[] replaces an entry that is there. *)
InsertReplacing(var, entry) == [m_VarTable EXCEPT ![var] = entry]

(* unordered_map::insert keeps an entry that is already there. *)
Insert(var, entry) ==
  IF m_VarTable[var].offset = 0 THEN [m_VarTable EXCEPT ![var] = entry]
                                ELSE m_VarTable

(* eval_assing *)
FinishAssign ==
  /\ OnNode("finish", "ASSIGN")
  /\ m_VarTable' = Insert(Node(todo[1].node).name,
                          [offset |-> m_BPOffset, type |-> value_type[todo[1].node]])
  /\ Write(AssignEnd(m_BPOffset))
  /\ m_BPOffset' = m_BPOffset + 4
  /\ todo' = Tail(todo)
  /\ UNCHANGED <<checkerVars, m_CurrentSubLabel>>

(* print_value(n->value_type) *)
PrintStatement ==
  /\ Emitting("print")
  /\ todo[1].node # nullptr
  /\ Write(PrintValue(value_type[todo[1].node]))
  /\ todo' = Tail(todo)
  /\ UNCHANGED <<checkerVars, m_VarTable, m_BPOffset, m_CurrentSubLabel>>

(* n->value_type of a null statement. *)
PrintNullStatement ==
  /\ Emitting("print")
  /\ todo[1].node = nullptr
  /\ status' = "segfault"
  /\ UNCHANGED <<prog, value_type, Scope, m_IntCount, m_FloatCount, m_PtrCount,
                 visits, emitterVars>>

EndMain ==
  /\ status = "emitting"
  /\ todo = <<>>
  /\ Write(Epilogue)
  /\ status' = "compiled"
  /\ UNCHANGED <<prog, value_type, Scope, m_IntCount, m_FloatCount, m_PtrCount,
                 visits, todo, m_VarTable, m_BPOffset, m_CurrentSubLabel>>

-----------------------------------------------------------------------------
CompilerInit ==
  /\ CheckerInit
  /\ code = <<>>
  /\ m_VarTable = [x \in Names |-> [offset |-> 0, type |-> "NONE"]]
  /\ m_BPOffset = 4
  /\ m_CurrentSubLabel = 0
  /\ todo = <<>>

CompilerNext ==
  \/ CheckerNext /\ UNCHANGED emitterVars
  \/ BeginMain
  \/ EvalOperands \/ EvalNumber \/ EvalAccess \/ EvalNull
  \/ TestLeft \/ FinishLogic \/ FinishBinop
  \/ FinishNot \/ FinishSub \/ FinishAssign
  \/ PrintStatement \/ PrintNullStatement
  \/ EndMain

(* The process has ended: by an uncaught exception, an assertion, a signal, *)
(* or because the program is compiled.                                      *)
Ended == status \notin {"checking", "emitting"}

Stopped == Ended /\ UNCHANGED compilerVars

CompilerSpec == CompilerInit /\ [][CompilerNext \/ Stopped]_compilerVars

(* The process is single threaded and waits for nobody. *)
FairCompilerSpec == CompilerSpec /\ WF_compilerVars(CompilerNext)

-----------------------------------------------------------------------------
(* Properties.                                                             *)

CompilerTypeOK ==
  /\ CheckerTypeOK
  /\ status \in {"checking", "emitting", "compiled", "out_of_range", "assert", "segfault"}
  /\ code \in Seq(Instructions)
  /\ m_VarTable \in [Names -> [offset : Nat, type : ValueTypes]]
  /\ m_BPOffset \in Nat
  /\ m_CurrentSubLabel \in Nat
  /\ todo \in Seq([do : {"eval", "test", "finish", "print"}, node : Ids \cup {nullptr}])

(* No sub label is defined twice.  eval_AND_binop and eval_OR_binop use     *)
(* m_CurrentSubLabel before the right operand is compiled and move it only  *)
(* afterwards, while the right operand may move it in between.              *)
LabelsUnique ==
  \A i, j \in Labels(code) : code[i].a.n = code[j].a.n => i = j

(* Once main is complete every jump has a label to go to, although the jump *)
(* after the left operand of && and || was written with the number that     *)
(* m_CurrentSubLabel had then.                                              *)
JumpsResolve ==
  status = "compiled" =>
    \A i \in Jumps(code) : \E j \in Labels(code) : code[i].a.n = code[j].a.n

(* Every jump goes forward: the code the compiler writes cannot loop. *)
JumpsForward ==
  \A i \in Jumps(code), j \in Labels(code) : code[i].a.n = code[j].a.n => i < j

(* Why the three hold: the labels of the code are the numbers below         *)
(* m_CurrentSubLabel, once each, and a jump to m_CurrentSubLabel itself     *)
(* waits for the end of a && or || that is still to be written.             *)
FinishesLogic(task) ==
  /\ task.do = "finish"
  /\ task.node # nullptr
  /\ Node(task.node).type = "BINOP"
  /\ Node(task.node).op \in LogicOps

TestsPaired ==
  \A k \in 1 .. Len(todo) :
    todo[k].do = "test" => k + 2 \in 1 .. Len(todo) /\ FinishesLogic(todo[k + 2])

LabelInv ==
  /\ Consistent(code, m_CurrentSubLabel)
  /\ status = "checking" => code = <<>> /\ m_CurrentSubLabel = 0
  /\ status = "compiled" => todo = <<>>
  /\ TestsPaired
  /\ Waiting(code, m_CurrentSubLabel) => \E k \in 1 .. Len(todo) : FinishesLogic(todo[k])

(* eval_assing never takes a slot outside the frame that main reserves,     *)
(* whose size comes from the counts of the other pass.                      *)
SlotsInFrame ==
  status \in {"emitting", "compiled"} => m_BPOffset - 4 <= get_alloc_size

(* eval_access always finds the name, and under the type the checker gave   *)
(* the node: the two passes bind names at the same places.  (For a missing  *)
(* name eval_access would write no code and leave the stack short.)         *)
BoundWhereUsed ==
  OnNode("eval", "ACCESS") =>
    LET var == m_VarTable[Node(todo[1].node).name] IN
      var.offset # 0 /\ var.type = value_type[todo[1].node]

(* How compile ends is decided by the program: the first pass finds every   *)
(* unbound name before the second writes anything, and only then does a     *)
(* minus or a null statement end the process, whichever the walk meets      *)
(* first.  And compile always ends.                                         *)
Contract == INSTANCE Compilation WITH outcome <- IF Ended THEN status ELSE "running"

CompilerImplements == Contract!Spec

(* The message of the assertion in eval_SUB_unryop, "unryop SUB not defined *)
(* for this type": it ends the process only for a type the two cases before *)
(* it do not handle.                                                        *)
MinusAssertion ==
  status = "assert" => value_type[todo[1].node] \notin {"INT", "FLOAT"}
=============================================================================

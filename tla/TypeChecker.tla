---------------------------- MODULE TypeChecker ----------------------------
(***************************************************************************)
(* TypeChecker::check_type (TypeChecker.cpp): the first pass of            *)
(* Compiler::compile.  It writes the type of every node into the node,     *)
(* binds the assigned names in the global Scope and counts the variables   *)
(* of each type, from which the frame of the compiled program is sized.    *)
(*                                                                         *)
(* The recursion of check_type is a stack of visits: a visit "check"s a    *)
(* node, and a node with operands leaves a "return" below the visits of    *)
(* its operands.  One action is the part of a C++ function between two     *)
(* recursive calls.                                                        *)
(***************************************************************************)
EXTENDS Ast

VARIABLES
  prog,          \* the tree, never changed but for the types below
  value_type,    \* Node::value_type of every node
  Scope,         \* the type a name was first bound to, or "UNBOUND"
  m_IntCount, m_FloatCount, m_PtrCount,
  visits,        \* the activations of check_type, innermost first
  status         \* how far the process got

checkerVars == <<prog, value_type, Scope, m_IntCount, m_FloatCount,
                 m_PtrCount, visits, status>>

Node(n) == prog.node[n]
Ids     == 1 .. Len(prog.node)

Visit(do, n) == [do |-> do, node |-> n]

(* The next visit does `do' at a node of type `type'. *)
Visiting(do, type) ==
  /\ status = "checking"
  /\ visits # <<>>
  /\ visits[1].do = do
  /\ visits[1].node # nullptr
  /\ Node(visits[1].node).type = type

(* check_type stores what the case for the node returned. *)
ReturnType(t) ==
  /\ value_type' = [value_type EXCEPT ![visits[1].node] = t]
  /\ visits' = Tail(visits)

-----------------------------------------------------------------------------
(* The calls check_type makes.                                             *)

(* check_type_unryop checks the operand of '!' once, and that of '-' twice. *)
Operands(nd) ==
  CASE nd.type = "BINOP"  -> <<nd.left, nd.right>>
    [] nd.type = "UNRYOP" -> IF nd.op = "NOT" THEN <<nd.right>>
                                              ELSE <<nd.right, nd.right>>
    [] nd.type = "ASSIGN" -> <<nd.right>>
    [] OTHER              -> <<>>

Calls(n) == LET ops == Operands(Node(n)) IN
              [i \in 1 .. Len(ops) |-> Visit("check", ops[i])]

Descend ==
  /\ \/ Visiting("check", "BINOP")
     \/ Visiting("check", "UNRYOP")
     \/ Visiting("check", "ASSIGN")
  /\ LET n == visits[1].node IN
       visits' = Calls(n) \o <<Visit("return", n)>> \o Tail(visits)
  /\ UNCHANGED <<prog, value_type, Scope, m_IntCount, m_FloatCount,
                 m_PtrCount, status>>

(* if (!node) return ValueType::NONE *)
CheckNull ==
  /\ status = "checking"
  /\ visits # <<>>
  /\ visits[1].node = nullptr
  /\ visits' = Tail(visits)
  /\ UNCHANGED <<prog, value_type, Scope, m_IntCount, m_FloatCount,
                 m_PtrCount, status>>

(* check_type_num *)
CheckNum ==
  /\ Visiting("check", "NUM")
  /\ ReturnType(Node(visits[1].node).op)
  /\ UNCHANGED <<prog, Scope, m_IntCount, m_FloatCount, m_PtrCount, status>>

(* Faulty variant: an unbound name is an INT. *)
CheckAccessLenient ==
  /\ Visiting("check", "ACCESS")
  /\ LET var == Node(visits[1].node).name IN
       ReturnType(IF Scope[var] = "UNBOUND" THEN "INT" ELSE Scope[var])
  /\ UNCHANGED <<prog, Scope, m_IntCount, m_FloatCount, m_PtrCount, status>>

(* check_type_access: Scope.at throws for a name no assignment has bound,  *)
(* nothing catches it and the process ends.                                *)
CheckAccess ==
  /\ Visiting("check", "ACCESS")
  /\ LET var == Node(visits[1].node).name IN
       IF Scope[var] = "UNBOUND"
         THEN /\ status' = "out_of_range"
              /\ UNCHANGED <<value_type, visits>>
         ELSE ReturnType(Scope[var]) /\ UNCHANGED status
  /\ UNCHANGED <<prog, Scope, m_IntCount, m_FloatCount, m_PtrCount>>

-----------------------------------------------------------------------------
(* What check_type_arith_binop does with a POINTER or a NONE operand.      *)
ArithType(ltype, rtype) ==
  IF "POINTER" \in {ltype, rtype} THEN "POINTER"
  ELSE IF "FLOAT" \in {ltype, rtype} THEN "FLOAT"
  ELSE IF "INT" \in {ltype, rtype} THEN "INT"
  ELSE "POINTER"

(* Faulty variant: a comparison is given its own type. *)
BinOpTypeOfToken(nd) ==
  IF nd.op \in ArithOps THEN ArithType(value_type[nd.left], value_type[nd.right])
                        ELSE nd.op

(* Faulty variant: a comparison has the type of its operands. *)
BinOpTypeJoined(nd) == ArithType(value_type[nd.left], value_type[nd.right])

BinOpType(nd) ==
  IF nd.op \in ArithOps THEN ArithType(value_type[nd.left], value_type[nd.right])
                        ELSE "INT"

ReturnBinop ==
  /\ Visiting("return", "BINOP")
  /\ ReturnType(BinOpType(Node(visits[1].node)))
  /\ UNCHANGED <<prog, Scope, m_IntCount, m_FloatCount, m_PtrCount, status>>

ReturnUnryop ==
  /\ Visiting("return", "UNRYOP")
  /\ LET nd == Node(visits[1].node) IN
       ReturnType(IF nd.op = "NOT" THEN "INT" ELSE value_type[nd.right])
  /\ UNCHANGED <<prog, Scope, m_IntCount, m_FloatCount, m_PtrCount, status>>

(* unordered_map::emplace keeps the first type a name was bound to. *)
Emplace(var, t) ==
  IF Scope[var] = "UNBOUND" THEN [Scope EXCEPT ![var] = t] ELSE Scope

(* Faulty variant: a name is counted when it is bound, not when it is       *)
(* assigned.                                                               *)
ReturnAssignOncePerName ==
  /\ Visiting("return", "ASSIGN")
  /\ LET nd == Node(visits[1].node)
         t  == value_type[nd.right]
         new == Scope[nd.name] = "UNBOUND"
     IN  /\ m_IntCount'   = m_IntCount   + (IF new /\ t = "INT" THEN 1 ELSE 0)
         /\ m_FloatCount' = m_FloatCount + (IF new /\ t = "FLOAT" THEN 1 ELSE 0)
         /\ m_PtrCount'   = m_PtrCount   + (IF new /\ t = "POINTER" THEN 1 ELSE 0)
         /\ Scope' = Emplace(nd.name, t)
         /\ ReturnType(t)
  /\ UNCHANGED <<prog, status>>

(* check_type_assign *)
ReturnAssign ==
  /\ Visiting("return", "ASSIGN")
  /\ LET nd == Node(visits[1].node)
         t  == value_type[nd.right]
     IN  /\ m_IntCount'   = m_IntCount   + (IF t = "INT" THEN 1 ELSE 0)
         /\ m_FloatCount' = m_FloatCount + (IF t = "FLOAT" THEN 1 ELSE 0)
         /\ m_PtrCount'   = m_PtrCount   + (IF t = "POINTER" THEN 1 ELSE 0)
         /\ Scope' = Emplace(nd.name, t)
         /\ ReturnType(t)
  /\ UNCHANGED <<prog, status>>

(* Faulty variant: the floats are forgotten. *)
AllocSizeOfInts == 4 * (m_IntCount + m_PtrCount)

get_alloc_size == 4 * (m_IntCount + m_FloatCount + m_PtrCount)

-----------------------------------------------------------------------------
(* check_type(root): the ROOT case checks the statements in order. *)
CheckerInit ==
  /\ prog \in Programs
  /\ value_type = [n \in Ids |-> "NONE"]
  /\ Scope = [x \in Names |-> "UNBOUND"]
  /\ m_IntCount = 0 /\ m_FloatCount = 0 /\ m_PtrCount = 0
  /\ visits = [i \in 1 .. Len(prog.root) |-> Visit("check", prog.root[i])]
  /\ status = "checking"

CheckerNext ==
  \/ Descend
  \/ CheckNull
  \/ CheckNum
  \/ CheckAccess
  \/ ReturnBinop
  \/ ReturnUnryop
  \/ ReturnAssign

CheckerTypeOK ==
  /\ IsProgram(prog)
  /\ value_type \in [Ids -> ValueTypes]
  /\ Scope \in [Names -> ValueTypes \cup {"UNBOUND"}]
  /\ m_IntCount \in Nat /\ m_FloatCount \in Nat /\ m_PtrCount \in Nat
  /\ visits \in Seq([do : {"check", "return"}, node : Ids \cup {nullptr}])
=============================================================================

-------------------------------- MODULE Walk --------------------------------
(***************************************************************************)
(* Why the two passes of the compiler agree.  Both walk the tree in the    *)
(* same order (the checker walks the operand of a minus twice), so what a  *)
(* walk does to the names of the program can be read off the tree.  The    *)
(* effect of a walk is                                                     *)
(*   slots   how many assignments it finishes,                             *)
(*   first   the assignment that binds a name first, nullptr for none,     *)
(*   reads   the names it reads before it has assigned them.               *)
(* EffectInv compares what a pass has done, and what its stack still owes, *)
(* with the effect of the whole program; OrderInv says in which order the  *)
(* second pass comes to what may end the process.                          *)
(***************************************************************************)
EXTENDS Compiler

Effects == [slots : Nat, first : [Names -> Nat], reads : SUBSET Names]

Nothing == [slots |-> 0, first |-> [x \in Names |-> nullptr], reads |-> {}]

Reading(x)    == [slots |-> 0, first |-> [y \in Names |-> nullptr], reads |-> {x}]
Binding(x, n) == [slots |-> 1, first |-> [y \in Names |-> IF y = x THEN n ELSE nullptr],
                  reads |-> {}]

(* One walk, and then another. *)
Then(a, b) ==
  [slots |-> a.slots + b.slots,
   first |-> [x \in Names |-> IF a.first[x] # nullptr THEN a.first[x] ELSE b.first[x]],
   reads |-> a.reads \cup {x \in b.reads : a.first[x] = nullptr}]

(* The effect of the walk of node n, from the effects w of its operands. *)
NodeEffect(p, w, n) ==
  IF n = nullptr THEN Nothing
  ELSE CASE p.node[n].type = "ACCESS" -> Reading(p.node[n].name)
         [] p.node[n].type = "BINOP"  -> Then(w[p.node[n].left], w[p.node[n].right])
         [] p.node[n].type = "UNRYOP" -> w[p.node[n].right]
         [] p.node[n].type = "ASSIGN" -> Then(w[p.node[n].right], Binding(p.node[n].name, n))
         [] OTHER                     -> Nothing

WalkOf(p) == LET w[n \in 0 .. Len(p.node)] == NodeEffect(p, w, n) IN w

(* What an activation of either pass still does; the rest of an assignment  *)
(* is the binding itself.                                                  *)
Part(p, act) ==
  CASE act.do \in {"check", "eval"} -> WalkOf(p)[act.node]
    [] /\ act.do \in {"return", "finish"}
       /\ act.node # nullptr
       /\ p.node[act.node].type = "ASSIGN" -> Binding(p.node[act.node].name, act.node)
    [] OTHER -> Nothing

(* The effect of the last i activations of a stack, and of the whole stack. *)
OwedBy(p, acts) ==
  LET owed[i \in 0 .. Len(acts)] ==
        IF i = 0 THEN Nothing ELSE Then(Part(p, acts[Len(acts) - i + 1]), owed[i - 1])
  IN  owed
Owed(p, acts) == OwedBy(p, acts)[Len(acts)]

Total(p) == Owed(p, [i \in 1 .. Len(p.root) |-> Visit("check", p.root[i])])

-----------------------------------------------------------------------------
(* The types the checker has given. *)

Typed(n) == value_type[n] # "NONE"

OperandsOf(n) ==
  LET nd == Node(n) IN
    CASE nd.type = "BINOP"                -> {nd.left, nd.right}
      [] nd.type \in {"UNRYOP", "ASSIGN"} -> {nd.right}
      [] OTHER                            -> {}

(* The type that the types of the operands, and Scope, give a node.  It is  *)
(* the same on a second visit.                                             *)
TypeOf(n) ==
  LET nd == Node(n) IN
    CASE nd.type = "NUM"    -> nd.op
      [] nd.type = "ACCESS" -> Scope[nd.name]
      [] nd.type = "BINOP"  -> BinOpType(nd)
      [] nd.type = "UNRYOP" -> IF nd.op = "NOT" THEN "INT" ELSE value_type[nd.right]
      [] nd.type = "ASSIGN" -> value_type[nd.right]

TypesFollow ==
  /\ \A n \in Ids : Typed(n) => /\ \A o \in OperandsOf(n) : Typed(o)
                                /\ value_type[n] = TypeOf(n)
  /\ \A x \in Names : Scope[x] # "NONE"

(* What has no type is still to be visited: an operand before the return of *)
(* its node, a statement at some time.                                     *)
VisitsTyped ==
  /\ \A k \in 1 .. Len(visits) : visits[k].do = "return" =>
       /\ visits[k].node # nullptr
       /\ \A o \in OperandsOf(visits[k].node) :
            Typed(o) \/ \E j \in 1 .. k - 1 : visits[j].node = o
  /\ \A i \in 1 .. Len(prog.root) :
       \/ prog.root[i] = nullptr
       \/ Typed(prog.root[i])
       \/ \E j \in 1 .. Len(visits) : visits[j].node = prog.root[i]

TodoTyped == \A k \in 1 .. Len(todo) : todo[k].node = nullptr \/ Typed(todo[k].node)

Bound(x) == Scope[x] # "UNBOUND"

(* Scope has the type of the assignment that binds the name first. *)
ScopeFirst ==
  \A x \in Names : Bound(x) =>
    Total(prog).first[x] \in Ids /\ Scope[x] = value_type[Total(prog).first[x]]

(* The checker: no slot is forgotten, a name without a type is bound by     *)
(* what is still to be visited, and the names that the program reads before *)
(* it assigns them are those without a type that are still to be read so.   *)
CheckerInv ==
  LET rest == Owed(prog, visits) IN
    /\ Total(prog).slots <= m_IntCount + m_FloatCount + m_PtrCount + rest.slots
    /\ \A x \in Names : ~ Bound(x) => rest.first[x] = Total(prog).first[x]
    /\ Total(prog).reads = {x \in rest.reads : ~ Bound(x)}
    /\ m_BPOffset = 4
    /\ \A x \in Names : m_VarTable[x].offset = 0

(* The code generator: the same for m_VarTable, but nothing is read too     *)
(* early, and the slots are as many as the walk takes.                     *)
EmitterInv ==
  LET rest == Owed(prog, todo) IN
    /\ 4 * Total(prog).slots <= get_alloc_size
    /\ m_BPOffset >= 4
    /\ m_BPOffset + 4 * rest.slots = 4 + 4 * Total(prog).slots
    /\ \A x \in Names :
         IF m_VarTable[x].offset = 0
           THEN rest.first[x] = Total(prog).first[x] /\ x \notin rest.reads
           ELSE /\ Total(prog).first[x] \in Ids
                /\ m_VarTable[x].type = value_type[Total(prog).first[x]]

(* The first pass ends the process exactly for a program that reads a name  *)
(* before it assigns it, wherever that is: under a && or || that skips the   *)
(* read, or behind an assignment that is skipped.                          *)
UnboundFound ==
  /\ status = "out_of_range" => Total(prog).reads # {}
  /\ status \notin {"checking", "out_of_range"} => Total(prog).reads = {}

(* The two passes have the same effect: that of the program.               *)
EffectInv ==
  /\ TypesFollow
  /\ ScopeFirst
  /\ UnboundFound
  /\ status = "checking" => VisitsTyped /\ CheckerInv
  /\ status = "emitting" => TodoTyped
  /\ status \in {"emitting", "compiled"} => EmitterInv

(* How the second pass ends the process is decided by the program because   *)
(* the walk finishes the nodes in the order of their numbers.              *)
ASSUME OrderAssumption == \A p \in Programs : InTextOrder(p)

(* An activation of the code generator finishes node m, here or below. *)
Finishes(task, m) ==
  \/ task.do = "eval" /\ FirstNode(prog)[task.node] <= m /\ m <= task.node
  \/ task.do = "finish" /\ task.node = m

NullPrints == {b \in 1 .. Len(todo) : todo[b] = Task("print", nullptr)}

(* Every minus is still to be finished. *)
MinusAhead ==
  \A m \in Ids : Contract!IsMinus(Node(m)) =>
    \E i \in 1 .. Len(todo) : Finishes(todo[i], m)

(* Every null statement is still to be printed, and what is done before     *)
(* that is at nodes of the statements before.                              *)
NullsAhead ==
  \A k \in Contract!NullStatements(prog) : \E b \in NullPrints : \A i \in 1 .. b - 1 :
    todo[i].node = nullptr \/ \E s \in 1 .. k - 1 : todo[i].node <= prog.root[s]

(* What is done behind the print of a null statement is at nodes of the     *)
(* statements behind it.                                                   *)
NullsApart ==
  \A b \in NullPrints : \E k \in Contract!NullStatements(prog) :
    \A i \in b + 1 .. Len(todo), m \in Ids :
      Finishes(todo[i], m) => \A s \in 1 .. k - 1 : prog.root[s] < m

OrderInv == status = "emitting" => MinusAhead /\ NullsAhead /\ NullsApart

(* What the two passes have in common, and in which order the second works. *)
PassesInv == EffectInv /\ OrderInv
=============================================================================

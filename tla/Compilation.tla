---------------------------- MODULE Compilation ----------------------------
(***************************************************************************)
(* What Compiler::compile promises to main: it comes to an end, and how it *)
(* ends is decided by the program alone.  It writes main, or the process   *)
(* dies in one of three ways (no part of the code reports an error).       *)
(*                                                                         *)
(* The nodes of a program are numbered in the order of the text, so that a *)
(* smaller number is earlier in both passes of the compiler.               *)
(***************************************************************************)
EXTENDS Ast

VARIABLES
  prog,    \* the program
  outcome  \* "running", or how compile ended

vars == <<prog, outcome>>

(* A read of a name that no assignment has bound before.  Null statements,  *)
(* and operands that the compiled program would skip, count like all others. *)
Unbound(p, n) ==
  /\ p.node[n].type = "ACCESS"
  /\ \A m \in 1 .. n - 1 :
       p.node[m].type = "ASSIGN" => p.node[m].name # p.node[n].name

IsMinus(nd) == nd.type = "UNRYOP" /\ nd.op = "SUB"

(* The last node of the statements before the k-th. *)
LastBefore(p, k) ==
  LET earlier == {p.root[i] : i \in 1 .. k - 1} \cup {0} IN
    CHOOSE n \in earlier : \A m \in earlier : m <= n

NullStatements(p) == {k \in 1 .. Len(p.root) : p.root[k] = nullptr}

(* A minus that the second pass finishes before it meets a null statement. *)
MinusFirst(p) ==
  \E n \in 1 .. Len(p.node) :
    IsMinus(p.node[n]) /\ \A k \in NullStatements(p) : n <= LastBefore(p, k)

(* The first pass goes over the whole program before the second begins: a   *)
(* name unbound anywhere comes before a minus or an empty line.             *)
Outcome(p) ==
  IF \E n \in 1 .. Len(p.node) : Unbound(p, n) THEN "out_of_range"
  ELSE IF MinusFirst(p) THEN "assert"
  ELSE IF NullStatements(p) # {} THEN "segfault"
  ELSE "compiled"

Init == prog \in Programs /\ outcome = "running"

Compile ==
  /\ outcome = "running"
  /\ outcome' = Outcome(prog)
  /\ UNCHANGED prog

Spec == Init /\ [][Compile]_vars /\ WF_vars(Compile)
=============================================================================

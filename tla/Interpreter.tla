---------------------------- MODULE Interpreter ----------------------------
(***************************************************************************)
(* What compiling and running a program promises to the user: the value of *)
(* every statement is printed, in the order of the lines, and then the     *)
(* process ends, unless it has no memory for its heap: then it prints no   *)
(* value at all.                                                           *)
(***************************************************************************)
EXTENDS Ast

CONSTANT Meaning  \* the value of every statement of every program

VARIABLES
  prog,     \* the program
  printed,  \* the values printed so far
  outcome   \* "running", "done" or "failed"

vars == <<prog, printed, outcome>>

Init == prog \in Programs /\ printed = <<>> /\ outcome = "running"

PrintNext ==
  /\ outcome = "running"
  /\ Len(printed) < Len(prog.root)
  /\ printed' = Append(printed, Meaning[prog][Len(printed) + 1])
  /\ UNCHANGED <<prog, outcome>>

End ==
  /\ outcome = "running"
  /\ Len(printed) = Len(prog.root)
  /\ outcome' = "done"
  /\ UNCHANGED <<prog, printed>>

NoHeap ==
  /\ outcome = "running"
  /\ printed = <<>>
  /\ outcome' = "failed"
  /\ UNCHANGED <<prog, printed>>

Next == PrintNext \/ End \/ NoHeap

Spec == Init /\ [][Next]_vars /\ WF_vars(Next)
=============================================================================

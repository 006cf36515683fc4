---------------------------- MODULE ProgramSets ----------------------------
(***************************************************************************)
(* Programs for the model checker.  An expression is the sequence of its   *)
(* nodes in the order in which the parser allocates them: operands first,  *)
(* the root of the expression last.  A null statement is the empty         *)
(* sequence.                                                               *)
(***************************************************************************)
EXTENDS Ast

(* The same expression after k nodes have been allocated. *)
Shift(e, k) ==
  [i \in DOMAIN e |->
     [e[i] EXCEPT !.left  = IF @ = nullptr THEN nullptr ELSE @ + k,
                  !.right = IF @ = nullptr THEN nullptr ELSE @ + k]]

Num(v)    == <<NumNode("INT", v)>>
Flt(v)    == <<NumNode("FLOAT", v)>>
Var(x)    == <<AccessNode(x)>>
Let(x, e) == Append(e, AssignNode(x, Len(e)))
Un(op, e) == Append(e, UnryOpNode(op, Len(e)))
Bin(op, l, r) ==
  l \o Shift(r, Len(l)) \o <<BinOpNode(op, Len(l), Len(l) + Len(r))>>

(* One line of input after another. *)
AddLine(p, e) ==
  [node |-> p.node \o Shift(e, Len(p.node)),
   root |-> Append(p.root, IF e = <<>> THEN nullptr ELSE Len(p.node) + Len(e))]

(* What the first k lines make, and all of them. *)
Built(lines) ==
  LET after[k \in 0 .. Len(lines)] ==
        IF k = 0 THEN [node |-> <<>>, root |-> <<>>] ELSE AddLine(after[k - 1], lines[k])
  IN  after
Program(lines) == Built(lines)[Len(lines)]

(* The expressions one level above a set of operands. *)
Above(operands, binops, unops) ==
  {Bin(op, l, r) : op \in binops, l \in operands, r \in operands}
    \cup {Un(op, e) : op \in unops, e \in operands}
=============================================================================

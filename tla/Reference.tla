----------------------------- MODULE Reference -----------------------------
(***************************************************************************)
(* What a program means: the value of each statement, by a big-step        *)
(* evaluation of the tree.  It is the reference that compiled programs are *)
(* compared with; it knows nothing of stacks, labels and registers.        *)
(*                                                                         *)
(* A name is bound by the first assignment to it in the text; a later      *)
(* assignment has its value but leaves the name alone, as the two passes   *)
(* of the compiler have it (emplace in TypeChecker.cpp, insert in          *)
(* Compiler.cpp).                                                          *)
(***************************************************************************)
EXTENDS Ast, Values
LOCAL INSTANCE SequencesExt

CONSTANT X87Limit  \* how many float comparisons a run of a program may make

(* The state of an evaluation: the variables, how many float comparisons    *)
(* were made, and whether every operation so far was one that the language  *)
(* gives a meaning. *)
States == [env : [Names -> Words], compared : Nat, ok : BOOLEAN]
Start  == [env |-> [x \in Names |-> Undef], compared |-> 0, ok |-> TRUE]

FirstAssign(p, x) ==
  CHOOSE n \in DOMAIN p.node :
    /\ p.node[n].type = "ASSIGN" /\ p.node[n].name = x
    /\ \A m \in 1 .. n - 1 : p.node[m].type = "ASSIGN" => p.node[m].name # x

Result(v, st)   == [val |-> v, st |-> st]
Require(st, c)  == [st EXCEPT !.ok = @ /\ c]
IsZero(w)       == w.n = 0

(* Unsigned division agrees with the division of the language on operands   *)
(* that are not negative. *)
ArithOk(op, x, y) ==
  op = "DIV" => ~ IsZero(y) /\ (x.k = "int" /\ y.k = "int" => x.n >= 0 /\ y.n > 0)

Arith(op, x, y) ==
  IF x.k = "int" /\ y.k = "int" THEN IntArith(op, x, y)
                                ELSE FloatArith(op, ToFloat(x), ToFloat(y))

Holds(op, x, y) ==
  CASE op = "EQUAL"      -> SameValue(x, y)
    [] op = "LESS"       -> Smaller(x, y)
    [] op = "GREATER"    -> Smaller(y, x)
    [] op = "LESS_EQ"    -> ~ Smaller(y, x)
    [] op = "GREATER_EQ" -> ~ Smaller(x, y)

HasLogic(p, n) ==
  LET below[m \in 0 .. Len(p.node)] ==
        IF m = 0 THEN FALSE
        ELSE LET nd == p.node[m] IN
               nd.op \in LogicOps \/ below[nd.left] \/ below[nd.right]
  IN  below[n]

(* An operator that evaluates both operands.  Nothing has a meaning that     *)
(* depends on a word never written.                                         *)
Operation(op, x, y, st) ==
  LET counted == IF op \in CmpOps /\ "float" \in {x.k, y.k}
                   THEN [st EXCEPT !.compared = @ + 1] ELSE st
      defined == /\ Undef \notin {x, y}
                 /\ op \in ArithOps => ArithOk(op, x, y)
                 /\ counted.compared <= X87Limit
  IN  IF ~ defined THEN Result(Undef, Require(st, FALSE))
      ELSE Result(IF op \in ArithOps THEN Arith(op, x, y) ELSE Truth(Holds(op, x, y)), counted)

(* Operands are evaluated from left to right, the right one of && and ||    *)
(* only if the left one does not decide. *)
Evaluate(p) ==
  LET
    Eval[n \in Nat, st \in States] ==
      LET nd == p.node[n] IN
      CASE nd.type = "NUM" ->
             Result(IF nd.op = "INT" THEN IntWord(nd.num) ELSE FloatWord(nd.num, 1), st)
        [] nd.type = "ACCESS" ->
             Result(st.env[nd.name], Require(st, st.env[nd.name] # Undef))
        [] nd.type = "ASSIGN" ->
             LET r == Eval[nd.right, st] IN
               IF n = FirstAssign(p, nd.name)
                 THEN Result(r.val, [r.st EXCEPT !.env[nd.name] = r.val])
                 ELSE r
        [] nd.type = "UNRYOP" /\ nd.op = "NOT" ->
             LET r == Eval[nd.right, st] IN Result(Truth(IsZero(r.val)), r.st)
        [] nd.type = "UNRYOP" /\ nd.op = "SUB" ->
             Result(Undef, Require(st, FALSE))
        [] nd.type = "BINOP" /\ nd.op \in LogicOps ->
             LET l == Eval[nd.left, st]
                 s == Require(l.st, ~ HasLogic(p, nd.right))
             IN  IF IsZero(l.val) <=> nd.op = "KW_AND"
                   THEN Result(Truth(nd.op = "KW_OR"), s)
                   ELSE LET r == Eval[nd.right, s] IN Result(Truth(~ IsZero(r.val)), r.st)
        [] nd.type = "BINOP" /\ nd.op \notin LogicOps ->
             LET l == Eval[nd.left, st]
                 r == Eval[nd.right, l.st]
             IN  Operation(nd.op, l.val, r.val, r.st)
  IN Eval

(* The values of the statements, in order, and the state they leave. *)
Run(p) ==
  LET Eval == Evaluate(p) IN
    FoldLeft(LAMBDA acc, n :
               IF n = nullptr THEN Result(acc.val, Require(acc.st, FALSE))
               ELSE LET r == Eval[n, acc.st] IN Result(Append(acc.val, r.val), r.st),
             Result(<<>>, Start), p.root)

ValuesOf(p) == Run(p).val

(* Every operation of the program has a meaning that the compiler is able   *)
(* to give it. *)
Meaningful(p) == Run(p).st.ok
=============================================================================

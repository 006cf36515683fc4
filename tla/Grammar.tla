------------------------------ MODULE Grammar ------------------------------
(***************************************************************************)
(* What the parser promises for a line of tokens, from the grammar that    *)
(* its functions stand for:                                                *)
(*                                                                         *)
(*   expression ::= ID ASSIGN expression | logic                           *)
(*   logic      ::= comp  | logic (KW_AND | KW_OR) comp                    *)
(*   comp       ::= arith | comp (EQUAL | LESS | ...) arith                *)
(*   arith      ::= term  | arith (ADD | SUB) term                         *)
(*   term       ::= factor | term (MUL | DIV) factor                       *)
(*   factor     ::= (NOT | SUB) factor | atom                              *)
(*   atom       ::= INT | FLOAT | ID | LROUND expression RROUND            *)
(*                                                                         *)
(* A line that is an expression gives the tree of the expression.  Of      *)
(* another line the parser may take the longest beginning that is one.     *)
(***************************************************************************)
EXTENDS ProgramSets
LOCAL INSTANCE FiniteSetsExt

CONSTANT Lines

VARIABLES
  line,    \* the tokens
  answer   \* what became of them

vars == <<line, answer>>

LevelOps == [logic |-> LogicOps, comp |-> CmpOps, arith |-> {"ADD", "SUB"}, term |-> {"MUL", "DIV"}]
Below    == [logic |-> "comp", comp |-> "arith", arith |-> "term", term |-> "factor"]
Symbols  == {"expression", "logic", "comp", "arith", "term", "factor", "atom"}

(* The trees of t[i..j] as the symbol s of the grammar. *)
Derivations(t) ==
  LET
    Derived[s \in Symbols, i, j \in 1 .. Len(t)] ==
      CASE s = "expression" ->
             (IF i + 2 <= j /\ t[i].type = "ID" /\ t[i + 1].type = "ASSIGN"
                THEN {Let(t[i].name, e) : e \in Derived["expression", i + 2, j]} ELSE {})
               \cup Derived["logic", i, j]
        [] s \in DOMAIN LevelOps ->
             Derived[Below[s], i, j]
               \cup UNION {{Bin(t[k].type, l, r) : l \in Derived[s, i, k - 1],
                                                   r \in Derived[Below[s], k + 1, j]} :
                             k \in {k \in i + 1 .. j - 1 : t[k].type \in LevelOps[s]}}
        [] s = "factor" ->
             (IF i < j /\ t[i].type \in UnaryOps
                THEN {Un(t[i].type, e) : e \in Derived["factor", i + 1, j]} ELSE {})
               \cup Derived["atom", i, j]
        [] s = "atom" /\ i = j ->
             CASE t[i].type \in NumberTokens -> {<<NumNode(t[i].type, t[i].num)>>}
               [] t[i].type = "ID"           -> {Var(t[i].name)}
               [] OTHER                      -> {}
        [] s = "atom" /\ i # j ->
             IF i + 2 <= j /\ t[i].type = "LROUND" /\ t[j].type = "RROUND"
               THEN Derived["expression", i + 1, j - 1] ELSE {}
  IN Derived

Trees(t) == IF t = <<>> THEN {} ELSE Derivations(t)["expression", 1, Len(t)]

(* The parser sees the last token of a line again and again: m_CurrentToken *)
(* stays on it.  Parentheses still open at the end of the line are closed   *)
(* by its last token, if that is a ')'.                                     *)
Opening(t) == Cardinality({i \in 1 .. Len(t) : t[i].type = "LROUND"})
Repeated(t) == t \o [i \in 1 .. Opening(t) |-> t[Len(t)]]

(* The longest beginning that is an expression. *)
LongestPrefix(t) ==
  LET r    == Repeated(t)
      good == {n \in 1 .. Len(r) : Trees(SubSeq(r, 1, n)) # {}}
  IN  IF good = {} THEN <<>> ELSE SubSeq(r, 1, Max(good))

Tree(nodes) == [kind |-> "tree", nodes |-> nodes, root |-> Len(nodes)]

(* A '(' behind something that could be called. *)
CallWritten(t) ==
  \E i \in 1 .. Len(t) - 1 :
    t[i].type \in NumberTokens \cup {"ID", "RROUND"} /\ t[i + 1].type = "LROUND"

(* What may become of a line.  An empty one has the tree nullptr; a line    *)
(* that is an expression has its tree; another is cut, refused, or ends the *)
(* process: by the exit(-1) for a call, or by calls without end for a '('   *)
(* at its end.                                                              *)
Answers(t) ==
  IF t = <<>> THEN {Tree(<<>>)}
  ELSE IF Trees(t) # {} THEN {Tree(e) : e \in Trees(t)}
  ELSE {Tree(e) : e \in Trees(LongestPrefix(t))}
         \cup {[kind |-> "error"]}
         \cup (IF CallWritten(t) THEN {[kind |-> "exit"]} ELSE {})
         \cup (IF t[Len(t)].type = "LROUND" THEN {[kind |-> "segfault"]} ELSE {})

Init == line \in Lines /\ answer = [kind |-> "none"]

Reply ==
  /\ answer.kind = "none"
  /\ answer' \in Answers(line)
  /\ UNCHANGED line

(* Every line has an answer, and Reply can always give it. *)
Spec == Init /\ [][Reply]_vars /\ <>(answer.kind # "none")
=============================================================================

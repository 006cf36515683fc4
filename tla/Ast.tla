-------------------------------- MODULE Ast --------------------------------
(***************************************************************************)
(* The abstract syntax tree that the parser builds and the type checker    *)
(* and the code generator walk (Parser.h).  A Node* is the number of the   *)
(* node in the order in which the parser allocates it, so an operand has a *)
(* smaller number than its operator; nullptr is 0.                         *)
(***************************************************************************)
EXTENDS Integers, Sequences

CONSTANTS
  Names,     \* the identifiers a program may use
  Literals,  \* the values a number token may carry
  Programs   \* the programs that are compiled, see IsProgram

nullptr == 0

(* enum class TokenType, as far as it appears in a tree. *)
NumberTokens == {"INT", "FLOAT"}
ArithOps     == {"ADD", "SUB", "MUL", "DIV"}
LogicOps     == {"KW_AND", "KW_OR"}
CmpOps       == {"EQUAL", "LESS", "GREATER", "LESS_EQ", "GREATER_EQ"}
UnaryOps     == {"SUB", "NOT"}
Tokens       == NumberTokens \cup ArithOps \cup LogicOps \cup CmpOps
                  \cup UnaryOps \cup {"NONE"}

ValueTypes == {"INT", "FLOAT", "POINTER", "NONE"}
NodeTypes  == {"NUM", "BINOP", "UNRYOP", "ASSIGN", "ACCESS"}

(* One record for the variants of NodeValue: op is the token of a NUM, a   *)
(* BINOP or an UNRYOP, right also holds the operand of an UNRYOP and the   *)
(* expression of an ASSIGN, name is the variable, num the literal.         *)
Nodes == [type : NodeTypes, op : Tokens, left : Nat, right : Nat,
          name : Names \cup {""}, num : Literals \cup {0}]

NumNode(tok, v)     == [type |-> "NUM", op |-> tok, left |-> nullptr,
                        right |-> nullptr, name |-> "", num |-> v]
BinOpNode(op, l, r) == [type |-> "BINOP", op |-> op, left |-> l,
                        right |-> r, name |-> "", num |-> 0]
UnryOpNode(op, r)   == [type |-> "UNRYOP", op |-> op, left |-> nullptr,
                        right |-> r, name |-> "", num |-> 0]
AssignNode(x, e)    == [type |-> "ASSIGN", op |-> "NONE", left |-> nullptr,
                        right |-> e, name |-> x, num |-> 0]
AccessNode(x)       == [type |-> "ACCESS", op |-> "NONE", left |-> nullptr,
                        right |-> nullptr, name |-> x, num |-> 0]

(* What the parser guarantees of a node: its operands exist and were       *)
(* allocated before it.                                                    *)
WellFormed(node, n) ==
  LET nd == node[n] IN
    /\ nd.type = "NUM"    => nd.op \in NumberTokens
    /\ nd.type = "BINOP"  => /\ nd.op \in ArithOps \cup LogicOps \cup CmpOps
                             /\ nd.left \in 1 .. n - 1
                             /\ nd.right \in 1 .. n - 1
    /\ nd.type = "UNRYOP" => nd.op \in UnaryOps /\ nd.right \in 1 .. n - 1
    /\ nd.type = "ASSIGN" => nd.name \in Names /\ nd.right \in 1 .. n - 1
    /\ nd.type = "ACCESS" => nd.name \in Names

(* NodeValues::Root: the nodes, and one statement per line the user typed; *)
(* main pushes a null statement for a line without tokens.                 *)
IsProgram(p) ==
  /\ p = [node |-> p.node, root |-> p.root]
  /\ p.node \in Seq(Nodes)
  /\ p.root \in Seq(0 .. Len(p.node))
  /\ \A n \in 1 .. Len(p.node) : WellFormed(p.node, n)

(* The first node of the tree below each node. *)
FirstNode(p) ==
  LET first[n \in 0 .. Len(p.node)] ==
        IF n = nullptr THEN nullptr
        ELSE LET nd == p.node[n] IN
               CASE nd.type = "BINOP"              -> first[nd.left]
                 [] nd.type \in {"UNRYOP", "ASSIGN"} -> first[nd.right]
                 [] OTHER                          -> n
  IN  first

(* The numbers follow the text: the tree below a node is the node and all   *)
(* those from its first one on, the right operand directly before it, the   *)
(* left one before the tree of the right; and the trees of the statements   *)
(* follow each other and leave no node out.                                *)
InTextOrder(p) ==
  LET first == FirstNode(p) IN
    /\ \A n \in 1 .. Len(p.node) :
         LET nd == p.node[n] IN
           /\ nd.type \in {"BINOP", "UNRYOP", "ASSIGN"} => nd.right = n - 1
           /\ nd.type = "BINOP" => nd.left = first[nd.right] - 1
           /\ \E k \in 1 .. Len(p.root) : first[p.root[k]] <= n /\ n <= p.root[k]
    /\ \A k \in 1 .. Len(p.root) : p.root[k] # nullptr =>
         \A i \in 1 .. k - 1 : p.root[i] < first[p.root[k]]

ASSUME LiteralsAssumption == Literals \subseteq Int
ASSUME ProgramsAssumption == \A p \in Programs : IsProgram(p)
=============================================================================

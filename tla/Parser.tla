------------------------------- MODULE Parser -------------------------------
(***************************************************************************)
(* The recursive descent parser (Parser.cpp) over the tokens of one line.  *)
(*                                                                         *)
(* The recursion is a stack of activations, innermost first.  An           *)
(* activation without a node waits for its first operand; `ret' is the     *)
(* node that an activation has just returned, nullptr while none has.      *)
(* The chain of calls from a grammar level down to factor(), in which      *)
(* nothing else happens, is one step.                                      *)
(*                                                                         *)
(* Indices count from 0, as in the code.  m_CurrentToken is the index of   *)
(* the token it points to.                                                 *)
(***************************************************************************)
EXTENDS Ast, FiniteSets

CONSTANTS
  Lines,      \* the lines that are parsed, as sequences of tokens
  StackDepth  \* how many activations the stack of the process holds

ASSUME StackDepthAssumption == StackDepth \in Nat

(* enum class TokenType: what the lexer makes is used here, the others      *)
(* (LCURLY, RCURLY, SEMICLN, IF, ELSE) no function ever looks for.          *)
TokenTypes == (Tokens \ {"NONE"}) \cup {"LROUND", "RROUND", "ASSIGN", "ID"}
TokenRecords == [type : TokenTypes, name : Names \cup {""}, num : Literals \cup {0}]

(* What the lexer hands over: the token of a name carries it. *)
IsLine(tokens) ==
  /\ tokens \in Seq(TokenRecords)
  /\ \A i \in 1 .. Len(tokens) : tokens[i].type = "ID" => tokens[i].name \in Names

ASSUME LinesAssumption == \A tokens \in Lines : IsLine(tokens)

VARIABLES
  m_Tokens, m_TokenIndex, m_CurrentToken,
  node,       \* the nodes allocated for the line
  calls,      \* the activations, innermost first
  ret,        \* the node the last activation returned
  parsing,    \* how far parse_nodes got, and how it ended
  error       \* the token at which an error is shown

parserVars == <<m_Tokens, m_TokenIndex, m_CurrentToken, node, calls, ret, parsing, error>>

Size         == Len(m_Tokens)
Token(i)     == m_Tokens[i + 1]
CurrentType  == Token(m_CurrentToken).type

(* Faulty variant: the right operand is parsed by the level itself. *)
OperandOwnLevel == [logic |-> "logic", comp |-> "comp", arith |-> "arith", term |-> "term"]

(* The operators of each level that binop_expression is called for, and     *)
(* the function it calls for the operands.                                  *)
Levels  == {"logic", "comp", "arith", "term"}
Ops     == [logic |-> LogicOps, comp |-> CmpOps, arith |-> {"ADD", "SUB"}, term |-> {"MUL", "DIV"}]
Operand == [logic |-> "comp", comp |-> "arith", arith |-> "term", term |-> "factor"]

Functions   == Levels \cup {"expression", "assign", "factor", "unary", "paren", "callable"}
Activations == [fn : Functions, left : Nat, token : Nat]

Call(fn, left, token) == [fn |-> fn, left |-> left, token |-> token]
Calling(fn)           == Call(fn, nullptr, 0)

(* The calls from a level down to factor(), innermost first. *)
Descent(fn) ==
  LET below == [factor |-> <<"factor">>,
                term   |-> <<"factor", "term">>,
                arith  |-> <<"factor", "term", "arith">>,
                comp   |-> <<"factor", "term", "arith", "comp">>,
                logic  |-> <<"factor", "term", "arith", "comp", "logic">>]
  IN  [i \in DOMAIN below[fn] |-> Calling(below[fn][i])]

-----------------------------------------------------------------------------
(* advance and retreat; advance leaves m_CurrentToken on the last token.    *)

(* Where the token `current' leads when m_TokenIndex becomes i. *)
CurrentAt(i, current) == IF i < Size THEN i ELSE current
NextToken == CurrentAt(m_TokenIndex + 1, m_CurrentToken)

advance ==
  /\ m_TokenIndex' = m_TokenIndex + 1
  /\ m_CurrentToken' = NextToken

Stay == UNCHANGED <<m_TokenIndex, m_CurrentToken>>

(* The innermost activation is one of fn, and still to be run, or resumed   *)
(* with the node its last call returned.                                    *)
Entered(fn) == parsing = "running" /\ calls # <<>> /\ calls[1].fn = fn /\ ret = nullptr
Resumed(fn) == parsing = "running" /\ calls # <<>> /\ calls[1].fn = fn /\ ret # nullptr

(* Calls made by the innermost activation, which becomes `self'. *)
Push(new, self) ==
  /\ calls' = new \o <<self>> \o Tail(calls)
  /\ ret' = nullptr
  /\ UNCHANGED <<parsing, error>>

Return(n) ==
  /\ calls' = Tail(calls)
  /\ ret' = n
  /\ UNCHANGED <<parsing, error>>

Allocate(nd) == node' = Append(node, nd)
NewNode      == Len(node) + 1

(* Every caller hands an error on at once. *)
Fail(token) ==
  /\ parsing' = "error"
  /\ error' = token
  /\ calls' = <<>>
  /\ ret' = nullptr

-----------------------------------------------------------------------------
(* expression(): a name that '=' follows is assigned.                      *)

Follows(type) == Token(NextToken).type = type

BeginAssign ==
  /\ Entered("expression")
  /\ CurrentType = "ID" /\ Follows("ASSIGN")
  /\ m_TokenIndex' = m_TokenIndex + 2
  /\ m_CurrentToken' = CurrentAt(m_TokenIndex + 2, NextToken)
  /\ Push(<<Calling("expression")>>, Call("assign", nullptr, m_CurrentToken))
  /\ UNCHANGED <<m_Tokens, node>>

EndAssign ==
  /\ Resumed("assign")
  /\ Allocate(AssignNode(Token(calls[1].token).name, ret))
  /\ Return(NewNode)
  /\ Stay
  /\ UNCHANGED m_Tokens

(* Faulty variant: the index stays behind the name. *)
RetreatTokenOnly ==
  /\ Entered("expression")
  /\ CurrentType = "ID" /\ ~ Follows("ASSIGN")
  /\ m_TokenIndex' = m_TokenIndex + 1
  /\ calls' = Descent("logic") \o Tail(calls)
  /\ UNCHANGED <<m_Tokens, m_CurrentToken, node, ret, parsing, error>>

(* Otherwise it retreats to the name. *)
RetreatToName ==
  /\ Entered("expression")
  /\ CurrentType = "ID" /\ ~ Follows("ASSIGN")
  /\ m_CurrentToken' = m_TokenIndex
  /\ calls' = Descent("logic") \o Tail(calls)
  /\ UNCHANGED <<m_Tokens, m_TokenIndex, node, ret, parsing, error>>

BeginExpression ==
  /\ Entered("expression")
  /\ CurrentType # "ID"
  /\ calls' = Descent("logic") \o Tail(calls)
  /\ Stay
  /\ UNCHANGED <<m_Tokens, node, ret, parsing, error>>

-----------------------------------------------------------------------------
(* binop_expression(): an operand has been parsed.                         *)

(* Faulty variant: the operands change places. *)
JoinedSwapped ==
  LET self == calls[1] IN
    IF self.left = nullptr
      THEN [nodes |-> node, left |-> ret]
      ELSE [nodes |-> Append(node, BinOpNode(Token(self.token).type, ret, self.left)),
            left |-> NewNode]

(* Faulty variant: the node before the operator goes on as the left one. *)
JoinedKeepsLeft ==
  LET self == calls[1] IN
    IF self.left = nullptr
      THEN [nodes |-> node, left |-> ret]
      ELSE [nodes |-> Append(node, BinOpNode(Token(self.token).type, self.left, ret)),
            left |-> self.left]

(* The operand is the first one, or it completes the operator before it. *)
Joined ==
  LET self == calls[1] IN
    IF self.left = nullptr
      THEN [nodes |-> node, left |-> ret]
      ELSE [nodes |-> Append(node, BinOpNode(Token(self.token).type, self.left, ret)),
            left |-> NewNode]

MoreOperands(level) ==
  /\ Resumed(level)
  /\ CurrentType \in Ops[level]
  /\ advance
  /\ node' = Joined.nodes
  /\ Push(Descent(Operand[level]), Call(level, Joined.left, m_CurrentToken))
  /\ UNCHANGED m_Tokens

LastOperand(level) ==
  /\ Resumed(level)
  /\ CurrentType \notin Ops[level]
  /\ node' = Joined.nodes
  /\ Return(Joined.left)
  /\ Stay
  /\ UNCHANGED m_Tokens

-----------------------------------------------------------------------------
(* factor(): '!' and '-' may be repeated; only here is the end of the line  *)
(* looked for.                                                              *)
BeginUnary ==
  /\ Entered("factor")
  /\ CurrentType \in UnaryOps
  /\ advance
  /\ IF m_TokenIndex + 1 >= Size
       THEN Fail(m_CurrentToken)
       ELSE Push(<<Calling("factor")>>, Call("unary", nullptr, m_CurrentToken))
  /\ UNCHANGED <<m_Tokens, node>>

EndUnary ==
  /\ Resumed("unary")
  /\ Allocate(UnryOpNode(Token(calls[1].token).type, ret))
  /\ Return(NewNode)
  /\ Stay
  /\ UNCHANGED m_Tokens

(* Faulty variant: a name becomes a NUM node like the other tokens. *)
AtomNodeOfToken(t) == NumNode(t.type, t.num)

(* atom(): numbers and names. *)
AtomNode(t) == IF t.type = "ID" THEN AccessNode(t.name) ELSE NumNode(t.type, t.num)

Atom ==
  /\ Entered("factor")
  /\ CurrentType \in NumberTokens \cup {"ID"}
  /\ advance
  /\ Allocate(AtomNode(Token(m_CurrentToken)))
  /\ calls' = <<Calling("callable")>> \o Tail(calls)
  /\ ret' = NewNode
  /\ UNCHANGED <<m_Tokens, parsing, error>>

(* atom(): '(' and what follows it. *)
OpenParen ==
  /\ Entered("factor")
  /\ CurrentType = "LROUND"
  /\ advance
  /\ Push(<<Calling("expression")>>, Call("paren", nullptr, m_CurrentToken))
  /\ UNCHANGED <<m_Tokens, node>>

CloseParen ==
  /\ Resumed("paren")
  /\ CurrentType = "RROUND"
  /\ advance
  /\ calls' = <<Calling("callable")>> \o Tail(calls)
  /\ UNCHANGED <<m_Tokens, node, ret, parsing, error>>

MissingParen ==
  /\ Resumed("paren")
  /\ CurrentType # "RROUND"
  /\ Fail(m_CurrentToken)
  /\ Stay
  /\ UNCHANGED <<m_Tokens, node>>

NoAtom ==
  /\ Entered("factor")
  /\ CurrentType \notin UnaryOps \cup NumberTokens \cup {"ID", "LROUND"}
  /\ Fail(m_CurrentToken)
  /\ Stay
  /\ UNCHANGED <<m_Tokens, node>>

(* wrap_callable(): a call is not implemented, the process exits. *)
WrapCallable ==
  /\ Resumed("callable")
  /\ IF CurrentType = "LROUND"
       THEN parsing' = "exit" /\ UNCHANGED <<calls, ret, error>>
       ELSE Return(ret)
  /\ Stay
  /\ UNCHANGED <<m_Tokens, node>>

-----------------------------------------------------------------------------
(* load_tokens and parse_nodes. *)

(* load_tokens leaves m_CurrentToken alone if there is no token. *)
Load(tokens) ==
  /\ m_Tokens' = tokens
  /\ m_TokenIndex' = 0
  /\ m_CurrentToken' = IF tokens = <<>> THEN m_CurrentToken ELSE 0
  /\ node' = <<>>
  /\ ret' = nullptr
  /\ calls' = IF tokens = <<>> THEN <<>> ELSE <<Calling("expression")>>
  /\ parsing' = "running"
  /\ UNCHANGED error

(* parse_nodes returns: the expression, or nullptr for a line without       *)
(* tokens. *)
Accept ==
  /\ parsing = "running"
  /\ calls = <<>>
  /\ parsing' = "ok"
  /\ UNCHANGED <<m_Tokens, m_TokenIndex, m_CurrentToken, node, calls, ret, error>>

(* The next call does not fit on the stack. *)
Overflow ==
  /\ parsing = "running"
  /\ Len(calls) > StackDepth
  /\ parsing' = "segfault"
  /\ UNCHANGED <<m_Tokens, m_TokenIndex, m_CurrentToken, node, calls, ret, error>>

Parse ==
  \/ BeginAssign \/ EndAssign \/ RetreatToName \/ BeginExpression
  \/ \E level \in Levels : MoreOperands(level) \/ LastOperand(level)
  \/ BeginUnary \/ EndUnary
  \/ Atom \/ OpenParen \/ CloseParen \/ MissingParen \/ NoAtom
  \/ WrapCallable
  \/ Accept

ParserNext == \/ Len(calls) <= StackDepth /\ Parse
              \/ Overflow

NoToken == -1

ParserInit ==
  /\ m_Tokens \in Lines
  /\ m_TokenIndex = 0
  /\ m_CurrentToken = IF m_Tokens = <<>> THEN NoToken ELSE 0
  /\ node = <<>>
  /\ ret = nullptr
  /\ calls = IF m_Tokens = <<>> THEN <<>> ELSE <<Calling("expression")>>
  /\ parsing = "running"
  /\ error = NoToken

Parsed == parsing # "running" /\ UNCHANGED parserVars

ParserSpec == ParserInit /\ [][ParserNext \/ Parsed]_parserVars /\ WF_parserVars(ParserNext)

-----------------------------------------------------------------------------
(* Properties.                                                             *)

ParserTypeOK ==
  /\ IsLine(m_Tokens)
  /\ m_TokenIndex \in Nat
  /\ node \in Seq(Nodes)
  /\ calls \in Seq(Activations)
  /\ ret \in Nat
  /\ parsing \in {"running", "ok", "error", "exit", "segfault"}
  /\ error \in Nat \cup {NoToken}

(* Every token that is read is one of the line, although m_TokenIndex runs  *)
(* past its end and retreat does not ask where it lands: m_CurrentToken is  *)
(* the token at the index or, behind the end, the last one; a name is never *)
(* looked behind with the index already past it; and what an activation     *)
(* kept of a token is of the kind it takes it for.                          *)
Kept(c) ==
  CASE c.fn = "assign" -> {"ID"}
    [] c.fn = "unary"  -> UnaryOps
    [] c.fn = "paren"  -> {"LROUND"}
    [] c.fn \in Levels /\ c.left # nullptr -> Ops[c.fn]
    [] OTHER           -> TokenTypes

TokensInLine ==
  m_Tokens # <<>> =>
    /\ m_CurrentToken = IF m_TokenIndex < Size THEN m_TokenIndex ELSE Size - 1
    /\ Entered("expression") /\ CurrentType = "ID" => m_TokenIndex < Size
    /\ \A k \in 1 .. Len(calls) :
         /\ calls[k].token \in 0 .. Size - 1
         /\ Token(calls[k].token).type \in Kept(calls[k])

(* Who holds a node: another node, a waiting activation, or `ret'. *)
Holders(n) ==
  {<<"left", m>>  : m \in {m \in 1 .. Len(node) : node[m].left = n}}
    \cup {<<"right", m>> : m \in {m \in 1 .. Len(node) : node[m].right = n}}
    \cup {<<"call", k>>  : k \in {k \in 1 .. Len(calls) : calls[k].left = n}}
    \cup (IF ret = n THEN {<<"ret", 0>>} ELSE {})

(* Every node is held in exactly one place until the tree is handed out, so *)
(* that delete_nodes frees it once and misses none; what is handed out is   *)
(* the node allocated last, and operands come before their operators, as    *)
(* the passes of the compiler take for granted.  After an error the nodes   *)
(* are held by nobody: no function of the parser frees them.                *)
HeldOnce ==
  /\ parsing \in {"running", "ok"} =>
       \A n \in 1 .. Len(node) : \E h \in Holders(n) : Holders(n) = {h}
  /\ ret # nullptr => ret = Len(node)
  /\ \A n \in 1 .. Len(node) : WellFormed(node, n)

(* The line is answered as the grammar has it. *)
Answer ==
  CASE parsing = "running" -> [kind |-> "none"]
    [] parsing = "ok"      -> [kind |-> "tree", nodes |-> node, root |-> ret]
    [] OTHER               -> [kind |-> parsing]

Language == INSTANCE Grammar WITH line <- m_Tokens, answer <- Answer

ParserImplements == Language!Spec

(* "expected ')'", says atom(): a line is accepted only if every '(' that was *)
(* taken has a ')' of its own.                                             *)
Taken(type) == {i \in 0 .. Size - 1 : i < m_TokenIndex /\ Token(i).type = type}

ParensClosed ==
  parsing = "ok" => Cardinality(Taken("LROUND")) = Cardinality(Taken("RROUND"))

(* "Expected Expression found EOF", says factor(): a line that ends where   *)
(* an expression should come is refused.                                    *)
EndOfLineRefused == parsing # "segfault"
=============================================================================

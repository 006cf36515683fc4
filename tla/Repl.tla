-------------------------------- MODULE Repl --------------------------------
(***************************************************************************)
(* main: lines are read until "exit", scanned, parsed and collected, and   *)
(* then compiled.  The lexer is that of Lexer, for the lines of a session  *)
(* in the place of Texts, the parser that of Parser; Compiler::compile is  *)
(* taken by its contract, Compilation.                                     *)
(*                                                                         *)
(* The lexer, the parser and the file manager live as long as the loop;    *)
(* what one line leaves in them the next one finds.                        *)
(***************************************************************************)
EXTENDS ProgramSets, Lexer, ErrorMessage

CONSTANTS
  Sessions,     \* what is typed, see IsSession
  StackDepth,
  MemoryLimit   \* how many nodes and pointers to them fit into memory

EXIT == <<"e", "x", "i", "t">>

(* The lines of the input, and whether the last one ends with a '\n'. *)
IsSession(s) ==
  /\ s = [lines |-> s.lines, terminated |-> s.terminated]
  /\ s.lines \in Seq(Seq(STRING))
  /\ s.terminated \in BOOLEAN
  /\ ~ s.terminated => s.lines # <<>> /\ s.lines[Len(s.lines)] # <<>>

(* What a line spells is among the Names and Literals. *)
SpellsKnown(line) ==
  \A i \in 1 .. Len(line) : \A j \in i .. Len(line) :
    LET piece == SubSeq(line, i, j) IN
      /\ IsWord(piece) => Joined(piece) \in Names
      /\ IsNumber(piece) /\ ~ TooLarge(piece) => Mantissa(piece) \in Literals \cup {0}

ASSUME SizesAssumption    == StackDepth \in Nat /\ MemoryLimit \in Nat
ASSUME SessionsAssumption == \A s \in Sessions : IsSession(s)
ASSUME SpellingAssumption ==
  \A s \in Sessions : \A l \in 1 .. Len(s.lines) :
    s.lines[l] # EXIT => SpellsKnown(s.lines[l])

VARIABLES
  input, taken, eof,   \* cin: its lines, how many were read, eofbit
  buffer, files,
  nodes,               \* the statements of the root node, each by its nodes
  phase,               \* where main is, or how the process ended
  asm,                 \* Chronos.asm: the "old" one, "empty", or "code"
  memory,              \* how much of MemoryLimit is in use
  pending, freed,      \* the stack of delete_nodes, and what it deleted
  complaint,           \* the message of the lexer for the line at hand
  replies              \* for the properties: what each line was answered

VARIABLES tokens, m_TokenIndex, m_CurrentToken, node, calls, ret, parsing, error

(* Lexer and Parser have an m_Tokens each; `tokens' is that of the parser. *)
P == INSTANCE Parser WITH Lines <- {}, m_Tokens <- tokens
C == INSTANCE Compilation WITH prog <- Program(nodes), outcome <- phase

parserVars == <<tokens, m_TokenIndex, m_CurrentToken, node, calls, ret, parsing, error>>
inputVars  == <<input, taken, eof, buffer, files>>
resultVars == <<nodes, asm, memory, pending, freed, replies>>
replVars   == <<inputVars, resultVars, phase, complaint, lexerVars, parserVars>>

Lost == {"out_of_range", "length_error", "assert", "segfault", "exit", "bad_alloc"}

-----------------------------------------------------------------------------
(* Faulty variant: a line that ends with the input is not taken. *)
GetLineWhole ==
  IF eof THEN buffer
  ELSE IF taken < Len(input.lines) /\ (taken + 1 < Len(input.lines) \/ input.terminated)
         THEN input.lines[taken + 1] ELSE <<>>

(* getline: with eofbit set it fails at once and leaves the buffer alone.   *)
GetLine ==
  IF eof THEN buffer
  ELSE IF taken < Len(input.lines) THEN input.lines[taken + 1] ELSE <<>>

AtEnd == \/ taken = Len(input.lines)
         \/ taken + 1 = Len(input.lines) /\ ~ input.terminated

ReadLine ==
  /\ phase = "reading"
  /\ buffer' = GetLine
  /\ eof' = (eof \/ AtEnd)
  /\ taken' = IF taken < Len(input.lines) THEN taken + 1 ELSE taken
  /\ IF buffer' = EXIT
       THEN phase' = "compile" /\ UNCHANGED <<files, lexerVars>>
       ELSE /\ phase' = "scanning"
            /\ files' = add_line(files, buffer')
            /\ load_text(buffer')
  /\ UNCHANGED <<input, resultVars, complaint, parserVars>>

Scan ==
  /\ phase = "scanning"
  /\ LexerNext
  /\ UNCHANGED <<inputVars, resultVars, phase, complaint, parserVars>>

(* The parser looks at the type and the value of a token. *)
ForParser(t) == [type |-> t.type, name |-> t.name, num |-> t.num]

(* What was scanned goes to the parser, also after an error. *)
LoadTokens ==
  LET message == IF m_HasError THEN generate_message(files, m_Error.start_pos, m_Error.end_pos)
                 ELSE NoMessage
  IN
  /\ phase = "scanning"
  /\ scanning = "done"
  /\ complaint' = message
  /\ IF message.thrown = "none"
       THEN phase' = "parsing" /\ P!Load([k \in DOMAIN m_Tokens |-> ForParser(m_Tokens[k])])
       ELSE phase' = message.thrown /\ UNCHANGED parserVars
  /\ UNCHANGED <<inputVars, resultVars, lexerVars>>

(* stoi or stof has thrown in make_number. *)
ScanThrows ==
  /\ phase = "scanning"
  /\ scanning = "out_of_range"
  /\ phase' = "out_of_range"
  /\ UNCHANGED <<inputVars, resultVars, complaint, lexerVars, parserVars>>

Parse ==
  /\ phase = "parsing"
  /\ P!ParserNext
  /\ UNCHANGED <<inputVars, resultVars, phase, complaint, lexerVars>>

-----------------------------------------------------------------------------
(* The line is answered, and the lexer and the files are cleared for the    *)
(* next one; memory may run out.                                            *)
Reply(kind, tree, message) ==
  replies' = replies \cup
    {[line |-> buffer, complaint |-> complaint, kind |-> kind, tree |-> tree, message |-> message]}

(* Faulty variant: the line stays in the file manager. *)
NextLineKeepsFile(needed) ==
  /\ memory' = memory + needed
  /\ phase' = IF memory + needed > MemoryLimit THEN "bad_alloc" ELSE "reading"
  /\ clear
  /\ complaint' = NoMessage
  /\ UNCHANGED files

NextLine(needed) ==
  /\ memory' = memory + needed
  /\ phase' = IF memory + needed > MemoryLimit THEN "bad_alloc" ELSE "reading"
  /\ clear
  /\ files' = <<>>
  /\ complaint' = NoMessage

(* Faulty variant: only a node that is there is appended. *)
PushStatement(tree) == IF tree = <<>> THEN nodes ELSE Append(nodes, tree)

(* nullptr, of a line without tokens, is appended like any other node. *)
push_back(tree) == Append(nodes, tree)

Accept ==
  /\ phase = "parsing"
  /\ parsing = "ok"
  /\ nodes' = push_back(node)
  /\ Reply("tree", node, NoMessage)
  /\ NextLine(Len(node) + 1)
  /\ UNCHANGED <<input, taken, eof, buffer, asm, pending, freed, parserVars>>

(* The nodes that the parser had allocated are lost. *)
ShowError ==
  LET where   == m_Tokens[error + 1]
      message == generate_message(files, where.start_pos, where.end_pos)
  IN
  /\ phase = "parsing"
  /\ parsing = "error"
  /\ IF message.thrown = "none"
       THEN Reply("error", <<>>, message) /\ NextLine(Len(node))
       ELSE phase' = message.thrown /\ UNCHANGED <<files, memory, replies, complaint, lexerVars>>
  /\ UNCHANGED <<input, taken, eof, buffer, nodes, asm, pending, freed, parserVars>>

ParseDies ==
  /\ phase = "parsing"
  /\ parsing \in {"exit", "segfault"}
  /\ phase' = parsing
  /\ UNCHANGED <<inputVars, resultVars, complaint, lexerVars, parserVars>>

-----------------------------------------------------------------------------
(* compile: the file is opened, and so emptied, before the program is looked *)
(* at.                                                                      *)
OpenOutput ==
  /\ phase = "compile"
  /\ asm' = "empty"
  /\ phase' = "running"
  /\ UNCHANGED <<inputVars, nodes, memory, pending, freed, replies, complaint,
                 lexerVars, parserVars>>

Compile ==
  /\ UNCHANGED nodes
  /\ C!Compile
  /\ UNCHANGED <<inputVars, asm, memory, pending, freed, replies, complaint,
                 lexerVars, parserVars>>

(* close writes the file; delete_nodes begins with the root, all of whose    *)
(* statements it pushes.                                                    *)
Close ==
  /\ phase = "compiled"
  /\ asm' = "code"
  /\ pending' = Program(nodes).root
  /\ phase' = "deleting"
  /\ UNCHANGED <<inputVars, nodes, memory, freed, replies, complaint,
                 lexerVars, parserVars>>

(* Faulty variant: only the right operand is pushed. *)
RightOperand(nd) == IF nd.right = nullptr THEN <<>> ELSE <<nd.right>>

Operands(nd) ==
  CASE nd.type = "BINOP"               -> <<nd.right, nd.left>>
    [] nd.type \in {"UNRYOP", "ASSIGN"} -> <<nd.right>>
    [] OTHER                           -> <<>>

delete_nodes ==
  /\ phase = "deleting"
  /\ pending # <<>>
  /\ LET n == pending[Len(pending)] IN
       /\ pending' = SubSeq(pending, 1, Len(pending) - 1) \o Operands(Program(nodes).node[n])
       /\ freed' = Append(freed, n)
  /\ UNCHANGED <<inputVars, nodes, asm, memory, replies, phase, complaint,
                 lexerVars, parserVars>>

Return ==
  /\ phase = "deleting"
  /\ pending = <<>>
  /\ phase' = "done"
  /\ UNCHANGED <<inputVars, resultVars, complaint, lexerVars, parserVars>>

ReplInit ==
  /\ input \in Sessions
  /\ taken = 0 /\ eof = FALSE
  /\ buffer = <<>> /\ files = <<>> /\ nodes = <<>>
  /\ phase = "reading"
  /\ asm = "old"
  /\ memory = 0
  /\ pending = <<>> /\ freed = <<>>
  /\ complaint = NoMessage
  /\ replies = {}
  /\ m_Text = <<>> /\ at = Unloaded /\ m_Tokens = <<>> /\ scanning = "done"
  /\ m_HasError = FALSE /\ m_Error = NoError
  /\ tokens = <<>> /\ m_TokenIndex = 0 /\ m_CurrentToken = P!NoToken
  /\ node = <<>> /\ calls = <<>> /\ ret = nullptr /\ parsing = "ok" /\ error = P!NoToken

ReplNext ==
  \/ ReadLine \/ Scan \/ LoadTokens \/ ScanThrows \/ Parse
  \/ Accept \/ ShowError \/ ParseDies
  \/ OpenOutput \/ Compile \/ Close \/ delete_nodes \/ Return

Ended == phase \in Lost \cup {"done"}
Over  == Ended /\ UNCHANGED replVars

ReplSpec == ReplInit /\ [][ReplNext \/ Over]_replVars /\ WF_replVars(ReplNext)

-----------------------------------------------------------------------------
(* Properties.                                                             *)

Messages == [thrown : {"none", "out_of_range", "length_error"}, shown : Seq(STRING),
             from : Nat, to : Nat]

ReplTypeOK ==
  /\ taken \in 0 .. Len(input.lines)
  /\ eof \in BOOLEAN
  /\ buffer \in Seq(STRING)
  /\ Len(files) <= 1
  /\ phase \in Lost \cup {"reading", "scanning", "parsing", "compile", "running",
                          "compiled", "deleting", "done"}
  /\ asm \in {"old", "empty", "code"}
  /\ \A k \in 1 .. Len(nodes) : nodes[k] \in Seq(Nodes)
  /\ memory \in Nat
  /\ complaint \in Messages
  /\ P!ParserTypeOK

(* What the lexer and the parser keep for one line they also keep for each   *)
(* later one, which begins with whatever clear and load_tokens have left.   *)
PartsKeep ==
  /\ phase = "scanning" => CursorInText /\ TokensSpelled /\ NothingElseLost
  /\ phase = "parsing"  => P!TokensInLine /\ P!HeldOnce

(* Nothing of a line is left behind in the lexer, the parser or the files   *)
(* that would change what a later line is answered: one that is typed again *)
(* is answered as before, whatever came between.                            *)
LinesIndependent ==
  \A r, s \in replies : r.line = s.line => r = s

(* A message shows the line it is about, and underlines at least one column *)
(* of it, none farther right than the end of the line; and making one never  *)
(* throws.                                                                 *)
InLine(message, line) ==
  message = NoMessage \/
    /\ message.thrown = "none"
    /\ message.shown = line
    /\ 0 <= message.from /\ message.from < message.to /\ message.to <= Len(line) + 1

MessagesInLine ==
  /\ \A r \in replies : InLine(r.complaint, r.line) /\ InLine(r.message, r.line)
  /\ InLine(complaint, buffer)

(* The lines that were read and answered with a tree, in their order; those *)
(* that a failing getline has left in the buffer are not among them.        *)
TreesOf(line) == {r.tree : r \in {r \in replies : r.line = line /\ r.kind = "tree"}}
Answered      == SelectSeq(SubSeq(input.lines, 1, taken), LAMBDA line : TreesOf(line) # {})

(* When a line has been dealt with the root node has one statement for each *)
(* line that was accepted, in their order, and those of the lines with an   *)
(* error are none; what a failing getline adds comes behind them, and is    *)
(* the last line, or a null statement.                                      *)
ProgramBuilt ==
  phase \notin {"scanning", "parsing"} =>
    /\ Len(nodes) >= Len(Answered)
    /\ \A k \in 1 .. Len(Answered) : nodes[k] \in TreesOf(Answered[k])
    /\ \A k \in Len(Answered) + 1 .. Len(nodes) : eof /\ nodes[k] \in TreesOf(buffer)

(* The statements are at all times a program that compile can take, with the *)
(* nodes in the order of the text: the parser allocates the operands of a   *)
(* node directly before it, the left ones first, so an evaluation in the    *)
(* order of the nodes is one from left to right, line by line.              *)
ProgramOrdered == IsProgram(Program(nodes)) /\ InTextOrder(Program(nodes))

(* The lines before the first "exit". *)
Exits  == {i \in 1 .. taken : input.lines[i] = EXIT}
Before == SubSeq(input.lines, 1, taken - 1)

Blank(line) == \A i \in 1 .. Len(line) : line[i] \in Spaces

(* Chronos.asm is left alone unless "exit" has been read, so also at the end *)
(* of the input and whenever a line ends the process; and it holds code only *)
(* if none of the lines before was blank, had a name that no line before    *)
(* had assigned, or a minus in front of an operand.                         *)
AsmWritten ==
  /\ asm # "old" => Exits = {taken}
  /\ asm = "code" =>
       /\ \A i \in 1 .. Len(Before) : ~ Blank(Before[i])
       /\ \A n \in 1 .. Len(Program(nodes).node) : ~ C!Unbound(Program(nodes), n)
       /\ \A n \in 1 .. Len(Program(nodes).node) : ~ C!IsMinus(Program(nodes).node[n])
  /\ asm = "empty" /\ Ended => Len(nodes) > 0

(* delete_nodes deletes no node twice, and at the end of main every node of *)
(* every statement has been deleted.                                       *)
NodesFreedOnce ==
  /\ \A i, j \in 1 .. Len(freed) : freed[i] = freed[j] => i = j
  /\ phase = "done" => {freed[i] : i \in 1 .. Len(freed)} = DOMAIN Program(nodes).node

(* A session with "exit" in it comes to an end, and not for lack of memory, *)
(* also if the last line has no '\n': no line makes the loop stay at it.    *)
SessionEnds ==
  EXIT \in {input.lines[i] : i \in 1 .. Len(input.lines)}
    => <>(Ended /\ phase # "bad_alloc")
=============================================================================

------------------------------- MODULE Lexer -------------------------------
(***************************************************************************)
(* The scanner (lexer.cpp) over the text of one line.  One action is one   *)
(* iteration of the loop of parse_tokens, with the make_* function it      *)
(* calls.                                                                  *)
(*                                                                         *)
(* A text is a sequence of characters; as a C string it has a NUL behind   *)
(* its last character.  m_CharPtr is the offset it points to, or null.     *)
(* m_Line stays 0: a line that getline returns has no '\n'.                *)
(***************************************************************************)
EXTENDS Integers, Sequences, FiniteSets
LOCAL INSTANCE FiniteSetsExt
LOCAL INSTANCE SequencesExt

CONSTANTS
  Texts,    \* the lines that are scanned
  INT_MAX,  \* what stoi can return
  FLT_MAX   \* what stof can return

ASSUME LimitsAssumption == INT_MAX \in Nat /\ FLT_MAX \in Nat
ASSUME TextsAssumption  == Texts \subseteq Seq(STRING)

VARIABLES
  m_Text,
  at,          \* m_CharPtr, m_Index and m_Column
  m_Tokens,
  m_HasError,
  m_Error,     \* from where to where the error is shown
  scanning     \* how far parse_tokens got, and how it ended

lexerVars == <<m_Text, at, m_Tokens, m_HasError, m_Error, scanning>>

NUL     == "NUL"
NullPtr == -1

m_TextSize == Len(m_Text)
Char(i)    == IF i < m_TextSize THEN m_Text[i + 1] ELSE NUL

Spaces     == {" ", "\t", "\r", "\n"}
DigitValue == [c \in {"0", "1", "2", "3", "4", "5", "6", "7", "8", "9"} |->
                 CHOOSE n \in 0 .. 9 : ToString(n) = c]
Digits     == DOMAIN DigitValue
LETTERS    == {"_", "a", "b", "c", "e", "i", "t", "x"}

(* The characters that are a token by themselves, and those to which a '='  *)
(* may be added.                                                           *)
Singles == [c \in {"+", "-", "!", "*", "/", "(", ")"} |->
              CASE c = "+" -> "ADD" [] c = "-" -> "SUB"    [] c = "!" -> "NOT" [] c = "*" -> "MUL"
                [] c = "/" -> "DIV" [] c = "(" -> "LROUND" [] c = ")" -> "RROUND"]
Alone   == [c \in {"=", "<", ">"} |->
              CASE c = "=" -> "ASSIGN" [] c = "<" -> "LESS" [] c = ">" -> "GREATER"]
WithEqual == [c \in {"=", "<", ">"} |->
                CASE c = "=" -> "EQUAL" [] c = "<" -> "LESS_EQ" [] c = ">" -> "GREATER_EQ"]
Doubled == [c \in {"&", "|"} |-> IF c = "&" THEN "KW_AND" ELSE "KW_OR"]

-----------------------------------------------------------------------------
(* Moving through the text.                                                *)

(* Faulty variant: the NUL is passed like any character. *)
advancePastEnd(st) ==
  IF st.m_CharPtr = NullPtr THEN st
  ELSE [m_CharPtr |-> st.m_CharPtr + 1, m_Index |-> st.m_Index + 1,
        m_Column |-> st.m_Column + 1]

(* Faulty variant: the pointer stays on the NUL. *)
advanceOnNul(st) ==
  IF st.m_Index >= m_TextSize
    THEN [st EXCEPT !.m_Column = @ + 1]
    ELSE [m_CharPtr |-> st.m_CharPtr + 1, m_Index |-> st.m_Index + 1,
          m_Column |-> st.m_Column + 1]

advance(st) ==
  IF st.m_CharPtr = NullPtr THEN st
  ELSE IF st.m_Index >= m_TextSize
         THEN [st EXCEPT !.m_CharPtr = NullPtr, !.m_Column = @ + 1]
         ELSE [m_CharPtr |-> st.m_CharPtr + 1, m_Index |-> st.m_Index + 1,
               m_Column |-> st.m_Column + 1]

(* Where k calls of advance lead. *)
After(k) ==
  LET st[i \in 0 .. k] == IF i = 0 THEN at ELSE advance(st[i - 1]) IN st[k]

get_current_pos(st) == [index |-> st.m_Index, column |-> st.m_Column]
Here == get_current_pos(at)

Token(type, name, num, frac, start, end) ==
  [type |-> type, name |-> name, num |-> num, frac |-> frac,
   start_pos |-> start, end_pos |-> end]
Symbol(type, start, end) == Token(type, "", 0, 0, start, end)

Scanning(chars) ==
  /\ scanning = "running"
  /\ at.m_CharPtr # NullPtr
  /\ Char(at.m_CharPtr) \in chars

Emit(token) == m_Tokens' = Append(m_Tokens, token) /\ UNCHANGED <<m_HasError, m_Error>>

Report(start, end) ==
  /\ m_HasError' = TRUE
  /\ m_Error' = [start_pos |-> start, end_pos |-> end]
  /\ UNCHANGED m_Tokens

-----------------------------------------------------------------------------
(* The iterations.                                                         *)

SkipSpace ==
  /\ Scanning(Spaces)
  /\ at' = After(1)
  /\ UNCHANGED <<m_Text, m_Tokens, m_HasError, m_Error, scanning>>

Dots(s)      == Cardinality({i \in DOMAIN s : s[i] = "."})
Within(s, S) == (\A i \in DOMAIN s : s[i] \in S) /\ Dots(s) <= 1
IsNumber(s)  == Within(s, Digits \cup {"."})
IsWord(s)    == Within(s, LETTERS)

(* The most characters of `chars' from the current one on; a second dot ends *)
(* a number.                                                                *)
Run(chars) ==
  LET p == at.m_CharPtr IN
    Max({k \in 0 .. m_TextSize - p : Within(SubSeq(m_Text, p + 1, p + k), chars)})

(* The digits of a number as one integer; those behind the dot. *)
Mantissa(s) == FoldLeft(LAMBDA n, c : IF c = "." THEN n ELSE 10 * n + DigitValue[c], 0, s)
Fraction(s) == IF Dots(s) = 0 THEN 0
               ELSE Len(s) - (CHOOSE i \in DOMAIN s : s[i] = ".")

(* stoi and stof throw for a number that is too large; nothing catches it. *)
TooLarge(s) ==
  IF Dots(s) = 0 THEN Mantissa(s) > INT_MAX
                 ELSE Mantissa(s) > FLT_MAX * 10 ^ Fraction(s)

make_number ==
  /\ Scanning(Digits)
  /\ LET n == Run(Digits \cup {"."})
         s == SubSeq(m_Text, at.m_CharPtr + 1, at.m_CharPtr + n)
     IN  /\ at' = After(n)
         /\ IF TooLarge(s)
              THEN /\ scanning' = "out_of_range"
                   /\ UNCHANGED <<m_Tokens, m_HasError, m_Error>>
              ELSE /\ Emit(Token(IF Dots(s) = 0 THEN "INT" ELSE "FLOAT", "",
                                 Mantissa(s), Fraction(s), Here, get_current_pos(After(n))))
                   /\ UNCHANGED scanning
  /\ UNCHANGED m_Text

Joined(s) == FoldLeft(LAMBDA x, c : x \o c, "", s)

make_identifier ==
  /\ Scanning(LETTERS)
  /\ LET n == Run(LETTERS)
         s == SubSeq(m_Text, at.m_CharPtr + 1, at.m_CharPtr + n)
     IN  /\ at' = After(n)
         /\ Emit(Token("ID", Joined(s), 0, 0, Here, get_current_pos(After(n))))
  /\ UNCHANGED <<m_Text, scanning>>

make_single ==
  /\ Scanning(DOMAIN Singles)
  /\ at' = After(1)
  /\ Emit(Symbol(Singles[Char(at.m_CharPtr)], Here,
                 [index |-> Here.index + 1, column |-> Here.column + 1]))
  /\ UNCHANGED <<m_Text, scanning>>

(* Faulty variant: a '=' behind the character is not looked for. *)
make_relation_short ==
  /\ Scanning(DOMAIN Alone)
  /\ at' = After(2)
  /\ Emit(Symbol(Alone[Char(at.m_CharPtr)], Here, get_current_pos(After(1))))
  /\ UNCHANGED <<m_Text, scanning>>

(* make_equal, make_less and make_greater go behind their token, and the    *)
(* loop advances once more: the next character is never looked at.          *)
make_relation ==
  /\ Scanning(DOMAIN Alone)
  /\ LET c      == Char(at.m_CharPtr)
         length == IF Char(After(1).m_CharPtr) = "=" THEN 2 ELSE 1
     IN  /\ at' = After(length + 1)
         /\ Emit(Symbol(IF length = 2 THEN WithEqual[c] ELSE Alone[c], Here,
                        get_current_pos(After(length))))
  /\ UNCHANGED <<m_Text, scanning>>

(* Faulty variant: one more character is passed, as in the other make_*. *)
make_doubled_past ==
  /\ Scanning(DOMAIN Doubled)
  /\ Char(After(1).m_CharPtr) = Char(at.m_CharPtr)
  /\ at' = After(3)
  /\ Emit(Symbol(Doubled[Char(at.m_CharPtr)], Here, get_current_pos(After(1))))
  /\ UNCHANGED <<m_Text, scanning>>

(* make_and and make_or; the end is where the second character begins.      *)
make_doubled ==
  /\ Scanning(DOMAIN Doubled)
  /\ Char(After(1).m_CharPtr) = Char(at.m_CharPtr)
  /\ at' = After(2)
  /\ Emit(Symbol(Doubled[Char(at.m_CharPtr)], Here, get_current_pos(After(1))))
  /\ UNCHANGED <<m_Text, scanning>>

(* Faulty variant: both positions are taken after the advance. *)
expect_char_late ==
  /\ Scanning(DOMAIN Doubled)
  /\ Char(After(1).m_CharPtr) # Char(at.m_CharPtr)
  /\ at' = After(3)
  /\ Report(get_current_pos(After(2)), get_current_pos(After(2)))
  /\ UNCHANGED <<m_Text, scanning>>

(* expect_char reports what it finds in place of the second character, and  *)
(* advances, as the loop does after it; scanning goes on.                   *)
expect_char ==
  /\ Scanning(DOMAIN Doubled)
  /\ Char(After(1).m_CharPtr) # Char(at.m_CharPtr)
  /\ at' = After(3)
  /\ Report(get_current_pos(After(1)), get_current_pos(After(2)))
  /\ UNCHANGED <<m_Text, scanning>>

(* The characters that begin nothing. *)
Known == Spaces \cup Digits \cup LETTERS \cup DOMAIN Singles \cup DOMAIN Alone
           \cup DOMAIN Doubled \cup {NUL}

(* Faulty variant: the loop neither advances nor returns. *)
illegal_char_stuck ==
  /\ scanning = "running"
  /\ at.m_CharPtr # NullPtr
  /\ Char(at.m_CharPtr) \notin Known
  /\ Report(Here, get_current_pos(After(1)))
  /\ UNCHANGED <<m_Text, at, scanning>>

illegal_char ==
  /\ scanning = "running"
  /\ at.m_CharPtr # NullPtr
  /\ Char(at.m_CharPtr) \notin Known
  /\ at' = After(1)
  /\ Report(Here, get_current_pos(After(1)))
  /\ scanning' = "done"
  /\ UNCHANGED m_Text

(* The loop ends at the NUL behind the text, or at one in it. *)
EndOfText ==
  /\ scanning = "running"
  /\ at.m_CharPtr # NullPtr => Char(at.m_CharPtr) = NUL
  /\ scanning' = "done"
  /\ UNCHANGED <<m_Text, at, m_Tokens, m_HasError, m_Error>>

LexerNext ==
  \/ SkipSpace \/ make_number \/ make_identifier \/ make_single
  \/ make_relation \/ make_doubled \/ expect_char \/ illegal_char
  \/ EndOfText

-----------------------------------------------------------------------------
(* load_text sets the pointer only: index and column are those that the     *)
(* last clear has left.                                                    *)
load_text(text) ==
  /\ m_Text' = text
  /\ at' = [at EXCEPT !.m_CharPtr = 0]
  /\ scanning' = "running"
  /\ UNCHANGED <<m_Tokens, m_HasError, m_Error>>

Unloaded == [m_CharPtr |-> NullPtr, m_Index |-> 0, m_Column |-> 0]
NoPos    == [index |-> 0, column |-> 0]
NoError  == [start_pos |-> NoPos, end_pos |-> NoPos]

(* Faulty variant: the tokens are kept. *)
clear_text ==
  /\ m_Text' = <<>>
  /\ at' = Unloaded
  /\ m_HasError' = FALSE
  /\ UNCHANGED <<m_Tokens, m_Error, scanning>>

(* Faulty variant: index and column are kept. *)
clear_tokens ==
  /\ m_Text' = <<>>
  /\ at' = [at EXCEPT !.m_CharPtr = NullPtr]
  /\ m_Tokens' = <<>>
  /\ m_HasError' = FALSE
  /\ UNCHANGED <<m_Error, scanning>>

(* clear leaves m_Error as it is. *)
clear ==
  /\ m_Text' = <<>>
  /\ at' = Unloaded
  /\ m_Tokens' = <<>>
  /\ m_HasError' = FALSE
  /\ UNCHANGED <<m_Error, scanning>>

LexerInit ==
  /\ m_Text \in Texts
  /\ at = [Unloaded EXCEPT !.m_CharPtr = 0]
  /\ m_Tokens = <<>>
  /\ m_HasError = FALSE
  /\ m_Error = NoError
  /\ scanning = "running"

Scanned == scanning # "running" /\ UNCHANGED lexerVars

LexerSpec == LexerInit /\ [][LexerNext \/ Scanned]_lexerVars /\ WF_lexerVars(LexerNext)

-----------------------------------------------------------------------------
(* Properties.                                                             *)

Positions  == [index : 0 .. m_TextSize, column : 0 .. m_TextSize + 1]

LexerTypeOK ==
  /\ at \in [m_CharPtr : {NullPtr} \cup 0 .. m_TextSize, m_Index : 0 .. m_TextSize,
             m_Column : 0 .. m_TextSize + 1]
  /\ \A k \in 1 .. Len(m_Tokens) :
       {m_Tokens[k].start_pos, m_Tokens[k].end_pos} \subseteq Positions
  /\ m_HasError \in BOOLEAN
  /\ m_Error \in [start_pos : Positions, end_pos : Positions]
  /\ scanning \in {"running", "done", "out_of_range"}

(* Reading stays in the text and its NUL, although the make_* functions     *)
(* advance without asking whether anything is left: the three coordinates   *)
(* agree, and the pointer is null once the NUL has been passed.             *)
CursorInText ==
  /\ at.m_Index = Min({at.m_Column, m_TextSize})
  /\ at.m_CharPtr = IF at.m_Column > m_TextSize THEN NullPtr ELSE at.m_Index

(* The characters of a token: up to end_pos, but && and || are longer. *)
Width(token) == IF token.type \in {"KW_AND", "KW_OR"}
                  THEN 2 ELSE token.end_pos.index - token.start_pos.index
Extent(token)    == token.start_pos.index .. token.start_pos.index + Width(token) - 1
Spelling(token)  == SubSeq(m_Text, token.start_pos.index + 1, token.start_pos.index + Width(token))
Behind(token)    == Char(token.start_pos.index + Width(token))

(* The token is what its characters spell, and as many of them as can be.   *)
Spells(token) ==
  LET s == Spelling(token)
      c == Behind(token)
      type == token.type
  IN  CASE type = "INT"   -> IsNumber(s) /\ Dots(s) = 0 /\ c \notin Digits \cup {"."}
        [] type = "FLOAT" -> IsNumber(s) /\ Dots(s) = 1 /\ c \notin Digits
        [] type = "ID"    -> IsWord(s) /\ c \notin LETTERS /\ token.name = Joined(s)
        [] type \in {"ASSIGN", "LESS", "GREATER"} ->
             Len(s) = 1 /\ Alone[s[1]] = type /\ c # "="
        [] type \in {"EQUAL", "LESS_EQ", "GREATER_EQ"} ->
             Len(s) = 2 /\ WithEqual[s[1]] = type /\ s[2] = "="
        [] type \in {"KW_AND", "KW_OR"} ->
             Len(s) = 2 /\ Doubled[s[1]] = type /\ s[2] = s[1]
        [] OTHER -> Len(s) = 1 /\ Singles[s[1]] = type

(* Tokens are what their characters spell, longest first, in the order of   *)
(* the text, and share no character.                                        *)
TokensSpelled ==
  /\ \A k \in 1 .. Len(m_Tokens) : Spells(m_Tokens[k])
  /\ \A k \in 2 .. Len(m_Tokens) :
       m_Tokens[k - 1].start_pos.index + Width(m_Tokens[k - 1]) <= m_Tokens[k].start_pos.index

(* The characters that have been passed. *)
Passed == 0 .. (IF at.m_CharPtr = NullPtr THEN m_TextSize ELSE at.m_CharPtr) - 1

Relations == {Alone[c] : c \in DOMAIN Alone} \cup {WithEqual[c] : c \in DOMAIN WithEqual}

(* No character is lost without an error but spaces, and the one behind '=', *)
(* '==', '<', '<=', '>' and '>='; and a scan without an error has passed     *)
(* the whole text, up to a NUL.                                              *)
NothingElseLost ==
  ~ m_HasError /\ scanning # "out_of_range" =>
    /\ \A i \in Passed :
         \/ Char(i) \in Spaces
         \/ \E k \in 1 .. Len(m_Tokens) :
              \/ i \in Extent(m_Tokens[k])
              \/ /\ m_Tokens[k].type \in Relations
                 /\ i = m_Tokens[k].start_pos.index + Width(m_Tokens[k])
    /\ scanning = "done" => Char(Cardinality(Passed)) = NUL

(* A reported error is a character that begins nothing, or one in place of  *)
(* the second '&' or '|', and at least one column of it is underlined.      *)
ErrorsPlaced ==
  m_HasError =>
    /\ m_Error.start_pos.column < m_Error.end_pos.column
    /\ m_Error.start_pos.index <= m_TextSize
    /\ \/ Char(m_Error.start_pos.index) \notin Known
       \/ /\ Char(m_Error.start_pos.index - 1) \in DOMAIN Doubled
          /\ Char(m_Error.start_pos.index - 1) # Char(m_Error.start_pos.index)

(* Every scan ends. *)
ScanEnds == <>(scanning # "running")
=============================================================================

------------------------------ MODULE MCLexer ------------------------------
(* The scanner on every text of up to four characters, and of up to five   *)
(* over the characters that interact.                                      *)
EXTENDS Lexer

MCChars == {" ", "\r", "1", "9", ".", "a", "=", "<", "&", "+", "#", NUL}
MCFewer == {" ", "1", ".", "a", "=", "&"}

Upto(n, S) == UNION {[1 .. k -> S] : k \in 0 .. n}

AllTexts == Upto(4, MCChars) \cup Upto(5, MCFewer)

(* TLC keeps the value of a definition, but not of one that a .cfg names. *)
MCTexts == AllTexts
=============================================================================

------------------------------ MODULE MCParser ------------------------------
(* The parser on every line of up to four tokens, of five over fewer kinds *)
(* of tokens, and on expressions with an operator of every level.          *)
EXTENDS Parser, TLC

MCNames    == {"a", "b"}
MCLiterals == {1, 2}

Op(type) == [type |-> type, name |-> "", num |-> 0]
Lit(type, v) == [type |-> type, name |-> "", num |-> v]
Id(x)    == [type |-> "ID", name |-> x, num |-> 0]

MCTokens  == {Lit("INT", 1), Id("a"), Op("ADD"), Op("SUB"), Op("MUL"), Op("LESS"),
              Op("LROUND"), Op("RROUND"), Op("ASSIGN")}
MCFewer   == {Lit("FLOAT", 2), Id("a"), Op("SUB"), Op("KW_AND"), Op("LROUND"), Op("RROUND"),
              Op("ASSIGN")}

Upto(n, S) == UNION {[1 .. k -> S] : k \in 0 .. n}

(* ! a < 1 + b * 2 && a = ..., with one level left out, or put elsewhere. *)
MCOperators == {Op("KW_OR"), Op("EQUAL"), Op("ADD"), Op("DIV"), Op("SUB")}
MCChains ==
  {<<Id("a"), o[1], Lit("INT", 1), o[2], Op("NOT"), Id("b"), o[3], Lit("FLOAT", 2)>> :
     o \in [1 .. 3 -> MCOperators]}
  \cup
  {<<Op("LROUND"), Id("a"), o[1], Lit("INT", 1), Op("RROUND"), o[2],
     Op("LROUND"), Id("b"), Op("ASSIGN"), Id("a"), o[3], Lit("FLOAT", 2), Op("RROUND")>> :
     o \in [1 .. 3 -> MCOperators]}

AllLines == Upto(4, MCTokens) \cup [1 .. 5 -> MCFewer] \cup MCChains

(* TLC keeps the value of a definition, but not of one that a .cfg names. *)
MCLines == AllLines
=============================================================================

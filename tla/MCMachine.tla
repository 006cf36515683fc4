----------------------------- MODULE MCMachine -----------------------------
(* Programs for the compiled code: every expression of depth one, some of  *)
(* depth two, and sequences of lines with variables.                       *)
EXTENDS Machine, ProgramSets

MCNames    == {"a", "b"}
MCLiterals == 0 .. 5

MCOperands == {Num(0), Num(1), Num(5), Flt(0), Flt(2)}
MCDepth1   == Above(MCOperands, ArithOps \cup CmpOps \cup LogicOps, {"NOT"})

MCFew     == {Num(0), Flt(2)}
MCFew1    == Above(MCFew, {"SUB", "LESS", "KW_AND", "KW_OR"}, {"NOT"})
MCDepth2  ==
  {Bin(op, l, r) : op \in {"SUB", "GREATER_EQ", "KW_AND", "KW_OR"}, l \in MCFew1, r \in MCFew}
    \cup {Bin(op, l, r) : op \in {"SUB", "GREATER_EQ", "KW_AND", "KW_OR"}, l \in MCFew, r \in MCFew1}
    \cup {Un("NOT", e) : e \in MCFew1}

MCLines == {Num(3), Var("a"), Var("b"), Let("a", Num(1)), Let("a", Flt(2)),
            Let("b", Let("a", Num(4))), Let("b", Var("a")),
            Bin("KW_OR", Num(0), Let("a", Flt(0))), Bin("KW_AND", Num(0), Let("b", Num(1))),
            Bin("ADD", Var("a"), Var("b"))}

(* As many float comparisons as the x87 stack can take. *)
MCSevenComparisons ==
  [i \in 1 .. 7 |-> Bin("LESS", Flt(1), IF i % 2 = 0 THEN Flt(2) ELSE Num(1))]

MCAllPrograms ==
  {Program(<<e>>) : e \in MCDepth1 \cup MCDepth2}
    \cup {Program(lines) : lines \in MCLines \X MCLines}
    \cup {Program(lines) : lines \in {Let("a", Num(1)), Let("a", Flt(2))} \X MCLines \X MCLines}
    \cup {Program(MCSevenComparisons)}

R == INSTANCE Reference WITH Programs <- {}, X87Limit <- X87Registers - 1

MeaningfulPrograms == {p \in MCAllPrograms : R!Meaningful(p)}
MeaningOfPrograms  == [p \in MeaningfulPrograms |-> R!ValuesOf(p)]

UnnestedPrograms == {p \in MCAllPrograms : Unnested(p)}

(* TLC keeps the value of a definition, but not of one that a .cfg names. *)
MCMeaningful == MeaningfulPrograms
MCMeaning    == MeaningOfPrograms
MCUnnested   == UnnestedPrograms
MCNoMeaning  == [p \in UnnestedPrograms |-> [i \in DOMAIN p.root |-> Undef]]
=============================================================================

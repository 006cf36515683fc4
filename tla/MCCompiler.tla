---------------------------- MODULE MCCompiler ----------------------------
(* The code generator on every expression of depth two over a few          *)
(* operators, and on every sequence of three short lines.                  *)
EXTENDS Walk, ProgramSets

MCNames    == {"a", "b"}
MCLiterals == 0 .. 2

MCOperands == {Num(1), Flt(2)}
MCDepth1   == MCOperands \cup {Let("a", Num(1))}
                \cup Above(MCOperands, {"SUB", "LESS", "KW_AND", "KW_OR"}, {"NOT", "SUB"})
MCDepth2   == Above(MCDepth1, {"SUB", "LESS", "KW_AND", "KW_OR"}, {"NOT"})

MCLines == {<<>>, Num(1), Var("a"), Var("b"), Let("a", Num(1)), Let("a", Flt(2)),
            Let("b", Let("a", Num(1))), Let("b", Var("a")), Un("SUB", Let("a", Num(1))),
            Bin("KW_AND", Num(0), Let("a", Flt(1))), Bin("ADD", Var("a"), Var("b"))}

AllPrograms == {Program(<<e>>) : e \in MCDepth2}
                 \cup {Program(lines) : lines \in MCLines \X MCLines \X MCLines}

(* TLC keeps the value of a definition, but not of one that a .cfg names. *)
MCPrograms == AllPrograms
=============================================================================

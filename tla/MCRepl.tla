------------------------------- MODULE MCRepl -------------------------------
(* main on every pair of the lines below, followed by "exit" or by the     *)
(* first line once more, and on three lines out of fewer before an "exit". *)
EXTENDS Repl

MCNames    == {"a"}
MCLiterals == {1, 2, 9}

Typed ==
  {<<>>, <<" ">>, EXIT, <<"1">>, <<"a">>, <<"a", "=", " ", "1">>, <<"-", "1">>,
   <<"1", "&">>, <<"2", ".", "#", "1">>, <<"#">>, <<"1", "+", ")">>, <<"(", "1">>,
   <<"(">>, <<"1", "(">>, <<"9", "9">>, <<"1", "*", "a">>}

Fewer == {<<>>, <<"2", ".", "#", "1">>, <<"a", "=", " ", "1">>, <<"1", "*", "a">>, <<"(", "1">>}

MCInputs ==
  UNION {[1 .. k -> Typed] : k \in 0 .. 2}
    \cup {<<l, m, EXIT>> : l, m \in Typed}
    \cup {<<l, m, l>>    : l, m \in Typed}
    \cup {<<l, m, n, EXIT>> : l, m, n \in Fewer}

AllSessions ==
  {s \in [lines : MCInputs, terminated : BOOLEAN] : IsSession(s)}

(* TLC keeps the value of a definition, but not of one that a .cfg names. *)
MCSessions == AllSessions
=============================================================================

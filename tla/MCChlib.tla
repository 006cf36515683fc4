------------------------------ MODULE MCChlib ------------------------------
(* The heap with the line of chlib.h and half its block; callers ask for   *)
(* nothing, part of a line, more than a line, all and too much.            *)
EXTENDS Chlib

MCSizes == {0, 4, 12, 16, 32, 33}
=============================================================================

------------------------------ MODULE MCHoles ------------------------------
(* The search for a hole in blocks of four lines with all marks, from each *)
(* of them.                                                                *)
EXTENDS Holes
=============================================================================

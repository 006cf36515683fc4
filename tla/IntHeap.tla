------------------------------ MODULE IntHeap ------------------------------
(***************************************************************************)
(* What heap_alloc_int promises a program: a pointer that no other integer *)
(* has, at which the value can be read from then on, or NULL.              *)
(***************************************************************************)
CONSTANTS Ints, Pointers

VARIABLE value  \* the value at every pointer the program was given

heapVars == <<value>>

Null == "NULL"

HeapInit == value = [p \in {} |-> Null]

Alloc(p, v) ==
  /\ p \in Pointers \ DOMAIN value
  /\ value' = [q \in DOMAIN value \cup {p} |-> IF q = p THEN v ELSE value[q]]

HeapNext == \E p \in Pointers, v \in Ints : Alloc(p, v)

HeapSpec == HeapInit /\ [][HeapNext]_heapVars
=============================================================================

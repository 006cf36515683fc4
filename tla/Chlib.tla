------------------------------- MODULE Chlib -------------------------------
(***************************************************************************)
(* The heap of the runtime library (chlib.c): one block of BLOCK_SIZE      *)
(* bytes in lines of LINE_SIZE bytes, from which bump_reserve_size takes   *)
(* memory by moving a cursor.  Nothing is ever given back.                 *)
(***************************************************************************)
EXTENDS Integers, FiniteSets

CONSTANTS
  BLOCK_SIZE, LINE_SIZE,
  SizeOfChInt,   \* sizeof(struct ch_int)
  ValueOffset,   \* offsetof(struct ch_int, value)
  UINT32,        \* the number of values of a uint32_t
  Sizes,         \* what callers of bump_reserve_size may ask for
  Ints           \* the values of heap_alloc_int

(* A size that makes cursor + alloc_size wrap around is outside the model:  *)
(* the only caller, bump_write_int, asks for SizeOfChInt bytes.             *)
ASSUME ChlibAssumption ==
  /\ LINE_SIZE \in Nat \ {0}
  /\ BLOCK_SIZE \in Nat /\ BLOCK_SIZE % LINE_SIZE = 0
  /\ UINT32 \in Nat
  /\ SizeOfChInt \in Nat /\ ValueOffset \in 1 .. SizeOfChInt - 1
  /\ SizeOfChInt + BLOCK_SIZE < UINT32
  /\ Sizes \subseteq Nat
  /\ \A s \in Sizes : s + BLOCK_SIZE < UINT32

VARIABLES
  heap,        \* "none", then what alloc_heap returned: "ready" or "NULL"; or the process ended
  cursor, limit,
  line_mark, block_mark,
  memory,      \* what was last written at an offset of the block
  objects,     \* the reservations: where they start, how many bytes they have
  ints         \* the integers the program holds a pointer to

chlibVars == <<heap, cursor, limit, line_mark, block_mark, memory, objects, ints>>

LINE_COUNT == BLOCK_SIZE \div LINE_SIZE
Offsets    == 0 .. BLOCK_SIZE - 1
Lines      == 0 .. LINE_COUNT - 1
Marks      == {"MARKED", "FREE", "CONS_MARKED"}
Unwritten  == "unwritten"
CH_INT     == "CH_INT"

-----------------------------------------------------------------------------
ChlibInit ==
  /\ heap = "none"
  /\ cursor = 0 /\ limit = 0
  /\ line_mark = [l \in Lines |-> "FREE"] /\ block_mark = "FREE"
  /\ memory = [a \in Offsets |-> Unwritten]
  /\ objects = {} /\ ints = {}

alloc_bump_block ==
  /\ cursor' = 0 /\ limit' = BLOCK_SIZE
  /\ line_mark' = [l \in Lines |-> "FREE"] /\ block_mark' = "FREE"

(* main calls it first.  If there is no memory for the ChHeap it returns    *)
(* NULL, if there is none for the block the process exits.                  *)
alloc_heap ==
  /\ heap = "none"
  /\ \/ heap' = "ready" /\ alloc_bump_block
     \/ heap' \in {"NULL", "exited"} /\ UNCHANGED <<cursor, limit, line_mark, block_mark>>
  /\ UNCHANGED <<memory, objects, ints>>

next_bump(size) == (cursor + size) % UINT32

(* Faulty variant: one byte too many is accepted. *)
FitsOneMore(size) == next_bump(size) <= limit + 1

Fits(size) == next_bump(size) <= limit

StartLine == cursor \div LINE_SIZE

(* The lines that a reservation marks, besides the one it starts in.  An    *)
(* empty one at the end of the block starts in no line: the code writes the *)
(* mark into block_mark, which lies behind line_mark and is MARKED anyway.  *)
FurtherLines(size) == {StartLine + i : i \in 1 .. size \div LINE_SIZE - 1}

(* Faulty variant: the further lines are left free. *)
MarkedFirstOnly(size) == [l \in Lines |-> IF l = StartLine THEN "MARKED" ELSE line_mark[l]]

Marked(size) ==
  [l \in Lines |-> CASE l \in FurtherLines(size) -> "CONS_MARKED"
                     [] l = StartLine            -> "MARKED"
                     [] OTHER                    -> line_mark[l]]

(* Faulty variant: the cursor is left where it was. *)
ReserveInPlace(size) ==
  /\ block_mark' = "MARKED"
  /\ line_mark' = Marked(size)
  /\ cursor' = cursor
  /\ objects' = objects \cup {[ptr |-> cursor, size |-> size]}

(* Faulty variant: the next object starts on a line of its own. *)
ReserveWholeLines(size) ==
  /\ block_mark' = "MARKED"
  /\ line_mark' = Marked(size)
  /\ cursor' = LINE_SIZE * ((next_bump(size) + LINE_SIZE - 1) \div LINE_SIZE)
  /\ objects' = objects \cup {[ptr |-> cursor, size |-> size]}

(* bump_reserve_size when the block has room: the caller gets a pointer to  *)
(* the bytes at the cursor. *)
Reserve(size) ==
  /\ block_mark' = "MARKED"
  /\ line_mark' = Marked(size)
  /\ cursor' = next_bump(size)
  /\ objects' = objects \cup {[ptr |-> cursor, size |-> size]}

(* bump_reserve_size when it returns NULL; the block is marked all the same. *)
ReserveNothing ==
  /\ limit >= BLOCK_SIZE
  /\ block_mark' = "MARKED"
  /\ UNCHANGED <<line_mark, cursor, objects>>

(* find_next_hole is called with the cursor and the limit themselves where  *)
(* it takes pointers to them: it stores through them if it finds a hole,    *)
(* and bump_reserve_size returns NULL if it does not.                       *)
SearchHole ==
  /\ limit < BLOCK_SIZE
  /\ block_mark' = "MARKED"
  /\ heap' \in {heap, "segfault"}
  /\ UNCHANGED <<line_mark, cursor, objects>>

(* A caller that wants raw bytes. *)
bump_reserve_size ==
  /\ heap = "ready"
  /\ \E size \in Sizes :
       \/ Fits(size) /\ Reserve(size) /\ UNCHANGED heap
       \/ ~ Fits(size) /\ ReserveNothing /\ UNCHANGED heap
       \/ ~ Fits(size) /\ SearchHole
  /\ UNCHANGED <<limit, memory, ints>>

(* Faulty variant: the value goes where the type is. *)
WriteIntAtHeader(value) == memory' = [memory EXCEPT ![cursor] = value]

(* bump_write_int: the type and the value of the integer. *)
WriteInt(value) ==
  memory' = [memory EXCEPT ![cursor] = CH_INT, ![cursor + ValueOffset] = value]

heap_alloc_int ==
  /\ heap = "ready"
  /\ \E value \in Ints :
       \/ /\ Fits(SizeOfChInt)
          /\ Reserve(SizeOfChInt)
          /\ WriteInt(value)
          /\ ints' = ints \cup {[ptr |-> cursor, value |-> value]}
          /\ UNCHANGED heap
       \/ ~ Fits(SizeOfChInt) /\ ReserveNothing /\ UNCHANGED <<heap, memory, ints>>
       \/ ~ Fits(SizeOfChInt) /\ SearchHole /\ UNCHANGED <<memory, ints>>
  /\ UNCHANGED limit

(* heap_alloc_int with the NULL that alloc_heap returned. *)
heap_alloc_int_null ==
  /\ heap = "NULL"
  /\ heap' = "segfault"
  /\ UNCHANGED <<cursor, limit, line_mark, block_mark, memory, objects, ints>>

ChlibNext == alloc_heap \/ bump_reserve_size \/ heap_alloc_int \/ heap_alloc_int_null

ChlibSpec == ChlibInit /\ [][ChlibNext]_chlibVars

-----------------------------------------------------------------------------
(* Properties.                                                             *)

ChlibTypeOK ==
  /\ heap \in {"none", "ready", "NULL", "exited", "segfault"}
  /\ cursor \in 0 .. BLOCK_SIZE
  /\ limit \in 0 .. BLOCK_SIZE
  /\ line_mark \in [Lines -> Marks]
  /\ block_mark \in Marks
  /\ memory \in [Offsets -> Ints \cup {CH_INT, Unwritten}]
  /\ objects \subseteq [ptr : 0 .. BLOCK_SIZE, size : Nat]
  /\ ints \subseteq [ptr : Offsets, value : Ints]

Bytes(o) == o.ptr .. o.ptr + o.size - 1

(* No two reservations share a byte, and none reaches over the end of the   *)
(* block into the cursor and the limit that follow it in struct bump_block. *)
ObjectsDisjoint ==
  /\ \A o \in objects : Bytes(o) \subseteq Offsets
  /\ \A o, p \in objects : o # p => Bytes(o) \cap Bytes(p) = {}

Requests     == Sizes \cup {SizeOfChInt}
Places(size) == {p .. p + size - 1 : p \in 0 .. BLOCK_SIZE - size}

(* A request is refused only when the block has no place for it, between    *)
(* the objects or behind them: the cursor leaves no byte unused, and the    *)
(* test of the cursor alone decides what a search of the block would.       *)
RefusedOnlyWhenFull ==
  heap = "ready" =>
    \A size \in Requests : ~ Fits(size) =>
      \A place \in Places(size) : \E o \in objects : Bytes(o) \cap place # {}

(* A line with a byte of an object is marked, so it would be found in use,  *)
(* as long as the reservations so far were of whole lines.  (The code marks *)
(* alloc_size / LINE_SIZE lines, rounded down.)                             *)
LinesMarked ==
  (\A o \in objects : o.size % LINE_SIZE = 0) =>
    \A o \in objects : \A a \in Bytes(o) : line_mark[a \div LINE_SIZE] # "FREE"

(* The mapping to IntHeap: what a program reads through its pointers.       *)
Held == INSTANCE IntHeap WITH
          Pointers <- Offsets,
          value    <- [p \in {i.ptr : i \in ints} |-> memory[p + ValueOffset]]

(* An integer keeps its value whatever is allocated after it. *)
HeapImplements == Held!HeapSpec

(* ... and the type by which type_from_ptr recognises it. *)
TypesKept == \A i \in ints : memory[i.ptr] = CH_INT /\ memory[i.ptr + ValueOffset] = i.value
=============================================================================

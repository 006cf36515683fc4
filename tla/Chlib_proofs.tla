--------------------------- MODULE Chlib_proofs ---------------------------
(***************************************************************************)
(* Proofs about the heap, for every block size, line size and request.     *)
(*                                                                         *)
(* The inductive invariant HeapInv says where things lie: every object     *)
(* ends below the cursor, and every integer is an object of its own.       *)
(***************************************************************************)
EXTENDS Chlib, TLAPS

HeapInv ==
  /\ heap = "none" => objects = {} /\ ints = {}
  /\ heap = "ready" => limit = BLOCK_SIZE
  /\ \A o \in objects : o.ptr + o.size <= cursor
  /\ \A o, p \in objects : o # p => o.ptr + o.size <= p.ptr \/ p.ptr + p.size <= o.ptr
  /\ \A i \in ints : i.ptr + SizeOfChInt <= cursor
  /\ \A i, j \in ints : i # j => i.ptr + SizeOfChInt <= j.ptr \/ j.ptr + SizeOfChInt <= i.ptr
  /\ TypesKept

-----------------------------------------------------------------------------
(* The cursor does not wrap around: a request that fits ends where the      *)
(* cursor is put.                                                           *)
LEMMA NoWrap ==
  ASSUME NEW size \in Requests, ChlibTypeOK
  PROVE  /\ size \in Nat
         /\ next_bump(size) = cursor + size
<1>1. size \in Nat /\ cursor \in Nat /\ UINT32 \in Nat /\ cursor + size < UINT32
  BY ChlibAssumption DEF Requests, ChlibTypeOK
<1>2. \A x, y \in Nat : x < y => x % y = x
  OBVIOUS
<1>3. QED
  BY <1>1, <1>2 DEF next_bump

(* The start of a reservation is a line of the block or, for an empty one,  *)
(* the end of the block: the marks stay a function on the lines.            *)
LEMMA MarkedTyped ==
  ASSUME NEW size, ChlibTypeOK
  PROVE  Marked(size) \in [Lines -> Marks]
  BY DEF Marked, ChlibTypeOK, Marks

(* What a reservation that fits does to the objects. *)
LEMMA ReserveStep ==
  ASSUME ChlibTypeOK, HeapInv, heap = "ready",
         NEW size \in Requests, Fits(size), Reserve(size)
  PROVE  /\ cursor' = cursor + size /\ cursor' \in 0 .. BLOCK_SIZE
         /\ line_mark' \in [Lines -> Marks] /\ block_mark' \in Marks
         /\ objects' \subseteq [ptr : 0 .. BLOCK_SIZE, size : Nat]
         /\ \A o \in objects' : o.ptr + o.size <= cursor'
         /\ \A o, p \in objects' :
              o # p => o.ptr + o.size <= p.ptr \/ p.ptr + p.size <= o.ptr
<1>1. size \in Nat /\ cursor \in Nat /\ cursor' = cursor + size /\ limit = BLOCK_SIZE
  BY NoWrap DEF Reserve, ChlibTypeOK, HeapInv
<1>2. BLOCK_SIZE \in Nat
  BY ChlibAssumption
<1>3. cursor' \in 0 .. BLOCK_SIZE
  BY <1>1, <1>2, NoWrap DEF Fits
<1>4. line_mark' \in [Lines -> Marks] /\ block_mark' \in Marks
  BY MarkedTyped DEF Reserve, Marks
<1> DEFINE new == [ptr |-> cursor, size |-> size]
<1>5. objects' = objects \cup {new} /\ new \in [ptr : 0 .. BLOCK_SIZE, size : Nat]
  BY <1>1 DEF Reserve, ChlibTypeOK
<1>6. objects' \subseteq [ptr : 0 .. BLOCK_SIZE, size : Nat]
  BY <1>5 DEF ChlibTypeOK
<1>7. \A o \in objects : o.ptr \in Nat /\ o.size \in Nat /\ o.ptr + o.size <= cursor
  BY <1>2 DEF ChlibTypeOK, HeapInv
<1>8. new.ptr = cursor /\ new.size = size
  OBVIOUS
<1>9. \A o \in objects' : o.ptr + o.size <= cursor'
  BY <1>1, <1>5, <1>7, <1>8
<1>10. \A o, p \in objects' : o # p => o.ptr + o.size <= p.ptr \/ p.ptr + p.size <= o.ptr
  <2> SUFFICES ASSUME NEW o \in objects', NEW p \in objects', o # p
               PROVE  o.ptr + o.size <= p.ptr \/ p.ptr + p.size <= o.ptr
    OBVIOUS
  <2>1. CASE o \in objects /\ p \in objects
    BY <2>1 DEF HeapInv
  <2>2. CASE o = new
    BY <2>2, <1>5, <1>7, <1>8
  <2>3. CASE p = new
    BY <2>3, <1>5, <1>7, <1>8
  <2>4. QED
    BY <2>1, <2>2, <2>3, <1>5
<1>11. QED
  BY <1>1, <1>3, <1>4, <1>6, <1>9, <1>10

(* What writing an integer at the cursor does to the integers. *)
LEMMA IntStep ==
  ASSUME ChlibTypeOK, HeapInv, heap = "ready",
         NEW value \in Ints, Fits(SizeOfChInt), Reserve(SizeOfChInt), WriteInt(value),
         ints' = ints \cup {[ptr |-> cursor, value |-> value]}
  PROVE  /\ cursor \in Offsets /\ cursor + ValueOffset \in Offsets
         /\ memory' \in [Offsets -> Ints \cup {CH_INT, Unwritten}]
         /\ ints' \subseteq [ptr : Offsets, value : Ints]
         /\ \A i \in ints' : i.ptr + SizeOfChInt <= cursor'
         /\ \A i, j \in ints' :
              i # j => i.ptr + SizeOfChInt <= j.ptr \/ j.ptr + SizeOfChInt <= i.ptr
         /\ TypesKept'
<1> DEFINE new == [ptr |-> cursor, value |-> value]
<1>1. /\ SizeOfChInt \in Nat /\ ValueOffset \in Nat /\ BLOCK_SIZE \in Nat
      /\ 0 < ValueOffset /\ ValueOffset < SizeOfChInt
  BY ChlibAssumption
<1>2. cursor \in Nat /\ cursor' = cursor + SizeOfChInt /\ cursor' <= BLOCK_SIZE
  BY ReserveStep DEF Requests, ChlibTypeOK
<1>3. cursor \in Offsets /\ cursor + ValueOffset \in Offsets /\ cursor # cursor + ValueOffset
  BY <1>1, <1>2 DEF Offsets
<1>4. memory' \in [Offsets -> Ints \cup {CH_INT, Unwritten}]
  BY <1>3 DEF WriteInt, ChlibTypeOK
<1>5. ints' = ints \cup {new} /\ new \in [ptr : Offsets, value : Ints]
  BY <1>3
<1>6. ints' \subseteq [ptr : Offsets, value : Ints]
  BY <1>5 DEF ChlibTypeOK
<1>7. \A i \in ints : i.ptr \in Nat /\ i.ptr \in Offsets /\ i.ptr + SizeOfChInt <= cursor
  BY <1>1 DEF ChlibTypeOK, HeapInv, Offsets
<1>8. new.ptr = cursor /\ new.value = value
  OBVIOUS
<1>9. \A i \in ints' : i.ptr + SizeOfChInt <= cursor'
  BY <1>1, <1>2, <1>5, <1>7, <1>8
<1>10. \A i, j \in ints' : i # j => i.ptr + SizeOfChInt <= j.ptr \/ j.ptr + SizeOfChInt <= i.ptr
  <2> SUFFICES ASSUME NEW i \in ints', NEW j \in ints', i # j
               PROVE  i.ptr + SizeOfChInt <= j.ptr \/ j.ptr + SizeOfChInt <= i.ptr
    OBVIOUS
  <2>1. CASE i \in ints /\ j \in ints
    BY <2>1 DEF HeapInv
  <2>2. CASE i = new
    BY <2>2, <1>5, <1>7, <1>8
  <2>3. CASE j = new
    BY <2>3, <1>5, <1>7, <1>8
  <2>4. QED
    BY <2>1, <2>2, <2>3, <1>5
<1>11. TypesKept'
  <2> SUFFICES ASSUME NEW i \in ints'
               PROVE  memory'[i.ptr] = CH_INT /\ memory'[i.ptr + ValueOffset] = i.value
    BY DEF TypesKept
  <2>1. CASE i = new
    BY <2>1, <1>3, <1>8 DEF WriteInt, ChlibTypeOK
  <2>2. CASE i \in ints
    <3>1. i.ptr \in Offsets /\ i.ptr + ValueOffset \in Offsets
      BY <2>2, <1>1, <1>2, <1>7 DEF Offsets
    <3>2. /\ i.ptr # cursor /\ i.ptr # cursor + ValueOffset
          /\ i.ptr + ValueOffset # cursor /\ i.ptr + ValueOffset # cursor + ValueOffset
      BY <2>2, <1>1, <1>2, <1>7
    <3>3. memory[i.ptr] = CH_INT /\ memory[i.ptr + ValueOffset] = i.value
      BY <2>2 DEF HeapInv, TypesKept
    <3>4. QED
      BY <3>1, <3>2, <3>3 DEF WriteInt, ChlibTypeOK
  <2>3. QED
    BY <2>1, <2>2, <1>5
<1>12. QED
  BY <1>3, <1>4, <1>6, <1>9, <1>10, <1>11

-----------------------------------------------------------------------------
(* The empty heap satisfies the type invariant and the invariant. *)
LEMMA HeapStart == ChlibInit => ChlibTypeOK /\ HeapInv
<1>1. BLOCK_SIZE \in Nat
  BY ChlibAssumption
<1>2. QED
  BY <1>1 DEF ChlibInit, ChlibTypeOK, HeapInv, TypesKept, Marks

(* A step that hands out nothing. *)
LEMMA QuietStep ==
  ASSUME ChlibTypeOK, HeapInv,
         heap' \in {"ready", "segfault"}, heap' = "ready" => heap = "ready",
         block_mark' \in Marks,
         UNCHANGED <<cursor, limit, line_mark, memory, objects, ints>>
  PROVE  ChlibTypeOK' /\ HeapInv'
<1>1. ChlibTypeOK'
  BY DEF ChlibTypeOK
<1>2. HeapInv'
  BY DEF HeapInv, TypesKept
<1>3. QED
  BY <1>1, <1>2

(* The step of every operation. *)
LEMMA HeapStep == ChlibTypeOK /\ HeapInv /\ [ChlibNext]_chlibVars => ChlibTypeOK' /\ HeapInv'
<1> SUFFICES ASSUME ChlibTypeOK, HeapInv, [ChlibNext]_chlibVars
             PROVE  ChlibTypeOK' /\ HeapInv'
  OBVIOUS
<1>1. CASE alloc_heap
  <2>1. objects = {} /\ ints = {} /\ objects' = {} /\ ints' = {} /\ memory' = memory
    BY <1>1 DEF alloc_heap, HeapInv
  <2>2. BLOCK_SIZE \in Nat
    BY ChlibAssumption
  <2>3. /\ heap' \in {"ready", "NULL", "exited"}
        /\ cursor' \in 0 .. BLOCK_SIZE /\ limit' \in 0 .. BLOCK_SIZE
        /\ line_mark' \in [Lines -> Marks] /\ block_mark' \in Marks
        /\ heap' = "ready" => limit' = BLOCK_SIZE
    BY <1>1, <2>2 DEF alloc_heap, alloc_bump_block, ChlibTypeOK, Marks
  <2>4. ChlibTypeOK'
    BY <2>1, <2>3 DEF ChlibTypeOK
  <2>5. HeapInv'
    BY <2>1, <2>3 DEF HeapInv, TypesKept
  <2>6. QED
    BY <2>4, <2>5
<1>2. CASE bump_reserve_size
  <2>1. PICK size \in Sizes :
          \/ Fits(size) /\ Reserve(size) /\ UNCHANGED heap
          \/ ~ Fits(size) /\ ReserveNothing /\ UNCHANGED heap
          \/ ~ Fits(size) /\ SearchHole
    BY <1>2 DEF bump_reserve_size
  <2>2. heap = "ready" /\ UNCHANGED <<limit, memory, ints>>
    BY <1>2 DEF bump_reserve_size
  <2>3. CASE Fits(size) /\ Reserve(size) /\ UNCHANGED heap
    <3>1. /\ cursor' = cursor + size /\ cursor' \in 0 .. BLOCK_SIZE
          /\ line_mark' \in [Lines -> Marks] /\ block_mark' \in Marks
          /\ objects' \subseteq [ptr : 0 .. BLOCK_SIZE, size : Nat]
          /\ \A o \in objects' : o.ptr + o.size <= cursor'
          /\ \A o, p \in objects' :
               o # p => o.ptr + o.size <= p.ptr \/ p.ptr + p.size <= o.ptr
      BY <2>2, <2>3, ReserveStep DEF Requests
    <3>2. ChlibTypeOK'
      BY <2>2, <2>3, <3>1 DEF ChlibTypeOK
    <3>3. \A i \in ints' : i.ptr + SizeOfChInt <= cursor'
      <4>1. \A i \in ints : i.ptr \in Int /\ i.ptr + SizeOfChInt <= cursor
        BY DEF HeapInv, ChlibTypeOK, Offsets
      <4>2. size \in Nat /\ cursor \in Nat /\ SizeOfChInt \in Nat
        BY ChlibAssumption DEF ChlibTypeOK
      <4>3. QED
        BY <2>2, <3>1, <4>1, <4>2
    <3>4. HeapInv'
      BY <2>2, <2>3, <3>1, <3>3 DEF HeapInv, TypesKept
    <3>5. QED
      BY <3>2, <3>4
  <2>4. CASE ~ Fits(size) /\ ReserveNothing /\ UNCHANGED heap
    BY <2>2, <2>4, QuietStep DEF ReserveNothing, Marks
  <2>5. CASE ~ Fits(size) /\ SearchHole
    BY <2>2, <2>5, QuietStep DEF SearchHole, Marks
  <2>6. QED
    BY <2>1, <2>3, <2>4, <2>5
<1>3. CASE heap_alloc_int
  <2>1. PICK value \in Ints :
          \/ /\ Fits(SizeOfChInt)
             /\ Reserve(SizeOfChInt)
             /\ WriteInt(value)
             /\ ints' = ints \cup {[ptr |-> cursor, value |-> value]}
             /\ UNCHANGED heap
          \/ ~ Fits(SizeOfChInt) /\ ReserveNothing /\ UNCHANGED <<heap, memory, ints>>
          \/ ~ Fits(SizeOfChInt) /\ SearchHole /\ UNCHANGED <<memory, ints>>
    BY <1>3 DEF heap_alloc_int
  <2>2. heap = "ready" /\ UNCHANGED limit
    BY <1>3 DEF heap_alloc_int
  <2>3. CASE /\ Fits(SizeOfChInt) /\ Reserve(SizeOfChInt) /\ WriteInt(value)
             /\ ints' = ints \cup {[ptr |-> cursor, value |-> value]}
             /\ UNCHANGED heap
    <3>1. /\ cursor' \in 0 .. BLOCK_SIZE
          /\ line_mark' \in [Lines -> Marks] /\ block_mark' \in Marks
          /\ objects' \subseteq [ptr : 0 .. BLOCK_SIZE, size : Nat]
          /\ \A o \in objects' : o.ptr + o.size <= cursor'
          /\ \A o, p \in objects' :
               o # p => o.ptr + o.size <= p.ptr \/ p.ptr + p.size <= o.ptr
      BY <2>2, <2>3, ReserveStep DEF Requests
    <3>2. /\ memory' \in [Offsets -> Ints \cup {CH_INT, Unwritten}]
          /\ ints' \subseteq [ptr : Offsets, value : Ints]
          /\ \A i \in ints' : i.ptr + SizeOfChInt <= cursor'
          /\ \A i, j \in ints' :
               i # j => i.ptr + SizeOfChInt <= j.ptr \/ j.ptr + SizeOfChInt <= i.ptr
          /\ TypesKept'
      BY <2>2, <2>3, IntStep
    <3>3. ChlibTypeOK'
      BY <2>2, <2>3, <3>1, <3>2 DEF ChlibTypeOK
    <3>4. HeapInv'
      BY <2>2, <2>3, <3>1, <3>2 DEF HeapInv
    <3>5. QED
      BY <3>3, <3>4
  <2>4. CASE ~ Fits(SizeOfChInt) /\ ReserveNothing /\ UNCHANGED <<heap, memory, ints>>
    BY <2>2, <2>4, QuietStep DEF ReserveNothing, Marks
  <2>5. CASE ~ Fits(SizeOfChInt) /\ SearchHole /\ UNCHANGED <<memory, ints>>
    BY <2>2, <2>5, QuietStep DEF SearchHole, Marks
  <2>6. QED
    BY <2>1, <2>3, <2>4, <2>5
<1>4. CASE heap_alloc_int_null
  <2>1. block_mark' \in Marks /\ heap' = "segfault"
    BY <1>4 DEF heap_alloc_int_null, ChlibTypeOK
  <2>2. QED
    BY <1>4, <2>1, QuietStep DEF heap_alloc_int_null
<1>5. CASE UNCHANGED chlibVars
  <2>1. ChlibTypeOK'
    BY <1>5 DEF ChlibTypeOK, chlibVars
  <2>2. HeapInv'
    BY <1>5 DEF HeapInv, TypesKept, chlibVars
  <2>3. QED
    BY <2>1, <2>2
<1>6. QED
  BY <1>1, <1>2, <1>3, <1>4, <1>5 DEF ChlibNext

-----------------------------------------------------------------------------
(* The heap's variables keep their types: the cursor stays in the block. *)
THEOREM ChlibTypeCorrect == ChlibSpec => []ChlibTypeOK
  BY HeapStart, HeapStep, PTL DEF ChlibSpec

(* Where things lie in the block, as HeapInv says. *)
THEOREM HeapInvCorrect == ChlibSpec => []HeapInv
  BY HeapStart, HeapStep, PTL DEF ChlibSpec

(* No two reservations overlap and none leaves the block. *)
THEOREM ObjectsDisjointCorrect == ChlibSpec => []ObjectsDisjoint
<1>1. ChlibTypeOK /\ HeapInv => ObjectsDisjoint
  <2> SUFFICES ASSUME ChlibTypeOK, HeapInv
               PROVE  ObjectsDisjoint
    OBVIOUS
  <2>1. BLOCK_SIZE \in Nat /\ cursor \in Nat /\ cursor <= BLOCK_SIZE
    BY ChlibAssumption DEF ChlibTypeOK
  <2>2. \A o \in objects : o.ptr \in Nat /\ o.size \in Nat
    BY DEF ChlibTypeOK
  <2>3. \A o \in objects : Bytes(o) \subseteq Offsets
    BY <2>1, <2>2 DEF HeapInv, Bytes, Offsets
  <2>4. \A o, p \in objects : o # p => Bytes(o) \cap Bytes(p) = {}
    BY <2>2 DEF HeapInv, Bytes
  <2>5. QED
    BY <2>3, <2>4 DEF ObjectsDisjoint
<1>2. QED
  BY <1>1, ChlibTypeCorrect, HeapInvCorrect, PTL

(* Every integer keeps its type and its value. *)
THEOREM TypesKeptCorrect == ChlibSpec => []TypesKept
<1>1. HeapInv => TypesKept
  BY DEF HeapInv
<1>2. QED
  BY <1>1, HeapInvCorrect, PTL

-----------------------------------------------------------------------------
(* Refusals.                                                               *)

(* No byte below the cursor is free. *)
Packed == \A a \in 0 .. cursor - 1 : \E o \in objects : a \in Bytes(o)

(* A reservation takes the bytes between the old and the new cursor. *)
LEMMA PackedReserve ==
  ASSUME ChlibTypeOK, HeapInv, Packed, heap = "ready",
         NEW size \in Requests, Fits(size), Reserve(size)
  PROVE  Packed'
<1>1. size \in Nat /\ cursor \in Nat /\ cursor' = cursor + size
  BY NoWrap DEF Reserve, ChlibTypeOK
<1>2. PICK new : new = [ptr |-> cursor, size |-> size]
  OBVIOUS
<1>3. objects' = objects \cup {new} /\ new.ptr = cursor /\ new.size = size
  BY <1>2 DEF Reserve
<1>4. SUFFICES ASSUME NEW a \in 0 .. cursor' - 1
               PROVE  \E o \in objects' : a \in Bytes(o)
  BY DEF Packed, Bytes
<1>5. CASE a < cursor
  <2>1. a \in 0 .. cursor - 1
    BY <1>1, <1>5
  <2>2. QED
    BY <1>3, <2>1 DEF Packed
<1>6. CASE a >= cursor
  <2>1. a \in Bytes(new)
    BY <1>1, <1>3, <1>6 DEF Bytes
  <2>2. QED
    BY <1>3, <2>1
<1>7. QED
  BY <1>1, <1>5, <1>6

(* Every operation leaves the bytes below the cursor taken. *)
LEMMA PackedStep ==
  ChlibTypeOK /\ HeapInv /\ Packed /\ [ChlibNext]_chlibVars => Packed'
<1> SUFFICES ASSUME ChlibTypeOK, HeapInv, Packed, [ChlibNext]_chlibVars
             PROVE  Packed'
  OBVIOUS
<1>1. CASE UNCHANGED <<cursor, objects>>
  BY <1>1 DEF Packed, Bytes
<1>2. CASE alloc_heap
  <2>1. CASE alloc_bump_block
    BY <2>1 DEF alloc_bump_block, Packed
  <2>2. CASE UNCHANGED cursor
    BY <1>1, <1>2, <2>2 DEF alloc_heap
  <2>3. QED
    BY <1>2, <2>1, <2>2 DEF alloc_heap
<1>3. CASE bump_reserve_size
  <2>1. PICK size \in Sizes : (Fits(size) /\ Reserve(size)) \/ ReserveNothing \/ SearchHole
    BY <1>3 DEF bump_reserve_size
  <2>2. QED
    BY <1>1, <1>3, <2>1, PackedReserve
      DEF bump_reserve_size, ReserveNothing, SearchHole, Requests
<1>4. CASE heap_alloc_int
  <2>1. (Fits(SizeOfChInt) /\ Reserve(SizeOfChInt)) \/ ReserveNothing \/ SearchHole
    BY <1>4 DEF heap_alloc_int
  <2>2. QED
    BY <1>1, <1>4, <2>1, PackedReserve
      DEF heap_alloc_int, ReserveNothing, SearchHole, Requests
<1>5. CASE heap_alloc_int_null \/ UNCHANGED chlibVars
  BY <1>1, <1>5 DEF heap_alloc_int_null, chlibVars
<1>6. QED
  BY <1>2, <1>3, <1>4, <1>5 DEF ChlibNext

(* A request that does not fit behind the cursor fits nowhere: wherever it  *)
(* would lie in the block it begins below the cursor.                       *)
LEMMA NoPlaceBelow ==
  ChlibTypeOK /\ HeapInv /\ Packed => RefusedOnlyWhenFull
<1> SUFFICES ASSUME ChlibTypeOK, HeapInv, Packed, heap = "ready",
                    NEW size \in Requests, ~ Fits(size),
                    NEW p \in 0 .. BLOCK_SIZE - size
             PROVE  \E o \in objects : Bytes(o) \cap (p .. p + size - 1) # {}
  BY DEF RefusedOnlyWhenFull, Places
<1>1. size \in Nat /\ cursor \in 0 .. BLOCK_SIZE /\ BLOCK_SIZE \in Nat
  BY NoWrap, ChlibAssumption DEF ChlibTypeOK
<1>2. cursor + size > BLOCK_SIZE
  BY <1>1, NoWrap DEF Fits, HeapInv
<1>3. p \in 0 .. cursor - 1 /\ p \in p .. p + size - 1
  BY <1>1, <1>2
<1>4. PICK o \in objects : p \in Bytes(o)
  BY <1>3 DEF Packed
<1>5. QED
  BY <1>3, <1>4

(* A request is refused only when no place in the block is free for it. *)
THEOREM RefusedOnlyWhenFullCorrect == ChlibSpec => []RefusedOnlyWhenFull
<1>1. ChlibInit => Packed
  BY DEF ChlibInit, Packed
<1>2. ChlibSpec => []Packed
  BY <1>1, PackedStep, ChlibTypeCorrect, HeapInvCorrect, PTL DEF ChlibSpec
<1>3. QED
  BY <1>2, NoPlaceBelow, ChlibTypeCorrect, HeapInvCorrect, PTL

-----------------------------------------------------------------------------
(* Lines.                                                                  *)

(* Multiplication by the line size keeps the order. *)
LEMMA Scale == \A n, x, y \in Nat : x <= y => n * x <= n * y
  OBVIOUS

(* The line of a byte, and the byte's place in it. *)
LEMMA LineOf ==
  \A a \in Nat, n \in Nat \ {0} :
    a \div n \in Nat /\ a % n \in 0 .. n - 1 /\ a = n * (a \div n) + (a % n)
  OBVIOUS

(* A byte at or after the start of line k lies in line k or a later one. *)
LEMMA AfterStart ==
  ASSUME NEW n \in Nat \ {0}, NEW a \in Nat, NEW k \in Nat, n * k <= a
  PROVE  k <= a \div n
<1> DEFINE q == a \div n
           r == a % n
<1>1. q \in Nat /\ r \in Nat /\ r < n /\ a = n * q + r
  BY LineOf
<1> HIDE DEF q, r
<1>2. SUFFICES ASSUME q + 1 <= k
               PROVE  FALSE
  BY <1>1 DEF q
<1>3. n * (q + 1) <= n * k /\ n * (q + 1) = n * q + n
  BY <1>1, <1>2, Scale
<1>4. n * q \in Nat /\ n * k \in Nat
  BY <1>1
<1>5. QED
  BY <1>1, <1>3, <1>4

(* A byte before the start of line k lies in an earlier line. *)
LEMMA BeforeEnd ==
  ASSUME NEW n \in Nat \ {0}, NEW a \in Nat, NEW k \in Nat, a < n * k
  PROVE  a \div n < k
<1> DEFINE q == a \div n
<1>1. q \in Nat /\ n * q <= a
  BY LineOf
<1> HIDE DEF q
<1>2. SUFFICES ASSUME k <= q
               PROVE  FALSE
  BY <1>1 DEF q
<1>3. n * k <= n * q
  BY <1>1, <1>2, Scale
<1>4. n * q \in Nat /\ n * k \in Nat
  BY <1>1
<1>5. QED
  BY <1>1, <1>3, <1>4

WholeLines(os) == \A o \in os : o.size % LINE_SIZE = 0

(* As long as whole lines are reserved, a reservation starts with a line. *)
LineInv ==
  WholeLines(objects) =>
    /\ cursor % LINE_SIZE = 0
    /\ \A o \in objects : \A a \in Bytes(o) : line_mark[a \div LINE_SIZE] # "FREE"

(* Whole lines from the start of a line end at the start of a line. *)
LEMMA WholeSum ==
  ASSUME NEW n \in Nat \ {0}, NEW x \in Nat, NEW y \in Nat, x % n = 0, y % n = 0
  PROVE  /\ (x + y) % n = 0
         /\ x + y = n * (x \div n + y \div n)
<1> DEFINE k == x \div n
           m == y \div n
           s == x + y
           q == s \div n
           r == s % n
<1>1. k \in Nat /\ m \in Nat /\ x = n * k /\ y = n * m
  BY LineOf
<1>2. q \in Nat /\ r \in Nat /\ r < n /\ x + y = n * q + r
  <2>1. s \in Nat
    OBVIOUS
  <2> HIDE DEF s
  <2>2. q \in Nat /\ r \in Nat /\ r < n /\ s = n * q + r
    BY <2>1, LineOf
  <2>3. QED
    BY <2>2 DEF s
<1> HIDE DEF k, m, q, r
<1>3. x + y = n * (k + m) /\ k + m \in Nat
  BY <1>1
<1>4. k + m <= q
  <2>1. SUFFICES ASSUME q + 1 <= k + m
                 PROVE  FALSE
    BY <1>2, <1>3
  <2>2. n * (q + 1) <= n * (k + m) /\ n * (q + 1) = n * q + n
    BY <1>2, <1>3, <2>1, Scale
  <2>3. n * q \in Nat /\ n * (k + m) \in Nat
    BY <1>2, <1>3
  <2>4. QED
    BY <1>2, <1>3, <2>2, <2>3
<1>5. n * (k + m) <= n * q /\ n * q \in Nat
  BY <1>2, <1>3, <1>4, Scale
<1>6. r = 0
  BY <1>2, <1>3, <1>5
<1>7. QED
  BY <1>3, <1>6 DEF k, m, r

(* The block is a whole number of lines. *)
LEMMA BlockOfLines ==
  /\ LINE_SIZE \in Nat \ {0} /\ BLOCK_SIZE \in Nat
  /\ LINE_COUNT \in Nat /\ BLOCK_SIZE = LINE_SIZE * LINE_COUNT
<1>1. LINE_SIZE \in Nat \ {0} /\ BLOCK_SIZE \in Nat /\ BLOCK_SIZE % LINE_SIZE = 0
  BY ChlibAssumption
<1> DEFINE c == BLOCK_SIZE \div LINE_SIZE
           r == BLOCK_SIZE % LINE_SIZE
<1>2. c \in Nat /\ BLOCK_SIZE = LINE_SIZE * c + r /\ r = 0
  BY <1>1, LineOf
<1> HIDE DEF c, r
<1>3. c \in Nat /\ BLOCK_SIZE = LINE_SIZE * c
  BY <1>1, <1>2
<1>4. QED
  BY <1>1, <1>3 DEF c, LINE_COUNT

(* The bytes of a reservation of whole lines lie in the lines it marks. *)
LEMMA NewLinesMarked ==
  ASSUME ChlibTypeOK, NEW size \in Requests, Fits(size),
         cursor % LINE_SIZE = 0, size % LINE_SIZE = 0,
         NEW a \in cursor .. cursor + size - 1
  PROVE  Marked(size)[a \div LINE_SIZE] # "FREE"
<1> DEFINE k == StartLine
           m == size \div LINE_SIZE
           q == a \div LINE_SIZE
<1>1. /\ LINE_SIZE \in Nat \ {0} /\ BLOCK_SIZE \in Nat /\ BLOCK_SIZE % LINE_SIZE = 0
      /\ cursor \in Nat /\ size \in Nat /\ limit \in Nat /\ limit <= BLOCK_SIZE
      /\ cursor + size <= limit /\ a \in Nat
  BY NoWrap, ChlibAssumption DEF ChlibTypeOK, Fits
<1>2. /\ k \in Nat /\ m \in Nat /\ q \in Nat
      /\ cursor = LINE_SIZE * k /\ cursor + size = LINE_SIZE * (k + m)
  <2>1. k \in Nat /\ m \in Nat /\ q \in Nat
    BY <1>1, LineOf DEF StartLine
  <2>2. cursor = LINE_SIZE * k + (cursor % LINE_SIZE)
    BY <1>1, LineOf DEF StartLine
  <2>3. cursor + size = LINE_SIZE * (k + m)
    BY <1>1, WholeSum DEF StartLine
  <2> HIDE DEF k, m, q
  <2>4. QED
    BY <1>1, <2>1, <2>2, <2>3
<1>3. k <= q
  BY <1>1, <1>2, AfterStart
<1>4. k + m \in Nat /\ a < LINE_SIZE * (k + m)
  BY <1>1, <1>2
<1>5. q < k + m
  BY <1>1, <1>4, BeforeEnd
<1>6. q < LINE_COUNT
  <2>1. LINE_COUNT \in Nat /\ a < LINE_SIZE * LINE_COUNT
    BY <1>1, BlockOfLines
  <2>2. QED
    BY <1>1, <2>1, BeforeEnd
<1> HIDE DEF k, m, q
<1>7. q \in Lines
  BY <1>2, <1>6, BlockOfLines DEF Lines
<1>8. Marked(size)[q] # "FREE"
  <2>1. CASE q = k
    BY <1>7, <2>1 DEF Marked, k
  <2>2. CASE q # k
    <3>1. q - k \in 1 .. m - 1 /\ q = k + (q - k)
      BY <1>2, <1>3, <1>5, <2>2
    <3>2. q \in FurtherLines(size)
      BY <3>1 DEF FurtherLines, k, m
    <3>3. QED
      BY <1>7, <3>2 DEF Marked
  <2>3. QED
    BY <2>1, <2>2
<1>9. QED
  BY <1>8 DEF q

(* Marks are not taken back. *)
LEMMA MarksStay ==
  ASSUME ChlibTypeOK, NEW size, NEW l \in Lines, line_mark[l] # "FREE"
  PROVE  Marked(size)[l] # "FREE"
  BY DEF Marked

(* A reservation marks a line only for the bytes it takes. *)
LEMMA LineReserve ==
  ASSUME ChlibTypeOK, HeapInv, LineInv, heap = "ready",
         NEW size \in Requests, Fits(size), Reserve(size)
  PROVE  LineInv'
<1> DEFINE new == [ptr |-> cursor, size |-> size]
<1> SUFFICES ASSUME WholeLines(objects')
             PROVE  /\ cursor' % LINE_SIZE = 0
                    /\ \A o \in objects' : \A a \in Bytes(o) : line_mark'[a \div LINE_SIZE] # "FREE"
  BY DEF LineInv, Bytes
<1>1. /\ objects' = objects \cup {new} /\ new.ptr = cursor /\ new.size = size
      /\ line_mark' = Marked(size) /\ cursor' = cursor + size
  BY ReserveStep DEF Reserve
<1>2. WholeLines(objects) /\ size % LINE_SIZE = 0
  BY <1>1 DEF WholeLines
<1>3. cursor % LINE_SIZE = 0
  BY <1>2 DEF LineInv
<1>4. /\ LINE_SIZE \in Nat \ {0} /\ BLOCK_SIZE \in Nat /\ BLOCK_SIZE % LINE_SIZE = 0
      /\ cursor \in Nat /\ size \in Nat /\ cursor <= BLOCK_SIZE
  BY NoWrap, ChlibAssumption DEF ChlibTypeOK
<1>5. cursor' % LINE_SIZE = 0
  BY <1>1, <1>2, <1>3, <1>4, WholeSum
<1>6. ASSUME NEW o \in objects', NEW a \in Bytes(o)
      PROVE  line_mark'[a \div LINE_SIZE] # "FREE"
  <2>1. CASE o = new
    <3>1. a \in cursor .. cursor + size - 1
      BY <1>1, <1>6, <2>1 DEF Bytes
    <3>2. QED
      BY <1>1, <1>2, <1>3, <3>1, NewLinesMarked
  <2>2. CASE o \in objects
    <3>1. line_mark[a \div LINE_SIZE] # "FREE"
      BY <1>2, <1>6, <2>2 DEF LineInv
    <3>2. a \in Nat /\ a < BLOCK_SIZE
      BY <1>4, <1>6, <2>2 DEF HeapInv, ChlibTypeOK, Bytes
    <3>3. a \div LINE_SIZE \in Nat /\ a \div LINE_SIZE < LINE_COUNT
      BY <1>4, <3>2, BlockOfLines, LineOf, BeforeEnd
    <3>4. a \div LINE_SIZE \in Lines
      BY <3>3, BlockOfLines DEF Lines
    <3>5. QED
      BY <1>1, <3>1, <3>4, MarksStay
  <2>3. QED
    BY <1>1, <1>6, <2>1, <2>2
<1>7. QED
  BY <1>5, <1>6

(* Every step of the allocator keeps the invariant of the line marks. *)
LEMMA LineStep ==
  ChlibTypeOK /\ HeapInv /\ LineInv /\ [ChlibNext]_chlibVars => LineInv'
<1> SUFFICES ASSUME ChlibTypeOK, HeapInv, LineInv, [ChlibNext]_chlibVars
             PROVE  LineInv'
  OBVIOUS
<1>1. CASE UNCHANGED <<cursor, line_mark, objects>>
  BY <1>1 DEF LineInv, WholeLines, Bytes
<1>2. CASE alloc_heap
  <2>1. LINE_SIZE \in Nat \ {0}
    BY ChlibAssumption
  <2>2. objects' = {}
    BY <1>2 DEF alloc_heap, HeapInv
  <2>3. CASE alloc_bump_block
    <3>1. cursor' = 0 /\ 0 % LINE_SIZE = 0
      BY <2>1, <2>3 DEF alloc_bump_block
    <3>2. QED
      BY <2>2, <3>1 DEF LineInv
  <2>4. CASE UNCHANGED <<cursor, line_mark>>
    BY <1>1, <1>2, <2>4 DEF alloc_heap
  <2>5. QED
    BY <1>2, <2>3, <2>4 DEF alloc_heap
<1>3. CASE bump_reserve_size
  <2>1. PICK size \in Sizes : (Fits(size) /\ Reserve(size)) \/ ReserveNothing \/ SearchHole
    BY <1>3 DEF bump_reserve_size
  <2>2. QED
    BY <1>1, <1>3, <2>1, LineReserve
      DEF bump_reserve_size, ReserveNothing, SearchHole, Requests
<1>4. CASE heap_alloc_int
  <2>1. (Fits(SizeOfChInt) /\ Reserve(SizeOfChInt)) \/ ReserveNothing \/ SearchHole
    BY <1>4 DEF heap_alloc_int
  <2>2. QED
    BY <1>1, <1>4, <2>1, LineReserve
      DEF heap_alloc_int, ReserveNothing, SearchHole, Requests
<1>5. CASE heap_alloc_int_null \/ UNCHANGED chlibVars
  BY <1>1, <1>5 DEF heap_alloc_int_null, chlibVars
<1>6. QED
  BY <1>2, <1>3, <1>4, <1>5 DEF ChlibNext

(* As long as whole lines are reserved, every line with a byte of an object *)
(* is marked. *)
THEOREM LinesMarkedCorrect == ChlibSpec => []LinesMarked
<1>1. ChlibInit => LineInv
  <2>1. LINE_SIZE \in Nat \ {0}
    BY ChlibAssumption
  <2>2. 0 % LINE_SIZE = 0
    BY <2>1
  <2>3. QED
    BY <2>2 DEF ChlibInit, LineInv
<1>2. LineInv => LinesMarked
  BY DEF LineInv, LinesMarked, WholeLines
<1>3. ChlibSpec => []LineInv
  BY <1>1, LineStep, ChlibTypeCorrect, HeapInvCorrect, PTL DEF ChlibSpec
<1>4. QED
  BY <1>2, <1>3, PTL

-----------------------------------------------------------------------------
(* The refinement.                                                         *)

(* An integer is added to the abstract heap under a pointer it did not have; *)
(* everything else leaves what the pointers hold alone.                     *)
THEOREM HeapImplementsCorrect == ChlibSpec => HeapImplements
<1> DEFINE Ptrs  == {i.ptr : i \in ints}
           Value == [p \in Ptrs |-> memory[p + ValueOffset]]
<1>1. ChlibInit => Held!HeapInit
  BY DEF ChlibInit, Held!HeapInit
<1>2. ChlibTypeOK /\ ChlibTypeOK' /\ HeapInv /\ HeapInv' /\ [ChlibNext]_chlibVars
        => [Held!HeapNext]_(Held!heapVars)
  <2> SUFFICES ASSUME ChlibTypeOK, ChlibTypeOK', HeapInv, HeapInv', [ChlibNext]_chlibVars
               PROVE  Held!HeapNext \/ Value' = Value
    BY DEF Held!heapVars
  <2>1. CASE UNCHANGED <<memory, ints>>
    BY <2>1
  <2>2. CASE heap_alloc_int
    <3>1. PICK value \in Ints :
            \/ /\ heap = "ready" /\ Fits(SizeOfChInt) /\ Reserve(SizeOfChInt) /\ WriteInt(value)
               /\ ints' = ints \cup {[ptr |-> cursor, value |-> value]}
            \/ UNCHANGED <<memory, ints>>
      BY <2>2 DEF heap_alloc_int
    <3>2. CASE /\ heap = "ready" /\ Fits(SizeOfChInt) /\ Reserve(SizeOfChInt) /\ WriteInt(value)
               /\ ints' = ints \cup {[ptr |-> cursor, value |-> value]}
      <4>1. /\ cursor \in Offsets /\ cursor + ValueOffset \in Offsets
            /\ SizeOfChInt \in Nat /\ ValueOffset \in Nat
            /\ 0 < ValueOffset /\ ValueOffset < SizeOfChInt
        BY <3>2, IntStep, ChlibAssumption
      <4>2. \A p \in Ptrs : p \in Offsets /\ p \in Nat /\ p + SizeOfChInt <= cursor
        <5>1. \A i \in ints : i.ptr \in Offsets /\ i.ptr + SizeOfChInt <= cursor
          BY DEF HeapInv, ChlibTypeOK
        <5>2. QED
          BY <5>1 DEF Offsets
      <4>3. cursor \notin Ptrs
        BY <4>1, <4>2 DEF Offsets
      <4>4. Ptrs' = Ptrs \cup {cursor}
        <5>1. [ptr |-> cursor, value |-> value].ptr = cursor
          OBVIOUS
        <5>2. QED
          BY <3>2, <5>1
      <4>5. memory'[cursor + ValueOffset] = value
        BY <3>2, <4>1 DEF WriteInt, ChlibTypeOK
      <4>6. \A p \in Ptrs : memory'[p + ValueOffset] = memory[p + ValueOffset]
        <5> SUFFICES ASSUME NEW p \in Ptrs
                     PROVE  memory'[p + ValueOffset] = memory[p + ValueOffset]
          OBVIOUS
        <5>1. p \in Nat /\ cursor \in Nat /\ BLOCK_SIZE \in Nat /\ p + SizeOfChInt <= cursor
          BY <4>1, <4>2, ChlibAssumption DEF ChlibTypeOK
        <5>2. p + ValueOffset # cursor /\ p + ValueOffset # cursor + ValueOffset
          BY <4>1, <5>1
        <5>3. p + ValueOffset \in Offsets
          BY <4>1, <5>1 DEF Offsets
        <5>4. QED
          BY <3>2, <4>1, <5>2, <5>3 DEF WriteInt, ChlibTypeOK
      <4>7. Value' = [q \in Ptrs \cup {cursor} |-> IF q = cursor THEN value ELSE Value[q]]
        BY <4>3, <4>4, <4>5, <4>6
      <4>8. DOMAIN Value = Ptrs
        OBVIOUS
      <4>9. Held!Alloc(cursor, value)
        BY <4>1, <4>3, <4>7, <4>8 DEF Held!Alloc
      <4>10. QED
        BY <4>1, <4>9 DEF Held!HeapNext
    <3>3. QED
      BY <2>1, <3>1, <3>2
  <2>3. CASE alloc_heap \/ bump_reserve_size \/ heap_alloc_int_null \/ UNCHANGED chlibVars
    BY <2>1, <2>3 DEF alloc_heap, bump_reserve_size, heap_alloc_int_null, chlibVars
  <2>4. QED
    BY <2>2, <2>3 DEF ChlibNext
<1>3. QED
  BY <1>1, <1>2, ChlibTypeCorrect, HeapInvCorrect, PTL DEF ChlibSpec, HeapImplements, Held!HeapSpec

=============================================================================

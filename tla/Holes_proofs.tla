----------------------------- MODULE Holes_proofs -----------------------------
(***************************************************************************)
(* Proofs about the search for a hole, for every size of the block and of  *)
(* its lines.                                                              *)
(***************************************************************************)
EXTENDS Holes, TLAPS

(* What is known of the lines behind start_line that were looked at: `end'   *)
(* is behind the last of them.                                              *)
Looked ==
  /\ i = 0 => end = 0 /\ ~ found
  /\ 0 < i /\ i < LINE_COUNT => end = start_line + i
  /\ 0 < i => end \in start_line + 1 .. start_line + LINE_COUNT
  /\ i = LINE_COUNT => end = start_line + LINE_COUNT \/ (found /\ ~ Free(end - 1))
  /\ ~ found => begin = 0 /\ \A l \in start_line .. start_line + i - 1 : ~ Free(l)

(* What is known of the hole, once one has been found. *)
Hole ==
  found =>
    /\ begin \in start_line .. end - 1
    /\ \A l \in start_line .. begin - 1 : ~ Free(l)
    /\ \A l \in begin .. end - 2 : Free(l)
    /\ Free(end - 1) \/ i = LINE_COUNT

Result ==
  CASE search = "running" -> cursor = 0 /\ limit = 0
    [] search = "true"    -> /\ found /\ i = LINE_COUNT
                             /\ cursor = begin * LINE_SIZE /\ limit = end * LINE_SIZE
    [] OTHER              -> ~ found /\ i = LINE_COUNT /\ cursor = 0 /\ limit = 0

HolesInv ==
  /\ start_line \in 0 .. LINE_COUNT - 1
  /\ i \in 0 .. LINE_COUNT /\ begin \in Nat /\ end \in Nat /\ found \in BOOLEAN
  /\ search \in {"running", "true", "false"}
  /\ Looked /\ Hole /\ Result

-----------------------------------------------------------------------------
(* The lines fill the block. *)
LEMMA LinesOfBlock ==
  /\ LINE_COUNT \in Nat /\ LINE_SIZE \in Nat \ {0} /\ BLOCK_SIZE \in Nat
  /\ LINE_COUNT * LINE_SIZE = BLOCK_SIZE
<1>1. \A b \in Nat, s \in Nat \ {0} :
        b % s = 0 => b \div s \in Nat /\ (b \div s) * s = b
  OBVIOUS
<1>2. QED
  BY <1>1, SizesAssumption DEF LINE_COUNT

(* The line an offset lies in. *)
LEMMA LineOfOffset ==
  ASSUME NEW l \in Nat, NEW s \in Nat \ {0}
  PROVE  (l * s) \div s = l /\ l * s \in Nat
OBVIOUS

(* Offsets are ordered as their lines are. *)
LEMMA OffsetsOrdered ==
  ASSUME NEW l \in Nat, NEW m \in Nat, NEW s \in Nat, l <= m
  PROVE  l * s <= m * s
OBVIOUS

-----------------------------------------------------------------------------
(* One more line is looked at. *)
LEMMA LookKeeps ==
  ASSUME HolesInv, Look
  PROVE  HolesInv'
<1>1. /\ LINE_COUNT \in Nat /\ start_line \in 0 .. LINE_COUNT - 1 /\ i \in 0 .. LINE_COUNT - 1
      /\ begin \in Nat /\ end \in Nat /\ found \in BOOLEAN
      /\ search = "running" /\ cursor = 0 /\ limit = 0
  BY LinesOfBlock DEF HolesInv, Look, Result
<1>2. /\ end' = line_indx + 1 /\ line_indx = start_line + i
      /\ begin' = IF Free(line_indx) /\ ~ found THEN line_indx ELSE begin
      /\ found' = (found \/ Free(line_indx))
      /\ i' = IF ~ Free(line_indx) /\ found THEN LINE_COUNT ELSE i + 1
      /\ UNCHANGED <<line_mark, start_line, search, cursor, limit>>
  BY DEF Look, FirstFree, LeavesLoop, line_indx
<1>3. \A l : Free(l)' = Free(l)
  BY <1>2 DEF Free
<1>4. \/ i = 0 /\ end = 0 /\ ~ found
      \/ i > 0 /\ end = start_line + i
  BY <1>1 DEF HolesInv, Looked
<1>5. line_indx \in Nat /\ (i > 0 => end = line_indx)
  BY <1>1, <1>2, <1>4
<1>6. i' \in 1 .. LINE_COUNT /\ begin' \in Nat /\ end' \in Nat /\ found' \in BOOLEAN
  BY <1>1, <1>2, <1>5
<1>7. Looked'
  <2>1. /\ 0 < i' /\ i' < LINE_COUNT => end' = start_line + i'
        /\ 0 < i' => end' \in start_line + 1 .. start_line + LINE_COUNT
    BY <1>1, <1>2
  <2>2. i' = LINE_COUNT => end' = start_line + LINE_COUNT \/ (found' /\ ~ Free(end' - 1))
    <3>1. CASE ~ Free(line_indx) /\ found
      <4>1. end' - 1 = line_indx
        BY <1>2, <1>5
      <4>2. QED
        BY <3>1, <4>1, <1>2
    <3>2. CASE ~ (~ Free(line_indx) /\ found)
      <4>1. i' = i + 1 /\ end' = start_line + i + 1
        BY <3>2, <1>2
      <4>2. i' = LINE_COUNT => end' = start_line + LINE_COUNT
        BY <4>1, <1>1
      <4>3. QED
        BY <4>2
    <3>3. QED
      BY <3>1, <3>2
  <2>3. ~ found' => begin' = 0 /\ \A l \in start_line .. start_line + i' - 1 : ~ Free(l)
    <3>1. SUFFICES ASSUME ~ found'
                   PROVE  begin' = 0 /\ \A l \in start_line .. start_line + i' - 1 : ~ Free(l)
      OBVIOUS
    <3>2. ~ found /\ ~ Free(line_indx) /\ i' = i + 1 /\ begin' = begin
      BY <3>1, <1>1, <1>2
    <3>3. begin = 0 /\ \A l \in start_line .. start_line + i - 1 : ~ Free(l)
      BY <3>2 DEF HolesInv, Looked
    <3>4. \A l \in start_line .. start_line + i' - 1 :
            l \in start_line .. start_line + i - 1 \/ l = line_indx
      BY <3>2, <1>1, <1>2
    <3>5. QED
      BY <3>2, <3>3, <3>4
  <2>4. QED
    BY <2>1, <2>2, <2>3, <1>2, <1>3, <1>6 DEF Looked
<1>8. Hole'
  <2>1. SUFFICES ASSUME found'
                 PROVE  /\ begin' \in start_line .. end' - 1
                        /\ \A l \in start_line .. begin' - 1 : ~ Free(l)
                        /\ \A l \in begin' .. end' - 2 : Free(l)
                        /\ Free(end' - 1) \/ i' = LINE_COUNT
    BY <1>2, <1>3 DEF Hole
  <2>2. end' - 1 = line_indx /\ end' - 2 = line_indx - 1
    BY <1>2, <1>5
  <2>3. CASE ~ found
    <3>1. Free(line_indx) /\ begin' = line_indx
      BY <2>1, <2>3, <1>2
    <3>2. \A l \in start_line .. start_line + i - 1 : ~ Free(l)
      BY <2>3 DEF HolesInv, Looked
    <3>3. QED
      BY <2>2, <3>1, <3>2, <1>1, <1>2
  <2>4. CASE found
    <3>1. begin' = begin /\ end = line_indx /\ i > 0
      BY <2>4, <1>2, <1>4, <1>5
    <3>2. /\ begin \in start_line .. end - 1
          /\ \A l \in start_line .. begin - 1 : ~ Free(l)
          /\ \A l \in begin .. end - 2 : Free(l)
          /\ Free(end - 1)
      BY <2>4, <1>1 DEF HolesInv, Hole
    <3>3. \A l \in begin .. line_indx - 1 : l \in begin .. end - 2 \/ l = end - 1
      BY <3>1, <1>1, <1>5
    <3>4. Free(line_indx) \/ i' = LINE_COUNT
      BY <2>4, <1>2
    <3>5. begin' \in start_line .. line_indx
      BY <3>1, <3>2, <1>1, <1>5
    <3>6. QED
      BY <2>2, <3>1, <3>2, <3>3, <3>4, <3>5
  <2>5. QED
    BY <2>3, <2>4, <1>1
<1>9. Result'
  BY <1>1, <1>2 DEF Result
<1>10. QED
  BY <1>1, <1>2, <1>6, <1>7, <1>8, <1>9 DEF HolesInv

(* The search returns. *)
LEMMA FinishKeeps ==
  ASSUME HolesInv, Finish
  PROVE  HolesInv'
<1>1. UNCHANGED <<line_mark, start_line, i, begin, end, found>>
  BY DEF Finish
<1>2. Looked' /\ Hole'
  BY <1>1 DEF HolesInv, Looked, Hole, Free
<1>3. Result' /\ search' \in {"running", "true", "false"}
  BY <1>1 DEF HolesInv, Result, Finish, Limit
<1>4. QED
  BY <1>1, <1>2, <1>3 DEF HolesInv

(* The inductive invariant of the search. *)
THEOREM HolesInvCorrect == HolesSpec => []HolesInv
<1>1. HolesInit => HolesInv
  <2> SUFFICES ASSUME HolesInit
               PROVE  HolesInv
    OBVIOUS
  <2>1. /\ start_line \in 0 .. LINE_COUNT - 1 /\ LINE_COUNT \in Nat
        /\ i = 0 /\ begin = 0 /\ end = 0 /\ found = FALSE
        /\ search = "running" /\ cursor = 0 /\ limit = 0
    BY LinesOfBlock DEF HolesInit
  <2>2. Looked
    BY <2>1 DEF Looked
  <2>3. Hole /\ Result
    BY <2>1 DEF Hole, Result
  <2>4. i \in 0 .. LINE_COUNT /\ begin \in Nat /\ end \in Nat
    BY <2>1
  <2>5. QED
    BY <2>1, <2>2, <2>3, <2>4 DEF HolesInv
<1>2. HolesInv /\ [HolesNext \/ Returned]_holesVars => HolesInv'
  <2> SUFFICES ASSUME HolesInv, [HolesNext \/ Returned]_holesVars
               PROVE  HolesInv'
    OBVIOUS
  <2>1. CASE HolesNext
    BY <2>1, LookKeeps, FinishKeeps DEF HolesNext
  <2>2. CASE UNCHANGED holesVars
    BY <2>2 DEF HolesInv, Looked, Hole, Result, Free, holesVars
  <2>3. QED
    BY <2>1, <2>2 DEF Returned
<1>3. QED
  BY <1>1, <1>2, PTL DEF HolesSpec

-----------------------------------------------------------------------------
(* Where the lines and offsets of the search lie. *)
LEMMA Bounds ==
  ASSUME HolesInv
  PROVE  /\ LINE_COUNT \in Nat \ {0} /\ start_line \in Nat /\ start_line <= LINE_COUNT - 1
         /\ begin \in 0 .. 2 * LINE_COUNT - 1 /\ end \in 0 .. 2 * LINE_COUNT - 1
         /\ end <= start_line + LINE_COUNT
<1>1. /\ LINE_COUNT \in Nat /\ start_line \in 0 .. LINE_COUNT - 1 /\ i \in 0 .. LINE_COUNT
      /\ begin \in Nat /\ end \in Nat
  BY LinesOfBlock DEF HolesInv
<1>2. end <= start_line + LINE_COUNT
  BY <1>1 DEF HolesInv, Looked
<1>3. begin = 0 \/ begin <= end - 1
  BY <1>1 DEF HolesInv, Looked, Hole
<1>4. QED
  BY <1>1, <1>2, <1>3

(* The numbers of the search stay those of lines, for every size. *)
THEOREM HolesTypeCorrect == HolesSpec => []HolesTypeOK
<1>1. ASSUME HolesInv
      PROVE  HolesTypeOK
  <2>1. /\ i \in 0 .. LINE_COUNT /\ found \in BOOLEAN
        /\ search \in {"running", "true", "false"}
    BY <1>1 DEF HolesInv
  <2>2. \/ cursor = 0 /\ limit = 0
        \/ cursor = begin * LINE_SIZE /\ limit = end * LINE_SIZE
    BY <1>1 DEF HolesInv, Result
  <2>3. \A l \in Nat : l * LINE_SIZE = LINE_SIZE * l
    BY LinesOfBlock
  <2>4. 0 \in 0 .. 2 * LINE_COUNT - 1 /\ LINE_SIZE * 0 = 0
    BY <1>1, Bounds, LinesOfBlock
  <2>5. \E l \in 0 .. 2 * LINE_COUNT - 1 : cursor = LINE_SIZE * l
    BY <1>1, <2>2, <2>3, <2>4, Bounds
  <2>6. \E l \in 0 .. 2 * LINE_COUNT - 1 : limit = LINE_SIZE * l
    BY <1>1, <2>2, <2>3, <2>4, Bounds
  <2>7. QED
    BY <1>1, <2>1, <2>5, <2>6, Bounds DEF HolesTypeOK
<1>2. QED
  BY <1>1, HolesInvCorrect, PTL

(* A hole is the first one, and free but for the marked line that ends it,   *)
(* for every size of the block.                                             *)
THEOREM HoleFreeCorrect == HolesSpec => []HoleFree
<1>1. ASSUME HolesInv
      PROVE  HoleFree
  <2>1. SUFFICES ASSUME search = "true"
                 PROVE  /\ start_line <= First /\ First <= Last
                        /\ \A l \in start_line .. First - 1 : ~ Free(l)
                        /\ \A l \in First .. Last - 1 : Free(l)
                        /\ Free(Last) => Last = start_line + LINE_COUNT - 1
                        /\ limit <= BLOCK_SIZE + start_line * LINE_SIZE
    BY DEF HoleFree
  <2>2. /\ found /\ i = LINE_COUNT
        /\ cursor = begin * LINE_SIZE /\ limit = end * LINE_SIZE
    BY <1>1, <2>1 DEF HolesInv, Result
  <2>3. /\ begin \in Nat /\ end \in Nat /\ start_line \in Nat /\ LINE_COUNT \in Nat \ {0}
        /\ end <= start_line + LINE_COUNT
    BY <1>1, Bounds
  <2>4. First = begin /\ Last = end - 1
    BY <2>2, <2>3, LineOfOffset, LinesOfBlock DEF First, Last
  <2>5. /\ begin \in start_line .. end - 1
        /\ \A l \in start_line .. begin - 1 : ~ Free(l)
        /\ \A l \in begin .. end - 2 : Free(l)
    BY <1>1, <2>2 DEF HolesInv, Hole
  <2>6. Last - 1 = end - 2
    BY <2>3, <2>4
  <2>7. Free(Last) => Last = start_line + LINE_COUNT - 1
    BY <1>1, <2>2, <2>3, <2>4 DEF HolesInv, Looked
  <2>8. limit <= BLOCK_SIZE + start_line * LINE_SIZE
    <3>1. end * LINE_SIZE <= (start_line + LINE_COUNT) * LINE_SIZE
      BY <2>3, OffsetsOrdered, LinesOfBlock
    <3>2. (start_line + LINE_COUNT) * LINE_SIZE
            = start_line * LINE_SIZE + LINE_COUNT * LINE_SIZE
      BY <2>3, LinesOfBlock
    <3>3. start_line * LINE_SIZE \in Nat
      BY <2>3, LinesOfBlock
    <3>4. QED
      BY <3>1, <3>2, <3>3, <2>2, LinesOfBlock
  <2>9. QED
    BY <2>3, <2>4, <2>5, <2>6, <2>7, <2>8
<1>2. QED
  BY <1>1, HolesInvCorrect, PTL

(* No free line from start_line on is missed, for every size of the block. *)
THEOREM NoneMissedCorrect == HolesSpec => []NoneMissed
<1>1. ASSUME HolesInv
      PROVE  NoneMissed
  <2>1. SUFFICES ASSUME search = "false", NEW l \in start_line .. LINE_COUNT - 1
                 PROVE  ~ Free(l)
    BY DEF NoneMissed
  <2>2. ~ found /\ i = LINE_COUNT
    BY <1>1, <2>1 DEF HolesInv, Result
  <2>3. l \in start_line .. start_line + i - 1
    BY <1>1, <2>1, <2>2, Bounds
  <2>4. QED
    BY <1>1, <2>2, <2>3 DEF HolesInv, Looked
<1>2. QED
  BY <1>1, HolesInvCorrect, PTL
=============================================================================

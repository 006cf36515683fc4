------------------------------- MODULE Holes -------------------------------
(***************************************************************************)
(* find_next_hole (chlib.c): the search for the next free lines of a       *)
(* block.  One action is one iteration of its loop.                        *)
(*                                                                         *)
(* The loop looks at LINE_COUNT lines from start_line on, so that unless   *)
(* start_line is 0 it leaves line_mark: behind it lie block_mark, which    *)
(* bump_reserve_size has set to MARKED before, and the bytes of the        *)
(* objects, which may be anything.                                         *)
(***************************************************************************)
EXTENDS Integers

CONSTANTS BLOCK_SIZE, LINE_SIZE

ASSUME SizesAssumption ==
  LINE_SIZE \in Nat \ {0} /\ BLOCK_SIZE \in Nat /\ BLOCK_SIZE % LINE_SIZE = 0

LINE_COUNT == BLOCK_SIZE \div LINE_SIZE
Marks      == {"MARKED", "FREE", "CONS_MARKED"}
Behind     == LINE_COUNT + 1 .. 2 * LINE_COUNT - 1

VARIABLES
  line_mark,   \* the marks, and what is read behind them
  start_line,
  i, begin, end, found,
  search,      \* "running", or what is returned
  cursor, limit

holesVars == <<line_mark, start_line, i, begin, end, found, search, cursor, limit>>

HolesInit ==
  /\ line_mark \in {[l \in 0 .. 2 * LINE_COUNT - 1 |->
                       CASE l < LINE_COUNT -> marks[l]
                         [] l = LINE_COUNT -> "MARKED"
                         [] OTHER          -> behind[l]] :
                      marks \in [0 .. LINE_COUNT - 1 -> Marks],
                      behind \in [Behind -> {"FREE", "MARKED"}]}
  /\ start_line \in 0 .. LINE_COUNT - 1
  /\ i = 0 /\ begin = 0 /\ end = 0 /\ found = FALSE
  /\ search = "running"
  /\ cursor = 0 /\ limit = 0

line_indx == start_line + i
Free(l)   == line_mark[l] = "FREE"

(* Faulty variant: the hole begins with the last free line. *)
LastFree == IF Free(line_indx) THEN line_indx ELSE begin

FirstFree == IF Free(line_indx) /\ ~ found THEN line_indx ELSE begin

(* Faulty variant: the first marked line ends the search. *)
AtMarked == ~ Free(line_indx)

(* A marked line ends the search once a free one has been found; `end' is   *)
(* then already behind it. *)
LeavesLoop == ~ Free(line_indx) /\ found

Look ==
  /\ search = "running"
  /\ i < LINE_COUNT
  /\ end' = line_indx + 1
  /\ begin' = FirstFree
  /\ found' = (found \/ Free(line_indx))
  /\ i' = IF LeavesLoop THEN LINE_COUNT ELSE i + 1
  /\ UNCHANGED <<line_mark, start_line, search, cursor, limit>>

Limit == end * LINE_SIZE

Finish ==
  /\ search = "running"
  /\ i = LINE_COUNT
  /\ IF found
       THEN search' = "true" /\ cursor' = begin * LINE_SIZE /\ limit' = Limit
       ELSE search' = "false" /\ UNCHANGED <<cursor, limit>>
  /\ UNCHANGED <<line_mark, start_line, i, begin, end, found>>

HolesNext == Look \/ Finish
Returned  == search # "running" /\ UNCHANGED holesVars

HolesSpec == HolesInit /\ [][HolesNext \/ Returned]_holesVars

-----------------------------------------------------------------------------
(* Properties.                                                             *)

(* The numbers stay those of lines, at most LINE_COUNT of them, and of      *)
(* offsets.                                                                *)
HolesTypeOK ==
  /\ i \in 0 .. LINE_COUNT
  /\ begin \in 0 .. 2 * LINE_COUNT - 1
  /\ end \in 0 .. 2 * LINE_COUNT - 1
  /\ found \in BOOLEAN
  /\ search \in {"running", "true", "false"}
  /\ {cursor, limit} \subseteq {LINE_SIZE * l : l \in 0 .. 2 * LINE_COUNT - 1}

First == cursor \div LINE_SIZE
Last  == limit \div LINE_SIZE - 1

(* A hole begins with the first free line of those that were looked at, and *)
(* is not empty.  All its lines are free but the last one, unless the       *)
(* search has come to its own end: a marked line that ends it lies in the   *)
(* hole.  From line 0 on no hole reaches over the end of the block, from    *)
(* another line on it may do so by the lines before that line.              *)
HoleFree ==
  search = "true" =>
    /\ start_line <= First /\ First <= Last
    /\ \A l \in start_line .. First - 1 : ~ Free(l)
    /\ \A l \in First .. Last - 1 : Free(l)
    /\ Free(Last) => Last = start_line + LINE_COUNT - 1
    /\ limit <= BLOCK_SIZE + start_line * LINE_SIZE

(* If no hole is found there is no free line from start_line on.            *)
NoneMissed ==
  search = "false" => \A l \in start_line .. LINE_COUNT - 1 : ~ Free(l)
=============================================================================

------------------------------- MODULE Values -------------------------------
(***************************************************************************)
(* The 32-bit words of a compiled program, reduced to WordRange values: an *)
(* integer that wraps around, or a float, taken as an exact fraction n/d.  *)
(* Undef is a word of which nothing is known, NaN the float that the x87   *)
(* unit puts into a register when its stack overflows.                     *)
(***************************************************************************)
EXTENDS Integers

CONSTANT WordRange  \* the number of integers a word can hold
ASSUME WordRangeAssumption == WordRange \in Nat \ {0} /\ WordRange % 2 = 0

Word(k, n, d) == [k |-> k, n |-> n, d |-> d]

Words == [k : {"int", "float", "address", "undef", "nan"}, n : Int, d : Int]

Undef == Word("undef", 0, 1)
NaN   == Word("nan", 0, 1)

(* Two's complement. *)
Signed(i)   == ((i + WordRange \div 2) % WordRange) - (WordRange \div 2)
Unsigned(i) == i % WordRange
IntWord(i)  == Word("int", Signed(i), 1)
Truth(b)    == IntWord(IF b THEN 1 ELSE 0)

Gcd[a \in Nat, b \in Nat] == IF b = 0 THEN a ELSE Gcd[b, a % b]

Abs(i) == IF i < 0 THEN -i ELSE i

(* d # 0 *)
FloatWord(n, d) ==
  LET g == Gcd[Abs(n), Abs(d)]
      s == IF d < 0 THEN -1 ELSE 1
  IN  Word("float", (s * n) \div g, (s * d) \div g)

ToFloat(w) == FloatWord(w.n, w.d)

IntArith(op, x, y) ==
  CASE op = "ADD" -> IntWord(x.n + y.n)
    [] op = "SUB" -> IntWord(x.n - y.n)
    [] op = "MUL" -> IntWord(x.n * y.n)
    [] op = "DIV" -> IntWord(x.n \div y.n)

FloatArith(op, x, y) ==
  CASE op = "ADD" -> FloatWord(x.n * y.d + y.n * x.d, x.d * y.d)
    [] op = "SUB" -> FloatWord(x.n * y.d - y.n * x.d, x.d * y.d)
    [] op = "MUL" -> FloatWord(x.n * y.n, x.d * y.d)
    [] op = "DIV" -> IF y.n = 0 THEN Undef ELSE FloatWord(x.n * y.d, x.d * y.n)

SameValue(x, y) == x.n * y.d = y.n * x.d
Smaller(x, y)   == x.n * y.d < y.n * x.d
=============================================================================

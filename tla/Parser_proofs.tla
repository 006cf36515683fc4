---------------------------- MODULE Parser_proofs ----------------------------
(***************************************************************************)
(* Proofs about the parser, for every line and every depth of the stack.   *)
(*                                                                         *)
(* The inductive invariant ParserInv adds to the properties of Parser what *)
(* a step needs to know of the activations: which of them hold a node, and *)
(* that nothing refers to a node that is still to be allocated.            *)
(***************************************************************************)
EXTENDS Parser, SequenceTheorems, TLAPS

(* What refers to a node refers to one that is there, and only the          *)
(* functions of the binary operators hold one.                              *)
Before(nodes, stack) ==
  /\ \A n \in 1 .. Len(nodes) : nodes[n].left < n /\ nodes[n].right < n
  /\ \A k \in 1 .. Len(stack) :
       /\ stack[k].left <= Len(nodes)
       /\ stack[k].fn \notin Levels => stack[k].left = nullptr

OperandsBefore == Before(node, calls)

NoLine == m_Tokens = <<>> => calls = <<>>

-----------------------------------------------------------------------------
(* Who holds a node.                                                       *)

HoldersIn(nodes, stack, r, n) ==
  {<<"left", m>>  : m \in {m \in 1 .. Len(nodes) : nodes[m].left = n}}
    \cup {<<"right", m>> : m \in {m \in 1 .. Len(nodes) : nodes[m].right = n}}
    \cup {<<"call", k>>  : k \in {k \in 1 .. Len(stack) : stack[k].left = n}}
    \cup (IF r = n THEN {<<"ret", 0>>} ELSE {})

(* Exactly one place holds node n, told apart by the kind of the place. *)
AsLeft(nodes, stack, r, n) ==
  /\ \E i \in 1 .. Len(nodes) : \A j \in 1 .. Len(nodes) : nodes[j].left = n <=> j = i
  /\ \A j \in 1 .. Len(nodes) : nodes[j].right # n
  /\ \A k \in 1 .. Len(stack) : stack[k].left # n
  /\ r # n

AsRight(nodes, stack, r, n) ==
  /\ \A j \in 1 .. Len(nodes) : nodes[j].left # n
  /\ \E i \in 1 .. Len(nodes) : \A j \in 1 .. Len(nodes) : nodes[j].right = n <=> j = i
  /\ \A k \in 1 .. Len(stack) : stack[k].left # n
  /\ r # n

ByCall(nodes, stack, r, n) ==
  /\ \A j \in 1 .. Len(nodes) : nodes[j].left # n /\ nodes[j].right # n
  /\ \E i \in 1 .. Len(stack) : \A k \in 1 .. Len(stack) : stack[k].left = n <=> k = i
  /\ r # n

ByRet(nodes, stack, r, n) ==
  /\ \A j \in 1 .. Len(nodes) : nodes[j].left # n /\ nodes[j].right # n
  /\ \A k \in 1 .. Len(stack) : stack[k].left # n
  /\ r = n

OneHolder(nodes, stack, r, n) ==
  \/ AsLeft(nodes, stack, r, n) \/ AsRight(nodes, stack, r, n)
  \/ ByCall(nodes, stack, r, n) \/ ByRet(nodes, stack, r, n)

(* One holder is one place of one kind. *)
LEMMA OneHolderIsOne ==
  ASSUME NEW nodes, NEW stack, NEW r, NEW n
  PROVE  (\E h \in HoldersIn(nodes, stack, r, n) : HoldersIn(nodes, stack, r, n) = {h})
           <=> OneHolder(nodes, stack, r, n)
<1> DEFINE H == HoldersIn(nodes, stack, r, n)
<1>1. /\ \A m \in 1 .. Len(nodes) : <<"left", m>> \in H <=> nodes[m].left = n
      /\ \A m \in 1 .. Len(nodes) : <<"right", m>> \in H <=> nodes[m].right = n
      /\ \A k \in 1 .. Len(stack) : <<"call", k>> \in H <=> stack[k].left = n
      /\ <<"ret", 0>> \in H <=> r = n
  BY DEF HoldersIn
<1>2. ASSUME NEW h \in H
      PROVE  \/ \E m \in 1 .. Len(nodes) : h = <<"left", m>>
             \/ \E m \in 1 .. Len(nodes) : h = <<"right", m>>
             \/ \E k \in 1 .. Len(stack) : h = <<"call", k>>
             \/ h = <<"ret", 0>>
  BY DEF HoldersIn
<1>3. \A i, j : /\ <<"left", i>> = <<"left", j>> => i = j
                /\ <<"right", i>> = <<"right", j>> => i = j
                /\ <<"call", i>> = <<"call", j>> => i = j
                /\ <<"left", i>> # <<"right", j>> /\ <<"left", i>> # <<"call", j>>
                /\ <<"left", i>> # <<"ret", j>> /\ <<"right", i>> # <<"call", j>>
                /\ <<"right", i>> # <<"ret", j>> /\ <<"call", i>> # <<"ret", j>>
  OBVIOUS
<1> HIDE DEF H
<1>4. ASSUME NEW h \in H, H = {h}
      PROVE  OneHolder(nodes, stack, r, n)
  <2>1. CASE \E m \in 1 .. Len(nodes) : h = <<"left", m>>
    BY <2>1, <1>1, <1>3, <1>4 DEF OneHolder, AsLeft
  <2>2. CASE \E m \in 1 .. Len(nodes) : h = <<"right", m>>
    BY <2>2, <1>1, <1>3, <1>4 DEF OneHolder, AsRight
  <2>3. CASE \E k \in 1 .. Len(stack) : h = <<"call", k>>
    BY <2>3, <1>1, <1>3, <1>4 DEF OneHolder, ByCall
  <2>4. CASE h = <<"ret", 0>>
    BY <2>4, <1>1, <1>3, <1>4 DEF OneHolder, ByRet
  <2>5. QED
    BY <1>2, <2>1, <2>2, <2>3, <2>4
<1>5. ASSUME OneHolder(nodes, stack, r, n)
      PROVE  \E h \in H : H = {h}
  <2>1. CASE AsLeft(nodes, stack, r, n)
    <3>1. PICK i \in 1 .. Len(nodes) : \A j \in 1 .. Len(nodes) : nodes[j].left = n <=> j = i
      BY <2>1 DEF AsLeft
    <3>2. H = {<<"left", i>>}
      BY <2>1, <3>1, <1>1, <1>2 DEF AsLeft
    <3>3. QED
      BY <3>2
  <2>2. CASE AsRight(nodes, stack, r, n)
    <3>1. PICK i \in 1 .. Len(nodes) : \A j \in 1 .. Len(nodes) : nodes[j].right = n <=> j = i
      BY <2>2 DEF AsRight
    <3>2. H = {<<"right", i>>}
      BY <2>2, <3>1, <1>1, <1>2, ZenonT(40) DEF AsRight
    <3>3. QED
      BY <3>2
  <2>3. CASE ByCall(nodes, stack, r, n)
    <3>1. PICK i \in 1 .. Len(stack) : \A k \in 1 .. Len(stack) : stack[k].left = n <=> k = i
      BY <2>3 DEF ByCall
    <3>2. H = {<<"call", i>>}
      BY <2>3, <3>1, <1>1, <1>2, ZenonT(40) DEF ByCall
    <3>3. QED
      BY <3>2
  <2>4. CASE ByRet(nodes, stack, r, n)
    BY <2>4, <1>1, <1>2 DEF ByRet
  <2>5. QED
    BY <1>5, <2>1, <2>2, <2>3, <2>4 DEF OneHolder
<1>6. QED
  BY <1>4, <1>5 DEF H

-----------------------------------------------------------------------------
(* A step of the parser replaces the innermost activation by others.  The   *)
(* nodes it has in its hands, that of the activation and that which was     *)
(* returned, go into a new node, or are at most one; then one node is left  *)
(* over, which is returned or held by the last of the new activations.      *)

TakenUp(nodes, stack, r, nodes2, x) ==
  \/ nodes2 = nodes /\ stack[1].left = nullptr /\ x = r
  \/ \E nd \in Nodes : /\ nodes2 = Append(nodes, nd)
                       /\ nd.left = stack[1].left /\ nd.right = r
                       /\ x = Len(nodes) + 1

LeftIsNull(acts, m) == \A k \in 1 .. m : acts[k].left = nullptr

HandedOn(new, r2, x) ==
  \/ r2 = x /\ LeftIsNull(new, Len(new))
  \/ /\ r2 = nullptr /\ Len(new) > 0
     /\ new[Len(new)].left = x /\ new[Len(new)].fn \in Levels
     /\ LeftIsNull(new, Len(new) - 1)

(* The activations behind the first keep their place behind the new ones. *)
LEMMA NewStack ==
  ASSUME NEW stack \in Seq(Activations), stack # <<>>, NEW new \in Seq(Activations)
  PROVE  /\ new \o Tail(stack) \in Seq(Activations)
         /\ Len(stack) \in Nat \ {0}
         /\ Len(new \o Tail(stack)) = Len(new) + Len(stack) - 1
         /\ \A k \in 1 .. Len(new) : (new \o Tail(stack))[k] = new[k]
         /\ \A k \in 2 .. Len(stack) : (new \o Tail(stack))[k + Len(new) - 1] = stack[k]
         /\ \A k \in Len(new) + 1 .. Len(new) + Len(stack) - 1 :
              (new \o Tail(stack))[k] = stack[k - Len(new) + 1]
<1>1. /\ Tail(stack) \in Seq(Activations) /\ Len(Tail(stack)) = Len(stack) - 1
      /\ Len(stack) \in Nat \ {0} /\ Len(new) \in Nat
      /\ \A i \in 1 .. Len(stack) - 1 : Tail(stack)[i] = stack[i + 1]
  BY HeadTailProperties, EmptySeq, LenProperties
<1>2. /\ new \o Tail(stack) \in Seq(Activations)
      /\ Len(new \o Tail(stack)) = Len(new) + Len(stack) - 1
      /\ \A i \in 1 .. Len(new) + Len(stack) - 1 :
           (new \o Tail(stack))[i] = IF i <= Len(new) THEN new[i] ELSE Tail(stack)[i - Len(new)]
  <2>1. Len(new) + Len(Tail(stack)) = Len(new) + Len(stack) - 1
    BY <1>1
  <2>2. QED
    BY <1>1, <2>1, ConcatProperties
<1> DEFINE S == new \o Tail(stack)
<1>3. \A k \in 1 .. Len(new) : S[k] = new[k]
  BY <1>1, <1>2
<1>4. ASSUME NEW k \in Len(new) + 1 .. Len(new) + Len(stack) - 1
      PROVE  S[k] = stack[k - Len(new) + 1]
  <2>1. k \in 1 .. Len(new) + Len(stack) - 1 /\ ~ (k <= Len(new))
    BY <1>1
  <2>2. k - Len(new) \in 1 .. Len(stack) - 1
    BY <1>1
  <2>3. QED
    BY <2>1, <2>2, <1>1, <1>2
<1>5. ASSUME NEW k \in 2 .. Len(stack)
      PROVE  S[k + Len(new) - 1] = stack[k]
  <2>1. k + Len(new) - 1 \in Len(new) + 1 .. Len(new) + Len(stack) - 1
    BY <1>1
  <2>2. (k + Len(new) - 1) - Len(new) + 1 = k
    BY <1>1
  <2>3. QED
    BY <2>1, <2>2, <1>4
<1>6. QED
  BY <1>1, <1>2, <1>3, <1>4, <1>5

(* What such a step does to the references. *)
LEMMA HandOverBefore ==
  ASSUME NEW nodes \in Seq(Nodes), NEW stack \in Seq(Activations), stack # <<>>,
         NEW r \in Nat, NEW nodes2, NEW new \in Seq(Activations), NEW r2, NEW x,
         Before(nodes, stack), r <= Len(nodes),
         TakenUp(nodes, stack, r, nodes2, x), HandedOn(new, r2, x)
  PROVE  /\ Before(nodes2, new \o Tail(stack))
         /\ nodes2 \in Seq(Nodes) /\ Len(nodes2) \in {Len(nodes), Len(nodes) + 1}
         /\ \A n \in 1 .. Len(nodes) : nodes2[n] = nodes[n]
         /\ x \in 0 .. Len(nodes2) /\ r2 \in 0 .. Len(nodes2)
<1> DEFINE S == new \o Tail(stack)
<1>1. Len(nodes) \in Nat /\ Len(new) \in Nat /\ nullptr = 0
  BY LenProperties DEF nullptr
<1>2. /\ nodes2 \in Seq(Nodes) /\ Len(nodes2) \in {Len(nodes), Len(nodes) + 1}
      /\ \A n \in 1 .. Len(nodes) : nodes2[n] = nodes[n]
  <2>1. CASE nodes2 = nodes
    BY <2>1, <1>1
  <2>2. CASE \E nd \in Nodes : nodes2 = Append(nodes, nd)
    <3>1. PICK nd \in Nodes : nodes2 = Append(nodes, nd)
      BY <2>2
    <3>2. QED
      BY <3>1, AppendProperties
  <2>3. QED
    BY <2>1, <2>2 DEF TakenUp
<1>3. x \in 0 .. Len(nodes2)
  BY <1>1, AppendProperties DEF TakenUp
<1>4. r2 \in 0 .. Len(nodes2)
  BY <1>1, <1>2, <1>3 DEF HandedOn
<1>5. stack[1] \in Activations /\ stack[1].left \in Nat /\ stack[1].left <= Len(nodes)
  <2>1. 1 \in 1 .. Len(stack)
    BY NewStack
  <2>2. stack[1] \in Activations
    BY <2>1, ElementOfSeq
  <2>3. stack[1].left <= Len(nodes)
    BY <2>1 DEF Before
  <2>4. QED
    BY <2>2, <2>3 DEF Activations
<1>6. ASSUME NEW n \in 1 .. Len(nodes2)
      PROVE  nodes2[n].left < n /\ nodes2[n].right < n
  <2>1. CASE n \in 1 .. Len(nodes)
    BY <2>1, <1>2 DEF Before
  <2>2. CASE n \notin 1 .. Len(nodes)
    <3>1. n = Len(nodes) + 1 /\ nodes2 # nodes
      BY <2>2, <1>1, <1>2
    <3>2. nodes2[n].left = stack[1].left /\ nodes2[n].right = r
      BY <3>1, AppendProperties DEF TakenUp
    <3>3. QED
      BY <3>1, <3>2, <1>1, <1>5
  <2>3. QED
    BY <2>1, <2>2
<1>7. ASSUME NEW k \in 1 .. Len(new)
      PROVE  new[k].left <= Len(nodes2) /\ (new[k].fn \notin Levels => new[k].left = nullptr)
  BY <1>1, <1>2, <1>3 DEF HandedOn, LeftIsNull
<1>8. ASSUME NEW k \in 1 .. Len(S)
      PROVE  S[k].left <= Len(nodes2) /\ (S[k].fn \notin Levels => S[k].left = nullptr)
  <2>1. CASE k \in 1 .. Len(new)
    BY <2>1, <1>7, NewStack
  <2>2. CASE k \notin 1 .. Len(new)
    <3>1. /\ k \in Len(new) + 1 .. Len(new) + Len(stack) - 1
          /\ k - Len(new) + 1 \in 1 .. Len(stack)
      BY <2>2, <1>1, NewStack
    <3>2. S[k] = stack[k - Len(new) + 1]
      BY <3>1, NewStack
    <3>3. stack[k - Len(new) + 1] \in Activations
      BY <3>1, ElementOfSeq
    <3>4. S[k].left \in Nat /\ S[k].left <= Len(nodes)
      BY <3>1, <3>2, <3>3 DEF Before, Activations
    <3>5. S[k].fn \notin Levels => S[k].left = nullptr
      BY <3>1, <3>2 DEF Before
    <3>6. QED
      BY <3>4, <3>5, <1>1, <1>2
  <2>3. QED
    BY <2>1, <2>2
<1>9. QED
  BY <1>2, <1>3, <1>4, <1>6, <1>8 DEF Before

(* Every node that is there keeps one holder, and a new one gets one. *)
LEMMA HandOverHeld ==
  ASSUME NEW nodes \in Seq(Nodes), NEW stack \in Seq(Activations), stack # <<>>,
         NEW r \in Nat, NEW nodes2, NEW new \in Seq(Activations), NEW r2, NEW x,
         Before(nodes, stack), r <= Len(nodes),
         TakenUp(nodes, stack, r, nodes2, x), HandedOn(new, r2, x),
         \A n \in 1 .. Len(nodes) : OneHolder(nodes, stack, r, n)
  PROVE  \A n \in 1 .. Len(nodes2) : OneHolder(nodes2, new \o Tail(stack), r2, n)
<1> DEFINE S == new \o Tail(stack)
           d == Len(new)
           m == Len(nodes) + 1
<1>1. /\ Len(nodes) \in Nat /\ d \in Nat /\ Len(stack) \in Nat \ {0} /\ nullptr = 0
      /\ Len(S) = d + Len(stack) - 1
  BY LenProperties, NewStack DEF nullptr
<1>2. \A k \in 1 .. d : k \in 1 .. Len(S) /\ S[k] = new[k]
  BY <1>1, NewStack
<1>3. \A i \in 2 .. Len(stack) : i + d - 1 \in 1 .. Len(S) /\ S[i + d - 1] = stack[i]
  BY <1>1, NewStack
<1>4. ASSUME NEW k \in 1 .. Len(S)
      PROVE  k \in 1 .. d \/ \E i \in 2 .. Len(stack) : k = i + d - 1
  <2>1. CASE k \notin 1 .. d
    <3>1. k - d + 1 \in 2 .. Len(stack) /\ k = (k - d + 1) + d - 1
      BY <2>1, <1>1
    <3>2. QED
      BY <3>1
  <2>2. QED
    BY <2>1
<1>5. /\ Before(nodes2, S) /\ Len(nodes2) \in {Len(nodes), m}
      /\ \A n \in 1 .. Len(nodes) : nodes2[n] = nodes[n]
  BY HandOverBefore
<1>6. \A k \in 1 .. d : new[k].left = nullptr \/ new[k].left = x
  BY <1>1 DEF HandedOn, LeftIsNull
<1>7. /\ 1 \in 1 .. Len(stack) /\ r2 \in {nullptr, x}
      /\ \A i \in 2 .. Len(stack) : i \in 1 .. Len(stack)
  BY <1>1 DEF HandedOn
<1>11. ASSUME NEW j \in 1 .. Len(nodes2)
       PROVE  nodes2[j].left \in Nat /\ nodes2[j].right \in Nat
  <2>1. nodes2 \in Seq(Nodes)
    BY HandOverBefore
  <2>2. nodes2[j] \in Nodes
    BY <2>1, ElementOfSeq
  <2>3. QED
    BY <2>2 DEF Nodes
<1> HIDE DEF S, d, m
<1>8. CASE nodes2 = nodes /\ stack[1].left = nullptr /\ x = r
  <2> SUFFICES ASSUME NEW n \in 1 .. Len(nodes)
               PROVE  OneHolder(nodes, S, r2, n)
    BY <1>8 DEF S
  <2>1. n # nullptr /\ OneHolder(nodes, stack, r, n)
    BY <1>1
  <2>2. CASE r # n
    <3>1. r2 # n /\ \A k \in 1 .. d : new[k].left # n
      BY <2>1, <2>2, <1>6, <1>7, <1>8
    <3>2. CASE \A i \in 1 .. Len(stack) : stack[i].left # n
      <4>1. \A k \in 1 .. Len(S) : S[k].left # n
        <5>1. \A i \in 2 .. Len(stack) : S[i + d - 1].left # n
          BY <3>2, <1>3, <1>7
        <5>2. QED
          BY <3>1, <5>1, <1>2, <1>4
      <4>2. AsLeft(nodes, stack, r, n) \/ AsRight(nodes, stack, r, n)
        BY <2>1, <2>2, <3>2 DEF OneHolder, ByCall, ByRet
      <4>3. QED
        BY <3>1, <4>1, <4>2 DEF OneHolder, AsLeft, AsRight
    <3>3. CASE ByCall(nodes, stack, r, n)
      <4>1. PICK i \in 1 .. Len(stack) : \A k \in 1 .. Len(stack) : stack[k].left = n <=> k = i
        BY <3>3 DEF ByCall
      <4>2. i # 1
        BY <4>1, <2>1, <1>7, <1>8
      <4>3. i \in 2 .. Len(stack) /\ i + d - 1 \in 1 .. Len(S)
        BY <4>2, <1>1, <1>3
      <4>4. ASSUME NEW k \in 1 .. Len(S)
            PROVE  S[k].left = n <=> k = i + d - 1
        <5>1. CASE k \in 1 .. d
          <6>1. k # i + d - 1
            BY <5>1, <4>3, <1>1
          <6>2. QED
            BY <5>1, <6>1, <3>1, <1>2
        <5>2. CASE \E j \in 2 .. Len(stack) : k = j + d - 1
          <6>1. PICK j \in 2 .. Len(stack) : k = j + d - 1
            BY <5>2
          <6>2. j \in 1 .. Len(stack) /\ (k = i + d - 1 <=> j = i)
            BY <6>1, <4>3, <1>1
          <6>3. QED
            BY <6>1, <6>2, <4>1, <1>3
        <5>3. QED
          BY <5>1, <5>2, <1>4
      <4>5. ByCall(nodes, S, r2, n)
        BY <3>1, <3>3, <4>3, <4>4 DEF ByCall
      <4>6. QED
        BY <4>5 DEF OneHolder
    <3>4. QED
      BY <2>1, <2>2, <3>2, <3>3 DEF OneHolder, AsLeft, AsRight, ByRet
  <2>3. CASE r = n
    <3>1. /\ \A j \in 1 .. Len(nodes) : nodes[j].left # n /\ nodes[j].right # n
          /\ \A k \in 1 .. Len(stack) : stack[k].left # n
      BY <2>1, <2>3 DEF OneHolder, AsLeft, AsRight, ByCall, ByRet
    <3>2. \A i \in 2 .. Len(stack) : S[i + d - 1].left # n
      BY <3>1, <1>3, <1>7
    <3>3. CASE r2 = x /\ LeftIsNull(new, d)
      <4>1. \A k \in 1 .. Len(S) : S[k].left # n
        BY <3>2, <3>3, <2>1, <1>2, <1>4 DEF LeftIsNull
      <4>2. ByRet(nodes, S, r2, n)
        BY <3>1, <3>3, <4>1, <2>3, <1>8 DEF ByRet
      <4>3. QED
        BY <4>2 DEF OneHolder
    <3>4. CASE /\ r2 = nullptr /\ d > 0 /\ new[d].left = x
               /\ LeftIsNull(new, d - 1)
      <4>1. d \in 1 .. Len(S)
        BY <3>4, <1>1
      <4>2. ASSUME NEW k \in 1 .. Len(S)
            PROVE  S[k].left = n <=> k = d
        <5>1. CASE k \in 1 .. d - 1
          BY <5>1, <3>4, <2>1, <1>1, <1>2, SMTT(30) DEF LeftIsNull
        <5>2. CASE k = d
          BY <5>2, <3>4, <2>3, <1>1, <1>2, <1>8
        <5>3. CASE \E j \in 2 .. Len(stack) : k = j + d - 1
          BY <5>3, <3>2, <1>1
        <5>4. QED
          BY <5>1, <5>2, <5>3, <1>1, <1>4
      <4>3. ByCall(nodes, S, r2, n)
        BY <3>1, <3>4, <4>1, <4>2, <2>1 DEF ByCall
      <4>4. QED
        BY <4>3 DEF OneHolder
    <3>5. QED
      BY <3>3, <3>4 DEF HandedOn, d
  <2>4. QED
    BY <2>2, <2>3
<1>9. CASE \E nd \in Nodes : /\ nodes2 = Append(nodes, nd)
                             /\ nd.left = stack[1].left /\ nd.right = r /\ x = m
  <2>1. /\ Len(nodes2) = m /\ x = m
        /\ nodes2[m].left = stack[1].left /\ nodes2[m].right = r
    BY <1>9, AppendProperties DEF m
  <2>2. /\ \A j \in 1 .. Len(nodes) : j \in 1 .. m /\ nodes2[j] = nodes[j]
        /\ m \in 1 .. m /\ \A j \in 1 .. m : j = m \/ j \in 1 .. Len(nodes)
    BY <1>1, <1>5 DEF m
  <2>3. ASSUME NEW n \in 1 .. Len(nodes)
        PROVE  OneHolder(nodes2, S, r2, n)
    <3>1. n # nullptr /\ n # x /\ OneHolder(nodes, stack, r, n)
      BY <1>1, <2>1 DEF m
    <3>2. r2 # n /\ \A k \in 1 .. d : new[k].left # n
      BY <3>1, <1>6, <1>7
    <3>3. CASE \A i \in 2 .. Len(stack) : stack[i].left # n
      <4>1. \A k \in 1 .. Len(S) : S[k].left # n
        <5>1. \A i \in 2 .. Len(stack) : S[i + d - 1].left # n
          BY <3>3, <1>3
        <5>2. QED
          BY <3>2, <5>1, <1>2, <1>4
      <4>2. CASE AsLeft(nodes, stack, r, n)
        <5>1. stack[1].left # n /\ r # n
          BY <4>2, <1>7 DEF AsLeft
        <5>2. AsLeft(nodes2, S, r2, n)
          <6>1. PICK i \in 1 .. Len(nodes) :
                   \A j \in 1 .. Len(nodes) : nodes[j].left = n <=> j = i
            BY <4>2 DEF AsLeft
          <6>2. i \in 1 .. m /\ i # m
            BY <2>2, <1>1 DEF m
          <6>3. \A j \in 1 .. m : nodes2[j].left = n <=> j = i
            BY <6>1, <6>2, <5>1, <2>1, <2>2
          <6>4. \A j \in 1 .. m : nodes2[j].right # n
            BY <4>2, <5>1, <2>1, <2>2 DEF AsLeft
          <6>5. QED
            BY <6>2, <6>3, <6>4, <4>1, <3>2, <2>1 DEF AsLeft
        <5>3. QED
          BY <5>2 DEF OneHolder
      <4>3. CASE AsRight(nodes, stack, r, n)
        <5>1. stack[1].left # n /\ r # n
          BY <4>3, <1>7 DEF AsRight
        <5>2. AsRight(nodes2, S, r2, n)
          <6>1. PICK i \in 1 .. Len(nodes) :
                   \A j \in 1 .. Len(nodes) : nodes[j].right = n <=> j = i
            BY <4>3 DEF AsRight
          <6>2. i \in 1 .. m /\ i # m
            BY <2>2, <1>1 DEF m
          <6>3. \A j \in 1 .. m : nodes2[j].right = n <=> j = i
            BY <6>1, <6>2, <5>1, <2>1, <2>2
          <6>4. \A j \in 1 .. m : nodes2[j].left # n
            BY <4>3, <5>1, <2>1, <2>2 DEF AsRight
          <6>5. QED
            BY <6>2, <6>3, <6>4, <4>1, <3>2, <2>1 DEF AsRight
        <5>3. QED
          BY <5>2 DEF OneHolder
      <4>4. CASE ByCall(nodes, stack, r, n)
        <5>1. stack[1].left = n /\ r # n
          <6>1. PICK i \in 1 .. Len(stack) :
                  \A k \in 1 .. Len(stack) : stack[k].left = n <=> k = i
            BY <4>4 DEF ByCall
          <6>2. r # n
            BY <4>4 DEF ByCall
          <6>. QED
            BY <6>1, <6>2, <3>3, <1>1
        <5>2. AsLeft(nodes2, S, r2, n)
          <6>1. \A j \in 1 .. Len(nodes) : nodes[j].left # n /\ nodes[j].right # n /\ j # m
            BY <4>4, <1>1 DEF ByCall, m
          <6>2. \A j \in 1 .. m : nodes2[j].left = n <=> j = m
            BY <6>1, <5>1, <2>1, <2>2
          <6>3. \A j \in 1 .. m : nodes2[j].right # n
            BY <6>1, <5>1, <2>1, <2>2
          <6>4. QED
            BY <6>2, <6>3, <4>1, <3>2, <2>1, <2>2 DEF AsLeft
        <5>3. QED
          BY <5>2 DEF OneHolder
      <4>5. CASE ByRet(nodes, stack, r, n)
        <5>1. stack[1].left # n /\ r = n
          BY <4>5, <1>7 DEF ByRet
        <5>2. AsRight(nodes2, S, r2, n)
          BY <4>1, <4>5, <5>1, <3>2, <2>1, <2>2 DEF AsRight, ByRet
        <5>3. QED
          BY <5>2 DEF OneHolder
      <4>6. QED
        BY <4>2, <4>3, <4>4, <4>5, <3>1 DEF OneHolder
    <3>4. CASE \E i \in 2 .. Len(stack) : stack[i].left = n
      <4>1. PICK i \in 2 .. Len(stack) : stack[i].left = n
        BY <3>4
      <4>2. i \in 1 .. Len(stack) /\ i # 1
        BY <1>1
      <4>3. /\ ByCall(nodes, stack, r, n)
            /\ \A k \in 1 .. Len(stack) : stack[k].left = n <=> k = i
        BY <4>1, <4>2, <3>1 DEF OneHolder, AsLeft, AsRight, ByCall, ByRet
      <4>4. stack[1].left # n /\ r # n
        BY <4>2, <4>3, <1>7 DEF ByCall
      <4>5. i + d - 1 \in 1 .. Len(S)
        BY <1>3
      <4>6. ASSUME NEW k \in 1 .. Len(S)
            PROVE  S[k].left = n <=> k = i + d - 1
        <5>1. CASE k \in 1 .. d
          <6>1. k # i + d - 1
            BY <5>1, <1>1
          <6>2. QED
            BY <5>1, <6>1, <3>2, <1>2
        <5>2. CASE \E j \in 2 .. Len(stack) : k = j + d - 1
          <6>1. PICK j \in 2 .. Len(stack) : k = j + d - 1
            BY <5>2
          <6>2. j \in 1 .. Len(stack) /\ (k = i + d - 1 <=> j = i)
            BY <6>1, <1>1
          <6>3. QED
            BY <6>1, <6>2, <4>3, <1>3
        <5>3. QED
          BY <5>1, <5>2, <1>4
      <4>7. \A j \in 1 .. Len(nodes2) : nodes2[j].left # n /\ nodes2[j].right # n
        BY <4>3, <4>4, <2>1, <2>2 DEF ByCall
      <4>8. ByCall(nodes2, S, r2, n)
        BY <4>5, <4>6, <4>7, <3>2 DEF ByCall
      <4>9. QED
        BY <4>8 DEF OneHolder
    <3>5. QED
      BY <3>3, <3>4
  <2>4. OneHolder(nodes2, S, r2, m)
    <3>1. \A j \in 1 .. Len(nodes2) : nodes2[j].left # m /\ nodes2[j].right # m
      <4>1. SUFFICES ASSUME NEW j \in 1 .. Len(nodes2)
                     PROVE  nodes2[j].left # m /\ nodes2[j].right # m
        OBVIOUS
      <4>2. nodes2[j].left < j /\ nodes2[j].right < j /\ j <= m
        BY <1>5, <2>1, <1>1 DEF Before, m
      <4>3. nodes2[j].left \in Nat /\ nodes2[j].right \in Nat
        BY <1>11
      <4>4. QED
        BY <4>2, <4>3, <1>1 DEF m
    <3>2. \A i \in 2 .. Len(stack) : S[i + d - 1].left # m
      <4>1. SUFFICES ASSUME NEW i \in 2 .. Len(stack)
                     PROVE  stack[i].left # m
        BY <1>3
      <4>2. i \in 1 .. Len(stack)
        BY <1>1
      <4>3. stack[i].left <= Len(nodes) /\ stack[i] \in Activations
        BY <4>2, ElementOfSeq DEF Before
      <4>4. QED
        BY <4>3, <1>1, SMTT(30) DEF m, Activations
    <3>3. m # nullptr
      BY <1>1 DEF m
    <3>4. CASE r2 = x /\ LeftIsNull(new, d)
      <4>1. \A k \in 1 .. Len(S) : S[k].left # m
        BY <3>2, <3>3, <3>4, <1>2, <1>4 DEF LeftIsNull
      <4>2. ByRet(nodes2, S, r2, m)
        BY <3>1, <3>4, <4>1, <2>1 DEF ByRet
      <4>3. QED
        BY <4>2 DEF OneHolder
    <3>5. CASE /\ r2 = nullptr /\ d > 0 /\ new[d].left = x
               /\ LeftIsNull(new, d - 1)
      <4>1. d \in 1 .. Len(S)
        BY <3>5, <1>1
      <4>2. ASSUME NEW k \in 1 .. Len(S)
            PROVE  S[k].left = m <=> k = d
        <5>1. CASE k \in 1 .. d - 1
          BY <5>1, <3>3, <3>5, <1>1, <1>2, SMTT(30) DEF LeftIsNull
        <5>2. CASE k = d
          BY <5>2, <3>5, <1>1, <1>2, <2>1
        <5>3. CASE \E j \in 2 .. Len(stack) : k = j + d - 1
          BY <5>3, <3>2, <1>1
        <5>4. QED
          BY <5>1, <5>2, <5>3, <1>1, <1>4
      <4>3. ByCall(nodes2, S, r2, m)
        BY <3>1, <3>3, <3>5, <4>1, <4>2 DEF ByCall
      <4>4. QED
        BY <4>3 DEF OneHolder
    <3>6. QED
      BY <3>4, <3>5 DEF HandedOn, d
  <2>5. QED
    BY <2>1, <2>2, <2>3, <2>4 DEF S
<1>10. QED
  BY <1>8, <1>9 DEF TakenUp, m

-----------------------------------------------------------------------------
(* The order of the nodes.                                                 *)

(* The trees that are held, that which was returned first and then those of  *)
(* the activations, follow each other in the text from its end to its       *)
(* beginning: each ends where the one before it begins.  f is the first     *)
(* node of each tree, b[k] the last node that is left for the k-th          *)
(* activation and those around it.                                          *)
FirstOf(nodes, f, n) ==
  CASE nodes[n].type = "BINOP"                -> f[nodes[n].left]
    [] nodes[n].type \in {"UNRYOP", "ASSIGN"} -> f[nodes[n].right]
    [] OTHER                                  -> n

Ordered(nodes, f) ==
  \A n \in 1 .. Len(nodes) :
    /\ f[n] \in 1 .. n
    /\ f[n] = FirstOf(nodes, f, n)
    /\ nodes[n].type \in {"BINOP", "UNRYOP", "ASSIGN"} => nodes[n].right = n - 1
    /\ nodes[n].type = "BINOP" => nodes[n].left = f[nodes[n].right] - 1

(* What is left before the tree of x, the last of m nodes, or without it. *)
LeftOver(f, x, m) == IF x = nullptr THEN m ELSE f[x] - 1

Adjoin(nodes, stack, r, f, b) ==
  /\ r # nullptr => r = Len(nodes)
  /\ b[1] = LeftOver(f, r, Len(nodes))
  /\ \A k \in 1 .. Len(stack) :
       /\ stack[k].left # nullptr => stack[k].left = b[k]
       /\ b[k + 1] = LeftOver(f, stack[k].left, b[k])
  /\ b[Len(stack) + 1] = 0

Adjoining(nodes, stack, r) ==
  \E f \in [Nat -> Nat], b \in [Nat -> Nat] : Ordered(nodes, f) /\ Adjoin(nodes, stack, r, f, b)

(* Only the operands that a node has are held by it. *)
FieldsByType(nd) ==
  /\ nd.type \in {"NUM", "ACCESS"} => nd.left = nullptr /\ nd.right = nullptr
  /\ nd.type \in {"UNRYOP", "ASSIGN"} => nd.left = nullptr

Made(nodes, n) == WellFormed(nodes, n) /\ FieldsByType(nodes[n])

TreesAdjoin == parsing \in {"running", "ok"} => Adjoining(node, calls, ret)

ParserInv ==
  ParserTypeOK /\ TokensInLine /\ HeldOnce /\ OperandsBefore /\ NoLine /\ TreesAdjoin

AllWellFormed(nodes) == \A n \in 1 .. Len(nodes) : WellFormed(nodes, n)

NewMade(nodes, nodes2) == Len(nodes2) = Len(nodes) + 1 => Made(nodes2, Len(nodes) + 1)

(* The first nodes of the trees when a node has taken up the two innermost. *)
Continued(nodes, f, v, nodes2, x) ==
  \E g \in [Nat -> Nat] :
    /\ Ordered(nodes2, g)
    /\ \A i \in 1 .. Len(nodes) : g[i] = f[i]
    /\ x # nullptr => x = Len(nodes2)
    /\ v = LeftOver(g, x, Len(nodes2))

(* A node that is made of the two innermost trees begins where the first of  *)
(* them does.                                                               *)
LEMMA TakenUpOrdered ==
  ASSUME NEW nodes \in Seq(Nodes), NEW stack \in Seq(Activations), stack # <<>>,
         NEW r \in Nat, NEW nodes2, NEW x, Before(nodes, stack),
         AllWellFormed(nodes), TakenUp(nodes, stack, r, nodes2, x), NewMade(nodes, nodes2),
         NEW f \in [Nat -> Nat], NEW b \in [Nat -> Nat],
         Ordered(nodes, f), Adjoin(nodes, stack, r, f, b)
  PROVE  Continued(nodes, f, b[2], nodes2, x)
<1>0. PICK N \in Nat, l \in Nat : N = Len(nodes) /\ l = stack[1].left
  <2>1. 1 \in 1 .. Len(stack)
    BY NewStack
  <2>2. stack[1] \in Activations
    BY <2>1, ElementOfSeq
  <2>3. QED
    BY <2>2, LenProperties DEF Activations
<1>1. /\ nullptr = 0 /\ 1 \in 1 .. Len(stack) /\ l \in Nat
      /\ l # 0 => l \in 1 .. N
  <2>1. 1 \in 1 .. Len(stack) /\ nullptr = 0
    BY NewStack DEF nullptr
  <2>2. stack[1] \in Activations /\ stack[1].left <= Len(nodes)
    BY <2>1, ElementOfSeq DEF Before
  <2>3. l \in Nat /\ l <= N
    BY <1>0, <2>2 DEF Activations
  <2>4. QED
    BY <2>1, <2>3
<1>2. /\ r # 0 => r = N
      /\ b[1] = IF r = 0 THEN N ELSE f[r] - 1
      /\ l # 0 => l = b[1]
      /\ b[2] = IF l = 0 THEN b[1] ELSE f[l] - 1
  <2>1. 1 + 1 = 2
    OBVIOUS
  <2>2. QED
    BY <1>0, <1>1, <2>1 DEF Adjoin, LeftOver
<1>3. CASE nodes2 = nodes /\ stack[1].left = nullptr /\ x = r
  BY <1>0, <1>1, <1>2, <1>3 DEF LeftOver, Continued
<1>4. ASSUME NEW nd \in Nodes, nodes2 = Append(nodes, nd), nd.left = stack[1].left, nd.right = r,
             x = Len(nodes) + 1
      PROVE  Continued(nodes, f, b[2], nodes2, x)
  <2>1. /\ Len(nodes2) = N + 1 /\ nodes2[N + 1] = nd
        /\ \A i \in 1 .. N : nodes2[i] = nodes[i]
        /\ nd.left = l /\ nd.right = r /\ x = N + 1
    BY <1>0, <1>4, AppendProperties
  <2>2. WellFormed(nodes2, N + 1) /\ FieldsByType(nd) /\ nd.type \in NodeTypes
    BY <1>0, <2>1 DEF NewMade, Made, Nodes
  <2>3. /\ nd.type = "BINOP" => l # 0 /\ r # 0
        /\ nd.type \in {"UNRYOP", "ASSIGN"} => l = 0 /\ r # 0
        /\ nd.type \in {"NUM", "ACCESS"} => l = 0 /\ r = 0
        /\ l # 0 => l \in 1 .. N
        /\ r # 0 => r = N /\ N \in 1 .. N
    <3>1. /\ nd.type = "BINOP" => nd.left \in 1 .. (N + 1) - 1 /\ nd.right \in 1 .. (N + 1) - 1
          /\ nd.type \in {"UNRYOP", "ASSIGN"} => nd.right \in 1 .. (N + 1) - 1
      BY <2>1, <2>2 DEF WellFormed
    <3>2. /\ nd.type \in {"UNRYOP", "ASSIGN"} => nd.left = 0
          /\ nd.type \in {"NUM", "ACCESS"} => nd.left = 0 /\ nd.right = 0
      BY <1>1, <2>2 DEF FieldsByType
    <3>3. nd.type \in {"NUM", "BINOP", "UNRYOP", "ASSIGN", "ACCESS"}
      BY <2>2 DEF NodeTypes
    <3>4. /\ \A y \in 1 .. (N + 1) - 1 : y # 0
          /\ r # 0 => r = N /\ N \in 1 .. N
      BY <1>2
    <3>5. /\ nd.type = "BINOP" => l # 0 /\ r # 0
          /\ nd.type \in {"UNRYOP", "ASSIGN"} => l = 0 /\ r # 0
          /\ nd.type \in {"NUM", "ACCESS"} => l = 0 /\ r = 0
      <4>1. nd.left = l /\ nd.right = r
        BY <2>1
      <4>2. QED
        BY <3>1, <3>2, <3>4, <4>1
    <3>6. QED
      BY <1>1, <3>4, <3>5
  <2>4. \A i \in 1 .. N : f[i] \in 1 .. i
    BY <1>0 DEF Ordered
  <2>. DEFINE v == CASE nd.type = "BINOP"                -> f[l]
                     [] nd.type \in {"UNRYOP", "ASSIGN"} -> f[r]
                     [] OTHER                            -> N + 1
              g == [f EXCEPT ![N + 1] = v]
  <2>5. /\ v \in 1 .. N + 1
        /\ b[2] = v - 1
    <3>1. CASE nd.type = "BINOP"
      <4>1. v = f[l]
        BY <3>1
      <4>2. l # 0 /\ l \in 1 .. N
        BY <2>3, <3>1
      <4>3. f[l] \in 1 .. N /\ b[2] = f[l] - 1
        BY <1>2, <2>4, <4>2
      <4>. HIDE DEF v
      <4>4. QED
        BY <4>1, <4>3
    <3>2. CASE nd.type \in {"UNRYOP", "ASSIGN"}
      BY <1>2, <2>3, <2>4, <3>2
    <3>3. CASE nd.type \in {"NUM", "ACCESS"}
      <4>1. v = N + 1
        BY <3>3
      <4>2. l = 0 /\ r = 0
        BY <2>3, <3>3
      <4>3. b[2] = N
        BY <1>2, <4>2
      <4>. HIDE DEF v
      <4>4. QED
        BY <4>1, <4>3
    <3>4. nd.type \in {"NUM", "BINOP", "UNRYOP", "ASSIGN", "ACCESS"}
      BY <2>2 DEF NodeTypes
    <3>. HIDE DEF v
    <3>5. QED
      BY <3>1, <3>2, <3>3, <3>4
  <2>6. /\ g \in [Nat -> Nat] /\ g[N + 1] = v
        /\ \A i \in 1 .. N : g[i] = f[i]
    <3>. HIDE DEF v
    <3>1. v \in Nat /\ N + 1 \in Nat
      BY <2>5
    <3>2. \A i \in 1 .. N : i # N + 1 /\ i \in Nat
      OBVIOUS
    <3>3. QED
      BY <3>1, <3>2
  <2>. HIDE DEF g, v
  <2>7. ASSUME NEW n \in 1 .. N
        PROVE  /\ g[n] \in 1 .. n
               /\ g[n] = FirstOf(nodes2, g, n)
               /\ nodes2[n].type \in {"BINOP", "UNRYOP", "ASSIGN"} => nodes2[n].right = n - 1
               /\ nodes2[n].type = "BINOP" => nodes2[n].left = g[nodes2[n].right] - 1
    <3>1. /\ f[n] \in 1 .. n /\ g[n] = f[n] /\ nodes2[n] = nodes[n]
          /\ f[n] = FirstOf(nodes, f, n)
          /\ nodes[n].type \in {"BINOP", "UNRYOP", "ASSIGN"} => nodes[n].right = n - 1
          /\ nodes[n].type = "BINOP" => nodes[n].left = f[nodes[n].right] - 1
      BY <1>0, <2>1, <2>6 DEF Ordered
    <3>2. /\ nodes[n].type \in {"BINOP", "UNRYOP", "ASSIGN"} => nodes[n].right \in 1 .. N
          /\ nodes[n].type = "BINOP" => nodes[n].left \in 1 .. N
      <4>1. WellFormed(nodes, n) /\ \A i \in 1 .. n - 1 : i \in 1 .. N
        BY <1>0 DEF AllWellFormed
      <4>2. QED
        BY <4>1 DEF WellFormed
    <3>3. FirstOf(nodes2, g, n) = FirstOf(nodes, f, n)
      BY <2>6, <3>1, <3>2 DEF FirstOf
    <3>4. nodes[n].type = "BINOP" => g[nodes[n].right] = f[nodes[n].right]
      BY <2>6, <3>2
    <3>5. QED
      BY <3>1, <3>3, <3>4
  <2>8. /\ g[N + 1] \in 1 .. N + 1
        /\ g[N + 1] = FirstOf(nodes2, g, N + 1)
        /\ nd.type \in {"BINOP", "UNRYOP", "ASSIGN"} => nd.right = (N + 1) - 1
        /\ nd.type = "BINOP" => nd.left = g[nd.right] - 1
    <3>1. FirstOf(nodes2, g, N + 1) = v
      <4>1. l # 0 => g[l] = f[l]
        BY <2>3, <2>6
      <4>2. r # 0 => g[r] = f[r]
        BY <2>3, <2>6
      <4>3. nodes2[N + 1] = nd /\ nd.left = l /\ nd.right = r
        BY <2>1
      <4>4. QED
        BY <2>3, <4>1, <4>2, <4>3 DEF FirstOf, v
    <3>2. nd.type \in {"BINOP", "UNRYOP", "ASSIGN"} => nd.right = (N + 1) - 1
      <4>1. (N + 1) - 1 = N /\ nd.right = r
        BY <2>1
      <4>2. nd.type \in {"BINOP", "UNRYOP", "ASSIGN"} => r # 0
        BY <2>3
      <4>3. r # 0 => r = N
        BY <2>3
      <4>4. QED
        BY <4>1, <4>2, <4>3
    <3>3. nd.type = "BINOP" => nd.left = g[nd.right] - 1
      <4>1. nd.type = "BINOP" => l # 0 /\ r # 0
        BY <2>3
      <4>2. l # 0 /\ r # 0 => l = g[r] - 1
        BY <1>2, <2>3, <2>6
      <4>3. nd.left = l /\ nd.right = r
        BY <2>1
      <4>4. QED
        BY <4>1, <4>2, <4>3
    <3>4. QED
      BY <2>5, <2>6, <3>1, <3>2, <3>3
  <2>9. Ordered(nodes2, g)
    <3>1. \A n \in 1 .. N + 1 : n \in 1 .. N \/ n = N + 1
      OBVIOUS
    <3>2. QED
      BY <2>1, <2>7, <2>8, <3>1 DEF Ordered
  <2>10. b[2] = LeftOver(g, x, Len(nodes2)) /\ x = Len(nodes2)
    BY <1>1, <2>1, <2>5, <2>6 DEF LeftOver
  <2>11. QED
    BY <1>0, <2>6, <2>9, <2>10 DEF Continued
<1>5. QED
  BY <1>3, <1>4 DEF TakenUp

(* And it is left over in the place of both. *)
LEMMA HandOverAdjoins ==
  ASSUME NEW nodes \in Seq(Nodes), NEW stack \in Seq(Activations), stack # <<>>,
         NEW r \in Nat, NEW nodes2, NEW new \in Seq(Activations), NEW r2, NEW x,
         Before(nodes, stack), TakenUp(nodes, stack, r, nodes2, x), HandedOn(new, r2, x),
         r <= Len(nodes), \A n \in 1 .. Len(nodes) : WellFormed(nodes, n),
         Len(nodes2) = Len(nodes) + 1 => Made(nodes2, Len(nodes) + 1),
         Adjoining(nodes, stack, r)
  PROVE  Adjoining(nodes2, new \o Tail(stack), r2)
<1>. DEFINE S == new \o Tail(stack)
            d == Len(new)
            M == Len(nodes2)
<1>1. PICK f \in [Nat -> Nat], b \in [Nat -> Nat] : Ordered(nodes, f) /\ Adjoin(nodes, stack, r, f, b)
  BY DEF Adjoining
<1>2. PICK g \in [Nat -> Nat] :
        /\ Ordered(nodes2, g)
        /\ \A i \in 1 .. Len(nodes) : g[i] = f[i]
        /\ x # nullptr => x = M
        /\ b[2] = LeftOver(g, x, M)
  <2>1. AllWellFormed(nodes) /\ NewMade(nodes, nodes2)
    BY DEF AllWellFormed, NewMade
  <2>2. Continued(nodes, f, b[2], nodes2, x)
    BY <1>1, <2>1, TakenUpOrdered
  <2>3. QED
    BY <2>2 DEF Continued
<1>3. /\ Len(nodes) \in Nat /\ d \in Nat /\ Len(stack) \in Nat \ {0} /\ nullptr = 0
      /\ Len(S) = d + Len(stack) - 1 /\ M \in Nat
      /\ \A k \in 1 .. d : S[k] = new[k]
      /\ \A k \in d + 1 .. d + Len(stack) - 1 : S[k] = stack[k - d + 1]
  <2>1. nodes2 \in Seq(Nodes)
    BY HandOverBefore
  <2>2. QED
    BY <2>1, LenProperties, NewStack DEF nullptr
<1>4. PICK v \in Nat :
        /\ d > 0 => v = LeftOver(g, r2, M)
        /\ r2 # nullptr => r2 = M
        /\ d = 0 => b[2] = LeftOver(g, r2, M)
        /\ \A k \in 1 .. d :
             /\ new[k].left # nullptr => new[k].left = v
             /\ (IF k < d THEN v ELSE b[2]) = LeftOver(g, new[k].left, v)
  <2>1. CASE r2 = x /\ LeftIsNull(new, Len(new))
    <3>1. \A k \in 1 .. d : new[k].left = nullptr
      BY <2>1 DEF LeftIsNull
    <3>2. b[2] \in Nat
      OBVIOUS
    <3>3. QED
      BY <1>2, <2>1, <3>1, <3>2 DEF LeftOver
  <2>2. CASE r2 = nullptr /\ d > 0 /\ new[d].left = x /\ LeftIsNull(new, d - 1)
    <3>1. \A k \in 1 .. d : k < d => new[k].left = nullptr
      <4>1. d \in Nat
        BY <1>3
      <4>2. LeftIsNull(new, d - 1)
        BY <2>2
      <4>. HIDE DEF M, S, d
      <4>3. \A k \in 1 .. d - 1 : new[k].left = nullptr
        BY <4>2 DEF LeftIsNull
      <4>4. QED
        BY <4>1, <4>3
    <3>2. \A k \in 1 .. d : ~ (k < d) => k = d
      BY <1>3
    <3>3. M \in Nat /\ M = LeftOver(g, r2, M)
      BY <1>3, <2>2 DEF LeftOver
    <3>4. /\ \A k \in 1 .. d : new[k].left # nullptr => new[k].left = M
          /\ \A k \in 1 .. d :
               (IF k < d THEN M ELSE b[2]) = LeftOver(g, new[k].left, M)
      <4>1. x # nullptr => x = M
        BY <1>2
      <4>2. b[2] = LeftOver(g, x, M) /\ LeftOver(g, nullptr, M) = M
        BY <1>2 DEF LeftOver
      <4>. HIDE DEF M, d
      <4>3. QED
        BY <2>2, <3>1, <3>2, <4>1, <4>2
    <3>5. r2 # nullptr => r2 = M
      BY <2>2
    <3>6. d # 0
      BY <2>2, <1>3
    <3>. HIDE DEF M, d
    <3>. M \in Nat
      BY <3>3
    <3>. WITNESS M \in Nat
    <3>7. QED
      BY <3>3, <3>4, <3>5, <3>6
  <2>3. QED
    BY <2>1, <2>2 DEF HandedOn
<1>. DEFINE c == [i \in Nat |-> IF i <= d THEN v ELSE IF i - d + 1 \in Nat THEN b[i - d + 1] ELSE 0]
<1>5. /\ c \in [Nat -> Nat]
      /\ \A i \in 1 .. d : c[i] = v
      /\ \A i \in Nat : i > d => c[i] = b[i - d + 1]
  <2>. HIDE DEF d, M, S
  <2>1. d \in Nat
    BY <1>3
  <2>2. c \in [Nat -> Nat]
    BY <2>1
  <2>3. ASSUME NEW i \in 1 .. d
        PROVE  c[i] = v
    <3>1. i \in Nat /\ i <= d
      BY <2>1
    <3>2. QED
      BY <3>1
  <2>4. ASSUME NEW i \in Nat, i > d
        PROVE  c[i] = b[i - d + 1]
    <3>1. ~ (i <= d) /\ i - d + 1 \in Nat
      BY <2>1, <2>4
    <3>2. QED
      BY <3>1
  <2>5. QED
    BY <2>2, <2>3, <2>4
<1>. HIDE DEF S, d, M, c
<1>6. c[1] = LeftOver(g, r2, M)
  <2>1. CASE d = 0
    BY <1>4, <1>5, <2>1
  <2>2. CASE d # 0
    BY <1>3, <1>4, <1>5, <2>2
  <2>3. QED
    BY <2>1, <2>2
<1>7. ASSUME NEW k \in 1 .. Len(S)
      PROVE  /\ S[k].left # nullptr => S[k].left = c[k]
             /\ c[k + 1] = LeftOver(g, S[k].left, c[k])
  <2>1. CASE k \in 1 .. d
    <3>1. S[k] = new[k] /\ c[k] = v
      BY <1>3, <1>5, <2>1
    <3>2. c[k + 1] = IF k < d THEN v ELSE b[2]
      <4>1. CASE k < d
        <5>1. k + 1 \in 1 .. d
          BY <1>3, <2>1, <4>1
        <5>2. QED
          BY <1>5, <4>1, <5>1
      <4>2. CASE k = d
        <5>1. k + 1 \in Nat /\ k + 1 > d /\ (k + 1) - d + 1 = 2
          <6>1. d \in Nat
            BY <1>3
          <6>2. QED
            BY <4>2, <6>1
        <5>2. QED
          BY <1>3, <1>5, <4>2, <5>1
      <4>3. QED
        BY <1>3, <2>1, <4>1, <4>2
    <3>3. QED
      BY <1>4, <2>1, <3>1, <3>2
  <2>2. CASE k \notin 1 .. d
    <3>. DEFINE i == k - d + 1
    <3>1. /\ k \in d + 1 .. d + Len(stack) - 1 /\ i \in 1 .. Len(stack) /\ i \in Nat
          /\ k \in Nat /\ k > d /\ k + 1 \in Nat /\ k + 1 > d /\ (k + 1) - d + 1 = i + 1
      BY <1>3, <2>2
    <3>2. S[k] = stack[i] /\ c[k] = b[i] /\ c[k + 1] = b[i + 1]
      <4>1. S[k] = stack[i]
        BY <1>3, <3>1
      <4>2. c[k] = b[i]
        BY <1>5, <3>1
      <4>3. c[k + 1] = b[(k + 1) - d + 1]
        BY <1>5, <3>1
      <4>. HIDE DEF i
      <4>4. QED
        BY <3>1, <4>1, <4>2, <4>3
    <3>3. /\ stack[i].left # nullptr => stack[i].left = b[i]
          /\ b[i + 1] = LeftOver(f, stack[i].left, b[i])
      BY <1>1, <3>1 DEF Adjoin
    <3>4. stack[i].left # nullptr => g[stack[i].left] = f[stack[i].left]
      <4>1. stack[i] \in Activations
        BY <3>1, ElementOfSeq
      <4>. HIDE DEF i
      <4>2. stack[i].left \in Nat /\ stack[i].left <= Len(nodes)
        BY <3>1, <4>1 DEF Before, Activations
      <4>3. \A y \in Nat : y <= Len(nodes) /\ y # 0 => y \in 1 .. Len(nodes)
        BY <1>3
      <4>4. stack[i].left # nullptr => stack[i].left \in 1 .. Len(nodes)
        BY <1>3, <4>2, <4>3
      <4>5. QED
        BY <1>2, <4>4
    <3>. HIDE DEF i
    <3>5. QED
      BY <3>2, <3>3, <3>4 DEF LeftOver
  <2>3. QED
    BY <2>1, <2>2
<1>8. c[Len(S) + 1] = 0
  <2>1. Len(S) + 1 \in Nat /\ Len(S) + 1 > d /\ (Len(S) + 1) - d + 1 = Len(stack) + 1
    <3>1. d \in Nat /\ Len(stack) \in Nat \ {0} /\ Len(S) = d + Len(stack) - 1
      BY <1>3
    <3>2. Len(S) + 1 = d + Len(stack)
      BY <3>1
    <3>3. \A j \in Nat \ {0} : d + j \in Nat /\ d + j > d /\ (d + j) - d + 1 = j + 1
      BY <3>1
    <3>4. QED
      BY <3>1, <3>2, <3>3
  <2>2. b[Len(stack) + 1] = 0
    BY <1>1 DEF Adjoin
  <2>3. QED
    BY <1>5, <2>1, <2>2
<1>9. Adjoin(nodes2, S, r2, g, c)
  BY <1>4, <1>6, <1>7, <1>8 DEF Adjoin, M
<1>10. QED
  BY <1>2, <1>5, <1>9 DEF Adjoining, S

-----------------------------------------------------------------------------
(* Tokens and activations.                                                 *)

KeptTokens(acts) ==
  \A k \in 1 .. Len(acts) : /\ acts[k].token \in 0 .. Size - 1
                            /\ Token(acts[k].token).type \in Kept(acts[k])

(* An activation that nothing has been kept for yet. *)
Plain(c) == \E fn \in Levels \cup {"factor", "expression", "callable"} : c = Calling(fn)

AllPlain(acts) == acts \in Seq(Activations) /\ \A k \in 1 .. Len(acts) : Plain(acts[k])

AtIndex(i, current) == current = IF i < Size THEN i ELSE Size - 1

(* While something is parsed there is a line, and the current token is one   *)
(* of its tokens. *)
LEMMA CurrentInLine ==
  ASSUME ParserInv, calls # <<>>
  PROVE  /\ m_Tokens # <<>> /\ Size \in Nat \ {0} /\ m_TokenIndex \in Nat
         /\ AtIndex(m_TokenIndex, m_CurrentToken)
         /\ m_CurrentToken \in 0 .. Size - 1
         /\ 1 \in 1 .. Len(calls) /\ calls[1] \in Activations
<1>1. m_Tokens # <<>> /\ m_Tokens \in Seq(TokenRecords) /\ m_TokenIndex \in Nat
  BY DEF ParserInv, NoLine, ParserTypeOK, IsLine
<1>2. Size \in Nat \ {0}
  BY <1>1, EmptySeq DEF Size
<1>3. AtIndex(m_TokenIndex, m_CurrentToken)
  BY <1>1 DEF ParserInv, TokensInLine, AtIndex
<1>4. m_CurrentToken \in 0 .. Size - 1
  BY <1>1, <1>2, <1>3 DEF AtIndex
<1>5. calls \in Seq(Activations)
  BY DEF ParserInv, ParserTypeOK
<1>6. 1 \in 1 .. Len(calls)
  BY <1>5, EmptySeq
<1>7. QED
  BY <1>1, <1>2, <1>3, <1>4, <1>5, <1>6, ElementOfSeq

(* A token of the line has a type, and a name if it is one. *)
LEMMA TokenTyped ==
  ASSUME IsLine(m_Tokens), NEW i \in 0 .. Size - 1
  PROVE  /\ Token(i) \in TokenRecords /\ Token(i).type \in TokenTypes
         /\ Token(i).type = "ID" => Token(i).name \in Names
<1>1. m_Tokens \in Seq(TokenRecords) /\ Len(m_Tokens) \in Nat
  BY LenProperties DEF IsLine
<1>2. i + 1 \in 1 .. Len(m_Tokens)
  BY <1>1 DEF Size
<1>3. Token(i) \in TokenRecords
  BY <1>1, <1>2, ElementOfSeq DEF Token
<1>4. QED
  BY <1>2, <1>3 DEF IsLine, Token, TokenRecords

(* advance leads to the next token, or stays on the last. *)
LEMMA AdvanceAtIndex ==
  ASSUME Size \in Nat \ {0}, NEW i \in Nat, NEW current, AtIndex(i, current)
  PROVE  AtIndex(i + 1, CurrentAt(i + 1, current))
<1>1. CASE i + 1 < Size
  BY <1>1 DEF AtIndex, CurrentAt
<1>2. CASE ~ (i + 1 < Size)
  <2>1. CurrentAt(i + 1, current) = current
    BY <1>2 DEF CurrentAt
  <2>2. current = Size - 1
    BY <1>2 DEF AtIndex
  <2>3. QED
    BY <1>2, <2>1, <2>2 DEF AtIndex
<1>3. QED
  BY <1>1, <1>2

(* What is kept for the functions that keep a token of one kind. *)
LEMMA KeptOf ==
  ASSUME NEW c
  PROVE  /\ c.fn = "assign" => Kept(c) = {"ID"}
         /\ c.fn = "unary" => Kept(c) = UnaryOps
         /\ c.fn = "paren" => Kept(c) = {"LROUND"}
         /\ c.fn \in Levels /\ c.left # nullptr => Kept(c) = Ops[c.fn]
BY DEF Kept, Levels

(* Nothing is kept for a plain activation, and it holds no node. *)
LEMMA PlainFields ==
  ASSUME NEW c, Plain(c)
  PROVE  c.left = nullptr /\ c.token = 0 /\ Kept(c) = TokenTypes
<1>1. PICK fn \in Levels \cup {"factor", "expression", "callable"} : c = Calling(fn)
  BY DEF Plain
<1>2. c.fn = fn /\ c.left = nullptr /\ c.token = 0
  BY <1>1 DEF Calling, Call
<1>3. QED
  BY <1>2 DEF Kept, Levels

(* So its token is a token of the line, of any kind. *)
LEMMA PlainKept ==
  ASSUME IsLine(m_Tokens), Size \in Nat \ {0}, NEW c, Plain(c)
  PROVE  /\ c \in Activations /\ c.left = nullptr
         /\ c.token \in 0 .. Size - 1 /\ Token(c.token).type \in Kept(c)
<1>1. c \in Activations
  BY DEF Plain, Calling, Call, Activations, Functions, nullptr
<1>2. 0 \in 0 .. Size - 1
  OBVIOUS
<1>3. QED
  BY <1>1, <1>2, PlainFields, TokenTyped

(* The same of several plain activations. *)
LEMMA PlainStack ==
  ASSUME IsLine(m_Tokens), Size \in Nat \ {0}, NEW acts, AllPlain(acts)
  PROVE  KeptTokens(acts) /\ LeftIsNull(acts, Len(acts))
BY PlainKept DEF AllPlain, KeptTokens, LeftIsNull

(* Plain activations, and the one that has called them behind them. *)
LEMMA PushedStack ==
  ASSUME IsLine(m_Tokens), Size \in Nat \ {0}, NEW acts, AllPlain(acts), Len(acts) > 0,
         NEW self \in Activations,
         self.token \in 0 .. Size - 1, Token(self.token).type \in Kept(self)
  PROVE  /\ acts \o <<self>> \in Seq(Activations)
         /\ Len(acts \o <<self>>) = Len(acts) + 1 /\ Len(acts) \in Nat
         /\ (acts \o <<self>>)[Len(acts) + 1] = self
         /\ (acts \o <<self>>)[1] = acts[1]
         /\ KeptTokens(acts \o <<self>>)
         /\ LeftIsNull(acts \o <<self>>, Len(acts))
         /\ self.left = nullptr => LeftIsNull(acts \o <<self>>, Len(acts) + 1)
<1> DEFINE new == acts \o <<self>>
<1>1. acts \in Seq(Activations) /\ <<self>> \in Seq(Activations) /\ Len(<<self>>) = 1
  BY DEF AllPlain
<1>2. Len(acts) \in Nat
  BY <1>1, LenProperties
<1>3. /\ new \in Seq(Activations) /\ Len(new) = Len(acts) + 1
      /\ \A i \in 1 .. Len(acts) + 1 :
           new[i] = IF i <= Len(acts) THEN acts[i] ELSE <<self>>[i - Len(acts)]
  BY <1>1, ConcatProperties
<1>4. \A i \in 1 .. Len(acts) : i \in 1 .. Len(acts) + 1 /\ new[i] = acts[i]
  BY <1>2, <1>3
<1>5. new[Len(acts) + 1] = self
  BY <1>2, <1>3
<1>6. 1 \in 1 .. Len(acts) /\ \A i \in 1 .. Len(acts) + 1 : i \in 1 .. Len(acts) \/ i = Len(acts) + 1
  BY <1>2
<1> HIDE DEF new
<1>7. KeptTokens(acts) /\ LeftIsNull(acts, Len(acts))
  BY PlainStack
<1>8. KeptTokens(new)
  BY <1>3, <1>4, <1>5, <1>6, <1>7 DEF KeptTokens
<1>9. LeftIsNull(new, Len(acts))
  BY <1>4, <1>7 DEF LeftIsNull
<1>10. self.left = nullptr => LeftIsNull(new, Len(acts) + 1)
  BY <1>5, <1>6, <1>9 DEF LeftIsNull
<1>11. QED
  BY <1>2, <1>3, <1>4, <1>5, <1>6, <1>8, <1>9, <1>10 DEF new

(* The calls down to factor are plain. *)
LEMMA DescentPlain ==
  ASSUME NEW fn \in Levels \cup {"factor"}
  PROVE  AllPlain(Descent(fn)) /\ Len(Descent(fn)) > 0 /\ Descent(fn)[1].fn = "factor"
<1> DEFINE Good(names) == /\ names \in Seq(Levels \cup {"factor"})
                          /\ Len(names) > 0 /\ names[1] = "factor"
<1>1. ASSUME NEW names, Good(names), Descent(fn) = [i \in DOMAIN names |-> Calling(names[i])]
      PROVE  AllPlain(Descent(fn)) /\ Len(Descent(fn)) > 0 /\ Descent(fn)[1].fn = "factor"
  <2>1. DOMAIN names = 1 .. Len(names) /\ Len(names) \in Nat
    BY <1>1
  <2>2. \A i \in 1 .. Len(names) : names[i] \in Levels \cup {"factor"}
    BY <1>1
  <2>3. \A i \in 1 .. Len(names) : Calling(names[i]) \in Activations
    BY <2>2 DEF Calling, Call, Activations, Functions, nullptr
  <2>4. Descent(fn) \in Seq(Activations) /\ Len(Descent(fn)) = Len(names)
    BY <1>1, <2>1, <2>3
  <2>5. \A i \in 1 .. Len(names) : Descent(fn)[i] = Calling(names[i])
    BY <1>1, <2>1
  <2>6. \A i \in 1 .. Len(names) : Plain(Descent(fn)[i])
    BY <2>2, <2>5 DEF Plain
  <2>7. 1 \in 1 .. Len(names)
    BY <1>1, <2>1
  <2>8. Descent(fn)[1] = Calling("factor")
    BY <1>1, <2>5, <2>7
  <2>9. Descent(fn)[1].fn = "factor"
    BY <2>8 DEF Calling, Call
  <2>10. AllPlain(Descent(fn))
    BY <2>4, <2>6 DEF AllPlain
  <2>11. QED
    BY <1>1, <2>4, <2>9, <2>10
<1>2. CASE fn = "factor"
  <2>1. Good(<<"factor">>)
    OBVIOUS
  <2>2. QED
    BY <1>1, <1>2, <2>1 DEF Descent
<1>3. CASE fn = "term"
  <2>1. Good(<<"factor", "term">>)
    BY DEF Levels
  <2>2. QED
    BY <1>1, <1>3, <2>1 DEF Descent
<1>4. CASE fn = "arith"
  <2>1. Good(<<"factor", "term", "arith">>)
    BY DEF Levels
  <2>2. QED
    BY <1>1, <1>4, <2>1 DEF Descent
<1>5. CASE fn = "comp"
  <2>1. Good(<<"factor", "term", "arith", "comp">>)
    BY DEF Levels
  <2>2. QED
    BY <1>1, <1>5, <2>1 DEF Descent
<1>6. CASE fn = "logic"
  <2>1. Good(<<"factor", "term", "arith", "comp", "logic">>)
    BY DEF Levels
  <2>2. QED
    BY <1>1, <1>6, <2>1 DEF Descent
<1>7. QED
  BY <1>2, <1>3, <1>4, <1>5, <1>6 DEF Levels

-----------------------------------------------------------------------------
(* Steps.                                                                  *)

(* A step that replaces the innermost activation by `new' keeps the         *)
(* invariant, if what it keeps of the tokens is right, if the node it may   *)
(* allocate is well formed, and if no expression begins at a name behind    *)
(* the end of the line.                                                     *)
LEMMA StepKeeps ==
  ASSUME ParserInv, calls # <<>>, m_Tokens' = m_Tokens,
         m_TokenIndex' \in Nat, AtIndex(m_TokenIndex', m_CurrentToken'),
         NEW new \in Seq(Activations), calls' = new \o Tail(calls), KeptTokens(new),
         NEW x, TakenUp(node, calls, ret, node', x), HandedOn(new, ret', x),
         Len(node') = Len(node) + 1 => Made(node', Len(node) + 1),
         parsing = "running", parsing' = "running", error' = error,
         Entered("expression")' /\ Token(m_CurrentToken').type = "ID" => m_TokenIndex' < Size
  PROVE  ParserInv'
<1>1. /\ m_Tokens # <<>> /\ Size \in Nat \ {0} /\ IsLine(m_Tokens)
      /\ node \in Seq(Nodes) /\ calls \in Seq(Activations) /\ ret \in Nat
      /\ Len(node) \in Nat /\ nullptr = 0
  BY CurrentInLine, LenProperties DEF ParserInv, ParserTypeOK, nullptr
<1>2. ret <= Len(node)
  BY <1>1 DEF ParserInv, HeldOnce
<1>3. Before(node, calls)
  BY DEF ParserInv, OperandsBefore
<1>4. /\ Before(node', calls') /\ node' \in Seq(Nodes)
      /\ Len(node') \in {Len(node), Len(node) + 1}
      /\ \A n \in 1 .. Len(node) : node'[n] = node[n]
      /\ x \in 0 .. Len(node') /\ ret' \in 0 .. Len(node')
  BY <1>1, <1>2, <1>3, HandOverBefore
<1>5. /\ calls' \in Seq(Activations)
      /\ Len(calls') = Len(new) + Len(calls) - 1 /\ Len(calls) \in Nat \ {0}
      /\ \A k \in 1 .. Len(new) : calls'[k] = new[k]
      /\ \A k \in Len(new) + 1 .. Len(new) + Len(calls) - 1 :
           calls'[k] = calls[k - Len(new) + 1]
  BY <1>1, NewStack
<1>6. ParserTypeOK'
  <2>1. ret' \in Nat
    BY <1>1, <1>4
  <2>2. error' \in Nat \cup {NoToken} /\ m_Tokens' = m_Tokens /\ IsLine(m_Tokens)
    BY <1>1 DEF ParserInv, ParserTypeOK
  <2>3. IsLine(m_Tokens)'
    BY <2>2
  <2>4. QED
    BY <1>4, <1>5, <2>1, <2>2, <2>3 DEF ParserTypeOK
<1>7. TokensInLine'
  <2>1. Size' = Size /\ \A i : Token(i)' = Token(i)
    BY DEF Size, Token
  <2>2. m_CurrentToken' = IF m_TokenIndex' < Size THEN m_TokenIndex' ELSE Size - 1
    BY DEF AtIndex
  <2>3. CurrentType' = Token(m_CurrentToken').type
    BY <2>1 DEF CurrentType, Token
  <2>4. ASSUME NEW k \in 1 .. Len(calls')
        PROVE  /\ calls'[k].token \in 0 .. Size - 1
               /\ Token(calls'[k].token).type \in Kept(calls'[k])
    <3>1. CASE k \in 1 .. Len(new)
      BY <3>1, <1>5 DEF KeptTokens
    <3>2. CASE k \notin 1 .. Len(new)
      <4>1. Len(new) \in Nat
        BY LenProperties
      <4>2. /\ k \in Len(new) + 1 .. Len(new) + Len(calls) - 1
            /\ k - Len(new) + 1 \in 1 .. Len(calls)
        BY <3>2, <4>1, <1>5
      <4>3. calls'[k] = calls[k - Len(new) + 1]
        BY <4>2, <1>5
      <4>4. \A j \in 1 .. Len(calls) : /\ calls[j].token \in 0 .. Size - 1
                                       /\ Token(calls[j].token).type \in Kept(calls[j])
        BY <1>1 DEF ParserInv, TokensInLine
      <4>5. QED
        BY <4>2, <4>3, <4>4
    <3>3. QED
      BY <3>1, <3>2
  <2>5. \A k \in 1 .. Len(calls') : (Token(calls[k].token).type \in Kept(calls[k]))'
    BY <2>1, <2>4 DEF Kept
  <2>6. QED
    BY <2>1, <2>2, <2>3, <2>4, <2>5 DEF TokensInLine
<1>8. HeldOnce'
  <2>1. \A n : /\ Holders(n) = HoldersIn(node, calls, ret, n)
               /\ Holders(n)' = HoldersIn(node', calls', ret', n)
    BY DEF Holders, HoldersIn
  <2>2. \A n \in 1 .. Len(node) : OneHolder(node, calls, ret, n)
    BY <2>1, OneHolderIsOne DEF ParserInv, HeldOnce
  <2>3. \A n \in 1 .. Len(node') : OneHolder(node', calls', ret', n)
    BY <1>1, <1>2, <1>3, <2>2, HandOverHeld
  <2>4. \A n \in 1 .. Len(node') : \E h \in Holders(n)' : Holders(n)' = {h}
    <3>1. \A n : OneHolder(node', calls', ret', n)
                    => \E h \in HoldersIn(node', calls', ret', n) :
                         HoldersIn(node', calls', ret', n) = {h}
      BY OneHolderIsOne
    <3>2. TAKE n \in 1 .. Len(node')
    <3>3. /\ OneHolder(node', calls', ret', n)
          /\ Holders(n)' = HoldersIn(node', calls', ret', n)
      BY <2>1, <2>3, <3>2
    <3>4. PICK h \in HoldersIn(node', calls', ret', n) : HoldersIn(node', calls', ret', n) = {h}
      BY <3>1, <3>3
    <3>5. h \in Holders(n)' /\ Holders(n)' = {h}
      BY <3>3, <3>4
    <3>6. QED
      BY <3>5
  <2>5. ret' # nullptr => ret' = Len(node')
    <3>1. x # nullptr => x = Len(node')
      <4>1. CASE node' = node /\ x = ret
        BY <4>1 DEF ParserInv, HeldOnce
      <4>2. CASE \E nd \in Nodes : node' = Append(node, nd) /\ x = Len(node) + 1
        BY <4>2, <1>1, AppendProperties
      <4>3. QED
        BY <4>1, <4>2 DEF TakenUp
    <3>2. QED
      BY <3>1 DEF HandedOn
  <2>6. ASSUME NEW n \in 1 .. Len(node')
        PROVE  WellFormed(node', n)
    <3>1. CASE n \in 1 .. Len(node)
      BY <3>1, <1>4 DEF ParserInv, HeldOnce, WellFormed
    <3>2. CASE n \notin 1 .. Len(node)
      <4>1. n = Len(node) + 1 /\ Len(node') = Len(node) + 1
        <5>1. /\ Len(node) \in Nat
              /\ \/ Len(node') = Len(node)
                 \/ Len(node') = Len(node) + 1
          BY <1>1, <1>4
        <5>2. QED
          BY <3>2, <5>1
      <4>2. QED
        BY <4>1 DEF Made
    <3>3. QED
      BY <3>1, <3>2
  <2>7. QED
    BY <2>4, <2>5, <2>6 DEF HeldOnce
<1>9. OperandsBefore' /\ NoLine'
  BY <1>1, <1>4 DEF OperandsBefore, NoLine
<1>10. TreesAdjoin'
  <2>1. Adjoining(node, calls, ret) /\ \A n \in 1 .. Len(node) : WellFormed(node, n)
    BY DEF ParserInv, TreesAdjoin, HeldOnce
  <2>2. Adjoining(node', calls', ret')
    BY <1>1, <1>2, <1>3, <2>1, HandOverAdjoins
  <2>3. QED
    BY <2>2 DEF TreesAdjoin, Adjoining, Ordered, Adjoin, FirstOf, LeftOver
<1>11. QED
  BY <1>6, <1>7, <1>8, <1>9, <1>10 DEF ParserInv

(* An error leaves no activation behind. *)
LEMMA FailKeeps ==
  ASSUME ParserInv, calls # <<>>, m_Tokens' = m_Tokens, node' = node,
         m_TokenIndex' \in Nat, AtIndex(m_TokenIndex', m_CurrentToken'),
         Fail(m_CurrentToken)
  PROVE  ParserInv'
<1>1. /\ m_CurrentToken \in Nat /\ calls' = <<>> /\ ret' = nullptr /\ nullptr = 0
      /\ parsing' = "error" /\ error' = m_CurrentToken
  BY CurrentInLine DEF Fail, nullptr
<1>2. calls' \in Seq(Activations) /\ \A k \in 1 .. Len(calls') : FALSE
  BY <1>1
<1>3. Size' = Size /\ IsLine(m_Tokens)' = IsLine(m_Tokens)
  BY DEF Size
<1>4. ParserTypeOK'
  BY <1>1, <1>2, <1>3 DEF ParserInv, ParserTypeOK
<1>5. TokensInLine'
  BY <1>1, <1>2, <1>3 DEF TokensInLine, AtIndex, Entered
<1>6. HeldOnce'
  BY <1>1 DEF ParserInv, HeldOnce, WellFormed
<1>7. OperandsBefore' /\ NoLine'
  BY <1>1, <1>2 DEF ParserInv, OperandsBefore, Before, NoLine
<1>8. TreesAdjoin'
  BY <1>1 DEF TreesAdjoin
<1>9. QED
  BY <1>4, <1>5, <1>6, <1>7, <1>8 DEF ParserInv

(* Nothing happens to the tokens: the index stays. *)
LEMMA StayAtIndex ==
  ASSUME ParserInv, calls # <<>>, Stay
  PROVE  m_TokenIndex' \in Nat /\ AtIndex(m_TokenIndex', m_CurrentToken')
BY CurrentInLine DEF Stay

(* So is the one behind an advance. *)
LEMMA AdvanceKeeps ==
  ASSUME ParserInv, calls # <<>>, advance
  PROVE  m_TokenIndex' \in Nat /\ AtIndex(m_TokenIndex', m_CurrentToken')
BY CurrentInLine, AdvanceAtIndex DEF advance, NextToken

(* Behind an advance the current token is the same or the one behind it,    *)
(* and it is the same only if the index is past the line.                   *)
LEMMA AdvanceToken ==
  ASSUME ParserInv, calls # <<>>
  PROVE  /\ NextToken \in 0 .. Size - 1
         /\ m_TokenIndex + 1 >= Size => NextToken = m_CurrentToken
         /\ m_TokenIndex + 1 < Size => NextToken = m_TokenIndex + 1
BY CurrentInLine DEF NextToken, CurrentAt

(* The three kinds of steps.  Plain activations take the place of the        *)
(* innermost one, and what was returned before is still returned.           *)
LEMMA PlainStep ==
  ASSUME ParserInv, calls # <<>>, calls[1].fn \notin Levels,
         NEW acts, AllPlain(acts), calls' = acts \o Tail(calls),
         m_TokenIndex' \in Nat, AtIndex(m_TokenIndex', m_CurrentToken'),
         UNCHANGED <<m_Tokens, node, ret, parsing, error>>, parsing = "running",
         ~ Entered("expression")'
  PROVE  ParserInv'
<1>1. /\ Size \in Nat \ {0} /\ IsLine(m_Tokens) /\ 1 \in 1 .. Len(calls)
      /\ node \in Seq(Nodes)
  BY CurrentInLine DEF ParserInv, ParserTypeOK
<1>2. calls[1].left = nullptr
  BY <1>1 DEF ParserInv, OperandsBefore, Before
<1>3. TakenUp(node, calls, ret, node', ret)
  BY <1>2 DEF TakenUp
<1>4. acts \in Seq(Activations) /\ KeptTokens(acts) /\ LeftIsNull(acts, Len(acts))
  BY <1>1, PlainStack DEF AllPlain
<1>5. HandedOn(acts, ret', ret)
  BY <1>4 DEF HandedOn
<1>6. Len(node') # Len(node) + 1
  BY <1>1, LenProperties
<1>7. QED
  BY <1>3, <1>4, <1>5, <1>6, StepKeeps

(* A node is allocated for the innermost activation and returned, to plain   *)
(* ones or to the next one.                                                 *)
LEMMA AllocStep ==
  ASSUME ParserInv, calls # <<>>,
         NEW acts, AllPlain(acts), calls' = acts \o Tail(calls),
         NEW nd \in Nodes, Allocate(nd), nd.left = calls[1].left, nd.right = ret,
         Made(node', Len(node) + 1), ret' = NewNode,
         m_TokenIndex' \in Nat, AtIndex(m_TokenIndex', m_CurrentToken'),
         UNCHANGED <<m_Tokens, parsing, error>>, parsing = "running"
  PROVE  ParserInv'
<1>1. Size \in Nat \ {0} /\ IsLine(m_Tokens) /\ Len(node) \in Nat
  BY CurrentInLine, LenProperties DEF ParserInv, ParserTypeOK
<1>2. TakenUp(node, calls, ret, node', NewNode)
  BY DEF TakenUp, Allocate, NewNode
<1>3. acts \in Seq(Activations) /\ KeptTokens(acts) /\ LeftIsNull(acts, Len(acts))
  BY <1>1, PlainStack DEF AllPlain
<1>4. HandedOn(acts, ret', NewNode)
  BY <1>3 DEF HandedOn
<1>5. ~ Entered("expression")'
  BY <1>1 DEF Entered, NewNode, nullptr
<1>6. QED
  BY <1>2, <1>3, <1>4, <1>5, StepKeeps

(* The innermost activation goes on as `self' and calls others.             *)
LEMMA PushStep ==
  ASSUME ParserInv, calls # <<>>,
         NEW acts, AllPlain(acts), Len(acts) > 0,
         NEW self \in Activations, self.token \in 0 .. Size - 1,
         Token(self.token).type \in Kept(self),
         self.left # nullptr => self.fn \in Levels,
         calls' = acts \o <<self>> \o Tail(calls), ret' = nullptr,
         TakenUp(node, calls, ret, node', self.left),
         Len(node') = Len(node) + 1 => Made(node', Len(node) + 1),
         m_TokenIndex' \in Nat, AtIndex(m_TokenIndex', m_CurrentToken'),
         UNCHANGED <<m_Tokens, parsing, error>>, parsing = "running",
         acts[1].fn = "expression" /\ Token(m_CurrentToken').type = "ID"
           => m_TokenIndex' < Size
  PROVE  ParserInv'
<1> DEFINE new == acts \o <<self>>
<1>1. /\ Size \in Nat \ {0} /\ IsLine(m_Tokens) /\ calls \in Seq(Activations)
  BY CurrentInLine DEF ParserInv, ParserTypeOK
<1>2. /\ new \in Seq(Activations) /\ Len(new) = Len(acts) + 1 /\ Len(acts) \in Nat
      /\ new[Len(acts) + 1] = self /\ new[1] = acts[1]
      /\ KeptTokens(new) /\ LeftIsNull(new, Len(acts))
      /\ self.left = nullptr => LeftIsNull(new, Len(acts) + 1)
  BY <1>1, PushedStack
<1> HIDE DEF new
<1>3. HandedOn(new, ret', self.left)
  <2>1. Len(new) - 1 = Len(acts) /\ Len(new) > 0
    BY <1>2
  <2>2. CASE self.left = nullptr
    BY <2>2, <1>2 DEF HandedOn
  <2>3. CASE self.left # nullptr
    BY <2>1, <2>3, <1>2 DEF HandedOn
  <2>4. QED
    BY <2>2, <2>3
<1>4. Entered("expression")' => acts[1].fn = "expression"
  <2>1. calls'[1] = new[1]
    <3>1. 1 \in 1 .. Len(new)
      BY <1>2
    <3>2. QED
      BY <3>1, <1>1, <1>2, NewStack DEF new
  <2>2. QED
    BY <2>1, <1>2 DEF Entered
<1>5. calls' = new \o Tail(calls)
  BY DEF new
<1>6. QED
  BY <1>2, <1>3, <1>4, <1>5, StepKeeps

(* The activations that are pushed or left by the steps below. *)
LEMMA OnePlain ==
  ASSUME NEW fn \in {"expression", "factor", "callable"}
  PROVE  /\ AllPlain(<<Calling(fn)>>) /\ Len(<<Calling(fn)>>) = 1
         /\ <<Calling(fn)>>[1].fn = fn
<1>1. Calling(fn) \in Activations
  BY DEF Calling, Call, Activations, Functions, nullptr
<1>2. Plain(Calling(fn))
  BY DEF Plain
<1>3. Calling(fn).fn = fn
  BY DEF Calling, Call
<1>4. QED
  BY <1>1, <1>2, <1>3 DEF AllPlain

(* The empty sequence of activations, which a return pushes. *)
LEMMA NonePlain ==
  ASSUME NEW stack \in Seq(Activations), stack # <<>>
  PROVE  AllPlain(<<>>) /\ Tail(stack) = <<>> \o Tail(stack)
BY HeadTailProperties, ConcatEmptySeq, EmptySeq DEF AllPlain

(* What an activation keeps of the current token is of its kind. *)
LEMMA SelfKept ==
  ASSUME ParserInv, calls # <<>>, NEW fn \in {"assign", "unary", "paren"},
         NEW self, self = Call(fn, nullptr, m_CurrentToken),
         /\ fn = "assign" => CurrentType = "ID"
         /\ fn = "unary" => CurrentType \in UnaryOps
         /\ fn = "paren" => CurrentType = "LROUND"
  PROVE  /\ self \in Activations /\ self.left = nullptr
         /\ self.token \in 0 .. Size - 1 /\ Token(self.token).type \in Kept(self)
<1>1. Size \in Nat \ {0} /\ m_CurrentToken \in 0 .. Size - 1 /\ nullptr = 0
  BY CurrentInLine DEF nullptr
<1>2. self.fn = fn /\ self.left = nullptr /\ self.token = m_CurrentToken
  BY DEF Call
<1>3. self \in Activations
  BY <1>1 DEF Call, Activations, Functions
<1>4. Token(self.token).type \in Kept(self)
  BY <1>2, KeptOf DEF CurrentType
<1>5. QED
  BY <1>1, <1>2, <1>3, <1>4

-----------------------------------------------------------------------------
(* The actions.                                                            *)

(* What every action finds. *)
LEMMA Facts ==
  ASSUME ParserInv, calls # <<>>
  PROVE  /\ Size \in Nat \ {0} /\ IsLine(m_Tokens) /\ m_TokenIndex \in Nat
         /\ AtIndex(m_TokenIndex, m_CurrentToken) /\ m_CurrentToken \in 0 .. Size - 1
         /\ calls \in Seq(Activations) /\ 1 \in 1 .. Len(calls) /\ calls[1] \in Activations
         /\ calls[1].left \in 0 .. Len(node)
         /\ calls[1].fn \notin Levels => calls[1].left = nullptr
         /\ calls[1].token \in 0 .. Size - 1 /\ Token(calls[1].token).type \in Kept(calls[1])
         /\ node \in Seq(Nodes) /\ Len(node) \in Nat
         /\ ret \in 0 .. Len(node) /\ (ret # nullptr => ret = Len(node)) /\ nullptr = 0
         /\ NewNode # nullptr
<1>1. /\ m_Tokens # <<>> /\ Size \in Nat \ {0} /\ m_TokenIndex \in Nat
      /\ AtIndex(m_TokenIndex, m_CurrentToken) /\ m_CurrentToken \in 0 .. Size - 1
      /\ 1 \in 1 .. Len(calls) /\ calls[1] \in Activations
  BY CurrentInLine
<1>2. /\ IsLine(m_Tokens) /\ calls \in Seq(Activations) /\ node \in Seq(Nodes) /\ ret \in Nat
      /\ nullptr = 0
  BY DEF ParserInv, ParserTypeOK, nullptr
<1>3. Len(node) \in Nat
  BY <1>2, LenProperties
<1>4. calls[1].left <= Len(node) /\ (calls[1].fn \notin Levels => calls[1].left = nullptr)
  BY <1>1 DEF ParserInv, OperandsBefore, Before
<1>5. calls[1].left \in Nat
  BY <1>1 DEF Activations
<1>6. calls[1].token \in 0 .. Size - 1 /\ Token(calls[1].token).type \in Kept(calls[1])
  BY <1>1 DEF ParserInv, TokensInLine
<1>7. ret # nullptr => ret = Len(node)
  BY DEF ParserInv, HeldOnce
<1>8. QED
  BY <1>1, <1>2, <1>3, <1>4, <1>5, <1>6, <1>7 DEF NewNode

(* What is allocated are nodes. *)
LEMMA NodesMade ==
  /\ \A x \in Names, e \in Nat : AssignNode(x, e) \in Nodes
  /\ \A x \in Names : AccessNode(x) \in Nodes
  /\ \A op \in Tokens, v \in Literals \cup {0} : NumNode(op, v) \in Nodes
  /\ \A op \in Tokens, l \in Nat, e \in Nat : BinOpNode(op, l, e) \in Nodes
  /\ \A op \in Tokens, e \in Nat : UnryOpNode(op, e) \in Nodes
<1>1. nullptr \in Nat /\ "NONE" \in Tokens
  BY DEF nullptr, Tokens
<1>2. \A x \in Names, e \in Nat : AssignNode(x, e) \in Nodes
  BY <1>1 DEF AssignNode, Nodes, NodeTypes
<1>3. \A x \in Names : AccessNode(x) \in Nodes
  BY <1>1 DEF AccessNode, Nodes, NodeTypes
<1>4. \A op \in Tokens, v \in Literals \cup {0} : NumNode(op, v) \in Nodes
  BY <1>1 DEF NumNode, Nodes, NodeTypes
<1>5. \A op \in Tokens, l \in Nat, e \in Nat : BinOpNode(op, l, e) \in Nodes
  BY <1>1 DEF BinOpNode, Nodes, NodeTypes
<1>6. \A op \in Tokens, e \in Nat : UnryOpNode(op, e) \in Nodes
  BY <1>1 DEF UnryOpNode, Nodes, NodeTypes
<1>7. QED
  BY <1>2, <1>3, <1>4, <1>5, <1>6

(* expression() at a name that is assigned. *)
LEMMA BeginAssignKeeps ==
  ASSUME ParserInv, BeginAssign
  PROVE  ParserInv'
<1> DEFINE self == Call("assign", nullptr, m_CurrentToken)
<1>1. /\ parsing = "running" /\ calls # <<>> /\ calls[1].fn = "expression" /\ ret = nullptr
      /\ CurrentType = "ID" /\ Token(NextToken).type = "ASSIGN"
      /\ m_TokenIndex' = m_TokenIndex + 2
      /\ m_CurrentToken' = CurrentAt(m_TokenIndex + 2, NextToken)
      /\ calls' = <<Calling("expression")>> \o <<self>> \o Tail(calls)
      /\ ret' = nullptr /\ m_Tokens' = m_Tokens /\ node' = node
      /\ UNCHANGED <<m_Tokens, parsing, error>>
  BY DEF BeginAssign, Entered, Follows, Push
<1>2. m_TokenIndex + 1 < Size /\ NextToken = m_TokenIndex + 1
  BY <1>1, Facts, AdvanceToken, SMTT(30) DEF CurrentType
<1>3. m_TokenIndex' \in Nat /\ AtIndex(m_TokenIndex', m_CurrentToken')
  <2>1. m_TokenIndex \in Nat /\ Size \in Nat \ {0} /\ m_TokenIndex + 1 \in Nat
    BY <1>1, Facts
  <2>2. AtIndex(m_TokenIndex + 1, NextToken)
    BY <1>2 DEF AtIndex
  <2>3. AtIndex((m_TokenIndex + 1) + 1, CurrentAt((m_TokenIndex + 1) + 1, NextToken))
    BY <2>1, <2>2, AdvanceAtIndex
  <2>4. (m_TokenIndex + 1) + 1 = m_TokenIndex + 2
    BY <2>1
  <2>5. QED
    BY <2>1, <2>3, <2>4, <1>1
<1>4. Token(m_CurrentToken').type = "ID" => m_TokenIndex' < Size
  <2>1. m_TokenIndex + 2 >= Size => m_CurrentToken' = NextToken
    BY <1>1, Facts DEF CurrentAt
  <2>2. QED
    BY <2>1, <1>1, Facts
<1>5. /\ self \in Activations /\ self.left = nullptr
      /\ self.token \in 0 .. Size - 1 /\ Token(self.token).type \in Kept(self)
  BY <1>1, SelfKept
<1> HIDE DEF self
<1>6. TakenUp(node, calls, ret, node', self.left)
  BY <1>1, <1>5, Facts DEF TakenUp, Levels
<1>7. Len(node') # Len(node) + 1
  BY <1>1, Facts
<1>8. AllPlain(<<Calling("expression")>>) /\ Len(<<Calling("expression")>>) > 0
  BY OnePlain
<1>9. QED
  BY <1>1, <1>3, <1>4, <1>5, <1>6, <1>7, <1>8, PushStep

(* expression() behind the assigned expression. *)
LEMMA EndAssignKeeps ==
  ASSUME ParserInv, EndAssign
  PROVE  ParserInv'
<1> DEFINE nd == AssignNode(Token(calls[1].token).name, ret)
<1>1. /\ parsing = "running" /\ calls # <<>> /\ calls[1].fn = "assign" /\ ret # nullptr
      /\ Allocate(nd) /\ node' = Append(node, nd)
      /\ calls' = Tail(calls) /\ ret' = NewNode
      /\ UNCHANGED <<m_Tokens, parsing, error>> /\ Stay
  BY DEF EndAssign, Resumed, Allocate, Return
<1>2. Token(calls[1].token).name \in Names
  BY <1>1, Facts, KeptOf, TokenTyped
<1>3. /\ nd \in Nodes /\ nd.left = nullptr /\ nd.right = ret
      /\ nd.type = "ASSIGN" /\ nd.name \in Names
  BY <1>1, <1>2, Facts, NodesMade DEF AssignNode
<1> HIDE DEF nd
<1>4. Made(node', Len(node) + 1)
  <2>1. node'[Len(node) + 1] = nd
    BY <1>1, <1>3, Facts, AppendProperties
  <2>2. ret \in 1 .. (Len(node) + 1) - 1
    BY <1>1, Facts
  <2>3. QED
    BY <2>1, <2>2, <1>3 DEF Made, WellFormed, FieldsByType
<1>5. AllPlain(<<>>) /\ calls' = <<>> \o Tail(calls)
  BY <1>1, Facts, NonePlain
<1>6. nd.left = calls[1].left
  BY <1>1, <1>3, Facts DEF Levels
<1>7. QED
  BY <1>1, <1>3, <1>4, <1>5, <1>6, StayAtIndex, AllocStep

(* expression() at another name: retreat finds the name again, since an     *)
(* expression at a name begins within the line.                             *)
LEMMA RetreatToNameKeeps ==
  ASSUME ParserInv, RetreatToName
  PROVE  ParserInv'
<1>1. /\ parsing = "running" /\ calls # <<>> /\ calls[1].fn = "expression"
      /\ CurrentType = "ID" /\ Entered("expression")
      /\ m_CurrentToken' = m_TokenIndex /\ m_TokenIndex' = m_TokenIndex
      /\ calls' = Descent("logic") \o Tail(calls)
      /\ UNCHANGED <<m_Tokens, node, ret, parsing, error>>
  BY DEF RetreatToName, Entered
<1>2. m_TokenIndex < Size
  BY <1>1, CurrentInLine DEF ParserInv, TokensInLine
<1>3. m_TokenIndex' \in Nat /\ AtIndex(m_TokenIndex', m_CurrentToken')
  BY <1>1, <1>2, Facts DEF AtIndex
<1>4. AllPlain(Descent("logic")) /\ Len(Descent("logic")) > 0 /\ Descent("logic")[1].fn = "factor"
  BY DescentPlain DEF Levels
<1>5. calls'[1] = Descent("logic")[1]
  <2>1. Descent("logic") \in Seq(Activations) /\ 1 \in 1 .. Len(Descent("logic"))
    BY <1>4, LenProperties DEF AllPlain
  <2>2. QED
    BY <1>1, <2>1, Facts, NewStack
<1>6. QED
  BY <1>1, <1>3, <1>4, <1>5, PlainStep DEF Levels, Entered

(* expression() at anything else. *)
LEMMA BeginExpressionKeeps ==
  ASSUME ParserInv, BeginExpression
  PROVE  ParserInv'
<1>1. /\ parsing = "running" /\ calls # <<>> /\ calls[1].fn = "expression"
      /\ calls' = Descent("logic") \o Tail(calls) /\ Stay
      /\ UNCHANGED <<m_Tokens, node, ret, parsing, error>>
  BY DEF BeginExpression, Entered
<1>2. AllPlain(Descent("logic")) /\ Len(Descent("logic")) > 0 /\ Descent("logic")[1].fn = "factor"
  BY DescentPlain DEF Levels
<1>3. calls'[1] = Descent("logic")[1]
  <2>1. Descent("logic") \in Seq(Activations) /\ 1 \in 1 .. Len(Descent("logic"))
    BY <1>2, LenProperties DEF AllPlain
  <2>2. QED
    BY <1>1, <2>1, Facts, NewStack
<1>4. QED
  BY <1>1, <1>2, <1>3, StayAtIndex, PlainStep DEF Levels, Entered

(* The operand of a level is taken up: as it is, or by an operator.         *)
LEMMA JoinedTakesUp ==
  ASSUME ParserInv, NEW level \in Levels, Resumed(level)
  PROVE  /\ TakenUp(node, calls, ret, Joined.nodes, Joined.left)
         /\ Joined.left \in 1 .. Len(Joined.nodes)
         /\ Len(Joined.nodes) = Len(node) + 1 => Made(Joined.nodes, Len(node) + 1)
<1>1. calls # <<>> /\ calls[1].fn = level /\ ret # nullptr
  BY DEF Resumed
<1>2. ret \in 1 .. Len(node)
  BY <1>1, Facts
<1>3. CASE calls[1].left = nullptr
  <2>1. Joined.nodes = node /\ Joined.left = ret
    BY <1>3 DEF Joined
  <2>2. QED
    BY <2>1, <1>1, <1>2, <1>3, Facts DEF TakenUp
<1>4. CASE calls[1].left # nullptr
  <2> DEFINE op == Token(calls[1].token).type
             nd == BinOpNode(op, calls[1].left, ret)
  <2>1. Joined.nodes = Append(node, nd) /\ Joined.left = NewNode
    BY <1>4 DEF Joined
  <2>2. op \in ArithOps \cup LogicOps \cup CmpOps /\ op \in Tokens
    <3>1. op \in Ops[level]
      BY <1>1, <1>4, Facts, KeptOf
    <3>2. Ops[level] \subseteq ArithOps \cup LogicOps \cup CmpOps
      BY DEF Ops, Levels, ArithOps
    <3>3. QED
      BY <3>1, <3>2 DEF Tokens
  <2>3. calls[1].left \in 1 .. Len(node)
    BY <1>1, <1>4, Facts
  <2>4. /\ nd \in Nodes /\ nd.left = calls[1].left /\ nd.right = ret
        /\ nd.type = "BINOP" /\ nd.op = op
    <3>1. nd \in Nodes
      BY <1>1, <1>2, <2>2, <2>3, Facts, NodesMade
    <3>2. QED
      BY <3>1 DEF BinOpNode
  <2> HIDE DEF nd, op
  <2>5. TakenUp(node, calls, ret, Joined.nodes, Joined.left)
    BY <2>1, <2>4 DEF TakenUp, NewNode
  <2>6. Joined.nodes[Len(node) + 1] = nd /\ Len(Joined.nodes) = Len(node) + 1
    BY <1>1, <2>1, <2>4, Facts, AppendProperties
  <2>7. calls[1].left \in 1 .. (Len(node) + 1) - 1 /\ ret \in 1 .. (Len(node) + 1) - 1
    BY <1>1, <1>2, <2>3, Facts
  <2>8. Made(Joined.nodes, Len(node) + 1)
    BY <2>2, <2>4, <2>6, <2>7 DEF Made, WellFormed, FieldsByType
  <2>9. Joined.left \in 1 .. Len(Joined.nodes)
    BY <1>1, <2>1, <2>6, Facts DEF NewNode
  <2>10. QED
    BY <2>5, <2>8, <2>9
<1>5. QED
  BY <1>3, <1>4

(* binop_expression() at another operator of its level. *)
LEMMA MoreOperandsKeeps ==
  ASSUME ParserInv, NEW level \in Levels, MoreOperands(level)
  PROVE  ParserInv'
<1> DEFINE self == Call(level, Joined.left, m_CurrentToken)
           acts == Descent(Operand[level])
<1>1. /\ parsing = "running" /\ calls # <<>> /\ Resumed(level) /\ ret # nullptr
      /\ CurrentType \in Ops[level] /\ advance /\ node' = Joined.nodes
      /\ calls' = acts \o <<self>> \o Tail(calls)
      /\ ret' = nullptr /\ UNCHANGED <<m_Tokens, parsing, error>>
  BY DEF MoreOperands, Resumed, Push
<1>2. Operand[level] \in Levels \cup {"factor"}
  BY DEF Operand, Levels
<1>3. AllPlain(acts) /\ Len(acts) > 0 /\ acts[1].fn = "factor"
  BY <1>2, DescentPlain
<1>4. /\ TakenUp(node, calls, ret, node', Joined.left)
      /\ Joined.left \in 1 .. Len(node')
      /\ Len(node') = Len(node) + 1 => Made(node', Len(node) + 1)
  BY <1>1, JoinedTakesUp
<1>5. self.fn = level /\ self.left = Joined.left /\ self.token = m_CurrentToken
  BY DEF Call
<1>6. self.left \in Nat /\ self.left # nullptr
  BY <1>4, <1>5 DEF nullptr
<1>7. self \in Activations
  BY <1>1, <1>4, Facts DEF Call, Activations, Functions
<1>8. self.token \in 0 .. Size - 1 /\ Token(self.token).type \in Kept(self)
  BY <1>1, <1>5, <1>6, Facts, KeptOf DEF CurrentType
<1> HIDE DEF self, acts
<1>9. TakenUp(node, calls, ret, node', self.left)
  BY <1>4, <1>5
<1>10. m_TokenIndex' \in Nat /\ AtIndex(m_TokenIndex', m_CurrentToken')
  BY <1>1, AdvanceKeeps
<1>11. QED
  BY <1>1, <1>3, <1>4, <1>5, <1>7, <1>8, <1>9, <1>10, PushStep

(* binop_expression() at the end of its level. *)
LEMMA LastOperandKeeps ==
  ASSUME ParserInv, NEW level \in Levels, LastOperand(level)
  PROVE  ParserInv'
<1>1. /\ parsing = "running" /\ calls # <<>> /\ Resumed(level)
      /\ node' = Joined.nodes /\ calls' = Tail(calls) /\ ret' = Joined.left /\ Stay
      /\ UNCHANGED <<m_Tokens, parsing, error>>
  BY DEF LastOperand, Resumed, Return
<1>2. /\ TakenUp(node, calls, ret, node', Joined.left)
      /\ Joined.left \in 1 .. Len(node')
      /\ Len(node') = Len(node) + 1 => Made(node', Len(node) + 1)
  BY <1>1, JoinedTakesUp
<1>3. AllPlain(<<>>) /\ calls' = <<>> \o Tail(calls)
  BY <1>1, Facts, NonePlain
<1>4. <<>> \in Seq(Activations) /\ KeptTokens(<<>>) /\ LeftIsNull(<<>>, Len(<<>>))
  BY <1>1, <1>3, Facts, PlainStack DEF AllPlain
<1>5. HandedOn(<<>>, ret', Joined.left)
  BY <1>1, <1>4 DEF HandedOn
<1>6. ~ Entered("expression")'
  BY <1>1, <1>2 DEF Entered, nullptr
<1>7. QED
  BY <1>1, <1>2, <1>3, <1>4, <1>5, <1>6, StayAtIndex, StepKeeps

(* factor() at '!' or '-'. *)
LEMMA BeginUnaryKeeps ==
  ASSUME ParserInv, BeginUnary
  PROVE  ParserInv'
<1> DEFINE self == Call("unary", nullptr, m_CurrentToken)
<1>1. /\ parsing = "running" /\ calls # <<>> /\ calls[1].fn = "factor" /\ ret = nullptr
      /\ CurrentType \in UnaryOps /\ advance
      /\ m_Tokens' = m_Tokens /\ node' = node
      /\ IF m_TokenIndex + 1 >= Size
           THEN Fail(m_CurrentToken)
           ELSE Push(<<Calling("factor")>>, self)
  BY DEF BeginUnary, Entered
<1>2. m_TokenIndex' \in Nat /\ AtIndex(m_TokenIndex', m_CurrentToken')
  BY <1>1, AdvanceKeeps
<1>3. CASE m_TokenIndex + 1 >= Size
  BY <1>1, <1>2, <1>3, FailKeeps
<1>4. CASE ~ (m_TokenIndex + 1 >= Size)
  <2>1. /\ calls' = <<Calling("factor")>> \o <<self>> \o Tail(calls)
        /\ ret' = nullptr /\ UNCHANGED <<m_Tokens, parsing, error>>
    BY <1>1, <1>4 DEF Push
  <2>2. /\ self \in Activations /\ self.left = nullptr
        /\ self.token \in 0 .. Size - 1 /\ Token(self.token).type \in Kept(self)
    BY <1>1, SelfKept
  <2> HIDE DEF self
  <2>3. TakenUp(node, calls, ret, node', self.left)
    BY <1>1, <2>2, Facts DEF TakenUp, Levels
  <2>4. Len(node') # Len(node) + 1
    BY <1>1, Facts
  <2>5. /\ AllPlain(<<Calling("factor")>>) /\ Len(<<Calling("factor")>>) > 0
        /\ <<Calling("factor")>>[1].fn # "expression"
    BY OnePlain
  <2>6. QED
    BY <1>1, <1>2, <2>1, <2>2, <2>3, <2>4, <2>5, PushStep
<1>5. QED
  BY <1>3, <1>4

(* factor() behind the operand of '!' or '-'. *)
LEMMA EndUnaryKeeps ==
  ASSUME ParserInv, EndUnary
  PROVE  ParserInv'
<1> DEFINE op == Token(calls[1].token).type
           nd == UnryOpNode(op, ret)
<1>1. /\ parsing = "running" /\ calls # <<>> /\ calls[1].fn = "unary" /\ ret # nullptr
      /\ Allocate(nd) /\ node' = Append(node, nd)
      /\ calls' = Tail(calls) /\ ret' = NewNode
      /\ UNCHANGED <<m_Tokens, parsing, error>> /\ Stay
  BY DEF EndUnary, Resumed, Allocate, Return
<1>2. op \in UnaryOps /\ op \in Tokens
  BY <1>1, Facts, KeptOf DEF Tokens
<1>3. /\ nd \in Nodes /\ nd.left = nullptr /\ nd.right = ret
      /\ nd.type = "UNRYOP" /\ nd.op = op
  <2>1. nd \in Nodes
    BY <1>1, <1>2, Facts, NodesMade
  <2>2. QED
    BY <2>1 DEF UnryOpNode
<1> HIDE DEF nd, op
<1>4. Made(node', Len(node) + 1)
  <2>1. node'[Len(node) + 1] = nd
    BY <1>1, <1>3, Facts, AppendProperties
  <2>2. ret \in 1 .. (Len(node) + 1) - 1
    BY <1>1, Facts
  <2>3. QED
    BY <2>1, <2>2, <1>2, <1>3 DEF Made, WellFormed, FieldsByType
<1>5. AllPlain(<<>>) /\ calls' = <<>> \o Tail(calls)
  BY <1>1, Facts, NonePlain
<1>6. nd.left = calls[1].left
  BY <1>1, <1>3, Facts DEF Levels
<1>7. QED
  BY <1>1, <1>3, <1>4, <1>5, <1>6, StayAtIndex, AllocStep

(* atom() at a number or a name. *)
LEMMA AtomKeeps ==
  ASSUME ParserInv, Atom
  PROVE  ParserInv'
<1> DEFINE t  == Token(m_CurrentToken)
           nd == AtomNode(t)
<1>1. /\ parsing = "running" /\ calls # <<>> /\ calls[1].fn = "factor" /\ ret = nullptr
      /\ t.type \in NumberTokens \cup {"ID"} /\ advance
      /\ Allocate(nd) /\ node' = Append(node, nd) /\ ret' = NewNode
      /\ calls' = <<Calling("callable")>> \o Tail(calls)
      /\ UNCHANGED <<m_Tokens, parsing, error>>
  BY DEF Atom, Entered, CurrentType, Allocate
<1>2. t \in TokenRecords /\ (t.type = "ID" => t.name \in Names)
  BY <1>1, Facts, TokenTyped
<1>3. /\ nd \in Nodes /\ nd.left = nullptr /\ nd.right = nullptr
      /\ \/ nd.type = "NUM" /\ nd.op \in NumberTokens
         \/ nd.type = "ACCESS" /\ nd.name \in Names
  <2>1. CASE t.type = "ID"
    <3>1. nd = AccessNode(t.name) /\ t.name \in Names
      BY <1>2, <2>1 DEF AtomNode
    <3>2. nd \in Nodes
      BY <3>1, NodesMade
    <3>3. QED
      BY <3>1, <3>2 DEF AccessNode
  <2>2. CASE t.type # "ID"
    <3>1. nd = NumNode(t.type, t.num) /\ t.type \in NumberTokens /\ t.num \in Literals \cup {0}
      BY <1>1, <1>2, <2>2 DEF AtomNode, TokenRecords
    <3>2. t.type \in Tokens
      BY <3>1 DEF Tokens
    <3>3. nd \in Nodes
      BY <3>1, <3>2, NodesMade
    <3>4. nd.type = "NUM" /\ nd.op = t.type /\ nd.left = nullptr /\ nd.right = nullptr
      <4>1. \A op, v : /\ NumNode(op, v).type = "NUM" /\ NumNode(op, v).op = op
                       /\ NumNode(op, v).left = nullptr /\ NumNode(op, v).right = nullptr
        BY DEF NumNode
      <4> HIDE DEF nd, t
      <4>2. QED
        BY <3>1, <4>1
    <3>5. nd.op \in NumberTokens
      BY <3>1, <3>4
    <3>6. QED
      BY <3>3, <3>4, <3>5
  <2>3. QED
    BY <2>1, <2>2
<1> HIDE DEF nd, t
<1>4. Made(node', Len(node) + 1)
  <2>1. node'[Len(node) + 1] = nd
    BY <1>1, <1>3, Facts, AppendProperties
  <2>2. QED
    BY <2>1, <1>3 DEF Made, WellFormed, FieldsByType
<1>5. nd.left = calls[1].left /\ nd.right = ret
  BY <1>1, <1>3, Facts DEF Levels
<1>6. AllPlain(<<Calling("callable")>>)
  BY OnePlain
<1>7. QED
  BY <1>1, <1>3, <1>4, <1>5, <1>6, AdvanceKeeps, AllocStep

(* atom() at '(': the expression behind it does not begin past the end, or  *)
(* begins at the '(' once more.                                             *)
LEMMA OpenParenKeeps ==
  ASSUME ParserInv, OpenParen
  PROVE  ParserInv'
<1> DEFINE self == Call("paren", nullptr, m_CurrentToken)
<1>1. /\ parsing = "running" /\ calls # <<>> /\ calls[1].fn = "factor" /\ ret = nullptr
      /\ CurrentType = "LROUND" /\ advance
      /\ m_TokenIndex' = m_TokenIndex + 1 /\ m_CurrentToken' = NextToken
      /\ calls' = <<Calling("expression")>> \o <<self>> \o Tail(calls)
      /\ ret' = nullptr /\ m_Tokens' = m_Tokens /\ node' = node
      /\ UNCHANGED <<m_Tokens, parsing, error>>
  BY DEF OpenParen, Entered, advance, Push
<1>2. /\ self \in Activations /\ self.left = nullptr
      /\ self.token \in 0 .. Size - 1 /\ Token(self.token).type \in Kept(self)
  BY <1>1, SelfKept
<1> HIDE DEF self
<1>3. TakenUp(node, calls, ret, node', self.left)
  BY <1>1, <1>2, Facts DEF TakenUp, Levels
<1>4. Len(node') # Len(node) + 1
  BY <1>1, Facts
<1>5. AllPlain(<<Calling("expression")>>) /\ Len(<<Calling("expression")>>) > 0
  BY OnePlain
<1>6. Token(m_CurrentToken').type = "ID" => m_TokenIndex' < Size
  <2>1. m_TokenIndex + 1 >= Size => Token(m_CurrentToken').type = "LROUND"
    BY <1>1, AdvanceToken DEF CurrentType
  <2>2. QED
    BY <2>1, <1>1, Facts
<1>7. QED
  BY <1>1, <1>2, <1>3, <1>4, <1>5, <1>6, AdvanceKeeps, PushStep

(* atom() at the ')'. *)
LEMMA CloseParenKeeps ==
  ASSUME ParserInv, CloseParen
  PROVE  ParserInv'
<1>1. /\ parsing = "running" /\ calls # <<>> /\ calls[1].fn = "paren" /\ ret # nullptr
      /\ advance /\ calls' = <<Calling("callable")>> \o Tail(calls)
      /\ UNCHANGED <<m_Tokens, node, ret, parsing, error>>
  BY DEF CloseParen, Resumed
<1>2. AllPlain(<<Calling("callable")>>)
  BY OnePlain
<1>3. ~ Entered("expression")'
  BY <1>1 DEF Entered, nullptr
<1>4. QED
  BY <1>1, <1>2, <1>3, AdvanceKeeps, PlainStep DEF Levels

(* wrap_callable() where no call is made. *)
LEMMA WrapCallableKeeps ==
  ASSUME ParserInv, WrapCallable
  PROVE  ParserInv'
<1>1. /\ parsing = "running" /\ calls # <<>> /\ calls[1].fn = "callable" /\ ret # nullptr
      /\ Stay /\ m_Tokens' = m_Tokens /\ node' = node
  BY DEF WrapCallable, Resumed
<1>2. CASE CurrentType = "LROUND"
  <2>1. /\ parsing' = "exit"
        /\ UNCHANGED <<m_Tokens, m_TokenIndex, m_CurrentToken, node, calls, ret, error>>
    BY <1>1, <1>2 DEF WrapCallable, Stay
  <2>2. ParserTypeOK'
    BY <2>1 DEF ParserInv, ParserTypeOK, IsLine
  <2>3. TokensInLine'
    BY <2>1 DEF ParserInv, TokensInLine, Entered, Size, Token, Kept
  <2>4. HeldOnce'
    BY <2>1 DEF ParserInv, HeldOnce, WellFormed
  <2>5. OperandsBefore' /\ NoLine'
    BY <2>1 DEF ParserInv, OperandsBefore, Before, NoLine
  <2>6. TreesAdjoin'
    BY <2>1 DEF TreesAdjoin
  <2>7. QED
    BY <2>2, <2>3, <2>4, <2>5, <2>6 DEF ParserInv
<1>3. CASE CurrentType # "LROUND"
  <2>1. /\ calls' = Tail(calls) /\ ret' = ret /\ UNCHANGED <<parsing, error>>
    BY <1>3 DEF WrapCallable, Return
  <2>2. AllPlain(<<>>) /\ calls' = <<>> \o Tail(calls)
    BY <1>1, <2>1, Facts, NonePlain
  <2>3. ~ Entered("expression")'
    BY <1>1, <2>1 DEF Entered, nullptr
  <2>4. QED
    BY <1>1, <2>1, <2>2, <2>3, StayAtIndex, PlainStep DEF Levels
<1>4. QED
  BY <1>2, <1>3

(* The end of the parsing, one way or another, changes nothing else. *)
LEMMA EndKeeps ==
  ASSUME ParserInv, parsing' \in {"ok", "segfault"}, parsing = "running",
         UNCHANGED <<m_Tokens, m_TokenIndex, m_CurrentToken, node, calls, ret, error>>
  PROVE  ParserInv'
<1>1. ParserTypeOK'
  BY DEF ParserInv, ParserTypeOK, IsLine
<1>2. TokensInLine'
  BY DEF ParserInv, TokensInLine, Entered, Size, Token, Kept
<1>3. HeldOnce'
  <2>1. \A n : Holders(n)' = Holders(n)
    BY DEF Holders
  <2>2. QED
    BY <2>1 DEF ParserInv, HeldOnce, WellFormed
<1>4. OperandsBefore' /\ NoLine'
  BY DEF ParserInv, OperandsBefore, Before, NoLine
<1>5. TreesAdjoin'
  <2>1. Adjoining(node', calls', ret')
    BY DEF ParserInv, TreesAdjoin
  <2>2. QED
    BY <2>1 DEF TreesAdjoin, Adjoining, Ordered, Adjoin, FirstOf, LeftOver
<1>6. QED
  BY <1>1, <1>2, <1>3, <1>4, <1>5 DEF ParserInv

(* So every step of the parser keeps the invariant. *)
LEMMA ParserStep ==
  ASSUME ParserInv, ParserNext
  PROVE  ParserInv'
<1>1. CASE Overflow
  BY <1>1, EndKeeps DEF Overflow
<1>2. CASE Parse
  <2>1. CASE Accept
    BY <2>1, EndKeeps DEF Accept
  <2>2. CASE \E level \in Levels : MoreOperands(level) \/ LastOperand(level)
    BY <2>2, MoreOperandsKeeps, LastOperandKeeps
  <2>3. CASE MissingParen
    BY <2>3, StayAtIndex, FailKeeps DEF MissingParen, Resumed
  <2>4. CASE NoAtom
    BY <2>4, StayAtIndex, FailKeeps DEF NoAtom, Entered
  <2>5. QED
    BY <1>2, <2>1, <2>2, <2>3, <2>4, BeginAssignKeeps, EndAssignKeeps, RetreatToNameKeeps,
       BeginExpressionKeeps, BeginUnaryKeeps, EndUnaryKeeps, AtomKeeps, OpenParenKeeps,
       CloseParenKeeps, WrapCallableKeeps DEF Parse
<1>3. QED
  BY <1>1, <1>2 DEF ParserNext

(* So does whatever leaves the parser alone. *)
LEMMA ParserStutter ==
  ASSUME ParserInv, UNCHANGED parserVars
  PROVE  ParserInv'
<1>1. UNCHANGED <<m_Tokens, m_TokenIndex, m_CurrentToken, node, calls, ret, parsing, error>>
  BY DEF parserVars
<1>2. ParserTypeOK'
  BY <1>1 DEF ParserInv, ParserTypeOK, IsLine
<1>3. TokensInLine'
  BY <1>1 DEF ParserInv, TokensInLine, Entered, CurrentType, Size, Token, Kept
<1>4. HeldOnce'
  <2>1. \A n : Holders(n)' = Holders(n)
    BY <1>1 DEF Holders
  <2>2. QED
    BY <1>1, <2>1 DEF ParserInv, HeldOnce, WellFormed
<1>5. OperandsBefore' /\ NoLine'
  BY <1>1 DEF ParserInv, OperandsBefore, Before, NoLine
<1>6. TreesAdjoin'
  <2>1. parsing' \in {"running", "ok"} => Adjoining(node', calls', ret')
    BY <1>1 DEF ParserInv, TreesAdjoin
  <2>2. QED
    BY <2>1 DEF TreesAdjoin, Adjoining, Ordered, Adjoin, FirstOf, LeftOver
<1>7. QED
  BY <1>2, <1>3, <1>4, <1>5, <1>6 DEF ParserInv

(* Without nodes there is nothing to adjoin. *)
LEMMA NothingAdjoins ==
  ASSUME NEW nodes, Len(nodes) = 0, NEW stack \in Seq(Activations),
         \A k \in 1 .. Len(stack) : stack[k].left = nullptr
  PROVE  Adjoining(nodes, stack, nullptr)
<1>. DEFINE z == [i \in Nat |-> 0]
<1>1. z \in [Nat -> Nat] /\ \A i \in Nat : z[i] = 0
  OBVIOUS
<1>. HIDE DEF z
<1>2. Len(stack) \in Nat
  BY LenProperties
<1>3. Ordered(nodes, z) /\ Adjoin(nodes, stack, nullptr, z, z)
  BY <1>1, <1>2 DEF Ordered, Adjoin, LeftOver
<1>4. QED
  BY <1>1, <1>3 DEF Adjoining

(* load_tokens sets it up again, whatever the line before has left behind.  *)
LEMMA LoadKeeps ==
  ASSUME ParserInv, NEW tokens, IsLine(tokens), Load(tokens)
  PROVE  ParserInv'
<1>1. /\ m_Tokens' = tokens /\ m_TokenIndex' = 0 /\ node' = <<>> /\ ret' = nullptr
      /\ m_CurrentToken' = IF tokens = <<>> THEN m_CurrentToken ELSE 0
      /\ calls' = IF tokens = <<>> THEN <<>> ELSE <<Calling("expression")>>
      /\ parsing' = "running" /\ error' = error /\ nullptr = 0
  BY DEF Load, nullptr
<1>2. calls' \in Seq(Activations) /\ \A k \in 1 .. Len(calls') : Plain(calls'[k])
  <2>1. AllPlain(<<Calling("expression")>>)
    BY OnePlain
  <2>2. CASE tokens = <<>>
    BY <1>1, <2>2
  <2>3. CASE tokens # <<>>
    BY <1>1, <2>1, <2>3 DEF AllPlain
  <2>4. QED
    BY <2>2, <2>3
<1>3. node' \in Seq(Nodes) /\ Len(node') = 0
  BY <1>1
<1>4. ParserTypeOK'
  BY <1>1, <1>2, <1>3 DEF ParserInv, ParserTypeOK, IsLine
<1>5. TokensInLine'
  <2>1. SUFFICES ASSUME tokens # <<>>
                 PROVE  TokensInLine'
    BY <1>1 DEF TokensInLine
  <2>2. Size' \in Nat \ {0} /\ Size' = Len(tokens)
    BY <1>1, <2>1, EmptySeq DEF Size, IsLine
  <2>3. \A k \in 1 .. Len(calls') : /\ calls'[k].token = 0
                                    /\ Kept(calls'[k]) = TokenTypes
    BY <1>2, PlainFields
  <2>4. Token(0)'.type \in TokenTypes
    <3>1. 1 \in 1 .. Len(tokens)
      BY <2>2
    <3>2. tokens[1] \in TokenRecords
      BY <3>1, ElementOfSeq DEF IsLine
    <3>3. Token(0)' = tokens[1]
      BY <1>1 DEF Token
    <3>4. QED
      BY <3>2, <3>3 DEF TokenRecords
  <2>5. m_CurrentToken' = IF m_TokenIndex' < Size' THEN m_TokenIndex' ELSE Size' - 1
    BY <1>1, <2>1, <2>2
  <2>6. 0 \in 0 .. Size' - 1 /\ m_TokenIndex' < Size'
    BY <1>1, <2>2
  <2>7. \A k \in 1 .. Len(calls') :
          /\ calls'[k].token \in 0 .. Size' - 1
          /\ (Token(calls[k].token).type)' \in Kept(calls[k])'
    BY <2>3, <2>4, <2>6 DEF Kept, Token
  <2>8. QED
    BY <2>5, <2>6, <2>7 DEF TokensInLine
<1>6. HeldOnce'
  BY <1>1, <1>3 DEF HeldOnce
<1>7. OperandsBefore' /\ NoLine'
  <2>1. \A k \in 1 .. Len(calls') : calls'[k].left = nullptr
    BY <1>2, PlainFields
  <2>2. QED
    BY <2>1, <1>1, <1>3 DEF OperandsBefore, Before, NoLine
<1>8. TreesAdjoin'
  <2>1. \A k \in 1 .. Len(calls') : calls'[k].left = nullptr
    BY <1>2, PlainFields
  <2>2. Adjoining(node', calls', ret')
    BY <1>1, <1>2, <1>3, <2>1, NothingAdjoins
  <2>3. QED
    BY <2>2 DEF TreesAdjoin, Adjoining, Ordered, Adjoin, FirstOf, LeftOver
<1>9. QED
  BY <1>4, <1>5, <1>6, <1>7, <1>8 DEF ParserInv

(* And so it is at the beginning. *)
LEMMA ParserBegins ==
  ASSUME ParserInit
  PROVE  ParserInv
<1>1. /\ IsLine(m_Tokens) /\ m_TokenIndex = 0 /\ node = <<>> /\ ret = nullptr
      /\ m_CurrentToken = IF m_Tokens = <<>> THEN NoToken ELSE 0
      /\ calls = IF m_Tokens = <<>> THEN <<>> ELSE <<Calling("expression")>>
      /\ parsing = "running" /\ error = NoToken /\ nullptr = 0
  BY LinesAssumption DEF ParserInit, nullptr
<1>2. calls \in Seq(Activations) /\ \A k \in 1 .. Len(calls) : Plain(calls[k])
  <2>1. AllPlain(<<Calling("expression")>>)
    BY OnePlain
  <2>2. CASE m_Tokens = <<>>
    BY <1>1, <2>2
  <2>3. CASE m_Tokens # <<>>
    BY <1>1, <2>1, <2>3 DEF AllPlain
  <2>4. QED
    BY <2>2, <2>3
<1>3. node \in Seq(Nodes) /\ Len(node) = 0
  BY <1>1
<1>4. ParserTypeOK
  BY <1>1, <1>2, <1>3 DEF ParserTypeOK
<1>5. TokensInLine
  <2>1. SUFFICES ASSUME m_Tokens # <<>>
                 PROVE  TokensInLine
    BY DEF TokensInLine
  <2>2. Size \in Nat \ {0}
    BY <1>1, <2>1, EmptySeq DEF Size, IsLine
  <2>3. \A k \in 1 .. Len(calls) : /\ calls[k].token \in 0 .. Size - 1
                                   /\ Token(calls[k].token).type \in Kept(calls[k])
    BY <1>1, <1>2, <2>2, PlainKept
  <2>4. QED
    BY <1>1, <2>1, <2>2, <2>3 DEF TokensInLine
<1>6. HeldOnce
  BY <1>1, <1>3 DEF HeldOnce
<1>7. OperandsBefore /\ NoLine
  <2>1. \A k \in 1 .. Len(calls) : calls[k].left = nullptr
    BY <1>2, PlainFields
  <2>2. QED
    BY <2>1, <1>1, <1>3 DEF OperandsBefore, Before, NoLine
<1>8. TreesAdjoin
  <2>1. \A k \in 1 .. Len(calls) : calls[k].left = nullptr
    BY <1>2, PlainFields
  <2>2. Adjoining(node, calls, ret)
    BY <1>1, <1>2, <1>3, <2>1, NothingAdjoins
  <2>3. QED
    BY <2>2 DEF TreesAdjoin
<1>9. QED
  BY <1>4, <1>5, <1>6, <1>7, <1>8 DEF ParserInv

-----------------------------------------------------------------------------
(* What is handed out.                                                     *)

(* An error is shown at a token, and a line without tokens has neither an   *)
(* error nor nodes. *)
LineInv ==
  /\ parsing = "error" => error \in 0 .. Size - 1
  /\ parsing = "ok" => calls = <<>>
  /\ m_Tokens = <<>> => node = <<>> /\ parsing \in {"running", "ok"}
  /\ \A n \in 1 .. Len(node) : FieldsByType(node[n])

(* What is allocated is made by one of the constructors. *)
LEMMA FieldsMade ==
  /\ \A op, v : FieldsByType(NumNode(op, v))
  /\ \A op, l, r : FieldsByType(BinOpNode(op, l, r))
  /\ \A op, r : FieldsByType(UnryOpNode(op, r))
  /\ \A x, e : FieldsByType(AssignNode(x, e))
  /\ \A x : FieldsByType(AccessNode(x))
BY DEF FieldsByType, NumNode, BinOpNode, UnryOpNode, AssignNode, AccessNode

(* Each step allocates one node or none. *)
LEMMA AtMostOneNode ==
  ASSUME ParserInv, ParserNext
  PROVE  node' = node \/ \E nd : FieldsByType(nd) /\ node' = Append(node, nd)
<1>1. ASSUME NEW level \in Levels, MoreOperands(level) \/ LastOperand(level)
      PROVE  node' = node \/ \E nd : FieldsByType(nd) /\ node' = Append(node, nd)
  <2>1. node' = Joined.nodes
    BY <1>1 DEF MoreOperands, LastOperand
  <2>2. QED
    BY <2>1, FieldsMade DEF Joined
<1>2. CASE Atom
  BY <1>2, FieldsMade DEF Atom, Allocate, AtomNode
<1>3. CASE EndAssign \/ EndUnary
  BY <1>3, FieldsMade DEF EndAssign, EndUnary, Allocate
<1>4. QED
  BY <1>1, <1>2, <1>3 DEF ParserNext, Parse, Overflow, BeginAssign, RetreatToName,
     BeginExpression, BeginUnary, OpenParen, CloseParen, MissingParen, NoAtom, WrapCallable,
     Accept

(* And a failing one shows the current token. *)
LEMMA HowItEnds ==
  ASSUME ParserInv, ParserNext
  PROVE  /\ m_Tokens' = m_Tokens /\ parsing = "running"
         /\ parsing' = "error" => calls # <<>> /\ error' = m_CurrentToken
         /\ parsing' = "ok" => calls' = <<>>
         /\ calls = <<>> => node' = node /\ parsing' = "ok"
<1>1. calls = <<>> => ~ (Len(calls) > StackDepth)
  <2>1. Len(<<>>) = 0
    OBVIOUS
  <2>2. QED
    BY <2>1, StackDepthAssumption
<1>2. ASSUME NEW level \in Levels, MoreOperands(level) \/ LastOperand(level)
      PROVE  m_Tokens' = m_Tokens /\ parsing = "running" /\ parsing' = "running" /\ calls # <<>>
  BY <1>2 DEF MoreOperands, LastOperand, Resumed, Push, Return
<1>3. CASE Accept \/ Overflow
  BY <1>1, <1>3 DEF Accept, Overflow
<1>4. CASE BeginUnary \/ MissingParen \/ NoAtom
  BY <1>4 DEF BeginUnary, MissingParen, NoAtom, Entered, Resumed, Fail, Push
<1>5. CASE WrapCallable
  BY <1>5 DEF WrapCallable, Resumed, Return
<1>6. CASE BeginAssign \/ EndAssign \/ RetreatToName \/ BeginExpression \/ EndUnary
             \/ Atom \/ OpenParen \/ CloseParen
  BY <1>6 DEF BeginAssign, EndAssign, RetreatToName, BeginExpression, EndUnary, Atom,
     OpenParen, CloseParen, Entered, Resumed, Push, Return
<1>7. QED
  BY <1>2, <1>3, <1>4, <1>5, <1>6 DEF ParserNext, Parse

(* So what is said of the line is kept by every step. *)
LEMMA LineInvStep ==
  ASSUME ParserInv, LineInv, ParserNext
  PROVE  LineInv'
<1>1. /\ m_Tokens' = m_Tokens /\ parsing = "running"
      /\ parsing' = "error" => calls # <<>> /\ error' = m_CurrentToken
      /\ parsing' = "ok" => calls' = <<>>
      /\ calls = <<>> => node' = node /\ parsing' = "ok"
  BY HowItEnds
<1>2. parsing' = "error" => error' \in 0 .. Size' - 1
  BY <1>1, CurrentInLine DEF Size
<1>3. m_Tokens = <<>> => calls = <<>>
  BY DEF ParserInv, NoLine
<1>4. ASSUME NEW n \in 1 .. Len(node')
      PROVE  FieldsByType(node'[n])
  <2>1. node \in Seq(Nodes) /\ Len(node) \in Nat
    BY LenProperties DEF ParserInv, ParserTypeOK
  <2>2. CASE node' = node
    BY <1>4, <2>2 DEF LineInv
  <2>3. ASSUME NEW nd, FieldsByType(nd), node' = Append(node, nd)
        PROVE  FieldsByType(node'[n])
    <3>1. nd \in Nodes \cup {nd} /\ node \in Seq(Nodes \cup {nd})
      BY <2>1, SeqMonotonic
    <3>2. /\ Len(node') = Len(node) + 1 /\ node'[Len(node) + 1] = nd
          /\ \A i \in 1 .. Len(node) : node'[i] = node[i]
      BY <2>3, <3>1, AppendProperties
    <3>3. CASE n = Len(node) + 1
      BY <2>3, <3>2, <3>3
    <3>4. CASE n \in 1 .. Len(node)
      BY <3>2, <3>4 DEF LineInv
    <3>5. QED
      BY <1>4, <2>1, <3>2, <3>3, <3>4
  <2>4. QED
    BY <2>2, <2>3, AtMostOneNode
<1>5. QED
  BY <1>1, <1>2, <1>3, <1>4 DEF LineInv

(* It is there again for the next line. *)
LEMMA LineInvLoad ==
  ASSUME NEW tokens, Load(tokens)
  PROVE  LineInv'
BY DEF Load, LineInv

(* It stays while nothing is parsed. *)
LEMMA LineInvStutter ==
  ASSUME LineInv, UNCHANGED parserVars
  PROVE  LineInv'
BY DEF LineInv, parserVars, Size

(* A statement of the program: operands come before their operators, in the *)
(* order of the text, and every node but the last is an operand of one      *)
(* other node.                                                              *)
Statement(e) ==
  /\ e \in Seq(Nodes)
  /\ \A n \in 1 .. Len(e) : /\ WellFormed(e, n) /\ FieldsByType(e[n])
                            /\ e[n].left < n /\ e[n].right < n
  /\ \A n \in 1 .. Len(e) - 1 :
       AsLeft(e, <<>>, Len(e), n) \/ AsRight(e, <<>>, Len(e), n)
  /\ \E f \in [Nat -> Nat] : Ordered(e, f) /\ (Len(e) # 0 => f[Len(e)] = 1)

(* What parse_nodes hands out is one. *)
LEMMA StatementBuilt ==
  ASSUME ParserInv, LineInv, parsing = "ok"
  PROVE  Statement(node)
<1>1. /\ node \in Seq(Nodes) /\ Len(node) \in Nat /\ calls = <<>>
      /\ Before(node, calls)
      /\ \A n \in 1 .. Len(node) : WellFormed(node, n) /\ FieldsByType(node[n])
  BY LenProperties DEF ParserInv, ParserTypeOK, OperandsBefore, HeldOnce, LineInv
<1>2. ASSUME NEW n \in 1 .. Len(node) - 1
      PROVE  AsLeft(node, <<>>, Len(node), n) \/ AsRight(node, <<>>, Len(node), n)
  <2>1. n \in 1 .. Len(node) /\ n # Len(node)
    BY <1>1, <1>2
  <2>2. \E h \in HoldersIn(node, calls, ret, n) : HoldersIn(node, calls, ret, n) = {h}
    <3>1. HoldersIn(node, calls, ret, n) = Holders(n)
      BY DEF HoldersIn, Holders
    <3>2. QED
      BY <2>1, <3>1 DEF ParserInv, HeldOnce
  <2>3. OneHolder(node, calls, ret, n)
    BY <2>2, OneHolderIsOne
  <2>4. ret # n
    BY <2>1 DEF ParserInv, HeldOnce, nullptr
  <2>5. Len(calls) = 0
    BY <1>1
  <2>6. ~ ByCall(node, calls, ret, n)
    BY <2>5 DEF ByCall
  <2>7. QED
    BY <1>1, <2>1, <2>3, <2>4, <2>6 DEF OneHolder, AsLeft, AsRight, ByRet
<1>3. \E f \in [Nat -> Nat] : Ordered(node, f) /\ (Len(node) # 0 => f[Len(node)] = 1)
  <2>1. PICK f \in [Nat -> Nat], b \in [Nat -> Nat] :
          Ordered(node, f) /\ Adjoin(node, calls, ret, f, b)
    BY DEF ParserInv, TreesAdjoin, Adjoining
  <2>2. b[1] = 0 /\ b[1] = LeftOver(f, ret, Len(node)) /\ (ret # nullptr => ret = Len(node))
    <3>1. Len(calls) + 1 = 1
      BY <1>1
    <3>2. QED
      BY <2>1, <3>1 DEF Adjoin
  <2>3. Len(node) # 0 => f[Len(node)] = 1
    <3>1. CASE ret = nullptr
      BY <2>2, <3>1 DEF LeftOver
    <3>2. CASE ret # nullptr
      <4>1. f[Len(node)] - 1 = 0 /\ f[Len(node)] \in Nat
        BY <1>1, <2>2, <3>2 DEF LeftOver
      <4>2. QED
        BY <4>1
    <3>3. QED
      BY <3>1, <3>2
  <2>4. QED
    BY <2>1, <2>3
<1>4. QED
  BY <1>1, <1>2, <1>3 DEF Statement, Before

(* A parser that has not been given anything yet. *)
Idle ==
  /\ m_Tokens = <<>> /\ m_TokenIndex = 0 /\ m_CurrentToken = NoToken
  /\ node = <<>> /\ calls = <<>> /\ ret = nullptr /\ parsing = "ok" /\ error = NoToken

(* It has the invariants. *)
LEMMA IdleInv ==
  ASSUME Idle
  PROVE  ParserInv /\ LineInv
<1>1. Len(node) = 0 /\ Len(calls) = 0 /\ Len(m_Tokens) = 0
  BY DEF Idle
<1>2. ParserTypeOK
  BY <1>1 DEF Idle, ParserTypeOK, IsLine, nullptr
<1>3. TokensInLine /\ OperandsBefore /\ NoLine /\ LineInv
  BY <1>1 DEF Idle, TokensInLine, OperandsBefore, Before, NoLine, LineInv
<1>4. HeldOnce
  BY <1>1 DEF Idle, HeldOnce
<1>5. TreesAdjoin
  <2>1. calls \in Seq(Activations)
    BY DEF Idle
  <2>2. ret = nullptr
    BY DEF Idle
  <2>3. \A k \in 1 .. Len(calls) : calls[k].left = nullptr
    BY <1>1
  <2>4. Adjoining(node, calls, ret)
    BY <1>1, <2>1, <2>2, <2>3, NothingAdjoins
  <2>5. QED
    BY <2>4 DEF TreesAdjoin
<1>6. QED
  BY <1>2, <1>3, <1>4, <1>5 DEF ParserInv

-----------------------------------------------------------------------------
(* The invariant of every parsing, of every line. *)
THEOREM ParserInvCorrect == ParserSpec => []ParserInv
<1>1. ParserInit => ParserInv
  BY ParserBegins
<1>2. ParserInv /\ [ParserNext \/ Parsed]_parserVars => ParserInv'
  <2> SUFFICES ASSUME ParserInv, [ParserNext \/ Parsed]_parserVars
               PROVE  ParserInv'
    OBVIOUS
  <2>1. CASE ParserNext
    BY <2>1, ParserStep
  <2>2. CASE UNCHANGED parserVars
    BY <2>2, ParserStutter
  <2>3. QED
    BY <2>1, <2>2 DEF Parsed
<1>3. QED
  BY <1>1, <1>2, PTL DEF ParserSpec

(* The variables of the parser keep their types: nodes, activations and     *)
(* tokens.                                                                  *)
THEOREM ParserTypeCorrect == ParserSpec => []ParserTypeOK
BY ParserInvCorrect, PTL DEF ParserInv

(* No token is read outside the line, and what an activation has kept of    *)
(* one is of the kind it takes it for.                                      *)
THEOREM TokensInLineCorrect == ParserSpec => []TokensInLine
BY ParserInvCorrect, PTL DEF ParserInv

(* Every node has one owner, so delete_nodes would free it once, and every  *)
(* tree is well formed.                                                     *)
THEOREM HeldOnceCorrect == ParserSpec => []HeldOnce
BY ParserInvCorrect, PTL DEF ParserInv

(* What was parsed first stands first: the trees that are held follow each   *)
(* other in the text, and so do the nodes of each of them.                  *)
THEOREM TreesAdjoinCorrect == ParserSpec => []TreesAdjoin
BY ParserInvCorrect, PTL DEF ParserInv
=============================================================================

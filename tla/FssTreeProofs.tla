---------------------------- MODULE FssTreeProofs ---------------------------
(***************************************************************************)
(* Proofs about FssTree, for every seed length, depth, modulus, generator  *)
(* and conversion: type correctness; the lockstep of keys and servers; and *)
(* that the two shares add up to the point function.  The last two assume  *)
(* that the input is within the supported length (Supported), the last one *)
(* also that no final seed converts to ModP itself (NoResample): module    *)
(* MCFssTree has the counterexample when one does.                         *)
(***************************************************************************)
EXTENDS FssTree, TLAPS

Supported == Depth <= MaxBits
NoResample == \A s \in Seeds : Raw[s] < ModP
-----------------------------------------------------------------------------
(* Arithmetic and seeds.                                                   *)

\* A remainder is below the modulus, also for the negative numbers that an
\* unsigned subtraction wraps.
LEMMA ModRange ==
  ASSUME NEW n \in Int, NEW m \in Nat, m > 0
  PROVE  n % m \in 0..(m - 1)
OBVIOUS

\* XOR of seeds (fastxor and the byte loops of client.go and server.go).
LEMMA XorFacts ==
  ASSUME NEW A \in Seeds, NEW B \in Seeds
  PROVE  /\ Xor(A, B) \in Seeds /\ Xor(A, {}) = A
         /\ Xor(A, Xor(A, B)) = B /\ Xor(B, Xor(A, B)) = A
BY DEF Xor, Seeds

\* One level of the tree yields a node.
LEMMA ChildType ==
  ASSUME NEW nd \in Node, NEW c \in CorrectionWord, NEW side \in BOOLEAN
  PROVE  Child(nd, c, side) \in Node
<1>1. G[nd.s][side] \in Node
  BY FssConstants DEF Node
<1>2. Gate(nd.t, c.s) \in Seeds
  BY DEF Gate, Seeds, CorrectionWord
<1>3. Xor(G[nd.s][side].s, Gate(nd.t, c.s)) \in Seeds
  BY <1>1, <1>2, XorFacts DEF Node
<1>4. (G[nd.s][side].t # (nd.t /\ c.t[side])) \in BOOLEAN
  OBVIOUS
<1> QED
  BY <1>3, <1>4 DEF Child, Node

\* The correction word of a level is a seed and two bits.
LEMMA CorrectionType ==
  ASSUME NEW n0 \in Node, NEW n1 \in Node, NEW bit \in BOOLEAN
  PROVE  CorrectionFor(n0, n1, bit) \in CorrectionWord
<1>1. \A s \in Seeds, side \in BOOLEAN : G[s][side].s \in Seeds
  BY FssConstants DEF Node
<1>2. n0.s \in Seeds /\ n1.s \in Seeds
  BY DEF Node
<1>3. TRUE \in BOOLEAN /\ FALSE \in BOOLEAN
  OBVIOUS
<1>4. CASE bit = TRUE
  <2>1. Xor(G[n0.s][FALSE].s, G[n1.s][FALSE].s) \in Seeds
    BY <1>1, <1>2, <1>3, XorFacts
  <2> QED
    BY <1>4, <2>1 DEF CorrectionFor, CorrectionWord
<1>5. CASE bit = FALSE
  <2>1. Xor(G[n0.s][TRUE].s, G[n1.s][TRUE].s) \in Seeds
    BY <1>1, <1>2, <1>3, XorFacts
  <2> QED
    BY <1>5, <2>1 DEF CorrectionFor, CorrectionWord
<1> QED
  BY <1>4, <1>5

\* What the correction word is for: below two nodes whose control bits
\* differ, it makes the control bits differ on the side that is kept, and the
\* whole nodes equal on the side that is lost.
LEMMA CorrectionWorks ==
  ASSUME NEW n0 \in Node, NEW n1 \in Node, NEW bit \in BOOLEAN, n1.t = ~n0.t
  PROVE  LET c == CorrectionFor(n0, n1, bit)
         IN  /\ Child(n1, c, bit).t = ~Child(n0, c, bit).t
             /\ Child(n0, c, ~bit) = Child(n1, c, ~bit)
<1> DEFINE c == CorrectionFor(n0, n1, bit)
           A == G[n0.s][~bit].s
           B == G[n1.s][~bit].s
<1>1. \A side \in BOOLEAN : G[n0.s][side] \in Node /\ G[n1.s][side] \in Node
  BY FssConstants DEF Node
<1>2. A \in Seeds /\ B \in Seeds
  BY <1>1 DEF Node
<1>3. c.s = Xor(A, B) /\ c.t[bit] = ((G[n0.s][bit].t # G[n1.s][bit].t) # TRUE)
      /\ c.t[~bit] = ((G[n0.s][~bit].t # G[n1.s][~bit].t) # FALSE)
  BY DEF CorrectionFor
<1>4. n0.t \in BOOLEAN /\ n1.t \in BOOLEAN
  BY DEF Node
<1>5. \A side \in BOOLEAN : G[n0.s][side].t \in BOOLEAN /\ G[n1.s][side].t \in BOOLEAN
  BY <1>1 DEF Node
<1>6. Child(n1, c, bit).t = ~Child(n0, c, bit).t
  BY <1>3, <1>4, <1>5 DEF Child
<1>7. Child(n0, c, ~bit).t = Child(n1, c, ~bit).t
  BY <1>3, <1>4, <1>5 DEF Child
<1>8. Child(n0, c, ~bit).s = Child(n1, c, ~bit).s
  <2>0. /\ Xor(A, Xor(A, B)) = B /\ Xor(B, Xor(A, B)) = A
        /\ Xor(A, {}) = A /\ Xor(B, {}) = B
    <3> HIDE DEF A, B
    <3> QED
      BY <1>2, XorFacts
  <2>1. CASE n0.t
    <3>1. Gate(n0.t, c.s) = Xor(A, B) /\ Gate(n1.t, c.s) = {}
      BY <2>1, <1>3, <1>4 DEF Gate
    <3> QED
      BY <3>1, <2>0 DEF Child
  <2>2. CASE ~n0.t
    <3>1. Gate(n0.t, c.s) = {} /\ Gate(n1.t, c.s) = Xor(A, B)
      BY <2>2, <1>3, <1>4 DEF Gate
    <3> QED
      BY <3>1, <2>0 DEF Child
  <2> QED
    BY <2>1, <2>2
<1> QED
  BY <1>6, <1>7, <1>8 DEF Child
-----------------------------------------------------------------------------
(* Type correctness.                                                       *)

\* The client's final word is at most ModP, whatever was drawn for it.
LEMMA FinalWordType ==
  ASSUME NEW e0 \in Int, NEW e1 \in Int, NEW t1 \in BOOLEAN, b \in 0..(ModP - 1)
  PROVE  FinalWord(e0, e1, t1) \in 0..ModP
<1>1. Word \in Nat /\ Word > 0 /\ ModP \in Nat /\ ModP > 1
  BY FssConstants DEF Word
<1>2. \A n \in Int : U32(n) \in Int
  BY <1>1, ModRange DEF U32
<1>3. U32(b + U32(ModP - e0)) % ModP \in Int
  BY <1>1, <1>2, ModRange
<1>4. U32((U32(b + U32(ModP - e0)) % ModP) + e1) % ModP \in 0..(ModP - 1)
  BY <1>1, <1>2, <1>3, ModRange
<1> QED
  BY <1>1, <1>4 DEF FinalWord

\* A share is at most ModP, whatever was drawn for it.
LEMMA ShareType ==
  ASSUME NEW k \in Servers, NEW e \in Int, final \in 0..ModP
  PROVE  Share(k, e) \in 0..ModP
<1>1. Word \in Nat /\ Word > 0 /\ ModP \in Nat /\ ModP > 1
  BY FssConstants DEF Word
<1>2. U32(e + (IF node[k].t THEN final ELSE 0)) \in Int
  BY <1>1, ModRange DEF U32
<1>3. U32(e + (IF node[k].t THEN final ELSE 0)) % ModP \in 0..(ModP - 1)
  BY <1>1, <1>2, ModRange
<1> QED
  BY <1>1, <1>3 DEF Share

\* The elements that convertBlock may return are 32-bit numbers.
LEMMA ElementType ==
  ASSUME NEW s \in Seeds, NEW e \in ToElement(Raw[s])
  PROVE  e \in Int
BY FssConstants DEF ToElement, Word

\* The variables keep their ranges in every state that GenerateTreePF and
\* EvaluatePF reach; in particular no share exceeds ModP.
THEOREM TypeCorrect == Spec => []TypeOK
<1>1. Init => TypeOK
  <2> SUFFICES ASSUME Init PROVE TypeOK
    OBVIOUS
  <2>1. PICK root \in [Servers -> Node] : gen = [j \in 0..Depth |-> root] /\ node = root
    BY DEF Init
  <2>2. NoCW \in CorrectionWord
    BY DEF NoCW, CorrectionWord, Seeds
  <2>3. /\ a \in Bits /\ x \in Bits /\ b \in 0..(ModP - 1)
        /\ level = 0 /\ ready = FALSE /\ done = {}
    BY DEF Init
  <2>4. gen \in [0..Depth -> [Servers -> Node]] /\ node \in [Servers -> Node]
    BY <2>1
  <2>5. cw \in [1..Depth -> CorrectionWord]
    BY <2>2 DEF Init
  <2>6. 0 \in 0..Depth /\ 0 \in 0..ModP
    BY FssConstants
  <2>7. /\ final \in 0..ModP /\ i \in [Servers -> 0..Depth]
        /\ out \in [Servers -> 0..ModP]
    BY <2>6 DEF Init
  <2> QED
    BY <2>3, <2>4, <2>5, <2>6, <2>7 DEF TypeOK
<1>2. TypeOK /\ [Next]_vars => TypeOK'
  <2> SUFFICES ASSUME TypeOK, [Next]_vars PROVE TypeOK'
    OBVIOUS
  <2> USE DEF TypeOK
  <2>1. CASE GenLevel
    <3> DEFINE bit == a[level + 1]
               c == CorrectionFor(gen[level][0], gen[level][1], bit)
    <3>1. level + 1 \in 1..Depth /\ level \in 0..Depth /\ level + 1 \in 0..Depth
      BY <2>1, FssConstants DEF GenLevel
    <3>2. bit \in BOOLEAN
      BY <3>1 DEF Bits
    <3>3. c \in CorrectionWord
      BY <3>1, <3>2, CorrectionType DEF Servers
    <3>4. [k \in Servers |-> Child(gen[level][k], c, bit)] \in [Servers -> Node]
      <4> HIDE DEF c, bit
      <4> QED
        BY <3>1, <3>2, <3>3, ChildType
    <3>5. cw' \in [1..Depth -> CorrectionWord] /\ gen' \in [0..Depth -> [Servers -> Node]]
      <4>1. /\ cw' = [cw EXCEPT ![level + 1] = c]
            /\ gen' = [gen EXCEPT ![level + 1] =
                         [k \in Servers |-> Child(gen[level][k], c, bit)]]
        BY <2>1 DEF GenLevel
      <4> HIDE DEF c, bit
      <4> QED
        BY <3>1, <3>3, <3>4, <4>1
    <3>6. level' \in 0..Depth
      BY <2>1, <3>1 DEF GenLevel
    <3> QED
      BY <2>1, <3>5, <3>6 DEF GenLevel, serverVars
  <2>2. CASE GenFinal
    <3>1. PICK e0 \in ToElement(Raw[gen[Depth][0].s]), e1 \in ToElement(Raw[gen[Depth][1].s]) :
             final' = FinalWord(e0, e1, gen[Depth][1].t)
      BY <2>2 DEF GenFinal
    <3>2. Depth \in 0..Depth /\ gen[Depth][0] \in Node /\ gen[Depth][1] \in Node
      BY FssConstants DEF Servers
    <3>3. e0 \in Int /\ e1 \in Int /\ gen[Depth][1].t \in BOOLEAN
      BY <3>2, ElementType DEF Node
    <3>4. final' \in 0..ModP
      BY <3>1, <3>3, FinalWordType
    <3> QED
      BY <2>2, <3>4 DEF GenFinal, serverVars
  <2>3. ASSUME NEW k \in Servers, EvalLevel(k) PROVE TypeOK'
    <3>1. i[k] + 1 \in 1..Depth /\ i[k] + 1 \in 0..Depth
      BY <2>3, FssConstants DEF EvalLevel
    <3>2. InputBit(i[k]) \in BOOLEAN
      BY <3>1 DEF InputBit, Bits
    <3>3. Child(node[k], cw[i[k] + 1], InputBit(i[k])) \in Node
      BY <3>1, <3>2, ChildType
    <3> QED
      BY <2>3, <3>1, <3>3 DEF EvalLevel, keyVars
  <2>4. ASSUME NEW k \in Servers, EvalFinal(k) PROVE TypeOK'
    <3>1. PICK e \in ToElement(Raw[node[k].s]) : out' = [out EXCEPT ![k] = Share(k, e)]
      BY <2>4 DEF EvalFinal
    <3>2. e \in Int
      BY ElementType DEF Node
    <3>3. Share(k, e) \in 0..ModP
      BY <3>2, ShareType
    <3> QED
      BY <2>4, <3>1, <3>3 DEF EvalFinal, keyVars
  <2>5. CASE UNCHANGED vars
    BY <2>5 DEF vars, keyVars, serverVars
  <2> QED
    BY <2>1, <2>2, <2>3, <2>4, <2>5 DEF Next, Finished
<1> QED
  BY <1>1, <1>2, PTL DEF Spec
-----------------------------------------------------------------------------
(* The keys: how each level was derived from the one above it.             *)

Growth ==
   /\ \A j \in 0..level : gen[j][1].t = ~gen[j][0].t
   /\ \A j \in 0..(level - 1) :
         /\ cw[j + 1] = CorrectionFor(gen[j][0], gen[j][1], a[j + 1])
         /\ gen[j + 1] = [k \in Servers |-> Child(gen[j][k], cw[j + 1], a[j + 1])]
   /\ ready => level = Depth
   /\ ~ready => \A k \in Servers : i[k] = 0 /\ node[k] = gen[0][k]

\* Nothing but GenerateTreePF writes the keys, and nothing that it has written
\* is written again; the servers start once the keys are complete.
LEMMA GrowthInvariant == Spec => []Growth
<1>1. Init => Growth
  <2> SUFFICES ASSUME Init PROVE Growth
    OBVIOUS
  <2>1. PICK root \in [Servers -> Node] :
           root[1].t = ~root[0].t /\ gen = [j \in 0..Depth |-> root] /\ node = root
    BY DEF Init
  <2>2. level = 0 /\ ~ready /\ 0 \in 0..Depth /\ \A k \in Servers : i[k] = 0
    BY FssConstants DEF Init
  <2> QED
    BY <2>1, <2>2 DEF Growth
<1>2. TypeOK /\ Growth /\ [Next]_vars => Growth'
  <2> SUFFICES ASSUME TypeOK, Growth, [Next]_vars PROVE Growth'
    OBVIOUS
  <2>1. CASE GenLevel
    <3> DEFINE bit == a[level + 1]
               c == CorrectionFor(gen[level][0], gen[level][1], bit)
               below == [k \in Servers |-> Child(gen[level][k], c, bit)]
    <3>1. /\ level \in 0..Depth /\ level + 1 \in 1..Depth /\ level + 1 \in 0..Depth
          /\ bit \in BOOLEAN /\ gen[level] \in [Servers -> Node]
      BY <2>1, FssConstants DEF GenLevel, TypeOK, Bits
    <3>2. gen[level][1].t = ~gen[level][0].t
      BY <3>1 DEF Growth
    <3>3. below[1].t = ~below[0].t
      BY <3>1, <3>2, CorrectionWorks DEF Servers
    <3>4. /\ gen' = [gen EXCEPT ![level + 1] = below]
          /\ cw' = [cw EXCEPT ![level + 1] = c]
          /\ level' = level + 1 /\ a' = a
      BY <2>1 DEF GenLevel
    <3>5. /\ gen'[level + 1] = below /\ cw'[level + 1] = c
          /\ \A j \in 0..level : gen'[j] = gen[j]
          /\ \A j \in 1..level : cw'[j] = cw[j]
      <4> HIDE DEF below, c
      <4> QED
        BY <3>1, <3>4 DEF TypeOK
    <3>6. \A j \in 0..level' : gen'[j][1].t = ~gen'[j][0].t
      <4> HIDE DEF below, c
      <4> QED
        BY <3>1, <3>3, <3>4, <3>5 DEF Growth
    <3>7. ASSUME NEW j \in 0..(level' - 1)
          PROVE  /\ cw'[j + 1] = CorrectionFor(gen'[j][0], gen'[j][1], a'[j + 1])
                 /\ gen'[j + 1] = [k \in Servers |-> Child(gen'[j][k], cw'[j + 1], a'[j + 1])]
      <4>1. CASE j = level
        BY <4>1, <3>1, <3>4, <3>5
      <4>2. CASE j # level
        <5>1. j \in 0..(level - 1) /\ j + 1 \in 1..level /\ j \in 0..level /\ j + 1 \in 0..level
          BY <4>2, <3>1, <3>4
        <5>2. gen'[j] = gen[j] /\ gen'[j + 1] = gen[j + 1] /\ cw'[j + 1] = cw[j + 1]
          BY <5>1, <3>5
        <5> QED
          BY <5>1, <5>2, <3>4 DEF Growth
      <4> QED
        BY <4>1, <4>2
    <3>8. ~ready' /\ \A k \in Servers : i'[k] = 0 /\ node'[k] = gen'[0][k]
      <4>1. ~ready /\ ready' = ready /\ i' = i /\ node' = node
        BY <2>1, <3>1 DEF GenLevel, Growth, serverVars
      <4>2. gen'[0] = gen[0]
        BY <3>1, <3>5
      <4> QED
        BY <4>1, <4>2 DEF Growth
    <3> QED
      BY <3>6, <3>7, <3>8 DEF Growth
  <2>2. CASE GenFinal
    BY <2>2 DEF GenFinal, Growth
  <2>3. ASSUME NEW k \in Servers, EvalLevel(k) PROVE Growth'
    BY <2>3 DEF EvalLevel, Growth, keyVars
  <2>4. ASSUME NEW k \in Servers, EvalFinal(k) PROVE Growth'
    BY <2>4 DEF EvalFinal, Growth, keyVars
  <2>5. CASE UNCHANGED vars
    BY <2>5 DEF vars, keyVars, serverVars, Growth
  <2> QED
    BY <2>1, <2>2, <2>3, <2>4, <2>5 DEF Next, Finished
<1> QED
  BY <1>1, <1>2, TypeCorrect, PTL DEF Spec
-----------------------------------------------------------------------------
(* The servers.  w[n][k] is the node of server k after n levels, for as     *)
(* many levels as one of the two servers has walked.  Neither server knows  *)
(* how far the other is, so that the lockstep at equal depths is not        *)
(* inductive: the walk relates the server ahead to the one behind.          *)

Reached(n) == \E k \in Servers : n <= i[k]

IsWalk(w) ==
   /\ w \in [0..Depth -> [Servers -> Node]]
   /\ \A k \in Servers : node[k] = w[i[k]][k]
   /\ \A n \in 0..Depth : Reached(n) =>
         IF OnPath(n) THEN w[n] = gen[n] ELSE w[n][0] = w[n][1]
   /\ \A n \in 0..(Depth - 1) : Reached(n + 1) =>
         \A k \in Servers : w[n + 1][k] = Child(w[n][k], cw[n + 1], InputBit(n))

Walked == \E w : IsWalk(w)

\* The level below two nodes in lockstep is in lockstep.
LEMMA WalkStep ==
  ASSUME Supported, TypeOK, Growth, ready, NEW n \in 0..(Depth - 1),
         NEW nd \in [Servers -> Node],
         IF OnPath(n) THEN nd = gen[n] ELSE nd[0] = nd[1]
  PROVE  LET below == [k \in Servers |-> Child(nd[k], cw[n + 1], InputBit(n))]
         IN  /\ below \in [Servers -> Node]
             /\ IF OnPath(n + 1) THEN below = gen[n + 1] ELSE below[0] = below[1]
<1> DEFINE c == cw[n + 1]
           bit == InputBit(n)
           below == [k \in Servers |-> Child(nd[k], c, bit)]
<1>1. /\ n \in 0..Depth /\ n + 1 \in 1..Depth /\ n + 1 \in 0..Depth /\ level = Depth
      /\ n \in 0..(level - 1) /\ n \in 0..level
  BY FssConstants DEF Growth
<1>2. bit = x[n + 1] /\ bit \in BOOLEAN /\ a[n + 1] \in BOOLEAN
  BY <1>1, FssConstants DEF InputBit, Supported, TypeOK, Bits
<1>3. c \in CorrectionWord
  BY <1>1 DEF TypeOK
<1>4. below \in [Servers -> Node]
  <2> HIDE DEF c, bit
  <2> QED
    BY <1>2, <1>3, ChildType
<1>5. OnPath(n + 1) <=> OnPath(n) /\ x[n + 1] = a[n + 1]
  <2>1. \A j : j \in 1..(n + 1) <=> j \in 1..n \/ j = n + 1
    BY <1>1
  <2> QED
    BY <2>1 DEF OnPath
<1>6. CASE OnPath(n) /\ x[n + 1] = a[n + 1]
  <2>1. gen[n + 1] = [k \in Servers |-> Child(gen[n][k], c, a[n + 1])]
    BY <1>1 DEF Growth
  <2>2. below = gen[n + 1]
    BY <1>2, <1>6, <2>1
  <2> QED
    BY <1>4, <1>5, <1>6, <2>2
<1>7. CASE OnPath(n) /\ x[n + 1] # a[n + 1]
  <2>1. bit = ~a[n + 1]
    BY <1>2, <1>7, <1>1 DEF TypeOK, Bits
  <2>2. c = CorrectionFor(gen[n][0], gen[n][1], a[n + 1]) /\ gen[n][1].t = ~gen[n][0].t
    BY <1>1 DEF Growth
  <2>3. gen[n][0] \in Node /\ gen[n][1] \in Node
    BY <1>1 DEF TypeOK, Servers
  <2>4. Child(gen[n][0], c, ~a[n + 1]) = Child(gen[n][1], c, ~a[n + 1])
    <3> HIDE DEF c
    <3> QED
      BY <1>2, <2>2, <2>3, CorrectionWorks
  <2>5. below[0] = below[1]
    <3> HIDE DEF c, bit
    <3> QED
      BY <1>7, <2>1, <2>4 DEF Servers
  <2> QED
    BY <1>4, <1>5, <1>7, <2>5
<1>8. CASE ~OnPath(n)
  <2>1. below[0] = below[1]
    <3> HIDE DEF c, bit
    <3> QED
      BY <1>8 DEF Servers
  <2> QED
    BY <1>4, <1>5, <1>8, <2>1
<1> QED
  BY <1>6, <1>7, <1>8

\* There is a walk in every reachable state: a server that is behind follows
\* it, one that is ahead extends it.
LEMMA WalkInvariant == Supported /\ Spec => []Walked
<1> SUFFICES ASSUME Supported PROVE Spec => []Walked
  OBVIOUS
<1>1. Init /\ TypeOK => Walked
  <2> SUFFICES ASSUME Init, TypeOK PROVE IsWalk(gen)
    BY DEF Walked
  <2>1. PICK root \in [Servers -> Node] : gen = [j \in 0..Depth |-> root] /\ node = root
    BY DEF Init
  <2>2. 0 \in 0..Depth /\ \A k \in Servers : i[k] = 0
    BY FssConstants DEF Init
  <2>3. \A n \in 0..Depth : Reached(n) => n = 0
    BY <2>2 DEF Reached
  <2>4. OnPath(0)
    BY DEF OnPath
  <2>5. \A n \in 0..(Depth - 1) : ~Reached(n + 1)
    BY <2>2 DEF Reached
  <2> QED
    BY <2>1, <2>2, <2>3, <2>4, <2>5 DEF IsWalk, TypeOK
<1>2. TypeOK /\ Growth /\ Walked /\ [Next]_vars => Walked'
  <2> SUFFICES ASSUME TypeOK, Growth, Walked, [Next]_vars PROVE Walked'
    OBVIOUS
  <2>0. PICK w : IsWalk(w)
    BY DEF Walked
  <2>1. CASE GenLevel
    <3>1. ~ready /\ i' = i /\ node' = node /\ x' = x /\ a' = a
      BY <2>1, FssConstants DEF GenLevel, Growth, serverVars
    <3>2. \A k \in Servers : i[k] = 0
      BY <3>1 DEF Growth
    <3>3. \A n \in 0..Depth : Reached(n)' => n = 0 /\ Reached(n)
      BY <3>1, <3>2 DEF Reached
    <3>4. \A n \in 0..(Depth - 1) : ~Reached(n + 1)'
      BY <3>1, <3>2 DEF Reached
    <3>5. gen'[0] = gen[0]
      BY <2>1, FssConstants DEF GenLevel, TypeOK
    <3>6. OnPath(0) /\ OnPath(0)'
      BY DEF OnPath
    <3>7. IsWalk(w)'
      BY <2>0, <3>1, <3>3, <3>4, <3>5, <3>6 DEF IsWalk
    <3> QED
      BY <3>7 DEF Walked
  <2>2. CASE GenFinal
    <3>1. IsWalk(w)'
      BY <2>0, <2>2 DEF GenFinal, serverVars, IsWalk, Reached, OnPath, InputBit
    <3> QED
      BY <3>1 DEF Walked
  <2>3. ASSUME NEW k \in Servers, EvalLevel(k) PROVE Walked'
    <3> DEFINE n == i[k]
               nd == Child(node[k], cw[n + 1], InputBit(n))
               below == [q \in Servers |-> Child(w[n][q], cw[n + 1], InputBit(n))]
               v == IF Reached(n + 1) THEN w ELSE [w EXCEPT ![n + 1] = below]
    <3>1. /\ ready /\ n \in 0..(Depth - 1) /\ n \in 0..Depth /\ n + 1 \in 0..Depth
          /\ i \in [Servers -> 0..Depth]
      BY <2>3, FssConstants DEF EvalLevel, TypeOK
    <3>2. /\ i' = [i EXCEPT ![k] = n + 1] /\ node' = [node EXCEPT ![k] = nd]
          /\ a' = a /\ x' = x /\ cw' = cw /\ gen' = gen
      BY <2>3 DEF EvalLevel, keyVars
    <3>3. Reached(n)
      BY <3>1 DEF Reached
    <3>4. w[n] \in [Servers -> Node] /\ IF OnPath(n) THEN w[n] = gen[n] ELSE w[n][0] = w[n][1]
      BY <2>0, <3>1, <3>3 DEF IsWalk
    <3>5. /\ below \in [Servers -> Node]
          /\ IF OnPath(n + 1) THEN below = gen[n + 1] ELSE below[0] = below[1]
      BY <3>1, <3>4, WalkStep
    <3>6. \A m \in 0..Depth : Reached(m)' <=> Reached(m) \/ m = n + 1
      <4>1. \A m \in 0..Depth : m = n + 1 => Reached(m)'
        BY <3>1, <3>2 DEF Reached, TypeOK
      <4>2. \A m \in 0..Depth : Reached(m) => Reached(m)'
        BY <3>1, <3>2 DEF Reached, TypeOK
      <4>3. \A m \in 0..Depth : Reached(m)' /\ m # n + 1 => Reached(m)
        BY <3>1, <3>2 DEF Reached, TypeOK
      <4> QED
        BY <4>1, <4>2, <4>3
    <3>7. \A m \in 0..Depth : OnPath(m)' <=> OnPath(m)
      BY <3>2 DEF OnPath
    <3>8. /\ v \in [0..Depth -> [Servers -> Node]]
          /\ v[n + 1] = below
          /\ \A m \in 0..Depth : Reached(m) => v[m] = w[m]
      <4>1. CASE Reached(n + 1)
        <5>1. v = w
          BY <4>1
        <5>2. \A q \in Servers : w[n + 1][q] = Child(w[n][q], cw[n + 1], InputBit(n))
          BY <2>0, <3>1, <4>1 DEF IsWalk
        <5>3. w[n + 1] \in [Servers -> Node]
          BY <2>0, <3>1 DEF IsWalk
        <5>4. w[n + 1] = below
          BY <5>2, <5>3
        <5> HIDE DEF v, below, n
        <5> QED
          BY <2>0, <5>1, <5>4 DEF IsWalk
      <4>2. CASE ~Reached(n + 1)
        <5>1. v = [w EXCEPT ![n + 1] = below]
          BY <4>2
        <5> HIDE DEF v, below
        <5>2. w \in [0..Depth -> [Servers -> Node]]
          BY <2>0 DEF IsWalk
        <5> QED
          BY <3>1, <3>5, <4>2, <5>1, <5>2
      <4> QED
        BY <4>1, <4>2
    <3> HIDE DEF v, below, nd, n
    <3>9. \A q \in Servers : node'[q] = v[i'[q]][q]
      <4> SUFFICES ASSUME NEW q \in Servers PROVE node'[q] = v[i'[q]][q]
        OBVIOUS
      <4>1. CASE q = k
        <5>1. i'[q] = n + 1 /\ node'[q] = nd
          BY <3>1, <3>2, <4>1 DEF TypeOK
        <5>2. node[k] = w[n][k]
          BY <2>0 DEF IsWalk, n
        <5>3. nd = below[k]
          BY <5>2 DEF nd, below
        <5> QED
          BY <3>8, <4>1, <5>1, <5>3
      <4>2. CASE q # k
        <5>1. i'[q] = i[q] /\ node'[q] = node[q]
          BY <3>1, <3>2, <4>2 DEF TypeOK
        <5>2. Reached(i[q]) /\ i[q] \in 0..Depth
          BY <3>1 DEF Reached
        <5> QED
          BY <2>0, <3>8, <5>1, <5>2 DEF IsWalk
      <4> QED
        BY <4>1, <4>2
    <3>10. ASSUME NEW m \in 0..Depth, Reached(m)'
           PROVE  IF OnPath(m)' THEN v[m] = gen'[m] ELSE v[m][0] = v[m][1]
      <4>1. CASE m = n + 1
        BY <4>1, <3>2, <3>5, <3>7, <3>8
      <4>2. CASE m # n + 1
        BY <4>2, <2>0, <3>2, <3>6, <3>7, <3>8, <3>10 DEF IsWalk
      <4> QED
        BY <4>1, <4>2
    <3>11. ASSUME NEW m \in 0..(Depth - 1), Reached(m + 1)', NEW q \in Servers
           PROVE  v[m + 1][q] = Child(v[m][q], cw'[m + 1], InputBit(m)')
      <4>0. m \in 0..Depth /\ m + 1 \in 0..Depth /\ InputBit(m)' = InputBit(m)
        BY <3>2, FssConstants DEF InputBit
      <4>1. CASE m = n
        <5>1. v[m] = w[m]
          BY <4>0, <4>1, <3>3, <3>8
        <5> QED
          BY <4>0, <4>1, <5>1, <3>2, <3>8 DEF below
      <4>2. CASE m # n
        <5>1. Reached(m + 1)
          BY <4>0, <4>2, <3>1, <3>6, <3>11
        <5>2. Reached(m)
          BY <4>0, <5>1, <3>1 DEF Reached
        <5>3. v[m] = w[m] /\ v[m + 1] = w[m + 1]
          BY <4>0, <5>1, <5>2, <3>8
        <5> QED
          BY <2>0, <3>2, <4>0, <5>1, <5>3 DEF IsWalk
      <4> QED
        BY <4>1, <4>2
    <3>12. PICK u : u = v
      OBVIOUS
    <3>13. IsWalk(u)'
      BY <3>8, <3>9, <3>10, <3>11, <3>12 DEF IsWalk
    <3> QED
      BY <3>13 DEF Walked
  <2>4. ASSUME NEW k \in Servers, EvalFinal(k) PROVE Walked'
    <3>1. IsWalk(w)'
      BY <2>0, <2>4 DEF EvalFinal, keyVars, IsWalk, Reached, OnPath, InputBit
    <3> QED
      BY <3>1 DEF Walked
  <2>5. CASE UNCHANGED vars
    <3>1. IsWalk(w)'
      BY <2>0, <2>5 DEF vars, keyVars, serverVars, IsWalk, Reached, OnPath, InputBit
    <3> QED
      BY <3>1 DEF Walked
  <2> QED
    BY <2>1, <2>2, <2>3, <2>4, <2>5 DEF Next, Finished
<1> QED
  BY <1>1, <1>2, TypeCorrect, GrowthInvariant, PTL DEF Spec

\* While its input agrees with the client's point a server is where the client
\* was when it generated the server's key; once it does not, the two servers
\* are in one state at equal depths.
THEOREM LockstepHolds == Supported /\ Spec => []Lockstep
<1> SUFFICES ASSUME Supported PROVE Spec => []Lockstep
  OBVIOUS
<1>1. TypeOK /\ Growth /\ Walked => Lockstep
  <2> SUFFICES ASSUME TypeOK, Growth, Walked PROVE Lockstep
    OBVIOUS
  <2>1. PICK w : IsWalk(w)
    BY DEF Walked
  <2>2. ASSUME NEW k \in Servers
        PROVE  /\ i[k] \in 0..Depth /\ Reached(i[k])
               /\ node[k] = w[i[k]][k]
    BY <2>1 DEF IsWalk, TypeOK, Reached
  <2>3. ASSUME NEW k \in Servers, OnPath(i[k]) PROVE node[k] = gen[i[k]][k]
    BY <2>1, <2>2, <2>3 DEF IsWalk
  <2>4. ASSUME i[0] = i[1], ~OnPath(i[0]) PROVE node[0] = node[1]
    BY <2>1, <2>2, <2>4 DEF IsWalk, Servers
  <2>5. \A j \in 0..level : gen[j][1].t = ~gen[j][0].t
    BY DEF Growth
  <2> QED
    BY <2>3, <2>4, <2>5 DEF Lockstep
<1> QED
  BY <1>1, TypeCorrect, GrowthInvariant, WalkInvariant, PTL
-----------------------------------------------------------------------------
(* The shares.                                                             *)

Element(s) == Raw[s]

Shared ==
   /\ ready => final = FinalWord(Element(gen[Depth][0].s), Element(gen[Depth][1].s),
                                 gen[Depth][1].t)
   /\ \A k \in done : /\ ready /\ i[k] = Depth
                      /\ out[k] = Share(k, Element(node[k].s))

\* When no seed converts to ModP, client and servers convert a seed to the same
\* element, and a share stays what it was when the server wrote it.
LEMMA SharedInvariant == NoResample /\ Spec => []Shared
<1> SUFFICES ASSUME NoResample PROVE Spec => []Shared
  OBVIOUS
<1>0. \A s \in Seeds : ToElement(Raw[s]) = {Element(s)}
  BY FssConstants DEF ToElement, NoResample, Element
<1>1. Init => Shared
  BY DEF Init, Shared
<1>2. TypeOK /\ Growth /\ Shared /\ [Next]_vars => Shared'
  <2> SUFFICES ASSUME TypeOK, Growth, Shared, [Next]_vars PROVE Shared'
    OBVIOUS
  <2>1. CASE GenLevel
    <3>1. ~ready /\ ready' = ready
      BY <2>1, FssConstants DEF GenLevel, Growth
    <3> QED
      BY <2>1, <3>1 DEF GenLevel, Shared, serverVars
  <2>2. CASE GenFinal
    <3>1. Depth \in 0..Depth /\ gen[Depth][0].s \in Seeds /\ gen[Depth][1].s \in Seeds
      BY FssConstants DEF TypeOK, Node, Servers
    <3>2. final' = FinalWord(Element(gen[Depth][0].s), Element(gen[Depth][1].s), gen[Depth][1].t)
      BY <2>2, <3>1, <1>0 DEF GenFinal
    <3>3. done = {} /\ done' = done /\ gen' = gen /\ b' = b
      BY <2>2 DEF GenFinal, Shared, serverVars
    <3> QED
      BY <3>2, <3>3 DEF Shared, FinalWord
  <2>3. ASSUME NEW k \in Servers, EvalLevel(k) PROVE Shared'
    <3>1. /\ i[k] < Depth /\ ready' = ready /\ final' = final /\ gen' = gen /\ b' = b
          /\ done' = done /\ out' = out
          /\ \A q \in Servers : q # k => i'[q] = i[q] /\ node'[q] = node[q]
      BY <2>3 DEF EvalLevel, keyVars, TypeOK
    <3>2. k \notin done
      BY <3>1, FssConstants DEF Shared
    <3>3. \A q \in done : q \in Servers /\ q # k
      BY <3>2 DEF TypeOK
    <3> QED
      BY <3>1, <3>3 DEF Shared, Share, FinalWord
  <2>4. ASSUME NEW k \in Servers, EvalFinal(k) PROVE Shared'
    <3>1. node[k].s \in Seeds
      BY DEF TypeOK, Node
    <3>2. out' = [out EXCEPT ![k] = Share(k, Element(node[k].s))]
      BY <2>4, <3>1, <1>0 DEF EvalFinal
    <3>3. /\ ready /\ i[k] = Depth /\ k \notin done /\ done' = done \cup {k}
          /\ node' = node /\ i' = i /\ final' = final /\ ready' = ready
          /\ gen' = gen /\ b' = b
      BY <2>4 DEF EvalFinal, keyVars
    <3>4. out'[k] = Share(k, Element(node[k].s)) /\ \A q \in done : out'[q] = out[q]
      BY <3>2, <3>3 DEF TypeOK
    <3> QED
      BY <3>3, <3>4 DEF Shared, Share, FinalWord
  <2>5. CASE UNCHANGED vars
    BY <2>5 DEF vars, keyVars, serverVars, Shared, Share, FinalWord
  <2> QED
    BY <2>1, <2>2, <2>3, <2>4, <2>5 DEF Next, Finished
<1> QED
  BY <1>1, <1>2, TypeCorrect, GrowthInvariant, PTL DEF Spec

\* At the point itself: server 0 holds e0, server 1 holds e1 in the client's
\* own state, and exactly one of them adds the final word.
LEMMA SumAtPoint ==
  ASSUME NEW P \in Nat, P > 1, NEW v \in 0..(P - 1), NEW e0 \in 0..(P - 1),
         NEW e1 \in 0..(P - 1),
         NEW val \in Nat, val = (((v + (P - e0)) % P) + e1) % P
  PROVE  /\ val < P
         /\ (((e0 + val) % P) + (P - (e1 % P))) % P = v
         /\ ((e0 % P) + (P - ((e1 + (P - val)) % P))) % P = v
<1>1. (v + (P - e0)) % P = (IF v + P - e0 < P THEN v + P - e0 ELSE v - e0)
  OBVIOUS
<1>2. val = (IF v - e0 + e1 < 0 THEN v - e0 + e1 + P
             ELSE IF v - e0 + e1 < P THEN v - e0 + e1 ELSE v - e0 + e1 - P)
  <2> DEFINE u == (v + (P - e0)) % P
  <2>1. u \in 0..(P - 1) /\ val = (u + e1) % P
    BY <1>1
  <2>2. (u + e1) % P = (IF u + e1 < P THEN u + e1 ELSE u + e1 - P)
    <3> HIDE DEF u
    <3> QED
      BY <2>1
  <2> QED
    BY <1>1, <2>1, <2>2
<1>3. val < P
  BY <1>2
<1>4. e0 % P = e0 /\ e1 % P = e1
  OBVIOUS
<1>5. (e0 + val) % P = (IF e0 + val < P THEN e0 + val ELSE e0 + val - P)
  BY <1>3
<1>6. (e1 + (P - val)) % P = (IF e1 < val THEN e1 + P - val ELSE e1 - val)
  <2>1. e1 + (P - val) \in Nat /\ e1 + (P - val) < 2 * P
    BY <1>3
  <2> QED
    BY <2>1, <1>3
<1>7. (((e0 + val) % P) + (P - e1)) % P = v
  <2> DEFINE y == (e0 + val) % P
  <2>1. y \in 0..(P - 1) /\ (y + (P - e1) = v \/ y + (P - e1) = v + P)
    BY <1>2, <1>3, <1>5
  <2>2. y + (P - e1) \in Nat /\ y + (P - e1) < 2 * P
    BY <2>1
  <2> HIDE DEF y
  <2>3. (y + (P - e1)) % P = v
    BY <2>1, <2>2
  <2> QED
    BY <2>3 DEF y
<1>8. (e0 + (P - ((e1 + (P - val)) % P))) % P = v
  <2> DEFINE z == (e1 + (P - val)) % P
  <2>1. z \in 0..(P - 1) /\ (e0 + (P - z) = v \/ e0 + (P - z) = v + P)
    BY <1>2, <1>3, <1>6
  <2>2. e0 + (P - z) \in Nat /\ e0 + (P - z) < 2 * P
    BY <2>1
  <2> HIDE DEF z
  <2>3. (e0 + (P - z)) % P = v
    BY <2>1, <2>2
  <2> QED
    BY <2>3 DEF z
<1> QED
  BY <1>3, <1>4, <1>7, <1>8

\* Two inputs are equal when they agree in every bit.
LEMMA SameBits ==
  ASSUME NEW p \in Bits, NEW q \in Bits
  PROVE  p = q <=> \A j \in 1..Depth : p[j] = q[j]
<1>1. ASSUME \A j \in 1..Depth : p[j] = q[j] PROVE p = q
  <2> DEFINE D == 1..Depth
  <2>1. p \in [D -> BOOLEAN] /\ q \in [D -> BOOLEAN] /\ \A j \in D : p[j] = q[j]
    BY <1>1 DEF Bits
  <2> HIDE DEF D
  <2>2. p = [j \in D |-> p[j]] /\ q = [j \in D |-> q[j]]
    BY <2>1
  <2>3. [j \in D |-> p[j]] = [j \in D |-> q[j]]
    BY <2>1, Zenon
  <2> QED
    BY <2>2, <2>3, Zenon
<1> QED
  BY <1>1

\* No sum that client or servers form from field elements wraps ("no
\* intermediate results under or overflow", client.go:137).
LEMMA NoWrap ==
  ASSUME NEW n \in Nat, n <= 2 * ModP
  PROVE  U32(n) = n
<1>1. Word \in Nat /\ n < Word
  BY FssConstants DEF Word
<1>2. \A m, w \in Nat : m < w => m % w = m
  OBVIOUS
<1> QED
  BY <1>1, <1>2 DEF U32

\* lib/fss/fss_test.go's assertion, for every depth and every modulus: at the
\* client's point the shares of the servers add up to b, elsewhere to 0.
THEOREM PointFunctionHolds == Supported /\ NoResample /\ Spec => []PointFunction
<1> SUFFICES ASSUME Supported, NoResample PROVE Spec => []PointFunction
  OBVIOUS
<1>1. TypeOK /\ Growth /\ Lockstep /\ Shared => PointFunction
  <2> SUFFICES ASSUME TypeOK, Growth, Lockstep, Shared, done = Servers
               PROVE  (out[0] + out[1]) % ModP = (IF x = a THEN b ELSE 0)
    BY DEF PointFunction
  <2> DEFINE n0 == node[0]
             n1 == node[1]
             e0 == Element(n0.s)
             e1 == Element(n1.s)
  <2>1. ready /\ level = Depth /\ i[0] = Depth /\ i[1] = Depth /\ Depth \in 0..level
    BY FssConstants DEF Shared, Growth, Servers
  <2>2. out[0] = Share(0, e0) /\ out[1] = Share(1, e1)
    BY DEF Shared, Servers
  <2>3. n0 \in Node /\ n1 \in Node
    BY DEF TypeOK, Servers
  <2>4. ModP \in Nat /\ ModP > 1
    BY FssConstants
  <2>5. e0 \in 0..(ModP - 1) /\ e1 \in 0..(ModP - 1)
    BY <2>3, <2>4, FssConstants DEF Element, NoResample, Node
  <2>6. x = a <=> OnPath(Depth)
    BY SameBits DEF OnPath, TypeOK
  <2>7. final \in 0..ModP /\ b \in 0..(ModP - 1)
    BY DEF TypeOK
  <2>8. \A k \in Servers, e \in 0..(ModP - 1) :
          U32(e + (IF node[k].t THEN final ELSE 0)) = e + (IF node[k].t THEN final ELSE 0)
    BY <2>4, <2>7, NoWrap
  <2>9. CASE OnPath(Depth)
    <3>1. n0 = gen[Depth][0] /\ n1 = gen[Depth][1] /\ n1.t = ~n0.t
      BY <2>1, <2>9 DEF Lockstep, Servers
    <3>2. n0.t \in BOOLEAN
      BY <2>3 DEF Node
    <3> DEFINE val == (((b + (ModP - e0)) % ModP) + e1) % ModP
    <3>3. final = IF n1.t THEN ModP - val ELSE val
      <4>1. final = FinalWord(e0, e1, n1.t)
        BY <2>1, <3>1 DEF Shared
      <4> HIDE DEF e0, e1
      <4>2. U32(ModP - e0) = ModP - e0
        BY <2>4, <2>5, NoWrap
      <4>3. U32(b + (ModP - e0)) = b + (ModP - e0)
        BY <2>4, <2>5, <2>7, NoWrap
      <4>4. (b + (ModP - e0)) % ModP \in 0..(ModP - 1)
        BY <2>4, <2>5, <2>7
      <4>5. U32(((b + (ModP - e0)) % ModP) + e1) = ((b + (ModP - e0)) % ModP) + e1
        <5> DEFINE u == (b + (ModP - e0)) % ModP
        <5>1. u \in 0..(ModP - 1)
          BY <4>4
        <5> HIDE DEF u
        <5>2. U32(u + e1) = u + e1
          BY <2>4, <2>5, <5>1, NoWrap
        <5> QED
          BY <5>2 DEF u
      <4> QED
        BY <4>1, <4>2, <4>3, <4>5 DEF FinalWord
    <3>4. /\ val < ModP
          /\ (((e0 + val) % ModP) + (ModP - (e1 % ModP))) % ModP = b
          /\ ((e0 % ModP) + (ModP - ((e1 + (ModP - val)) % ModP))) % ModP = b
      <4> HIDE DEF e0, e1
      <4>1. val \in Nat
        BY <2>4, <2>5, <2>7
      <4> QED
        BY <2>4, <2>5, <2>7, <4>1, SumAtPoint
    <3> HIDE DEF val, e0, e1
    <3>5. CASE n1.t
      <4>1. Share(0, e0) = (e0 + 0) % ModP /\ Share(1, e1) = ModP - ((e1 + final) % ModP)
        BY <2>5, <2>8, <3>1, <3>5 DEF Share, Servers
      <4>2. Share(0, e0) = e0 % ModP
        BY <4>1, <2>5
      <4> QED
        BY <2>2, <2>6, <2>9, <3>3, <3>4, <3>5, <4>1, <4>2
    <3>6. CASE ~n1.t
      <4>1. Share(0, e0) = (e0 + final) % ModP /\ Share(1, e1) = ModP - ((e1 + 0) % ModP)
        BY <2>5, <2>8, <3>1, <3>2, <3>6 DEF Share, Servers
      <4>2. Share(1, e1) = ModP - (e1 % ModP)
        BY <4>1, <2>5
      <4> QED
        BY <2>2, <2>6, <2>9, <3>3, <3>4, <3>6, <4>1, <4>2
    <3> QED
      BY <3>5, <3>6
  <2>10. CASE ~OnPath(Depth)
    <3>1. n0 = n1
      BY <2>1, <2>10 DEF Lockstep
    <3> DEFINE n == e0 + (IF n0.t THEN final ELSE 0)
               y == n % ModP
    <3>2. Share(0, e0) = y /\ Share(1, e1) = ModP - y
      <4>1. e1 = e0
        BY <3>1
      <4> QED
        BY <2>5, <2>8, <3>1, <4>1 DEF Share, Servers
    <3>3. y \in 0..(ModP - 1)
      <4>1. n \in Nat
        BY <2>4, <2>5, <2>7
      <4> HIDE DEF n
      <4> QED
        BY <2>4, <4>1
    <3> HIDE DEF y
    <3>4. (y + (ModP - y)) % ModP = 0
      BY <2>4, <3>3
    <3> QED
      BY <2>2, <2>6, <2>10, <3>2, <3>4
  <2> QED
    BY <2>9, <2>10
<1> QED
  BY <1>1, TypeCorrect, GrowthInvariant, LockstepHolds, SharedInvariant, PTL
=============================================================================

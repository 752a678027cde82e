------------------------------ MODULE FssTree -------------------------------
(***************************************************************************)
(* The two-party point function of lib/fss: the client builds two keys for *)
(* the function that is b at the point a and 0 elsewhere (GenerateTreePF), *)
(* one level of the binary tree per bit of a; each server then walks down  *)
(* the tree along the bits of its own input x (EvaluatePF).                *)
(*                                                                         *)
(* A 16-byte seed is a subset of SeedBits, so XOR is symmetric difference; *)
(* a control bit t is a BOOLEAN.  prf is any function G from seeds to two  *)
(* child nodes.  The positions of the output vector are independent: the   *)
(* module has one of them, Raw[s] being the 31 bits that convertBlock      *)
(* draws for it from the final seed s.  uint32 arithmetic wraps at Word.   *)
(***************************************************************************)
EXTENDS Integers

CONSTANTS SeedBits,  (* the bits of a seed (128 in the code)               *)
          Depth,     (* f.NumBits, the length of the input                 *)
          MaxBits,   (* f.N, the number of input bits FSS supports (256)   *)
          ModP,      (* the modulus of lib/field (2^31 - 1)                *)
          G,         (* G[s][side]: the node prf derives on either side    *)
          Raw        (* Raw[s]: the masked bytes handed to toElement       *)

Seeds == SUBSET SeedBits
Node == [s : Seeds, t : BOOLEAN]

ASSUME FssConstants == /\ Depth \in Nat /\ MaxBits \in Nat
                       /\ ModP \in Nat /\ ModP > 1
                       /\ G \in [Seeds -> [BOOLEAN -> Node]]
                       /\ Raw \in [Seeds -> 0..ModP]

Word == 2 * (ModP + 1)
U32(n) == n % Word

Xor(A, B) == (A \ B) \cup (B \ A)
Gate(t, A) == IF t THEN A ELSE {}

Bits == [1..Depth -> BOOLEAN]
Servers == {0, 1}
CorrectionWord == [s : Seeds, t : [BOOLEAN -> BOOLEAN]]
NoCW == [s |-> {}, t |-> [side \in BOOLEAN |-> FALSE]]

VARIABLES a,      (* the client's point, one bit per level                  *)
          b,      (* the value at a, in one position of the vector          *)
          x,      (* the input both servers evaluate                        *)
          level,  (* the loop counter i of GenerateTreePF                   *)
          gen,    (* gen[i][k] = (sCurr, tCurr) of key k before level i + 1; *)
                  (* the code keeps the last one only                       *)
          cw,     (* fssKeys[_].CW                                          *)
          final,  (* fssKeys[_].FinalCW                                     *)
          ready,  (* the keys were sent                                     *)
          i,      (* i[k]: loop counter of server k in EvaluatePF           *)
          node,   (* node[k] = (sCurr, tCurr) of server k                   *)
          done,   (* the servers that have filled out                       *)
          out     (* out[k]: server k's share                               *)

keyVars == <<a, b, x, level, gen, cw, final, ready>>
serverVars == <<i, node, done, out>>
vars == <<keyVars, serverVars>>

(* The ranges of the variables.  A share is at most ModP, so the sum        *)
(* out[j] + tmp[j] that the servers' loop (lib/server/fss.go) reduces       *)
(* modulo ModP stays within 32 bits.                                        *)
TypeOK == /\ a \in Bits /\ x \in Bits
          /\ b \in 0..(ModP - 1)
          /\ level \in 0..Depth
          /\ gen \in [0..Depth -> [Servers -> Node]]
          /\ cw \in [1..Depth -> CorrectionWord]
          /\ final \in 0..ModP
          /\ ready \in BOOLEAN
          /\ i \in [Servers -> 0..Depth]
          /\ node \in [Servers -> Node]
          /\ done \subseteq Servers
          /\ out \in [Servers -> 0..ModP]

\* The root seeds are random, the root control bits are complementary.
Init == /\ a \in Bits /\ x \in Bits
        /\ b \in 0..(ModP - 1)
        /\ \E root \in [Servers -> Node] :
              /\ root[1].t = ~root[0].t
              /\ gen = [j \in 0..Depth |-> root]
              /\ node = root
        /\ level = 0
        /\ cw = [j \in 1..Depth |-> NoCW]
        /\ final = 0
        /\ ready = FALSE
        /\ i = [k \in Servers |-> 0]
        /\ done = {}
        /\ out = [k \in Servers |-> 0]

\* field.toElement: a value equal to ModP is replaced by a fresh draw, which
\* is not masked to 31 bits.
ToElement(n) == IF n = ModP THEN 0..(Word - 1) \ {ModP} ELSE {n}

\* The node below nd on the given side, corrected by c.
Child(nd, c, side) ==
   [s |-> Xor(G[nd.s][side].s, Gate(nd.t, c.s)),
    t |-> G[nd.s][side].t # (nd.t /\ c.t[side])]
-----------------------------------------------------------------------------
(* The client: one iteration of the loop over the bits of a.               *)

\* Deviation: the kept half is used where the lost one is meant.
CorrectionFor_Dev(n0, n1, bit) ==
   [s |-> Xor(G[n0.s][bit].s, G[n1.s][bit].s),
    t |-> [side \in BOOLEAN |->
             (G[n0.s][side].t # G[n1.s][side].t) # (side = bit)]]

\* The correction word makes the seeds of the two keys equal on the side that
\* leaves the path, and their control bits equal there and different on it.
CorrectionFor(n0, n1, bit) ==
   [s |-> Xor(G[n0.s][~bit].s, G[n1.s][~bit].s),
    t |-> [side \in BOOLEAN |->
             (G[n0.s][side].t # G[n1.s][side].t) # (side = bit)]]

GenLevel ==
   /\ level < Depth
   /\ LET bit == a[level + 1]
          c == CorrectionFor(gen[level][0], gen[level][1], bit)
      IN  /\ cw' = [cw EXCEPT ![level + 1] = c]
          /\ gen' = [gen EXCEPT ![level + 1] =
                       [k \in Servers |-> Child(gen[level][k], c, bit)]]
   /\ level' = level + 1
   /\ UNCHANGED <<a, b, x, final, ready, serverVars>>

\* Deviation: the sign of the control bit is forgotten.
FinalWord_Dev(e0, e1, t1) == U32((U32(b + U32(ModP - e0)) % ModP) + e1) % ModP

\* After the loop: the word that turns the difference of the two converted
\* seeds into b; its sign depends on which key ends with control bit 1.
FinalWord(e0, e1, t1) ==
   LET val == U32((U32(b + U32(ModP - e0)) % ModP) + e1) % ModP
   IN  IF t1 THEN ModP - val ELSE val

GenFinal ==
   /\ level = Depth /\ ~ready
   /\ \E e0 \in ToElement(Raw[gen[Depth][0].s]), e1 \in ToElement(Raw[gen[Depth][1].s]) :
         final' = FinalWord(e0, e1, gen[Depth][1].t)
   /\ ready' = TRUE
   /\ UNCHANGED <<a, b, x, level, gen, cw, serverVars>>
-----------------------------------------------------------------------------
(* Server k.                                                               *)

\* The bit for loop counter j; the one past the supported input is read as 0.
InputBit(j) == j # MaxBits /\ x[j + 1]

EvalLevel(k) ==
   /\ ready /\ i[k] < Depth
   /\ node' = [node EXCEPT ![k] = Child(@, cw[i[k] + 1], InputBit(i[k]))]
   /\ i' = [i EXCEPT ![k] = @ + 1]
   /\ UNCHANGED <<keyVars, done, out>>

\* Deviation: the reduction before the negation is left out.
Share_Dev(k, e) == LET y == U32(e + (IF node[k].t THEN final ELSE 0))
                   IN  IF k = 0 THEN y ELSE ModP - y

Share(k, e) == LET y == U32(e + (IF node[k].t THEN final ELSE 0)) % ModP
               IN  IF k = 0 THEN y ELSE ModP - y

EvalFinal(k) ==
   /\ ready /\ i[k] = Depth /\ k \notin done
   /\ \E e \in ToElement(Raw[node[k].s]) : out' = [out EXCEPT ![k] = Share(k, e)]
   /\ done' = done \cup {k}
   /\ UNCHANGED <<keyVars, i, node>>

Finished == done = Servers /\ UNCHANGED vars

Next == \/ GenLevel
        \/ GenFinal
        \/ \E k \in Servers : EvalLevel(k) \/ EvalFinal(k)
        \/ Finished

Spec == Init /\ [][Next]_vars
-----------------------------------------------------------------------------
OnPath(n) == \A j \in 1..n : x[j] = a[j]

(* While the server's input agrees with the client's point, the server is  *)
(* in the state the client computed for its key, and the two control bits  *)
(* differ; from the first bit that disagrees on, at the same depth, the    *)
(* servers are in one and the same state.                                  *)
Lockstep == /\ \A k \in Servers : OnPath(i[k]) => node[k] = gen[i[k]][k]
            /\ \A j \in 0..level : gen[j][1].t = ~gen[j][0].t
            /\ i[0] = i[1] /\ ~OnPath(i[0]) => node[0] = node[1]

(* What lib/fss/fss_test.go asserts of every key pair: the shares of the   *)
(* two servers add up to b at the point and to 0 at any other input.       *)
PointFunction == done = Servers =>
                    (out[0] + out[1]) % ModP = (IF x = a THEN b ELSE 0)
=============================================================================

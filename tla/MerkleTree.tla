----------------------------- MODULE MerkleTree -----------------------------
(* lib/merkle: the tree over the blocks of a database, its proofs and      *)
(* their wire form.  A hash is the tuple of what was hashed, so that equal *)
(* hashes are hashes of equal values; a byte is a set of atoms, as in      *)
(* KeyTable, and a number or a hash takes one byte on the wire.            *)
EXTENDS Sequences, FiniteSetsExt, Dimensions

Leaf(data, index)   == <<"leaf", data, index>>
Branch(left, right) == <<"branch", left, right>>
Zeros               == <<"zeros">>

\* Blocks are numbered from 0.  The tree is padded with zeros to a power of
\* two; its data finds the last of several equal blocks.
NewUsing(blocks) ==
  LET n == Cardinality(DOMAIN blocks)
      branchesLen == 2 ^ Levels(n)
      nodes[i \in 1 .. 2 * branchesLen - 1] ==
        IF i < branchesLen THEN Branch(nodes[2 * i], nodes[2 * i + 1])
        ELSE IF i - branchesLen < n THEN Leaf(blocks[i - branchesLen], i - branchesLen)
        ELSE Zeros
  IN  [nodes |-> nodes,
       data  |-> [b \in {blocks[i] : i \in 0 .. n - 1} |->
                    Max({i \in 0 .. n - 1 : blocks[i] = b})]]

Root(tree) == tree.nodes[1]

Depth(tree)    == Levels((Cardinality(DOMAIN tree.nodes) + 1) \div 2)
proofLen(tree) == Levels(Cardinality(DOMAIN tree.data))

\* The path to the root is longer than the room made for its hashes.
ProofPanics(tree) == Depth(tree) > proofLen(tree)

\* Deviation: i | 1 instead of i ^ 1, a right node's sibling is itself.
Sibling_Dev(i) == IF i % 2 = 0 THEN i + 1 ELSE i

Sibling(i) == IF i % 2 = 0 THEN i + 1 ELSE i - 1

GenerateProof(tree, data) ==
  LET index == tree.data[data]
      leaf  == index + 2 ^ Depth(tree)
  IN  [Hashes |-> [c \in 1 .. proofLen(tree) |-> tree.nodes[Sibling(leaf \div (2 ^ (c - 1)))]],
       Index  |-> index]

EncodedProofLength(tree) == proofLen(tree) + 2

EncodeProof(proof) ==
  <<{<<"hashes", Len(proof.Hashes)>>}>>
    \o [i \in DOMAIN proof.Hashes |-> {<<"hash", proof.Hashes[i]>>}]
    \o <<{<<"index", proof.Index>>}>>

Content(byte) == (CHOOSE atom \in byte : TRUE)[2]

DecodeProof(bytes) ==
  [Hashes |-> [i \in 1 .. Content(bytes[1]) |-> Content(bytes[1 + i])],
   Index  |-> Content(bytes[Len(bytes)])]

generateProofHash(data, proof) ==
  LET depth == Len(proof.Hashes)
      proofHash[c \in 0 .. depth] ==
        IF c = 0 THEN Leaf(data, proof.Index)
        ELSE IF ((proof.Index + 2 ^ depth) \div (2 ^ (c - 1))) % 2 = 0
             THEN Branch(proofHash[c - 1], proof.Hashes[c])
             ELSE Branch(proof.Hashes[c], proofHash[c - 1])
  IN  proofHash[depth]

VerifyProof(data, proof, root) == generateProofHash(data, proof) = root
=============================================================================

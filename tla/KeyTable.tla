------------------------------ MODULE KeyTable ------------------------------
(***************************************************************************)
(* The database of the point schemes: how lib/database/pgp.go arranges the *)
(* keys of a dump in a hash table and stores the table, plain or with      *)
(* Merkle proofs, and how a client finds a key in the block it retrieved.  *)
(*                                                                         *)
(* A byte is a finite set of atoms and XOR is symmetric difference, so a   *)
(* sum of bytes that are not equal is never mistaken for another byte.  A  *)
(* key is [ID, Packet], the IDs being numbers in the order of the strings. *)
(* The wire form of a proof is a single byte here.                         *)
(***************************************************************************)
EXTENDS Integers, Sequences, FiniteSetsExt, Dimensions

CONSTANTS Hash,          (* blake2b: Hash[id], a number                     *)
          KeysPerBlock,  (* 1 / numKeysToDBLengthRatio                      *)
          PacketLen,     (* the length of a serialised key                  *)
          EmailOf        (* EmailOf[packet]: PrimaryEmail of the key        *)

ASSUME LengthsAssumption == KeysPerBlock \in Nat \ {0} /\ PacketLen \in Nat \ {0}

Zero == {}
Mark == {<<"0x80">>}
ProofByte(proof) == {<<"proof", proof.Index, proof.Hashes>>}

HashToIndex(id, length) == Hash[id] % length

\* The place of a key after sorting; sort.Slice leaves open which of two equal
\* IDs comes first, and here it is the one that did before.
Rank(keys, m) ==
   1 + Cardinality({k \in DOMAIN keys : \/ keys[k].ID > keys[m].ID
                                        \/ keys[k].ID = keys[m].ID /\ k < m})

sortById(keys) == [n \in DOMAIN keys |-> keys[CHOOSE m \in DOMAIN keys : Rank(keys, m) = n]]

\* A key is appended to what its bucket holds.
AddKey(table, key, tableLen) ==
   [table EXCEPT ![HashToIndex(key.ID, tableLen)] = @ \o key.Packet]

makeHashTable(keys, tableLen) ==
   LET table[n \in 0..Len(keys)] ==
          IF n = 0 THEN [i \in 0..(tableLen - 1) |-> <<>>]
                   ELSE AddKey(table[n - 1], keys[n], tableLen)
   IN  table[Len(keys)]

PadWithSignalByte(block) == Append(block, Mark)

\* A bucket without keys is no entry of the Go map, and its block stays nil.
Blocks(table) == [i \in DOMAIN table |->
                    IF table[i] = <<>> THEN <<>> ELSE PadWithSignalByte(table[i])]

MaxLen(blocks) == Max({Len(blocks[i]) : i \in DOMAIN blocks})

\* Trailing zeros and the byte before them; a block of zeros has none.
Significant(block) == {n \in 1..Len(block) : block[n] # Zero}
UnPadPanics(block) == Significant(block) = {}
UnPadBlock(block) == SubSeq(block, 1, Max(Significant(block)) - 1)
-----------------------------------------------------------------------------
(* lib/merkle at its contract: a root is the blocks themselves, a proof the *)
(* blocks without the one at Index.  GenerateProof looks a block up by its  *)
(* content and finds the last one that is equal.                            *)

GenerateProof(blocks, i) ==
   LET index == Max({j \in DOMAIN blocks : blocks[j] = blocks[i]})
   IN  [Index |-> index, Hashes |-> [blocks EXCEPT ![index] = <<>>]]

\* GenerateProof makes room for the hashes by the number of distinct blocks,
\* and fills them by the depth of the tree; it panics when these differ.
ProofFits(blocks) ==
   Levels(Cardinality({blocks[i] : i \in DOMAIN blocks})) = Levels(Cardinality(DOMAIN blocks))

\* Deviation: the root is not compared.
VerifyProof_Dev(data, byte, root) == TRUE

IsProof(byte) == \E e \in byte : byte = {e} /\ e[1] = "proof"
VerifyProof(data, byte, root) ==
   \E e \in byte : [e[3] EXCEPT ![e[2]] = data] = root
-----------------------------------------------------------------------------
(* The database of one server.                                             *)

ProofLen == 1

Database(keys, merkle, matrix) ==
   LET size == CalculateNumRowsAndColumns(Len(keys) \div KeysPerBlock, matrix)
       table == makeHashTable(sortById(keys), size.rows * size.columns)
       blocks == Blocks(table)
       entries == IF merkle
                  THEN [i \in DOMAIN blocks |->
                          PadWithSignalByte(Append(blocks[i], ProofByte(GenerateProof(blocks, i))))]
                  ELSE blocks
   IN  [NumRows |-> size.rows, NumColumns |-> size.columns,
        BlockSize |-> MaxLen(entries),
        merkle |-> merkle,
        Root |-> IF merkle THEN blocks ELSE <<>>,
        Entries |-> entries]
-----------------------------------------------------------------------------
(* openpgp.ReadKeyRing and pgp.RecoverKeyFromBlock.                        *)

Packet(block, n) == SubSeq(block, (n - 1) * PacketLen + 1, n * PacketLen)
NumPackets(block) == Len(block) \div PacketLen
IsKeyRing(block) == /\ Len(block) % PacketLen = 0
                    /\ \A n \in 1..NumPackets(block) : Packet(block, n) \in DOMAIN EmailOf

Holders(block, email) ==
   {n \in 1..NumPackets(block) : /\ Packet(block, n) \in DOMAIN EmailOf
                                 /\ EmailOf[Packet(block, n)] = email}

\* Deviation: the first key of the ring, whoever's it is.
RecoverKeyFromBlock_Dev(block, email) == Packet(block, 1)

RecoverKeyFromBlock(block, email) == Packet(block, Min(Holders(block, email)))
=============================================================================

--------------------------- MODULE MerkleBatches ---------------------------
(***************************************************************************)
(* Every way to split MaxBlocks blocks into commits of at most MaxBatch    *)
(* blocks, with every node of every commit kept in the store.              *)
(***************************************************************************)
EXTENDS MerkleTree, SequencesExt

CONSTANTS MaxBlocks, MaxBatch

VARIABLES
    nodes,     \* the stored tree nodes
    blocks,    \* how many blocks the tree holds
    roots      \* the results of the commits so far, roots[c + 1] of commit c

BlockHash(seq) == HashBlock(seq)

BatchesInit == nodes = <<>> /\ blocks = 0 /\ roots = <<>>

AppendBlocks(n) ==
    /\ blocks + n <= MaxBlocks
    /\ LET hashes == [i \in 1 .. n |-> BlockHash(blocks + i - 1)]
           u == Update(nodes, blocks, hashes, Len(roots))
       IN  /\ nodes' = FoldLeft(Put, nodes, u.puts)
           /\ roots' = Append(roots, [tip |-> blocks + n - 1,
                                      key |-> u.root_key, hash |-> u.root_hash])
    /\ blocks' = blocks + n

BatchesNext == \E n \in 1 .. MaxBatch : AppendBlocks(n)

-----------------------------------------------------------------------------
\* However the blocks were batched, update (merkletree.cc:8) returns the root
\* of the tree built at once over all the blocks up to the commit's tip, and
\* getProof (merkletree.cc:77) for any of those blocks still verifies against
\* that root after all the later updates of the store.
CommitsProveBlocks ==
    \A c \in DOMAIN roots :
        /\ roots[c].hash = RefRoot([i \in 1 .. roots[c].tip + 1 |-> BlockHash(i - 1)])
        /\ \A seq \in 0 .. roots[c].tip :
              LET p == getProof(nodes, c - 1, roots[c].key, roots[c].tip, seq)
              IN  p.digest = roots[c].hash /\ p.value = BlockHash(seq) /\ Verify(p)
=============================================================================

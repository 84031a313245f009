-------------------------- MODULE LedgerTreeProofs ---------------------------
(***************************************************************************)
(* What LedgerDB commits and serves, for any keys, timestamps and number   *)
(* of blocks, in a store that is not opened twice: every commit entry has  *)
(* the roots of its prefix of the blocks, every proof assembled while the  *)
(* build thread writes verifies, and what Audit accepts.                   *)
(***************************************************************************)
EXTENDS LedgerDBProofs, LedgerAudit, MerkleTreeProofs

\* The leaves of the tree over the first n blocks of a ledger.
BlockHashes(blocks, n) == [i \in 1 .. n |-> HashBlock(blocks[i - 1])]

\* An entry has the root of the tree over its blocks, and the store its nodes.
EntryTree(nodes, blocks, c, entry) ==
    LET n == entry.tip_block + 1
    IN  /\ HasTree(nodes, BlockHashes(blocks, n), c)
        /\ entry.mtroot = RefRoot(BlockHashes(blocks, n))
        /\ entry.mtrootkey = NodeKey(n, c, RefHeight(n - 1), 0)

TreeInv ==
    /\ NoSibling \notin DOMAIN mt
    /\ \A c \in DOMAIN commits : EntryTree(mt, ledger, c, commits[c])

\* The nodes that the update of a round computes.
RoundPuts(blocks, start, n, c) == PutsTo(BlockHashes(blocks, n), start, c, RefHeight(n - 1))

\* Between the computation of an update and the commit entry each of its nodes
\* is stored or about to be.
PutsLeft(nodes, blocks, start, n, c, left) ==
    /\ left \in Seq(RoundPuts(blocks, start, n, c))
    /\ \A p \in RoundPuts(blocks, start, n, c) :
          \/ \E j \in 1 .. Len(left) : left[j] = p
          \/ p[1] \in DOMAIN nodes /\ nodes[p[1]] = p[2]

\* The results of the update are those of the tree over the committed blocks
\* and the batch.
RootOf(blocks, n, c, r) ==
    /\ r.root_hash = RefRoot(BlockHashes(blocks, n))
    /\ r.root_key = NodeKey(n, c, RefHeight(n - 1), 0)

RoundTreeInv ==
    /\ DOMAIN root = {"hashes", "root_key", "root_hash"}
    /\ root.hashes = [j \in 1 .. Len(batch) |-> HashBlock(ledger[batch[j].blk_seq])]
    /\ bpc \in {"update", "digest"} =>
          /\ PutsLeft(mt, ledger, Built, Built + Len(batch), commit_seq, puts)
          /\ RootOf(ledger, Built + Len(batch), commit_seq, root)

\* The request in progress: the commit it is for, what it reads, and what the
\* reads so far have returned.
ReadsOf(blocks, entry, c, r) ==
    LET leaves == BlockHashes(blocks, entry.tip_block + 1)
    IN  /\ r.root = entry.mtroot /\ r.tip = entry.tip_block
        /\ r.blk = 0 => r.keys = <<>> /\ r.got = <<>>
        /\ r.blk > 0 => /\ r.keys = ProofKeys(c, entry.mtrootkey, entry.tip_block, r.blk)
                        /\ r.got \in Seq({ProofValue(leaves, r.blk, j) : j \in 1 .. Len(r.keys)})
                        /\ Len(r.got) <= Len(r.keys)
                        /\ \A j \in 1 .. Len(r.got) : r.got[j] = ProofValue(leaves, r.blk, j)

RequestInv ==
    /\ spc \in {"commit", "read"} =>
          /\ DOMAIN req = DOMAIN NoReq
          /\ req.commit_seq \in 0 .. commit_seq - 1
          /\ req.blk \in 0 .. commits[req.commit_seq].tip_block
    /\ spc = "commit" => req.keys = <<>> /\ req.got = <<>>
    /\ spc = "read" => ReadsOf(ledger, commits[req.commit_seq], req.commit_seq, req)

\* The largest tip a client can have been sent.
LastTip == IF commit_seq = 0 THEN 0 ELSE Built - 1

ReqInv == tip_block \in Nat /\ tip_block <= LastTip /\ RequestInv

-----------------------------------------------------------------------------
(* What a step leaves alone *)

\* So the leaves of a tree over stored blocks stay the same.
LEMMA LeavesStay ==
    ASSUME NEW a, NEW b, NEW m, \A i \in 0 .. m - 1 : b[i] = a[i], m \in Nat,
           NEW n \in 0 .. m
    PROVE  BlockHashes(b, n) = BlockHashes(a, n)
  <1>1. \A i \in 1 .. n : b[i - 1] = a[i - 1]
    OBVIOUS
  <1> QED BY <1>1 DEF BlockHashes

\* The leaves are hashes of blocks: their number, and that none is missing.
LEMMA LeavesFacts ==
    ASSUME NEW blocks, NEW n \in Nat
    PROVE  /\ Len(BlockHashes(blocks, n)) = n
           /\ \A j \in 1 .. n : /\ BlockHashes(blocks, n)[j] = HashBlock(blocks[j - 1])
                                /\ BlockHashes(blocks, n)[j] # Missing
  <1>1. BlockHashes(blocks, n) = [i \in 1 .. n |-> HashBlock(blocks[i - 1])]
    BY Zenon DEF BlockHashes
  <1>2. Len(BlockHashes(blocks, n)) = n
    BY <1>1
  <1>3. \A j \in 1 .. n : BlockHashes(blocks, n)[j] = HashBlock(blocks[j - 1])
    BY <1>1
  <1>4. \A x : HashBlock(x) # Missing
    BY DEF HashBlock, Missing
  <1> QED BY <1>2, <1>3, <1>4

\* The tree over blocks of the ledger fits under the bound on its height.
LEMMA TreeFits ==
    ASSUME NEW n \in Nat \ {0}, n <= MaxBlocks
    PROVE  Ancestor(n - 1, MaxLevel) = 0
  BY TreeAssumption, LedgerAssumption

-----------------------------------------------------------------------------
(* The bAMT: before and during an update *)

\* The nodes of an update, one by one.
LEMMA PutMember ==
    ASSUME NEW leaves, NEW start, NEW c, NEW top, NEW p
    PROVE  p \in PutsTo(leaves, start, c, top) <=>
               \E l \in 0 .. top : \E i \in Ancestor(start, l) .. Ancestor(Len(leaves) - 1, l) :
                   p = <<NodeKey(Len(leaves), c, l, i), Node(leaves, l, i)>>
  <1>1. \A l : p \in LevelPuts(leaves, start, c, l) <=>
                 \E i \in Ancestor(start, l) .. Ancestor(Len(leaves) - 1, l) :
                     p = <<NodeKey(Len(leaves), c, l, i), Node(leaves, l, i)>>
    BY DEF LevelPuts
  <1>2. p \in PutsTo(leaves, start, c, top) <=> \E l \in 0 .. top : p \in LevelPuts(leaves, start, c, l)
    BY DEF PutsTo
  <1> QED BY <1>1, <1>2, Zenon

\* The tree of an entry gives every later tree its complete nodes.
LEMMA EntryComplete ==
    ASSUME IInv, CommitsInv, TreeInv, NEW c \in DOMAIN commits, NEW n \in Nat,
           commits[c].tip_block + 1 <= n
    PROVE  HasComplete(mt, BlockHashes(ledger, n), commits[c].tip_block + 1)
  <1> DEFINE m == commits[c].tip_block + 1
             a == BlockHashes(ledger, m)
             b == BlockHashes(ledger, n)
  <1>1. m \in Nat \ {0} /\ m <= MaxBlocks
    BY LedgerAssumption DEF IInv, TypeOK, CommitsInv
  <1>2. EntryTree(mt, ledger, c, commits[c])
    BY DEF TreeInv
  <1>3. HasTree(mt, a, c)
    BY <1>2, Zenon DEF EntryTree
  <1>4. Len(a) = m /\ Len(b) = n /\ \A j \in 1 .. m : a[j] = b[j]
    BY <1>1, LeavesFacts
  <1>5. Ancestor(m - 1, MaxLevel) = 0
    BY <1>1, TreeFits
  <1> HIDE DEF a, b, m
  <1>6. HasComplete(mt, b, Len(a))
    BY <1>1, <1>3, <1>4, <1>5, TreeHasComplete DEF m
  <1> QED BY <1>4, <1>6 DEF b, m

\* The store has the complete nodes over the committed blocks.
LEMMA CommittedComplete ==
    ASSUME IInv, CommitsInv, TreeInv, NEW n \in Nat, Built <= n
    PROVE  HasComplete(mt, BlockHashes(ledger, n), Built)
  <1>1. CASE commit_seq = 0
    <2>1. Built = 0
      BY <1>1 DEF Built
    <2> QED BY <2>1, NoneComplete
  <1>2. CASE commit_seq # 0
    <2>1. commit_seq - 1 \in DOMAIN commits /\ Built = commits[commit_seq - 1].tip_block + 1
      BY <1>2 DEF Built, IInv, TypeOK
    <2> QED BY <2>1, EntryComplete
  <1> QED BY <1>1, <1>2

\* buildTree calls update with the batch, on top of the committed blocks.
LEMMA RoundArgs ==
    ASSUME IInv, CommitsInv, TreeInv, RoundTreeInv, batch # <<>>
    PROVE  /\ batch[1].blk_seq = Built
           /\ UpdateArgs(mt, BlockHashes(ledger, Built + Len(batch)), Built, root.hashes, commit_seq)
  <1> DEFINE n == Built + Len(batch)
             leaves == BlockHashes(ledger, n)
  <1>1. Len(batch) \in Nat \ {0} /\ Built \in Nat /\ n \in Nat \ {0} /\ n <= MaxBlocks
    BY BatchBounds, LastOfBatch, LedgerAssumption
  <1>2. Len(leaves) = n /\ \A j \in 1 .. n : leaves[j] = HashBlock(ledger[j - 1])
    BY <1>1, LeavesFacts
  <1>3. \A j \in 1 .. Len(batch) : batch[j].blk_seq = Built + j - 1
    BY BatchBounds
  <1>4. batch[1].blk_seq = Built
    BY <1>1, <1>3
  <1>5. n - Built = Len(batch)
    BY <1>1
  <1>6. ASSUME NEW j \in 1 .. Len(batch)
        PROVE  HashBlock(ledger[batch[j].blk_seq]) = leaves[Built + j]
    <2>1. Built + j \in 1 .. n /\ (Built + j) - 1 = Built + j - 1
      BY <1>1
    <2> HIDE DEF n, leaves
    <2> QED BY <1>2, <1>3, <2>1
  <1>7. root.hashes = [j \in 1 .. Len(leaves) - Built |-> leaves[Built + j]]
    <2>1. root.hashes = [j \in 1 .. Len(batch) |-> HashBlock(ledger[batch[j].blk_seq])]
      BY DEF RoundTreeInv
    <2> HIDE DEF leaves
    <2> QED BY <1>2, <1>5, <1>6, <2>1
  <1>8. Ancestor(n - 1, MaxLevel) = 0
    BY <1>1, TreeFits
  <1>9. HasComplete(mt, leaves, Built)
    BY <1>1, CommittedComplete
  <1>10. Built \in 0 .. Len(leaves) - 1
    BY <1>1, <1>2
  <1> HIDE DEF leaves
  <1>11. UpdateArgs(mt, leaves, Built, root.hashes, commit_seq)
    BY <1>1, <1>2, <1>7, <1>8, <1>9, <1>10 DEF UpdateArgs
  <1> QED BY <1>4, <1>11 DEF leaves

\* The update of a round computes the nodes and the root of the tree.
LEMMA EndDrainRound ==
    ASSUME IInv, CommitsInv, TreeInv, RoundTreeInv, EndDrain, batch # <<>>
    PROVE  /\ PutsLeft(mt, ledger, Built, Built + Len(batch), commit_seq, puts')
           /\ RootOf(ledger, Built + Len(batch), commit_seq, root')
           /\ root'.hashes = root.hashes /\ DOMAIN root' = DOMAIN root
  <1> DEFINE n == Built + Len(batch)
             leaves == BlockHashes(ledger, n)
             u == Update(mt, Built, root.hashes, commit_seq)
  <1>1. UpdateArgs(mt, leaves, Built, root.hashes, commit_seq) /\ batch[1].blk_seq = Built
    BY RoundArgs
  <1>2. n \in Nat /\ Len(leaves) = n
    BY BatchBounds, LeavesFacts
  <1>3. /\ puts' = u.puts
        /\ root' = [root EXCEPT !.root_key = u.root_key, !.root_hash = u.root_hash]
    BY <1>1 DEF EndDrain
  <1>4. DOMAIN root = {"hashes", "root_key", "root_hash"}
    BY DEF RoundTreeInv
  <1> HIDE DEF leaves, u
  <1>5. /\ root'.root_key = u.root_key /\ root'.root_hash = u.root_hash
        /\ root'.hashes = root.hashes /\ DOMAIN root' = DOMAIN root
    BY <1>3, <1>4
  <1>6. /\ u.root_hash = RefRoot(leaves)
        /\ u.root_key = NodeKey(Len(leaves), commit_seq, RefHeight(Len(leaves) - 1), 0)
        /\ Lists(u.puts, PutsTo(leaves, Built, commit_seq, RefHeight(Len(leaves) - 1)))
    BY <1>1, UpdateCorrect DEF u
  <1>7. RootOf(ledger, n, commit_seq, root')
    BY <1>2, <1>5, <1>6, Zenon DEF RootOf, leaves
  <1>8. PutsLeft(mt, ledger, Built, n, commit_seq, puts')
    BY <1>2, <1>3, <1>6, Zenon DEF PutsLeft, RoundPuts, Lists, leaves
  <1> QED BY <1>5, <1>7, <1>8

\* The nodes of the round under way: their keys and their values.
RoundKey(l, i) == NodeKey(Built + Len(batch), commit_seq, l, i)
RoundNode(l, i) == Node(BlockHashes(ledger, Built + Len(batch)), l, i)

\* The step stores node i of level l of the round, and no other.
StoresNode(l, i) ==
    /\ Head(puts) = <<RoundKey(l, i), RoundNode(l, i)>>
    /\ DOMAIN mt' = DOMAIN mt \cup {RoundKey(l, i)}
    /\ mt'[RoundKey(l, i)] = RoundNode(l, i)
    /\ \A k \in DOMAIN mt : k # RoundKey(l, i) => mt'[k] = mt[k]

\* The numbers of a round: a batch on top of the committed blocks.
LEMMA RoundNumbers ==
    ASSUME IInv, batch # <<>>
    PROVE  /\ Built \in Nat /\ Len(batch) \in Nat \ {0} /\ commit_seq \in Nat
           /\ Built + Len(batch) \in Nat \ {0} /\ Built < Built + Len(batch)
           /\ Built + Len(batch) <= MaxBlocks
           /\ RefHeight((Built + Len(batch)) - 1) \in Nat
           /\ Ancestor((Built + Len(batch)) - 1, MaxLevel) = 0
           /\ Len(BlockHashes(ledger, Built + Len(batch))) = Built + Len(batch)
  <1> DEFINE n == Built + Len(batch)
  <1>1. Built \in Nat /\ Len(batch) \in Nat \ {0} /\ commit_seq \in Nat /\ n <= MaxBlocks
    BY BatchBounds, LastOfBatch, LedgerAssumption DEF IInv, TypeOK
  <1>2. n \in Nat \ {0} /\ Built < n
    BY <1>1
  <1> HIDE DEF n
  <1>3. Ancestor(n - 1, MaxLevel) = 0 /\ n - 1 \in Nat
    BY <1>1, <1>2, TreeFits
  <1>4. RefHeight(n - 1) \in Nat
    BY <1>3, HeightFacts, MaxLevelAssumption
  <1>5. Len(BlockHashes(ledger, n)) = n
    BY <1>2, LeavesFacts
  <1> QED BY <1>1, <1>2, <1>3, <1>4, <1>5 DEF n

\* The nodes of the round, one by one.
LEMMA RoundPutMember ==
    ASSUME IInv, batch # <<>>, NEW p
    PROVE  p \in RoundPuts(ledger, Built, Built + Len(batch), commit_seq) <=>
               \E l \in 0 .. RefHeight((Built + Len(batch)) - 1) :
                   \E i \in Ancestor(Built, l) .. Ancestor((Built + Len(batch)) - 1, l) :
                       p = <<RoundKey(l, i), RoundNode(l, i)>>
  <1> DEFINE n == Built + Len(batch)
             leaves == BlockHashes(ledger, n)
  <1>1. Len(leaves) = n
    BY RoundNumbers
  <1> HIDE DEF n, leaves
  <1>2. p \in PutsTo(leaves, Built, commit_seq, RefHeight(n - 1)) <=>
               \E l \in 0 .. RefHeight(n - 1) : \E i \in Ancestor(Built, l) .. Ancestor(n - 1, l) :
                   p = <<NodeKey(n, commit_seq, l, i), Node(leaves, l, i)>>
    BY <1>1, PutMember
  <1> QED BY <1>2, Zenon DEF RoundPuts, RoundKey, RoundNode, n, leaves

\* The node that is put next, and the store after it.
LEMMA PutNodeEffect ==
    ASSUME IInv, RoundTreeInv, PutNode
    PROVE  /\ bpc = "update" /\ batch # <<>>
           /\ \E l \in Nat : \E i \in Ancestor(Built, l) .. Ancestor((Built + Len(batch)) - 1, l) :
                 StoresNode(l, i)
  <1> DEFINE n == Built + Len(batch)
             S == RoundPuts(ledger, Built, n, commit_seq)
  <1>1. bpc = "update" /\ batch # <<>> /\ puts # <<>> /\ mt' = Put(mt, Head(puts))
    BY DEF PutNode, Building, IInv, RoundInv
  <1>2. puts \in Seq(S)
    BY <1>1 DEF RoundTreeInv, PutsLeft
  <1>3. Head(puts) \in S
    <2> HIDE DEF S
    <2> QED BY <1>1, <1>2
  <1>4. PICK l \in 0 .. RefHeight(n - 1) : \E i \in Ancestor(Built, l) .. Ancestor(n - 1, l) :
            Head(puts) = <<RoundKey(l, i), RoundNode(l, i)>>
    BY <1>1, <1>3, RoundPutMember
  <1>5. PICK i \in Ancestor(Built, l) .. Ancestor(n - 1, l) :
            Head(puts) = <<RoundKey(l, i), RoundNode(l, i)>>
    BY <1>4
  <1>6. l \in Nat
    BY <1>1, RoundNumbers
  <1>7. mt' = With(mt, RoundKey(l, i), RoundNode(l, i))
    <2>1. Head(puts)[1] = RoundKey(l, i) /\ Head(puts)[2] = RoundNode(l, i)
      BY <1>5
    <2> QED BY <1>1, <2>1, Zenon DEF Put
  <1>8. StoresNode(l, i)
    BY <1>5, <1>7 DEF With, StoresNode
  <1> QED BY <1>1, <1>6, <1>8

\* A node of the round is not a node of an earlier commit, so the tree of the
\* earlier commit is untouched.
LEMMA PutNodeTree ==
    ASSUME IInv, CommitsInv, TreeInv, RoundTreeInv, PutNode
    PROVE  TreeInv'
  <1> DEFINE n == Built + Len(batch)
  <1>1. bpc = "update" /\ batch # <<>> /\ UNCHANGED <<ledger, commits>>
    BY PutNodeEffect DEF PutNode
  <1>2. n \in Nat \ {0} /\ Built \in Nat /\ Built < n /\ commit_seq \in Nat
    BY <1>1, RoundNumbers
  <1>3a. PICK l \in Nat : \E i \in Ancestor(Built, l) .. Ancestor(n - 1, l) : StoresNode(l, i)
    BY PutNodeEffect
  <1>3. PICK i \in Ancestor(Built, l) .. Ancestor(n - 1, l) : StoresNode(l, i)
    BY <1>3a
  <1>4. NoSibling \notin DOMAIN mt'
    <2>1. RoundKey(l, i)[1] = l /\ NoSibling[1] = -1
      BY DEF RoundKey, NodeKey, NoSibling
    <2>2. RoundKey(l, i) # NoSibling
      BY <2>1, <1>3a
    <2> QED BY <1>3, <2>2, Zenon DEF TreeInv, StoresNode
  <1>5. ASSUME NEW c \in DOMAIN commits PROVE EntryTree(mt', ledger, c, commits[c])
    <2> DEFINE m == commits[c].tip_block + 1
               old == BlockHashes(ledger, m)
    <2>1. c \in Nat /\ c < commit_seq
      BY <1>1, <1>2 DEF CommitsInv
    <2>2. m \in Nat \ {0} /\ m <= Built /\ m <= MaxBlocks /\ Len(old) = m
      <3>1. m \in Nat \ {0} /\ m <= Built /\ m <= MaxBlocks
        BY <1>2, <2>1, EntryBelow, BatchBounds, LedgerAssumption
      <3> QED BY <3>1, LeavesFacts
    <2>3. EntryTree(mt, ledger, c, commits[c])
      BY DEF TreeInv
    <2>4. HasTree(mt, old, c)
      BY <2>3, Zenon DEF EntryTree
    <2>5. RefHeight(m - 1) \in Nat
      BY <2>2, HeightFacts, TreeFits, MaxLevelAssumption
    <2>6. ASSUME NEW k \in 0 .. RefHeight(m - 1), NEW j \in 0 .. Ancestor(m - 1, k)
          PROVE  /\ NodeKey(m, c, k, j) \in DOMAIN mt'
                 /\ mt'[NodeKey(m, c, k, j)] = Node(old, k, j)
      <3>1. NodeKey(m, c, k, j) \in DOMAIN mt /\ mt[NodeKey(m, c, k, j)] = Node(old, k, j)
        BY <2>2, <2>4, Zenon DEF HasTree
      <3>2. c # commit_seq /\ c # NoCommit /\ commit_seq # NoCommit /\ k \in Nat
        BY <1>2, <2>1, <2>5 DEF NoCommit
      <3>3. RoundKey(l, i) # NodeKey(m, c, k, j)
        <4> HIDE DEF n, m
        <4>1. NodeKey(n, commit_seq, l, i) # NodeKey(m, c, k, j)
          BY <1>2, <2>2, <3>2, PutsAreNew
        <4> QED BY <4>1 DEF RoundKey, n
      <3> QED BY <1>3, <3>1, <3>3 DEF StoresNode
    <2>7. HasTree(mt', old, c)
      BY <2>2, <2>6, Zenon DEF HasTree
    <2> QED BY <2>3, <2>7, Zenon DEF EntryTree
  <1> QED BY <1>1, <1>4, <1>5 DEF TreeInv

\* After a put each node of the round is still stored or about to be.
LEMMA PutNodeRound ==
    ASSUME IInv, RoundTreeInv, PutNode
    PROVE  RoundTreeInv'
  <1> DEFINE n == Built + Len(batch)
             S == RoundPuts(ledger, Built, n, commit_seq)
  <1>1. /\ bpc = "update" /\ batch # <<>> /\ puts # <<>> /\ puts' = Tail(puts)
        /\ UNCHANGED <<ledger, commits, commit_seq, batch, root, bpc>>
    BY PutNodeEffect DEF PutNode
  <1>2. Built' = Built
    BY <1>1 DEF Built
  <1>3. /\ puts \in Seq(S)
        /\ \A p \in S : \/ \E j \in 1 .. Len(puts) : puts[j] = p
                        \/ p[1] \in DOMAIN mt /\ mt[p[1]] = p[2]
    BY <1>1 DEF RoundTreeInv, PutsLeft
  <1>4a. PICK l \in Nat : \E i \in Ancestor(Built, l) .. Ancestor(n - 1, l) : StoresNode(l, i)
    BY PutNodeEffect
  <1>4. PICK i \in Ancestor(Built, l) .. Ancestor(n - 1, l) : StoresNode(l, i)
    BY <1>4a
  <1>5. ASSUME NEW p \in S
        PROVE  \/ \E j \in 1 .. Len(Tail(puts)) : Tail(puts)[j] = p
               \/ p[1] \in DOMAIN mt' /\ mt'[p[1]] = p[2]
    <2>1. CASE \E j \in 1 .. Len(puts) : puts[j] = p
      <3>1. PICK j \in 1 .. Len(puts) : puts[j] = p
        BY <2>1
      <3>2. CASE j = 1
        <4>1. p = <<RoundKey(l, i), RoundNode(l, i)>>
          <5> HIDE DEF S
          <5>1. Head(puts) = puts[1]
            BY <1>1, <1>3
          <5> QED BY <1>4, <3>1, <3>2, <5>1, Zenon DEF StoresNode
        <4> QED BY <1>4, <4>1 DEF StoresNode
      <3>3. CASE j # 1
        <4> HIDE DEF S
        <4>1. j - 1 \in 1 .. Len(Tail(puts)) /\ Tail(puts)[j - 1] = puts[j]
          BY <1>1, <1>3, <3>1, <3>3
        <4> QED BY <3>1, <4>1
      <3> QED BY <3>2, <3>3
    <2>2. CASE p[1] \in DOMAIN mt /\ mt[p[1]] = p[2]
      <3>1. PICK l2 \in 0 .. RefHeight(n - 1) : \E i2 \in Ancestor(Built, l2) .. Ancestor(n - 1, l2) :
                p = <<RoundKey(l2, i2), RoundNode(l2, i2)>>
        BY <1>1, RoundPutMember
      <3>2. PICK i2 \in Ancestor(Built, l2) .. Ancestor(n - 1, l2) : p = <<RoundKey(l2, i2), RoundNode(l2, i2)>>
        BY <3>1
      <3>3. CASE RoundKey(l2, i2) = RoundKey(l, i)
        <4>1. l2 = l /\ i2 = i
          BY <3>3 DEF RoundKey, NodeKey
        <4> QED BY <1>4, <3>2, <4>1 DEF StoresNode
      <3>4. CASE RoundKey(l2, i2) # RoundKey(l, i)
        <4>1. p[1] = RoundKey(l2, i2) /\ p[1] # RoundKey(l, i)
          BY <3>2, <3>4
        <4> QED BY <1>4, <2>2, <4>1, Zenon DEF StoresNode
      <3> QED BY <3>3, <3>4
    <2> QED BY <1>3, <2>1, <2>2
  <1>6. Tail(puts) \in Seq(S)
    <2> HIDE DEF S
    <2> QED BY <1>1, <1>3
  <1>7. PutsLeft(mt', ledger, Built, n, commit_seq, puts')
    <2> HIDE DEF n
    <2> QED BY <1>1, <1>5, <1>6, Zenon DEF PutsLeft
  <1> QED BY <1>1, <1>2, <1>7 DEF RoundTreeInv

\* When all nodes of the round are stored the tree over its blocks is.
LEMMA RoundTreeStored ==
    ASSUME IInv, CommitsInv, TreeInv, RoundTreeInv, bpc = "update", puts = <<>>
    PROVE  HasTree(mt, BlockHashes(ledger, Built + Len(batch)), commit_seq)
  <1> DEFINE n == Built + Len(batch)
             leaves == BlockHashes(ledger, n)
             S == RoundPuts(ledger, Built, n, commit_seq)
  <1>1. batch # <<>>
    BY DEF IInv, RoundInv
  <1>2. /\ n \in Nat \ {0} /\ Built \in Nat /\ Built < n /\ Len(leaves) = n
        /\ RefHeight(n - 1) \in Nat /\ RefHeight(n - 1) <= MaxLevel
    <2>1. /\ n \in Nat \ {0} /\ Built \in Nat /\ Built < n /\ Len(leaves) = n
          /\ RefHeight(n - 1) \in Nat /\ Ancestor(n - 1, MaxLevel) = 0
      BY <1>1, RoundNumbers
    <2>2. n - 1 \in Nat
      BY <2>1
    <2>3. RefHeight(n - 1) \in 0 .. MaxLevel
      BY <2>1, <2>2, HeightFacts
    <2> QED BY <2>1, <2>3, MaxLevelAssumption
  <1>3. \A p \in S : p[1] \in DOMAIN mt /\ mt[p[1]] = p[2]
    <2>1. \A p \in S : \/ \E j \in 1 .. Len(puts) : puts[j] = p
                       \/ p[1] \in DOMAIN mt /\ mt[p[1]] = p[2]
      BY DEF RoundTreeInv, PutsLeft
    <2>2. 1 .. Len(puts) = {}
      OBVIOUS
    <2> QED BY <2>1, <2>2
  <1>4. HasComplete(mt, leaves, Built)
    BY <1>2, CommittedComplete
  <1>5. ASSUME NEW l \in 0 .. RefHeight(n - 1), NEW i \in 0 .. Ancestor(n - 1, l)
        PROVE  /\ NodeKey(n, commit_seq, l, i) \in DOMAIN mt
               /\ mt[NodeKey(n, commit_seq, l, i)] = Node(leaves, l, i)
    <2>1. /\ l \in Nat /\ l \in 0 .. MaxLevel /\ n - 1 \in Nat
          /\ Ancestor(n - 1, l) \in Nat /\ Ancestor(Built, l) \in Nat
          /\ Ancestor(Built, l) <= Ancestor(n, l) /\ Ancestor(n, l) \in Nat
      <3>1. l \in Nat /\ l \in 0 .. MaxLevel /\ n - 1 \in Nat /\ Built <= n /\ n \in Nat
        BY <1>2, MaxLevelAssumption
      <3> HIDE DEF n
      <3> QED BY <1>2, <3>1, AncestorNat, AncestorMonotone, Zenon
    <2>2. CASE Ancestor(Built, l) <= i
      <3>1. i \in Ancestor(Built, l) .. Ancestor(n - 1, l)
        BY <2>1, <2>2
      <3>2. <<RoundKey(l, i), RoundNode(l, i)>> \in S
        BY <1>1, <3>1, RoundPutMember
      <3>3. RoundKey(l, i) \in DOMAIN mt /\ mt[RoundKey(l, i)] = RoundNode(l, i)
        <4> HIDE DEF S
        <4> QED BY <1>3, <3>2
      <3> QED BY <3>3 DEF RoundKey, RoundNode
    <2>3. CASE ~(Ancestor(Built, l) <= i)
      <3>1. i \in 0 .. Ancestor(Built, l) - 1 /\ i < Ancestor(n, l)
        BY <2>1, <2>3
      <3>2. <<l, i, NoCommit>> \in DOMAIN mt /\ mt[<<l, i, NoCommit>>] = Node(leaves, l, i)
        <4> HIDE DEF leaves
        <4> QED BY <1>4, <2>1, <3>1, Zenon DEF HasComplete
      <3>3. NodeKey(n, commit_seq, l, i) = <<l, i, NoCommit>>
        <4> HIDE DEF n
        <4> QED BY <1>2, <2>1, <3>1, CompleteKey
      <3> QED BY <3>2, <3>3
    <2> QED BY <2>2, <2>3
  <1> HIDE DEF n, leaves
  <1>6. HasTree(mt, leaves, commit_seq)
    BY <1>2, <1>5, Zenon DEF HasTree
  <1> QED BY <1>6 DEF n, leaves

\* The commit entry is stored after the nodes of its tree.
LEMMA PutCommitTree ==
    ASSUME IInv, CommitsInv, TreeInv, RoundTreeInv, PutCommit
    PROVE  TreeInv'
  <1> DEFINE n == Built + Len(batch)
  <1>1. bpc = "update" /\ puts = <<>> /\ UNCHANGED <<mt, ledger>>
    BY DEF PutCommit, Building
  <1>2. /\ DOMAIN commits' = DOMAIN commits \cup {commit_seq}
        /\ commits'[commit_seq] = NewCommit
        /\ \A c \in DOMAIN commits : commits'[c] = commits[c]
        /\ NewCommit.tip_block + 1 = n
    <2>1. NewCommit.tip_block + 1 = n
      BY NewEntry
    <2> QED BY <2>1, NewEntry
  <1>3. NewCommit.mtroot = root.root_hash /\ NewCommit.mtrootkey = root.root_key
    BY DEF NewCommit
  <1>4. RootOf(ledger, n, commit_seq, root)
    BY <1>1 DEF RoundTreeInv
  <1>5. HasTree(mt, BlockHashes(ledger, n), commit_seq)
    BY <1>1, RoundTreeStored
  <1> HIDE DEF n
  <1>6. EntryTree(mt, ledger, commit_seq, NewCommit)
    BY <1>2, <1>3, <1>4, <1>5, Zenon DEF EntryTree, RootOf
  <1>7. \A c \in DOMAIN commits' : EntryTree(mt, ledger, c, commits'[c])
    BY <1>2, <1>6, Zenon DEF TreeInv
  <1> QED BY <1>1, <1>7, Zenon DEF TreeInv

\* Steps that only add blocks, or nothing at all, leave the trees alone.
LEMMA TreeFrame ==
    ASSUME restarts' = 0, IInv, CommitsInv, TreeInv, [Next]_vars, UNCHANGED <<mt, commits>>
    PROVE  TreeInv'
  <1>1. /\ next_block_seq \in Nat
        /\ \A b \in 0 .. next_block_seq - 1 : ledger'[b] = ledger[b]
    BY BlocksStay
  <1>2. ASSUME NEW c \in DOMAIN commits PROVE EntryTree(mt', ledger', c, commits'[c])
    <2>1. commits[c].tip_block \in Nat /\ commits[c].tip_block < next_block_seq
      BY DEF IInv, TypeOK, CommitsInv
    <2>2. commits[c].tip_block + 1 \in 0 .. next_block_seq
      BY <1>1, <2>1
    <2>3. BlockHashes(ledger', commits[c].tip_block + 1) = BlockHashes(ledger, commits[c].tip_block + 1)
      BY <1>1, <2>2, LeavesStay
    <2>4. EntryTree(mt, ledger, c, commits[c])
      BY DEF TreeInv
    <2> QED BY <2>3, <2>4, Zenon DEF EntryTree
  <1> QED BY <1>2, Zenon DEF TreeInv

\* Every step keeps the trees of the entries in the store.
LEMMA NextTreeInv ==
    ASSUME restarts' = 0, IInv, CommitsInv, TreeInv, RoundTreeInv, [Next]_vars
    PROVE  TreeInv'
  <1>1. PutNode \/ PutCommit \/ UNCHANGED <<mt, commits>>
    <2>1. ~Restart
      BY FirstProcess
    <2> QED BY <2>1, Zenon DEF Next, vars, store, SetPut, SetPush, GetRootDigest, ProofDigest, ProofCommit,
           ProofRead, ProofReply, StartRound, TryPop, EndDrain, PutDigest, Shutdown
  <1> QED BY <1>1, PutNodeTree, PutCommitTree, TreeFrame

\* What a round has collected and computed depends on the blocks up to its last.
LEMMA RoundFrame ==
    ASSUME restarts' = 0, IInv, RoundTreeInv, [Next]_vars,
           UNCHANGED <<mt, batch, puts, root>>, Built' = Built, commit_seq' = commit_seq,
           bpc' \in {"update", "digest"} => bpc \in {"update", "digest"}
    PROVE  RoundTreeInv'
  <1> DEFINE n == Built + Len(batch)
  <1>1. /\ next_block_seq \in Nat
        /\ \A b \in 0 .. next_block_seq - 1 : ledger'[b] = ledger[b]
    BY BlocksStay
  <1>2. /\ Built \in Nat /\ n \in 0 .. next_block_seq
        /\ \A j \in 1 .. Len(batch) : batch[j].blk_seq \in 0 .. next_block_seq - 1
    BY BatchBounds
  <1>3. BlockHashes(ledger', n) = BlockHashes(ledger, n)
    <2> HIDE DEF n
    <2> QED BY <1>1, <1>2, LeavesStay, Zenon
  <1>4. root'.hashes = [j \in 1 .. Len(batch) |-> HashBlock(ledger'[batch[j].blk_seq])]
    BY <1>1, <1>2 DEF RoundTreeInv
  <1>5. RoundPuts(ledger', Built, n, commit_seq) = RoundPuts(ledger, Built, n, commit_seq)
    BY <1>3 DEF RoundPuts
  <1>6. ASSUME bpc' \in {"update", "digest"}
        PROVE  /\ PutsLeft(mt, ledger', Built, n, commit_seq, puts)
               /\ RootOf(ledger', n, commit_seq, root)
    <2>1. /\ PutsLeft(mt, ledger, Built, n, commit_seq, puts)
          /\ RootOf(ledger, n, commit_seq, root)
      BY <1>6 DEF RoundTreeInv
    <2> HIDE DEF n
    <2> QED BY <1>3, <1>5, <2>1, Zenon DEF PutsLeft, RootOf
  <1> QED BY <1>4, <1>6 DEF RoundTreeInv

\* try_pop reads the block back as Set stored it.
LEMMA TryPopRound ==
    ASSUME IInv, RoundTreeInv, TryPop
    PROVE  RoundTreeInv'
  <1>1. /\ batch \in Seq(Items) /\ tree_queue \in Seq(Items) /\ tree_queue # <<>>
        /\ batch' = Append(batch, Head(tree_queue)) /\ bpc' = "drain" /\ UNCHANGED ledger
        /\ root' = [root EXCEPT !.hashes = Append(@, HashBlock(ledger[Head(tree_queue).blk_seq]))]
    BY DEF TryPop, Building, store, IInv, TypeOK
  <1>2. /\ DOMAIN root = {"hashes", "root_key", "root_hash"}
        /\ root.hashes = [j \in 1 .. Len(batch) |-> HashBlock(ledger[batch[j].blk_seq])]
    BY DEF RoundTreeInv
  <1> DEFINE x == HashBlock(ledger[Head(tree_queue).blk_seq])
             H == {HashBlock(ledger[it.blk_seq]) : it \in Items}
  <1>3. Head(tree_queue) \in Items /\ Len(batch) \in Nat /\ Len(batch') = Len(batch) + 1
        /\ \A j \in 1 .. Len(batch) : batch'[j] = batch[j] /\ batch[j] \in Items
    BY <1>1
  <1>4. batch'[Len(batch) + 1] = Head(tree_queue)
    BY <1>1
  <1>5. x \in H /\ root.hashes \in Seq(H) /\ Len(root.hashes) = Len(batch)
    <2>1. x \in H /\ \A j \in 1 .. Len(batch) : HashBlock(ledger[batch[j].blk_seq]) \in H
      BY <1>3
    <2> HIDE DEF x, H
    <2> QED BY <1>2, <1>3, <2>1
  <1>6. root'.hashes = Append(root.hashes, x) /\ DOMAIN root' = DOMAIN root
    BY <1>1, <1>2
  <1>7. root'.hashes = [j \in 1 .. Len(batch) + 1 |-> IF j = Len(batch) + 1 THEN x ELSE root.hashes[j]]
    <2> HIDE DEF x, H
    <2> QED BY <1>3, <1>5, <1>6
  <1>8. \A j \in 1 .. Len(batch) + 1 :
            (IF j = Len(batch) + 1 THEN x ELSE root.hashes[j]) = HashBlock(ledger[batch'[j].blk_seq])
    BY <1>2, <1>3, <1>4
  <1>9. root'.hashes = [j \in 1 .. Len(batch') |-> HashBlock(ledger'[batch'[j].blk_seq])]
    <2> HIDE DEF x
    <2> QED BY <1>1, <1>3, <1>7, <1>8
  <1> QED BY <1>1, <1>2, <1>6, <1>9 DEF RoundTreeInv

\* Every step keeps what the round has collected, computed and stored.
LEMMA NextRoundTreeInv ==
    ASSUME restarts' = 0, IInv, CommitsInv, TreeInv, RoundTreeInv, [Next]_vars
    PROVE  RoundTreeInv'
  <1>1. CASE EndDrain
    <2>1. UNCHANGED <<mt, ledger, commits, batch, commit_seq>>
      BY <1>1 DEF EndDrain, store
    <2>2. Built' = Built
      BY <2>1 DEF Built
    <2>3. CASE batch = <<>>
      <3>1. bpc' = "idle" /\ root' = root
        BY <1>1, <2>3 DEF EndDrain
      <3> QED BY <2>1, <3>1 DEF RoundTreeInv
    <2>4. CASE batch # <<>>
      <3>1. /\ PutsLeft(mt, ledger, Built, Built + Len(batch), commit_seq, puts')
            /\ RootOf(ledger, Built + Len(batch), commit_seq, root')
            /\ root'.hashes = root.hashes /\ DOMAIN root' = DOMAIN root
        BY <1>1, <2>4, EndDrainRound
      <3> QED BY <2>1, <2>2, <3>1 DEF RoundTreeInv
    <2> QED BY <2>3, <2>4
  <1>2. CASE PutDigest
    <2>1. root' = NoRoot /\ batch' = <<>> /\ bpc' = "idle"
      BY <1>2 DEF PutDigest
    <2>2. NoRoot.hashes = <<>> /\ DOMAIN NoRoot = {"hashes", "root_key", "root_hash"}
      BY DEF NoRoot
    <2>3. 1 .. Len(batch') = {}
      BY <2>1
    <2>4. [j \in 1 .. Len(batch') |-> HashBlock(ledger'[batch'[j].blk_seq])] = <<>>
      BY <2>3
    <2> QED BY <2>1, <2>2, <2>4 DEF RoundTreeInv
  <1>3. CASE PutCommit
    <2>1. /\ UNCHANGED <<mt, batch, puts, root>> /\ commit_seq' = commit_seq
          /\ bpc = "update"
      BY <1>3 DEF PutCommit, Building
    <2>2. Built' = Built
      BY <1>3, NewEntry
    <2> QED BY <2>1, <2>2, RoundFrame
  <1>4. CASE UNCHANGED <<mt, batch, puts, root, commits, commit_seq>> /\ (bpc' = bpc \/ bpc' \in {"drain", "stopped"})
    <2>1. Built' = Built
      BY <1>4 DEF Built
    <2>2. bpc' \in {"update", "digest"} => bpc \in {"update", "digest"}
      BY <1>4
    <2> QED BY <1>4, <2>1, <2>2, RoundFrame
  <1>5. \/ EndDrain \/ PutDigest \/ PutCommit \/ TryPop \/ PutNode
        \/ UNCHANGED <<mt, batch, puts, root, commits, commit_seq>> /\ (bpc' = bpc \/ bpc' \in {"drain", "stopped"})
    <2>1. ~Restart
      BY FirstProcess
    <2> QED BY <2>1, Zenon DEF Next, vars, store, server, builder, SetPut, SetPush, GetRootDigest, ProofDigest,
           ProofCommit, ProofRead, ProofReply, StartRound, Shutdown
  <1> QED BY <1>1, <1>2, <1>3, <1>4, <1>5, TryPopRound, PutNodeRound

\* The invariants of the bAMT together.
LedgerTreeInv == IInv /\ CommitsInv /\ TreeInv /\ RoundTreeInv

\* An empty store and an idle build thread.
LEMMA InitLedgerTreeInv == Init => LedgerTreeInv
  <1> SUFFICES ASSUME Init PROVE LedgerTreeInv
    OBVIOUS
  <1>1. DOMAIN commits = {} /\ DOMAIN mt = {}
    BY DEF Init
  <1>2. CommitsInv /\ TreeInv
    BY <1>1 DEF CommitsInv, TreeInv
  <1>3. NoRoot.hashes = <<>> /\ DOMAIN NoRoot = {"hashes", "root_key", "root_hash"}
    BY DEF NoRoot
  <1>4. batch = <<>> /\ root = NoRoot /\ bpc = "idle"
    BY DEF Init
  <1>5. [j \in 1 .. Len(batch) |-> HashBlock(ledger[batch[j].blk_seq])] = <<>>
    <2>1. 1 .. Len(batch) = {}
      BY <1>4
    <2> QED BY <2>1
  <1>6. RoundTreeInv
    BY <1>3, <1>4, <1>5 DEF RoundTreeInv
  <1> QED BY <1>2, <1>6, InitIInv DEF LedgerTreeInv

\* Every step of the first process keeps them.
LEMMA NextLedgerTreeInv ==
    ASSUME restarts' = 0, LedgerTreeInv, [Next]_vars
    PROVE  LedgerTreeInv'
  BY NextIInv, NextCommitsInv, NextTreeInv, NextRoundTreeInv DEF LedgerTreeInv

-----------------------------------------------------------------------------
(* GetProofs *)

\* The largest tip a client can have been sent is never lowered.
LEMMA LastTipGrows ==
    ASSUME restarts' = 0, LedgerTreeInv, [Next]_vars
    PROVE  /\ LastTip \in Nat /\ LastTip' \in Nat /\ LastTip <= LastTip'
           /\ commit_seq \in Nat /\ commit_seq' \in Nat /\ commit_seq <= commit_seq'
           /\ \A c \in DOMAIN commits : c \in DOMAIN commits' /\ commits'[c] = commits[c]
  <1>0. IInv /\ CommitsInv
    BY DEF LedgerTreeInv
  <1>1. commit_seq \in Nat /\ Built \in Nat /\ (commit_seq # 0 => Built >= 1)
    BY <1>0, BuiltNat DEF IInv, TypeOK, Built
  <1>2. CASE PutDigest
    <2>1. commit_seq' = commit_seq + 1 /\ UNCHANGED commits
      BY <1>2 DEF PutDigest
    <2>2. Built' = Built + Len(batch) /\ Len(batch) \in Nat \ {0}
      BY <1>0, <1>2, PutDigestIInv, LastOfBatch DEF PutDigest, Building, IInv, RoundInv
    <2> QED BY <1>1, <2>1, <2>2 DEF LastTip
  <1>3. CASE PutCommit
    <2>1. /\ commit_seq' = commit_seq /\ Built' = Built
          /\ \A c \in DOMAIN commits : c \in DOMAIN commits' /\ commits'[c] = commits[c]
      BY <1>0, <1>3, NewEntry DEF PutCommit
    <2> QED BY <1>1, <2>1 DEF LastTip
  <1>4. CASE UNCHANGED <<commits, commit_seq>>
    BY <1>1, <1>4 DEF LastTip, Built
  <1>5. PutDigest \/ PutCommit \/ UNCHANGED <<commits, commit_seq>>
    <2>1. ~Restart
      BY <1>0, FirstProcess
    <2> QED BY <2>1, Zenon DEF Next, vars, store, builder, SetPut, SetPush, GetRootDigest, ProofDigest, ProofCommit,
           ProofRead, ProofReply, StartRound, TryPop, EndDrain, PutNode, Shutdown
  <1> QED BY <1>2, <1>3, <1>4, <1>5

\* A digest that was read is that of the last finished round.
LEMMA DigestRead ==
    ASSUME LedgerTreeInv, DigestInv, digest # NoDigest
    PROVE  /\ commit_seq \in Nat \ {0} /\ digest.commit_seq = commit_seq - 1
           /\ commit_seq - 1 \in DOMAIN commits
           /\ digest.tip_block = LastTip /\ LastTip = commits[commit_seq - 1].tip_block
           /\ LastTip \in Nat
  <1>1. /\ digest.commit_seq = commit_seq - 1 /\ digest.tip_block = Built - 1
        /\ digest.commit_seq \in DOMAIN commits
    BY DEF DigestInv, DigestNamesCommit
  <1>2. digest.commit_seq \in Nat /\ commit_seq \in Nat
    BY <1>1 DEF LedgerTreeInv, CommitsInv, IInv, TypeOK
  <1>3. commits[commit_seq - 1].tip_block \in Nat
    BY <1>1 DEF LedgerTreeInv, IInv, TypeOK
  <1>4. commit_seq # 0
    BY <1>1, <1>2
  <1>5. Built = commits[commit_seq - 1].tip_block + 1
    BY <1>4 DEF Built
  <1> QED BY <1>1, <1>2, <1>3, <1>4, <1>5 DEF LastTip

\* The entry a request is for: in the store, and its tree fits.
LEMMA RequestEntry ==
    ASSUME LedgerTreeInv, ReqInv, spc \in {"commit", "read"}
    PROVE  /\ DOMAIN req = DOMAIN NoReq
           /\ req.commit_seq \in DOMAIN commits /\ req.commit_seq < commit_seq
           /\ commits[req.commit_seq].tip_block \in Nat
           /\ commits[req.commit_seq].tip_block <= LastTip /\ LastTip \in Nat
           /\ req.blk \in 0 .. commits[req.commit_seq].tip_block
           /\ Ancestor(commits[req.commit_seq].tip_block, MaxLevel) = 0
           /\ commits[req.commit_seq].tip_block < next_block_seq
  <1>1. /\ DOMAIN req = DOMAIN NoReq /\ req.commit_seq \in 0 .. commit_seq - 1
        /\ req.blk \in 0 .. commits[req.commit_seq].tip_block
    BY DEF ReqInv, RequestInv
  <1>2. /\ IInv /\ CommitsInv /\ commit_seq \in Nat /\ 0 .. commit_seq - 1 \subseteq DOMAIN commits
        /\ next_block_seq \in Nat /\ next_block_seq <= MaxBlocks
    BY LedgerAssumption DEF LedgerTreeInv, IInv, TypeOK
  <1>3. req.commit_seq \in DOMAIN commits /\ req.commit_seq < commit_seq /\ commit_seq # 0
    BY <1>1, <1>2
  <1>4. /\ commits[req.commit_seq].tip_block \in Nat /\ commits[req.commit_seq].tip_block < Built
        /\ Built \in Nat
    BY <1>2, <1>3, EntryBelow, BuiltNat DEF IInv
  <1>5. commits[req.commit_seq].tip_block < next_block_seq
    BY <1>2, <1>3 DEF CommitsInv
  <1>6. Ancestor(commits[req.commit_seq].tip_block, MaxLevel) = 0
    <2>1. commits[req.commit_seq].tip_block \in 0 .. MaxBlocks - 1
      BY <1>2, <1>4, <1>5, LedgerAssumption
    <2> QED BY <2>1, TreeAssumption
  <1> QED BY <1>1, <1>3, <1>4, <1>5, <1>6 DEF LastTip

\* Every step keeps the client's tip under the digest.
LEMMA NextTip ==
    ASSUME restarts' = 0, LedgerTreeInv, DigestInv, ReqInv, [Next]_vars
    PROVE  tip_block' \in Nat /\ tip_block' <= LastTip'
  <1>1. /\ LastTip \in Nat /\ LastTip' \in Nat /\ LastTip <= LastTip'
    BY LastTipGrows
  <1>2. tip_block \in Nat /\ tip_block <= LastTip
    BY DEF ReqInv
  <1>3. CASE GetRootDigest
    <2>1. tip_block' = IF digest = NoDigest THEN 0 ELSE digest.tip_block
      BY <1>3 DEF GetRootDigest
    <2>2. digest # NoDigest => digest.tip_block = LastTip
      BY DigestRead
    <2> QED BY <1>1, <2>1, <2>2
  <1>4. CASE ProofReply
    <2>1. spc = "read" /\ tip_block' = req.tip
      BY <1>4 DEF ProofReply, Serving
    <2>2. req.tip = commits[req.commit_seq].tip_block
      BY <2>1, Zenon DEF ReqInv, RequestInv, ReadsOf
    <2> QED BY <1>1, <2>1, <2>2, RequestEntry
  <1>5. CASE UNCHANGED tip_block
    BY <1>1, <1>2, <1>5
  <1>6. GetRootDigest \/ ProofReply \/ UNCHANGED tip_block
    BY Zenon DEF Next, vars, server, SetPut, SetPush, ProofDigest, ProofCommit,
           ProofRead, StartRound, TryPop, EndDrain, PutNode, PutCommit, PutDigest, Shutdown, Restart
  <1> QED BY <1>3, <1>4, <1>5, <1>6

\* A request that no step of the server thread touches stays what it was: its
\* commit entry and the blocks under it do not change.
LEMMA RequestFrame ==
    ASSUME restarts' = 0, LedgerTreeInv, ReqInv, [Next]_vars, UNCHANGED <<spc, req>>
    PROVE  RequestInv'
  <1>1. CASE spc \notin {"commit", "read"}
    BY <1>1 DEF RequestInv
  <1>2. CASE spc \in {"commit", "read"}
    <2> DEFINE c == req.commit_seq
               tip == commits[c].tip_block
    <2>1. /\ c \in DOMAIN commits /\ tip \in Nat /\ tip < next_block_seq
          /\ DOMAIN req = DOMAIN NoReq /\ req.blk \in 0 .. tip
      BY <1>2, RequestEntry
    <2>2. commits'[c] = commits[c] /\ commit_seq \in Nat /\ commit_seq' \in Nat /\ commit_seq <= commit_seq'
      BY <2>1, LastTipGrows
    <2>3. c \in 0 .. commit_seq - 1
      BY <1>2 DEF ReqInv, RequestInv
    <2>4. c \in 0 .. commit_seq' - 1
      BY <2>2, <2>3
    <2>5. /\ next_block_seq \in Nat
          /\ \A b \in 0 .. next_block_seq - 1 : ledger'[b] = ledger[b]
      BY BlocksStay DEF LedgerTreeInv
    <2>6. tip + 1 \in 0 .. next_block_seq
      BY <2>1, <2>5
    <2> HIDE DEF tip
    <2>7. BlockHashes(ledger', tip + 1) = BlockHashes(ledger, tip + 1)
      BY <2>5, <2>6, LeavesStay
    <2>8. ASSUME spc = "read" PROVE ReadsOf(ledger', commits[c], c, req)
      <3>1. ReadsOf(ledger, commits[c], c, req)
        BY <2>8, Zenon DEF ReqInv, RequestInv
      <3> QED BY <2>7, <3>1, Zenon DEF ReadsOf, tip
    <2>9. spc = "commit" => req.keys = <<>> /\ req.got = <<>>
      BY DEF ReqInv, RequestInv
    <2> QED BY <2>1, <2>2, <2>4, <2>8, <2>9, Zenon DEF RequestInv, tip
  <1> QED BY <1>1, <1>2

\* GetProofs starts with the digest it has read.
LEMMA ProofDigestRequest ==
    ASSUME restarts' = 0, LedgerTreeInv, DigestInv, ReqInv, NEW b \in 0 .. MaxBlocks - 1, ProofDigest(b)
    PROVE  RequestInv'
  <1>1. spc = "idle" /\ b \in Nat /\ b <= tip_block /\ UNCHANGED <<commits, commit_seq>>
    BY LedgerAssumption DEF ProofDigest, Serving, store, builder
  <1>2. CASE digest = NoDigest
    <2>1. spc' = "idle"
      BY <1>1, <1>2 DEF ProofDigest
    <2> QED BY <2>1 DEF RequestInv
  <1>3. CASE digest # NoDigest
    <2>1. spc' = "commit" /\ req' = [NoReq EXCEPT !.blk = b, !.commit_seq = digest.commit_seq]
      BY <1>3 DEF ProofDigest
    <2>2. /\ DOMAIN req' = DOMAIN NoReq /\ req'.blk = b /\ req'.commit_seq = digest.commit_seq
          /\ req'.keys = <<>> /\ req'.got = <<>>
      BY <2>1 DEF NoReq
    <2>3. /\ commit_seq \in Nat \ {0} /\ digest.commit_seq = commit_seq - 1
          /\ LastTip = commits[commit_seq - 1].tip_block /\ LastTip \in Nat
      BY <1>3, DigestRead
    <2>4. tip_block \in Nat /\ tip_block <= LastTip
      BY DEF ReqInv
    <2>5. req'.commit_seq = commit_seq - 1 /\ req'.commit_seq \in 0 .. commit_seq - 1
      BY <2>2, <2>3
    <2>6. req'.blk \in 0 .. commits[commit_seq - 1].tip_block
      BY <1>1, <2>2, <2>3, <2>4
    <2> QED BY <1>1, <2>1, <2>2, <2>5, <2>6 DEF RequestInv
  <1> QED BY <1>2, <1>3

\* The commit entry gives the request its root, its tip and its keys.
LEMMA ProofCommitRequest ==
    ASSUME LedgerTreeInv, ReqInv, ProofCommit
    PROVE  RequestInv'
  <1> DEFINE c == req.commit_seq
             info == commits[c]
             keys == IF req.blk = 0 THEN <<>> ELSE ProofKeys(c, info.mtrootkey, info.tip_block, req.blk)
  <1>1. /\ spc = "commit" /\ spc' = "read" /\ UNCHANGED <<commits, commit_seq, ledger>>
        /\ req' = [req EXCEPT !.root = info.mtroot, !.tip = info.tip_block, !.keys = keys]
    BY DEF ProofCommit, Serving, store, builder
  <1>2. /\ DOMAIN req = DOMAIN NoReq /\ c \in 0 .. commit_seq - 1
        /\ req.blk \in 0 .. info.tip_block /\ req.got = <<>>
        /\ info.tip_block \in Nat
    BY <1>1, RequestEntry DEF ReqInv, RequestInv
  <1> HIDE DEF keys, info
  <1>3. /\ DOMAIN req' = DOMAIN NoReq /\ req'.commit_seq = c /\ req'.blk = req.blk
        /\ req'.root = info.mtroot /\ req'.tip = info.tip_block /\ req'.keys = keys /\ req'.got = <<>>
    BY <1>1, <1>2 DEF NoReq
  <1>4. /\ req'.blk = 0 => req'.keys = <<>>
        /\ req'.blk > 0 => req'.keys = ProofKeys(c, info.mtrootkey, info.tip_block, req'.blk)
    BY <1>2, <1>3 DEF keys
  <1>5. ASSUME req'.blk > 0 PROVE Len(req'.got) <= Len(req'.keys)
    <2>1. RefHeight(info.tip_block) \in Nat /\ info.mtrootkey[1] \in Nat
      <3>1. /\ Ancestor(info.tip_block, MaxLevel) = 0 /\ EntryTree(mt, ledger, c, info)
        BY <1>1, RequestEntry DEF info, LedgerTreeInv, TreeInv
      <3>2. RefHeight(info.tip_block) \in Nat
        BY <1>2, <3>1, HeightFacts, MaxLevelAssumption
      <3>3. (info.tip_block + 1) - 1 = info.tip_block
        BY <1>2
      <3>4. info.mtrootkey = NodeKey(info.tip_block + 1, c, RefHeight((info.tip_block + 1) - 1), 0)
        BY <3>1, Zenon DEF EntryTree
      <3>5. info.mtrootkey[1] = RefHeight(info.tip_block)
        BY <3>3, <3>4 DEF NodeKey
      <3> QED BY <3>2, <3>5
    <2>2. Len(req'.keys) \in Nat
      BY <1>2, <1>4, <1>5, <2>1 DEF ProofKeys
    <2> QED BY <1>3, <2>2
  <1>6. ReadsOf(ledger, info, c, req')
    <2>1. \A S : <<>> \in Seq(S)
      OBVIOUS
    <2>2. 1 .. Len(<<>>) = {}
      OBVIOUS
    <2> QED BY <1>3, <1>4, <1>5, <2>1, <2>2, Zenon DEF ReadsOf
  <1> QED BY <1>1, <1>2, <1>3, <1>6 DEF RequestInv, info

\* What getProof reads for a block under an entry whose tree is stored.
LEMMA EntryReads ==
    ASSUME LedgerTreeInv, ReqInv, spc = "read", req.blk > 0
    PROVE  LET leaves == BlockHashes(ledger, commits[req.commit_seq].tip_block + 1)
           IN  /\ Len(req.keys) = RefHeight(commits[req.commit_seq].tip_block) + 2
               /\ RefHeight(commits[req.commit_seq].tip_block) \in Nat
               /\ \A j \in 1 .. Len(req.keys) : Get(mt, req.keys[j]) = ProofValue(leaves, req.blk, j)
  <1> DEFINE c == req.commit_seq
             tip == commits[c].tip_block
             leaves == BlockHashes(ledger, tip + 1)
             key == commits[c].mtrootkey
  <1>1. /\ c \in DOMAIN commits /\ tip \in Nat /\ req.blk \in 0 .. tip
        /\ Ancestor(tip, MaxLevel) = 0
    BY RequestEntry
  <1>2. EntryTree(mt, ledger, c, commits[c]) /\ NoSibling \notin DOMAIN mt
    BY <1>1 DEF LedgerTreeInv, TreeInv
  <1>3. tip + 1 \in Nat \ {0} /\ (tip + 1) - 1 = tip
    BY <1>1
  <1>4. /\ HasTree(mt, leaves, c)
        /\ key = NodeKey(tip + 1, c, RefHeight((tip + 1) - 1), 0)
    BY <1>2, Zenon DEF EntryTree
  <1>5. req.keys = ProofKeys(c, key, tip, req.blk)
    BY Zenon DEF ReqInv, RequestInv, ReadsOf
  <1>6. Len(leaves) = tip + 1
    BY <1>3, LeavesFacts
  <1>7. RefHeight(tip) \in Nat
    BY <1>1, HeightFacts, MaxLevelAssumption
  <1> HIDE DEF tip, leaves, key
  <1>8. Len(leaves) - 1 = tip /\ Len(leaves) \in Nat \ {0}
    BY <1>3, <1>6
  <1>8a. /\ Ancestor(Len(leaves) - 1, MaxLevel) = 0 /\ req.blk \in 0 .. Len(leaves) - 1
         /\ key = NodeKey(Len(leaves), c, RefHeight(Len(leaves) - 1), 0)
    BY <1>1, <1>3, <1>4, <1>6, <1>8
  <1>9. ReadsProof(mt, leaves, req.blk, ProofKeys(c, key, Len(leaves) - 1, req.blk))
    <2> DEFINE seq == req.blk
    <2>1. /\ Len(leaves) \in Nat \ {0} /\ Ancestor(Len(leaves) - 1, MaxLevel) = 0
          /\ HasTree(mt, leaves, c) /\ NoSibling \notin DOMAIN mt
          /\ seq \in 0 .. Len(leaves) - 1
          /\ key = NodeKey(Len(leaves), c, RefHeight(Len(leaves) - 1), 0)
      BY <1>2, <1>4, <1>8, <1>8a
    <2> HIDE DEF c, seq
    <2>2. ReadsProof(mt, leaves, seq, ProofKeys(c, key, Len(leaves) - 1, seq))
      BY <2>1, ProofReads
    <2> QED BY <2>2 DEF seq
  <1> QED BY <1>5, <1>7, <1>8, <1>9, Zenon DEF leaves, tip, ReadsProof

\* The reads return the values of the proof, though buildTree writes between them.
LEMMA ProofReadRequest ==
    ASSUME LedgerTreeInv, ReqInv, ProofRead
    PROVE  RequestInv'
  <1> DEFINE c == req.commit_seq
             info == commits[c]
             leaves == BlockHashes(ledger, info.tip_block + 1)
             S == {ProofValue(leaves, req.blk, j) : j \in 1 .. Len(req.keys)}
             x == Get(mt, req.keys[Len(req.got) + 1])
  <1>1. /\ spc = "read" /\ spc' = "read" /\ UNCHANGED <<commits, commit_seq, ledger>>
        /\ Len(req.got) < Len(req.keys)
        /\ req' = [req EXCEPT !.got = Append(req.got, x)]
    BY DEF ProofRead, Serving, store, builder
  <1>2. /\ DOMAIN req = DOMAIN NoReq /\ c \in 0 .. commit_seq - 1
        /\ req.blk \in 0 .. info.tip_block /\ info.tip_block \in Nat
    BY <1>1, RequestEntry DEF ReqInv, RequestInv
  <1>3. ReadsOf(ledger, info, c, req)
    BY <1>1 DEF ReqInv, RequestInv
  <1>4. req.blk > 0
    <2>1. CASE req.blk = 0
      <3>1. req.keys = <<>> /\ req.got = <<>>
        BY <1>3, <2>1, Zenon DEF ReadsOf
      <3> QED BY <1>1, <3>1
    <2> QED BY <1>2, <2>1
  <1>5. /\ Len(req.keys) \in Nat
        /\ \A j \in 1 .. Len(req.keys) : Get(mt, req.keys[j]) = ProofValue(leaves, req.blk, j)
    BY <1>1, <1>4, EntryReads
  <1>6. /\ req.root = info.mtroot /\ req.tip = info.tip_block
        /\ req.keys = ProofKeys(c, info.mtrootkey, info.tip_block, req.blk)
        /\ req.got \in Seq(S) /\ Len(req.got) <= Len(req.keys)
        /\ \A j \in 1 .. Len(req.got) : req.got[j] = ProofValue(leaves, req.blk, j)
    BY <1>3, <1>4, Zenon DEF ReadsOf
  <1>7. Len(req.got) \in Nat /\ Len(req.got) + 1 \in 1 .. Len(req.keys)
    <2> HIDE DEF S
    <2>1. Len(req.got) \in Nat
      BY <1>6
    <2> QED BY <1>1, <1>5, <2>1
  <1>8. x = ProofValue(leaves, req.blk, Len(req.got) + 1)
    BY <1>5, <1>7
  <1>9. x \in S
    BY <1>7, <1>8
  <1> HIDE DEF x, S, leaves, info
  <1>10. /\ DOMAIN req' = DOMAIN NoReq /\ req'.commit_seq = c /\ req'.blk = req.blk
         /\ req'.root = req.root /\ req'.tip = req.tip /\ req'.keys = req.keys
         /\ req'.got = Append(req.got, x)
    BY <1>1, <1>2 DEF NoReq
  <1>11. /\ req'.got \in Seq(S) /\ Len(req'.got) = Len(req.got) + 1
         /\ \A j \in 1 .. Len(req.got) : req'.got[j] = req.got[j]
         /\ req'.got[Len(req.got) + 1] = x
    BY <1>6, <1>9, <1>10
  <1>12. Len(req'.got) <= Len(req'.keys)
    BY <1>5, <1>7, <1>10, <1>11
  <1>13. \A j \in 1 .. Len(req'.got) : req'.got[j] = ProofValue(leaves, req.blk, j)
    BY <1>6, <1>7, <1>8, <1>11
  <1>14. req'.blk # 0
    BY <1>4, <1>10
  <1>15. ReadsOf(ledger, info, c, req')
    BY <1>6, <1>10, <1>11, <1>12, <1>13, <1>14, Zenon DEF ReadsOf, S, leaves
  <1> QED BY <1>1, <1>2, <1>10, <1>15 DEF RequestInv, info

\* Every step keeps the request in progress consistent.
LEMMA NextReqInv ==
    ASSUME restarts' = 0, LedgerTreeInv, DigestInv, ReqInv, [Next]_vars
    PROVE  ReqInv'
  <1>1. ASSUME NEW b \in 0 .. MaxBlocks - 1, ProofDigest(b) PROVE RequestInv'
    BY <1>1, ProofDigestRequest
  <1>2. ASSUME spc' \notin {"commit", "read"} PROVE RequestInv'
    BY <1>2 DEF RequestInv
  <1>3. \/ \E b \in 0 .. MaxBlocks - 1 : ProofDigest(b)
        \/ ProofCommit \/ ProofRead
        \/ spc' \notin {"commit", "read"}
        \/ UNCHANGED <<spc, req>>
    BY DEF Next, vars, server, SetPut, SetPush, GetRootDigest, ProofReply, StartRound, TryPop,
           EndDrain, PutNode, PutCommit, PutDigest, Shutdown, Restart
  <1>4. RequestInv'
    BY <1>1, <1>2, <1>3, ProofCommitRequest, ProofReadRequest, RequestFrame
  <1> QED BY <1>4, NextTip DEF ReqInv

\* No request at the start.
LEMMA InitReqInv == Init => ReqInv
  BY DEF Init, ReqInv, RequestInv, LastTip

\* When the reads are complete they make a proof that verifies.
LEMMA ReqInvServed == LedgerTreeInv /\ ReqInv => ServedProofVerifies
  <1>1. ASSUME LedgerTreeInv, ReqInv PROVE ServedProofVerifies
    <2> SUFFICES ASSUME spc = "read", req.blk > 0, Len(req.got) = Len(req.keys)
                 PROVE  /\ ProofOf(req.blk, req.got).digest = req.root
                        /\ ProofOf(req.blk, req.got).value = HashBlock(ledger[req.blk])
                        /\ Verify(ProofOf(req.blk, req.got))
      BY Zenon DEF ServedProofVerifies
    <2> DEFINE c == req.commit_seq
               tip == commits[c].tip_block
               leaves == BlockHashes(ledger, tip + 1)
               S == {ProofValue(leaves, req.blk, j) : j \in 1 .. Len(req.keys)}
    <2>1. /\ c \in DOMAIN commits /\ tip \in Nat /\ req.blk \in 0 .. tip
          /\ Ancestor(tip, MaxLevel) = 0
      BY <1>1, RequestEntry
    <2>2. /\ req.root = commits[c].mtroot /\ req.got \in Seq(S)
          /\ \A j \in 1 .. Len(req.got) : req.got[j] = ProofValue(leaves, req.blk, j)
      BY <1>1, Zenon DEF ReqInv, RequestInv, ReadsOf
    <2>3. Len(req.got) = RefHeight(tip) + 2
      BY <1>1, EntryReads
    <2>4. commits[c].mtroot = RefRoot(leaves)
      <3>1. EntryTree(mt, ledger, c, commits[c])
        BY <1>1, <2>1 DEF LedgerTreeInv, TreeInv
      <3> QED BY <3>1, Zenon DEF EntryTree
    <2>5. tip + 1 \in Nat \ {0} /\ (tip + 1) - 1 = tip /\ req.blk + 1 \in 1 .. tip + 1 /\ (req.blk + 1) - 1 = req.blk
      BY <2>1
    <2>6. Len(leaves) = tip + 1 /\ \A j \in 1 .. tip + 1 : leaves[j] # Missing /\ leaves[j] = HashBlock(ledger[j - 1])
      BY <2>5, LeavesFacts
    <2> HIDE DEF tip, leaves, S
    <2>7. Len(leaves) \in Nat \ {0} /\ Len(leaves) - 1 = tip
      BY <2>5, <2>6
    <2>7a. /\ Ancestor(Len(leaves) - 1, MaxLevel) = 0 /\ req.blk \in 0 .. Len(leaves) - 1
           /\ Len(req.got) = RefHeight(Len(leaves) - 1) + 2
           /\ \A j \in 1 .. Len(leaves) : leaves[j] # Missing
      BY <2>1, <2>3, <2>6, <2>7
    <2>8. LET p == ProofOf(req.blk, req.got)
          IN  p.digest = RefRoot(leaves) /\ p.value = leaves[req.blk + 1] /\ Verify(p)
      <3> DEFINE got == req.got
                 seq == req.blk
      <3> HIDE DEF got, seq
      <3>1. /\ Len(leaves) \in Nat \ {0} /\ Ancestor(Len(leaves) - 1, MaxLevel) = 0
            /\ \A j \in 1 .. Len(leaves) : leaves[j] # Missing
            /\ seq \in 0 .. Len(leaves) - 1 /\ got \in Seq(S)
            /\ Len(got) = RefHeight(Len(leaves) - 1) + 2
            /\ \A j \in 1 .. Len(got) : got[j] = ProofValue(leaves, seq, j)
        BY <2>2, <2>7, <2>7a DEF got, seq
      <3>2. LET p == ProofOf(seq, got)
            IN  p.digest = RefRoot(leaves) /\ p.value = leaves[seq + 1] /\ Verify(p)
        BY <3>1, ProofVerifies
      <3> QED BY <3>2 DEF got, seq
    <2>9. leaves[req.blk + 1] = HashBlock(ledger[req.blk])
      BY <2>5, <2>6
    <2> QED BY <2>2, <2>4, <2>8, <2>9, Zenon
  <1> QED BY <1>1


\* The invariants give the roots of every entry.
LEMMA MptInvCovers == LedgerTreeInv /\ ClueInv /\ MptInv => CommitCoversPrefix
  <1>1. ASSUME LedgerTreeInv, ClueInv, MptInv PROVE CommitCoversPrefix
    <2>1. ASSUME NEW c \in DOMAIN commits
          PROVE  LET tip == commits[c].tip_block
                 IN  /\ commits[c].mtroot = RefRoot([i \in 1 .. tip + 1 |-> HashBlock(ledger[i - 1])])
                     /\ commits[c].mptroot =
                            [k \in UNION {ledger[b] : b \in 0 .. tip} |-> NewestEntry(k, tip)]
      <3> DEFINE tip == commits[c].tip_block
                 mpt == commits[c].mptroot
      <3>1. EntryTree(mt, ledger, c, commits[c])
        BY <1>1 DEF LedgerTreeInv, TreeInv
      <3>2. commits[c].mtroot = RefRoot(BlockHashes(ledger, tip + 1))
        BY <3>1, Zenon DEF EntryTree
      <3>3. commits[c].mtroot = RefRoot([i \in 1 .. tip + 1 |-> HashBlock(ledger[i - 1])])
        BY <3>2, Zenon DEF BlockHashes
      <3>4. EntryMpt(commits[c])
        BY <1>1 DEF MptInv
      <3>5. /\ mpt = [k \in KeysTo(tip) |-> mpt[k]]
            /\ \A k \in DOMAIN mpt : IsNewest(k, tip, mpt[k])
        BY <3>4 DEF EntryMpt
      <3>6. KeysTo(tip) \subseteq Keys
        <4>1. \A b \in 0 .. tip : b \in 0 .. next_block_seq - 1
          BY <1>1 DEF LedgerTreeInv, IInv, TypeOK, CommitsInv
        <4> QED BY <1>1, <4>1 DEF ClueInv, KeysTo
      <3> HIDE DEF tip, mpt
      <3>7. \A k \in KeysTo(tip) : mpt[k] = NewestEntry(k, tip)
        BY <1>1, <3>5, <3>6, NewestUnique
      <3>8. mpt = [k \in KeysTo(tip) |-> NewestEntry(k, tip)]
        BY <3>5, <3>7
      <3> QED BY <3>3, <3>8, Zenon DEF KeysTo, tip, mpt
    <2> QED BY <2>1, Zenon DEF CommitCoversPrefix
  <1> QED BY <1>1

-----------------------------------------------------------------------------
(* The nodes of the bAMT are immutable *)

\* A key of the tree of a commit, and a stored node of the round under way.
OfCommit(key, c) ==
    \E l \in Nat : \E i \in 0 .. Ancestor(commits[c].tip_block, l) :
        key = NodeKey(commits[c].tip_block + 1, c, l, i)
OfRound(key) ==
    \E l \in Nat : \E i \in Ancestor(Built, l) .. Ancestor((Built + Len(batch)) - 1, l) :
        key = RoundKey(l, i) /\ mt[key] = RoundNode(l, i)

\* The store has no other nodes.
NodesInv ==
    \A key \in DOMAIN mt : \/ \E c \in DOMAIN commits : OfCommit(key, c)
                           \/ bpc = "update" /\ OfRound(key)

\* buildTree writes a node that it has written before with the same value only.
LEMMA NodesStay ==
    ASSUME restarts' = 0, LedgerTreeInv, NodesInv, [Next]_vars, NEW k \in DOMAIN mt
    PROVE  k \in DOMAIN mt' /\ mt'[k] = mt[k]
  <1>0. IInv /\ CommitsInv /\ RoundTreeInv
    BY DEF LedgerTreeInv
  <1>1. CASE UNCHANGED mt
    BY <1>1
  <1>2. CASE PutNode
    <2> DEFINE n == Built + Len(batch)
    <2>1. bpc = "update" /\ batch # <<>>
      BY <1>0, <1>2, PutNodeEffect
    <2>2. n \in Nat \ {0} /\ Built \in Nat /\ Built < n /\ commit_seq \in Nat
      BY <1>0, <2>1, RoundNumbers
    <2>3. PICK l \in Nat : \E i \in Ancestor(Built, l) .. Ancestor(n - 1, l) : StoresNode(l, i)
      BY <1>0, <1>2, PutNodeEffect
    <2>4. PICK i \in Ancestor(Built, l) .. Ancestor(n - 1, l) : StoresNode(l, i)
      BY <2>3
    <2>5. CASE k # RoundKey(l, i)
      BY <2>4, <2>5 DEF StoresNode
    <2>6. CASE k = RoundKey(l, i)
      <3>1. ASSUME NEW c \in DOMAIN commits, OfCommit(k, c) PROVE FALSE
        <4> DEFINE m == commits[c].tip_block + 1
        <4>1. c \in Nat /\ c < commit_seq
          BY <1>0, <2>1, <2>2 DEF CommitsInv
        <4>2. m \in Nat \ {0} /\ m <= Built /\ m - 1 = commits[c].tip_block
          BY <1>0, <2>2, <4>1, EntryBelow
        <4>3. c # commit_seq /\ c # NoCommit /\ commit_seq # NoCommit
          BY <2>2, <4>1 DEF NoCommit
        <4>4. PICK h \in Nat : \E j \in 0 .. Ancestor(m - 1, h) : k = NodeKey(m, c, h, j)
          BY <3>1, <4>2 DEF OfCommit
        <4>5. PICK j \in 0 .. Ancestor(m - 1, h) : k = NodeKey(m, c, h, j)
          BY <4>4
        <4> HIDE DEF n, m
        <4>6. NodeKey(n, commit_seq, l, i) # NodeKey(m, c, h, j)
          BY <2>2, <2>3, <2>4, <4>2, <4>3, <4>4, <4>5, PutsAreNew
        <4> QED BY <2>6, <4>5, <4>6 DEF RoundKey, n
      <3>2. OfRound(k)
        BY <3>1 DEF NodesInv
      <3>3. PICK h \in Nat : \E j \in Ancestor(Built, h) .. Ancestor(n - 1, h) :
                k = RoundKey(h, j) /\ mt[k] = RoundNode(h, j)
        BY <3>2 DEF OfRound
      <3>4. PICK j \in Ancestor(Built, h) .. Ancestor(n - 1, h) : k = RoundKey(h, j) /\ mt[k] = RoundNode(h, j)
        BY <3>3
      <3>5. h = l /\ j = i
        BY <2>6, <3>4 DEF RoundKey, NodeKey
      <3> QED BY <2>4, <2>6, <3>4, <3>5 DEF StoresNode
    <2> QED BY <2>5, <2>6
  <1>3. PutNode \/ UNCHANGED mt
    BY Zenon DEF Next, vars, store, SetPut, SetPush, GetRootDigest, ProofDigest, ProofCommit, ProofRead,
           ProofReply, StartRound, TryPop, EndDrain, PutCommit, PutDigest, Shutdown, Restart
  <1> QED BY <1>1, <1>2, <1>3

\* Every step of the first process keeps the nodes those of commits or rounds.
LEMMA NextNodesInv ==
    ASSUME restarts' = 0, LedgerTreeInv, NodesInv, [Next]_vars
    PROVE  NodesInv'
  <1>0. IInv /\ CommitsInv /\ RoundTreeInv
    BY DEF LedgerTreeInv
  <1>1. ASSUME NEW key, NEW c \in DOMAIN commits, OfCommit(key, c)
        PROVE  \E d \in DOMAIN commits' : OfCommit(key, d)'
    <2>1. c \in DOMAIN commits' /\ commits'[c] = commits[c]
      BY LastTipGrows
    <2> QED BY <1>1, <2>1 DEF OfCommit
  <1>2. CASE PutNode
    <2> DEFINE n == Built + Len(batch)
    <2>1. bpc' = "update" /\ UNCHANGED <<commits, ledger, batch, commit_seq>>
      BY <1>2 DEF PutNode, Building
    <2>2. Built' = Built
      BY <2>1 DEF Built
    <2>3. PICK l \in Nat : \E i \in Ancestor(Built, l) .. Ancestor(n - 1, l) : StoresNode(l, i)
      BY <1>0, <1>2, PutNodeEffect
    <2>4. PICK i \in Ancestor(Built, l) .. Ancestor(n - 1, l) : StoresNode(l, i)
      BY <2>3
    <2>5. \A h, j : RoundKey(h, j)' = RoundKey(h, j) /\ RoundNode(h, j)' = RoundNode(h, j)
      BY <2>1, <2>2 DEF RoundKey, RoundNode
    <2>6. ASSUME NEW key \in DOMAIN mt', ~\E c \in DOMAIN commits : OfCommit(key, c) PROVE OfRound(key)'
      <3>1. PICK h \in Nat : \E j \in Ancestor(Built, h) .. Ancestor(n - 1, h) :
                key = RoundKey(h, j) /\ mt'[key] = RoundNode(h, j)
        <4>1. CASE key = RoundKey(l, i)
          BY <2>3, <2>4, <4>1 DEF StoresNode
        <4>2. CASE key # RoundKey(l, i)
          <5>1. key \in DOMAIN mt /\ mt'[key] = mt[key]
            BY <2>4, <2>6, <4>2 DEF StoresNode
          <5>2. OfRound(key)
            BY <2>6, <5>1 DEF NodesInv
          <5> QED BY <5>1, <5>2 DEF OfRound
        <4> QED BY <4>1, <4>2
      <3> HIDE DEF n
      <3> QED BY <2>1, <2>2, <2>5, <3>1 DEF OfRound, n
    <2> QED BY <1>1, <2>1, <2>6 DEF NodesInv
  <1>3. CASE PutCommit
    <2> DEFINE n == Built + Len(batch)
    <2>1. bpc' = "digest" /\ UNCHANGED mt
      BY <1>3 DEF PutCommit
    <2>2. /\ commit_seq \in DOMAIN commits' /\ commits'[commit_seq].tip_block + 1 = n
          /\ commits'[commit_seq].tip_block = n - 1 /\ Built \in Nat /\ n \in Nat
      BY <1>0, <1>3, NewEntry
    <2>3. ASSUME NEW key, OfRound(key) PROVE OfCommit(key, commit_seq)'
      <3>1. PICK l \in Nat : \E i \in Ancestor(Built, l) .. Ancestor(n - 1, l) : key = RoundKey(l, i)
        BY <2>3 DEF OfRound
      <3>2. PICK i \in Ancestor(Built, l) .. Ancestor(n - 1, l) : key = RoundKey(l, i)
        BY <3>1
      <3>3. Ancestor(Built, l) \in Nat
        BY <2>2, AncestorNat
      <3>4. i \in 0 .. Ancestor(n - 1, l)
        BY <3>2, <3>3
      <3>5. key = NodeKey(n, commit_seq, l, i)
        BY <3>2 DEF RoundKey
      <3>6. commit_seq' = commit_seq
        BY <1>3 DEF PutCommit
      <3> HIDE DEF n
      <3>7. \E h \in Nat : \E j \in 0 .. Ancestor(commits'[commit_seq].tip_block, h) :
                key = NodeKey(commits'[commit_seq].tip_block + 1, commit_seq, h, j)
        BY <2>2, <3>1, <3>4, <3>5
      <3> QED BY <3>6, <3>7 DEF OfCommit
    <2>4. commit_seq' = commit_seq
      BY <1>3 DEF PutCommit
    <2>5. \A key \in DOMAIN mt' : \E c \in DOMAIN commits' : OfCommit(key, c)'
      <3> SUFFICES ASSUME NEW key \in DOMAIN mt' PROVE \E c \in DOMAIN commits' : OfCommit(key, c)'
        OBVIOUS
      <3>1. (\E c \in DOMAIN commits : OfCommit(key, c)) \/ OfRound(key)
        BY <2>1 DEF NodesInv
      <3>2. CASE OfRound(key)
        <4>1. OfCommit(key, commit_seq)'
          BY <2>3, <3>2
        <4> QED BY <2>2, <2>4, <4>1 DEF OfCommit
      <3> QED BY <1>1, <3>1, <3>2
    <2> QED BY <2>5 DEF NodesInv
  <1>4. CASE UNCHANGED <<mt, commits>> /\ (bpc = "update" => UNCHANGED <<bpc, batch, commit_seq>>)
    <2>1. ASSUME NEW key \in DOMAIN mt, bpc = "update", OfRound(key) PROVE OfRound(key)'
      <3> DEFINE n == Built + Len(batch)
      <3>1. UNCHANGED <<mt, commits, batch, commit_seq>>
        BY <1>4, <2>1
      <3>2. Built' = Built
        BY <3>1 DEF Built
      <3>3. /\ next_block_seq \in Nat
            /\ \A b \in 0 .. next_block_seq - 1 : ledger'[b] = ledger[b]
        BY <1>0, BlocksStay
      <3>4. n \in 0 .. next_block_seq
        BY <1>0, BatchBounds
      <3>5. BlockHashes(ledger', n) = BlockHashes(ledger, n)
        <4> HIDE DEF n
        <4> QED BY <3>3, <3>4, LeavesStay, Zenon
      <3>6. \A h, j : RoundKey(h, j)' = RoundKey(h, j) /\ RoundNode(h, j)' = RoundNode(h, j)
        BY <3>1, <3>2, <3>5 DEF RoundKey, RoundNode
      <3> QED BY <2>1, <3>1, <3>2, <3>6 DEF OfRound
    <2> QED BY <1>1, <1>4, <2>1 DEF NodesInv
  <1>5. \/ PutNode \/ PutCommit
        \/ UNCHANGED <<mt, commits>> /\ (bpc = "update" => UNCHANGED <<bpc, batch, commit_seq>>)
    <2>1. ~Restart
      BY <1>0, FirstProcess
    <2> QED BY <2>1, Zenon DEF Next, vars, store, builder, SetPut, SetPush, GetRootDigest, ProofDigest, ProofCommit,
           ProofRead, ProofReply, StartRound, TryPop, EndDrain, PutDigest, Shutdown, Building
  <1> QED BY <1>2, <1>3, <1>4, <1>5

-----------------------------------------------------------------------------
(* Audit *)

\* A hash of an entry is told from a decoded text, and from other entries.
LEMMA HashFacts ==
    /\ \A x : DOMAIN HashCommit(x) = {"commit"}
    /\ \A x, y : HashCommit(x) = HashCommit(y) => x = y
    /\ DOMAIN Missing = {"none"}
  <1>1. \A x : DOMAIN HashCommit(x) = {"commit"} /\ HashCommit(x).commit = x
    BY DEF HashCommit
  <1>2. DOMAIN Missing = {"none"}
    BY DEF Missing
  <1> QED BY <1>1, <1>2

\* The chain that GetAudit collects holds together for the last commit only, and
\* only when its number is that of its last block.
LEMMA ChainHolds ==
    ASSUME LedgerTreeInv, DigestInv, EntryInv, digest # NoDigest,
           NEW seq \in 0 .. digest.tip_block, seq \in DOMAIN commits
    PROVE  AuditChain(GetAudit(seq)) <=> seq = digest.commit_seq /\ digest.tip_block = digest.commit_seq
  <1> DEFINE a == GetAudit(seq)
             T == digest.tip_block
             D == digest.commit_seq
  <1>1. /\ D \in DOMAIN commits /\ T \in Nat /\ D \in Nat /\ seq \in Nat /\ seq <= T
        /\ digest.digest = HashCommit(commits[D])
    BY DigestRead DEF DigestInv, DigestNamesCommit
  <1>2. /\ a.commits = [i \in seq .. T |-> CommitText(i)] /\ a.digest = HashCommit(commits[D])
    BY <1>1 DEF GetAudit, Entries
  <1> HIDE DEF a, T, D
  <1>3. /\ DOMAIN a.commits = seq .. T
        /\ \A i \in seq .. T : a.commits[i] = CommitText(i)
    BY <1>2
  <1>4. \A c \in DOMAIN commits : commits[c].commit_seq = c /\ c \in Nat
    BY DEF LedgerTreeInv, CommitsInv
  <1>5. ASSUME AuditChain(a) PROVE seq = T /\ T = D
    <2>1. ASSUME seq < T PROVE FALSE
      <3>1. seq \in seq .. T /\ seq + 1 \in seq .. T /\ seq + 1 > 0
        BY <1>1, <2>1
      <3>2. CommitText(seq + 1) # Missing
        BY <1>3, <1>5, <3>1 DEF AuditChain
      <3>3. seq + 1 \in DOMAIN commits /\ CommitText(seq + 1) = commits[seq + 1]
        BY <3>2 DEF CommitText
      <3>4. HashCommit(a.commits[seq]) = a.commits[seq + 1].prev_digest
        BY <1>3, <1>5, <3>1 DEF AuditChain
      <3>5. HashCommit(a.commits[seq]) = commits[seq + 1].prev_digest
        BY <1>3, <3>1, <3>3, <3>4
      <3>6. DOMAIN commits[seq + 1].prev_digest = {"decoded"}
        BY <3>1, <3>3 DEF EntryInv
      <3>7. {"decoded"} # {"commit"}
        OBVIOUS
      <3> QED BY <3>5, <3>6, <3>7, HashFacts
    <2>2. seq = T
      BY <1>1, <2>1
    <2>3. T \in seq .. T /\ T + 1 \notin seq .. T
      BY <1>1, <2>2
    <2>4. HashCommit(a.commits[T]) = a.digest
      BY <1>3, <1>5, <2>3 DEF AuditChain
    <2>5. a.commits[T] = commits[T] /\ T \in DOMAIN commits
      BY <1>3, <2>2, <2>3 DEF CommitText
    <2>6. commits[T] = commits[D]
      BY <1>2, <2>4, <2>5, HashFacts
    <2>7. commits[T].commit_seq = T /\ commits[D].commit_seq = D
      BY <1>1, <1>4, <2>5
    <2> QED BY <2>2, <2>6, <2>7
  <1>6. ASSUME seq = T, T = D PROVE AuditChain(a)
    <2>1. \A i \in seq .. T : i = D /\ i + 1 \notin seq .. T
      BY <1>1, <1>6
    <2>2. a.commits[D] = commits[D]
      BY <1>1, <1>3, <1>6 DEF CommitText
    <2>3. commits[D] # Missing
      <3>1. DOMAIN commits[D] = {"commit_seq", "prev_digest", "tip_block", "mtroot", "mtrootkey", "mptroot"}
        BY <1>1 DEF EntryInv
      <3>2. "tip_block" \in DOMAIN commits[D] /\ "tip_block" \notin {"none"}
        BY <3>1
      <3> QED BY <3>2, HashFacts
    <2> QED BY <1>2, <1>3, <2>1, <2>2, <2>3 DEF AuditChain
  <1> QED BY <1>5, <1>6 DEF a, T, D

\* The blocks of a commit, on top of the nodes before them, give its root.
LEMMA AuditRootHolds ==
    ASSUME LedgerTreeInv, NEW seq \in DOMAIN commits
    PROVE  AuditRoot(GetAudit(seq), mt) = commits[seq].mtroot
  <1> DEFINE a == GetAudit(seq)
             tip == commits[seq].tip_block
             start == FirstBlock(seq)
             leaves == BlockHashes(ledger, tip + 1)
             hashes == [i \in DOMAIN a.blocks |-> HashBlock(a.blocks[i])]
  <1>0. IInv /\ CommitsInv /\ TreeInv
    BY DEF LedgerTreeInv
  <1>1. /\ tip \in Nat /\ tip < next_block_seq /\ next_block_seq \in Nat /\ next_block_seq <= MaxBlocks
        /\ seq \in Nat /\ seq <= commit_seq /\ commit_seq \in Nat
    BY <1>0, LedgerAssumption DEF IInv, TypeOK, CommitsInv
  <1>2. ASSUME seq > 0
        PROVE  /\ seq - 1 \in DOMAIN commits /\ start = commits[seq - 1].tip_block + 1
               /\ commits[seq - 1].tip_block \in Nat /\ commits[seq - 1].tip_block < tip
    <2>1. seq - 1 \in 0 .. commit_seq - 1 /\ seq - 1 < seq
      BY <1>1, <1>2
    <2>2. seq - 1 \in DOMAIN commits /\ commits[seq - 1].tip_block \in Nat
      BY <1>0, <2>1 DEF IInv, TypeOK
    <2>3. commits[seq - 1].tip_block < tip
      BY <1>0, <2>1, <2>2 DEF CommitsInv
    <2> QED BY <1>2, <2>2, <2>3 DEF FirstBlock
  <1>3. seq = 0 => start = 0
    BY DEF FirstBlock
  <1>4. start \in 0 .. tip
    BY <1>1, <1>2, <1>3
  <1>5. tip + 1 \in Nat \ {0} /\ tip + 1 <= MaxBlocks /\ (tip + 1) - 1 = tip
    BY <1>1, LedgerAssumption
  <1>6. Len(leaves) = tip + 1 /\ \A j \in 1 .. tip + 1 : leaves[j] = HashBlock(ledger[j - 1])
    BY <1>5, LeavesFacts
  <1>7. HasComplete(mt, leaves, start)
    <2>1. CASE seq = 0
      BY <1>3, <2>1, NoneComplete
    <2>2. CASE seq # 0
      <3>1. seq > 0
        BY <1>1, <2>2
      <3>2. commits[seq - 1].tip_block + 1 <= tip + 1
        BY <1>1, <1>2, <3>1
      <3> QED BY <1>0, <1>2, <1>5, <3>1, <3>2, EntryComplete
    <2> QED BY <2>1, <2>2
  <1>8. Ancestor(tip, MaxLevel) = 0
    BY <1>5, TreeFits
  <1>9. /\ a.blocks = [i \in 1 .. tip - start + 1 |-> ledger[start + i - 1]]
        /\ a.first_block_seq = start /\ a.commit_seq = seq
    BY DEF GetAudit
  <1> HIDE DEF a, tip, start, leaves
  <1>10. hashes = [j \in 1 .. Len(leaves) - start |-> leaves[start + j]]
    <2>1. Len(leaves) - start = tip - start + 1
      BY <1>1, <1>4, <1>6
    <2>2. hashes = [i \in 1 .. tip - start + 1 |-> HashBlock(ledger[start + i - 1])]
      BY <1>9
    <2>3. ASSUME NEW i \in 1 .. tip - start + 1 PROVE HashBlock(ledger[start + i - 1]) = leaves[start + i]
      <3>1. start + i \in 1 .. tip + 1 /\ (start + i) - 1 = start + i - 1
        BY <1>1, <1>4
      <3> QED BY <1>6, <3>1
    <2> QED BY <2>1, <2>2, <2>3, Zenon
  <1>11. Len(leaves) - 1 = tip /\ Len(leaves) \in Nat \ {0}
    BY <1>5, <1>6
  <1> HIDE DEF hashes
  <1>12. UpdateArgs(mt, leaves, start, hashes, seq)
    BY <1>4, <1>7, <1>8, <1>10, <1>11 DEF UpdateArgs
  <1>13. Update(mt, start, hashes, seq).root_hash = RefRoot(leaves)
    BY <1>12, UpdateCorrect
  <1>14. AuditRoot(a, mt) = Update(mt, start, hashes, seq).root_hash
    BY <1>9 DEF AuditRoot, hashes
  <1>15. commits[seq].mtroot = RefRoot(leaves)
    <2>1. EntryTree(mt, ledger, seq, commits[seq])
      BY <1>0 DEF TreeInv
    <2> QED BY <2>1, Zenon DEF EntryTree, leaves, tip
  <1> QED BY <1>13, <1>14, <1>15 DEF a

\* What Audit says, from the invariants.
LEMMA AuditSays ==
    LedgerTreeInv /\ DigestInv /\ EntryInv => AuditAcceptsLatestOnly
  <1> SUFFICES ASSUME LedgerTreeInv, DigestInv, EntryInv, digest # NoDigest, NEW seq \in 0 .. digest.tip_block
               PROVE  /\ GetAudit(seq).throws <=> seq \notin DOMAIN commits
                      /\ ~GetAudit(seq).throws =>
                            (Audit(GetAudit(seq), mt) <=>
                                seq = digest.commit_seq /\ digest.tip_block = digest.commit_seq)
    BY Zenon DEF AuditAcceptsLatestOnly
  <1>1. CASE seq \notin DOMAIN commits
    <2>1. GetAudit(seq) = [throws |-> TRUE]
      BY <1>1, Zenon DEF GetAudit
    <2>2. GetAudit(seq).throws
      BY <2>1
    <2> QED BY <1>1, <2>2
  <1>2. CASE seq \in DOMAIN commits
    <2> DEFINE a == GetAudit(seq)
    <2>1. ~a.throws /\ a.commit_seq = seq /\ a.commits = Entries(seq)
      BY <1>2 DEF GetAudit
    <2>2. digest.tip_block \in Nat
      BY DigestRead
    <2>3. seq \in seq .. digest.tip_block
      BY <2>2
    <2>4. a.commits[seq] = commits[seq]
      BY <1>2, <2>1, <2>3 DEF Entries, CommitText
    <2>5. AuditRoot(a, mt) = commits[seq].mtroot
      BY <1>2, AuditRootHolds
    <2>6. AuditChain(a) <=> seq = digest.commit_seq /\ digest.tip_block = digest.commit_seq
      BY <1>2, ChainHolds
    <2> HIDE DEF a
    <2>7. Audit(a, mt) <=> seq = digest.commit_seq /\ digest.tip_block = digest.commit_seq
      BY <2>1, <2>4, <2>5, <2>6 DEF Audit
    <2> QED BY <1>2, <2>1, <2>7 DEF a
  <1> QED BY <1>1, <1>2

-----------------------------------------------------------------------------
(* The theorems *)

\* All invariants of the first process on a store.
FirstProcessInv ==
    /\ LedgerTreeInv /\ DigestInv /\ ReqInv
    /\ ClueInv /\ MptInv /\ NodesInv /\ EntryInv

\* They hold at the start.
LEMMA InitFirstProcessInv == Init => FirstProcessInv
  <1> SUFFICES ASSUME Init PROVE NodesInv /\ EntryInv
    BY InitLedgerTreeInv, InitDigestInv, InitReqInv, InitMptInv DEF FirstProcessInv
  <1>1. DOMAIN commits = {} /\ DOMAIN mt = {}
    BY DEF Init
  <1> QED BY <1>1 DEF NodesInv, EntryInv

\* Every step keeps them, until the store is opened again.
LEMMA NextFirstProcessInv ==
    IInv /\ (restarts = 0 => FirstProcessInv) /\ [Next]_vars => (restarts = 0 => FirstProcessInv)'
  <1> SUFFICES ASSUME IInv, restarts = 0 => FirstProcessInv, [Next]_vars, restarts' = 0
               PROVE  FirstProcessInv'
    OBVIOUS
  <1>1. FirstProcessInv
    BY FirstProcess
  <1>2. /\ IInv /\ CommitsInv /\ LedgerTreeInv /\ DigestInv /\ ReqInv
        /\ ClueInv /\ MptInv /\ NodesInv /\ EntryInv
    BY <1>1 DEF FirstProcessInv, LedgerTreeInv
  <1>3. LedgerTreeInv'
    BY <1>2, NextLedgerTreeInv
  <1>4. DigestInv'
    BY <1>2, NextDigestInv
  <1>5. ReqInv'
    BY <1>2, NextReqInv
  <1>6. ClueInv' /\ MptInv'
    BY <1>2, NextClueInv, NextMptInv
  <1>7. NodesInv' /\ EntryInv'
    BY <1>2, NextNodesInv, NextEntryInv
  <1> QED BY <1>3, <1>4, <1>5, <1>6, <1>7 DEF FirstProcessInv

\* So they hold throughout the life of the first process.
LEMMA AlwaysFirstProcessInv == Spec => [](restarts = 0 => FirstProcessInv)
  <1>1. Init => (restarts = 0 => FirstProcessInv)
    BY InitFirstProcessInv
  <1> QED BY <1>1, NextFirstProcessInv, AlwaysIInv, PTL DEF Spec

\* Until the store is opened again the roots of every commit entry are those of
\* exactly the blocks up to its tip: the bAMT's is the root of the tree built
\* over them at once, and the ccMPT maps each of their keys to its last write
\* among them.  This holds however buildTree cut the blocks into batches and
\* whatever Set has stored since, for any number of blocks, keys, timestamps.
THEOREM LedgerCommitCoversPrefix == Spec => [](restarts = 0 => CommitCoversPrefix)
  <1>1. (restarts = 0 => FirstProcessInv) => (restarts = 0 => CommitCoversPrefix)
    BY MptInvCovers DEF FirstProcessInv
  <1> QED BY <1>1, AlwaysFirstProcessInv, PTL

\* Until the store is opened again a proof that GetProofs has assembled node by
\* node, while buildTree stores the nodes of later commits, proves the block it
\* is for against the root of the commit it was started for, under every
\* interleaving of the two threads.
THEOREM LedgerServedProofVerifies == Spec => [](restarts = 0 => ServedProofVerifies)
  <1>1. (restarts = 0 => FirstProcessInv) => (restarts = 0 => ServedProofVerifies)
    BY ReqInvServed DEF FirstProcessInv
  <1> QED BY <1>1, AlwaysFirstProcessInv, PTL

\* What an audit of an honest server says, for any number of blocks and commits:
\* of the numbers the client audits it accepts that of the last commit alone,
\* and only when every commit so far covers a single block.
THEOREM LedgerAuditAcceptsLatestOnly == Spec => []AuditAcceptsLatestOnly
  <1>1. (restarts = 0 => FirstProcessInv) => AuditAcceptsLatestOnly
    <2>1. restarts # 0 => AuditAcceptsLatestOnly
      BY DEF AuditAcceptsLatestOnly
    <2> QED BY <2>1, AuditSays DEF FirstProcessInv
  <1> QED BY <1>1, AlwaysFirstProcessInv, PTL

\* README: "The nodes in bAMT are immutable".  They are while no second process
\* opens the store: no put of buildTree changes a stored node, not even the last,
\* incomplete node of a level, which every commit stores under a key of its own.
THEOREM LedgerNodesImmutable ==
    ASSUME MaxRestarts = 0
    PROVE  Spec => StoredNodesImmutable
  <1> DEFINE Step == \A k \in DOMAIN mt : k \in DOMAIN mt' /\ mt'[k] = mt[k]
  <1>1. IInv /\ IInv' /\ (restarts = 0 => FirstProcessInv) /\ [Next]_vars => [Step]_vars
    <2> SUFFICES ASSUME IInv, IInv', restarts = 0 => FirstProcessInv, [Next]_vars, NEW k \in DOMAIN mt
                 PROVE  k \in DOMAIN mt' /\ mt'[k] = mt[k]
      BY Zenon
    <2>1. restarts = 0 /\ restarts' = 0
      BY DEF IInv, TypeOK
    <2> QED BY <2>1, NodesStay DEF FirstProcessInv
  <1> QED BY <1>1, AlwaysFirstProcessInv, AlwaysIInv, PTL DEF Spec, StoredNodesImmutable
=============================================================================

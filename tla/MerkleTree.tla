----------------------------- MODULE MerkleTree -----------------------------
(***************************************************************************)
(* The bAMT of LedgerDB: an append-only Merkle tree over block hashes,     *)
(* extended by one batch of leaves per commit (ledger/ledgerdb/            *)
(* merkletree.cc).                                                         *)
(*                                                                         *)
(* A hash is an injective term, so equal hashes have equal contents.  The  *)
(* key "mt<level>-<index>" of a node is <<level, index, NoCommit>>, and    *)
(* "mt<level>-<index>-<commit>" is <<level, index, commit>>.               *)
(***************************************************************************)
EXTENDS Integers, Sequences, Maps

CONSTANT MaxLevel   \* no tree is higher: at most 2^MaxLevel blocks

ASSUME MaxLevelAssumption == MaxLevel \in Nat

NoCommit == -1

\* Hash::ComputeFrom: of a block, of one child and of two children.
HashBlock(content) == [blk |-> content]
HashOne(child) == [one |-> child]
HashTwo(left, right) == [two |-> <<left, right>>]

\* What a Get of an absent key leaves in its result, the empty string.
Missing == [none |-> 0]

Get(nodes, key) == IF key \in DOMAIN nodes THEN nodes[key] ELSE Missing

\* Put: the node of a key is replaced by the one just computed.
Put(nodes, put) == With(nodes, put[1], put[2])

-----------------------------------------------------------------------------
(***************************************************************************)
(* update: one pass per level.  The state of a pass is the hashes of the   *)
(* level that are new or loaded, the index of the first of them, and two   *)
(* flags of the code.                                                      *)
(***************************************************************************)
\* Mutant: the parity of seq itself.
EvenBefore_offByOne(seq) == IF seq > 1 THEN seq % 2 = 1 ELSE TRUE

\* Up to the node before seq, pairs are full: prev_complete.
EvenBefore(seq) == IF seq > 1 THEN (seq - 1) % 2 = 1 ELSE TRUE

Leaves(start, hashes) ==
    [hashes |-> hashes, start |-> start, complete |-> TRUE,
     prev_complete |-> EvenBefore(start),
     puts |-> [i \in 1 .. Len(hashes) |->
                 <<<<0, start + i - 1, NoCommit>>, hashes[i]>>]]

\* The left sibling of the level's first node, when that node is a right child.
PrevKey(level, pass, commit) ==
    <<level, pass.start - 1,
      IF level > 0 /\ ~pass.prev_complete THEN commit - 1 ELSE NoCommit>>

\* Only the last node of a level may be incomplete: its key names the commit.
ParentCommit(i, n, complete, commit) ==
    IF i = n /\ ~complete THEN commit ELSE NoCommit

StepUp(nodes, level, pass, commit) ==
    LET odd      == pass.start % 2 = 1
        hs       == IF odd THEN <<Get(nodes, PrevKey(level, pass, commit))>> \o pass.hashes
                           ELSE pass.hashes
        first    == IF odd THEN pass.start - 1 ELSE pass.start
        n        == (Len(hs) + 1) \div 2
        complete == pass.complete /\ Len(hs) % 2 = 0
        parents  == [i \in 1 .. n |-> IF 2 * i <= Len(hs)
                                        THEN HashTwo(hs[2 * i - 1], hs[2 * i])
                                        ELSE HashOne(hs[2 * i - 1])]
    IN  [hashes |-> parents, start |-> first \div 2, complete |-> complete,
         prev_complete |-> IF odd THEN EvenBefore(first) ELSE pass.prev_complete,
         puts |-> pass.puts \o
                  [i \in 1 .. n |->
                     <<<<level + 1, first \div 2 + i - 1,
                         ParentCommit(i, n, complete, commit)>>, parents[i]>>]]

\* The passes of an update, by level.
Passes(nodes, start, hashes, commit) ==
    LET pass[l \in 0 .. MaxLevel] ==
            IF l = 0 THEN Leaves(start, hashes)
                     ELSE StepUp(nodes, l - 1, pass[l - 1], commit)
    IN  pass

\* One node is left, the first of its level: the loop ends.
AtRoot(pass) == Len(pass.hashes) = 1 /\ pass.start = 0

\* The puts of an update in the order the code makes them, and its results.
Update(nodes, start, hashes, commit) ==
    LET pass == Passes(nodes, start, hashes, commit)
        top == CHOOSE l \in 0 .. MaxLevel :
                   AtRoot(pass[l]) /\ \A k \in 0 .. l - 1 : ~AtRoot(pass[k])
    IN  [puts |-> pass[top].puts,
         root_key |-> <<top, 0, IF pass[top].complete THEN NoCommit ELSE commit>>,
         root_hash |-> pass[top].hashes[1]]

-----------------------------------------------------------------------------
(***************************************************************************)
(* getProof reads the root, the leaf and one sibling per level; Verify     *)
(* folds the siblings over the leaf.                                       *)
(***************************************************************************)
\* getProof halves the index once per level.
Ancestor(seq, level) ==
    LET ptr[l \in Nat] == IF l = 0 THEN seq ELSE ptr[l - 1] \div 2
    IN  ptr[level]

\* The tree under the tip fills its levels 0 .. level: getProof's "complete".
FullTo(tip, level) == \A l \in 0 .. level : Ancestor(tip, l) % 2 = 1

NoSibling == <<-1, -1, NoCommit>>

\* Mutant: the right sibling is always read as a complete node.
SiblingKey_complete(commit, tip, seq, level) ==
    LET ptr == Ancestor(seq, level)
    IN  IF ptr % 2 = 1 THEN <<level, ptr - 1, NoCommit>>
        ELSE IF ptr = Ancestor(tip, level) THEN NoSibling
        ELSE <<level, ptr + 1, NoCommit>>

SiblingKey(commit, tip, seq, level) ==
    LET ptr == Ancestor(seq, level)
        last == Ancestor(tip, level)
    IN  IF ptr % 2 = 1 THEN <<level, ptr - 1, NoCommit>>
        ELSE IF ptr = last THEN NoSibling
        ELSE <<level, ptr + 1, IF ptr + 1 = last /\ level > 0 /\ ~FullTo(tip, level)
                                 THEN commit ELSE NoCommit>>

\* The keys getProof reads, in its order: the root, the leaf, the siblings.
ProofKeys(commit, root_key, tip, seq) ==
    <<root_key, <<0, seq, NoCommit>>>>
       \o [i \in 1 .. root_key[1] |-> SiblingKey(commit, tip, seq, i - 1)]

ProofOf(seq, hashes) ==
    [digest |-> hashes[1], value |-> hashes[2],
     proof |-> SubSeq(hashes, 3, Len(hashes)),
     left |-> [i \in 1 .. Len(hashes) - 2 |-> Ancestor(seq, i - 1) % 2 = 1]]

getProof(nodes, commit, root_key, tip, seq) ==
    LET keys == ProofKeys(commit, root_key, tip, seq)
    IN  ProofOf(seq, [i \in DOMAIN keys |-> Get(nodes, keys[i])])

\* calc_hash after each step of Verify.
Fold(p) ==
    LET calc[i \in 0 .. Len(p.proof)] ==
            IF i = 0 THEN p.value
            ELSE IF p.left[i] THEN HashTwo(p.proof[i], calc[i - 1])
            ELSE IF p.proof[i] # Missing THEN HashTwo(calc[i - 1], p.proof[i])
            ELSE HashOne(calc[i - 1])
    IN  calc

Verify(p) == Fold(p)[Len(p.proof)] = p.digest

-----------------------------------------------------------------------------
(***************************************************************************)
(* Reference: the root of the tree built at once over a whole sequence of  *)
(* leaves.  A node without a right child hashes its left child alone.      *)
(***************************************************************************)
RefNodes(leaves) ==
    LET last == Len(leaves) - 1
        node[l \in 0 .. MaxLevel] ==
            IF l = 0 THEN [i \in 0 .. last |-> leaves[i + 1]]
            ELSE [i \in 0 .. Ancestor(last, l) |->
                    IF 2 * i + 1 <= Ancestor(last, l - 1)
                      THEN HashTwo(node[l - 1][2 * i], node[l - 1][2 * i + 1])
                      ELSE HashOne(node[l - 1][2 * i])]
    IN  node

\* The level of the root over the leaves 0 .. last.
RefHeight(last) ==
    CHOOSE l \in 0 .. MaxLevel :
        Ancestor(last, l) = 0 /\ \A k \in 0 .. l - 1 : Ancestor(last, k) > 0

RefRoot(leaves) == RefNodes(leaves)[RefHeight(Len(leaves) - 1)][0]
=============================================================================

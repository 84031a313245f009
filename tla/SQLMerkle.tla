----------------------------- MODULE SQLMerkle ------------------------------
(***************************************************************************)
(* The Merkle trees of SQL Ledger (ledger/sqlledger/sqlldg_mt.cc), built   *)
(* once per transaction and once per block.  nodes maps                    *)
(* <<tree, level, position>> to a hash; hashes are terms.                  *)
(***************************************************************************)
EXTENDS Integers, Sequences, Maps

Leaf(x) == <<"leaf", x>>
One(h) == <<"one", h>>
Two(a, b) == <<"two", a, b>>
NoHash == <<>>                    \* the empty string Get leaves behind

\* One level of Build: the hash of each pair, the odd last one hashed alone.
Parents(hs) ==
    [i \in 1 .. (Len(hs) + 1) \div 2 |->
        IF 2 * i <= Len(hs) THEN Two(hs[2 * i - 1], hs[2 * i]) ELSE One(hs[2 * i - 1])]

\* The levels of Build above and including hs.
RECURSIVE Levels(_)
Levels(hs) == IF Len(hs) <= 1 THEN <<hs>> ELSE <<hs>> \o Levels(Parents(hs))

\* MerkleTree::Build: the nodes it puts, the top level and the root.
Build(mtid, leaves) ==
    LET levels == Levels([i \in DOMAIN leaves |-> Leaf(leaves[i])])
        at     == UNION {{<<mtid, l - 1, i - 1>> : i \in DOMAIN levels[l]} : l \in DOMAIN levels}
    IN  [nodes |-> [p \in at |-> levels[p[2] + 1][p[3] + 1]],
         level |-> Len(levels) - 1, root |-> levels[Len(levels)][1]]

NodeAt(nodes, p) == IF p \in DOMAIN nodes THEN nodes[p] ELSE NoHash

\* Mutant: the sibling is looked up on the right of an odd position too.
Sibling_right(ptr) == ptr + 1

Sibling(ptr) == IF ptr % 2 = 0 THEN ptr + 1 ELSE ptr - 1

\* MerkleTree::GetProof, with the value its callers put into it.
GetProof(nodes, mtid, level, seq, value) ==
    LET ptr(i) == seq \div (2 ^ i)
    IN  [value  |-> value,
         digest |-> NodeAt(nodes, <<mtid, level, 0>>),
         pos    |-> [i \in 1 .. level |-> IF ptr(i - 1) % 2 = 0 THEN 1 ELSE 0],
         proof  |-> [i \in 1 .. level |-> NodeAt(nodes, <<mtid, i - 1, Sibling(ptr(i - 1))>>)]]

\* The hash Proof::Verify computes from h over the first i siblings.
RECURSIVE Climb(_, _, _)
Climb(p, h, i) ==
    IF i = 0 THEN h
    ELSE LET below == Climb(p, h, i - 1)
         IN  IF p.pos[i] = 0 THEN Two(p.proof[i], below)
             ELSE IF p.proof[i] # NoHash THEN Two(below, p.proof[i])
             ELSE One(below)

\* Proof::Verify
VerifyProof(p) == p.digest = Climb(p, Leaf(p.value), Len(p.proof))
=============================================================================

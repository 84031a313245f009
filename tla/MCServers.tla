------------------------------ MODULE MCServers ------------------------------
(***************************************************************************)
(* Parts of the servers that take one call or message at a time, checked   *)
(* side by side: the authenticated and the index structures of the         *)
(* ledgers, QLDB with its client, and the replicas.  Each behaviour works  *)
(* on one of them, and the others stay as they were made.                  *)
(***************************************************************************)
EXTENDS VRReplica

CONSTANTS
    MaxLevel, MaxBlocks, MaxBatch,               \* the bAMT
    TrieKeys, TrieValues, MaxTrieBatch, MaxTrieOps,
    Stamps, MaxTower, MaxInserts,                \* the skip list
    BKeys, BValues, Fanout, LeafFanout, MaxSet,  \* the B+-tree
    QKeys, MaxQSets, MaxCrashes                  \* QLDB

VARIABLES
    part,          \* the part this behaviour works on
    nodes, blocks, roots,
    chunks, root, content, trieOps,
    slnodes, inserts,
    bnodes, broot, documents,
    qindexed, qhistory, docNodes, blkNodes, qblocks, qtip, qdigest, call, sets, crashes, synced

bamt == INSTANCE MerkleBatches
trie == INSTANCE Trie WITH MaxBatch <- MaxTrieBatch
skiplist == INSTANCE SkipList WITH MaxLevel <- MaxTower
btree == INSTANCE BTree
qldb == INSTANCE QLDB

bamtVars == <<nodes, blocks, roots>>
trieVars == <<chunks, root, content, trieOps>>
slVars == <<slnodes, inserts>>
btVars == <<bnodes, broot, documents>>
qVars == <<qindexed, qhistory, docNodes, blkNodes, qblocks, qtip, qdigest, call, sets, crashes, synced>>
vars == <<part, bamtVars, trieVars, slVars, btVars, qVars, vrVars>>

\* Keys of one byte that part at the first or at the second nibble, and one that
\* is a prefix of another.
TrieKeySet == {<<0>>, <<1>>, <<16>>, <<0, 0>>}

Init ==
    /\ part \in {"bamt", "trie", "skiplist", "btree", "qldb", "replicas"}
    /\ bamt!BatchesInit /\ trie!TrieInit /\ skiplist!SkipListInit /\ btree!BTreeInit
    /\ qldb!QInit /\ VRInit

UseBAMT == part = "bamt" /\ bamt!BatchesNext
           /\ UNCHANGED <<part, trieVars, slVars, btVars, qVars, vrVars>>
UseTrie == part = "trie" /\ trie!TrieNext
           /\ UNCHANGED <<part, bamtVars, slVars, btVars, qVars, vrVars>>
UseSkipList == part = "skiplist" /\ skiplist!SkipListNext
               /\ UNCHANGED <<part, bamtVars, trieVars, btVars, qVars, vrVars>>
UseBTree == part = "btree" /\ btree!BTreeNext
            /\ UNCHANGED <<part, bamtVars, trieVars, slVars, qVars, vrVars>>
UseQLDB == part = "qldb" /\ qldb!QNext
           /\ UNCHANGED <<part, bamtVars, trieVars, slVars, btVars, vrVars>>
UseReplicas == part = "replicas" /\ VRNext
               /\ UNCHANGED <<part, bamtVars, trieVars, slVars, btVars, qVars>>

Next == UseBAMT \/ UseTrie \/ UseSkipList \/ UseBTree \/ UseQLDB \/ UseReplicas

Spec == Init /\ [][Next]_vars

-----------------------------------------------------------------------------
(* Properties; those of the replicas are VRReplica's *)

\* However the blocks were batched, update (merkletree.cc:8) returns the root of
\* the tree over all the blocks up to the commit's tip, and a proof of any of them
\* under any commit, old or new, verifies (merkletree.cc:77).
CommitsProveBlocks == bamt!CommitsProveBlocks

\* Trie::Get (trie.cc:24) returns the last value of every key after any sequence
\* of batches and removals, the proof of every stored key (trie.cc:379) verifies
\* against the root, and the root counts the keys (mpt_node.cc:158).
TrieMatchesContent == trie!TrieMatchesContent

\* Whatever the order of the timestamps and the levels drawn, find
\* (skiplist.cc:116) returns what was inserted for a timestamp, and scan
\* (skiplist.cc:202) each version once, newest first after the first inserted.
SkipListMatchesInserts == skiplist!SkipListMatchesInserts

\* Whatever splits the calls of Set caused, Get (ql_btree.cc:23) and Range
\* (ql_btree.cc:66) return the last documents, and the counts in the meta nodes
\* (ql_btree_node.cc:199) add up to the number of keys.
BTreeMatchesDocuments == btree!BTreeMatchesDocuments

\* Every document of every block verifies against the digest after a Set that ran
\* to its end, also after a crash of an earlier one (qldb.cc:185-194).
ChainVerifies == qldb!ChainVerifies

\* A proof the client accepts is one of a document in the chain, also where a
\* crash left the index ahead of the chain (qldb.cc:164 and 192); without a crash
\* it accepts those of a commit's writes, and of its reads if it only reads
\* (occstore.cc:87-103, versionstore.cc:67, 126, 362).
CommitReplyVerifies == qldb!CommitReplyVerifies

\* GetHistory returns the documents of a key in all blocks, newest first, while no
\* crash happened (qldb.cc:85).
HistoryMatchesChain == qldb!HistoryMatchesChain
==============================================================================

-------------------------------- MODULE QLDB --------------------------------
(***************************************************************************)
(* QLDB (ledger/qldb/qldb.cc, qlnode.cc), with the reply of a commit that  *)
(* VersionedKVStore and OCCStore make of it and the check of that reply in *)
(* ShardClient::CommitCallback.  One server thread runs everything; the    *)
(* hazards are the many writes of one Set and a crash between them.        *)
(*                                                                         *)
(* The two B+-trees are the maps BTree shows them to be, each updated in   *)
(* one step.  The clock is left out; a value is the number of its Set.     *)
(***************************************************************************)
EXTENDS Integers, Sequences, FiniteSets, SequencesExt, FiniteSetsExt, Maps

CONSTANTS
    QKeys,         \* keys, natural numbers
    MaxQSets,      \* bound on the calls of Set
    MaxCrashes     \* bound on the crashes of the server

VARIABLES
    qindexed,      \* indexed_: key -> document
    qhistory,      \* history_: <<key, version>> -> document
    docNodes,      \* block -> "proof_test|<block>|<level>|<i>" -> one or two hashes
    blkNodes,      \* "proof_test|<level>|<i>" -> one or two hashes
    qblocks,       \* "test|<n>" -> documents of the block and the previous hash
    qtip,          \* "test": number and hash of the last block
    qdigest,       \* "digest_test"
    call,          \* the commit being served, with its local variables
    sets, crashes, \* how many there were
    synced         \* the last Set that started has also ended

qindex == <<qindexed, qhistory>>
qledger == <<docNodes, blkNodes, qblocks, qtip, qdigest>>
qVars == <<qindex, qledger, call, sets, crashes, synced>>

Doc(d) == <<"doc", d>>
Node(hs) == <<"node", hs>>             \* Hash::ComputeFrom of one or two hashes
Genesis == <<"0">>                     \* Hash::ComputeFrom("0")
NoTip == [seq |-> -1, hash |-> Genesis]
QLBlock(docs, prev) == [docs |-> docs, prev |-> prev]
Other(what, seq) == <<what, seq>>      \* the statement and the address of a block
NoHash == <<>>

-----------------------------------------------------------------------------
(* The trees *)

\* One level above hs: pairs of hashes, the odd last one alone.
Pairs(hs) ==
    [i \in 1 .. (Len(hs) + 1) \div 2 |->
        IF 2 * i <= Len(hs) THEN <<hs[2 * i - 1], hs[2 * i]>> ELSE <<hs[2 * i - 1]>>]

\* calculateBlockHash: the levels of nodes above the leaves, ...
RECURSIVE BlockLevels(_)
BlockLevels(hs) ==
    IF Len(hs) = 1 THEN <<>>
    ELSE LET nodes == Pairs(hs)
         IN  <<nodes>> \o BlockLevels([i \in DOMAIN nodes |-> Node(nodes[i])])

\* ... the nodes it puts and the hash of the block.
calculateBlockHash(leaves) ==
    LET levels == BlockLevels(leaves)
        at     == UNION {{<<l, i - 1>> : i \in DOMAIN levels[l]} : l \in DOMAIN levels}
    IN  [nodes |-> [p \in at |-> levels[p[1]][p[2] + 1]],
         hash  |-> Node(levels[Len(levels)][1])]

\* Mutant: the left sibling is always the block before.
DigestNode_prev(nodes, level, seq, hash, prev) ==
    IF seq % 2 = 0 THEN <<hash>> ELSE <<prev, hash>>

\* The node calculateDigest puts above the node with number seq at a level: the
\* left sibling's hash is that of the block before or of a node stored earlier.
DigestNode(nodes, level, seq, hash, prev) ==
    IF seq % 2 = 0 THEN <<hash>>
    ELSE <<IF level = 1 THEN prev ELSE Node(nodes[<<level - 1, seq - 1>>]), hash>>

\* calculateDigest: the path from block seq to the root is put again.
RECURSIVE Path(_, _, _, _, _)
Path(nodes, level, seq, hash, prev) ==
    IF seq = 0 THEN [nodes |-> nodes, digest |-> hash]
    ELSE LET node == DigestNode(nodes, level, seq, hash, prev)
         IN  Path(With(nodes, <<level, seq \div 2>>, node), level + 1, seq \div 2, Node(node), prev)

calculateDigest(hash, prev, seq) == Path(blkNodes, 1, seq, hash, prev)

-----------------------------------------------------------------------------
(* Proofs *)

\* The siblings of position seq up a tree whose last position is last.
RECURSIVE Siblings(_, _, _, _)
Siblings(nodes, level, seq, last) ==
    IF last = 0 THEN <<>>
    ELSE LET pos  == 1 - (seq % 2)
             node == nodes[<<level, seq \div 2>>]
             hash == IF seq = last /\ last % 2 = 0 THEN NoHash ELSE node[pos + 1]
         IN  <<[pos |-> pos, hash |-> hash]>> \o Siblings(nodes, level + 1, seq \div 2, last \div 2)

\* getProof: the document at doc_seq of a block and its path to the digest, or
\* nothing for a block past the tip.  The tree of a block has three more leaves;
\* getProof takes the first two of them for documents, and reads past the end of
\* documents_ there: some document that was never stored.
NoProof == [doc |-> [key |-> -1], path |-> <<>>]

getProof(tip, blk, doc_seq) ==
    IF blk > tip THEN NoProof
    ELSE LET docs == qblocks[blk].docs
         IN  [doc  |-> IF doc_seq < Len(docs) THEN docs[doc_seq + 1] ELSE NoProof.doc,
              path |-> Siblings(docNodes[blk], 1, doc_seq, Len(docs) + 2)
                       \o Siblings(blkNodes, 1, blk, tip)]

\* The hash QLProofResult::Verify computes from the first i hashes of a path.
RECURSIVE Climb(_, _, _)
Climb(path, h, i) ==
    IF i = 0 THEN h
    ELSE LET below == Climb(path, h, i - 1)
         IN  IF path[i].hash = NoHash THEN Node(<<below>>)
             ELSE IF path[i].pos = 0 THEN Node(<<path[i].hash, below>>)
             ELSE Node(<<below, path[i].hash>>)

\* QLProofResult::Verify of the document under the key that was asked for.
Verify(key, proof, hash) ==
    Climb(proof.path, Doc([proof.doc EXCEPT !.key = key]), Len(proof.path)) = hash

\* GetCommitted and getProof for one key of VersionedKVStore::BatchGet.
ProofOf(key) ==
    [key |-> key, proof |-> getProof(qtip.seq, qindexed[key].blk, qindexed[key].seq)]

\* GetHistory: the current document, then older versions, at most n of them.
GetHistory(key, n) ==
    LET version == qindexed[key].version
    IN  [i \in 1 .. Min({version, n}) + 1 |->
            IF i = 1 THEN qindexed[key] ELSE qhistory[<<key, version + 1 - i>>]]

-----------------------------------------------------------------------------
(* One commit *)

QInit ==
    /\ qindexed = EmptyMap /\ qhistory = EmptyMap
    /\ docNodes = EmptyMap /\ blkNodes = EmptyMap /\ qblocks = EmptyMap
    /\ qtip = NoTip /\ qdigest = NoHash
    /\ call = [pc |-> "idle"] /\ sets = 0 /\ crashes = 0 /\ synced = TRUE

\* VersionedKVStore::BatchGet: the digest, and a proof of each key it finds.
BatchGet(keys) ==
    [digest |-> qdigest,
     proofs |-> LET found == SetToSortSeq(keys \cap DOMAIN qindexed, <)
                IN  [i \in DOMAIN found |-> ProofOf(found[i])]]

\* VersionedKVStore::GetNVersions: proofs of all versions of the keys, and no digest.
GetNVersions(keys) ==
    FoldLeft(LAMBDA proofs, key : proofs \o
                 [i \in DOMAIN GetHistory(key, MaxQSets) |->
                    LET doc == GetHistory(key, MaxQSets)[i]
                    IN  [key |-> key, proof |-> getProof(qtip.seq, doc.blk, doc.seq)]],
             <<>>, SetToSortSeq(keys, <))

\* VersionedKVStore::GetDigest has no case for this engine: the hash it sends is
\* empty, and what the client reads of it is no hash of a node.
NoDigest == <<"empty">>

Call(pc, reads, writes, reply) ==
    [pc |-> pc, reads |-> reads, writes |-> writes, digest |-> reply.digest, proofs |-> reply.proofs,
     docs |-> <<>>, tip |-> qtip]

\* OCCStore::Commit up to the writes: the digest of BatchGet replaces that of
\* GetDigest if there is anything to read.  GetHistory of a key that was never
\* written, or one of whose versions a crash kept out of the history, reads
\* through a null pointer: the process dies and nothing changes.
CommitReads(reads, versions, writes) ==
    /\ call.pc = "idle" /\ reads \cup versions \cup writes # {}
    /\ \A k \in versions : k \in DOMAIN qindexed
                         /\ \A v \in 0 .. qindexed[k].version - 1 : <<k, v>> \in DOMAIN qhistory
    /\ writes # {} => sets < MaxQSets
    /\ call' = Call(IF writes = {} THEN "reply" ELSE "index", reads, writes,
                    [digest |-> IF reads = {} THEN NoDigest ELSE BatchGet(reads).digest,
                     proofs |-> BatchGet(reads).proofs \o GetNVersions(versions)])
    /\ UNCHANGED <<qindex, qledger, sets, crashes, synced>>

\* OCCStore::GetRange: the digest, and a proof of each key QLDB::Range finds.
GetRange(from, to) ==
    /\ call.pc = "idle"
    /\ LET keys == {k \in QKeys : from <= k /\ k <= to}
       IN  call' = Call("reply", keys, {}, BatchGet(keys))
    /\ UNCHANGED <<qindex, qledger, sets, crashes, synced>>

\* Mutant: the version does not grow.
NewDocuments_sameVersion(keys) ==
    [i \in DOMAIN keys |->
        [key |-> keys[i], val |-> sets, blk |-> qtip.seq + 1, seq |-> i - 1, version |-> 0]]

\* The documents of QLDB::Set, one version above the committed ones.
NewDocuments(keys) ==
    [i \in DOMAIN keys |->
        [key |-> keys[i], val |-> sets, blk |-> qtip.seq + 1, seq |-> i - 1,
         version |-> IF keys[i] \in DOMAIN qindexed THEN qindexed[keys[i]].version + 1 ELSE 0]]

\* Set: the documents, and indexed_->Set.
SetIndex ==
    LET docs == NewDocuments(SetToSortSeq(call.writes, <))
    IN  /\ call.pc = "index"
        /\ qindexed' = Merge([k \in call.writes |-> docs[CHOOSE i \in DOMAIN docs : docs[i].key = k]], qindexed)
        /\ call' = [call EXCEPT !.pc = "history", !.docs = docs]
        /\ sets' = sets + 1 /\ synced' = FALSE
        /\ UNCHANGED <<qhistory, qledger, crashes>>

\* Set: history_->Set.
SetHistory ==
    /\ call.pc = "history"
    /\ qhistory' = Merge([kv \in {<<d.key, d.version>> : d \in ToSet(call.docs)} |->
                            CHOOSE d \in ToSet(call.docs) : d.key = kv[1]], qhistory)
    /\ call' = [call EXCEPT !.pc = "nodes"]
    /\ UNCHANGED <<qindexed, qledger, sets, crashes, synced>>

\* The leaves of the block's tree, and what calculateBlockHash makes of them.
BlockHash ==
    LET seq == call.tip.seq + 1
    IN  calculateBlockHash([i \in DOMAIN call.docs |-> Doc(call.docs[i])]
                           \o <<call.tip.hash, Other("statement", seq), Other("address", seq)>>)

SetNodes ==
    /\ call.pc = "nodes"
    /\ LET seq == call.tip.seq + 1
           old == IF seq \in DOMAIN docNodes THEN docNodes[seq] ELSE EmptyMap
       IN  docNodes' = With(docNodes, seq, Merge(BlockHash.nodes, old))
    /\ call' = [call EXCEPT !.pc = "path"]
    /\ UNCHANGED <<qindex, blkNodes, qblocks, qtip, qdigest, sets, crashes, synced>>

NewDigest == calculateDigest(BlockHash.hash, call.tip.hash, call.tip.seq + 1)

SetPath ==
    /\ call.pc = "path"
    /\ blkNodes' = NewDigest.nodes
    /\ call' = [call EXCEPT !.pc = "digest"]
    /\ UNCHANGED <<qindex, docNodes, qblocks, qtip, qdigest, sets, crashes, synced>>

SetDigest ==
    /\ call.pc = "digest"
    /\ qdigest' = NewDigest.digest
    /\ call' = [call EXCEPT !.pc = "block"]
    /\ UNCHANGED <<qindex, docNodes, blkNodes, qblocks, qtip, sets, crashes, synced>>

SetBlock ==
    /\ call.pc = "block"
    /\ qblocks' = With(qblocks, call.tip.seq + 1, QLBlock(call.docs, call.tip.hash))
    /\ call' = [call EXCEPT !.pc = "tip"]
    /\ UNCHANGED <<qindex, docNodes, blkNodes, qtip, qdigest, sets, crashes, synced>>

\* The tip, with the block's hash.
SetTip ==
    /\ call.pc = "tip"
    /\ qtip' = [seq |-> call.tip.seq + 1, hash |-> BlockHash.hash]
    /\ call' = [call EXCEPT !.pc = "written"] /\ synced' = TRUE
    /\ UNCHANGED <<qindex, docNodes, blkNodes, qblocks, qdigest, sets, crashes>>

\* Mutant: the digest of the reads stays in the reply.
PutReply_oldDigest ==
    /\ call.pc = "written"
    /\ call' = [call EXCEPT !.pc = "reply", !.proofs = @ \o BatchGet(call.writes).proofs]
    /\ UNCHANGED <<qindex, qledger, sets, crashes, synced>>

\* VersionedKVStore::put reads back what it wrote; its digest replaces the one
\* that came with the reads.
PutReply ==
    /\ call.pc = "written"
    /\ call' = [call EXCEPT !.pc = "reply", !.digest = BatchGet(call.writes).digest,
                            !.proofs = @ \o BatchGet(call.writes).proofs]
    /\ UNCHANGED <<qindex, qledger, sets, crashes, synced>>

\* ShardClient::CommitCallback or GetRangeCallback has checked the reply.
CommitCallback ==
    /\ call.pc = "reply"
    /\ call' = [pc |-> "idle"]
    /\ UNCHANGED <<qindex, qledger, sets, crashes, synced>>

\* The server dies inside Set and is started again on the same store.
Crash ==
    /\ call.pc \in {"history", "nodes", "path", "digest", "block", "tip"} /\ crashes < MaxCrashes
    /\ call' = [pc |-> "idle"] /\ crashes' = crashes + 1
    /\ UNCHANGED <<qindex, qledger, sets, synced>>

QNext ==
    \/ \E reads, versions, writes \in SUBSET QKeys : CommitReads(reads, versions, writes)
    \/ \E from, to \in QKeys : GetRange(from, to)
    \/ SetIndex \/ SetHistory \/ SetNodes \/ SetPath \/ SetDigest \/ SetBlock \/ SetTip
    \/ PutReply \/ CommitCallback \/ Crash

-----------------------------------------------------------------------------
(* Properties *)

\* Every document of every block verifies against the digest whenever the last
\* Set ran to its end; after a crash that left the digest, the path or the block
\* ahead of the tip, the next Set repairs them (qldb.cc:185-194).
ChainVerifies ==
    call.pc = "idle" /\ synced =>
        \A blk \in 0 .. qtip.seq : \A d \in ToSet(qblocks[blk].docs) :
            Verify(d.key, getProof(qtip.seq, blk, d.seq), qdigest)

\* A proof the client accepts is one of a document of that key in the chain, also
\* where a crash left a document in the index whose place in the chain another
\* document took (qldb.cc:164 and 192).  Without a crash it accepts all proofs of
\* a range or of a commit that only read or only wrote, and of the others those
\* of the writes: a commit that does both carries the proofs of its reads under an
\* older tip than its digest, and one that only asks for versions carries no
\* digest (occstore.cc:87-103, versionstore.cc:67, 126, 362-366).
CommitReplyVerifies ==
    call.pc = "reply" =>
        \A i \in DOMAIN call.proofs :
            LET p == call.proofs[i]
                accepted == Verify(p.key, p.proof, call.digest)
            IN  /\ accepted => /\ p.proof.doc.key = p.key
                               /\ \E blk \in 0 .. qtip.seq : p.proof.doc \in ToSet(qblocks[blk].docs)
                /\ crashes = 0 =>
                     (accepted <=> \/ call.writes = {} /\ call.reads # {}
                                   \/ i > Len(call.proofs) - Cardinality(call.writes))

\* GetHistory gives the documents of a key in all blocks, the newest first.
HistoryMatchesChain ==
    call.pc = "idle" /\ crashes = 0 =>
        \A k \in DOMAIN qindexed :
            LET h == GetHistory(k, MaxQSets)
            IN  /\ ToSet(h) = {d \in UNION {ToSet(qblocks[b].docs) : b \in 0 .. qtip.seq} : d.key = k}
                /\ \A i \in 1 .. Len(h) - 1 : h[i].blk > h[i + 1].blk
=============================================================================

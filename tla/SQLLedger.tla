----------------------------- MODULE SQLLedger ------------------------------
(***************************************************************************)
(* SQL Ledger (ledger/sqlledger/sqlledger.cc, ledger/common/logger.h): the *)
(* server thread runs Set and serves proofs, the thread of updateLedger    *)
(* seals the buffered transactions into blocks.  They meet at lock_.       *)
(*                                                                         *)
(* The B+-tree indexed_ is the map BTree shows it to be.  A Set writes a   *)
(* value of its own, its transaction number; the clock is left out.        *)
(***************************************************************************)
EXTENDS SQLMerkle, FiniteSets, FiniteSetsExt, SequencesExt

CONSTANTS
    WriteSets,     \* sets of keys a Set may write, keys being numbers
    MaxSets        \* bound on the calls of Set

VARIABLES
    block_seq, tid, buffer,
    mtnodes,       \* the nodes of all Merkle trees
    txns,          \* "txn<n>"  -> transaction entry
    blks,          \* "blk<n>"  -> block
    digest,        \* "digest"
    hist,          \* "<key>|<block>" -> document
    indexed,       \* the B+-tree: key -> document
    wal,           \* Logger: the entries of the log,
    walEnd,        \* how many of them advance has counted (end_),
    walIdx,        \* the index file: block and range of each sealed block
    setter,        \* where the server thread is, with its local variables
    builder,       \* where updateLedger is, with its local variables
    tip_block,     \* ShardClient: the tip the client knows
    auditSeq,      \* auditClient: the block it audits next
    down           \* the server process has ended

engine == <<block_seq, tid, buffer>>
ledger == <<mtnodes, txns, blks, digest>>
log == <<wal, walEnd, walIdx>>
sqlVars == <<engine, ledger, hist, indexed, log, setter, builder, tip_block, auditSeq, down>>

NoDigest == [hash |-> NoHash, blk |-> -1]

HashBlock(block) == <<"block", block>>

-----------------------------------------------------------------------------
SQLInit ==
    /\ block_seq = 0 /\ tid = 0 /\ buffer = EmptyMap
    /\ mtnodes = EmptyMap /\ txns = EmptyMap /\ blks = EmptyMap /\ digest = NoDigest
    /\ hist = EmptyMap /\ indexed = EmptyMap
    /\ wal = <<>> /\ walEnd = 0 /\ walIdx = <<>>
    /\ setter = [pc |-> "idle"] /\ builder = [pc |-> "sleep"]
    /\ tip_block = 0 /\ auditSeq = 0 /\ down = FALSE

Serving == setter.pc = "idle" /\ ~down

\* The documents of a Set that will be sealed in block blk.
Documents(keys, blk) ==
    [i \in DOMAIN keys |-> [blk |-> blk, txn |-> tid, i |-> i - 1, key |-> keys[i], val |-> tid]]

\* Mutant: the block number is read before the lock that guards the buffer.
SetBuffer_unlocked(keys) ==
    /\ Serving /\ tid < MaxSets
    /\ \E blk \in {b \in {block_seq, block_seq - 1} : b >= 0} :
         /\ buffer' = With(buffer, tid, Documents(keys, blk))
         /\ setter' = [pc |-> "store", docs |-> Documents(keys, blk), blk |-> blk]
    /\ UNCHANGED <<block_seq, tid, ledger, hist, indexed, log, builder, tip_block, auditSeq, down>>

\* Set, under the shared lock.
SetBuffer(keys) ==
    /\ Serving /\ tid < MaxSets
    /\ buffer' = With(buffer, tid, Documents(keys, block_seq))
    /\ setter' = [pc |-> "store", docs |-> Documents(keys, block_seq), blk |-> block_seq]
    /\ UNCHANGED <<block_seq, tid, ledger, hist, indexed, log, builder, tip_block, auditSeq, down>>

\* TxnEntry::Encode as Set calls it: the transaction number is tid_ - 1, on 64 bits.
LogEntry(docs) ==
    [txnid |-> IF tid = 0 THEN 2^30 ELSE tid - 1,    \* 2^30 stands for 2^64 - 1
     keys |-> [i \in DOMAIN docs |-> docs[i].key], vals |-> [i \in DOMAIN docs |-> docs[i].val]]

\* Set, with no lock: the history, the index and the log.
SetStore ==
    /\ setter.pc = "store" /\ ~down
    /\ LET docs == setter.docs
       IN  /\ hist' = Merge([kb \in {<<docs[i].key, setter.blk>> : i \in DOMAIN docs} |->
                               docs[CHOOSE i \in DOMAIN docs : docs[i].key = kb[1]]], hist)
           /\ indexed' = Merge([k \in {docs[i].key : i \in DOMAIN docs} |->
                                  docs[CHOOSE i \in DOMAIN docs : docs[i].key = k]], indexed)
           /\ wal' = Append(wal, LogEntry(docs))
    /\ setter' = [pc |-> "advance"]
    /\ UNCHANGED <<engine, ledger, walEnd, walIdx, builder, tip_block, auditSeq, down>>

\* Mutant: the log does not advance.
SetAdvance_forget ==
    /\ setter.pc = "advance" /\ ~down
    /\ tid' = tid + 1 /\ setter' = [pc |-> "idle"]
    /\ UNCHANGED <<block_seq, buffer, ledger, hist, indexed, log, builder, tip_block, auditSeq, down>>

\* Set, under the exclusive lock: Logger::advance; then ++tid_.
SetAdvance ==
    /\ setter.pc = "advance" /\ ~down
    /\ walEnd' = walEnd + 1
    /\ tid' = tid + 1 /\ setter' = [pc |-> "idle"]
    /\ UNCHANGED <<block_seq, buffer, ledger, hist, indexed, wal, walIdx, builder, tip_block, auditSeq, down>>

-----------------------------------------------------------------------------
(* updateLedger *)

\* Logger::index: the entries counted since the last call.
Index(blk) ==
    Append(walIdx, [blk |-> blk, start |-> IF walIdx = <<>> THEN 0 ELSE Last(walIdx).end, end |-> walEnd])

\* The non-empty buffer is taken and its log range recorded, under the lock.
Seal ==
    /\ builder.pc = "sleep" /\ ~down /\ DOMAIN buffer # {}
    /\ builder' = [pc |-> "txns", seq |-> block_seq, new |-> buffer, leaves |-> <<>>]
    /\ block_seq' = block_seq + 1 /\ buffer' = EmptyMap
    /\ walIdx' = Index(block_seq)
    /\ UNCHANGED <<tid, ledger, hist, indexed, wal, walEnd, setter, tip_block, auditSeq, down>>

\* One transaction: its tree and its entry.
BuildTxn ==
    /\ builder.pc = "txns" /\ ~down /\ DOMAIN builder.new # {}
    /\ LET n == Min(DOMAIN builder.new)
       IN  \E t \in {Build(<<"txn", n>>, builder.new[n])} :
             LET entry == [txn |-> n, blk |-> builder.seq, seq |-> Len(builder.leaves),
                           root |-> t.root, level |-> t.level]
             IN  /\ mtnodes' = Merge(t.nodes, mtnodes)
                 /\ txns' = With(txns, n, entry)
                 /\ builder' = [builder EXCEPT !.new = Without(@, n), !.leaves = Append(@, entry)]
    /\ UNCHANGED <<engine, blks, digest, hist, indexed, log, setter, tip_block, auditSeq, down>>

\* Mutant: the block does not name the hash of the block before it.
BuildBlock_unchained ==
    /\ builder.pc = "txns" /\ ~down /\ DOMAIN builder.new = {}
    /\ \E t \in {Build(<<"blk", builder.seq>>, builder.leaves)} :
         LET block == [prev |-> NoHash, root |-> t.root, level |-> t.level]
         IN  /\ mtnodes' = Merge(t.nodes, mtnodes)
             /\ blks' = With(blks, builder.seq, block)
             /\ builder' = [pc |-> "digest", seq |-> builder.seq, hash |-> HashBlock(block)]
    /\ UNCHANGED <<engine, txns, digest, hist, indexed, log, setter, tip_block, auditSeq, down>>

\* The block's tree and the block, which names the hash in the digest.
BuildBlock ==
    /\ builder.pc = "txns" /\ ~down /\ DOMAIN builder.new = {}
    /\ \E t \in {Build(<<"blk", builder.seq>>, builder.leaves)} :
         LET block == [prev |-> digest.hash, root |-> t.root, level |-> t.level]
         IN  /\ mtnodes' = Merge(t.nodes, mtnodes)
             /\ blks' = With(blks, builder.seq, block)
             /\ builder' = [pc |-> "digest", seq |-> builder.seq, hash |-> HashBlock(block)]
    /\ UNCHANGED <<engine, txns, digest, hist, indexed, log, setter, tip_block, auditSeq, down>>

\* Mutant: updateLedger returns after its first block.
PutDigest_return ==
    /\ builder.pc = "digest" /\ ~down
    /\ digest' = [hash |-> builder.hash, blk |-> builder.seq]
    /\ builder' = [pc |-> "returned"]
    /\ UNCHANGED <<engine, mtnodes, txns, blks, hist, indexed, log, setter, tip_block, auditSeq, down>>

\* The digest names the hash and the number of the block.
PutDigest ==
    /\ builder.pc = "digest" /\ ~down
    /\ digest' = [hash |-> builder.hash, blk |-> builder.seq]
    /\ builder' = [pc |-> "sleep"]
    /\ UNCHANGED <<engine, mtnodes, txns, blks, hist, indexed, log, setter, tip_block, auditSeq, down>>

-----------------------------------------------------------------------------
(***************************************************************************)
(* Replies.  Every reply carries GetDigest; before the first block there   *)
(* is no digest to split and the process ends.  A Set with a reply before  *)
(* it is OCCStore::Commit, a Set alone Server::Load.                       *)
(***************************************************************************)
GetDigest ==
    /\ Serving
    /\ IF digest = NoDigest
         THEN down' = TRUE /\ UNCHANGED tip_block
         ELSE tip_block' = digest.blk /\ UNCHANGED down
    /\ UNCHANGED <<engine, ledger, hist, indexed, log, setter, builder, auditSeq>>

\* ShardClient::GetProof, which asks for no block past the tip it knows, and
\* the digest VersionedKVStore::GetProof starts with.
VerifyGet(key, blk) ==
    /\ Serving /\ <<key, blk>> \in DOMAIN hist /\ blk <= tip_block
    /\ IF digest = NoDigest
         THEN down' = TRUE /\ UNCHANGED setter
         ELSE setter' = [pc |-> "proof", key |-> key, blk |-> blk, digest |-> digest] /\ UNCHANGED down
    /\ UNCHANGED <<engine, ledger, hist, indexed, log, builder, tip_block, auditSeq>>

\* getBlockProof
getBlockProof(blk, tip) == [i \in 1 .. tip - blk + 1 |-> blks[blk + i - 1]]

\* getDetailProof.  The tree it names for the document is "txn" + "txn<n>".
getDetailProof(key, blk, level) ==
    LET doc == hist[<<key, blk>>]
        txn == txns[doc.txn]
    IN  [txn  |-> GetProof(mtnodes, <<"blk", blk>>, level, txn.seq, txn),
         data |-> GetProof(mtnodes, <<"txntxn", doc.txn>>, txn.level, doc.i, doc)]

\* The rest of VersionedKVStore::GetProof, while updateLedger goes on.
ReadProof ==
    /\ setter.pc = "proof" /\ ~down
    /\ LET blocks == getBlockProof(setter.blk, setter.digest.blk)
       IN  setter' = [pc |-> "verify", key |-> setter.key, blk |-> setter.blk,
                      digest |-> setter.digest, blocks |-> blocks,
                      detail |-> getDetailProof(setter.key, setter.blk, blocks[1].level)]
    /\ UNCHANGED <<engine, ledger, hist, indexed, log, builder, tip_block, auditSeq, down>>

\* BlockProof::Verify: the newest block first, each naming the one before it.
VerifyBlocks(blocks, hash) ==
    \A i \in DOMAIN blocks :
        HashBlock(blocks[i]) = IF i = Len(blocks) THEN hash ELSE blocks[i + 1].prev

\* ShardClient::GetProofCallback; the verdict is printed, the tip is kept.
GetProofCallback ==
    /\ setter.pc = "verify" /\ ~down
    /\ tip_block' = setter.digest.blk
    /\ setter' = [pc |-> "idle"]
    /\ UNCHANGED <<engine, ledger, hist, indexed, log, builder, auditSeq, down>>

-----------------------------------------------------------------------------
(* Auditing *)

\* The digest OCCStore::GetProof puts in the reply to an audit request.
AuditGet ==
    /\ Serving
    /\ IF digest = NoDigest
         THEN down' = TRUE /\ UNCHANGED setter
         ELSE setter' = [pc |-> "audit", tip |-> digest.blk] /\ UNCHANGED down
    /\ UNCHANGED <<engine, ledger, hist, indexed, log, builder, tip_block, auditSeq>>

\* getAudit with Logger::read: the log range of a block that was sealed, the
\* digest and the blocks up to it.  Past the index file the range is empty.
getAudit(seq) ==
    LET sealed == seq < Len(walIdx)
        blk    == IF sealed THEN walIdx[seq + 1].blk ELSE digest.blk + 1
    IN  [block_seq |-> blk, digest |-> digest.hash, blks |-> getBlockProof(blk, digest.blk),
         txns |-> IF sealed THEN SubSeq(wal, walIdx[seq + 1].start + 1, walIdx[seq + 1].end) ELSE <<>>]

ReadAudit ==
    /\ setter.pc = "audit" /\ ~down
    /\ setter' = [pc |-> "audited", tip |-> setter.tip, reply |-> getAudit(auditSeq)]
    /\ UNCHANGED <<engine, ledger, hist, indexed, log, builder, tip_block, auditSeq, down>>

\* Auditor::Audit: the blocks hash to the digest ...
AuditChain(a) == a.blks # <<>> /\ VerifyBlocks(a.blks, a.digest)

\* ... and the block's root is that of the entries rebuilt from the log.
AuditRebuild(a) ==
    LET docs(e) == [i \in DOMAIN e.keys |->
                      [blk |-> a.block_seq, txn |-> e.txnid, i |-> i - 1, key |-> e.keys[i], val |-> e.vals[i]]]
        entry(j) == LET t == Build(<<"txn", a.txns[j].txnid>>, docs(a.txns[j]))
                    IN  [txn |-> a.txns[j].txnid, blk |-> a.block_seq, seq |-> j - 1,
                         root |-> t.root, level |-> t.level]
    IN  /\ a.txns # <<>>
        /\ Build(<<"blk", a.block_seq>>, [j \in DOMAIN a.txns |-> entry(j)]).root = a.blks[1].root

\* ShardClient::AuditCallback and the end of Client::Audit.  Past the tip the
\* status is not set, so the client may or may not go on to the next block.
AuditCallback ==
    /\ setter.pc = "audited" /\ ~down
    /\ tip_block' = setter.tip
    /\ \/ auditSeq' = auditSeq + 1
       \/ auditSeq > setter.tip /\ UNCHANGED auditSeq
    /\ setter' = [pc |-> "idle"]
    /\ UNCHANGED <<engine, ledger, hist, indexed, log, builder, down>>

-----------------------------------------------------------------------------
ServerThread ==
    \/ \E ks \in WriteSets : SetBuffer(SetToSortSeq(ks, <))
    \/ SetStore \/ SetAdvance \/ GetDigest
    \/ \E kb \in DOMAIN hist : VerifyGet(kb[1], kb[2])
    \/ ReadProof \/ GetProofCallback
    \/ (auditSeq < MaxSets /\ AuditGet) \/ ReadAudit \/ AuditCallback

BuildThread == Seal \/ BuildTxn \/ BuildBlock \/ PutDigest

SQLNext == ServerThread \/ BuildThread

\* updateLedger loops for ever.
SQLFairness == WF_builder(BuildThread)

-----------------------------------------------------------------------------
(* Properties *)

\* Whatever Set and updateLedger did in between, a document in the history of a
\* block at or under the digest is proved by the stored trees: it is in the tree
\* of its transaction, that transaction's entry is in the tree of the block the
\* document names, and the blocks from there to the digest hash to it
\* (sqlledger.cc:97-104 against 33-72).
HistoryIsProvable ==
    \A kb \in {p \in DOMAIN hist : p[2] <= digest.blk} :
        LET doc   == hist[kb]
            txn   == txns[doc.txn]
            block == blks[kb[2]]
            data  == GetProof(mtnodes, <<"txn", doc.txn>>, txn.level, doc.i, doc)
            inBlk == GetProof(mtnodes, <<"blk", kb[2]>>, block.level, txn.seq, txn)
        IN  /\ doc.txn \in DOMAIN txns /\ txn.blk = kb[2]
            /\ data.digest = txn.root /\ VerifyProof(data)
            /\ inBlk.digest = block.root /\ VerifyProof(inBlk)

\* The block chain of a proof reply ends in the digest of the same reply, and its
\* transaction proof in the root of the block asked for, although updateLedger
\* may seal further blocks between the two reads (versionstore.cc:272-283).
ReplyProofsVerify ==
    setter.pc = "verify" =>
        /\ VerifyBlocks(setter.blocks, setter.digest.hash)
        /\ setter.detail.txn.digest = setter.blocks[1].root
        /\ VerifyProof(setter.detail.txn)

\* The ranges that updateLedger records for the auditor split the log without a
\* gap, and a transaction's entry is in the range of its block or, when the block
\* was sealed before Set had counted the entry, in the next one: never earlier,
\* never later (sqlledger.cc:104 and 116-122 against 38).
LogRangesFollowBlocks ==
    \A i \in DOMAIN walIdx :
        /\ walIdx[i].blk = i - 1
        /\ walIdx[i].start = IF i = 1 THEN 0 ELSE walIdx[i - 1].end
        /\ \A n \in walIdx[i].start .. walIdx[i].end - 1 :
               n \in DOMAIN txns => txns[n].blk \in {i - 1, i - 2}
        /\ \A n \in DOMAIN txns :
               txns[n].blk = i - 2 => n < walIdx[i].end

\* Once Sets stop coming, every transaction ends in a block under the digest, also
\* one that was buffered while updateLedger was building a block.
BufferedIsSealed ==
    <>[](down \/ \A n \in 0 .. tid - 1 : n \in DOMAIN txns /\ txns[n].blk <= digest.blk)

\* What the auditor finds at an honest server: the block it asked for and a chain
\* from it to the digest, though the log is indexed when a block is sealed and the
\* block stored only later (sqlledger.cc:38 and 71); but never the root of that
\* block rebuilt, for Set gives a transaction the number tid_ (sqlledger.cc:85) and
\* logs it under tid_ - 1 (sqlledger.cc:116), so the rebuilt documents name
\* another transaction.
AuditFindsChainOnly ==
    setter.pc = "audited" /\ auditSeq <= setter.tip =>
        /\ setter.reply.block_seq = auditSeq /\ AuditChain(setter.reply)
        /\ ~AuditRebuild(setter.reply)
=============================================================================

------------------------------ MODULE LedgerDB ------------------------------
(***************************************************************************)
(* LedgerDB (ledger/ledgerdb/ledgerdb.cc): the server thread appends       *)
(* blocks and serves proofs while a background thread turns the queued     *)
(* blocks into commits of the bAMT, the ccMPT and the digest.  Each Get or *)
(* Put of the store that the other thread can observe is a step.           *)
(*                                                                         *)
(* The store (ledger, clue, mt, commits, digest) outlives the process.     *)
(* The ccMPT is content-addressed: its root is the map that it stores.     *)
(***************************************************************************)
EXTENDS MerkleTree, FiniteSets

CONSTANTS
    Keys,          \* the keys of the store, one clue each
    Timestamps,    \* commit timestamps handed out by the timestamp server
    MaxBlocks,     \* bound on the blocks of one run of the process
    MaxRestarts    \* bound on how often the process dies and starts again

ASSUME LedgerAssumption == MaxBlocks \in Nat /\ MaxRestarts \in Nat

\* The bound on the height leaves room for the tree over all blocks.
ASSUME TreeAssumption == \A b \in 0 .. MaxBlocks - 1 : Ancestor(b, MaxLevel) = 0

VARIABLES
    ledger,          \* "ledger-<seq>" -> block content
    clue,            \* per key, timestamp -> block (the skip list)
    mt,              \* the nodes of the bAMT
    commits,         \* "commit<seq>" -> CommitInfo
    digest,          \* "digest" -> DigestInfo, or NoDigest
    next_block_seq, skiplist_head, tree_queue, stop_,
    spc, pending, req,               \* the server thread
    commit_seq, bpc, batch, puts, root,   \* the build thread
    tip_block,       \* ShardClient::tip_block, the client's last digest
    up, restarts

store == <<ledger, clue, mt, commits, digest>>
server == <<next_block_seq, skiplist_head, spc, pending, req, tip_block>>
builder == <<commit_seq, bpc, batch, puts, root>>
vars == <<store, server, builder, tree_queue, stop_, up, restarts>>

NoDigest == [commit_seq |-> -1, tip_block |-> -1, digest |-> Missing]
NoHead == -1
NoItem == [blk_seq |-> -1, mpt_ks |-> {}, mpt_ts |-> 0]
NoReq == [blk |-> -1, commit_seq |-> -1, tip |-> -1, root |-> Missing, keys |-> <<>>, got |-> <<>>]
NoRoot == [hashes |-> <<>>, root_key |-> <<0, 0, NoCommit>>, root_hash |-> Missing]

\* Hash::ComputeFrom of a commit entry.
HashCommit(entry) == [commit |-> entry]

\* Hash::FromBase32 decodes the first 32 characters of its argument.  The text
\* of a commit entry is commit_seq|prev_digest|tip_block|mtroot|..., and the
\* digest of the one before the first commit is empty.
DecodeCommitText(entry) ==
    [decoded |-> IF entry.prev_digest = Missing
                   THEN <<entry.commit_seq, entry.tip_block, entry.mtroot>>
                   ELSE <<entry.commit_seq, entry.prev_digest>>]

-----------------------------------------------------------------------------
Init ==
    /\ next_block_seq = 0 /\ commit_seq = 0 /\ stop_ = FALSE
    /\ skiplist_head = [k \in Keys |-> NoHead]
    /\ tree_queue = <<>>
    /\ spc = "idle" /\ pending = NoItem /\ req = NoReq
    /\ bpc = "idle" /\ batch = <<>> /\ puts = <<>> /\ root = NoRoot
    /\ ledger = <<>> /\ clue = [k \in Keys |-> <<>>] /\ mt = <<>>
    /\ commits = <<>> /\ digest = NoDigest
    /\ tip_block = 0 /\ up = TRUE /\ restarts = 0

\* The server thread handles one request at a time.
Serving(pc) == up /\ ~stop_ /\ spc = pc

-----------------------------------------------------------------------------
(* Set *)

\* Mutant: the block is stored under the number of the next one.
PutBlock_next(ks) == ledger' = With(ledger, next_block_seq + 1, ks)

PutBlock(ks) == ledger' = With(ledger, next_block_seq, ks)

\* Set up to the push: the block is stored, then the clue of every key.
SetPut(ks, ts) ==
    /\ Serving("idle")
    /\ next_block_seq < MaxBlocks
    /\ ks # {}
    /\ \A k \in Keys : ts \notin DOMAIN clue[k]
    /\ PutBlock(ks)
    /\ clue' = [k \in Keys |-> IF k \in ks THEN With(clue[k], ts, next_block_seq) ELSE clue[k]]
    /\ skiplist_head' = [k \in Keys |-> IF k \in ks THEN ts ELSE skiplist_head[k]]
    /\ pending' = [blk_seq |-> next_block_seq, mpt_ks |-> ks, mpt_ts |-> ts]
    /\ next_block_seq' = next_block_seq + 1
    /\ spc' = "push"
    /\ UNCHANGED <<mt, commits, digest, req, tip_block, builder, tree_queue, stop_, up, restarts>>

\* tree_queue_.push, and Set returns.
SetPush ==
    /\ Serving("push")
    /\ tree_queue' = Append(tree_queue, pending)
    /\ pending' = NoItem
    /\ spc' = "idle"
    /\ UNCHANGED <<store, next_block_seq, skiplist_head, req, tip_block, builder, stop_, up, restarts>>

\* GetRootDigest, sent with every read and commit reply; the client keeps it.
GetRootDigest ==
    /\ Serving("idle")
    /\ tip_block' = IF digest = NoDigest THEN 0 ELSE digest.tip_block
    /\ UNCHANGED <<store, next_block_seq, skiplist_head, spc, pending, req, builder,
                   tree_queue, stop_, up, restarts>>
-----------------------------------------------------------------------------
(* GetProofs for a block the client holds and takes to be under the digest *)

\* db_.Get("digest").  DigestInfo throws on the empty string, nothing catches
\* it, and the process terminates.
ProofDigest(b) ==
    /\ Serving("idle")
    /\ b \in DOMAIN ledger
    /\ b <= tip_block
    /\ IF digest = NoDigest
         THEN up' = FALSE /\ UNCHANGED <<spc, req>>
         ELSE /\ up' = up
              /\ spc' = "commit"
              /\ req' = [NoReq EXCEPT !.blk = b, !.commit_seq = digest.commit_seq]
    /\ UNCHANGED <<store, next_block_seq, skiplist_head, pending, tip_block, builder,
                   tree_queue, stop_, restarts>>

\* The commit entry of that digest names the root and the nodes to read.  The
\* loop starts with current = 0, so block 0 gets no bAMT proof.
ProofCommit ==
    /\ Serving("commit")
    /\ LET info == commits[req.commit_seq]
       IN  req' = [req EXCEPT !.root = info.mtroot,
                              !.tip = info.tip_block,
                              !.keys = IF req.blk = 0 THEN <<>>
                                       ELSE ProofKeys(req.commit_seq, info.mtrootkey,
                                                      info.tip_block, req.blk)]
    /\ spc' = "read"
    /\ UNCHANGED <<store, next_block_seq, skiplist_head, pending, tip_block, builder,
                   tree_queue, stop_, up, restarts>>

\* getProof reads the nodes one by one.
ProofRead ==
    /\ Serving("read")
    /\ Len(req.got) < Len(req.keys)
    /\ req' = [req EXCEPT !.got = Append(@, Get(mt, req.keys[Len(@) + 1]))]
    /\ UNCHANGED <<store, next_block_seq, skiplist_head, spc, pending, tip_block, builder,
                   tree_queue, stop_, up, restarts>>

\* The reply carries the tip of the commit the proof is for.
ProofReply ==
    /\ Serving("read")
    /\ Len(req.got) = Len(req.keys)
    /\ tip_block' = req.tip
    /\ req' = NoReq
    /\ spc' = "idle"
    /\ UNCHANGED <<store, next_block_seq, skiplist_head, pending, builder,
                   tree_queue, stop_, up, restarts>>

-----------------------------------------------------------------------------
(* buildTree *)

Building(pc) == up /\ bpc = pc

\* Mutant: the thread leaves its loop after the first commit.
StartRound_once ==
    /\ Building("idle")
    /\ bpc' = IF stop_ \/ commit_seq > 0 THEN "stopped" ELSE "drain"
    /\ UNCHANGED <<store, server, commit_seq, batch, puts, root, tree_queue, stop_, up, restarts>>

\* The loop condition; the queue is looked at only in a round.
StartRound ==
    /\ Building("idle")
    /\ bpc' = IF stop_ THEN "stopped" ELSE "drain"
    /\ UNCHANGED <<store, server, commit_seq, batch, puts, root, tree_queue, stop_, up, restarts>>

\* try_pop, and the block is read back from the store and hashed.
TryPop ==
    /\ Building("drain")
    /\ tree_queue # <<>>
    /\ batch' = Append(batch, Head(tree_queue))
    /\ root' = [root EXCEPT !.hashes = Append(@, HashBlock(ledger[Head(tree_queue).blk_seq]))]
    /\ tree_queue' = Tail(tree_queue)
    /\ UNCHANGED <<store, server, commit_seq, bpc, puts, stop_, up, restarts>>

\* The queue is empty: sleep, or compute the update of the tree.
EndDrain ==
    /\ Building("drain")
    /\ tree_queue = <<>>
    /\ IF batch = <<>>
         THEN bpc' = "idle" /\ UNCHANGED <<puts, root>>
         ELSE LET u == Update(mt, batch[1].blk_seq, root.hashes, commit_seq)
              IN  /\ bpc' = "update"
                  /\ puts' = u.puts
                  /\ root' = [root EXCEPT !.root_key = u.root_key, !.root_hash = u.root_hash]
    /\ UNCHANGED <<store, server, commit_seq, batch, tree_queue, stop_, up, restarts>>

PutNode ==
    /\ Building("update")
    /\ puts # <<>>
    /\ mt' = Put(mt, Head(puts))
    /\ puts' = Tail(puts)
    /\ UNCHANGED <<ledger, clue, commits, digest, server, commit_seq, bpc, batch, root,
                   tree_queue, stop_, up, restarts>>

\* Mutant: the first write of a key in the batch wins.
MptBlocks_first ==
    LET ks == UNION {batch[i].mpt_ks : i \in DOMAIN batch}
        first(k) == CHOOSE i \in DOMAIN batch :
                        k \in batch[i].mpt_ks /\ \A j \in 1 .. i - 1 : k \notin batch[j].mpt_ks
    IN  [k \in ks |-> batch[first(k)].mpt_ts]

\* mpt_blks: the keys of the batch, each with the timestamp of its last block.
MptBlocks ==
    LET ks == UNION {batch[i].mpt_ks : i \in DOMAIN batch}
        last(k) == CHOOSE i \in DOMAIN batch :
                       k \in batch[i].mpt_ks /\ \A j \in DOMAIN batch :
                                                    k \in batch[j].mpt_ks => j <= i
    IN  [k \in ks |-> batch[last(k)].mpt_ts]

NewCommit ==
    LET prev == commits[commit_seq - 1]
    IN  [commit_seq  |-> commit_seq,
         prev_digest |-> IF commit_seq = 0 THEN Missing ELSE DecodeCommitText(prev),
         tip_block   |-> batch[Len(batch)].blk_seq,
         mtroot      |-> root.root_hash,
         mtrootkey   |-> root.root_key,
         mptroot     |-> IF commit_seq = 0 THEN MptBlocks ELSE Merge(MptBlocks, prev.mptroot)]

PutCommit ==
    /\ Building("update")
    /\ puts = <<>>
    /\ commits' = With(commits, commit_seq, NewCommit)
    /\ bpc' = "digest"
    /\ UNCHANGED <<ledger, clue, mt, digest, server, commit_seq, batch, puts, root,
                   tree_queue, stop_, up, restarts>>

\* Mutant: commit_seq_ is incremented before the digest is made.
NewDigest_incremented ==
    [commit_seq |-> commit_seq + 1,
     tip_block |-> batch[Len(batch)].blk_seq,
     digest |-> HashCommit(commits[commit_seq])]

\* Mutant: the digest keeps the number of the first commit.
NewDigest_first ==
    [commit_seq |-> 0,
     tip_block |-> batch[Len(batch)].blk_seq,
     digest |-> HashCommit(commits[commit_seq])]

NewDigest ==
    [commit_seq |-> commit_seq,
     tip_block |-> batch[Len(batch)].blk_seq,
     digest |-> HashCommit(commits[commit_seq])]

\* Mutant: the batch is not emptied for the next round.
PutDigest_keepBatch ==
    /\ Building("digest")
    /\ digest' = NewDigest
    /\ commit_seq' = commit_seq + 1
    /\ bpc' = "idle" /\ root' = NoRoot
    /\ UNCHANGED <<ledger, clue, mt, commits, server, batch, puts, tree_queue, stop_, up, restarts>>

\* Put("digest"), ++commit_seq_, and the thread sleeps until its next round.
PutDigest ==
    /\ Building("digest")
    /\ digest' = NewDigest
    /\ commit_seq' = commit_seq + 1
    /\ bpc' = "idle" /\ batch' = <<>> /\ root' = NoRoot
    /\ UNCHANGED <<ledger, clue, mt, commits, server, puts, tree_queue, stop_, up, restarts>>

-----------------------------------------------------------------------------
\* The destructor: stop_ is set and the build thread joined.
Shutdown ==
    /\ Serving("idle")
    /\ stop_' = TRUE
    /\ UNCHANGED <<store, server, builder, tree_queue, up, restarts>>

\* The process dies at any point and a new one opens the same store.  The
\* constructor starts every counter at 0 and reads nothing back.
Restart ==
    /\ restarts < MaxRestarts
    /\ restarts' = restarts + 1
    /\ up' = TRUE
    /\ next_block_seq' = 0 /\ commit_seq' = 0 /\ stop_' = FALSE
    /\ skiplist_head' = [k \in Keys |-> NoHead]
    /\ tree_queue' = <<>>
    /\ spc' = "idle" /\ pending' = NoItem /\ req' = NoReq
    /\ bpc' = "idle" /\ batch' = <<>> /\ puts' = <<>> /\ root' = NoRoot
    /\ UNCHANGED <<store, tip_block>>

Next ==
    \/ \E ks \in SUBSET Keys, ts \in Timestamps : SetPut(ks, ts)
    \/ SetPush
    \/ GetRootDigest
    \/ \E b \in 0 .. MaxBlocks - 1 : ProofDigest(b)
    \/ ProofCommit
    \/ ProofRead
    \/ ProofReply
    \/ StartRound
    \/ TryPop
    \/ EndDrain
    \/ PutNode
    \/ PutCommit
    \/ PutDigest
    \/ Shutdown
    \/ Restart

Spec == Init /\ [][Next]_vars

Build == StartRound \/ TryPop \/ EndDrain \/ PutNode \/ PutCommit \/ PutDigest

\* The build thread loops and the server thread finishes a Set it has begun.
FairSpec == Spec /\ WF_vars(Build) /\ WF_vars(SetPush)

-----------------------------------------------------------------------------
(* Properties *)

Items == [blk_seq : Int, mpt_ks : SUBSET Keys, mpt_ts : Timestamps \cup {0}]

\* The type invariant.
TypeOK ==
    /\ next_block_seq \in 0 .. MaxBlocks
    /\ tree_queue \in Seq(Items) /\ batch \in Seq(Items) /\ pending \in Items
    /\ commit_seq \in Nat
    /\ spc \in {"idle", "push", "commit", "read"}
    /\ bpc \in {"idle", "drain", "update", "digest", "stopped"}
    /\ 0 .. next_block_seq - 1 \subseteq DOMAIN ledger
    /\ 0 .. commit_seq - 1 \subseteq DOMAIN commits
    /\ \A c \in DOMAIN commits : commits[c].tip_block \in Nat
    /\ stop_ \in BOOLEAN /\ up \in BOOLEAN /\ restarts \in 0 .. MaxRestarts

\* The first block that no commit of this process covers.
Built == IF commit_seq = 0 THEN 0 ELSE commits[commit_seq - 1].tip_block + 1

\* Between Set (ledgerdb.cc:120) and the commit entry that covers it
\* (ledgerdb.cc:98) no block is lost, duplicated or overtaken: the committed
\* prefix, the batch being built, the queue and the Set about to push are
\* consecutive and end with the last sequence number handed out.
PipelineInOrder ==
    /\ \A i \in DOMAIN batch : batch[i].blk_seq = Built + i - 1
    /\ \A i \in DOMAIN tree_queue : tree_queue[i].blk_seq = Built + Len(batch) + i - 1
    /\ spc = "push" => pending.blk_seq = next_block_seq - 1
    /\ next_block_seq = Built + Len(batch) + Len(tree_queue) + (IF spc = "push" THEN 1 ELSE 0)

\* The digest (ledgerdb.cc:101) is written after the commit entry it hashes:
\* at every point it names a stored entry, with its tip and its hash.
DigestNamesCommit ==
    digest # NoDigest =>
        /\ digest.commit_seq \in DOMAIN commits
        /\ digest.tip_block = commits[digest.commit_seq].tip_block
        /\ digest.digest = HashCommit(commits[digest.commit_seq])

\* The newest entry of the clue of k among the blocks up to tip.
NewestEntry(k, tip) ==
    CHOOSE ts \in DOMAIN clue[k] :
        /\ clue[k][ts] <= tip
        /\ \A t \in DOMAIN clue[k] : clue[k][t] <= tip => clue[k][t] <= clue[k][ts]

\* The roots of a commit entry are those of exactly the blocks 0 .. tip_block,
\* however buildTree batched them: the bAMT's is the root of the tree over them,
\* and the ccMPT holds the keys they wrote, each with the timestamp of its last
\* write among them (ledgerdb.cc:61), though Set may have moved the clue on since.
CommitCoversPrefix ==
    \A c \in DOMAIN commits :
        LET tip == commits[c].tip_block
        IN  /\ commits[c].mtroot = RefRoot([i \in 1 .. tip + 1 |-> HashBlock(ledger[i - 1])])
            /\ commits[c].mptroot =
                   [k \in UNION {ledger[b] : b \in 0 .. tip} |-> NewestEntry(k, tip)]

\* A proof assembled by GetProofs node by node, while the build thread writes
\* the nodes of later commits, proves the stored block against the root of the
\* commit it was started for.
ServedProofVerifies ==
    (spc = "read" /\ req.blk > 0 /\ Len(req.got) = Len(req.keys)) =>
        LET p == ProofOf(req.blk, req.got)
        IN  /\ p.digest = req.root
            /\ p.value = HashBlock(ledger[req.blk])
            /\ Verify(p)

\* Each digest is the next one: one commit later, and over more blocks.
DigestAdvances ==
    [][digest' # digest => /\ digest'.commit_seq = digest.commit_seq + 1
                           /\ digest'.tip_block > digest.tip_block]_vars

\* README: "The nodes in bAMT are immutable, that is, each modification results
\* in a new node."  A stored node never changes its value.
StoredNodesImmutable ==
    [][\A k \in DOMAIN mt : k \in DOMAIN mt' /\ mt'[k] = mt[k]]_vars

\* README: "The root hash of ccMPT and bAMT are stored in a hash chain": each
\* commit entry holds the hash of the entry before it.
CommitsFormHashChain ==
    \A c \in DOMAIN commits :
        c > 0 => commits[c].prev_digest = HashCommit(commits[c - 1])

\* Every block that Set returned is eventually covered by a digest of the same
\* process (buildTree, ledgerdb.cc:38), unless the process stops or dies first.
BlocksReachDigest ==
    \A b \in 0 .. MaxBlocks - 1, r \in 0 .. MaxRestarts :
        (up /\ restarts = r /\ b < next_block_seq)
            ~> (Built > b \/ stop_ \/ ~up \/ restarts # r)
=============================================================================

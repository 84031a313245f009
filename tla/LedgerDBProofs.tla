--------------------------- MODULE LedgerDBProofs ---------------------------
(***************************************************************************)
(* The block pipeline of LedgerDB, for any keys, timestamps, number of     *)
(* blocks and height of the tree.                                          *)
(***************************************************************************)
EXTENDS LedgerDB, WellFoundedInduction, TLAPS

\* What the program counter of buildTree says about the round's batch and the
\* commit entry of the round.
RoundInv ==
    /\ bpc \in {"idle", "stopped"} => batch = <<>>
    /\ bpc \in {"update", "digest"} => batch # <<>>
    /\ bpc = "digest" => /\ commit_seq \in DOMAIN commits
                         /\ commits[commit_seq].tip_block = batch[Len(batch)].blk_seq

IInv == TypeOK /\ RoundInv /\ PipelineInOrder

-----------------------------------------------------------------------------
\* Put adds or replaces one entry of a map and keeps all others.
LEMMA WithFacts ==
    ASSUME NEW map, NEW key, NEW value
    PROVE  /\ DOMAIN With(map, key, value) = DOMAIN map \cup {key}
           /\ With(map, key, value)[key] = value
           /\ \A k \in DOMAIN map : k # key => With(map, key, value)[k] = map[k]
  BY DEF With

\* Under the type invariant the count of committed blocks is a number.
LEMMA BuiltNat == TypeOK => Built \in Nat
  BY DEF TypeOK, Built

\* It depends on the commit entries below commit_seq only.
LEMMA BuiltUnchanged ==
    ASSUME TypeOK, commit_seq' = commit_seq,
           \A c \in DOMAIN commits : c < commit_seq => commits'[c] = commits[c]
    PROVE  Built' = Built
  BY DEF TypeOK, Built

\* The initial states: nothing handed out, queued or committed.
LEMMA InitIInv == Init => IInv
  <1> SUFFICES ASSUME Init PROVE IInv
    OBVIOUS
  <1>1. NoItem \in Items
    BY DEF NoItem, Items
  <1>2. TypeOK
    <2>1. DOMAIN ledger = {} /\ DOMAIN commits = {}
      BY DEF Init
    <2>2. <<>> \in Seq(Items)
      OBVIOUS
    <2>3. stop_ \in BOOLEAN /\ up \in BOOLEAN
      BY Zenon DEF Init
    <2>4. 0 .. next_block_seq - 1 = {} /\ 0 .. commit_seq - 1 = {}
      BY DEF Init
    <2>5. next_block_seq \in 0 .. MaxBlocks /\ restarts \in 0 .. MaxRestarts /\ commit_seq \in Nat
      BY LedgerAssumption DEF Init
    <2> QED BY <1>1, <2>1, <2>2, <2>3, <2>4, <2>5 DEF Init, TypeOK
  <1>3. RoundInv
    BY DEF Init, RoundInv
  <1>4. PipelineInOrder
    BY DEF Init, PipelineInOrder, Built
  <1> QED BY <1>2, <1>3, <1>4 DEF IInv

-----------------------------------------------------------------------------
\* A step that moves no block keeps the invariant: reads, proofs, node writes
\* and the bookkeeping of the two threads.
LEMMA MovesNoBlock ==
    ASSUME IInv,
           UNCHANGED <<ledger, commits, next_block_seq, tree_queue, pending,
                       commit_seq, batch, restarts>>,
           (spc' \in {"idle", "commit", "read"} /\ spc # "push") \/ spc' = spc,
           bpc' \in {"idle", "drain", "update", "digest", "stopped"},
           stop_' \in BOOLEAN, up' \in BOOLEAN,
           RoundInv'
    PROVE  IInv'
  <1>1. Built' = Built
    BY DEF Built
  <1>2. spc' \in {"idle", "push", "commit", "read"} /\ (spc' = "push" <=> spc = "push")
    BY DEF IInv, TypeOK
  <1>3. TypeOK'
    BY <1>2 DEF IInv, TypeOK
  <1>4. PipelineInOrder'
    BY <1>1, <1>2 DEF IInv, PipelineInOrder
  <1> QED BY <1>3, <1>4 DEF IInv

\* Set stores the next block and becomes the last of the pipeline.
LEMMA SetPutIInv ==
    ASSUME IInv, NEW ks \in SUBSET Keys, NEW ts \in Timestamps, SetPut(ks, ts)
    PROVE  IInv'
  <1>1. Built' = Built
    BY DEF SetPut, builder, Built
  <1>2. pending' \in Items /\ pending'.blk_seq = next_block_seq
    BY DEF SetPut, Items, IInv, TypeOK
  <1>3. DOMAIN ledger' = DOMAIN ledger \cup {next_block_seq}
    BY WithFacts, Zenon DEF SetPut, PutBlock
  <1>4. next_block_seq' \in 0 .. MaxBlocks /\ 0 .. next_block_seq' - 1 \subseteq DOMAIN ledger'
    BY <1>3, LedgerAssumption DEF SetPut, IInv, TypeOK
  <1>5. TypeOK'
    BY <1>2, <1>4 DEF SetPut, builder, IInv, TypeOK
  <1>6. RoundInv'
    BY DEF SetPut, builder, IInv, RoundInv
  <1>7. PipelineInOrder'
    <2>1. spc = "idle" /\ spc' = "push" /\ next_block_seq' = next_block_seq + 1
      BY DEF SetPut, Serving
    <2> QED BY <1>1, <1>2, <2>1, BuiltNat DEF SetPut, builder, IInv, TypeOK, PipelineInOrder
  <1> QED BY <1>5, <1>6, <1>7 DEF IInv

\* The push moves the block from the server thread to the end of the queue.
LEMMA SetPushIInv == ASSUME IInv, SetPush PROVE IInv'
  <1>1. Built' = Built
    BY DEF SetPush, store, builder, Built
  <1>2. tree_queue' \in Seq(Items) /\ Len(tree_queue') = Len(tree_queue) + 1
    BY DEF SetPush, IInv, TypeOK
  <1>3. TypeOK'
    BY <1>2 DEF SetPush, store, builder, IInv, TypeOK, NoItem, Items
  <1>4. RoundInv'
    BY DEF SetPush, store, builder, IInv, RoundInv
  <1>5. spc = "push" /\ spc' = "idle"
    BY DEF SetPush, Serving
  <1>6. \A i \in DOMAIN tree_queue' : tree_queue'[i].blk_seq = Built + Len(batch) + i - 1
    BY <1>5, BuiltNat DEF SetPush, IInv, TypeOK, PipelineInOrder
  <1>7. PipelineInOrder'
    BY <1>1, <1>2, <1>5, <1>6, BuiltNat DEF SetPush, builder, IInv, TypeOK, PipelineInOrder
  <1> QED BY <1>3, <1>4, <1>7 DEF IInv

\* try_pop moves the front of the queue to the end of the batch.
LEMMA TryPopIInv == ASSUME IInv, TryPop PROVE IInv'
  <1>1. Built' = Built
    BY DEF TryPop, store, Built
  <1>2. /\ tree_queue \in Seq(Items) /\ batch \in Seq(Items) /\ tree_queue # <<>>
        /\ tree_queue' = Tail(tree_queue) /\ batch' = Append(batch, Head(tree_queue))
    BY DEF TryPop, IInv, TypeOK
  <1>3. /\ tree_queue' \in Seq(Items) /\ batch' \in Seq(Items)
        /\ Len(batch') = Len(batch) + 1 /\ Len(tree_queue') = Len(tree_queue) - 1
    BY <1>2
  <1>4. TypeOK'
    BY <1>3 DEF TryPop, store, server, IInv, TypeOK
  <1>5. RoundInv'
    BY <1>2, <1>3 DEF TryPop, Building, IInv, RoundInv
  <1>6. Built \in Nat /\ Len(batch) \in Nat /\ Len(tree_queue) \in Nat \ {0}
    BY <1>2, BuiltNat DEF IInv
  <1>7. \A i \in DOMAIN batch' : batch'[i].blk_seq = Built + i - 1
    <2>1. tree_queue[1].blk_seq = Built + Len(batch) + 1 - 1
      BY <1>2, <1>6 DEF IInv, PipelineInOrder
    <2>2. \A i \in 1 .. Len(batch) : batch[i].blk_seq = Built + i - 1
      BY <1>2 DEF IInv, PipelineInOrder
    <2>3. DOMAIN batch' = 1 .. Len(batch) + 1
      BY <1>2
    <2>4. \A i \in 1 .. Len(batch) : batch'[i] = batch[i]
      BY <1>2
    <2>5. batch'[Len(batch) + 1] = tree_queue[1]
      BY <1>2
    <2> QED BY <1>6, <2>1, <2>2, <2>3, <2>4, <2>5
  <1>8. \A i \in DOMAIN tree_queue' : tree_queue'[i].blk_seq = Built + Len(batch') + i - 1
    <2>1. \A i \in 1 .. Len(tree_queue) : tree_queue[i].blk_seq = Built + Len(batch) + i - 1
      BY <1>2 DEF IInv, PipelineInOrder
    <2>2. DOMAIN tree_queue' = 1 .. Len(tree_queue) - 1
      BY <1>2
    <2>3. \A i \in 1 .. Len(tree_queue) - 1 : tree_queue'[i] = tree_queue[i + 1]
      BY <1>2
    <2>4. Len(batch') = Len(batch) + 1
      BY <1>3
    <2>5. ASSUME NEW i \in 1 .. Len(tree_queue) - 1
          PROVE  tree_queue[i + 1].blk_seq = Built + Len(batch) + (i + 1) - 1
      <3>1. i + 1 \in 1 .. Len(tree_queue)
        BY <1>6
      <3> QED BY <2>1, <3>1
    <2>6. ASSUME NEW i \in 1 .. Len(tree_queue) - 1
          PROVE  tree_queue'[i].blk_seq = Built + Len(batch') + i - 1
      BY <1>6, <2>3, <2>4, <2>5
    <2> QED BY <2>2, <2>6
  <1>9. /\ spc' = spc /\ pending' = pending /\ next_block_seq' = next_block_seq
        /\ next_block_seq' = Built + Len(batch') + Len(tree_queue')
                                + (IF spc' = "push" THEN 1 ELSE 0)
    <2>1. spc' = spc /\ pending' = pending /\ next_block_seq' = next_block_seq
      BY DEF TryPop, server
    <2>2. next_block_seq = Built + Len(batch) + Len(tree_queue) + (IF spc = "push" THEN 1 ELSE 0)
      BY DEF IInv, PipelineInOrder
    <2> QED BY <1>3, <1>6, <2>1, <2>2
  <1>10. PipelineInOrder'
    BY <1>1, <1>7, <1>8, <1>9 DEF IInv, PipelineInOrder
  <1> QED BY <1>4, <1>5, <1>10 DEF IInv

\* The last block of a batch that is not empty is the number of blocks that
\* will then be committed, less one.
LEMMA LastOfBatch ==
    ASSUME IInv, batch # <<>>
    PROVE  /\ Len(batch) \in Nat \ {0}
           /\ batch[Len(batch)].blk_seq = Built + Len(batch) - 1
           /\ batch[Len(batch)].blk_seq \in Nat
  <1>1. batch \in Seq(Items) /\ Built \in Nat
    BY BuiltNat DEF IInv, TypeOK
  <1>2. Len(batch) \in Nat \ {0} /\ Len(batch) \in DOMAIN batch
    BY <1>1
  <1>3. batch[Len(batch)].blk_seq = Built + Len(batch) - 1
    BY <1>2 DEF IInv, PipelineInOrder
  <1> QED BY <1>1, <1>2, <1>3

\* The commit entry is stored under the number of the round, above the entries
\* that count as committed.
LEMMA PutCommitIInv == ASSUME IInv, PutCommit PROVE IInv'
  <1>1. /\ bpc = "update" /\ bpc' = "digest" /\ batch # <<>>
        /\ commits' = With(commits, commit_seq, NewCommit)
        /\ UNCHANGED <<ledger, server, commit_seq, batch, tree_queue, stop_, up, restarts>>
    BY DEF PutCommit, Building, IInv, RoundInv
  <1>2. NewCommit.tip_block = batch[Len(batch)].blk_seq
    BY DEF NewCommit
  <1>3. /\ DOMAIN commits' = DOMAIN commits \cup {commit_seq}
        /\ commits'[commit_seq] = NewCommit
        /\ \A c \in DOMAIN commits : c # commit_seq => commits'[c] = commits[c]
    BY <1>1 DEF With
  <1>4. commit_seq \in Nat /\ 0 .. commit_seq - 1 \subseteq DOMAIN commits
    BY DEF IInv, TypeOK
  <1>5. Built' = Built
    BY <1>1, <1>3, <1>4 DEF Built
  <1>6. TypeOK'
    <2>1. 0 .. commit_seq' - 1 \subseteq DOMAIN commits'
      BY <1>1, <1>3, <1>4
    <2>2. \A c \in DOMAIN commits' : commits'[c].tip_block \in Nat
      BY <1>1, <1>2, <1>3, LastOfBatch DEF IInv, TypeOK
    <2> QED BY <1>1, <2>1, <2>2 DEF server, IInv, TypeOK
  <1>7. RoundInv'
    BY <1>1, <1>2, <1>3 DEF RoundInv
  <1>8. PipelineInOrder'
    BY <1>1, <1>5 DEF server, IInv, PipelineInOrder
  <1> QED BY <1>6, <1>7, <1>8 DEF IInv

\* ++commit_seq_ turns the batch into committed blocks.
LEMMA PutDigestIInv ==
    ASSUME IInv, PutDigest
    PROVE  IInv' /\ Built' = Built + Len(batch)
  <1>1. /\ bpc = "digest" /\ bpc' = "idle" /\ batch # <<>> /\ batch' = <<>>
        /\ commit_seq' = commit_seq + 1
        /\ UNCHANGED <<ledger, commits, server, tree_queue, stop_, up, restarts>>
    BY DEF PutDigest, Building, IInv, RoundInv
  <1>2. commit_seq \in Nat /\ Built \in Nat
    BY BuiltNat DEF IInv, TypeOK
  <1>3. /\ commit_seq \in DOMAIN commits
        /\ commits[commit_seq].tip_block = Built + Len(batch) - 1
    BY <1>1, LastOfBatch DEF IInv, RoundInv
  <1>4. Built' = Built + Len(batch)
    BY <1>1, <1>2, <1>3, LastOfBatch DEF Built
  <1>5. TypeOK'
    <2>1. commit_seq' \in Nat /\ 0 .. commit_seq' - 1 \subseteq DOMAIN commits'
      BY <1>1, <1>2, <1>3 DEF IInv, TypeOK
    <2> QED BY <1>1, <2>1 DEF server, IInv, TypeOK
  <1>6. RoundInv'
    BY <1>1 DEF RoundInv
  <1>7. PipelineInOrder'
    <2>1. Len(batch') = 0 /\ DOMAIN batch' = {}
      BY <1>1
    <2>2. \A i \in DOMAIN tree_queue' : tree_queue'[i].blk_seq = Built' + Len(batch') + i - 1
      BY <1>1, <1>2, <1>4, <2>1, LastOfBatch DEF IInv, TypeOK, PipelineInOrder
    <2>3. next_block_seq' = Built' + Len(batch') + Len(tree_queue')
                              + (IF spc' = "push" THEN 1 ELSE 0)
      BY <1>1, <1>2, <1>4, <2>1, LastOfBatch DEF server, IInv, TypeOK, PipelineInOrder
    <2>4. spc' = "push" => pending'.blk_seq = next_block_seq' - 1
      BY <1>1 DEF server, IInv, PipelineInOrder
    <2> QED BY <2>1, <2>2, <2>3, <2>4 DEF PipelineInOrder
  <1> QED BY <1>4, <1>5, <1>6, <1>7 DEF IInv

\* A new process starts with an empty pipeline, whatever the store holds.
LEMMA RestartIInv == ASSUME IInv, Restart PROVE IInv'
  <1>1. /\ next_block_seq' = 0 /\ commit_seq' = 0 /\ tree_queue' = <<>> /\ batch' = <<>>
        /\ spc' = "idle" /\ bpc' = "idle" /\ pending' = NoItem
        /\ ledger' = ledger /\ commits' = commits
    BY DEF Restart, store
  <1>2. Built' = 0
    BY <1>1 DEF Built
  <1>3. TypeOK'
    <2>1. stop_' \in BOOLEAN /\ up' \in BOOLEAN
      BY Zenon DEF Restart
    <2>2. restarts' \in 0 .. MaxRestarts
      BY LedgerAssumption DEF Restart, IInv, TypeOK
    <2>3. NoItem \in Items /\ <<>> \in Seq(Items)
      BY DEF NoItem, Items
    <2>4. next_block_seq' \in 0 .. MaxBlocks
      BY <1>1, LedgerAssumption
    <2>5. 0 .. next_block_seq' - 1 = {} /\ 0 .. commit_seq' - 1 = {} /\ commit_seq' \in Nat
      BY <1>1
    <2> QED BY <1>1, <2>1, <2>2, <2>3, <2>4, <2>5 DEF IInv, TypeOK
  <1>4. RoundInv' /\ PipelineInOrder'
    BY <1>1, <1>2 DEF RoundInv, PipelineInOrder
  <1> QED BY <1>3, <1>4 DEF IInv

-----------------------------------------------------------------------------
\* Every step keeps the inductive invariant.
LEMMA NextIInv == IInv /\ [Next]_vars => IInv'
  <1> SUFFICES ASSUME IInv, [Next]_vars PROVE IInv'
    OBVIOUS
  <1> USE DEF store, server, builder
  <1>t. stop_ \in BOOLEAN /\ up \in BOOLEAN /\ RoundInv
        /\ bpc \in {"idle", "drain", "update", "digest", "stopped"}
    BY DEF IInv, TypeOK
  <1>1. ASSUME NEW ks \in SUBSET Keys, NEW ts \in Timestamps, SetPut(ks, ts) PROVE IInv'
    BY <1>1, SetPutIInv
  <1>2. CASE SetPush
    BY <1>2, SetPushIInv
  <1>3. CASE GetRootDigest
    <2>1. RoundInv'
      BY <1>3, <1>t DEF GetRootDigest, RoundInv
    <2> QED BY <1>3, <1>t, <2>1, MovesNoBlock DEF GetRootDigest
  <1>4. ASSUME NEW b \in 0 .. MaxBlocks - 1, ProofDigest(b) PROVE IInv'
    <2>1. RoundInv'
      BY <1>4, <1>t DEF ProofDigest, RoundInv
    <2>2. spc' \in {"idle", "commit", "read"} /\ spc # "push"
      BY <1>4, Zenon DEF ProofDigest, Serving
    <2>3. up' \in BOOLEAN
      BY <1>4, <1>t, Zenon DEF ProofDigest
    <2> QED BY <1>4, <1>t, <2>1, <2>2, <2>3, MovesNoBlock DEF ProofDigest
  <1>5. CASE ProofCommit
    <2>1. RoundInv'
      BY <1>5, <1>t DEF ProofCommit, RoundInv
    <2>2. spc' \in {"idle", "commit", "read"} /\ spc # "push"
      BY <1>5 DEF ProofCommit, Serving
    <2> QED BY <1>5, <1>t, <2>1, <2>2, MovesNoBlock DEF ProofCommit
  <1>6. CASE ProofRead
    <2>1. RoundInv'
      BY <1>6, <1>t DEF ProofRead, RoundInv
    <2> QED BY <1>6, <1>t, <2>1, MovesNoBlock DEF ProofRead
  <1>7. CASE ProofReply
    <2>1. RoundInv'
      BY <1>7, <1>t DEF ProofReply, RoundInv
    <2>2. spc' \in {"idle", "commit", "read"} /\ spc # "push"
      BY <1>7 DEF ProofReply, Serving
    <2> QED BY <1>7, <1>t, <2>1, <2>2, MovesNoBlock DEF ProofReply
  <1>8. CASE StartRound
    <2>1. RoundInv'
      BY <1>8, <1>t DEF StartRound, Building, RoundInv
    <2>2. bpc' \in {"drain", "stopped"}
      BY <1>8 DEF StartRound
    <2> QED BY <1>8, <1>t, <2>1, <2>2, MovesNoBlock DEF StartRound
  <1>9. CASE TryPop
    BY <1>9, TryPopIInv
  <1>10. CASE EndDrain
    <2>1. RoundInv'
      BY <1>10, <1>t DEF EndDrain, Building, RoundInv
    <2>2. bpc' \in {"idle", "update"}
      BY <1>10 DEF EndDrain
    <2> QED BY <1>10, <1>t, <2>1, <2>2, MovesNoBlock DEF EndDrain
  <1>11. CASE PutNode
    <2>1. RoundInv'
      BY <1>11, <1>t DEF PutNode, RoundInv
    <2> QED BY <1>11, <1>t, <2>1, MovesNoBlock DEF PutNode
  <1>12. CASE PutCommit
    BY <1>12, PutCommitIInv
  <1>13. CASE PutDigest
    BY <1>13, PutDigestIInv
  <1>14. CASE Shutdown
    <2>1. RoundInv'
      BY <1>14, <1>t DEF Shutdown, RoundInv
    <2>2. stop_' \in BOOLEAN
      BY <1>14, Zenon DEF Shutdown
    <2> QED BY <1>14, <1>t, <2>1, <2>2, MovesNoBlock DEF Shutdown
  <1>15. CASE Restart
    BY <1>15, RestartIInv
  <1>16. CASE UNCHANGED vars
    <2>1. RoundInv'
      BY <1>16, <1>t DEF vars, RoundInv
    <2> QED BY <1>16, <1>t, <2>1, MovesNoBlock DEF vars
  <1> QED BY <1>1, <1>2, <1>3, <1>4, <1>5, <1>6, <1>7, <1>8, <1>9, <1>10, <1>11, <1>12,
             <1>13, <1>14, <1>15, <1>16 DEF Next

\* The inductive invariant holds throughout.
LEMMA AlwaysIInv == Spec => []IInv
  BY InitIInv, NextIInv, PTL DEF Spec

\* Type correctness of the model of ledgerdb.cc; in particular every block and
\* every commit entry with a number below the counters is in the store.
THEOREM LedgerTypeOK == Spec => []TypeOK
  <1>1. IInv => TypeOK
    BY DEF IInv
  <1> QED BY AlwaysIInv, <1>1, PTL

\* No block is lost, duplicated or overtaken between Set and the commit entry
\* that covers it, under every interleaving of the server thread and buildTree,
\* and in every process of a store that is opened again.
THEOREM LedgerPipelineInOrder == Spec => []PipelineInOrder
  <1>1. IInv => PipelineInOrder
    BY DEF IInv
  <1> QED BY AlwaysIInv, <1>1, PTL

-----------------------------------------------------------------------------
(***************************************************************************)
(* The digest, in a store that is not opened twice.  A second process      *)
(* writes its commit entries over those of the first, under a digest that  *)
(* still describes them.                                                   *)
(***************************************************************************)

\* The first process on a store is the one before any restart.
LEMMA FirstProcess ==
    ASSUME IInv, [Next]_vars, restarts' = 0
    PROVE  restarts = 0 /\ ~Restart
  <1>1. restarts \in Nat
    BY LedgerAssumption DEF IInv, TypeOK
  <1>2. ~Restart
    BY <1>1 DEF Restart
  <1>3. UNCHANGED restarts
    BY <1>2, Zenon DEF Next, vars, SetPut, SetPush, GetRootDigest, ProofDigest, ProofCommit, ProofRead,
           ProofReply, StartRound, TryPop, EndDrain, PutNode, PutCommit, PutDigest, Shutdown
  <1> QED BY <1>2, <1>3

\* The digest is that of the last finished round.
DigestInv ==
    /\ digest.commit_seq = commit_seq - 1
    /\ digest.tip_block = Built - 1
    /\ DigestNamesCommit

\* Before the first round there is no digest, and NoDigest counts as round -1.
LEMMA InitDigestInv == Init => DigestInv
  BY DEF Init, DigestInv, DigestNamesCommit, NoDigest, Built

\* The digest of a round names the entry stored just before it.
LEMMA PutDigestDigestInv ==
    ASSUME IInv, PutDigest
    PROVE  /\ digest'.commit_seq = commit_seq
           /\ digest'.tip_block = Built + Len(batch) - 1
           /\ DigestInv'
  <1>1. /\ batch # <<>> /\ commit_seq \in DOMAIN commits
        /\ commits[commit_seq].tip_block = batch[Len(batch)].blk_seq
        /\ digest' = NewDigest /\ commits' = commits /\ commit_seq' = commit_seq + 1
    BY DEF PutDigest, Building, IInv, RoundInv
  <1>2. commit_seq \in Nat /\ Built \in Nat /\ Len(batch) \in Nat
    BY <1>1, BuiltNat, LastOfBatch DEF IInv, TypeOK
  <1>3. /\ digest'.commit_seq = commit_seq
        /\ digest'.tip_block = batch[Len(batch)].blk_seq
        /\ digest'.digest = HashCommit(commits[commit_seq])
    BY <1>1 DEF NewDigest
  <1>4. digest'.tip_block = Built + Len(batch) - 1
    BY <1>1, <1>3, LastOfBatch
  <1>5. Built' = Built + Len(batch)
    BY PutDigestIInv
  <1>6. DigestNamesCommit'
    BY <1>1, <1>3 DEF DigestNamesCommit, HashCommit
  <1> QED BY <1>1, <1>2, <1>3, <1>4, <1>5, <1>6 DEF DigestInv

\* Every step of the first process keeps the digest current and consistent.
LEMMA NextDigestInv ==
    ASSUME restarts' = 0, IInv, DigestInv, [Next]_vars
    PROVE  DigestInv'
  <1> USE DEF store, server, builder
  <1>1. CASE PutDigest
    BY <1>1, PutDigestDigestInv
  <1>2. CASE PutCommit
    <2>1. /\ UNCHANGED <<digest, commit_seq>>
          /\ commits' = With(commits, commit_seq, NewCommit)
      BY <1>2 DEF PutCommit
    <2>2. /\ DOMAIN commits' = DOMAIN commits \cup {commit_seq}
          /\ \A c \in DOMAIN commits : c # commit_seq => commits'[c] = commits[c]
      BY <2>1 DEF With
    <2>3. commit_seq \in Nat /\ 0 .. commit_seq - 1 \subseteq DOMAIN commits
      BY DEF IInv, TypeOK
    <2>4. Built' = Built
      BY <2>1, <2>2, <2>3 DEF Built
    <2>5. DigestNamesCommit'
      BY <2>1, <2>2, <2>3 DEF DigestInv, DigestNamesCommit, HashCommit
    <2> QED BY <2>1, <2>4, <2>5 DEF DigestInv
  <1>3. ~Restart
    BY FirstProcess
  <1>4. CASE UNCHANGED <<commits, digest, commit_seq>>
    BY <1>4 DEF DigestInv, DigestNamesCommit, Built
  <1>5. UNCHANGED <<commits, digest, commit_seq>> \/ PutDigest \/ PutCommit \/ Restart
    BY Zenon DEF Next, vars, SetPut, SetPush, GetRootDigest, ProofDigest, ProofCommit, ProofRead,
           ProofReply, StartRound, TryPop, EndDrain, PutNode, Shutdown
  <1> QED BY <1>1, <1>2, <1>3, <1>4, <1>5

\* The digest is current and consistent until the store is opened again.
LEMMA AlwaysDigestInv == Spec => [](restarts = 0 => DigestInv)
  <1>1. IInv /\ (restarts = 0 => DigestInv) /\ [Next]_vars => (restarts = 0 => DigestInv)'
    BY FirstProcess, NextDigestInv
  <1>2. Init => (restarts = 0 => DigestInv)
    BY InitDigestInv
  <1> QED BY AlwaysIInv, <1>1, <1>2, PTL DEF Spec

\* Until the store is opened again the stored digest (ledgerdb.cc:101) names at
\* every point a commit entry that is in the store, with its tip block and its
\* hash, though the server thread may read the two at any point of a round.
THEOREM LedgerDigestNamesCommit == Spec => [](restarts = 0 => DigestNamesCommit)
  <1>1. (restarts = 0 => DigestInv) => (restarts = 0 => DigestNamesCommit)
    BY DEF DigestInv
  <1> QED BY AlwaysDigestInv, <1>1, PTL

\* Each new digest is one commit later than the last and covers more blocks, so
\* a client that keeps the newest one never sees the ledger shrink.
THEOREM LedgerDigestAdvances ==
    ASSUME MaxRestarts = 0
    PROVE  Spec => DigestAdvances
  <1> DEFINE Step == digest' # digest => /\ digest'.commit_seq = digest.commit_seq + 1
                                         /\ digest'.tip_block > digest.tip_block
  <1>1. IInv /\ (restarts = 0 => DigestInv) /\ [Next]_vars => [Step]_vars
    <2> SUFFICES ASSUME IInv, restarts = 0 => DigestInv, [Next]_vars PROVE Step
      OBVIOUS
    <2>0. DigestInv
      BY DEF IInv, TypeOK
    <2>1. CASE PutDigest
      <3>1. Built \in Nat /\ commit_seq \in Nat /\ Len(batch) \in Nat \ {0}
        BY <2>1, BuiltNat, LastOfBatch DEF IInv, TypeOK, RoundInv, PutDigest, Building
      <3> QED BY <2>0, <2>1, <3>1, PutDigestDigestInv DEF DigestInv
    <2>2. digest' = digest \/ PutDigest
      BY Zenon DEF Next, vars, SetPut, SetPush, GetRootDigest, ProofDigest, ProofCommit, ProofRead,
             ProofReply, StartRound, TryPop, EndDrain, PutNode, PutCommit, Shutdown, Restart, store
    <2> QED BY <2>1, <2>2
  <1> QED BY <1>1, AlwaysDigestInv, AlwaysIInv, PTL DEF Spec, DigestAdvances

-----------------------------------------------------------------------------
(* Commit entries *)

\* Commit entries are numbered without a gap, cover more and more blocks, and
\* only blocks that Set has stored.
CommitsInv ==
    /\ \A c \in DOMAIN commits : /\ c \in Nat /\ c <= commit_seq
                                 /\ c = commit_seq => bpc = "digest"
                                 /\ commits[c].commit_seq = c
                                 /\ commits[c].tip_block < next_block_seq
    /\ \A c, d \in DOMAIN commits : c < d => commits[c].tip_block < commits[d].tip_block

\* An entry is a record of these fields, and the digest of the one before it
\* that it holds is decoded from text.
EntryInv ==
    \A c \in DOMAIN commits :
        /\ DOMAIN commits[c] = {"commit_seq", "prev_digest", "tip_block", "mtroot", "mtrootkey", "mptroot"}
        /\ c > 0 => DOMAIN commits[c].prev_digest = {"decoded"}

\* Without a restart only Set writes blocks, and never over one it has written.
LEMMA BlocksStay ==
    ASSUME restarts' = 0, IInv, [Next]_vars
    PROVE  /\ next_block_seq \in Nat /\ next_block_seq' \in Nat /\ next_block_seq <= next_block_seq'
           /\ next_block_seq' <= MaxBlocks
           /\ \A b \in 0 .. next_block_seq - 1 : ledger'[b] = ledger[b]
  <1>0. next_block_seq \in Nat /\ next_block_seq <= MaxBlocks /\ 0 .. next_block_seq - 1 \subseteq DOMAIN ledger
    BY LedgerAssumption DEF IInv, TypeOK
  <1>1. ASSUME NEW ks \in SUBSET Keys, NEW ts \in Timestamps, SetPut(ks, ts)
        PROVE  /\ next_block_seq' = next_block_seq + 1 /\ next_block_seq < MaxBlocks
               /\ ledger' = With(ledger, next_block_seq, ks)
    BY <1>1 DEF SetPut, PutBlock
  <1>2. ASSUME NEW ks \in SUBSET Keys, NEW ts \in Timestamps, SetPut(ks, ts)
        PROVE  \A b \in 0 .. next_block_seq - 1 : ledger'[b] = ledger[b]
    <2>1. \A b \in 0 .. next_block_seq - 1 : b \in DOMAIN ledger /\ b # next_block_seq
      BY <1>0
    <2>2. ledger' = With(ledger, next_block_seq, ks)
      BY <1>1, <1>2
    <2> QED BY <2>1, <2>2 DEF With
  <1>3. CASE UNCHANGED <<ledger, next_block_seq>>
    BY <1>0, <1>3
  <1>4. \/ UNCHANGED <<ledger, next_block_seq>>
        \/ \E ks \in SUBSET Keys, ts \in Timestamps : SetPut(ks, ts)
    <2>1. ~Restart
      BY FirstProcess
    <2> QED BY <2>1, Zenon DEF Next, vars, store, server, SetPush, GetRootDigest, ProofDigest, ProofCommit, ProofRead,
           ProofReply, StartRound, TryPop, EndDrain, PutNode, PutCommit, PutDigest, Shutdown
  <1>5. CASE \E ks \in SUBSET Keys, ts \in Timestamps : SetPut(ks, ts)
    <2>1. PICK ks \in SUBSET Keys, ts \in Timestamps : SetPut(ks, ts)
      BY <1>5
    <2>2. next_block_seq' = next_block_seq + 1 /\ next_block_seq < MaxBlocks
      BY <1>1, <2>1
    <2>3. \A b \in 0 .. next_block_seq - 1 : ledger'[b] = ledger[b]
      BY <1>2, <2>1
    <2> QED BY <1>0, <2>2, <2>3, LedgerAssumption
  <1> QED BY <1>3, <1>4, <1>5

\* The entry of the round goes above all others and covers the batch as well.
LEMMA NewEntry ==
    ASSUME IInv, CommitsInv, PutCommit
    PROVE  /\ commit_seq \notin DOMAIN commits /\ commit_seq \in Nat
           /\ DOMAIN commits' = DOMAIN commits \cup {commit_seq}
           /\ commits'[commit_seq] = NewCommit
           /\ \A c \in DOMAIN commits : commits'[c] = commits[c]
           /\ NewCommit.tip_block = Built + Len(batch) - 1 /\ NewCommit.commit_seq = commit_seq
           /\ Built \in Nat /\ Len(batch) \in Nat \ {0}
           /\ Built + Len(batch) <= next_block_seq
           /\ Built' = Built
  <1>1. /\ bpc = "update" /\ batch # <<>> /\ commits' = With(commits, commit_seq, NewCommit)
        /\ commit_seq' = commit_seq
    BY DEF PutCommit, Building, IInv, RoundInv
  <1>2. commit_seq \notin DOMAIN commits
    BY <1>1 DEF CommitsInv
  <1>3. /\ DOMAIN commits' = DOMAIN commits \cup {commit_seq}
        /\ commits'[commit_seq] = NewCommit
        /\ \A c \in DOMAIN commits : commits'[c] = commits[c]
    BY <1>1, <1>2 DEF With
  <1>4. NewCommit.tip_block = batch[Len(batch)].blk_seq /\ NewCommit.commit_seq = commit_seq
    BY DEF NewCommit
  <1>5. Built \in Nat /\ Len(batch) \in Nat \ {0} /\ batch[Len(batch)].blk_seq = Built + Len(batch) - 1
    BY <1>1, LastOfBatch, BuiltNat DEF IInv
  <1>6. Built + Len(batch) <= next_block_seq
    <2>1. next_block_seq = Built + Len(batch) + Len(tree_queue) + (IF spc = "push" THEN 1 ELSE 0)
      BY DEF IInv, PipelineInOrder
    <2>2. Len(tree_queue) \in Nat
      BY DEF IInv, TypeOK
    <2> QED BY <1>5, <2>1, <2>2
  <1>7. commit_seq \in Nat
    BY DEF IInv, TypeOK
  <1>8. Built' = Built
    BY <1>1, <1>3, <1>7, BuiltUnchanged DEF IInv
  <1> QED BY <1>2, <1>3, <1>4, <1>5, <1>6, <1>7, <1>8

\* Entries below the round cover fewer blocks than the committed prefix.
LEMMA EntryBelow ==
    ASSUME IInv, CommitsInv, NEW c \in DOMAIN commits, c < commit_seq
    PROVE  commits[c].tip_block \in Nat /\ commits[c].tip_block < Built
  <1>1. c \in Nat /\ commit_seq \in Nat /\ commit_seq # 0 /\ commit_seq - 1 \in 0 .. commit_seq - 1
    BY DEF IInv, TypeOK, CommitsInv
  <1>2. commit_seq - 1 \in DOMAIN commits
    BY <1>1 DEF IInv, TypeOK
  <1>3. commits[c].tip_block \in Nat /\ commits[commit_seq - 1].tip_block \in Nat
    BY <1>2 DEF IInv, TypeOK
  <1>4. Built = commits[commit_seq - 1].tip_block + 1
    BY <1>1 DEF Built
  <1>5. CASE c = commit_seq - 1
    BY <1>3, <1>4, <1>5
  <1>6. CASE c # commit_seq - 1
    <2>1. c < commit_seq - 1
      BY <1>1, <1>6
    <2>2. commits[c].tip_block < commits[commit_seq - 1].tip_block
      BY <1>2, <2>1 DEF CommitsInv
    <2> QED BY <1>3, <1>4, <2>2
  <1> QED BY <1>5, <1>6

\* Every step keeps the entries numbered and growing.
LEMMA NextCommitsInv ==
    ASSUME restarts' = 0, IInv, CommitsInv, [Next]_vars
    PROVE  CommitsInv'
  <1>0. /\ next_block_seq \in Nat /\ next_block_seq' \in Nat /\ next_block_seq <= next_block_seq'
    BY BlocksStay
  <1>1. /\ commit_seq \in Nat
        /\ \A c \in DOMAIN commits : commits[c].tip_block \in Nat
    BY DEF IInv, TypeOK
  <1>2. CASE PutCommit
    <2>1. bpc' = "digest" /\ commit_seq' = commit_seq
      BY <1>2 DEF PutCommit
    <2>2. \A c \in DOMAIN commits : /\ c \in Nat /\ c < commit_seq
                                    /\ commits[c].tip_block \in Nat /\ commits[c].tip_block < Built
      <3>1. \A c \in DOMAIN commits : c \in Nat /\ c < commit_seq
        BY <1>1, <1>2, NewEntry DEF CommitsInv
      <3> QED BY <3>1, EntryBelow
    <2>3. NewCommit.tip_block \in Nat /\ NewCommit.tip_block >= Built /\ NewCommit.tip_block < next_block_seq
      BY <1>0, <1>2, NewEntry
    <2>4. ASSUME NEW c \in DOMAIN commits'
          PROVE  /\ c \in Nat /\ c <= commit_seq'
                 /\ c = commit_seq' => bpc' = "digest"
                 /\ commits'[c].commit_seq = c
                 /\ commits'[c].tip_block < next_block_seq'
      <3>1. CASE c = commit_seq
        BY <1>0, <1>1, <1>2, <2>1, <2>3, <3>1, NewEntry
      <3>2. CASE c \in DOMAIN commits
        <4>1. commits'[c] = commits[c]
          BY <1>2, <3>2, NewEntry
        <4>2. commits[c].commit_seq = c /\ commits[c].tip_block < next_block_seq
          BY <3>2 DEF CommitsInv
        <4> QED BY <1>0, <1>1, <2>1, <2>2, <3>2, <4>1, <4>2
      <3> QED BY <1>2, <3>1, <3>2, NewEntry
    <2>5. ASSUME NEW c \in DOMAIN commits', NEW d \in DOMAIN commits', c < d
          PROVE  commits'[c].tip_block < commits'[d].tip_block
      <3>1. c \in DOMAIN commits
        BY <1>1, <1>2, <2>2, <2>5, NewEntry
      <3>2. commits'[c] = commits[c]
        BY <1>2, <3>1, NewEntry
      <3>3. CASE d = commit_seq
        <4>1. commits'[d] = NewCommit
          BY <1>2, <3>3, NewEntry
        <4> QED BY <1>2, <2>2, <2>3, <3>1, <3>2, <4>1, NewEntry
      <3>4. CASE d \in DOMAIN commits
        <4>1. commits'[d] = commits[d]
          BY <1>2, <3>4, NewEntry
        <4> QED BY <2>5, <3>1, <3>2, <3>4, <4>1 DEF CommitsInv
      <3> QED BY <1>2, <3>3, <3>4, NewEntry
    <2> QED BY <2>4, <2>5 DEF CommitsInv
  <1>3. CASE PutDigest
    <2>1. commits' = commits /\ commit_seq' = commit_seq + 1 /\ next_block_seq' = next_block_seq
      BY <1>3 DEF PutDigest, server
    <2> QED BY <1>1, <2>1 DEF CommitsInv
  <1>4. CASE UNCHANGED <<commits, commit_seq>> /\ (bpc = "digest" => bpc' = "digest")
    BY <1>0, <1>1, <1>4 DEF CommitsInv
  <1>5. \/ PutCommit \/ PutDigest
        \/ UNCHANGED <<commits, commit_seq>> /\ (bpc = "digest" => bpc' = "digest")
    <2>1. ~Restart
      BY FirstProcess
    <2> QED BY <2>1, Zenon DEF Next, vars, store, builder, SetPut, SetPush, GetRootDigest, ProofDigest, ProofCommit,
           ProofRead, ProofReply, StartRound, TryPop, EndDrain, PutNode, Shutdown, Building
  <1> QED BY <1>2, <1>3, <1>4, <1>5

\* The blocks in front of the pipeline's end: committed, and in the batch.
LEMMA BatchBounds ==
    ASSUME IInv
    PROVE  /\ Built \in Nat /\ Len(batch) \in Nat /\ Built + Len(batch) \in Nat
           /\ next_block_seq \in Nat /\ next_block_seq <= MaxBlocks
           /\ Built + Len(batch) <= next_block_seq
           /\ \A j \in 1 .. Len(batch) : batch[j].blk_seq = Built + j - 1
  <1>1. /\ batch \in Seq(Items) /\ tree_queue \in Seq(Items) /\ Built \in Nat
        /\ next_block_seq \in Nat /\ next_block_seq <= MaxBlocks
    BY BuiltNat, LedgerAssumption DEF IInv, TypeOK
  <1>2. Len(batch) \in Nat /\ Len(tree_queue) \in Nat /\ DOMAIN batch = 1 .. Len(batch)
    BY <1>1
  <1>3. /\ next_block_seq = Built + Len(batch) + Len(tree_queue) + (IF spc = "push" THEN 1 ELSE 0)
        /\ \A j \in DOMAIN batch : batch[j].blk_seq = Built + j - 1
    BY DEF IInv, PipelineInOrder
  <1>4. Built + Len(batch) \in Nat /\ Built + Len(batch) <= next_block_seq
    BY <1>1, <1>2, <1>3
  <1>5. \A j \in 1 .. Len(batch) : batch[j].blk_seq = Built + j - 1
    BY <1>2, <1>3
  <1> QED BY <1>1, <1>2, <1>4, <1>5

\* Every step of the first process keeps the form of the entries.
LEMMA NextEntryInv ==
    ASSUME IInv, CommitsInv, EntryInv, [Next]_vars
    PROVE  EntryInv'
  <1>1. CASE PutCommit
    <2>1. /\ DOMAIN commits' = DOMAIN commits \cup {commit_seq} /\ commit_seq \in Nat
          /\ commits'[commit_seq] = NewCommit
          /\ \A c \in DOMAIN commits : commits'[c] = commits[c]
      BY <1>1, NewEntry
    <2>2. DOMAIN NewCommit = {"commit_seq", "prev_digest", "tip_block", "mtroot", "mtrootkey", "mptroot"}
      BY DEF NewCommit
    <2>3. ASSUME commit_seq > 0 PROVE DOMAIN NewCommit.prev_digest = {"decoded"}
      <3>0. commit_seq # 0
        BY <2>1, <2>3
      <3>1. NewCommit.prev_digest = DecodeCommitText(commits[commit_seq - 1])
        BY <3>0 DEF NewCommit
      <3>2. \A e : DOMAIN DecodeCommitText(e) = {"decoded"}
        BY DEF DecodeCommitText
      <3> QED BY <3>1, <3>2
    <2> QED BY <2>1, <2>2, <2>3 DEF EntryInv
  <1>2. CASE UNCHANGED commits
    BY <1>2 DEF EntryInv
  <1>3. PutCommit \/ UNCHANGED commits
    BY Zenon DEF Next, vars, store, SetPut, SetPush, GetRootDigest, ProofDigest, ProofCommit, ProofRead,
           ProofReply, StartRound, TryPop, EndDrain, PutNode, PutDigest, Shutdown, Restart
  <1> QED BY <1>1, <1>2, <1>3

-----------------------------------------------------------------------------
(* The clues and the ccMPT *)

\* A queued block is the one its item describes, and its clue entries lead to it.
ItemInv(it) ==
    /\ it.blk_seq \in 0 .. next_block_seq - 1
    /\ ledger[it.blk_seq] = it.mpt_ks
    /\ \A k \in it.mpt_ks : it.mpt_ts \in DOMAIN clue[k] /\ clue[k][it.mpt_ts] = it.blk_seq

\* Each entry of a clue leads to a block with the key, and no two to the same.
ClueInv ==
    /\ \A b \in 0 .. next_block_seq - 1 : ledger[b] \in SUBSET Keys
    /\ \A k \in Keys : \A t \in DOMAIN clue[k] :
          clue[k][t] \in 0 .. next_block_seq - 1 /\ k \in ledger[clue[k][t]]
    /\ \A k \in Keys : \A t, u \in DOMAIN clue[k] : clue[k][t] = clue[k][u] => t = u
    /\ \A i \in DOMAIN batch : ItemInv(batch[i])
    /\ \A i \in DOMAIN tree_queue : ItemInv(tree_queue[i])
    /\ spc = "push" => ItemInv(pending)

\* ts is the newest entry of the clue of k among the blocks up to tip.
IsNewest(k, tip, ts) ==
    /\ ts \in DOMAIN clue[k] /\ clue[k][ts] <= tip
    /\ \A t \in DOMAIN clue[k] : clue[k][t] <= tip => clue[k][t] <= clue[k][ts]

\* The keys of the blocks under an entry.
KeysTo(tip) == UNION {ledger[b] : b \in 0 .. tip}

\* The ccMPT of an entry holds the newest entries of the keys of its blocks.
EntryMpt(entry) ==
    /\ entry.mptroot = [k \in KeysTo(entry.tip_block) |-> entry.mptroot[k]]
    /\ \A k \in DOMAIN entry.mptroot : IsNewest(k, entry.tip_block, entry.mptroot[k])

MptInv == \A c \in DOMAIN commits : EntryMpt(commits[c])

\* Set adds one entry to the clue of each of its keys and touches no other.
LEMMA SetPutClue ==
    ASSUME NEW ks \in SUBSET Keys, NEW ts \in Timestamps, SetPut(ks, ts)
    PROVE  /\ \A k \in Keys : \A t \in DOMAIN clue[k] : t # ts /\ t \in DOMAIN clue'[k] /\ clue'[k][t] = clue[k][t]
           /\ \A k \in Keys : \A t \in DOMAIN clue'[k] :
                 t \in DOMAIN clue[k] \/ (t = ts /\ k \in ks /\ clue'[k][t] = next_block_seq)
           /\ \A k \in ks : ts \in DOMAIN clue'[k] /\ clue'[k][ts] = next_block_seq
  <1>1. /\ \A k \in Keys : ts \notin DOMAIN clue[k]
        /\ clue' = [k \in Keys |-> IF k \in ks THEN With(clue[k], ts, next_block_seq) ELSE clue[k]]
    BY Zenon DEF SetPut
  <1>2. \A k \in Keys : clue'[k] = IF k \in ks THEN With(clue[k], ts, next_block_seq) ELSE clue[k]
    BY <1>1
  <1>3. \A k : /\ DOMAIN With(clue[k], ts, next_block_seq) = DOMAIN clue[k] \cup {ts}
               /\ With(clue[k], ts, next_block_seq)[ts] = next_block_seq
               /\ \A t \in DOMAIN clue[k] : t # ts => With(clue[k], ts, next_block_seq)[t] = clue[k][t]
    BY DEF With
  <1>4. ASSUME NEW k \in Keys, NEW t \in DOMAIN clue[k]
        PROVE  t # ts /\ t \in DOMAIN clue'[k] /\ clue'[k][t] = clue[k][t]
    BY <1>1, <1>2, <1>3, Zenon
  <1>5. ASSUME NEW k \in Keys, NEW t \in DOMAIN clue'[k]
        PROVE  t \in DOMAIN clue[k] \/ (t = ts /\ k \in ks /\ clue'[k][t] = next_block_seq)
    BY <1>2, <1>3, ZenonT(40)
  <1>6. ASSUME NEW k \in ks PROVE ts \in DOMAIN clue'[k] /\ clue'[k][ts] = next_block_seq
    BY <1>2, <1>3, Zenon
  <1> QED BY <1>4, <1>5, <1>6

\* What Set stores keeps the items that are already queued.
LEMMA SetPutItem ==
    ASSUME restarts' = 0, IInv, ClueInv, NEW ks \in SUBSET Keys, NEW ts \in Timestamps, SetPut(ks, ts),
           NEW it, ItemInv(it)
    PROVE  /\ it.blk_seq \in 0 .. next_block_seq' - 1
           /\ ledger'[it.blk_seq] = it.mpt_ks
           /\ \A k \in it.mpt_ks : it.mpt_ts \in DOMAIN clue'[k] /\ clue'[k][it.mpt_ts] = it.blk_seq
  <1>0. [Next]_vars
    BY DEF Next
  <1>1. /\ next_block_seq \in Nat /\ next_block_seq' \in Nat /\ next_block_seq <= next_block_seq'
        /\ \A b \in 0 .. next_block_seq - 1 : ledger'[b] = ledger[b]
    BY <1>0, BlocksStay
  <1>2. /\ it.blk_seq \in 0 .. next_block_seq - 1 /\ ledger[it.blk_seq] = it.mpt_ks
        /\ \A k \in it.mpt_ks : it.mpt_ts \in DOMAIN clue[k] /\ clue[k][it.mpt_ts] = it.blk_seq
    BY DEF ItemInv
  <1>3. it.mpt_ks \in SUBSET Keys
    BY <1>2 DEF ClueInv
  <1>4. it.blk_seq \in 0 .. next_block_seq' - 1
    BY <1>1, <1>2
  <1>5. ASSUME NEW k \in it.mpt_ks PROVE it.mpt_ts \in DOMAIN clue'[k] /\ clue'[k][it.mpt_ts] = it.blk_seq
    <2>1. k \in Keys /\ it.mpt_ts \in DOMAIN clue[k] /\ clue[k][it.mpt_ts] = it.blk_seq
      BY <1>2, <1>3
    <2>2. \A t \in DOMAIN clue[k] : t \in DOMAIN clue'[k] /\ clue'[k][t] = clue[k][t]
      BY <2>1, SetPutClue
    <2> QED BY <2>1, <2>2
  <1> QED BY <1>1, <1>2, <1>4, <1>5

\* Set keeps the clues and the ledger in step.
LEMMA SetPutClueInv ==
    ASSUME restarts' = 0, IInv, ClueInv, NEW ks \in SUBSET Keys, NEW ts \in Timestamps, SetPut(ks, ts)
    PROVE  ClueInv'
  <1>0. [Next]_vars
    BY DEF Next
  <1>1. /\ next_block_seq \in Nat /\ next_block_seq' = next_block_seq + 1
        /\ pending' = [blk_seq |-> next_block_seq, mpt_ks |-> ks, mpt_ts |-> ts]
        /\ UNCHANGED <<batch, tree_queue>>
    BY DEF SetPut, builder, IInv, TypeOK
  <1>2. \A b \in 0 .. next_block_seq - 1 : ledger'[b] = ledger[b]
    BY <1>0, BlocksStay
  <1>3. ledger'[next_block_seq] = ks
    BY DEF SetPut, PutBlock, With
  <1>4. ASSUME NEW b \in 0 .. next_block_seq' - 1 PROVE ledger'[b] \in SUBSET Keys
    <2>1. b = next_block_seq \/ b \in 0 .. next_block_seq - 1
      BY <1>1
    <2> QED BY <1>2, <1>3, <2>1 DEF ClueInv
  <1>5. ASSUME NEW k \in Keys, NEW t \in DOMAIN clue'[k]
        PROVE  clue'[k][t] \in 0 .. next_block_seq' - 1 /\ k \in ledger'[clue'[k][t]]
    <2>1. CASE t \in DOMAIN clue[k]
      <3>0. clue[k][t] \in 0 .. next_block_seq - 1 /\ k \in ledger[clue[k][t]]
        BY <2>1 DEF ClueInv
      <3>1. clue'[k][t] = clue[k][t] /\ clue[k][t] \in 0 .. next_block_seq - 1 /\ k \in ledger[clue[k][t]]
        BY <2>1, <3>0, SetPutClue
      <3>2. clue[k][t] \in 0 .. next_block_seq' - 1
        BY <1>1, <3>1
      <3> QED BY <1>2, <3>1, <3>2
    <2>2. CASE t = ts /\ k \in ks /\ clue'[k][t] = next_block_seq
      BY <1>1, <1>3, <2>2
    <2> QED BY <2>1, <2>2, SetPutClue
  <1>6. ASSUME NEW k \in Keys, NEW t \in DOMAIN clue'[k], NEW u \in DOMAIN clue'[k], clue'[k][t] = clue'[k][u]
        PROVE  t = u
    <2>1. \A x \in DOMAIN clue[k] : clue'[k][x] = clue[k][x] /\ clue'[k][x] # next_block_seq
      <3>1. \A x \in DOMAIN clue[k] : clue'[k][x] = clue[k][x] /\ clue[k][x] \in 0 .. next_block_seq - 1
        BY SetPutClue, ZenonT(40) DEF ClueInv
      <3> QED BY <1>1, <3>1
    <2>2. \A x \in DOMAIN clue'[k] : x \in DOMAIN clue[k] \/ (x = ts /\ clue'[k][x] = next_block_seq)
      BY SetPutClue, ZenonT(40)
    <2>3. CASE t \in DOMAIN clue[k] /\ u \in DOMAIN clue[k]
      BY <1>6, <2>1, <2>3 DEF ClueInv
    <2> QED BY <1>6, <2>1, <2>2, <2>3
  <1>7. ItemInv(pending)'
    <2>1. pending'.blk_seq = next_block_seq /\ pending'.mpt_ks = ks /\ pending'.mpt_ts = ts
      BY <1>1
    <2>2. next_block_seq \in 0 .. next_block_seq' - 1
      BY <1>1
    <2> QED BY <1>3, <2>1, <2>2, SetPutClue DEF ItemInv
  <1>8. ASSUME NEW i \in DOMAIN batch PROVE ItemInv(batch[i])'
    <2>1. ItemInv(batch[i])
      BY DEF ClueInv
    <2> QED BY <1>1, <2>1, SetPutItem, Zenon DEF ItemInv
  <1>9. ASSUME NEW i \in DOMAIN tree_queue PROVE ItemInv(tree_queue[i])'
    <2>1. ItemInv(tree_queue[i])
      BY DEF ClueInv
    <2> QED BY <1>1, <2>1, SetPutItem DEF ItemInv
  <1> QED BY <1>1, <1>4, <1>5, <1>6, <1>7, <1>8, <1>9 DEF ClueInv

\* Every step keeps the clues, the ledger and the queued items in step.
LEMMA NextClueInv ==
    ASSUME restarts' = 0, IInv, ClueInv, [Next]_vars
    PROVE  ClueInv'
  <1>1. ASSUME NEW ks \in SUBSET Keys, NEW ts \in Timestamps, SetPut(ks, ts) PROVE ClueInv'
    BY <1>1, SetPutClueInv
  <1>2. ASSUME UNCHANGED <<ledger, clue, next_block_seq>>, NEW it, ItemInv(it)
        PROVE  /\ it.blk_seq \in 0 .. next_block_seq' - 1
               /\ ledger'[it.blk_seq] = it.mpt_ks
               /\ \A k \in it.mpt_ks : it.mpt_ts \in DOMAIN clue'[k] /\ clue'[k][it.mpt_ts] = it.blk_seq
    BY <1>2 DEF ItemInv
  <1>3. CASE SetPush
    <2>1. /\ UNCHANGED <<ledger, clue, next_block_seq, batch>> /\ spc = "push" /\ spc' = "idle"
          /\ tree_queue \in Seq(Items) /\ tree_queue' = Append(tree_queue, pending)
          /\ pending \in Items
      BY <1>3 DEF SetPush, Serving, store, builder, IInv, TypeOK
    <2>2. ASSUME NEW i \in DOMAIN tree_queue' PROVE ItemInv(tree_queue[i])'
      <3>1. tree_queue'[i] = pending \/ (i \in DOMAIN tree_queue /\ tree_queue'[i] = tree_queue[i])
        BY <2>1
      <3>2. ItemInv(tree_queue'[i])
        BY <2>1, <3>1 DEF ClueInv
      <3> QED BY <1>2, <2>1, <3>2 DEF ItemInv
    <2>3. ASSUME NEW i \in DOMAIN batch PROVE ItemInv(batch[i])'
      BY <1>2, <2>1 DEF ItemInv, ClueInv
    <2> QED BY <2>1, <2>2, <2>3 DEF ClueInv
  <1>4. CASE TryPop
    <2>1. /\ UNCHANGED <<ledger, clue, next_block_seq, spc, pending>>
          /\ tree_queue \in Seq(Items) /\ batch \in Seq(Items) /\ tree_queue # <<>>
          /\ tree_queue' = Tail(tree_queue) /\ batch' = Append(batch, Head(tree_queue))
      BY <1>4 DEF TryPop, Building, store, server, IInv, TypeOK
    <2>2. ASSUME NEW i \in DOMAIN tree_queue' PROVE ItemInv(tree_queue[i])'
      <3>1. i + 1 \in DOMAIN tree_queue /\ tree_queue'[i] = tree_queue[i + 1]
        BY <2>1
      <3>2. ItemInv(tree_queue'[i])
        BY <3>1 DEF ClueInv
      <3> QED BY <1>2, <2>1, <3>2 DEF ItemInv
    <2>3. ASSUME NEW i \in DOMAIN batch' PROVE ItemInv(batch[i])'
      <3>1. \/ 1 \in DOMAIN tree_queue /\ batch'[i] = tree_queue[1]
            \/ i \in DOMAIN batch /\ batch'[i] = batch[i]
        BY <2>1
      <3>2. ItemInv(batch'[i])
        BY <3>1 DEF ClueInv
      <3> QED BY <1>2, <2>1, <3>2 DEF ItemInv
    <2>4. spc' = "push" => ItemInv(pending)'
      BY <1>2, <2>1 DEF ItemInv, ClueInv
    <2> QED BY <2>1, <2>2, <2>3, <2>4, Zenon DEF ClueInv
  <1>5. CASE /\ UNCHANGED <<ledger, clue, next_block_seq, tree_queue, pending>>
             /\ batch' = batch \/ batch' = <<>>
             /\ spc' = "push" => spc = "push"
    <2>1. ASSUME NEW i \in DOMAIN batch' PROVE i \in DOMAIN batch /\ batch'[i] = batch[i]
      BY <1>5
    <2> QED BY <1>5, <2>1 DEF ClueInv, ItemInv
  <1>6. \/ \E ks \in SUBSET Keys, ts \in Timestamps : SetPut(ks, ts)
        \/ SetPush \/ TryPop
        \/ /\ UNCHANGED <<ledger, clue, next_block_seq, tree_queue, pending>>
           /\ batch' = batch \/ batch' = <<>>
           /\ spc' = "push" => spc = "push"
    <2>1. ~Restart
      BY FirstProcess
    <2> QED BY <2>1, Zenon DEF Next, vars, store, server, builder, GetRootDigest, ProofDigest, ProofCommit, ProofRead,
           ProofReply, StartRound, EndDrain, PutNode, PutCommit, PutDigest, Shutdown
  <1> QED BY <1>1, <1>3, <1>4, <1>5, <1>6

\* A set of positions of a sequence has a last one.
LEMMA LastPosition ==
    ASSUME NEW m \in Nat, NEW P \in SUBSET (1 .. m), P # {}
    PROVE  \E i \in P : \A j \in P : j <= i
  <1> DEFINE After == {m - i : i \in P}
             Less == OpToRel(<, Nat)
  <1>1. IsWellFoundedOn(Less, Nat)
    BY NatLessThanWellFounded, Zenon
  <1>2. After \subseteq Nat /\ After # {} /\ \A i \in P : m - i \in After
    <2>1. \A i \in P : m - i \in Nat
      OBVIOUS
    <2>2. PICK i \in P : TRUE
      BY Zenon
    <2>3. After \subseteq Nat
      BY <2>1
    <2>4. \A k \in P : m - k \in After
      OBVIOUS
    <2> QED BY <2>2, <2>3, <2>4
  <1>3. \A x, y \in Nat : x < y => <<x, y>> \in Less
    BY DEF OpToRel
  <1>4. PICK x \in After : \A y \in After : ~(<<y, x>> \in Less)
    <2> HIDE DEF After, Less
    <2> QED BY <1>1, <1>2, WFMin, Zenon
  <1>5. PICK i \in P : x = m - i
    OBVIOUS
  <1>6. ASSUME NEW j \in P PROVE j <= i
    <2>1. m - j \in Nat /\ x \in Nat /\ ~(<<m - j, x>> \in Less)
      BY <1>2, <1>4, Zenon
    <2>2. ~(m - j < m - i)
      BY <1>3, <1>5, <2>1, Zenon
    <2> QED BY <2>2
  <1> QED BY <1>6

\* A block of the round that has a key is in the batch, with that key.
LEMMA BatchBlock ==
    ASSUME IInv, ClueInv, NEW k, NEW b \in Nat, Built <= b, b < Built + Len(batch)
    PROVE  /\ (b - Built) + 1 \in DOMAIN batch
           /\ k \in ledger[b] => k \in batch[(b - Built) + 1].mpt_ks
           /\ batch[(b - Built) + 1].blk_seq = b
  <1>1. /\ Built \in Nat /\ Len(batch) \in Nat /\ batch \in Seq(Items)
        /\ \A j \in 1 .. Len(batch) : batch[j].blk_seq = Built + j - 1
    BY BatchBounds DEF IInv, TypeOK
  <1> DEFINE j == (b - Built) + 1
  <1>2. j \in 1 .. Len(batch) /\ Built + j - 1 = b /\ DOMAIN batch = 1 .. Len(batch)
    BY <1>1
  <1> HIDE DEF j
  <1>3. batch[j].blk_seq = b
    BY <1>1, <1>2, Zenon
  <1>4. ItemInv(batch[j])
    BY <1>2 DEF ClueInv
  <1>5. ledger[b] = batch[j].mpt_ks
    BY <1>3, <1>4 DEF ItemInv
  <1> QED BY <1>2, <1>3, <1>5 DEF j

\* The keys of the batch of the round under way.
RoundKeys == UNION {batch[i].mpt_ks : i \in DOMAIN batch}

\* mpt_blks holds the newest entry of each key of the batch.
LEMMA MptBlocksNewest ==
    ASSUME IInv, ClueInv
    PROVE  /\ MptBlocks = [k \in RoundKeys |-> MptBlocks[k]]
           /\ \A k \in RoundKeys : IsNewest(k, (Built + Len(batch)) - 1, MptBlocks[k])
  <1> DEFINE tip == (Built + Len(batch)) - 1
             Last(k, i) == k \in batch[i].mpt_ks /\ \A j \in DOMAIN batch : k \in batch[j].mpt_ks => j <= i
             last(k) == CHOOSE i \in DOMAIN batch : Last(k, i)
  <1>1. MptBlocks = [k \in RoundKeys |-> batch[last(k)].mpt_ts]
    BY Zenon DEF MptBlocks, RoundKeys
  <1>2. /\ Built \in Nat /\ Len(batch) \in Nat /\ next_block_seq \in Nat /\ DOMAIN batch = 1 .. Len(batch)
        /\ \A j \in 1 .. Len(batch) : batch[j].blk_seq = Built + j - 1
    BY BatchBounds DEF IInv, TypeOK
  <1>3. ASSUME NEW k \in RoundKeys PROVE IsNewest(k, tip, MptBlocks[k])
    <2> DEFINE P == {i \in DOMAIN batch : k \in batch[i].mpt_ks}
    <2>1. P \in SUBSET (1 .. Len(batch)) /\ P # {}
      BY <1>2 DEF RoundKeys
    <2>2. \E i \in P : \A j \in P : j <= i
      <3> HIDE DEF P
      <3> QED BY <1>2, <2>1, LastPosition, Zenon
    <2>3. \E i \in DOMAIN batch : Last(k, i)
      BY <2>2
    <2> DEFINE i == last(k)
    <2>4. i \in DOMAIN batch /\ Last(k, i)
      BY <2>3, Zenon
    <2>5. MptBlocks[k] = batch[i].mpt_ts
      BY <1>1
    <2> HIDE DEF i
    <2>6. ItemInv(batch[i]) /\ k \in batch[i].mpt_ks
      BY <2>4 DEF ClueInv
    <2>7. /\ batch[i].mpt_ts \in DOMAIN clue[k]
          /\ clue[k][batch[i].mpt_ts] = Built + i - 1 /\ i \in 1 .. Len(batch)
          /\ ledger[batch[i].blk_seq] = batch[i].mpt_ks /\ batch[i].blk_seq \in 0 .. next_block_seq - 1
      BY <1>2, <2>4, <2>6 DEF ItemInv
    <2>8. k \in Keys
      BY <2>6, <2>7 DEF ClueInv
    <2>9. ASSUME NEW t \in DOMAIN clue[k], clue[k][t] <= tip PROVE clue[k][t] <= Built + i - 1
      <3>1. clue[k][t] \in Nat /\ k \in ledger[clue[k][t]]
        <4>1. clue[k][t] \in 0 .. next_block_seq - 1 /\ k \in ledger[clue[k][t]]
          BY <2>8 DEF ClueInv
        <4> QED BY <1>2, <4>1
      <3>2. CASE clue[k][t] < Built
        BY <1>2, <2>7, <3>1, <3>2
      <3>3. CASE Built <= clue[k][t]
        <4> DEFINE b == clue[k][t]
                   j == (b - Built) + 1
        <4>1. b \in Nat /\ Built <= b /\ b < Built + Len(batch) /\ k \in ledger[b]
          BY <1>2, <2>9, <3>1, <3>3
        <4> HIDE DEF b
        <4>2. j \in DOMAIN batch /\ k \in batch[j].mpt_ks
          BY <4>1, BatchBlock
        <4>3. j <= i
          BY <2>4, <4>2
        <4>4. b <= Built + i - 1
          BY <1>2, <2>7, <4>1, <4>3
        <4> QED BY <4>4 DEF b
      <3> QED BY <1>2, <3>1, <3>2, <3>3
    <2>10. Built + i - 1 <= tip
      BY <1>2, <2>7
    <2> HIDE DEF tip
    <2> QED BY <2>5, <2>7, <2>9, <2>10 DEF IsNewest
  <1>4. MptBlocks = [k \in RoundKeys |-> MptBlocks[k]]
    <2> DEFINE new == MptBlocks
    <2>1. new = [k \in RoundKeys |-> batch[last(k)].mpt_ts]
      BY <1>1
    <2> HIDE DEF new, last
    <2>2. new = [k \in RoundKeys |-> new[k]]
      BY <2>1
    <2> QED BY <2>2 DEF new
  <1> QED BY <1>3, <1>4

\* A key that the batch does not write has no entry among its blocks.
LEMMA NotInRound ==
    ASSUME IInv, ClueInv, NEW k \in Keys, k \notin RoundKeys, NEW ts,
           IsNewest(k, Built - 1, ts)
    PROVE  IsNewest(k, (Built + Len(batch)) - 1, ts)
  <1>1. /\ Built \in Nat /\ Len(batch) \in Nat /\ next_block_seq \in Nat
    BY BatchBounds
  <1>2. \A t \in DOMAIN clue[k] : clue[k][t] \in Nat /\ k \in ledger[clue[k][t]]
    <2>1. \A t \in DOMAIN clue[k] : clue[k][t] \in 0 .. next_block_seq - 1 /\ k \in ledger[clue[k][t]]
      BY DEF ClueInv
    <2> QED BY <1>1, <2>1
  <1>3. ASSUME NEW t \in DOMAIN clue[k], clue[k][t] <= (Built + Len(batch)) - 1
        PROVE  clue[k][t] <= Built - 1
    <2> SUFFICES ASSUME Built <= clue[k][t] PROVE FALSE
      BY <1>1, <1>2
    <2> DEFINE b == clue[k][t]
    <2>1. b \in Nat /\ Built <= b /\ b < Built + Len(batch) /\ k \in ledger[b]
      BY <1>1, <1>2, <1>3
    <2> HIDE DEF b
    <2>2. (b - Built) + 1 \in DOMAIN batch /\ k \in batch[(b - Built) + 1].mpt_ks
      BY <2>1, BatchBlock
    <2> QED BY <2>2 DEF RoundKeys
  <1>4. /\ ts \in DOMAIN clue[k] /\ clue[k][ts] <= Built - 1
        /\ \A t \in DOMAIN clue[k] : clue[k][t] <= Built - 1 => clue[k][t] <= clue[k][ts]
    BY DEF IsNewest
  <1>5. clue[k][ts] <= (Built + Len(batch)) - 1
    BY <1>1, <1>2, <1>4
  <1> QED BY <1>3, <1>4, <1>5 DEF IsNewest

\* The keys of the committed blocks and of the batch are those of the new entry.
LEMMA KeysOfRound ==
    ASSUME IInv, ClueInv
    PROVE  /\ KeysTo((Built + Len(batch)) - 1) = KeysTo(Built - 1) \cup RoundKeys
           /\ KeysTo((Built + Len(batch)) - 1) \subseteq Keys
  <1>1. /\ Built \in Nat /\ Len(batch) \in Nat /\ next_block_seq \in Nat /\ DOMAIN batch = 1 .. Len(batch)
        /\ Built + Len(batch) <= next_block_seq
        /\ \A j \in 1 .. Len(batch) : batch[j].blk_seq = Built + j - 1
    BY BatchBounds DEF IInv, TypeOK
  <1>2. ASSUME NEW k, NEW b \in 0 .. (Built + Len(batch)) - 1, k \in ledger[b]
        PROVE  k \in KeysTo(Built - 1) \cup RoundKeys
    <2>1. CASE b < Built
      <3>1. b \in 0 .. Built - 1
        BY <1>1, <2>1
      <3> QED BY <1>2, <3>1 DEF KeysTo
    <2>2. CASE ~(b < Built)
      <3>1. b \in Nat /\ Built <= b /\ b < Built + Len(batch)
        BY <1>1, <2>2
      <3>2. (b - Built) + 1 \in DOMAIN batch /\ k \in batch[(b - Built) + 1].mpt_ks
        BY <1>2, <3>1, BatchBlock
      <3> QED BY <3>2 DEF RoundKeys
    <2> QED BY <2>1, <2>2
  <1>3. ASSUME NEW k \in RoundKeys PROVE k \in KeysTo((Built + Len(batch)) - 1)
    <2>1. PICK i \in DOMAIN batch : k \in batch[i].mpt_ks
      BY DEF RoundKeys
    <2>2. ledger[batch[i].blk_seq] = batch[i].mpt_ks
      BY <2>1 DEF ClueInv, ItemInv
    <2>3. batch[i].blk_seq \in 0 .. (Built + Len(batch)) - 1
      BY <1>1, <2>1
    <2> QED BY <2>1, <2>2, <2>3 DEF KeysTo
  <1>4. \A b \in 0 .. Built - 1 : b \in 0 .. (Built + Len(batch)) - 1
    BY <1>1
  <1>5. KeysTo(Built - 1) \subseteq KeysTo((Built + Len(batch)) - 1)
    BY <1>4 DEF KeysTo
  <1>6. KeysTo((Built + Len(batch)) - 1) \subseteq KeysTo(Built - 1) \cup RoundKeys
    BY <1>2 DEF KeysTo
  <1>7. \A b \in 0 .. (Built + Len(batch)) - 1 : ledger[b] \in SUBSET Keys
    <2>1. \A b \in 0 .. (Built + Len(batch)) - 1 : b \in 0 .. next_block_seq - 1
      BY <1>1
    <2> QED BY <2>1 DEF ClueInv
  <1>8. KeysTo((Built + Len(batch)) - 1) \subseteq Keys
    BY <1>7 DEF KeysTo
  <1> QED BY <1>3, <1>5, <1>6, <1>8

\* The ccMPT of the new entry: that of the one before it with the batch merged in.
LEMMA PutCommitMpt ==
    ASSUME IInv, CommitsInv, ClueInv, MptInv, PutCommit
    PROVE  MptInv'
  <1> DEFINE tip == (Built + Len(batch)) - 1
             prev == commits[commit_seq - 1]
             new == NewCommit.mptroot
  <1>1. /\ UNCHANGED <<ledger, clue>>
        /\ DOMAIN commits' = DOMAIN commits \cup {commit_seq}
        /\ commits'[commit_seq] = NewCommit
        /\ \A c \in DOMAIN commits : commits'[c] = commits[c]
        /\ NewCommit.tip_block = tip /\ commit_seq \in Nat
    <2>1. NewCommit.tip_block = tip
      BY NewEntry
    <2> QED BY <2>1, NewEntry DEF PutCommit
  <1>2. /\ MptBlocks = [k \in RoundKeys |-> MptBlocks[k]] /\ DOMAIN MptBlocks = RoundKeys
        /\ \A k \in RoundKeys : IsNewest(k, tip, MptBlocks[k])
    BY MptBlocksNewest
  <1>3. KeysTo(tip) = KeysTo(Built - 1) \cup RoundKeys /\ KeysTo(tip) \subseteq Keys
    BY KeysOfRound
  <1>4. new = IF commit_seq = 0 THEN MptBlocks ELSE Merge(MptBlocks, prev.mptroot)
    BY DEF NewCommit
  <1> HIDE DEF tip, new
  <1>5. /\ new = [k \in KeysTo(tip) |-> new[k]]
        /\ \A k \in KeysTo(tip) : IsNewest(k, tip, new[k])
    <2>1. CASE commit_seq = 0
      <3>1. KeysTo(Built - 1) = {}
        <4>1. 0 .. Built - 1 = {}
          BY <2>1 DEF Built
        <4> QED BY <4>1 DEF KeysTo
      <3>2. new = MptBlocks /\ KeysTo(tip) = RoundKeys
        BY <1>3, <1>4, <2>1, <3>1
      <3> QED BY <1>2, <3>2
    <2>2. CASE commit_seq # 0
      <3>1. commit_seq - 1 \in DOMAIN commits /\ prev.tip_block \in Nat
        BY <1>1, <2>2 DEF IInv, TypeOK
      <3>2. prev.tip_block = Built - 1
        BY <2>2, <3>1 DEF Built
      <3>3. EntryMpt(prev)
        BY <3>1 DEF MptInv
      <3>4. /\ prev.mptroot = [k \in KeysTo(Built - 1) |-> prev.mptroot[k]]
            /\ \A k \in DOMAIN prev.mptroot : IsNewest(k, Built - 1, prev.mptroot[k])
        BY <3>2, <3>3 DEF EntryMpt
      <3>5. DOMAIN prev.mptroot = KeysTo(Built - 1)
        <4> HIDE DEF prev
        <4> QED BY <3>4
      <3>6. new = [k \in KeysTo(tip) |-> IF k \in RoundKeys THEN MptBlocks[k] ELSE prev.mptroot[k]]
        <4> HIDE DEF prev
        <4>1. new = Merge(MptBlocks, prev.mptroot)
          BY <1>4, <2>2
        <4>2. RoundKeys \cup DOMAIN prev.mptroot = KeysTo(tip)
          BY <1>3, <3>5
        <4> QED BY <1>2, <4>1, <4>2 DEF Merge
      <3>7. ASSUME NEW k \in KeysTo(tip) PROVE IsNewest(k, tip, new[k])
        <4>1. CASE k \in RoundKeys
          <5>1. new[k] = MptBlocks[k]
            BY <3>6, <4>1
          <5> QED BY <1>2, <4>1, <5>1
        <4>2. CASE k \notin RoundKeys
          <5>1. new[k] = prev.mptroot[k] /\ k \in DOMAIN prev.mptroot /\ k \in Keys
            BY <1>3, <3>5, <3>6, <4>2
          <5>2. IsNewest(k, Built - 1, prev.mptroot[k])
            BY <3>4, <5>1
          <5>3. IsNewest(k, tip, prev.mptroot[k])
            BY <4>2, <5>1, <5>2, NotInRound DEF tip
          <5> QED BY <5>1, <5>3
        <4> QED BY <4>1, <4>2
      <3>8. new = [k \in KeysTo(tip) |-> new[k]]
        BY <3>6
      <3> QED BY <3>7, <3>8
    <2> QED BY <2>1, <2>2
  <1>6. DOMAIN new = KeysTo(tip)
    BY <1>5
  <1>7. EntryMpt(NewCommit)
    BY <1>1, <1>5, <1>6 DEF EntryMpt, new
  <1>8. \A c \in DOMAIN commits' : EntryMpt(commits'[c])
    BY <1>1, <1>7 DEF MptInv
  <1>9. ASSUME NEW c \in DOMAIN commits' PROVE EntryMpt(commits[c])'
    <2>1. clue' = clue /\ ledger' = ledger
      BY <1>1
    <2>2. EntryMpt(commits'[c])
      BY <1>8
    <2> QED BY <2>1, <2>2, Zenon DEF EntryMpt, IsNewest, KeysTo
  <1> QED BY <1>9, Zenon DEF MptInv

\* Later blocks do not change which entry was the newest under a tip.
LEMMA MptFrame ==
    ASSUME restarts' = 0, IInv, CommitsInv, ClueInv, MptInv, [Next]_vars, UNCHANGED commits
    PROVE  MptInv'
  <1>1. /\ next_block_seq \in Nat
        /\ \A b \in 0 .. next_block_seq - 1 : ledger'[b] = ledger[b]
    BY BlocksStay
  <1>2. /\ \A k \in Keys : \A t \in DOMAIN clue[k] : t \in DOMAIN clue'[k] /\ clue'[k][t] = clue[k][t]
        /\ \A k \in Keys : \A t \in DOMAIN clue'[k] : t \in DOMAIN clue[k] \/ clue'[k][t] = next_block_seq
    <2>1. (\E ks \in SUBSET Keys, ts \in Timestamps : SetPut(ks, ts)) \/ UNCHANGED clue
      BY Zenon DEF Next, vars, store, SetPush, GetRootDigest, ProofDigest, ProofCommit, ProofRead,
             ProofReply, StartRound, TryPop, EndDrain, PutNode, PutCommit, PutDigest, Shutdown, Restart
    <2>2. ASSUME NEW ks \in SUBSET Keys, NEW ts \in Timestamps, SetPut(ks, ts)
          PROVE  /\ \A k \in Keys : \A t \in DOMAIN clue[k] : t \in DOMAIN clue'[k] /\ clue'[k][t] = clue[k][t]
                 /\ \A k \in Keys : \A t \in DOMAIN clue'[k] : t \in DOMAIN clue[k] \/ clue'[k][t] = next_block_seq
      <3>1. ASSUME NEW k \in Keys, NEW t \in DOMAIN clue[k] PROVE t \in DOMAIN clue'[k] /\ clue'[k][t] = clue[k][t]
        BY <2>2, SetPutClue
      <3>2. ASSUME NEW k \in Keys, NEW t \in DOMAIN clue'[k] PROVE t \in DOMAIN clue[k] \/ clue'[k][t] = next_block_seq
        BY <2>2, SetPutClue, ZenonT(40)
      <3> QED BY <3>1, <3>2
    <2>3. CASE UNCHANGED clue
      BY <2>3
    <2> QED BY <2>1, <2>2, <2>3
  <1>3. ASSUME NEW c \in DOMAIN commits PROVE EntryMpt(commits[c])'
    <2> DEFINE tip == commits[c].tip_block
               mpt == commits[c].mptroot
    <2>1. tip \in Nat /\ tip < next_block_seq
      BY DEF IInv, TypeOK, CommitsInv
    <2>2. EntryMpt(commits[c])
      BY DEF MptInv
    <2>3. /\ mpt = [k \in KeysTo(tip) |-> mpt[k]]
          /\ \A k \in DOMAIN mpt : IsNewest(k, tip, mpt[k])
      BY <2>2 DEF EntryMpt
    <2> HIDE DEF tip, mpt
    <2>4. \A b \in 0 .. tip : b \in 0 .. next_block_seq - 1
      BY <1>1, <2>1
    <2>5. KeysTo(tip) \subseteq Keys /\ UNION {ledger'[b] : b \in 0 .. tip} = KeysTo(tip)
      <3>1. \A b \in 0 .. tip : ledger[b] \in SUBSET Keys /\ ledger'[b] = ledger[b]
        BY <1>1, <2>4 DEF ClueInv
      <3> QED BY <3>1 DEF KeysTo
    <2>6. ASSUME NEW k \in DOMAIN mpt
          PROVE  /\ mpt[k] \in DOMAIN clue'[k] /\ clue'[k][mpt[k]] <= tip
                 /\ \A t \in DOMAIN clue'[k] : clue'[k][t] <= tip => clue'[k][t] <= clue'[k][mpt[k]]
      <3>1. /\ mpt[k] \in DOMAIN clue[k] /\ clue[k][mpt[k]] <= tip
            /\ \A t \in DOMAIN clue[k] : clue[k][t] <= tip => clue[k][t] <= clue[k][mpt[k]]
        BY <2>3 DEF IsNewest
      <3>2. k \in Keys
        BY <2>3, <2>5
      <3>3. mpt[k] \in DOMAIN clue'[k] /\ clue'[k][mpt[k]] = clue[k][mpt[k]]
        BY <1>2, <3>1, <3>2
      <3>4. ASSUME NEW t \in DOMAIN clue'[k], clue'[k][t] <= tip PROVE clue'[k][t] <= clue[k][mpt[k]]
        <4>1. clue'[k][t] # next_block_seq
          BY <1>1, <2>1, <3>4
        <4>2. t \in DOMAIN clue[k] /\ clue'[k][t] = clue[k][t]
          BY <1>2, <3>2, <4>1
        <4> QED BY <3>1, <3>4, <4>2
      <3> QED BY <3>1, <3>3, <3>4
    <2> QED BY <2>3, <2>5, <2>6, Zenon DEF EntryMpt, IsNewest, KeysTo, tip, mpt
  <1> QED BY <1>3 DEF MptInv

\* Every step keeps the ccMPT of each entry.
LEMMA NextMptInv ==
    ASSUME restarts' = 0, IInv, CommitsInv, ClueInv, MptInv, [Next]_vars
    PROVE  MptInv'
  <1>1. PutCommit \/ UNCHANGED commits
    BY Zenon DEF Next, vars, store, SetPut, SetPush, GetRootDigest, ProofDigest, ProofCommit, ProofRead,
           ProofReply, StartRound, TryPop, EndDrain, PutNode, PutDigest, Shutdown, Restart
  <1> QED BY <1>1, PutCommitMpt, MptFrame

\* No block, no clue and no entry at the start.
LEMMA InitMptInv == Init => ClueInv /\ MptInv
  <1> SUFFICES ASSUME Init PROVE ClueInv /\ MptInv
    OBVIOUS
  <1>1. /\ next_block_seq = 0 /\ batch = <<>> /\ tree_queue = <<>> /\ spc = "idle"
        /\ DOMAIN commits = {} /\ \A k \in Keys : DOMAIN clue[k] = {}
    BY DEF Init
  <1>2. 0 .. next_block_seq - 1 = {} /\ DOMAIN batch = {} /\ DOMAIN tree_queue = {}
    BY <1>1
  <1> QED BY <1>1, <1>2 DEF ClueInv, MptInv

\* The entry that IsNewest describes is the one NewestEntry chooses.
LEMMA NewestUnique ==
    ASSUME ClueInv, NEW k \in Keys, NEW tip, NEW ts, IsNewest(k, tip, ts)
    PROVE  NewestEntry(k, tip) = ts
  <1>1. ASSUME NEW u \in DOMAIN clue[k], IsNewest(k, tip, u) PROVE u = ts
    <2>1. /\ ts \in DOMAIN clue[k] /\ clue[k][ts] <= tip /\ clue[k][u] <= tip
          /\ clue[k][u] <= clue[k][ts] /\ clue[k][ts] <= clue[k][u]
      BY <1>1 DEF IsNewest
    <2>2. clue[k][ts] \in 0 .. next_block_seq - 1 /\ clue[k][u] \in 0 .. next_block_seq - 1
      BY <2>1 DEF ClueInv
    <2>3. clue[k][u] = clue[k][ts]
      BY <2>1, <2>2
    <2> QED BY <2>1, <2>3 DEF ClueInv
  <1>2. ts \in DOMAIN clue[k]
    BY DEF IsNewest
  <1>3. (CHOOSE u \in DOMAIN clue[k] : IsNewest(k, tip, u)) = ts
    BY <1>1, <1>2
  <1>4. ASSUME NEW u \in DOMAIN clue[k]
        PROVE  IsNewest(k, tip, u) <=> /\ clue[k][u] <= tip
                                       /\ \A t \in DOMAIN clue[k] : clue[k][t] <= tip => clue[k][t] <= clue[k][u]
    BY DEF IsNewest
  <1> QED BY <1>3, <1>4 DEF NewestEntry
=============================================================================

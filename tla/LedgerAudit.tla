----------------------------- MODULE LedgerAudit -----------------------------
(***************************************************************************)
(* Auditing LedgerDB: GetAudit collects what a client needs to check one   *)
(* commit, and Auditor::Audit checks it (ledgerdb.cc).  Both are functions *)
(* of the store.  Entries up to the digest's commit never change, so the   *)
(* order in which GetAudit reads them does not matter.                     *)
(***************************************************************************)
EXTENDS LedgerDB

\* db_.Get of a commit entry: the empty string when there is none.
CommitText(i) == IF i \in DOMAIN commits THEN commits[i] ELSE Missing

FirstBlock(seq) == IF seq > 0 THEN commits[seq - 1].tip_block + 1 ELSE 0

\* Mutant: the entries up to the digest's commit.
Entries_byCommit(seq) == [i \in seq .. digest.commit_seq |-> CommitText(i)]

\* The entries GetAudit collects: from seq up to the number of the tip block.
Entries(seq) == [i \in seq .. digest.tip_block |-> CommitText(i)]

\* GetAudit.  CommitInfo cannot parse the empty string: std::stoul throws.
GetAudit(seq) ==
    IF seq \notin DOMAIN commits THEN [throws |-> TRUE]
    ELSE [throws |-> FALSE, digest |-> digest.digest, commits |-> Entries(seq),
          commit_seq |-> seq, first_block_seq |-> FirstBlock(seq),
          blocks |-> [i \in 1 .. commits[seq].tip_block - FirstBlock(seq) + 1 |->
                        ledger[FirstBlock(seq) + i - 1]]]

\* The first loop of Audit, from the newest entry down.
AuditChain(a) ==
    /\ \A i \in DOMAIN a.commits : a.commits[i] # Missing
    /\ \A i \in DOMAIN a.commits :
          HashCommit(a.commits[i]) =
              IF i + 1 \in DOMAIN a.commits THEN a.commits[i + 1].prev_digest ELSE a.digest

\* The root the audited blocks give on top of the nodes the auditor has.
AuditRoot(a, nodes) ==
    Update(nodes, a.first_block_seq, [i \in DOMAIN a.blocks |-> HashBlock(a.blocks[i])],
           a.commit_seq).root_hash

\* Audit.  The ccMPT proofs are checked against the hash of the root's text,
\* which no proof folds to, and only ever turn a failure into a success.
Audit(a, nodes) ==
    AuditChain(a) /\ AuditRoot(a, nodes) = a.commits[a.commit_seq].mtroot

-----------------------------------------------------------------------------
\* What an audit of an honest server says.  ShardClient::AuditCallback audits
\* the numbers up to the tip block.  The server survives the request for those
\* that are commits; of them the audit accepts the last one, and that one only
\* while every commit so far covers a single block (ledgerdb.cc:293 walks commit
\* entries up to a block number), even for an auditor that has every node.
AuditAcceptsLatestOnly ==
    (digest # NoDigest /\ restarts = 0) =>
        \A seq \in 0 .. digest.tip_block :
            LET a == GetAudit(seq)
            IN  /\ a.throws <=> seq \notin DOMAIN commits
                /\ ~a.throws =>
                     (Audit(a, mt) <=>
                         seq = digest.commit_seq /\ digest.tip_block = digest.commit_seq)
=============================================================================

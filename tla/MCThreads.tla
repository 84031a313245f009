------------------------------ MODULE MCThreads ------------------------------
(***************************************************************************)
(* Parts with threads, event loops and timers of their own, checked side   *)
(* by side: SQL Ledger with its build thread, the TCP transport under a    *)
(* client and a server, the timestamp server, and the client that verifies *)
(* deferred over LedgerDB.  Each behaviour runs one of them, and the       *)
(* others stay as they were made.                                          *)
(***************************************************************************)
EXTENDS Integers

CONSTANTS
    WriteSets, MaxSets,                                          \* SQL Ledger
    MaxInvoke, MaxBreaks, MaxEarly,                              \* the transport
    TClients, MaxPrepares, MaxMishaps,                           \* the timestamp server
    VKeys, VTxns, VRanges, MaxTxns, MaxRounds, MaxTimeouts       \* deferred verification

VARIABLES
    part,          \* the part this behaviour runs
    block_seq, tid, buffer, mtnodes, sql_txns, blks, digest, hist, indexed, wal, walEnd, walIdx,
    setter, builder, sql_tip_block, auditSeq, down,
    conns, outgoing, srvOutgoing, srvAddresses, pending, timers, invoked, breaks, early,
    ts, table, thread, scheduled, lastReqId, pend, toTss, fromTss, replica_reply, used, floor,
    mishaps, spurious,
    next, built, lastBlock, skiplist_head, up, toServer, toClient, tip_block, waiting,
    blockingBegin, verifyPromise, pendingReqs, uid, tpc, keys, txns, verifymap, vpc, round, todo,
    promises, rounds, timeouts, reported, asked, late

sql == INSTANCE SQLLedger WITH txns <- sql_txns, tip_block <- sql_tip_block
transport == INSTANCE Transport
tss == INSTANCE TimeServer WITH tpc <- thread
verify == INSTANCE VerifyClient

sqlVars == <<block_seq, tid, buffer, mtnodes, sql_txns, blks, digest, hist, indexed, wal, walEnd,
             walIdx, setter, builder, sql_tip_block, auditSeq, down>>
tpVars == <<conns, outgoing, srvOutgoing, srvAddresses, pending, timers, invoked, breaks, early>>
tsVars == <<ts, table, thread, scheduled, lastReqId, pend, toTss, fromTss, replica_reply, used,
            floor, mishaps, spurious>>
vcVars == <<next, built, lastBlock, skiplist_head, up, toServer, toClient, tip_block, waiting,
            blockingBegin, verifyPromise, pendingReqs, uid, tpc, keys, txns, verifymap, vpc, round,
            todo, promises, rounds, timeouts, reported, asked, late>>
vars == <<part, sqlVars, tpVars, tsVars, vcVars>>

\* Transactions that report a key never written, one of two keys written, and
\* the other of those keys later.
Txns == {[reads |-> {1}, writes |-> {}], [reads |-> {}, writes |-> {1, 2}],
         [reads |-> {2}, writes |-> {1}]}
Ranges == {<<1, 2>>}

Init ==
    /\ part \in {"sql", "transport", "timestamps", "verification"}
    /\ sql!SQLInit /\ transport!TPInit /\ tss!TSInit /\ verify!VCInit

SQLOnly == part = "sql" /\ UNCHANGED <<part, tpVars, tsVars, vcVars>>
TPOnly == part = "transport" /\ UNCHANGED <<part, sqlVars, tsVars, vcVars>>
TSOnly == part = "timestamps" /\ UNCHANGED <<part, sqlVars, tpVars, vcVars>>
VCOnly == part = "verification" /\ UNCHANGED <<part, sqlVars, tpVars, tsVars>>

UpdateLedger == SQLOnly /\ sql!BuildThread

Next ==
    \/ UpdateLedger
    \/ SQLOnly /\ sql!ServerThread
    \/ TPOnly /\ transport!TPNext
    \/ TSOnly /\ tss!TSNext
    \/ VCOnly /\ verify!VCNext

\* The event loops, timers, threads and servers keep running, as each module says.
Progress ==
    \/ TPOnly /\ transport!TPProgress
    \/ TSOnly /\ tss!TSProgress
    \/ VCOnly /\ verify!VCProgress

\* updateLedger loops for ever.
Spec == Init /\ [][Next]_vars /\ WF_builder(UpdateLedger) /\ WF_vars(Progress)

-----------------------------------------------------------------------------
(* Properties *)

\* A document in the history of a block under the digest is proved by the stored
\* trees and the chain of blocks (sqlledger.cc:97-104 against 33-72).
HistoryIsProvable == sql!HistoryIsProvable

\* The block and transaction proofs of a reply verify against the digest of that
\* reply although updateLedger may run in between (versionstore.cc:272-283).
ReplyProofsVerify == sql!ReplyProofsVerify

\* The log ranges of the blocks have no gap, and a log entry is in the range of
\* its block or of the next (sqlledger.cc:104 and 116-122 against 38).
LogRangesFollowBlocks == sql!LogRangesFollowBlocks

\* An audit finds its block and a chain from it to the digest (sqlledger.cc:38 and
\* 71), but never rebuilds the root of the block, for the log names each
\* transaction tid_ - 1 (sqlledger.cc:116).
AuditFindsChainOnly == sql!AuditFindsChainOnly

\* Once Sets stop coming, every transaction ends in a block under the digest, also
\* one buffered while updateLedger was building (sqlledger.cc:21-72).
BufferedIsSealed ==
    <>[](down \/ \A n \in 0 .. tid - 1 : n \in DOMAIN sql_txns /\ sql_txns[n].blk <= digest.blk)

\* However the bytes of a connection arrive, its reader finds whole messages
\* (tcptransport.cc:543).
FramesIntact == transport!FramesIntact

\* A reply is written to the connection its request was read from, though the
\* server's tables keep entries of freed connections (tcptransport.cc:298, 582),
\* and the client never writes to a bufferevent it has freed (tcptransport.cc:620).
WritesReachPeer == transport!WritesReachPeer

\* Each pending request has exactly one timer and no timer outlives its request
\* (transport.cc:51, vr/client.cc:134).
TimersMatchRequests == transport!TimersMatchRequests

\* Once no new ones come, every request is answered or given up, in spite of the
\* connections that broke under it (vr/client.cc:158).
RequestsEnd == <>[](DOMAIN pending = {})

\* No two clients prepare with the same timestamp, although waits may return too
\* early and use an older reply (client.cc:259), and a client never woken too
\* early prepares with a larger one than any in use before it asked
\* (vr/client.cc:127).
TimestampsOrdered == tss!TimestampsOrdered

\* Once no new ones come, every Prepare has its timestamp or its process ended: no
\* notification is lost, and a request lost with its connection is sent again
\* (client.cc:251 and 547).
PrepareGetsTimestamp == <>[](\A c \in TClients : thread[c] \in {"idle", "ended"})

\* No key a commit reports is forgotten before its proof was asked for, while no
\* proof request times out, except one that joins a block of the round under way
\* (verifyClient.cc:155).
KeysAccountedFor == verify!KeysAccountedFor

\* A proof request names a block under the server's digest, or block 0
\* (shardclient.cc:122).
ProofFindsBlock == verify!ProofFindsBlock

\* No round of verification is left open in the end, unless one of its
\* requests times out, whose promise nobody answers then (shardclient.cc:630), or
\* the server dies of a request for block 0 without a digest (ledgerdb.cc:259) or
\* of a range over a key never written (ledgerdb.cc:181).
VerifyRoundEnds == <>[](vpc = "sleep" \/ timeouts > 0 \/ ~up)
==============================================================================

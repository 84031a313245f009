---------------------------- MODULE VerifyClient ----------------------------
(***************************************************************************)
(* Deferred verification with LedgerDB (exes/verifyClient.cc and, for      *)
(* ranges, rangeClient.cc): a transaction thread and a verification thread *)
(* share one client and verifymap, the keys not yet verified by block.     *)
(* The client's promises, its unlogged requests and their timeouts are     *)
(* those of client.cc, shardclient.cc and vr/client.cc, for one shard of   *)
(* one replica.                                                            *)
(*                                                                         *)
(* The server is reduced to what its replies tell: `next` blocks are set,  *)
(* the digest covers `built` of them, lastBlock[k] is the block of k, and  *)
(* skiplist_head the keys it has met.  The prepare phase, which reports no *)
(* keys, is StrongStore's.                                                 *)
(***************************************************************************)
EXTENDS Integers, Sequences

CONSTANTS
    VKeys,         \* the keys of the shard
    VTxns,         \* the transactions, records of keys read and keys written
    VRanges,       \* the ranges asked for, pairs of keys
    MaxTxns,       \* bound on the transactions
    MaxRounds,     \* bound on the verification rounds
    MaxTimeouts    \* bound on the unlogged requests that time out

VARIABLES
    next, built, lastBlock, skiplist_head, up,   \* the server
    toServer, toClient,              \* the connection, first in first out
    tip_block,                       \* ShardClient::tip_block
    waiting, blockingBegin,          \* the promise slots of the transaction
    verifyPromise,                   \* the uids with a promise in the map
    pendingReqs,                     \* the uids, and the ranges, whose reply VRClient expects
    uid,
    tpc, keys, txns,                 \* the transaction thread
    verifymap,                       \* set of <<block, key>>
    vpc, round, todo, promises,      \* the verification thread
    rounds, timeouts,
    reported, asked, late            \* history of the pairs <<block, key>>

serverVars == <<next, built, lastBlock, skiplist_head, up>>
txnVars == <<waiting, blockingBegin, tpc, keys, txns>>
proofVars == <<verifyPromise, pendingReqs, uid, timeouts>>
verifyVars == <<vpc, round, todo, promises, rounds>>
vcVars == <<serverVars, toServer, toClient, tip_block, txnVars, proofVars, verifymap,
            verifyVars, reported, asked, late>>

NoBlock == -1

VCInit ==
    /\ next = 0 /\ built = 0 /\ lastBlock = [k \in VKeys |-> NoBlock] /\ up = TRUE
    /\ skiplist_head = {}
    /\ toServer = <<>> /\ toClient = <<>> /\ tip_block = 0
    /\ waiting = FALSE /\ blockingBegin = TRUE /\ tpc = "begin" /\ keys = {} /\ txns = 0
    /\ verifyPromise = {} /\ pendingReqs = {} /\ uid = 0 /\ timeouts = 0
    /\ verifymap = {}
    /\ vpc = "sleep" /\ round = {} /\ todo = {} /\ promises = {} /\ rounds = 0
    /\ reported = {} /\ asked = {} /\ late = {}

Blocks(pairs) == {p[1] : p \in pairs}
KeysOf(pairs, b) == {p \in pairs : p[1] = b}

-----------------------------------------------------------------------------
(* txnThread *)

\* Begin waits for the answer to the last commit; reads and writes are buffered;
\* Commit sends them and waits on its promise.
Commit(t) ==
    /\ tpc = "begin" /\ blockingBegin
    /\ txns < MaxTxns
    /\ txns' = txns + 1
    /\ tpc' = "commit" /\ waiting' = TRUE /\ blockingBegin' = FALSE /\ keys' = {}
    /\ toServer' = Append(toServer, [op |-> "COMMIT", reads |-> t.reads, writes |-> t.writes])
    /\ UNCHANGED <<serverVars, toClient, tip_block, proofVars, verifymap, verifyVars,
                   reported, asked, late>>

\* GetRange sends an unlogged request and waits on its promise.  Its id is the
\* number of the transaction, negated; uids are those of proof requests.
GetRange(r) ==
    /\ tpc = "begin" /\ blockingBegin
    /\ txns < MaxTxns
    /\ txns' = txns + 1
    /\ tpc' = "range" /\ waiting' = TRUE /\ keys' = {}
    /\ pendingReqs' = pendingReqs \cup {-txns'}
    /\ toServer' = Append(toServer, [op |-> "RANGE", id |-> -txns', from |-> r[1], to |-> r[2]])
    /\ UNCHANGED <<serverVars, toClient, tip_block, blockingBegin, verifyPromise, uid, timeouts, verifymap,
                   verifyVars, reported, asked, late>>

\* The keys of the commit or range go into verifymap under the unique lock.
MergeKeys ==
    /\ tpc = "merge"
    /\ verifymap' = verifymap \cup keys
    /\ late' = late \cup {p \in keys : vpc # "sleep" /\ p[1] \in Blocks(round) /\ p \notin round}
    /\ tpc' = "begin" /\ keys' = {}
    /\ UNCHANGED <<serverVars, toServer, toClient, tip_block, waiting, blockingBegin, txns,
                   proofVars, verifyVars, reported, asked>>

-----------------------------------------------------------------------------
(* verifyThread and Client::Verify *)

\* The copy of verifymap under the shared lock; an empty map is skipped.
Snapshot ==
    /\ vpc = "sleep" /\ verifymap # {}
    /\ rounds < MaxRounds
    /\ rounds' = rounds + 1
    /\ vpc' = "ask"
    /\ round' = verifymap /\ todo' = Blocks(verifymap) /\ promises' = {}
    /\ UNCHANGED <<serverVars, toServer, toClient, tip_block, txnVars, proofVars, verifymap,
                   reported, asked, late>>

\* Mutant: every block is asked for, whatever the client knows of the digest.
Verifiable_always(b) == TRUE

\* GetProof's test: the block is under the last digest the client has seen.
Verifiable(b) == b <= tip_block

\* Mutant: a block that cannot be verified yet stays in the map of the round.
Unverifiable_kept(b) == round' = round /\ todo' = {}

\* GetProof returned false: this block and the later ones leave the map of the
\* round, and stay in verifymap.
Unverifiable(b) == round' = {p \in round : p[1] < b} /\ todo' = {}

\* The blocks are asked for in ascending order, the request and its promise
\* handed to the transport together.
AskProof ==
    /\ vpc = "ask" /\ todo # {}
    /\ LET b == CHOOSE m \in todo : \A n \in todo : m <= n
       IN  IF Verifiable(b)
             THEN /\ toServer' = Append(toServer, [op |-> "VERIFY_GET", uid |-> uid, block |-> b])
                  /\ verifyPromise' = verifyPromise \cup {uid}
                  /\ pendingReqs' = pendingReqs \cup {uid}
                  /\ promises' = promises \cup {uid}
                  /\ uid' = uid + 1
                  /\ todo' = todo \ {b}
                  /\ asked' = asked \cup KeysOf(round, b)
                  /\ UNCHANGED round
             ELSE Unverifiable(b) /\ UNCHANGED <<toServer, verifyPromise, pendingReqs, promises, uid, asked>>
    /\ UNCHANGED <<serverVars, toClient, tip_block, txnVars, timeouts, verifymap, vpc, rounds,
                   reported, late>>

\* Every promise has its reply; the blocks of the round are erased.
EraseVerified ==
    /\ vpc = "ask" /\ todo = {}
    /\ promises = {}
    /\ verifymap' = {p \in verifymap : p[1] \notin Blocks(round)}
    /\ vpc' = "sleep" /\ round' = {}
    /\ UNCHANGED <<serverVars, toServer, toClient, tip_block, txnVars, proofVars, todo, promises,
                   rounds, reported, asked, late>>

-----------------------------------------------------------------------------
(* The server *)

Request(op) == up /\ toServer # <<>> /\ Head(toServer).op = op

\* GetRootDigest: 0 when there is no digest.
Tip == IF built = 0 THEN 0 ELSE built - 1

\* VersionedKVStore::put fills a single entry of the reply for all the keys
\* written, so the last of them is the one reported.
PutReported(writes, last) == {<<next, k>> : k \in writes \cap {last}}

\* GetValues reports block 0 for a key never written.
BlockOf(k) == IF lastBlock[k] = NoBlock THEN 0 ELSE lastBlock[k]

\* OCCStore::Commit: the keys read with their block, for which GetValues makes an
\* entry in skiplist_head_, then Set, which makes a block of the keys written.
ServeCommit(last) ==
    /\ Request("COMMIT")
    /\ LET r == Head(toServer)
       IN  /\ r.writes # {} => last \in r.writes
           /\ toClient' = Append(toClient,
                  [op |-> "COMMIT", tip |-> Tip,
                   keys |-> {<<BlockOf(k), k>> : k \in r.reads} \cup PutReported(r.writes, last)])
           /\ lastBlock' = [k \in VKeys |-> IF k \in r.writes THEN next ELSE lastBlock[k]]
           /\ next' = IF r.writes = {} THEN next ELSE next + 1
           /\ skiplist_head' = skiplist_head \cup r.reads \cup r.writes
    /\ toServer' = Tail(toServer)
    /\ UNCHANGED <<built, up, tip_block, txnVars, proofVars, verifymap, verifyVars,
                   reported, asked, late>>

\* LedgerDB::GetRange walks skiplist_head_; for a key that was read but never
\* written there is no node to parse, which throws and ends the process.
ServeRange ==
    /\ Request("RANGE")
    /\ LET r == Head(toServer)
           ks == {k \in skiplist_head : r.from <= k /\ k <= r.to}
       IN  /\ up' = (\A k \in ks : lastBlock[k] # NoBlock)
           /\ toClient' = IF up' THEN Append(toClient, [op |-> "RANGE", id |-> r.id, tip |-> Tip,
                                                        keys |-> {<<lastBlock[k], k>> : k \in ks}])
                          ELSE toClient
    /\ toServer' = Tail(toServer)
    /\ UNCHANGED <<next, built, lastBlock, skiplist_head, tip_block, txnVars, proofVars, verifymap,
                   verifyVars, reported, asked, late>>

\* The digest sent with the proof of block b: the tip of the commit it is for.
ProofTip(b) == Tip

\* GetProofs: without a digest DigestInfo throws and the process terminates.
ServeProof ==
    /\ Request("VERIFY_GET")
    /\ up' = (built > 0)
    /\ toClient' = IF up' THEN Append(toClient, [op |-> "VERIFY_GET", uid |-> Head(toServer).uid,
                                                 tip |-> ProofTip(Head(toServer).block)])
                   ELSE toClient
    /\ toServer' = Tail(toServer)
    /\ UNCHANGED <<next, built, lastBlock, skiplist_head, tip_block, txnVars, proofVars, verifymap, verifyVars,
                   reported, asked, late>>

\* The build thread puts the blocks queued so far under a new digest.
BuildTree(n) ==
    /\ up /\ n \in built + 1 .. next
    /\ built' = n
    /\ UNCHANGED <<next, lastBlock, skiplist_head, up, toServer, toClient, tip_block, txnVars, proofVars,
                   verifymap, verifyVars, reported, asked, late>>

-----------------------------------------------------------------------------
(* The callbacks, on the transport thread *)

Answer(op) == toClient # <<>> /\ Head(toClient).op = op

\* CommitCallback: Begin may go on; the promise, if GetTimeout has left it in
\* its slot, gets the keys.
CommitCallback ==
    /\ Answer("COMMIT")
    /\ toClient' = Tail(toClient)
    /\ blockingBegin' = TRUE
    /\ waiting' = FALSE
    /\ IF waiting THEN /\ tip_block' = Head(toClient).tip
                       /\ keys' = Head(toClient).keys
                       /\ tpc' = "merge"
                  ELSE UNCHANGED <<tip_block, keys, tpc>>
    /\ reported' = reported \cup Head(toClient).keys
    /\ UNCHANGED <<serverVars, toServer, txns, proofVars, verifymap, verifyVars, asked, late>>

\* GetRangeCallback, of a request that is still pending: whatever promise is in
\* the slot gets the keys.
GetRangeCallback ==
    /\ Answer("RANGE")
    /\ toClient' = Tail(toClient)
    /\ pendingReqs' = pendingReqs \ {Head(toClient).id}
    /\ IF waiting /\ Head(toClient).id \in pendingReqs
         THEN /\ tip_block' = Head(toClient).tip
              /\ keys' = Head(toClient).keys
              /\ reported' = reported \cup keys'
              /\ waiting' = FALSE
              /\ tpc' = "merge"
         ELSE UNCHANGED <<tip_block, keys, reported, waiting, tpc>>
    /\ UNCHANGED <<serverVars, toServer, blockingBegin, txns, verifyPromise, uid, timeouts, verifymap,
                   verifyVars, asked, late>>

\* Mutant: the callback looks for the promise of the transaction.
HasPromise_waiting(u) == waiting

HasPromise(u) == u \in verifyPromise

\* HandleUnloggedReply drops the reply of a request that timed out;
\* GetProofCallback answers the promise of the request.
GetProofCallback ==
    /\ Answer("VERIFY_GET")
    /\ toClient' = Tail(toClient)
    /\ LET u == Head(toClient).uid
       IN  IF u \in pendingReqs /\ HasPromise(u)
             THEN /\ tip_block' = Head(toClient).tip
                  /\ verifyPromise' = verifyPromise \ {u}
                  /\ pendingReqs' = pendingReqs \ {u}
                  /\ promises' = promises \ {u}
             ELSE pendingReqs' = pendingReqs \ {u} /\ UNCHANGED <<tip_block, verifyPromise, promises>>
    /\ UNCHANGED <<serverVars, toServer, txnVars, uid, timeouts, verifymap, vpc, round, todo, rounds,
                   reported, asked, late>>

\* UnloggedRequestTimeoutCallback forgets the request and calls GetTimeout,
\* which answers the promise in the waiting slot and not the request's own.
GetTimeout(u) ==
    /\ u \in pendingReqs
    /\ timeouts < MaxTimeouts
    /\ timeouts' = timeouts + 1
    /\ pendingReqs' = pendingReqs \ {u}
    /\ waiting' = FALSE
    /\ tpc' = IF waiting THEN "merge" ELSE tpc
    /\ UNCHANGED <<serverVars, toServer, toClient, tip_block, blockingBegin, keys, txns,
                   verifyPromise, uid, verifymap, verifyVars, reported, asked, late>>

TxnThread == (\E t \in VTxns : Commit(t)) \/ (\E r \in VRanges : GetRange(r)) \/ MergeKeys
VerifyThread == AskProof \/ EraseVerified
Server == (\E k \in VKeys : ServeCommit(k)) \/ ServeRange \/ ServeProof
Callbacks == CommitCallback \/ GetRangeCallback \/ GetProofCallback

VCNext ==
    \/ TxnThread
    \/ Snapshot
    \/ VerifyThread
    \/ Server
    \/ \E n \in 1 .. next : BuildTree(n)
    \/ Callbacks
    \/ \E u \in pendingReqs : GetTimeout(u)

\* The verification thread, the server and the transport thread keep running.
\* Each has a bounded number of steps, so it is enough that they do not all stop.
VCProgress == VerifyThread \/ Server \/ Callbacks

VCSpec == VCInit /\ [][VCNext]_vcVars /\ WF_vcVars(VCProgress)

-----------------------------------------------------------------------------
(* Properties *)

\* No key a commit reports is forgotten before its proof was asked for, while
\* no proof request times out, except one that joins a block of the round
\* under way: verifyThread erases that block with it (verifyClient.cc:155).
KeysAccountedFor ==
    timeouts = 0 => reported \subseteq verifymap \cup keys \cup asked \cup late

\* A proof request on its way names a block under the server's digest, so that
\* getProof finds its nodes, or block 0, which an unset tip_block also lets
\* through (shardclient.cc:122).
ProofFindsBlock ==
    \A i \in DOMAIN toServer :
        toServer[i].op = "VERIFY_GET" => toServer[i].block < built \/ toServer[i].block = 0

\* No round of verification is left open in the end, unless one of its
\* requests times out, whose promise nobody answers then, or the server dies of a
\* request for block 0 without a digest or of a range over a key never written.
VerifyRoundEnds == <>[](vpc = "sleep" \/ timeouts > 0 \/ ~up)
=============================================================================

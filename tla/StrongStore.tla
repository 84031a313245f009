----------------------------- MODULE StrongStore -----------------------------
(***************************************************************************)
(* The distributed layer: clients run two-phase commit over the shards     *)
(* (distributed/store/strongstore/client.cc and shardclient.cc); each      *)
(* shard is one VR leader (replication/vr/replica.cc) in front of an       *)
(* OCCStore (exes/strong-server.cc).                                       *)
(*                                                                         *)
(* A client has two threads: the transaction thread, which schedules       *)
(* requests and waits on promises, and the transport thread, which sends   *)
(* them and runs the callbacks.  A connection keeps the order of what it   *)
(* carries; when it breaks that is lost, or still read late by the server. *)
(* The transport resends a request until it has an answer.                 *)
(***************************************************************************)
EXTENDS OCCStore, FiniteSets

CONSTANTS
    Clients, Shards, Keys,
    ShardOf,        \* key -> shard, the client's key_to_shard
    Workload,       \* the transactions clients run, [reads, writes] of keys
    StoredProcedure,\* the servers execute a transaction's reads in its Commit
    MaxTxns,        \* bound on the transactions of one client
    COMMIT_RETRIES, \* Prepare rounds before a client gives up
    MaxTimeouts,    \* bound on proof requests, and reads not lost, that time out
    MaxLosses,      \* bound on broken connections
    MaxDups         \* bound on requests resent though they, or the reply, are on their way

ASSUME StrongAssumption ==
    /\ ShardOf \in [Keys -> Shards]
    /\ StoredProcedure \in BOOLEAN
    /\ MaxTxns \in Nat /\ COMMIT_RETRIES \in Nat \ {0}
    /\ MaxTimeouts \in Nat /\ MaxLosses \in Nat /\ MaxDups \in Nat
    /\ \A w \in Workload : /\ w \in [reads : SUBSET Keys, writes : SUBSET Keys]
                          /\ w.reads \cup w.writes # {}

VARIABLES
    \* the transaction thread of a client
    cpc, txn, ntxns, attempts, participants,
    unread,         \* the shards BatchGet has yet to read
    readStatus,     \* the status it will return
    \* ShardClient, one per client and shard
    outbox,         \* what Timer(0) will send
    waiting,        \* the slot holds the promise of the current request
    promise,        \* its answer
    blockingBegin,
    sent,           \* the requests invoked, indexed by request id
    pendingReqs,    \* the ids that have no answer yet
    \* the network
    requests, replies,  \* what the connection carries, in order
    old,                \* what the server has yet to read of a broken one
    losses, dups, timeouts,
    \* the servers
    store, clientTable,
    \* history
    decided,        \* transaction -> what its client decided, and for which shards
    before          \* transaction -> those committed when it began

client == <<cpc, txn, ntxns, attempts, participants, unread, readStatus>>
shardclient == <<outbox, waiting, promise, blockingBegin, sent, pendingReqs>>
network == <<requests, replies, old, losses, dups, timeouts>>
servers == <<store, clientTable>>
history == <<decided, before>>
vars == <<client, shardclient, network, servers, history>>

REPLY_TIMEOUT == "TIMEOUT"
NoTxn == [reads |-> {}, writes |-> {}, seen |-> <<>>]

\* Begin gives each transaction of a client its own id.
TxnId(c) == <<c, ntxns[c]>>
TxnIds == Clients \X (1 .. MaxTxns)

\* The part of a transaction that concerns shard s: BufferClient's read and
\* write set, and what the client has read there.
Local(t, s) == [reads |-> {k \in t.reads : ShardOf[k] = s},
                writes |-> {k \in t.writes : ShardOf[k] = s},
                seen |-> [k \in {k \in DOMAIN t.seen : ShardOf[k] = s} |-> t.seen[k]]]

Init ==
    /\ cpc = [c \in Clients |-> "idle"]
    /\ txn = [c \in Clients |-> NoTxn]
    /\ ntxns = [c \in Clients |-> 0]
    /\ attempts = [c \in Clients |-> 0]
    /\ participants = [c \in Clients |-> {}]
    /\ unread = [c \in Clients |-> {}]
    /\ readStatus = [c \in Clients |-> REPLY_OK]
    /\ outbox = [c \in Clients |-> [s \in Shards |-> None]]
    /\ waiting = [c \in Clients |-> [s \in Shards |-> FALSE]]
    /\ promise = [c \in Clients |-> [s \in Shards |-> None]]
    /\ blockingBegin = [c \in Clients |-> [s \in Shards |-> None]]
    /\ sent = [c \in Clients |-> [s \in Shards |-> <<>>]]
    /\ pendingReqs = [c \in Clients |-> [s \in Shards |-> {}]]
    /\ requests = [c \in Clients |-> [s \in Shards |-> <<>>]]
    /\ replies = [c \in Clients |-> [s \in Shards |-> <<>>]]
    /\ old = [c \in Clients |-> [s \in Shards |-> <<>>]]
    /\ losses = 0 /\ dups = 0 /\ timeouts = 0
    /\ store = [s \in Shards |-> Empty]
    /\ clientTable = [s \in Shards |-> [c \in Clients |-> [lastReqId |-> 0, reply |-> None]]]
    /\ decided = EmptyMap /\ before = EmptyMap

-----------------------------------------------------------------------------
(* The transaction thread *)

\* The transactions whose Commit has returned true.
Returned ==
    {t \in DOMAIN decided : decided[t].outcome = "commit" /\ ~(t = TxnId(t[1]) /\ cpc[t[1]] = "commit")}

\* Mutant: Begin does not wait for the last commit or abort.
BeginMayReturn_atOnce(c) == TRUE

\* ShardClient::Begin has waited for blockingBegin at every shard.
BeginMayReturn(c) == \A s \in Shards : blockingBegin[c][s] # "pending"

\* Begin waits for the answer to the last commit or abort at every shard; the
\* reads and writes that follow fill the read and write sets.
Begin(c, w) ==
    /\ cpc[c] = "idle"
    /\ ntxns[c] < MaxTxns
    /\ BeginMayReturn(c)
    /\ blockingBegin' = [blockingBegin EXCEPT ![c] = [s \in Shards |-> None]]
    /\ ntxns' = [ntxns EXCEPT ![c] = @ + 1]
    /\ txn' = [txn EXCEPT ![c] = [reads |-> w.reads, writes |-> w.writes, seen |-> <<>>]]
    /\ participants' = [participants EXCEPT ![c] = {ShardOf[k] : k \in w.reads \cup w.writes}]
    /\ unread' = [unread EXCEPT ![c] = IF StoredProcedure THEN {} ELSE {ShardOf[k] : k \in w.reads}]
    /\ readStatus' = [readStatus EXCEPT ![c] = REPLY_OK]
    /\ attempts' = [attempts EXCEPT ![c] = 0]
    /\ cpc' = [cpc EXCEPT ![c] = "execute"]
    /\ before' = With(before, <<c, ntxns[c] + 1>>, Returned)
    /\ UNCHANGED <<outbox, waiting, promise, sent, pendingReqs, network, servers, decided>>

NewPromises(c) ==
    promise' = [promise EXCEPT ![c] = [s \in Shards |-> None]]

\* Without stored procedures the client reads before it commits: one unlogged
\* request to each shard in turn, each with a promise that it waits for.
ClientBatchGet(c, s) ==
    /\ cpc[c] = "execute"
    /\ s \in unread[c]
    /\ outbox' = [outbox EXCEPT ![c][s] = "BATCH_GET"]
    /\ NewPromises(c)
    /\ unread' = [unread EXCEPT ![c] = @ \ {s}]
    /\ cpc' = [cpc EXCEPT ![c] = "read"]
    /\ UNCHANGED <<txn, ntxns, attempts, participants, readStatus, waiting, blockingBegin, sent,
                   pendingReqs, network, servers, history>>

\* BatchGet goes on to the next shard whatever the answer was.
ReadReturns(c) ==
    /\ cpc[c] = "read"
    /\ \E s \in Shards :
        /\ promise[c][s] # None
        /\ readStatus' = [readStatus EXCEPT ![c] = IF promise[c][s] = REPLY_OK THEN @ ELSE promise[c][s]]
    /\ cpc' = [cpc EXCEPT ![c] = "execute"]
    /\ UNCHANGED <<txn, ntxns, attempts, participants, unread, shardclient, network, servers, history>>

\* The transaction has every value it asked for.
HasValues(c) == txn[c].reads \subseteq DOMAIN txn[c].seen

\* A transaction that only reads (GetBalance) ends without a Commit.  A missing
\* value makes stoul throw, which ends the process; only GetBalance looks at the
\* status first, and gives up.
EndReads(c) ==
    /\ cpc[c] = "execute"
    /\ ~StoredProcedure
    /\ unread[c] = {}
    /\ txn[c].writes = {} \/ ~HasValues(c)
    /\ cpc' = [cpc EXCEPT ![c] =
                IF txn[c].writes = {} /\ (HasValues(c) \/ readStatus[c] # REPLY_OK) THEN "idle" ELSE "down"]
    /\ UNCHANGED <<txn, ntxns, attempts, participants, unread, readStatus, shardclient, network,
                   servers, history>>

\* Timer(0) at every participant.
ScheduleAll(c, op) ==
    outbox' = [outbox EXCEPT ![c] = [s \in Shards |-> IF s \in participants[c] THEN op ELSE @[s]]]

\* Prepare takes a timestamp and schedules a prepare at every participant.  The
\* timestamp names the versions that the commit writes; no decision depends on it.
\* Each round has new promises.
ClientPrepare(c) ==
    /\ attempts' = [attempts EXCEPT ![c] = @ + 1]
    /\ ScheduleAll(c, "PREPARE")
    /\ NewPromises(c)
    /\ cpc' = [cpc EXCEPT ![c] = "prepare"]

StartPrepare(c) ==
    /\ cpc[c] = "execute"
    /\ unread[c] = {}
    /\ StoredProcedure \/ (HasValues(c) /\ txn[c].writes # {})
    /\ ClientPrepare(c)
    /\ UNCHANGED <<txn, ntxns, participants, unread, readStatus, waiting, blockingBegin, sent, pendingReqs,
                   network, store, clientTable, history>>

\* Mutant: Prepare returns with the first answer.
AllAnswered_first(c) == \E s \in participants[c] : promise[c][s] # None

\* Prepare returns once every promise is answered.  REPLY_FAIL dominates.
AllAnswered(c) == \A s \in participants[c] : promise[c][s] # None

\* Mutant: a shard that fails to prepare does not count.
PrepareResult_ignoreFail(c) ==
    IF REPLY_TIMEOUT \in {promise[c][s] : s \in participants[c]} THEN REPLY_TIMEOUT ELSE REPLY_OK

\* Mutant: a shard that timed out counts as prepared.
PrepareResult_ignoreTimeout(c) ==
    IF REPLY_FAIL \in {promise[c][s] : s \in participants[c]} THEN REPLY_FAIL ELSE REPLY_OK

PrepareResult(c) ==
    LET answers == {promise[c][s] : s \in participants[c]}
    IN  IF REPLY_FAIL \in answers THEN REPLY_FAIL
        ELSE IF REPLY_TIMEOUT \in answers THEN REPLY_TIMEOUT ELSE REPLY_OK

RetryPrepare(c) ==
    /\ cpc[c] = "prepare"
    /\ AllAnswered(c)
    /\ PrepareResult(c) = REPLY_TIMEOUT
    /\ attempts[c] < COMMIT_RETRIES
    /\ ClientPrepare(c)
    /\ UNCHANGED <<txn, ntxns, participants, unread, readStatus, waiting, blockingBegin, sent, pendingReqs,
                   network, store, clientTable, history>>

\* ShardClient::Commit and Abort install blockingBegin, then schedule.
BlockBegin(c) ==
    blockingBegin' = [blockingBegin EXCEPT ![c] =
                        [s \in Shards |-> IF s \in participants[c] THEN "pending" ELSE @[s]]]

Decide(c, outcome) ==
    decided' = With(decided, TxnId(c), [outcome |-> outcome, at |-> participants[c]])

\* Commit(keys) passes promises and waits for them, Commit() does not.
DecideCommit(c, wait) ==
    /\ cpc[c] = "prepare"
    /\ AllAnswered(c)
    /\ PrepareResult(c) = REPLY_OK
    /\ Decide(c, "commit")
    /\ BlockBegin(c)
    /\ ScheduleAll(c, IF wait THEN "COMMIT" ELSE "COMMIT_NOWAIT")
    /\ NewPromises(c)
    /\ cpc' = [cpc EXCEPT ![c] = IF wait THEN "commit" ELSE "idle"]
    /\ UNCHANGED <<txn, ntxns, attempts, participants, unread, readStatus, waiting, sent, pendingReqs,
                   network, servers, before>>

DecideAbort(c) ==
    /\ cpc[c] = "prepare"
    /\ AllAnswered(c)
    /\ \/ PrepareResult(c) = REPLY_FAIL
       \/ PrepareResult(c) = REPLY_TIMEOUT /\ attempts[c] = COMMIT_RETRIES
    /\ Decide(c, "abort")
    /\ BlockBegin(c)
    /\ ScheduleAll(c, "ABORT")
    /\ cpc' = [cpc EXCEPT ![c] = "idle"]
    /\ UNCHANGED <<txn, ntxns, attempts, participants, unread, readStatus, waiting, promise, sent,
                   pendingReqs, network, servers, before>>

CommitReturns(c) ==
    /\ cpc[c] = "commit"
    /\ AllAnswered(c)
    /\ cpc' = [cpc EXCEPT ![c] = "idle"]
    /\ UNCHANGED <<txn, ntxns, attempts, participants, unread, readStatus, shardclient, network,
                   servers, history>>
-----------------------------------------------------------------------------
(* The transport thread *)

\* It ends with its process.
Running(c) == cpc[c] # "down"

\* ++lastReqId
NextReqId(c, s) == Len(sent[c][s]) + 1

\* The callback of Timer(0): the promise takes the waiting slot, whatever was
\* in it, and the request is invoked under the next request id.  Abort and
\* Commit() have no promise.
RunTimer(c, s) ==
    /\ Running(c)
    /\ outbox[c][s] # None
    /\ LET reqId == NextReqId(c, s)
           op == IF outbox[c][s] = "COMMIT_NOWAIT" THEN "COMMIT" ELSE outbox[c][s]
       IN  /\ sent' = [sent EXCEPT ![c][s] = Append(@, [op |-> op, id |-> TxnId(c),
                                                        txn |-> Local(txn[c], s)])]
           /\ pendingReqs' = [pendingReqs EXCEPT ![c][s] = @ \cup {reqId}]
           /\ requests' = [requests EXCEPT ![c][s] = Append(@, reqId)]
    /\ waiting' = [waiting EXCEPT ![c][s] = outbox[c][s] \in {"BATCH_GET", "PREPARE", "COMMIT"}]
    /\ outbox' = [outbox EXCEPT ![c][s] = None]
    /\ UNCHANGED <<client, promise, blockingBegin, replies, old, losses, dups, timeouts, servers,
                   history>>

\* Mutant: only prepares are resent.
MayResend_prepare(c, s, reqId) ==
    reqId \in pendingReqs[c][s] /\ sent[c][s][reqId].op = "PREPARE"

\* The timer of a logged request runs as long as the request is pending.
MayResend(c, s, reqId) == reqId \in pendingReqs[c][s] /\ sent[c][s][reqId].op # "BATCH_GET"

\* A copy of the request, or a reply to it, is on its way.
InFlight(c, s, reqId) ==
    \/ \E i \in DOMAIN requests[c][s] : requests[c][s][i] = reqId
    \/ \E i \in DOMAIN replies[c][s] : replies[c][s][i].reqId = reqId

\* ResendRequest, when the timer of a pending request expires.
ResendRequest(c, s, reqId) ==
    /\ Running(c)
    /\ MayResend(c, s, reqId)
    /\ IF InFlight(c, s, reqId) THEN dups < MaxDups /\ dups' = dups + 1 ELSE dups' = dups
    /\ requests' = [requests EXCEPT ![c][s] = Append(@, reqId)]
    /\ UNCHANGED <<client, shardclient, replies, old, losses, timeouts, servers, history>>

\* Mutant: the waiting slot is emptied without an answer.
Answer_none(c, s, status) ==
    /\ waiting' = [waiting EXCEPT ![c][s] = FALSE]
    /\ UNCHANGED promise

\* Answers the promise in the waiting slot, if there is one.
Answer(c, s, status) ==
    /\ promise' = [promise EXCEPT ![c][s] = IF waiting[c][s] THEN status ELSE @]
    /\ waiting' = [waiting EXCEPT ![c][s] = FALSE]

PrepareCallback(c, s, status) == Answer(c, s, status) /\ UNCHANGED blockingBegin

\* The next Begin need wait no longer.
CommitCallback(c, s, status) ==
    /\ blockingBegin' = [blockingBegin EXCEPT ![c][s] = "done"]
    /\ Answer(c, s, status)

AbortCallback(c, s, status) ==
    /\ blockingBegin' = [blockingBegin EXCEPT ![c][s] = "done"]
    /\ Answer(c, s, status)

\* BatchGetCallback hands the values to the waiting promise; the client looks at
\* them only if that is the promise of a read, and keeps the first value of a key.
BatchGetCallback(c, s, reply) ==
    /\ txn' = [txn EXCEPT ![c].seen = IF waiting[c][s] /\ cpc[c] = "read" THEN Merge(@, reply.seen) ELSE @]
    /\ Answer(c, s, reply.status)
    /\ UNCHANGED blockingBegin

\* HandleReply and HandleUnloggedReply drop a reply to a request that is
\* not pending; else they run the continuation of the request.
HandleReply(c, s) ==
    /\ Running(c)
    /\ replies[c][s] # <<>>
    /\ LET reqId == Head(replies[c][s]).reqId
       IN  IF reqId \in pendingReqs[c][s]
             THEN /\ pendingReqs' = [pendingReqs EXCEPT ![c][s] = @ \ {reqId}]
                  /\ LET op == sent[c][s][reqId].op
                         reply == Head(replies[c][s])
                     IN  \/ op = "BATCH_GET" /\ BatchGetCallback(c, s, reply)
                         \/ op = "PREPARE" /\ PrepareCallback(c, s, reply.status) /\ UNCHANGED txn
                         \/ op = "COMMIT" /\ CommitCallback(c, s, reply.status) /\ UNCHANGED txn
                         \/ op = "ABORT" /\ AbortCallback(c, s, reply.status) /\ UNCHANGED txn
             ELSE UNCHANGED <<pendingReqs, blockingBegin, promise, waiting, txn>>
    /\ replies' = [replies EXCEPT ![c][s] = Tail(@)]
    /\ UNCHANGED <<cpc, ntxns, attempts, participants, unread, readStatus, outbox, sent, requests, old,
                   losses, dups, timeouts, servers, history>>

\* A proof or audit request of the same ShardClient times out: GetTimeout
\* answers whatever promise is waiting.
GetTimeout(c, s) ==
    /\ Running(c)
    /\ timeouts < MaxTimeouts
    /\ timeouts' = timeouts + 1
    /\ Answer(c, s, REPLY_TIMEOUT)
    /\ UNCHANGED <<client, outbox, blockingBegin, sent, pendingReqs, requests, replies, old, losses,
                   dups, servers, history>>

\* UnloggedRequestTimeoutCallback of a read: it is pending no more, so a late
\* reply to it is dropped, and GetTimeout answers the waiting promise.
ReadTimeout(c, s, reqId) ==
    /\ Running(c)
    /\ reqId \in pendingReqs[c][s] /\ sent[c][s][reqId].op = "BATCH_GET"
    /\ IF InFlight(c, s, reqId) THEN timeouts < MaxTimeouts /\ timeouts' = timeouts + 1
       ELSE timeouts' = timeouts
    /\ pendingReqs' = [pendingReqs EXCEPT ![c][s] = @ \ {reqId}]
    /\ Answer(c, s, REPLY_TIMEOUT)
    /\ UNCHANGED <<client, outbox, blockingBegin, sent, requests, replies, old, losses, dups, servers,
                   history>>

-----------------------------------------------------------------------------
(* The server *)

\* LeaderUpcall: the status of a request, and the store it leaves.
UpcallStatus(s, r) ==
    IF r.op = "PREPARE" THEN PrepareStatus(store[s], r.id, r.txn) ELSE REPLY_OK

LeaderUpcall(s, r) ==
    CASE r.op = "PREPARE" -> Prepare(store[s], r.id, r.txn)
      [] r.op = "COMMIT"  -> IF StoredProcedure THEN CommitProcedure(store[s], r.id)
                             ELSE Commit(store[s], r.id)
      [] OTHER            -> Abort(store[s], r.id)

\* Mutant: an old copy of a request is executed.
IsNew_other(entry, reqId) == reqId # entry.lastReqId

IsNew(entry, reqId) == reqId > entry.lastReqId

\* HandleUnloggedRequest reads the store and leaves the client table alone.
\* HandleRequest: a request newer than the client's last one is executed and
\* recorded.  The last one is answered again from the client table, an older
\* one is dropped.
HandleRequest(c, s, reqId) ==
    LET r == sent[c][s][reqId]
    IN  IF r.op # "BATCH_GET" /\ IsNew(clientTable[s][c], reqId)
          THEN /\ store' = [store EXCEPT ![s] = LeaderUpcall(s, r)]
               /\ clientTable' = [clientTable EXCEPT ![s][c] =
                                    [lastReqId |-> reqId, reply |-> UpcallStatus(s, r)]]
          ELSE UNCHANGED servers

ReplyTo(c, s, reqId) ==
    LET entry == clientTable[s][c]
        r == sent[c][s][reqId]
        Reply(status) == <<[reqId |-> reqId, status |-> status, seen |-> EmptyMap]>>
    IN  CASE r.op = "BATCH_GET" ->
                <<[reqId |-> reqId, status |-> REPLY_OK, seen |-> BatchGet(store[s], r.txn.reads)]>>
          [] IsNew(entry, reqId) -> Reply(UpcallStatus(s, r))
          [] reqId = entry.lastReqId -> Reply(entry.reply)
          [] OTHER -> <<>>

ReceiveRequest(c, s) ==
    /\ requests[c][s] # <<>>
    /\ HandleRequest(c, s, Head(requests[c][s]))
    /\ replies' = [replies EXCEPT ![c][s] = @ \o ReplyTo(c, s, Head(requests[c][s]))]
    /\ requests' = [requests EXCEPT ![c][s] = Tail(@)]
    /\ UNCHANGED <<client, shardclient, old, losses, dups, timeouts, history>>

\* The reply to a request of a broken connection goes to that connection.
ReceiveOld(c, s) ==
    /\ old[c][s] # <<>>
    /\ HandleRequest(c, s, Head(old[c][s]))
    /\ old' = [old EXCEPT ![c][s] = Tail(@)]
    /\ UNCHANGED <<client, shardclient, requests, replies, losses, dups, timeouts, history>>

\* The client's end of the connection is freed (TCPOutgoingEventCallback) and
\* the next send opens a new one.  The server has received the first n
\* requests, though it may not have read them; all else is gone.
Break(c, s, n) ==
    /\ losses < MaxLosses
    /\ requests[c][s] # <<>> \/ replies[c][s] # <<>>
    /\ old[c][s] = <<>>
    /\ losses' = losses + 1
    /\ old' = [old EXCEPT ![c][s] = SubSeq(requests[c][s], 1, n)]
    /\ requests' = [requests EXCEPT ![c][s] = <<>>]
    /\ replies' = [replies EXCEPT ![c][s] = <<>>]
    /\ UNCHANGED <<client, shardclient, dups, timeouts, servers, history>>

-----------------------------------------------------------------------------
ClientNext(c) ==
    \/ \E w \in Workload : Begin(c, w)
    \/ \E s \in Shards : ClientBatchGet(c, s)
    \/ ReadReturns(c)
    \/ EndReads(c)
    \/ StartPrepare(c)
    \/ RetryPrepare(c)
    \/ \E wait \in BOOLEAN : DecideCommit(c, wait)
    \/ DecideAbort(c)
    \/ CommitReturns(c)

Next ==
    \/ \E c \in Clients : ClientNext(c)
    \/ \E c \in Clients, s \in Shards :
          \/ RunTimer(c, s)
          \/ GetTimeout(c, s)
          \/ \E reqId \in pendingReqs[c][s] : ResendRequest(c, s, reqId) \/ ReadTimeout(c, s, reqId)
          \/ HandleReply(c, s)
          \/ ReceiveRequest(c, s)
          \/ ReceiveOld(c, s)
          \/ \E n \in 0 .. Len(requests[c][s]) : Break(c, s, n)

Spec == Init /\ [][Next]_vars

-----------------------------------------------------------------------------
(* Properties *)

\* No two transactions that a shard holds prepared conflict: the check of
\* OCCStore::Prepare (occstore.cc:44) works as a lock, whatever order requests,
\* duplicates and retries arrive in.
PreparedCompatible ==
    \A s \in Shards : \A t, u \in DOMAIN store[s].prepared :
        t # u => store[s].prepared[t].writes
                    \cap (store[s].prepared[u].reads \cup store[s].prepared[u].writes) = {}

\* A request the server has yet to execute.
Unexecuted(c, s, reqId) == reqId > clientTable[s][c].lastReqId

\* ASSERT(prepared.find(id) != prepared.end()) (occstore.cc:84): every commit
\* still to be executed, in flight or to be resent, finds its transaction
\* prepared.
CommitFindsPrepared ==
    \A c \in Clients, s \in Shards : \A reqId \in DOMAIN sent[c][s] :
        (sent[c][s][reqId].op = "COMMIT" /\ Unexecuted(c, s, reqId)) =>
            sent[c][s][reqId].id \in DOMAIN store[s].prepared

\* ASSERT(blockingBegin != NULL) (shardclient.cc:576 and 672): the callback of a
\* commit or abort finds the promise the next Begin waits on.
CallbackFindsBlockingBegin ==
    \A c \in Clients, s \in Shards : \A reqId \in pendingReqs[c][s] :
        sent[c][s][reqId].op \in {"COMMIT", "ABORT"} => blockingBegin[c][s] = "pending"

\* "2. Wait for reply from all shards" and "If any shard returned false, abort
\* the transaction." (client.cc:271 and 275): a client that decides to commit has
\* every participant's vote, so each of them holds the transaction prepared until
\* it has put its writes.
CommitHasEveryVote ==
    \A t \in DOMAIN decided : decided[t].outcome = "commit" =>
        \A s \in decided[t].at :
            \/ t \in DOMAIN store[s].prepared
            \/ \E i \in DOMAIN store[s].log : store[s].log[i].id = t

-----------------------------------------------------------------------------
(* Isolation: the dependency graph of the committed transactions *)

Logged(s) == {store[s].log[i].id : i \in DOMAIN store[s].log}
Committed == UNION {Logged(s) : s \in Shards}

\* The position in a log of the version a reader saw.
VersionAt(log, writer) ==
    IF writer = NoWriter THEN 0 ELSE CHOOSE i \in DOMAIN log : log[i].id = writer

\* t comes before u at shard s: u overwrites t, u reads from t, or u overwrites
\* what t read.
DependsAt(s, t, u) ==
    LET log == store[s].log
    IN  \E i, j \in DOMAIN log :
            /\ log[i].id = t /\ log[j].id = u
            /\ \/ i < j /\ log[i].writes \cap log[j].writes # {}
               \/ \E k \in DOMAIN log[j].seen : log[j].seen[k] = t
               \/ \E k \in DOMAIN log[i].seen \cap log[j].writes :
                     VersionAt(log, log[i].seen[k]) < j

Precedes(t, u) == t # u /\ (t \in before[u] \/ \E s \in Shards : DependsAt(s, t, u))

\* Some serial order of the committed transactions explains what all of them
\* read and respects real time: one whose Commit returned before another began
\* comes first.
StrictlySerializable ==
    \A T \in SUBSET Committed :
        T # {} => \E u \in T : \A t \in T : ~Precedes(t, u)

\* "Do OCC checks" (occstore.cc:39): a transaction commits only if no version
\* it read has been overwritten, so no update is lost.
NoLostUpdate ==
    \A s \in Shards : \A i, j \in DOMAIN store[s].log :
        \A k \in DOMAIN store[s].log[j].seen \cap store[s].log[j].writes \cap store[s].log[i].writes :
            i < j => i <= VersionAt(store[s].log, store[s].log[j].seen[k])

\* A copy of a prepare that arrives late, over a connection the client has
\* given up, never prepares a decided transaction again (replica.cc:378): what
\* a shard holds prepared after the decision, a commit or abort still to be
\* executed there will end.
NoZombiePrepare ==
    \A s \in Shards : \A t \in DOMAIN store[s].prepared \cap DOMAIN decided :
        \/ outbox[t[1]][s] \in {"COMMIT", "COMMIT_NOWAIT", "ABORT"}
        \/ \E reqId \in pendingReqs[t[1]][s] :
              /\ sent[t[1]][s][reqId].op \in {"COMMIT", "ABORT"}
              /\ sent[t[1]][s][reqId].id = t
              /\ Unexecuted(t[1], s, reqId)

-----------------------------------------------------------------------------
(* Atomicity: two-phase commit implements AtomicTxn *)

ShardState ==
    [s \in Shards |-> [t \in TxnIds |->
        IF t \in Logged(s) THEN "committed"
        ELSE IF t \in DOMAIN store[s].prepared THEN "prepared" ELSE "working"]]

Atomic == INSTANCE AtomicTxn WITH Txns <- TxnIds, state <- ShardState, decision <- decided

\* The implementation steps of prepare, retry, commit and abort, with lost and
\* duplicated messages and stray timeouts, are steps of the atomic transaction.
ImplementsAtomicTxn == Atomic!Spec

\* All shards or none: no shard commits what another participant released.
AllOrNothing == Atomic!AllOrNothing

-----------------------------------------------------------------------------
(* Liveness *)

MaxReqId == MaxTxns * (COMMIT_RETRIES + 2)

\* The threads and the event loops run, the resend timer of a pending request
\* expires again and again, and a message that is not lost arrives.
Fairness ==
    /\ \A c \in Clients :
        WF_vars(\/ \E s \in Shards : ClientBatchGet(c, s)
                \/ ReadReturns(c) \/ EndReads(c)
                \/ StartPrepare(c) \/ RetryPrepare(c)
                \/ \E wait \in BOOLEAN : DecideCommit(c, wait)
                \/ DecideAbort(c) \/ CommitReturns(c))
    /\ \A c \in Clients, s \in Shards :
        /\ WF_vars(RunTimer(c, s))
        /\ \A reqId \in 1 .. MaxReqId :
            /\ WF_vars(~InFlight(c, s, reqId) /\ ResendRequest(c, s, reqId))
            /\ WF_vars(~InFlight(c, s, reqId) /\ ReadTimeout(c, s, reqId))
        /\ WF_vars(ReceiveRequest(c, s))
        /\ WF_vars(HandleReply(c, s))

FairSpec == Spec /\ Fairness

\* A transaction does not wait for ever for a promise (promise.cc:117): its reads
\* are answered, it is decided, and its Commit returns, unless a missing value
\* ends the process.
CommitTerminates == \A c \in Clients : cpc[c] # "idle" ~> cpc[c] \in {"idle", "down"}

\* What a shard holds prepared it eventually commits or releases, so it blocks
\* conflicting transactions only for a while.
PreparedIsReleased ==
    \A s \in Shards, t \in TxnIds :
        t \in DOMAIN store[s].prepared ~> t \notin DOMAIN store[s].prepared
=============================================================================

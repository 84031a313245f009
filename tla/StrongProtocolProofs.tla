------------------------ MODULE StrongProtocolProofs -------------------------
(***************************************************************************)
(* The prepared transactions of a shard never conflict, and the            *)
(* bookkeeping of two-phase commit between a client and a shard is right:  *)
(* what the client has invoked, what the server has executed, what the     *)
(* client has decided and what the next Begin waits for agree.  For any    *)
(* clients, shards, keys and transactions, with or without stored          *)
(* procedures, and whatever is lost, repeated or late.                     *)
(***************************************************************************)
EXTENDS StrongStore, TLAPS

IsStore(st) == st = [prepared |-> st.prepared, log |-> st.log]

Compatible(prepared) ==
    \A t, u \in DOMAIN prepared :
        t # u => prepared[t].writes \cap (prepared[u].reads \cup prepared[u].writes) = {}

StoreInv == store = [s \in Shards |-> store[s]] /\ \A s \in Shards : IsStore(store[s])

\* OCCStore::Prepare adds a transaction only if it conflicts with none that is
\* prepared, in either direction.
LEMMA PrepareCompatible ==
    ASSUME NEW st, NEW id, NEW t, IsStore(st), Compatible(st.prepared)
    PROVE  IsStore(Prepare(st, id, t)) /\ Compatible(Prepare(st, id, t).prepared)
  <1>1. CASE id \in DOMAIN st.prepared \/ Conflicts(st, t)
    BY <1>1 DEF Prepare
  <1>2. CASE id \notin DOMAIN st.prepared /\ ~Conflicts(st, t)
    <2> DEFINE p == With(st.prepared, id, t)
    <2>1. Prepare(st, id, t) = [prepared |-> p, log |-> st.log]
      BY <1>2 DEF Prepare, IsStore
    <2>2. /\ DOMAIN p = DOMAIN st.prepared \cup {id}
          /\ p[id] = t
          /\ \A u \in DOMAIN st.prepared : p[u] = st.prepared[u]
      BY <1>2 DEF With
    <2>3. \A u \in DOMAIN st.prepared :
              /\ t.reads \cap st.prepared[u].writes = {}
              /\ t.writes \cap (st.prepared[u].reads \cup st.prepared[u].writes) = {}
      BY <1>2 DEF Conflicts, getPreparedWrites, getPreparedReadWrites
    <2> HIDE DEF p
    <2>4. Compatible(p)
      BY <2>2, <2>3 DEF Compatible
    <2> QED BY <2>1, <2>4 DEF IsStore
  <1> QED BY <1>1, <1>2

\* Commit and Abort only erase.
LEMMA EraseCompatible ==
    ASSUME NEW st, NEW id, IsStore(st), Compatible(st.prepared)
    PROVE  /\ IsStore(Abort(st, id)) /\ Compatible(Abort(st, id).prepared)
           /\ IsStore(Commit(st, id)) /\ Compatible(Commit(st, id).prepared)
           /\ IsStore(CommitProcedure(st, id)) /\ Compatible(CommitProcedure(st, id).prepared)
  <1>1. Compatible(Without(st.prepared, id))
    BY DEF Compatible, Without
  <1>2. Abort(st, id) = [prepared |-> Without(st.prepared, id), log |-> st.log]
    BY DEF Abort, IsStore
  <1>3. \A seen : /\ IsStore(PutWrites(st, id, seen))
                  /\ PutWrites(st, id, seen).prepared = Without(st.prepared, id)
    BY DEF PutWrites, IsStore
  <1>4. Commit(st, id) = st \/ \E seen : Commit(st, id) = PutWrites(st, id, seen)
    BY DEF Commit
  <1>5. CommitProcedure(st, id) = st \/ \E seen : CommitProcedure(st, id) = PutWrites(st, id, seen)
    BY DEF CommitProcedure
  <1>6. IsStore(Abort(st, id)) /\ Compatible(Abort(st, id).prepared)
    BY <1>1, <1>2 DEF IsStore
  <1> QED BY <1>1, <1>3, <1>4, <1>5, <1>6

-----------------------------------------------------------------------------
IInv == StoreInv /\ PreparedCompatible

\* The invariant, shard by shard.
LEMMA PerShardInv ==
    IInv <=> StoreInv /\ \A s \in Shards : Compatible(store[s].prepared)
  BY DEF IInv, PreparedCompatible, Compatible

\* All that a server does to its store is one OCCStore call for a new request.
LEMMA HandleRequestIInv ==
    ASSUME IInv, NEW c \in Clients, NEW s \in Shards, NEW reqId, HandleRequest(c, s, reqId)
    PROVE  IInv'
  <1> DEFINE r == sent[c][s][reqId]
             st == LeaderUpcall(s, r)
  <1>1. IsStore(st) /\ Compatible(st.prepared)
    <2>1. IsStore(store[s]) /\ Compatible(store[s].prepared)
      BY PerShardInv DEF StoreInv
    <2>2. \/ st = Prepare(store[s], r.id, r.txn)
          \/ st = Commit(store[s], r.id)
          \/ st = CommitProcedure(store[s], r.id)
          \/ st = Abort(store[s], r.id)
      BY DEF LeaderUpcall
    <2> QED BY <2>1, <2>2, PrepareCompatible, EraseCompatible
  <1>2. store' = store \/ store' = [store EXCEPT ![s] = st]
    BY DEF HandleRequest, servers
  <1> HIDE DEF st
  <1>3. CASE store' = store
    BY <1>3 DEF IInv, StoreInv, PreparedCompatible
  <1>4. CASE store' = [store EXCEPT ![s] = st]
    <2>1. store'[s] = st /\ \A q \in Shards : q # s => store'[q] = store[q]
      BY <1>4 DEF IInv, StoreInv
    <2>2. StoreInv'
      BY <1>1, <1>4, <2>1 DEF IInv, StoreInv
    <2>3. \A q \in Shards : Compatible(store'[q].prepared)
      BY <1>1, <2>1, PerShardInv
    <2> QED BY <2>2, <2>3 DEF IInv, PreparedCompatible, Compatible
  <1> QED BY <1>2, <1>3, <1>4

\* Every step keeps the invariant; only the two that receive a request touch a
\* store.
LEMMA NextIInv == IInv /\ [Next]_vars => IInv'
  <1> SUFFICES ASSUME IInv, [Next]_vars PROVE IInv'
    OBVIOUS
  <1>1. ASSUME NEW c \in Clients, NEW s \in Shards, ReceiveRequest(c, s) PROVE IInv'
    BY <1>1, HandleRequestIInv DEF ReceiveRequest
  <1>2. ASSUME NEW c \in Clients, NEW s \in Shards, ReceiveOld(c, s) PROVE IInv'
    BY <1>2, HandleRequestIInv DEF ReceiveOld
  <1>3. CASE UNCHANGED store
    BY <1>3 DEF IInv, StoreInv, PreparedCompatible
  <1>4. ASSUME NEW c \in Clients, ClientNext(c) PROVE UNCHANGED store
    BY <1>4, SMTT(30) DEF ClientNext, Begin, ClientBatchGet, ReadReturns, EndReads, StartPrepare, RetryPrepare,
                DecideCommit, DecideAbort, CommitReturns, servers
  <1>5. ASSUME NEW c \in Clients, NEW s \in Shards,
               \/ RunTimer(c, s) \/ GetTimeout(c, s) \/ HandleReply(c, s)
               \/ \E reqId \in pendingReqs[c][s] : ResendRequest(c, s, reqId) \/ ReadTimeout(c, s, reqId)
               \/ \E n \in 0 .. Len(requests[c][s]) : Break(c, s, n)
        PROVE  UNCHANGED store
    BY <1>5 DEF RunTimer, GetTimeout, HandleReply, ResendRequest, ReadTimeout, Break, servers
  <1>6. CASE UNCHANGED vars
    BY <1>3, <1>6 DEF vars, servers
  <1> QED BY <1>1, <1>2, <1>3, <1>4, <1>5, <1>6 DEF Next

\* OCCStore::Prepare (occstore.cc:31) works as a lock table: no two transactions
\* that a shard holds prepared conflict.
THEOREM StrongPreparedCompatible == Spec => []PreparedCompatible
  <1>1. Init => IInv
    BY DEF Init, IInv, StoreInv, IsStore, PreparedCompatible, Empty, EmptyMap
  <1>2. IInv => PreparedCompatible
    BY DEF IInv
  <1> QED BY <1>1, <1>2, NextIInv, PTL DEF Spec
-----------------------------------------------------------------------------
(* Sequences, and values for each client and shard *)

IsSeq(q) == q \in Seq({q[i] : i \in DOMAIN q})
Elems(q) == {q[i] : i \in DOMAIN q}
Grid(f) == f = [c \in Clients |-> [s \in Shards |-> f[c][s]]]

\* The elements of a sequence are at 1 .. Len.
LEMMA SeqDomain == \A q : IsSeq(q) => Len(q) \in Nat /\ DOMAIN q = 1 .. Len(q)
  BY SMT DEF IsSeq

\* A sequence over some set is one.
LEMMA SeqIsSeq == ASSUME NEW S, NEW q \in Seq(S) PROVE IsSeq(q)
  <1>1. \A i \in 1 .. Len(q) : q[i] \in {q[j] : j \in DOMAIN q}
    BY SMT
  <1> QED BY <1>1, SMT DEF IsSeq

\* The empty sequence has no elements.
LEMMA EmptySeq == IsSeq(<<>>) /\ DOMAIN <<>> = {} /\ Elems(<<>>) = {} /\ Len(<<>>) = 0
  BY SMT DEF IsSeq, Elems

\* Append leaves the elements and adds one.
LEMMA AppendSeq ==
    ASSUME NEW q, IsSeq(q), NEW e
    PROVE  /\ IsSeq(Append(q, e)) /\ Elems(Append(q, e)) = Elems(q) \cup {e}
           /\ Len(q) \in Nat /\ Len(Append(q, e)) = Len(q) + 1
           /\ DOMAIN Append(q, e) = DOMAIN q \cup {Len(q) + 1} /\ Len(q) + 1 \notin DOMAIN q
           /\ \A i \in DOMAIN q : Append(q, e)[i] = q[i] /\ i < Len(q) + 1
           /\ Append(q, e)[Len(q) + 1] = e
  <1> DEFINE S == {q[i] : i \in DOMAIN q}
             T == S \cup {e}
             a == Append(q, e)
  <1>1. q \in Seq(T)
    BY SMT DEF IsSeq
  <1>2. /\ a \in Seq(T) /\ Len(a) = Len(q) + 1 /\ Len(q) \in Nat /\ DOMAIN q = 1 .. Len(q)
        /\ DOMAIN a = 1 .. Len(q) + 1
        /\ \A i \in 1 .. Len(q) : a[i] = q[i]
        /\ a[Len(q) + 1] = e
    BY <1>1, SMT
  <1> HIDE DEF T, a
  <1>3. IsSeq(a)
    BY <1>2, SeqIsSeq
  <1>4. DOMAIN a = DOMAIN q \cup {Len(q) + 1} /\ \A i \in DOMAIN q : i < Len(q) + 1
    BY <1>2, SMT
  <1>5. Elems(a) = Elems(q) \cup {e}
    <2>1. /\ DOMAIN a = DOMAIN q \cup {Len(q) + 1} /\ a[Len(q) + 1] = e
          /\ \A i \in DOMAIN q : a[i] = q[i]
      BY <1>2, <1>4, SMT
    <2> QED BY <2>1, ZenonT(30) DEF Elems
  <1>6. Len(q) + 1 \notin DOMAIN q
    BY <1>2, SMT
  <1> QED BY <1>2, <1>3, <1>4, <1>5, <1>6, SMT DEF a

\* Tail drops the first element.
LEMMA TailSeq ==
    ASSUME NEW q, IsSeq(q), q # <<>>
    PROVE  /\ IsSeq(Tail(q)) /\ Elems(Tail(q)) \subseteq Elems(q)
           /\ 1 \in DOMAIN q /\ Head(q) = q[1] /\ Head(q) \in Elems(q)
           /\ DOMAIN Tail(q) = 1 .. Len(q) - 1
           /\ \A i \in DOMAIN Tail(q) : i + 1 \in DOMAIN q /\ Tail(q)[i] = q[i + 1]
  <1> DEFINE S == {q[i] : i \in DOMAIN q}
             a == Tail(q)
  <1>1. q \in Seq(S)
    BY SMT DEF IsSeq
  <1>2. /\ a \in Seq(S) /\ Len(a) = Len(q) - 1 /\ Len(q) \in Nat /\ DOMAIN q = 1 .. Len(q) /\ Len(q) > 0
        /\ DOMAIN a = 1 .. Len(q) - 1
        /\ Head(q) = q[1]
        /\ \A i \in 1 .. Len(q) - 1 : a[i] = q[i + 1]
    BY <1>1, SMT
  <1> HIDE DEF a, S
  <1>3. IsSeq(a)
    BY <1>2, SeqIsSeq
  <1>4. 1 \in DOMAIN q /\ \A i \in DOMAIN a : i + 1 \in DOMAIN q
    BY <1>2, SMT
  <1>5. Elems(a) \subseteq Elems(q)
    BY <1>2, <1>4, SMT DEF Elems
  <1> QED BY <1>2, <1>3, <1>4, <1>5, Zenon DEF a, Elems

\* A prefix has no other elements.
LEMMA SubSeqSeq ==
    ASSUME NEW S, NEW q \in Seq(S), NEW n \in 0 .. Len(q)
    PROVE  SubSeq(q, 1, n) \in Seq(S) /\ Elems(SubSeq(q, 1, n)) \subseteq Elems(q)
  <1>1. SubSeq(q, 1, n) \in Seq(S)
    BY SMT
  <1>2. \A i \in DOMAIN SubSeq(q, 1, n) : i \in DOMAIN q /\ SubSeq(q, 1, n)[i] = q[i]
    BY SMT
  <1> QED BY <1>1, <1>2, Zenon DEF Elems

\* One entry of a grid changes.
Updated(f, g, c, s, v) ==
    /\ Grid(g) /\ g[c][s] = v
    /\ \A d \in Clients, z \in Shards : (d # c \/ z # s) => g[d][z] = f[d][z]

\* What EXCEPT does to a grid.
LEMMA GridUpdate ==
    ASSUME NEW f, NEW g, NEW v, NEW c \in Clients, NEW s \in Shards, Grid(f), g = [f EXCEPT ![c][s] = v]
    PROVE  Updated(f, g, c, s, v)
  BY Zenon DEF Grid, Updated

\* A function of clients and shards is a grid, and a grid whose entries are in S
\* is such a function.
LEMMA GridTypes ==
    ASSUME NEW f, NEW S
    PROVE  f \in [Clients -> [Shards -> S]] <=> Grid(f) /\ \A c \in Clients, s \in Shards : f[c][s] \in S
  <1>1. ASSUME f \in [Clients -> [Shards -> S]] PROVE Grid(f) /\ \A c \in Clients, s \in Shards : f[c][s] \in S
    BY <1>1, Zenon DEF Grid
  <1>2. ASSUME Grid(f), \A c \in Clients, s \in Shards : f[c][s] \in S PROVE f \in [Clients -> [Shards -> S]]
    <2>1. [c \in Clients |-> [s \in Shards |-> f[c][s]]] \in [Clients -> [Shards -> S]]
      BY <1>2, Zenon
    <2> QED BY <1>2, <2>1, Zenon DEF Grid
  <1> QED BY <1>1, <1>2, Zenon

-----------------------------------------------------------------------------
(* What the calls of OCCStore do *)

\* OCCStore::Prepare adds at most the transaction; if it says OK, it holds it.
LEMMA PrepareEffect ==
    ASSUME NEW st, NEW id, NEW t, IsStore(st)
    PROVE  /\ Prepare(st, id, t).log = st.log
           /\ DOMAIN Prepare(st, id, t).prepared \subseteq DOMAIN st.prepared \cup {id}
           /\ \A u \in DOMAIN st.prepared : u \in DOMAIN Prepare(st, id, t).prepared
                                           /\ Prepare(st, id, t).prepared[u] = st.prepared[u]
           /\ PrepareStatus(st, id, t) = REPLY_OK => id \in DOMAIN Prepare(st, id, t).prepared
           /\ PrepareStatus(st, id, t) \in {REPLY_OK, REPLY_FAIL}
  <1>1. CASE id \in DOMAIN st.prepared \/ Conflicts(st, t)
    BY <1>1 DEF Prepare, PrepareStatus, REPLY_OK, REPLY_FAIL
  <1>2. CASE id \notin DOMAIN st.prepared /\ ~Conflicts(st, t)
    <2>1. Prepare(st, id, t) = [prepared |-> With(st.prepared, id, t), log |-> st.log]
      BY <1>2 DEF Prepare, IsStore
    <2>2. /\ DOMAIN With(st.prepared, id, t) = DOMAIN st.prepared \cup {id}
          /\ \A u \in DOMAIN st.prepared : With(st.prepared, id, t)[u] = st.prepared[u]
      BY <1>2 DEF With
    <2> QED BY <1>2, <2>1, <2>2, SMT DEF PrepareStatus
  <1> QED BY <1>1, <1>2

\* OCCStore::Abort erases the transaction.
LEMMA AbortEffect ==
    ASSUME NEW st, NEW id, IsStore(st)
    PROVE  /\ Abort(st, id).log = st.log
           /\ DOMAIN Abort(st, id).prepared = DOMAIN st.prepared \ {id}
           /\ \A u \in DOMAIN st.prepared \ {id} : Abort(st, id).prepared[u] = st.prepared[u]
  <1>1. Abort(st, id) = [prepared |-> Without(st.prepared, id), log |-> st.log]
    BY SMT DEF Abort, IsStore
  <1> QED BY <1>1, SMT DEF Without

\* The log of st grows by the prepared transaction id.
Puts(st, id, new) ==
    \E seen : new.log = Append(st.log, [id |-> id, writes |-> st.prepared[id].writes, seen |-> seen])

\* OCCStore::Commit moves a prepared transaction to the log.
Commits(st, id, new) ==
    /\ id \notin DOMAIN st.prepared => new = st
    /\ id \in DOMAIN st.prepared => Puts(st, id, new)
    /\ DOMAIN new.prepared = DOMAIN st.prepared \ {id}
    /\ \A u \in DOMAIN st.prepared \ {id} : new.prepared[u] = st.prepared[u]

\* Both forms of OCCStore::Commit put the writes of a prepared transaction and
\* release it, and do nothing without one.
LEMMA CommitEffect ==
    ASSUME NEW st, NEW id, IsStore(st)
    PROVE  Commits(st, id, Commit(st, id)) /\ Commits(st, id, CommitProcedure(st, id))
  <1>1. CASE id \notin DOMAIN st.prepared
    BY <1>1 DEF Commit, CommitProcedure, Commits
  <1>2. CASE id \in DOMAIN st.prepared
    <2>1. ASSUME NEW seen PROVE Commits(st, id, PutWrites(st, id, seen))
      <3>1. /\ PutWrites(st, id, seen).prepared = Without(st.prepared, id)
            /\ PutWrites(st, id, seen).log =
                  Append(st.log, [id |-> id, writes |-> st.prepared[id].writes, seen |-> seen])
        BY DEF PutWrites
      <3>2. Puts(st, id, PutWrites(st, id, seen))
        BY <3>1 DEF Puts
      <3> QED BY <1>2, <3>1, <3>2 DEF Commits, Without
    <2> QED BY <1>2, <2>1 DEF Commit, CommitProcedure
  <1> QED BY <1>1, <1>2

-----------------------------------------------------------------------------
(* Clients and shards *)

Ops == {"BATCH_GET", "PREPARE", "COMMIT", "ABORT"}
Ending == {"COMMIT", "ABORT"}
EndTimers == {"COMMIT", "COMMIT_NOWAIT", "ABORT"}
Outcomes == {"commit", "abort"}
Outcome(timer) == IF timer = "ABORT" THEN "abort" ELSE "commit"

\* What concerns a client and a shard: the requests invoked and the last of them
\* that was executed, what is scheduled, pending and waited for, and the ids of
\* the requests and of the replies that travel.
Sent(c, s) == sent[c][s]
Op(c, s, i) == sent[c][s][i].op
Id(c, s, i) == sent[c][s][i].id
Last(c, s) == clientTable[s][c].lastReqId
Timer(c, s) == outbox[c][s]
Pending(c, s) == pendingReqs[c][s]
Blocking(c, s) == blockingBegin[c][s]
Copies(c, s) == {requests[c][s][i] : i \in DOMAIN requests[c][s]} \cup {old[c][s][i] : i \in DOMAIN old[c][s]}
ReplyIds(c, s) == {replies[c][s][i].reqId : i \in DOMAIN replies[c][s]}

\* What a shard holds prepared, and the transactions decided with it.
Prepared(s) == DOMAIN store[s].prepared
DecidedAs(outcome, s) == {t \in DOMAIN decided : decided[t].outcome = outcome /\ s \in decided[t].at}

ThreadTypes ==
    /\ cpc \in [Clients -> {"idle", "execute", "read", "prepare", "commit", "down"}]
    /\ ntxns \in [Clients -> 0 .. MaxTxns]
    /\ participants \in [Clients -> SUBSET Shards]

TimerTypes ==
    /\ outbox \in [Clients -> [Shards -> {None, "BATCH_GET", "PREPARE"} \cup EndTimers]]
    /\ blockingBegin \in [Clients -> [Shards -> {None, "pending", "done"}]]

RequestTypes ==
    /\ Grid(sent) /\ \A c \in Clients, s \in Shards : IsSeq(Sent(c, s))
    /\ pendingReqs \in [Clients -> [Shards -> SUBSET Nat]]

NetworkTypes ==
    /\ requests \in [Clients -> [Shards -> Seq(Nat)]]
    /\ old \in [Clients -> [Shards -> Seq(Nat)]]
    /\ Grid(replies) /\ \A c \in Clients, s \in Shards : IsSeq(replies[c][s])

ServerTypes ==
    /\ clientTable \in [Shards -> [Clients -> [lastReqId : Nat, reply : {None, REPLY_OK, REPLY_FAIL}]]]
    /\ \A s \in Shards : IsSeq(store[s].log) /\ Prepared(s) \subseteq TxnIds /\ Logged(s) \subseteq TxnIds

TypeInv == ThreadTypes /\ TimerTypes /\ RequestTypes /\ NetworkTypes /\ ServerTypes

\* A client decides only transactions it has begun, and each of them once.
DecidedInv ==
    /\ \A t \in DOMAIN decided :
          /\ t \in TxnIds /\ t[2] <= ntxns[t[1]]
          /\ decided[t].outcome \in Outcomes /\ decided[t].at \subseteq Shards
    /\ \A c \in Clients :
          cpc[c] \in {"execute", "read", "prepare"} => ntxns[c] > 0 /\ TxnId(c) \notin DOMAIN decided

\* The requests of a client: transaction by transaction, a commit or abort is the
\* last one of its transaction.
SentInv(c, s) ==
    /\ \A i \in DOMAIN Sent(c, s) :
          /\ Op(c, s, i) \in Ops
          /\ Id(c, s, i) = <<c, Id(c, s, i)[2]>> /\ Id(c, s, i)[2] \in 1 .. ntxns[c]
          /\ (Op(c, s, i) # "BATCH_GET" /\ Id(c, s, i) = TxnId(c)) => s \in participants[c]
    /\ \A i, j \in DOMAIN Sent(c, s) : i < j =>
          /\ Id(c, s, i)[2] <= Id(c, s, j)[2]
          /\ Op(c, s, i) \in Ending => Id(c, s, i) # Id(c, s, j)

\* What travels was invoked; a logged request that has an answer was executed.
Answered(c, s) ==
    {r \in DOMAIN Sent(c, s) : Op(c, s, r) # "BATCH_GET" => ~Unexecuted(c, s, r)}

NetworkInv(c, s) == Copies(c, s) \subseteq DOMAIN Sent(c, s) /\ ReplyIds(c, s) \subseteq Answered(c, s)

\* Nothing of an earlier transaction is left to execute, and what has no answer
\* of a commit or abort is what the next Begin waits for.
ExecutedInv(c, s) ==
    /\ Last(c, s) <= Len(Sent(c, s))
    /\ Pending(c, s) \subseteq DOMAIN Sent(c, s)
    /\ \A i \in DOMAIN Sent(c, s) : Op(c, s, i) # "BATCH_GET" =>
          /\ i \notin Pending(c, s) => i <= Last(c, s)
          /\ Id(c, s, i) # TxnId(c) => i <= Last(c, s) /\ (Op(c, s, i) = "PREPARE" => i < Last(c, s))
    /\ \A i \in Pending(c, s) : Op(c, s, i) \in Ending =>
          Id(c, s, i) = TxnId(c) /\ Blocking(c, s) = "pending"

\* A commit or abort is what the client decided, and every participant gets one.
DecisionInv(c, s) ==
    /\ \A i \in DOMAIN Sent(c, s), op \in Ending :
          Op(c, s, i) = op => Id(c, s, i) \in DecidedAs(Outcome(op), s)
    /\ \A op \in EndTimers : Timer(c, s) = op =>
          Blocking(c, s) = "pending" /\ TxnId(c) \in DecidedAs(Outcome(op), s)
    /\ \A outcome \in Outcomes : TxnId(c) \in DecidedAs(outcome, s) => s \in participants[c]
    /\ TxnId(c) \in DOMAIN decided =>
          /\ Timer(c, s) # "PREPARE"
          /\ s \in participants[c] =>
                \/ Timer(c, s) \in EndTimers
                \/ \E i \in DOMAIN Sent(c, s) : Op(c, s, i) \in Ending /\ Id(c, s, i) = TxnId(c)
    /\ \A i \in DOMAIN Sent(c, s) : (Op(c, s, i) \in Ending /\ Id(c, s, i) = TxnId(c)) => Timer(c, s) = None

\* Where the transaction thread is tells what it can have sent.
PhaseInv(c, s) ==
    /\ Timer(c, s) # None => ntxns[c] > 0
    /\ Timer(c, s) = "PREPARE" => s \in participants[c]
    /\ (cpc[c] # "prepare" /\ TxnId(c) \notin DOMAIN decided) =>
          /\ Timer(c, s) \in {None, "BATCH_GET"}
          /\ \A i \in DOMAIN Sent(c, s) : Id(c, s, i) = TxnId(c) => Op(c, s, i) = "BATCH_GET"

\* A shard holds prepared only the current transaction of a client, and a commit
\* or abort of it that was sent is still to be executed.
PreparedInv(c, s) ==
    \A t \in Prepared(s) : t[1] = c =>
        /\ t = TxnId(c)
        /\ \E i \in DOMAIN Sent(c, s) : Op(c, s, i) = "PREPARE" /\ Id(c, s, i) = t
        /\ \A i \in DOMAIN Sent(c, s) : (Op(c, s, i) \in Ending /\ Id(c, s, i) = t) => Unexecuted(c, s, i)

\* What a shard has put, the client decided to commit there and the server has
\* executed the commit.
LoggedInv(c, s) ==
    \A t \in Logged(s) : t[1] = c =>
        /\ t \in DecidedAs("commit", s)
        /\ \E i \in DOMAIN Sent(c, s) : Op(c, s, i) = "COMMIT" /\ Id(c, s, i) = t /\ ~Unexecuted(c, s, i)

PairInv(c, s) ==
    /\ SentInv(c, s) /\ NetworkInv(c, s) /\ ExecutedInv(c, s) /\ DecisionInv(c, s)
    /\ PhaseInv(c, s) /\ PreparedInv(c, s) /\ LoggedInv(c, s)

ProtoInv == TypeInv /\ DecidedInv /\ \A c \in Clients, s \in Shards : PairInv(c, s)

-----------------------------------------------------------------------------
(* What a step leaves alone *)

USE Zenon

\* A step that invokes nothing and executes nothing of a client at a shard.
Same(c, s) ==
    /\ Sent(c, s)' = Sent(c, s) /\ Last(c, s)' = Last(c, s) /\ Answered(c, s)' = Answered(c, s)
    /\ \A i : /\ Op(c, s, i)' = Op(c, s, i) /\ Id(c, s, i)' = Id(c, s, i)
              /\ Unexecuted(c, s, i)' <=> Unexecuted(c, s, i)

\* A step that prepares, commits and decides nothing of a client at a shard.
SameTxns(c, s) ==
    \A t : t[1] = c =>
        /\ t \in Prepared(s)' => t \in Prepared(s)
        /\ t \in Logged(s)' => t \in Logged(s)
        /\ t \in DOMAIN decided' <=> t \in DOMAIN decided
        /\ \A outcome : t \in DecidedAs(outcome, s)' <=> t \in DecidedAs(outcome, s)

Kept(c, s) ==
    /\ Same(c, s) /\ SameTxns(c, s)
    /\ cpc'[c] = cpc[c] /\ ntxns'[c] = ntxns[c] /\ participants'[c] = participants[c]
    /\ Timer(c, s)' = Timer(c, s) /\ Blocking(c, s)' = Blocking(c, s) /\ Pending(c, s)' = Pending(c, s)
    /\ Copies(c, s)' = Copies(c, s) /\ ReplyIds(c, s)' = ReplyIds(c, s)

\* Requests of which neither list changes are the same.
LEMMA SameByParts ==
    ASSUME NEW c, NEW s, sent'[c][s] = sent[c][s], clientTable'[s][c] = clientTable[s][c]
    PROVE  Same(c, s)
  <1>1. \A i : Unexecuted(c, s, i)' <=> Unexecuted(c, s, i)
    BY DEF Unexecuted
  <1>2. /\ Sent(c, s)' = Sent(c, s) /\ Last(c, s)' = Last(c, s)
        /\ \A i : Op(c, s, i)' = Op(c, s, i) /\ Id(c, s, i)' = Id(c, s, i)
    BY DEF Sent, Last, Op, Id
  <1>3. Answered(c, s)' = Answered(c, s)
    BY <1>1, <1>2 DEF Answered
  <1> QED BY <1>1, <1>2, <1>3 DEF Same

\* In particular when neither side of the connections changes.
LEMMA SameServers == UNCHANGED <<sent, clientTable>> => \A c, s : Same(c, s)
  BY SameByParts

\* What depends on a variable that a step does not change is the same.
LEMMA Unchanged ==
    /\ UNCHANGED decided => \A outcome, s : DecidedAs(outcome, s)' = DecidedAs(outcome, s)
    /\ UNCHANGED store => \A s : Prepared(s)' = Prepared(s) /\ Logged(s)' = Logged(s)
    /\ UNCHANGED <<store, decided>> => \A c, s : SameTxns(c, s)
    /\ \A c, s : requests'[c][s] = requests[c][s] /\ old'[c][s] = old[c][s] => Copies(c, s)' = Copies(c, s)
    /\ \A c, s : replies'[c][s] = replies[c][s] => ReplyIds(c, s)' = ReplyIds(c, s)
    /\ \A c, s : outbox'[c][s] = outbox[c][s] => Timer(c, s)' = Timer(c, s)
    /\ \A c, s : blockingBegin'[c][s] = blockingBegin[c][s] => Blocking(c, s)' = Blocking(c, s)
    /\ \A c, s : pendingReqs'[c][s] = pendingReqs[c][s] => Pending(c, s)' = Pending(c, s)
    /\ \A c : ntxns'[c] = ntxns[c] => TxnId(c)' = TxnId(c)
  <1>1. UNCHANGED decided => \A outcome, s : DecidedAs(outcome, s)' = DecidedAs(outcome, s)
    BY DEF DecidedAs
  <1>2. UNCHANGED store => \A s : Prepared(s)' = Prepared(s) /\ Logged(s)' = Logged(s)
    BY DEF Prepared, Logged
  <1>3. UNCHANGED <<store, decided>> => \A c, s : SameTxns(c, s)
    BY <1>1, <1>2 DEF SameTxns
  <1>4. \A c, s : requests'[c][s] = requests[c][s] /\ old'[c][s] = old[c][s] => Copies(c, s)' = Copies(c, s)
    BY DEF Copies
  <1>5. \A c, s : replies'[c][s] = replies[c][s] => ReplyIds(c, s)' = ReplyIds(c, s)
    BY DEF ReplyIds
  <1>6. /\ \A c, s : outbox'[c][s] = outbox[c][s] => Timer(c, s)' = Timer(c, s)
        /\ \A c, s : blockingBegin'[c][s] = blockingBegin[c][s] => Blocking(c, s)' = Blocking(c, s)
        /\ \A c, s : pendingReqs'[c][s] = pendingReqs[c][s] => Pending(c, s)' = Pending(c, s)
        /\ \A c : ntxns'[c] = ntxns[c] => TxnId(c)' = TxnId(c)
    BY DEF Timer, Blocking, Pending, TxnId
  <1> QED BY <1>1, <1>2, <1>3, <1>4, <1>5, <1>6

\* What each part of the invariant depends on.
LEMMA Frame ==
    ASSUME NEW c \in Clients, NEW s \in Shards, Same(c, s), ntxns'[c] = ntxns[c],
           participants'[c] = participants[c], SentInv(c, s)
    PROVE  /\ TxnId(c)' = TxnId(c) /\ SentInv(c, s)'
           /\ (/\ NetworkInv(c, s)
               /\ Copies(c, s)' \subseteq Copies(c, s) /\ ReplyIds(c, s)' \subseteq ReplyIds(c, s))
                  => NetworkInv(c, s)'
           /\ ExecutedInv(c, s) /\ Pending(c, s)' = Pending(c, s) /\ Blocking(c, s)' = Blocking(c, s)
                  => ExecutedInv(c, s)'
           /\ (/\ DecisionInv(c, s) /\ SameTxns(c, s)
               /\ Timer(c, s)' = Timer(c, s) /\ Blocking(c, s)' = Blocking(c, s))
                  => DecisionInv(c, s)'
           /\ PhaseInv(c, s) /\ SameTxns(c, s) /\ Timer(c, s)' = Timer(c, s) /\ cpc'[c] = cpc[c]
                  => PhaseInv(c, s)'
           /\ SameTxns(c, s) /\ PreparedInv(c, s) => PreparedInv(c, s)'
           /\ SameTxns(c, s) /\ LoggedInv(c, s) => LoggedInv(c, s)'
  <1>1. TxnId(c)' = TxnId(c) /\ TxnId(c)[1] = c
    BY SMT DEF TxnId
  <1>2. \A i \in DOMAIN Sent(c, s) : Id(c, s, i)[1] = c
    BY SMT DEF SentInv
  <1>3. SentInv(c, s)'
    BY <1>1 DEF SentInv, Same
  <1>4. ASSUME NetworkInv(c, s), Copies(c, s)' \subseteq Copies(c, s), ReplyIds(c, s)' \subseteq ReplyIds(c, s)
        PROVE  NetworkInv(c, s)'
    BY <1>4 DEF NetworkInv, Same
  <1>5. ASSUME ExecutedInv(c, s), Pending(c, s)' = Pending(c, s), Blocking(c, s)' = Blocking(c, s)
        PROVE  ExecutedInv(c, s)'
    BY <1>1, <1>5 DEF ExecutedInv, Same
  <1>6. ASSUME DecisionInv(c, s), SameTxns(c, s), Timer(c, s)' = Timer(c, s), Blocking(c, s)' = Blocking(c, s)
        PROVE  DecisionInv(c, s)'
    BY <1>1, <1>2, <1>6 DEF DecisionInv, Same, SameTxns
  <1>7. ASSUME PhaseInv(c, s), SameTxns(c, s), Timer(c, s)' = Timer(c, s), cpc'[c] = cpc[c] PROVE PhaseInv(c, s)'
    BY <1>1, <1>7 DEF PhaseInv, Same, SameTxns
  <1>8. ASSUME PreparedInv(c, s), SameTxns(c, s) PROVE PreparedInv(c, s)'
    BY <1>1, <1>8 DEF PreparedInv, Same, SameTxns
  <1>9. ASSUME LoggedInv(c, s), SameTxns(c, s) PROVE LoggedInv(c, s)'
    BY <1>1, <1>9 DEF LoggedInv, Same, SameTxns
  <1> QED BY <1>1, <1>3, <1>4, <1>5, <1>6, <1>7, <1>8, <1>9

\* What concerns a client and a shard depends on nothing else.
LEMMA KeptPairInv ==
    ASSUME NEW c \in Clients, NEW s \in Shards, PairInv(c, s), Kept(c, s)
    PROVE  PairInv(c, s)'
  BY Frame DEF PairInv, Kept

\* What a step does not change keeps its type.
LEMMA KeptTypes ==
    ASSUME TypeInv
    PROVE  /\ UNCHANGED <<cpc, ntxns, participants>> => ThreadTypes'
           /\ UNCHANGED <<outbox, blockingBegin>> => TimerTypes'
           /\ UNCHANGED <<sent, pendingReqs>> => RequestTypes'
           /\ UNCHANGED <<requests, old, replies>> => NetworkTypes'
           /\ UNCHANGED <<clientTable, store>> => ServerTypes'
  <1>1. UNCHANGED <<cpc, ntxns, participants>> => ThreadTypes'
    BY DEF TypeInv, ThreadTypes
  <1>2. UNCHANGED <<outbox, blockingBegin>> => TimerTypes'
    BY DEF TypeInv, TimerTypes
  <1>3. UNCHANGED <<sent, pendingReqs>> => RequestTypes'
    BY DEF TypeInv, RequestTypes, Grid, Sent
  <1>4. UNCHANGED <<requests, old, replies>> => NetworkTypes'
    BY DEF TypeInv, NetworkTypes, Grid
  <1>5. UNCHANGED <<clientTable, store>> => ServerTypes'
    BY DEF TypeInv, ServerTypes, Logged, Prepared
  <1> QED BY <1>1, <1>2, <1>3, <1>4, <1>5

\* Of two requests of a transaction the commit or abort is the later one.
LEMMA EndingIsLast ==
    ASSUME NEW c \in Clients, NEW s \in Shards, SentInv(c, s), IsSeq(Sent(c, s)),
           NEW i \in DOMAIN Sent(c, s), NEW j \in DOMAIN Sent(c, s),
           Op(c, s, i) \in Ending, Id(c, s, i) = Id(c, s, j)
    PROVE  j <= i
  <1>1. i \in Nat /\ j \in Nat
    BY SeqDomain, SMT
  <1>2. ~(i < j)
    BY DEF SentInv
  <1> QED BY <1>1, <1>2, SMT

\* The parts of the invariant, for a client and a shard.
LEMMA PairParts ==
    ASSUME ProtoInv, NEW c \in Clients, NEW s \in Shards
    PROVE  /\ SentInv(c, s) /\ NetworkInv(c, s) /\ ExecutedInv(c, s) /\ DecisionInv(c, s)
           /\ PhaseInv(c, s) /\ PreparedInv(c, s) /\ LoggedInv(c, s)
  BY DEF ProtoInv, PairInv

\* The types of what concerns a client and a shard.
LEMMA PairTypes ==
    ASSUME ProtoInv, NEW c \in Clients, NEW s \in Shards
    PROVE  /\ IsSeq(Sent(c, s)) /\ Len(Sent(c, s)) \in Nat /\ DOMAIN Sent(c, s) = 1 .. Len(Sent(c, s))
           /\ \A i \in DOMAIN Sent(c, s) : i \in Nat
           /\ Last(c, s) \in Nat /\ ntxns[c] \in Nat
           /\ Timer(c, s) \in {None, "BATCH_GET", "PREPARE"} \cup EndTimers
           /\ Blocking(c, s) \in {None, "pending", "done"} /\ Pending(c, s) \in SUBSET Nat
           /\ \A i : Unexecuted(c, s, i) <=> i > Last(c, s)
           /\ TxnId(c) = <<c, ntxns[c]>>
  <1>1. IsSeq(Sent(c, s)) /\ Len(Sent(c, s)) \in Nat /\ DOMAIN Sent(c, s) = 1 .. Len(Sent(c, s))
    BY SeqDomain DEF ProtoInv, TypeInv, RequestTypes
  <1>2. \A i \in DOMAIN Sent(c, s) : i \in Nat
    BY <1>1, SMT
  <1>3. Last(c, s) \in Nat
    BY SMT DEF ProtoInv, TypeInv, ServerTypes, Last
  <1>4. ntxns[c] \in Nat
    BY SMT, StrongAssumption DEF ProtoInv, TypeInv, ThreadTypes
  <1>5. /\ Timer(c, s) \in {None, "BATCH_GET", "PREPARE"} \cup EndTimers
        /\ Blocking(c, s) \in {None, "pending", "done"} /\ Pending(c, s) \in SUBSET Nat
    BY DEF ProtoInv, TypeInv, TimerTypes, RequestTypes, Timer, Blocking, Pending
  <1>6. (\A i : Unexecuted(c, s, i) <=> i > Last(c, s)) /\ TxnId(c) = <<c, ntxns[c]>>
    BY DEF Unexecuted, Last, TxnId
  <1> QED BY <1>1, <1>2, <1>3, <1>4, <1>5, <1>6

-----------------------------------------------------------------------------
(* The transaction thread *)

\* When Begin returns, nothing of the last transaction is left to execute: its
\* commit or abort was answered, and it was the last request.
LEMMA LastIsExecuted ==
    ASSUME ProtoInv, NEW c \in Clients, NEW s \in Shards, cpc[c] = "idle", Blocking(c, s) # "pending"
    PROVE  /\ Timer(c, s) \in {None, "BATCH_GET"}
           /\ \A i \in DOMAIN Sent(c, s) : Op(c, s, i) # "BATCH_GET" /\ Id(c, s, i) = TxnId(c) =>
                 \E f \in DOMAIN Sent(c, s) : /\ Op(c, s, f) \in Ending /\ Id(c, s, f) = TxnId(c)
                                              /\ f \notin Pending(c, s) /\ i <= f /\ f <= Last(c, s)
  <1>1. Timer(c, s) \in {None, "BATCH_GET"}
    <2>1. CASE TxnId(c) \in DOMAIN decided
      BY <2>1, PairTypes, PairParts DEF DecisionInv
    <2>2. CASE TxnId(c) \notin DOMAIN decided
      BY <2>2, PairParts DEF PhaseInv
    <2> QED BY <2>1, <2>2
  <1>2. ASSUME NEW i \in DOMAIN Sent(c, s), Op(c, s, i) # "BATCH_GET", Id(c, s, i) = TxnId(c)
        PROVE  \E f \in DOMAIN Sent(c, s) : /\ Op(c, s, f) \in Ending /\ Id(c, s, f) = TxnId(c)
                                            /\ f \notin Pending(c, s) /\ i <= f /\ f <= Last(c, s)
    <2>1. TxnId(c) \in DOMAIN decided /\ s \in participants[c]
      BY <1>2, PairParts DEF PhaseInv, SentInv
    <2>2. PICK f \in DOMAIN Sent(c, s) : Op(c, s, f) \in Ending /\ Id(c, s, f) = TxnId(c)
      BY <1>1, <2>1, PairParts DEF DecisionInv, EndTimers, None
    <2>3. i <= f
      BY <1>2, <2>2, EndingIsLast, PairTypes, PairParts
    <2>4. f \notin Pending(c, s) /\ f <= Last(c, s)
      BY <2>2, PairParts DEF ExecutedInv, Ending
    <2> QED BY <2>2, <2>3, <2>4
  <1> QED BY <1>1, <1>2

\* Begin waits until the commit or abort before it was answered at every shard.
LEMMA BeginProto ==
    ASSUME ProtoInv, NEW c \in Clients, NEW w \in Workload, Begin(c, w)
    PROVE  ProtoInv'
  <1>1. /\ cpc' = [cpc EXCEPT ![c] = "execute"]
        /\ ntxns' = [ntxns EXCEPT ![c] = ntxns[c] + 1]
        /\ ntxns[c] < MaxTxns /\ cpc[c] = "idle"
        /\ participants' = [participants EXCEPT ![c] = {ShardOf[k] : k \in w.reads \cup w.writes}]
        /\ blockingBegin' = [blockingBegin EXCEPT ![c] = [s \in Shards |-> None]]
        /\ \A s \in Shards : blockingBegin[c][s] # "pending"
        /\ UNCHANGED <<outbox, sent, pendingReqs, requests, replies, old, store, clientTable, decided>>
    BY DEF Begin, BeginMayReturn, network, servers
  <1>2. TypeInv'
    <2>1. {ShardOf[k] : k \in w.reads \cup w.writes} \subseteq Shards
      BY StrongAssumption
    <2>2. ThreadTypes'
      BY <1>1, <2>1, StrongAssumption, SMT DEF ProtoInv, TypeInv, ThreadTypes
    <2>3. TimerTypes'
      BY <1>1 DEF ProtoInv, TypeInv, TimerTypes
    <2> QED BY <1>1, <2>2, <2>3, KeptTypes DEF ProtoInv, TypeInv
  <1>3. /\ cpc'[c] = "execute" /\ ntxns'[c] = ntxns[c] + 1 /\ ntxns[c] \in Nat
        /\ \A d \in Clients : d # c =>
              /\ cpc'[d] = cpc[d] /\ ntxns'[d] = ntxns[d] /\ participants'[d] = participants[d]
              /\ blockingBegin'[d] = blockingBegin[d]
        /\ \A s \in Shards : Blocking(c, s)' = None /\ Blocking(c, s) # "pending"
    <2>1. ntxns[c] \in Nat
      BY StrongAssumption, SMT DEF ProtoInv, TypeInv, ThreadTypes
    <2> QED BY <1>1, <2>1 DEF ProtoInv, TypeInv, ThreadTypes, TimerTypes, Blocking
  <1>4. TxnId(c)' = <<c, ntxns[c] + 1>> /\ TxnId(c) = <<c, ntxns[c]>>
    BY <1>3 DEF TxnId
  <1>5. DecidedInv'
    <2>1. \A t \in DOMAIN decided : t \in TxnIds /\ t[2] <= ntxns[t[1]] /\ t[2] <= ntxns'[t[1]]
      BY <1>1, SMT DEF ProtoInv, TypeInv, ThreadTypes, DecidedInv, TxnIds
    <2>2. TxnId(c)' \notin DOMAIN decided /\ ntxns'[c] > 0
      BY <1>3, <1>4, <2>1, SMT DEF ProtoInv, DecidedInv
    <2>3. \A d \in Clients : d # c => TxnId(d)' = TxnId(d)
      BY <1>3, Unchanged
    <2> QED BY <1>1, <1>3, <2>1, <2>2, <2>3 DEF ProtoInv, DecidedInv
  <1>s. \A d \in Clients, s \in Shards :
          /\ Same(d, s) /\ SameTxns(d, s) /\ Timer(d, s)' = Timer(d, s) /\ Pending(d, s)' = Pending(d, s)
          /\ Copies(d, s)' = Copies(d, s) /\ ReplyIds(d, s)' = ReplyIds(d, s)
    BY <1>1, SameServers, Unchanged
  <1>6. \A d \in Clients, s \in Shards : d # c => Kept(d, s)
    BY <1>3, <1>s, Unchanged DEF Kept
  <1>7. ASSUME NEW s \in Shards PROVE PairInv(c, s)'
    <2>t. /\ SentInv(c, s) /\ NetworkInv(c, s) /\ ExecutedInv(c, s) /\ DecisionInv(c, s)
          /\ PhaseInv(c, s) /\ PreparedInv(c, s) /\ LoggedInv(c, s)
          /\ (\A i \in DOMAIN Sent(c, s) : i \in Nat) /\ Last(c, s) \in Nat
          /\ \A i : Unexecuted(c, s, i) <=> i > Last(c, s)
      BY PairTypes, PairParts
    <2>d. Prepared(s)' = Prepared(s) /\ Logged(s)' = Logged(s) /\ \A o : DecidedAs(o, s)' = DecidedAs(o, s)
      BY <1>1, Unchanged
    <2>1. \A i \in DOMAIN Sent(c, s) : Id(c, s, i) # TxnId(c)'
      BY <1>3, <1>4, <2>t, SMT DEF SentInv
    <2>2. TxnId(c)' \notin DOMAIN decided /\ \A outcome : TxnId(c)' \notin DecidedAs(outcome, s)
      BY <1>1, <1>3, <1>5 DEF DecidedInv, DecidedAs
    <2>3. SentInv(c, s)'
      <3>1. \A i \in DOMAIN Sent(c, s) : Id(c, s, i)[2] \in 1 .. ntxns'[c]
        BY <1>3, <2>t, SMT DEF SentInv
      <3>2. DOMAIN Sent(c, s)' = DOMAIN Sent(c, s) /\ \A i : Op(c, s, i)' = Op(c, s, i) /\ Id(c, s, i)' = Id(c, s, i)
        BY <1>s DEF Same
      <3>3. \A i \in DOMAIN Sent(c, s) : Op(c, s, i) \in Ops /\ Id(c, s, i) = <<c, Id(c, s, i)[2]>>
        BY <2>t DEF SentInv
      <3>4. \A i, j \in DOMAIN Sent(c, s) : i < j =>
              /\ Id(c, s, i)[2] <= Id(c, s, j)[2]
              /\ Op(c, s, i) \in Ending => Id(c, s, i) # Id(c, s, j)
        BY <2>t DEF SentInv
      <3> QED BY <2>1, <3>1, <3>2, <3>3, <3>4 DEF SentInv
    <2>4. NetworkInv(c, s)'
      BY <1>s, <2>t DEF NetworkInv, Same
    <2>5. ExecutedInv(c, s)'
      <3>1. ASSUME NEW i \in DOMAIN Sent(c, s), Op(c, s, i) # "BATCH_GET"
            PROVE  i <= Last(c, s) /\ (Op(c, s, i) = "PREPARE" => i < Last(c, s))
        <4>1. CASE Id(c, s, i) # TxnId(c)
          BY <2>t, <3>1, <4>1 DEF ExecutedInv
        <4>2. CASE Id(c, s, i) = TxnId(c)
          <5>1. PICK f \in DOMAIN Sent(c, s) : Op(c, s, f) \in Ending /\ i <= f /\ f <= Last(c, s)
            BY <1>1, <1>3, <3>1, <4>2, LastIsExecuted
          <5>2. i \in Nat /\ f \in Nat /\ Last(c, s) \in Nat
            BY <2>t
          <5>3. CASE i = f
            BY <5>1, <5>3 DEF Ending
          <5>4. CASE i # f
            BY <5>1, <5>2, <5>4, SMT
          <5> QED BY <5>3, <5>4
        <4> QED BY <4>1, <4>2
      <3>2. \A i \in Pending(c, s) : Op(c, s, i) \notin Ending
        BY <1>3, <2>t DEF ExecutedInv
      <3> QED BY <1>s, <2>t, <3>1, <3>2 DEF ExecutedInv, Same
    <2>6. Timer(c, s) \in {None, "BATCH_GET"}
      BY <1>1, <1>3, LastIsExecuted
    <2>7. DecisionInv(c, s)'
      <3>1. \A i \in DOMAIN Sent(c, s), op \in Ending :
              Op(c, s, i) = op => Id(c, s, i) \in DecidedAs(Outcome(op), s)'
        BY <2>t, <2>d DEF DecisionInv
      <3>2. \A outcome : TxnId(c)' \notin DecidedAs(outcome, s)'
        BY <2>2, <2>d
      <3> QED BY <1>1, <1>s, <2>1, <2>2, <2>6, <3>1, <3>2 DEF DecisionInv, EndTimers, None, Same
    <2>8. PhaseInv(c, s)'
      <3>1. ntxns'[c] > 0
        BY <1>3, SMT
      <3> QED BY <1>3, <1>s, <2>1, <2>6, <3>1 DEF PhaseInv, None, Same
    <2>9. PreparedInv(c, s)'
      <3>1. ASSUME NEW t \in Prepared(s), t[1] = c PROVE FALSE
        <4>1. PICK i \in DOMAIN Sent(c, s) : Op(c, s, i) = "PREPARE" /\ Id(c, s, i) = t
          BY <2>t, <3>1 DEF PreparedInv
        <4>2. /\ t = TxnId(c)
              /\ \A f \in DOMAIN Sent(c, s) : (Op(c, s, f) \in Ending /\ Id(c, s, f) = t) => Unexecuted(c, s, f)
          BY <2>t, <3>1 DEF PreparedInv
        <4>3. PICK f \in DOMAIN Sent(c, s) : Op(c, s, f) \in Ending /\ Id(c, s, f) = t /\ f <= Last(c, s)
          BY <1>1, <1>3, <4>1, <4>2, LastIsExecuted
        <4>4. f > Last(c, s)
          BY <2>t, <4>2, <4>3
        <4>5. f \in Nat /\ Last(c, s) \in Nat
          BY <2>t
        <4> QED BY <4>3, <4>4, <4>5, SMT
      <3> QED BY <2>d, <3>1 DEF PreparedInv
    <2>10. LoggedInv(c, s)'
      BY <1>s, <2>t, <2>d DEF LoggedInv, Same
    <2> QED BY <2>3, <2>4, <2>5, <2>7, <2>8, <2>9, <2>10 DEF PairInv
  <1> QED BY <1>2, <1>5, <1>6, <1>7, KeptPairInv DEF ProtoInv

\* The other steps of the thread that send nothing.
LEMMA MoveProto ==
    ASSUME ProtoInv, NEW c \in Clients, ReadReturns(c) \/ EndReads(c) \/ CommitReturns(c)
    PROVE  ProtoInv'
  <1>1. /\ \/ cpc[c] = "read" /\ cpc' = [cpc EXCEPT ![c] = "execute"]
           \/ cpc[c] = "execute" /\ cpc' = [cpc EXCEPT ![c] = "idle"]
           \/ cpc[c] = "execute" /\ cpc' = [cpc EXCEPT ![c] = "down"]
           \/ cpc[c] = "commit" /\ cpc' = [cpc EXCEPT ![c] = "idle"]
        /\ UNCHANGED <<ntxns, participants, outbox, blockingBegin, sent, pendingReqs, requests, replies,
                       old, store, clientTable, decided>>
    BY DEF ReadReturns, EndReads, CommitReturns, shardclient, network, servers, history
  <1>s. \A d \in Clients, s \in Shards :
          /\ Same(d, s) /\ SameTxns(d, s) /\ Timer(d, s)' = Timer(d, s) /\ Blocking(d, s)' = Blocking(d, s)
          /\ Pending(d, s)' = Pending(d, s) /\ Copies(d, s)' = Copies(d, s) /\ ReplyIds(d, s)' = ReplyIds(d, s)
    BY <1>1, SameServers, Unchanged
  <1>2. TypeInv'
    <2>1. ThreadTypes'
      BY <1>1 DEF ProtoInv, TypeInv, ThreadTypes
    <2> QED BY <1>1, <2>1, KeptTypes DEF ProtoInv, TypeInv
  <1>3. /\ \A d \in Clients : d # c => cpc'[d] = cpc[d]
        /\ \/ cpc[c] = "read" /\ cpc'[c] = "execute"
           \/ cpc[c] \in {"execute", "commit"} /\ cpc'[c] \in {"idle", "down"}
    BY <1>1 DEF ProtoInv, TypeInv, ThreadTypes
  <1>4. DecidedInv'
    BY <1>1, <1>3, Unchanged DEF ProtoInv, DecidedInv
  <1>5. \A d \in Clients, s \in Shards : d # c => Kept(d, s)
    BY <1>1, <1>3, <1>s DEF Kept
  <1>6. ASSUME NEW s \in Shards PROVE PairInv(c, s)'
    <2>1. PairInv(c, s) /\ TxnId(c)' = TxnId(c) /\ cpc[c] # "prepare" /\ UNCHANGED <<ntxns, participants, decided>>
      BY <1>1, <1>3, Unchanged DEF ProtoInv
    <2>2. PhaseInv(c, s)'
      BY <1>s, <2>1 DEF PairInv, PhaseInv, Same
    <2> QED BY <1>1, <1>s, <2>1, <2>2, Frame DEF PairInv
  <1> QED BY <1>2, <1>4, <1>5, <1>6, KeptPairInv DEF ProtoInv

\* What the two ways to schedule have in common.
Schedules(c) ==
    /\ cpc'[c] \in {"read", "prepare"}
    /\ cpc'[c] = "read" => cpc[c] = "execute"
    /\ \A d \in Clients : d # c => cpc'[d] = cpc[d]
    /\ cpc' \in [Clients -> {"idle", "execute", "read", "prepare", "commit", "down"}]
    /\ \A s \in Shards :
          \/ Timer(c, s)' = Timer(c, s)
          \/ Timer(c, s)' = "BATCH_GET" /\ cpc'[c] = "read"
          \/ Timer(c, s)' = "PREPARE" /\ cpc'[c] = "prepare" /\ s \in participants[c]
    /\ \A d \in Clients, s \in Shards : d # c => Timer(d, s)' = Timer(d, s)
    /\ outbox' \in [Clients -> [Shards -> {None, "BATCH_GET", "PREPARE"} \cup EndTimers]]

\* A read or a round of prepares is scheduled only while the transaction is not
\* decided.
LEMMA ScheduleProto ==
    ASSUME ProtoInv, NEW c \in Clients,
           \/ \E s \in Shards : ClientBatchGet(c, s)
           \/ StartPrepare(c)
           \/ RetryPrepare(c)
    PROVE  ProtoInv'
  <1>1. /\ UNCHANGED <<ntxns, participants, blockingBegin, sent, pendingReqs, requests, replies,
                       old, store, clientTable, decided>>
        /\ cpc[c] \in {"execute", "prepare"}
        /\ \/ /\ cpc[c] = "execute" /\ cpc' = [cpc EXCEPT ![c] = "read"]
              /\ \E s \in Shards : outbox' = [outbox EXCEPT ![c][s] = "BATCH_GET"]
           \/ /\ cpc' = [cpc EXCEPT ![c] = "prepare"]
              /\ ScheduleAll(c, "PREPARE")
    BY DEF ClientBatchGet, StartPrepare, RetryPrepare, ClientPrepare, network, servers, history
  <1>u. UNCHANGED <<ntxns, participants, decided>>
    BY <1>1
  <1>s. \A d \in Clients, s \in Shards :
          /\ Same(d, s) /\ SameTxns(d, s) /\ Blocking(d, s)' = Blocking(d, s)
          /\ Pending(d, s)' = Pending(d, s) /\ Copies(d, s)' = Copies(d, s) /\ ReplyIds(d, s)' = ReplyIds(d, s)
    BY <1>1, SameServers, Unchanged
  <1>2. Schedules(c)
    <2>1. ASSUME NEW z \in Shards, cpc[c] = "execute", cpc' = [cpc EXCEPT ![c] = "read"],
                 outbox' = [outbox EXCEPT ![c][z] = "BATCH_GET"]
          PROVE  Schedules(c)
      <3>1. /\ cpc'[c] = "read" /\ \A d \in Clients : d # c => cpc'[d] = cpc[d]
            /\ cpc' \in [Clients -> {"idle", "execute", "read", "prepare", "commit", "down"}]
        BY <2>1 DEF ProtoInv, TypeInv, ThreadTypes
      <3>2. Updated(outbox, outbox', c, z, "BATCH_GET")
            /\ outbox' \in [Clients -> [Shards -> {None, "BATCH_GET", "PREPARE"} \cup EndTimers]]
        BY <2>1, GridUpdate, GridTypes DEF ProtoInv, TypeInv, TimerTypes
      <3> QED BY <2>1, <3>1, <3>2 DEF Schedules, Updated, Timer
    <2>2. ASSUME cpc' = [cpc EXCEPT ![c] = "prepare"], ScheduleAll(c, "PREPARE")
          PROVE  Schedules(c)
      <3>1. /\ cpc'[c] = "prepare" /\ \A d \in Clients : d # c => cpc'[d] = cpc[d]
            /\ cpc' \in [Clients -> {"idle", "execute", "read", "prepare", "commit", "down"}]
        BY <2>2 DEF ProtoInv, TypeInv, ThreadTypes
      <3>2. /\ \A s \in Shards : outbox'[c][s] = IF s \in participants[c] THEN "PREPARE" ELSE outbox[c][s]
            /\ \A d \in Clients : d # c => outbox'[d] = outbox[d]
            /\ outbox' \in [Clients -> [Shards -> {None, "BATCH_GET", "PREPARE"} \cup EndTimers]]
        BY <2>2 DEF ProtoInv, TypeInv, TimerTypes, ScheduleAll
      <3> QED BY <3>1, <3>2 DEF Schedules, Timer
    <2> QED BY <1>1, <2>1, <2>2
  <1>3. TypeInv'
    <2>1. ThreadTypes'
      BY <1>1, <1>2 DEF ProtoInv, TypeInv, ThreadTypes, Schedules
    <2>2. TimerTypes'
      BY <1>1, <1>2 DEF ProtoInv, TypeInv, TimerTypes, Schedules
    <2> QED BY <1>1, <2>1, <2>2, KeptTypes DEF ProtoInv, TypeInv
  <1>4. TxnId(c) \notin DOMAIN decided /\ ntxns[c] > 0 /\ \A d \in Clients : TxnId(d)' = TxnId(d)
    BY <1>1, Unchanged DEF ProtoInv, DecidedInv
  <1>5. DecidedInv'
    BY <1>1, <1>2, <1>4 DEF ProtoInv, DecidedInv, Schedules
  <1>6. \A d \in Clients, s \in Shards : d # c => Kept(d, s)
    BY <1>1, <1>2, <1>s DEF Kept, Schedules
  <1>7. ASSUME NEW s \in Shards PROVE PairInv(c, s)'
    <2>1. \A outcome, z : TxnId(c) \notin DecidedAs(outcome, z)
      BY <1>4 DEF DecidedAs
    <2>2. \A i \in DOMAIN Sent(c, s) : Op(c, s, i) \in Ending => Id(c, s, i) # TxnId(c)
      BY <2>1, PairParts DEF DecisionInv, Ending
    <2>3. \A op \in EndTimers : Timer(c, s)' # op
      <3>1. \A op \in EndTimers : Timer(c, s) # op
        BY <2>1, PairParts DEF DecisionInv
      <3> QED BY <1>2, <3>1 DEF EndTimers, Schedules
    <2>4. DecisionInv(c, s)'
      <3>1. \A outcome : DecidedAs(outcome, s)' = DecidedAs(outcome, s)
        BY <1>1, Unchanged
      <3>2. \A i \in DOMAIN Sent(c, s), op \in Ending : Op(c, s, i) = op => Id(c, s, i) \in DecidedAs(Outcome(op), s)
        BY PairParts DEF DecisionInv
      <3> QED BY <1>u, <1>4, <1>s, <2>1, <2>2, <2>3, <3>1, <3>2, ZenonT(40) DEF DecisionInv, Same
    <2>5. PhaseInv(c, s)'
      <3>1. Timer(c, s)' = "PREPARE" => s \in participants[c]
        BY <1>2, PairParts DEF PhaseInv, Schedules
      <3>2. CASE cpc'[c] = "prepare"
        BY <1>u, <1>4, <3>1, <3>2 DEF PhaseInv
      <3>3. CASE cpc'[c] = "read"
        <4>1. cpc[c] = "execute" /\ PhaseInv(c, s)
          BY <1>2, <3>3, PairParts DEF Schedules
        <4>2. Timer(c, s)' \in {None, "BATCH_GET"}
          BY <1>2, <1>4, <3>3, <4>1 DEF PhaseInv, Schedules
        <4>3. \A i \in DOMAIN Sent(c, s) : Id(c, s, i) = TxnId(c) => Op(c, s, i) = "BATCH_GET"
          BY <1>4, <4>1 DEF PhaseInv
        <4> QED BY <1>u, <1>4, <1>s, <3>1, <4>2, <4>3, SMT DEF PhaseInv, Same
      <3> QED BY <1>2, <3>2, <3>3 DEF Schedules
    <2>6. SentInv(c, s) /\ NetworkInv(c, s) /\ ExecutedInv(c, s) /\ PreparedInv(c, s) /\ LoggedInv(c, s)
      BY PairParts
    <2> QED BY <1>1, <1>s, <2>4, <2>5, <2>6, Frame DEF PairInv
  <1> QED BY <1>3, <1>5, <1>6, <1>7, KeptPairInv DEF ProtoInv

\* The decision is one for all: from then on every participant has a commit or
\* abort scheduled or sent.
LEMMA DecideProto ==
    ASSUME ProtoInv, NEW c \in Clients,
           (\E wait \in BOOLEAN : DecideCommit(c, wait)) \/ DecideAbort(c)
    PROVE  ProtoInv'
  <1>1. PICK timer \in EndTimers, phase \in {"idle", "commit"} :
            /\ cpc[c] = "prepare" /\ cpc' = [cpc EXCEPT ![c] = phase]
            /\ ScheduleAll(c, timer) /\ BlockBegin(c) /\ Decide(c, Outcome(timer))
            /\ UNCHANGED <<ntxns, participants, sent, pendingReqs, requests, replies, old, store, clientTable>>
    <2>1. CASE DecideAbort(c)
      BY <2>1 DEF DecideAbort, EndTimers, Outcome, network, servers
    <2>2. ASSUME NEW wait \in BOOLEAN, DecideCommit(c, wait)
          PROVE  \E timer \in {"COMMIT", "COMMIT_NOWAIT"}, phase \in {"idle", "commit"} :
                    /\ cpc[c] = "prepare" /\ cpc' = [cpc EXCEPT ![c] = phase]
                    /\ ScheduleAll(c, timer) /\ BlockBegin(c) /\ Decide(c, "commit")
                    /\ UNCHANGED <<ntxns, participants, sent, pendingReqs, requests, replies, old, store,
                                   clientTable>>
      BY <2>2 DEF DecideCommit, network, servers
    <2> QED BY <2>1, <2>2 DEF EndTimers, Outcome
  <1>u. UNCHANGED <<ntxns, participants, sent, pendingReqs, requests, replies, old, store, clientTable>>
    BY <1>1
  <1>s. \A d \in Clients, s \in Shards :
          /\ Same(d, s) /\ Pending(d, s)' = Pending(d, s) /\ Prepared(s)' = Prepared(s) /\ Logged(s)' = Logged(s)
          /\ Copies(d, s)' = Copies(d, s) /\ ReplyIds(d, s)' = ReplyIds(d, s) /\ TxnId(d)' = TxnId(d)
    BY <1>u, SameServers, Unchanged
  <1>2. PICK t : /\ t = TxnId(c) /\ t[1] = c /\ t[2] = ntxns[c] /\ t \in TxnIds
                 /\ t \notin DOMAIN decided /\ \A d \in Clients : d # c => TxnId(d) # t
    <2>1. ntxns[c] \in 0 .. MaxTxns /\ TxnId(c) \notin DOMAIN decided /\ ntxns[c] > 0
      BY <1>1 DEF ProtoInv, TypeInv, ThreadTypes, DecidedInv
    <2>2. TxnId(c)[1] = c /\ TxnId(c)[2] = ntxns[c] /\ TxnId(c) \in TxnIds /\ \A d : d # c => TxnId(d) # TxnId(c)
      BY <2>1, StrongAssumption, SMT DEF TxnId, TxnIds
    <2> QED BY <2>1, <2>2
  <1>3. /\ DOMAIN decided' = DOMAIN decided \cup {t}
        /\ decided'[t].outcome = Outcome(timer) /\ decided'[t].at = participants[c]
        /\ \A u \in DOMAIN decided : decided'[u] = decided[u]
    <2>1. decided' = With(decided, t, [outcome |-> Outcome(timer), at |-> participants[c]])
      BY <1>1, <1>2 DEF Decide
    <2> QED BY <1>2, <2>1 DEF With
  <1>4. \A s \in Shards : \A outcome :
          /\ \A u : u # t => (u \in DecidedAs(outcome, s)' <=> u \in DecidedAs(outcome, s))
          /\ t \notin DecidedAs(outcome, s)
          /\ t \in DecidedAs(outcome, s)' <=> outcome = Outcome(timer) /\ s \in participants[c]
    BY <1>2, <1>3 DEF DecidedAs
  <1>5. /\ \A d \in Clients, s \in Shards :
              IF d = c /\ s \in participants[c] THEN Timer(d, s)' = timer /\ Blocking(d, s)' = "pending"
              ELSE Timer(d, s)' = Timer(d, s) /\ Blocking(d, s)' = Blocking(d, s)
        /\ TimerTypes'
    BY <1>1 DEF ProtoInv, TypeInv, TimerTypes, ThreadTypes, ScheduleAll, BlockBegin, Timer, Blocking
  <1>6. /\ cpc'[c] \in {"idle", "commit"} /\ \A d \in Clients : d # c => cpc'[d] = cpc[d]
        /\ ThreadTypes'
    BY <1>1 DEF ProtoInv, TypeInv, ThreadTypes
  <1>7. TypeInv'
    BY <1>u, <1>5, <1>6, KeptTypes DEF ProtoInv, TypeInv
  <1>8. DecidedInv'
    <2>1. participants[c] \subseteq Shards /\ Outcome(timer) \in Outcomes
      BY DEF ProtoInv, TypeInv, ThreadTypes, Outcome, Outcomes
    <2>2. t[2] <= ntxns[t[1]]
      BY <1>2, PairTypes, SMT DEF ProtoInv, TypeInv, ThreadTypes
    <2>3. \A u \in DOMAIN decided' :
            /\ u \in TxnIds /\ u[2] <= ntxns[u[1]]
            /\ decided'[u].outcome \in Outcomes /\ decided'[u].at \subseteq Shards
      BY <1>2, <1>3, <2>1, <2>2 DEF ProtoInv, DecidedInv
    <2>4. \A d \in Clients : cpc'[d] \in {"execute", "read", "prepare"} => ntxns[d] > 0 /\ TxnId(d) \notin DOMAIN decided'
      BY <1>2, <1>3, <1>6 DEF ProtoInv, DecidedInv
    <2>5. \A d \in Clients : TxnId(d)' = TxnId(d)
      BY <1>u, Unchanged
    <2> QED BY <1>u, <2>3, <2>4, <2>5 DEF DecidedInv
  <1>9. ASSUME NEW d \in Clients, NEW s \in Shards, d # c PROVE Kept(d, s)
    <2>1. SameTxns(d, s)
      BY <1>2, <1>3, <1>4, <1>9, <1>s DEF SameTxns
    <2> QED BY <1>u, <1>5, <1>6, <1>9, <1>s, <2>1 DEF Kept
  <1>10. ASSUME NEW s \in Shards PROVE PairInv(c, s)'
    <2>1. /\ SentInv(c, s) /\ NetworkInv(c, s) /\ ExecutedInv(c, s) /\ DecisionInv(c, s)
          /\ PhaseInv(c, s) /\ PreparedInv(c, s) /\ LoggedInv(c, s)
      BY PairParts
    <2>s. Same(c, s) /\ Pending(c, s)' = Pending(c, s) /\ TxnId(c)' = TxnId(c)
          /\ Prepared(s)' = Prepared(s) /\ Logged(s)' = Logged(s)
      BY <1>s
    <2>2. SentInv(c, s)' /\ NetworkInv(c, s)'
      BY <1>u, <1>s, <2>1, Frame
    <2>3. \A i \in DOMAIN Sent(c, s) : Op(c, s, i) \in Ending => Id(c, s, i) # t
      BY <1>4, <2>1 DEF DecisionInv
    <2>4. ExecutedInv(c, s)'
      <3>1. \A i \in Pending(c, s) : Op(c, s, i) \notin Ending
        BY <1>2, <2>1, <2>3 DEF ExecutedInv
      <3> QED BY <2>s, <2>1, <3>1 DEF ExecutedInv, Same
    <2>5. Timer(c, s) \notin EndTimers /\ Timer(c, s)' # "PREPARE"
      <3>1. Timer(c, s) \notin EndTimers
        BY <1>2, <1>4, <2>1 DEF DecisionInv
      <3> QED BY <1>5, <2>1, <3>1 DEF PhaseInv, EndTimers
    <2>6. DecisionInv(c, s)'
      <3>1. \A i \in DOMAIN Sent(c, s), op \in Ending : Op(c, s, i) = op => Id(c, s, i) \in DecidedAs(Outcome(op), s)'
        BY <1>4, <2>1, <2>3 DEF DecisionInv
      <3>2. \A op \in EndTimers : Timer(c, s)' = op =>
              op = timer /\ Blocking(c, s)' = "pending" /\ t \in DecidedAs(Outcome(op), s)'
        BY <1>4, <1>5, <2>5
      <3>3. s \in participants[c] => Timer(c, s)' \in EndTimers
        BY <1>5
      <3>4. \A outcome : t \in DecidedAs(outcome, s)' => s \in participants[c]
        BY <1>4
      <3> QED BY <1>u, <1>2, <2>s, <2>3, <2>5, <3>1, <3>2, <3>3, <3>4 DEF DecisionInv, Same
    <2>7. PhaseInv(c, s)'
      <3>1. t \in DOMAIN decided' /\ TxnId(c)' = t
        BY <1>2, <1>3, <2>s
      <3>2. ntxns[c] > 0
        BY <1>1 DEF ProtoInv, DecidedInv
      <3> QED BY <1>u, <2>5, <3>1, <3>2 DEF PhaseInv
    <2>8. PreparedInv(c, s)'
      BY <2>s, <2>1 DEF PreparedInv, Same
    <2>9. LoggedInv(c, s)'
      BY <1>4, <2>s, <2>1 DEF LoggedInv, Same
    <2> QED BY <2>2, <2>4, <2>6, <2>7, <2>8, <2>9 DEF PairInv
  <1> QED BY <1>7, <1>8, <1>9, <1>10, KeptPairInv DEF ProtoInv

-----------------------------------------------------------------------------
(* The transport thread *)

\* What RunTimer does: the scheduled request is invoked under id n.
Invokes(c, s, n, op) ==
    /\ DOMAIN Sent(c, s)' = DOMAIN Sent(c, s) \cup {n} /\ n \notin DOMAIN Sent(c, s)
    /\ Len(Sent(c, s)') = n /\ n = Len(Sent(c, s)) + 1 /\ IsSeq(Sent(c, s)')
    /\ \A i \in DOMAIN Sent(c, s) : Op(c, s, i)' = Op(c, s, i) /\ Id(c, s, i)' = Id(c, s, i) /\ i < n
    /\ Op(c, s, n)' = op /\ Id(c, s, n)' = TxnId(c)
    /\ (op \in Ops \ Ending /\ Timer(c, s) = op) \/ (op \in Ending /\ Timer(c, s) \in EndTimers)
    /\ Timer(c, s) \in EndTimers => Outcome(op) = Outcome(Timer(c, s))
    /\ Timer(c, s)' = None
    /\ Pending(c, s)' = Pending(c, s) \cup {n} /\ Copies(c, s)' = Copies(c, s) \cup {n}
    /\ Last(c, s)' = Last(c, s) /\ \A i : Unexecuted(c, s, i)' <=> Unexecuted(c, s, i)
    /\ Blocking(c, s)' = Blocking(c, s) /\ ReplyIds(c, s)' = ReplyIds(c, s) /\ TxnId(c)' = TxnId(c)
    /\ Prepared(s)' = Prepared(s) /\ Logged(s)' = Logged(s)
    /\ \A outcome : DecidedAs(outcome, s)' = DecidedAs(outcome, s)
    /\ cpc'[c] = cpc[c] /\ ntxns'[c] = ntxns[c] /\ participants'[c] = participants[c]
    /\ DOMAIN decided' = DOMAIN decided

\* A request is appended to those invoked.
LEMMA RunTimerEffect ==
    ASSUME ProtoInv, NEW c \in Clients, NEW s \in Shards, RunTimer(c, s)
    PROVE  /\ \E n \in Nat, op \in Ops : Invokes(c, s, n, op)
           /\ \A d \in Clients, z \in Shards : (d # c \/ z # s) => Kept(d, z)
           /\ TypeInv' /\ UNCHANGED <<cpc, ntxns, participants, decided>>
  <1> DEFINE q == Sent(c, s)
             timer == outbox[c][s]
  <1>1. PICK n, op, e :
          /\ n = Len(q) + 1 /\ op = (IF timer = "COMMIT_NOWAIT" THEN "COMMIT" ELSE timer)
          /\ e = [op |-> op, id |-> TxnId(c), txn |-> Local(txn[c], s)]
          /\ timer # None /\ outbox' = [outbox EXCEPT ![c][s] = None]
          /\ sent' = [sent EXCEPT ![c][s] = Append(q, e)]
          /\ pendingReqs' = [pendingReqs EXCEPT ![c][s] = pendingReqs[c][s] \cup {n}]
          /\ requests' = [requests EXCEPT ![c][s] = Append(requests[c][s], n)]
    BY DEF RunTimer, NextReqId, Sent
  <1>2. UNCHANGED <<cpc, ntxns, participants, blockingBegin, replies, old, store, clientTable, decided>>
    BY DEF RunTimer, client, servers, history
  <1>3. /\ Timer(c, s) = timer
        /\ op \in Ops /\ ((op \in Ops \ Ending /\ timer = op) \/ (op \in Ending /\ timer \in EndTimers))
        /\ timer \in EndTimers => Outcome(op) = Outcome(timer)
    BY <1>1, PairTypes, SMT DEF Ops, Ending, EndTimers, Outcome, Timer
  <1>4. e.op = op /\ e.id = TxnId(c)
    BY <1>1
  <1> HIDE DEF q
  <1>5. /\ IsSeq(q) /\ Len(q) \in Nat /\ n \in Nat /\ Len(Append(q, e)) = n
        /\ IsSeq(Append(q, e)) /\ DOMAIN Append(q, e) = DOMAIN q \cup {n} /\ n \notin DOMAIN q
        /\ Append(q, e)[n] = e
        /\ \A i \in DOMAIN q : Append(q, e)[i] = q[i] /\ i < n
    <2>1. IsSeq(q) /\ Len(q) \in Nat /\ n = Len(q) + 1
      BY <1>1, PairTypes DEF q
    <2>2. n \in Nat
      BY <2>1, SMT
    <2>3. /\ IsSeq(Append(q, e)) /\ Len(Append(q, e)) = n
          /\ DOMAIN Append(q, e) = DOMAIN q \cup {n} /\ n \notin DOMAIN q
          /\ \A i \in DOMAIN q : Append(q, e)[i] = q[i] /\ i < n
          /\ Append(q, e)[n] = e
      BY <2>1, AppendSeq, SMT
    <2> QED BY <2>1, <2>2, <2>3
  <1>6. /\ Grid(sent) /\ Grid(outbox) /\ Grid(pendingReqs) /\ Grid(requests)
        /\ requests[c][s] \in Seq(Nat) /\ pendingReqs[c][s] \in SUBSET Nat
    BY GridTypes DEF ProtoInv, TypeInv, TimerTypes, RequestTypes, NetworkTypes
  <1>7. /\ Updated(sent, sent', c, s, Append(q, e))
        /\ Updated(outbox, outbox', c, s, None)
        /\ Updated(pendingReqs, pendingReqs', c, s, pendingReqs[c][s] \cup {n})
        /\ Updated(requests, requests', c, s, Append(requests[c][s], n))
    BY <1>1, <1>6, GridUpdate
  <1>8. ASSUME NEW d \in Clients, NEW z \in Shards, d # c \/ z # s
        PROVE  Kept(d, z)
    <2>1. /\ sent'[d][z] = sent[d][z] /\ outbox'[d][z] = outbox[d][z]
          /\ pendingReqs'[d][z] = pendingReqs[d][z] /\ requests'[d][z] = requests[d][z]
      BY <1>7, <1>8 DEF Updated
    <2>2. Same(d, z)
      BY <1>2, <2>1, SameByParts
    <2> QED BY <1>2, <2>1, <2>2, Unchanged DEF Kept
  <1>9. Sent(c, s)' = Append(q, e) /\ Timer(c, s)' = None /\ Pending(c, s)' = Pending(c, s) \cup {n}
    BY <1>7 DEF Updated, Sent, Timer, Pending
  <1>10. /\ \A i \in DOMAIN q : Op(c, s, i)' = Op(c, s, i) /\ Id(c, s, i)' = Id(c, s, i)
         /\ Op(c, s, n)' = op /\ Id(c, s, n)' = TxnId(c)
    BY <1>4, <1>5, <1>7 DEF Updated, Sent, Op, Id, q
  <1>11. Copies(c, s)' = Copies(c, s) \cup {n} /\ Append(requests[c][s], n) \in Seq(Nat)
    <2>1. Append(requests[c][s], n) \in Seq(Nat)
      BY <1>5, <1>6, SMT
    <2>2. Elems(Append(requests[c][s], n)) = Elems(requests[c][s]) \cup {n}
      BY <1>6, SeqIsSeq, AppendSeq
    <2>3. requests'[c][s] = Append(requests[c][s], n)
      BY <1>7 DEF Updated
    <2>4. Copies(c, s) = Elems(requests[c][s]) \cup Elems(old[c][s])
      BY DEF Copies, Elems
    <2>5. Copies(c, s)' = Elems(requests'[c][s]) \cup Elems(old[c][s])
      BY <1>2 DEF Copies, Elems
    <2>6. Copies(c, s)' = Copies(c, s) \cup {n}
      BY <2>2, <2>3, <2>4, <2>5
    <2> QED BY <2>1, <2>6
  <1>12. TypeInv'
    <2>1. TimerTypes'
      BY <1>1, <1>2 DEF ProtoInv, TypeInv, TimerTypes
    <2>2. RequestTypes'
      <3>1. ASSUME NEW d \in Clients, NEW z \in Shards PROVE IsSeq(Sent(d, z)') /\ pendingReqs'[d][z] \in SUBSET Nat
        <4>1. CASE d = c /\ z = s
          BY <1>5, <1>6, <1>7, <1>9, <4>1 DEF Updated
        <4>2. CASE d # c \/ z # s
          <5>1. Sent(d, z)' = Sent(d, z) /\ pendingReqs'[d][z] = pendingReqs[d][z]
            BY <1>7, <4>2 DEF Updated, Sent
          <5> QED BY <5>1 DEF ProtoInv, TypeInv, RequestTypes
        <4> QED BY <4>1, <4>2
      <3>2. pendingReqs' \in [Clients -> [Shards -> SUBSET Nat]]
        BY <1>7, <3>1, GridTypes DEF Updated
      <3> QED BY <1>7, <3>1, <3>2 DEF RequestTypes, Updated
    <2>3. NetworkTypes'
      BY <1>1, <1>2, <1>11 DEF ProtoInv, TypeInv, NetworkTypes, Grid
    <2> QED BY <1>2, <2>1, <2>2, <2>3, KeptTypes DEF ProtoInv, TypeInv
  <1>13. /\ Last(c, s)' = Last(c, s) /\ (\A i : Unexecuted(c, s, i)' <=> Unexecuted(c, s, i))
         /\ Blocking(c, s)' = Blocking(c, s) /\ ReplyIds(c, s)' = ReplyIds(c, s) /\ TxnId(c)' = TxnId(c)
         /\ Prepared(s)' = Prepared(s) /\ Logged(s)' = Logged(s)
         /\ \A outcome : DecidedAs(outcome, s)' = DecidedAs(outcome, s)
    BY <1>2, Unchanged DEF Last, Unexecuted
  <1>14. Invokes(c, s, n, op)
    BY <1>1, <1>2, <1>3, <1>5, <1>9, <1>10, <1>11, <1>13 DEF Invokes, q
  <1> QED BY <1>2, <1>3, <1>5, <1>8, <1>12, <1>14

\* Timer(0): the shard client's queued callback invokes its request.
LEMMA RunTimerProto ==
    ASSUME ProtoInv, NEW c \in Clients, NEW s \in Shards, RunTimer(c, s)
    PROVE  ProtoInv'
  <1>1. PICK n \in Nat, op \in Ops : Invokes(c, s, n, op)
    BY RunTimerEffect
  <1>2. TypeInv' /\ DecidedInv'
    BY RunTimerEffect DEF ProtoInv, DecidedInv, TxnId
  <1>3. \A d \in Clients, z \in Shards : (d # c \/ z # s) => PairInv(d, z)'
    BY RunTimerEffect, KeptPairInv DEF ProtoInv
  <1>p. /\ SentInv(c, s) /\ NetworkInv(c, s) /\ ExecutedInv(c, s) /\ DecisionInv(c, s)
        /\ PhaseInv(c, s) /\ PreparedInv(c, s) /\ LoggedInv(c, s)
    BY PairParts
  <1>m. /\ DOMAIN Sent(c, s)' = DOMAIN Sent(c, s) \cup {n}
        /\ \A i \in DOMAIN Sent(c, s) : Op(c, s, i)' = Op(c, s, i) /\ Id(c, s, i)' = Id(c, s, i) /\ i < n
        /\ Op(c, s, n)' = op /\ Id(c, s, n)' = TxnId(c) /\ TxnId(c)' = TxnId(c)
    BY <1>1 DEF Invokes
  <1>f. /\ Timer(c, s)' = None /\ Timer(c, s)' \notin EndTimers /\ Timer(c, s)' # "PREPARE" /\ Timer(c, s) # None
        /\ Pending(c, s)' = Pending(c, s) \cup {n} /\ Copies(c, s)' = Copies(c, s) \cup {n}
        /\ Last(c, s)' = Last(c, s) /\ (\A i : Unexecuted(c, s, i)' <=> Unexecuted(c, s, i))
        /\ Blocking(c, s)' = Blocking(c, s) /\ ReplyIds(c, s)' = ReplyIds(c, s)
        /\ Prepared(s)' = Prepared(s) /\ Logged(s)' = Logged(s)
        /\ (\A outcome : DecidedAs(outcome, s)' = DecidedAs(outcome, s))
        /\ cpc'[c] = cpc[c] /\ ntxns'[c] = ntxns[c] /\ participants'[c] = participants[c]
        /\ DOMAIN decided' = DOMAIN decided
    BY <1>1 DEF Invokes, None, EndTimers, Ending, Ops
  <1>o. /\ (op \in Ops \ Ending /\ Timer(c, s) = op) \/ (op \in Ending /\ Timer(c, s) \in EndTimers)
        /\ Timer(c, s) \in EndTimers => Outcome(op) = Outcome(Timer(c, s))
        /\ op \in Ending => Timer(c, s) \in EndTimers
        /\ op = "BATCH_GET" => Timer(c, s) = op
        /\ op = "PREPARE" => Timer(c, s) = op
    BY <1>1 DEF Invokes, Ending
  <1>e. op \in Ending => Blocking(c, s) = "pending" /\ TxnId(c) \in DecidedAs(Outcome(op), s)
    BY <1>o, <1>p DEF DecisionInv
  <1>5. ntxns[c] > 0 /\ (op # "BATCH_GET" => s \in participants[c])
    <2>1. op \in Ending => Outcome(op) \in Outcomes
      BY DEF Outcome, Outcomes
    <2>2. op \in {"BATCH_GET", "PREPARE"} \/ op \in Ending
      BY <1>1 DEF Ops, Ending
    <2>3. op \in Ending => s \in participants[c]
      BY <1>e, <1>p, <2>1 DEF DecisionInv
    <2> QED BY <1>f, <1>o, <1>p, <2>2, <2>3 DEF PhaseInv
  <1>6. \A i \in DOMAIN Sent(c, s) : Op(c, s, i) \in Ending => Id(c, s, i) # TxnId(c)
    BY <1>f, <1>p DEF DecisionInv
  <1>7. SentInv(c, s)'
    <2>1. TxnId(c) = <<c, TxnId(c)[2]>> /\ TxnId(c)[2] = ntxns[c] /\ ntxns[c] \in Nat /\ ntxns[c] \in 1 .. ntxns[c]
      BY <1>5, SMT DEF TxnId, ProtoInv, TypeInv, ThreadTypes
    <2>2. ASSUME NEW i \in DOMAIN Sent(c, s)'
          PROVE  /\ Op(c, s, i)' \in Ops
                 /\ Id(c, s, i)' = <<c, Id(c, s, i)'[2]>> /\ Id(c, s, i)'[2] \in 1 .. ntxns[c]
                 /\ (Op(c, s, i)' # "BATCH_GET" /\ Id(c, s, i)' = TxnId(c)) => s \in participants[c]
      <3>1. CASE i = n
        BY <1>5, <1>m, <2>1, <3>1
      <3>2. CASE i \in DOMAIN Sent(c, s)
        BY <1>p, <1>m, <3>2 DEF SentInv
      <3> QED BY <3>1, <3>2, <1>m
    <2>3. ASSUME NEW i \in DOMAIN Sent(c, s)', NEW j \in DOMAIN Sent(c, s)', i < j
          PROVE  /\ Id(c, s, i)'[2] <= Id(c, s, j)'[2]
                 /\ Op(c, s, i)' \in Ending => Id(c, s, i)' # Id(c, s, j)'
      <3>1. i \in DOMAIN Sent(c, s)
        <4>1. DOMAIN Sent(c, s) \subseteq Nat
          BY PairTypes, SeqDomain, SMT
        <4> QED BY <1>m, <2>3, <4>1, SMT
      <3>2. CASE j = n
        <4>1. Id(c, s, i)[2] \in 1 .. ntxns[c]
          BY <1>p, <3>1 DEF SentInv
        <4>2. Id(c, s, i)[2] <= ntxns[c]
          BY <2>1, <4>1, SMT
        <4>3. Id(c, s, i)' = Id(c, s, i) /\ Op(c, s, i)' = Op(c, s, i) /\ Id(c, s, j)' = TxnId(c)
          BY <1>m, <3>1, <3>2
        <4> QED BY <1>6, <2>1, <3>1, <4>2, <4>3
      <3>3. CASE j \in DOMAIN Sent(c, s)
        BY <1>m, <1>p, <2>3, <3>1, <3>3 DEF SentInv
      <3> QED BY <1>m, <3>2, <3>3
    <2> QED BY <1>f, <1>m, <2>2, <2>3 DEF SentInv
  <1>8. NetworkInv(c, s)'
    BY <1>f, <1>m, <1>p DEF NetworkInv, Answered
  <1>9. Last(c, s) < n /\ Last(c, s) <= n /\ Unexecuted(c, s, n) /\ Len(Sent(c, s))' = n
    <2>1. n = Len(Sent(c, s)) + 1 /\ Len(Sent(c, s))' = n /\ Len(Sent(c, s)) \in Nat
      BY <1>1, PairTypes DEF Invokes
    <2>2. Last(c, s) \in Nat /\ Last(c, s) <= Len(Sent(c, s))
      BY <1>p, PairTypes DEF ExecutedInv
    <2>3. Last(c, s) < n /\ Last(c, s) <= n
      BY <2>1, <2>2, SMT
    <2>4. n > Last(c, s)
      BY <2>2, <2>3, SMT
    <2> QED BY <2>1, <2>3, <2>4 DEF Unexecuted, Last
  <1>10. ExecutedInv(c, s)'
    <2>1. \A i \in DOMAIN Sent(c, s)' : Op(c, s, i)' # "BATCH_GET" =>
            /\ i \notin Pending(c, s)' => i <= Last(c, s)
            /\ Id(c, s, i)' # TxnId(c) => i <= Last(c, s) /\ (Op(c, s, i)' = "PREPARE" => i < Last(c, s))
      BY <1>m, <1>f, <1>p DEF ExecutedInv
    <2>2. \A i \in Pending(c, s)' : Op(c, s, i)' \in Ending => Id(c, s, i)' = TxnId(c) /\ Blocking(c, s) = "pending"
      BY <1>m, <1>f, <1>e, <1>p DEF ExecutedInv
    <2>3. Pending(c, s)' \subseteq DOMAIN Sent(c, s)'
      BY <1>m, <1>f, <1>p DEF ExecutedInv
    <2> QED BY <1>9, <1>f, <1>m, <2>1, <2>2, <2>3 DEF ExecutedInv
  <1>11. DecisionInv(c, s)'
    <2>1. \A i \in DOMAIN Sent(c, s)', o \in Ending : Op(c, s, i)' = o => Id(c, s, i)' \in DecidedAs(Outcome(o), s)'
      <3>1. \A i \in DOMAIN Sent(c, s), o \in Ending : Op(c, s, i) = o => Id(c, s, i) \in DecidedAs(Outcome(o), s)'
        BY <1>f, <1>p DEF DecisionInv
      <3>2. op \in Ending => TxnId(c) \in DecidedAs(Outcome(op), s)'
        BY <1>f, <1>e
      <3> QED BY <1>m, <3>1, <3>2
    <2>2. \A outcome \in Outcomes : TxnId(c)' \in DecidedAs(outcome, s)' => s \in participants'[c]
      BY <1>f, <1>m, <1>p DEF DecisionInv
    <2>3. TxnId(c)' \in DOMAIN decided' /\ s \in participants'[c] =>
            \E i \in DOMAIN Sent(c, s)' : Op(c, s, i)' \in Ending /\ Id(c, s, i)' = TxnId(c)'
      <3>1. ASSUME TxnId(c) \in DOMAIN decided, s \in participants[c] PROVE op \in Ending
        <4>1. Timer(c, s) \in EndTimers
          BY <1>6, <1>p, <3>1 DEF DecisionInv
        <4> QED BY <1>o, <4>1 DEF EndTimers, Ending, Ops
      <3> QED BY <1>f, <1>m, <3>1
    <2> QED BY <1>f, <2>1, <2>2, <2>3 DEF DecisionInv
  <1>12. PhaseInv(c, s)'
    <2>1. (cpc[c] # "prepare" /\ TxnId(c) \notin DOMAIN decided) => op = "BATCH_GET"
      <3> SUFFICES ASSUME cpc[c] # "prepare" /\ TxnId(c) \notin DOMAIN decided PROVE op = "BATCH_GET"
        OBVIOUS
      <3>1. Timer(c, s) = "BATCH_GET"
        BY <1>f, <1>p DEF PhaseInv
      <3> QED BY <1>o, <3>1 DEF EndTimers
    <2> QED BY <1>f, <1>m, <1>p, <2>1 DEF PhaseInv
  <1>13. PreparedInv(c, s)'
    <2> SUFFICES ASSUME NEW t \in Prepared(s), t[1] = c
                 PROVE  /\ t = TxnId(c)
                        /\ \E i \in DOMAIN Sent(c, s)' : Op(c, s, i)' = "PREPARE" /\ Id(c, s, i)' = t
                        /\ \A i \in DOMAIN Sent(c, s)' : (Op(c, s, i)' \in Ending /\ Id(c, s, i)' = t) =>
                              Unexecuted(c, s, i)
      BY <1>f, <1>m DEF PreparedInv
    <2>1. /\ t = TxnId(c) /\ (\E i \in DOMAIN Sent(c, s) : Op(c, s, i) = "PREPARE" /\ Id(c, s, i) = t)
          /\ \A i \in DOMAIN Sent(c, s) : (Op(c, s, i) \in Ending /\ Id(c, s, i) = t) => Unexecuted(c, s, i)
      BY <1>p DEF PreparedInv
    <2> QED BY <1>9, <1>m, <2>1
  <1>14. LoggedInv(c, s)'
    <2> SUFFICES ASSUME NEW t \in Logged(s), t[1] = c
                 PROVE  /\ t \in DecidedAs("commit", s)
                        /\ \E i \in DOMAIN Sent(c, s)' :
                              Op(c, s, i)' = "COMMIT" /\ Id(c, s, i)' = t /\ ~Unexecuted(c, s, i)
      BY <1>f DEF LoggedInv
    <2> QED BY <1>m, <1>p DEF LoggedInv
  <1>15. PairInv(c, s)'
    BY <1>7, <1>8, <1>10, <1>11, <1>12, <1>13, <1>14 DEF PairInv
  <1> QED BY <1>2, <1>3, <1>15 DEF ProtoInv

\* Only what travels changes, and which reads are pending.
TravelStep(c, s) ==
    /\ UNCHANGED <<cpc, ntxns, participants, outbox, blockingBegin, sent, store, clientTable, decided>>
    /\ RequestTypes' /\ NetworkTypes' /\ NetworkInv(c, s)'
    /\ \A d \in Clients, z \in Shards : (d # c \/ z # s) =>
          Pending(d, z)' = Pending(d, z) /\ Copies(d, z)' = Copies(d, z) /\ ReplyIds(d, z)' = ReplyIds(d, z)
    /\ Pending(c, s)' \subseteq Pending(c, s)
    /\ \A r \in Pending(c, s) \ Pending(c, s)' : Op(c, s, r) = "BATCH_GET"

\* What is decided and executed is the same, and every logged request is as
\* pending as it was.
LEMMA TravelProto ==
    ASSUME ProtoInv, NEW c \in Clients, NEW s \in Shards, TravelStep(c, s)
    PROVE  ProtoInv'
  <1>1. UNCHANGED <<cpc, ntxns, participants, outbox, blockingBegin, sent, store, clientTable, decided>>
    BY DEF TravelStep
  <1>s. \A d \in Clients, z \in Shards :
          /\ Same(d, z) /\ SameTxns(d, z) /\ Timer(d, z)' = Timer(d, z) /\ Blocking(d, z)' = Blocking(d, z)
          /\ TxnId(d)' = TxnId(d)
    BY <1>1, SameServers, Unchanged
  <1>2. TypeInv'
    <2>1. RequestTypes' /\ NetworkTypes'
      BY DEF TravelStep
    <2> QED BY <1>1, <2>1, KeptTypes DEF ProtoInv, TypeInv
  <1>3. DecidedInv'
    BY <1>1 DEF ProtoInv, DecidedInv, TxnId
  <1>4. ASSUME NEW d \in Clients, NEW z \in Shards, d # c \/ z # s PROVE PairInv(d, z)'
    <2>1. Pending(d, z)' = Pending(d, z) /\ Copies(d, z)' = Copies(d, z) /\ ReplyIds(d, z)' = ReplyIds(d, z)
      BY <1>4 DEF TravelStep
    <2>2. Kept(d, z)
      BY <1>1, <1>s, <2>1 DEF Kept
    <2> QED BY <2>2, KeptPairInv DEF ProtoInv
  <1>p. /\ SentInv(c, s) /\ NetworkInv(c, s) /\ ExecutedInv(c, s) /\ DecisionInv(c, s)
        /\ PhaseInv(c, s) /\ PreparedInv(c, s) /\ LoggedInv(c, s)
    BY PairParts
  <1>m. Same(c, s) /\ Blocking(c, s)' = Blocking(c, s) /\ TxnId(c)' = TxnId(c)
    BY <1>s
  <1>5. /\ SentInv(c, s)' /\ DecisionInv(c, s)' /\ PhaseInv(c, s)'
        /\ PreparedInv(c, s)' /\ LoggedInv(c, s)'
    BY <1>1, <1>s, <1>p, Frame
  <1>6. ExecutedInv(c, s)'
    <2>1. /\ Pending(c, s)' \subseteq Pending(c, s)
          /\ \A r \in Pending(c, s) : r \notin Pending(c, s)' => Op(c, s, r) = "BATCH_GET"
      BY DEF TravelStep
    <2> QED BY <1>m, <1>p, <2>1 DEF ExecutedInv, Same
  <1>7. PairInv(c, s)'
    <2>1. NetworkInv(c, s)'
      BY DEF TravelStep
    <2> QED BY <1>5, <1>6, <2>1 DEF PairInv
  <1> QED BY <1>2, <1>3, <1>4, <1>7 DEF ProtoInv

\* A request that is resent was invoked.
LEMMA ResendProto ==
    ASSUME ProtoInv, NEW c \in Clients, NEW s \in Shards, NEW r \in pendingReqs[c][s], ResendRequest(c, s, r)
    PROVE  ProtoInv'
  <1>1. requests' = [requests EXCEPT ![c][s] = Append(requests[c][s], r)]
    BY DEF ResendRequest
  <1>u. UNCHANGED <<cpc, ntxns, participants, outbox, blockingBegin, sent, store, clientTable, decided,
                    pendingReqs, old, replies>>
    BY DEF ResendRequest, client, shardclient, servers, history
  <1>2. r \in DOMAIN Sent(c, s) /\ r \in Nat /\ NetworkInv(c, s) /\ SentInv(c, s)
    <2>1. r \in Pending(c, s) /\ Pending(c, s) \in SUBSET Nat
      BY PairTypes DEF Pending
    <2> QED BY <2>1, PairParts DEF ExecutedInv
  <1>3. requests[c][s] \in Seq(Nat) /\ Grid(requests) /\ requests \in [Clients -> [Shards -> Seq(Nat)]]
    BY GridTypes DEF ProtoInv, TypeInv, NetworkTypes
  <1>4. Append(requests[c][s], r) \in Seq(Nat)
    BY <1>2, <1>3, SMT
  <1>5. Elems(Append(requests[c][s], r)) = Elems(requests[c][s]) \cup {r}
    BY <1>3, SeqIsSeq, AppendSeq
  <1>6. Updated(requests, requests', c, s, Append(requests[c][s], r))
    BY <1>1, <1>3, GridUpdate
  <1>7. NetworkTypes' /\ RequestTypes'
    <2>1. requests' \in [Clients -> [Shards -> Seq(Nat)]]
      BY <1>1, <1>3, <1>4
    <2>2. NetworkTypes'
      BY <1>u, <2>1 DEF ProtoInv, TypeInv, NetworkTypes, Grid
    <2> QED BY <1>u, <2>2, KeptTypes DEF ProtoInv
  <1>8. \A d \in Clients, z \in Shards :
          Pending(d, z)' = Pending(d, z) /\ ReplyIds(d, z)' = ReplyIds(d, z) /\ Same(d, z)
    BY <1>u, Unchanged, SameServers
  <1>9. Copies(c, s)' \subseteq DOMAIN Sent(c, s)
    <2>1. Copies(c, s) = Elems(requests[c][s]) \cup Elems(old[c][s])
      BY DEF Copies, Elems
    <2>2. Copies(c, s)' = Elems(requests'[c][s]) \cup Elems(old[c][s])
      BY <1>u DEF Copies, Elems
    <2>3. requests'[c][s] = Append(requests[c][s], r) /\ Copies(c, s) \subseteq DOMAIN Sent(c, s)
      BY <1>2, <1>6 DEF Updated, NetworkInv
    <2> QED BY <1>2, <1>5, <2>1, <2>2, <2>3
  <1>10. NetworkInv(c, s)'
    BY <1>2, <1>8, <1>9 DEF NetworkInv, Same
  <1>11. \A d \in Clients, z \in Shards : (d # c \/ z # s) => Copies(d, z)' = Copies(d, z)
    BY <1>u, <1>6, Unchanged DEF Updated
  <1>12. TravelStep(c, s)
    BY <1>u, <1>7, <1>8, <1>10, <1>11 DEF TravelStep
  <1> QED BY <1>12, TravelProto

\* Of what is pending, at most reads of a client at a shard are given up.
ReadsAnswered(c, s) ==
    /\ pendingReqs' \in [Clients -> [Shards -> SUBSET Nat]]
    /\ \A d \in Clients, z \in Shards : (d # c \/ z # s) => pendingReqs'[d][z] = pendingReqs[d][z]
    /\ Pending(c, s)' \subseteq Pending(c, s)
    /\ \A r \in Pending(c, s) \ Pending(c, s)' : Op(c, s, r) = "BATCH_GET"

\* A timeout leaves every logged request pending.
LEMMA TimeoutProto ==
    ASSUME ProtoInv, NEW c \in Clients, NEW s \in Shards,
           GetTimeout(c, s) \/ \E r \in pendingReqs[c][s] : ReadTimeout(c, s, r)
    PROVE  ProtoInv'
  <1>u. UNCHANGED <<cpc, ntxns, participants, outbox, blockingBegin, sent, store, clientTable, decided,
                    requests, old, replies>>
    BY DEF GetTimeout, ReadTimeout, client, servers, history
  <1>2. \/ pendingReqs' = pendingReqs
        \/ \E r \in pendingReqs[c][s] : /\ pendingReqs' = [pendingReqs EXCEPT ![c][s] = pendingReqs[c][s] \ {r}]
                                        /\ Op(c, s, r) = "BATCH_GET"
    BY DEF GetTimeout, ReadTimeout, Op
  <1>3. ReadsAnswered(c, s)
    <2>1. CASE pendingReqs' = pendingReqs
      BY <2>1 DEF ReadsAnswered, ProtoInv, TypeInv, RequestTypes, Pending
    <2>2. ASSUME NEW r \in pendingReqs[c][s], Op(c, s, r) = "BATCH_GET",
                 pendingReqs' = [pendingReqs EXCEPT ![c][s] = pendingReqs[c][s] \ {r}]
          PROVE  ReadsAnswered(c, s)
      <3>1. pendingReqs \in [Clients -> [Shards -> SUBSET Nat]] /\ Grid(pendingReqs)
        BY GridTypes DEF ProtoInv, TypeInv, RequestTypes
      <3>2. Updated(pendingReqs, pendingReqs', c, s, pendingReqs[c][s] \ {r})
        BY <2>2, <3>1, GridUpdate
      <3>3. pendingReqs' \in [Clients -> [Shards -> SUBSET Nat]]
        BY <2>2, <3>1
      <3>4. Pending(c, s)' = Pending(c, s) \ {r}
        BY <3>2 DEF Updated, Pending
      <3>5. \A d \in Clients, z \in Shards : (d # c \/ z # s) => pendingReqs'[d][z] = pendingReqs[d][z]
        BY <3>2 DEF Updated
      <3> QED BY <2>2, <3>3, <3>4, <3>5 DEF ReadsAnswered
    <2> QED BY <1>2, <2>1, <2>2
  <1>4. NetworkTypes' /\ RequestTypes' /\ NetworkInv(c, s)'
    <2>1. Same(c, s) /\ Copies(c, s)' = Copies(c, s) /\ ReplyIds(c, s)' = ReplyIds(c, s)
      BY <1>u, SameServers, Unchanged
    <2>2. NetworkTypes'
      BY <1>u, KeptTypes DEF ProtoInv
    <2>3. RequestTypes'
      BY <1>u, <1>3 DEF ReadsAnswered, ProtoInv, TypeInv, RequestTypes, Grid, Sent
    <2>4. NetworkInv(c, s)'
      BY <2>1, PairParts DEF NetworkInv, Same
    <2> QED BY <2>2, <2>3, <2>4
  <1>5. \A d \in Clients, z \in Shards : (d # c \/ z # s) =>
          Pending(d, z)' = Pending(d, z) /\ Copies(d, z)' = Copies(d, z) /\ ReplyIds(d, z)' = ReplyIds(d, z)
    BY <1>u, <1>3, Unchanged DEF ReadsAnswered
  <1>6. TravelStep(c, s)
    BY <1>u, <1>3, <1>4, <1>5 DEF TravelStep, ReadsAnswered
  <1> QED BY <1>6, TravelProto

\* What the server has yet to read of a broken connection was sent over it.
LEMMA BreakProto ==
    ASSUME ProtoInv, NEW c \in Clients, NEW s \in Shards, NEW n \in 0 .. Len(requests[c][s]), Break(c, s, n)
    PROVE  ProtoInv'
  <1> DEFINE q == SubSeq(requests[c][s], 1, n)
  <1>1. /\ old' = [old EXCEPT ![c][s] = q]
        /\ requests' = [requests EXCEPT ![c][s] = <<>>]
        /\ replies' = [replies EXCEPT ![c][s] = <<>>]
    BY DEF Break
  <1>u. UNCHANGED <<cpc, ntxns, participants, outbox, blockingBegin, sent, store, clientTable, decided, pendingReqs>>
    BY DEF Break, client, shardclient, servers, history
  <1>2. /\ requests[c][s] \in Seq(Nat) /\ requests \in [Clients -> [Shards -> Seq(Nat)]]
        /\ old \in [Clients -> [Shards -> Seq(Nat)]] /\ Grid(old) /\ Grid(requests) /\ Grid(replies)
        /\ \A d \in Clients, z \in Shards : IsSeq(replies[d][z])
    BY GridTypes DEF ProtoInv, TypeInv, NetworkTypes
  <1>3. q \in Seq(Nat) /\ Elems(q) \subseteq Elems(requests[c][s])
    BY <1>2, SubSeqSeq
  <1> HIDE DEF q
  <1>4. /\ Updated(old, old', c, s, q) /\ Updated(requests, requests', c, s, <<>>)
        /\ Updated(replies, replies', c, s, <<>>)
    BY <1>1, <1>2, GridUpdate
  <1>5. NetworkTypes' /\ RequestTypes'
    <2>1. <<>> \in Seq(Nat)
      BY SMT
    <2>2. old' \in [Clients -> [Shards -> Seq(Nat)]] /\ requests' \in [Clients -> [Shards -> Seq(Nat)]]
      BY <1>1, <1>2, <1>3, <2>1
    <2>3. Grid(replies') /\ \A d \in Clients, z \in Shards : IsSeq(replies'[d][z])
      BY <1>2, <1>4, EmptySeq DEF Updated
    <2> QED BY <1>u, <2>2, <2>3, KeptTypes DEF ProtoInv, NetworkTypes
  <1>6. Copies(c, s)' \subseteq Copies(c, s) /\ ReplyIds(c, s)' = {}
    <2>1. Copies(c, s)' = Elems(requests'[c][s]) \cup Elems(old'[c][s])
      BY DEF Copies, Elems
    <2>2. Elems(requests[c][s]) \subseteq Copies(c, s)
      BY DEF Copies, Elems
    <2>3. requests'[c][s] = <<>> /\ old'[c][s] = q /\ replies'[c][s] = <<>>
      BY <1>4 DEF Updated
    <2>4. Elems(requests'[c][s]) = {} /\ DOMAIN replies'[c][s] = {}
      BY <2>3, EmptySeq
    <2>5. Copies(c, s)' \subseteq Copies(c, s)
      BY <1>3, <2>1, <2>2, <2>3, <2>4
    <2>6. ReplyIds(c, s)' = {}
      BY <2>4 DEF ReplyIds
    <2> QED BY <2>5, <2>6
  <1>7. \A d \in Clients, z \in Shards : Same(d, z) /\ Pending(d, z)' = Pending(d, z)
    BY <1>u, SameServers, Unchanged
  <1>8. NetworkInv(c, s)'
    <2>1. NetworkInv(c, s)
      BY PairParts
    <2> QED BY <1>6, <1>7, <2>1 DEF NetworkInv, Same
  <1>9. \A d \in Clients, z \in Shards : (d # c \/ z # s) =>
          Copies(d, z)' = Copies(d, z) /\ ReplyIds(d, z)' = ReplyIds(d, z)
    BY <1>4, Unchanged DEF Updated
  <1>10. TravelStep(c, s)
    BY <1>u, <1>5, <1>7, <1>8, <1>9 DEF TravelStep
  <1> QED BY <1>10, TravelProto

\* What HandleReply does: the request is pending no more, and if it was a commit
\* or abort the next Begin has its answer.
Answers(c, s, r) ==
    /\ r \in ReplyIds(c, s) /\ ReplyIds(c, s)' \subseteq ReplyIds(c, s)
    /\ Pending(c, s)' = Pending(c, s) \ {r}
    /\ \/ Blocking(c, s)' = Blocking(c, s)
       \/ r \in Pending(c, s) /\ Op(c, s, r) \in Ending

\* The first reply is taken, and its request answered if it is pending.
LEMMA HandleReplyEffect ==
    ASSUME ProtoInv, NEW c \in Clients, NEW s \in Shards, HandleReply(c, s)
    PROVE  /\ \E r : Answers(c, s, r)
           /\ UNCHANGED <<cpc, ntxns, participants, outbox, sent, requests, old, store, clientTable, decided>>
           /\ \A d \in Clients, z \in Shards : (d # c \/ z # s) => Kept(d, z)
           /\ TypeInv'
  <1> DEFINE a == replies[c][s]
  <1>1. PICK r : r = Head(a).reqId
    OBVIOUS
  <1>2. /\ a # <<>> /\ replies' = [replies EXCEPT ![c][s] = Tail(a)]
        /\ UNCHANGED <<cpc, ntxns, participants, outbox, sent, requests, old, store, clientTable, decided>>
    BY DEF HandleReply, servers, history
  <1>3. \/ pendingReqs' = pendingReqs /\ r \notin pendingReqs[c][s]
        \/ pendingReqs' = [pendingReqs EXCEPT ![c][s] = pendingReqs[c][s] \ {r}]
    BY <1>1 DEF HandleReply
  <1>4. \/ blockingBegin' = blockingBegin
        \/ /\ r \in pendingReqs[c][s] /\ Op(c, s, r) \in Ending
           /\ blockingBegin' = [blockingBegin EXCEPT ![c][s] = "done"]
    BY <1>1 DEF HandleReply, BatchGetCallback, PrepareCallback, CommitCallback, AbortCallback, Ending, Op
  <1>5. /\ Grid(replies) /\ IsSeq(a) /\ (\A d \in Clients, z \in Shards : IsSeq(replies[d][z]))
        /\ pendingReqs \in [Clients -> [Shards -> SUBSET Nat]] /\ Grid(pendingReqs)
        /\ blockingBegin \in [Clients -> [Shards -> {None, "pending", "done"}]] /\ Grid(blockingBegin)
    BY GridTypes DEF ProtoInv, TypeInv, NetworkTypes, RequestTypes, TimerTypes
  <1>6. /\ IsSeq(Tail(a)) /\ Elems(Tail(a)) \subseteq Elems(a) /\ Head(a) \in Elems(a)
    BY <1>2, <1>5, TailSeq
  <1> HIDE DEF a
  <1>7. Updated(replies, replies', c, s, Tail(a))
    BY <1>2, <1>5, GridUpdate
  <1>8. Updated(pendingReqs, pendingReqs', c, s, pendingReqs[c][s] \ {r})
    <2>1. CASE pendingReqs' = [pendingReqs EXCEPT ![c][s] = pendingReqs[c][s] \ {r}]
      BY <1>5, <2>1, GridUpdate
    <2>2. CASE pendingReqs' = pendingReqs /\ r \notin pendingReqs[c][s]
      BY <1>5, <2>2 DEF Updated
    <2> QED BY <1>3, <2>1, <2>2
  <1>9. /\ blockingBegin' \in [Clients -> [Shards -> {None, "pending", "done"}]]
        /\ \A d \in Clients, z \in Shards : (d # c \/ z # s) => blockingBegin'[d][z] = blockingBegin[d][z]
        /\ \/ Blocking(c, s)' = Blocking(c, s)
           \/ r \in Pending(c, s) /\ Op(c, s, r) \in Ending
    <2>1. CASE blockingBegin' = [blockingBegin EXCEPT ![c][s] = "done"] /\ r \in pendingReqs[c][s] /\ Op(c, s, r) \in Ending
      <3>1. Updated(blockingBegin, blockingBegin', c, s, "done")
        BY <1>5, <2>1, GridUpdate
      <3>2. blockingBegin' \in [Clients -> [Shards -> {None, "pending", "done"}]]
        BY <1>5, <2>1
      <3> QED BY <2>1, <3>1, <3>2 DEF Updated, Pending
    <2>2. CASE blockingBegin' = blockingBegin
      BY <1>5, <2>2 DEF Blocking
    <2> QED BY <1>4, <2>1, <2>2
  <1>10. Answers(c, s, r)
    <2>1. r \in ReplyIds(c, s) /\ ReplyIds(c, s)' \subseteq ReplyIds(c, s)
      <3>1. ReplyIds(c, s) = {e.reqId : e \in Elems(a)}
        BY DEF ReplyIds, Elems, a
      <3>2. replies'[c][s] = Tail(a)
        BY <1>7 DEF Updated
      <3>3. ReplyIds(c, s)' = {e.reqId : e \in Elems(Tail(a))}
        BY <3>2 DEF ReplyIds, Elems
      <3> QED BY <1>1, <1>6, <3>1, <3>3 DEF a
    <2>2. Pending(c, s)' = Pending(c, s) \ {r}
      BY <1>8 DEF Updated, Pending
    <2> QED BY <1>9, <2>1, <2>2 DEF Answers
  <1>11. TypeInv'
    <2>1. TimerTypes'
      BY <1>2, <1>9 DEF ProtoInv, TypeInv, TimerTypes
    <2>2. RequestTypes'
      <3>1. \A d \in Clients, z \in Shards : pendingReqs'[d][z] \in SUBSET Nat
        BY <1>5, <1>8, ZenonT(40) DEF Updated
      <3>2. pendingReqs' \in [Clients -> [Shards -> SUBSET Nat]]
        BY <1>8, <3>1, GridTypes DEF Updated
      <3> QED BY <1>2, <3>2 DEF ProtoInv, TypeInv, RequestTypes, Grid, Sent
    <2>3. NetworkTypes'
      <3>1. Grid(replies') /\ \A d \in Clients, z \in Shards : IsSeq(replies'[d][z])
        BY <1>5, <1>6, <1>7 DEF Updated
      <3> QED BY <1>2, <3>1 DEF ProtoInv, TypeInv, NetworkTypes
    <2> QED BY <1>2, <2>1, <2>2, <2>3, KeptTypes DEF ProtoInv, TypeInv
  <1>12. ASSUME NEW d \in Clients, NEW z \in Shards, d # c \/ z # s PROVE Kept(d, z)
    <2>1. /\ replies'[d][z] = replies[d][z] /\ pendingReqs'[d][z] = pendingReqs[d][z]
          /\ blockingBegin'[d][z] = blockingBegin[d][z]
      BY <1>7, <1>8, <1>9, <1>12 DEF Updated
    <2>2. Same(d, z) /\ SameTxns(d, z)
      BY <1>2, SameServers, Unchanged
    <2> QED BY <1>2, <2>1, <2>2, Unchanged DEF Kept
  <1> QED BY <1>2, <1>10, <1>11, <1>12

\* The continuation of a commit or abort finds the promise of the next Begin, and
\* only one of them is pending.
LEMMA HandleReplyProto ==
    ASSUME ProtoInv, NEW c \in Clients, NEW s \in Shards, HandleReply(c, s)
    PROVE  ProtoInv'
  <1>1. PICK r : Answers(c, s, r)
    BY HandleReplyEffect
  <1>2. /\ UNCHANGED <<cpc, ntxns, participants, outbox, sent, requests, old, store, clientTable, decided>>
        /\ TypeInv'
    BY HandleReplyEffect
  <1>3. \A d \in Clients, z \in Shards : (d # c \/ z # s) => PairInv(d, z)'
    BY HandleReplyEffect, KeptPairInv DEF ProtoInv
  <1>4. DecidedInv'
    BY <1>2 DEF ProtoInv, DecidedInv, TxnId
  <1>s. /\ Same(c, s) /\ SameTxns(c, s) /\ Timer(c, s)' = Timer(c, s) /\ Copies(c, s)' = Copies(c, s)
        /\ TxnId(c)' = TxnId(c)
    BY <1>2, SameServers, Unchanged
  <1>p. /\ SentInv(c, s) /\ NetworkInv(c, s) /\ ExecutedInv(c, s) /\ DecisionInv(c, s)
        /\ PhaseInv(c, s) /\ PreparedInv(c, s) /\ LoggedInv(c, s)
    BY PairParts
  <1>5. /\ SentInv(c, s)' /\ PhaseInv(c, s)' /\ NetworkInv(c, s)'
        /\ PreparedInv(c, s)' /\ LoggedInv(c, s)'
    BY <1>1, <1>2, <1>s, <1>p, Frame DEF Answers
  <1>6. r \in DOMAIN Sent(c, s) /\ (Op(c, s, r) # "BATCH_GET" => r <= Last(c, s))
    <2>1. r \in Answered(c, s)
      BY <1>1, <1>p DEF Answers, NetworkInv
    <2>2. r \in DOMAIN Sent(c, s) /\ (Op(c, s, r) # "BATCH_GET" => ~(r > Last(c, s)))
      BY <2>1, PairTypes DEF Answered
    <2>3. r \in Nat /\ Last(c, s) \in Nat
      BY <2>2, PairTypes
    <2> QED BY <2>2, <2>3, SMT
  <1>7. ASSUME NEW i \in Pending(c, s), i # r, Op(c, s, i) \in Ending PROVE Blocking(c, s)' = "pending"
    <2>1. CASE Blocking(c, s)' = Blocking(c, s)
      BY <1>7, <1>p, <2>1 DEF ExecutedInv
    <2>2. CASE r \in Pending(c, s) /\ Op(c, s, r) \in Ending
      <3>1. Id(c, s, i) = Id(c, s, r) /\ i \in DOMAIN Sent(c, s)
        BY <1>p, <1>7, <2>2 DEF ExecutedInv
      <3>2. i <= r /\ r <= i
        BY <1>p, <1>6, <1>7, <2>2, <3>1, EndingIsLast, PairTypes
      <3>3. i \in Nat /\ r \in Nat
        BY <1>6, <3>1, PairTypes
      <3> QED BY <1>7, <3>2, <3>3, SMT
    <2> QED BY <1>1, <2>1, <2>2 DEF Answers
  <1>8. ExecutedInv(c, s)'
    <2>1. Pending(c, s)' = Pending(c, s) \ {r}
      BY <1>1 DEF Answers
    <2>2. \A i \in Pending(c, s)' : i \in Pending(c, s) /\ i # r
      BY <2>1
    <2>3. \A i \in Pending(c, s)' : Op(c, s, i) \in Ending => Id(c, s, i) = TxnId(c) /\ Blocking(c, s)' = "pending"
      BY <1>7, <1>p, <2>2 DEF ExecutedInv
    <2>4. \A i \in DOMAIN Sent(c, s) : Op(c, s, i) # "BATCH_GET" /\ i \notin Pending(c, s)' => i <= Last(c, s)
      BY <1>6, <1>p, <2>1 DEF ExecutedInv
    <2> QED BY <1>s, <1>p, <2>2, <2>3, <2>4 DEF ExecutedInv, Same
  <1>9. DecisionInv(c, s)'
    <2>1. Timer(c, s) \in EndTimers => Blocking(c, s)' = Blocking(c, s)
      <3>1. Timer(c, s) \in EndTimers => Timer(c, s) # None
        BY DEF EndTimers, None
      <3>2. r \in Pending(c, s) /\ Op(c, s, r) \in Ending => Timer(c, s) = None
        BY <1>6, <1>p DEF ExecutedInv, DecisionInv
      <3> QED BY <1>1, <3>1, <3>2 DEF Answers
    <2>3. Blocking(c, s)' = Blocking(c, s) => DecisionInv(c, s)'
      BY <1>2, <1>s, <1>p, Frame
    <2>4. CASE Timer(c, s) \notin EndTimers
      <3>1. \A i \in DOMAIN Sent(c, s) : Id(c, s, i)[1] = c
        BY <1>p, SMT DEF SentInv
      <3>2. TxnId(c)[1] = c
        BY SMT DEF TxnId
      <3> QED BY <1>2, <1>s, <1>p, <2>4, <3>1, <3>2 DEF DecisionInv, Same, SameTxns
    <2> QED BY <2>1, <2>3, <2>4
  <1>10. PairInv(c, s)'
    BY <1>5, <1>8, <1>9 DEF PairInv
  <1> QED BY <1>2, <1>3, <1>4, <1>10 DEF ProtoInv

-----------------------------------------------------------------------------
(* The servers, and the properties that follow *)

USE Zenon

\* What the server answered last.
LastReply(c, s) == clientTable[s][c].reply

\* What a server does with a request that is newer than the last: it belongs to
\* the client's current transaction, and only that one moves.
Executes(c, s, r) ==
    /\ Op(c, s, r) # "BATCH_GET" /\ Id(c, s, r) = TxnId(c) /\ Unexecuted(c, s, r) /\ Last(c, s)' = r
    /\ Op(c, s, r) = "PREPARE" /\ LastReply(c, s)' = REPLY_OK => TxnId(c) \in Prepared(s)'
    /\ Op(c, s, r) = "PREPARE" => Prepared(s) \subseteq Prepared(s)'
    /\ Op(c, s, r) # "PREPARE" => TxnId(c) \notin Prepared(s)'
    /\ \A u : u # TxnId(c) => (u \in Prepared(s)' <=> u \in Prepared(s))
    /\ Logged(s)' = IF Op(c, s, r) = "COMMIT" /\ TxnId(c) \in Prepared(s) THEN Logged(s) \cup {TxnId(c)}
                    ELSE Logged(s)

\* A request that is executed, or one that is not new and changes nothing.
Serves(c, s, r) ==
    /\ \A d, z : (d # c \/ z # s) /\ d \in Clients /\ z \in Shards => clientTable'[z][d] = clientTable[z][d]
    /\ \A z \in Shards : z # s => Prepared(z)' = Prepared(z) /\ Logged(z)' = Logged(z)
    /\ clientTable' \in [Shards -> [Clients -> [lastReqId : Nat, reply : {None, REPLY_OK, REPLY_FAIL}]]]
    /\ \A z \in Shards : IsSeq(store'[z].log)
    /\ \/ UNCHANGED <<store, clientTable>> /\ (Op(c, s, r) # "BATCH_GET" => ~Unexecuted(c, s, r))
       \/ Executes(c, s, r)

\* The log of a shard grows by the transaction committed.
LEMMA PutsLogged ==
    ASSUME NEW s \in Shards, NEW t, IsSeq(store[s].log), Puts(store[s], t, store'[s])
    PROVE  IsSeq(store'[s].log) /\ Logged(s)' = Logged(s) \cup {t}
  <1> DEFINE l == store[s].log
  <1>1. PICK e : e.id = t /\ store'[s].log = Append(l, e)
    BY DEF Puts
  <1> HIDE DEF l
  <1>2. IsSeq(Append(l, e)) /\ Elems(Append(l, e)) = Elems(l) \cup {e}
    BY AppendSeq DEF l
  <1>3. Logged(s) = {x.id : x \in Elems(l)}
    BY DEF Logged, Elems, l
  <1>4. Logged(s)' = {x.id : x \in Elems(Append(l, e))}
    BY <1>1 DEF Logged, Elems
  <1> QED BY <1>1, <1>2, <1>3, <1>4

\* HandleRequest executes a request that is newer than the last, and else leaves
\* the store and the client table as they are.
LEMMA RequestEffect ==
    ASSUME IInv, ProtoInv, NEW c \in Clients, NEW s \in Shards, NEW r \in DOMAIN Sent(c, s),
           HandleRequest(c, s, r)
    PROVE  Serves(c, s, r)
  <1> DEFINE e == sent[c][s][r]
             st == store[s]
  <1>1. r \in Nat /\ Op(c, s, r) \in Ops /\ e.op = Op(c, s, r) /\ e.id = Id(c, s, r)
    <2>1. r \in Nat /\ SentInv(c, s)
      BY PairTypes, PairParts
    <2> QED BY <2>1 DEF SentInv, Op, Id
  <1>i. /\ clientTable \in [Shards -> [Clients -> [lastReqId : Nat, reply : {None, REPLY_OK, REPLY_FAIL}]]]
        /\ \A z \in Shards : IsSeq(store[z].log)
        /\ (IsNew(clientTable[s][c], r) <=> Unexecuted(c, s, r))
    BY DEF ProtoInv, TypeInv, ServerTypes, IsNew, Unexecuted
  <1>2. CASE ~(e.op # "BATCH_GET" /\ IsNew(clientTable[s][c], r))
    <2>1. UNCHANGED <<store, clientTable>>
      BY <1>2 DEF HandleRequest, servers
    <2>2. Op(c, s, r) # "BATCH_GET" => ~Unexecuted(c, s, r)
      BY <1>1, <1>2, <1>i
    <2> QED BY <1>i, <2>1, <2>2, Unchanged DEF Serves
  <1>3. CASE e.op # "BATCH_GET" /\ IsNew(clientTable[s][c], r)
    <2>1. /\ store' = [store EXCEPT ![s] = LeaderUpcall(s, e)]
          /\ clientTable' = [clientTable EXCEPT ![s][c] = [lastReqId |-> r, reply |-> UpcallStatus(s, e)]]
      BY <1>3 DEF HandleRequest
    <2>2. /\ store'[s] = LeaderUpcall(s, e) /\ IsStore(st)
          /\ \A z \in Shards : z # s => store'[z] = store[z]
      BY <2>1 DEF IInv, StoreInv
    <2>3. UpcallStatus(s, e) \in {None, REPLY_OK, REPLY_FAIL}
      BY <2>2, PrepareEffect, SMT DEF UpcallStatus
    <2> HIDE DEF e
    <2>4. [lastReqId |-> r, reply |-> UpcallStatus(s, e)] \in [lastReqId : Nat, reply : {None, REPLY_OK, REPLY_FAIL}]
      BY <1>1, <2>3
    <2>5. /\ clientTable' \in [Shards -> [Clients -> [lastReqId : Nat, reply : {None, REPLY_OK, REPLY_FAIL}]]]
          /\ clientTable'[s][c] = [lastReqId |-> r, reply |-> UpcallStatus(s, e)]
      BY <1>i, <2>1, <2>4
    <2>6. \A d, z : (d # c \/ z # s) /\ d \in Clients /\ z \in Shards => clientTable'[z][d] = clientTable[z][d]
      BY <1>i, <2>1
    <2>7. Last(c, s)' = r /\ LastReply(c, s)' = UpcallStatus(s, e)
      BY <2>5, SMT DEF Last, LastReply
    <2>8. PICK t : t = TxnId(c)
      OBVIOUS
    <2>9. Op(c, s, r) # "BATCH_GET" /\ Unexecuted(c, s, r) /\ Id(c, s, r) = t
      <3>1. Op(c, s, r) # "BATCH_GET" /\ Unexecuted(c, s, r)
        BY <1>1, <1>3, <1>i
      <3>2. r > Last(c, s) /\ Last(c, s) \in Nat
        BY <3>1, PairTypes
      <3>3. ~(r <= Last(c, s))
        BY <1>1, <3>2, SMT
      <3> QED BY <2>8, <3>1, <3>3, PairParts DEF ExecutedInv
    <2>10. \A z \in Shards : z # s => Prepared(z)' = Prepared(z) /\ Logged(z)' = Logged(z)
      BY <2>2 DEF Prepared, Logged
    <2>11. ASSUME Executes(c, s, r), IsSeq(store'[s].log) PROVE Serves(c, s, r)
      <3>1. \A z \in Shards : IsSeq(store'[z].log)
        BY <1>i, <2>2, <2>11
      <3> QED BY <2>5, <2>6, <2>10, <2>11, <3>1 DEF Serves
    <2>12. CASE Op(c, s, r) = "PREPARE"
      <3>1. store'[s] = Prepare(st, t, e.txn) /\ LastReply(c, s)' = PrepareStatus(st, t, e.txn)
        BY <1>1, <2>2, <2>7, <2>9, <2>12 DEF LeaderUpcall, UpcallStatus
      <3>2. /\ store'[s].log = st.log
            /\ LastReply(c, s)' = REPLY_OK => t \in Prepared(s)'
            /\ Prepared(s)' \subseteq Prepared(s) \cup {t} /\ Prepared(s) \subseteq Prepared(s)'
        BY <2>2, <3>1, PrepareEffect, SMT DEF Prepared
      <3>3. Logged(s)' = Logged(s) /\ IsSeq(store'[s].log)
        BY <1>i, <3>2 DEF Logged
      <3>4. Executes(c, s, r)
        BY <2>7, <2>8, <2>9, <2>12, <3>2, <3>3 DEF Executes
      <3> QED BY <2>11, <3>3, <3>4
    <2>13. CASE Op(c, s, r) = "COMMIT"
      <3>1. store'[s] = Commit(st, t) \/ store'[s] = CommitProcedure(st, t)
        BY <1>1, <2>2, <2>9, <2>13 DEF LeaderUpcall
      <3>2. Commits(st, t, store'[s])
        BY <2>2, <3>1, CommitEffect
      <3>3. Prepared(s)' = Prepared(s) \ {t}
        BY <3>2 DEF Commits, Prepared
      <3>4. IsSeq(store'[s].log) /\ Logged(s)' = IF t \in Prepared(s) THEN Logged(s) \cup {t} ELSE Logged(s)
        <4>1. CASE t \in Prepared(s)
          BY <1>i, <3>2, <4>1, PutsLogged DEF Commits, Prepared
        <4>2. CASE t \notin Prepared(s)
          BY <1>i, <3>2, <4>2 DEF Commits, Prepared, Logged
        <4> QED BY <4>1, <4>2
      <3>5. Executes(c, s, r)
        BY <2>7, <2>8, <2>9, <2>13, <3>3, <3>4 DEF Executes
      <3> QED BY <2>11, <3>4, <3>5
    <2>14. CASE Op(c, s, r) = "ABORT"
      <3>1. store'[s] = Abort(st, t)
        BY <1>1, <2>2, <2>9, <2>14 DEF LeaderUpcall
      <3>2. store'[s].log = st.log /\ Prepared(s)' = Prepared(s) \ {t}
        BY <2>2, <3>1, AbortEffect, SMT DEF Prepared
      <3>3. Logged(s)' = Logged(s) /\ IsSeq(store'[s].log)
        BY <1>i, <3>2 DEF Logged
      <3>4. Executes(c, s, r)
        BY <2>7, <2>8, <2>9, <2>14, <3>2, <3>3 DEF Executes
      <3> QED BY <2>11, <3>3, <3>4
    <2> QED BY <1>1, <2>9, <2>12, <2>13, <2>14 DEF Ops
  <1> QED BY <1>2, <1>3

\* Executing a request keeps what relates the client's requests to the shard.
LEMMA HandleRequestProto ==
    ASSUME ProtoInv, NEW c \in Clients, NEW s \in Shards, NEW r \in DOMAIN Sent(c, s), Serves(c, s, r),
           UNCHANGED <<cpc, ntxns, participants, outbox, blockingBegin, sent, pendingReqs, decided>>,
           NetworkTypes', NetworkInv(c, s)',
           \A d \in Clients, z \in Shards : (d # c \/ z # s) =>
              Copies(d, z)' = Copies(d, z) /\ ReplyIds(d, z)' = ReplyIds(d, z)
    PROVE  ProtoInv'
  <1>1. CASE UNCHANGED <<store, clientTable>>
    <2>1. RequestTypes'
      BY KeptTypes DEF ProtoInv
    <2>2. \A d \in Clients, z \in Shards : Pending(d, z)' = Pending(d, z)
      BY Unchanged
    <2>3. TravelStep(c, s)
      BY <1>1, <2>1, <2>2 DEF TravelStep
    <2> QED BY <2>3, TravelProto
  <1>2. CASE Executes(c, s, r)
    <2>m. \A d \in Clients, z \in Shards :
            /\ Sent(d, z)' = Sent(d, z) /\ Timer(d, z)' = Timer(d, z) /\ Blocking(d, z)' = Blocking(d, z)
            /\ Pending(d, z)' = Pending(d, z) /\ TxnId(d)' = TxnId(d)
            /\ \A i : Op(d, z, i)' = Op(d, z, i) /\ Id(d, z, i)' = Id(d, z, i)
            /\ \A outcome : DecidedAs(outcome, z)' = DecidedAs(outcome, z)
      BY Unchanged DEF Sent, Op, Id
    <2>1. PICK t : t = TxnId(c)
      OBVIOUS
    <2>2. /\ Op(c, s, r) # "BATCH_GET" /\ Id(c, s, r) = t /\ Last(c, s) < r /\ Last(c, s)' = r
          /\ Last(c, s) \in Nat /\ r \in Nat /\ Len(Sent(c, s)) \in Nat /\ IsSeq(Sent(c, s))
          /\ DOMAIN Sent(c, s) = 1 .. Len(Sent(c, s))
      <3>1. r > Last(c, s) /\ Op(c, s, r) # "BATCH_GET" /\ Id(c, s, r) = t /\ Last(c, s)' = r
        BY <1>2, <2>1, PairTypes DEF Executes
      <3>2. /\ Last(c, s) \in Nat /\ r \in Nat /\ Len(Sent(c, s)) \in Nat /\ IsSeq(Sent(c, s))
            /\ DOMAIN Sent(c, s) = 1 .. Len(Sent(c, s))
        BY PairTypes
      <3>3. Last(c, s) < r
        BY <3>1, <3>2, SMT
      <3> QED BY <3>1, <3>2, <3>3
    <2>p. /\ SentInv(c, s) /\ NetworkInv(c, s) /\ ExecutedInv(c, s) /\ DecisionInv(c, s)
          /\ PhaseInv(c, s) /\ PreparedInv(c, s) /\ LoggedInv(c, s)
      BY PairParts
    <2>3. t \in TxnIds /\ t[1] = c
      <3>1. Id(c, s, r) = <<c, Id(c, s, r)[2]>> /\ Id(c, s, r)[2] \in 1 .. ntxns[c] /\ ntxns[c] \in 0 .. MaxTxns
        BY <2>p DEF SentInv, ProtoInv, TypeInv, ThreadTypes
      <3>2. t = <<c, t[2]>> /\ t[2] \in 1 .. ntxns[c] /\ ntxns[c] \in 0 .. MaxTxns
        BY <2>2, <3>1
      <3> QED BY <3>2, StrongAssumption, SMT DEF TxnIds
    <2>4. /\ Prepared(s)' \subseteq Prepared(s) \cup {t} /\ Logged(s)' \subseteq Logged(s) \cup {t}
          /\ Op(c, s, r) # "COMMIT" => Logged(s)' = Logged(s)
          /\ Op(c, s, r) # "PREPARE" => t \notin Prepared(s)'
      BY <1>2, <2>1 DEF Executes
    <2>s. /\ \A d, z : (d # c \/ z # s) /\ d \in Clients /\ z \in Shards => clientTable'[z][d] = clientTable[z][d]
          /\ \A z \in Shards : z # s => Prepared(z)' = Prepared(z) /\ Logged(z)' = Logged(z)
          /\ clientTable' \in [Shards -> [Clients -> [lastReqId : Nat, reply : {None, REPLY_OK, REPLY_FAIL}]]]
          /\ \A z \in Shards : IsSeq(store'[z].log)
      BY DEF Serves
    <2>5. TypeInv'
      <3>1. \A z \in Shards : Prepared(z)' \subseteq TxnIds /\ Logged(z)' \subseteq TxnIds
        <4>1. \A z \in Shards : Prepared(z) \subseteq TxnIds /\ Logged(z) \subseteq TxnIds
          BY DEF ProtoInv, TypeInv, ServerTypes
        <4> QED BY <2>3, <2>4, <2>s, <4>1
      <3>2. ServerTypes'
        BY <2>s, <3>1 DEF ServerTypes
      <3> QED BY <3>2, KeptTypes DEF ProtoInv, TypeInv
    <2>6. DecidedInv'
      BY DEF ProtoInv, DecidedInv, TxnId
    <2>7. ASSUME NEW d \in Clients, NEW z \in Shards, d # c \/ z # s PROVE PairInv(d, z)'
      <3>1. Same(d, z)
        BY <2>7, <2>s, SameByParts
      <3>2. ASSUME NEW u, u[1] = d
            PROVE  (u \in Prepared(z)' => u \in Prepared(z)) /\ (u \in Logged(z)' => u \in Logged(z))
        <4>1. CASE z # s
          BY <2>s, <4>1
        <4>2. CASE z = s /\ d # c
          BY <2>3, <2>4, <3>2, <4>2
        <4> QED BY <2>7, <4>1, <4>2
      <3>3. SameTxns(d, z)
        BY <2>m, <3>2 DEF SameTxns
      <3>4. Kept(d, z)
        BY <2>7, <2>m, <3>1, <3>3 DEF Kept
      <3> QED BY <3>4, KeptPairInv DEF ProtoInv
    <2>u. \A i : Unexecuted(c, s, i)' <=> i > r
      BY <2>2 DEF Unexecuted, Last
    <2>n. /\ Sent(c, s)' = Sent(c, s) /\ Pending(c, s)' = Pending(c, s) /\ TxnId(c)' = t /\ t = TxnId(c)
          /\ \A i : Op(c, s, i)' = Op(c, s, i) /\ Id(c, s, i)' = Id(c, s, i)
      BY <2>1, <2>m
    <2>8. SentInv(c, s)' /\ PhaseInv(c, s)' /\ DecisionInv(c, s)'
      <3>1. SentInv(c, s)'
        BY <2>n, <2>p DEF SentInv
      <3>2. PhaseInv(c, s)'
        <4>1. Timer(c, s)' = Timer(c, s)
          BY <2>m
        <4> QED BY <2>n, <2>p, <4>1 DEF PhaseInv
      <3>3. DecisionInv(c, s)'
        BY <2>m, <2>p, ZenonT(40) DEF DecisionInv
      <3> QED BY <3>1, <3>2, <3>3
    <2>9. ExecutedInv(c, s)'
      <3>1. \A i \in DOMAIN Sent(c, s) : /\ i \in Nat
                                         /\ i <= Last(c, s) => i <= r
                                         /\ i < Last(c, s) => i < r
        BY <2>2, SMT
      <3>2. r <= Len(Sent(c, s))
        BY <2>2, SMT
      <3>3. Blocking(c, s)' = Blocking(c, s)
        BY <2>m
      <3> QED BY <2>2, <2>n, <2>p, <3>1, <3>2, <3>3 DEF ExecutedInv
    <2>10. PreparedInv(c, s)'
      <3> SUFFICES ASSUME NEW u \in Prepared(s)', u[1] = c
                   PROVE  /\ u = t
                          /\ \E i \in DOMAIN Sent(c, s) : Op(c, s, i) = "PREPARE" /\ Id(c, s, i) = u
                          /\ \A i \in DOMAIN Sent(c, s) : (Op(c, s, i) \in Ending /\ Id(c, s, i) = u) => i > r
        BY <2>n, <2>u DEF PreparedInv
      <3>1. u = t
        BY <2>1, <2>4, <2>p DEF PreparedInv
      <3>2. Op(c, s, r) = "PREPARE"
        BY <2>4, <3>1
      <3>3. ASSUME NEW i \in DOMAIN Sent(c, s), Op(c, s, i) \in Ending, Id(c, s, i) = u PROVE i > r
        <4>1. r <= i
          BY <2>2, <2>p, <3>1, <3>3, EndingIsLast
        <4>2. r # i /\ i \in Nat
          BY <3>2, <3>3, PairTypes DEF Ending
        <4> QED BY <2>2, <4>1, <4>2, SMT
      <3> QED BY <2>2, <3>1, <3>2, <3>3
    <2>11. LoggedInv(c, s)'
      <3>1. Op(c, s, r) = "COMMIT" => t \in DecidedAs("commit", s)
        BY <2>2, <2>p DEF DecisionInv, Ending, Outcome
      <3>2. ~(r > r)
        BY <2>2, SMT
      <3>3. \A i \in DOMAIN Sent(c, s) : ~Unexecuted(c, s, i) => ~(i > r)
        <4>1. \A i \in DOMAIN Sent(c, s) : i \in Nat /\ (Unexecuted(c, s, i) <=> i > Last(c, s))
          BY PairTypes
        <4>2. \A i \in Nat : ~(i > Last(c, s)) => ~(i > r)
          BY <2>2, SMT
        <4> QED BY <4>1, <4>2
      <3>4. ASSUME NEW u \in Logged(s)', u[1] = c
            PROVE  /\ u \in DecidedAs("commit", s)
                   /\ \E i \in DOMAIN Sent(c, s) : Op(c, s, i) = "COMMIT" /\ Id(c, s, i) = u /\ ~(i > r)
        <4>1. CASE u \in Logged(s)
          BY <2>p, <3>3, <3>4, <4>1 DEF LoggedInv
        <4>2. CASE u = t /\ Op(c, s, r) = "COMMIT"
          BY <2>2, <3>1, <3>2, <4>2
        <4> QED BY <2>4, <3>4, <4>1, <4>2
      <3>5. DecidedAs("commit", s)' = DecidedAs("commit", s)
        BY <2>m
      <3> QED BY <2>n, <2>u, <3>4, <3>5 DEF LoggedInv
    <2>12. PairInv(c, s)'
      BY <2>8, <2>9, <2>10, <2>11 DEF PairInv
    <2> QED BY <2>5, <2>6, <2>7, <2>12 DEF ProtoInv
  <1> QED BY <1>1, <1>2 DEF Serves

\* What was executed stays so.
LEMMA StaysExecuted ==
    ASSUME ProtoInv, NEW c \in Clients, NEW s \in Shards, NEW r \in DOMAIN Sent(c, s), Serves(c, s, r),
           NEW i \in DOMAIN Sent(c, s), ~Unexecuted(c, s, i)
    PROVE  ~Unexecuted(c, s, i)'
  <1>1. i \in Nat /\ r \in Nat /\ Last(c, s) \in Nat /\ ~(i > Last(c, s))
    BY PairTypes
  <1>2. CASE UNCHANGED <<store, clientTable>>
    BY <1>2 DEF Unexecuted
  <1>3. CASE Executes(c, s, r)
    <2>1. r > Last(c, s) /\ Last(c, s)' = r
      BY <1>3, PairTypes DEF Executes
    <2>2. ~(i > Last(c, s)')
      BY <1>1, <2>1, SMT
    <2> QED BY <2>2 DEF Unexecuted, Last
  <1> QED BY <1>2, <1>3 DEF Serves

\* An answer to a request: the last one that was executed has the reply that the
\* client table records.
Replies(c, s, r, e) ==
    /\ e.reqId = r
    /\ Op(c, s, r) # "BATCH_GET" => Last(c, s)' = r /\ e.status = LastReply(c, s)'

\* A request is answered only if it is a read or the newest.
LEMMA ReplyEffect ==
    ASSUME IInv, ProtoInv, NEW c \in Clients, NEW s \in Shards, NEW r \in DOMAIN Sent(c, s), HandleRequest(c, s, r)
    PROVE  \/ ReplyTo(c, s, r) = <<>>
           \/ \E e : ReplyTo(c, s, r) = <<e>> /\ Replies(c, s, r, e)
  <1> DEFINE entry == clientTable[s][c]
             Reply(status) == [reqId |-> r, status |-> status, seen |-> EmptyMap]
  <1>o. sent[c][s][r].op = Op(c, s, r) /\ (IsNew(entry, r) <=> Unexecuted(c, s, r))
    BY DEF Op, IsNew, Unexecuted
  <1>1. CASE Op(c, s, r) = "BATCH_GET"
    <2>1. PICK e : ReplyTo(c, s, r) = <<e>> /\ e.reqId = r
      BY <1>1, <1>o, SMT DEF ReplyTo
    <2> QED BY <1>1, <2>1 DEF Replies
  <1>2. CASE Op(c, s, r) # "BATCH_GET" /\ IsNew(entry, r)
    <2>0. r # entry.lastReqId
      <3>1. r > Last(c, s) /\ r \in Nat /\ Last(c, s) \in Nat
        BY <1>2, <1>o, PairTypes
      <3>2. r # Last(c, s)
        BY <3>1, SMT
      <3> QED BY <3>2 DEF Last
    <2>1. ReplyTo(c, s, r) = <<Reply(UpcallStatus(s, sent[c][s][r]))>>
      BY <1>2, <1>o, <2>0 DEF ReplyTo
    <2>2. clientTable' = [clientTable EXCEPT ![s][c] = [lastReqId |-> r, reply |-> UpcallStatus(s, sent[c][s][r])]]
      BY <1>2, <1>o DEF HandleRequest
    <2>3. PICK status : status = UpcallStatus(s, sent[c][s][r])
      OBVIOUS
    <2>4. clientTable'[s][c] = [lastReqId |-> r, reply |-> status]
      BY <2>2, <2>3 DEF ProtoInv, TypeInv, ServerTypes
    <2>5. Last(c, s)' = r /\ LastReply(c, s)' = status
      BY <2>4, SMT DEF Last, LastReply
    <2>6. Reply(status).reqId = r /\ Reply(status).status = status
      OBVIOUS
    <2>7. Replies(c, s, r, Reply(status))
      BY <2>5, <2>6 DEF Replies
    <2> QED BY <2>1, <2>3, <2>7
  <1>3. CASE Op(c, s, r) # "BATCH_GET" /\ ~IsNew(entry, r) /\ r = Last(c, s)
    <2>1. ReplyTo(c, s, r) = <<Reply(entry.reply)>>
      BY <1>3, <1>o DEF ReplyTo, Last
    <2>2. UNCHANGED clientTable
      BY <1>3, <1>o DEF HandleRequest, servers
    <2>3. Last(c, s)' = r /\ LastReply(c, s)' = entry.reply
      BY <1>3, <2>2 DEF Last, LastReply
    <2>4. Reply(entry.reply).reqId = r /\ Reply(entry.reply).status = entry.reply
      OBVIOUS
    <2>5. Replies(c, s, r, Reply(entry.reply))
      BY <2>3, <2>4 DEF Replies
    <2> QED BY <2>1, <2>5
  <1>4. CASE Op(c, s, r) # "BATCH_GET" /\ ~IsNew(entry, r) /\ r # Last(c, s)
    BY <1>4, <1>o DEF ReplyTo, Last
  <1> QED BY <1>1, <1>2, <1>3, <1>4

\* What ReceiveRequest does: it serves a request that was invoked, and may answer.
Receives(c, s, r) ==
    /\ r \in DOMAIN Sent(c, s) /\ Serves(c, s, r)
    /\ UNCHANGED <<cpc, ntxns, participants, outbox, blockingBegin, sent, pendingReqs, decided>>
    /\ NetworkTypes' /\ Copies(c, s)' \subseteq Copies(c, s)
    /\ \A d \in Clients, z \in Shards : (d # c \/ z # s) =>
          Copies(d, z)' = Copies(d, z) /\ replies'[d][z] = replies[d][z]
    /\ \/ replies'[c][s] = replies[c][s]
       \/ \E e : replies'[c][s] = Append(replies[c][s], e) /\ Replies(c, s, r, e)

\* A request is taken from the connection.
LEMMA ReceiveEffect ==
    ASSUME IInv, ProtoInv, NEW c \in Clients, NEW s \in Shards, ReceiveRequest(c, s)
    PROVE  \E r : Receives(c, s, r)
  <1> DEFINE q == requests[c][s]
             a == replies[c][s]
  <1>0. PICK r : r = Head(q)
    OBVIOUS
  <1>1. /\ q # <<>> /\ HandleRequest(c, s, r)
        /\ replies' = [replies EXCEPT ![c][s] = a \o ReplyTo(c, s, r)]
        /\ requests' = [requests EXCEPT ![c][s] = Tail(q)]
    BY <1>0 DEF ReceiveRequest
  <1>u. UNCHANGED <<cpc, ntxns, participants, outbox, blockingBegin, sent, pendingReqs, decided, old>>
    BY DEF ReceiveRequest, history, client, shardclient
  <1>2. /\ q \in Seq(Nat) /\ Grid(requests) /\ requests \in [Clients -> [Shards -> Seq(Nat)]]
        /\ Grid(replies) /\ IsSeq(a) /\ \A d \in Clients, z \in Shards : IsSeq(replies[d][z])
    BY GridTypes DEF ProtoInv, TypeInv, NetworkTypes
  <1>3. IsSeq(q) /\ Elems(Tail(q)) \subseteq Elems(q) /\ r \in Elems(q)
    BY <1>0, <1>1, <1>2, SeqIsSeq, TailSeq
  <1>4. Tail(q) \in Seq(Nat)
    BY <1>1, <1>2, SMT
  <1>5. r \in DOMAIN Sent(c, s)
    <2>1. NetworkInv(c, s)
      BY PairParts
    <2> QED BY <1>3, <2>1 DEF NetworkInv, Copies, Elems
  <1>6. Serves(c, s, r)
    BY <1>1, <1>5, RequestEffect
  <1>7. a \o ReplyTo(c, s, r) = a \/ \E e : a \o ReplyTo(c, s, r) = Append(a, e) /\ Replies(c, s, r, e)
    <2>1. CASE ReplyTo(c, s, r) = <<>>
      BY <1>2, <2>1, SMT DEF IsSeq
    <2>2. ASSUME NEW e, ReplyTo(c, s, r) = <<e>>, Replies(c, s, r, e)
          PROVE  \E x : a \o ReplyTo(c, s, r) = Append(a, x) /\ Replies(c, s, r, x)
      <3>1. a \o ReplyTo(c, s, r) = Append(a, e)
        BY <1>2, <2>2, SMT DEF IsSeq
      <3> QED BY <2>2, <3>1
    <2> QED BY <1>1, <1>5, <2>1, <2>2, ReplyEffect
  <1> HIDE DEF q, a
  <1>8. Updated(replies, replies', c, s, a \o ReplyTo(c, s, r)) /\ Updated(requests, requests', c, s, Tail(q))
    BY <1>1, <1>2, GridUpdate
  <1>9. NetworkTypes'
    <2>1. IsSeq(a \o ReplyTo(c, s, r))
      <3>1. PICK x : x = a \o ReplyTo(c, s, r)
        OBVIOUS
      <3>2. x = a \/ \E e : x = Append(a, e)
        BY <1>7, <3>1
      <3>3. IsSeq(a)
        BY <1>2
      <3>4. \A e : IsSeq(Append(a, e))
        BY <3>3, AppendSeq
      <3> QED BY <3>1, <3>2, <3>3, <3>4
    <2>2. Grid(replies') /\ \A d \in Clients, z \in Shards : IsSeq(replies'[d][z])
      BY <1>2, <1>8, <2>1 DEF Updated
    <2>3. requests' \in [Clients -> [Shards -> Seq(Nat)]]
      BY <1>1, <1>2, <1>4
    <2> QED BY <1>u, <2>2, <2>3 DEF ProtoInv, TypeInv, NetworkTypes
  <1>10. Copies(c, s)' \subseteq Copies(c, s)
    <2>1. requests'[c][s] = Tail(q)
      BY <1>8 DEF Updated
    <2>2. Copies(c, s) = Elems(q) \cup Elems(old[c][s])
      BY DEF Copies, Elems, q
    <2>3. Copies(c, s)' = Elems(Tail(q)) \cup Elems(old[c][s])
      BY <1>u, <2>1 DEF Copies, Elems
    <2> QED BY <1>3, <2>2, <2>3
  <1>11. \A d \in Clients, z \in Shards : (d # c \/ z # s) =>
           Copies(d, z)' = Copies(d, z) /\ replies'[d][z] = replies[d][z]
    BY <1>8, <1>u, Unchanged DEF Updated
  <1>12. replies'[c][s] = a \o ReplyTo(c, s, r)
    BY <1>8 DEF Updated
  <1>13. replies'[c][s] = a \/ \E e : replies'[c][s] = Append(a, e) /\ Replies(c, s, r, e)
    BY <1>7, <1>12
  <1> QED BY <1>5, <1>6, <1>9, <1>10, <1>11, <1>13, <1>u DEF Receives, a

\* What ReceiveOld does: it serves a request that was invoked.
ReceivesOld(c, s, r) ==
    /\ r \in DOMAIN Sent(c, s) /\ Serves(c, s, r)
    /\ UNCHANGED <<cpc, ntxns, participants, outbox, blockingBegin, sent, pendingReqs, decided, replies>>
    /\ NetworkTypes' /\ Copies(c, s)' \subseteq Copies(c, s)
    /\ \A d \in Clients, z \in Shards : (d # c \/ z # s) => Copies(d, z)' = Copies(d, z)

\* A request is taken from a broken connection.
LEMMA ReceiveOldEffect ==
    ASSUME IInv, ProtoInv, NEW c \in Clients, NEW s \in Shards, ReceiveOld(c, s)
    PROVE  \E r : ReceivesOld(c, s, r)
  <1> DEFINE q == old[c][s]
  <1>0. PICK r : r = Head(q)
    OBVIOUS
  <1>1. q # <<>> /\ HandleRequest(c, s, r) /\ old' = [old EXCEPT ![c][s] = Tail(q)]
    BY <1>0 DEF ReceiveOld
  <1>u. UNCHANGED <<cpc, ntxns, participants, outbox, blockingBegin, sent, pendingReqs, decided, requests, replies>>
    BY DEF ReceiveOld, history, client, shardclient
  <1>2. q \in Seq(Nat) /\ Grid(old) /\ old \in [Clients -> [Shards -> Seq(Nat)]]
    BY GridTypes DEF ProtoInv, TypeInv, NetworkTypes
  <1>3. IsSeq(q) /\ Elems(Tail(q)) \subseteq Elems(q) /\ r \in Elems(q)
    BY <1>0, <1>1, <1>2, SeqIsSeq, TailSeq
  <1>4. Tail(q) \in Seq(Nat)
    BY <1>1, <1>2, SMT
  <1>5. r \in DOMAIN Sent(c, s)
    <2>1. NetworkInv(c, s)
      BY PairParts
    <2> QED BY <1>3, <2>1 DEF NetworkInv, Copies, Elems
  <1>6. Serves(c, s, r)
    BY <1>1, <1>5, RequestEffect
  <1> HIDE DEF q
  <1>7. Updated(old, old', c, s, Tail(q))
    BY <1>1, <1>2, GridUpdate
  <1>8. NetworkTypes'
    <2>1. old' \in [Clients -> [Shards -> Seq(Nat)]]
      BY <1>1, <1>2, <1>4
    <2> QED BY <1>u, <2>1 DEF ProtoInv, TypeInv, NetworkTypes, Grid
  <1>9. Copies(c, s)' \subseteq Copies(c, s)
    <2>1. old'[c][s] = Tail(q)
      BY <1>7 DEF Updated
    <2>2. Copies(c, s) = Elems(requests[c][s]) \cup Elems(q)
      BY DEF Copies, Elems, q
    <2>3. Copies(c, s)' = Elems(requests[c][s]) \cup Elems(Tail(q))
      BY <1>u, <2>1 DEF Copies, Elems
    <2> QED BY <1>3, <2>2, <2>3
  <1>10. \A d \in Clients, z \in Shards : (d # c \/ z # s) => Copies(d, z)' = Copies(d, z)
    BY <1>7, <1>u, Unchanged DEF Updated
  <1> QED BY <1>5, <1>6, <1>8, <1>9, <1>10, <1>u DEF ReceivesOld

\* A request read from the connection gets an answer if it is the newest.
LEMMA ReceiveProto ==
    ASSUME ProtoInv, NEW c \in Clients, NEW s \in Shards, NEW r, Receives(c, s, r)
    PROVE  ProtoInv'
  <1>1. /\ r \in DOMAIN Sent(c, s) /\ Serves(c, s, r) /\ NetworkTypes' /\ Copies(c, s)' \subseteq Copies(c, s)
        /\ UNCHANGED <<cpc, ntxns, participants, outbox, blockingBegin, sent, pendingReqs, decided>>
        /\ \A d \in Clients, z \in Shards : (d # c \/ z # s) =>
              Copies(d, z)' = Copies(d, z) /\ replies'[d][z] = replies[d][z]
    BY DEF Receives
  <1>m. Sent(c, s)' = Sent(c, s) /\ \A i : Op(c, s, i)' = Op(c, s, i)
    BY <1>1 DEF Sent, Op
  <1>2. \A i \in Answered(c, s) : i \in Answered(c, s)'
    <2>1. \A i \in DOMAIN Sent(c, s) : ~Unexecuted(c, s, i) => ~Unexecuted(c, s, i)'
      BY <1>1, StaysExecuted
    <2> QED BY <1>m, <2>1 DEF Answered
  <1>3. ReplyIds(c, s)' \subseteq ReplyIds(c, s) \cup {r} /\ (r \in ReplyIds(c, s)' => r \in ReplyIds(c, s) \/ r \in Answered(c, s)')
    <2>1. CASE replies'[c][s] = replies[c][s]
      BY <2>1, Unchanged
    <2>2. ASSUME NEW e, replies'[c][s] = Append(replies[c][s], e), Replies(c, s, r, e)
          PROVE  ReplyIds(c, s)' \subseteq ReplyIds(c, s) \cup {r} /\ r \in Answered(c, s)'
      <3> DEFINE a == replies[c][s]
      <3>1. IsSeq(a)
        BY DEF ProtoInv, TypeInv, NetworkTypes
      <3> HIDE DEF a
      <3>2. Elems(Append(a, e)) = Elems(a) \cup {e} /\ e.reqId = r
        BY <2>2, <3>1, AppendSeq DEF Replies
      <3>3. ReplyIds(c, s) = {x.reqId : x \in Elems(a)}
        BY DEF ReplyIds, Elems, a
      <3>4. ReplyIds(c, s)' = {x.reqId : x \in Elems(Append(a, e))}
        BY <2>2 DEF ReplyIds, Elems, a
      <3>5. ReplyIds(c, s)' \subseteq ReplyIds(c, s) \cup {r}
        BY <3>2, <3>3, <3>4
      <3>6. Op(c, s, r) # "BATCH_GET" => ~Unexecuted(c, s, r)'
        <4>1. r \in Nat
          BY <1>1, PairTypes
        <4>2. ~(r > r)
          BY <4>1, SMT
        <4>3. Op(c, s, r) # "BATCH_GET" => Last(c, s)' = r
          BY <2>2 DEF Replies
        <4> QED BY <4>2, <4>3 DEF Unexecuted, Last
      <3> QED BY <1>1, <1>m, <3>5, <3>6 DEF Answered
    <2> QED BY <2>1, <2>2 DEF Receives
  <1>4. NetworkInv(c, s)'
    <2>1. NetworkInv(c, s)
      BY PairParts
    <2> QED BY <1>1, <1>m, <1>2, <1>3, <2>1 DEF NetworkInv
  <1>5. \A d \in Clients, z \in Shards : (d # c \/ z # s) =>
          Copies(d, z)' = Copies(d, z) /\ ReplyIds(d, z)' = ReplyIds(d, z)
    BY <1>1, Unchanged
  <1> QED BY <1>1, <1>4, <1>5, HandleRequestProto

\* A request of a broken connection is handled all the same.
LEMMA ReceiveOldProto ==
    ASSUME ProtoInv, NEW c \in Clients, NEW s \in Shards, NEW r, ReceivesOld(c, s, r)
    PROVE  ProtoInv'
  <1>1. /\ r \in DOMAIN Sent(c, s) /\ Serves(c, s, r) /\ NetworkTypes' /\ Copies(c, s)' \subseteq Copies(c, s)
        /\ UNCHANGED <<cpc, ntxns, participants, outbox, blockingBegin, sent, pendingReqs, decided, replies>>
        /\ \A d \in Clients, z \in Shards : (d # c \/ z # s) => Copies(d, z)' = Copies(d, z)
    BY DEF ReceivesOld
  <1>m. Sent(c, s)' = Sent(c, s) /\ \A i : Op(c, s, i)' = Op(c, s, i)
    BY <1>1 DEF Sent, Op
  <1>2. \A i \in Answered(c, s) : i \in Answered(c, s)'
    <2>1. \A i \in DOMAIN Sent(c, s) : ~Unexecuted(c, s, i) => ~Unexecuted(c, s, i)'
      BY <1>1, StaysExecuted
    <2> QED BY <1>m, <2>1 DEF Answered
  <1>3. \A d \in Clients, z \in Shards : ReplyIds(d, z)' = ReplyIds(d, z)
    BY <1>1, Unchanged
  <1>4. NetworkInv(c, s)'
    <2>1. NetworkInv(c, s)
      BY PairParts
    <2> QED BY <1>1, <1>m, <1>2, <1>3, <2>1 DEF NetworkInv
  <1> QED BY <1>1, <1>3, <1>4, HandleRequestProto

-----------------------------------------------------------------------------
(* Every step *)

\* Nothing is sent, executed or decided at first.
LEMMA InitProto == Init => ProtoInv
  <1> SUFFICES ASSUME Init PROVE ProtoInv
    OBVIOUS
  <1>1. ThreadTypes /\ TimerTypes
    <2>1. 0 \in 0 .. MaxTxns
      BY StrongAssumption, SMT
    <2> QED BY <2>1 DEF Init, ThreadTypes, TimerTypes
  <1>2. RequestTypes /\ NetworkTypes
    <2>1. <<>> \in Seq(Nat) /\ IsSeq(<<>>)
      BY EmptySeq, SMT
    <2> QED BY <2>1 DEF Init, RequestTypes, NetworkTypes, Grid, Sent
  <1>3. \A s \in Shards : store[s].log = <<>> /\ Prepared(s) = {} /\ Logged(s) = {}
    <2>1. \A s \in Shards : store[s].log = <<>> /\ Prepared(s) = {}
      BY SMT DEF Init, Empty, EmptyMap, Prepared
    <2>2. \A s \in Shards : Logged(s) = {}
      BY <2>1, EmptySeq DEF Logged
    <2> QED BY <2>1, <2>2
  <1>4. ServerTypes
    <2>1. clientTable \in [Shards -> [Clients -> [lastReqId : Nat, reply : {None, REPLY_OK, REPLY_FAIL}]]]
      <3>1. [lastReqId |-> 0, reply |-> None] \in [lastReqId : Nat, reply : {None, REPLY_OK, REPLY_FAIL}]
        BY SMT
      <3> QED BY <3>1 DEF Init
    <2> QED BY <1>3, <2>1, EmptySeq DEF ServerTypes
  <1>5. DOMAIN decided = {} /\ \A c \in Clients : cpc[c] = "idle" /\ ntxns[c] = 0
    BY SMT DEF Init, EmptyMap
  <1>6. DecidedInv
    BY <1>5 DEF DecidedInv
  <1>7. ASSUME NEW c \in Clients, NEW s \in Shards PROVE PairInv(c, s)
    <2>1. /\ DOMAIN Sent(c, s) = {} /\ Len(Sent(c, s)) = 0 /\ Copies(c, s) = {} /\ ReplyIds(c, s) = {}
      <3>1. Sent(c, s) = <<>> /\ requests[c][s] = <<>> /\ replies[c][s] = <<>> /\ old[c][s] = <<>>
        BY DEF Init, Sent
      <3> QED BY <3>1, EmptySeq DEF Copies, ReplyIds
    <2>2. Pending(c, s) = {} /\ Timer(c, s) = None
      BY DEF Init, Pending, Timer
    <2>3. Last(c, s) = 0 /\ 0 <= 0
      <3>1. clientTable[s][c] = [lastReqId |-> 0, reply |-> None]
        BY DEF Init
      <3> QED BY <3>1, SMT DEF Last
    <2>4. Timer(c, s) \notin EndTimers /\ Timer(c, s) # "PREPARE"
      BY <2>2 DEF None, EndTimers
    <2>5. \A outcome : DecidedAs(outcome, s) = {}
      BY <1>5 DEF DecidedAs
    <2>6. SentInv(c, s) /\ NetworkInv(c, s) /\ ExecutedInv(c, s)
      BY <2>1, <2>2, <2>3 DEF SentInv, NetworkInv, ExecutedInv
    <2>7. DecisionInv(c, s) /\ PhaseInv(c, s)
      BY <1>5, <2>1, <2>2, <2>4, <2>5 DEF DecisionInv, PhaseInv
    <2>8. PreparedInv(c, s) /\ LoggedInv(c, s)
      BY <1>3 DEF PreparedInv, LoggedInv
    <2> QED BY <2>6, <2>7, <2>8 DEF PairInv
  <1> QED BY <1>1, <1>2, <1>4, <1>6, <1>7 DEF ProtoInv, TypeInv

\* A step that changes none of the variables.
LEMMA StutterProto == ProtoInv /\ UNCHANGED vars => ProtoInv'
  <1> SUFFICES ASSUME ProtoInv, UNCHANGED vars PROVE ProtoInv'
    OBVIOUS
  <1>1. UNCHANGED <<cpc, ntxns, participants, outbox, blockingBegin, sent, pendingReqs, requests, replies, old,
                    store, clientTable, decided>>
    BY DEF vars, client, shardclient, network, servers, history
  <1>2. TypeInv'
    BY <1>1, KeptTypes DEF ProtoInv, TypeInv
  <1>3. DecidedInv'
    BY <1>1 DEF ProtoInv, DecidedInv, TxnId
  <1>4. \A c \in Clients, s \in Shards : Kept(c, s)
    BY <1>1, SameServers, Unchanged DEF Kept
  <1> QED BY <1>2, <1>3, <1>4, KeptPairInv DEF ProtoInv

\* Every step keeps ProtoInv.
LEMMA NextProto == IInv /\ ProtoInv /\ [Next]_vars => ProtoInv'
  <1> SUFFICES ASSUME IInv, ProtoInv, [Next]_vars PROVE ProtoInv'
    OBVIOUS
  <1>1. ASSUME NEW c \in Clients, ClientNext(c) PROVE ProtoInv'
    BY <1>1, BeginProto, MoveProto, ScheduleProto, DecideProto DEF ClientNext
  <1>2. ASSUME NEW c \in Clients, NEW s \in Shards,
               \/ RunTimer(c, s) \/ GetTimeout(c, s)
               \/ \E reqId \in pendingReqs[c][s] : ResendRequest(c, s, reqId) \/ ReadTimeout(c, s, reqId)
               \/ HandleReply(c, s) \/ ReceiveRequest(c, s) \/ ReceiveOld(c, s)
               \/ \E n \in 0 .. Len(requests[c][s]) : Break(c, s, n)
        PROVE  ProtoInv'
    <2>1. CASE ReceiveRequest(c, s)
      BY <2>1, ReceiveEffect, ReceiveProto
    <2>2. CASE ReceiveOld(c, s)
      BY <2>2, ReceiveOldEffect, ReceiveOldProto
    <2> QED BY <1>2, <2>1, <2>2, RunTimerProto, TimeoutProto, ResendProto, HandleReplyProto, BreakProto
  <1> QED BY <1>1, <1>2, StutterProto DEF Next

\* IInv and ProtoInv together are inductive.
LEMMA SpecProto == Spec => [](IInv /\ ProtoInv)
  <1>1. Init => IInv
    BY SMT DEF Init, IInv, StoreInv, IsStore, PreparedCompatible, Empty, EmptyMap
  <1> QED BY <1>1, InitProto, NextIInv, NextProto, PTL DEF Spec

\* ASSERT(blockingBegin != NULL) (shardclient.cc:576 and 672): whenever the
\* callback of a commit or abort can run, the next Begin waits for it, however
\* many copies of the request and of its reply there are.
THEOREM StrongCallbackFindsBlockingBegin == Spec => []CallbackFindsBlockingBegin
  <1>1. ProtoInv => CallbackFindsBlockingBegin
    <2> SUFFICES ASSUME ProtoInv, NEW c \in Clients, NEW s \in Shards, NEW r \in Pending(c, s), Op(c, s, r) \in Ending
                 PROVE  Blocking(c, s) = "pending"
      BY DEF CallbackFindsBlockingBegin, Pending, Op, Blocking, Ending
    <2> QED BY PairParts DEF ExecutedInv
  <1> QED BY <1>1, SpecProto, PTL

\* No late copy of a prepare prepares a decided transaction again (replica.cc:378):
\* what a shard holds prepared after the decision, a commit or abort that it has
\* yet to execute will end.
THEOREM StrongNoZombiePrepare == Spec => []NoZombiePrepare
  <1>1. ProtoInv => NoZombiePrepare
    <2> SUFFICES ASSUME ProtoInv, NEW s \in Shards, NEW t \in Prepared(s), t \in DOMAIN decided,
                        NEW c, c = t[1], Timer(c, s) \notin EndTimers
                 PROVE  \E i \in Pending(c, s) : Op(c, s, i) \in Ending /\ Id(c, s, i) = t /\ Unexecuted(c, s, i)
      BY ZenonT(40) DEF NoZombiePrepare, Prepared, Pending, Op, Id, Timer, Ending, EndTimers
    <2>1. c \in Clients
      <3>1. t \in Clients \X (1 .. MaxTxns)
        BY DEF ProtoInv, TypeInv, ServerTypes, TxnIds
      <3> QED BY <3>1, SMT
    <2>2. SentInv(c, s) /\ ExecutedInv(c, s) /\ DecisionInv(c, s) /\ PreparedInv(c, s)
      BY <2>1, PairParts
    <2>3. PICK p \in DOMAIN Sent(c, s) : Op(c, s, p) = "PREPARE" /\ Id(c, s, p) = t
      BY <2>2 DEF PreparedInv
    <2>4. t = TxnId(c) /\ s \in participants[c]
      BY <2>2, <2>3 DEF PreparedInv, SentInv
    <2>5. PICK i \in DOMAIN Sent(c, s) : Op(c, s, i) \in Ending /\ Id(c, s, i) = t
      BY <2>2, <2>4 DEF DecisionInv
    <2>6. Unexecuted(c, s, i)
      BY <2>2, <2>5 DEF PreparedInv
    <2>7. i \in Pending(c, s)
      <3>1. i \in Nat /\ Last(c, s) \in Nat /\ i > Last(c, s)
        BY <2>1, <2>5, <2>6, PairTypes
      <3>2. ~(i <= Last(c, s))
        BY <3>1, SMT
      <3> QED BY <2>2, <2>5, <3>2 DEF ExecutedInv, Ending
    <2> QED BY <2>5, <2>6, <2>7
  <1> QED BY <1>1, SpecProto, PTL
=============================================================================

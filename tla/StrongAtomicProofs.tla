------------------------- MODULE StrongAtomicProofs --------------------------
(***************************************************************************)
(* With stored procedures two-phase commit is atomic: a client decides to  *)
(* commit only with the vote of every participant, and none of them lets   *)
(* the transaction go before it has put its writes.  (Without stored       *)
(* procedures the answer to a late read can pass for a vote: the run       *)
(* strong_lateread finds it.)                                              *)
(***************************************************************************)
EXTENDS StrongProtocolProofs

USE Zenon

\* The replies on their way to a client, the answer of a promise, and what the
\* server answered last.
Queue(c, s) == replies[c][s]
ReplyId(c, s, i) == replies[c][s][i].reqId
ReplyStatus(c, s, i) == replies[c][s][i].status
Promise(c, s) == promise[c][s]
Statuses == {None, REPLY_OK, REPLY_FAIL, REPLY_TIMEOUT}

\* A shard that votes for a transaction holds it prepared until it is decided.
VotedAt(s) == DOMAIN decided \cup Prepared(s)

\* A stored procedure is executed by the servers: no client reads.
NoReads(c, s) ==
    /\ cpc[c] # "read" /\ Timer(c, s) # "BATCH_GET"
    /\ \A i \in DOMAIN Sent(c, s) : Op(c, s, i) # "BATCH_GET"

\* A connection keeps the order of the replies.  So once a client has the answer
\* to a commit or abort, it has no reply to an earlier request in front of it,
\* and a reply that it will use belongs to its current transaction.
ReplyOrder(c, s) ==
    /\ \A i, j \in DOMAIN Queue(c, s) : i < j => ReplyId(c, s, i) <= ReplyId(c, s, j)
    /\ \A f \in DOMAIN Sent(c, s), i \in DOMAIN Queue(c, s) :
          Op(c, s, f) \in Ending /\ f \notin Pending(c, s) => f <= ReplyId(c, s, i)
    /\ \A i \in DOMAIN Queue(c, s), r \in Pending(c, s) : ReplyId(c, s, i) = r => Id(c, s, r) = TxnId(c)

\* Where a vote is on its way: from the server to the promise.
VoteOnTheWay(c, s) ==
    /\ \A r \in DOMAIN Sent(c, s) :
          r = Last(c, s) /\ Op(c, s, r) = "PREPARE" /\ LastReply(c, s) = REPLY_OK => Id(c, s, r) \in VotedAt(s)
    /\ \A i \in DOMAIN Queue(c, s), r \in DOMAIN Sent(c, s) :
          ReplyId(c, s, i) = r /\ Op(c, s, r) = "PREPARE" /\ ReplyStatus(c, s, i) = REPLY_OK =>
              Id(c, s, r) \in VotedAt(s)
    /\ \A i \in DOMAIN Queue(c, s) : ReplyStatus(c, s, i) \in Statuses
    /\ Promise(c, s) \in Statuses
    /\ cpc[c] = "prepare" /\ Promise(c, s) = REPLY_OK => TxnId(c) \in VotedAt(s)

VotePair(c, s) == NoReads(c, s) /\ ReplyOrder(c, s) /\ VoteOnTheWay(c, s)

\* No participant lets go of what its client decided to commit.
Holds(s) == DecidedAs("commit", s) \subseteq Prepared(s) \cup Logged(s)

VoteInv ==
    /\ Grid(promise) /\ unread = [c \in Clients |-> {}]
    /\ \A c \in Clients, s \in Shards : VotePair(c, s)
    /\ \A s \in Shards : Holds(s)

-----------------------------------------------------------------------------
(* What a step leaves alone *)

\* A step that invokes, answers and executes nothing of a client at a shard.
VoteSame(c, s) ==
    /\ DOMAIN Sent(c, s)' = DOMAIN Sent(c, s) /\ Pending(c, s)' = Pending(c, s) /\ TxnId(c)' = TxnId(c)
    /\ Last(c, s)' = Last(c, s) /\ LastReply(c, s)' = LastReply(c, s)
    /\ \A i : Op(c, s, i)' = Op(c, s, i) /\ Id(c, s, i)' = Id(c, s, i)
    /\ VotedAt(s) \subseteq VotedAt(s)'

\* A step that gives no promise a vote.
NoNewVote(c, s) ==
    /\ Promise(c, s)' \in Statuses
    /\ cpc'[c] = "prepare" /\ Promise(c, s)' = REPLY_OK => cpc[c] = "prepare" /\ Promise(c, s) = REPLY_OK

\* What the invariant depends on.
LEMMA VoteFrame ==
    ASSUME NEW c \in Clients, NEW s \in Shards, VotePair(c, s), VoteSame(c, s), NoNewVote(c, s),
           cpc'[c] # "read", Timer(c, s)' # "BATCH_GET",
           Queue(c, s)' = Queue(c, s) \/ Queue(c, s)' = <<>>
    PROVE  VotePair(c, s)'
  <1>1. NoReads(c, s)'
    BY DEF VotePair, NoReads, VoteSame
  <1>2. \A i \in DOMAIN Queue(c, s)' :
          /\ i \in DOMAIN Queue(c, s)
          /\ ReplyId(c, s, i)' = ReplyId(c, s, i) /\ ReplyStatus(c, s, i)' = ReplyStatus(c, s, i)
    BY EmptySeq DEF Queue, ReplyId, ReplyStatus
  <1>3. ReplyOrder(c, s)'
    BY <1>2 DEF VotePair, ReplyOrder, VoteSame
  <1>4. VoteOnTheWay(c, s)'
    BY <1>2 DEF VotePair, VoteOnTheWay, VoteSame, NoNewVote
  <1> QED BY <1>1, <1>3, <1>4 DEF VotePair

\* A shard at which nothing happens holds what it held.
LEMMA HoldsFrame ==
    ASSUME NEW s \in Shards, Holds(s), DecidedAs("commit", s)' = DecidedAs("commit", s),
           Prepared(s)' = Prepared(s), Logged(s)' = Logged(s)
    PROVE  Holds(s)'
  BY DEF Holds

-----------------------------------------------------------------------------
(* The transaction thread *)

\* A step of the transaction thread of a client.
ThreadStep(c) ==
    /\ UNCHANGED <<sent, pendingReqs, replies, clientTable, store, unread>>
    /\ DOMAIN decided \subseteq DOMAIN decided' /\ Grid(promise')
    /\ \A d \in Clients, s \in Shards : d # c =>
          /\ Timer(d, s)' = Timer(d, s) /\ Promise(d, s)' = Promise(d, s)
          /\ cpc'[d] = cpc[d] /\ TxnId(d)' = TxnId(d)

\* It neither invokes nor answers a request.
LEMMA ThreadSame ==
    ASSUME NEW c \in Clients, ThreadStep(c), NEW d \in Clients, NEW s \in Shards, TxnId(d)' = TxnId(d)
    PROVE  VoteSame(d, s) /\ Queue(d, s)' = Queue(d, s)
  <1>1. UNCHANGED <<sent, pendingReqs, replies, clientTable, store>> /\ DOMAIN decided \subseteq DOMAIN decided'
    BY DEF ThreadStep
  <1>2. /\ DOMAIN Sent(d, s)' = DOMAIN Sent(d, s) /\ Pending(d, s)' = Pending(d, s)
        /\ Last(d, s)' = Last(d, s) /\ LastReply(d, s)' = LastReply(d, s)
        /\ \A i : Op(d, s, i)' = Op(d, s, i) /\ Id(d, s, i)' = Id(d, s, i)
    BY <1>1 DEF Sent, Pending, Last, LastReply, Op, Id
  <1>3. VotedAt(s) \subseteq VotedAt(s)'
    BY <1>1 DEF VotedAt, Prepared
  <1> QED BY <1>1, <1>2, <1>3 DEF VoteSame, Queue

\* The other clients see nothing of it.
LEMMA ThreadOthers ==
    ASSUME VoteInv, NEW c \in Clients, ThreadStep(c), NEW d \in Clients, d # c, NEW s \in Shards
    PROVE  VotePair(d, s)'
  <1>1. /\ VotePair(d, s)
        /\ Timer(d, s)' = Timer(d, s) /\ Promise(d, s)' = Promise(d, s)
        /\ cpc'[d] = cpc[d] /\ TxnId(d)' = TxnId(d)
    BY DEF ThreadStep, VoteInv
  <1>2. VoteSame(d, s) /\ Queue(d, s)' = Queue(d, s)
    BY <1>1, ThreadSame
  <1>3. NoNewVote(d, s) /\ cpc'[d] # "read" /\ Timer(d, s)' # "BATCH_GET"
    BY <1>1 DEF NoNewVote, VotePair, VoteOnTheWay, NoReads
  <1> QED BY <1>1, <1>2, <1>3, VoteFrame

\* New promises have no answer yet.
LEMMA NewPromisesEffect ==
    ASSUME NEW c \in Clients, Grid(promise), NewPromises(c)
    PROVE  /\ Grid(promise')
           /\ \A s \in Shards : Promise(c, s)' = None
           /\ \A d \in Clients, s \in Shards : d # c => Promise(d, s)' = Promise(d, s)
  BY DEF NewPromises, Grid, Promise

\* Begin finds every earlier request answered that has a reply on its way: the
\* answer to the last commit or abort came behind it.
LEMMA BeginVote ==
    ASSUME StoredProcedure, ProtoInv, VoteInv, NEW c \in Clients, NEW w, Begin(c, w)
    PROVE  VoteInv'
  <1>1. /\ cpc[c] = "idle" /\ BeginMayReturn(c)
        /\ UNCHANGED <<outbox, promise, sent, pendingReqs, replies, store, clientTable, decided>>
    BY DEF Begin, network, servers
  <1>2. unread' = unread
    BY DEF Begin, VoteInv
  <1>3. cpc'[c] = "execute" /\ \A d \in Clients : d # c => cpc'[d] = cpc[d] /\ TxnId(d)' = TxnId(d)
    BY DEF Begin, ProtoInv, TypeInv, ThreadTypes, TxnId
  <1>4. ThreadStep(c)
    BY <1>1, <1>2, <1>3, Unchanged DEF ThreadStep, Promise, VoteInv
  <1>5. ASSUME NEW s \in Shards PROVE VotePair(c, s)'
    <2>1. /\ DOMAIN Sent(c, s)' = DOMAIN Sent(c, s) /\ Pending(c, s)' = Pending(c, s)
          /\ Last(c, s)' = Last(c, s) /\ LastReply(c, s)' = LastReply(c, s)
          /\ \A i : Op(c, s, i)' = Op(c, s, i) /\ Id(c, s, i)' = Id(c, s, i)
      BY <1>1 DEF Sent, Pending, Last, LastReply, Op, Id
    <2>2. /\ DOMAIN Queue(c, s)' = DOMAIN Queue(c, s) /\ VotedAt(s)' = VotedAt(s)
          /\ Timer(c, s)' = Timer(c, s) /\ Promise(c, s)' = Promise(c, s)
          /\ \A i : ReplyId(c, s, i)' = ReplyId(c, s, i) /\ ReplyStatus(c, s, i)' = ReplyStatus(c, s, i)
      BY <1>1 DEF Queue, VotedAt, Prepared, Timer, Promise, ReplyId, ReplyStatus
    <2>3. NoReads(c, s) /\ ReplyOrder(c, s) /\ VoteOnTheWay(c, s)
      BY DEF VoteInv, VotePair
    <2>p. SentInv(c, s) /\ NetworkInv(c, s) /\ ExecutedInv(c, s) /\ DecisionInv(c, s) /\ PhaseInv(c, s)
      BY PairParts
    <2>4. ASSUME NEW i \in DOMAIN Queue(c, s), NEW r \in Pending(c, s), ReplyId(c, s, i) = r PROVE FALSE
      <3>1. r \in DOMAIN Sent(c, s) /\ Id(c, s, r) = TxnId(c) /\ Op(c, s, r) # "BATCH_GET"
        BY <2>3, <2>4, <2>p DEF ReplyOrder, NoReads, ExecutedInv
      <3>2. Blocking(c, s) # "pending"
        BY <1>1 DEF BeginMayReturn, Blocking
      <3>3. TxnId(c) \in DOMAIN decided /\ s \in participants[c] /\ Timer(c, s) \notin EndTimers
        BY <1>1, <2>p, <3>1, <3>2 DEF PhaseInv, SentInv, DecisionInv
      <3>4. PICK f \in DOMAIN Sent(c, s) : Op(c, s, f) \in Ending /\ Id(c, s, f) = TxnId(c)
        BY <2>p, <3>3 DEF DecisionInv
      <3>5. f \notin Pending(c, s)
        BY <2>p, <3>2, <3>4 DEF ExecutedInv
      <3>6. f <= r
        BY <2>3, <2>4, <3>4, <3>5 DEF ReplyOrder
      <3>7. r <= f
        BY <2>p, <3>1, <3>4, EndingIsLast, PairTypes
      <3>8. f \in Nat /\ r \in Nat
        BY <3>1, PairTypes
      <3>9. f = r
        BY <3>6, <3>7, <3>8, SMT
      <3> QED BY <3>5, <3>9
    <2>5. NoReads(c, s)'
      BY <1>3, <2>1, <2>2, <2>3 DEF NoReads
    <2>6. ReplyOrder(c, s)'
      BY <2>1, <2>2, <2>3, <2>4 DEF ReplyOrder
    <2>7. VoteOnTheWay(c, s)'
      BY <1>3, <2>1, <2>2, <2>3 DEF VoteOnTheWay
    <2> QED BY <2>5, <2>6, <2>7 DEF VotePair
  <1>6. \A s \in Shards : Holds(s)'
    BY <1>1, Unchanged, HoldsFrame DEF VoteInv
  <1>7. \A d \in Clients, s \in Shards : VotePair(d, s)'
    BY <1>4, <1>5, ThreadOthers
  <1> QED BY <1>1, <1>2, <1>6, <1>7 DEF VoteInv

\* A later step of the transaction: what is scheduled is no read, and promises
\* are new or not looked at any more.
LEMMA ThreadVote ==
    ASSUME VoteInv, NEW c \in Clients, ThreadStep(c), TxnId(c)' = TxnId(c), cpc'[c] # "read",
           \A s \in Shards :
              /\ Timer(c, s)' # "BATCH_GET"
              /\ Promise(c, s)' = None \/ (cpc'[c] # "prepare" /\ Promise(c, s)' = Promise(c, s))
    PROVE  \A d \in Clients, s \in Shards : VotePair(d, s)'
  <1>1. ASSUME NEW s \in Shards PROVE VotePair(c, s)'
    <2>1. VoteSame(c, s) /\ Queue(c, s)' = Queue(c, s)
      BY ThreadSame
    <2>2. VotePair(c, s) /\ Promise(c, s) \in Statuses
      BY DEF VoteInv, VotePair, VoteOnTheWay
    <2>3. NoNewVote(c, s)
      BY <2>2 DEF NoNewVote, Statuses, None, REPLY_OK
    <2> QED BY <2>1, <2>2, <2>3, VoteFrame
  <1> QED BY <1>1, ThreadOthers

\* What ScheduleAll schedules.
LEMMA ScheduleAllEffect ==
    ASSUME ProtoInv, NEW c \in Clients, NEW op, ScheduleAll(c, op)
    PROVE  \A d \in Clients, s \in Shards : Timer(d, s)' = IF d = c /\ s \in participants[c] THEN op ELSE Timer(d, s)
  BY DEF ScheduleAll, Timer, ProtoInv, TypeInv, TimerTypes

\* Prepare schedules prepares, with new promises.
LEMMA PrepareVote ==
    ASSUME ProtoInv, VoteInv, NEW c \in Clients, StartPrepare(c) \/ RetryPrepare(c)
    PROVE  VoteInv'
  <1>1. /\ ClientPrepare(c)
        /\ UNCHANGED <<ntxns, unread, sent, pendingReqs, replies, store, clientTable, decided>>
    BY DEF StartPrepare, RetryPrepare, network, history
  <1>2. /\ Grid(promise') /\ (\A s \in Shards : Promise(c, s)' = None)
        /\ \A d \in Clients, s \in Shards : d # c => Promise(d, s)' = Promise(d, s)
    BY <1>1, NewPromisesEffect DEF ClientPrepare, VoteInv
  <1>3. \A d \in Clients, s \in Shards : Timer(d, s)' = IF d = c /\ s \in participants[c] THEN "PREPARE" ELSE Timer(d, s)
    BY <1>1, ScheduleAllEffect DEF ClientPrepare
  <1>4. cpc'[c] = "prepare" /\ \A d \in Clients : (d # c => cpc'[d] = cpc[d]) /\ TxnId(d)' = TxnId(d)
    BY <1>1 DEF ClientPrepare, ProtoInv, TypeInv, ThreadTypes, TxnId
  <1>5. ThreadStep(c)
    BY <1>1, <1>2, <1>3, <1>4 DEF ThreadStep
  <1>6. \A s \in Shards : Timer(c, s)' # "BATCH_GET"
    BY <1>3 DEF VoteInv, VotePair, NoReads
  <1>7. \A d \in Clients, s \in Shards : VotePair(d, s)'
    BY <1>2, <1>4, <1>5, <1>6, ThreadVote
  <1>8. \A s \in Shards : Holds(s)'
    BY <1>1, Unchanged, HoldsFrame DEF VoteInv
  <1> QED BY <1>1, <1>2, <1>7, <1>8 DEF VoteInv

\* A promise that Prepare counts as OK is one.
LEMMA EveryVote ==
    ASSUME ProtoInv, VoteInv, NEW c \in Clients, cpc[c] = "prepare", AllAnswered(c), PrepareResult(c) = REPLY_OK,
           NEW s \in participants[c]
    PROVE  s \in Shards /\ TxnId(c) \in Prepared(s)
  <1>1. s \in Shards
    BY DEF ProtoInv, TypeInv, ThreadTypes
  <1>2. Promise(c, s) # None /\ Promise(c, s) # REPLY_FAIL /\ Promise(c, s) # REPLY_TIMEOUT
    BY SMT DEF AllAnswered, PrepareResult, Promise, REPLY_OK, REPLY_FAIL, REPLY_TIMEOUT
  <1>3. VoteOnTheWay(c, s)
    BY <1>1 DEF VoteInv, VotePair
  <1>4. Promise(c, s) = REPLY_OK
    BY <1>2, <1>3 DEF VoteOnTheWay, Statuses
  <1>5. TxnId(c) \in VotedAt(s)
    BY <1>3, <1>4 DEF VoteOnTheWay
  <1>6. TxnId(c) \notin DOMAIN decided
    BY DEF ProtoInv, DecidedInv
  <1> QED BY <1>1, <1>5, <1>6 DEF VotedAt

\* The client decides, to commit only if every participant holds the transaction.
LEMMA DecideVote ==
    ASSUME ProtoInv, VoteInv, NEW c \in Clients,
           (\E wait \in BOOLEAN : DecideCommit(c, wait)) \/ DecideAbort(c)
    PROVE  VoteInv'
  <1>1. PICK timer \in EndTimers, phase \in {"idle", "commit"}, outcome \in Outcomes :
            /\ cpc[c] = "prepare" /\ cpc' = [cpc EXCEPT ![c] = phase]
            /\ ScheduleAll(c, timer) /\ Decide(c, outcome)
            /\ outcome = "commit" => AllAnswered(c) /\ PrepareResult(c) = REPLY_OK
            /\ NewPromises(c) \/ promise' = promise
            /\ UNCHANGED <<ntxns, unread, sent, pendingReqs, replies, store, clientTable>>
    <2>1. CASE DecideAbort(c)
      BY <2>1 DEF DecideAbort, EndTimers, Outcomes, network, servers
    <2>2. ASSUME NEW wait \in BOOLEAN, DecideCommit(c, wait)
          PROVE  \E timer \in {"COMMIT", "COMMIT_NOWAIT"}, phase \in {"idle", "commit"} :
                    /\ cpc[c] = "prepare" /\ cpc' = [cpc EXCEPT ![c] = phase]
                    /\ ScheduleAll(c, timer) /\ Decide(c, "commit")
                    /\ AllAnswered(c) /\ PrepareResult(c) = REPLY_OK /\ NewPromises(c)
                    /\ UNCHANGED <<ntxns, unread, sent, pendingReqs, replies, store, clientTable>>
      BY <2>2 DEF DecideCommit, network, servers
    <2> QED BY <2>1, <2>2 DEF EndTimers, Outcomes
  <1>u. UNCHANGED <<ntxns, unread, sent, pendingReqs, replies, store, clientTable>>
    BY <1>1
  <1>2. PICK t : t = TxnId(c) /\ t \notin DOMAIN decided
    BY <1>1 DEF ProtoInv, DecidedInv
  <1>3. /\ DOMAIN decided' = DOMAIN decided \cup {t}
        /\ decided'[t].outcome = outcome /\ decided'[t].at = participants[c]
        /\ \A u \in DOMAIN decided : decided'[u] = decided[u]
    <2>1. decided' = With(decided, t, [outcome |-> outcome, at |-> participants[c]])
      BY <1>1, <1>2 DEF Decide
    <2> QED BY <1>2, <2>1 DEF With
  <1>4. /\ Grid(promise') /\ (\A s \in Shards : Promise(c, s)' = None \/ Promise(c, s)' = Promise(c, s))
        /\ \A d \in Clients, s \in Shards : d # c => Promise(d, s)' = Promise(d, s)
    <2>1. CASE NewPromises(c)
      BY <2>1, NewPromisesEffect DEF VoteInv
    <2>2. CASE promise' = promise
      BY <2>2 DEF VoteInv, Promise
    <2> QED BY <1>1, <2>1, <2>2
  <1>5. \A d \in Clients, s \in Shards : Timer(d, s)' = IF d = c /\ s \in participants[c] THEN timer ELSE Timer(d, s)
    <2>1. ScheduleAll(c, timer)
      BY <1>1
    <2> QED BY <2>1, ScheduleAllEffect
  <1>6. cpc'[c] \notin {"prepare", "read"} /\ \A d \in Clients : (d # c => cpc'[d] = cpc[d]) /\ TxnId(d)' = TxnId(d)
    BY <1>1 DEF ProtoInv, TypeInv, ThreadTypes, TxnId
  <1>7. ThreadStep(c)
    BY <1>u, <1>3, <1>4, <1>5, <1>6 DEF ThreadStep
  <1>8. \A s \in Shards : Timer(c, s)' # "BATCH_GET"
    BY <1>5 DEF VoteInv, VotePair, NoReads, EndTimers
  <1>9. \A d \in Clients, s \in Shards : VotePair(d, s)'
    BY <1>4, <1>6, <1>7, <1>8, ThreadVote
  <1>10. ASSUME NEW s \in Shards PROVE Holds(s)'
    <2>1. Holds(s) /\ Prepared(s)' = Prepared(s) /\ Logged(s)' = Logged(s)
      BY <1>u, Unchanged DEF VoteInv
    <2>2. \A u : u \in DecidedAs("commit", s)' => u \in DecidedAs("commit", s) \/ u = t
      BY <1>3 DEF DecidedAs
    <2>3. t \in DecidedAs("commit", s)' => outcome = "commit" /\ s \in participants[c]
      BY <1>3 DEF DecidedAs
    <2>4. outcome = "commit" /\ s \in participants[c] => t \in Prepared(s)
      BY <1>1, <1>2, EveryVote
    <2> QED BY <2>1, <2>2, <2>3, <2>4 DEF Holds
  <1> QED BY <1>u, <1>4, <1>9, <1>10 DEF VoteInv

\* Commit returns.
LEMMA CommitReturnsVote ==
    ASSUME ProtoInv, VoteInv, NEW c \in Clients, CommitReturns(c)
    PROVE  VoteInv'
  <1>1. UNCHANGED <<ntxns, unread, outbox, promise, sent, pendingReqs, replies, store, clientTable, decided>>
    BY DEF CommitReturns, shardclient, network, servers, history
  <1>2. cpc'[c] = "idle" /\ \A d \in Clients : (d # c => cpc'[d] = cpc[d]) /\ TxnId(d)' = TxnId(d)
    BY <1>1 DEF CommitReturns, ProtoInv, TypeInv, ThreadTypes, TxnId
  <1>3. \A d \in Clients, s \in Shards : Timer(d, s)' = Timer(d, s) /\ Promise(d, s)' = Promise(d, s)
    BY <1>1 DEF Timer, Promise
  <1>4. ThreadStep(c)
    BY <1>1, <1>2, <1>3 DEF ThreadStep, VoteInv
  <1>5. \A s \in Shards : Timer(c, s)' # "BATCH_GET"
    BY <1>3 DEF VoteInv, VotePair, NoReads
  <1>6. \A d \in Clients, s \in Shards : VotePair(d, s)'
    BY <1>2, <1>3, <1>4, <1>5, ThreadVote
  <1>7. \A s \in Shards : Holds(s)'
    BY <1>1, Unchanged, HoldsFrame DEF VoteInv
  <1> QED BY <1>1, <1>6, <1>7 DEF VoteInv

\* Every step of the transaction thread.
LEMMA ClientVote ==
    ASSUME StoredProcedure, ProtoInv, VoteInv, NEW c \in Clients, ClientNext(c)
    PROVE  VoteInv'
  <1>1. ~\E s \in Shards : ClientBatchGet(c, s)
    BY DEF ClientBatchGet, VoteInv
  <1>2. ~ReadReturns(c)
    BY DEF ReadReturns, VoteInv, VotePair, NoReads
  <1>3. ~EndReads(c)
    BY DEF EndReads
  <1> QED BY <1>1, <1>2, <1>3, BeginVote, PrepareVote, DecideVote, CommitReturnsVote DEF ClientNext

-----------------------------------------------------------------------------
(* The transport thread *)

\* A client and a shard that a step does not concern.
LEMMA KeptVote ==
    ASSUME NEW d \in Clients, NEW z \in Shards, VotePair(d, z), Kept(d, z),
           LastReply(d, z)' = LastReply(d, z), Queue(d, z)' = Queue(d, z), Promise(d, z)' = Promise(d, z),
           VotedAt(z) \subseteq VotedAt(z)'
    PROVE  VotePair(d, z)'
  <1>1. TxnId(d)' = TxnId(d)
    BY Unchanged DEF Kept
  <1>2. VoteSame(d, z)
    BY <1>1 DEF VoteSame, Kept, Same
  <1>3. NoNewVote(d, z) /\ cpc'[d] # "read" /\ Timer(d, z)' # "BATCH_GET"
    BY DEF NoNewVote, Kept, VotePair, VoteOnTheWay, NoReads
  <1> QED BY <1>2, <1>3, VoteFrame

\* What shows in VotedAt, LastReply, Queue and Promise if nothing changes.
LEMMA VoteUnchanged ==
    /\ UNCHANGED <<store, decided>> => \A s \in Shards : VotedAt(s)' = VotedAt(s)
    /\ UNCHANGED clientTable => \A c, s : LastReply(c, s)' = LastReply(c, s)
    /\ \A c, s : replies'[c][s] = replies[c][s] =>
          /\ Queue(c, s)' = Queue(c, s)
          /\ \A i : ReplyId(c, s, i)' = ReplyId(c, s, i) /\ ReplyStatus(c, s, i)' = ReplyStatus(c, s, i)
    /\ \A c, s : promise'[c][s] = promise[c][s] => Promise(c, s)' = Promise(c, s)
  <1>1. UNCHANGED <<store, decided>> => \A s \in Shards : VotedAt(s)' = VotedAt(s)
    BY DEF VotedAt, Prepared
  <1>2. UNCHANGED clientTable => \A c, s : LastReply(c, s)' = LastReply(c, s)
    BY DEF LastReply
  <1>3. \A c, s : replies'[c][s] = replies[c][s] =>
          /\ Queue(c, s)' = Queue(c, s)
          /\ \A i : ReplyId(c, s, i)' = ReplyId(c, s, i) /\ ReplyStatus(c, s, i)' = ReplyStatus(c, s, i)
    BY DEF Queue, ReplyId, ReplyStatus
  <1>4. \A c, s : promise'[c][s] = promise[c][s] => Promise(c, s)' = Promise(c, s)
    BY DEF Promise
  <1> QED BY <1>1, <1>2, <1>3, <1>4

\* The reply to a request that is queued.
LEMMA QueuedIsAnswered ==
    ASSUME ProtoInv, NEW c \in Clients, NEW s \in Shards, NEW i \in DOMAIN Queue(c, s), NEW r, ReplyId(c, s, i) = r
    PROVE  r \in Answered(c, s) /\ r \in DOMAIN Sent(c, s)
  <1>1. r \in ReplyIds(c, s)
    BY DEF ReplyIds, Queue, ReplyId
  <1> QED BY <1>1, PairParts DEF NetworkInv, Answered

\* A request that is invoked has no reply yet.
LEMMA RunTimerVote ==
    ASSUME ProtoInv, VoteInv, NEW c \in Clients, NEW s \in Shards, RunTimer(c, s)
    PROVE  VoteInv'
  <1>1. PICK n \in Nat, op \in Ops : Invokes(c, s, n, op)
    BY RunTimerEffect
  <1>u. UNCHANGED <<unread, promise, replies, store, clientTable, decided>>
    BY DEF RunTimer, client, servers, history
  <1>2. \A d \in Clients, z \in Shards : (d # c \/ z # s) => VotePair(d, z)'
    BY <1>u, RunTimerEffect, VoteUnchanged, KeptVote DEF VoteInv
  <1>m. /\ DOMAIN Sent(c, s)' = DOMAIN Sent(c, s) \cup {n} /\ n \notin DOMAIN Sent(c, s)
        /\ \A i \in DOMAIN Sent(c, s) : Op(c, s, i)' = Op(c, s, i) /\ Id(c, s, i)' = Id(c, s, i)
        /\ Op(c, s, n)' = op /\ TxnId(c)' = TxnId(c) /\ cpc'[c] = cpc[c]
        /\ Timer(c, s)' = None /\ Pending(c, s)' = Pending(c, s) \cup {n} /\ Last(c, s)' = Last(c, s)
        /\ op = "BATCH_GET" => Timer(c, s) = op
    BY <1>1 DEF Invokes, Ending
  <1>q. /\ DOMAIN Queue(c, s)' = DOMAIN Queue(c, s) /\ VotedAt(s)' = VotedAt(s)
        /\ LastReply(c, s)' = LastReply(c, s) /\ Promise(c, s)' = Promise(c, s)
        /\ \A i : ReplyId(c, s, i)' = ReplyId(c, s, i) /\ ReplyStatus(c, s, i)' = ReplyStatus(c, s, i)
    BY <1>u, VoteUnchanged
  <1>3. NoReads(c, s) /\ ReplyOrder(c, s) /\ VoteOnTheWay(c, s)
    BY DEF VoteInv, VotePair
  <1>4. \A i \in DOMAIN Queue(c, s) : ReplyId(c, s, i) # n
    BY <1>m, QueuedIsAnswered
  <1>5. Last(c, s) # n
    <2>1. Last(c, s) <= Len(Sent(c, s)) /\ n = Len(Sent(c, s)) + 1
      BY <1>1, PairParts DEF ExecutedInv, Invokes
    <2>2. Last(c, s) \in Nat /\ Len(Sent(c, s)) \in Nat
      BY PairTypes
    <2> QED BY <2>1, <2>2, SMT
  <1>6. NoReads(c, s)'
    BY <1>m, <1>3 DEF NoReads, None
  <1>7. ReplyOrder(c, s)'
    <2>1. Pending(c, s) \subseteq DOMAIN Sent(c, s)
      BY PairParts DEF ExecutedInv
    <2>2. \A i, j \in DOMAIN Queue(c, s)' : i < j => ReplyId(c, s, i)' <= ReplyId(c, s, j)'
      BY <1>q, <1>3 DEF ReplyOrder
    <2>3. ASSUME NEW f \in DOMAIN Sent(c, s)', NEW i \in DOMAIN Queue(c, s)',
                 Op(c, s, f)' \in Ending, f \notin Pending(c, s)'
          PROVE  f <= ReplyId(c, s, i)'
      <3>1. f # n
        BY <1>m, <2>3
      <3>2. f \in DOMAIN Sent(c, s) /\ f \notin Pending(c, s) /\ Op(c, s, f)' = Op(c, s, f)
        BY <1>m, <2>3, <3>1
      <3>3. i \in DOMAIN Queue(c, s) /\ ReplyId(c, s, i)' = ReplyId(c, s, i)
        BY <1>q
      <3>4. f <= ReplyId(c, s, i)
        BY <1>3, <2>3, <3>2, <3>3 DEF ReplyOrder
      <3> QED BY <3>3, <3>4
    <2>4. ASSUME NEW i \in DOMAIN Queue(c, s)', NEW r \in Pending(c, s)', ReplyId(c, s, i)' = r
          PROVE  Id(c, s, r)' = TxnId(c)'
      <3>1. i \in DOMAIN Queue(c, s) /\ ReplyId(c, s, i) = r
        BY <1>q, <2>4
      <3>2. r \in Pending(c, s)
        BY <1>m, <1>4, <3>1
      <3>3. Id(c, s, r) = TxnId(c)
        BY <1>3, <3>1, <3>2 DEF ReplyOrder
      <3>4. Id(c, s, r)' = Id(c, s, r) /\ TxnId(c)' = TxnId(c)
        BY <1>m, <2>1, <3>2
      <3> QED BY <3>3, <3>4
    <2> QED BY <2>2, <2>3, <2>4 DEF ReplyOrder, Ending
  <1>8. VoteOnTheWay(c, s)'
    BY <1>m, <1>q, <1>3, <1>4, <1>5 DEF VoteOnTheWay
  <1>9. VotePair(c, s)'
    BY <1>6, <1>7, <1>8 DEF VotePair
  <1>10. \A z \in Shards : Holds(z)'
    BY <1>u, Unchanged, HoldsFrame DEF VoteInv
  <1> QED BY <1>u, <1>2, <1>9, <1>10 DEF VoteInv

\* A step after which no client has more replies, or another answer than TIMEOUT.
LEMMA TravelVote ==
    ASSUME VoteInv, UNCHANGED <<cpc, ntxns, unread, outbox, sent, pendingReqs, store, clientTable, decided>>,
           Grid(promise'),
           \A c \in Clients, s \in Shards :
              /\ Queue(c, s)' = Queue(c, s) \/ Queue(c, s)' = <<>>
              /\ Promise(c, s)' = Promise(c, s) \/ Promise(c, s)' = REPLY_TIMEOUT
    PROVE  VoteInv'
  <1>1. ASSUME NEW c \in Clients, NEW s \in Shards PROVE VotePair(c, s)'
    <2>1. VoteSame(c, s)
      BY SameServers, Unchanged, VoteUnchanged DEF VoteSame, Same
    <2>2. VotePair(c, s)
      BY DEF VoteInv
    <2>3. NoNewVote(c, s)
      BY <2>2 DEF NoNewVote, VotePair, VoteOnTheWay, Statuses, REPLY_OK, REPLY_TIMEOUT
    <2>4. cpc'[c] # "read" /\ Timer(c, s)' # "BATCH_GET"
      BY <2>2 DEF VotePair, NoReads, Timer
    <2> QED BY <2>1, <2>2, <2>3, <2>4, VoteFrame
  <1>2. \A s \in Shards : Holds(s)'
    BY Unchanged, HoldsFrame DEF VoteInv
  <1> QED BY <1>1, <1>2 DEF VoteInv

\* What Answer does to the promises.
LEMMA AnswerEffect ==
    ASSUME NEW c \in Clients, NEW s \in Shards, NEW status, Grid(promise), Answer(c, s, status)
    PROVE  /\ Grid(promise')
           /\ Promise(c, s)' = status \/ Promise(c, s)' = Promise(c, s)
           /\ \A d \in Clients, z \in Shards : (d # c \/ z # s) => Promise(d, z)' = Promise(d, z)
  <1>1. PICK v : /\ promise' = [promise EXCEPT ![c][s] = v]
                 /\ v = status \/ v = promise[c][s]
    BY DEF Answer
  <1>2. Updated(promise, promise', c, s, v)
    BY <1>1, GridUpdate
  <1> QED BY <1>1, <1>2 DEF Updated, Promise

\* Requests are resent, connections break and timers expire.
LEMMA FaultVote ==
    ASSUME ProtoInv, VoteInv, NEW c \in Clients, NEW s \in Shards,
           \/ GetTimeout(c, s)
           \/ \E r \in pendingReqs[c][s] : ResendRequest(c, s, r) \/ ReadTimeout(c, s, r)
           \/ \E n \in 0 .. Len(requests[c][s]) : Break(c, s, n)
    PROVE  VoteInv'
  <1>1. CASE GetTimeout(c, s)
    <2>1. UNCHANGED <<cpc, ntxns, unread, outbox, sent, pendingReqs, store, clientTable, decided, replies>>
      BY <1>1 DEF GetTimeout, client, servers, history
    <2>2. Answer(c, s, REPLY_TIMEOUT) /\ Grid(promise)
      BY <1>1 DEF GetTimeout, VoteInv
    <2>3. /\ Grid(promise')
          /\ \A d \in Clients, z \in Shards : Promise(d, z)' = Promise(d, z) \/ Promise(d, z)' = REPLY_TIMEOUT
      BY <2>2, AnswerEffect
    <2> QED BY <2>1, <2>3, VoteUnchanged, TravelVote
  <1>2. ASSUME NEW r \in pendingReqs[c][s], ResendRequest(c, s, r) PROVE VoteInv'
    <2>1. UNCHANGED <<cpc, ntxns, unread, outbox, promise, sent, pendingReqs, store, clientTable, decided, replies>>
      BY <1>2 DEF ResendRequest, client, shardclient, servers, history
    <2> QED BY <2>1, VoteUnchanged, TravelVote DEF VoteInv
  <1>3. ASSUME NEW r \in pendingReqs[c][s], ReadTimeout(c, s, r) PROVE FALSE
    <2>1. r \in Pending(c, s) /\ Op(c, s, r) = "BATCH_GET"
      BY <1>3 DEF ReadTimeout, Pending, Op
    <2>2. r \in DOMAIN Sent(c, s)
      BY <2>1, PairParts DEF ExecutedInv
    <2> QED BY <2>1, <2>2 DEF VoteInv, VotePair, NoReads
  <1>4. ASSUME NEW n \in 0 .. Len(requests[c][s]), Break(c, s, n) PROVE VoteInv'
    <2>1. /\ UNCHANGED <<cpc, ntxns, unread, outbox, promise, sent, pendingReqs, store, clientTable, decided>>
          /\ replies' = [replies EXCEPT ![c][s] = <<>>]
      BY <1>4 DEF Break, client, shardclient, servers, history
    <2>2. Grid(replies)
      BY DEF ProtoInv, TypeInv, NetworkTypes
    <2>3. Updated(replies, replies', c, s, <<>>)
      BY <2>1, <2>2, GridUpdate
    <2>4. \A d \in Clients, z \in Shards : Queue(d, z)' = Queue(d, z) \/ Queue(d, z)' = <<>>
      BY <2>3 DEF Updated, Queue
    <2> QED BY <2>1, <2>4, VoteUnchanged, TravelVote DEF VoteInv
  <1> QED BY <1>1, <1>2, <1>3, <1>4

\* What the first reply does to the replies queued and the promise.
LEMMA HandleReplyQueue ==
    ASSUME ProtoInv, VoteInv, NEW c \in Clients, NEW s \in Shards, HandleReply(c, s)
    PROVE  /\ Queue(c, s) # <<>> /\ Queue(c, s)' = Tail(Queue(c, s))
           /\ Pending(c, s)' = Pending(c, s) \ {ReplyId(c, s, 1)}
           /\ \/ Promise(c, s)' = Promise(c, s)
              \/ ReplyId(c, s, 1) \in Pending(c, s) /\ Promise(c, s)' = ReplyStatus(c, s, 1)
           /\ Grid(promise') /\ unread' = unread
           /\ \A d \in Clients, z \in Shards : (d # c \/ z # s) =>
                 Promise(d, z)' = Promise(d, z) /\ Queue(d, z)' = Queue(d, z)
  <1> DEFINE a == replies[c][s]
  <1>1. PICK r : r = ReplyId(c, s, 1)
    OBVIOUS
  <1>2. Grid(replies) /\ Grid(promise) /\ Grid(pendingReqs) /\ IsSeq(a)
    BY GridTypes DEF VoteInv, ProtoInv, TypeInv, NetworkTypes, RequestTypes
  <1>3. a # <<>> /\ Head(a) = a[1]
    <2>1. a # <<>>
      BY DEF HandleReply
    <2> QED BY <1>2, <2>1, SMT DEF IsSeq
  <1>4. Head(a).reqId = r /\ Head(a).status = ReplyStatus(c, s, 1)
    BY <1>1, <1>3 DEF ReplyId, ReplyStatus
  <1>5. replies' = [replies EXCEPT ![c][s] = Tail(a)] /\ unread' = unread
    BY DEF HandleReply
  <1>6. Updated(replies, replies', c, s, Tail(a))
    BY <1>2, <1>5, GridUpdate
  <1>7. /\ Queue(c, s) # <<>> /\ Queue(c, s)' = Tail(Queue(c, s))
        /\ \A d \in Clients, z \in Shards : (d # c \/ z # s) => Queue(d, z)' = Queue(d, z)
    BY <1>3, <1>6 DEF Updated, Queue
  <1>8. CASE r \notin Pending(c, s)
    <2>1. UNCHANGED <<pendingReqs, promise>>
      BY <1>4, <1>8 DEF HandleReply, Pending
    <2>2. Pending(c, s)' = Pending(c, s)
      BY <2>1 DEF Pending
    <2> QED BY <1>1, <1>2, <1>5, <1>7, <1>8, <2>1, <2>2, VoteUnchanged
  <1>9. CASE r \in Pending(c, s)
    <2>1. /\ pendingReqs' = [pendingReqs EXCEPT ![c][s] = pendingReqs[c][s] \ {r}]
          /\ \/ Answer(c, s, ReplyStatus(c, s, 1))
             \/ sent[c][s][r].op = "BATCH_GET"
      BY <1>4, <1>9 DEF HandleReply, Pending, PrepareCallback, CommitCallback, AbortCallback
    <2>2. sent[c][s][r].op # "BATCH_GET"
      <3>1. r \in DOMAIN Sent(c, s)
        BY <1>9, PairParts DEF ExecutedInv
      <3> QED BY <3>1 DEF VoteInv, VotePair, NoReads, Op
    <2>3. Pending(c, s)' = Pending(c, s) \ {r}
      <3>1. Updated(pendingReqs, pendingReqs', c, s, pendingReqs[c][s] \ {r})
        BY <1>2, <2>1, GridUpdate
      <3> QED BY <3>1 DEF Updated, Pending
    <2>4. Answer(c, s, ReplyStatus(c, s, 1))
      BY <2>1, <2>2
    <2>5. PICK status : status = ReplyStatus(c, s, 1)
      OBVIOUS
    <2>6. /\ Grid(promise')
          /\ Promise(c, s)' = status \/ Promise(c, s)' = Promise(c, s)
          /\ \A d \in Clients, z \in Shards : (d # c \/ z # s) => Promise(d, z)' = Promise(d, z)
      BY <1>2, <2>4, <2>5, AnswerEffect
    <2> QED BY <1>1, <1>5, <1>7, <1>9, <2>3, <2>5, <2>6
  <1> QED BY <1>8, <1>9

\* A reply to a PREPARE that the thread waits for is a vote.
LEMMA HandleReplyVote ==
    ASSUME ProtoInv, VoteInv, NEW c \in Clients, NEW s \in Shards, HandleReply(c, s)
    PROVE  VoteInv'
  <1>u. UNCHANGED <<cpc, ntxns, participants, outbox, sent, store, clientTable, decided>>
    BY HandleReplyEffect
  <1>1. PICK r : r = ReplyId(c, s, 1)
    OBVIOUS
  <1>2. /\ Queue(c, s) # <<>> /\ Queue(c, s)' = Tail(Queue(c, s)) /\ Pending(c, s)' = Pending(c, s) \ {r}
        /\ \/ Promise(c, s)' = Promise(c, s)
           \/ r \in Pending(c, s) /\ Promise(c, s)' = ReplyStatus(c, s, 1)
        /\ Grid(promise') /\ unread' = unread
        /\ \A d \in Clients, z \in Shards : (d # c \/ z # s) =>
              Promise(d, z)' = Promise(d, z) /\ Queue(d, z)' = Queue(d, z)
    BY <1>1, HandleReplyQueue
  <1>3. \A d \in Clients, z \in Shards : (d # c \/ z # s) => VotePair(d, z)'
    <2> SUFFICES ASSUME NEW d \in Clients, NEW z \in Shards, d # c \/ z # s PROVE VotePair(d, z)'
      OBVIOUS
    <2>1. Kept(d, z) /\ VotePair(d, z)
      BY HandleReplyEffect DEF VoteInv
    <2>2. LastReply(d, z)' = LastReply(d, z) /\ VotedAt(z)' = VotedAt(z)
      BY <1>u, VoteUnchanged
    <2> QED BY <1>2, <2>1, <2>2, KeptVote
  <1>4. NoReads(c, s) /\ ReplyOrder(c, s) /\ VoteOnTheWay(c, s)
    BY DEF VoteInv, VotePair
  <1>m. /\ Sent(c, s)' = Sent(c, s) /\ Last(c, s)' = Last(c, s) /\ TxnId(c)' = TxnId(c) /\ cpc'[c] = cpc[c]
        /\ \A i : Op(c, s, i)' = Op(c, s, i) /\ Id(c, s, i)' = Id(c, s, i)
        /\ VotedAt(s)' = VotedAt(s) /\ LastReply(c, s)' = LastReply(c, s) /\ Timer(c, s)' = Timer(c, s)
    BY <1>u, SameServers, Unchanged, VoteUnchanged DEF Same
  <1>q. /\ 1 \in DOMAIN Queue(c, s)
        /\ \A i \in DOMAIN Queue(c, s)' :
              \E j \in DOMAIN Queue(c, s) :
                 /\ j = i + 1 /\ 1 < j
                 /\ ReplyId(c, s, i)' = ReplyId(c, s, j) /\ ReplyStatus(c, s, i)' = ReplyStatus(c, s, j)
    <2>1. IsSeq(replies[c][s]) /\ replies[c][s] # <<>> /\ replies'[c][s] = Tail(replies[c][s])
      BY <1>2 DEF ProtoInv, TypeInv, NetworkTypes, Queue
    <2>2. /\ 1 \in DOMAIN replies[c][s]
          /\ \A i \in DOMAIN replies'[c][s] :
                i + 1 \in DOMAIN replies[c][s] /\ 1 < i + 1 /\ replies'[c][s][i] = replies[c][s][i + 1]
      BY <2>1, SMT DEF IsSeq
    <2>3. ASSUME NEW i \in DOMAIN Queue(c, s)'
          PROVE  \E j \in DOMAIN Queue(c, s) :
                    /\ j = i + 1 /\ 1 < j
                    /\ ReplyId(c, s, i)' = ReplyId(c, s, j) /\ ReplyStatus(c, s, i)' = ReplyStatus(c, s, j)
      <3>1. PICK j \in DOMAIN replies[c][s] : j = i + 1 /\ 1 < j /\ replies'[c][s][i] = replies[c][s][j]
        BY <2>2 DEF Queue
      <3> QED BY <3>1 DEF Queue, ReplyId, ReplyStatus
    <2> QED BY <2>2, <2>3 DEF Queue
  <1>5. NoReads(c, s)'
    BY <1>m, <1>4 DEF NoReads
  <1>6. ReplyOrder(c, s)'
    <2>1. \A i, j \in DOMAIN Queue(c, s)' : i < j => ReplyId(c, s, i)' <= ReplyId(c, s, j)'
      <3> SUFFICES ASSUME NEW i \in DOMAIN Queue(c, s)', NEW j \in DOMAIN Queue(c, s)', i < j
                   PROVE  ReplyId(c, s, i)' <= ReplyId(c, s, j)'
        OBVIOUS
      <3>1. PICK k \in DOMAIN Queue(c, s) : k = i + 1 /\ ReplyId(c, s, i)' = ReplyId(c, s, k)
        BY <1>q
      <3>2. PICK l \in DOMAIN Queue(c, s) : l = j + 1 /\ ReplyId(c, s, j)' = ReplyId(c, s, l)
        BY <1>q
      <3>3. k < l
        <4>1. IsSeq(Queue(c, s))'
          BY HandleReplyEffect DEF TypeInv, NetworkTypes, Queue
        <4>2. i \in Nat /\ j \in Nat
          BY <4>1, SMT DEF IsSeq
        <4> QED BY <3>1, <3>2, <4>2, SMT
      <3> QED BY <1>4, <3>1, <3>2, <3>3 DEF ReplyOrder
    <2>2. \A f \in DOMAIN Sent(c, s)', i \in DOMAIN Queue(c, s)' :
            Op(c, s, f)' \in Ending /\ f \notin Pending(c, s)' => f <= ReplyId(c, s, i)'
      <3> SUFFICES ASSUME NEW f \in DOMAIN Sent(c, s), NEW i \in DOMAIN Queue(c, s)',
                          Op(c, s, f) \in Ending, f \notin Pending(c, s)'
                   PROVE  f <= ReplyId(c, s, i)'
        BY <1>m
      <3>1. PICK j \in DOMAIN Queue(c, s) : 1 < j /\ ReplyId(c, s, i)' = ReplyId(c, s, j)
        BY <1>q
      <3>2. CASE f \notin Pending(c, s)
        BY <1>4, <3>1, <3>2 DEF ReplyOrder
      <3>3. CASE f = r
        BY <1>1, <1>4, <1>q, <3>1, <3>3 DEF ReplyOrder
      <3> QED BY <1>2, <3>2, <3>3
    <2>3. \A i \in DOMAIN Queue(c, s)', x \in Pending(c, s)' : ReplyId(c, s, i)' = x => Id(c, s, x)' = TxnId(c)'
      BY <1>m, <1>q, <1>2, <1>4 DEF ReplyOrder
    <2> QED BY <2>1, <2>2, <2>3 DEF ReplyOrder, Ending
  <1>7. cpc[c] = "prepare" /\ Promise(c, s)' = REPLY_OK => TxnId(c) \in VotedAt(s)
    <2>1. CASE Promise(c, s)' = Promise(c, s)
      BY <1>4, <2>1 DEF VoteOnTheWay
    <2>2. ASSUME r \in Pending(c, s), ReplyStatus(c, s, 1) = REPLY_OK PROVE TxnId(c) \in VotedAt(s)
      <3>1. r \in DOMAIN Sent(c, s) /\ Id(c, s, r) = TxnId(c)
        <4>1. r \in DOMAIN Sent(c, s)
          BY <2>2, PairParts DEF ExecutedInv
        <4> QED BY <1>1, <1>4, <1>q, <2>2, <4>1 DEF ReplyOrder
      <3>2. CASE Op(c, s, r) = "PREPARE"
        BY <1>1, <1>4, <1>q, <2>2, <3>1, <3>2 DEF VoteOnTheWay
      <3>3. CASE Op(c, s, r) \in Ending
        <4>1. Id(c, s, r) \in DOMAIN decided
          BY <3>1, <3>3, PairParts DEF DecisionInv, DecidedAs
        <4> QED BY <3>1, <4>1 DEF VotedAt
      <3>4. Op(c, s, r) \in Ops /\ Op(c, s, r) # "BATCH_GET"
        BY <1>4, <3>1, PairParts DEF NoReads, SentInv
      <3> QED BY <3>2, <3>3, <3>4 DEF Ops, Ending
    <2> QED BY <1>2, <2>1, <2>2
  <1>8. VoteOnTheWay(c, s)'
    <2>1. Promise(c, s)' \in Statuses
      BY <1>2, <1>4, <1>q DEF VoteOnTheWay
    <2>2. \A i \in DOMAIN Queue(c, s)' : ReplyStatus(c, s, i)' \in Statuses
      BY <1>4, <1>q DEF VoteOnTheWay
    <2>3. \A i \in DOMAIN Queue(c, s)', x \in DOMAIN Sent(c, s) :
            ReplyId(c, s, i)' = x /\ Op(c, s, x) = "PREPARE" /\ ReplyStatus(c, s, i)' = REPLY_OK =>
                Id(c, s, x) \in VotedAt(s)
      BY <1>4, <1>q DEF VoteOnTheWay
    <2> QED BY <1>m, <1>4, <1>7, <2>1, <2>2, <2>3 DEF VoteOnTheWay, Statuses
  <1>9. VotePair(c, s)'
    BY <1>5, <1>6, <1>8 DEF VotePair
  <1>10. \A z \in Shards : Holds(z)'
    BY <1>u, Unchanged, HoldsFrame DEF VoteInv
  <1> QED BY <1>2, <1>3, <1>9, <1>10 DEF VoteInv

-----------------------------------------------------------------------------
(* The servers *)

\* Serving a request forgets no vote of an undecided transaction: what lets go of
\* a prepared transaction is its commit or abort.
LEMMA ServesVoted ==
    ASSUME ProtoInv, NEW c \in Clients, NEW s \in Shards, NEW r \in DOMAIN Sent(c, s), Serves(c, s, r),
           UNCHANGED decided, NEW z \in Shards
    PROVE  VotedAt(z) \subseteq VotedAt(z)'
  <1>1. CASE UNCHANGED <<store, clientTable>>
    BY <1>1, VoteUnchanged
  <1>2. CASE z # s
    <2>1. Prepared(z)' = Prepared(z)
      BY <1>2 DEF Serves
    <2> QED BY <2>1 DEF VotedAt
  <1>3. CASE z = s /\ Executes(c, s, r)
    <2>1. PICK t : t = TxnId(c)
      OBVIOUS
    <2>2. /\ Op(c, s, r) \in Ops /\ Op(c, s, r) # "BATCH_GET" /\ Id(c, s, r) = t
          /\ Op(c, s, r) = "PREPARE" => Prepared(s) \subseteq Prepared(s)'
          /\ \A u : u # t => (u \in Prepared(s)' <=> u \in Prepared(s))
      BY <1>3, <2>1, PairParts DEF Executes, SentInv
    <2>3. Op(c, s, r) \in Ending => t \in DOMAIN decided
      BY <2>2, PairParts DEF DecisionInv, DecidedAs
    <2>4. Op(c, s, r) = "PREPARE" \/ Op(c, s, r) \in Ending
      BY <2>2 DEF Ops, Ending
    <2> QED BY <1>3, <2>2, <2>3, <2>4 DEF VotedAt
  <1> QED BY <1>1, <1>2, <1>3 DEF Serves

\* What a client decided to commit stays prepared until the commit puts it.
LEMMA ServesHolds ==
    ASSUME ProtoInv, NEW c \in Clients, NEW s \in Shards, NEW r \in DOMAIN Sent(c, s), Serves(c, s, r),
           UNCHANGED decided, NEW z \in Shards, Holds(z)
    PROVE  Holds(z)'
  <1>d. \A outcome : DecidedAs(outcome, z)' = DecidedAs(outcome, z)
    BY Unchanged
  <1>1. CASE UNCHANGED <<store, clientTable>>
    BY <1>1, Unchanged, HoldsFrame
  <1>2. CASE z # s
    <2>1. Prepared(z)' = Prepared(z) /\ Logged(z)' = Logged(z)
      BY <1>2 DEF Serves
    <2> QED BY <1>d, <2>1 DEF Holds
  <1>3. CASE z = s /\ Executes(c, s, r)
    <2>1. PICK t : t = TxnId(c)
      OBVIOUS
    <2>2. /\ Op(c, s, r) \in Ops /\ Op(c, s, r) # "BATCH_GET" /\ Id(c, s, r) = t
          /\ Op(c, s, r) = "PREPARE" => Prepared(s) \subseteq Prepared(s)'
          /\ \A u : u # t => (u \in Prepared(s)' <=> u \in Prepared(s))
          /\ Logged(s) \subseteq Logged(s)'
          /\ Op(c, s, r) = "COMMIT" /\ t \in Prepared(s) => t \in Logged(s)'
      BY <1>3, <2>1, PairParts DEF Executes, SentInv
    <2>3. Op(c, s, r) = "ABORT" => t \notin DecidedAs("commit", s)
      <3>1. Op(c, s, r) = "ABORT" => t \in DecidedAs("abort", s)
        BY <2>2, PairParts DEF DecisionInv, Outcome, Ending
      <3> QED BY <3>1 DEF DecidedAs
    <2>4. Op(c, s, r) \in {"PREPARE", "COMMIT", "ABORT"}
      BY <2>2 DEF Ops
    <2> QED BY <1>3, <1>d, <2>2, <2>3, <2>4 DEF Holds
  <1> QED BY <1>1, <1>2, <1>3 DEF Serves

\* What the client table of the server says after it served a request.
LEMMA ServesLast ==
    ASSUME ProtoInv, NEW c \in Clients, NEW s \in Shards, NEW r \in DOMAIN Sent(c, s), Serves(c, s, r),
           UNCHANGED <<sent, decided>>, VoteOnTheWay(c, s)
    PROVE  /\ Last(c, s) \in Nat /\ Last(c, s)' \in Nat /\ Last(c, s) <= Last(c, s)'
           /\ LastReply(c, s)' \in Statuses
           /\ \A i \in DOMAIN Sent(c, s) :
                 i = Last(c, s)' /\ Op(c, s, i) = "PREPARE" /\ LastReply(c, s)' = REPLY_OK =>
                     Id(c, s, i) \in VotedAt(s)'
  <1>1. LastReply(c, s)' \in Statuses
    <2>1. clientTable'[s][c] \in [lastReqId : Nat, reply : {None, REPLY_OK, REPLY_FAIL}]
      BY DEF Serves
    <2>2. clientTable'[s][c].reply \in {None, REPLY_OK, REPLY_FAIL}
      BY <2>1, SMT
    <2> QED BY <2>2 DEF LastReply, Statuses
  <1>2. Last(c, s) \in Nat /\ r \in Nat
    BY PairTypes
  <1>3. CASE UNCHANGED <<store, clientTable>>
    <2>1. Last(c, s)' = Last(c, s) /\ LastReply(c, s)' = LastReply(c, s) /\ VotedAt(s)' = VotedAt(s)
      BY <1>3, VoteUnchanged DEF Last
    <2>2. Last(c, s) <= Last(c, s)
      BY <1>2, SMT
    <2> QED BY <1>1, <1>2, <2>1, <2>2 DEF VoteOnTheWay
  <1>4. CASE Executes(c, s, r)
    <2>1. PICK t : t = TxnId(c)
      OBVIOUS
    <2>2. /\ r > Last(c, s) /\ Last(c, s)' = r /\ Id(c, s, r) = t
          /\ Op(c, s, r) = "PREPARE" /\ LastReply(c, s)' = REPLY_OK => t \in Prepared(s)'
      BY <1>4, <2>1, PairTypes DEF Executes
    <2>3. Last(c, s) <= r
      BY <1>2, <2>2, SMT
    <2> QED BY <1>1, <1>2, <2>2, <2>3 DEF VotedAt
  <1> QED BY <1>3, <1>4 DEF Serves

\* A server answers only about the client's current transaction, unless the
\* request is answered already.
LEMMA ServesCurrent ==
    ASSUME ProtoInv, NEW c \in Clients, NEW s \in Shards, NoReads(c, s), NEW r \in Pending(c, s), Serves(c, s, r),
           Last(c, s)' = r
    PROVE  Id(c, s, r) = TxnId(c)
  <1>1. CASE UNCHANGED <<store, clientTable>>
    <2>1. Last(c, s) = r
      BY <1>1 DEF Last
    <2>2. ExecutedInv(c, s) /\ SentInv(c, s)
      BY PairParts
    <2>3. r \in DOMAIN Sent(c, s) /\ Op(c, s, r) \in Ops /\ Op(c, s, r) # "BATCH_GET"
      BY <2>2 DEF ExecutedInv, SentInv, NoReads
    <2>4. CASE Op(c, s, r) = "PREPARE"
      <3>1. ~(r < r)
        BY <2>3, PairTypes, SMT
      <3> QED BY <2>1, <2>2, <2>3, <2>4, <3>1 DEF ExecutedInv
    <2>5. CASE Op(c, s, r) \in Ending
      BY <2>2, <2>5 DEF ExecutedInv
    <2> QED BY <2>3, <2>4, <2>5 DEF Ops, Ending
  <1>2. CASE Executes(c, s, r)
    BY <1>2 DEF Executes
  <1> QED BY <1>1, <1>2 DEF Serves

\* The queue of replies after a request was served.
LEMMA ServesQueue ==
    ASSUME ProtoInv, VoteInv, NEW c \in Clients, NEW s \in Shards, NEW r \in DOMAIN Sent(c, s), Serves(c, s, r),
           UNCHANGED <<sent, decided>>,
           \/ replies'[c][s] = replies[c][s]
           \/ \E e : replies'[c][s] = Append(replies[c][s], e) /\ Replies(c, s, r, e)
    PROVE  \A i \in DOMAIN Queue(c, s)' :
              \/ /\ i \in DOMAIN Queue(c, s)
                 /\ ReplyId(c, s, i)' = ReplyId(c, s, i) /\ ReplyStatus(c, s, i)' = ReplyStatus(c, s, i)
              \/ /\ \A j \in DOMAIN Queue(c, s)' : j <= i
                 /\ ReplyId(c, s, i)' = r /\ ReplyStatus(c, s, i)' = LastReply(c, s)' /\ Last(c, s)' = r
  <1>1. CASE replies'[c][s] = replies[c][s]
    <2>1. Queue(c, s)' = Queue(c, s)
      BY <1>1 DEF Queue
    <2> QED BY <1>1, <2>1, VoteUnchanged
  <1>2. ASSUME NEW e, replies'[c][s] = Append(replies[c][s], e), Replies(c, s, r, e),
               NEW i \in DOMAIN Queue(c, s)'
        PROVE  \/ /\ i \in DOMAIN Queue(c, s)
                  /\ ReplyId(c, s, i)' = ReplyId(c, s, i) /\ ReplyStatus(c, s, i)' = ReplyStatus(c, s, i)
               \/ /\ \A j \in DOMAIN Queue(c, s)' : j <= i
                  /\ ReplyId(c, s, i)' = r /\ ReplyStatus(c, s, i)' = LastReply(c, s)' /\ Last(c, s)' = r
    <2> DEFINE a == replies[c][s]
    <2>1. IsSeq(a)
      BY DEF ProtoInv, TypeInv, NetworkTypes
    <2>2. Last(c, s)' = r /\ e.reqId = r /\ e.status = LastReply(c, s)'
      BY <1>2 DEF Replies, VoteInv, VotePair, NoReads
    <2>3. i \in DOMAIN Append(a, e)
      BY <1>2 DEF Queue
    <2> HIDE DEF a
    <2>4. \/ i \in DOMAIN a /\ Append(a, e)[i] = a[i]
          \/ Append(a, e)[i] = e /\ \A j \in DOMAIN Append(a, e) : j <= i
      BY <2>1, <2>3, SMT DEF IsSeq
    <2>5. CASE i \in DOMAIN a /\ Append(a, e)[i] = a[i]
      BY <1>2, <2>5 DEF a, Queue, ReplyId, ReplyStatus
    <2>6. CASE Append(a, e)[i] = e /\ \A j \in DOMAIN Append(a, e) : j <= i
      <3>1. replies'[c][s][i] = e /\ \A j \in DOMAIN replies'[c][s] : j <= i
        BY <1>2, <2>6 DEF a
      <3>2. ReplyId(c, s, i)' = r /\ ReplyStatus(c, s, i)' = LastReply(c, s)'
        BY <2>2, <3>1 DEF ReplyId, ReplyStatus
      <3>3. \A j \in DOMAIN Queue(c, s)' : j <= i
        BY <3>1 DEF Queue
      <3> QED BY <2>2, <3>2, <3>3
    <2> QED BY <2>4, <2>5, <2>6
  <1> QED BY <1>1, <1>2

\* A vote is in the client table, then in a reply: the newest of its connection.
LEMMA ServeVote ==
    ASSUME ProtoInv, VoteInv, NEW c \in Clients, NEW s \in Shards, NEW r \in DOMAIN Sent(c, s), Serves(c, s, r),
           UNCHANGED <<cpc, ntxns, unread, promise, outbox, sent, pendingReqs, decided>>,
           \A d \in Clients, z \in Shards : (d # c \/ z # s) => replies'[d][z] = replies[d][z],
           \/ replies'[c][s] = replies[c][s]
           \/ \E e : replies'[c][s] = Append(replies[c][s], e) /\ Replies(c, s, r, e)
    PROVE  VoteInv'
  <1>v. \A z \in Shards : VotedAt(z) \subseteq VotedAt(z)'
    BY ServesVoted
  <1>m. \A d \in Clients, z \in Shards :
          /\ Sent(d, z)' = Sent(d, z) /\ Pending(d, z)' = Pending(d, z) /\ TxnId(d)' = TxnId(d)
          /\ Timer(d, z)' = Timer(d, z) /\ cpc'[d] = cpc[d] /\ Promise(d, z)' = Promise(d, z)
          /\ \A i : Op(d, z, i)' = Op(d, z, i) /\ Id(d, z, i)' = Id(d, z, i)
    BY Unchanged, VoteUnchanged DEF Sent, Op, Id
  <1>1. ASSUME NEW d \in Clients, NEW z \in Shards, d # c \/ z # s PROVE VotePair(d, z)'
    <2>1. clientTable'[z][d] = clientTable[z][d]
      BY <1>1 DEF Serves
    <2>2. Last(d, z)' = Last(d, z) /\ LastReply(d, z)' = LastReply(d, z)
      BY <2>1 DEF Last, LastReply
    <2>3. Queue(d, z)' = Queue(d, z)
      BY <1>1, VoteUnchanged
    <2>4. VotePair(d, z)
      BY DEF VoteInv
    <2>5. VoteSame(d, z)
      BY <1>m, <1>v, <2>2 DEF VoteSame
    <2>6. NoNewVote(d, z) /\ cpc'[d] # "read" /\ Timer(d, z)' # "BATCH_GET"
      BY <1>m, <2>3, <2>4 DEF NoNewVote, VotePair, NoReads, VoteOnTheWay
    <2> QED BY <2>3, <2>4, <2>5, <2>6, VoteFrame
  <1>2. NoReads(c, s) /\ ReplyOrder(c, s) /\ VoteOnTheWay(c, s)
    BY DEF VoteInv, VotePair
  <1>n. /\ Sent(c, s)' = Sent(c, s) /\ Pending(c, s)' = Pending(c, s) /\ TxnId(c)' = TxnId(c)
        /\ cpc'[c] = cpc[c] /\ Promise(c, s)' = Promise(c, s)
        /\ \A i : Op(c, s, i)' = Op(c, s, i) /\ Id(c, s, i)' = Id(c, s, i)
    BY <1>m
  <1>3. NoReads(c, s)'
    BY <1>m, <1>2 DEF NoReads
  <1>l. /\ Last(c, s) \in Nat /\ Last(c, s)' \in Nat /\ Last(c, s) <= Last(c, s)'
        /\ LastReply(c, s)' \in Statuses
        /\ \A i \in DOMAIN Sent(c, s) :
              i = Last(c, s)' /\ Op(c, s, i) = "PREPARE" /\ LastReply(c, s)' = REPLY_OK =>
                  Id(c, s, i) \in VotedAt(s)'
    BY <1>2, ServesLast
  <1>q. \A i \in DOMAIN Queue(c, s)' :
          \/ /\ i \in DOMAIN Queue(c, s)
             /\ ReplyId(c, s, i)' = ReplyId(c, s, i) /\ ReplyStatus(c, s, i)' = ReplyStatus(c, s, i)
          \/ /\ \A j \in DOMAIN Queue(c, s)' : j <= i
             /\ ReplyId(c, s, i)' = r /\ ReplyStatus(c, s, i)' = LastReply(c, s)' /\ Last(c, s)' = r
    BY ServesQueue
  <1>4. \A k \in DOMAIN Sent(c, s) : ~Unexecuted(c, s, k) /\ Last(c, s)' = r => k <= r
    <2>1. \A k \in DOMAIN Sent(c, s) : k \in Nat /\ (~Unexecuted(c, s, k) => ~(k > Last(c, s)))
      BY PairTypes
    <2>2. \A k \in Nat : ~(k > Last(c, s)) => k <= Last(c, s)'
      BY <1>l, SMT
    <2> QED BY <2>1, <2>2
  <1>5. ReplyOrder(c, s)'
    <2>1. ASSUME NEW i \in DOMAIN Queue(c, s)', NEW j \in DOMAIN Queue(c, s)', i < j
          PROVE  ReplyId(c, s, i)' <= ReplyId(c, s, j)'
      <3>1. i \in DOMAIN Queue(c, s) /\ ReplyId(c, s, i)' = ReplyId(c, s, i)
        <4>1. ~(j <= i)
          <5>1. IsSeq(replies'[c][s])
            <6>1. IsSeq(replies[c][s])
              BY DEF ProtoInv, TypeInv, NetworkTypes
            <6>2. \A e : IsSeq(Append(replies[c][s], e))
              BY <6>1, AppendSeq
            <6>3. replies'[c][s] = replies[c][s] \/ \E e : replies'[c][s] = Append(replies[c][s], e)
              OBVIOUS
            <6> QED BY <6>1, <6>2, <6>3
          <5>2. DOMAIN Queue(c, s)' \subseteq Nat
            BY <5>1, SMT DEF IsSeq, Queue
          <5>3. i \in Nat /\ j \in Nat
            BY <5>2
          <5> QED BY <2>1, <5>3, SMT
        <4> QED BY <1>q, <4>1
      <3>2. CASE j \in DOMAIN Queue(c, s) /\ ReplyId(c, s, j)' = ReplyId(c, s, j)
        BY <1>2, <2>1, <3>1, <3>2 DEF ReplyOrder
      <3>3. CASE ReplyId(c, s, j)' = r /\ Last(c, s)' = r
        <4>1. PICK k : k = ReplyId(c, s, i)
          OBVIOUS
        <4>2. k \in Answered(c, s) /\ k \in DOMAIN Sent(c, s)
          BY <3>1, <4>1, QueuedIsAnswered
        <4>3. ~Unexecuted(c, s, k)
          BY <1>2, <4>2 DEF Answered, NoReads
        <4> QED BY <1>4, <3>1, <3>3, <4>1, <4>2, <4>3
      <3> QED BY <1>q, <3>2, <3>3
    <2>2. ASSUME NEW f \in DOMAIN Sent(c, s), NEW i \in DOMAIN Queue(c, s)',
                 Op(c, s, f) \in Ending, f \notin Pending(c, s)
          PROVE  f <= ReplyId(c, s, i)'
      <3>1. CASE i \in DOMAIN Queue(c, s) /\ ReplyId(c, s, i)' = ReplyId(c, s, i)
        BY <1>2, <2>2, <3>1 DEF ReplyOrder
      <3>2. CASE ReplyId(c, s, i)' = r /\ Last(c, s)' = r
        <4>1. f <= Last(c, s)
          BY <2>2, PairParts DEF ExecutedInv, Ending
        <4>2. f \in Nat
          BY PairTypes
        <4>3. f <= r
          BY <1>l, <3>2, <4>1, <4>2, SMT
        <4> QED BY <3>2, <4>3
      <3> QED BY <1>q, <3>1, <3>2
    <2>3. ASSUME NEW i \in DOMAIN Queue(c, s)', NEW x \in Pending(c, s), ReplyId(c, s, i)' = x
          PROVE  Id(c, s, x) = TxnId(c)
      <3>1. CASE i \in DOMAIN Queue(c, s) /\ ReplyId(c, s, i)' = ReplyId(c, s, i)
        BY <1>2, <2>3, <3>1 DEF ReplyOrder
      <3>2. CASE ReplyId(c, s, i)' = r /\ Last(c, s)' = r
        BY <1>2, <2>3, <3>2, ServesCurrent
      <3> QED BY <1>q, <3>1, <3>2
    <2> QED BY <1>n, <2>1, <2>2, <2>3 DEF ReplyOrder, Ending
  <1>6. VoteOnTheWay(c, s)'
    <2>1. ASSUME NEW i \in DOMAIN Queue(c, s)', NEW x \in DOMAIN Sent(c, s),
                 ReplyId(c, s, i)' = x, Op(c, s, x) = "PREPARE", ReplyStatus(c, s, i)' = REPLY_OK
          PROVE  Id(c, s, x) \in VotedAt(s)'
      <3>1. CASE /\ i \in DOMAIN Queue(c, s)
                 /\ ReplyId(c, s, i)' = ReplyId(c, s, i) /\ ReplyStatus(c, s, i)' = ReplyStatus(c, s, i)
        BY <1>2, <1>v, <2>1, <3>1 DEF VoteOnTheWay
      <3>2. CASE ReplyId(c, s, i)' = r /\ ReplyStatus(c, s, i)' = LastReply(c, s)' /\ Last(c, s)' = r
        BY <1>l, <2>1, <3>2
      <3> QED BY <1>q, <3>1, <3>2
    <2>2. \A i \in DOMAIN Queue(c, s)' : ReplyStatus(c, s, i)' \in Statuses
      BY <1>l, <1>q, <1>2 DEF VoteOnTheWay
    <2>3. Promise(c, s)' \in Statuses /\ (cpc'[c] = "prepare" /\ Promise(c, s)' = REPLY_OK => TxnId(c)' \in VotedAt(s)')
      BY <1>n, <1>v, <1>2 DEF VoteOnTheWay
    <2> QED BY <1>l, <1>n, <2>1, <2>2, <2>3 DEF VoteOnTheWay, Statuses
  <1>7. VotePair(c, s)'
    BY <1>3, <1>5, <1>6 DEF VotePair
  <1>8. \A z \in Shards : Holds(z)'
    BY ServesHolds DEF VoteInv
  <1>9. unread' = [d \in Clients |-> {}] /\ Grid(promise')
    BY DEF VoteInv
  <1> QED BY <1>1, <1>7, <1>8, <1>9 DEF VoteInv

-----------------------------------------------------------------------------
(* Every step *)

\* Nobody has voted, and nothing is read, at first.
LEMMA InitVote == StoredProcedure /\ Init => VoteInv
  <1> SUFFICES ASSUME StoredProcedure, Init PROVE VoteInv
    OBVIOUS
  <1>1. Grid(promise) /\ unread = [c \in Clients |-> {}]
    BY DEF Init, Grid
  <1>2. DOMAIN decided = {}
    BY SMT DEF Init, EmptyMap
  <1>3. \A s \in Shards : Holds(s)
    BY <1>2 DEF Holds, DecidedAs
  <1>4. ASSUME NEW c \in Clients, NEW s \in Shards PROVE VotePair(c, s)
    <2>1. DOMAIN Sent(c, s) = {} /\ DOMAIN Queue(c, s) = {}
      <3>1. Sent(c, s) = <<>> /\ Queue(c, s) = <<>>
        BY DEF Init, Sent, Queue
      <3> QED BY <3>1, EmptySeq
    <2>2. Promise(c, s) = None /\ Timer(c, s) = None /\ cpc[c] = "idle" /\ Pending(c, s) = {}
      BY DEF Init, Promise, Timer, Pending
    <2>3. Promise(c, s) \in Statuses /\ Timer(c, s) # "BATCH_GET" /\ cpc[c] # "prepare" /\ cpc[c] # "read"
      BY <2>2 DEF Statuses, None
    <2> QED BY <2>1, <2>2, <2>3 DEF VotePair, NoReads, ReplyOrder, VoteOnTheWay
  <1> QED BY <1>1, <1>3, <1>4 DEF VoteInv

\* Every step keeps the votes.
LEMMA NextVote == StoredProcedure /\ IInv /\ ProtoInv /\ VoteInv /\ [Next]_vars => VoteInv'
  <1> SUFFICES ASSUME StoredProcedure, IInv, ProtoInv, VoteInv, [Next]_vars PROVE VoteInv'
    OBVIOUS
  <1>1. CASE UNCHANGED vars
    <2>1. /\ UNCHANGED <<cpc, ntxns, unread, outbox, sent, pendingReqs, store, clientTable, decided>>
          /\ UNCHANGED <<promise, replies>>
      BY <1>1 DEF vars, client, shardclient, network, servers, history
    <2> QED BY <2>1, VoteUnchanged, TravelVote DEF VoteInv
  <1>2. ASSUME NEW c \in Clients, ClientNext(c) PROVE VoteInv'
    BY <1>2, ClientVote
  <1>3. ASSUME NEW c \in Clients, NEW s \in Shards,
               \/ RunTimer(c, s) \/ GetTimeout(c, s)
               \/ \E reqId \in pendingReqs[c][s] : ResendRequest(c, s, reqId) \/ ReadTimeout(c, s, reqId)
               \/ HandleReply(c, s) \/ ReceiveRequest(c, s) \/ ReceiveOld(c, s)
               \/ \E n \in 0 .. Len(requests[c][s]) : Break(c, s, n)
        PROVE  VoteInv'
    <2>1. CASE RunTimer(c, s)
      BY <2>1, RunTimerVote
    <2>2. CASE HandleReply(c, s)
      BY <2>2, HandleReplyVote
    <2>3. CASE \/ GetTimeout(c, s)
               \/ \E r \in pendingReqs[c][s] : ResendRequest(c, s, r) \/ ReadTimeout(c, s, r)
               \/ \E n \in 0 .. Len(requests[c][s]) : Break(c, s, n)
      BY <2>3, FaultVote
    <2>4. CASE ReceiveRequest(c, s)
      <3>1. PICK r : Receives(c, s, r)
        BY <2>4, ReceiveEffect
      <3>2. UNCHANGED <<unread, promise>>
        BY <2>4 DEF ReceiveRequest, client, shardclient
      <3> QED BY <3>1, <3>2, ServeVote DEF Receives
    <2>5. CASE ReceiveOld(c, s)
      <3>1. PICK r : ReceivesOld(c, s, r)
        BY <2>5, ReceiveOldEffect
      <3>2. UNCHANGED <<unread, promise>>
        BY <2>5 DEF ReceiveOld, client, shardclient
      <3> QED BY <3>1, <3>2, ServeVote DEF ReceivesOld
    <2> QED BY <1>3, <2>1, <2>2, <2>3, <2>4, <2>5
  <1> QED BY <1>1, <1>2, <1>3 DEF Next

\* With stored procedures IInv, ProtoInv and VoteInv together are inductive.
LEMMA SpecVote == StoredProcedure => (Spec => [](IInv /\ ProtoInv /\ VoteInv))
  <1> SUFFICES ASSUME StoredProcedure PROVE Spec => [](IInv /\ ProtoInv /\ VoteInv)
    OBVIOUS
  <1>1. Init => VoteInv
    BY InitVote
  <1>2. IInv /\ ProtoInv /\ VoteInv /\ [Next]_vars => VoteInv'
    BY NextVote
  <1> QED BY <1>1, <1>2, SpecProto, PTL DEF Spec

\* What a shard has logged it no longer holds prepared, and its client decided to
\* commit it there.
LEMMA LoggedIsDecided ==
    ASSUME ProtoInv, NEW s \in Shards, NEW t \in Logged(s)
    PROVE  t \in DecidedAs("commit", s) /\ t \notin Prepared(s)
  <1>1. PICK c \in Clients : t[1] = c
    <2>1. t \in Clients \X (1 .. MaxTxns)
      BY DEF ProtoInv, TypeInv, ServerTypes, TxnIds
    <2> QED BY <2>1, SMT
  <1>2. PreparedInv(c, s) /\ LoggedInv(c, s)
    BY PairParts
  <1> QED BY <1>1, <1>2 DEF PreparedInv, LoggedInv, Ending

\* ASSERT(prepared.find(id) != prepared.end()) (occstore.cc:84): with stored
\* procedures every commit that a server has yet to execute finds its transaction
\* prepared, whatever is lost, resent, duplicated, broken or timed out.
THEOREM StrongCommitFindsPrepared == StoredProcedure => (Spec => []CommitFindsPrepared)
  <1>1. ProtoInv /\ VoteInv => CommitFindsPrepared
    <2> SUFFICES ASSUME ProtoInv, VoteInv, NEW c \in Clients, NEW s \in Shards, NEW r \in DOMAIN Sent(c, s),
                        Op(c, s, r) = "COMMIT", Unexecuted(c, s, r)
                 PROVE  Id(c, s, r) \in Prepared(s)
      BY DEF CommitFindsPrepared, Sent, Op, Id, Prepared
    <2>1. SentInv(c, s) /\ DecisionInv(c, s) /\ LoggedInv(c, s)
      BY PairParts
    <2>2. PICK t : t = Id(c, s, r) /\ t[1] = c
      <3>1. PICK t : t = Id(c, s, r)
        OBVIOUS
      <3>2. t = <<c, t[2]>>
        BY <2>1, <3>1 DEF SentInv
      <3> QED BY <3>1, <3>2, SMT
    <2>3. t \in DecidedAs("commit", s)
      BY <2>1, <2>2 DEF DecisionInv, Outcome, Ending
    <2>4. t \notin Logged(s)
      <3> SUFFICES ASSUME t \in Logged(s) PROVE FALSE
        OBVIOUS
      <3>1. PICK i \in DOMAIN Sent(c, s) : Op(c, s, i) = "COMMIT" /\ Id(c, s, i) = t /\ ~Unexecuted(c, s, i)
        BY <2>1, <2>2 DEF LoggedInv
      <3>2. i # r /\ i \in Nat /\ r \in Nat
        BY <3>1, PairTypes
      <3>3. i < r \/ r < i
        BY <3>2, SMT
      <3> QED BY <2>1, <2>2, <3>1, <3>3 DEF SentInv, Ending
    <2> QED BY <2>2, <2>3, <2>4 DEF VoteInv, Holds
  <1> QED BY <1>1, SpecVote, PTL

-----------------------------------------------------------------------------
(* Two-phase commit implements AtomicTxn *)

\* Where a transaction is at a shard.
LEMMA StateAt ==
    ASSUME NEW s \in Shards, NEW t \in TxnIds
    PROVE  /\ t \in Logged(s) => ShardState[s][t] = "committed"
           /\ t \notin Logged(s) /\ t \in Prepared(s) => ShardState[s][t] = "prepared"
           /\ t \notin Logged(s) /\ t \notin Prepared(s) => ShardState[s][t] = "working"
  BY SMT DEF ShardState, Prepared

\* A shard moves one transaction.
LEMMA StateMoves ==
    ASSUME NEW s \in Shards, NEW t \in TxnIds,
           \A z \in Shards : z # s => Prepared(z)' = Prepared(z) /\ Logged(z)' = Logged(z),
           \A u : u # t => ((u \in Prepared(s)' <=> u \in Prepared(s)) /\ (u \in Logged(s)' <=> u \in Logged(s)))
    PROVE  /\ t \in Logged(s)' => ShardState' = [ShardState EXCEPT ![s][t] = "committed"]
           /\ t \notin Logged(s)' /\ t \in Prepared(s)' => ShardState' = [ShardState EXCEPT ![s][t] = "prepared"]
           /\ t \notin Logged(s)' /\ t \notin Prepared(s)' => ShardState' = [ShardState EXCEPT ![s][t] = "working"]
  <1>1. PICK F : F = ShardState
    OBVIOUS
  <1>2. PICK G : G = ShardState'
    OBVIOUS
  <1>3. F = [z \in Shards |-> [u \in TxnIds |-> F[z][u]]] /\ G = [z \in Shards |-> [u \in TxnIds |-> G[z][u]]]
    BY <1>1, <1>2, SMT DEF ShardState
  <1>4. ASSUME NEW z \in Shards, NEW u \in TxnIds, z # s \/ u # t PROVE G[z][u] = F[z][u]
    <2>1. (u \in Logged(z)' <=> u \in Logged(z)) /\ (u \in Prepared(z)' <=> u \in Prepared(z))
      BY <1>4
    <2>2. F[z][u] = IF u \in Logged(z) THEN "committed" ELSE IF u \in Prepared(z) THEN "prepared" ELSE "working"
      BY <1>1, SMT DEF ShardState, Prepared
    <2>3. G[z][u] = IF u \in Logged(z)' THEN "committed" ELSE IF u \in Prepared(z)' THEN "prepared" ELSE "working"
      BY <1>2, SMT DEF ShardState, Prepared
    <2> QED BY <2>1, <2>2, <2>3
  <1>5. G[s][t] = IF t \in Logged(s)' THEN "committed" ELSE IF t \in Prepared(s)' THEN "prepared" ELSE "working"
    BY <1>2, SMT DEF ShardState, Prepared
  <1>6. G = [F EXCEPT ![s][t] = G[s][t]]
    <2>1. G[s] = [F[s] EXCEPT ![t] = G[s][t]]
      BY <1>3, <1>4, SMT
    <2>2. \A z \in Shards : z # s => G[z] = F[z]
      BY <1>3, <1>4, SMT
    <2>3. PICK h : h = [F[s] EXCEPT ![t] = G[s][t]]
      OBVIOUS
    <2>4. F = [z \in Shards |-> F[z]] /\ G = [z \in Shards |-> G[z]]
      BY <1>3
    <2>5. G = [F EXCEPT ![s] = h]
      BY <2>1, <2>2, <2>3, <2>4
    <2> QED BY <2>3, <2>5
  <1> QED BY <1>1, <1>2, <1>5, <1>6

\* Serving a request prepares, releases or commits the transaction, or changes
\* nothing that AtomicTxn sees.
LEMMA ServesAtomic ==
    ASSUME ProtoInv, VoteInv, NEW c \in Clients, NEW s \in Shards, NEW r \in DOMAIN Sent(c, s), Serves(c, s, r),
           UNCHANGED decided
    PROVE  [Atomic!Next]_(Atomic!vars)
  <1>1. CASE UNCHANGED <<store, clientTable>>
    <2>1. UNCHANGED ShardState
      BY <1>1 DEF ShardState, Logged
    <2> QED BY <2>1 DEF Atomic!vars
  <1>2. CASE Executes(c, s, r)
    <2>1. PICK t : t = TxnId(c)
      OBVIOUS
    <2>2. /\ Op(c, s, r) \in Ops /\ Op(c, s, r) # "BATCH_GET" /\ Id(c, s, r) = t
          /\ Op(c, s, r) = "PREPARE" => Prepared(s) \subseteq Prepared(s)'
          /\ Op(c, s, r) # "PREPARE" => t \notin Prepared(s)'
          /\ \A u : u # t => (u \in Prepared(s)' <=> u \in Prepared(s))
          /\ \A u : u # t => (u \in Logged(s)' <=> u \in Logged(s))
          /\ Logged(s) \subseteq Logged(s)'
          /\ Op(c, s, r) = "COMMIT" /\ t \in Prepared(s) => t \in Logged(s)'
          /\ ~(Op(c, s, r) = "COMMIT" /\ t \in Prepared(s)) => Logged(s)' = Logged(s)
      BY <1>2, <2>1, PairParts DEF Executes, SentInv
    <2>3. t \in TxnIds
      <3>1. Id(c, s, r) = <<c, Id(c, s, r)[2]>> /\ Id(c, s, r)[2] \in 1 .. ntxns[c] /\ ntxns[c] \in 0 .. MaxTxns
        BY PairParts DEF SentInv, ProtoInv, TypeInv, ThreadTypes
      <3>2. t = <<c, t[2]>> /\ t[2] \in 1 .. ntxns[c] /\ ntxns[c] \in 0 .. MaxTxns
        BY <2>2, <3>1
      <3> QED BY <3>2, StrongAssumption, SMT DEF TxnIds
    <2>4. \A z \in Shards : z # s => Prepared(z)' = Prepared(z) /\ Logged(z)' = Logged(z)
      BY DEF Serves
    <2>5. /\ t \in Logged(s)' => ShardState' = [ShardState EXCEPT ![s][t] = "committed"]
          /\ t \notin Logged(s)' /\ t \in Prepared(s)' => ShardState' = [ShardState EXCEPT ![s][t] = "prepared"]
          /\ t \notin Logged(s)' /\ t \notin Prepared(s)' => ShardState' = [ShardState EXCEPT ![s][t] = "working"]
      BY <2>2, <2>3, <2>4, StateMoves
    <2>6. /\ t \in Logged(s) => ShardState[s][t] = "committed"
          /\ t \notin Logged(s) /\ t \in Prepared(s) => ShardState[s][t] = "prepared"
          /\ t \notin Logged(s) /\ t \notin Prepared(s) => ShardState[s][t] = "working"
      BY <2>3, StateAt
    <2>7. t \in Logged(s) => t \in DecidedAs("commit", s) /\ t \notin Prepared(s)
      BY LoggedIsDecided
    <2>8. \A v : ShardState[s][t] = v /\ ShardState' = [ShardState EXCEPT ![s][t] = v] => [Atomic!Next]_(Atomic!vars)
      <3>1. \A v : ShardState[s][t] = v => [ShardState EXCEPT ![s][t] = v] = ShardState
        BY <2>3, SMT DEF ShardState
      <3> QED BY <3>1 DEF Atomic!vars
    <2>9. Atomic!DecidedCommit(t) <=> t \in DOMAIN decided /\ decided[t].outcome = "commit"
      BY DEF Atomic!DecidedCommit
    <2>10. CASE Op(c, s, r) = "PREPARE"
      <3>1. CASE t \in Logged(s)
        BY <2>2, <2>5, <2>6, <2>8, <3>1
      <3>2. CASE t \notin Logged(s) /\ t \in Prepared(s)
        BY <2>2, <2>5, <2>6, <2>8, <2>10, <3>2
      <3>3. CASE t \notin Logged(s) /\ t \notin Prepared(s) /\ t \notin Prepared(s)'
        BY <2>2, <2>5, <2>6, <2>8, <2>10, <3>3
      <3>4. CASE t \notin Logged(s) /\ t \notin Prepared(s) /\ t \in Prepared(s)'
        <4>1. ~Atomic!DecidedCommit(t)
          <5> SUFFICES ASSUME t \in DOMAIN decided, decided[t].outcome = "commit" PROVE FALSE
            BY <2>9
          <5>1. t \notin DecidedAs("commit", s)
            BY <3>4 DEF VoteInv, Holds
          <5>2. SentInv(c, s) /\ DecisionInv(c, s)
            BY PairParts
          <5>3. s \in participants[c]
            BY <2>1, <2>2, <5>2 DEF SentInv
          <5>4. \E outcome \in Outcomes : t \in DecidedAs(outcome, s)
            BY <2>1, <5>2, <5>3 DEF DecisionInv, Ending, EndTimers, Outcome, Outcomes
          <5> QED BY <5>1, <5>4 DEF DecidedAs
        <4>2. Atomic!Prepare(t, s)
          BY <2>2, <2>5, <2>6, <2>10, <3>4, <4>1 DEF Atomic!Prepare, Atomic!Move
        <4> QED BY <2>3, <4>2 DEF Atomic!Next
      <3> QED BY <3>1, <3>2, <3>3, <3>4
    <2>11. CASE Op(c, s, r) = "COMMIT"
      <3>1. CASE t \notin Prepared(s)
        BY <2>2, <2>5, <2>6, <2>8, <2>11, <3>1
      <3>2. CASE t \in Prepared(s)
        <4>1. t \in DecidedAs("commit", s)
          BY <2>2, <2>11, PairParts DEF DecisionInv, Ending, Outcome
        <4>2. t \in DOMAIN decided /\ decided[t].outcome = "commit" /\ s \in decided[t].at
          BY <4>1 DEF DecidedAs
        <4>3. Atomic!Commit(t, s)
          BY <2>2, <2>5, <2>6, <2>7, <2>9, <2>11, <3>2, <4>2 DEF Atomic!Commit, Atomic!Move
        <4> QED BY <2>3, <4>3 DEF Atomic!Next
      <3> QED BY <3>1, <3>2
    <2>12. CASE Op(c, s, r) = "ABORT"
      <3>1. CASE t \notin Prepared(s)
        BY <2>2, <2>5, <2>6, <2>8, <2>12, <3>1
      <3>2. CASE t \in Prepared(s)
        <4>1. t \in DecidedAs("abort", s)
          BY <2>2, <2>12, PairParts DEF DecisionInv, Ending, Outcome
        <4>2. ~Atomic!DecidedCommit(t)
          BY <2>9, <4>1 DEF DecidedAs
        <4>3. Atomic!Release(t, s)
          BY <2>2, <2>5, <2>6, <2>7, <2>12, <3>2, <4>2 DEF Atomic!Release, Atomic!Move
        <4> QED BY <2>3, <4>3 DEF Atomic!Next
      <3> QED BY <3>1, <3>2
    <2> QED BY <2>2, <2>10, <2>11, <2>12 DEF Ops
  <1> QED BY <1>1, <1>2 DEF Serves

\* The client decides to commit only what every participant holds prepared.
LEMMA DecideAtomic ==
    ASSUME ProtoInv, VoteInv, NEW c \in Clients,
           (\E wait \in BOOLEAN : DecideCommit(c, wait)) \/ DecideAbort(c)
    PROVE  Atomic!Next
  <1>1. PICK outcome \in {"commit", "abort"} :
            /\ cpc[c] = "prepare" /\ Decide(c, outcome) /\ UNCHANGED store
            /\ outcome = "commit" => AllAnswered(c) /\ PrepareResult(c) = REPLY_OK
    BY DEF DecideCommit, DecideAbort, servers
  <1>2. PICK t : t = TxnId(c) /\ t \notin DOMAIN decided /\ ntxns[c] > 0
    BY <1>1 DEF ProtoInv, DecidedInv
  <1>3. PICK at \in SUBSET Shards : at = participants[c]
    BY DEF ProtoInv, TypeInv, ThreadTypes
  <1>4. t \in TxnIds
    <2>1. ntxns[c] \in 0 .. MaxTxns
      BY DEF ProtoInv, TypeInv, ThreadTypes
    <2> QED BY <1>2, <2>1, StrongAssumption, SMT DEF TxnIds, TxnId
  <1>5. outcome = "commit" => \A s \in at : ShardState[s][t] = "prepared"
    <2> SUFFICES ASSUME outcome = "commit", NEW s \in at PROVE ShardState[s][t] = "prepared"
      OBVIOUS
    <2>1. s \in Shards /\ t \in Prepared(s)
      BY <1>1, <1>2, <1>3, EveryVote
    <2>2. t \notin Logged(s)
      BY <1>2, <2>1, LoggedIsDecided DEF DecidedAs
    <2> QED BY <1>4, <2>1, <2>2, StateAt
  <1>6. decided' = With(decided, t, [outcome |-> outcome, at |-> at]) /\ UNCHANGED ShardState
    BY <1>1, <1>2, <1>3 DEF Decide, ShardState, Logged
  <1>7. Atomic!Decide(t, outcome, at)
    BY <1>2, <1>5, <1>6 DEF Atomic!Decide, Atomic!With, With
  <1> QED BY <1>4, <1>7 DEF Atomic!Next

\* Every step is one of AtomicTxn or leaves its state alone.
LEMMA NextAtomic ==
    StoredProcedure /\ IInv /\ ProtoInv /\ VoteInv /\ [Next]_vars => [Atomic!Next]_(Atomic!vars)
  <1> SUFFICES ASSUME StoredProcedure, IInv, ProtoInv, VoteInv, [Next]_vars PROVE [Atomic!Next]_(Atomic!vars)
    OBVIOUS
  <1>1. UNCHANGED <<store, decided>> => [Atomic!Next]_(Atomic!vars)
    BY DEF Atomic!vars, ShardState, Logged
  <1>2. CASE UNCHANGED vars
    BY <1>1, <1>2 DEF vars, servers, history
  <1>3. ASSUME NEW c \in Clients, ClientNext(c) PROVE [Atomic!Next]_(Atomic!vars)
    <2>1. CASE (\E wait \in BOOLEAN : DecideCommit(c, wait)) \/ DecideAbort(c)
      BY <2>1, DecideAtomic
    <2>2. CASE \/ \E w \in Workload : Begin(c, w)
               \/ \E s \in Shards : ClientBatchGet(c, s)
               \/ ReadReturns(c) \/ EndReads(c) \/ StartPrepare(c) \/ RetryPrepare(c) \/ CommitReturns(c)
      <3>1. UNCHANGED <<store, decided>>
        BY <2>2 DEF Begin, ClientBatchGet, ReadReturns, EndReads, StartPrepare, RetryPrepare, CommitReturns,
                    servers, history
      <3> QED BY <1>1, <3>1
    <2> QED BY <1>3, <2>1, <2>2 DEF ClientNext
  <1>4. ASSUME NEW c \in Clients, NEW s \in Shards,
               \/ RunTimer(c, s) \/ GetTimeout(c, s)
               \/ \E reqId \in pendingReqs[c][s] : ResendRequest(c, s, reqId) \/ ReadTimeout(c, s, reqId)
               \/ HandleReply(c, s)
               \/ \E n \in 0 .. Len(requests[c][s]) : Break(c, s, n)
        PROVE  [Atomic!Next]_(Atomic!vars)
    <2>1. UNCHANGED <<store, decided>>
      BY <1>4 DEF RunTimer, GetTimeout, ResendRequest, ReadTimeout, HandleReply, Break, servers, history
    <2> QED BY <1>1, <2>1
  <1>5. ASSUME NEW c \in Clients, NEW s \in Shards, ReceiveRequest(c, s) PROVE [Atomic!Next]_(Atomic!vars)
    BY <1>5, ReceiveEffect, ServesAtomic DEF Receives
  <1>6. ASSUME NEW c \in Clients, NEW s \in Shards, ReceiveOld(c, s) PROVE [Atomic!Next]_(Atomic!vars)
    BY <1>6, ReceiveOldEffect, ServesAtomic DEF ReceivesOld
  <1> QED BY <1>2, <1>3, <1>4, <1>5, <1>6 DEF Next

\* With stored procedures two-phase commit as the client, the shard client and the
\* servers run it (client.cc:255, shardclient.cc:386, replica.cc:378,
\* strongserver.cc:27) implements the atomic transaction, whatever requests
\* and replies are lost, duplicated and resent, and whatever timers expire.
THEOREM StrongImplementsAtomicTxn == StoredProcedure => (Spec => ImplementsAtomicTxn)
  <1> SUFFICES ASSUME StoredProcedure PROVE Spec => Atomic!Spec
    BY DEF ImplementsAtomicTxn
  <1>1. Init => Atomic!Init
    <2> SUFFICES ASSUME Init PROVE Atomic!Init
      OBVIOUS
    <2>1. decided = <<>>
      BY DEF Init, EmptyMap
    <2>2. \A s \in Shards : DOMAIN store[s].prepared = {} /\ Logged(s) = {}
      <3>1. \A s \in Shards : store[s].log = <<>> /\ store[s].prepared = <<>>
        BY SMT DEF Init, Empty, EmptyMap
      <3> QED BY <3>1, EmptySeq DEF Logged
    <2>3. ShardState = [s \in Shards |-> [t \in TxnIds |-> "working"]]
      BY <2>2, SMT DEF ShardState
    <2> QED BY <2>1, <2>3 DEF Atomic!Init, Atomic!EmptyMap
  <1>2. IInv /\ ProtoInv /\ VoteInv /\ [Next]_vars => [Atomic!Next]_(Atomic!vars)
    BY NextAtomic
  <1> QED BY <1>1, <1>2, SpecVote, PTL DEF Spec, Atomic!Spec

\* With stored procedures a transaction that is committed at a shard was decided
\* so, at this shard, and every participant holds it prepared or committed: no
\* shard commits what another has released.
THEOREM StrongAllOrNothing == StoredProcedure => (Spec => []AllOrNothing)
  <1>1. ProtoInv /\ VoteInv => AllOrNothing
    <2> SUFFICES ASSUME ProtoInv, VoteInv, NEW t \in TxnIds, NEW s \in Shards, ShardState[s][t] = "committed"
                 PROVE  /\ t \in DOMAIN decided /\ decided[t].outcome = "commit" /\ s \in decided[t].at
                        /\ \A p \in decided[t].at : ShardState[p][t] \in {"prepared", "committed"}
      BY DEF AllOrNothing, Atomic!AllOrNothing, Atomic!DecidedCommit
    <2>1. t \in Logged(s)
      BY StateAt
    <2>2. t \in DecidedAs("commit", s)
      BY <2>1, LoggedIsDecided
    <2>3. ASSUME NEW p \in decided[t].at PROVE ShardState[p][t] \in {"prepared", "committed"}
      <3>1. p \in Shards /\ t \in DecidedAs("commit", p)
        BY <2>2 DEF DecidedAs, ProtoInv, DecidedInv
      <3>2. t \in Prepared(p) \/ t \in Logged(p)
        BY <3>1 DEF VoteInv, Holds
      <3> QED BY <3>1, <3>2, StateAt
    <2> QED BY <2>2, <2>3 DEF DecidedAs
  <1> QED BY <1>1, SpecVote, PTL


\* "Wait for reply from all shards" (client.cc:271): a client that decides to
\* commit a stored procedure has every participant's vote, and each of them holds
\* the transaction prepared until it has put its writes.  With reads of its own
\* the late answer of one may be taken for the vote.
THEOREM StrongProcedureHasEveryVote == StoredProcedure => (Spec => []CommitHasEveryVote)
  <1>1. ProtoInv /\ VoteInv => CommitHasEveryVote
    <2> SUFFICES ASSUME ProtoInv, VoteInv, NEW t \in DOMAIN decided, decided[t].outcome = "commit",
                        NEW s \in decided[t].at
                 PROVE  t \in DOMAIN store[s].prepared \/ \E i \in DOMAIN store[s].log : store[s].log[i].id = t
      BY DEF CommitHasEveryVote
    <2>1. s \in Shards
      BY DEF ProtoInv, DecidedInv
    <2>2. t \in DecidedAs("commit", s)
      BY DEF DecidedAs
    <2>3. t \in Prepared(s) \cup Logged(s)
      BY <2>1, <2>2 DEF VoteInv, Holds
    <2> QED BY <2>3 DEF Prepared, Logged
  <1> QED BY <1>1, SpecVote, PTL
====

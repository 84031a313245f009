------------------------- MODULE StrongSerialProofs --------------------------
(***************************************************************************)
(* Isolation of stored procedures: the order in which clients decide to    *)
(* commit is a serial order that explains every read.  A transaction that  *)
(* is decided is prepared at all its shards, so it comes after whatever    *)
(* they have logged of its keys and nothing prepared conflicts with it.    *)
(***************************************************************************)
EXTENDS StrongAtomicProofs

USE Zenon

\* What a logged transaction and a prepared one have in common.
Clash(e, p) == e.writes \cap (p.reads \cup p.writes) # {} \/ DOMAIN e.seen \cap p.writes # {}

\* The transactions decided to commit.
Winners == {t \in DOMAIN decided : decided[t].outcome = "commit"}

\* t comes before u at shard s, by what is logged or by what is about to be.
PrecAt(s, t, u) ==
    \/ DependsAt(s, t, u)
    \/ /\ u \in Prepared(s)
       /\ \E i \in DOMAIN store[s].log : store[s].log[i].id = t /\ Clash(store[s].log[i], store[s].prepared[u])

Prec(t, u) == t # u /\ (t \in before[u] \/ \E s \in Shards : PrecAt(s, t, u))

\* Whichever of them one takes, one of those comes first.
Ordered == \A T \in SUBSET Winners : T # {} => \E u \in T : \A t \in T : ~Prec(t, u)

\* Of the versions of a key, i wrote the last one before position j.
LastBefore(log, j, k, i) ==
    /\ i \in DOMAIN log /\ i < j /\ k \in log[i].writes
    /\ \A h \in DOMAIN log : h < j /\ k \in log[h].writes => h <= i

NoneBefore(log, j, k) == \A h \in DOMAIN log : h < j => k \notin log[h].writes

\* A version is there, or there is none.
Version(log, j, k, v) ==
    \/ v = NoWriter /\ NoneBefore(log, j, k)
    \/ \E i \in DOMAIN log : LastBefore(log, j, k, i) /\ v = log[i].id

\* Every transaction is logged once and has seen the last version of what it read.
GoodLog(log) ==
    /\ \A i, j \in DOMAIN log : log[i].id = log[j].id => i = j
    /\ \A i \in DOMAIN log : log[i].id # NoWriter
    /\ \A j \in DOMAIN log : \A k \in DOMAIN log[j].seen : Version(log, j, k, log[j].seen[k])
    /\ \A k : NoneBefore(log, Len(log) + 1, k) \/ \E i \in DOMAIN log : LastBefore(log, Len(log) + 1, k, i)

\* What committed before a transaction began was decided then.
BeforeInv ==
    \A c \in Clients : \A n \in 1 .. ntxns[c] :
        <<c, n>> \in DOMAIN before /\ before[<<c, n>>] \subseteq Winners

SerialInv == (\A s \in Shards : GoodLog(store[s].log)) /\ BeforeInv /\ Ordered

-----------------------------------------------------------------------------
(* Logs *)

\* The version that LastWriter names.
LEMMA LastWriterVersion ==
    ASSUME NEW log, IsSeq(log), GoodLog(log), NEW k
    PROVE  Version(log, Len(log) + 1, k, LastWriter(log, k))
  <1> DEFINE n == Len(log) + 1
             ws == {i \in 1 .. Len(log) : k \in log[i].writes}
             m == CHOOSE i \in ws : \A j \in ws : j <= i
  <1>1. DOMAIN log = 1 .. Len(log) /\ Len(log) \in Nat
    BY SeqDomain
  <1>2. \A i \in DOMAIN log : i \in Nat /\ i < n
    BY <1>1, SMT
  <1>3. LastWriter(log, k) = IF ws = {} THEN NoWriter ELSE log[m].id
    BY DEF LastWriter
  <1> HIDE DEF n
  <1>4. CASE NoneBefore(log, n, k)
    <2>1. ws = {}
      BY <1>1, <1>2, <1>4 DEF NoneBefore
    <2> QED BY <1>3, <1>4, <2>1 DEF Version, n
  <1>5. ASSUME NEW i \in DOMAIN log, LastBefore(log, n, k, i) PROVE Version(log, n, k, LastWriter(log, k))
    <2>1. i \in ws /\ \A j \in ws : j <= i
      BY <1>1, <1>2, <1>5 DEF LastBefore
    <2>2. m \in ws /\ \A j \in ws : j <= m
      BY <2>1
    <2>3. ws # {} /\ m \in DOMAIN log /\ k \in log[m].writes
      BY <1>1, <2>2
    <2>4. \A h \in DOMAIN log : k \in log[h].writes => h <= m
      BY <1>1, <2>2
    <2>5. LastBefore(log, n, k, m)
      BY <1>2, <2>3, <2>4 DEF LastBefore
    <2> QED BY <1>3, <2>3, <2>5 DEF Version
  <1> QED BY <1>4, <1>5 DEF GoodLog, n

Grows(log, e, a) == a = Append(log, e)

\* What a log is with one more entry.
LEMMA Appended ==
    ASSUME NEW log, NEW e, NEW a, IsSeq(log), Grows(log, e, a)
    PROVE  /\ IsSeq(a) /\ Len(log) \in Nat /\ DOMAIN log = 1 .. Len(log) /\ DOMAIN a = DOMAIN log \cup {Len(log) + 1}
           /\ Len(a) = Len(log) + 1 /\ Len(log) + 1 \notin DOMAIN log /\ a[Len(log) + 1] = e
           /\ \A i \in DOMAIN log : a[i] = log[i] /\ i < Len(log) + 1
  <1>1. /\ IsSeq(Append(log, e)) /\ DOMAIN Append(log, e) = DOMAIN log \cup {Len(log) + 1}
        /\ Len(Append(log, e)) = Len(log) + 1 /\ Len(log) + 1 \notin DOMAIN log
        /\ Append(log, e)[Len(log) + 1] = e
        /\ \A i \in DOMAIN log : Append(log, e)[i] = log[i] /\ i < Len(log) + 1
    BY AppendSeq
  <1>2. Len(log) \in Nat /\ DOMAIN log = 1 .. Len(log)
    BY SeqDomain
  <1> QED BY <1>1, <1>2 DEF Grows

\* The versions before a position stay the same when a log grows.
LEMMA VersionStays ==
    ASSUME NEW log, NEW e, NEW a, IsSeq(log), Grows(log, e, a),
           NEW j \in Nat, j <= Len(log) + 1, NEW k, NEW v, Version(log, j, k, v)
    PROVE  Version(a, j, k, v)
  <1>1. /\ IsSeq(a) /\ Len(log) \in Nat /\ DOMAIN log = 1 .. Len(log) /\ DOMAIN a = DOMAIN log \cup {Len(log) + 1}
        /\ Len(a) = Len(log) + 1 /\ Len(log) + 1 \notin DOMAIN log /\ a[Len(log) + 1] = e
        /\ \A i \in DOMAIN log : a[i] = log[i] /\ i < Len(log) + 1
    BY Appended
  <1>2. ~(Len(log) + 1 < j)
    BY <1>1, SMT
  <1>3. \A h \in DOMAIN a : h < j => h \in DOMAIN log
    BY <1>1, <1>2
  <1>4. NoneBefore(log, j, k) => NoneBefore(a, j, k)
    BY <1>1, <1>3 DEF NoneBefore
  <1>5. \A i \in DOMAIN log : LastBefore(log, j, k, i) => i \in DOMAIN a /\ LastBefore(a, j, k, i) /\ a[i].id = log[i].id
    BY <1>1, <1>3 DEF LastBefore
  <1> QED BY <1>4, <1>5 DEF Version

\* The entry a stored procedure logs.
Entry(log, t, p, e) == e.id = t /\ e.writes = p.writes /\ DOMAIN e.seen = p.reads
                       /\ \A k \in p.reads : e.seen[k] = LastWriter(log, k)

\* A transaction that is new to a log, put with the last versions of what it
\* reads, leaves the log good.
LEMMA AppendGood ==
    ASSUME NEW log, NEW e, NEW a, NEW t, NEW p, IsSeq(log), GoodLog(log), Entry(log, t, p, e), Grows(log, e, a),
           t # NoWriter, \A i \in DOMAIN log : log[i].id # t
    PROVE  GoodLog(a)
  <1> DEFINE n == Len(log) + 1
  <1>1. /\ IsSeq(a) /\ Len(log) \in Nat /\ DOMAIN log = 1 .. Len(log) /\ DOMAIN a = DOMAIN log \cup {n}
        /\ Len(a) = n /\ n \notin DOMAIN log /\ a[n] = e
        /\ \A i \in DOMAIN log : a[i] = log[i] /\ i < n
    BY Appended
  <1>0. n \in Nat /\ n < Len(a) + 1 /\ ~(n < n) /\ n <= n /\ n <= Len(log) + 1
        /\ \A i \in DOMAIN log : i \in Nat /\ i <= Len(log) + 1 /\ i < Len(a) + 1 /\ i <= n
    BY <1>1, SMT
  <1> HIDE DEF n
  <1>2. \A i, j \in DOMAIN a : a[i].id = a[j].id => i = j
    <2>1. a[n].id = t /\ \A i \in DOMAIN log : a[i].id = log[i].id
      BY <1>1 DEF Entry
    <2>2. \A i, j \in DOMAIN log : log[i].id = log[j].id => i = j
      BY DEF GoodLog
    <2>3. \A i \in DOMAIN log : a[i].id # t
      BY <2>1
    <2>4. \A i \in DOMAIN a : i \in DOMAIN log \/ i = n
      BY <1>1
    <2> SUFFICES ASSUME NEW i \in DOMAIN a, NEW j \in DOMAIN a, a[i].id = a[j].id PROVE i = j
      OBVIOUS
    <2>5. CASE i = n
      BY <2>1, <2>3, <2>4, <2>5
    <2>6. CASE j = n
      BY <2>1, <2>3, <2>4, <2>6
    <2>7. CASE i \in DOMAIN log /\ j \in DOMAIN log
      BY <2>1, <2>2, <2>7
    <2> QED BY <2>4, <2>5, <2>6, <2>7
  <1>3. \A i \in DOMAIN a : a[i].id # NoWriter
    BY <1>1 DEF GoodLog, Entry
  <1>4. ASSUME NEW j \in DOMAIN a, NEW k \in DOMAIN a[j].seen PROVE Version(a, j, k, a[j].seen[k])
    <2>1. CASE j \in DOMAIN log
      <3>1. Version(log, j, k, log[j].seen[k]) /\ a[j].seen[k] = log[j].seen[k]
        BY <1>1, <1>4, <2>1 DEF GoodLog
      <3>2. j \in Nat /\ j <= Len(log) + 1
        BY <1>0, <2>1
      <3>3. Version(a, j, k, log[j].seen[k])
        BY <3>1, <3>2, VersionStays
      <3> QED BY <3>1, <3>3
    <2>2. CASE j = n
      <3>1. a[n].seen[k] = LastWriter(log, k)
        BY <1>1, <1>4, <2>2 DEF Entry
      <3>2. Version(log, n, k, LastWriter(log, k))
        BY LastWriterVersion DEF n
      <3>3. Version(a, n, k, LastWriter(log, k))
        BY <1>0, <3>2, VersionStays
      <3> QED BY <2>2, <3>1, <3>3
    <2> QED BY <1>1, <2>1, <2>2
  <1>5. ASSUME NEW k PROVE NoneBefore(a, Len(a) + 1, k) \/ \E i \in DOMAIN a : LastBefore(a, Len(a) + 1, k, i)
    <2>1. CASE k \in e.writes
      <3>1. LastBefore(a, Len(a) + 1, k, n)
        BY <1>0, <1>1, <2>1 DEF LastBefore
      <3> QED BY <1>1, <3>1
    <2>2. CASE k \notin e.writes
      <3>1. NoneBefore(log, n, k) => NoneBefore(a, Len(a) + 1, k)
        BY <1>0, <1>1, <2>2 DEF NoneBefore
      <3>2. \A i \in DOMAIN log : LastBefore(log, n, k, i) => LastBefore(a, Len(a) + 1, k, i)
        BY <1>0, <1>1, <2>2 DEF LastBefore
      <3>3. NoneBefore(log, n, k) \/ \E i \in DOMAIN log : LastBefore(log, n, k, i)
        BY DEF GoodLog, n
      <3> QED BY <1>1, <3>1, <3>2, <3>3
    <2> QED BY <2>1, <2>2
  <1> QED BY <1>2, <1>3, <1>4, <1>5 DEF GoodLog

\* In a log t comes before u.
LogDepends(log, t, u) ==
    \E i, j \in DOMAIN log :
        /\ log[i].id = t /\ log[j].id = u
        /\ \/ i < j /\ log[i].writes \cap log[j].writes # {}
           \/ \E k \in DOMAIN log[j].seen : log[j].seen[k] = t
           \/ \E k \in DOMAIN log[i].seen \cap log[j].writes : VersionAt(log, log[i].seen[k]) < j

\* The positions and keys that make t come before u.
Before(log, t, i, j) ==
    \/ i < j /\ log[i].writes \cap log[j].writes # {}
    \/ \E k \in DOMAIN log[j].seen : log[j].seen[k] = t
    \/ \E k \in DOMAIN log[i].seen \cap log[j].writes : VersionAt(log, log[i].seen[k]) < j

\* A version is where its writer is.
LEMMA VersionIsAt ==
    ASSUME NEW log, GoodLog(log), NEW i \in DOMAIN log
    PROVE  VersionAt(log, log[i].id) = i
  <1> DEFINE m == CHOOSE h \in DOMAIN log : log[h].id = log[i].id
  <1>1. m \in DOMAIN log /\ log[m].id = log[i].id
    OBVIOUS
  <1>2. m = i
    BY <1>1 DEF GoodLog
  <1>3. log[i].id # NoWriter
    BY DEF GoodLog
  <1> QED BY <1>2, <1>3 DEF VersionAt

\* t, new in the log a, comes before none, and after those that share a key with it.
ComesLast(log, a, t, p) ==
    /\ \A u, v : u # t /\ v # t /\ LogDepends(a, u, v) => LogDepends(log, u, v)
    /\ \A u : u # t => ~LogDepends(a, t, u)
    /\ \A u : u # t /\ LogDepends(a, u, t) => \E i \in DOMAIN log : log[i].id = u /\ Clash(log[i], p)

\* A new entry comes before none, and after those of which it shares a key.
LEMMA AppendDepends ==
    ASSUME NEW log, NEW e, NEW a, NEW t, NEW p, IsSeq(log), GoodLog(log), Entry(log, t, p, e), Grows(log, e, a),
           t # NoWriter, \A i \in DOMAIN log : log[i].id # t
    PROVE  ComesLast(log, a, t, p)
  <1>1. /\ IsSeq(a) /\ Len(log) \in Nat /\ DOMAIN log = 1 .. Len(log) /\ DOMAIN a = DOMAIN log \cup {Len(log) + 1}
        /\ Len(a) = Len(log) + 1 /\ Len(log) + 1 \notin DOMAIN log /\ a[Len(log) + 1] = e
        /\ \A i \in DOMAIN log : a[i] = log[i] /\ i < Len(log) + 1
    BY Appended
  <1>2. PICK n : n = Len(log) + 1
    OBVIOUS
  <1>3. /\ DOMAIN a = DOMAIN log \cup {n} /\ a[n] = e /\ a[n].id = t
        /\ \A i \in DOMAIN log : a[i] = log[i] /\ i < n /\ ~(n < i)
        /\ \A i, j \in DOMAIN log : i < j => ~(j <= i)
    <2>1. \A i \in DOMAIN log : i \in Nat /\ (i < n => ~(n < i))
      BY <1>1, <1>2, SMT
    <2>2. \A i, j \in DOMAIN log : i < j => ~(j <= i)
      BY <1>1, SMT
    <2> QED BY <1>1, <1>2, <2>1, <2>2 DEF Entry
  <1>4. \A k \in p.reads : Version(log, n, k, e.seen[k])
    BY <1>2, LastWriterVersion DEF Entry
  <1>5. GoodLog(a)
    BY AppendGood
  <1>6. \A i \in DOMAIN log : VersionAt(a, log[i].id) = i /\ VersionAt(log, log[i].id) = i
    BY <1>3, <1>5, VersionIsAt
  <1>7. \A l : VersionAt(l, NoWriter) = 0
    BY DEF VersionAt
  <1>8. ASSUME NEW u, NEW v, u # t, v # t, LogDepends(a, u, v) PROVE LogDepends(log, u, v)
    <2>1. PICK i \in DOMAIN a, j \in DOMAIN a : a[i].id = u /\ a[j].id = v /\ Before(a, u, i, j)
      BY <1>8 DEF LogDepends, Before
    <2>2. i \in DOMAIN log /\ j \in DOMAIN log /\ a[i] = log[i] /\ a[j] = log[j]
      BY <1>3, <1>8, <2>1
    <2>3. \A k \in DOMAIN log[i].seen : VersionAt(a, log[i].seen[k]) = VersionAt(log, log[i].seen[k])
      <3> SUFFICES ASSUME NEW k \in DOMAIN log[i].seen
                   PROVE  VersionAt(a, log[i].seen[k]) = VersionAt(log, log[i].seen[k])
        OBVIOUS
      <3>1. Version(log, i, k, log[i].seen[k])
        BY <2>2 DEF GoodLog
      <3> QED BY <1>6, <1>7, <3>1 DEF Version
    <2>4. Before(log, u, i, j)
      BY <2>1, <2>2, <2>3 DEF Before
    <2> QED BY <2>1, <2>2, <2>4 DEF LogDepends, Before
  <1>9. ASSUME NEW u, u # t, LogDepends(a, t, u) PROVE FALSE
    <2>1. PICK i \in DOMAIN a, j \in DOMAIN a : a[i].id = t /\ a[j].id = u /\ Before(a, t, i, j)
      BY <1>9 DEF LogDepends, Before
    <2>2. i = n /\ j \in DOMAIN log /\ a[j] = log[j]
      BY <1>3, <1>9, <2>1
    <2>3. CASE i < j
      BY <1>3, <2>2, <2>3
    <2>4. ASSUME NEW k \in DOMAIN log[j].seen, log[j].seen[k] = t PROVE FALSE
      <3>1. Version(log, j, k, t)
        BY <2>2, <2>4 DEF GoodLog
      <3> QED BY <3>1 DEF Version
    <2>5. ASSUME NEW k \in DOMAIN e.seen \cap log[j].writes, VersionAt(a, e.seen[k]) < j PROVE FALSE
      <3>1. Version(log, n, k, e.seen[k])
        BY <1>4 DEF Entry
      <3>2. ~NoneBefore(log, n, k)
        BY <1>3, <2>2 DEF NoneBefore
      <3>3. PICK h \in DOMAIN log : LastBefore(log, n, k, h) /\ e.seen[k] = log[h].id
        BY <3>1, <3>2 DEF Version
      <3>4. j <= h
        BY <1>3, <2>2, <3>3 DEF LastBefore
      <3>5. h < j
        BY <1>6, <2>5, <3>3
      <3> QED BY <1>3, <2>2, <3>4, <3>5
    <2> QED BY <1>3, <2>1, <2>2, <2>3, <2>4, <2>5 DEF Before
  <1>10. ASSUME NEW u, u # t, LogDepends(a, u, t) PROVE \E i \in DOMAIN log : log[i].id = u /\ Clash(log[i], p)
    <2>1. PICK i \in DOMAIN a, j \in DOMAIN a : a[i].id = u /\ a[j].id = t /\ Before(a, u, i, j)
      BY <1>10 DEF LogDepends, Before
    <2>2. i \in DOMAIN log /\ a[i] = log[i] /\ log[i].id = u /\ a[j] = e
      BY <1>3, <1>10, <2>1
    <2>3. CASE log[i].writes \cap e.writes # {}
      BY <2>2, <2>3 DEF Clash, Entry
    <2>4. ASSUME NEW k \in DOMAIN e.seen, e.seen[k] = u
          PROVE  \E h \in DOMAIN log : log[h].id = u /\ Clash(log[h], p)
      <3>1. Version(log, n, k, u) /\ u # NoWriter
        <4>1. k \in p.reads
          BY DEF Entry
        <4>2. Version(log, n, k, e.seen[k])
          BY <1>4, <4>1
        <4>3. log[i].id # NoWriter
          BY <2>2 DEF GoodLog
        <4> QED BY <2>2, <2>4, <4>2, <4>3
      <3>2. PICK h \in DOMAIN log : LastBefore(log, n, k, h) /\ log[h].id = u
        BY <3>1 DEF Version
      <3>3. k \in log[h].writes /\ k \in p.reads
        BY <3>2 DEF LastBefore, Entry
      <3> QED BY <3>2, <3>3 DEF Clash
    <2>5. CASE DOMAIN log[i].seen \cap e.writes # {}
      BY <2>2, <2>5 DEF Clash, Entry
    <2> QED BY <2>1, <2>2, <2>3, <2>4, <2>5 DEF Before
  <1> QED BY <1>8, <1>9, <1>10 DEF ComesLast

-----------------------------------------------------------------------------
(* What steps do to the order *)

\* What PrecAt depends on.
LEMMA PrecAtParts ==
    \A s, t, u : PrecAt(s, t, u) <=>
        \/ LogDepends(store[s].log, t, u)
        \/ /\ u \in Prepared(s)
           /\ \E i \in DOMAIN store[s].log : store[s].log[i].id = t /\ Clash(store[s].log[i], store[s].prepared[u])
  BY DEF PrecAt, DependsAt, LogDepends

\* A transaction that is decided has been begun.
LEMMA WinnerBegan ==
    ASSUME ProtoInv, SerialInv, NEW u \in Winners
    PROVE  /\ u \in TxnIds /\ u[1] \in Clients /\ u[2] \in 1 .. ntxns[u[1]] /\ u = <<u[1], u[2]>>
           /\ u \in DOMAIN before /\ before[u] \subseteq Winners
  <1>1. u \in TxnIds /\ u[2] <= ntxns[u[1]]
    BY DEF ProtoInv, DecidedInv, Winners
  <1>2. u[1] \in Clients /\ u[2] \in 1 .. MaxTxns /\ u = <<u[1], u[2]>>
    BY <1>1, SMT DEF TxnIds
  <1>3. ntxns[u[1]] \in 0 .. MaxTxns
    BY <1>2 DEF ProtoInv, TypeInv, ThreadTypes
  <1>4. u[2] \in 1 .. ntxns[u[1]]
    BY <1>1, <1>2, <1>3, StrongAssumption, SMT
  <1> QED BY <1>1, <1>2, <1>4 DEF SerialInv, BeforeInv

\* The order stays if nothing new comes before anything.
LEMMA OrderedStays ==
    ASSUME Ordered, Winners' = Winners, \A t, u \in Winners : Prec(t, u)' => Prec(t, u)
    PROVE  Ordered'
  BY DEF Ordered

\* What comes before what at a shard whose store does not change.
LEMMA PrecAtStays ==
    ASSUME NEW s, store'[s] = store[s], NEW t, NEW u
    PROVE  PrecAt(s, t, u)' <=> PrecAt(s, t, u)
  BY DEF PrecAt, DependsAt, Prepared

\* A step of a client or of the network that neither begins nor decides.
LEMMA SerialFrame ==
    ASSUME SerialInv, UNCHANGED <<store, decided, before, ntxns>>
    PROVE  SerialInv'
  <1>1. Winners' = Winners
    BY DEF Winners
  <1>2. \A t, u : Prec(t, u)' => Prec(t, u)
    BY PrecAtStays DEF Prec
  <1>3. Ordered'
    BY <1>1, <1>2, OrderedStays DEF SerialInv
  <1>4. BeforeInv'
    BY <1>1 DEF SerialInv, BeforeInv
  <1> QED BY <1>3, <1>4 DEF SerialInv

\* Begin: what has committed by then was decided.
LEMMA BeginSerial ==
    ASSUME ProtoInv, SerialInv, NEW c \in Clients, NEW w \in Workload, Begin(c, w)
    PROVE  SerialInv'
  <1>1. /\ UNCHANGED <<store, decided>> /\ ntxns' = [ntxns EXCEPT ![c] = ntxns[c] + 1]
        /\ before' = With(before, <<c, ntxns[c] + 1>>, Returned)
    BY DEF Begin, servers
  <1>2. PICK n : n = ntxns[c] + 1
    OBVIOUS
  <1>3. PICK returned : returned = Returned /\ returned \subseteq Winners
    <2>1. Returned \subseteq Winners
      BY DEF Returned, Winners
    <2> QED BY <2>1
  <1>4. /\ before'[<<c, n>>] = returned /\ DOMAIN before' = DOMAIN before \cup {<<c, n>>}
        /\ \A u \in DOMAIN before : u # <<c, n>> => before'[u] = before[u]
    BY <1>1, <1>2, <1>3 DEF With
  <1>5. Winners' = Winners
    BY <1>1 DEF Winners
  <1>6. ntxns \in [Clients -> 0 .. MaxTxns] /\ ntxns'[c] = n /\ \A d \in Clients : d # c => ntxns'[d] = ntxns[d]
    BY <1>1, <1>2 DEF ProtoInv, TypeInv, ThreadTypes
  <1>7. \A d \in Clients : \A m \in 1 .. ntxns[d] : <<d, m>> # <<c, n>>
    BY <1>2, <1>6, StrongAssumption, SMT
  <1>8. BeforeInv'
    <2> SUFFICES ASSUME NEW d \in Clients, NEW m \in 1 .. ntxns'[d]
                 PROVE  <<d, m>> \in DOMAIN before' /\ before'[<<d, m>>] \subseteq Winners
      BY <1>5 DEF BeforeInv
    <2>1. m \in 1 .. ntxns[d] \/ (d = c /\ m = n)
      BY <1>2, <1>6, StrongAssumption, SMT
    <2>2. CASE m \in 1 .. ntxns[d]
      <3>1. <<d, m>> \in DOMAIN before /\ before[<<d, m>>] \subseteq Winners /\ <<d, m>> # <<c, n>>
        BY <1>7, <2>2 DEF SerialInv, BeforeInv
      <3> QED BY <1>4, <3>1
    <2>3. CASE d = c /\ m = n
      BY <1>3, <1>4, <2>3
    <2> QED BY <2>1, <2>2, <2>3
  <1>9. \A t, u \in Winners : Prec(t, u)' => Prec(t, u)
    <2>1. ASSUME NEW u \in Winners PROVE before'[u] = before[u]
      <3>1. u \in DOMAIN before /\ u # <<c, n>>
        BY <1>7, WinnerBegan
      <3> QED BY <1>4, <3>1
    <2> QED BY <1>1, <2>1, PrecAtStays DEF Prec
  <1>10. Ordered'
    BY <1>5, <1>9, OrderedStays DEF SerialInv
  <1> QED BY <1>1, <1>8, <1>10 DEF SerialInv

\* The client decides: what it decides to commit comes before nothing that was
\* decided earlier.
LEMMA DecideSerial ==
    ASSUME ProtoInv, SerialInv, NEW c \in Clients,
           (\E wait \in BOOLEAN : DecideCommit(c, wait)) \/ DecideAbort(c)
    PROVE  SerialInv'
  <1>1. PICK outcome : /\ cpc[c] = "prepare" /\ Decide(c, outcome)
                       /\ UNCHANGED <<store, before, ntxns>>
    BY DEF DecideCommit, DecideAbort, servers
  <1>2. PICK t : t = TxnId(c) /\ t \notin DOMAIN decided
    BY <1>1 DEF ProtoInv, DecidedInv
  <1>3. Winners \subseteq Winners' /\ Winners' \subseteq Winners \cup {t}
    <2>1. decided' = With(decided, t, [outcome |-> outcome, at |-> participants[c]])
      BY <1>1, <1>2 DEF Decide
    <2> QED BY <1>2, <2>1 DEF With, Winners
  <1>4. \A s, u, v : PrecAt(s, u, v)' <=> PrecAt(s, u, v)
    BY <1>1, PrecAtStays
  <1>5. \A u, v : Prec(u, v)' => Prec(u, v)
    BY <1>1, <1>4 DEF Prec
  <1>6. ASSUME NEW u \in Winners PROVE ~Prec(t, u)
    <2>1. t \notin before[u]
      BY <1>2, WinnerBegan DEF Winners
    <2>2. ASSUME NEW s \in Shards PROVE ~PrecAt(s, t, u)
      <3>1. t \notin Logged(s)
        BY <1>2, LoggedIsDecided DEF DecidedAs
      <3>2. \A i \in DOMAIN store[s].log : store[s].log[i].id # t
        BY <3>1 DEF Logged
      <3> QED BY <3>2 DEF PrecAt, DependsAt
    <2> QED BY <2>1, <2>2 DEF Prec
  <1>7. Ordered'
    <2> SUFFICES ASSUME NEW T \in SUBSET (Winners'), T # {} PROVE \E u \in T : \A v \in T : ~Prec(v, u)'
      BY DEF Ordered
    <2>1. CASE T \ {t} = {}
      <3>1. T = {t}
        BY <2>1
      <3>2. ~Prec(t, t)
        BY DEF Prec
      <3> QED BY <1>5, <3>1, <3>2
    <2>2. CASE T \ {t} # {}
      <3>1. T \ {t} \in SUBSET Winners
        BY <1>3
      <3>2. PICK u \in T \ {t} : \A v \in T \ {t} : ~Prec(v, u)
        BY <2>2, <3>1 DEF SerialInv, Ordered
      <3>3. ~Prec(t, u)
        BY <1>6, <3>1
      <3> QED BY <1>5, <3>2, <3>3
    <2> QED BY <2>1, <2>2
  <1>8. BeforeInv'
    BY <1>1, <1>3 DEF SerialInv, BeforeInv
  <1> QED BY <1>1, <1>7, <1>8 DEF SerialInv

\* A request that a server executes and whose transaction is decided to commit
\* finds it prepared.
LEMMA WinnerHeld ==
    ASSUME ProtoInv, VoteInv, NEW c \in Clients, NEW s \in Shards, NEW r \in DOMAIN Sent(c, s), Executes(c, s, r),
           TxnId(c) \in Winners
    PROVE  TxnId(c) \in Prepared(s)
  <1>1. PICK t : t = TxnId(c) /\ t \in DOMAIN decided /\ decided[t].outcome = "commit"
    BY DEF Winners
  <1>2. SentInv(c, s) /\ DecisionInv(c, s) /\ LoggedInv(c, s)
    BY PairParts
  <1>3. Op(c, s, r) # "BATCH_GET" /\ Id(c, s, r) = t /\ Unexecuted(c, s, r)
    BY <1>1 DEF Executes
  <1>4. s \in participants[c]
    BY <1>1, <1>2, <1>3 DEF SentInv
  <1>5. \E outcome \in Outcomes : t \in DecidedAs(outcome, s)
    BY <1>1, <1>2, <1>4 DEF DecisionInv, Ending, EndTimers, Outcome, Outcomes
  <1>6. t \in DecidedAs("commit", s)
    BY <1>1, <1>5 DEF DecidedAs
  <1>7. t \notin Logged(s)
    <2> SUFFICES ASSUME t \in Logged(s) PROVE FALSE
      OBVIOUS
    <2>1. t[1] = c
      BY <1>1, SMT DEF TxnId
    <2>2. PICK i \in DOMAIN Sent(c, s) : Op(c, s, i) = "COMMIT" /\ Id(c, s, i) = t /\ ~Unexecuted(c, s, i)
      BY <1>2, <2>1 DEF LoggedInv
    <2>3. i \in Nat /\ r \in Nat /\ Last(c, s) \in Nat /\ ~(i > Last(c, s)) /\ r > Last(c, s)
      BY <1>3, <2>2, PairTypes
    <2>4. i < r
      BY <2>3, SMT
    <2> QED BY <1>2, <1>3, <2>2, <2>4 DEF SentInv, Ending
  <1> QED BY <1>1, <1>6, <1>7 DEF VoteInv, Holds

\* A step of a shard that logs nothing and prepares nothing that is decided.
Keeps(s) ==
    /\ store'[s].log = store[s].log
    /\ \A u \in Winners : u \in Prepared(s)' => u \in Prepared(s) /\ store'[s].prepared[u] = store[s].prepared[u]

\* A step of a shard that logs a prepared transaction.
PutsAt(s, t) ==
    /\ t \in Prepared(s) /\ t \in TxnIds /\ t \notin Logged(s) /\ t \notin Prepared(s)'
    /\ \A u \in Prepared(s)' : u \in Prepared(s) /\ store'[s].prepared[u] = store[s].prepared[u]
    /\ \E e : Entry(store[s].log, t, store[s].prepared[t], e) /\ Grows(store[s].log, e, store'[s].log)

StoreStep(s) ==
    /\ \A z \in Shards : z # s => store'[z] = store[z]
    /\ Keeps(s) \/ \E t : PutsAt(s, t)

\* What OCCStore::Commit of a stored procedure does.
LEMMA ProcedureEffect ==
    ASSUME NEW st, NEW t, IsStore(st), t \in DOMAIN st.prepared
    PROVE  /\ DOMAIN CommitProcedure(st, t).prepared = DOMAIN st.prepared \ {t}
           /\ \A u \in DOMAIN st.prepared \ {t} : CommitProcedure(st, t).prepared[u] = st.prepared[u]
           /\ \E e : Entry(st.log, t, st.prepared[t], e) /\ Grows(st.log, e, CommitProcedure(st, t).log)
  <1> DEFINE seen == BatchGet(st, st.prepared[t].reads)
             e == [id |-> t, writes |-> st.prepared[t].writes, seen |-> seen]
  <1>1. CommitProcedure(st, t) = [prepared |-> Without(st.prepared, t), log |-> Append(st.log, e)]
    BY DEF CommitProcedure, PutWrites
  <1>2. DOMAIN seen = st.prepared[t].reads /\ \A k \in st.prepared[t].reads : seen[k] = LastWriter(st.log, k)
    BY DEF BatchGet
  <1>3. PICK sn : sn = seen
    OBVIOUS
  <1>4. PICK f : f = [id |-> t, writes |-> st.prepared[t].writes, seen |-> sn]
    OBVIOUS
  <1>5. f.id = t /\ f.writes = st.prepared[t].writes /\ f.seen = sn
    BY <1>4, SMT
  <1>6. Entry(st.log, t, st.prepared[t], f)
    BY <1>2, <1>3, <1>5 DEF Entry
  <1>7. CommitProcedure(st, t).log = Append(st.log, f) /\ CommitProcedure(st, t).prepared = Without(st.prepared, t)
    <2>1. CommitProcedure(st, t) = [prepared |-> Without(st.prepared, t), log |-> Append(st.log, f)]
      BY <1>1, <1>3, <1>4
    <2> QED BY <2>1, SMT
  <1> QED BY <1>6, <1>7 DEF Grows, Without

\* What HandleRequest does to the store of its shard.
LEMMA RequestStore ==
    ASSUME StoredProcedure, IInv, ProtoInv, VoteInv, NEW c \in Clients, NEW s \in Shards,
           NEW r \in DOMAIN Sent(c, s), HandleRequest(c, s, r)
    PROVE  StoreStep(s)
  <1> DEFINE e == sent[c][s][r]
  <1>1. CASE UNCHANGED store
    BY <1>1 DEF StoreStep, Keeps, Prepared
  <1>2. CASE Executes(c, s, r)
    <2>1. PICK t : t = TxnId(c)
      OBVIOUS
    <2>2. store' = store \/ store' = [store EXCEPT ![s] = LeaderUpcall(s, e)]
      BY DEF HandleRequest, servers
    <2>3. CASE store' = [store EXCEPT ![s] = LeaderUpcall(s, e)]
      <3>0. IsStore(store[s])
        BY DEF IInv, StoreInv
      <3>1. store'[s] = LeaderUpcall(s, e) /\ \A z \in Shards : z # s => store'[z] = store[z]
        BY <2>3 DEF IInv, StoreInv
      <3>2. e.op = Op(c, s, r) /\ e.id = t /\ Op(c, s, r) \in Ops /\ Op(c, s, r) # "BATCH_GET"
        BY <1>2, <2>1, PairParts DEF Executes, SentInv, Op, Id
      <3>3. CASE Op(c, s, r) = "PREPARE"
        <4>1. store'[s] = Prepare(store[s], t, e.txn)
          BY <3>1, <3>2, <3>3 DEF LeaderUpcall
        <4>2. /\ store'[s].log = store[s].log
              /\ DOMAIN store'[s].prepared \subseteq DOMAIN store[s].prepared \cup {t}
              /\ \A u \in DOMAIN store[s].prepared : store'[s].prepared[u] = store[s].prepared[u]
          <5>1. PICK x : x = e.txn
            OBVIOUS
          <5>2. /\ Prepare(store[s], t, x).log = store[s].log
                /\ DOMAIN Prepare(store[s], t, x).prepared \subseteq DOMAIN store[s].prepared \cup {t}
                /\ \A u \in DOMAIN store[s].prepared : Prepare(store[s], t, x).prepared[u] = store[s].prepared[u]
            BY <3>0, PrepareEffect, SMT
          <5> QED BY <4>1, <5>1, <5>2
        <4>3. t \in Winners => t \in Prepared(s)
          BY <1>2, <2>1, WinnerHeld
        <4>4. Keeps(s)
          BY <4>2, <4>3 DEF Keeps, Prepared
        <4> QED BY <3>1, <4>4 DEF StoreStep
      <3>4. CASE Op(c, s, r) = "COMMIT" /\ t \in Prepared(s)
        <4>1. store'[s] = CommitProcedure(store[s], t)
          BY <3>1, <3>2, <3>4 DEF LeaderUpcall
        <4>2. /\ DOMAIN store'[s].prepared = DOMAIN store[s].prepared \ {t}
              /\ \A u \in DOMAIN store[s].prepared \ {t} : store'[s].prepared[u] = store[s].prepared[u]
              /\ \E x : Entry(store[s].log, t, store[s].prepared[t], x) /\ Grows(store[s].log, x, store'[s].log)
          <5>1. t \in DOMAIN store[s].prepared
            BY <3>4 DEF Prepared
          <5>2. /\ DOMAIN CommitProcedure(store[s], t).prepared = DOMAIN store[s].prepared \ {t}
                /\ \A u \in DOMAIN store[s].prepared \ {t} : CommitProcedure(store[s], t).prepared[u] = store[s].prepared[u]
                /\ \E x : Entry(store[s].log, t, store[s].prepared[t], x) /\ Grows(store[s].log, x, CommitProcedure(store[s], t).log)
            BY <3>0, <5>1, ProcedureEffect
          <5> QED BY <4>1, <5>2
        <4>3. t \in TxnIds /\ t \notin Logged(s)
          BY <3>4, LoggedIsDecided DEF ProtoInv, TypeInv, ServerTypes
        <4>4. PutsAt(s, t)
          BY <3>4, <4>2, <4>3 DEF PutsAt, Prepared
        <4> QED BY <3>1, <4>4 DEF StoreStep
      <3>5. CASE Op(c, s, r) = "COMMIT" /\ t \notin Prepared(s)
        <4>1. store'[s] = store[s]
          BY <3>1, <3>2, <3>5 DEF LeaderUpcall, CommitProcedure, Prepared
        <4>2. Keeps(s)
          BY <4>1 DEF Keeps, Prepared
        <4> QED BY <3>1, <4>2 DEF StoreStep
      <3>6. CASE Op(c, s, r) = "ABORT"
        <4>1. store'[s] = Abort(store[s], t)
          BY <3>1, <3>2, <3>6 DEF LeaderUpcall
        <4>2. /\ store'[s].log = store[s].log /\ DOMAIN store'[s].prepared = DOMAIN store[s].prepared \ {t}
              /\ \A u \in DOMAIN store[s].prepared \ {t} : store'[s].prepared[u] = store[s].prepared[u]
          <5>1. /\ Abort(store[s], t).log = store[s].log /\ DOMAIN Abort(store[s], t).prepared = DOMAIN store[s].prepared \ {t}
                /\ \A u \in DOMAIN store[s].prepared \ {t} : Abort(store[s], t).prepared[u] = store[s].prepared[u]
            BY <3>0, AbortEffect
          <5> QED BY <4>1, <5>1
        <4>3. Keeps(s)
          BY <4>2 DEF Keeps, Prepared
        <4> QED BY <3>1, <4>3 DEF StoreStep
      <3> QED BY <3>2, <3>3, <3>4, <3>5, <3>6 DEF Ops
    <2> QED BY <1>1, <2>2, <2>3
  <1> QED BY <1>1, <1>2, RequestEffect DEF Serves

\* A shard that logs nothing makes nothing come earlier.
LEMMA KeepsOrder ==
    ASSUME NEW s \in Shards, Keeps(s), NEW u \in Winners, NEW v \in Winners, PrecAt(s, u, v)'
    PROVE  PrecAt(s, u, v)
  <1>1. \/ LogDepends(store'[s].log, u, v)
        \/ /\ v \in Prepared(s)'
           /\ \E i \in DOMAIN store'[s].log :
                 store'[s].log[i].id = u /\ Clash(store'[s].log[i], store'[s].prepared[v])
    BY DEF PrecAt, DependsAt, LogDepends
  <1>2. /\ store'[s].log = store[s].log
        /\ v \in Prepared(s)' => v \in Prepared(s) /\ store'[s].prepared[v] = store[s].prepared[v]
    BY DEF Keeps
  <1> QED BY <1>1, <1>2, PrecAtParts

\* Prepared transactions that are compatible do not clash when one is logged.
LEMMA NoClash ==
    ASSUME NEW log, NEW prepared, NEW e, NEW t \in DOMAIN prepared, NEW v \in DOMAIN prepared, t # v,
           Compatible(prepared), Entry(log, t, prepared[t], e)
    PROVE  ~Clash(e, prepared[v])
  <1>1. /\ prepared[t].writes \cap (prepared[v].reads \cup prepared[v].writes) = {}
        /\ prepared[v].writes \cap (prepared[t].reads \cup prepared[t].writes) = {}
    BY DEF Compatible
  <1> QED BY <1>1 DEF Clash, Entry

\* Logging a prepared transaction makes nothing come earlier: it came after
\* what is logged of its keys already, and it clashes with nothing prepared.
LEMMA PutsOrder ==
    ASSUME IInv, ProtoInv, NEW s \in Shards, NEW t, PutsAt(s, t), GoodLog(store[s].log)
    PROVE  /\ GoodLog(store'[s].log)
           /\ \A u, v : u # v /\ PrecAt(s, u, v)' => PrecAt(s, u, v)
  <1>1. PICK log : log = store[s].log
    OBVIOUS
  <1>2. PICK a : a = store'[s].log
    OBVIOUS
  <1>3. PICK prepared : prepared = store[s].prepared
    OBVIOUS
  <1>4. PICK e : Entry(log, t, prepared[t], e) /\ Grows(log, e, a)
    BY <1>1, <1>2, <1>3 DEF PutsAt
  <1>5. /\ t \in DOMAIN prepared /\ t \notin Prepared(s)' /\ t \notin Logged(s) /\ t \in TxnIds
        /\ \A u \in Prepared(s)' : u \in DOMAIN prepared /\ store'[s].prepared[u] = prepared[u]
    BY <1>3 DEF PutsAt, Prepared
  <1>6. IsSeq(log) /\ GoodLog(log) /\ Compatible(prepared)
    BY <1>1, <1>3, PerShardInv DEF ProtoInv, TypeInv, ServerTypes
  <1>7. t # NoWriter
    <2>1. t \in Clients \X (1 .. MaxTxns)
      BY <1>5 DEF TxnIds
    <2> QED BY <2>1, SMT DEF NoWriter
  <1>8. \A i \in DOMAIN log : log[i].id # t
    BY <1>1, <1>5 DEF Logged
  <1>9. GoodLog(a)
    BY <1>4, <1>6, <1>7, <1>8, AppendGood
  <1>10. ComesLast(log, a, t, prepared[t])
    BY <1>4, <1>6, <1>7, <1>8, AppendDepends
  <1>11. \A u, v : PrecAt(s, u, v) <=>
            \/ LogDepends(log, u, v)
            \/ v \in DOMAIN prepared /\ \E i \in DOMAIN log : log[i].id = u /\ Clash(log[i], prepared[v])
    BY <1>1, <1>3, PrecAtParts DEF Prepared
  <1>12. ASSUME NEW u, NEW v, u # v, PrecAt(s, u, v)' PROVE PrecAt(s, u, v)
    <2>1. \/ LogDepends(a, u, v)
          \/ v \in Prepared(s)' /\ \E i \in DOMAIN a : a[i].id = u /\ Clash(a[i], store'[s].prepared[v])
      BY <1>2, <1>12 DEF PrecAt, DependsAt, LogDepends
    <2>2. CASE LogDepends(a, u, v)
      <3>1. CASE u # t /\ v # t
        BY <1>10, <1>11, <2>2, <3>1 DEF ComesLast
      <3>2. CASE v = t
        BY <1>5, <1>10, <1>11, <1>12, <2>2, <3>2 DEF ComesLast
      <3> QED BY <1>10, <1>12, <2>2, <3>1, <3>2 DEF ComesLast
    <2>3. ASSUME v \in Prepared(s)', NEW i \in DOMAIN a, a[i].id = u, Clash(a[i], store'[s].prepared[v])
          PROVE  PrecAt(s, u, v)
      <3>1. v \in DOMAIN prepared /\ Clash(a[i], prepared[v]) /\ v # t
        BY <1>5, <2>3
      <3>2. /\ IsSeq(a) /\ Len(log) \in Nat /\ DOMAIN log = 1 .. Len(log) /\ DOMAIN a = DOMAIN log \cup {Len(log) + 1}
            /\ Len(a) = Len(log) + 1 /\ Len(log) + 1 \notin DOMAIN log /\ a[Len(log) + 1] = e
            /\ \A j \in DOMAIN log : a[j] = log[j] /\ j < Len(log) + 1
        BY <1>4, <1>6, Appended
      <3>3. CASE i \in DOMAIN log
        BY <1>11, <2>3, <3>1, <3>2, <3>3
      <3>4. CASE a[i] = e
        <4>1. ~Clash(e, prepared[v])
          BY <1>4, <1>5, <1>6, <3>1, NoClash
        <4> QED BY <3>1, <3>4, <4>1
      <3> QED BY <3>2, <3>3, <3>4
    <2> QED BY <2>1, <2>2, <2>3
  <1> QED BY <1>2, <1>9, <1>12

\* What a server does keeps the order.
LEMMA StoreSerial ==
    ASSUME IInv, ProtoInv, SerialInv, NEW s \in Shards, StoreStep(s), UNCHANGED <<decided, before, ntxns>>
    PROVE  SerialInv'
  <1>1. Winners' = Winners
    BY DEF Winners
  <1>2. GoodLog(store[s].log)
    BY DEF SerialInv
  <1>3. /\ GoodLog(store'[s].log)
        /\ \A u, v \in Winners : u # v /\ PrecAt(s, u, v)' => PrecAt(s, u, v)
    <2>1. CASE Keeps(s)
      <3>1. store'[s].log = store[s].log
        BY <2>1 DEF Keeps
      <3> QED BY <1>2, <2>1, <3>1, KeepsOrder
    <2>2. ASSUME NEW t, PutsAt(s, t)
          PROVE  /\ GoodLog(store'[s].log)
                 /\ \A u, v : u # v /\ PrecAt(s, u, v)' => PrecAt(s, u, v)
      BY <1>2, <2>2, PutsOrder
    <2> QED BY <2>1, <2>2 DEF StoreStep
  <1>4. \A z \in Shards : z # s => store'[z] = store[z]
    BY DEF StoreStep
  <1>5. \A z \in Shards : GoodLog(store'[z].log)
    BY <1>3, <1>4 DEF SerialInv
  <1>6. \A u, v \in Winners : Prec(u, v)' => Prec(u, v)
    <2>1. \A z \in Shards : \A u, v \in Winners : u # v /\ PrecAt(z, u, v)' => PrecAt(z, u, v)
      BY <1>3, <1>4, PrecAtStays
    <2> QED BY <2>1 DEF Prec
  <1>7. Ordered'
    BY <1>1, <1>6, OrderedStays DEF SerialInv
  <1>8. BeforeInv'
    BY <1>1 DEF SerialInv, BeforeInv
  <1> QED BY <1>5, <1>7, <1>8 DEF SerialInv

-----------------------------------------------------------------------------
(* Every step *)

\* Nothing is decided at first.
LEMMA InitSerial == Init => SerialInv
  <1> SUFFICES ASSUME Init PROVE SerialInv
    OBVIOUS
  <1>1. Winners = {} /\ \A c \in Clients : ntxns[c] = 0
    BY SMT DEF Init, EmptyMap, Winners
  <1>2. BeforeInv
    <2>1. 1 .. 0 = {}
      BY SMT
    <2> QED BY <1>1, <2>1 DEF BeforeInv
  <1>3. Ordered
    BY <1>1 DEF Ordered
  <1>4. \A s \in Shards : GoodLog(store[s].log)
    <2>1. \A s \in Shards : store[s].log = <<>>
      BY SMT DEF Init, Empty
    <2>2. GoodLog(<<>>)
      BY EmptySeq DEF GoodLog, NoneBefore
    <2> QED BY <2>1, <2>2
  <1> QED BY <1>2, <1>3, <1>4 DEF SerialInv

\* The request a server reads was sent.
LEMMA HeadIsSent ==
    ASSUME ProtoInv, NEW c \in Clients, NEW s \in Shards
    PROVE  /\ requests[c][s] # <<>> => Head(requests[c][s]) \in DOMAIN Sent(c, s)
           /\ old[c][s] # <<>> => Head(old[c][s]) \in DOMAIN Sent(c, s)
  <1>1. requests[c][s] \in Seq(Nat) /\ old[c][s] \in Seq(Nat)
    BY DEF ProtoInv, TypeInv, NetworkTypes
  <1>2. IsSeq(requests[c][s]) /\ IsSeq(old[c][s])
    BY <1>1, SeqIsSeq
  <1>3. /\ requests[c][s] # <<>> => Head(requests[c][s]) \in Elems(requests[c][s])
        /\ old[c][s] # <<>> => Head(old[c][s]) \in Elems(old[c][s])
    BY <1>2, TailSeq
  <1>4. NetworkInv(c, s)
    BY PairParts
  <1> QED BY <1>3, <1>4 DEF NetworkInv, Copies, Elems

\* Every step keeps the order.
LEMMA NextSerial ==
    StoredProcedure /\ IInv /\ ProtoInv /\ VoteInv /\ SerialInv /\ [Next]_vars => SerialInv'
  <1> SUFFICES ASSUME StoredProcedure, IInv, ProtoInv, VoteInv, SerialInv, [Next]_vars PROVE SerialInv'
    OBVIOUS
  <1>1. CASE UNCHANGED vars
    BY <1>1, SerialFrame DEF vars, client, servers, history
  <1>2. ASSUME NEW c \in Clients, ClientNext(c) PROVE SerialInv'
    <2>1. CASE (\E wait \in BOOLEAN : DecideCommit(c, wait)) \/ DecideAbort(c)
      BY <2>1, DecideSerial
    <2>2. CASE \/ \E s \in Shards : ClientBatchGet(c, s)
               \/ ReadReturns(c) \/ EndReads(c) \/ StartPrepare(c) \/ RetryPrepare(c) \/ CommitReturns(c)
      <3>1. UNCHANGED <<store, decided, before, ntxns>>
        BY <2>2 DEF ClientBatchGet, ReadReturns, EndReads, StartPrepare, RetryPrepare, CommitReturns,
                    servers, history
      <3> QED BY <3>1, SerialFrame
    <2> QED BY <1>2, <2>1, <2>2, BeginSerial DEF ClientNext
  <1>3. ASSUME NEW c \in Clients, NEW s \in Shards,
               \/ RunTimer(c, s) \/ GetTimeout(c, s)
               \/ \E reqId \in pendingReqs[c][s] : ResendRequest(c, s, reqId) \/ ReadTimeout(c, s, reqId)
               \/ HandleReply(c, s)
               \/ \E n \in 0 .. Len(requests[c][s]) : Break(c, s, n)
        PROVE  SerialInv'
    <2>1. UNCHANGED <<store, decided, before, ntxns>>
      BY <1>3 DEF RunTimer, GetTimeout, ResendRequest, ReadTimeout, HandleReply, Break, client, servers, history
    <2> QED BY <2>1, SerialFrame
  <1>4. ASSUME NEW c \in Clients, NEW s \in Shards, ReceiveRequest(c, s) \/ ReceiveOld(c, s) PROVE SerialInv'
    <2>1. UNCHANGED <<decided, before, ntxns>>
      BY <1>4 DEF ReceiveRequest, ReceiveOld, client, history
    <2>2. PICK r \in DOMAIN Sent(c, s) : HandleRequest(c, s, r)
      BY <1>4, HeadIsSent DEF ReceiveRequest, ReceiveOld
    <2> QED BY <2>1, <2>2, RequestStore, StoreSerial
  <1> QED BY <1>1, <1>2, <1>3, <1>4 DEF Next

\* With stored procedures IInv, ProtoInv, VoteInv and SerialInv are inductive.
LEMMA SpecSerial == StoredProcedure => (Spec => [](ProtoInv /\ SerialInv))
  <1> SUFFICES ASSUME StoredProcedure PROVE Spec => [](ProtoInv /\ SerialInv)
    OBVIOUS
  <1>1. Spec => [](IInv /\ ProtoInv /\ VoteInv)
    BY SpecVote
  <1>2. IInv /\ ProtoInv /\ VoteInv /\ SerialInv /\ [Next]_vars => SerialInv'
    BY NextSerial
  <1> QED BY <1>1, <1>2, InitSerial, PTL DEF Spec

\* "Do OCC checks" (occstore.cc:39): stored procedures are strictly serializable.
\* However requests of several clients interleave at several shards, whatever is
\* lost or resent, some order of the committed transactions explains what each of
\* them read and puts a transaction that returned before another began first.
THEOREM StrongStrictlySerializable == StoredProcedure => (Spec => []StrictlySerializable)
  <1>1. ProtoInv /\ SerialInv => StrictlySerializable
    <2> SUFFICES ASSUME ProtoInv, SerialInv, NEW T \in SUBSET Committed, T # {}
                 PROVE  \E u \in T : \A t \in T : ~Precedes(t, u)
      BY DEF StrictlySerializable
    <2>1. Committed \subseteq Winners
      BY LoggedIsDecided DEF Committed, Winners, DecidedAs
    <2>2. T \in SUBSET Winners
      BY <2>1
    <2>3. PICK u \in T : \A t \in T : ~Prec(t, u)
      BY <2>2 DEF SerialInv, Ordered
    <2>4. \A t : Precedes(t, u) => Prec(t, u)
      BY DEF Precedes, Prec, PrecAt
    <2> QED BY <2>3, <2>4
  <1> QED BY <1>1, SpecSerial, PTL

\* A stored procedure commits only if no version it read has been overwritten:
\* its reads are made by Commit, under the locks that Prepare took.  Reads made
\* by the client have no such guarantee.
THEOREM StrongProcedureLosesNoUpdate == StoredProcedure => (Spec => []NoLostUpdate)
  <1>1. SerialInv => NoLostUpdate
    <2> SUFFICES ASSUME SerialInv, NEW s \in Shards, NEW i \in DOMAIN store[s].log, NEW j \in DOMAIN store[s].log,
                        NEW k \in DOMAIN store[s].log[j].seen, k \in store[s].log[i].writes, i < j
                 PROVE  i <= VersionAt(store[s].log, store[s].log[j].seen[k])
      BY DEF NoLostUpdate
    <2>1. PICK log : log = store[s].log /\ GoodLog(log)
      BY DEF SerialInv
    <2>2. Version(log, j, k, log[j].seen[k]) /\ ~NoneBefore(log, j, k)
      BY <2>1 DEF GoodLog, NoneBefore
    <2>3. PICK h \in DOMAIN log : LastBefore(log, j, k, h) /\ log[j].seen[k] = log[h].id
      BY <2>2 DEF Version
    <2>4. i <= h
      BY <2>1, <2>3 DEF LastBefore
    <2>5. VersionAt(log, log[h].id) = h
      BY <2>1, VersionIsAt
    <2> QED BY <2>1, <2>3, <2>4, <2>5
  <1> QED BY <1>1, SpecSerial, PTL
====

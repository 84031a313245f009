--------------------------- MODULE VRReplicaProofs ---------------------------
(***************************************************************************)
(* The view changes of VRReplica, for every number of replicas and views   *)
(* and whatever timers fire and connections break: no replica works in a   *)
(* view that a quorum has not reached, and a leader that counts a          *)
(* DOVIEWCHANGE quorum knows a STARTVIEWCHANGE of that view.               *)
(***************************************************************************)
EXTENDS VRReplica, FiniteSetTheorems, TLAPS

USE Zenon

\* The views the replicas R are in.
Views(R) == [q \in Replicas |-> R[q].view]

\* The replicas that have reached a view, by the views V they are in.
Reached(V, v) == {q \in Replicas : V[q] >= v}

Quorate(V, v) == v > 0 => Cardinality(Reached(V, v)) >= QuorumSize

\* A vote says the view its sender has reached; an answer to a state transfer and
\* a STARTVIEW say one that a quorum has reached.
MessageOK(V, q, m) ==
    /\ m.view \in Nat
    /\ m.type \in {"svc", "dvc"} => m.from = q /\ V[q] >= m.view
    /\ m.type \in {"st", "sv"} => Quorate(V, m.view)

Elems(ch) == {ch[i] : i \in DOMAIN ch}

IsSeq(ch) == ch \in Seq(Elems(ch))

NetOK(V, n) ==
    /\ n = [c \in Channels |-> n[c]]
    /\ \A c \in Channels : IsSeq(n[c]) /\ \A m \in Elems(n[c]) : MessageOK(V, c[1], m)

\* A quorum set holds one vote per view and sender, of others than its owner, for
\* views that both have reached.
VotesOK(V, r, set) ==
    /\ \A x \in set : x.view \in Nat /\ x.from \in Replicas \ {r} /\ V[x.from] >= x.view /\ V[r] >= x.view
    /\ \A x, y \in set : x.view = y.view /\ x.from = y.from => x = y

Fields == {"status", "view", "lastOp", "lastCommitted", "asked", "viewChangeTimeout", "nullCommitTimeout",
           "svc", "dvc", "lastReqId", "failed"}

IsMember(s) == s = [f \in Fields |-> s[f]]

MemberOK(V, r, s) ==
    /\ IsMember(s) /\ s.view \in Nat /\ V[r] = s.view
    /\ VotesOK(V, r, s.svc) /\ VotesOK(V, r, s.dvc)
    /\ s.status = "normal" => Quorate(V, s.view)

RepOK(V, R) == R = [r \in Replicas |-> R[r]] /\ \A r \in Replicas : MemberOK(V, r, R[r])

\* The inductive invariant for the quorums of the views.
ViewInv == RepOK(Views(rep), rep) /\ NetOK(Views(rep), net)

\* A replica has a STARTVIEWCHANGE of a view, or has no use for one.
Informed(s, v) == s.view > v \/ (s.view = v /\ s.status # "viewchange") \/ GetMessages(s.svc, v) # {}

Starts(m, v) == m.type = "svc" /\ m.view = v

\* It has one, or one is on its way in a connection.
Heard(s, ch, v) == Informed(s, v) \/ \E j \in DOMAIN ch : Starts(ch[j], v)

\* A DOVIEWCHANGE comes after a STARTVIEWCHANGE.
InOrder(s, ch) ==
    \A i \in DOMAIN ch : ch[i].type = "dvc" =>
        Informed(s, ch[i].view) \/ \E j \in DOMAIN ch : j < i /\ Starts(ch[j], ch[i].view)

Told(R, n, q, p) ==
    R[p].failed = "no" =>
        /\ R[q].status = "viewchange" => Heard(R[p], n[<<q, p, "out">>], R[q].view)
        /\ InOrder(R[p], n[<<q, p, "out">>])

\* The inductive invariant for the starters of the views: as long as no
\* connection breaks, whoever is in a view change has told everyone.
StarterInv ==
    broken \in Nat /\ (broken = 0 => \A q, p \in Replicas : q # p => Told(rep, net, q, p))

-----------------------------------------------------------------------------
(* Connections *)

\* Append leaves the messages where they are and adds one at the end.
LEMMA AppendSeq ==
    ASSUME NEW ch, IsSeq(ch), NEW m
    PROVE  /\ IsSeq(Append(ch, m)) /\ Elems(Append(ch, m)) = Elems(ch) \cup {m}
           /\ Len(ch) \in Nat /\ DOMAIN ch = 1 .. Len(ch) /\ DOMAIN Append(ch, m) = 1 .. Len(ch) + 1
           /\ \A i \in DOMAIN ch : Append(ch, m)[i] = ch[i]
           /\ Append(ch, m)[Len(ch) + 1] = m
  <1> DEFINE T == Elems(ch) \cup {m}
             a == Append(ch, m)
  <1>1. ch \in Seq(T)
    BY SMT DEF IsSeq
  <1>2. /\ a \in Seq(T) /\ Len(a) = Len(ch) + 1 /\ Len(ch) \in Nat /\ DOMAIN ch = 1 .. Len(ch)
        /\ DOMAIN a = 1 .. Len(ch) + 1
        /\ \A i \in 1 .. Len(ch) : a[i] = ch[i]
        /\ a[Len(ch) + 1] = m
    BY <1>1, SMT
  <1> HIDE DEF a
  <1>3. \A i \in DOMAIN a : i \in DOMAIN ch \/ i = Len(ch) + 1
    BY <1>2, SMT
  <1>4. Len(ch) + 1 \in DOMAIN a /\ \A i \in DOMAIN ch : i \in DOMAIN a
    BY <1>2, SMT
  <1>5. Elems(a) = T
    BY <1>2, <1>3, <1>4 DEF Elems
  <1> QED BY <1>2, <1>5, SMT DEF IsSeq, a

\* Tail drops the oldest message.
LEMMA TailSeq ==
    ASSUME NEW ch, IsSeq(ch), ch # <<>>
    PROVE  /\ IsSeq(Tail(ch)) /\ Elems(Tail(ch)) \subseteq Elems(ch) /\ Head(ch) \in Elems(ch)
           /\ Len(ch) \in Nat /\ Len(ch) > 0 /\ DOMAIN ch = 1 .. Len(ch) /\ DOMAIN Tail(ch) = 1 .. Len(ch) - 1
           /\ Head(ch) = ch[1] /\ \A i \in DOMAIN Tail(ch) : Tail(ch)[i] = ch[i + 1]
  <1> DEFINE a == Tail(ch)
  <1>1. ch \in Seq(Elems(ch))
    BY SMT DEF IsSeq
  <1>2. /\ a \in Seq(Elems(ch)) /\ Len(a) = Len(ch) - 1 /\ Len(ch) \in Nat /\ DOMAIN ch = 1 .. Len(ch)
        /\ Len(ch) > 0 /\ DOMAIN a = 1 .. Len(ch) - 1 /\ Head(ch) = ch[1]
        /\ \A i \in 1 .. Len(ch) - 1 : a[i] = ch[i + 1]
    BY <1>1, SMT
  <1> HIDE DEF a
  <1>3. 1 \in DOMAIN ch /\ \A i \in DOMAIN a : i + 1 \in DOMAIN ch /\ a[i] = ch[i + 1]
    BY <1>2, SMT
  <1>4. Elems(a) \subseteq Elems(ch) /\ ch[1] \in Elems(ch)
    <2>1. \A x \in Elems(a) : x \in Elems(ch)
      BY <1>3 DEF Elems
    <2> QED BY <1>3, <2>1 DEF Elems
  <1>5. a \in Seq(Elems(a))
    <2>1. \A i \in 1 .. Len(a) : a[i] \in Elems(a)
      BY <1>2 DEF Elems
    <2> QED BY <1>2, <2>1, SMT
  <1> QED BY <1>2, <1>4, <1>5, SMT DEF IsSeq, a

\* Nothing is in an empty connection.
LEMMA EmptySeq == IsSeq(<<>>) /\ Elems(<<>>) = {} /\ DOMAIN <<>> = {}
  BY SMT DEF IsSeq, Elems

-----------------------------------------------------------------------------
(* Quorums *)

\* More replicas have reached a view when none has gone back.
LEMMA QuorateStays ==
    ASSUME F \in Nat, NEW V, NEW W, \A q \in Replicas : V[q] \in Nat /\ W[q] \in Nat /\ V[q] <= W[q],
           NEW v \in Nat, Quorate(V, v)
    PROVE  Quorate(W, v)
  <1>1. IsFiniteSet(Replicas)
    BY FS_Interval, SMT DEF Replicas, N
  <1>2. Reached(V, v) \subseteq Reached(W, v) /\ Reached(W, v) \subseteq Replicas
    BY SMT DEF Reached
  <1>3. Cardinality(Reached(V, v)) <= Cardinality(Reached(W, v))
        /\ Cardinality(Reached(V, v)) \in Nat /\ Cardinality(Reached(W, v)) \in Nat
    BY <1>1, <1>2, FS_Subset, FS_CardinalityType, SMT
  <1> QED BY <1>3, SMT DEF Quorate, QuorumSize

\* F votes for a view, and the replica that counts them, are a quorum that has
\* reached it.
LEMMA VotesQuorum ==
    ASSUME F \in Nat, NEW V, NEW r \in Replicas, NEW set, VotesOK(V, r, set), NEW v \in Nat, V[r] >= v,
           HasQuorum(set, v)
    PROVE  Quorate(V, v)
  <1> DEFINE S == GetMessages(set, v)
             T == {x.from : x \in S}
             f == [x \in S |-> x.from]
  <1>1. IsFiniteSet(Replicas)
    BY FS_Interval, SMT DEF Replicas, N
  <1>2. S \subseteq set /\ \A x \in S : x.view = v
    BY SMT DEF GetMessages
  <1>3. T \subseteq Reached(V, v) \ {r} /\ Reached(V, v) \subseteq Replicas /\ r \in Reached(V, v)
    BY <1>2, SMT DEF VotesOK, Reached
  <1>4. f \in Injection(S, T)
    BY <1>2, SMT DEF VotesOK, Injection, IsInjective
  <1>5. IsFiniteSet(T) /\ IsFiniteSet(T \cup {r}) /\ Cardinality(T) \in Nat
        /\ Cardinality(T \cup {r}) = Cardinality(T) + 1
    BY <1>1, <1>3, FS_Subset, FS_AddElement, FS_CardinalityType
  <1>6. IsFiniteSet(S) /\ Cardinality(S) <= Cardinality(T) /\ Cardinality(S) \in Nat
    BY <1>4, <1>5, FS_Injection, FS_CardinalityType
  <1>7. IsFiniteSet(Reached(V, v)) /\ Cardinality(T \cup {r}) <= Cardinality(Reached(V, v))
        /\ Cardinality(Reached(V, v)) \in Nat
    <2>1. T \cup {r} \subseteq Reached(V, v)
      BY <1>3
    <2> QED BY <1>1, <1>3, <2>1, FS_Subset, FS_CardinalityType
  <1>8. Cardinality(S) >= QuorumSize - 1
    BY DEF HasQuorum
  <1> HIDE DEF S, T
  <1> QED BY <1>5, <1>6, <1>7, <1>8, SMT DEF Quorate, QuorumSize

-----------------------------------------------------------------------------
(* What the transport does to the messages *)

\* The connections between two replicas.
LEMMA Connection ==
    ASSUME NEW q \in Replicas, NEW p \in Replicas, q # p, NEW k \in {"out", "re"}
    PROVE  /\ <<q, p, k>> \in Channels
           /\ <<q, p, k>>[1] = q /\ <<q, p, k>>[2] = p /\ <<q, p, k>>[3] = k
  BY SMT DEF Channels

\* A message stays true when no replica goes back.
LEMMA NetStays ==
    ASSUME F \in Nat, NEW V, NEW W, \A q \in Replicas : V[q] \in Nat /\ W[q] \in Nat /\ V[q] <= W[q],
           NEW n, NetOK(V, n)
    PROVE  NetOK(W, n)
  <1>1. ASSUME NEW c \in Channels, NEW m \in Elems(n[c]) PROVE MessageOK(W, c[1], m)
    <2>0. c[1] \in Replicas
      BY SMT DEF Channels
    <2>1. MessageOK(V, c[1], m) /\ c[1] \in Replicas
      BY <1>1, <2>0 DEF NetOK
    <2>2. V[c[1]] \in Nat /\ W[c[1]] \in Nat /\ V[c[1]] <= W[c[1]] /\ m.view \in Nat
      BY <2>1 DEF MessageOK
    <2>3. V[c[1]] >= m.view => W[c[1]] >= m.view
      BY <2>2, SMT
    <2>4. Quorate(V, m.view) => Quorate(W, m.view)
      BY <2>2, QuorateStays
    <2> QED BY <2>1, <2>3, <2>4 DEF MessageOK
  <1> QED BY <1>1 DEF NetOK

\* Taking the oldest message off a connection.
LEMMA RestOK ==
    ASSUME NEW V, NetOK(V, net), NEW c \in Channels, net[c] # <<>>
    PROVE  NetOK(V, Rest(c)) /\ MessageOK(V, c[1], Head(net[c]))
  <1>1. IsSeq(net[c]) /\ \A m \in Elems(net[c]) : MessageOK(V, c[1], m)
    BY DEF NetOK
  <1>2. IsSeq(Tail(net[c])) /\ Elems(Tail(net[c])) \subseteq Elems(net[c]) /\ Head(net[c]) \in Elems(net[c])
    BY <1>1, TailSeq, SMT
  <1>3. /\ Rest(c) = [d \in Channels |-> Rest(c)[d]] /\ Rest(c)[c] = Tail(net[c])
        /\ \A d \in Channels : d # c => Rest(c)[d] = net[d]
    BY DEF NetOK, Rest
  <1>4. \A d \in Channels : IsSeq(Rest(c)[d]) /\ \A m \in Elems(Rest(c)[d]) : MessageOK(V, d[1], m)
    BY <1>1, <1>2, <1>3 DEF NetOK
  <1> QED BY <1>1, <1>2, <1>3, <1>4 DEF NetOK

\* A message more at the end of some of a replica's connections.
LEMMA AppendOK ==
    ASSUME NEW V, NEW n, NEW n2, NetOK(V, n), n2 = [c \in Channels |-> n2[c]], NEW src, NEW m, MessageOK(V, src, m),
           \A c \in Channels : n2[c] = n[c] \/ (c[1] = src /\ n2[c] = Append(n[c], m))
    PROVE  NetOK(V, n2)
  <1>1. ASSUME NEW c \in Channels PROVE IsSeq(n2[c]) /\ \A x \in Elems(n2[c]) : MessageOK(V, c[1], x)
    <2>1. IsSeq(n[c]) /\ \A x \in Elems(n[c]) : MessageOK(V, c[1], x)
      BY SMT DEF NetOK
    <2>2. IsSeq(Append(n[c], m)) /\ Elems(Append(n[c], m)) = Elems(n[c]) \cup {m}
      BY <2>1, AppendSeq
    <2>3. CASE n2[c] = n[c]
      BY <2>1, <2>3, SMT
    <2>4. CASE c[1] = src /\ n2[c] = Append(n[c], m)
      <3>1. \A x \in Elems(n[c]) \cup {m} : MessageOK(V, c[1], x)
        BY <2>1, <2>4
      <3> QED BY <2>2, <2>4, <3>1
    <2> QED BY <2>3, <2>4, SMT
  <1> QED BY <1>1, SMT DEF NetOK

\* SendMessage adds a message to one connection, or to none.
LEMMA SendOK ==
    ASSUME NEW V, NEW n, NetOK(V, n), NEW q \in Replicas, NEW p \in Replicas, q # p, NEW k \in {"out", "re"},
           NEW m, MessageOK(V, q, m)
    PROVE  NetOK(V, Send(n, q, p, k, m))
  <1> DEFINE n2 == Send(n, q, p, k, m)
  <1>1. <<q, p, k>> \in Channels /\ <<q, p, k>>[1] = q
    BY Connection
  <1>2. n2 = n \/ n2 = [n EXCEPT ![<<q, p, k>>] = Append(@, m)]
    BY SMT DEF Send
  <1>3. n = [c \in Channels |-> n[c]]
    BY SMT DEF NetOK
  <1> HIDE DEF n2
  <1>4. /\ n2 = [c \in Channels |-> n2[c]]
        /\ \A c \in Channels : n2[c] = n[c] \/ (c[1] = q /\ n2[c] = Append(n[c], m))
    BY <1>1, <1>2, <1>3
  <1>5. NetOK(V, n2)
    BY <1>4, AppendOK, SMT
  <1> QED BY <1>5, SMT DEF n2

\* SendMessageToAll adds a message to the connections the replica opened.
LEMMA SendToAllOK ==
    ASSUME NEW V, NEW n, NetOK(V, n), NEW q \in Replicas, NEW m, MessageOK(V, q, m)
    PROVE  NetOK(V, SendToAll(n, q, m))
  <1> DEFINE n2 == SendToAll(n, q, m)
  <1>1. /\ n2 = [c \in Channels |-> n2[c]]
        /\ \A c \in Channels : n2[c] = n[c] \/ (c[1] = q /\ n2[c] = Append(n[c], m))
    BY DEF SendToAll
  <1> HIDE DEF n2
  <1>2. NetOK(V, n2)
    BY <1>1, AppendOK, SMT
  <1> QED BY <1>2 DEF n2

\* Connections that are closed lose what is in them.
LEMMA CutOK ==
    ASSUME NEW V, NEW n, NEW n2, NetOK(V, n), n2 = [c \in Channels |-> n2[c]],
           \A c \in Channels : n2[c] = n[c] \/ n2[c] = <<>>
    PROVE  NetOK(V, n2)
  <1>1. ASSUME NEW c \in Channels PROVE IsSeq(n2[c]) /\ \A x \in Elems(n2[c]) : MessageOK(V, c[1], x)
    <2>1. IsSeq(n[c]) /\ \A x \in Elems(n[c]) : MessageOK(V, c[1], x)
      BY DEF NetOK
    <2> QED BY <2>1, EmptySeq
  <1> QED BY <1>1 DEF NetOK

-----------------------------------------------------------------------------
(* What a step does to the members of a replica *)

\* One replica's members change and it does not go back to an earlier view.
Puts(r, s) == rep' = [rep EXCEPT ![r] = s] /\ IsMember(s) /\ s.view \in Nat /\ rep[r].view <= s.view

\* What holds of views, votes and messages still holds then, and what remains to
\* be shown is that the replica's own members and the new messages are right.
LEMMA PutsOK ==
    ASSUME F \in Nat, ViewInv, NEW r \in Replicas, NEW s, Puts(r, s), NEW W, W = Views(rep')
    PROVE  /\ W[r] = s.view /\ NetOK(W, net)
           /\ \A set : VotesOK(Views(rep), r, set) => VotesOK(W, r, set)
           /\ \A v \in Nat : Quorate(Views(rep), v) => Quorate(W, v)
           /\ MemberOK(W, r, s) => RepOK(W, rep')
  <1> DEFINE V == Views(rep)
  <1>1. \A q \in Replicas : rep[q].view \in Nat /\ V[q] = rep[q].view /\ MemberOK(V, q, rep[q])
    BY SMT DEF ViewInv, RepOK, MemberOK, Views
  <1>2. /\ rep' = [q \in Replicas |-> rep'[q]] /\ rep'[r] = s /\ \A q \in Replicas : q # r => rep'[q] = rep[q]
    BY SMT DEF ViewInv, RepOK, Puts
  <1>3. \A q \in Replicas : W[q] = rep'[q].view
    BY DEF Views
  <1>4. \A q \in Replicas : V[q] \in Nat /\ W[q] \in Nat /\ V[q] <= W[q]
    <2>1. s.view \in Nat /\ rep[r].view <= s.view /\ \A v \in Nat : v <= v
      BY SMT DEF Puts
    <2> HIDE DEF V
    <2> SUFFICES ASSUME NEW q \in Replicas PROVE V[q] \in Nat /\ W[q] \in Nat /\ V[q] <= W[q]
      BY SMT
    <2>2. CASE q = r
      BY <1>1, <1>2, <1>3, <2>1, <2>2
    <2>3. CASE q # r
      BY <1>1, <1>2, <1>3, <2>1, <2>3
    <2> QED BY <2>2, <2>3, SMT
  <1>5. NetOK(V, net)
    BY SMT DEF ViewInv
  <1> HIDE DEF V
  <1>6. ASSUME NEW q \in Replicas, NEW set, VotesOK(V, q, set) PROVE VotesOK(W, q, set)
    BY <1>4, <1>6, SMT DEF VotesOK
  <1>7. ASSUME NEW v \in Nat, Quorate(V, v) PROVE Quorate(W, v)
    BY <1>4, <1>7, QuorateStays
  <1>8. NetOK(W, net)
    BY <1>4, <1>5, NetStays
  <1>9. ASSUME MemberOK(W, r, s), NEW q \in Replicas PROVE MemberOK(W, q, rep'[q])
    <2>1. CASE q = r
      BY <1>2, <1>9, <2>1
    <2>2. CASE q # r
      <3>1. rep'[q] = rep[q] /\ MemberOK(V, q, rep[q]) /\ W[q] = rep[q].view
        BY <1>1, <1>2, <1>3, <2>2
      <3> QED BY <1>6, <1>7, <3>1 DEF MemberOK
    <2> QED BY <2>1, <2>2
  <1> QED BY <1>2, <1>3, <1>6, <1>7, <1>8, <1>9 DEF RepOK, V

\* The members of a replica.
LEMMA MemberFacts ==
    ASSUME ViewInv, NEW r \in Replicas
    PROVE  /\ IsMember(rep[r]) /\ rep[r].view \in Nat /\ rep[r].view <= rep[r].view
           /\ VotesOK(Views(rep), r, rep[r].svc) /\ VotesOK(Views(rep), r, rep[r].dvc)
           /\ rep[r].status = "normal" => Quorate(Views(rep), rep[r].view)
           /\ Views(rep)[r] = rep[r].view
           /\ rep = [q \in Replicas |-> rep[q]] /\ net = [c \in Channels |-> net[c]]
           /\ NetOK(Views(rep), net)
  <1>1. MemberOK(Views(rep), r, rep[r]) /\ rep = [q \in Replicas |-> rep[q]] /\ NetOK(Views(rep), net)
    BY DEF ViewInv, RepOK
  <1>2. rep[r].view \in Nat
    BY <1>1 DEF MemberOK
  <1>3. rep[r].view <= rep[r].view
    BY <1>2, SMT
  <1> QED BY <1>1, <1>3 DEF MemberOK, NetOK

\* Members that differ in neither the view nor the votes.
SameView(s, s2) ==
    IsMember(s2) /\ s2.view = s.view /\ s2.status = s.status /\ s2.svc = s.svc /\ s2.dvc = s.dvc

\* They are right, and so are the messages.
LEMMA SameViewOK ==
    ASSUME F \in Nat, ViewInv, NEW r \in Replicas, NEW s, rep' = [rep EXCEPT ![r] = s], SameView(rep[r], s)
    PROVE  RepOK(Views(rep'), rep') /\ NetOK(Views(rep'), net) /\ Views(rep') = Views(rep)
  <1>1. Puts(r, s)
    BY MemberFacts DEF Puts, SameView
  <1>2. PICK W : W = Views(rep')
    BY SMT
  <1>3. /\ W[r] = s.view /\ NetOK(W, net)
        /\ \A set : VotesOK(Views(rep), r, set) => VotesOK(W, r, set)
        /\ \A v \in Nat : Quorate(Views(rep), v) => Quorate(W, v)
        /\ MemberOK(W, r, s) => RepOK(W, rep')
    BY <1>1, <1>2, PutsOK
  <1>4. MemberOK(W, r, s)
    BY <1>3, MemberFacts DEF MemberOK, SameView
  <1>5. Views(rep') = Views(rep)
    BY MemberFacts DEF Views, SameView
  <1> QED BY <1>2, <1>3, <1>4, <1>5

\* A replica enters a view that a quorum has reached.
LEMMA EnterOK ==
    ASSUME F \in Nat, ViewInv, NEW r \in Replicas, NEW s, Puts(r, s), s.svc = {}, s.dvc = {},
           NEW W, W = Views(rep'), Quorate(W, s.view)
    PROVE  RepOK(W, rep') /\ NetOK(W, net)
  <1>1. /\ W[r] = s.view /\ NetOK(W, net)
        /\ MemberOK(W, r, s) => RepOK(W, rep')
    BY PutsOK, SMT
  <1>2. VotesOK(W, r, {})
    BY DEF VotesOK
  <1>3. IsMember(s) /\ s.view \in Nat
    BY SMT DEF Puts
  <1> QED BY <1>1, <1>2, <1>3 DEF MemberOK

\* What EnterView does to the members.
LEMMA EnterViewFacts ==
    ASSUME NEW r, NEW s, IsMember(s), NEW v
    PROVE  LET e == EnterView(r, s, v)
           IN  IsMember(e) /\ e.view = v /\ e.status = "normal" /\ e.svc = {} /\ e.dvc = {} /\ e.failed = s.failed
  <1> DEFINE Entered(a, b) == [s EXCEPT !.view = v, !.status = "normal", !.viewChangeTimeout = a,
                                        !.nullCommitTimeout = b, !.svc = {}, !.dvc = {}]
  <1>1. ASSUME NEW a, NEW b
        PROVE  /\ Entered(a, b).view = v /\ Entered(a, b).status = "normal"
               /\ Entered(a, b).svc = {} /\ Entered(a, b).dvc = {} /\ Entered(a, b).failed = s.failed
    BY SMT DEF IsMember, Fields
  <1>2. ASSUME NEW a, NEW b PROVE IsMember(Entered(a, b))
    BY DEF IsMember
  <1>3. PICK a, b : EnterView(r, s, v) = Entered(a, b)
    BY DEF EnterView
  <1> HIDE DEF Entered
  <1> QED BY <1>1, <1>2, <1>3

\* What StartViewChange does to the members.
LEMMA StartFacts ==
    ASSUME NEW s, IsMember(s), NEW v
    PROVE  LET e == StartViewChange(s, v)
           IN  /\ IsMember(e) /\ e.view = v /\ e.status = "viewchange" /\ e.svc = s.svc /\ e.dvc = s.dvc
               /\ e.failed = s.failed
  <1> DEFINE Started(a, b) == [s EXCEPT !.view = v, !.status = "viewchange", !.viewChangeTimeout = a,
                                        !.nullCommitTimeout = b]
  <1>1. ASSUME NEW a, NEW b
        PROVE  /\ Started(a, b).view = v /\ Started(a, b).status = "viewchange"
               /\ Started(a, b).svc = s.svc /\ Started(a, b).dvc = s.dvc /\ Started(a, b).failed = s.failed
    BY SMT DEF IsMember, Fields
  <1>2. ASSUME NEW a, NEW b PROVE IsMember(Started(a, b))
    BY DEF IsMember
  <1>3. StartViewChange(s, v) = Started(TRUE, FALSE)
    BY DEF StartViewChange
  <1> HIDE DEF Started
  <1> QED BY <1>1, <1>2, <1>3

\* A replica that does not ignore a vote is in the view change of it afterwards.
LEMMA JoinFacts ==
    ASSUME NEW s, IsMember(s), s.view \in Nat, NEW m, m.view \in Nat, ~Old(s, m)
    PROVE  /\ IsMember(Join(s, m)) /\ Join(s, m).view = m.view /\ s.view <= m.view
           /\ Join(s, m).status = "viewchange" /\ Join(s, m).svc = s.svc /\ Join(s, m).dvc = s.dvc
           /\ Join(s, m).failed = s.failed
           /\ s.view < m.view \/ (s.view = m.view /\ s.status = "viewchange" /\ ~Joins(s, m))
  <1>1. s.view < m.view \/ (s.view = m.view /\ s.status = "viewchange")
    BY SMT DEF Old
  <1>2. s.view <= m.view
    BY <1>1, SMT
  <1>3. CASE Joins(s, m)
    <2>1. s.view < m.view
      BY <1>1, <1>3, SMT DEF Joins
    <2>2. Join(s, m) = StartViewChange(s, m.view)
      BY <1>3 DEF Join
    <2> QED BY <1>2, <2>1, <2>2, StartFacts, SMT
  <1>4. CASE ~Joins(s, m)
    <2>1. s.status = "viewchange" /\ s.view = m.view
      BY <1>1, <1>4, SMT DEF Joins
    <2>2. Join(s, m) = s
      BY <1>4 DEF Join
    <2> QED BY <1>2, <1>4, <2>1, <2>2
  <1> QED BY <1>3, <1>4

\* A vote of another replica that has reached its view is added.
LEMMA AddOK ==
    ASSUME NEW W, NEW r, NEW set, VotesOK(W, r, set), NEW m, m.view \in Nat, m.from \in Replicas \ {r},
           W[m.from] >= m.view, W[r] >= m.view
    PROVE  VotesOK(W, r, Add(set, m))
  <1>1. \A x \in Add(set, m) : x = m \/ (x \in set /\ (x.view # m.view \/ x.from # m.from))
    BY DEF Add
  <1> QED BY <1>1 DEF VotesOK

\* The STARTVIEWCHANGE of a replica that has reached the view is a right message.
LEMMA JoinMsgsOK ==
    ASSUME NEW W, NEW n, NetOK(W, n), NEW r \in Replicas, NEW m, m.view \in Nat, W[r] >= m.view
    PROVE  NetOK(W, JoinMsgs(n, r, m))
  <1>1. MessageOK(W, r, StartViewChangeMsg(r, m.view))
    BY SMT DEF MessageOK, StartViewChangeMsg
  <1>2. NetOK(W, SendToAll(n, r, StartViewChangeMsg(r, m.view)))
    BY <1>1, SendToAllOK
  <1> QED BY <1>2 DEF JoinMsgs

\* The connection a message came on is left with the others.
LEMMA RestLater ==
    ASSUME NEW W, NetOK(W, net), NEW q \in Replicas, NEW r \in Replicas, q # r, NEW k \in {"out", "re"},
           net[<<q, r, k>>] # <<>>
    PROVE  NetOK(W, Rest(<<q, r, k>>)) /\ MessageOK(W, q, Head(net[<<q, r, k>>]))
  <1>1. <<q, r, k>> \in Channels /\ <<q, r, k>>[1] = q
    BY Connection
  <1> QED BY <1>1, RestOK

-----------------------------------------------------------------------------
(* Every step keeps the quorums *)

\* ViewInv with the views W after a step.
LEMMA ViewInvAfter ==
    ASSUME NEW W, W = Views(rep'), RepOK(W, rep'), NetOK(W, net')
    PROVE  ViewInv'
  BY DEF ViewInv

\* RequestStateTransfer notes what it asks for.
LEMMA AskedMembers ==
    ASSUME ViewInv, NEW r \in Replicas, NEW c, RequestStateTransfer(r, c)
    PROVE  \E s : rep' = [rep EXCEPT ![r] = s] /\ SameView(rep[r], s) /\ s.failed = rep[r].failed
  <1> DEFINE s == [rep[r] EXCEPT !.asked = <<rep[r].view, rep[r].lastCommitted>>]
  <1>1. IsMember(rep[r]) /\ rep = [p \in Replicas |-> rep[p]]
    BY MemberFacts
  <1>2. IsMember(s)
    BY <1>1 DEF IsMember
  <1>3. /\ s.view = rep[r].view /\ s.status = rep[r].status /\ s.svc = rep[r].svc /\ s.dvc = rep[r].dvc
        /\ s.failed = rep[r].failed
    BY <1>1, SMT DEF IsMember, Fields
  <1>4. rep' = [rep EXCEPT ![r] = s]
    BY DEF RequestStateTransfer
  <1> QED BY <1>2, <1>3, <1>4 DEF SameView

\* RequestStateTransfer asks in the replica's own view.
LEMMA RequestStateTransferView ==
    ASSUME F \in Nat, ViewInv, NEW r \in Replicas, NEW q \in Replicas, q # r,
           net[<<q, r, "out">>] # <<>>, RequestStateTransfer(r, <<q, r, "out">>)
    PROVE  ViewInv'
  <1> DEFINE c == <<q, r, "out">>
             m == [type |-> "rst", view |-> rep[r].view, opnum |-> rep[r].lastCommitted]
  <1>1. rep[r].view \in Nat
    BY MemberFacts
  <1>2. PICK s : rep' = [rep EXCEPT ![r] = s] /\ SameView(rep[r], s)
    BY AskedMembers
  <1>3. PICK W : W = Views(rep')
    OBVIOUS
  <1>4. RepOK(W, rep') /\ NetOK(W, net)
    BY <1>2, <1>3, SameViewOK
  <1>5. NetOK(W, Rest(c))
    BY <1>4, RestLater
  <1>6. MessageOK(W, r, m)
    BY <1>1, SMT DEF MessageOK
  <1>7. NetOK(W, SendToAll(Rest(c), r, m))
    BY <1>5, <1>6, SendToAllOK
  <1>8. NetOK(W, net')
    BY <1>5, <1>7 DEF RequestStateTransfer
  <1> QED BY <1>3, <1>4, <1>8, ViewInvAfter

\* A message that changes nothing is taken off its connection.
LEMMA IgnoreView ==
    ASSUME ViewInv, NEW r \in Replicas, NEW q \in Replicas, q # r, NEW k \in {"out", "re"},
           net[<<q, r, k>>] # <<>>, Ignore(<<q, r, k>>)
    PROVE  ViewInv'
  <1>1. NetOK(Views(rep), Rest(<<q, r, k>>)) /\ RepOK(Views(rep), rep)
    BY RestLater DEF ViewInv
  <1> QED BY <1>1 DEF Ignore, ViewInv

\* A failed ASSERT changes no view.
LEMMA AbortView ==
    ASSUME F \in Nat, ViewInv, NEW r \in Replicas, NEW a, Abort(r, a)
    PROVE  ViewInv'
  <1> DEFINE s == [rep[r] EXCEPT !.failed = a]
  <1>1. IsMember(rep[r]) /\ rep = [p \in Replicas |-> rep[p]]
    BY MemberFacts
  <1>2. SameView(rep[r], s)
    <2>1. IsMember(s)
      BY <1>1 DEF IsMember
    <2>2. s.view = rep[r].view /\ s.status = rep[r].status /\ s.svc = rep[r].svc /\ s.dvc = rep[r].dvc
      BY <1>1, SMT DEF IsMember, Fields
    <2> QED BY <2>1, <2>2, SMT DEF SameView
  <1>3. rep' = [rep EXCEPT ![r] = s]
    BY DEF Abort
  <1>4. PICK W : W = Views(rep')
    BY SMT
  <1> HIDE DEF s
  <1>5. RepOK(W, rep') /\ NetOK(W, net)
    BY <1>2, <1>3, <1>4, SameViewOK
  <1>6. net' = [c \in Channels |-> net'[c]] /\ \A c \in Channels : net'[c] = net[c] \/ net'[c] = <<>>
    BY DEF Abort
  <1>7. NetOK(W, net')
    BY <1>5, <1>6, CutOK
  <1> QED BY <1>4, <1>5, <1>7, ViewInvAfter

\* HandleRequest and the timer of a state transfer change neither view nor votes.
LEMMA RequestMembers ==
    ASSUME ViewInv, NEW r \in Replicas, StateTransferTimeout(r) \/ \E id \in 1 .. MaxRequests : HandleRequest(r, id)
    PROVE  \E s : rep' = [rep EXCEPT ![r] = s] /\ SameView(rep[r], s) /\ s.failed = rep[r].failed
  <1>1. IsMember(rep[r]) /\ rep = [p \in Replicas |-> rep[p]]
    BY MemberFacts
  <1>2. CASE StateTransferTimeout(r)
    <2> DEFINE s == [rep[r] EXCEPT !.asked = <<0, 0>>]
    <2>1. IsMember(s)
      BY <1>1 DEF IsMember
    <2>2. /\ s.view = rep[r].view /\ s.status = rep[r].status /\ s.svc = rep[r].svc /\ s.dvc = rep[r].dvc
          /\ s.failed = rep[r].failed
      BY <1>1, SMT DEF IsMember, Fields
    <2>3. rep' = [rep EXCEPT ![r] = s]
      BY <1>2, SMT DEF StateTransferTimeout
    <2> QED BY <2>1, <2>2, <2>3 DEF SameView
  <1>3. ASSUME NEW id, HandleRequest(r, id)
        PROVE  \E s : rep' = [rep EXCEPT ![r] = s] /\ SameView(rep[r], s) /\ s.failed = rep[r].failed
    <2>1. PICK number \in {0, 1} :
              rep' = [rep EXCEPT ![r].lastReqId = id, ![r].lastOp = @ + number, ![r].lastCommitted = @ + number]
      BY <1>3 DEF HandleRequest
    <2> DEFINE s == [rep[r] EXCEPT !.lastReqId = id, !.lastOp = @ + number, !.lastCommitted = @ + number]
    <2>2. rep' = [rep EXCEPT ![r] = s]
      <3>1. rep' = [p \in Replicas |-> IF p = r THEN s ELSE rep[p]]
        BY <1>1, <2>1
      <3> HIDE DEF s
      <3> QED BY <1>1, <3>1
    <2>3. IsMember(s)
      BY <1>1 DEF IsMember
    <2>4. /\ s.view = rep[r].view /\ s.status = rep[r].status /\ s.svc = rep[r].svc /\ s.dvc = rep[r].dvc
          /\ s.failed = rep[r].failed
      BY <1>1, SMT DEF IsMember, Fields
    <2> QED BY <2>2, <2>3, <2>4 DEF SameView
  <1> QED BY <1>2, <1>3

\* They send nothing either.
LEMMA RequestView ==
    ASSUME F \in Nat, ViewInv, NEW r \in Replicas, StateTransferTimeout(r) \/ \E id \in 1 .. MaxRequests : HandleRequest(r, id)
    PROVE  ViewInv'
  <1>1. PICK s : rep' = [rep EXCEPT ![r] = s] /\ SameView(rep[r], s)
    BY RequestMembers
  <1>2. PICK W : W = Views(rep')
    BY SMT
  <1>3. RepOK(W, rep') /\ NetOK(W, net)
    BY <1>1, <1>2, SameViewOK
  <1>4. net' = net
    BY DEF StateTransferTimeout, HandleRequest
  <1> QED BY <1>2, <1>3, <1>4, ViewInvAfter

\* SendNullCommit and a connection that breaks touch the messages only.
LEMMA NetworkView ==
    ASSUME ViewInv, NEW r \in Replicas,
           SendNullCommit(r) \/ \E q \in Replicas \ {r} : ConnectionBreaks(r, q)
    PROVE  ViewInv'
  <1>1. NetOK(Views(rep), net) /\ rep[r].view \in Nat /\ net = [c \in Channels |-> net[c]]
    BY MemberFacts
  <1>2. CASE SendNullCommit(r)
    <2> DEFINE m == [type |-> "commit", view |-> rep[r].view, opnum |-> rep[r].lastCommitted]
    <2>1. MessageOK(Views(rep), r, m)
      BY <1>1, SMT DEF MessageOK
    <2>2. NetOK(Views(rep), SendToAll(net, r, m))
      BY <1>1, <2>1, SendToAllOK
    <2> QED BY <1>2, <2>2, SMT DEF SendNullCommit, ViewInv
  <1>3. ASSUME NEW q \in Replicas \ {r}, ConnectionBreaks(r, q) PROVE ViewInv'
    <2>1. net' = [c \in Channels |-> net'[c]] /\ \A c \in Channels : net'[c] = net[c] \/ net'[c] = <<>>
      BY <1>1, <1>3 DEF ConnectionBreaks
    <2>2. NetOK(Views(rep), net')
      BY <1>1, <2>1, CutOK
    <2> QED BY <1>3, <2>2 DEF ConnectionBreaks, ViewInv
  <1> QED BY <1>2, <1>3

\* HandleCommit changes no view; HandleRequestStateTransfer answers with a view
\* that the replica works in.
LEMMA TransferView ==
    ASSUME F \in Nat, ViewInv, NEW r \in Replicas, NEW q \in Replicas, q # r,
           HandleCommit(r, q) \/ HandleRequestStateTransfer(r, q)
    PROVE  ViewInv'
  <1> DEFINE c == <<q, r, "out">>
             m == [type |-> "st", view |-> rep[r].view, opnum |-> rep[r].lastCommitted]
  <1>1. net[c] # <<>>
    BY DEF HandleCommit, HandleRequestStateTransfer, Receives
  <1>2. \/ Ignore(c) \/ RequestStateTransfer(r, c)
        \/ rep[r].status = "normal" /\ net' = Send(Rest(c), r, q, "re", m) /\ UNCHANGED rep
    BY DEF HandleCommit, HandleRequestStateTransfer
  <1>3. CASE rep[r].status = "normal" /\ net' = Send(Rest(c), r, q, "re", m) /\ UNCHANGED rep
    <2>1. NetOK(Views(rep), Rest(c)) /\ rep[r].view \in Nat /\ Quorate(Views(rep), rep[r].view)
      BY <1>1, <1>3, RestLater, MemberFacts
    <2>2. MessageOK(Views(rep), r, m)
      BY <2>1, SMT DEF MessageOK
    <2>3. NetOK(Views(rep), Send(Rest(c), r, q, "re", m))
      BY <2>1, <2>2, SendOK
    <2> QED BY <1>3, <2>3, SMT DEF ViewInv
  <1> QED BY <1>1, <1>2, <1>3, IgnoreView, RequestStateTransferView

\* HandleStateTransfer enters a view that another replica works in.
LEMMA StateTransferView ==
    ASSUME F \in Nat, ViewInv, NEW r \in Replicas, NEW q \in Replicas, q # r, HandleStateTransfer(r, q)
    PROVE  ViewInv'
  <1> DEFINE c == <<q, r, "re">>
  <1>1. PICK m : m = Head(net[c])
    OBVIOUS
  <1> DEFINE s == EnterView(r, rep[r], m.view)
  <1>2. net[c] # <<>> /\ m.type = "st"
    BY <1>1 DEF HandleStateTransfer, Receives
  <1>3. NetOK(Views(rep), Rest(c)) /\ MessageOK(Views(rep), q, m)
    BY <1>1, <1>2, RestLater, MemberFacts
  <1>4. m.view \in Nat /\ Quorate(Views(rep), m.view)
    BY <1>2, <1>3 DEF MessageOK
  <1>5. IsMember(rep[r]) /\ rep[r].view \in Nat /\ rep = [p \in Replicas |-> rep[p]]
    BY MemberFacts
  <1>6. \/ Ignore(c) \/ Abort(r, "statetransfer")
        \/ net' = Rest(c) /\ (rep' = [rep EXCEPT ![r] = rep[r]] \/ (m.view > rep[r].view /\ rep' = [rep EXCEPT ![r] = s]))
    BY <1>1 DEF HandleStateTransfer
  <1>7. CASE net' = Rest(c) /\ rep' = [rep EXCEPT ![r] = rep[r]]
    <2>1. rep' = rep
      BY <1>5, <1>7
    <2> QED BY <1>3, <1>7, <2>1 DEF ViewInv
  <1>8. CASE net' = Rest(c) /\ m.view > rep[r].view /\ rep' = [rep EXCEPT ![r] = s]
    <2>1. IsMember(s) /\ s.view = m.view /\ s.svc = {} /\ s.dvc = {}
      BY <1>5, EnterViewFacts, SMT
    <2>2. rep[r].view <= m.view
      BY <1>4, <1>5, <1>8, SMT
    <2> HIDE DEF s
    <2>3. Puts(r, s)
      BY <1>4, <1>8, <2>1, <2>2 DEF Puts
    <2>4. PICK W : W = Views(rep')
      OBVIOUS
    <2>5. Quorate(W, s.view)
      BY <1>4, <2>1, <2>3, <2>4, PutsOK
    <2>6. RepOK(W, rep') /\ NetOK(W, net)
      BY <2>1, <2>3, <2>4, <2>5, EnterOK
    <2>7. NetOK(W, Rest(c))
      BY <1>2, <2>6, RestLater
    <2> QED BY <1>8, <2>4, <2>6, <2>7, ViewInvAfter
  <1> QED BY <1>2, <1>6, <1>7, <1>8, IgnoreView, AbortView

\* viewChangeTimeout: the replica reaches the next view and says so.
LEMMA TimeoutView ==
    ASSUME F \in Nat, ViewInv, NEW r \in Replicas, ViewChangeTimeout(r)
    PROVE  ViewInv'
  <1> DEFINE s == StartViewChange(rep[r], rep[r].view + 1)
             m == StartViewChangeMsg(r, rep[r].view + 1)
  <1>1. /\ IsMember(rep[r]) /\ rep[r].view \in Nat /\ rep = [p \in Replicas |-> rep[p]]
        /\ VotesOK(Views(rep), r, rep[r].svc) /\ VotesOK(Views(rep), r, rep[r].dvc)
    BY MemberFacts
  <1>2. IsMember(s) /\ s.view = rep[r].view + 1 /\ s.status = "viewchange" /\ s.svc = rep[r].svc /\ s.dvc = rep[r].dvc
    BY <1>1, StartFacts, SMT
  <1>3. rep' = [rep EXCEPT ![r] = s] /\ net' = SendToAll(net, r, m)
    BY DEF ViewChangeTimeout
  <1>4. rep[r].view + 1 \in Nat /\ rep[r].view <= rep[r].view + 1
    BY <1>1, SMT
  <1> HIDE DEF s
  <1>5. Puts(r, s)
    BY <1>2, <1>3, <1>4 DEF Puts
  <1>6. PICK W : W = Views(rep')
    OBVIOUS
  <1>7. /\ W[r] = s.view /\ NetOK(W, net)
        /\ \A set : VotesOK(Views(rep), r, set) => VotesOK(W, r, set)
        /\ MemberOK(W, r, s) => RepOK(W, rep')
    BY <1>5, <1>6, PutsOK
  <1>8. s.status # "normal"
    BY <1>2
  <1>9. MemberOK(W, r, s)
    BY <1>1, <1>2, <1>4, <1>7, <1>8 DEF MemberOK
  <1>10. MessageOK(W, r, m)
    BY <1>2, <1>4, <1>7, SMT DEF MessageOK, StartViewChangeMsg
  <1>11. NetOK(W, net')
    BY <1>3, <1>7, <1>10, SendToAllOK
  <1> QED BY <1>6, <1>7, <1>9, <1>11, ViewInvAfter

\* What a vote does to a replica that does not ignore it: it is in the view
\* change of the vote, with the vote in one of its sets.
VoteView(r, q, m, s) ==
    /\ IsMember(s) /\ s.view = m.view /\ rep[r].view <= m.view /\ s.status = "viewchange"
    /\ \/ s.svc = Add(rep[r].svc, m) /\ s.dvc = rep[r].dvc
       \/ s.svc = rep[r].svc /\ s.dvc = Add(rep[r].dvc, m)

\* Whatever members the replica takes in that view, a vote it counted was right.
LEMMA VoteOK ==
    ASSUME F \in Nat, ViewInv, NEW r \in Replicas, NEW q \in Replicas, q # r,
           NEW m, MessageOK(Views(rep), q, m), m.type \in {"svc", "dvc"},
           NEW s, VoteView(r, q, m, s), NEW s2, Puts(r, s2), s2.view = m.view, NEW W, W = Views(rep')
    PROVE  VotesOK(W, r, s.svc) /\ VotesOK(W, r, s.dvc) /\ W[r] >= m.view /\ NetOK(W, net)
  <1>1. m.view \in Nat /\ m.from = q /\ Views(rep)[q] >= m.view
    BY DEF MessageOK
  <1>2. /\ W[r] = s2.view /\ NetOK(W, net)
        /\ \A set : VotesOK(Views(rep), r, set) => VotesOK(W, r, set)
    BY PutsOK
  <1>3. VotesOK(W, r, rep[r].svc) /\ VotesOK(W, r, rep[r].dvc)
    BY <1>2, MemberFacts
  <1>4. W[r] >= m.view
    BY <1>1, <1>2, SMT
  <1>5. W[q] = Views(rep)[q]
    BY MemberFacts DEF Views, Puts
  <1>6. \A set : VotesOK(W, r, set) => VotesOK(W, r, Add(set, m))
    BY <1>1, <1>4, <1>5, AddOK, SMT
  <1> QED BY <1>2, <1>3, <1>4, <1>6 DEF VoteView

\* What HandleStartViewChange and HandleDoViewChange have made of the member s
\* before they count the votes: a, which has joined the view and added the vote m.
CountsStart(s, m, a) == a = [Join(s, m) EXCEPT !.svc = Add(@, m)]
CountsDo(s, m, a) == a = [Join(s, m) EXCEPT !.dvc = Add(@, m)]

\* HandleStartViewChange's member is in the vote's view, with the vote added.
LEMMA CountsStartFacts ==
    ASSUME NEW s, IsMember(s), s.view \in Nat, NEW m, m.view \in Nat, ~Old(s, m),
           NEW a, CountsStart(s, m, a)
    PROVE  /\ IsMember(a) /\ a.view = m.view /\ a.status = "viewchange"
           /\ a.svc = Add(s.svc, m) /\ a.dvc = s.dvc /\ a.failed = s.failed
  <1>1. PICK j : j = Join(s, m)
    OBVIOUS
  <1>2. /\ IsMember(j) /\ j.view = m.view /\ j.status = "viewchange" /\ j.svc = s.svc /\ j.dvc = s.dvc
        /\ j.failed = s.failed
    BY <1>1, JoinFacts, SMT
  <1>3. a = [j EXCEPT !.svc = Add(j.svc, m)]
    BY <1>1 DEF CountsStart
  <1>4. IsMember(a)
    BY <1>2, <1>3 DEF IsMember
  <1>5. \A x : /\ [j EXCEPT !.svc = x].view = j.view /\ [j EXCEPT !.svc = x].status = j.status
               /\ [j EXCEPT !.svc = x].svc = x /\ [j EXCEPT !.svc = x].dvc = j.dvc
               /\ [j EXCEPT !.svc = x].failed = j.failed
    BY <1>2, SMT DEF IsMember, Fields
  <1>6. /\ a.view = j.view /\ a.status = j.status /\ a.svc = Add(j.svc, m) /\ a.dvc = j.dvc
        /\ a.failed = j.failed
    BY <1>3, <1>5
  <1> QED BY <1>2, <1>4, <1>6

\* HandleDoViewChange's member is in the vote's view, with the vote added.
LEMMA CountsDoFacts ==
    ASSUME NEW s, IsMember(s), s.view \in Nat, NEW m, m.view \in Nat, ~Old(s, m),
           NEW a, CountsDo(s, m, a)
    PROVE  /\ IsMember(a) /\ a.view = m.view /\ a.status = "viewchange"
           /\ a.svc = s.svc /\ a.dvc = Add(s.dvc, m) /\ a.failed = s.failed
  <1>1. PICK j : j = Join(s, m)
    OBVIOUS
  <1>2. /\ IsMember(j) /\ j.view = m.view /\ j.status = "viewchange" /\ j.dvc = s.dvc /\ j.svc = s.svc
        /\ j.failed = s.failed
    BY <1>1, JoinFacts, SMT
  <1>3. a = [j EXCEPT !.dvc = Add(j.dvc, m)]
    BY <1>1 DEF CountsDo
  <1>4. IsMember(a)
    BY <1>2, <1>3 DEF IsMember
  <1>5. \A x : /\ [j EXCEPT !.dvc = x].view = j.view /\ [j EXCEPT !.dvc = x].status = j.status
               /\ [j EXCEPT !.dvc = x].dvc = x /\ [j EXCEPT !.dvc = x].svc = j.svc
               /\ [j EXCEPT !.dvc = x].failed = j.failed
    BY <1>2, SMT DEF IsMember, Fields
  <1>6. /\ a.view = j.view /\ a.status = j.status /\ a.dvc = Add(j.dvc, m) /\ a.svc = j.svc
        /\ a.failed = j.failed
    BY <1>3, <1>5
  <1> QED BY <1>2, <1>4, <1>6

\* HandleStartViewChange: a quorum of votes makes one for the leader.
LEMMA StartViewChangeView ==
    ASSUME F \in Nat, ViewInv, NEW r \in Replicas, NEW q \in Replicas, q # r, HandleStartViewChange(r, q)
    PROVE  ViewInv'
  <1> DEFINE c == <<q, r, "out">>
  <1>1. PICK m : m = Head(net[c])
    BY SMT
  <1>2. PICK s : CountsStart(rep[r], m, s)
    BY DEF CountsStart
  <1> DEFINE n == JoinMsgs(Rest(c), r, m)
             leader == GetLeaderIndex(m.view)
  <1>3. net[c] # <<>> /\ m.type = "svc"
    BY <1>1 DEF HandleStartViewChange, Receives
  <1>4. NetOK(Views(rep), Rest(c)) /\ MessageOK(Views(rep), q, m) /\ m.view \in Nat
    BY <1>1, <1>3, RestLater, MemberFacts DEF MessageOK
  <1>5. \/ Ignore(c)
        \/ /\ ~Old(rep[r], m) /\ rep' = [rep EXCEPT ![r] = s]
           /\ net' = n \/ (leader # r /\ net' = Send(n, r, leader, "out", DoViewChangeMsg(r, s)))
    BY <1>1, <1>2 DEF HandleStartViewChange, CountsStart
  <1>6. ASSUME ~Old(rep[r], m), rep' = [rep EXCEPT ![r] = s],
               net' = n \/ (leader # r /\ net' = Send(n, r, leader, "out", DoViewChangeMsg(r, s)))
        PROVE  ViewInv'
    <2>1. IsMember(rep[r]) /\ rep[r].view \in Nat
      BY MemberFacts, SMT
    <2>2. IsMember(s) /\ s.view = m.view /\ s.status = "viewchange" /\ s.svc = Add(rep[r].svc, m) /\ s.dvc = rep[r].dvc
      BY <1>2, <1>4, <1>6, <2>1, CountsStartFacts, SMT
    <2>3. rep[r].view <= m.view
      BY <1>4, <1>6, <2>1, JoinFacts, SMT
    <2>4. VoteView(r, q, m, s) /\ Puts(r, s)
      BY <1>4, <1>6, <2>2, <2>3, SMT DEF VoteView, Puts
    <2>5. PICK W : W = Views(rep')
      BY SMT
    <2>6. VotesOK(W, r, s.svc) /\ VotesOK(W, r, s.dvc) /\ W[r] >= m.view /\ NetOK(W, net)
      BY <1>3, <1>4, <2>2, <2>4, <2>5, VoteOK, SMT
    <2>7. W[r] = s.view /\ (MemberOK(W, r, s) => RepOK(W, rep'))
      BY <2>4, <2>5, PutsOK
    <2>8. MemberOK(W, r, s)
      <3>1. s.status # "normal"
        BY <2>2
      <3> QED BY <1>4, <2>2, <2>6, <2>7, <3>1 DEF MemberOK
    <2>9. NetOK(W, n)
      BY <1>3, <1>4, <2>6, RestLater, JoinMsgsOK
    <2>10. leader \in Replicas
      BY <1>4, SMT DEF GetLeaderIndex, Replicas, N
    <2>11. MessageOK(W, r, DoViewChangeMsg(r, s))
      BY <1>4, <2>2, <2>6, SMT DEF MessageOK, DoViewChangeMsg
    <2> HIDE DEF n, leader
    <2>12. leader # r => NetOK(W, Send(n, r, leader, "out", DoViewChangeMsg(r, s)))
      BY <2>9, <2>10, <2>11, SendOK
    <2>13. NetOK(W, net')
      BY <1>6, <2>9, <2>12
    <2> QED BY <2>5, <2>7, <2>8, <2>13, ViewInvAfter
  <1> QED BY <1>3, <1>5, <1>6, IgnoreView

EnterAt(r, s, v, op) == [EnterView(r, s, v) EXCEPT !.lastOp = op]

\* The members of a replica that enters a view with an operation number.
LEMMA EnterAtFacts ==
    ASSUME NEW r, NEW s, IsMember(s), NEW v, NEW op
    PROVE  LET e == EnterAt(r, s, v, op)
           IN  IsMember(e) /\ e.view = v /\ e.status = "normal" /\ e.svc = {} /\ e.dvc = {} /\ e.failed = s.failed
  <1>1. PICK a : a = EnterView(r, s, v)
    OBVIOUS
  <1>2. IsMember(a) /\ a.view = v /\ a.status = "normal" /\ a.svc = {} /\ a.dvc = {} /\ a.failed = s.failed
    BY <1>1, EnterViewFacts, SMT
  <1>3. IsMember([a EXCEPT !.lastOp = op])
    BY <1>2 DEF IsMember
  <1>4. /\ [a EXCEPT !.lastOp = op].view = a.view /\ [a EXCEPT !.lastOp = op].status = a.status
        /\ [a EXCEPT !.lastOp = op].svc = a.svc /\ [a EXCEPT !.lastOp = op].dvc = a.dvc
        /\ [a EXCEPT !.lastOp = op].failed = a.failed
    BY <1>2, SMT DEF IsMember, Fields
  <1> QED BY <1>1, <1>2, <1>3, <1>4 DEF EnterAt

\* What HandleDoViewChange does with a vote that it does not ignore, when no
\* ASSERT fails: it counts the vote, or enters the view and tells the others.
DoViewChangeEffect(r, c, m, s) ==
    \E op, sv :
        /\ sv.type = "sv" /\ sv.view = m.view
        /\ \/ /\ ~HasQuorum(s.dvc, m.view)
              /\ rep' = [rep EXCEPT ![r] = s] /\ net' = JoinMsgs(Rest(c), r, m)
           \/ /\ HasQuorum(s.dvc, m.view)
              /\ rep' = [rep EXCEPT ![r] = EnterAt(r, s, m.view, op)]
              /\ net' = SendToAll(JoinMsgs(Rest(c), r, m), r, sv)

\* HandleDoViewChange ignores an old vote, fails its ASSERT, or has that effect.
LEMMA DoViewChangeCases ==
    ASSUME NEW r, NEW q, HandleDoViewChange(r, q), NEW c, c = <<q, r, "out">>, NEW m, m = Head(net[c]),
           NEW s, CountsDo(rep[r], m, s)
    PROVE  \/ Old(rep[r], m) /\ Ignore(c)
           \/ Abort(r, "doviewchange")
           \/ ~Old(rep[r], m) /\ DoViewChangeEffect(r, c, m, s)
  <1> DEFINE latest == Latest(GetMessages(s.dvc, m.view))
             op == IF latest = {} THEN 0 ELSE (CHOOSE x \in latest : TRUE).lastop
             sv == [type |-> "sv", view |-> m.view, lastop |-> op, lastcommitted |-> s.lastCommitted]
             quorum == HasQuorum(s.dvc, m.view)
  <1>1. sv.type = "sv" /\ sv.view = m.view
    OBVIOUS
  <1>2. \/ Old(rep[r], m) /\ Ignore(c)
        \/ Abort(r, "doviewchange")
        \/ /\ ~Old(rep[r], m)
           /\ rep' = [rep EXCEPT ![r] = IF quorum THEN EnterAt(r, s, m.view, op) ELSE s]
           /\ net' = IF quorum THEN SendToAll(JoinMsgs(Rest(c), r, m), r, sv) ELSE JoinMsgs(Rest(c), r, m)
    BY DEF HandleDoViewChange, CountsDo, EnterAt
  <1> HIDE DEF op, sv, quorum
  <1>3. CASE quorum
    <2>1. \/ Old(rep[r], m) /\ Ignore(c)
          \/ Abort(r, "doviewchange")
          \/ /\ ~Old(rep[r], m) /\ rep' = [rep EXCEPT ![r] = EnterAt(r, s, m.view, op)]
             /\ net' = SendToAll(JoinMsgs(Rest(c), r, m), r, sv)
      BY <1>2, <1>3
    <2> QED BY <1>1, <1>3, <2>1 DEF DoViewChangeEffect, quorum
  <1>4. CASE ~quorum
    <2>1. \/ Old(rep[r], m) /\ Ignore(c)
          \/ Abort(r, "doviewchange")
          \/ ~Old(rep[r], m) /\ rep' = [rep EXCEPT ![r] = s] /\ net' = JoinMsgs(Rest(c), r, m)
      BY <1>2, <1>4
    <2> QED BY <1>1, <1>4, <2>1 DEF DoViewChangeEffect, quorum
  <1> QED BY <1>3, <1>4

\* HandleDoViewChange: a replica enters a view with F votes for it and its own.
LEMMA DoViewChangeView ==
    ASSUME F \in Nat, ViewInv, NEW r \in Replicas, NEW q \in Replicas, q # r, HandleDoViewChange(r, q)
    PROVE  ViewInv'
  <1>0. PICK c : c = <<q, r, "out">>
    OBVIOUS
  <1>1. PICK m : m = Head(net[c])
    OBVIOUS
  <1>2. PICK s : CountsDo(rep[r], m, s)
    BY DEF CountsDo
  <1>3. net[c] # <<>> /\ m.type = "dvc"
    BY <1>0, <1>1 DEF HandleDoViewChange, Receives
  <1>4. NetOK(Views(rep), Rest(c)) /\ MessageOK(Views(rep), q, m) /\ m.view \in Nat
    BY <1>0, <1>1, <1>3, RestLater, MemberFacts DEF MessageOK
  <1>5. \/ Old(rep[r], m) /\ Ignore(c)
        \/ Abort(r, "doviewchange")
        \/ ~Old(rep[r], m) /\ DoViewChangeEffect(r, c, m, s)
    BY <1>0, <1>1, <1>2, DoViewChangeCases
  <1>6. ASSUME ~Old(rep[r], m), DoViewChangeEffect(r, c, m, s) PROVE ViewInv'
    <2>1. IsMember(rep[r]) /\ rep[r].view \in Nat
      BY MemberFacts, SMT
    <2>2. IsMember(s) /\ s.view = m.view /\ s.status = "viewchange" /\ s.svc = rep[r].svc /\ s.dvc = Add(rep[r].dvc, m)
      BY <1>2, <1>4, <1>6, <2>1, CountsDoFacts, SMT
    <2>3. rep[r].view <= m.view
      BY <1>4, <1>6, <2>1, JoinFacts, SMT
    <2>4. VoteView(r, q, m, s)
      BY <2>2, <2>3, SMT DEF VoteView
    <2>5. PICK W : W = Views(rep')
      BY SMT
    <2>6. PICK op, sv :
            /\ sv.type = "sv" /\ sv.view = m.view
            /\ \/ /\ ~HasQuorum(s.dvc, m.view)
                  /\ rep' = [rep EXCEPT ![r] = s] /\ net' = JoinMsgs(Rest(c), r, m)
               \/ /\ HasQuorum(s.dvc, m.view)
                  /\ rep' = [rep EXCEPT ![r] = EnterAt(r, s, m.view, op)]
                  /\ net' = SendToAll(JoinMsgs(Rest(c), r, m), r, sv)
      BY <1>6, SMT DEF DoViewChangeEffect
    <2>7. CASE rep' = [rep EXCEPT ![r] = s] /\ net' = JoinMsgs(Rest(c), r, m)
      <3>1. Puts(r, s)
        BY <1>4, <2>2, <2>3, <2>7 DEF Puts
      <3>2. VotesOK(W, r, s.svc) /\ VotesOK(W, r, s.dvc) /\ W[r] >= m.view /\ NetOK(W, net)
        BY <1>3, <1>4, <2>2, <2>4, <2>5, <3>1, VoteOK
      <3>3. W[r] = s.view /\ (MemberOK(W, r, s) => RepOK(W, rep'))
        BY <2>5, <3>1, PutsOK
      <3>4. MemberOK(W, r, s)
        <4>1. s.status # "normal"
          BY <2>2
        <4> QED BY <1>4, <2>2, <3>2, <3>3, <4>1 DEF MemberOK
      <3>5. NetOK(W, net')
        BY <1>0, <1>3, <1>4, <2>7, <3>2, RestLater, JoinMsgsOK
      <3> QED BY <2>5, <3>3, <3>4, <3>5, ViewInvAfter, SMT
    <2>8. ASSUME HasQuorum(s.dvc, m.view), rep' = [rep EXCEPT ![r] = EnterAt(r, s, m.view, op)],
                 net' = SendToAll(JoinMsgs(Rest(c), r, m), r, sv)
          PROVE  ViewInv'
      <3>1. PICK e : e = EnterAt(r, s, m.view, op)
        OBVIOUS
      <3>2. IsMember(e) /\ e.view = m.view /\ e.svc = {} /\ e.dvc = {}
        BY <2>2, <3>1, EnterAtFacts, SMT
      <3>3. Puts(r, e)
        BY <1>4, <2>3, <2>8, <3>1, <3>2 DEF Puts
      <3>4. VotesOK(W, r, s.dvc) /\ W[r] >= m.view /\ NetOK(W, net)
        BY <1>3, <1>4, <2>4, <2>5, <3>2, <3>3, VoteOK
      <3>5. Quorate(W, m.view)
        BY <1>4, <2>8, <3>4, VotesQuorum
      <3>6. RepOK(W, rep')
        BY <2>5, <3>2, <3>3, <3>5, EnterOK
      <3>7. NetOK(W, JoinMsgs(Rest(c), r, m))
        BY <1>0, <1>3, <1>4, <3>4, RestLater, JoinMsgsOK
      <3>8. MessageOK(W, r, sv)
        <4>1. sv.type # "svc" /\ sv.type # "dvc"
          BY <2>6
        <4> QED BY <1>4, <2>6, <3>5, <4>1 DEF MessageOK
      <3>9. NetOK(W, net')
        BY <2>8, <3>7, <3>8, SendToAllOK
      <3> QED BY <2>5, <3>6, <3>9, ViewInvAfter
    <2> QED BY <2>6, <2>7, <2>8, SMT
  <1> QED BY <1>0, <1>3, <1>5, <1>6, IgnoreView, AbortView

\* HandleStartView enters a view that its new leader works in.
LEMMA StartViewView ==
    ASSUME F \in Nat, ViewInv, NEW r \in Replicas, NEW q \in Replicas, q # r, HandleStartView(r, q)
    PROVE  ViewInv'
  <1> DEFINE c == <<q, r, "out">>
  <1>1. PICK m : m = Head(net[c])
    BY SMT
  <1>2. net[c] # <<>> /\ m.type = "sv"
    BY <1>1 DEF HandleStartView, Receives
  <1>3. NetOK(Views(rep), Rest(c)) /\ MessageOK(Views(rep), q, m)
    BY <1>1, <1>2, RestLater, MemberFacts
  <1>4. m.view \in Nat /\ Quorate(Views(rep), m.view)
    BY <1>2, <1>3 DEF MessageOK
  <1>5. IsMember(rep[r]) /\ rep[r].view \in Nat
    BY MemberFacts, SMT
  <1>6. PICK s : s = EnterAt(r, rep[r], m.view, m.lastop)
    OBVIOUS
  <1>7. \/ Ignore(c) \/ Abort(r, "startview")
        \/ ~Old(rep[r], m) /\ net' = Rest(c) /\ rep' = [rep EXCEPT ![r] = s]
    BY <1>1, <1>6, SMT DEF HandleStartView, EnterAt
  <1>8. CASE ~Old(rep[r], m) /\ net' = Rest(c) /\ rep' = [rep EXCEPT ![r] = s]
    <2>1. IsMember(s) /\ s.view = m.view /\ s.svc = {} /\ s.dvc = {}
      <3>1. PICK old, v, op : old = rep[r] /\ v = m.view /\ op = m.lastop
        OBVIOUS
      <3>2. IsMember(old)
        BY <1>5, <3>1
      <3>3. LET e == EnterAt(r, old, v, op) IN IsMember(e) /\ e.view = v /\ e.svc = {} /\ e.dvc = {}
        BY <3>2, EnterAtFacts, SMT
      <3> QED BY <1>6, <3>1, <3>3
    <2>2. rep[r].view <= m.view
      BY <1>4, <1>5, <1>8, JoinFacts
    <2>3. Puts(r, s)
      BY <1>4, <1>8, <2>1, <2>2 DEF Puts
    <2>4. PICK W : W = Views(rep')
      BY SMT
    <2>5. Quorate(W, s.view)
      BY <1>4, <2>1, <2>3, <2>4, PutsOK
    <2>6. RepOK(W, rep') /\ NetOK(W, net)
      BY <2>1, <2>3, <2>4, <2>5, EnterOK
    <2>7. NetOK(W, Rest(c))
      BY <1>2, <2>6, RestLater
    <2> QED BY <1>8, <2>4, <2>6, <2>7, ViewInvAfter
  <1> QED BY <1>2, <1>7, <1>8, IgnoreView, AbortView

\* The replicas begin in view 0, with nothing sent.
LEMMA InitView == F \in Nat /\ VRInit => ViewInv
  <1> SUFFICES ASSUME F \in Nat, VRInit PROVE ViewInv
    OBVIOUS
  <1>1. /\ rep = [r \in Replicas |-> rep[r]] /\ net = [c \in Channels |-> net[c]]
        /\ \A c \in Channels : net[c] = <<>>
    BY DEF VRInit
  <1>2. ASSUME NEW r \in Replicas
        PROVE  IsMember(rep[r]) /\ rep[r].view = 0 /\ rep[r].svc = {} /\ rep[r].dvc = {}
    <2>1. PICK a, b : rep[r] = [status |-> "normal", view |-> 0, lastOp |-> 0, lastCommitted |-> 0, asked |-> <<0, 0>>,
                                viewChangeTimeout |-> a, nullCommitTimeout |-> b, svc |-> {}, dvc |-> {},
                                lastReqId |-> 0, failed |-> "no"]
      BY DEF VRInit
    <2>2. rep[r].view = 0 /\ rep[r].svc = {} /\ rep[r].dvc = {}
      BY <2>1, SMT
    <2>3. IsMember(rep[r])
      BY <2>1, SMT DEF IsMember, Fields
    <2> QED BY <2>2, <2>3
  <1>3. \A r \in Replicas : Views(rep)[r] = 0
    BY <1>2 DEF Views
  <1>4. Quorate(Views(rep), 0)
    BY SMT DEF Quorate
  <1>5. \A r \in Replicas : VotesOK(Views(rep), r, {})
    BY SMT DEF VotesOK
  <1>6. \A r \in Replicas : MemberOK(Views(rep), r, rep[r])
    <2>1. 0 \in Nat
      OBVIOUS
    <2> QED BY <1>2, <1>3, <1>4, <1>5, <2>1 DEF MemberOK
  <1>7. NetOK(Views(rep), net)
    BY <1>1, EmptySeq DEF NetOK
  <1> QED BY <1>1, <1>6, <1>7 DEF ViewInv, RepOK

\* Every step keeps the quorums of the views.
LEMMA NextView == F \in Nat /\ ViewInv /\ [VRNext]_vrVars => ViewInv'
  <1> SUFFICES ASSUME F \in Nat, ViewInv, [VRNext]_vrVars PROVE ViewInv'
    BY SMT
  <1>1. CASE UNCHANGED vrVars
    BY <1>1 DEF vrVars, ViewInv
  <1>2. CASE VRNext
    <2>1. PICK r \in Replicas :
            \/ \E id \in 1 .. MaxRequests : HandleRequest(r, id)
            \/ SendNullCommit(r) \/ StateTransferTimeout(r) \/ ViewChangeTimeout(r)
            \/ \E q \in Replicas \ {r} :
                 \/ ConnectionBreaks(r, q) \/ HandleCommit(r, q) \/ HandleRequestStateTransfer(r, q)
                 \/ HandleStateTransfer(r, q) \/ HandleStartViewChange(r, q) \/ HandleDoViewChange(r, q)
                 \/ HandleStartView(r, q)
      BY <1>2 DEF VRNext
    <2>2. ASSUME NEW q \in Replicas \ {r},
                 \/ HandleCommit(r, q) \/ HandleRequestStateTransfer(r, q) \/ HandleStateTransfer(r, q)
                 \/ HandleStartViewChange(r, q) \/ HandleDoViewChange(r, q) \/ HandleStartView(r, q)
          PROVE  ViewInv'
      <3>1. q \in Replicas /\ q # r
        BY SMT
      <3> QED BY <2>2, <3>1, TransferView, StateTransferView, StartViewChangeView, DoViewChangeView, StartViewView, SMT
    <2> QED BY <2>1, <2>2, RequestView, NetworkView, TimeoutView
  <1> QED BY <1>1, <1>2, SMT

\* For any number of failures that the configuration tolerates, and whatever
\* timers fire and connections break: a replica works in a view other than the
\* first only after a quorum has left every earlier one.
THEOREM VRViewHasQuorum == VRSpec => []ViewHasQuorum
  <1> USE VRAssumption
  <1>1. VRInit => ViewInv
    BY InitView
  <1>2. ViewInv /\ [VRNext]_vrVars => ViewInv'
    BY NextView
  <1>3. ViewInv => ViewHasQuorum
    <2> SUFFICES ASSUME ViewInv, NEW r \in Replicas, rep[r].status = "normal", rep[r].view > 0
                 PROVE  Cardinality({q \in Replicas : rep[q].view >= rep[r].view}) >= QuorumSize
      BY DEF ViewHasQuorum
    <2>1. Quorate(Views(rep), rep[r].view)
      BY MemberFacts
    <2>2. Reached(Views(rep), rep[r].view) = {q \in Replicas : rep[q].view >= rep[r].view}
      BY DEF Reached, Views
    <2> QED BY <2>1, <2>2 DEF Quorate
  <1> QED BY <1>1, <1>2, <1>3, PTL DEF VRSpec

-----------------------------------------------------------------------------
(* The starters of a view *)

\* The connection that q opened to p.
Out(n, q, p) == n[<<q, p, "out">>]

\* Whom a STARTVIEWCHANGE has reached stays informed.
Advances(s, s2) == \A v \in Nat : Informed(s, v) => Informed(s2, v)

\* A replica forgets votes only when it has no more use for them.
LEMMA Advance ==
    ASSUME NEW s, NEW s2, s.view \in Nat, s2.view \in Nat, s.view <= s2.view,
           \A x \in s.svc : x.view \in Nat /\ s.view >= x.view,
           \/ s.view < s2.view \/ s2.status # "viewchange"
           \/ s2.status = s.status /\ (s2.svc = s.svc \/ \E m : s2.svc = Add(s.svc, m))
    PROVE  Advances(s, s2)
  <1> SUFFICES ASSUME NEW v \in Nat, Informed(s, v) PROVE Informed(s2, v)
    BY DEF Advances
  <1>1. s.view >= v
    BY SMT DEF Informed, GetMessages
  <1>2. s2.view >= v /\ (s.view < s2.view => s2.view > v)
    BY <1>1, SMT
  <1>3. CASE s.view < s2.view \/ s2.status # "viewchange"
    <2>1. s2.view > v \/ s2.view = v
      BY <1>2, SMT
    <2> QED BY <1>2, <1>3, <2>1 DEF Informed
  <1>4. CASE s2.status = s.status /\ (s2.svc = s.svc \/ \E m : s2.svc = Add(s.svc, m))
    <2>1. GetMessages(s.svc, v) # {} => GetMessages(s2.svc, v) # {}
      BY <1>4 DEF GetMessages, Add
    <2>2. s.view > v => s2.view > v
      BY SMT
    <2>3. s.view = v => s2.view > v \/ s2.view = v
      BY SMT
    <2> QED BY <1>4, <2>1, <2>2, <2>3 DEF Informed
  <1> QED BY <1>3, <1>4

\* A message that is written leaves the earlier ones where they were.
LEMMA HeardAppend ==
    ASSUME NEW s, NEW ch, IsSeq(ch), NEW m
    PROVE  /\ \A v : Heard(s, ch, v) => Heard(s, Append(ch, m), v)
           /\ \A v : Starts(m, v) => Heard(s, Append(ch, m), v)
           /\ InOrder(s, ch) /\ (m.type = "dvc" => Heard(s, ch, m.view)) => InOrder(s, Append(ch, m))
  <1>1. PICK a, n : a = Append(ch, m) /\ n = Len(ch) + 1
    OBVIOUS
  <1>2. DOMAIN a = DOMAIN ch \cup {n} /\ a[n] = m /\ \A i \in DOMAIN ch : a[i] = ch[i] /\ i < n
    <2>1. /\ Len(ch) \in Nat /\ DOMAIN ch = 1 .. Len(ch) /\ DOMAIN a = 1 .. Len(ch) + 1
          /\ \A i \in DOMAIN ch : a[i] = ch[i]
          /\ a[n] = m
      BY <1>1, AppendSeq, SMT
    <2>2. DOMAIN a = DOMAIN ch \cup {n} /\ \A i \in DOMAIN ch : i < n
      BY <1>1, <2>1, SMT
    <2> QED BY <2>1, <2>2
  <1>3. \A v : Heard(s, ch, v) => Heard(s, a, v)
    BY <1>2 DEF Heard
  <1>4. \A v : Starts(m, v) => Heard(s, a, v)
    BY <1>2 DEF Heard
  <1>5. ASSUME InOrder(s, ch), m.type = "dvc" => Heard(s, ch, m.view) PROVE InOrder(s, a)
    <2> SUFFICES ASSUME NEW i \in DOMAIN a, a[i].type = "dvc"
                 PROVE  Informed(s, a[i].view) \/ \E j \in DOMAIN a : j < i /\ Starts(a[j], a[i].view)
      BY DEF InOrder
    <2>1. CASE i \in DOMAIN ch
      <3>1. Informed(s, ch[i].view) \/ \E j \in DOMAIN ch : j < i /\ Starts(ch[j], ch[i].view)
        BY <1>2, <1>5, <2>1 DEF InOrder
      <3> QED BY <1>2, <2>1, <3>1
    <2>2. CASE i = n
      <3>1. Informed(s, m.view) \/ \E j \in DOMAIN ch : Starts(ch[j], m.view)
        BY <1>2, <1>5, <2>2 DEF Heard
      <3> QED BY <1>2, <2>2, <3>1
    <2> QED BY <1>2, <2>1, <2>2
  <1> QED BY <1>1, <1>3, <1>4, <1>5, SMT

\* When the oldest message is read its receiver knows what it says.
LEMMA HeardTail ==
    ASSUME NEW s, NEW s2, NEW ch, IsSeq(ch), ch # <<>>, Advances(s, s2),
           \A v \in Nat : Starts(Head(ch), v) => Informed(s2, v), \A x \in Elems(ch) : x.view \in Nat
    PROVE  /\ \A v \in Nat : Heard(s, ch, v) => Heard(s2, Tail(ch), v)
           /\ InOrder(s, ch) => InOrder(s2, Tail(ch))
  <1>1. PICK a : a = Tail(ch)
    OBVIOUS
  <1>2. /\ Len(ch) \in Nat /\ Len(ch) > 0 /\ DOMAIN ch = 1 .. Len(ch) /\ DOMAIN a = 1 .. Len(ch) - 1
        /\ Head(ch) = ch[1] /\ \A i \in DOMAIN a : a[i] = ch[i + 1]
    BY <1>1, TailSeq
  <1>3. \A i \in DOMAIN ch : i = 1 \/ (i - 1 \in DOMAIN a /\ a[i - 1] = ch[i])
    BY <1>2, SMT
  <1>4. \A i \in DOMAIN a : i + 1 \in DOMAIN ch /\ a[i] = ch[i + 1] /\ i + 1 # 1
    BY <1>2, SMT
  <1>5. ASSUME NEW v \in Nat, Heard(s, ch, v) PROVE Heard(s2, a, v)
    <2>1. Informed(s, v) => Informed(s2, v)
      BY DEF Advances
    <2>2. ASSUME NEW j \in DOMAIN ch, Starts(ch[j], v) PROVE Heard(s2, a, v)
      <3>1. CASE j = 1
        BY <1>2, <2>2, <3>1, SMT DEF Heard
      <3>2. CASE j - 1 \in DOMAIN a /\ a[j - 1] = ch[j]
        BY <2>2, <3>2 DEF Heard
      <3> QED BY <1>3, <3>1, <3>2
    <2> QED BY <1>5, <2>1, <2>2 DEF Heard
  <1>6. ASSUME InOrder(s, ch), NEW i \in DOMAIN a, a[i].type = "dvc"
        PROVE  Informed(s2, a[i].view) \/ \E j \in DOMAIN a : j < i /\ Starts(a[j], a[i].view)
    <2>1. PICK k : k = i + 1 /\ k \in DOMAIN ch /\ a[i] = ch[k]
      BY <1>4
    <2>2. a[i].view \in Nat
      BY <2>1 DEF Elems
    <2>3. Informed(s, ch[k].view) \/ \E j \in DOMAIN ch : j < k /\ Starts(ch[j], ch[k].view)
      BY <1>6, <2>1 DEF InOrder
    <2>4. CASE Informed(s, ch[k].view)
      BY <2>1, <2>2, <2>4 DEF Advances
    <2>5. ASSUME NEW j \in DOMAIN ch, j < k, Starts(ch[j], ch[k].view)
          PROVE  Informed(s2, a[i].view) \/ \E h \in DOMAIN a : h < i /\ Starts(a[h], a[i].view)
      <3>1. CASE j = 1
        BY <1>2, <2>1, <2>2, <2>5, <3>1, SMT
      <3>2. CASE j - 1 \in DOMAIN a /\ a[j - 1] = ch[j]
        <4>1. j - 1 < i
          BY <1>2, <2>1, <2>5, SMT
        <4> QED BY <2>1, <2>5, <3>2, <4>1
      <3> QED BY <1>3, <3>1, <3>2
    <2> QED BY <2>3, <2>4, <2>5
  <1>7. InOrder(s, ch) => InOrder(s2, a)
    BY <1>6 DEF InOrder
  <1> QED BY <1>1, <1>5, <1>7

\* Nothing changes for a receiver that is informed of more.
LEMMA HeardStays ==
    ASSUME NEW s, NEW s2, NEW ch, Advances(s, s2), \A x \in Elems(ch) : x.view \in Nat
    PROVE  /\ \A v \in Nat : Heard(s, ch, v) => Heard(s2, ch, v)
           /\ InOrder(s, ch) => InOrder(s2, ch)
  <1>1. \A i \in DOMAIN ch : ch[i].view \in Nat
    BY SMT DEF Elems
  <1>2. \A v \in Nat : Heard(s, ch, v) => Heard(s2, ch, v)
    BY DEF Heard, Advances
  <1>3. InOrder(s, ch) => InOrder(s2, ch)
    BY <1>1 DEF InOrder, Advances
  <1> QED BY <1>2, <1>3

-----------------------------------------------------------------------------
(* What a step does to the connections *)

\* What a replica reads from the connections that others opened to it.
Reads(r, s2) ==
    \A q \in Replicas : q # r =>
        \/ Out(net', q, r) = Out(net, q, r)
        \/ /\ Out(net, q, r) # <<>> /\ Out(net', q, r) = Tail(Out(net, q, r))
           /\ \A v \in Nat : Starts(Head(Out(net, q, r)), v) => Informed(s2, v)

\* In a view change it has told everyone, and in order, what it does next.
Tells(r, s2) ==
    \A p \in Replicas : p # r /\ Up(p) =>
        /\ s2.status = "viewchange" => Heard(rep[p], Out(net', r, p), s2.view)
        /\ InOrder(rep[p], Out(net', r, p))

Apart(r) == \A q, p \in Replicas : q # r /\ p # r /\ q # p => Out(net', q, p) = Out(net, q, p)

ToldAll == \A q, p \in Replicas : q # p => Told(rep, net, q, p)

\* What is in a connection.
LEMMA OutFacts ==
    ASSUME ViewInv, NEW q \in Replicas, NEW p \in Replicas, q # p
    PROVE  /\ <<q, p, "out">> \in Channels /\ IsSeq(Out(net, q, p))
           /\ \A x \in Elems(Out(net, q, p)) : x.view \in Nat
  <1>1. <<q, p, "out">> \in Channels
    BY Connection
  <1> QED BY <1>1, SMT DEF ViewInv, NetOK, MessageOK, Out

\* A step of one replica that reads and writes like this keeps the order.
LEMMA ToldStep ==
    ASSUME ViewInv, ToldAll, NEW r \in Replicas, Up(r), NEW s, rep' = [rep EXCEPT ![r] = s], s.failed = "no",
           Advances(rep[r], s), Reads(r, s), Tells(r, s), Apart(r)
    PROVE  ToldAll'
  <1>1. rep = [q \in Replicas |-> rep[q]]
    BY MemberFacts
  <1>2. rep'[r] = s /\ \A q \in Replicas : q # r => rep'[q] = rep[q]
    BY <1>1
  <1>3. ASSUME NEW q \in Replicas, NEW p \in Replicas, q # p, rep'[p].failed = "no"
        PROVE  /\ rep'[q].status = "viewchange" => Heard(rep'[p], Out(net', q, p), rep'[q].view)
               /\ InOrder(rep'[p], Out(net', q, p))
    <2>1. Up(p)
      BY <1>2, <1>3 DEF Up
    <2>2. /\ rep[q].status = "viewchange" => Heard(rep[p], Out(net, q, p), rep[q].view)
          /\ InOrder(rep[p], Out(net, q, p))
      BY <1>3, <2>1 DEF ToldAll, Told, Up, Out
    <2>3. CASE q = r
      BY <1>2, <1>3, <2>1, <2>3 DEF Tells
    <2>4. CASE p = r
      <3>1. rep'[q] = rep[q] /\ rep'[p] = s /\ rep[q].view \in Nat
        BY <1>2, <1>3, <2>4, MemberFacts
      <3>2. IsSeq(Out(net, q, r)) /\ \A x \in Elems(Out(net, q, r)) : x.view \in Nat
        BY <1>3, <2>4, OutFacts
      <3>3. CASE Out(net', q, r) = Out(net, q, r)
        <4>1. /\ \A v \in Nat : Heard(rep[r], Out(net, q, r), v) => Heard(s, Out(net, q, r), v)
              /\ InOrder(rep[r], Out(net, q, r)) => InOrder(s, Out(net, q, r))
          BY <3>2, HeardStays
        <4> QED BY <2>2, <2>4, <3>1, <3>3, <4>1
      <3>4. CASE /\ Out(net, q, r) # <<>> /\ Out(net', q, r) = Tail(Out(net, q, r))
                 /\ \A v \in Nat : Starts(Head(Out(net, q, r)), v) => Informed(s, v)
        <4>1. /\ \A v \in Nat : Heard(rep[r], Out(net, q, r), v) => Heard(s, Tail(Out(net, q, r)), v)
              /\ InOrder(rep[r], Out(net, q, r)) => InOrder(s, Tail(Out(net, q, r)))
          BY <3>2, <3>4, HeardTail
        <4> QED BY <2>2, <2>4, <3>1, <3>4, <4>1
      <3> QED BY <1>3, <2>4, <3>3, <3>4 DEF Reads
    <2>5. CASE q # r /\ p # r
      BY <1>2, <1>3, <2>2, <2>5, SMT DEF Apart
    <2> QED BY <2>3, <2>4, <2>5
  <1>4. ASSUME NEW q \in Replicas, NEW p \in Replicas, q # p PROVE Told(rep, net, q, p)'
    BY <1>3, <1>4 DEF Told, Out
  <1> QED BY <1>4 DEF ToldAll

\* Where SendMessageToAll writes.
LEMMA SendToAllOut ==
    ASSUME NEW n, NEW r, NEW m, NEW q \in Replicas, NEW p \in Replicas, q # p
    PROVE  Out(SendToAll(n, r, m), q, p) = IF q = r /\ Up(p) THEN Append(Out(n, q, p), m) ELSE Out(n, q, p)
  <1>1. PICK c : c = <<q, p, "out">>
    OBVIOUS
  <1>2. c \in Channels /\ c[1] = q /\ c[2] = p /\ c[3] = "out"
    BY <1>1, Connection
  <1>3. SendToAll(n, r, m)[c] = IF q = r /\ Up(p) THEN Append(n[c], m) ELSE n[c]
    BY <1>2 DEF SendToAll
  <1> QED BY <1>1, <1>3 DEF Out

\* Where SendMessage writes.
LEMMA SendOut ==
    ASSUME NEW n, n = [c \in Channels |-> n[c]], NEW r, NEW d, NEW k, NEW m,
           NEW q \in Replicas, NEW p \in Replicas, q # p
    PROVE  Out(Send(n, r, d, k, m), q, p) = IF k = "out" /\ q = r /\ p = d /\ Up(d) THEN Append(Out(n, q, p), m)
                                            ELSE Out(n, q, p)
  <1>1. PICK c, e : c = <<q, p, "out">> /\ e = <<r, d, k>>
    OBVIOUS
  <1>2. c \in Channels
    BY <1>1, Connection
  <1>3. c = e <=> q = r /\ p = d /\ k = "out"
    BY <1>1, SMT
  <1>4. Send(n, r, d, k, m)[c] = IF Up(d) /\ c = e THEN Append(n[c], m) ELSE n[c]
    BY <1>1, <1>2 DEF Send
  <1> QED BY <1>1, <1>3, <1>4, SMT DEF Out

\* Which connection a message is taken from.
LEMMA RestOut ==
    ASSUME net = [c \in Channels |-> net[c]], NEW z, NEW r, NEW k, NEW q \in Replicas, NEW p \in Replicas, q # p
    PROVE  Out(Rest(<<z, r, k>>), q, p) = IF k = "out" /\ q = z /\ p = r THEN Tail(Out(net, q, p)) ELSE Out(net, q, p)
  <1>1. PICK c, e : c = <<q, p, "out">> /\ e = <<z, r, k>>
    OBVIOUS
  <1>2. c \in Channels
    BY <1>1, Connection
  <1>3. c = e <=> q = z /\ p = r /\ k = "out"
    BY <1>1, SMT
  <1>4. Rest(e)[c] = IF c = e THEN Tail(net[c]) ELSE net[c]
    BY <1>2 DEF Rest
  <1> QED BY <1>1, <1>3, <1>4, SMT DEF Out

\* A replica that is in no view change, or stays in the one it is in, tells no
\* less when it sends nothing or something other than a DOVIEWCHANGE.
LEMMA TellsMore ==
    ASSUME ViewInv, ToldAll, NEW r \in Replicas, NEW s,
           s.status # "viewchange" \/ (s.status = rep[r].status /\ s.view = rep[r].view),
           \A p \in Replicas : p # r =>
               \/ Out(net', r, p) = Out(net, r, p)
               \/ \E m : m.type # "dvc" /\ Out(net', r, p) = Append(Out(net, r, p), m)
    PROVE  Tells(r, s)
  <1> SUFFICES ASSUME NEW p \in Replicas, p # r, Up(p)
               PROVE  /\ s.status = "viewchange" => Heard(rep[p], Out(net', r, p), s.view)
                      /\ InOrder(rep[p], Out(net', r, p))
    BY DEF Tells
  <1>1. /\ rep[r].status = "viewchange" => Heard(rep[p], Out(net, r, p), rep[r].view)
        /\ InOrder(rep[p], Out(net, r, p))
    BY SMT DEF ToldAll, Told, Up, Out
  <1>2. IsSeq(Out(net, r, p))
    BY OutFacts
  <1>3. CASE Out(net', r, p) = Out(net, r, p)
    BY <1>1, <1>3
  <1>4. ASSUME NEW m, m.type # "dvc", Out(net', r, p) = Append(Out(net, r, p), m)
        PROVE  /\ s.status = "viewchange" => Heard(rep[p], Out(net', r, p), s.view)
               /\ InOrder(rep[p], Out(net', r, p))
    <2>1. /\ \A v : Heard(rep[p], Out(net, r, p), v) => Heard(rep[p], Append(Out(net, r, p), m), v)
          /\ InOrder(rep[p], Out(net, r, p)) => InOrder(rep[p], Append(Out(net, r, p), m))
      BY <1>2, <1>4, HeardAppend, SMT
    <2> QED BY <1>1, <1>4, <2>1
  <1> QED BY <1>3, <1>4

\* Taking a message off a connection to a replica: it is nothing to know of, or
\* the replica knows it afterwards.
Takes(r, s, n) ==
    \/ n = net
    \/ \E q \in Replicas, k \in {"out", "re"} :
         /\ q # r /\ n = Rest(<<q, r, k>>) /\ net[<<q, r, k>>] # <<>>
         /\ k = "out" => \A v \in Nat : Starts(Head(Out(net, q, r)), v) => Informed(s, v)

\* The replica writes to its own connections only.
WritesOwn(r, n) == \A q, p \in Replicas : q # p /\ q # r => Out(net', q, p) = Out(n, q, p)

\* What has been taken and written, connection by connection.
LEMMA TakesFacts ==
    ASSUME ViewInv, NEW r \in Replicas, NEW s, NEW n, Takes(r, s, n), WritesOwn(r, n)
    PROVE  Reads(r, s) /\ Apart(r) /\ \A p \in Replicas : p # r => Out(n, r, p) = Out(net, r, p)
  <1>1. CASE n = net
    BY <1>1 DEF Reads, Apart, WritesOwn
  <1>2. ASSUME NEW z \in Replicas, NEW k \in {"out", "re"}, z # r, n = Rest(<<z, r, k>>), net[<<z, r, k>>] # <<>>,
               k = "out" => \A v \in Nat : Starts(Head(Out(net, z, r)), v) => Informed(s, v)
        PROVE  Reads(r, s) /\ Apart(r) /\ \A p \in Replicas : p # r => Out(n, r, p) = Out(net, r, p)
    <2>1. net = [c \in Channels |-> net[c]]
      BY MemberFacts
    <2>2. \A q, p \in Replicas : q # p =>
             Out(n, q, p) = IF k = "out" /\ q = z /\ p = r THEN Tail(Out(net, q, p)) ELSE Out(net, q, p)
      BY <1>2, <2>1, RestOut, SMT
    <2>3. \A q, p \in Replicas : q # p /\ p # r => Out(n, q, p) = Out(net, q, p)
      BY <2>2
    <2>4. Apart(r)
      BY <2>3 DEF Apart, WritesOwn
    <2>5. ASSUME NEW q \in Replicas, q # r
          PROVE  \/ Out(net', q, r) = Out(net, q, r)
                 \/ /\ Out(net, q, r) # <<>> /\ Out(net', q, r) = Tail(Out(net, q, r))
                    /\ \A v \in Nat : Starts(Head(Out(net, q, r)), v) => Informed(s, v)
      <3>1. Out(net', q, r) = Out(n, q, r)
        BY <2>5, SMT DEF WritesOwn
      <3>2. CASE k = "out" /\ q = z
        <4>1. Out(net, q, r) # <<>>
          BY <1>2, <3>2 DEF Out
        <4>2. Out(n, q, r) = Tail(Out(net, q, r))
          BY <2>2, <2>5, <3>2
        <4> QED BY <1>2, <3>1, <3>2, <4>1, <4>2
      <3>3. CASE ~(k = "out" /\ q = z)
        BY <2>2, <2>5, <3>1, <3>3
      <3> QED BY <3>2, <3>3, SMT
    <2>6. Reads(r, s)
      BY <2>5, SMT DEF Reads
    <2> QED BY <2>3, <2>4, <2>6, SMT
  <1> QED BY <1>1, <1>2 DEF Takes

\* A step that sends no DOVIEWCHANGE, and neither begins nor joins a view change.
LEMMA PlainTold ==
    ASSUME ViewInv, ToldAll, NEW r \in Replicas, Up(r), NEW s, rep' = [rep EXCEPT ![r] = s], s.failed = "no",
           Advances(rep[r], s), s.status # "viewchange" \/ (s.status = rep[r].status /\ s.view = rep[r].view),
           NEW n, Takes(r, s, n),
           \/ net' = n
           \/ \E m : m.type # "dvc" /\ net' = SendToAll(n, r, m)
           \/ \E d, m : n = [c \in Channels |-> n[c]] /\ net' = Send(n, r, d, "re", m)
    PROVE  ToldAll'
  <1>1. ASSUME NEW q \in Replicas, NEW p \in Replicas, q # p
        PROVE  \/ Out(net', q, p) = Out(n, q, p)
               \/ q = r /\ \E m : m.type # "dvc" /\ Out(net', q, p) = Append(Out(n, q, p), m)
    <2>1. CASE net' = n
      BY <2>1
    <2>2. ASSUME NEW m, m.type # "dvc", net' = SendToAll(n, r, m)
          PROVE  Out(net', q, p) = Out(n, q, p) \/ (q = r /\ Out(net', q, p) = Append(Out(n, q, p), m))
      <3>1. Out(SendToAll(n, r, m), q, p) = IF q = r /\ Up(p) THEN Append(Out(n, q, p), m) ELSE Out(n, q, p)
        BY <1>1, SendToAllOut, SMT
      <3> QED BY <2>2, <3>1
    <2>3. ASSUME NEW d, NEW m, n = [c \in Channels |-> n[c]], net' = Send(n, r, d, "re", m)
          PROVE  Out(net', q, p) = Out(n, q, p)
      <3>1. Out(Send(n, r, d, "re", m), q, p) = Out(n, q, p)
        BY <1>1, <2>3, SendOut, SMT
      <3> QED BY <2>3, <3>1
    <2> QED BY <2>1, <2>2, <2>3
  <1>2. WritesOwn(r, n)
    BY <1>1 DEF WritesOwn
  <1>3. Reads(r, s) /\ Apart(r) /\ \A p \in Replicas : p # r => Out(n, r, p) = Out(net, r, p)
    BY <1>2, TakesFacts, SMT
  <1>4. \A p \in Replicas : p # r =>
            \/ Out(net', r, p) = Out(net, r, p)
            \/ \E m : m.type # "dvc" /\ Out(net', r, p) = Append(Out(net, r, p), m)
    BY <1>1, <1>3
  <1>5. Tells(r, s)
    BY <1>4, TellsMore
  <1> QED BY <1>3, <1>5, ToldStep

\* A replica whose ASSERT failed hears nothing any more.
LEMMA AbortTold ==
    ASSUME ViewInv, ToldAll, NEW r \in Replicas, NEW a, a # "no", Abort(r, a)
    PROVE  ToldAll'
  <1> DEFINE s == [rep[r] EXCEPT !.failed = a]
  <1>1. IsMember(rep[r]) /\ rep = [p \in Replicas |-> rep[p]]
    BY MemberFacts, SMT
  <1>2. s.failed # "no" /\ s.view = rep[r].view /\ s.status = rep[r].status
    BY <1>1, SMT DEF IsMember, Fields
  <1>3. rep' = [rep EXCEPT ![r] = s]
    BY DEF Abort
  <1> HIDE DEF s
  <1>4. rep'[r] = s /\ \A q \in Replicas : q # r => rep'[q] = rep[q]
    BY <1>1, <1>3
  <1>5. ASSUME NEW q \in Replicas, NEW p \in Replicas, q # p PROVE Told(rep, net, q, p)'
    <2>1. CASE p = r
      BY <1>2, <1>4, <2>1, SMT DEF Told
    <2>2. CASE p # r
      <3>1. PICK c : c = <<q, p, "out">>
        OBVIOUS
      <3>2. c \in Channels /\ c[2] = p
        BY <1>5, <3>1, Connection
      <3>3. net'[c] = net[c]
        BY <2>2, <3>2 DEF Abort
      <3>4. rep'[p] = rep[p] /\ rep'[q].status = rep[q].status /\ rep'[q].view = rep[q].view
        BY <1>2, <1>4, <2>2
      <3>5. Told(rep, net, q, p)
        BY <1>5, SMT DEF ToldAll
      <3> QED BY <3>1, <3>3, <3>4, <3>5 DEF Told
    <2> QED BY <2>1, <2>2
  <1> QED BY <1>5 DEF ToldAll

-----------------------------------------------------------------------------
(* Every step keeps the order *)

\* Members that differ in neither the view nor the votes are informed of the same.
LEMMA SameAdvances ==
    ASSUME NEW s, NEW s2, SameView(s, s2)
    PROVE  Advances(s, s2)
  BY DEF SameView, Advances, Informed

\* A message other than a STARTVIEWCHANGE is nothing to know of.
LEMMA TakesOther ==
    ASSUME NEW r \in Replicas, NEW q \in Replicas, q # r, NEW k \in {"out", "re"}, net[<<q, r, k>>] # <<>>,
           Head(net[<<q, r, k>>]).type # "svc", NEW s
    PROVE  Takes(r, s, Rest(<<q, r, k>>))
  <1>1. k = "out" => \A v \in Nat : ~Starts(Head(Out(net, q, r)), v)
    BY DEF Starts, Out
  <1> QED BY <1>1 DEF Takes

\* Requests, null commits and the timer of a state transfer.
LEMMA RequestTold ==
    ASSUME ViewInv, ToldAll, NEW r \in Replicas,
           \/ StateTransferTimeout(r) \/ (\E id \in 1 .. MaxRequests : HandleRequest(r, id))
           \/ SendNullCommit(r)
    PROVE  ToldAll'
  <1>1. Up(r)
    BY DEF StateTransferTimeout, HandleRequest, SendNullCommit
  <1>2. \A s : Takes(r, s, net)
    BY SMT DEF Takes
  <1>3. CASE SendNullCommit(r)
    <2> DEFINE m == [type |-> "commit", view |-> rep[r].view, opnum |-> rep[r].lastCommitted]
    <2>1. rep' = [rep EXCEPT ![r] = rep[r]] /\ rep[r].failed = "no" /\ Advances(rep[r], rep[r])
      BY <1>1, <1>3, MemberFacts DEF SendNullCommit, Up, Advances
    <2>2. m.type # "dvc" /\ net' = SendToAll(net, r, m)
      BY <1>3 DEF SendNullCommit
    <2> HIDE DEF m
    <2> QED BY <1>1, <1>2, <2>1, <2>2, PlainTold
  <1>4. CASE StateTransferTimeout(r) \/ \E id \in 1 .. MaxRequests : HandleRequest(r, id)
    <2>1. PICK s : rep' = [rep EXCEPT ![r] = s] /\ SameView(rep[r], s) /\ s.failed = rep[r].failed
      BY <1>4, RequestMembers
    <2>2. Advances(rep[r], s) /\ s.status = rep[r].status /\ s.view = rep[r].view /\ s.failed = "no"
      BY <1>1, <2>1, SameAdvances, SMT DEF SameView, Up
    <2>3. net' = net
      BY <1>4 DEF StateTransferTimeout, HandleRequest
    <2> QED BY <1>1, <1>2, <2>1, <2>2, <2>3, PlainTold
  <1> QED BY <1>3, <1>4, SMT

\* A message that is ignored was nothing to know of, or known.
LEMMA IgnoreTold ==
    ASSUME ViewInv, ToldAll, NEW r \in Replicas, Up(r), NEW c, Takes(r, rep[r], Rest(c)), Ignore(c)
    PROVE  ToldAll'
  <1>1. rep' = [rep EXCEPT ![r] = rep[r]] /\ rep[r].failed = "no" /\ Advances(rep[r], rep[r])
    BY MemberFacts, SMT DEF Ignore, Up, Advances
  <1>2. net' = Rest(c)
    BY SMT DEF Ignore
  <1> QED BY <1>1, <1>2, PlainTold

\* HandleCommit and HandleRequestStateTransfer.
LEMMA TransferTold ==
    ASSUME ViewInv, ToldAll, NEW r \in Replicas, NEW q \in Replicas, q # r,
           HandleCommit(r, q) \/ HandleRequestStateTransfer(r, q)
    PROVE  ToldAll'
  <1> DEFINE c == <<q, r, "out">>
             m == [type |-> "st", view |-> rep[r].view, opnum |-> rep[r].lastCommitted]
             a == [type |-> "rst", view |-> rep[r].view, opnum |-> rep[r].lastCommitted]
  <1>1. net[c] # <<>> /\ Up(r) /\ Head(net[c]).type # "svc"
    BY DEF HandleCommit, HandleRequestStateTransfer, Receives
  <1>2. \/ Ignore(c) \/ RequestStateTransfer(r, c)
        \/ net' = Send(Rest(c), r, q, "re", m) /\ UNCHANGED rep
    BY SMT DEF HandleCommit, HandleRequestStateTransfer
  <1>3. \A s : Takes(r, s, Rest(c))
    BY <1>1, TakesOther
  <1>4. CASE RequestStateTransfer(r, c)
    <2>1. PICK s : rep' = [rep EXCEPT ![r] = s] /\ SameView(rep[r], s) /\ s.failed = rep[r].failed
      BY <1>4, AskedMembers
    <2>2. Advances(rep[r], s) /\ s.status = rep[r].status /\ s.view = rep[r].view /\ s.failed = "no"
      BY <1>1, <2>1, SameAdvances, SMT DEF SameView, Up
    <2>3. net' = Rest(c) \/ (a.type # "dvc" /\ net' = SendToAll(Rest(c), r, a))
      BY <1>4, SMT DEF RequestStateTransfer
    <2> HIDE DEF a, c
    <2> QED BY <1>1, <1>3, <2>1, <2>2, <2>3, PlainTold
  <1>5. CASE net' = Send(Rest(c), r, q, "re", m) /\ UNCHANGED rep
    <2>1. rep' = [rep EXCEPT ![r] = rep[r]] /\ rep[r].failed = "no" /\ Advances(rep[r], rep[r])
      BY <1>1, <1>5, MemberFacts, SMT DEF Up, Advances
    <2>2. Rest(c) = [d \in Channels |-> Rest(c)[d]]
      BY MemberFacts DEF Rest
    <2> HIDE DEF m, c
    <2> QED BY <1>1, <1>3, <1>5, <2>1, <2>2, PlainTold
  <1> QED BY <1>1, <1>2, <1>3, <1>4, <1>5, IgnoreTold

\* The votes of a replica are for views that it has reached.
LEMMA VotesBound ==
    ASSUME ViewInv, NEW r \in Replicas
    PROVE  \A x \in rep[r].svc : x.view \in Nat /\ rep[r].view >= x.view
  <1>1. VotesOK(Views(rep), r, rep[r].svc) /\ Views(rep)[r] = rep[r].view
    BY MemberFacts
  <1> QED BY <1>1 DEF VotesOK

\* HandleStateTransfer and HandleStartView: the replica enters a view.
LEMMA EnterTold ==
    ASSUME ViewInv, ToldAll, NEW r \in Replicas, NEW q \in Replicas, q # r,
           HandleStateTransfer(r, q) \/ HandleStartView(r, q)
    PROVE  ToldAll'
  <1>1. PICK k \in {"out", "re"} :
            \/ k = "re" /\ HandleStateTransfer(r, q)
            \/ k = "out" /\ HandleStartView(r, q)
    OBVIOUS
  <1>2. PICK c : c = <<q, r, k>>
    OBVIOUS
  <1>3. PICK m : m = Head(net[c])
    OBVIOUS
  <1>4. net[c] # <<>> /\ Up(r) /\ m.type \in {"st", "sv"}
    BY <1>1, <1>2, <1>3 DEF HandleStateTransfer, HandleStartView, Receives
  <1>5. MessageOK(Views(rep), q, m)
    BY <1>2, <1>3, <1>4, RestLater, MemberFacts
  <1>6. m.view \in Nat /\ IsMember(rep[r]) /\ rep[r].view \in Nat /\ rep = [p \in Replicas |-> rep[p]]
    BY <1>5, MemberFacts DEF MessageOK
  <1>7. \A s : Takes(r, s, Rest(c))
    <2>1. Head(net[c]).type # "svc"
      BY <1>3, <1>4
    <2> QED BY <1>2, <1>4, <2>1, TakesOther
  <1>8. \/ Ignore(c) \/ Abort(r, "statetransfer") \/ Abort(r, "startview")
        \/ net' = Rest(c) /\ rep' = [rep EXCEPT ![r] = rep[r]]
        \/ net' = Rest(c) /\ m.view > rep[r].view /\ rep' = [rep EXCEPT ![r] = EnterView(r, rep[r], m.view)]
        \/ net' = Rest(c) /\ ~Old(rep[r], m) /\ rep' = [rep EXCEPT ![r] = EnterAt(r, rep[r], m.view, m.lastop)]
    BY <1>1, <1>2, <1>3 DEF HandleStateTransfer, HandleStartView, EnterAt
  <1>9. CASE net' = Rest(c) /\ rep' = [rep EXCEPT ![r] = rep[r]]
    <2>1. Ignore(c)
      BY <1>6, <1>9 DEF Ignore
    <2> QED BY <1>4, <1>7, <2>1, IgnoreTold
  <1>10. ASSUME NEW s, net' = Rest(c), rep' = [rep EXCEPT ![r] = s], rep[r].view <= m.view, s.view = m.view,
                s.status = "normal", s.failed = rep[r].failed
         PROVE  ToldAll'
    <2>1. s.status # "viewchange" /\ s.failed = "no"
      BY <1>4, <1>10 DEF Up
    <2>2. Advances(rep[r], s)
      BY <1>6, <1>10, <2>1, VotesBound, Advance, SMT
    <2> QED BY <1>4, <1>7, <1>10, <2>1, <2>2, PlainTold
  <1>11. CASE net' = Rest(c) /\ m.view > rep[r].view /\ rep' = [rep EXCEPT ![r] = EnterView(r, rep[r], m.view)]
    <2>1. PICK s : s = EnterView(r, rep[r], m.view)
      OBVIOUS
    <2>2. s.view = m.view /\ s.status = "normal" /\ s.failed = rep[r].failed
      BY <1>6, <2>1, EnterViewFacts, SMT
    <2>3. rep[r].view <= m.view
      BY <1>6, <1>11, SMT
    <2> QED BY <1>10, <1>11, <2>1, <2>2, <2>3
  <1>12. CASE net' = Rest(c) /\ ~Old(rep[r], m) /\ rep' = [rep EXCEPT ![r] = EnterAt(r, rep[r], m.view, m.lastop)]
    <2>1. PICK old, v, op, s : old = rep[r] /\ v = m.view /\ op = m.lastop /\ s = EnterAt(r, old, v, op)
      OBVIOUS
    <2>2. s.view = v /\ s.status = "normal" /\ s.failed = old.failed
      BY <1>6, <2>1, EnterAtFacts, SMT
    <2>3. rep[r].view <= m.view
      BY <1>6, <1>12, JoinFacts
    <2> QED BY <1>10, <1>12, <2>1, <2>2, <2>3
  <1>13. "statetransfer" # "no" /\ "startview" # "no"
    OBVIOUS
  <1> QED BY <1>4, <1>7, <1>8, <1>9, <1>11, <1>12, <1>13, IgnoreTold, AbortTold

\* What a replica in a view change has told, before its next message.
LEMMA JoinTells ==
    ASSUME ViewInv, ToldAll, NEW r \in Replicas, NEW m, m.view \in Nat, ~Old(rep[r], m),
           NEW n, \A p \in Replicas : p # r => Out(n, r, p) = Out(net, r, p),
           NEW j, j = JoinMsgs(n, r, m)
    PROVE  /\ \A q, p \in Replicas : q # p /\ q # r => Out(j, q, p) = Out(n, q, p)
           /\ \A p \in Replicas : p # r /\ Up(p) =>
                 /\ IsSeq(Out(j, r, p)) /\ Heard(rep[p], Out(j, r, p), m.view) /\ InOrder(rep[p], Out(j, r, p))
  <1>1. IsMember(rep[r]) /\ rep[r].view \in Nat
    BY MemberFacts
  <1>2. PICK x : x = StartViewChangeMsg(r, m.view)
    OBVIOUS
  <1>3. Starts(x, m.view) /\ x.type # "dvc"
    BY <1>2 DEF StartViewChangeMsg, Starts
  <1>4. ASSUME NEW q \in Replicas, NEW p \in Replicas, q # p
        PROVE  Out(j, q, p) = IF Joins(rep[r], m) /\ q = r /\ Up(p) THEN Append(Out(n, q, p), x) ELSE Out(n, q, p)
    <2>1. Out(SendToAll(n, r, x), q, p) = IF q = r /\ Up(p) THEN Append(Out(n, q, p), x) ELSE Out(n, q, p)
      BY <1>4, SendToAllOut, SMT
    <2> QED BY <1>2, <2>1 DEF JoinMsgs
  <1>5. ASSUME NEW p \in Replicas, p # r, Up(p)
        PROVE  IsSeq(Out(j, r, p)) /\ Heard(rep[p], Out(j, r, p), m.view) /\ InOrder(rep[p], Out(j, r, p))
    <2>1. PICK ch : ch = Out(net, r, p)
      OBVIOUS
    <2>2. IsSeq(ch) /\ Out(n, r, p) = ch
      BY <1>5, <2>1, OutFacts
    <2>3. (rep[r].status = "viewchange" => Heard(rep[p], ch, rep[r].view)) /\ InOrder(rep[p], ch)
      BY <1>5, <2>1 DEF ToldAll, Told, Up, Out
    <2>4. CASE Joins(rep[r], m)
      <3>1. Out(j, r, p) = Append(ch, x)
        BY <1>4, <1>5, <2>2, <2>4
      <3>2. IsSeq(Append(ch, x))
        BY <2>2, AppendSeq
      <3>3. Heard(rep[p], Append(ch, x), m.view) /\ InOrder(rep[p], Append(ch, x))
        BY <1>3, <2>2, <2>3, HeardAppend
      <3> QED BY <3>1, <3>2, <3>3
    <2>5. CASE ~Joins(rep[r], m)
      <3>1. Out(j, r, p) = ch
        BY <1>4, <1>5, <2>2, <2>5
      <3>2. rep[r].view < m.view \/ (rep[r].view = m.view /\ rep[r].status = "viewchange")
        BY <1>1, JoinFacts
      <3>3. ~(rep[r].view < m.view)
        BY <1>1, <2>5, SMT DEF Joins
      <3> QED BY <2>2, <2>3, <3>1, <3>2, <3>3
    <2> QED BY <2>4, <2>5
  <1>6. \A q, p \in Replicas : q # p /\ q # r => Out(j, q, p) = Out(n, q, p)
    BY <1>4
  <1> QED BY <1>5, <1>6

\* What is taken before anything is written.
LEMMA TakenOut ==
    ASSUME ViewInv, NEW r \in Replicas, NEW q \in Replicas, q # r
    PROVE  \A p \in Replicas : p # r => Out(Rest(<<q, r, "out">>), r, p) = Out(net, r, p)
  <1>1. net = [c \in Channels |-> net[c]]
    BY MemberFacts
  <1> QED BY <1>1, RestOut, SMT

\* HandleStartViewChange: a replica tells everyone of the view change before it
\* sends the leader its DOVIEWCHANGE.
LEMMA StartViewChangeTold ==
    ASSUME F \in Nat, ViewInv, ToldAll, NEW r \in Replicas, NEW q \in Replicas, q # r, HandleStartViewChange(r, q)
    PROVE  ToldAll'
  <1>0. PICK c : c = <<q, r, "out">>
    OBVIOUS
  <1>1. PICK m : m = Head(net[c])
    OBVIOUS
  <1>2. PICK s : CountsStart(rep[r], m, s)
    BY DEF CountsStart
  <1>3. net[c] # <<>> /\ m.type = "svc" /\ Up(r)
    BY <1>0, <1>1 DEF HandleStartViewChange, Receives
  <1>4. NetOK(Views(rep), Rest(c)) /\ m.view \in Nat
    BY <1>0, <1>1, <1>3, RestLater, MemberFacts DEF MessageOK
  <1>5. PICK j, leader, x : j = JoinMsgs(Rest(c), r, m) /\ leader = GetLeaderIndex(m.view) /\ x = DoViewChangeMsg(r, s)
    OBVIOUS
  <1>6. \/ Old(rep[r], m) /\ Ignore(c)
        \/ /\ ~Old(rep[r], m) /\ rep' = [rep EXCEPT ![r] = s]
           /\ net' = j \/ net' = Send(j, r, leader, "out", x)
    BY <1>0, <1>1, <1>2, <1>5 DEF HandleStartViewChange, CountsStart
  <1>7. CASE Old(rep[r], m) /\ Ignore(c)
    <2>1. Informed(rep[r], m.view)
      <3>1. IsMember(rep[r]) /\ rep[r].view \in Nat
        BY MemberFacts
      <3>2. m.view < rep[r].view => rep[r].view > m.view
        BY <1>4, <3>1, SMT
      <3> QED BY <1>7, <3>2 DEF Old, Informed
    <2>2. \A v \in Nat : Starts(Head(Out(net, q, r)), v) => Informed(rep[r], v)
      BY <1>0, <1>1, <2>1, SMT DEF Starts, Out
    <2>3. Takes(r, rep[r], Rest(c))
      BY <1>0, <1>3, <2>2 DEF Takes
    <2> QED BY <1>3, <1>7, <2>3, IgnoreTold
  <1>8. CASE /\ ~Old(rep[r], m) /\ rep' = [rep EXCEPT ![r] = s]
             /\ net' = j \/ net' = Send(j, r, leader, "out", x)
    <2>1. IsMember(rep[r]) /\ rep[r].view \in Nat
      BY MemberFacts, SMT
    <2>2. /\ s.view = m.view /\ s.status = "viewchange" /\ s.svc = Add(rep[r].svc, m)
          /\ s.failed = "no"
      BY <1>2, <1>3, <1>4, <1>8, <2>1, CountsStartFacts, SMT DEF Up
    <2>3. rep[r].view <= m.view /\ (rep[r].view < m.view \/ rep[r].status = "viewchange")
      BY <1>4, <1>8, <2>1, JoinFacts
    <2>4. Advances(rep[r], s)
      BY <1>4, <2>1, <2>2, <2>3, VotesBound, Advance, SMT
    <2>5. Informed(s, m.view)
      <3>1. m \in GetMessages(s.svc, m.view)
        BY <2>2, SMT DEF GetMessages, Add
      <3> QED BY <3>1 DEF Informed
    <2>6. Takes(r, s, Rest(c))
      <3>1. \A v \in Nat : Starts(Head(Out(net, q, r)), v) => Informed(s, v)
        BY <1>0, <1>1, <2>5, SMT DEF Starts, Out
      <3> QED BY <1>0, <1>3, <3>1 DEF Takes
    <2>7. \A p \in Replicas : p # r => Out(Rest(c), r, p) = Out(net, r, p)
      BY <1>0, TakenOut
    <2>8. /\ \A z, p \in Replicas : z # p /\ z # r => Out(j, z, p) = Out(Rest(c), z, p)
          /\ \A p \in Replicas : p # r /\ Up(p) =>
                /\ IsSeq(Out(j, r, p)) /\ Heard(rep[p], Out(j, r, p), m.view) /\ InOrder(rep[p], Out(j, r, p))
      BY <1>4, <1>5, <1>8, <2>7, JoinTells, SMT
    <2>9. j = [d \in Channels |-> j[d]]
      <3>1. Rest(c) = [d \in Channels |-> Rest(c)[d]]
        BY <1>4 DEF NetOK
      <3> QED BY <1>5, <3>1 DEF JoinMsgs, SendToAll
    <2>10. x.view = m.view
      BY <1>5, <2>2 DEF DoViewChangeMsg
    <2>11. ASSUME NEW z \in Replicas, NEW p \in Replicas, z # p
           PROVE  Out(net', z, p) = Out(j, z, p) \/ (z = r /\ Out(net', z, p) = Append(Out(j, z, p), x))
      <3>1. Out(Send(j, r, leader, "out", x), z, p) =
                IF "out" = "out" /\ z = r /\ p = leader /\ Up(leader) THEN Append(Out(j, z, p), x) ELSE Out(j, z, p)
        BY <2>9, <2>11, SendOut, SMT
      <3> QED BY <1>8, <3>1
    <2>12. WritesOwn(r, Rest(c))
      BY <2>8, <2>11 DEF WritesOwn
    <2>13. Reads(r, s) /\ Apart(r)
      BY <2>6, <2>12, TakesFacts
    <2>14. Tells(r, s)
      <3> SUFFICES ASSUME NEW p \in Replicas, p # r, Up(p)
                   PROVE  Heard(rep[p], Out(net', r, p), m.view) /\ InOrder(rep[p], Out(net', r, p))
        BY <2>2 DEF Tells
      <3>1. IsSeq(Out(j, r, p)) /\ Heard(rep[p], Out(j, r, p), m.view) /\ InOrder(rep[p], Out(j, r, p))
        BY <2>8
      <3>2. Heard(rep[p], Append(Out(j, r, p), x), m.view) /\ InOrder(rep[p], Append(Out(j, r, p), x))
        BY <2>10, <3>1, HeardAppend
      <3> QED BY <2>11, <3>1, <3>2
    <2> QED BY <1>3, <1>8, <2>2, <2>4, <2>13, <2>14, ToldStep
  <1> QED BY <1>6, <1>7, <1>8

\* HandleDoViewChange: a replica that joins the view change tells everyone.
LEMMA DoViewChangeTold ==
    ASSUME F \in Nat, ViewInv, ToldAll, NEW r \in Replicas, NEW q \in Replicas, q # r, HandleDoViewChange(r, q)
    PROVE  ToldAll'
  <1>0. PICK c : c = <<q, r, "out">>
    OBVIOUS
  <1>1. PICK m : m = Head(net[c])
    BY SMT
  <1>2. PICK s : CountsDo(rep[r], m, s)
    BY DEF CountsDo
  <1>3. net[c] # <<>> /\ m.type = "dvc" /\ Up(r)
    BY <1>0, <1>1 DEF HandleDoViewChange, Receives
  <1>4. m.view \in Nat
    BY <1>0, <1>1, <1>3, RestLater, MemberFacts DEF MessageOK
  <1>5. \A s2 : Takes(r, s2, Rest(c))
    <2>1. Head(net[c]).type # "svc"
      BY <1>1, <1>3, SMT
    <2> QED BY <1>0, <1>3, <2>1, TakesOther
  <1>6. \/ Old(rep[r], m) /\ Ignore(c)
        \/ Abort(r, "doviewchange")
        \/ ~Old(rep[r], m) /\ DoViewChangeEffect(r, c, m, s)
    BY <1>0, <1>1, <1>2, DoViewChangeCases
  <1>7. ASSUME ~Old(rep[r], m), DoViewChangeEffect(r, c, m, s) PROVE ToldAll'
    <2>1. IsMember(rep[r]) /\ rep[r].view \in Nat
      BY MemberFacts, SMT
    <2>2. IsMember(s) /\ s.view = m.view /\ s.status = "viewchange" /\ s.svc = rep[r].svc /\ s.failed = "no"
      BY <1>2, <1>3, <1>4, <1>7, <2>1, CountsDoFacts, SMT DEF Up
    <2>3. rep[r].view <= m.view /\ (rep[r].view < m.view \/ rep[r].status = "viewchange")
      BY <1>4, <1>7, <2>1, JoinFacts
    <2>4. PICK j : j = JoinMsgs(Rest(c), r, m)
      OBVIOUS
    <2>5. \A p \in Replicas : p # r => Out(Rest(c), r, p) = Out(net, r, p)
      BY <1>0, TakenOut, SMT
    <2>6. /\ \A z, p \in Replicas : z # p /\ z # r => Out(j, z, p) = Out(Rest(c), z, p)
          /\ \A p \in Replicas : p # r /\ Up(p) =>
                /\ IsSeq(Out(j, r, p)) /\ Heard(rep[p], Out(j, r, p), m.view) /\ InOrder(rep[p], Out(j, r, p))
      BY <1>4, <1>7, <2>4, <2>5, JoinTells, SMT
    <2>7. PICK op, sv :
            /\ sv.type = "sv"
            /\ \/ rep' = [rep EXCEPT ![r] = s] /\ net' = j
               \/ rep' = [rep EXCEPT ![r] = EnterAt(r, s, m.view, op)] /\ net' = SendToAll(j, r, sv)
      BY <1>7, <2>4 DEF DoViewChangeEffect
    <2>8. CASE rep' = [rep EXCEPT ![r] = s] /\ net' = j
      <3>1. Advances(rep[r], s)
        BY <1>4, <2>1, <2>2, <2>3, VotesBound, Advance
      <3>2. WritesOwn(r, Rest(c))
        BY <2>6, <2>8 DEF WritesOwn
      <3>3. Reads(r, s) /\ Apart(r)
        BY <1>5, <3>2, TakesFacts
      <3>4. Tells(r, s)
        BY <2>2, <2>6, <2>8 DEF Tells
      <3> QED BY <1>3, <2>2, <2>8, <3>1, <3>3, <3>4, ToldStep
    <2>9. CASE rep' = [rep EXCEPT ![r] = EnterAt(r, s, m.view, op)] /\ net' = SendToAll(j, r, sv)
      <3>1. PICK e : e = EnterAt(r, s, m.view, op)
        OBVIOUS
      <3>2. e.view = m.view /\ e.status # "viewchange" /\ e.failed = "no"
        BY <2>2, <3>1, EnterAtFacts, SMT
      <3>3. Advances(rep[r], e)
        BY <1>4, <2>1, <2>3, <3>2, VotesBound, Advance
      <3>4. ASSUME NEW z \in Replicas, NEW p \in Replicas, z # p
            PROVE  Out(net', z, p) = IF z = r /\ Up(p) THEN Append(Out(j, z, p), sv) ELSE Out(j, z, p)
        BY <2>9, <3>4, SendToAllOut, SMT
      <3>5. WritesOwn(r, Rest(c))
        BY <2>6, <3>4 DEF WritesOwn
      <3>6. Reads(r, e) /\ Apart(r)
        BY <1>5, <3>5, TakesFacts
      <3>7. Tells(r, e)
        <4> SUFFICES ASSUME NEW p \in Replicas, p # r, Up(p) PROVE InOrder(rep[p], Out(net', r, p))
          BY <3>2 DEF Tells
        <4>1. IsSeq(Out(j, r, p)) /\ InOrder(rep[p], Out(j, r, p)) /\ Out(net', r, p) = Append(Out(j, r, p), sv)
          BY <2>6, <3>4
        <4>2. sv.type # "dvc"
          BY <2>7
        <4>3. InOrder(rep[p], Append(Out(j, r, p), sv))
          BY <4>1, <4>2, HeardAppend, SMT
        <4> QED BY <4>1, <4>3
      <3> QED BY <1>3, <2>9, <3>1, <3>2, <3>3, <3>6, <3>7, ToldStep
    <2> QED BY <2>7, <2>8, <2>9
  <1>8. "doviewchange" # "no"
    BY SMT
  <1> QED BY <1>3, <1>5, <1>6, <1>7, <1>8, IgnoreTold, AbortTold, SMT

\* viewChangeTimeout: the replica tells everyone of the view change it begins.
LEMMA TimeoutTold ==
    ASSUME ViewInv, ToldAll, NEW r \in Replicas, ViewChangeTimeout(r)
    PROVE  ToldAll'
  <1>1. PICK v, s, x : v = rep[r].view + 1 /\ s = StartViewChange(rep[r], v) /\ x = StartViewChangeMsg(r, v)
    OBVIOUS
  <1>2. Up(r) /\ rep' = [rep EXCEPT ![r] = s] /\ net' = SendToAll(net, r, x)
    BY <1>1 DEF ViewChangeTimeout
  <1>3. IsMember(rep[r]) /\ rep[r].view \in Nat
    BY MemberFacts
  <1>4. s.view = v /\ s.status = "viewchange" /\ s.failed = "no"
    BY <1>1, <1>2, <1>3, StartFacts, SMT DEF Up
  <1>5. v \in Nat /\ rep[r].view < v /\ rep[r].view <= v
    BY <1>1, <1>3, SMT
  <1>6. Advances(rep[r], s)
    BY <1>3, <1>4, <1>5, VotesBound, Advance
  <1>7. Starts(x, v) /\ x.type # "dvc"
    BY <1>1 DEF StartViewChangeMsg, Starts
  <1>8. ASSUME NEW q \in Replicas, NEW p \in Replicas, q # p
        PROVE  Out(net', q, p) = IF q = r /\ Up(p) THEN Append(Out(net, q, p), x) ELSE Out(net, q, p)
    BY <1>2, <1>8, SendToAllOut, SMT
  <1>9. WritesOwn(r, net) /\ Takes(r, s, net)
    BY <1>8 DEF WritesOwn, Takes
  <1>10. Reads(r, s) /\ Apart(r)
    BY <1>9, TakesFacts
  <1>11. Tells(r, s)
    <2> SUFFICES ASSUME NEW p \in Replicas, p # r, Up(p)
                 PROVE  Heard(rep[p], Out(net', r, p), v) /\ InOrder(rep[p], Out(net', r, p))
      BY <1>4 DEF Tells
    <2>1. IsSeq(Out(net, r, p)) /\ Out(net', r, p) = Append(Out(net, r, p), x)
      BY <1>8, OutFacts
    <2>2. InOrder(rep[p], Out(net, r, p))
      BY DEF ToldAll, Told, Up, Out
    <2>3. Heard(rep[p], Append(Out(net, r, p), x), v) /\ InOrder(rep[p], Append(Out(net, r, p), x))
      BY <1>7, <2>1, <2>2, HeardAppend, SMT
    <2> QED BY <2>1, <2>3
  <1> QED BY <1>2, <1>4, <1>6, <1>10, <1>11, ToldStep

\* Nobody is in a view change at first, and nothing has been sent.
LEMMA InitStarter == VRInit => StarterInv
  <1> SUFFICES ASSUME VRInit PROVE StarterInv
    OBVIOUS
  <1>1. broken \in Nat
    BY DEF VRInit
  <1>2. ASSUME NEW q \in Replicas, NEW p \in Replicas, q # p PROVE Told(rep, net, q, p)
    <2>1. rep[q].status # "viewchange"
      <3>1. PICK a, b : rep[q] = [status |-> "normal", view |-> 0, lastOp |-> 0, lastCommitted |-> 0, asked |-> <<0, 0>>,
                                  viewChangeTimeout |-> a, nullCommitTimeout |-> b, svc |-> {}, dvc |-> {},
                                  lastReqId |-> 0, failed |-> "no"]
        BY DEF VRInit
      <3> QED BY <3>1, SMT
    <2>2. <<q, p, "out">> \in Channels
      BY <1>2, Connection
    <2>3. net[<<q, p, "out">>] = <<>>
      BY <2>2 DEF VRInit
    <2>4. InOrder(rep[p], <<>>)
      BY EmptySeq DEF InOrder
    <2> QED BY <2>1, <2>3, <2>4 DEF Told
  <1> QED BY <1>1, <1>2, SMT DEF StarterInv

\* Every step that breaks no connection keeps the order.
LEMMA NextStarter == F \in Nat /\ ViewInv /\ StarterInv /\ [VRNext]_vrVars => StarterInv'
  <1> SUFFICES ASSUME F \in Nat, ViewInv, StarterInv, [VRNext]_vrVars PROVE StarterInv'
    OBVIOUS
  <1>1. CASE UNCHANGED vrVars
    BY <1>1 DEF vrVars, StarterInv, Told
  <1>2. ASSUME NEW r \in Replicas, NEW q \in Replicas, ConnectionBreaks(r, q) PROVE StarterInv'
    <2>1. broken' \in Nat /\ broken' # 0
      BY <1>2, SMT DEF ConnectionBreaks, StarterInv
    <2> QED BY <2>1 DEF StarterInv
  <1>3. ASSUME UNCHANGED broken, ToldAll => ToldAll' PROVE StarterInv'
    BY <1>3 DEF StarterInv, ToldAll
  <1>4. ASSUME NEW r \in Replicas,
               \/ StateTransferTimeout(r) \/ (\E id \in 1 .. MaxRequests : HandleRequest(r, id))
               \/ SendNullCommit(r) \/ ViewChangeTimeout(r)
        PROVE  StarterInv'
    <2>1. UNCHANGED broken
      BY <1>4 DEF StateTransferTimeout, HandleRequest, SendNullCommit, ViewChangeTimeout, Fire
    <2>2. ToldAll => ToldAll'
      BY <1>4, RequestTold, TimeoutTold, SMT
    <2> QED BY <1>3, <2>1, <2>2
  <1>5. ASSUME NEW r \in Replicas, NEW q \in Replicas \ {r},
               \/ HandleCommit(r, q) \/ HandleRequestStateTransfer(r, q) \/ HandleStateTransfer(r, q)
               \/ HandleStartViewChange(r, q) \/ HandleDoViewChange(r, q) \/ HandleStartView(r, q)
        PROVE  StarterInv'
    <2>1. UNCHANGED broken
      BY <1>5 DEF HandleCommit, HandleRequestStateTransfer, HandleStateTransfer, HandleStartViewChange,
                  HandleDoViewChange, HandleStartView
    <2>2. q \in Replicas /\ q # r
      OBVIOUS
    <2>3. ToldAll => ToldAll'
      BY <1>5, <2>2, TransferTold, EnterTold, StartViewChangeTold, DoViewChangeTold, SMT
    <2> QED BY <1>3, <2>1, <2>3
  <1> QED BY <1>1, <1>2, <1>4, <1>5 DEF VRNext

\* For any number of replicas: as long as no connection has broken, a replica
\* that reads a DOVIEWCHANGE it does not ignore has a STARTVIEWCHANGE of that
\* view, the one that HandleDoViewChange dereferences unchecked.
THEOREM VRQuorumKnowsStarter == VRSpec => []QuorumKnowsStarter
  <1> USE VRAssumption
  <1>1. VRInit => ViewInv /\ StarterInv
    BY InitView, InitStarter, SMT
  <1>2. ViewInv /\ StarterInv /\ [VRNext]_vrVars => ViewInv' /\ StarterInv'
    BY NextView, NextStarter, SMT
  <1>3. ViewInv /\ StarterInv => QuorumKnowsStarter
    <2> SUFFICES ASSUME ViewInv, StarterInv, NEW r \in Replicas, NEW q \in Replicas, broken = 0, r # q, Up(r),
                        Receives(<<q, r, "out">>, "dvc"), NEW m, m = Head(net[<<q, r, "out">>])
                 PROVE  Old(rep[r], m) \/ GetMessages(rep[r].svc, m.view) # {}
      BY DEF QuorumKnowsStarter
    <2>1. PICK ch : ch = Out(net, q, r)
      OBVIOUS
    <2>2. IsSeq(ch) /\ \A x \in Elems(ch) : x.view \in Nat
      BY <2>1, OutFacts
    <2>3. ch # <<>> /\ m = Head(ch) /\ m.type = "dvc"
      BY <2>1 DEF Receives, Out
    <2>4. /\ Head(ch) \in Elems(ch) /\ Len(ch) \in Nat /\ Len(ch) > 0 /\ DOMAIN ch = 1 .. Len(ch) /\ Head(ch) = ch[1]
      BY <2>2, <2>3, TailSeq
    <2>5. InOrder(rep[r], ch)
      BY <2>1 DEF StarterInv, Told, Up, Out
    <2>6. 1 \in DOMAIN ch /\ \A j \in DOMAIN ch : ~(j < 1)
      BY <2>4, SMT
    <2>7. Informed(rep[r], m.view)
      BY <2>3, <2>4, <2>5, <2>6 DEF InOrder
    <2>8. rep[r].view \in Nat /\ m.view \in Nat
      BY <2>2, <2>3, <2>4, MemberFacts
    <2>9. rep[r].view > m.view => m.view < rep[r].view
      BY <2>8, SMT
    <2> QED BY <2>7, <2>9 DEF Informed, Old
  <1> QED BY <1>1, <1>2, <1>3, PTL DEF VRSpec
=============================================================================

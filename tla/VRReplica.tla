------------------------------ MODULE VRReplica ------------------------------
(***************************************************************************)
(* The Viewstamped Replication layer under every shard and the time        *)
(* server: VRReplica (replica.cc) and the requests of VRClient.            *)
(*                                                                         *)
(* The leader answers a request after its upcall, without a PREPARE round: *)
(* nothing starts closeBatchTimeout, so CloseBatch, PREPARE, PREPAREOK and *)
(* the log entries they create never exist, and every log is empty.  What  *)
(* remains, and is modelled here, is the numbering of operations, the null *)
(* commits, state transfer and view changes.  A failed ASSERT stops the    *)
(* process: the replica is failed from then on.                            *)
(*                                                                         *)
(* Each process writes to a peer on the TCP connection it opened ("out");  *)
(* an answer to a message returns on the connection the message came on    *)
(* ("re").  A connection is a FIFO; two connections are not ordered.       *)
(***************************************************************************)
EXTENDS Integers, Sequences, FiniteSets

CONSTANTS
    F,            \* failures the configuration tolerates
    MaxView,      \* bound: views timeouts may start
    MaxRequests,  \* bound: requests the client invokes
    MaxFaults     \* bound: timers that fire and connections that break

ASSUME VRAssumption == F \in Nat

N == 2 * F + 1

Replicas == 0 .. N - 1

Channels ==
    {c \in Replicas \X Replicas \X {"out", "re"} : c[1] # c[2]}

VARIABLES
    rep,       \* each replica's members
    net,       \* the messages in each connection
    fired,     \* timers that have fired
    broken     \* connections that have broken

vrVars == <<rep, net, fired, broken>>

GetLeaderIndex(view) == view % N

QuorumSize == F + 1

VRInit ==
    /\ rep = [r \in Replicas |->
           [status |-> "normal", view |-> 0, lastOp |-> 0, lastCommitted |-> 0,
            asked |-> <<0, 0>>,                    \* lastRequestStateTransfer{View,Opnum}
            viewChangeTimeout |-> GetLeaderIndex(0) # r,
            nullCommitTimeout |-> GetLeaderIndex(0) = r,
            svc |-> {}, dvc |-> {},                \* the quorum sets
            lastReqId |-> 0,                       \* clientTable
            failed |-> "no"]]
    /\ net = [c \in Channels |-> <<>>]
    /\ fired = 0
    /\ broken = 0

----------------------------------------------------------------------------
(* The transport.                                                          *)

Up(r) == rep[r].failed = "no"

\* SendMessageInternal; what is written to a process that is gone is lost.
Send(n, src, dst, conn, m) ==
    IF ~Up(dst) THEN n
    ELSE [n EXCEPT ![<<src, dst, conn>>] = Append(@, m)]

\* SendMessageToAll.
SendToAll(n, src, m) ==
    [c \in Channels |->
        IF c[1] = src /\ c[3] = "out" /\ Up(c[2]) THEN Append(n[c], m) ELSE n[c]]

\* TCPReadableCallback hands the oldest message of a connection over.
Receives(c, type) == net[c] # <<>> /\ Head(net[c]).type = type

Rest(c) == [net EXCEPT ![c] = Tail(@)]

----------------------------------------------------------------------------
(* The parts the handlers share, as functions of a replica's members s.    *)

\* EnterView.
EnterView(r, s, newview) ==
    [s EXCEPT !.view = newview, !.status = "normal",
              !.viewChangeTimeout = GetLeaderIndex(newview) # r,
              !.nullCommitTimeout = GetLeaderIndex(newview) = r,
              !.svc = {}, !.dvc = {}]

\* StartViewChange; its message is StartViewChangeMsg.
StartViewChange(s, newview) ==
    [s EXCEPT !.view = newview, !.status = "viewchange",
              !.viewChangeTimeout = TRUE, !.nullCommitTimeout = FALSE]

StartViewChangeMsg(r, newview) == [type |-> "svc", view |-> newview, from |-> r]

\* RequestStateTransfer sends nothing when it asked for the same before.
Asked(s) ==
    s.asked[2] # 0 /\ s.asked = <<s.view, s.lastCommitted>>

\* RequestStateTransfer by replica r, which has taken a message from connection c.
RequestStateTransfer(r, c) ==
    LET s == rep[r]
        m == [type |-> "rst", view |-> s.view, opnum |-> s.lastCommitted]
    IN /\ rep' = [rep EXCEPT ![r].asked = <<s.view, s.lastCommitted>>]
       /\ net' = IF Asked(s) THEN Rest(c) ELSE SendToAll(Rest(c), r, m)

\* OnTimer: a timer fires (within the bound).
Fire ==
    fired + broken < MaxFaults /\ fired' = fired + 1 /\ UNCHANGED broken

Ignore(c) == net' = Rest(c) /\ UNCHANGED rep

\* TCPOutgoingEventCallback, BEV_EVENT_ERROR: the connection is freed with what
\* has not been delivered; the next message opens another one.
ConnectionBreaks(r, q) ==
    /\ net[<<r, q, "out">>] # <<>>
    /\ fired + broken < MaxFaults
    /\ broken' = broken + 1
    /\ net' = [net EXCEPT ![<<r, q, "out">>] = <<>>]
    /\ UNCHANGED <<rep, fired>>

\* A failed ASSERT ends the process; the messages on their way to it are lost.
Abort(r, assertion) ==
    /\ rep' = [rep EXCEPT ![r].failed = assertion]
    /\ net' = [c \in Channels |-> IF c[2] = r THEN <<>> ELSE net[c]]

----------------------------------------------------------------------------
(* Requests and null commits.                                              *)

\* The client table of HandleRequest: a duplicate gets the saved reply, or nothing.
IsNew(s, id) == id > s.lastReqId

\* HandleRequest: a new request goes to the application, which says whether the
\* operation gets a number (replicate).  VRClient sends a request to every replica
\* and again every ten seconds until a reply arrives, on connections that may
\* break: any invoked request may arrive anywhere, at any time, again.
HandleRequest(r, id) ==
    LET s == rep[r]
    IN /\ Up(r)
       /\ s.status = "normal"
       /\ GetLeaderIndex(s.view) = r
       /\ IsNew(s, id)
       /\ \E number \in {0, 1} :
            rep' = [rep EXCEPT ![r].lastReqId = id,
                               ![r].lastOp = @ + number,
                               ![r].lastCommitted = @ + number]
       /\ UNCHANGED <<net, fired, broken>>

\* SendNullCommit, when nullCommitTimeout fires.
SendNullCommit(r) ==
    /\ Up(r)
    /\ rep[r].nullCommitTimeout
    /\ Fire
    /\ net' = SendToAll(net, r, [type |-> "commit", view |-> rep[r].view,
                                 opnum |-> rep[r].lastCommitted])
    /\ UNCHANGED rep

\* HandleCommit.  A log that is empty has lastOp operations only on the replica
\* that counted them, which is where CommitUpTo has nothing left to do.
HandleCommit(r, q) ==
    LET c == <<q, r, "out">>
        m == Head(net[c])
        s == rep[r]
    IN /\ Up(r)
       /\ Receives(c, "commit")
       /\ \/ /\ s.status # "normal" \/ m.view < s.view
                  \/ (m.view = s.view /\ m.opnum <= s.lastCommitted)
             /\ Ignore(c)
          \/ /\ s.status = "normal"
             /\ m.view > s.view
                  \/ (m.view = s.view /\ m.opnum > s.lastCommitted /\ m.opnum > s.lastOp)
             /\ RequestStateTransfer(r, c)
       /\ UNCHANGED <<fired, broken>>

----------------------------------------------------------------------------
(* State transfer.                                                         *)

\* HandleRequestStateTransfer.
HandleRequestStateTransfer(r, q) ==
    LET c == <<q, r, "out">>
        m == Head(net[c])
        s == rep[r]
    IN /\ Up(r)
       /\ Receives(c, "rst")
       /\ \/ s.status # "normal" /\ Ignore(c)
          \/ s.status = "normal" /\ m.view > s.view /\ RequestStateTransfer(r, c)
          \/ /\ s.status = "normal" /\ m.view <= s.view
             /\ net' = Send(Rest(c), r, q, "re",
                            [type |-> "st", view |-> s.view, opnum |-> s.lastCommitted])
             /\ UNCHANGED rep
       /\ UNCHANGED <<fired, broken>>

\* HandleStateTransfer: enter the view, then ASSERT(msg.opnum() <= lastOp).
HandleStateTransfer(r, q) ==
    LET c == <<q, r, "re">>
        m == Head(net[c])
        s == rep[r]
    IN /\ Up(r)
       /\ Receives(c, "st")
       /\ \/ m.view < s.view /\ Ignore(c)
          \/ m.view >= s.view /\ m.opnum > s.lastOp /\ Abort(r, "statetransfer")
          \/ /\ m.view >= s.view /\ m.opnum <= s.lastOp
             /\ rep' = [rep EXCEPT ![r] =
                            IF m.view > s.view THEN EnterView(r, s, m.view) ELSE s]
             /\ net' = Rest(c)
       /\ UNCHANGED <<fired, broken>>

\* stateTransferTimeout lets the replica ask again.
StateTransferTimeout(r) ==
    /\ Up(r)
    /\ rep[r].asked # <<0, 0>>
    /\ rep' = [rep EXCEPT ![r].asked = <<0, 0>>]
    /\ UNCHANGED <<net, fired, broken>>

----------------------------------------------------------------------------
(* View changes.                                                           *)

\* Mutant: the replica enters the view it proposes.
ViewChangeTimeout_enters(r) ==
    /\ Up(r) /\ rep[r].viewChangeTimeout /\ rep[r].view < MaxView /\ Fire
    /\ rep' = [rep EXCEPT ![r] = EnterView(r, @, @.view + 1)]
    /\ net' = SendToAll(net, r, StartViewChangeMsg(r, rep[r].view + 1))

\* viewChangeTimeout fires.
ViewChangeTimeout(r) ==
    /\ Up(r)
    /\ rep[r].viewChangeTimeout
    /\ rep[r].view < MaxView
    /\ Fire
    /\ rep' = [rep EXCEPT ![r] = StartViewChange(@, @.view + 1)]
    /\ net' = SendToAll(net, r, StartViewChangeMsg(r, rep[r].view + 1))

\* QuorumSet::AddAndCheckForQuorum: one message per view and replica.
Add(set, m) == {x \in set : x.view # m.view \/ x.from # m.from} \cup {m}

GetMessages(set, view) == {x \in set : x.view = view}

HasQuorum(set, view) == Cardinality(GetMessages(set, view)) >= QuorumSize - 1

\* What the view-change handlers do first: nothing, or join the view of the message.
Old(s, m) == m.view < s.view \/ (m.view = s.view /\ s.status # "viewchange")

Joins(s, m) == s.status # "viewchange" \/ m.view > s.view

Join(s, m) == IF Joins(s, m) THEN StartViewChange(s, m.view) ELSE s

\* Mutant: the replica joins silently.
JoinMsgs_silent(n, r, m) == n

\* The broadcast of the StartViewChange that Join performs.
JoinMsgs(n, r, m) ==
    IF Joins(rep[r], m) THEN SendToAll(n, r, StartViewChangeMsg(r, m.view)) ELSE n

DoViewChangeMsg(r, s) ==
    [type |-> "dvc", view |-> s.view, from |-> r, lastop |-> s.lastOp,
     lastcommitted |-> s.lastCommitted]

\* HandleStartViewChange: a quorum sends the new leader DoViewChange.
HandleStartViewChange(r, q) ==
    LET c == <<q, r, "out">>
        m == Head(net[c])
        s == [Join(rep[r], m) EXCEPT !.svc = Add(@, m)]
        leader == GetLeaderIndex(m.view)
    IN /\ Up(r)
       /\ Receives(c, "svc")
       /\ \/ Old(rep[r], m) /\ Ignore(c)
          \/ /\ ~Old(rep[r], m)
             /\ rep' = [rep EXCEPT ![r] = s]
             /\ net' = IF HasQuorum(s.svc, m.view) /\ leader # r
                       THEN Send(JoinMsgs(Rest(c), r, m), r, leader, "out",
                                 DoViewChangeMsg(r, s))
                       ELSE JoinMsgs(Rest(c), r, m)
       /\ UNCHANGED <<fired, broken>>

\* The messages HandleDoViewChange may have picked as the latest log: every log
\* is empty, so the last normal view is 0 and the largest lastop above 0 wins.
Latest(set) ==
    {x \in set : x.lastop > 0 /\ \A y \in set : y.lastop <= x.lastop}

\* HandleDoViewChange: a quorum makes the replica the leader of the view.
HandleDoViewChange(r, q) ==
    LET c == <<q, r, "out">>
        m == Head(net[c])
        s == [Join(rep[r], m) EXCEPT !.dvc = Add(@, m)]
        quorum == HasQuorum(s.dvc, m.view)
        latest == Latest(GetMessages(s.dvc, m.view))
        op == IF latest = {} THEN 0 ELSE (CHOOSE x \in latest : TRUE).lastop
        sv == [type |-> "sv", view |-> m.view, lastop |-> op,
               lastcommitted |-> s.lastCommitted]
    IN /\ Up(r)
       /\ Receives(c, "dvc")
       /\ \/ Old(rep[r], m) /\ Ignore(c)
          \/ /\ ~Old(rep[r], m) /\ quorum /\ latest # {}
             /\ s.lastCommitted # m.lastcommitted \/ m.lastop # m.lastcommitted
             /\ Abort(r, "doviewchange")
          \/ /\ ~Old(rep[r], m)
             /\ ~quorum \/ latest = {}
                        \/ (s.lastCommitted = m.lastcommitted /\ m.lastop = m.lastcommitted)
             /\ rep' = [rep EXCEPT ![r] = IF quorum
                    THEN [EnterView(r, s, m.view) EXCEPT !.lastOp = op] ELSE s]
             /\ net' = IF quorum THEN SendToAll(JoinMsgs(Rest(c), r, m), r, sv)
                       ELSE JoinMsgs(Rest(c), r, m)
       /\ UNCHANGED <<fired, broken>>

\* HandleStartView: without entries the operation numbers must agree.
HandleStartView(r, q) ==
    LET c == <<q, r, "out">>
        m == Head(net[c])
        s == rep[r]
        agrees == m.lastcommitted = s.lastCommitted /\ m.lastop = m.lastcommitted
    IN /\ Up(r)
       /\ Receives(c, "sv")
       /\ \/ Old(s, m) /\ Ignore(c)
          \/ ~Old(s, m) /\ ~agrees /\ Abort(r, "startview")
          \/ /\ ~Old(s, m) /\ agrees
             /\ rep' = [rep EXCEPT ![r] = [EnterView(r, s, m.view) EXCEPT !.lastOp = m.lastop]]
             /\ net' = Rest(c)
       /\ UNCHANGED <<fired, broken>>

VRNext ==
    \/ \E r \in Replicas :
         \/ \E id \in 1 .. MaxRequests : HandleRequest(r, id)
         \/ SendNullCommit(r)
         \/ StateTransferTimeout(r)
         \/ ViewChangeTimeout(r)
         \/ \E q \in Replicas \ {r} :
              \/ ConnectionBreaks(r, q)
              \/ HandleCommit(r, q)
              \/ HandleRequestStateTransfer(r, q)
              \/ HandleStateTransfer(r, q)
              \/ HandleStartViewChange(r, q)
              \/ HandleDoViewChange(r, q)
              \/ HandleStartView(r, q)

VRSpec == VRInit /\ [][VRNext]_vrVars

----------------------------------------------------------------------------
(* Properties.                                                             *)

\* A replica works in a view other than the first only after a quorum has left
\* every earlier view (the SVC and DVC quorums of HandleStartViewChange and
\* HandleDoViewChange), so no quorum is left to run the earlier view.
ViewHasQuorum ==
    \A r \in Replicas :
        rep[r].status = "normal" /\ rep[r].view > 0 =>
            Cardinality({q \in Replicas : rep[q].view >= rep[r].view}) >= QuorumSize

\* A DOVIEWCHANGE quorum finds at least one STARTVIEWCHANGE message, which
\* HandleDoViewChange dereferences without a check: the sender of a DOVIEWCHANGE
\* broadcast its STARTVIEWCHANGE before, on the same connection.  A connection
\* that broke in between voids the argument.
QuorumKnowsStarter ==
    \A r, q \in Replicas :
        broken = 0 /\ r # q /\ Up(r) /\ Receives(<<q, r, "out">>, "dvc") =>
            LET m == Head(net[<<q, r, "out">>])
            IN Old(rep[r], m) \/ GetMessages(rep[r].svc, m.view) # {}

\* ASSERT(msg.opnum() <= lastOp) of HandleStateTransfer.
StateTransferWithinLog ==
    \A r \in Replicas : rep[r].failed # "statetransfer"

=============================================================================

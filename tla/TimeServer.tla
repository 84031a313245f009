----------------------------- MODULE TimeServer -----------------------------
(***************************************************************************)
(* The timestamp server (exes/timeserver.cc) and how Client::Prepare gets  *)
(* a timestamp from it: the request is handed to the transport thread, and *)
(* the transaction thread waits on a condition variable, without a         *)
(* predicate, for tssCallback to store the reply.  The server is one       *)
(* replica that stays up; its client table is that of vr/replica.cc.       *)
(***************************************************************************)
EXTENDS Integers, Sequences

CONSTANTS
    TClients,      \* the clients, each a process with one transaction thread
    MaxPrepares,   \* bound on the timestamps a client asks for
    MaxMishaps     \* bound on requests sent again too early, broken connections
                   \* and spurious wake-ups together

VARIABLES
    ts,                  \* the server's counter
    table,               \* client -> the last request and its reply
    tpc,                 \* the transaction thread
    scheduled,           \* the requests handed to the transport's Timer(0)
    lastReqId, pend,     \* the VRClient
    toTss, fromTss,      \* the two directions of each connection
    replica_reply,       \* 0 before the first reply
    used,                \* the timestamps used, each with the largest one used before it was asked for
    floor,
    mishaps,
    spurious             \* the clients woken without a notification

tsVars == <<ts, table, tpc, scheduled, lastReqId, pend, toTss, fromTss, replica_reply,
            used, floor, mishaps, spurious>>

TSInit ==
    /\ ts = 0
    /\ table = [c \in TClients |-> [id |-> 0, reply |-> 0]]
    /\ tpc = [c \in TClients |-> "idle"]
    /\ scheduled = [c \in TClients |-> 0]
    /\ lastReqId = [c \in TClients |-> 0]
    /\ pend = [c \in TClients |-> {}]
    /\ toTss = [c \in TClients |-> <<>>]
    /\ fromTss = [c \in TClients |-> <<>>]
    /\ replica_reply = [c \in TClients |-> 0]
    /\ used = [c \in TClients |-> {}]
    /\ floor = [c \in TClients |-> 0]
    /\ mishaps = 0 /\ spurious = {}

AllUsed == {u.ts : u \in UNION {used[c] : c \in TClients}}
Mishap == mishaps < MaxMishaps /\ mishaps' = mishaps + 1

LastUsed == CHOOSE m \in AllUsed \cup {0} : \A n \in AllUsed : n <= m

-----------------------------------------------------------------------------
(* Client::Prepare *)

\* The lock is taken and the request scheduled.
Prepare(c) ==
    /\ tpc[c] = "idle"
    /\ lastReqId[c] + scheduled[c] < MaxPrepares
    /\ tpc' = [tpc EXCEPT ![c] = "locked"]
    /\ scheduled' = [scheduled EXCEPT ![c] = @ + 1]
    /\ floor' = [floor EXCEPT ![c] = LastUsed]
    /\ UNCHANGED <<ts, table, lastReqId, pend, toTss, fromTss, replica_reply, used,
                   mishaps, spurious>>

\* cv.wait releases the lock.
Wait(c) ==
    /\ tpc[c] = "locked"
    /\ tpc' = [tpc EXCEPT ![c] = "wait"]
    /\ UNCHANGED <<ts, table, scheduled, lastReqId, pend, toTss, fromTss, replica_reply, used,
                   floor, mishaps, spurious>>

\* A wait without a predicate may return though nobody notified it.
SpuriousWakeup(c) ==
    /\ tpc[c] = "wait"
    /\ Mishap
    /\ spurious' = spurious \cup {c}
    /\ tpc' = [tpc EXCEPT ![c] = "woken"]
    /\ UNCHANGED <<ts, table, scheduled, lastReqId, pend, toTss, fromTss, replica_reply, used,
                   floor>>

\* The wait has returned: stol of the last reply, which throws if there was none.
ReadTimestamp(c) ==
    /\ tpc[c] = "woken"
    /\ IF replica_reply[c] = 0
         THEN tpc' = [tpc EXCEPT ![c] = "ended"] /\ UNCHANGED used
         ELSE /\ tpc' = [tpc EXCEPT ![c] = "idle"]
              /\ used' = [used EXCEPT ![c] = @ \cup {[ts |-> replica_reply[c], floor |-> floor[c]]}]
    /\ UNCHANGED <<ts, table, scheduled, lastReqId, pend, toTss, fromTss, replica_reply,
                   floor, mishaps, spurious>>

-----------------------------------------------------------------------------
(* The transport thread of a client *)

\* The scheduled call: VRClient::Invoke.
Invoke(c) ==
    /\ tpc[c] # "ended" /\ scheduled[c] > 0
    /\ scheduled' = [scheduled EXCEPT ![c] = @ - 1]
    /\ lastReqId' = [lastReqId EXCEPT ![c] = @ + 1]
    /\ pend' = [pend EXCEPT ![c] = @ \cup {lastReqId'[c]}]
    /\ toTss' = [toTss EXCEPT ![c] = Append(@, lastReqId'[c])]
    /\ UNCHANGED <<ts, table, tpc, fromTss, replica_reply, used, floor, mishaps, spurious>>

InTransit(c, id) ==
    \/ \E i \in DOMAIN toTss[c] : toTss[c][i] = id
    \/ \E i \in DOMAIN fromTss[c] : fromTss[c][i].id = id

\* The request's timer: early while the answer is still to come, which is bounded,
\* or after a broken connection has lost it.
ResendRequest(c, id) ==
    /\ tpc[c] # "ended" /\ id \in pend[c]
    /\ IF InTransit(c, id) THEN Mishap ELSE UNCHANGED mishaps
    /\ toTss' = [toTss EXCEPT ![c] = Append(@, id)]
    /\ UNCHANGED <<ts, table, tpc, scheduled, lastReqId, pend, fromTss, replica_reply, used,
                   floor, spurious>>

\* Mutant: any reply goes to the callback.
Expected_any(c, id) == TRUE

\* The reply of a request that is no longer pending is dropped.
Expected(c, id) == id \in pend[c]

\* Mutant: the callback does not take the lock.
LockFree_always(c) == TRUE

\* Prepare holds the lock from before its request until it waits.
LockFree(c) == tpc[c] # "locked"

\* HandleReply, and tssCallback, which stores the reply and notifies.
HandleReply(c) ==
    /\ tpc[c] # "ended" /\ fromTss[c] # <<>>
    /\ LET m == Head(fromTss[c])
       IN  IF Expected(c, m.id)
             THEN /\ LockFree(c)
                  /\ replica_reply' = [replica_reply EXCEPT ![c] = m.ts]
                  /\ tpc' = [tpc EXCEPT ![c] = IF @ = "wait" THEN "woken" ELSE @]
                  /\ pend' = [pend EXCEPT ![c] = @ \ {m.id}]
             ELSE UNCHANGED <<replica_reply, tpc, pend>>
    /\ fromTss' = [fromTss EXCEPT ![c] = Tail(@)]
    /\ UNCHANGED <<ts, table, scheduled, lastReqId, toTss, used, floor, mishaps, spurious>>

-----------------------------------------------------------------------------
(* The server *)

NewTimeStamp == ts + 1

\* HandleRequest: a request of an earlier id is ignored, the last one gets its
\* reply again, and a new one goes to LeaderUpcall, which is never replicated.
LeaderUpcall(c) ==
    /\ toTss[c] # <<>>
    /\ toTss' = [toTss EXCEPT ![c] = Tail(@)]
    /\ LET id == Head(toTss[c])
       IN  /\ IF id > table[c].id
                THEN ts' = NewTimeStamp /\ table' = [table EXCEPT ![c] = [id |-> id, reply |-> ts']]
                ELSE UNCHANGED <<ts, table>>
           /\ fromTss' = IF id < table[c].id THEN fromTss
                         ELSE [fromTss EXCEPT ![c] = Append(@, [id |-> id, ts |-> table'[c].reply])]
    /\ UNCHANGED <<tpc, scheduled, lastReqId, pend, replica_reply, used, floor, mishaps, spurious>>

\* A connection breaks and what it carried is lost.
ConnectionBreaks(c) ==
    /\ Mishap
    /\ toTss[c] # <<>> \/ fromTss[c] # <<>>
    /\ toTss' = [toTss EXCEPT ![c] = <<>>]
    /\ fromTss' = [fromTss EXCEPT ![c] = <<>>]
    /\ UNCHANGED <<ts, table, tpc, scheduled, lastReqId, pend, replica_reply, used, floor,
                   spurious>>

Resend(c) == \E id \in pend[c] : ResendRequest(c, id)
Thread(c) == Wait(c) \/ ReadTimestamp(c)
Transport(c) == Invoke(c) \/ HandleReply(c)

TSNext ==
    \E c \in TClients :
        \/ Prepare(c)
        \/ Thread(c)
        \/ SpuriousWakeup(c)
        \/ Transport(c)
        \/ Resend(c)
        \/ LeaderUpcall(c)
        \/ ConnectionBreaks(c)

\* A transaction thread that can go on does; the event loop runs what is
\* scheduled, reads its connection and fires its timers; the server answers.  Each
\* of them is bounded, so it is enough that they do not all stop.
TSProgress == \E c \in TClients : Thread(c) \/ Transport(c) \/ Resend(c) \/ LeaderUpcall(c)

TSSpec == TSInit /\ [][TSNext]_tsVars /\ WF_tsVars(TSProgress)

-----------------------------------------------------------------------------
(* Properties *)

\* No two clients prepare with the same timestamp, although requests are sent
\* again and a wait that returns too early uses an older reply of its client
\* (client.cc:259).  A client that was never woken too early prepares with a
\* timestamp larger than any that was in use before it asked: a late reply to an
\* earlier request is dropped (vr/client.cc:127), so it is not taken for the answer.
TimestampsOrdered ==
    \A c \in TClients :
        /\ \A d \in TClients \ {c} : {u.ts : u \in used[c]} \cap {u.ts : u \in used[d]} = {}
        /\ c \notin spurious => \A u \in used[c] : u.ts > u.floor

\* Once no new ones come, every Prepare has its timestamp, or its process ended:
\* tssCallback cannot notify before Prepare waits, for both hold cv_m
\* (client.cc:251 and 547), and a request lost with its connection is sent again.
PrepareGetsTimestamp == <>[](\A c \in TClients : tpc[c] \in {"idle", "ended"})
=============================================================================

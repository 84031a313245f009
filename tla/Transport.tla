------------------------------ MODULE Transport ------------------------------
(***************************************************************************)
(* The transport under a VR client and a server (lib/tcptransport.cc,      *)
(* lib/transport.cc, replication/vr/client.cc): messages framed on a byte  *)
(* stream, connections that break at any byte and are opened again, the    *)
(* tables that lead from addresses to connections and back, and the timers *)
(* of the pending requests.                                                *)
(*                                                                         *)
(* A connection has a port of its own; the bufferevent of a connection the *)
(* server has freed may be allocated again for a later one.                *)
(***************************************************************************)
EXTENDS Integers, Sequences, Maps

CONSTANTS
    MaxInvoke,  \* bound on the requests
    MaxBreaks,  \* bound on broken connections
    MaxEarly    \* bound on timers that expire though the answer is on its way

VARIABLES
    conns,          \* the connections, in the order the client opened them
    outgoing,       \* the client's tcpOutgoing entry for the server, 0 for none
    srvOutgoing,    \* the server's tcpOutgoing, port -> bufferevent
    srvAddresses,   \* the server's tcpAddresses, bufferevent -> port
    pending,        \* pendingReqs: request -> its Timeout
    timers,         \* timer id -> the request of its callback, 0 for a NULL entry
    invoked, breaks, early

tpVars == <<conns, outgoing, srvOutgoing, srvAddresses, pending, timers, invoked, breaks, early>>

MaxConns == MaxBreaks + 1
Bevs == 1 .. MaxConns

-----------------------------------------------------------------------------
(* Frames *)

Unit(kind, value) == [kind |-> kind, value |-> value]
MAGIC == "magic"

\* Requests of different lengths; a request is odd if it is unlogged.
BodyLen(m) == 1 + (m % 2)
IsUnlogged(m) == m % 2 = 1

TotalLen(m) == 2 + BodyLen(m)

Frame(m) == <<Unit(MAGIC, 0), Unit("length", TotalLen(m))>> \o [i \in 1 .. BodyLen(m) |-> Unit("body", m)]

\* A message is complete in the input buffer: ASSERT(*magic == MAGIC), and the
\* asserts on the lengths inside it.
HasFrame(buf) ==
    Len(buf) >= 2 /\ buf[1].kind = MAGIC /\ buf[2].value > 2 /\ buf[2].value <= Len(buf)

\* Mutant: one message per event.
ReadFrames_one(buf) ==
    IF ~HasFrame(buf) THEN [msgs |-> <<>>, rest |-> buf]
    ELSE [msgs |-> <<buf[3].value>>, rest |-> SubSeq(buf, buf[2].value + 1, Len(buf))]

\* The loop of TCPReadableCallback over the input buffer: it returns when the
\* header or the rest of a message is still missing.
RECURSIVE ReadFrames(_)
ReadFrames(buf) ==
    IF ~HasFrame(buf) THEN [msgs |-> <<>>, rest |-> buf]
    ELSE LET more == ReadFrames(SubSeq(buf, buf[2].value + 1, Len(buf)))
         IN  [msgs |-> <<buf[3].value>> \o more.msgs, rest |-> more.rest]

\* SendMessageInternal of several messages.
Frames(msgs) ==
    LET f[n \in 0 .. Len(msgs)] == IF n = 0 THEN <<>> ELSE f[n - 1] \o Frame(msgs[n])
    IN  f[Len(msgs)]

-----------------------------------------------------------------------------
(* Connections *)

\* up: the network carries bytes; open: the client's bufferevent exists; bev: the
\* server's, 0 before accept and after it is freed; up- and downstream bytes, and
\* the input buffers of both ends.
NewConn == [up |-> TRUE, open |-> TRUE, accepted |-> FALSE, bev |-> 0,
            c2s |-> <<>>, sbuf |-> <<>>, s2c |-> <<>>, cbuf |-> <<>>]

TPInit ==
    /\ conns = <<>> /\ outgoing = 0
    /\ srvOutgoing = EmptyMap /\ srvAddresses = EmptyMap
    /\ pending = EmptyMap /\ timers = EmptyMap
    /\ invoked = 0 /\ breaks = 0 /\ early = 0

\* SendMessageInternal at the client: without an entry for the server it opens a
\* connection first.  What is written to a broken connection is lost.
Send(m) ==
    LET cs == IF outgoing = 0 THEN Append(conns, NewConn) ELSE conns
        k == IF outgoing = 0 THEN Len(cs) ELSE outgoing
    IN  /\ conns' = [cs EXCEPT ![k].c2s = IF cs[k].up THEN @ \o Frame(m) ELSE @]
        /\ outgoing' = k

\* TCPAcceptCallback: a bufferevent that is not in use, one used before or the
\* next new one; insert keeps an entry that is there.
Accept(k, bev) ==
    /\ conns[k].up /\ ~conns[k].accepted
    /\ \A j \in DOMAIN conns : conns[j].bev # bev
    /\ \A b \in 1 .. bev - 1 : b \in DOMAIN srvAddresses
    /\ conns' = [conns EXCEPT ![k].bev = bev, ![k].accepted = TRUE]
    /\ srvOutgoing' = With(srvOutgoing, k, bev)
    /\ srvAddresses' = Merge(srvAddresses, With(EmptyMap, bev, k))
    /\ UNCHANGED <<outgoing, pending, timers, invoked, breaks, early>>

\* Where SendMessageInternal writes the reply to a message read from bev: the
\* sender's address is looked up, then the address's bufferevent.
ReplyBev(bev) == srvOutgoing[srvAddresses[bev]]

\* The server reads n more units and answers every message it completes.
ServerRead(k, n) ==
    /\ conns[k].up /\ conns[k].bev # 0
    /\ n \in 1 .. Len(conns[k].c2s)
    /\ LET in == ReadFrames(conns[k].sbuf \o SubSeq(conns[k].c2s, 1, n))
           read == [conns EXCEPT ![k].sbuf = in.rest,
                                 ![k].c2s = SubSeq(@, n + 1, Len(@))]
           routed == /\ srvAddresses[conns[k].bev] \in DOMAIN srvOutgoing
                     /\ \E j \in DOMAIN conns : conns[j].bev = ReplyBev(conns[k].bev)
       IN  conns' = IF in.msgs = <<>> \/ ~routed THEN read
                    ELSE LET j == CHOOSE j \in DOMAIN conns : conns[j].bev = ReplyBev(conns[k].bev)
                         IN  [read EXCEPT ![j].s2c = @ \o Frames(in.msgs)]
    /\ UNCHANGED <<outgoing, srvOutgoing, srvAddresses, pending, timers, invoked, breaks, early>>

\* The network breaks the connection, in the middle of a message or not; what is
\* on its way is lost, and what the buffers hold of a message is never completed.
Break(k) ==
    /\ conns[k].up
    /\ breaks < MaxBreaks
    /\ breaks' = breaks + 1
    /\ conns' = [conns EXCEPT ![k].up = FALSE, ![k].c2s = <<>>, ![k].sbuf = <<>>,
                              ![k].s2c = <<>>, ![k].cbuf = <<>>]
    /\ UNCHANGED <<outgoing, srvOutgoing, srvAddresses, pending, timers, invoked, early>>

\* Mutant: the address is forgotten with the connection.
ForgetAddress_erase(k) == srvOutgoing' = Without(srvOutgoing, k)

\* The tables keep their entries.
ForgetAddress(k) == UNCHANGED srvOutgoing

\* TCPIncomingEventCallback: an error frees the bufferevent, the end of the stream
\* does nothing.
TCPIncomingEventCallback(k) ==
    /\ ~conns[k].up /\ conns[k].bev # 0
    /\ conns' = [conns EXCEPT ![k].bev = 0]
    /\ ForgetAddress(k)
    /\ UNCHANGED <<outgoing, srvAddresses, pending, timers, invoked, breaks, early>>

\* Mutant: the entry of the freed bufferevent stays.
EraseOutgoing_keep == UNCHANGED outgoing

EraseOutgoing == outgoing' = 0

\* TCPOutgoingEventCallback: an error or the end of the stream frees the
\* bufferevent and erases its entries.
TCPOutgoingEventCallback(k) ==
    /\ ~conns[k].up /\ conns[k].open
    /\ conns' = [conns EXCEPT ![k].open = FALSE]
    /\ EraseOutgoing
    /\ UNCHANGED <<srvOutgoing, srvAddresses, pending, timers, invoked, breaks, early>>

-----------------------------------------------------------------------------
(* Timers and requests *)

\* ++lastTimerId, an id no timer has.
FreshTimer(ts) == CHOOSE id \in 1 .. 2 * MaxInvoke + 2 : id \notin DOMAIN ts

\* CancelTimer: timers[id] makes a NULL entry for an id that is not there.
CancelTimer(ts, id) ==
    IF id \in DOMAIN ts /\ ts[id] # 0 THEN Without(ts, id) ELSE With(ts, id, 0)

\* Timeout::Stop, of a Timeout that holds timerId.
Stop(ts, timerId) == IF timerId > 0 THEN CancelTimer(ts, timerId) ELSE ts

\* Mutant: Reset does not stop the timer that runs.
Reset_noStop(ts, timerId, m) ==
    LET id == FreshTimer(ts) IN [timers |-> With(ts, id, m), id |-> id]

\* Timeout::Reset
Reset(ts, timerId, m) ==
    LET stopped == Stop(ts, timerId)
        id == FreshTimer(stopped)
    IN  [timers |-> With(stopped, id, m), id |-> id]

\* Invoke sends and starts the timer that resends; InvokeUnlogged the one that
\* gives up.
Invoke ==
    /\ invoked < MaxInvoke
    /\ invoked' = invoked + 1
    /\ Send(invoked + 1)
    /\ LET r == Reset(timers, 0, invoked + 1)
       IN  /\ timers' = r.timers
           /\ pending' = With(pending, invoked + 1, r.id)
    /\ UNCHANGED <<srvOutgoing, srvAddresses, breaks, early>>

\* A copy of the request, or its answer, is in a buffer or on its way.
Holds(units, m) == \E i \in DOMAIN units : units[i] = Unit("body", m)
OnItsWay(m) ==
    \E k \in DOMAIN conns : conns[k].up /\ Holds(conns[k].c2s \o conns[k].s2c \o conns[k].cbuf, m)

\* OnTimer erases the timer, then runs the callback of Timeout::Reset: the timer
\* is set again and the request is resent (ResendRequest, SendRequest) or given
\* up (UnloggedRequestTimeoutCallback).
OnTimer(id) ==
    /\ id \in DOMAIN timers /\ timers[id] \in DOMAIN pending
    /\ LET m == timers[id]
           again == Reset(Without(timers, id), 0, m)
           resent == Reset(again.timers, again.id, m)
       IN  /\ IF OnItsWay(m) THEN early < MaxEarly /\ early' = early + 1 ELSE early' = early
           /\ \/ /\ IsUnlogged(m)
                 /\ timers' = Stop(again.timers, again.id)
                 /\ pending' = Without(pending, m)
                 /\ UNCHANGED <<conns, outgoing>>
              \/ /\ ~IsUnlogged(m)
                 /\ Send(m)
                 /\ timers' = resent.timers
                 /\ pending' = With(pending, m, resent.id)
    /\ UNCHANGED <<srvOutgoing, srvAddresses, invoked, breaks>>

\* HandleReply and HandleUnloggedReply stop the timer of a request that is
\* pending and erase it.
StopAnswered(ts, answered) ==
    [id \in DOMAIN ts \ {pending[m] : m \in answered} |-> ts[id]]

\* The client reads n more units and handles every reply it completes.
ClientRead(k, n) ==
    /\ conns[k].up /\ conns[k].open
    /\ n \in 1 .. Len(conns[k].s2c)
    /\ LET in == ReadFrames(conns[k].cbuf \o SubSeq(conns[k].s2c, 1, n))
           answered == {in.msgs[i] : i \in DOMAIN in.msgs} \cap DOMAIN pending
       IN  /\ conns' = [conns EXCEPT ![k].cbuf = in.rest, ![k].s2c = SubSeq(@, n + 1, Len(@))]
           /\ timers' = StopAnswered(timers, answered)
           /\ pending' = [m \in DOMAIN pending \ answered |-> pending[m]]
    /\ UNCHANGED <<outgoing, srvOutgoing, srvAddresses, invoked, breaks, early>>

TPNext ==
    \/ Invoke
    \/ \E id \in DOMAIN timers : OnTimer(id)
    \/ \E k \in DOMAIN conns :
          \/ \E bev \in Bevs : Accept(k, bev)
          \/ \E n \in 1 .. Len(conns[k].c2s) : ServerRead(k, n)
          \/ \E n \in 1 .. Len(conns[k].s2c) : ClientRead(k, n)
          \/ Break(k)
          \/ TCPIncomingEventCallback(k)
          \/ TCPOutgoingEventCallback(k)

\* The parts whose progress the event loops of the client and the server and the
\* timers ensure.
ClientLoop ==
    \E k \in DOMAIN conns :
        TCPOutgoingEventCallback(k) \/ \E n \in 1 .. Len(conns[k].s2c) : ClientRead(k, n)
ServerLoop ==
    \E k \in DOMAIN conns :
        (\E bev \in Bevs : Accept(k, bev)) \/ \E n \in 1 .. Len(conns[k].c2s) : ServerRead(k, n)
Expire(m) == ~OnItsWay(m) /\ \E id \in DOMAIN timers : timers[id] = m /\ OnTimer(id)

\* Each has a bounded number of steps, so it is enough that they do not all stop.
TPProgress == ClientLoop \/ ServerLoop \/ \E m \in 1 .. MaxInvoke : Expire(m)

TPSpec == TPInit /\ [][TPNext]_tpVars /\ WF_tpVars(TPProgress)

-----------------------------------------------------------------------------
(* Properties *)

\* ASSERT(*magic == MAGIC) (tcptransport.cc:543): whatever pieces the bytes arrive
\* in and wherever earlier connections broke, what a connection still carries
\* continues what its reader holds and ends with a message; and no complete
\* message stays in an input buffer.
FramesIntact ==
    \A k \in DOMAIN conns :
        /\ conns[k].up => /\ ReadFrames(conns[k].sbuf \o conns[k].c2s).rest = <<>>
                          /\ ReadFrames(conns[k].cbuf \o conns[k].s2c).rest = <<>>
        /\ ~HasFrame(conns[k].sbuf) /\ ~HasFrame(conns[k].cbuf)

\* A reply is written to the connection its request was read from
\* (tcptransport.cc:298 and 582), though the server's tables keep the entries of
\* freed connections and a bufferevent may stand under an older one's address.
\* The client writes to its one open connection, never to a bufferevent it has
\* freed (tcptransport.cc:305, 620).
WritesReachPeer ==
    \A k \in DOMAIN conns :
        /\ conns[k].bev # 0 =>
            /\ conns[k].bev \in DOMAIN srvAddresses
            /\ srvAddresses[conns[k].bev] \in DOMAIN srvOutgoing
            /\ ReplyBev(conns[k].bev) = conns[k].bev
        /\ conns[k].open <=> k = outgoing

\* Each pending request has exactly one timer, the one its Timeout holds, and no
\* timer outlives its request, whose callback would use a deleted Timeout
\* (transport.cc:51, client.cc:134).
TimersMatchRequests ==
    /\ \A m \in DOMAIN pending : {id \in DOMAIN timers : timers[id] = m} = {pending[m]}
    /\ \A id \in DOMAIN timers : timers[id] \in DOMAIN pending

\* Once no new ones come, every request is answered or given up, in spite of the
\* connections that broke under it.
RequestsEnd == <>[](DOMAIN pending = {})
=============================================================================

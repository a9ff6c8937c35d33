-------------------------------- MODULE Stream --------------------------------
(***************************************************************************)
(* One connection between the Hub and a node at the level of bytes:        *)
(* Conn::TryConnect to SendAppendEntries, Mod::HandleArrivedMsg and        *)
(* Mod::HandlePreSendMsg.  Messages are cut out of what recv returns,      *)
(* answers are appended to a fixed buffer and sent as far as the socket    *)
(* takes them, and EPOLLOUT is asked for in some of the places where       *)
(* something may be left.                                                  *)
(*                                                                         *)
(* A byte is a number.  A header is two bytes here, the identifier and the *)
(* length of the body (six in the code); a body is zeros.  The length of a *)
(* body may be 0: a message whose fields have their default values is      *)
(* empty.  The two processes run independently, and between two messages   *)
(* of one HandleArrivedMsg the other one may do anything.                  *)
(*                                                                         *)
(* A node that was here before may come back on another descriptor; the    *)
(* Hub then stops reading its connection for good.  What a rejoin does to  *)
(* the table of connections, and how connections end, is in ConnTable.     *)
(*                                                                         *)
(* Leaving bytes behind is moved to the front with memcpy, taken to work   *)
(* for overlapping blocks as in the C library of the build.  A write       *)
(* behind the end of a buffer either goes unnoticed or ends the process.   *)
(***************************************************************************)
EXTENDS Integers, Sequences

CONSTANTS
    MaxBody,        \* the longest body of a message
    SockCap,        \* bytes the kernel holds in one direction
    BufCap,         \* size of m_stInBuffer_ and m_stOutBuffer_ (1440)
    MaxBytes        \* bound: bytes underway beyond which the timer sends only
                    \* when all the Hub has to send is stranded in its buffer

HeaderLen == 2

\* A socket takes any single message of these sizes whole.
ASSUME CapAssumption ==
    /\ MaxBody \in Nat /\ SockCap \in Nat /\ BufCap \in Nat /\ MaxBytes \in Nat
    /\ SockCap > MaxBody + HeaderLen

HandshakeQ     == 1
HandshakeR     == 2
AppendEntriesQ == 3
AppendEntriesR == 4

End == {"hub", "node"}
Other(e) == IF e = "hub" THEN "node" ELSE "hub"

Byte == 0..4 \cup 0..MaxBody

VARIABLES
    link,           \* how far the node's connect has got
    inBuf,          \* m_stInBuffer_ up to m_iInBufferSize_
    outBuf,         \* m_stOutBuffer_ up to m_iOutBufferSize_
    wire,           \* wire[e]: bytes e has sent and its peer has not received
    wantRead,       \* whether EPOLLIN is among the events of the channel
    wantWrite,      \* whether EPOLLOUT is among the events of the channel
    looping,        \* inside HandleArrivedMsg
    tied,           \* whether the Hub's connection has a proxy
    alive           \* whether both processes are running

vars == <<link, inBuf, outBuf, wire, wantRead, wantWrite, looping, tied, alive>>

Init ==
    /\ link = "closed"
    /\ inBuf = [e \in End |-> <<>>]
    /\ outBuf = [e \in End |-> <<>>]
    /\ wire = [e \in End |-> <<>>]
    /\ wantRead = [e \in End |-> TRUE]
    /\ wantWrite = [e \in End |-> FALSE]
    /\ looping = [e \in End |-> FALSE]
    /\ tied = FALSE
    /\ alive = TRUE

-----------------------------------------------------------------------------
(* Frames.                                                                 *)

Frame(id, len) == <<id, len>> \o [i \in 1..len |-> 0]

\* The bodies a message may have: a handshake names a port and a node; the
\* other messages are empty when all their fields have default values.
Frames(id) == {Frame(id, len) : len \in IF id = HandshakeQ THEN {MaxBody} ELSE 0..MaxBody}

\* The buffer begins with a whole message.
Complete(s) ==
    /\ Len(s) >= HeaderLen
    /\ Len(s) >= HeaderLen + s[2]

Rest(s) == SubSeq(s, HeaderLen + s[2] + 1, Len(s))

-----------------------------------------------------------------------------
(* Sending.  out and wire are the two ends of what one process sends.      *)

AtMost(a, b) == IF a < b THEN a ELSE b

\* Fault: the bytes that were sent are not taken off the buffer.
SendTwice(o) ==
    LET n == AtMost(SockCap - Len(o.wire), Len(o.out))
    IN  [o EXCEPT !.wire = @ \o SubSeq(o.out, 1, n)]

\* ::send takes what fits, and nothing (EAGAIN) when the socket is full; what
\* is left moves to the front.
Send(o) ==
    LET n == AtMost(SockCap - Len(o.wire), Len(o.out))
    IN  [o EXCEPT !.wire = @ \o SubSeq(o.out, 1, n), !.out = SubSeq(o.out, n + 1, Len(o.out))]

\* A message is appended to the buffer and the buffer is sent at once.
QueueAndSend(o, frame) ==
    Send([o EXCEPT !.out = @ \o frame, !.over = @ \/ Len(o.out) + Len(frame) > BufCap])

Outgoing(e) == [out |-> outBuf[e], wire |-> wire[e], over |-> FALSE]

\* o is what e's buffer and socket have become.
Sent(e, o) ==
    /\ outBuf' = [outBuf EXCEPT ![e] = o.out]
    /\ wire' = [wire EXCEPT ![e] = o.wire]
    /\ alive' \in {TRUE, ~o.over}

-----------------------------------------------------------------------------
(* Connecting.                                                             *)

\* connect is handed to epoll, succeeds at once, or fails.  After an
\* immediate success nothing is sent.
TryConnect ==
    /\ link = "closed"
    /\ link' \in {"connecting", "direct", "failed"}
    /\ wantWrite' = [wantWrite EXCEPT !["node"] = (link' = "connecting")]
    /\ UNCHANGED <<inBuf, outBuf, wire, wantRead, looping, tied, alive>>

\* Fault: the handshake is only put in the buffer.
SendHandShakeQLater == \E f \in Frames(HandshakeQ) :
    /\ outBuf' = [outBuf EXCEPT !["node"] = @ \o f]
    /\ UNCHANGED <<wire, alive>>

SendHandShakeQ == \E f \in Frames(HandshakeQ) :
    Sent("node", QueueAndSend(Outgoing("node"), f))

AcceptedCallback ==
    /\ link = "connecting"
    /\ wantWrite' = [wantWrite EXCEPT !["node"] = FALSE]
    /\ \/ link' = "up" /\ SendHandShakeQ
       \/ link' = "failed" /\ UNCHANGED <<outBuf, wire, alive>>
    /\ UNCHANGED <<inBuf, wantRead, looping, tied>>

-----------------------------------------------------------------------------
(* The callbacks of an established connection.                             *)

Free(e) == link = "up" /\ alive /\ ~looping[e]

\* Up to BufCap bytes are received behind what the buffer holds already.
RecvCallback(e) ==
    /\ Free(e) /\ wantRead[e]
    /\ \E n \in 1..AtMost(BufCap, Len(wire[Other(e)])) :
          /\ inBuf' = [inBuf EXCEPT ![e] = @ \o SubSeq(wire[Other(e)], 1, n)]
          /\ wire' = [wire EXCEPT ![Other(e)] = SubSeq(@, n + 1, Len(@))]
    /\ looping' = [looping EXCEPT ![e] = Complete(inBuf'[e])]
    /\ alive' \in {TRUE, Len(inBuf'[e]) <= BufCap}
    /\ UNCHANGED <<link, outBuf, wantRead, wantWrite, tied>>

\* What the handler of a message puts on the connection it came on, and
\* whether the connection is read afterwards.  A new node gets its first
\* appendentries_q before the answer to its handshake; a returning one gets
\* the answer, and unless it has its old descriptor again Server_CloseConn
\* has switched off its own channel; a refused one gets the empty answer.
Answered(o, id) ==
    CASE id = HandshakeQ ->
           LET yes == Frame(HandshakeR, MaxBody)
           IN  {[sent |-> QueueAndSend(QueueAndSend(o, q), yes), tied |-> TRUE, reads |-> TRUE] :
                   q \in Frames(AppendEntriesQ)}
               \cup {[sent |-> QueueAndSend(o, yes), tied |-> TRUE, reads |-> r] : r \in BOOLEAN}
               \cup {[sent |-> QueueAndSend(o, Frame(HandshakeR, 0)), tied |-> tied, reads |-> TRUE]}
      [] id = AppendEntriesQ ->
           {[sent |-> QueueAndSend(o, r), tied |-> tied, reads |-> TRUE] : r \in Frames(AppendEntriesR)}
      [] OTHER -> {[sent |-> o, tied |-> tied, reads |-> TRUE]}

\* Fault: EPOLLOUT is not switched off.
InterestAfterKeeps(e) == wantWrite[e] \/ outBuf'[e] # <<>>

\* Fault: EPOLLOUT is not switched on.
InterestAfterNever(e) == FALSE

\* EnableWrite or DisableWrite, by what the handler left in the buffer.
InterestAfter(e) == outBuf'[e] # <<>>

\* Fault: the loop ends after one message.
LoopsOnNever(s) == FALSE

\* Fault: a header alone is taken for a message.
LoopsOnHeader(s) == Len(s) >= HeaderLen

\* The loop goes on while the buffer holds a whole message.
LoopsOn(s) == Complete(s)

\* One turn of HandleArrivedMsg: the first message is taken from the buffer,
\* its handler runs, and EPOLLOUT is set by what is left to send.
HandleFrame(e) ==
    /\ link = "up" /\ alive /\ looping[e]
    /\ \E a \in Answered(Outgoing(e), inBuf[e][1]) :
          /\ Sent(e, a.sent)
          /\ tied' = a.tied
          /\ wantRead' = [wantRead EXCEPT ![e] = @ /\ a.reads]
    /\ inBuf' = [inBuf EXCEPT ![e] = Rest(@)]
    /\ wantWrite' = [wantWrite EXCEPT ![e] = InterestAfter(e)]
    /\ looping' = [looping EXCEPT ![e] = LoopsOn(inBuf'[e])]
    /\ UNCHANGED link

\* The socket is writable.  With an empty buffer the callback returns at
\* once and leaves EPOLLOUT on: the loop is called again and again.
SendCallback(e) ==
    /\ Free(e) /\ wantWrite[e]
    /\ outBuf[e] # <<>> /\ Len(wire[e]) < SockCap
    /\ Sent(e, Send(Outgoing(e)))
    /\ wantWrite' = [wantWrite EXCEPT ![e] = (outBuf'[e] # <<>>)]
    /\ UNCHANGED <<link, inBuf, wantRead, looping, tied>>

Underway == Len(inBuf["hub"]) + Len(outBuf["hub"]) + Len(wire["hub"])
            + Len(inBuf["node"]) + Len(outBuf["node"]) + Len(wire["node"])

Stranded == outBuf["hub"] # <<>> /\ wire["hub"] = <<>>

\* Fault: the timer passes over a connection that still has bytes to send.
SendAppendEntriesIdle ==
    /\ Free("hub") /\ tied /\ outBuf["hub"] = <<>>
    /\ Underway < MaxBytes
    /\ \E f \in Frames(AppendEntriesQ) : Sent("hub", QueueAndSend(Outgoing("hub"), f))
    /\ UNCHANGED <<link, inBuf, wantRead, wantWrite, looping, tied>>

\* Called by the heartbeat timer and when another node joins.  EPOLLOUT is
\* left as it is.
SendAppendEntries ==
    /\ Free("hub") /\ tied
    /\ Underway < MaxBytes \/ Stranded
    /\ \E f \in Frames(AppendEntriesQ) : Sent("hub", QueueAndSend(Outgoing("hub"), f))
    /\ UNCHANGED <<link, inBuf, wantRead, wantWrite, looping, tied>>

-----------------------------------------------------------------------------
Next ==
    \/ TryConnect \/ AcceptedCallback
    \/ \E e \in End : RecvCallback(e) \/ HandleFrame(e) \/ SendCallback(e)
    \/ SendAppendEntries

Spec == Init /\ [][Next]_vars

\* Both loops serve what is ready and finish their handlers; a connect that
\* was begun comes to an end; the Hub's timer is periodic.
Fairness ==
    /\ WF_vars(AcceptedCallback) /\ WF_vars(SendAppendEntries)
    /\ \A e \in End : WF_vars(RecvCallback(e)) /\ WF_vars(HandleFrame(e))
                      /\ WF_vars(SendCallback(e))

LiveSpec == Spec /\ Fairness

-----------------------------------------------------------------------------
(* Properties.                                                             *)

\* The buffers hold bytes, the socket never more than it takes, and inside
\* the loop of HandleArrivedMsg the buffer begins with a whole message.
TypeOK ==
    /\ link \in {"closed", "connecting", "direct", "failed", "up"}
    /\ inBuf \in [End -> Seq(Byte)] /\ outBuf \in [End -> Seq(Byte)]
    /\ wire \in [End -> Seq(Byte)]
    /\ \A e \in End : Len(wire[e]) <= SockCap
    /\ wantRead \in [End -> BOOLEAN] /\ wantWrite \in [End -> BOOLEAN]
    /\ looping \in [End -> BOOLEAN]
    /\ \A e \in End : looping[e] => Complete(inBuf[e])
    /\ tied \in BOOLEAN /\ alive \in BOOLEAN

\* At a node, which only ever answers, EPOLLOUT is on exactly while bytes
\* wait: nothing is stranded, and the loop is not called for nothing
\* (Mod.cpp:132-139, Conn.cpp:177-191).  Only the handshake is sent without
\* setting EPOLLOUT (Conn.cpp:268).
NodeInterest == link = "up" => (wantWrite["node"] <=> outBuf["node"] # <<>>)

\* A receive writes less than one message past the end of the buffer, since
\* HandleArrivedMsg leaves less than one message in it (Conn.cpp:131-132).
OverrunIsBounded == \A e \in End : Len(inBuf[e]) < BufCap + HeaderLen + MaxBody

\* The handshake of a connect that went through epoll is handled, although
\* SendHandShakeQ does not ask for EPOLLOUT (Conn.cpp:114, 255-290); only a
\* connect that succeeds at once leaves the node silent.
HandshakeHandled == (link = "connecting") ~> (link = "failed" \/ wire["hub"] # <<>>)

\* Messages keep being handled at both ends, although the Hub's timer leaves
\* bytes in the buffer without asking for EPOLLOUT (Conn.cpp:348-368): the
\* next tick or the next answer takes them along.  They stop for a node that
\* came back on another descriptor, which the Hub no longer reads
\* (Conn.cpp:401).
FramesFlow ==
    \/ <>~alive
    \/ []~tied
    \/ <>~wantRead["hub"]
    \/ \A e \in End : []<><<HandleFrame(e)>>_vars

\* When the timer has sent what EPOLLOUT was waiting for, the loop spins on
\* an empty buffer (Conn.cpp:170-171), until the next answer ends it.
SpinEnds ==
    (wantWrite["hub"] /\ outBuf["hub"] = <<>>)
        ~> (~wantWrite["hub"] \/ outBuf["hub"] # <<>> \/ ~alive)

===============================================================================

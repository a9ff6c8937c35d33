------------------------------- MODULE MCStream -------------------------------
(* The connection of Stream as a MessageLink: the messages underway are the  *)
(* ones that the receiver's buffer, the socket and the sender's buffer spell *)
(* out together.                                                             *)
EXTENDS Stream

\* The messages of a sequence of bytes.
Cut[s \in Seq(Byte)] ==
    IF Complete(s) THEN <<[id |-> s[1], len |-> s[2]]>> \o Cut[Rest(s)] ELSE <<>>

Queue == [e \in End |-> Cut[inBuf[Other(e)] \o wire[e] \o outBuf[e]]]

Link == INSTANCE MessageLink WITH queue <- Queue, tied <- tied

\* However receives and sends cut the bytes, every message is handled once,
\* whole and in order, and the answers to it are queued in the order in which
\* they were made (Mod.cpp:75-143, Conn.cpp:125-205).
ImplementsMessageLink == Link!Spec

===============================================================================

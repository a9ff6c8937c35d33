----------------------------- MODULE MessageLink -----------------------------
(***************************************************************************)
(* What a connection promises to the code that uses it, and what NanoRaft  *)
(* takes for granted: in each direction whole messages arrive, each once,  *)
(* in the order in which they were sent, and the answers to a message are  *)
(* queued behind what was sent before.                                     *)
(***************************************************************************)
EXTENDS Integers, Sequences

CONSTANT MaxBody        \* the longest body of a message

\* The sub-identifiers of the messages that are exchanged (257 to 260).
HandshakeQ     == 1
HandshakeR     == 2
AppendEntriesQ == 3
AppendEntriesR == 4

End == {"hub", "node"}
Other(e) == IF e = "hub" THEN "node" ELSE "hub"

Body == 0..MaxBody
Message == [id : {HandshakeQ, HandshakeR, AppendEntriesQ, AppendEntriesR}, len : Body]

VARIABLES
    queue,              \* queue[e]: messages e has sent and its peer not handled
    tied                \* whether the Hub sends to this connection

Init == queue = [e \in End |-> <<>>] /\ tied = FALSE

Of(id) == [id : {id}, len : Body]

\* What the handler of a message may send back.
Answers(id) ==
    CASE id = HandshakeQ     -> {<<q, r>> : q \in Of(AppendEntriesQ), r \in Of(HandshakeR)}
                                \cup {<<r>> : r \in Of(HandshakeR)}
      [] id = AppendEntriesQ -> {<<r>> : r \in Of(AppendEntriesR)}
      [] OTHER               -> {<<>>}

Connect == \E m \in Of(HandshakeQ) :
    queue' = [queue EXCEPT !["node"] = Append(@, m)] /\ UNCHANGED tied

Broadcast ==
    /\ tied
    /\ \E m \in Of(AppendEntriesQ) : queue' = [queue EXCEPT !["hub"] = Append(@, m)]
    /\ UNCHANGED tied

\* e handles the next message of its peer.
Handle(e) ==
    /\ queue[Other(e)] # <<>>
    /\ LET m == Head(queue[Other(e)])
       IN  \E a \in Answers(m.id) :
              /\ queue' = [queue EXCEPT ![Other(e)] = Tail(@), ![e] = @ \o a]
              /\ tied' \in IF m.id = HandshakeQ THEN {tied, TRUE} ELSE {tied}

Next == Connect \/ Broadcast \/ \E e \in End : Handle(e)

Spec == Init /\ [][Next]_<<queue, tied>>

==============================================================================

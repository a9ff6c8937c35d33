------------------------------- MODULE Expiry -------------------------------
(***************************************************************************)
(* The expiry of idle players, src/timer/Timer.cpp, and the recovery of an *)
(* interrupted expiry from the server's own output, src/log/Logger.cpp.    *)
(*                                                                         *)
(* Redis keeps a sorted set of the players by login time ("the heap") and  *)
(* one hash per player.  A periodic timer counts the old ones; when there  *)
(* is one it takes the first players of the heap in one transaction, then  *)
(* in a second one reads their hashes and gives each a time to live, and   *)
(* the answer is what is written to the data base.  Between the two the    *)
(* server prints a line "pre:EXPIRE <players>", after the second a line    *)
(* "done:EXPIRE"; a restarted server reads these lines back.               *)
(*                                                                         *)
(* A transaction is one request here: it comes from one connection, is     *)
(* queued behind MULTI and runs as one at EXEC, or is refused as one.  The *)
(* output reaches the file through stdio's buffer: a crash loses what is   *)
(* still in it.                                                            *)
(***************************************************************************)
EXTENDS Integers, Sequences, FiniteSets, Functions

CONSTANTS User,       \* the players
          Batch,      \* players taken at once: ZRANGE 0 5 takes six
          MaxLogins,  \* bound: logins in a behaviour
          MaxPipe,    \* bound: requests under way when the timer fires
          MaxLives    \* bound: starts of the server

ASSUME ExpiryBounds == {Batch, MaxLogins, MaxPipe, MaxLives} \subseteq Nat \ {0}

VARIABLES heap,     \* redis: the players in the order of their login times
          aged,     \* redis: those of the heap older than 30 seconds
          data,     \* redis: the hash of each player, "none", "live" or "ttl"
          unsynced, \* the players whose data has not been reported written
          auth,     \* redis: whether it takes commands of this connection
          cmds,     \* requests redis has not executed
          replies,  \* answers the server has not handled
          log,      \* the lines printed, as far as a crash left them
          kept,     \* how many of them earlier lives left in test.log
          ctx,      \* the server: "down", "up", or "lost" its redis context
          logins, lives,
          apart,    \* history: one batch at a time, and no line lost so far
          exposed   \* history: the players who came back to a hash that goes on
                    \* expiring, or whose batch was being written at a crash

redis == <<heap, aged, data>>
history == <<apart, exposed>>
server == <<ctx, lives>>
vars == <<heap, aged, data, unsynced, auth, cmds, replies, log, kept, ctx,
          logins, lives, apart, exposed>>

Kinds == {"AUTH", "ZCOUNT", "REDIS", "DB", "RSTOREDB"}
Writes == {"DB", "RSTOREDB"}

\* A request, or the answer to it; ok is FALSE in an error, which names nobody.
Request == [op : Kinds, ok : BOOLEAN, users : SUBSET User]
Line == [tag : {"pre", "done"}, of : {"EXPIRE", "sync"}, users : SUBSET User]

Ask(op, users) == [op |-> op, ok |-> TRUE, users |-> users]
Error(op) == [op |-> op, ok |-> FALSE, users |-> {}]
Pre(of, users) == [tag |-> "pre", of |-> of, users |-> users]
Done(of) == [tag |-> "done", of |-> of, users |-> {}]

Init ==
    /\ heap = <<>> /\ aged = {} /\ data = [u \in User |-> "none"]
    /\ unsynced = {} /\ auth = FALSE /\ cmds = <<>> /\ replies = <<>>
    /\ log = <<>> /\ kept = 0
    /\ ctx = "down" /\ logins = 0 /\ lives = 0
    /\ apart = TRUE /\ exposed = {}

-----------------------------------------------------------------------------
(* The players and redis. *)

\* The answers under way that would be written, without the data of u.
Outdated(u) ==
    [i \in 1..Len(replies) |->
        IF replies[i].op \in Writes THEN [replies[i] EXCEPT !.users = @ \ {u}] ELSE replies[i]]

\* A player logs in: into the heap with the time of now, and new data into its
\* hash.  A hash that is expiring may be made anew or go on expiring: it is the
\* login server's choice.  What an answer under way holds of it is out of date.
Login(u) ==
    /\ logins < MaxLogins
    /\ u \notin Range(heap)
    /\ logins' = logins + 1
    /\ heap' = Append(heap, u)
    /\ \/ /\ data' = [data EXCEPT ![u] = "live"]
          /\ exposed' = exposed \ {u}
       \/ /\ data[u] = "ttl"
          /\ exposed' = exposed \cup {u}
          /\ UNCHANGED data
    /\ unsynced' = unsynced \cup {u}
    /\ replies' = Outdated(u)
    /\ UNCHANGED <<aged, auth, cmds, log, kept, server, apart>>

\* Thirty seconds after its login the next player of the heap is old.
Age ==
    /\ \E i \in 1..Len(heap) :
          /\ heap[i] \notin aged
          /\ \A j \in 1..(i - 1) : heap[j] \in aged
          /\ aged' = aged \cup {heap[i]}
    /\ UNCHANGED <<heap, data, unsynced, auth, cmds, replies, log, kept, server, logins, history>>

\* The time to live of a hash runs out.
TimeToLive(u) ==
    /\ data[u] = "ttl"
    /\ data' = [data EXCEPT ![u] = "none"]
    /\ UNCHANGED <<heap, aged, unsynced, auth, cmds, replies, log, kept, server, logins, history>>

\* Fault: one player too many is taken.
TakenOneMore == {heap[i] : i \in 1..(IF Len(heap) =< Batch THEN Len(heap) ELSE Batch + 1)}

\* The ranks from 0 to Batch - 1, as far as the heap has them.
Ranks == IF Len(heap) < Batch THEN Len(heap) ELSE Batch

\* ZRANGE: the oldest logins, old enough or not.
Taken == {heap[i] : i \in 1..Ranks}

\* ZREMRANGEBYRANK of the same ranks.
Left == SubSeq(heap, Ranks + 1, Len(heap))

\* Redis executes the next request, of a connection it has authenticated.  A
\* ZCOUNT was asked with the time of the timer: it counts those old then that
\* are still there.
Execute ==
    /\ cmds # <<>>
    /\ auth \/ Head(cmds).op = "AUTH"
    /\ auth' = TRUE
    /\ LET q == Head(cmds)
           found == {u \in q.users : data[u] # "none"}
       IN  /\ cmds' = Tail(cmds)
           /\ replies' = Append(replies, Ask(q.op,
                 CASE q.op = "ZCOUNT" -> q.users \cap aged
                   [] q.op = "REDIS" -> Taken
                   [] OTHER -> found))
           /\ heap' = IF q.op = "REDIS" THEN Left ELSE heap
           /\ aged' = IF q.op = "REDIS" THEN aged \ Taken ELSE aged
           /\ data' = IF q.op = "DB"
                      THEN [u \in User |-> IF u \in found THEN "ttl" ELSE data[u]]
                      ELSE data
    /\ UNCHANGED <<unsynced, log, kept, server, logins, history>>

\* Redis answers the next request with an error and does nothing: a command of
\* a connection it has not authenticated, a transaction it discards.  One that
\* has no password refuses AUTH and takes the commands all the same.
Refuse ==
    /\ cmds # <<>>
    /\ cmds' = Tail(cmds)
    /\ replies' = Append(replies, Error(Head(cmds).op))
    /\ \/ Head(cmds).op = "AUTH" /\ auth' \in BOOLEAN
       \/ Head(cmds).op # "AUTH" /\ UNCHANGED auth
    /\ UNCHANGED <<redis, unsynced, log, kept, server, logins, history>>

-----------------------------------------------------------------------------
(* The server. *)

\* Commands are queued on the context; one that has failed queues nothing.
Send(qs) == cmds' = IF ctx = "up" THEN cmds \o qs ELSE cmds

\* printf: the line waits in the buffer of stdout, with those before it.
PrintLines(lines) == log' = log \o lines /\ UNCHANGED kept

ServerTimeoutCallback ==
    /\ ctx # "down"
    /\ Len(cmds) + Len(replies) < MaxPipe
    /\ Send(<<Ask("ZCOUNT", aged)>>)
    /\ UNCHANGED <<redis, unsynced, auth, replies, log, kept, server, logins, history>>

\* The next answer the client library reads is handled by the callback of its request.
Answer(op) == replies # <<>> /\ Head(replies).op = op /\ replies' = Tail(replies)

\* An answer is printed, whatever it says.  The context is not the subscriber's:
\* nothing follows the authentication, and commands queued behind it have gone
\* out already.
RedisAuthCallback ==
    /\ Answer("AUTH")
    /\ UNCHANGED <<redis, unsynced, auth, cmds, log, kept, server, logins, history>>

\* Fault: a single old player is not enough.
TakeIfSeveral(n) == n > 1

\* ulNum > 0.
TakeIfOld(n) == n > 0

\* An answer that is no number is passed over.  The flag that is set when the
\* timer fires and reset when there is nobody, m_bIsRun_, is never read.
RedisZCOUNTCallback ==
    /\ Answer("ZCOUNT")
    /\ \/ /\ Head(replies).ok /\ TakeIfOld(Cardinality(Head(replies).users))
          /\ Send(<<Ask("REDIS", {})>>)
       \/ /\ Head(replies).ok => ~TakeIfOld(Cardinality(Head(replies).users))
          /\ UNCHANGED cmds
    /\ UNCHANGED <<redis, unsynced, auth, log, kept, server, logins, history>>

\* The batches whose answer has not come: at most one keeps the lines in pairs.
Open == {i \in 1..Len(cmds) : cmds[i].op = "DB"}
OpenReplies == {i \in 1..Len(replies) : replies[i].op = "DB"}

\* The heap's players are here: name them in the output, ask for their data
\* and let it expire.  An answer that is no array is passed over.
RedisResultCallback ==
    /\ Answer("REDIS")
    /\ \/ /\ Head(replies).ok
          /\ Send(<<Ask("DB", Head(replies).users)>>)
          /\ PrintLines(<<Pre("EXPIRE", Head(replies).users)>>)
          /\ apart' = (apart /\ Open = {} /\ OpenReplies = {})
       \/ /\ ~Head(replies).ok
          /\ UNCHANGED <<cmds, log, kept, apart>>
    /\ UNCHANGED <<redis, unsynced, auth, server, logins, exposed>>

SyncLines == <<Pre("sync", {}), Done("sync")>>

\* The batch is done whatever the answer, and written if it is an array.
RedisToDBCallback ==
    /\ Answer("DB")
    /\ \/ /\ Head(replies).ok
          /\ PrintLines(<<Done("EXPIRE")>> \o SyncLines)
          /\ unsynced' = unsynced \ Head(replies).users
       \/ /\ ~Head(replies).ok
          /\ PrintLines(<<Done("EXPIRE")>>)
          /\ UNCHANGED unsynced
    /\ UNCHANGED <<redis, auth, cmds, server, logins, history>>

\* Fault: a restored batch is reported done, once for all of them.
RedisRestoreToDBCallbackDone ==
    /\ Answer("RSTOREDB")
    /\ PrintLines(<<Done("EXPIRE")>> \o SyncLines)
    /\ unsynced' = unsynced \ Head(replies).users
    /\ UNCHANGED <<redis, auth, cmds, server, logins, history>>

RedisRestoreToDBCallback ==
    /\ Answer("RSTOREDB")
    /\ \/ /\ Head(replies).ok
          /\ PrintLines(SyncLines)
          /\ unsynced' = unsynced \ Head(replies).users
       \/ /\ ~Head(replies).ok
          /\ UNCHANGED <<log, kept, unsynced>>
    /\ UNCHANGED <<redis, auth, cmds, server, logins, history>>

\* The context fails: every pending callback gets a NULL reply and returns.
ContextError ==
    /\ ctx = "up" /\ ctx' = "lost"
    /\ cmds' = <<>> /\ replies' = <<>>
    /\ UNCHANGED <<redis, unsynced, auth, log, kept, lives, logins, history>>

\* The server stops.  stdio has emptied its buffer whenever it was full: any
\* part of what this life printed is in the file, cut where a line ends.
Crash ==
    /\ ctx # "down" /\ ctx' = "down"
    /\ cmds' = <<>> /\ replies' = <<>>
    /\ \E k \in kept..Len(log) :
          /\ kept' = k
          /\ log' = SubSeq(log, 1, k)
          /\ apart' = (apart /\ k = Len(log))
    /\ UNCHANGED <<redis, unsynced, auth, lives, logins, exposed>>

\* What is printed of a batch before all of it is.
CutShort(op) ==
    IF op = "DB" THEN {<<Done("EXPIRE")>>, <<Done("EXPIRE"), Pre("sync", {})>>}
                 ELSE {<<Pre("sync", {})>>}

\* A crash in the middle of RedisToDBCallback or RedisRestoreToDBCallback, what
\* was printed before it in the file.  Nothing else of the server runs between
\* the lines of a callback: only a crash tells them apart.
CrashInCallback ==
    /\ replies # <<>> /\ Head(replies).ok /\ Head(replies).op \in Writes
    /\ \E lines \in CutShort(Head(replies).op) : log' = log \o lines
    /\ kept' = Len(log')
    /\ exposed' = exposed \cup Head(replies).users
    /\ ctx' = "down"
    /\ cmds' = <<>> /\ replies' = <<>>
    /\ UNCHANGED <<redis, unsynced, auth, lives, logins, apart>>

-----------------------------------------------------------------------------
(* Logger::Restore: a "pre:" line is pushed, a "done:" line pops. *)

Push(stack, line) ==
    IF line.tag = "pre" THEN Append(stack, line) ELSE SubSeq(stack, 1, Len(stack) - 1)

Stack(lines) ==
    LET s[n \in 0..Len(lines)] == IF n = 0 THEN <<>> ELSE Push(s[n - 1], lines[n])
    IN  s[Len(lines)]

\* Fault: the last player of a line is left out.
RestoreButLast(lines) ==
    UNION {line.users \ {CHOOSE u \in line.users : TRUE} :
           line \in {l \in Range(Stack(lines)) : l.of = "EXPIRE" /\ l.users # {}}}

\* The players named in what is left on the stack.
Restore(lines) ==
    UNION {line.users : line \in {l \in Range(Stack(lines)) : l.of = "EXPIRE"}}

\* The channel's constructor queues the authentication.
RedisTodoAuth == Ask("AUTH", {})

\* Timer::Timer for the server's own timer.
Timer ==
    /\ ctx = "down" /\ lives < MaxLives
    /\ lives' = lives + 1
    /\ ctx' = "up" /\ auth' = FALSE
    /\ cmds' = <<RedisTodoAuth, Ask("RSTOREDB", Restore(log))>>
    /\ UNCHANGED <<redis, unsynced, replies, log, kept, logins, history>>

Next ==
    \/ \E u \in User : Login(u) \/ TimeToLive(u)
    \/ Age \/ Execute \/ Refuse
    \/ ServerTimeoutCallback
    \/ RedisAuthCallback \/ RedisZCOUNTCallback \/ RedisResultCallback
    \/ RedisToDBCallback \/ RedisRestoreToDBCallback
    \/ ContextError \/ Crash \/ CrashInCallback \/ Timer

\* The timer is periodic, redis answers what it receives, and the event loop
\* hands over each answer.
Fairness ==
    /\ WF_vars(ServerTimeoutCallback)
    /\ WF_vars(Execute \/ Refuse)
    /\ WF_vars(RedisAuthCallback \/ RedisZCOUNTCallback \/ RedisResultCallback
               \/ RedisToDBCallback \/ RedisRestoreToDBCallback)

Spec == Init /\ [][Next]_vars /\ Fairness

-----------------------------------------------------------------------------
(* Properties *)

\* The types of the variables; a batch, and a line printed for it, never names
\* more players than were asked for: six in the code, so that the positions of
\* the line's seven blanks fit the array of ten of Logger::Restore, as long as
\* no player's name has a blank.
TypeOK ==
    /\ heap \in Seq(User) /\ IsInjective(heap) /\ aged \subseteq Range(heap)
    /\ data \in [User -> {"none", "live", "ttl"}] /\ unsynced \subseteq User
    /\ auth \in BOOLEAN /\ cmds \in Seq(Request) /\ replies \in Seq(Request)
    /\ log \in Seq(Line) /\ kept \in 0..Len(log)
    /\ \A i \in 1..Len(log) : Cardinality(log[i].users) =< Batch
    /\ ctx \in {"down", "up", "lost"} /\ apart \in BOOLEAN
    /\ exposed \subseteq User
    /\ logins \in 0..MaxLogins /\ lives \in 0..MaxLives

\* Logger::Restore pops its stack at every "done:" without asking whether it is
\* empty.  However batches overlapped, whatever redis refused and whatever the
\* crashes so far kept of the output, no prefix of the log has more "done:"
\* lines than "pre:" lines.  The lines are those of Timer.cpp: a player's name
\* or data with "pre:" or "done:" in it is left out.
RestoreNeverUnderflows ==
    \A n \in 0..Len(log) :
        Cardinality({i \in 1..n : log[i].tag = "done"})
            =< Cardinality({i \in 1..n : log[i].tag = "pre"})

\* What the lines are for: as long as the batches came one at a time and no
\* crash lost a line, a player whose hash is about to expire although its data
\* has not been written is one a restart would fetch again.  Two players are
\* not protected: the one who came back to a hash that goes on expiring, and
\* the one whose batch RedisToDBCallback was writing, after "done:EXPIRE", when
\* the server crashed.
UnsyncedIsRestored ==
    apart => \A u \in unsynced \ exposed : data[u] = "ttl" => u \in Restore(log)

\* A player who is old leaves the heap, unless the server stops or has lost its
\* redis, or redis refuses requests for ever (AUTH first of all, which nobody
\* checks): a timer that finds a batch under way asks again, and so does the
\* one after a refusal.
ExpiredIsTaken ==
    \/ []<><<Refuse>>_vars
    \/ \A u \in User : u \in aged ~> (u \notin aged \/ ctx # "up")
=============================================================================

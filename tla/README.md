# raft_server: specification, model checking and proofs

raft_server is a C++ server that replicates the configuration of a cluster: the
list of servers that have joined. This directory models its core in TLA+, checks
the models with TLC on small instances, and proves the main invariants with
TLAPS for every instance: every safety property of the passing runs, and both
refinements. `PROJECT.json` lists the runs, the mutants (small
changes of the models that a property must notice), the source lines behind each
definition, the hazards and the theorems.

## 1. The system

A cluster is a star. One process is launched with `start` and makes itself
leader; it is the only one that accepts connections and runs the leader's
heartbeat timer. We call it the Hub. Every other process is launched with `join`
and opens one TCP connection to the Hub. There are no elections: a follower whose
timer fires raises its own term, and "broadcasting" a vote prints a line.

| component | state | operations | interacts with |
|---|---|---|---|
| raft server (`nanoraft/RaftServer`, `RaftProxy`) | term, role, entries, commit index; per proxy next and match index, descriptor and weak pointer of its connection | become leader / follower / candidate, append an entry, broadcast, advance the commit index, accept, drop a connection | called by handlers and timers; calls connections and leveldb |
| handlers (`mod/ModApi.hpp`) | none | `HandshakeQ/R`, `AppendEntriesQ/R`, `RequestVoteQ` (empty) | called by `Mod` per message, changes the server through its connection |
| connection (`net/Conn`) | descriptor, channel, two buffers, weak pointers to server and proxy | connect, receive, send, close, tie to a proxy | owned by `m_stConns_` of the server |
| framing (`mod/Mod`) | none beyond the buffers | cut the stream into messages, dispatch, queue a reply | between connection and handlers |
| event loop (`eventloop/EventLoop`, `EPoller`, `Channel`) | epoll set, the round of active channels | poll, run handlers in turn, register channels | holds raw pointers to channels of connections |
| timers (`easytimer/Timer`) | a timerfd | leader: every 10 s broadcast; follower: once after 21 s, set again by an accepted empty heartbeat | calls the server |
| storage (leveldb) | `state_db` (term), `entries_db` (entries by index) | put, iterate at `restart` | written by the server |
| messages (`protocol/api.pb`) | the fields of seven messages | set, copy, size, write, parse | used by framing, handlers and storage |
| redis subscription (`eventloop/RedisChannel`) | sequence number, hold-back map | receive a numbered message | compiled in, not yet constructed by anyone |
| command line (`main.cpp`) | - | `start`, `join`, `restart` | - |
| expiry of players (`timer/Timer`, `log/Logger`), of the server this one grew from and not in its build | requests under way on a redis connection, the lines printed | count, take, fetch and expire a batch; restore from the log | redis through `RedisChannel` |

What is hard here, and what would make each part correct:

* **Replication.** The Hub counts *replies* instead of reading an index from them,
  so everything depends on which sends happen before which replies. Correct: what
  the Hub counts a node really holds; a node's log is a prefix of the Hub's; a
  commit index never goes back, is never ahead of the Hub's, and stands for
  entries that most members hold; members that fall behind catch up.
* **Terms.** A follower's time-out ends the only leadership there is. Correct:
  the former leader stops logging and committing although its timer goes on, and
  the new term reaches everyone.
* **Connections.** Descriptors are reused by the kernel and remembered by
  proxies; a handler may destroy a connection that is still waiting its turn in
  the same round, or the one whose channel is being handled. Correct: table,
  descriptors, proxies and epoll set agree; a
  node that comes back is heard; a connection that ended is cleaned up.
* **Hold-back queue.** Messages come late, twice or never. Correct: each one is
  passed on once, in order, as soon as it can be.
* **Bytes.** Sends and receives cut the stream anywhere, three places append to
  the same buffer and only two of them ask for EPOLLOUT, and the buffers have a
  fixed size nobody checks. Correct: each message is handled once, whole and in
  order; nothing in a buffer waits for ever; the loop does not spin for ever.
* **Encoding.** Sizes and bytes come from different code, default values are left
  out, and an entry is stored as a C string and parsed with a fixed length.
  Correct: what is read is what was written.
* **Restarts.** A new process overwrites the stored log from index 0 and does not
  read the stored term; a crash may come between a write and what follows it in
  memory. Correct: what is on disk is what was in memory, without
  holes and in order.
* **Expiry.** Players leave a sorted set in one transaction, their data expires by
  another, and a log on stdout pairs the two by a stack. Redis may refuse any of
  it, players come back meanwhile, and a crash may come inside a callback.
  Correct: a restart finds everyone whose data is about to go.
* **Failures.** leveldb may refuse a write (an entry is then skipped, a term ends
  the process); processes stop; messages in flight are lost with a connection.

The list `hazards` in `PROJECT.json` gives these at their source lines.

## 2. Modules

| module | models | notes |
|---|---|---|
| `NanoRaft` | replication: join, heartbeat, append, acknowledge, commit, time-out, step down, crash | every node joins once |
| `ConfigLog` | abstract: one log of joined servers, prefixes at the members, a committed prefix that most hold | |
| `NanoRaftPaced` | `NanoRaft` restricted to the timing it relies on; refinement mapping to `ConfigLog` | |
| `MCNanoRaft`, `MCNanoRaftPaced` | symmetry of the nodes | |
| `NanoRaftProofs`, `NanoRaftLogProofs` | theorems about `NanoRaft`, the second module on top of the first; it proves that `NanoRaftPaced` implements `ConfigLog` | |
| `ConnTable` | the Hub's connections, proxies' descriptors, epoll set, event loop, rejoin | |
| `ConnTableProofs` | theorems about `ConnTable` | |
| `HoldBack` | the hold-back queue | |
| `HoldBackProofs` | theorems about `HoldBack` | |
| `Stream` | one connection byte by byte: connect, handshake, buffers, partial sends and receives, EPOLLOUT | |
| `MessageLink` | abstract: a queue of messages in each direction, which is what `NanoRaft` and `ConnTable` take a connection for | |
| `MCStream` | refinement mapping of `Stream` to `MessageLink` | |
| `StreamProofs` | theorems about `Stream`, and that it implements `MessageLink` | |
| `Wire` | the generated methods of the messages, as operators | |
| `Codec`, `MCCodec` | what the program does with messages: frames, copies, stored entries | |
| `CodecProofs` | theorems about `Codec` and the encoding of `Wire` | |
| `Storage` | the two databases over several lives of a server | |
| `StorageProofs` | theorems about `Storage` | |
| `Expiry` | expiry of players, the redis command channel, restore from the log | |
| `ExpiryProofs` | theorems about `Expiry` | |

### NanoRaft

State: `currentTerm`, `role`, `entries`, `commitIndex` are the members of
`RaftServer` of the same names; `nextIndex`, `matchIndex` those of `RaftProxy`;
`conn` is how far a node's connection has got; `down` and `up` are the messages
of a TCP connection in each direction, in order; `armed` is the follower's
timer. `putErrors` and `resent` are history variables that let a property say
"unless a write failed" and "unless an entry was sent again while unanswered".

An entry is the server it announces and a term. Index *i* of the code is element
*i + 1* of the sequence. The handlers are whole actions:

| action | code |
|---|---|
| `ConnectToPeer` | `RaftServer::ConnectToPeer`, `Conn::TryConnect`, `AcceptedCallback`, `SendHandShakeQ` |
| `HandshakeAccepted`, `HandshakeRefused` | `ModApi::HandshakeQ` for a node without a proxy, on a leader or not |
| `SendAppendEntriesCallback` | the leader timer and `BroadCastAppendEntries` |
| `HeartBeatTimeoutCallback` | the follower timer, `BecomeCandidate`, `BroadCastRequestVote` |
| `RejectAppendEntries`, `AcceptHeartbeat`, `AcceptEntries` | the three ways through `AppendEntriesQ`; each ends in the update of the commit index and a reply |
| `StepDown`, `HandleAppendEntriesR` | the two ways through `AppendEntriesR`; the second ends in `ChangeCommitIndex` |
| `CrashNode`, `CrashHub` | a killed process, a wild read, or `exit(1)` of `SetAndPersistTerm` |

Details of the code the model keeps: a message holds the entry at `nextIndex`,
with entry 0 in front when `nextIndex` is 1; a follower appends at the *end* of
its log whatever `prelogindex` says, and stores its own term in the entry; a
failed write is acknowledged; refusals too update the commit index; the quorum
counts proxies only; `m_stEntries_[m_dwCommitIndex_ + 1]` may be read past the
end, and then the comparison of terms goes either way; the heartbeat timer and
the counting of replies go on after the Hub has stepped down. In the initial
states the Hub has started: it leads in term 0, and its log holds its own entry,
or nothing if that first write (`main.cpp:53`) failed.

### ConnTable

A connection is numbered by the launch of its process. `sock` is the kernel's
view of descriptors, `conns` is `m_stConns_`, `proxyFd` and `proxyConn` are what
a proxy remembers, `chan` is a channel with its epoll registration, `active` the
channels of the current round that have not had their turn. A process leaves by
FIN, by reset, or without a word (`Leave`), and its node may be launched again.

`HandshakeTie` is a first join or a rejoin that got its old descriptor;
`HandshakeReplace` is the path through `Server_CloseConn`; `HandshakeEraseEnd`
is the same path when the remembered descriptor has no connection, where
`OfflineConn` erases the end iterator. Undefined behaviour is a choice: a
channel that was freed earlier in the same round, or that is read once more after
its own connection ended (`HandleEvent` goes on at `Channel.cpp:51` after the read
callback closed the connection, at a FIN as at a reset), either passes or ends the
Hub; erasing the end iterator ends it. The destructor's second
`close` of the same descriptor follows the first within one handler and cannot
hit another connection, so it is not shown.

### HoldBack

`seq` is `m_dwSeq_`; `held` and `nulls` are the keys of the map with a message
and with a null. The loop over the queue is part of the action of the message
that started it, written as the id it ends at (`DrainsTo`).

### Stream and MessageLink

`inBuf` and `outBuf` are the used parts of the two buffers, `wire[e]` what the
kernel holds of what `e` sent, `wantRead` and `wantWrite` EPOLLIN and EPOLLOUT, `looping` that an end is
inside the loop of `HandleArrivedMsg`: each turn of that loop is a step
(`HandleFrame`), because the peer goes on meanwhile. A header is two bytes here
(id and length) instead of six, and a body is its length in zeros. `send` takes
what fits into the socket, `recv` gives any part of what is there, so messages are
cut at every position. Writing past a buffer is undefined: the process may go on
or end (`alive`). The handlers are reduced to what they send on the connection
(`Answered`). One answer also ends the reading: a node that comes back on another
descriptor has its own channel switched off by `Server_CloseConn`, which is what
the run `rejoin_replaces_wrong` is about, and from then on the Hub receives
nothing from it. The three senders keep their difference: `HandleFrame` sets or
clears EPOLLOUT, `SendHandShakeQ` and `SendAppendEntries` leave it alone. The
branch of `TryConnect` where connect succeeds at once is the state `"direct"`, in
which nothing is sent.

### Wire and Codec

The generated code has seven copies of the same methods. `Wire` has them once;
the table of a class (`entry`, `handshake_q`, ...) gives the types of its fields
by field number, and table and operator together are the method of that class:
`Serialize(entry, m)` is `entry::SerializeWithCachedSizes`. In `PROJECT.json` a
table stands for the methods of its class (parse to size) and an operator for one
class's method. The library below (varints, skipping unknown fields, UTF-8) is
modelled from its use and marked external. Bytes are numbers, and a number is cut
at `UintSize` values, which stands for 2^32: TLC's own integers are narrower, so
the run takes 2^21, three whole groups of a varint.

A parse is a loop: `MergePartialFromCodedStream` is one turn of it, from the
position of a tag to the position behind the field, with the message so far and
whether the parse goes on, ends or fails; `Parse` runs the turns. The message of an
`appendentries_q` holds entries, which are parsed by the same loop over their part
of the bytes (`ParseEntry`).

`Codec` takes a message through one of three ways: frame and parse, with
unknown fields in front or behind; copy over an older entry; store and load. A
stored value is what `strlen` finds, so junk behind the unterminated buffer may
become part of it, and loading parses `LoadLen` bytes, 128 in the code, so junk
behind the value may be read. UTF-8 sequences of several bytes do not occur in the junk.

### Storage

`entriesDb` maps keys, sequences of digits, to stored entries; `stateDb` is the
term. `Launch` is `start` or `join` over the databases that are there: the log in
memory is empty and the term 0, as in the code. `LoadEntries` is `restart`, which
reads the log in the order of `IndexComparator` and ends; the order is given by
how many keys come before a key (`Rank`), so that it can be reasoned about. A write may fail: an
entry is then not appended, a term ends the process. `AppendCfgLog` is two steps,
the write and `PushBack`; between them the entry is `pending`, on disk and not in
memory, and a crash leaves it there. `Log` is the two together. The term's write
and its change in memory are one step, with a crash between them as one of its
outcomes. If the iterator of `LoadEntries` fails the process exits without having
changed anything, which is no step of the model. An entry is stored `clean`
when a zero follows it; any other comes back as `Garbled`, which stands for
whatever the parse made of it (`Codec` says what it can be). The base of the
digits is a parameter, so that a key of two digits occurs in a short log.

### Expiry

`heap`, `aged` and `data` are what redis holds of the players, `auth` whether it
takes commands of the connection, `cmds` and `replies` the two directions of the
pipelined connection, a transaction being one request. Redis executes a request
(`Execute`) or answers it with an error (`Refuse`); nobody looks at the answer to
AUTH, and refused it makes every later request an error. The callbacks are whole
actions, each with its way through an error. `log` is what was printed and `kept`
how much of it earlier lives left in `test.log`: stdout is buffered when it is
redirected, and a crash keeps any part of what this life has printed (nothing
reads the file before the next start, so it is enough to choose the part then). A
crash may also come between the lines of a callback that writes a batch
(`CrashInCallback`): as nothing else runs between them, that is the only step
which can tell them apart. `Restore` is `Logger::Restore` with its stack.

A player may log in again while the hash of the last session expires. Whether the
hash is then made anew is up to the login server, which is not in the repository,
so both are in the model; and the answers under way no longer hold what has to be
written (`Outdated`). A second login of a player who is still in the heap only
changes the order of the heap and is left out. The flag `m_bIsRun_` is set and
never read, so it is not state here.

Two variables are history. `apart`: no two batches were open at the same time, and
no line was lost. `exposed`: the players who came back to a hash that goes on
expiring, and those whose batch was being written when the server crashed.

## 3. Runs

| run | instance | result |
|---|---|---|
| `replication_safety` | 2 nodes, term up to 1, 2 messages per connection, 1 failed write, 1 crash; nodes symmetric | passes, 2.0 million states |
| `replication_liveness` | 2 nodes, term up to 1, 1 message, 1 crash, with fairness, no symmetry | passes |
| `paced_refinement` | 3 nodes, symmetric | passes |
| `commit_without_quorum` | 2 nodes, 2 messages | violation |
| `commit_past_log` | 3 nodes, nothing fails | violation |
| `connection_table` | 2 nodes, 3 launches, with fairness | passes, 212 thousand states |
| `rejoin_replaces_wrong` | 2 nodes, 3 launches | violation |
| `hold_back` | 7 ids | passes |
| `stream` | messages of 2 or 3 bytes, sockets of 4, buffers of 3, up to 5 bytes under way before the timer sends, with fairness | passes, 63 thousand states |
| `codec` | numbers 0, 1, 127 and 16384 (varints of one and three bytes), `UintSize` 2^21, up to 2 bytes of junk behind the buffer and 2 behind the value, `LoadLen` 40 | passes, 101 thousand states |
| `storage` | 2 nodes, base 3, 4 entries, terms 0 and 1, 2 lives | passes, 1.2 million states |
| `expiry` | 2 players, batches of 1, 2 logins, 2 requests before the timer waits, 2 lives, with fairness | passes, 744 thousand states |

Bounds. Two nodes are enough for every race between one node's replies and
another's join; the second join is what makes the Hub send while an entry is
unanswered. Two messages per connection allow an entry and its repetition; term 1
is the first time-out, and the same run passes with term 2. Three nodes are
needed where the cluster must commit index 2 before somebody joins. Three
launches are the fewest in which a node's descriptor is taken by another node
before it comes back, and in which two nodes leave and one returns on the other's
descriptor. Seven ids leave room for three gaps at once. A
buffer of three bytes under messages of three makes it overflow as soon as a part
of a message is left in it, and a socket of four holds one message and a part of
the next, so every send can be partial. Four entries in base 3 reach a key of two
digits, where the order of numbers and of texts part; two lives are one log
written over another. Two bytes of junk in either place can name a field that
is in the entry or not, write its tag in one byte or two (144, 0), skip, end the
parse or make it fail; 40 bytes instead of 128 hold the longest entry (37 bytes in
the code, fewer here) and all the junk, and keep TLC's evaluation of the parse
shallow. Two players in batches of one are two batches, which may
overlap, and two lives a crash and a restore; two logins are also one player who
comes back. Deadlock is not checked
where nodes may all have joined and stopped, or the launches are used up.

Fairness. The loop of a running process serves every readable connection, so the
handlers of messages and `Poll` are weakly fair; the leader's timer is periodic,
so its callback is, and so is the server timer of `Expiry`. In `Stream` a loop
serves a socket that is readable, or writable while EPOLLOUT is on, and finishes
its handler; a connect that was begun succeeds or fails. Redis executes what it
received or refuses it, and its answers are handed over. Nothing is assumed about processes
that join, time-outs, crashes, writes that fail, or how a process leaves.

What the passing runs say:

* `AckedIsStored`: the Hub never counts more of a node than the node holds, even
  with repeated entries, except for entries leveldb refused.
* `LogPrefix`: without a failed write or a repeated entry a node's log is a
  prefix of the Hub's. Both exceptions are real, see below.
* `LeaderOnlyInTermZero`, `FrozenAfterStepDown`, `TermSpreads`: one time-out ends
  the only leadership for good; the former leader harms nothing and spreads the
  term.
* `CommitLearnedFromHub`: commit indexes follow the Hub's.
* `CommitNeverRetreats`: the Hub's commit index never goes back, and a node's
  only if a write failed, although every refusal updates them. The exception came
  out of the proof: a Hub that could not store the entry of a node that joins has
  a proxy for it and no entry, so after its first message, of two entries and
  `prelogindex` 0, the node is heartbeaten about an index below the one it was
  first told, and `ModApi.hpp:245` takes it over because the Hub's own index is
  ahead of both. It takes three messages in flight, more than the run has.
* `CatchUp`: a quiet cluster ends with every member holding, and knowing, the
  committed log. Quiet means nobody times out or stops and nothing is repeated.
* `ImplementsConfigLog`: under the timing the code relies on, all of the above
  (time-outs and crashes included) is a behaviour of the abstract log.
* `TableIsOpenFds`, `OneConnPerProxy`, `InterestIsLive`: however nodes come and
  go, table and descriptors agree, a node has at most one connection whose
  replies count, and epoll never returns a dead pointer of an earlier round.
* `FirstJoinsAreSafe`: undefined behaviour needs a rejoin, or a connection that
  ends, by a FIN too. Without a rejoin the handler of one connection never frees
  the channel of another, and while no connection has ended nothing can end the
  Hub.
* `HandshakeServed`, `EofReaped`: the loop serves every handshake and cleans up
  every closed connection it still reads.
* `PassedOrWaiting`, `NullsBehind`: the hold-back queue loses, skips and strands
  nothing. Its lookups do leave a null in the map with every message after the
  first gap (`nulls` grows), so that it never counts as empty again.
* `ImplementsMessageLink`: however the bytes are cut, a connection is a queue of
  whole messages in each direction, which the other modules rely on.
* `OverrunIsBounded`: the receive buffer does overflow, by less than one message.
  The send buffer has no such bound: every heartbeat to a node that does not read
  adds to it.
* `NodeInterest`, `FramesFlow`, `SpinEnds`, `HandshakeHandled`: at a node EPOLLOUT
  is on exactly while bytes wait. At the Hub bytes may be stranded, and the loop
  may spin on an empty buffer, but the next tick and the next answer end both.
  `FramesFlow` excepts a node that came back on another descriptor, which the Hub
  no longer reads.
* `ReceivedIsSent`, `SizeIsExact`: messages survive framing and copying, also from
  a peer with more fields, and the announced size is the size.
* `StoredWhole`, `ChangedOnlyByJunk`: storing an entry as a C string never cuts
  it, since its encoding has no zero byte; reading it back with 128 bytes can
  change a field only if a byte of the junk has the tag of that field in its lower
  seven bits. That the eighth bit has to be left open came out of the proof: the
  reader also takes a tag written longer than it needs to be, so the junk 144, 0
  is the tag 16.
* `KeysContiguous`, `MemoryIsOnDisk`, `TermsOrdered`, `RestartRestores`: a restart
  reads the last log back, in order and without holes, with the entry that was
  being appended at the crash if it was written; behind it may follow
  entries of an older life, whose terms need not fit.
* `RestoreNeverUnderflows`: the stack of `Logger::Restore` is never popped empty,
  wherever a crash came and whatever was refused.
* `UnsyncedIsRestored`: with one batch at a time and no output lost, a restart
  fetches everyone whose data is about to expire unwritten, but for the players
  in `exposed`. Without `apart` TLC finds both losses: of two open batches the
  first answer closes the second one's line, and a line in stdio's buffer is lost
  while redis has the command. Without `exposed` it finds the two others: the
  player who came back to a hash that goes on expiring, after the batch was
  closed; and the batch that was being written at a crash. `RedisToDBCallback`
  prints `done:EXPIRE` first and writes afterwards (`Timer.cpp:517`, 534-539), so
  a crash between the two takes the batch off the stack of `Restore`, which passes
  over a `pre:sync` without its `done:sync` (`Logger.cpp:67-71`). The comment at
  `Timer.cpp:103`, which takes an answer that was not handled yet for the worst
  case, does not see this one.
* `ExpiredIsTaken`: old players leave the heap while the server has its redis,
  unless redis refuses requests again and again, as it does after a refused AUTH.

What the violations show (the code against its own comments):

* `CommitQuorum`: a tick while an answer is on its way repeats the entry; the
  node stores it twice and answers twice; the second answer counts for the *next*
  index, which is then committed while too few proxies hold it.
* `CommitWithinLog`: the first message has two entries and `prelogindex` 0, so
  the "last new index" is one too large, and a node that joins late commits past
  the end of its log.
* `OldConnIsReplaced`: replacing an old connection switches off the channel of
  the new one, which is never read again. The same model also reaches the cases
  where the connection that is closed belongs to another node, and where no
  connection has the descriptor and the Hub ends.

A refusal is not repaired either (`ModApi.hpp:293` has the intention as a
comment): a node that misses an entry refuses every message from then on, which
is why `CatchUp` is about clusters in which no write failed.

## 4. Proofs

The assumptions on the constants are those the modules state, and TLC evaluates
them on every run: a finite set of nodes without the Hub, any bounds
(`HubAssumption`, `NodeAssumption`, `BoundAssumption`; `NodeSetAssumption`,
`ConnsAssumption`); any number of ids below the size of the sequence number
(`MaxIdAssumption`); any sizes of messages and buffers, and a socket that takes
one message whole (`CapAssumption`); any base of the digits from 2 on and any
numbers of terms, entries and lives (`StorageBounds`); any size of a batch and
any numbers of logins, requests and lives (`ExpiryBounds`); numbers below
a multiple of 128 that need at most five groups of seven bits, as 2^32 does, and a
reader that takes at least five bytes of a varint (`UintAssumption`, `NumAssumption`,
`VarintAssumption`); hosts of at most 15 characters, as the text of an IPv4 address has (`HostAssumption`); any amount of
junk without bytes that begin UTF-8 of several bytes (`JunkAssumption`); and a
load that reads at least the longest stored entry (`LoadAssumption`). Nothing else
is assumed.

### Replication

* `TypeCorrect`: `TypeOK` is inductive as it stands. The interesting cases are
  `nextIndex` (never 0, so that `prelogindex` is a natural number) and
  `prelogterm` (the -1 of a missing term does not get into a message).
* `LeadershipSafe`: `LeaderOnlyInTermZero` is inductive with `TypeOK`. The Hub
  changes its term only when it steps down, and a reply cannot make a node lead.
* `StepDownFreezes`: an action property, from `LeadershipSafe`. A stepped-down Hub
  is in a term above 0 and all its entries are of term 0, so the comparison in
  `ChangeCommitIndex` fails at every index of its log.
* `CommitsComeFromHub`: `CommitLearnedFromHub` is not inductive: a message on its
  way may hold an index. The strengthening `CommitInv` adds that no message holds
  a `leadercommit` above the Hub's commit index.
* `AcknowledgedIsStored`: `AckedIsStored` needs the replies on their way.
  `AckInv` says that `nextIndex` is `matchIndex + 1`, that a message of one entry
  goes only to a node whose log has been started, and that `matchIndex` plus the
  acknowledgements in flight is covered by the node's entries plus `putErrors`.
  Lemmas about the number of acknowledgements in a queue (appending, taking the
  head, cutting the tail) carry the arithmetic.
* `LogsArePrefixes`: `LogPrefix` looks at two logs, but whether it survives an
  append depends on what was sent when. `SendInv` says that only proxies are sent
  anything, that nothing on its way is of a later term than the Hub's, and that the
  Hub's log holds itself and its proxies, once each. `LogInv` says, for a node without a
  repeated entry and while no write failed, that entries in flight continue the
  node's log exactly (`InFlightFits`), that at most one message with entries
  is under way (`OneInFlight`), that the node holds exactly what is
  acknowledged or being acknowledged (`AckedExactly`), and that its log is a
  prefix (`IdsPrefix`).
* `CommitIndexesGrow`: a node sets its index from a message without comparing the
  new value with the old, so the messages in flight must be in order. `ToldInv`:
  what a node was told, and what each message will tell it, is within what every
  later message, and every message the Hub could now send, is about; and the Hub
  commits nothing that no proxy acknowledged.
* `PacedImplements`: `PacedSpec => ImplementsConfigLog`. Pacing keeps `resent` and
  `putErrors` empty (a paced cluster also begins without a failed write), so the invariants above hold without their exceptions
  (`PacedInv`). `JoinRefines`, `ReceiveRefines` and `CommitRefines` show that a
  first handshake is an abstract join, an accepted block an abstract receive, and an
  advance of the Hub's index an abstract commit, whose majority comes from the
  proxies that `ChangeCommitIndex` counted; every other step leaves the mapped
  state alone.

### Connections

* `TableHoldsOpenFds`, with `TableTypeCorrect`: inductive with the life cycle of a
  connection (`Lifecycle`: what is unaccepted has no descriptor) and the fact that
  `fdOf` and `conns` are inverse to each other (`TableInv`). Accept finds a
  descriptor because there are as many as connections, by counting.
* `EpollSetIsLive`: a registered channel belongs to a connection in the table
  (`InterestInv`); the paths that remove a connection also unregister it.
* `ProxyHasOneConn`: `ProxyOK` says that a proxy belongs to a node of which some
  connection was tied, and that a tied connection in the table is the one its
  proxy points to, by pointer and by descriptor.
  The step to look at is a rejoin, which closes by descriptor and not by
  connection.
* `FirstJoinsNeverEndHub`: as long as nobody was launched twice every channel of
  the current round is in the table (`SafeInv`), so that only the end of a
  connection, whose own channel is being handled, can end the Hub.

### Bytes

* `NodeNeverStrandsNorSpins`: the handshake is sent without touching EPOLLOUT.
  `InterestInv` adds that buffer and socket are empty before it, so that it goes
  out whole (`HandshakeGoesOut`).
* `StreamTypeCorrect`, `ReceiveOverrunsByLessThanAMessage`: from `StreamInv`, which
  says that receive buffer, wire and send buffer of one direction, put together,
  spell whole messages (`Framed`), and that an end is inside the loop of
  `HandleArrivedMsg` exactly while its buffer begins with a whole message. So less
  than one message is left in a buffer before a receive.
* `StreamImplementsLink`: the mapping cuts those bytes into messages (`Cut`, a
  recursive function). Sends and receives move a boundary inside the same bytes
  and are stutters; handling a frame takes the first message off and puts its
  answers at the end of the other direction.

### Storage and the hold-back queue

* `NothingLostNothingStuck`, `NullsStayBehind`, `QueueTypeCorrect`: the three
  invariants of `HoldBack` are inductive together.
* `TermsStayOrdered`, `DiskHoldsMemory`, `NoHolesInStore`: none is inductive alone.
  `LifeInv` says how a life begins (empty log, term 0) and that every stored entry
  is of a life so far. With it the terms and the agreement of memory and disk are
  preserved; the absence of holes needs that agreement, which bounds the index an
  append writes to.
* `RestartBringsBackLog`, `StorageTypeCorrect`: `LastInv` ties the disk to the log
  of the life that ended, the entry it had written last included, `LoadInv` the loaded log to the disk. Between them is
  the reading in the order of the comparator: `KeysSpell` (the number a key spells
  is the index it was made from, so that different indexes also have different
  keys), `KeysCounted` and `IteratedInOrder` (the n-th key the iterator meets is
  the one of index n - 1).

### Expiry

* `RestoreHasWhatItPops`, `ExpiryTypeCorrect`: from `LinesInv`. In every prefix of
  the log the lines "pre:" are at least the lines "done:", and in the whole log
  they are ahead by at least the batches under way, in either direction of the
  connection (`LogOK`, `Pending`). A crash empties the connection and cuts the log
  to a prefix, which is why the first half is about every prefix; a crash inside a
  callback adds what the callback had printed (`CutShortLog`).
* `RestartFetchesUnwritten`: `ApartInv` says, while `apart`, that at most one batch
  is under way and the top of the stack names it; before redis executes it the
  players are the same, and everyone who expires already is named further down;
  afterwards everyone who expires is in the answer or named further down, so that
  the "done:" line may take the top away. An error in place of the answer leaves
  nobody expiring who was not before, so it may take the top away too. The two
  sets of players for whom this does not go through are `exposed`.

### Encoding

* `SizesAreExact`: `ByteSizeLong` and `Serialize` are two walks over the same
  table. `VarintSize` is the length of `Varint`, and the sum of the sizes of the
  fields is the length of the bytes put together, with sum and concatenation both
  as functions iterated over the field numbers.
* `MessagesSurvive`: that the bytes of a message stand at a position of a longer
  text is `StandsAt`; that a parse gets from one position to another is `Visits`,
  over the turns of the loop (`IsRun`), each of which moves forward
  (`RunProgress`). There is one lemma for each kind of field: a turn that begins at a
  number, a text, an entry or a field not known sets that field, adds that entry,
  or changes nothing (`ScalarTurn`, `StringTurn`, `EntryTurn`, `UnknownTurn`).
  `MessagePath` strings them together for a whole message, whose default values
  are not there, and `ParseBack` says what the parse gives.
* `StoredEntriesAreWhole`: every byte of a stored entry is positive. A tag is, the
  last byte of a varint of a positive number is, the bytes before have the eighth
  bit set, and the characters of a host are.
* `JunkChangesOnlyWhatItNames`: the parse gets to the end of the entry as above
  (`LoadBack`). From there on every turn changes at most the field whose tag it
  reads, and that tag begins with a byte of the junk, since behind the junk come
  zeros, which end the parse.

All four come from `CodecInv`, which says for each stage what the bytes and the
message read are; it was checked with TLC on the instance of the run `codec` first.

Recursive functions (`Digits`, `Number`, `Cut`, `Stack`, and of `Wire` `Varint`,
`VarintValue`, `SumOf`, `SkipGroup`, `Parse`) are not given to the
provers as definitions. A lemma shows that the recursion has a solution and only
one; facts about all its values are shown by a least counterexample instead of
induction, since a nonempty set of natural numbers has a least element.

Only model-checked: liveness (`TermSpreads`, `CatchUp`, `HandshakeServed`,
`EofReaped`, `HandshakeHandled`, `FramesFlow`, `SpinEnds`, `ExpiredIsTaken`), which
no proof here can reach.

## 5. Not modelled

* Durations: the 10 and 21 seconds. A time-out may come at any time.
* A rejoin's effect on the replicated log (`NanoRaft` lets a node join once).
* What `handshake_r` says, which its receiver prints; `m_stLogs_`, which nothing
  fills, with `LogTermByIndex`, `DelLogsFromIndex`, `AppendLog`;
  `TryApplyLogToFSM` and `ApplyLogCallback`, which are never called.
* Descriptors, reflection, arenas and `Swap` of the generated code, and how the
  library encodes UTF-8 of several bytes.
* A player's own timer (`ClientTimeoutCallback`), which fills a queue nobody reads;
  the fields of a subscribed message; a line of output cut in the middle.
* The other lines of the output: the fields of a hash are printed as they are
  (`Timer.cpp:527`, `581`), and one with "pre:" or "done:" in it, or a player's
  name with these or with a blank, would be taken for a line by `Logger::Restore`.
  Its array of ten positions fits the seven blanks of a line of six names.
* A transaction that redis executes in part, one of its commands failing.
* What an overrun of the receive buffer writes over: it goes unnoticed or ends the
  process, and never changes other data.
* Sockets before they listen, signals that stop the loop, stack traces.
* leveldb and hiredis themselves, which are not in the repository.

## 6. Plan

Written so far: the modules above. Next, most important first:

1. `Cluster`: `NanoRaft` with the rejoin of `ConnTable` and the restart of
   `Storage`: a node that comes back with an empty log and term 0 meets the
   `nextIndex` and `matchIndex` of its former life.
2. Durations of the two timers: when a healthy cluster keeps its leader.

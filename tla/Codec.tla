-------------------------------- MODULE Codec --------------------------------
(***************************************************************************)
(* What the program does with the encoding of Wire: a message is composed, *)
(* written into a frame and parsed at the other end (Conn, Mod), an entry  *)
(* is copied out of the log into a message (EntryByIndex), and an entry is *)
(* stored in leveldb and read back (AppendCfgLog, LoadEntries).            *)
(*                                                                         *)
(* The store is the delicate part.  AppendCfgLog makes a Slice of the      *)
(* unterminated buffer, so the value ends at the first zero byte in or     *)
(* behind the buffer, and LoadEntries parses LoadLen bytes from where the  *)
(* value begins, whatever follows it.                                      *)
(***************************************************************************)
EXTENDS Wire

CONSTANTS
    Num,            \* values of numeric fields
    Host,           \* values of string fields
    JunkByte,       \* bytes found in memory behind a buffer or a value
    MaxJunk,        \* bound: bytes of junk that are looked at
    LoadLen         \* bytes LoadEntries parses (128)

\* No byte of the junk begins a valid sequence of several bytes (see IsUtf8).
ASSUME JunkAssumption == JunkByte \subseteq 0..193 /\ MaxJunk \in Nat
ASSUME NumAssumption == Num \subseteq 0..(UintSize - 1)
\* A host is the text of an IPv4 address (RaftServer.cpp:566, Conn::Addr).
ASSUME HostAssumption == \A h \in Host : h \in Seq(1..127) /\ Len(h) <= 15
\* The entries AppendCfgLog stores have at most 37 bytes.
ASSUME LoadAssumption == LoadLen \in Nat /\ LoadLen >= 37

VARIABLES
    stage,          \* what has been done with the message
    class,          \* its class
    msg,            \* the message
    size,           \* what ByteSize announced
    bytes,          \* the body of the frame, or the value in the store
    junk,           \* what the parse finds behind the message
    got             \* the message read, or copied

vars == <<stage, class, msg, size, bytes, junk, got>>

Junk == UNION {[1..n -> JunkByte] : n \in 0..MaxJunk}

-----------------------------------------------------------------------------
(* The messages the setters can make.                                      *)

Bit == {0, 1}

HandshakeQs     == {<<p, h, n>> : p, h, n \in Num}
HandshakeRs     == {<<r, h, p>> : r \in Bit, h \in Host, p \in Num}
Entries         == {<<t, m, n, p, h, w>> : t \in 0..2, m, n, p, w \in Num, h \in Host}
\* What AppendCfgLog stores: type CFGADD, no write_it.
CfgEntries      == {<<1, m, n, p, h, 0>> : m, n, p \in Num, h \in Host \ {<<>>}}
\* The entries 0 and nextIndex, one entry, or none.
AppendEntriesQs ==
    LET lists == {<<>>} \cup {<<e>> : e \in CfgEntries} \cup {<<e, SharedCtor(entry)>> : e \in CfgEntries}
    IN  {<<t, i, t, i, es>> : t, i \in Num, es \in lists}
AppendEntriesRs == {<<t, s, h>> : t \in Num, s, h \in Bit}
RequestVoteQs   == {<<t, c, i, l>> : t, c, i, l \in Num}
RequestVoteRs   == {<<t, v>> : t \in Num, v \in Bit}

Idle ==
    /\ stage = "idle" /\ class = <<>> /\ msg = <<>>
    /\ size = 0 /\ bytes = <<>> /\ junk = <<>> /\ got = <<>>

Init == Idle

Compose(c, msgs) ==
    /\ stage = "idle" /\ stage' = "composed"
    /\ class' = c
    /\ msg' \in msgs
    /\ UNCHANGED <<size, bytes, junk, got>>

-----------------------------------------------------------------------------
(* Frames.                                                                 *)

\* The length goes into the header, the body behind it.
HandlePreSendMsg ==
    /\ stage = "composed" /\ stage' = "framed"
    /\ size' = ByteSizeLong(class, msg)
    /\ bytes' = Serialize(class, msg)
    /\ UNCHANGED <<class, msg, junk, got>>

\* Fields this version does not know, of every wire type, and a known field
\* number with another wire type.
Unknown == {<<>>, <<56, 1>>, <<57, 1, 2, 3, 4, 5, 6, 7, 8>>, <<58, 2, 8, 1>>,
            <<59, 8, 1, 60>>, <<61, 8, 1, 8, 1>>, <<10, 1, 5>>}

\* The peer may be of a version that sends more fields, before or behind.
HandleArrivedMsg ==
    /\ stage = "framed" /\ stage' = "received"
    /\ \E u \in Unknown :
          \/ got' = ParseFromArray(class, u \o bytes).msg
          \/ got' = ParseFromArray(class, bytes \o u).msg
    /\ UNCHANGED <<class, msg, size, bytes, junk>>

\* An entry of the log is copied into a message, over whatever it held.
EntryByIndex ==
    /\ stage = "composed" /\ class = entry /\ stage' = "copied"
    /\ \E old \in CfgEntries : got' = CopyFrom(entry, old, msg)
    /\ UNCHANGED <<class, msg, size, bytes, junk>>

-----------------------------------------------------------------------------
(* The store.                                                              *)

\* The bytes before the first zero: strlen.
CString(s) == SubSeq(s, 1, Min({k \in DOMAIN s : s[k] = 0} \cup {Len(s) + 1}) - 1)

\* The value is what strlen finds, junk behind the buffer included.
AppendCfgLog ==
    /\ stage = "composed" /\ class = entry /\ msg \in CfgEntries
    /\ stage' = "stored"
    /\ \E j \in Junk :
          /\ bytes' = CString(Serialize(entry, msg) \o j)
          /\ junk' = CString(j)
    /\ size' = ByteSizeLong(class, msg)
    /\ UNCHANGED <<class, msg, got>>

\* n bytes from where s begins; what is not given is zero.
BytesAt(s, n) == [k \in 1..n |-> IF k \in DOMAIN s THEN s[k] ELSE 0]

\* The parse goes on behind the value.
LoadEntries ==
    /\ stage = "stored" /\ stage' = "loaded"
    /\ \E j \in Junk :
          /\ got' = ParseFromArray(entry, BytesAt(bytes \o j, LoadLen)).msg
          /\ junk' = junk \o j
    /\ UNCHANGED <<class, msg, size, bytes>>

-----------------------------------------------------------------------------
Done ==
    /\ stage \in {"received", "copied", "loaded"}
    /\ stage' = "idle" /\ class' = <<>> /\ msg' = <<>>
    /\ size' = 0 /\ bytes' = <<>> /\ junk' = <<>> /\ got' = <<>>

Next ==
    \/ Compose(handshake_q, HandshakeQs) \/ Compose(handshake_r, HandshakeRs)
    \/ Compose(entry, Entries)
    \/ Compose(appendentries_q, AppendEntriesQs) \/ Compose(appendentries_r, AppendEntriesRs)
    \/ Compose(requestvote_q, RequestVoteQs) \/ Compose(requestvote_r, RequestVoteRs)
    \/ HandlePreSendMsg \/ HandleArrivedMsg \/ EntryByIndex
    \/ AppendCfgLog \/ LoadEntries
    \/ Done

Spec == Init /\ [][Next]_vars

-----------------------------------------------------------------------------
(* Properties.                                                             *)

\* What is parsed at the other end, also of a peer that sends unknown fields,
\* and what is copied over an older entry, is the message: fields left out
\* because they are 0 come back as 0 (Mod.cpp:110, RaftServer.cpp:434-437).
ReceivedIsSent == stage \in {"received", "copied"} => got = msg

\* ByteSize is exact.  It is the length in the header, by which the receiver
\* cuts the stream, and the size of the buffer AppendCfgLog allocates
\* (Mod.cpp:155, Conn.cpp:342, RaftServer.cpp:400-404).
SizeIsExact == stage = "framed" => size = Len(bytes)

\* An entry has no zero byte in its encoding, so the Slice made of a C string
\* never cuts it short (RaftServer.cpp:406).
StoredWhole == stage = "stored" => IsPrefix(Serialize(entry, msg), bytes)

\* A field of an entry can only come back changed if a byte of the junk behind
\* it has the tag of that field in its lower seven bits (RaftServer.cpp:514):
\* junk never damages fields it does not name, and an entry followed by a zero
\* is read exactly.  The eighth bit is left open because the reader also takes
\* a tag that is written longer than it needs to be: 144, 0 is the tag 16.
ChangedOnlyByJunk ==
    stage = "loaded" =>
        /\ junk = <<>> \/ Head(junk) = 0 => got = msg
        /\ \A i \in DOMAIN entry :
              got[i] # msg[i] =>
                  \E k \in DOMAIN junk :
                      junk[k] % 128 = IF IsScalar(entry[i]) THEN 8 * i ELSE 8 * i + 2

===============================================================================

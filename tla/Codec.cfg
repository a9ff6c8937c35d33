\* Numbers around the sizes of a varint of one and three bytes; junk that can
\* name the fields 2 and 5, also with a tag of two bytes (144, 0), skip fields,
\* end the parse or make it fail.  The code loads 128 bytes; 40 hold the longest
\* entry and all the junk here, and keep TLC's evaluation of the parse shallow.
SPECIFICATION Spec
CONSTANTS
    UintSize = 2097152
    VarintMax = 10
    Num = {0, 1, 127, 16384}
    Host <- MCHost
    JunkByte = {0, 16, 18, 42, 128, 144}
    MaxJunk = 2
    LoadLen = 40
INVARIANT ReceivedIsSent
INVARIANT SizeIsExact
INVARIANT StoredWhole
INVARIANT ChangedOnlyByJunk

------------------------------ MODULE Chunking ------------------------------
(***************************************************************************)
(* Cutting a file into chunks, at once and while it is read as a stream.   *)
(***************************************************************************)
EXTENDS Naturals, Sequences

CONSTANTS ChunkSize  \* CHUNK_SIZE, in the units that files are made of

ASSUME ChunkAssumption == ChunkSize \in Nat \ {0}

\* Mutant of ChunkFile: the loop goes on when the offset has reached the end.
ChunkFileInclusive(data) ==
    LET end(k) == IF k * ChunkSize < Len(data) THEN k * ChunkSize ELSE Len(data)
    IN  [k \in 1..(Len(data) \div ChunkSize + 1) |->
            SubSeq(data, (k - 1) * ChunkSize + 1, end(k))]

\* chunkFile: chunk k is what follows after k - 1 full chunks, the last one
\* may be shorter, and an empty file has none.
ChunkFile(data) ==
    LET end(k) == IF k * ChunkSize < Len(data) THEN k * ChunkSize ELSE Len(data)
    IN  [k \in 1..((Len(data) + ChunkSize - 1) \div ChunkSize) |->
            SubSeq(data, (k - 1) * ChunkSize + 1, end(k))]

VARIABLES
    unread,          \* what the stream has not delivered yet
    buffer,          \* what was delivered and is not part of a chunk yet
    chunks           \* the chunks that were cut, in order

streamVars == <<unread, buffer, chunks>>

\* How many full chunks the loop of the 'data' handler cuts off.
FullChunks(data) == Len(data) \div ChunkSize

\* The stream delivers n more units.
Data(n) ==
    LET data == buffer \o SubSeq(unread, 1, n)
        full == FullChunks(data) * ChunkSize
    IN  /\ n \in 1..Len(unread)
        /\ unread' = SubSeq(unread, n + 1, Len(unread))
        /\ chunks' = chunks \o ChunkFile(SubSeq(data, 1, full))
        /\ buffer' = SubSeq(data, full + 1, Len(data))

\* Mutant of Rest: a short last chunk is dropped.
NoRest == << >>

\* What the 'end' handler makes a chunk of
Rest == IF buffer = << >> THEN << >> ELSE <<buffer>>

End ==
    /\ unread = << >>
    /\ chunks' = chunks \o Rest
    /\ buffer' = << >>
    /\ UNCHANGED unread
=============================================================================

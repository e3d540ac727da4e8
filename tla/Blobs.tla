-------------------------------- MODULE Blobs --------------------------------
(***************************************************************************)
(* The content of one file: its rows of table `blobs`, its nodes.size, and *)
(* the functions of rust/src/blobs.rs through the operations that call     *)
(* them.  A chunk is missing where nothing was written, and may be shorter *)
(* than the chunk size; both read as zeros up to the size of the file.  A  *)
(* row never holds an empty blob, so the empty sequence stands for no row. *)
(* Truncation to any size is there in the Python library (fs.truncate,     *)
(* truncate_fd); in Rust it is used for O_TRUNC, to size 0.                *)
(***************************************************************************)
EXTENDS Integers, Sequences, SequencesExt

CONSTANTS
    ChunkSize,   \* schema_version.chunk_size
    Values,      \* byte values
    MaxSize,     \* bound: the largest file
    MaxWrite     \* bound: the longest write

ASSUME BlobAssumption ==
    /\ ChunkSize \in Nat \ {0}
    /\ MaxSize \in Nat /\ MaxWrite \in 0..MaxSize
    /\ 0 \in Values

ChunkIds == 0..(MaxSize \div ChunkSize)

VARIABLES
    blobs,   \* blobs[c]: the data of the row with chunk_id c
    size     \* nodes.size

vars == <<blobs, size>>

\* No stored byte lies behind the end of the file, so what a truncation cut
\* off can not come back when the file grows again.
TypeOK ==
    /\ blobs \in [ChunkIds -> UNION {[1..n -> Values] : n \in 0..ChunkSize}]
    /\ size \in 0..MaxSize
    /\ \A c \in ChunkIds : blobs[c] # <<>> => c * ChunkSize + Len(blobs[c]) <= size

-----------------------------------------------------------------------------
Least(a, b) == IF a <= b THEN a ELSE b
Greatest(a, b) == IF a >= b THEN a ELSE b

\* The part [lo, hi) of chunk c that lies in the byte range [offset, end).
Lo(c, offset) == Least(Greatest(offset - c * ChunkSize, 0), ChunkSize)
Hi(c, end) == Least(end - c * ChunkSize, ChunkSize)

\* Mutant of Slice: what a chunk lacks is left out.
SliceUnpadded(c, offset, end) ==
    SubSeq(blobs[c], Lo(c, offset) + 1, Least(Hi(c, end), Len(blobs[c])))

\* What read_range takes from chunk c, filled up with zeros.
Slice(c, offset, end) ==
    [k \in 1..(Hi(c, end) - Lo(c, offset)) |->
        LET at == Lo(c, offset) + k
        IN  IF at <= Len(blobs[c]) THEN blobs[c][at] ELSE 0]

\* read_range of the bytes [offset, offset + n), what the file has of them.
read_range(offset, n) ==
    LET end == Least(offset + n, size)
        first == offset \div ChunkSize
        last == (end - 1) \div ChunkSize
    IN  IF offset >= size \/ n = 0 THEN <<>>
        ELSE FlattenSeq([j \in 1..(last - first + 1) |-> Slice(first + j - 1, offset, end)])

\* Mutant of NewChunk: the bytes behind the written ones are dropped.
NewChunkNoTail(c, offset, data) ==
    LET lo == Lo(c, offset)
    IN  [k \in 1..Hi(c, offset + Len(data)) |->
            IF k <= lo THEN (IF k <= Len(blobs[c]) THEN blobs[c][k] ELSE 0)
            ELSE data[c * ChunkSize + k - offset]]

\* The chunk c that write_range stores: what was there up to lo, with zeros
\* where it was shorter, the data up to hi, and what was there behind.
NewChunk(c, offset, data) ==
    LET lo == Lo(c, offset)
        hi == Hi(c, offset + Len(data))
    IN  [k \in 1..Greatest(Len(blobs[c]), hi) |->
            IF lo < k /\ k <= hi THEN data[c * ChunkSize + k - offset]
            ELSE IF k <= Len(blobs[c]) THEN blobs[c][k] ELSE 0]

\* Mutant of Trimmed: the chunk at the boundary keeps all its bytes.
TrimmedNotBoundary(c, new) == IF c <= new \div ChunkSize THEN blobs[c] ELSE <<>>

\* What truncate_to a smaller size leaves of chunk c.
Trimmed(c, new) ==
    LET boundary == new \div ChunkSize
        keep == new % ChunkSize
    IN  IF c < boundary THEN blobs[c]
        ELSE IF c > boundary \/ keep = 0 THEN <<>>
        ELSE SubSeq(blobs[c], 1, Least(keep, Len(blobs[c])))

-----------------------------------------------------------------------------
Init ==
    /\ blobs = [c \in ChunkIds |-> <<>>]
    /\ size = 0

\* write_fd: write_range and update_size in one transaction.
Write(offset, data) ==
    LET first == offset \div ChunkSize
        last == (offset + Len(data) - 1) \div ChunkSize
    IN  /\ blobs' = [c \in ChunkIds |->
                        IF first <= c /\ c <= last THEN NewChunk(c, offset, data)
                                                   ELSE blobs[c]]
        /\ size' = Greatest(size, offset + Len(data))

\* truncate_to and update_size in one transaction.  Growing stores nothing.
Truncate(new) ==
    /\ blobs' = IF new >= size THEN blobs
                ELSE [c \in ChunkIds |-> Trimmed(c, new)]
    /\ size' = new

Next ==
    \/ \E n \in 1..MaxWrite : \E offset \in 0..(MaxSize - n), data \in [1..n -> Values] :
          Write(offset, data)
    \/ \E new \in 0..MaxSize : Truncate(new)

Spec == Init /\ [][Next]_vars

-----------------------------------------------------------------------------
(* Properties.                                                             *)

\* Byte b of the file, counted from 0.
ByteAt(b) ==
    LET chunk == blobs[b \div ChunkSize]
        k == (b % ChunkSize) + 1
    IN  IF k <= Len(chunk) THEN chunk[k] ELSE 0

Content == [k \in 1..size |-> ByteAt(k - 1)]

Flat == INSTANCE FlatFile WITH content <- Content

\* The chunks behave as one flat file: a write changes its own bytes alone, a
\* truncation those behind the new end, and gaps and growth read as zeros.
ImplementsFlatFile == Flat!Spec

\* A read returns exactly the bytes of the file it asks for, over chunk
\* borders, short and missing chunks, and past the end.
ReadsContent ==
    \A offset \in 0..(MaxSize + 1), n \in 0..(MaxSize + 1) :
        read_range(offset, n) = SubSeq(Content, offset + 1, Least(offset + n, size))
=============================================================================

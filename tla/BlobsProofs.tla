---------------------------- MODULE BlobsProofs ----------------------------
(***************************************************************************)
(* Proofs about Blobs, for every chunk size and any bounds: chunks stay    *)
(* within the file and within their size, and implement FlatFile.          *)
(***************************************************************************)
EXTENDS Blobs, Induction, SequenceTheorems

-----------------------------------------------------------------------------
(* Chunks and bytes.                                                       *)

\* What a row can hold; the empty sequence is a missing row.
Chunk == UNION {[1..n -> Values] : n \in 0..ChunkSize}

LEMMA Constants ==
    /\ ChunkSize \in Nat /\ ChunkSize > 0 /\ MaxSize \in Nat
    /\ MaxWrite \in Nat /\ MaxWrite <= MaxSize /\ 0 \in Values
BY BlobAssumption

\* Where chunk c begins, as a number of its own: the arithmetic of an operation
\* is linear once the products are named.
Base(c) == c * ChunkSize

\* Which chunk a byte is in.
LEMMA ChunkOfByte ==
    ASSUME NEW b \in Nat
    PROVE  /\ b \div ChunkSize \in Nat /\ b % ChunkSize \in Nat
           /\ b % ChunkSize < ChunkSize
           /\ b = Base(b \div ChunkSize) + (b % ChunkSize)
<1>1. ChunkSize \in Nat /\ ChunkSize > 0
  BY Constants
<1>2. b \div ChunkSize \in Nat /\ b % ChunkSize \in Nat /\ b % ChunkSize < ChunkSize
  BY <1>1
<1>3. b = ((b \div ChunkSize) * ChunkSize) + (b % ChunkSize)
  BY <1>1
<1>. QED  BY <1>2, <1>3 DEF Base

LEMMA BaseNat == ASSUME NEW c \in Nat PROVE Base(c) \in Nat
BY Constants DEF Base

\* A chunk is not before, or not behind, that of a byte.
LEMMA ChunkOrder ==
    ASSUME NEW c \in Nat, NEW b \in Nat
    PROVE  /\ b \div ChunkSize <= c <=> b < Base(c) + ChunkSize
           /\ c <= b \div ChunkSize <=> Base(c) <= b
<1> DEFINE q == b \div ChunkSize
           r == b % ChunkSize
<1>1. /\ ChunkSize \in Nat /\ ChunkSize > 0 /\ q \in Nat /\ r \in Nat /\ r < ChunkSize
      /\ b = (q * ChunkSize) + r
  BY Constants, ChunkOfByte DEF Base
<1> HIDE DEF q, r
<1>2. ASSUME NEW x \in Nat, NEW y \in Nat, x <= y PROVE x * ChunkSize <= y * ChunkSize
  BY <1>1, <1>2
<1>3. ASSUME NEW x \in Nat, NEW y \in Nat, x < y
      PROVE  x * ChunkSize + ChunkSize <= y * ChunkSize
  <2>1. (x + 1) * ChunkSize <= y * ChunkSize
    BY <1>2, <1>3
  <2>2. (x + 1) * ChunkSize = x * ChunkSize + ChunkSize
    BY <1>1
  <2>. QED  BY <2>1, <2>2
<1>4. c * ChunkSize \in Int /\ q * ChunkSize \in Int
  BY <1>1
<1>5. CASE q <= c
  <2>1. q * ChunkSize <= c * ChunkSize
    BY <1>1, <1>2, <1>5
  <2>2. q = c \/ q * ChunkSize + ChunkSize <= c * ChunkSize
    BY <1>1, <1>3, <1>5
  <2>. QED  BY <1>1, <1>4, <1>5, <2>1, <2>2 DEF Base, q
<1>6. CASE c < q
  <2>1. c * ChunkSize + ChunkSize <= q * ChunkSize
    BY <1>1, <1>3, <1>6
  <2>. QED  BY <1>1, <1>4, <1>6, <2>1 DEF Base, q
<1>. QED  BY <1>1, <1>5, <1>6

LEMMA ChunkFacts ==
    ASSUME NEW q \in Chunk
    PROVE  /\ Len(q) \in Nat /\ Len(q) <= ChunkSize
           /\ q \in [1..Len(q) -> Values] /\ (q = <<>> <=> Len(q) = 0)
<1>1. PICK n \in 0..ChunkSize : q \in [1..n -> Values]
  BY DEF Chunk
<1>2. n \in Nat /\ n <= ChunkSize
  BY Constants
<1>3. q \in Seq(Values) /\ Len(q) = n
  BY <1>1, <1>2
<1>. QED  BY <1>1, <1>2, <1>3

LEMMA IsChunk ==
    ASSUME NEW n \in Nat, n <= ChunkSize, NEW q \in [1..n -> Values]
    PROVE  q \in Chunk /\ Len(q) = n
<1>1. n \in 0..ChunkSize
  BY Constants
<1>2. q \in Seq(Values) /\ Len(q) = n
  OBVIOUS
<1>. QED  BY <1>1, <1>2 DEF Chunk

\* A chunk that begins behind the end of every file does not exist.
LEMMA ByteChunkId ==
    ASSUME NEW b \in Nat, b <= MaxSize
    PROVE  b \div ChunkSize \in ChunkIds
<1>1. b \div ChunkSize \in Nat /\ MaxSize \div ChunkSize \in Nat
  BY Constants, ChunkOfByte
<1>2. Base(b \div ChunkSize) <= b
  BY Constants, ChunkOfByte, BaseNat
<1>3. Base(b \div ChunkSize) <= MaxSize
  BY Constants, <1>1, <1>2, BaseNat
<1>4. b \div ChunkSize <= MaxSize \div ChunkSize
  BY Constants, <1>1, <1>3, ChunkOrder
<1>. QED  BY <1>1, <1>4 DEF ChunkIds

\* What is read at place k of chunk q.
Val(q, k) == IF k <= Len(q) THEN q[k] ELSE 0

\* The parameters of a write, and its end.
Writes(n, offset, data) ==
    /\ n \in 1..MaxWrite /\ offset \in 0..(MaxSize - n) /\ data \in [1..n -> Values]

LEMMA WritesTypes ==
    ASSUME NEW n, NEW offset, NEW data, Writes(n, offset, data)
    PROVE  /\ n \in Nat /\ n > 0 /\ offset \in Nat /\ offset + n <= MaxSize
           /\ data \in [1..n -> Values] /\ Len(data) = n /\ offset + n - 1 \in Nat
<1>1. /\ n \in Nat /\ n > 0 /\ offset \in Nat /\ offset + n <= MaxSize
      /\ data \in [1..n -> Values]
  BY Constants DEF Writes
<1>2. Len(data) = n
  BY <1>1
<1>. QED  BY <1>1, <1>2

LEMMA ChunksTyped ==
    ASSUME TypeOK, NEW c \in ChunkIds
    PROVE  /\ c \in Nat /\ Base(c) \in Nat /\ blobs[c] \in Chunk /\ size \in Nat
           /\ size <= MaxSize
           /\ Len(blobs[c]) \in Nat /\ Len(blobs[c]) <= ChunkSize
           /\ Len(blobs[c]) > 0 => Base(c) + Len(blobs[c]) <= size
<1>1. c \in Nat
  BY DEF ChunkIds
<1>2. blobs[c] \in Chunk /\ size \in Nat /\ size <= MaxSize
  BY Constants DEF TypeOK, Chunk
<1>3. Len(blobs[c]) > 0 => Base(c) + Len(blobs[c]) <= size
  BY <1>2, ChunkFacts DEF TypeOK, Base
<1>. QED  BY <1>1, <1>2, <1>3, BaseNat, ChunkFacts

\* The arithmetic of a write of n bytes at offset into a chunk that begins at
\* base and has len bytes: it changes the places lo + 1 to hi, and leaves m.
Places(base, offset, n, len, end, lo, hi, m) ==
    /\ base \in Nat /\ offset \in Nat /\ n \in Nat /\ len \in Nat /\ end \in Nat
    /\ lo \in Nat /\ hi \in Nat /\ m \in Nat
    /\ len <= ChunkSize
    /\ len > 0 => base + len <= end
    /\ offset < base + ChunkSize /\ base + 1 <= offset + n /\ offset + n <= end
    /\ lo = IF offset >= base THEN offset - base ELSE 0
    /\ hi = IF offset + n - base <= ChunkSize THEN offset + n - base ELSE ChunkSize
    /\ m = IF len >= hi THEN len ELSE hi

LEMMA PlacesMeet ==
    ASSUME NEW base, NEW offset, NEW n, NEW len, NEW end, NEW lo, NEW hi, NEW m,
           Places(base, offset, n, len, end, lo, hi, m)
    PROVE  /\ m \in Nat /\ m <= ChunkSize /\ base + m <= end /\ len <= m /\ hi <= m
           /\ \A k \in 1..ChunkSize :
                 /\ lo < k /\ k <= hi <=> offset < base + k /\ base + k <= offset + n
                 /\ lo < k /\ k <= hi => base + k - offset \in 1..n
BY Constants DEF Places

\* Chunk q is chunk old with data in places lo + 1 to hi, and m bytes long.
Patches(q, old, data, base, offset, n, len, lo, hi, m) ==
    /\ old \in Chunk /\ len = Len(old) /\ data \in [1..n -> Values]
    /\ q = [k \in 1..m |-> IF lo < k /\ k <= hi THEN data[base + k - offset]
                           ELSE IF k <= len THEN old[k] ELSE 0]

LEMMA PatchedChunk ==
    ASSUME NEW q, NEW old, NEW data, NEW base, NEW offset, NEW n, NEW len, NEW end,
           NEW lo, NEW hi, NEW m,
           Places(base, offset, n, len, end, lo, hi, m),
           Patches(q, old, data, base, offset, n, len, lo, hi, m)
    PROVE  /\ q \in Chunk /\ Len(q) = m
           /\ \A k \in 1..ChunkSize :
                 Val(q, k) = IF offset < base + k /\ base + k <= offset + n
                             THEN data[base + k - offset] ELSE Val(old, k)
<1>1. /\ m \in Nat /\ m <= ChunkSize /\ len <= m /\ hi <= m
      /\ \A k \in 1..ChunkSize :
            /\ lo < k /\ k <= hi <=> offset < base + k /\ base + k <= offset + n
            /\ lo < k /\ k <= hi => base + k - offset \in 1..n
  BY PlacesMeet
<1>2. ChunkSize \in Nat /\ 0 \in Values /\ lo \in Nat /\ hi \in Nat
  BY Constants DEF Places
<1>3. len \in Nat /\ len = Len(old) /\ old \in [1..len -> Values]
  BY ChunkFacts DEF Patches
<1>4. ASSUME NEW k \in 1..m
      PROVE  (IF lo < k /\ k <= hi THEN data[base + k - offset]
              ELSE IF k <= len THEN old[k] ELSE 0) \in Values
  <2>1. k \in 1..ChunkSize
    BY <1>1, <1>2
  <2>2. CASE lo < k /\ k <= hi
    <3>1. base + k - offset \in 1..n
      BY <1>1, <2>1, <2>2
    <3>. QED  BY <2>2, <3>1 DEF Patches
  <2>3. CASE ~(lo < k /\ k <= hi)
    <3>1. k <= len => old[k] \in Values
      BY <1>1, <1>3
    <3>. QED  BY <1>2, <2>3, <3>1
  <2>. QED  BY <2>2, <2>3
<1>5. q \in [1..m -> Values]
  BY <1>4 DEF Patches
<1>6. q \in Chunk /\ Len(q) = m
  BY <1>1, <1>5, IsChunk
<1>7. ASSUME NEW k \in 1..ChunkSize
      PROVE  Val(q, k) = IF lo < k /\ k <= hi THEN data[base + k - offset] ELSE Val(old, k)
  <2>1. k \in Nat /\ k > 0
    BY <1>2
  <2>2. CASE k <= m
    <3>1. k \in 1..m
      BY <1>1, <2>1, <2>2
    <3>2. q[k] = IF lo < k /\ k <= hi THEN data[base + k - offset]
                 ELSE IF k <= len THEN old[k] ELSE 0
      BY <3>1 DEF Patches
    <3>. QED  BY <1>3, <1>6, <2>2, <3>2 DEF Val
  <2>3. CASE ~(k <= m)
    <3>1. ~(k <= hi) /\ ~(k <= len)
      BY <1>1, <1>2, <1>3, <2>1, <2>3
    <3>. QED  BY <1>3, <1>6, <2>3, <3>1 DEF Val
  <2>. QED  BY <2>2, <2>3
<1>8. ASSUME NEW k \in 1..ChunkSize
      PROVE  Val(q, k) = IF offset < base + k /\ base + k <= offset + n
                         THEN data[base + k - offset] ELSE Val(old, k)
  BY <1>1, <1>7
<1>. QED  BY <1>6, <1>8

\* The chunk that a write stores.
LEMMA WrittenChunk ==
    ASSUME TypeOK, NEW n, NEW offset, NEW data, Writes(n, offset, data),
           NEW c \in ChunkIds, offset < Base(c) + ChunkSize, Base(c) + 1 <= offset + n
    PROVE  /\ NewChunk(c, offset, data) \in Chunk
           /\ Base(c) + Len(NewChunk(c, offset, data)) <= Greatest(size, offset + n)
           /\ \A k \in 1..ChunkSize :
                 Val(NewChunk(c, offset, data), k)
                    = IF offset < Base(c) + k /\ Base(c) + k <= offset + n
                      THEN data[Base(c) + k - offset] ELSE Val(blobs[c], k)
<1>1. /\ n \in Nat /\ n > 0 /\ offset \in Nat /\ offset + n <= MaxSize
      /\ data \in [1..n -> Values] /\ Len(data) = n
  BY WritesTypes
<1>2. /\ Base(c) \in Nat /\ blobs[c] \in Chunk /\ size \in Nat
      /\ ChunkSize \in Nat /\ ChunkSize > 0
      /\ Len(blobs[c]) \in Nat
      /\ Len(blobs[c]) > 0 => Base(c) + Len(blobs[c]) <= size
  BY ChunksTyped, Constants
<1>3. /\ Lo(c, offset) = IF offset >= Base(c) THEN offset - Base(c) ELSE 0
      /\ Lo(c, offset) \in Nat
  BY <1>1, <1>2 DEF Lo, Least, Greatest, Base
<1>4. /\ Hi(c, offset + n) = IF offset + n - Base(c) <= ChunkSize THEN offset + n - Base(c)
                             ELSE ChunkSize
      /\ Hi(c, offset + n) \in Nat
  BY <1>1, <1>2 DEF Hi, Least, Base
<1>5. /\ Greatest(Len(blobs[c]), Hi(c, offset + n))
            = IF Len(blobs[c]) >= Hi(c, offset + n) THEN Len(blobs[c]) ELSE Hi(c, offset + n)
      /\ Greatest(Len(blobs[c]), Hi(c, offset + n)) \in Nat
  BY <1>2, <1>4 DEF Greatest
<1>6. NewChunk(c, offset, data)
         = [k \in 1..Greatest(Len(blobs[c]), Hi(c, offset + n)) |->
              IF Lo(c, offset) < k /\ k <= Hi(c, offset + n) THEN data[Base(c) + k - offset]
              ELSE IF k <= Len(blobs[c]) THEN blobs[c][k] ELSE 0]
  BY <1>1 DEF NewChunk, Base
<1>7. /\ Greatest(size, offset + n) \in Nat /\ offset + n <= Greatest(size, offset + n)
      /\ Len(blobs[c]) > 0 => Base(c) + Len(blobs[c]) <= Greatest(size, offset + n)
  BY <1>1, <1>2 DEF Greatest
<1>8. Places(Base(c), offset, n, Len(blobs[c]), Greatest(size, offset + n),
             Lo(c, offset), Hi(c, offset + n), Greatest(Len(blobs[c]), Hi(c, offset + n)))
  <2>1. Len(blobs[c]) <= ChunkSize
    BY ChunksTyped
  <2>. QED  BY <1>1, <1>2, <1>3, <1>4, <1>5, <1>7, <2>1 DEF Places
<1>9. Patches(NewChunk(c, offset, data), blobs[c], data, Base(c), offset, n, Len(blobs[c]),
              Lo(c, offset), Hi(c, offset + n), Greatest(Len(blobs[c]), Hi(c, offset + n)))
  BY <1>1, <1>2, <1>6 DEF Patches
<1>10. Base(c) + Greatest(Len(blobs[c]), Hi(c, offset + n)) <= Greatest(size, offset + n)
  BY <1>8, PlacesMeet
<1>. QED  BY <1>8, <1>9, <1>10, PatchedChunk

\* A write, chunk by chunk.
LEMMA WrittenChunks ==
    ASSUME TypeOK, NEW n, NEW offset, NEW data, Writes(n, offset, data),
           Write(offset, data)
    PROVE  /\ size' = Greatest(size, offset + n)
           /\ blobs' = [c \in ChunkIds |-> blobs'[c]]
           /\ \A c \in ChunkIds :
                 /\ blobs'[c] \in Chunk
                 /\ Len(blobs'[c]) > 0 => Base(c) + Len(blobs'[c]) <= size'
                 /\ \A k \in 1..ChunkSize :
                       Val(blobs'[c], k)
                          = IF offset < Base(c) + k /\ Base(c) + k <= offset + n
                            THEN data[Base(c) + k - offset] ELSE Val(blobs[c], k)
<1>1. /\ n \in Nat /\ n > 0 /\ offset \in Nat /\ offset + n - 1 \in Nat /\ Len(data) = n
  BY WritesTypes
<1>2. size' = Greatest(size, offset + n) /\ size \in Nat
  BY <1>1 DEF Write, TypeOK
<1>3. ASSUME NEW c \in ChunkIds
      PROVE  blobs'[c] = IF offset < Base(c) + ChunkSize /\ Base(c) + 1 <= offset + n
                         THEN NewChunk(c, offset, data) ELSE blobs[c]
  <2>1. c \in Nat
    BY DEF ChunkIds
  <2>2. /\ offset \div ChunkSize <= c <=> offset < Base(c) + ChunkSize
        /\ c <= (offset + n - 1) \div ChunkSize <=> Base(c) + 1 <= offset + n
    <3>1. Base(c) \in Nat /\ (Base(c) + 1 <= offset + n <=> Base(c) <= offset + n - 1)
      <4>1. Base(c) \in Nat
        BY <2>1, BaseNat
      <4>. QED  BY <1>1, <4>1
    <3>. QED  BY <1>1, <2>1, <3>1, ChunkOrder
  <2>. QED  BY <1>1, <2>2 DEF Write
<1>4. ASSUME NEW c \in ChunkIds
      PROVE  /\ blobs'[c] \in Chunk
             /\ Len(blobs'[c]) > 0 => Base(c) + Len(blobs'[c]) <= size'
             /\ \A k \in 1..ChunkSize :
                   Val(blobs'[c], k)
                      = IF offset < Base(c) + k /\ Base(c) + k <= offset + n
                        THEN data[Base(c) + k - offset] ELSE Val(blobs[c], k)
  <2>1. CASE offset < Base(c) + ChunkSize /\ Base(c) + 1 <= offset + n
    BY <1>2, <1>3, <2>1, WrittenChunk
  <2>2. CASE ~(offset < Base(c) + ChunkSize /\ Base(c) + 1 <= offset + n)
    <3>1. blobs'[c] = blobs[c]
      BY <1>3, <2>2
    <3>2. /\ blobs[c] \in Chunk /\ Base(c) \in Nat /\ Len(blobs[c]) \in Nat
          /\ Len(blobs[c]) > 0 => Base(c) + Len(blobs[c]) <= size
      BY ChunksTyped
    <3>3. size <= size' /\ size' \in Nat
      BY <1>1, <1>2 DEF Greatest
    <3>4. \A k \in 1..ChunkSize : ~(offset < Base(c) + k /\ Base(c) + k <= offset + n)
      BY <1>1, <2>2, <3>2, Constants
    <3>5. Len(blobs[c]) > 0 => Base(c) + Len(blobs[c]) <= size'
      BY <1>2, <3>2, <3>3
    <3>. QED  BY <3>1, <3>2, <3>4, <3>5
  <2>. QED  BY <2>1, <2>2
<1>5. blobs' = [c \in ChunkIds |-> blobs'[c]]
  BY DEF Write
<1>. QED  BY <1>2, <1>4, <1>5

\* A truncation, chunk by chunk: what lies before the new end stays.
LEMMA TrimmedChunk ==
    ASSUME TypeOK, NEW new \in Nat, NEW c \in ChunkIds
    PROVE  /\ Trimmed(c, new) \in Chunk
           /\ Len(Trimmed(c, new)) > 0 => Base(c) + Len(Trimmed(c, new)) <= new
           /\ \A k \in 1..ChunkSize : Base(c) + k <= new
                 => Val(Trimmed(c, new), k) = Val(blobs[c], k)
<1> DEFINE old == blobs[c]
           q == Trimmed(c, new)
           boundary == new \div ChunkSize
           keep == new % ChunkSize
<1>1. /\ c \in Nat /\ Base(c) \in Nat /\ old \in Chunk /\ ChunkSize \in Nat /\ ChunkSize > 0
      /\ Len(old) \in Nat /\ Len(old) <= ChunkSize /\ old \in [1..Len(old) -> Values]
  BY ChunksTyped, ChunkFacts, Constants
<1>2. /\ boundary \in Nat /\ keep \in Nat /\ keep < ChunkSize /\ new = Base(boundary) + keep
      /\ boundary <= c <=> new < Base(c) + ChunkSize
      /\ c <= boundary <=> Base(c) <= new
  BY <1>1, ChunkOfByte, ChunkOrder
<1>3. q = IF c < boundary THEN old
          ELSE IF c > boundary \/ keep = 0 THEN <<>>
          ELSE SubSeq(old, 1, Least(keep, Len(old)))
  BY DEF Trimmed
<1>4. <<>> \in Chunk /\ Len(<<>>) = 0
  <2>1. <<>> \in [1..0 -> Values] /\ 0 \in Nat /\ 0 <= ChunkSize
    BY Constants
  <2>. QED  BY <2>1, IsChunk
<1> HIDE DEF boundary, keep, q
<1>5. CASE c < boundary
  <2>1. Base(c) + ChunkSize <= new
    BY <1>1, <1>2, <1>5
  <2>2. q = old
    BY <1>3, <1>5
  <2>. QED  BY <1>1, <2>1, <2>2 DEF q
<1>6. CASE c > boundary \/ (c = boundary /\ keep = 0)
  <2>1. new <= Base(c)
    BY <1>1, <1>2, <1>6
  <2>2. q = <<>>
    BY <1>1, <1>2, <1>3, <1>6
  <2>3. \A k \in 1..ChunkSize : ~(Base(c) + k <= new)
    BY <1>1, <2>1
  <2>. QED  BY <1>4, <2>2, <2>3 DEF q
<1>7. CASE c = boundary /\ keep # 0
  <2> DEFINE m == Least(keep, Len(old))
  <2>1. new = Base(c) + keep
    BY <1>2, <1>7
  <2>2. m \in Nat /\ m <= keep /\ m <= Len(old) /\ (m = keep \/ m = Len(old))
    BY <1>1, <1>2 DEF Least
  <2>3. q = SubSeq(old, 1, m)
    <3>1. ~(c < boundary) /\ ~(c > boundary \/ keep = 0)
      BY <1>1, <1>2, <1>7
    <3>. QED  BY <1>3, <3>1
  <2> HIDE DEF m
  <2>4. q = [k \in 1..m |-> old[k]]
    <3>1. SubSeq(old, 1, m) = [k \in 1..(1 + m - 1) |-> old[k + 1 - 1]]
      BY <1>1, <2>2
    <3>2. 1 + m - 1 = m /\ \A k \in 1..m : k + 1 - 1 = k
      BY <2>2
    <3>. QED  BY <2>3, <3>1, <3>2
  <2>5. q \in [1..m -> Values]
    BY <1>1, <2>2, <2>4
  <2>6. q \in Chunk /\ Len(q) = m
    BY <1>1, <2>2, <2>5, IsChunk
  <2>7. ASSUME NEW k \in 1..ChunkSize, Base(c) + k <= new
        PROVE  Val(q, k) = Val(old, k)
    <3>1. k <= keep
      BY <1>1, <1>2, <2>1, <2>7
    <3>2. k <= m <=> k <= Len(old)
      BY <1>1, <1>2, <2>2, <3>1
    <3>3. k <= m => q[k] = old[k]
      BY <2>2, <2>4
    <3>. QED  BY <2>6, <3>2, <3>3 DEF Val
  <2>8. Base(c) + m <= new
    BY <1>1, <1>2, <2>1, <2>2
  <2>. QED  BY <2>6, <2>7, <2>8 DEF q
<1>. QED  BY <1>1, <1>2, <1>5, <1>6, <1>7

-----------------------------------------------------------------------------
(* The invariant.                                                          *)

LEMMA TypeFromChunks ==
    ASSUME NEW B, NEW z \in 0..MaxSize, B = [c \in ChunkIds |-> B[c]],
           \A c \in ChunkIds : B[c] \in Chunk /\ (Len(B[c]) > 0 => Base(c) + Len(B[c]) <= z)
    PROVE  /\ B \in [ChunkIds -> Chunk]
           /\ \A c \in ChunkIds : B[c] # <<>> => c * ChunkSize + Len(B[c]) <= z
<1>1. B \in [ChunkIds -> Chunk]
  OBVIOUS
<1>2. \A c \in ChunkIds : B[c] # <<>> => Len(B[c]) > 0
  <2>1. \A c \in ChunkIds : Len(B[c]) \in Nat /\ (B[c] = <<>> <=> Len(B[c]) = 0)
    BY <1>1, ChunkFacts
  <2>. QED  BY <2>1
<1>. QED  BY <1>1, <1>2 DEF Base

LEMMA WriteType ==
    ASSUME TypeOK, NEW n, NEW offset, NEW data, Writes(n, offset, data), Write(offset, data)
    PROVE  TypeOK'
<1>1. /\ size' = Greatest(size, offset + n)
      /\ blobs' = [c \in ChunkIds |-> blobs'[c]]
      /\ \A c \in ChunkIds :
            /\ blobs'[c] \in Chunk
            /\ Len(blobs'[c]) > 0 => Base(c) + Len(blobs'[c]) <= size'
  BY WrittenChunks
<1>2. size' \in 0..MaxSize
  BY <1>1, WritesTypes, Constants DEF TypeOK, Greatest
<1>3. /\ blobs' \in [ChunkIds -> Chunk]
      /\ \A c \in ChunkIds : blobs'[c] # <<>> => c * ChunkSize + Len(blobs'[c]) <= size'
  BY <1>1, <1>2, TypeFromChunks
<1>. QED  BY <1>2, <1>3 DEF TypeOK, Chunk

LEMMA TruncateType ==
    ASSUME TypeOK, NEW new \in 0..MaxSize, Truncate(new)
    PROVE  TypeOK'
<1>1. size' = new /\ new \in Nat
  BY Constants DEF Truncate
<1>2. CASE new >= size
  <2>1. blobs' = blobs
    BY <1>2 DEF Truncate
  <2>2. \A c \in ChunkIds : blobs[c] # <<>> => c * ChunkSize + Len(blobs[c]) <= size'
    <3> TAKE c \in ChunkIds
    <3> HAVE blobs[c] # <<>>
    <3>1. /\ Base(c) \in Nat /\ size \in Nat /\ Len(blobs[c]) \in Nat
          /\ Base(c) + Len(blobs[c]) <= size
      BY ChunksTyped DEF TypeOK, Base
    <3>2. Base(c) + Len(blobs[c]) <= size'
      BY <1>1, <1>2, <3>1
    <3>. QED  BY <3>2 DEF Base
  <2>. QED  BY <1>1, <2>1, <2>2 DEF TypeOK
<1>3. CASE ~(new >= size)
  <2>1. blobs' = [c \in ChunkIds |-> Trimmed(c, new)]
    BY <1>3 DEF Truncate
  <2>2. \A c \in ChunkIds : /\ blobs'[c] \in Chunk
                            /\ Len(blobs'[c]) > 0 => Base(c) + Len(blobs'[c]) <= size'
    BY <1>1, <2>1, TrimmedChunk
  <2>3. blobs' = [c \in ChunkIds |-> blobs'[c]]
    BY <2>1
  <2>4. /\ blobs' \in [ChunkIds -> Chunk]
        /\ \A c \in ChunkIds : blobs'[c] # <<>> => c * ChunkSize + Len(blobs'[c]) <= size'
    BY <1>1, <2>2, <2>3, TypeFromChunks
  <2>. QED  BY <1>1, <2>4 DEF TypeOK, Chunk
<1>. QED  BY <1>2, <1>3

\* No stored byte lies behind the end of the file.
THEOREM TypeCorrect == Spec => []TypeOK
<1>1. Init => TypeOK
  <2> SUFFICES ASSUME Init PROVE TypeOK
    OBVIOUS
  <2>1. <<>> \in Chunk
    <3>1. <<>> \in [1..0 -> Values] /\ 0 \in Nat /\ 0 <= ChunkSize
      BY Constants
    <3>. QED  BY <3>1, IsChunk
  <2>. QED  BY <2>1, Constants, SMTT(60) DEF Init, TypeOK, Chunk
<1>2. TypeOK /\ [Next]_vars => TypeOK'
  <2> SUFFICES ASSUME TypeOK, [Next]_vars PROVE TypeOK'
    OBVIOUS
  <2>1. ASSUME NEW n \in 1..MaxWrite, NEW offset \in 0..(MaxSize - n),
               NEW data \in [1..n -> Values], Write(offset, data)
        PROVE  TypeOK'
    <3>1. Writes(n, offset, data)
      BY DEF Writes
    <3>. QED  BY <2>1, <3>1, WriteType
  <2>2. CASE \E new \in 0..MaxSize : Truncate(new)
    BY <2>2, TruncateType
  <2>3. CASE UNCHANGED vars
    BY <2>3 DEF TypeOK, vars
  <2>. QED  BY <2>1, <2>2, <2>3 DEF Next
<1>. QED  BY <1>1, <1>2, PTL DEF Spec

-----------------------------------------------------------------------------
(* The chunks implement a flat file.                                       *)

\* A byte before the end of the largest file, in its chunk.
LEMMA ByteInChunk ==
    ASSUME NEW b \in Nat, b <= MaxSize
    PROVE  /\ b \div ChunkSize \in ChunkIds /\ (b % ChunkSize) + 1 \in 1..ChunkSize
           /\ Base(b \div ChunkSize) + ((b % ChunkSize) + 1) = b + 1
           /\ ByteAt(b) = Val(blobs[b \div ChunkSize], (b % ChunkSize) + 1)
           /\ ByteAt(b)' = Val(blobs'[b \div ChunkSize], (b % ChunkSize) + 1)
<1>1. /\ b \div ChunkSize \in ChunkIds /\ b \div ChunkSize \in Nat
      /\ b % ChunkSize \in Nat /\ b % ChunkSize < ChunkSize
      /\ b = Base(b \div ChunkSize) + (b % ChunkSize)
  BY ByteChunkId, ChunkOfByte
<1>2. ChunkSize \in Nat /\ Base(b \div ChunkSize) \in Nat
  BY <1>1, BaseNat, Constants
<1>3. (b % ChunkSize) + 1 \in 1..ChunkSize
  BY <1>1, <1>2
<1>4. Base(b \div ChunkSize) + ((b % ChunkSize) + 1) = b + 1
  BY <1>1, <1>2
<1>5. /\ ByteAt(b) = Val(blobs[b \div ChunkSize], (b % ChunkSize) + 1)
      /\ ByteAt(b)' = Val(blobs'[b \div ChunkSize], (b % ChunkSize) + 1)
  BY DEF ByteAt, Val
<1>. QED  BY <1>1, <1>3, <1>4, <1>5

\* Bytes are values, and zeros from the end of the file on.
LEMMA ByteValues ==
    ASSUME TypeOK, NEW b \in Nat, b <= MaxSize
    PROVE  ByteAt(b) \in Values /\ (b >= size => ByteAt(b) = 0)
<1> DEFINE c == b \div ChunkSize
           k == (b % ChunkSize) + 1
<1>1. /\ c \in ChunkIds /\ k \in 1..ChunkSize /\ Base(c) + k = b + 1
      /\ ByteAt(b) = Val(blobs[c], k)
  BY ByteInChunk
<1> HIDE DEF c, k
<1>2. /\ Base(c) \in Nat /\ size \in Nat /\ Len(blobs[c]) \in Nat
      /\ blobs[c] \in [1..Len(blobs[c]) -> Values]
      /\ Len(blobs[c]) > 0 => Base(c) + Len(blobs[c]) <= size
  BY <1>1, ChunksTyped, ChunkFacts
<1>3. k \in Nat /\ k > 0
  BY <1>1, Constants
<1>4. k <= Len(blobs[c]) => blobs[c][k] \in Values /\ b < size
  BY <1>1, <1>2, <1>3
<1>. QED  BY <1>1, <1>2, <1>4, Constants DEF Val

LEMMA ContentLength ==
    ASSUME TypeOK
    PROVE  Content \in [1..size -> Values] /\ Len(Content) = size /\ size \in Nat
<1>1. size \in Nat /\ size <= MaxSize
  BY Constants DEF TypeOK
<1>2. \A k \in 1..size : k - 1 \in Nat /\ k - 1 <= MaxSize
  BY <1>1, Constants
<1>3. \A k \in 1..size : ByteAt(k - 1) \in Values
  BY <1>2, ByteValues
<1>4. Content \in [1..size -> Values]
  BY <1>3 DEF Content
<1>. QED  BY <1>1, <1>4

\* Bytes of the abstract file, and of the next one.
LEMMA FlatBytes ==
    ASSUME TypeOK, NEW k \in 1..MaxSize
    PROVE  /\ k - 1 \in Nat /\ k - 1 <= MaxSize
           /\ Flat!At(k) = ByteAt(k - 1)
<1>1. k \in Nat /\ k > 0 /\ k - 1 \in Nat /\ k - 1 <= MaxSize
  BY Constants
<1>2. Len(Content) = size /\ size \in Nat
  BY ContentLength
<1>3. CASE k <= size
  <2>1. k \in 1..size
    BY <1>1, <1>2, <1>3
  <2>2. Content[k] = ByteAt(k - 1)
    BY <2>1 DEF Content
  <2>. QED  BY <1>1, <1>2, <1>3, <2>2 DEF Flat!At
<1>4. CASE ~(k <= size)
  <2>1. k - 1 >= size
    BY <1>1, <1>2, <1>4
  <2>2. ByteAt(k - 1) = 0
    BY <1>1, <2>1, ByteValues
  <2>. QED  BY <1>1, <1>2, <1>4, <2>2 DEF Flat!At
<1>. QED  BY <1>3, <1>4

\* Byte p, counted from 1, after data was written at offset.
Over(p, offset, n, data, old) ==
    IF offset < p /\ p <= offset + n THEN data[p - offset] ELSE old

\* A write changes the bytes of its range, wherever their chunks are.
LEMMA WrittenByte ==
    ASSUME TypeOK, NEW n, NEW offset, NEW data, Writes(n, offset, data),
           Write(offset, data), NEW b \in Nat, b <= MaxSize
    PROVE  ByteAt(b)' = Over(b + 1, offset, n, data, ByteAt(b))
<1> DEFINE c == b \div ChunkSize
           k == (b % ChunkSize) + 1
<1>1. /\ c \in ChunkIds /\ k \in 1..ChunkSize /\ Base(c) + k = b + 1
      /\ ByteAt(b) = Val(blobs[c], k) /\ ByteAt(b)' = Val(blobs'[c], k)
  BY ByteInChunk
<1> HIDE DEF c, k
<1>2. Val(blobs'[c], k) = IF offset < Base(c) + k /\ Base(c) + k <= offset + n
                          THEN data[Base(c) + k - offset] ELSE Val(blobs[c], k)
  BY <1>1, WrittenChunks
<1>3. Base(c) + k - offset = (Base(c) + k) - offset
  <2>1. Base(c) \in Nat /\ k \in Nat /\ offset \in Nat
    BY <1>1, ChunksTyped, WritesTypes, Constants
  <2>. QED  BY <2>1
<1>4. Val(blobs'[c], k) = Over(Base(c) + k, offset, n, data, Val(blobs[c], k))
  BY <1>2, <1>3 DEF Over
<1>. QED  BY <1>1, <1>4

\* A truncation leaves the bytes before the new end.
LEMMA TruncatedByte ==
    ASSUME TypeOK, NEW new \in 0..MaxSize, Truncate(new), NEW b \in Nat, b < new
    PROVE  ByteAt(b)' = ByteAt(b)
<1>1. CASE new >= size
  BY <1>1 DEF Truncate, ByteAt
<1>2. CASE ~(new >= size)
  <2> DEFINE c == b \div ChunkSize
             k == (b % ChunkSize) + 1
  <2>1. b <= MaxSize /\ b + 1 <= new /\ new \in Nat
    BY Constants
  <2>2. /\ c \in ChunkIds /\ k \in 1..ChunkSize /\ Base(c) + k = b + 1
        /\ ByteAt(b) = Val(blobs[c], k) /\ ByteAt(b)' = Val(blobs'[c], k)
    BY <2>1, ByteInChunk
  <2> HIDE DEF c, k
  <2>3. blobs'[c] = Trimmed(c, new)
    BY <1>2, <2>2 DEF Truncate
  <2>4. Val(Trimmed(c, new), k) = Val(blobs[c], k)
    BY <2>1, <2>2, TrimmedChunk
  <2>. QED  BY <2>2, <2>3, <2>4
<1>. QED  BY <1>1, <1>2

LEMMA WriteFlat ==
    ASSUME TypeOK, NEW n, NEW offset, NEW data, Writes(n, offset, data),
           Write(offset, data)
    PROVE  Flat!Write(offset, data)
<1>1. /\ n \in Nat /\ n > 0 /\ offset \in Nat /\ offset + n <= MaxSize /\ Len(data) = n
  BY WritesTypes
<1>2. Len(Content) = size /\ size \in Nat /\ size <= MaxSize /\ MaxSize \in Nat
  BY ContentLength, Constants DEF TypeOK
<1>3. /\ size' = IF size >= offset + n THEN size ELSE offset + n
      /\ size' \in Nat /\ size' <= MaxSize
  BY <1>1, <1>2, WrittenChunks DEF Greatest
<1>4. ASSUME NEW k \in 1..size'
      PROVE  ByteAt(k - 1)' = Over(k, offset, n, data, Flat!At(k))
  <2>1. k \in 1..MaxSize
    BY <1>2, <1>3
  <2>2. k \in Nat /\ k - 1 \in Nat /\ k - 1 <= MaxSize /\ Flat!At(k) = ByteAt(k - 1)
    BY <2>1, FlatBytes
  <2>3. (k - 1) + 1 = k
    BY <2>2
  <2>4. ByteAt(k - 1)' = Over((k - 1) + 1, offset, n, data, ByteAt(k - 1))
    BY <2>2, WrittenByte
  <2>. QED  BY <2>2, <2>3, <2>4
<1>5. Content' = [k \in 1..size' |-> ByteAt(k - 1)']
  BY DEF Content
<1>6. Content' = [k \in 1..size' |-> IF offset < k /\ k <= offset + n THEN data[k - offset]
                                     ELSE Flat!At(k)]
  BY <1>4, <1>5 DEF Over
<1>. QED  BY <1>1, <1>2, <1>3, <1>6 DEF Flat!Write

LEMMA TruncateFlat ==
    ASSUME TypeOK, NEW new \in 0..MaxSize, Truncate(new)
    PROVE  Flat!Resize(new)
<1>1. new \in Nat /\ new <= MaxSize /\ MaxSize \in Nat /\ size' = new
  BY Constants DEF Truncate
<1>2. ASSUME NEW k \in 1..new
      PROVE  ByteAt(k - 1)' = Flat!At(k)
  <2>1. k \in 1..MaxSize /\ k - 1 < new
    BY <1>1
  <2>2. k - 1 \in Nat /\ Flat!At(k) = ByteAt(k - 1)
    BY <2>1, FlatBytes
  <2>. QED  BY <2>1, <2>2, TruncatedByte
<1>3. Content' = [k \in 1..new |-> ByteAt(k - 1)']
  BY <1>1 DEF Content
<1>. QED  BY <1>2, <1>3 DEF Flat!Resize

\* Chunks of any size behave as one flat file: a write changes its own bytes
\* alone, a truncation those behind the new end, and what was cut off or never
\* written reads as zeros.
THEOREM Refinement == Spec => ImplementsFlatFile
<1>1. Init => Flat!Init
  BY DEF Init, Content, Flat!Init
<1>2. TypeOK /\ [Next]_vars => [Flat!Next]_(Flat!vars)
  <2> SUFFICES ASSUME TypeOK, [Next]_vars PROVE Flat!Next \/ UNCHANGED Flat!vars
    BY DEF Flat!vars
  <2>1. ASSUME NEW n \in 1..MaxWrite, NEW offset \in 0..(MaxSize - n),
               NEW data \in [1..n -> Values], Write(offset, data)
        PROVE  Flat!Next
    <3>1. Writes(n, offset, data)
      BY DEF Writes
    <3>2. Flat!Write(offset, data)
      BY <2>1, <3>1, WriteFlat
    <3>. QED  BY <3>2 DEF Flat!Next
  <2>2. ASSUME NEW new \in 0..MaxSize, Truncate(new) PROVE Flat!Next
    <3>1. Flat!Resize(new)
      BY <2>2, TruncateFlat
    <3>. QED  BY <3>1 DEF Flat!Next
  <2>3. CASE UNCHANGED vars
    BY <2>3 DEF vars, Flat!vars, Content, ByteAt
  <2>. QED  BY <2>1, <2>2, <2>3 DEF Next
<1>3. Spec => Flat!Init /\ [][Flat!Next]_(Flat!vars)
  BY <1>1, <1>2, TypeCorrect, PTL DEF Spec
<1>. QED  BY <1>3 DEF ImplementsFlatFile, Flat!Spec

-----------------------------------------------------------------------------
(* read_range joins what it takes from each chunk.                         *)

\* r holds what the parts up to each one give when they are joined.
Joins(q, r) ==
    r = [i \in 1..Len(q) |-> IF i = 1 THEN q[i] ELSE r[i - 1] \o q[i]]

LEMMA FlattenIs ==
    ASSUME NEW q, Len(q) \in Nat, Len(q) > 0, NEW r, Joins(q, r)
    PROVE  FlattenSeq(q) = r[Len(q)]
<1> DEFINE n == Len(q)
           Is(f) == f = [i \in 1..n |-> IF i = 1 THEN q[i] ELSE f[i - 1] \o q[i]]
           w == CHOOSE f : Is(f)
<1>1. Is(r)
  BY ZenonT(60) DEF Joins
<1>2. Is(w)
  BY <1>1, ZenonT(60)
<1>3. FlattenSeq(q) = w[n]
  BY SMTT(60) DEF FlattenSeq
<1>4. \A i \in 1..n : /\ w[i] = IF i = 1 THEN q[i] ELSE w[i - 1] \o q[i]
                      /\ r[i] = IF i = 1 THEN q[i] ELSE r[i - 1] \o q[i]
  BY <1>1, <1>2, ZenonT(60)
<1> HIDE DEF w, Is
<1> DEFINE S == {k \in 0..n : k = 0 \/ w[k] = r[k]}
<1>5. 0 \in S
  OBVIOUS
<1>6. ASSUME NEW k \in 1..n, k - 1 \in S
      PROVE  k \in S
  <2>1. k = 1 \/ w[k - 1] = r[k - 1]
    BY <1>6
  <2>2. w[k] = r[k]
    BY <1>4, <2>1
  <2>. QED  BY <2>2
<1>7. n \in S
  <2> HIDE DEF S
  <2>1. 0..n \subseteq S
    BY <1>5, <1>6, UpToInduction
  <2>. QED  BY <2>1
<1>. QED  BY <1>3, <1>7

\* The bytes [a, b) of the file.
Part(a, b) == [k \in 1..(b - a) |-> ByteAt(a + k - 1)]

LEMMA PartType ==
    ASSUME TypeOK, NEW a \in Nat, NEW b \in Nat, a <= b, b <= size
    PROVE  Part(a, b) \in Seq(Values) /\ Len(Part(a, b)) = b - a
<1>1. size \in Nat /\ size <= MaxSize
  BY Constants DEF TypeOK
<1>2. \A k \in 1..(b - a) : a + k - 1 \in Nat /\ a + k - 1 <= MaxSize
  BY <1>1, Constants
<1>3. \A k \in 1..(b - a) : ByteAt(a + k - 1) \in Values
  BY <1>2, ByteValues
<1>4. b - a \in Nat
  OBVIOUS
<1>5. Part(a, b) \in [1..(b - a) -> Values]
  BY <1>3, Zenon DEF Part
<1> HIDE DEF Part
<1>. QED  BY <1>4, <1>5

LEMMA PartsJoin ==
    ASSUME TypeOK, NEW a \in Nat, NEW m \in Nat, NEW b \in Nat, a <= m, m <= b, b <= size
    PROVE  Part(a, m) \o Part(m, b) = Part(a, b)
<1> DEFINE s == Part(a, m)
           t == Part(m, b)
           u == Part(a, b)
<1>1. /\ s \in Seq(Values) /\ Len(s) = m - a
      /\ t \in Seq(Values) /\ Len(t) = b - m
      /\ u \in Seq(Values) /\ Len(u) = b - a
  <2>1. m <= size
    BY DEF TypeOK
  <2>2. s \in Seq(Values) /\ Len(s) = m - a
    BY <2>1, PartType
  <2>3. t \in Seq(Values) /\ Len(t) = b - m
    BY PartType
  <2>4. u \in Seq(Values) /\ Len(u) = b - a
    <3>1. a <= b
      OBVIOUS
    <3>. QED  BY <3>1, PartType
  <2>. QED  BY <2>2, <2>3, <2>4
<1>2. /\ \A k \in 1..(m - a) : s[k] = ByteAt(a + k - 1)
      /\ \A k \in 1..(b - m) : t[k] = ByteAt(m + k - 1)
      /\ \A k \in 1..(b - a) : u[k] = ByteAt(a + k - 1)
  BY DEF Part
<1> HIDE DEF s, t, u
<1>3. /\ s \o t \in Seq(Values) /\ Len(s \o t) = Len(s) + Len(t)
      /\ \A k \in 1..(Len(s) + Len(t)) :
            (s \o t)[k] = IF k <= Len(s) THEN s[k] ELSE t[k - Len(s)]
  BY <1>1, ConcatProperties
<1>4. Len(s \o t) = b - a
  BY <1>1, <1>3, SMTT(60)
<1>5. ASSUME NEW k \in 1..(b - a)
      PROVE  (s \o t)[k] = u[k]
  <2>1. (s \o t)[k] = IF k <= m - a THEN s[k] ELSE t[k - (m - a)]
    BY <1>1, <1>3, SMTT(60)
  <2>2. CASE k <= m - a
    <3>1. k \in 1..(m - a)
      BY <2>2
    <3>. QED  BY <1>2, <2>1, <2>2, <3>1
  <2>3. CASE ~(k <= m - a)
    <3>1. k - (m - a) \in 1..(b - m) /\ m + (k - (m - a)) - 1 = a + k - 1
      BY <2>3
    <3>. QED  BY <1>2, <2>1, <2>3, <3>1
  <2>. QED  BY <2>2, <2>3
<1>. QED  BY <1>1, <1>3, <1>4, <1>5, SeqEqual DEF s, t, u

\* A part of the content is one of the file.
LEMMA PartOfContent ==
    ASSUME TypeOK, NEW a \in Nat, NEW b \in Nat, a <= b, b <= size
    PROVE  SubSeq(Content, a + 1, b) = Part(a, b)
<1> DEFINE t == SubSeq(Content, a + 1, b)
           u == Part(a, b)
<1>1. Content \in [1..size -> Values] /\ size \in Nat
  BY ContentLength
<1>2. \A k \in (a + 1)..b : Content[k] \in Values
  BY <1>1
<1>3. /\ t \in Seq(Values) /\ Len(t) = IF a + 1 <= b THEN b - (a + 1) + 1 ELSE 0
      /\ \A k \in 1..(b - (a + 1) + 1) : t[k] = Content[(a + 1) + k - 1]
  BY <1>2, SubSeqProperties
<1>4. u \in Seq(Values) /\ Len(u) = b - a
  BY PartType
<1>5. \A k \in 1..(b - a) : u[k] = ByteAt(a + k - 1)
  BY DEF Part
<1>6. \A k \in 1..(b - a) : Content[a + k] = ByteAt(a + k - 1)
  BY <1>1 DEF Content
<1> HIDE DEF t, u
<1>7. Len(t) = b - a
  BY <1>3
<1>8. \A k \in 1..(b - a) : t[k] = u[k]
  <2> SUFFICES ASSUME NEW k \in 1..(b - a) PROVE t[k] = u[k]
    OBVIOUS
  <2>1. k \in 1..(b - (a + 1) + 1) /\ (a + 1) + k - 1 = a + k
    OBVIOUS
  <2>. QED  BY <1>3, <1>5, <1>6, <2>1
<1>. QED  BY <1>3, <1>4, <1>7, <1>8, SeqEqual DEF t, u

\* The byte in place at of chunk c, when it comes before the end of every file.
LEMMA ByteOfChunk ==
    ASSUME NEW c \in Nat, NEW at \in 1..ChunkSize, Base(c) + at <= MaxSize
    PROVE  ByteAt(Base(c) + at - 1) = Val(blobs[c], at)
<1> DEFINE b == Base(c) + at - 1
<1>1. /\ ChunkSize \in Nat /\ MaxSize \in Nat /\ Base(c) \in Nat /\ at \in Nat
      /\ at > 0 /\ at <= ChunkSize
  BY Constants, BaseNat
<1>2. b \in Nat /\ b <= MaxSize /\ b + 1 = Base(c) + at
  BY <1>1
<1>3. b < Base(c) + ChunkSize /\ Base(c) <= b
  BY <1>1
<1> HIDE DEF b
<1>4. /\ b \div ChunkSize <= c <=> b < Base(c) + ChunkSize
      /\ c <= b \div ChunkSize <=> Base(c) <= b
  BY <1>2, ChunkOrder
<1>5. b \div ChunkSize \in Nat
  BY <1>2, ChunkOfByte
<1>6. b \div ChunkSize = c
  BY <1>3, <1>4, <1>5
<1>7. /\ Base(b \div ChunkSize) + ((b % ChunkSize) + 1) = b + 1
      /\ (b % ChunkSize) + 1 \in 1..ChunkSize
      /\ ByteAt(b) = Val(blobs[b \div ChunkSize], (b % ChunkSize) + 1)
  BY <1>2, ByteInChunk
<1> DEFINE k == (b % ChunkSize) + 1
<1>8. k \in Nat /\ Base(c) + k = b + 1 /\ ByteAt(b) = Val(blobs[c], k)
  BY <1>1, <1>6, <1>7
<1> HIDE DEF k
<1>9. k = at
  BY <1>1, <1>2, <1>8
<1>. QED  BY <1>8, <1>9 DEF b

\* The first and the last byte of chunk c that [offset, end) takes: the places
\* where its part begins and ends.
Begin(c, offset) == Base(c) + Lo(c, offset)
End(c, end) == Base(c) + Hi(c, end)

\* A read of bytes that are there.
Reads(offset, end) ==
    /\ offset \in Nat /\ end \in Nat
    /\ offset < end /\ end <= size

\* c is one of the chunks it goes over.
Covers(c, offset, end) ==
    c \in Nat /\ offset \div ChunkSize <= c /\ c <= (end - 1) \div ChunkSize

\* Where the part of a chunk lies.
LEMMA PartPlaces ==
    ASSUME TypeOK, NEW offset, NEW end, Reads(offset, end), NEW c, Covers(c, offset, end)
    PROVE  /\ Base(c) \in Nat /\ Lo(c, offset) \in Nat /\ Hi(c, end) \in Nat
           /\ Lo(c, offset) <= Hi(c, end) /\ Hi(c, end) <= ChunkSize
           /\ Begin(c, offset) = Greatest(offset, Base(c))
           /\ End(c, end) = Least(end, Base(c) + ChunkSize)
           /\ offset < Base(c) + ChunkSize /\ Base(c) < end
<1>1. ChunkSize \in Nat /\ ChunkSize > 0 /\ c \in Nat /\ Base(c) \in Nat
  BY Constants, BaseNat DEF Covers
<1>2. offset \in Nat /\ end \in Nat /\ end - 1 \in Nat /\ offset < end
  BY DEF Reads
<1>3. offset < Base(c) + ChunkSize
  BY <1>1, <1>2, ChunkOrder DEF Covers
<1>4. Base(c) <= end - 1
  BY <1>1, <1>2, ChunkOrder DEF Covers
<1>5. Base(c) < end
  BY <1>1, <1>2, <1>4
<1>6. /\ Lo(c, offset) = Least(Greatest(offset - Base(c), 0), ChunkSize)
      /\ Hi(c, end) = Least(end - Base(c), ChunkSize)
  BY DEF Lo, Hi, Base
<1>. QED  BY <1>1, <1>2, <1>3, <1>5, <1>6 DEF Least, Greatest, Begin, End

\* What read_range takes from a chunk is that part of the file.
LEMMA SliceIsPart ==
    ASSUME TypeOK, NEW offset, NEW end, Reads(offset, end), NEW c, Covers(c, offset, end)
    PROVE  Slice(c, offset, end) = Part(Begin(c, offset), End(c, end))
<1> DEFINE lo == Lo(c, offset)
           hi == Hi(c, end)
           m == Base(c)
<1>1. /\ m \in Nat /\ lo \in Nat /\ hi \in Nat /\ lo <= hi /\ hi <= ChunkSize
      /\ End(c, end) = Least(end, m + ChunkSize)
  BY PartPlaces
<1>2. /\ ChunkSize \in Nat /\ MaxSize \in Nat /\ size \in Nat /\ size <= MaxSize
      /\ end \in Nat /\ end <= size /\ c \in Nat
  BY Constants DEF TypeOK, Reads, Covers
<1>3. Begin(c, offset) = m + lo /\ End(c, end) = m + hi
  BY DEF Begin, End
<1>4. m + hi <= MaxSize
  BY <1>1, <1>2, <1>3 DEF Least
<1>5. Slice(c, offset, end) = [k \in 1..(hi - lo) |-> Val(blobs[c], lo + k)]
  BY DEF Slice, Val
<1>6. Part(m + lo, m + hi) = [k \in 1..((m + hi) - (m + lo)) |-> ByteAt((m + lo) + k - 1)]
  BY DEF Part
<1> HIDE DEF lo, hi, m
<1>7. (m + hi) - (m + lo) = hi - lo
  BY <1>1
<1>8. ASSUME NEW k \in 1..(hi - lo)
      PROVE  ByteAt((m + lo) + k - 1) = Val(blobs[c], lo + k)
  <2>1. lo + k \in 1..ChunkSize /\ m + (lo + k) <= MaxSize /\ m + (lo + k) - 1 = (m + lo) + k - 1
    BY <1>1, <1>2, <1>4
  <2>2. ByteAt(m + (lo + k) - 1) = Val(blobs[c], lo + k)
    BY <1>2, <2>1, ByteOfChunk DEF m
  <2>. QED  BY <2>1, <2>2
<1>. QED  BY <1>3, <1>5, <1>6, <1>7, <1>8

\* The parts meet, from the first byte to the last.
LEMMA PartsMeet ==
    ASSUME TypeOK, NEW offset, NEW end, Reads(offset, end)
    PROVE  /\ Begin(offset \div ChunkSize, offset) = offset
           /\ End((end - 1) \div ChunkSize, end) = end
           /\ \A c \in Nat : Covers(c, offset, end) /\ Covers(c + 1, offset, end)
                                => End(c, end) = Begin(c + 1, offset)
<1> DEFINE first == offset \div ChunkSize
           last == (end - 1) \div ChunkSize
<1>1. /\ ChunkSize \in Nat /\ ChunkSize > 0
      /\ offset \in Nat /\ end \in Nat /\ end - 1 \in Nat /\ offset < end
  BY Constants DEF Reads
<1>2. first \in Nat /\ last \in Nat
  BY <1>1, ChunkOfByte
<1>3. first <= last
  <2>1. offset <= end - 1
    BY <1>1
  <2>2. Base(first) <= offset /\ Base(first) \in Nat
    BY <1>1, <1>2, ChunkOrder, BaseNat, SMTT(60)
  <2>3. Base(first) <= end - 1
    BY <1>1, <2>1, <2>2
  <2> HIDE DEF first
  <2>. QED  BY <1>1, <1>2, <2>3, ChunkOrder
<1>4. Base(first) <= offset /\ Base(first) \in Nat
  BY <1>1, <1>2, ChunkOrder, BaseNat, SMTT(60)
<1>5. end - 1 < Base(last) + ChunkSize /\ Base(last) \in Nat
  <2>1. Base(last) \in Nat
    BY <1>2, BaseNat
  <2> DEFINE r == (end - 1) % ChunkSize
  <2>2. r \in Nat /\ r < ChunkSize /\ end - 1 = Base(last) + r
    BY <1>1, ChunkOfByte
  <2> HIDE DEF last, r
  <2>. QED  BY <1>1, <2>1, <2>2
<1>6. Covers(first, offset, end) /\ Covers(last, offset, end)
  BY <1>2, <1>3 DEF Covers
<1>7. Begin(first, offset) = Greatest(offset, Base(first))
  BY <1>6, PartPlaces
<1>8. End(last, end) = Least(end, Base(last) + ChunkSize)
  BY <1>6, PartPlaces
<1> HIDE DEF first, last
<1>9. Begin(first, offset) = offset
  BY <1>1, <1>4, <1>7 DEF Greatest
<1>10. End(last, end) = end
  BY <1>1, <1>5, <1>8 DEF Least
<1>11. ASSUME NEW c \in Nat, Covers(c, offset, end), Covers(c + 1, offset, end)
       PROVE  End(c, end) = Begin(c + 1, offset)
  <2>1. Base(c + 1) = Base(c) + ChunkSize /\ Base(c) \in Nat
    <3>1. (c + 1) * ChunkSize = c * ChunkSize + ChunkSize
      BY <1>1
    <3>. QED  BY <3>1, BaseNat DEF Base
  <2>2. End(c, end) = Least(end, Base(c) + ChunkSize) /\ offset < Base(c) + ChunkSize
    BY <1>11, PartPlaces
  <2>3. Begin(c + 1, offset) = Greatest(offset, Base(c + 1)) /\ Base(c + 1) < end
    BY <1>11, PartPlaces
  <2>. QED  BY <1>1, <2>1, <2>2, <2>3 DEF Least, Greatest
<1>. QED  BY <1>9, <1>10, <1>11 DEF first, last

\* read_range of bytes that are there returns them.
LEMMA ReadsPart ==
    ASSUME TypeOK, NEW offset, NEW end, Reads(offset, end)
    PROVE  LET first == offset \div ChunkSize
               last == (end - 1) \div ChunkSize
           IN  FlattenSeq([j \in 1..(last - first + 1) |-> Slice(first + j - 1, offset, end)])
                  = Part(offset, end)
<1> DEFINE first == offset \div ChunkSize
           last == (end - 1) \div ChunkSize
           n == last - first + 1
           q == [j \in 1..n |-> Slice(first + j - 1, offset, end)]
           r == [j \in 1..n |-> Part(offset, End(first + j - 1, end))]
<1>1. /\ Begin(first, offset) = offset /\ End(last, end) = end
      /\ \A c \in Nat : Covers(c, offset, end) /\ Covers(c + 1, offset, end)
                           => End(c, end) = Begin(c + 1, offset)
  BY PartsMeet
<1>2. first \in Nat /\ last \in Nat /\ first <= last
  <2>1. offset \in Nat /\ end \in Nat /\ end - 1 \in Nat /\ offset <= end - 1
    BY DEF Reads
  <2>2. first \in Nat /\ last \in Nat
    BY <2>1, ChunkOfByte
  <2>3. Base(first) <= offset /\ Base(first) \in Nat
    BY <2>1, <2>2, ChunkOrder, BaseNat
  <2>4. Base(first) <= end - 1
    BY <2>1, <2>3
  <2> HIDE DEF first
  <2>. QED  BY <2>1, <2>2, <2>4, ChunkOrder
<1>3. \A c \in Nat : first <= c /\ c <= last => Covers(c, offset, end)
  BY DEF Covers
<1>4. size \in Nat /\ offset \in Nat /\ end \in Nat /\ end <= size
  BY DEF TypeOK, Reads
<1> HIDE DEF first, last
<1>5. n \in Nat /\ n > 0 /\ Len(q) = n
  BY <1>2
<1>6. ASSUME NEW c \in Nat, first <= c, c <= last
      PROVE  /\ Slice(c, offset, end) = Part(Begin(c, offset), End(c, end))
             /\ Begin(c, offset) \in Nat /\ End(c, end) \in Nat
             /\ offset <= Begin(c, offset) /\ Begin(c, offset) <= End(c, end)
             /\ End(c, end) <= size
  <2>1. Covers(c, offset, end)
    BY <1>3, <1>6
  <2>2. Slice(c, offset, end) = Part(Begin(c, offset), End(c, end))
    BY <2>1, SliceIsPart
  <2>3. /\ Base(c) \in Nat /\ Lo(c, offset) \in Nat /\ Hi(c, end) \in Nat
        /\ Lo(c, offset) <= Hi(c, end)
        /\ Begin(c, offset) = Greatest(offset, Base(c))
        /\ End(c, end) = Least(end, Base(c) + ChunkSize)
    BY <2>1, PartPlaces
  <2>4. Begin(c, offset) = Base(c) + Lo(c, offset) /\ End(c, end) = Base(c) + Hi(c, end)
    BY DEF Begin, End
  <2>5. offset <= Begin(c, offset)
    BY <1>4, <2>3 DEF Greatest
  <2>6. End(c, end) <= size
    BY <1>4, <2>3, Constants DEF Least
  <2>. QED  BY <2>2, <2>3, <2>4, <2>5, <2>6
<1>7. ASSUME NEW i \in 1..n
      PROVE  r[i] = IF i = 1 THEN q[i] ELSE r[i - 1] \o q[i]
  <2> DEFINE c == first + i - 1
  <2>1. c \in Nat /\ first <= c /\ c <= last
    BY <1>2
  <2>2. q[i] = Slice(c, offset, end) /\ r[i] = Part(offset, End(c, end))
    OBVIOUS
  <2>3. CASE i = 1
    <3>1. c = first
      BY <1>2, <2>3
    <3>. QED  BY <1>1, <1>6, <2>1, <2>2, <2>3, <3>1
  <2>4. CASE i # 1
    <3> DEFINE b == first + (i - 1) - 1
    <3>1. b \in Nat /\ first <= b /\ b <= last /\ c = b + 1 /\ i - 1 \in 1..n
      BY <1>2, <2>4
    <3>2. r[i - 1] = Part(offset, End(b, end))
      BY <3>1
    <3> HIDE DEF b, c
    <3>3. End(b, end) = Begin(c, offset)
      BY <1>1, <1>3, <2>1, <3>1
    <3>4. Part(offset, Begin(c, offset)) \o Part(Begin(c, offset), End(c, end))
             = Part(offset, End(c, end))
      <4>1. PICK x, y : x = Begin(c, offset) /\ y = End(c, end)
        OBVIOUS
      <4>2. x \in Nat /\ y \in Nat /\ offset <= x /\ x <= y /\ y <= size
        BY <1>6, <2>1, <4>1
      <4>3. Part(offset, x) \o Part(x, y) = Part(offset, y)
        BY <1>4, <4>2, PartsJoin
      <4>. QED  BY <4>1, <4>3
    <3>5. Slice(c, offset, end) = Part(Begin(c, offset), End(c, end))
      BY <1>6, <2>1
    <3> HIDE DEF q, r, n
    <3>. QED  BY <2>2, <2>4, <3>2, <3>3, <3>4, <3>5
  <2>. QED  BY <2>3, <2>4
<1>8. r[n] = Part(offset, end)
  <2>1. first + n - 1 = last /\ n \in 1..n
    BY <1>2, <1>5
  <2>. QED  BY <1>1, <2>1
<1>9. Joins(q, r)
  <2>1. r = [i \in 1..n |-> r[i]]
    OBVIOUS
  <2>2. r = [i \in 1..n |-> IF i = 1 THEN q[i] ELSE r[i - 1] \o q[i]]
    <3> HIDE DEF q, r, n
    <3>. QED  BY <1>7, <2>1
  <2> HIDE DEF q, r, n
  <2>. QED  BY <1>5, <2>2 DEF Joins
<1>10. FlattenSeq(q) = r[n]
  <2> HIDE DEF q, r, n
  <2>. QED  BY <1>5, <1>9, FlattenIs
<1>. QED  BY <1>8, <1>10 DEF first, last

\* A read returns exactly the bytes of the file it asks for, over any number of
\* chunks, short and missing ones, for every chunk size.
THEOREM ReadsAreRight == Spec => []ReadsContent
<1>1. TypeOK => ReadsContent
  <2> SUFFICES ASSUME TypeOK, NEW offset \in 0..(MaxSize + 1), NEW n \in 0..(MaxSize + 1)
               PROVE  read_range(offset, n) = SubSeq(Content, offset + 1, Least(offset + n, size))
    BY DEF ReadsContent
  <2> DEFINE end == Least(offset + n, size)
  <2>1. /\ offset \in Nat /\ n \in Nat /\ size \in Nat /\ end \in Nat /\ end <= size
        /\ end = offset + n \/ end = size
    BY Constants DEF TypeOK, Least
  <2>2. CASE offset >= size \/ n = 0
    <3>1. end < offset + 1
      BY <2>1, <2>2 DEF Least
    <3>2. SubSeq(Content, offset + 1, end) = <<>>
      <4> HIDE DEF end
      <4>. QED  BY <2>1, <3>1, SubSeqEmpty
    <3>. QED  BY <2>2, <3>2 DEF read_range
  <2>3. CASE ~(offset >= size \/ n = 0)
    <3>1. Reads(offset, end)
      BY <2>1, <2>3 DEF Reads, Least
    <3>2. read_range(offset, n) =
              LET first == offset \div ChunkSize
                  last == (end - 1) \div ChunkSize
              IN  FlattenSeq([j \in 1..(last - first + 1) |-> Slice(first + j - 1, offset, end)])
      BY <2>3 DEF read_range
    <3> HIDE DEF end
    <3>3. read_range(offset, n) = Part(offset, end)
      BY <3>1, <3>2, ReadsPart
    <3>4. SubSeq(Content, offset + 1, end) = Part(offset, end)
      <4>1. offset <= end
        BY <2>1, <3>1 DEF Reads
      <4>. QED  BY <2>1, <4>1, PartOfContent
    <3>. QED  BY <3>3, <3>4 DEF end
  <2>. QED  BY <2>2, <2>3
<1>. QED  BY <1>1, TypeCorrect, PTL
=============================================================================

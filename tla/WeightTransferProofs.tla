------------------------ MODULE WeightTransferProofs ------------------------
(***************************************************************************)
(* Machine-checked proof that a weight synchronisation delivers exactly    *)
(* the Trainer's weights, for any ranks, sizes of weights and buckets.     *)
(*                                                                         *)
(* The chunks on their way to a rank - in its own bucket, in the one that  *)
(* has arrived, in the broadcast under way, in the bucket being filled -   *)
(* follow each other without a gap, and lie where their metadata says      *)
(* (TrainerInv, ReceiveInv).  The weights beyond - in the engine, in the   *)
(* request, packed, held - are numbered without a gap (OrderInv), and each *)
(* of their bytes is in place or will be: a copy queued on the stream      *)
(* writes it, out of a buffer that stays as it is, and none writes another *)
(* over it (PackInv).                                                      *)
(***************************************************************************)
EXTENDS WeightTransfer, TLAPS

Byte == Nat \X Nat
Chunk == [weight : Weight, chunkOffset : Nat, chunkSize : Nat, offset : Nat]
Metadata == [chunks : Seq(Chunk), isLast : BOOLEAN, valid : BOOLEAN]
Views == [weight : Weight, buffer : Buffer, at : Nat]
Copies == [from : Buffer, at : Nat, to : Buffer, into : Nat, size : Nat]
Requests == [weights : Seq(Views), isLast : BOOLEAN, valid : BOOLEAN]
Operations == [buffer : {"a", "b"}, left : SUBSET Worker, metadata : Metadata]

\* a weight as its engine is to be given it
Exact(w) == [weight |-> w, bytes |-> [j \in 0 .. size[w] - 1 |-> <<w, j>>]]
Whole == {Exact(w) : w \in Weight}

TrainerTypeOK ==
    /\ cut \in (1 .. NumWeights + 1) \X Nat
    /\ filling \in {"a", "b"} /\ bucketMeta \in Seq(Chunk) /\ offset \in 0 .. BucketSize
    /\ broadcast \in {NoBroadcast} \cup Operations
    /\ sent \in BOOLEAN

ReceiveTypeOK ==
    /\ posted \in [Worker -> {"a", "b", "none"}]
    /\ arrived \in [Worker -> Metadata]
    /\ reading \in [Worker -> {"a", "b"}]
    /\ metadata \in [Worker -> Metadata]
    /\ chunk \in [Worker -> Nat \ {0}]

PackTypeOK ==
    /\ held \in [Worker -> {Nothing} \cup Views]
    /\ packed \in [Worker -> Seq(Views)]
    /\ packedSize \in [Worker -> Nat]
    /\ request \in [Worker -> Requests]
    /\ finished \in [Worker -> BOOLEAN]

TransferTypeOK ==
    /\ size \in [Weight -> 1 .. MaxSize]
    /\ memory \in [Buffer -> [Cell -> Byte]]
    /\ stream \in [Worker -> Seq(Copies)]
    /\ loaded \in [Worker -> Seq(Whole)]
    /\ TrainerTypeOK /\ ReceiveTypeOK /\ PackTypeOK

-----------------------------------------------------------------------------
(* Chunks on their way                                                     *)

\* A place is a weight and the position of a chunk in it; a weight of at most one
\* bucket has one chunk.
PlaceOK(sizes, p) ==
    /\ p[1] <= NumWeights => p[2] < sizes[p[1]] /\ (p[2] > 0 => sizes[p[1]] > BucketSize)
    /\ p[1] > NumWeights => p[2] = 0

Begins(c) == <<c.weight, c.chunkOffset>>

Ends(sizes, c) ==
    IF c.chunkOffset + c.chunkSize < sizes[c.weight]
    THEN <<c.weight, c.chunkOffset + c.chunkSize>> ELSE <<c.weight + 1, 0>>

\* the place of the k-th chunk, or what follows the chunks
Place(chunks, k, next) == IF k <= Len(chunks) THEN Begins(chunks[k]) ELSE next

\* The chunk is as the Trainer cuts it, and its bytes are where it says.
InPlace(sizes, c, cells) ==
    /\ PlaceOK(sizes, Begins(c))
    /\ c.chunkSize = Smaller(BucketSize, sizes[c.weight] - c.chunkOffset)
    /\ c.offset + c.chunkSize <= BucketSize
    /\ \A j \in 0 .. c.chunkSize - 1 : cells[c.offset + j] = <<c.weight, c.chunkOffset + j>>

\* Chunks without a gap, up to next, that lie in cells where they say.
Follow(sizes, chunks, next, cells) ==
    \A k \in 1 .. Len(chunks) :
        /\ InPlace(sizes, chunks[k], cells)
        /\ Ends(sizes, chunks[k]) = Place(chunks, k + 1, next)

UnderWay(r) == broadcast # NoBroadcast /\ r \in broadcast.left

\* The first place that is not in a broadcast, in none that r has to receive, in
\* none that it has to take, and the one it pulls next.
Unsent == IF sent THEN cut ELSE Place(bucketMeta, 1, cut)
Unreceived(r) == IF UnderWay(r) THEN Place(broadcast.metadata.chunks, 1, Unsent) ELSE Unsent
Untaken(r) == IF arrived[r].valid THEN Place(arrived[r].chunks, 1, Unreceived(r))
              ELSE Unreceived(r)
Unpulled(r) == Place(metadata[r].chunks, chunk[r], Untaken(r))

TrainerInv ==
    /\ PlaceOK(size, cut)
    /\ IF sent THEN ~MoreChunks
       ELSE /\ Follow(size, bucketMeta, cut, memory[<<Trainer, filling>>])
            /\ \A k \in 1 .. Len(bucketMeta) :
                  bucketMeta[k].offset + bucketMeta[k].chunkSize <= offset
    /\ broadcast # NoBroadcast =>
          /\ broadcast.buffer # filling \/ sent
          /\ broadcast.metadata.isLast => sent
          /\ broadcast.metadata.valid
          /\ Follow(size, broadcast.metadata.chunks, Unsent, memory[<<Trainer, broadcast.buffer>>])

ReceiveInv(r) ==
    /\ posted[r] \in {"none", Other(reading[r])}
    /\ arrived[r].valid =>
          /\ posted[r] = "none"
          /\ Follow(size, arrived[r].chunks, Unreceived(r), memory[<<r, Other(reading[r])>>])
          /\ arrived[r].isLast => sent /\ ~UnderWay(r)
    /\ Follow(size, metadata[r].chunks, Untaken(r), memory[<<r, reading[r]>>])
    /\ metadata[r].isLast => sent /\ ~UnderWay(r) /\ ~arrived[r].valid

-----------------------------------------------------------------------------
(* Weights put together                                                    *)

Writes(c, b, x) == c.to = b /\ x - c.into \in 0 .. c.size - 1

\* The cell has this byte in memory mem when the copies are done: it has it already
\* or some copy writes it, and none writes another.
Coming(mem, copies, b, x, byte) ==
    /\ mem[b][x] = byte \/ \E k \in 1 .. Len(copies) : Writes(copies[k], b, x)
    /\ \A k \in 1 .. Len(copies) :
          Writes(copies[k], b, x) =>
              mem[copies[k].from][copies[k].at + (x - copies[k].into)] = byte

ComingView(sizes, mem, copies, v) ==
    \A j \in 0 .. sizes[v.weight] - 1 :
        Coming(mem, copies, v.buffer, v.at + j, <<v.weight, j>>)

Here(r) == <<r, reading[r]>>
Ipc(r) == <<r, "ipc">>
Merge(r) == <<r, "merge">>

MergeInUse(r) ==
    \/ held[r] # Nothing /\ held[r].buffer = Merge(r)
    \/ \E i \in 1 .. Len(request[r].weights) : request[r].weights[i].buffer = Merge(r)

\* Every copy comes out of the bucket being read and goes where a packed weight
\* or one being merged is.
CopiesInPlace(r) ==
    \A k \in 1 .. Len(stream[r]) :
        LET c == stream[r][k] IN
        /\ c.from = Here(r) /\ c.to \in {Ipc(r), Merge(r)}
        /\ c.at + c.size <= BucketSize
        /\ c.to = Ipc(r) => c.into + c.size <= packedSize[r]
        /\ c.to = Merge(r) => \/ c.into + c.size <= Unpulled(r)[2]
                              \/ Unpulled(r)[2] = 0 /\ MergeInUse(r)

PackedInPlace(r) ==
    /\ packedSize[r] <= BucketSize
    /\ packed[r] = <<>> => packedSize[r] = 0
    /\ \A i \in 1 .. Len(packed[r]) :
          LET v == packed[r][i] IN
          /\ v.buffer = Ipc(r)
          /\ v.at + size[v.weight] <= packedSize[r]
          /\ ComingView(size, memory, stream[r], v)

HeldInPlace(r) ==
    held[r] # Nothing =>
        /\ \/ /\ held[r].buffer = Here(r)
              /\ held[r].at + size[held[r].weight] <= BucketSize
           \/ /\ held[r].buffer = Merge(r) /\ held[r].at = 0
              /\ size[held[r].weight] > BucketSize
              /\ Unpulled(r)[2] = 0
        /\ ComingView(size, memory, stream[r], held[r])

RequestInPlace(r) ==
    \A i \in 1 .. Len(request[r].weights) :
        LET v == request[r].weights[i] IN
        /\ v.buffer \in {Here(r), Ipc(r), Merge(r)}
        /\ v.at + size[v.weight] <= BucketSize + MaxSize
        /\ ComingView(size, memory, stream[r], v)

\* what has been pulled of a weight in several chunks
MergedInPlace(r) ==
    \A x \in 0 .. Unpulled(r)[2] - 1 : Coming(memory, stream[r], Merge(r), x, <<Unpulled(r)[1], x>>)

PackInv(r) ==
    /\ CopiesInPlace(r) /\ PackedInPlace(r) /\ HeldInPlace(r)
    /\ RequestInPlace(r) /\ MergedInPlace(r)

InRequest(r) == Len(loaded[r])
InPacked(r) == InRequest(r) + Len(request[r].weights)
InHand(r) == InPacked(r) + Len(packed[r])

OrderInv(r) ==
    /\ \A i \in 1 .. Len(loaded[r]) : loaded[r][i] = Exact(i)
    /\ \A i \in 1 .. Len(request[r].weights) : request[r].weights[i].weight = InRequest(r) + i
    /\ \A i \in 1 .. Len(packed[r]) : packed[r][i].weight = InPacked(r) + i
    /\ held[r] # Nothing => held[r].weight = InHand(r) + 1
    /\ Unpulled(r)[1] = InHand(r) + (IF held[r] = Nothing THEN 1 ELSE 2)
    /\ ~request[r].valid => request[r].weights = <<>>
    /\ finished[r] => held[r] = Nothing /\ packed[r] = <<>> /\ Unpulled(r)[1] > NumWeights

WorkerInv(r) == ReceiveInv(r) /\ PackInv(r) /\ OrderInv(r)

TransferInv == TransferTypeOK /\ TrainerInv /\ \A r \in Worker : WorkerInv(r)

-----------------------------------------------------------------------------
(* Constants and types                                                     *)

LEMMA TransferConstants ==
    /\ NumWeights \in Nat \ {0} /\ MaxSize \in Nat \ {0} /\ BucketSize \in Nat \ {0}
    /\ \A x \in {"a", "b"} : <<Trainer, x>> \in Buffer
    /\ \A r \in Worker, x \in {"a", "b", "ipc", "merge"} : <<r, x>> \in Buffer
    /\ \A r \in Worker : r # Trainer
    /\ \A x \in {"a", "b"} : Other(x) \in {"a", "b"} /\ Other(x) # x /\ Other(Other(x)) = x
BY TransferAssumption DEF Buffer, Other

LEMMA Fields ==
    /\ \A from, at, to, into, m :
          /\ Copy(from, at, to, into, m).from = from /\ Copy(from, at, to, into, m).at = at
          /\ Copy(from, at, to, into, m).to = to /\ Copy(from, at, to, into, m).into = into
          /\ Copy(from, at, to, into, m).size = m
    /\ \A w, buffer, at :
          /\ View(w, buffer, at).weight = w /\ View(w, buffer, at).buffer = buffer
          /\ View(w, buffer, at).at = at
    /\ \A c : Begins(c)[1] = c.weight /\ Begins(c)[2] = c.chunkOffset
BY DEF Copy, View, Begins

\* A chunk lies within its weight, and is all of a weight that fits a bucket.
LEMMA ChunkWithin ==
    ASSUME NEW n \in Nat, NEW at \in Nat, at < n, at > 0 => n > BucketSize
    PROVE  /\ at + Smaller(BucketSize, n - at) <= n
           /\ n <= BucketSize => at = 0 /\ Smaller(BucketSize, n - at) = n
BY TransferConstants DEF Smaller

LEMMA Parts ==
    TransferInv =>
        /\ TransferTypeOK /\ TrainerTypeOK /\ ReceiveTypeOK /\ PackTypeOK /\ TrainerInv
        /\ \A r \in Worker : WorkerInv(r) /\ ReceiveInv(r) /\ PackInv(r) /\ OrderInv(r)
BY Zenon DEF TransferInv, TransferTypeOK, WorkerInv

LEMMA ViewsAreSomething ==
    /\ \A v \in Views : v # Nothing
    /\ \A op \in Operations : op # NoBroadcast
<1>1. ASSUME NEW v \in Views PROVE v # Nothing
  BY TransferConstants DEF Views, Nothing, Weight
<1>2. ASSUME NEW op \in Operations PROVE op # NoBroadcast
  BY DEF Operations, NoBroadcast
<1> QED BY <1>1, <1>2

LEMMA ViewTypes ==
    ASSUME TransferTypeOK, NEW v \in Views
    PROVE  /\ v.weight \in Weight /\ v.buffer \in Buffer /\ v.at \in Nat
           /\ size[v.weight] \in 1 .. MaxSize /\ size[v.weight] \in Nat
<1>1. v.weight \in Weight /\ v.buffer \in Buffer /\ v.at \in Nat
  BY DEF Views
<1>2. size[v.weight] \in 1 .. MaxSize
  BY <1>1, Zenon DEF TransferTypeOK
<1> QED BY <1>1, <1>2, TransferConstants

LEMMA SizesStay ==
    ASSUME UNCHANGED size
    PROVE  Whole' = Whole /\ \A w : Exact(w)' = Exact(w)
BY DEF Whole, Exact

LEMMA TypesStay ==
    /\ TrainerTypeOK /\ UNCHANGED trainerVars => TrainerTypeOK'
    /\ ReceiveTypeOK /\ UNCHANGED receiveVars => ReceiveTypeOK'
    /\ PackTypeOK /\ UNCHANGED packVars => PackTypeOK'
BY DEF TrainerTypeOK, ReceiveTypeOK, PackTypeOK, trainerVars, receiveVars, packVars

LEMMA NextChunk ==
    ASSUME TransferTypeOK, PlaceOK(size, cut), MoreChunks
    PROVE  /\ cut[1] \in Weight /\ cut[2] \in Nat /\ size[cut[1]] \in 1 .. MaxSize
           /\ ChunkSize \in 1 .. BucketSize
           /\ cut[2] + ChunkSize <= size[cut[1]]
           /\ NextCut \in (1 .. NumWeights + 1) \X Nat
           /\ PlaceOK(size, NextCut)
<1>1. /\ cut[1] \in Weight /\ cut[2] \in Nat /\ size[cut[1]] \in 1 .. MaxSize
      /\ cut[2] < size[cut[1]] /\ (cut[2] > 0 => size[cut[1]] > BucketSize)
  BY TransferConstants DEF TransferTypeOK, TrainerTypeOK, PlaceOK, MoreChunks, Weight
<1>2. /\ ChunkSize \in 1 .. BucketSize
      /\ cut[2] + ChunkSize <= size[cut[1]]
      /\ size[cut[1]] <= BucketSize => ChunkSize = size[cut[1]] - cut[2]
  BY <1>1, TransferConstants DEF ChunkSize, Smaller
<1>3. NextCut \in (1 .. NumWeights + 1) \X Nat
  BY <1>1, <1>2, TransferConstants DEF NextCut, Weight
<1>4. PlaceOK(size, NextCut)
  <2>1. CASE cut[2] + ChunkSize < size[cut[1]]
    <3>1. NextCut = <<cut[1], cut[2] + ChunkSize>>
      BY <2>1 DEF NextCut
    <3>2. size[cut[1]] > BucketSize
      BY <1>1, <1>2, <2>1, TransferConstants
    <3> QED BY <3>1, <3>2, <2>1, <1>1, TransferConstants DEF PlaceOK, Weight
  <2>2. CASE ~(cut[2] + ChunkSize < size[cut[1]])
    <3>1. NextCut = <<cut[1] + 1, 0>>
      BY <2>2 DEF NextCut
    <3>2. cut[1] + 1 <= NumWeights => size[cut[1] + 1] \in 1 .. MaxSize
      BY <1>1, TransferConstants DEF TransferTypeOK, Weight
    <3> QED BY <3>1, <3>2, <1>1, TransferConstants DEF PlaceOK, Weight
  <2> QED BY <2>1, <2>2
<1> QED BY <1>1, <1>2, <1>3, <1>4

LEMMA WrittenCells ==
    ASSUME NEW cells \in [Cell -> Byte], NEW at \in Nat, NEW n \in Nat,
           NEW bytes \in [0 .. n - 1 -> Byte]
    PROVE  /\ Written(cells, at, bytes) \in [Cell -> Byte]
           /\ \A x \in Cell : Written(cells, at, bytes)[x] =
                  IF x - at \in 0 .. n - 1 THEN bytes[x - at] ELSE cells[x]
BY DEF Written

\* The Trainer's steps keep the types.
LEMMA SendsType ==
    ASSUME TransferTypeOK, TrainerInv, Sends
    PROVE  TransferTypeOK'
<1>. USE DEF TransferTypeOK
<1>1. CASE FillBucket
  <2>1. PlaceOK(size, cut) /\ MoreChunks /\ Fits
    BY <1>1 DEF FillBucket, TrainerInv
  <2>2. /\ cut[1] \in Weight /\ cut[2] \in Nat /\ ChunkSize \in 1 .. BucketSize
        /\ NextCut \in (1 .. NumWeights + 1) \X Nat
    BY <2>1, NextChunk
  <2>. DEFINE bytes == [i \in 0 .. ChunkSize - 1 |-> <<cut[1], cut[2] + i>>]
              new   == [weight |-> cut[1], chunkOffset |-> cut[2],
                        chunkSize |-> ChunkSize, offset |-> offset]
  <2>3. bytes \in [0 .. ChunkSize - 1 -> Byte]
    <3>1. cut[1] \in Nat
      BY <2>2, TransferConstants DEF Weight
    <3>2. \A m, i \in Nat : m + i \in Nat
      OBVIOUS
    <3>3. \A i \in 0 .. ChunkSize - 1 : i \in Nat
      OBVIOUS
    <3>4. \A i \in 0 .. ChunkSize - 1 : <<cut[1], cut[2] + i>> \in Byte
      BY <2>2, <3>1, <3>2, <3>3, Zenon DEF Byte
    <3> QED BY <3>4, Zenon
  <2>4. new \in Chunk
    BY <2>2, TransferConstants DEF Chunk, TrainerTypeOK
  <2>. HIDE DEF bytes, new
  <2>5. memory' = [memory EXCEPT ![<<Trainer, filling>>] = Written(@, offset, bytes)]
        /\ bucketMeta' = Append(bucketMeta, new)
    BY <1>1 DEF FillBucket, bytes, new
  <2>6. /\ memory[<<Trainer, filling>>] \in [Cell -> Byte]
        /\ offset \in Nat /\ ChunkSize \in Nat
    <3>1. <<Trainer, filling>> \in Buffer
      BY TransferConstants DEF TrainerTypeOK
    <3>2. offset \in Nat /\ ChunkSize \in Nat
      BY <2>2, TransferConstants DEF TrainerTypeOK
    <3> QED BY <3>1, <3>2
  <2>7. Written(memory[<<Trainer, filling>>], offset, bytes) \in [Cell -> Byte]
    BY <2>3, <2>6, WrittenCells
  <2>8. memory' \in [Buffer -> [Cell -> Byte]]
    BY <2>5, <2>7
  <2>9. offset' \in 0 .. BucketSize
    BY <2>1, <2>2, <1>1, TransferConstants DEF FillBucket, Fits, TrainerTypeOK
  <2>10. TrainerTypeOK'
    BY <1>1, <2>2, <2>4, <2>5, <2>9 DEF FillBucket, TrainerTypeOK
  <2> QED BY <1>1, <2>8, <2>10, TypesStay, SizesStay DEF FillBucket
<1>2. Operation(TRUE) \in Operations /\ Operation(FALSE) \in Operations
  <2>1. \A last \in BOOLEAN :
            [chunks |-> bucketMeta, isLast |-> last, valid |-> TRUE] \in Metadata
    BY DEF Metadata, TrainerTypeOK
  <2> QED BY <2>1 DEF Operation, Operations, TrainerTypeOK
<1>3. CASE Broadcast
  <2>1. TrainerTypeOK'
    <3>1. broadcast' \in Operations
      BY <1>2, <1>3 DEF Broadcast
    <3>2. filling' \in {"a", "b"} /\ offset' \in 0 .. BucketSize /\ bucketMeta' \in Seq(Chunk)
      BY <1>3, TransferConstants DEF Broadcast, TrainerTypeOK
    <3> QED BY <1>3, <3>1, <3>2 DEF Broadcast, TrainerTypeOK
  <2> QED BY <1>3, <2>1, TypesStay, SizesStay DEF Broadcast
<1>4. CASE BroadcastLast
  <2>1. TrainerTypeOK'
    BY <1>2, <1>4 DEF BroadcastLast, LastBucket, TrainerTypeOK
  <2> QED BY <1>4, <2>1, TypesStay, SizesStay DEF BroadcastLast
<1> QED BY <1>1, <1>3, <1>4 DEF Sends

LEMMA DeliverType ==
    ASSUME TransferTypeOK, NEW r \in Worker, Deliver(r)
    PROVE  TransferTypeOK'
<1>. USE DEF TransferTypeOK
<1>1. broadcast \in Operations
  BY DEF Deliver, TrainerTypeOK
<1>2. TrainerTypeOK'
  <2>1. broadcast' \in {NoBroadcast} \cup Operations
    BY <1>1 DEF Deliver, Operations
  <2> QED BY <2>1 DEF Deliver, TrainerTypeOK
<1>3. memory' \in [Buffer -> [Cell -> Byte]]
  <2>1. <<Trainer, broadcast.buffer>> \in Buffer
    BY <1>1, TransferConstants DEF Operations
  <2> QED BY <2>1 DEF Deliver
<1>4. ReceiveTypeOK'
  <2>1. broadcast.metadata \in Metadata
    BY <1>1 DEF Operations
  <2> QED BY <2>1 DEF Deliver, ReceiveTypeOK
<1> QED BY <1>2, <1>3, <1>4, TypesStay, SizesStay DEF Deliver

LEMMA WorksType ==
    ASSUME TransferTypeOK, NEW r \in Worker, Works(r)
    PROVE  TransferTypeOK'
<1>. USE DEF TransferTypeOK
<1>1. CASE TakeBucket(r)
  <2>1. NoMetadata \in Metadata
    BY DEF NoMetadata, Metadata
  <2>2. ReceiveTypeOK'
    <3>1. reading[r] \in {"a", "b"} /\ Other(reading[r]) \in {"a", "b"} /\ arrived[r] \in Metadata
      BY TransferConstants DEF ReceiveTypeOK
    <3>2. posted' \in [Worker -> {"a", "b", "none"}] /\ reading' \in [Worker -> {"a", "b"}]
      BY <1>1, <3>1 DEF TakeBucket, ReceiveTypeOK
    <3>3. arrived' \in [Worker -> Metadata] /\ metadata' \in [Worker -> Metadata]
      BY <1>1, <2>1, <3>1 DEF TakeBucket, ReceiveTypeOK
    <3>4. chunk' \in [Worker -> Nat \ {0}]
      BY <1>1 DEF TakeBucket, ReceiveTypeOK
    <3> QED BY <3>2, <3>3, <3>4, Zenon DEF ReceiveTypeOK
  <2> QED BY <1>1, <2>2, TypesStay, SizesStay DEF TakeBucket
<1>2. CASE PullChunk(r)
  <2>. DEFINE c == metadata[r].chunks[chunk[r]]
  <2>1. c \in Chunk
    <3>1. metadata[r].chunks \in Seq(Chunk)
      BY DEF Metadata, ReceiveTypeOK
    <3>2. chunk[r] \in 1 .. Len(metadata[r].chunks)
      BY <1>2, <3>1 DEF PullChunk, BucketRead, ReceiveTypeOK
    <3> QED BY <3>1, <3>2
  <2>2. <<r, reading[r]>> \in Buffer /\ <<r, "merge">> \in Buffer
    BY TransferConstants DEF ReceiveTypeOK
  <2>3. View(c.weight, <<r, reading[r]>>, c.offset) \in Views
        /\ View(c.weight, <<r, "merge">>, 0) \in Views
    BY <2>1, <2>2 DEF View, Views, Chunk
  <2>4. Copy(<<r, reading[r]>>, c.offset, <<r, "merge">>, c.chunkOffset, c.chunkSize) \in Copies
    BY <2>1, <2>2 DEF Copy, Copies, Chunk
  <2>. HIDE DEF c
  <2>5. PackTypeOK'
    <3>1. \/ held' = [held EXCEPT ![r] = View(c.weight, <<r, reading[r]>>, c.offset)]
          \/ held' = [held EXCEPT ![r] = View(c.weight, <<r, "merge">>, 0)]
          \/ held' = held
      BY <1>2, Zenon DEF PullChunk, c
    <3>2. held' \in [Worker -> {Nothing} \cup Views]
      BY <2>3, <3>1 DEF PackTypeOK
    <3>3. UNCHANGED <<packed, packedSize, request, finished>>
      BY <1>2, Zenon DEF PullChunk
    <3> QED BY <3>2, <3>3 DEF PackTypeOK
  <2>6. stream' \in [Worker -> Seq(Copies)]
    <3>1. \/ UNCHANGED stream
          \/ stream' = [stream EXCEPT ![r] = Append(@,
                Copy(<<r, reading[r]>>, c.offset, <<r, "merge">>, c.chunkOffset, c.chunkSize))]
      BY <1>2 DEF PullChunk, c
    <3>2. \A q \in Copies : Append(stream[r], q) \in Seq(Copies)
      OBVIOUS
    <3> QED BY <3>1, <3>2, <2>4
  <2>7. ReceiveTypeOK'
    BY <1>2 DEF PullChunk, ReceiveTypeOK
  <2> QED BY <1>2, <2>5, <2>6, <2>7, TypesStay, SizesStay DEF PullChunk
<1>3. CASE Pack(r)
  <2>1. held[r] \in Views
    BY <1>3 DEF Pack, PackTypeOK
  <2>2. HeldSize(r) \in Nat /\ held[r].weight \in Weight /\ held[r].buffer \in Buffer
        /\ held[r].at \in Nat /\ <<r, "ipc">> \in Buffer /\ packedSize[r] \in Nat
    <3>1. held[r].weight \in Weight /\ held[r].buffer \in Buffer /\ held[r].at \in Nat
      BY <2>1 DEF Views
    <3>2. size[held[r].weight] \in Nat
      BY <3>1, TransferConstants
    <3>3. <<r, "ipc">> \in Buffer
      BY TransferConstants
    <3> QED BY <3>1, <3>2, <3>3 DEF HeldSize, PackTypeOK
  <2>3. Copy(held[r].buffer, held[r].at, <<r, "ipc">>, packedSize[r], HeldSize(r)) \in Copies
        /\ View(held[r].weight, <<r, "ipc">>, packedSize[r]) \in Views
    BY <2>2 DEF Copy, Copies, View, Views
  <2>4. PackTypeOK'
    <3>1. held' \in [Worker -> {Nothing} \cup Views]
      BY <1>3 DEF Pack, PackTypeOK
    <3>2. packed' \in [Worker -> Seq(Views)]
      BY <1>3, <2>3 DEF Pack, PackTypeOK
    <3>3. packedSize' \in [Worker -> Nat]
      BY <1>3, <2>2 DEF Pack, PackTypeOK
    <3>4. UNCHANGED <<request, finished>>
      BY <1>3, Zenon DEF Pack
    <3> QED BY <3>1, <3>2, <3>3, <3>4 DEF PackTypeOK
  <2>5. stream' \in [Worker -> Seq(Copies)]
    BY <1>3, <2>3 DEF Pack
  <2> QED BY <1>3, <2>4, <2>5, TypesStay, SizesStay DEF Pack
<1>4. \A ws \in Seq(Views), last \in BOOLEAN : Request(ws, last) \in Requests
  BY DEF Request, Requests
<1>5. CASE SendBucket(r)
  <2>1. Request(packed[r], FALSE) \in Requests
    BY <1>4 DEF PackTypeOK
  <2>2. PackTypeOK'
    <3>1. <<>> \in Seq(Views)
      OBVIOUS
    <3>2. packed' \in [Worker -> Seq(Views)] /\ packedSize' \in [Worker -> Nat]
      BY <1>5, <3>1 DEF SendBucket, PackTypeOK
    <3>3. request' \in [Worker -> Requests]
      BY <1>5, <2>1 DEF SendBucket, PackTypeOK
    <3> QED BY <1>5, <3>2, <3>3 DEF SendBucket, PackTypeOK
  <2> QED BY <1>5, <2>2, TypesStay, SizesStay DEF SendBucket
<1>6. CASE SendLarge(r)
  <2>1. <<held[r]>> \in Seq(Views)
    BY <1>6 DEF SendLarge, PackTypeOK
  <2>2. Request(<<held[r]>>, FALSE) \in Requests
    BY <1>4, <2>1
  <2>3. PackTypeOK'
    BY <1>6, <2>2 DEF SendLarge, PackTypeOK
  <2> QED BY <1>6, <2>3, TypesStay, SizesStay DEF SendLarge
<1>7. CASE SendLast(r)
  <2>1. Request(packed[r], TRUE) \in Requests
    BY <1>4 DEF PackTypeOK
  <2>2. PackTypeOK'
    <3>1. <<>> \in Seq(Views)
      OBVIOUS
    <3>2. packed' \in [Worker -> Seq(Views)] /\ packedSize' \in [Worker -> Nat]
      BY <1>7, <3>1 DEF SendLast, PackTypeOK
    <3>3. request' \in [Worker -> Requests]
      BY <1>7, <2>1 DEF SendLast, PackTypeOK
    <3> QED BY <1>7, <3>2, <3>3 DEF SendLast, PackTypeOK
  <2> QED BY <1>7, <2>2, TypesStay, SizesStay DEF SendLast
<1> QED BY <1>1, <1>2, <1>3, <1>5, <1>6, <1>7 DEF Works

\* The copy at the head of a stream, and what it does.
HeadBytes(r) ==
    [i \in 0 .. Head(stream[r]).size - 1 |->
        memory[Head(stream[r]).from][Head(stream[r]).at + i]]

LEMMA RunCopyFacts ==
    ASSUME TransferTypeOK, NEW r \in Worker, CopiesInPlace(r), RunCopy(r),
           NEW c, c = Head(stream[r])
    PROVE  /\ c = stream[r][1] /\ c \in Copies /\ Len(stream[r]) \in Nat \ {0}
           /\ c.at \in Nat /\ c.size \in Nat /\ c.into \in Nat
           /\ c.from = Here(r) /\ c.to \in {Ipc(r), Merge(r)} /\ c.at + c.size <= BucketSize
           /\ HeadBytes(r) \in [0 .. c.size - 1 -> Byte]
           /\ memory' = [memory EXCEPT ![c.to] = Written(@, c.into, HeadBytes(r))]
<1>1. stream[r] \in Seq(Copies) /\ stream[r] # <<>>
  BY DEF RunCopy, TransferTypeOK
<1>2. c = stream[r][1] /\ c \in Copies /\ 1 \in 1 .. Len(stream[r]) /\ Len(stream[r]) \in Nat \ {0}
  BY <1>1
<1>3. c.at + c.size <= BucketSize /\ c.from = Here(r) /\ c.to \in {Ipc(r), Merge(r)}
  BY <1>2 DEF CopiesInPlace
<1>4. c.at \in Nat /\ c.size \in Nat /\ c.into \in Nat /\ c.from \in Buffer
  BY <1>2 DEF Copies
<1>5. memory[c.from] \in [Cell -> Byte]
  BY <1>4 DEF TransferTypeOK
<1>6. \A i \in 0 .. c.size - 1 : c.at + i \in Cell
  BY <1>3, <1>4, TransferConstants DEF Cell
<1>7. \A i \in 0 .. c.size - 1 : memory[c.from][c.at + i] \in Byte
  BY <1>5, <1>6
<1>8. HeadBytes(r) \in [0 .. c.size - 1 -> Byte]
  <2>1. HeadBytes(r) = [i \in 0 .. c.size - 1 |-> memory[c.from][c.at + i]]
    BY Zenon DEF HeadBytes
  <2> QED BY <1>7, <2>1, Zenon
<1>9. memory' = [memory EXCEPT ![c.to] = Written(@, c.into, HeadBytes(r))]
  BY Zenon DEF RunCopy, HeadBytes
<1> QED BY <1>2, <1>3, <1>4, <1>8, <1>9

LEMMA RunCopyType ==
    ASSUME TransferTypeOK, NEW r \in Worker, PackInv(r), RunCopy(r)
    PROVE  TransferTypeOK'
<1>. DEFINE c == Head(stream[r])
<1>1. CopiesInPlace(r)
  BY DEF PackInv
<1>2. /\ c.into \in Nat /\ c.size \in Nat /\ c.to \in Buffer
      /\ HeadBytes(r) \in [0 .. c.size - 1 -> Byte]
      /\ memory' = [memory EXCEPT ![c.to] = Written(@, c.into, HeadBytes(r))]
  BY <1>1, RunCopyFacts DEF Copies
<1>. HIDE DEF c
<1>3. memory[c.to] \in [Cell -> Byte]
  BY <1>2 DEF TransferTypeOK
<1>4. Written(memory[c.to], c.into, HeadBytes(r)) \in [Cell -> Byte]
  BY <1>2, <1>3, WrittenCells
<1>5. memory' \in [Buffer -> [Cell -> Byte]]
  BY <1>2, <1>4 DEF TransferTypeOK
<1>6. stream' \in [Worker -> Seq(Copies)]
  BY DEF RunCopy, TransferTypeOK
<1>7. UNCHANGED <<size, trainerVars, receiveVars, packVars, loaded>>
  BY Zenon DEF RunCopy
<1> QED BY <1>5, <1>6, <1>7, TypesStay, SizesStay, Zenon DEF TransferTypeOK

-----------------------------------------------------------------------------
(* The Trainer's steps                                                     *)

LEMMA FollowAppend ==
    ASSUME NEW sizes, NEW chunks \in Seq(Chunk), NEW new \in Chunk, NEW next, NEW after,
           NEW cells, NEW cells2,
           Follow(sizes, chunks, next, cells),
           Begins(new) = next, Ends(sizes, new) = after, InPlace(sizes, new, cells2),
           \A k \in 1 .. Len(chunks) : \A j \in 0 .. chunks[k].chunkSize - 1 :
               cells2[chunks[k].offset + j] = cells[chunks[k].offset + j]
    PROVE  /\ Follow(sizes, Append(chunks, new), after, cells2)
           /\ Place(Append(chunks, new), 1, after) = Place(chunks, 1, next)
<1>. DEFINE more == Append(chunks, new)
<1>1. /\ Len(chunks) \in Nat /\ Len(more) = Len(chunks) + 1
      /\ \A k \in 1 .. Len(chunks) : more[k] = chunks[k]
      /\ more[Len(chunks) + 1] = new
  OBVIOUS
<1>. HIDE DEF more
<1>2. \A k \in 1 .. Len(chunks) : Place(more, k + 1, after) = Place(chunks, k + 1, next)
  <2>1. TAKE k \in 1 .. Len(chunks)
  <2>2. CASE k < Len(chunks)
    <3>1. k + 1 \in 1 .. Len(chunks) /\ k + 1 <= Len(more)
      BY <1>1, <2>2
    <3> QED BY <1>1, <3>1 DEF Place
  <2>3. CASE k = Len(chunks)
    BY <1>1, <2>3 DEF Place
  <2> QED BY <2>2, <2>3
<1>3. ASSUME NEW k \in 1 .. Len(more)
      PROVE  InPlace(sizes, more[k], cells2) /\ Ends(sizes, more[k]) = Place(more, k + 1, after)
  <2>1. CASE k \in 1 .. Len(chunks)
    <3>1. InPlace(sizes, chunks[k], cells) /\ Ends(sizes, chunks[k]) = Place(chunks, k + 1, next)
      BY <2>1 DEF Follow
    <3>2. InPlace(sizes, chunks[k], cells2)
      BY <2>1, <3>1 DEF InPlace
    <3> QED BY <1>1, <1>2, <2>1, <3>1, <3>2
  <2>2. CASE k = Len(chunks) + 1
    <3>1. more[k] = new /\ Place(more, k + 1, after) = after
      BY <1>1, <2>2 DEF Place
    <3> QED BY <3>1
  <2> QED BY <1>1, <2>1, <2>2
<1>4. Follow(sizes, more, after, cells2)
  BY <1>3 DEF Follow
<1>5. Place(more, 1, after) = Place(chunks, 1, next)
  <2>1. CASE Len(chunks) = 0
    BY <1>1, <2>1 DEF Place
  <2>2. CASE Len(chunks) > 0
    <3>1. 1 \in 1 .. Len(chunks) /\ 1 <= Len(more)
      BY <1>1, <2>2
    <3> QED BY <1>1, <3>1 DEF Place
  <2> QED BY <1>1, <2>1, <2>2
<1> QED BY <1>4, <1>5 DEF more

LEMMA FillKeepsTrainer ==
    ASSUME TransferTypeOK, TrainerInv, FillBucket
    PROVE  /\ TrainerInv' /\ Unsent' = Unsent
           /\ \A b \in Buffer : b[1] # Trainer => memory'[b] = memory[b]
<1>. DEFINE new == [weight |-> cut[1], chunkOffset |-> cut[2],
                    chunkSize |-> ChunkSize, offset |-> offset]
            bytes == [i \in 0 .. ChunkSize - 1 |-> <<cut[1], cut[2] + i>>]
            b == <<Trainer, filling>>
<1>1. PlaceOK(size, cut) /\ MoreChunks /\ Fits
  BY DEF FillBucket, TrainerInv
<1>2. /\ cut[1] \in Weight /\ cut[2] \in Nat /\ ChunkSize \in 1 .. BucketSize
      /\ PlaceOK(size, NextCut)
      /\ NextCut \in (1 .. NumWeights + 1) \X Nat
  BY <1>1, NextChunk DEF TransferTypeOK
<1>3. /\ bucketMeta \in Seq(Chunk) /\ offset \in 0 .. BucketSize /\ filling \in {"a", "b"}
      /\ cut = <<cut[1], cut[2]>> /\ broadcast \in {NoBroadcast} \cup Operations
  BY DEF TransferTypeOK, TrainerTypeOK
<1>4. ~sent /\ UNCHANGED <<size, filling, broadcast, sent>> /\ cut' = NextCut
      /\ offset' = offset + ChunkSize
  BY <1>1 DEF FillBucket, TrainerInv
<1>5. b \in Buffer /\ memory[b] \in [Cell -> Byte] /\ DOMAIN memory = Buffer
  <2>1. b \in Buffer
    BY <1>3, TransferConstants
  <2> QED BY <2>1 DEF TransferTypeOK
<1>6. bytes \in [0 .. ChunkSize - 1 -> Byte]
  BY <1>2, TransferConstants DEF Byte, Weight
<1>7. new \in Chunk
  BY <1>2, <1>3, TransferConstants DEF Chunk
<1>8. bucketMeta' = Append(bucketMeta, new)
      /\ memory' = [memory EXCEPT ![b] = Written(memory[b], offset, bytes)]
  BY DEF FillBucket
<1>9. /\ new.weight = cut[1] /\ new.chunkOffset = cut[2] /\ new.chunkSize = ChunkSize
      /\ new.offset = offset /\ \A i \in 0 .. ChunkSize - 1 : bytes[i] = <<cut[1], cut[2] + i>>
  OBVIOUS
<1>. HIDE DEF new, bytes
<1>10. \A x \in Cell : memory'[b][x] =
          IF x - offset \in 0 .. ChunkSize - 1 THEN bytes[x - offset] ELSE memory[b][x]
  <2>1. ChunkSize \in Nat /\ offset \in Nat
    BY <1>2, <1>3, TransferConstants
  <2>2. \A x \in Cell : Written(memory[b], offset, bytes)[x] =
            IF x - offset \in 0 .. ChunkSize - 1 THEN bytes[x - offset] ELSE memory[b][x]
    BY <1>5, <1>6, <2>1, WrittenCells
  <2>3. memory'[b] = Written(memory[b], offset, bytes)
    BY <1>5, <1>8
  <2> QED BY <2>2, <2>3
<1>11. \A c \in Buffer : c # b => memory'[c] = memory[c]
  BY <1>5, <1>8
<1>. HIDE DEF b
<1>12. Begins(new) = cut /\ Ends(size, new) = NextCut
       /\ new.chunkSize = Smaller(BucketSize, size[new.weight] - new.chunkOffset)
       /\ new.offset + new.chunkSize <= BucketSize
  BY <1>1, <1>3, <1>9 DEF Begins, Ends, NextCut, ChunkSize, Fits
<1>13. Follow(size, bucketMeta, cut, memory[b])
       /\ \A k \in 1 .. Len(bucketMeta) : bucketMeta[k].offset + bucketMeta[k].chunkSize <= offset
  BY <1>4 DEF TrainerInv, b
<1>14. \A k \in 1 .. Len(bucketMeta) : bucketMeta[k].offset \in Nat /\ bucketMeta[k].chunkSize \in Nat
  <2>1. \A k \in 1 .. Len(bucketMeta) : bucketMeta[k] \in Chunk
    BY <1>3
  <2> QED BY <2>1 DEF Chunk
<1>15. ASSUME NEW k \in 1 .. Len(bucketMeta), NEW j \in 0 .. bucketMeta[k].chunkSize - 1
       PROVE  memory'[b][bucketMeta[k].offset + j] = memory[b][bucketMeta[k].offset + j]
  <2>. DEFINE x == bucketMeta[k].offset + j
  <2>1. x \in Nat /\ x < offset
    BY <1>13, <1>14, <1>3
  <2>2. x \in Cell /\ ~(x - offset \in 0 .. ChunkSize - 1)
    BY <2>1, <1>3, TransferConstants DEF Cell
  <2> QED BY <2>2, <1>10
<1>16. ASSUME NEW j \in 0 .. new.chunkSize - 1
       PROVE  memory'[b][new.offset + j] = <<new.weight, new.chunkOffset + j>>
  <2>1. j \in 0 .. ChunkSize - 1 /\ offset + ChunkSize <= BucketSize
    BY <1>1, <1>9, Zenon DEF Fits
  <2>2. offset + j \in Cell /\ (offset + j) - offset = j
    <3>1. offset \in Nat /\ j \in Nat /\ ChunkSize \in Nat /\ j < ChunkSize
      BY <1>2, <1>3, <2>1
    <3>2. BucketSize \in Nat /\ MaxSize \in Nat
      BY TransferConstants
    <3> QED BY <2>1, <3>1, <3>2 DEF Cell
  <2> QED BY <2>1, <2>2, <1>9, <1>10
<1>. DEFINE cells == memory'[b]
<1>. HIDE DEF cells
<1>17. InPlace(size, new, cells)
  BY <1>1, <1>12, <1>16 DEF InPlace, cells
<1>18. /\ Follow(size, Append(bucketMeta, new), NextCut, cells)
       /\ Place(Append(bucketMeta, new), 1, NextCut) = Place(bucketMeta, 1, cut)
  <2>1. \A k \in 1 .. Len(bucketMeta) : \A j \in 0 .. bucketMeta[k].chunkSize - 1 :
            cells[bucketMeta[k].offset + j] = memory[b][bucketMeta[k].offset + j]
    BY <1>15 DEF cells
  <2> QED BY <1>3, <1>7, <1>12, <1>13, <1>17, <2>1, FollowAppend
<1>19. /\ Follow(size, bucketMeta', NextCut, memory'[b])
       /\ Place(bucketMeta', 1, NextCut) = Place(bucketMeta, 1, cut)
  BY <1>8, <1>18 DEF cells
<1>20. Unsent' = Unsent
  BY <1>4, <1>19 DEF Unsent
<1>21. \A k \in 1 .. Len(bucketMeta') : bucketMeta'[k].offset + bucketMeta'[k].chunkSize <= offset'
  <2>1. TAKE k \in 1 .. Len(bucketMeta')
  <2>2. CASE k \in 1 .. Len(bucketMeta)
    BY <1>3, <1>7, <1>8, <1>13, <1>14, <2>2, <1>2, <1>4
  <2>3. CASE k = Len(bucketMeta) + 1
    BY <1>3, <1>7, <1>8, <1>9, <2>3, <1>2, <1>4
  <2> QED BY <1>3, <1>7, <1>8, <2>2, <2>3
<1>22. ASSUME broadcast # NoBroadcast
       PROVE  /\ broadcast.buffer # filling
              /\ memory'[<<Trainer, broadcast.buffer>>] = memory[<<Trainer, broadcast.buffer>>]
  <2>1. broadcast.buffer # filling
    BY <1>4, <1>22 DEF TrainerInv
  <2>2. <<Trainer, broadcast.buffer>> \in Buffer
    BY <1>3, <1>22, TransferConstants DEF Operations
  <2>3. <<Trainer, broadcast.buffer>> # b
    BY <2>1 DEF b
  <2> QED BY <2>1, <2>2, <2>3, <1>11
<1>23. TrainerInv'
  <2>1. PlaceOK(size', cut')
    BY <1>2, <1>4
  <2>2. Follow(size', bucketMeta', cut', memory'[<<Trainer, filling'>>])
    BY <1>4, <1>19 DEF b
  <2>3. broadcast' # NoBroadcast =>
          /\ broadcast'.buffer # filling' \/ sent'
          /\ broadcast'.metadata.isLast => sent'
          /\ broadcast'.metadata.valid
          /\ Follow(size', broadcast'.metadata.chunks, Unsent', memory'[<<Trainer, broadcast'.buffer>>])
    BY <1>4, <1>20, <1>22 DEF TrainerInv
  <2> QED BY <1>4, <1>21, <2>1, <2>2, <2>3 DEF TrainerInv
<1>24. \A c \in Buffer : c[1] # Trainer => memory'[c] = memory[c]
  BY <1>11 DEF b
<1> QED BY <1>20, <1>23, <1>24

\* What a rank has still to receive is not the Trainer's to change.
RouteStays(r) ==
    /\ Unreceived(r)' = Unreceived(r)
    /\ sent => sent' /\ (UnderWay(r)' => UnderWay(r))

LEMMA BroadcastKeepsTrainer ==
    ASSUME TransferTypeOK, TrainerInv, Broadcast \/ BroadcastLast
    PROVE  TrainerInv' /\ \A r \in Worker : RouteStays(r)
<1>1. /\ ~sent /\ broadcast = NoBroadcast /\ UNCHANGED <<size, memory, cut>>
      /\ Follow(size, bucketMeta, cut, memory[<<Trainer, filling>>])
  BY DEF Broadcast, BroadcastLast, MoreChunks, PreviousDone, TrainerInv
<1>2. PICK last \in BOOLEAN : broadcast' = Operation(last) /\ (last => sent')
  BY DEF Broadcast, BroadcastLast, LastBucket
<1>3. Operation(last) \in Operations
  <2>1. [chunks |-> bucketMeta, isLast |-> last, valid |-> TRUE] \in Metadata
    BY DEF Metadata, TransferTypeOK, TrainerTypeOK
  <2> QED BY <2>1 DEF Operation, Operations, TransferTypeOK, TrainerTypeOK
<1>4. /\ broadcast' # NoBroadcast /\ broadcast'.buffer = filling /\ broadcast'.left = Worker
      /\ broadcast'.metadata.chunks = bucketMeta /\ broadcast'.metadata.isLast = last
      /\ broadcast'.metadata.valid
  BY <1>2, <1>3, ViewsAreSomething DEF Operation
<1>5. Unsent' = cut
  <2>1. CASE Broadcast
    <3>1. bucketMeta' = <<>> /\ cut' = cut
      BY <2>1 DEF Broadcast
    <3> QED BY <3>1 DEF Unsent, Place
  <2>2. CASE BroadcastLast
    BY <2>2 DEF BroadcastLast, Unsent
  <2> QED BY <2>1, <2>2
<1>6. \A r \in Worker : RouteStays(r)
  BY <1>1, <1>4, <1>5 DEF RouteStays, Unreceived, UnderWay, Unsent
<1>7. PlaceOK(size', cut')
  BY <1>1 DEF TrainerInv
<1>8. IF sent' THEN ~MoreChunks'
      ELSE /\ Follow(size', bucketMeta', cut', memory'[<<Trainer, filling'>>])
           /\ \A k \in 1 .. Len(bucketMeta') :
                 bucketMeta'[k].offset + bucketMeta'[k].chunkSize <= offset'
  <2>1. CASE Broadcast
    <3>1. bucketMeta' = <<>> /\ Len(<<>>) = 0 /\ ~sent'
      BY <1>1, <2>1 DEF Broadcast
    <3>2. 1 .. Len(bucketMeta') = {}
      BY <3>1
    <3> QED BY <3>1, <3>2 DEF Follow
  <2>2. CASE BroadcastLast
    BY <2>2 DEF BroadcastLast, MoreChunks
  <2> QED BY <2>1, <2>2
<1>9. broadcast'.buffer # filling' \/ sent'
  BY <1>4, TransferConstants DEF Broadcast, BroadcastLast, TransferTypeOK, TrainerTypeOK
<1>10. Follow(size', broadcast'.metadata.chunks, Unsent', memory'[<<Trainer, broadcast'.buffer>>])
  BY <1>1, <1>4, <1>5
<1> QED BY <1>2, <1>4, <1>6, <1>7, <1>8, <1>9, <1>10 DEF TrainerInv

\* A step of a rank leaves the Trainer's buffers alone.
LEMMA TrainerUndisturbed ==
    ASSUME TransferTypeOK, TrainerInv,
           UNCHANGED <<size, cut, filling, bucketMeta, offset, sent>>,
           \A x \in {"a", "b"} : memory'[<<Trainer, x>>] = memory[<<Trainer, x>>],
           \/ broadcast' = broadcast \/ broadcast' = NoBroadcast
           \/ /\ broadcast # NoBroadcast
              /\ broadcast'.buffer = broadcast.buffer
              /\ broadcast'.metadata = broadcast.metadata
    PROVE  TrainerInv' /\ Unsent' = Unsent
<1>1. Unsent' = Unsent
  BY DEF Unsent
<1>2. filling \in {"a", "b"} /\ (broadcast # NoBroadcast => broadcast.buffer \in {"a", "b"})
  BY DEF TransferTypeOK, TrainerTypeOK, Operations
<1>3. memory'[<<Trainer, filling'>>] = memory[<<Trainer, filling>>]
  BY <1>2
<1>4. MoreChunks' = MoreChunks
  BY DEF MoreChunks
<1>5. broadcast' # NoBroadcast =>
          /\ broadcast # NoBroadcast
          /\ broadcast'.buffer = broadcast.buffer
          /\ broadcast'.metadata = broadcast.metadata
          /\ memory'[<<Trainer, broadcast'.buffer>>] = memory[<<Trainer, broadcast.buffer>>]
  BY <1>2
<1>6. broadcast' # NoBroadcast =>
          /\ broadcast'.buffer # filling' \/ sent'
          /\ broadcast'.metadata.isLast => sent'
          /\ broadcast'.metadata.valid
          /\ Follow(size', broadcast'.metadata.chunks, Unsent', memory'[<<Trainer, broadcast'.buffer>>])
  BY <1>1, <1>5 DEF TrainerInv
<1>7. PlaceOK(size', cut') /\
      IF sent' THEN ~MoreChunks'
      ELSE /\ Follow(size', bucketMeta', cut', memory'[<<Trainer, filling'>>])
           /\ \A k \in 1 .. Len(bucketMeta') :
                 bucketMeta'[k].offset + bucketMeta'[k].chunkSize <= offset'
  BY <1>3, <1>4 DEF TrainerInv
<1> QED BY <1>1, <1>6, <1>7 DEF TrainerInv

-----------------------------------------------------------------------------
(* Bytes to come                                                           *)

LEMMA ComingStays ==
    ASSUME NEW mem, NEW mem2, NEW copies, NEW b, NEW x, NEW byte,
           mem2[b] = mem[b],
           \A k \in 1 .. Len(copies) : mem2[copies[k].from] = mem[copies[k].from],
           Coming(mem, copies, b, x, byte)
    PROVE  Coming(mem2, copies, b, x, byte)
BY DEF Coming

LEMMA ComingViewStays ==
    ASSUME NEW sizes, NEW mem, NEW mem2, NEW copies, NEW v,
           mem2[v.buffer] = mem[v.buffer],
           \A k \in 1 .. Len(copies) : mem2[copies[k].from] = mem[copies[k].from],
           ComingView(sizes, mem, copies, v)
    PROVE  ComingView(sizes, mem2, copies, v)
BY ComingStays DEF ComingView

\* Steps that leave a rank's packing and the buffers it needs alone.
LEMMA PackingUndisturbed ==
    ASSUME NEW r \in Worker, PackInv(r),
           UNCHANGED size, Unpulled(r)' = Unpulled(r),
           \A b \in {Here(r), Ipc(r), Merge(r)} : memory'[b] = memory[b],
           UNCHANGED <<reading[r], held[r], stream[r], packed[r], packedSize[r], request[r]>>
    PROVE  PackInv(r)'
<1>1. Here(r)' = Here(r) /\ Ipc(r)' = Ipc(r) /\ Merge(r)' = Merge(r)
  BY DEF Here, Ipc, Merge
<1>2. \A k \in 1 .. Len(stream[r]) : memory'[stream[r][k].from] = memory[stream[r][k].from]
  BY DEF PackInv, CopiesInPlace
<1>3. ASSUME NEW v, v.buffer \in {Here(r), Ipc(r), Merge(r)},
             ComingView(size, memory, stream[r], v)
      PROVE  ComingView(size', memory', stream'[r], v)
  BY <1>2, <1>3, ComingViewStays
<1>4. CopiesInPlace(r)'
  <2>1. MergeInUse(r)' = MergeInUse(r)
    BY <1>1 DEF MergeInUse
  <2> QED BY <1>1, <2>1 DEF CopiesInPlace, PackInv
<1>5. PackedInPlace(r)'
  BY <1>1, <1>3 DEF PackedInPlace, PackInv
<1>6. HeldInPlace(r)'
  BY <1>1, <1>3 DEF HeldInPlace, PackInv
<1>7. RequestInPlace(r)'
  BY <1>1, <1>3 DEF RequestInPlace, PackInv
<1>8. MergedInPlace(r)'
  <2>1. \A x, byte : Coming(memory, stream[r], Merge(r), x, byte) =>
                     Coming(memory', stream'[r], Merge(r), x, byte)
    BY <1>2, ComingStays
  <2> QED BY <1>1, <2>1 DEF MergedInPlace, PackInv
<1> QED BY <1>4, <1>5, <1>6, <1>7, <1>8 DEF PackInv

LEMMA OrderUndisturbed ==
    ASSUME NEW r \in Worker, OrderInv(r), UNCHANGED size, Unpulled(r)' = Unpulled(r),
           UNCHANGED <<held[r], packed[r], request[r], finished[r], loaded[r]>>
    PROVE  OrderInv(r)'
<1>1. \A i : Exact(i)' = Exact(i)
  BY SizesStay
<1>2. InRequest(r)' = InRequest(r) /\ InPacked(r)' = InPacked(r) /\ InHand(r)' = InHand(r)
  BY DEF InRequest, InPacked, InHand
<1> QED BY <1>1, <1>2 DEF OrderInv

\* A rank that is left alone keeps its invariant.
LEMMA WorkerUndisturbed ==
    ASSUME NEW r \in Worker, WorkerInv(r), ReceiveTypeOK, RouteStays(r),
           UNCHANGED size,
           \A x \in {"a", "b", "ipc", "merge"} : memory'[<<r, x>>] = memory[<<r, x>>],
           UNCHANGED <<posted[r], arrived[r], reading[r], metadata[r], chunk[r], held[r],
                       stream[r], packed[r], packedSize[r], request[r], finished[r], loaded[r]>>
    PROVE  WorkerInv(r)'
<1>1. reading[r] \in {"a", "b"} /\ Other(reading[r]) \in {"a", "b"}
  BY TransferConstants DEF ReceiveTypeOK
<1>2. Untaken(r)' = Untaken(r) /\ Unpulled(r)' = Unpulled(r)
  BY DEF RouteStays, Untaken, Unpulled
<1>3. ReceiveInv(r)'
  <2>1. memory'[<<r, reading[r]>>] = memory[<<r, reading[r]>>]
        /\ memory'[<<r, Other(reading[r])>>] = memory[<<r, Other(reading[r])>>]
    BY <1>1
  <2> QED BY <2>1, <1>2 DEF ReceiveInv, WorkerInv, RouteStays
<1>4. PackInv(r)'
  <2>1. \A b \in {Here(r), Ipc(r), Merge(r)} : memory'[b] = memory[b]
    BY <1>1 DEF Here, Ipc, Merge
  <2> QED BY <1>2, <2>1, PackingUndisturbed DEF WorkerInv
<1>5. OrderInv(r)'
  BY <1>2, OrderUndisturbed DEF WorkerInv
<1> QED BY <1>3, <1>4, <1>5 DEF WorkerInv

-----------------------------------------------------------------------------
(* A rank receives                                                         *)

LEMMA DeliverKeeps ==
    ASSUME TransferInv, NEW r \in Worker, Deliver(r)
    PROVE  TrainerInv' /\ \A s \in Worker : WorkerInv(s)'
<1>. DEFINE into == <<r, posted[r]>>
<1>0. TransferTypeOK /\ TrainerInv /\ ReceiveTypeOK /\ \A s \in Worker : WorkerInv(s)
  BY DEF TransferInv, TransferTypeOK
<1>1. /\ broadcast \in Operations /\ broadcast # NoBroadcast /\ r \in broadcast.left
      /\ posted[r] = Other(reading[r]) /\ posted[r] \in {"a", "b"} /\ reading[r] \in {"a", "b"}
      /\ posted[r] # reading[r] /\ ~arrived[r].valid
  <2>1. reading[r] \in {"a", "b"} /\ posted[r] \in {"none", Other(reading[r])}
    BY <1>0 DEF WorkerInv, ReceiveInv, ReceiveTypeOK
  <2>2. arrived[r].valid => posted[r] = "none"
    BY <1>0 DEF WorkerInv, ReceiveInv
  <2> QED BY <1>0, <2>1, <2>2, TransferConstants DEF Deliver, TransferTypeOK, TrainerTypeOK
<1>2. /\ into \in Buffer
      /\ \A b \in Buffer : b # into => memory'[b] = memory[b]
      /\ memory'[into] = memory[<<Trainer, broadcast.buffer>>]
  <2>1. into \in Buffer
    BY <1>1, TransferConstants
  <2>2. DOMAIN memory = Buffer
    BY <1>0 DEF TransferTypeOK
  <2> QED BY <2>1, <2>2 DEF Deliver
<1>3. /\ UNCHANGED <<size, cut, filling, bucketMeta, offset, sent>>
      /\ \/ broadcast' = NoBroadcast /\ broadcast.left = {r}
         \/ /\ broadcast' \in Operations /\ broadcast' # NoBroadcast
            /\ broadcast'.buffer = broadcast.buffer /\ broadcast'.metadata = broadcast.metadata
            /\ broadcast'.left = broadcast.left \ {r}
  <2>1. CASE broadcast.left = {r}
    BY <2>1 DEF Deliver
  <2>2. CASE broadcast.left # {r}
    <3>1. broadcast' = [broadcast EXCEPT !.left = @ \ {r}]
      BY <2>2 DEF Deliver
    <3>2. broadcast' \in Operations
      BY <1>1, <3>1 DEF Operations
    <3> QED BY <1>1, <3>1, <3>2, ViewsAreSomething DEF Deliver, Operations
  <2> QED BY <2>1, <2>2
<1>4. TrainerInv' /\ Unsent' = Unsent
  <2>1. \A x \in {"a", "b"} : memory'[<<Trainer, x>>] = memory[<<Trainer, x>>]
    BY <1>2, TransferConstants
  <2> QED BY <1>0, <1>1, <1>3, <2>1, TrainerUndisturbed
<1>5. \A s \in Worker : s # r => RouteStays(s)
  BY <1>1, <1>3, <1>4 DEF RouteStays, Unreceived, UnderWay
<1>6. ~UnderWay(r)' /\ UnderWay(r) /\ Unreceived(r)' = Unsent
  BY <1>1, <1>3, <1>4 DEF Unreceived, UnderWay
<1>7. ASSUME NEW s \in Worker, s # r PROVE WorkerInv(s)'
  <2>1. \A x \in {"a", "b", "ipc", "merge"} : memory'[<<s, x>>] = memory[<<s, x>>]
    BY <1>2, <1>7, TransferConstants
  <2>2. UNCHANGED <<posted[s], arrived[s], reading[s], metadata[s], chunk[s], held[s],
                    stream[s], packed[s], packedSize[s], request[s], finished[s], loaded[s]>>
    BY <1>0, <1>7 DEF Deliver, ReceiveTypeOK, packVars
  <2> QED BY <1>0, <1>3, <1>5, <1>7, <2>1, <2>2, WorkerUndisturbed
<1>8. /\ posted'[r] = "none" /\ arrived'[r] = broadcast.metadata
      /\ UNCHANGED <<reading[r], metadata[r], chunk[r], held[r], stream[r], packed[r],
                     packedSize[r], request[r], finished[r], loaded[r]>>
  BY <1>0 DEF Deliver, ReceiveTypeOK, packVars
<1>9. /\ broadcast.metadata.valid
      /\ Follow(size, broadcast.metadata.chunks, Unsent, memory[<<Trainer, broadcast.buffer>>])
      /\ broadcast.metadata.isLast => sent
  BY <1>0, <1>1 DEF TrainerInv
<1>10. Untaken(r)' = Untaken(r) /\ Unpulled(r)' = Unpulled(r)
  <2>1. Untaken(r)' = Untaken(r)
    BY <1>1, <1>6, <1>8, <1>9 DEF Untaken, Unreceived
  <2> QED BY <1>8, <2>1 DEF Unpulled
<1>11. \A b \in {Here(r), Ipc(r), Merge(r)} : b \in Buffer /\ b # into
  <2>1. Here(r) \in Buffer /\ Ipc(r) \in Buffer /\ Merge(r) \in Buffer
    BY <1>1, TransferConstants DEF Here, Ipc, Merge
  <2>2. \A x \in {reading[r], "ipc", "merge"} : <<r, x>> # <<r, posted[r]>>
    BY <1>1
  <2> QED BY <2>1, <2>2 DEF Here, Ipc, Merge
<1>12. ReceiveInv(r)'
  <2>1. Follow(size', arrived'[r].chunks, Unreceived(r)', memory'[<<r, Other(reading'[r])>>])
    BY <1>1, <1>2, <1>3, <1>6, <1>8, <1>9
  <2>2. Follow(size', metadata'[r].chunks, Untaken(r)', memory'[<<r, reading'[r]>>])
    <3>1. Follow(size, metadata[r].chunks, Untaken(r), memory[<<r, reading[r]>>])
      BY <1>0 DEF WorkerInv, ReceiveInv
    <3>2. memory'[<<r, reading[r]>>] = memory[<<r, reading[r]>>]
      BY <1>2, <1>11 DEF Here
    <3> QED BY <1>3, <1>8, <1>10, <3>1, <3>2
  <2>3. ~metadata'[r].isLast
    BY <1>0, <1>6, <1>8 DEF WorkerInv, ReceiveInv
  <2> QED BY <1>3, <1>6, <1>8, <1>9, <2>1, <2>2, <2>3 DEF ReceiveInv
<1>13. PackInv(r)'
  BY <1>0, <1>2, <1>3, <1>8, <1>10, <1>11, PackingUndisturbed DEF WorkerInv
<1>14. OrderInv(r)'
  BY <1>0, <1>3, <1>8, <1>10, OrderUndisturbed DEF WorkerInv
<1> QED BY <1>4, <1>7, <1>12, <1>13, <1>14 DEF WorkerInv

\* What a rank pulls next is a place in a weight.
LEMMA UnpulledInWeight ==
    ASSUME TransferInv, NEW r \in Worker
    PROVE  /\ PlaceOK(size, Unpulled(r))
           /\ Unpulled(r) \in (1 .. NumWeights + 1) \X Nat
           /\ 0 .. Unpulled(r)[2] - 1 \subseteq Cell
<1>. DEFINE Fine(p) == PlaceOK(size, p) /\ p \in (1 .. NumWeights + 1) \X Nat
<1>0. TransferTypeOK /\ TrainerInv /\ TrainerTypeOK /\ ReceiveTypeOK /\ ReceiveInv(r)
  BY Parts, Zenon
<1>1. ASSUME NEW chunks \in Seq(Chunk), NEW next, NEW cells, NEW k \in Nat \ {0},
             Follow(size, chunks, next, cells), Fine(next)
      PROVE  Fine(Place(chunks, k, next))
  <2>1. CASE k <= Len(chunks)
    <3>1. k \in 1 .. Len(chunks)
      BY <2>1
    <3>2. chunks[k] \in Chunk /\ PlaceOK(size, Begins(chunks[k]))
      BY <1>1, <3>1 DEF Follow, InPlace
    <3>3. Begins(chunks[k]) \in (1 .. NumWeights + 1) \X Nat
      BY <3>2, TransferConstants DEF Begins, Chunk, Weight
    <3> QED BY <2>1, <3>2, <3>3 DEF Place
  <2>2. CASE ~(k <= Len(chunks))
    BY <1>1, <2>2 DEF Place
  <2> QED BY <2>1, <2>2
<1>2. Fine(cut)
  BY <1>0 DEF TrainerInv, TrainerTypeOK
<1>. HIDE DEF Fine
<1>3. Fine(Unsent)
  <2>1. ~sent => Follow(size, bucketMeta, cut, memory[<<Trainer, filling>>])
    BY <1>0 DEF TrainerInv
  <2>2. bucketMeta \in Seq(Chunk)
    BY <1>0 DEF TrainerTypeOK
  <2> QED BY <1>1, <1>2, <2>1, <2>2 DEF Unsent
<1>4. Fine(Unreceived(r))
  <2>1. broadcast # NoBroadcast => broadcast.metadata.chunks \in Seq(Chunk)
    BY <1>0 DEF TrainerTypeOK, Operations, Metadata
  <2>2. broadcast # NoBroadcast =>
          Follow(size, broadcast.metadata.chunks, Unsent, memory[<<Trainer, broadcast.buffer>>])
    BY <1>0 DEF TrainerInv
  <2> QED BY <1>1, <1>3, <2>1, <2>2 DEF Unreceived, UnderWay
<1>5. arrived[r].chunks \in Seq(Chunk) /\ metadata[r].chunks \in Seq(Chunk) /\ chunk[r] \in Nat \ {0}
  BY <1>0 DEF ReceiveTypeOK, Metadata
<1>6. Fine(Untaken(r))
  <2>1. arrived[r].valid =>
          Follow(size, arrived[r].chunks, Unreceived(r), memory[<<r, Other(reading[r])>>])
    BY <1>0 DEF ReceiveInv
  <2> QED BY <1>1, <1>4, <1>5, <2>1 DEF Untaken
<1>7. Fine(Unpulled(r))
  <2>1. Follow(size, metadata[r].chunks, Untaken(r), memory[<<r, reading[r]>>])
    BY <1>0 DEF ReceiveInv
  <2> QED BY <1>1, <1>5, <1>6, <2>1 DEF Unpulled
<1>8. 0 .. Unpulled(r)[2] - 1 \subseteq Cell
  <2>1. Unpulled(r)[1] \in 1 .. NumWeights + 1 /\ Unpulled(r)[2] \in Nat
    BY <1>7 DEF Fine
  <2>2. CASE Unpulled(r)[1] <= NumWeights
    <3>1. size[Unpulled(r)[1]] \in 1 .. MaxSize
      <4>1. Unpulled(r)[1] \in Weight
        BY <2>1, <2>2, TransferConstants DEF Weight
      <4> QED BY <1>0, <4>1, Zenon DEF TransferTypeOK
    <3>2. Unpulled(r)[2] < size[Unpulled(r)[1]]
      BY <1>7, <2>2 DEF Fine, PlaceOK
    <3> QED BY <2>1, <3>1, <3>2, TransferConstants DEF Cell
  <2>3. CASE Unpulled(r)[1] > NumWeights
    <3>1. Unpulled(r)[2] = 0
      BY <1>7, <2>3 DEF Fine, PlaceOK
    <3> QED BY <3>1, TransferConstants DEF Cell
  <2> QED BY <2>1, <2>2, <2>3, TransferConstants
<1> QED BY <1>7, <1>8 DEF Fine

\* A rank's own steps disturb nobody else.
LEMMA OwnStep ==
    ASSUME TransferInv, NEW r \in Worker, Works(r) \/ RunCopy(r) \/ LoadBucket(r)
    PROVE  /\ TrainerInv' /\ UNCHANGED <<size, sent>>
           /\ Unreceived(r)' = Unreceived(r) /\ UnderWay(r)' = UnderWay(r)
           /\ \A s \in Worker : s # r => WorkerInv(s)'
<1>0. TransferTypeOK /\ TrainerInv /\ ReceiveTypeOK /\ PackTypeOK /\ \A s \in Worker : WorkerInv(s)
  BY Parts, Zenon
<1>1. UNCHANGED <<size, cut, filling, bucketMeta, offset, sent, broadcast>>
  BY Zenon DEF Works, TakeBucket, PullChunk, Pack, SendBucket, SendLarge, SendLast, RunCopy,
               LoadBucket, trainerVars
<1>2. \A b \in Buffer : b \notin {Ipc(r), Merge(r)} => memory'[b] = memory[b]
  <2>1. CASE RunCopy(r)
    <3>1. CopiesInPlace(r)
      BY <1>0 DEF WorkerInv, PackInv
    <3>. DEFINE c == Head(stream[r])
    <3>2. /\ c.to \in {Ipc(r), Merge(r)}
          /\ memory' = [memory EXCEPT ![c.to] = Written(@, c.into, HeadBytes(r))]
      BY <1>0, <2>1, <3>1, RunCopyFacts, Zenon
    <3>. HIDE DEF c
    <3>3. DOMAIN memory = Buffer
      BY <1>0 DEF TransferTypeOK
    <3> QED BY <3>2, <3>3
  <2>2. CASE ~RunCopy(r)
    <3>1. memory' = memory
      BY <2>2, Zenon DEF Works, TakeBucket, PullChunk, Pack, SendBucket, SendLarge, SendLast,
                         LoadBucket
    <3> QED BY <3>1, Zenon
  <2> QED BY <2>1, <2>2
<1>3. TrainerInv' /\ Unsent' = Unsent
  <2>1. \A x \in {"a", "b"} : memory'[<<Trainer, x>>] = memory[<<Trainer, x>>]
    BY <1>2, TransferConstants DEF Ipc, Merge
  <2> QED BY <1>0, <1>1, <2>1, TrainerUndisturbed
<1>4. \A s \in Worker : Unreceived(s)' = Unreceived(s) /\ UnderWay(s)' = UnderWay(s)
  BY <1>1, <1>3 DEF Unreceived, UnderWay
<1>5. ASSUME NEW s \in Worker, s # r PROVE WorkerInv(s)'
  <2>1. \A x \in {"a", "b", "ipc", "merge"} : memory'[<<s, x>>] = memory[<<s, x>>]
    BY <1>2, <1>5, TransferConstants DEF Ipc, Merge
  <2>2. UNCHANGED <<posted[s], arrived[s], reading[s], metadata[s], chunk[s]>>
    <3>1. CASE TakeBucket(r)
      BY <1>0, <1>5, <3>1 DEF TakeBucket, ReceiveTypeOK
    <3>2. CASE PullChunk(r)
      BY <1>0, <1>5, <3>2 DEF PullChunk, ReceiveTypeOK
    <3>3. CASE ~TakeBucket(r) /\ ~PullChunk(r)
      BY <3>3, Zenon DEF Works, Pack, SendBucket, SendLarge, SendLast, RunCopy, LoadBucket,
                         receiveVars
    <3> QED BY <3>1, <3>2, <3>3
  <2>3. UNCHANGED <<held[s], packed[s], packedSize[s], request[s], finished[s]>>
    <3>1. CASE TakeBucket(r) \/ RunCopy(r)
      BY <3>1, Zenon DEF TakeBucket, RunCopy, packVars
    <3>2. CASE PullChunk(r)
      BY <1>0, <1>5, <3>2 DEF PullChunk, PackTypeOK
    <3>3. CASE Pack(r)
      BY <1>0, <1>5, <3>3 DEF Pack, PackTypeOK
    <3>4. CASE SendBucket(r)
      BY <1>0, <1>5, <3>4 DEF SendBucket, PackTypeOK
    <3>5. CASE SendLarge(r)
      BY <1>0, <1>5, <3>5 DEF SendLarge, PackTypeOK
    <3>6. CASE SendLast(r)
      BY <1>0, <1>5, <3>6 DEF SendLast, PackTypeOK
    <3>7. CASE LoadBucket(r)
      BY <1>0, <1>5, <3>7 DEF LoadBucket, PackTypeOK
    <3> QED BY <3>1, <3>2, <3>3, <3>4, <3>5, <3>6, <3>7, Zenon DEF Works
  <2>4. UNCHANGED <<stream[s], loaded[s]>>
    BY <1>0, <1>5, Zenon DEF Works, TakeBucket, PullChunk, Pack, SendBucket, SendLarge, SendLast,
       RunCopy, LoadBucket, TransferTypeOK
  <2>5. RouteStays(s)
    BY <1>1, <1>4 DEF RouteStays
  <2> QED BY <1>0, <1>1, <1>5, <2>1, <2>2, <2>3, <2>4, <2>5, WorkerUndisturbed
<1> QED BY <1>1, <1>3, <1>4, <1>5

LEMMA TakeKeeps ==
    ASSUME TransferInv, NEW r \in Worker, TakeBucket(r)
    PROVE  WorkerInv(r)'
<1>0. TransferTypeOK /\ ReceiveTypeOK /\ PackTypeOK /\ WorkerInv(r) /\ ReceiveInv(r)
      /\ PackInv(r) /\ OrderInv(r)
  BY Parts, Zenon
<1>1. /\ UNCHANGED <<size, sent, memory>> /\ Unreceived(r)' = Unreceived(r)
      /\ UnderWay(r)' = UnderWay(r)
  BY OwnStep DEF Works, TakeBucket
<1>2. /\ held[r] = Nothing /\ stream[r] = <<>> /\ ~request[r].valid
      /\ BucketRead(r) /\ arrived[r].valid
  BY DEF TakeBucket, Running, Synchronized
<1>3. /\ metadata'[r] = arrived[r] /\ arrived'[r] = NoMetadata
      /\ reading'[r] = Other(reading[r]) /\ chunk'[r] = 1
      /\ posted'[r] = IF arrived[r].isLast THEN "none" ELSE reading[r]
      /\ UNCHANGED <<held[r], stream[r], packed[r], packedSize[r], request[r], finished[r], loaded[r]>>
  BY <1>0 DEF TakeBucket, ReceiveTypeOK, packVars
<1>4. reading[r] \in {"a", "b"} /\ Other(Other(reading[r])) = reading[r]
  BY <1>0, TransferConstants DEF ReceiveTypeOK
<1>5. ~arrived'[r].valid
  BY <1>3 DEF NoMetadata
<1>6. Untaken(r)' = Unreceived(r)
  BY <1>1, <1>5 DEF Untaken
<1>7. Unpulled(r) = Untaken(r) /\ Unpulled(r)' = Untaken(r)
  <2>1. arrived[r].chunks \in Seq(Chunk) /\ metadata[r].chunks \in Seq(Chunk) /\ chunk[r] \in Nat
    BY <1>0 DEF ReceiveTypeOK, Metadata
  <2>2. Unpulled(r) = Untaken(r)
    BY <1>2, <2>1 DEF Unpulled, Place, BucketRead
  <2>3. Unpulled(r)' = Place(arrived[r].chunks, 1, Unreceived(r))
    BY <1>3, <1>6 DEF Unpulled
  <2> QED BY <1>2, <2>2, <2>3 DEF Untaken
<1>8. ReceiveInv(r)'
  <2>1. /\ Follow(size, arrived[r].chunks, Unreceived(r), memory[<<r, Other(reading[r])>>])
        /\ arrived[r].isLast => sent /\ ~UnderWay(r)
    BY <1>0, <1>2 DEF ReceiveInv
  <2>2. Follow(size', metadata'[r].chunks, Untaken(r)', memory'[<<r, reading'[r]>>])
    BY <1>1, <1>3, <1>6, <2>1
  <2> QED BY <1>1, <1>3, <1>4, <1>5, <2>1, <2>2 DEF ReceiveInv
<1>9. PackInv(r)'
  <2>1. Len(stream'[r]) = 0 /\ stream'[r] = stream[r]
    BY <1>2, <1>3
  <2>2. CopiesInPlace(r)'
    BY <2>1 DEF CopiesInPlace
  <2>3. PackedInPlace(r)' /\ MergedInPlace(r)'
    BY <1>0, <1>1, <1>3, <1>7 DEF PackInv, PackedInPlace, MergedInPlace, Ipc, Merge
  <2>4. HeldInPlace(r)'
    BY <1>2, <1>3 DEF HeldInPlace
  <2>5. RequestInPlace(r)'
    <3>1. request'[r].weights = <<>> /\ Len(<<>>) = 0
      BY <1>0, <1>2, <1>3 DEF OrderInv
    <3> QED BY <3>1 DEF RequestInPlace
  <2> QED BY <2>2, <2>3, <2>4, <2>5 DEF PackInv
<1>10. OrderInv(r)'
  BY <1>0, <1>1, <1>3, <1>7, OrderUndisturbed
<1> QED BY <1>8, <1>9, <1>10 DEF WorkerInv

-----------------------------------------------------------------------------
(* A copy is made                                                          *)

LEMMA ComingAfterCopy ==
    ASSUME NEW mem, NEW mem2, NEW copies \in Seq(Copies), copies # <<>>, NEW here,
           \A k \in 1 .. Len(copies) : copies[k].from = here,
           copies[1].to # here,
           \A b : b # copies[1].to => mem2[b] = mem[b],
           \A x \in Cell : mem2[copies[1].to][x] =
               IF x - copies[1].into \in 0 .. copies[1].size - 1
               THEN mem[here][copies[1].at + (x - copies[1].into)] ELSE mem[copies[1].to][x],
           NEW b, NEW x \in Cell, NEW byte, Coming(mem, copies, b, x, byte)
    PROVE  Coming(mem2, Tail(copies), b, x, byte)
<1>. DEFINE rest == Tail(copies)
<1>1. /\ Len(copies) \in Nat \ {0} /\ Len(rest) = Len(copies) - 1
      /\ \A k \in 1 .. Len(rest) : rest[k] = copies[k + 1] /\ k + 1 \in 1 .. Len(copies)
      /\ 1 \in 1 .. Len(copies)
  OBVIOUS
<1>. HIDE DEF rest
<1>2. mem2[here] = mem[here]
  OBVIOUS
<1>3. ASSUME NEW k \in 1 .. Len(rest), Writes(rest[k], b, x)
      PROVE  mem2[rest[k].from][rest[k].at + (x - rest[k].into)] = byte
  BY <1>1, <1>2, <1>3 DEF Coming
<1>4. mem2[b][x] = byte \/ \E k \in 1 .. Len(rest) : Writes(rest[k], b, x)
  <2>1. CASE Writes(copies[1], b, x)
    <3>1. mem[here][copies[1].at + (x - copies[1].into)] = byte
      BY <1>1, <2>1 DEF Coming
    <3> QED BY <2>1, <3>1 DEF Writes
  <2>2. CASE ~Writes(copies[1], b, x)
    <3>1. mem2[b][x] = mem[b][x]
      BY <2>2 DEF Writes
    <3>2. CASE mem[b][x] = byte
      BY <3>1, <3>2
    <3>3. CASE \E k \in 1 .. Len(copies) : Writes(copies[k], b, x)
      <4>1. PICK k \in 1 .. Len(copies) : Writes(copies[k], b, x)
        BY <3>3
      <4>2. k # 1
        BY <2>2, <4>1
      <4>3. k - 1 \in 1 .. Len(rest) /\ rest[k - 1] = copies[k]
        BY <1>1, <4>2
      <4> QED BY <4>1, <4>3
    <3> QED BY <3>2, <3>3 DEF Coming
  <2> QED BY <2>1, <2>2
<1> QED BY <1>3, <1>4 DEF Coming, rest

LEMMA RunCopyKeeps ==
    ASSUME TransferInv, NEW r \in Worker, RunCopy(r)
    PROVE  WorkerInv(r)'
<1>0. TransferTypeOK /\ ReceiveTypeOK /\ PackTypeOK /\ WorkerInv(r) /\ ReceiveInv(r)
      /\ PackInv(r) /\ OrderInv(r) /\ CopiesInPlace(r)
  BY Parts, Zenon DEF PackInv
<1>1. /\ UNCHANGED <<size, sent>> /\ Unreceived(r)' = Unreceived(r)
      /\ UnderWay(r)' = UnderWay(r)
  BY OwnStep
<1>2. /\ UNCHANGED <<posted, arrived, reading, metadata, chunk, held, packed, packedSize,
                     request, finished, loaded>>
      /\ stream[r] # <<>> /\ stream'[r] = Tail(stream[r]) /\ stream[r] \in Seq(Copies)
  BY <1>0 DEF RunCopy, receiveVars, packVars, TransferTypeOK
<1>3. Untaken(r)' = Untaken(r) /\ Unpulled(r)' = Unpulled(r)
  BY <1>1, <1>2 DEF Untaken, Unpulled
<1>4. Here(r)' = Here(r) /\ Ipc(r)' = Ipc(r) /\ Merge(r)' = Merge(r)
  BY <1>2 DEF Here, Ipc, Merge
<1>5. reading[r] \in {"a", "b"} /\ Other(reading[r]) \in {"a", "b"}
  BY <1>0, TransferConstants DEF ReceiveTypeOK
<1>. DEFINE c == Head(stream[r])
<1>6. /\ c = stream[r][1] /\ c.from = Here(r) /\ c.to \in {Ipc(r), Merge(r)}
      /\ c.into \in Nat /\ c.size \in Nat /\ c.at \in Nat /\ c.to \in Buffer
      /\ HeadBytes(r) \in [0 .. c.size - 1 -> Byte]
      /\ memory' = [memory EXCEPT ![c.to] = Written(@, c.into, HeadBytes(r))]
  BY <1>0, RunCopyFacts DEF Copies
<1>7. \A i \in 0 .. c.size - 1 : HeadBytes(r)[i] = memory[Here(r)][c.at + i]
  BY <1>6 DEF HeadBytes
<1>. HIDE DEF c
<1>8. memory[c.to] \in [Cell -> Byte] /\ DOMAIN memory = Buffer
  BY <1>0, <1>6 DEF TransferTypeOK
<1>9. \A b : b # c.to => memory'[b] = memory[b]
  BY <1>6, <1>8
<1>10. \A x \in Cell : memory'[c.to][x] =
           IF x - c.into \in 0 .. c.size - 1
           THEN memory[Here(r)][c.at + (x - c.into)] ELSE memory[c.to][x]
  <2>1. memory'[c.to] = Written(memory[c.to], c.into, HeadBytes(r))
    BY <1>6, <1>8
  <2>2. \A x \in Cell : Written(memory[c.to], c.into, HeadBytes(r))[x] =
            IF x - c.into \in 0 .. c.size - 1 THEN HeadBytes(r)[x - c.into] ELSE memory[c.to][x]
    <3>1. memory[c.to] \in [Cell -> Byte] /\ c.into \in Nat /\ c.size \in Nat
          /\ HeadBytes(r) \in [0 .. c.size - 1 -> Byte]
      BY <1>6, <1>8
    <3> HIDE DEF HeadBytes
    <3> QED BY <3>1, WrittenCells
  <2> QED BY <1>7, <2>1, <2>2
<1>11. c.to # Here(r) /\ c.to # <<r, Other(reading[r])>>
  BY <1>5, <1>6 DEF Here, Ipc, Merge
<1>12. \A b, byte : \A x \in Cell :
           Coming(memory, stream[r], b, x, byte) => Coming(memory', stream'[r], b, x, byte)
  <2>1. \A k \in 1 .. Len(stream[r]) : stream[r][k].from = Here(r)
    BY <1>0 DEF CopiesInPlace
  <2>2. stream[r][1].to # Here(r) /\ c = stream[r][1]
    BY <1>6, <1>11
  <2>3. ASSUME NEW b, NEW byte, NEW x \in Cell, Coming(memory, stream[r], b, x, byte)
        PROVE  Coming(memory', Tail(stream[r]), b, x, byte)
    <3>1. \A d : d # stream[r][1].to => memory'[d] = memory[d]
      BY <1>9, <2>2, Zenon
    <3>2. \A y \in Cell : memory'[stream[r][1].to][y] =
              IF y - stream[r][1].into \in 0 .. stream[r][1].size - 1
              THEN memory[Here(r)][stream[r][1].at + (y - stream[r][1].into)]
              ELSE memory[stream[r][1].to][y]
      BY <1>10, <2>2, Zenon
    <3> QED BY <1>2, <2>1, <2>2, <2>3, <3>1, <3>2, ComingAfterCopy, Zenon
  <2> QED BY <1>2, <2>3
<1>13. ASSUME NEW v \in Views, v.at + size[v.weight] <= BucketSize + MaxSize,
              ComingView(size, memory, stream[r], v)
       PROVE  ComingView(size', memory', stream'[r], v)
  <2>1. v.at \in Nat /\ size[v.weight] \in Nat
    BY <1>0, TransferConstants DEF Views, TransferTypeOK
  <2>2. \A j \in 0 .. size[v.weight] - 1 : v.at + j \in Cell
    BY <1>13, <2>1, TransferConstants DEF Cell
  <2> QED BY <1>1, <1>12, <1>13, <2>2 DEF ComingView
<1>14. ReceiveInv(r)'
  <2>1. memory'[<<r, reading[r]>>] = memory[<<r, reading[r]>>]
        /\ memory'[<<r, Other(reading[r])>>] = memory[<<r, Other(reading[r])>>]
    BY <1>9, <1>11 DEF Here
  <2> QED BY <1>0, <1>1, <1>2, <1>3, <2>1 DEF ReceiveInv
<1>15. CopiesInPlace(r)'
  <2>1. \A k \in 1 .. Len(stream'[r]) :
            k + 1 \in 1 .. Len(stream[r]) /\ stream'[r][k] = stream[r][k + 1]
    BY <1>2
  <2>2. MergeInUse(r)' = MergeInUse(r)
    BY <1>2, <1>4 DEF MergeInUse
  <2> QED BY <1>0, <1>2, <1>3, <1>4, <2>1, <2>2 DEF CopiesInPlace
<1>16. PackedInPlace(r)'
  <2>1. ASSUME NEW i \in 1 .. Len(packed[r])
        PROVE  ComingView(size', memory', stream'[r], packed[r][i])
    <3>1. /\ packed[r][i] \in Views /\ ComingView(size, memory, stream[r], packed[r][i])
          /\ packed[r][i].at + size[packed[r][i].weight] <= packedSize[r]
          /\ packedSize[r] <= BucketSize /\ packedSize[r] \in Nat
      BY <1>0 DEF PackTypeOK, PackInv, PackedInPlace
    <3>2. packed[r][i].at \in Nat /\ size[packed[r][i].weight] \in Nat
      <4>1. packed[r][i].at \in Nat /\ packed[r][i].weight \in Weight
        BY <3>1 DEF Views
      <4>2. size[packed[r][i].weight] \in 1 .. MaxSize
        BY <1>0, <4>1, Zenon DEF TransferTypeOK
      <4> QED BY <4>1, <4>2, TransferConstants
    <3>3. packed[r][i].at + size[packed[r][i].weight] <= BucketSize + MaxSize
      BY <3>1, <3>2, TransferConstants
    <3> QED BY <1>13, <3>1, <3>3, Zenon
  <2> QED BY <1>0, <1>1, <1>2, <1>4, <2>1 DEF PackInv, PackedInPlace
<1>17. HeldInPlace(r)'
  <2>1. ASSUME held[r] # Nothing
        PROVE  ComingView(size', memory', stream'[r], held[r])
    <3>1. held[r] \in Views
      BY <1>0, <2>1 DEF PackTypeOK
    <3>2. held[r].at \in Nat /\ size[held[r].weight] \in 1 .. MaxSize
      BY <1>0, <3>1 DEF Views, TransferTypeOK
    <3>3. held[r].at + size[held[r].weight] <= BucketSize + MaxSize
      <4>1. held[r].at + size[held[r].weight] <= BucketSize \/ held[r].at = 0
        BY <1>0, <2>1, Zenon DEF PackInv, HeldInPlace
      <4> QED BY <3>2, <4>1, TransferConstants
    <3> QED BY <1>0, <1>13, <2>1, <3>1, <3>3 DEF PackInv, HeldInPlace
  <2> QED BY <1>0, <1>1, <1>2, <1>3, <1>4, <2>1 DEF PackInv, HeldInPlace
<1>18. RequestInPlace(r)'
  <2>1. ASSUME NEW i \in 1 .. Len(request[r].weights)
        PROVE  ComingView(size', memory', stream'[r], request[r].weights[i])
    <3>1. request[r].weights \in Seq(Views)
      BY <1>0 DEF PackTypeOK, Requests
    <3> QED BY <1>0, <1>13, <3>1 DEF PackInv, RequestInPlace
  <2> QED BY <1>0, <1>1, <1>2, <1>4, <2>1 DEF PackInv, RequestInPlace
<1>19. MergedInPlace(r)'
  <2>1. 0 .. Unpulled(r)[2] - 1 \subseteq Cell
    BY <1>0, UnpulledInWeight
  <2> QED BY <1>0, <1>3, <1>4, <1>12, <2>1 DEF PackInv, MergedInPlace
<1>20. OrderInv(r)'
  BY <1>0, <1>1, <1>2, <1>3, OrderUndisturbed
<1> QED BY <1>14, <1>15, <1>16, <1>17, <1>18, <1>19, <1>20 DEF WorkerInv, PackInv

-----------------------------------------------------------------------------
(* A rank pulls a chunk                                                    *)

LEMMA ComingAppend ==
    ASSUME NEW mem, NEW copies \in Seq(Copies), NEW q \in Copies, NEW b, NEW x, NEW byte,
           \/ Coming(mem, copies, b, x, byte) /\ ~Writes(q, b, x)
           \/ /\ \A k \in 1 .. Len(copies) : ~Writes(copies[k], b, x)
              /\ Writes(q, b, x) /\ mem[q.from][q.at + (x - q.into)] = byte
    PROVE  Coming(mem, Append(copies, q), b, x, byte)
<1>. DEFINE more == Append(copies, q)
<1>1. /\ Len(copies) \in Nat /\ Len(more) = Len(copies) + 1
      /\ \A k \in 1 .. Len(copies) : more[k] = copies[k]
      /\ more[Len(copies) + 1] = q
  OBVIOUS
<1>. HIDE DEF more
<1>2. \A k \in 1 .. Len(more) : k \in 1 .. Len(copies) \/ k = Len(copies) + 1
  <2>1. \A m \in Nat : \A k \in 1 .. m + 1 : k \in 1 .. m \/ k = m + 1
    OBVIOUS
  <2> QED BY <1>1, <2>1, Zenon
<1>3. \A k \in 1 .. Len(copies) : k \in 1 .. Len(more)
  <2>1. \A m \in Nat : \A k \in 1 .. m : k \in 1 .. m + 1
    OBVIOUS
  <2> QED BY <1>1, <2>1, Zenon
<1>4. Len(copies) + 1 \in 1 .. Len(more)
  <2>1. \A m \in Nat : m + 1 \in 1 .. m + 1
    OBVIOUS
  <2> QED BY <1>1, <2>1, Zenon
<1>5. CASE Coming(mem, copies, b, x, byte) /\ ~Writes(q, b, x)
  <2>1. mem[b][x] = byte \/ \E k \in 1 .. Len(more) : Writes(more[k], b, x)
    BY <1>1, <1>3, <1>5 DEF Coming
  <2>2. \A k \in 1 .. Len(more) : Writes(more[k], b, x) =>
            mem[more[k].from][more[k].at + (x - more[k].into)] = byte
    BY <1>1, <1>2, <1>5 DEF Coming
  <2> QED BY <2>1, <2>2 DEF Coming, more
<1>6. CASE /\ \A k \in 1 .. Len(copies) : ~Writes(copies[k], b, x)
           /\ Writes(q, b, x) /\ mem[q.from][q.at + (x - q.into)] = byte
  <2>1. \E k \in 1 .. Len(more) : Writes(more[k], b, x)
    BY <1>1, <1>4, <1>6
  <2>2. ASSUME NEW k \in 1 .. Len(more), Writes(more[k], b, x)
        PROVE  mem[more[k].from][more[k].at + (x - more[k].into)] = byte
    <3>1. k = Len(copies) + 1
      BY <1>1, <1>2, <1>6, <2>2, Zenon
    <3> QED BY <1>1, <1>6, <3>1, Zenon
  <2> QED BY <2>1, <2>2, Zenon DEF Coming, more
<1> QED BY <1>5, <1>6

\* The chunk a rank pulls, and where it leaves off.
LEMMA PullFacts ==
    ASSUME TransferInv, NEW r \in Worker, PullChunk(r),
           NEW c, c = metadata[r].chunks[chunk[r]]
    PROVE  /\ c \in Chunk /\ c.weight \in Weight /\ c.offset \in Nat /\ c.chunkOffset \in Nat
           /\ c.chunkSize \in Nat /\ size[c.weight] \in 1 .. MaxSize
           /\ InPlace(size, c, memory[Here(r)])
           /\ Unpulled(r) = Begins(c) /\ Unpulled(r)' = Ends(size, c)
           /\ Untaken(r)' = Untaken(r)
           /\ c.chunkOffset + c.chunkSize <= size[c.weight]
           /\ size[c.weight] <= BucketSize => c.chunkOffset = 0 /\ c.chunkSize = size[c.weight]
           /\ \A k \in 1 .. Len(stream[r]) :
                 stream[r][k].to = Merge(r) =>
                     stream[r][k].into + stream[r][k].size <= c.chunkOffset
<1>0. TransferTypeOK /\ ReceiveTypeOK /\ PackTypeOK /\ WorkerInv(r) /\ ReceiveInv(r)
      /\ PackInv(r) /\ OrderInv(r)
  BY Parts, Zenon
<1>1. /\ UNCHANGED size /\ Unreceived(r)' = Unreceived(r)
      /\ UNCHANGED <<arrived, metadata>> /\ chunk'[r] = chunk[r] + 1
      /\ held[r] = Nothing /\ ~request[r].valid /\ ~BucketRead(r)
  BY <1>0, OwnStep DEF Works, PullChunk, ReceiveTypeOK, Running
<1>2. /\ metadata[r].chunks \in Seq(Chunk) /\ chunk[r] \in 1 .. Len(metadata[r].chunks)
      /\ chunk[r] \in Nat
  <2>1. metadata[r].chunks \in Seq(Chunk) /\ chunk[r] \in Nat \ {0}
    BY <1>0 DEF ReceiveTypeOK, Metadata
  <2> QED BY <1>1, <2>1 DEF BucketRead
<1>3. c \in Chunk
  BY <1>2
<1>4. /\ c.weight \in Weight /\ c.offset \in Nat /\ c.chunkOffset \in Nat /\ c.chunkSize \in Nat
      /\ size[c.weight] \in 1 .. MaxSize
  <2>1. \A d \in Chunk : /\ d.weight \in Weight /\ d.offset \in Nat
                         /\ d.chunkOffset \in Nat /\ d.chunkSize \in Nat
    BY DEF Chunk
  <2> QED BY <1>0, <1>3, <2>1, Zenon DEF TransferTypeOK
<1>5. Untaken(r)' = Untaken(r)
  BY <1>1 DEF Untaken
<1>6. /\ InPlace(size, c, memory[Here(r)])
      /\ Ends(size, c) = Place(metadata[r].chunks, chunk[r] + 1, Untaken(r))
  BY <1>0, <1>2 DEF ReceiveInv, Follow, Here
<1>7. Unpulled(r) = Begins(c) /\ Unpulled(r)' = Ends(size, c)
  BY <1>1, <1>2, <1>5, <1>6 DEF Unpulled, Place
<1>8. /\ c.chunkOffset + c.chunkSize <= size[c.weight]
      /\ size[c.weight] <= BucketSize => c.chunkOffset = 0 /\ c.chunkSize = size[c.weight]
  <2>1. c.chunkSize = Smaller(BucketSize, size[c.weight] - c.chunkOffset)
    BY <1>6, Zenon DEF InPlace
  <2>2. /\ c.chunkOffset < size[c.weight]
        /\ c.chunkOffset > 0 => size[c.weight] > BucketSize
    <3>1. Begins(c)[1] = c.weight /\ Begins(c)[2] = c.chunkOffset
      BY Fields, Zenon
    <3>2. PlaceOK(size, Begins(c))
      BY <1>6, Zenon DEF InPlace
    <3>3. \A w \in Weight : w <= NumWeights
      BY TransferConstants DEF Weight
    <3> QED BY <1>4, <3>1, <3>2, <3>3, Zenon DEF PlaceOK
  <2>3. size[c.weight] \in Nat
    BY <1>4, TransferConstants
  <2> QED BY <1>4, <2>1, <2>2, <2>3, ChunkWithin, Zenon
<1>9. ASSUME NEW k \in 1 .. Len(stream[r]), stream[r][k].to = Merge(r)
      PROVE  stream[r][k].into + stream[r][k].size <= c.chunkOffset
  <2>1. ~MergeInUse(r)
    <3>1. request[r].weights = <<>> /\ Len(<<>>) = 0
      BY <1>0, <1>1 DEF OrderInv
    <3> QED BY <1>1, <3>1 DEF MergeInUse
  <2>2. stream[r][k].into + stream[r][k].size <= Unpulled(r)[2]
    BY <1>0, <1>9, <2>1 DEF PackInv, CopiesInPlace
  <2> QED BY <1>7, <2>2, Fields, Zenon
<1> QED BY <1>3, <1>4, <1>5, <1>6, <1>7, <1>8, <1>9, Zenon

LEMMA PullKeeps ==
    ASSUME TransferInv, NEW r \in Worker, PullChunk(r)
    PROVE  WorkerInv(r)'
<1>. DEFINE c == metadata[r].chunks[chunk[r]]
            w == c.weight
            n == size[c.weight]
            q == Copy(Here(r), c.offset, Merge(r), c.chunkOffset, c.chunkSize)
<1>0. TransferTypeOK /\ ReceiveTypeOK /\ PackTypeOK /\ WorkerInv(r) /\ ReceiveInv(r)
      /\ PackInv(r) /\ OrderInv(r)
  BY Parts, Zenon
<1>1. /\ UNCHANGED <<size, sent, memory>> /\ Unreceived(r)' = Unreceived(r)
      /\ UnderWay(r)' = UnderWay(r)
  BY OwnStep, Zenon DEF Works, PullChunk
<1>2. /\ UNCHANGED <<posted, arrived, reading, metadata, packed, packedSize, request,
                     finished, loaded>>
      /\ held[r] = Nothing /\ ~request[r].valid /\ ~finished[r]
      /\ stream[r] \in Seq(Copies)
      /\ Here(r)' = Here(r) /\ Ipc(r)' = Ipc(r) /\ Merge(r)' = Merge(r)
  BY <1>0 DEF PullChunk, Running, TransferTypeOK, Here, Ipc, Merge
<1>3. /\ c \in Chunk /\ c.weight \in Weight /\ c.offset \in Nat /\ c.chunkOffset \in Nat
      /\ c.chunkSize \in Nat /\ size[c.weight] \in 1 .. MaxSize
      /\ InPlace(size, c, memory[Here(r)])
      /\ Unpulled(r) = Begins(c) /\ Unpulled(r)' = Ends(size, c)
      /\ Untaken(r)' = Untaken(r)
      /\ c.chunkOffset + c.chunkSize <= size[c.weight]
      /\ size[c.weight] <= BucketSize => c.chunkOffset = 0 /\ c.chunkSize = size[c.weight]
      /\ \A k \in 1 .. Len(stream[r]) :
            stream[r][k].to = Merge(r) =>
                stream[r][k].into + stream[r][k].size <= c.chunkOffset
  BY PullFacts, Zenon
<1>4. IF n <= BucketSize
      THEN held'[r] = View(w, Here(r), c.offset) /\ stream'[r] = stream[r]
      ELSE /\ stream'[r] = Append(stream[r], q)
           /\ held'[r] = IF c.chunkOffset + c.chunkSize = n THEN View(w, Merge(r), 0) ELSE Nothing
  <2>1. IF n <= BucketSize
        THEN held' = [held EXCEPT ![r] = View(w, Here(r), c.offset)] /\ stream' = stream
        ELSE /\ stream' = [stream EXCEPT ![r] = Append(@, q)]
             /\ held' = IF c.chunkOffset + c.chunkSize = n
                        THEN [held EXCEPT ![r] = View(w, Merge(r), 0)] ELSE held
    BY Zenon DEF PullChunk, Here, Merge
  <2>2. r \in DOMAIN held /\ r \in DOMAIN stream
    BY <1>0 DEF TransferTypeOK, PackTypeOK
  <2>. HIDE DEF c, w, n, q
  <2> QED BY <1>2, <2>1, <2>2
<1>5. /\ q.from = Here(r) /\ q.at = c.offset /\ q.to = Merge(r)
      /\ q.into = c.chunkOffset /\ q.size = c.chunkSize
  BY Zenon DEF Copy
<1>. HIDE DEF c
<1>6. q \in Copies
  <2>1. Here(r) \in Buffer /\ Merge(r) \in Buffer
    BY <1>0, TransferConstants DEF Here, Merge, ReceiveTypeOK
  <2> QED BY <1>3, <2>1 DEF Copy, Copies
<1>7. Begins(c)[1] = w /\ Begins(c)[2] = c.chunkOffset
  BY Fields, Zenon
<1>8. w \in Nat /\ w >= 1 /\ n \in Nat /\ n >= 1 /\ BucketSize \in Nat /\ MaxSize \in Nat
  <2>1. w \in Nat /\ w >= 1
    BY <1>3, TransferConstants DEF Weight
  <2>2. n \in Nat /\ n >= 1
    BY <1>3, TransferConstants
  <2> QED BY <2>1, <2>2, TransferConstants
<1>9. /\ c.offset + c.chunkSize <= BucketSize
      /\ \A j \in 0 .. c.chunkSize - 1 : memory[Here(r)][c.offset + j] = <<w, c.chunkOffset + j>>
  BY <1>3, Zenon DEF InPlace
<1>. HIDE DEF w, n, q
<1>10. \A buffer, at :
          /\ View(w, buffer, at) # Nothing
          /\ View(w, buffer, at).weight = w /\ View(w, buffer, at).buffer = buffer
          /\ View(w, buffer, at).at = at
  <2>1. \A buffer, at : View(w, buffer, at) # Nothing
    BY <1>8 DEF View, Nothing
  <2>2. \A buffer, at :
            /\ View(w, buffer, at).weight = w /\ View(w, buffer, at).buffer = buffer
            /\ View(w, buffer, at).at = at
    BY Zenon DEF View
  <2> QED BY <2>1, <2>2, Zenon
<1>11. request[r].weights = <<>> /\ Len(<<>>) = 0
  BY <1>0, <1>2 DEF OrderInv
<1>12. Ipc(r) # Merge(r) /\ Ipc(r) # Here(r) /\ Merge(r) # Here(r)
  BY <1>0 DEF Ipc, Merge, Here, ReceiveTypeOK
<1>13. ReceiveInv(r)'
  BY <1>0, <1>1, <1>2, <1>3 DEF ReceiveInv
<1>14. RequestInPlace(r)'
  BY <1>2, <1>11 DEF RequestInPlace
<1>15. \A k \in 1 .. Len(stream[r]) :
           /\ stream[r][k].from = Here(r) /\ stream[r][k].to \in {Ipc(r), Merge(r)}
           /\ stream[r][k].into \in Nat /\ stream[r][k].size \in Nat
           /\ stream[r][k].at + stream[r][k].size <= BucketSize
           /\ stream[r][k].to = Ipc(r) => stream[r][k].into + stream[r][k].size <= packedSize[r]
  <2>1. \A k \in 1 .. Len(stream[r]) : stream[r][k] \in Copies
    BY <1>2
  <2> QED BY <1>0, <2>1 DEF PackInv, CopiesInPlace, Copies
<1>16. c.weight = InHand(r) + 1 /\ UNCHANGED <<InRequest(r), InPacked(r), InHand(r)>>
       /\ InHand(r) \in Nat
  <2>1. c.weight = InHand(r) + 1
    BY <1>0, <1>2, <1>3, <1>7 DEF OrderInv, w
  <2>2. InHand(r) \in Nat
    BY <1>0 DEF InHand, InPacked, InRequest, TransferTypeOK, PackTypeOK, Requests
  <2> QED BY <1>2, <2>1, <2>2 DEF InRequest, InPacked, InHand
<1>17. CASE n <= BucketSize
  <2>1. held'[r] = View(w, Here(r), c.offset) /\ stream'[r] = stream[r]
        /\ c.chunkOffset = 0 /\ c.chunkSize = n /\ Unpulled(r)' = <<w + 1, 0>>
    BY <1>3, <1>4, <1>8, <1>17 DEF Ends, n, w
  <2>2. Unpulled(r)'[1] = w + 1 /\ Unpulled(r)'[2] = 0
    BY <2>1
  <2>3. ComingView(size, memory, stream[r], held'[r])
    <3>1. \A k \in 1 .. Len(stream[r]) : \A x : ~Writes(stream[r][k], Here(r), x)
      BY <1>12, <1>15 DEF Writes
    <3>2. \A j \in 0 .. n - 1 : memory[Here(r)][c.offset + j] = <<w, j>>
      BY <1>9, <2>1
    <3>3. \A j \in 0 .. n - 1 : Coming(memory, stream[r], Here(r), c.offset + j, <<w, j>>)
      BY <3>1, <3>2 DEF Coming
    <3> QED BY <1>10, <2>1, <3>3 DEF ComingView, n, w
  <2>4. CopiesInPlace(r)'
    BY <1>2, <1>3, <1>15, <2>1, <2>2 DEF CopiesInPlace
  <2>5. PackedInPlace(r)'
    BY <1>0, <1>1, <1>2, <2>1 DEF PackInv, PackedInPlace
  <2>6. HeldInPlace(r)'
    <3>1. held'[r].buffer = Here(r) /\ held'[r].at + size[held'[r].weight] <= BucketSize
      BY <1>9, <1>10, <2>1 DEF n, w
    <3> QED BY <1>1, <1>2, <2>1, <2>3, <3>1 DEF HeldInPlace
  <2>7. MergedInPlace(r)'
    BY <2>2 DEF MergedInPlace
  <2>8. OrderInv(r)'
    <3>1. \A i : Exact(i)' = Exact(i)
      BY <1>1, SizesStay
    <3>2. held'[r] # Nothing /\ held'[r].weight = InHand(r) + 1
      BY <1>10, <1>16, <2>1 DEF w
    <3>3. Unpulled(r)'[1] = InHand(r) + 2
      BY <1>16, <2>2 DEF w
    <3> QED BY <1>0, <1>2, <1>16, <3>1, <3>2, <3>3 DEF OrderInv
  <2> QED BY <1>13, <1>14, <2>4, <2>5, <2>6, <2>7, <2>8 DEF WorkerInv, PackInv
<1>18. CASE ~(n <= BucketSize)
  <2>. DEFINE end == c.chunkOffset + c.chunkSize
  <2>1. stream'[r] = Append(stream[r], q)
        /\ held'[r] = IF end = n THEN View(w, Merge(r), 0) ELSE Nothing
    BY <1>4, <1>18
  <2>2. end \in Nat /\ end <= n /\ n <= MaxSize /\ c.chunkOffset <= end
    BY <1>3, <1>8 DEF n
  <2>3. \A x \in 0 .. end - 1 : Coming(memory, stream'[r], Merge(r), x, <<w, x>>)
    <3>1. TAKE x \in 0 .. end - 1
    <3>2. CASE x < c.chunkOffset
      <4>1. ~Writes(q, Merge(r), x)
        BY <1>3, <1>5, <3>2 DEF Writes
      <4>2. Coming(memory, stream[r], Merge(r), x, <<w, x>>)
        BY <1>0, <1>3, <1>7, <3>2 DEF PackInv, MergedInPlace
      <4> QED BY <1>2, <1>6, <2>1, <4>1, <4>2, ComingAppend
    <3>3. CASE ~(x < c.chunkOffset)
      <4>1. ASSUME NEW k \in 1 .. Len(stream[r]), Writes(stream[r][k], Merge(r), x) PROVE FALSE
        <5>. DEFINE into == stream[r][k].into
                    m == stream[r][k].size
        <5>1. into \in Nat /\ m \in Nat /\ into + m <= c.chunkOffset
          BY <1>3, <1>15, <4>1, Zenon DEF Writes
        <5>2. x - into \in 0 .. m - 1
          BY <4>1, Zenon DEF Writes
        <5>3. x \in Nat /\ c.chunkOffset \in Nat /\ x >= c.chunkOffset
          BY <1>3, <2>2, <3>3
        <5>. HIDE DEF into, m
        <5> QED BY <5>1, <5>2, <5>3
      <4>2. x - c.chunkOffset \in 0 .. c.chunkSize - 1
        BY <1>3, <3>3
      <4>3. Writes(q, Merge(r), x)
        BY <1>5, <4>2 DEF Writes
      <4>4. memory[q.from][q.at + (x - q.into)] = <<w, x>>
        <5>1. memory[Here(r)][c.offset + (x - c.chunkOffset)] = <<w, c.chunkOffset + (x - c.chunkOffset)>>
          BY <1>9, <4>2
        <5>2. c.chunkOffset + (x - c.chunkOffset) = x
          BY <1>3
        <5> QED BY <1>5, <5>1, <5>2
      <4> QED BY <1>2, <1>6, <2>1, <4>1, <4>3, <4>4, ComingAppend
    <3> QED BY <3>2, <3>3
  <2>4. PackedInPlace(r)'
    <3>1. ASSUME NEW i \in 1 .. Len(packed[r])
          PROVE  ComingView(size, memory, stream'[r], packed[r][i])
      <4>1. packed[r][i].buffer = Ipc(r) /\ ComingView(size, memory, stream[r], packed[r][i])
        BY <1>0 DEF PackInv, PackedInPlace
      <4>2. \A x : ~Writes(q, packed[r][i].buffer, x)
        BY <1>5, <1>12, <4>1 DEF Writes
      <4> QED BY <1>2, <1>6, <2>1, <4>1, <4>2, ComingAppend DEF ComingView
    <3> QED BY <1>0, <1>1, <1>2, <3>1 DEF PackInv, PackedInPlace
  <2>5. /\ Len(stream[r]) \in Nat /\ Len(stream'[r]) = Len(stream[r]) + 1
        /\ \A k \in 1 .. Len(stream[r]) : stream'[r][k] = stream[r][k]
        /\ stream'[r][Len(stream[r]) + 1] = q
    BY <1>2, <1>6, <2>1
  <2>6. \A i : Exact(i)' = Exact(i)
    BY <1>1, SizesStay
  <2>7. CASE end = n
    <3>1. held'[r] = View(w, Merge(r), 0) /\ held'[r] # Nothing /\ held'[r].buffer = Merge(r)
          /\ held'[r].at = 0 /\ held'[r].weight = w /\ Unpulled(r)' = <<w + 1, 0>>
      <4>1. ~(end < n)
        BY <1>8, <2>7
      <4>2. Ends(size, c) = <<w + 1, 0>>
        <5>1. Ends(size, c) = IF end < n THEN <<w, end>> ELSE <<w + 1, 0>>
          BY Zenon DEF Ends, n, w
        <5> QED BY <4>1, <5>1
      <4>3. held'[r] = View(w, Merge(r), 0)
        BY <2>1, <2>7, Zenon
      <4>4. Unpulled(r)' = <<w + 1, 0>>
        BY <1>3, <4>2, Zenon
      <4>5. /\ View(w, Merge(r), 0) # Nothing /\ View(w, Merge(r), 0).weight = w
            /\ View(w, Merge(r), 0).buffer = Merge(r) /\ View(w, Merge(r), 0).at = 0
        BY <1>10, Zenon
      <4> QED BY <4>3, <4>4, <4>5
    <3>2. Unpulled(r)'[1] = w + 1 /\ Unpulled(r)'[2] = 0
      BY <3>1
    <3>3. MergeInUse(r)'
      BY <1>2, <3>1 DEF MergeInUse
    <3>4. CopiesInPlace(r)'
      <4>1. ASSUME NEW k \in 1 .. Len(stream'[r])
            PROVE  /\ stream'[r][k].from = Here(r) /\ stream'[r][k].to \in {Ipc(r), Merge(r)}
                   /\ stream'[r][k].at + stream'[r][k].size <= BucketSize
                   /\ stream'[r][k].to = Ipc(r) =>
                          stream'[r][k].into + stream'[r][k].size <= packedSize[r]
        <5>1. CASE k \in 1 .. Len(stream[r])
          BY <1>15, <2>5, <5>1
        <5>2. CASE k = Len(stream[r]) + 1
          BY <1>5, <1>9, <1>12, <2>5, <5>2
        <5> QED BY <2>5, <5>1, <5>2
      <4> QED BY <1>2, <3>2, <3>3, <4>1 DEF CopiesInPlace
    <3>5. HeldInPlace(r)'
      <4>1. ComingView(size, memory, stream'[r], held'[r])
        <5>1. \A j \in 0 .. n - 1 : Coming(memory, stream'[r], Merge(r), 0 + j, <<w, j>>)
          BY <2>3, <2>7
        <5> QED BY <3>1, <5>1 DEF ComingView, n, w
      <4>2. size[held'[r].weight] > BucketSize
        BY <1>8, <1>18, <3>1 DEF n, w
      <4> QED BY <1>1, <1>2, <3>1, <3>2, <4>1, <4>2 DEF HeldInPlace
    <3>6. MergedInPlace(r)'
      BY <3>2 DEF MergedInPlace
    <3>7. OrderInv(r)'
      <4>1. held'[r].weight = InHand(r) + 1 /\ Unpulled(r)'[1] = InHand(r) + 2
        BY <1>16, <3>1, <3>2 DEF w
      <4> QED BY <1>0, <1>2, <1>16, <2>6, <3>1, <4>1 DEF OrderInv
    <3> QED BY <1>13, <1>14, <2>4, <3>4, <3>5, <3>6, <3>7 DEF WorkerInv, PackInv
  <2>8. CASE end # n
    <3>1. held'[r] = Nothing /\ Unpulled(r)' = <<w, end>>
      <4>1. end < n
        BY <1>8, <2>2, <2>8
      <4>2. Ends(size, c) = IF end < n THEN <<w, end>> ELSE <<w + 1, 0>>
        BY Zenon DEF Ends, n, w
      <4> QED BY <1>3, <2>1, <2>8, <4>1, <4>2, Zenon
    <3>2. Unpulled(r)'[1] = w /\ Unpulled(r)'[2] = end
      BY <3>1
    <3>4. CopiesInPlace(r)'
      <4>1. ASSUME NEW k \in 1 .. Len(stream'[r])
            PROVE  /\ stream'[r][k].from = Here(r) /\ stream'[r][k].to \in {Ipc(r), Merge(r)}
                   /\ stream'[r][k].at + stream'[r][k].size <= BucketSize
                   /\ stream'[r][k].to = Ipc(r) =>
                          stream'[r][k].into + stream'[r][k].size <= packedSize[r]
                   /\ stream'[r][k].to = Merge(r) =>
                          stream'[r][k].into + stream'[r][k].size <= end
        <5>1. CASE k \in 1 .. Len(stream[r])
          <6>1. stream'[r][k] = stream[r][k]
            BY <2>5, <5>1
          <6>2. stream[r][k].to = Merge(r) => stream[r][k].into + stream[r][k].size <= c.chunkOffset
            BY <1>3, <5>1
          <6>. HIDE DEF end
          <6>3. stream[r][k].into + stream[r][k].size \in Nat
            <7>1. stream[r][k].into \in Nat /\ stream[r][k].size \in Nat
              BY <1>15, <5>1, Zenon
            <7> QED BY <7>1
          <6>4. stream[r][k].to = Merge(r) => stream[r][k].into + stream[r][k].size <= end
            BY <1>3, <2>2, <6>2, <6>3
          <6> QED BY <1>15, <5>1, <6>1, <6>4
        <5>2. CASE k = Len(stream[r]) + 1
          <6>1. q.into + q.size <= end
            BY <1>5, <2>2
          <6> QED BY <1>5, <1>9, <1>12, <2>5, <5>2, <6>1, Zenon
        <5> QED BY <2>5, <5>1, <5>2
      <4> QED BY <1>2, <3>2, <4>1 DEF CopiesInPlace
    <3>5. HeldInPlace(r)'
      BY <3>1 DEF HeldInPlace
    <3>6. MergedInPlace(r)'
      BY <1>1, <1>2, <2>3, <3>2 DEF MergedInPlace
    <3>7. OrderInv(r)'
      <4>1. Unpulled(r)'[1] = InHand(r) + 1
        BY <1>16, <3>2 DEF w
      <4> QED BY <1>0, <1>2, <1>16, <2>6, <3>1, <4>1 DEF OrderInv
    <3> QED BY <1>13, <1>14, <2>4, <3>4, <3>5, <3>6, <3>7 DEF WorkerInv, PackInv
  <2> QED BY <2>7, <2>8
<1> QED BY <1>17, <1>18

-----------------------------------------------------------------------------
(* A rank packs and sends, its engine loads                                *)

LEMMA PackSteps ==
    ASSUME TransferInv, NEW r \in Worker,
           Pack(r) \/ SendBucket(r) \/ SendLarge(r) \/ SendLast(r) \/ LoadBucket(r)
    PROVE  /\ UNCHANGED <<size, memory>> /\ Unpulled(r)' = Unpulled(r) /\ ReceiveInv(r)'
           /\ Here(r)' = Here(r) /\ Ipc(r)' = Ipc(r) /\ Merge(r)' = Merge(r)
           /\ Ipc(r) # Merge(r) /\ Ipc(r) # Here(r) /\ Merge(r) # Here(r)
<1>0. ReceiveInv(r) /\ ReceiveTypeOK
  BY Parts, Zenon
<1>1. /\ UNCHANGED <<size, sent, memory>> /\ Unreceived(r)' = Unreceived(r)
      /\ UnderWay(r)' = UnderWay(r)
  <2>1. UNCHANGED memory
    BY Zenon DEF Pack, SendBucket, SendLarge, SendLast, LoadBucket
  <2>2. Works(r) \/ LoadBucket(r)
    BY DEF Works
  <2> QED BY <2>1, <2>2, OwnStep, Zenon
<1>2. UNCHANGED <<posted, arrived, reading, metadata, chunk>>
  BY DEF Pack, SendBucket, SendLarge, SendLast, LoadBucket, receiveVars
<1>3. Untaken(r)' = Untaken(r) /\ Unpulled(r)' = Unpulled(r)
  BY <1>1, <1>2 DEF Untaken, Unpulled
<1>4. ReceiveInv(r)'
  BY <1>0, <1>1, <1>2, <1>3 DEF ReceiveInv
<1>5. Here(r)' = Here(r) /\ Ipc(r)' = Ipc(r) /\ Merge(r)' = Merge(r)
  BY <1>2 DEF Here, Ipc, Merge
<1>6. Ipc(r) # Merge(r) /\ Ipc(r) # Here(r) /\ Merge(r) # Here(r)
  BY <1>0 DEF Ipc, Merge, Here, ReceiveTypeOK
<1> QED BY <1>1, <1>3, <1>4, <1>5, <1>6

LEMMA PackKeeps ==
    ASSUME TransferInv, NEW r \in Worker, Pack(r)
    PROVE  WorkerInv(r)'
<1>. DEFINE w == held[r].weight
            n == size[w]
            at == held[r].at
            end == packedSize[r]
            q == Copy(held[r].buffer, at, Ipc(r), end, n)
            v == View(w, Ipc(r), end)
<1>0. TransferTypeOK /\ PackTypeOK /\ ReceiveTypeOK /\ PackInv(r) /\ OrderInv(r)
  BY Parts, Zenon
<1>1. /\ UNCHANGED <<size, memory>> /\ Unpulled(r)' = Unpulled(r) /\ ReceiveInv(r)'
      /\ Here(r)' = Here(r) /\ Ipc(r)' = Ipc(r) /\ Merge(r)' = Merge(r)
      /\ Ipc(r) # Merge(r) /\ Ipc(r) # Here(r) /\ Merge(r) # Here(r)
  BY PackSteps
<1>2. /\ held[r] \in Views /\ w \in Weight /\ at \in Nat /\ n \in 1 .. MaxSize
      /\ held[r].buffer \in Buffer /\ held[r] # Nothing
  BY <1>0 DEF Pack, PackTypeOK, Views, TransferTypeOK
<1>3. end \in Nat /\ end + n <= BucketSize /\ n \in Nat /\ n >= 1 /\ BucketSize \in Nat
  BY <1>0, <1>2, TransferConstants DEF Pack, PackFits, HeldSize, PackTypeOK
<1>4. held[r].buffer = Here(r) /\ at + n <= BucketSize
      /\ ComingView(size, memory, stream[r], held[r])
  BY <1>0, <1>2, <1>3 DEF PackInv, HeldInPlace
<1>5. /\ held'[r] = Nothing /\ stream'[r] = Append(stream[r], q)
      /\ packed'[r] = Append(packed[r], v) /\ packedSize'[r] = end + n
      /\ UNCHANGED <<request, finished, loaded>>
      /\ ~request[r].valid /\ ~finished[r]
      /\ stream[r] \in Seq(Copies) /\ packed[r] \in Seq(Views)
  BY <1>0 DEF Pack, PackTypeOK, TransferTypeOK, HeldSize, Running, Ipc
<1>6. /\ q.from = Here(r) /\ q.at = at /\ q.to = Ipc(r) /\ q.into = end /\ q.size = n
      /\ v.weight = w /\ v.buffer = Ipc(r) /\ v.at = end
  BY <1>4 DEF Copy, View
<1>7. q \in Copies /\ v \in Views
  <2>1. Ipc(r) \in Buffer
    BY TransferConstants DEF Ipc
  <2> QED BY <1>2, <1>3, <2>1 DEF Copy, Copies, View, Views
<1>. HIDE DEF w, n, at, end, q, v
<1>8. request[r].weights = <<>> /\ Len(<<>>) = 0
  BY <1>0, <1>5 DEF OrderInv
<1>9. /\ Len(stream[r]) \in Nat /\ Len(stream'[r]) = Len(stream[r]) + 1
      /\ \A k \in 1 .. Len(stream[r]) : stream'[r][k] = stream[r][k]
      /\ stream'[r][Len(stream[r]) + 1] = q
      /\ \A k \in 1 .. Len(stream[r]) : stream[r][k] \in Copies
  BY <1>5, <1>7
<1>10. /\ Len(packed[r]) \in Nat /\ Len(packed'[r]) = Len(packed[r]) + 1
       /\ \A i \in 1 .. Len(packed[r]) : packed'[r][i] = packed[r][i]
       /\ packed'[r][Len(packed[r]) + 1] = v
       /\ packed'[r] # <<>>
       /\ \A i \in 1 .. Len(packed[r]) : packed[r][i] \in Views
  BY <1>5, <1>7
<1>11. ASSUME NEW k \in 1 .. Len(stream[r])
       PROVE  /\ stream[r][k].from = Here(r) /\ stream[r][k].to \in {Ipc(r), Merge(r)}
              /\ stream[r][k].into \in Nat /\ stream[r][k].size \in Nat
              /\ stream[r][k].at + stream[r][k].size <= BucketSize
              /\ stream[r][k].to = Ipc(r) => stream[r][k].into + stream[r][k].size <= end
              /\ stream[r][k].to = Merge(r) =>
                     stream[r][k].into + stream[r][k].size <= Unpulled(r)[2]
  <2>1. ~MergeInUse(r)
    BY <1>1, <1>4, <1>8 DEF MergeInUse
  <2>2. stream[r][k].into \in Nat /\ stream[r][k].size \in Nat
    BY <1>9 DEF Copies
  <2> QED BY <1>0, <2>1, <2>2 DEF PackInv, CopiesInPlace, end
<1>12. CopiesInPlace(r)'
  <2>. DEFINE Fine(c) == /\ c.from = Here(r) /\ c.to \in {Ipc(r), Merge(r)}
                         /\ c.at + c.size <= BucketSize
                         /\ c.to = Ipc(r) => c.into + c.size <= end + n
                         /\ c.to = Merge(r) => c.into + c.size <= Unpulled(r)[2]
  <2>1. \A k \in 1 .. Len(stream[r]) : Fine(stream[r][k])
    <3>1. TAKE k \in 1 .. Len(stream[r])
    <3>2. stream[r][k].to = Ipc(r) => stream[r][k].into + stream[r][k].size <= end + n
      <4>1. /\ stream[r][k].into \in Nat /\ stream[r][k].size \in Nat
            /\ stream[r][k].to = Ipc(r) => stream[r][k].into + stream[r][k].size <= end
        BY <1>11, Zenon
      <4> QED BY <1>3, <4>1
    <3> QED BY <1>11, <3>2, Zenon
  <2>2. Fine(q)
    <3>1. q.at + q.size <= BucketSize /\ q.into + q.size <= end + n
      BY <1>2, <1>3, <1>4, <1>6
    <3>2. q.from = Here(r) /\ q.to = Ipc(r) /\ q.to # Merge(r)
      BY <1>1, <1>6
    <3> QED BY <3>1, <3>2
  <2>. HIDE DEF Fine
  <2>3. \A k \in 1 .. Len(stream'[r]) : k \in 1 .. Len(stream[r]) \/ k = Len(stream[r]) + 1
    BY <1>9
  <2>4. \A k \in 1 .. Len(stream'[r]) : Fine(stream'[r][k])
    BY <1>9, <2>1, <2>2, <2>3
  <2> QED BY <1>1, <1>5, <2>4 DEF CopiesInPlace, Fine
<1>13. ASSUME NEW i \in 1 .. Len(packed[r])
       PROVE  /\ packed[r][i].buffer = Ipc(r)
              /\ packed[r][i].at + size[packed[r][i].weight] <= end
              /\ packed[r][i].at \in Nat /\ size[packed[r][i].weight] \in Nat
              /\ ComingView(size, memory, stream'[r], packed[r][i])
  <2>1. /\ packed[r][i].buffer = Ipc(r)
        /\ packed[r][i].at + size[packed[r][i].weight] <= end
        /\ ComingView(size, memory, stream[r], packed[r][i])
    BY <1>0 DEF PackInv, PackedInPlace, end
  <2>2. packed[r][i].at \in Nat /\ size[packed[r][i].weight] \in Nat
    BY <1>0, <1>10, ViewTypes, Zenon
  <2>3. ASSUME NEW j \in 0 .. size[packed[r][i].weight] - 1
        PROVE  ~Writes(q, Ipc(r), packed[r][i].at + j)
    <3>. DEFINE x == packed[r][i].at + j
    <3>1. x < end
      <4>1. end \in Nat
        BY <1>3
      <4> QED BY <2>1, <2>2, <4>1
    <3>2. Writes(q, Ipc(r), x) => x - end \in 0 .. n - 1
      BY <1>6, Zenon DEF Writes
    <3>3. x \in Nat
      BY <2>2
    <3>. HIDE DEF x
    <3>4. ~(x - end \in 0 .. n - 1)
      BY <1>3, <3>1, <3>3
    <3> QED BY <3>2, <3>4, Zenon DEF x
  <2> QED BY <1>5, <1>7, <2>1, <2>2, <2>3, ComingAppend DEF ComingView
<1>14. ComingView(size, memory, stream'[r], v)
  <2>1. SUFFICES ASSUME NEW j \in 0 .. size[v.weight] - 1
                 PROVE  Coming(memory, stream'[r], v.buffer, v.at + j, <<v.weight, j>>)
    BY DEF ComingView
  <2>2. j \in Nat /\ j < n
    BY <1>3, <1>6 DEF n
  <2>3. memory[Here(r)][at + j] = <<w, j>>
    <3>1. Coming(memory, stream[r], Here(r), at + j, <<w, j>>)
      BY <1>4, <1>6 DEF ComingView, at, w
    <3>2. \A k \in 1 .. Len(stream[r]) : ~Writes(stream[r][k], Here(r), at + j)
      BY <1>1, <1>11 DEF Writes
    <3> QED BY <3>1, <3>2 DEF Coming
  <2>4. ASSUME NEW k \in 1 .. Len(stream[r]) PROVE ~Writes(stream[r][k], Ipc(r), end + j)
    <3>. DEFINE into == stream[r][k].into
                m == stream[r][k].size
    <3>1. into \in Nat /\ m \in Nat /\ (stream[r][k].to = Ipc(r) => into + m <= end)
      BY <1>11, Zenon
    <3>2. Writes(stream[r][k], Ipc(r), end + j) =>
              stream[r][k].to = Ipc(r) /\ (end + j) - into \in 0 .. m - 1
      BY Zenon DEF Writes
    <3>. HIDE DEF into, m
    <3>3. into + m <= end => ~((end + j) - into \in 0 .. m - 1)
      BY <1>3, <2>2, <3>1
    <3> QED BY <3>1, <3>2, <3>3, Zenon
  <2>5. Writes(q, Ipc(r), end + j) /\ q.at + ((end + j) - q.into) = at + j
    BY <1>2, <1>3, <1>6, <2>2 DEF Writes, at
  <2>6. Coming(memory, stream'[r], Ipc(r), end + j, <<w, j>>)
    BY <1>5, <1>6, <1>7, <2>3, <2>4, <2>5, ComingAppend
  <2> QED BY <1>6, <2>6
<1>15. PackedInPlace(r)'
  <2>. DEFINE Fine(u) == /\ u.buffer = Ipc(r)
                         /\ u.at + size[u.weight] <= end + n
                         /\ ComingView(size, memory, stream'[r], u)
  <2>1. \A i \in 1 .. Len(packed[r]) : Fine(packed[r][i])
    <3>1. TAKE i \in 1 .. Len(packed[r])
    <3>2. packed[r][i].at + size[packed[r][i].weight] <= end + n
      BY <1>3, <1>13
    <3> QED BY <1>13, <3>2
  <2>2. Fine(v)
    <3>1. v.at + size[v.weight] <= end + n
      <4>1. v.at + size[v.weight] = end + n
        BY <1>6 DEF n
      <4> QED BY <1>3, <4>1
    <3> QED BY <1>6, <1>14, <3>1
  <2>. HIDE DEF Fine
  <2>3. \A i \in 1 .. Len(packed'[r]) : i \in 1 .. Len(packed[r]) \/ i = Len(packed[r]) + 1
    BY <1>10
  <2>4. \A i \in 1 .. Len(packed'[r]) : Fine(packed'[r][i])
    BY <1>10, <2>1, <2>2, <2>3
  <2> QED BY <1>1, <1>3, <1>5, <1>10, <2>4 DEF PackedInPlace, Fine
<1>16. HeldInPlace(r)' /\ RequestInPlace(r)'
  BY <1>5, <1>8 DEF HeldInPlace, RequestInPlace
<1>17. MergedInPlace(r)'
  <2>1. \A x : ~Writes(q, Merge(r), x)
    BY <1>1, <1>6 DEF Writes
  <2> QED BY <1>0, <1>1, <1>5, <1>7, <2>1, ComingAppend DEF PackInv, MergedInPlace
<1>18. OrderInv(r)'
  <2>1. \A i : Exact(i)' = Exact(i)
    BY <1>1, SizesStay
  <2>2. InRequest(r)' = InRequest(r) /\ InPacked(r)' = InPacked(r)
        /\ InHand(r)' = InHand(r) + 1 /\ InHand(r) = InPacked(r) + Len(packed[r])
        /\ InPacked(r) \in Nat
    <3>1. Len(loaded[r]) \in Nat /\ Len(request[r].weights) \in Nat
      BY <1>0 DEF TransferTypeOK, PackTypeOK, Requests
    <3>2. Len(packed'[r]) = Len(packed[r]) + 1 /\ Len(packed[r]) \in Nat
      BY <1>10
    <3>3. InRequest(r)' = InRequest(r) /\ InPacked(r)' = InPacked(r)
      BY <1>5 DEF InRequest, InPacked
    <3>4. InHand(r)' = InPacked(r) + Len(packed'[r]) /\ InHand(r) = InPacked(r) + Len(packed[r])
      BY <3>3 DEF InHand
    <3>5. InPacked(r) \in Nat
      <4>1. ASSUME NEW a \in Nat, NEW b \in Nat PROVE a + b \in Nat
        OBVIOUS
      <4> QED BY <3>1, <4>1 DEF InRequest, InPacked
    <3> QED BY <3>2, <3>3, <3>4, <3>5
  <2>3. w = InHand(r) + 1 /\ Unpulled(r)[1] = InHand(r) + 2
    BY <1>0, <1>2 DEF OrderInv, w
  <2>4. \A i \in 1 .. Len(packed'[r]) : packed'[r][i].weight = InPacked(r) + i
    <3>1. TAKE i \in 1 .. Len(packed'[r])
    <3>2. CASE i \in 1 .. Len(packed[r])
      BY <1>0, <1>10, <3>2 DEF OrderInv
    <3>3. CASE i = Len(packed[r]) + 1
      BY <1>6, <1>10, <2>2, <2>3, <3>3
    <3> QED BY <1>10, <3>2, <3>3
  <2>5. Unpulled(r)'[1] = InHand(r)' + 1
    BY <1>1, <1>10, <2>2, <2>3
  <2> QED BY <1>0, <1>5, <2>1, <2>2, <2>4, <2>5 DEF OrderInv
<1> QED BY <1>1, <1>12, <1>15, <1>16, <1>17, <1>18 DEF WorkerInv, PackInv

\* The packed weights become the request.
LEMMA SendsPacked ==
    ASSUME TransferInv, NEW r \in Worker, SendBucket(r) \/ SendLast(r),
           finished'[r] => held[r] = Nothing /\ Unpulled(r)[1] > NumWeights
    PROVE  WorkerInv(r)'
<1>0. TransferTypeOK /\ PackTypeOK /\ PackInv(r) /\ OrderInv(r)
  BY Parts, Zenon
<1>1. /\ UNCHANGED <<size, memory>> /\ Unpulled(r)' = Unpulled(r) /\ ReceiveInv(r)'
      /\ Here(r)' = Here(r) /\ Ipc(r)' = Ipc(r) /\ Merge(r)' = Merge(r)
  BY PackSteps
<1>2. /\ UNCHANGED <<held, stream, loaded>> /\ stream[r] = <<>> /\ ~request[r].valid
      /\ packed'[r] = <<>> /\ packedSize'[r] = 0 /\ Len(<<>>) = 0
      /\ request'[r].weights = packed[r] /\ request'[r].valid
  BY <1>0 DEF SendBucket, SendLast, Synchronized, Running, Request, PackTypeOK
<1>3. request[r].weights = <<>>
  BY <1>0, <1>2 DEF OrderInv
<1>4. CopiesInPlace(r)' /\ PackedInPlace(r)'
  BY <1>2, TransferConstants DEF CopiesInPlace, PackedInPlace
<1>5. HeldInPlace(r)' /\ MergedInPlace(r)'
  BY <1>0, <1>1, <1>2 DEF PackInv, HeldInPlace, MergedInPlace
<1>6. RequestInPlace(r)'
  <2>1. ASSUME NEW i \in 1 .. Len(packed[r])
        PROVE  /\ packed[r][i].buffer = Ipc(r)
               /\ packed[r][i].at + size[packed[r][i].weight] <= BucketSize + MaxSize
               /\ ComingView(size, memory, stream[r], packed[r][i])
    <3>1. /\ packed[r][i].buffer = Ipc(r) /\ ComingView(size, memory, stream[r], packed[r][i])
          /\ packed[r][i].at + size[packed[r][i].weight] <= packedSize[r]
          /\ packedSize[r] <= BucketSize /\ packedSize[r] \in Nat
      BY <1>0 DEF PackTypeOK, PackInv, PackedInPlace
    <3>2. packed[r][i] \in Views
      BY <1>0 DEF PackTypeOK
    <3>3. packed[r][i].at \in Nat /\ size[packed[r][i].weight] \in Nat
      BY <1>0, <3>2, ViewTypes, Zenon
    <3>4. packed[r][i].at + size[packed[r][i].weight] <= BucketSize + MaxSize
      BY <3>1, <3>3, TransferConstants
    <3> QED BY <3>1, <3>4, Zenon
  <2> QED BY <1>1, <1>2, <2>1 DEF RequestInPlace
<1>7. OrderInv(r)'
  <2>1. \A i : Exact(i)' = Exact(i)
    BY <1>1, SizesStay
  <2>2. Len(loaded[r]) \in Nat /\ Len(packed[r]) \in Nat
    BY <1>0 DEF TransferTypeOK, PackTypeOK
  <2>3. InRequest(r)' = InRequest(r) /\ InPacked(r) = InRequest(r) /\ InRequest(r) \in Nat
    BY <1>2, <1>3, <2>2 DEF InRequest, InPacked
  <2>4. InPacked(r)' = InRequest(r) + Len(packed[r]) /\ InHand(r) = InRequest(r) + Len(packed[r])
    BY <1>2, <2>3 DEF InPacked, InHand
  <2>5. InHand(r)' = InHand(r)
    <3>1. InHand(r)' = InPacked(r)' + 0
      BY <1>2 DEF InHand
    <3> QED BY <2>2, <2>3, <2>4, <3>1
  <2>6. \A i \in 1 .. Len(request'[r].weights) : request'[r].weights[i].weight = InRequest(r)' + i
    BY <1>0, <1>2, <2>3 DEF OrderInv
  <2>7. \A i \in 1 .. Len(packed'[r]) : packed'[r][i].weight = InPacked(r)' + i
    BY <1>2
  <2> QED BY <1>0, <1>1, <1>2, <2>1, <2>5, <2>6, <2>7 DEF OrderInv
<1> QED BY <1>1, <1>4, <1>5, <1>6, <1>7 DEF WorkerInv, PackInv

LEMMA SendBucketKeeps ==
    ASSUME TransferInv, NEW r \in Worker, SendBucket(r)
    PROVE  WorkerInv(r)'
<1>1. ~finished'[r]
  BY DEF SendBucket, Running
<1> QED BY <1>1, SendsPacked

\* When the last bucket is read there is nothing left to pull.
LEMMA SendLastKeeps ==
    ASSUME TransferInv, NEW r \in Worker, SendLast(r)
    PROVE  WorkerInv(r)'
<1>0. TransferTypeOK /\ TrainerInv /\ ReceiveTypeOK /\ ReceiveInv(r)
  BY Parts, Zenon
<1>1. held[r] = Nothing /\ BucketRead(r) /\ metadata[r].isLast
  BY DEF SendLast
<1>2. sent /\ ~UnderWay(r) /\ ~arrived[r].valid /\ ~MoreChunks
  BY <1>0, <1>1 DEF ReceiveInv, TrainerInv
<1>3. Untaken(r) = cut
  BY <1>2 DEF Untaken, Unreceived, Unsent
<1>4. Unpulled(r) = cut
  <2>1. metadata[r].chunks \in Seq(Chunk) /\ chunk[r] \in Nat
    BY <1>0 DEF ReceiveTypeOK, Metadata
  <2> QED BY <1>1, <1>3, <2>1 DEF Unpulled, Place, BucketRead
<1>5. Unpulled(r)[1] > NumWeights
  <2>1. cut[1] \in Nat
    BY <1>0, TransferConstants DEF TransferTypeOK, TrainerTypeOK
  <2> QED BY <1>2, <1>4, <2>1, TransferConstants DEF MoreChunks
<1> QED BY <1>1, <1>5, SendsPacked

\* A weight that fits no bucket goes alone, out of the buffer it was merged in.
LEMMA SendLargeKeeps ==
    ASSUME TransferInv, NEW r \in Worker, SendLarge(r)
    PROVE  WorkerInv(r)'
<1>0. TransferTypeOK /\ PackTypeOK /\ PackInv(r) /\ OrderInv(r)
  BY Parts, Zenon
<1>1. /\ UNCHANGED <<size, memory>> /\ Unpulled(r)' = Unpulled(r) /\ ReceiveInv(r)'
      /\ Here(r)' = Here(r) /\ Ipc(r)' = Ipc(r) /\ Merge(r)' = Merge(r)
  BY PackSteps
<1>2. /\ UNCHANGED <<packed, packedSize, finished, stream, loaded>>
      /\ packed[r] = <<>> /\ held[r] # Nothing /\ held'[r] = Nothing
      /\ ~request[r].valid /\ ~finished[r] /\ ~PackFits(r)
      /\ request'[r].weights = <<held[r]>> /\ request'[r].valid
  BY <1>0 DEF SendLarge, Running, Request, PackTypeOK
<1>3. request[r].weights = <<>> /\ Len(<<>>) = 0 /\ Len(<<held[r]>>) = 1 /\ <<held[r]>>[1] = held[r]
  BY <1>0, <1>2 DEF OrderInv
<1>4. held[r] \in Views /\ size[held[r].weight] \in 1 .. MaxSize /\ held[r].at \in Nat
  BY <1>0, <1>2 DEF PackTypeOK, Views, TransferTypeOK
<1>5. /\ held[r].buffer = Merge(r) /\ held[r].at = 0 /\ Unpulled(r)[2] = 0
      /\ ComingView(size, memory, stream[r], held[r])
  <2>1. packedSize[r] = 0 /\ size[held[r].weight] > BucketSize
    BY <1>0, <1>2, <1>4, TransferConstants DEF PackFits, HeldSize, PackInv, PackedInPlace
  <2> QED BY <1>0, <1>2, <1>4, <2>1, TransferConstants DEF PackInv, HeldInPlace
<1>6. MergeInUse(r)'
  <2>1. 1 \in 1 .. Len(request'[r].weights) /\ request'[r].weights[1].buffer = Merge(r)'
    BY <1>1, <1>2, <1>3, <1>5
  <2> QED BY <2>1 DEF MergeInUse
<1>7. CopiesInPlace(r)'
  BY <1>0, <1>1, <1>2, <1>5, <1>6 DEF PackInv, CopiesInPlace
<1>8. PackedInPlace(r)' /\ HeldInPlace(r)' /\ MergedInPlace(r)'
  BY <1>0, <1>1, <1>2 DEF PackInv, PackedInPlace, HeldInPlace, MergedInPlace
<1>9. RequestInPlace(r)'
  <2>1. held[r].at + size[held[r].weight] <= BucketSize + MaxSize
    BY <1>4, <1>5, TransferConstants
  <2>2. \A i \in 1 .. Len(request'[r].weights) : request'[r].weights[i] = held[r]
    BY <1>2, <1>3
  <2> QED BY <1>1, <1>2, <1>5, <2>1, <2>2 DEF RequestInPlace
<1>10. OrderInv(r)'
  <2>1. \A i : Exact(i)' = Exact(i)
    BY <1>1, SizesStay
  <2>2. Len(loaded[r]) \in Nat
    BY <1>0 DEF TransferTypeOK
  <2>3. InRequest(r)' = InRequest(r) /\ InRequest(r) \in Nat /\ InPacked(r) = InRequest(r)
        /\ InHand(r) = InRequest(r)
    BY <1>2, <1>3, <2>2 DEF InRequest, InPacked, InHand
  <2>4. InPacked(r)' = InRequest(r) + 1 /\ InHand(r)' = InRequest(r) + 1
    BY <1>2, <1>3, <2>3 DEF InPacked, InHand
  <2>5. held[r].weight = InRequest(r) + 1 /\ Unpulled(r)[1] = InRequest(r) + 2
    BY <1>0, <1>2, <2>3 DEF OrderInv
  <2>6. \A i \in 1 .. Len(request'[r].weights) : request'[r].weights[i].weight = InRequest(r)' + i
    BY <1>2, <1>3, <2>3, <2>5
  <2>7. Unpulled(r)'[1] = InHand(r)' + 1
    BY <1>1, <2>3, <2>4, <2>5
  <2>8. \A i \in 1 .. Len(packed'[r]) : packed'[r][i].weight = InPacked(r)' + i
    BY <1>2, <1>3
  <2> QED BY <1>0, <1>2, <2>1, <2>3, <2>6, <2>7, <2>8 DEF OrderInv
<1> QED BY <1>1, <1>7, <1>8, <1>9, <1>10 DEF WorkerInv, PackInv

\* With nothing queued on the stream the engine reads what it is to be given.
LEMMA LoadFacts ==
    ASSUME TransferInv, NEW r \in Worker, LoadBucket(r)
    PROVE  \E weights \in Seq(Whole) :
              /\ loaded' = [loaded EXCEPT ![r] = @ \o weights]
              /\ Len(weights) = Len(request[r].weights)
              /\ \A i \in 1 .. Len(weights) : weights[i] = Exact(Len(loaded[r]) + i)
<1>. DEFINE views == request[r].weights
            weights == [i \in DOMAIN views |-> [weight |-> views[i].weight,
                                                bytes  |-> Bytes(views[i])]]
<1>0. TransferTypeOK /\ PackTypeOK /\ PackInv(r) /\ OrderInv(r)
  BY Parts, Zenon
<1>1. stream[r] = <<>> /\ loaded' = [loaded EXCEPT ![r] = @ \o weights] /\ Len(<<>>) = 0
  BY DEF LoadBucket
<1>2. views \in Seq(Views) /\ DOMAIN views = 1 .. Len(views)
  BY <1>0 DEF PackTypeOK, Requests
<1>3. ASSUME NEW i \in 1 .. Len(views)
      PROVE  /\ views[i].weight = Len(loaded[r]) + i /\ views[i].weight \in Weight
             /\ Bytes(views[i]) = [j \in 0 .. size[views[i].weight] - 1 |-> <<views[i].weight, j>>]
  <2>1. views[i].weight \in Weight
    <3> HIDE DEF views
    <3>1. views[i] \in Views
      BY <1>2
    <3> QED BY <3>1 DEF Views
  <2>2. views[i].weight = Len(loaded[r]) + i
    BY <1>0 DEF OrderInv, InRequest
  <2>3. ComingView(size, memory, stream[r], views[i])
    BY <1>0, Zenon DEF PackInv, RequestInPlace
  <2> HIDE DEF views
  <2>4. ASSUME NEW j \in 0 .. size[views[i].weight] - 1
        PROVE  memory[views[i].buffer][views[i].at + j] = <<views[i].weight, j>>
    <3>1. Coming(memory, stream[r], views[i].buffer, views[i].at + j, <<views[i].weight, j>>)
      BY <2>3, Zenon DEF ComingView
    <3>2. 1 .. Len(stream[r]) = {}
      BY <1>1
    <3> QED BY <3>1, <3>2, Zenon DEF Coming
  <2> QED BY <2>1, <2>2, <2>4 DEF Bytes
<1>. HIDE DEF views
<1>4. ASSUME NEW i \in 1 .. Len(views)
      PROVE  weights[i] = Exact(Len(loaded[r]) + i) /\ weights[i] \in Whole
  <2>1. weights[i] = [weight |-> views[i].weight, bytes |-> Bytes(views[i])]
    BY <1>2
  <2>2. weights[i] = Exact(views[i].weight)
    BY <1>3, <2>1 DEF Exact
  <2> QED BY <1>3, <2>2 DEF Whole
<1>5. Len(views) \in Nat
  BY <1>2
<1>6. weights \in [1 .. Len(views) -> Whole]
  BY <1>2, <1>4
<1>. HIDE DEF weights
<1>7. weights \in Seq(Whole) /\ Len(weights) = Len(views)
  BY <1>5, <1>6
<1> QED BY <1>1, <1>4, <1>7 DEF views

LEMMA LoadType ==
    ASSUME TransferInv, NEW r \in Worker, LoadBucket(r)
    PROVE  TransferTypeOK'
<1>1. PICK weights \in Seq(Whole) : loaded' = [loaded EXCEPT ![r] = @ \o weights]
  BY LoadFacts
<1>2. TransferTypeOK
  BY DEF TransferInv
<1>3. loaded' \in [Worker -> Seq(Whole)]
  <2>1. loaded \in [Worker -> Seq(Whole)]
    BY <1>2 DEF TransferTypeOK
  <2>2. loaded[r] \o weights \in Seq(Whole)
    BY <2>1
  <2> QED BY <1>1, <2>1, <2>2
<1>4. Whole' = Whole
  BY SizesStay DEF LoadBucket
<1>5. NoRequest \in Requests
  BY DEF NoRequest, Requests
<1>6. PackTypeOK'
  BY <1>2, <1>5 DEF LoadBucket, PackTypeOK, TransferTypeOK
<1>7. TrainerTypeOK' /\ ReceiveTypeOK'
  BY <1>2, TypesStay DEF LoadBucket, TransferTypeOK
<1> QED BY <1>2, <1>3, <1>4, <1>6, <1>7 DEF LoadBucket, TransferTypeOK

LEMMA LoadKeeps ==
    ASSUME TransferInv, NEW r \in Worker, LoadBucket(r)
    PROVE  WorkerInv(r)'
<1>0. TransferTypeOK /\ PackTypeOK /\ PackInv(r) /\ OrderInv(r)
  BY Parts, Zenon
<1>1. /\ UNCHANGED <<size, memory>> /\ Unpulled(r)' = Unpulled(r) /\ ReceiveInv(r)'
      /\ Here(r)' = Here(r) /\ Ipc(r)' = Ipc(r) /\ Merge(r)' = Merge(r)
  BY PackSteps
<1>2. /\ UNCHANGED <<held, stream, packed, packedSize, finished>>
      /\ stream[r] = <<>> /\ Len(<<>>) = 0 /\ request'[r] = NoRequest
      /\ request'[r].weights = <<>>
  BY <1>0 DEF LoadBucket, NoRequest, PackTypeOK
<1>3. PICK weights \in Seq(Whole) :
          /\ loaded' = [loaded EXCEPT ![r] = @ \o weights]
          /\ Len(weights) = Len(request[r].weights)
          /\ \A i \in 1 .. Len(weights) : weights[i] = Exact(Len(loaded[r]) + i)
  BY LoadFacts
<1>4. loaded[r] \in Seq(Whole) /\ loaded'[r] = loaded[r] \o weights
  BY <1>0, <1>3 DEF TransferTypeOK
<1>. DEFINE n == Len(loaded[r])
            m == Len(weights)
<1>5. /\ n \in Nat /\ m \in Nat /\ Len(loaded'[r]) = n + m
      /\ \A i \in 1 .. n : loaded'[r][i] = loaded[r][i]
      /\ \A i \in n + 1 .. n + m : loaded'[r][i] = weights[i - n]
  BY <1>4
<1>. HIDE DEF n, m
<1>6. CopiesInPlace(r)' /\ RequestInPlace(r)'
  BY <1>2 DEF CopiesInPlace, RequestInPlace
<1>7. PackedInPlace(r)' /\ HeldInPlace(r)' /\ MergedInPlace(r)'
  BY <1>0, <1>1, <1>2 DEF PackInv, PackedInPlace, HeldInPlace, MergedInPlace
<1>8. OrderInv(r)'
  <2>1. \A i : Exact(i)' = Exact(i)
    BY <1>1, SizesStay
  <2>2. InRequest(r)' = n + m /\ InPacked(r) = n + m
    BY <1>3, <1>5 DEF InRequest, InPacked, n, m
  <2>3. InPacked(r)' = InPacked(r)
    <3>1. InPacked(r)' = (n + m) + 0
      BY <1>2, <2>2 DEF InPacked
    <3> QED BY <1>5, <2>2, <3>1
  <2>4. InHand(r)' = InHand(r)
    BY <1>2, <2>3 DEF InHand
  <2>5. \A i \in 1 .. Len(loaded'[r]) : loaded'[r][i] = Exact(i)'
    <3>1. TAKE i \in 1 .. Len(loaded'[r])
    <3>2. CASE i \in 1 .. n
      <4>1. loaded[r][i] = Exact(i)
        BY <1>0, <3>2 DEF OrderInv, n
      <4> QED BY <1>5, <2>1, <3>2, <4>1
    <3>3. CASE i \in n + 1 .. n + m
      <4>1. i - n \in 1 .. m /\ n + (i - n) = i
        BY <1>5, <3>3
      <4>2. weights[i - n] = Exact(n + (i - n))
        BY <1>3, <4>1 DEF n, m
      <4>3. loaded'[r][i] = weights[i - n]
        BY <1>5, <3>3
      <4>4. loaded'[r][i] = Exact(i)
        BY <4>1, <4>2, <4>3
      <4> QED BY <2>1, <4>4
    <3> QED BY <1>5, <3>2, <3>3
  <2>6. \A i \in 1 .. Len(request'[r].weights) : request'[r].weights[i].weight = InRequest(r)' + i
    BY <1>2
  <2> QED BY <1>0, <1>1, <1>2, <2>3, <2>4, <2>5, <2>6 DEF OrderInv
<1> QED BY <1>1, <1>6, <1>7, <1>8 DEF WorkerInv, PackInv

-----------------------------------------------------------------------------
(* The invariant                                                           *)

LEMMA InitTransfer == Init => TransferInv
<1>. SUFFICES ASSUME Init PROVE TransferInv
  OBVIOUS
<1>1. Len(<<>>) = 0 /\ 1 .. 0 = {} /\ 0 .. -1 = {}
  OBVIOUS
<1>2. TrainerTypeOK /\ ReceiveTypeOK
  <2>1. TrainerTypeOK
    <3>1. cut \in (1 .. NumWeights + 1) \X Nat
      <4>1. 1 \in 1 .. NumWeights + 1
        BY TransferConstants
      <4> QED BY <4>1 DEF Init
    <3>2. offset \in 0 .. BucketSize /\ bucketMeta \in Seq(Chunk)
      BY TransferConstants DEF Init
    <3> QED BY <3>1, <3>2 DEF Init, TrainerTypeOK
  <2>2. NoMetadata \in Metadata
    BY DEF NoMetadata, Metadata
  <2>3. ReceiveTypeOK
    BY <2>2 DEF Init, ReceiveTypeOK
  <2> QED BY <2>1, <2>3
<1>3. PackTypeOK
  BY DEF Init, PackTypeOK, NoRequest, Requests
<1>4. memory \in [Buffer -> [Cell -> Byte]]
  BY DEF Init, Garbage, Byte
<1>5. TransferTypeOK
  BY <1>2, <1>3, <1>4 DEF Init, TransferTypeOK
<1>6. /\ cut = <<1, 0>> /\ cut[1] = 1 /\ cut[2] = 0 /\ ~sent /\ bucketMeta = <<>>
      /\ broadcast = NoBroadcast
  BY DEF Init
<1>7. PlaceOK(size, cut)
  <2>1. size[1] \in 1 .. MaxSize
    <3>1. 1 \in Weight
      BY TransferConstants DEF Weight
    <3> QED BY <3>1, Zenon DEF Init
  <2> QED BY <1>6, <2>1, TransferConstants DEF PlaceOK
<1>8. TrainerInv
  BY <1>1, <1>6, <1>7 DEF TrainerInv, Follow
<1>9. ASSUME NEW r \in Worker PROVE WorkerInv(r)
  <2>1. /\ posted[r] = "a" /\ reading[r] = "b" /\ arrived[r] = NoMetadata
        /\ metadata[r] = NoMetadata /\ chunk[r] = 1 /\ held[r] = Nothing /\ stream[r] = <<>>
        /\ packed[r] = <<>> /\ packedSize[r] = 0 /\ request[r] = NoRequest
        /\ ~finished[r] /\ loaded[r] = <<>>
    BY DEF Init
  <2>2. /\ arrived[r].chunks = <<>> /\ ~arrived[r].valid /\ ~arrived[r].isLast
        /\ metadata[r].chunks = <<>> /\ ~metadata[r].isLast
        /\ request[r].weights = <<>> /\ ~request[r].valid
    BY <2>1 DEF NoMetadata, NoRequest
  <2>3. Unpulled(r) = cut
    BY <1>1, <1>6, <2>1, <2>2 DEF Unpulled, Untaken, Unreceived, Unsent, UnderWay, Place
  <2>4. ReceiveInv(r)
    BY <1>1, <2>1, <2>2 DEF ReceiveInv, Other, Follow
  <2>5. PackInv(r)
    <3>1. CopiesInPlace(r) /\ PackedInPlace(r)
      BY <1>1, <2>1, TransferConstants DEF CopiesInPlace, PackedInPlace
    <3>2. HeldInPlace(r) /\ RequestInPlace(r)
      BY <1>1, <2>1, <2>2 DEF HeldInPlace, RequestInPlace
    <3>3. MergedInPlace(r)
      BY <1>1, <1>6, <2>3 DEF MergedInPlace
    <3> QED BY <3>1, <3>2, <3>3 DEF PackInv
  <2>6. OrderInv(r)
    <3>1. InRequest(r) = 0 /\ InPacked(r) = 0 /\ InHand(r) = 0
      BY <1>1, <2>1, <2>2 DEF InRequest, InPacked, InHand
    <3> QED BY <1>1, <1>6, <2>1, <2>2, <2>3, <3>1 DEF OrderInv
  <2> QED BY <2>4, <2>5, <2>6 DEF WorkerInv
<1> QED BY <1>5, <1>8, <1>9 DEF TransferInv

\* The Trainer's steps disturb no rank.
LEMMA SendsKeep ==
    ASSUME TransferInv, Sends
    PROVE  TransferInv'
<1>0. TransferTypeOK /\ TrainerInv /\ ReceiveTypeOK /\ \A r \in Worker : WorkerInv(r)
  BY DEF TransferInv, TransferTypeOK
<1>1. TransferTypeOK'
  BY <1>0, SendsType
<1>2. /\ UNCHANGED <<size, stream, loaded>> /\ UNCHANGED receiveVars /\ UNCHANGED packVars
  BY DEF Sends, FillBucket, Broadcast, BroadcastLast
<1>3. /\ TrainerInv' /\ \A r \in Worker : RouteStays(r)
      /\ \A b \in Buffer : b[1] # Trainer => memory'[b] = memory[b]
  <2>1. CASE FillBucket
    <3>1. /\ TrainerInv' /\ Unsent' = Unsent
          /\ \A b \in Buffer : b[1] # Trainer => memory'[b] = memory[b]
      BY <1>0, <2>1, FillKeepsTrainer
    <3>2. UNCHANGED <<broadcast, sent>>
      BY <2>1 DEF FillBucket
    <3> QED BY <3>1, <3>2 DEF RouteStays, Unreceived, UnderWay
  <2>2. CASE Broadcast \/ BroadcastLast
    <3>1. UNCHANGED memory
      BY <2>2 DEF Broadcast, BroadcastLast
    <3> QED BY <1>0, <2>2, <3>1, BroadcastKeepsTrainer
  <2> QED BY <2>1, <2>2 DEF Sends
<1>4. ASSUME NEW r \in Worker PROVE WorkerInv(r)'
  <2>1. \A x \in {"a", "b", "ipc", "merge"} : memory'[<<r, x>>] = memory[<<r, x>>]
    BY <1>3, TransferConstants
  <2>2. UNCHANGED <<posted[r], arrived[r], reading[r], metadata[r], chunk[r], held[r],
                    stream[r], packed[r], packedSize[r], request[r], finished[r], loaded[r]>>
    BY <1>2 DEF receiveVars, packVars
  <2> QED BY <1>0, <1>2, <1>3, <2>1, <2>2, WorkerUndisturbed
<1> QED BY <1>1, <1>3, <1>4 DEF TransferInv

LEMMA WorksKeeps ==
    ASSUME TransferInv, NEW r \in Worker, Works(r)
    PROVE  WorkerInv(r)'
BY TakeKeeps, PullKeeps, PackKeeps, SendBucketKeeps, SendLargeKeeps, SendLastKeeps DEF Works

LEMMA WorkerKeeps ==
    ASSUME TransferInv, NEW r \in Worker, Deliver(r) \/ Works(r) \/ RunCopy(r) \/ LoadBucket(r)
    PROVE  TransferInv'
<1>0. TransferTypeOK /\ PackInv(r)
  BY DEF TransferInv, WorkerInv
<1>1. CASE Deliver(r)
  BY <1>0, <1>1, DeliverType, DeliverKeeps DEF TransferInv
<1>2. CASE Works(r) \/ RunCopy(r) \/ LoadBucket(r)
  <2>1. TransferTypeOK'
    BY <1>0, <1>2, WorksType, RunCopyType, LoadType
  <2>2. TrainerInv' /\ \A s \in Worker : s # r => WorkerInv(s)'
    BY <1>2, OwnStep
  <2>3. WorkerInv(r)'
    BY <1>2, WorksKeeps, RunCopyKeeps, LoadKeeps
  <2> QED BY <2>1, <2>2, <2>3 DEF TransferInv
<1> QED BY <1>1, <1>2

LEMMA IdleKeeps ==
    ASSUME TransferInv, UNCHANGED vars
    PROVE  TransferInv'
<1>0. TransferTypeOK /\ TrainerInv /\ ReceiveTypeOK /\ \A r \in Worker : WorkerInv(r)
  BY DEF TransferInv, TransferTypeOK
<1>1. /\ UNCHANGED <<size, memory, stream, loaded>> /\ UNCHANGED trainerVars
      /\ UNCHANGED receiveVars /\ UNCHANGED packVars
  BY DEF vars
<1>2. TransferTypeOK'
  BY <1>0, <1>1, TypesStay, SizesStay DEF TransferTypeOK
<1>3. UNCHANGED <<cut, filling, bucketMeta, offset, broadcast, sent>>
  BY <1>1 DEF trainerVars
<1>4. TrainerInv' /\ Unsent' = Unsent
  BY <1>0, <1>1, <1>3, TrainerUndisturbed
<1>5. ASSUME NEW r \in Worker PROVE WorkerInv(r)'
  <2>1. RouteStays(r)
    BY <1>3, <1>4 DEF RouteStays, Unreceived, UnderWay
  <2>2. UNCHANGED <<posted[r], arrived[r], reading[r], metadata[r], chunk[r], held[r],
                    stream[r], packed[r], packedSize[r], request[r], finished[r], loaded[r]>>
    BY <1>1 DEF receiveVars, packVars
  <2> QED BY <1>0, <1>1, <2>1, <2>2, WorkerUndisturbed
<1> QED BY <1>2, <1>4, <1>5 DEF TransferInv

LEMMA NextTransfer == TransferInv /\ [Next]_vars => TransferInv'
BY SendsKeep, WorkerKeeps, IdleKeeps DEF Next, Terminating

LEMMA TransferInvariant == Spec => []TransferInv
BY InitTransfer, NextTransfer, PTL DEF Spec

-----------------------------------------------------------------------------
(* What an engine is given                                                 *)

LEMMA ExactlyDelivered == TransferInv => DeliversExactly
<1>. DEFINE Given(r) == /\ \A i \in DOMAIN loaded[r] : loaded[r][i] = Exact(i)
                        /\ Done(r) => Len(loaded[r]) = NumWeights
<1>. SUFFICES ASSUME TransferInv, NEW r \in Worker PROVE Given(r)
  BY Zenon DEF DeliversExactly, Exact
<1>0. TransferTypeOK /\ OrderInv(r)
  BY DEF TransferInv, WorkerInv
<1>1. DOMAIN loaded[r] = 1 .. Len(loaded[r]) /\ Len(loaded[r]) \in Nat
  BY <1>0 DEF TransferTypeOK
<1>2. ASSUME Done(r) PROVE Len(loaded[r]) = NumWeights
  <2>1. /\ request[r].weights = <<>> /\ packed[r] = <<>> /\ held[r] = Nothing
        /\ Unpulled(r)[1] > NumWeights /\ Len(<<>>) = 0
    BY <1>0, <1>2 DEF Done, OrderInv
  <2>2. InHand(r) = Len(loaded[r])
    BY <1>1, <2>1 DEF InHand, InPacked, InRequest
  <2>3. Unpulled(r)[1] = Len(loaded[r]) + 1
    BY <1>0, <2>1, <2>2 DEF OrderInv
  <2>4. Unpulled(r)[1] <= NumWeights + 1
    <3>1. Unpulled(r)[1] \in 1 .. NumWeights + 1
      BY UnpulledInWeight
    <3> QED BY <3>1, TransferConstants
  <2> QED BY <1>1, <2>1, <2>3, <2>4, TransferConstants
<1> QED BY <1>0, <1>1, <1>2 DEF OrderInv

\* However weights fall into buckets and whenever copies are made, an engine is
\* given the model's weights from the first on, each once and whole: what
\* receive_weights, merge_weight_chunks and BucketedWeightSender pass on as
\* views has its bytes until they are read.
THEOREM DeliveredExactly == Spec => []DeliversExactly
BY TransferInvariant, ExactlyDelivered, PTL

=============================================================================

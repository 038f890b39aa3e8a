-------------------------- MODULE WeightTransfer ---------------------------
(***************************************************************************)
(* One weight synchronisation, byte by byte: rank 0 of the Trainer cuts    *)
(* the weights into chunks and broadcasts them in buckets, every rollout   *)
(* worker puts them together again and hands them on, bucket by bucket, to *)
(* the process of the inference engine, which loads them.                  *)
(*                                                                         *)
(*   verl/checkpoint_engine/base.py                  chunks                *)
(*   verl/checkpoint_engine/nccl_checkpoint_engine.py   broadcasts         *)
(*   verl/workers/rollout/vllm_rollout/bucketed_weight_transfer.py         *)
(*                                                                         *)
(* Both ends of the broadcast own two buffers and use one while the other  *)
(* is under way; a weight of at most one bucket is never copied out: what  *)
(* the generators pass on is a view into the buffer it arrived in, and the *)
(* copies made of it are queued on the worker's CUDA stream and done later *)
(* (non_blocking).  A weight is a number, its bytes are pairs <<w, i>>.    *)
(*                                                                         *)
(* Abstractions.  The Trainer's own copies are done when they are made: a  *)
(* synchronize precedes each broadcast.  A broadcast blocks the thread it  *)
(* runs in, reads the Trainer's buffer once for each rank at any moment    *)
(* before it is over, and brings its bucket_meta, published over ZeroMQ,   *)
(* along (external: ray.util.collective; subscribers have joined).         *)
(***************************************************************************)
EXTENDS Integers, Sequences

CONSTANTS
    Worker,       \* ranks of the rollout side
    NumWeights,
    MaxSize,      \* bound: bytes of a weight
    BucketSize    \* update_weights_bucket_megabytes, the same everywhere

Trainer == "trainer"

ASSUME TransferAssumption ==
    /\ Worker # {}
    /\ Trainer \notin Worker
    /\ {NumWeights, MaxSize, BucketSize} \subseteq Nat \ {0}

Weight == 1 .. NumWeights

VARIABLES
    size,      \* weight -> its bytes
    memory,    \* buffer -> offset -> byte
    \* rank 0 of the Trainer
    cut,       \* the chunk to be sent next: weight and chunk_offset
    filling,   \* its send_buf: "a" or "b"
    bucketMeta,\* of the bucket it fills
    offset,    \* bytes in it
    broadcast, \* broadcast_op: buffer, metadata, ranks it has not reached
    sent,      \* the last bucket is under way
    \* worker -> state of its generators and of its BucketedWeightSender
    posted,    \* the buffer its own broadcast_op receives into
    arrived,   \* metadata of that operation when it is over
    reading,   \* the buffer the chunks are views of: its send_buf
    metadata,  \* of the bucket in it
    chunk,     \* position in it
    held,      \* weight pulled and not yet put into the IPC bucket
    stream,    \* copies queued on its CUDA stream
    packed,    \* bucket_meta of the IPC bucket
    packedSize,\* bytes in it
    request,   \* message to the engine's process that has no reply yet
    finished,  \* the message with is_last has been sent
    loaded     \* worker -> the weights its engine was given, in order

trainerVars == <<cut, filling, bucketMeta, offset, broadcast, sent>>
receiveVars == <<posted, arrived, reading, metadata, chunk>>
packVars    == <<held, packed, packedSize, request, finished>>

vars == <<size, memory, trainerVars, receiveVars, stream, packVars, loaded>>

Other(buffer) == IF buffer = "a" THEN "b" ELSE "a"
Smaller(m, n) == IF m < n THEN m ELSE n

Nothing == [weight |-> 0]               \* no weight held
NoBroadcast == [buffer |-> "none"]
NoMetadata == [chunks |-> <<>>, isLast |-> FALSE, valid |-> FALSE]
NoRequest == [weights |-> <<>>, isLast |-> FALSE, valid |-> FALSE]

Buffer == {Trainer} \X {"a", "b"} \cup Worker \X {"a", "b", "ipc", "merge"}
Cell == 0 .. (BucketSize + MaxSize)
Garbage == <<0, 0>>

Init ==
    /\ size \in [Weight -> 1 .. MaxSize]
    /\ memory = [b \in Buffer |-> [i \in Cell |-> Garbage]]
    /\ cut = <<1, 0>>
    /\ filling = "a" /\ bucketMeta = <<>> /\ offset = 0
    /\ broadcast = NoBroadcast /\ sent = FALSE
    /\ posted = [r \in Worker |-> "a"]
    /\ arrived = [r \in Worker |-> NoMetadata]
    /\ reading = [r \in Worker |-> "b"]
    /\ metadata = [r \in Worker |-> NoMetadata]
    /\ chunk = [r \in Worker |-> 1]
    /\ held = [r \in Worker |-> Nothing]
    /\ stream = [r \in Worker |-> <<>>]
    /\ packed = [r \in Worker |-> <<>>]
    /\ packedSize = [r \in Worker |-> 0]
    /\ request = [r \in Worker |-> NoRequest]
    /\ finished = [r \in Worker |-> FALSE]
    /\ loaded = [r \in Worker |-> <<>>]

\* a buffer with bytes (counted from 0) written from position at on
Written(cells, at, bytes) ==
    [i \in Cell |-> IF i - at \in DOMAIN bytes THEN bytes[i - at] ELSE cells[i]]

-----------------------------------------------------------------------------
(***************************************************************************)
(* The Trainer: split_weight_chunks and send_weights.                      *)
(***************************************************************************)
MoreChunks == cut[1] <= NumWeights

ChunkSize == Smaller(BucketSize, size[cut[1]] - cut[2])

\* split_weight_chunks: the next chunk of the weight, or the next weight
NextCut ==
    IF cut[2] + ChunkSize < size[cut[1]]
    THEN <<cut[1], cut[2] + ChunkSize>> ELSE <<cut[1] + 1, 0>>

Fits == offset + ChunkSize <= BucketSize

FillBucket ==
    /\ MoreChunks /\ Fits
    /\ memory' = [memory EXCEPT ![<<Trainer, filling>>] =
           Written(@, offset, [i \in 0 .. ChunkSize - 1 |-> <<cut[1], cut[2] + i>>])]
    /\ bucketMeta' = Append(bucketMeta,
           [weight |-> cut[1], chunkOffset |-> cut[2],
            chunkSize |-> ChunkSize, offset |-> offset])
    /\ offset' = offset + ChunkSize
    /\ cut' = NextCut
    /\ UNCHANGED <<size, filling, broadcast, sent, receiveVars, stream,
                   packVars, loaded>>

Operation(isLast) ==
    [buffer |-> filling, left |-> Worker,
     metadata |-> [chunks |-> bucketMeta, isLast |-> isLast, valid |-> TRUE]]

\* wait_for_complete of the previous operation
PreviousDone == broadcast = NoBroadcast

\* a full bucket: broadcast it and go on in the other buffer
Broadcast ==
    /\ MoreChunks /\ ~Fits
    /\ PreviousDone
    /\ broadcast' = Operation(FALSE)
    /\ filling' = Other(filling)
    /\ bucketMeta' = <<>> /\ offset' = 0
    /\ UNCHANGED <<size, memory, cut, sent, receiveVars, stream, packVars,
                   loaded>>

\* Mutant: the last bucket is not marked.
LastBucket_Unmarked == Operation(FALSE)

LastBucket == Operation(TRUE)

BroadcastLast ==
    /\ ~MoreChunks /\ ~sent
    /\ PreviousDone
    /\ broadcast' = LastBucket
    /\ sent' = TRUE
    /\ UNCHANGED <<size, memory, cut, filling, bucketMeta, offset, receiveVars,
                   stream, packVars, loaded>>

\* the broadcast reaches one rank; with the last one it is over
Deliver(r) ==
    /\ broadcast # NoBroadcast
    /\ r \in broadcast.left
    /\ posted[r] # "none"
    /\ memory' = [memory EXCEPT ![<<r, posted[r]>>] =
                                    memory[<<Trainer, broadcast.buffer>>]]
    /\ arrived' = [arrived EXCEPT ![r] = broadcast.metadata]
    /\ posted' = [posted EXCEPT ![r] = "none"]
    /\ broadcast' = IF broadcast.left = {r} THEN NoBroadcast
                    ELSE [broadcast EXCEPT !.left = @ \ {r}]
    /\ UNCHANGED <<size, cut, filling, bucketMeta, offset, sent, reading,
                   metadata, chunk, stream, packVars, loaded>>

-----------------------------------------------------------------------------
(***************************************************************************)
(* A rollout worker: one thread pulls weights through receive_weights and  *)
(* merge_weight_chunks and packs them; it stands still until the engine's  *)
(* process has replied to a request.                                       *)
(***************************************************************************)
Running(r) == ~finished[r] /\ ~request[r].valid

BucketRead(r) == chunk[r] > Len(metadata[r].chunks)

\* Mutant: the copies out of the buffer may still be queued.
Synchronized_Not(r) == TRUE

\* torch.cuda.synchronize()
Synchronized(r) == stream[r] = <<>>

\* await the bucket, swap the buffers, start to receive the next one
TakeBucket(r) ==
    /\ Running(r) /\ held[r] = Nothing
    /\ BucketRead(r) /\ ~metadata[r].isLast
    /\ arrived[r].valid
    /\ Synchronized(r)
    /\ metadata' = [metadata EXCEPT ![r] = arrived[r]]
    /\ arrived' = [arrived EXCEPT ![r] = NoMetadata]
    /\ reading' = [reading EXCEPT ![r] = Other(@)]
    /\ posted' = [posted EXCEPT ![r] = IF arrived[r].isLast THEN "none"
                                       ELSE reading[r]]
    /\ chunk' = [chunk EXCEPT ![r] = 1]
    /\ UNCHANGED <<size, memory, trainerVars, stream, packVars, loaded>>

Copy(from, at, to, into, n) ==
    [from |-> from, at |-> at, to |-> to, into |-> into, size |-> n]

View(w, buffer, at) == [weight |-> w, buffer |-> buffer, at |-> at]

\* merge_weight_chunks: a weight of one chunk is passed on as it lies there,
\* a larger one when its last chunk has been put in its place
PullChunk(r) ==
    /\ Running(r) /\ held[r] = Nothing
    /\ ~BucketRead(r)
    /\ LET c    == metadata[r].chunks[chunk[r]]
           n    == size[c.weight]
           here == <<r, reading[r]>>
           all  == <<r, "merge">>
       IN  IF n <= BucketSize
           THEN /\ held' = [held EXCEPT ![r] = View(c.weight, here, c.offset)]
                /\ UNCHANGED stream
           ELSE /\ stream' = [stream EXCEPT ![r] = Append(@,
                       Copy(here, c.offset, all, c.chunkOffset, c.chunkSize))]
                /\ held' = IF c.chunkOffset + c.chunkSize = n
                           THEN [held EXCEPT ![r] = View(c.weight, all, 0)]
                           ELSE held
    /\ chunk' = [chunk EXCEPT ![r] = @ + 1]
    /\ UNCHANGED <<size, memory, trainerVars, posted, arrived, reading,
                   metadata, packed, packedSize, request, finished, loaded>>

Request(weights, isLast) ==
    [weights |-> weights, isLast |-> isLast, valid |-> TRUE]

HeldSize(r) == size[held[r].weight]

PackFits(r) == packedSize[r] + HeldSize(r) <= BucketSize

Pack(r) ==
    /\ Running(r) /\ held[r] # Nothing
    /\ PackFits(r)
    /\ stream' = [stream EXCEPT ![r] = Append(@,
           Copy(held[r].buffer, held[r].at, <<r, "ipc">>, packedSize[r],
                HeldSize(r)))]
    /\ packed' = [packed EXCEPT ![r] = Append(@,
           View(held[r].weight, <<r, "ipc">>, packedSize[r]))]
    /\ packedSize' = [packedSize EXCEPT ![r] = @ + HeldSize(r)]
    /\ held' = [held EXCEPT ![r] = Nothing]
    /\ UNCHANGED <<size, memory, trainerVars, receiveVars, request, finished,
                   loaded>>

\* the IPC bucket is full: the engine's process takes it first
SendBucket(r) ==
    /\ Running(r) /\ held[r] # Nothing
    /\ ~PackFits(r) /\ packed[r] # <<>>
    /\ Synchronized(r)
    /\ request' = [request EXCEPT ![r] = Request(packed[r], FALSE)]
    /\ packed' = [packed EXCEPT ![r] = <<>>]
    /\ packedSize' = [packedSize EXCEPT ![r] = 0]
    /\ UNCHANGED <<size, memory, trainerVars, receiveVars, held, stream,
                   finished, loaded>>

\* _direct_send_large_weight: a handle to the weight itself
SendLarge(r) ==
    /\ Running(r) /\ held[r] # Nothing
    /\ ~PackFits(r) /\ packed[r] = <<>>
    /\ request' = [request EXCEPT ![r] = Request(<<held[r]>>, FALSE)]
    /\ held' = [held EXCEPT ![r] = Nothing]
    /\ UNCHANGED <<size, memory, trainerVars, receiveVars, stream, packed,
                   packedSize, finished, loaded>>

SendLast(r) ==
    /\ Running(r) /\ held[r] = Nothing
    /\ BucketRead(r) /\ metadata[r].isLast
    /\ Synchronized(r)
    /\ request' = [request EXCEPT ![r] = Request(packed[r], TRUE)]
    /\ packed' = [packed EXCEPT ![r] = <<>>]
    /\ packedSize' = [packedSize EXCEPT ![r] = 0]
    /\ finished' = [finished EXCEPT ![r] = TRUE]
    /\ UNCHANGED <<size, memory, trainerVars, receiveVars, held, stream,
                   loaded>>

\* the GPU does the next copy of the stream
RunCopy(r) ==
    /\ stream[r] # <<>>
    /\ LET c == Head(stream[r]) IN
         memory' = [memory EXCEPT ![c.to] =
             Written(@, c.into, [i \in 0 .. c.size - 1 |-> memory[c.from][c.at + i]])]
    /\ stream' = [stream EXCEPT ![r] = Tail(@)]
    /\ UNCHANGED <<size, trainerVars, receiveVars, packVars, loaded>>

Bytes(v) == [i \in 0 .. size[v.weight] - 1 |-> memory[v.buffer][v.at + i]]

\* BucketedWeightReceiver: load the bucket, synchronize, reply.  A CUDA handle
\* comes with an event: its memory is read when what was queued is done.
LoadBucket(r) ==
    /\ request[r].valid
    /\ stream[r] = <<>>
    /\ loaded' = [loaded EXCEPT ![r] = @ \o
           [i \in DOMAIN request[r].weights |->
               [weight |-> request[r].weights[i].weight,
                bytes  |-> Bytes(request[r].weights[i])]]]
    /\ request' = [request EXCEPT ![r] = NoRequest]
    /\ UNCHANGED <<size, memory, trainerVars, receiveVars, held, stream,
                   packed, packedSize, finished>>

Done(r) == finished[r] /\ ~request[r].valid

\* the workers' update_weights have returned
Ended == sent /\ broadcast = NoBroadcast /\ \A r \in Worker : Done(r)

Terminating == Ended /\ UNCHANGED vars

Works(r) ==
    \/ TakeBucket(r) \/ PullChunk(r) \/ Pack(r) \/ SendBucket(r)
    \/ SendLarge(r) \/ SendLast(r)

Sends == FillBucket \/ Broadcast \/ BroadcastLast

Next ==
    \/ Sends
    \/ \E r \in Worker : Deliver(r) \/ Works(r) \/ RunCopy(r) \/ LoadBucket(r)
    \/ Terminating

Spec == Init /\ [][Next]_vars

\* No process dies, every broadcast gets through and the GPUs go on.
Fairness ==
    /\ WF_vars(Sends)
    /\ \A r \in Worker :
         /\ WF_vars(Deliver(r)) /\ WF_vars(Works(r))
         /\ WF_vars(RunCopy(r)) /\ WF_vars(LoadBucket(r))

FairSpec == Spec /\ Fairness

-----------------------------------------------------------------------------
\* What an engine has been given is always the first weights of the model, in
\* their order, each once and each byte in its place, though they came as
\* views into buffers that are received into again: all of them at the end.
DeliversExactly ==
    \A r \in Worker :
        /\ \A i \in DOMAIN loaded[r] :
              loaded[r][i] = [weight |-> i,
                              bytes  |-> [j \in 0 .. size[i] - 1 |-> <<i, j>>]]
        /\ Done(r) => Len(loaded[r]) = NumWeights

\* Every engine's process leaves its loop and the Trainer's send returns,
\* however the weights fall into buckets.
TransferEnds == <>Ended
=============================================================================

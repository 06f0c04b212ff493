----------------------------- MODULE BlobCodec -----------------------------
(***************************************************************************)
(* What the layers of the blob store do to the bytes of an object on the   *)
(* way to the disk and back: CompressingStream and EncryptingStream (with  *)
(* its pipeline of encryption tasks), the composite object a multipart     *)
(* upload becomes, and the whole and ranged reads of every layer.          *)
(*                                                                         *)
(* A file is a sequence of cells.  A length prefix, a header, a tag and a  *)
(* footer entry take one cell each and so does a byte, which keeps all     *)
(* offset arithmetic; positions are 0-based as in the code.                *)
(***************************************************************************)
EXTENDS Integers, Sequences

Ext == INSTANCE SequencesExt

CONSTANTS
    Sizes,          \* the sizes of the bodies put
    Pieces,         \* the sizes of the pieces a body arrives in
    EncChunk,       \* chunk_size of the encryption layer
    BatchFactor,    \* chunks one encryption task takes
    PipelineDepth,  \* encryption tasks in flight
    CompChunk,      \* chunk_size of the compression layer
    MinSize,        \* DEFAULT_MIN_SIZE of compression
    MaxBlobs,       \* parts of one object
    MaxCuts         \* files that lose their tail

VARIABLES
    encrypting,     \* the store has a master key
    put,            \* the put under way
    blobs,          \* the blobs stored, each [file, size, csize, enc, comp]
    object,         \* "none", "single", "composite"
    cuts            \* how many files were cut

vars == <<encrypting, put, blobs, object, cuts>>

-----------------------------------------------------------------------------
(* Bytes, cells and slices *)

Byte(i) == <<"byte", i, 0>>

Body(first, n) == [i \in 1..n |-> Byte(first + i)]

Slice(s, start, end) == SubSeq(s, start + 1, end + 1)

Open == -1
Whole == [start |-> 0, end |-> Open, whole |-> TRUE]
ByteRange(s, e) == [start |-> s, end |-> e, whole |-> FALSE]

EndOf(range, size) ==
    IF range.end = Open \/ range.end > size - 1 THEN size - 1 ELSE range.end

CeilDiv(a, b) == (a + b - 1) \div b

Chunks(s, size) ==
    [i \in 1..CeilDiv(Len(s), size) |->
        SubSeq(s, (i - 1) * size + 1, IF i * size < Len(s) THEN i * size ELSE Len(s))]

(* A read: the cells served, whether the stream ended without an error, and *)
(* the content length it was announced with.                                *)
Read(data, ok, len) == [data |-> data, ok |-> ok, len |-> len]
Failed == Read(<<>>, FALSE, 0)

-----------------------------------------------------------------------------
(* The encrypted format: a header, then per chunk a length, the chunk and  *)
(* a tag that holds for one chunk index only.                              *)

EncHeader == <<"ehead", EncChunk, 0>>

BuildNonce(idx) == idx

EncryptChunk(chunk, idx) ==
    <<<<"elen", Len(chunk), 0>>>>
        \o [j \in 1..Len(chunk) |-> <<"cipher", BuildNonce(idx), chunk[j]>>]
        \o <<<<"tag", BuildNonce(idx), chunk>>>>

OnDiskChunkSize(n) == n + 2

ChunkDiskOffset(idx) == 1 + idx * OnDiskChunkSize(EncChunk)

(* The frame at the head of `cells`: short, bad or its plaintext. *)
DecryptChunk(cells, idx) ==
    IF \/ Len(cells) < 1
       \/ Len(cells) < OnDiskChunkSize(cells[1][2])
    THEN [k |-> "short", data |-> <<>>]
    ELSE LET n == cells[1][2]
             tag == cells[n + 2]
             data == [j \in 1..n |-> cells[j + 1][3]]
         IN IF tag[2] = BuildNonce(idx) /\ tag[3] = data
            THEN [k |-> "ok", data |-> data]
            ELSE [k |-> "bad", data |-> <<>>]

(* The chunks of `cells`, numbered from `first`, one after the other: the  *)
(* plaintext of those `wanted`, where each began, and how it ended.        *)
DecryptFrames(cells, first, Wanted(_, _)) ==
    LET Go[k \in 0..Len(cells)] ==   \* the state after k chunks
            IF k = 0 THEN [at |-> 0, data |-> <<>>, end |-> "more"]
            ELSE LET g == Go[k - 1]
                     rest == SubSeq(cells, g.at + 1, Len(cells))
                     idx == first + k - 1
                     f == DecryptChunk(rest, idx)
                     n == rest[1][2]
                 IN IF g.end # "more" THEN g
                    ELSE IF rest = <<>> THEN [g EXCEPT !.end = "eof"]
                    ELSE IF f.k = "short" THEN [g EXCEPT !.end = "error"]
                    ELSE IF Wanted(idx * EncChunk, idx * EncChunk + n) /\ f.k = "bad"
                         THEN [g EXCEPT !.end = "error"]
                    ELSE [at |-> g.at + OnDiskChunkSize(n), end |-> "more",
                          data |-> IF Wanted(idx * EncChunk, idx * EncChunk + n)
                                   THEN Append(g.data, [from |-> idx * EncChunk, data |-> f.data])
                                   ELSE g.data]
    IN Go[Len(cells)]

DataOf(frames) == Ext!FlattenSeq([i \in 1..Len(frames) |-> frames[i].data])

(* DecryptingStream: what was decrypted before an error has been served. *)
DecryptingStream(cells) ==
    LET g == DecryptFrames(cells, 0, LAMBDA from, to : TRUE)
    IN Read(DataOf(g.data), g.end # "error", 0)

(* decrypt_range: the chunks of the slab that meet the range, cut to it;   *)
(* an error fails the whole read.                                          *)
DecryptRange(cells, first, start, end) ==
    LET g == DecryptFrames(cells, first,
                           LAMBDA from, to : ~(to <= start \/ from > end))
        Cut(f) ==
            LET a == IF start > f.from THEN start - f.from ELSE 0
                b == IF end + 1 < f.from + Len(f.data)
                     THEN end - f.from ELSE Len(f.data) - 1
            IN [f EXCEPT !.data = Slice(f.data, a, b)]
    IN IF g.end = "error" THEN Failed
       ELSE Read(DataOf([i \in 1..Len(g.data) |-> Cut(g.data[i])]), TRUE, 0)

-----------------------------------------------------------------------------
(* The compressed format: a header, then per chunk its two lengths and the *)
(* compressed chunk, then the footer: the length of every chunk on disk    *)
(* and their number.                                                       *)

CompHeader == <<"zhead", CompChunk, 0>>

CompressedLen(chunk) == 1 + (chunk[1][2] % 2)

CompressChunk(chunk) ==
    [j \in 1..CompressedLen(chunk) |-> <<"packed", j, chunk>>]

ChunkHeader(chunk) == <<"zlen", CompressedLen(chunk), Len(chunk)>>

WriteFooter(lens) ==
    [i \in 1..Len(lens) |-> <<"foot", lens[i], 0>>] \o <<<<"count", Len(lens), 0>>>>

(* try_decode_chunk and finish of a whole blob: `remaining` plaintext to   *)
(* come, `lens` seen; then exactly the footer of those chunks.             *)
DecompressingStream(cells, size) ==
    LET Go[k \in 0..Len(cells)] ==   \* the state after k chunks
            IF k = 0 THEN [at |-> 1, left |-> size, lens |-> <<>>, data |-> <<>>, st |-> "more"]
            ELSE LET g == Go[k - 1]
                     rest == SubSeq(cells, g.at + 1, Len(cells))
                     total == IF rest = <<>> THEN 1 ELSE 1 + rest[1][2]
                 IN IF g.st # "more" \/ g.left = 0 THEN g
                    ELSE IF Len(rest) < total THEN [g EXCEPT !.st = "error"]
                    ELSE IF rest[1][1] # "zlen" \/ rest[1][3] > g.left
                         THEN [g EXCEPT !.st = "error"]
                    ELSE [at |-> g.at + total, left |-> g.left - rest[1][3],
                          lens |-> Append(g.lens, total),
                          data |-> g.data \o rest[2][3], st |-> "more"]
        last == Go[Len(cells)]
    IN IF Len(cells) < 1 THEN Failed
       ELSE Read(last.data,
                 /\ last.st = "more"
                 /\ last.left = 0
                 /\ SubSeq(cells, last.at + 1, Len(cells)) = WriteFooter(last.lens),
                 size)

(* decompress_range over the slab of chunks from `first` on. *)
DecompressRange(cells, first, start, end) ==
    LET Go[k \in 0..Len(cells)] ==
            IF k = 0 THEN [at |-> 0, data |-> <<>>, st |-> "more"]
            ELSE LET g == Go[k - 1]
                     rest == SubSeq(cells, g.at + 1, Len(cells))
                     total == 1 + rest[1][2]
                     from == (first + k - 1) * CompChunk
                     to == from + rest[1][3]
                     a == IF start > from THEN start - from ELSE 0
                     b == IF end + 1 < to THEN end - from ELSE to - from - 1
                 IN IF g.st # "more" \/ rest = <<>> THEN g
                    ELSE IF Len(rest) < total THEN [g EXCEPT !.st = "error"]
                    ELSE [g EXCEPT !.at = @ + total,
                                   !.data = IF to <= start \/ from > end THEN @
                                            ELSE @ \o Slice(rest[2][3], a, b)]
        last == Go[Len(cells)]
    IN IF last.st = "error" THEN Failed ELSE Read(last.data, TRUE, 0)

-----------------------------------------------------------------------------
(* Reads, layer by layer.  An index out of bounds or a length below zero   *)
(* panics the request: a failed read.                                      *)

GetFs(b, range) ==
    LET end == EndOf(range, Len(b.file))
    IN IF range.whole THEN Read(b.file, TRUE, Len(b.file))
       ELSE IF end < range.start THEN Failed
       ELSE Read(Slice(b.file, range.start, end), TRUE, end - range.start + 1)

PayloadSize(b) == IF b.comp THEN b.csize ELSE b.size

\* Mutant of GetEncryptedFull: the length announced is what is on disk.
GetEncryptedFullFile(b) ==
    IF Len(b.file) < 1 THEN Failed
    ELSE LET r == DecryptingStream(Tail(b.file)) IN [r EXCEPT !.len = Len(r.data)]

GetEncryptedFull(b) ==
    IF Len(b.file) < 1 THEN Failed
    ELSE [DecryptingStream(Tail(b.file)) EXCEPT !.len = PayloadSize(b)]

GetEncryptedRange(b, range) ==
    LET size == PayloadSize(b)
        end == EndOf(range, size)
        first == range.start \div EncChunk
        last == end \div EncChunk
        diskStart == ChunkDiskOffset(first)
        diskEnd == IF last < CeilDiv(size, EncChunk) - 1
                   THEN ChunkDiskOffset(last + 1) ELSE Len(b.file)
    IN IF Len(b.file) < 1 \/ end < range.start \/ diskEnd < diskStart \/ diskEnd > Len(b.file)
       THEN Failed
       ELSE [DecryptRange(Slice(b.file, diskStart, diskEnd - 1), first, range.start, end)
                EXCEPT !.len = end - range.start + 1]

GetDecrypted(b, range) ==
    IF ~b.enc THEN GetFs(b, range)
    ELSE IF range.whole THEN GetEncryptedFull(b)
    ELSE GetEncryptedRange(b, range)

GetCompressedFull(b) ==
    LET data == GetDecrypted(b, Whole)
        d == DecompressingStream(data.data, b.size)
    IN IF b.size = 0 THEN Read(<<>>, TRUE, 0)
       ELSE [d EXCEPT !.ok = @ /\ data.ok, !.len = b.size]

(* The slab of the chunks the range touches, found by their lengths. *)
ReadChunks(b, range, lens) ==
    LET Offset(k) == 1 + Ext!FoldLeft(+, 0, SubSeq(lens, 1, k))
        end == EndOf(range, b.size)
        first == range.start \div CompChunk
        last == end \div CompChunk
        after == IF last < Len(lens) - 1 THEN last + 1 ELSE Len(lens)
        slab == GetDecrypted(b, ByteRange(Offset(first), Offset(after) - 1))
    IN IF ~slab.ok THEN Failed
       ELSE [DecompressRange(slab.data, first, range.start, end)
                EXCEPT !.len = end - range.start + 1]

(* The index of n lengths in front of the count. *)
ReadIndexed(b, range, n) ==
    LET index == IF n = 0 THEN Read(<<>>, TRUE, 0)
                 ELSE GetDecrypted(b, ByteRange(b.csize - 1 - n, b.csize - 2))
    IN IF ~index.ok \/ Len(index.data) < n THEN Failed
       ELSE ReadChunks(b, range, [i \in 1..n |-> index.data[i][2]])

(* The chunk count, the index in front of it, then the chunks themselves. *)
GetCompressedRange(b, range) ==
    LET tail == GetDecrypted(b, ByteRange(b.csize - 1, b.csize - 1))
    IN IF ~tail.ok \/ tail.data = <<>> THEN Failed
       ELSE ReadIndexed(b, range, tail.data[1][2])

GetOne(b, range) ==
    IF ~b.comp THEN GetDecrypted(b, range)
    ELSE IF range.whole THEN GetCompressedFull(b)
    ELSE GetCompressedRange(b, range)

Sum(s) == Ext!FoldLeft(+, 0, s)

(* plan_composite_read: the sub-range of every part the range touches. *)
PlanCompositeRead(sizes, range) ==
    LET total == Sum(sizes)
        end == EndOf(range, total)
        length == IF total = 0 \/ end < range.start THEN 0 ELSE end - range.start + 1
        Before(i) == Sum(SubSeq(sizes, 1, i - 1))
        Touched(i) == /\ sizes[i] # 0
                      /\ length # 0
                      /\ Before(i) + sizes[i] > range.start
                      /\ Before(i) <= end
        Sub(i) == LET a == IF range.start > Before(i) THEN range.start - Before(i) ELSE 0
                      e == IF end - Before(i) < sizes[i] - 1
                           THEN end - Before(i) ELSE sizes[i] - 1
                  IN IF a = 0 /\ e = sizes[i] - 1 THEN Whole ELSE ByteRange(a, e)
    IN [reads |-> [k \in 1..Len(Ext!SetToSortSeq({i \in 1..Len(sizes) : Touched(i)}, <)) |->
                     LET i == Ext!SetToSortSeq({j \in 1..Len(sizes) : Touched(j)}, <)[k]
                     IN [part |-> i, range |-> Sub(i)]],
        len |-> length]

(* concat_lazily: part after part until one fails. *)
ConcatLazily(reads) ==
    LET Go[k \in 0..Len(reads)] ==
            IF k = 0 THEN Read(<<>>, TRUE, 0)
            ELSE IF ~Go[k - 1].ok THEN Go[k - 1]
            ELSE Read(Go[k - 1].data \o reads[k].data, reads[k].ok, 0)
    IN Go[Len(reads)]

GetComposite(parts, range) ==
    LET plan == PlanCompositeRead([i \in 1..Len(parts) |-> parts[i].size], range)
        reads == [k \in 1..Len(plan.reads) |->
                    GetDecrypted(parts[plan.reads[k].part], plan.reads[k].range)]
    IN [ConcatLazily(reads) EXCEPT !.len = plan.len]

Get(range) ==
    IF object = "composite" THEN GetComposite(blobs, range)
    ELSE GetOne(blobs[1], range)

-----------------------------------------------------------------------------
(* The put *)

Idle == [on |-> FALSE, kind |-> "part", src |-> <<>>, ended |-> FALSE, comp |-> FALSE,
         size |-> 0, cbuf |-> <<>>, lens |-> <<>>, feed |-> <<>>, passed |-> 0,
         done |-> FALSE, ebuf |-> <<>>, idx |-> 0, tasks |-> <<>>, file |-> <<>>]

Init ==
    /\ encrypting \in BOOLEAN
    /\ put = Idle
    /\ blobs = <<>>
    /\ object = "none"
    /\ cuts = 0

Starting(kind, src, comp) ==
    [Idle EXCEPT !.on = TRUE, !.kind = kind, !.src = src, !.comp = comp,
                 !.feed = IF comp THEN <<<<CompHeader>>>> ELSE <<>>,
                 !.file = IF encrypting THEN <<EncHeader>> ELSE <<>>]

Total(bs) == Sum([i \in 1..Len(bs) |-> bs[i].size])

(* resolve: a bucket may ask for compression, and a content type may rule  *)
(* it out; a body known to be small is not compressed.                     *)
Resolve(sizeHint) == {c \in BOOLEAN : c => sizeHint = Open \/ sizeHint >= MinSize}

(* put_with_hints of an object. *)
PutObject(n, comp) ==
    /\ object = "none" /\ blobs = <<>> /\ ~put.on
    /\ put' = Starting("object", Body(0, n), comp)
    /\ UNCHANGED <<encrypting, blobs, object, cuts>>

(* put of a multipart part: never compressed. *)
PutPart(n) ==
    /\ object = "none" /\ Len(blobs) < MaxBlobs /\ ~put.on
    /\ put' = Starting("part", Body(Total(blobs), n), FALSE)
    /\ UNCHANGED <<encrypting, blobs, object, cuts>>

(* The server restarts with a master key between two parts. *)
EnableEncryption ==
    /\ ~encrypting /\ ~put.on /\ object = "none"
    /\ encrypting' = TRUE
    /\ UNCHANGED <<put, blobs, object, cuts>>

(* flush_chunk: the buffer becomes one compressed chunk. *)
FlushChunk(p) ==
    IF p.cbuf = <<>> THEN p
    ELSE LET bytes == <<ChunkHeader(p.cbuf)>> \o CompressChunk(p.cbuf)
         IN [p EXCEPT !.feed = Append(@, bytes), !.lens = Append(@, Len(bytes)), !.cbuf = <<>>]

(* The inner stream yields k more bytes of the body. *)
Take(p, k) == [p EXCEPT !.src = SubSeq(@, k + 1, Len(@)), !.size = @ + k]

CompressBytes(p, bytes) ==
    Ext!FoldLeft(LAMBDA q, b : LET r == [q EXCEPT !.cbuf = Append(@, b)]
                               IN IF Len(r.cbuf) >= CompChunk THEN FlushChunk(r) ELSE r,
                 p, bytes)

Receive(k) ==
    LET bytes == SubSeq(put.src, 1, k)
        p == Take(put, k)
    IN /\ put.on /\ put.feed = <<>> /\ ~put.ended
       /\ k <= Len(put.src)
       /\ put' = IF put.comp THEN CompressBytes(p, bytes) ELSE [p EXCEPT !.feed = <<bytes>>]
       /\ UNCHANGED <<encrypting, blobs, object, cuts>>

(* The body ends: the compressor flushes its last chunk and its footer. *)
EndOfBody ==
    /\ put.on /\ put.feed = <<>> /\ ~put.ended /\ put.src = <<>>
    /\ put' = LET p == FlushChunk([put EXCEPT !.ended = TRUE])
              IN IF put.comp THEN [p EXCEPT !.feed = Append(@, WriteFooter(p.lens))] ELSE p
    /\ UNCHANGED <<encrypting, blobs, object, cuts>>

-----------------------------------------------------------------------------
(* EncryptingStream *)

BatchCapacity == EncChunk * BatchFactor

(* flush_batch: one blocking task encrypts the batch from its first index. *)
FlushBatch(p, data) ==
    IF data = <<>> THEN p
    ELSE [p EXCEPT !.idx = @ + CeilDiv(Len(data), EncChunk),
                   !.tasks = Append(@, [from |-> p.idx, data |-> data, done |-> FALSE])]

EncryptTask(t) ==
    LET cs == Chunks(t.data, EncChunk)
    IN Ext!FlattenSeq([i \in 1..Len(cs) |-> EncryptChunk(cs[i], t.from + i - 1)])

(* Whole batches leave the buffer while the pipeline has room. *)
FillPipeline(p) ==
    Ext!FoldLeft(LAMBDA q, i : IF Len(q.ebuf) >= BatchCapacity /\ Len(q.tasks) < PipelineDepth
                               THEN [FlushBatch(q, SubSeq(q.ebuf, 1, BatchCapacity))
                                       EXCEPT !.ebuf = SubSeq(q.ebuf, BatchCapacity + 1, Len(q.ebuf))]
                               ELSE q,
                 p, [i \in 1..PipelineDepth |-> i])

FrontReady == put.tasks # <<>> /\ put.tasks[1].done

\* Mutant of EmitFront: the front task is only waited for when the pipeline is full.
EmitFrontFull ==
    /\ put.on /\ encrypting /\ FrontReady /\ Len(put.tasks) = PipelineDepth
    /\ put' = [put EXCEPT !.file = @ \o EncryptTask(put.tasks[1]), !.tasks = Tail(@)]
    /\ UNCHANGED <<encrypting, blobs, object, cuts>>

(* poll_next: what the front task has finished goes out before anything    *)
(* else is read.                                                           *)
EmitFront ==
    /\ put.on /\ encrypting /\ FrontReady
    /\ put' = [put EXCEPT !.file = @ \o EncryptTask(put.tasks[1]), !.tasks = Tail(@)]
    /\ UNCHANGED <<encrypting, blobs, object, cuts>>

PollInner ==
    /\ put.on /\ encrypting /\ ~FrontReady
    /\ Len(put.tasks) < PipelineDepth
    /\ put.feed # <<>>
    /\ put' = FillPipeline([put EXCEPT !.feed = Tail(@), !.passed = @ + Len(put.feed[1]),
                                       !.ebuf = @ \o put.feed[1]])
    /\ UNCHANGED <<encrypting, blobs, object, cuts>>

\* Mutant of InnerDone: a last batch that is not full is forgotten.
InnerDoneDropped ==
    /\ put.on /\ encrypting /\ ~FrontReady
    /\ Len(put.tasks) < PipelineDepth
    /\ put.feed = <<>> /\ put.ended /\ ~put.done
    /\ put' = [put EXCEPT !.done = TRUE, !.ebuf = <<>>]
    /\ UNCHANGED <<encrypting, blobs, object, cuts>>

\* Mutant of InnerDone: the last batch does not wait for a place in the pipeline.
InnerDoneAtOnce ==
    /\ put.on /\ encrypting /\ ~FrontReady
    /\ put.feed = <<>> /\ put.ended /\ ~put.done
    /\ put' = [FlushBatch([put EXCEPT !.done = TRUE], put.ebuf) EXCEPT !.ebuf = <<>>]
    /\ UNCHANGED <<encrypting, blobs, object, cuts>>

InnerDone ==
    /\ put.on /\ encrypting /\ ~FrontReady
    /\ Len(put.tasks) < PipelineDepth
    /\ put.feed = <<>> /\ put.ended /\ ~put.done
    /\ put' = [FlushBatch([put EXCEPT !.done = TRUE], put.ebuf) EXCEPT !.ebuf = <<>>]
    /\ UNCHANGED <<encrypting, blobs, object, cuts>>

(* A blocking thread finishes a task, in any order. *)
FinishTask(i) ==
    /\ put.on /\ i \in DOMAIN put.tasks /\ ~put.tasks[i].done
    /\ put' = [put EXCEPT !.tasks[i].done = TRUE]
    /\ UNCHANGED <<encrypting, blobs, object, cuts>>

(* Without encryption the pieces go to the file as they come. *)
WritePlain ==
    /\ put.on /\ ~encrypting /\ put.feed # <<>>
    /\ put' = [put EXCEPT !.file = @ \o put.feed[1], !.passed = @ + Len(put.feed[1]),
                          !.feed = Tail(@)]
    /\ UNCHANGED <<encrypting, blobs, object, cuts>>

(* The stream ended: the file is published, with the sizes its sidecar gets. *)
Blob(p) == [file |-> p.file, size |-> p.size, csize |-> p.passed,
            enc |-> encrypting, comp |-> p.comp]

FinishPut ==
    /\ put.on /\ put.ended /\ put.feed = <<>>
    /\ encrypting => put.done /\ put.tasks = <<>>
    /\ put' = Idle
    /\ blobs' = IF put.kind = "assembled" THEN <<Blob(put)>> ELSE Append(blobs, Blob(put))
    /\ object' = IF put.kind = "part" THEN object ELSE "single"
    /\ UNCHANGED <<encrypting, cuts>>

(* concat: parts that are all stored alike become a composite; a plain     *)
(* part under a store that encrypts makes it read and encrypt them again.  *)
Alike == encrypting => \A i \in DOMAIN blobs : blobs[i].enc

Concat ==
    /\ object = "none" /\ blobs # <<>> /\ ~put.on
    /\ LET all == ConcatLazily([i \in DOMAIN blobs |-> GetDecrypted(blobs[i], Whole)])
       IN \/ /\ Alike
             /\ object' = "composite"
             /\ UNCHANGED put
          \/ /\ ~Alike /\ all.ok
             /\ put' = Starting("assembled", all.data, FALSE)
             /\ object' = "assembling"
    /\ UNCHANGED <<encrypting, blobs, cuts>>

(* A file loses its tail: what a crash leaves of unsynced data. *)
Cut(i, n) ==
    /\ object \in {"single", "composite"} /\ cuts < MaxCuts
    /\ i \in DOMAIN blobs /\ n < Len(blobs[i].file)
    /\ blobs' = [blobs EXCEPT ![i].file = SubSeq(@, 1, n)]
    /\ cuts' = cuts + 1
    /\ UNCHANGED <<encrypting, put, object>>

MaxCells == 60

Encode == \/ EndOfBody \/ EmitFront \/ PollInner \/ InnerDone \/ WritePlain \/ FinishPut
          \/ \E k \in Pieces : Receive(k)
          \/ \E i \in 1..PipelineDepth : FinishTask(i)

Next ==
    \/ \E n \in Sizes : \E hint \in {n, Open} : \E c \in Resolve(hint) : PutObject(n, c)
    \/ \E n \in Sizes : PutPart(n)
    \/ EnableEncryption
    \/ Encode
    \/ Concat
    \/ \E i \in 1..MaxBlobs, n \in 0..MaxCells : Cut(i, n)

Spec == Init /\ [][Next]_vars

(* A put in progress is driven by its request task: every part of the      *)
(* encoding goes on as long as it can.                                     *)
FairSpec == Spec /\ WF_vars(Encode)

-----------------------------------------------------------------------------
(* Type correctness: every stored blob has the sizes of what it holds and  *)
(* the pipeline never holds more tasks than its depth.                     *)
TypeOK ==
    /\ encrypting \in BOOLEAN
    /\ object \in {"none", "assembling", "single", "composite"}
    /\ cuts \in 0..MaxCuts
    /\ Len(put.tasks) <= PipelineDepth
    /\ \A i \in DOMAIN blobs :
          /\ blobs[i].size \in Nat /\ blobs[i].csize \in Nat
          /\ blobs[i].enc \in BOOLEAN /\ blobs[i].comp \in BOOLEAN

Ready == object \in {"single", "composite"}

ObjectSize == Total(blobs)

(* The ranges a handler asks for: they start inside the object. *)
Ranges(size) == {ByteRange(a, e) : a \in 0..(size - 1), e \in 0..size} \cup
                {ByteRange(a, Open) : a \in 0..(size - 1)}

Asked(size) == {Whole} \cup {r \in Ranges(size) : r.end = Open \/ r.end >= r.start}

Expected(range, size) ==
    IF size = 0 THEN <<>> ELSE Slice(Body(0, size), range.start, EndOf(range, size))

(* Whatever the layers, the pieces it arrived in and the order the         *)
(* encryption tasks finished in, a whole or ranged read of an intact       *)
(* object answers exactly the bytes asked for and announces their number.  *)
ReadsWhatWasPut ==
    Ready /\ cuts = 0 =>
        \A r \in Asked(ObjectSize) :
            Get(r) = Read(Expected(r, ObjectSize), TRUE, Len(Expected(r, ObjectSize)))

Honest(got, expected) ==
    /\ got.ok /\ Len(got.data) = got.len => got.data = expected
    /\ object = "single" => Ext!IsPrefix(got.data, expected)

(* A file that lost its tail never passes for the object, when the blobs   *)
(* are encrypted or compressed: a read that ends without an error having   *)
(* served the length it announced served what was asked for, and an object *)
(* of one blob never serves anything but a prefix of that.  (A composite   *)
(* does: the part after an encrypted one cut between two chunks follows    *)
(* its remains at once, and only the announced length shows the gap.)      *)
CutIsNoticed ==
    Ready /\ (\A i \in DOMAIN blobs : blobs[i].enc \/ blobs[i].comp) =>
        \A r \in Asked(ObjectSize) : Honest(Get(r), Expected(r, ObjectSize))

(* The pipeline never stalls: a put that began is published. *)
Encoding == put.on
Encoded == ~put.on
PutEnds == Encoding ~> Encoded
=============================================================================

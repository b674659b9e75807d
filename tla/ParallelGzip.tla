----------------------------- MODULE ParallelGzip -----------------------------
(***************************************************************************)
(* gzip_compress_parallel (src/src/compress/mod.rs): the input is cut into *)
(* chunks, each compressed by a thread of its own after the 32 KiB before  *)
(* it, and the outputs and checksums are joined in order.                  *)
(*                                                                         *)
(* A CRC-32 is modelled as the bytes it is of; what crc32_combine computes *)
(* is the subject of Crc32.                                                *)
(***************************************************************************)
EXTENDS ChunkedCompressor

CONSTANTS
  MIN_CHUNK,      (* least bytes for a chunk: 16 KiB                       *)
  MIN_PARALLEL,   (* least input that is cut: 32 KiB                       *)
  GzipInputs, GzipLevels, GzipRooms, Threads   (* what callers pass        *)

ASSUME ParallelAssumption ==
  /\ MIN_CHUNK \in Nat \ {0} /\ MIN_PARALLEL \in Nat \ {0}
  /\ GzipLevels \subseteq Level /\ GzipRooms \subseteq Nat /\ Threads \subseteq Nat

VARIABLES
  gzip,       (* the call: pc, arguments, result                           *)
  self,       (* the compressor it was called on                           *)
  workers,    (* the threads' compressors, in the order of the chunks      *)
  cancelled   (* the caller's stop token                                   *)

gzipVars == <<gzip, self, workers, cancelled>>

HEADER_BYTES == 10
FOOTER_BYTES == 8

Gzip(pc) == [pc |-> pc, input |-> <<>>, threads |-> 0, room |-> 0, status |-> "none",
             deflate |-> <<>>, crc |-> <<>>, isize |-> 0]

NoLevel == [store |-> TRUE, static |-> FALSE, alone |-> FALSE, passthrough |-> 0]

GzipOff == /\ gzip = Gzip("off") /\ self = Compressor(NoLevel)
           /\ workers = <<>> /\ cancelled = FALSE

GzipInit == /\ gzip = Gzip("idle") /\ workers = <<>> /\ cancelled = FALSE
            /\ self \in {Compressor(level) : level \in GzipLevels}

ChunkSize(n, count) == CeilDiv(n, count)

NumChunks(n, threads) == AtLeast(AtMost(threads, n \div MIN_CHUNK), 1)

(* Mutant: a chunk that ends with the input is not the last one. *)
ChunksOf_NeverLast(n, threads) ==
  LET count == NumChunks(n, threads)
      size == ChunkSize(n, count)
      used == Cardinality({i \in 0 .. count - 1 : i * size < n})
  IN  [i \in 1 .. used |->
         [dict |-> AtLeast((i - 1) * size - WINDOW, 0), start |-> (i - 1) * size,
          end |-> AtMost(i * size, n), last |-> i * size > n]]

(* Dictionary, data and whether it is the last, of each chunk; none is     *)
(* empty, so there may be fewer than threads.                              *)
ChunksOf(n, threads) ==
  LET count == NumChunks(n, threads)
      size == ChunkSize(n, count)
      used == Cardinality({i \in 0 .. count - 1 : i * size < n})
  IN  [i \in 1 .. used |->
         [dict |-> AtLeast((i - 1) * size - WINDOW, 0), start |-> (i - 1) * size,
          end |-> AtMost(i * size, n), last |-> i * size >= n]]

Chunks == ChunksOf(Len(gzip.input), gzip.threads)

ChunkBytes(i) == SubSeq(gzip.input, Chunks[i].start + 1, Chunks[i].end)

(* What a thread starts with: a compressor of its own, and room for its    *)
(* dictionary and data and the sync flush.                                 *)
Spawned(input, level, chunk) ==
  BeginChunk(Compressor(level), SubSeq(input, chunk.dict + 1, chunk.end),
             chunk.start - chunk.dict, chunk.last,
             Bound(chunk.end - chunk.dict) + STORED_OVERHEAD)

Alone(level, n, threads) == threads = 1 \/ n < MIN_PARALLEL \/ level.alone

(* The call, up to where the threads run, or the fallback's first block.   *)
CallGzip(input, threads, room) ==
  LET n == Len(input)
      count == AtLeast(threads, 1)
      alone == Alone(self.level, n, count)
  IN  /\ gzip.pc = "idle"
      /\ gzip' = [Gzip(IF ~alone THEN "joining"
                       ELSE IF room < HEADER_BYTES + FOOTER_BYTES THEN "returned"
                       ELSE "alone")
                    EXCEPT !.input = input, !.threads = count, !.room = room,
                           !.status = IF alone /\ room < HEADER_BYTES + FOOTER_BYTES
                                        THEN "space" ELSE "none"]
      /\ self' = IF gzip'.pc = "alone" THEN BeginWhole(self, input, room - HEADER_BYTES)
                                       ELSE self
      /\ workers' = IF alone THEN <<>>
                    ELSE LET chunks == ChunksOf(n, count)
                         IN  [i \in DOMAIN chunks |-> Spawned(input, self.level, chunks[i])]
      /\ UNCHANGED cancelled

(* The token may fire whenever it likes, and stays fired. *)
Cancel ==
  /\ gzip.pc \in {"alone", "joining"} /\ ~cancelled
  /\ cancelled' = TRUE
  /\ UNCHANGED <<gzip, self, workers>>

Work(i) ==
  /\ i \in DOMAIN workers
  /\ \E next \in Steps(workers[i], cancelled) : workers' = [workers EXCEPT ![i] = next]
  /\ UNCHANGED <<gzip, self, cancelled>>

WorkAlone ==
  /\ gzip.pc = "alone"
  /\ self' \in Steps(self, cancelled)
  /\ UNCHANGED <<gzip, workers, cancelled>>

GzipReturns(status, deflate, crc) ==
  gzip' = [gzip EXCEPT !.pc = "returned", !.status = status, !.deflate = deflate,
                       !.crc = crc, !.isize = IF status = "ok" THEN Len(gzip.input) ELSE 0]

(* gzip_compress after deflate_compress. *)
ReturnAlone ==
  /\ gzip.pc = "alone" /\ self.pc = "returned"
  /\ LET total == HEADER_BYTES + (Len(self.out) \div BYTE) + FOOTER_BYTES
     IN  IF self.status # "ok" THEN GzipReturns(self.status, <<>>, <<>>)
         ELSE IF total > gzip.room THEN GzipReturns("space", <<>>, <<>>)
         ELSE GzipReturns("ok", self.out, gzip.input)
  /\ self' = Compressor(self.level)
  /\ UNCHANGED <<workers, cancelled>>

(* The CRC-32 of a followed by the n bytes b is of. *)
Crc32Combine(a, b, n) == IF n = Len(b) THEN a \o b ELSE <<>>

AllJoined == \A i \in DOMAIN workers : workers[i].pc = "returned"

(* The scope has joined all threads; the first error is the call's.        *)
Join ==
  /\ gzip.pc = "joining" /\ AllJoined
  /\ LET failed == {i \in DOMAIN workers : workers[i].status # "ok"}
         first == CHOOSE i \in failed : \A j \in failed : i <= j
         deflate[i \in 0 .. Len(workers)] ==
           IF i = 0 THEN <<>> ELSE deflate[i - 1] \o workers[i].out
         crc[i \in 0 .. Len(workers)] ==
           IF i = 0 THEN <<>>
           ELSE Crc32Combine(crc[i - 1], ChunkBytes(i), Chunks[i].end - Chunks[i].start)
         total == HEADER_BYTES + (Len(deflate[Len(workers)]) \div BYTE) + FOOTER_BYTES
     IN  IF failed # {} THEN GzipReturns(workers[first].status, <<>>, <<>>)
         ELSE IF total > gzip.room THEN GzipReturns("space", <<>>, <<>>)
         ELSE GzipReturns("ok", deflate[Len(workers)], crc[Len(workers)])
  /\ workers' = <<>>
  /\ UNCHANGED <<self, cancelled>>

GzipDone == gzip.pc = "returned" /\ UNCHANGED gzipVars

(* Whoever has not returned can go on: no call waits for a thread that     *)
(* does not come.                                                          *)
GzipNext ==
  \/ \E input \in GzipInputs, threads \in Threads, room \in GzipRooms :
       CallGzip(input, threads, room)
  \/ Cancel
  \/ \E i \in DOMAIN workers : Work(i)
  \/ WorkAlone
  \/ ReturnAlone
  \/ Join
  \/ GzipDone

-------------------------------------------------------------------------------

(* However the threads interleave, and whichever the token stops: a call   *)
(* that returns Ok has made one stream that decodes to all of the input,   *)
(* ends with its only final block, and has its length and its checksum;    *)
(* it fails only when cancelled, or when the output was smaller than the   *)
(* bounds of the chunks, and no thread ever runs out of room; but static   *)
(* turbo on one thread may need StaticExcess beyond the bound              *)
(* (gzip_compress_parallel, deflate_compress_chunk, the bounds).           *)
GzipIsRight ==
  /\ \A i \in DOMAIN workers : workers[i].status # "space"
  /\ gzip.status = "ok" =>
       LET d == Decoded(Decoder, gzip.deflate)
       IN  /\ d.legal /\ d.final /\ d.in = "none" /\ d.at = 0
           /\ d.out = gzip.input /\ gzip.crc = gzip.input /\ gzip.isize = Len(gzip.input)
           /\ HEADER_BYTES + (Len(gzip.deflate) \div BYTE) + FOOTER_BYTES <= gzip.room
  /\ gzip.status = "stopped" => cancelled
  /\ gzip.status = "space" =>
       LET alone == Alone(self.level, Len(gzip.input), gzip.threads)
           beyond == IF alone THEN StaticExcess(self.level)
                              ELSE 2 * STORED_OVERHEAD * (Len(Chunks) - 1)
       IN  gzip.room < HEADER_BYTES + Bound(Len(gzip.input)) + FOOTER_BYTES + beyond

===============================================================================

------------------------------- MODULE PngStrips -------------------------------
(***************************************************************************)
(* Strips of one zlib stream, compressed one by one and decoded on their   *)
(* own (src/src/png/mod.rs): StripCompressor, with and without history,    *)
(* and StripDecoder, the streaming decompressor in segment mode.           *)
(*                                                                         *)
(* An Adler-32 is modelled as the bytes it is of; what adler32_combine     *)
(* computes is the subject of Adler32.                                     *)
(***************************************************************************)
EXTENDS ChunkedCompressor

CONSTANTS
  Images,         (* image data, cut into strips                           *)
  StripLevels,
  ShortRoom,      (* a room callers may pass that is below the bound       *)
  SpareRooms      (* how much more than the bound they may pass            *)

ASSUME StripAssumption ==
  StripLevels \subseteq Level /\ ShortRoom \in Nat /\ SpareRooms \subseteq Nat

VARIABLES
  strips,      (* the image's strips                                       *)
  history,     (* TRUE: compress_with_history                              *)
  compressor,  (* StripCompressor.inner                                    *)
  call,        (* the room of the call, and how the last one ended         *)
  outputs      (* the compressed strips                                    *)

stripVars == <<strips, history, compressor, call, outputs>>

NoCall == [room |-> 0, status |-> "none"]

StripsOff == /\ strips = <<>> /\ history = FALSE /\ call = NoCall /\ outputs = <<>>
             /\ compressor = Compressor([store |-> TRUE, static |-> FALSE, alone |-> FALSE, passthrough |-> 0])

StripsInit == /\ strips \in Images /\ history \in BOOLEAN /\ call = NoCall /\ outputs = <<>>
              /\ compressor \in {Compressor(level) : level \in StripLevels}

Joined(pieces) ==
  LET upTo[k \in 0 .. Len(pieces)] == IF k = 0 THEN <<>> ELSE upTo[k - 1] \o pieces[k]
  IN  upTo[Len(pieces)]

Before(k) == Joined(SubSeq(strips, 1, k - 1))

(* deflate_compress_segment_after: matches may reach into what precedes    *)
(* start, but for levels that compress alone.                              *)
BeginSegmentAfter(image, start, last, room) ==
  LET from == AtLeast(start - WINDOW, 0)
  IN  IF compressor.level.alone
      THEN BeginChunk(compressor, SubSeq(image, start + 1, Len(image)), 0, last, room)
      ELSE BeginChunk(compressor, SubSeq(image, from + 1, Len(image)), start - from, last, room)

BeginSegment(k, room) == BeginChunk(compressor, strips[k], 0, k = Len(strips), room)

(* StripCompressor::compress or compress_with_history of the next strip. *)
CompressStrip(room) ==
  LET k == Len(outputs) + 1
  IN  /\ compressor.pc = "idle" /\ k <= Len(strips)
      /\ compressor' = IF history THEN BeginSegmentAfter(Before(k) \o strips[k], Len(Before(k)),
                                                         k = Len(strips), room)
                                  ELSE BeginSegment(k, room)
      /\ call' = [room |-> room, status |-> "none"]
      /\ UNCHANGED <<strips, history, outputs>>

CompressMore ==
  /\ compressor' \in Steps(compressor, TRUE)
  /\ UNCHANGED <<strips, history, call, outputs>>

(* After an error the caller may try again. *)
StripReturns ==
  /\ compressor.pc = "returned"
  /\ call' = [call EXCEPT !.status = compressor.status]
  /\ outputs' = IF compressor.status = "ok" THEN Append(outputs, compressor.out) ELSE outputs
  /\ compressor' = Compressor(compressor.level)
  /\ UNCHANGED <<strips, history>>

StripsDone == strips # <<>> /\ Len(outputs) = Len(strips) /\ UNCHANGED stripVars

StripsNext ==
  \/ \E k \in {Len(outputs) + 1} \cap DOMAIN strips :
       \E room \in {ShortRoom} \cup {SegmentBound(Len(strips[k])) + n : n \in SpareRooms} :
         CompressStrip(room)
  \/ CompressMore
  \/ StripReturns
  \/ StripsDone

-------------------------------------------------------------------------------
(* StripDecoder: a strip decodes with an empty window.  It ends at a strip *)
(* boundary, or, after the final block, with the trailer.                  *)
StripDecoder(k) == Decoded(Decoder, outputs[k])
IsDone(d) == d.legal /\ d.in = "none" /\ d.at = 0
EndedAtStripBoundary(d) == IsDone(d) /\ ~d.final

(* The Adler-32 of a followed by the n bytes b is of. *)
Adler32Combine(a, b, n) == IF n = Len(b) THEN a \o b ELSE <<>>

JoinedAdler ==
  LET upTo[k \in 0 .. Len(outputs)] ==
        IF k = 0 THEN <<>>
        ELSE Adler32Combine(upTo[k - 1], StripDecoder(k).out, Len(StripDecoder(k).out))
  IN  upTo[Len(outputs)]

(* The strips finished so far are the beginning of one DEFLATE stream that *)
(* decodes to the image so far, with its only final block in the last one, *)
(* whatever calls failed or were stopped before.  Strips without history   *)
(* decode on their own to exactly their bytes, all but the last to a strip *)
(* boundary, and their checksums join to the image's; one that uses        *)
(* history decodes on its own to its bytes or not at all.  A call whose    *)
(* output has the bound's length never lacks room; at the static turbo     *)
(* level it may need one byte more, for the bits a marker comes after      *)
(* (StripCompressor, StripDecoder).                                        *)
StripsAreRight ==
  LET count == Len(outputs)
      whole == Decoded(Decoder, Joined(outputs))
      done == SubSeq(strips, 1, count)
  IN  /\ IsDone(whole) /\ whole.out = Joined(done)
      /\ whole.final = (count > 0 /\ count = Len(strips))
      /\ \A k \in 1 .. count :
           LET d == StripDecoder(k)
           IN  /\ IsDone(d) => d.out = strips[k]
               /\ ~history => IsDone(d) /\ EndedAtStripBoundary(d) = (k < Len(strips))
      /\ ~history => JoinedAdler = Joined(done)
      /\ call.status = "space" =>
           /\ count < Len(strips)
           /\ call.room < SegmentBound(Len(strips[count + 1]))
                            + AtMost(StaticExcess(compressor.level), 1)

===============================================================================

----------------------------- MODULE OutputWindow -----------------------------
(***************************************************************************)
(* OutputBuffer closed into a specification: any decoder that writes only  *)
(* where the code checks there is room, any caller of peek and advance.    *)
(***************************************************************************)
EXTENDS OutputBuffer

CONSTANT MaxProduced  (* bound on the bytes of one stream, -1 for none *)

ASSUME MaxProducedAssumption == MaxProduced \in Nat \cup {-1}

(* A write of n bytes and `scratch` scribbled cells stays in the buffer. *)
Fits(n, scratch) ==
  /\ n + scratch <= OutputSpace
  /\ MaxProduced >= 0 => Len(produced) + n <= MaxProduced

PutSome ==
  \E n \in 1 .. OutputSpace : \E scratch \in 0 .. (OutputSpace - n) :
     /\ Fits(n, scratch)
     /\ \E f \in [0 .. (n - 1) -> Byte] : PutBytes(f, n, scratch)

(* A legal back-reference: the code rejects offset 0 and offsets beyond    *)
(* lookback_valid.                                                         *)
CopySome ==
  \E offset \in 1 .. lookback_valid : \E length \in 1 .. OutputSpace :
    \E scratch \in 0 .. (OutputSpace - length) :
     /\ Fits(length, scratch)
     /\ WriteMatch(offset, length, scratch)

(* fill() compacts only when the buffer is full and returns before that    *)
(* when `capacity` bytes are waiting.                                      *)
CompactWhenFull ==
  /\ OutputSpace = 0
  /\ PeekLen < Capacity
  /\ CompactOutput

AdvanceSome == \E n \in 1 .. PeekLen : Advance(n)

BufferNext ==
  \/ PutSome
  \/ CopySome
  \/ CompactWhenFull
  \/ AdvanceSome
  \/ FlushChecksum
  \/ ResetOutput

BufferSpec == BufferInit /\ [][BufferNext]_bufferVars

-------------------------------------------------------------------------------

(* Types and positions: 0 <= read_pos <= write_pos <= Len(buffer), the     *)
(* buffer never outgrows lookback + capacity (streaming.rs 219-223).       *)
BufferTypeOK ==
  /\ wrapper \in WrapperFormat
  /\ checksum_policy \in ChecksumPolicy
  /\ buffer \in Seq(Byte)
  /\ Len(buffer) \in 1 .. FullSize
  /\ write_pos \in 0 .. Len(buffer)
  /\ read_pos \in 0 .. write_pos
  /\ lookback_valid \in 0 .. LOOKBACK_SIZE
  /\ checksum \in Seq(Byte)
  /\ total_output \in Nat
  /\ checksum_watermark \in 0 .. write_pos
  /\ produced \in Seq(Byte)

(* The buffer below write_pos is the tail of the output: growing, sliding, *)
(* overlapping copies and scribbles never damage a byte somebody may still *)
(* peek or copy from.                                                      *)
WindowHoldsTail ==
  /\ write_pos <= Len(produced)
  /\ \A p \in 1 .. write_pos :
        buffer[p] = produced[Len(produced) - write_pos + p]

(* lookback_valid is exactly what RFC 1951 allows: it accepts every        *)
(* distance up to 32 KiB into this stream's output and none into bytes an  *)
(* earlier stream left in the buffer, and it never reaches below cell 0    *)
(* (streaming.rs 227-238).                                                 *)
LookbackExact ==
  /\ lookback_valid = AtMost(Len(produced), LOOKBACK_SIZE)
  /\ lookback_valid <= write_pos

(* Every produced byte is hashed exactly once and in order, even though    *)
(* slides move the watermark: what was hashed, then what is still          *)
(* unhashed, is the whole output (streaming.rs 712-735, 686-696).          *)
ChecksumCoversOnce ==
  wrapper # "raw" =>
    /\ total_output + (write_pos - checksum_watermark) = Len(produced)
    /\ checksum_policy # "ignore" =>
         /\ Len(checksum) = total_output
         /\ \A i \in 1 .. total_output : checksum[i] = produced[i]

(* Until the buffer has its full size nothing was dropped from it: growth  *)
(* never discards lookback.                                                *)
GrowthKeepsAll == Len(buffer) < FullSize => write_pos = Len(produced)

(* When fill() compacts, which it does only with a full buffer of which    *)
(* less than `capacity` waits, the compaction makes room: its "still no    *)
(* space" exit (streaming.rs 838-842) is never taken, and a caller that    *)
(* drains never sees fill() return without progress.                       *)
RoomGained ==
  IF Len(buffer) < FullSize THEN GrownSize - Len(buffer)
                            ELSE AtLeast(KeepStart, 0)

CompactionMakesRoom == OutputSpace = 0 /\ PeekLen < Capacity => RoomGained > 0

(* peek/advance is a lossless FIFO of the produced bytes. *)
Queue == INSTANCE ByteQueue WITH
  written <- produced,
  taken <- Len(produced) - PeekLen,
  view <- Peek

ImplementsQueue == Queue!Spec
===============================================================================

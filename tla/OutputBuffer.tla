----------------------------- MODULE OutputBuffer -----------------------------
(***************************************************************************)
(* The output side of StreamDecompressor (src/src/decompress/streaming.rs):*)
(* one growable buffer that is at once the bytes the caller has not taken  *)
(* yet (peek) and the window back-references copy from.                    *)
(*                                                                         *)
(*    0          read_pos              write_pos            Len(buffer)    *)
(*    | consumed    |  peek()              |   free / scratch    |         *)
(*                                                                         *)
(* This module holds the state and the operations; OutputWindow closes     *)
(* them into a specification of their own and StreamDecompressor calls     *)
(* them from fill().  Positions are 0-based as in the code: cell p of the  *)
(* Vec is buffer[p + 1].                                                   *)
(***************************************************************************)
EXTENDS Integers, Sequences

CONSTANTS
  LOOKBACK_SIZE,  (* the DEFLATE window: 32 KiB in the code               *)
  Capacity,       (* the constructor's `capacity`                         *)
  MIN_GROWN,      (* smallest size a grown buffer gets: 64 in the code    *)
  Byte,           (* the byte values                                      *)
  Junk            (* the value of zero-fill and of scribbled scratch cells *)

ASSUME BufferAssumption ==
  /\ LOOKBACK_SIZE \in Nat \ {0}
  /\ Capacity \in Nat \ {0}
  /\ MIN_GROWN \in Nat \ {0}
  /\ MIN_GROWN <= LOOKBACK_SIZE + Capacity
  /\ Junk \in Byte

WrapperFormat == {"raw", "zlib", "gzip"}
ChecksumPolicy == {"verify", "report", "ignore"}

VARIABLES
  wrapper,            (* WrapperFormat, chosen by the constructor         *)
  checksum_policy,    (* ChecksumPolicy, chosen by with_checksum          *)
  buffer,             (* Vec<u8>, a sequence of bytes                     *)
  write_pos, read_pos,
  lookback_valid,     (* bytes before write_pos a back-reference may use  *)
  checksum,           (* the bytes hashed so far, in the order hashed     *)
  total_output,       (* how many bytes flush_checksum has counted        *)
  checksum_watermark, (* buffer position up to which they were hashed     *)
  produced            (* history: every output byte since the last reset  *)

formatVars == <<wrapper, checksum_policy>>
bufferVars == <<buffer, write_pos, read_pos, lookback_valid, checksum,
                total_output, checksum_watermark, produced, formatVars>>

AtMost(a, b) == IF a <= b THEN a ELSE b
AtLeast(a, b) == IF a >= b THEN a ELSE b

(* s followed by the n bytes f[0], ..., f[n - 1]. *)
Extended(s, f, n) ==
  [i \in 1 .. (Len(s) + n) |-> IF i <= Len(s) THEN s[i] ELSE f[i - Len(s) - 1]]

(* Mutant: the full buffer has no room for `capacity`. *)
FullSize_NoCapacity == LOOKBACK_SIZE

FullSize == LOOKBACK_SIZE + Capacity
OutputSpace == Len(buffer) - write_pos
PeekLen == write_pos - read_pos
Peek == [i \in 1 .. PeekLen |-> buffer[read_pos + i]]

BufferInit ==
  /\ wrapper \in WrapperFormat
  /\ checksum_policy \in ChecksumPolicy
  /\ buffer = [i \in 1 .. Capacity |-> Junk]
  /\ write_pos = 0
  /\ read_pos = 0
  /\ lookback_valid = 0
  /\ checksum = <<>>
  /\ total_output = 0
  /\ checksum_watermark = 0
  /\ produced = <<>>

(***************************************************************************)
(* Writing.  The n bytes f are stored at write_pos; `scratch` further cells*)
(* are scribbled (put_lits stores two bytes for one literal, the fastloop's*)
(* match copy works in 32-byte chunks).  `promise` is what DEFLATE says    *)
(* those bytes are: the history records it, never what the buffer got.     *)
(***************************************************************************)
Written(f, n, scratch) ==
  [p \in 1 .. Len(buffer) |->
     IF p <= write_pos \/ p > write_pos + n + scratch THEN buffer[p]
     ELSE IF p <= write_pos + n THEN f[p - write_pos - 1]
     ELSE Junk]

WriteBytes(f, n, scratch, promise) ==
  /\ buffer' = Written(f, n, scratch)
  /\ write_pos' = write_pos + n
  /\ lookback_valid' = AtMost(lookback_valid + n, LOOKBACK_SIZE)
  /\ produced' = Extended(produced, promise, n)
  /\ UNCHANGED <<read_pos, checksum, total_output, checksum_watermark, formatVars>>

(* Literals and stored bytes: the bytes come from the stream itself. *)
PutBytes(f, n, scratch) == WriteBytes(f, n, scratch, f)

(* Mutant: an overlapping copy reads what was there before. *)
MatchBytes_Memmove(offset, length) ==
  [i \in 0 .. (length - 1) |-> buffer[write_pos - offset + i + 1]]

(* write_match_inline: the copy reads its own output when it overlaps. *)
MatchBytes(offset, length) ==
  [i \in 0 .. (length - 1) |-> buffer[write_pos - offset + (i % offset) + 1]]

PromisedBytes(offset, length) ==
  [i \in 0 .. (length - 1) |->
     produced[Len(produced) - offset + (i % offset) + 1]]

WriteMatch(offset, length, scratch) ==
  WriteBytes(MatchBytes(offset, length), length, scratch,
             PromisedBytes(offset, length))

(***************************************************************************)
(* flush_checksum: hash [checksum_watermark, write_pos).                   *)
(***************************************************************************)
Unhashed == [i \in 0 .. (write_pos - checksum_watermark - 1) |->
               buffer[checksum_watermark + i + 1]]

(* Mutant: only bytes the caller has taken are hashed. *)
FlushNeeded_OnlyTaken == wrapper # "raw" /\ checksum_watermark < read_pos

FlushNeeded == wrapper # "raw" /\ checksum_watermark < write_pos

FlushedChecksum ==
  IF FlushNeeded /\ checksum_policy # "ignore"
    THEN Extended(checksum, Unhashed, write_pos - checksum_watermark)
    ELSE checksum

(* Mutant: counts from the buffer's start instead of the watermark. *)
FlushedTotal_Recounts ==
  IF FlushNeeded THEN total_output + write_pos ELSE total_output

FlushedTotal ==
  IF FlushNeeded THEN total_output + (write_pos - checksum_watermark)
                 ELSE total_output

FlushChecksum ==
  /\ checksum' = FlushedChecksum
  /\ total_output' = FlushedTotal
  /\ checksum_watermark' = IF FlushNeeded THEN write_pos ELSE checksum_watermark
  /\ UNCHANGED <<buffer, write_pos, read_pos, lookback_valid, produced, formatVars>>

(***************************************************************************)
(* compact_output: grow the buffer until it has its full size, afterwards  *)
(* slide it so that LOOKBACK_SIZE bytes stay before read_pos.              *)
(***************************************************************************)
(* Mutant: growth stops at the size the buffer has. *)
GrownSize_Stuck == AtMost(Len(buffer), FullSize)

(* Mutant: doubles beyond the full size. *)
GrownSize_Unclamped == AtLeast(2 * Len(buffer), MIN_GROWN)

GrownSize == AtMost(AtLeast(2 * Len(buffer), MIN_GROWN), FullSize)

Grow ==
  /\ Len(buffer) < FullSize
  /\ buffer' = [p \in 1 .. GrownSize |->
                  IF p <= Len(buffer) THEN buffer[p] ELSE Junk]
  /\ UNCHANGED <<write_pos, read_pos, lookback_valid, checksum, total_output,
                 checksum_watermark, produced, formatVars>>

(* Mutant: keeps one byte of lookback too few. *)
KeepStart_OffByOne == read_pos - LOOKBACK_SIZE + 1

KeepStart == read_pos - LOOKBACK_SIZE

Slide ==
  /\ Len(buffer) >= FullSize
  /\ read_pos > LOOKBACK_SIZE
  /\ buffer' = [p \in 1 .. Len(buffer) |->
                  IF p <= write_pos - KeepStart THEN buffer[p + KeepStart]
                  ELSE buffer[p]]
  /\ read_pos' = read_pos - KeepStart
  /\ write_pos' = write_pos - KeepStart
  /\ lookback_valid' = AtMost(lookback_valid, write_pos')
  /\ checksum' = FlushedChecksum
  /\ total_output' = FlushedTotal
  /\ checksum_watermark' = write_pos'
  /\ UNCHANGED <<produced, formatVars>>

NothingToCompact ==
  /\ Len(buffer) >= FullSize
  /\ read_pos <= LOOKBACK_SIZE
  /\ UNCHANGED bufferVars

CompactOutput == Grow \/ Slide \/ NothingToCompact

(* advance(n); the assert makes a larger n a panic. *)
Advance(n) ==
  /\ n <= PeekLen
  /\ read_pos' = read_pos + n
  /\ UNCHANGED <<buffer, write_pos, lookback_valid, checksum, total_output,
                 checksum_watermark, produced, formatVars>>

(* The part of reset that concerns the output: the buffer keeps its size   *)
(* and the previous stream's bytes, the decoder its format and policy.     *)
ResetOutput ==
  /\ write_pos' = 0
  /\ read_pos' = 0
  /\ lookback_valid' = 0
  /\ checksum' = <<>>
  /\ total_output' = 0
  /\ checksum_watermark' = 0
  /\ produced' = <<>>
  /\ UNCHANGED <<buffer, formatVars>>

===============================================================================

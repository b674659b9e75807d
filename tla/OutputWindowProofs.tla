-------------------------- MODULE OutputWindowProofs --------------------------
(***************************************************************************)
(* Proofs about OutputWindow, for every window size, capacity, alphabet,   *)
(* wrapper and checksum policy.                                            *)
(***************************************************************************)
EXTENDS OutputWindow, SequenceTheorems, TLAPS

(* The five conjuncts are inductive only together: a slide keeps the       *)
(* contents because lookback_valid and the watermark lie inside what it    *)
(* moves, and a copy is right because the window holds the tail.           *)
WindowInv ==
  /\ BufferTypeOK
  /\ WindowHoldsTail
  /\ LookbackExact
  /\ ChecksumCoversOnce
  /\ GrowthKeepsAll

-------------------------------------------------------------------------------

(* A function on 1 .. n is a sequence of length n. *)
LEMMA FunctionIsSequence ==
  ASSUME NEW S, NEW n \in Nat, NEW g \in [1 .. n -> S]
  PROVE  g \in Seq(S) /\ Len(g) = n
<1>1. g \in Seq(S)
  BY SeqDef, Zenon
<1>2. Len(g) \in Nat /\ DOMAIN g = 1 .. Len(g)
  BY <1>1, LenProperties, Zenon
<1>3. DOMAIN g = 1 .. n
  OBVIOUS
<1>4. Len(g) = n
  BY <1>2, <1>3
<1>5. QED BY <1>1, <1>4

(* t is s followed by f[0], ..., f[n - 1]. *)
IsExtension(S, t, s, f, n) ==
  /\ t \in Seq(S)
  /\ Len(t) = Len(s) + n
  /\ \A i \in 1 .. Len(s) : t[i] = s[i]
  /\ \A i \in (Len(s) + 1) .. (Len(s) + n) : t[i] = f[i - Len(s) - 1]

(* Extending a sequence by n bytes: its type, its length and its elements. *)
LEMMA ExtendedFacts ==
  ASSUME NEW S, NEW s \in Seq(S), NEW n \in Nat, NEW f \in [0 .. (n - 1) -> S]
  PROVE  IsExtension(S, Extended(s, f, n), s, f, n)
<1>1. \A i \in 1 .. (Len(s) + n) :
         (IF i <= Len(s) THEN s[i] ELSE f[i - Len(s) - 1]) \in S
  <2>1. TAKE i \in 1 .. (Len(s) + n)
  <2>2. CASE i <= Len(s)
    BY <2>2
  <2>3. CASE ~(i <= Len(s))
    <3>1. i - Len(s) - 1 \in 0 .. (n - 1)
      BY <2>3
    <3>2. QED BY <2>3, <3>1
  <2>4. QED BY <2>2, <2>3
<1>2. Extended(s, f, n) \in [1 .. (Len(s) + n) -> S]
  BY <1>1 DEF Extended
<1>3. Len(s) + n \in Nat
  OBVIOUS
<1>4. Extended(s, f, n) \in Seq(S) /\ Len(Extended(s, f, n)) = Len(s) + n
  BY <1>2, <1>3, FunctionIsSequence, Zenon
<1>5. QED BY <1>4 DEF Extended, IsExtension

(* A match copy under the invariant reads exactly the bytes that DEFLATE   *)
(* refers to, overlapping or not.                                          *)
LEMMA MatchIsPromised ==
  ASSUME WindowInv, NEW offset \in 1 .. lookback_valid, NEW length \in Nat
  PROVE  /\ MatchBytes(offset, length) \in [0 .. (length - 1) -> Byte]
         /\ MatchBytes(offset, length) = PromisedBytes(offset, length)
<1>1. ASSUME NEW i \in 0 .. (length - 1)
      PROVE  /\ write_pos - offset + (i % offset) + 1 \in 1 .. write_pos
             /\ buffer[write_pos - offset + (i % offset) + 1] \in Byte
             /\ buffer[write_pos - offset + (i % offset) + 1]
                  = produced[Len(produced) - offset + (i % offset) + 1]
  <2>1. i % offset \in 0 .. (offset - 1)
    BY DEF WindowInv, BufferTypeOK
  <2> DEFINE k == i % offset
  <2>2. k \in 0 .. (offset - 1)
    BY <2>1
  <2> HIDE DEF k
  <2>3. write_pos - offset + k + 1 \in 1 .. write_pos
    BY <2>2 DEF WindowInv, BufferTypeOK, LookbackExact
  <2>4. buffer[write_pos - offset + k + 1] \in Byte
    BY <2>3 DEF WindowInv, BufferTypeOK
  <2>5. Len(produced) - write_pos + (write_pos - offset + k + 1)
          = Len(produced) - offset + k + 1
    BY <2>2 DEF WindowInv, BufferTypeOK
  <2>6. buffer[write_pos - offset + k + 1]
          = produced[Len(produced) - offset + k + 1]
    BY <2>3, <2>5 DEF WindowInv, WindowHoldsTail
  <2>7. QED BY <2>3, <2>4, <2>6 DEF k
<1>2. QED BY <1>1 DEF MatchBytes, PromisedBytes

-------------------------------------------------------------------------------

(* Any write that fits and stores what the stream promises keeps the       *)
(* invariant, scribbles included.                                          *)
LEMMA WriteKeepsInvariant ==
  ASSUME WindowInv, NEW n \in 1 .. OutputSpace, NEW scratch \in Nat,
         n + scratch <= OutputSpace,
         NEW f \in [0 .. (n - 1) -> Byte],
         WriteBytes(f, n, scratch, f)
  PROVE  WindowInv'
<1> USE BufferAssumption DEF OutputSpace, FullSize
<1>0. /\ n \in Nat
      /\ produced \in Seq(Byte)
      /\ f \in [0 .. (n - 1) -> Byte]
  BY DEF WindowInv, BufferTypeOK
<1>1. IsExtension(Byte, produced', produced, f, n)
  <2>1. IsExtension(Byte, Extended(produced, f, n), produced, f, n)
    BY ONLY <1>0, ExtendedFacts
  <2>2. QED BY <2>1 DEF WriteBytes
<1>2. /\ produced' \in Seq(Byte)
      /\ Len(produced') = Len(produced) + n
      /\ \A i \in 1 .. Len(produced) : produced'[i] = produced[i]
      /\ \A i \in (Len(produced) + 1) .. (Len(produced) + n) :
            produced'[i] = f[i - Len(produced) - 1]
  BY <1>1 DEF IsExtension
<1>3. /\ buffer' \in [1 .. Len(buffer) -> Byte]
      /\ \A p \in 1 .. write_pos : buffer'[p] = buffer[p]
      /\ \A p \in (write_pos + 1) .. (write_pos + n) :
            buffer'[p] = f[p - write_pos - 1]
  <2>1. ASSUME NEW p \in 1 .. Len(buffer), p > write_pos, p <= write_pos + n
        PROVE  f[p - write_pos - 1] \in Byte
    <3>1. p - write_pos - 1 \in 0 .. (n - 1)
      BY <2>1 DEF WindowInv, BufferTypeOK
    <3>2. QED BY <3>1
  <2>2. \A p \in 1 .. Len(buffer) : buffer[p] \in Byte
    BY DEF WindowInv, BufferTypeOK
  <2>3. \A p \in 1 .. Len(buffer) :
          (IF p <= write_pos \/ p > write_pos + n + scratch THEN buffer[p]
           ELSE IF p <= write_pos + n THEN f[p - write_pos - 1]
           ELSE Junk) \in Byte
    BY <2>1, <2>2 DEF WindowInv, BufferTypeOK
  <2>4. buffer' = [p \in 1 .. Len(buffer) |->
          IF p <= write_pos \/ p > write_pos + n + scratch THEN buffer[p]
          ELSE IF p <= write_pos + n THEN f[p - write_pos - 1]
          ELSE Junk]
    BY DEF WriteBytes, Written
  <2>5. buffer' \in [1 .. Len(buffer) -> Byte]
    BY <2>3, <2>4
  <2>6. ASSUME NEW p \in 1 .. write_pos
        PROVE  buffer'[p] = buffer[p]
    BY <2>4 DEF WindowInv, BufferTypeOK
  <2>7. ASSUME NEW p \in (write_pos + 1) .. (write_pos + n)
        PROVE  buffer'[p] = f[p - write_pos - 1]
    BY <2>4 DEF WindowInv, BufferTypeOK
  <2>8. QED BY <2>5, <2>6, <2>7
<1>4. buffer' \in Seq(Byte) /\ Len(buffer') = Len(buffer)
  <2>1. Len(buffer) \in Nat
    BY DEF WindowInv, BufferTypeOK
  <2>2. QED BY <1>3, <2>1, FunctionIsSequence, Zenon
<1>5. /\ write_pos' = write_pos + n
      /\ lookback_valid' = AtMost(lookback_valid + n, LOOKBACK_SIZE)
      /\ read_pos' = read_pos
      /\ checksum' = checksum
      /\ total_output' = total_output
      /\ checksum_watermark' = checksum_watermark
      /\ wrapper' = wrapper
      /\ checksum_policy' = checksum_policy
  BY DEF WriteBytes, formatVars
<1>6. BufferTypeOK'
  <2>1. lookback_valid' \in 0 .. LOOKBACK_SIZE
    BY <1>5 DEF WindowInv, BufferTypeOK, AtMost
  <2>2. /\ Len(buffer') \in 1 .. FullSize
        /\ write_pos' \in 0 .. Len(buffer')
        /\ read_pos' \in 0 .. write_pos'
        /\ checksum_watermark' \in 0 .. write_pos'
    BY <1>4, <1>5 DEF WindowInv, BufferTypeOK
  <2>3. /\ checksum' \in Seq(Byte)
        /\ total_output' \in Nat
        /\ wrapper' \in WrapperFormat
        /\ checksum_policy' \in ChecksumPolicy
    BY <1>5 DEF WindowInv, BufferTypeOK
  <2>4. QED BY <1>2, <1>4, <2>1, <2>2, <2>3 DEF BufferTypeOK
<1>7. WindowHoldsTail'
  <2>1. write_pos' <= Len(produced')
    BY <1>2, <1>5 DEF WindowInv, BufferTypeOK, WindowHoldsTail
  <2>2. ASSUME NEW p \in 1 .. write_pos'
        PROVE  buffer'[p] = produced'[Len(produced') - write_pos' + p]
    <3>1. Len(produced') - write_pos' + p = Len(produced) - write_pos + p
      BY <1>2, <1>5 DEF WindowInv, BufferTypeOK
    <3>2. CASE p <= write_pos
      <4>1. Len(produced) - write_pos + p \in 1 .. Len(produced)
        BY <3>2 DEF WindowInv, BufferTypeOK, WindowHoldsTail
      <4>2. p \in 1 .. write_pos
        BY <1>5, <3>2 DEF WindowInv, BufferTypeOK
      <4>3. buffer[p] = produced[Len(produced) - write_pos + p]
        BY <4>2 DEF WindowInv, WindowHoldsTail
      <4>4. QED BY <1>2, <1>3, <3>1, <4>1, <4>2, <4>3
    <3>3. CASE p > write_pos
      <4>0. /\ Len(produced) \in Nat
            /\ write_pos \in Nat
            /\ p \in (write_pos + 1) .. (write_pos + n)
        BY <1>5, <3>3 DEF WindowInv, BufferTypeOK
      <4>1. Len(produced) - write_pos + p
              \in (Len(produced) + 1) .. (Len(produced) + n)
        BY ONLY <1>0, <4>0
      <4>2. (Len(produced) - write_pos + p) - Len(produced) - 1
              = p - write_pos - 1
        BY DEF WindowInv, BufferTypeOK
      <4>3. produced'[Len(produced) - write_pos + p] = f[p - write_pos - 1]
        BY <1>2, <4>1, <4>2
      <4>4. p \in (write_pos + 1) .. (write_pos + n)
        BY <1>5, <3>3 DEF WindowInv, BufferTypeOK
      <4>5. QED BY <1>3, <3>1, <4>3, <4>4
    <3>4. QED BY <1>5, <3>2, <3>3 DEF WindowInv, BufferTypeOK
  <2>3. QED BY <2>1, <2>2 DEF WindowHoldsTail
<1>8. LookbackExact'
  BY <1>2, <1>5 DEF WindowInv, BufferTypeOK, LookbackExact, AtMost
<1>9. ChecksumCoversOnce'
  <2> SUFFICES ASSUME wrapper # "raw"
               PROVE  /\ total_output' + (write_pos' - checksum_watermark')
                            = Len(produced')
                      /\ checksum_policy # "ignore" =>
                           /\ Len(checksum') = total_output'
                           /\ \A i \in 1 .. total_output' :
                                 checksum'[i] = produced'[i]
    BY <1>5 DEF ChecksumCoversOnce
  <2>1. total_output' + (write_pos' - checksum_watermark') = Len(produced')
    <3>1. total_output + (write_pos - checksum_watermark) = Len(produced)
      BY DEF WindowInv, ChecksumCoversOnce
    <3>2. /\ total_output \in Nat
          /\ write_pos \in Nat
          /\ checksum_watermark \in Nat
          /\ Len(produced) \in Nat
      BY DEF WindowInv, BufferTypeOK
    <3>3. /\ total_output' = total_output
          /\ write_pos' = write_pos + n
          /\ checksum_watermark' = checksum_watermark
          /\ Len(produced') = Len(produced) + n
          /\ n \in Nat
      BY <1>0, <1>2, <1>5
    <3>4. QED BY ONLY <3>1, <3>2, <3>3
  <2>2. total_output <= Len(produced) /\ total_output \in Nat
    BY DEF WindowInv, BufferTypeOK, ChecksumCoversOnce
  <2>3. ASSUME checksum_policy # "ignore"
        PROVE  /\ Len(checksum') = total_output'
               /\ \A i \in 1 .. total_output' : checksum'[i] = produced'[i]
    <3>1. /\ Len(checksum) = total_output
          /\ \A i \in 1 .. total_output : checksum[i] = produced[i]
      BY <2>3 DEF WindowInv, ChecksumCoversOnce
    <3>2. \A i \in 1 .. total_output : i \in 1 .. Len(produced)
      BY <2>2, <1>0
    <3>3. QED BY <1>2, <1>5, <3>1, <3>2
  <2>4. QED BY <2>1, <2>3
<1>10. GrowthKeepsAll'
  BY <1>2, <1>4, <1>5 DEF WindowInv, BufferTypeOK, GrowthKeepsAll
<1>11. QED BY <1>6, <1>7, <1>8, <1>9, <1>10 DEF WindowInv

-------------------------------------------------------------------------------

(* Hashing up to write_pos: the checksum stays a prefix of the output.     *)
LEMMA FlushCoversAll ==
  ASSUME WindowInv, wrapper # "raw"
  PROVE  /\ FlushedTotal = Len(produced)
         /\ FlushedChecksum \in Seq(Byte)
         /\ checksum_policy # "ignore" =>
              /\ Len(FlushedChecksum) = Len(produced)
              /\ \A i \in 1 .. Len(produced) : FlushedChecksum[i] = produced[i]
<1>1. /\ total_output + (write_pos - checksum_watermark) = Len(produced)
      /\ total_output \in Nat
      /\ Len(produced) \in Nat
      /\ write_pos \in Nat
      /\ write_pos <= Len(produced)
      /\ checksum_watermark \in 0 .. write_pos
      /\ checksum \in Seq(Byte)
  BY DEF WindowInv, BufferTypeOK, ChecksumCoversOnce, WindowHoldsTail
<1>2. FlushedTotal = Len(produced)
  BY ONLY <1>1, wrapper # "raw" DEF FlushedTotal, FlushNeeded
<1>3. CASE ~(FlushNeeded /\ checksum_policy # "ignore")
  <2>1. FlushedChecksum = checksum
    BY <1>3 DEF FlushedChecksum
  <2>2. ASSUME checksum_policy # "ignore"
        PROVE  total_output = Len(produced)
    BY <1>1, <1>3, <2>2 DEF FlushNeeded
  <2>3. QED BY <1>1, <1>2, <2>1, <2>2 DEF WindowInv, ChecksumCoversOnce
<1>4. CASE FlushNeeded /\ checksum_policy # "ignore"
  <2> DEFINE m == write_pos - checksum_watermark
  <2>1. m \in Nat
    BY <1>1
  <2>2. /\ Unhashed \in [0 .. (m - 1) -> Byte]
        /\ \A j \in 0 .. (m - 1) :
              /\ Unhashed[j] = buffer[checksum_watermark + j + 1]
              /\ checksum_watermark + j + 1 \in 1 .. write_pos
    <3>1. \A j \in 0 .. (m - 1) :
             /\ checksum_watermark + j + 1 \in 1 .. write_pos
             /\ buffer[checksum_watermark + j + 1] \in Byte
      BY <1>1 DEF WindowInv, BufferTypeOK
    <3>2. QED BY <3>1 DEF Unhashed
  <2>3. FlushedChecksum = Extended(checksum, Unhashed, m)
    BY <1>4 DEF FlushedChecksum
  <2> HIDE DEF m
  <2>4. IsExtension(Byte, Extended(checksum, Unhashed, m), checksum, Unhashed, m)
    BY ONLY <1>1, <2>1, <2>2, ExtendedFacts
  <2>5. IsExtension(Byte, FlushedChecksum, checksum, Unhashed, m)
    BY <2>3, <2>4
  <2>6. /\ Len(checksum) = total_output
        /\ \A i \in 1 .. total_output : checksum[i] = produced[i]
    BY <1>4 DEF FlushNeeded, WindowInv, ChecksumCoversOnce
  <2>7. total_output + m = Len(produced)
    BY <1>1 DEF m
  <2>8. Len(FlushedChecksum) = Len(produced)
    BY ONLY <1>1, <2>1, <2>5, <2>6, <2>7 DEF IsExtension
  <2>9. ASSUME NEW i \in 1 .. Len(produced)
        PROVE  FlushedChecksum[i] = produced[i]
    <3>1. CASE i <= total_output
      <4>1. i \in 1 .. total_output
        BY <1>1, <3>1
      <4>2. FlushedChecksum[i] = checksum[i]
        BY <2>5, <2>6, <4>1 DEF IsExtension
      <4>3. QED BY <2>6, <4>1, <4>2
    <3>2. CASE i > total_output
      <4> DEFINE j == i - total_output - 1
      <4>1. /\ j \in 0 .. (m - 1)
            /\ i \in (total_output + 1) .. (total_output + m)
        BY ONLY <1>1, <2>1, <2>7, <3>2, i \in 1 .. Len(produced)
      <4>2. FlushedChecksum[i] = Unhashed[j]
        BY <2>5, <2>6, <4>1 DEF IsExtension
      <4>3. Unhashed[j] = buffer[checksum_watermark + j + 1]
        BY <2>2, <4>1
      <4>4. checksum_watermark + j + 1 \in 1 .. write_pos
        BY <2>2, <4>1
      <4>5. buffer[checksum_watermark + j + 1]
              = produced[Len(produced) - write_pos + (checksum_watermark + j + 1)]
        BY <4>4 DEF WindowInv, WindowHoldsTail
      <4>6. Len(produced) - write_pos + (checksum_watermark + j + 1) = i
        BY ONLY <1>1, <4>1, i \in 1 .. Len(produced)
      <4>7. QED BY <4>2, <4>3, <4>5, <4>6
    <3>3. QED BY <1>1, <3>1, <3>2
  <2>10. QED BY <1>2, <2>5, <2>8, <2>9 DEF IsExtension
<1>5. QED BY <1>3, <1>4

LEMMA FlushKeepsInvariant ==
  ASSUME WindowInv, FlushChecksum
  PROVE  WindowInv'
<1> USE BufferAssumption DEF FullSize
<1>1. CASE wrapper = "raw"
  <2>1. UNCHANGED bufferVars
    BY <1>1 DEF FlushChecksum, FlushedChecksum, FlushedTotal, FlushNeeded,
                bufferVars, formatVars
  <2>2. QED BY <2>1 DEF bufferVars, formatVars, WindowInv, BufferTypeOK, WindowHoldsTail, LookbackExact,
                        ChecksumCoversOnce, GrowthKeepsAll
<1>2. CASE wrapper # "raw"
  <2>1. /\ UNCHANGED <<buffer, write_pos, read_pos, lookback_valid, produced>>
        /\ checksum' = FlushedChecksum
        /\ total_output' = FlushedTotal
        /\ checksum_watermark' = write_pos
        /\ wrapper' = wrapper
        /\ checksum_policy' = checksum_policy
    BY <1>2 DEF FlushChecksum, FlushNeeded, WindowInv, BufferTypeOK, formatVars
  <2>2. WindowHoldsTail' /\ LookbackExact' /\ GrowthKeepsAll'
    BY <2>1 DEF WindowInv, WindowHoldsTail, LookbackExact, GrowthKeepsAll
  <2>3. BufferTypeOK'
    BY <1>2, <2>1, FlushCoversAll DEF WindowInv, BufferTypeOK
  <2>4. ChecksumCoversOnce'
    <3>1. total_output' + (write_pos' - checksum_watermark') = Len(produced')
      BY <1>2, <2>1, FlushCoversAll DEF WindowInv, BufferTypeOK
    <3>2. QED BY <1>2, <2>1, <3>1, FlushCoversAll DEF ChecksumCoversOnce
  <2>5. QED BY <2>2, <2>3, <2>4 DEF WindowInv
<1>3. QED BY <1>1, <1>2

LEMMA AdvanceKeepsInvariant ==
  ASSUME WindowInv, NEW n \in 1 .. PeekLen, Advance(n)
  PROVE  WindowInv'
<1> USE BufferAssumption DEF FullSize, PeekLen
<1>1. /\ UNCHANGED <<buffer, write_pos, lookback_valid, checksum, total_output,
                     checksum_watermark, produced, wrapper, checksum_policy>>
      /\ read_pos' = read_pos + n
  BY DEF Advance, formatVars
<1>2. read_pos' \in 0 .. write_pos'
  BY <1>1 DEF WindowInv, BufferTypeOK
<1>3. BufferTypeOK'
  BY <1>1, <1>2 DEF WindowInv, BufferTypeOK
<1>4. QED
  BY <1>1, <1>3 DEF WindowInv, WindowHoldsTail, LookbackExact, ChecksumCoversOnce,
                    GrowthKeepsAll

LEMMA ResetKeepsInvariant ==
  ASSUME WindowInv, ResetOutput
  PROVE  WindowInv'
<1> USE BufferAssumption DEF FullSize
<1>1. /\ buffer' = buffer
      /\ write_pos' = 0
      /\ read_pos' = 0
      /\ lookback_valid' = 0
      /\ checksum' = <<>>
      /\ total_output' = 0
      /\ checksum_watermark' = 0
      /\ produced' = <<>>
      /\ wrapper' = wrapper
      /\ checksum_policy' = checksum_policy
  BY DEF ResetOutput, formatVars
<1>2. <<>> \in Seq(Byte) /\ Len(<<>>) = 0
  OBVIOUS
<1>3. BufferTypeOK'
  BY <1>1, <1>2 DEF WindowInv, BufferTypeOK
<1>4. QED
  BY <1>1, <1>2, <1>3 DEF WindowInv, WindowHoldsTail, LookbackExact,
                          ChecksumCoversOnce, GrowthKeepsAll, AtMost

(* Growing copies the buffer as it is and only adds free cells.            *)
LEMMA GrowKeepsInvariant ==
  ASSUME WindowInv, Grow
  PROVE  WindowInv' /\ Len(buffer') > Len(buffer)
<1> USE BufferAssumption DEF FullSize
<1>1. /\ Len(buffer) \in Nat \ {0}
      /\ Len(buffer) < FullSize
  BY DEF WindowInv, BufferTypeOK, Grow
<1>2. /\ GrownSize \in Nat
      /\ GrownSize <= FullSize
      /\ GrownSize > Len(buffer)
  BY <1>1 DEF GrownSize, AtMost, AtLeast
<1>3. /\ buffer' \in [1 .. GrownSize -> Byte]
      /\ \A p \in 1 .. Len(buffer) : buffer'[p] = buffer[p]
  <2>1. \A p \in 1 .. GrownSize :
           (IF p <= Len(buffer) THEN buffer[p] ELSE Junk) \in Byte
    BY <1>1, <1>2 DEF WindowInv, BufferTypeOK
  <2>2. buffer' = [p \in 1 .. GrownSize |->
                     IF p <= Len(buffer) THEN buffer[p] ELSE Junk]
    BY DEF Grow
  <2>3. QED BY <1>1, <1>2, <2>1, <2>2
<1>4. buffer' \in Seq(Byte) /\ Len(buffer') = GrownSize
  BY <1>2, <1>3, FunctionIsSequence, Zenon
<1>5. UNCHANGED <<write_pos, read_pos, lookback_valid, checksum, total_output,
                  checksum_watermark, produced, wrapper, checksum_policy>>
  BY DEF Grow, formatVars
<1>6. BufferTypeOK'
  BY <1>1, <1>2, <1>4, <1>5 DEF WindowInv, BufferTypeOK
<1>7. WindowHoldsTail'
  <2>1. ASSUME NEW p \in 1 .. write_pos
        PROVE  buffer'[p] = produced[Len(produced) - write_pos + p]
    <3>1. p \in 1 .. Len(buffer)
      BY DEF WindowInv, BufferTypeOK
    <3>2. buffer[p] = produced[Len(produced) - write_pos + p]
      BY DEF WindowInv, WindowHoldsTail
    <3>3. QED BY <1>3, <3>1, <3>2
  <2>2. write_pos <= Len(produced)
    BY DEF WindowInv, WindowHoldsTail
  <2>3. QED BY <1>5, <2>1, <2>2 DEF WindowHoldsTail
<1>8. LookbackExact' /\ ChecksumCoversOnce'
  BY <1>5 DEF WindowInv, LookbackExact, ChecksumCoversOnce
<1>9. GrowthKeepsAll'
  BY <1>1, <1>5 DEF WindowInv, GrowthKeepsAll
<1>10. QED BY <1>2, <1>4, <1>6, <1>7, <1>8, <1>9 DEF WindowInv

(* Sliding drops only bytes that are both consumed and out of the window.  *)
LEMMA SlideKeepsInvariant ==
  ASSUME WindowInv, Slide
  PROVE  WindowInv' /\ Len(buffer') = Len(buffer) /\ write_pos' < write_pos
<1> USE BufferAssumption DEF FullSize
<1>1. /\ Len(buffer) \in Nat
      /\ write_pos \in 0 .. Len(buffer)
      /\ read_pos \in 0 .. write_pos
      /\ KeepStart \in Nat
      /\ KeepStart > 0
      /\ KeepStart = read_pos - LOOKBACK_SIZE
      /\ Len(buffer) >= FullSize
      /\ Len(produced) \in Nat
      /\ write_pos <= Len(produced)
  BY DEF WindowInv, BufferTypeOK, WindowHoldsTail, Slide, KeepStart
<1>2. /\ read_pos' = LOOKBACK_SIZE
      /\ write_pos' = write_pos - KeepStart
      /\ write_pos' \in Nat
      /\ LOOKBACK_SIZE <= write_pos'
      /\ write_pos' < write_pos
      /\ checksum_watermark' = write_pos'
      /\ produced' = produced
      /\ checksum' = FlushedChecksum
      /\ total_output' = FlushedTotal
      /\ wrapper' = wrapper
      /\ checksum_policy' = checksum_policy
  BY <1>1 DEF Slide, formatVars
<1>3. lookback_valid' = lookback_valid
  BY <1>1, <1>2 DEF Slide, AtMost, WindowInv, BufferTypeOK
<1>4. /\ buffer' \in [1 .. Len(buffer) -> Byte]
      /\ \A p \in 1 .. write_pos' :
            /\ p + KeepStart \in 1 .. write_pos
            /\ buffer'[p] = buffer[p + KeepStart]
  <2>1. buffer' = [p \in 1 .. Len(buffer) |->
                     IF p <= write_pos - KeepStart THEN buffer[p + KeepStart]
                     ELSE buffer[p]]
    BY DEF Slide
  <2>2. \A p \in 1 .. Len(buffer) :
           (IF p <= write_pos - KeepStart THEN buffer[p + KeepStart]
            ELSE buffer[p]) \in Byte
    BY <1>1 DEF WindowInv, BufferTypeOK
  <2>3. ASSUME NEW p \in 1 .. write_pos'
        PROVE  /\ p + KeepStart \in 1 .. write_pos
               /\ p \in 1 .. Len(buffer)
               /\ p <= write_pos - KeepStart
    BY <1>1, <1>2
  <2>4. QED BY <2>1, <2>2, <2>3
<1>5. buffer' \in Seq(Byte) /\ Len(buffer') = Len(buffer)
  BY <1>1, <1>4, FunctionIsSequence, Zenon
<1>6. WindowHoldsTail'
  <2>1. ASSUME NEW p \in 1 .. write_pos'
        PROVE  buffer'[p] = produced'[Len(produced') - write_pos' + p]
    <3>1. buffer'[p] = buffer[p + KeepStart] /\ p + KeepStart \in 1 .. write_pos
      BY <1>4
    <3>2. buffer[p + KeepStart]
            = produced[Len(produced) - write_pos + (p + KeepStart)]
      BY <3>1 DEF WindowInv, WindowHoldsTail
    <3>3. Len(produced) - write_pos + (p + KeepStart)
            = Len(produced) - write_pos' + p
      BY <1>1, <1>2
    <3>4. QED BY <1>2, <3>1, <3>2, <3>3
  <2>2. QED BY <1>1, <1>2, <2>1 DEF WindowHoldsTail
<1>7. LookbackExact'
  BY <1>1, <1>2, <1>3 DEF WindowInv, BufferTypeOK, LookbackExact
<1>8. checksum' \in Seq(Byte) /\ total_output' \in Nat
  BY <1>2, FlushCoversAll
     DEF FlushedChecksum, FlushedTotal, FlushNeeded, WindowInv, BufferTypeOK
<1>9. BufferTypeOK'
  BY <1>1, <1>2, <1>3, <1>5, <1>8 DEF WindowInv, BufferTypeOK
<1>10. ChecksumCoversOnce'
  <2> SUFFICES ASSUME wrapper # "raw"
               PROVE  ChecksumCoversOnce'
    BY <1>2 DEF ChecksumCoversOnce
  <2>1. /\ total_output' = Len(produced')
        /\ write_pos' - checksum_watermark' = 0
    BY <1>2, FlushCoversAll
  <2>2. total_output' + (write_pos' - checksum_watermark') = Len(produced')
    BY <1>1, <1>2, <2>1
  <2>3. QED BY <1>2, <2>1, <2>2, FlushCoversAll DEF ChecksumCoversOnce
<1>11. GrowthKeepsAll'
  BY <1>1, <1>5 DEF GrowthKeepsAll
<1>12. QED BY <1>2, <1>5, <1>6, <1>7, <1>9, <1>10, <1>11 DEF WindowInv

-------------------------------------------------------------------------------

LEMMA InitEstablishesInvariant == BufferInit => WindowInv
<1> SUFFICES ASSUME BufferInit PROVE WindowInv
  OBVIOUS
<1> USE BufferAssumption DEF FullSize
<1>1. /\ buffer = [i \in 1 .. Capacity |-> Junk]
      /\ write_pos = 0
      /\ read_pos = 0
      /\ lookback_valid = 0
      /\ checksum = <<>>
      /\ total_output = 0
      /\ checksum_watermark = 0
      /\ produced = <<>>
      /\ wrapper \in WrapperFormat
      /\ checksum_policy \in ChecksumPolicy
  BY DEF BufferInit
<1>2. buffer \in [1 .. Capacity -> Byte]
  BY <1>1
<1>3. Capacity \in Nat
  OBVIOUS
<1>4. buffer \in Seq(Byte) /\ Len(buffer) = Capacity
  BY <1>2, <1>3, FunctionIsSequence, Zenon
<1>5. <<>> \in Seq(Byte) /\ Len(<<>>) = 0
  OBVIOUS
<1>6. BufferTypeOK
  BY <1>1, <1>4, <1>5 DEF BufferTypeOK
<1>7. QED
  BY <1>1, <1>5, <1>6 DEF WindowInv, WindowHoldsTail, LookbackExact,
                          ChecksumCoversOnce, GrowthKeepsAll, AtMost

(* What a step may do to the buffer, whatever bounds the model's output.   *)
PutsBytes ==
  \E n \in 1 .. OutputSpace : \E scratch \in 0 .. (OutputSpace - n) :
    \E f \in [0 .. (n - 1) -> Byte] : PutBytes(f, n, scratch)

CopiesMatch ==
  \E offset \in 1 .. lookback_valid : \E length \in 1 .. OutputSpace :
    \E scratch \in 0 .. (OutputSpace - length) :
      WriteMatch(offset, length, scratch)

BufferUse ==
  \/ PutsBytes
  \/ CopiesMatch
  \/ CompactWhenFull
  \/ AdvanceSome
  \/ FlushChecksum
  \/ ResetOutput

LEMMA UseKeepsInvariant == WindowInv /\ [BufferUse]_bufferVars => WindowInv'
<1> SUFFICES ASSUME WindowInv, [BufferUse]_bufferVars PROVE WindowInv'
  OBVIOUS
<1> USE BufferAssumption
<1>1. CASE PutsBytes
  <2> PICK n \in 1 .. OutputSpace : \E scratch \in 0 .. (OutputSpace - n) :
         \E f \in [0 .. (n - 1) -> Byte] : PutBytes(f, n, scratch)
    BY <1>1 DEF PutsBytes
  <2> PICK scratch \in 0 .. (OutputSpace - n) :
         \E f \in [0 .. (n - 1) -> Byte] : PutBytes(f, n, scratch)
    OBVIOUS
  <2>1. PICK f \in [0 .. (n - 1) -> Byte] : PutBytes(f, n, scratch)
    OBVIOUS
  <2>2. scratch \in Nat /\ n + scratch <= OutputSpace
    BY DEF WindowInv, BufferTypeOK, OutputSpace
  <2>3. WriteBytes(f, n, scratch, f)
    BY <2>1 DEF PutBytes
  <2>4. QED BY <2>2, <2>3, WriteKeepsInvariant
<1>2. CASE CopiesMatch
  <2> PICK offset \in 1 .. lookback_valid, length \in 1 .. OutputSpace :
         \E scratch \in 0 .. (OutputSpace - length) :
           WriteMatch(offset, length, scratch)
    BY <1>2 DEF CopiesMatch
  <2>1. PICK scratch \in 0 .. (OutputSpace - length) :
           WriteMatch(offset, length, scratch)
    OBVIOUS
  <2>2. /\ scratch \in Nat
        /\ length \in Nat
        /\ length + scratch <= OutputSpace
    BY DEF WindowInv, BufferTypeOK, OutputSpace
  <2> DEFINE f == MatchBytes(offset, length)
  <2>3. f \in [0 .. (length - 1) -> Byte] /\ f = PromisedBytes(offset, length)
    BY <2>2, MatchIsPromised
  <2>4. WriteBytes(f, length, scratch, f)
    BY <2>1, <2>3 DEF WriteMatch
  <2> HIDE DEF f
  <2>5. QED BY <2>2, <2>3, <2>4, WriteKeepsInvariant
<1>3. CASE CompactWhenFull
  <2>1. CASE Grow
    BY <2>1, GrowKeepsInvariant
  <2>2. CASE Slide
    BY <2>2, SlideKeepsInvariant
  <2>3. CASE NothingToCompact
    BY <2>3 DEF NothingToCompact, bufferVars, formatVars, WindowInv, BufferTypeOK,
                WindowHoldsTail, LookbackExact, ChecksumCoversOnce, GrowthKeepsAll
  <2>4. QED BY <1>3, <2>1, <2>2, <2>3 DEF CompactWhenFull, CompactOutput
<1>4. CASE AdvanceSome
  BY <1>4, AdvanceKeepsInvariant DEF AdvanceSome
<1>5. CASE FlushChecksum
  BY <1>5, FlushKeepsInvariant
<1>6. CASE ResetOutput
  BY <1>6, ResetKeepsInvariant
<1>7. CASE UNCHANGED bufferVars
  BY <1>7 DEF bufferVars, formatVars, WindowInv, BufferTypeOK, WindowHoldsTail,
              LookbackExact, ChecksumCoversOnce, GrowthKeepsAll
<1>8. QED BY <1>1, <1>2, <1>3, <1>4, <1>5, <1>6, <1>7 DEF BufferUse

LEMMA NextIsUse == BufferNext => BufferUse
<1> SUFFICES ASSUME BufferNext PROVE BufferUse
  OBVIOUS
<1>1. CASE PutSome
  BY <1>1 DEF PutSome, PutsBytes, BufferUse
<1>2. CASE CopySome
  BY <1>2 DEF CopySome, CopiesMatch, BufferUse
<1>3. QED BY <1>1, <1>2 DEF BufferNext, BufferUse

LEMMA NextKeepsInvariant == WindowInv /\ [BufferNext]_bufferVars => WindowInv'
<1> QED BY NextIsUse, UseKeepsInvariant

(* The inductive invariant holds in every reachable state. *)
THEOREM WindowInvHolds == BufferSpec => []WindowInv
<1>1. QED BY InitEstablishesInvariant, NextKeepsInvariant, PTL DEF BufferSpec

(* Positions stay ordered and inside the buffer, and the buffer inside     *)
(* lookback + capacity: no slice of the code panics on them.               *)
THEOREM TypeCorrect == BufferSpec => []BufferTypeOK
<1>1. WindowInv => BufferTypeOK
  BY DEF WindowInv
<1>2. QED BY <1>1, WindowInvHolds, PTL

(* The buffer below write_pos is always the tail of the stream's output:   *)
(* what peek() shows and what back-references copy is never damaged by     *)
(* growing, sliding, overlapping copies or scribbles.                      *)
THEOREM WindowCorrect == BufferSpec => []WindowHoldsTail
<1>1. WindowInv => WindowHoldsTail
  BY DEF WindowInv
<1>2. QED BY <1>1, WindowInvHolds, PTL

(* lookback_valid accepts exactly the distances DEFLATE allows: never a    *)
(* stale byte of an earlier stream, never too few, never below cell 0.     *)
THEOREM LookbackCorrect == BufferSpec => []LookbackExact
<1>1. WindowInv => LookbackExact
  BY DEF WindowInv
<1>2. QED BY <1>1, WindowInvHolds, PTL

(* The wrapper checksum covers each output byte exactly once, in order.    *)
THEOREM ChecksumCorrect == BufferSpec => []ChecksumCoversOnce
<1>1. WindowInv => ChecksumCoversOnce
  BY DEF WindowInv
<1>2. QED BY <1>1, WindowInvHolds, PTL

(* A full buffer of its full size, less than `capacity` of it unread, has  *)
(* more than LOOKBACK_SIZE bytes to slide over; a smaller one can grow.    *)
LEMMA CompactionGains == WindowInv => CompactionMakesRoom
<1> SUFFICES ASSUME WindowInv, OutputSpace = 0, PeekLen < Capacity
             PROVE  RoomGained > 0
  BY DEF CompactionMakesRoom
<1> USE BufferAssumption DEF FullSize
<1>1. /\ Len(buffer) \in 1 .. FullSize
      /\ write_pos = Len(buffer)
      /\ read_pos \in Nat
      /\ write_pos - read_pos < Capacity
  BY DEF WindowInv, BufferTypeOK, OutputSpace, PeekLen
<1>2. CASE Len(buffer) < FullSize
  BY <1>1, <1>2 DEF RoomGained, GrownSize, AtMost, AtLeast
<1>3. CASE Len(buffer) >= FullSize
  <2>1. read_pos > LOOKBACK_SIZE
    BY <1>1, <1>3
  <2>2. QED BY <1>1, <1>3, <2>1 DEF RoomGained, KeepStart, AtLeast
<1>4. QED BY <1>1, <1>2, <1>3

(* Compacting a full buffer from which fewer than `capacity` bytes wait    *)
(* always makes room, so fill() cannot return for lack of space.           *)
THEOREM CompactionWorks == BufferSpec => []CompactionMakesRoom
<1> QED BY CompactionGains, WindowInvHolds, PTL

-------------------------------------------------------------------------------

Taken == Len(produced) - PeekLen

(* peek() shows exactly the produced bytes the caller has not taken.       *)
LEMMA PeekIsPending == WindowInv => Peek = Queue!Pending(produced, Taken)
<1> SUFFICES ASSUME WindowInv PROVE Peek = Queue!Pending(produced, Taken)
  OBVIOUS
<1>1. /\ write_pos \in Nat
      /\ read_pos \in 0 .. write_pos
      /\ Len(produced) \in Nat
  BY DEF WindowInv, BufferTypeOK
<1>2. Len(produced) - Taken = PeekLen
  BY <1>1 DEF Taken, PeekLen
<1>3. ASSUME NEW i \in 1 .. PeekLen
      PROVE  buffer[read_pos + i] = produced[Taken + i]
  <2>1. read_pos + i \in 1 .. write_pos
    BY <1>1 DEF PeekLen
  <2>2. Len(produced) - write_pos + (read_pos + i) = Taken + i
    BY <1>1 DEF Taken, PeekLen
  <2>3. QED BY <2>1, <2>2 DEF WindowInv, WindowHoldsTail
<1>4. QED BY <1>2, <1>3 DEF Peek, Queue!Pending

(* A write appends to what was produced and takes nothing.                 *)
LEMMA WriteExtends ==
  ASSUME WindowInv, NEW n \in Nat, NEW scratch \in Nat, NEW f, NEW g,
         WriteBytes(f, n, scratch, g)
  PROVE  Queue!Extends(produced', produced) /\ Taken' = Taken
<1>1. /\ Len(produced) \in Nat
      /\ write_pos \in Nat
      /\ read_pos \in Nat
  BY DEF WindowInv, BufferTypeOK
<1>2. /\ produced' = [i \in 1 .. (Len(produced) + n) |->
            IF i <= Len(produced) THEN produced[i] ELSE g[i - Len(produced) - 1]]
      /\ write_pos' = write_pos + n
      /\ read_pos' = read_pos
  BY DEF WriteBytes, Extended
<1>3. Len(produced') = Len(produced) + n
  BY <1>1, <1>2
<1>4. \A i \in 1 .. Len(produced) : produced'[i] = produced[i]
  BY <1>1, <1>2
<1>5. QED BY <1>1, <1>2, <1>3, <1>4 DEF Queue!Extends, Taken, PeekLen

(* Every step of the window is a Write, Take or Clear of the queue.        *)
LEMMA StepsRefine ==
  ASSUME WindowInv, BufferNext
  PROVE  \/ Queue!Extends(produced', produced) /\ Taken' = Taken
         \/ Taken' \in Taken .. Len(produced) /\ produced' = produced
         \/ produced' = <<>> /\ Taken' = 0
<1>1. /\ Len(produced) \in Nat
      /\ write_pos \in Nat
      /\ read_pos \in 0 .. write_pos
      /\ write_pos <= Len(produced)
  BY DEF WindowInv, BufferTypeOK, WindowHoldsTail
<1> DEFINE TakesNothing == produced' = produced /\ Taken' = Taken
<1>2. ASSUME TakesNothing
      PROVE  Taken' \in Taken .. Len(produced) /\ produced' = produced
  BY <1>1, <1>2 DEF Taken, PeekLen
<1>3. CASE PutSome
  BY <1>3, <1>1, WriteExtends DEF PutSome, PutBytes, OutputSpace, WindowInv, BufferTypeOK
<1>4. CASE CopySome
  BY <1>4, <1>1, WriteExtends DEF CopySome, WriteMatch, OutputSpace, WindowInv, BufferTypeOK
<1>5. CASE CompactWhenFull
  <2>1. CASE Grow
    BY <1>2, <2>1 DEF Grow, Taken, PeekLen
  <2>2. CASE Slide
    <3>1. /\ produced' = produced
          /\ KeepStart \in Int
          /\ write_pos' = write_pos - KeepStart
          /\ read_pos' = read_pos - KeepStart
      BY <1>1, <2>2, BufferAssumption DEF Slide, KeepStart
    <3>2. QED BY <1>1, <1>2, <3>1 DEF Taken, PeekLen
  <2>3. CASE NothingToCompact
    BY <1>2, <2>3 DEF NothingToCompact, bufferVars, Taken, PeekLen
  <2>4. QED BY <1>5, <2>1, <2>2, <2>3 DEF CompactWhenFull, CompactOutput
<1>6. CASE AdvanceSome
  <2>1. PICK n \in 1 .. PeekLen : Advance(n)
    BY <1>6 DEF AdvanceSome
  <2>2. /\ produced' = produced
        /\ write_pos' = write_pos
        /\ read_pos' = read_pos + n
    BY <2>1 DEF Advance
  <2>3. QED BY <1>1, <2>2 DEF Taken, PeekLen
<1>7. CASE FlushChecksum
  BY <1>2, <1>7 DEF FlushChecksum, Taken, PeekLen
<1>8. CASE ResetOutput
  BY <1>8 DEF ResetOutput, Taken, PeekLen
<1>9. QED BY <1>3, <1>4, <1>5, <1>6, <1>7, <1>8 DEF BufferNext

(* The window implements the lossless FIFO: every produced byte reaches    *)
(* the caller through peek/advance once, in order, unchanged.              *)
THEOREM WindowImplementsQueue == BufferSpec => ImplementsQueue
<1>1. BufferInit => Queue!Init
  <2> SUFFICES ASSUME BufferInit PROVE Queue!Init
    OBVIOUS
  <2>1. produced = <<>> /\ read_pos = 0 /\ write_pos = 0
    BY DEF BufferInit
  <2>2. Len(produced) - PeekLen = 0 /\ PeekLen = 0
    BY <2>1 DEF PeekLen
  <2>3. Peek = <<>>
    BY <2>2 DEF Peek
  <2>4. QED BY <2>1, <2>2, <2>3 DEF Queue!Init
<1>2. WindowInv /\ WindowInv' /\ [BufferNext]_bufferVars => [Queue!Next]_(Queue!queueVars)
  <2> SUFFICES ASSUME WindowInv, WindowInv', [BufferNext]_bufferVars
               PROVE  [Queue!Next]_(Queue!queueVars)
    OBVIOUS
  <2>1. CASE UNCHANGED bufferVars
    BY <2>1 DEF bufferVars, Queue!queueVars, Peek, PeekLen
  <2>2. CASE BufferNext
    <3>1. Peek' = Queue!Pending(produced', Taken')
      <4>1. (WindowInv => Peek = Queue!Pending(produced, Taken))'
        BY PeekIsPending, PTL
      <4>2. QED BY <4>1
    <3>2. QED BY <2>2, <3>1, StepsRefine
              DEF Queue!Next, Queue!Write, Queue!Take, Queue!Clear, Taken
  <2>3. QED BY <2>1, <2>2
<1>3. QED BY <1>1, <1>2, WindowInvHolds, PTL DEF BufferSpec, Queue!Spec, ImplementsQueue

===============================================================================

------------------------------ MODULE Checksums ------------------------------
(* The hashers of checksum/: a running checksum with the number of bytes it   *)
(* covers, fed in pieces, and the checksum of other data combined into it, on *)
(* every machine the implementations are chosen for.                          *)
EXTENDS ChecksumKernels

CONSTANTS ByteOf(_),       \* byte i of the data that are hashed
          FirstPieces,     \* lengths of what is hashed first
          NextPieces,      \* lengths of what is hashed after it
          MaxPieces        \* how many pieces are hashed

ASSUME PiecesAssumption ==
  FirstPieces \subseteq Nat /\ NextPieces \subseteq Nat /\ MaxPieces \in Nat

VARIABLES machine,   \* the checksum, and the implementation the machine dispatches to
          hasher,    \* the hasher: its checksum and its amount
          fed        \* the pieces it stands for, in order: the bytes at .. at + len - 1

hashVars == <<machine, hasher, fed>>

Machines == ({"adler32"} \X {"v4x", "v4", "v3", "neon", "wasm128", "scalar"}) \cup
            ({"crc32"} \X {"v4x", "x64_crypto", "neon_aes", "scalar"})

Bytes(piece) == [i \in 1 .. piece.len |-> ByteOf(piece.at + i - 1)]

(* Adler32Hasher and Crc32Hasher *)
New == [checksum |-> IF machine[1] = "adler32" THEN [s1 |-> 1, s2 |-> 0] ELSE {}, amount |-> 0]

Update(h, data) ==
  [checksum |-> IF machine[1] = "adler32" THEN adler32(machine[2], h.checksum, data)
                                          ELSE crc32(machine[2], h.checksum, data),
   amount |-> h.amount + Len(data)]

Combined(h, other) ==
  [checksum |-> IF machine[1] = "adler32"
                THEN adler32_combine(h.checksum, other.checksum, other.amount)
                ELSE crc32_combine(h.checksum, other.checksum, other.amount),
   amount |-> h.amount + other.amount]

-----------------------------------------------------------------------------

(* The pieces that may come next: the data go on where they stopped *)
Coming ==
  {[at |-> IF fed = <<>> THEN 0 ELSE fed[Len(fed)].at + fed[Len(fed)].len, len |-> n] :
     n \in IF fed = <<>> THEN FirstPieces ELSE NextPieces}

Fed(piece) == Len(fed) < MaxPieces /\ fed' = Append(fed, piece) /\ UNCHANGED machine

Write(piece) == Fed(piece) /\ hasher' = Update(hasher, Bytes(piece))

(* Another hasher, which has seen the piece, is combined into this one *)
Combine(piece) == Fed(piece) /\ hasher' = Combined(hasher, Update(New, Bytes(piece)))

Reset == fed # <<>> /\ hasher' = New /\ fed' = <<>> /\ UNCHANGED machine

HashInit == /\ machine \in Machines
            /\ hasher = New
            /\ fed = <<>>

(* No hasher: for a model in which something else runs *)
HashOff == machine = <<"none", "none">> /\ hasher = New /\ fed = <<>>

HashNext == machine \in Machines /\ ((\E piece \in Coming : Write(piece) \/ Combine(piece)) \/ Reset)

-----------------------------------------------------------------------------
(* What the checksums are *)

AdlerOf(data) ==
  [s1 |-> (1 + SumOf(data)) % DIVISOR,
   s2 |-> (Len(data) + SumOf([i \in 1 .. Len(data) |-> (Len(data) - i + 1) * data[i]])) % DIVISOR]

CrcOf(bits, count) ==
  LET crc[c \in SUBSET (0 .. 31), from \in 0 .. count, to \in 0 .. count] ==
        CASE from = to -> c
          [] from + 1 = to -> Step(IF from \in bits THEN Xor(c, {0}) ELSE c)
          [] OTHER -> LET mid == (from + to) \div 2 IN crc[crc[c, from, mid], mid, to]
  IN  Not(crc[0 .. 31, 0, count])

AllFed == [at |-> 0, len |-> SumOf([p \in 1 .. Len(fed) |-> fed[p].len])]

(* Whatever pieces the data come in, on whatever machine, and whether they    *)
(* are hashed in turn or apart and combined, the hasher holds the checksum of *)
(* all the data: the division of the bits for CRC-32, the two sums for        *)
(* Adler-32 (checksum/adler32.rs, checksum/crc32.rs).                         *)
SumsAgree ==
  LET data == Bytes(AllFed)
  IN  /\ hasher.amount = AllFed.len
      /\ hasher.checksum = IF machine[1] = "adler32" THEN AdlerOf(data)
                                                     ELSE CrcOf(BitsOf(data), 8 * Len(data))
==============================================================================

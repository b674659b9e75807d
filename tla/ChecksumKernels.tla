--------------------------- MODULE ChecksumKernels ---------------------------
(* The Adler-32 of checksum/adler32.rs: six implementations, one per machine, *)
(* that read the data in chunks, a chunk in blocks of many lanes, and put the *)
(* two running sums together from sums over the lanes; and the combination of *)
(* the checksums of two halves.  A checksum is the pair of its 16-bit halves. *)
EXTENDS Integers, Sequences, FiniteSets

CONSTANT MAX_CHUNK_LEN       \* bytes that can be summed without reducing

ASSUME UnreducedAssumption == MAX_CHUNK_LEN \in Nat /\ MAX_CHUNK_LEN >= 256

DIVISOR == 65521
I16_MAX == 32767
U8_MAX  == 255

Smaller(a, b) == IF a < b THEN a ELSE b

(* n & !(step - 1), for a step that is a power of two *)
RoundDown(n, step) == n - (n % step)

(* f[lo] + ... + f[hi], nested only as deep as its logarithm. *)
SumIn(f, lo, hi) ==
  LET sum[a \in lo .. hi + 1, b \in lo - 1 .. hi] ==
        LET mid == (a + b) \div 2
        IN  CASE a > b -> 0
              [] a = b -> f[a]
              [] a < b -> sum[a, mid] + sum[mid + 1, b]
  IN  sum[lo, hi]

SumOf(s) == SumIn(s, 1, Len(s))

(* What a loop over the blocks of `step' bytes at the front of p gathers: how *)
(* many bytes it takes, their sum, the sum before each block, added up, and   *)
(* for each position of a block the sum of the bytes there.                   *)
Accumulated(p, step) ==
  LET blocks == Len(p) \div step
  IN  [len |-> blocks * step,
       s1 |-> SumIn(p, 1, blocks * step),
       s1_sums |-> SumIn([k \in 1 .. blocks |-> SumIn(p, 1, (k - 1) * step)], 1, blocks),
       at |-> [i \in 0 .. step - 1 |->
                 SumIn([k \in 1 .. blocks |-> p[(k - 1) * step + i + 1]], 1, blocks)]]

-----------------------------------------------------------------------------

(* The scalar chunk: four bytes at a time, the rest singly, then the division *)
Reduced(s) == [s1 |-> s.s1 % DIVISOR, s2 |-> s.s2 % DIVISOR]

ByteTail(s, p) ==
  [s1 |-> s.s1 + SumOf(p),
   s2 |-> s.s2 + SumIn([k \in 1 .. Len(p) |-> s.s1 + SumIn(p, 1, k)], 1, Len(p))]

FourWay(s, p, acc) ==
  [s1 |-> s.s1 + acc.s1,
   s2 |-> s.s2 + 4 * ((acc.len \div 4) * s.s1 + acc.s1_sums + acc.at[0])
               + 3 * acc.at[1] + 2 * acc.at[2] + acc.at[3]]

ChunkScalar(s, p) ==
  Reduced(ByteTail(FourWay(s, p, Accumulated(p, 4)),
                   SubSeq(p, RoundDown(Len(p), 4) + 1, Len(p))))

-----------------------------------------------------------------------------

(* Eight weights, counting down *)
Down(w) == [k \in 1 .. 8 |-> w - (k - 1)]

Downs(ws) == Down(ws[1]) \o Down(ws[2]) \o Down(ws[3]) \o Down(ws[4])

(* The multiplier tables, MULTS_A first, in the order of the lanes the bytes  *)
(* are widened into; v4x has a single one                                     *)
MULTS_V4 == <<Downs(<<128, 112, 96, 80>>), Downs(<<120, 104, 88, 72>>),
              Downs(<<64, 48, 32, 16>>), Downs(<<56, 40, 24, 8>>)>>

MULTS_V3 == <<Down(64) \o Down(48), Down(56) \o Down(40),
              Down(32) \o Down(16), Down(24) \o Down(8)>>

MULTS_NEON == <<Down(64), Down(56), Down(48), Down(40),
                Down(32), Down(24), Down(16), Down(8)>>

MULTS_WASM128 == <<Down(32), Down(24), Down(16), Down(8)>>

MULTS_V4X == Downs(<<64, 56, 48, 40>>) \o Downs(<<32, 24, 16, 8>>)

(* The bytes of a block *)
BlockLen(tier) ==
  CASE tier = "v4x" -> 256 [] tier = "v4" -> 128 [] tier \in {"v3", "neon"} -> 64 [] tier = "wasm128" -> 32

(* As if the unpacking went over the whole vector, not sixteen bytes by sixteen *)
LaneByte_WholeVector(vl, t, l) == (t - 1) * (vl \div 2) + l

(* The byte of a block that lane l (from 0) of table t holds: unpacklo takes  *)
(* the lower eight bytes of every sixteen of a vector, unpackhi the upper;    *)
(* on sixteen-byte vectors they are the vector's lower and upper half         *)
LaneByte(vl, t, l) ==
  vl * ((t - 1) \div 2) + 16 * (l \div 8) + (IF t % 2 = 0 THEN 8 ELSE 0) + (l % 8)

(* mults . byte_sums *)
Weighted(tables, vl, at) ==
  SumOf([t \in 1 .. Len(tables) |->
          SumOf([l \in 1 .. Len(tables[t]) |-> tables[t][l] * at[LaneByte(vl, t, l - 1)]])])

(* Position sums are 16 bits wide: so many bytes at most between reductions   *)
(* (neon, whose sums are unsigned, and v4x, which has none, take the chunk)   *)
MAX_SIMD_CHUNK(tier) ==
  RoundDown(IF tier \in {"v4x", "neon"}
            THEN MAX_CHUNK_LEN
            ELSE Smaller(BlockLen(tier) * (I16_MAX \div U8_MAX), MAX_CHUNK_LEN),
            BlockLen(tier))

(* The scalar code takes what the blocks leave of a chunk *)
Rest(s, p, block) == ChunkScalar(s, SubSeq(p, RoundDown(Len(p), block) + 1, Len(p)))

(* The blocks of a chunk, by the sums of the bytes at each position *)
ByPosition(s, acc, tables, vl) ==
  [s1 |-> s.s1 + acc.s1,
   s2 |-> s.s2 + s.s1 * acc.len + ((vl * Len(tables)) \div 2) * acc.s1_sums
               + Weighted(tables, vl, acc.at)]

adler32_impl_v4(s, p) ==
  Rest(IF Len(p) >= 128 THEN ByPosition(s, Accumulated(p, 128), MULTS_V4, 64) ELSE s, p, 128)

adler32_impl_v3(s, p) ==
  Rest(IF Len(p) >= 64 THEN ByPosition(s, Accumulated(p, 64), MULTS_V3, 32) ELSE s, p, 64)

adler32_impl_neon(s, p) ==
  Rest(IF Len(p) >= 64 THEN ByPosition(s, Accumulated(p, 64), MULTS_NEON, 16) ELSE s, p, 64)

adler32_impl_wasm128(s, p) ==
  Rest(IF Len(p) >= 32 THEN ByPosition(s, Accumulated(p, 32), MULTS_WASM128, 16) ELSE s, p, 32)

(* v4x has four accumulators, one for each vector of a block.  Within a       *)
(* vector the weights count down from 64; the vectors before the last are     *)
(* short of 3, 2 and 1 times 64 for each of their bytes.                      *)
OfVector(at, v, weights) == SumOf([i \in 1 .. 64 |-> weights[i] * at[64 * (v - 1) + i - 1]])

ByVector(s, acc, bytes, dots) ==
  [s1 |-> s.s1 + SumOf(bytes),
   s2 |-> s.s2 + s.s1 * acc.len + 256 * acc.s1_sums + SumOf(dots)
               + 128 * (bytes[1] + bytes[2]) + 64 * (bytes[1] + bytes[3])]

FourVectors(s, acc) ==
  ByVector(s, acc, [v \in 1 .. 4 |-> OfVector(acc.at, v, [i \in 1 .. 64 |-> 1])],
                   [v \in 1 .. 4 |-> OfVector(acc.at, v, MULTS_V4X)])

adler32_impl_v4x(s, p) ==
  Rest(IF Len(p) >= 256 THEN FourVectors(s, Accumulated(p, 256)) ELSE s, p, 256)

(* adler32, with the implementation its dispatch finds on the machine: the   *)
(* data in chunks of at most `max' bytes                                      *)
MaxChunk(tier) == IF tier = "scalar" THEN RoundDown(MAX_CHUNK_LEN, 4) ELSE MAX_SIMD_CHUNK(tier)

Chunk(tier, s, p) ==
  CASE tier = "v4x"     -> adler32_impl_v4x(s, p)
    [] tier = "v4"      -> adler32_impl_v4(s, p)
    [] tier = "v3"      -> adler32_impl_v3(s, p)
    [] tier = "neon"    -> adler32_impl_neon(s, p)
    [] tier = "wasm128" -> adler32_impl_wasm128(s, p)
    [] tier = "scalar"  -> ChunkScalar(s, p)

adler32(tier, s, data) ==
  LET max == MaxChunk(tier)
      after[sum \in [s1 : 0 .. DIVISOR - 1, s2 : 0 .. DIVISOR - 1], at \in 0 .. Len(data)] ==
        IF at = Len(data)
        THEN sum
        ELSE LET n == Smaller(Len(data) - at, max)
             IN  after[Chunk(tier, sum, SubSeq(data, at + 1, at + n)), at + n]
  IN  after[s, 0]

adler32_combine(a1, a2, len2) ==
  LET rem == len2 % DIVISOR
  IN  [s1 |-> (a1.s1 + a2.s1 + DIVISOR - 1) % DIVISOR,
       s2 |-> (a1.s2 + a2.s2 + rem * a1.s1 + DIVISOR * 2 - rem) % DIVISOR]

-----------------------------------------------------------------------------

(* The CRC-32 of checksum/crc32.rs.  A word is the set of its bits: 0 .. 31    *)
(* for a u32, 0 .. 127 for a lane of a vector, and a vector of n lanes, or n   *)
(* vectors of one lane, are 128 * n bits in order.  The data are bits too.     *)

Xor(A, B) == (A \ B) \cup (B \ A)

Odd(S) == Cardinality(S) % 2 = 1

(* The n bits of A from bit `from' on *)
Window(A, from, n) == {b \in 0 .. n - 1 : from + b \in A}

Shl(A, by) == {b + by : b \in A}

Shr(A, n) == {b - n : b \in {a \in A : a >= n}}

BitsOfNumber(n, bits) == {b \in 0 .. bits - 1 : (n \div 2 ^ b) % 2 = 1}

Word(hi, lo) == Shl(BitsOfNumber(hi, 16), 16) \cup BitsOfNumber(lo, 16)

BitsOf(bytes) == UNION {Shl(BitsOfNumber(bytes[i], 8), 8 * (i - 1)) : i \in 1 .. Len(bytes)}

CRC32_POLY == Word(\hEDB8, \h8320)

(* One bit of the division by the polynomial: what a zero bit does *)
Step(crc) == IF 0 \in crc THEN Xor(Shr(crc, 1), CRC32_POLY) ELSE Shr(crc, 1)

-----------------------------------------------------------------------------
(* Slice by eight *)

Steps8(crc) == Step(Step(Step(Step(Step(Step(Step(Step(crc))))))))

ByteAt(A, byte) == SumIn([b \in 0 .. 7 |-> IF 8 * byte + b \in A THEN 2 ^ b ELSE 0], 0, 7)

Slice1Table == [i \in 0 .. 255 |-> Steps8(BitsOfNumber(i, 8))]

(* The next of the eight tables *)
NextTable(prev) == [i \in 0 .. 255 |-> Xor(Shr(prev[i], 8), Slice1Table[ByteAt(prev[i], 0)])]

Table1 == NextTable(Slice1Table)
Table2 == NextTable(Table1)
Table3 == NextTable(Table2)
Table4 == NextTable(Table3)
Table5 == NextTable(Table4)
Table6 == NextTable(Table5)
Table7 == NextTable(Table6)

(* A single byte, and eight of them *)
ByteIn(crc, b) == Xor(Shr(crc, 8), Slice1Table[ByteAt(Xor(crc, b), 0)])

EightIn(x, v2) ==
  Xor(Xor(Xor(Table7[ByteAt(x, 0)], Table6[ByteAt(x, 1)]),
          Xor(Table5[ByteAt(x, 2)], Table4[ByteAt(x, 3)])),
      Xor(Xor(Table3[ByteAt(v2, 0)], Table2[ByteAt(v2, 1)]),
          Xor(Table1[ByteAt(v2, 2)], Slice1Table[ByteAt(v2, 3)])))

crc32_slice8(crc, data, len) ==
  LET lead == len % 8
      bytes[c \in SUBSET (0 .. 31), at \in 0 .. lead] ==
        IF at = lead THEN c ELSE bytes[ByteIn(c, Window(data, 8 * at, 8)), at + 1]
      eights[c \in SUBSET (0 .. 31), from \in 0 .. len \div 8, to \in 0 .. len \div 8] ==
        CASE from = to -> c
          [] from + 1 = to -> EightIn(Xor(c, Window(data, 8 * lead + 64 * from, 32)),
                                      Window(data, 8 * lead + 64 * from + 32, 32))
          [] OTHER -> LET mid == (from + to) \div 2
                      IN  eights[eights[c, from, mid], mid, to]
  IN  eights[bytes[crc, 0], 0, len \div 8]

-----------------------------------------------------------------------------
(* Folding with carry-less products *)

(* _mm_clmulepi64_si128, vmull_p64: the product of two 64-bit polynomials *)
Clmul(A, B) == {k \in 0 .. 126 : Odd({j \in B : k - j \in A})}

(* The multipliers by how many lanes they carry a lane over: mults_8v .. 1v   *)
(* of 512-bit vectors are those of 32, 16, 8 and 4 lanes, of 128-bit vectors  *)
(* those of 8, 4, 2 and 1; mults_256b and mults_128b those of 2 and 1         *)
Mults == [n \in {1, 2, 4, 8, 16, 32} |->
            CASE n = 32 -> [lo |-> Word(\h1072, \hdb28), hi |-> Word(\h0c30, \hf51d)]
              [] n = 16 -> [lo |-> Word(\hce33, \h71cb), hi |-> Word(\he95c, \h1271)]
              [] n = 8  -> [lo |-> Word(\h33ff, \hf533), hi |-> Word(\h910e, \heec1)]
              [] n = 4  -> [lo |-> Word(\h8f35, \h2d95), hi |-> Word(\h1d95, \h13d7)]
              [] n = 2  -> [lo |-> Word(\hf1da, \h05aa), hi |-> Word(\h8125, \h6527)]
              [] n = 1  -> [lo |-> Word(\hae68, \h9191), hi |-> Word(\hccaa, \h009e)]]

CRC32_BARRETT_1 == Shl(Word(\hb4e5, \hb025), 32) \cup Word(\hf701, \h1641)
CRC32_BARRETT_2 == Shl(Word(0, 1), 32) \cup Word(\hdb71, \h0641)

fold128(src, dst, mults) ==
  Xor(dst, Xor(Clmul(Window(src, 0, 64), mults.lo), Clmul(Window(src, 64, 64), mults.hi)))

(* fold512, fold256, or as many fold128: every lane of src onto that of dst *)
Fold(src, dst, lanes, mults) ==
  UNION {Shl(fold128(Window(src, 128 * l, 128), Window(dst, 128 * l, 128), mults), 128 * l) :
           l \in 0 .. lanes - 1}

(* The lower half of the lanes onto the upper one *)
Halve(x, h) == Fold(Window(x, 0, 128 * h), Window(x, 128 * h, 128 * h), h, Mults[h])

barrett_reduce(x) ==
  LET x0 == Xor(Clmul(Window(x, 0, 64), Mults[1].hi), Window(x, 64, 64))
      x1 == Clmul(Window(x0, 0, 64), CRC32_BARRETT_1)
      x2 == Clmul(Window(x1, 0, 64), CRC32_BARRETT_2)
  IN  Window(Xor(x0, x2), 64, 32)

(* The accumulators run over the data as long as it fills them, then halve,   *)
(* each time taking one more load if there is one, down to one lane; the      *)
(* bytes left over are for the scalar code                                    *)
Folded(crc, data, len, lanes) ==
  LET Load(at, n) == Window(data, 8 * at, 128 * n)
      narrow[x \in SUBSET (0 .. 128 * lanes - 1), n \in 1 .. lanes, at \in 0 .. len] ==
        LET h == n \div 2
        IN  CASE n = 1 -> crc32_slice8(barrett_reduce(x), Shr(data, 8 * at), len - at)
              [] n > 1 /\ len - at >= 16 * h ->
                   narrow[Fold(Halve(x, h), Load(at, h), h, Mults[h]), h, at + 16 * h]
              [] n > 1 /\ len - at < 16 * h -> narrow[Halve(x, h), h, at]
      main[x \in SUBSET (0 .. 128 * lanes - 1), at \in 0 .. len] ==
        IF len - at >= 16 * lanes
        THEN main[Fold(x, Load(at, lanes), lanes, Mults[lanes]), at + 16 * lanes]
        ELSE narrow[x, lanes, at]
  IN  main[Xor(Load(0, lanes), crc), 16 * lanes]

crc32_impl_v4x(crc, data, len) ==
  IF len < 64 THEN crc32_slice8(crc, data, len)
              ELSE Folded(crc, data, len, IF len - 64 >= 448 THEN 32 ELSE 4)

crc32_impl_x64_crypto(crc, data, len) ==
  IF len < 16 THEN crc32_slice8(crc, data, len)
              ELSE Folded(crc, data, len, IF len >= 128 THEN 8 ELSE 1)

crc32_impl_neon_aes(crc, data, len) ==
  IF len < 16 THEN crc32_slice8(crc, data, len)
              ELSE Folded(crc, data, len, IF len - 16 >= 48 THEN 4 ELSE 1)

Dispatch(tier, crc, data, len) ==
  CASE tier = "v4x"        -> crc32_impl_v4x(crc, data, len)
    [] tier = "x64_crypto" -> crc32_impl_x64_crypto(crc, data, len)
    [] tier = "neon_aes"   -> crc32_impl_neon_aes(crc, data, len)
    [] tier = "scalar"     -> crc32_slice8(crc, data, len)

Not(crc) == (0 .. 31) \ crc

crc32(tier, crc, bytes) ==
  IF bytes = <<>> THEN crc ELSE Not(Dispatch(tier, Not(crc), BitsOf(bytes), Len(bytes)))

-----------------------------------------------------------------------------
(* Combination: matrices over GF(2), row r in the bits from 32 * r on *)

gf2_matrix_times(mat, vec) == {c \in 0 .. 31 : Odd({i \in vec : 32 * i + c \in mat})}

gf2_matrix_square(mat) ==
  UNION {Shl(gf2_matrix_times(mat, Window(mat, 32 * n, 32)), 32 * n) : n \in 0 .. 31}

OneZeroBit == CRC32_POLY \cup {32 * r + (r - 1) : r \in 1 .. 31}

crc32_combine(crc1, crc2, len2) ==
  LET by[mat \in SUBSET (0 .. 1023), n \in 0 .. len2, result \in SUBSET (0 .. 31)] ==
        IF n = 0
        THEN result
        ELSE by[gf2_matrix_square(mat), n \div 2,
                IF n % 2 = 1 THEN gf2_matrix_times(mat, result) ELSE result]
  IN  IF len2 = 0
      THEN crc1
      ELSE Xor(by[gf2_matrix_square(gf2_matrix_square(gf2_matrix_square(OneZeroBit))),
                  len2, crc1],
               crc2)
==============================================================================

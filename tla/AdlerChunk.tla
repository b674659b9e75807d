------------------------------ MODULE AdlerChunk ------------------------------
(* adler32_chunk_scalar of checksum/adler32.rs, its registers with the width  *)
(* they have: four bytes at a time into five sums, then the last bytes one by *)
(* one, and no division before the chunk ends.  adler32_scalar calls it for   *)
(* all of the data, chunk after chunk.  The sums the definition asks for,     *)
(* taken byte by byte and as numbers of any size, run beside the registers.   *)
EXTENDS Integers, TLAPS

CONSTANTS Modulus,     \* DIVISOR (65521)
          Width,       \* a register holds 0 .. Width - 1 (2^32)
          TopByte,     \* bytes are 0 .. TopByte (255)
          ChunkLen     \* MAX_CHUNK_LEN (5552)

(* Twice the largest second sum after n bytes *)
TwiceWorst(n) == 2 * (Modulus - 1) * (n + 1) + TopByte * n * (n + 1)

ASSUME ChunkLenAssumption ==
  /\ Modulus \in Nat /\ Modulus >= 1
  /\ Width \in Nat
  /\ TopByte \in Nat
  /\ ChunkLen \in Nat
  /\ \A n \in 0 .. ChunkLen : TwiceWorst(n) < 2 * Width

VARIABLES
  part,                          \* "fours" or "singles"
  left,                          \* bytes of the chunk still to come
  r1, r2,                        \* s1 and s2
  r1_sum,                        \* s1 before each four bytes, added up
  lane0, lane1, lane2, lane3,    \* the sums of every fourth byte
  taken, exact1, exact2          \* ghosts: the bytes taken, and the definition's sums

chunkVars == <<part, left, r1, r2, r1_sum, lane0, lane1, lane2, lane3, taken, exact1, exact2>>

Byte == 0 .. TopByte

(* What is left of a sum in a register *)
Wrap(sum) == sum % Width

(* Mutant: a chunk is rounded up to whole fours *)
ChunkLens_RoundedUp == 0 .. ChunkLen + 4

(* The lengths of the chunks data are cut into *)
ChunkLens == 0 .. ChunkLen

ChunkInit ==
  /\ part = "fours"
  /\ left \in ChunkLens
  /\ r1 \in 0 .. Modulus - 1 /\ r2 \in 0 .. Modulus - 1 /\ exact1 = r1 /\ exact2 = r2
  /\ r1_sum = 0 /\ lane0 = 0 /\ lane1 = 0 /\ lane2 = 0 /\ lane3 = 0 /\ taken = 0

(* A behaviour of something else *)
ChunkOff ==
  /\ part = "off" /\ left = 0 /\ r1 = 0 /\ r2 = 0 /\ r1_sum = 0
  /\ lane0 = 0 /\ lane1 = 0 /\ lane2 = 0 /\ lane3 = 0
  /\ taken = 0 /\ exact1 = 0 /\ exact2 = 0

FourBytes(b0, b1, b2, b3) ==
  /\ part = "fours" /\ left >= 4
  /\ r1_sum' = Wrap(r1_sum + r1)
  /\ r1' = Wrap(r1 + (b0 + b1 + b2 + b3))
  /\ lane0' = Wrap(lane0 + b0) /\ lane1' = Wrap(lane1 + b1)
  /\ lane2' = Wrap(lane2 + b2) /\ lane3' = Wrap(lane3 + b3)
  /\ left' = left - 4 /\ taken' = taken + 4
  /\ exact1' = exact1 + b0 + b1 + b2 + b3
  /\ exact2' = exact2 + (exact1 + b0) + (exact1 + b0 + b1) + (exact1 + b0 + b1 + b2)
                      + (exact1 + b0 + b1 + b2 + b3)
  /\ UNCHANGED <<part, r2>>

EndFours ==
  /\ part = "fours" /\ left < 4
  /\ r2' = Wrap(r2 + (4 * (r1_sum + lane0) + 3 * lane1 + 2 * lane2 + lane3))
  /\ part' = "singles"
  /\ r1_sum' = 0 /\ lane0' = 0 /\ lane1' = 0 /\ lane2' = 0 /\ lane3' = 0
  /\ UNCHANGED <<left, r1, taken, exact1, exact2>>

OneByte(b) ==
  /\ part = "singles" /\ left >= 1
  /\ r1' = Wrap(r1 + b)
  /\ r2' = Wrap(r2 + r1')
  /\ left' = left - 1 /\ taken' = taken + 1
  /\ exact1' = exact1 + b
  /\ exact2' = exact2 + (exact1 + b)
  /\ UNCHANGED <<part, r1_sum, lane0, lane1, lane2, lane3>>

(* The only division; the next chunk goes on from the remainders *)
EndChunk ==
  /\ part = "singles" /\ left = 0
  /\ r1' = r1 % Modulus /\ exact1' = exact1 % Modulus
  /\ r2' = r2 % Modulus /\ exact2' = exact2 % Modulus
  /\ part' = "fours" /\ left' \in ChunkLens /\ taken' = 0
  /\ UNCHANGED <<r1_sum, lane0, lane1, lane2, lane3>>

ChunkNext ==
  \/ \E b0, b1, b2, b3 \in Byte : FourBytes(b0, b1, b2, b3)
  \/ EndFours
  \/ \E b \in Byte : OneByte(b)
  \/ EndChunk

ChunkSpec == ChunkInit /\ [][ChunkNext]_chunkVars

-------------------------------------------------------------------------------

(* The registers never wrap: they are the definition's sums, the second one   *)
(* spread over the lanes while four bytes are taken at a time, however large  *)
(* the bytes and the sums the chunk starts from (adler32.rs 14-16, 835-864).  *)
ChunkIsRight ==
  /\ r1 = exact1
  /\ r2 + (4 * (r1_sum + lane0) + 3 * lane1 + 2 * lane2 + lane3) = exact2

(* ChunkIsRight with what keeps it: the exact sums are at most those of a     *)
(* chunk of the largest bytes that starts from the largest remainders.        *)
ChunkInv ==
  /\ part \in {"fours", "singles"}
  /\ left \in Nat /\ taken \in Nat /\ taken + left <= ChunkLen
  /\ r1 \in Nat /\ r2 \in Nat /\ r1_sum \in Nat
  /\ lane0 \in Nat /\ lane1 \in Nat /\ lane2 \in Nat /\ lane3 \in Nat
  /\ exact1 \in Nat /\ exact2 \in Nat
  /\ exact1 <= (Modulus - 1) + TopByte * taken
  /\ 2 * exact2 <= TwiceWorst(taken)
  /\ part = "singles" => r1_sum = 0 /\ lane0 = 0 /\ lane1 = 0 /\ lane2 = 0 /\ lane3 = 0
  /\ ChunkIsRight

(* A sum that fits is what the register holds. *)
LEMMA WrapFits == ASSUME NEW x \in Nat, x < Width PROVE Wrap(x) = x
  BY ChunkLenAssumption DEF Wrap

(* A remainder is less than the divisor. *)
LEMMA Remainder == ASSUME NEW x \in Nat PROVE x % Modulus \in 0 .. Modulus - 1
  BY ChunkLenAssumption

(* Sums within the bound fit a register. *)
LEMMA WorstFits ==
  ASSUME NEW n \in 0 .. ChunkLen, NEW e \in Nat, 2 * e <= TwiceWorst(n)
  PROVE  e < Width
  <1>1. TwiceWorst(n) < 2 * Width
    BY ChunkLenAssumption
  <1>2. TwiceWorst(n) \in Int /\ Width \in Nat
    BY ChunkLenAssumption DEF TwiceWorst
  <1> QED BY <1>1, <1>2

(* One byte more adds at most the largest first sum to the largest second one. *)
LEMMA WorstStep ==
  ASSUME NEW n \in Nat
  PROVE  TwiceWorst(n + 1) = TwiceWorst(n) + 2 * ((Modulus - 1) + TopByte * (n + 1))
  BY ChunkLenAssumption DEF TwiceWorst

(* Before any byte the invariant holds. *)
LEMMA ChunkStarts == ChunkInit => ChunkInv
  BY ChunkLenAssumption DEF ChunkInit, ChunkInv, ChunkIsRight, ChunkLens, TwiceWorst

(* The bounds for the four sums the four bytes add. *)
LEMMA FourSteps ==
  ASSUME NEW n \in Nat, NEW e1 \in Nat, NEW e2 \in Nat,
         NEW b0 \in Byte, NEW b1 \in Byte, NEW b2 \in Byte, NEW b3 \in Byte,
         e1 <= (Modulus - 1) + TopByte * n, 2 * e2 <= TwiceWorst(n)
  PROVE  /\ e1 + b0 + b1 + b2 + b3 <= (Modulus - 1) + TopByte * (n + 4)
         /\ 2 * (e2 + (e1 + b0) + (e1 + b0 + b1) + (e1 + b0 + b1 + b2)
                    + (e1 + b0 + b1 + b2 + b3)) <= TwiceWorst(n + 4)
  <1> DEFINE top(k) == (Modulus - 1) + TopByte * k
  <1>1. /\ e1 + b0 <= top(n + 1)
        /\ e1 + b0 + b1 <= top(n + 2)
        /\ e1 + b0 + b1 + b2 <= top(n + 3)
        /\ e1 + b0 + b1 + b2 + b3 <= top(n + 4)
    BY ChunkLenAssumption DEF Byte
  <1>2. /\ TwiceWorst(n + 1) = TwiceWorst(n) + 2 * top(n + 1)
        /\ TwiceWorst(n + 2) = TwiceWorst(n + 1) + 2 * top(n + 2)
        /\ TwiceWorst(n + 3) = TwiceWorst(n + 2) + 2 * top(n + 3)
        /\ TwiceWorst(n + 4) = TwiceWorst(n + 3) + 2 * top(n + 4)
    BY ChunkLenAssumption DEF TwiceWorst
  <1>3. /\ \A k \in Nat : top(k) \in Int /\ TwiceWorst(k) \in Int
        /\ b0 \in Int /\ b1 \in Int /\ b2 \in Int /\ b3 \in Int
    BY ChunkLenAssumption DEF TwiceWorst, Byte
  <1> HIDE DEF top
  <1>4. 2 * (e2 + (e1 + b0) + (e1 + b0 + b1) + (e1 + b0 + b1 + b2) + (e1 + b0 + b1 + b2 + b3))
          <= TwiceWorst(n + 4)
    BY <1>1, <1>2, <1>3
  <1> QED BY <1>1, <1>4 DEF top

(* Every step keeps the invariant. *)
LEMMA ChunkSteps == ChunkInv /\ [ChunkNext]_chunkVars => ChunkInv'
  <1> SUFFICES ASSUME ChunkInv, [ChunkNext]_chunkVars PROVE ChunkInv'
    OBVIOUS
  <1>0. Modulus \in Nat /\ Modulus >= 1 /\ TopByte \in Nat /\ ChunkLen \in Nat /\ Width \in Nat
    BY ChunkLenAssumption
  <1> USE <1>0 DEF ChunkInv, ChunkIsRight
  <1>1. ASSUME NEW b0 \in Byte, NEW b1 \in Byte, NEW b2 \in Byte, NEW b3 \in Byte,
               FourBytes(b0, b1, b2, b3)
        PROVE  ChunkInv'
    <2>1. /\ exact1' <= (Modulus - 1) + TopByte * taken'
          /\ 2 * exact2' <= TwiceWorst(taken')
      BY <1>1, FourSteps DEF FourBytes
    <2>2. /\ taken' \in 0 .. ChunkLen /\ left' \in Nat /\ taken' + left' <= ChunkLen
      BY <1>1 DEF FourBytes
    <2>3. exact2' \in Nat
      BY <1>1 DEF FourBytes, Byte
    <2>4. exact2' < Width
      BY <2>1, <2>2, <2>3, WorstFits
    <2>5. /\ exact1' \in Nat /\ exact2' \in Nat
          /\ exact2' = r2 + (4 * ((r1_sum + r1) + (lane0 + b0)) + 3 * (lane1 + b1)
                              + 2 * (lane2 + b2) + (lane3 + b3))
          /\ exact1' = r1 + (b0 + b1 + b2 + b3)
          /\ exact1' <= exact2'
      BY <1>1 DEF FourBytes, Byte
    <2>6. /\ r1_sum + r1 < Width /\ r1 + (b0 + b1 + b2 + b3) < Width
          /\ lane0 + b0 < Width /\ lane1 + b1 < Width /\ lane2 + b2 < Width /\ lane3 + b3 < Width
      BY <2>4, <2>5 DEF Byte
    <2>7. /\ r1_sum' = r1_sum + r1 /\ r1' = r1 + (b0 + b1 + b2 + b3)
          /\ lane0' = lane0 + b0 /\ lane1' = lane1 + b1
          /\ lane2' = lane2 + b2 /\ lane3' = lane3 + b3
      BY <1>1, <2>6, WrapFits DEF FourBytes, Byte
    <2>8. /\ r1' \in Nat /\ r2' \in Nat /\ r1_sum' \in Nat
          /\ lane0' \in Nat /\ lane1' \in Nat /\ lane2' \in Nat /\ lane3' \in Nat
      BY <1>1, <2>7 DEF FourBytes, Byte
    <2>9. part' = "fours" /\ r2' = r2 /\ taken' \in Nat
      BY <1>1, <2>2 DEF FourBytes
    <2>10. ChunkIsRight'
      BY <2>5, <2>7, <2>9
    <2> QED BY <2>1, <2>2, <2>5, <2>8, <2>9, <2>10
  <1>2. CASE EndFours
    <2>1. exact2 < Width
      BY WorstFits
    <2>2. r2' = exact2
      BY <1>2, <2>1, WrapFits DEF EndFours
    <2> QED BY <1>2, <2>2 DEF EndFours
  <1>3. ASSUME NEW b \in Byte, OneByte(b) PROVE ChunkInv'
    <2>1. /\ exact1' = exact1 + b /\ exact2' = exact2 + exact1'
          /\ exact1' \in Nat /\ exact2' \in Nat /\ exact1' <= exact2'
          /\ taken' = taken + 1 /\ taken' \in 0 .. ChunkLen
          /\ left' \in Nat /\ taken' + left' <= ChunkLen
      BY <1>3 DEF OneByte, Byte
    <2>2. exact1' <= (Modulus - 1) + TopByte * taken'
      BY <2>1 DEF Byte
    <2>3. 2 * exact2' <= TwiceWorst(taken')
      <3>1. TwiceWorst(taken + 1) = TwiceWorst(taken) + 2 * ((Modulus - 1) + TopByte * (taken + 1))
        BY WorstStep
      <3>2. TwiceWorst(taken) \in Int /\ TopByte * (taken + 1) \in Int
        BY DEF TwiceWorst
      <3> QED BY <2>1, <2>2, <3>1, <3>2
    <2>4. exact2' < Width
      BY <2>1, <2>3, WorstFits
    <2>5. r1' = exact1' /\ r2' = exact2'
      BY <1>3, <2>1, <2>4, WrapFits DEF OneByte, Byte
    <2> QED BY <1>3, <2>1, <2>2, <2>3, <2>5 DEF OneByte
  <1>4. CASE EndChunk
    <2>1. r1' \in 0 .. Modulus - 1 /\ r2' \in 0 .. Modulus - 1
      BY <1>4, Remainder DEF EndChunk
    <2>2. exact1' = r1' /\ exact2' = r2'
      BY <1>4 DEF EndChunk
    <2>3. /\ exact1' <= (Modulus - 1) + TopByte * taken'
          /\ 2 * exact2' <= TwiceWorst(taken')
      <3>1. taken' = 0 /\ TopByte * 0 = 0 /\ TwiceWorst(0) = 2 * (Modulus - 1)
        BY <1>4 DEF EndChunk, TwiceWorst
      <3> QED BY <2>1, <2>2, <3>1
    <2>4. /\ part' = "fours" /\ left' \in Nat /\ taken' = 0 /\ taken' + left' <= ChunkLen
          /\ r1_sum' = 0 /\ lane0' = 0 /\ lane1' = 0 /\ lane2' = 0 /\ lane3' = 0
      <3>1. r1_sum = 0 /\ lane0 = 0 /\ lane1 = 0 /\ lane2 = 0 /\ lane3 = 0
        BY <1>4 DEF EndChunk
      <3>2. left' \in 0 .. ChunkLen /\ taken' = 0 /\ ChunkLen \in Nat
        BY <1>4 DEF EndChunk, ChunkLens
      <3>3. left' \in Nat /\ taken' + left' <= ChunkLen
        <4>1. \A l \in 0 .. ChunkLen : l \in Nat /\ 0 + l <= ChunkLen
          OBVIOUS
        <4> QED BY <3>2, <4>1
      <3> QED BY <1>4, <3>1, <3>3 DEF EndChunk
    <2>5. /\ r1' \in Nat /\ r2' \in Nat /\ exact1' \in Nat /\ exact2' \in Nat
          /\ r2' + (4 * (r1_sum' + lane0') + 3 * lane1' + 2 * lane2' + lane3') = exact2'
      <3>1. \A k \in 0 .. Modulus - 1 : k \in Nat /\ k + (4 * (0 + 0) + 3 * 0 + 2 * 0 + 0) = k
        OBVIOUS
      <3> QED BY <2>1, <2>2, <2>4, <3>1
    <2> QED BY <2>2, <2>3, <2>4, <2>5
  <1>5. CASE UNCHANGED chunkVars
    BY <1>5 DEF chunkVars
  <1> QED BY <1>1, <1>2, <1>3, <1>4, <1>5 DEF ChunkNext

(* The registers never wrap in any chunk of any data: ChunkIsRight always. *)
THEOREM ChunkCorrect == ChunkSpec => []ChunkIsRight
  <1>1. ChunkInv => ChunkIsRight
    BY DEF ChunkInv
  <1> QED BY ChunkStarts, ChunkSteps, <1>1, PTL DEF ChunkSpec

(* The numbers of the code are such: 5552 bytes of 255 can be summed in 32    *)
(* bits before a division by 65521, and 5553 cannot (adler32.rs 12-16).       *)
THEOREM ChunkLenIsGreatest ==
  LET twice(n) == 2 * (65521 - 1) * (n + 1) + 255 * n * (n + 1)
  IN  /\ \A n \in 0 .. 5552 : twice(n) < 2 * (65536 * 65536)
      /\ twice(5553) > 2 * (65536 * 65536)
  <1>1. ASSUME NEW n \in 0 .. 5552
        PROVE  2 * (65521 - 1) * (n + 1) + 255 * n * (n + 1) < 2 * (65536 * 65536)
    <2> DEFINE square == n * (n + 1)
    <2>1. PICK d \in Nat : n \in Nat /\ n + d = 5552
      <3>1. 5552 - n \in Nat /\ n \in Nat /\ n + (5552 - n) = 5552
        OBVIOUS
      <3> QED BY <3>1
    <2> DEFINE more == d * (n + n + d + 1)
    <2>2. square \in Nat /\ more \in Nat
      BY <2>1
    <2>3. (n + d) * ((n + d) + 1) = square + more
      BY <2>1
    <2>4. square + more = 5552 * 5553
      BY <2>1, <2>3
    <2>5. 2 * (65521 - 1) * (n + 1) + 255 * n * (n + 1) = 131040 * (n + 1) + 255 * square
      BY <2>1
    <2> HIDE DEF square, more
    <2>6. square <= 5552 * 5553
      BY <2>2, <2>4
    <2> QED BY <2>1, <2>2, <2>5, <2>6
  <1> QED BY <1>1
===============================================================================

----------------------------- MODULE StreamProofs -----------------------------
(***************************************************************************)
(* Proofs about StreamDecompressor, for every set of setups and streams,   *)
(* and every size of its buffers and margins that StreamAssumption admits. *)
(***************************************************************************)
EXTENDS StreamCorrectness, OutputWindowProofs, FiniteSetTheorems

-------------------------------------------------------------------------------
(* What the proofs need to know of the decoder's state.                    *)

ReaderOK(i) ==
  /\ i \in [pos : Nat, end : Nat, left : Int, over : Int]
  /\ i.pos <= i.end

StreamOK ==
  /\ stream.nbytes \in Nat
  /\ \A k \in 1 .. stream.held : stream.toks[k] \in Token

DecoderOK ==
  /\ DOMAIN dec = {"state", "remaining", "final", "match", "lits", "static_loaded",
                   "doubles_pending", "litlen_doubles", "table"}
  /\ DOMAIN dec.table = {"code", "bits", "doubles"}
  /\ dec.remaining \in Nat
  /\ dec.match \in [offset : Nat, length : Nat]
  /\ dec.lits \in Seq(Byte)
  /\ dec.table.bits \in 0 .. LITLEN_TABLEBITS

CallOK ==
  /\ DOMAIN call = {"pc", "result", "prev", "chain", "start"}
  /\ call.prev \in Int /\ call.chain \in 0 .. 2 /\ call.start \in Int

HistOK ==
  /\ DOMAIN hist = {"errors", "resets", "phantom"}
  /\ hist.errors \in Nat

(* A pending match may still be copied: no compaction took its source.     *)
PendingReaches ==
  dec.match # NoMatch => dec.match.offset \in 1 .. lookback_valid

(* Within a turn of the fastloop: real_start bounds the same distances as  *)
(* lookback_valid, and the margins checked at the turn's head, less what   *)
(* the chain's entries have used, are there.                               *)
TurnHolds ==
  call.pc = "fast" =>
    /\ lookback_valid = AtMost(write_pos - call.start, LOOKBACK_SIZE)
    /\ write_pos + FASTLOOP_MAX_BYTES_WRITTEN < Len(buffer) + 2 * call.chain
    /\ Staged(in) >= FASTLOOP_MAX_BYTES_READ - 6
    /\ in.left >= 56 - call.chain * dec.table.bits

DecoderInv ==
  /\ ReaderOK(in)
  /\ StreamOK
  /\ DecoderOK
  /\ CallOK
  /\ HistOK
  /\ PendingReaches
  /\ TurnHolds

-------------------------------------------------------------------------------
(* The bit reader.                                                         *)

LEMMA FilledReader ==
  ASSUME NEW i, ReaderOK(i), StreamOK
  PROVE  /\ ReaderOK(Filled(i))
         /\ Filled(i).pos = i.pos
         /\ Filled(i).left = i.left
         /\ Filled(i).over = i.over
         /\ Filled(i).end >= i.end
<1> USE StreamAssumption DEF ReaderOK
<1>1. i.end \in Nat /\ i.pos \in Nat
  OBVIOUS
<1> DEFINE e == AtLeast(i.end, AtMost(i.pos + INPUT_BUF_SIZE, stream.nbytes))
<1>2. e \in Nat /\ e >= i.end
  BY <1>1 DEF StreamOK, AtLeast, AtMost
<1>3. Filled(i) = [i EXCEPT !.end = e]
  BY DEF Filled
<1> HIDE DEF e
<1>4. QED BY <1>1, <1>2, <1>3

LEMMA ConsumedReader ==
  ASSUME NEW i, ReaderOK(i), NEW n \in Int
  PROVE  /\ ReaderOK(Consumed(i, n))
         /\ Consumed(i, n).pos = i.pos
         /\ Consumed(i, n).end = i.end
         /\ Consumed(i, n).left = i.left - n
         /\ Consumed(i, n).over = i.over
BY DEF ReaderOK, Consumed

LEMMA RefilledFastReader ==
  ASSUME NEW i, ReaderOK(i), Staged(i) >= 7
  PROVE  /\ ReaderOK(RefilledFast(i))
         /\ RefilledFast(i).left >= 56
         /\ Staged(RefilledFast(i)) >= Staged(i) - 7
<1> DEFINE loaded == 7 - ((i.left \div 8) % 8)
           rest == i.left % 8
<1>1. loaded \in 0 .. 7 /\ rest \in 0 .. 7
  BY DEF ReaderOK
<1>2. RefilledFast(i) = [i EXCEPT !.pos = @ + loaded, !.left = 56 + rest]
  BY DEF RefilledFast
<1> HIDE DEF loaded, rest
<1>3. i.pos \in Nat /\ i.end \in Nat /\ i.pos + loaded \in Nat /\ 56 + rest \in Int
  BY <1>1 DEF ReaderOK
<1>4. RefilledFast(i) \in [pos : Nat, end : Nat, left : Int, over : Int]
  BY <1>2, <1>3 DEF ReaderOK
<1>5. /\ RefilledFast(i).pos = i.pos + loaded
      /\ RefilledFast(i).end = i.end
      /\ RefilledFast(i).left = 56 + rest
  BY <1>2 DEF ReaderOK
<1>6. QED BY <1>1, <1>3, <1>4, <1>5 DEF ReaderOK, Staged

(* The larger of an integer and 0.                                         *)
LEMMA MaxWithZero ==
  ASSUME NEW a \in Int
  PROVE  Max({a, 0}) = IF a >= 0 THEN a ELSE 0
BY DEF Max

LEMMA RealBytesNat ==
  ASSUME NEW i, ReaderOK(i)
  PROVE  RealBytes(i) \in Nat
<1>1. i.left \div 8 - i.over \in Int
  BY DEF ReaderOK
<1>2. QED BY <1>1, MaxWithZero DEF RealBytes

LEMMA SmallerOfTwo ==
  ASSUME NEW a \in Int, NEW b \in Int
  PROVE  Min({a, b}) = IF a <= b THEN a ELSE b
BY DEF Min

LEMMA RefilledReader ==
  ASSUME NEW i, ReaderOK(i)
  PROVE  ReaderOK(Refilled(i))
<1>1. CASE Staged(i) >= 8
  <2>1. Staged(i) >= 7
    BY <1>1 DEF Staged, ReaderOK
  <2>2. QED BY <1>1, <2>1, RefilledFastReader DEF Refilled
<1>2. CASE ~(Staged(i) >= 8)
  <2> DEFINE wanted == IF i.left >= 56 THEN 0 ELSE (63 - i.left) \div 8
             real == Min({wanted, Staged(i)})
  <2>1. wanted \in Nat
    <3>1. CASE i.left >= 56
      BY <3>1
    <3>2. CASE ~(i.left >= 56)
      BY <3>2 DEF ReaderOK
    <3>3. QED BY <3>1, <3>2
  <2>2. Staged(i) \in Nat
    BY DEF Staged, ReaderOK
  <2>3. Refilled(i) = [i EXCEPT !.pos = @ + real, !.over = @ + (wanted - real),
                                !.left = @ + 8 * wanted]
    BY <1>2 DEF Refilled, RefilledSlow
  <2> HIDE DEF wanted
  <2>4. real \in Nat /\ real <= Staged(i)
    BY <2>1, <2>2, SmallerOfTwo
  <2> HIDE DEF real
  <2>5. /\ i.pos \in Nat /\ i.end \in Nat /\ i.left \in Int /\ i.over \in Int
        /\ i.pos + real \in Nat
        /\ i.over + (wanted - real) \in Int
        /\ i.left + 8 * wanted \in Int
    BY <2>1, <2>4 DEF ReaderOK
  <2>6. Refilled(i) \in [pos : Nat, end : Nat, left : Int, over : Int]
    BY <2>3, <2>5 DEF ReaderOK
  <2>7. Refilled(i).pos = i.pos + real /\ Refilled(i).end = i.end
    BY <2>3 DEF ReaderOK
  <2>8. QED BY <2>4, <2>5, <2>6, <2>7 DEF ReaderOK, Staged
<1>3. QED BY <1>1, <1>2

-------------------------------------------------------------------------------
(* What is read.                                                           *)

(* What a token is made of, by its kind.                                   *)
LEMMA TokenKind ==
  ASSUME NEW t \in Token
  PROVE  t.kind \in {"wrapper", "block", "precode", "lens", "len", "byte",
                     "lit", "match", "eob", "footer"}
BY DEF Token

LEMMA WrapperToken ==
  ASSUME NEW t \in Token, t.kind = "wrapper"
  PROVE  t.ok \in BOOLEAN /\ \E n \in 1 .. INPUT_BUF_SIZE : t.bits = 8 * n
<1>1. t.ok \in BOOLEAN /\ t.bits \in HeaderBits
  BY DEF Token
<1>2. QED BY <1>1 DEF HeaderBits

LEMMA BlockToken ==
  ASSUME NEW t \in Token, t.kind = "block"
  PROVE  /\ t.type \in {"dynamic", "static", "stored", "reserved"}
         /\ t.final \in BOOLEAN
         /\ t.bits = IF t.type = "dynamic" THEN 20 ELSE 3
BY DEF Token

LEMMA PrecodeToken ==
  ASSUME NEW t \in Token, t.kind = "precode"
  PROVE  t.ok \in BOOLEAN /\ t.bits \in 1 .. 54
BY DEF Token

LEMMA LensToken ==
  ASSUME NEW t \in Token, t.kind = "lens"
  PROVE  /\ t.last \in BOOLEAN /\ t.ok \in BOOLEAN /\ t.longest \in Nat
         /\ t.bits \in 1 .. 14
BY DEF Token

LEMMA LenToken ==
  ASSUME NEW t \in Token, t.kind = "len"
  PROVE  t.n \in Nat /\ t.ok \in BOOLEAN /\ t.bits = 32
BY DEF Token

LEMMA ByteToken ==
  ASSUME NEW t \in Token, t.kind = "byte"
  PROVE  t.val \in Byte /\ t.bits = 8
BY DEF Token

LEMMA LitToken ==
  ASSUME NEW t \in Token, t.kind = "lit"
  PROVE  t.val \in Byte /\ t.bits \in 1 .. 15
BY DEF Token

LEMMA MatchToken ==
  ASSUME NEW t \in Token, t.kind = "match"
  PROVE  /\ t.offset \in 1 .. LOOKBACK_SIZE /\ t.length \in 1 .. MAX_MATCH
         /\ t.bits \in 1 .. 20 /\ t.obits \in 0 .. 28
BY DEF Token

LEMMA EobToken ==
  ASSUME NEW t \in Token, t.kind = "eob"
  PROVE  t.bits \in 1 .. 15
BY DEF Token

LEMMA FooterToken ==
  ASSUME NEW t \in Token, t.kind = "footer"
  PROVE  t.sum \in Seq(Byte) /\ t.size \in Nat /\ t.bits \in {32, 64}
BY DEF Token

(* No token is empty.                                                      *)
LEMMA TokenWidth ==
  ASSUME NEW t \in Token
  PROVE  /\ t.bits \in Nat
         /\ Width(t) \in Nat \ {0}
         /\ t.kind # "match" => Width(t) = t.bits
<1>1. CASE t.kind = "match"
  <2>1. t.bits \in 1 .. 20 /\ t.obits \in 0 .. 28
    BY <1>1, MatchToken
  <2>2. QED BY <1>1, <2>1 DEF Width
<1>2. CASE t.kind = "wrapper"
  <2>1. PICK n \in 1 .. INPUT_BUF_SIZE : t.bits = 8 * n
    BY <1>2, WrapperToken
  <2>2. t.bits \in Nat \ {0}
    BY <2>1, StreamAssumption
  <2>3. QED BY <1>2, <2>2 DEF Width
<1>3. CASE t.kind \in {"block", "precode", "lens"}
  <2>1. t.bits \in Nat \ {0}
    BY <1>3, BlockToken, PrecodeToken, LensToken
  <2>2. QED BY <1>3, <2>1 DEF Width
<1>4. CASE t.kind \in {"len", "byte", "lit", "eob", "footer"}
  <2>1. t.bits \in Nat \ {0}
    BY <1>4, LenToken, ByteToken, LitToken, EobToken, FooterToken
  <2>2. QED BY <1>4, <2>1 DEF Width
<1>5. QED BY <1>1, <1>2, <1>3, <1>4, TokenKind

LEMMA TokenFields ==
  ASSUME NEW t \in Token
  PROVE  /\ t.bits \in Nat
         /\ t.kind \in {"byte", "lit"} => t.val \in Byte
         /\ t.kind = "match" => /\ t.offset \in 1 .. LOOKBACK_SIZE
                                /\ t.length \in 1 .. MAX_MATCH
                                /\ t.obits \in Nat
         /\ t.kind = "len" => t.n \in Nat
         /\ t.kind = "lens" => t.longest \in Nat
         /\ t.kind = "block" => t.final \in BOOLEAN
<1>1. t.kind = "match" => /\ t.offset \in 1 .. LOOKBACK_SIZE
                          /\ t.length \in 1 .. MAX_MATCH
                          /\ t.obits \in Nat
  BY MatchToken
<1>2. QED BY <1>1, TokenWidth, ByteToken, LitToken, LenToken, LensToken, BlockToken

LEMMA PhantomsAreTokens ==
  /\ \A t \in Phantoms.block : t \in Token /\ t.kind = "block"
  /\ \A t \in Phantoms.symbol : t \in Token /\ t.kind \in Symbols
  /\ \A t \in Phantoms.precode : t \in Token
  /\ \A t \in Phantoms.lens : t \in Token /\ t.kind = "lens"
<1> USE StreamAssumption, BufferAssumption
<1>1. /\ Phantoms.block = {Block("stored", FALSE), Block("static", TRUE),
                          Block("dynamic", FALSE)}
      /\ Phantoms.symbol = {Lit(Junk, 15), Eob(15), Match(1, 2, 20, 28),
                           Match(LOOKBACK_SIZE, 2, 20, 28)}
      /\ Phantoms.precode = {Precode(54, TRUE), Precode(54, FALSE)}
      /\ Phantoms.lens = {Lens(14, TRUE, TRUE, 1), Lens(14, FALSE, FALSE, 1)}
  BY DEF Phantoms, PhantomsWith
<1>2. ASSUME NEW type \in {"stored", "static", "dynamic"}, NEW final \in BOOLEAN
      PROVE  Block(type, final) \in Token /\ Block(type, final).kind = "block"
  <2> DEFINE width == IF type = "dynamic" THEN 20 ELSE 3
  <2>2. Block(type, final) = [kind |-> "block", type |-> type, final |-> final,
                              bits |-> width]
    BY DEF Block
  <2> HIDE DEF width
  <2>3. width = IF type = "dynamic" THEN 20 ELSE 3
    BY DEF width
  <2>4. QED BY <2>2, <2>3 DEF Token
<1>3. ASSUME NEW offset \in 1 .. LOOKBACK_SIZE
      PROVE  /\ Match(offset, 2, 20, 28) \in Token
             /\ Match(offset, 2, 20, 28).kind \in Symbols
  BY DEF Match, Token, Symbols
<1>4. /\ Lit(Junk, 15) \in Token /\ Lit(Junk, 15).kind \in Symbols
      /\ Eob(15) \in Token /\ Eob(15).kind \in Symbols
  BY DEF Lit, Eob, Token, Symbols
<1>5. ASSUME NEW ok \in BOOLEAN
      PROVE  Precode(54, ok) \in Token
  BY DEF Precode, Token
<1>6. ASSUME NEW last \in BOOLEAN, NEW ok \in BOOLEAN
      PROVE  /\ Lens(14, last, ok, 1) \in Token
             /\ Lens(14, last, ok, 1).kind = "lens"
  BY DEF Lens, Token
<1>7. 1 \in 1 .. LOOKBACK_SIZE /\ LOOKBACK_SIZE \in 1 .. LOOKBACK_SIZE
  OBVIOUS
<1>8. \A t \in Phantoms.block : t \in Token /\ t.kind = "block"
  BY <1>1, <1>2
<1>9. \A t \in Phantoms.symbol : t \in Token /\ t.kind \in Symbols
  BY <1>1, <1>3, <1>4, <1>7
<1>10. \A t \in Phantoms.precode : t \in Token
  BY <1>1, <1>5
<1>11. \A t \in Phantoms.lens : t \in Token /\ t.kind = "lens"
  BY <1>1, <1>6
<1>12. QED BY <1>8, <1>9, <1>10, <1>11

(* The intact tokens of some kinds at a reader's position.                 *)
LEMMA TokensAreTokens ==
  ASSUME StreamOK, NEW i, NEW kinds, NEW t \in Tokens(i, kinds)
  PROVE  t \in Token /\ t.kind \in kinds
BY DEF StreamOK, Tokens, TokensFor, TokensOf

LEMMA TheTokenIsToken ==
  ASSUME StreamOK, NEW i, NEW kinds, HasToken(i, kinds)
  PROVE  TheToken(i, kinds) \in Token /\ TheToken(i, kinds).kind \in kinds
<1>1. TheToken(i, kinds) \in Tokens(i, kinds)
  BY DEF TheToken, HasToken
<1>2. QED BY <1>1, TokensAreTokens

LEMMA ReadGives ==
  ASSUME StreamOK, NEW i, NEW kinds, NEW phantoms, NEW t \in Read(i, kinds, phantoms)
  PROVE  (t \in Token /\ t.kind \in kinds) \/ t \in phantoms
<1>1. CASE t \in Tokens(i, kinds)
  BY <1>1, TokensAreTokens
<1>2. CASE t \notin Tokens(i, kinds)
  BY <1>2 DEF Read, ReadFrom, Tokens
<1>3. QED BY <1>1, <1>2

LEMMA SymbolRead ==
  ASSUME StreamOK, NEW i, NEW t \in Read(i, Symbols, Phantoms.symbol)
  PROVE  t \in Token /\ t.kind \in Symbols
BY ReadGives, PhantomsAreTokens

LEMMA StoredByte ==
  ASSUME StreamOK, NEW n
  PROVE  ByteAt(n) \in Byte
<1> DEFINE bytes == {t \in TokensAt(8 * n) : t.kind = "byte"}
<1>1. \A t \in bytes : t.val \in Byte
  <2> SUFFICES ASSUME NEW t \in bytes PROVE t.val \in Byte
    OBVIOUS
  <2>1. t \in Token /\ t.kind = "byte"
    BY DEF TokensAt, TokensOf, StreamOK
  <2>2. QED BY <2>1, TokenFields
<1>2. CASE bytes = {}
  BY <1>2, BufferAssumption DEF ByteAt
<1>3. CASE bytes # {}
  <2>1. (CHOOSE t \in bytes : TRUE) \in bytes
    BY <1>3
  <2>2. (CHOOSE t \in bytes : TRUE).val \in Byte
    BY <1>1, <2>1
  <2>3. QED BY <1>3, <2>2 DEF ByteAt
<1>4. QED BY <1>2, <1>3

(* The bytes and the bits of a table entry.                                *)
LEMMA EntryFacts ==
  ASSUME StreamOK, DecoderOK, NEW i, NEW t \in Token, t.kind = "lit"
  PROVE  /\ Entry(i, t).bits \in Nat
         /\ Entry(i, t).vals \in Seq(Byte)
         /\ Len(Entry(i, t).vals) \in 1 .. 2
         /\ InMainTable(t) => Entry(i, t).bits <= dec.table.bits
<1> DEFINE second == {u \in Tokens(Consumed(i, t.bits), {"lit"}) :
                        t.bits + u.bits <= dec.table.bits}
           u == CHOOSE u \in second : TRUE
           paired == dec.table.doubles /\ second # {}
<1>1. t.bits \in Nat /\ t.val \in Byte
  BY TokenFields
<1>2. CASE paired
  <2>1. u \in second
    BY <1>2
  <2>2. u \in Tokens(Consumed(i, t.bits), {"lit"}) /\ t.bits + u.bits <= dec.table.bits
    BY <2>1
  <2>3. u \in Token /\ u.kind \in {"lit"}
    BY <2>2, TokensAreTokens
  <2>4. u.bits \in Nat /\ u.val \in Byte
    BY <2>3, TokenFields
  <2>5. Entry(i, t) = [vals |-> <<t.val, u.val>>, bits |-> t.bits + u.bits]
    BY <1>2 DEF Entry
  <2> HIDE DEF u
  <2>6. QED BY <1>1, <2>2, <2>4, <2>5
<1>3. CASE ~paired
  <2>1. Entry(i, t) = [vals |-> <<t.val>>, bits |-> t.bits]
    BY <1>3 DEF Entry
  <2>2. QED BY <1>1, <2>1 DEF InMainTable
<1>4. QED BY <1>2, <1>3

(* The first n literals of an entry, as what PutBytes stores.              *)
LEMMA CellsAreBytes ==
  ASSUME NEW vals \in Seq(Byte), NEW n \in 0 .. Len(vals)
  PROVE  Cells(vals, n) \in [0 .. (n - 1) -> Byte]
BY DEF Cells

-------------------------------------------------------------------------------
(* The buffer.                                                             *)

LEMMA WindowFacts ==
  ASSUME WindowInv
  PROVE  /\ write_pos \in Nat
         /\ read_pos \in 0 .. write_pos
         /\ Len(buffer) \in Nat
         /\ lookback_valid \in 0 .. LOOKBACK_SIZE
         /\ lookback_valid <= write_pos
         /\ OutputSpace \in Nat
         /\ PeekLen \in Nat
         /\ write_pos + OutputSpace = Len(buffer)
         /\ write_pos <= Len(buffer)
         /\ Len(produced) \in Nat
BY BufferAssumption DEF WindowInv, BufferTypeOK, LookbackExact, OutputSpace, PeekLen

(* A write that fits is one the window allows.                             *)
LEMMA PutIsUse ==
  ASSUME WindowInv, NEW n \in Nat \ {0}, NEW scratch \in Nat,
         NEW f \in [0 .. (n - 1) -> Byte], n + scratch <= OutputSpace,
         PutBytes(f, n, scratch)
  PROVE  BufferUse
<1>1. OutputSpace \in Nat
  BY WindowFacts
<1>2. n \in 1 .. OutputSpace /\ scratch \in 0 .. (OutputSpace - n)
  BY <1>1
<1>3. PutsBytes
  BY <1>2, Zenon DEF PutsBytes
<1>4. QED BY <1>3 DEF BufferUse

LEMMA CopyIsUse ==
  ASSUME WindowInv, NEW length \in Nat \ {0}, NEW scratch \in Nat,
         NEW offset \in 1 .. lookback_valid, length + scratch <= OutputSpace,
         WriteMatch(offset, length, scratch)
  PROVE  BufferUse
<1>1. OutputSpace \in Nat
  BY WindowFacts
<1>2. length \in 1 .. OutputSpace /\ scratch \in 0 .. (OutputSpace - length)
  BY <1>1
<1>3. CopiesMatch
  BY <1>2, Zenon DEF CopiesMatch
<1>4. QED BY <1>3 DEF BufferUse

(* A use of the window that writes n bytes: the positions it leaves.       *)
WroteBytes(n) ==
  /\ write_pos' = write_pos + n
  /\ read_pos' = read_pos
  /\ Len(buffer') = Len(buffer)
  /\ lookback_valid' = AtMost(lookback_valid + n, LOOKBACK_SIZE)
  /\ lookback_valid' >= lookback_valid
  /\ Len(produced') = Len(produced) + n
  /\ UNCHANGED <<checksum, total_output, checksum_watermark, formatVars>>

LEMMA WriteLeaves ==
  ASSUME WindowInv, BufferUse, NEW n \in Nat, NEW scratch, NEW f, NEW g,
         WriteBytes(f, n, scratch, g)
  PROVE  WroteBytes(n)
<1>1. WindowInv'
  BY UseKeepsInvariant
<1>2. /\ write_pos' = write_pos + n
      /\ read_pos' = read_pos
      /\ lookback_valid' = AtMost(lookback_valid + n, LOOKBACK_SIZE)
      /\ UNCHANGED <<checksum, total_output, checksum_watermark, formatVars>>
      /\ DOMAIN buffer' = 1 .. Len(buffer)
      /\ DOMAIN produced' = 1 .. (Len(produced) + n)
  BY DEF WriteBytes, Written, Extended
<1>3. /\ buffer' \in Seq(Byte) /\ produced' \in Seq(Byte)
      /\ lookback_valid \in 0 .. LOOKBACK_SIZE
      /\ Len(buffer) \in Nat
      /\ Len(produced) \in Nat
  BY <1>1, WindowFacts DEF WindowInv, BufferTypeOK
<1>4. Len(buffer') = Len(buffer)
  BY <1>2, <1>3
<1>5. Len(produced') = Len(produced) + n
  BY <1>2, <1>3
<1>6. lookback_valid' >= lookback_valid
  BY <1>2, <1>3, BufferAssumption DEF AtMost
<1>7. QED BY <1>2, <1>4, <1>5, <1>6 DEF WroteBytes

(* A compaction moves everything together, and makes room.                 *)
LEMMA CompactLeaves ==
  ASSUME WindowInv, OutputSpace = 0, PeekLen < Capacity, CompactOutput
  PROVE  /\ BufferUse
         /\ lookback_valid' = lookback_valid
         /\ Len(produced') = Len(produced)
         /\ write_pos' \in Nat
         /\ write_pos' < Len(buffer')
<1> USE BufferAssumption
<1>1. BufferUse
  BY DEF BufferUse, CompactWhenFull
<1>2. WindowInv'
  BY <1>1, UseKeepsInvariant
<1>3. /\ write_pos' \in Nat /\ Len(buffer') \in Nat /\ buffer' \in Seq(Byte)
      /\ write_pos = Len(buffer) /\ Len(buffer) \in Nat /\ write_pos \in Nat
      /\ read_pos \in 0 .. write_pos
      /\ lookback_valid \in 0 .. LOOKBACK_SIZE
  BY <1>2, WindowFacts DEF WindowInv, BufferTypeOK, OutputSpace
<1>4. RoomGained > 0
  BY CompactionGains DEF CompactionMakesRoom
<1>5. CASE Grow
  <2>1. /\ write_pos' = write_pos
        /\ lookback_valid' = lookback_valid
        /\ produced' = produced
        /\ Len(buffer) < FullSize
        /\ DOMAIN buffer' = 1 .. GrownSize
    BY <1>5 DEF Grow
  <2>2. GrownSize \in Nat /\ GrownSize > Len(buffer)
    BY <1>3, <1>4, <2>1 DEF RoomGained, GrownSize, AtMost, AtLeast, FullSize
  <2>3. Len(buffer') = GrownSize
    BY <1>3, <2>1, <2>2
  <2>4. QED BY <1>1, <1>3, <2>1, <2>2, <2>3
<1>6. CASE Slide
  <2>1. /\ write_pos' = write_pos - KeepStart
        /\ lookback_valid' = AtMost(lookback_valid, write_pos')
        /\ produced' = produced
        /\ ~(Len(buffer) < FullSize)
        /\ read_pos > LOOKBACK_SIZE
        /\ DOMAIN buffer' = 1 .. Len(buffer)
    BY <1>3, <1>6 DEF Slide, FullSize
  <2>2. KeepStart = read_pos - LOOKBACK_SIZE /\ KeepStart > 0
    BY <1>3, <2>1 DEF KeepStart
  <2>3. Len(buffer') = Len(buffer)
    BY <1>3, <2>1
  <2>4. write_pos' >= LOOKBACK_SIZE
    BY <1>3, <2>1, <2>2
  <2>5. lookback_valid' = lookback_valid
    BY <1>3, <2>1, <2>4 DEF AtMost
  <2>6. QED BY <1>1, <1>3, <2>1, <2>2, <2>3, <2>5
<1>7. CASE NothingToCompact
  BY <1>3, <1>4, <1>7 DEF NothingToCompact, RoomGained, KeepStart, AtLeast, FullSize
<1>8. QED BY <1>5, <1>6, <1>7 DEF CompactOutput

LEMMA UnchangedWindow ==
  ASSUME UNCHANGED bufferVars
  PROVE  UNCHANGED <<buffer, write_pos, read_pos, lookback_valid, checksum,
                     total_output, checksum_watermark, produced, wrapper,
                     checksum_policy>>
BY DEF bufferVars, formatVars

-------------------------------------------------------------------------------
(* One step of a handler: how it uses the window, and where it leaves      *)
(* fill().                                                                 *)

HistKept == HistOK' /\ hist'.errors = hist.errors

HandlerMove ==
  /\ CallOK'
  /\ HistOK'
  /\ call'.prev = call.prev
  /\ hist'.errors >= hist.errors
  /\ \/ call'.pc # "idle" /\ call'.result = call.result
     \/ /\ call'.pc = "idle"
        /\ call'.result \in {"BadData", "InvalidHeader", "ChecksumMismatch"}
     \/ call'.pc = "idle" /\ call'.result = "Source" /\ hist'.errors > 0

Handled ==
  /\ BufferUse \/ UNCHANGED bufferVars
  /\ DecoderInv'
  /\ HandlerMove
  /\ UNCHANGED <<given, acct>>
  /\ write_pos' >= write_pos
  /\ Len(produced') - write_pos' = Len(produced) - write_pos

LEMMA NotedHist ==
  ASSUME HistOK, NEW real, UNCHANGED hist \/ NotePhantom(real)
  PROVE  HistKept
BY DEF HistOK, HistKept, NotePhantom

LEMMA LeavesFor ==
  ASSUME CallOK, HistKept, NEW pc, pc # "idle", ToPc(pc)
  PROVE  HandlerMove /\ call'.pc = pc
BY DEF CallOK, HistKept, HistOK, ToPc, HandlerMove

LEMMA LeavesForAccount ==
  ASSUME CallOK, HistKept, ToAccount
  PROVE  HandlerMove /\ call'.pc = "account"
BY DEF CallOK, HistKept, HistOK, ToAccount, HandlerMove

LEMMA Stays ==
  ASSUME CallOK, HistKept, UNCHANGED call, call.pc # "idle"
  PROVE  HandlerMove /\ call'.pc = call.pc
BY DEF CallOK, HistKept, HistOK, HandlerMove

LEMMA FailsWith ==
  ASSUME CallOK, HistKept,
         NEW err \in {"BadData", "InvalidHeader", "ChecksumMismatch"}, Fail(err)
  PROVE  HandlerMove /\ call'.pc = "idle"
BY DEF CallOK, HistKept, HistOK, Fail, HandlerMove

(* The source fails with reader i: its bytes so far are staged.            *)
LEMMA SourceFailing ==
  ASSUME CallOK, HistOK, StreamOK, NEW i, ReaderOK(i), SourceFails(i)
  PROVE  ReaderOK(in') /\ HandlerMove /\ call'.pc = "idle"
<1>1. PICK e \in i.end .. AtMost(i.pos + INPUT_BUF_SIZE - 1, stream.nbytes) :
         in' = [i EXCEPT !.end = e]
  BY DEF SourceFails
<1>2. e \in Nat /\ i.end <= e
  BY <1>1 DEF ReaderOK
<1>3. ReaderOK(in')
  BY <1>1, <1>2 DEF ReaderOK
<1>4. HistOK' /\ hist'.errors = hist.errors + 1
  BY DEF SourceFails, HistOK
<1>5. CallOK' /\ call'.pc = "idle" /\ call'.result = "Source" /\ call'.prev = call.prev
  BY DEF SourceFails, Fail, CallOK
<1>6. QED BY <1>3, <1>4, <1>5 DEF HandlerMove, HistOK

LEMMA BlockFinished ==
  ASSUME DecoderOK, CallOK, HistKept, NEW i, FinishBlock(i)
  PROVE  /\ DecoderOK' /\ dec'.match = dec.match
         /\ HandlerMove /\ call'.pc \in {"idle", "account"}
<1>1. CASE Finished(i) = "BadData"
  <2>1. Fail("BadData") /\ UNCHANGED dec
    BY <1>1 DEF FinishBlock
  <2>2. QED BY <2>1, FailsWith DEF DecoderOK
<1>2. CASE Finished(i) # "BadData"
  <2>1. PICK next : dec' = [dec EXCEPT !.state = next, !.remaining = 0]
    BY <1>2 DEF FinishBlock
  <2>3. DecoderOK' /\ dec'.match = dec.match
    BY <2>1 DEF DecoderOK
  <2>4. QED BY <1>2, <2>3, LeavesForAccount DEF FinishBlock
<1>3. QED BY <1>1, <1>2

(* A step that leaves the buffer alone and does not enter the fastloop.    *)
LEMMA QuietStep ==
  ASSUME WindowInv, DecoderInv, UNCHANGED <<bufferVars, given, acct>>,
         ReaderOK(in'), DecoderOK', HandlerMove,
         dec'.match = dec.match \/ dec'.match = NoMatch,
         call'.pc # "fast"
  PROVE  Handled
<1>1. UNCHANGED <<write_pos, lookback_valid, buffer, produced, stream>>
  BY UnchangedWindow DEF given
<1>2. StreamOK'
  BY <1>1 DEF DecoderInv, StreamOK
<1>3. PendingReaches'
  BY <1>1 DEF DecoderInv, PendingReaches
<1>4. TurnHolds'
  BY DEF TurnHolds
<1>5. DecoderInv'
  BY <1>2, <1>3, <1>4 DEF DecoderInv, HandlerMove
<1>6. write_pos' >= write_pos
  BY <1>1, WindowFacts
<1>7. QED BY <1>1, <1>5, <1>6 DEF Handled

-------------------------------------------------------------------------------
(* Headers.                                                                *)

LEMMA SourceFailsQuietly ==
  ASSUME WindowInv, DecoderInv,
         \/ SourceFailsBeforeHandler
         \/ SourceFailsAtRefill
         \/ SourceFailsInGeneric
  PROVE  Handled
<1>1. /\ SourceFails(in)
      /\ UNCHANGED <<bufferVars, given, dec, acct>>
  BY DEF SourceFailsBeforeHandler, SourceFailsAtRefill, SourceFailsInGeneric
<1>2. ReaderOK(in') /\ HandlerMove /\ call'.pc = "idle"
  BY <1>1, SourceFailing DEF DecoderInv
<1>3. DecoderOK' /\ dec'.match = dec.match
  BY <1>1 DEF DecoderInv, DecoderOK
<1>4. QED BY <1>1, <1>2, <1>3, QuietStep

LEMMA ParseWrapperHeaderStep ==
  ASSUME WindowInv, DecoderInv, ParseWrapperHeader
  PROVE  Handled
<1> DEFINE i == Filled(in)
           t == TheToken(i, {"wrapper"})
           good == HasToken(i, {"wrapper"}) /\ t.ok /\ t.bits <= 8 * Staged(i)
<1>1. ReaderOK(i)
  BY FilledReader DEF DecoderInv
<1>2. UNCHANGED <<bufferVars, given, acct>> /\ HistKept
  BY NotedHist DEF ParseWrapperHeader, DecoderInv
<1>3. CASE good
  <2>1. t.bits \in Nat
    BY <1>3, TheTokenIsToken, TokenFields DEF DecoderInv
  <2>2. /\ in' = [i EXCEPT !.pos = @ + t.bits \div 8]
        /\ dec' = [dec EXCEPT !.state = "BlockHeader"]
        /\ ToAccount
    BY <1>3, Zenon DEF ParseWrapperHeader
  <2>3. t.bits <= 8 * Staged(i)
    BY <1>3
  <2> HIDE DEF t, i
  <2>4. t.bits \div 8 \in Nat /\ i.pos + t.bits \div 8 <= i.end
    BY <1>1, <2>1, <2>3 DEF ReaderOK, Staged
  <2>5. ReaderOK(in')
    BY <1>1, <2>2, <2>4 DEF ReaderOK
  <2>6. DecoderOK' /\ dec'.match = dec.match
    BY <2>2 DEF DecoderInv, DecoderOK
  <2>7. HandlerMove /\ call'.pc = "account"
    BY <1>2, <2>2, LeavesForAccount DEF DecoderInv
  <2>8. QED BY <1>2, <2>5, <2>6, <2>7, QuietStep
<1>4. CASE ~good
  <2>1. in' = i /\ Fail("InvalidHeader") /\ UNCHANGED dec
    BY <1>4, Zenon DEF ParseWrapperHeader
  <2>2. DecoderOK' /\ dec'.match = dec.match
    BY <2>1 DEF DecoderInv, DecoderOK
  <2>3. HandlerMove /\ call'.pc = "idle"
    BY <1>2, <2>1, FailsWith DEF DecoderInv
  <2>4. QED BY <1>1, <1>2, <2>1, <2>2, <2>3, QuietStep
<1>5. QED BY <1>3, <1>4

LEMMA EndSegmentStep ==
  ASSUME WindowInv, DecoderInv, EndSegment
  PROVE  Handled
<1>1. ReaderOK(in')
  BY FilledReader DEF EndSegment, DecoderInv
<1>2. UNCHANGED <<bufferVars, given, acct>> /\ HistKept
  BY NotedHist DEF EndSegment, DecoderInv
<1>3. DecoderOK' /\ dec'.match = dec.match
  BY DEF EndSegment, DecoderInv, DecoderOK
<1>4. HandlerMove /\ call'.pc = "account"
  BY <1>2, LeavesForAccount DEF EndSegment, DecoderInv
<1>5. QED BY <1>1, <1>2, <1>3, <1>4, QuietStep

(* A fresh table keeps the decoder's shape.                                *)
LEMMA TableMade ==
  ASSUME DecoderOK, NEW code, NEW longest \in Nat
  PROVE  LET d == WithTable(code, longest) IN
         /\ DOMAIN d = DOMAIN dec
         /\ d.match = dec.match /\ d.lits = dec.lits /\ d.remaining = dec.remaining
         /\ DOMAIN d.table = {"code", "bits", "doubles"}
         /\ d.table.bits \in 0 .. LITLEN_TABLEBITS
<1>1. AtMost(LITLEN_TABLEBITS, longest) \in 0 .. LITLEN_TABLEBITS
  BY StreamAssumption DEF AtMost
<1>2. QED BY <1>1 DEF WithTable, DecoderOK

LEMMA BeginDynamicStep ==
  ASSUME DecoderInv, NEW r, ReaderOK(r), NEW t, BeginDynamic(r, t)
  PROVE  /\ ReaderOK(in') /\ DecoderOK' /\ dec'.match = dec.match
         /\ HandlerMove /\ call'.pc = "account"
<1>1. ReaderOK(in')
  BY ConsumedReader DEF BeginDynamic
<1>2. DecoderOK' /\ dec'.match = dec.match
  BY DEF BeginDynamic, DecoderInv, DecoderOK
<1>3. HandlerMove /\ call'.pc = "account"
  BY NotedHist, LeavesForAccount DEF BeginDynamic, DecoderInv
<1>4. QED BY <1>1, <1>2, <1>3

LEMMA BeginStaticStep ==
  ASSUME DecoderInv, NEW r, ReaderOK(r), NEW t, BeginStatic(r, t)
  PROVE  /\ ReaderOK(in') /\ DecoderOK' /\ dec'.match = dec.match
         /\ HandlerMove /\ call'.pc = "account"
<1>1. ReaderOK(in')
  BY ConsumedReader DEF BeginStatic
<1>2. DecoderOK' /\ dec'.match = dec.match
  <2>1. CASE dec.static_loaded
    BY <2>1 DEF BeginStatic, DecoderInv, DecoderOK
  <2>2. CASE ~dec.static_loaded
    <3> DEFINE w == WithTable("static", 9)
    <3>1. dec' = [w EXCEPT !.static_loaded = TRUE, !.state = "CompressedData",
                           !.final = t.final]
      BY <2>2 DEF BeginStatic
    <3>2. /\ DOMAIN w = DOMAIN dec
          /\ w.match = dec.match /\ w.lits = dec.lits /\ w.remaining = dec.remaining
          /\ DOMAIN w.table = {"code", "bits", "doubles"}
          /\ w.table.bits \in 0 .. LITLEN_TABLEBITS
      BY TableMade DEF DecoderInv
    <3> HIDE DEF w
    <3>3. QED BY <3>1, <3>2 DEF DecoderInv, DecoderOK
  <2>3. QED BY <2>1, <2>2
<1>3. HandlerMove /\ call'.pc = "account"
  BY NotedHist, LeavesForAccount DEF BeginStatic, DecoderInv
<1>4. QED BY <1>1, <1>2, <1>3

LEMMA BeginStoredStep ==
  ASSUME DecoderInv, NEW r, ReaderOK(r), NEW t, BeginStored(r, t)
  PROVE  /\ ReaderOK(in') /\ DecoderOK' /\ dec'.match = dec.match
         /\ HandlerMove /\ call'.pc \in {"account", "idle"}
<1> DEFINE aligned == Consumed(r, 3 + ((r.left - 3) % 8))
           len == TheToken(aligned, {"len"})
           good == RealBytes(aligned) >= 4 /\ HasToken(aligned, {"len"}) /\ len.ok
<1>1. ReaderOK(aligned)
  <2>1. 3 + ((r.left - 3) % 8) \in Int
    BY DEF ReaderOK
  <2>2. QED BY <2>1, ConsumedReader
<1>2. ReaderOK(Consumed(aligned, 32))
  BY <1>1, ConsumedReader
<1>3. in' = Consumed(aligned, 32) \/ in' = aligned
  BY DEF BeginStored
<1>4. HistKept
  BY NotedHist DEF BeginStored, DecoderInv
<1>5. CASE good
  <2>1. len.n \in Nat
    BY <1>5, TheTokenIsToken, TokenFields DEF DecoderInv
  <2>2. /\ dec' = [dec EXCEPT !.state = "UncompressedData", !.final = t.final,
                              !.remaining = len.n]
        /\ ToAccount
    BY <1>5, Zenon DEF BeginStored
  <2> HIDE DEF len
  <2>3. DecoderOK' /\ dec'.match = dec.match
    BY <2>1, <2>2 DEF DecoderInv, DecoderOK
  <2>4. HandlerMove /\ call'.pc = "account"
    BY <1>4, <2>2, LeavesForAccount DEF DecoderInv
  <2>5. QED BY <1>1, <1>2, <1>3, <2>3, <2>4
<1>6. CASE ~good
  <2>1. Fail("BadData") /\ dec' = [dec EXCEPT !.final = t.final]
    BY <1>6, Zenon DEF BeginStored
  <2>2. DecoderOK' /\ dec'.match = dec.match
    BY <2>1 DEF DecoderInv, DecoderOK
  <2>3. HandlerMove /\ call'.pc = "idle"
    BY <1>4, <2>1, FailsWith DEF DecoderInv
  <2>4. QED BY <1>1, <1>2, <1>3, <2>2, <2>3
<1>7. QED BY <1>5, <1>6

LEMMA BadBlockStep ==
  ASSUME DecoderInv, NEW r, ReaderOK(r), NEW final, BadBlock(r, final)
  PROVE  /\ ReaderOK(in') /\ DecoderOK' /\ dec'.match = dec.match
         /\ HandlerMove /\ call'.pc = "idle"
<1>1. ReaderOK(in')
  BY DEF BadBlock
<1>2. DecoderOK' /\ dec'.match = dec.match
  BY DEF BadBlock, DecoderInv, DecoderOK
<1>3. HandlerMove /\ call'.pc = "idle"
  BY NotedHist, FailsWith DEF BadBlock, DecoderInv
<1>4. QED BY <1>1, <1>2, <1>3

LEMMA ParseBlockHeaderStep ==
  ASSUME WindowInv, DecoderInv, ParseBlockHeader
  PROVE  Handled
<1> DEFINE r == Refilled(Filled(in))
<1>1. ReaderOK(r)
  BY FilledReader, RefilledReader DEF DecoderInv
<1>2. UNCHANGED <<bufferVars, given, acct>>
  BY DEF ParseBlockHeader
<1>3. \/ BadBlock(r, dec.final)
      \/ \E t \in Read(r, {"block"}, Phantoms.block) :
           \/ BeginDynamic(r, t)
           \/ BeginStatic(r, t)
           \/ BeginStored(r, t)
           \/ BadBlock(r, t.final)
  BY Zenon DEF ParseBlockHeader
<1> HIDE DEF r
<1>4. /\ ReaderOK(in') /\ DecoderOK' /\ dec'.match = dec.match
      /\ HandlerMove /\ call'.pc \in {"account", "idle"}
  BY <1>1, <1>3, BadBlockStep, BeginDynamicStep, BeginStaticStep, BeginStoredStep
<1>5. QED BY <1>2, <1>4, QuietStep

LEMMA ParseDynamicPrecodeLensStep ==
  ASSUME WindowInv, DecoderInv, ParseDynamicPrecodeLens
  PROVE  Handled
<1> DEFINE r == Refilled(Filled(in))
<1>1. ReaderOK(r)
  BY FilledReader, RefilledReader DEF DecoderInv
<1>2. UNCHANGED <<bufferVars, given, acct>> /\ HistKept
  BY NotedHist DEF ParseDynamicPrecodeLens, DecoderInv
<1>3. PICK t \in Read(r, {"precode"}, Phantoms.precode) :
         /\ in' = IF Overrun(r) THEN r ELSE Consumed(r, t.bits)
         /\ \/ Fail("BadData") /\ UNCHANGED dec
            \/ ToAccount /\ dec' = [dec EXCEPT !.state = "DynamicCodeLengths"]
  BY Zenon DEF ParseDynamicPrecodeLens
<1> HIDE DEF r
<1>4. t.bits \in Nat
  BY ReadGives, PhantomsAreTokens, TokenFields DEF DecoderInv
<1>5. ReaderOK(in')
  BY <1>1, <1>3, <1>4, ConsumedReader
<1>6. DecoderOK' /\ dec'.match = dec.match
  BY <1>3 DEF DecoderInv, DecoderOK
<1>7. HandlerMove /\ call'.pc \in {"idle", "account"}
  BY <1>2, <1>3, FailsWith, LeavesForAccount DEF DecoderInv
<1>8. QED BY <1>2, <1>5, <1>6, <1>7, QuietStep

LEMMA EnterCodeLengthsStep ==
  ASSUME WindowInv, DecoderInv, EnterCodeLengths
  PROVE  Handled
<1>1. ReaderOK(in')
  BY FilledReader DEF EnterCodeLengths, DecoderInv
<1>2. UNCHANGED <<bufferVars, given, acct>> /\ HistKept
  BY NotedHist DEF EnterCodeLengths, DecoderInv
<1>3. DecoderOK' /\ dec'.match = dec.match
  BY DEF EnterCodeLengths, DecoderInv, DecoderOK
<1>4. HandlerMove /\ call'.pc = "codelens"
  BY <1>2, LeavesFor DEF EnterCodeLengths, DecoderInv
<1>5. QED BY <1>1, <1>2, <1>3, <1>4, QuietStep

LEMMA ParseCodeLengthStep ==
  ASSUME WindowInv, DecoderInv, ParseCodeLength
  PROVE  Handled
<1> DEFINE r == IF in.left < 14 THEN Refilled(in) ELSE in
<1>1. ReaderOK(r)
  BY RefilledReader DEF DecoderInv
<1>2. UNCHANGED <<bufferVars, given, acct>> /\ HistKept /\ call.pc = "codelens"
  BY NotedHist DEF ParseCodeLength, DecoderInv
<1>3. PICK t \in Read(r, {"lens"}, Phantoms.lens) :
         /\ in' = IF Overrun(r) THEN r ELSE Consumed(r, t.bits)
         /\ \/ Fail("BadData") /\ UNCHANGED dec
            \/ ToAccount /\ dec' = WithTable("dynamic", t.longest)
            \/ UNCHANGED <<dec, call>>
  BY Zenon DEF ParseCodeLength
<1> HIDE DEF r
<1>4. t \in Token /\ t.kind = "lens"
  BY ReadGives, PhantomsAreTokens DEF DecoderInv
<1>5. t.bits \in Nat /\ t.longest \in Nat
  BY <1>4, TokenFields
<1>6. ReaderOK(in')
  BY <1>1, <1>3, <1>5, ConsumedReader
<1>7. DecoderOK' /\ dec'.match = dec.match
  <2>1. CASE UNCHANGED dec
    BY <2>1 DEF DecoderInv, DecoderOK
  <2>2. CASE dec' = WithTable("dynamic", t.longest)
    BY <1>5, <2>2, TableMade DEF DecoderInv, DecoderOK
  <2>3. QED BY <1>3, <2>1, <2>2
<1>8. HandlerMove /\ call'.pc \in {"idle", "account", "codelens"}
  BY <1>2, <1>3, FailsWith, LeavesForAccount, Stays DEF DecoderInv
<1>9. QED BY <1>2, <1>6, <1>7, <1>8, QuietStep

-------------------------------------------------------------------------------
(* The generic loop, and what the previous call could not write.           *)

(* A step stores n bytes, none when n is 0.                                *)
Stores(n) ==
  \/ BufferUse /\ WroteBytes(n)
  \/ n = 0 /\ UNCHANGED bufferVars

LEMMA PutStores ==
  ASSUME WindowInv, NEW n \in Nat, NEW scratch \in Nat,
         n + scratch <= OutputSpace, NEW f \in [0 .. (n - 1) -> Byte],
         IF n = 0 THEN UNCHANGED bufferVars ELSE PutBytes(f, n, scratch)
  PROVE  Stores(n)
<1>1. CASE n = 0
  BY <1>1 DEF Stores
<1>2. CASE n # 0
  <2>1. PutBytes(f, n, scratch) /\ n \in Nat \ {0}
    BY <1>2
  <2>2. BufferUse
    BY <2>1, PutIsUse
  <2>3. WriteBytes(f, n, scratch, f)
    BY <2>1 DEF PutBytes
  <2>4. QED BY <2>2, <2>3, WriteLeaves DEF Stores
<1>3. QED BY <1>1, <1>2

LEMMA CopyStores ==
  ASSUME WindowInv, NEW n \in Nat, NEW scratch \in Nat,
         n + scratch <= OutputSpace, NEW offset \in 1 .. lookback_valid,
         IF n = 0 THEN UNCHANGED bufferVars ELSE WriteMatch(offset, n, scratch)
  PROVE  Stores(n)
<1>1. CASE n = 0
  BY <1>1 DEF Stores
<1>2. CASE n # 0
  <2>1. WriteMatch(offset, n, scratch) /\ n \in Nat \ {0}
    BY <1>2
  <2>2. BufferUse
    BY <2>1, CopyIsUse
  <2>3. WriteBytes(MatchBytes(offset, n), n, scratch, PromisedBytes(offset, n))
    BY <2>1 DEF WriteMatch
  <2>4. QED BY <2>2, <2>3, WriteLeaves DEF Stores
<1>3. QED BY <1>1, <1>2

LEMMA StoringLeaves ==
  ASSUME WindowInv, NEW n \in Nat, Stores(n)
  PROVE  /\ BufferUse \/ UNCHANGED bufferVars
         /\ write_pos' = write_pos + n
         /\ Len(buffer') = Len(buffer)
         /\ lookback_valid' >= lookback_valid
         /\ lookback_valid' = AtMost(lookback_valid + n, LOOKBACK_SIZE)
         /\ lookback_valid' \in Nat
         /\ Len(produced') = Len(produced) + n
<1>1. CASE BufferUse /\ WroteBytes(n)
  <2>1. WindowInv'
    BY <1>1, UseKeepsInvariant
  <2>2. lookback_valid' \in Nat
    BY <2>1, BufferAssumption DEF WindowInv, BufferTypeOK
  <2>3. QED BY <1>1, <2>2 DEF WroteBytes
<1>2. CASE n = 0 /\ UNCHANGED bufferVars
  <2>1. UNCHANGED <<buffer, write_pos, lookback_valid, produced>>
    BY <1>2, UnchangedWindow
  <2>2. QED BY <1>2, <2>1, WindowFacts DEF AtMost
<1>3. QED BY <1>1, <1>2 DEF Stores

(* A step that stores n bytes outside the fastloop.                        *)
LEMMA StoringStep ==
  ASSUME WindowInv, DecoderInv, NEW n \in Nat, Stores(n), UNCHANGED <<given, acct>>,
         ReaderOK(in'), DecoderOK', HandlerMove, PendingReaches', TurnHolds'
  PROVE  Handled
<1>1. StreamOK'
  BY DEF DecoderInv, StreamOK, given
<1>2. DecoderInv'
  BY <1>1 DEF DecoderInv, HandlerMove
<1>3. /\ BufferUse \/ UNCHANGED bufferVars
      /\ write_pos' = write_pos + n
      /\ Len(produced') = Len(produced) + n
  BY StoringLeaves
<1>4. write_pos \in Nat /\ Len(produced) \in Nat
  BY WindowFacts
<1>5. QED BY <1>2, <1>3, <1>4 DEF Handled

LEMMA StillReaches ==
  ASSUME WindowInv, DecoderInv, NEW n \in Nat, Stores(n), dec'.match = dec.match
  PROVE  PendingReaches'
<1>1. lookback_valid' \in Nat /\ lookback_valid' >= lookback_valid /\ lookback_valid \in Nat
  BY StoringLeaves, WindowFacts
<1>2. QED BY <1>1 DEF DecoderInv, PendingReaches

LEMMA Stopping ==
  ASSUME CallOK, HistKept, NEW n, call.pc \notin {"idle", "fast"},
         StopIfFull(n) \/ ToAccount
  PROVE  HandlerMove /\ call'.pc # "fast"
<1>1. CASE ToAccount
  BY <1>1, LeavesForAccount
<1>2. CASE UNCHANGED call
  BY <1>2, Stays
<1>3. QED BY <1>1, <1>2 DEF StopIfFull

LEMMA ResumeMatchStep ==
  ASSUME WindowInv, DecoderInv, ResumeMatch
  PROVE  Handled
<1> DEFINE m == dec.match
           n == AtMost(m.length, OutputSpace)
<1>1. /\ m \in [offset : Nat, length : Nat]
      /\ m.offset \in 1 .. lookback_valid
      /\ call.pc = "dispatch"
  BY DEF ResumeMatch, DecoderInv, DecoderOK, PendingReaches, InBlock
<1>2. n \in Nat /\ n <= OutputSpace /\ n <= m.length
  BY <1>1, WindowFacts DEF AtMost
<1>3. /\ IF n = 0 THEN UNCHANGED bufferVars ELSE WriteMatch(m.offset, n, 0)
      /\ dec' = [dec EXCEPT !.match =
                   IF n < m.length THEN [m EXCEPT !.length = @ - n] ELSE NoMatch]
      /\ StopIfFull(n) \/ ToAccount
      /\ UNCHANGED <<given, in, acct, hist>>
  BY Zenon DEF ResumeMatch
<1> HIDE DEF n
<1>4. Stores(n)
  <2>1. n + 0 <= OutputSpace /\ 0 \in Nat
    BY <1>2, WindowFacts
  <2>2. QED BY <1>1, <1>2, <1>3, <2>1, CopyStores
<1>5. ReaderOK(in')
  BY <1>3 DEF DecoderInv
<1>6. dec'.match \in [offset : Nat, length : Nat] /\ dec'.match.offset \in {m.offset, 0}
  <2>1. dec'.match = IF n < m.length THEN [m EXCEPT !.length = @ - n] ELSE NoMatch
    BY <1>3 DEF DecoderInv, DecoderOK
  <2>2. m.length - n \in Nat
    BY <1>1, <1>2
  <2>3. QED BY <1>1, <2>1, <2>2 DEF NoMatch
<1>7. DecoderOK'
  BY <1>3, <1>6 DEF DecoderInv, DecoderOK
<1>8. PendingReaches'
  <2>1. dec'.match = NoMatch \/ dec'.match.offset = m.offset
    BY <1>1, <1>3 DEF DecoderInv, DecoderOK
  <2>2. lookback_valid' \in Nat /\ lookback_valid' >= lookback_valid /\ lookback_valid \in Nat
    BY <1>2, <1>4, StoringLeaves, WindowFacts
  <2>3. QED BY <1>1, <2>1, <2>2 DEF PendingReaches
<1>9. HandlerMove /\ call'.pc # "fast"
  BY <1>1, <1>3, NotedHist, Stopping DEF DecoderInv
<1>10. TurnHolds'
  BY <1>9 DEF TurnHolds
<1>11. QED BY <1>2, <1>3, <1>4, <1>5, <1>7, <1>8, <1>9, <1>10, StoringStep

LEMMA ResumeLiteralStep ==
  ASSUME WindowInv, DecoderInv, ResumeLiteral
  PROVE  Handled
<1>1. /\ dec.lits \in Seq(Byte) /\ dec.lits # <<>>
      /\ call.pc = "dispatch"
      /\ UNCHANGED <<given, in, acct, hist>>
  BY DEF ResumeLiteral, DecoderInv, DecoderOK, InBlock
<1>2. ReaderOK(in')
  BY <1>1 DEF DecoderInv
<1>3. CASE OutputSpace = 0
  <2>1. ToAccount /\ UNCHANGED <<bufferVars, dec>>
    BY <1>3 DEF ResumeLiteral
  <2>2. HandlerMove /\ call'.pc = "account"
    BY <1>1, <2>1, NotedHist, LeavesForAccount DEF DecoderInv
  <2>3. DecoderOK' /\ dec'.match = dec.match
    BY <2>1 DEF DecoderInv, DecoderOK
  <2>4. QED BY <1>1, <1>2, <2>1, <2>2, <2>3, QuietStep
<1>4. CASE OutputSpace # 0
  <2> DEFINE f == [j \in {0} |-> dec.lits[1]]
  <2>1. /\ PutBytes(f, 1, 0)
        /\ dec' = [dec EXCEPT !.lits = Tail(@)]
        /\ StopIfFull(1)
    BY <1>4 DEF ResumeLiteral
  <2>2. dec.lits[1] \in Byte /\ Tail(dec.lits) \in Seq(Byte)
    BY <1>1
  <2>3. 0 .. (1 - 1) = {0}
    OBVIOUS
  <2>4. f \in [0 .. (1 - 1) -> Byte]
    BY <2>2, <2>3
  <2> HIDE DEF f
  <2>5. 1 + 0 <= OutputSpace
    BY <1>4, WindowFacts
  <2>6. Stores(1)
    BY <2>1, <2>4, <2>5, PutStores
  <2>7. DecoderOK' /\ dec'.match = dec.match
    BY <2>1, <2>2 DEF DecoderInv, DecoderOK
  <2>8. PendingReaches'
    BY <2>6, <2>7, StillReaches
  <2>9. HandlerMove /\ call'.pc # "fast"
    BY <1>1, <2>1, NotedHist, Stopping DEF DecoderInv
  <2>10. TurnHolds'
    BY <2>9 DEF TurnHolds
  <2>11. QED BY <1>1, <1>2, <2>6, <2>7, <2>8, <2>9, <2>10, StoringStep
<1>5. QED BY <1>3, <1>4

LEMMA GenericInputReader ==
  ASSUME DecoderInv
  PROVE  ReaderOK(GenericInput)
<1> DEFINE i == Filled(in)
<1>1. ReaderOK(in) /\ ReaderOK(i)
  BY FilledReader DEF DecoderInv
<1> HIDE DEF i
<1>2. i.left - 8 * i.over \in Int
  BY <1>1 DEF ReaderOK
<1>3. ASSUME NEW left \in Int, NEW over \in Int
      PROVE  ReaderOK([i EXCEPT !.left = left, !.over = over])
  <2> DEFINE j == [i EXCEPT !.left = left, !.over = over]
  <2>1. j \in [pos : Nat, end : Nat, left : Int, over : Int]
    BY <1>1 DEF ReaderOK
  <2>2. j.pos = i.pos /\ j.end = i.end
    BY <1>1 DEF ReaderOK
  <2> HIDE DEF j
  <2>3. ReaderOK(j)
    BY <1>1, <2>1, <2>2 DEF ReaderOK
  <2>4. QED BY <2>3 DEF j
<1>4. ReaderOK([i EXCEPT !.left = i.left - 8 * i.over, !.over = 0])
  <2>1. 0 \in Int
    OBVIOUS
  <2>2. QED BY <1>2, <1>3, <2>1, Zenon
<1>5. QED BY <1>1, <1>4 DEF GenericInput, i

LEMMA GenericReaderOK == DecoderInv => ReaderOK(GenericReader)
BY GenericInputReader, RefilledReader DEF GenericReader

LEMMA GenericQuietStep ==
  ASSUME WindowInv, DecoderInv, GenericReenter \/ GenericOverrun
  PROVE  Handled
<1>1. UNCHANGED <<bufferVars, given, dec, acct>> /\ HistKept
  BY NotedHist DEF GenericReenter, GenericOverrun, DecoderInv
<1>2. ReaderOK(in')
  BY GenericInputReader, GenericReaderOK DEF GenericReenter, GenericOverrun
<1>3. DecoderOK' /\ dec'.match = dec.match
  BY <1>1 DEF DecoderInv, DecoderOK
<1>4. HandlerMove /\ call'.pc \in {"refill", "idle"}
  BY <1>1, LeavesFor, FailsWith DEF GenericReenter, GenericOverrun, DecoderInv
<1>5. QED BY <1>1, <1>2, <1>3, <1>4, QuietStep

LEMMA EndOfBlockStep ==
  ASSUME WindowInv, DecoderInv, FastEndOfBlock \/ GenericEndOfBlock
  PROVE  Handled
<1>1. UNCHANGED <<bufferVars, given, acct>> /\ HistKept
  BY NotedHist DEF FastEndOfBlock, GenericEndOfBlock, DecoderInv
<1>2. PICK r \in {in, GenericReader} :
         \E t \in Read(r, Symbols, Phantoms.symbol) :
           in' = Consumed(r, t.bits) /\ FinishBlock(in')
  BY DEF FastEndOfBlock, GenericEndOfBlock
<1>3. PICK t \in Read(r, Symbols, Phantoms.symbol) :
         in' = Consumed(r, t.bits) /\ FinishBlock(in')
  BY <1>2
<1>4. t.bits \in Nat
  BY SymbolRead, TokenFields DEF DecoderInv
<1>5. ReaderOK(r)
  BY GenericReaderOK DEF DecoderInv
<1>6. ReaderOK(in')
  BY <1>3, <1>4, <1>5, ConsumedReader
<1>7. /\ DecoderOK' /\ dec'.match = dec.match
      /\ HandlerMove /\ call'.pc \in {"idle", "account"}
  BY <1>1, <1>3, BlockFinished DEF DecoderInv
<1>8. QED BY <1>1, <1>6, <1>7, QuietStep

-------------------------------------------------------------------------------
(* The fastloop.                                                           *)

(* Until the turn ends, the room and the input its entries may need.       *)
LEMMA TurnHasRoom ==
  ASSUME WindowInv, DecoderInv, call.pc = "fast"
  PROVE  /\ MAX_MATCH + MATCH_OVERCOPY < OutputSpace
         /\ Staged(in) >= 15
         /\ in.left >= dec.table.bits
         /\ call.chain < 2 => in.left - dec.table.bits
                                >= 56 - (call.chain + 1) * dec.table.bits
<1> DEFINE width == dec.table.bits
<1>1. /\ write_pos + FASTLOOP_MAX_BYTES_WRITTEN < Len(buffer) + 2 * call.chain
      /\ Staged(in) >= FASTLOOP_MAX_BYTES_READ - 6
      /\ in.left >= 56 - call.chain * width
      /\ call.chain \in 0 .. 2
      /\ width \in 0 .. LITLEN_TABLEBITS
      /\ ReaderOK(in)
  BY DEF DecoderInv, TurnHolds, CallOK, DecoderOK
<1> HIDE DEF width
<1>2. width \in Nat /\ 3 * width <= 56
  BY <1>1, StreamAssumption
<1>3. /\ MAX_MATCH + MATCH_OVERCOPY < OutputSpace
      /\ Staged(in) >= 15
  <2>1. /\ write_pos \in Nat /\ OutputSpace \in Nat
        /\ write_pos + OutputSpace = Len(buffer)
    BY WindowFacts
  <2>2. /\ MAX_MATCH \in Nat /\ MATCH_OVERCOPY \in Nat
        /\ FASTLOOP_MAX_BYTES_WRITTEN \in Nat
        /\ FASTLOOP_MAX_BYTES_WRITTEN >= 4 + MAX_MATCH + MATCH_OVERCOPY
        /\ FASTLOOP_MAX_BYTES_READ \in Nat /\ FASTLOOP_MAX_BYTES_READ >= 21
    BY StreamAssumption
  <2>3. MAX_MATCH + MATCH_OVERCOPY < OutputSpace
    BY <1>1, <2>1, <2>2
  <2>4. Staged(in) \in Int
    BY <1>1 DEF ReaderOK, Staged
  <2>5. QED BY <1>1, <2>2, <2>3, <2>4
<1>4. in.left \in Int
  BY <1>1 DEF ReaderOK
<1>5. CASE call.chain = 0
  BY <1>1, <1>2, <1>3, <1>4, <1>5 DEF width
<1>6. CASE call.chain = 1
  BY <1>1, <1>2, <1>3, <1>4, <1>6 DEF width
<1>7. CASE call.chain = 2
  BY <1>1, <1>2, <1>3, <1>4, <1>7 DEF width
<1>8. QED BY <1>1, <1>5, <1>6, <1>7

(* real_start keeps bounding what lookback_valid bounds.                   *)
LEMMA StartStays ==
  ASSUME WindowInv, NEW n \in Nat, Stores(n), NEW start \in Int,
         lookback_valid = AtMost(write_pos - start, LOOKBACK_SIZE)
  PROVE  lookback_valid' = AtMost(write_pos' - start, LOOKBACK_SIZE)
<1>1. /\ write_pos' = write_pos + n
      /\ lookback_valid' = AtMost(lookback_valid + n, LOOKBACK_SIZE)
  BY StoringLeaves
<1>2. write_pos \in Nat /\ lookback_valid \in Nat /\ LOOKBACK_SIZE \in Nat
  BY WindowFacts, BufferAssumption
<1>3. CASE write_pos - start <= LOOKBACK_SIZE
  <2>1. lookback_valid + n = write_pos' - start
    BY <1>1, <1>2, <1>3 DEF AtMost
  <2>2. QED BY <1>1, <2>1
<1>4. CASE ~(write_pos - start <= LOOKBACK_SIZE)
  <2>1. lookback_valid = LOOKBACK_SIZE
    BY <1>4 DEF AtMost
  <2>2. QED BY <1>1, <1>2, <1>4, <2>1 DEF AtMost
<1>5. QED BY <1>3, <1>4

LEMMA TurnTaken ==
  ASSUME WindowInv, DecoderInv, call.pc = "fast", HistKept, DecoderOK',
         NEW i, ReaderOK(i), Staged(i) >= 7,
         NEW n \in Nat, Stores(n), FastTurn(i, n)
  PROVE  ReaderOK(in') /\ HandlerMove /\ TurnHolds'
<1> DEFINE r == RefilledFast(i)
<1>1. /\ ReaderOK(r) /\ r.left >= 56
  BY RefilledFastReader
<1>2. /\ in' = r
      /\ call' = [call EXCEPT !.chain = 0,
                              !.pc = IF FastOk(r, write_pos + n) THEN "fast"
                                                                 ELSE "generic"]
  BY DEF FastTurn
<1> HIDE DEF r
<1>3. /\ DOMAIN call = {"pc", "result", "prev", "chain", "start"}
      /\ call.prev \in Int /\ call.start \in Int
  BY DEF DecoderInv, CallOK
<1>4. /\ DOMAIN call' = {"pc", "result", "prev", "chain", "start"}
      /\ call'.chain = 0 /\ call'.start = call.start
      /\ call'.prev = call.prev /\ call'.result = call.result
      /\ call'.pc = IF FastOk(r, write_pos + n) THEN "fast" ELSE "generic"
  BY <1>2, <1>3
<1>5. HandlerMove
  BY <1>3, <1>4, HistKept DEF HandlerMove, CallOK, HistKept, HistOK, DecoderInv
<1>6. TurnHolds'
  <2> SUFFICES ASSUME call'.pc = "fast"
               PROVE  /\ lookback_valid' = AtMost(write_pos' - call'.start, LOOKBACK_SIZE)
                      /\ write_pos' + FASTLOOP_MAX_BYTES_WRITTEN
                           < Len(buffer') + 2 * call'.chain
                      /\ Staged(in') >= FASTLOOP_MAX_BYTES_READ - 6
                      /\ in'.left >= 56 - call'.chain * dec'.table.bits
    BY DEF TurnHolds, Staged
  <2>1. FastOk(r, write_pos + n)
    BY <1>4
  <2>2. lookback_valid' = AtMost(write_pos' - call'.start, LOOKBACK_SIZE)
    BY <1>3, <1>4, StartStays DEF DecoderInv, TurnHolds
  <2>3. write_pos' + FASTLOOP_MAX_BYTES_WRITTEN < Len(buffer') + 2 * call'.chain
    BY <1>4, <2>1, StoringLeaves, WindowFacts DEF FastOk
  <2>4. Staged(in') >= FASTLOOP_MAX_BYTES_READ - 6
    <3>1. Staged(in') > FASTLOOP_MAX_BYTES_READ
      BY <1>2, <2>1 DEF FastOk
    <3>2. Staged(in') \in Int
      BY <1>1, <1>2 DEF ReaderOK, Staged
    <3>3. QED BY <3>1, <3>2, StreamAssumption
  <2>5. in'.left >= 56 - call'.chain * dec'.table.bits
    <3>1. 56 - 0 * dec'.table.bits = 56
      BY DEF DecoderOK
    <3>2. QED BY <1>1, <1>2, <1>4, <3>1
  <2>6. QED BY <2>2, <2>3, <2>4, <2>5
<1>7. QED BY <1>1, <1>2, <1>5, <1>6

LEMMA EnterLoopsStep ==
  ASSUME WindowInv, DecoderInv, EnterLoops
  PROVE  Handled
<1> DEFINE i == IF Staged(in) < REFILL_BELOW THEN Filled(in) ELSE in
<1>1. ReaderOK(i)
  BY FilledReader DEF DecoderInv
<1>2. /\ UNCHANGED <<bufferVars, given, acct, hist>>
      /\ call.pc # "idle"
      /\ \/ dec' = dec
         \/ dec' = [dec EXCEPT !.table.doubles = TRUE, !.doubles_pending = FALSE,
                               !.litlen_doubles = TRUE]
      /\ IF FastOk(i, write_pos)
           THEN /\ in' = RefilledFast(i)
                /\ call' = [call EXCEPT !.pc = "fast", !.chain = 0, !.start = RealStart]
           ELSE in' = i /\ ToPc("generic")
  BY DEF EnterLoops, AtRefill, InBlock
<1> HIDE DEF i
<1>3. HistKept
  BY <1>2, NotedHist DEF DecoderInv
<1>4. DecoderOK' /\ dec'.match = dec.match
  <2>1. CASE dec' = dec
    BY <2>1 DEF DecoderInv, DecoderOK
  <2>2. CASE dec' = [dec EXCEPT !.table.doubles = TRUE, !.doubles_pending = FALSE,
                                !.litlen_doubles = TRUE]
    BY <2>2 DEF DecoderInv, DecoderOK
  <2>3. QED BY <1>2, <2>1, <2>2
<1>5. CASE ~FastOk(i, write_pos)
  <2>1. in' = i /\ ToPc("generic")
    BY <1>2, <1>5
  <2>2. HandlerMove /\ call'.pc = "generic"
    BY <1>3, <2>1, LeavesFor DEF DecoderInv
  <2>3. QED BY <1>1, <1>2, <1>4, <2>1, <2>2, QuietStep
<1>6. CASE FastOk(i, write_pos)
  <2>1. /\ in' = RefilledFast(i)
        /\ call' = [call EXCEPT !.pc = "fast", !.chain = 0, !.start = RealStart]
    BY <1>2, <1>6
  <2>2. Staged(i) > FASTLOOP_MAX_BYTES_READ /\ Staged(i) \in Int
    BY <1>1, <1>6 DEF FastOk, ReaderOK, Staged
  <2>3. Staged(i) >= 7
    BY <2>2, StreamAssumption
  <2>4. /\ ReaderOK(in') /\ in'.left >= 56
        /\ Staged(in') >= Staged(i) - 7
    BY <1>1, <2>1, <2>3, RefilledFastReader
  <2>5. /\ DOMAIN call = {"pc", "result", "prev", "chain", "start"}
        /\ call.prev \in Int
    BY DEF DecoderInv, CallOK
  <2>6. /\ DOMAIN call' = {"pc", "result", "prev", "chain", "start"}
        /\ call'.pc = "fast" /\ call'.chain = 0 /\ call'.start = RealStart
        /\ call'.prev = call.prev /\ call'.result = call.result
    BY <2>1, <2>5
  <2>7. RealStart \in Int /\ write_pos - RealStart = lookback_valid
    BY WindowFacts DEF RealStart
  <2>8. HandlerMove
    BY <1>3, <2>5, <2>6, <2>7 DEF HandlerMove, CallOK, HistKept, HistOK, DecoderInv
  <2>9. UNCHANGED <<buffer, write_pos, lookback_valid>>
    BY <1>2, UnchangedWindow
  <2>10. TurnHolds'
    <3>1. lookback_valid' = AtMost(write_pos' - call'.start, LOOKBACK_SIZE)
      BY <2>6, <2>7, <2>9, WindowFacts DEF AtMost
    <3>2. write_pos' + FASTLOOP_MAX_BYTES_WRITTEN < Len(buffer') + 2 * call'.chain
      BY <1>6, <2>6, <2>9, WindowFacts DEF FastOk
    <3>3. Staged(in') \in Int
      BY <2>4 DEF ReaderOK, Staged
    <3>4. Staged(in') >= FASTLOOP_MAX_BYTES_READ - 6
      BY <2>2, <2>4, <3>3, StreamAssumption
    <3>5. 56 - 0 * dec'.table.bits = 56
      BY <1>4 DEF DecoderOK
    <3>6. in'.left >= 56 - call'.chain * dec'.table.bits
      BY <2>4, <2>6, <3>5
    <3>7. QED BY <3>1, <3>2, <3>4, <3>6 DEF TurnHolds, Staged
  <2>11. Stores(0)
    BY <1>2 DEF Stores
  <2>12. PendingReaches'
    BY <1>4, <2>11, StillReaches
  <2>13. QED BY <1>2, <1>4, <2>4, <2>8, <2>10, <2>11, <2>12, StoringStep
<1>7. QED BY <1>5, <1>6

LEMMA FastLiteralStep ==
  ASSUME WindowInv, DecoderInv, FastLiteral
  PROVE  Handled
<1>1. /\ UNCHANGED <<given, dec, acct>> /\ HistKept
      /\ call.pc = "fast"
  BY NotedHist DEF FastLiteral, InBlock, DecoderInv
<1>2. PICK t \in Read(in, Symbols, Phantoms.symbol) :
        /\ t.kind = "lit"
        /\ LET e == Entry(in, t)
               n == IF dec.litlen_doubles /\ InMainTable(t) THEN Len(e.vals) ELSE 1
               scratch == IF dec.litlen_doubles /\ InMainTable(t) THEN 2 - n ELSE 0
               i == Consumed(in, e.bits)
           IN  /\ PutBytes(Cells(e.vals, n), n, scratch)
               /\ IF call.chain < 2 /\ InMainTable(t)
                    THEN in' = i /\ call' = [call EXCEPT !.chain = @ + 1]
                    ELSE FastTurn(i, n)
  BY Zenon DEF FastLiteral
<1> DEFINE e == Entry(in, t)
           n == IF dec.litlen_doubles /\ InMainTable(t) THEN Len(e.vals) ELSE 1
           scratch == IF dec.litlen_doubles /\ InMainTable(t) THEN 2 - n ELSE 0
           i == Consumed(in, e.bits)
<1>3. /\ PutBytes(Cells(e.vals, n), n, scratch)
      /\ IF call.chain < 2 /\ InMainTable(t)
           THEN in' = i /\ call' = [call EXCEPT !.chain = @ + 1]
           ELSE FastTurn(i, n)
  BY <1>2, Zenon
<1>4. t \in Token
  BY SymbolRead DEF DecoderInv
<1>5. /\ e.bits \in Nat /\ e.vals \in Seq(Byte) /\ Len(e.vals) \in 1 .. 2
      /\ InMainTable(t) => e.bits <= dec.table.bits
  BY <1>2, <1>4, EntryFacts DEF DecoderInv
<1> HIDE DEF e
<1>6. n \in 1 .. Len(e.vals) /\ scratch \in Nat /\ n + scratch <= 2
  <2> DEFINE m == Len(e.vals)
             both == dec.litlen_doubles /\ InMainTable(t)
  <2>1. m \in 1 .. 2
    BY <1>5
  <2>2. n = (IF both THEN m ELSE 1) /\ scratch = (IF both THEN 2 - n ELSE 0)
    OBVIOUS
  <2> HIDE DEF m, both, n, scratch
  <2>3. n \in 1 .. m /\ scratch \in Nat /\ n + scratch <= 2
    <3>1. CASE both
      BY <2>1, <2>2, <3>1
    <3>2. CASE ~both
      BY <2>1, <2>2, <3>2
    <3>3. QED BY <3>1, <3>2
  <2>4. QED BY <2>3 DEF m
<1> HIDE DEF n, scratch
<1>7. n \in Nat /\ n <= 2 /\ n # 0 /\ n \in 0 .. Len(e.vals)
  BY <1>5, <1>6
<1>8. n + scratch <= OutputSpace
  <2>1. MAX_MATCH + MATCH_OVERCOPY < OutputSpace /\ OutputSpace \in Nat
    BY <1>1, TurnHasRoom, WindowFacts
  <2>2. 2 <= OutputSpace
    BY <2>1, StreamAssumption
  <2>3. QED BY <1>6, <1>7, <2>1, <2>2
<1>9. Cells(e.vals, n) \in [0 .. (n - 1) -> Byte]
  BY <1>5, <1>7, CellsAreBytes
<1>10. Stores(n)
  BY <1>3, <1>6, <1>7, <1>8, <1>9, PutStores
<1>11. /\ ReaderOK(i) /\ i.left = in.left - e.bits
       /\ i.pos = in.pos /\ i.end = in.end
  <2>1. e.bits \in Int /\ ReaderOK(in)
    BY <1>5 DEF DecoderInv
  <2>2. QED BY <2>1, ConsumedReader
<1> HIDE DEF i
<1>12. DecoderOK' /\ dec'.match = dec.match
  BY <1>1 DEF DecoderInv, DecoderOK
<1>13. ReaderOK(in') /\ HandlerMove /\ TurnHolds'
  <2>1. CASE call.chain < 2 /\ InMainTable(t)
    <3>1. in' = i /\ call' = [call EXCEPT !.chain = @ + 1]
      BY <1>3, <2>1
    <3>2. /\ DOMAIN call = {"pc", "result", "prev", "chain", "start"}
          /\ call.prev \in Int /\ call.chain \in 0 .. 2 /\ call.start \in Int
      BY DEF DecoderInv, CallOK
    <3>3. /\ DOMAIN call' = {"pc", "result", "prev", "chain", "start"}
          /\ call'.pc = "fast" /\ call'.chain = call.chain + 1
          /\ call'.start = call.start /\ call'.prev = call.prev
          /\ call'.result = call.result
      BY <1>1, <3>1, <3>2
    <3>4. HandlerMove
      BY <1>1, <2>1, <3>2, <3>3 DEF HandlerMove, CallOK, HistKept, HistOK, DecoderInv
    <3>5. TurnHolds'
      <4>1. lookback_valid' = AtMost(write_pos' - call'.start, LOOKBACK_SIZE)
        BY <1>1, <1>7, <1>10, <3>2, <3>3, StartStays DEF DecoderInv, TurnHolds
      <4>2. write_pos' + FASTLOOP_MAX_BYTES_WRITTEN < Len(buffer') + 2 * call'.chain
        <5>1. /\ write_pos + FASTLOOP_MAX_BYTES_WRITTEN < Len(buffer) + 2 * call.chain
              /\ write_pos \in Nat /\ Len(buffer) \in Nat
          BY <1>1, WindowFacts DEF DecoderInv, TurnHolds
        <5>2. write_pos' = write_pos + n /\ Len(buffer') = Len(buffer)
          BY <1>7, <1>10, StoringLeaves
        <5>3. FASTLOOP_MAX_BYTES_WRITTEN \in Nat
          BY StreamAssumption
        <5>4. 2 * call'.chain = 2 * call.chain + 2
          BY <3>2, <3>3
        <5>5. 2 * call.chain \in Nat
          BY <3>2
        <5>6. QED BY <1>7, <5>1, <5>2, <5>3, <5>4, <5>5
      <4>3. Staged(in') >= FASTLOOP_MAX_BYTES_READ - 6
        BY <1>1, <1>11, <3>1 DEF DecoderInv, TurnHolds, Staged
      <4>4. in'.left >= 56 - call'.chain * dec'.table.bits
        <5>1. in.left - dec.table.bits >= 56 - (call.chain + 1) * dec.table.bits
          BY <1>1, <2>1, TurnHasRoom
        <5>2. /\ in'.left = in.left - e.bits /\ e.bits <= dec.table.bits
              /\ call'.chain * dec'.table.bits = (call.chain + 1) * dec.table.bits
          BY <1>1, <1>5, <1>11, <2>1, <3>1, <3>3
        <5>3. /\ (call.chain + 1) * dec.table.bits \in Int /\ in.left \in Int
              /\ dec.table.bits \in Int
          BY <3>2 DEF DecoderInv, DecoderOK, ReaderOK
        <5>4. QED BY <1>5, <5>1, <5>2, <5>3
      <4>5. QED BY <4>1, <4>2, <4>3, <4>4 DEF TurnHolds, Staged
    <3>6. QED BY <1>11, <3>1, <3>4, <3>5
  <2>2. CASE ~(call.chain < 2 /\ InMainTable(t))
    <3>1. FastTurn(i, n)
      BY <1>3, <2>2
    <3>2. Staged(i) >= 7
      BY <1>1, <1>11, TurnHasRoom DEF ReaderOK, Staged
    <3>3. QED BY <1>1, <1>7, <1>10, <1>11, <1>12, <3>1, <3>2, TurnTaken
  <2>3. QED BY <2>1, <2>2
<1>14. PendingReaches'
  BY <1>7, <1>10, <1>12, StillReaches
<1>15. QED BY <1>1, <1>7, <1>10, <1>12, <1>13, <1>14, StoringStep

(* The reader a match's offset is read from: its bits may need a refill.   *)
LEMMA OffsetReader ==
  ASSUME DecoderInv, Staged(in) >= 15, NEW bits \in Nat, NEW obits \in Nat
  PROVE  LET len == Consumed(in, bits)
             mid == IF len.left < 28 + dec.table.bits THEN RefilledFast(len) ELSE len
             i == Consumed(mid, obits)
         IN  ReaderOK(i) /\ Staged(i) >= 7
<1> DEFINE len == Consumed(in, bits)
           mid == IF len.left < 28 + dec.table.bits THEN RefilledFast(len) ELSE len
           i == Consumed(mid, obits)
<1>1. /\ ReaderOK(len) /\ len.pos = in.pos /\ len.end = in.end
  BY ConsumedReader DEF DecoderInv
<1> HIDE DEF len
<1>2. Staged(len) >= 15 /\ Staged(len) \in Int
  BY <1>1 DEF Staged, ReaderOK
<1>3. ReaderOK(mid) /\ Staged(mid) >= 8
  <2>1. CASE mid = len
    BY <1>1, <1>2, <2>1
  <2>2. CASE mid = RefilledFast(len)
    <3>1. ReaderOK(mid) /\ Staged(mid) >= Staged(len) - 7
      BY <1>1, <1>2, <2>2, RefilledFastReader
    <3>2. Staged(mid) \in Int
      BY <3>1 DEF Staged, ReaderOK
    <3> HIDE DEF mid
    <3>3. QED BY <1>2, <3>1, <3>2
  <2>3. QED BY <2>1, <2>2
<1> HIDE DEF mid
<1>4. ReaderOK(i) /\ i.pos = mid.pos /\ i.end = mid.end
  BY <1>3, ConsumedReader
<1> HIDE DEF i
<1>5. Staged(i) >= 7
  BY <1>3, <1>4 DEF Staged, ReaderOK
<1>6. QED BY <1>4, <1>5 DEF i, mid, len

LEMMA FastMatchStep ==
  ASSUME WindowInv, DecoderInv, FastMatch
  PROVE  Handled
<1>1. /\ UNCHANGED <<given, dec, acct>> /\ HistKept
      /\ call.pc = "fast"
  BY NotedHist DEF FastMatch, InBlock, DecoderInv
<1>2. PICK t \in Read(in, Symbols, Phantoms.symbol) :
        /\ t.kind = "match"
        /\ LET len == Consumed(in, t.bits)
               mid == IF len.left < 28 + dec.table.bits THEN RefilledFast(len)
                                                          ELSE len
               i == Consumed(mid, t.obits)
           IN  IF t.offset > write_pos - call.start
                 THEN in' = i /\ Fail("BadData") /\ UNCHANGED bufferVars
                 ELSE /\ WriteMatch(t.offset, t.length, MATCH_OVERCOPY)
                      /\ FastTurn(i, t.length)
  BY Zenon DEF FastMatch
<1> DEFINE len == Consumed(in, t.bits)
           mid == IF len.left < 28 + dec.table.bits THEN RefilledFast(len) ELSE len
           i == Consumed(mid, t.obits)
<1>3. IF t.offset > write_pos - call.start
        THEN in' = i /\ Fail("BadData") /\ UNCHANGED bufferVars
        ELSE /\ WriteMatch(t.offset, t.length, MATCH_OVERCOPY)
             /\ FastTurn(i, t.length)
  BY <1>2, Zenon
<1>4. t \in Token
  BY SymbolRead DEF DecoderInv
<1>5. /\ t.bits \in Nat /\ t.obits \in Nat
      /\ t.offset \in 1 .. LOOKBACK_SIZE /\ t.length \in 1 .. MAX_MATCH
  BY <1>2, <1>4, TokenFields
<1>6. Staged(in) >= 15 /\ MAX_MATCH + MATCH_OVERCOPY < OutputSpace
  BY <1>1, TurnHasRoom
<1>7. ReaderOK(i) /\ Staged(i) >= 7
  BY <1>5, <1>6, OffsetReader
<1> HIDE DEF i
<1>8. DecoderOK' /\ dec'.match = dec.match
  BY <1>1 DEF DecoderInv, DecoderOK
<1>9. CASE t.offset > write_pos - call.start
  <2>1. in' = i /\ Fail("BadData") /\ UNCHANGED bufferVars
    BY <1>3, <1>9
  <2>2. HandlerMove /\ call'.pc = "idle"
    BY <1>1, <2>1, FailsWith DEF DecoderInv
  <2>3. QED BY <1>1, <1>7, <1>8, <2>1, <2>2, QuietStep
<1>10. CASE ~(t.offset > write_pos - call.start)
  <2>1. /\ WriteMatch(t.offset, t.length, MATCH_OVERCOPY)
        /\ FastTurn(i, t.length)
    BY <1>3, <1>10
  <2>2. t.offset \in 1 .. lookback_valid
    <3>1. /\ lookback_valid = AtMost(write_pos - call.start, LOOKBACK_SIZE)
          /\ call.start \in Int /\ write_pos \in Nat /\ LOOKBACK_SIZE \in Nat
      BY <1>1, WindowFacts, BufferAssumption DEF DecoderInv, TurnHolds, CallOK
    <3>2. QED BY <1>5, <1>10, <3>1 DEF AtMost
  <2>3. t.length \in Nat /\ t.length # 0 /\ MATCH_OVERCOPY \in Nat
        /\ t.length + MATCH_OVERCOPY <= OutputSpace
    <3>1. MAX_MATCH \in Nat /\ MATCH_OVERCOPY \in Nat /\ OutputSpace \in Nat
      BY WindowFacts, StreamAssumption
    <3>2. QED BY <1>5, <1>6, <3>1
  <2>4. Stores(t.length)
    BY <2>1, <2>2, <2>3, CopyStores
  <2>5. ReaderOK(in') /\ HandlerMove /\ TurnHolds'
    BY <1>1, <1>7, <1>8, <2>1, <2>3, <2>4, TurnTaken
  <2>6. PendingReaches'
    BY <1>8, <2>3, <2>4, StillReaches
  <2>7. QED BY <1>1, <1>8, <2>3, <2>4, <2>5, <2>6, StoringStep
<1>11. QED BY <1>9, <1>10

-------------------------------------------------------------------------------
(* The generic loop's symbols.                                             *)

LEMMA GenericLiteralStep ==
  ASSUME WindowInv, DecoderInv, GenericLiteral
  PROVE  Handled
<1>1. /\ UNCHANGED <<given, acct>> /\ HistKept
      /\ call.pc = "generic"
  BY NotedHist DEF GenericLiteral, GenericReady, InBlock, DecoderInv
<1>2. PICK t \in Read(GenericReader, Symbols, Phantoms.symbol) :
        /\ t.kind = "lit"
        /\ LET e == Entry(GenericReader, t)
               n == AtMost(Len(e.vals), OutputSpace)
           IN  /\ in' = Consumed(GenericReader, e.bits)
               /\ IF n = 0 THEN UNCHANGED bufferVars
                           ELSE PutBytes(Cells(e.vals, n), n, 0)
               /\ dec' = [dec EXCEPT !.lits = SubSeq(e.vals, n + 1, Len(e.vals))]
               /\ IF n < Len(e.vals) THEN ToAccount ELSE StopIfFull(n)
  BY Zenon DEF GenericLiteral
<1> DEFINE e == Entry(GenericReader, t)
           n == AtMost(Len(e.vals), OutputSpace)
<1>3. /\ in' = Consumed(GenericReader, e.bits)
      /\ IF n = 0 THEN UNCHANGED bufferVars ELSE PutBytes(Cells(e.vals, n), n, 0)
      /\ dec' = [dec EXCEPT !.lits = SubSeq(e.vals, n + 1, Len(e.vals))]
      /\ StopIfFull(n) \/ ToAccount
  BY <1>2, Zenon
<1>4. t \in Token
  BY SymbolRead DEF DecoderInv
<1>5. e.bits \in Nat /\ e.vals \in Seq(Byte) /\ Len(e.vals) \in 1 .. 2
  BY <1>2, <1>4, EntryFacts DEF DecoderInv
<1> HIDE DEF e
<1>6. n \in 0 .. Len(e.vals) /\ n \in Nat /\ n + 0 <= OutputSpace
  BY <1>5, WindowFacts DEF AtMost
<1> HIDE DEF n
<1>7. ReaderOK(in')
  BY <1>3, <1>5, GenericReaderOK, ConsumedReader
<1>8. Cells(e.vals, n) \in [0 .. (n - 1) -> Byte]
  BY <1>5, <1>6, CellsAreBytes
<1>9. Stores(n)
  BY <1>3, <1>6, <1>8, PutStores
<1>10. SubSeq(e.vals, n + 1, Len(e.vals)) \in Seq(Byte)
  BY <1>5, <1>6
<1>11. DecoderOK' /\ dec'.match = dec.match
  BY <1>3, <1>10 DEF DecoderInv, DecoderOK
<1>12. PendingReaches'
  BY <1>6, <1>9, <1>11, StillReaches
<1>13. HandlerMove /\ call'.pc # "fast"
  BY <1>1, <1>3, Stopping DEF DecoderInv
<1>14. TurnHolds'
  BY <1>13 DEF TurnHolds
<1>15. QED BY <1>1, <1>6, <1>7, <1>9, <1>11, <1>12, <1>13, <1>14, StoringStep

LEMMA GenericMatchStep ==
  ASSUME WindowInv, DecoderInv, GenericMatch
  PROVE  Handled
<1>1. /\ UNCHANGED <<given, acct>> /\ HistKept
      /\ call.pc = "generic"
  BY NotedHist DEF GenericMatch, GenericReady, InBlock, DecoderInv
<1>2. PICK t \in Read(GenericReader, Symbols, Phantoms.symbol) :
        /\ t.kind = "match"
        /\ in' = Consumed(GenericReader, t.bits + t.obits)
        /\ LET n == AtMost(t.length, OutputSpace) IN
             IF t.offset > lookback_valid
               THEN Fail("BadData") /\ UNCHANGED <<bufferVars, dec>>
               ELSE /\ IF n = 0 THEN UNCHANGED bufferVars
                                ELSE WriteMatch(t.offset, n, 0)
                    /\ dec' = IF n < t.length
                                THEN [dec EXCEPT !.match = [offset |-> t.offset,
                                                            length |-> t.length - n]]
                                ELSE dec
                    /\ IF n < t.length THEN ToAccount ELSE StopIfFull(n)
  BY Zenon DEF GenericMatch
<1>3. t \in Token
  BY SymbolRead DEF DecoderInv
<1>4. /\ t.bits \in Nat /\ t.obits \in Nat
      /\ t.offset \in 1 .. LOOKBACK_SIZE /\ t.length \in 1 .. MAX_MATCH
  BY <1>2, <1>3, TokenFields
<1>5. ReaderOK(in')
  <2>1. in' = Consumed(GenericReader, t.bits + t.obits) /\ t.bits + t.obits \in Int
    BY <1>2, <1>4
  <2>2. QED BY <2>1, GenericReaderOK, ConsumedReader
<1>6. CASE t.offset > lookback_valid
  <2>1. Fail("BadData") /\ UNCHANGED <<bufferVars, dec>>
    BY <1>2, <1>6, Zenon
  <2>2. HandlerMove /\ call'.pc = "idle"
    BY <1>1, <2>1, FailsWith DEF DecoderInv
  <2>3. DecoderOK' /\ dec'.match = dec.match
    BY <2>1 DEF DecoderInv, DecoderOK
  <2>4. QED BY <1>1, <1>5, <2>1, <2>2, <2>3, QuietStep
<1>7. CASE ~(t.offset > lookback_valid)
  <2> DEFINE n == AtMost(t.length, OutputSpace)
             rest == [offset |-> t.offset, length |-> t.length - n]
  <2>1. /\ IF n = 0 THEN UNCHANGED bufferVars ELSE WriteMatch(t.offset, n, 0)
        /\ dec' = dec \/ (dec' = [dec EXCEPT !.match = rest] /\ n < t.length)
        /\ StopIfFull(n) \/ ToAccount
    BY <1>2, <1>7, Zenon
  <2>2. n \in Nat /\ n + 0 <= OutputSpace /\ n <= t.length
    BY <1>4, StreamAssumption, WindowFacts DEF AtMost
  <2> HIDE DEF n
  <2>3. t.offset \in 1 .. lookback_valid
    BY <1>4, <1>7, WindowFacts
  <2>4. Stores(n)
    BY <2>1, <2>2, <2>3, CopyStores
  <2>5. t.length - n \in Nat /\ t.offset \in Nat
    BY <1>4, <2>2, BufferAssumption, StreamAssumption
  <2>6. rest \in [offset : Nat, length : Nat] /\ rest.offset = t.offset
    BY <2>5
  <2> HIDE DEF rest
  <2>7. DecoderOK' /\ (dec'.match = dec.match \/ dec'.match = rest)
    BY <2>1, <2>6 DEF DecoderInv, DecoderOK
  <2>8. PendingReaches'
    <3>1. CASE dec'.match = dec.match
      BY <2>2, <2>4, <3>1, StillReaches
    <3>2. CASE dec'.match = rest
      <4>1. /\ lookback_valid' \in Nat /\ lookback_valid' >= lookback_valid
            /\ lookback_valid \in Nat
        BY <2>2, <2>4, StoringLeaves, WindowFacts
      <4>2. QED BY <2>3, <2>6, <3>2, <4>1 DEF PendingReaches
    <3>3. QED BY <2>7, <3>1, <3>2
  <2>9. HandlerMove /\ call'.pc # "fast"
    BY <1>1, <2>1, Stopping DEF DecoderInv
  <2>10. TurnHolds'
    BY <2>9 DEF TurnHolds
  <2>11. QED BY <1>1, <1>5, <2>2, <2>4, <2>7, <2>8, <2>9, <2>10, StoringStep
<1>8. QED BY <1>6, <1>7

-------------------------------------------------------------------------------
(* Stored blocks and the footer.                                           *)

LEMMA EmptiedReader ==
  ASSUME NEW i, ReaderOK(i)
  PROVE  /\ ReaderOK(Emptied(i))
         /\ Emptied(i).pos = i.pos
         /\ Emptied(i).end = i.end
<1>1. ASSUME NEW left \in Int, NEW over \in Int
      PROVE  ReaderOK([i EXCEPT !.left = left, !.over = over])
  <2> DEFINE j == [i EXCEPT !.left = left, !.over = over]
  <2>1. j \in [pos : Nat, end : Nat, left : Int, over : Int]
    BY DEF ReaderOK
  <2>2. j.pos = i.pos /\ j.end = i.end
    BY DEF ReaderOK
  <2> HIDE DEF j
  <2>3. ReaderOK(j)
    BY <2>1, <2>2 DEF ReaderOK
  <2>4. QED BY <2>3 DEF j
<1>2. 0 \in Int
  OBVIOUS
<1>3. ReaderOK([i EXCEPT !.left = 0, !.over = 0])
  BY <1>1, <1>2, Zenon
<1>4. Emptied(i).pos = i.pos /\ Emptied(i).end = i.end
  BY DEF Emptied, ReaderOK
<1>5. QED BY <1>3, <1>4 DEF Emptied

LEMMA DrainFacts ==
  ASSUME WindowInv, DecoderInv
  PROVE  /\ Drained \in Nat
         /\ Drained <= OutputSpace
         /\ StillWanted \in Nat
         /\ ReaderOK(AfterDrain)
<1>1. /\ dec.remaining \in Nat /\ OutputSpace \in Nat
      /\ RealBytes(in) \in Nat
      /\ ReaderOK(in)
  BY RealBytesNat, WindowFacts DEF DecoderInv, DecoderOK
<1>2. Drained \in Nat /\ Drained <= OutputSpace /\ Drained <= dec.remaining
  BY <1>1 DEF Drained, AtMost
<1>3. ReaderOK(Consumed(in, 8 * Drained))
  BY <1>1, <1>2, ConsumedReader
<1>4. ReaderOK(AfterDrain)
  BY <1>3, EmptiedReader DEF AfterDrain
<1>5. QED BY <1>1, <1>2, <1>4 DEF StillWanted

LEMMA BytesStored ==
  ASSUME WindowInv, DecoderInv, NEW n \in Nat, n <= OutputSpace, StoreBytes(n)
  PROVE  Stores(n)
<1> DEFINE f == [j \in 0 .. (n - 1) |-> ByteAt(FirstByte + j)]
<1>1. f \in [0 .. (n - 1) -> Byte]
  BY StoredByte DEF DecoderInv
<1>2. IF n = 0 THEN UNCHANGED bufferVars ELSE PutBytes(f, n, 0)
  BY DEF StoreBytes
<1> HIDE DEF f
<1>3. n + 0 <= OutputSpace /\ 0 \in Nat
  OBVIOUS
<1>4. QED BY <1>1, <1>2, <1>3, PutStores

LEMMA CopyUncompressedStep ==
  ASSUME WindowInv, DecoderInv, CopyUncompressed
  PROVE  Handled
<1> DEFINE i == IF CopyNeedsInput /\ Staged(AfterDrain) = 0 THEN Filled(AfterDrain)
                                                            ELSE AfterDrain
           fromStaging == IF CopyNeedsInput
                            THEN AtMost(AtMost(Staged(i), StillWanted),
                                        OutputSpace - Drained)
                            ELSE 0
           after == [i EXCEPT !.pos = @ + fromStaging]
           left == StillWanted - fromStaging
<1>1. /\ UNCHANGED <<given, acct>> /\ HistKept
      /\ call.pc = "dispatch"
      /\ in' = after
      /\ StoreBytes(Drained + fromStaging)
      /\ \/ Fail("BadData") /\ UNCHANGED dec
         \/ FinishBlock(after)
         \/ dec' = [dec EXCEPT !.remaining = left] /\ ToAccount
  BY NotedHist, Zenon DEF CopyUncompressed, DecoderInv
<1>2. /\ Drained \in Nat /\ Drained <= OutputSpace /\ StillWanted \in Nat
      /\ OutputSpace \in Nat
      /\ ReaderOK(AfterDrain)
  BY DrainFacts, WindowFacts
<1>3. ReaderOK(i)
  BY <1>2, FilledReader DEF DecoderInv
<1> HIDE DEF i
<1>4. Staged(i) \in Nat
  BY <1>3 DEF ReaderOK, Staged
<1>5. /\ fromStaging \in Nat /\ fromStaging <= Staged(i)
      /\ fromStaging <= StillWanted
      /\ Drained + fromStaging <= OutputSpace
  <2>1. CASE ~CopyNeedsInput
    BY <1>2, <1>4, <2>1
  <2>2. CASE CopyNeedsInput
    <3>1. OutputSpace - Drained \in Nat
      BY <1>2
    <3>2. fromStaging = AtMost(AtMost(Staged(i), StillWanted), OutputSpace - Drained)
      BY <2>2
    <3> HIDE DEF fromStaging
    <3>3. QED BY <1>2, <1>4, <3>1, <3>2 DEF AtMost
  <2>3. QED BY <2>1, <2>2
<1> HIDE DEF fromStaging
<1>6. ReaderOK(after)
  BY <1>3, <1>5 DEF ReaderOK, Staged
<1> HIDE DEF after
<1>7. Drained + fromStaging \in Nat
  BY <1>2, <1>5
<1>8. Stores(Drained + fromStaging)
  BY <1>1, <1>5, <1>7, BytesStored
<1>9. left \in Nat
  BY <1>2, <1>5
<1> HIDE DEF left
<1>10. /\ DecoderOK' /\ dec'.match = dec.match
       /\ HandlerMove /\ call'.pc # "fast"
  <2>1. CASE Fail("BadData") /\ UNCHANGED dec
    <3>1. DecoderOK' /\ dec'.match = dec.match
      BY <2>1 DEF DecoderInv, DecoderOK
    <3>2. QED BY <1>1, <2>1, <3>1, FailsWith DEF DecoderInv
  <2>2. CASE FinishBlock(after)
    BY <1>1, <2>2, BlockFinished DEF DecoderInv
  <2>3. CASE dec' = [dec EXCEPT !.remaining = left] /\ ToAccount
    <3>1. DecoderOK' /\ dec'.match = dec.match
      BY <1>9, <2>3 DEF DecoderInv, DecoderOK
    <3>2. QED BY <1>1, <2>3, <3>1, LeavesForAccount DEF DecoderInv
  <2>4. QED BY <1>1, <2>1, <2>2, <2>3
<1>11. PendingReaches'
  BY <1>7, <1>8, <1>10, StillReaches
<1>12. TurnHolds'
  BY <1>10 DEF TurnHolds
<1>13. QED BY <1>1, <1>6, <1>7, <1>8, <1>10, <1>11, <1>12, StoringStep

LEMMA SourceFailsInCopyStep ==
  ASSUME WindowInv, DecoderInv, SourceFailsInCopy
  PROVE  Handled
<1>1. /\ UNCHANGED <<given, dec, acct>>
      /\ StoreBytes(Drained) /\ SourceFails(AfterDrain)
  BY DEF SourceFailsInCopy
<1>2. Drained \in Nat /\ Drained <= OutputSpace /\ ReaderOK(AfterDrain)
  BY DrainFacts
<1>3. Stores(Drained)
  BY <1>1, <1>2, BytesStored
<1>4. ReaderOK(in') /\ HandlerMove /\ call'.pc = "idle"
  BY <1>1, <1>2, SourceFailing DEF DecoderInv
<1>5. DecoderOK' /\ dec'.match = dec.match
  BY <1>1 DEF DecoderInv, DecoderOK
<1>6. PendingReaches'
  BY <1>2, <1>3, <1>5, StillReaches
<1>7. TurnHolds'
  BY <1>4 DEF TurnHolds
<1>8. QED BY <1>1, <1>2, <1>3, <1>4, <1>5, <1>6, <1>7, StoringStep

(* A flush hashes bytes and moves none.                                    *)
LEMMA FlushingStep ==
  ASSUME WindowInv, DecoderInv, FlushChecksum, UNCHANGED <<given, acct>>,
         ReaderOK(in'), DecoderOK', dec'.match = dec.match,
         HandlerMove, call'.pc # "fast"
  PROVE  Handled
<1>1. UNCHANGED <<buffer, write_pos, lookback_valid, produced>>
  BY DEF FlushChecksum
<1>2. StreamOK'
  BY DEF DecoderInv, StreamOK, given
<1>3. PendingReaches'
  BY <1>1 DEF DecoderInv, PendingReaches
<1>4. TurnHolds'
  BY DEF TurnHolds
<1>5. DecoderInv'
  BY <1>2, <1>3, <1>4 DEF DecoderInv, HandlerMove
<1>6. write_pos' >= write_pos /\ BufferUse
  BY <1>1, WindowFacts DEF BufferUse
<1>7. QED BY <1>1, <1>5, <1>6 DEF Handled

LEMMA ParseWrapperFooterStep ==
  ASSUME WindowInv, DecoderInv, ParseWrapperFooter
  PROVE  Handled
<1> DEFINE i == IF Staged(in) < FromStaging THEN Filled(Emptied(in)) ELSE Emptied(in)
<1>1. ReaderOK(i)
  BY EmptiedReader, FilledReader DEF DecoderInv
<1>2. /\ UNCHANGED <<given, acct>> /\ HistKept
      /\ FlushChecksum
      /\ \/ in' = [i EXCEPT !.pos = i.end]
         \/ in' = [i EXCEPT !.pos = @ + FromStaging] /\ ~(Staged(i) < FromStaging)
      /\ \/ Fail("BadData") /\ UNCHANGED dec
         \/ Fail("ChecksumMismatch") /\ UNCHANGED dec
         \/ ToAccount /\ dec' = [dec EXCEPT !.state = "Done"]
  BY NotedHist, Zenon DEF ParseWrapperFooter, DecoderInv
<1> HIDE DEF i
<1>3. FromStaging \in Nat
  <2>1. in.left % 8 \in Int
    BY DEF DecoderInv, ReaderOK
  <2>2. ReaderOK(FooterReader)
    BY <2>1, ConsumedReader DEF DecoderInv, FooterReader
  <2>3. RealBytes(FooterReader) \in Nat
    BY <2>2, RealBytesNat
  <2>4. FooterSize \in Nat
    BY DEF FooterSize, FooterBytes
  <2>5. QED BY <2>3, <2>4 DEF FromStaging, AtMost
<1>4. ReaderOK(in')
  <2>1. CASE in' = [i EXCEPT !.pos = i.end]
    BY <1>1, <2>1 DEF ReaderOK
  <2>2. CASE in' = [i EXCEPT !.pos = @ + FromStaging] /\ ~(Staged(i) < FromStaging)
    BY <1>1, <1>3, <2>2 DEF ReaderOK, Staged
  <2>3. QED BY <1>2, <2>1, <2>2
<1>5. DecoderOK' /\ dec'.match = dec.match
  BY <1>2 DEF DecoderInv, DecoderOK
<1>6. HandlerMove /\ call'.pc # "fast"
  BY <1>2, FailsWith, LeavesForAccount DEF DecoderInv
<1>7. QED BY <1>2, <1>4, <1>5, <1>6, FlushingStep

LEMMA SourceFailsInFooterStep ==
  ASSUME WindowInv, DecoderInv, SourceFailsInFooter
  PROVE  Handled
<1> DEFINE e == Emptied(in)
           i == [e EXCEPT !.pos = in.end]
<1>1. /\ UNCHANGED <<given, dec, acct>>
      /\ FlushChecksum /\ SourceFails(i)
  BY DEF SourceFailsInFooter
<1>2. ReaderOK(e) /\ e.end = in.end
  BY EmptiedReader DEF DecoderInv
<1> HIDE DEF e
<1>3. ReaderOK(i)
  BY <1>2 DEF ReaderOK
<1> HIDE DEF i
<1>4. ReaderOK(in') /\ HandlerMove /\ call'.pc = "idle"
  BY <1>1, <1>3, SourceFailing DEF DecoderInv
<1>5. DecoderOK' /\ dec'.match = dec.match
  BY <1>1 DEF DecoderInv, DecoderOK
<1>6. QED BY <1>1, <1>4, <1>5, FlushingStep

-------------------------------------------------------------------------------
(* All the handlers.                                                       *)

(* A step of fill() above its accounting.                                  *)
HandlerStep ==
  \/ ParseWrapperHeader \/ EndSegment \/ ParseBlockHeader
  \/ ParseDynamicPrecodeLens \/ EnterCodeLengths \/ ParseCodeLength
  \/ ResumeMatch \/ ResumeLiteral \/ EnterLoops
  \/ FastLiteral \/ FastMatch \/ FastEndOfBlock
  \/ GenericReenter \/ GenericOverrun
  \/ GenericLiteral \/ GenericMatch \/ GenericEndOfBlock
  \/ CopyUncompressed \/ ParseWrapperFooter
  \/ SourceError

LEMMA EveryHandler ==
  ASSUME WindowInv, DecoderInv, HandlerStep
  PROVE  Handled
<1>1. CASE \/ ParseWrapperHeader \/ EndSegment \/ ParseBlockHeader
           \/ ParseDynamicPrecodeLens \/ EnterCodeLengths \/ ParseCodeLength
  BY <1>1, ParseWrapperHeaderStep, EndSegmentStep, ParseBlockHeaderStep,
     ParseDynamicPrecodeLensStep, EnterCodeLengthsStep, ParseCodeLengthStep
<1>2. CASE ResumeMatch \/ ResumeLiteral \/ EnterLoops
  BY <1>2, ResumeMatchStep, ResumeLiteralStep, EnterLoopsStep
<1>3. CASE FastLiteral \/ FastMatch \/ FastEndOfBlock
  BY <1>3, FastLiteralStep, FastMatchStep, EndOfBlockStep
<1>4. CASE \/ GenericReenter \/ GenericOverrun
           \/ GenericLiteral \/ GenericMatch \/ GenericEndOfBlock
  BY <1>4, GenericQuietStep, GenericLiteralStep, GenericMatchStep, EndOfBlockStep
<1>5. CASE CopyUncompressed \/ ParseWrapperFooter
  BY <1>5, CopyUncompressedStep, ParseWrapperFooterStep
<1>6. CASE SourceError
  BY <1>6, SourceFailsQuietly, SourceFailsInCopyStep, SourceFailsInFooterStep
     DEF SourceError
<1>7. QED BY <1>1, <1>2, <1>3, <1>4, <1>5, <1>6 DEF HandlerStep

LEMMA HandlersRunInFill ==
  ASSUME HandlerStep
  PROVE  call.pc # "idle"
<1> USE DEF InBlock
<1>1. CASE \/ ParseWrapperHeader \/ EndSegment \/ ParseBlockHeader
           \/ ParseDynamicPrecodeLens \/ EnterCodeLengths \/ ParseCodeLength
           \/ CopyUncompressed \/ ParseWrapperFooter
  BY <1>1 DEF ParseWrapperHeader, EndSegment, ParseBlockHeader,
     ParseDynamicPrecodeLens, EnterCodeLengths, ParseCodeLength,
     CopyUncompressed, ParseWrapperFooter
<1>2. CASE \/ ResumeMatch \/ ResumeLiteral \/ EnterLoops
           \/ FastLiteral \/ FastMatch \/ FastEndOfBlock
  BY <1>2 DEF ResumeMatch, ResumeLiteral, EnterLoops, AtRefill,
     FastLiteral, FastMatch, FastEndOfBlock
<1>3. CASE \/ GenericReenter \/ GenericOverrun
           \/ GenericLiteral \/ GenericMatch \/ GenericEndOfBlock
  BY <1>3 DEF GenericReenter, GenericOverrun, GenericLiteral, GenericMatch,
     GenericEndOfBlock, GenericReady
<1>4. CASE SourceError
  BY <1>4 DEF SourceError, SourceFailsBeforeHandler, SourceFailsAtRefill, AtRefill,
     SourceFailsInGeneric, SourceFailsInCopy, SourceFailsInFooter
<1>5. QED BY <1>1, <1>2, <1>3, <1>4, Zenon DEF HandlerStep

LEMMA NextCases ==
  ASSUME Next
  PROVE  \/ HandlerStep \/ ReturnFromFill \/ GoRound
         \/ BeginFill \/ TakeOutput \/ RunningChecksum \/ Reset \/ Rest
BY Zenon DEF Next, FillStep, HandlerStep

-------------------------------------------------------------------------------
(* fill()'s accounting, and what the caller does between two calls.        *)

(* A step outside the handlers: the reader and the decoder stay, and the   *)
(* window is used so that the same distances remain legal.                 *)
LEMMA OutsideStep ==
  ASSUME WindowInv, DecoderInv, UNCHANGED <<given, in, dec, hist>>,
         lookback_valid' = lookback_valid, CallOK', call'.pc # "fast"
  PROVE  DecoderInv'
<1>1. ReaderOK(in') /\ StreamOK' /\ DecoderOK' /\ HistOK'
  BY DEF DecoderInv, StreamOK, DecoderOK, HistOK, given
<1>2. PendingReaches'
  BY DEF DecoderInv, PendingReaches
<1>3. TurnHolds'
  BY DEF TurnHolds
<1>4. QED BY <1>1, <1>2, <1>3 DEF DecoderInv

LEMMA ReturnFromFillStep ==
  ASSUME WindowInv, DecoderInv, ReturnFromFill
  PROVE  UNCHANGED bufferVars /\ DecoderInv'
<1>1. UNCHANGED bufferVars /\ lookback_valid' = lookback_valid
  BY UnchangedWindow DEF ReturnFromFill
<1>2. CallOK' /\ call'.pc # "fast"
  BY DEF ReturnFromFill, Fail, Return, DecoderInv, CallOK
<1>3. QED BY <1>1, <1>2, OutsideStep DEF ReturnFromFill

(* fill() going round never leaves the loop for lack of space.             *)
LEMMA GoRoundStep ==
  ASSUME WindowInv, DecoderInv, GoRound
  PROVE  /\ BufferUse \/ UNCHANGED bufferVars
         /\ DecoderInv'
         /\ Len(produced') = Len(produced)
         /\ call' = [call EXCEPT !.pc = "dispatch", !.prev = write_pos']
<1>1. /\ PeekLen < Capacity
      /\ IF OutputSpace = 0 THEN CompactOutput ELSE UNCHANGED bufferVars
  BY WindowFacts, BufferAssumption DEF GoRound, MayReturn
<1>2. /\ BufferUse \/ UNCHANGED bufferVars
      /\ lookback_valid' = lookback_valid
      /\ Len(produced') = Len(produced)
      /\ write_pos' \in Nat
      /\ Len(buffer') # write_pos'
  <2>1. CASE OutputSpace = 0
    BY <1>1, <2>1, CompactLeaves
  <2>2. CASE OutputSpace # 0
    <3>1. UNCHANGED bufferVars
      BY <1>1, <2>2
    <3>2. UNCHANGED <<lookback_valid, produced, buffer, write_pos>>
      BY <3>1, UnchangedWindow
    <3>3. QED BY <2>2, <3>1, <3>2, WindowFacts
  <2>3. QED BY <2>1, <2>2
<1>3. call' = [call EXCEPT !.pc = "dispatch", !.prev = write_pos']
  BY <1>2 DEF GoRound
<1>4. CallOK' /\ call'.pc # "fast"
  BY <1>2, <1>3 DEF DecoderInv, CallOK
<1>5. QED BY <1>2, <1>3, <1>4, OutsideStep DEF GoRound

LEMMA BeginFillStep ==
  ASSUME WindowInv, DecoderInv, BeginFill
  PROVE  /\ BufferUse \/ UNCHANGED bufferVars
         /\ DecoderInv'
         /\ Len(produced') = Len(produced)
         /\ write_pos' \in Nat
         /\ call' = [call EXCEPT !.pc = "dispatch", !.prev = write_pos']
<1>1. /\ PeekLen < Capacity
      /\ IF OutputSpace = 0 THEN CompactOutput ELSE UNCHANGED bufferVars
      /\ call' = [call EXCEPT !.pc = "dispatch", !.prev = write_pos']
  BY DEF BeginFill
<1>2. /\ BufferUse \/ UNCHANGED bufferVars
      /\ lookback_valid' = lookback_valid
      /\ Len(produced') = Len(produced)
      /\ write_pos' \in Nat
  <2>1. CASE OutputSpace = 0
    BY <1>1, <2>1, CompactLeaves
  <2>2. CASE OutputSpace # 0
    <3>1. UNCHANGED bufferVars
      BY <1>1, <2>2
    <3>2. UNCHANGED <<lookback_valid, produced, write_pos>>
      BY <3>1, UnchangedWindow
    <3>3. QED BY <3>1, <3>2, WindowFacts
  <2>3. QED BY <2>1, <2>2
<1>3. CallOK' /\ call'.pc # "fast"
  BY <1>1, <1>2 DEF DecoderInv, CallOK
<1>4. QED BY <1>1, <1>2, <1>3, OutsideStep DEF BeginFill

LEMMA TakeOutputStep ==
  ASSUME WindowInv, DecoderInv, TakeOutput
  PROVE  BufferUse /\ DecoderInv' /\ UNCHANGED produced
<1>1. PICK n \in (Takes \cup {PeekLen}) \ {0} : Advance(n)
  BY DEF TakeOutput
<1>2. n \in 1 .. PeekLen
  BY <1>1, WindowFacts, StreamAssumption DEF Advance
<1>3. BufferUse
  BY <1>1, <1>2 DEF BufferUse, AdvanceSome
<1>4. UNCHANGED streamVars /\ call.pc = "idle"
      /\ lookback_valid' = lookback_valid /\ UNCHANGED produced
  BY <1>1 DEF TakeOutput, Advance
<1>5. CallOK' /\ call'.pc # "fast"
  BY <1>4 DEF DecoderInv, CallOK, streamVars
<1>6. QED BY <1>3, <1>4, <1>5, OutsideStep DEF streamVars

LEMMA RunningChecksumStep ==
  ASSUME WindowInv, DecoderInv, RunningChecksum
  PROVE  BufferUse /\ DecoderInv' /\ UNCHANGED produced
<1>1. BufferUse
  BY DEF RunningChecksum, BufferUse
<1>2. UNCHANGED streamVars /\ call.pc = "idle"
      /\ lookback_valid' = lookback_valid /\ UNCHANGED produced
  BY DEF RunningChecksum, FlushChecksum
<1>3. CallOK' /\ call'.pc # "fast"
  BY <1>2 DEF DecoderInv, CallOK, streamVars
<1>4. QED BY <1>1, <1>2, <1>3, OutsideStep DEF streamVars

-------------------------------------------------------------------------------
(* A decoder's first state, and its state after a reset.                   *)

(* The source of a setup's stream delivers tokens.                         *)
LEMMA SourceHoldsTokens ==
  ASSUME NEW s \in [toks : Seq(Token), nbytes : Nat]
  PROVE  /\ Source(s).nbytes \in Nat
         /\ \A k \in 1 .. Source(s).held : Source(s).toks[k] \in Token
<1> DEFINE whole == {k \in 1 .. Len(s.toks) :
                       Starts(s.toks)[k] + Width(s.toks[k]) <= 8 * s.nbytes}
<1>1. /\ Source(s).nbytes = s.nbytes
      /\ Source(s).toks = s.toks
      /\ Source(s).held = Cardinality(whole)
  BY DEF Source, Layout
<1>2. Len(s.toks) \in Nat
  OBVIOUS
<1>3. IsFiniteSet(1 .. Len(s.toks)) /\ Cardinality(1 .. Len(s.toks)) = Len(s.toks)
  <2> DEFINE m == Len(s.toks)
  <2>1. m \in Nat
    OBVIOUS
  <2> HIDE DEF m
  <2>2. m \in Int /\ 1 \in Int
    BY <2>1
  <2>3. IsFiniteSet(1 .. m) /\ Cardinality(1 .. m) = IF 1 > m THEN 0 ELSE m - 1 + 1
    BY <2>2, FS_Interval
  <2>4. IsFiniteSet(1 .. m) /\ Cardinality(1 .. m) = m
    BY <2>1, <2>3
  <2>5. QED BY <2>4 DEF m
<1>4. whole \subseteq 1 .. Len(s.toks)
  OBVIOUS
<1> HIDE DEF whole
<1>5. Cardinality(whole) \in Nat /\ Cardinality(whole) <= Len(s.toks)
  <2>1. whole \in SUBSET (1 .. Len(s.toks))
    BY <1>4
  <2>2. IsFiniteSet(whole) /\ Cardinality(whole) <= Cardinality(1 .. Len(s.toks))
    BY <1>3, <2>1, FS_Subset, Zenon
  <2>3. Cardinality(whole) \in Nat
    BY <2>2, FS_CardinalityType, Zenon
  <2>4. QED BY <1>3, <2>2, <2>3
<1>6. ASSUME NEW k \in 1 .. Cardinality(whole)
      PROVE  s.toks[k] \in Token
  <2>1. k \in 1 .. Len(s.toks)
    BY <1>2, <1>5
  <2>2. QED BY <2>1
<1>7. QED BY <1>1, <1>6

LEMMA SetUpStream ==
  ASSUME NEW u \in Setups, NEW s \in Sources(u)
  PROVE  s.nbytes \in Nat /\ \A k \in 1 .. s.held : s.toks[k] \in Token
<1>1. PICK k \in 1 .. Len(u.streams) : s = Source(u.streams[k])
  BY DEF Sources
<1>2. u.streams[k] \in [toks : Seq(Token), nbytes : Nat]
  <2>1. u.streams \in Seq([toks : Seq(Token), nbytes : Nat])
    BY SetupAssumption, Zenon
  <2>2. QED BY <2>1, ElementOfSeq, Zenon
<1>3. QED BY <1>1, <1>2, SourceHoldsTokens

LEMMA FreshReader == ReaderOK(FreshInput)
BY DEF ReaderOK, FreshInput

LEMMA InitDecoder == Init => WindowInv /\ DecoderInv
<1> SUFFICES ASSUME Init PROVE WindowInv /\ DecoderInv
  OBVIOUS
<1>1. WindowInv
  BY InitEstablishesInvariant DEF Init
<1>2. PICK u \in Setups : SetUpAs(u) /\ stream \in Sources(u)
  BY DEF Init
<1>3. StreamOK
  BY <1>2, SetUpStream DEF StreamOK
<1>4. ReaderOK(in)
  BY FreshReader DEF Init
<1>5. DecoderOK
  BY StreamAssumption DEF Init, DecoderOK, NoMatch
<1>6. CallOK /\ HistOK /\ TurnHolds
  BY DEF Init, FreshCall, FreshHist, CallOK, HistOK, TurnHolds
<1>7. PendingReaches
  BY DEF Init, PendingReaches
<1>8. QED BY <1>1, <1>3, <1>4, <1>5, <1>6, <1>7 DEF DecoderInv

LEMMA ResetStep ==
  ASSUME WindowInv, DecoderInv, Reset
  PROVE  BufferUse /\ DecoderInv'
<1>1. BufferUse
  BY DEF Reset, BufferUse
<1>2. PICK u \in Setups : SetUpAs(u) /\ stream' \in Sources(u)
  BY DEF Reset
<1>3. StreamOK'
  BY <1>2, SetUpStream DEF StreamOK
<1>4. ReaderOK(in')
  BY FreshReader DEF Reset
<1>5. DecoderOK' /\ dec'.match = NoMatch
  BY DEF Reset, Rewound, DecoderInv, DecoderOK, NoMatch
<1>6. CallOK' /\ TurnHolds'
  BY DEF Reset, FreshCall, CallOK, TurnHolds
<1>7. HistOK'
  BY DEF Reset, FreshHist, HistOK, DecoderInv
<1>8. PendingReaches'
  BY <1>5 DEF PendingReaches
<1>9. QED BY <1>1, <1>3, <1>4, <1>5, <1>6, <1>7, <1>8 DEF DecoderInv

LEMMA DecoderStutters ==
  ASSUME DecoderInv, UNCHANGED vars
  PROVE  DecoderInv' /\ UNCHANGED bufferVars
<1>1. UNCHANGED <<bufferVars, stream, in, dec, call, hist>>
  BY DEF vars, streamVars, given
<1>2. UNCHANGED <<buffer, write_pos, lookback_valid>>
  BY <1>1, UnchangedWindow
<1>3. ReaderOK(in') /\ StreamOK' /\ DecoderOK' /\ CallOK' /\ HistOK'
  BY <1>1 DEF DecoderInv, StreamOK, DecoderOK, CallOK, HistOK
<1>4. PendingReaches' /\ TurnHolds'
  BY <1>1, <1>2 DEF DecoderInv, PendingReaches, TurnHolds
<1>5. QED BY <1>1, <1>3, <1>4 DEF DecoderInv

(* Every step uses the window as OutputWindow allows and keeps DecoderInv. *)
LEMMA EveryStep ==
  ASSUME WindowInv, DecoderInv, [Next]_vars
  PROVE  (BufferUse \/ UNCHANGED bufferVars) /\ DecoderInv'
<1>1. CASE HandlerStep
  BY <1>1, EveryHandler DEF Handled
<1>2. CASE ReturnFromFill \/ GoRound
  BY <1>2, ReturnFromFillStep, GoRoundStep
<1>3. CASE BeginFill \/ TakeOutput \/ RunningChecksum \/ Reset
  BY <1>3, BeginFillStep, TakeOutputStep, RunningChecksumStep, ResetStep
<1>4. CASE UNCHANGED vars
  BY <1>4, DecoderStutters
<1>5. CASE Rest
  BY <1>5, DecoderStutters DEF Rest
<1>6. QED BY <1>1, <1>2, <1>3, <1>4, <1>5, NextCases

Sound == WindowInv /\ DecoderInv

LEMMA StepKeepsSound == Sound /\ [Next]_vars => Sound'
<1> SUFFICES ASSUME Sound, [Next]_vars PROVE Sound'
  OBVIOUS
<1>1. (BufferUse \/ UNCHANGED bufferVars) /\ DecoderInv'
  BY EveryStep DEF Sound
<1>2. WindowInv'
  BY <1>1, UseKeepsInvariant DEF Sound
<1>3. QED BY <1>1, <1>2 DEF Sound

LEMMA SoundHolds == Spec => []Sound
<1>1. Init => Sound
  BY InitDecoder DEF Sound
<1>2. QED BY <1>1, StepKeepsSound, PTL DEF Spec

-------------------------------------------------------------------------------
(* The decoder as a user of the window.                                    *)

LEMMA UseIsWindowStep ==
  ASSUME WindowInv, BufferUse
  PROVE  Window!BufferNext
<1>1. OutputSpace \in Nat /\ Window!OutputSpace = OutputSpace
  BY WindowFacts DEF OutputSpace, Window!OutputSpace
<1>2. ASSUME NEW f, NEW n, NEW scratch, NEW g, WriteBytes(f, n, scratch, g)
      PROVE  Window!WriteBytes(f, n, scratch, g)
  BY <1>2 DEF WriteBytes, Window!WriteBytes, Written, Window!Written,
              Extended, Window!Extended, AtMost, Window!AtMost,
              formatVars, Window!formatVars
<1>3. ASSUME NEW n \in 1 .. OutputSpace, NEW scratch \in 0 .. (OutputSpace - n)
      PROVE  Window!Fits(n, scratch)
  BY <1>1 DEF Window!Fits
<1>4. CASE PutsBytes
  <2> PICK n \in 1 .. OutputSpace : \E scratch \in 0 .. (OutputSpace - n) :
         \E f \in [0 .. (n - 1) -> Byte] : PutBytes(f, n, scratch)
    BY <1>4, Zenon DEF PutsBytes
  <2>1. PICK scratch \in 0 .. (OutputSpace - n) :
           \E f \in [0 .. (n - 1) -> Byte] : PutBytes(f, n, scratch)
    OBVIOUS
  <2>2. PICK f \in [0 .. (n - 1) -> Byte] : PutBytes(f, n, scratch)
    BY <2>1
  <2>3. Window!PutBytes(f, n, scratch)
    BY <1>2, <2>2 DEF PutBytes, Window!PutBytes
  <2>4. Window!PutSome
    BY <1>1, <1>3, <2>3, Zenon DEF Window!PutSome
  <2>5. QED BY <2>4 DEF Window!BufferNext
<1>5. CASE CopiesMatch
  <2>1. PICK offset \in 1 .. lookback_valid, length \in 1 .. OutputSpace :
           \E scratch \in 0 .. (OutputSpace - length) :
             WriteMatch(offset, length, scratch)
    BY <1>5, Zenon DEF CopiesMatch
  <2>2. PICK scratch \in 0 .. (OutputSpace - length) :
           WriteMatch(offset, length, scratch)
    BY <2>1
  <2>3. Window!WriteMatch(offset, length, scratch)
    BY <1>2, <2>2 DEF WriteMatch, Window!WriteMatch, MatchBytes, Window!MatchBytes,
                      PromisedBytes, Window!PromisedBytes
  <2>4. Window!CopySome
    BY <1>1, <1>3, <2>3, Zenon DEF Window!CopySome
  <2>5. QED BY <2>4 DEF Window!BufferNext
<1> USE DEF AtMost, Window!AtMost, AtLeast, Window!AtLeast,
            OutputSpace, Window!OutputSpace, PeekLen, Window!PeekLen,
            FullSize, Window!FullSize, GrownSize, Window!GrownSize,
            KeepStart, Window!KeepStart, formatVars, Window!formatVars,
            FlushedChecksum, Window!FlushedChecksum,
            FlushedTotal, Window!FlushedTotal, FlushNeeded, Window!FlushNeeded,
            Unhashed, Window!Unhashed, Extended, Window!Extended
<1>6. CASE CompactWhenFull
  <2>1. Grow => Window!Grow
    BY DEF Grow, Window!Grow
  <2>2. Slide => Window!Slide
    BY DEF Slide, Window!Slide
  <2>3. NothingToCompact => Window!NothingToCompact
    BY DEF NothingToCompact, Window!NothingToCompact, bufferVars, Window!bufferVars
  <2>4. Window!CompactWhenFull
    BY <1>6, <2>1, <2>2, <2>3
       DEF CompactWhenFull, Window!CompactWhenFull, CompactOutput, Window!CompactOutput
  <2>5. QED BY <2>4 DEF Window!BufferNext
<1>7. CASE AdvanceSome
  <2>1. Window!AdvanceSome
    BY <1>7 DEF AdvanceSome, Window!AdvanceSome, Advance, Window!Advance
  <2>2. QED BY <2>1 DEF Window!BufferNext
<1>8. CASE FlushChecksum
  <2>1. Window!FlushChecksum
    BY <1>8 DEF FlushChecksum, Window!FlushChecksum
  <2>2. QED BY <2>1 DEF Window!BufferNext
<1>9. CASE ResetOutput
  <2>1. Window!ResetOutput
    BY <1>9 DEF ResetOutput, Window!ResetOutput
  <2>2. QED BY <2>1 DEF Window!BufferNext
<1>10. QED BY <1>4, <1>5, <1>6, <1>7, <1>8, <1>9 DEF BufferUse

(* fill() and its caller use the buffer only as OutputWindow prescribes:   *)
(* no handler writes past the buffer's end, copies from before what DEFLATE*)
(* allows, or compacts while bytes could be lost.                          *)
THEOREM DecoderUsesWindow == Spec => UsesWindow
<1>1. Init => Window!BufferInit
  <2> SUFFICES ASSUME Init PROVE Window!BufferInit
    OBVIOUS
  <2>1. BufferInit
    BY DEF Init
  <2>2. QED BY <2>1 DEF BufferInit, Window!BufferInit, WrapperFormat,
                        Window!WrapperFormat, ChecksumPolicy, Window!ChecksumPolicy
<1>2. Sound /\ [Next]_vars => [Window!BufferNext]_Window!bufferVars
  <2> SUFFICES ASSUME Sound, [Next]_vars
               PROVE  Window!BufferNext \/ UNCHANGED Window!bufferVars
    OBVIOUS
  <2>1. BufferUse \/ UNCHANGED bufferVars
    BY EveryStep DEF Sound
  <2>2. UNCHANGED bufferVars => UNCHANGED Window!bufferVars
    BY DEF bufferVars, Window!bufferVars, formatVars, Window!formatVars
  <2>3. QED BY <2>1, <2>2, UseIsWindowStep DEF Sound
<1>3. QED BY <1>1, <1>2, SoundHolds, PTL DEF Spec, UsesWindow, Window!BufferSpec

(* What OutputWindow's theorems say of the window holds of the decoder's:  *)
(* its buffer is the tail of what it produced, lookback_valid accepts      *)
(* exactly DEFLATE's distances, and the checksum covers each byte once.    *)
THEOREM DecoderKeepsWindow ==
  Spec => [](BufferTypeOK /\ WindowHoldsTail /\ LookbackExact
             /\ ChecksumCoversOnce /\ GrowthKeepsAll)
<1>1. Sound => BufferTypeOK /\ WindowHoldsTail /\ LookbackExact
               /\ ChecksumCoversOnce /\ GrowthKeepsAll
  BY DEF Sound, WindowInv
<1>2. QED BY <1>1, SoundHolds, PTL

(* A fill() that returns Ok leaves bytes to peek at or is done.            *)
THEOREM FillAlwaysYields == Spec => FillYields
<1> DEFINE Yields == (call.pc # "idle" /\ call'.pc = "idle" /\ call'.result = "ok")
                       => (write_pos' > read_pos' \/ dec'.state = "Done")
<1>1. Sound /\ [Next]_vars => [Yields]_vars
  <2> SUFFICES ASSUME Sound, Next, call.pc # "idle", call'.pc = "idle",
                      call'.result = "ok"
               PROVE  write_pos' > read_pos' \/ dec'.state = "Done"
    BY DEF vars
  <2>1. WindowInv /\ DecoderInv
    BY DEF Sound
  <2>2. CASE HandlerStep
    BY <2>1, <2>2, EveryHandler DEF Handled, HandlerMove
  <2>3. CASE ReturnFromFill
    <3>1. MayReturn /\ UNCHANGED <<bufferVars, dec>>
      BY <2>3 DEF ReturnFromFill, Fail, DecoderInv, CallOK, Sound
    <3>2. UNCHANGED <<write_pos, read_pos>>
      BY <3>1, UnchangedWindow
    <3>3. PeekLen > 0 \/ dec.state = "Done"
      BY <2>1, <3>1, WindowFacts, BufferAssumption DEF MayReturn
    <3>4. QED BY <2>1, <3>1, <3>2, <3>3, WindowFacts DEF PeekLen
  <2>4. CASE GoRound
    <3>1. call' = [call EXCEPT !.pc = "dispatch", !.prev = write_pos']
      BY <2>1, <2>4, GoRoundStep
    <3>2. QED BY <2>1, <3>1 DEF DecoderInv, CallOK
  <2>5. CASE BeginFill \/ TakeOutput \/ RunningChecksum \/ Reset \/ Rest
    BY <2>5 DEF BeginFill, TakeOutput, RunningChecksum, Reset, Rest, AllTaken
  <2>6. QED BY <2>2, <2>3, <2>4, <2>5, NextCases
<1>2. QED BY <1>1, SoundHolds, PTL DEF Spec, FillYields

-------------------------------------------------------------------------------
(* The fastloop's unchecked assumptions.                                   *)

(* The tables and their flags stay, or no block uses them.                 *)
FlagsKept ==
  /\ dec'.table = dec.table
  /\ dec'.litlen_doubles = dec.litlen_doubles
  /\ dec'.doubles_pending = dec.doubles_pending
  /\ dec'.static_loaded = dec.static_loaded
  /\ dec'.state = dec.state \/ dec'.state # "CompressedData"

LEMMA KeptFlagsAgree ==
  ASSUME DoublesFlagsAgree, FlagsKept
  PROVE  DoublesFlagsAgree'
BY DEF DoublesFlagsAgree, FlagsKept

LEMMA FinishedBlockKeepsFlags ==
  ASSUME DecoderOK, NEW i, FinishBlock(i)
  PROVE  FlagsKept
<1>1. CASE Finished(i) = "BadData"
  BY <1>1 DEF FinishBlock, FlagsKept
<1>2. CASE Finished(i) # "BadData"
  <2>1. dec' = [dec EXCEPT !.state = Finished(i), !.remaining = 0]
    BY <1>2, Zenon DEF FinishBlock
  <2>2. Finished(i) \in {"BlockHeader", "Done", "WrapperFooter"}
    BY <1>2 DEF Finished
  <2>3. QED BY <2>1, <2>2 DEF DecoderOK, FlagsKept
<1>3. QED BY <1>1, <1>2

(* A fresh table has no double literals, and its flags say so.             *)
LEMMA FreshFlagsAgree ==
  ASSUME DecoderOK, NEW code, NEW longest
  PROVE  LET d == WithTable(code, longest) IN
         /\ DOMAIN d = DOMAIN dec
         /\ DOMAIN d.table = {"code", "bits", "doubles"}
         /\ d.litlen_doubles = d.table.doubles
         /\ d.doubles_pending = ~d.table.doubles
         /\ d.static_loaded = dec.static_loaded
BY DEF WithTable, DecoderOK

LEMMA HandlersKeepFlags ==
  ASSUME DecoderInv, DoublesFlagsAgree, HandlerStep
  PROVE  DoublesFlagsAgree'
<1>0. DecoderOK
  BY DEF DecoderInv
<1>1. CASE UNCHANGED dec
  BY <1>1 DEF DoublesFlagsAgree
<1>2. CASE \/ ParseWrapperHeader \/ EndSegment \/ ParseDynamicPrecodeLens
  <2>1. \/ UNCHANGED dec
        \/ \E s \in {"BlockHeader", "Done", "DynamicCodeLengths"} :
             dec' = [dec EXCEPT !.state = s]
    BY <1>2, Zenon DEF ParseWrapperHeader, EndSegment, ParseDynamicPrecodeLens
  <2>2. FlagsKept
    BY <1>0, <2>1 DEF DecoderOK, FlagsKept
  <2>3. QED BY <2>2, KeptFlagsAgree
<1>3. CASE ParseBlockHeader
  <2> DEFINE r == Refilled(Filled(in))
  <2>1. \/ BadBlock(r, dec.final)
        \/ \E t \in Read(r, {"block"}, Phantoms.block) :
             \/ BeginDynamic(r, t)
             \/ BeginStatic(r, t)
             \/ BeginStored(r, t)
             \/ BadBlock(r, t.final)
    BY <1>3, Zenon DEF ParseBlockHeader
  <2> HIDE DEF r
  <2>2. ASSUME NEW final, BadBlock(r, final)
        PROVE  FlagsKept
    BY <1>0, <2>2 DEF BadBlock, DecoderOK, FlagsKept
  <2>3. ASSUME NEW t, BeginDynamic(r, t)
        PROVE  DoublesFlagsAgree'
    BY <1>0, <2>3 DEF BeginDynamic, DecoderOK, DoublesFlagsAgree
  <2>4. ASSUME NEW t, BeginStatic(r, t)
        PROVE  DoublesFlagsAgree'
    <3>1. CASE dec.static_loaded
      BY <1>0, <2>4, <3>1 DEF BeginStatic, DecoderOK, DoublesFlagsAgree
    <3>2. CASE ~dec.static_loaded
      <4> DEFINE w == WithTable("static", 9)
      <4>1. dec' = [w EXCEPT !.static_loaded = TRUE, !.state = "CompressedData",
                             !.final = t.final]
        BY <2>4, <3>2 DEF BeginStatic
      <4>2. /\ DOMAIN w = DOMAIN dec
            /\ w.litlen_doubles = w.table.doubles
            /\ w.doubles_pending = ~w.table.doubles
        BY <1>0, FreshFlagsAgree
      <4> HIDE DEF w
      <4>3. QED BY <1>0, <4>1, <4>2 DEF DecoderOK, DoublesFlagsAgree
    <3>3. QED BY <3>1, <3>2
  <2>5. ASSUME NEW t, BeginStored(r, t)
        PROVE  FlagsKept
    <3>1. \/ \E n : dec' = [dec EXCEPT !.state = "UncompressedData",
                                       !.final = t.final, !.remaining = n]
          \/ dec' = [dec EXCEPT !.final = t.final]
      BY <2>5, Zenon DEF BeginStored
    <3>2. QED BY <1>0, <3>1 DEF DecoderOK, FlagsKept
  <2>6. QED BY <2>1, <2>2, <2>3, <2>4, <2>5, KeptFlagsAgree
<1>4. CASE ParseCodeLength
  <2>1. \/ UNCHANGED dec
        \/ \E longest : dec' = WithTable("dynamic", longest)
    BY <1>4, Zenon DEF ParseCodeLength
  <2>2. QED BY <1>0, <1>1, <2>1, FreshFlagsAgree DEF DoublesFlagsAgree
<1>5. CASE ResumeMatch \/ ResumeLiteral \/ GenericLiteral \/ GenericMatch
  <2>1. \/ UNCHANGED dec
        \/ \E m : dec' = [dec EXCEPT !.match = m]
        \/ \E l : dec' = [dec EXCEPT !.lits = l]
    BY <1>5, Zenon DEF ResumeMatch, ResumeLiteral, GenericLiteral, GenericMatch
  <2>2. FlagsKept
    BY <1>0, <2>1 DEF DecoderOK, FlagsKept
  <2>3. QED BY <2>2, KeptFlagsAgree
<1>6. CASE EnterLoops
  <2>1. \/ UNCHANGED dec
        \/ dec' = [dec EXCEPT !.table.doubles = TRUE, !.doubles_pending = FALSE,
                              !.litlen_doubles = TRUE]
    BY <1>6, Zenon DEF EnterLoops
  <2>2. QED BY <1>0, <1>1, <2>1 DEF DecoderOK, DoublesFlagsAgree
<1>7. CASE FastEndOfBlock \/ GenericEndOfBlock
  <2>1. FlagsKept
    BY <1>0, <1>7, FinishedBlockKeepsFlags DEF FastEndOfBlock, GenericEndOfBlock
  <2>2. QED BY <2>1, KeptFlagsAgree
<1>8. CASE CopyUncompressed
  <2>1. \/ UNCHANGED dec
        \/ \E i : FinishBlock(i)
        \/ \E n : dec' = [dec EXCEPT !.remaining = n]
    BY <1>8, Zenon DEF CopyUncompressed
  <2>2. FlagsKept
    BY <1>0, <2>1, FinishedBlockKeepsFlags DEF DecoderOK, FlagsKept
  <2>3. QED BY <2>2, KeptFlagsAgree
<1>9. CASE ParseWrapperFooter
  <2>1. UNCHANGED dec \/ dec' = [dec EXCEPT !.state = "Done"]
    BY <1>9, Zenon DEF ParseWrapperFooter
  <2>2. FlagsKept
    BY <1>0, <2>1 DEF DecoderOK, FlagsKept
  <2>3. QED BY <2>2, KeptFlagsAgree
<1>10. CASE EnterCodeLengths \/ FastLiteral \/ FastMatch \/ GenericReenter
            \/ GenericOverrun \/ SourceError
  <2>1. UNCHANGED dec
    BY <1>10, Zenon DEF EnterCodeLengths, FastLiteral, FastMatch, GenericReenter,
       GenericOverrun, SourceError, SourceFailsBeforeHandler, SourceFailsAtRefill,
       SourceFailsInGeneric, SourceFailsInCopy, SourceFailsInFooter
  <2>2. QED BY <1>1, <2>1
<1>11. QED
  BY <1>2, <1>3, <1>4, <1>5, <1>6, <1>7, <1>8, <1>9, <1>10 DEF HandlerStep

LEMMA FlagsAlwaysAgree == Spec => []DoublesFlagsAgree
<1>1. Init => DoublesFlagsAgree
  BY DEF Init, FirstState, DoublesFlagsAgree
<1>2. Sound /\ DoublesFlagsAgree /\ [Next]_vars => DoublesFlagsAgree'
  <2> SUFFICES ASSUME DecoderInv, DoublesFlagsAgree, [Next]_vars
               PROVE  DoublesFlagsAgree'
    BY DEF Sound
  <2>1. CASE HandlerStep
    BY <2>1, HandlersKeepFlags
  <2>2. CASE Reset
    BY <2>2 DEF Reset, Rewound, FirstState, DecoderInv, DecoderOK, DoublesFlagsAgree
  <2>3. CASE UNCHANGED dec
    BY <2>3 DEF DoublesFlagsAgree
  <2>4. CASE ReturnFromFill \/ GoRound \/ BeginFill \/ TakeOutput \/ RunningChecksum
             \/ Rest \/ UNCHANGED vars
    BY <2>3, <2>4 DEF ReturnFromFill, GoRound, BeginFill, TakeOutput, RunningChecksum,
                      Rest, vars, streamVars
  <2>5. QED BY <2>1, <2>2, <2>4, NextCases
<1>3. QED BY <1>1, <1>2, SoundHolds, PTL DEF Spec

(* In the fastloop the flag says how many bytes an entry stores, and there *)
(* are the room, the input and the bits its unchecked accesses need.       *)
THEOREM FastloopIsSafe == Spec => []FastloopSafe
<1>1. Sound => FastloopMargins
  <2> SUFFICES ASSUME Sound, InBlock("fast")
               PROVE  /\ write_pos + MAX_MATCH + MATCH_OVERCOPY <= Len(buffer)
                      /\ Staged(in) >= 15
                      /\ in.left >= dec.table.bits
    BY DEF FastloopMargins
  <2>1. WindowInv /\ DecoderInv /\ call.pc = "fast"
    BY DEF Sound, InBlock
  <2>2. /\ MAX_MATCH + MATCH_OVERCOPY < OutputSpace
        /\ Staged(in) >= 15
        /\ in.left >= dec.table.bits
    BY <2>1, TurnHasRoom
  <2>3. /\ MAX_MATCH \in Nat /\ MATCH_OVERCOPY \in Nat
        /\ write_pos \in Nat /\ OutputSpace \in Nat
        /\ write_pos + OutputSpace = Len(buffer)
    BY <2>1, WindowFacts, StreamAssumption
  <2>4. QED BY <2>2, <2>3
<1>2. QED BY <1>1, SoundHolds, FlagsAlwaysAgree, PTL DEF FastloopSafe

-------------------------------------------------------------------------------
(* max_output_size.                                                        *)

(* Until an error of the source has skipped an accounting: what total does *)
(* not count yet is what the running call has written, and total itself is *)
(* within the limit unless the limit was already reported.                 *)
Uncounted == IF call.pc = "idle" THEN 0 ELSE write_pos - call.prev

Accounted ==
  call.pc # "idle" \/ call.result \notin Fatal =>
    /\ Len(produced) = acct.total + Uncounted
    /\ Uncounted >= 0
    /\ options.max_output_size >= 0 => acct.total <= options.max_output_size

AccountsHold ==
  /\ DOMAIN acct = {"total", "stalls"} /\ acct.total \in Nat
  /\ options.max_output_size \in Int
  /\ call.pc # "idle" => call.result \notin Fatal
  /\ hist.errors = 0 =>
       /\ Accounted
       /\ call.result = "OutputLimitExceeded"
            => Len(produced) > options.max_output_size

LEMMA HandlersKeepAccounts ==
  ASSUME WindowInv, DecoderInv, AccountsHold, call.pc # "idle", Handled
  PROVE  AccountsHold'
<1>1. /\ UNCHANGED <<options, acct>>
      /\ call'.prev = call.prev /\ call.prev \in Int
      /\ write_pos' >= write_pos
      /\ Len(produced') - write_pos' = Len(produced) - write_pos
      /\ hist.errors \in Nat /\ hist'.errors \in Nat
      /\ hist'.errors >= hist.errors
  BY DEF Handled, HandlerMove, given, DecoderInv, CallOK, HistOK
<1>2. \/ call'.pc # "idle" /\ call'.result = call.result
      \/ /\ call'.pc = "idle"
         /\ call'.result \in {"BadData", "InvalidHeader", "ChecksumMismatch"}
      \/ call'.pc = "idle" /\ call'.result = "Source" /\ hist'.errors > 0
  BY DEF Handled, HandlerMove
<1>3. /\ write_pos \in Nat /\ Len(produced) \in Nat
      /\ write_pos' \in Nat /\ Len(produced') \in Nat
  <2>1. WindowInv'
    BY UseKeepsInvariant DEF Handled
  <2>2. write_pos' \in Nat /\ Len(produced') \in Nat
    BY <2>1, BufferAssumption DEF WindowInv, BufferTypeOK
  <2>3. QED BY <2>2, WindowFacts
<1>4. call.result \notin Fatal
  BY DEF AccountsHold
<1>5. CASE hist'.errors # 0
  BY <1>1, <1>2, <1>4, <1>5 DEF AccountsHold
<1>6. CASE hist'.errors = 0 /\ call'.pc = "idle"
  <2>1. call'.result \in Fatal /\ call'.result # "OutputLimitExceeded"
    BY <1>2, <1>6 DEF Fatal
  <2>2. Accounted'
    BY <1>6, <2>1 DEF Accounted, Fatal
  <2>3. QED BY <1>1, <1>6, <2>1, <2>2 DEF AccountsHold
<1>7. CASE hist'.errors = 0 /\ call'.pc # "idle"
  <2>1. hist.errors = 0 /\ call'.result = call.result
    BY <1>1, <1>2, <1>7
  <2>2. /\ Len(produced) = acct.total + (write_pos - call.prev)
        /\ write_pos - call.prev >= 0
        /\ options.max_output_size >= 0 => acct.total <= options.max_output_size
        /\ acct.total \in Nat
    BY <2>1 DEF AccountsHold, Accounted, Uncounted
  <2>3. /\ Len(produced') = acct.total + (write_pos' - call.prev)
        /\ write_pos' - call.prev >= 0
    <3>1. /\ call.prev \in Int /\ write_pos' >= write_pos
          /\ Len(produced') - write_pos' = Len(produced) - write_pos
      BY <1>1
    <3>2. /\ Len(produced) = acct.total + (write_pos - call.prev)
          /\ write_pos - call.prev >= 0 /\ acct.total \in Nat
      BY <2>2
    <3>3. write_pos' - call.prev >= 0
      BY ONLY <1>3, <3>1, <3>2
    <3>4. Len(produced') = Len(produced) + (write_pos' - write_pos)
      BY ONLY <1>3, <3>1
    <3>5. QED BY ONLY SMTT(30), <1>3, <3>1, <3>2, <3>3, <3>4
  <2>4. Uncounted' = write_pos' - call'.prev
    BY <1>7 DEF Uncounted
  <2>5. Accounted'
    BY <1>1, <2>2, <2>3, <2>4 DEF Accounted
  <2>6. call'.result # "OutputLimitExceeded"
    BY <1>4, <2>1 DEF Fatal
  <2>7. QED BY <1>1, <1>4, <2>1, <2>5, <2>6 DEF AccountsHold
<1>8. QED BY <1>5, <1>6, <1>7

(* What the accounting adds up, and what it compares with the limit.       *)
LEMMA CountedFacts ==
  ASSUME WindowInv, DecoderInv, AccountsHold, hist.errors = 0, call.pc # "idle"
  PROVE  /\ DOMAIN Counted = {"total", "stalls"}
         /\ Counted.total \in Nat
         /\ Counted.total = Len(produced)
         /\ ~OverLimit /\ options.max_output_size >= 0
              => Counted.total <= options.max_output_size
         /\ OverLimit => Counted.total > options.max_output_size
<1>1. /\ Len(produced) = acct.total + Delta
      /\ Delta >= 0
      /\ options.max_output_size >= 0 => acct.total <= options.max_output_size
      /\ acct.total \in Nat /\ DOMAIN acct = {"total", "stalls"}
      /\ options.max_output_size \in Int
  BY DEF AccountsHold, Accounted, Uncounted, Delta
<1>2. Delta \in Int
  BY WindowFacts DEF Delta, DecoderInv, CallOK
<1>3. CASE Delta > 0
  <2>1. Counted = [total |-> acct.total + Delta, stalls |-> 0]
    BY <1>3 DEF Counted
  <2>2. QED BY <1>1, <1>2, <1>3, <2>1 DEF OverLimit
<1>4. CASE Delta = 0
  <2>1. DOMAIN Counted = {"total", "stalls"} /\ Counted.total = acct.total
    BY <1>1, <1>4 DEF Counted
  <2>2. QED BY <1>1, <1>4, <2>1 DEF OverLimit
<1>5. QED BY <1>1, <1>2, <1>3, <1>4

(* Whatever was counted, the accounting keeps its shape.                   *)
LEMMA CountedShape ==
  ASSUME WindowInv, DecoderInv, AccountsHold
  PROVE  DOMAIN Counted = {"total", "stalls"} /\ Counted.total \in Nat
<1>1. acct.total \in Nat /\ DOMAIN acct = {"total", "stalls"}
  BY DEF AccountsHold
<1>2. Delta \in Int
  BY WindowFacts DEF Delta, DecoderInv, CallOK
<1>3. QED BY <1>1, <1>2 DEF Counted

LEMMA ReturnKeepsAccounts ==
  ASSUME WindowInv, DecoderInv, AccountsHold, ReturnFromFill
  PROVE  AccountsHold'
<1>1. /\ UNCHANGED <<bufferVars, options, hist>> /\ acct' = Counted
      /\ call.pc # "idle" /\ call'.pc = "idle"
      /\ \/ OverLimit /\ call'.result = "OutputLimitExceeded"
         \/ call'.result = "StallLimitExceeded"
         \/ ~OverLimit /\ call'.result = "ok"
  BY DEF ReturnFromFill, Fail, Return, DecoderInv, CallOK, given
<1>2. UNCHANGED <<write_pos, produced>>
  BY <1>1, UnchangedWindow
<1>3. DOMAIN acct' = {"total", "stalls"} /\ acct'.total \in Nat
  BY <1>1, CountedShape
<1>4. ASSUME hist'.errors = 0
      PROVE  /\ Accounted'
             /\ call'.result = "OutputLimitExceeded"
                  => Len(produced') > options'.max_output_size
  <2>1. /\ Counted.total \in Nat /\ Counted.total = Len(produced)
        /\ ~OverLimit /\ options.max_output_size >= 0
             => Counted.total <= options.max_output_size
        /\ OverLimit => Counted.total > options.max_output_size
    BY <1>1, <1>4, CountedFacts
  <2>2. Uncounted' = 0
    BY <1>1 DEF Uncounted
  <2>3. CASE OverLimit /\ call'.result = "OutputLimitExceeded"
    BY <1>1, <1>2, <2>1, <2>3 DEF Accounted, Fatal
  <2>4. CASE call'.result = "StallLimitExceeded"
    BY <1>1, <2>4 DEF Accounted, Fatal
  <2>5. CASE ~OverLimit /\ call'.result = "ok"
    BY <1>1, <1>2, <2>1, <2>2, <2>5 DEF Accounted
  <2>6. QED BY <1>1, <2>3, <2>4, <2>5
<1>5. QED BY <1>1, <1>3, <1>4 DEF AccountsHold

LEMMA GoRoundKeepsAccounts ==
  ASSUME WindowInv, DecoderInv, AccountsHold, GoRound
  PROVE  AccountsHold'
<1>1. /\ Len(produced') = Len(produced)
      /\ call' = [call EXCEPT !.pc = "dispatch", !.prev = write_pos']
      /\ BufferUse \/ UNCHANGED bufferVars
  BY GoRoundStep
<1>2. /\ UNCHANGED <<options, hist>> /\ acct' = Counted
      /\ call.pc # "idle" /\ ~OverLimit
  BY DEF GoRound, given
<1>3. call'.pc = "dispatch" /\ call'.prev = write_pos' /\ call'.result = call.result
  BY <1>1 DEF DecoderInv, CallOK
<1>4. DOMAIN acct' = {"total", "stalls"} /\ acct'.total \in Nat
  BY <1>2, CountedShape
<1>5. call'.result \notin Fatal
  BY <1>2, <1>3 DEF AccountsHold
<1>6. write_pos' \in Nat
  <2>1. WindowInv'
    BY <1>1, UseKeepsInvariant
  <2>2. QED BY <2>1, BufferAssumption DEF WindowInv, BufferTypeOK
<1>7. ASSUME hist'.errors = 0
      PROVE  Accounted'
  <2>1. /\ Counted.total \in Nat /\ Counted.total = Len(produced)
        /\ options.max_output_size >= 0
             => Counted.total <= options.max_output_size
    BY <1>2, <1>7, CountedFacts
  <2>2. Uncounted' = 0
    BY <1>3, <1>6 DEF Uncounted
  <2>3. QED BY <1>1, <1>2, <2>1, <2>2 DEF Accounted
<1>8. call'.result # "OutputLimitExceeded"
  BY <1>5 DEF Fatal
<1>9. QED BY <1>2, <1>4, <1>5, <1>7, <1>8 DEF AccountsHold

LEMMA CallerKeepsAccounts ==
  ASSUME WindowInv, DecoderInv, AccountsHold,
         BeginFill \/ TakeOutput \/ RunningChecksum \/ Rest \/ UNCHANGED vars
  PROVE  AccountsHold'
<1>1. CASE BeginFill
  <2>1. /\ Len(produced') = Len(produced)
        /\ call' = [call EXCEPT !.pc = "dispatch", !.prev = write_pos']
        /\ write_pos' \in Nat
    BY <1>1, BeginFillStep
  <2>2. /\ UNCHANGED <<options, hist, acct>>
        /\ call.pc = "idle" /\ call.result \notin Fatal
    BY <1>1 DEF BeginFill, given
  <2>3. call'.pc = "dispatch" /\ call'.prev = write_pos' /\ call'.result = call.result
    BY <2>1 DEF DecoderInv, CallOK
  <2>4. Uncounted' = 0 /\ Uncounted = 0
    BY <2>1, <2>2, <2>3 DEF Uncounted
  <2>5. Accounted => Accounted'
    BY <2>1, <2>2, <2>3, <2>4 DEF Accounted
  <2>6. call'.result # "OutputLimitExceeded"
    BY <2>2, <2>3 DEF Fatal
  <2>7. QED BY <2>2, <2>3, <2>5, <2>6 DEF AccountsHold
<1>2. CASE TakeOutput \/ RunningChecksum \/ Rest \/ UNCHANGED vars
  <2>1. UNCHANGED <<options, hist, acct, call>> /\ UNCHANGED produced
    BY <1>2, TakeOutputStep, RunningChecksumStep
       DEF TakeOutput, RunningChecksum, Rest, vars, streamVars, given, bufferVars
  <2>2. UNCHANGED write_pos \/ call.pc = "idle"
    BY <1>2 DEF TakeOutput, RunningChecksum, Rest, vars, bufferVars
  <2>3. Uncounted' = Uncounted
    BY <2>1, <2>2 DEF Uncounted
  <2>4. Accounted => Accounted'
    BY <2>1, <2>3 DEF Accounted
  <2>5. QED BY <2>1, <2>4 DEF AccountsHold
<1>3. QED BY <1>1, <1>2

LEMMA FreshAccounts ==
  ASSUME options.max_output_size \in Int
  PROVE  (produced = <<>> /\ acct = FreshAcct /\ call = FreshCall) => AccountsHold
BY DEF AccountsHold, Accounted, Uncounted, FreshAcct, FreshCall, Fatal, None

LEMMA AccountsAlwaysHold == Spec => []AccountsHold
<1>1. Init => AccountsHold
  <2> SUFFICES ASSUME Init PROVE AccountsHold
    OBVIOUS
  <2>1. PICK u \in Setups : SetUpAs(u)
    BY DEF Init
  <2>2. options.max_output_size \in Int
    BY <2>1, SetupAssumption DEF SetUpAs
  <2>3. QED BY <2>2, FreshAccounts DEF Init, BufferInit
<1>2. Sound /\ AccountsHold /\ [Next]_vars => AccountsHold'
  <2> SUFFICES ASSUME WindowInv, DecoderInv, AccountsHold, [Next]_vars
               PROVE  AccountsHold'
    BY DEF Sound
  <2>1. CASE HandlerStep
    <3>1. call.pc # "idle"
      BY <2>1, HandlersRunInFill
    <3>2. QED BY <2>1, <3>1, EveryHandler, HandlersKeepAccounts
  <2>2. CASE Reset
    <3>1. /\ produced' = <<>> /\ acct' = FreshAcct /\ call' = FreshCall
          /\ options' = options
      BY <2>2 DEF Reset, ResetOutput
    <3>2. options.max_output_size \in Int
      BY DEF AccountsHold
    <3>3. QED BY <3>1, <3>2
       DEF AccountsHold, Accounted, Uncounted, FreshAcct, FreshCall, Fatal, None
  <2>3. QED BY <2>1, <2>2, NextCases, ReturnKeepsAccounts, GoRoundKeepsAccounts,
               CallerKeepsAccounts
<1>3. QED BY <1>1, <1>2, SoundHolds, PTL DEF Spec

(* A stream that completes within the calls fill() returned Ok from never  *)
(* produced more than max_output_size, and only one that produced more is  *)
(* refused for it, for every way the output is split between calls.        *)
THEOREM OutputLimitEnforced == Spec => [](hist.errors = 0 => OutputLimitHolds)
<1>1. AccountsHold => (hist.errors = 0 => OutputLimitHolds)
  <2> SUFFICES ASSUME AccountsHold, hist.errors = 0
               PROVE  OutputLimitHolds
    OBVIOUS
  <2>1. Accounted /\ acct.total \in Nat
    BY DEF AccountsHold
  <2>2. ASSUME call.pc = "idle", call.result = "ok", options.max_output_size >= 0
        PROVE  Len(produced) <= options.max_output_size
    BY <2>1, <2>2 DEF Accounted, Uncounted, Fatal
  <2>3. QED BY <2>2 DEF OutputLimitHolds, AccountsHold
<1>2. QED BY <1>1, AccountsAlwaysHold, PTL

===============================================================================

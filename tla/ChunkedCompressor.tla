-------------------------- MODULE ChunkedCompressor ---------------------------
(***************************************************************************)
(* Compressing one piece of a raw DEFLATE stream (src/src/compress/mod.rs):*)
(* deflate_compress, and deflate_compress_chunk, which may start after a   *)
(* dictionary and may have to leave the stream open at a byte boundary.    *)
(*                                                                         *)
(* What the parsers decide is left open: a block ends anywhere a splitter  *)
(* may end it, it is stored, or coded as literals that cost as much as the *)
(* cheapest of three can, or coded with a match wherever the text repeats. *)
(* The static turbo level knows no cost in advance: it writes a block, and *)
(* takes it back and stores it when it has become too long.                *)
(***************************************************************************)
EXTENDS BlockWriter, FiniteSets

CONSTANTS
  WINDOW,             (* how far matches reach back: 32 KiB                *)
  MIN_MATCH,          (* the shortest match                                *)
  MAX_MATCH,          (* the longest: 258                                  *)
  MIN_BLOCK_LENGTH,   (* the shortest block but the last: 5000             *)
  FAST_SOFT_MAX_BLOCK_LENGTH  (* where a static turbo block ends: 65535    *)

(* A stored block of MAX_STORED bytes is one of the blocks the bound counts;*)
(* a match that runs past its block leaves something for the next.         *)
ASSUME ChunkAssumption ==
  /\ WINDOW \in Nat \ {0} /\ MIN_MATCH \in Nat \ {0}
  /\ MIN_BLOCK_LENGTH \in 1 .. MAX_STORED
  /\ MAX_MATCH \in MIN_MATCH .. MIN_BLOCK_LENGTH
  /\ FAST_SOFT_MAX_BLOCK_LENGTH \in Nat \ {0}

AtLeast(a, b) == IF a > b THEN a ELSE b
AtMost(a, b) == IF a < b THEN a ELSE b
CeilDiv(a, b) == (a + b - 1) \div b

(* Header and lengths of a stored block: 5 bytes, 2 of the model's. *)
STORED_OVERHEAD == 2

Bound(n) == STORED_OVERHEAD * AtLeast(CeilDiv(n, MIN_BLOCK_LENGTH), 1) + n

SegmentBound(n) == Bound(n) + STORED_OVERHEAD + 1

-------------------------------------------------------------------------------
(* A level, as far as it matters here: store, static turbo, whether it can *)
(* use no dictionary, and the length up to which input is stored unparsed. *)
Level == [store : BOOLEAN, static : BOOLEAN, alone : BOOLEAN, passthrough : Nat]

Compressor(level) ==
  [level |-> level, chunk_start |-> 0, force_nonfinal |-> FALSE,
   pc |-> "idle", text |-> <<>>, at |-> 0, whole |-> FALSE,
   os |-> OutputBitstream(<<>>, 0), status |-> "none", out |-> <<>>]

(* The call returns; its locals go, and what the chunk had set is put back. *)
Return(c, status, out) ==
  [Compressor(c.level) EXCEPT !.pc = "returned", !.status = status, !.out = out]

ReturnOutput(c, os) ==
  IF os.overflow THEN Return(c, "space", <<>>) ELSE Return(c, "ok", os.out)

(* deflate_compress_none and its chunk variant. *)
NoneChunk(c, bytes, room, last) ==
  LET start == OutputBitstream(<<>>, room)
      final == IF last THEN 1 ELSE 0
  IN  ReturnOutput(c, IF bytes = <<>> THEN WriteStoredPiece(start, bytes, final)
                                      ELSE WriteUncompressedBlocks(start, bytes, final))

Begin(c, text, room) ==
  [c EXCEPT !.pc = "blocks", !.text = text, !.at = c.chunk_start,
            !.os = OutputBitstream(<<>>, room)]

(* deflate_compress, up to the first block. *)
BeginWhole(c, text, room) ==
  IF c.level.store \/ Len(text) <= c.level.passthrough
  THEN NoneChunk(c, text, room, TRUE)
  ELSE [Begin(c, text, room) EXCEPT !.whole = TRUE]

(* deflate_compress_chunk of what follows text's first start bytes.        *)
BeginChunk(c, text, start, last, room) ==
  LET data == SubSeq(text, start + 1, Len(text))
  IN  IF \/ c.level.store \/ data = <<>>
         \/ start = 0 /\ Len(data) <= c.level.passthrough
      THEN NoneChunk(c, data, room, last)
      ELSE Begin([c EXCEPT !.chunk_start = start, !.force_nonfinal = ~last], text, room)

(* The longest match at p of the text up to end, at that offset. *)
MatchLength(text, p, end, offset) ==
  CHOOSE n \in 0 .. (AtMost(end, p + MAX_MATCH) - p) :
    /\ \A k \in 1 .. n : text[p + k] = text[p + k - offset]
    /\ n = AtMost(end, p + MAX_MATCH) - p \/ text[p + n + 1] # text[p + n + 1 - offset]

(* Tokens of the text from start to end, with matches or all literals, and *)
(* where they end: a match may run past end, up to reach.                  *)
Parse(text, start, end, reach, matches) ==
  LET Offsets(p) == {o \in 1 .. AtMost(p, WINDOW) :
                       matches /\ MatchLength(text, p, reach, o) >= MIN_MATCH}
      With(token, rest) == [rest EXCEPT !.tokens = <<token>> \o @]
      from[p \in start .. reach] ==
        IF p >= end THEN [tokens |-> <<>>, end |-> p]
        ELSE IF Offsets(p) = {} THEN With(Literal(text[p + 1]), from[p + 1])
        ELSE LET o == CHOOSE o \in Offsets(p) : \A q \in Offsets(p) : o >= q
                 n == MatchLength(text, p, reach, o)
             IN  With(Match(n, o), from[p + n])
  IN  from[start]

(* Tokens that cost what storing costs, less one bit, or what they cost.   *)
Dear(tokens, bitcount, n) ==
  LET spare == UncompressedCost(bitcount, n) - 1 - Len(CodedBlock(tokens, 0))
  IN  tokens \o Fill(AtLeast(spare, 0))

IsFinal(c, end) == ~c.force_nonfinal /\ end = Len(c.text)

(* One more block, of n bytes, at any level but static turbo. *)
WithBlock(c, n, form) ==
  LET end == c.at + n
      parsed == Parse(c.text, c.at, end, end, form = "matches").tokens
      tokens == IF form = "matches" THEN parsed ELSE Dear(parsed, Len(c.os.bits), n)
      final == IF IsFinal(c, end) THEN 1 ELSE 0
  IN  [c EXCEPT !.at = end,
                !.os = FlushBlock(@, IF form = "stored" THEN "stored" ELSE "block", tokens,
                                  SubSeq(c.text, c.at + 1, end), final)]

MoreBlocks(c) == c.pc = "blocks" /\ c.at < Len(c.text) /\ ~c.os.overflow

(* Where the next block may end: the splitters leave a block of at least   *)
(* MIN_BLOCK_LENGTH, a full sequence store has seen as much.               *)
BlockLengths(c) ==
  LET left == Len(c.text) - c.at
  IN  {n \in 1 .. left : n = left \/ n >= MIN_BLOCK_LENGTH}

(* choose_max_block_end, of a static turbo block. *)
StaticBlockEnd(c) ==
  IF Len(c.text) - c.at < FAST_SOFT_MAX_BLOCK_LENGTH + MIN_BLOCK_LENGTH
    THEN Len(c.text) ELSE c.at + FAST_SOFT_MAX_BLOCK_LENGTH

(* More whole bytes than this, and the static block is taken back. *)
StaticLimit(n) == n + STORED_OVERHEAD * CeilDiv(n, MAX_STORED) + 1

(* A static literal takes 8 bits or 9, whatever storing costs: the tokens  *)
(* of a block take what they take, or one bit less than what is too long,  *)
(* or just as much as is too long.                                         *)
StaticTokens(tokens, bitcount, n, form) ==
  LET longest == BYTE * (StaticLimit(n) + 1) - 1 - bitcount - Len(CodedBlock(tokens, 0))
  IN  CASE form = "as long as may be" -> tokens \o Fill(AtLeast(longest, 0))
        [] form = "too long" -> tokens \o Fill(AtLeast(longest + 1, 0))
        [] OTHER -> tokens

(* A static turbo block, written token by token; its last match may run    *)
(* past its end.  One that found no room, or has become too long (in whole *)
(* bytes: the bits of the last one do not count), is taken back, and the   *)
(* bytes up to its end are stored.  That the matches are real after that   *)
(* is more than the finder promises: see StaticTurbo.                      *)
StaticBlock(c, form) ==
  LET end == StaticBlockEnd(c)
      n == end - c.at
      final == IF IsFinal(c, end) THEN 1 ELSE 0
      parsed == Parse(c.text, c.at, end, Len(c.text), form = "matches")
      tokens == StaticTokens(parsed.tokens, Len(c.os.bits), n, form)
      os == FlushBits(AddBits(c.os, CodedBlock(tokens, final)))
      tooLong == (Len(os.out) - Len(c.os.out)) \div BYTE > StaticLimit(n)
  IN  IF os.overflow \/ tooLong
        THEN [c EXCEPT !.at = end,
                       !.os = WriteUncompressedBlocks(@, SubSeq(c.text, c.at + 1, end), final)]
        ELSE [c EXCEPT !.at = parsed.end, !.os = os]

AfterBlock(c) ==
  IF c.level.static
    THEN {StaticBlock(c, form) : form \in {"matches", "as long as may be", "too long"}}
    ELSE {WithBlock(c, n, form) : n \in BlockLengths(c),
                                  form \in {"stored", "literals", "matches"}}

(* What a static turbo call may take beyond the bound, which counts stored *)
(* blocks only: one byte more before a block is taken back, one more for   *)
(* the bits of its last byte (run turbo_bound of StaticTurbo).             *)
StaticExcess(level) == IF level.static THEN 2 ELSE 0

(* Mutant: the marker follows the blocks at once. *)
Flushed_NoPadding(os) ==
  WriteBytes(FlushBits(AddBits(os, Header("stored", 0, 0))), Fill(BYTE))

(* The sync flush: an empty stored block that is not final. *)
Flushed(os) ==
  WriteBytes(PadLastByte(FlushBits(AddBits(os, Header("stored", 0, 0)))), Fill(BYTE))

Finished(c) ==
  IF c.os.overflow THEN Return(c, "space", <<>>)
  ELSE ReturnOutput(c, IF c.whole \/ ~c.force_nonfinal THEN PadLastByte(c.os)
                                                       ELSE Flushed(c.os))

(* What a call does next; stop says whether stop.check() may fail.         *)
Steps(c, stop) ==
  IF MoreBlocks(c) THEN AfterBlock(c) \cup (IF stop THEN {Return(c, "stopped", <<>>)} ELSE {})
  ELSE IF c.pc = "blocks" THEN {Finished(c)}
  ELSE {}

===============================================================================

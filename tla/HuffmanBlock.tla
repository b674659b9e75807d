---------------------------- MODULE HuffmanBlock ----------------------------
(***************************************************************************)
(* The codes of a dynamic block, from the encoder's symbol counts to the   *)
(* decoder's tables: counts, codes, the header that carries the lengths,   *)
(* the lengths the decoder reads back, its tables.  The stages also start  *)
(* from lengths and counts of no particular block: a header may hold any.  *)
(***************************************************************************)
EXTENDS BlockCodes, DecodeTable

CONSTANTS
  Counts,        \* symbol counts of blocks, records of litlen and offset counts
  LensSamples,   \* sequences of codeword lengths to send
  SmallSyms,     \* the symbols of the small alphabets
  SmallCounts,   \* the counts they take
  SmallLimit,    \* the longest codeword over them
  SmallTables,   \* the table sizes tried with them
  Literals,      \* which of them are literals
  Matches        \* pairs of a match length and an offset

VARIABLES
  stage,         \* how far the block has come
  block          \* what the stages so far have made

blockVars == <<stage, block>>

HBInit == stage = "idle" /\ block = << >>

(* No block: for a model in which something else runs *)
HBOff == stage = "off" /\ block = << >>

CountSymbols ==
  /\ stage = "idle"
  /\ \E f \in Counts : block' = [freqs |-> f]
  /\ stage' = "counted"

BuildCodes ==
  /\ stage = "counted"
  /\ \E found \in {[codes |-> MakeHuffmanCodes(block.freqs), cost |-> -1],
                   MakeHuffmanCodesBest(block.freqs)} : block' = block @@ found
  /\ stage' = "coded"

(* The header's fields, every item as the bits of its codeword.            *)
Header(litlen, offset, precode) ==
  [litlen |-> litlen, offset |-> offset,
   explicit |-> [k \in 1 .. ExplicitLens(precode.code.lens) |->
                   precode.code.lens[DEFLATE_PRECODE_LENS_PERMUTATION[k]]],
   items |-> [k \in DOMAIN precode.items |->
                LET sym == precode.items[k].sym
                IN  [word |-> precode.code.codewords[sym], len |-> precode.code.lens[sym],
                     extra |-> precode.items[k].extra, extraLen |-> PrecodeExtra(sym)]],
   cost |-> precode.cost]

SendHeader ==
  /\ stage = "coded"
  /\ \E precode \in {DefaultPrecode(CombinedLens(block.codes)), BestPrecode(CombinedLens(block.codes))} :
       block' = block @@
         [lens |-> CombinedLens(block.codes),
          header |-> Header(Len(SentLens(block.codes.litlen.lens, FirstLen)),
                            Len(SentLens(block.codes.offset.lens, 1)), precode)]
  /\ stage' = "sent"

SendLens ==
  /\ stage = "idle"
  /\ \E lens \in LensSamples, flags \in ValidFlags :
       block' = [lens |-> lens, header |-> Header(Len(lens) - 1, 1, FlaggedPrecode(lens, flags))]
  /\ stage' = "sent"

(* Store the lengths one decoded item stands for.                          *)
Store(st, presym, extra) ==
  CASE presym < 16 -> [st EXCEPT !.lens = Append(@, presym)]
    [] presym = 16 /\ st.lens = <<>> -> [st EXCEPT !.bad = TRUE]
    [] presym = 16 /\ st.lens # <<>> ->
         [st EXCEPT !.lens = @ \o [k \in 1 .. 3 + extra |-> Last(st.lens)]]
    [] presym = 17 -> [st EXCEPT !.lens = @ \o [k \in 1 .. 3 + extra |-> 0]]
    [] OTHER -> [st EXCEPT !.lens = @ \o [k \in 1 .. 11 + extra |-> 0]]

(* One item: its codeword is looked up, unless all lengths are there.      *)
StoreItem(st, built, total, item) ==
  LET e == Lookup(built, item.word)
  IN  IF st.bad \/ Len(st.lens) >= total THEN [st EXCEPT !.bad = TRUE]
      ELSE Store([st EXCEPT !.bad = e.len # item.len], e.sym, item.extra)

RECURSIVE StoreItems(_, _, _, _, _)

(* The items from .. to in turn, the first half of them before the second. *)
StoreItems(st, built, header, from, to) ==
  LET mid == (from + to) \div 2
  IN  CASE from > to -> st
        [] from = to -> StoreItem(st, built, header.litlen + header.offset, header.items[from])
        [] from < to -> Only({StoreItems(half, built, header, mid + 1, to) :
                                half \in {StoreItems(st, built, header, from, mid)}})

(* The decoder's side: precode table, items until the counted lengths are  *)
(* there, and an error unless it is exactly so many.                       *)
ReadLens(header) ==
  LET lens == [s \in PrecodeSyms |->
                 LET k == SelectInSeq(DEFLATE_PRECODE_LENS_PERMUTATION, LAMBDA p : p = s)
                 IN  IF k <= Len(header.explicit) THEN header.explicit[k] ELSE 0]
      built == BuildDecodeTable(lens, PRECODE_TABLEBITS, DEFLATE_MAX_PRE_CODEWORD_LEN, FALSE)
      end == StoreItems([lens |-> <<>>, bad |-> ~ built.ok], built, header, 1, Len(header.items))
  IN  [ok |-> ~ end.bad /\ Len(end.lens) = header.litlen + header.offset,
       lens |-> end.lens]

ReadHeader ==
  /\ stage = "sent"
  /\ block' = block @@ [read |-> ReadLens(block.header)]
  /\ stage' = "read"

(* The lengths of one code, as the function the table is built from.       *)
LensFrom(lens, first, n) == [s \in 0 .. n - 1 |-> lens[first + s]]

BuildTables ==
  /\ stage = "read"
  /\ block.read.ok
  /\ "codes" \in DOMAIN block
  /\ LET h == block.header
         offset == BuildDecodeTable(LensFrom(block.read.lens, h.litlen + 1, h.offset),
                                    OFFSET_TABLEBITS, 15, FALSE)
         litlen == BuildDecodeTable(LensFrom(block.read.lens, 1, h.litlen),
                                    LITLEN_TABLEBITS, 15, TRUE)
     IN  block' = block @@ [tables |-> [offset |-> offset, litlen |-> litlen]]
  /\ stage' = "ready"

(* Any lengths at all reach the table builder.                             *)
BuildSmallTable ==
  /\ stage = "idle"
  /\ \E lens \in [SmallSyms -> 0 .. SmallLimit], bits \in SmallTables, shrinks \in BOOLEAN :
       LET built == BuildDecodeTable(lens, bits, SmallLimit, shrinks)
       IN  block' = [lens |-> lens, built |-> built,
                     doubled |-> IF built.ok THEN AddDoubleLiterals(built.table, built.bits, Literals)
                                 ELSE <<>>]
  /\ stage' = "table"

BuildSmallCode ==
  /\ stage = "idle"
  /\ \E f \in [SmallSyms -> SmallCounts], limit \in SmallLimit - 1 .. SmallLimit :
       block' = [freqs |-> f, limit |-> limit, fast |-> MakeHuffmanCode(f, limit),
                 optimal |-> MakeHuffmanCodeOptimal(f, limit)]
  /\ stage' = "code"

---------------------------------------------------------------------------
(* How a match is copied into the output (decompress/mod.rs,               *)
(* decompress/streaming.rs): in whole chunks by the fastloops, exactly by  *)
(* the generic loops.  The output is a function from positions to bytes.   *)

(* copy_within: source and destination may overlap.                        *)
CopyWithin(out, src, n, dst) ==
  [i \in DOMAIN out |-> IF dst <= i /\ i < dst + n THEN out[src + i - dst] ELSE out[i]]

Fill(out, byte, n, dst) == [i \in DOMAIN out |-> IF dst <= i /\ i < dst + n THEN byte ELSE out[i]]

(* The bytes the chunked copy may write past the match.                    *)
CHUNK_OVERRUN == 31

(* A chunk's size and the distance to the next one.                        *)
ChunkSize(offset) == IF offset >= 32 THEN 32 ELSE 16

(* Mutant: overlapping copies step a whole chunk.                          *)
ChunkStep_Whole(offset) == ChunkSize(offset)

ChunkStep(offset) == IF offset \in 2 .. 15 THEN offset ELSE ChunkSize(offset)

FastloopMatchCopy(out, pos, length, offset) ==
  LET step == ChunkStep(offset)
      chunks == (length + step - 1) \div step
      Chunk(o, i) == IF offset = 1 THEN Fill(o, out[pos - 1], 16, pos + i)
                     ELSE CopyWithin(o, pos - offset + i, ChunkSize(offset), pos + i)
      copied[k \in 0 .. chunks] == IF k = 0 THEN out ELSE Chunk(copied[k - 1], (k - 1) * step)
  IN  copied[chunks]

(* The generic loop and write_match_inline.                                *)
ExactMatchCopy(out, pos, length, offset) ==
  LET src == pos - offset
      byte[i \in src .. pos + length - 1] == IF i < pos THEN out[i] ELSE byte[i - offset]
      doubled[k \in 0 .. 8] ==
        IF k = 0 THEN [out |-> CopyWithin(out, src, offset, pos), copied |-> offset]
        ELSE LET st == doubled[k - 1]
                 rest == length - st.copied
                 chunk == IF st.copied < rest THEN st.copied ELSE rest
             IN  [out |-> CopyWithin(st.out, pos, chunk, pos + st.copied),
                  copied |-> st.copied + chunk]
  IN  IF offset >= length THEN CopyWithin(out, src, length, pos)
      ELSE IF offset = 1 THEN Fill(out, out[src], length, pos)
      ELSE IF length <= 32
      THEN [i \in DOMAIN out |-> IF pos <= i /\ i < pos + length THEN byte[i] ELSE out[i]]
      ELSE doubled[8].out

(* The bytes before a match are all different, so are those after it.      *)
Output(pos, length) == [i \in 0 .. pos + length + CHUNK_OVERRUN |-> i]

SendMatch ==
  /\ stage = "idle"
  /\ \E m \in Matches :
       LET ls == LengthSlot(m.length)
           os == OffsetSlot(m.offset)
       IN  block' = [match |-> m, lengthSlot |-> ls, offsetSlot |-> os,
                     lengthExtra |-> m.length - LengthBase[ls + 1],
                     offsetExtra |-> m.offset - OffsetBase(os)]
  /\ stage' = "match"

CopyMatch ==
  /\ stage = "match"
  /\ block.match.copy
  /\ LET length == LengthResult(block.lengthSlot).base + block.lengthExtra
         offset == OffsetResult(block.offsetSlot).base + block.offsetExtra
         out == Output(offset + 1, length)
     IN  block' = block @@
           [fast |-> FastloopMatchCopy(out, offset + 1, length, offset),
            exact |-> ExactMatchCopy(out, offset + 1, length, offset)]
  /\ stage' = "copied"

HBNext ==
  \/ CountSymbols \/ BuildCodes \/ SendHeader \/ SendLens \/ ReadHeader \/ BuildTables
  \/ BuildSmallTable \/ BuildSmallCode \/ SendMatch \/ CopyMatch

---------------------------------------------------------------------------
(* Reference definitions: the canonical code of RFC 1951, 3.2.2, and the   *)
(* cheapest complete code of a given greatest length.                      *)

(* Codespace in units of 2^-limit.                                         *)
Codespace(lens, limit) ==
  Sum([s \in DOMAIN lens |-> IF lens[s] = 0 THEN 0 ELSE 2^(limit - lens[s])])

(* The bits of s's codeword, first one lowest: the codespace of everything *)
(* sorted before it, as a number of that many bits, reversed.              *)
Codeword(lens, s) ==
  LET before == {t \in DOMAIN lens : lens[t] > 0 /\ (lens[t] < lens[s] \/ (lens[t] = lens[s] /\ t < s))}
      number == Sum([t \in DOMAIN lens |-> IF t \in before THEN 2^(lens[s] - lens[t]) ELSE 0])
  IN  Sum([b \in 0 .. lens[s] - 1 |-> Bit(number, b) * 2^(lens[s] - 1 - b)])

Starts(w, lens, s) == lens[s] > 0 /\ w % (2^lens[s]) = Codeword(lens, s)

(* Nondecreasing complete length sequences of k codewords.                 *)
Profiles ==
  [k \in 2 .. Cardinality(SmallSyms) |-> [limit \in SmallLimit - 1 .. SmallLimit |->
     {p \in [1 .. k -> 1 .. limit] :
        /\ \A i \in 1 .. k - 1 : p[i] <= p[i + 1]
        /\ Sum([i \in 1 .. k |-> 2^(limit - p[i])]) = 2^limit}]]

CheapestCost(freqs, limit) ==
  LET sorted == SortSeq(SelectSeq([i \in 1 .. NumSyms(freqs) |-> freqs[i - 1]], LAMBDA f : f > 0),
                        LAMBDA a, b : a > b)
      costs == {Sum([i \in DOMAIN sorted |-> sorted[i] * p[i]]) : p \in Profiles[Len(sorted)][limit]}
  IN  CHOOSE c \in costs : \A d \in costs : c <= d

CodeCost(freqs, lens) == Sum([s \in DOMAIN freqs |-> freqs[s] * lens[s]])

---------------------------------------------------------------------------
(* A code is usable when it is complete, within its limit, and gives every *)
(* counted symbol the codeword RFC 1951 would.                             *)
Usable(code, freqs, limit) ==
  /\ \A s \in DOMAIN freqs : freqs[s] > 0 => code.lens[s] > 0
  /\ \A s \in DOMAIN freqs : code.lens[s] <= limit
  /\ Codespace(code.lens, limit) = 2^limit
  /\ \A s \in DOMAIN freqs : code.lens[s] > 0 => code.codewords[s] = Codeword(code.lens, s)

(* Every code the encoder builds is usable, however the counts were        *)
(* smoothed and whatever limit was tried; package merge is optimal under   *)
(* its limit, and the heuristic is too whenever its limit does not bind    *)
(* (make_huffman_code, length_limited_code_lengths, make_huffman_codes_best). *)
CodesAreOptimal ==
  /\ stage = "code" =>
       LET f == block.freqs
           used == Cardinality({s \in DOMAIN f : f[s] > 0})
       IN  /\ Usable(block.fast, f, block.limit)
           /\ Usable(block.optimal, f, block.limit)
           /\ used >= 2 => /\ CodeCost(f, block.optimal.lens) = CheapestCost(f, block.limit)
                           /\ CodeCost(f, block.fast.lens) >= CheapestCost(f, block.limit)
                           /\ block.limit >= used - 1 =>
                                CodeCost(f, block.fast.lens) = CheapestCost(f, block.limit)
  /\ stage = "coded" =>
       /\ Usable(block.codes.litlen, block.freqs.litlen, MaxBits)
       /\ Usable(block.codes.offset, block.freqs.offset, MaxBits)

(* The bits of the header after the block type.                            *)
HeaderBits(header) ==
  5 + 5 + 4 + 3 * Len(header.explicit)
  + Sum([k \in DOMAIN header.items |-> header.items[k].len + header.items[k].extraLen])

(* The decoder reads back from every header exactly the lengths that were  *)
(* sent, the header takes exactly the bits the encoder costed it at (block *)
(* choice and splitting rest on it), and the total the search announces is *)
(* that of the block it returns (compute_precode_items_flagged,            *)
(* dynamic_header_bits, make_huffman_codes_best, block_cost_best).         *)
HeaderReadsBack ==
  /\ stage = "sent" => /\ HeaderBits(block.header) = block.header.cost
                       /\ Len(block.header.explicit) \in 4 .. 19
  /\ stage = "read" => block.read = [ok |-> TRUE, lens |-> block.lens]
  /\ stage = "coded" /\ block.cost # -1 =>
       /\ block.cost = TreeHeaderCost(block.codes)
                       + BlockSymbolCost(block.freqs, block.codes.litlen.lens, block.codes.offset.lens)
       /\ BlockCostBest(block.freqs) <= BlockCostSimple(block.freqs)

Decodes(built, lens, w) ==
  \E s \in DOMAIN lens : Starts(w, lens, s) /\ Lookup(built, w) = SymbolEntry(s, lens[s])

SmallWords == 0 .. 2^SmallLimit - 1

(* A table is built exactly for the complete codes, for no codewords, and  *)
(* for a single codeword of one bit; whatever bits follow, the lookup then *)
(* gives the symbol whose codeword they start with, never an entry left by *)
(* an earlier block; the encoder's static codes are the decoder's; a       *)
(* double-literal entry stands for exactly the two literals that two       *)
(* lookups would give, wherever both fit (build_decode_table,              *)
(* add_double_literals).                                                   *)
TablesDecode ==
  /\ stage = "table" =>
       LET lens == block.lens
           used == {s \in DOMAIN lens : lens[s] > 0}
           complete == Codespace(lens, SmallLimit) = 2^SmallLimit
           special == used = {} \/ \E s \in used : used = {s} /\ lens[s] = 1
           paired == [block.built EXCEPT !.table = block.doubled]
           Lit(e) == e.kind = "symbol" /\ e.sym \in Literals
       IN  /\ block.built.ok <=> complete \/ special
           /\ complete => \A w \in SmallWords : Decodes(block.built, lens, w)
           /\ special => \A w \in SmallWords :
                Lookup(block.built, w) = SymbolEntry(IF used = {} THEN 0 ELSE CHOOSE s \in used : TRUE, 1)
           /\ block.built.ok => \A w \in SmallWords :
                LET e == Lookup(block.built, w)
                    f == Lookup(block.built, w \div 2^e.len)
                IN  Lookup(paired, w) =
                      IF Lit(e) /\ Lit(f) /\ e.len + f.len <= block.built.bits
                      THEN DoubleEntry(e.sym, f.sym, e.len + f.len) ELSE e
  /\ stage = "ready" =>
       \A c \in {"litlen", "offset"} :
         /\ block.tables[c].ok
         /\ LET lens == block.codes[c].lens
            IN  \A s \in DOMAIN lens : lens[s] > 0 =>
                  Lookup(block.tables[c], block.codes[c].codewords[s]) = SymbolEntry(s, lens[s])
  /\ stage = "idle" =>
       \A c \in {"litlen", "offset"} :
         LET lens == IF c = "litlen" THEN StaticLitlenLens ELSE StaticOffsetLens
         IN  /\ InitStaticCodes[c].lens = lens
             /\ \A s \in DOMAIN lens :
                  Lookup(StaticTables[c], Codeword(lens, s)) = SymbolEntry(s, lens[s])

(* A match comes out as the bytes it stands for: the slots and extra bits  *)
(* the encoder picks fit their fields and give the decoder the same length *)
(* and offset, and both copies write the repetition of the last offset     *)
(* bytes, the chunked one touching at most 31 bytes more                   *)
(* (LENGTH_SLOT, get_offset_slot, fastloop_match_copy, write_match_inline). *)
MatchesCopyRight ==
  /\ stage \in {"match", "copied"} =>
       LET len == LengthResult(block.lengthSlot)
           off == OffsetResult(block.offsetSlot)
       IN  /\ block.lengthExtra \in 0 .. 2^len.extra - 1
           /\ block.offsetExtra \in 0 .. 2^off.extra - 1
           /\ len.base + block.lengthExtra = block.match.length
           /\ off.base + block.offsetExtra = block.match.offset
  /\ stage = "copied" =>
       LET pos == block.match.offset + 1
           end == pos + block.match.length
       IN  /\ \A i \in pos .. end - 1 :
                LET byte == pos - block.match.offset + ((i - pos) % block.match.offset)
                IN  block.fast[i] = byte /\ block.exact[i] = byte
           /\ \A i \in 0 .. pos - 1 : block.fast[i] = i /\ block.exact[i] = i
           /\ block.exact[end] = end
           /\ block.fast[end + CHUNK_OVERRUN] = end + CHUNK_OVERRUN

=============================================================================

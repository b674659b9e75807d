----------------------------- MODULE BlockCodes -----------------------------
(***************************************************************************)
(* The codes of a dynamic block and its header (compress/block.rs): codes  *)
(* from symbol counts, the search for the cheapest ones, the run-length    *)
(* items that carry the lengths, and the costs the encoder decides by.     *)
(* The precode is real; the litlen and offset alphabets are scaled down.   *)
(***************************************************************************)
EXTENDS Integers, Sequences, FiniteSets, TLC, HuffmanCode

CONSTANTS
  NumLitlen,     \* litlen symbols are 0 .. NumLitlen-1 (288)
  FirstLen,      \* the first length symbol (257); the one before it ends the block
  NumOffset,     \* offset symbols are 0 .. NumOffset-1 (32)
  ExtraBits,     \* extra bits of length symbol FirstLen+i and of offset symbol i, both ExtraBits[i]
  FastLimit,     \* longest litlen codeword of make_huffman_codes (14)
  MaxBits,       \* longest codeword of the format (15)
  SweepTo        \* the last limit the search tries (9)

ASSUME AlphabetAssumption ==
  /\ {NumLitlen, FirstLen, NumOffset} \subseteq Nat
  /\ 0 < FirstLen /\ FirstLen < NumLitlen
  /\ SweepTo <= FastLimit /\ FastLimit <= MaxBits

LitlenSyms == 0 .. NumLitlen - 1

OffsetSyms == 0 .. NumOffset - 1

PrecodeSyms == 0 .. 18

PrecodeExtra(sym) == CASE sym < 16 -> 0 [] sym = 16 -> 2 [] sym = 17 -> 3 [] sym = 18 -> 7

DEFLATE_MAX_PRE_CODEWORD_LEN == 7

DEFLATE_PRECODE_LENS_PERMUTATION ==
  <<16, 17, 18, 0, 8, 7, 9, 6, 10, 5, 11, 4, 12, 3, 13, 2, 14, 1, 15>>

---------------------------------------------------------------------------
(* The lengths as sent: trailing zeros are dropped, but not below the end  *)
(* of block symbol and one offset symbol.                                  *)
SentLens(lens, least) ==
  LET n == CHOOSE n \in least .. NumSyms(lens) :
             /\ n = least \/ lens[n - 1] # 0
             /\ \A s \in DOMAIN lens : s >= n => lens[s] = 0
  IN  [k \in 1 .. n |-> lens[k - 1]]

CombinedLens(codes) == SentLens(codes.litlen.lens, FirstLen) \o SentLens(codes.offset.lens, 1)

---------------------------------------------------------------------------
(* Run-length items.  A flag set says which repeat codes may be used and   *)
(* which run lengths are split evenly.                                     *)

Flags == [use_16 : BOOLEAN, use_17 : BOOLEAN, use_18 : BOOLEAN, fuse_7 : BOOLEAN, fuse_8 : BOOLEAN]

DefaultFlags == [use_16 |-> TRUE, use_17 |-> TRUE, use_18 |-> TRUE, fuse_7 |-> FALSE, fuse_8 |-> FALSE]

ValidFlags == {f \in Flags : (f.fuse_7 \/ f.fuse_8) => f.use_16}

Item(sym, extra) == [sym |-> sym, extra |-> extra]

(* As many repeats of least .. most as the run still holds.                *)
Repeats(sym, least, most, run) ==
  LET items[r \in 0 .. run] ==
        IF r < least THEN <<>>
        ELSE <<Item(sym, Lesser(r, most) - least)>> \o items[r - Lesser(r, most)]
  IN  items[run]

Unrepeated(sym, least, most, run) ==
  LET left[r \in 0 .. run] == IF r < least THEN r ELSE left[r - Lesser(r, most)]
  IN  left[run]

Plain(len, n) == [k \in 1 .. n |-> Item(len, 0)]

ZeroRun(run, flags) ==
  LET left == IF flags.use_18 THEN Unrepeated(18, 11, 138, run) ELSE run
      rest == IF flags.use_17 THEN Unrepeated(17, 3, 10, left) ELSE left
  IN  (IF flags.use_18 THEN Repeats(18, 11, 138, run) ELSE <<>>)
      \o (IF flags.use_17 THEN Repeats(17, 3, 10, left) ELSE <<>>) \o Plain(0, rest)

(* Mutant: eight equal lengths as 1 + 4 + 4.                               *)
LengthRun_FourFour(len, run, flags) ==
  CASE ~ flags.use_16 \/ run < 4 -> Plain(len, run)
    [] flags.use_16 /\ flags.fuse_7 /\ run = 7 -> <<Item(len, 0), Item(16, 0), Item(16, 0)>>
    [] flags.use_16 /\ flags.fuse_8 /\ run = 8 -> <<Item(len, 0), Item(16, 1), Item(16, 1)>>
    [] OTHER -> <<Item(len, 0)>> \o Repeats(16, 3, 6, run - 1)
                \o Plain(len, Unrepeated(16, 3, 6, run - 1))

LengthRun(len, run, flags) ==
  CASE ~ flags.use_16 \/ run < 4 -> Plain(len, run)
    [] flags.use_16 /\ flags.fuse_7 /\ run = 7 -> <<Item(len, 0), Item(16, 0), Item(16, 0)>>
    [] flags.use_16 /\ flags.fuse_8 /\ run = 8 -> <<Item(len, 0), Item(16, 1), Item(16, 0)>>
    [] OTHER -> <<Item(len, 0)>> \o Repeats(16, 3, 6, run - 1)
                \o Plain(len, Unrepeated(16, 3, 6, run - 1))

(* compute_precode_items_flagged: lens is the sequence of combined lengths. *)
PrecodeItems(lens, flags) ==
  LET starts == SelectSeq([i \in DOMAIN lens |-> i], LAMBDA i : i = 1 \/ lens[i] # lens[i - 1])
      End(k) == IF k = Len(starts) THEN Len(lens) ELSE starts[k + 1] - 1
      Run(k) == End(k) - starts[k] + 1
  IN  FlattenSeq([k \in DOMAIN starts |->
        IF lens[starts[k]] = 0 THEN ZeroRun(Run(k), flags)
        ELSE LengthRun(lens[starts[k]], Run(k), flags)])

ItemFreqs(items) ==
  [s \in PrecodeSyms |-> Cardinality({k \in DOMAIN items : items[k].sym = s})]

(* How many precode lengths are sent, at least 4.                          *)
ExplicitLens(precodeLens) ==
  CHOOSE n \in 4 .. 19 :
    /\ n = 4 \/ precodeLens[DEFLATE_PRECODE_LENS_PERMUTATION[n]] # 0
    /\ \A k \in n + 1 .. 19 : precodeLens[DEFLATE_PRECODE_LENS_PERMUTATION[k]] = 0

(* The sum of a function on an interval that starts at 0 or 1.              *)
Sum(f) == LET lo == IF 0 \in DOMAIN f THEN 0 ELSE 1
          IN  SumIn(f, lo, lo + Cardinality(DOMAIN f) - 1)

(* 14 fixed bits, 3 per precode length sent, and the items.                *)
PrecodeCost(items, precodeLens) ==
  LET freqs == ItemFreqs(items)
  IN  14 + 3 * ExplicitLens(precodeLens)
      + Sum([s \in PrecodeSyms |-> freqs[s] * (precodeLens[s] + PrecodeExtra(s))])

Precode(items, code) == [items |-> items, code |-> code, cost |-> PrecodeCost(items, code.lens)]

(* write_dynamic_header_body and dynamic_header_bits: default flags and    *)
(* the fast code.                                                          *)
DefaultPrecode(lens) ==
  LET For(items) == Precode(items, MakeHuffmanCode(ItemFreqs(items), DEFLATE_MAX_PRE_CODEWORD_LEN))
  IN  For(PrecodeItems(lens, DefaultFlags))

(* compute_precode_cost *)
FlaggedPrecode(lens, flags) ==
  LET For(items) ==
        Precode(items, MakeHuffmanCodeOptimal(ItemFreqs(items), DEFLATE_MAX_PRE_CODEWORD_LEN))
  IN  For(PrecodeItems(lens, flags))

(* The flag sets in the order of their bits; the first of the cheapest wins. *)
FlagBits(f) == (IF f.use_16 THEN 1 ELSE 0) + (IF f.use_17 THEN 2 ELSE 0) + (IF f.use_18 THEN 4 ELSE 0)
               + (IF f.fuse_7 THEN 8 ELSE 0) + (IF f.fuse_8 THEN 16 ELSE 0)

FirstCheapest(found) ==
  found[CHOOSE f \in ValidFlags : \A g \in ValidFlags :
          \/ found[f].cost < found[g].cost
          \/ (found[f].cost = found[g].cost /\ FlagBits(f) <= FlagBits(g))]

BestPrecode(lens) == FirstCheapest([f \in ValidFlags |-> FlaggedPrecode(lens, f)])

---------------------------------------------------------------------------
(* The body's cost under given lengths, for the counts the block has.      *)
BlockSymbolCost(freqs, litlenLens, offsetLens) ==
  Sum([s \in LitlenSyms |-> freqs.litlen[s] *
         (litlenLens[s] + (IF s >= FirstLen THEN ExtraBits[s - FirstLen] ELSE 0))])
  + Sum([s \in OffsetSyms |-> freqs.offset[s] * (offsetLens[s] + ExtraBits[s])])

TreeHeaderCost(codes) == BestPrecode(CombinedLens(codes)).cost

(* make_huffman_codes *)
MakeHuffmanCodes(freqs) ==
  [litlen |-> MakeHuffmanCode(freqs.litlen, FastLimit),
   offset |-> MakeHuffmanCode(freqs.offset, MaxBits)]

(* init_static_codes: the static code comes from made-up counts.  Litlen   *)
(* symbols are taken in groups of eight, codewords 3 bits shorter.         *)
InitStaticCodes ==
  [litlen |-> MakeHuffmanCode([g \in 0 .. 35 |-> IF g < 18 THEN 2 ELSE IF g < 32 THEN 1
                                                 ELSE IF g < 35 THEN 4 ELSE 2], 14 - 3),
   offset |-> MakeHuffmanCode([s \in 0 .. 31 |-> 1], 15)]

(* One attempt of the search: codes for smoothed counts, costed on the     *)
(* true ones.                                                              *)
Strategy(freqs, smooth, limit) ==
  LET Smoothed(f) == CASE smooth = "raw" -> f
                       [] smooth = "rle" -> SmoothForRle(f)
                       [] smooth = "zop" -> SmoothForRleZop(f)
      Costed(codes) ==
        [codes |-> codes,
         cost |-> BlockSymbolCost(freqs, codes.litlen.lens, codes.offset.lens)
                  + TreeHeaderCost(codes)]
      Optimal == [p \in {"litlen", "offset"} |->
                    MakeHuffmanCodeOptimal(Smoothed(freqs[p]),
                                           IF p = "litlen" THEN limit ELSE MaxBits)]
  IN  Costed(Optimal)

(* make_huffman_codes_best: the first of the cheapest attempts.            *)
MakeHuffmanCodesBest(freqs) ==
  LET limits == MaxBits - SweepTo
      smooth == <<"raw", "rle", "zop">> \o [k \in 1 .. 2 * limits |->
                                             IF k % 2 = 1 THEN "raw" ELSE "rle"]
      tries == [k \in DOMAIN smooth |->
                  Strategy(freqs, smooth[k], IF k <= 3 THEN MaxBits ELSE MaxBits - (k - 2) \div 2)]
      First(found) == found[CHOOSE k \in DOMAIN found :
                              /\ \A j \in DOMAIN found : found[k].cost <= found[j].cost
                              /\ \A j \in 1 .. k - 1 : found[j].cost > found[k].cost]
  IN  First(tries)

(* block_cost_best: only the cheapest smoothing is tried with lower limits, *)
(* and the sweep ends at the first limit that costs more.                  *)
BlockCostBest(freqs) ==
  LET Cost(smooth, limit) == Strategy(freqs, smooth, limit).cost
      Lowest(full) == CHOOSE c \in {full[s] : s \in DOMAIN full} : \A s \in DOMAIN full : c <= full[s]
      Sweep(full, low) ==
        LET smooth == IF low = full["rle"] THEN "rle" ELSE IF low = full["zop"] THEN "zop" ELSE "raw"
            Lower(st, cost) == IF st.over THEN st
                               ELSE [best |-> Lesser(st.best, cost), prev |-> cost,
                                     over |-> cost > st.prev]
            swept[limit \in SweepTo .. MaxBits] ==
              IF limit = MaxBits THEN [best |-> low, prev |-> low, over |-> FALSE]
              ELSE Lower(swept[limit + 1], Cost(smooth, limit))
        IN  swept[SweepTo].best
      FromAll(full) == Sweep(full, Lowest(full))
  IN  3 + FromAll([s \in {"raw", "rle", "zop"} |-> Cost(s, MaxBits)])

(* block_cost_simple *)
BlockCostSimple(freqs) == 3 + Strategy(freqs, "rle", MaxBits).cost

---------------------------------------------------------------------------
(* Length and offset slots (the encoder's tables, and get_offset_slot).    *)

LengthBase == <<3, 4, 5, 6, 7, 8, 9, 10, 11, 13, 15, 17, 19, 23, 27, 31, 35, 43, 51, 59, 67, 83,
                99, 115, 131, 163, 195, 227, 258>>

LengthExtra(slot) == IF slot < 8 \/ slot = 28 THEN 0 ELSE slot \div 4 - 1

OffsetExtra(slot) == IF slot < 2 THEN 0 ELSE slot \div 2 - 1

OffsetBase(slot) == IF slot < 2 THEN slot + 1 ELSE 1 + (2 + (slot % 2)) * 2^(slot \div 2 - 1)

(* LENGTH_SLOT: the slots are laid out in order, a later one over an       *)
(* earlier one.                                                            *)
LengthSlot(len) ==
  LET covering == {s \in 0 .. 28 : LengthBase[s + 1] <= len
                                   /\ len < LengthBase[s + 1] + 2^LengthExtra(s)}
  IN  CHOOSE s \in covering : \A t \in covering : t <= s

OffsetSlotSmall(off1) ==
  CHOOSE s \in 0 .. 29 : OffsetBase(s) - 1 <= off1 /\ off1 < OffsetBase(s) - 1 + 2^OffsetExtra(s)

(* The top three bits of 256 - offset, which wraps when offset is larger.  *)
OffsetSlot(offset) ==
  LET n == IF offset <= 256 THEN 0 ELSE 7
  IN  OffsetSlotSmall((offset - 1) \div 2^n) + 2 * n

=============================================================================

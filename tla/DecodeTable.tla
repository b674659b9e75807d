---------------------------- MODULE DecodeTable ----------------------------
(***************************************************************************)
(* The decoder's Huffman tables (decompress/mod.rs): the construction from *)
(* codeword lengths with its main table and subtables, the double-literal  *)
(* entries laid over it, and the lookup the decode loops do.               *)
(*                                                                         *)
(* A table is a function from indexes to entries.  It starts out holding   *)
(* whatever the last block left, the entry Stale.                          *)
(***************************************************************************)
EXTENDS Integers, Sequences, FiniteSets, TLC, HuffmanCode

Stale == [kind |-> "stale"]

(* make_decode_table_entry                                                 *)
SymbolEntry(sym, len) == [kind |-> "symbol", sym |-> sym, len |-> len]

SubtableEntry(start, bits) == [kind |-> "subtable", start |-> start, bits |-> bits]

DoubleEntry(first, second, len) ==
  [kind |-> "double", first |-> first, second |-> second, len |-> len]

---------------------------------------------------------------------------
(* The longest length in use, and at least 1.                              *)
MaxCodewordLen(lens, maxLen) ==
  CHOOSE m \in 1 .. maxLen :
    /\ m = 1 \/ LenCount(lens, m) > 0
    /\ \A l \in m + 1 .. maxLen : LenCount(lens, l) = 0

(* Codespace used, in units of the longest codeword.                       *)
CodespaceUsed(lens, longest) ==
  LET used[l \in 0 .. longest] == IF l = 0 THEN 0 ELSE 2 * used[l - 1] + LenCount(lens, l)
  IN  used[longest]

(* sorted_syms without the unused ones: by length, then by symbol.         *)
SortedSyms(lens) ==
  SortSeq(SelectSeq([k \in 1 .. NumSyms(lens) |-> k - 1], LAMBDA s : lens[s] > 0),
          LAMBDA s, t : lens[s] < lens[t] \/ (lens[s] = lens[t] /\ s < t))

(* The next codeword of this length, bit-reversed: the highest zero bit    *)
(* becomes one and the bits above it zero.                                 *)
NextCodeword(w, len) ==
  LET bit == CHOOSE b \in 0 .. len - 1 : /\ Bit(w, b) = 0
                                         /\ \A c \in b + 1 .. len - 1 : Bit(w, c) = 1
  IN  (w % (2^bit)) + 2^bit

AllOnes(w, len) == w = 2^len - 1

(* copy_within(0..2^from, 2^from), repeated until 2^to entries are there.  *)
Doubled(table, from, to) == IF from = to THEN table
                            ELSE [x \in 0 .. 2^to - 1 |-> table[x % (2^from)]]

(* The size in bits of the subtable that begins with `left` codewords of   *)
(* length len still to place.                                              *)
SubtableBits(lens, len, left, tableBits) ==
  LET space[b \in len - tableBits .. 15] ==
        IF b = len - tableBits THEN left ELSE 2 * space[b - 1] + LenCount(lens, tableBits + b)
  IN  CHOOSE b \in len - tableBits .. 15 :
        /\ space[b] >= 2^b
        /\ \A c \in len - tableBits .. b - 1 : space[c] < 2^c

(* Place one symbol in the main table, which has grown to its length.      *)
PlaceMain(st, sym, len) ==
  [st EXCEPT !.table = [Doubled(st.table, st.filled, len) EXCEPT ![st.codeword] = SymbolEntry(sym, len)],
             !.filled = len]

(* Place one symbol in the subtable of its prefix, a new one if need be.   *)
PlaceSub(st, lens, sym, left, tableBits) ==
  LET len == lens[sym]
      main == Doubled(st.table, st.filled, tableBits)
      prefix == st.codeword % (2^tableBits)
      new == prefix # st.prefix
      end == Cardinality(DOMAIN main)
      bits == IF new THEN SubtableBits(lens, len, left, tableBits) ELSE st.bits
      start == IF new THEN end ELSE st.start
      opened == IF new THEN [x \in 0 .. end + 2^bits - 1 |->
                               IF x = prefix THEN SubtableEntry(end, bits)
                               ELSE IF x < end THEN main[x] ELSE Stale]
                ELSE main
  IN  [st EXCEPT !.table = [x \in DOMAIN opened |->
                              IF /\ x >= start + st.codeword \div 2^tableBits
                                 /\ x < start + 2^bits
                                 /\ (x - start - st.codeword \div 2^tableBits) % (2^(len - tableBits)) = 0
                              THEN SymbolEntry(sym, len - tableBits) ELSE opened[x]],
                 !.prefix = prefix, !.start = start, !.bits = bits, !.filled = tableBits]

CompleteTable(lens, tableBits) ==
  LET sorted == SortedSyms(lens)
      n == Len(sorted)
      shortest == Lesser(lens[sorted[1]], tableBits)
      Left(k) == Cardinality({j \in k .. n : lens[sorted[j]] = lens[sorted[k]]})
      Advance(st, k) == [st EXCEPT !.codeword = IF AllOnes(@, lens[sorted[k]]) THEN @
                                                ELSE NextCodeword(@, lens[sorted[k]])]
      placed[k \in 0 .. n] ==
        IF k = 0 THEN [table |-> [x \in 0 .. 2^shortest - 1 |-> Stale], filled |-> shortest,
                       codeword |-> 0, prefix |-> -1, start |-> 0, bits |-> 0]
        ELSE Advance(IF lens[sorted[k]] <= tableBits
                     THEN PlaceMain(placed[k - 1], sorted[k], lens[sorted[k]])
                     ELSE PlaceSub(placed[k - 1], lens, sorted[k], Left(k), tableBits), k)
  IN  Doubled(placed[n].table, placed[n].filled, tableBits)

(* build_decode_table.  The litlen table alone is shrunk to the longest    *)
(* codeword (table_bits_ret).                                              *)
BuildDecodeTable(lens, tableBits, maxLen, shrinks) ==
  LET longest == MaxCodewordLen(lens, maxLen)
      bits == IF shrinks THEN Lesser(tableBits, longest) ELSE tableBits
      used == CodespaceUsed(lens, longest)
      Rejected == [ok |-> FALSE, bits |-> bits, table |-> <<>>]
      Filled(sym) == [ok |-> TRUE, bits |-> bits,
                      table |-> [x \in 0 .. 2^bits - 1 |-> SymbolEntry(sym, 1)]]
  IN  IF used > 2^longest THEN Rejected
      ELSE IF used = 0 THEN Filled(0)
      ELSE IF used < 2^longest
      THEN IF used = 2^(longest - 1) /\ LenCount(lens, 1) = 1 THEN Filled(SortedSyms(lens)[1])
           ELSE Rejected
      ELSE [ok |-> TRUE, bits |-> bits, table |-> CompleteTable(lens, bits)]

(* Mutant: from the bottom up, the second literal's entry is a pair already. *)
AddDoubleLiterals_Up(table, bits, literals) ==
  LET Single(e) == e.kind = "symbol" /\ e.sym \in literals
      Pair(t, i) ==
        LET e1 == t[i]
            e2 == t[i \div 2^e1.len]
        IN  IF Single(e1) /\ e1.len < bits /\ Single(e2) /\ e1.len + e2.len <= bits
            THEN [t EXCEPT ![i] = DoubleEntry(e1.sym, e2.sym, e1.len + e2.len)]
            ELSE t
      upto[i \in 0 .. 2^bits] == IF i = 0 THEN table ELSE Pair(upto[i - 1], i - 1)
  IN  upto[2^bits]

(* add_double_literals: entries are visited from the top down, so the one  *)
(* read for the second literal is still single.                            *)
AddDoubleLiterals(table, bits, literals) ==
  LET Single(e) == e.kind = "symbol" /\ e.sym \in literals
      Pair(t, i) ==
        LET e1 == t[i]
            e2 == t[i \div 2^e1.len]
        IN  IF Single(e1) /\ e1.len < bits /\ Single(e2) /\ e1.len + e2.len <= bits
            THEN [t EXCEPT ![i] = DoubleEntry(e1.sym, e2.sym, e1.len + e2.len)]
            ELSE t
      from[i \in 0 .. 2^bits] == IF i = 2^bits THEN table ELSE Pair(from[i + 1], i)
  IN  from[0]

(* The lookup of the decode loops: w holds at least 15 bits of input.      *)
Lookup(built, w) ==
  LET e == built.table[w % (2^built.bits)]
      sub == built.table[e.start + ((w \div 2^built.bits) % (2^e.bits))]
  IN  IF e.kind = "subtable" THEN [sub EXCEPT !.len = @ + built.bits] ELSE e

---------------------------------------------------------------------------
(* The decode results: the base and the extra bits of length symbol 257+k  *)
(* and of offset symbol k, those no encoder may use included.              *)

LengthResult(k) ==
  [base |-> IF k >= 28 THEN 258
            ELSE <<3, 4, 5, 6, 7, 8, 9, 10, 11, 13, 15, 17, 19, 23, 27, 31, 35, 43, 51, 59, 67,
                   83, 99, 115, 131, 163, 195, 227>>[k + 1],
   extra |-> IF k < 8 \/ k >= 28 THEN 0 ELSE k \div 4 - 1]

OffsetResult(k) ==
  [base |-> <<1, 2, 3, 4, 5, 7, 9, 13, 17, 25, 33, 49, 65, 97, 129, 193, 257, 385, 513, 769, 1025,
              1537, 2049, 3073, 4097, 6145, 8193, 12289, 16385, 24577, 24577, 24577>>[k + 1],
   extra |-> IF k < 2 THEN 0 ELSE IF k >= 30 THEN 13 ELSE k \div 2 - 1]

---------------------------------------------------------------------------
(* The static tables (build_static_tables).  The litlen code is taken in   *)
(* groups of eight symbols, each codeword 3 bits shorter: every length     *)
(* class is a whole number of groups.                                      *)

StaticLitlenLens == [g \in 0 .. 35 |-> IF g < 18 THEN 8 - 3 ELSE IF g < 32 THEN 9 - 3
                                       ELSE IF g < 35 THEN 7 - 3 ELSE 8 - 3]

StaticOffsetLens == [s \in 0 .. 31 |-> 5]

LITLEN_TABLEBITS == 11

OFFSET_TABLEBITS == 8

PRECODE_TABLEBITS == 7

StaticTables ==
  [litlen |-> BuildDecodeTable(StaticLitlenLens, LITLEN_TABLEBITS - 3, 15, TRUE),
   offset |-> BuildDecodeTable(StaticOffsetLens, OFFSET_TABLEBITS, 15, FALSE)]

=============================================================================

---------------------------- MODULE DeflateStreams ----------------------------
(***************************************************************************)
(* Compressed streams as the decoders see them: a sequence of tokens, each *)
(* with the bits it occupies, and what RFC 1950-1952 say they mean.  The   *)
(* meaning (Decoded) is computed from the tokens alone and knows nothing   *)
(* of buffers or bit readers; it is what the decoders are checked against. *)
(*                                                                         *)
(* A token's kind is                                                       *)
(*   "wrapper"  zlib or gzip header           ok                           *)
(*   "block"    block header                  type, final                  *)
(*   "precode"  the explicit precode lengths after the first   ok          *)
(*   "lens"     one symbol of the code lengths; the last one gives the     *)
(*              longest litlen codeword                  last, ok, longest *)
(*   "len"      LEN/NLEN of a stored block    n, ok   (byte-aligned)       *)
(*   "byte"     a byte of a stored block      val                          *)
(*   "lit"      a literal                     val                          *)
(*   "match"    a length, then an offset of obits bits   length, offset    *)
(*   "eob"      end of block                                               *)
(*   "footer"   zlib or gzip trailer          sum, size (byte-aligned)     *)
(***************************************************************************)
EXTENDS Integers, Sequences, FiniteSets, FiniteSetsExt

Wrapped(ok, nbytes) == [kind |-> "wrapper", ok |-> ok, bits |-> 8 * nbytes]
Block(type, final) == [kind |-> "block", type |-> type, final |-> final,
                       bits |-> IF type = "dynamic" THEN 20 ELSE 3]
Precode(bits, ok) == [kind |-> "precode", ok |-> ok, bits |-> bits]
Lens(bits, last, ok, longest) ==
  [kind |-> "lens", last |-> last, ok |-> ok, longest |-> longest,
   bits |-> bits]
Stored(n, ok) == [kind |-> "len", n |-> n, ok |-> ok, bits |-> 32]
RawByte(v) == [kind |-> "byte", val |-> v, bits |-> 8]
Lit(v, bits) == [kind |-> "lit", val |-> v, bits |-> bits]
Match(offset, length, bits, obits) ==
  [kind |-> "match", offset |-> offset, length |-> length, bits |-> bits,
   obits |-> obits]
Eob(bits) == [kind |-> "eob", bits |-> bits]
Footer(sum, size, nbytes) ==
  [kind |-> "footer", sum |-> sum, size |-> size, bits |-> 8 * nbytes]

Width(t) == IF t.kind = "match" THEN t.bits + t.obits ELSE t.bits

Aligned(b) == b + ((8 - (b % 8)) % 8)

(* Where each token starts; the last entry is where the stream ends. *)
Starts(toks) ==
  LET start[k \in 1 .. (Len(toks) + 1)] ==
        LET after == IF k = 1 THEN 0 ELSE start[k - 1] + Width(toks[k - 1])
        IN  IF k <= Len(toks) /\ toks[k].kind \in {"len", "footer"}
              THEN Aligned(after) ELSE after
  IN  start

(* A stream is its tokens and how many of its bytes the source holds. *)
Truncated(toks, nbytes) == [toks |-> toks, nbytes |-> nbytes]

TotalBytes(toks) == Aligned(Starts(toks)[Len(toks) + 1]) \div 8

Whole(toks) == Truncated(toks, TotalBytes(toks))

(* The stream with its tokens' positions; the first `held` tokens are      *)
(* whole in the source.                                                    *)
Layout(s) ==
  LET starts == Starts(s.toks)
  IN  [toks   |-> s.toks,
       nbytes |-> s.nbytes,
       starts |-> starts,
       held   |-> Cardinality({k \in 1 .. Len(s.toks) :
                                 starts[k] + Width(s.toks[k]) <= 8 * s.nbytes})]

(***************************************************************************)
(* What a stream decodes to.  `fault` is set by the first token that is    *)
(* malformed, missing or refers to data before the stream's start.         *)
(***************************************************************************)
Copied(out, offset, length) ==
  out \o [i \in 1 .. length |-> out[Len(out) - offset + ((i - 1) % offset) + 1]]

Effect(d, t) ==
  CASE t.kind \in {"wrapper", "precode", "lens", "len"} ->
         [d EXCEPT !.fault = ~t.ok]
    [] t.kind = "block" ->
         [d EXCEPT !.final = t.final, !.fault = (t.type = "reserved")]
    [] t.kind \in {"byte", "lit"} -> [d EXCEPT !.out = Append(@, t.val)]
    [] t.kind = "match" ->
         IF t.offset <= Len(d.out)
           THEN [d EXCEPT !.out = Copied(@, t.offset, t.length)]
           ELSE [d EXCEPT !.fault = TRUE]
    [] t.kind = "footer" ->
         [d EXCEPT !.sum_ok = (t.sum = d.out), !.size_ok = (t.size = Len(d.out))]
    [] OTHER -> d

(***************************************************************************)
(* The grammar.  A place is what comes next: a wrapper, block, precode,    *)
(* lens, len, byte or footer, a "symbol" of a compressed block, the "end". *)
(***************************************************************************)
PlaceOf(t) == IF t.kind \in {"lit", "match", "eob"} THEN "symbol" ELSE t.kind

AfterBlock(final) == IF final THEN "footer" ELSE "block"

PlaceAfter(d, t) ==
  CASE t.kind = "wrapper" -> "block"
    [] t.kind = "block" -> CASE t.type = "dynamic" -> "precode"
                             [] t.type = "static" -> "symbol"
                             [] t.type = "stored" -> "len"
                             [] OTHER -> "end"
    [] t.kind = "precode" -> "lens"
    [] t.kind = "lens" -> IF t.last THEN "symbol" ELSE "lens"
    [] t.kind \in {"lit", "match"} -> "symbol"
    [] t.kind = "len" -> IF t.n = 0 THEN AfterBlock(d.final) ELSE "byte"
    [] t.kind = "byte" -> IF d.todo = 1 THEN AfterBlock(d.final) ELSE "byte"
    [] t.kind = "eob" -> AfterBlock(d.final)
    [] OTHER -> "end"

(* The bytes a stored block still has to give. *)
TodoAfter(d, t) ==
  CASE t.kind = "len" -> t.n
    [] t.kind = "byte" -> d.todo - 1
    [] OTHER -> 0

DecodeToken(d, t) ==
  IF d.fault THEN d
  ELSE [Effect(d, t) EXCEPT !.place = PlaceAfter(d, t), !.todo = TodoAfter(d, t)]

(* What the first k tokens decode to, for every k. *)
Undecoded(toks) ==
  [out |-> <<>>, final |-> FALSE, fault |-> FALSE, sum_ok |-> TRUE, size_ok |-> TRUE,
   place |-> IF toks # <<>> /\ toks[1].kind = "wrapper" THEN "wrapper" ELSE "block",
   todo |-> 0]

DecodedUpTo(toks) ==
  LET after[k \in 0 .. Len(toks)] ==
        IF k = 0 THEN Undecoded(toks) ELSE DecodeToken(after[k - 1], toks[k])
  IN  after

(* The tokens parse some bytes: each is of a kind the grammar allows, up   *)
(* to the first fault, and there are tokens up to a fault or to the end of *)
(* a block.                                                                *)
Parsed(s) ==
  LET after == DecodedUpTo(s.toks)
      last == after[Len(s.toks)]
  IN  /\ \A k \in 1 .. Len(s.toks) :
           after[k - 1].fault \/ PlaceOf(s.toks[k]) = after[k - 1].place
      /\ last.fault \/ last.place \in {"block", "footer", "end"}

(* The decoded bytes, whether the footer agrees with them, and how the     *)
(* stream ends: a fault, a final block with everything after it, or a      *)
(* byte-aligned block boundary (a segment).                                *)
Decoded(s) ==
  LET whole == s.held = Len(s.toks)
      d == DecodedUpTo(s.toks)[s.held]
  IN  [out     |-> d.out,
       sum_ok  |-> d.sum_ok,
       size_ok |-> d.size_ok,
       fault   |-> d.fault \/ ~whole,
       final   |-> whole /\ d.final,
       segment |-> whole /\ ~d.final /\ s.starts[Len(s.toks) + 1] = 8 * s.nbytes]

Productive(t) == t.kind \in {"byte", "lit", "match"}

(* A stream as a decoder's source delivers it. *)
Source(s) ==
  LET l == Layout(s)
  IN  [toks |-> l.toks, nbytes |-> l.nbytes, starts |-> l.starts, held |-> l.held,
       means |-> Decoded(l)]

(* For every k, the consecutive blocks without output up to token k; the   *)
(* longest run of them that ends.                                          *)
EmptyRuns(toks) ==
  LET run[k \in 0 .. Len(toks)] ==
        IF k = 0 \/ Productive(toks[k]) THEN 0
        ELSE run[k - 1] + (IF toks[k].kind = "block" THEN 1 ELSE 0)
  IN  run

LongestEmptyRun(toks) ==
  LET ends == {k \in 1 .. Len(toks) :
                 \/ toks[k].kind = "eob"
                 \/ toks[k].kind = "len" /\ toks[k].n = 0}
  IN  Max({EmptyRuns(toks)[k] : k \in ends} \cup {0})

===============================================================================

------------------------------ MODULE SampleStreams ------------------------------
(* Streams for TLC.  Codeword lengths are the real ones: 7 to 9 bits in the  *)
(* fixed code, up to 15 and with `longest` in the dynamic codes, length and  *)
(* offset extra bits included in a match's two widths.                       *)
EXTENDS DeflateStreams

StaticBlock(final, syms) ==
  <<Block("static", final)>> \o syms \o <<Eob(7)>>

DynamicBlock(final, longest, syms) ==
  <<Block("dynamic", final), Precode(9, TRUE), Lens(7, FALSE, TRUE, 0),
    Lens(11, TRUE, TRUE, longest)>> \o syms \o <<Eob(5)>>

StoredBlock(final, vals) ==
  <<Block("stored", final), Stored(Len(vals), TRUE)>>
    \o [k \in 1 .. Len(vals) |-> RawByte(vals[k])]

OutputOf(toks) == Decoded(Layout(Whole(toks))).out

Trailer(body, nbytes) == <<Footer(OutputOf(body), Len(OutputOf(body)), nbytes)>>

Zlib(body) == <<Wrapped(TRUE, 2)>> \o body \o Trailer(body, 4)
Gzip(body) == <<Wrapped(TRUE, 10)>> \o body \o Trailer(body, 8)

(* The stream without its last n bytes, and followed by n unrelated bytes. *)
Cut(toks, n) == Truncated(toks, TotalBytes(toks) - n)
Followed(toks, n) == Truncated(toks, TotalBytes(toks) + n)

-------------------------------------------------------------------------------
(* Overlapping and far matches, literals whose codewords fit a table entry   *)
(* in pairs, matches longer than the capacity, stored blocks that start in   *)
(* the bit buffer and end in staging, empty blocks.                          *)
Overlaps == StaticBlock(TRUE, <<Lit(1, 8), Lit(0, 9), Match(2, 3, 7, 5), Lit(1, 8)>>)

Doubles == DynamicBlock(FALSE, 5, <<Lit(1, 2), Lit(0, 2), Lit(0, 1), Lit(1, 5),
                                    Match(3, 5, 4, 6), Lit(0, 2)>>)

Mixed == Doubles \o StoredBlock(TRUE, <<0, 1, 1>>)

Empties == StoredBlock(FALSE, <<>>) \o StaticBlock(FALSE, <<Lit(1, 8)>>)
             \o StaticBlock(FALSE, <<>>) \o StaticBlock(TRUE, <<Match(1, 3, 7, 5)>>)

LongStored == StaticBlock(FALSE, <<Lit(1, 8), Lit(1, 8)>>)
                \o StoredBlock(TRUE, <<0, 1, 0, 0, 1, 1, 0, 1, 0, 1>>)

Good == <<Whole(Overlaps), Whole(Mixed), Whole(Empties), Whole(LongStored)>>

(* Streams that end too early, and malformed ones. *)
Bad ==
  <<Cut(Overlaps, 1), Cut(Overlaps, 3), Cut(Mixed, 1), Cut(Mixed, 6), Cut(Mixed, 12),
    Cut(Mixed, TotalBytes(Mixed) - 1), Cut(LongStored, 5),
    Whole(StaticBlock(TRUE, <<Lit(1, 8), Match(2, 3, 7, 5)>>)),
    Whole(StaticBlock(FALSE, <<Lit(1, 8)>>) \o <<Block("reserved", TRUE)>>),
    Whole(StaticBlock(FALSE, <<>>) \o <<Block("stored", TRUE), Stored(2, FALSE)>>),
    Whole(<<Block("dynamic", TRUE), Precode(9, FALSE)>>),
    Whole(<<Block("dynamic", TRUE), Precode(9, TRUE), Lens(7, TRUE, FALSE, 5)>>),
    Whole(StaticBlock(FALSE, <<Lit(1, 8)>>))>>

RawStreams == Good \o Bad

(* Long enough for the fastloop: chains of one to three table entries that   *)
(* end in a refill, a match, a subtable literal or an end of block.          *)
Chains ==
  DynamicBlock(FALSE, 12,
    <<Lit(1, 2), Lit(0, 2), Lit(1, 2), Lit(0, 3), Lit(1, 12), Match(3, 5, 9, 7),
      Lit(1, 2), Lit(0, 11), Match(6, 3, 20, 28), Lit(0, 11), Lit(1, 11),
      Match(1, 4, 20, 28), Lit(1, 5), Lit(1, 5), Lit(0, 5), Lit(1, 5)>>)

Sparse == DynamicBlock(FALSE, 15, [k \in 1 .. 18 |-> Lit(k % 2, 15)])

FastStreams ==
  <<Followed(Chains \o StaticBlock(TRUE, <<Match(6, 5, 7, 5), Lit(1, 9)>>), 40),
    Followed(Sparse \o Chains \o StaticBlock(TRUE, <<Lit(1, 8)>>), 30),
    Followed(StaticBlock(FALSE, <<Lit(1, 8)>>) \o StaticBlock(FALSE, <<>>) \o
             StaticBlock(TRUE, <<Lit(0, 8), Match(2, 5, 7, 5), Match(6, 3, 7, 5),
                                 Match(5, 3, 7, 5)>>), 40)>>

(* A footer that straddles the end of the staging buffer.                    *)
Straddling == Zlib(StoredBlock(TRUE, <<0, 1, 1, 0, 1, 0, 0, 1, 0, 1>>))

(* Wrapped streams, with footers that do and do not agree, cut or missing.   *)
Wrong(sum, size, nbytes) == <<Footer(sum, size, nbytes)>>

ZlibStreams ==
  <<Whole(Zlib(Overlaps)), Whole(Zlib(Mixed)), Whole(Straddling),
    Followed(Zlib(StaticBlock(TRUE, <<>>)), 3),
    Whole(<<Wrapped(TRUE, 2)>> \o Overlaps \o Wrong(<<1>>, 1, 4)),
    Cut(Zlib(Overlaps), 2), Cut(Zlib(Overlaps), 4), Truncated(Zlib(Overlaps), 1),
    Whole(<<Wrapped(FALSE, 2)>> \o Overlaps \o Trailer(Overlaps, 4)),
    Whole(Zlib(LongStored)), Whole(Zlib(Empties))>>

GzipStreams ==
  <<Whole(Gzip(Overlaps)), Followed(Gzip(Mixed), 2),
    Whole(<<Wrapped(TRUE, 10)>> \o Mixed \o Wrong(<<1>>, Len(OutputOf(Mixed)), 8)),
    Whole(<<Wrapped(TRUE, 10)>> \o Overlaps \o Wrong(OutputOf(Overlaps), 4, 8)),
    Cut(Gzip(Overlaps), 5), Truncated(Gzip(Overlaps), 9)>>

(* A zlib_continuation in segment mode: full flushes, a compressed block     *)
(* that happens to end byte-aligned, ends that are not byte-aligned or not   *)
(* at a block boundary, and a final block with a footer.                     *)
Flush == StoredBlock(FALSE, <<>>)

SegmentStreams ==
  <<Whole(StaticBlock(FALSE, <<Lit(1, 8), Lit(0, 8)>>) \o Flush),
    Whole(Doubles \o StoredBlock(FALSE, <<1, 0, 0, 1, 1, 1, 0, 1, 0>>)),
    Whole(StaticBlock(FALSE, <<Lit(1, 8), Lit(0, 8)>>)),
    Whole(StaticBlock(FALSE, <<Lit(1, 8), Lit(0, 9), Match(2, 3, 7, 5)>>)),
    Whole(StaticBlock(FALSE, <<Lit(1, 9), Lit(0, 9), Match(2, 3, 7, 5)>>)),
    Cut(Doubles \o Flush, 3), Cut(Doubles \o Flush, 7),
    Whole(Overlaps \o Trailer(Overlaps, 4)),
    Whole(Overlaps \o Wrong(<<0>>, 1, 4)),
    Truncated(<<>>, 0)>>

(* For source errors: streams longer than the staging buffer.                *)
RetryStreams ==
  <<Whole(Zlib(Doubles \o Overlaps)),
    Whole(Zlib(Sparse \o StaticBlock(TRUE, <<Match(2, 3, 7, 5)>>))),
    Whole(Straddling),
    Whole(Zlib(Doubles \o StoredBlock(TRUE, [k \in 1 .. 26 |-> k % 2])))>>

LongZlib ==
  <<Whole(Straddling), Whole(Zlib(Doubles \o Empties)), Cut(Zlib(Mixed), 3)>>

Stalling == Zlib(StaticBlock(FALSE, <<>>) \o StaticBlock(FALSE, <<>>)
                   \o StoredBlock(FALSE, <<>>) \o StaticBlock(FALSE, <<>>)
                   \o StaticBlock(TRUE, <<Lit(1, 8)>>))
===============================================================================

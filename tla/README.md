# A TLA+ model of zenflate

zenflate is a DEFLATE, zlib and gzip library in Rust. This directory holds TLA+
modules that model it, TLC configurations that check them on small instances, and
TLAPS proofs of what matters most. Paths in this file are relative to the
repository. `PROJECT.json` maps every definition to the lines it models and lists
the hazards the properties are for.

## 1. The system

| component | state | operations | talks to |
|---|---|---|---|
| streaming decompressor (`src/decompress/streaming.rs`) | output buffer with positions, staging buffer, bit buffer, state machine, pending match and literals, checksum, limits | `fill`, `peek`, `advance`, `reset`, `running_checksum`, builders; std `Read`/`BufRead` on top | pulls from an `InputSource`; shares tables and bit reader with the one-shot decompressor |
| one-shot decompressor (`src/decompress/mod.rs`) | decode tables, `static_codes_loaded`, `litlen_doubles`, policy, limit | `deflate_decompress`, `zlib_`, `gzip_` | checksums, `Stop` |
| scanner (`src/decompress/scan.rs`) | as above, without output | `scan` | one-shot decoder's tables |
| compressor (`src/compress/mod.rs`) | match finder, symbol buffers, incremental position and base, chunk state | one-shot, incremental, snapshot and restore, parallel gzip, estimates | match finders, block writer, bit writer, checksums |
| match finders (`src/matchfinder/`) | hash tables of 16-bit positions, sliding base | `longest_match`, `skip`, slide | compressor |
| block writer (`src/compress/block.rs`, `block_split.rs`, `sequences.rs`), Huffman (`huffman.rs`, `katajainen.rs`), bit writer (`bitstream.rs`) | frequencies, codes, output position and overflow flag | choose a block type, build lengths and codes, write | compressor |
| parsers (`near_optimal.rs`, `full_optimal.rs`, `png_ultra.rs`, `png_mode.rs`) | cost tables | choose matches | compressor |
| PNG strips (`src/png/mod.rs`) | per-strip compressor or decoder, lengths and checksums | compress or decode strips, join | compressor, streaming decompressor, checksum combination |
| checksums (`src/checksum/`) | none | Adler-32, CRC-32, combination | all |

There is no shared-memory concurrency except parallel gzip, where each thread has
its own compressor. What is hard here is elsewhere:

* one call of `fill()` can stop at many points (no input, no room, `capacity`
  reached, end of block, an error of the source) and the next must go on exactly
  there, with state spread over a bit buffer, two byte buffers and six fields;
* the output buffer is the caller's queue and the decoder's window at once, and
  grows, slides and is reset while both uses are alive;
* two loops decode the same symbols under different rules: one checks bounds once
  per turn and needs margins, the other once per symbol and needs resume state;
* bits past the end of input are invented zeros, which every consumer of the bit
  buffer has to discount;
* tables are reused across blocks and streams under flags that say what is in them;
* positions in the match finders are 16 bits wide, relative to a base that moves,
  and old entries are told from new ones by one comparison;
* a compressor that fails, stops or rolls a block back has state ahead of what it
  has written;
* caches, sequence stores and path tables are fixed in size, and sized by arguments
  about the worst block.

What makes each component correct:

* *streaming decompressor*: the bytes handed out are the stream's, in order, once;
  done means all of it was decoded and its checksum compared; a valid stream is
  never refused; limits hold; a caller that drains always gets on;
* *one-shot, scanner*: same output and same end as the streaming decoder on the same
  data, with a determined error;
* *compressor*: the output decodes to the input, for every way of cutting the input
  into calls, with failures and retries in between, and fits the bound; the optimal
  parser rebuilds each block and finds the cheapest way to write it;
* *match finders*: every match returned is one, inside the window;
* *Huffman*: lengths within the limit that fill the code space; the header reads
  back as the lengths sent; the decoder's table is the canonical code, whatever an
  earlier block left in it;
* *checksums*: six implementations of each on different machines agree, no
  accumulator overflows, halves combine;
* *parallel gzip, PNG strips*: the joined output is one valid stream whose checksum
  is that of the whole input, in any order of completion.

## 2. Modules

```
ByteQueue            what peek/advance promise
   ^ implemented by (TLC and TLAPS)
OutputWindow         any legal writer, any reader      <- OutputWindowProofs
   |  EXTENDS                                          ^
OutputBuffer         the buffer's state and operations | UsesWindow: implemented by (TLC
   |                                                   |             and TLAPS)
   |                                                   |
   |   DeflateStreams    streams as tokens, their meaning
   |      |
   |   BitReader         the bit buffer of all decoders
   |      |         \
StreamDecompressor   OneShotDecompressor    one call after another, same tables
   |                    |
StreamCorrectness    StreamScanner          decode, then scan
   |        \           |
   |    StreamProofs <- DecodingInvariant <- DecodingProofs
   |                    |                   (and OutputWindowProofs)
MCStream             OneShotCorrectness <- MCOneShot       (both: SampleStreams)

MatchWindow          positions, base, slides; what a match is
   |
HashTable -- LimitedTables   ht.rs; turbo.rs, fast_ht.rs
   |            |     \
HashChains      |      StaticTurbo <- MCStaticTurbo        one pass with rollback
   |    \       |
   |     BinaryTrees      bt.rs
   |            |
MatchFinder -- OneShotFinders <- MCMatchFinder             any finder, any parser
   |            |
   |         FinderProofs <- IncrementalProofs
   ^ UsesFinder: implemented by (TLC and TLAPS)
IncrementalCompressor <- MCIncremental      calls, parsers, snapshot, restore, reset
   |  EXTENDS
BlockWriter          blocks, bounded output, a decoder
   |
ChunkedCompressor    a chunk of a stream, sync flush
   |         \
ParallelGzip   PngStrips      ChecksumKernels        AdlerChunk   spec and proofs
        \          |              |                     |
         \         |           Checksums               /
          +--------- MCParallel ---+-------------------+

HuffmanCode          code lengths, codewords
   |         \
BlockCodes   DecodeTable
        \      |
         HuffmanBlock     NearOptimalBlocks   BlockOptimizer
                  \           |             /
                   +------ MCParts ---------+      (and OutputWindow)
```

**OutputBuffer** keeps `wrapper` and `checksum_policy` (variables no action changes,
so that one run and one theorem cover every format), and `buffer`, `write_pos`,
`read_pos`, `lookback_valid`, `checksum`, `total_output` and `checksum_watermark`
under the code's names. `checksum` is the sequence of the bytes hashed so far, so
that two checksums are equal exactly when the same bytes were hashed in the same
order. `produced` is a history variable: what DEFLATE says was output, computed from
the history and never from the buffer. A match is copied from the buffer
(`MatchBytes`) and recorded from the history (`PromisedBytes`); that they agree is a
theorem. A write also scribbles: `put_lits` stores two bytes for one literal and the
fastloop's copy works in chunks, so `Written` puts junk after the bytes it was asked
to store. The buffer starts with `capacity` cells, doubles up to lookback +
capacity, and slides from then on.

**OutputWindow** closes those operations: a writer that writes anything that fits, a
reader that takes anything there is, flushes and resets at any time, and compaction
under the condition `fill()` guarantees (full, less than `capacity` unread).

**DeflateStreams** describes a stream as tokens, each with its width in bits, and
computes from the tokens alone where each starts, what the stream decodes to (RFC
1950 to 1952), and how it ends. `DecodedUpTo` has what the first k tokens mean, for
every k, among it the `place` the grammar is at, and `Parsed` says that each token is
one the grammar allows there. A source may hold fewer bytes than the tokens need
(truncation) or more (data that follows). **SampleStreams** has the streams TLC
uses.

**BitReader** is the bit buffer, its two refills and its accounting, of all three
decoders. A reader holds the loadable bytes as offsets into the stream, `left` bits
and `over` invented bytes, so the position of the next bit is `8 * (pos + over) -
left`.

**StreamDecompressor** is `fill()`. Its handlers are actions, and the two decode
loops one action per symbol; `call.pc` says where in the call the decoder is. `in`
is its reader: a bit lost or read twice puts the decoder at a place where no token
starts. There, or where a token is cut off, `Read` gives an arbitrary symbol (a
phantom), which is what a table lookup of garbage can give. `dec` holds the state
machine, `is_final_block`, the pending match and literals, and the litlen table as
three facts: the code it is for, its index width, whether it has double-literal
entries. `acct` and `done` hold limits and results, `call` the locals of the call,
`hist` bounds and history. The source fails wherever `fill_input` is called
(`SourceFails...`), after loading any number of bytes.

| code | actions |
|---|---|
| `fill` entry, accounting, returns | `BeginFill`, `ReturnFromFill`, `GoRound` |
| `parse_wrapper_header`, `parse_gzip_header` | `ParseWrapperHeader` |
| `parse_block_header`, segment end | `ParseBlockHeader` (`BeginDynamic`, `BeginStatic`, `BeginStored`, `BadBlock`), `EndSegment` |
| `parse_dynamic_precode_lens`, `parse_dynamic_code_lengths` | `ParseDynamicPrecodeLens`, `EnterCodeLengths`, `ParseCodeLength` |
| `decompress_block_impl`: pending data, `'refill`, fastloop, generic loop | `ResumeMatch`, `ResumeLiteral`; `EnterLoops`; `FastLiteral`, `FastMatch`, `FastEndOfBlock`; `GenericReenter`, `GenericLiteral`, `GenericMatch`, `GenericEndOfBlock`, `GenericOverrun` |
| `copy_uncompressed` | `CopyUncompressed` |
| `parse_wrapper_footer` | `ParseWrapperFooter` |
| `?` on `fill_input` | `SourceFailsBeforeHandler`, `SourceFailsAtRefill`, `SourceFailsInGeneric`, `SourceFailsInCopy`, `SourceFailsInFooter` |
| `advance`, `running_checksum`, `reset` | `TakeOutput`, `RunningChecksum`, `Reset` |

Which streams a set-up may be given is `Suits`: any tokens that parse the bytes, of
the widths DEFLATE can give them, however wrong what they say, with the wrapper the
set-up is for.

**StreamCorrectness** states the properties; `Acceptable` says which streams the
configured decoder should accept.

**OneShotDecompressor** is `Decompressor`: a call decodes a slice into a slice, with
a wrapper, a checksum policy, an output limit and perhaps a stop token. The output
past its end is junk that unchecked writes leave. One `Decompressor` serves any
sequence of calls: `dec` (the litlen table, `static_loaded`, `litlen_doubles`)
survives them, successful or not, while `call`, `in` and `out` are the call's.
**StreamScanner** scans, right after a call, the stream it decoded, with any
`stop_at`. **OneShotCorrectness** judges both by a reference that walks the tokens
and knows nothing of readers, loops or tables: `Troubles` are the tokens at which
something is wrong, and `Verdict` what the first of them must make the call return.

| code | actions |
|---|---|
| entry and headers, trailers and return | `BeginCall`; `EndCall` |
| the block loop: stop checks, headers, code lengths, stored blocks | `Stopped`; `BadHeader`, `BeginStatic`, `BeginDynamic`; `ReadCodeLength`; `CopyStored` |
| fastloop, generic loop | `FastLiteral`, `FastMatch`, `FastEndOfBlock`; `GenericLiteral`, `GenericMatch`, `GenericEndOfBlock`, `GenericOverrun` |
| `deflate_scan`, `zlib_scan` | `BeginScan`, `Scan...` (the same steps, counting) |

**HuffmanCode** has both constructions of code lengths, the sort and the tree in
place with their stepwise limiting (huffman.rs) and the package merge
(katajainen.rs), canonical codewords, and the smoothings of frequencies.
**BlockCodes** is what the encoder does around them: codes of a block, the search
for the best limit and precode flags, the run-length items, and every cost it
decides by. The precode is the real one (19 symbols, 7 bits, the order it is sent
in); the litlen and offset alphabets are scaled down. **DecodeTable** is the
decoder's side: `BuildDecodeTable` with subtables, `AddDoubleLiterals`, `Lookup`. A
table starts out full of `Stale` entries, so an index the construction misses shows.
**HuffmanBlock** has the chunked and the exact copy of a match, and composes all
this into stages, counts to codes to header to lengths to tables (`CountSymbols`,
`BuildCodes`, `SendHeader`, `ReadHeader`, `BuildTables`); a header may also be sent
for lengths of no block (`SendLens`), any small lengths reach the table builder
(`BuildSmallTable`), any small counts the code builders (`BuildSmallCode`), and a
match goes through slots, extra bits and both copies (`SendMatch`, `CopyMatch`).

**MatchWindow**, **HashTable** and **HashChains** are the match finders that can be
fed in pieces. An entry is a 16-bit position relative to `in_base_offset`; `Base`,
`Slid` and `CurPos` are the base, a table and the position after the one slide a
search may make first, `AsEntry` the `as i16` of a position, `Rebased` the
saturating subtraction. `HtLongestMatch` is one action, it looks at two entries; a
search of the chains (`HcLongestMatch`, `HcChain`, `HcExtend`) is one action per
link, and `skip_bytes` (`HtSkipOne`, `HcSkipOne`) one per byte. `linked` is a
history variable: the slots of `next_tab` written since `init`. Checking the first
four and the last four bytes of a candidate before extending it is an optimisation
of "agrees for more than `best_len` bytes" and modelled so.

**MatchFinder** closes them with any parser: searches with any `best_len` and
`nice_len`, skips of any length, first hashes, input fed in pieces (`Feed`), a fresh
start at any time. It asks more than the parsers do, so what holds here holds under
the greedy, lazy and fastest parsers, one-shot, incremental and with a dictionary.

**LimitedTables** are the turbo and fast_ht finders, buckets of one and two
positions in the variables of HashTable, of which a skip updates only a few.
**BinaryTrees** is the finder of the near-optimal levels: a new position becomes the
root of its bucket's tree, and the old tree is taken apart into what is less and
what is greater, two actions per node (compare and record, then descend), with the
depth cut-off, the short hash, and the skip that inserts without recording.
**OneShotFinders** is MatchFinder and these three, with the whole input at once,
behind a dictionary or not; only the finders of MatchFinder are fed in pieces
(`PiecewiseNext`, compress/mod.rs 1241-1252), which the trees' order rests on: near
the end of the input they are compared less far, and there is no way back.

**StaticTurbo** is `compress_static_turbo_inner`, which writes each token at once
and rolls a block back that has grown, with the return of `deflate_compress`; of the
output only its length in bits is kept.

**NearOptimalBlocks** is `find_min_cost_path` over a match cache and the parser around
it (`compress_near_optimal_inner`): matches cached position by
position, bytes under a nice match skipped, blocks ended by observations, by a full
cache or by a segment, the cache rewound to the last check that saw no change
(`StartBlock`, `Position`, `FlushToCheckpoint`, `FlushHere`, `Stop`). The binary
tree is external to it and returns matches of increasing length; whether the
observations changed is chosen, how many there are is not. **BlockOptimizer** is
`optimize_and_flush_block`: passes, saved costs, diversification, milestones, the
choice among all that was tried. A cost model there is a number, and the true size
of the block on its path is chosen when the model is made.

**BlockWriter** writes blocks to the output of one call. A stream is a sequence of
symbols, each standing for the bits that encode it, `BYTE` of them to a byte, so
that partial bytes, alignment and lack of room appear in proportion. The three block
types are two: static and dynamic blocks differ in codes only. `FlushBlock` compares
the cost the code computes with the room left, then writes; `torn` is a history
variable that says a write itself ran out of room. `Decoder` and `DecodeSymbol` are
an inflate decoder that can stop anywhere, what RFC 1951 says of the symbols.

**IncrementalCompressor** is `deflate_compress_incremental` and
`deflate_estimate_cost_incremental` at the levels of the two finders. `kept` has the
fields that survive a call, `call` the locals of one, `tokens` the sequence store,
`caller` the decoder that has read what the calls returned and what the caller may
do next. Which of several matches is better and which block type is cheapest is
cost, and left open; so is `max_lazy`. The finder's variables hold the call's
`in_next` and `in_base_offset`, and `Finder` is MatchFinder over the same variables.

| code | actions |
|---|---|
| entry, early `?`, end of the two calls | `BeginCall`, `Stopped`, `EndCall` |
| block loop, `finish_block` | `BeginBlock`, `EndBlock` |
| `compress_incremental_ht_inner`, greedy loop | `ParseHt`, `ParseHc`, `Follow`, `SkipOne`, `JudgeMatch`, `JudgeLiteral` |
| lazy loop | `LazyTake`, `LazyLook`, `LazyBetter`, `LazyKeep` |
| `snapshot`, `restore`, `incremental_reset` | `TakeSnapshot`, `Restore`, `IncrementalReset` |

**ChunkedCompressor** is `deflate_compress` and `deflate_compress_chunk` for parsers
that end blocks and find matches as they like: it keeps `chunk_start`,
`force_nonfinal`, the sync flush and the bounds. A block is written in one of two
ways. Every level but static turbo goes through `FlushBlock` (`WithBlock`), which
knows what the block costs before it writes it and never takes more than storing
does. Static turbo writes first (`StaticBlock`): its blocks end where
`choose_max_block_end` says, a match may run past that end, and a block is taken back
and stored if it overflowed or has more whole bytes than `StaticLimit`. Its literals
cost 8 bits or 9 whatever storing costs, so a block is tried at its own cost, at the
greatest that is kept, and at the least that is taken back. That its matches are
real also after a block was taken back is assumed here; see `rollback` below. **ParallelGzip** runs one in each
thread, interleaved in any way, with a stop token that may fire at any step, and
joins them. **PngStrips** has `StripCompressor`, with and without history, whose
calls may fail and be repeated, and `StripDecoder`. Both take a checksum to be the
bytes it is of.

**ChecksumKernels** has Adler-32 and CRC-32 themselves: every implementation, as what
its lanes, tables and folds compute. A CRC word is the set of its bits, and a
carry-less product, a fold or a Barrett step is what it is on polynomials.
**Checksums** has the hashers, on a machine that `Init` picks, fed in pieces or
combined. **AdlerChunk** has the scalar Adler-32's registers with the width they
have, beside the sums the definition asks for, and the proof that they do not wrap.

Operators named `X_Something` next to an operator `X` are mutants: the same
definition with a plausible bug, for checking that the properties notice.

## 3. Runs

| run | what it asks | distinct states |
|---|---|---|
| formats | streams of every kind with eight set-ups (below), a window of 3 and a capacity of 2, sources that fail up to twice, and a reset into another stream | 143 000 |
| fast | long streams: fastloop chains of one to three entries, subtable literals, matches, re-entry, double literals, reset, and termination under fairness | 4 700 |
| oneshot | sequences of calls of one `Decompressor` with streams of every kind, room that is ample, exact or short, limits and stops; a scan after each, stopping anywhere | 20 000 |
| finder | all five match finders under any parser: a text fed in any pieces to the first two, and a fresh start; four texts of up to twelve bytes for the others, behind a dictionary or not | 238 000 |
| incremental | hash-table, greedy and lazy levels, two texts with a common beginning, any pieces, small and large outputs, stops, estimates, snapshots, restores and resets | 479 000 |
| parts | the output buffer alone, in every format and policy: types, contents, lookback, checksum, room after compaction, queue; codes, headers and tables of blocks; every small code and table; matches around every boundary; the near-optimal parser on two texts; its optimizer under any sizes | 184 000 |
| parallel | parallel gzip at five levels with up to three threads, strips, hashers on every machine, the registers of a chunk | 534 000 |
| footer_retry, limit_retry, incremental_retry, rollback, turbo_bound | disagreements of code and documentation, below | |

`parts` and `parallel` host several machines that share no state; `Init` picks one,
and the others stay off. A run's `Setups` (in `oneshot`, `Jobs`) are decoders with
the streams each is given; `Init` picks one, and `Reset` starts another stream of
the same set-up. `formats` has raw DEFLATE (sound, truncated and malformed streams);
zlib verified, zlib reported, and zlib with an output limit of 9 bytes and a stall
limit of 3 blocks (footers right, wrong, cut, missing; unrelated data behind); gzip
verified and with `ChecksumPolicy::Ignore`, where the size is still compared; zlib
from a source that fails; and a zlib continuation in segment mode (full flushes,
ends inside a block, ends that are not byte-aligned, a final block with its footer).

### What they show

*Streaming decoder.* `OutputIsPrefix` (with the types) and `NoFalseError` together
say that the bytes a caller sees are the stream's for every way it drains and
whichever loop decodes a symbol; `DoneIsRight` that nothing is missing at the end
and the checksum was taken over exactly those bytes; `LimitsEnforced` that neither
limit is passed unnoticed; `FillYields` that `Ok` from `fill()` with nothing to peek
at happens only at the end, on which the `BufRead` impl rests; `FastloopSafe` that
reused tables are the right ones and the unchecked loop has room, input and bits;
`EventuallyDecoded` that a caller who drains gets to an end; `UsesWindow` that
`fill()` uses the output buffer only in the ways `OutputWindow` allows, so that what
is proved about `OutputWindow` is about this decoder.

*One-shot decoder and scanner.* `CallIsRight`: a call returns what the stream and
the room call for, in particular the same of two errors whichever loop meets them,
and nothing depends on the calls before. A stream whose bits are cut off inside a
symbol may be completed by zeros into bad data or into output that does not fit, so
there two verdicts are allowed. `LoopsAreSafe` is what `FastloopSafe` is to the
streaming decoder. `ScanAgrees`: the scanner accepts, refuses, counts and stops as
the decoder does, and gives the end of the input as the place where truncated input
fails (scan.rs 33-35), but for a stored block's lengths that are cut (below).

*Match finders.* `AllEntriesSound` says that no entry of any table can lead to a
byte that is not there yet, nor the base get ahead of the position; `MatchIsReal`
that what a search returns can be copied by any decoder; `OnlyFreshLinks` that
chains and trees never leave this input although `init` keeps the old links;
`AllReadsInside` (with the types) that the slices and loads of the search loops stay
inside the input, which needs that no match in hand has full length when the loop
goes on; `PrefixIsKnown` that a tree walk may skip the bytes it skips comparing: the
trees stay ordered through truncation, replacement and slides.

*Incremental compression.* `StreamDecodes` says that after every successful call
what the caller has, with the bits the compressor keeps back, decodes to exactly the
input so far; `FitsAsChecked` (with the types) that the cost check in `flush_block`
is never too low, although the cost of storing leaves out a block header;
`NeverPanics` that no offset without a slot reaches `get_offset_slot`; `UsesFinder`
that calls, errors, resets and restores use the finder as `finder` assumes. Deadlock
is checked: a call always goes on.

*Codes.* `CodesAreOptimal`: every code built is complete, within its limit and
canonical; the package merge is optimal under its limit, the heuristic wherever its
limit does not bind. `HeaderReadsBack`: the decoder reads the lengths that were
sent, in the bits the encoder counted. `TablesDecode`: a table is built for exactly
the codes the format allows, no lookup meets an entry of an earlier block, a
double-literal entry is its two literals. `MatchesCopyRight`: slots, extra bits and
both copies give the match that was meant, the chunked one within 31 bytes past it.

*Optimal parser.* `BlocksRebuildInput`: after any number of rewinds the blocks join
and their paths give the bytes of the input. `PathIsCheapest`: no way through the
cached matches is cheaper, although the nodes hold the last block's.
`BlocksAreWellCut`: cache and nodes are never outgrown, a split leaves enough on
both sides, statistics never cross a call. `FlushIsNearBest`: what is written has
items and codes of one parse, and is within the search's thresholds of the best
parse tried. `FirstStallEndsSearch` records that diversification does not run
(below).

*Joined streams.* `GzipIsRight`: however the threads run, `Ok` is one stream of the
whole input with its length and checksum; threads never run out of room, and the
call only if the caller gave less than the bounds. `StripsAreRight`: the same of
strips, that each decodes on its own if made without history, and after failed
calls. The bounds are not enough for static turbo (`turbo_bound`), and the
properties say by how much: a call that compresses alone may need two bytes more, a
strip one (`StaticExcess`; with less the run fails). The threads' own outputs are
long enough at every level: their bound counts the dictionary too, and so at least
16 KiB, for which it has the overhead of four stored blocks. `SumsAgree`: on every machine and however the data are cut or combined,
hashers hold the checksum by its definition. `ChunkIsRight`: the registers of a
chunk do not wrap.

### Bounds

The window shrinks from 32 KiB to 3 or 6 bytes and the capacity to between 2 and 30,
so a stream of 10 bytes grows the buffer, fills and slides it, and splits matches
across calls; what the code does depends on comparisons of positions, not on their
size. The staging buffer has 16 or 44 bytes and the thresholds shrink in proportion,
keeping the order 8 < `GENERIC_REFILL` <= `REFILL_BELOW` where it matters, in
`fast`; in `formats` `FASTLOOP_MAX_BYTES_READ` exceeds the staging buffer, which
switches the fastloop off. Widths are the real ones (64-bit buffer, 8-byte refill,
56 consumable bits, codewords up to 15 bits, offsets up to 28), because whether bits
run out depends on them. `FASTLOOP_MAX_BYTES_WRITTEN` is 12 = 2 pairs of literals,
the longest match 5, its overcopy 2 and 1 to spare, as 4 + 258 + 32 in the code.
`DOUBLE_LITERAL_MIN_INPUT` is 0, as in the repository's unit tests, and 16 in
`oneshot`. `Takes` bounds what the caller takes to 1 byte (10 in `fast`) or
everything; `parts` lets it take any number. `MaxResets` and `MaxProduced` bound
resets and, in `parts`, the output; `MaxProduced` 7 allows two slides of a window
of 3 (the decoder is compared with a window without that bound). Matches have offsets in 1 .. `LOOKBACK_SIZE` (`StreamAssumption`), as the
format's 32 KiB limit guarantees.

In `oneshot` a stop token is asked every 2 bytes of output, and rooms of the sound
raw streams take every size from 0 to three more than needed. A scan stops at 0, 1,
4, 10 or never.

In `finder` the window is 4, so twelve bytes are three slides; hashes cover 1 and 2
bytes with collisions, a search needs 3, as 3, 4 and 5 in the code. Pieces of one or
two bytes never search at level 1, so the base falls two windows behind and
positions wrap. Chains are searched 2 deep, trees 3, and a limited skip updates 2,
so each cut-off is reached.

In `incremental` the window is 4, texts have six and seven bytes, a block one match,
a stored piece 3 bytes, a byte 4 bits and a block header 2. `Rooms` are 2 bytes,
enough for a small block, and 30, enough for anything. A caller goes back to a
snapshot after one call or not at all (`BeginCall`), and keeps none over a reset.

In `parts` blocks have 12 litlen symbols (3 of them lengths) and 4 offset symbols
with codes of up to 5 bits; run lengths lie around every threshold of the repeat
symbols, matches around the boundaries of slots and copy chunks, small codes have up
to 5 symbols. The parser has a soft maximum of 12, blocks of at least 7, a cache of
24, checks every 2 observations and two texts of 34 and 26 bytes: several blocks,
rewinds and cache limits in one call. The optimizer makes 2, 4 or 6 passes with
sizes from 10 to 14 and thresholds of 1 and 2; 6 is past every milestone.

In `parallel` a byte has 4 bits, a stored piece 4 bytes, a stored block 2 more, the
window and the longest match 2, blocks at least 2, a static turbo block 4 unless
less than 2 would be left, inputs 0, 2, 6 and 9, chunks at least 3. So a match may run
past a static block, a block be rolled back and the next one start in the middle of
what was parsed, and an input of 9 has two static blocks. Outputs are too small for
anything, of the bound's length or near it, and ample; strips have the segment bound,
one more, or 3. Hashed data have up to 1595 bytes in two pieces, with runs of 255 that
would overflow an accumulator of too long a chunk; `MAX_CHUNK_LEN` is 300, so chunks
end inside pieces, and every lane width has a full block, a part of one, and none. A
chunk of `AdlerChunk` has 6 bytes of 0 and 1, a modulus of 3 and registers of 36
values: a seventh byte would not fit, as byte 5553 would not in the code.

In `rollback` texts are all those of 9 bytes over two letters, blocks of 3. In
`turbo_bound` block lengths and costs are the code's, and the text is the bytes 78 to
177, which repeat nowhere, so the scaled finder finds what the real one does: nothing.

### Fairness

`WF(FillStep)`: a call of `fill()` runs to its end, it is sequential code.
`WF(BeginFill)` and `WF(TakeOutput)`: the caller goes on calling and taking output,
as the loop in the type's documentation does (streaming.rs 204-215). The source has
no fairness of its own: with no error it delivers, at its end it returns an empty
slice. Elsewhere progress is shown as absence of deadlock: a call that has begun can
always go on, no thread waits for one that does not come (`parts`, `rollback` and
`turbo_bound` do stop, at the end of their work).

### After an error

The caller gives up after a decompression error and may only reset; after a source
error it may call `fill()` again (`std::io::Read` users retry `Interrupted`). A
one-shot `Decompressor` or a strip compressor is simply called again. After an error
of the incremental compressor the caller restores, resets, or repeats a first call;
in `incremental_retry` it may repeat any call.

### Where code and documentation disagree

Shown by a run:

* `footer_retry`: footer bytes collected before a source error are lost, and the
  next `fill()` refuses a valid stream. `docs/flate2-backend.md` calls the decoder
  resumable. Elsewhere a source error loses nothing (`formats`).
* `limit_retry`: output written before a source error is not counted towards
  `max_output_size`, so a stream larger than the limit can complete.
* `incremental_retry`: an incremental call that is stopped or runs out of output
  leaves the match finder ahead of `incremental_pos`. Repeating the call finds a
  position as its own match, an offset of 0, for which `get_offset_slot` panics;
  comments and the changelog call the compressor reusable. Restoring a snapshot or
  resetting first is safe.
* `rollback`: a static block that is rolled back leaves positions in the turbo
  finder that have not been parsed yet, and the base may be beyond the position. The
  comment (compress/mod.rs 2251-2252) says the cutoff check rejects them.
* `turbo_bound`: `deflate_compress_bound` counts stored blocks and a comment there
  (1140) says that static blocks are rolled back if they expand. A static block is kept
  while it has no more whole bytes than storing takes and one more, and the bits of its
  last byte come on top. 100 bytes that do not repeat and have 31 to 45 nine-bit
  codes take 106 or 107 bytes where the bound says 105. Called with outputs of the
  bounds, `deflate_compress` fails at 106, `gzip_compress` and `zlib_compress` at 106
  and 107; a strip that is not the last can be a byte longer than
  `deflate_compress_segment_bound`. Beyond 5000 bytes the bound counts more blocks than
  there are and covers it.
* `parts`, `FirstStallEndsSearch` (a passing property): the diversification the
  comment at near_optimal.rs 1042 and the changelog describe, and the return to the
  checkpoint after it (1076-1097), are unreachable. Two passes without improvement
  would have to follow each other, and the first one ends the search.

Met while reading, not shown by a run:

* scan.rs 33-35 gives `input.len()` as the place where truncated input fails; where
  the lengths of a stored block are cut off, the scanner gives the place where they
  begin (319-320).
* block.rs (about 1128-1140) writes four literals for each flush of the bit buffer,
  which rests on 14-bit litlen codes (constants.rs 68-70); codes of full_optimal.rs
  and the search for the best limit at high efforts may have 15 bits.
* Near-optimal blocks that share a segment's end can be one byte longer than
  `MAX_BLOCK_LENGTH` (`<=` in one bound, `<` in the other); the slack of the path
  table absorbs it. In the segments of the upper `png()` rungs the splitter looks at
  the end of the input instead of the segment's, so the rest of a segment can be
  shorter than `MIN_BLOCK_LENGTH`.
* The documentation of `PrecodeFlags::fuse_7` and `fuse_8` (block.rs 586-599) and of
  the cost of a stored block (478-482) do not say what the code does.
* scan.rs 39-43: a zlib stream of 2 to 5 bytes is `BadData` to the scanner and
  `InvalidHeader` to the decoder.

## 4. Proofs

**OutputWindowProofs** proves, for every `LOOKBACK_SIZE`, `Capacity`, alphabet
(`BufferAssumption`: sizes positive, the smallest grown size at most the full size),
wrapper and policy, and with any bound on the output or none (`MaxProduced`),
that `BufferSpec` implies `[]BufferTypeOK`, `[]WindowHoldsTail`, `[]LookbackExact`,
`[]ChecksumCoversOnce`, `[]CompactionMakesRoom`, and the queue `ImplementsQueue`.

The inductive invariant `WindowInv` is the conjunction of the four invariants and
`GrowthKeepsAll`. No part is inductive alone. A copy writes the right bytes only
because the window holds the tail of the output and `lookback_valid` does not reach
below cell 0. A slide keeps `lookback_valid` exact only because it keeps
`LOOKBACK_SIZE` bytes before `read_pos`, and loses nothing of the checksum only
because it hashes up to `write_pos` first. Growing keeps `lookback_valid` below
`write_pos` only because nothing was dropped before the buffer had its full size.
Lemmas: what extending a sequence yields (`ExtendedFacts`), that a copy from the
buffer is a copy from the history (`MatchIsPromised`), that a flush hashes the rest
(`FlushCoversAll`), one lemma per operation that it keeps `WindowInv`. The refinement
maps `written` to `produced`, `taken` to `Len(produced) - PeekLen` and `view` to
`Peek`; each step is a write, a take, a clear or a stutter.

**StreamProofs** proves of the streaming decoder, for every size of its buffers and
margins, every number of set-ups, every wrapper, policy, limit, stream, and source
that fails at any of its calls, five theorems. `SetupAssumption` says what the
set-ups are: streams are sequences of tokens that DEFLATE can express, sound or not
in their contents, footers and length (`Suits`; more about it below). `StreamAssumption` relates the margins
as the code does: `FASTLOOP_MAX_BYTES_WRITTEN` holds two entries of two literals and
the longest match with its overcopy, `FASTLOOP_MAX_BYTES_READ` the refills of a turn,
and three lookups fit the 56 bits of a refill.

* `DecoderUsesWindow`: `Spec` implies `UsesWindow`. Every step of every handler, of
  the caller and of the source is a legal use of the buffer (`BufferUse`) or leaves
  it alone, so `WindowInv` holds of the decoder too (`DecoderKeepsWindow`), by the
  lemma `UseKeepsInvariant` of OutputWindowProofs.
* `FillAlwaysYields`: `Spec` implies `FillYields`. A call returns `Ok` from its head,
  when `capacity` bytes are waiting or the decoder is done or the last round wrote
  something; no handler ends a call but with an error.
* `FastloopIsSafe`: `Spec` implies `[]FastloopSafe`, both the flags of a table kept
  over blocks and streams (`FlagsAlwaysAgree`) and the margins.
* `OutputLimitEnforced`: `Spec` implies `[](hist.errors = 0 => OutputLimitHolds)`, by
  `AccountsHold`: what is not yet counted towards the limit is exactly what the
  current call has produced, and nothing between calls.

The first three rest on `Sound`, which is `WindowInv` and `DecoderInv` together, and
neither is inductive without the other: a copy is legal because of what the decoder
keeps, and what the decoder keeps bounds positions of the buffer. The parts of
`DecoderInv`:

* `PendingReaches`: the match that waits for room in the next call can still be
  copied. It was checked against `lookback_valid` when it was read, and the buffer
  may have been drained, grown and slid since; the slide keeps `LOOKBACK_SIZE` bytes,
  and what a call writes before the rest of the match only moves the bound up.
* `TurnHolds`: within a turn of the fastloop `real_start`, which is computed once,
  still bounds the same distances as `lookback_valid`, which moves with every byte;
  and of the margins checked at the turn's head there is left what the entries of
  the chain have not used: two cells and one lookup for each.
* `ReaderOK`, `StreamOK`, `DecoderOK`, `CallOK`, `HistOK`: the types these need. That
  `left` and `over` may be negative for all the proof knows is enough, since no
  write depends on them.

The proof has one lemma per handler (`HandlerStep`), with the reader's operations
and the kinds of tokens (also those that reading garbage gives) before them.

**DecodingInvariant** and **DecodingProofs** prove that the streaming decoder decodes:
under the same assumptions, for every stream, sound, malformed or cut anywhere, every
size of the buffers and margins, every way of splitting input and output into calls,
with source errors at any point, retries and resets, `Spec` implies
`[]OutputIsPrefix`, `[]DoneIsRight`, `[]NoFalseError` and `[]LimitsEnforced`.

`DecodingInv` (with `Sound`) is inductive. Its parts, and why each is needed:

* `StreamKnown`: the stream is one of a set-up's, laid out and decoded. From it
  follow where the tokens lie (`LaidOut`), that their meanings continue each other
  (`Meant`), and that they follow the grammar (`Suited`).
* `FollowInv`: the decoder has read the first k tokens for some k. `Tracks(k)` says
  that nothing is wrong with them (`Good`), that its state expects what may follow
  them (`Expects`: the state, the final bit, the block the table is of, the bytes a
  stored block still has), that its reader is at the end of token k (`Placed`), that
  produced bytes and pending match or literals together are what they mean
  (`Owes`), and that a loop over code lengths has them all staged (`LensStaged`:
  it does not ask the source again, streaming.rs 786-792). After an error only
  `Follows(k)` is left: the output is a prefix, and the table is the block's.
* `ReaderInv`: bytes are invented only when the source is dry and the staging buffer
  empty, and at most 8 while the decoder is going. This is why a place inside the
  stream is never read from padding, and why a footer can be put together from the
  bit buffer, the staging buffer and the source without gaps.
* `PhantomInv`: once a symbol was read from padding, the stream cannot be accepted,
  the reader is beyond the stream's last bit and stays there, and no path leads from
  there to `Done`: each ends in an error.
* `DecoderFits`, `CallFits`, `HistFits`: which fields may be set in which state and at
  which point of a call, for instance no pending match in the loops.
* `Verdict`: `DoneIsRight` and `NoFalseError` themselves, settled when the handler
  that ends the decoding runs and kept from then on.

Every handler is shown to take the decoder from k tokens to k, k + 1 or, for entries
of two literals, k + 2 (`TracksNext`), to stay where it was and fail, or to read a
phantom. The bytes are the subject of OutputWindowProofs and `Sound`; here a match is
what `Copied` makes of the history, cut at any point and continued later. The meaning
of a stream is a recursive function over its tokens; that it exists, and induction
over it, come from the least member of a set of numbers (`LeastNumber`, from
WellFoundedInduction), since the library's induction theorems cannot be instantiated.

The proof needed more about the streams than TLC's samples had made explicit, and
`Suits` says it: the tokens follow DEFLATE's grammar up to the first fault (anything
else is no reading of the bytes); the wrapper's header and footer are those the
decoder is set up for; a wrapper header fits the staging buffer (the code refuses a
longer gzip header, streaming.rs 901-928), as do the code lengths of a block (at
most 320 symbols of at most 14 bits in 32 KiB); in segment mode a stream that is cut
off is not cut where a block ends, because then it is a shorter segment and decoded as
one. `GENERIC_REFILL` must be at least 8 (16 in the code): with less, the generic loop
could invent bytes while the source still has some. `NoFalseError` and, with the
policy `Report`, the verdict in `DoneIsRight` are claimed only while the source has
not failed; `footer_retry` shows that this is not an omission of the proof.

`LimitsEnforced` also needs the count of blocks without output, which the code does
not keep in step with the blocks: `fill()` counts when a handler has ended a block,
and only if nothing was written since it counted last, so that bytes and the end of
their block may be charged in different rounds, in different calls, or the end of one
block together with the header of the next. `StallInv` says how far the counter may
be behind the run `Runs[k]` of the tokens read (`Charged`): by one block, unless
something was written since; and not at all where `fill()` goes on to the next block
header. Every run that ended is within the limit, but for the one that ended last,
which the accounting is about to refuse (`AllCharged`, when it was the stream's
last). Runs are longest where a block ends (`LongestRunBound`), so nothing else has to
be remembered. With `OutputLimitEnforced` of StreamProofs this gives `LimitsEnforced`,
while the source delivers: `limit_retry` shows what a retry after an error can evade.
`StreamAssumption` asks of the limit that it is a number.

**AdlerChunk** proves `ChunkCorrect`: for every modulus, register width, largest
byte and chunk length with which the worst chunk fits (`ChunkLenAssumption`),
`ChunkSpec` implies `[]ChunkIsRight`. The property is not inductive: that the
registers equal the exact sums says nothing of their size. `ChunkInv` adds that
after n bytes the first sum is at most `(Modulus - 1) + TopByte * n` and twice the
second at most `TwiceWorst(n)`, which a chunk of the largest bytes from the largest
remainders attains; four bytes at a time need the bound of all four steps
(`FourSteps`), and the lanes' share of the second sum is never larger than what it
is part of. `ChunkLenIsGreatest` states the assumption for the code's numbers: with
65521, 2^32 and 255 it holds for 5552 bytes and fails for 5553, so `MAX_CHUNK_LEN`
is exactly right.

**FinderProofs** proves of all five match finders, for every window size, hash,
minimum and maximum length, input, parser and search depth (`MatchAssumption`,
`FinderAssumption`, `FamilyAssumption`, `TreeAssumption`: a match is no longer than
the window, a search needs more bytes than the hashes cover, bytes are numbers),
that `FamilySpec` implies `[]AllEntriesSound`, `[]OnlyFreshLinks`,
`[]AllReadsInside`, `[]PrefixIsKnown` and `[]MatchIsReal`.

`FinderInv` is inductive and implies the first three. Its parts, and why each is
needed:

* `PlacesHold`: where the base and the position are. The base is behind the
  position, except while a skip of the hash table, which slides before its first
  byte, is still inserting; then it is ahead by no more than a window and than the
  skip has left, so that an entry made meanwhile still wraps to the right one.
* `BucketsHold`, `ChainsHold`, `TreesHold`: an entry is `INITVAL` or a position
  already passed (`Sound`). The head of a chain or a tree is also the position of a
  slot written since `init` (`Planted`), and a link or child is too, and lies before
  the last position (`Strict`). `init` leaves old links, so soundness alone would not
  survive following one; during a walk the root is an exception, its children are not
  written yet.
* `SearchHolds`, `WalkHolds`: what a search keeps between two steps. The candidate
  is in the window, before the position, and its slot is written; the bytes to
  compare are inside the input; no match in hand has full length. In a walk, the
  children of the new root other than the two still to be filled are settled
  (`Awaited`).

The arithmetic is that of `AsEntry` and `Rebased`: a slide subtracts a window
saturating at `INITVAL`, so a live entry moves with its position and a dead one stays
dead (`RebasedMoves`, `SlidMoves`), and slots of positions less than a window apart
differ (`SlotsDiffer`).

`PrefixIsKnown` needs the trees' order, and the order needs to say what lies below a
child, which the code keeps no record of; nor would reachability do, since a walk
unlinks, replaces and cuts off. `TreesOrdered` says there is an assignment `sub` of
positions to children with three properties: what is below a node is older and on
its side of it, in the bytes the present search looks at (`InOrder`); a child in the
window and all that is below it are in the parent's set, except at the two places
a walk has still to fill (`Contains`); and what is below the next node of a walk lies
between the nearest nodes found on either side, with whose common bytes with the
position it therefore agrees (`WalkOrder`, `OnSideSqueeze`). A descent only takes
away from the sets (`Narrowed`: what is on the far side of the node leaves the near
child's), so nothing has to be said of nodes the walk does not touch; a new root
takes everything in its tree and more, whatever is on either side (`Planting`); a
node equal to the root for `nice_len` bytes may hand over its children because no
later search looks further than this one (`NotAfterFewer`); and a slide or a
replaced node only makes the sets smaller. That a walk cut off by the depth limit
drops subtrees is harmless for the same reason.

**IncrementalProofs** proves of the incremental compressor, for every input, way of
cutting it into calls, window, hash, level and room, that `Spec` implies `UsesFinder`,
`[]NeverPanics`, `[]MatchIsReal` and `[]FitsAsChecked`. All are under the hypothesis
`~Retries`, without which `NeverPanics` is false (section 3, `incremental_retry`). `CompressorAssumption` says
what the levels give: a nice length between the bytes a search needs and the longest
match (10 to 258 against 5 in `compression_params`), and matches of two bytes or more.

The finder the compressor uses is one of those of FinderProofs, whose `FinderInv` is
taken over by INSTANCE, once for the finder as it is (`Family`) and once for the
finder as the snapshot has it (`Saved`). `CompressorInv` adds what a parser must know
for its next use of the finder to be legal:

* `FinderRests`: a search or a skip in progress belongs to the step of the call that
  started it, so that no call ends, no block is cut and no snapshot is taken in the
  middle of one.
* `ResultHolds`: a search that found nothing leaves the length that was to be beaten
  (`ToBeat`), and every parser's test for what is worth taking asks for more. That is
  what keeps an offset of 0, which means nothing was found, away from the table of
  slots; the other offsets are in it because `MatchIsReal`.
* `MatchHeld`: while the lazy parser looks one position further it keeps a match that
  was found before; what is left of it is still inside the input, counted from where
  the look ahead has left the position.
* `FinderWaits`: after a call that went well the finder stands where the next call
  begins, with the base that was kept. After one that failed it does not, which is why
  a caller that goes on regardless breaks all of this.
* `SnapshotHolds`: a snapshot has a finder that satisfies `FinderInv` with its own
  input and position, so that a restore ends in a state like one a call ends in.

One lemma per action shows that the action moves the finder legally (`FinderMoves`)
and keeps the invariant; skips and searches share theirs (`TakeKeeps`,
`HcSearchLeaves`).

For `FitsAsChecked`, `WriterOK` says what a writer is between two writes: less than a
byte in hand, whole bytes written and no more of them than the room. A write that has
the room keeps it and tears nothing (`OutputGrows`, `FlushLeaves`). What has to be
shown is that the room is there: `StoredCostIsExact` says that the cost of a stored
block, in whole bytes, is exactly what is written of all its pieces, for every number
of bits in hand: the estimate leaves out the header of the first piece, but ends
that many bits short of a whole byte, so rounding up to whole bytes brings it back. `UncompressedFits` then goes from piece to piece by
induction over a set. `FitsInv` adds that positions stay inside the input, which a
restore can shorten.

**BlockOptimizer** holds its own proof: for every number of passes, threshold and
search of the cost model, `OptimizerSpec` implies `[]FlushIsNearBest`, what is
written is of one parse and near the best tried, and `[]FirstStallEndsSearch`, the
diversification is dead code. `OptimizerInv` adds that the best cost is the true one
of the costs saved with it, and within the threshold of every pass tried, and which
parse `path` and `coded` are of at each step.

Only model-checked: the other decoders; that the compressors' output decodes (`StreamDecodes` and the like, folds of
a decoder over a stream); what the recursive definitions of codes, paths and
checksums compute, which is induction over data; and liveness (`EventuallyDecoded`).
The last two are out of the prover's reach.

## 5. Not modelled

* `full_optimal.rs`, `png_ultra.rs`, `png_mode.rs`: searches over floating-point
  costs and filter heuristics. What they decide, blocks and matches, is chosen
  freely in ChunkedCompressor; how they find it is not modelled. The same goes for
  lazy2's second look and the other one-shot parsers' rules of preference.
* Bit patterns of a whole stream. In the decoders a token has a width and a meaning;
  that a table lookup yields it is the business of DecodeTable. In the compressors a
  symbol stands for its bits; HuffmanBlock has the header bit by bit.
* Checksum collisions: where a stream is decoded or joined, a checksum is the bytes
  it is of, so `ChecksumMismatch` is exact.
* 64-bit counters do not wrap in the model; `total_output as u32` in the gzip footer
  is compared without the truncation, which shows only beyond 4 GiB; the scanner's
  count cannot reach `usize::MAX`.
* The growth of the staging buffer from 4 KiB to 32 KiB: `fill_input` always goes on
  until it is full or the source is dry, and bytes in a smaller buffer are the same
  bytes.
* gzip's optional header fields: one header, of any size that fits the staging buffer.
* That the tables of the decoder have room for every code (the `ENOUGH` sizes): an
  enumeration beyond TLC.
* `Debug`, accessors, `with_*` builders (a set-up is what they build), the copy in
  `Read::read`, the BMI2 and unchecked builds (the same source compiled twice), and
  the intrinsics behind a checksum's lanes.
* Costs in parsers and splitters: cost estimates of whole inputs, the values of cost
  models, what observations a block splitter makes. They decide sizes, not whether
  the output decodes.
* The codes and frequencies in a snapshot: they enter estimates only.
* Components marked `not_modelled` in `PROJECT.json`, with reasons there.

## 6. Plan

Done: the streaming decoder with its buffer and queue; the one-shot decoder and the
scanner; code construction, headers, tables and copies; all match finders;
incremental, static turbo and near-optimal compression; chunked compression,
parallel gzip, strips; checksums; the proofs above.

Left, in order:

1. Proof that what the incremental compressor writes decodes to its input
   (`StreamDecodes`), for every parser and cost.
2. Proofs that the one-shot decoder's loops keep their margins (`LoopsAreSafe`, as
   `FastloopIsSafe` of the streaming decoder) and that its calls are right
   (`CallIsRight`; the tokens' lemmas of DecodingInvariant serve there too), that joined output is right whatever
   the order of threads and strips (`GzipIsRight`, `StripsAreRight`), and that the
   near-optimal parser never outgrows its cache (`BlocksAreWellCut`).
3. full_optimal.rs: its split search and parse over a cost function left open, as in
   NearOptimalBlocks; the png rungs' parsers; lazy2.
4. The bounds of compressed sizes for every input (`GzipIsRight` and `StripsAreRight`
   have them for small ones): a sum over the blocks each way of writing may make.

-------------------------- MODULE StreamDecompressor --------------------------
(***************************************************************************)
(* StreamDecompressor::fill and everything it calls                        *)
(* (src/src/decompress/streaming.rs), driven by a caller that fills, takes *)
(* output in pieces of any size, and resets.                               *)
(*                                                                         *)
(* One call of fill() runs alone, so its steps are actions one after the   *)
(* other: call.pc says where in the call the decoder is.                   *)
(*   "idle"      outside fill()                                            *)
(*   "dispatch"  top of fill()'s loop, about to run state's handler        *)
(*   "codelens"  in parse_dynamic_code_lengths' loop                       *)
(*   "refill"    top of decompress_block's 'refill loop                    *)
(*   "fast"      in the fastloop         "generic"  in the generic loop    *)
(*   "account"   below the match in fill()'s loop                          *)
(*                                                                         *)
(* Input is counted, not stored: in.pos and in.end are the offsets in the  *)
(* stream of input_pos and input_len, in.left and in.over are bitsleft and *)
(* overread_count.  What the bits at a position mean is looked up in the   *)
(* stream, so any bit lost or consumed twice makes the decoder read at a   *)
(* place where no token starts.                                            *)
(***************************************************************************)
EXTENDS OutputBuffer, BitReader

CONSTANTS
  Setups,                      (* decoders and the streams they are given *)
  INPUT_BUF_SIZE,              (* staging buffer: 32 KiB in the code      *)
  REFILL_BELOW,                (* 4096 in the code                        *)
  GENERIC_REFILL,              (* the 16 of the generic loop              *)
  FASTLOOP_MAX_BYTES_READ,     (* 32 in the code                          *)
  FASTLOOP_MAX_BYTES_WRITTEN,  (* 4 + 258 + 32 in the code                *)
  MATCH_OVERCOPY,              (* bytes a match copy may scribble: 31     *)
  MAX_MATCH,                   (* the longest match: 258 in DEFLATE       *)
  DOUBLE_LITERAL_MIN_INPUT,    (* 16 KiB in the code                      *)
  LITLEN_TABLEBITS,            (* 11 in the code                          *)
  MAX_BLOCKS_WITHOUT_OUTPUT,   (* 10 000 in the code                      *)
  Takes,                       (* what the caller may take besides it all *)
  MaxResets                    (* bound: how often the caller resets      *)

(* The tokens a stream is made of.  A match's base values and extra bits   *)
(* cannot express more than DEFLATE allows; whether its offset reaches     *)
(* before the output's start is for the decoder to find out.               *)
HeaderBits == {8 * n : n \in 1 .. INPUT_BUF_SIZE}

Token ==
  [kind : {"wrapper"}, ok : BOOLEAN, bits : HeaderBits]
    \cup [kind : {"block"}, type : {"dynamic"}, final : BOOLEAN, bits : {20}]
    \cup [kind : {"block"}, type : {"static", "stored", "reserved"},
          final : BOOLEAN, bits : {3}]
    \cup [kind : {"precode"}, ok : BOOLEAN, bits : 1 .. 54]
    \cup [kind : {"lens"}, last : BOOLEAN, ok : BOOLEAN, longest : Nat, bits : 1 .. 14]
    \cup [kind : {"len"}, n : Nat, ok : BOOLEAN, bits : {32}]
    \cup [kind : {"byte"}, val : Byte, bits : {8}]
    \cup [kind : {"lit"}, val : Byte, bits : 1 .. 15]
    \cup [kind : {"match"}, offset : 1 .. LOOKBACK_SIZE, length : 1 .. MAX_MATCH,
          bits : 1 .. 20, obits : 0 .. 28]
    \cup [kind : {"eob"}, bits : 1 .. 15]
    \cup [kind : {"footer"}, sum : Seq(Byte), size : Nat, bits : {32, 64}]

FooterBytes(wrap) == IF wrap = "gzip" THEN 8 ELSE 4

HasHeader(u) == u.wrapper # "raw" /\ u.verify_footer

(* A laid-out stream is one that u may be given: its tokens parse its      *)
(* bytes, with the wrapper u expects; its code lengths fit the staging     *)
(* buffer (at most 320 of at most 14 bits); a segment is not cut off where *)
(* one of its blocks ends, or it would be a shorter segment.               *)
Suits(u, s) ==
  LET after == DecodedUpTo(s.toks)
      size == Len(s.toks)
  IN  /\ Parsed(s)
      /\ HasHeader(u) <=> (size > 0 /\ s.toks[1].kind = "wrapper")
      /\ \A k \in 1 .. size :
           s.toks[k].kind = "footer" =>
             u.wrapper # "raw" /\ s.toks[k].bits = 8 * FooterBytes(u.wrapper)
      /\ u.wrapper # "raw" => after[size].fault \/ after[size].place # "footer"
      /\ \A j, k \in 1 .. size :
           (j <= k /\ \A l \in j .. k : s.toks[l].kind = "lens")
             => s.starts[k + 1] - s.starts[j] <= 8 * (INPUT_BUF_SIZE - 8)
      /\ u.segment_end =>
           \A k \in 1 .. size :
             (after[k - 1].place = "block" /\ ~after[k - 1].fault)
               => s.starts[k] # 8 * s.nbytes

(* A setup is what the constructor and the with_ methods set, and a        *)
(* sequence of streams: verify_footer is FALSE for zlib_continuation,      *)
(* max_output_size is -1 for None, source_errors bounds how often the      *)
(* source fails.                                                           *)
ASSUME SetupAssumption ==
  \A u \in Setups :
    /\ u.wrapper \in WrapperFormat /\ u.policy \in ChecksumPolicy
    /\ u.segment_end \in BOOLEAN /\ u.verify_footer \in BOOLEAN
    /\ u.max_output_size \in Int /\ u.source_errors \in Nat
    /\ u.streams \in Seq([toks : Seq(Token), nbytes : Nat])
    /\ \A k \in 1 .. Len(u.streams) : Suits(u, Layout(u.streams[k]))

(* The fastloop's margins (mod.rs 38-52): room for two entries of two      *)
(* literals and a match with its overcopy; input for the refills of a turn *)
(* and their 8-byte loads; bits for three lookups in the table.            *)
ASSUME StreamAssumption ==
  /\ INPUT_BUF_SIZE \in Nat /\ GENERIC_REFILL <= INPUT_BUF_SIZE
  /\ REFILL_BELOW \in Nat /\ GENERIC_REFILL \in Nat /\ GENERIC_REFILL >= 8
  /\ DOUBLE_LITERAL_MIN_INPUT \in Nat
  /\ MAX_MATCH \in Nat /\ MAX_MATCH >= 2
  /\ MATCH_OVERCOPY \in Nat
  /\ FASTLOOP_MAX_BYTES_WRITTEN \in Nat
  /\ FASTLOOP_MAX_BYTES_WRITTEN >= 4 + MAX_MATCH + MATCH_OVERCOPY
  /\ FASTLOOP_MAX_BYTES_READ \in Nat /\ FASTLOOP_MAX_BYTES_READ >= 21
  /\ LITLEN_TABLEBITS \in Nat /\ 3 * LITLEN_TABLEBITS <= 56
  /\ MAX_BLOCKS_WITHOUT_OUTPUT \in Nat
  /\ Takes \subseteq Nat /\ MaxResets \in Nat

VARIABLES
  options, (* segment_end, verify_footer, max_output_size, source_errors  *)
  stream, (* the stream the source delivers, laid out and decoded         *)
  in,    (* bit reader and staging: [pos, end, left, over]                *)
  dec,   (* the state machine and what a suspended block carries over     *)
  acct,  (* total_decompressed and blocks_without_output                  *)
  done,  (* checksum_matched, footer_checksum, ended_at_segment_boundary  *)
  call,  (* where fill() is, its locals, and what it last returned        *)
  hist   (* history: source errors, resets, and whether a phantom was read *)

given == <<options, stream>>
streamVars == <<given, in, dec, acct, done, call, hist>>
vars == <<bufferVars, streamVars>>

Sources(u) == {Source(u.streams[k]) : k \in 1 .. Len(u.streams)}

(* The decoder was set up as u says. *)
SetUpAs(u) ==
  /\ wrapper = u.wrapper
  /\ checksum_policy = u.policy
  /\ options = [segment_end |-> u.segment_end, verify_footer |-> u.verify_footer,
                max_output_size |-> u.max_output_size,
                source_errors |-> u.source_errors]

None == "none"
NoMatch == [offset |-> 0, length |-> 0]

-------------------------------------------------------------------------------
(* The bit reader.                                                         *)

(* Mutant: forgets that unread bytes stay in the staging buffer. *)
Filled_Uncompacted(i) ==
  [i EXCEPT !.end = AtMost(i.end + INPUT_BUF_SIZE, stream.nbytes)]

(* fill_input when the source does not fail: the doubling loop always ends *)
(* with a full staging buffer or with the source's end.                    *)
Filled(i) == [i EXCEPT !.end = AtLeast(i.end, AtMost(i.pos + INPUT_BUF_SIZE,
                                                     stream.nbytes))]

Emptied(i) == [i EXCEPT !.left = 0, !.over = 0]

Phantoms == PhantomsWith(Junk, LOOKBACK_SIZE)

TokensAt(bit) == TokensOf(stream, stream.nbytes, bit)

Tokens(i, kinds) == TokensFor(stream, stream.nbytes, i, kinds)

HasToken(i, kinds) == Tokens(i, kinds) # {}

(* Use only where HasToken(i, kinds). *)
TheToken(i, kinds) == CHOOSE t \in Tokens(i, kinds) : TRUE

Read(i, kinds, phantoms) == ReadFrom(stream, stream.nbytes, i, kinds, phantoms)

(* A stored byte, or whatever byte lies there. *)
ByteAt(n) ==
  LET bytes == {t \in TokensAt(8 * n) : t.kind = "byte"}
  IN  IF bytes = {} THEN Junk ELSE (CHOOSE t \in bytes : TRUE).val

-------------------------------------------------------------------------------
(* Leaving a handler.                                                      *)

(* The handler returned Ok: go on below the match in fill(). *)
ToAccount == call' = [call EXCEPT !.pc = "account"]

ToPc(pc) == call' = [call EXCEPT !.pc = pc]

(* `?`: leave fill() at once, skipping the accounting. *)
Fail(err) == call' = [call EXCEPT !.pc = "idle", !.result = err]

Return == call' = [call EXCEPT !.pc = "idle", !.result = "ok"]

(* A read of i that no intact token answers. *)
NotePhantom(real) == hist' = [hist EXCEPT !.phantom = @ \/ ~real]

(* Mutants: the overread check is missing; the footer is skipped. *)
Finished_IgnoresOverread(i) ==
  CASE ~dec.final -> "BlockHeader"
    [] dec.final /\ wrapper = "raw" -> "Done"
    [] OTHER -> "WrapperFooter"

Finished_SkipsFooter(i) == IF dec.final THEN "Done" ELSE "BlockHeader"

(* finish_block, entered with bit reader i: the next state, or BadData     *)
(* when the final block was decoded from overread bits.                    *)
Finished(i) ==
  IF ~dec.final THEN "BlockHeader"
  ELSE IF i.over > i.left \div 8 THEN "BadData"
  ELSE IF wrapper = "raw" THEN "Done"
  ELSE "WrapperFooter"

FinishBlock(i) ==
  LET next == Finished(i) IN
  IF next = "BadData" THEN Fail("BadData") /\ UNCHANGED dec
  ELSE ToAccount /\ dec' = [dec EXCEPT !.state = next, !.remaining = 0]

-------------------------------------------------------------------------------
(* The source.                                                             *)

(* fill_input returns an error after loading some bytes (they stay). *)
SourceFails(i) ==
  /\ hist.errors < options.source_errors
  /\ Staged(i) < INPUT_BUF_SIZE
  /\ \E e \in i.end .. AtMost(i.pos + INPUT_BUF_SIZE - 1, stream.nbytes) :
       in' = [i EXCEPT !.end = e]
  /\ hist' = [hist EXCEPT !.errors = @ + 1]
  /\ Fail("Source")

(* The handlers that call fill_input first and lose nothing when it fails. *)
SourceFailsBeforeHandler ==
  /\ call.pc = "dispatch"
  /\ dec.state \in {"WrapperHeader", "BlockHeader", "DynamicPrecodeLens",
                    "DynamicCodeLengths"}
  /\ SourceFails(in)
  /\ UNCHANGED <<bufferVars, given, dec, acct, done>>

-------------------------------------------------------------------------------
(* The caller.                                                             *)

Fatal == {"BadData", "InvalidHeader", "ChecksumMismatch", "OutputLimitExceeded",
          "StallLimitExceeded"}

(* The caller gives up after a decompression error; a source error may be  *)
(* transient (io::ErrorKind::Interrupted), so it may call again.           *)
BeginFill ==
  /\ call.pc = "idle"
  /\ call.result \notin Fatal
  /\ PeekLen < Capacity
  /\ dec.state # "Done"
  /\ IF OutputSpace = 0 THEN CompactOutput ELSE UNCHANGED bufferVars
  /\ call' = [call EXCEPT !.pc = "dispatch", !.prev = write_pos']
  /\ UNCHANGED <<given, in, dec, acct, done, hist>>

TakeOutput ==
  /\ call.pc = "idle"
  /\ \E n \in (Takes \cup {PeekLen}) \ {0} : Advance(n)
  /\ UNCHANGED streamVars

(* running_checksum(): flushes between two calls of fill(). *)
RunningChecksum ==
  /\ call.pc = "idle"
  /\ FlushNeeded
  /\ FlushChecksum
  /\ UNCHANGED streamVars

FirstState == IF wrapper = "raw" \/ ~options.verify_footer THEN "BlockHeader"
                                                   ELSE "WrapperHeader"

FreshInput == [pos |-> 0, end |-> 0, left |-> 0, over |-> 0]
FreshAcct == [total |-> 0, stalls |-> 0]
FreshDone == [matched |-> None, footer |-> None, segment |-> FALSE]
FreshHist == [errors |-> 0, resets |-> 0, phantom |-> FALSE]
FreshCall == [pc |-> "idle", result |-> None, prev |-> 0, chain |-> 0, start |-> 0]

(* Mutant: static_codes_loaded survives a reset. *)
Rewound_KeepsStatic(d) ==
  [d EXCEPT !.state = FirstState, !.remaining = 0, !.final = FALSE,
            !.match = NoMatch, !.lits = <<>>, !.doubles_pending = FALSE,
            !.litlen_doubles = FALSE]

(* The decode tables keep the previous stream's contents, only their flags *)
(* are cleared.                                                            *)
Rewound(d) ==
  [d EXCEPT !.state = FirstState, !.remaining = 0, !.final = FALSE,
            !.match = NoMatch, !.lits = <<>>, !.doubles_pending = FALSE,
            !.litlen_doubles = FALSE, !.static_loaded = FALSE]

(* reset(source) *)
Reset ==
  /\ call.pc = "idle"
  /\ hist.resets < MaxResets
  /\ ResetOutput
  /\ \E u \in Setups : SetUpAs(u) /\ stream' \in Sources(u)
  /\ UNCHANGED options
  /\ in' = FreshInput
  /\ dec' = Rewound(dec)
  /\ acct' = FreshAcct
  /\ done' = FreshDone
  /\ call' = FreshCall
  /\ hist' = [FreshHist EXCEPT !.errors = hist.errors, !.resets = hist.resets + 1]

-------------------------------------------------------------------------------
(* Headers.                                                                *)

(* parse_wrapper_header: the whole header must be staged. *)
ParseWrapperHeader ==
  /\ call.pc = "dispatch" /\ dec.state = "WrapperHeader"
  /\ LET i == Filled(in)
         t == TheToken(i, {"wrapper"})
         good == /\ HasToken(i, {"wrapper"})
                 /\ t.ok
                 /\ t.bits <= 8 * Staged(i)
     IN  IF good
           THEN /\ in' = [i EXCEPT !.pos = @ + t.bits \div 8]
                /\ dec' = [dec EXCEPT !.state = "BlockHeader"]
                /\ ToAccount
           ELSE /\ in' = i
                /\ Fail("InvalidHeader")
                /\ UNCHANGED dec
  /\ UNCHANGED <<bufferVars, given, acct, done, hist>>

(* Mutants: leftover bits are ignored; overread padding counts as bits. *)
AtSegmentEnd_Unaligned(i) == options.segment_end /\ Staged(i) = 0
AtSegmentEnd_IgnoresOverread(i) == options.segment_end /\ Staged(i) = 0 /\ i.left = 0

(* Input exhausted at a byte-aligned block boundary, in segment mode. *)
AtSegmentEnd(i) == options.segment_end /\ Staged(i) = 0 /\ i.left = 8 * i.over

EndSegment ==
  /\ call.pc = "dispatch" /\ dec.state = "BlockHeader"
  /\ AtSegmentEnd(Filled(in))
  /\ in' = Filled(in)
  /\ done' = [done EXCEPT !.segment = TRUE]
  /\ dec' = [dec EXCEPT !.state = "Done"]
  /\ ToAccount
  /\ UNCHANGED <<bufferVars, given, acct, hist>>

(* Mutant: the flag of the previous table's double literals stays. *)
WithTable_KeepsDoubles(code, longest) ==
  [dec EXCEPT !.state = "CompressedData",
              !.table = [code |-> code, doubles |-> FALSE,
                         bits |-> AtMost(LITLEN_TABLEBITS, longest)],
              !.doubles_pending = TRUE]

(* A freshly built litlen table, indexed by as many bits as its longest    *)
(* codeword has but no more than LITLEN_TABLEBITS, without double literals.*)
WithTable(code, longest) ==
  [dec EXCEPT !.state = "CompressedData",
              !.table = [code |-> code, doubles |-> FALSE,
                         bits |-> AtMost(LITLEN_TABLEBITS, longest)],
              !.doubles_pending = TRUE,
              !.litlen_doubles = FALSE]

(* parse_block_header for each block type, with the refilled reader r. *)
BeginDynamic(r, t) ==
  /\ in' = Consumed(r, 20)
  /\ dec' = [dec EXCEPT !.state = "DynamicPrecodeLens", !.final = t.final,
                        !.static_loaded = FALSE]
  /\ ToAccount
  /\ NotePhantom(HasToken(r, {"block"}))

BeginStatic(r, t) ==
  /\ in' = Consumed(r, 3)
  /\ LET d == IF dec.static_loaded THEN dec
              ELSE [WithTable("static", 9) EXCEPT !.static_loaded = TRUE]
     IN  dec' = [d EXCEPT !.state = "CompressedData", !.final = t.final]
  /\ ToAccount
  /\ NotePhantom(HasToken(r, {"block"}))

BeginStored(r, t) ==
  LET aligned == Consumed(r, 3 + ((r.left - 3) % 8))
      len == TheToken(aligned, {"len"})
      good == RealBytes(aligned) >= 4 /\ HasToken(aligned, {"len"}) /\ len.ok
  IN  /\ in' = IF RealBytes(aligned) >= 4 THEN Consumed(aligned, 32) ELSE aligned
      /\ IF good
           THEN /\ dec' = [dec EXCEPT !.state = "UncompressedData",
                                      !.final = t.final, !.remaining = len.n]
                /\ ToAccount
           ELSE Fail("BadData") /\ dec' = [dec EXCEPT !.final = t.final]
      /\ NotePhantom(HasToken(r, {"block"}))

BadBlock(r, final) ==
  /\ in' = r
  /\ Fail("BadData")
  /\ dec' = [dec EXCEPT !.final = final]
  /\ UNCHANGED hist

ParseBlockHeader ==
  /\ call.pc = "dispatch" /\ dec.state = "BlockHeader"
  /\ ~AtSegmentEnd(Filled(in))
  /\ LET r == Refilled(Filled(in)) IN
       IF Overrun(r) THEN BadBlock(r, dec.final)
       ELSE \E t \in Read(r, {"block"}, Phantoms.block) :
              \/ t.type = "dynamic" /\ BeginDynamic(r, t)
              \/ t.type = "static" /\ BeginStatic(r, t)
              \/ t.type = "stored" /\ BeginStored(r, t)
              \/ t.type = "reserved" /\ BadBlock(r, t.final)
  /\ UNCHANGED <<bufferVars, given, acct, done>>

ParseDynamicPrecodeLens ==
  /\ call.pc = "dispatch" /\ dec.state = "DynamicPrecodeLens"
  /\ LET r == Refilled(Filled(in)) IN
       \E t \in Read(r, {"precode"}, Phantoms.precode) :
         /\ in' = IF Overrun(r) THEN r ELSE Consumed(r, t.bits)
         /\ IF Overrun(r) \/ ~t.ok
              THEN Fail("BadData") /\ UNCHANGED dec
              ELSE ToAccount /\ dec' = [dec EXCEPT !.state = "DynamicCodeLengths"]
  /\ NotePhantom(HasToken(Refilled(Filled(in)), {"precode"}))
  /\ UNCHANGED <<bufferVars, given, acct, done>>

EnterCodeLengths ==
  /\ call.pc = "dispatch" /\ dec.state = "DynamicCodeLengths"
  /\ in' = Filled(in)
  /\ ToPc("codelens")
  /\ UNCHANGED <<bufferVars, given, dec, acct, done, hist>>

(* One turn of parse_dynamic_code_lengths' loop, which never goes back to  *)
(* the source; the last one builds the tables.                             *)
ParseCodeLength ==
  /\ call.pc = "codelens"
  /\ LET r == IF in.left < 14 THEN Refilled(in) ELSE in IN
       /\ \E t \in Read(r, {"lens"}, Phantoms.lens) :
            /\ in' = IF Overrun(r) THEN r ELSE Consumed(r, t.bits)
            /\ IF Overrun(r) \/ ~t.ok THEN Fail("BadData") /\ UNCHANGED dec
               ELSE IF t.last THEN ToAccount /\ dec' = WithTable("dynamic", t.longest)
               ELSE UNCHANGED <<dec, call>>
       /\ NotePhantom(HasToken(r, {"lens"}))
  /\ UNCHANGED <<bufferVars, given, acct, done>>

-------------------------------------------------------------------------------
(* decompress_block: what the previous call could not write.               *)

InBlock(pc) == call.pc = pc /\ dec.state = "CompressedData"

HasPending == dec.match # NoMatch \/ dec.lits # <<>>

(* Stop when `capacity` bytes wait, else go on with the pending data. *)
StopIfFull(n) ==
  IF PeekLen + n >= Capacity THEN ToAccount ELSE UNCHANGED call

ResumeMatch ==
  /\ InBlock("dispatch") /\ dec.match # NoMatch
  /\ LET m == dec.match
         n == AtMost(m.length, OutputSpace)
     IN  /\ IF n = 0 THEN UNCHANGED bufferVars ELSE WriteMatch(m.offset, n, 0)
         /\ dec' = [dec EXCEPT !.match =
                      IF n < m.length THEN [m EXCEPT !.length = @ - n] ELSE NoMatch]
         /\ IF n < m.length THEN ToAccount ELSE StopIfFull(n)
  /\ UNCHANGED <<given, in, acct, done, hist>>

ResumeLiteral ==
  /\ InBlock("dispatch") /\ dec.match = NoMatch /\ dec.lits # <<>>
  /\ IF OutputSpace = 0
       THEN ToAccount /\ UNCHANGED <<bufferVars, dec>>
       ELSE /\ PutBytes([j \in {0} |-> dec.lits[1]], 1, 0)
            /\ dec' = [dec EXCEPT !.lits = Tail(@)]
            /\ StopIfFull(1)
  /\ UNCHANGED <<given, in, acct, done, hist>>

(* Mutant: the fastloop runs while a single byte fits. *)
FastOk_NoOutputMargin(i, w) ==
  Staged(i) > FASTLOOP_MAX_BYTES_READ /\ w < Len(buffer)

(* decompress_block: the 'refill loop's head, on entry and on re-entry. *)
FastOk(i, w) ==
  /\ Staged(i) > FASTLOOP_MAX_BYTES_READ
  /\ w + FASTLOOP_MAX_BYTES_WRITTEN < Len(buffer)

(* Mutant: no lookback before the fastloop's own output. *)
RealStart_NoLookback == write_pos

(* The fastloop's real_start: the oldest byte a back-reference may use. *)
RealStart == write_pos - lookback_valid

AtRefill == \/ InBlock("dispatch") /\ ~HasPending
            \/ InBlock("refill")

EnterLoops ==
  /\ AtRefill
  /\ LET i == IF Staged(in) < REFILL_BELOW THEN Filled(in) ELSE in
         addDoubles == dec.doubles_pending /\ Staged(i) >= DOUBLE_LITERAL_MIN_INPUT
     IN  /\ dec' = IF addDoubles
                     THEN [dec EXCEPT !.table.doubles = TRUE,
                                      !.doubles_pending = FALSE,
                                      !.litlen_doubles = TRUE]
                     ELSE dec
         /\ IF FastOk(i, write_pos)
              THEN /\ in' = RefilledFast(i)
                   /\ call' = [call EXCEPT !.pc = "fast", !.chain = 0,
                                           !.start = RealStart]
              ELSE in' = i /\ ToPc("generic")
  /\ UNCHANGED <<bufferVars, given, acct, done, hist>>

SourceFailsAtRefill ==
  /\ AtRefill
  /\ Staged(in) < REFILL_BELOW
  /\ SourceFails(in)
  /\ UNCHANGED <<bufferVars, given, dec, acct, done>>

-------------------------------------------------------------------------------
(* Table entries.  With double literals a main-table entry holds a second  *)
(* literal when both codewords fit in the table's index.                   *)

Entry(i, t) ==
  LET second == {u \in Tokens(Consumed(i, t.bits), {"lit"}) :
                   t.bits + u.bits <= dec.table.bits}
  IN  IF t.kind = "lit" /\ dec.table.doubles /\ second # {}
        THEN LET u == CHOOSE u \in second : TRUE
             IN  [vals |-> <<t.val, u.val>>, bits |-> t.bits + u.bits]
        ELSE [vals |-> IF t.kind = "lit" THEN <<t.val>> ELSE <<>>,
              bits |-> t.bits]

InMainTable(t) == t.bits <= dec.table.bits

(* Mutant: two literals of one entry are stored in the wrong order. *)
Cells_Swapped(vals, n) == [j \in 0 .. (n - 1) |-> vals[n - j]]

Cells(vals, n) == [j \in 0 .. (n - 1) |-> vals[j + 1]]

-------------------------------------------------------------------------------
(* One turn of the fastloop is a chain of up to three main-table literal   *)
(* entries, ended by a refill, a match or an end of block.                 *)

(* Refill, then go round again unless input or output runs short. *)
FastTurn(i, n) ==
  LET r == RefilledFast(i) IN
  /\ in' = r
  /\ call' = [call EXCEPT !.chain = 0,
                          !.pc = IF FastOk(r, write_pos + n) THEN "fast"
                                                             ELSE "generic"]

(* put_lits: `litlen_doubles` decides how many bytes are stored, the table *)
(* how many codewords the entry consumed.                                  *)
FastLiteral ==
  /\ InBlock("fast")
  /\ \E t \in Read(in, Symbols, Phantoms.symbol) :
       /\ t.kind = "lit"
       /\ LET e == Entry(in, t)
              n == IF dec.litlen_doubles /\ InMainTable(t) THEN Len(e.vals) ELSE 1
              scratch == IF dec.litlen_doubles /\ InMainTable(t) THEN 2 - n ELSE 0
              i == Consumed(in, e.bits)
          IN  /\ PutBytes(Cells(e.vals, n), n, scratch)
              /\ IF call.chain < 2 /\ InMainTable(t)
                   THEN in' = i /\ call' = [call EXCEPT !.chain = @ + 1]
                   ELSE FastTurn(i, n)
  /\ NotePhantom(HasToken(in, Symbols))
  /\ UNCHANGED <<given, dec, acct, done>>

FastMatch ==
  /\ InBlock("fast")
  /\ \E t \in Read(in, Symbols, Phantoms.symbol) :
       /\ t.kind = "match"
       /\ LET len == Consumed(in, t.bits)
              mid == IF len.left < 28 + dec.table.bits THEN RefilledFast(len)
                                                         ELSE len
              i == Consumed(mid, t.obits)
          IN  IF t.offset > write_pos - call.start
                THEN in' = i /\ Fail("BadData") /\ UNCHANGED bufferVars
                ELSE /\ WriteMatch(t.offset, t.length, MATCH_OVERCOPY)
                     /\ FastTurn(i, t.length)
  /\ NotePhantom(HasToken(in, Symbols))
  /\ UNCHANGED <<given, dec, acct, done>>

FastEndOfBlock ==
  /\ InBlock("fast")
  /\ \E t \in Read(in, Symbols, Phantoms.symbol) :
       /\ t.kind = "eob"
       /\ in' = Consumed(in, t.bits)
       /\ FinishBlock(in')
  /\ NotePhantom(HasToken(in, Symbols))
  /\ UNCHANGED <<bufferVars, given, acct, done>>

-------------------------------------------------------------------------------
(* The generic loop: one symbol per turn, staging refilled below 16 bytes. *)

GenericFills == Staged(in) < GENERIC_REFILL

(* The reader after the refill at the loop's head: bits that were overread *)
(* are dropped when the source turns out to have more.                     *)
GenericInput ==
  IF ~GenericFills THEN in
  ELSE LET i == Filled(in) IN
       IF i.over > 0 /\ Staged(i) > Staged(in)
         THEN [i EXCEPT !.left = @ - 8 * i.over, !.over = 0]
         ELSE i

BackToFast ==
  /\ GenericFills
  /\ Staged(GenericInput) >= FASTLOOP_MAX_BYTES_READ + 16
  /\ write_pos + FASTLOOP_MAX_BYTES_WRITTEN < Len(buffer)

GenericReenter ==
  /\ InBlock("generic")
  /\ BackToFast
  /\ in' = GenericInput
  /\ ToPc("refill")
  /\ UNCHANGED <<bufferVars, given, dec, acct, done, hist>>

SourceFailsInGeneric ==
  /\ InBlock("generic")
  /\ GenericFills
  /\ SourceFails(in)
  /\ UNCHANGED <<bufferVars, given, dec, acct, done>>

GenericReader == Refilled(GenericInput)

GenericReady == InBlock("generic") /\ ~BackToFast /\ ~Overrun(GenericReader)

GenericOverrun ==
  /\ InBlock("generic")
  /\ ~BackToFast
  /\ Overrun(GenericReader)
  /\ in' = GenericReader
  /\ Fail("BadData")
  /\ UNCHANGED <<bufferVars, given, dec, acct, done, hist>>

(* Literals that do not fit wait in pending_literal, pending_literal2. *)
GenericLiteral ==
  /\ GenericReady
  /\ \E t \in Read(GenericReader, Symbols, Phantoms.symbol) :
       /\ t.kind = "lit"
       /\ LET e == Entry(GenericReader, t)
              n == AtMost(Len(e.vals), OutputSpace)
          IN  /\ in' = Consumed(GenericReader, e.bits)
              /\ IF n = 0 THEN UNCHANGED bufferVars
                          ELSE PutBytes(Cells(e.vals, n), n, 0)
              /\ dec' = [dec EXCEPT !.lits = SubSeq(e.vals, n + 1, Len(e.vals))]
              /\ IF n < Len(e.vals) THEN ToAccount ELSE StopIfFull(n)
  /\ NotePhantom(HasToken(GenericReader, Symbols))
  /\ UNCHANGED <<given, acct, done>>

GenericMatch ==
  /\ GenericReady
  /\ \E t \in Read(GenericReader, Symbols, Phantoms.symbol) :
       /\ t.kind = "match"
       /\ in' = Consumed(GenericReader, t.bits + t.obits)
       /\ LET n == AtMost(t.length, OutputSpace) IN
            IF t.offset > lookback_valid
              THEN Fail("BadData") /\ UNCHANGED <<bufferVars, dec>>
              ELSE /\ IF n = 0 THEN UNCHANGED bufferVars
                               ELSE WriteMatch(t.offset, n, 0)
                   /\ dec' = IF n < t.length
                               THEN [dec EXCEPT !.match = [offset |-> t.offset,
                                                           length |-> t.length - n]]
                               ELSE dec
                   /\ IF n < t.length THEN ToAccount ELSE StopIfFull(n)
  /\ NotePhantom(HasToken(GenericReader, Symbols))
  /\ UNCHANGED <<given, acct, done>>

GenericEndOfBlock ==
  /\ GenericReady
  /\ \E t \in Read(GenericReader, Symbols, Phantoms.symbol) :
       /\ t.kind = "eob"
       /\ in' = Consumed(GenericReader, t.bits)
       /\ FinishBlock(in')
  /\ NotePhantom(HasToken(GenericReader, Symbols))
  /\ UNCHANGED <<bufferVars, given, acct, done>>

-------------------------------------------------------------------------------
(* copy_uncompressed.  Phase 1 drains the bytes the block header's refill  *)
(* left in the bit buffer, phase 2 copies from staging.                    *)

Drained == AtMost(AtMost(dec.remaining, OutputSpace), RealBytes(in))

AfterDrain ==
  LET i == Consumed(in, 8 * Drained)
  IN  IF i.left \div 8 <= i.over THEN Emptied(i) ELSE i

FirstByte == BitPos(in) \div 8

StillWanted == dec.remaining - Drained

CopyNeedsInput == StillWanted > 0 /\ OutputSpace > Drained

StoreBytes(n) ==
  IF n = 0 THEN UNCHANGED bufferVars
  ELSE PutBytes([j \in 0 .. (n - 1) |-> ByteAt(FirstByte + j)], n, 0)

CopyUncompressed ==
  /\ call.pc = "dispatch" /\ dec.state = "UncompressedData"
  /\ LET i == IF CopyNeedsInput /\ Staged(AfterDrain) = 0 THEN Filled(AfterDrain)
                                                          ELSE AfterDrain
         fromStaging == IF CopyNeedsInput
                          THEN AtMost(AtMost(Staged(i), StillWanted),
                                      OutputSpace - Drained)
                          ELSE 0
         after == [i EXCEPT !.pos = @ + fromStaging]
     IN  /\ in' = after
         /\ StoreBytes(Drained + fromStaging)
         /\ IF CopyNeedsInput /\ fromStaging = 0
              THEN Fail("BadData") /\ UNCHANGED dec
            ELSE IF StillWanted = fromStaging THEN FinishBlock(after)
            ELSE /\ dec' = [dec EXCEPT !.remaining = StillWanted - fromStaging]
                 /\ ToAccount
  /\ UNCHANGED <<given, acct, done, hist>>

(* The source fails in phase 2: phase 1's bytes are written and gone from  *)
(* the bit buffer, but `remaining` was only decremented in a local.        *)
SourceFailsInCopy ==
  /\ call.pc = "dispatch" /\ dec.state = "UncompressedData"
  /\ CopyNeedsInput
  /\ Staged(AfterDrain) = 0
  /\ StoreBytes(Drained)
  /\ SourceFails(AfterDrain)
  /\ UNCHANGED <<given, dec, acct, done>>

-------------------------------------------------------------------------------
(* parse_wrapper_footer: flush the checksum, align, take the footer's      *)
(* bytes from the bit buffer and then from staging.                        *)

FooterSize == FooterBytes(wrapper)

(* Mutant: the padding bits are not discarded. *)
FooterReader_Unaligned == in

FooterReader == Consumed(in, in.left % 8)

(* Mutant: the whole footer is expected in the staging buffer. *)
FromStaging_NoBitBuffer == FooterSize

FromStaging == FooterSize - AtMost(RealBytes(FooterReader), FooterSize)

(* Mutant: ISIZE is not compared. *)
SizeAgrees_Always(t) == TRUE

(* gzip's ISIZE against the count after the flush. *)
SizeAgrees(t) == wrapper = "gzip" => t.size = total_output'

ParseWrapperFooter ==
  /\ call.pc = "dispatch" /\ dec.state = "WrapperFooter"
  /\ FlushChecksum
  /\ LET i == IF Staged(in) < FromStaging THEN Filled(Emptied(in)) ELSE Emptied(in)
         t == TheToken(FooterReader, {"footer"})
         there == HasToken(FooterReader, {"footer"})
         size_ok == wrapper = "gzip" => (there /\ SizeAgrees(t))
         matched == there /\ t.sum = checksum' /\ size_ok
     IN  IF Staged(i) < FromStaging
           THEN /\ in' = [i EXCEPT !.pos = i.end]
                /\ Fail("BadData")
                /\ UNCHANGED <<dec, done>>
           ELSE /\ in' = [i EXCEPT !.pos = @ + FromStaging]
                /\ done' = [done EXCEPT
                     !.footer = IF there THEN t.sum ELSE <<Junk>>,
                     !.matched = IF ~options.verify_footer \/ checksum_policy = "ignore" THEN @
                                 ELSE IF matched THEN "yes" ELSE "no"]
                /\ IF \/ ~options.verify_footer
                      \/ checksum_policy = "ignore" /\ size_ok
                      \/ checksum_policy = "report"
                      \/ checksum_policy = "verify" /\ matched
                     THEN ToAccount /\ dec' = [dec EXCEPT !.state = "Done"]
                     ELSE Fail("ChecksumMismatch") /\ UNCHANGED dec
  /\ UNCHANGED <<given, acct, hist>>

(* The source fails while the footer is collected: the bytes already taken *)
(* were a local, the bit buffer is cleared and staging is used up.         *)
SourceFailsInFooter ==
  /\ call.pc = "dispatch" /\ dec.state = "WrapperFooter"
  /\ Staged(in) < FromStaging
  /\ FlushChecksum
  /\ SourceFails([Emptied(in) EXCEPT !.pos = in.end])
  /\ UNCHANGED <<given, dec, acct, done>>

-------------------------------------------------------------------------------
(* fill()'s loop below the match: limits, then return or go round.         *)

Delta == write_pos - call.prev

(* Mutant: only the end of the stream is counted. *)
BlockCompleted_OnlyDone == dec.state = "Done"

BlockCompleted == dec.state \in {"BlockHeader", "Done"}

Counted ==
  IF Delta > 0 THEN [total |-> acct.total + Delta, stalls |-> 0]
  ELSE IF BlockCompleted THEN [acct EXCEPT !.stalls = @ + 1]
  ELSE acct

OverLimit == /\ Delta > 0
             /\ options.max_output_size >= 0
             /\ Counted.total > options.max_output_size

Stalled == /\ Delta = 0
           /\ BlockCompleted
           /\ Counted.stalls > MAX_BLOCKS_WITHOUT_OUTPUT

(* Mutants: returns without output; never returns before the buffer is full. *)
MayReturn_WhenIdle == \/ PeekLen >= Capacity
                      \/ dec.state = "Done"
                      \/ Delta = 0

MayReturn_IgnoresCapacity == \/ dec.state = "Done"
                             \/ Delta = 0 /\ PeekLen > 0

MayReturn == \/ PeekLen >= Capacity
             \/ dec.state = "Done"
             \/ Delta = 0 /\ PeekLen > 0

ReturnFromFill ==
  /\ call.pc = "account"
  /\ OverLimit \/ Stalled \/ MayReturn
  /\ acct' = Counted
  /\ IF OverLimit THEN Fail("OutputLimitExceeded")
     ELSE IF Stalled THEN Fail("StallLimitExceeded")
     ELSE Return
  /\ UNCHANGED <<bufferVars, given, in, dec, done, hist>>

GoRound ==
  /\ call.pc = "account"
  /\ ~(OverLimit \/ Stalled \/ MayReturn)
  /\ acct' = Counted
  /\ IF OutputSpace = 0 THEN CompactOutput ELSE UNCHANGED bufferVars
  /\ call' = IF Len(buffer') = write_pos'
               THEN [call EXCEPT !.pc = "idle", !.result = "ok"]
               ELSE [call EXCEPT !.pc = "dispatch", !.prev = write_pos']
  /\ UNCHANGED <<given, in, dec, done, hist>>

-------------------------------------------------------------------------------

(* Nothing is left to do: the stream ended or failed and all is taken. *)
AllTaken ==
  /\ call.pc = "idle"
  /\ dec.state = "Done" \/ call.result \in Fatal
  /\ PeekLen = 0

Rest == AllTaken /\ UNCHANGED vars

Init ==
  /\ BufferInit
  /\ \E u \in Setups : SetUpAs(u) /\ stream \in Sources(u)
  /\ in = FreshInput
  /\ dec = [state |-> FirstState, remaining |-> 0, final |-> FALSE,
            match |-> NoMatch, lits |-> <<>>, static_loaded |-> FALSE,
            doubles_pending |-> FALSE, litlen_doubles |-> FALSE,
            table |-> [code |-> None, bits |-> 0, doubles |-> FALSE]]
  /\ acct = FreshAcct
  /\ done = FreshDone
  /\ call = FreshCall
  /\ hist = FreshHist

SourceError ==
  \/ SourceFailsBeforeHandler \/ SourceFailsAtRefill \/ SourceFailsInGeneric
  \/ SourceFailsInCopy \/ SourceFailsInFooter

(* The steps of one call of fill(). *)
FillStep ==
  \/ ParseWrapperHeader \/ EndSegment \/ ParseBlockHeader
  \/ ParseDynamicPrecodeLens \/ EnterCodeLengths \/ ParseCodeLength
  \/ ResumeMatch \/ ResumeLiteral \/ EnterLoops
  \/ FastLiteral \/ FastMatch \/ FastEndOfBlock
  \/ GenericReenter \/ GenericOverrun
  \/ GenericLiteral \/ GenericMatch \/ GenericEndOfBlock
  \/ CopyUncompressed \/ ParseWrapperFooter
  \/ ReturnFromFill \/ GoRound

Next ==
  \/ BeginFill \/ FillStep \/ SourceError
  \/ TakeOutput \/ RunningChecksum \/ Reset
  \/ Rest

(* fill() runs to its end once called; the caller keeps calling it and     *)
(* taking output, as the loop in the type's documentation does.            *)
Fairness == WF_vars(FillStep) /\ WF_vars(BeginFill) /\ WF_vars(TakeOutput)

Spec == Init /\ [][Next]_vars /\ Fairness
===============================================================================

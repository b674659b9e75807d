-------------------------- MODULE OneShotDecompressor --------------------------
(***************************************************************************)
(* Decompressor (src/src/decompress/mod.rs): one call decodes a whole      *)
(* stream from a slice into a slice, and the same Decompressor, with the   *)
(* tables of the last call, serves the next.                               *)
(*                                                                         *)
(* A call runs alone; call.pc says where it is.                            *)
(*   "idle"     between calls        "header"   top of the block loop      *)
(*   "lens"     code lengths         "fast"     in the fastloop            *)
(*   "generic"  in the generic loop  "end"      after the final block      *)
(***************************************************************************)
EXTENDS BitReader

CONSTANTS
  Jobs,                        (* the calls a caller may make             *)
  Junk,                        (* a byte no table lookup should give      *)
  FASTLOOP_MAX_BYTES_READ,     (* 32 in the code                          *)
  FASTLOOP_MAX_BYTES_WRITTEN,  (* 4 + 258 + 32 in the code                *)
  DOUBLE_LITERAL_MIN_INPUT,    (* 16 KiB in the code                      *)
  LITLEN_TABLEBITS,            (* 11 in the code                          *)
  DECOMPRESS_STOP_INTERVAL     (* output between two stop checks: 16 KiB  *)

(* A job is the arguments of one call: the wrapper (which function),       *)
(* checksum policy, max_output_size (-1 for None), the size of the output  *)
(* slice, whether the caller may stop it, and the stream.                  *)
ASSUME OneShotAssumption ==
  /\ DECOMPRESS_STOP_INTERVAL \in Nat \ {0}
  /\ \A j \in Jobs :
       /\ j.wrapper \in {"raw", "zlib", "gzip"}
       /\ j.policy \in {"verify", "report", "ignore"}
       /\ j.room \in Nat /\ j.max >= -1 /\ j.stops \in BOOLEAN

VARIABLES
  job,   (* the call's arguments                                          *)
  in,    (* bit reader                                                    *)
  out,   (* output[..out_pos]                                             *)
  dec,   (* what the Decompressor keeps: tables and their flags           *)
  call,  (* where the call is, and its other locals                       *)
  ret    (* what the last call returned, and checksum_matched             *)

oneShotVars == <<job, in, out, dec, call, ret>>

NoReader == [pos |-> 0, end |-> 0, left |-> 0, over |-> 0]
Pending == [result |-> "none", consumed |-> 0, matched |-> "none"]
Idle == [pc |-> "idle", final |-> FALSE, chain |-> 0, entering |-> FALSE,
         next_stop_check |-> 0]

(* Phantoms of a wrong offset reach before any output there is.            *)
Phantoms == PhantomsWith(Junk, 999)

Tokens(i, kinds) == TokensFor(job.s, i.end, i, kinds)
HasToken(i, kinds) == Tokens(i, kinds) # {}
TheToken(i, kinds) == CHOOSE t \in Tokens(i, kinds) : TRUE
Read(i, kinds, phantoms) == ReadFrom(job.s, i.end, i, kinds, phantoms)

-------------------------------------------------------------------------------
(* Leaving the call.  The reader is a local.                               *)

Leave(r) == /\ call' = Idle
            /\ in' = NoReader
            /\ ret' = r

Fail(err) == Leave([ret EXCEPT !.result = err])

(* The smaller of output.len() and max_output_size, and what exceeding it  *)
(* is called.                                                              *)
Limited == job.max >= 0 /\ job.max < job.room
OutLimit == IF Limited THEN job.max ELSE job.room
NoSpace == IF Limited THEN "OutputLimitExceeded" ELSE "InsufficientSpace"

OutPos == Len(out)
Room == OutLimit - OutPos

-------------------------------------------------------------------------------
(* deflate_decompress, zlib_decompress and gzip_decompress up to the core. *)

FooterSize(j) == CASE j.wrapper = "raw" -> 0
                   [] j.wrapper = "zlib" -> 4
                   [] j.wrapper = "gzip" -> 8

StartCore(j, from) ==
  /\ in' = [pos |-> from, end |-> j.s.nbytes - FooterSize(j), left |-> 0, over |-> 0]
  /\ call' = [Idle EXCEPT !.pc = "header"]
  /\ ret' = Pending

RefuseHeader == Leave([Pending EXCEPT !.result = "InvalidHeader"])

HeadersOf(j) ==
  {t \in TokensOf(j.s, j.s.nbytes, 0) : t.kind = "wrapper" /\ t.ok}

BeginRaw(j) == j.wrapper = "raw" /\ StartCore(j, 0)

(* A two-byte header, and room for the trailer before anything is read.    *)
BeginZlib(j) ==
  /\ j.wrapper = "zlib"
  /\ IF j.s.nbytes < 6 \/ HeadersOf(j) = {} THEN RefuseHeader ELSE StartCore(j, 2)

(* A header with optional fields, none of which may reach into the trailer.*)
BeginGzip(j) ==
  /\ j.wrapper = "gzip"
  /\ LET size == (CHOOSE t \in HeadersOf(j) : TRUE).bits \div 8 IN
       IF \/ j.s.nbytes < 18
          \/ HeadersOf(j) = {}
          \/ size > j.s.nbytes - 8
         THEN RefuseHeader
         ELSE StartCore(j, size)

BeginCall(jobs) ==
  /\ call.pc = "idle"
  /\ \E j \in jobs : /\ job' = j
                     /\ BeginRaw(j) \/ BeginZlib(j) \/ BeginGzip(j)
  /\ out' = <<>>
  /\ UNCHANGED dec

(* stop.check() at every block and, in the generic loop, on entry and now  *)
(* and then.                                                               *)
CheckDue == \/ call.pc = "header"
            \/ call.pc = "generic" /\ (call.entering \/ OutPos >= call.next_stop_check)

Stopped ==
  /\ job.stops /\ CheckDue
  /\ Fail("Stopped")
  /\ UNCHANGED <<job, out, dec>>

-------------------------------------------------------------------------------
(* Which loop decodes the block's symbols.                                 *)

(* Mutant: the fastloop runs while any input and output is left. *)
FastOk_NoMargins(i, n) == Staged(i) > 0 /\ n < OutLimit

FastOk(i, n) ==
  /\ Staged(i) > FASTLOOP_MAX_BYTES_READ
  /\ n + FASTLOOP_MAX_BYTES_WRITTEN < OutLimit

EnterLoops(i, final) ==
  IF FastOk(i, OutPos)
    THEN /\ in' = RefilledFast(i)
         /\ call' = [Idle EXCEPT !.pc = "fast", !.final = final]
    ELSE /\ in' = i
         /\ call' = [Idle EXCEPT !.pc = "generic", !.final = final, !.entering = TRUE]

(* A freshly built litlen table; double literals are added when enough     *)
(* input is left to pay for them.                                          *)
WithTable(i, code, longest) ==
  LET doubles == Staged(i) >= DOUBLE_LITERAL_MIN_INPUT
  IN  [dec EXCEPT !.table = [code |-> code, doubles |-> doubles,
                             bits |-> Min({LITLEN_TABLEBITS, longest})],
                  !.litlen_doubles = doubles]

-------------------------------------------------------------------------------
(* Block headers.                                                          *)

Header == Refilled(in)

AtHeader == call.pc = "header"

BadHeader ==
  /\ AtHeader
  /\ \/ Overrun(Header)
     \/ ~Overrun(Header) /\ \E t \in Read(Header, {"block"}, Phantoms.block) :
                              t.type = "reserved"
  /\ Fail("BadData")
  /\ UNCHANGED <<job, out, dec>>

(* Mutant: the static tables are still taken for loaded. *)
ForDynamic_KeepsStatic(d) == d

ForDynamic(d) == [d EXCEPT !.static_loaded = FALSE]

(* The header and the precode lengths are read in one go, with a refill    *)
(* between them; then the precode table is built.                          *)
BeginDynamic ==
  /\ AtHeader /\ ~Overrun(Header)
  /\ \E t \in Read(Header, {"block"}, Phantoms.block) :
       /\ t.type = "dynamic"
       /\ dec' = ForDynamic(dec)
       /\ LET r == Refilled(Consumed(Header, 20)) IN
            \E p \in Read(r, {"precode"}, Phantoms.precode) :
              IF Overrun(r) \/ ~p.ok THEN Fail("BadData")
              ELSE /\ in' = Consumed(r, p.bits)
                   /\ call' = [call EXCEPT !.pc = "lens", !.final = t.final]
                   /\ UNCHANGED ret
  /\ UNCHANGED <<job, out>>

(* One symbol of the code lengths.  After the last, both tables are built: *)
(* a failure leaves them half overwritten.                                 *)
ReadCodeLength ==
  /\ call.pc = "lens"
  /\ LET r == IF in.left < 14 THEN Refilled(in) ELSE in IN
       \E t \in Read(r, {"lens"}, Phantoms.lens) :
         IF Overrun(r) \/ ~t.ok
           THEN /\ Fail("BadData")
                /\ dec' = [dec EXCEPT !.table.code = "broken"]
         ELSE IF t.last
           THEN /\ dec' = WithTable(Consumed(r, t.bits), "dynamic", t.longest)
                /\ EnterLoops(Consumed(r, t.bits), call.final)
                /\ UNCHANGED ret
         ELSE /\ in' = Consumed(r, t.bits)
              /\ UNCHANGED <<dec, call, ret>>
  /\ UNCHANGED <<job, out>>

BeginStatic ==
  /\ AtHeader /\ ~Overrun(Header)
  /\ \E t \in Read(Header, {"block"}, Phantoms.block) :
       /\ t.type = "static"
       /\ LET i == Consumed(Header, 3)
              d == IF dec.static_loaded THEN dec
                   ELSE [WithTable(i, "static", 9) EXCEPT !.static_loaded = TRUE]
          IN  dec' = d /\ EnterLoops(i, t.final)
  /\ UNCHANGED <<job, out, ret>>

(* A stored block is copied whole or not at all.  The checks come in this  *)
(* order: LEN and NLEN present, complementary, room, data present.         *)
StoredBytes(from, n) ==
  [k \in 1 .. n |->
     LET here == {t \in TokensOf(job.s, in.end, 8 * (from + k - 1)) : t.kind = "byte"}
     IN  IF here = {} THEN Junk ELSE (CHOOSE t \in here : TRUE).val]

CopyStored ==
  /\ AtHeader /\ ~Overrun(Header)
  /\ \E t \in Read(Header, {"block"}, Phantoms.block) :
       /\ t.type = "stored"
       /\ LET i == Consumed(Header, 3)
              aligned == Consumed(i, i.left % 8)
              at == [pos |-> BitPos(aligned) \div 8, end |-> in.end, left |-> 0, over |-> 0]
              len == TheToken(at, {"len"})
              from == at.pos + 4
          IN  IF \/ i.over > i.left \div 8
                 \/ from > in.end
                 \/ ~HasToken(at, {"len"})
                 \/ ~len.ok
                THEN Fail("BadData") /\ UNCHANGED out
              ELSE IF len.n > Room THEN Fail(NoSpace) /\ UNCHANGED out
              ELSE IF len.n > in.end - from THEN Fail("BadData") /\ UNCHANGED out
              ELSE /\ out' = out \o StoredBytes(from, len.n)
                   /\ in' = [at EXCEPT !.pos = from + len.n]
                   /\ call' = [Idle EXCEPT !.pc = IF t.final THEN "end" ELSE "header"]
                   /\ UNCHANGED ret
  /\ UNCHANGED <<job, dec>>

-------------------------------------------------------------------------------
(* Symbols.  With double literals a main-table entry holds a second        *)
(* literal when both codewords fit in the table's index; past the end any  *)
(* bits may complete one.                                                  *)

InMainTable(t) == t.bits <= dec.table.bits

Seconds(i, t) ==
  LET next == Consumed(i, t.bits)
      spare == dec.table.bits - t.bits
  IN  IF t.kind # "lit" \/ ~dec.table.doubles THEN {}
      ELSE {u \in ReadFrom(job.s, i.end, next, Symbols, {Lit(Junk, spare)}) :
              u.kind = "lit" /\ u.bits \in 1 .. spare}

(* Vals and width of an entry; a phantom second need not be there.         *)
Entries(i, t) ==
  LET one == [vals |-> IF t.kind = "lit" THEN <<t.val>> ELSE <<>>, bits |-> t.bits]
      two == {[vals |-> <<t.val, u.val>>, bits |-> t.bits + u.bits] : u \in Seconds(i, t)}
  IN  IF two # {} /\ HasToken(Consumed(i, t.bits), {"lit"}) THEN two ELSE two \cup {one}

NextBlock == [Idle EXCEPT !.pc = IF call.final THEN "end" ELSE "header"]

(* One turn of the fastloop: refill, then again unless input or output     *)
(* runs short.                                                             *)
FastTurn(i, n) ==
  LET r == RefilledFast(i) IN
  /\ in' = r
  /\ call' = IF FastOk(r, n)
               THEN [call EXCEPT !.chain = 0]
               ELSE [call EXCEPT !.chain = 0, !.pc = "generic", !.entering = TRUE]

(* Up to three main-table entries go without a refill.  put_lits goes by   *)
(* litlen_doubles, the entry by the table.                                 *)
FastLiteral ==
  /\ call.pc = "fast"
  /\ \E t \in Read(in, Symbols, Phantoms.symbol) :
       /\ t.kind = "lit"
       /\ \E e \in Entries(in, t) :
            LET n == IF dec.litlen_doubles /\ InMainTable(t) THEN Len(e.vals) ELSE 1
                i == Consumed(in, e.bits)
            IN  /\ out' = out \o SubSeq(e.vals, 1, n)
                /\ IF call.chain < 2 /\ InMainTable(t)
                     THEN /\ in' = i
                          /\ call' = [call EXCEPT !.chain = @ + 1]
                     ELSE FastTurn(i, OutPos + n)
  /\ UNCHANGED <<job, dec, ret>>

FastMatch ==
  /\ call.pc = "fast"
  /\ \E t \in Read(in, Symbols, Phantoms.symbol) :
       /\ t.kind = "match"
       /\ LET len == Consumed(in, t.bits)
              mid == IF len.left < 28 + dec.table.bits THEN RefilledFast(len) ELSE len
          IN  IF t.offset > OutPos
                THEN Fail("BadData") /\ UNCHANGED out
                ELSE /\ out' = Copied(out, t.offset, t.length)
                     /\ FastTurn(Consumed(mid, t.obits), OutPos + t.length)
                     /\ UNCHANGED ret
  /\ UNCHANGED <<job, dec>>

FastEndOfBlock ==
  /\ call.pc = "fast"
  /\ \E t \in Read(in, Symbols, Phantoms.symbol) :
       /\ t.kind = "eob"
       /\ in' = Consumed(in, t.bits)
       /\ call' = NextBlock
  /\ UNCHANGED <<job, out, dec, ret>>

-------------------------------------------------------------------------------
(* The generic loop: one symbol per turn, every bound checked.             *)

GenericReader == Refilled(in)

(* The turn's bookkeeping of stop checks. *)
GenericTurn ==
  call' = IF call.entering \/ OutPos >= call.next_stop_check
            THEN [call EXCEPT !.entering = FALSE,
                              !.next_stop_check = OutPos + DECOMPRESS_STOP_INTERVAL]
            ELSE call

GenericOverrun ==
  /\ call.pc = "generic"
  /\ Overrun(GenericReader)
  /\ Fail("BadData")
  /\ UNCHANGED <<job, out, dec>>

GenericReady == call.pc = "generic" /\ ~Overrun(GenericReader)

GenericLiteral ==
  /\ GenericReady
  /\ \E t \in Read(GenericReader, Symbols, Phantoms.symbol) :
       /\ t.kind = "lit"
       /\ \E e \in Entries(GenericReader, t) :
            /\ out' = out \o SubSeq(e.vals, 1, Min({Len(e.vals), Room}))
            /\ IF Len(e.vals) > Room THEN Fail(NoSpace)
               ELSE /\ in' = Consumed(GenericReader, e.bits)
                    /\ GenericTurn
                    /\ UNCHANGED ret
  /\ UNCHANGED <<job, dec>>

(* Mutant: the distance is judged before the room. *)
MatchFault_OffsetFirst(t) ==
  IF t.offset > OutPos THEN "BadData"
  ELSE IF t.length > Room THEN NoSpace ELSE "none"

(* The room is judged before the offset is even decoded. *)
MatchFault(t) ==
  IF t.length > Room THEN NoSpace
  ELSE IF t.offset > OutPos THEN "BadData" ELSE "none"

GenericMatch ==
  /\ GenericReady
  /\ \E t \in Read(GenericReader, Symbols, Phantoms.symbol) :
       /\ t.kind = "match"
       /\ IF MatchFault(t) # "none" THEN Fail(MatchFault(t)) /\ UNCHANGED out
          ELSE /\ out' = Copied(out, t.offset, t.length)
               /\ in' = Consumed(GenericReader, t.bits + t.obits)
               /\ GenericTurn
               /\ UNCHANGED ret
  /\ UNCHANGED <<job, dec>>

GenericEndOfBlock ==
  /\ GenericReady
  /\ \E t \in Read(GenericReader, Symbols, Phantoms.symbol) :
       /\ t.kind = "eob"
       /\ in' = Consumed(GenericReader, t.bits)
       /\ call' = NextBlock
  /\ UNCHANGED <<job, out, dec, ret>>

-------------------------------------------------------------------------------
(* After the final block: invented bits must not have been consumed, then  *)
(* the trailer is compared.                                                *)

(* Mutant: invented bits are good enough. *)
BitsAreReal_Always(i) == TRUE

BitsAreReal(i) == i.over <= i.left \div 8

CoreConsumed == in.pos - (in.left \div 8 - in.over)

Trailers ==
  {t \in TokensOf(job.s, job.s.nbytes, 8 * CoreConsumed) : t.kind = "footer"}

SumAgrees == \E t \in Trailers : t.sum = out
SizeAgrees == \E t \in Trailers : t.size = OutPos

YesNo(b) == IF b THEN "yes" ELSE "no"

Return(matched) ==
  Leave([result |-> "ok", consumed |-> CoreConsumed + FooterSize(job),
         matched |-> matched])

Mismatch(matched) ==
  Leave([ret EXCEPT !.result = "ChecksumMismatch", !.matched = matched])

EndRaw == job.wrapper = "raw" /\ Return("none")

EndZlib ==
  /\ job.wrapper = "zlib"
  /\ IF job.policy = "ignore" THEN Return("none")
     ELSE IF SumAgrees \/ job.policy = "report" THEN Return(YesNo(SumAgrees))
     ELSE Mismatch("no")

(* The size is compared under every policy, and only Report lets a wrong   *)
(* one pass.                                                               *)
EndGzip ==
  /\ job.wrapper = "gzip"
  /\ LET ignore == job.policy = "ignore"
         matched == (ignore \/ SumAgrees) /\ SizeAgrees
         recorded == IF ignore THEN "none" ELSE YesNo(matched)
     IN  IF matched \/ job.policy = "report" THEN Return(recorded)
         ELSE Mismatch(recorded)

EndCall ==
  /\ call.pc = "end"
  /\ IF BitsAreReal(in) THEN EndRaw \/ EndZlib \/ EndGzip ELSE Fail("BadData")
  /\ UNCHANGED <<job, out, dec>>

-------------------------------------------------------------------------------

(* Decompressor::new, before any call. *)
OneShotInit ==
  /\ job \in Jobs
  /\ in = NoReader
  /\ out = <<>>
  /\ dec = [static_loaded |-> FALSE, litlen_doubles |-> FALSE,
            table |-> [code |-> "none", bits |-> 0, doubles |-> FALSE]]
  /\ call = Idle
  /\ ret = Pending

CallStep ==
  \/ Stopped \/ BadHeader \/ BeginDynamic \/ ReadCodeLength \/ BeginStatic \/ CopyStored
  \/ FastLiteral \/ FastMatch \/ FastEndOfBlock
  \/ GenericOverrun \/ GenericLiteral \/ GenericMatch \/ GenericEndOfBlock
  \/ EndCall
===============================================================================

----------------------------- MODULE StreamScanner -----------------------------
(***************************************************************************)
(* deflate_scan and zlib_scan (src/src/decompress/scan.rs): the decoder's  *)
(* block parsing and generic loop again, counting output instead of        *)
(* writing it.  A caller decodes a stream and then scans it.  out_pos      *)
(* cannot reach usize::MAX here, so OutputLimitExceeded is left out.       *)
(***************************************************************************)
EXTENDS OneShotDecompressor

CONSTANT StopsAt   (* the stop_at arguments; UNLIMITED is None *)

UNLIMITED == 9999

ASSUME ScannerAssumption == StopsAt \subseteq 0 .. UNLIMITED

VARIABLES
  reader, (* the scan's bit reader                                        *)
  scan    (* where the scan is, out_pos, stop_at, and what it returned    *)

scanVars == <<reader, scan>>

NoScan == [pc |-> "none", final |-> FALSE, n |-> 0, static_loaded |-> FALSE,
           code |-> "none", stop_at |-> UNLIMITED, next_stop_check |-> 0,
           result |-> "none", consumed |-> 0, input_pos |-> 0, stopped |-> FALSE]

ScanTokens(i, kinds) == TokensFor(job.s, i.end, i, kinds)
ScanRead(i, kinds, phantoms) == ReadFrom(job.s, i.end, i, kinds, phantoms)

-------------------------------------------------------------------------------
(* Returning; the locals are gone.                                         *)

Returned(r) == [NoScan EXCEPT !.pc = "done", !.stop_at = scan.stop_at, !.n = r.n,
                              !.result = r.result, !.consumed = r.consumed,
                              !.input_pos = r.input_pos, !.stopped = r.stopped]

ScanLeave(r) == reader' = NoReader /\ scan' = Returned(r)

ScanFail(err, at, n) ==
  ScanLeave([result |-> err, consumed |-> 0, input_pos |-> at, n |-> n, stopped |-> FALSE])

ScanOk(consumed, n, stopped) ==
  ScanLeave([result |-> "ok", consumed |-> consumed, input_pos |-> 0, n |-> n,
             stopped |-> stopped])

(* The macro stopped!: input through the last byte holding bits of the     *)
(* symbol just read.                                                       *)
ScanStopsAfter(i, n) ==
  IF i.over > i.left \div 8 THEN ScanFail("BadData", i.pos, n)
  ELSE ScanOk(i.pos + i.over - i.left \div 8, n, TRUE)

-------------------------------------------------------------------------------
(* deflate_scan; zlib_scan checks two header bytes first.                  *)

StartScan(from, k) ==
  /\ reader' = [pos |-> from, end |-> job.s.nbytes, left |-> 0, over |-> 0]
  /\ scan' = [NoScan EXCEPT !.pc = IF k = 0 THEN "done" ELSE "header", !.stop_at = k,
                            !.consumed = IF k = 0 THEN from ELSE 0,
                            !.result = IF k = 0 THEN "ok" ELSE "none",
                            !.stopped = (k = 0)]

BeginScan ==
  /\ call.pc = "idle" /\ ret.result # "none" /\ scan.pc = "none"
  /\ \E k \in StopsAt :
       \/ job.wrapper = "raw" /\ StartScan(0, k)
       \/ /\ job.wrapper = "zlib"
          /\ IF job.s.nbytes < 2 \/ HeadersOf(job) = {}
               THEN /\ reader' = NoReader
                    /\ scan' = [NoScan EXCEPT !.pc = "done", !.stop_at = k,
                                              !.result = "InvalidHeader",
                                              !.input_pos = Min({2, job.s.nbytes})]
               ELSE StartScan(2, k)
  /\ UNCHANGED oneShotVars

ScanStopped ==
  /\ job.stops
  /\ \/ scan.pc = "header"
     \/ scan.pc = "symbols" /\ scan.n >= scan.next_stop_check
  /\ ScanFail("Stopped", reader.pos, scan.n)
  /\ UNCHANGED oneShotVars

-------------------------------------------------------------------------------
(* Block headers, as in the decoder.                                       *)

Refill == Refilled(reader)

(* A refill that overran reports the whole input as read. *)
ScanOverrun ==
  /\ scan.pc \in {"header", "symbols"}
  /\ Overrun(Refill)
  /\ ScanFail("BadData", reader.end, scan.n)
  /\ UNCHANGED oneShotVars

ScanAtHeader == scan.pc = "header" /\ ~Overrun(Refill)

ScanReserved ==
  /\ ScanAtHeader
  /\ \E t \in ScanRead(Refill, {"block"}, Phantoms.block) : t.type = "reserved"
  /\ ScanFail("BadData", Refill.pos, scan.n)
  /\ UNCHANGED oneShotVars

ScanSymbols(final, code, static_loaded) ==
  scan' = [scan EXCEPT !.pc = "symbols", !.final = final, !.code = code,
                       !.static_loaded = static_loaded,
                       !.next_stop_check = scan.n + DECOMPRESS_STOP_INTERVAL]

ScanDynamic ==
  /\ ScanAtHeader
  /\ \E t \in ScanRead(Refill, {"block"}, Phantoms.block) :
       /\ t.type = "dynamic"
       /\ LET r == Refilled(Consumed(Refill, 20)) IN
            \E p \in ScanRead(r, {"precode"}, Phantoms.precode) :
              IF Overrun(r) THEN ScanFail("BadData", r.end, scan.n)
              ELSE IF ~p.ok THEN ScanFail("BadData", r.pos, scan.n)
              ELSE /\ reader' = Consumed(r, p.bits)
                   /\ scan' = [scan EXCEPT !.pc = "lens", !.final = t.final,
                                           !.static_loaded = FALSE]
  /\ UNCHANGED oneShotVars

ScanCodeLength ==
  /\ scan.pc = "lens"
  /\ LET r == IF reader.left < 14 THEN Refill ELSE reader IN
       \E t \in ScanRead(r, {"lens"}, Phantoms.lens) :
         IF Overrun(r) THEN ScanFail("BadData", r.end, scan.n)
         ELSE IF ~t.ok THEN ScanFail("BadData", r.pos, scan.n)
         ELSE /\ reader' = Consumed(r, t.bits)
              /\ IF t.last THEN ScanSymbols(scan.final, "dynamic", scan.static_loaded)
                           ELSE UNCHANGED scan
  /\ UNCHANGED oneShotVars

ScanStatic ==
  /\ ScanAtHeader
  /\ \E t \in ScanRead(Refill, {"block"}, Phantoms.block) :
       /\ t.type = "static"
       /\ reader' = Consumed(Refill, 3)
       /\ ScanSymbols(t.final, IF scan.static_loaded THEN scan.code ELSE "static", TRUE)
  /\ UNCHANGED oneShotVars

(* Mutant: a block that reaches stop_at exactly goes on to the next. *)
StopsInBlock_Past(n, wanted, avail) == n > wanted /\ wanted <= avail

(* The block has the byte asked for, and that byte is there. *)
StopsInBlock(n, wanted, avail) == n >= wanted /\ wanted <= avail

(* Stored: the scan may stop inside the block, and counts the bytes that   *)
(* are there when the block is cut off.                                    *)
ScanStored ==
  /\ ScanAtHeader
  /\ \E t \in ScanRead(Refill, {"block"}, Phantoms.block) :
       /\ t.type = "stored"
       /\ LET i == Consumed(Refill, 3)
              at == [reader EXCEPT !.pos = BitPos(Consumed(i, i.left % 8)) \div 8,
                                   !.left = 0, !.over = 0]
              lens == ScanTokens(at, {"len"})
              n == (CHOOSE u \in lens : TRUE).n
              from == at.pos + 4
              avail == reader.end - from
              wanted == scan.stop_at - scan.n
          IN  IF i.over > i.left \div 8 THEN ScanFail("BadData", i.pos, scan.n)
              ELSE IF from > reader.end THEN ScanFail("BadData", at.pos, scan.n)
              ELSE IF ~(\E u \in lens : u.ok) THEN ScanFail("BadData", from, scan.n)
              ELSE IF StopsInBlock(n, wanted, avail)
                THEN ScanOk(from + wanted, scan.stop_at, TRUE)
              ELSE IF n > avail THEN ScanFail("BadData", reader.end, scan.n + avail)
              ELSE /\ reader' = [at EXCEPT !.pos = from + n]
                   /\ scan' = [scan EXCEPT !.pc = IF t.final THEN "end" ELSE "header",
                                           !.n = @ + n]
  /\ UNCHANGED oneShotVars

-------------------------------------------------------------------------------
(* Symbols, one refill each.                                               *)

ScanCounts(i, n) ==
  IF n >= scan.stop_at THEN ScanStopsAfter(i, n)
  ELSE /\ reader' = i
       /\ scan' = [scan EXCEPT !.n = n, !.next_stop_check =
                     IF scan.n >= @ THEN scan.n + DECOMPRESS_STOP_INTERVAL ELSE @]

ScanAtSymbol == scan.pc = "symbols" /\ ~Overrun(Refill)

ScanLiteral ==
  /\ ScanAtSymbol
  /\ \E t \in ScanRead(Refill, Symbols, Phantoms.symbol) :
       t.kind = "lit" /\ ScanCounts(Consumed(Refill, t.bits), scan.n + 1)
  /\ UNCHANGED oneShotVars

ScanMatch ==
  /\ ScanAtSymbol
  /\ \E t \in ScanRead(Refill, Symbols, Phantoms.symbol) :
       /\ t.kind = "match"
       /\ IF t.offset > scan.n THEN ScanFail("BadData", Refill.pos, scan.n)
          ELSE ScanCounts(Consumed(Refill, t.bits + t.obits), scan.n + t.length)
  /\ UNCHANGED oneShotVars

ScanEndOfBlock ==
  /\ ScanAtSymbol
  /\ \E t \in ScanRead(Refill, Symbols, Phantoms.symbol) :
       /\ t.kind = "eob"
       /\ reader' = Consumed(Refill, t.bits)
       /\ scan' = [scan EXCEPT !.pc = IF scan.final THEN "end" ELSE "header",
                               !.next_stop_check = 0]
  /\ UNCHANGED oneShotVars

(* Mutant: bytes still in the bit buffer count as read. *)
ScanConsumed_WithHeld(i) == i.pos

ScanConsumed(i) == i.pos + i.over - i.left \div 8

(* The end of the stream; zlib_scan then skips the trailer.                *)
ScanEnd ==
  /\ scan.pc = "end"
  /\ LET at == ScanConsumed(reader)
         trailer == IF job.wrapper = "zlib" THEN 4 ELSE 0
     IN  IF reader.over > reader.left \div 8 THEN ScanFail("BadData", reader.pos, scan.n)
         ELSE IF job.s.nbytes - at < trailer THEN ScanFail("BadData", job.s.nbytes, scan.n)
         ELSE ScanOk(at + trailer, scan.n, FALSE)
  /\ UNCHANGED oneShotVars

ScanStep ==
  \/ ScanStopped \/ ScanOverrun \/ ScanReserved \/ ScanDynamic \/ ScanCodeLength
  \/ ScanStatic \/ ScanStored \/ ScanLiteral \/ ScanMatch \/ ScanEndOfBlock \/ ScanEnd

===============================================================================

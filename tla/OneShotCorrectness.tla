-------------------------- MODULE OneShotCorrectness --------------------------
(***************************************************************************)
(* What the one-shot decoder and the scanner promise.  The reference walks *)
(* the tokens, and knows nothing of bit readers, tables or loops.          *)
(***************************************************************************)
EXTENDS StreamScanner

CONSTANTS
  MATCH_OVERCOPY,  (* bytes a match copy may scribble: 31 in the code *)
  MAX_MATCH        (* the longest match: 258 in DEFLATE               *)

vars == <<oneShotVars, scanVars>>

Init == OneShotInit /\ reader = NoReader /\ scan = NoScan

Decode == CallStep /\ UNCHANGED scanVars

NewCall(jobs) == BeginCall(jobs) /\ scan = NoScan /\ UNCHANGED scanVars

(* The scanner keeps nothing between its calls. *)
ScanOver == /\ scan.pc = "done"
            /\ scan' = NoScan /\ reader' = NoReader
            /\ UNCHANGED oneShotVars

Next(jobs) == NewCall(jobs) \/ Decode \/ BeginScan \/ ScanStep \/ ScanOver

Spec == Init /\ [][Next(Jobs)]_vars

-------------------------------------------------------------------------------
(* The reference.                                                          *)

s == job.s
Body == s.nbytes - FooterSize(job)
FirstToken == IF job.wrapper = "raw" THEN 1 ELSE 2

HeaderAccepted ==
  \/ job.wrapper = "raw"
  \/ /\ HeadersOf(job) # {}
     /\ s.nbytes >= IF job.wrapper = "zlib" THEN 6 ELSE 18
     /\ (CHOOSE t \in HeadersOf(job) : TRUE).bits <= 8 * Body

(* What is wrong with token k of the body, given the output before it. *)
Trouble(k, before) ==
  LET t == s.toks[k]
      room == OutLimit - Len(before.out)
  IN  IF s.starts[k] + Width(t) > 8 * Body THEN "cut"
      ELSE IF \/ t.kind \in {"precode", "lens", "len"} /\ ~t.ok
              \/ t.kind = "block" /\ t.type = "reserved"
        THEN "BadData"
      ELSE IF \/ t.kind = "len" /\ t.n > room
              \/ t.kind = "lit" /\ room = 0
              \/ t.kind = "match" /\ t.length > room
        THEN NoSpace
      ELSE IF \/ t.kind = "len" /\ s.starts[k] + 32 + 8 * t.n > 8 * Body
              \/ t.kind = "match" /\ t.offset > Len(before.out)
        THEN "BadData"
      ELSE "none"

BodyTokens == {k \in FirstToken .. Len(s.toks) : s.toks[k].kind # "footer"}

Troubles ==
  LET before == DecodedUpTo(s.toks)
  IN  {k \in BodyTokens : k > s.held + 1 \/ Trouble(k, before[k - 1]) # "none"}

(* The results a call may have: one, but for a stream that is cut off,     *)
(* whose last bits the decoder completes with zeros.                       *)
Verdict ==
  LET first == Min(Troubles)
      trouble == Trouble(first, DecodedUpTo(s.toks)[first - 1])
  IN  IF ~HeaderAccepted THEN {"InvalidHeader"}
      ELSE IF Troubles # {}
        THEN IF trouble = "cut" THEN {"BadData", NoSpace} ELSE {trouble}
      ELSE IF ~s.means.final THEN {"BadData", NoSpace}
      ELSE IF job.policy = "report" \/ job.wrapper = "raw" THEN {"ok"}
      ELSE IF /\ job.policy = "ignore" \/ s.means.sum_ok
              /\ job.wrapper = "gzip" => s.means.size_ok
        THEN {"ok"}
      ELSE {"ChecksumMismatch"}

Returns == call.pc = "idle" /\ ret.result # "none"

TypeOK ==
  /\ in.pos \in 0 .. Max({in.end, s.nbytes}) /\ in.left \in 0 .. 63 /\ in.over \in 0 .. 8
  /\ OutPos <= job.room
  /\ dec.static_loaded => dec.table.code = "static"
  /\ call.pc \in {"idle", "header", "lens", "fast", "generic", "end"}
  /\ scan.pc \in {"none", "header", "lens", "symbols", "end", "done"}

(* A call returns what the stream and the room call for, and nothing else: *)
(* the result does not depend on which loop met the faulty symbol, on      *)
(* double literals, or on what the Decompressor decoded before; the order  *)
(* in which room, data and distance are judged is the same everywhere      *)
(* (mod.rs 1230-1262, 1423-1540).  On success the output, the consumed     *)
(* input and checksum_matched are the stream's.                            *)
CallIsRight ==
  Returns /\ ret.result # "Stopped" =>
    /\ ret.result \in Verdict
    /\ ret.result = "ok" =>
         /\ out = s.means.out
         /\ 8 * ret.consumed = Aligned(s.starts[Len(s.toks) + 1])
         /\ ret.matched = IF job.policy = "ignore" \/ job.wrapper = "raw" THEN "none"
                          ELSE YesNo(/\ s.means.sum_ok
                                     /\ job.wrapper = "gzip" => s.means.size_ok)

(* While symbols are decoded the litlen table is the one the block's       *)
(* header asked for and litlen_doubles says what is in it, whatever an     *)
(* earlier call, complete or failed, left behind; and the fastloop, which  *)
(* checks no bound per symbol, has room for its longest match with the     *)
(* overcopy, input for its loads and bits to look a symbol up              *)
(* (mod.rs 38-52, 299-307, 1093-1310).                                     *)
BlockType ==
  LET before == {k \in 1 .. Len(s.toks) :
                   s.toks[k].kind = "block" /\ s.starts[k] < BitPos(in)}
  IN  s.toks[CHOOSE k \in before : \A j \in before : j <= k].type

LoopsAreSafe ==
  /\ TypeOK
  /\ call.pc \in {"fast", "generic"} =>
       /\ dec.table.code \in {"static", "dynamic"}
       /\ dec.litlen_doubles = dec.table.doubles
  /\ call.pc = "fast" =>
       /\ dec.table.code = BlockType
       /\ OutPos + MAX_MATCH + MATCH_OVERCOPY <= OutLimit
       /\ Staged(in) >= 15
       /\ in.left >= dec.table.bits

(* The bits through token k, for the scanner's stop and error positions.   *)
EndOf(k) == s.starts[k] + Width(s.toks[k])

(* The token that produces output byte n. *)
ProducerOf(n) ==
  LET after == DecodedUpTo(s.toks)
      enough == {k \in 1 .. s.held : Len(after[k].out) >= n}
  IN  Min(enough)

(* Nothing is wrong with the stream but that it ends too early; a stored   *)
(* block's length is apart, the scanner reports where it begins.           *)
CutShort ==
  IF Troubles = {} THEN ~s.means.final
  ELSE LET k == Min(Troubles)
       IN  /\ Trouble(k, DecodedUpTo(s.toks)[k - 1]) = "cut"
           /\ s.toks[k].kind # "len"

(* The scanner accepts and rejects what the decoder does, consumes the     *)
(* same input and counts the same output; stopped at a byte it names the   *)
(* end of the symbol that makes it; an error lies within the input it      *)
(* says it had loaded, after the output it counted, and at its end when    *)
(* the stream is cut short (scan.rs 19-60).  A zlib stream below 6 bytes   *)
(* is a header error only to the decoder.                                  *)
ScanAgrees ==
  scan.pc = "done" /\ scan.result # "Stopped" =>
    /\ scan.stopped /\ scan.stop_at > 0 /\ scan.stop_at <= Len(s.means.out) =>
         /\ scan.n >= scan.stop_at
         /\ LET k == ProducerOf(scan.stop_at) IN
              /\ scan.n <= Len(DecodedUpTo(s.toks)[k].out)
              /\ 8 * scan.consumed = Aligned(EndOf(k))
    /\ ret.result = "ok" /\ scan.stop_at > Len(s.means.out) =>
         /\ scan.result = "ok" /\ ~scan.stopped
         /\ scan.n = OutPos /\ scan.consumed = ret.consumed
    /\ ret.result = "ok" /\ scan.stop_at <= Len(s.means.out) => scan.stopped
    /\ ret.result \in {"BadData", "InvalidHeader"} /\ scan.stop_at = UNLIMITED
         /\ s.nbytes >= 6 => scan.result = ret.result
    /\ scan.result = "BadData" /\ Verdict = {"BadData"} =>
         LET k == Min(Troubles) IN
           /\ 8 * scan.input_pos >= s.starts[k] + (IF s.toks[k].kind = "len" THEN 32 ELSE 0)
           /\ s.toks[k].kind # "len" => scan.n = Len(DecodedUpTo(s.toks)[k - 1].out)
    /\ scan.result = "BadData" /\ job.wrapper = "raw" /\ CutShort => scan.input_pos = s.nbytes
===============================================================================

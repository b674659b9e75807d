--------------------------- MODULE StreamCorrectness ---------------------------
(***************************************************************************)
(* What StreamDecompressor promises: the bytes it hands out are the bytes  *)
(* RFC 1951 assigns to the stream, whatever the buffer sizes, whatever the *)
(* pieces the caller takes, whichever of its two loops decodes a symbol.   *)
(***************************************************************************)
EXTENDS StreamDecompressor, SequencesExt

(* A stream the decoder as configured should accept. *)
FooterAgrees ==
  stream.means.sum_ok /\ (wrapper = "gzip" => stream.means.size_ok)

FooterAccepted ==
  \/ ~options.verify_footer
  \/ checksum_policy = "report"
  \/ checksum_policy = "ignore" /\ (wrapper = "gzip" => stream.means.size_ok)
  \/ checksum_policy = "verify" /\ FooterAgrees

Acceptable ==
  /\ ~stream.means.fault
  /\ \/ stream.means.final /\ FooterAccepted
     \/ options.segment_end /\ stream.means.segment

Positions == 0 .. stream.nbytes

TypeOK ==
  /\ in.pos \in Positions /\ in.end \in in.pos .. stream.nbytes
  /\ in.end - in.pos <= INPUT_BUF_SIZE
  /\ in.left \in 0 .. 63
  /\ in.over \in 0 .. 15
  /\ dec.state \in {"WrapperHeader", "BlockHeader", "DynamicPrecodeLens",
                    "DynamicCodeLengths", "CompressedData", "UncompressedData",
                    "WrapperFooter", "Done"}
  /\ dec.remaining \in Nat
  /\ dec.match.length > 0 => dec.lits = <<>>
  /\ Len(dec.lits) <= 2
  /\ dec.table.bits \in 0 .. LITLEN_TABLEBITS
  /\ dec.state = "WrapperFooter" => in.over <= in.left \div 8
  /\ call.pc \in {"idle", "dispatch", "codelens", "refill", "fast", "generic",
                  "account"}
  /\ hist.errors \in 0 .. options.source_errors
  /\ hist.resets \in 0 .. MaxResets

(* The litlen table a block is decoded with is the one its header asked    *)
(* for (streaming.rs 1009-1024, 1183-1190).                                *)
BlockType ==
  LET before == {k \in 1 .. Len(stream.toks) :
                   stream.toks[k].kind = "block" /\ stream.starts[k] < BitPos(in)}
  IN  stream.toks[CHOOSE k \in before : \A j \in before : j <= k].type

TableFitsBlock == dec.state = "CompressedData" => dec.table.code = BlockType

(* The state is well formed, and only one kind of pending output waits.    *)
(* What was produced is a prefix of what the stream means, and peek() is   *)
(* its end: no byte is lost, repeated, reordered or taken from the         *)
(* previous stream.  Only a stream that ends early may yield bytes of its  *)
(* own making before the error (streaming.rs 1473-1612, 1675-1741).  Each  *)
(* symbol is looked up in its own block's table.                           *)
OutputIsPrefix ==
  /\ TypeOK
  /\ (Acceptable \/ ~hist.phantom) =>
       /\ IsPrefix(produced, stream.means.out)
       /\ IsSuffix(Peek, produced)
  /\ ~hist.phantom => TableFitsBlock

(* is_done() means the whole stream was decoded: it ended where it may,    *)
(* every byte was produced, its footer was compared with the checksum of   *)
(* exactly those bytes, and ended_at_segment_boundary() tells the two ends *)
(* apart (streaming.rs 356-396, 1653-1669, 1747-1842).  A source error in  *)
(* the footer loses bytes of it: what the policy "report" then reports is  *)
(* of other bytes, and claimed only while the source delivers.             *)
DoneIsRight ==
  dec.state = "Done" =>
    /\ Acceptable
    /\ produced = stream.means.out
    /\ done.segment = ~stream.means.final
    /\ (done.matched # None /\ (hist.errors = 0 \/ checksum_policy = "verify"))
         => (done.matched = "yes" <=> FooterAgrees)

(* A stream the decoder should accept is never called corrupt: no token is *)
(* read at a wrong place, no legal distance rejected, no real byte taken   *)
(* for overread padding, no checksum computed over wrong bytes.            *)
NeverCalledCorrupt ==
  call.result \in {"BadData", "InvalidHeader", "ChecksumMismatch"} => ~Acceptable

(* So it is while the source delivers; called again after an error of the  *)
(* source the decoder may have lost part of the footer it was reading.     *)
NoFalseError == hist.errors = 0 => NeverCalledCorrupt

(* A fill() that returns Ok leaves bytes to peek at or is done.  The       *)
(* BufRead impl turns an empty peek into end of file (streaming.rs         *)
(* 1852-1863), so anything else would silently truncate the output.        *)
FillYields ==
  [][(call.pc # "idle" /\ call'.pc = "idle" /\ call'.result = "ok")
       => (write_pos' > read_pos' \/ dec'.state = "Done")]_vars

(* litlen_doubles and doubles_pending say whether the table has double-    *)
(* literal entries, for a table that is in use and for a static one that   *)
(* is kept for later (streaming.rs 1183-1190, 1279-1287; mod.rs 304-308).  *)
DoublesFlagsAgree ==
  (dec.state = "CompressedData" \/ dec.static_loaded) =>
    /\ dec.litlen_doubles = dec.table.doubles
    /\ dec.doubles_pending = ~dec.table.doubles

(* In the fastloop, which checks no bound per symbol, there is always room *)
(* for the longest match with its overcopy, input for two 8-byte loads,    *)
(* and enough bits to look the next symbol up (mod.rs 38-52).              *)
FastloopMargins ==
  InBlock("fast") =>
    /\ write_pos + MAX_MATCH + MATCH_OVERCOPY <= Len(buffer)
    /\ Staged(in) >= 15
    /\ in.left >= dec.table.bits

(* What the fastloop relies on without checking it: the flag that says how *)
(* many bytes an entry stores, and its room.                               *)
FastloopSafe == DoublesFlagsAgree /\ FastloopMargins

(* max_output_size is enforced on every stream that completes, however its *)
(* output is split between calls, and refuses none that keeps to it        *)
(* (streaming.rs 176-184, 396-407).                                        *)
OutputLimitHolds ==
  /\ (dec.state = "Done" /\ call.pc = "idle" /\ call.result = "ok"
        /\ options.max_output_size >= 0)
       => Len(produced) <= options.max_output_size
  /\ call.result = "OutputLimitExceeded" => Len(produced) > options.max_output_size

(* So are the blocks that may follow each other without output.            *)
StallLimitHolds ==
  dec.state = "Done" /\ call.pc = "idle" /\ call.result = "ok"
    => LongestEmptyRun(stream.toks) <= MAX_BLOCKS_WITHOUT_OUTPUT

LimitsHold == OutputLimitHolds /\ StallLimitHolds

(* So it is while the source delivers; an error of the source skips the    *)
(* accounting of what the call has produced.                               *)
LimitsEnforced == hist.errors = 0 => LimitsHold

(* Every stream is decoded to its end or to an error, and every byte is    *)
(* handed out: fill() and a caller that drains never wait for each other   *)
(* (streaming.rs 743-846).                                                 *)
EventuallyDecoded ==
  <>(/\ AllTaken
     /\ (Acceptable /\ options.max_output_size < 0) => dec.state = "Done")

(* fill() and its caller use the output buffer as OutputWindow prescribes: *)
(* never a write beyond its end, never a compaction with bytes to lose.    *)
Window == INSTANCE OutputWindow WITH MaxProduced <- -1

UsesWindow == Window!BufferSpec
===============================================================================

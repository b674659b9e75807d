------------------------- MODULE IncrementalCompressor -------------------------
(***************************************************************************)
(* Incremental compression (src/src/compress/mod.rs): the caller passes    *)
(* all input so far with every call, and the outputs of the calls make one *)
(* raw DEFLATE stream.  Levels of the hash-table finder ("ht") and of hash *)
(* chains with the greedy and the lazy parser; estimates, snapshot and     *)
(* restore, reset, and the errors a call can end with.                     *)
(*                                                                         *)
(* The variables of the match finder hold what is local to a call as well  *)
(* (in_next, in_base_offset); a call commits incremental_pos and           *)
(* incremental_base_offset.                                                *)
(***************************************************************************)
EXTENDS HashTable, HashChains, BlockWriter

CONSTANTS
  SEQ_STORE_LENGTH,   (* matches a block may have                          *)
  NICE_LEN, DEPTH,    (* the level's nice_match_length, max_search_depth   *)
  Strategies,         (* the levels' strategies to look at                 *)
  MinLens,            (* minimum match lengths a block may be given        *)
  Texts,              (* what callers compress                             *)
  Rooms,              (* bytes of output a call may be given               *)
  Retries             (* BOOLEAN: callers call again after an error,       *)
                      (* without restore or reset                          *)

ASSUME CompressorAssumption ==
  /\ Byte \subseteq Nat
  /\ SEQ_STORE_LENGTH \in Nat \ {0}
  /\ NICE_LEN \in REQUIRED_NBYTES .. MAX_MATCH_LEN /\ DEPTH \in Nat \ {0, 1}
  /\ SHORT_LEN >= 2
  /\ MinLens \subseteq SHORT_LEN .. (MAX_MATCH_LEN - 1)
  /\ Strategies \subseteq {"ht", "greedy", "lazy"}
  /\ Texts \subseteq Seq(Byte)
  /\ Rooms \subseteq Nat
  /\ Retries \in BOOLEAN

VARIABLES
  strategy,
  kept,      (* incremental_pos, incremental_base_offset and the bits of   *)
             (* the last partial byte (incremental_bitbuf, _bitcount)      *)
  os,        (* the output of the call                                     *)
  call,      (* where the call is, and its locals                          *)
  tokens,    (* the sequence store: tokens of the block being parsed       *)
  caller,    (* what the caller has of the stream, and what it may do      *)
  snapshot   (* the caller's snapshot, and what went with it               *)

kind == IF strategy = "ht" THEN "ht" ELSE "hc"

Finder == INSTANCE MatchFinder WITH MaxDepth <- DEPTH, NiceLens <- {NICE_LEN}

compressorVars == <<strategy, kept, os, call, tokens, caller, snapshot>>
vars == <<compressorVars, windowVars, htVars, hcVars>>

MIN_MATCH_LEN == SHORT_LEN

Idle == [pc |-> "idle", what |-> "none", final |-> FALSE, start |-> 0,
         block |-> 0, min_len |-> 0, length |-> 0, offset |-> 0]

Goto(pc) == call' = [call EXCEPT !.pc = pc]

(* adjust_max_and_nice_len *)
MaxLen == AtMost(Remaining, MAX_MATCH_LEN)
NiceLen == AtMost(NICE_LEN, MaxLen)

(* What the caller has: a decoder that has read the stream so far, whether *)
(* it ended the stream, and what the compressor is good for.               *)
NewCaller == [decoder |-> Decoder, ended |-> FALSE, may |-> "go on"]

(* A snapshot has the tables, the kept fields; with it go the stream the   *)
(* caller had and the input it was for.                                    *)
Tables == [ht |-> htVars, hc |-> hcVars]
Snapshot == [tables |-> Tables, kept |-> kept,
             caller |-> caller,
             data |-> SubSeq(data, 1, kept.pos)]
NoSnapshot == [tables |-> [ht |-> <<>>, hc |-> <<>>], kept |-> [pos |-> 0, base |-> 0, bits |-> <<>>],
               caller |-> NewCaller, data |-> <<>>]

-------------------------------------------------------------------------------
(* Calls *)

(* A caller goes on calling until the stream has ended.  After an error it *)
(* restores or resets, but may simply repeat a first call; after an        *)
(* estimate it restores or resets.                                         *)
MayCall ==
  \/ caller.may = "go on" /\ ~caller.ended
  \/ caller.may = "recover" /\ (kept.pos = 0 \/ Retries)

(* Mutant: the finder is not initialised. *)
FirstCall_KeepsTables == UNCHANGED <<htVars, hcVars>>

(* With nothing compressed yet the finder starts over. *)
FirstCall == IF kind = "ht" THEN HtInit /\ UNCHANGED hcVars
                            ELSE HcInit /\ UNCHANGED htVars

(* Entry of deflate_compress_incremental and its estimating twin.  The     *)
(* caller passes what it passed before and more, or ends the stream.       *)
(* Bound: it goes back to a snapshot after one call or not at all.         *)
BeginCall(what, final, room) ==
  LET start == kept.pos
      known == IF start = 0 THEN <<>> ELSE data
  IN  /\ call.pc = "idle"
      /\ MayCall
      /\ \E text \in Texts : \E n \in Len(known) .. Len(text) :
           /\ SubSeq(text, 1, Len(known)) = known
           /\ n > start \/ final
           /\ data' = SubSeq(text, 1, n)
      /\ IF start = 0
           THEN FirstCall /\ found' = Nothing /\ in_base_offset' = 0
           ELSE UNCHANGED <<htVars, hcVars, found>> /\ in_base_offset' = kept.base
      /\ in_next' = start
      /\ kept' = [kept EXCEPT !.base = in_base_offset']
      /\ os' = OutputBitstream(kept.bits, room)
      /\ call' = [Idle EXCEPT !.pc = "blocks", !.what = what, !.final = final,
                              !.start = start]
      /\ tokens' = <<>>
      /\ snapshot' = IF start = Len(snapshot.data) THEN snapshot ELSE NoSnapshot
      /\ UNCHANGED <<strategy, caller, next_hashes, search>>

Fails ==
  /\ call' = Idle
  /\ os' = OutputBitstream(<<>>, 0)
  /\ tokens' = <<>>
  /\ caller' = [caller EXCEPT !.may = "recover"]

(* stop.check()?: the call is undone but for the finder's tables.  An      *)
(* estimate checks once.                                                   *)
Stopped ==
  /\ call.pc = "blocks" \/ (call.pc = "parse" /\ call.what = "compress")
  /\ Remaining > 0
  /\ search.pc = "ready"
  /\ Fails
  /\ UNCHANGED <<strategy, kept, snapshot, windowVars, htVars, hcVars>>

(* The next block of the call; an estimate takes everything as one. *)
BeginBlock(min_len) ==
  /\ call.pc = "blocks"
  /\ Remaining > 0
  /\ call' = [call EXCEPT !.pc = "parse", !.block = in_next, !.min_len = min_len]
  /\ tokens' = <<>>
  /\ next_hashes' = IF kind = "ht" THEN HtFirstHash
                    ELSE IF in_next = call.start
                      THEN [short |-> FirstBucket, long |-> FirstBucket]
                    ELSE next_hashes
  /\ UNCHANGED <<strategy, kept, os, caller, snapshot, data, in_next,
                 in_base_offset, found, search, htVars, hcVars>>

StoreFull ==
  /\ call.what = "compress"
  /\ Len(SelectSeq(tokens, LAMBDA t : t[1] = "match")) = SEQ_STORE_LENGTH

BlockOver == Remaining = 0 \/ StoreFull

(* finish_block; whether the block is stored, cost decides. *)
EndBlock(type) ==
  /\ call.pc = "parse"
  /\ search.pc = "ready"
  /\ BlockOver
  /\ os' = IF call.what = "estimate" THEN os
           ELSE FlushBlock(os, type, tokens, SubSeq(data, call.block + 1, in_next),
                           IF call.final /\ Remaining = 0 THEN 1 ELSE 0)
  /\ Goto("blocks")
  /\ tokens' = <<>>
  /\ UNCHANGED <<strategy, kept, caller, snapshot, windowVars, htVars, hcVars>>

(* Mutant: an empty last call writes nothing. *)
Terminated_Not == os

(* A last call without data ends the stream with an empty block. *)
Terminated ==
  IF call.final /\ call.start = Len(data)
    THEN FlushBits(AddBits(os, CodedBlock(<<>>, 1)))
    ELSE os

(* Mutant: the partial byte stays behind although it was padded. *)
KeptBits_AfterPadding(bits) == bits

(* The last byte of the stream is padded, any other partial byte is kept. *)
KeptBits(bits) == IF call.final THEN <<>> ELSE bits

(* Mutant: the base of the entries is not kept. *)
BaseKept_Not == kept

(* The base of the entries, kept for the next call whatever comes of the   *)
(* output.                                                                 *)
BaseKept == [kept EXCEPT !.base = in_base_offset]

EndCall ==
  /\ call.pc = "blocks"
  /\ Remaining = 0
  /\ LET done == IF call.final THEN PadLastByte(Terminated) ELSE Terminated
     IN  IF call.what = "estimate"
           THEN /\ kept' = [BaseKept EXCEPT !.pos = Len(data)]
                /\ caller' = [caller EXCEPT !.may = "estimated"]
                /\ call' = Idle
                /\ os' = OutputBitstream(<<>>, 0)
                /\ UNCHANGED tokens
         ELSE IF done.overflow
           THEN Fails /\ kept' = BaseKept
           ELSE /\ kept' = [BaseKept EXCEPT !.pos = Len(data),
                                        !.bits = KeptBits(Terminated.bits)]
                /\ caller' = [decoder |-> Decoded(caller.decoder, done.out),
                              ended |-> call.final, may |-> "go on"]
                /\ call' = Idle
                /\ os' = OutputBitstream(<<>>, 0)
                /\ UNCHANGED tokens
  /\ UNCHANGED <<strategy, snapshot, windowVars, htVars, hcVars>>

-------------------------------------------------------------------------------
(* Parsing: what is found at a position becomes a literal or a match. *)

(* Everything of the compressor but where the call is and the tokens. *)
Parsing == UNCHANGED <<strategy, kept, os, caller, snapshot>>

(* An estimate adds up costs instead of tokens. *)
AddToken(t) == tokens' = IF call.what = "estimate" THEN tokens ELSE Append(tokens, t)

AddLiteral(p) == AddToken(Literal(data[p + 1]))
AddMatch(length, offset) == AddToken(Match(length, offset))

ParseHt ==
  /\ call.pc = "parse" /\ kind = "ht" /\ ~BlockOver
  /\ IF MaxLen >= REQUIRED_NBYTES
       THEN /\ HtLongestMatch(MaxLen, NiceLen)
            /\ Goto("judge")
            /\ UNCHANGED tokens
       ELSE /\ search.pc = "ready"
            /\ AddLiteral(in_next)
            /\ in_next' = in_next + 1
            /\ UNCHANGED <<call, data, in_base_offset, next_hashes, found, search, htVars>>
  /\ Parsing /\ UNCHANGED hcVars

ParseHc ==
  /\ call.pc = "parse" /\ kind = "hc" /\ ~BlockOver
  /\ HcLongestMatch(call.min_len - 1, MaxLen, NiceLen, DEPTH)
  /\ Goto("judge")
  /\ Parsing /\ UNCHANGED <<tokens, htVars>>

Follow ==
  /\ HcChain \/ HcExtend
  /\ UNCHANGED <<compressorVars, htVars>>

SkipOne ==
  /\ \/ HtSkipOne /\ UNCHANGED hcVars
     \/ HcSkipOne /\ UNCHANGED htVars
  /\ UNCHANGED compressorVars

(* get_offset_slot has a slot for each of these offsets, and indexes out   *)
(* of its table with any other.                                            *)
HasSlot(offset) == offset \in 1 .. WINDOW_SIZE

Panic == Goto("panicked") /\ UNCHANGED <<tokens, windowVars, htVars, hcVars>>

(* A match with count bytes of it still ahead. *)
Take(length, offset, count) ==
  /\ Parsing
  /\ IF ~HasSlot(offset) THEN Panic
     ELSE /\ AddMatch(length, offset)
          /\ IF count = 0 THEN UNCHANGED <<windowVars, htVars, hcVars>>
             ELSE IF kind = "ht" THEN HtSkip(count) /\ UNCHANGED hcVars
                                 ELSE HcSkip(count) /\ UNCHANGED htVars
          /\ Goto("parse")

(* A shortest match at a long distance is worth less than a literal. *)
MayReject == strategy # "ht" /\ found.length = MIN_MATCH_LEN
Worth == IF strategy = "ht" THEN found.length > 0 ELSE found.length >= call.min_len

JudgeMatch ==
  /\ call.pc = "judge" /\ search.pc = "ready"
  /\ Worth
  /\ IF strategy = "lazy"
       THEN /\ call' = [call EXCEPT !.pc = "lazy", !.length = found.length,
                                    !.offset = found.offset]
            /\ Parsing /\ UNCHANGED <<tokens, windowVars, htVars, hcVars>>
       ELSE Take(found.length, found.offset, found.length - 1)

JudgeLiteral ==
  /\ call.pc = "judge" /\ search.pc = "ready"
  /\ ~Worth \/ MayReject
  /\ AddLiteral(found.at)
  /\ Goto("parse")
  /\ Parsing /\ UNCHANGED <<windowVars, htVars, hcVars>>

(* Long enough (nice_len, max_lazy): taken as it is. *)
LazyTake ==
  /\ call.pc = "lazy"
  /\ Take(call.length, call.offset, call.length - 1)

LazyLook ==
  /\ call.pc = "lazy"
  /\ call.length < AtMost(NICE_LEN, Remaining + 1)
  /\ HcLongestMatch(call.length - 1, MaxLen, NiceLen, DEPTH \div 2)
  /\ Goto("compare")
  /\ Parsing /\ UNCHANGED <<tokens, htVars>>

(* The match one further on is better; what better means, cost decides. *)
LazyBetter ==
  /\ call.pc = "compare" /\ search.pc = "ready"
  /\ found.length >= call.length
  /\ AddLiteral(in_next - 2)
  /\ call' = [call EXCEPT !.pc = "lazy", !.length = found.length,
                          !.offset = found.offset]
  /\ Parsing /\ UNCHANGED <<windowVars, htVars, hcVars>>

(* Mutant: skips as if the look ahead had searched no position. *)
LazySkip_NoLook(length) == length - 1

(* Two positions of the match have been searched. *)
LazySkip(length) == length - 2

LazyKeep ==
  /\ call.pc = "compare" /\ search.pc = "ready"
  /\ Take(call.length, call.offset, LazySkip(call.length))

-------------------------------------------------------------------------------
(* Snapshot, restore, reset *)

TakeSnapshot ==
  /\ call.pc = "idle"
  /\ caller.may = "go on" /\ kept.pos > 0
  /\ snapshot = NoSnapshot
  /\ snapshot' = Snapshot
  /\ UNCHANGED <<strategy, kept, os, call, tokens, caller, windowVars,
                 htVars, hcVars>>

(* Mutant: the partial byte is not part of a snapshot. *)
Restored_NoBits(snap) == [snap EXCEPT !.bits = kept.bits]

Restored(snap) == snap

(* The caller goes back with its own stream and input, too. *)
Restore ==
  /\ call.pc = "idle"
  /\ snapshot # NoSnapshot
  /\ kept' = Restored(snapshot.kept)
  /\ bucket0' = snapshot.tables.ht[1] /\ bucket1' = snapshot.tables.ht[2]
  /\ hash3_tab' = snapshot.tables.hc[1] /\ hash4_tab' = snapshot.tables.hc[2]
  /\ next_tab' = snapshot.tables.hc[3] /\ linked' = snapshot.tables.hc[4]
  /\ data' = snapshot.data
  /\ in_next' = snapshot.kept.pos
  /\ in_base_offset' = snapshot.kept.base
  /\ found' = Nothing
  /\ caller' = snapshot.caller
  /\ snapshot' = NoSnapshot
  /\ UNCHANGED <<strategy, os, call, tokens, next_hashes, search>>

(* incremental_reset; the next call is a first call.  The caller keeps no  *)
(* snapshot over it.                                                       *)
IncrementalReset ==
  /\ call.pc = "idle"
  /\ kept' = [pos |-> 0, base |-> 0, bits |-> <<>>]
  /\ caller' = NewCaller
  /\ snapshot' = NoSnapshot
  /\ UNCHANGED <<strategy, os, call, tokens, windowVars, htVars, hcVars>>

-------------------------------------------------------------------------------

Init ==
  /\ strategy \in Strategies
  /\ kept = [pos |-> 0, base |-> 0, bits |-> <<>>]
  /\ os = OutputBitstream(<<>>, 0)
  /\ call = Idle
  /\ tokens = <<>>
  /\ caller = NewCaller
  /\ snapshot = NoSnapshot
  /\ Finder!Init

CallStep ==
  \/ Stopped \/ EndCall
  \/ \E min_len \in MinLens : BeginBlock(min_len)
  \/ \E type \in {"block", "stored"} : EndBlock(type)
  \/ ParseHt \/ ParseHc \/ Follow \/ SkipOne
  \/ JudgeMatch \/ JudgeLiteral
  \/ LazyTake \/ LazyLook \/ LazyBetter \/ LazyKeep

Next ==
  \/ CallStep
  \/ \E final \in BOOLEAN, room \in Rooms : BeginCall("compress", final, room)
  \/ BeginCall("estimate", FALSE, 0)
  \/ TakeSnapshot \/ Restore \/ IncrementalReset

Spec == Init /\ [][Next]_vars

-------------------------------------------------------------------------------

TypeOK ==
  /\ strategy \in Strategies
  /\ kept.pos \in 0 .. Len(data) /\ kept.base \in 0 .. Len(data)
  /\ Len(kept.bits) < BYTE
  /\ Len(os.bits) < BYTE /\ os.room \in Nat /\ os.overflow \in BOOLEAN
  /\ Len(os.out) <= BYTE * os.room
  /\ call.pc \in {"idle", "blocks", "parse", "judge", "lazy", "compare", "panicked"}
  /\ call.start \in 0 .. Len(data) /\ call.block \in 0 .. in_next
  /\ caller.may \in {"go on", "recover", "estimated"}

(* Between calls, what the caller has been given, with the bits still kept *)
(* back, is a legal stream on a block boundary that decodes to exactly the *)
(* input compressed so far; it has a final block if and only if it was     *)
(* ended.  Wherever the input is cut, whichever matches are found and      *)
(* taken, and after errors, snapshots and restores (compress/mod.rs        *)
(* 1199-1207; restore, 974-978).                                           *)
StreamDecodes ==
  call.pc = "idle" /\ caller.may = "go on" =>
    LET d == Decoded(caller.decoder, kept.bits)
    IN  /\ d.legal /\ d.in = "none"
        /\ d.out = SubSeq(data, 1, kept.pos)
        /\ d.final = caller.ended
        /\ caller.ended => kept.bits = <<>>

(* No call asks for the slot of an offset that has none (block.rs 125).    *)
(* While a caller answers an error with restore or reset this is so; with  *)
(* Retries it is not: a call that fails leaves the tables ahead of         *)
(* incremental_pos, and the next finds a position to be its own match      *)
(* (compress/mod.rs 1692-1697, 1225-1257).                                 *)
NeverPanics == call.pc # "panicked"

(* A block that passes the check of its cost is written completely: the    *)
(* estimate of each type is never below what is written (block.rs          *)
(* 1048-1066, which leaves the header of a stored block out); and less     *)
(* than a byte of bits waits in the writer or between calls.               *)
FitsAsChecked == TypeOK /\ ~os.torn

(* The finder is used only as MatchFinder allows, but for restoring it to  *)
(* what it was: so the matches it returns are real.                        *)
UsesFinder == [][Finder!Next \/ Restore]_<<windowVars, htVars, hcVars>>

===============================================================================

------------------------------ MODULE StaticTurbo ------------------------------
(***************************************************************************)
(* compress_static_turbo_inner (src/src/compress/mod.rs): one pass with    *)
(* the turbo finder that writes every token at once, with the static code. *)
(* A block that turns out longer than stored, or that overflows, is rolled *)
(* back and stored; the finder is not rolled back with it.  Then what      *)
(* deflate_compress does with the result.                                  *)
(*                                                                         *)
(* Of the output only its length in bits is kept.                          *)
(***************************************************************************)
EXTENDS LimitedTables

CONSTANTS
  Inputs,                (* longer than what is stored without parsing      *)
  Rooms,                 (* bytes of output a call may be given             *)
  BLOCK_LENGTH,          (* FAST_SOFT_MAX_BLOCK_LENGTH: 65535               *)
  MIN_BLOCK_LENGTH,      (* 5000                                            *)
  BYTE,                  (* bits in a byte: 8                               *)
  HEADER, END_OF_BLOCK,  (* bits of a block header, of the end of block: 3, 7 *)
  MATCH_BITS,            (* bits of a match                                 *)
  LiteralBits,           (* bits of each literal                            *)
  MAX_STORED,            (* bytes a stored block can hold: 65535            *)
  STORED_OVERHEAD        (* bytes of its header and lengths: 5              *)

VARIABLES
  room,      (* bytes of output                                            *)
  bits,      (* bits written                                               *)
  overflow,  (* os.overflow                                                *)
  block,     (* the block: where it begins and ends, bits before it        *)
  pc,        (* "blocks", "parse", "judge", "returned"                     *)
  status     (* how the call ended                                         *)

turboVars == <<windowVars, htVars, room, bits, overflow, block, pc, status>>

Finder == <<data, in_base_offset, next_hashes, found, search, htVars>>

(* choose_max_block_end *)
MaxBlockEnd(begin) ==
  IF Len(data) - begin < BLOCK_LENGTH + MIN_BLOCK_LENGTH THEN Len(data)
                                                         ELSE begin + BLOCK_LENGTH

CeilDiv(a, b) == (a + b - 1) \div b

(* deflate_compress_bound *)
Bound(n) ==
  STORED_OVERHEAD * (IF n = 0 THEN 1 ELSE CeilDiv(n, MIN_BLOCK_LENGTH)) + n

(* add_bits, flush_bits *)
Write(n) ==
  /\ bits' = bits + n
  /\ overflow' = (overflow \/ (bits + n) \div BYTE > room)

BeginBlock ==
  /\ pc = "blocks"
  /\ Remaining > 0 /\ ~overflow
  /\ block' = [begin |-> in_next, end |-> MaxBlockEnd(in_next), saved |-> bits]
  /\ Write(HEADER)
  /\ next_hashes' = HtFirstHash
  /\ pc' = "parse"
  /\ UNCHANGED <<data, in_next, in_base_offset, found, search, htVars, room, status>>

BlockGoesOn == in_next < block.end /\ ~overflow

(* A match may end after the block: only the input bounds its length.      *)
Look ==
  /\ pc = "parse" /\ BlockGoesOn
  /\ LET max_len == AtMost(Remaining, MAX_MATCH_LEN)
     IN  IF max_len >= REQUIRED_NBYTES
           THEN TurboLongestMatch(max_len)
           ELSE /\ FoundThis(0, 0)
                /\ in_next' = in_next + 1
                /\ UNCHANGED <<data, in_base_offset, next_hashes, search, htVars>>
  /\ pc' = "judge"
  /\ UNCHANGED <<room, bits, overflow, block, status>>

Put ==
  /\ pc = "judge"
  /\ IF found.length > 0
       THEN Write(MATCH_BITS) /\ TurboSkip(found.length - 1)
       ELSE Write(LiteralBits[data[in_next]]) /\ UNCHANGED <<windowVars, htVars>>
  /\ pc' = "parse"
  /\ UNCHANGED <<room, block, status>>

(* write_uncompressed: headers, lengths and data; the first header goes    *)
(* into the partial byte, and the next one where that has no room for it.  *)
Stored(before, length) ==
  LET pieces == CeilDiv(length, MAX_STORED)
      next == IF before % BYTE > BYTE - HEADER THEN 1 ELSE 0
  IN  BYTE * (before \div BYTE + length + STORED_OVERHEAD * pieces + next)

(* More whole bytes than this, and the block is rolled back. *)
StaticLimit(length) == length + STORED_OVERHEAD * CeilDiv(length, MAX_STORED) + 1

(* The block is rolled back and stored: the output goes back to where the  *)
(* block began, the position to where it ends, from before or behind.      *)
EndBlock ==
  /\ pc = "parse" /\ ~BlockGoesOn
  /\ LET static == bits + END_OF_BLOCK
         length == block.end - block.begin
         full == overflow \/ static \div BYTE > room
     IN  IF full \/ static \div BYTE - block.saved \div BYTE > StaticLimit(length)
           THEN /\ in_next' = block.end
                /\ bits' = Stored(block.saved, length)
                /\ overflow' = (Stored(block.saved, length) > BYTE * room)
           ELSE Write(END_OF_BLOCK) /\ UNCHANGED in_next
  /\ pc' = "blocks"
  /\ UNCHANGED <<Finder, room, block, status>>

(* The last partial byte needs room as well. *)
ReturnOutput ==
  /\ pc = "blocks" /\ (Remaining <= 0 \/ overflow)
  /\ status' = IF overflow \/ bits > BYTE * room THEN "space" ELSE "ok"
  /\ bits' = BYTE * CeilDiv(bits, BYTE)
  /\ pc' = "returned"
  /\ UNCHANGED <<data, in_next, in_base_offset, next_hashes, found, search, htVars,
                 room, overflow, block>>

Init ==
  /\ data \in Inputs /\ room \in Rooms
  /\ in_next = 0 /\ in_base_offset = 0
  /\ next_hashes = [short |-> FirstBucket, long |-> FirstBucket]
  /\ found = Nothing
  /\ search = Ready
  /\ bucket0 = [b \in Bucket |-> INITVAL]
  /\ bucket1 = [b \in Bucket |-> INITVAL]
  /\ bits = 0 /\ overflow = FALSE
  /\ block = [begin |-> 0, end |-> 0, saved |-> 0]
  /\ pc = "blocks" /\ status = "none"

Next == BeginBlock \/ Look \/ Put \/ EndBlock \/ ReturnOutput

Spec == Init /\ [][Next]_turboVars

-------------------------------------------------------------------------------

(* What a rolled-back block has left in the finder is rejected by the      *)
(* cutoff check: no entry within the cutoff is a position not yet parsed,  *)
(* and the base is not beyond the position (compress/mod.rs 2251-2252:     *)
(* "matchfinder entries from a rolled-back block are naturally rejected by *)
(* the cutoff check").                                                     *)
RolledBackRejected ==
  pc = "parse" =>
    /\ in_base_offset <= in_next
    /\ \A b \in Bucket :
         LET node == Slid(bucket0)[b]
         IN  Live(node, CurPos) => node < CurPos

(* An output as long as deflate_compress_bound has room for what the call  *)
(* writes (compress/mod.rs 1131: "the maximum compressed size for raw      *)
(* DEFLATE output", 1140: "Static Huffman blocks roll back to uncompressed *)
(* if they expand").                                                       *)
BoundSuffices == status = "space" => room < Bound(Len(data))

===============================================================================

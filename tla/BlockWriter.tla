------------------------------ MODULE BlockWriter ------------------------------
(***************************************************************************)
(* Writing blocks (src/src/compress/block.rs) to the bounded output of one *)
(* call (src/src/compress/bitstream.rs), and what a decoder makes of them. *)
(*                                                                         *)
(* A stream is a sequence of symbols <<what, x, y>>, BYTE of them to a     *)
(* byte; a symbol stands for the bits that encode it.  Huffman codes and   *)
(* cost estimates are left out: of the three block types the cheapest may  *)
(* be any.  Static and dynamic blocks are both "block".                    *)
(***************************************************************************)
EXTENDS Integers, Sequences

CONSTANTS
  BYTE,        (* bits in a byte: 8                                        *)
  HEADER,      (* bits of a block header: 3                                *)
  MAX_STORED   (* bytes a stored block can hold: 0xFFFF                    *)

ASSUME WriterAssumption ==
  /\ BYTE \in Nat /\ HEADER \in 1 .. (BYTE - 1)
  /\ MAX_STORED \in Nat \ {0}

Fill(n) == [k \in 1 .. n |-> <<"fill", 0, 0>>]
Header(what, final, n) == <<<<what, final, n>>>> \o Fill(HEADER - 1)
Literal(b) == <<"literal", b, 0>>
Match(length, offset) == <<"match", length, offset>>
EndOfBlock == <<"end", 0, 0>>
WholeByte(s) == <<s>> \o Fill(BYTE - 1)

(* OutputBitstream: bits not yet written, bytes written, room, overflow;   *)
(* torn: history, a write itself ran out of room.                          *)
OutputBitstream(bits, room) ==
  [bits |-> bits, out |-> <<>>, room |-> room, overflow |-> FALSE, torn |-> FALSE]

BytesLeft(os) == os.room - Len(os.out) \div BYTE

AddBits(os, syms) == [os EXCEPT !.bits = @ \o syms]

(* write_byte, write_le16, write_bytes: all of it, or overflow. *)
WriteBytes(os, syms) ==
  IF Len(syms) <= BYTE * BytesLeft(os) THEN [os EXCEPT !.out = @ \o syms]
                                       ELSE [os EXCEPT !.overflow = TRUE, !.torn = TRUE]

(* Mutant: a byte just completed stays behind. *)
FlushBits_KeepsFullByte(os) ==
  LET whole == (Len(os.bits) - 1) \div BYTE
  IN  IF whole <= BytesLeft(os)
        THEN [os EXCEPT !.out = @ \o SubSeq(os.bits, 1, BYTE * whole),
                        !.bits = SubSeq(os.bits, BYTE * whole + 1, Len(os.bits))]
        ELSE [os EXCEPT !.overflow = TRUE, !.torn = TRUE, !.bits = <<>>]

(* flush_bits: whole bytes are written; with no room for them, the pending *)
(* bits are dropped.                                                       *)
FlushBits(os) ==
  LET whole == Len(os.bits) \div BYTE
  IN  IF whole <= BytesLeft(os)
        THEN [os EXCEPT !.out = @ \o SubSeq(os.bits, 1, BYTE * whole),
                        !.bits = SubSeq(os.bits, BYTE * whole + 1, Len(os.bits))]
        ELSE [os EXCEPT !.overflow = TRUE, !.torn = TRUE, !.bits = <<>>]

(* The last partial byte is padded. *)
PadLastByte(os) ==
  IF os.bits = <<>> THEN os
  ELSE [WriteBytes(os, os.bits \o Fill(BYTE - Len(os.bits))) EXCEPT !.bits = <<>>]

(* The data in pieces of at most MAX_STORED bytes. *)
StoredPieces(bytes) ==
  [i \in 1 .. ((Len(bytes) + MAX_STORED - 1) \div MAX_STORED) |->
     SubSeq(bytes, (i - 1) * MAX_STORED + 1,
            IF i * MAX_STORED < Len(bytes) THEN i * MAX_STORED ELSE Len(bytes))]

(* The bytes as they are, one after the other. *)
RawBytes(bytes) ==
  [k \in 1 .. BYTE * Len(bytes) |->
     WholeByte(<<"raw", bytes[(k - 1) \div BYTE + 1], 0>>)[((k - 1) % BYTE) + 1]]

(* The header goes into the partial byte, and the next one where that has  *)
(* no room for all of it; then the length, then the data.                  *)
WriteStoredPiece(os, piece, final) ==
  LET size == IF Len(os.bits) > BYTE - HEADER THEN 2 * BYTE ELSE BYTE
      start == os.bits \o Header("stored", final, Len(piece))
      header == WriteBytes(os, start \o Fill(size - Len(start)))
      length == WriteBytes([header EXCEPT !.bits = <<>>], Fill(BYTE))
  IN  WriteBytes(length, RawBytes(piece))

(* Mutant: every piece of a final block says that it is final. *)
WriteUncompressedBlocks_AllFinal(os, bytes, final) ==
  LET pieces == StoredPieces(bytes)
      after[i \in 0 .. Len(pieces)] ==
        IF i = 0 THEN os ELSE WriteStoredPiece(after[i - 1], pieces[i], final)
  IN  after[Len(pieces)]

(* Piece after piece; only the last of a final block is final. *)
WriteUncompressedBlocks(os, bytes, final) ==
  LET pieces == StoredPieces(bytes)
      after[i \in 0 .. Len(pieces)] ==
        IF i = 0 THEN os
        ELSE WriteStoredPiece(after[i - 1], pieces[i], IF i = Len(pieces) THEN final ELSE 0)
  IN  after[Len(pieces)]

(* What the code takes to be the cost of storing: alignment, lengths,      *)
(* headers of all pieces but the first, data.  (A length is one byte here, *)
(* four in the code.)                                                      *)
UncompressedCost(bitcount, n) ==
  LET fullPieces == IF n = 0 THEN 0 ELSE (n - 1) \div MAX_STORED
  IN  ((-(bitcount + HEADER)) % BYTE) + BYTE + 2 * BYTE * fullPieces + BYTE * n

CodedBlock(tokens, final) ==
  Header("block", final, 0) \o tokens \o <<EndOfBlock>>

(* Mutant: forgets the partial byte. *)
BytesNeeded_NoCarry(bitcount, cost) == (cost + BYTE - 1) \div BYTE

BytesNeeded(bitcount, cost) == (bitcount + cost + BYTE - 1) \div BYTE

(* flush_block: nothing is written of a block that does not fit. *)
FlushBlock(os, type, tokens, bytes, final) ==
  LET cost == IF type = "stored" THEN UncompressedCost(Len(os.bits), Len(bytes))
                                 ELSE Len(CodedBlock(tokens, final))
  IN  IF BytesNeeded(Len(os.bits), cost) > BytesLeft(os)
        THEN [os EXCEPT !.overflow = TRUE]
      ELSE IF type = "stored" THEN WriteUncompressedBlocks(os, bytes, final)
      ELSE FlushBits(AddBits(os, CodedBlock(tokens, final)))

-------------------------------------------------------------------------------

(* A decoder reading the stream: its output, its place in the current byte,*)
(* the kind of block it is in and the bytes a stored one has left, whether *)
(* the final block has begun, and whether all was legal so far.            *)
Decoder == [out |-> <<>>, at |-> 0, in |-> "none", left |-> 0,
            final |-> FALSE, legal |-> TRUE]

Copied(out, length, offset) ==
  [k \in 1 .. (Len(out) + length) |->
     IF k <= Len(out) THEN out[k]
                      ELSE out[Len(out) - offset + 1 + ((k - Len(out) - 1) % offset)]]

DecodeSymbol(d, s) ==
  LET what == s[1]
      next == [d EXCEPT !.at = (@ + 1) % BYTE]
      Legal(cond, then) == IF cond THEN then ELSE [next EXCEPT !.legal = FALSE]
  IN  CASE what \in {"block", "stored"} ->
             Legal(d.in = "none" /\ ~d.final,
                   [next EXCEPT !.in = IF what = "stored" /\ s[3] = 0 THEN "none" ELSE what,
                                !.final = (s[2] = 1), !.left = s[3]])
        [] what = "literal" ->
             Legal(d.in = "block", [next EXCEPT !.out = Append(@, s[2])])
        [] what = "match" ->
             Legal(d.in = "block" /\ s[3] \in 1 .. Len(d.out),
                   [next EXCEPT !.out = Copied(@, s[2], s[3])])
        [] what = "end" -> Legal(d.in = "block", [next EXCEPT !.in = "none"])
        [] what = "raw" ->
             Legal(d.in = "stored" /\ d.at = 0,
                   [next EXCEPT !.out = Append(@, s[2]), !.left = @ - 1,
                                !.in = IF d.left = 1 THEN "none" ELSE @])
        [] OTHER -> next

Decoded(d, stream) ==
  LET after[i \in 0 .. Len(stream)] ==
        IF i = 0 THEN d ELSE DecodeSymbol(after[i - 1], stream[i])
  IN  after[Len(stream)]

===============================================================================

------------------------------ MODULE MatchWindow ------------------------------
(***************************************************************************)
(* What the match finders of the compressor share                          *)
(* (src/src/matchfinder/mod.rs): tables of 16-bit positions relative to a  *)
(* base that slides over the input by WINDOW_SIZE at a time.               *)
(*                                                                         *)
(* Parameters and variables are named as in the code.  Positions are       *)
(* 0-based: the byte at position p is data[p + 1].                         *)
(***************************************************************************)
EXTENDS Integers, Sequences

CONSTANTS
  WINDOW_SIZE,     (* MATCHFINDER_WINDOW_SIZE: 32768; an entry is an i16,   *)
                   (* -WINDOW_SIZE .. WINDOW_SIZE - 1                       *)
  SHORT_LEN,       (* bytes hash3 covers: 3                                 *)
  LONG_LEN,        (* bytes the other hashes cover: 4                       *)
  REQUIRED_NBYTES, (* bytes a search needs at its position: 5               *)
  MAX_MATCH_LEN,   (* 258                                                   *)
  Byte,
  Bucket,          (* indices of the hash tables                            *)
  FirstBucket,     (* index 0                                               *)
  HashShort,       (* lz_hash of SHORT_LEN bytes                            *)
  HashLong         (* lz_hash of LONG_LEN bytes                             *)

ASSUME MatchAssumption ==
  /\ WINDOW_SIZE \in Nat \ {0}
  /\ SHORT_LEN \in Nat \ {0}
  /\ LONG_LEN \in Nat /\ SHORT_LEN <= LONG_LEN
  /\ REQUIRED_NBYTES \in Nat /\ LONG_LEN < REQUIRED_NBYTES
  /\ MAX_MATCH_LEN \in Nat /\ MAX_MATCH_LEN <= WINDOW_SIZE
  /\ FirstBucket \in Bucket
  /\ HashShort \in [[1 .. SHORT_LEN -> Byte] -> Bucket]
  /\ HashLong \in [[1 .. LONG_LEN -> Byte] -> Bucket]

VARIABLES
  data,           (* the input: everything the caller has passed so far    *)
  in_next,        (* the parser's position                                 *)
  in_base_offset, (* the position entries are relative to                  *)
  next_hashes,    (* hashes of the bytes at in_next, computed ahead        *)
  found,          (* what longest_match has found: length, offset, where   *)
  search          (* where a search or a skip is, and its arguments        *)

windowVars == <<data, in_next, in_base_offset, next_hashes, found, search>>

AtMost(a, b) == IF a <= b THEN a ELSE b
AtLeast(a, b) == IF a >= b THEN a ELSE b

INITVAL == -WINDOW_SIZE
Entry == -WINDOW_SIZE .. (WINDOW_SIZE - 1)

(* x as i16 *)
AsEntry(x) == ((x + WINDOW_SIZE) % (2 * WINDOW_SIZE)) - WINDOW_SIZE

(* Mutant: does not saturate. *)
Rebased_Unclamped(tab) == [b \in DOMAIN tab |-> tab[b] - WINDOW_SIZE]

(* matchfinder_rebase of one table. *)
Rebased(tab) == [b \in DOMAIN tab |-> AtLeast(tab[b] - WINDOW_SIZE, INITVAL)]

Remaining == Len(data) - in_next

Bytes(p, n) == [k \in 1 .. n |-> data[p + k]]

LongHashAt(p) == HashLong[Bytes(p, LONG_LEN)]
ShortHashAt(p) == HashShort[Bytes(p, SHORT_LEN)]

(* The first n bytes at p and q agree. *)
Agree(p, q, n) == \A k \in 1 .. n : data[p + k] = data[q + k]

(* lz_extend: how far they agree, up to max. *)
Extent(p, q, max) ==
  CHOOSE n \in 0 .. max :
    Agree(p, q, n) /\ (n < max => data[p + n + 1] # data[q + n + 1])

(* Before a position is looked up or inserted the window slides, once.     *)
Slides == in_next - in_base_offset >= WINDOW_SIZE
Base == IF Slides THEN in_base_offset + WINDOW_SIZE ELSE in_base_offset
Slid(tab) == IF Slides THEN Rebased(tab) ELSE tab
CurPos == in_next - Base

(* Above the cutoff: the entry is a position less than a window back.      *)
Live(node, cur_pos) == node > cur_pos - WINDOW_SIZE

(* The hashes longest_match and skip_bytes leave for the next position.    *)
NextHashes ==
  IF in_next + LONG_LEN + 1 <= Len(data)
    THEN [short |-> ShortHashAt(in_next + 1), long |-> LongHashAt(in_next + 1)]
    ELSE next_hashes

Ready == [pc |-> "ready", node |-> INITVAL, cur_pos |-> 0, max |-> 0,
          nice |-> 0, depth |-> 0, left |-> 0]

Nothing == [length |-> 0, offset |-> 0, at |-> 0]

(* A search at in_next ended with this; its position is used up.           *)
FoundThis(length, offset) ==
  found' = [length |-> length, offset |-> offset, at |-> in_next]

-------------------------------------------------------------------------------

(* Whatever was found can be copied: the offset leads to an earlier byte   *)
(* of the input less than a window back, and the bytes there are the bytes *)
(* at the position searched.  With an offset of 0 nothing was found.       *)
MatchIsReal ==
  found.offset # 0 =>
    /\ found.offset \in 1 .. found.at
    /\ found.offset < WINDOW_SIZE
    /\ found.at + found.length <= Len(data)
    /\ Agree(found.at, found.at - found.offset, found.length)

===============================================================================

----------------------------- MODULE LimitedTables -----------------------------
(***************************************************************************)
(* TurboMatchfinder and FastHtMatchfinder                                  *)
(* (src/src/matchfinder/turbo.rs, fast_ht.rs): buckets of one and of two   *)
(* positions, of which a skip updates only a few.  Both in the variables   *)
(* of HashTable; the turbo finder has no second entries.                   *)
(***************************************************************************)
EXTENDS HashTable

CONSTANT SKIP_UPDATE_LIMIT  (* a skip no longer than this updates all: 3   *)

ASSUME LimitAssumption == SKIP_UPDATE_LIMIT \in Nat \ {0, 1}

(* longest_match with one entry: read, replaced, compared. *)
TurboLongestMatch(max_len) ==
  LET h == next_hashes.long
      node == Slid(bucket0)[h]
      matches == Live(node, CurPos) /\ Agree(in_next, Base + node, LONG_LEN)
  IN  /\ search.pc = "ready"
      /\ REQUIRED_NBYTES <= max_len
      /\ bucket0' = [Slid(bucket0) EXCEPT ![h] = AsEntry(CurPos)]
      /\ in_base_offset' = Base
      /\ next_hashes' = NextHashes
      /\ IF matches THEN FoundThis(Extent(in_next, Base + node, max_len), CurPos - node)
                    ELSE FoundThis(0, 0)
      /\ in_next' = in_next + 1
      /\ UNCHANGED <<data, search, bucket1>>

(* With two entries it is the hash table's, looked at in the same order    *)
(* and on the same conditions.                                             *)
FastHtLongestMatch(max_len, nice_len) == HtLongestMatch(max_len, nice_len)

(* The skipped positions that are inserted: all, or the first, the middle  *)
(* and the last.                                                           *)
Updated(count) ==
  IF count <= SKIP_UPDATE_LIMIT THEN 0 .. (count - 1)
                                ELSE {0, count \div 2, count - 1}

(* Mutant: the last position is inserted one further on. *)
Inserted_Late(cur_pos, i) == AsEntry(cur_pos + i + 1)

(* The entry for the i-th skipped position. *)
Inserted(cur_pos, i) == AsEntry(cur_pos + i)

(* The skipped positions inserted in bucket b. *)
Hits(count, b) ==
  {i \in Updated(count) :
     b = IF i = 0 THEN next_hashes.long ELSE LongHashAt(in_next + i)}

LastOf(hits) == CHOOSE i \in hits : \A j \in hits : j <= i

(* The latest entry, and the one before it, of a bucket after insertions. *)
Latest(entry, hits, cur_pos) ==
  IF hits = {} THEN entry ELSE Inserted(cur_pos, LastOf(hits))

Before(entry0, entry1, hits, cur_pos) ==
  IF hits = {} THEN entry1 ELSE Latest(entry0, hits \ {LastOf(hits)}, cur_pos)

(* skip_bytes of either.  It slides first if its last position needs it. *)
LimitedSkip(count, twoEntries) ==
  LET base == IF HtSlides(count) THEN in_base_offset + WINDOW_SIZE ELSE in_base_offset
      tab0 == IF HtSlides(count) THEN Rebased(bucket0) ELSE bucket0
      tab1 == IF HtSlides(count) THEN Rebased(bucket1) ELSE bucket1
      cur_pos == in_next - base
  IN  /\ search.pc = "ready"
      /\ in_next' = in_next + count
      /\ IF count = 0 \/ count + REQUIRED_NBYTES > Remaining
           THEN UNCHANGED <<htVars, in_base_offset, next_hashes>>
           ELSE /\ bucket0' = [b \in Bucket |-> Latest(tab0[b], Hits(count, b), cur_pos)]
                /\ bucket1' = IF twoEntries
                                THEN [b \in Bucket |->
                                        Before(tab0[b], tab1[b], Hits(count, b), cur_pos)]
                                ELSE bucket1
                /\ in_base_offset' = base
                /\ next_hashes' = [next_hashes EXCEPT !.long = LongHashAt(in_next + count)]
      /\ found' = Nothing
      /\ UNCHANGED <<data, search>>

TurboSkip(count) == LimitedSkip(count, FALSE)
FastHtSkip(count) == LimitedSkip(count, TRUE)

===============================================================================

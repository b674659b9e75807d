------------------------------- MODULE HashTable -------------------------------
(***************************************************************************)
(* HtMatchfinder (src/src/matchfinder/ht.rs): buckets of the two latest    *)
(* positions, for the fastest level.                                       *)
(***************************************************************************)
EXTENDS MatchWindow

VARIABLES
  bucket0,  (* hash_tab[.][0]: the latest position of each bucket          *)
  bucket1   (* hash_tab[.][1]: the one before                              *)

htVars == <<bucket0, bucket1>>

HtInit ==
  /\ bucket0' = [b \in Bucket |-> INITVAL]
  /\ bucket1' = [b \in Bucket |-> INITVAL]

(* next_hash at the start of a block (compress/mod.rs) *)
HtFirstHash ==
  [next_hashes EXCEPT
     !.long = IF in_next + LONG_LEN <= Len(data) THEN LongHashAt(in_next)
                                                 ELSE FirstBucket]

(* longest_match.  The second entry counts only if it is longer, or if the *)
(* first was no match; a first match of nice_len ends the search.          *)
HtLongestMatch(max_len, nice_len) ==
  LET h == next_hashes.long
      node0 == Slid(bucket0)[h]
      node1 == Slid(bucket1)[h]
      Pos(node) == Base + node
      Matches(node) == Live(node, CurPos) /\ Agree(in_next, Pos(node), LONG_LEN)
      Length(node) == Extent(in_next, Pos(node), max_len)
      second == /\ Live(node0, CurPos) /\ Matches(node1)
                /\ Matches(node0) => /\ Length(node0) < nice_len
                                     /\ Length(node1) > Length(node0)
      best == IF second THEN node1 ELSE node0
  IN  /\ search.pc = "ready"
      /\ REQUIRED_NBYTES <= max_len
      /\ bucket0' = [Slid(bucket0) EXCEPT ![h] = AsEntry(CurPos)]
      /\ bucket1' = IF Live(node0, CurPos) THEN [Slid(bucket1) EXCEPT ![h] = node0]
                                           ELSE Slid(bucket1)
      /\ in_base_offset' = Base
      /\ next_hashes' = NextHashes
      /\ IF Matches(node0) \/ second
           THEN FoundThis(Length(best), CurPos - best)
           ELSE FoundThis(0, 0)
      /\ in_next' = in_next + 1
      /\ UNCHANGED <<data, search>>

(* Mutant: slides when the first position leaves the window, not the last. *)
HtSlides_FirstOnly(count) == in_next - in_base_offset > WINDOW_SIZE

(* skip_bytes slides at once if its last position needs it.  What was      *)
(* found is spent. *)
HtSlides(count) == in_next - in_base_offset + count - 1 >= WINDOW_SIZE

HtSkip(count) ==
  /\ search.pc = "ready"
  /\ IF count = 0 \/ count + REQUIRED_NBYTES > Remaining
       THEN /\ in_next' = in_next + count
            /\ UNCHANGED <<htVars, in_base_offset, search>>
       ELSE /\ search' = [Ready EXCEPT !.pc = "ht_skip", !.left = count]
            /\ IF HtSlides(count)
                 THEN /\ in_base_offset' = in_base_offset + WINDOW_SIZE
                      /\ bucket0' = Rebased(bucket0)
                      /\ bucket1' = Rebased(bucket1)
                 ELSE UNCHANGED <<htVars, in_base_offset>>
            /\ UNCHANGED in_next
  /\ found' = Nothing
  /\ UNCHANGED <<data, next_hashes>>

(* One turn of skip_bytes' loop. *)
HtSkipOne ==
  /\ search.pc = "ht_skip"
  /\ LET h == next_hashes.long
     IN  /\ bucket1' = [bucket1 EXCEPT ![h] = bucket0[h]]
         /\ bucket0' = [bucket0 EXCEPT ![h] = AsEntry(in_next - in_base_offset)]
  /\ in_next' = in_next + 1
  /\ next_hashes' = NextHashes
  /\ search' = IF search.left = 1 THEN Ready ELSE [search EXCEPT !.left = @ - 1]
  /\ UNCHANGED <<data, in_base_offset, found>>

===============================================================================

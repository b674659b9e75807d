------------------------------ MODULE MatchFinder ------------------------------
(***************************************************************************)
(* Either match finder under any parser: one that searches each position   *)
(* once, in order, skips over any number of bytes in between, gets its     *)
(* input in any pieces, and starts over at any time.  The greedy, lazy and *)
(* fastest parsers of compress/mod.rs, and their warm-up with a            *)
(* dictionary, are such parsers.                                           *)
(***************************************************************************)
EXTENDS HashTable, HashChains

CONSTANTS
  Texts,      (* the inputs a caller may be compressing: Seq(Byte), or any *)
              (* part of it                                                *)
  NiceLens,   (* the nice_match_length of the levels                       *)
  MaxDepth    (* bound on a search's depth                                 *)

ASSUME FinderAssumption ==
  /\ Texts \subseteq Seq(Byte)
  /\ NiceLens \subseteq Nat \ {0}

VARIABLE kind  (* "ht" or "hc": which of the two the compressor's level uses *)

finderVars == <<kind, windowVars, htVars, hcVars>>

AtRest == search.pc = "ready"

(* The tables of a finder that is not used stay as they are. *)
OnlyHt == kind = "ht" /\ UNCHANGED <<kind, hcVars>>
OnlyHc == kind = "hc" /\ UNCHANGED <<kind, htVars>>

(* More of some text, once all there is has been consumed. *)
Feed ==
  /\ AtRest
  /\ Remaining = 0
  /\ \E text \in Texts : \E n \in (Len(data) + 1) .. Len(text) :
       /\ SubSeq(text, 1, Len(data)) = data
       /\ data' = SubSeq(text, 1, n)
  /\ UNCHANGED <<kind, in_next, in_base_offset, next_hashes, found, search,
                 htVars, hcVars>>

(* The hashes a parser has when it enters a loop of its own: of this       *)
(* position, or index 0 of each table.                                     *)
FirstHashes ==
  /\ AtRest
  /\ Remaining > 0
  /\ \/ kind = "ht" /\ next_hashes' = HtFirstHash
     \/ kind = "hc" /\ next_hashes' = [short |-> FirstBucket, long |-> FirstBucket]
  /\ UNCHANGED <<kind, data, in_next, in_base_offset, found, search, htVars, hcVars>>

(* Some parsers end a match where a block has to end, before the input     *)
(* does; the fastest does not, and asks only where there is enough left.   *)
Search ==
  /\ Remaining > 0
  /\ LET all == AtMost(Remaining, MAX_MATCH_LEN)
     IN  \E nice \in NiceLens :
           \/ kind = "ht" /\ HtLongestMatch(all, AtMost(nice, all)) /\ OnlyHt
           \/ /\ kind = "hc"
              /\ \E max_len \in 1 .. all, best_len \in 0 .. (MAX_MATCH_LEN - 1),
                    depth \in 1 .. MaxDepth :
                   HcLongestMatch(best_len, max_len, AtMost(nice, max_len), depth)
              /\ OnlyHc

Follow == (HcChain \/ HcExtend) /\ OnlyHc

(* The fastest parser passes over a position without a search where too    *)
(* little is left for one.                                                 *)
PassOver ==
  /\ AtRest
  /\ kind = "ht"
  /\ Remaining \in 1 .. (REQUIRED_NBYTES - 1)
  /\ in_next' = in_next + 1
  /\ UNCHANGED <<kind, data, in_base_offset, next_hashes, found, search, htVars, hcVars>>

Skip ==
  \E count \in 1 .. AtMost(Remaining, WINDOW_SIZE) :
    \/ kind = "ht" /\ (HtSkip(count) \/ HtSkipOne) /\ OnlyHt
    \/ kind = "hc" /\ (HcSkip(count) \/ HcSkipOne) /\ OnlyHc

(* init() for a new input. *)
StartOver ==
  /\ AtRest
  /\ \E text \in Texts : \E n \in 0 .. Len(text) : data' = SubSeq(text, 1, n)
  /\ in_next' = 0
  /\ in_base_offset' = 0
  /\ found' = Nothing
  /\ \/ HtInit /\ OnlyHt
     \/ HcInit /\ OnlyHc
  /\ UNCHANGED <<next_hashes, search>>

(* A compressor just made. *)
NewFinder ==
  /\ data = <<>>
  /\ in_next = 0
  /\ in_base_offset = 0
  /\ next_hashes = [short |-> FirstBucket, long |-> FirstBucket]
  /\ found = Nothing
  /\ search = Ready
  /\ bucket0 = [b \in Bucket |-> INITVAL]
  /\ bucket1 = [b \in Bucket |-> INITVAL]
  /\ hash3_tab = [b \in Bucket |-> INITVAL]
  /\ hash4_tab = [b \in Bucket |-> INITVAL]
  /\ next_tab = [s \in 0 .. (WINDOW_SIZE - 1) |-> INITVAL]
  /\ linked = {}

Init == kind \in {"ht", "hc"} /\ NewFinder

Next == Feed \/ FirstHashes \/ Search \/ Follow \/ PassOver \/ Skip \/ StartOver

Spec == Init /\ [][Next]_finderVars

-------------------------------------------------------------------------------

(* An entry is void or the position of an input byte already consumed.     *)
Sound(node) ==
  node # INITVAL => /\ in_base_offset + node >= 0
                    /\ in_base_offset + node < in_next

(* The base is never beyond the position, so that their difference is one, *)
(* and every entry that passes for a position is one: rebasing, the wrap   *)
(* to 16 bits of a position the base has fallen behind, and the early      *)
(* slide of skip_bytes never make an entry point at a byte that is not     *)
(* there yet (ht.rs 77-84 and 363-369, hc.rs 90-99).                       *)
EntriesSound ==
  /\ search.pc # "ht_skip" => in_base_offset <= in_next
  /\ kind = "ht" => \A b \in Bucket : Sound(bucket0[b]) /\ Sound(bucket1[b])
  /\ kind = "hc" => /\ \A b \in Bucket : Sound(hash3_tab[b]) /\ Sound(hash4_tab[b])
                    /\ \A s \in linked : Sound(next_tab[s])

===============================================================================

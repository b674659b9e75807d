------------------------------ MODULE HashChains ------------------------------
(***************************************************************************)
(* HcMatchfinder (src/src/matchfinder/hc.rs): the latest position of each  *)
(* short hash, and chains of all positions in the window for the long one. *)
(* A search is one action per link it follows.                             *)
(***************************************************************************)
EXTENDS MatchWindow

VARIABLES
  hash3_tab,  (* the latest position of each short hash                    *)
  hash4_tab,  (* the latest position of each long hash: the chain's head   *)
  next_tab,   (* slot of a position -> the position before it in its chain *)
  linked      (* history: the slots written since the last init            *)

hcVars == <<hash3_tab, hash4_tab, next_tab, linked>>

Slot(node) == node % WINDOW_SIZE

(* init leaves next_tab as the previous input left it. *)
HcInit ==
  /\ hash3_tab' = [b \in Bucket |-> INITVAL]
  /\ hash4_tab' = [b \in Bucket |-> INITVAL]
  /\ linked' = {}
  /\ UNCHANGED next_tab

(* Mutant: does not bother to link to a head that is out of the window. *)
HcInsert_LinksLive(cur_pos) ==
  LET head == Slid(hash4_tab)[next_hashes.long]
      Links == Live(head, cur_pos)
  IN  /\ hash3_tab' = [Slid(hash3_tab) EXCEPT ![next_hashes.short] = AsEntry(cur_pos)]
      /\ hash4_tab' = [Slid(hash4_tab) EXCEPT ![next_hashes.long] = AsEntry(cur_pos)]
      /\ next_tab' = IF Links THEN [Slid(next_tab) EXCEPT ![Slot(cur_pos)] = head]
                              ELSE Slid(next_tab)
      /\ linked' = IF Links THEN linked \cup {Slot(cur_pos)} ELSE linked
      /\ in_base_offset' = Base

(* The position becomes the latest of its short hash and the head of its   *)
(* long hash's chain.                                                      *)
HcInsert(cur_pos) ==
  /\ hash3_tab' = [Slid(hash3_tab) EXCEPT ![next_hashes.short] = AsEntry(cur_pos)]
  /\ hash4_tab' = [Slid(hash4_tab) EXCEPT ![next_hashes.long] = AsEntry(cur_pos)]
  /\ next_tab' = [Slid(next_tab) EXCEPT
                    ![Slot(cur_pos)] = Slid(hash4_tab)[next_hashes.long]]
  /\ linked' = linked \cup {Slot(cur_pos)}
  /\ in_base_offset' = Base

(* The beginning of longest_match, up to the first link of the chain.  The *)
(* caller has a match of best_len already, or wants a longer one than that.*)
HcLongestMatch(best_len, max_len, nice_len, depth) ==
  LET node3 == Slid(hash3_tab)[next_hashes.short]
      node4 == Slid(hash4_tab)[next_hashes.long]
      Go(pc) == search' = [pc |-> pc, node |-> node4, cur_pos |-> CurPos,
                           max |-> max_len, nice |-> nice_len,
                           depth |-> depth, left |-> 0]
      short == /\ best_len < SHORT_LEN
               /\ Agree(in_next, Base + node3, SHORT_LEN)
      Stay == FoundThis(best_len, 0) /\ search' = Ready
  IN  /\ search.pc = "ready"
      /\ in_next' = in_next + 1
      /\ UNCHANGED data
      /\ IF \/ max_len < REQUIRED_NBYTES
            \/ best_len < LONG_LEN /\ ~Live(node3, CurPos)
           THEN Stay
         ELSE IF best_len < LONG_LEN
           THEN /\ IF short THEN FoundThis(SHORT_LEN, CurPos - node3)
                            ELSE FoundThis(best_len, 0)
                /\ IF Live(node4, CurPos) THEN Go("chain") ELSE search' = Ready
         ELSE IF ~Live(node4, CurPos) \/ best_len >= nice_len
           THEN Stay
           ELSE FoundThis(best_len, 0) /\ Go("extend")
      /\ HcInsert(CurPos)
      /\ next_hashes' = NextHashes

At == in_base_offset + search.cur_pos
Candidate == in_base_offset + search.node

Better(length) ==
  found' = [found EXCEPT !.length = length,
                         !.offset = search.cur_pos - search.node]

(* Mutant: follows links out of the window. *)
NextLink_Unchecked(pc, depth) ==
  LET node == next_tab[Slot(search.node)]
  IN  search' = IF node # INITVAL /\ depth > 1
                  THEN [search EXCEPT !.pc = pc, !.node = node, !.depth = depth - 1]
                  ELSE Ready

(* On to the next link, unless it is out of the window or the search has   *)
(* gone deep enough.                                                       *)
NextLink(pc, depth) ==
  LET node == next_tab[Slot(search.node)]
  IN  search' = IF Live(node, search.cur_pos) /\ depth > 1
                  THEN [search EXCEPT !.pc = pc, !.node = node, !.depth = depth - 1]
                  ELSE Ready

(* Mutant: goes on after a match of full length. *)
GoodEnough_Never(length) == FALSE

(* A match of nice_len ends the search. *)
GoodEnough(length) == length >= search.nice

(* Beyond good_match a search goes only a quarter as deep. *)
Shallower == {search.depth, AtLeast(search.depth \div 4, 1)}

(* Looking for the first match of LONG_LEN. *)
HcChain ==
  /\ search.pc = "chain"
  /\ IF Agree(At, Candidate, LONG_LEN)
       THEN LET length == Extent(At, Candidate, search.max)
            IN  /\ Better(length)
                /\ IF GoodEnough(length)
                     THEN search' = Ready
                     ELSE \E depth \in Shallower : NextLink("extend", depth)
       ELSE /\ NextLink("chain", search.depth)
            /\ UNCHANGED found
  /\ UNCHANGED <<hcVars, data, in_next, in_base_offset, next_hashes>>

(* Looking for longer ones. *)
HcExtend ==
  /\ search.pc = "extend"
  /\ LET length == Extent(At, Candidate, search.max)
     IN  IF length > found.length
           THEN /\ Better(length)
                /\ IF GoodEnough(length)
                     THEN search' = Ready
                     ELSE \E depth \in Shallower : NextLink("extend", depth)
           ELSE /\ NextLink("extend", search.depth)
                /\ UNCHANGED found
  /\ UNCHANGED <<hcVars, data, in_next, in_base_offset, next_hashes>>

(* skip_bytes, one action per byte.  What was found is spent. *)
HcSkip(count) ==
  /\ search.pc = "ready"
  /\ IF count + REQUIRED_NBYTES > Remaining
       THEN in_next' = in_next + count /\ UNCHANGED search
       ELSE search' = [Ready EXCEPT !.pc = "hc_skip", !.left = count]
              /\ UNCHANGED in_next
  /\ found' = Nothing
  /\ UNCHANGED <<hcVars, data, in_base_offset, next_hashes>>

HcSkipOne ==
  /\ search.pc = "hc_skip"
  /\ HcInsert(CurPos)
  /\ in_next' = in_next + 1
  /\ next_hashes' = NextHashes
  /\ search' = IF search.left = 1 THEN Ready ELSE [search EXCEPT !.left = @ - 1]
  /\ UNCHANGED <<data, found>>

-------------------------------------------------------------------------------

(* A link is followed only out of a slot written since init, which the     *)
(* comment in init() relies on: what an earlier input left in next_tab is  *)
(* never read as a position of this one (hc.rs 52-56).                     *)
LinksAreFresh ==
  search.pc \in {"chain", "extend"} => Slot(search.node) \in linked

(* Every candidate lies before the position searched, which has max bytes  *)
(* of input after it, and the match in hand can still be beaten: so the    *)
(* slices of the loop and the load of the four bytes that end one past the *)
(* match in hand are inside the input (hc.rs 189-201), whatever the lazy   *)
(* parsers pass as best_len.                                               *)
ReadsInside ==
  search.pc \in {"chain", "extend"} =>
    /\ Candidate \in 0 .. (At - 1)
    /\ At + search.max <= Len(data)
    /\ found.length < search.max

===============================================================================

------------------------------ MODULE BinaryTrees ------------------------------
(***************************************************************************)
(* BtMatchfinder (src/src/matchfinder/bt.rs) as the near-optimal parser    *)
(* drives it (compress/mod.rs): each bucket of the long hash is a binary   *)
(* tree of positions, ordered by the bytes that follow them.  A new        *)
(* position becomes the root; the tree it finds is taken apart, node by    *)
(* node, into what is less and what is greater.  Two actions per node:     *)
(* compare and record, and descend.                                        *)
(*                                                                         *)
(* The tables that chains have too are in the variables of HashChains.     *)
(* The raw-pointer twin of the search is the same program.                 *)
(***************************************************************************)
EXTENDS HashChains

CONSTANT DEPTH_LIMIT  (* max_search_depth *)

(* Trees are ordered by their bytes. *)
ASSUME TreeAssumption == DEPTH_LIMIT \in Nat \ {0} /\ Byte \subseteq Nat

VARIABLES
  hash3_old,  (* the second way of hash3_tab: the position before          *)
  child_tab,  (* <<slot, side>> -> the root of what is less, or greater;   *)
              (* hash4_tab has the roots, linked the slots written         *)
  walk        (* what a search knows: see AtRoot                           *)

btVars == <<hash3_old, child_tab, walk>>

Side == {"less", "greater"}
Child == (0 .. (WINDOW_SIZE - 1)) \X Side
LessThan(node) == <<Slot(node), "less">>        (* left_child_idx  *)
GreaterThan(node) == <<Slot(node), "greater">>  (* right_child_idx *)

(* nice_match: the level's; record: whether matches are wanted; len: bytes *)
(* known to agree with the next node; best_lt, best_gt: with the nearest   *)
(* node below and above; pending_lt, pending_gt: where the next of each    *)
(* kind goes.                                                              *)
AtRoot(nice_match) ==
  [nice_match |-> nice_match, record |-> FALSE, len |-> 0, best_lt |-> 0,
   best_gt |-> 0, pending_lt |-> LessThan(0), pending_gt |-> GreaterThan(0)]

(* init leaves child_tab as the previous input left it. *)
BtInit(nice_match) ==
  /\ hash3_tab' = [b \in Bucket |-> INITVAL]
  /\ hash3_old' = [b \in Bucket |-> INITVAL]
  /\ hash4_tab' = [b \in Bucket |-> INITVAL]
  /\ linked' = {}
  /\ walk' = AtRoot(nice_match)
  /\ UNCHANGED <<child_tab, next_tab>>

(* lz_extend from a length already known to agree. *)
ExtentFrom(p, q, from, max) ==
  CHOOSE n \in from .. max :
    /\ \A k \in (from + 1) .. n : data[p + k] = data[q + k]
    /\ n < max => data[p + n + 1] # data[q + n + 1]

(* The walk ends; slot was last to be written. *)
WalkOver(slot) ==
  /\ search' = Ready
  /\ walk' = AtRoot(walk.nice_match)
  /\ linked' = linked \cup {slot}

(* The beginning of advance_one_byte, up to the root of the tree; too      *)
(* close to the end of the input the position is only passed.  The driver  *)
(* slides the window at every position that is one window past the base.   *)
BtAdvance(record) ==
  LET max_len == AtMost(Remaining, MAX_MATCH_LEN)
      nice_len == AtMost(walk.nice_match, max_len)
      limit == IF record THEN max_len ELSE nice_len
      node30 == Slid(hash3_tab)[next_hashes.short]
      node31 == Slid(hash3_old)[next_hashes.short]
      node4 == Slid(hash4_tab)[next_hashes.long]
      Short(node) == Live(node, CurPos) /\ Agree(in_next, Base + node, SHORT_LEN)
      own == {LessThan(CurPos), GreaterThan(CurPos)}
      Passed == UNCHANGED <<next_hashes, linked, walk, search>> /\ FoundThis(0, 0)
  IN  /\ search.pc = "ready"
      /\ in_base_offset' = Base
      /\ in_next' = in_next + 1
      /\ UNCHANGED <<data, next_tab>>
      /\ IF max_len < REQUIRED_NBYTES
           THEN /\ hash3_tab' = Slid(hash3_tab)
                /\ hash3_old' = Slid(hash3_old)
                /\ hash4_tab' = Slid(hash4_tab)
                /\ child_tab' = Slid(child_tab)
                /\ Passed
           ELSE /\ hash3_tab' = [Slid(hash3_tab) EXCEPT ![next_hashes.short] = CurPos]
                /\ hash3_old' = [Slid(hash3_old) EXCEPT ![next_hashes.short] = node30]
                /\ hash4_tab' = [Slid(hash4_tab) EXCEPT ![next_hashes.long] = CurPos]
                /\ next_hashes' = NextHashes
                /\ IF record /\ Short(node30)
                     THEN FoundThis(SHORT_LEN, CurPos - node30)
                   ELSE IF record /\ Live(node30, CurPos) /\ Short(node31)
                     THEN FoundThis(SHORT_LEN, CurPos - node31)
                   ELSE FoundThis(0, 0)
                /\ IF Live(node4, CurPos)
                     THEN /\ search' = [pc |-> "tree", node |-> node4,
                                        cur_pos |-> CurPos, max |-> limit,
                                        nice |-> nice_len,
                                        depth |-> DEPTH_LIMIT, left |-> 0]
                          /\ walk' = [AtRoot(walk.nice_match) EXCEPT
                                        !.record = record,
                                        !.pending_lt = LessThan(CurPos),
                                        !.pending_gt = GreaterThan(CurPos)]
                          /\ child_tab' = Slid(child_tab)
                          /\ UNCHANGED linked
                     ELSE /\ child_tab' = [c \in Child |-> IF c \in own THEN INITVAL
                                                          ELSE Slid(child_tab)[c]]
                          /\ WalkOver(Slot(CurPos))

Here == in_base_offset + search.cur_pos
Node == in_base_offset + search.node

Agreeing == data[Node + walk.len + 1] = data[Here + walk.len + 1]

(* How far the node agrees: what is known, and what follows it. *)
TreeExtent == ExtentFrom(Here, Node, walk.len + 1, search.max)

(* The new root takes over the children of a node that agrees with it for  *)
(* nice_len, and the node is out of the tree.                              *)
TakesPlace ==
  child_tab' = [child_tab EXCEPT
                  ![walk.pending_lt] = child_tab[LessThan(search.node)],
                  ![walk.pending_gt] = child_tab[GreaterThan(search.node)]]

(* Compare with the node, record it if it is longer than all before, and   *)
(* stop at a match of nice_len.                                            *)
BtCompare ==
  /\ search.pc = "tree"
  /\ LET length == IF Agreeing THEN TreeExtent ELSE walk.len
         longer == Agreeing /\ (walk.record =>
                                  length > AtLeast(found.length, SHORT_LEN))
     IN  /\ found' = IF longer /\ walk.record
                       THEN [found EXCEPT !.length = length,
                                          !.offset = search.cur_pos - search.node]
                       ELSE found
         /\ IF longer /\ length >= search.nice
              THEN TakesPlace /\ WalkOver(Slot(search.cur_pos))
              ELSE /\ search' = [search EXCEPT !.pc = "branch"]
                   /\ walk' = [walk EXCEPT !.len = length]
                   /\ UNCHANGED <<child_tab, linked>>
  /\ UNCHANGED <<data, in_next, in_base_offset, next_hashes,
                 hash3_tab, hash3_old, hash4_tab, next_tab>>

(* Mutant: what agrees with the last node agrees with the next. *)
Known_LastOnly(len, other) == len

(* What is known to agree with a node between the nearest below and above. *)
Known(len, other) == AtMost(len, other)

(* The node, with all on its far side, goes where the last of its kind     *)
(* left a place; its near side is next.                                    *)
BtDescend ==
  LET less == data[Node + walk.len + 1] < data[Here + walk.len + 1]
      pending == IF less THEN walk.pending_lt ELSE walk.pending_gt
      near == IF less THEN GreaterThan(search.node) ELSE LessThan(search.node)
      tab == [child_tab EXCEPT ![pending] = search.node]
      next == tab[near]
      lt == IF less THEN near ELSE walk.pending_lt
      gt == IF less THEN walk.pending_gt ELSE near
  IN  /\ search.pc = "branch"
      /\ IF ~Live(next, search.cur_pos) \/ search.depth = 1
           THEN /\ child_tab' = [tab EXCEPT ![lt] = INITVAL, ![gt] = INITVAL]
                /\ WalkOver(Slot(search.cur_pos))
           ELSE /\ child_tab' = tab
                /\ search' = [search EXCEPT !.pc = "tree", !.node = next,
                                            !.depth = @ - 1]
                /\ walk' = [walk EXCEPT
                              !.pending_lt = lt, !.pending_gt = gt,
                              !.best_lt = IF less THEN walk.len ELSE @,
                              !.best_gt = IF less THEN @ ELSE walk.len,
                              !.len = Known(walk.len, IF less THEN walk.best_gt
                                                              ELSE walk.best_lt)]
                /\ UNCHANGED linked
  /\ UNCHANGED <<data, in_next, in_base_offset, next_hashes, found,
                 hash3_tab, hash3_old, hash4_tab, next_tab>>

-------------------------------------------------------------------------------

(* A walk visits only nodes whose children were written since init, which  *)
(* resets the hash tables and not the children (bt.rs 113-118); and it     *)
(* never writes to the children of such a node from before it.             *)
NodesArePlanted ==
  search.pc \in {"tree", "branch"} => Slot(search.node) \in linked

(* Every byte compared is inside the input: the node lies before the       *)
(* position, max bytes follow both, and fewer than max are known to agree  *)
(* (bt.rs 355-363; the raw twin has no check at all).                      *)
ComparesInside ==
  search.pc \in {"tree", "branch"} =>
    /\ Node \in 0 .. (Here - 1)
    /\ Here + search.max <= Len(data)
    /\ walk.len < search.max

(* What a walk takes to agree with its next node does agree, though it     *)
(* was never compared with it: the trees stay ordered while positions are  *)
(* inserted and skipped, replaced, cut off and slid out of the window,     *)
(* and compared less far near the end of the input (bt.rs 365-412).        *)
PrefixIsKnown ==
  search.pc \in {"tree", "branch"} => Agree(Here, Node, walk.len)

===============================================================================

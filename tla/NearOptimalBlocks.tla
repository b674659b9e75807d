-------------------------- MODULE NearOptimalBlocks --------------------------
(* compress_near_optimal_inner of compress/mod.rs: the parser of levels 10 to *)
(* 12 and of the upper png() rungs.  It caches every match of a block, ends   *)
(* the block where the observations change, rewinds the cache to the last     *)
(* check that saw no change, and lets the optimizer write what is before it.  *)
(*                                                                            *)
(* The binary tree is external here (BinaryTrees, OneShotFinders): it returns *)
(* matches of increasing length.  Whether the observations changed is chosen; *)
(* how many there are is kept.  One pass of the optimizer is run, over the    *)
(* nodes the previous block left behind.                                      *)
EXTENDS Integers, Sequences, FiniteSets
LOCAL INSTANCE HuffmanCode     \* Only, SumIn

CONSTANTS
  DEFLATE_MIN_MATCH_LEN,
  DEFLATE_MAX_MATCH_LEN,
  Jobs,                  \* calls: input, chunk_start, force_nonfinal, blocks, depth, nice
  JobCosts,              \* the cost model
  MinLens,               \* values of calculate_min_match_len
  SOFT_MAX_BLOCK_LENGTH,
  MIN_BLOCK_LENGTH,
  MATCH_CACHE_LENGTH,
  REQUIRED_NBYTES,       \* bytes the matchfinder needs (BT_MATCHFINDER_REQUIRED_NBYTES)
  BLOCK_CHECK            \* observations between checks (NUM_OBSERVATIONS_PER_BLOCK_CHECK)

ASSUME NearOptimalAssumption ==
  /\ DEFLATE_MIN_MATCH_LEN \in Nat /\ DEFLATE_MIN_MATCH_LEN >= 2
  /\ DEFLATE_MAX_MATCH_LEN \in Nat /\ DEFLATE_MAX_MATCH_LEN >= DEFLATE_MIN_MATCH_LEN
  /\ MIN_BLOCK_LENGTH - 1 > DEFLATE_MAX_MATCH_LEN + 1
  /\ SOFT_MAX_BLOCK_LENGTH >= MIN_BLOCK_LENGTH
  /\ BLOCK_CHECK >= 1

------------------------------------------------------------------------------
(* find_min_cost_path of compress/near_optimal.rs: the cheapest way to write  *)
(* a block as literals and cached matches, found from its end backwards.      *)
(*                                                                            *)
(* The match cache holds, for each position of the block in order, the        *)
(* matches found there, their lengths increasing, and after them a sentinel:  *)
(* how many they are and the literal byte.  Offset slots are left to the cost *)
(* model, which prices offsets.                                               *)

LzMatch(length, offset) == [length |-> length, offset |-> offset]

(* Dearer than any path: 0x80000000 in the code *)
NoWay == 100000

DP_AHEAD == DEFLATE_MAX_MATCH_LEN + 1

(* Mutant: the nodes past the end keep what the last block left *)
ForceEnd_Stale(nodes, block_length) == nodes

(* Nothing leaves the block: the nodes a match can reach past its end cost *)
(* more than any path.                                                     *)
ForceEnd(nodes, block_length) ==
  LET sentinel_end == block_length + DEFLATE_MAX_MATCH_LEN
  IN  [i \in DOMAIN nodes |->
         IF block_length <= i /\ i <= sentinel_end THEN [nodes[i] EXCEPT !.cost_to_end = NoWay]
                                                   ELSE nodes[i]]

(* The items a position offers: its literal, and every length the matches   *)
(* reach, at the offset of the first match that reaches it.                 *)
Offered(matches, literal) ==
  {LzMatch(1, literal)} \cup
  {LzMatch(l, matches[CHOOSE k \in DOMAIN matches :
                        /\ matches[k].length >= l
                        /\ \A j \in 1 .. k - 1 : matches[j].length < l].offset) :
     l \in {n \in DEFLATE_MIN_MATCH_LEN .. DEFLATE_MAX_MATCH_LEN :
              \E k \in DOMAIN matches : matches[k].length >= n}}

ItemCost(costs, item) ==
  IF item.length = 1 THEN costs.literal[item.offset]
                     ELSE costs.offset[item.offset] + costs.length[item.length]

(* Mutant: the offset is not paid for *)
BestNode_FreeOffset(nodes, at, costs, offered) ==
  LET cost(item) == (IF item.length = 1 THEN costs.literal[item.offset]
                     ELSE costs.length[item.length]) + nodes[at + item.length].cost_to_end
      best == CHOOSE item \in offered : \A other \in offered : cost(item) <= cost(other)
  IN  [cost_to_end |-> cost(best), item |-> best]

(* The cheapest item, the shortest of those: a later one replaces it only   *)
(* when it is strictly cheaper.                                             *)
BestNode(nodes, at, costs, offered) ==
  LET cost(item) == ItemCost(costs, item) + nodes[at + item.length].cost_to_end
      best == CHOOSE item \in offered :
                \A other \in offered :
                  \/ cost(item) < cost(other)
                  \/ cost(item) = cost(other) /\ item.length <= other.length
  IN  [cost_to_end |-> cost(best), item |-> best]

(* One position back: in the block, and over its entries in the cache *)
StepBack(s, costs, cache) ==
  LET sentinel == cache[s.cache_idx]
      matches  == SubSeq(cache, s.cache_idx - sentinel.length, s.cache_idx - 1)
      at       == s.at - 1
  IN  [at        |-> at,
       cache_idx |-> s.cache_idx - 1 - sentinel.length,
       nodes     |-> [s.nodes EXCEPT ![at] =
                        BestNode(s.nodes, at, costs, Offered(matches, sentinel.offset))]]

RECURSIVE WalkBack(_, _, _)
WalkBack(s, costs, cache) ==
  IF s.at = 0 THEN s.nodes
  ELSE Only({WalkBack(t, costs, cache) : t \in {StepBack(s, costs, cache)}})

find_min_cost_path(nodes, costs, block_length, cache, cache_end) ==
  WalkBack([at |-> block_length, cache_idx |-> cache_end,
            nodes |-> [nodes EXCEPT ![block_length].cost_to_end = 0]], costs, cache)

(* The items tally_item_list and the block writer meet on the path *)
RECURSIVE ItemList(_, _, _)
ItemList(nodes, at, block_length) ==
  IF at >= block_length THEN <<>>
  ELSE <<nodes[at].item>> \o ItemList(nodes, at + nodes[at].item.length, block_length)

------------------------------------------------------------------------------
(* The parser. *)

VARIABLES
  job,               \* the call being made
  phase,             \* "block", "positions", "flush", "returned"
  in_next, in_block_begin, in_max_block_end, segment_end,
  cache,             \* match_cache[..cache_idx]
  nodes,             \* optimum_nodes
  prev_end_block_check, change_detected, next_observation, min_len,
  num_new, num_old,  \* observations since the last merge, and merged
  only_literals,     \* prev_block_used_only_literals
  own,               \* what of the carried state this call has set itself
  offered,           \* ghost: the matches cached for each position from in_block_begin on
  written,           \* ghost: how far the flushed blocks reach
  last,              \* ghost: the block flushed last, until the next is started
  outcome            \* how the call ended

jobVars == <<job, phase, in_next, in_block_begin, in_max_block_end, segment_end, cache, nodes,
             prev_end_block_check, change_detected, next_observation, min_len, num_new, num_old,
             only_literals, own, offered, written, last, outcome>>

NoCheck == -1

MAX_MATCHES_PER_POS == DEFLATE_MAX_MATCH_LEN - DEFLATE_MIN_MATCH_LEN + 1

MAX_BLOCK_LENGTH ==
  CHOOSE m \in {SOFT_MAX_BLOCK_LENGTH + MIN_BLOCK_LENGTH - 1,
                SOFT_MAX_BLOCK_LENGTH + 1 + DEFLATE_MAX_MATCH_LEN} :
    /\ m >= SOFT_MAX_BLOCK_LENGTH + MIN_BLOCK_LENGTH - 1
    /\ m >= SOFT_MAX_BLOCK_LENGTH + 1 + DEFLATE_MAX_MATCH_LEN

MATCH_CACHE_ALLOC_SIZE ==
  MATCH_CACHE_LENGTH + MAX_MATCHES_PER_POS + DEFLATE_MAX_MATCH_LEN - 1

(* Mutant: no node for the end of the block *)
OPTIMUM_NODES_SIZE_NoEnd == MAX_BLOCK_LENGTH + DP_AHEAD

OPTIMUM_NODES_SIZE == MAX_BLOCK_LENGTH + 1 + DP_AHEAD

in_end == Len(job.input)
ByteAt(p) == job.input[p + 1]

-----------------------------------------------------------------------------
(* The matchfinder *)

MatchLenAt(p, off, limit) ==
  CHOOSE n \in 0 .. limit :
    /\ \A k \in 0 .. n - 1 : ByteAt(p + k) = ByteAt(p + k - off)
    /\ n < limit => ByteAt(p + n) # ByteAt(p + n - off)

NiceLen(p) ==
  CHOOSE n \in {job.nice, in_end - p} : n <= job.nice /\ n <= in_end - p

MaxLen(p) ==
  CHOOSE n \in {DEFLATE_MAX_MATCH_LEN, in_end - p} : n <= DEFLATE_MAX_MATCH_LEN /\ n <= in_end - p

(* get_matches: the nearest offsets first, each match longer than those     *)
(* before it, at most depth offsets.                                        *)
RECURSIVE MatchesFrom(_, _, _)
MatchesFrom(p, off, best) ==
  IF off > p \/ off > job.depth \/ (best # 0 /\ best >= NiceLen(p)) THEN <<>>
  ELSE LET n == MatchLenAt(p, off, MaxLen(p))
       IN  IF n > best /\ n >= DEFLATE_MIN_MATCH_LEN
           THEN <<LzMatch(n, off)>> \o MatchesFrom(p, off + 1, n)
           ELSE MatchesFrom(p, off + 1, best)

get_matches(p) == IF MaxLen(p) >= REQUIRED_NBYTES THEN MatchesFrom(p, 1, 0) ELSE <<>>

-----------------------------------------------------------------------------
(* Block ends *)

choose_max_block_end(begin) ==
  IF in_end - begin < SOFT_MAX_BLOCK_LENGTH + MIN_BLOCK_LENGTH
  THEN in_end ELSE begin + SOFT_MAX_BLOCK_LENGTH

(* input_block_end: any end its own observations may choose *)
InputBlockEnds(begin) ==
  LET max_end == IF in_end - begin <= SOFT_MAX_BLOCK_LENGTH + MIN_BLOCK_LENGTH
                 THEN in_end ELSE begin + SOFT_MAX_BLOCK_LENGTH
  IN  {max_end} \cup {e \in begin + MIN_BLOCK_LENGTH .. max_end : in_end - e >= MIN_BLOCK_LENGTH}

ready_to_check(observed, begin, next) ==
  /\ observed >= BLOCK_CHECK
  /\ next - begin >= MIN_BLOCK_LENGTH
  /\ in_end - next >= MIN_BLOCK_LENGTH

(* What do_end_block_check may say: without older observations only no *)
EndBlockAnswers(older) == IF older > 0 THEN BOOLEAN ELSE {FALSE}

-----------------------------------------------------------------------------
(* The parser *)

NearOptimalInit ==
  /\ job \in Jobs
  /\ phase = "block"
  /\ in_next = job.chunk_start /\ in_block_begin = job.chunk_start
  /\ in_max_block_end = 0 /\ segment_end = 0
  /\ cache = <<>>
  /\ nodes = [i \in 0 .. OPTIMUM_NODES_SIZE - 1 |->
                [cost_to_end |-> 0, item |-> LzMatch(1, job.input[1])]]
  /\ prev_end_block_check = NoCheck /\ change_detected = FALSE
  /\ next_observation = 0 /\ min_len = 0
  /\ num_new = 0 /\ num_old = 0
  /\ only_literals = FALSE
  /\ own = {}
  /\ offered = <<>>
  /\ written = job.chunk_start
  /\ last = <<>>
  /\ outcome = "none"

(* No call: for a model in which something else runs *)
NearOptimalOff ==
  /\ job = "none" /\ phase = "off" /\ outcome = "none"
  /\ in_next = 0 /\ in_block_begin = 0 /\ in_max_block_end = 0 /\ segment_end = 0
  /\ cache = <<>> /\ nodes = <<>> /\ offered = <<>> /\ last = <<>>
  /\ prev_end_block_check = NoCheck /\ change_detected = FALSE
  /\ next_observation = 0 /\ min_len = 0 /\ num_new = 0 /\ num_old = 0
  /\ only_literals = FALSE /\ own = {} /\ written = 0

(* Starting a new DEFLATE block *)
StartBlock ==
  /\ phase = "block"
  /\ \/ /\ job.blocks = "own"
        /\ in_max_block_end' = choose_max_block_end(in_block_begin)
        /\ UNCHANGED segment_end
     \/ /\ job.blocks # "own"
        /\ IF in_block_begin >= segment_end
           THEN segment_end' \in InputBlockEnds(in_block_begin)
           ELSE UNCHANGED segment_end
        /\ in_max_block_end' = segment_end'
  /\ prev_end_block_check' = NoCheck
  /\ change_detected' = FALSE
  /\ next_observation' = in_next
  /\ min_len' \in IF only_literals THEN {DEFLATE_MAX_MATCH_LEN + 1} ELSE MinLens
  /\ phase' = "positions"
  /\ last' = <<>>
  /\ UNCHANGED <<job, in_next, in_block_begin, cache, nodes, num_new, num_old, only_literals,
                 own, offered, written, outcome>>

(* The bytes of a nice match have no matches of their own in the cache *)
Skipped(matches, best_len) ==
  IF best_len < DEFLATE_MIN_MATCH_LEN \/ best_len < NiceLen(in_next) THEN 0
  ELSE IF job.blocks = "own" \/ best_len - 1 <= in_max_block_end - (in_next + 1)
       THEN best_len - 1 ELSE in_max_block_end - (in_next + 1)

Sentinels(from, n) == [k \in 1 .. n |-> LzMatch(0, ByteAt(from + k - 1))]

(* The cache after a position and the bytes skipped after it *)
Cached(matches, skip) ==
  cache \o matches \o <<LzMatch(Len(matches), ByteAt(in_next))>> \o Sentinels(in_next + 1, skip)

(* After a position: go on, end the block here, or end it at a checkpoint *)
DecideBlockEnd(next, entries, observed) ==
  IF next >= in_max_block_end \/ entries >= MATCH_CACHE_LENGTH
  THEN /\ phase' = "flush"
       /\ num_new' = observed
       /\ UNCHANGED <<num_old, prev_end_block_check, change_detected>>
  ELSE IF job.blocks = "segments" \/ ~ready_to_check(observed, in_block_begin, next)
  THEN /\ num_new' = observed
       /\ UNCHANGED <<phase, num_old, prev_end_block_check, change_detected>>
  ELSE \E change \in EndBlockAnswers(num_old) :
         /\ change_detected' = change
         /\ IF change
            THEN /\ phase' = "flush"
                 /\ num_new' = observed
                 /\ UNCHANGED <<num_old, prev_end_block_check>>
            ELSE /\ num_old' = num_old + observed
                 /\ num_new' = 0
                 /\ prev_end_block_check' = next
                 /\ UNCHANGED phase

(* Cache the matches at in_next, and skip what a nice match covers *)
Position ==
  /\ phase = "positions"
  /\ LET matches  == get_matches(in_next)
         best_len == IF matches = <<>> THEN 0 ELSE matches[Len(matches)].length
         skip     == Skipped(matches, best_len)
         next     == in_next + 1 + skip
         observe  == in_next >= next_observation
         matched  == best_len >= min_len
     IN  /\ next_observation' = IF observe THEN in_next + (IF matched THEN best_len ELSE 1)
                                           ELSE next_observation
         /\ cache' = Cached(matches, skip)
         /\ offered' = offered \o <<matches>> \o [k \in 1 .. skip |-> <<>>]
         /\ in_next' = next
         /\ DecideBlockEnd(next, Len(cache'), num_new + (IF observe THEN 1 ELSE 0))
  /\ UNCHANGED <<job, in_block_begin, in_max_block_end, segment_end, nodes, min_len,
                 only_literals, own, written, last, outcome>>

(* optimize_and_flush_block, in one pass: the cost model, then the path, and *)
(* the path or only literals written.                                        *)
OptimizeAndFlush(block_length, cache_end, is_final) ==
  LET is_first == in_block_begin = job.chunk_start
      path     == find_min_cost_path(ForceEnd(nodes, block_length), JobCosts, block_length,
                                     cache, cache_end)
  IN  /\ nodes' = path
      /\ own' = own \cup {"costs", "prev"}
      /\ only_literals' \in BOOLEAN
      /\ last' = [from |-> written, begin |-> in_block_begin, length |-> block_length,
                  final |-> is_final, literals |-> only_literals',
                  items |-> ItemList(path, 0, block_length),
                  costs |-> [i \in 0 .. block_length |-> path[i].cost_to_end],
                  offered |-> SubSeq(offered, 1, block_length),
                  past |-> ~is_first /\ ~({"costs", "prev"} \subseteq own)]
      /\ written' = written + block_length
      /\ offered' = SubSeq(offered, block_length + 1, Len(offered))

(* The loop ends at the end of the input, or when the output is full *)
NextBlock ==
  \/ phase' = (IF in_next >= in_end THEN "returned" ELSE "block")
     /\ outcome' = IF in_next >= in_end THEN "done" ELSE outcome
  \/ phase' = "returned" /\ outcome' = "overflow"

RECURSIVE RewindCache(_, _)
RewindCache(cache_idx, count) ==
  IF count = 0 THEN cache_idx
  ELSE RewindCache(cache_idx - 1 - cache[cache_idx].length, count - 1)

(* Mutant: the merged observations go with the rewound chunk *)
ClearOldStats_Kept == UNCHANGED <<num_old, num_new>>

(* clear_old_stats *)
ClearOldStats == num_old' = 0 /\ UNCHANGED num_new

(* A change was seen: the block ends at the check before it, and the cache *)
(* from there on belongs to the next block.                                *)
FlushToCheckpoint ==
  /\ phase = "flush" /\ change_detected /\ prev_end_block_check # NoCheck
  /\ LET in_block_end == prev_end_block_check
         kept == RewindCache(Len(cache), in_next - in_block_end)
     IN  /\ OptimizeAndFlush(in_block_end - in_block_begin, kept, FALSE)
         /\ cache' = SubSeq(cache, kept + 1, Len(cache))
         /\ in_block_begin' = in_block_end
  /\ ClearOldStats
  /\ NextBlock
  /\ UNCHANGED <<job, in_next, in_max_block_end, segment_end, prev_end_block_check,
                 change_detected, next_observation, min_len>>

(* The block ends where the parser stands *)
FlushHere ==
  /\ phase = "flush" /\ ~(change_detected /\ prev_end_block_check # NoCheck)
  /\ OptimizeAndFlush(in_next - in_block_begin, Len(cache),
                      ~job.force_nonfinal /\ in_next = in_end)
  /\ cache' = <<>>
  /\ in_block_begin' = in_next
  /\ num_new' = 0 /\ num_old' = 0
  /\ NextBlock
  /\ UNCHANGED <<job, in_next, in_max_block_end, segment_end, prev_end_block_check,
                 change_detected, next_observation, min_len>>

(* The caller's stop token is asked before a block and every so many positions *)
Stop ==
  /\ phase \in {"block", "positions"}
  /\ phase' = "returned" /\ outcome' = "stopped"
  /\ UNCHANGED <<job, in_next, in_block_begin, in_max_block_end, segment_end, cache, nodes,
                 prev_end_block_check, change_detected, next_observation, min_len, num_new,
                 num_old, only_literals, own, offered, written, last>>

NearOptimalNext == StartBlock \/ Position \/ FlushToCheckpoint \/ FlushHere \/ Stop

-----------------------------------------------------------------------------

ItemsLength(items) == SumIn([k \in DOMAIN items |-> items[k].length], 1, Len(items))

ItemBegin(items, k) == SumIn([j \in DOMAIN items |-> items[j].length], 1, k - 1)

(* The item at p gives the bytes of the input *)
Reproduces(item, p) ==
  IF item.length = 1 THEN item.offset = ByteAt(p)
  ELSE /\ item.offset <= p
       /\ p + item.length <= in_end
       /\ \A k \in 0 .. item.length - 1 : ByteAt(p + k) = ByteAt(p + k - item.offset)

(* The blocks join without a gap, each path fills its block exactly with      *)
(* items that give its bytes, after any number of rewinds of the cache; only  *)
(* a block that ends the input is final, and it is unless the caller forces   *)
(* it not to be.                                                              *)
BlocksRebuildInput ==
  /\ last # <<>> =>
       /\ last.begin = last.from
       /\ ItemsLength(last.items) = last.length
       /\ \A k \in DOMAIN last.items :
            Reproduces(last.items[k], last.begin + ItemBegin(last.items, k))
       /\ last.final <=> ~job.force_nonfinal /\ last.begin + last.length = in_end
  /\ outcome = "done" => written = in_end

(* No other way to write the block with the matches found in it is cheaper:   *)
(* the costs to the end bound every item from below, and the path meets them. *)
(* The nodes left by the block before, and the matches that reach past the    *)
(* end of this one, change nothing.                                           *)
PathIsCheapest ==
  last # <<>> =>
    /\ last.costs[last.length] = 0
    /\ \A p \in 0 .. last.length - 1 :
         \A item \in Offered(last.offered[p + 1], ByteAt(last.begin + p)) :
           p + item.length <= last.length =>
             last.costs[p] <= ItemCost(JobCosts, item) + last.costs[p + item.length]
    /\ last.costs[0] = SumIn([k \in DOMAIN last.items |-> ItemCost(JobCosts, last.items[k])],
                             1, Len(last.items))

(* The cache is never past its allocation, and the nodes hold the window the  *)
(* path search views at the last position of the longest block, sentinels     *)
(* included.                                                                  *)
TablesHoldBlock ==
  /\ Len(cache) <= MATCH_CACHE_ALLOC_SIZE
  /\ phase = "positions" => Len(cache) + MAX_MATCHES_PER_POS < MATCH_CACHE_ALLOC_SIZE
  /\ phase = "flush" => in_next - in_block_begin + DEFLATE_MAX_MATCH_LEN < OPTIMUM_NODES_SIZE

(* A change is only acted on with a check before it to rewind to, so every    *)
(* block but the last and those the cache or a segment end cut off has        *)
(* MIN_BLOCK_LENGTH bytes and leaves as many; and no block is parsed with     *)
(* costs or observations of an earlier call.                                  *)
SplitsAreSound ==
  /\ change_detected /\ phase = "flush" =>
       /\ prev_end_block_check # NoCheck
       /\ prev_end_block_check - in_block_begin >= MIN_BLOCK_LENGTH
       /\ in_end - prev_end_block_check >= MIN_BLOCK_LENGTH
       /\ in_next < in_max_block_end
  /\ last # <<>> => ~last.past

(* Where blocks end, the tables are large enough and the split is one *)
BlocksAreWellCut == TablesHoldBlock /\ SplitsAreSound

=============================================================================

--------------------------- MODULE BlockOptimizer ---------------------------
(* optimize_and_flush_block of compress/near_optimal.rs: passes of the path   *)
(* search under cost models made from the codes of the pass before, until a   *)
(* pass brings too little, then the best of what was tried is written.        *)
(*                                                                            *)
(* A cost model is a number, and so is the path found under it: truth[m] is   *)
(* the true size of the block on the path of model m, codes included, chosen  *)
(* when the model is made.  What find_min_cost_path finds is deterministic,   *)
(* so a model that is run again gives the same path and the same size.        *)
EXTENDS Integers, Sequences, FiniteSets, TLAPS

CONSTANTS
  Efforts,       \* settings: passes, diversify, milestones, try_static, guarded
  Sizes,         \* sizes a block may have
  Improvements,  \* values of min_improvement_to_continue
  NonfinalBits   \* values of min_bits_to_use_nonfinal_path

VARIABLES
  setting,       \* the effort's settings, with min_improvement and min_nonfinal
  step,          \* "start", "pass", "rle", "choose", "flushed"
  truth,         \* ghost: the size under each model made so far
  tried,         \* ghost: the models run
  costs,         \* ns.costs
  costs_saved,   \* ns.costs_saved
  path,          \* whose path the optimum nodes hold
  coded,         \* whose frequencies and codes are in freqs and codes
  only_lits, static_cost, best,
  passes_left, pass_number, stalls, attempts, checkpoint,
  flushed        \* what was written: its items, its codes, its size

optVars == <<setting, step, truth, tried, costs, costs_saved, path, coded, only_lits,
             static_cost, best, passes_left, pass_number, stalls, attempts, checkpoint, flushed>>

Huge         == 1000    \* u32::MAX
Nothing      == -2      \* no path, no checkpoint
OnlyLiterals == -1      \* the block as literals only
StaticPath   == 0       \* the path found under the static code's costs

(* No block is as large as the number that stands for no size yet.            *)
ASSUME OptimizerAssumption ==
  /\ \A n \in Improvements \cup NonfinalBits : n \in Nat /\ n >= 1
  /\ \A size \in Sizes : size \in Nat /\ size < Huge

SmallestOf(S) == CHOOSE s \in S : \A t \in S : s <= t

(* A model not seen before becomes the current one *)
NewCosts ==
  /\ costs' = Len(truth) + 1
  /\ \E size \in Sizes : truth' = Append(truth, size)

OptimizerInit ==
  /\ \E e \in Efforts, i \in Improvements, b \in NonfinalBits :
       setting = [effort |-> e, min_improvement |-> i, min_nonfinal |-> b]
  /\ step = "start"
  /\ truth = <<>> /\ tried = {} /\ costs = Nothing /\ costs_saved = Nothing
  /\ path = Nothing /\ coded = Nothing
  /\ only_lits = Huge /\ static_cost = Huge /\ best = Huge
  /\ passes_left = 0 /\ pass_number = 0 /\ stalls = 0 /\ attempts = 0 /\ checkpoint = Nothing
  /\ flushed = <<>>

(* No block is optimized: for a model in which something else runs *)
OptimizerOff ==
  /\ setting = "none" /\ step = "off"
  /\ truth = <<>> /\ tried = {} /\ costs = Nothing /\ costs_saved = Nothing
  /\ path = Nothing /\ coded = Nothing
  /\ only_lits = Huge /\ static_cost = Huge /\ best = Huge
  /\ passes_left = 0 /\ pass_number = 0 /\ stalls = 0 /\ attempts = 0 /\ checkpoint = Nothing
  /\ flushed = <<>>

(* The block as literals, a small block on the static code's path, and the *)
(* initial costs                                                           *)
Start ==
  /\ step = "start"
  /\ only_lits' \in Sizes
  /\ IF setting.effort.try_static
     THEN static_cost' \in Sizes /\ path' = StaticPath /\ coded' = StaticPath
     ELSE UNCHANGED <<static_cost, path>> /\ coded' = OnlyLiterals
  /\ NewCosts
  /\ passes_left' = setting.effort.passes
  /\ step' = "pass"
  /\ UNCHANGED <<setting, tried, costs_saved, best, pass_number, stalls, attempts, checkpoint,
                 flushed>>

FindPath(model) == path' = model /\ coded' = model /\ tried' = tried \cup {model}

EndSearch == step' = IF setting.effort.milestones /\ pass_number' > 4 THEN "rle" ELSE "choose"

(* Mutant: the codes' costs are what is saved *)
SaveBest_AfterUpdate ==
  /\ best' = truth[costs]
  /\ NewCosts
  /\ costs_saved' = costs'

(* The pass was better: its costs are saved, and the next pass's made from *)
(* its codes, blended or smoothed.                                         *)
SaveBest ==
  /\ best' = truth[costs]
  /\ costs_saved' = costs
  /\ NewCosts

(* Mutant: a first pass without improvement already counts as stuck *)
StallsToDiversify_One == 1

StallsToDiversify == 2

(* Random costs from the saved ones, at most three times for a block *)
Diversify ==
  /\ attempts' = attempts + 1
  /\ checkpoint' = IF checkpoint = Nothing /\ pass_number' >= 2 THEN costs_saved ELSE checkpoint
  /\ NewCosts
  /\ stalls' = 0
  /\ passes_left' = passes_left - 1
  /\ IF passes_left' = 0 THEN EndSearch ELSE UNCHANGED step
  /\ FindPath(costs)
  /\ UNCHANGED <<best, costs_saved>>

(* The search ends; after three diversifications from the checkpoint's costs *)
GiveUp ==
  /\ stalls' = stalls + 1
  /\ IF checkpoint # Nothing /\ attempts >= 3
     THEN /\ costs' = checkpoint
          /\ path' = checkpoint /\ coded' = checkpoint /\ tried' = tried \cup {costs, checkpoint}
          /\ IF truth[checkpoint] < best
             THEN best' = truth[checkpoint] /\ costs_saved' = checkpoint
             ELSE UNCHANGED <<best, costs_saved>>
     ELSE FindPath(costs) /\ UNCHANGED <<costs, best, costs_saved>>
  /\ EndSearch
  /\ UNCHANGED <<truth, attempts, checkpoint, passes_left>>

(* One round of the optimization loop *)
Pass ==
  /\ step = "pass"
  /\ pass_number' = pass_number + 1
  /\ IF truth[costs] + setting.min_improvement > best
     THEN IF /\ setting.effort.diversify
             /\ stalls + 1 >= StallsToDiversify
             /\ attempts < 3
          THEN Diversify ELSE GiveUp
     ELSE /\ FindPath(costs)
          /\ SaveBest
          /\ stalls' = 0
          /\ passes_left' = passes_left - 1
          /\ IF passes_left' = 0 THEN EndSearch ELSE UNCHANGED step
          /\ UNCHANGED <<attempts, checkpoint>>
  /\ UNCHANGED <<setting, only_lits, static_cost, flushed>>

(* One more path, under the costs of the smoothed frequencies *)
MilestonePass ==
  /\ step = "rle"
  /\ \E size \in Sizes : truth' = Append(truth, size)
  /\ LET rle_costs == Len(truth')
     IN  /\ FindPath(rle_costs)
         /\ IF truth'[rle_costs] < best
            THEN best' = truth'[rle_costs] /\ costs_saved' = rle_costs /\ costs' = Nothing
            ELSE UNCHANGED <<best, costs_saved, costs>>
  /\ step' = "choose"
  /\ UNCHANGED <<setting, only_lits, static_cost, passes_left, pass_number, stalls, attempts,
                 checkpoint, flushed>>

(* Written: the items of a path with the codes of a path.  The block writer  *)
(* takes the smallest of its encodings, so a static path costs no more than  *)
(* static_cost; the guard puts a smaller runs-only parse in its place.       *)
Flush(items, codes, size) ==
  /\ step' = "flushed"
  /\ flushed' = [items |-> items, codes |-> codes, size |-> size, guard |-> FALSE]

GuardedFlush(items, codes, size) ==
  \/ Flush(items, codes, size)
  \/ /\ setting.effort.guarded
     /\ step' = "flushed"
     /\ \E runs \in Sizes :
          /\ runs < size
          /\ flushed' = [items |-> Nothing, codes |-> Nothing, size |-> runs, guard |-> TRUE]

Choose ==
  /\ step = "choose"
  /\ IF SmallestOf({only_lits, static_cost}) < best
     THEN IF only_lits < static_cost
          THEN /\ coded' = OnlyLiterals /\ costs' = Nothing
               /\ GuardedFlush(OnlyLiterals, coded', only_lits)
               /\ UNCHANGED path
          ELSE /\ path' = StaticPath /\ coded' = StaticPath /\ costs' = Nothing
               /\ GuardedFlush(path', coded', static_cost)
     ELSE IF truth[coded] >= best + setting.min_nonfinal
     THEN /\ path' = costs_saved /\ coded' = costs_saved /\ costs' = Nothing
          /\ GuardedFlush(path', coded', truth[coded'])
     ELSE /\ GuardedFlush(path, coded, truth[coded])
          /\ UNCHANGED <<path, coded, costs>>
  /\ UNCHANGED <<setting, truth, tried, costs_saved, only_lits, static_cost, best, passes_left,
                 pass_number, stalls, attempts, checkpoint>>

OptimizerNext == Start \/ Pass \/ MilestonePass \/ Choose

OptimizerSpec == OptimizerInit /\ [][OptimizerNext]_optVars

-----------------------------------------------------------------------------

(* The block written has items and codes of one parse, and is larger than the  *)
(* smallest of everything tried (literals, the static path, every pass) by     *)
(* less than the improvement that continues the search and the saving that     *)
(* makes an earlier pass worth repeating: after the search has run past its    *)
(* best pass, the costs saved still lead back to it.                           *)
FlushIsNearBest ==
  flushed # <<>> =>
    /\ flushed.items = flushed.codes
    /\ \A other \in {only_lits, static_cost} \cup {truth[m] : m \in tried} :
         flushed.size <= other + (setting.min_improvement - 1) + (setting.min_nonfinal - 1)

(* The diversification never runs: a pass that improves resets the count of   *)
(* passes that do not, and the first that does not ends the search.           *)
FirstStallEndsSearch == attempts = 0 /\ (stalls > 0 => step \notin {"start", "pass"})

-----------------------------------------------------------------------------

(* What a pass may leave behind: the best size is that of the costs saved, and *)
(* no pass was better by what would have continued the search; the search     *)
(* has not stalled while it runs; once it has ended, the nodes and the codes   *)
(* are of one pass.                                                            *)
OptimizerInv ==
  /\ setting.min_improvement \in Improvements
  /\ setting.min_nonfinal \in NonfinalBits
  /\ truth \in Seq(Sizes)
  /\ tried \subseteq 1 .. Len(truth)
  /\ best \in Sizes \cup {Huge}
  /\ only_lits \in Sizes \cup {Huge} /\ static_cost \in Sizes \cup {Huge}
  /\ \A m \in tried : best <= truth[m] + (setting.min_improvement - 1)
  /\ best # Huge => costs_saved \in 1 .. Len(truth) /\ truth[costs_saved] = best
  /\ step \in {"start", "pass", "rle", "choose", "flushed"}
  /\ step = "start" => tried = {}
  /\ step = "pass" => costs \in 1 .. Len(truth)
  /\ step \in {"rle", "choose"} => coded \in tried /\ path = coded
  /\ step # "flushed" => flushed = <<>>
  /\ stalls \in Nat
  /\ FirstStallEndsSearch
  /\ FlushIsNearBest

(* The smaller of two numbers. *)
LEMMA SmallestOfTwo ==
  ASSUME NEW a \in Int, NEW b \in Int
  PROVE  /\ SmallestOf({a, b}) \in {a, b}
         /\ SmallestOf({a, b}) <= a /\ SmallestOf({a, b}) <= b
<1>1. \E s \in {a, b} : \A t \in {a, b} : s <= t
  <2>1. CASE a <= b
    BY <2>1
  <2>2. CASE b <= a
    BY <2>2
  <2>3. QED BY <2>1, <2>2
<1>2. /\ SmallestOf({a, b}) \in {a, b}
      /\ \A t \in {a, b} : SmallestOf({a, b}) <= t
  BY <1>1, Zenon DEF SmallestOf
<1>3. QED BY <1>2

(* A model made keeps the sizes of those before it. *)
LEMMA OneMoreModel ==
  ASSUME truth \in Seq(Sizes), NEW size \in Sizes, truth' = Append(truth, size)
  PROVE  /\ truth' \in Seq(Sizes) /\ Len(truth') = Len(truth) + 1
         /\ \A m \in 1 .. Len(truth) : truth'[m] = truth[m] /\ truth[m] \in Sizes
         /\ truth'[Len(truth')] = size
OBVIOUS

(* Sizes and the numbers they are compared with. *)
LEMMA SizesAreNumbers ==
  ASSUME OptimizerInv
  PROVE  /\ best \in Nat /\ only_lits \in Nat /\ static_cost \in Nat /\ Huge \in Nat
         /\ \A size \in Sizes : size \in Nat /\ size < Huge
         /\ \A m \in 1 .. Len(truth) : truth[m] \in Sizes /\ truth[m] \in Nat
         /\ \A m \in tried : /\ m \in 1 .. Len(truth) /\ truth[m] \in Nat
                             /\ best <= truth[m] + (setting.min_improvement - 1)
         /\ setting.min_improvement \in Nat /\ setting.min_improvement >= 1
         /\ setting.min_nonfinal \in Nat /\ setting.min_nonfinal >= 1
         /\ Len(truth) \in Nat
BY OptimizerAssumption DEF OptimizerInv, Huge

LEMMA StartKeepsInv ==
  ASSUME OptimizerInv, Start
  PROVE  OptimizerInv'
<1>1. PICK size \in Sizes : truth' = Append(truth, size)
  BY DEF Start, NewCosts
<1>2. /\ truth' \in Seq(Sizes) /\ Len(truth') = Len(truth) + 1
      /\ \A m \in 1 .. Len(truth) : truth'[m] = truth[m]
  BY <1>1, OneMoreModel DEF OptimizerInv
<1>3. /\ only_lits' \in Sizes \cup {Huge} /\ static_cost' \in Sizes \cup {Huge}
  BY DEF Start, OptimizerInv
<1>4. costs' \in 1 .. Len(truth')
  BY <1>2, SizesAreNumbers DEF Start, NewCosts
<1>5. /\ UNCHANGED <<setting, tried, costs_saved, best, stalls, attempts, flushed>>
      /\ step = "start" /\ step' = "pass"
  BY DEF Start
<1>6. tried = {} /\ flushed = <<>> /\ stalls = 0 /\ attempts = 0
  BY <1>5 DEF OptimizerInv, FirstStallEndsSearch
<1>7. best # Huge => costs_saved \in 1 .. Len(truth') /\ truth'[costs_saved] = best
  BY SMTT(30), <1>2, SizesAreNumbers DEF OptimizerInv
<1>8. QED
  BY <1>2, <1>3, <1>4, <1>5, <1>6, <1>7 DEF OptimizerInv, FirstStallEndsSearch, FlushIsNearBest

(* A pass never diversifies: it saves its costs or gives up.                *)
LEMMA PassKeepsInv ==
  ASSUME OptimizerInv, Pass
  PROVE  OptimizerInv'
<1>a. /\ best \in Nat /\ only_lits \in Nat /\ static_cost \in Nat /\ Huge \in Nat
      /\ \A size \in Sizes : size \in Nat /\ size < Huge
      /\ \A m \in 1 .. Len(truth) : truth[m] \in Sizes /\ truth[m] \in Nat
      /\ \A m \in tried : /\ m \in 1 .. Len(truth) /\ truth[m] \in Nat
                          /\ best <= truth[m] + (setting.min_improvement - 1)
      /\ setting.min_improvement \in Nat /\ setting.min_improvement >= 1
      /\ setting.min_nonfinal \in Nat /\ setting.min_nonfinal >= 1
      /\ Len(truth) \in Nat
  BY SizesAreNumbers
<1> USE <1>a
<1>0. /\ step = "pass" /\ costs \in 1 .. Len(truth) /\ flushed = <<>>
      /\ stalls = 0 /\ attempts = 0 /\ truth[costs] \in Sizes
      /\ UNCHANGED <<setting, only_lits, static_cost, flushed>>
  BY DEF OptimizerInv, Pass, FirstStallEndsSearch
<1>1. CASE truth[costs] + setting.min_improvement > best
  <2>1. GiveUp /\ UNCHANGED <<truth, attempts>>
    BY <1>0, <1>1 DEF Pass, StallsToDiversify, GiveUp
  <2>2. /\ path' = costs /\ coded' = costs /\ tried' = tried \cup {costs}
        /\ UNCHANGED <<best, costs_saved>> /\ stalls' = stalls + 1
        /\ step' \in {"rle", "choose"}
    BY <1>0, <2>1 DEF GiveUp, FindPath, EndSearch
  <2>3. best <= truth[costs] + (setting.min_improvement - 1)
    BY <1>0, <1>1
  <2>4. \A m \in tried' : best' <= truth'[m] + (setting'.min_improvement - 1)
    BY <1>0, <2>1, <2>2, <2>3
  <2>5. UNCHANGED <<truth, attempts, flushed, setting, only_lits, static_cost>> /\ stalls' = 1
    BY <1>0, <2>1, <2>2
  <2>6. /\ tried' \subseteq 1 .. Len(truth) /\ coded' \in tried' /\ path' = coded'
        /\ step' # "start" /\ step' # "pass" /\ step' # "flushed" /\ flushed = <<>>
    BY <1>0, <2>2 DEF OptimizerInv
  <2>7. FlushIsNearBest' /\ FirstStallEndsSearch'
    BY <2>2, <2>5, <2>6 DEF FlushIsNearBest, FirstStallEndsSearch, OptimizerInv
  <2>8. QED
    BY <2>2, <2>4, <2>5, <2>6, <2>7 DEF OptimizerInv
<1>2. CASE ~(truth[costs] + setting.min_improvement > best)
  <2>1. /\ FindPath(costs) /\ SaveBest
        /\ stalls' = 0 /\ attempts' = attempts
        /\ step' \in {"pass", "rle", "choose"}
    BY <1>0, <1>2 DEF Pass, EndSearch
  <2>2. PICK size \in Sizes : truth' = Append(truth, size)
    BY <2>1 DEF SaveBest, NewCosts
  <2>3. /\ truth' \in Seq(Sizes) /\ Len(truth') = Len(truth) + 1
        /\ \A m \in 1 .. Len(truth) : truth'[m] = truth[m]
    BY <2>2, OneMoreModel DEF OptimizerInv
  <2>4. /\ best' = truth[costs] /\ costs_saved' = costs /\ costs' = Len(truth) + 1
        /\ tried' = tried \cup {costs} /\ path' = costs /\ coded' = costs
    BY <2>1 DEF SaveBest, FindPath, NewCosts
  <2>5. \A m \in tried' : best' <= truth'[m] + (setting'.min_improvement - 1)
    <3>1. ASSUME NEW m \in tried \cup {costs}
          PROVE  truth[costs] <= truth[m] + (setting.min_improvement - 1)
      BY <1>0, <1>2, <3>1
    <3>2. \A m \in tried \cup {costs} : truth'[m] = truth[m]
      BY <1>0, <2>3
    <3>3. QED BY <1>0, <2>4, <3>1, <3>2
  <2>6. costs_saved' \in 1 .. Len(truth') /\ truth'[costs_saved'] = best'
    BY <1>0, <2>3, <2>4
  <2>7. tried' \subseteq 1 .. Len(truth') /\ costs' \in 1 .. Len(truth')
    BY <1>0, <2>3, <2>4 DEF OptimizerInv
  <2>8. QED
    BY <1>0, <2>1, <2>3, <2>4, <2>5, <2>6, <2>7
    DEF OptimizerInv, FirstStallEndsSearch, FlushIsNearBest
<1>3. QED BY <1>1, <1>2

LEMMA MilestoneKeepsInv ==
  ASSUME OptimizerInv, MilestonePass
  PROVE  OptimizerInv'
<1>a. /\ best \in Nat /\ only_lits \in Nat /\ static_cost \in Nat /\ Huge \in Nat
      /\ \A size \in Sizes : size \in Nat /\ size < Huge
      /\ \A m \in 1 .. Len(truth) : truth[m] \in Sizes /\ truth[m] \in Nat
      /\ \A m \in tried : /\ m \in 1 .. Len(truth) /\ truth[m] \in Nat
                          /\ best <= truth[m] + (setting.min_improvement - 1)
      /\ setting.min_improvement \in Nat /\ setting.min_improvement >= 1
      /\ setting.min_nonfinal \in Nat /\ setting.min_nonfinal >= 1
      /\ Len(truth) \in Nat
  BY SizesAreNumbers
<1> USE <1>a
<1>1. PICK size \in Sizes : truth' = Append(truth, size)
  BY DEF MilestonePass
<1>2. /\ truth' \in Seq(Sizes) /\ Len(truth') = Len(truth) + 1
      /\ \A m \in 1 .. Len(truth) : truth'[m] = truth[m]
      /\ truth'[Len(truth')] = size
  BY <1>1, OneMoreModel DEF OptimizerInv
<1>3. /\ step = "rle" /\ step' = "choose" /\ flushed = <<>>
      /\ UNCHANGED <<setting, only_lits, static_cost, stalls, attempts, flushed>>
      /\ tried' = tried \cup {Len(truth')}
      /\ path' = Len(truth') /\ coded' = Len(truth')
  BY DEF MilestonePass, FindPath, OptimizerInv
<1>4. tried' \subseteq 1 .. Len(truth')
  BY <1>2, <1>3
<1>5. CASE truth'[Len(truth')] < best
  <2>1. best' = truth'[Len(truth')] /\ costs_saved' = Len(truth')
    BY <1>5 DEF MilestonePass
  <2>2. \A m \in tried' : best' <= truth'[m] + (setting'.min_improvement - 1)
    <3>1. ASSUME NEW m \in tried \cup {Len(truth')}
          PROVE  truth'[Len(truth')] <= truth'[m] + (setting.min_improvement - 1)
      <4>1. CASE m = Len(truth')
        <5>1. truth'[m] \in Nat
          BY <1>2, <4>1
        <5>2. setting.min_improvement - 1 \in Nat
          OBVIOUS
        <5>3. truth'[m] <= truth'[m] + (setting.min_improvement - 1)
          BY <5>1, <5>2
        <5>4. QED BY <4>1, <5>3
      <4>2. CASE m \in tried
        <5>1. truth'[Len(truth')] \in Nat
          BY <1>2
        <5>2. truth'[m] = truth[m] /\ truth[m] \in Nat
          BY <1>2, <4>2
        <5>3. best <= truth[m] + (setting.min_improvement - 1)
          BY <4>2
        <5>4. QED BY <1>5, <5>1, <5>2, <5>3
      <4>3. QED BY <3>1, <4>1, <4>2
    <3>2. QED BY <1>3, <2>1, <3>1
  <2>3. QED
    BY <1>2, <1>3, <1>4, <2>1, <2>2 DEF OptimizerInv, FirstStallEndsSearch, FlushIsNearBest
<1>6. CASE ~(truth'[Len(truth')] < best)
  <2>1. UNCHANGED <<best, costs_saved>>
    BY <1>6 DEF MilestonePass
  <2>2. \A m \in tried' : best' <= truth'[m] + (setting'.min_improvement - 1)
    <3>1. ASSUME NEW m \in tried \cup {Len(truth')}
          PROVE  best <= truth'[m] + (setting.min_improvement - 1)
      <4>1. CASE m = Len(truth')
        BY <1>2, <1>6, <4>1
      <4>2. CASE m \in tried
        BY <1>2, <1>6, <4>2
      <4>3. QED BY <3>1, <4>1, <4>2
    <3>2. QED BY <1>3, <2>1, <3>1
  <2>3. best # Huge => costs_saved \in 1 .. Len(truth') /\ truth'[costs_saved] = best
    BY <1>2 DEF OptimizerInv
  <2>4. QED
    BY <1>2, <1>3, <1>4, <2>1, <2>2, <2>3
    DEF OptimizerInv, FirstStallEndsSearch, FlushIsNearBest
<1>7. QED BY <1>5, <1>6

(* What is flushed in place of a path, with the guard or without it.       *)
LEMMA FlushedSize ==
  ASSUME OptimizerInv, NEW items, NEW size \in Nat, GuardedFlush(items, items, size)
  PROVE  /\ step' = "flushed" /\ flushed'.items = flushed'.codes
         /\ flushed'.size \in Nat /\ flushed'.size <= size
BY SizesAreNumbers DEF GuardedFlush, Flush

LEMMA ChooseKeepsInv ==
  ASSUME OptimizerInv, Choose
  PROVE  OptimizerInv'
<1>a. /\ best \in Nat /\ only_lits \in Nat /\ static_cost \in Nat /\ Huge \in Nat
      /\ \A size \in Sizes : size \in Nat /\ size < Huge
      /\ \A m \in 1 .. Len(truth) : truth[m] \in Sizes /\ truth[m] \in Nat
      /\ \A m \in tried : /\ m \in 1 .. Len(truth) /\ truth[m] \in Nat
                          /\ best <= truth[m] + (setting.min_improvement - 1)
      /\ setting.min_improvement \in Nat /\ setting.min_improvement >= 1
      /\ setting.min_nonfinal \in Nat /\ setting.min_nonfinal >= 1
      /\ Len(truth) \in Nat
  BY SizesAreNumbers
<1> USE <1>a
<1> DEFINE Slack == (setting.min_improvement - 1) + (setting.min_nonfinal - 1)
<1>b. /\ Slack \in Nat /\ setting.min_nonfinal - 1 <= Slack
      /\ \A x \in Nat : x <= best + (setting.min_nonfinal - 1)
                         => \A m \in tried : x <= truth[m] + Slack
  <2>1. Slack \in Nat /\ setting.min_nonfinal - 1 <= Slack
    OBVIOUS
  <2>2. ASSUME NEW x \in Nat, x <= best + (setting.min_nonfinal - 1), NEW m \in tried
        PROVE  x <= truth[m] + Slack
    <3>1. truth[m] \in Nat /\ best <= truth[m] + (setting.min_improvement - 1)
      BY <2>2
    <3>2. QED BY SMTT(30), <2>2, <3>1
  <2>3. QED BY <2>1, <2>2
<1> HIDE DEF Slack
<1>0. /\ step = "choose" /\ coded \in tried /\ path = coded
      /\ UNCHANGED <<setting, truth, tried, costs_saved, only_lits, static_cost, best, stalls,
                     attempts>>
  BY DEF OptimizerInv, Choose
<1>1. /\ only_lits \in Nat /\ static_cost \in Nat /\ best \in Nat
      /\ \A m \in tried : truth[m] \in Nat /\ best <= truth[m] + (setting.min_improvement - 1)
  BY DEF OptimizerInv
<1>2. /\ SmallestOf({only_lits, static_cost}) \in {only_lits, static_cost}
      /\ SmallestOf({only_lits, static_cost}) <= only_lits
      /\ SmallestOf({only_lits, static_cost}) <= static_cost
  <2>1. only_lits \in Int /\ static_cost \in Int
    BY <1>1
  <2>2. QED BY <2>1, SmallestOfTwo, Zenon
<1>3. \E items : \E size \in Nat :
        /\ GuardedFlush(items, items, size)
        /\ size <= only_lits + Slack /\ size <= static_cost + Slack
        /\ size <= best + (setting.min_nonfinal - 1)
  <2>1. CASE SmallestOf({only_lits, static_cost}) < best /\ only_lits < static_cost
    <3>1. GuardedFlush(OnlyLiterals, OnlyLiterals, only_lits)
      BY <2>1 DEF Choose
    <3>2. /\ only_lits \in Nat
          /\ only_lits <= only_lits + Slack /\ only_lits <= static_cost + Slack
          /\ only_lits <= best + (setting.min_nonfinal - 1)
      BY <1>b, <1>2, <2>1
    <3>3. QED BY <3>1, <3>2
  <2>2. CASE SmallestOf({only_lits, static_cost}) < best /\ ~(only_lits < static_cost)
    <3>1. GuardedFlush(StaticPath, StaticPath, static_cost)
      BY <2>2 DEF Choose
    <3>2. /\ static_cost \in Nat
          /\ static_cost <= only_lits + Slack /\ static_cost <= static_cost + Slack
          /\ static_cost <= best + (setting.min_nonfinal - 1)
      BY <1>b, <1>2, <2>2
    <3>3. QED BY <3>1, <3>2
  <2>3. CASE ~(SmallestOf({only_lits, static_cost}) < best)
             /\ truth[coded] >= best + setting.min_nonfinal
    <3>1. GuardedFlush(costs_saved, costs_saved, truth[costs_saved])
      BY <2>3 DEF Choose
    <3>2. truth[coded] < Huge
      BY <1>0, OptimizerAssumption DEF OptimizerInv
    <3>3. truth[costs_saved] = best
      BY <1>0, <1>1, <2>3, <3>2 DEF OptimizerInv
    <3>4. /\ best <= only_lits + Slack /\ best <= static_cost + Slack
          /\ best <= best + (setting.min_nonfinal - 1)
      BY <1>b, <1>2, <2>3
    <3>5. QED BY <3>1, <3>3, <3>4
  <2>4. CASE ~(SmallestOf({only_lits, static_cost}) < best)
             /\ ~(truth[coded] >= best + setting.min_nonfinal)
    <3>1. GuardedFlush(coded, coded, truth[coded])
      BY <1>0, <2>4 DEF Choose
    <3>0. best <= only_lits /\ best <= static_cost
      BY <1>2, <2>4
    <3>2. /\ truth[coded] \in Nat
          /\ truth[coded] <= only_lits + Slack /\ truth[coded] <= static_cost + Slack
          /\ truth[coded] <= best + (setting.min_nonfinal - 1)
      BY SMTT(30), <1>0, <1>b, <2>4, <3>0
    <3>3. QED BY <3>1, <3>2
  <2>5. QED BY <2>1, <2>2, <2>3, <2>4
<1>4. PICK items : \E size \in Nat :
        /\ GuardedFlush(items, items, size)
        /\ size <= only_lits + Slack /\ size <= static_cost + Slack
        /\ size <= best + (setting.min_nonfinal - 1)
  BY <1>3, Zenon
<1>5. PICK size \in Nat :
        /\ GuardedFlush(items, items, size)
        /\ size <= only_lits + Slack /\ size <= static_cost + Slack
        /\ size <= best + (setting.min_nonfinal - 1)
  BY <1>4, Zenon
<1>6. /\ step' = "flushed" /\ flushed'.items = flushed'.codes
      /\ flushed'.size \in Nat /\ flushed'.size <= size
  BY <1>5, FlushedSize
<1>7. \A m \in tried : flushed'.size <= truth[m] + Slack
  <2>1. flushed'.size <= best + (setting.min_nonfinal - 1)
    BY <1>5, <1>6
  <2>2. QED BY <1>b, <1>6, <2>1
<1>8. FlushIsNearBest'
  <2> DEFINE fs == flushed'.size
  <2>0. fs \in Nat /\ fs <= size
    BY <1>6
  <2> HIDE DEF fs
  <2>1. fs <= only_lits + Slack /\ fs <= static_cost + Slack
    BY <1>b, <1>5, <2>0
  <2>2. \A m \in tried : fs <= truth[m] + Slack
    BY <1>7 DEF fs
  <2>3. \A other \in {only_lits, static_cost} \cup {truth[m] : m \in tried} : fs <= other + Slack
    BY <2>1, <2>2
  <2>4. \A other \in {only_lits, static_cost} \cup {truth[m] : m \in tried} :
          fs <= other + (setting.min_improvement - 1) + (setting.min_nonfinal - 1)
    <3>1. \A other \in {only_lits, static_cost} \cup {truth[m] : m \in tried} : other \in Nat
      BY <1>1
    <3>2. ASSUME NEW other \in Nat, fs <= other + Slack
          PROVE  fs <= other + (setting.min_improvement - 1) + (setting.min_nonfinal - 1)
      BY <2>0, <3>2 DEF Slack
    <3>3. QED BY <2>3, <3>1, <3>2
  <2>5. QED BY <1>0, <1>6, <2>4 DEF FlushIsNearBest, fs
<1>9. QED
  BY <1>0, <1>6, <1>8 DEF OptimizerInv, FirstStallEndsSearch

LEMMA OptimizerInvHolds == OptimizerSpec => []OptimizerInv
<1>1. OptimizerInit => OptimizerInv
  BY DEF OptimizerInit, OptimizerInv, FirstStallEndsSearch, FlushIsNearBest
<1>2. OptimizerInv /\ [OptimizerNext]_optVars => OptimizerInv'
  <2> SUFFICES ASSUME OptimizerInv, [OptimizerNext]_optVars
               PROVE  OptimizerInv'
    OBVIOUS
  <2>1. CASE Start
    BY <2>1, StartKeepsInv
  <2>2. CASE Pass
    BY <2>2, PassKeepsInv
  <2>3. CASE MilestonePass
    BY <2>3, MilestoneKeepsInv
  <2>4. CASE Choose
    BY <2>4, ChooseKeepsInv
  <2>5. CASE UNCHANGED optVars
    BY <2>5 DEF optVars, OptimizerInv, FirstStallEndsSearch, FlushIsNearBest
  <2>6. QED BY <2>1, <2>2, <2>3, <2>4, <2>5 DEF OptimizerNext
<1>3. QED BY <1>1, <1>2, PTL DEF OptimizerSpec

(* However many passes, whatever their sizes: what is written is near the   *)
(* best of what was tried, and is one parse's (optimize_and_flush_block).   *)
THEOREM OptimizerCorrect == OptimizerSpec => []FlushIsNearBest
<1>1. OptimizerInv => FlushIsNearBest
  BY DEF OptimizerInv
<1>2. QED BY <1>1, OptimizerInvHolds, PTL

(* With the threshold the code has, no setting ever reaches the             *)
(* diversification (optimize_and_flush_block).                              *)
THEOREM NeverDiversifies == OptimizerSpec => []FirstStallEndsSearch
<1>1. OptimizerInv => FirstStallEndsSearch
  BY DEF OptimizerInv
<1>2. QED BY <1>1, OptimizerInvHolds, PTL

=============================================================================

------------------------------ MODULE FinderProofs ------------------------------
(***************************************************************************)
(* Proofs about the match finders, for every window size, hash function,   *)
(* input and parser: table entries are positions already passed, chains    *)
(* and trees stay inside this input, every read is inside it, and what is  *)
(* found can be copied: the binary trees stay ordered.                     *)
(*                                                                         *)
(* Order: the inductive invariant; arithmetic of slots and entries; what   *)
(* comparisons return; what a slide and an insertion do to any table; one  *)
(* section per finder, each operation keeping the invariant; its theorems; *)
(* then the trees: the byte order of positions, what keeps it, theorems.   *)
(***************************************************************************)
EXTENDS OneShotFinders, SequenceTheorems, WellFoundedInduction, TLAPS

Searches ==
  [pc : {"ready", "chain", "extend", "ht_skip", "hc_skip", "tree", "branch"},
   node : Entry, cur_pos : Nat, max : Nat, nice : Nat, depth : Int, left : Nat]

Walks ==
  [nice_match : NiceLens, record : BOOLEAN, len : Nat, best_lt : Nat,
   best_gt : Nat, pending_lt : Child, pending_gt : Child]

(* Types, with those of what a search and a walk keep between two actions. *)
TypesHold == FamilyTypeOK /\ search \in Searches /\ walk \in Walks

(* Not even the byte before the position: what a position links to lies    *)
(* before it.                                                              *)
Strict(node) ==
  node # INITVAL => /\ in_base_offset + node >= 0
                    /\ in_base_offset + node + 1 < in_next

(* What a slot links to can itself be followed.                            *)
Planted(node) == node # INITVAL => Slot(node) \in linked

Following == search.pc \in {"chain", "extend"}
Walking == search.pc \in {"tree", "branch"}

(* Where the base and the position are. A skip slides before its first     *)
(* byte, and then the base may be ahead of the position, but not by more   *)
(* than the skip has left, nor by more than one window: so an entry made   *)
(* in between still wraps to the right one.                                *)
PlacesHold ==
  /\ in_base_offset = 0 \/ WINDOW_SIZE <= in_base_offset
  /\ search.pc # "ht_skip" => in_base_offset <= in_next
  /\ search.pc = "ht_skip" =>
       /\ kind = "ht"
       /\ 1 <= search.left
       /\ in_base_offset < in_next + search.left
       /\ in_base_offset <= in_next + WINDOW_SIZE
       /\ in_base_offset = 0 => in_next + search.left <= WINDOW_SIZE
       /\ in_next + search.left + REQUIRED_NBYTES <= Len(data)
  /\ search.pc = "hc_skip" =>
       /\ kind = "hc"
       /\ 1 <= search.left
       /\ in_next + search.left + REQUIRED_NBYTES <= Len(data)
  /\ kind = "bt" => in_next - in_base_offset <= WINDOW_SIZE
  /\ Following => kind = "hc"
  /\ Walking => kind = "bt"

(* Every entry of a bucket is a position passed, in the tables of the      *)
(* finder that is used.                                                    *)
BucketsHold ==
  kind \in {"ht", "turbo", "fast_ht"} =>
    \A b \in Bucket : /\ Sound(bucket0[b]) /\ Sound(bucket1[b])
                      /\ kind = "turbo" => bucket1[b] = INITVAL

(* A head of a chain has a slot written since init, and so has every link: *)
(* what an earlier input left is out of reach.                             *)
ChainsHold ==
  kind = "hc" =>
    /\ \A b \in Bucket : /\ Sound(hash3_tab[b])
                         /\ Sound(hash4_tab[b])
                         /\ Planted(hash4_tab[b])
    /\ \A s \in linked : Strict(next_tab[s]) /\ Planted(next_tab[s])

(* The same of trees; during a walk the root is the position that is being *)
(* inserted, whose own children are not written yet.                       *)
TreesHold ==
  kind = "bt" =>
    /\ \A b \in Bucket :
         /\ Sound(hash3_tab[b])
         /\ Sound(hash3_old[b])
         /\ Sound(hash4_tab[b])
         /\ \/ Planted(hash4_tab[b])
            \/ Walking /\ Slot(hash4_tab[b]) = Slot(search.cur_pos)
    /\ \A s \in linked, side \in Side :
         Strict(child_tab[<<s, side>>]) /\ Planted(child_tab[<<s, side>>])

(* The next candidate of a search lies in the window, before the position  *)
(* searched, and has links of its own; the search never looks further than *)
(* the input goes.                                                         *)
SearchHolds ==
  Following \/ Walking =>
    /\ in_next = At + 1
    /\ Live(search.node, search.cur_pos)
    /\ 0 <= Candidate
    /\ search.node < search.cur_pos
    /\ Slot(search.node) \in linked
    /\ At + search.max <= Len(data)
    /\ search.nice <= search.max
    /\ found.at = At
    /\ Following => found.length < search.max

(* A place a walk has still to fill is a child of the new root, or one     *)
(* whose old value will do.                                                *)
Awaited(pending, child) ==
  child # pending => Strict(child_tab[child]) /\ Planted(child_tab[child])

(* What is known to agree ends before the last byte compared, and every    *)
(* child of the new root but the two pending ones is settled.              *)
WalkHolds ==
  Walking =>
    /\ SHORT_LEN < search.nice
    /\ walk.len < search.max
    /\ walk.record => found.length < search.nice
    /\ Awaited(walk.pending_lt, LessThan(search.cur_pos))
    /\ Awaited(walk.pending_gt, GreaterThan(search.cur_pos))

FinderInv ==
  /\ TypesHold
  /\ PlacesHold
  /\ BucketsHold
  /\ ChainsHold
  /\ TreesHold
  /\ SearchHolds
  /\ WalkHolds

-------------------------------------------------------------------------------

(* Quotient and remainder; the division is by WINDOW_SIZE or twice that.   *)
LEMMA DivMod ==
  ASSUME NEW a \in Int, NEW b \in Nat \ {0}
  PROVE  /\ a % b \in 0 .. (b - 1)
         /\ a \div b \in Int
         /\ a = b * (a \div b) + (a % b)
OBVIOUS

(* A remainder is the only one.                                            *)
LEMMA ModUnique ==
  ASSUME NEW b \in Nat \ {0}, NEW q \in Int, NEW r \in 0 .. (b - 1)
  PROVE  (b * q + r) % b = r
OBVIOUS

(* Multiples do not change the remainder.                                  *)
LEMMA ModShift ==
  ASSUME NEW a \in Int, NEW b \in Nat \ {0}, NEW k \in Int
  PROVE  (a + b * k) % b = a % b
<1> DEFINE q == a \div b
           r == a % b
<1>1. r \in 0 .. (b - 1) /\ q \in Int /\ a = b * q + r
  BY DivMod
<1>2. q + k \in Int /\ (b * (q + k) + r) % b = r
  <2> HIDE DEF q, r
  <2> QED BY <1>1, ModUnique
<1>3. a + b * k = b * (q + k) + r
  <2> HIDE DEF q, r
  <2> QED BY <1>1
<1> QED BY <1>2, <1>3

(* A number below the modulus is its own remainder.                        *)
LEMMA ModOfNat ==
  ASSUME NEW a \in Nat, NEW b \in Nat \ {0}
  PROVE  /\ a % b <= a
         /\ a < b => a % b = a
OBVIOUS

(* A position keeps its slot when the base slides.                         *)
LEMMA SlotIsSlot ==
  ASSUME NEW x \in Int
  PROVE  /\ Slot(x) \in 0 .. (WINDOW_SIZE - 1)
         /\ Slot(x - WINDOW_SIZE) = Slot(x)
<1>1. WINDOW_SIZE \in Nat \ {0}
  BY MatchAssumption
<1>2. x % WINDOW_SIZE \in 0 .. (WINDOW_SIZE - 1)
  BY <1>1, DivMod
<1>3. x - WINDOW_SIZE = x + WINDOW_SIZE * (-1) /\ -1 \in Int
  BY <1>1
<1>4. (x + WINDOW_SIZE * (-1)) % WINDOW_SIZE = x % WINDOW_SIZE
  BY <1>1, <1>3, ModShift, Zenon
<1> QED BY <1>2, <1>3, <1>4 DEF Slot

(* A position wraps to 16 bits downwards only, onto itself if it fits, and *)
(* keeps its slot.                                                         *)
LEMMA EntryOfPosition ==
  ASSUME NEW x \in Int
  PROVE  /\ AsEntry(x) \in Entry
         /\ -WINDOW_SIZE <= x => AsEntry(x) <= x
         /\ x \in Entry => AsEntry(x) = x
         /\ Slot(AsEntry(x)) = Slot(x)
<1> DEFINE w == WINDOW_SIZE
           v == 2 * w
           y == x + w
<1>1. w \in Nat \ {0} /\ v \in Nat \ {0} /\ y \in Int /\ v = w + w
  BY MatchAssumption
<1>2. /\ y % v \in 0 .. (v - 1)
      /\ y \div v \in Int
      /\ y = v * (y \div v) + (y % v)
  <2> HIDE DEF w, v, y
  <2> QED BY <1>1, DivMod
<1>3. AsEntry(x) = (y % v) - w
  BY DEF AsEntry
<1>4. AsEntry(x) \in Entry
  BY <1>1, <1>2, <1>3 DEF Entry
<1>5. ASSUME -WINDOW_SIZE <= x PROVE AsEntry(x) <= x
  <2>1. y \in Nat
    BY <1>1, <1>5
  <2>2. y % v <= y
    <3> HIDE DEF w, v, y
    <3> QED BY <1>1, <2>1, ModOfNat
  <2> QED BY <1>1, <1>2, <1>3, <2>2
<1>6. ASSUME x \in Entry PROVE AsEntry(x) = x
  <2>1. y \in Nat /\ y < v
    BY <1>1, <1>6 DEF Entry
  <2>2. y % v = y
    <3> HIDE DEF w, v, y
    <3> QED BY <1>1, <2>1, ModOfNat
  <2> QED BY <1>1, <1>3, <2>2
<1>7. Slot(AsEntry(x)) = Slot(x)
  <2> DEFINE q == y \div v
             k == -(2 * q)
  <2>1. k \in Int /\ q \in Int
    BY <1>2
  <2>2. v * q = w * (2 * q)
    <3> HIDE DEF q, w
    <3> QED BY <1>1, <2>1
  <2>3. AsEntry(x) = x + w * k
    <3>1. w * k = -(w * (2 * q)) /\ w * (2 * q) \in Int
      <4> HIDE DEF q, w
      <4> QED BY <1>1, <2>1
    <3>2. y % v \in Int
      BY <1>2
    <3> HIDE DEF q, v, k
    <3> QED BY <1>1, <1>2, <1>3, <2>1, <2>2, <3>1, <3>2 DEF q
  <2>4. (x + w * k) % w = x % w
    <3> HIDE DEF k, w
    <3> QED BY <1>1, <2>1, ModShift
  <2> QED BY <2>3, <2>4 DEF Slot
<1> QED BY <1>4, <1>5, <1>6, <1>7

Below == {pair \in Nat \X Nat : pair[1] < pair[2]}

(* A set of naturals has a least member.                                   *)
LEMMA LeastNumber ==
  ASSUME NEW S, S \subseteq Nat, S # {}
  PROVE  \E n \in S : \A m \in S : n <= m
<1>1. IsWellFoundedOn(Below, Nat)
  <2>1. OpToRel(<, Nat) = Below
    BY DEF OpToRel, Below
  <2> QED BY <2>1, NatLessThanWellFounded
<1>2. \A R, U : IsWellFoundedOn(R, U) =>
        \A T : T \subseteq U /\ T # {} => \E n \in T : \A m \in T : <<m, n>> \notin R
  BY WFMin, Zenon
<1>3. PICK n \in S : \A m \in S : <<m, n>> \notin Below
  <2> HIDE DEF Below
  <2> QED BY <1>1, <1>2, Zenon
<1>4. ASSUME NEW m \in S PROVE n <= m
  <2>1. n \in Nat /\ m \in Nat
    OBVIOUS
  <2>2. <<m, n>> \notin Below
    BY <1>3
  <2> QED BY <2>1, <2>2 DEF Below
<1> QED BY <1>4

(* A bounded one has a greatest.                                           *)
LEMMA GreatestNumber ==
  ASSUME NEW bound \in Nat, NEW S, S \subseteq 0 .. bound, S # {}
  PROVE  \E n \in S : \A m \in S : m <= n
<1> DEFINE T == {bound - n : n \in S}
<1>1. T \subseteq Nat /\ T # {}
  <2>1. \A n \in S : n \in 0 .. bound /\ bound - n \in Nat
    OBVIOUS
  <2>2. PICK n \in S : TRUE
    OBVIOUS
  <2>3. bound - n \in T
    OBVIOUS
  <2> QED BY <2>1, <2>3
<1>2. PICK t \in T : \A u \in T : t <= u
  <2> HIDE DEF T
  <2> QED BY <1>1, LeastNumber
<1>3. PICK n \in S : t = bound - n
  OBVIOUS
<1>4. ASSUME NEW m \in S PROVE m <= n
  <2>1. bound - m \in T
    OBVIOUS
  <2>2. t <= bound - m
    BY <1>2, <2>1
  <2>3. m \in 0 .. bound /\ n \in 0 .. bound
    OBVIOUS
  <2> QED BY <1>3, <2>2, <2>3
<1> QED BY <1>4

ExtendsTo(p, q, from, max, n) ==
  /\ \A k \in (from + 1) .. n : data[p + k] = data[q + k]
  /\ n < max => data[p + n + 1] # data[q + n + 1]

(* Two places of the input agree up to some length: lz_extend has a        *)
(* result.                                                                 *)
LEMMA FirstDifference ==
  ASSUME NEW p \in Int, NEW q \in Int, NEW max \in Nat, NEW from \in 0 .. max
  PROVE  \E n \in from .. max : ExtendsTo(p, q, from, max, n)
<1> DEFINE Ends(n) == n < max => data[p + n + 1] # data[q + n + 1]
           S == {n \in from .. max : Ends(n)}
<1>1. max \in S /\ S \subseteq Nat
  OBVIOUS
<1>2. PICK n \in S : \A m \in S : n <= m
  <2> HIDE DEF S
  <2> QED BY <1>1, LeastNumber
<1>3. n \in from .. max /\ Ends(n)
  OBVIOUS
<1>4. ASSUME NEW k \in (from + 1) .. n PROVE data[p + k] = data[q + k]
  <2>1. k - 1 \in from .. max /\ k - 1 < n /\ k - 1 < max /\ n \in Int
    BY <1>3
  <2>2. k - 1 \notin S
    <3> HIDE DEF S
    <3> QED BY <1>2, <2>1
  <2>3. data[p + (k - 1) + 1] = data[q + (k - 1) + 1]
    BY <2>1, <2>2
  <2>4. p + (k - 1) + 1 = p + k /\ q + (k - 1) + 1 = q + k
    BY <2>1
  <2> QED BY <2>3, <2>4
<1> QED BY <1>3, <1>4 DEF ExtendsTo

(* What lz_extend returns when it starts from a length known to agree.     *)
LEMMA ExtentFromIsOne ==
  ASSUME NEW p \in Int, NEW q \in Int, NEW max \in Nat, NEW from \in 0 .. max
  PROVE  /\ ExtentFrom(p, q, from, max) \in from .. max
         /\ ExtendsTo(p, q, from, max, ExtentFrom(p, q, from, max))
<1>1. PICK n \in from .. max : ExtendsTo(p, q, from, max, n)
  BY FirstDifference
<1>2. ExtentFrom(p, q, from, max) = CHOOSE m \in from .. max : ExtendsTo(p, q, from, max, m)
  BY DEF ExtentFrom, ExtendsTo
<1>3. /\ ExtentFrom(p, q, from, max) \in from .. max
      /\ ExtendsTo(p, q, from, max, ExtentFrom(p, q, from, max))
  BY <1>1, <1>2
<1> QED BY <1>3

(* What it returns when it starts from nothing.                            *)
LEMMA ExtentIsOne ==
  ASSUME NEW p \in Int, NEW q \in Int, NEW max \in Nat
  PROVE  /\ Extent(p, q, max) \in 0 .. max
         /\ Agree(p, q, Extent(p, q, max))
<1> DEFINE Is(n) == /\ Agree(p, q, n)
                    /\ n < max => data[p + n + 1] # data[q + n + 1]
<1>1. \E n \in 0 .. max : Is(n)
  <2>1. 0 \in 0 .. max /\ 0 + 1 = 1
    OBVIOUS
  <2>2. PICK n \in 0 .. max : ExtendsTo(p, q, 0, max, n)
    BY <2>1, FirstDifference
  <2> QED BY <2>1, <2>2 DEF Agree, ExtendsTo
<1>2. Extent(p, q, max) = CHOOSE n \in 0 .. max : Is(n)
  BY DEF Extent
<1>3. /\ Is(CHOOSE n \in 0 .. max : Is(n))
      /\ (CHOOSE n \in 0 .. max : Is(n)) \in 0 .. max
  <2> HIDE DEF Is
  <2> QED BY <1>1
<1> QED BY <1>2, <1>3

(* An entry that survives a rebase has moved by one window and kept its    *)
(* slot.                                                                   *)
LEMMA RebasedMoves ==
  ASSUME NEW D, NEW tab \in [D -> Entry]
  PROVE  /\ Rebased(tab) \in [D -> Entry]
         /\ \A d \in D : Rebased(tab)[d] # INITVAL =>
              /\ tab[d] # INITVAL
              /\ Rebased(tab)[d] = tab[d] - WINDOW_SIZE
              /\ Slot(Rebased(tab)[d]) = Slot(tab[d])
<1>1. WINDOW_SIZE \in Nat \ {0}
  BY MatchAssumption
<1>2. ASSUME NEW d \in D
      PROVE  /\ AtLeast(tab[d] - WINDOW_SIZE, INITVAL) \in Entry
             /\ AtLeast(tab[d] - WINDOW_SIZE, INITVAL) # INITVAL =>
                  /\ tab[d] # INITVAL
                  /\ AtLeast(tab[d] - WINDOW_SIZE, INITVAL) = tab[d] - WINDOW_SIZE
  <2>1. tab[d] \in Entry
    OBVIOUS
  <2> QED BY <1>1, <2>1 DEF AtLeast, INITVAL, Entry
<1>3. /\ DOMAIN tab = D
      /\ \A d \in D : Rebased(tab)[d] = AtLeast(tab[d] - WINDOW_SIZE, INITVAL)
      /\ Rebased(tab) \in [D -> Entry]
  BY <1>2 DEF Rebased
<1>4. ASSUME NEW d \in D PROVE Slot(tab[d] - WINDOW_SIZE) = Slot(tab[d])
  <2>1. tab[d] \in Int
    BY DEF Entry
  <2> QED BY <2>1, SlotIsSlot
<1> QED BY <1>2, <1>3, <1>4

(* An entry that survives the slide of a search is of the same byte as     *)
(* before.                                                                 *)
LEMMA SlidMoves ==
  ASSUME NEW D, NEW tab \in [D -> Entry], in_base_offset \in Nat
  PROVE  /\ Slid(tab) \in [D -> Entry]
         /\ \A d \in D : Slid(tab)[d] # INITVAL =>
              /\ tab[d] # INITVAL
              /\ Base + Slid(tab)[d] = in_base_offset + tab[d]
              /\ Slot(Slid(tab)[d]) = Slot(tab[d])
<1>1. WINDOW_SIZE \in Nat \ {0}
  BY MatchAssumption
<1>2. \A d \in D : tab[d] \in Int
  BY DEF Entry
<1>3. CASE Slides
  <2>1. Slid(tab) = Rebased(tab) /\ Base = in_base_offset + WINDOW_SIZE
    BY <1>3 DEF Slid, Base
  <2>2. ASSUME NEW d \in D, Slid(tab)[d] # INITVAL
        PROVE  /\ tab[d] # INITVAL
               /\ Base + Slid(tab)[d] = in_base_offset + tab[d]
               /\ Slot(Slid(tab)[d]) = Slot(tab[d])
    <3>1. /\ tab[d] # INITVAL
          /\ Slid(tab)[d] = tab[d] - WINDOW_SIZE
          /\ Slot(Slid(tab)[d]) = Slot(tab[d])
      BY <2>1, <2>2, RebasedMoves
    <3> QED BY <1>1, <1>2, <2>1, <3>1
  <2> QED BY <2>1, <2>2, RebasedMoves
<1>4. CASE ~Slides
  BY <1>4 DEF Slid, Base
<1> QED BY <1>3, <1>4

(* The base a search uses.                                                 *)
LEMMA BaseIsPlaced ==
  ASSUME in_base_offset \in Nat, in_next \in Nat, in_base_offset <= in_next,
         in_base_offset = 0 \/ WINDOW_SIZE <= in_base_offset
  PROVE  /\ Base \in Nat
         /\ Base = 0 \/ WINDOW_SIZE <= Base
         /\ CurPos \in Nat
         /\ in_next = Base + CurPos
         /\ Base = 0 => CurPos < WINDOW_SIZE
         /\ in_next - in_base_offset <= WINDOW_SIZE => CurPos < WINDOW_SIZE
BY MatchAssumption DEF Base, CurPos, Slides

(* The entry of a new position is for that byte, or for an earlier one     *)
(* where it wraps.                                                         *)
LEMMA NewEntrySound ==
  ASSUME NEW base \in Nat, base = 0 \/ WINDOW_SIZE <= base,
         NEW pos \in Int, -WINDOW_SIZE <= pos, base = 0 => pos \in 0 .. (WINDOW_SIZE - 1)
  PROVE  /\ AsEntry(pos) \in Entry
         /\ base + AsEntry(pos) >= 0
         /\ base + AsEntry(pos) <= base + pos
<1>1. WINDOW_SIZE \in Nat \ {0}
  BY MatchAssumption
<1>2. /\ AsEntry(pos) \in Entry
      /\ AsEntry(pos) <= pos
      /\ base = 0 => AsEntry(pos) = pos
  BY <1>1, EntryOfPosition DEF Entry
<1> HIDE DEF AsEntry
<1> QED BY <1>1, <1>2 DEF Entry

(* Entries stay sound through a slide.                                     *)
LEMMA SlidSound ==
  ASSUME NEW D, NEW tab \in [D -> Entry], in_base_offset \in Nat, NEW d \in D,
         Sound(tab[d]), Slid(tab)[d] # INITVAL
  PROVE  /\ Base + Slid(tab)[d] >= 0
         /\ Base + Slid(tab)[d] < in_next
BY SlidMoves DEF Sound

(* What is in the window is not void.                                      *)
LEMMA LiveIsEntry ==
  ASSUME NEW cur \in Nat, NEW node \in Entry, Live(node, cur)
  PROVE  node # INITVAL
BY MatchAssumption DEF Live, Entry, INITVAL

(* Hashes of bytes inside the input are indices of the tables.             *)
LEMMA HashesAreBuckets ==
  ASSUME data \in Seq(Byte), NEW p \in Nat, p + LONG_LEN <= Len(data)
  PROVE  LongHashAt(p) \in Bucket /\ ShortHashAt(p) \in Bucket
<1>1. /\ SHORT_LEN \in Nat /\ LONG_LEN \in Nat /\ SHORT_LEN <= LONG_LEN
      /\ HashShort \in [[1 .. SHORT_LEN -> Byte] -> Bucket]
      /\ HashLong \in [[1 .. LONG_LEN -> Byte] -> Bucket]
  BY MatchAssumption
<1>2. ASSUME NEW n \in Nat, n <= LONG_LEN PROVE Bytes(p, n) \in [1 .. n -> Byte]
  <2>1. ASSUME NEW k \in 1 .. n PROVE data[p + k] \in Byte
    <3>1. p + k \in 1 .. Len(data)
      BY <1>1, <1>2, <2>1
    <3> QED BY <3>1
  <2> QED BY <2>1 DEF Bytes
<1> QED BY <1>1, <1>2 DEF LongHashAt, ShortHashAt

Hashes == [short : Bucket, long : Bucket]

(* So are the hashes kept for the next position.                           *)
LEMMA NextHashesAreHashes ==
  ASSUME data \in Seq(Byte), in_next \in Nat, next_hashes \in Hashes
  PROVE  NextHashes \in Hashes
<1>1. CASE in_next + LONG_LEN + 1 <= Len(data)
  <2>1. in_next + 1 \in Nat /\ (in_next + 1) + LONG_LEN <= Len(data)
    BY <1>1, MatchAssumption
  <2> HIDE DEF LongHashAt, ShortHashAt
  <2> QED BY <1>1, <2>1, HashesAreBuckets DEF NextHashes, Hashes
<1>2. CASE ~(in_next + LONG_LEN + 1 <= Len(data))
  BY <1>2 DEF NextHashes
<1> QED BY <1>1, <1>2

Bucketed == kind \in {"ht", "turbo", "fast_ht"}

(* What a step of a finder with buckets has to keep. *)
LEMMA BucketStep ==
  ASSUME FinderInv, Bucketed, UNCHANGED <<kind, hcVars, btVars>>,
         FamilyTypeOK', search' \in Searches, PlacesHold', BucketsHold',
         search'.pc \in {"ready", "ht_skip"}
  PROVE  FinderInv'
<1>1. kind' = kind /\ walk' = walk
  BY DEF hcVars, btVars
<1>2. TypesHold'
  BY <1>1 DEF FinderInv, TypesHold
<1>3. ChainsHold' /\ TreesHold'
  BY <1>1 DEF Bucketed, ChainsHold, TreesHold
<1>4. SearchHolds' /\ WalkHolds'
  BY DEF SearchHolds, WalkHolds, Following, Walking
<1> QED BY <1>2, <1>3, <1>4 DEF FinderInv

(* What every finder may take for granted. *)
LEMMA Basics ==
  ASSUME FinderInv
  PROVE  /\ data \in Seq(Byte)
         /\ in_next \in Nat /\ in_next <= Len(data) /\ Len(data) \in Nat
         /\ in_base_offset \in Nat
         /\ in_base_offset = 0 \/ WINDOW_SIZE <= in_base_offset
         /\ search.pc # "ht_skip" => in_base_offset <= in_next
         /\ next_hashes \in Hashes
         /\ next_hashes.long \in Bucket /\ next_hashes.short \in Bucket
         /\ found \in [length : Nat, offset : Nat, at : Nat]
BY DEF FinderInv, TypesHold, FamilyTypeOK, PlacesHold, Hashes

(* A match found in a table. *)
LEMMA TableMatch ==
  ASSUME FinderInv, search.pc = "ready",
         NEW node \in Entry, Live(node, CurPos), Base + node >= 0, Base + node < in_next,
         NEW length \in Nat, in_next + length <= Len(data),
         Agree(in_next, Base + node, length),
         FoundThis(length, CurPos - node),
         UNCHANGED data
  PROVE  found' \in [length : Nat, offset : Nat, at : Nat] /\ MatchIsReal'
<1>1. /\ in_next \in Nat /\ Base \in Nat /\ CurPos \in Nat /\ in_next = Base + CurPos
      /\ WINDOW_SIZE \in Nat \ {0} /\ node \in Int
  BY Basics, BaseIsPlaced, MatchAssumption DEF Entry
<1> DEFINE offset == CurPos - node
<1>2. /\ offset \in 1 .. in_next
      /\ offset < WINDOW_SIZE
      /\ in_next - offset = Base + node
  <2>1. node > CurPos - WINDOW_SIZE
    BY DEF Live
  <2> HIDE DEF CurPos, Base
  <2> QED BY <1>1, <2>1
<1>3. found' = [length |-> length, offset |-> offset, at |-> in_next]
  BY DEF FoundThis
<1>4. \A k \in 1 .. length : data'[in_next + k] = data'[(in_next - offset) + k]
  <2>1. Agree(in_next, in_next - offset, length)
    BY <1>2
  <2> HIDE DEF offset
  <2> QED BY <2>1 DEF Agree
<1> QED BY <1>1, <1>2, <1>3, <1>4 DEF MatchIsReal, Agree

(* ht.rs and fast_ht.rs: longest_match.                                    *)
LEMMA HtSearchKeeps ==
  ASSUME FinderInv, kind \in {"ht", "fast_ht"}, UNCHANGED <<kind, hcVars, btVars>>,
         NEW max_len \in Nat, max_len <= Remaining, NEW nice_len,
         HtLongestMatch(max_len, nice_len)
  PROVE  FinderInv' /\ MatchIsReal'
<1> DEFINE h == next_hashes.long
           node0 == Slid(bucket0)[h]
           node1 == Slid(bucket1)[h]
<1>1. /\ data \in Seq(Byte) /\ in_next \in Nat /\ Len(data) \in Nat
      /\ in_base_offset \in Nat
      /\ search.pc = "ready" /\ h \in Bucket
      /\ bucket0 \in [Bucket -> Entry] /\ bucket1 \in [Bucket -> Entry]
      /\ next_hashes \in Hashes
      /\ \A b \in Bucket : Sound(bucket0[b]) /\ Sound(bucket1[b])
  BY Basics DEF FinderInv, TypesHold, FamilyTypeOK, BucketsHold, HtLongestMatch
<1>2. /\ Base \in Nat /\ CurPos \in Nat /\ in_next = Base + CurPos
      /\ Base = 0 \/ WINDOW_SIZE <= Base
      /\ Base = 0 => CurPos < WINDOW_SIZE
  BY <1>1, Basics, BaseIsPlaced
<1>3. /\ Slid(bucket0) \in [Bucket -> Entry] /\ Slid(bucket1) \in [Bucket -> Entry]
      /\ \A b \in Bucket : Slid(bucket0)[b] # INITVAL =>
           /\ Base + Slid(bucket0)[b] >= 0
           /\ Base + Slid(bucket0)[b] < in_next
      /\ \A b \in Bucket : Slid(bucket1)[b] # INITVAL =>
           /\ Base + Slid(bucket1)[b] >= 0
           /\ Base + Slid(bucket1)[b] < in_next
  BY <1>1, SlidMoves, SlidSound
<1>4. /\ AsEntry(CurPos) \in Entry
      /\ Base + AsEntry(CurPos) >= 0
      /\ Base + AsEntry(CurPos) <= in_next
  <2>1. -WINDOW_SIZE <= CurPos /\ (Base = 0 => CurPos \in 0 .. (WINDOW_SIZE - 1))
    BY <1>2, MatchAssumption
  <2> HIDE DEF Base, CurPos, AsEntry
  <2> QED BY <1>2, <2>1, NewEntrySound
<1>5. /\ in_base_offset' = Base /\ in_next' = in_next + 1 /\ next_hashes' = NextHashes
      /\ UNCHANGED <<data, search>>
      /\ bucket0' = [Slid(bucket0) EXCEPT ![h] = AsEntry(CurPos)]
      /\ bucket1' = IF Live(node0, CurPos) THEN [Slid(bucket1) EXCEPT ![h] = node0]
                                           ELSE Slid(bucket1)
  BY DEF HtLongestMatch
<1>6. in_next + 1 <= Len(data) /\ in_next + max_len <= Len(data)
  <2>1. REQUIRED_NBYTES <= max_len
    BY DEF HtLongestMatch
  <2> QED BY <1>1, <2>1, MatchAssumption DEF Remaining
<1> HIDE DEF h
<1>7. /\ bucket0' \in [Bucket -> Entry] /\ bucket1' \in [Bucket -> Entry]
      /\ \A b \in Bucket : Sound(bucket0[b])' /\ Sound(bucket1[b])'
  <2> HIDE DEF Base, CurPos, AsEntry, Slid
  <2>1. bucket0' \in [Bucket -> Entry] /\ bucket1' \in [Bucket -> Entry]
    BY <1>1, <1>3, <1>4, <1>5
  <2>2. ASSUME NEW b \in Bucket PROVE Sound(bucket0[b])'
    <3>1. bucket0'[b] = IF b = h THEN AsEntry(CurPos) ELSE Slid(bucket0)[b]
      BY <1>1, <1>3, <1>5
    <3>2. Slid(bucket0)[b] \in Int /\ AsEntry(CurPos) \in Int
      BY <1>3, <1>4 DEF Entry
    <3>3. bucket0'[b] # INITVAL =>
            Base + bucket0'[b] >= 0 /\ Base + bucket0'[b] < in_next + 1
      BY <1>1, <1>2, <1>3, <1>4, <3>1, <3>2
    <3> QED BY <1>5, <3>3 DEF Sound
  <2>3. ASSUME NEW b \in Bucket PROVE Sound(bucket1[b])'
    <3>1. bucket1'[b] \in {Slid(bucket0)[h], Slid(bucket1)[b]}
      BY <1>1, <1>3, <1>5
    <3>2. Slid(bucket0)[h] \in Int /\ Slid(bucket1)[b] \in Int
      BY <1>1, <1>3 DEF Entry
    <3>3. bucket1'[b] # INITVAL =>
            Base + bucket1'[b] >= 0 /\ Base + bucket1'[b] < in_next + 1
      BY <1>1, <1>2, <1>3, <3>1, <3>2
    <3> QED BY <1>5, <3>3 DEF Sound
  <2> QED BY <2>1, <2>2, <2>3
<1>8. found' \in [length : Nat, offset : Nat, at : Nat] /\ MatchIsReal'
  <2>1. CASE FoundThis(0, 0)
    BY <1>1, <2>1 DEF FoundThis, MatchIsReal
  <2>2. CASE ~FoundThis(0, 0)
    <3>1. PICK node \in {node0, node1} :
            /\ Live(node, CurPos)
            /\ FoundThis(Extent(in_next, Base + node, max_len), CurPos - node)
      BY <2>2, Zenon DEF HtLongestMatch, h
    <3>2. node \in Entry /\ node # INITVAL
      BY <1>1, <1>2, <1>3, <3>1, LiveIsEntry
    <3>3. Base + node >= 0 /\ Base + node < in_next
      BY <1>1, <1>3, <3>1, <3>2
    <3> DEFINE length == Extent(in_next, Base + node, max_len)
    <3>4. length \in 0 .. max_len /\ Agree(in_next, Base + node, length)
      <4>1. Base + node \in Int /\ in_next \in Int
        BY <1>1, <1>2, <3>2 DEF Entry
      <4> QED BY <4>1, ExtentIsOne, Zenon
    <3>5. length \in Nat /\ in_next + length <= Len(data)
      <4> HIDE DEF length
      <4> QED BY <1>1, <1>6, <3>4
    <3> HIDE DEF length, node0, node1
    <3> QED BY <1>1, <1>5, <3>1, <3>2, <3>3, <3>4, <3>5, TableMatch DEF length
  <2> QED BY <2>1, <2>2
<1>9. FamilyTypeOK'
  <2>1. next_hashes' \in Hashes
    BY <1>1, <1>5, NextHashesAreHashes
  <2>2. in_next' \in 0 .. Len(data') /\ in_base_offset' \in Nat
    BY <1>1, <1>2, <1>5, <1>6
  <2> QED BY <1>5, <1>7, <1>8, <2>1, <2>2
           DEF FinderInv, TypesHold, FamilyTypeOK, hcVars, btVars, Hashes
<1>10. PlacesHold'
  BY SMTT(30), <1>1, <1>2, <1>5, Basics DEF FinderInv, PlacesHold, Following, Walking
<1>11. BucketsHold' /\ Bucketed
  BY <1>7 DEF BucketsHold, Bucketed
<1>12. search' \in Searches /\ search'.pc = "ready"
  BY <1>1, <1>5 DEF FinderInv, TypesHold
<1> QED BY <1>8, <1>9, <1>10, <1>11, <1>12, BucketStep

(* Nothing found is nothing wrong.                                         *)
LEMMA SpentIsReal ==
  ASSUME found' = Nothing
  PROVE  found' \in [length : Nat, offset : Nat, at : Nat] /\ MatchIsReal'
BY DEF Nothing, MatchIsReal

(* A match stays one while the input does not change.                      *)
LEMMA SameIsReal ==
  ASSUME MatchIsReal, UNCHANGED <<found, data>>
  PROVE  MatchIsReal'
BY DEF MatchIsReal, Agree

(* Entries stay sound through the slide at the start of a skip, which does *)
(* not wait for the position.                                              *)
LEMMA RebasedSound ==
  ASSUME NEW D, NEW tab \in [D -> Entry], in_base_offset \in Nat, NEW d \in D,
         Sound(tab[d]), Rebased(tab)[d] # INITVAL
  PROVE  /\ in_base_offset + WINDOW_SIZE + Rebased(tab)[d] >= 0
         /\ in_base_offset + WINDOW_SIZE + Rebased(tab)[d] < in_next
<1>1. /\ tab[d] # INITVAL
      /\ Rebased(tab)[d] = tab[d] - WINDOW_SIZE
  BY RebasedMoves
<1>2. tab[d] \in Int /\ WINDOW_SIZE \in Int
  BY MatchAssumption DEF Entry
<1> QED BY <1>1, <1>2 DEF Sound

(* A skip is a state of the search.                                        *)
LEMMA ReadyIsSearch ==
  ASSUME NEW left \in Nat, NEW pc \in {"ready", "ht_skip", "hc_skip"}
  PROVE  [Ready EXCEPT !.pc = pc, !.left = left] \in Searches
<1>1. INITVAL \in Entry
  BY MatchAssumption DEF INITVAL, Entry
<1>2. Ready \in Searches
  BY <1>1 DEF Ready, Searches
<1>3. \A s \in Searches : [s EXCEPT !.pc = pc, !.left = left] \in Searches
  BY DEF Searches
<1> QED BY <1>2, <1>3

(* ht.rs: skip_bytes, up to its loop.                                      *)
LEMMA HtSkipKeeps ==
  ASSUME FinderInv, kind = "ht", UNCHANGED <<kind, hcVars, btVars>>,
         NEW count \in 1 .. AtMost(Remaining, WINDOW_SIZE),
         HtSkip(count)
  PROVE  FinderInv' /\ MatchIsReal'
<1>1. /\ data \in Seq(Byte) /\ in_next \in Nat /\ Len(data) \in Nat
      /\ in_base_offset \in Nat /\ in_base_offset <= in_next
      /\ search.pc = "ready" /\ search \in Searches
      /\ bucket0 \in [Bucket -> Entry] /\ bucket1 \in [Bucket -> Entry]
      /\ next_hashes \in Hashes
      /\ \A b \in Bucket : Sound(bucket0[b]) /\ Sound(bucket1[b])
      /\ UNCHANGED <<data, next_hashes>>
  BY Basics DEF FinderInv, TypesHold, FamilyTypeOK, BucketsHold, HtSkip
<1>2. /\ count \in Nat /\ 1 <= count /\ count <= WINDOW_SIZE
      /\ in_next + count <= Len(data)
      /\ WINDOW_SIZE \in Nat \ {0} /\ REQUIRED_NBYTES \in Nat
  BY <1>1, MatchAssumption DEF AtMost, Remaining
<1>3. found' \in [length : Nat, offset : Nat, at : Nat] /\ MatchIsReal'
  BY SpentIsReal DEF HtSkip
<1>4. CASE count + REQUIRED_NBYTES > Remaining
  <2>1. in_next' = in_next + count /\ UNCHANGED <<htVars, in_base_offset, search>>
    BY <1>4 DEF HtSkip
  <2>2. BucketsHold'
    <3>1. ASSUME NEW b \in Bucket PROVE Sound(bucket0[b])' /\ Sound(bucket1[b])'
      <4>1. bucket0[b] \in Int /\ bucket1[b] \in Int
        BY <1>1 DEF Entry
      <4> QED BY <1>1, <1>2, <2>1, <4>1 DEF Sound, htVars
    <3> QED BY <3>1 DEF BucketsHold
  <2>3. FamilyTypeOK'
    BY <1>1, <1>2, <1>3, <2>1
       DEF FinderInv, TypesHold, FamilyTypeOK, hcVars, btVars, htVars
  <2>4. PlacesHold'
    BY <1>1, <1>2, <2>1, Basics DEF FinderInv, PlacesHold, Following, Walking
  <2> QED BY <1>1, <1>3, <2>1, <2>2, <2>3, <2>4, BucketStep DEF Bucketed
<1>5. CASE ~(count + REQUIRED_NBYTES > Remaining)
  <2>1. /\ search' = [Ready EXCEPT !.pc = "ht_skip", !.left = count]
        /\ in_next' = in_next
        /\ in_next + count + REQUIRED_NBYTES <= Len(data)
    BY <1>1, <1>2, <1>5 DEF HtSkip, Remaining
  <2>2. search'.pc = "ht_skip" /\ search'.left = count /\ search' \in Searches
    BY <1>2, <2>1, ReadyIsSearch DEF Ready
  <2>3. /\ FamilyTypeOK' /\ PlacesHold'
        /\ \A b \in Bucket : Sound(bucket0[b])' /\ Sound(bucket1[b])'
    <3>1. CASE HtSlides(count)
      <4>1. /\ in_base_offset' = in_base_offset + WINDOW_SIZE
            /\ bucket0' = Rebased(bucket0)
            /\ bucket1' = Rebased(bucket1)
            /\ in_next - in_base_offset + count - 1 >= WINDOW_SIZE
        BY <1>2, <1>5, <3>1 DEF HtSkip, HtSlides
      <4>2. ASSUME NEW b \in Bucket PROVE Sound(bucket0[b])' /\ Sound(bucket1[b])'
        BY <1>1, <2>1, <4>1, RebasedSound DEF Sound
      <4>3. bucket0' \in [Bucket -> Entry] /\ bucket1' \in [Bucket -> Entry]
        BY <1>1, <4>1, RebasedMoves
      <4>4. FamilyTypeOK'
        <5>1. in_base_offset' \in Nat /\ in_next' \in 0 .. Len(data')
          BY <1>1, <1>2, <2>1, <4>1
        <5> QED BY <1>1, <1>3, <2>2, <4>3, <5>1
           DEF FinderInv, TypesHold, FamilyTypeOK, hcVars, btVars, Searches
      <4>5. PlacesHold'
        BY <1>1, <1>2, <2>1, <2>2, <4>1 DEF PlacesHold, Following, Walking
      <4> QED BY <4>2, <4>4, <4>5
    <3>2. CASE ~HtSlides(count)
      <4>1. /\ UNCHANGED <<in_base_offset, bucket0, bucket1>>
            /\ in_next - in_base_offset + count - 1 < WINDOW_SIZE
        BY <1>1, <1>2, <1>5, <3>2 DEF HtSkip, HtSlides, htVars
      <4>2. ASSUME NEW b \in Bucket PROVE Sound(bucket0[b])' /\ Sound(bucket1[b])'
        BY <1>1, <2>1, <4>1 DEF Sound
      <4>4. FamilyTypeOK'
        BY <1>1, <1>2, <1>3, <2>1, <2>2, <4>1
           DEF FinderInv, TypesHold, FamilyTypeOK, hcVars, btVars, Searches
      <4>5. PlacesHold'
        BY SMTT(30), <1>1, <1>2, <2>1, <2>2, <4>1, Basics DEF PlacesHold, Following, Walking
      <4> QED BY <4>2, <4>4, <4>5
    <3> QED BY <3>1, <3>2
  <2>4. BucketsHold'
    BY <2>3 DEF BucketsHold
  <2> QED BY <1>3, <2>2, <2>3, <2>4, BucketStep DEF Bucketed
<1> QED BY <1>4, <1>5

(* The next turn of a skip. *)
LEMMA OneLess ==
  ASSUME search \in Searches, 1 <= search.left,
         search' = IF search.left = 1 THEN Ready ELSE [search EXCEPT !.left = @ - 1]
  PROVE  /\ search' \in Searches
         /\ \/ search.left = 1 /\ search'.pc = "ready"
            \/ /\ search.left # 1 /\ search'.pc = search.pc
               /\ search'.left = search.left - 1 /\ 1 <= search'.left
<1>1. CASE search.left = 1
  <2>1. Ready \in Searches
    BY MatchAssumption DEF Ready, Searches, INITVAL, Entry
  <2> QED BY <1>1, <2>1 DEF Ready
<1>2. CASE search.left # 1
  <2>1. search.left \in Nat /\ search.left - 1 \in Nat /\ 1 <= search.left - 1
    BY <1>2 DEF Searches
  <2>2. search' = [search EXCEPT !.left = search.left - 1]
    BY <1>2
  <2>3. [search EXCEPT !.left = search.left - 1] \in Searches
    BY <2>1 DEF Searches
  <2>4. search'.pc = search.pc /\ search'.left = search.left - 1
    BY <2>2 DEF Searches
  <2> QED BY <1>2, <2>1, <2>2, <2>3, <2>4
<1> QED BY <1>1, <1>2

(* One turn of that loop.                                                  *)
LEMMA HtSkipOneKeeps ==
  ASSUME FinderInv, UNCHANGED <<kind, hcVars, btVars>>, HtSkipOne
  PROVE  FinderInv'
<1> DEFINE h == next_hashes.long
           pos == in_next - in_base_offset
<1>1. /\ data \in Seq(Byte) /\ in_next \in Nat /\ Len(data) \in Nat
      /\ in_base_offset \in Nat
      /\ in_base_offset = 0 \/ WINDOW_SIZE <= in_base_offset
      /\ search.pc = "ht_skip" /\ search \in Searches /\ h \in Bucket
      /\ bucket0 \in [Bucket -> Entry] /\ bucket1 \in [Bucket -> Entry]
      /\ next_hashes \in Hashes
      /\ found \in [length : Nat, offset : Nat, at : Nat]
      /\ WINDOW_SIZE \in Nat \ {0} /\ REQUIRED_NBYTES \in Nat
  BY Basics, MatchAssumption DEF FinderInv, TypesHold, FamilyTypeOK, HtSkipOne
<1>2. /\ kind = "ht"
      /\ search.left \in Nat /\ 1 <= search.left
      /\ in_base_offset < in_next + search.left
      /\ in_base_offset <= in_next + WINDOW_SIZE
      /\ in_base_offset = 0 => in_next + search.left <= WINDOW_SIZE
      /\ in_next + search.left + REQUIRED_NBYTES <= Len(data)
  BY <1>1 DEF FinderInv, PlacesHold, Searches
<1>3. /\ in_next' = in_next + 1 /\ next_hashes' = NextHashes
      /\ UNCHANGED <<data, in_base_offset, found>>
      /\ bucket1' = [bucket1 EXCEPT ![h] = bucket0[h]]
      /\ bucket0' = [bucket0 EXCEPT ![h] = AsEntry(pos)]
  BY DEF HtSkipOne
<1>4. /\ search' \in Searches
      /\ \/ search.left = 1 /\ search'.pc = "ready"
         \/ /\ search.left # 1 /\ search'.pc = "ht_skip"
            /\ search'.left = search.left - 1 /\ 1 <= search'.left
  BY <1>1, <1>2, OneLess DEF HtSkipOne
<1>5. /\ AsEntry(pos) \in Entry
      /\ in_base_offset + AsEntry(pos) >= 0
      /\ in_base_offset + AsEntry(pos) < in_next + 1
  <2>1. /\ pos \in Int /\ -WINDOW_SIZE <= pos
        /\ in_base_offset = 0 => pos \in 0 .. (WINDOW_SIZE - 1)
        /\ in_base_offset + pos = in_next
    BY <1>1, <1>2
  <2> HIDE DEF pos, AsEntry
  <2>2. /\ AsEntry(pos) \in Entry
        /\ in_base_offset + AsEntry(pos) >= 0
        /\ in_base_offset + AsEntry(pos) <= in_base_offset + pos
    BY <1>1, <2>1, NewEntrySound
  <2> QED BY <1>1, <2>1, <2>2 DEF Entry
<1> HIDE DEF h, pos, AsEntry
<1>6. /\ bucket0' \in [Bucket -> Entry] /\ bucket1' \in [Bucket -> Entry]
      /\ \A b \in Bucket : Sound(bucket0[b])' /\ Sound(bucket1[b])'
  <2>1. \A b \in Bucket : Sound(bucket0[b]) /\ Sound(bucket1[b])
    BY <1>2 DEF FinderInv, BucketsHold
  <2>2. bucket0' \in [Bucket -> Entry] /\ bucket1' \in [Bucket -> Entry]
    BY <1>1, <1>3, <1>5
  <2>3. ASSUME NEW b \in Bucket PROVE Sound(bucket0[b])' /\ Sound(bucket1[b])'
    <3>1. /\ bucket0'[b] = IF b = h THEN AsEntry(pos) ELSE bucket0[b]
          /\ bucket1'[b] \in {bucket0[b], bucket1[b]}
      BY <1>1, <1>3
    <3>2. bucket0[b] \in Int /\ bucket1[b] \in Int
      BY <1>1 DEF Entry
    <3> QED BY <1>1, <1>3, <1>5, <2>1, <3>1, <3>2 DEF Sound
  <2> QED BY <2>2, <2>3
<1>7. FamilyTypeOK'
  <2>1. next_hashes' \in Hashes
    BY <1>1, <1>3, NextHashesAreHashes
  <2>2. in_next' \in 0 .. Len(data')
    BY <1>1, <1>2, <1>3
  <2> QED BY <1>1, <1>3, <1>4, <1>6, <2>1, <2>2
           DEF FinderInv, TypesHold, FamilyTypeOK, hcVars, btVars, Hashes, Searches
<1>8. PlacesHold'
  BY SMTT(30), <1>1, <1>2, <1>3, <1>4 DEF PlacesHold, Following, Walking
<1>9. BucketsHold' /\ Bucketed
  BY <1>2, <1>6 DEF BucketsHold, Bucketed
<1> QED BY <1>4, <1>7, <1>8, <1>9, BucketStep

(* turbo.rs: longest_match.                                                *)
LEMMA TurboSearchKeeps ==
  ASSUME FinderInv, kind = "turbo", UNCHANGED <<kind, hcVars, btVars>>,
         NEW max_len \in Nat, max_len <= Remaining,
         TurboLongestMatch(max_len)
  PROVE  FinderInv' /\ MatchIsReal'
<1> DEFINE h == next_hashes.long
           node == Slid(bucket0)[h]
<1>1. /\ data \in Seq(Byte) /\ in_next \in Nat /\ Len(data) \in Nat
      /\ in_base_offset \in Nat
      /\ search.pc = "ready" /\ h \in Bucket
      /\ bucket0 \in [Bucket -> Entry] /\ bucket1 \in [Bucket -> Entry]
      /\ next_hashes \in Hashes
      /\ \A b \in Bucket : Sound(bucket0[b]) /\ bucket1[b] = INITVAL
  BY Basics DEF FinderInv, TypesHold, FamilyTypeOK, BucketsHold, TurboLongestMatch
<1>2. /\ Base \in Nat /\ CurPos \in Nat /\ in_next = Base + CurPos
      /\ Base = 0 \/ WINDOW_SIZE <= Base
      /\ Base = 0 => CurPos < WINDOW_SIZE
  BY <1>1, Basics, BaseIsPlaced
<1>3. /\ Slid(bucket0) \in [Bucket -> Entry]
      /\ \A b \in Bucket : Slid(bucket0)[b] # INITVAL =>
           /\ Base + Slid(bucket0)[b] >= 0
           /\ Base + Slid(bucket0)[b] < in_next
  BY <1>1, SlidMoves, SlidSound
<1>4. /\ AsEntry(CurPos) \in Entry
      /\ Base + AsEntry(CurPos) >= 0
      /\ Base + AsEntry(CurPos) <= in_next
  <2>1. -WINDOW_SIZE <= CurPos /\ (Base = 0 => CurPos \in 0 .. (WINDOW_SIZE - 1))
    BY <1>2, MatchAssumption
  <2> HIDE DEF Base, CurPos, AsEntry
  <2> QED BY <1>2, <2>1, NewEntrySound
<1>5. /\ in_base_offset' = Base /\ in_next' = in_next + 1 /\ next_hashes' = NextHashes
      /\ UNCHANGED <<data, search, bucket1>>
      /\ bucket0' = [Slid(bucket0) EXCEPT ![h] = AsEntry(CurPos)]
  BY DEF TurboLongestMatch
<1>6. in_next + 1 <= Len(data) /\ in_next + max_len <= Len(data)
  <2>1. REQUIRED_NBYTES <= max_len
    BY DEF TurboLongestMatch
  <2> QED BY <1>1, <2>1, MatchAssumption DEF Remaining
<1> HIDE DEF h
<1>7. /\ bucket0' \in [Bucket -> Entry]
      /\ \A b \in Bucket : Sound(bucket0[b])' /\ Sound(bucket1[b])' /\ bucket1'[b] = INITVAL
  <2> HIDE DEF Base, CurPos, AsEntry, Slid
  <2>1. bucket0' \in [Bucket -> Entry]
    BY <1>1, <1>3, <1>4, <1>5
  <2>2. ASSUME NEW b \in Bucket PROVE Sound(bucket0[b])'
    <3>1. bucket0'[b] = IF b = h THEN AsEntry(CurPos) ELSE Slid(bucket0)[b]
      BY <1>1, <1>3, <1>5
    <3>2. Slid(bucket0)[b] \in Int /\ AsEntry(CurPos) \in Int
      BY <1>3, <1>4 DEF Entry
    <3>3. bucket0'[b] # INITVAL =>
            Base + bucket0'[b] >= 0 /\ Base + bucket0'[b] < in_next + 1
      BY <1>1, <1>2, <1>3, <1>4, <3>1, <3>2
    <3> QED BY <1>5, <3>3 DEF Sound
  <2>3. \A b \in Bucket : Sound(bucket1[b])' /\ bucket1'[b] = INITVAL
    BY <1>1, <1>5 DEF Sound
  <2> QED BY <2>1, <2>2, <2>3
<1>8. found' \in [length : Nat, offset : Nat, at : Nat] /\ MatchIsReal'
  <2>1. CASE FoundThis(0, 0)
    BY <1>1, <2>1 DEF FoundThis, MatchIsReal
  <2>2. CASE ~FoundThis(0, 0)
    <3>1. /\ Live(node, CurPos)
          /\ FoundThis(Extent(in_next, Base + node, max_len), CurPos - node)
      BY <2>2, Zenon DEF TurboLongestMatch, h
    <3>2. node \in Entry /\ node # INITVAL
      BY <1>1, <1>2, <1>3, <3>1, LiveIsEntry
    <3>3. Base + node >= 0 /\ Base + node < in_next
      BY <1>1, <1>3, <3>1, <3>2
    <3> DEFINE length == Extent(in_next, Base + node, max_len)
    <3>4. length \in 0 .. max_len /\ Agree(in_next, Base + node, length)
      <4>1. Base + node \in Int /\ in_next \in Int
        BY <1>1, <1>2, <3>2 DEF Entry
      <4> QED BY <4>1, ExtentIsOne, Zenon
    <3>5. length \in Nat /\ in_next + length <= Len(data)
      <4> HIDE DEF length
      <4> QED BY <1>1, <1>6, <3>4
    <3> HIDE DEF length, node
    <3> QED BY <1>1, <1>5, <3>1, <3>2, <3>3, <3>4, <3>5, TableMatch DEF length
  <2> QED BY <2>1, <2>2
<1>9. FamilyTypeOK'
  <2>1. next_hashes' \in Hashes
    BY <1>1, <1>5, NextHashesAreHashes
  <2>2. in_next' \in 0 .. Len(data') /\ in_base_offset' \in Nat
    BY <1>1, <1>2, <1>5, <1>6
  <2> QED BY <1>1, <1>5, <1>7, <1>8, <2>1, <2>2
           DEF FinderInv, TypesHold, FamilyTypeOK, hcVars, btVars, Hashes
<1>10. PlacesHold'
  BY <1>1, <1>2, <1>5, Basics DEF FinderInv, PlacesHold, Following, Walking
<1>11. BucketsHold' /\ Bucketed
  BY <1>7 DEF BucketsHold, Bucketed
<1>12. search' \in Searches /\ search'.pc = "ready"
  BY <1>1, <1>5 DEF FinderInv, TypesHold
<1> QED BY <1>8, <1>9, <1>10, <1>11, <1>12, BucketStep

(* The last of the skipped positions that are inserted in a bucket.        *)
LEMMA LastOfIsOne ==
  ASSUME NEW count \in Nat, 1 <= count, NEW hits, hits \subseteq Updated(count), hits # {}
  PROVE  LastOf(hits) \in hits /\ LastOf(hits) \in 0 .. (count - 1)
<1>1. Updated(count) \subseteq 0 .. (count - 1)
  <2>1. count \div 2 \in 0 .. (count - 1)
    OBVIOUS
  <2> QED BY <2>1 DEF Updated
<1>2. count - 1 \in Nat /\ hits \subseteq 0 .. (count - 1)
  BY <1>1
<1>3. \E i \in hits : \A j \in hits : j <= i
  BY <1>2, GreatestNumber
<1>4. LastOf(hits) \in hits
  BY <1>3 DEF LastOf
<1> QED BY <1>2, <1>4

(* What the skips of the turbo and the fast_ht tables leave in a bucket    *)
(* is an entry it had, or the position of one of the skipped bytes.        *)
LEMMA SkippedEntries ==
  ASSUME NEW count \in Nat, 1 <= count, NEW b \in Bucket,
         NEW entry0 \in Entry, NEW entry1 \in Entry, NEW base \in Nat, NEW cur \in Int,
         base = 0 \/ WINDOW_SIZE <= base, -WINDOW_SIZE <= cur,
         base = 0 => 0 <= cur /\ cur + count <= WINDOW_SIZE,
         NEW next \in Nat, next = base + cur + count,
         entry0 # INITVAL => base + entry0 >= 0 /\ base + entry0 < next,
         entry1 # INITVAL => base + entry1 >= 0 /\ base + entry1 < next
  PROVE  LET hits == Hits(count, b)
             latest == Latest(entry0, hits, cur)
             before == Before(entry0, entry1, hits, cur)
         IN  /\ latest \in Entry /\ before \in Entry
             /\ latest # INITVAL => base + latest >= 0 /\ base + latest < next
             /\ before # INITVAL => base + before >= 0 /\ base + before < next
<1> DEFINE Good(node) == /\ node \in Entry
                         /\ node # INITVAL => base + node >= 0 /\ base + node < next
<1>1. ASSUME NEW i \in 0 .. (count - 1) PROVE Good(Inserted(cur, i))
  <2>1. /\ cur + i \in Int /\ -WINDOW_SIZE <= cur + i
        /\ base = 0 => cur + i \in 0 .. (WINDOW_SIZE - 1)
        /\ base + (cur + i) < next
    BY MatchAssumption
  <2>2. /\ AsEntry(cur + i) \in Entry
        /\ base + AsEntry(cur + i) >= 0
        /\ base + AsEntry(cur + i) <= base + (cur + i)
    <3> HIDE DEF AsEntry
    <3> QED BY <2>1, NewEntrySound
  <2> HIDE DEF AsEntry
  <2> QED BY <2>1, <2>2 DEF Inserted, Entry
<1>2. ASSUME NEW hits, hits \subseteq Updated(count) PROVE Good(Latest(entry0, hits, cur))
  <2>1. CASE hits = {}
    BY <2>1 DEF Latest
  <2>2. CASE hits # {}
    <3>1. LastOf(hits) \in 0 .. (count - 1)
      BY <1>2, <2>2, LastOfIsOne
    <3>2. Good(Inserted(cur, LastOf(hits)))
      <4> HIDE DEF Good
      <4> QED BY <1>1, <3>1
    <3> QED BY <2>2, <3>2 DEF Latest
  <2> QED BY <2>1, <2>2
<1>3. Hits(count, b) \subseteq Updated(count)
  BY DEF Hits
<1>4. Good(Before(entry0, entry1, Hits(count, b), cur))
  <2> DEFINE rest == Hits(count, b) \ {LastOf(Hits(count, b))}
  <2>1. Good(entry1) /\ Good(Latest(entry0, rest, cur))
    <3>1. rest \subseteq Updated(count)
      BY <1>3
    <3> HIDE DEF rest
    <3> QED BY <1>2, <3>1
  <2> HIDE DEF Good
  <2> QED BY <2>1 DEF Before
<1>5. Good(Latest(entry0, Hits(count, b), cur))
  BY <1>2, <1>3
<1> QED BY <1>4, <1>5

(* turbo.rs and fast_ht.rs: skip_bytes.                                    *)
LEMMA LimitedSkipKeeps ==
  ASSUME FinderInv, Limited, UNCHANGED <<kind, hcVars, btVars>>,
         NEW count \in 1 .. AtMost(Remaining, WINDOW_SIZE),
         LimitedSkip(count, kind = "fast_ht")
  PROVE  FinderInv' /\ MatchIsReal'
<1>1. /\ data \in Seq(Byte) /\ in_next \in Nat /\ Len(data) \in Nat
      /\ in_base_offset \in Nat /\ in_base_offset <= in_next
      /\ in_base_offset = 0 \/ WINDOW_SIZE <= in_base_offset
      /\ search.pc = "ready" /\ search \in Searches
      /\ bucket0 \in [Bucket -> Entry] /\ bucket1 \in [Bucket -> Entry]
      /\ next_hashes \in Hashes
      /\ kind \in {"turbo", "fast_ht"}
      /\ UNCHANGED <<data, search>> /\ in_next' = in_next + count
  BY Basics DEF FinderInv, TypesHold, FamilyTypeOK, LimitedSkip, Limited
<1>2. \A b \in Bucket : /\ Sound(bucket0[b]) /\ Sound(bucket1[b])
                        /\ kind = "turbo" => bucket1[b] = INITVAL
  BY <1>1 DEF FinderInv, BucketsHold
<1>3. /\ count \in Nat /\ 1 <= count /\ count <= WINDOW_SIZE
      /\ in_next + count <= Len(data)
      /\ WINDOW_SIZE \in Nat \ {0} /\ REQUIRED_NBYTES \in Nat
  BY <1>1, MatchAssumption DEF AtMost, Remaining
<1>4. found' \in [length : Nat, offset : Nat, at : Nat] /\ MatchIsReal'
  BY SpentIsReal DEF LimitedSkip
<1>5. CASE count + REQUIRED_NBYTES > Remaining
  <2>1. UNCHANGED <<htVars, in_base_offset, next_hashes>>
    BY <1>5 DEF LimitedSkip
  <2>2. BucketsHold'
    <3>1. ASSUME NEW b \in Bucket PROVE Sound(bucket0[b])' /\ Sound(bucket1[b])'
      <4>1. bucket0[b] \in Int /\ bucket1[b] \in Int
        BY <1>1 DEF Entry
      <4> QED BY <1>1, <1>2, <1>3, <2>1, <4>1 DEF Sound, htVars
    <3> QED BY <1>2, <2>1, <3>1 DEF BucketsHold, htVars
  <2>3. FamilyTypeOK'
    BY <1>1, <1>3, <1>4, <2>1
       DEF FinderInv, TypesHold, FamilyTypeOK, hcVars, btVars, htVars
  <2>4. PlacesHold'
    BY <1>1, <1>3, <2>1 DEF PlacesHold, Following, Walking
  <2> QED BY <1>1, <1>4, <2>2, <2>3, <2>4, BucketStep DEF Bucketed
<1>6. CASE ~(count + REQUIRED_NBYTES > Remaining)
  <2> DEFINE base == IF HtSlides(count) THEN in_base_offset + WINDOW_SIZE ELSE in_base_offset
             tab0 == IF HtSlides(count) THEN Rebased(bucket0) ELSE bucket0
             tab1 == IF HtSlides(count) THEN Rebased(bucket1) ELSE bucket1
             cur == in_next - base
  <2>1. /\ bucket0' = [b \in Bucket |-> Latest(tab0[b], Hits(count, b), cur)]
        /\ bucket1' = IF kind = "fast_ht"
                        THEN [b \in Bucket |-> Before(tab0[b], tab1[b], Hits(count, b), cur)]
                        ELSE bucket1
        /\ in_base_offset' = base
        /\ next_hashes' = [next_hashes EXCEPT !.long = LongHashAt(in_next + count)]
    <3>1. ~(count = 0 \/ count + REQUIRED_NBYTES > Remaining)
      BY <1>3, <1>6
    <3> QED BY <3>1, Zenon DEF LimitedSkip
  <2>2. in_next + count + REQUIRED_NBYTES <= Len(data)
    BY <1>1, <1>3, <1>6 DEF Remaining
  <2>3. /\ base \in Nat /\ cur \in Int /\ -WINDOW_SIZE <= cur
        /\ base = 0 \/ WINDOW_SIZE <= base
        /\ base = 0 => 0 <= cur /\ cur + count <= WINDOW_SIZE
        /\ in_next + count = base + cur + count
        /\ base <= in_next + count
    BY <1>1, <1>3 DEF HtSlides
  <2>4. /\ tab0 \in [Bucket -> Entry] /\ tab1 \in [Bucket -> Entry]
        /\ \A b \in Bucket :
             /\ tab0[b] # INITVAL => base + tab0[b] >= 0 /\ base + tab0[b] < in_next + count
             /\ tab1[b] # INITVAL => base + tab1[b] >= 0 /\ base + tab1[b] < in_next + count
    <3>1. CASE HtSlides(count)
      <4>1. Rebased(bucket0) \in [Bucket -> Entry] /\ Rebased(bucket1) \in [Bucket -> Entry]
        BY <1>1, RebasedMoves
      <4>2. ASSUME NEW b \in Bucket
            PROVE  /\ Rebased(bucket0)[b] # INITVAL =>
                        /\ base + Rebased(bucket0)[b] >= 0
                        /\ base + Rebased(bucket0)[b] < in_next + count
                   /\ Rebased(bucket1)[b] # INITVAL =>
                        /\ base + Rebased(bucket1)[b] >= 0
                        /\ base + Rebased(bucket1)[b] < in_next + count
        <5>1. Rebased(bucket0)[b] \in Int /\ Rebased(bucket1)[b] \in Int
          BY <4>1 DEF Entry
        <5>2. base = in_base_offset + WINDOW_SIZE
          BY <3>1
        <5> HIDE DEF base
        <5> QED BY SMTT(30), <1>1, <1>2, <1>3, <5>1, <5>2, RebasedSound
      <4> QED BY <3>1, <4>1, <4>2
    <3>2. CASE ~HtSlides(count)
      <4>1. \A b \in Bucket : bucket0[b] \in Int /\ bucket1[b] \in Int
        BY <1>1 DEF Entry
      <4> QED BY <1>1, <1>2, <1>3, <3>2, <4>1 DEF Sound
    <3> QED BY <3>1, <3>2
  <2> HIDE DEF base, tab0, tab1, cur
  <2>5. ASSUME NEW b \in Bucket
        PROVE  LET latest == Latest(tab0[b], Hits(count, b), cur)
                   before == Before(tab0[b], tab1[b], Hits(count, b), cur)
               IN  /\ latest \in Entry /\ before \in Entry
                   /\ latest # INITVAL => base + latest >= 0 /\ base + latest < in_next + count
                   /\ before # INITVAL => base + before >= 0 /\ base + before < in_next + count
    <3>1. /\ tab0[b] \in Entry /\ tab1[b] \in Entry /\ in_next + count \in Nat
          /\ tab0[b] # INITVAL => base + tab0[b] >= 0 /\ base + tab0[b] < in_next + count
          /\ tab1[b] # INITVAL => base + tab1[b] >= 0 /\ base + tab1[b] < in_next + count
      BY <1>1, <1>3, <2>4
    <3> HIDE DEF Latest, Before, Hits, Entry, INITVAL
    <3> QED BY <1>3, <2>3, <3>1, SkippedEntries
  <2>6. /\ bucket0' \in [Bucket -> Entry] /\ bucket1' \in [Bucket -> Entry]
        /\ \A b \in Bucket : /\ Sound(bucket0[b])' /\ Sound(bucket1[b])'
                             /\ kind = "turbo" => bucket1'[b] = INITVAL
    <3> HIDE DEF Latest, Before, Hits
    <3>1. /\ bucket0' \in [Bucket -> Entry]
          /\ \A b \in Bucket : Sound(bucket0[b])'
      BY <1>1, <2>1, <2>5 DEF Sound
    <3>2. CASE kind = "fast_ht"
      BY <1>1, <2>1, <2>5, <3>1, <3>2 DEF Sound
    <3>3. CASE kind = "turbo"
      BY <1>1, <1>2, <2>1, <3>1, <3>3 DEF Sound
    <3> QED BY <1>1, <3>2, <3>3
  <2>7. FamilyTypeOK'
    <3>1. next_hashes' \in Hashes
      <4>1. LongHashAt(in_next + count) \in Bucket
        BY <1>1, <1>3, <2>2, HashesAreBuckets, MatchAssumption
      <4> QED BY <1>1, <2>1, <4>1 DEF Hashes
    <3>2. in_next' \in 0 .. Len(data') /\ in_base_offset' \in Nat
      BY <1>1, <1>3, <2>1, <2>3
    <3> QED BY <1>1, <1>4, <2>6, <3>1, <3>2
             DEF FinderInv, TypesHold, FamilyTypeOK, hcVars, btVars, Hashes
  <2>8. PlacesHold'
    BY <1>1, <1>3, <2>1, <2>3 DEF PlacesHold, Following, Walking
  <2>9. BucketsHold'
    BY <2>6 DEF BucketsHold
  <2> QED BY <1>1, <1>4, <2>7, <2>8, <2>9, BucketStep DEF Bucketed
<1> QED BY <1>5, <1>6

(* What a step of the chains has to keep. *)
LEMMA ChainStep ==
  ASSUME FinderInv, kind = "hc", UNCHANGED <<kind, htVars, btVars>>,
         FamilyTypeOK', search' \in Searches, PlacesHold', ChainsHold', SearchHolds',
         search'.pc \notin {"tree", "branch"}
  PROVE  FinderInv'
<1>1. kind' = kind /\ walk' = walk
  BY DEF htVars, btVars
<1>2. TypesHold'
  BY <1>1 DEF FinderInv, TypesHold
<1>3. BucketsHold' /\ TreesHold'
  BY <1>1 DEF BucketsHold, TreesHold
<1>4. WalkHolds'
  BY DEF WalkHolds, Walking
<1> QED BY <1>2, <1>3, <1>4 DEF FinderInv

(* Links stay strict through a slide,                                      *)
LEMMA SlidStrict ==
  ASSUME NEW D, NEW tab \in [D -> Entry], in_base_offset \in Nat, NEW d \in D,
         Strict(tab[d]), Slid(tab)[d] # INITVAL
  PROVE  /\ Base + Slid(tab)[d] >= 0
         /\ Base + Slid(tab)[d] + 1 < in_next
BY SlidMoves DEF Strict

(* and keep leading to slots written.                                      *)
LEMMA SlidPlanted ==
  ASSUME NEW D, NEW tab \in [D -> Entry], in_base_offset \in Nat, NEW d \in D,
         Planted(tab[d]), Slid(tab)[d] # INITVAL
  PROVE  Slot(Slid(tab)[d]) \in linked
BY SlidMoves DEF Planted

(* The tables of the chains before a position is inserted, slid. *)
LEMMA ChainsSlide ==
  ASSUME FinderInv, kind = "hc", search.pc \in {"ready", "hc_skip"}
  PROVE  /\ Slid(hash3_tab) \in [Bucket -> Entry]
         /\ Slid(hash4_tab) \in [Bucket -> Entry]
         /\ Slid(next_tab) \in [0 .. (WINDOW_SIZE - 1) -> Entry]
         /\ \A b \in Bucket : Slid(hash3_tab)[b] # INITVAL =>
              /\ Base + Slid(hash3_tab)[b] >= 0
              /\ Base + Slid(hash3_tab)[b] < in_next
         /\ \A b \in Bucket : Slid(hash4_tab)[b] # INITVAL =>
              /\ Base + Slid(hash4_tab)[b] >= 0
              /\ Base + Slid(hash4_tab)[b] < in_next
              /\ Slot(Slid(hash4_tab)[b]) \in linked
         /\ \A s \in linked : Slid(next_tab)[s] # INITVAL =>
              /\ Base + Slid(next_tab)[s] >= 0
              /\ Base + Slid(next_tab)[s] + 1 < in_next
              /\ Slot(Slid(next_tab)[s]) \in linked
<1>1. /\ in_base_offset \in Nat
      /\ hash3_tab \in [Bucket -> Entry] /\ hash4_tab \in [Bucket -> Entry]
      /\ next_tab \in [0 .. (WINDOW_SIZE - 1) -> Entry]
      /\ linked \subseteq 0 .. (WINDOW_SIZE - 1)
  BY DEF FinderInv, TypesHold, FamilyTypeOK
<1>2. /\ \A b \in Bucket : Sound(hash3_tab[b]) /\ Sound(hash4_tab[b]) /\ Planted(hash4_tab[b])
      /\ \A s \in linked : Strict(next_tab[s]) /\ Planted(next_tab[s])
  BY DEF FinderInv, ChainsHold
<1>3. ASSUME NEW b \in Bucket, Slid(hash3_tab)[b] # INITVAL
      PROVE  Base + Slid(hash3_tab)[b] >= 0 /\ Base + Slid(hash3_tab)[b] < in_next
  BY <1>1, <1>2, <1>3, SlidSound
<1>4. ASSUME NEW b \in Bucket, Slid(hash4_tab)[b] # INITVAL
      PROVE  /\ Base + Slid(hash4_tab)[b] >= 0
             /\ Base + Slid(hash4_tab)[b] < in_next
             /\ Slot(Slid(hash4_tab)[b]) \in linked
  BY <1>1, <1>2, <1>4, SlidSound, SlidPlanted
<1>5. ASSUME NEW s \in linked, Slid(next_tab)[s] # INITVAL
      PROVE  /\ Base + Slid(next_tab)[s] >= 0
             /\ Base + Slid(next_tab)[s] + 1 < in_next
             /\ Slot(Slid(next_tab)[s]) \in linked
  <2>1. s \in 0 .. (WINDOW_SIZE - 1)
    BY <1>1
  <2> QED BY <1>1, <1>2, <1>5, <2>1, SlidStrict, SlidPlanted
<1> QED BY <1>1, <1>3, <1>4, <1>5, SlidMoves

(* hc.rs: a position becomes the head of its chain.                        *)
LEMMA InsertKeepsChains ==
  ASSUME FinderInv, kind = "hc", search.pc \in {"ready", "hc_skip"}, kind' = kind,
         HcInsert(CurPos), in_next' = in_next + 1
  PROVE  /\ hash3_tab' \in [Bucket -> Entry] /\ hash4_tab' \in [Bucket -> Entry]
         /\ next_tab' \in [0 .. (WINDOW_SIZE - 1) -> Entry]
         /\ linked' \subseteq 0 .. (WINDOW_SIZE - 1)
         /\ linked \subseteq linked'
         /\ in_base_offset' = Base
         /\ ChainsHold'
<1> DEFINE short == next_hashes.short
           long == next_hashes.long
           slot == Slot(CurPos)
           head == Slid(hash4_tab)[long]
           entry == AsEntry(CurPos)
<1>1. /\ in_next \in Nat /\ short \in Bucket /\ long \in Bucket
      /\ linked \subseteq 0 .. (WINDOW_SIZE - 1)
  BY Basics DEF FinderInv, TypesHold, FamilyTypeOK
<1>2. /\ Base \in Nat /\ CurPos \in Nat /\ in_next = Base + CurPos
      /\ Base = 0 \/ WINDOW_SIZE <= Base
      /\ Base = 0 => CurPos < WINDOW_SIZE
  BY Basics, BaseIsPlaced
<1>3. slot \in 0 .. (WINDOW_SIZE - 1)
  <2> HIDE DEF CurPos, Slot
  <2> QED BY <1>2, SlotIsSlot
<1>4. /\ entry \in Entry
      /\ Base + entry >= 0
      /\ Base + entry < in_next + 1
      /\ Slot(entry) = slot
  <2>1. -WINDOW_SIZE <= CurPos /\ (Base = 0 => CurPos \in 0 .. (WINDOW_SIZE - 1))
    BY <1>2, MatchAssumption
  <2> HIDE DEF Base, CurPos, AsEntry, Slot
  <2>2. /\ AsEntry(CurPos) \in Entry
        /\ Base + AsEntry(CurPos) >= 0
        /\ Base + AsEntry(CurPos) <= Base + CurPos
    BY <1>2, <2>1, NewEntrySound
  <2> QED BY <1>2, <2>2, EntryOfPosition DEF Entry
<1>5. /\ hash3_tab' = [Slid(hash3_tab) EXCEPT ![short] = entry]
      /\ hash4_tab' = [Slid(hash4_tab) EXCEPT ![long] = entry]
      /\ next_tab' = [Slid(next_tab) EXCEPT ![slot] = head]
      /\ linked' = linked \cup {slot}
      /\ in_base_offset' = Base
  BY DEF HcInsert
<1> HIDE DEF short, long, slot, entry, Base, CurPos, Slot, Slid
<1>6. /\ hash3_tab' \in [Bucket -> Entry] /\ hash4_tab' \in [Bucket -> Entry]
      /\ next_tab' \in [0 .. (WINDOW_SIZE - 1) -> Entry]
      /\ linked' \subseteq 0 .. (WINDOW_SIZE - 1)
      /\ linked \subseteq linked'
  <2>1. Slid(hash4_tab)[long] \in Entry
    BY <1>1, ChainsSlide
  <2> QED BY <1>1, <1>3, <1>4, <1>5, <2>1, ChainsSlide
<1>7. ASSUME NEW b \in Bucket PROVE Sound(hash3_tab[b])'
  <2>1. hash3_tab'[b] = IF b = short THEN entry ELSE Slid(hash3_tab)[b]
    BY <1>1, <1>5, ChainsSlide
  <2>2. Slid(hash3_tab)[b] \in Int /\ entry \in Int
    BY <1>4, ChainsSlide DEF Entry
  <2>3. Slid(hash3_tab)[b] # INITVAL =>
          Base + Slid(hash3_tab)[b] >= 0 /\ Base + Slid(hash3_tab)[b] < in_next
    BY ChainsSlide
  <2>4. hash3_tab'[b] # INITVAL =>
          Base + hash3_tab'[b] >= 0 /\ Base + hash3_tab'[b] < in_next + 1
    BY <1>1, <1>2, <1>4, <2>1, <2>2, <2>3
  <2> QED BY <1>5, <2>4 DEF Sound
<1>8. ASSUME NEW b \in Bucket PROVE Sound(hash4_tab[b])' /\ Planted(hash4_tab[b])'
  <2>1. hash4_tab'[b] = IF b = long THEN entry ELSE Slid(hash4_tab)[b]
    BY <1>1, <1>5, ChainsSlide
  <2>2. Slid(hash4_tab)[b] \in Int /\ entry \in Int
    BY <1>4, ChainsSlide DEF Entry
  <2>3. Slid(hash4_tab)[b] # INITVAL =>
          /\ Base + Slid(hash4_tab)[b] >= 0 /\ Base + Slid(hash4_tab)[b] < in_next
          /\ Slot(Slid(hash4_tab)[b]) \in linked
    BY ChainsSlide
  <2>4. hash4_tab'[b] # INITVAL =>
          Base + hash4_tab'[b] >= 0 /\ Base + hash4_tab'[b] < in_next + 1
    BY <1>1, <1>2, <1>4, <2>1, <2>2, <2>3
  <2>5. hash4_tab'[b] # INITVAL => Slot(hash4_tab'[b]) \in linked'
    BY <1>4, <1>5, <2>1, <2>3
  <2> QED BY <1>5, <2>4, <2>5 DEF Sound, Planted, Slot
<1>9. ASSUME NEW s \in linked' PROVE Strict(next_tab[s])' /\ Planted(next_tab[s])'
  <2>1. s \in 0 .. (WINDOW_SIZE - 1) /\ (s # slot => s \in linked)
    BY <1>5, <1>6
  <2>2. next_tab'[s] = IF s = slot THEN head ELSE Slid(next_tab)[s]
    BY <1>3, <1>5, <2>1, ChainsSlide
  <2>3. Slid(next_tab)[s] \in Int /\ head \in Int
    <3>1. Slid(next_tab)[s] \in Entry
      BY <2>1, ChainsSlide
    <3>2. head \in Entry
      BY <1>1, ChainsSlide
    <3> HIDE DEF head
    <3> QED BY <3>1, <3>2 DEF Entry
  <2>4. head # INITVAL =>
          Base + head >= 0 /\ Base + head < in_next /\ Slot(head) \in linked
    BY <1>1, ChainsSlide
  <2>5. s # slot /\ Slid(next_tab)[s] # INITVAL =>
          /\ Base + Slid(next_tab)[s] >= 0 /\ Base + Slid(next_tab)[s] + 1 < in_next
          /\ Slot(Slid(next_tab)[s]) \in linked
    BY <2>1, ChainsSlide
  <2> HIDE DEF head
  <2>6. next_tab'[s] # INITVAL =>
          Base + next_tab'[s] >= 0 /\ Base + next_tab'[s] + 1 < in_next + 1
    BY <1>1, <1>2, <2>2, <2>3, <2>4, <2>5
  <2>7. next_tab'[s] # INITVAL => Slot(next_tab'[s]) \in linked'
    BY <1>5, <2>2, <2>4, <2>5
  <2> QED BY <1>5, <2>6, <2>7 DEF Strict, Planted, Slot
<1> QED BY <1>5, <1>6, <1>7, <1>8, <1>9 DEF ChainsHold

(* hc.rs: longest_match, up to the first link.                             *)
LEMMA HcSearchKeeps ==
  ASSUME FinderInv, kind = "hc", UNCHANGED <<kind, htVars, btVars>>,
         NEW max_len \in Nat, 1 <= max_len, max_len <= Remaining,
         NEW best_len \in Nat, NEW nice_len \in Nat, nice_len <= max_len,
         NEW depth \in Int,
         HcLongestMatch(best_len, max_len, nice_len, depth)
  PROVE  FinderInv' /\ MatchIsReal'
<1> DEFINE node3 == Slid(hash3_tab)[next_hashes.short]
           node4 == Slid(hash4_tab)[next_hashes.long]
<1>1. /\ data \in Seq(Byte) /\ in_next \in Nat /\ Len(data) \in Nat
      /\ in_base_offset \in Nat
      /\ search.pc = "ready" /\ next_hashes \in Hashes
      /\ next_hashes.short \in Bucket /\ next_hashes.long \in Bucket
      /\ in_next' = in_next + 1 /\ data' = data /\ next_hashes' = NextHashes
      /\ in_next + max_len <= Len(data)
  BY Basics DEF HcLongestMatch, Remaining
<1>2. /\ Base \in Nat /\ CurPos \in Nat /\ in_next = Base + CurPos
      /\ Base = 0 \/ WINDOW_SIZE <= Base
  BY <1>1, Basics, BaseIsPlaced
<1>3. /\ hash3_tab' \in [Bucket -> Entry] /\ hash4_tab' \in [Bucket -> Entry]
      /\ next_tab' \in [0 .. (WINDOW_SIZE - 1) -> Entry]
      /\ linked' \subseteq 0 .. (WINDOW_SIZE - 1)
      /\ linked \subseteq linked'
      /\ in_base_offset' = Base
      /\ ChainsHold'
  <2>1. HcInsert(CurPos) /\ kind' = kind
    BY Zenon DEF HcLongestMatch
  <2> QED BY <1>1, <2>1, InsertKeepsChains
<1>4. /\ node3 \in Entry /\ node4 \in Entry
      /\ node3 # INITVAL => Base + node3 >= 0 /\ Base + node3 < in_next
      /\ node4 # INITVAL => /\ Base + node4 >= 0 /\ Base + node4 < in_next
                            /\ Slot(node4) \in linked
  BY <1>1, ChainsSlide
<1>5. \/ FoundThis(best_len, 0)
      \/ /\ FoundThis(SHORT_LEN, CurPos - node3)
         /\ REQUIRED_NBYTES <= max_len
         /\ Live(node3, CurPos)
         /\ Agree(in_next, Base + node3, SHORT_LEN)
  <2>1. SHORT_LEN <= LONG_LEN /\ SHORT_LEN \in Nat /\ LONG_LEN \in Nat
        /\ REQUIRED_NBYTES \in Nat
    BY MatchAssumption
  <2>2. max_len < REQUIRED_NBYTES \/ REQUIRED_NBYTES <= max_len
    BY <2>1
  <2> QED BY <2>2, Zenon DEF HcLongestMatch
<1>6. \/ search' = Ready
      \/ /\ \E pc \in {"chain", "extend"} :
              search' = [pc |-> pc, node |-> node4, cur_pos |-> CurPos,
                         max |-> max_len, nice |-> nice_len,
                         depth |-> depth, left |-> 0]
         /\ ~(max_len < REQUIRED_NBYTES)
         /\ Live(node4, CurPos)
         /\ best_len < LONG_LEN \/ ~(best_len >= nice_len)
  <2>1. CASE max_len < REQUIRED_NBYTES \/ (best_len < LONG_LEN /\ ~Live(node3, CurPos))
    BY <2>1, Zenon DEF HcLongestMatch
  <2>2. CASE ~(max_len < REQUIRED_NBYTES \/ (best_len < LONG_LEN /\ ~Live(node3, CurPos)))
    <3>1. CASE best_len < LONG_LEN
      BY <2>2, <3>1, Zenon DEF HcLongestMatch
    <3>2. CASE ~(best_len < LONG_LEN)
      BY <2>2, <3>2, Zenon DEF HcLongestMatch
    <3> QED BY <3>1, <3>2
  <2> QED BY <2>1, <2>2
<1> HIDE DEF node3, node4, Base, CurPos
<1>7. found' \in [length : Nat, offset : Nat, at : Nat] /\ MatchIsReal'
  <2>1. CASE FoundThis(best_len, 0)
    BY <1>1, <2>1 DEF FoundThis, MatchIsReal
  <2>2. CASE ~FoundThis(best_len, 0)
    <3>1. node3 # INITVAL
      BY <1>2, <1>4, <1>5, <2>2, LiveIsEntry
    <3>2. SHORT_LEN \in Nat /\ in_next + SHORT_LEN <= Len(data)
      BY <1>1, <1>5, <2>2, MatchAssumption
    <3> QED BY <1>1, <1>4, <1>5, <2>2, <3>1, <3>2, TableMatch
  <2> QED BY <2>1, <2>2
<1>8. found'.at = in_next /\ found'.length \in {best_len, SHORT_LEN}
  BY <1>5 DEF FoundThis
<1>9. /\ search' \in Searches
      /\ search'.pc \in {"ready", "chain", "extend"}
      /\ SearchHolds'
  <2>1. CASE search' = Ready
    <3>1. Ready \in Searches
      BY MatchAssumption DEF Ready, Searches, INITVAL, Entry
    <3> QED BY <2>1, <3>1 DEF Ready, SearchHolds, Following, Walking
  <2>2. CASE search' # Ready
    <3>1. PICK pc \in {"chain", "extend"} :
            search' = [pc |-> pc, node |-> node4, cur_pos |-> CurPos,
                       max |-> max_len, nice |-> nice_len,
                       depth |-> depth, left |-> 0]
      BY <1>6, <2>2
    <3>2. search' \in Searches
      BY <1>2, <1>4, <3>1 DEF Searches
    <3>3. node4 # INITVAL /\ node4 \in Int
      BY <1>2, <1>4, <1>6, <2>2, LiveIsEntry DEF Entry
    <3>4. best_len < max_len /\ SHORT_LEN < max_len
      BY <1>6, <2>2, MatchAssumption
    <3>5. in_next' = At' + 1 /\ At' = in_next /\ Candidate' = Base + node4
      BY <1>1, <1>2, <1>3, <3>1 DEF At, Candidate
    <3>6. Base + node4 >= 0 /\ node4 < CurPos
      BY <1>2, <1>4, <3>3
    <3>7. SearchHolds'
      <4>1. Live(search.node, search.cur_pos)'
        BY <1>6, <2>2, <3>1 DEF Live
      <4>2. Slot(search.node)' \in linked'
        BY <1>3, <1>4, <3>1, <3>3 DEF Slot
      <4> QED BY <1>1, <1>8, <3>1, <3>4, <3>5, <3>6, <4>1, <4>2 DEF SearchHolds
    <3> QED BY <3>1, <3>2, <3>7
  <2> QED BY <2>1, <2>2
<1>10. FamilyTypeOK'
  <2>1. next_hashes' \in Hashes
    BY <1>1, NextHashesAreHashes
  <2>2. in_next' \in 0 .. Len(data') /\ in_base_offset' \in Nat
    BY <1>1, <1>2, <1>3
  <2> QED BY <1>1, <1>3, <1>7, <1>9, <2>1, <2>2
           DEF FinderInv, TypesHold, FamilyTypeOK, htVars, btVars, Hashes, Searches
<1>11. PlacesHold'
  BY <1>1, <1>2, <1>3, <1>9 DEF PlacesHold, Following, Walking
<1> QED BY <1>3, <1>7, <1>9, <1>10, <1>11, ChainStep

(* What following a chain may do: end the search, or go on with a link of  *)
(* the chain and a match that can still be beaten.                         *)
LEMMA FollowStep ==
  ASSUME FinderInv, Following,
         UNCHANGED <<kind, htVars, btVars, hcVars, data, in_next, in_base_offset, next_hashes>>,
         found' \in [length : Nat, offset : Nat, at : Nat], found'.at = found.at,
         \/ search' = Ready
         \/ /\ found'.length < search.max
            /\ \E pc \in {"chain", "extend"}, depth \in Int : NextLink(pc, depth)
  PROVE  FinderInv'
<1>1. /\ search \in Searches /\ kind = "hc"
      /\ in_base_offset \in Nat /\ in_next \in Nat
      /\ next_tab \in [0 .. (WINDOW_SIZE - 1) -> Entry]
      /\ linked \subseteq 0 .. (WINDOW_SIZE - 1)
      /\ \A s \in linked : Strict(next_tab[s]) /\ Planted(next_tab[s])
  BY DEF FinderInv, TypesHold, FamilyTypeOK, PlacesHold, ChainsHold
<1>2. /\ in_next = At + 1
      /\ Slot(search.node) \in linked
      /\ At + search.max <= Len(data)
      /\ search.nice <= search.max
      /\ found.at = At
  BY DEF FinderInv, SearchHolds
<1>3. /\ search' \in Searches
      /\ search'.pc \in {"ready", "chain", "extend"}
      /\ SearchHolds'
  <2>1. CASE search' = Ready
    <3>1. Ready \in Searches
      BY MatchAssumption DEF Ready, Searches, INITVAL, Entry
    <3> QED BY <2>1, <3>1 DEF Ready, SearchHolds, Following, Walking
  <2>2. CASE search' # Ready
    <3> DEFINE node == next_tab[Slot(search.node)]
    <3>1. PICK pc \in {"chain", "extend"}, depth \in Int : NextLink(pc, depth)
      BY <2>2
    <3>2. /\ Live(node, search.cur_pos)
          /\ search' = [search EXCEPT !.pc = pc, !.node = node, !.depth = depth - 1]
      BY <2>2, <3>1 DEF NextLink
    <3>3. node \in Entry /\ node \in Int /\ Strict(node) /\ Planted(node)
      <4>1. node \in Entry /\ Strict(node) /\ Planted(node)
        BY <1>1, <1>2
      <4> HIDE DEF node
      <4> QED BY <4>1 DEF Entry
    <3> HIDE DEF node
    <3>4. search' \in Searches
      <4>1. depth - 1 \in Int
        OBVIOUS
      <4> QED BY <1>1, <3>2, <3>3, <4>1 DEF Searches
    <3>5. /\ search'.pc = pc /\ search'.node = node /\ search'.cur_pos = search.cur_pos
          /\ search'.max = search.max /\ search'.nice = search.nice
          /\ search.cur_pos \in Nat /\ search.max \in Nat
      BY <1>1, <3>2 DEF Searches
    <3>6. node # INITVAL
      BY <3>2, <3>3, <3>5, LiveIsEntry
    <3>7. /\ in_base_offset + node >= 0
          /\ in_base_offset + node + 1 < in_next
          /\ Slot(node) \in linked
      BY <3>3, <3>6 DEF Strict, Planted
    <3>8. node < search.cur_pos
      BY <1>1, <1>2, <3>3, <3>5, <3>7 DEF At
    <3>9. At' = At /\ Candidate' = in_base_offset + node
      BY <3>5 DEF At, Candidate
    <3>10. Live(search.node, search.cur_pos)'
      BY <3>2, <3>5 DEF Live
    <3>11. Slot(search.node)' \in linked'
      BY <3>5, <3>7 DEF Slot, hcVars
    <3>12. found'.length < search'.max
      BY <2>2, <3>5
    <3> QED BY <1>2, <3>1, <3>4, <3>5, <3>7, <3>8, <3>9, <3>10, <3>11, <3>12 DEF SearchHolds
  <2> QED BY <2>1, <2>2
<1>4. FamilyTypeOK'
  BY <1>3 DEF FinderInv, TypesHold, FamilyTypeOK, htVars, btVars, hcVars, Searches
<1>5. PlacesHold'
  BY <1>1, <1>3 DEF FinderInv, PlacesHold, Following, Walking
<1>6. ChainsHold'
  BY <1>1 DEF FinderInv, ChainsHold, Sound, Strict, Planted, Slot, hcVars
<1> QED BY <1>1, <1>3, <1>4, <1>5, <1>6, ChainStep

(* A longer match found along a chain. *)
LEMMA BetterIsReal ==
  ASSUME FinderInv, Following \/ Walking, UNCHANGED data,
         NEW length \in Nat, length <= search.max, Agree(At, Candidate, length),
         found' = [found EXCEPT !.length = length, !.offset = search.cur_pos - search.node]
  PROVE  /\ found' \in [length : Nat, offset : Nat, at : Nat]
         /\ found'.at = found.at /\ found'.length = length
         /\ MatchIsReal'
<1>1. /\ search.cur_pos \in Nat /\ search.node \in Int /\ search.max \in Nat
      /\ in_base_offset \in Nat /\ Len(data) \in Nat
      /\ found \in [length : Nat, offset : Nat, at : Nat]
      /\ WINDOW_SIZE \in Nat
  BY Basics, MatchAssumption DEF FinderInv, TypesHold, Searches, Entry
<1>2. /\ Live(search.node, search.cur_pos)
      /\ 0 <= Candidate
      /\ search.node < search.cur_pos
      /\ At + search.max <= Len(data)
      /\ found.at = At
  BY DEF FinderInv, SearchHolds
<1> DEFINE offset == search.cur_pos - search.node
<1>3. offset \in Nat
  BY <1>1, <1>2
<1>4. found' = [found EXCEPT !.length = length, !.offset = offset]
  OBVIOUS
<1>5. /\ found' \in [length : Nat, offset : Nat, at : Nat]
      /\ found'.length = length /\ found'.offset = offset /\ found'.at = At
  <2> HIDE DEF offset
  <2> QED BY <1>1, <1>2, <1>3, <1>4
<1>6. /\ offset \in 1 .. At /\ offset < WINDOW_SIZE
      /\ At + length <= Len(data)
      /\ At - offset = Candidate
  <2>1. search.node > search.cur_pos - WINDOW_SIZE
    BY <1>2 DEF Live
  <2>2. 0 <= in_base_offset + search.node
    BY <1>2 DEF Candidate
  <2>3. At = in_base_offset + search.cur_pos /\ Candidate = in_base_offset + search.node
    BY DEF At, Candidate
  <2>4. At + length <= Len(data)
    BY SMTT(30), <1>1, <1>2, <2>3
  <2>5. offset \in 1 .. At
    BY SMTT(30), <1>1, <1>2, <2>2, <2>3
  <2>6. offset < WINDOW_SIZE
    BY <1>1, <2>1
  <2>7. At - offset = Candidate
    BY <1>1, <2>3
  <2> QED BY <2>4, <2>5, <2>6, <2>7
<1>7. \A k \in 1 .. length : data'[At + k] = data'[(At - offset) + k]
  <2> HIDE DEF offset
  <2> QED BY <1>6 DEF Agree
<1> QED BY <1>2, <1>5, <1>6, <1>7 DEF MatchIsReal, Agree

(* How far the next candidate of a chain agrees.                           *)
LEMMA CandidateExtent ==
  ASSUME FinderInv, Following
  PROVE  /\ Extent(At, Candidate, search.max) \in Nat
         /\ Extent(At, Candidate, search.max) <= search.max
         /\ Agree(At, Candidate, Extent(At, Candidate, search.max))
         /\ search.nice <= search.max /\ search.nice \in Nat /\ search.max \in Nat
         /\ found.length < search.max
         /\ search.depth \in Int
         /\ found \in [length : Nat, offset : Nat, at : Nat]
<1>1. /\ At \in Int /\ Candidate \in Int /\ search.max \in Nat /\ search.nice \in Nat
      /\ search.depth \in Int
      /\ found \in [length : Nat, offset : Nat, at : Nat]
  BY Basics DEF FinderInv, TypesHold, Searches, Entry, At, Candidate
<1>2. search.nice <= search.max /\ found.length < search.max
  BY DEF FinderInv, SearchHolds
<1>3. /\ Extent(At, Candidate, search.max) \in 0 .. search.max
      /\ Agree(At, Candidate, Extent(At, Candidate, search.max))
  BY <1>1, ExtentIsOne, Zenon
<1> QED BY <1>1, <1>2, <1>3

(* One link of a chain, in either loop.                                    *)
LEMMA FollowKeeps ==
  ASSUME FinderInv, UNCHANGED <<kind, htVars, btVars>>, HcChain \/ HcExtend
  PROVE  FinderInv' /\ (MatchIsReal => MatchIsReal')
<1> DEFINE length == Extent(At, Candidate, search.max)
<1>1. /\ Following
      /\ UNCHANGED <<hcVars, data, in_next, in_base_offset, next_hashes>>
  BY DEF HcChain, HcExtend, Following
<1>2. Shallower \subseteq Int
  <2>1. search.depth \in Int
    BY <1>1, CandidateExtent
  <2> QED BY <2>1 DEF Shallower, AtLeast
<1>3. CASE Better(length) /\ (GoodEnough(length) => search' = Ready)
           /\ (~GoodEnough(length) => \E depth \in Shallower : NextLink("extend", depth))
  <2>1. /\ found' \in [length : Nat, offset : Nat, at : Nat]
        /\ found'.at = found.at /\ found'.length = length
        /\ MatchIsReal'
    <3>1. length \in Nat /\ length <= search.max /\ Agree(At, Candidate, length)
      BY <1>1, CandidateExtent
    <3>2. found' = [found EXCEPT !.length = length, !.offset = search.cur_pos - search.node]
      BY <1>3 DEF Better
    <3> HIDE DEF length
    <3> QED BY <1>1, <3>1, <3>2, BetterIsReal
  <2>2. \/ search' = Ready
        \/ /\ found'.length < search.max
           /\ \E pc \in {"chain", "extend"}, depth \in Int : NextLink(pc, depth)
    <3>1. CASE GoodEnough(length)
      BY <1>3, <3>1
    <3>2. CASE ~GoodEnough(length)
      <4>1. length < search.max
        BY <1>1, <3>2, CandidateExtent DEF GoodEnough
      <4>2. \E pc \in {"chain", "extend"}, depth \in Int : NextLink(pc, depth)
        BY <1>2, <1>3, <3>2
      <4> QED BY <2>1, <4>1, <4>2
    <3> QED BY <3>1, <3>2
  <2> QED BY <1>1, <2>1, <2>2, FollowStep
<1>4. CASE /\ UNCHANGED found
           /\ \E pc \in {"chain", "extend"} : NextLink(pc, search.depth)
  <2>1. /\ found.length < search.max /\ search.depth \in Int
        /\ found \in [length : Nat, offset : Nat, at : Nat]
    BY <1>1, CandidateExtent
  <2> QED BY <1>1, <1>4, <2>1, FollowStep, SameIsReal
<1>5. CASE HcChain
  BY <1>3, <1>4, <1>5, Zenon DEF HcChain
<1>6. CASE HcExtend
  BY <1>3, <1>4, <1>6, Zenon DEF HcExtend
<1> QED BY <1>5, <1>6

(* hc.rs: skip_bytes, up to its loop.                                      *)
LEMMA HcSkipKeeps ==
  ASSUME FinderInv, kind = "hc", UNCHANGED <<kind, htVars, btVars>>,
         NEW count \in 1 .. AtMost(Remaining, WINDOW_SIZE),
         HcSkip(count)
  PROVE  FinderInv' /\ MatchIsReal'
<1>1. /\ data \in Seq(Byte) /\ in_next \in Nat /\ Len(data) \in Nat
      /\ in_base_offset \in Nat /\ in_base_offset <= in_next
      /\ search.pc = "ready" /\ search \in Searches
      /\ next_hashes \in Hashes
      /\ UNCHANGED <<hcVars, data, in_base_offset, next_hashes>>
  BY Basics DEF FinderInv, TypesHold, HcSkip
<1>2. /\ count \in Nat /\ 1 <= count /\ in_next + count <= Len(data)
      /\ WINDOW_SIZE \in Nat \ {0} /\ REQUIRED_NBYTES \in Nat
  BY <1>1, MatchAssumption DEF AtMost, Remaining
<1>3. found' \in [length : Nat, offset : Nat, at : Nat] /\ MatchIsReal'
  BY SpentIsReal DEF HcSkip
<1>4. \/ in_next' = in_next + count /\ UNCHANGED search
      \/ /\ in_next' = in_next
         /\ search' = [Ready EXCEPT !.pc = "hc_skip", !.left = count]
         /\ in_next + count + REQUIRED_NBYTES <= Len(data)
  BY <1>1, <1>2 DEF HcSkip, Remaining
<1>5. /\ search' \in Searches
      /\ \/ in_next' = in_next + count /\ search'.pc = "ready"
         \/ /\ in_next' = in_next
            /\ search'.pc = "hc_skip" /\ search'.left = count
            /\ in_next + count + REQUIRED_NBYTES <= Len(data)
  BY <1>1, <1>2, <1>4, ReadyIsSearch DEF Ready
<1>6. FamilyTypeOK'
  <2>1. in_next' \in 0 .. Len(data')
    BY <1>1, <1>2, <1>5
  <2> QED BY <1>1, <1>3, <1>5, <2>1
           DEF FinderInv, TypesHold, FamilyTypeOK, hcVars, btVars, htVars, Searches
<1>7. PlacesHold'
  BY <1>1, <1>2, <1>5, Basics DEF PlacesHold, Following, Walking
<1>8. ChainsHold'
  <2>1. ASSUME NEW b \in Bucket
        PROVE  Sound(hash3_tab[b])' /\ Sound(hash4_tab[b])' /\ Planted(hash4_tab[b])'
    <3>1. hash3_tab[b] \in Int /\ hash4_tab[b] \in Int
      BY DEF FinderInv, TypesHold, FamilyTypeOK, Entry
    <3>2. Sound(hash3_tab[b]) /\ Sound(hash4_tab[b]) /\ Planted(hash4_tab[b])
      BY DEF FinderInv, ChainsHold
    <3> QED BY <1>1, <1>2, <1>5, <3>1, <3>2 DEF Sound, Planted, Slot, hcVars
  <2>2. ASSUME NEW s \in linked PROVE Strict(next_tab[s])' /\ Planted(next_tab[s])'
    <3>1. next_tab[s] \in Int
      <4>1. s \in 0 .. (WINDOW_SIZE - 1)
        BY DEF FinderInv, TypesHold, FamilyTypeOK
      <4>2. next_tab \in [0 .. (WINDOW_SIZE - 1) -> Entry]
        BY DEF FinderInv, TypesHold, FamilyTypeOK
      <4> QED BY <4>1, <4>2 DEF Entry
    <3>2. Strict(next_tab[s]) /\ Planted(next_tab[s])
      BY DEF FinderInv, ChainsHold
    <3> QED BY <1>1, <1>2, <1>5, <3>1, <3>2 DEF Strict, Planted, Slot, hcVars
  <2> QED BY <1>1, <2>1, <2>2 DEF ChainsHold, hcVars
<1>9. SearchHolds' /\ search'.pc \notin {"tree", "branch"}
  BY <1>5 DEF SearchHolds, Following, Walking
<1> QED BY <1>3, <1>5, <1>6, <1>7, <1>8, <1>9, ChainStep

(* One turn of that loop.                                                  *)
LEMMA HcSkipOneKeeps ==
  ASSUME FinderInv, UNCHANGED <<kind, htVars, btVars>>, HcSkipOne
  PROVE  FinderInv'
<1>1. /\ data \in Seq(Byte) /\ in_next \in Nat /\ Len(data) \in Nat
      /\ search.pc = "hc_skip" /\ search \in Searches
      /\ next_hashes \in Hashes
      /\ found \in [length : Nat, offset : Nat, at : Nat]
      /\ REQUIRED_NBYTES \in Nat
      /\ in_next' = in_next + 1 /\ next_hashes' = NextHashes
      /\ UNCHANGED <<data, found>>
  BY Basics, MatchAssumption DEF FinderInv, TypesHold, HcSkipOne
<1>2. /\ kind = "hc"
      /\ search.left \in Nat /\ 1 <= search.left
      /\ in_next + search.left + REQUIRED_NBYTES <= Len(data)
  BY <1>1 DEF FinderInv, PlacesHold, Searches
<1>3. /\ Base \in Nat /\ CurPos \in Nat /\ in_next = Base + CurPos
      /\ Base = 0 \/ WINDOW_SIZE <= Base
  BY <1>1, Basics, BaseIsPlaced
<1>4. /\ hash3_tab' \in [Bucket -> Entry] /\ hash4_tab' \in [Bucket -> Entry]
      /\ next_tab' \in [0 .. (WINDOW_SIZE - 1) -> Entry]
      /\ linked' \subseteq 0 .. (WINDOW_SIZE - 1)
      /\ in_base_offset' = Base
      /\ ChainsHold'
  <2>1. HcInsert(CurPos)
    BY Zenon DEF HcSkipOne
  <2> QED BY <1>1, <1>2, <2>1, InsertKeepsChains
<1>5. /\ search' \in Searches
      /\ \/ search.left = 1 /\ search'.pc = "ready"
         \/ /\ search.left # 1 /\ search'.pc = "hc_skip"
            /\ search'.left = search.left - 1 /\ 1 <= search'.left
  BY <1>1, <1>2, OneLess DEF HcSkipOne
<1> HIDE DEF Base, CurPos
<1>6. FamilyTypeOK'
  <2>1. next_hashes' \in Hashes
    BY <1>1, NextHashesAreHashes
  <2>2. in_next' \in 0 .. Len(data') /\ in_base_offset' \in Nat
    BY <1>1, <1>2, <1>3, <1>4
  <2> QED BY <1>1, <1>4, <1>5, <2>1, <2>2
           DEF FinderInv, TypesHold, FamilyTypeOK, htVars, btVars, Hashes, Searches
<1>7. PlacesHold'
  BY SMTT(30), <1>1, <1>2, <1>3, <1>4, <1>5 DEF PlacesHold, Following, Walking
<1>8. SearchHolds' /\ search'.pc \notin {"tree", "branch"}
  BY <1>5 DEF SearchHolds, Following, Walking
<1> QED BY <1>2, <1>4, <1>5, <1>6, <1>7, <1>8, ChainStep

(* What a step of the trees has to keep. *)
LEMMA TreeStep ==
  ASSUME FinderInv, kind = "bt", UNCHANGED <<kind, htVars>>,
         FamilyTypeOK', search' \in Searches, walk' \in Walks,
         PlacesHold', TreesHold', SearchHolds', WalkHolds'
  PROVE  FinderInv'
<1>1. TypesHold'
  BY DEF TypesHold
<1>2. BucketsHold' /\ ChainsHold'
  BY DEF BucketsHold, ChainsHold
<1> QED BY <1>1, <1>2 DEF FinderInv

(* The two children of a node are indices of child_tab.                    *)
LEMMA ChildrenAreChildren ==
  ASSUME NEW node \in Int
  PROVE  LessThan(node) \in Child /\ GreaterThan(node) \in Child
<1>1. Slot(node) \in 0 .. (WINDOW_SIZE - 1)
  BY SlotIsSlot
<1> QED BY <1>1 DEF LessThan, GreaterThan, Child, Side

(* A walk at its start.                                                    *)
LEMMA RootIsWalk ==
  ASSUME NEW nice_match \in NiceLens
  PROVE  AtRoot(nice_match) \in Walks
BY ChildrenAreChildren DEF AtRoot, Walks

(* The tables of the trees before a position is inserted, slid. *)
LEMMA TreesSlide ==
  ASSUME FinderInv, kind = "bt", search.pc = "ready"
  PROVE  /\ Slid(hash3_tab) \in [Bucket -> Entry]
         /\ Slid(hash3_old) \in [Bucket -> Entry]
         /\ Slid(hash4_tab) \in [Bucket -> Entry]
         /\ Slid(child_tab) \in [Child -> Entry]
         /\ \A b \in Bucket : Slid(hash3_tab)[b] # INITVAL =>
              /\ Base + Slid(hash3_tab)[b] >= 0
              /\ Base + Slid(hash3_tab)[b] < in_next
         /\ \A b \in Bucket : Slid(hash3_old)[b] # INITVAL =>
              /\ Base + Slid(hash3_old)[b] >= 0
              /\ Base + Slid(hash3_old)[b] < in_next
         /\ \A b \in Bucket : Slid(hash4_tab)[b] # INITVAL =>
              /\ Base + Slid(hash4_tab)[b] >= 0
              /\ Base + Slid(hash4_tab)[b] < in_next
              /\ Slot(Slid(hash4_tab)[b]) \in linked
         /\ \A s \in linked, side \in Side : Slid(child_tab)[<<s, side>>] # INITVAL =>
              /\ Base + Slid(child_tab)[<<s, side>>] >= 0
              /\ Base + Slid(child_tab)[<<s, side>>] + 1 < in_next
              /\ Slot(Slid(child_tab)[<<s, side>>]) \in linked
<1>1. /\ in_base_offset \in Nat
      /\ hash3_tab \in [Bucket -> Entry] /\ hash3_old \in [Bucket -> Entry]
      /\ hash4_tab \in [Bucket -> Entry]
      /\ child_tab \in [Child -> Entry]
      /\ linked \subseteq 0 .. (WINDOW_SIZE - 1)
  BY DEF FinderInv, TypesHold, FamilyTypeOK
<1>2. /\ \A b \in Bucket : /\ Sound(hash3_tab[b]) /\ Sound(hash3_old[b])
                           /\ Sound(hash4_tab[b]) /\ Planted(hash4_tab[b])
      /\ \A s \in linked, side \in Side :
           Strict(child_tab[<<s, side>>]) /\ Planted(child_tab[<<s, side>>])
  BY DEF FinderInv, TreesHold, Walking
<1>3. ASSUME NEW b \in Bucket, Slid(hash3_tab)[b] # INITVAL
      PROVE  Base + Slid(hash3_tab)[b] >= 0 /\ Base + Slid(hash3_tab)[b] < in_next
  BY <1>1, <1>2, <1>3, SlidSound
<1>4. ASSUME NEW b \in Bucket, Slid(hash3_old)[b] # INITVAL
      PROVE  Base + Slid(hash3_old)[b] >= 0 /\ Base + Slid(hash3_old)[b] < in_next
  BY <1>1, <1>2, <1>4, SlidSound
<1>5. ASSUME NEW b \in Bucket, Slid(hash4_tab)[b] # INITVAL
      PROVE  /\ Base + Slid(hash4_tab)[b] >= 0
             /\ Base + Slid(hash4_tab)[b] < in_next
             /\ Slot(Slid(hash4_tab)[b]) \in linked
  BY <1>1, <1>2, <1>5, SlidSound, SlidPlanted
<1>6. ASSUME NEW s \in linked, NEW side \in Side, Slid(child_tab)[<<s, side>>] # INITVAL
      PROVE  /\ Base + Slid(child_tab)[<<s, side>>] >= 0
             /\ Base + Slid(child_tab)[<<s, side>>] + 1 < in_next
             /\ Slot(Slid(child_tab)[<<s, side>>]) \in linked
  <2>1. <<s, side>> \in Child
    BY <1>1 DEF Child
  <2> QED BY <1>1, <1>2, <1>6, <2>1, SlidStrict, SlidPlanted
<1> QED BY <1>1, <1>3, <1>4, <1>5, <1>6, SlidMoves

(* bt.rs: advance_one_byte, up to the root.                                *)
LEMMA BtAdvanceKeeps ==
  ASSUME FinderInv, kind = "bt", UNCHANGED <<kind, htVars>>, Remaining > 0,
         NEW record \in BOOLEAN, BtAdvance(record)
  PROVE  FinderInv' /\ MatchIsReal'
<1> DEFINE max_len == AtMost(Remaining, MAX_MATCH_LEN)
           nice_len == AtMost(walk.nice_match, max_len)
           limit == IF record THEN max_len ELSE nice_len
           short == next_hashes.short
           long == next_hashes.long
           node30 == Slid(hash3_tab)[short]
           node31 == Slid(hash3_old)[short]
           node4 == Slid(hash4_tab)[long]
           Short(node) == Live(node, CurPos) /\ Agree(in_next, Base + node, SHORT_LEN)
           own == {LessThan(CurPos), GreaterThan(CurPos)}
<1>1. /\ data \in Seq(Byte) /\ in_next \in Nat /\ Len(data) \in Nat
      /\ in_base_offset \in Nat /\ in_next - in_base_offset <= WINDOW_SIZE
      /\ search.pc = "ready" /\ search \in Searches
      /\ next_hashes \in Hashes /\ short \in Bucket /\ long \in Bucket
      /\ walk \in Walks /\ walk.nice_match \in NiceLens
      /\ linked \subseteq 0 .. (WINDOW_SIZE - 1)
      /\ next_tab \in [0 .. (WINDOW_SIZE - 1) -> Entry]
  BY Basics DEF FinderInv, TypesHold, FamilyTypeOK, PlacesHold, BtAdvance
<1>2. /\ Base \in Nat /\ CurPos \in Nat /\ in_next = Base + CurPos
      /\ Base = 0 \/ WINDOW_SIZE <= Base
      /\ CurPos < WINDOW_SIZE
  BY <1>1, Basics, BaseIsPlaced
<1>3. /\ max_len \in Nat /\ 1 <= max_len /\ in_next + max_len <= Len(data)
      /\ nice_len \in Nat /\ limit \in Nat /\ nice_len <= limit /\ limit <= max_len
      /\ REQUIRED_NBYTES <= max_len => SHORT_LEN < nice_len
      /\ SHORT_LEN \in Nat \ {0} /\ WINDOW_SIZE \in Nat \ {0} /\ SHORT_LEN < REQUIRED_NBYTES
      /\ in_next + 1 <= Len(data)
  <2>1. /\ MAX_MATCH_LEN \in Nat /\ REQUIRED_NBYTES \in Nat /\ SHORT_LEN \in Nat \ {0}
        /\ LONG_LEN \in Nat /\ WINDOW_SIZE \in Nat \ {0}
        /\ SHORT_LEN <= LONG_LEN /\ LONG_LEN < REQUIRED_NBYTES
        /\ walk.nice_match \in REQUIRED_NBYTES .. MAX_MATCH_LEN
    BY <1>1, MatchAssumption, FamilyAssumption
  <2>2. Remaining \in Nat /\ Remaining = Len(data) - in_next
    BY <1>1 DEF Remaining
  <2> QED BY SMTT(30), <1>1, <2>1, <2>2 DEF AtMost
<1>4. /\ node30 \in Entry /\ node31 \in Entry /\ node4 \in Entry
      /\ node30 # INITVAL => Base + node30 >= 0 /\ Base + node30 < in_next
      /\ node31 # INITVAL => Base + node31 >= 0 /\ Base + node31 < in_next
      /\ node4 # INITVAL => /\ Base + node4 >= 0 /\ Base + node4 < in_next
                            /\ Slot(node4) \in linked
  BY <1>1, TreesSlide
<1>5. /\ in_base_offset' = Base /\ in_next' = in_next + 1
      /\ UNCHANGED <<data, next_tab>>
  BY DEF BtAdvance
<1>6. CurPos \in Entry /\ own \subseteq Child /\ INITVAL \in Entry
      /\ Slot(CurPos) \in 0 .. (WINDOW_SIZE - 1)
  <2>1. CurPos \in Int
    BY <1>2
  <2> HIDE DEF CurPos
  <2>2. own \subseteq Child /\ Slot(CurPos) \in 0 .. (WINDOW_SIZE - 1)
    BY <2>1, ChildrenAreChildren, SlotIsSlot
  <2>3. CurPos \in Entry /\ INITVAL \in Entry
    BY <1>2, <1>3 DEF Entry, INITVAL
  <2> QED BY <2>2, <2>3
<1>7. CASE max_len < REQUIRED_NBYTES
  <2>1. /\ hash3_tab' = Slid(hash3_tab) /\ hash3_old' = Slid(hash3_old)
        /\ hash4_tab' = Slid(hash4_tab) /\ child_tab' = Slid(child_tab)
        /\ UNCHANGED <<next_hashes, linked, walk, search>>
        /\ FoundThis(0, 0)
    BY <1>7, Zenon DEF BtAdvance
  <2>2. found' \in [length : Nat, offset : Nat, at : Nat] /\ MatchIsReal'
    BY <1>1, <2>1 DEF FoundThis, MatchIsReal
  <2> HIDE DEF Base, CurPos, Slid, max_len
  <2>3. TreesHold'
    <3>1. ASSUME NEW b \in Bucket
          PROVE  /\ Sound(hash3_tab[b])' /\ Sound(hash3_old[b])'
                 /\ Sound(hash4_tab[b])' /\ Planted(hash4_tab[b])'
      <4>1. /\ Slid(hash3_tab)[b] \in Int /\ Slid(hash3_old)[b] \in Int
            /\ Slid(hash4_tab)[b] \in Int
        BY <1>1, TreesSlide DEF Entry
      <4>2. /\ Slid(hash3_tab)[b] # INITVAL =>
                 /\ Base + Slid(hash3_tab)[b] >= 0
                 /\ Base + Slid(hash3_tab)[b] < in_next + 1
            /\ Slid(hash3_old)[b] # INITVAL =>
                 /\ Base + Slid(hash3_old)[b] >= 0
                 /\ Base + Slid(hash3_old)[b] < in_next + 1
            /\ Slid(hash4_tab)[b] # INITVAL =>
                 /\ Base + Slid(hash4_tab)[b] >= 0
                 /\ Base + Slid(hash4_tab)[b] < in_next + 1
                 /\ Slot(Slid(hash4_tab)[b]) \in linked
        BY SMTT(30), <1>1, <1>2, <4>1, TreesSlide
      <4> QED BY <1>5, <2>1, <4>2 DEF Sound, Planted, Slot
    <3>2. ASSUME NEW s \in linked, NEW side \in Side
          PROVE  Strict(child_tab[<<s, side>>])' /\ Planted(child_tab[<<s, side>>])'
      <4>1. Slid(child_tab)[<<s, side>>] \in Int
        <5>1. <<s, side>> \in Child
          BY <1>1 DEF Child
        <5>2. Slid(child_tab)[<<s, side>>] \in Entry
          BY <1>1, <5>1, TreesSlide
        <5> QED BY <5>2 DEF Entry
      <4>2. Slid(child_tab)[<<s, side>>] # INITVAL =>
              /\ Base + Slid(child_tab)[<<s, side>>] >= 0
              /\ Base + Slid(child_tab)[<<s, side>>] + 1 < in_next + 1
              /\ Slot(Slid(child_tab)[<<s, side>>]) \in linked
        BY <1>1, <1>2, <4>1, TreesSlide
      <4> QED BY <1>5, <2>1, <4>2 DEF Strict, Planted, Slot
    <3> QED BY <2>1, <3>1, <3>2 DEF TreesHold
  <2>4. FamilyTypeOK'
    <3>1. in_next' \in 0 .. Len(data') /\ in_base_offset' \in Nat
      BY SMTT(30), <1>1, <1>2, <1>3, <1>5
    <3> QED BY <1>1, <1>5, <2>1, <2>2, <3>1, TreesSlide
             DEF FinderInv, TypesHold, FamilyTypeOK, htVars, Hashes
  <2>5. PlacesHold'
    <3>1. search'.pc = "ready" /\ Base <= in_next + 1 /\ in_next + 1 - Base <= WINDOW_SIZE
      BY <1>1, <1>2, <1>3, <2>1
    <3> QED BY <1>2, <1>5, <3>1 DEF PlacesHold, Following, Walking
  <2>6. SearchHolds' /\ WalkHolds'
    BY <1>1, <2>1 DEF SearchHolds, WalkHolds, Following, Walking
  <2> QED BY <1>1, <2>1, <2>2, <2>3, <2>4, <2>5, <2>6, TreeStep
<1>8. CASE REQUIRED_NBYTES <= max_len
  <2>0. ~(max_len < REQUIRED_NBYTES)
    BY <1>3, <1>8, MatchAssumption
  <2>1. /\ hash3_tab' = [Slid(hash3_tab) EXCEPT ![short] = CurPos]
        /\ hash3_old' = [Slid(hash3_old) EXCEPT ![short] = node30]
        /\ hash4_tab' = [Slid(hash4_tab) EXCEPT ![long] = CurPos]
        /\ next_hashes' = NextHashes
        /\ \/ FoundThis(SHORT_LEN, CurPos - node30) /\ Short(node30)
           \/ FoundThis(SHORT_LEN, CurPos - node31) /\ Short(node31)
           \/ FoundThis(0, 0)
    BY <2>0, Zenon DEF BtAdvance
  <2>2. \/ /\ Live(node4, CurPos)
           /\ search' = [pc |-> "tree", node |-> node4, cur_pos |-> CurPos, max |-> limit,
                         nice |-> nice_len, depth |-> DEPTH_LIMIT, left |-> 0]
           /\ walk' = [AtRoot(walk.nice_match) EXCEPT
                         !.record = record,
                         !.pending_lt = LessThan(CurPos),
                         !.pending_gt = GreaterThan(CurPos)]
           /\ child_tab' = Slid(child_tab)
           /\ linked' = linked
        \/ /\ child_tab' = [c \in Child |-> IF c \in own THEN INITVAL ELSE Slid(child_tab)[c]]
           /\ WalkOver(Slot(CurPos))
    <3>1. CASE Live(node4, CurPos)
      BY <2>0, <3>1, Zenon DEF BtAdvance
    <3>2. CASE ~Live(node4, CurPos)
      BY <2>0, <3>2, Zenon DEF BtAdvance
    <3> QED BY <3>1, <3>2
  <2> HIDE DEF Base, CurPos, Slid, max_len, nice_len, limit, node30, node31, node4, short, long
  <2>3. /\ found' \in [length : Nat, offset : Nat, at : Nat] /\ MatchIsReal'
        /\ found'.at = in_next /\ found'.length \in {0, SHORT_LEN}
    <3>1. SHORT_LEN \in Nat /\ in_next + SHORT_LEN <= Len(data)
      BY <1>1, <1>3, <1>8, MatchAssumption
    <3>2. CASE FoundThis(0, 0)
      BY <1>1, <3>2 DEF FoundThis, MatchIsReal
    <3>3. ASSUME NEW node \in {node30, node31}, Short(node), FoundThis(SHORT_LEN, CurPos - node)
          PROVE  /\ found' \in [length : Nat, offset : Nat, at : Nat] /\ MatchIsReal'
                 /\ found'.at = in_next /\ found'.length \in {0, SHORT_LEN}
      <4>1. /\ node \in Entry
            /\ node # INITVAL => Base + node >= 0 /\ Base + node < in_next
        BY <1>4
      <4>2. node # INITVAL
        BY <1>2, <3>3, <4>1, LiveIsEntry
      <4>3. found' \in [length : Nat, offset : Nat, at : Nat] /\ MatchIsReal'
        BY <1>1, <1>5, <3>1, <3>3, <4>1, <4>2, TableMatch
      <4> QED BY <3>3, <4>3 DEF FoundThis
    <3> QED BY <2>1, <3>2, <3>3
  <2>4. /\ hash3_tab' \in [Bucket -> Entry] /\ hash3_old' \in [Bucket -> Entry]
        /\ hash4_tab' \in [Bucket -> Entry] /\ child_tab' \in [Child -> Entry]
        /\ linked' \subseteq 0 .. (WINDOW_SIZE - 1)
        /\ search' \in Searches /\ walk' \in Walks
        /\ walk'.nice_match = walk.nice_match
        /\ search'.pc \in {"ready", "tree"}
    <3>1. AtRoot(walk.nice_match) \in Walks /\ AtRoot(walk.nice_match).nice_match = walk.nice_match
      BY <1>1, RootIsWalk DEF AtRoot
    <3>2. Ready \in Searches
      BY MatchAssumption DEF Ready, Searches, INITVAL, Entry
    <3>3. /\ hash3_tab' \in [Bucket -> Entry] /\ hash3_old' \in [Bucket -> Entry]
          /\ hash4_tab' \in [Bucket -> Entry]
      BY <1>1, <1>4, <1>6, <2>1, TreesSlide
    <3>4. CASE search'.pc = "tree" /\ walk' = [AtRoot(walk.nice_match) EXCEPT
                         !.record = record,
                         !.pending_lt = LessThan(CurPos),
                         !.pending_gt = GreaterThan(CurPos)]
                 /\ search' = [pc |-> "tree", node |-> node4, cur_pos |-> CurPos, max |-> limit,
                         nice |-> nice_len, depth |-> DEPTH_LIMIT, left |-> 0]
                 /\ child_tab' = Slid(child_tab)
                 /\ linked' = linked
      <4>1. search' \in Searches
        BY <1>2, <1>3, <1>4, <3>4, TreeAssumption DEF Searches
      <4>2. \A w \in Walks : [w EXCEPT !.record = record, !.pending_lt = LessThan(CurPos),
                                       !.pending_gt = GreaterThan(CurPos)] \in Walks
        BY <1>6 DEF Walks
      <4>3. walk' \in Walks
        BY <3>1, <3>4, <4>2
      <4>4. walk'.nice_match = walk.nice_match
        BY <3>1, <3>4 DEF Walks
      <4> QED BY <1>1, <3>3, <3>4, <4>1, <4>3, <4>4, TreesSlide
    <3>5. CASE /\ child_tab' = [c \in Child |-> IF c \in own THEN INITVAL ELSE Slid(child_tab)[c]]
               /\ WalkOver(Slot(CurPos))
      <4>1. child_tab' \in [Child -> Entry]
        <5> HIDE DEF own
        <5> QED BY <1>1, <1>6, <3>5, TreesSlide
      <4> QED BY <1>1, <1>6, <3>1, <3>2, <3>3, <3>5, <4>1 DEF WalkOver, Ready
    <3> QED BY <2>2, <3>4, <3>5
  <2>5. SearchHolds' /\ WalkHolds'
    <3>1. CASE WalkOver(Slot(CurPos))
      BY <3>1 DEF WalkOver, Ready, SearchHolds, WalkHolds, Following, Walking
    <3>2. CASE ~WalkOver(Slot(CurPos))
      <4>1. /\ search'.pc = "tree" /\ search'.node = node4 /\ search'.cur_pos = CurPos
            /\ search'.max = limit /\ search'.nice = nice_len
            /\ linked' = linked /\ Live(node4, CurPos)
        BY <2>2, <3>2
      <4>2. /\ walk'.record = record /\ walk'.len = 0
            /\ walk'.pending_lt = LessThan(CurPos) /\ walk'.pending_gt = GreaterThan(CurPos)
        BY <2>2, <3>2 DEF AtRoot
      <4>3. node4 # INITVAL /\ node4 \in Int
        BY <1>2, <1>4, <4>1, LiveIsEntry DEF Entry
      <4>4. in_next' = At' + 1 /\ At' = in_next /\ Candidate' = Base + node4
        BY <1>1, <1>2, <1>5, <4>1 DEF At, Candidate
      <4>5. Base + node4 >= 0 /\ node4 < CurPos /\ Slot(node4) \in linked
        BY <1>2, <1>4, <4>3
      <4>6. SearchHolds'
        <5>1. Live(search.node, search.cur_pos)'
          BY <4>1 DEF Live
        <5>2. Slot(search.node)' \in linked'
          BY <4>1, <4>5 DEF Slot
        <5>3. in_next + limit <= Len(data')
          BY <1>1, <1>3, <1>5
        <5>4. search'.pc \notin {"chain", "extend"}
          BY <4>1
        <5> QED BY <1>3, <2>3, <4>1, <4>4, <4>5, <5>1, <5>2, <5>3, <5>4 DEF SearchHolds, Following
      <4>7. WalkHolds'
        <5>1. SHORT_LEN < nice_len /\ 0 < limit /\ found'.length < nice_len
          BY <1>3, <1>8, <2>3
        <5>2. /\ Awaited(walk.pending_lt, LessThan(search.cur_pos))'
              /\ Awaited(walk.pending_gt, GreaterThan(search.cur_pos))'
          BY <4>1, <4>2 DEF Awaited, LessThan, GreaterThan, Slot
        <5> QED BY <4>1, <4>2, <5>1, <5>2 DEF WalkHolds
      <4> QED BY <4>6, <4>7
    <3> QED BY <3>1, <3>2
  <2>6. \/ Slot(CurPos) \in linked'
        \/ Walking' /\ search'.cur_pos = CurPos
    <3>1. CASE WalkOver(Slot(CurPos))
      <4>1. linked' = linked \cup {Slot(CurPos)}
        BY <3>1 DEF WalkOver
      <4>2. Slot(CurPos) \in linked'
        BY <4>1
      <4> QED BY <4>2
    <3>2. CASE ~WalkOver(Slot(CurPos))
      <4>1. search'.pc = "tree" /\ search'.cur_pos = CurPos
        BY <2>2, <3>2
      <4> QED BY <4>1 DEF Walking
    <3> QED BY <3>1, <3>2
  <2>7. linked \subseteq linked' /\ linked' \subseteq linked \cup {Slot(CurPos)}
    BY <2>2 DEF WalkOver
  <2>8. ASSUME NEW b \in Bucket
        PROVE  /\ Sound(hash3_tab[b])' /\ Sound(hash3_old[b])' /\ Sound(hash4_tab[b])'
               /\ \/ Planted(hash4_tab[b])'
                  \/ Walking' /\ Slot(hash4_tab[b])' = Slot(search.cur_pos)'
    <3>1. /\ hash3_tab'[b] = IF b = short THEN CurPos ELSE Slid(hash3_tab)[b]
          /\ hash3_old'[b] = IF b = short THEN node30 ELSE Slid(hash3_old)[b]
          /\ hash4_tab'[b] = IF b = long THEN CurPos ELSE Slid(hash4_tab)[b]
      BY <1>1, <2>1, TreesSlide
    <3>2. /\ Slid(hash3_tab)[b] \in Int /\ Slid(hash3_old)[b] \in Int
          /\ Slid(hash4_tab)[b] \in Int /\ node30 \in Int
      BY <1>1, <1>4, TreesSlide DEF Entry
    <3>3. /\ Slid(hash3_tab)[b] # INITVAL =>
               Base + Slid(hash3_tab)[b] >= 0 /\ Base + Slid(hash3_tab)[b] < in_next
          /\ Slid(hash3_old)[b] # INITVAL =>
               Base + Slid(hash3_old)[b] >= 0 /\ Base + Slid(hash3_old)[b] < in_next
          /\ Slid(hash4_tab)[b] # INITVAL =>
               /\ Base + Slid(hash4_tab)[b] >= 0 /\ Base + Slid(hash4_tab)[b] < in_next
               /\ Slot(Slid(hash4_tab)[b]) \in linked
      BY <1>1, TreesSlide
    <3>4. hash3_tab'[b] # INITVAL =>
            Base + hash3_tab'[b] >= 0 /\ Base + hash3_tab'[b] < in_next + 1
      BY <1>1, <1>2, <3>1, <3>2, <3>3
    <3>5. hash3_old'[b] # INITVAL =>
            Base + hash3_old'[b] >= 0 /\ Base + hash3_old'[b] < in_next + 1
      BY <1>1, <1>2, <1>4, <3>1, <3>2, <3>3
    <3>6. hash4_tab'[b] # INITVAL =>
            Base + hash4_tab'[b] >= 0 /\ Base + hash4_tab'[b] < in_next + 1
      BY <1>1, <1>2, <3>1, <3>2, <3>3
    <3>7. \/ hash4_tab'[b] # INITVAL => Slot(hash4_tab'[b]) \in linked'
          \/ Walking' /\ hash4_tab'[b] = search'.cur_pos
      BY <2>6, <2>7, <3>1, <3>3
    <3> QED BY <1>5, <3>4, <3>5, <3>6, <3>7 DEF Sound, Planted, Slot
  <2>9. ASSUME NEW s \in linked', NEW side \in Side
        PROVE  Strict(child_tab[<<s, side>>])' /\ Planted(child_tab[<<s, side>>])'
    <3> DEFINE c == <<s, side>>
    <3>1. c \in Child
      BY <2>4 DEF Child
    <3>2. \/ child_tab'[c] = INITVAL
          \/ child_tab'[c] = Slid(child_tab)[c] /\ s \in linked
      <4>1. CASE child_tab' = Slid(child_tab) /\ linked' = linked
        BY <4>1
      <4>2. CASE child_tab' = [d \in Child |-> IF d \in own THEN INITVAL ELSE Slid(child_tab)[d]]
        <5>1. s = Slot(CurPos) => c \in own
          BY DEF LessThan, GreaterThan, Side
        <5>2. child_tab'[c] = IF c \in own THEN INITVAL ELSE Slid(child_tab)[c]
          <6> HIDE DEF c, own
          <6> QED BY <3>1, <4>2
        <5> QED BY <2>7, <5>1, <5>2
      <4> QED BY <2>2, <4>1, <4>2
    <3>3. Slid(child_tab)[c] \in Int
      <4>1. Slid(child_tab)[c] \in Entry
        BY <3>1, <1>1, TreesSlide
      <4> QED BY <4>1 DEF Entry
    <3>4. s \in linked /\ Slid(child_tab)[c] # INITVAL =>
            /\ Base + Slid(child_tab)[c] >= 0
            /\ Base + Slid(child_tab)[c] + 1 < in_next
            /\ Slot(Slid(child_tab)[c]) \in linked
      BY <1>1, TreesSlide
    <3> HIDE DEF c
    <3>5. child_tab'[c] # INITVAL =>
            /\ Base + child_tab'[c] >= 0
            /\ Base + child_tab'[c] + 1 < in_next + 1
            /\ Slot(child_tab'[c]) \in linked'
      BY SMTT(30), <1>1, <1>2, <2>7, <3>2, <3>3, <3>4
    <3> QED BY <1>5, <3>5 DEF Strict, Planted, Slot, c
  <2>10. TreesHold'
    BY <2>8, <2>9 DEF TreesHold
  <2>11. FamilyTypeOK'
    <3>1. in_next' \in 0 .. Len(data') /\ in_base_offset' \in Nat
      BY <1>1, <1>2, <1>3, <1>5
    <3>2. next_hashes' \in Hashes
      BY <1>1, <2>1, NextHashesAreHashes
    <3> QED BY <1>1, <1>5, <2>3, <2>4, <3>1, <3>2
             DEF FinderInv, TypesHold, FamilyTypeOK, htVars, Hashes, Searches
  <2>12. PlacesHold'
    BY <1>1, <1>2, <1>3, <1>5, <2>4 DEF PlacesHold, Following, Walking
  <2> QED BY <2>3, <2>4, <2>5, <2>10, <2>11, <2>12, TreeStep
<1>9. max_len < REQUIRED_NBYTES \/ REQUIRED_NBYTES <= max_len
  BY <1>3, MatchAssumption
<1> QED BY <1>7, <1>8, <1>9

Settled(node) == Strict(node) /\ Planted(node)

(* What a step of a walk finds. *)
LEMMA WalkFacts ==
  ASSUME FinderInv, Walking
  PROVE  /\ kind = "bt" /\ search \in Searches /\ walk \in Walks
         /\ walk.nice_match \in NiceLens
         /\ in_base_offset \in Nat /\ in_next \in Nat /\ Len(data) \in Nat
         /\ in_next = At + 1
         /\ search.node \in Int /\ search.cur_pos \in Nat
         /\ Slot(search.node) \in linked
         /\ Slot(search.cur_pos) \in 0 .. (WINDOW_SIZE - 1)
         /\ Settled(search.node) /\ search.node \in Entry
         /\ child_tab \in [Child -> Entry]
         /\ linked \subseteq 0 .. (WINDOW_SIZE - 1)
         /\ \A s \in linked, side \in Side : Settled(child_tab[<<s, side>>])
         /\ walk.pending_lt \in Child /\ walk.pending_gt \in Child
         /\ LessThan(search.cur_pos) # walk.pending_lt =>
              Settled(child_tab[LessThan(search.cur_pos)])
         /\ GreaterThan(search.cur_pos) # walk.pending_gt =>
              Settled(child_tab[GreaterThan(search.cur_pos)])
<1>1. /\ kind = "bt" /\ search \in Searches /\ walk \in Walks
      /\ walk.nice_match \in NiceLens
      /\ in_base_offset \in Nat /\ in_next \in Nat /\ Len(data) \in Nat
      /\ child_tab \in [Child -> Entry]
      /\ linked \subseteq 0 .. (WINDOW_SIZE - 1)
  BY Basics DEF FinderInv, TypesHold, FamilyTypeOK, PlacesHold
<1>2. /\ in_next = At + 1 /\ Slot(search.node) \in linked
      /\ 0 <= Candidate /\ search.node < search.cur_pos
  BY DEF FinderInv, SearchHolds
<1>3. /\ search.node \in Entry /\ search.node \in Int /\ search.cur_pos \in Nat
      /\ walk.pending_lt \in Child /\ walk.pending_gt \in Child
  BY <1>1 DEF Searches, Walks, Entry
<1>4. Settled(search.node)
  BY <1>1, <1>2, <1>3 DEF Settled, Strict, Planted, At, Candidate
<1>5. \A s \in linked, side \in Side : Settled(child_tab[<<s, side>>])
  BY <1>1 DEF FinderInv, TreesHold, Settled
<1>6. /\ LessThan(search.cur_pos) # walk.pending_lt =>
           Settled(child_tab[LessThan(search.cur_pos)])
      /\ GreaterThan(search.cur_pos) # walk.pending_gt =>
           Settled(child_tab[GreaterThan(search.cur_pos)])
  BY DEF FinderInv, WalkHolds, Awaited, Settled
<1>7. Slot(search.cur_pos) \in 0 .. (WINDOW_SIZE - 1)
  BY <1>3, SlotIsSlot
<1> QED BY <1>1, <1>2, <1>3, <1>4, <1>5, <1>6, <1>7

WalkFrame == UNCHANGED <<kind, htVars, data, in_next, in_base_offset, next_hashes,
                         hash3_tab, hash3_old, hash4_tab, next_tab>>

(* A child that is settled stays so during a walk.                         *)
LEMMA SettledStays ==
  ASSUME UNCHANGED <<in_next, in_base_offset>>, linked \subseteq linked'
  PROVE  \A node : Settled(node) =>
           /\ node # INITVAL => /\ in_base_offset' + node >= 0
                                /\ in_base_offset' + node + 1 < in_next'
                                /\ Slot(node) \in linked'
BY DEF Settled, Strict, Planted

(* The tables that a walk leaves alone. *)
LEMMA TablesStay ==
  ASSUME FinderInv, Walking, WalkFrame,
         linked \subseteq linked',
         \/ Slot(search.cur_pos) \in linked'
         \/ Walking' /\ search'.cur_pos = search.cur_pos,
         NEW b \in Bucket
  PROVE  /\ Sound(hash3_tab[b])' /\ Sound(hash3_old[b])' /\ Sound(hash4_tab[b])'
         /\ \/ Planted(hash4_tab[b])'
            \/ Walking' /\ Slot(hash4_tab[b])' = Slot(search.cur_pos)'
<1>1. /\ Sound(hash3_tab[b]) /\ Sound(hash3_old[b]) /\ Sound(hash4_tab[b])
      /\ Planted(hash4_tab[b]) \/ Slot(hash4_tab[b]) = Slot(search.cur_pos)
  BY WalkFacts DEF FinderInv, TreesHold
<1> QED BY <1>1 DEF WalkFrame, Sound, Planted, Slot

(* A walk ends with every child of its position settled. *)
LEMMA WalkEnds ==
  ASSUME FinderInv, Walking, WalkFrame, WalkOver(Slot(search.cur_pos)),
         found' \in [length : Nat, offset : Nat, at : Nat],
         child_tab' \in [Child -> Entry],
         \A c \in Child :
           \/ Settled(child_tab'[c])
           \/ /\ child_tab'[c] = child_tab[c]
              /\ c # walk.pending_lt /\ c # walk.pending_gt
  PROVE  FinderInv'
<1> DEFINE slot == Slot(search.cur_pos)
<1>1. /\ search' = Ready /\ walk' = AtRoot(walk.nice_match) /\ linked' = linked \cup {slot}
      /\ UNCHANGED <<in_next, in_base_offset>>
  BY DEF WalkOver, WalkFrame
<1>2. /\ search' \in Searches /\ search'.pc = "ready"
      /\ walk' \in Walks /\ walk'.nice_match = walk.nice_match
  <2>1. Ready \in Searches /\ Ready.pc = "ready"
    BY MatchAssumption DEF Ready, Searches, INITVAL, Entry
  <2>2. AtRoot(walk.nice_match).nice_match = walk.nice_match
    BY DEF AtRoot
  <2> QED BY <1>1, <2>1, <2>2, WalkFacts, RootIsWalk
<1>3. ASSUME NEW s \in linked', NEW side \in Side
      PROVE  Strict(child_tab[<<s, side>>])' /\ Planted(child_tab[<<s, side>>])'
  <2> DEFINE c == <<s, side>>
  <2>1. c \in Child
    BY <1>1, WalkFacts DEF Child
  <2>2. Settled(child_tab'[c])
    <3>1. CASE child_tab'[c] = child_tab[c] /\ c # walk.pending_lt /\ c # walk.pending_gt
      <4>1. CASE s \in linked
        BY <3>1, <4>1, WalkFacts
      <4>2. CASE s = slot
        <5>1. c = LessThan(search.cur_pos) \/ c = GreaterThan(search.cur_pos)
          BY <4>2 DEF Side, LessThan, GreaterThan
        <5> HIDE DEF c
        <5> QED BY <3>1, <5>1, WalkFacts
      <4> QED BY <1>1, <4>1, <4>2
    <3> HIDE DEF c
    <3> QED BY <2>1, <3>1
  <2> HIDE DEF c
  <2>3. child_tab'[c] # INITVAL =>
          /\ in_base_offset' + child_tab'[c] >= 0
          /\ in_base_offset' + child_tab'[c] + 1 < in_next'
          /\ Slot(child_tab'[c]) \in linked'
    BY <1>1, <2>2, SettledStays
  <2> QED BY <2>3 DEF Strict, Planted, Slot, c
<1>4. TreesHold'
  <2>1. linked \subseteq linked' /\ slot \in linked'
    BY <1>1
  <2> QED BY <1>3, <2>1, TablesStay DEF TreesHold
<1>5. FamilyTypeOK'
  <2>1. linked' \subseteq 0 .. (WINDOW_SIZE - 1)
    BY <1>1, WalkFacts
  <2> QED BY <1>2, <2>1 DEF FinderInv, TypesHold, FamilyTypeOK, WalkFrame, htVars, Searches
<1>6. PlacesHold'
  BY <1>2, WalkFacts DEF FinderInv, PlacesHold, WalkFrame, Following, Walking
<1>7. SearchHolds' /\ WalkHolds'
  BY <1>2 DEF SearchHolds, WalkHolds, Following, Walking
<1> QED BY <1>2, <1>4, <1>5, <1>6, <1>7, WalkFacts, TreeStep DEF WalkFrame

(* A walk goes on from a node in the window whose children it may read.    *)
LEMMA WalkGoesOn ==
  ASSUME FinderInv, Walking, WalkFrame, UNCHANGED linked,
         found' \in [length : Nat, offset : Nat, at : Nat], found'.at = found.at,
         search' \in Searches, Walking',
         search'.cur_pos = search.cur_pos,
         search'.max = search.max, search'.nice = search.nice,
         Settled(search'.node), Live(search'.node, search.cur_pos),
         walk' \in Walks, walk'.nice_match = walk.nice_match,
         walk'.len < search.max,
         walk'.record => found'.length < search.nice,
         child_tab' \in [Child -> Entry],
         \A c \in Child : Settled(child_tab'[c]) \/ child_tab'[c] = child_tab[c],
         walk'.pending_lt # walk.pending_lt => Settled(child_tab'[walk.pending_lt]),
         walk'.pending_gt # walk.pending_gt => Settled(child_tab'[walk.pending_gt])
  PROVE  FinderInv'
<1> DEFINE node == search'.node
           cur == search.cur_pos
<1>1. /\ node \in Entry /\ node \in Int /\ cur \in Nat
      /\ UNCHANGED <<in_next, in_base_offset>>
      /\ \A child : Settled(child) => (child # INITVAL =>
           /\ in_base_offset' + child >= 0
           /\ in_base_offset' + child + 1 < in_next'
           /\ Slot(child) \in linked')
  <2>1. UNCHANGED <<in_next, in_base_offset>>
    BY DEF WalkFrame
  <2> QED BY <2>1, WalkFacts, SettledStays DEF Searches, Entry
<1>2. ASSUME NEW s \in linked', NEW side \in Side
      PROVE  Strict(child_tab[<<s, side>>])' /\ Planted(child_tab[<<s, side>>])'
  <2> DEFINE c == <<s, side>>
  <2>1. c \in Child /\ s \in linked
    BY WalkFacts DEF Child
  <2>2. Settled(child_tab'[c])
    BY <2>1, WalkFacts
  <2> HIDE DEF c
  <2> QED BY <1>1, <2>2 DEF Strict, Planted, Slot, c
<1>3. TreesHold'
  BY <1>2, TablesStay DEF TreesHold
<1>4. SearchHolds'
  <2>1. node # INITVAL
    BY <1>1, LiveIsEntry
  <2>2. /\ in_base_offset + node >= 0 /\ in_base_offset + node + 1 < in_next
        /\ Slot(node) \in linked
    BY <2>1 DEF Settled, Strict, Planted
  <2>3. /\ in_next = At + 1 /\ At + search.max <= Len(data)
        /\ search.nice <= search.max /\ found.at = At
    BY DEF FinderInv, SearchHolds
  <2>4. node < cur
    BY SMTT(30), <1>1, <2>2, <2>3, WalkFacts DEF At
  <2>5. At' = At /\ Candidate' = in_base_offset + node
    BY <1>1 DEF At, Candidate
  <2>6. Live(search.node, search.cur_pos)' /\ Slot(search.node)' \in linked'
    BY <2>2 DEF Live, Slot
  <2>7. ~(Following')
    BY DEF Following, Walking
  <2> QED BY <1>1, <2>2, <2>3, <2>4, <2>5, <2>6, <2>7 DEF SearchHolds, WalkFrame
<1>5. WalkHolds'
  <2>1. ASSUME NEW c \in Child, NEW old, NEW new,
               c # old => Settled(child_tab[c]),
               new # old => Settled(child_tab'[old]),
               c # new
        PROVE  Settled(child_tab'[c])
    BY <2>1
  <2>2. LessThan(cur) \in Child /\ GreaterThan(cur) \in Child
    BY <1>1, ChildrenAreChildren
  <2>3. /\ LessThan(cur) # walk'.pending_lt => Settled(child_tab'[LessThan(cur)])
        /\ GreaterThan(cur) # walk'.pending_gt => Settled(child_tab'[GreaterThan(cur)])
    BY <2>1, <2>2, WalkFacts
  <2>4. /\ Awaited(walk.pending_lt, LessThan(search.cur_pos))'
        /\ Awaited(walk.pending_gt, GreaterThan(search.cur_pos))'
    BY <1>1, <2>3 DEF Awaited, Strict, Planted, LessThan, GreaterThan, Slot
  <2>5. SHORT_LEN < search.nice
    BY DEF FinderInv, WalkHolds
  <2> QED BY <2>4, <2>5 DEF WalkHolds
<1>6. FamilyTypeOK'
  BY DEF FinderInv, TypesHold, FamilyTypeOK, WalkFrame, htVars, Searches
<1>7. PlacesHold'
  BY WalkFacts DEF FinderInv, PlacesHold, WalkFrame, Following, Walking
<1> QED BY <1>3, <1>4, <1>5, <1>6, <1>7, WalkFacts, TreeStep DEF WalkFrame

(* A node goes to its side and the walk descends, or ends.                 *)
LEMMA BtDescendKeeps ==
  ASSUME FinderInv, UNCHANGED <<kind, htVars>>, BtDescend
  PROVE  FinderInv' /\ (MatchIsReal => MatchIsReal')
<1> DEFINE less == data[Node + walk.len + 1] < data[Here + walk.len + 1]
           pending == IF less THEN walk.pending_lt ELSE walk.pending_gt
           near == IF less THEN GreaterThan(search.node) ELSE LessThan(search.node)
           tab == [child_tab EXCEPT ![pending] = search.node]
           next == tab[near]
           lt == IF less THEN near ELSE walk.pending_lt
           gt == IF less THEN walk.pending_gt ELSE near
           len == Known(walk.len, IF less THEN walk.best_gt ELSE walk.best_lt)
<1>1. /\ Walking /\ search.pc = "branch" /\ WalkFrame /\ UNCHANGED found
  BY DEF BtDescend, Walking, WalkFrame
<1>2. \/ /\ child_tab' = [tab EXCEPT ![lt] = INITVAL, ![gt] = INITVAL]
         /\ WalkOver(Slot(search.cur_pos))
      \/ /\ Live(next, search.cur_pos)
         /\ child_tab' = tab
         /\ search' = [search EXCEPT !.pc = "tree", !.node = next, !.depth = @ - 1]
         /\ walk' = [walk EXCEPT
                       !.pending_lt = lt, !.pending_gt = gt,
                       !.best_lt = IF less THEN walk.len ELSE @,
                       !.best_gt = IF less THEN @ ELSE walk.len,
                       !.len = len]
         /\ UNCHANGED linked
  <2>1. CASE ~Live(next, search.cur_pos) \/ search.depth = 1
    BY <2>1, Zenon DEF BtDescend
  <2>2. CASE ~(~Live(next, search.cur_pos) \/ search.depth = 1)
    BY <2>2, Zenon DEF BtDescend
  <2> QED BY <2>1, <2>2
<1>3. /\ near \in Child /\ pending \in Child /\ lt \in Child /\ gt \in Child
      /\ child_tab[near] \in Entry /\ Settled(child_tab[near])
  <2>1. /\ LessThan(search.node) \in Child /\ GreaterThan(search.node) \in Child
        /\ Settled(child_tab[LessThan(search.node)])
        /\ Settled(child_tab[GreaterThan(search.node)])
    BY <1>1, WalkFacts, ChildrenAreChildren DEF LessThan, GreaterThan, Side
  <2> QED BY <1>1, <2>1, WalkFacts
<1>4. /\ tab \in [Child -> Entry] /\ tab[pending] = search.node
      /\ \A c \in Child : c # pending => tab[c] = child_tab[c]
      /\ Settled(search.node)
  <2> HIDE DEF pending
  <2> QED BY <1>1, <1>3, WalkFacts
<1>5. next \in Entry /\ Settled(next)
  <2> HIDE DEF tab, near, pending
  <2>1. CASE near = pending
    BY <1>3, <1>4, <2>1
  <2>2. CASE near # pending
    BY <1>3, <1>4, <2>2
  <2> QED BY <2>1, <2>2
<1>6. /\ found \in [length : Nat, offset : Nat, at : Nat]
      /\ walk.len < search.max
      /\ walk.record => found.length < search.nice
      /\ walk \in Walks /\ search \in Searches
      /\ walk.len \in Nat /\ len \in Nat /\ len <= walk.len
      /\ search.max \in Nat
  <2>1. walk \in Walks /\ walk.len \in Nat /\ walk.best_lt \in Nat /\ walk.best_gt \in Nat
        /\ search.max \in Nat /\ search \in Searches
    BY <1>1, WalkFacts DEF Walks, Searches
  <2> QED BY <1>1, <2>1, Basics DEF FinderInv, WalkHolds, Known, AtMost
<1>7. \/ pending = walk.pending_lt /\ gt = walk.pending_gt
      \/ pending = walk.pending_gt /\ lt = walk.pending_lt
  OBVIOUS
<1> HIDE DEF tab, near, pending, next, lt, gt, len
<1>8. CASE /\ child_tab' = [tab EXCEPT ![lt] = INITVAL, ![gt] = INITVAL]
           /\ WalkOver(Slot(search.cur_pos))
  <2>1. INITVAL \in Entry /\ Settled(INITVAL)
    BY MatchAssumption DEF INITVAL, Entry, Settled, Strict, Planted
  <2>2. child_tab' \in [Child -> Entry]
    <3> HIDE DEF INITVAL
    <3> QED BY <1>4, <1>8, <2>1
  <2>3. ASSUME NEW c \in Child
        PROVE  \/ Settled(child_tab'[c])
               \/ /\ child_tab'[c] = child_tab[c]
                  /\ c # walk.pending_lt /\ c # walk.pending_gt
    <3>1. child_tab'[c] = IF c = lt \/ c = gt THEN INITVAL ELSE tab[c]
      <4> HIDE DEF INITVAL
      <4> QED BY <1>3, <1>4, <1>8
    <3> QED BY <1>4, <1>7, <2>1, <3>1
  <2> QED BY <1>1, <1>6, <1>8, <2>2, <2>3, WalkEnds, SameIsReal DEF WalkFrame
<1>9. CASE /\ Live(next, search.cur_pos)
           /\ child_tab' = tab
           /\ search' = [search EXCEPT !.pc = "tree", !.node = next, !.depth = @ - 1]
           /\ walk' = [walk EXCEPT
                         !.pending_lt = lt, !.pending_gt = gt,
                         !.best_lt = IF less THEN walk.len ELSE @,
                         !.best_gt = IF less THEN @ ELSE walk.len,
                         !.len = len]
           /\ UNCHANGED linked
  <2>1. search' \in Searches
    <3>1. search.depth - 1 \in Int
      BY <1>6 DEF Searches
    <3> QED BY <1>5, <1>6, <1>9, <3>1 DEF Searches
  <2>2. /\ search'.pc = "tree" /\ search'.node = next /\ search'.cur_pos = search.cur_pos
        /\ search'.max = search.max /\ search'.nice = search.nice
    BY <1>6, <1>9 DEF Searches
  <2>3. walk' \in Walks
    BY <1>3, <1>6, <1>9 DEF Walks
  <2>4. /\ walk'.len = len /\ walk'.pending_lt = lt /\ walk'.pending_gt = gt
        /\ walk'.record = walk.record /\ walk'.nice_match = walk.nice_match
    BY <1>6, <1>9 DEF Walks
  <2>5. len < search.max
    BY <1>6
  <2>6. \A c \in Child : Settled(child_tab'[c]) \/ child_tab'[c] = child_tab[c]
    BY <1>4, <1>9
  <2>7. /\ walk'.pending_lt # walk.pending_lt => Settled(child_tab'[walk.pending_lt])
        /\ walk'.pending_gt # walk.pending_gt => Settled(child_tab'[walk.pending_gt])
    BY <1>4, <1>7, <1>9, <2>4
  <2>8. Walking'
    BY <2>2 DEF Walking
  <2>9. FinderInv'
    BY <1>1, <1>4, <1>5, <1>6, <1>9, <2>1, <2>2, <2>3, <2>4, <2>5, <2>6, <2>7, <2>8, WalkGoesOn
  <2> QED BY <1>1, <2>9, SameIsReal DEF WalkFrame
<1> QED BY <1>2, <1>8, <1>9

(* How far a node agrees, as BtCompare finds out. *)
LEMMA CompareExtent ==
  ASSUME FinderInv, Walking, Agreeing
  PROVE  /\ TreeExtent \in Nat /\ walk.len < TreeExtent /\ TreeExtent <= search.max
         /\ PrefixIsKnown => Agree(At, Candidate, TreeExtent)
         /\ TreeExtent < search.max =>
              data[Node + TreeExtent + 1] # data[Here + TreeExtent + 1]
<1> DEFINE first == walk.len + 1
<1>1. /\ At \in Int /\ Candidate \in Int /\ search.max \in Nat
      /\ first \in 0 .. search.max /\ walk.len \in Nat
      /\ Here = At /\ Node = Candidate
  <2>1. walk.len \in Nat /\ search.max \in Nat /\ in_base_offset \in Nat
        /\ search.node \in Int /\ search.cur_pos \in Nat
    BY WalkFacts DEF Walks, Searches
  <2>2. walk.len < search.max
    BY DEF FinderInv, WalkHolds
  <2> QED BY <2>1, <2>2 DEF At, Candidate, Here, Node
<1>2. /\ TreeExtent \in first .. search.max
      /\ \A k \in (first + 1) .. TreeExtent : data[At + k] = data[Candidate + k]
      /\ TreeExtent < search.max =>
           data[At + TreeExtent + 1] # data[Candidate + TreeExtent + 1]
  <2> HIDE DEF first
  <2>1. TreeExtent = ExtentFrom(At, Candidate, first, search.max)
    BY <1>1 DEF TreeExtent, first
  <2>2. /\ ExtentFrom(At, Candidate, first, search.max) \in first .. search.max
        /\ ExtendsTo(At, Candidate, first, search.max,
                     ExtentFrom(At, Candidate, first, search.max))
    <3>1. \A p \in Int, q \in Int, m \in Nat : \A f \in 0 .. m :
            /\ ExtentFrom(p, q, f, m) \in f .. m
            /\ ExtendsTo(p, q, f, m, ExtentFrom(p, q, f, m))
      BY ExtentFromIsOne
    <3>2. At \in Int /\ Candidate \in Int /\ search.max \in Nat /\ first \in 0 .. search.max
      BY <1>1
    <3> QED BY <3>1, <3>2
  <2>3. ExtendsTo(At, Candidate, first, search.max, TreeExtent)
    BY <2>1, <2>2
  <2> HIDE DEF TreeExtent
  <2> QED BY <2>1, <2>2, <2>3 DEF ExtendsTo
<1>3. TreeExtent \in Nat /\ walk.len < TreeExtent /\ TreeExtent <= search.max
  <2> HIDE DEF TreeExtent
  <2> QED BY <1>1, <1>2
<1>4. ASSUME PrefixIsKnown, NEW k \in 1 .. TreeExtent PROVE data[At + k] = data[Candidate + k]
  <2>1. Agree(At, Candidate, walk.len)
    BY <1>1, <1>4 DEF PrefixIsKnown, Walking
  <2>2. data[At + first] = data[Candidate + first]
    <3>1. At + first = Here + walk.len + 1 /\ Candidate + first = Node + walk.len + 1
      BY <1>1
    <3> HIDE DEF first
    <3> QED BY <3>1 DEF Agreeing
  <2>3. k \in 1 .. walk.len \/ k = first \/ k \in (first + 1) .. TreeExtent
    <3> HIDE DEF TreeExtent
    <3> QED BY <1>1, <1>3, <1>4
  <2> QED BY <1>2, <2>1, <2>2, <2>3 DEF Agree
<1>5. TreeExtent < search.max =>
        data[Node + TreeExtent + 1] # data[Here + TreeExtent + 1]
  BY <1>1, <1>2
<1> QED BY <1>3, <1>4, <1>5 DEF Agree

(* A node is compared and recorded, and perhaps replaced.                  *)
LEMMA BtCompareKeeps ==
  ASSUME FinderInv, UNCHANGED <<kind, htVars>>, BtCompare
  PROVE  FinderInv' /\ (MatchIsReal /\ PrefixIsKnown => MatchIsReal')
<1> DEFINE length == IF Agreeing THEN TreeExtent ELSE walk.len
           longer == Agreeing /\ (walk.record =>
                                    length > AtLeast(found.length, SHORT_LEN))
<1>1. /\ Walking /\ search.pc = "tree" /\ WalkFrame
      /\ found' = IF longer /\ walk.record
                    THEN [found EXCEPT !.length = length,
                                       !.offset = search.cur_pos - search.node]
                    ELSE found
      /\ \/ TakesPlace /\ WalkOver(Slot(search.cur_pos))
         \/ /\ ~(longer /\ length >= search.nice)
            /\ search' = [search EXCEPT !.pc = "branch"]
            /\ walk' = [walk EXCEPT !.len = length]
            /\ UNCHANGED <<child_tab, linked>>
  BY Zenon DEF BtCompare, Walking, WalkFrame
<1>2. /\ walk \in Walks /\ search \in Searches /\ walk.len \in Nat
      /\ search.max \in Nat /\ search.nice \in Nat
      /\ found \in [length : Nat, offset : Nat, at : Nat]
      /\ walk.len < search.max /\ SHORT_LEN < search.nice /\ SHORT_LEN \in Nat
      /\ walk.record => found.length < search.nice
      /\ search.nice <= search.max
      /\ walk.record \in BOOLEAN
  <2>1. walk \in Walks /\ search \in Searches /\ walk.len \in Nat
        /\ search.max \in Nat /\ search.nice \in Nat /\ walk.record \in BOOLEAN
    BY <1>1, WalkFacts DEF Walks, Searches
  <2> QED BY <1>1, <2>1, Basics, MatchAssumption DEF FinderInv, SearchHolds, WalkHolds
<1>3. /\ length \in Nat /\ length <= search.max
      /\ Agreeing => walk.len < length
      /\ ~Agreeing => length = walk.len
      /\ Agreeing /\ PrefixIsKnown => Agree(At, Candidate, length)
  BY <1>1, <1>2, CompareExtent
<1> HIDE DEF length
<1>4. /\ found' \in [length : Nat, offset : Nat, at : Nat]
      /\ found'.at = found.at
      /\ found'.length = IF longer /\ walk.record THEN length ELSE found.length
      /\ MatchIsReal /\ PrefixIsKnown => MatchIsReal'
  <2>1. CASE longer /\ walk.record
    <3>1. found' = [found EXCEPT !.length = length, !.offset = search.cur_pos - search.node]
      BY <1>1, <2>1
    <3>2. search.cur_pos - search.node \in Nat
      BY <1>1, WalkFacts DEF FinderInv, SearchHolds
    <3>3. /\ found' \in [length : Nat, offset : Nat, at : Nat]
          /\ found'.at = found.at /\ found'.length = length
      BY <1>2, <1>3, <3>1, <3>2
    <3>4. ASSUME PrefixIsKnown PROVE MatchIsReal'
      <4>1. Agree(At, Candidate, length) /\ UNCHANGED data
        BY <1>1, <1>3, <2>1, <3>4 DEF WalkFrame
      <4> QED BY <1>1, <1>3, <3>1, <4>1, BetterIsReal
    <3> QED BY <2>1, <3>3, <3>4
  <2>2. CASE ~(longer /\ walk.record)
    <3>1. found' = found /\ UNCHANGED data
      BY <1>1, <2>2 DEF WalkFrame
    <3> QED BY <1>2, <2>2, <3>1, SameIsReal
  <2> QED BY <2>1, <2>2
<1>5. CASE TakesPlace /\ WalkOver(Slot(search.cur_pos))
  <2>1. /\ LessThan(search.node) \in Child /\ GreaterThan(search.node) \in Child
        /\ Settled(child_tab[LessThan(search.node)])
        /\ Settled(child_tab[GreaterThan(search.node)])
    BY <1>1, WalkFacts, ChildrenAreChildren DEF LessThan, GreaterThan, Side
  <2> DEFINE lt == child_tab[LessThan(search.node)]
             gt == child_tab[GreaterThan(search.node)]
  <2>2. /\ child_tab' = [child_tab EXCEPT ![walk.pending_lt] = lt, ![walk.pending_gt] = gt]
        /\ lt \in Entry /\ gt \in Entry
    BY <1>1, <1>5, <2>1, WalkFacts DEF TakesPlace
  <2> HIDE DEF lt, gt
  <2>3. child_tab' \in [Child -> Entry]
    BY <1>1, <2>2, WalkFacts
  <2>4. ASSUME NEW c \in Child
        PROVE  \/ Settled(child_tab'[c])
               \/ /\ child_tab'[c] = child_tab[c]
                  /\ c # walk.pending_lt /\ c # walk.pending_gt
    <3>1. child_tab'[c] = IF c = walk.pending_gt THEN gt
                          ELSE IF c = walk.pending_lt THEN lt ELSE child_tab[c]
      BY <1>1, <2>2, WalkFacts
    <3> QED BY <2>1, <3>1 DEF lt, gt
  <2>5. FinderInv'
    BY <1>1, <1>4, <1>5, <2>3, <2>4, WalkEnds
  <2> QED BY <1>4, <2>5
<1>6. CASE /\ ~(longer /\ length >= search.nice)
           /\ search' = [search EXCEPT !.pc = "branch"]
           /\ walk' = [walk EXCEPT !.len = length]
           /\ UNCHANGED <<child_tab, linked>>
  <2>1. /\ search' \in Searches /\ search'.pc = "branch"
        /\ search'.node = search.node /\ search'.cur_pos = search.cur_pos
        /\ search'.max = search.max /\ search'.nice = search.nice
    BY <1>2, <1>6 DEF Searches
  <2>2. walk' \in Walks
    BY <1>2, <1>3, <1>6 DEF Walks
  <2>3. /\ walk'.len = length /\ walk'.record = walk.record
        /\ walk'.nice_match = walk.nice_match
        /\ walk'.pending_lt = walk.pending_lt /\ walk'.pending_gt = walk.pending_gt
    BY <1>2, <1>6 DEF Walks
  <2>4. length < search.max
    BY <1>2, <1>3, <1>6 DEF AtLeast
  <2>5. walk.record => found'.length < search.nice
    BY <1>2, <1>3, <1>4, <1>6
  <2>6. Live(search.node, search.cur_pos) /\ Settled(search.node)
    BY <1>1, WalkFacts DEF FinderInv, SearchHolds
  <2>7. child_tab' \in [Child -> Entry] /\ Walking' /\ UNCHANGED linked
        /\ \A c \in Child : Settled(child_tab'[c]) \/ child_tab'[c] = child_tab[c]
    BY <1>1, <1>6, <2>1, WalkFacts DEF Walking
  <2>8. FinderInv'
    BY <1>1, <1>4, <2>1, <2>2, <2>3, <2>4, <2>5, <2>6, <2>7, WalkGoesOn
  <2> QED BY <1>4, <2>8
<1> QED BY <1>1, <1>5, <1>6

-------------------------------------------------------------------------------

(* What the parsers may rely on: a match has an offset and is no longer    *)
(* than was asked for, and without one there is the length that was to be  *)
(* beaten.                                                                 *)
LEMMA HtFinds ==
  ASSUME FinderInv, kind = "ht", NEW max_len \in Nat, max_len <= Remaining, NEW nice_len,
         HtLongestMatch(max_len, nice_len)
  PROVE  /\ found'.at = in_next
         /\ found'.length <= max_len
         /\ found'.offset = 0 => found'.length = 0
<1> DEFINE h == next_hashes.long
           node0 == Slid(bucket0)[h]
           node1 == Slid(bucket1)[h]
<1>1. CASE FoundThis(0, 0)
  BY <1>1 DEF FoundThis
<1>2. CASE ~FoundThis(0, 0)
  <2>1. PICK node \in {node0, node1} :
          /\ Live(node, CurPos)
          /\ FoundThis(Extent(in_next, Base + node, max_len), CurPos - node)
    BY <1>2, Zenon DEF HtLongestMatch
  <2>2. /\ in_next \in Nat /\ in_base_offset \in Nat /\ h \in Bucket
        /\ search.pc = "ready"
        /\ bucket0 \in [Bucket -> Entry] /\ bucket1 \in [Bucket -> Entry]
        /\ \A b \in Bucket : Sound(bucket0[b]) /\ Sound(bucket1[b])
    BY Basics DEF FinderInv, TypesHold, FamilyTypeOK, BucketsHold, HtLongestMatch
  <2>3. Base \in Nat /\ CurPos \in Nat /\ in_next = Base + CurPos
    BY <2>2, Basics, BaseIsPlaced
  <2>4. /\ node \in Entry
        /\ node # INITVAL => Base + node < in_next
    BY <2>2, SlidMoves, SlidSound
  <2>5. node # INITVAL
    BY <2>1, <2>3, <2>4, LiveIsEntry
  <2>6. node \in Int
    BY <2>4 DEF Entry
  <2> HIDE DEF node0, node1, Base, CurPos
  <2>7. Extent(in_next, Base + node, max_len) \in 0 .. max_len
    <3>1. in_next \in Int /\ Base + node \in Int
      BY <2>2, <2>3, <2>6
    <3>2. QED BY <3>1, ExtentIsOne
  <2>8. CurPos - node > 0
    BY <2>2, <2>3, <2>4, <2>5, <2>6
  <2>9. /\ found'.at = in_next
        /\ found'.length = Extent(in_next, Base + node, max_len)
        /\ found'.offset = CurPos - node
    BY <2>1 DEF FoundThis
  <2> QED BY <2>7, <2>8, <2>9
<1> QED BY <1>1, <1>2

(* The short match that comes before the first link of a chain. *)
LEMMA HcFinds ==
  ASSUME FinderInv, kind = "hc", NEW max_len \in Nat, NEW best_len \in Nat,
         NEW nice_len \in Nat, NEW depth \in Int,
         HcLongestMatch(best_len, max_len, nice_len, depth)
  PROVE  /\ found'.at = in_next
         /\ found'.length <= AtLeast(best_len, max_len)
         /\ found'.offset = 0 => found'.length = best_len
         /\ search'.pc \in {"ready", "chain", "extend"}
         /\ search'.pc # "ready" => search'.max = max_len
<1> DEFINE node3 == Slid(hash3_tab)[next_hashes.short]
           node4 == Slid(hash4_tab)[next_hashes.long]
<1>1. \/ FoundThis(best_len, 0)
      \/ FoundThis(SHORT_LEN, CurPos - node3) /\ ~(max_len < REQUIRED_NBYTES)
         /\ Live(node3, CurPos)
  BY Zenon DEF HcLongestMatch
<1>2. \/ search' = Ready
      \/ \E pc \in {"chain", "extend"} :
           search' = [pc |-> pc, node |-> node4, cur_pos |-> CurPos,
                      max |-> max_len, nice |-> nice_len,
                      depth |-> depth, left |-> 0]
  <2>1. CASE max_len < REQUIRED_NBYTES \/ (best_len < LONG_LEN /\ ~Live(node3, CurPos))
    BY <2>1, Zenon DEF HcLongestMatch
  <2>2. CASE ~(max_len < REQUIRED_NBYTES \/ (best_len < LONG_LEN /\ ~Live(node3, CurPos)))
    <3>1. CASE best_len < LONG_LEN
      BY <2>2, <3>1, Zenon DEF HcLongestMatch
    <3>2. CASE ~(best_len < LONG_LEN)
      BY <2>2, <3>2, Zenon DEF HcLongestMatch
    <3> QED BY <3>1, <3>2
  <2> QED BY <2>1, <2>2
<1>3. /\ search'.pc \in {"ready", "chain", "extend"}
      /\ search'.pc # "ready" => search'.max = max_len
  <2> HIDE DEF node4
  <2> QED BY <1>2 DEF Ready
<1>4. CASE FoundThis(best_len, 0)
  BY <1>3, <1>4 DEF FoundThis, AtLeast
<1>5. CASE FoundThis(SHORT_LEN, CurPos - node3) /\ ~(max_len < REQUIRED_NBYTES)
           /\ Live(node3, CurPos)
  <2>1. /\ in_next \in Nat /\ in_base_offset \in Nat /\ next_hashes.short \in Bucket
        /\ search.pc = "ready"
        /\ hash3_tab \in [Bucket -> Entry]
        /\ \A b \in Bucket : Sound(hash3_tab[b])
    BY Basics DEF FinderInv, TypesHold, FamilyTypeOK, ChainsHold, HcLongestMatch
  <2>2. Base \in Nat /\ CurPos \in Nat /\ in_next = Base + CurPos
    BY <2>1, Basics, BaseIsPlaced
  <2>3. /\ node3 \in Entry
        /\ node3 # INITVAL => Base + node3 < in_next
    BY <2>1, SlidMoves, SlidSound
  <2>4. node3 # INITVAL
    BY <1>5, <2>2, <2>3, LiveIsEntry
  <2>5. node3 \in Int
    BY <2>3 DEF Entry
  <2> HIDE DEF node3, Base, CurPos
  <2>6. CurPos - node3 > 0
    BY <2>1, <2>2, <2>3, <2>4, <2>5
  <2>7. SHORT_LEN \in Nat /\ SHORT_LEN <= max_len
    BY <1>5, MatchAssumption
  <2>8. /\ found'.at = in_next
        /\ found'.length = SHORT_LEN
        /\ found'.offset = CurPos - node3
    BY <1>5 DEF FoundThis
  <2> QED BY <1>3, <2>6, <2>7, <2>8 DEF AtLeast
<1> QED BY <1>1, <1>4, <1>5

(* A link of a chain gives a match or leaves what there was. *)
LEMMA FollowFinds ==
  ASSUME FinderInv, HcChain \/ HcExtend
  PROVE  /\ found'.at = found.at
         /\ found' = found \/ (found'.offset # 0 /\ found'.length <= search.max)
         /\ search'.pc \in {"ready", "chain", "extend"}
         /\ search'.pc # "ready" => search'.max = search.max
<1>1. Following
  BY DEF HcChain, HcExtend, Following
<1>2. /\ search.cur_pos \in Nat /\ search.node \in Int /\ search.node < search.cur_pos
      /\ DOMAIN search = {"pc", "node", "cur_pos", "max", "nice", "depth", "left"}
      /\ DOMAIN found = {"length", "offset", "at"}
  BY <1>1, Basics DEF FinderInv, TypesHold, Searches, SearchHolds, Entry
<1>3. found' = found \/ Better(Extent(At, Candidate, search.max))
  BY DEF HcChain, HcExtend
<1>4. \/ search' = Ready
      \/ \E pc \in {"chain", "extend"}, depth \in Shallower : NextLink(pc, depth)
  BY DEF HcChain, HcExtend, Shallower
<1>5. /\ search'.pc \in {"ready", "chain", "extend"}
      /\ search'.pc # "ready" => search'.max = search.max
  <2>1. CASE search' = Ready
    BY <2>1 DEF Ready
  <2>2. ASSUME NEW pc \in {"chain", "extend"}, NEW depth, NextLink(pc, depth), search' # Ready
        PROVE  search'.pc = pc /\ search'.max = search.max
    BY <1>2, <2>2 DEF NextLink
  <2> QED BY <1>4, <2>1, <2>2
<1>6. ASSUME Better(Extent(At, Candidate, search.max))
      PROVE  /\ found'.at = found.at
             /\ found'.offset # 0 /\ found'.length <= search.max
  <2> DEFINE length == Extent(At, Candidate, search.max)
  <2>1. length <= search.max
    BY <1>1, CandidateExtent
  <2> HIDE DEF length
  <2>2. /\ found'.at = found.at /\ found'.length = length
        /\ found'.offset = search.cur_pos - search.node
    BY <1>2, <1>6 DEF Better, length
  <2> QED BY <1>2, <2>1, <2>2
<1> QED BY <1>3, <1>5, <1>6

-------------------------------------------------------------------------------

(* A finder at rest that inserts nothing. *)
LEMMA RestStep ==
  ASSUME FinderInv, AtRest,
         UNCHANGED <<kind, in_base_offset, found, search, htVars, hcVars, btVars>>,
         data' \in Seq(Byte), in_next' \in Nat,
         in_next <= in_next', in_next' <= Len(data'),
         kind = "bt" => in_next' = in_next,
         next_hashes' \in Hashes
  PROVE  FinderInv'
<1>1. /\ in_next \in Nat /\ in_base_offset \in Nat /\ in_base_offset <= in_next
      /\ search' = search /\ search.pc = "ready" /\ search \in Searches
      /\ walk' = walk /\ walk \in Walks /\ kind' = kind
      /\ UNCHANGED <<in_base_offset, linked>>
  BY Basics DEF AtRest, FinderInv, TypesHold, btVars, hcVars
<1>2. \A node \in Int : /\ Sound(node) => (node # INITVAL =>
                              in_base_offset + node >= 0 /\ in_base_offset + node < in_next')
                        /\ Strict(node) => (node # INITVAL =>
                              in_base_offset + node >= 0 /\ in_base_offset + node + 1 < in_next')
  BY <1>1 DEF Sound, Strict
<1>3. /\ \A b \in Bucket : /\ bucket0[b] \in Int /\ bucket1[b] \in Int /\ hash3_tab[b] \in Int
                           /\ hash4_tab[b] \in Int /\ hash3_old[b] \in Int
      /\ \A s \in linked : next_tab[s] \in Int
      /\ \A s \in linked, side \in Side : child_tab[<<s, side>>] \in Int
  <2>1. /\ bucket0 \in [Bucket -> Entry] /\ bucket1 \in [Bucket -> Entry]
        /\ hash3_tab \in [Bucket -> Entry] /\ hash4_tab \in [Bucket -> Entry]
        /\ hash3_old \in [Bucket -> Entry]
        /\ next_tab \in [0 .. (WINDOW_SIZE - 1) -> Entry]
        /\ child_tab \in [Child -> Entry]
        /\ linked \subseteq 0 .. (WINDOW_SIZE - 1)
    BY DEF FinderInv, TypesHold, FamilyTypeOK
  <2>2. \A s \in linked, side \in Side : <<s, side>> \in Child
    BY <2>1 DEF Child
  <2>3. \A node \in Entry : node \in Int
    BY DEF Entry
  <2> QED BY <2>1, <2>2, <2>3
<1>4. BucketsHold'
  <2>1. ASSUME NEW b \in Bucket, kind \in {"ht", "turbo", "fast_ht"}
        PROVE  /\ Sound(bucket0[b])' /\ Sound(bucket1[b])'
               /\ kind = "turbo" => bucket1'[b] = INITVAL
    <3>1. /\ Sound(bucket0[b]) /\ Sound(bucket1[b])
          /\ kind = "turbo" => bucket1[b] = INITVAL
      BY <2>1 DEF FinderInv, BucketsHold
    <3> QED BY <1>1, <1>2, <1>3, <3>1 DEF Sound, htVars
  <2> QED BY <1>1, <2>1 DEF BucketsHold
<1>5. ChainsHold'
  <2>1. ASSUME NEW b \in Bucket, kind = "hc"
        PROVE  Sound(hash3_tab[b])' /\ Sound(hash4_tab[b])' /\ Planted(hash4_tab[b])'
    <3>1. Sound(hash3_tab[b]) /\ Sound(hash4_tab[b]) /\ Planted(hash4_tab[b])
      BY <2>1 DEF FinderInv, ChainsHold
    <3> QED BY <1>1, <1>2, <1>3, <3>1 DEF Sound, Planted, Slot, hcVars
  <2>2. ASSUME NEW s \in linked, kind = "hc"
        PROVE  Strict(next_tab[s])' /\ Planted(next_tab[s])'
    <3>1. Strict(next_tab[s]) /\ Planted(next_tab[s])
      BY <2>2 DEF FinderInv, ChainsHold
    <3> QED BY <1>1, <1>2, <1>3, <3>1 DEF Strict, Planted, Slot, hcVars
  <2> QED BY <1>1, <2>1, <2>2 DEF ChainsHold
<1>6. TreesHold'
  <2>1. CASE kind = "bt"
    <3>1. in_next' = in_next
      BY <2>1
    <3> QED BY <1>1, <3>1 DEF FinderInv, TreesHold, Sound, Strict, Planted, Slot, Walking,
                              hcVars, btVars
  <2>2. CASE kind # "bt"
    BY <1>1, <2>2 DEF TreesHold
  <2> QED BY <2>1, <2>2
<1>7. SearchHolds' /\ WalkHolds'
  BY <1>1 DEF SearchHolds, WalkHolds, Following, Walking
<1>8. FamilyTypeOK'
  BY <1>1 DEF FinderInv, TypesHold, FamilyTypeOK, htVars, hcVars, btVars, Hashes
<1>9. PlacesHold'
  BY <1>1 DEF FinderInv, PlacesHold, Following, Walking
<1> QED BY <1>1, <1>4, <1>5, <1>6, <1>7, <1>8, <1>9 DEF FinderInv, TypesHold

(* init() of a finder. *)
LEMMA StartKeeps ==
  ASSUME FinderInv, AtRest, data' \in Seq(Byte), in_next' = 0, in_base_offset' = 0,
         found' = Nothing, UNCHANGED <<kind, search>>, next_hashes' \in Hashes,
         \/ HtInit /\ Bucketed /\ UNCHANGED <<hcVars, btVars>>
         \/ HcInit /\ kind = "hc" /\ UNCHANGED <<htVars, btVars>>
         \/ /\ kind = "bt" /\ UNCHANGED htVars
            /\ \E nice_match \in NiceLens : BtInit(nice_match)
  PROVE  FinderInv' /\ MatchIsReal'
<1>1. /\ search' \in Searches /\ search'.pc = "ready" /\ kind' = kind
      /\ INITVAL \in Entry /\ WINDOW_SIZE \in Nat
  BY MatchAssumption DEF AtRest, FinderInv, TypesHold, INITVAL, Entry
<1>2. MatchIsReal' /\ found' \in [length : Nat, offset : Nat, at : Nat]
  BY SpentIsReal
<1>3. PlacesHold'
  BY <1>1 DEF PlacesHold, Following, Walking
<1>4. SearchHolds' /\ WalkHolds'
  BY <1>1 DEF SearchHolds, WalkHolds, Following, Walking
<1>5. in_next' \in 0 .. Len(data') /\ in_base_offset' \in Nat
  <2>1. Len(data') \in Nat
    OBVIOUS
  <2> QED BY <2>1
<1> HIDE DEF INITVAL
<1>6. CASE HtInit /\ Bucketed /\ UNCHANGED <<hcVars, btVars>>
  <2>1. FamilyTypeOK'
    BY <1>1, <1>2, <1>5, <1>6
       DEF FinderInv, TypesHold, FamilyTypeOK, HtInit, hcVars, btVars, Hashes, Searches
  <2>2. BucketsHold'
    BY <1>6 DEF BucketsHold, HtInit, Sound
  <2> QED BY <1>1, <1>2, <1>3, <1>6, <2>1, <2>2, BucketStep
<1>7. CASE HcInit /\ kind = "hc" /\ UNCHANGED <<htVars, btVars>>
  <2>1. FamilyTypeOK'
    BY <1>1, <1>2, <1>5, <1>7
       DEF FinderInv, TypesHold, FamilyTypeOK, HcInit, htVars, btVars, Hashes, Searches
  <2>2. ChainsHold'
    BY <1>7 DEF ChainsHold, HcInit, Sound, Planted
  <2> QED BY <1>1, <1>2, <1>3, <1>4, <1>7, <2>1, <2>2, ChainStep
<1>8. CASE /\ kind = "bt" /\ UNCHANGED htVars
           /\ \E nice_match \in NiceLens : BtInit(nice_match)
  <2>1. PICK nice_match \in NiceLens : BtInit(nice_match)
    BY <1>8
  <2>2. walk' \in Walks /\ walk'.nice_match \in NiceLens
    <3>1. walk' = AtRoot(nice_match)
      BY <2>1 DEF BtInit
    <3> QED BY <3>1, RootIsWalk DEF AtRoot
  <2>3. FamilyTypeOK'
    BY <1>1, <1>2, <1>5, <1>8, <2>1, <2>2
       DEF FinderInv, TypesHold, FamilyTypeOK, BtInit, htVars, Hashes, Searches
  <2>4. TreesHold'
    BY <2>1 DEF TreesHold, BtInit, Sound, Planted
  <2> QED BY <1>1, <1>2, <1>3, <1>4, <1>8, <2>2, <2>3, <2>4, TreeStep
<1> QED BY <1>6, <1>7, <1>8

(* A finder just made.                                                     *)
LEMMA InitKeeps == FamilyInit => FinderInv /\ MatchIsReal
<1> SUFFICES ASSUME FamilyInit PROVE FinderInv /\ MatchIsReal
  OBVIOUS
<1>1. /\ kind \in Kinds /\ data = <<>> /\ in_next = 0 /\ in_base_offset = 0
      /\ next_hashes = [short |-> FirstBucket, long |-> FirstBucket]
      /\ found = Nothing /\ search = Ready /\ linked = {}
      /\ bucket0 = [b \in Bucket |-> INITVAL] /\ bucket1 = [b \in Bucket |-> INITVAL]
      /\ hash3_tab = [b \in Bucket |-> INITVAL] /\ hash4_tab = [b \in Bucket |-> INITVAL]
      /\ hash3_old = [b \in Bucket |-> INITVAL]
      /\ next_tab = [s \in 0 .. (WINDOW_SIZE - 1) |-> INITVAL]
      /\ child_tab = [c \in Child |-> INITVAL]
      /\ \E nice_match \in NiceLens : walk = AtRoot(nice_match)
  BY DEF FamilyInit, NewFinder
<1>2. INITVAL \in Entry /\ FirstBucket \in Bucket /\ WINDOW_SIZE \in Nat
  BY MatchAssumption DEF INITVAL, Entry
<1>3. walk \in Walks /\ walk.nice_match \in NiceLens
  BY <1>1, RootIsWalk DEF AtRoot
<1>4. search \in Searches /\ search.pc = "ready"
  BY <1>1, <1>2 DEF Ready, Searches
<1>5. found \in [length : Nat, offset : Nat, at : Nat] /\ MatchIsReal
  BY <1>1 DEF Nothing, MatchIsReal
<1>6. data \in Seq(Byte) /\ in_next \in 0 .. Len(data)
  BY <1>1
<1> HIDE DEF INITVAL
<1>7. FamilyTypeOK
  BY <1>1, <1>2, <1>3, <1>4, <1>5, <1>6 DEF FamilyTypeOK, Searches
<1>8. BucketsHold /\ ChainsHold /\ TreesHold
  BY <1>1 DEF BucketsHold, ChainsHold, TreesHold, Sound, Planted
<1>9. PlacesHold
  BY <1>1, <1>2, <1>4 DEF PlacesHold, Following, Walking
<1>10. SearchHolds /\ WalkHolds
  BY <1>4 DEF SearchHolds, WalkHolds, Following, Walking
<1> QED BY <1>3, <1>4, <1>5, <1>7, <1>8, <1>9, <1>10 DEF FinderInv, TypesHold

(* The input of a caller, and a part of it. *)
LEMMA PartOfText ==
  ASSUME NEW text \in Seq(Byte), NEW n \in 0 .. Len(text)
  PROVE  /\ SubSeq(text, 1, n) \in Seq(Byte)
         /\ Len(SubSeq(text, 1, n)) = n
         /\ \A i \in 1 .. n : SubSeq(text, 1, n)[i] = text[i]
<1>1. Len(text) \in Nat /\ n \in Nat
  OBVIOUS
<1>2. \A i \in 1 .. n : text[i] \in Byte
  BY <1>1
<1>3. /\ SubSeq(text, 1, n) \in Seq(Byte)
      /\ Len(SubSeq(text, 1, n)) = IF 1 <= n THEN n - 1 + 1 ELSE 0
      /\ \A i \in 1 .. n - 1 + 1 : SubSeq(text, 1, n)[i] = text[1 + i - 1]
  BY <1>1, <1>2, SubSeqProperties
<1> QED BY <1>1, <1>3

(* More input changes nothing before it.                                   *)
LEMMA FeedKeeps ==
  ASSUME FinderInv, Feed, UNCHANGED btVars
  PROVE  FinderInv' /\ (MatchIsReal => MatchIsReal')
<1>0. PICK text \in Texts : \E n \in (Len(data) + 1) .. Len(text) :
        SubSeq(text, 1, Len(data)) = data /\ data' = SubSeq(text, 1, n)
  BY Zenon DEF Feed
<1>1. PICK n \in (Len(data) + 1) .. Len(text) :
        SubSeq(text, 1, Len(data)) = data /\ data' = SubSeq(text, 1, n)
  BY <1>0
<1>2. /\ text \in Seq(Byte) /\ Len(text) \in Nat
      /\ data \in Seq(Byte) /\ Len(data) \in Nat /\ in_next \in Nat /\ in_next <= Len(data)
      /\ next_hashes \in Hashes
      /\ found \in [length : Nat, offset : Nat, at : Nat]
  BY Basics, FinderAssumption
<1>3. /\ n \in 0 .. Len(text) /\ Len(data) \in 0 .. Len(text) /\ Len(data) < n /\ n \in Nat
  BY <1>1, <1>2
<1>4. /\ data' \in Seq(Byte) /\ Len(data') = n
      /\ \A i \in 1 .. Len(data) : data'[i] = data[i]
  <2>1. \A i \in 1 .. n : data'[i] = text[i]
    BY <1>1, <1>2, <1>3, PartOfText
  <2>2. \A i \in 1 .. Len(data) : data[i] = text[i]
    BY <1>1, <1>2, <1>3, PartOfText
  <2> QED BY <1>1, <1>2, <1>3, <2>1, <2>2, PartOfText
<1>5. FinderInv'
  BY <1>2, <1>3, <1>4, RestStep DEF Feed
<1>6. ASSUME MatchIsReal PROVE MatchIsReal'
  <2>1. CASE found.offset = 0
    BY <2>1 DEF Feed, MatchIsReal
  <2>2. CASE found.offset # 0
    <3>1. /\ found.offset \in 1 .. found.at /\ found.offset < WINDOW_SIZE
          /\ found.at + found.length <= Len(data)
          /\ \A k \in 1 .. found.length :
               data[found.at + k] = data[found.at - found.offset + k]
      BY <1>6, <2>2 DEF MatchIsReal, Agree
    <3>2. /\ found.at \in Nat /\ found.offset \in Nat /\ found.length \in Nat
      BY <1>2
    <3>3. \A k \in 1 .. found.length :
            /\ found.at + k \in 1 .. Len(data)
            /\ found.at - found.offset + k \in 1 .. Len(data)
      BY <1>2, <3>1, <3>2
    <3>4. \A k \in 1 .. found.length :
            data'[found.at + k] = data'[found.at - found.offset + k]
      BY <1>4, <3>1, <3>3
    <3>5. found.at + found.length <= Len(data') /\ found' = found
      BY <1>2, <1>3, <1>4, <3>1, <3>2 DEF Feed
    <3> QED BY <3>1, <3>4, <3>5 DEF MatchIsReal, Agree
  <2> QED BY <2>1, <2>2
<1> QED BY <1>5, <1>6

(* The hash at the start of a block.                                       *)
LEMMA FirstHashIsHash ==
  ASSUME FinderInv
  PROVE  HtFirstHash \in Hashes
<1>1. /\ data \in Seq(Byte) /\ in_next \in Nat /\ next_hashes \in Hashes
      /\ FirstBucket \in Bucket
  BY Basics, MatchAssumption
<1>2. (IF in_next + LONG_LEN <= Len(data) THEN LongHashAt(in_next) ELSE FirstBucket) \in Bucket
  BY <1>1, HashesAreBuckets
<1> QED BY <1>1, <1>2 DEF HtFirstHash, Hashes

(* How many bytes a search may look at. *)
LEMMA SearchLimits ==
  ASSUME FinderInv, Remaining > 0
  PROVE  /\ AtMost(Remaining, MAX_MATCH_LEN) \in Nat
         /\ AtMost(Remaining, MAX_MATCH_LEN) <= Remaining
         /\ AtMost(Remaining, WINDOW_SIZE) \in Nat
<1>1. Remaining \in Nat
  BY Basics DEF Remaining
<1> QED BY <1>1, MatchAssumption DEF AtMost

(* One step of a finder that may be fed in pieces. *)
LEMMA NextKeeps ==
  ASSUME FinderInv, Next, UNCHANGED btVars
  PROVE  FinderInv' /\ (MatchIsReal => MatchIsReal')
<1>1. CASE Feed
  BY <1>1, FeedKeeps
<1>2. CASE FirstHashes
  <2>1. next_hashes' \in Hashes
    BY <1>2, FirstHashIsHash, MatchAssumption DEF FirstHashes, Hashes
  <2>2. data \in Seq(Byte) /\ in_next \in Nat /\ in_next <= Len(data)
    BY Basics
  <2>3. FinderInv'
    BY <1>2, <2>1, <2>2, RestStep DEF FirstHashes
  <2> QED BY <1>2, <2>3, SameIsReal DEF FirstHashes
<1>3. CASE Search
  <2> DEFINE all == AtMost(Remaining, MAX_MATCH_LEN)
  <2>1. all \in Nat /\ all <= Remaining
    BY <1>3, SearchLimits DEF Search
  <2>2. PICK nice \in NiceLens :
          \/ kind = "ht" /\ HtLongestMatch(all, AtMost(nice, all)) /\ OnlyHt
          \/ /\ kind = "hc"
             /\ \E max_len \in 1 .. all, best_len \in 0 .. (MAX_MATCH_LEN - 1),
                   depth \in 1 .. MaxDepth :
                  HcLongestMatch(best_len, max_len, AtMost(nice, max_len), depth)
             /\ OnlyHc
    BY <1>3, Zenon DEF Search
  <2>3. CASE kind = "ht" /\ HtLongestMatch(all, AtMost(nice, all)) /\ OnlyHt
    <3> HIDE DEF all
    <3> QED BY <2>1, <2>3, HtSearchKeeps DEF OnlyHt
  <2>4. CASE /\ kind = "hc"
             /\ \E max_len \in 1 .. all, best_len \in 0 .. (MAX_MATCH_LEN - 1),
                   depth \in 1 .. MaxDepth :
                  HcLongestMatch(best_len, max_len, AtMost(nice, max_len), depth)
             /\ OnlyHc
    <3>1. PICK max_len \in 1 .. all, best_len \in 0 .. (MAX_MATCH_LEN - 1),
               depth \in 1 .. MaxDepth :
            HcLongestMatch(best_len, max_len, AtMost(nice, max_len), depth)
      BY <2>4
    <3>2. max_len \in Nat /\ 1 <= max_len /\ max_len <= Remaining
      <4>1. Remaining \in Nat
        BY Basics DEF Remaining
      <4> HIDE DEF all
      <4> QED BY <2>1, <4>1
    <3>3. AtMost(nice, max_len) \in Nat /\ AtMost(nice, max_len) <= max_len
      BY <3>2, FinderAssumption DEF AtMost
    <3>4. best_len \in Nat /\ depth \in Int
      BY MatchAssumption
    <3> HIDE DEF all
    <3> QED BY <2>4, <3>1, <3>2, <3>3, <3>4, HcSearchKeeps DEF OnlyHc
  <2> QED BY <2>2, <2>3, <2>4
<1>4. CASE Follow
  BY <1>4, FollowKeeps DEF Follow, OnlyHc
<1>5. CASE PassOver
  <2>1. /\ data \in Seq(Byte) /\ Len(data) \in Nat /\ in_next \in Nat
        /\ in_next <= Len(data) /\ next_hashes \in Hashes
    BY Basics
  <2>2. in_next + 1 \in Nat /\ in_next + 1 <= Len(data)
    BY <1>5, <2>1 DEF PassOver, Remaining
  <2>3. FinderInv'
    BY <1>5, <2>1, <2>2, RestStep DEF PassOver
  <2> QED BY <1>5, <2>3, SameIsReal DEF PassOver
<1>6. CASE Skip
  <2>1. PICK count \in 1 .. AtMost(Remaining, WINDOW_SIZE) :
          \/ kind = "ht" /\ (HtSkip(count) \/ HtSkipOne) /\ OnlyHt
          \/ kind = "hc" /\ (HcSkip(count) \/ HcSkipOne) /\ OnlyHc
    BY <1>6, Zenon DEF Skip
  <2>2. CASE HtSkip(count) /\ OnlyHt
    BY <2>2, HtSkipKeeps DEF OnlyHt
  <2>3. CASE HtSkipOne /\ OnlyHt
    <3>1. FinderInv'
      BY <2>3, HtSkipOneKeeps DEF OnlyHt
    <3> QED BY <2>3, <3>1, SameIsReal DEF HtSkipOne
  <2>4. CASE HcSkip(count) /\ OnlyHc
    BY <2>4, HcSkipKeeps DEF OnlyHc
  <2>5. CASE HcSkipOne /\ OnlyHc
    <3>1. FinderInv'
      BY <2>5, HcSkipOneKeeps DEF OnlyHc
    <3> QED BY <2>5, <3>1, SameIsReal DEF HcSkipOne
  <2> QED BY <2>1, <2>2, <2>3, <2>4, <2>5
<1>7. CASE StartOver
  <2>1. PICK text \in Texts : \E n \in 0 .. Len(text) : data' = SubSeq(text, 1, n)
    BY <1>7 DEF StartOver
  <2>2. data' \in Seq(Byte)
    BY <2>1, PartOfText, FinderAssumption
  <2>3. next_hashes \in Hashes
    BY Basics
  <2>4. CASE HtInit /\ OnlyHt
    BY <1>7, <2>2, <2>3, <2>4, StartKeeps DEF StartOver, OnlyHt, Bucketed
  <2>5. CASE HcInit /\ OnlyHc
    BY <1>7, <2>2, <2>3, <2>5, StartKeeps DEF StartOver, OnlyHc
  <2> QED BY <1>7, <2>4, <2>5, Zenon DEF StartOver
<1> QED BY <1>1, <1>2, <1>3, <1>4, <1>5, <1>6, <1>7 DEF Next

(* One step of any finder, or of none. *)
LEMMA StepKeeps ==
  ASSUME FinderInv, [FamilyNext]_familyVars
  PROVE  FinderInv' /\ (MatchIsReal /\ PrefixIsKnown => MatchIsReal')
<1>1. CASE PiecewiseNext
  BY <1>1, NextKeeps DEF PiecewiseNext
<1>2. CASE StartWhole
  <2>1. data' \in Seq(Byte)
    BY <1>2, FamilyAssumption DEF StartWhole
  <2>2. next_hashes' \in Hashes
    <3>1. next_hashes \in Hashes
      BY Basics
    <3>2. [short |-> FirstBucket, long |-> FirstBucket] \in Hashes
      BY MatchAssumption DEF Hashes
    <3> QED BY <1>2, <3>1, <3>2, Zenon DEF StartWhole
  <2>3. CASE HtInit /\ OnlyLimited
    BY <1>2, <2>1, <2>2, <2>3, StartKeeps DEF StartWhole, OnlyLimited, Limited, Bucketed
  <2>4. CASE HtInit /\ OnlyHt /\ UNCHANGED btVars
    BY <1>2, <2>1, <2>2, <2>4, StartKeeps DEF StartWhole, OnlyHt, Bucketed
  <2>5. CASE (\E nice_match \in NiceLens : BtInit(nice_match)) /\ OnlyBt
    <3>1. kind' = kind
      BY <2>5 DEF OnlyBt
    <3> QED BY <1>2, <2>1, <2>2, <2>5, <3>1, StartKeeps DEF StartWhole, OnlyBt
  <2> QED BY <1>2, <2>3, <2>4, <2>5, Zenon DEF StartWhole
<1>3. CASE BlockHash
  <2>1. data \in Seq(Byte) /\ in_next \in Nat /\ in_next <= Len(data)
    BY Basics
  <2>2. FinderInv'
    BY <1>3, <2>1, FirstHashIsHash, RestStep DEF BlockHash, OnlyLimited
  <2> QED BY <1>3, <2>2, SameIsReal DEF BlockHash
<1>4. CASE SearchLimited
  <2> DEFINE all == AtMost(Remaining, MAX_MATCH_LEN)
  <2>1. all \in Nat /\ all <= Remaining
    BY <1>4, SearchLimits DEF SearchLimited
  <2>2. CASE kind = "turbo" /\ TurboLongestMatch(all) /\ OnlyLimited
    <3> HIDE DEF all
    <3> QED BY <2>1, <2>2, TurboSearchKeeps DEF OnlyLimited
  <2>3. CASE /\ kind = "fast_ht"
             /\ \E nice \in NiceLens : FastHtLongestMatch(all, AtMost(nice, all))
             /\ OnlyLimited
    <3>1. PICK nice \in NiceLens : HtLongestMatch(all, AtMost(nice, all))
      BY <2>3 DEF FastHtLongestMatch
    <3> HIDE DEF all
    <3> QED BY <2>1, <2>3, <3>1, HtSearchKeeps DEF OnlyLimited
  <2> QED BY <1>4, <2>2, <2>3, Zenon DEF SearchLimited
<1>5. CASE SkipLimited
  <2>1. PICK count \in 1 .. AtMost(Remaining, WINDOW_SIZE) :
          \/ kind = "turbo" /\ TurboSkip(count)
          \/ kind = "fast_ht" /\ FastHtSkip(count)
    BY <1>5 DEF SkipLimited
  <2>2. UNCHANGED <<kind, hcVars, btVars>> /\ Limited
    BY <1>5 DEF SkipLimited, OnlyLimited
  <2>3. LimitedSkip(count, kind = "fast_ht")
    <3>1. CASE kind = "turbo" /\ TurboSkip(count)
      <4>1. (kind = "fast_ht") = FALSE
        BY <3>1
      <4> QED BY <3>1, <4>1 DEF TurboSkip
    <3>2. CASE kind = "fast_ht" /\ FastHtSkip(count)
      <4>1. (kind = "fast_ht") = TRUE
        BY <3>2
      <4> QED BY <3>2, <4>1 DEF FastHtSkip
    <3> QED BY <2>1, <3>1, <3>2
  <2> QED BY <2>2, <2>3, LimitedSkipKeeps
<1>6. CASE PassLimited
  <2>1. /\ data \in Seq(Byte) /\ Len(data) \in Nat /\ in_next \in Nat
        /\ in_next <= Len(data) /\ next_hashes \in Hashes
    BY Basics
  <2>2. in_next + 1 \in Nat /\ in_next + 1 <= Len(data)
    BY <1>6, <2>1 DEF PassLimited, Remaining
  <2>3. kind # "bt"
    BY <1>6 DEF PassLimited, OnlyLimited, Limited
  <2>4. FinderInv'
    BY <1>6, <2>1, <2>2, <2>3, RestStep DEF PassLimited, OnlyLimited
  <2> QED BY <1>6, <2>4, SameIsReal DEF PassLimited
<1>7. CASE Advance
  <2>1. PICK record \in BOOLEAN : BtAdvance(record)
    BY <1>7 DEF Advance
  <2> QED BY <1>7, <2>1, BtAdvanceKeeps DEF Advance, OnlyBt
<1>8. CASE Walk
  BY <1>8, BtCompareKeeps, BtDescendKeeps DEF Walk, OnlyBt
<1>9. CASE UNCHANGED familyVars
  <2>1. FinderInv'
    <3>1. UNCHANGED <<kind, data, in_next, in_base_offset, next_hashes, found, search,
                      bucket0, bucket1, hash3_tab, hash4_tab, next_tab, linked,
                      hash3_old, child_tab, walk>>
      BY <1>9 DEF familyVars, finderVars, windowVars, htVars, hcVars, btVars
    <3>2. TypesHold' /\ PlacesHold' /\ BucketsHold'
      BY <3>1 DEF FinderInv, TypesHold, FamilyTypeOK, PlacesHold, Following, Walking,
                  BucketsHold, Sound
    <3>3. ChainsHold' /\ TreesHold'
      BY <3>1 DEF FinderInv, ChainsHold, TreesHold, Sound, Planted, Strict, Walking
    <3>4. SearchHolds' /\ WalkHolds'
      BY <3>1 DEF FinderInv, SearchHolds, WalkHolds, Following, Walking, At, Candidate,
                  Awaited, Planted, Strict
    <3> QED BY <3>2, <3>3, <3>4 DEF FinderInv
  <2> QED BY <1>9, <2>1, SameIsReal DEF familyVars, finderVars, windowVars
<1> QED BY <1>1, <1>2, <1>3, <1>4, <1>5, <1>6, <1>7, <1>8, <1>9 DEF FamilyNext

(* What FinderInv says of the properties. *)
LEMMA InvSuffices ==
  ASSUME FinderInv
  PROVE  /\ AllEntriesSound
         /\ OnlyFreshLinks
         /\ AllReadsInside
         /\ kind # "bt" => PrefixIsKnown
<1>1. AllEntriesSound
  <2>1. EntriesSound
    <3>1. kind = "ht" => \A b \in Bucket : Sound(bucket0[b]) /\ Sound(bucket1[b])
      BY DEF FinderInv, BucketsHold
    <3>2. kind = "hc" => \A b \in Bucket : Sound(hash3_tab[b]) /\ Sound(hash4_tab[b])
      BY DEF FinderInv, ChainsHold
    <3>3. ASSUME kind = "hc", NEW s \in linked PROVE Sound(next_tab[s])
      <4>1. Strict(next_tab[s])
        BY <3>3 DEF FinderInv, ChainsHold
      <4>2. next_tab[s] \in Entry
        BY <3>3 DEF FinderInv, TypesHold, FamilyTypeOK
      <4>3. next_tab[s] \in Int
        BY <4>2, MatchAssumption DEF Entry
      <4> QED BY <4>1, <4>3, Basics DEF Strict, Sound
    <3> QED BY <3>1, <3>2, <3>3, Basics DEF EntriesSound
  <2>2. Limited => \A b \in Bucket : Sound(bucket0[b]) /\ Sound(bucket1[b])
    BY DEF FinderInv, BucketsHold, Limited
  <2>3. ASSUME kind = "bt", NEW s \in linked, NEW side \in Side
        PROVE  Sound(child_tab[<<s, side>>])
    <3>1. Strict(child_tab[<<s, side>>])
      BY <2>3 DEF FinderInv, TreesHold
    <3>2. child_tab[<<s, side>>] \in Entry
      BY <2>3 DEF FinderInv, TypesHold, FamilyTypeOK, Child
    <3>3. child_tab[<<s, side>>] \in Int
      BY <3>2, MatchAssumption DEF Entry
    <3> QED BY <3>1, <3>3, Basics DEF Strict, Sound
  <2>4. \A s \in linked : Slot(s) = s
    <3>1. linked \subseteq 0 .. (WINDOW_SIZE - 1)
      BY DEF FinderInv, TypesHold, FamilyTypeOK
    <3>2. WINDOW_SIZE \in Nat \ {0}
      BY MatchAssumption
    <3>3. \A s \in 0 .. (WINDOW_SIZE - 1) : s % WINDOW_SIZE = s
      BY <3>2, ModOfNat
    <3> QED BY <3>1, <3>3 DEF Slot
  <2>5. kind = "bt" =>
          /\ \A b \in Bucket : Sound(hash3_tab[b]) /\ Sound(hash3_old[b]) /\ Sound(hash4_tab[b])
          /\ \A s \in linked : Sound(child_tab[LessThan(s)]) /\ Sound(child_tab[GreaterThan(s)])
    BY <2>3, <2>4 DEF FinderInv, TreesHold, LessThan, GreaterThan, Side
  <2> QED BY <2>1, <2>2, <2>5 DEF AllEntriesSound
<1>2. OnlyFreshLinks
  BY DEF FinderInv, SearchHolds, Following, Walking, OnlyFreshLinks, LinksAreFresh,
         NodesArePlanted
<1>3. AllReadsInside
  <2>1. FamilyTypeOK
    BY DEF FinderInv, TypesHold
  <2>2. ASSUME Following \/ Walking
        PROVE  Candidate \in 0 .. (At - 1) /\ At + search.max <= Len(data)
    <3>1. search.cur_pos \in Nat /\ search.node \in Int /\ in_base_offset \in Nat
      <4>1. search.cur_pos \in Nat /\ search.node \in Entry
        BY DEF FinderInv, TypesHold, Searches
      <4> QED BY <4>1, Basics, MatchAssumption DEF Entry
    <3> QED BY <2>2, <3>1 DEF FinderInv, SearchHolds, At, Candidate
  <2>3. ReadsInside /\ ComparesInside
    BY <2>2 DEF FinderInv, SearchHolds, WalkHolds, ReadsInside, ComparesInside,
                Following, Walking, At, Candidate, Here, Node
  <2> QED BY <2>1, <2>3 DEF AllReadsInside
<1>4. kind # "bt" => PrefixIsKnown
  BY DEF FinderInv, PlacesHold, Walking, PrefixIsKnown
<1> QED BY <1>1, <1>2, <1>3, <1>4

-------------------------------------------------------------------------------

(* The invariant holds of every finder.                                    *)
LEMMA FinderInvHolds == FamilySpec => []FinderInv
<1>1. FamilyInit => FinderInv
  BY InitKeeps
<1>2. FinderInv /\ [FamilyNext]_familyVars => FinderInv'
  BY StepKeeps
<1> QED BY <1>1, <1>2, PTL DEF FamilySpec

(* Whatever the finder, the input, the pieces it comes in, the searches,   *)
(* the skips and the slides in between, no entry of a table in use is ever *)
(* taken for a byte that is not there yet.                                 *)
THEOREM EntriesStaySound == FamilySpec => []AllEntriesSound
<1>1. FinderInv => AllEntriesSound
  BY InvSuffices
<1> QED BY <1>1, FinderInvHolds, PTL

(* A chain and a tree are followed only through slots this input wrote:    *)
(* init need not clear next_tab and child_tab.                             *)
THEOREM LinksStayFresh == FamilySpec => []OnlyFreshLinks
<1>1. FinderInv => OnlyFreshLinks
  BY InvSuffices
<1> QED BY <1>1, FinderInvHolds, PTL

(* No comparison of a chain or a tree reads outside the input, which the   *)
(* raw-pointer twins of the searches do not check.                         *)
THEOREM ReadsStayInside == FamilySpec => []AllReadsInside
<1>1. FinderInv => AllReadsInside
  BY InvSuffices
<1> QED BY <1>1, FinderInvHolds, PTL

(* What a search finds can be copied, as long as what a walk of a tree     *)
(* takes to agree does agree, as the ordered trees below have it.          *)
LEMMA MatchesAreReal == FamilySpec /\ []PrefixIsKnown => []MatchIsReal
<1>1. FamilyInit => FinderInv /\ MatchIsReal
  BY InitKeeps
<1>2. FinderInv /\ MatchIsReal /\ PrefixIsKnown /\ [FamilyNext]_familyVars
        => FinderInv' /\ MatchIsReal'
  BY StepKeeps
<1> QED BY <1>1, <1>2, PTL DEF FamilySpec

-------------------------------------------------------------------------------
(***************************************************************************)
(* The trees stay ordered, for every window size, hash function, input and *)
(* search depth: what a search takes to agree with a node it has not       *)
(* compared does agree, so its matches are real.                           *)
(*                                                                         *)
(* The program keeps no record of what lies below a node, and nodes that   *)
(* were cut off or slid out are not cut out of it.  The order is stated    *)
(* with an assignment sub of a set of positions to every child:            *)
(*   InOrder     all of them are older than the node and on its side, as   *)
(*               far as the present search looks;                          *)
(*   Contains    a child and what is below it are among them, unless the   *)
(*               search has still to fill that child;                      *)
(*   WalkOrder   what is below the next node of a search lies between the  *)
(*               nearest nodes found on either side, and agrees with the   *)
(*               position as far as each of them does.                     *)
(***************************************************************************)

(* The position a walk inserts, or the one the next walk will.             *)
Searched == IF Walking THEN At ELSE in_next

(* The positions in the trees: those of the window that have children.     *)
Nodes ==
  {p \in 0 .. (in_next - 1) :
     /\ Searched - WINDOW_SIZE < p
     /\ p = Searched \/ Slot(p - in_base_offset) \in linked}

Kid(p, side) == <<Slot(p - in_base_offset), side>>
ChildAt(c) == in_base_offset + child_tab[c]

(* As far as that walk looks: nice_len of its position.                    *)
Reach == AtMost(walk.nice_match, AtMost(Len(data) - Searched, MAX_MATCH_LEN))

(* In their first n bytes p is not greater than q: where they first differ *)
(* p has the smaller byte.                                                 *)
NotAfter(p, q, n) == \A k \in 1 .. n : Agree(p, q, k - 1) => data[p + k] <= data[q + k]

(* y may be on this side of p.                                             *)
OnSide(side, y, p, n) == IF side = "less" THEN NotAfter(y, p, n) ELSE NotAfter(p, y, n)

Other(side) == IF side = "less" THEN "greater" ELSE "less"

(* The child a walk has still to fill, and what is known of that side.     *)
Place(side) == IF side = "less" THEN walk.pending_lt ELSE walk.pending_gt
Best(side) == IF side = "less" THEN walk.best_lt ELSE walk.best_gt

Pending == IF Walking THEN {walk.pending_lt, walk.pending_gt} ELSE {}

(* The positions sub puts below p, and p.                                  *)
Family(sub, p) == {p} \cup sub[Kid(p, "less")] \cup sub[Kid(p, "greater")]

InOrder(sub) ==
  \A p \in Nodes, y \in Nodes, side \in Side :
     y \in sub[Kid(p, side)] => y < p /\ OnSide(side, y, p, Reach)

Contains(sub) ==
  \A p \in Nodes, side \in Side :
     /\ Kid(p, side) \notin Pending
     /\ ChildAt(Kid(p, side)) \in Nodes
     => Family(sub, ChildAt(Kid(p, side))) \cap Nodes \subseteq sub[Kid(p, side)]

Belongs(sub, y) ==
  /\ y < At
  /\ \A side \in Side : 
       /\ Kid(y, side) \notin Pending
       /\ OnSide(side, y, At, Reach) =>
            y \in sub[Place(side)] /\ Agree(At, y, Best(side))

WalkOrder(sub) ==
  Walking =>
    /\ search.nice = Reach
    /\ walk.len < Reach
    /\ walk.pending_lt # walk.pending_gt
    /\ Agree(At, Candidate, walk.len)
    /\ search.pc = "branch" => ~Agreeing
    /\ \A y \in Family(sub, Candidate) \cap Nodes : Belongs(sub, y)

Ordered(sub) == InOrder(sub) /\ Contains(sub) /\ WalkOrder(sub)

TreesOrdered ==
  kind = "bt" /\ (Walking \/ REQUIRED_NBYTES <= Remaining) =>
    \E sub \in [Child -> SUBSET Nat] : Ordered(sub)

-------------------------------------------------------------------------------

(* p and q have n bytes each.                                              *)
Inside(p, n) == p \in Nat /\ n \in Nat /\ p + n <= Len(data)

(* They are numbers: trees are ordered by them.                            *)
LEMMA BytesAreNumbers ==
  ASSUME FinderInv, NEW p, NEW n, Inside(p, n)
  PROVE  \A k \in 1 .. n : data[p + k] \in Nat
<1>1. data \in Seq(Byte) /\ Byte \subseteq Nat /\ Len(data) \in Nat
  BY Basics, TreeAssumption
<1>2. \A x \in 1 .. Len(data) : data[x] \in Nat
  BY <1>1, ElementOfSeq
<1>3. ASSUME NEW k \in 1 .. n PROVE data[p + k] \in Nat
  <2>1. p + k \in 1 .. Len(data)
    BY <1>1 DEF Inside
  <2> QED BY <1>2, <2>1
<1> QED BY <1>3

(* What lies between two that agree agrees with them.                      *)
LEMMA Squeeze ==
  ASSUME FinderInv, NEW n, NEW p, NEW q, NEW r, Inside(p, n), Inside(q, n), Inside(r, n),
         NotAfter(p, q, n), NotAfter(q, r, n),
         NEW len \in Nat, len <= n, Agree(p, r, len)
  PROVE  Agree(p, q, len)
<1> DEFINE S == {k \in 1 .. len : data[p + k] # data[q + k]}
<1>1. SUFFICES ASSUME S # {} PROVE FALSE
  BY DEF Agree
<1>2. PICK k \in S : \A m \in S : k <= m
  <2>1. S \subseteq Nat
    OBVIOUS
  <2> HIDE DEF S
  <2> QED BY <1>1, <2>1, LeastNumber
<1>3. k \in 1 .. len /\ k \in 1 .. n /\ data[p + k] # data[q + k] /\ n \in Nat
  BY DEF Inside
<1>4. \A j \in 1 .. (k - 1) : data[p + j] = data[q + j]
  <2>1. ASSUME NEW j \in 1 .. (k - 1), data[p + j] # data[q + j] PROVE FALSE
    <3>1. j \in S /\ j < k
      BY <1>3, <2>1
    <3> HIDE DEF S
    <3> QED BY <1>2, <1>3, <2>1, <3>1
  <2> QED BY <2>1
<1>5. \A j \in 1 .. (k - 1) : data[q + j] = data[r + j]
  <2>1. \A j \in 1 .. (k - 1) : j \in 1 .. len
    BY <1>3
  <2> QED BY <1>4, <2>1 DEF Agree
<1>6. data[p + k] <= data[q + k] /\ data[q + k] <= data[r + k]
  <2> HIDE DEF S
  <2> QED BY <1>3, <1>4, <1>5 DEF NotAfter, Agree
<1>7. data[p + k] = data[r + k]
  BY <1>3 DEF Agree
<1>8. data[p + k] \in Nat /\ data[q + k] \in Nat
  BY <1>3, BytesAreNumbers
<1> QED
  <2> HIDE DEF S
  <2> QED BY <1>3, <1>6, <1>7, <1>8

(* The order is transitive,                                                *)
LEMMA NotAfterTransitive ==
  ASSUME FinderInv, NEW n, NEW p, NEW q, NEW r, Inside(p, n), Inside(q, n), Inside(r, n),
         NotAfter(p, q, n), NotAfter(q, r, n)
  PROVE  NotAfter(p, r, n)
<1> SUFFICES ASSUME NEW k \in 1 .. n, Agree(p, r, k - 1) PROVE data[p + k] <= data[r + k]
  BY DEF NotAfter
<1>1. k - 1 \in Nat /\ k - 1 <= n /\ n \in Nat
  BY DEF Inside
<1>2. Agree(p, q, k - 1)
  BY <1>1, Squeeze
<1>3. Agree(q, r, k - 1)
  BY <1>2 DEF Agree
<1>4. data[p + k] <= data[q + k] /\ data[q + k] <= data[r + k]
  BY <1>2, <1>3 DEF NotAfter
<1>5. data[p + k] \in Nat /\ data[q + k] \in Nat /\ data[r + k] \in Nat
  BY BytesAreNumbers
<1> QED BY <1>4, <1>5

(* total,                                                                  *)
LEMMA NotAfterTotal ==
  ASSUME FinderInv, NEW n, NEW p, NEW q, Inside(p, n), Inside(q, n)
  PROVE  NotAfter(p, q, n) \/ NotAfter(q, p, n)
<1> DEFINE S == {k \in 1 .. n : data[p + k] # data[q + k]}
<1>0. /\ \A k \in 1 .. n : data[p + k] \in Nat /\ data[q + k] \in Nat
      /\ n \in Nat
  BY BytesAreNumbers DEF Inside
<1>1. CASE S = {}
  <2>1. \A k \in 1 .. n : data[p + k] = data[q + k]
    BY <1>1
  <2> QED BY <1>0, <2>1 DEF NotAfter
<1>2. CASE S # {}
  <2>1. PICK k \in S : \A m \in S : k <= m
    <3>1. S \subseteq Nat
      OBVIOUS
    <3> HIDE DEF S
    <3> QED BY <1>2, <3>1, LeastNumber
  <2>2. k \in 1 .. n /\ data[p + k] # data[q + k]
    OBVIOUS
  <2>3. \A j \in 1 .. n : j < k => data[p + j] = data[q + j]
    <3>1. ASSUME NEW j \in 1 .. n, j < k, data[p + j] # data[q + j] PROVE FALSE
      <4>1. j \in S
        BY <3>1
      <4> HIDE DEF S
      <4> QED BY <2>1, <2>2, <3>1, <4>1
    <3> QED BY <3>1
  <2>4. \A j \in 1 .. n : j > k => ~Agree(p, q, j - 1) /\ ~Agree(q, p, j - 1)
    <3>1. \A j \in 1 .. n : j > k => k \in 1 .. (j - 1)
      BY <1>0, <2>2
    <3> HIDE DEF S
    <3> QED BY <2>2, <3>1 DEF Agree
  <2> HIDE DEF S
  <2>5. CASE data[p + k] < data[q + k]
    <3>1. ASSUME NEW j \in 1 .. n, Agree(p, q, j - 1) PROVE data[p + j] <= data[q + j]
      <4>1. j < k \/ j = k
        BY <1>0, <2>2, <2>4, <3>1
      <4> QED BY <1>0, <2>2, <2>3, <2>5, <4>1
    <3> QED BY <3>1 DEF NotAfter
  <2>6. CASE data[q + k] < data[p + k]
    <3>1. ASSUME NEW j \in 1 .. n, Agree(q, p, j - 1) PROVE data[q + j] <= data[p + j]
      <4>1. j < k \/ j = k
        BY <1>0, <2>2, <2>4, <3>1
      <4> QED BY <1>0, <2>2, <2>3, <2>6, <4>1
    <3> QED BY <3>1 DEF NotAfter
  <2> QED BY <1>0, <2>2, <2>5, <2>6
<1> QED BY <1>1, <1>2

(* and coarser the fewer bytes it looks at.                                *)
LEMMA NotAfterFewer ==
  ASSUME NEW n \in Int, NEW m \in Int, m <= n, NEW p, NEW q, NotAfter(p, q, n)
  PROVE  NotAfter(p, q, m)
<1>1. \A k \in 1 .. m : k \in 1 .. n
  OBVIOUS
<1> QED BY <1>1 DEF NotAfter

(* Two that agree are in order either way.                                 *)
LEMMA AgreeNotAfter ==
  ASSUME FinderInv, NEW n, NEW p, NEW q, Inside(p, n), Inside(q, n), Agree(p, q, n)
  PROVE  NotAfter(p, q, n) /\ NotAfter(q, p, n)
<1>1. \A k \in 1 .. n : data[p + k] \in Nat /\ data[q + k] \in Nat
  BY BytesAreNumbers
<1> QED BY <1>1 DEF NotAfter, Agree

(* The first byte that differs decides.                                    *)
LEMMA DiffersNotAfter ==
  ASSUME FinderInv, NEW n, NEW p, NEW q, Inside(p, n), Inside(q, n),
         NEW len \in Nat, len < n, Agree(p, q, len), data[p + len + 1] < data[q + len + 1]
  PROVE  NotAfter(p, q, n)
<1>0. /\ \A k \in 1 .. n : data[p + k] \in Nat /\ data[q + k] \in Nat
      /\ n \in Nat /\ p \in Nat /\ q \in Nat
  BY BytesAreNumbers DEF Inside
<1>1. /\ len + 1 \in 1 .. n
      /\ data[p + (len + 1)] < data[q + (len + 1)]
  BY <1>0
<1>2. ASSUME NEW k \in 1 .. n, Agree(p, q, k - 1) PROVE data[p + k] <= data[q + k]
  <2>1. CASE k <= len
    <3>1. k \in 1 .. len
      BY <2>1
    <3> QED BY <1>0, <3>1 DEF Agree
  <2>2. CASE k = len + 1
    BY <1>0, <1>1, <2>2
  <2>3. CASE k > len + 1
    <3>1. len + 1 \in 1 .. (k - 1)
      BY <2>3
    <3>2. data[p + (len + 1)] = data[q + (len + 1)]
      BY <1>2, <3>1 DEF Agree
    <3> QED BY <1>0, <1>1, <3>2
  <2> QED BY <1>0, <2>1, <2>2, <2>3
<1> QED BY <1>2 DEF NotAfter

-------------------------------------------------------------------------------

(* The same for either side.                                               *)
LEMMA OnSideTransitive ==
  ASSUME FinderInv, NEW side \in Side, NEW n, NEW p, NEW q, NEW r,
         Inside(p, n), Inside(q, n), Inside(r, n),
         OnSide(side, p, q, n), OnSide(side, q, r, n)
  PROVE  OnSide(side, p, r, n)
BY NotAfterTransitive DEF OnSide

(* Everything is on one side or the other.                                 *)
LEMMA OnSideTotal ==
  ASSUME FinderInv, NEW side \in Side, NEW n, NEW p, NEW q, Inside(p, n), Inside(q, n)
  PROVE  OnSide(side, p, q, n) \/ OnSide(Other(side), p, q, n)
BY NotAfterTotal DEF OnSide, Other, Side

(* What is beyond q from p, seen from q.                                   *)
LEMMA OnSideTurns ==
  ASSUME NEW side \in Side, NEW n, NEW p, NEW q
  PROVE  OnSide(Other(side), p, q, n) <=> OnSide(side, q, p, n)
BY DEF OnSide, Other, Side

(* Fewer bytes to look at.                                                 *)
LEMMA OnSideFewer ==
  ASSUME NEW n \in Int, NEW m \in Int, m <= n, NEW side \in Side, NEW p, NEW q,
         OnSide(side, p, q, n)
  PROVE  OnSide(side, p, q, m)
BY NotAfterFewer DEF OnSide

(* What lies between two that agree agrees with them.                      *)
LEMMA OnSideSqueeze ==
  ASSUME FinderInv, NEW side \in Side, NEW n, NEW p, NEW q, NEW r,
         Inside(p, n), Inside(q, n), Inside(r, n),
         OnSide(side, p, q, n), OnSide(side, q, r, n),
         NEW len \in Nat, len <= n, Agree(r, p, len)
  PROVE  Agree(r, q, len)
<1>1. Agree(p, r, len)
  BY DEF Agree
<1>2. CASE side = "less"
  <2>1. Agree(p, q, len)
    BY <1>1, <1>2, Squeeze DEF OnSide
  <2> QED BY <1>1, <2>1 DEF Agree
<1>3. CASE side = "greater"
  <2>1. NotAfter(r, q, n) /\ NotAfter(q, p, n)
    BY <1>3 DEF OnSide
  <2> QED BY <2>1, Squeeze
<1> QED BY <1>2, <1>3 DEF Side

(* Two that agree are on both sides of each other.                         *)
LEMMA OnSideAgree ==
  ASSUME FinderInv, NEW side \in Side, NEW n, NEW p, NEW q, Inside(p, n), Inside(q, n),
         Agree(q, p, n)
  PROVE  OnSide(side, p, q, n)
BY AgreeNotAfter DEF OnSide

-------------------------------------------------------------------------------

(* A product grows with its factor.                                        *)
LEMMA AtLeastOnce ==
  ASSUME NEW w \in Nat \ {0}, NEW a \in Int, NEW b \in Int, a > b
  PROVE  w * a >= w * b + w
<1>1. PICK k \in Nat : a = b + 1 + k
  <2>1. a - b - 1 \in Nat /\ a = b + 1 + (a - b - 1)
    OBVIOUS
  <2> QED BY <2>1
<1>2. w * k \in Nat
  OBVIOUS
<1>3. w * (b + 1 + k) = w * b + w + w * k
  OBVIOUS
<1> QED BY <1>1, <1>2, <1>3

(* Positions less than a window apart have slots of their own.             *)
LEMMA SlotsDiffer ==
  ASSUME NEW x \in Int, NEW y \in Int, x - y < WINDOW_SIZE, y - x < WINDOW_SIZE,
         Slot(x) = Slot(y)
  PROVE  x = y
<1> DEFINE w == WINDOW_SIZE
           a == x \div w
           b == y \div w
<1>1. w \in Nat \ {0}
  BY MatchAssumption
<1>2. /\ a \in Int /\ b \in Int /\ x = w * a + (x % w) /\ y = w * b + (y % w)
      /\ x % w \in 0 .. (w - 1) /\ y % w \in 0 .. (w - 1)
  <2> HIDE DEF w
  <2> QED BY <1>1, DivMod
<1>3. x % w = y % w
  BY DEF Slot
<1>4. w * a \in Int /\ w * b \in Int
  <2> HIDE DEF a, b, w
  <2> QED BY <1>1, <1>2
<1>5. ~(a > b)
  <2>1. ASSUME a > b PROVE FALSE
    <3>1. w * a >= w * b + w
      <4> HIDE DEF a, b, w
      <4> QED BY <1>1, <1>2, <2>1, AtLeastOnce
    <3> HIDE DEF a, b
    <3> QED BY <1>1, <1>2, <1>3, <1>4, <3>1
  <2> QED BY <2>1
<1>6. ~(b > a)
  <2>1. ASSUME b > a PROVE FALSE
    <3>1. w * b >= w * a + w
      <4> HIDE DEF a, b, w
      <4> QED BY <1>1, <1>2, <2>1, AtLeastOnce
    <3> HIDE DEF a, b
    <3> QED BY <1>1, <1>2, <1>3, <1>4, <3>1
  <2> QED BY <2>1
<1>7. a = b
  <2> HIDE DEF a, b
  <2> QED BY <1>2, <1>5, <1>6
<1> HIDE DEF a, b
<1> QED BY <1>2, <1>3, <1>7

(* The place a node has in its window.                                     *)
LEMMA KidsDiffer ==
  ASSUME in_base_offset \in Nat, NEW p \in Int, NEW q \in Int,
         p - q < WINDOW_SIZE, q - p < WINDOW_SIZE,
         NEW s, NEW t, Kid(p, s) = Kid(q, t)
  PROVE  p = q /\ s = t
<1>1. Slot(p - in_base_offset) = Slot(q - in_base_offset) /\ s = t
  BY DEF Kid
<1>2. p - in_base_offset \in Int /\ q - in_base_offset \in Int
  OBVIOUS
<1>3. /\ (p - in_base_offset) - (q - in_base_offset) < WINDOW_SIZE
      /\ (q - in_base_offset) - (p - in_base_offset) < WINDOW_SIZE
  BY MatchAssumption
<1>4. p - in_base_offset = q - in_base_offset
  BY <1>1, <1>2, <1>3, SlotsDiffer
<1> QED BY <1>1, <1>4

(* A place that every position has.                                        *)
LEMMA KidIsChild ==
  ASSUME in_base_offset \in Nat, NEW p \in Int, NEW side \in Side
  PROVE  Kid(p, side) \in Child
<1>1. Slot(p - in_base_offset) \in 0 .. (WINDOW_SIZE - 1)
  BY SlotIsSlot
<1> QED BY <1>1 DEF Kid, Child

(* What the nodes are like.                                                *)
LEMMA NodeFacts ==
  ASSUME FinderInv, kind = "bt"
  PROVE  /\ Reach \in Nat /\ Searched \in Nat /\ Searched + Reach <= Len(data)
         /\ REQUIRED_NBYTES <= Len(data) - Searched => REQUIRED_NBYTES <= Reach
         /\ in_next = Searched \/ (Walking /\ in_next = Searched + 1)
         /\ \A p \in Nodes : /\ p \in Nat /\ p < in_next /\ p <= Searched
                             /\ Searched < p + WINDOW_SIZE
                             /\ Inside(p, Reach)
         /\ \A p \in Nodes, side \in Side : Kid(p, side) \in Child
         /\ \A p \in Nodes, q \in Nodes, s \in Side, t \in Side :
              Kid(p, s) = Kid(q, t) => p = q /\ s = t
<1>1. /\ in_next \in Nat /\ Len(data) \in Nat /\ in_next <= Len(data)
      /\ in_base_offset \in Nat
      /\ walk.nice_match \in REQUIRED_NBYTES .. MAX_MATCH_LEN
      /\ REQUIRED_NBYTES \in Nat /\ MAX_MATCH_LEN \in Nat /\ WINDOW_SIZE \in Nat \ {0}
  BY Basics, MatchAssumption, FamilyAssumption DEF FinderInv, TypesHold, FamilyTypeOK
<1>2. /\ Searched \in Nat /\ Searched <= in_next
      /\ in_next = Searched \/ (Walking /\ in_next = Searched + 1)
  <2>1. CASE Walking
    <3>1. At \in Nat /\ in_next = At + 1
      BY <2>1, WalkFacts DEF At
    <3> QED BY <2>1, <3>1 DEF Searched
  <2>2. CASE ~Walking
    BY <1>1, <2>2 DEF Searched
  <2> QED BY <2>1, <2>2
<1> HIDE DEF Searched
<1>3. /\ Reach \in Nat /\ Searched + Reach <= Len(data)
      /\ REQUIRED_NBYTES <= Len(data) - Searched => REQUIRED_NBYTES <= Reach
  BY <1>1, <1>2 DEF Reach, AtMost
<1>4. ASSUME NEW p \in Nodes
      PROVE  /\ p \in Nat /\ p < in_next /\ p <= Searched /\ Searched < p + WINDOW_SIZE
             /\ Inside(p, Reach)
  <2>1. p \in 0 .. (in_next - 1) /\ Searched - WINDOW_SIZE < p
    BY DEF Nodes
  <2>2. p \in Nat /\ p < in_next /\ p <= Searched /\ Searched < p + WINDOW_SIZE
    BY <1>1, <1>2, <2>1
  <2> QED BY <1>1, <1>2, <1>3, <2>2 DEF Inside
<1>5. ASSUME NEW p \in Nodes, NEW side \in Side PROVE Kid(p, side) \in Child
  <2>1. p \in Int
    BY <1>4
  <2> QED BY <1>1, <2>1, KidIsChild
<1>6. ASSUME NEW p \in Nodes, NEW q \in Nodes, NEW s \in Side, NEW t \in Side,
             Kid(p, s) = Kid(q, t)
      PROVE  p = q /\ s = t
  <2>1. p \in Nat /\ q \in Nat /\ p - q < WINDOW_SIZE /\ q - p < WINDOW_SIZE
    BY <1>1, <1>2, <1>4
  <2> QED BY <1>1, <1>6, <2>1, KidsDiffer
<1> QED BY <1>2, <1>3, <1>4, <1>5, <1>6

(* The nodes a walk is at.                                                 *)
LEMMA WalkNodes ==
  ASSUME FinderInv, Walking
  PROVE  /\ At \in Nodes /\ Candidate \in Nodes /\ Searched = At /\ Candidate < At
         /\ LessThan(search.node) = Kid(Candidate, "less")
         /\ GreaterThan(search.node) = Kid(Candidate, "greater")
         /\ LessThan(search.cur_pos) = Kid(At, "less")
         /\ GreaterThan(search.cur_pos) = Kid(At, "greater")
         /\ Here = At /\ Node = Candidate
         /\ \A side \in Side : Place(side) \in Child /\ Best(side) \in Nat
         /\ Pending = {Place("less"), Place("greater")}
         /\ walk.len \in Nat
<1>1. /\ in_base_offset \in Nat /\ in_next \in Nat /\ in_next = At + 1
      /\ search.node \in Int /\ search.cur_pos \in Nat /\ Slot(search.node) \in linked
      /\ walk \in Walks /\ WINDOW_SIZE \in Nat \ {0}
  BY WalkFacts, MatchAssumption
<1>2. Searched = At
  BY DEF Searched
<1>3. /\ 0 <= Candidate /\ search.node < search.cur_pos
      /\ search.node > search.cur_pos - WINDOW_SIZE
  BY DEF FinderInv, SearchHolds, Live
<1>4. /\ At - in_base_offset = search.cur_pos /\ Candidate - in_base_offset = search.node
      /\ At \in Nat /\ Candidate \in Nat /\ Candidate < At /\ At - WINDOW_SIZE < Candidate
      /\ At - WINDOW_SIZE < At
  BY <1>1, <1>3 DEF At, Candidate
<1>5. /\ At \in 0 .. (in_next - 1) /\ Candidate \in 0 .. (in_next - 1)
  BY <1>1, <1>4
<1>6. At \in Nodes /\ Candidate \in Nodes
  BY <1>1, <1>2, <1>4, <1>5 DEF Nodes
<1>7. /\ LessThan(search.node) = Kid(Candidate, "less")
      /\ GreaterThan(search.node) = Kid(Candidate, "greater")
      /\ LessThan(search.cur_pos) = Kid(At, "less")
      /\ GreaterThan(search.cur_pos) = Kid(At, "greater")
  BY <1>4 DEF Kid, LessThan, GreaterThan
<1>8. Here = At /\ Node = Candidate
  BY DEF Here, Node, At, Candidate
<1>9. \A side \in Side : Place(side) \in Child /\ Best(side) \in Nat
  BY <1>1 DEF Walks, Place, Best
<1> QED BY <1>1, <1>2, <1>4, <1>6, <1>7, <1>8, <1>9 DEF Pending, Place, Walks

-------------------------------------------------------------------------------

(* While a walk goes on the trees have the same nodes,                     *)
LEMMA SameNodes ==
  ASSUME FinderInv, Walking, WalkFrame, Walking', UNCHANGED linked,
         search'.cur_pos = search.cur_pos, walk'.nice_match = walk.nice_match
  PROVE  /\ At' = At /\ Nodes' = Nodes /\ Reach' = Reach
         /\ \A p, side : Kid(p, side)' = Kid(p, side)
<1>1. UNCHANGED <<data, in_next, in_base_offset, linked>>
  BY DEF WalkFrame
<1>2. At' = At
  BY <1>1 DEF At
<1>3. Searched' = At /\ Searched = At
  BY <1>2 DEF Searched
<1>4. \A p, side : Kid(p, side)' = Kid(p, side)
  BY <1>1 DEF Kid, Slot
<1>5. Nodes' = Nodes
  BY <1>1, <1>3 DEF Nodes, Slot
<1>6. Reach' = Reach
  BY <1>1, <1>3 DEF Reach, AtMost
<1> QED BY <1>2, <1>4, <1>5, <1>6

(* and when it ends some may go, and less is looked at.                    *)
LEMMA FewerNodes ==
  ASSUME FinderInv, Walking, WalkFrame, WalkOver(Slot(search.cur_pos))
  PROVE  /\ Nodes' \subseteq Nodes
         /\ Reach' \in Int /\ Reach' <= Reach
         /\ ~(Walking') /\ Pending' = {}
         /\ \A p, side : Kid(p, side)' = Kid(p, side)
<1>1. /\ UNCHANGED <<data, in_next, in_base_offset>>
      /\ linked' = linked \cup {Slot(search.cur_pos)}
      /\ search' = Ready /\ walk'.nice_match = walk.nice_match
  BY DEF WalkFrame, WalkOver, AtRoot
<1>2. ~(Walking') /\ Pending' = {}
  BY <1>1 DEF Walking, Pending, Ready
<1>3. \A p, side : Kid(p, side)' = Kid(p, side)
  BY <1>1 DEF Kid, Slot
<1>4. /\ Searched' = At + 1 /\ Searched = At /\ in_next = At + 1 /\ in_next' = in_next
      /\ At \in Nat /\ Len(data) \in Nat /\ in_base_offset \in Nat
      /\ search.cur_pos \in Nat /\ At = in_base_offset + search.cur_pos
      /\ walk.nice_match \in Nat /\ MAX_MATCH_LEN \in Nat /\ WINDOW_SIZE \in Nat \ {0}
  <2>1. Searched' = in_next' /\ Searched = At /\ in_next = At + 1
    BY <1>2, WalkFacts DEF Searched
  <2>2. walk.nice_match \in Nat /\ MAX_MATCH_LEN \in Nat /\ WINDOW_SIZE \in Nat \ {0}
    BY WalkFacts, MatchAssumption, FinderAssumption
  <2>3. /\ Len(data) \in Nat /\ in_base_offset \in Nat /\ search.cur_pos \in Nat
        /\ At = in_base_offset + search.cur_pos
    BY WalkFacts DEF At
  <2> QED BY <1>1, <2>1, <2>2, <2>3
<1>5. ASSUME NEW p \in Nodes' PROVE p \in Nodes
  <2>1. /\ p \in 0 .. (in_next - 1) /\ At + 1 - WINDOW_SIZE < p
        /\ p = At + 1 \/ Slot(p - in_base_offset) \in linked'
    BY <1>1, <1>4 DEF Nodes, Slot
  <2>2. p \in Nat /\ p <= At /\ At - WINDOW_SIZE < p
    <3>1. p \in 0 .. (in_next - 1) /\ At + 1 - WINDOW_SIZE < p
      BY <2>1
    <3>2. At \in Nat /\ in_next = At + 1 /\ WINDOW_SIZE \in Nat \ {0}
      BY <1>4, Zenon
    <3> QED BY <3>1, <3>2
  <2>3. CASE Slot(p - in_base_offset) = Slot(search.cur_pos)
    <3>1. /\ p - in_base_offset \in Int /\ search.cur_pos \in Int
          /\ (p - in_base_offset) - search.cur_pos < WINDOW_SIZE
          /\ search.cur_pos - (p - in_base_offset) < WINDOW_SIZE
      <4>1. /\ in_base_offset \in Nat /\ search.cur_pos \in Nat /\ WINDOW_SIZE \in Nat \ {0}
            /\ At = in_base_offset + search.cur_pos
        BY <1>4, Zenon
      <4>2. /\ p \in Nat /\ p <= in_base_offset + search.cur_pos
            /\ in_base_offset + search.cur_pos - WINDOW_SIZE < p
        BY <2>2, <4>1
      <4> QED BY <4>1, <4>2
    <3>2. p - in_base_offset = search.cur_pos
      BY <2>3, <3>1, SlotsDiffer
    <3>3. p = At
      BY <1>4, <2>2, <3>2
    <3> QED BY <3>3, WalkNodes
  <2>4. CASE Slot(p - in_base_offset) \in linked
    BY <1>4, <2>1, <2>2, <2>4 DEF Nodes
  <2>5. p # At + 1
    BY <1>4, <2>2
  <2> QED BY <1>1, <2>1, <2>3, <2>4, <2>5
<1>6. Reach' \in Int /\ Reach' <= Reach
  <2>1. /\ Reach' = AtMost(walk.nice_match, AtMost(Len(data) - (At + 1), MAX_MATCH_LEN))
        /\ Reach = AtMost(walk.nice_match, AtMost(Len(data) - At, MAX_MATCH_LEN))
    BY <1>1, <1>4 DEF Reach, AtMost
  <2>2. \A n \in Nat, m \in Nat, len \in Nat :
          /\ AtMost(n, AtMost(len - (At + 1), m)) \in Int
          /\ AtMost(n, AtMost(len - (At + 1), m)) <= AtMost(n, AtMost(len - At, m))
    <3>1. At \in Nat
      BY <1>4
    <3> QED BY <3>1 DEF AtMost
  <2> QED BY <1>4, <2>1, <2>2
<1> QED BY <1>2, <1>3, <1>5, <1>6

(* The order of the nodes stays when there are fewer of them, or fewer     *)
(* bytes are looked at.                                                    *)
LEMMA InOrderKept ==
  ASSUME FinderInv, kind = "bt", UNCHANGED data,
         \A p, side : Kid(p, side)' = Kid(p, side),
         Nodes' \subseteq Nodes, Reach' \in Int, Reach' <= Reach,
         NEW sub, NEW new, InOrder(sub),
         \A c \in Child : new[c] \subseteq sub[c]
  PROVE  InOrder(new)'
<1>1. ASSUME NEW p \in Nodes', NEW y \in Nodes', NEW side \in Side, y \in new[Kid(p, side)]
      PROVE  y < p /\ OnSide(side, y, p, Reach')
  <2>1. Kid(p, side) \in Child
    BY NodeFacts
  <2>2. y \in sub[Kid(p, side)]
    BY <1>1, <2>1
  <2>3. y < p /\ OnSide(side, y, p, Reach)
    BY <2>2 DEF InOrder
  <2> QED BY <2>3, NodeFacts, OnSideFewer
<1>2. ASSUME NEW p \in Nodes', NEW y \in Nodes', NEW side \in Side, y \in new[Kid(p, side)']
      PROVE  y < p /\ OnSide(side, y, p, Reach)'
  <2>1. y < p /\ OnSide(side, y, p, Reach')
    BY <1>1, <1>2
  <2> QED BY <2>1 DEF OnSide, NotAfter, Agree
<1> QED BY <1>2 DEF InOrder

(* A child whose node goes into it is what is below it.                    *)
Holds(sub, c, child) ==
  in_base_offset + child \in Nodes =>
    Family(sub, in_base_offset + child) \cap Nodes \subseteq sub[c]

(* So do the children, where they are written and where they are left.     *)
LEMMA ContainsKept ==
  ASSUME UNCHANGED in_base_offset, \A p, side : Kid(p, side)' = Kid(p, side),
         Nodes' \subseteq Nodes, NEW new,
         \A p \in Nodes, side \in Side :
           Kid(p, side) \notin Pending' => Holds(new, Kid(p, side), child_tab'[Kid(p, side)])
  PROVE  Contains(new)'
<1>1. \A x : Family(new, x)' = Family(new, x)
  BY DEF Family
<1>2. ASSUME NEW p \in Nodes', NEW side \in Side,
             Kid(p, side) \notin Pending',
             in_base_offset + child_tab'[Kid(p, side)] \in Nodes'
      PROVE  Family(new, in_base_offset + child_tab'[Kid(p, side)]) \cap Nodes'
               \subseteq new[Kid(p, side)]
  <2>1. p \in Nodes /\ in_base_offset + child_tab'[Kid(p, side)] \in Nodes
    BY <1>2
  <2>2. Holds(new, Kid(p, side), child_tab'[Kid(p, side)])
    BY <1>2, <2>1
  <2> QED BY <2>1, <2>2 DEF Holds
<1>3. ASSUME NEW p \in Nodes', NEW side \in Side,
             Kid(p, side)' \notin Pending', ChildAt(Kid(p, side))' \in Nodes'
      PROVE  Family(new, ChildAt(Kid(p, side)))' \cap Nodes' \subseteq new[Kid(p, side)']
  <2> DEFINE x == in_base_offset + child_tab'[Kid(p, side)]
  <2>1. Kid(p, side)' = Kid(p, side)
    OBVIOUS
  <2>2. ChildAt(Kid(p, side))' = x
    BY <2>1 DEF ChildAt
  <2>3. Family(new, ChildAt(Kid(p, side)))' = Family(new, x)
    BY <2>1, <2>2 DEF Family
  <2> QED BY <1>2, <1>3, <2>1, <2>2, <2>3
<1> QED BY <1>3 DEF Contains

(* A walk that has left every child in order has left the trees so.        *)
LEMMA WalkEndsOrdered ==
  ASSUME FinderInv, Walking, WalkFrame, WalkOver(Slot(search.cur_pos)),
         NEW sub, InOrder(sub),
         NEW new \in [Child -> SUBSET Nat], \A c \in Child : new[c] \subseteq sub[c],
         \A p \in Nodes, side \in Side : Holds(new, Kid(p, side), child_tab'[Kid(p, side)])
  PROVE  TreesOrdered'
<1>1. UNCHANGED <<data, in_base_offset>> /\ kind = "bt"
  BY WalkFacts DEF WalkFrame
<1>2. InOrder(new)'
  BY <1>1, FewerNodes, InOrderKept
<1>3. Contains(new)'
  BY <1>1, FewerNodes, ContainsKept
<1>4. WalkOrder(new)'
  BY FewerNodes DEF WalkOrder
<1> QED BY <1>2, <1>3, <1>4 DEF TreesOrdered, Ordered

(* What the order says of the node a walk is at.                           *)
LEMMA CandidateFamily ==
  ASSUME FinderInv, Walking, NEW sub, Ordered(sub)
  PROVE  /\ Belongs(sub, Candidate)
         /\ \A side \in Side :
              /\ Kid(Candidate, side) \in Child /\ Kid(Candidate, side) \notin Pending
              /\ Holds(sub, Kid(Candidate, side), child_tab[Kid(Candidate, side)])
         /\ \A side \in Side, y \in Nodes : y \in sub[Kid(Candidate, side)] =>
              /\ Belongs(sub, y)
              /\ y < Candidate
              /\ OnSide(side, y, Candidate, Reach)
<1>1. kind = "bt" /\ Candidate \in Nodes
  BY WalkFacts, WalkNodes
<1>2. \A y \in Family(sub, Candidate) \cap Nodes : Belongs(sub, y)
  BY DEF Ordered, WalkOrder
<1>3. Candidate \in Family(sub, Candidate)
  BY DEF Family
<1>4. Belongs(sub, Candidate)
  BY <1>1, <1>2, <1>3
<1>5. ASSUME NEW side \in Side
      PROVE  /\ Kid(Candidate, side) \in Child /\ Kid(Candidate, side) \notin Pending
             /\ Holds(sub, Kid(Candidate, side), child_tab[Kid(Candidate, side)])
  BY <1>1, <1>4, NodeFacts DEF Belongs, Ordered, Contains, Holds, ChildAt
<1>6. ASSUME NEW side \in Side, NEW y \in Nodes, y \in sub[Kid(Candidate, side)]
      PROVE  /\ Belongs(sub, y)
             /\ y < Candidate
             /\ OnSide(side, y, Candidate, Reach)
  <2>1. y \in Family(sub, Candidate)
    BY <1>6 DEF Family, Side
  <2> QED BY <1>1, <1>2, <1>6, <2>1 DEF Ordered, InOrder
<1> QED BY <1>4, <1>5, <1>6

(* The children of a node that agrees as far as the walk looks go where    *)
(* the walk has places left.                                               *)
LEMMA TakesPlaceOrdered ==
  ASSUME FinderInv, Walking, NEW sub \in [Child -> SUBSET Nat], Ordered(sub),
         Agree(At, Candidate, Reach), TakesPlace,
         NEW p \in Nodes, NEW side \in Side
  PROVE  Holds(sub, Kid(p, side), child_tab'[Kid(p, side)])
<1> DEFINE c == Kid(p, side)
<1>1. kind = "bt" /\ At \in Nodes /\ Candidate \in Nodes
  BY WalkFacts, WalkNodes
<1>2. c \in Child /\ child_tab \in [Child -> Entry]
  BY <1>1, NodeFacts, WalkFacts
<1>3. walk.pending_lt # walk.pending_gt
  BY DEF Ordered, WalkOrder
<1>4. \A s \in Side : child_tab'[Place(s)] = child_tab[Kid(Candidate, s)]
  <2>1. child_tab' = [child_tab EXCEPT ![walk.pending_lt] = child_tab[Kid(Candidate, "less")],
                                       ![walk.pending_gt] = child_tab[Kid(Candidate, "greater")]]
    BY WalkNodes DEF TakesPlace
  <2>2. walk.pending_lt \in Child /\ walk.pending_gt \in Child
    BY WalkFacts
  <2> QED BY <1>2, <1>3, <2>1, <2>2 DEF Place, Side
<1>5. CASE c \notin Pending
  <2>1. child_tab'[c] = child_tab[c]
    <3>1. c # walk.pending_lt /\ c # walk.pending_gt
      BY <1>5, WalkNodes DEF Place
    <3> HIDE DEF c
    <3> QED BY <1>2, <3>1, WalkFacts DEF TakesPlace
  <2> QED BY <1>5, <2>1 DEF Ordered, Contains, Holds, ChildAt
<1>6. ASSUME NEW s \in Side, c = Place(s) PROVE Holds(sub, c, child_tab'[c])
  <2> DEFINE x == in_base_offset + child_tab[Kid(Candidate, s)]
  <2>1. SUFFICES ASSUME x \in Nodes, NEW y \in Family(sub, x) \cap Nodes
                 PROVE  y \in sub[c]
    BY <1>4, <1>6 DEF Holds
  <2>2. y \in sub[Kid(Candidate, s)] /\ y \in Nodes
    BY <2>1, CandidateFamily DEF Holds
  <2>3. Belongs(sub, y) /\ OnSide(s, y, Candidate, Reach)
    BY <2>2, CandidateFamily
  <2>4. Inside(y, Reach) /\ Inside(Candidate, Reach) /\ Inside(At, Reach)
    BY <1>1, <2>2, NodeFacts
  <2>5. OnSide(s, Candidate, At, Reach)
    BY <2>4, OnSideAgree
  <2>6. OnSide(s, y, At, Reach)
    BY <2>3, <2>4, <2>5, OnSideTransitive
  <2> QED BY <1>6, <2>3, <2>6 DEF Belongs
<1>7. c \in Pending => \E s \in Side : c = Place(s)
  BY WalkNodes DEF Side
<1> QED BY <1>5, <1>6, <1>7

(* The next node is compared, recorded, and perhaps replaced.              *)
LEMMA CompareOrdered ==
  ASSUME FinderInv, TreesOrdered, UNCHANGED <<kind, htVars>>, BtCompare
  PROVE  TreesOrdered'
<1> DEFINE length == IF Agreeing THEN TreeExtent ELSE walk.len
           longer == Agreeing /\ (walk.record =>
                                    length > AtLeast(found.length, SHORT_LEN))
<1>1. /\ Walking /\ search.pc = "tree" /\ WalkFrame
      /\ \/ longer /\ length >= search.nice /\ TakesPlace /\ WalkOver(Slot(search.cur_pos))
         \/ /\ ~(longer /\ length >= search.nice)
            /\ search' = [search EXCEPT !.pc = "branch"]
            /\ walk' = [walk EXCEPT !.len = length]
            /\ UNCHANGED <<child_tab, linked>>
  BY Zenon DEF BtCompare, Walking, WalkFrame
<1>2. kind = "bt"
  BY <1>1, WalkFacts
<1>3. PICK sub \in [Child -> SUBSET Nat] : Ordered(sub)
  BY <1>1, <1>2 DEF TreesOrdered
<1>4. /\ search.nice = Reach /\ walk.len < Reach /\ walk.len \in Nat
      /\ walk.pending_lt # walk.pending_gt
      /\ Agree(At, Candidate, walk.len)
      /\ \A y \in Family(sub, Candidate) \cap Nodes : Belongs(sub, y)
  BY <1>1, <1>3, WalkNodes DEF Ordered, WalkOrder
<1>5. PrefixIsKnown
  BY <1>1, <1>4, WalkNodes DEF PrefixIsKnown
<1>6. /\ Agreeing => /\ TreeExtent \in Nat /\ TreeExtent <= search.max
                     /\ Agree(At, Candidate, TreeExtent)
                     /\ TreeExtent < search.max =>
                          data[Node + TreeExtent + 1] # data[Here + TreeExtent + 1]
      /\ search.nice <= search.max /\ search.nice \in Nat /\ search.max \in Nat
      /\ walk.record \in BOOLEAN /\ search \in Searches /\ walk \in Walks
      /\ walk.record => found.length < search.nice
      /\ SHORT_LEN < search.nice /\ SHORT_LEN \in Nat /\ found.length \in Nat
  <2>1. /\ search.max \in Nat /\ search.nice \in Nat /\ walk.record \in BOOLEAN
        /\ search \in Searches /\ walk \in Walks
    BY <1>1, WalkFacts DEF Walks, Searches
  <2>2. found.length \in Nat /\ SHORT_LEN \in Nat
    BY Basics, MatchAssumption
  <2>3. /\ SHORT_LEN < search.nice /\ search.nice <= search.max
        /\ walk.record => found.length < search.nice
    BY <1>1 DEF FinderInv, SearchHolds, WalkHolds
  <2> QED BY <1>1, <1>5, <2>1, <2>2, <2>3, CompareExtent
<1>7. CASE /\ longer /\ length >= search.nice
           /\ TakesPlace /\ WalkOver(Slot(search.cur_pos))
  <2>1. Agree(At, Candidate, length) /\ length \in Nat /\ Reach \in Nat /\ Reach <= length
    BY <1>2, <1>4, <1>6, <1>7, NodeFacts
  <2> HIDE DEF length
  <2>2. Agree(At, Candidate, Reach)
    <3>1. \A k \in 1 .. Reach : k \in 1 .. length
      BY <2>1
    <3> QED BY <2>1, <3>1 DEF Agree
  <2>3. \A p \in Nodes, side \in Side : Holds(sub, Kid(p, side), child_tab'[Kid(p, side)])
    BY <1>1, <1>3, <1>7, <2>2, TakesPlaceOrdered
  <2> QED BY <1>1, <1>3, <1>7, <2>3, WalkEndsOrdered DEF Ordered
<1>8. CASE /\ ~(longer /\ length >= search.nice)
           /\ search' = [search EXCEPT !.pc = "branch"]
           /\ walk' = [walk EXCEPT !.len = length]
           /\ UNCHANGED <<child_tab, linked>>
  <2>1. /\ search'.pc = "branch" /\ search'.node = search.node
        /\ search'.cur_pos = search.cur_pos /\ search'.nice = search.nice
        /\ walk'.len = length /\ walk'.nice_match = walk.nice_match
        /\ walk'.pending_lt = walk.pending_lt /\ walk'.pending_gt = walk.pending_gt
        /\ walk'.best_lt = walk.best_lt /\ walk'.best_gt = walk.best_gt
        /\ Walking'
    BY <1>6, <1>8 DEF Searches, Walks, Walking
  <2>2. /\ UNCHANGED <<data, in_base_offset>>
        /\ At' = At /\ Nodes' = Nodes /\ Reach' = Reach
        /\ \A p, side : Kid(p, side)' = Kid(p, side)
    BY <1>1, <1>8, <2>1, SameNodes DEF WalkFrame
  <2>3. length < Reach /\ Agree(At, Candidate, length)
    BY <1>4, <1>6, <1>8 DEF AtLeast
  <2>4. data[Node + length + 1] # data[Here + length + 1]
    <3>1. CASE Agreeing
      BY <1>4, <1>6, <2>3, <3>1
    <3>2. CASE ~Agreeing
      BY <3>2 DEF Agreeing
    <3> QED BY <3>1, <3>2
  <2>5. Candidate' = Candidate /\ Pending' = Pending
    BY <1>1, <2>1, <2>2 DEF Candidate, Pending
  <2>6. ~(Agreeing')
    <3>1. Node' = Node /\ Here' = Here
      BY <2>1, <2>2 DEF Node, Here
    <3> HIDE DEF length
    <3> QED BY <2>1, <2>2, <2>4, <3>1 DEF Agreeing
  <2>7. InOrder(sub)'
    <3>1. Reach \in Nat
      BY <1>2, NodeFacts
    <3> QED BY <1>2, <1>3, <2>2, <3>1, InOrderKept DEF Ordered
  <2>8. Contains(sub)'
    <3>1. \A p \in Nodes, side \in Side :
            Kid(p, side) \notin Pending' => Holds(sub, Kid(p, side), child_tab'[Kid(p, side)])
      BY <1>3, <1>8, <2>5 DEF Ordered, Contains, Holds, ChildAt
    <3> QED BY <2>2, <3>1, ContainsKept
  <2>9. ASSUME NEW y \in Family(sub, Candidate) \cap Nodes PROVE Belongs(sub, y)'
    <3>1. Belongs(sub, y)
      BY <1>4, <2>9
    <3>2. /\ \A side, n : OnSide(side, y, At, n)' <=> OnSide(side, y, At, n)
          /\ \A n : Agree(At, y, n)' <=> Agree(At, y, n)
      BY <2>2 DEF OnSide, NotAfter, Agree
    <3>3. \A side : Place(side)' = Place(side) /\ Best(side)' = Best(side)
      BY <2>1 DEF Place, Best
    <3> QED BY <2>2, <2>5, <3>1, <3>2, <3>3 DEF Belongs
  <2>10. Family(sub, Candidate)' = Family(sub, Candidate)
    BY <2>2, <2>5 DEF Family
  <2>11. Agree(At, Candidate, walk.len)'
    <3> HIDE DEF length
    <3> QED BY <2>1, <2>2, <2>3, <2>5 DEF Agree
  <2>12. WalkOrder(sub)'
    <3> HIDE DEF length
    <3> QED BY <1>4, <2>1, <2>2, <2>3, <2>5, <2>6, <2>9, <2>10, <2>11 DEF WalkOrder
  <2> QED BY <1>3, <2>7, <2>8, <2>12 DEF TreesOrdered, Ordered
<1> QED BY <1>1, <1>7, <1>8

-------------------------------------------------------------------------------

(* Where a walk descends: the node is on this side of the position, so the *)
(* next one is below it on the other side.                                 *)
Turn == IF data[Node + walk.len + 1] < data[Here + walk.len + 1] THEN "less" ELSE "greater"
Near == Kid(Candidate, Other(Turn))

(* What is below it from then on.                                          *)
Narrowed(sub) == [sub EXCEPT ![Near] = {y \in @ : OnSide(Turn, y, At, Reach)}]

(* The node is on the side it is said to be.                               *)
LEMMA TurnIsRight ==
  ASSUME FinderInv, Walking, search.pc = "branch", NEW sub, Ordered(sub)
  PROVE  /\ OnSide(Turn, Candidate, At, Reach)
         /\ Turn \in Side /\ Other(Turn) \in Side /\ Turn # Other(Turn)
         /\ \A s \in Side : s = Turn \/ s = Other(Turn)
<1>1. /\ walk.len < Reach /\ Agree(At, Candidate, walk.len) /\ ~Agreeing
      /\ walk.len \in Nat /\ Here = At /\ Node = Candidate
      /\ At \in Nodes /\ Candidate \in Nodes /\ kind = "bt"
  BY WalkNodes, WalkFacts DEF Ordered, WalkOrder
<1>2. Inside(At, Reach) /\ Inside(Candidate, Reach) /\ Reach \in Nat
  BY <1>1, NodeFacts
<1>3. /\ data[At + walk.len + 1] \in Nat /\ data[Candidate + walk.len + 1] \in Nat
      /\ data[At + walk.len + 1] # data[Candidate + walk.len + 1]
  <2>1. walk.len + 1 \in 1 .. Reach
    BY <1>1, <1>2
  <2>2. data[At + (walk.len + 1)] \in Nat /\ data[Candidate + (walk.len + 1)] \in Nat
    BY <1>2, <2>1, BytesAreNumbers
  <2>3. /\ At + (walk.len + 1) = At + walk.len + 1
        /\ Candidate + (walk.len + 1) = Candidate + walk.len + 1
    BY <1>1, <1>2 DEF Inside
  <2> QED BY <1>1, <2>2, <2>3 DEF Agreeing
<1>4. Agree(Candidate, At, walk.len)
  BY <1>1 DEF Agree
<1>5. CASE data[Candidate + walk.len + 1] < data[At + walk.len + 1]
  <2>1. NotAfter(Candidate, At, Reach)
    BY <1>1, <1>2, <1>4, <1>5, DiffersNotAfter
  <2>2. Turn = "less"
    BY <1>1, <1>5 DEF Turn
  <2> QED BY <2>1, <2>2 DEF OnSide, Other, Side
<1>6. CASE data[At + walk.len + 1] < data[Candidate + walk.len + 1]
  <2>1. NotAfter(At, Candidate, Reach)
    BY <1>1, <1>2, <1>6, DiffersNotAfter
  <2>2. Turn = "greater"
    BY <1>1, <1>3, <1>6 DEF Turn
  <2> QED BY <2>1, <2>2 DEF OnSide, Other, Side
<1> QED BY <1>3, <1>5, <1>6

(* Narrowed is what it is meant to be.                                     *)
LEMMA NarrowedIsLess ==
  ASSUME FinderInv, Walking, search.pc = "branch",
         NEW sub \in [Child -> SUBSET Nat], Ordered(sub)
  PROVE  /\ Near \in Child /\ Near \notin Pending
         /\ Narrowed(sub) \in [Child -> SUBSET Nat]
         /\ \A c \in Child : Narrowed(sub)[c] \subseteq sub[c]
         /\ \A c \in Child : c # Near => Narrowed(sub)[c] = sub[c]
         /\ \A y : y \in Narrowed(sub)[Near] <=> y \in sub[Near] /\ OnSide(Turn, y, At, Reach)
         /\ \A x \in Nodes : Family(Narrowed(sub), x) \subseteq Family(sub, x)
<1>1. Near \in Child /\ Near \notin Pending
  BY TurnIsRight, CandidateFamily DEF Near
<1>2. /\ Narrowed(sub) \in [Child -> SUBSET Nat]
      /\ \A c \in Child : c # Near => Narrowed(sub)[c] = sub[c]
      /\ Narrowed(sub)[Near] = {y \in sub[Near] : OnSide(Turn, y, At, Reach)}
  <2>1. {y \in sub[Near] : OnSide(Turn, y, At, Reach)} \in SUBSET Nat
    BY <1>1
  <2> QED BY <1>1, <2>1 DEF Narrowed
<1>3. \A c \in Child : Narrowed(sub)[c] \subseteq sub[c]
  BY <1>2
<1>4. \A x \in Nodes : Family(Narrowed(sub), x) \subseteq Family(sub, x)
  <2>1. \A x \in Nodes : Kid(x, "less") \in Child /\ Kid(x, "greater") \in Child
    BY NodeFacts, WalkFacts DEF Side
  <2> QED BY <1>3, <2>1 DEF Family
<1> QED BY <1>1, <1>2, <1>3, <1>4

(* The node goes where its side has a place left, and is in order there,   *)
(* with all that is below it on its far side.                              *)
LEMMA NodeFits ==
  ASSUME FinderInv, Walking, search.pc = "branch",
         NEW sub \in [Child -> SUBSET Nat], Ordered(sub)
  PROVE  Holds(Narrowed(sub), Place(Turn), search.node)
<1> DEFINE new == Narrowed(sub)
<1>1. /\ in_base_offset + search.node = Candidate
      /\ kind = "bt" /\ At \in Nodes /\ Candidate \in Nodes
      /\ Place(Turn) \in Child /\ Place(Turn) \in Pending
  BY WalkNodes, WalkFacts, TurnIsRight DEF Candidate, Side
<1>2. new[Place(Turn)] = sub[Place(Turn)]
  BY <1>1, NarrowedIsLess
<1>3. ASSUME NEW y \in Family(new, Candidate) \cap Nodes PROVE y \in sub[Place(Turn)]
  <2>1. y = Candidate \/ \E s \in Side : y \in new[Kid(Candidate, s)]
    BY <1>3 DEF Family, Side
  <2>2. Belongs(sub, y) /\ OnSide(Turn, y, At, Reach)
    <3>1. CASE y = Candidate
      BY <3>1, CandidateFamily, TurnIsRight
    <3>2. CASE y \in new[Kid(Candidate, Turn)]
      <4>1. y \in sub[Kid(Candidate, Turn)] /\ y \in Nodes
        BY <1>3, <3>2, NarrowedIsLess, CandidateFamily, TurnIsRight
      <4>2. Belongs(sub, y) /\ OnSide(Turn, y, Candidate, Reach)
        BY <4>1, CandidateFamily, TurnIsRight
      <4>3. Inside(y, Reach) /\ Inside(Candidate, Reach) /\ Inside(At, Reach)
        BY <1>1, <4>1, NodeFacts
      <4> QED BY <4>2, <4>3, OnSideTransitive, TurnIsRight
    <3>3. CASE y \in new[Near]
      <4>1. y \in sub[Near] /\ OnSide(Turn, y, At, Reach) /\ y \in Nodes
        BY <1>3, <3>3, NarrowedIsLess
      <4> QED BY <4>1, CandidateFamily, TurnIsRight DEF Near
    <3> QED BY <2>1, <3>1, <3>2, <3>3, TurnIsRight DEF Near
  <2> QED BY <2>2, TurnIsRight DEF Belongs
<1> QED BY <1>1, <1>2, <1>3 DEF Holds

(* The children that are not to be filled again.                           *)
LEMMA DescentHolds ==
  ASSUME FinderInv, Walking, search.pc = "branch",
         NEW sub \in [Child -> SUBSET Nat], Ordered(sub),
         NEW p \in Nodes, NEW side \in Side,
         Kid(p, side) # Near, Kid(p, side) # Place(Other(Turn))
  PROVE  Holds(Narrowed(sub), Kid(p, side),
               [child_tab EXCEPT ![Place(Turn)] = search.node][Kid(p, side)])
<1> DEFINE c == Kid(p, side)
           child == [child_tab EXCEPT ![Place(Turn)] = search.node][c]
<1>1. c \in Child /\ child_tab \in [Child -> Entry] /\ kind = "bt"
  BY NodeFacts, WalkFacts
<1>2. CASE c = Place(Turn)
  <2>1. child = search.node
    <3> HIDE DEF c
    <3> QED BY <1>1, <1>2
  <2> QED BY <1>2, <2>1, NodeFits
<1>3. CASE c # Place(Turn)
  <2>1. child = child_tab[c]
    <3> HIDE DEF c
    <3> QED BY <1>1, <1>3
  <2>2. c \notin Pending
    <3>1. Pending = {Place(Turn), Place(Other(Turn))}
      BY WalkNodes, TurnIsRight DEF Other, Side
    <3> QED BY <1>3, <3>1
  <2>3. Holds(sub, c, child_tab[c])
    BY <2>2 DEF Ordered, Contains, Holds, ChildAt
  <2>4. Narrowed(sub)[c] = sub[c]
    BY <1>1, NarrowedIsLess
  <2>5. ASSUME in_base_offset + child_tab[c] \in Nodes
        PROVE  Family(Narrowed(sub), in_base_offset + child_tab[c])
                 \subseteq Family(sub, in_base_offset + child_tab[c])
    BY <2>5, NarrowedIsLess
  <2> HIDE DEF c
  <2>6. Holds(Narrowed(sub), c, child_tab[c])
    BY <2>3, <2>4, <2>5 DEF Holds
  <2> QED BY <2>1, <2>6 DEF c
<1> QED BY <1>2, <1>3

(* The next node agrees as far as it is taken to, and what is below it     *)
(* belongs to the walk that goes on.                                       *)
LEMMA NextBelongs ==
  ASSUME FinderInv, Walking, search.pc = "branch",
         NEW sub \in [Child -> SUBSET Nat], Ordered(sub), ChildAt(Near) \in Nodes
  PROVE  /\ Agree(At, ChildAt(Near), AtMost(walk.len, Best(Other(Turn))))
         /\ \A y \in Family(Narrowed(sub), ChildAt(Near)) \cap Nodes :
              /\ y < At
              /\ \A s \in Side : Kid(y, s) # Near /\ Kid(y, s) # Place(Other(Turn))
              /\ OnSide(Turn, y, At, Reach) =>
                   y \in Narrowed(sub)[Near] /\ Agree(At, y, walk.len)
              /\ OnSide(Other(Turn), y, At, Reach) =>
                   /\ y \in Narrowed(sub)[Place(Other(Turn))]
                   /\ Agree(At, y, Best(Other(Turn)))
<1> DEFINE new == Narrowed(sub)
           x == ChildAt(Near)
           other == Other(Turn)
<1>1. /\ kind = "bt" /\ At \in Nodes /\ Candidate \in Nodes
      /\ walk.len \in Nat /\ Best(other) \in Nat
      /\ Place(other) \in Child /\ Place(other) \in Pending
      /\ walk.len < Reach /\ Agree(At, Candidate, walk.len)
      /\ other \in Side
  BY WalkNodes, WalkFacts, TurnIsRight DEF Side, Ordered, WalkOrder
<1>2. Reach \in Nat /\ Inside(At, Reach) /\ Inside(Candidate, Reach)
  BY <1>1, NodeFacts
<1>3. \A y \in Family(sub, x) \cap Nodes : y \in sub[Near]
  BY <1>1, CandidateFamily DEF Near, Holds, ChildAt
<1>4. ASSUME NEW y \in Family(sub, x) \cap Nodes
      PROVE  /\ y \in sub[Near] /\ Belongs(sub, y) /\ y < Candidate
             /\ OnSide(Turn, Candidate, y, Reach)
             /\ OnSide(Turn, y, At, Reach) => Agree(At, y, walk.len)
  <2>1. y \in sub[Near] /\ y \in Nodes
    BY <1>3, <1>4
  <2>2. Belongs(sub, y) /\ y < Candidate /\ OnSide(other, y, Candidate, Reach)
    BY <1>1, <2>1, CandidateFamily DEF Near
  <2>3. OnSide(Turn, Candidate, y, Reach)
    BY <2>2, TurnIsRight, OnSideTurns
  <2>4. Inside(y, Reach)
    BY <1>1, <2>1, NodeFacts
  <2>5. OnSide(Turn, y, At, Reach) => Agree(At, y, walk.len)
    BY <1>1, <1>2, <2>3, <2>4, TurnIsRight, OnSideSqueeze
  <2> QED BY <2>1, <2>2, <2>3, <2>5
<1>5. Agree(At, x, AtMost(walk.len, Best(other)))
  <2>1. x \in Family(sub, x) \cap Nodes
    BY DEF Family
  <2>2. Inside(x, Reach)
    BY <1>1, <2>1, NodeFacts
  <2>3. OnSide(Turn, x, At, Reach) \/ OnSide(other, x, At, Reach)
    BY <1>2, <2>2, OnSideTotal, TurnIsRight
  <2>4. Agree(At, x, walk.len) \/ Agree(At, x, Best(other))
    BY <1>1, <1>4, <2>1, <2>3 DEF Belongs
  <2>5. \A n \in Nat, m \in Nat : \A k \in 1 .. AtMost(n, m) : k \in 1 .. n /\ k \in 1 .. m
    BY DEF AtMost
  <2>6. \A k \in 1 .. AtMost(walk.len, Best(other)) : k \in 1 .. walk.len /\ k \in 1 .. Best(other)
    BY <1>1, <2>5
  <2> QED BY <2>4, <2>6 DEF Agree
<1>6. ASSUME NEW y \in Family(new, x) \cap Nodes
      PROVE  /\ y < At
             /\ \A s \in Side : Kid(y, s) # Near /\ Kid(y, s) # Place(other)
             /\ OnSide(Turn, y, At, Reach) => y \in new[Near] /\ Agree(At, y, walk.len)
             /\ OnSide(other, y, At, Reach) =>
                  y \in new[Place(other)] /\ Agree(At, y, Best(other))
  <2>1. y \in Family(sub, x) \cap Nodes
    BY <1>6, NarrowedIsLess
  <2>2. /\ y \in sub[Near] /\ Belongs(sub, y) /\ y < Candidate
        /\ OnSide(Turn, y, At, Reach) => Agree(At, y, walk.len)
    BY <1>4, <2>1
  <2>3. \A s \in Side : Kid(y, s) # Near
    <3>1. y # Candidate /\ y \in Nodes
      BY <1>1, <2>1, <2>2, NodeFacts
    <3> QED BY <1>1, <3>1, NodeFacts DEF Near
  <2>4. new[Place(other)] = sub[Place(other)]
    BY <1>1, NarrowedIsLess
  <2>5. OnSide(Turn, y, At, Reach) => y \in new[Near]
    BY <2>2, NarrowedIsLess
  <2> QED BY <1>1, <2>2, <2>3, <2>4, <2>5 DEF Belongs
<1> QED BY <1>5, <1>6

(* The node goes to its side and the walk descends, or ends.               *)
LEMMA DescendOrdered ==
  ASSUME FinderInv, TreesOrdered, UNCHANGED <<kind, htVars>>, BtDescend
  PROVE  TreesOrdered'
<1> DEFINE other == Other(Turn)
           tab == [child_tab EXCEPT ![Place(Turn)] = search.node]
           lt == IF Turn = "less" THEN Near ELSE walk.pending_lt
           gt == IF Turn = "less" THEN walk.pending_gt ELSE Near
           len == AtMost(walk.len, Best(other))
<1>1. Walking /\ search.pc = "branch" /\ WalkFrame
  BY DEF BtDescend, Walking, WalkFrame
<1>2. kind = "bt" /\ child_tab \in [Child -> Entry] /\ search.node \in Entry
      /\ in_base_offset \in Nat /\ search.cur_pos \in Nat
  BY <1>1, WalkFacts
<1>3. PICK sub \in [Child -> SUBSET Nat] : Ordered(sub)
  BY <1>1, <1>2 DEF TreesOrdered
<1>4. /\ Near \in Child /\ Near \notin Pending
      /\ Place(Turn) \in Child /\ Place(other) \in Child
      /\ Pending = {Place(Turn), Place(other)} /\ Place(Turn) # Place(other)
      /\ walk.pending_lt \in Child /\ walk.pending_gt \in Child
  <2>1. walk.pending_lt # walk.pending_gt
    BY <1>1, <1>3 DEF Ordered, WalkOrder
  <2>2. Pending = {Place("less"), Place("greater")} /\ \A s \in Side : Place(s) \in Child
    BY <1>1, WalkNodes
  <2> QED BY <1>1, <1>3, <2>1, <2>2, NarrowedIsLess, TurnIsRight, WalkFacts
       DEF Place, Other, Side
<1>5. \/ /\ child_tab' = [tab EXCEPT ![lt] = INITVAL, ![gt] = INITVAL]
         /\ WalkOver(Slot(search.cur_pos))
      \/ /\ Live(child_tab[Near], search.cur_pos)
         /\ child_tab' = tab
         /\ search' = [search EXCEPT !.pc = "tree", !.node = child_tab[Near], !.depth = @ - 1]
         /\ walk' = [walk EXCEPT
                       !.pending_lt = lt, !.pending_gt = gt,
                       !.best_lt = IF Turn = "less" THEN walk.len ELSE @,
                       !.best_gt = IF Turn = "less" THEN @ ELSE walk.len,
                       !.len = len]
         /\ UNCHANGED linked
  <2> DEFINE less == data[Node + walk.len + 1] < data[Here + walk.len + 1]
             pending == IF less THEN walk.pending_lt ELSE walk.pending_gt
             near == IF less THEN GreaterThan(search.node) ELSE LessThan(search.node)
             tab0 == [child_tab EXCEPT ![pending] = search.node]
             lt0 == IF less THEN near ELSE walk.pending_lt
             gt0 == IF less THEN walk.pending_gt ELSE near
  <2>1. \/ /\ child_tab' = [tab0 EXCEPT ![lt0] = INITVAL, ![gt0] = INITVAL]
           /\ WalkOver(Slot(search.cur_pos))
        \/ /\ Live(tab0[near], search.cur_pos)
           /\ child_tab' = tab0
           /\ search' = [search EXCEPT !.pc = "tree", !.node = tab0[near], !.depth = @ - 1]
           /\ walk' = [walk EXCEPT
                         !.pending_lt = lt0, !.pending_gt = gt0,
                         !.best_lt = IF less THEN walk.len ELSE @,
                         !.best_gt = IF less THEN @ ELSE walk.len,
                         !.len = Known(walk.len, IF less THEN walk.best_gt ELSE walk.best_lt)]
           /\ UNCHANGED linked
    <3>1. CASE ~Live(tab0[near], search.cur_pos) \/ search.depth = 1
      BY <3>1, Zenon DEF BtDescend
    <3>2. CASE ~(~Live(tab0[near], search.cur_pos) \/ search.depth = 1)
      BY <3>2, Zenon DEF BtDescend
    <3> QED BY <3>1, <3>2
  <2>2. less <=> Turn = "less"
    BY DEF Turn
  <2>3. near = Near /\ pending = Place(Turn)
    BY <1>1, <2>2, WalkNodes DEF Near, Place, Other, Turn
  <2>4. tab0 = tab /\ lt0 = lt /\ gt0 = gt
    BY <2>2, <2>3
  <2>5. tab[Near] = child_tab[Near]
    BY <1>2, <1>4
  <2>6. Known(walk.len, IF less THEN walk.best_gt ELSE walk.best_lt) = len
    BY <2>2 DEF Known, Best, Other, Turn
  <2> HIDE DEF less, near, pending, tab0, lt0, gt0, tab, lt, gt, len
  <2>7. (IF less THEN walk.len ELSE walk.best_lt)
          = (IF Turn = "less" THEN walk.len ELSE walk.best_lt)
        /\ (IF less THEN walk.best_gt ELSE walk.len)
          = (IF Turn = "less" THEN walk.best_gt ELSE walk.len)
    BY <2>2
  <2>8. tab0[near] = child_tab[Near]
    BY <2>3, <2>4, <2>5
  <2> QED BY <2>1, <2>4, <2>6, <2>7, <2>8
<1>6. PICK new \in [Child -> SUBSET Nat] : new = Narrowed(sub)
  BY <1>1, <1>3, NarrowedIsLess
<1>7. \A c \in Child : new[c] \subseteq sub[c]
  BY <1>1, <1>3, <1>6, NarrowedIsLess
<1>8. {lt, gt} = {Near, Place(other)}
  BY DEF Place, Other, Turn
<1>9. CASE /\ child_tab' = [tab EXCEPT ![lt] = INITVAL, ![gt] = INITVAL]
           /\ WalkOver(Slot(search.cur_pos))
  <2>1. ASSUME NEW p \in Nodes, NEW side \in Side
        PROVE  Holds(new, Kid(p, side), child_tab'[Kid(p, side)])
    <3> DEFINE c == Kid(p, side)
    <3>1. c \in Child
      BY <1>2, NodeFacts
    <3>2. tab \in [Child -> Entry]
      BY <1>2
    <3>3. child_tab'[c] = IF c \in {lt, gt} THEN INITVAL ELSE tab[c]
      <4> HIDE DEF c, tab, lt, gt, INITVAL
      <4> QED BY <1>9, <3>1, <3>2
    <3>4. CASE c \in {lt, gt}
      <4>1. in_base_offset + INITVAL \notin Nodes
        <5>1. \A x \in Nodes : At < x + WINDOW_SIZE
          BY <1>1, <1>2, NodeFacts, WalkNodes
        <5>2. At = in_base_offset + search.cur_pos /\ WINDOW_SIZE \in Nat
          BY MatchAssumption DEF At
        <5>3. ~(At < (in_base_offset + INITVAL) + WINDOW_SIZE)
          BY <1>2, <5>2 DEF INITVAL
        <5> QED BY <5>1, <5>3
      <4> QED BY <3>3, <3>4, <4>1 DEF Holds
    <3>5. CASE c \notin {lt, gt}
      <4>1. Kid(p, side) # Near /\ Kid(p, side) # Place(Other(Turn))
        BY <1>8, <3>5
      <4>2. Holds(new, c, tab[c])
        BY <1>1, <1>3, <1>6, <4>1, DescentHolds
      <4>3. child_tab'[c] = tab[c]
        BY <3>3, <3>5
      <4> QED BY <4>2, <4>3
    <3> QED BY <3>4, <3>5
  <2> QED BY <1>1, <1>3, <1>9, <1>7, <2>1, WalkEndsOrdered DEF Ordered
<1>10. CASE /\ Live(child_tab[Near], search.cur_pos)
           /\ child_tab' = tab
           /\ search' = [search EXCEPT !.pc = "tree", !.node = child_tab[Near], !.depth = @ - 1]
           /\ walk' = [walk EXCEPT
                         !.pending_lt = lt, !.pending_gt = gt,
                         !.best_lt = IF Turn = "less" THEN walk.len ELSE @,
                         !.best_gt = IF Turn = "less" THEN @ ELSE walk.len,
                         !.len = len]
           /\ UNCHANGED linked
  <2>1. /\ search'.pc = "tree" /\ search'.node = child_tab[Near]
        /\ search'.cur_pos = search.cur_pos /\ search'.nice = search.nice
        /\ walk'.len = len /\ walk'.nice_match = walk.nice_match
        /\ walk'.pending_lt = lt /\ walk'.pending_gt = gt
        /\ walk'.best_lt = IF Turn = "less" THEN walk.len ELSE walk.best_lt
        /\ walk'.best_gt = IF Turn = "less" THEN walk.best_gt ELSE walk.len
        /\ Walking'
    <3>1. search \in Searches /\ walk \in Walks
      BY <1>1, WalkFacts
    <3> HIDE DEF lt, gt, len, tab
    <3> QED BY <1>10, <3>1 DEF Searches, Walks, Walking
  <2>2. /\ UNCHANGED <<data, in_base_offset>>
        /\ At' = At /\ Nodes' = Nodes /\ Reach' = Reach
        /\ \A p, side : Kid(p, side)' = Kid(p, side)
    BY <1>1, <1>10, <2>1, SameNodes DEF WalkFrame
  <2>3. Pending' = {Near, Place(other)} /\ lt # gt
    <3>1. Pending' = {lt, gt}
      BY <2>1 DEF Pending
    <3>2. Near # Place(other)
      BY <1>4
    <3> QED BY <1>8, <3>1, <3>2
  <2>4. ChildAt(Near) \in Nodes /\ Candidate' = ChildAt(Near)
    <3>1. Candidate' = ChildAt(Near)
      BY <2>1, <2>2 DEF Candidate, ChildAt
    <3>2. /\ child_tab[Near] \in Entry /\ Settled(child_tab[Near])
          /\ child_tab[Near] # INITVAL /\ child_tab[Near] \in Int
      <4>1. child_tab[Near] \in Entry
        BY <1>2, <1>4
      <4>2. Near = <<Slot(search.node), Other(Turn)>> /\ Other(Turn) \in Side
        <5>1. Candidate - in_base_offset = search.node
          BY <1>1, WalkFacts DEF Candidate
        <5> QED BY <1>1, <1>3, <5>1, TurnIsRight DEF Near, Kid
      <4>3. Settled(child_tab[Near])
        BY <1>1, <4>2, WalkFacts
      <4>4. child_tab[Near] # INITVAL
        BY <1>2, <1>10, <4>1, LiveIsEntry
      <4> QED BY <4>1, <4>3, <4>4, MatchAssumption DEF Entry
    <3>3. /\ 0 <= ChildAt(Near) /\ ChildAt(Near) + 1 < in_next
          /\ Slot(child_tab[Near]) \in linked
          /\ ChildAt(Near) - in_base_offset = child_tab[Near]
          /\ At - WINDOW_SIZE < ChildAt(Near)
      <4>1. /\ 0 <= in_base_offset + child_tab[Near]
            /\ in_base_offset + child_tab[Near] + 1 < in_next
            /\ Slot(child_tab[Near]) \in linked
        BY <1>2, <3>2, Basics DEF Settled, Strict, Planted
      <4>2. child_tab[Near] > search.cur_pos - WINDOW_SIZE
        BY <1>10 DEF Live
      <4>3. /\ in_base_offset + child_tab[Near] - in_base_offset = child_tab[Near]
            /\ (in_base_offset + search.cur_pos) - WINDOW_SIZE < in_base_offset + child_tab[Near]
        BY <1>2, <3>2, <4>2, MatchAssumption
      <4>4. /\ ChildAt(Near) = in_base_offset + child_tab[Near]
            /\ At = in_base_offset + search.cur_pos
        BY DEF ChildAt, At
      <4>5. ChildAt(Near) - in_base_offset = child_tab[Near]
        <5>1. child_tab[Near] \in Int /\ in_base_offset \in Int
          BY <1>2, <3>2
        <5>2. ChildAt(Near) = in_base_offset + child_tab[Near]
          BY DEF ChildAt
        <5> HIDE DEF lt, gt, len, tab, other
        <5> QED BY <5>1, <5>2
      <4>6. At - WINDOW_SIZE < ChildAt(Near)
        BY <4>3, <4>4
      <4>7. 0 <= ChildAt(Near) /\ ChildAt(Near) + 1 < in_next
        BY <4>1, <4>4
      <4> QED BY <4>1, <4>5, <4>6, <4>7
    <3>4. ChildAt(Near) \in 0 .. (in_next - 1)
      <4>1. ChildAt(Near) \in Int /\ in_next \in Nat
        BY <1>2, <3>2, Basics DEF ChildAt
      <4> QED BY <3>3, <4>1
    <3> QED BY <1>1, <3>1, <3>3, <3>4, WalkNodes DEF Nodes
  <2>5. /\ Agree(At, ChildAt(Near), len)
        /\ \A y \in Family(new, ChildAt(Near)) \cap Nodes :
             /\ y < At
             /\ \A s \in Side : Kid(y, s) # Near /\ Kid(y, s) # Place(other)
             /\ OnSide(Turn, y, At, Reach) => y \in new[Near] /\ Agree(At, y, walk.len)
             /\ OnSide(other, y, At, Reach) =>
                  y \in new[Place(other)] /\ Agree(At, y, Best(other))
    BY <1>1, <1>3, <1>6, <2>4, NextBelongs
  <2>6. len < Reach /\ search'.nice = Reach'
    <3>1. /\ walk.len < Reach /\ search.nice = Reach
          /\ walk.len \in Nat /\ Best(other) \in Nat /\ Reach \in Nat
      BY <1>1, <1>2, <1>3, WalkNodes, NodeFacts, TurnIsRight DEF Ordered, WalkOrder
    <3> QED BY <2>1, <2>2, <3>1 DEF AtMost
  <2>7. InOrder(new)'
    <3>1. Reach \in Nat
      BY <1>2, NodeFacts
    <3> QED BY <1>2, <1>3, <1>7, <2>2, <3>1, InOrderKept DEF Ordered
  <2>8. Contains(new)'
    <3>1. ASSUME NEW p \in Nodes, NEW side \in Side, Kid(p, side) \notin Pending'
          PROVE  Holds(new, Kid(p, side), child_tab'[Kid(p, side)])
      <4>1. Kid(p, side) # Near /\ Kid(p, side) # Place(Other(Turn))
        BY <2>3, <3>1
      <4> QED BY <1>1, <1>3, <1>6, <1>10, <4>1, DescentHolds
    <3> QED BY <2>2, <3>1, ContainsKept
  <2>9. ASSUME NEW y \in Family(new, ChildAt(Near)) \cap Nodes PROVE Belongs(new, y)'
    <3>2. \A s \in Side :
            /\ Place(s)' = IF s = Turn THEN Near ELSE Place(other)
            /\ Best(s)' = IF s = Turn THEN walk.len ELSE Best(other)
      <4>1. /\ \A s : Place(s)' = IF s = "less" THEN lt ELSE gt
            /\ \A s : Best(s)' = IF s = "less" THEN IF Turn = "less" THEN walk.len
                                                 ELSE walk.best_lt
                                 ELSE IF Turn = "less" THEN walk.best_gt ELSE walk.len
        BY <2>1 DEF Place, Best
      <4>2. Turn \in Side
        BY DEF Turn, Side
      <4> QED BY <4>1, <4>2 DEF Place, Best, Other, Side
    <3>3. ASSUME NEW s \in Side
          PROVE  /\ Kid(y, s)' \notin Pending'
                 /\ OnSide(s, y, At, Reach)' => y \in new[Place(s)'] /\ Agree(At, y, Best(s))'
      <4>1. Kid(y, s)' \notin Pending'
        BY <2>2, <2>3, <2>5
      <4>2. OnSide(s, y, At, Reach)' <=> OnSide(s, y, At, Reach)
        BY <2>2 DEF OnSide, NotAfter, Agree
      <4>3. Agree(At, y, Best(s))' <=> Agree(At, y, IF s = Turn THEN walk.len ELSE Best(other))
        BY <2>2, <3>2 DEF Agree
      <4>4. s = Turn \/ s = other
        BY DEF Turn, Other, Side
      <4>5. Turn # other
        BY DEF Turn, Other
      <4> HIDE DEF other
      <4>6. CASE s = Turn
        BY <2>5, <3>2, <4>1, <4>2, <4>3, <4>6
      <4>7. CASE s = other
        BY <2>5, <3>2, <4>1, <4>2, <4>3, <4>5, <4>7
      <4> QED BY <4>4, <4>6, <4>7
    <3> QED BY <2>2, <2>5, <3>3 DEF Belongs
  <2>10. Family(new, Candidate)' = Family(new, ChildAt(Near))
    BY <2>2, <2>4 DEF Family
  <2>11. Agree(At, Candidate, walk.len)'
    <3> HIDE DEF len
    <3> QED BY <2>1, <2>2, <2>4, <2>5 DEF Agree
  <2>12. WalkOrder(new)'
    <3> HIDE DEF len, lt, gt
    <3> QED BY <2>1, <2>2, <2>3, <2>6, <2>9, <2>10, <2>11 DEF WalkOrder
  <2> QED BY <1>2, <2>1, <2>7, <2>8, <2>12 DEF TreesOrdered, Ordered
<1> QED BY <1>5, <1>9, <1>10

-------------------------------------------------------------------------------

(* A position is planted: it is in_next, and either the walk begins, or    *)
(* there is none and it has no children.                                   *)
Plants ==
  /\ kind = "bt" /\ search.pc = "ready"
  /\ REQUIRED_NBYTES <= Remaining
  /\ in_base_offset' = Base /\ in_next' = in_next + 1 /\ UNCHANGED data
  /\ walk'.nice_match = walk.nice_match
  /\ linked' \subseteq linked \cup {Slot(CurPos)}
  /\ Walking' => At' = in_next

(* A slot stays when the window slides.                                    *)
LEMMA SlotsStay ==
  ASSUME FinderInv, NEW p \in Int
  PROVE  Slot(p - Base) = Slot(p - in_base_offset)
<1>1. in_base_offset \in Nat /\ WINDOW_SIZE \in Nat \ {0}
  BY Basics, MatchAssumption
<1>2. CASE Base = in_base_offset
  BY <1>2
<1>3. CASE Base = in_base_offset + WINDOW_SIZE
  <2>1. /\ p - in_base_offset \in Int
        /\ p - Base = (p - in_base_offset) - WINDOW_SIZE
    BY <1>1, <1>3
  <2> QED BY <2>1, SlotIsSlot
<1> QED BY <1>2, <1>3 DEF Base

(* Where everything is while a position is planted.                        *)
LEMMA PlantFacts ==
  ASSUME FinderInv, Plants
  PROVE  /\ in_next \in Nat /\ Searched = in_next /\ in_base_offset \in Nat
         /\ Base \in Nat /\ CurPos \in Nat /\ in_next = Base + CurPos
         /\ Pending = {} /\ ~Walking
         /\ Inside(in_next, Reach) /\ REQUIRED_NBYTES <= Reach /\ Reach \in Nat
         /\ \A p \in Int : \A side : Kid(p, side)' = Kid(p, side)
         /\ \A p \in Int : Slot(p - Base) = Slot(p - in_base_offset)
         /\ Nodes' \subseteq Nodes \cup {in_next}
         /\ in_next \notin Nodes
         /\ \A p \in Nodes, s \in Side, t \in Side : Kid(p, s) # Kid(in_next, t)
         /\ \A side \in Side : Kid(in_next, side) \in Child
         /\ Reach' \in Int /\ Reach' <= Reach
         /\ Walking' => Reach' = Reach /\ Searched' = in_next
         /\ Base + INITVAL \notin Nodes'
<1>1. /\ in_next \in Nat /\ Len(data) \in Nat /\ in_next <= Len(data)
      /\ in_base_offset \in Nat /\ in_base_offset <= in_next
      /\ in_base_offset = 0 \/ WINDOW_SIZE <= in_base_offset
      /\ WINDOW_SIZE \in Nat \ {0} /\ MAX_MATCH_LEN \in Nat /\ REQUIRED_NBYTES \in Nat
      /\ walk.nice_match \in Nat
      /\ REQUIRED_NBYTES <= Len(data) - in_next
  BY Basics, MatchAssumption, FinderAssumption
     DEF Plants, FinderInv, TypesHold, FamilyTypeOK, Remaining
<1>2. ~Walking /\ Pending = {} /\ Searched = in_next
  BY DEF Plants, Walking, Pending, Searched
<1>3. Base \in Nat /\ CurPos \in Nat /\ in_next = Base + CurPos
  BY <1>1, BaseIsPlaced
<1>4. /\ Inside(in_next, Reach) /\ REQUIRED_NBYTES <= Reach /\ Reach \in Nat
      /\ \A p \in Nodes : /\ p \in Nat /\ p < in_next /\ in_next < p + WINDOW_SIZE
  <2>1. kind = "bt"
    BY DEF Plants
  <2> QED BY <1>1, <1>2, <2>1, NodeFacts DEF Inside
<1>5. ASSUME NEW p \in Int
      PROVE  /\ Slot(p - Base) = Slot(p - in_base_offset)
             /\ \A side : Kid(p, side)' = Kid(p, side)
  <2>1. Slot(p - Base) = Slot(p - in_base_offset)
    BY SlotsStay
  <2>2. in_base_offset' = Base
    BY DEF Plants
  <2> QED BY <2>1, <2>2 DEF Kid, Slot
<1>6. Searched' \in {in_next, in_next + 1} /\ (Walking' => Searched' = in_next)
  BY DEF Plants, Searched
<1>7. ASSUME NEW p \in Nodes', p # in_next PROVE p \in Nodes
  <2>1. /\ p \in 0 .. in_next' - 1 /\ Searched' - WINDOW_SIZE < p
        /\ p = Searched' \/ Slot(p - Base) \in linked'
    BY DEF Nodes, Slot, Plants
  <2>2. /\ p \in Nat /\ p < in_next /\ in_next - WINDOW_SIZE < p
        /\ Slot(p - Base) \in linked'
    <3>1. in_next' = in_next + 1
      BY DEF Plants
    <3>2. p \in Nat /\ p < in_next
      BY <1>1, <1>7, <2>1, <3>1
    <3>3. Searched' \in Int /\ in_next <= Searched'
      BY <1>1, <1>6
    <3>4. Searched' - WINDOW_SIZE < p
      BY <2>1
    <3>5. in_next - WINDOW_SIZE < p /\ p # Searched'
      <4>1. \A to \in Int, at \in Nat, q \in Nat, size \in Nat :
              at <= to /\ to - size < q /\ q < at => at - size < q /\ q # to
        OBVIOUS
      <4>2. WINDOW_SIZE \in Nat /\ in_next \in Nat
        BY <1>1
      <4> QED BY <3>2, <3>3, <3>4, <4>1, <4>2, Zenon
    <3> QED BY <2>1, <3>2, <3>5
  <2>3. Slot(p - Base) # Slot(CurPos)
    <3>1. /\ p - Base \in Int /\ (p - Base) - CurPos < WINDOW_SIZE
          /\ CurPos - (p - Base) < WINDOW_SIZE /\ p - Base # CurPos
      BY <1>1, <1>3, <2>2
    <3> QED BY <1>3, <3>1, SlotsDiffer
  <2>4. Slot(p - in_base_offset) \in linked
    BY <1>5, <2>2, <2>3 DEF Plants
  <2>5. p \in 0 .. (in_next - 1)
    BY <1>1, <2>2
  <2> QED BY <1>2, <2>2, <2>4, <2>5 DEF Nodes
<1>8. in_next \notin Nodes
  BY <1>1, <1>4
<1>9. ASSUME NEW p \in Nodes, NEW s \in Side, NEW t \in Side
       PROVE  Kid(p, s) # Kid(in_next, t)
  <2>1. p \in Int /\ p - in_next < WINDOW_SIZE /\ in_next - p < WINDOW_SIZE /\ p # in_next
    BY <1>1, <1>4
  <2> QED BY <1>1, <2>1, KidsDiffer
<1>10. \A side \in Side : Kid(in_next, side) \in Child
  BY <1>1, KidIsChild
<1>11. Reach' \in Int /\ Reach' <= Reach /\ (Walking' => Reach' = Reach)
  <2>1. /\ Reach' = AtMost(walk.nice_match, AtMost(Len(data) - Searched', MAX_MATCH_LEN))
        /\ Reach = AtMost(walk.nice_match, AtMost(Len(data) - in_next, MAX_MATCH_LEN))
    BY <1>2 DEF Reach, AtMost, Plants
  <2>2. \A n \in Nat, m \in Nat, len \in Nat, at \in Nat, later \in Nat :
          at <= later =>
            /\ AtMost(n, AtMost(len - later, m)) \in Int
            /\ AtMost(n, AtMost(len - later, m)) <= AtMost(n, AtMost(len - at, m))
    BY DEF AtMost
  <2>3. Walking' => Reach' = Reach
    BY <1>6, <2>1, Zenon
  <2>4. Searched' \in Nat /\ in_next <= Searched'
    BY <1>1, <1>6
  <2>5. /\ AtMost(walk.nice_match, AtMost(Len(data) - Searched', MAX_MATCH_LEN)) \in Int
        /\ AtMost(walk.nice_match, AtMost(Len(data) - Searched', MAX_MATCH_LEN))
             <= AtMost(walk.nice_match, AtMost(Len(data) - in_next, MAX_MATCH_LEN))
    BY <1>1, <2>2, <2>4
  <2> QED BY <2>1, <2>3, <2>5
<1>12. Base + INITVAL \notin Nodes'
  <2>1. ASSUME Base + INITVAL \in Nodes' PROVE FALSE
    <3>1. Searched' - WINDOW_SIZE < Base + INITVAL
      BY <2>1 DEF Nodes
    <3>2. Searched' \in Int /\ in_next <= Searched' /\ Base <= in_next
      BY <1>1, <1>3, <1>6
    <3>3. Base + INITVAL = Base - WINDOW_SIZE
      BY <1>1, <1>3 DEF INITVAL
    <3> HIDE DEF INITVAL
    <3> QED BY <1>1, <1>3, <3>1, <3>2, <3>3
  <2> QED BY <2>1
<1> QED BY <1>1, <1>2, <1>3, <1>4, <1>5, <1>6, <1>7, <1>8, <1>9, <1>10, <1>11, <1>12

(* What is below the positions when one is planted: below the new root,    *)
(* everything, on either side.                                             *)
Planting(sub) ==
  [c \in Child |-> IF c = Kid(in_next, "less") THEN {y \in Nodes : OnSide("less", y, in_next, Reach)}
                   ELSE IF c = Kid(in_next, "greater")
                     THEN {y \in Nodes : OnSide("greater", y, in_next, Reach)}
                   ELSE sub[c] \cap Nodes]

(* That is what Planting says, of the new root and of every other node.    *)
LEMMA PlantingIs ==
  ASSUME FinderInv, Plants, NEW sub \in [Child -> SUBSET Nat]
  PROVE  /\ Planting(sub) \in [Child -> SUBSET Nat]
         /\ \A side \in Side :
              Planting(sub)[Kid(in_next, side)] = {y \in Nodes : OnSide(side, y, in_next, Reach)}
         /\ \A p \in Nodes, side \in Side :
              Planting(sub)[Kid(p, side)] = sub[Kid(p, side)] \cap Nodes
<1>1. Nodes \subseteq Nat
  BY NodeFacts DEF Plants
<1>2. ASSUME NEW c \in Child
      PROVE  (IF c = Kid(in_next, "less") THEN {y \in Nodes : OnSide("less", y, in_next, Reach)}
              ELSE IF c = Kid(in_next, "greater")
                THEN {y \in Nodes : OnSide("greater", y, in_next, Reach)}
              ELSE sub[c] \cap Nodes) \in SUBSET Nat
  BY <1>1
<1>3. Planting(sub) \in [Child -> SUBSET Nat]
  BY <1>2 DEF Planting
<1>4. Kid(in_next, "less") # Kid(in_next, "greater")
  BY DEF Kid
<1>5. ASSUME NEW side \in Side
      PROVE  Planting(sub)[Kid(in_next, side)] = {y \in Nodes : OnSide(side, y, in_next, Reach)}
  <2>1. Kid(in_next, side) \in Child
    BY PlantFacts
  <2>2. CASE side = "less"
    BY <2>1, <2>2 DEF Planting
  <2>3. CASE side = "greater"
    BY <1>4, <2>1, <2>3 DEF Planting
  <2> QED BY <2>2, <2>3 DEF Side
<1>6. ASSUME NEW p \in Nodes, NEW side \in Side
      PROVE  Planting(sub)[Kid(p, side)] = sub[Kid(p, side)] \cap Nodes
  <2>1. /\ Kid(p, side) \in Child
        /\ Kid(p, side) # Kid(in_next, "less") /\ Kid(p, side) # Kid(in_next, "greater")
    BY PlantFacts, NodeFacts DEF Plants, Side
  <2> QED BY <2>1 DEF Planting
<1> QED BY <1>3, <1>5, <1>6

(* The order holds of the new root too.                                    *)
LEMMA PlantInOrder ==
  ASSUME FinderInv, Plants, NEW sub \in [Child -> SUBSET Nat], InOrder(sub),
         NEW new, new = Planting(sub)
  PROVE  InOrder(new)'
<1>1. ASSUME NEW p \in Nodes', NEW y \in Nodes', NEW side \in Side, y \in new[Kid(p, side)]
      PROVE  y < p /\ OnSide(side, y, p, Reach')
  <2>1. y < p /\ OnSide(side, y, p, Reach)
    <3>1. CASE p = in_next
      <4>1. y \in Nodes /\ OnSide(side, y, p, Reach)
        BY <1>1, <3>1, PlantingIs
      <4> QED BY <3>1, <4>1, NodeFacts DEF Plants
    <3>2. CASE p \in Nodes
      BY <1>1, <3>2, PlantingIs DEF InOrder
    <3> QED BY <3>1, <3>2, PlantFacts
  <2> QED BY <2>1, PlantFacts, OnSideFewer
<1>2. ASSUME NEW p \in Nodes', NEW y \in Nodes', NEW side \in Side, y \in new[Kid(p, side)']
      PROVE  y < p /\ OnSide(side, y, p, Reach)'
  <2>1. p \in Int
    BY NodeFacts, PlantFacts DEF Plants
  <2>2. y < p /\ OnSide(side, y, p, Reach')
    BY <1>1, <1>2, <2>1, PlantFacts
  <2>3. UNCHANGED data
    BY DEF Plants
  <2> QED BY <2>2, <2>3 DEF OnSide, NotAfter, Agree
<1> QED BY <1>2 DEF InOrder

(* What is below a node found there is below it still.                     *)
LEMMA PlantFamily ==
  ASSUME FinderInv, Plants, NEW sub \in [Child -> SUBSET Nat],
         NEW new, new = Planting(sub), NEW x \in Nodes
  PROVE  Family(new, x) \subseteq Family(sub, x) \cap Nodes
<1>1. /\ new[Kid(x, "less")] = sub[Kid(x, "less")] \cap Nodes
      /\ new[Kid(x, "greater")] = sub[Kid(x, "greater")] \cap Nodes
  BY PlantingIs DEF Side
<1> QED BY <1>1 DEF Family

(* So the children are in order that were before, and those the walk fills *)
(* or that are none.                                                       *)
LEMMA PlantContains ==
  ASSUME FinderInv, Plants, NEW sub \in [Child -> SUBSET Nat], Ordered(sub),
         NEW new, new = Planting(sub),
         \A c \in Child : \/ child_tab'[c] = Slid(child_tab)[c]
                          \/ child_tab'[c] = INITVAL,
         \A side \in Side : \/ Kid(in_next, side) \in Pending'
                            \/ child_tab'[Kid(in_next, side)] = INITVAL
  PROVE  Contains(new)'
<1>1. /\ kind = "bt" /\ search.pc = "ready" /\ in_base_offset' = Base
      /\ Pending = {} /\ in_base_offset \in Nat /\ child_tab \in [Child -> Entry]
      /\ in_next \in Nat
  BY PlantFacts DEF Plants, FinderInv, TypesHold, FamilyTypeOK
<1>2. ASSUME NEW p \in Nodes', NEW side \in Side, Kid(p, side) \notin Pending',
             Base + child_tab'[Kid(p, side)] \in Nodes'
      PROVE  /\ Base + child_tab'[Kid(p, side)] \in Int
             /\ Family(new, Base + child_tab'[Kid(p, side)]) \cap Nodes' \subseteq new[Kid(p, side)]
  <2> DEFINE c == Kid(p, side)
             x == Base + child_tab'[c]
  <2>1. child_tab'[c] # INITVAL
    BY <1>2, PlantFacts
  <2>2. p \in Nodes
    BY <1>2, <2>1, PlantFacts
  <2>3. c \in Child /\ p \in Int
    BY <1>1, <2>2, NodeFacts
  <2>4. child_tab'[c] = Slid(child_tab)[c]
    <3> HIDE DEF c
    <3> QED BY <2>1, <2>3
  <2>5. x = ChildAt(c)
    <3> HIDE DEF c
    <3>1. /\ Slid(child_tab)[c] # INITVAL
          /\ Base + Slid(child_tab)[c] = in_base_offset + child_tab[c]
      BY <1>1, <2>1, <2>3, <2>4, SlidMoves
    <3> QED BY <2>4, <3>1 DEF ChildAt
  <2>6. x # in_next
    <3>1. Slot(p - in_base_offset) \in linked
      <4>1. p # Searched
        BY <2>2, PlantFacts
      <4> QED BY <2>2, <4>1 DEF Nodes
    <3>2. Slid(child_tab)[c] # INITVAL => Base + Slid(child_tab)[c] + 1 < in_next
      BY <1>1, <3>1, TreesSlide DEF Kid
    <3>3. x \in Int /\ x + 1 < in_next
      <4>1. x \in Int
        <5>1. child_tab[c] \in Int
          <6>1. child_tab[c] \in Entry
            <7> HIDE DEF c
            <7> QED BY <1>1, <2>3
          <6> QED BY <6>1 DEF Entry
        <5> HIDE DEF c, x
        <5> QED BY <1>1, <2>5, <5>1 DEF ChildAt
      <4> QED BY <2>1, <2>4, <3>2, <4>1
    <3> HIDE DEF x
    <3> QED BY <1>1, <3>3
  <2>7. x \in Nodes
    BY <1>2, <2>6, PlantFacts
  <2>8. Family(sub, x) \cap Nodes \subseteq sub[c]
    <3>1. ChildAt(c) \in Nodes /\ c \notin Pending
      BY <1>1, <2>5, <2>7
    <3> QED BY <2>2, <2>5, <3>1 DEF Ordered, Contains
  <2>9. Family(new, x) \subseteq Family(sub, x) \cap Nodes
    BY <2>7, PlantFamily
  <2>10. new[c] = sub[c] \cap Nodes
    BY <2>2, PlantingIs
  <2>11. x \in Int
    BY <1>1, <2>7, NodeFacts
  <2> QED BY <2>8, <2>9, <2>10, <2>11
<1>3. ASSUME NEW p \in Nodes', NEW side \in Side,
             Kid(p, side)' \notin Pending', ChildAt(Kid(p, side))' \in Nodes'
      PROVE  Family(new, ChildAt(Kid(p, side)))' \cap Nodes' \subseteq new[Kid(p, side)']
  <2> DEFINE x == Base + child_tab'[Kid(p, side)]
  <2>1. p \in Int
    BY <1>1, NodeFacts, PlantFacts
  <2>2. Kid(p, side)' = Kid(p, side)
    BY <2>1, PlantFacts
  <2>3. ChildAt(Kid(p, side))' = x
    BY <1>1, <2>2 DEF ChildAt
  <2>4. x \in Int /\ Family(new, x) \cap Nodes' \subseteq new[Kid(p, side)]
    BY <1>2, <1>3, <2>2, <2>3
  <2>5. Family(new, ChildAt(Kid(p, side)))' = Family(new, x)
    <3>1. \A s : Kid(x, s) = <<Slot(x - Base), s>>
      <4>1. Slot(x - in_base_offset) = Slot(x - Base)
        BY <2>4, PlantFacts
      <4> QED BY <4>1 DEF Kid
    <3> QED BY <1>1, <2>3, <3>1 DEF Family, Kid, Slot
  <2> QED BY <2>2, <2>4, <2>5
<1> QED BY <1>3 DEF Contains

(* bt.rs: advance_one_byte, up to the root.                                *)
LEMMA AdvanceOrdered ==
  ASSUME FinderInv, TreesOrdered, kind = "bt", UNCHANGED <<kind, htVars>>, Remaining > 0,
         NEW record \in BOOLEAN, BtAdvance(record)
  PROVE  TreesOrdered'
<1> DEFINE max_len == AtMost(Remaining, MAX_MATCH_LEN)
           nice_len == AtMost(walk.nice_match, max_len)
           limit == IF record THEN max_len ELSE nice_len
           node4 == Slid(hash4_tab)[next_hashes.long]
           own == {LessThan(CurPos), GreaterThan(CurPos)}
<1>1. /\ in_base_offset' = Base /\ in_next' = in_next + 1 /\ UNCHANGED data
      /\ search.pc = "ready"
  BY DEF BtAdvance
<1>2. /\ in_next \in Nat /\ Len(data) \in Nat /\ REQUIRED_NBYTES \in Nat
      /\ Remaining = Len(data) - in_next /\ Remaining \in Nat
      /\ REQUIRED_NBYTES <= MAX_MATCH_LEN /\ MAX_MATCH_LEN \in Nat
      /\ max_len < REQUIRED_NBYTES <=> Remaining < REQUIRED_NBYTES
      /\ walk \in Walks /\ walk.nice_match \in NiceLens
      /\ walk.nice_match \in Nat
  <2>1. /\ in_next \in Nat /\ in_next <= Len(data) /\ Len(data) \in Nat
        /\ walk \in Walks /\ walk.nice_match \in REQUIRED_NBYTES .. MAX_MATCH_LEN
        /\ walk.nice_match \in NiceLens
        /\ REQUIRED_NBYTES \in Nat /\ MAX_MATCH_LEN \in Nat
    BY Basics, MatchAssumption, FamilyAssumption DEF FinderInv, TypesHold, FamilyTypeOK
  <2>2. Remaining = Len(data) - in_next
    BY DEF Remaining
  <2> QED BY <2>1, <2>2 DEF AtMost
<1>3. CASE max_len < REQUIRED_NBYTES
  <2>1. search' = search
    BY <1>3, Zenon DEF BtAdvance
  <2>2. ~(Walking')
    BY <1>1, <2>1 DEF Walking
  <2>3. ~(REQUIRED_NBYTES <= Remaining')
    <3>1. Remaining' = Len(data) - (in_next + 1)
      BY <1>1 DEF Remaining
    <3>2. Remaining < REQUIRED_NBYTES
      BY <1>2, <1>3
    <3> QED BY <1>2, <3>1, <3>2
  <2> QED BY <2>2, <2>3 DEF TreesOrdered
<1>4. CASE ~(max_len < REQUIRED_NBYTES)
  <2>1. \/ /\ Live(node4, CurPos)
           /\ search' = [pc |-> "tree", node |-> node4, cur_pos |-> CurPos, max |-> limit,
                         nice |-> nice_len, depth |-> DEPTH_LIMIT, left |-> 0]
           /\ walk' = [AtRoot(walk.nice_match) EXCEPT
                         !.record = record,
                         !.pending_lt = LessThan(CurPos),
                         !.pending_gt = GreaterThan(CurPos)]
           /\ child_tab' = Slid(child_tab)
           /\ linked' = linked
        \/ /\ child_tab' = [c \in Child |-> IF c \in own THEN INITVAL ELSE Slid(child_tab)[c]]
           /\ WalkOver(Slot(CurPos))
    <3>1. CASE Live(node4, CurPos)
      BY <1>4, <3>1, Zenon DEF BtAdvance
    <3>2. CASE ~Live(node4, CurPos)
      BY <1>4, <3>2, Zenon DEF BtAdvance
    <3> QED BY <3>1, <3>2
  <2>2. PICK sub \in [Child -> SUBSET Nat] : Ordered(sub)
    BY <1>2, <1>4 DEF TreesOrdered
  <2>3. /\ walk'.nice_match = walk.nice_match
        /\ linked' \subseteq linked \cup {Slot(CurPos)}
        /\ Walking' => search'.cur_pos = CurPos
    <3>1. CASE WalkOver(Slot(CurPos))
      BY <3>1 DEF WalkOver, AtRoot, Walking, Ready
    <3>2. CASE ~WalkOver(Slot(CurPos))
      <4> HIDE DEF max_len, nice_len, limit, node4, own
      <4>1. /\ search'.cur_pos = CurPos /\ linked' = linked
            /\ walk' = [AtRoot(walk.nice_match) EXCEPT
                          !.record = record,
                          !.pending_lt = LessThan(CurPos),
                          !.pending_gt = GreaterThan(CurPos)]
        BY <2>1, <3>2
      <4> QED BY <4>1 DEF AtRoot
    <3> QED BY <3>1, <3>2
  <2>4. /\ in_next \in Nat /\ Base \in Nat /\ CurPos \in Nat /\ in_next = Base + CurPos
        /\ in_base_offset \in Nat
    BY <1>1, Basics, BaseIsPlaced
  <2>5. Plants
    <3>1. Walking' => At' = in_next
      BY <1>1, <2>3, <2>4 DEF At
    <3>2. REQUIRED_NBYTES <= Remaining
      BY <1>2, <1>4
    <3> QED BY <1>1, <2>3, <3>1, <3>2 DEF Plants
  <2>6. PICK new \in [Child -> SUBSET Nat] : new = Planting(sub)
    BY <2>5, PlantingIs
  <2>7. /\ LessThan(CurPos) = Kid(in_next, "less")
        /\ GreaterThan(CurPos) = Kid(in_next, "greater")
    <3>1. in_next \in Int /\ in_next - Base = CurPos
      BY <2>4
    <3>2. Slot(in_next - in_base_offset) = Slot(CurPos)
      BY <3>1, SlotsStay, Zenon
    <3> QED BY <3>2, Zenon DEF LessThan, GreaterThan, Kid
  <2>8. InOrder(new)'
    BY <2>2, <2>5, <2>6, PlantInOrder DEF Ordered
  <2>9. /\ \A c \in Child : child_tab'[c] = Slid(child_tab)[c] \/ child_tab'[c] = INITVAL
        /\ \A side \in Side : \/ Kid(in_next, side) \in Pending'
                              \/ child_tab'[Kid(in_next, side)] = INITVAL
    <3> HIDE DEF max_len, nice_len, limit, node4, INITVAL
    <3>1. CASE /\ search'.pc = "tree" /\ child_tab' = Slid(child_tab)
               /\ walk'.pending_lt = LessThan(CurPos) /\ walk'.pending_gt = GreaterThan(CurPos)
      <4>1. Pending' = {Kid(in_next, "less"), Kid(in_next, "greater")}
        BY <2>7, <3>1 DEF Pending, Walking
      <4> QED BY <3>1, <4>1 DEF Side
    <3>2. CASE child_tab' = [c \in Child |-> IF c \in own THEN INITVAL ELSE Slid(child_tab)[c]]
      <4>1. \A side \in Side : Kid(in_next, side) \in own /\ Kid(in_next, side) \in Child
        BY <2>5, <2>7, PlantFacts DEF Side
      <4> HIDE DEF own
      <4> QED BY <3>2, <4>1
    <3>3. walk' = [AtRoot(walk.nice_match) EXCEPT
                     !.record = record,
                     !.pending_lt = LessThan(CurPos),
                     !.pending_gt = GreaterThan(CurPos)]
            => walk'.pending_lt = LessThan(CurPos) /\ walk'.pending_gt = GreaterThan(CurPos)
      BY DEF AtRoot
    <3> QED BY <2>1, <3>1, <3>2, <3>3
  <2>10. Contains(new)'
    BY <2>2, <2>5, <2>6, <2>9, PlantContains
  <2>11. ASSUME Walking' PROVE WalkOrder(new)'
    <3>1. /\ Live(node4, CurPos)
          /\ search' = [pc |-> "tree", node |-> node4, cur_pos |-> CurPos, max |-> limit,
                        nice |-> nice_len, depth |-> DEPTH_LIMIT, left |-> 0]
          /\ walk' = [AtRoot(walk.nice_match) EXCEPT
                        !.record = record,
                        !.pending_lt = LessThan(CurPos),
                        !.pending_gt = GreaterThan(CurPos)]
          /\ linked' = linked
      <4>1. ~WalkOver(Slot(CurPos))
        BY <2>11 DEF WalkOver, Walking, Ready
      <4> HIDE DEF max_len, nice_len, limit, node4, own
      <4> QED BY <2>1, <4>1
    <3>2. /\ search'.pc = "tree" /\ search'.node = node4 /\ search'.nice = nice_len
          /\ walk'.len = 0 /\ walk'.best_lt = 0 /\ walk'.best_gt = 0
          /\ walk'.pending_lt = Kid(in_next, "less")
          /\ walk'.pending_gt = Kid(in_next, "greater")
      <4> HIDE DEF max_len, nice_len, limit, node4, own
      <4> QED BY <2>7, <3>1 DEF AtRoot
    <3>3. At' = in_next /\ Reach' = Reach /\ Reach \in Nat /\ 0 < Reach
      <4>1. LONG_LEN \in Nat /\ LONG_LEN < REQUIRED_NBYTES
        BY MatchAssumption
      <4>2. Reach \in Nat /\ REQUIRED_NBYTES <= Reach /\ Reach' = Reach
        BY <2>5, <2>11, PlantFacts
      <4> QED BY <1>2, <2>5, <2>11, <4>1, <4>2 DEF Plants
    <3>4. search'.nice = Reach'
      <4>1. Searched = in_next
        BY <2>5, PlantFacts
      <4>2. Reach = nice_len
        BY <4>1 DEF Reach, Remaining
      <4> QED BY <3>2, <3>3, <4>2
    <3>5. Base + node4 \in Nodes /\ Candidate' = Base + node4
      <4>1. node4 \in Entry /\ in_next - in_base_offset <= WINDOW_SIZE
        BY <1>1, TreesSlide, Basics DEF FinderInv, PlacesHold
      <4>2. node4 # INITVAL /\ node4 \in Int
        BY <2>4, <3>1, <4>1, LiveIsEntry DEF Entry
      <4>3. /\ Base + node4 >= 0 /\ Base + node4 < in_next
            /\ Slot(node4) \in linked
        BY <1>1, <4>2, TreesSlide, Basics
      <4>4. node4 > CurPos - WINDOW_SIZE
        BY <3>1 DEF Live
      <4> HIDE DEF node4
      <4>5. PICK x : x = Base + node4
        OBVIOUS
      <4>6. x \in Int /\ x - Base = node4
        BY <2>4, <4>2, <4>5
      <4>7. Slot(x - in_base_offset) \in linked
        <5>1. Slot(x - in_base_offset) = Slot(node4)
          BY <4>6, SlotsStay, Zenon
        <5> QED BY <4>3, <5>1, Zenon
      <4>8. x \in 0 .. (in_next - 1) /\ in_next - WINDOW_SIZE < x
        BY <2>4, <4>2, <4>3, <4>4, <4>5, MatchAssumption
      <4>9. Searched = in_next
        BY <2>5, PlantFacts
      <4>10. x \in Nodes
        BY <4>7, <4>8, <4>9, Zenon DEF Nodes
      <4>11. Candidate' = x
        BY <1>1, <3>2, <4>5 DEF Candidate
      <4> QED BY <4>5, <4>10, <4>11
    <3> HIDE DEF max_len, nice_len, limit, node4, own
    <3>6. ASSUME NEW y \in Nodes' , y \in Family(new, Candidate)'
          PROVE  y \in Nodes
      <4>1. Family(new, Base + node4) \subseteq Nodes
        BY <2>5, <2>6, <3>5, PlantFamily
      <4>2. Family(new, Candidate)' = Family(new, Base + node4)
        <5>1. Base + node4 \in Int
          BY <2>5, <3>5, NodeFacts DEF Plants
        <5>2. PICK x : x = Base + node4
          OBVIOUS
        <5>3. \A s : Kid(x, s)' = Kid(x, s)
          BY <2>5, <5>1, <5>2, PlantFacts
        <5>4. Family(new, x)' = Family(new, x)
          BY <5>3 DEF Family
        <5>5. Candidate' = x
          BY <3>5, <5>2
        <5> QED BY <5>2, <5>4, <5>5 DEF Family
      <4> QED BY <3>6, <4>1, <4>2
    <3>7. ASSUME NEW y \in Nodes PROVE Belongs(new, y)'
      <4>1. y \in Nat /\ y < in_next
        BY <2>5, NodeFacts DEF Plants
      <4>2. \A s \in Side : Kid(y, s)' = Kid(y, s)
        BY <2>5, <4>1, PlantFacts
      <4>3. Pending' = {Kid(in_next, "less"), Kid(in_next, "greater")}
        BY <2>11, <3>2 DEF Pending
      <4>4. \A s \in Side : Kid(y, s)' \notin Pending'
        BY <2>5, <4>2, <4>3, PlantFacts DEF Side
      <4>5. ASSUME NEW s \in Side, OnSide(s, y, At, Reach)'
            PROVE  y \in new[Place(s)'] /\ Agree(At, y, Best(s))'
        <5>1. Place(s)' = Kid(in_next, s) /\ Best(s)' = 0
          BY <3>2 DEF Place, Best, Side
        <5>2. OnSide(s, y, in_next, Reach)
          BY <1>1, <3>3, <4>5 DEF OnSide, NotAfter, Agree
        <5>3. y \in new[Kid(in_next, s)]
          BY <2>5, <2>6, <5>2, PlantingIs
        <5> QED BY <5>1, <5>3 DEF Agree
      <4> QED BY <3>3, <4>1, <4>4, <4>5 DEF Belongs
    <3>8. Agree(At, Candidate, walk.len)'
      BY <3>2 DEF Agree
    <3>9. Kid(in_next, "less") # Kid(in_next, "greater")
      BY DEF Kid
    <3> QED BY <3>2, <3>3, <3>4, <3>6, <3>7, <3>8, <3>9 DEF WalkOrder
  <2>12. WalkOrder(new)'
    BY <2>11 DEF WalkOrder
  <2> QED BY <2>6, <2>8, <2>10, <2>12 DEF TreesOrdered, Ordered
<1> QED BY <1>3, <1>4


-------------------------------------------------------------------------------

(* init(): no position is in a tree.                                       *)
LEMMA NoNodesOrdered == in_next = 0 /\ ~Walking => TreesOrdered
<1> SUFFICES ASSUME in_next = 0, ~Walking PROVE TreesOrdered
  OBVIOUS
<1>1. Nodes = {}
  BY DEF Nodes
<1>2. PICK sub \in [Child -> SUBSET Nat] : sub = [c \in Child |-> {}]
  OBVIOUS
<1>3. Ordered(sub)
  BY <1>1 DEF Ordered, InOrder, Contains, WalkOrder
<1> QED BY <1>3 DEF TreesOrdered

(* Every step keeps the trees in order.                                    *)
LEMMA StepOrdered == FinderInv /\ TreesOrdered /\ [FamilyNext]_familyVars => TreesOrdered'
<1> SUFFICES ASSUME FinderInv, TreesOrdered, [FamilyNext]_familyVars PROVE TreesOrdered'
  OBVIOUS
<1>1. kind' = kind
  BY Zenon DEF FamilyNext, PiecewiseNext, Next, Feed, FirstHashes, Search, Follow, PassOver, Skip,
         StartOver, StartWhole, BlockHash, SearchLimited, SkipLimited, PassLimited,
         Advance, Walk, OnlyHt, OnlyHc, OnlyLimited, OnlyBt, familyVars, finderVars
<1>2. CASE kind # "bt"
  BY <1>1, <1>2 DEF TreesOrdered
<1>3. CASE UNCHANGED familyVars
  <2>1. UNCHANGED <<kind, data, in_next, in_base_offset, search, linked, child_tab, walk>>
    BY <1>3 DEF familyVars, finderVars, windowVars, htVars, hcVars, btVars
  <2>2. /\ At' = At /\ Candidate' = Candidate /\ (Walking' <=> Walking)
        /\ Remaining' = Remaining /\ (Agreeing' <=> Agreeing)
    BY <2>1 DEF At, Candidate, Walking, Remaining, Agreeing, Here, Node
  <2>3. Nodes' = Nodes /\ Reach' = Reach /\ Pending' = Pending
    BY <2>1, <2>2 DEF Nodes, Reach, Pending, Searched
  <2>4. ASSUME NEW sub, Ordered(sub) PROVE Ordered(sub)'
    <3>1. InOrder(sub)'
      BY <2>1, <2>3, <2>4 DEF Ordered, InOrder, OnSide, NotAfter, Agree, Kid
    <3>2. Contains(sub)'
      BY <2>1, <2>3, <2>4 DEF Ordered, Contains, Family, ChildAt, Kid
    <3>3. \A y : Belongs(sub, y)' <=> Belongs(sub, y)
      BY <2>1, <2>2, <2>3 DEF Belongs, OnSide, NotAfter, Agree, Place, Best, Kid
    <3>4. WalkOrder(sub)'
      BY <2>1, <2>2, <2>3, <2>4, <3>3 DEF Ordered, WalkOrder, Family, Agree, Kid
    <3> QED BY <3>1, <3>2, <3>4 DEF Ordered
  <2> QED BY <2>1, <2>2, <2>4 DEF TreesOrdered
<1>4. CASE kind = "bt" /\ FamilyNext
  <2>1. \/ StartWhole
        \/ Advance
        \/ Walk
    BY <1>4, Zenon DEF FamilyNext, PiecewiseNext, BlockHash, SearchLimited, SkipLimited, PassLimited,
           OnlyLimited, Limited
  <2>2. CASE StartWhole
    <3>1. in_next' = 0 /\ ~(Walking')
      BY <2>2 DEF StartWhole, AtRest, Walking
    <3>2. (in_next = 0 /\ ~Walking => TreesOrdered)'
      BY NoNodesOrdered, PTL
    <3> QED BY <3>1, <3>2
  <2>3. CASE Advance
    BY <1>4, <2>3, AdvanceOrdered DEF Advance, OnlyBt
  <2>4. CASE Walk
    BY <2>4, CompareOrdered, DescendOrdered DEF Walk, OnlyBt
  <2> QED BY <2>1, <2>2, <2>3, <2>4
<1> QED BY <1>2, <1>3, <1>4

(* What a walk takes to agree with a node agrees in ordered trees.         *)
LEMMA OrderSuffices == FinderInv /\ TreesOrdered => PrefixIsKnown
<1> SUFFICES ASSUME FinderInv, TreesOrdered, Walking PROVE Agree(Here, Node, walk.len)
  BY DEF PrefixIsKnown, Walking
<1>1. kind = "bt" /\ Here = At /\ Node = Candidate
  BY WalkFacts DEF Here, Node, At, Candidate
<1>2. Agree(At, Candidate, walk.len)
  BY <1>1 DEF TreesOrdered, Ordered, WalkOrder
<1> QED BY <1>1, <1>2

(* What a search of the trees takes to agree with its next node, though it *)
(* never compared them, does agree, however positions are inserted, passed *)
(* over and slid out of the window (bt.rs 365-412).                        *)
THEOREM PrefixStaysKnown == FamilySpec => []PrefixIsKnown
<1>1. FamilyInit => TreesOrdered
  <2>1. FamilyInit => in_next = 0 /\ ~Walking
    BY DEF FamilyInit, NewFinder, Walking, Ready
  <2> QED BY <2>1, NoNodesOrdered
<1>2. FinderInv /\ TreesOrdered /\ [FamilyNext]_familyVars => TreesOrdered'
  BY StepOrdered
<1>3. FinderInv /\ TreesOrdered => PrefixIsKnown
  BY OrderSuffices
<1> QED BY <1>1, <1>2, <1>3, FinderInvHolds, PTL DEF FamilySpec

(* So every match that any finder returns can be copied: it starts in the  *)
(* input, at most a window back, and its bytes are there.                  *)
THEOREM EveryMatchIsReal == FamilySpec => []MatchIsReal
BY PrefixStaysKnown, MatchesAreReal, PTL
===============================================================================

---------------------------- MODULE HuffmanCode ----------------------------
(***************************************************************************)
(* Construction of length-limited canonical Huffman codes: the fast        *)
(* heuristic of compress/huffman.rs, the optimal package merge of          *)
(* compress/katajainen.rs, and the two frequency smoothings.  Symbols are  *)
(* 0 .. n-1; frequencies, lengths and codewords are functions on them.     *)
(***************************************************************************)
EXTENDS Integers, Sequences, FiniteSets, TLC, SequencesExt

(* The element of a singleton.  Only({F(x) : x \in {e}}) is F(e), with e   *)
(* evaluated first: a long iteration then nests no pending arguments.      *)
Only(S) == CHOOSE x \in S : TRUE

(* f[lo] + ... + f[hi], nested only as deep as its logarithm.              *)
SumIn(f, lo, hi) ==
  LET sum[a \in lo .. hi + 1, b \in lo - 1 .. hi] ==
        LET mid == (a + b) \div 2
        IN  CASE a > b -> 0
              [] a = b -> f[a]
              [] a < b -> sum[a, mid] + sum[mid + 1, b]
  IN  sum[lo, hi]

Lesser(a, b) == IF a < b THEN a ELSE b

NumSyms(f) == Cardinality(DOMAIN f)

(* sort_symbols: a counting sort in which every frequency of n-1 or more   *)
(* shares the last bucket, which alone is then sorted by frequency.        *)
SortSymbols(freqs) ==
  LET n == NumSyms(freqs)
      Bucket(b) == SelectSeq([k \in 1 .. n |-> k - 1],
                             LAMBDA s : freqs[s] # 0 /\ Lesser(freqs[s], n - 1) = b)
      Packed(s, t) == \/ freqs[s] < freqs[t]
                      \/ (freqs[s] = freqs[t] /\ s < t)
  IN  FlattenSeq([b \in 1 .. n - 1 |-> IF b = n - 1 THEN SortSeq(Bucket(b), Packed)
                                       ELSE Bucket(b)])

---------------------------------------------------------------------------
(* build_tree: leaves in increasing order of weight; the inner nodes are   *)
(* numbered from 1 in the order they are made, the last being the root.    *)

(* One inner node from the two lightest of the unused leaves and nodes.    *)
Merge(leaf, t) ==
  LET k == Len(leaf)
      e == Len(t.node)
      Two(parents, di, db, weight) ==
        [i |-> t.i + di, b |-> t.b + db, node |-> Append(t.node, weight),
         parent |-> [v \in DOMAIN t.parent |-> IF v \in parents THEN e + 1 ELSE t.parent[v]]]
  IN  IF t.i < k /\ (t.b > e \/ leaf[t.i + 1] <= t.node[t.b])
      THEN Two({}, 2, 0, leaf[t.i] + leaf[t.i + 1])
      ELSE IF t.b + 1 <= e /\ (t.i > k \/ t.node[t.b + 1] < leaf[t.i])
      THEN Two({t.b, t.b + 1}, 0, 2, t.node[t.b] + t.node[t.b + 1])
      ELSE Two({t.b}, 1, 1, leaf[t.i] + t.node[t.b])

BuildTree(leaf) ==
  LET k == Len(leaf)
      made[m \in 0 .. k - 1] ==
        IF m = 0 THEN [i |-> 1, b |-> 1, node |-> <<>>, parent |-> [v \in 1 .. k - 1 |-> 0]]
        ELSE Merge(leaf, made[m - 1])
  IN  made[k - 1].parent

(* compute_length_counts: every inner node below the root turns a codeword *)
(* of its depth into two longer ones; one that is too deep takes the       *)
(* longest codeword that may still grow.                                   *)
LengthCounts(parent, maxLen) ==
  LET root == Len(parent)
      below[m \in 1 .. root] ==
        IF m = root THEN [depth |-> [v \in 1 .. root |-> 0],
                          counts |-> [l \in 1 .. maxLen |-> IF l = 1 THEN 2 ELSE 0]]
        ELSE LET st == below[m + 1]
                 deep == st.depth[parent[m]] + 1
                 d == IF deep < maxLen THEN deep
                      ELSE CHOOSE l \in 1 .. maxLen - 1 :
                             /\ st.counts[l] # 0
                             /\ \A j \in l + 1 .. maxLen - 1 : st.counts[j] = 0
             IN  [depth |-> [st.depth EXCEPT ![m] = deep],
                  counts |-> [st.counts EXCEPT ![d] = @ - 1, ![d + 1] = @ + 2]]
  IN  below[1].counts

(* gen_codewords, first half: the longest codewords go to the rarest.      *)
AssignLengths(sorted, counts, maxLen, n) ==
  LET longer[l \in 1 .. maxLen + 1] == IF l > maxLen THEN 0 ELSE counts[l] + longer[l + 1]
      LenOfRank(r) == CHOOSE l \in 1 .. maxLen : longer[l + 1] < r /\ r <= longer[l]
      rank == [s \in 0 .. n - 1 |-> SelectInSeq(sorted, LAMBDA t : t = s)]
  IN  [s \in 0 .. n - 1 |-> IF rank[s] = 0 THEN 0 ELSE LenOfRank(rank[s])]

---------------------------------------------------------------------------
(* Codewords are numbers whose lowest bit is the first one sent.           *)

Bit(w, b) == (w \div 2^b) % 2

ReverseCodeword(w, len) ==
  LET rev[b \in 0 .. len] == IF b = 0 THEN 0 ELSE 2 * rev[b - 1] + Bit(w, b - 1)
  IN  rev[len]

LenCount(lens, l) == Cardinality({s \in DOMAIN lens : lens[s] = l})

(* canonical_codewords, and the second half of gen_codewords.              *)
CanonicalCodewords(lens, maxLen) ==
  LET next[l \in 1 .. maxLen] == IF l = 1 THEN 0 ELSE 2 * (next[l - 1] + LenCount(lens, l - 1))
      Before(s) == Cardinality({t \in DOMAIN lens : t < s /\ lens[t] = lens[s]})
  IN  [s \in DOMAIN lens |-> IF lens[s] = 0 THEN 0
                             ELSE ReverseCodeword(next[lens[s]] + Before(s), lens[s])]

(* Fewer than two used symbols: symbol 0 and another get one-bit codewords. *)
PaddedCode(sym, n) ==
  LET other == IF sym # 0 THEN sym ELSE 1
  IN  [lens |-> [s \in 0 .. n - 1 |-> IF s \in {0, other} THEN 1 ELSE 0],
       codewords |-> [s \in 0 .. n - 1 |-> IF s = other THEN 1 ELSE 0]]

(* The code for the used symbols, sorted by count. *)
CodeOfSorted(sorted, freqs, maxLen) ==
  LET leaf == [k \in DOMAIN sorted |-> freqs[sorted[k]]]
      CodeOf(lens) == [lens |-> lens, codewords |-> CanonicalCodewords(lens, maxLen)]
  IN  IF Len(sorted) < 2
      THEN PaddedCode(IF sorted = <<>> THEN 0 ELSE sorted[1], NumSyms(freqs))
      ELSE CodeOf(AssignLengths(sorted, LengthCounts(BuildTree(leaf), maxLen), maxLen,
                                NumSyms(freqs)))

MakeHuffmanCode(freqs, maxLen) == CodeOfSorted(SortSymbols(freqs), freqs, maxLen)

---------------------------------------------------------------------------
(* Bounded package merge.  A chain is its weight and the leaf counts of    *)
(* its nodes from the last list to the first; a list keeps the two newest. *)

Chain(weight, count, tail) == [weight |-> weight, counts |-> <<count>> \o tail]

Package(lists, j) == lists[j - 1].l0.weight + lists[j - 1].l1.weight

(* A new leaf continues list j: it is lighter than a package of list j-1.  *)
LeafNext(leaf, lists, j) ==
  LET last == Head(lists[j].l1.counts)
  IN  last < Len(leaf) /\ (j = 1 \/ Package(lists, j) > leaf[last + 1])

RECURSIVE BoundaryPM(_, _, _)

BoundaryPM(leaf, lists, j) ==
  LET last == Head(lists[j].l1.counts)
      Add(chain) == [lists EXCEPT ![j] = [l0 |-> lists[j].l1, l1 |-> chain]]
  IN  IF LeafNext(leaf, lists, j)
      THEN Add(Chain(leaf[last + 1], last + 1, Tail(lists[j].l1.counts)))
      ELSE IF j = 1 THEN lists
      ELSE BoundaryPM(leaf,
             BoundaryPM(leaf,
               Add(Chain(Package(lists, j), last, lists[j - 1].l1.counts)), j - 1), j - 1)

(* boundary_pm_final: the last chain needs no weight and no lookahead.     *)
FinalCounts(leaf, lists, j) ==
  LET top == lists[j].l1.counts
  IN  IF LeafNext(leaf, lists, j) THEN <<Head(top) + 1>> \o Tail(top)
      ELSE <<Head(top)>> \o lists[j - 1].l1.counts

(* How many of the leaves, from the heaviest down, have each length.       *)
PackageMerge(leaf, limit) ==
  LET lists == Lesser(Len(leaf) - 1, limit)
      first == [l0 |-> Chain(leaf[1], 1, <<>>), l1 |-> Chain(leaf[2], 2, <<>>)]
      runs[r \in 0 .. 2 * Len(leaf) - 5] ==
        IF r = 0 THEN [j \in 1 .. lists |-> first]
        ELSE Only({BoundaryPM(leaf, before, lists) : before \in {runs[r - 1]}})
  IN  FinalCounts(leaf, runs[2 * Len(leaf) - 5], lists)

(* Lengths from how often each leaf is counted; one or two get one bit.    *)
LengthsOfSorted(sorted, freqs, limit) ==
  LET OfCounts(counts) ==
        [s \in DOMAIN freqs |-> LET v == SelectInSeq(sorted, LAMBDA t : t = s)
                                IN  IF v = 0 THEN 0
                                    ELSE Cardinality({i \in DOMAIN counts : counts[i] >= v})]
  IN  IF Len(sorted) <= 2 THEN [s \in DOMAIN freqs |-> IF freqs[s] # 0 THEN 1 ELSE 0]
      ELSE OfCounts(PackageMerge([k \in DOMAIN sorted |-> freqs[sorted[k]]], limit))

LengthLimitedCodeLengths(freqs, limit) ==
  LengthsOfSorted(SortSeq(SelectSeq([i \in 1 .. NumSyms(freqs) |-> i - 1],
                                    LAMBDA s : freqs[s] # 0),
                          LAMBDA s, t : freqs[s] < freqs[t] \/ (freqs[s] = freqs[t] /\ s < t)),
                  freqs, limit)

CodeOfLengths(lens, maxLen) ==
  LET used == {s \in DOMAIN lens : lens[s] > 0}
  IN  IF Cardinality(used) < 2
      THEN PaddedCode(IF used = {} THEN 0 ELSE CHOOSE s \in used : TRUE, NumSyms(lens))
      ELSE [lens |-> lens, codewords |-> CanonicalCodewords(lens, maxLen)]

MakeHuffmanCodeOptimal(freqs, maxLen) ==
  CodeOfLengths(LengthLimitedCodeLengths(freqs, maxLen), maxLen)

---------------------------------------------------------------------------
(* Smoothing.  Both walk the counts up to the last nonzero one and replace *)
(* some runs by their average, rounded up so that no used symbol is lost.  *)

TrimmedLen(counts) == Cardinality({i \in DOMAIN counts : \E j \in DOMAIN counts :
                                                           j >= i /\ counts[j] # 0})

(* The maximal intervals of 0 .. n-1 in which each i > 0 is joined to i-1. *)
Runs(n, joined) ==
  LET starts == {i \in 0 .. n - 1 : i = 0 \/ ~ joined[i]}
  IN  {i .. Cardinality({e \in 0 .. n - 1 : e <= i \/ \A j \in i + 1 .. e : j \notin starts}) - 1 :
         i \in starts}

SumOver(counts, run) == FoldFunctionOnSet(LAMBDA a, b : a + b, 0, counts, run)

(* Mutant: rounded down, a rare symbol next to unused ones is lost.         *)
AverageUp_Down(counts, run) == SumOver(counts, run) \div Cardinality(run)

AverageUp(counts, run) == (SumOver(counts, run) + Cardinality(run) - 1) \div Cardinality(run)

AverageDown(counts, run) == SumOver(counts, run) \div Cardinality(run)

FillAverage(counts, runs) ==
  [i \in DOMAIN counts |-> IF \E run \in runs : i \in run
                           THEN AverageUp(counts, CHOOSE run \in runs : i \in run)
                           ELSE counts[i]]

Distance(a, b) == IF a < b THEN b - a ELSE a - b

(* optimize_huffman_for_rle: zero runs of 5 and similar nonzero runs of 7. *)
SmoothForRle(counts) ==
  LET n == TrimmedLen(counts)
      Similar(run) == LET avg == AverageDown(counts, run)
                      IN  \A i \in run : Distance(counts[i], avg) <= (avg * 1240) \div 1024
      good == UNION {run \in Runs(n, [i \in 1 .. n - 1 |-> (counts[i - 1] = 0) = (counts[i] = 0)]) :
                       IF \A i \in run : counts[i] = 0 THEN Cardinality(run) >= 5
                       ELSE Cardinality(run) >= 7 /\ Similar(run)}
  IN  FillAverage(counts, {run \in Runs(n, [i \in 1 .. n - 1 |-> {i - 1, i} \subseteq good]) :
                             run \subseteq good})

(* optimize_huffman_for_rle_zop: nonzero runs of 4 whose neighbours differ *)
(* by at most 4.                                                           *)
SmoothForRleZop(counts) ==
  LET n == TrimmedLen(counts)
      close == [i \in 1 .. n - 1 |-> /\ counts[i - 1] # 0 /\ counts[i] # 0
                                     /\ Distance(counts[i - 1], counts[i]) <= 4]
  IN  FillAverage(counts, {run \in Runs(n, close) :
                         /\ Cardinality(run) >= 4
                         /\ \A i \in run : counts[i] # 0})

=============================================================================

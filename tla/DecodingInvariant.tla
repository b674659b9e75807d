-------------------------- MODULE DecodingInvariant --------------------------
(***************************************************************************)
(* What StreamDecompressor knows of its stream, for every stream, every    *)
(* split of input and output, every error of the source and every reset.   *)
(*                                                                         *)
(* DecodingInv relates the decoder to the stream token by token: it has    *)
(* read the first k tokens, for some k, its bit reader stands at the end   *)
(* of token k, its state expects what may follow, and what it produced and *)
(* still owes is what those tokens mean.                                   *)
(*                                                                         *)
(* Order: prefixes and copies; where a stream's tokens lie and what they   *)
(* mean; the bit reader; the invariant; what a step has to show to keep    *)
(* it; the steps that write no output, which read wrapper headers, block   *)
(* headers and code lengths; what a step writes; output that waited for    *)
(* room.  DecodingProofs has the other steps and the theorems.             *)
(***************************************************************************)
EXTENDS StreamProofs, WellFoundedInduction, NaturalsInduction

-------------------------------------------------------------------------------
(* Recursion and induction over 0 .. N.                                    *)

Below == {pair \in Nat \X Nat : pair[1] < pair[2]}

(* A set of naturals has a least member.                                   *)
LEMMA LeastNumber ==
  ASSUME NEW S, S \subseteq Nat, S # {}
  PROVE  \E n \in S : \A m \in S : n <= m
<1>1. IsWellFoundedOn(Below, Nat)
  <2>1. OpToRel(<, Nat) = Below
    BY DEF OpToRel, Below
  <2> QED BY <2>1, NatLessThanWellFounded
<1>2. \A R, U : IsWellFoundedOn(R, U) =>
        \A T : T \subseteq U /\ T # {} => \E n \in T : \A m \in T : <<m, n>> \notin R
  BY WFMin, Zenon
<1>3. PICK n \in S : \A m \in S : <<m, n>> \notin Below
  <2> HIDE DEF Below
  <2> QED BY <1>1, <1>2, Zenon
<1>4. ASSUME NEW m \in S PROVE n <= m
  <2>1. n \in Nat /\ m \in Nat
    OBVIOUS
  <2>2. <<m, n>> \notin Below
    BY <1>3
  <2> QED BY <2>1, <2>2 DEF Below
<1> QED BY <1>4

(* Induction, with the set of the numbers a fact holds of.                 *)
LEMMA InductionUpTo ==
  ASSUME NEW N \in Nat, NEW T, 0 \in T,
         \A k \in 1 .. N : k - 1 \in T => k \in T
  PROVE  0 .. N \subseteq T
<1> SUFFICES ASSUME NEW n \in 0 .. N, n \notin T PROVE FALSE
  OBVIOUS
<1> DEFINE Missing == {k \in 0 .. N : k \notin T}
<1>1. Missing \subseteq Nat /\ Missing # {}
  OBVIOUS
<1>2. PICK m \in Missing : \A k \in Missing : m <= k
  BY <1>1, LeastNumber, Zenon
<1>3. m \in 1 .. N /\ m \notin T
  OBVIOUS
<1>4. m - 1 \in 0 .. N /\ ~(m <= m - 1)
  BY <1>3
<1>5. m - 1 \in T
  BY <1>2, <1>4
<1>6. QED BY <1>3, <1>5

(* g iterates the steps from f0 on.                                        *)
Iterates(g, N, S, f0, step) ==
  /\ g \in [0 .. N -> S]
  /\ g[0] = f0
  /\ \A k \in 1 .. N : g[k] = step[k][g[k - 1]]

LEMMA IterationExists ==
  ASSUME NEW N \in Nat, NEW S, NEW f0 \in S, NEW step \in [1 .. N -> [S -> S]]
  PROVE  \E g : Iterates(g, N, S, f0, step)
<1> DEFINE T == {n \in 0 .. N : \E g : Iterates(g, n, S, f0, step)}
<1>1. 0 \in T
  <2> DEFINE g == [k \in 0 .. 0 |-> f0]
  <2>1. Iterates(g, 0, S, f0, step)
    BY DEF Iterates
  <2> HIDE DEF g
  <2>2. QED BY <2>1
<1>2. ASSUME NEW k \in 1 .. N, k - 1 \in T
      PROVE  k \in T
  <2>1. PICK g : Iterates(g, k - 1, S, f0, step)
    BY <1>2
  <2> DEFINE h == [j \in 0 .. k |-> IF j = k THEN step[k][g[k - 1]] ELSE g[j]]
  <2>2. g[k - 1] \in S /\ step[k] \in [S -> S]
    BY <2>1 DEF Iterates
  <2>3. step[k][g[k - 1]] \in S
    BY <2>2
  <2>4. h \in [0 .. k -> S]
    <3>1. ASSUME NEW j \in 0 .. k, j # k PROVE g[j] \in S
      BY <2>1, <3>1 DEF Iterates
    <3>2. QED BY <2>3, <3>1
  <2>5. h[0] = f0
    BY <2>1 DEF Iterates
  <2>6. ASSUME NEW j \in 1 .. k PROVE h[j] = step[j][h[j - 1]]
    <3>1. CASE j = k
      BY <3>1
    <3>2. CASE j # k
      <4>1. j \in 1 .. (k - 1) /\ j - 1 \in 0 .. k /\ j - 1 # k
        BY <3>2
      <4>2. h[j] = g[j] /\ h[j - 1] = g[j - 1]
        BY <3>2, <4>1
      <4>3. QED BY <2>1, <4>1, <4>2 DEF Iterates
    <3>3. QED BY <3>1, <3>2
  <2> HIDE DEF h
  <2>7. Iterates(h, k, S, f0, step)
    BY <2>4, <2>5, <2>6 DEF Iterates
  <2>8. k \in 0 .. N
    OBVIOUS
  <2>9. QED BY <2>7, <2>8
<1> HIDE DEF T
<1>3. 0 .. N \subseteq T
  BY <1>1, <1>2, InductionUpTo
<1>4. N \in T
  BY <1>3
<1>5. QED BY <1>4 DEF T

-------------------------------------------------------------------------------
(* Prefixes.                                                               *)

(* s is a prefix of t, element by element.                                 *)
Leads(s, t) ==
  /\ Len(s) <= Len(t)
  /\ \A i \in 1 .. Len(s) : t[i] = s[i]

LEMMA PrefixLeads ==
  ASSUME NEW s \in Seq(Byte), NEW t \in Seq(Byte)
  PROVE  IsPrefix(s, t) <=> Leads(s, t)
<1>1. Len(s) \in Nat /\ Len(t) \in Nat
  BY LenProperties
<1>2. SubSeq(s, 1, Len(s)) = s
  BY SubSeqFull
<1>3. ASSUME Len(s) <= Len(t)
      PROVE  /\ SubSeq(t, 1, Len(s)) \in Seq(Byte)
             /\ Len(SubSeq(t, 1, Len(s))) = Len(s)
             /\ \A i \in 1 .. Len(s) : SubSeq(t, 1, Len(s))[i] = t[i]
  <2>1. \A i \in 1 .. Len(s) : t[i] \in Byte
    BY <1>1, <1>3, ElementOfSeq
  <2> DEFINE u == SubSeq(t, 1, Len(s))
  <2>2. /\ u \in Seq(Byte)
        /\ Len(u) = IF 1 <= Len(s) THEN Len(s) - 1 + 1 ELSE 0
        /\ \A i \in 1 .. Len(s) - 1 + 1 : u[i] = t[1 + i - 1]
    BY <1>1, <2>1, SubSeqProperties
  <2> HIDE DEF u
  <2>3. Len(u) = Len(s) /\ \A i \in 1 .. Len(s) : u[i] = t[i]
    BY <1>1, <2>2
  <2>4. QED BY <2>2, <2>3 DEF u
<1>4. ASSUME Len(s) <= Len(t)
      PROVE  SubSeq(t, 1, Len(s)) = s <=> \A i \in 1 .. Len(s) : t[i] = s[i]
  <2> DEFINE u == SubSeq(t, 1, Len(s))
  <2>1. u \in Seq(Byte) /\ Len(u) = Len(s) /\ \A i \in 1 .. Len(s) : u[i] = t[i]
    BY <1>3, <1>4
  <2> HIDE DEF u
  <2>2. (\A i \in 1 .. Len(s) : u[i] = s[i]) => u = s
    BY <2>1, SeqEqual
  <2>3. QED BY <2>1, <2>2 DEF u
<1>5. QED BY <1>2, <1>4 DEF IsPrefix, Leads

LEMMA LeadsReflexive ==
  ASSUME NEW s \in Seq(Byte)
  PROVE  Leads(s, s)
BY LenProperties DEF Leads

LEMMA LeadsTransitive ==
  ASSUME NEW s \in Seq(Byte), NEW t \in Seq(Byte), NEW u \in Seq(Byte),
         Leads(s, t), Leads(t, u)
  PROVE  Leads(s, u)
<1>1. Len(s) \in Nat /\ Len(t) \in Nat /\ Len(u) \in Nat
  BY LenProperties
<1>2. QED BY <1>1 DEF Leads

LEMMA ConcatLeads ==
  ASSUME NEW s \in Seq(Byte), NEW t \in Seq(Byte)
  PROVE  s \o t \in Seq(Byte) /\ Leads(s, s \o t)
<1>1. Len(s) \in Nat /\ Len(t) \in Nat
  BY LenProperties
<1>2. QED BY <1>1, ConcatProperties DEF Leads

LEMMA AppendLeads ==
  ASSUME NEW s \in Seq(Byte), NEW v \in Byte
  PROVE  Append(s, v) \in Seq(Byte) /\ Leads(s, Append(s, v))
<1>1. Len(s) \in Nat
  BY LenProperties
<1>2. QED BY <1>1, AppendProperties DEF Leads

(* A match reads what it writes once it overlaps itself.                   *)
LEMMA CopiedFacts ==
  ASSUME NEW s \in Seq(Byte), NEW offset \in 1 .. Len(s), NEW n \in Nat
  PROVE  /\ Copied(s, offset, n) \in Seq(Byte)
         /\ Len(Copied(s, offset, n)) = Len(s) + n
         /\ Leads(s, Copied(s, offset, n))
         /\ \A i \in 1 .. n : Copied(s, offset, n)[Len(s) + i]
                                = s[Len(s) - offset + ((i - 1) % offset) + 1]
<1> DEFINE f == [i \in 1 .. n |-> s[Len(s) - offset + ((i - 1) % offset) + 1]]
<1>1. Len(s) \in Nat /\ offset \in Nat \ {0} /\ offset <= Len(s)
  BY LenProperties
<1>2. ASSUME NEW i \in 1 .. n
      PROVE  s[Len(s) - offset + ((i - 1) % offset) + 1] \in Byte
  <2>1. (i - 1) % offset \in 0 .. (offset - 1)
    BY <1>1
  <2> DEFINE r == (i - 1) % offset
  <2>2. r \in 0 .. (offset - 1)
    BY <2>1
  <2> HIDE DEF r
  <2>3. Len(s) - offset + r + 1 \in 1 .. Len(s)
    BY <1>1, <2>2
  <2>4. s[Len(s) - offset + r + 1] \in Byte
    BY <2>3, ElementOfSeq
  <2>5. QED BY <2>4 DEF r
<1>3. f \in [1 .. n -> Byte]
  BY <1>2
<1>4. f \in Seq(Byte) /\ Len(f) = n
  BY <1>3, FunctionIsSequence
<1>5. Copied(s, offset, n) = s \o f
  BY DEF Copied
<1>6. \A i \in 1 .. n : f[i] = s[Len(s) - offset + ((i - 1) % offset) + 1]
  OBVIOUS
<1> HIDE DEF f
<1>7. /\ s \o f \in Seq(Byte) /\ Len(s \o f) = Len(s) + n
      /\ \A i \in 1 .. n : (s \o f)[Len(s) + i] = f[i]
  <2>1. \A i \in 1 .. Len(s) + Len(f) :
          (s \o f)[i] = IF i <= Len(s) THEN s[i] ELSE f[i - Len(s)]
    BY <1>4, ConcatProperties
  <2>2. ASSUME NEW i \in 1 .. n PROVE (s \o f)[Len(s) + i] = f[i]
    <3>1. Len(s) + i \in 1 .. Len(s) + Len(f) /\ ~(Len(s) + i <= Len(s))
          /\ Len(s) + i - Len(s) = i
      BY <1>1, <1>4
    <3>2. QED BY <2>1, <3>1
  <2>3. QED BY <1>4, <2>2, ConcatProperties
<1>8. Leads(s, s \o f)
  BY <1>4, ConcatLeads
<1>9. QED BY <1>5, <1>6, <1>7, <1>8

-------------------------------------------------------------------------------
(* Copies.                                                                 *)

LEMMA DivMod ==
  ASSUME NEW a \in Int, NEW b \in Nat \ {0}
  PROVE  /\ a % b \in 0 .. (b - 1)
         /\ a \div b \in Int
         /\ a = b * (a \div b) + (a % b)
OBVIOUS

LEMMA ModUnique ==
  ASSUME NEW b \in Nat \ {0}, NEW q \in Int, NEW r \in 0 .. (b - 1)
  PROVE  (b * q + r) % b = r
OBVIOUS

(* A remainder may be taken early.                                         *)
LEMMA ModOfSum ==
  ASSUME NEW a \in Int, NEW c \in Int, NEW b \in Nat \ {0}
  PROVE  ((a % b) + c) % b = (a + c) % b
<1> DEFINE q == a \div b
           r == a % b
           p == (r + c) \div b
           m == (r + c) % b
<1>1. r \in Int /\ q \in Int /\ a = b * q + r
  BY DivMod
<1> HIDE DEF q, r
<1>2. m \in 0 .. (b - 1) /\ p \in Int /\ r + c = b * p + m
  <2>1. r + c \in Int
    BY <1>1
  <2>2. QED BY <2>1, DivMod
<1> HIDE DEF p, m
<1>3. q + p \in Int /\ (b * (q + p) + m) % b = m
  BY <1>1, <1>2, ModUnique
<1>4. a + c = b * (q + p) + m
  BY <1>1, <1>2
<1>5. (a + c) % b = m
  BY <1>3, <1>4
<1>6. QED BY <1>5 DEF m, r

(* Copying n bytes and then m more is copying n + m.                       *)
LEMMA CopiedComposes ==
  ASSUME NEW s \in Seq(Byte), NEW offset \in 1 .. Len(s), NEW n \in Nat, NEW m \in Nat
  PROVE  Copied(Copied(s, offset, n), offset, m) = Copied(s, offset, n + m)
<1> DEFINE L == Len(s)
           u == Copied(s, offset, n)
           v == Copied(u, offset, m)
           w == Copied(s, offset, n + m)
<1>1. L \in Nat /\ offset \in Nat \ {0} /\ offset <= L
  BY LenProperties
<1>2. /\ u \in Seq(Byte) /\ Len(u) = L + n
      /\ \A i \in 1 .. L : u[i] = s[i]
      /\ \A i \in 1 .. n : u[L + i] = s[L - offset + ((i - 1) % offset) + 1]
  BY CopiedFacts DEF Leads
<1> HIDE DEF u
<1>3. offset \in 1 .. Len(u)
  BY <1>1, <1>2
<1>4. /\ v \in Seq(Byte) /\ Len(v) = L + n + m
      /\ \A i \in 1 .. Len(u) : v[i] = u[i]
      /\ \A i \in 1 .. m : v[Len(u) + i] = u[Len(u) - offset + ((i - 1) % offset) + 1]
  <2>1. /\ v \in Seq(Byte) /\ Len(v) = Len(u) + m /\ Leads(u, v)
        /\ \A i \in 1 .. m : v[Len(u) + i] = u[Len(u) - offset + ((i - 1) % offset) + 1]
    BY <1>2, <1>3, CopiedFacts
  <2>2. QED BY <1>2, <2>1 DEF Leads
<1>5. /\ w \in Seq(Byte) /\ Len(w) = L + n + m
      /\ \A i \in 1 .. L : w[i] = s[i]
      /\ \A i \in 1 .. (n + m) : w[L + i] = s[L - offset + ((i - 1) % offset) + 1]
  <2>1. n + m \in Nat
    OBVIOUS
  <2>2. /\ w \in Seq(Byte) /\ Len(w) = Len(s) + (n + m) /\ Leads(s, w)
        /\ \A i \in 1 .. (n + m) : w[Len(s) + i] = s[Len(s) - offset + ((i - 1) % offset) + 1]
    BY <2>1, CopiedFacts
  <2>3. QED BY <1>1, <2>2 DEF Leads
<1> HIDE DEF v, w
<1>6. ASSUME NEW i \in 1 .. (L + n + m) PROVE v[i] = w[i]
  <2>1. CASE i <= L
    <3>1. i \in 1 .. L /\ i \in 1 .. Len(u)
      BY <1>1, <1>2, <2>1
    <3>2. QED BY <1>2, <1>4, <1>5, <3>1
  <2>2. CASE i > L /\ i <= L + n
    <3> DEFINE j == i - L
    <3>1. j \in 1 .. n /\ j \in 1 .. (n + m) /\ i = L + j /\ i \in 1 .. Len(u)
      BY <1>1, <1>2, <2>2
    <3> HIDE DEF j
    <3>2. QED BY <1>2, <1>4, <1>5, <3>1
  <2>3. CASE i > L + n
    <3> DEFINE j == i - (L + n)
               q == (j - 1) % offset
               b == n - offset + q + 1
    <3>1. j \in 1 .. m /\ n + j \in 1 .. (n + m) /\ i = Len(u) + j /\ i = L + (n + j)
      BY <1>1, <1>2, <2>3
    <3> HIDE DEF j
    <3>2. q \in 0 .. (offset - 1)
      <4>1. j - 1 \in Int
        BY <3>1
      <4>2. QED BY <1>1, <4>1, DivMod
    <3>3. (q + n) % offset = (n + j - 1) % offset
      <4>1. j - 1 \in Int /\ n \in Int
        BY <3>1
      <4>2. (q + n) % offset = (j - 1 + n) % offset
        BY <1>1, <4>1, ModOfSum
      <4>3. j - 1 + n = n + j - 1
        BY <4>1
      <4>4. QED BY <4>2, <4>3
    <3>4. v[i] = u[Len(u) - offset + q + 1]
      BY <1>4, <3>1
    <3> HIDE DEF q
    <3>5. Len(u) - offset + q + 1 = L + b /\ b \in Int
      BY <1>1, <1>2, <3>2
    <3>6. w[i] = s[L - offset + ((n + j - 1) % offset) + 1]
      <4>1. w[L + (n + j)] = s[L - offset + ((n + j - 1) % offset) + 1]
        <5> HIDE DEF L
        <5>1. QED BY <1>5, <3>1
      <4>2. QED BY <3>1, <4>1
    <3>7. CASE b >= 1
      <4>1. b \in 1 .. n
        BY <1>1, <3>2, <3>5, <3>7
      <4>2. u[L + b] = s[L - offset + ((b - 1) % offset) + 1]
        BY <1>2, <4>1
      <4>3. (b - 1) % offset = (q + n) % offset
        <5>1. q + n \in Int /\ b - 1 = (q + n) + offset * (-1)
          BY <1>1, <3>2
        <5> DEFINE c == q + n
                   k == c \div offset
                   r == c % offset
        <5> HIDE DEF c
        <5>2. k \in Int /\ r \in 0 .. (offset - 1) /\ c = offset * k + r
          <6>1. c \in Int
            BY <5>1 DEF c
          <6>2. QED BY <1>1, <6>1, DivMod
        <5> HIDE DEF k, r
        <5>3. k - 1 \in Int /\ (offset * (k - 1) + r) % offset = r
          BY <1>1, <5>2, ModUnique
        <5>4. b - 1 = offset * (k - 1) + r
          BY <1>1, <5>1, <5>2 DEF c
        <5>5. (b - 1) % offset = r
          BY <5>3, <5>4
        <5>6. QED BY <5>5 DEF c, r
      <4>4. QED BY <3>3, <3>4, <3>5, <3>6, <4>2, <4>3
    <3>8. CASE b < 1
      <4>1. L + b \in 1 .. L /\ q + n \in 0 .. (offset - 1)
        BY <1>1, <3>2, <3>5, <3>8
      <4>2. u[L + b] = s[L + b]
        BY <1>2, <4>1
      <4>3. (q + n) % offset = q + n
        BY <1>1, <4>1
      <4>4. L - offset + (q + n) + 1 = L + b
        BY <1>1, <3>2
      <4>5. QED BY <3>3, <3>4, <3>5, <3>6, <4>2, <4>3, <4>4
    <3>9. QED BY <3>5, <3>7, <3>8
  <2>4. QED BY <1>1, <2>1, <2>2, <2>3
<1>7. v = w
  BY <1>4, <1>5, <1>6, SeqEqual
<1>8. QED BY <1>7 DEF u, v, w

(* What a write records, as sequences.                                     *)
LEMMA ExtendedIsConcat ==
  ASSUME NEW s \in Seq(Byte), NEW n \in Nat, NEW f \in [0 .. (n - 1) -> Byte],
         NEW t \in Seq(Byte), Len(t) = n, \A i \in 1 .. n : t[i] = f[i - 1]
  PROVE  Extended(s, f, n) = s \o t
<1>1. Len(s) \in Nat
  BY LenProperties
<1>2. IsExtension(Byte, Extended(s, f, n), s, f, n)
  BY ExtendedFacts
<1>3. /\ s \o t \in Seq(Byte) /\ Len(s \o t) = Len(s) + n
      /\ \A i \in 1 .. Len(s) + n : (s \o t)[i] = IF i <= Len(s) THEN s[i] ELSE t[i - Len(s)]
  BY ConcatProperties
<1> DEFINE e == Extended(s, f, n)
<1>4. /\ e \in Seq(Byte) /\ Len(e) = Len(s) + n
      /\ \A i \in 1 .. Len(s) : e[i] = s[i]
      /\ \A i \in 1 .. n : e[Len(s) + i] = f[i - 1]
  <2>1. /\ e \in Seq(Byte) /\ Len(e) = Len(s) + n
        /\ \A i \in 1 .. Len(s) : e[i] = s[i]
        /\ \A i \in (Len(s) + 1) .. (Len(s) + n) : e[i] = f[i - Len(s) - 1]
    BY <1>2 DEF IsExtension
  <2> HIDE DEF e
  <2>2. ASSUME NEW i \in 1 .. n PROVE e[Len(s) + i] = f[i - 1]
    <3>1. Len(s) + i \in (Len(s) + 1) .. (Len(s) + n) /\ Len(s) + i - Len(s) - 1 = i - 1
      BY <1>1
    <3>2. QED BY <2>1, <3>1
  <2>3. QED BY <2>1, <2>2
<1> HIDE DEF e
<1>5. ASSUME NEW i \in 1 .. Len(s) + n PROVE e[i] = (s \o t)[i]
  <2>1. CASE i <= Len(s)
    BY <1>1, <1>3, <1>4, <2>1
  <2>2. CASE i > Len(s)
    <3>1. i - Len(s) \in 1 .. n /\ Len(s) + (i - Len(s)) = i
      BY <1>1, <2>2
    <3>2. e[i] = f[i - Len(s) - 1]
      BY <1>4, <3>1
    <3>3. QED BY <1>1, <1>3, <2>2, <3>1, <3>2
  <2>3. QED BY <1>1, <2>1, <2>2
<1>6. e = s \o t
  BY <1>3, <1>4, <1>5, SeqEqual
<1>7. QED BY <1>6 DEF e

LEMMA PromiseIsCopy ==
  ASSUME produced \in Seq(Byte), NEW offset \in 1 .. Len(produced), NEW n \in Nat
  PROVE  Extended(produced, PromisedBytes(offset, n), n) = Copied(produced, offset, n)
<1> DEFINE t == [i \in 1 .. n |-> produced[Len(produced) - offset + ((i - 1) % offset) + 1]]
           f == PromisedBytes(offset, n)
<1>1. Len(produced) \in Nat /\ offset \in Nat \ {0} /\ offset <= Len(produced)
  BY LenProperties
<1>2. ASSUME NEW i \in 0 .. (n - 1)
      PROVE  produced[Len(produced) - offset + (i % offset) + 1] \in Byte
  <2> DEFINE r == i % offset
  <2>1. r \in 0 .. (offset - 1)
    BY <1>1
  <2> HIDE DEF r
  <2>2. Len(produced) - offset + r + 1 \in 1 .. Len(produced)
    BY <1>1, <2>1
  <2>3. produced[Len(produced) - offset + r + 1] \in Byte
    BY <2>2, ElementOfSeq
  <2>4. QED BY <2>3 DEF r
<1>3. f \in [0 .. (n - 1) -> Byte]
  BY <1>2 DEF PromisedBytes
<1>4. \A i \in 1 .. n : i - 1 \in 0 .. (n - 1) /\ t[i] = f[i - 1]
  BY DEF PromisedBytes
<1>5. t \in [1 .. n -> Byte]
  BY <1>2, <1>4
<1>6. t \in Seq(Byte) /\ Len(t) = n
  BY <1>5, FunctionIsSequence
<1>7. Copied(produced, offset, n) = produced \o t
  BY DEF Copied
<1> HIDE DEF t, f
<1>8. Extended(produced, f, n) = produced \o t
  BY <1>3, <1>4, <1>6, ExtendedIsConcat
<1>9. QED BY <1>7, <1>8 DEF f

-------------------------------------------------------------------------------
(* Where tokens lie.                                                       *)

LEMMA AlignedFacts ==
  ASSUME NEW b \in Nat
  PROVE  /\ Aligned(b) \in Nat /\ b <= Aligned(b) /\ Aligned(b) <= b + 7
         /\ Aligned(b) % 8 = 0
         /\ b % 8 = 0 => Aligned(b) = b
BY DEF Aligned

(* The start of token k when the one before ends at bit b.                 *)
StartAt(toks, k, b) ==
  IF k <= Len(toks) /\ toks[k].kind \in {"len", "footer"} THEN Aligned(b) ELSE b

LEMMA StartsFacts ==
  ASSUME NEW toks \in Seq(Token)
  PROVE  /\ Starts(toks) \in [1 .. (Len(toks) + 1) -> Nat]
         /\ Starts(toks)[1] = StartAt(toks, 1, 0)
         /\ \A k \in 1 .. Len(toks) :
              Starts(toks)[k + 1]
                = StartAt(toks, k + 1, Starts(toks)[k] + Width(toks[k]))
<1> DEFINE N == Len(toks)
           step == [k \in 1 .. N |-> [b \in Nat |-> StartAt(toks, k + 1, b + Width(toks[k]))]]
           first == StartAt(toks, 1, 0)
           Holds(f) == f = [k \in 1 .. (Len(toks) + 1) |->
                              LET after == IF k = 1 THEN 0 ELSE f[k - 1] + Width(toks[k - 1])
                              IN  IF k <= Len(toks) /\ toks[k].kind \in {"len", "footer"}
                                    THEN Aligned(after) ELSE after]
<1>1. N \in Nat
  BY LenProperties
<1>2. ASSUME NEW k \in 1 .. N + 1, NEW b \in Nat PROVE StartAt(toks, k, b) \in Nat
  <2>1. Aligned(b) \in Nat
    BY AlignedFacts
  <2>2. QED BY <2>1 DEF StartAt
<1>3. ASSUME NEW k \in 1 .. N PROVE Width(toks[k]) \in Nat
  <2>1. toks[k] \in Token
    BY ElementOfSeq
  <2>2. QED BY <2>1, TokenWidth
<1>4. step \in [1 .. N -> [Nat -> Nat]]
  <2>1. ASSUME NEW k \in 1 .. N, NEW b \in Nat
        PROVE  StartAt(toks, k + 1, b + Width(toks[k])) \in Nat
    <3>1. k + 1 \in 1 .. N + 1 /\ b + Width(toks[k]) \in Nat
      BY <1>1, <1>3
    <3>2. QED BY <1>2, <3>1
  <2>2. QED BY <2>1
<1>5. first \in Nat
  BY <1>1, <1>2
<1>6. PICK g : Iterates(g, N, Nat, first, step)
  <2> HIDE DEF step, first, N
  <2>1. QED BY <1>1, <1>4, <1>5, IterationExists
<1> DEFINE f == [k \in 1 .. (N + 1) |-> g[k - 1]]
<1>7. /\ g \in [0 .. N -> Nat] /\ g[0] = first
      /\ \A k \in 1 .. N : g[k] = StartAt(toks, k + 1, g[k - 1] + Width(toks[k]))
  <2>1. /\ g \in [0 .. N -> Nat] /\ g[0] = first
        /\ \A k \in 1 .. N : g[k] = step[k][g[k - 1]]
    BY <1>6 DEF Iterates
  <2>2. ASSUME NEW k \in 1 .. N
        PROVE  g[k] = StartAt(toks, k + 1, g[k - 1] + Width(toks[k]))
    <3>1. k - 1 \in 0 .. N
      BY <1>1
    <3>2. g[k - 1] \in Nat
      BY <2>1, <3>1
    <3>3. QED BY <2>1, <3>2
  <2>3. QED BY <2>1, <2>2
<1>8. ASSUME NEW k \in 1 .. (N + 1)
      PROVE  f[k] = StartAt(toks, k, IF k = 1 THEN 0 ELSE f[k - 1] + Width(toks[k - 1]))
  <2>1. CASE k = 1
    BY <1>7, <2>1
  <2>2. CASE k # 1
    <3>1. k - 1 \in 1 .. N /\ k - 1 \in 1 .. (N + 1) /\ (k - 1) + 1 = k
      BY <1>1, <2>2
    <3>2. g[k - 1] = StartAt(toks, k, g[k - 1 - 1] + Width(toks[k - 1]))
      BY <1>7, <3>1
    <3>3. f[k] = g[k - 1] /\ f[k - 1] = g[k - 1 - 1]
      BY <3>1
    <3>4. QED BY <2>2, <3>2, <3>3
  <2>3. QED BY <2>1, <2>2
<1>9. Holds(f)
  <2>1. f = [k \in 1 .. (N + 1) |-> f[k]]
    OBVIOUS
  <2> HIDE DEF f
  <2>2. QED BY <1>8, <2>1 DEF StartAt
<1>10. Starts(toks) = CHOOSE h : Holds(h)
  BY DEF Starts
<1>11. Holds(Starts(toks))
  <2> HIDE DEF Holds, f
  <2>1. QED BY <1>9, <1>10
<1> DEFINE s == Starts(toks)
<1>12. /\ s = [k \in 1 .. (N + 1) |-> s[k]]
       /\ \A k \in 1 .. (N + 1) :
            s[k] = StartAt(toks, k, IF k = 1 THEN 0 ELSE s[k - 1] + Width(toks[k - 1]))
  <2> HIDE DEF s
  <2>1. Holds(s)
    BY <1>11 DEF s
  <2>2. QED BY <2>1 DEF StartAt
<1> HIDE DEF s, f, Holds
<1>13. s[1] = StartAt(toks, 1, 0)
  <2>1. 1 \in 1 .. (N + 1)
    BY <1>1
  <2>2. s[1] = StartAt(toks, 1, IF 1 = 1 THEN 0 ELSE s[1 - 1] + Width(toks[1 - 1]))
    BY <1>12, <2>1
  <2>3. QED BY <2>2
<1>14. ASSUME NEW k \in 1 .. N
       PROVE  s[k + 1] = StartAt(toks, k + 1, s[k] + Width(toks[k]))
  <2>1. k + 1 \in 1 .. (N + 1) /\ k + 1 # 1 /\ (k + 1) - 1 = k
    BY <1>1
  <2>2. QED BY <1>12, <2>1
<1>15. ASSUME NEW k \in 1 .. (N + 1) PROVE s[k] \in Nat
  <2> DEFINE T == {j \in 0 .. N : s[j + 1] \in Nat}
  <2>1. 0 \in T
    BY <1>1, <1>5, <1>13 DEF first
  <2>2. ASSUME NEW j \in 1 .. N, j - 1 \in T PROVE j \in T
    <3>1. s[j] \in Nat
      BY <2>2
    <3>2. s[j] + Width(toks[j]) \in Nat /\ j + 1 \in 1 .. N + 1
      BY <1>1, <1>3, <3>1
    <3>3. s[j + 1] \in Nat
      BY <1>2, <1>14, <3>2
    <3>4. QED BY <3>3
  <2> HIDE DEF T
  <2>3. 0 .. N \subseteq T
    BY <1>1, <2>1, <2>2, InductionUpTo
  <2>4. k - 1 \in T
    BY <1>1, <2>3
  <2>5. QED BY <2>4 DEF T
<1>16. s \in [1 .. (N + 1) -> Nat]
  <2>1. [k \in 1 .. (N + 1) |-> s[k]] \in [1 .. (N + 1) -> Nat]
    BY <1>15
  <2>2. QED BY <1>12, <2>1
<1>17. QED BY <1>13, <1>14, <1>16 DEF s

-------------------------------------------------------------------------------
(* What tokens mean.                                                       *)

Places == {"wrapper", "block", "precode", "lens", "symbol", "len", "byte", "footer",
           "end"}

Meaning == [out : Seq(Byte), final : BOOLEAN, fault : BOOLEAN, sum_ok : BOOLEAN,
            size_ok : BOOLEAN, place : Places, todo : Int]

LEMMA EffectFields ==
  ASSUME NEW d \in Meaning, NEW t \in Token
  PROVE  /\ DOMAIN Effect(d, t) = DOMAIN d
         /\ Effect(d, t).out \in Seq(Byte) /\ Leads(d.out, Effect(d, t).out)
         /\ Effect(d, t).final = IF t.kind = "block" THEN t.final ELSE d.final
         /\ Effect(d, t).fault =
              IF t.kind \in {"wrapper", "precode", "lens", "len"} THEN ~t.ok
              ELSE IF t.kind = "block" THEN t.type = "reserved"
              ELSE IF t.kind = "match" /\ t.offset > Len(d.out) THEN TRUE
              ELSE d.fault
         /\ Effect(d, t).sum_ok = IF t.kind = "footer" THEN t.sum = d.out ELSE d.sum_ok
         /\ Effect(d, t).size_ok =
              IF t.kind = "footer" THEN t.size = Len(d.out) ELSE d.size_ok
         /\ t.kind \in {"byte", "lit"} => Effect(d, t).out = Append(d.out, t.val)
         /\ t.kind = "match" /\ t.offset <= Len(d.out)
              => Effect(d, t).out = Copied(d.out, t.offset, t.length)
         /\ t.kind \notin {"byte", "lit", "match"} => Effect(d, t).out = d.out
<1>1. /\ d.out \in Seq(Byte) /\ Len(d.out) \in Nat
      /\ Leads(d.out, d.out)
  BY LenProperties, LeadsReflexive DEF Meaning
<1>2. CASE t.kind \in {"wrapper", "precode", "lens", "len"}
  <2>1. Effect(d, t) = [d EXCEPT !.fault = ~t.ok]
    BY <1>2 DEF Effect
  <2>2. QED BY <1>1, <1>2, <2>1 DEF Meaning
<1>3. CASE t.kind = "block"
  <2>1. Effect(d, t) = [d EXCEPT !.final = t.final, !.fault = (t.type = "reserved")]
    BY <1>3 DEF Effect
  <2>2. QED BY <1>1, <1>3, <2>1 DEF Meaning
<1>4. CASE t.kind \in {"byte", "lit"}
  <2>1. Effect(d, t) = [d EXCEPT !.out = Append(d.out, t.val)]
    BY <1>4 DEF Effect
  <2>2. t.val \in Byte
    BY <1>4, ByteToken, LitToken
  <2>3. Append(d.out, t.val) \in Seq(Byte) /\ Leads(d.out, Append(d.out, t.val))
    BY <1>1, <2>2, AppendLeads
  <2> DEFINE o == Append(d.out, t.val)
  <2> HIDE DEF o
  <2>4. o \in Seq(Byte) /\ Leads(d.out, o) /\ Effect(d, t) = [d EXCEPT !.out = o]
    BY <2>1, <2>3 DEF o
  <2>5. /\ DOMAIN Effect(d, t) = DOMAIN d
        /\ Effect(d, t).out = o /\ Effect(d, t).final = d.final
        /\ Effect(d, t).fault = d.fault /\ Effect(d, t).sum_ok = d.sum_ok
        /\ Effect(d, t).size_ok = d.size_ok
    BY <2>4 DEF Meaning
  <2>6. QED BY <1>4, <2>4, <2>5 DEF o
<1>5. CASE t.kind = "match" /\ t.offset <= Len(d.out)
  <2> DEFINE o == Copied(d.out, t.offset, t.length)
  <2>1. Effect(d, t) = [d EXCEPT !.out = o]
    BY <1>5 DEF Effect
  <2>2. t.offset \in 1 .. LOOKBACK_SIZE /\ t.length \in 1 .. MAX_MATCH
    BY <1>5, MatchToken
  <2>3. t.offset \in 1 .. Len(d.out) /\ t.length \in Nat
    BY <1>1, <1>5, <2>2, BufferAssumption, StreamAssumption
  <2>4. o \in Seq(Byte) /\ Leads(d.out, o)
    BY <1>1, <2>3, CopiedFacts
  <2> HIDE DEF o
  <2>5. /\ DOMAIN Effect(d, t) = DOMAIN d
        /\ Effect(d, t).out = o /\ Effect(d, t).final = d.final
        /\ Effect(d, t).fault = d.fault /\ Effect(d, t).sum_ok = d.sum_ok
        /\ Effect(d, t).size_ok = d.size_ok
    BY <2>1 DEF Meaning
  <2>6. ~(t.offset > Len(d.out))
    BY <1>1, <2>3
  <2>7. QED BY <1>5, <2>4, <2>5, <2>6 DEF o
<1>6. CASE t.kind = "match" /\ ~(t.offset <= Len(d.out))
  <2>1. Effect(d, t) = [d EXCEPT !.fault = TRUE]
    BY <1>6 DEF Effect
  <2>2. t.offset \in 1 .. LOOKBACK_SIZE
    BY <1>6, MatchToken
  <2>3. t.offset > Len(d.out)
    BY <1>1, <1>6, <2>2, BufferAssumption
  <2>4. QED BY <1>1, <1>6, <2>1, <2>3 DEF Meaning
<1>7. CASE t.kind = "footer"
  <2>1. Effect(d, t) = [d EXCEPT !.sum_ok = (t.sum = d.out),
                                 !.size_ok = (t.size = Len(d.out))]
    BY <1>7 DEF Effect
  <2>2. QED BY <1>1, <1>7, <2>1 DEF Meaning
<1>8. CASE t.kind = "eob"
  <2>1. Effect(d, t) = d
    BY <1>8 DEF Effect
  <2>2. QED BY <1>1, <1>8, <2>1
<1>9. QED BY <1>2, <1>3, <1>4, <1>5, <1>6, <1>7, <1>8, TokenKind

LEMMA PlaceAndTodo ==
  ASSUME NEW d \in Meaning, NEW t \in Token
  PROVE  PlaceAfter(d, t) \in Places /\ TodoAfter(d, t) \in Int
<1>1. AfterBlock(d.final) \in Places
  BY DEF AfterBlock, Places
<1>2. PlaceAfter(d, t) \in Places
  BY <1>1 DEF PlaceAfter, Places
<1>3. d.todo \in Int /\ d.todo - 1 \in Int
  BY DEF Meaning
<1>4. t.kind = "len" => t.n \in Int
  BY LenToken
<1>5. TodoAfter(d, t) \in Int
  BY <1>3, <1>4 DEF TodoAfter
<1>6. QED BY <1>2, <1>5

(* A token's meaning after a good one.                                     *)
LEMMA DecodeTokenFields ==
  ASSUME NEW d \in Meaning, NEW t \in Token, ~d.fault
  PROVE  LET e == DecodeToken(d, t) IN
         /\ e \in Meaning
         /\ Leads(d.out, e.out)
         /\ e.final = IF t.kind = "block" THEN t.final ELSE d.final
         /\ e.fault =
              IF t.kind \in {"wrapper", "precode", "lens", "len"} THEN ~t.ok
              ELSE IF t.kind = "block" THEN t.type = "reserved"
              ELSE IF t.kind = "match" /\ t.offset > Len(d.out) THEN TRUE
              ELSE FALSE
         /\ e.sum_ok = IF t.kind = "footer" THEN t.sum = d.out ELSE d.sum_ok
         /\ e.size_ok = IF t.kind = "footer" THEN t.size = Len(d.out) ELSE d.size_ok
         /\ t.kind \in {"byte", "lit"} => e.out = Append(d.out, t.val)
         /\ t.kind = "match" /\ t.offset <= Len(d.out)
              => e.out = Copied(d.out, t.offset, t.length)
         /\ t.kind \notin {"byte", "lit", "match"} => e.out = d.out
         /\ e.place = PlaceAfter(d, t) /\ e.todo = TodoAfter(d, t)
<1> DEFINE e == DecodeToken(d, t)
           c == Effect(d, t)
           p == PlaceAfter(d, t)
           n == TodoAfter(d, t)
<1>1. e = [c EXCEPT !.place = p, !.todo = n]
  BY DEF DecodeToken
<1>2. /\ DOMAIN c = {"out", "final", "fault", "sum_ok", "size_ok", "place", "todo"}
      /\ c.out \in Seq(Byte) /\ Leads(d.out, c.out)
      /\ c.final = IF t.kind = "block" THEN t.final ELSE d.final
      /\ c.fault =
           IF t.kind \in {"wrapper", "precode", "lens", "len"} THEN ~t.ok
           ELSE IF t.kind = "block" THEN t.type = "reserved"
           ELSE IF t.kind = "match" /\ t.offset > Len(d.out) THEN TRUE
           ELSE d.fault
      /\ c.sum_ok = IF t.kind = "footer" THEN t.sum = d.out ELSE d.sum_ok
      /\ c.size_ok = IF t.kind = "footer" THEN t.size = Len(d.out) ELSE d.size_ok
      /\ t.kind \in {"byte", "lit"} => c.out = Append(d.out, t.val)
      /\ t.kind = "match" /\ t.offset <= Len(d.out)
           => c.out = Copied(d.out, t.offset, t.length)
      /\ t.kind \notin {"byte", "lit", "match"} => c.out = d.out
  BY EffectFields DEF Meaning
<1>3. p \in Places /\ n \in Int
  BY PlaceAndTodo
<1> HIDE DEF c, p, n, e
<1>4. /\ DOMAIN e = {"out", "final", "fault", "sum_ok", "size_ok", "place", "todo"}
      /\ e.out = c.out /\ e.final = c.final /\ e.fault = c.fault
      /\ e.sum_ok = c.sum_ok /\ e.size_ok = c.size_ok /\ e.place = p /\ e.todo = n
  BY <1>1, <1>2
<1>5. /\ d.final \in BOOLEAN /\ d.sum_ok \in BOOLEAN /\ d.size_ok \in BOOLEAN
      /\ d.fault = FALSE
  BY DEF Meaning
<1>6. e.final \in BOOLEAN
  BY <1>2, <1>4, <1>5, BlockToken
<1>7. e.fault \in BOOLEAN
  <2>1. CASE t.kind \in {"wrapper", "precode", "lens", "len"}
    <3>1. t.ok \in BOOLEAN
      BY <2>1, WrapperToken, PrecodeToken, LensToken, LenToken
    <3>2. QED BY <1>2, <1>4, <2>1, <3>1
  <2>2. CASE t.kind = "block"
    BY <1>2, <1>4, <2>2
  <2>3. CASE t.kind \notin {"wrapper", "precode", "lens", "len", "block"}
    BY <1>2, <1>4, <1>5, <2>3
  <2>4. QED BY <2>1, <2>2, <2>3
<1>8. e.sum_ok \in BOOLEAN /\ e.size_ok \in BOOLEAN
  BY <1>2, <1>4, <1>5
<1>9. e = [out |-> e.out, final |-> e.final, fault |-> e.fault, sum_ok |-> e.sum_ok,
           size_ok |-> e.size_ok, place |-> e.place, todo |-> e.todo]
  BY <1>1, <1>4
<1>10. e.out \in Seq(Byte) /\ e.place \in Places /\ e.todo \in Int
  BY <1>2, <1>3, <1>4
<1>11. e \in Meaning
  BY <1>6, <1>7, <1>8, <1>9, <1>10 DEF Meaning
<1>12. e.fault = IF t.kind \in {"wrapper", "precode", "lens", "len"} THEN ~t.ok
                 ELSE IF t.kind = "block" THEN t.type = "reserved"
                 ELSE IF t.kind = "match" /\ t.offset > Len(d.out) THEN TRUE
                 ELSE FALSE
  BY <1>2, <1>4, <1>5
<1>13. /\ Leads(d.out, e.out)
       /\ e.final = IF t.kind = "block" THEN t.final ELSE d.final
       /\ e.sum_ok = IF t.kind = "footer" THEN t.sum = d.out ELSE d.sum_ok
       /\ e.size_ok = IF t.kind = "footer" THEN t.size = Len(d.out) ELSE d.size_ok
       /\ t.kind \in {"byte", "lit"} => e.out = Append(d.out, t.val)
       /\ t.kind = "match" /\ t.offset <= Len(d.out)
            => e.out = Copied(d.out, t.offset, t.length)
       /\ t.kind \notin {"byte", "lit", "match"} => e.out = d.out
  BY <1>2, <1>4, Zenon
<1>14. QED BY <1>4, <1>11, <1>12, <1>13 DEF e, p, n

LEMMA DecodeTokenType ==
  ASSUME NEW d \in Meaning, NEW t \in Token
  PROVE  DecodeToken(d, t) \in Meaning
<1>1. CASE d.fault
  BY <1>1 DEF DecodeToken
<1>2. CASE ~d.fault
  BY <1>2, DecodeTokenFields
<1>3. QED BY <1>1, <1>2

LEMMA UndecodedMeans ==
  ASSUME NEW toks
  PROVE  /\ Undecoded(toks) \in Meaning
         /\ Undecoded(toks).out = <<>>
         /\ ~Undecoded(toks).final /\ ~Undecoded(toks).fault
         /\ Undecoded(toks).sum_ok /\ Undecoded(toks).size_ok
         /\ Undecoded(toks).place =
              IF toks # <<>> /\ toks[1].kind = "wrapper" THEN "wrapper" ELSE "block"
<1> DEFINE p == IF toks # <<>> /\ toks[1].kind = "wrapper" THEN "wrapper" ELSE "block"
<1>1. p \in Places
  BY DEF Places
<1>2. <<>> \in Seq(Byte)
  BY EmptySeq
<1>3. Undecoded(toks) = [out |-> <<>>, final |-> FALSE, fault |-> FALSE,
                         sum_ok |-> TRUE, size_ok |-> TRUE, place |-> p, todo |-> 0]
  BY DEF Undecoded
<1> HIDE DEF p
<1>4. Undecoded(toks) \in Meaning
  BY <1>1, <1>2, <1>3 DEF Meaning
<1>5. QED BY <1>3, <1>4 DEF p

(* The meanings of a stream's beginnings are those of their tokens.        *)
LEMMA DecodedFacts ==
  ASSUME NEW toks \in Seq(Token)
  PROVE  /\ \A k \in 0 .. Len(toks) : DecodedUpTo(toks)[k] \in Meaning
         /\ DecodedUpTo(toks)[0] = Undecoded(toks)
         /\ \A k \in 1 .. Len(toks) :
              DecodedUpTo(toks)[k] = DecodeToken(DecodedUpTo(toks)[k - 1], toks[k])
<1> DEFINE N == Len(toks)
           step == [k \in 1 .. N |-> [d \in Meaning |-> DecodeToken(d, toks[k])]]
           Holds(f) == f = [k \in 0 .. Len(toks) |->
                              IF k = 0 THEN Undecoded(toks)
                              ELSE DecodeToken(f[k - 1], toks[k])]
<1>1. N \in Nat
  BY LenProperties
<1>2. ASSUME NEW k \in 1 .. N PROVE toks[k] \in Token
  BY ElementOfSeq
<1>3. step \in [1 .. N -> [Meaning -> Meaning]]
  BY <1>2, DecodeTokenType
<1>4. Undecoded(toks) \in Meaning
  BY UndecodedMeans
<1>5. PICK g : Iterates(g, N, Meaning, Undecoded(toks), step)
  <2> HIDE DEF step, N
  <2>1. QED BY <1>1, <1>3, <1>4, IterationExists
<1>6. /\ g \in [0 .. N -> Meaning] /\ g[0] = Undecoded(toks)
      /\ \A k \in 1 .. N : g[k] = DecodeToken(g[k - 1], toks[k])
  <2>1. /\ g \in [0 .. N -> Meaning] /\ g[0] = Undecoded(toks)
        /\ \A k \in 1 .. N : g[k] = step[k][g[k - 1]]
    BY <1>5 DEF Iterates
  <2>2. ASSUME NEW k \in 1 .. N PROVE g[k] = DecodeToken(g[k - 1], toks[k])
    <3>1. k - 1 \in 0 .. N
      BY <1>1
    <3>2. g[k - 1] \in Meaning
      BY <2>1, <3>1
    <3>3. QED BY <2>1, <3>2
  <2>3. QED BY <2>1, <2>2
<1>7. Holds(g)
  <2>1. g = [k \in 0 .. N |-> g[k]]
    BY <1>6
  <2>2. \A k \in 0 .. N : g[k] = IF k = 0 THEN Undecoded(toks)
                                 ELSE DecodeToken(g[k - 1], toks[k])
    BY <1>6
  <2>3. QED BY <2>1, <2>2
<1>8. DecodedUpTo(toks) = CHOOSE h : Holds(h)
  BY DEF DecodedUpTo
<1> DEFINE f == DecodedUpTo(toks)
<1>9. Holds(f)
  <2> HIDE DEF Holds
  <2>1. QED BY <1>7, <1>8
<1>10. \A k \in 0 .. N : f[k] = IF k = 0 THEN Undecoded(toks)
                                ELSE DecodeToken(f[k - 1], toks[k])
  <2> HIDE DEF f
  <2>1. QED BY <1>9
<1> HIDE DEF f, Holds
<1>11. f[0] = Undecoded(toks)
  BY <1>1, <1>10
<1>12. \A k \in 1 .. N : f[k] = DecodeToken(f[k - 1], toks[k])
  BY <1>1, <1>10
<1>13. \A k \in 0 .. N : f[k] \in Meaning
  <2> DEFINE T == {k \in 0 .. N : f[k] \in Meaning}
  <2>1. 0 \in T
    BY <1>1, <1>4, <1>11
  <2>2. ASSUME NEW k \in 1 .. N, k - 1 \in T PROVE k \in T
    <3>1. DecodeToken(f[k - 1], toks[k]) \in Meaning
      BY <1>2, <2>2, DecodeTokenType
    <3>2. QED BY <1>12, <3>1
  <2> HIDE DEF T
  <2>3. 0 .. N \subseteq T
    BY <1>1, <2>1, <2>2, InductionUpTo
  <2>4. QED BY <2>3 DEF T
<1>14. QED BY <1>11, <1>12, <1>13 DEF f

(* A fault ends the meaning; until then the output grows.                  *)
LEMMA DecodedGrows ==
  ASSUME NEW toks \in Seq(Token), NEW j \in 0 .. Len(toks), NEW k \in j .. Len(toks)
  PROVE  /\ DecodedUpTo(toks)[j].fault => DecodedUpTo(toks)[k].fault
         /\ Leads(DecodedUpTo(toks)[j].out, DecodedUpTo(toks)[k].out)
<1> DEFINE N == Len(toks)
           f == DecodedUpTo(toks)
           T == {n \in 0 .. (N - j) : /\ f[j].fault => f[j + n].fault
                                      /\ Leads(f[j].out, f[j + n].out)}
<1>1. N \in Nat /\ j \in Nat /\ j <= N
  BY LenProperties
<1>2. /\ \A n \in 0 .. N : f[n] \in Meaning
      /\ \A n \in 1 .. N : f[n] = DecodeToken(f[n - 1], toks[n])
  BY DecodedFacts
<1> HIDE DEF f
<1>3. 0 \in T
  <2>1. f[j].out \in Seq(Byte)
    BY <1>1, <1>2 DEF Meaning
  <2>2. Leads(f[j].out, f[j].out)
    BY <2>1, LeadsReflexive
  <2>3. j + 0 = j
    BY <1>1
  <2>4. QED BY <1>1, <2>2, <2>3
<1>4. ASSUME NEW n \in 1 .. (N - j), n - 1 \in T PROVE n \in T
  <2> DEFINE m == j + n
  <2>1. m \in 1 .. N /\ m - 1 \in 0 .. N /\ j + (n - 1) = m - 1
    BY <1>1
  <2> HIDE DEF m
  <2>2. /\ f[j].fault => f[m - 1].fault
        /\ Leads(f[j].out, f[m - 1].out)
    BY <1>4, <2>1
  <2>3. /\ f[j].out \in Seq(Byte) /\ f[m - 1].out \in Seq(Byte) /\ f[m].out \in Seq(Byte)
        /\ f[m - 1] \in Meaning /\ toks[m] \in Token
        /\ f[m] = DecodeToken(f[m - 1], toks[m])
    BY <1>1, <1>2, <2>1, ElementOfSeq DEF Meaning
  <2>4. /\ f[m - 1].fault => f[m].fault
        /\ Leads(f[m - 1].out, f[m].out)
    <3>1. CASE f[m - 1].fault
      <4>1. f[m] = f[m - 1]
        BY <2>3, <3>1 DEF DecodeToken
      <4>2. QED BY <2>3, <4>1, LeadsReflexive
    <3>2. CASE ~f[m - 1].fault
      BY <2>3, <3>2, DecodeTokenFields
    <3>3. QED BY <3>1, <3>2
  <2>5. Leads(f[j].out, f[m].out)
    BY <2>2, <2>3, <2>4, LeadsTransitive
  <2>6. (f[j].fault => f[m].fault) /\ Leads(f[j].out, f[m].out)
    BY <2>2, <2>4, <2>5
  <2>7. QED BY <2>6 DEF m
<1> HIDE DEF T
<1>5. 0 .. (N - j) \subseteq T
  <2>1. N - j \in Nat
    BY <1>1
  <2>2. QED BY <1>3, <1>4, <2>1, InductionUpTo
<1>6. k - j \in T /\ j + (k - j) = k
  BY <1>1, <1>5
<1>7. QED BY <1>6 DEF T, f

(* A set of numbers from 1 on, without gaps.                               *)
LEMMA CountedFromOne ==
  ASSUME NEW N \in Nat, NEW W, W \subseteq 1 .. N,
         \A k \in W : \A j \in 1 .. k : j \in W
  PROVE  /\ Cardinality(W) \in 0 .. N
         /\ W = 1 .. Cardinality(W)
<1> DEFINE Out == {k \in 1 .. (N + 1) : k \notin W}
<1>1. Out \subseteq Nat /\ Out # {}
  <2>1. N + 1 \in Out
    OBVIOUS
  <2>2. QED BY <2>1
<1>2. PICK n \in Out : \A k \in Out : n <= k
  BY <1>1, LeastNumber, Zenon
<1>3. n \in 1 .. (N + 1) /\ n \notin W
  OBVIOUS
<1> DEFINE m == n - 1
<1>4. m \in 0 .. N
  BY <1>3
<1>5. ASSUME NEW k \in 1 .. m PROVE k \in W
  <2>1. k \in 1 .. (N + 1) /\ ~(n <= k)
    BY <1>3
  <2>2. QED BY <1>2, <2>1
<1>6. ASSUME NEW k \in W PROVE k \in 1 .. m
  <2>1. k \in 1 .. N
    OBVIOUS
  <2>2. ~(n \in 1 .. k)
    BY <1>3
  <2>3. QED BY <1>3, <2>1, <2>2
<1>7. W = 1 .. m
  BY <1>5, <1>6
<1> HIDE DEF m
<1>8. Cardinality(1 .. m) = m
  <2>1. m \in Int /\ 1 \in Int
    BY <1>4
  <2>2. Cardinality(1 .. m) = IF 1 > m THEN 0 ELSE m - 1 + 1
    BY <2>1, FS_Interval
  <2>3. QED BY <1>4, <2>2
<1>9. QED BY <1>4, <1>7, <1>8

-------------------------------------------------------------------------------
(* The stream a decoder is given.                                          *)

Size == Len(stream.toks)

D == DecodedUpTo(stream.toks)

(* The bit after token k.                                                  *)
TokenEnd(k) == IF k = 0 THEN 0 ELSE stream.starts[k] + Width(stream.toks[k])

StreamKnown == \E u \in Setups : SetUpAs(u) /\ stream \in Sources(u)

LaidOut ==
  /\ stream.toks \in Seq(Token) /\ Size \in Nat /\ stream.nbytes \in Nat
  /\ \A k \in 1 .. Size : stream.toks[k] \in Token
  /\ stream.held \in 0 .. Size
  /\ stream.starts \in [1 .. (Size + 1) -> Nat]
  /\ \A k \in 0 .. Size :
       /\ TokenEnd(k) \in Nat
       /\ stream.starts[k + 1] = StartAt(stream.toks, k + 1, TokenEnd(k))
  /\ \A k \in 1 .. Size : /\ TokenEnd(k - 1) <= stream.starts[k]
                          /\ stream.starts[k] < TokenEnd(k)
                          /\ TokenEnd(k) = stream.starts[k] + Width(stream.toks[k])
  /\ \A j \in 0 .. Size : \A k \in j .. Size : TokenEnd(j) <= TokenEnd(k)
  /\ \A k \in 1 .. Size : k <= stream.held <=> TokenEnd(k) <= 8 * stream.nbytes

Meant ==
  /\ \A k \in 0 .. Size : D[k] \in Meaning
  /\ D[0] = Undecoded(stream.toks)
  /\ \A k \in 1 .. Size : D[k] = DecodeToken(D[k - 1], stream.toks[k])
  /\ \A j \in 0 .. Size : \A k \in j .. Size :
       /\ D[j].fault => D[k].fault
       /\ Leads(D[j].out, D[k].out)
  /\ LET whole == stream.held = Size
         d == D[stream.held]
     IN  stream.means = [out |-> d.out, sum_ok |-> d.sum_ok, size_ok |-> d.size_ok,
                         fault |-> d.fault \/ ~whole,
                         final |-> whole /\ d.final,
                         segment |-> whole /\ ~d.final
                                       /\ stream.starts[Size + 1] = 8 * stream.nbytes]

Suited ==
  /\ wrapper \in WrapperFormat /\ checksum_policy \in ChecksumPolicy
  /\ options.segment_end \in BOOLEAN /\ options.verify_footer \in BOOLEAN
  /\ options.source_errors \in Nat
  /\ \A k \in 1 .. Size : D[k - 1].fault \/ PlaceOf(stream.toks[k]) = D[k - 1].place
  /\ D[Size].fault \/ D[Size].place \in {"block", "footer", "end"}
  /\ (wrapper # "raw" /\ options.verify_footer)
       <=> (Size > 0 /\ stream.toks[1].kind = "wrapper")
  /\ \A k \in 1 .. Size :
       stream.toks[k].kind = "footer" =>
         wrapper # "raw" /\ stream.toks[k].bits = 8 * FooterSize
  /\ wrapper # "raw" => D[Size].fault \/ D[Size].place # "footer"
  /\ \A j, k \in 1 .. Size :
       (j <= k /\ \A l \in j .. k : stream.toks[l].kind = "lens")
         => stream.starts[k + 1] - stream.starts[j] <= 8 * (INPUT_BUF_SIZE - 8)
  /\ options.segment_end =>
       \A k \in 1 .. Size : (D[k - 1].place = "block" /\ ~D[k - 1].fault)
                              => stream.starts[k] # 8 * stream.nbytes

LEMMA StreamIsLaidOut ==
  ASSUME NEW s \in [toks : Seq(Token), nbytes : Nat], stream = Source(s)
  PROVE  LaidOut
<1>1. /\ stream.toks = s.toks /\ stream.nbytes = s.nbytes
      /\ stream.starts = Starts(s.toks)
      /\ stream.held = Cardinality({k \in 1 .. Len(s.toks) :
                          Starts(s.toks)[k] + Width(s.toks[k]) <= 8 * s.nbytes})
  BY DEF Source, Layout
<1>2. stream.toks \in Seq(Token) /\ Size \in Nat /\ stream.nbytes \in Nat
  <2>1. s.toks \in Seq(Token) /\ s.nbytes \in Nat
    OBVIOUS
  <2>2. QED BY <1>1, <2>1, LenProperties DEF Size
<1>3. /\ stream.starts \in [1 .. (Size + 1) -> Nat]
      /\ stream.starts[1] = StartAt(stream.toks, 1, 0)
      /\ \A k \in 1 .. Size :
           stream.starts[k + 1]
             = StartAt(stream.toks, k + 1, stream.starts[k] + Width(stream.toks[k]))
  <2>1. stream.starts = Starts(stream.toks)
    BY <1>1
  <2>2. QED BY <1>2, <2>1, StartsFacts DEF Size
<1>4. \A k \in 1 .. Size : /\ stream.toks[k] \in Token
                           /\ Width(stream.toks[k]) \in Nat \ {0}
  BY <1>2, ElementOfSeq, TokenWidth DEF Size
<1>5. \A k \in 1 .. Size : TokenEnd(k) = stream.starts[k] + Width(stream.toks[k])
  BY DEF TokenEnd
<1>6. ASSUME NEW k \in 0 .. Size
      PROVE  /\ TokenEnd(k) \in Nat
             /\ stream.starts[k + 1] = StartAt(stream.toks, k + 1, TokenEnd(k))
  <2>1. CASE k = 0
    BY <1>3, <2>1 DEF TokenEnd
  <2>2. CASE k # 0
    <3>1. k \in 1 .. Size /\ k \in 1 .. (Size + 1)
      BY <1>2, <2>2
    <3>2. stream.starts[k] \in Nat
      BY <1>3, <3>1
    <3>3. QED BY <1>3, <1>4, <1>5, <3>1, <3>2
  <2>3. QED BY <2>1, <2>2
<1>7. ASSUME NEW k \in 1 .. Size
      PROVE  TokenEnd(k - 1) <= stream.starts[k] /\ stream.starts[k] < TokenEnd(k)
  <2>1. k - 1 \in 0 .. Size /\ (k - 1) + 1 = k /\ k \in 1 .. (Size + 1)
    BY <1>2
  <2>2. stream.starts[k] = StartAt(stream.toks, k, TokenEnd(k - 1)) /\ TokenEnd(k - 1) \in Nat
    BY <1>6, <2>1
  <2>3. StartAt(stream.toks, k, TokenEnd(k - 1)) >= TokenEnd(k - 1)
    <3> DEFINE e == TokenEnd(k - 1)
    <3>1. e \in Nat
      BY <2>2
    <3> HIDE DEF e
    <3>2. Aligned(e) >= e
      BY <3>1, AlignedFacts
    <3>3. StartAt(stream.toks, k, e) >= e
      BY <3>1, <3>2 DEF StartAt
    <3>4. QED BY <3>3 DEF e
  <2>4. stream.starts[k] \in Nat
    BY <1>3, <2>1
  <2>5. QED BY <1>4, <1>5, <2>2, <2>3, <2>4
<1>8. ASSUME NEW j \in 0 .. Size, NEW k \in j .. Size
      PROVE  TokenEnd(j) <= TokenEnd(k)
  <2> DEFINE T == {n \in 0 .. (Size - j) : TokenEnd(j) <= TokenEnd(j + n)}
  <2>1. 0 \in T
    <3>1. j + 0 = j /\ TokenEnd(j) \in Nat
      BY <1>2, <1>6
    <3>2. QED BY <1>2, <3>1
  <2>2. ASSUME NEW n \in 1 .. (Size - j), n - 1 \in T PROVE n \in T
    <3>1. /\ j + n \in 1 .. Size /\ j + (n - 1) = (j + n) - 1
          /\ (j + n) - 1 \in 0 .. Size /\ j + n \in 0 .. Size
      BY <1>2
    <3>2. TokenEnd(j) <= TokenEnd((j + n) - 1)
      BY <2>2, <3>1
    <3>3. /\ TokenEnd((j + n) - 1) <= stream.starts[j + n]
          /\ stream.starts[j + n] < TokenEnd(j + n)
      BY <1>7, <3>1
    <3>4. /\ TokenEnd(j) \in Nat /\ TokenEnd((j + n) - 1) \in Nat /\ TokenEnd(j + n) \in Nat
          /\ stream.starts[j + n] \in Nat
      <4>1. TokenEnd(j) \in Nat /\ TokenEnd((j + n) - 1) \in Nat /\ TokenEnd(j + n) \in Nat
        BY <1>6, <3>1
      <4>2. j + n \in 1 .. (Size + 1)
        BY <1>2, <3>1
      <4>3. stream.starts[j + n] \in Nat
        BY <1>3, <4>2
      <4>4. QED BY <4>1, <4>3
    <3>5. TokenEnd(j) <= TokenEnd(j + n)
      BY <3>2, <3>3, <3>4
    <3>6. QED BY <3>5
  <2> HIDE DEF T
  <2>3. 0 .. (Size - j) \subseteq T
    <3>1. Size - j \in Nat
      BY <1>2
    <3>2. QED BY <2>1, <2>2, <3>1, InductionUpTo
  <2>4. k - j \in T /\ j + (k - j) = k
    BY <1>2, <2>3
  <2>5. QED BY <2>4 DEF T
<1> DEFINE W == {k \in 1 .. Size : TokenEnd(k) <= 8 * stream.nbytes}
<1>9. stream.held = Cardinality(W)
  <2>1. W = {k \in 1 .. Len(s.toks) :
               Starts(s.toks)[k] + Width(s.toks[k]) <= 8 * s.nbytes}
    <3>1. \A k \in 1 .. Size : TokenEnd(k) = Starts(s.toks)[k] + Width(s.toks[k])
      BY <1>1, <1>5
    <3>2. Size = Len(s.toks)
      BY <1>1 DEF Size
    <3>3. QED BY <1>1, <3>1, <3>2
  <2>2. QED BY <1>1, <2>1
<1>10. stream.held \in 0 .. Size /\ W = 1 .. stream.held
  <2>1. \A k \in W : \A j \in 1 .. k : j \in W
    <3> SUFFICES ASSUME NEW k \in W, NEW j \in 1 .. k PROVE j \in W
      OBVIOUS
    <3>1. j \in 1 .. Size /\ j \in 0 .. Size /\ k \in j .. Size /\ k \in 0 .. Size
      BY <1>2
    <3>2. TokenEnd(j) <= TokenEnd(k) /\ TokenEnd(k) <= 8 * stream.nbytes
      BY <1>8, <3>1
    <3>3. TokenEnd(j) \in Nat /\ TokenEnd(k) \in Nat
      BY <1>6, <3>1
    <3>4. QED BY <1>2, <3>1, <3>2, <3>3
  <2>2. W \subseteq 1 .. Size
    OBVIOUS
  <2> HIDE DEF W
  <2>3. QED BY <1>2, <1>9, <2>1, <2>2, CountedFromOne
<1>11. \A k \in 1 .. Size : k <= stream.held <=> TokenEnd(k) <= 8 * stream.nbytes
  <2> SUFFICES ASSUME NEW k \in 1 .. Size
               PROVE  k <= stream.held <=> TokenEnd(k) <= 8 * stream.nbytes
    OBVIOUS
  <2>1. k \in W <=> TokenEnd(k) <= 8 * stream.nbytes
    OBVIOUS
  <2> HIDE DEF W
  <2>2. k \in W <=> k <= stream.held
    BY <1>2, <1>10
  <2>3. QED BY <2>1, <2>2
<1>12. QED BY <1>2, <1>3, <1>4, <1>5, <1>6, <1>7, <1>8, <1>10, <1>11 DEF LaidOut

LEMMA StreamIsMeant ==
  ASSUME NEW s \in [toks : Seq(Token), nbytes : Nat], stream = Source(s)
  PROVE  Meant
<1>1. LaidOut
  BY StreamIsLaidOut
<1>2. /\ stream.toks \in Seq(Token) /\ Size \in Nat
      /\ stream.toks = s.toks
  BY <1>1 DEF LaidOut, Source, Layout
<1>3. stream.means = Decoded(Layout(s))
  BY DEF Source
<1>4. /\ stream.starts = Layout(s).starts /\ stream.held = Layout(s).held
      /\ stream.nbytes = Layout(s).nbytes /\ stream.toks = Layout(s).toks
  BY DEF Source, Layout
<1>5. LET whole == stream.held = Size
          d == D[stream.held]
      IN  stream.means = [out |-> d.out, sum_ok |-> d.sum_ok, size_ok |-> d.size_ok,
                          fault |-> d.fault \/ ~whole,
                          final |-> whole /\ d.final,
                          segment |-> whole /\ ~d.final
                                        /\ stream.starts[Size + 1] = 8 * stream.nbytes]
  BY <1>3, <1>4, Zenon DEF Decoded, D, Size
<1>6. /\ \A k \in 0 .. Size : D[k] \in Meaning
      /\ D[0] = Undecoded(stream.toks)
      /\ \A k \in 1 .. Size : D[k] = DecodeToken(D[k - 1], stream.toks[k])
  BY <1>2, DecodedFacts DEF D, Size
<1>7. \A j \in 0 .. Size : \A k \in j .. Size :
        /\ D[j].fault => D[k].fault
        /\ Leads(D[j].out, D[k].out)
  BY <1>2, DecodedGrows DEF D, Size
<1>8. QED BY <1>5, <1>6, <1>7 DEF Meant

LEMMA StreamIsSuited ==
  ASSUME NEW u \in Setups, SetUpAs(u), NEW n \in 1 .. Len(u.streams),
         stream = Source(u.streams[n])
  PROVE  Suited
<1> DEFINE s == u.streams[n]
           l == Layout(s)
<1>1. /\ u.wrapper \in WrapperFormat /\ u.policy \in ChecksumPolicy
      /\ u.segment_end \in BOOLEAN /\ u.verify_footer \in BOOLEAN
      /\ u.source_errors \in Nat
      /\ Suits(u, l)
  BY SetupAssumption
<1>2. /\ stream.starts = l.starts
      /\ stream.nbytes = l.nbytes /\ stream.toks = l.toks
  BY DEF Source, Layout
<1>3. /\ wrapper = u.wrapper /\ checksum_policy = u.policy
      /\ options.segment_end = u.segment_end
      /\ options.verify_footer = u.verify_footer
      /\ options.source_errors = u.source_errors
  BY DEF SetUpAs
<1> HIDE DEF l, s
<1>4. DecodedUpTo(l.toks) = D /\ Len(l.toks) = Size
  BY <1>2 DEF D, Size
<1>5. /\ \A k \in 1 .. Size : D[k - 1].fault \/ PlaceOf(stream.toks[k]) = D[k - 1].place
      /\ D[Size].fault \/ D[Size].place \in {"block", "footer", "end"}
  BY <1>1, <1>2, <1>4 DEF Suits, Parsed
<1>6. (wrapper # "raw" /\ options.verify_footer)
        <=> (Size > 0 /\ stream.toks[1].kind = "wrapper")
  BY <1>1, <1>2, <1>3, <1>4 DEF Suits, HasHeader
<1>7. /\ \A k \in 1 .. Size :
           stream.toks[k].kind = "footer" =>
             wrapper # "raw" /\ stream.toks[k].bits = 8 * FooterSize
      /\ wrapper # "raw" => D[Size].fault \/ D[Size].place # "footer"
  BY <1>1, <1>2, <1>3, <1>4 DEF Suits, FooterSize
<1>8. \A j, k \in 1 .. Size :
        (j <= k /\ \A i \in j .. k : stream.toks[i].kind = "lens")
          => stream.starts[k + 1] - stream.starts[j] <= 8 * (INPUT_BUF_SIZE - 8)
  BY <1>1, <1>2, <1>4 DEF Suits
<1>9. options.segment_end =>
        \A k \in 1 .. Size : (D[k - 1].place = "block" /\ ~D[k - 1].fault)
                               => stream.starts[k] # 8 * stream.nbytes
  BY <1>1, <1>2, <1>3, <1>4 DEF Suits
<1>10. QED BY <1>1, <1>3, <1>5, <1>6, <1>7, <1>8, <1>9 DEF Suited

LEMMA KnownStream ==
  ASSUME StreamKnown
  PROVE  LaidOut /\ Meant /\ Suited
<1>1. PICK u \in Setups : SetUpAs(u) /\ stream \in Sources(u)
  BY DEF StreamKnown
<1>2. PICK n \in 1 .. Len(u.streams) : stream = Source(u.streams[n])
  BY <1>1 DEF Sources
<1>3. u.streams[n] \in [toks : Seq(Token), nbytes : Nat]
  <2>1. u.streams \in Seq([toks : Seq(Token), nbytes : Nat])
    BY SetupAssumption, Zenon
  <2>2. QED BY <2>1, ElementOfSeq, Zenon
<1>4. QED BY <1>1, <1>2, <1>3, StreamIsLaidOut, StreamIsMeant, StreamIsSuited

-------------------------------------------------------------------------------
(* The bit reader: no bit is lost or read twice, and padding is invented   *)
(* only past the last byte.                                                *)

ReaderFits(i) ==
  /\ ReaderOK(i)
  /\ 0 <= i.left /\ i.left <= 63
  /\ 0 <= i.over /\ i.over <= 15
  /\ i.end <= stream.nbytes
  /\ i.end - i.pos <= INPUT_BUF_SIZE
  /\ i.over > 0 => i.pos = stream.nbytes

(* There is enough for a refill, or nothing is left in the source.         *)
Fed(i) == Staged(i) >= 7 \/ i.end = stream.nbytes

LEMMA ReaderTypes ==
  ASSUME NEW i, ReaderOK(i)
  PROVE  /\ i.pos \in Nat /\ i.end \in Nat /\ i.left \in Int /\ i.over \in Int
         /\ BitPos(i) \in Int /\ Staged(i) \in Nat
         /\ BitPos(i) = 8 * (i.pos + i.over) - i.left
         /\ Staged(i) = i.end - i.pos
         /\ DOMAIN i = {"pos", "end", "left", "over"}
BY DEF ReaderOK, BitPos, Staged

LEMMA FilledFits ==
  ASSUME StreamOK, NEW i, ReaderFits(i)
  PROVE  /\ ReaderFits(Filled(i))
         /\ BitPos(Filled(i)) = BitPos(i)
         /\ Filled(i).pos = i.pos /\ Filled(i).left = i.left /\ Filled(i).over = i.over
         /\ Filled(i).end >= i.end
         /\ \/ Filled(i).end = stream.nbytes
            \/ Staged(Filled(i)) = INPUT_BUF_SIZE
         /\ Fed(Filled(i))
<1> DEFINE f == Filled(i)
<1>1. ReaderOK(i)
  BY DEF ReaderFits
<1>2. /\ ReaderOK(f) /\ f.pos = i.pos /\ f.left = i.left /\ f.over = i.over
      /\ f.end >= i.end
  BY <1>1, FilledReader
<1>3. f.end = AtLeast(i.end, AtMost(i.pos + INPUT_BUF_SIZE, stream.nbytes))
  BY <1>1 DEF Filled, ReaderOK
<1> HIDE DEF f
<1>4. /\ i.pos \in Nat /\ i.end \in Nat /\ f.end \in Nat /\ f.pos \in Nat
      /\ Staged(f) = f.end - f.pos /\ stream.nbytes \in Nat
  BY <1>1, <1>2, ReaderTypes DEF StreamOK
<1>5. INPUT_BUF_SIZE \in Nat /\ INPUT_BUF_SIZE >= 8
  BY StreamAssumption
<1>6. /\ f.end <= stream.nbytes /\ f.end - f.pos <= INPUT_BUF_SIZE
      /\ f.end = stream.nbytes \/ Staged(f) = INPUT_BUF_SIZE
  BY <1>2, <1>3, <1>4, <1>5 DEF ReaderFits, AtLeast, AtMost
<1>7. ReaderFits(f)
  BY <1>2, <1>6 DEF ReaderFits
<1>8. BitPos(f) = BitPos(i)
  BY <1>2 DEF BitPos
<1>9. Fed(f)
  BY <1>4, <1>5, <1>6 DEF Fed
<1>10. QED BY <1>2, <1>6, <1>7, <1>8, <1>9 DEF f

LEMMA RefilledFastFits ==
  ASSUME StreamOK, NEW i, ReaderFits(i), Staged(i) >= 7
  PROVE  /\ ReaderFits(RefilledFast(i))
         /\ BitPos(RefilledFast(i)) = BitPos(i)
         /\ RefilledFast(i).left >= 56
         /\ RefilledFast(i).over = 0 /\ i.over = 0
         /\ RefilledFast(i).end = i.end
<1> DEFINE loaded == 7 - ((i.left \div 8) % 8)
           rest == i.left % 8
           f == RefilledFast(i)
<1>1. /\ i.pos \in Nat /\ i.end \in Nat /\ i.left \in Int /\ i.over \in Int
      /\ Staged(i) = i.end - i.pos /\ stream.nbytes \in Nat
      /\ DOMAIN i = {"pos", "end", "left", "over"}
  BY ReaderTypes DEF ReaderFits, StreamOK
<1>2. i.over = 0
  BY <1>1 DEF ReaderFits
<1>3. /\ loaded \in 0 .. 7 /\ rest \in 0 .. 7
      /\ 8 * loaded = 56 + rest - i.left
  BY <1>1 DEF ReaderFits
<1>4. f = [i EXCEPT !.pos = @ + loaded, !.left = 56 + rest]
  BY DEF RefilledFast
<1> HIDE DEF f, loaded, rest
<1>5. f.pos = i.pos + loaded /\ f.end = i.end /\ f.left = 56 + rest /\ f.over = i.over
  BY <1>1, <1>4
<1>6. ReaderOK(f)
  BY RefilledFastReader DEF ReaderFits, f
<1>7. ReaderFits(f)
  <2>1. f.end <= stream.nbytes /\ f.left >= 0 /\ f.left <= 63 /\ f.over = 0
    BY <1>2, <1>3, <1>5 DEF ReaderFits
  <2>2. f.end - f.pos <= INPUT_BUF_SIZE
    BY <1>1, <1>3, <1>5, StreamAssumption DEF ReaderFits
  <2>3. QED BY <1>6, <2>1, <2>2 DEF ReaderFits
<1>8. BitPos(f) = BitPos(i)
  BY <1>1, <1>2, <1>3, <1>5 DEF BitPos
<1>9. QED BY <1>2, <1>3, <1>5, <1>7, <1>8 DEF f

LEMMA RefilledFits ==
  ASSUME StreamOK, NEW i, ReaderFits(i), i.over <= 8, Fed(i)
  PROVE  /\ ReaderFits(Refilled(i))
         /\ BitPos(Refilled(i)) = BitPos(i)
         /\ Refilled(i).left >= 56
         /\ Refilled(i).end = i.end
<1>1. /\ i.pos \in Nat /\ i.end \in Nat /\ i.left \in Int /\ i.over \in Int
      /\ Staged(i) = i.end - i.pos /\ stream.nbytes \in Nat
      /\ DOMAIN i = {"pos", "end", "left", "over"}
  BY ReaderTypes DEF ReaderFits, StreamOK
<1>2. CASE Staged(i) >= 8
  <2>1. Staged(i) >= 7
    BY <1>1, <1>2
  <2>2. QED BY <1>2, <2>1, RefilledFastFits DEF Refilled
<1>3. CASE ~(Staged(i) >= 8)
  <2> DEFINE wanted == IF i.left >= 56 THEN 0 ELSE (63 - i.left) \div 8
             real == Min({wanted, Staged(i)})
             f == Refilled(i)
  <2>1. /\ wanted \in 0 .. 7
        /\ i.left + 8 * wanted >= 56 /\ i.left + 8 * wanted <= 63
    <3>1. CASE i.left >= 56
      BY <1>1, <3>1 DEF ReaderFits
    <3>2. CASE ~(i.left >= 56)
      BY <1>1, <3>2 DEF ReaderFits
    <3>3. QED BY <3>1, <3>2
  <2>2. f = [i EXCEPT !.pos = @ + real, !.over = @ + (wanted - real),
                      !.left = @ + 8 * wanted]
    BY <1>3 DEF Refilled, RefilledSlow
  <2>3. real = IF wanted <= Staged(i) THEN wanted ELSE Staged(i)
    <3>1. wanted \in Int /\ Staged(i) \in Int
      BY <1>1, <2>1
    <3> HIDE DEF wanted
    <3>2. QED BY <3>1, SmallerOfTwo
  <2> HIDE DEF wanted, real, f
  <2>4. /\ f.pos = i.pos + real /\ f.end = i.end
        /\ f.over = i.over + (wanted - real) /\ f.left = i.left + 8 * wanted
    BY <1>1, <2>2
  <2>5. ReaderOK(f)
    BY RefilledReader DEF ReaderFits, f
  <2>6. /\ real \in Nat /\ real <= wanted /\ real <= Staged(i)
        /\ real < wanted => real = Staged(i) /\ i.end = stream.nbytes
    <3>1. Staged(i) \in Nat /\ wanted \in Nat /\ wanted <= 7
      BY <1>1, <2>1, ReaderTypes DEF ReaderFits
    <3>2. real \in Nat /\ real <= wanted /\ real <= Staged(i)
      BY <2>3, <3>1
    <3>3. real < wanted => real = Staged(i) /\ Staged(i) < 7
      BY <2>3, <3>1
    <3>4. Staged(i) < 7 => i.end = stream.nbytes
      BY <3>1 DEF Fed
    <3>5. QED BY <3>2, <3>3, <3>4
  <2>7. ReaderFits(f)
    <3>1. /\ 0 <= f.left /\ f.left <= 63 /\ f.end <= stream.nbytes
          /\ 0 <= i.over /\ i.over <= 8 /\ wanted - real \in 0 .. 7
      BY <1>1, <2>1, <2>4, <2>6 DEF ReaderFits
    <3>2. 0 <= f.over /\ f.over <= 15
      BY <1>1, <2>4, <3>1
    <3>3. f.end - f.pos <= INPUT_BUF_SIZE
      BY <1>1, <2>4, <2>6, StreamAssumption DEF ReaderFits
    <3>4. f.over > 0 => f.pos = stream.nbytes
      <4>1. CASE real < wanted
        BY <1>1, <2>4, <2>6, <4>1
      <4>2. CASE ~(real < wanted)
        <5>1. wanted = real /\ f.over = i.over
          BY <1>1, <2>1, <2>4, <2>6, <4>2
        <5>2. CASE i.over > 0
          <6>1. i.pos = stream.nbytes /\ Staged(i) = 0
            BY <1>1, <5>2 DEF ReaderFits, ReaderOK
          <6>2. QED BY <1>1, <2>4, <2>6, <6>1
        <5>3. QED BY <5>1, <5>2
      <4>3. QED BY <4>1, <4>2
    <3>5. QED BY <2>5, <3>1, <3>2, <3>3, <3>4 DEF ReaderFits
  <2>8. BitPos(f) = BitPos(i)
    BY <1>1, <2>1, <2>4, <2>6 DEF BitPos
  <2>9. QED BY <2>1, <2>4, <2>7, <2>8 DEF f
<1>4. QED BY <1>2, <1>3

LEMMA ConsumedFits ==
  ASSUME NEW i, ReaderFits(i), NEW n \in Nat, n <= i.left
  PROVE  /\ ReaderFits(Consumed(i, n))
         /\ BitPos(Consumed(i, n)) = BitPos(i) + n
         /\ Consumed(i, n).left = i.left - n
         /\ Consumed(i, n).pos = i.pos /\ Consumed(i, n).end = i.end
         /\ Consumed(i, n).over = i.over
<1> DEFINE f == Consumed(i, n)
<1>1. /\ i.pos \in Nat /\ i.end \in Nat /\ i.left \in Int /\ i.over \in Int
  BY ReaderTypes DEF ReaderFits
<1>2. /\ ReaderOK(f) /\ f.left = i.left - n /\ f.pos = i.pos /\ f.end = i.end
      /\ f.over = i.over
  BY ConsumedReader DEF ReaderFits
<1> HIDE DEF f
<1>3. ReaderFits(f) /\ BitPos(f) = BitPos(i) + n
  BY <1>1, <1>2 DEF ReaderFits, BitPos
<1>4. QED BY <1>2, <1>3 DEF f

(* Padding counts as read exactly when the reader is past the end.         *)
LEMMA WithinStream ==
  ASSUME StreamOK, NEW i, ReaderFits(i), BitPos(i) <= 8 * stream.nbytes
  PROVE  i.over <= 7 /\ i.over <= i.left \div 8 /\ ~Overrun(i)
<1>1. /\ i.pos \in Nat /\ i.end \in Nat /\ i.left \in Int /\ i.over \in Int
      /\ stream.nbytes \in Nat /\ BitPos(i) = 8 * (i.pos + i.over) - i.left
  BY ReaderTypes DEF ReaderFits, StreamOK
<1>2. 8 * i.over <= i.left
  BY <1>1 DEF ReaderFits
<1>3. QED BY <1>1, <1>2 DEF ReaderFits, Overrun

LEMMA BeyondStream ==
  ASSUME StreamOK, NEW i, ReaderFits(i), BitPos(i) > 8 * stream.nbytes
  PROVE  /\ i.over > i.left \div 8 /\ i.over > 0
         /\ i.pos = stream.nbytes /\ i.end = stream.nbytes
         /\ i.left < 8 * i.over
         /\ RealBytes(i) = 0
<1>1. /\ i.pos \in Nat /\ i.end \in Nat /\ i.left \in Int /\ i.over \in Int
      /\ stream.nbytes \in Nat /\ BitPos(i) = 8 * (i.pos + i.over) - i.left
      /\ i.pos <= i.end
  BY ReaderTypes DEF ReaderFits, StreamOK, ReaderOK
<1>2. i.over > 0 /\ i.pos = stream.nbytes /\ i.end = stream.nbytes
  BY <1>1 DEF ReaderFits
<1>3. i.left < 8 * i.over
  BY <1>1, <1>2
<1>4. i.over > i.left \div 8
  BY <1>1, <1>3
<1>5. i.left \div 8 - i.over \in Int /\ ~(i.left \div 8 - i.over >= 0)
  BY <1>1, <1>4
<1>6. RealBytes(i) = 0
  BY <1>5, MaxWithZero DEF RealBytes
<1>7. QED BY <1>2, <1>3, <1>4, <1>6

(* A reader whose staging is empty or which is at the source's end: it is  *)
(* at a segment's end exactly when no bit is left.                         *)
LEMMA SegmentEndIsEnd ==
  ASSUME StreamOK, NEW i, ReaderFits(i), Fed(i)
  PROVE  (Staged(i) = 0 /\ i.left = 8 * i.over) <=> BitPos(i) = 8 * stream.nbytes
<1>1. /\ i.pos \in Nat /\ i.end \in Nat /\ i.left \in Int /\ i.over \in Int
      /\ stream.nbytes \in Nat /\ BitPos(i) = 8 * (i.pos + i.over) - i.left
      /\ i.pos <= i.end /\ Staged(i) = i.end - i.pos
  BY ReaderTypes DEF ReaderFits, StreamOK, ReaderOK
<1>2. ASSUME Staged(i) = 0, i.left = 8 * i.over PROVE BitPos(i) = 8 * stream.nbytes
  BY <1>1, <1>2 DEF Fed
<1>3. ASSUME BitPos(i) = 8 * stream.nbytes PROVE Staged(i) = 0 /\ i.left = 8 * i.over
  <2>1. CASE i.over > 0
    BY <1>1, <1>3, <2>1 DEF ReaderFits
  <2>2. CASE ~(i.over > 0)
    <3>1. i.over = 0 /\ i.left >= 0 /\ i.end <= stream.nbytes
      BY <1>1, <2>2 DEF ReaderFits
    <3>2. 8 * i.pos - i.left = 8 * stream.nbytes
      BY <1>1, <1>3, <3>1
    <3>3. i.pos = stream.nbytes /\ i.left = 0
      <4>1. i.pos <= stream.nbytes
        BY <1>1, <3>1
      <4>2. ~(i.pos < stream.nbytes)
        <5> SUFFICES ASSUME i.pos < stream.nbytes PROVE FALSE
          OBVIOUS
        <5>1. i.pos + 1 <= stream.nbytes
          BY <1>1
        <5>2. QED BY <1>1, <3>1, <3>2, <5>1
      <4>3. i.pos = stream.nbytes
        BY <1>1, <4>1, <4>2
      <4>4. i.left \in Int /\ stream.nbytes \in Int
        BY <1>1
      <4>5. 8 * stream.nbytes - i.left = 8 * stream.nbytes
        BY <3>2, <4>3
      <4>6. i.left = 0
        BY <4>4, <4>5
      <4>7. QED BY <4>3, <4>6
    <3>4. QED BY <1>1, <3>1, <3>3
  <2>3. QED BY <2>1, <2>2
<1>4. QED BY <1>2, <1>3

(* Dropping the bits of a started byte.                                    *)
LEMMA AligningReader ==
  ASSUME NEW i, ReaderFits(i), BitPos(i) \in Nat
  PROVE  /\ i.left % 8 \in 0 .. 7 /\ i.left % 8 <= i.left
         /\ BitPos(Consumed(i, i.left % 8)) = Aligned(BitPos(i))
<1>1. /\ i.pos \in Nat /\ i.left \in Int /\ i.over \in Int
      /\ BitPos(i) = 8 * (i.pos + i.over) - i.left
  BY ReaderTypes DEF ReaderFits
<1> DEFINE c == i.left % 8
           q == i.left \div 8
           m == i.pos + i.over - q
           b == BitPos(i)
<1>2. c \in 0 .. 7 /\ q \in Int /\ i.left = 8 * q + c /\ c <= i.left
  BY <1>1 DEF ReaderFits
<1>3. m \in Int /\ b = 8 * m - c
  <2> HIDE DEF c, q
  <2>1. QED BY <1>1, <1>2
<1>4. BitPos(Consumed(i, c)) = b + c
  BY <1>2, ConsumedFits
<1> HIDE DEF c, q, m, b
<1>5. (8 - (b % 8)) % 8 = c
  <2>1. CASE c = 0
    BY <1>3, <2>1
  <2>2. CASE c # 0
    <3>1. b = 8 * (m - 1) + (8 - c) /\ 8 - c \in 0 .. 7 /\ m - 1 \in Int
      BY <1>2, <1>3, <2>2
    <3>2. b % 8 = 8 - c
      BY <3>1
    <3>3. 8 - (b % 8) = c
      BY <1>2, <3>2
    <3>4. QED BY <1>2, <3>3
  <2>3. QED BY <2>1, <2>2
<1>6. Aligned(b) = b + c
  BY <1>5 DEF Aligned
<1>7. QED BY <1>2, <1>4, <1>6 DEF b, c

-------------------------------------------------------------------------------
(* What a decoder that has read k tokens reads next.                       *)

Known == LaidOut /\ Meant /\ Suited

LEMMA TokenEnds ==
  ASSUME LaidOut
  PROVE  /\ Size \in Nat /\ stream.held \in Nat /\ stream.held <= Size
         /\ stream.nbytes \in Nat
         /\ \A k \in 0 .. Size : TokenEnd(k) \in Nat
         /\ \A k \in 0 .. stream.held : /\ k \in 0 .. Size
                                        /\ TokenEnd(k) <= TokenEnd(stream.held)
                                        /\ TokenEnd(k) <= 8 * stream.nbytes
<1>1. /\ Size \in Nat /\ stream.held \in 0 .. Size /\ stream.nbytes \in Nat
      /\ \A k \in 0 .. Size : TokenEnd(k) \in Nat
  BY DEF LaidOut
<1>2. ASSUME NEW k \in 0 .. stream.held
      PROVE  /\ k \in 0 .. Size
             /\ TokenEnd(k) <= TokenEnd(stream.held)
             /\ TokenEnd(k) <= 8 * stream.nbytes
  <2>1. k \in 0 .. Size /\ stream.held \in k .. Size /\ k <= stream.held
    BY <1>1
  <2>2. TokenEnd(k) <= TokenEnd(stream.held)
    BY <2>1 DEF LaidOut
  <2>3. TokenEnd(k) <= 8 * stream.nbytes
    <3>1. CASE k = 0
      <4>1. TokenEnd(k) = 0
        BY <3>1 DEF TokenEnd
      <4>2. QED BY <1>1, <4>1
    <3>2. CASE k # 0
      <4>1. k \in 1 .. Size
        BY <2>1, <3>2
      <4>2. QED BY <2>1, <4>1 DEF LaidOut
    <3>3. QED BY <3>1, <3>2
  <2>4. QED BY <2>1, <2>2, <2>3
<1>3. QED BY <1>1, <1>2

(* Token k + 1, where it lies and what it means after k good tokens.       *)
LEMMA NextToken ==
  ASSUME Known, NEW k \in 0 .. stream.held, k < stream.held, ~D[k].fault
  PROVE  LET t == stream.toks[k + 1]
             d == D[k]
             e == D[k + 1]
         IN  /\ k + 1 \in 0 .. stream.held /\ k + 1 \in 1 .. Size
             /\ t \in Token /\ PlaceOf(t) = d.place
             /\ stream.starts[k + 1] \in Nat
             /\ TokenEnd(k) <= stream.starts[k + 1]
             /\ TokenEnd(k + 1) = stream.starts[k + 1] + Width(t)
             /\ TokenEnd(k + 1) <= 8 * stream.nbytes
             /\ t.kind \notin {"len", "footer"} => stream.starts[k + 1] = TokenEnd(k)
             /\ t.kind \in {"len", "footer"} => stream.starts[k + 1] = Aligned(TokenEnd(k))
             /\ d \in Meaning /\ e \in Meaning /\ e = DecodeToken(d, t)
             /\ Leads(d.out, e.out)
<1> DEFINE t == stream.toks[k + 1]
           d == D[k]
           e == D[k + 1]
<1>1. /\ Size \in Nat /\ stream.held \in Nat /\ stream.held <= Size
      /\ k \in 0 .. Size /\ k + 1 \in 0 .. stream.held /\ k + 1 \in 1 .. Size
      /\ k + 1 \in 1 .. Size + 1 /\ (k + 1) - 1 = k /\ k + 1 \in 0 .. Size
      /\ k + 1 <= Size
  BY TokenEnds DEF Known
<1>2. t \in Token
  BY <1>1 DEF Known, LaidOut
<1>3. PlaceOf(t) = d.place
  <2>1. \A j \in 1 .. Size : D[j - 1].fault \/ PlaceOf(stream.toks[j]) = D[j - 1].place
    BY DEF Known, Suited
  <2>2. D[(k + 1) - 1].fault \/ PlaceOf(stream.toks[k + 1]) = D[(k + 1) - 1].place
    BY <1>1, <2>1
  <2>3. QED BY <1>1, <2>2
<1>4. stream.starts[k + 1] \in Nat
  BY <1>1 DEF Known, LaidOut
<1>5. /\ TokenEnd(k) <= stream.starts[k + 1]
      /\ TokenEnd(k + 1) = stream.starts[k + 1] + Width(t)
  <2>1. \A j \in 1 .. Size : /\ TokenEnd(j - 1) <= stream.starts[j]
                             /\ TokenEnd(j) = stream.starts[j] + Width(stream.toks[j])
    BY DEF Known, LaidOut
  <2>2. TokenEnd((k + 1) - 1) <= stream.starts[k + 1]
    BY <1>1, <2>1
  <2>3. QED BY <1>1, <2>1, <2>2
<1>6. TokenEnd(k + 1) <= 8 * stream.nbytes
  BY <1>1, TokenEnds DEF Known
<1>7. stream.starts[k + 1] = StartAt(stream.toks, k + 1, TokenEnd(k))
  BY <1>1 DEF Known, LaidOut
<1>8. /\ t.kind \notin {"len", "footer"} => stream.starts[k + 1] = TokenEnd(k)
      /\ t.kind \in {"len", "footer"} => stream.starts[k + 1] = Aligned(TokenEnd(k))
  BY <1>1, <1>7 DEF StartAt, Size
<1>9. d \in Meaning /\ e \in Meaning
  BY <1>1 DEF Known, Meant
<1>10. e = DecodeToken(d, t)
  <2>1. \A j \in 1 .. Size : D[j] = DecodeToken(D[j - 1], stream.toks[j])
    BY DEF Known, Meant
  <2>2. D[k + 1] = DecodeToken(D[(k + 1) - 1], stream.toks[k + 1])
    BY <1>1, <2>1
  <2>3. QED BY <1>1, <2>2
<1>11. Leads(d.out, e.out)
  <2>1. k + 1 \in k .. Size
    BY <1>1
  <2>2. QED BY <1>1, <2>1 DEF Known, Meant
<1>12. QED BY <1>1, <1>2, <1>3, <1>4, <1>5, <1>6, <1>8, <1>9, <1>10, <1>11

(* Exactly one token starts where one starts.                              *)
LEMMA TokenHere ==
  ASSUME LaidOut, NEW k \in 0 .. stream.held, k < stream.held,
         NEW i, BitPos(i) = stream.starts[k + 1], NEW kinds,
         stream.toks[k + 1].kind \in kinds
  PROVE  /\ Tokens(i, kinds) = {stream.toks[k + 1]}
         /\ HasToken(i, kinds)
         /\ TheToken(i, kinds) = stream.toks[k + 1]
         /\ \A phantoms : Read(i, kinds, phantoms) = {stream.toks[k + 1]}
<1> DEFINE t == stream.toks[k + 1]
<1>1. /\ Size \in Nat /\ stream.held \in Nat /\ stream.held <= Size
      /\ k + 1 \in 1 .. stream.held /\ k + 1 \in 1 .. Size /\ k + 1 \in 0 .. stream.held
  BY TokenEnds
<1>2. /\ stream.starts[k + 1] < TokenEnd(k + 1)
      /\ TokenEnd(k + 1) = stream.starts[k + 1] + Width(t)
      /\ TokenEnd(k + 1) <= 8 * stream.nbytes
  BY <1>1, TokenEnds DEF LaidOut
<1>3. ASSUME NEW j \in 1 .. stream.held, stream.starts[j] = stream.starts[k + 1]
      PROVE  j = k + 1
  <2>1. /\ j \in 1 .. Size /\ j - 1 \in 0 .. Size /\ j \in 0 .. Size /\ k + 1 \in 0 .. Size
        /\ (k + 1) - 1 \in 0 .. Size
        /\ j \in 1 .. (Size + 1) /\ k + 1 \in 1 .. (Size + 1)
    BY <1>1
  <2>2. /\ TokenEnd(j - 1) <= stream.starts[j] /\ stream.starts[j] < TokenEnd(j)
        /\ TokenEnd((k + 1) - 1) <= stream.starts[k + 1]
    BY <1>1, <2>1 DEF LaidOut
  <2>3. /\ TokenEnd(j - 1) \in Nat /\ TokenEnd(j) \in Nat /\ TokenEnd(k + 1) \in Nat
        /\ TokenEnd((k + 1) - 1) \in Nat
        /\ stream.starts[j] \in Nat /\ stream.starts[k + 1] \in Nat
    BY <2>1 DEF LaidOut
  <2>4. CASE j < k + 1
    <3>1. (k + 1) - 1 \in j .. Size
      BY <1>1, <2>1, <2>4
    <3>2. TokenEnd(j) <= TokenEnd((k + 1) - 1)
      BY <2>1, <3>1 DEF LaidOut
    <3>3. QED BY <1>3, <2>2, <2>3, <3>2
  <2>5. CASE j > k + 1
    <3>1. j - 1 \in (k + 1) .. Size
      BY <1>1, <2>1, <2>5
    <3>2. TokenEnd(k + 1) <= TokenEnd(j - 1)
      BY <2>1, <3>1 DEF LaidOut
    <3>3. QED BY <1>2, <1>3, <2>2, <2>3, <3>2
  <2>6. QED BY <1>1, <2>4, <2>5
<1>4. TokensAt(BitPos(i)) = {t}
  <2>1. \A u \in TokensAt(BitPos(i)) : u = t
    BY <1>3 DEF TokensAt, TokensOf
  <2>2. t \in TokensAt(BitPos(i))
    BY <1>1, <1>2 DEF TokensAt, TokensOf
  <2>3. QED BY <2>1, <2>2
<1>5. Tokens(i, kinds) = {t}
  BY <1>4 DEF Tokens, TokensFor, TokensAt
<1>6. HasToken(i, kinds) /\ TheToken(i, kinds) = t
  BY <1>5 DEF HasToken, TheToken
<1>7. ASSUME NEW phantoms PROVE Read(i, kinds, phantoms) = {t}
  BY <1>5 DEF Read, ReadFrom, Tokens
<1>8. QED BY <1>5, <1>6, <1>7

(* None starts after the last one that is whole.                           *)
LEMMA NoTokenHere ==
  ASSUME LaidOut, NEW i, BitPos(i) \in Nat, BitPos(i) >= TokenEnd(stream.held), NEW kinds
  PROVE  /\ Tokens(i, kinds) = {}
         /\ ~HasToken(i, kinds)
         /\ \A phantoms : Read(i, kinds, phantoms) \subseteq phantoms
<1>1. /\ Size \in Nat /\ stream.held \in Nat /\ stream.held <= Size
      /\ stream.held \in 0 .. Size
      /\ TokenEnd(stream.held) \in Nat
  BY TokenEnds
<1>2. ASSUME NEW j \in 1 .. stream.held, stream.starts[j] = BitPos(i)
      PROVE  FALSE
  <2>1. j \in 1 .. Size /\ j \in 0 .. stream.held /\ j \in 0 .. Size
    BY <1>1
  <2>2. TokenEnd(j) <= TokenEnd(stream.held) /\ TokenEnd(j) \in Nat
    BY <2>1, TokenEnds
  <2>3. stream.starts[j] < TokenEnd(j)
    BY <2>1 DEF LaidOut
  <2>4. QED BY <1>1, <1>2, <2>2, <2>3
<1>3. Tokens(i, kinds) = {}
  BY <1>2 DEF Tokens, TokensFor, TokensOf
<1>4. QED BY <1>3 DEF HasToken, Read, ReadFrom, Tokens

(* After the last whole token only what reaches past the source's end is   *)
(* taken for one.                                                          *)
LEMMA PhantomReaches ==
  ASSUME Known, ~D[stream.held].fault, D[stream.held].place \notin {"len", "footer"},
         NEW i, BitPos(i) = TokenEnd(stream.held), NEW kinds, NEW phantoms,
         NEW t \in Read(i, kinds, phantoms)
  PROVE  t \in phantoms /\ BitPos(i) + Width(t) > 8 * stream.nbytes
<1> DEFINE h == stream.held
<1>1. /\ Size \in Nat /\ h \in Nat /\ h <= Size /\ h \in 0 .. Size
      /\ h + 1 \in 1 .. (Size + 1)
      /\ TokenEnd(h) \in Nat
  BY TokenEnds DEF Known
<1>2. Tokens(i, kinds) = {}
  BY <1>1, NoTokenHere DEF Known
<1>3. stream.starts[h + 1] = TokenEnd(h)
  <2>1. stream.starts[h + 1] = StartAt(stream.toks, h + 1, TokenEnd(h))
    BY <1>1 DEF Known, LaidOut
  <2>2. CASE h = Size
    <3>1. ~(h + 1 <= Len(stream.toks))
      BY <1>1, <2>2 DEF Size
    <3>2. QED BY <2>1, <3>1 DEF StartAt
  <2>3. CASE h # Size
    <3>1. h + 1 \in 1 .. Size /\ (h + 1) - 1 = h
      BY <1>1, <2>3
    <3>2. \A j \in 1 .. Size : D[j - 1].fault \/ PlaceOf(stream.toks[j]) = D[j - 1].place
      BY DEF Known, Suited
    <3>3. D[(h + 1) - 1].fault \/ PlaceOf(stream.toks[h + 1]) = D[(h + 1) - 1].place
      BY <3>1, <3>2
    <3>4. PlaceOf(stream.toks[h + 1]) \notin {"len", "footer"}
      BY <3>1, <3>3
    <3>5. stream.toks[h + 1].kind \notin {"len", "footer"}
      BY <3>4 DEF PlaceOf
    <3>6. QED BY <2>1, <3>5 DEF StartAt
  <2>4. QED BY <2>2, <2>3
<1>4. BitPos(i) \in Range(stream.starts)
  <2>1. stream.starts \in [1 .. (Size + 1) -> Nat]
    BY DEF Known, LaidOut
  <2>2. QED BY <1>1, <1>3, <2>1 DEF Range
<1>5. Read(i, kinds, phantoms) = {u \in phantoms : BitPos(i) + Width(u) > 8 * stream.nbytes}
  BY <1>2, <1>4 DEF Read, ReadFrom, Tokens
<1>6. QED BY <1>5

(* The fields of a stream's meaning.                                       *)
LEMMA StreamMeans ==
  ASSUME Meant
  PROVE  /\ stream.means.out = D[stream.held].out
         /\ stream.means.sum_ok = D[stream.held].sum_ok
         /\ stream.means.size_ok = D[stream.held].size_ok
         /\ stream.means.fault <=> (D[stream.held].fault \/ stream.held # Size)
         /\ stream.means.final <=> (stream.held = Size /\ D[stream.held].final)
         /\ stream.means.segment <=> (/\ stream.held = Size /\ ~D[stream.held].final
                                     /\ stream.starts[Size + 1] = 8 * stream.nbytes)
<1> DEFINE d == D[stream.held]
           whole == stream.held = Size
           ends == stream.starts[Size + 1] = 8 * stream.nbytes
<1>1. stream.means = [out |-> d.out, sum_ok |-> d.sum_ok, size_ok |-> d.size_ok,
                      fault |-> d.fault \/ ~whole, final |-> whole /\ d.final,
                      segment |-> whole /\ ~d.final /\ ends]
  BY DEF Meant
<1> DEFINE fault == d.fault \/ ~whole
           final == whole /\ d.final
           segment == whole /\ ~d.final /\ ends
<1>2. stream.means = [out |-> d.out, sum_ok |-> d.sum_ok, size_ok |-> d.size_ok,
                      fault |-> fault, final |-> final, segment |-> segment]
  BY <1>1
<1> HIDE DEF d, whole, ends, fault, final, segment
<1>3. /\ stream.means.out = d.out /\ stream.means.sum_ok = d.sum_ok
      /\ stream.means.size_ok = d.size_ok /\ stream.means.fault = fault
      /\ stream.means.final = final /\ stream.means.segment = segment
  BY <1>2
<1>4. stream.means.fault <=> (d.fault \/ ~whole)
  BY <1>3, Zenon DEF fault
<1>5. stream.means.final <=> (whole /\ d.final)
  BY <1>3, Zenon DEF final
<1>6. stream.means.segment <=> (whole /\ ~d.final /\ ends)
  BY <1>3, Zenon DEF segment
<1>7. QED BY <1>3, <1>4, <1>5, <1>6 DEF d, whole, ends

(* Such a stream has a fault.                                              *)
LEMMA FaultyStream ==
  ASSUME Known, NEW k \in 0 .. stream.held, D[k].fault
  PROVE  ~Acceptable
<1>1. stream.held \in 0 .. Size /\ k \in 0 .. Size /\ stream.held \in k .. Size
  BY TokenEnds DEF Known
<1>2. D[stream.held].fault
  BY <1>1 DEF Known, Meant
<1>3. stream.means.fault
  BY <1>2, StreamMeans DEF Known
<1>4. QED BY <1>3 DEF Acceptable

LEMMA CutOffStream ==
  ASSUME Known, ~D[stream.held].fault,
         D[stream.held].place \notin {"block", "footer", "end"}
  PROVE  ~Acceptable
<1>1. stream.held # Size
  BY DEF Known, Suited
<1>2. stream.means.fault
  BY <1>1, StreamMeans DEF Known
<1>3. QED BY <1>2 DEF Acceptable

LEMMA OutLeads ==
  ASSUME Known, NEW k \in 0 .. stream.held
  PROVE  /\ D[k].out \in Seq(Byte) /\ stream.means.out \in Seq(Byte)
         /\ Leads(D[k].out, stream.means.out)
<1>1. stream.held \in 0 .. Size /\ k \in 0 .. Size /\ stream.held \in k .. Size
  BY TokenEnds DEF Known
<1>2. D[k] \in Meaning /\ D[stream.held] \in Meaning
  BY <1>1 DEF Known, Meant
<1>3. stream.means.out = D[stream.held].out
  BY StreamMeans DEF Known
<1>4. Leads(D[k].out, D[stream.held].out)
  BY <1>1 DEF Known, Meant
<1>5. QED BY <1>2, <1>3, <1>4 DEF Meaning

-------------------------------------------------------------------------------
(* The block a token belongs to.                                           *)

BlockIs(k, type) ==
  \E j \in 1 .. k : /\ stream.toks[j].kind = "block" /\ stream.toks[j].type = type
                    /\ \A l \in (j + 1) .. k : stream.toks[l].kind # "block"

LEMMA BlockBegins ==
  ASSUME NEW k \in Nat, stream.toks[k + 1].kind = "block"
  PROVE  BlockIs(k + 1, stream.toks[k + 1].type)
<1>1. k + 1 \in 1 .. (k + 1) /\ \A l \in ((k + 1) + 1) .. (k + 1) : FALSE
  OBVIOUS
<1>2. QED BY <1>1 DEF BlockIs

LEMMA BlockGoesOn ==
  ASSUME NEW k \in Nat, stream.toks[k + 1].kind # "block", NEW type, BlockIs(k, type)
  PROVE  BlockIs(k + 1, type)
<1>1. PICK j \in 1 .. k :
        /\ stream.toks[j].kind = "block" /\ stream.toks[j].type = type
        /\ \A l \in (j + 1) .. k : stream.toks[l].kind # "block"
  BY DEF BlockIs
<1>2. j \in 1 .. (k + 1)
  OBVIOUS
<1>3. ASSUME NEW l \in (j + 1) .. (k + 1) PROVE stream.toks[l].kind # "block"
  <2>1. CASE l = k + 1
    BY <2>1
  <2>2. CASE l # k + 1
    <3>1. l \in (j + 1) .. k
      BY <2>2
    <3>2. QED BY <1>1, <3>1
  <2>3. QED BY <2>1, <2>2
<1>4. QED BY <1>1, <1>2, <1>3 DEF BlockIs

(* It is the last block that began before the reader's position.           *)
LEMMA BlockTypeIs ==
  ASSUME Known, NEW k \in 0 .. stream.held, NEW type, BlockIs(k, type),
         BitPos(in) = TokenEnd(k)
  PROVE  BlockType = type
<1> DEFINE before == {j \in 1 .. Len(stream.toks) :
                        stream.toks[j].kind = "block" /\ stream.starts[j] < BitPos(in)}
<1>1. PICK j \in 1 .. k :
        /\ stream.toks[j].kind = "block" /\ stream.toks[j].type = type
        /\ \A l \in (j + 1) .. k : stream.toks[l].kind # "block"
  BY DEF BlockIs
<1>2. /\ Size \in Nat /\ k \in 0 .. Size /\ j \in 1 .. Size /\ k \in Nat
      /\ TokenEnd(k) \in Nat
  BY <1>1, TokenEnds DEF Known
<1>3. j \in before
  <2>0. j \in 1 .. (Size + 1) /\ j \in 0 .. Size /\ k \in j .. Size
    BY <1>1, <1>2
  <2>1. stream.starts[j] < TokenEnd(j) /\ stream.starts[j] \in Nat
    BY <1>2, <2>0 DEF Known, LaidOut
  <2>2. TokenEnd(j) <= TokenEnd(k) /\ TokenEnd(j) \in Nat
    BY <2>0 DEF Known, LaidOut
  <2>3. QED BY <1>1, <1>2, <2>1, <2>2 DEF Size
<1>4. ASSUME NEW l \in before PROVE l <= j
  <2>1. l \in 1 .. Size /\ stream.toks[l].kind = "block" /\ stream.starts[l] < TokenEnd(k)
    BY DEF Size
  <2>2. l <= k
    <3> SUFFICES ASSUME ~(l <= k) PROVE FALSE
      OBVIOUS
    <3>1. l - 1 \in k .. Size /\ l - 1 \in 0 .. Size /\ l \in 1 .. (Size + 1)
      BY <1>2, <2>1
    <3>2. TokenEnd(k) <= TokenEnd(l - 1) /\ TokenEnd(l - 1) <= stream.starts[l]
      BY <1>2, <2>1, <3>1 DEF Known, LaidOut
    <3>3. TokenEnd(l - 1) \in Nat /\ stream.starts[l] \in Nat
      BY <3>1 DEF Known, LaidOut
    <3>4. QED BY <1>2, <2>1, <3>2, <3>3
  <2>3. ~(l \in (j + 1) .. k)
    BY <1>1, <2>1
  <2>4. QED BY <1>2, <2>1, <2>2, <2>3
<1>5. \A m \in before : (\A n \in before : n <= m) => m = j
  BY <1>2, <1>3, <1>4
<1>6. (CHOOSE m \in before : \A n \in before : n <= m) = j
  <2> HIDE DEF before
  <2>1. QED BY <1>3, <1>4, <1>5
<1>7. BlockType = stream.toks[CHOOSE m \in before : \A n \in before : n <= m].type
  BY DEF BlockType
<1>8. QED BY <1>1, <1>6, <1>7

-------------------------------------------------------------------------------
(* The invariant.  After a phantom the reader is past the stream's end and *)
(* the stream cannot be accepted.  Until then the decoder has read the     *)
(* first k tokens, for some k: its reader is at the end of token k, its    *)
(* state expects what may follow, and what it has produced and still owes  *)
(* is what those tokens mean.                                              *)

(* fill() may still be called, or is running.                              *)
Alive == call.pc # "idle" \/ call.result \notin Fatal

Going == Alive /\ dec.state # "Done"

ReaderInv ==
  /\ ReaderFits(in)
  /\ Alive => in.over <= 8
  /\ dec.state = "WrapperFooter" => in.over <= in.left \div 8
  /\ dec.state = "UncompressedData" => in.left < 8 \/ Staged(in) > 0 \/ in.end = stream.nbytes

DecoderFits ==
  /\ dec.state \in {"WrapperHeader", "BlockHeader", "DynamicPrecodeLens",
                    "DynamicCodeLengths", "CompressedData", "UncompressedData",
                    "WrapperFooter", "Done"}
  /\ dec.state # "CompressedData" => dec.match = NoMatch /\ dec.lits = <<>>
  /\ dec.match = NoMatch \/ dec.lits = <<>>
  /\ Len(dec.lits) <= 2
  /\ dec.static_loaded => dec.table.code = "static"
  /\ dec.state \in {"DynamicPrecodeLens", "DynamicCodeLengths"} => dec.static_loaded = FALSE
  /\ dec.state = "WrapperFooter" => dec.final

CallFits ==
  /\ call.pc \in {"idle", "dispatch", "codelens", "refill", "fast", "generic", "account"}
  /\ call.pc = "codelens" => dec.state = "DynamicCodeLengths"
  /\ call.pc \in {"refill", "fast", "generic"}
       => dec.state = "CompressedData" /\ dec.match = NoMatch /\ dec.lits = <<>>
  /\ call.pc = "dispatch" => dec.state # "Done"
  /\ DOMAIN done = {"matched", "footer", "segment"}
  /\ Going => done.segment = FALSE /\ done.matched = None

HistFits ==
  /\ hist.errors <= options.source_errors
  /\ hist.resets \in 0 .. MaxResets
  /\ hist.phantom \in BOOLEAN

(* The first k tokens have nothing wrong with them.                        *)
Good(k) == D[k].fault = FALSE /\ D[k].sum_ok = TRUE /\ D[k].size_ok = TRUE

(* In state d, with reader i, the decoder expects what follows token k.    *)
Expects(d, i, k) ==
  /\ d.final = D[k].final
  /\ d.state = "WrapperHeader" =>
       k = 0 /\ D[k].place = "wrapper" /\ i.pos = 0 /\ i.left = 0 /\ i.over = 0
  /\ d.state = "BlockHeader" => D[k].place = "block" /\ d.final = FALSE
  /\ d.state = "DynamicPrecodeLens" => D[k].place = "precode" /\ BlockIs(k, "dynamic")
  /\ d.state = "DynamicCodeLengths" => D[k].place = "lens" /\ BlockIs(k, "dynamic")
  /\ d.state = "CompressedData" => D[k].place = "symbol" /\ BlockIs(k, d.table.code)
  /\ d.state = "UncompressedData" =>
       /\ TokenEnd(k) % 8 = 0
       /\ \/ d.remaining = 0 /\ D[k].place = AfterBlock(D[k].final)
          \/ /\ d.remaining > 0 /\ D[k].place = "byte"
             /\ D[k].todo = d.remaining \/ TokenEnd(k) = 8 * stream.nbytes
  /\ d.state = "WrapperFooter" => D[k].place = "footer" /\ wrapper # "raw"

(* The reader is at token k's end, unless one of `errors` source errors    *)
(* made it drop the first bytes of the footer.                             *)
Placed(d, i, errors, k) ==
  \/ BitPos(i) = TokenEnd(k)
  \/ /\ d.state = "WrapperFooter" /\ errors > 0
     /\ i.left = 0 /\ i.over = 0 /\ 8 * i.pos >= stream.starts[k + 1]

(* Of `out`, `made` was produced and the rest waits in d.                  *)
Owes(d, made, out) ==
  IF d.match = NoMatch THEN out = made \o d.lits
  ELSE out = Copied(made, d.match.offset, d.match.length)

(* The loop that reads the code lengths has all of them staged.            *)
LensStaged(i, k) ==
  \A j \in k .. Size :
    (\A l \in (k + 1) .. j : stream.toks[l].kind = "lens")
      => (i.end = stream.nbytes \/ 8 * i.end >= TokenEnd(j) + 64)

Tracks(k) ==
  /\ Good(k)
  /\ Expects(dec, in, k)
  /\ Placed(dec, in, hist.errors, k)
  /\ Owes(dec, produced, D[k].out)
  /\ call.pc = "codelens" => LensStaged(in, k)

(* What stays of it when fill() has failed.                                *)
Follows(k) ==
  /\ Leads(produced, D[k].out)
  /\ dec.state = "CompressedData" => BitPos(in) = TokenEnd(k) /\ BlockIs(k, dec.table.code)

FollowInv ==
  ~hist.phantom =>
    \E k \in 0 .. stream.held : Follows(k) /\ (Going => Tracks(k))

PhantomInv ==
  hist.phantom =>
    /\ ~Acceptable
    /\ dec.state # "Done"
    /\ Alive => /\ BitPos(in) > 8 * stream.nbytes
                /\ dec.state \notin {"WrapperHeader", "UncompressedData", "WrapperFooter"}

Verdict == DoneIsRight /\ NoFalseError

DecodingInv ==
  /\ StreamKnown /\ ReaderInv /\ DecoderFits /\ CallFits /\ HistFits
  /\ FollowInv /\ PhantomInv /\ Verdict

-------------------------------------------------------------------------------
(* Steps that leave the stream alone.                                      *)

Kept == UNCHANGED given /\ UNCHANGED formatVars

LEMMA KnownNow ==
  ASSUME DecodingInv
  PROVE  Known
BY KnownStream DEF DecodingInv, Known

LEMMA KeptStream ==
  ASSUME Kept
  PROVE  /\ stream' = stream /\ options' = options
         /\ wrapper' = wrapper /\ checksum_policy' = checksum_policy
         /\ StreamKnown' <=> StreamKnown
         /\ D' = D /\ Size' = Size
         /\ FooterSize' = FooterSize
         /\ Acceptable' <=> Acceptable
<1>1. /\ stream' = stream /\ options' = options
      /\ wrapper' = wrapper /\ checksum_policy' = checksum_policy
  BY DEF Kept, given, formatVars
<1>2. StreamKnown' <=> StreamKnown
  BY <1>1 DEF StreamKnown, SetUpAs, Sources
<1>3. D' = D /\ Size' = Size
  BY <1>1 DEF D, Size
<1>4. FooterSize' = FooterSize
  BY <1>1 DEF FooterSize
<1>5. Acceptable' <=> Acceptable
  BY <1>1 DEF Acceptable, FooterAccepted, FooterAgrees
<1>6. QED BY <1>1, <1>2, <1>3, <1>4, <1>5

LEMMA KeptTokens ==
  ASSUME Kept, NEW k
  PROVE  /\ TokenEnd(k)' = TokenEnd(k)
         /\ Good(k)' <=> Good(k)
         /\ \A type : BlockIs(k, type)' <=> BlockIs(k, type)
<1>1. stream' = stream /\ D' = D
  BY KeptStream
<1>2. TokenEnd(k)' = TokenEnd(k)
  BY <1>1 DEF TokenEnd
<1>3. Good(k)' <=> Good(k)
  BY <1>1 DEF Good
<1>4. \A type : BlockIs(k, type)' <=> BlockIs(k, type)
  BY <1>1 DEF BlockIs
<1>5. QED BY <1>2, <1>3, <1>4

(* The step leads to k tokens read, as far as the next state says.         *)
TracksNext(k) ==
  /\ Good(k)
  /\ Expects(dec', in', k)
  /\ Placed(dec', in', hist'.errors, k)
  /\ Owes(dec', produced', D[k].out)
  /\ call'.pc = "codelens" => LensStaged(in', k)

FollowsNext(k) ==
  /\ Leads(produced', D[k].out)
  /\ dec'.state = "CompressedData" => BitPos(in') = TokenEnd(k) /\ BlockIs(k, dec'.table.code)

LEMMA NextTracks ==
  ASSUME Kept, NEW k
  PROVE  (TracksNext(k) => Tracks(k)') /\ (FollowsNext(k) => Follows(k)')
<1>1. /\ stream' = stream /\ D' = D /\ Size' = Size /\ wrapper' = wrapper
      /\ TokenEnd(k)' = TokenEnd(k)
      /\ Good(k)' <=> Good(k)
      /\ \A type : BlockIs(k, type)' <=> BlockIs(k, type)
  BY KeptStream, KeptTokens
<1>2. BlockIs(k, dec.table.code)' <=> BlockIs(k, dec'.table.code)
  BY <1>1 DEF BlockIs
<1>3. BlockIs(k, "dynamic")' <=> BlockIs(k, "dynamic")
  BY <1>1
<1>4. Expects(dec', in', k) => Expects(dec, in, k)'
  BY <1>1, <1>2, <1>3 DEF Expects, AfterBlock
<1>5. Placed(dec', in', hist'.errors, k) => Placed(dec, in, hist.errors, k)'
  BY <1>1 DEF Placed, BitPos
<1>6. Owes(dec', produced', D[k].out) => Owes(dec, produced, D[k].out)'
  BY <1>1 DEF Owes, NoMatch, Copied
<1>7. LensStaged(in', k) => LensStaged(in, k)'
  BY <1>1, KeptTokens DEF LensStaged, TokenEnd
<1>8. TracksNext(k) => Tracks(k)'
  BY <1>1, <1>4, <1>5, <1>6, <1>7 DEF TracksNext, Tracks
<1>9. FollowsNext(k) => Follows(k)'
  BY <1>1, <1>2 DEF FollowsNext, Follows, Leads, BitPos
<1>10. QED BY <1>8, <1>9

(* What is owed comes after what was produced.                             *)
LEMMA OwedLeads ==
  ASSUME NEW d, NEW made \in Seq(Byte), NEW out, Owes(d, made, out),
         d.lits \in Seq(Byte),
         d.match # NoMatch => d.match.offset \in 1 .. Len(made) /\ d.match.length \in Nat
  PROVE  Leads(made, out)
<1>1. CASE d.match = NoMatch
  BY <1>1, ConcatLeads DEF Owes
<1>2. CASE d.match # NoMatch
  BY <1>2, CopiedFacts DEF Owes
<1>3. QED BY <1>1, <1>2

LEMMA PendingKnown ==
  ASSUME WindowInv, DecoderInv
  PROVE  /\ produced \in Seq(Byte) /\ dec.lits \in Seq(Byte)
         /\ dec.match # NoMatch =>
              dec.match.offset \in 1 .. Len(produced) /\ dec.match.length \in Nat
<1>1. produced \in Seq(Byte) /\ dec.lits \in Seq(Byte) /\ dec.match \in [offset : Nat, length : Nat]
  BY DEF WindowInv, BufferTypeOK, DecoderInv, DecoderOK
<1>2. lookback_valid \in Nat /\ lookback_valid <= Len(produced) /\ Len(produced) \in Nat
  BY <1>1, LenProperties, BufferAssumption DEF WindowInv, LookbackExact, AtMost
<1>3. dec.match # NoMatch => dec.match.offset \in 1 .. Len(produced)
  BY <1>2 DEF DecoderInv, PendingReaches
<1>4. QED BY <1>1, <1>3

(* A step after which the decoder goes on with k tokens read.              *)
LEMMA GoesOn ==
  ASSUME Kept, WindowInv', DecoderInv', NEW k \in 0 .. stream.held, TracksNext(k),
         dec'.state = "CompressedData" => BitPos(in') = TokenEnd(k)
  PROVE  FollowInv'
<1>1. /\ produced' \in Seq(Byte) /\ dec'.lits \in Seq(Byte)
      /\ dec'.match # NoMatch =>
           dec'.match.offset \in 1 .. Len(produced') /\ dec'.match.length \in Nat
  <2>1. (/\ produced \in Seq(Byte) /\ dec.lits \in Seq(Byte)
         /\ dec.match # NoMatch =>
              dec.match.offset \in 1 .. Len(produced) /\ dec.match.length \in Nat)'
    BY PendingKnown, PTL
  <2>2. NoMatch' = NoMatch
    BY DEF NoMatch
  <2>3. QED BY <2>1, <2>2
<1>2. Leads(produced', D[k].out)
  BY <1>1, OwedLeads DEF TracksNext
<1>3. dec'.state = "CompressedData" => BlockIs(k, dec'.table.code)
  BY DEF TracksNext, Expects
<1>4. FollowsNext(k)
  BY <1>2, <1>3 DEF FollowsNext
<1>5. Follows(k)' /\ Tracks(k)'
  BY <1>4, NextTracks
<1>6. stream' = stream
  BY KeptStream
<1>7. QED BY <1>5, <1>6 DEF FollowInv

(* A step by which fill() fails for good.                                  *)
LEMMA FailsAfter ==
  ASSUME Kept, ~Going', NEW k \in 0 .. stream.held, FollowsNext(k)
  PROVE  FollowInv'
<1>1. Follows(k)' /\ stream' = stream
  BY NextTracks, KeptStream
<1>2. QED BY <1>1 DEF FollowInv

(* The verdicts after a step that does not end the stream.                 *)
LEMMA NoVerdict ==
  ASSUME Kept, Verdict, dec'.state # "Done", hist.errors \in Nat, hist'.errors \in Nat,
         hist'.errors >= hist.errors,
         \/ call'.result = call.result
         \/ call'.result \notin {"BadData", "InvalidHeader", "ChecksumMismatch"}
         \/ ~Acceptable
         \/ hist'.errors > 0
  PROVE  Verdict'
<1>1. DoneIsRight'
  BY DEF DoneIsRight
<1>2. NoFalseError'
  <2> SUFFICES ASSUME hist'.errors = 0,
                      call'.result \in {"BadData", "InvalidHeader", "ChecksumMismatch"}
               PROVE  ~Acceptable'
    BY DEF NoFalseError, NeverCalledCorrupt
  <2>1. Acceptable' <=> Acceptable
    BY KeptStream
  <2>2. CASE call'.result = call.result
    <3>1. hist.errors = 0
      OBVIOUS
    <3>2. QED BY <2>1, <2>2, <3>1 DEF Verdict, NoFalseError, NeverCalledCorrupt
  <2>3. QED BY <2>1, <2>2
<1>3. QED BY <1>1, <1>2 DEF Verdict

-------------------------------------------------------------------------------
(* The shape of the decoder's state.                                       *)

LEMMA EndsBlock ==
  ASSUME DecoderOK, DecoderFits, dec.match = NoMatch, dec.lits = <<>>, NEW i, FinishBlock(i)
  PROVE  /\ DecoderFits'
         /\ dec'.match = NoMatch /\ dec'.lits = <<>>
<1>1. CASE Finished(i) = "BadData"
  BY <1>1 DEF FinishBlock, DecoderFits, NoMatch
<1>2. CASE Finished(i) # "BadData"
  <2>1. dec' = [dec EXCEPT !.state = Finished(i), !.remaining = 0]
    BY <1>2, Zenon DEF FinishBlock
  <2>2. Finished(i) \in {"BlockHeader", "Done", "WrapperFooter"}
        /\ (Finished(i) = "WrapperFooter" => dec.final)
    BY <1>2 DEF Finished
  <2>3. QED BY <2>1, <2>2 DEF DecoderOK, DecoderFits, NoMatch
<1>3. QED BY <1>1, <1>2

(* A table is built for a block.                                           *)
LEMMA TableFits ==
  ASSUME DecoderOK, DecoderFits, dec.match = NoMatch, dec.lits = <<>>,
         NEW code, NEW longest
  PROVE  LET w == WithTable(code, longest) IN
         /\ DOMAIN w = DOMAIN dec
         /\ w.state = "CompressedData" /\ w.match = NoMatch /\ w.lits = <<>>
         /\ w.static_loaded = dec.static_loaded /\ w.final = dec.final
         /\ w.table.code = code /\ w.remaining = dec.remaining
BY DEF WithTable, DecoderOK, DecoderFits

LEMMA HeaderKeepsFit ==
  ASSUME DecoderOK, DecoderFits, ParseBlockHeader
  PROVE  DecoderFits'
<1> DEFINE r == Refilled(Filled(in))
<1>1. \/ BadBlock(r, dec.final)
      \/ \E t \in Read(r, {"block"}, Phantoms.block) :
           \/ BeginDynamic(r, t)
           \/ BeginStatic(r, t)
           \/ BeginStored(r, t)
           \/ BadBlock(r, t.final)
  BY Zenon DEF ParseBlockHeader
<1> HIDE DEF r
<1>2. dec.state = "BlockHeader" /\ dec.match = NoMatch /\ dec.lits = <<>>
  BY DEF ParseBlockHeader, DecoderFits
<1>3. ASSUME NEW final, BadBlock(r, final)
      PROVE  DecoderFits'
  <2>1. dec' = [dec EXCEPT !.final = final]
    BY <1>3 DEF BadBlock
  <2>2. QED BY <1>2, <2>1 DEF DecoderOK, DecoderFits, NoMatch
<1>4. ASSUME NEW t, BeginDynamic(r, t)
      PROVE  DecoderFits'
  <2>1. dec' = [dec EXCEPT !.state = "DynamicPrecodeLens", !.final = t.final,
                           !.static_loaded = FALSE]
    BY <1>4 DEF BeginDynamic
  <2>2. QED BY <1>2, <2>1 DEF DecoderOK, DecoderFits, NoMatch
<1>5. ASSUME NEW t, BeginStatic(r, t)
      PROVE  DecoderFits'
  <2>1. CASE dec.static_loaded
    <3>1. dec' = [dec EXCEPT !.state = "CompressedData", !.final = t.final]
      BY <1>5, <2>1 DEF BeginStatic
    <3>2. QED BY <1>2, <2>1, <3>1 DEF DecoderOK, DecoderFits, NoMatch
  <2>2. CASE ~dec.static_loaded
    <3> DEFINE w == WithTable("static", 9)
    <3>1. dec' = [w EXCEPT !.static_loaded = TRUE, !.state = "CompressedData",
                           !.final = t.final]
      BY <1>5, <2>2 DEF BeginStatic
    <3>2. /\ DOMAIN w = DOMAIN dec /\ w.match = NoMatch /\ w.lits = <<>>
          /\ w.table.code = "static"
      BY <1>2, TableFits
    <3> HIDE DEF w
    <3>3. QED BY <1>2, <3>1, <3>2 DEF DecoderOK, DecoderFits, NoMatch
  <2>3. QED BY <2>1, <2>2
<1>6. ASSUME NEW t, BeginStored(r, t)
      PROVE  DecoderFits'
  <2>1. \/ \E n : dec' = [dec EXCEPT !.state = "UncompressedData",
                                     !.final = t.final, !.remaining = n]
        \/ dec' = [dec EXCEPT !.final = t.final]
    BY <1>6, Zenon DEF BeginStored
  <2>2. /\ dec'.state \in {"UncompressedData", "BlockHeader"}
        /\ dec'.match = dec.match /\ dec'.lits = dec.lits
        /\ dec'.static_loaded = dec.static_loaded /\ dec'.table = dec.table
    BY <1>2, <2>1 DEF DecoderOK
  <2>3. QED BY <1>2, <2>2 DEF DecoderFits, NoMatch
<1>7. QED BY <1>1, <1>3, <1>4, <1>5, <1>6

LEMMA HandlersKeepFit ==
  ASSUME WindowInv, DecoderInv, DecoderInv', DecoderFits, CallFits, HandlerStep
  PROVE  DecoderFits'
<1>0. DecoderOK /\ DecoderOK' /\ StreamOK
  BY DEF DecoderInv
<1>1. CASE UNCHANGED dec
  BY <1>1 DEF DecoderFits, NoMatch
<1>2. CASE \/ ParseWrapperHeader \/ EndSegment \/ ParseDynamicPrecodeLens
  <2>1. \/ UNCHANGED dec
        \/ /\ dec.state \in {"WrapperHeader", "BlockHeader"}
           /\ \E s \in {"BlockHeader", "Done"} : dec' = [dec EXCEPT !.state = s]
        \/ /\ dec.state = "DynamicPrecodeLens"
           /\ dec' = [dec EXCEPT !.state = "DynamicCodeLengths"]
    BY <1>2, Zenon DEF ParseWrapperHeader, EndSegment, ParseDynamicPrecodeLens
  <2>2. QED BY <1>0, <1>1, <2>1 DEF DecoderOK, DecoderFits, NoMatch
<1>3. CASE ParseBlockHeader
  BY <1>0, <1>3, HeaderKeepsFit
<1>4. CASE ParseCodeLength
  <2>1. \/ UNCHANGED dec
        \/ \E longest : dec' = WithTable("dynamic", longest)
    BY <1>4, Zenon DEF ParseCodeLength
  <2>2. dec.state = "DynamicCodeLengths" /\ ~dec.static_loaded
        /\ dec.match = NoMatch /\ dec.lits = <<>>
    BY <1>4 DEF ParseCodeLength, CallFits, DecoderFits
  <2>3. ASSUME NEW longest, dec' = WithTable("dynamic", longest)
        PROVE  DecoderFits'
    <3> DEFINE w == WithTable("dynamic", longest)
    <3>1. /\ w.state = "CompressedData" /\ w.match = NoMatch /\ w.lits = <<>>
          /\ w.static_loaded = dec.static_loaded
      BY <1>0, <2>2, TableFits
    <3>2. dec' = w
      BY <2>3
    <3> HIDE DEF w
    <3>3. /\ dec'.state = "CompressedData" /\ dec'.match = NoMatch /\ dec'.lits = <<>>
          /\ ~dec'.static_loaded
      BY <2>2, <3>1, <3>2
    <3>4. QED BY <3>3 DEF DecoderFits, NoMatch
  <2>4. QED BY <1>1, <2>1, <2>3
<1>5. CASE ResumeMatch
  <2>1. \E m : dec' = [dec EXCEPT !.match = m]
    BY <1>5, Zenon DEF ResumeMatch
  <2>2. dec.state = "CompressedData" /\ dec.match # NoMatch
    BY <1>5 DEF ResumeMatch, InBlock
  <2>3. QED BY <1>0, <2>1, <2>2 DEF DecoderOK, DecoderFits, NoMatch
<1>6. CASE ResumeLiteral
  <2>1. UNCHANGED dec \/ dec' = [dec EXCEPT !.lits = Tail(@)]
    BY <1>6, Zenon DEF ResumeLiteral
  <2>2. dec.state = "CompressedData" /\ dec.match = NoMatch /\ dec.lits # <<>>
    BY <1>6 DEF ResumeLiteral, InBlock
  <2>3. Len(Tail(dec.lits)) <= 2
    <3>1. dec.lits \in Seq(Byte) /\ Len(dec.lits) \in Nat
      BY <1>0, LenProperties DEF DecoderOK
    <3>2. Len(Tail(dec.lits)) = Len(dec.lits) - 1
      BY <2>2, <3>1, HeadTailProperties
    <3>3. QED BY <3>1, <3>2 DEF DecoderFits
  <2>4. QED BY <1>0, <1>1, <2>1, <2>2, <2>3 DEF DecoderOK, DecoderFits, NoMatch
<1>7. CASE GenericLiteral
  <2>1. PICK t \in Read(GenericReader, Symbols, Phantoms.symbol) :
          /\ t.kind = "lit"
          /\ LET e == Entry(GenericReader, t)
                 n == AtMost(Len(e.vals), OutputSpace)
             IN  dec' = [dec EXCEPT !.lits = SubSeq(e.vals, n + 1, Len(e.vals))]
    BY <1>7 DEF GenericLiteral
  <2> DEFINE e == Entry(GenericReader, t)
             n == AtMost(Len(e.vals), OutputSpace)
  <2>2. dec.state = "CompressedData" /\ dec.match = NoMatch
    BY <1>7 DEF GenericLiteral, GenericReady, InBlock, CallFits
  <2>3. /\ dec'.lits = SubSeq(e.vals, n + 1, Len(e.vals))
        /\ dec'.match = dec.match /\ dec'.state = dec.state
        /\ dec'.static_loaded = dec.static_loaded /\ dec'.table = dec.table
    BY <1>0, <2>1 DEF DecoderOK
  <2>4. Len(dec'.lits) <= 2
    <3>1. t \in Token
      BY <1>0, SymbolRead
    <3>2. e.vals \in Seq(Byte) /\ Len(e.vals) \in 1 .. 2
      BY <1>0, <2>1, <3>1, EntryFacts
    <3> DEFINE v == e.vals
    <3>3. v \in Seq(Byte) /\ Len(v) \in 1 .. 2
      BY <3>2
    <3>4. dec'.lits = SubSeq(v, n + 1, Len(v))
      BY <2>3
    <3>5. dec'.lits \in Seq(Byte)
      BY <1>0 DEF DecoderOK
    <3>6. n \in Nat /\ n <= Len(v)
      BY <3>3, WindowFacts DEF AtMost
    <3> HIDE DEF v, n
    <3>8. \A i \in (n + 1) .. Len(v) : v[i] \in Byte
      BY <3>3, <3>6
    <3>9. Len(SubSeq(v, n + 1, Len(v))) = IF n + 1 <= Len(v) THEN Len(v) - (n + 1) + 1 ELSE 0
      BY <3>3, <3>6, <3>8, SubSeqProperties
    <3>10. Len(dec'.lits) = IF n + 1 <= Len(v) THEN Len(v) - (n + 1) + 1 ELSE 0
      BY <3>4, <3>9
    <3>12. Len(v) \in 1 .. 2
      BY <3>3
    <3> DEFINE l == Len(v)
    <3>13. l \in 1 .. 2
      BY <3>12
    <3> HIDE DEF l
    <3>14. l \in Int /\ l <= 2
      BY <3>13
    <3>11. Len(v) \in Int /\ Len(v) <= 2
      BY <3>14 DEF l
    <3>7. QED BY <3>6, <3>10, <3>11
  <2>5. QED BY <2>2, <2>3, <2>4 DEF DecoderFits, NoMatch
<1>8. CASE GenericMatch
  <2>1. UNCHANGED dec \/ \E m : dec' = [dec EXCEPT !.match = m]
    BY <1>8, Zenon DEF GenericMatch
  <2>2. dec.state = "CompressedData" /\ dec.lits = <<>>
    BY <1>8 DEF GenericMatch, GenericReady, InBlock, CallFits
  <2>3. QED BY <1>0, <1>1, <2>1, <2>2 DEF DecoderOK, DecoderFits, NoMatch
<1>9. CASE EnterLoops
  <2>1. \/ UNCHANGED dec
        \/ dec' = [dec EXCEPT !.table.doubles = TRUE, !.doubles_pending = FALSE,
                              !.litlen_doubles = TRUE]
    BY <1>9, Zenon DEF EnterLoops
  <2>2. ASSUME dec' = [dec EXCEPT !.table.doubles = TRUE, !.doubles_pending = FALSE,
                                  !.litlen_doubles = TRUE]
        PROVE  DecoderFits'
    <3>1. /\ dec'.state = dec.state /\ dec'.match = dec.match /\ dec'.lits = dec.lits
          /\ dec'.static_loaded = dec.static_loaded /\ dec'.final = dec.final
      BY <1>0, <2>2 DEF DecoderOK
    <3>2. dec'.table.code = dec.table.code
      BY <1>0, <2>2 DEF DecoderOK
    <3>3. QED BY <3>1, <3>2 DEF DecoderFits, NoMatch
  <2>3. QED BY <1>1, <2>1, <2>2
<1>10. CASE FastEndOfBlock \/ GenericEndOfBlock
  <2>1. \E i : FinishBlock(i)
    BY <1>10, Zenon DEF FastEndOfBlock, GenericEndOfBlock
  <2>2. dec.match = NoMatch /\ dec.lits = <<>>
    BY <1>10 DEF FastEndOfBlock, GenericEndOfBlock, GenericReady, InBlock, CallFits
  <2>3. QED BY <1>0, <2>1, <2>2, EndsBlock
<1>11. CASE CopyUncompressed
  <2>1. \/ UNCHANGED dec
        \/ \E i : FinishBlock(i)
        \/ \E n : dec' = [dec EXCEPT !.remaining = n]
    BY <1>11, Zenon DEF CopyUncompressed
  <2>2. dec.state = "UncompressedData" /\ dec.match = NoMatch /\ dec.lits = <<>>
    BY <1>11 DEF CopyUncompressed, DecoderFits
  <2>3. ASSUME NEW n, dec' = [dec EXCEPT !.remaining = n]
        PROVE  DecoderFits'
    BY <1>0, <2>2, <2>3 DEF DecoderOK, DecoderFits, NoMatch
  <2>4. QED BY <1>0, <1>1, <2>1, <2>2, <2>3, EndsBlock
<1>12. CASE ParseWrapperFooter
  <2>1. UNCHANGED dec \/ dec' = [dec EXCEPT !.state = "Done"]
    BY <1>12, Zenon DEF ParseWrapperFooter
  <2>2. dec.state = "WrapperFooter"
    BY <1>12 DEF ParseWrapperFooter
  <2>3. QED BY <1>0, <1>1, <2>1, <2>2 DEF DecoderOK, DecoderFits, NoMatch
<1>13. CASE EnterCodeLengths \/ FastLiteral \/ FastMatch \/ GenericReenter
            \/ GenericOverrun \/ SourceError
  <2>1. UNCHANGED dec
    BY <1>13, Zenon DEF EnterCodeLengths, FastLiteral, FastMatch, GenericReenter,
       GenericOverrun, SourceError, SourceFailsBeforeHandler, SourceFailsAtRefill,
       SourceFailsInGeneric, SourceFailsInCopy, SourceFailsInFooter
  <2>2. QED BY <1>1, <2>1
<1>14. QED
  BY <1>2, <1>3, <1>4, <1>5, <1>6, <1>7, <1>8, <1>9, <1>10, <1>11, <1>12, <1>13
     DEF HandlerStep

(* A handler runs where fill() is, and before the stream's end.            *)
LEMMA HandlersGo ==
  ASSUME CallFits, HandlerStep
  PROVE  Going
<1>1. call.pc # "idle"
  BY HandlersRunInFill
<1>2. dec.state # "Done"
  <2>1. CASE \/ ParseWrapperHeader \/ EndSegment \/ ParseBlockHeader
             \/ ParseDynamicPrecodeLens \/ EnterCodeLengths \/ ParseCodeLength
             \/ CopyUncompressed \/ ParseWrapperFooter
    BY <2>1 DEF ParseWrapperHeader, EndSegment, ParseBlockHeader,
       ParseDynamicPrecodeLens, EnterCodeLengths, ParseCodeLength,
       CopyUncompressed, ParseWrapperFooter, CallFits
  <2>2. CASE \/ ResumeMatch \/ ResumeLiteral \/ EnterLoops
             \/ FastLiteral \/ FastMatch \/ FastEndOfBlock
    BY <2>2 DEF ResumeMatch, ResumeLiteral, EnterLoops, AtRefill,
       FastLiteral, FastMatch, FastEndOfBlock, InBlock
  <2>3. CASE \/ GenericReenter \/ GenericOverrun
             \/ GenericLiteral \/ GenericMatch \/ GenericEndOfBlock
    BY <2>3 DEF GenericReenter, GenericOverrun, GenericLiteral, GenericMatch,
       GenericEndOfBlock, GenericReady, InBlock
  <2>4. CASE SourceError
    BY <2>4 DEF SourceError, SourceFailsBeforeHandler, SourceFailsAtRefill, AtRefill,
       SourceFailsInGeneric, SourceFailsInCopy, SourceFailsInFooter, InBlock
  <2>5. QED BY <2>1, <2>2, <2>3, <2>4, Zenon DEF HandlerStep
<1>3. QED BY <1>1, <1>2 DEF Going, Alive

LEMMA Leaving ==
  ASSUME CallOK, NEW pc, NEW err
  PROVE  /\ ToPc(pc) => call'.pc = pc /\ call'.result = call.result
         /\ ToAccount => call'.pc = "account" /\ call'.result = call.result
         /\ Fail(err) => call'.pc = "idle" /\ call'.result = err
BY DEF CallOK, ToPc, ToAccount, Fail

LEMMA AfterStop ==
  ASSUME CallOK, NEW n, StopIfFull(n) \/ ToAccount
  PROVE  (call'.pc = "account" /\ call'.result = call.result) \/ UNCHANGED call
BY Leaving DEF StopIfFull

LEMMA BlockEndLeaves ==
  ASSUME CallOK, NEW i, FinishBlock(i)
  PROVE  call'.pc \in {"idle", "account"}
BY Leaving DEF FinishBlock

(* Where a handler leaves fill().                                          *)
PcFits ==
  /\ call'.pc \in {"idle", "dispatch", "codelens", "refill", "fast", "generic", "account"}
  /\ call'.pc = "codelens" => dec'.state = "DynamicCodeLengths"
  /\ call'.pc \in {"refill", "fast", "generic"}
       => dec'.state = "CompressedData" /\ dec'.match = NoMatch /\ dec'.lits = <<>>
  /\ call'.pc = "dispatch" => dec'.state # "Done"

LEMMA PcLeaves ==
  ASSUME call'.pc \in {"idle", "account"}
  PROVE  PcFits
BY DEF PcFits

LEMMA PcStays ==
  ASSUME CallFits, call'.pc = call.pc, UNCHANGED dec
  PROVE  PcFits
BY DEF PcFits, CallFits

LEMMA GenericLiteralPc ==
  ASSUME WindowInv, DecoderInv, CallFits, GenericLiteral
  PROVE  PcFits
<1>0. DecoderOK /\ CallOK /\ StreamOK
  BY DEF DecoderInv
<1>1. PICK t \in Read(GenericReader, Symbols, Phantoms.symbol) :
        /\ t.kind = "lit"
        /\ LET e == Entry(GenericReader, t)
               n == AtMost(Len(e.vals), OutputSpace)
           IN  /\ dec' = [dec EXCEPT !.lits = SubSeq(e.vals, n + 1, Len(e.vals))]
               /\ IF n < Len(e.vals) THEN ToAccount ELSE StopIfFull(n)
  BY Zenon DEF GenericLiteral
<1> DEFINE v == Entry(GenericReader, t).vals
           n == AtMost(Len(v), OutputSpace)
<1>2. dec.state = "CompressedData" /\ dec.match = NoMatch /\ call.pc = "generic"
  BY DEF GenericLiteral, GenericReady, InBlock, CallFits
<1>3. /\ dec'.lits = SubSeq(v, n + 1, Len(v))
      /\ dec'.match = dec.match /\ dec'.state = dec.state
  BY <1>0, <1>1 DEF DecoderOK
<1>4. t \in Token
  BY <1>0, SymbolRead
<1>5. v \in Seq(Byte) /\ Len(v) \in 1 .. 2
  BY <1>0, <1>1, <1>4, EntryFacts
<1>6. IF n < Len(v) THEN ToAccount ELSE StopIfFull(n)
  BY <1>1
<1> HIDE DEF v
<1>7. n \in Nat /\ n <= Len(v)
  BY <1>5, WindowFacts DEF AtMost
<1> HIDE DEF n
<1>8. CASE n < Len(v)
  BY <1>0, <1>6, <1>8, Leaving, PcLeaves
<1>9. CASE ~(n < Len(v))
  <2>1. n = Len(v)
    BY <1>5, <1>7, <1>9
  <2>2. SubSeq(v, Len(v) + 1, Len(v)) = <<>>
    BY <1>5, SubSeqEmpty
  <2>3. dec'.lits = <<>>
    BY <1>3, <2>1, <2>2
  <2>4. call'.pc = "account" \/ call'.pc = "generic"
    BY <1>0, <1>2, <1>6, <1>9, AfterStop
  <2>5. QED BY <1>2, <1>3, <2>3, <2>4 DEF PcFits
<1>10. QED BY <1>8, <1>9

LEMMA GenericMatchPc ==
  ASSUME WindowInv, DecoderInv, CallFits, GenericMatch
  PROVE  PcFits
<1>0. DecoderOK /\ CallOK /\ StreamOK
  BY DEF DecoderInv
<1>1. PICK t \in Read(GenericReader, Symbols, Phantoms.symbol) :
        LET n == AtMost(t.length, OutputSpace) IN
          \/ Fail("BadData")
          \/ n < t.length /\ ToAccount
          \/ dec' = dec /\ StopIfFull(n)
  BY Zenon DEF GenericMatch
<1>2. CASE \/ Fail("BadData") \/ ToAccount
  BY <1>0, <1>2, Leaving, PcLeaves
<1>3. ASSUME NEW n, dec' = dec, StopIfFull(n)
      PROVE  PcFits
  <2>1. call'.pc = "account" \/ call'.pc = call.pc
    BY <1>0, <1>3, AfterStop
  <2>2. QED BY <1>3, <2>1, PcStays, PcLeaves
<1>4. QED BY <1>1, <1>2, <1>3

LEMMA HandlersKeepPc ==
  ASSUME WindowInv, DecoderInv, CallFits, HandlerStep
  PROVE  PcFits
<1>0. DecoderOK /\ CallOK
  BY DEF DecoderInv
<1>1. CASE ParseWrapperHeader \/ EndSegment \/ ParseDynamicPrecodeLens
  <2>1. ToAccount \/ Fail("InvalidHeader") \/ Fail("BadData")
    BY <1>1, Zenon DEF ParseWrapperHeader, EndSegment, ParseDynamicPrecodeLens
  <2>2. QED BY <1>0, <2>1, Leaving, PcLeaves
<1>2. CASE ParseBlockHeader
  <2>1. \/ \E r, final : BadBlock(r, final)
        \/ \E r, t : BeginDynamic(r, t) \/ BeginStatic(r, t) \/ BeginStored(r, t)
    BY <1>2, Zenon DEF ParseBlockHeader
  <2>2. ToAccount \/ Fail("BadData")
    BY <2>1, Zenon DEF BadBlock, BeginDynamic, BeginStatic, BeginStored
  <2>3. QED BY <1>0, <2>2, Leaving, PcLeaves
<1>3. CASE EnterCodeLengths
  BY <1>0, <1>3, Leaving DEF EnterCodeLengths, PcFits
<1>4. CASE ParseCodeLength
  <2>1. ToAccount \/ Fail("BadData") \/ (UNCHANGED dec /\ UNCHANGED call)
    BY <1>4, Zenon DEF ParseCodeLength
  <2>2. QED BY <1>0, <2>1, Leaving, PcLeaves, PcStays
<1>5. CASE ResumeMatch \/ ResumeLiteral
  <2>1. \/ ToAccount \/ \E n : StopIfFull(n)
    BY <1>5, Zenon DEF ResumeMatch, ResumeLiteral
  <2>2. call.pc = "dispatch" /\ dec.state = "CompressedData" /\ dec'.state = dec.state
    BY <1>0, <1>5 DEF ResumeMatch, ResumeLiteral, InBlock, DecoderOK
  <2>3. call'.pc \in {"account", "dispatch"}
    BY <1>0, <2>1, <2>2, AfterStop
  <2>4. QED BY <2>2, <2>3 DEF PcFits
<1>6. CASE EnterLoops
  <2>1. /\ dec.state = "CompressedData" /\ dec.match = NoMatch /\ dec.lits = <<>>
    BY <1>6 DEF EnterLoops, AtRefill, InBlock, HasPending, CallFits
  <2>2. \/ UNCHANGED dec
        \/ dec' = [dec EXCEPT !.table.doubles = TRUE, !.doubles_pending = FALSE,
                              !.litlen_doubles = TRUE]
    BY <1>6, Zenon DEF EnterLoops
  <2>3. dec'.state = dec.state /\ dec'.match = dec.match /\ dec'.lits = dec.lits
    BY <1>0, <2>2 DEF DecoderOK
  <2>4. \/ call' = [call EXCEPT !.pc = "fast", !.chain = 0, !.start = RealStart]
        \/ ToPc("generic")
    BY <1>6, Zenon DEF EnterLoops
  <2>5. call'.pc \in {"fast", "generic"}
    BY <1>0, <2>4 DEF CallOK, ToPc
  <2>6. QED BY <2>1, <2>3, <2>5 DEF PcFits
<1>7. CASE FastLiteral \/ FastMatch
  <2>1. \/ Fail("BadData")
        \/ call' = [call EXCEPT !.chain = @ + 1]
        \/ \E i, n : FastTurn(i, n)
    BY <1>7, Zenon DEF FastLiteral, FastMatch
  <2>2. /\ call.pc = "fast" /\ dec.state = "CompressedData" /\ UNCHANGED dec
        /\ dec.match = NoMatch /\ dec.lits = <<>>
    BY <1>7 DEF FastLiteral, FastMatch, InBlock, CallFits
  <2>3. call'.pc \in {"idle", "fast", "generic"}
    BY <1>0, <2>1, <2>2 DEF CallOK, FastTurn, Fail
  <2>4. QED BY <2>2, <2>3 DEF PcFits
<1>8. CASE FastEndOfBlock \/ GenericEndOfBlock
  <2>1. \E i : FinishBlock(i)
    BY <1>8, Zenon DEF FastEndOfBlock, GenericEndOfBlock
  <2>2. QED BY <1>0, <2>1, BlockEndLeaves, PcLeaves
<1>9. CASE GenericReenter
  <2>1. ToPc("refill") /\ UNCHANGED dec /\ call.pc = "generic"
    BY <1>9 DEF GenericReenter, InBlock
  <2>2. call'.pc = "refill"
    BY <1>0, <2>1, Leaving
  <2>3. QED BY <2>1, <2>2 DEF CallFits, PcFits
<1>10. CASE GenericOverrun
  BY <1>0, <1>10, Leaving, PcLeaves DEF GenericOverrun
<1>11. CASE GenericLiteral \/ GenericMatch
  BY <1>11, GenericLiteralPc, GenericMatchPc
<1>12. CASE CopyUncompressed
  <2>1. Fail("BadData") \/ ToAccount \/ \E i : FinishBlock(i)
    BY <1>12, Zenon DEF CopyUncompressed
  <2>2. QED BY <1>0, <2>1, Leaving, BlockEndLeaves, PcLeaves
<1>13. CASE ParseWrapperFooter
  <2>1. Fail("BadData") \/ ToAccount \/ Fail("ChecksumMismatch")
    BY <1>13, Zenon DEF ParseWrapperFooter
  <2>2. QED BY <1>0, <2>1, Leaving, PcLeaves
<1>14. CASE SourceError
  <2>1. \E i : SourceFails(i)
    BY <1>14, Zenon DEF SourceError, SourceFailsBeforeHandler, SourceFailsAtRefill,
       SourceFailsInGeneric, SourceFailsInCopy, SourceFailsInFooter
  <2>2. Fail("Source")
    BY <2>1, Zenon DEF SourceFails
  <2>3. QED BY <1>0, <2>2, Leaving, PcLeaves
<1>15. QED
  BY <1>1, <1>2, <1>3, <1>4, <1>5, <1>6, <1>7, <1>8, <1>9, <1>10, <1>11, <1>12,
     <1>13, <1>14 DEF HandlerStep

(* done tells of the end only when the end was reached, or fill() failed.  *)
LEMMA HandlersKeepDone ==
  ASSUME DecoderInv, CallFits, HandlerStep
  PROVE  /\ Going' => done'.segment = FALSE /\ done'.matched = None
         /\ DOMAIN done' = DOMAIN done
<1>0. DecoderOK /\ CallOK
  BY DEF DecoderInv
<1>1. done.segment = FALSE /\ done.matched = None
  BY HandlersGo DEF CallFits
<1>2. CASE EndSegment
  <2>1. dec' = [dec EXCEPT !.state = "Done"]
    BY <1>2 DEF EndSegment
  <2>2. DOMAIN done' = DOMAIN done
    BY <1>2 DEF EndSegment
  <2>3. QED BY <1>0, <2>1, <2>2 DEF DecoderOK, Going
<1>3. CASE ParseWrapperFooter
  <2>1. UNCHANGED done
        \/ \E f, m : done' = [done EXCEPT !.footer = f, !.matched = m]
    BY <1>3, Zenon DEF ParseWrapperFooter
  <2>2. DOMAIN done' = DOMAIN done
    BY <2>1
  <2>3. \/ Fail("BadData") \/ Fail("ChecksumMismatch")
        \/ dec' = [dec EXCEPT !.state = "Done"]
    BY <1>3, Zenon DEF ParseWrapperFooter
  <2>4. CASE dec' = [dec EXCEPT !.state = "Done"]
    BY <1>0, <2>2, <2>4 DEF DecoderOK, Going
  <2>5. CASE Fail("BadData") \/ Fail("ChecksumMismatch")
    BY <1>0, <2>2, <2>5, Leaving DEF Going, Alive, Fatal
  <2>6. QED BY <2>3, <2>4, <2>5
<1>4. CASE UNCHANGED done
  BY <1>1, <1>4 DEF None
<1>5. CASE \/ ParseWrapperHeader \/ ParseBlockHeader
           \/ ParseDynamicPrecodeLens \/ EnterCodeLengths \/ ParseCodeLength
           \/ ResumeMatch \/ ResumeLiteral \/ EnterLoops
  BY <1>4, <1>5, Zenon DEF ParseWrapperHeader, ParseBlockHeader, ParseDynamicPrecodeLens,
     EnterCodeLengths, ParseCodeLength, ResumeMatch, ResumeLiteral, EnterLoops
<1>6. CASE \/ FastLiteral \/ FastMatch \/ FastEndOfBlock
           \/ GenericReenter \/ GenericOverrun
           \/ GenericLiteral \/ GenericMatch \/ GenericEndOfBlock
           \/ CopyUncompressed
  BY <1>4, <1>6, Zenon DEF FastLiteral, FastMatch, FastEndOfBlock, GenericReenter,
     GenericOverrun, GenericLiteral, GenericMatch, GenericEndOfBlock, CopyUncompressed
<1>7. CASE SourceError
  BY <1>4, <1>7, Zenon DEF SourceError, SourceFailsBeforeHandler, SourceFailsAtRefill,
     SourceFailsInGeneric, SourceFailsInCopy, SourceFailsInFooter
<1>8. QED BY <1>2, <1>3, <1>5, <1>6, <1>7, Zenon DEF HandlerStep

(* A step of the decoder reads a token, or its source fails.               *)
Noted ==
  \/ UNCHANGED hist
  \/ \E real \in BOOLEAN : NotePhantom(real)

LEMMA HandlersNote ==
  ASSUME HandlerStep
  PROVE  Noted \/ \E i : SourceFails(i)
<1>0. \A i, kinds : HasToken(i, kinds) \in BOOLEAN
  BY DEF HasToken
<1>1. CASE ParseBlockHeader
  <2>1. \/ \E r, final : BadBlock(r, final)
        \/ \E r, t : BeginDynamic(r, t) \/ BeginStatic(r, t) \/ BeginStored(r, t)
    BY <1>1, Zenon DEF ParseBlockHeader
  <2>2. UNCHANGED hist \/ \E r : NotePhantom(HasToken(r, {"block"}))
    BY <2>1, Zenon DEF BadBlock, BeginDynamic, BeginStatic, BeginStored
  <2>3. QED BY <1>0, <2>2 DEF Noted
<1>2. CASE ParseDynamicPrecodeLens \/ ParseCodeLength
  <2>1. \E r, kinds : NotePhantom(HasToken(r, kinds))
    BY <1>2, Zenon DEF ParseDynamicPrecodeLens, ParseCodeLength
  <2>2. QED BY <1>0, <2>1 DEF Noted
<1>3. CASE FastLiteral \/ FastMatch \/ FastEndOfBlock \/ GenericLiteral
           \/ GenericMatch \/ GenericEndOfBlock
  <2>1. \E r, kinds : NotePhantom(HasToken(r, kinds))
    BY <1>3, Zenon DEF FastLiteral, FastMatch, FastEndOfBlock, GenericLiteral,
       GenericMatch, GenericEndOfBlock
  <2>2. QED BY <1>0, <2>1 DEF Noted
<1>4. CASE \/ ParseWrapperHeader \/ EndSegment \/ EnterCodeLengths
           \/ ResumeMatch \/ ResumeLiteral \/ EnterLoops
           \/ GenericReenter \/ GenericOverrun
           \/ CopyUncompressed \/ ParseWrapperFooter
  BY <1>4, Zenon DEF ParseWrapperHeader, EndSegment, EnterCodeLengths, ResumeMatch,
     ResumeLiteral, EnterLoops, GenericReenter, GenericOverrun, CopyUncompressed,
     ParseWrapperFooter, Noted
<1>5. CASE SourceError
  BY <1>5, Zenon DEF SourceError, SourceFailsBeforeHandler, SourceFailsAtRefill,
     SourceFailsInGeneric, SourceFailsInCopy, SourceFailsInFooter
<1>6. QED BY <1>1, <1>2, <1>3, <1>4, <1>5, Zenon DEF HandlerStep

LEMMA HandlersKeepHist ==
  ASSUME DecoderInv, HistFits, UNCHANGED given, options.source_errors \in Nat, HandlerStep
  PROVE  HistFits'
<1>0. HistOK /\ options' = options
  BY DEF DecoderInv, given
<1>1. CASE UNCHANGED hist
  BY <1>0, <1>1 DEF HistFits
<1>2. ASSUME NEW real \in BOOLEAN, NotePhantom(real)
      PROVE  HistFits'
  <2>1. /\ hist'.errors = hist.errors /\ hist'.resets = hist.resets
        /\ hist'.phantom = (hist.phantom \/ ~real)
    BY <1>0, <1>2 DEF NotePhantom, HistOK
  <2>2. hist'.phantom \in BOOLEAN
    BY <2>1 DEF HistFits
  <2>3. QED BY <1>0, <2>1, <2>2 DEF HistFits
<1>3. ASSUME NEW i, SourceFails(i)
      PROVE  HistFits'
  <2>1. hist.errors < options.source_errors /\ hist' = [hist EXCEPT !.errors = @ + 1]
    BY <1>3 DEF SourceFails
  <2>2. /\ hist'.errors = hist.errors + 1 /\ hist'.resets = hist.resets
        /\ hist'.phantom = hist.phantom
    BY <1>0, <2>1 DEF HistOK
  <2>3. hist.errors + 1 <= options.source_errors
    BY <1>0, <2>1 DEF HistOK
  <2>4. QED BY <1>0, <2>2, <2>3 DEF HistFits
<1>4. QED BY <1>1, <1>2, <1>3, HandlersNote DEF Noted

(* The shape that every handler keeps.                                     *)
ShapeFits == DecoderFits /\ CallFits /\ HistFits

LEMMA HandlersKeepShape ==
  ASSUME WindowInv, DecoderInv, DecoderInv', ShapeFits, UNCHANGED given,
         options.source_errors \in Nat, HandlerStep
  PROVE  ShapeFits' /\ Going
<1>1. DecoderFits'
  BY HandlersKeepFit DEF ShapeFits
<1>2. /\ PcFits /\ (Going' => done'.segment = FALSE /\ done'.matched = None)
      /\ DOMAIN done' = DOMAIN done
  BY HandlersKeepPc, HandlersKeepDone DEF ShapeFits
<1>3. CallFits'
  BY <1>2 DEF ShapeFits, PcFits, CallFits, NoMatch, None
<1>4. HistFits'
  BY HandlersKeepHist DEF ShapeFits
<1>5. QED BY <1>1, <1>3, <1>4, HandlersGo DEF ShapeFits

-------------------------------------------------------------------------------
(* What a handler's step starts from and has to leave behind.              *)

Ready ==
  /\ DecodingInv /\ Sound /\ Sound' /\ ShapeFits'
  /\ Kept /\ HandlerMove /\ Going

FollowedNext == FollowInv' /\ PhantomInv' /\ Verdict'

LEMMA ReadyFacts ==
  ASSUME Ready
  PROVE  /\ Known /\ LaidOut /\ Meant /\ Suited
         /\ WindowInv /\ DecoderInv /\ WindowInv' /\ DecoderInv'
         /\ StreamOK /\ DecoderOK /\ CallOK /\ HistOK /\ DecoderOK' /\ CallOK' /\ HistOK'
         /\ ReaderFits(in) /\ 0 <= in.over /\ in.over <= 8
         /\ DecoderFits /\ CallFits /\ HistFits /\ DecoderFits' /\ CallFits' /\ HistFits'
         /\ Verdict
         /\ hist.errors \in Nat /\ hist'.errors \in Nat /\ hist'.errors >= hist.errors
         /\ hist.phantom \in BOOLEAN /\ hist'.phantom \in BOOLEAN
         /\ stream' = stream
<1>1. Known /\ LaidOut /\ Meant /\ Suited
  BY KnownNow DEF Ready, Known
<1>2. WindowInv /\ DecoderInv /\ WindowInv' /\ DecoderInv'
  BY DEF Ready, Sound
<1>3. StreamOK /\ DecoderOK /\ CallOK /\ HistOK /\ DecoderOK' /\ CallOK' /\ HistOK'
  BY <1>2 DEF DecoderInv
<1>4. ReaderFits(in) /\ 0 <= in.over /\ in.over <= 8
  BY DEF Ready, DecodingInv, ReaderInv, Going, ReaderFits
<1>5. DecoderFits /\ CallFits /\ HistFits /\ DecoderFits' /\ CallFits' /\ HistFits' /\ Verdict
  BY DEF Ready, DecodingInv, ShapeFits
<1>6. hist.errors \in Nat /\ hist'.errors \in Nat /\ hist'.errors >= hist.errors
  BY <1>3 DEF HistOK, Ready, HandlerMove
<1>7. hist.phantom \in BOOLEAN /\ hist'.phantom \in BOOLEAN
  BY <1>5 DEF HistFits
<1>8. stream' = stream
  BY KeptStream DEF Ready
<1>9. QED BY <1>1, <1>2, <1>3, <1>4, <1>5, <1>6, <1>7, <1>8

LEMMA StillTracks ==
  ASSUME Ready
  PROVE  /\ ~hist.phantom => \E k \in 0 .. stream.held : Tracks(k)
         /\ hist.phantom =>
              /\ ~Acceptable
              /\ BitPos(in) > 8 * stream.nbytes
              /\ dec.state \notin {"WrapperHeader", "UncompressedData", "WrapperFooter"}
<1>1. Going /\ Alive /\ FollowInv /\ PhantomInv
  BY DEF Ready, DecodingInv, Going
<1>2. QED BY <1>1 DEF FollowInv, PhantomInv

(* The three ways a step may end.                                          *)
LEMMA Advances ==
  ASSUME Ready, ~hist'.phantom, dec'.state # "Done",
         NEW k \in 0 .. stream.held, TracksNext(k),
         call'.pc # "idle" \/ call'.result = "Source",
         dec'.state = "CompressedData" => BitPos(in') = TokenEnd(k)
  PROVE  FollowedNext
<1>1. FollowInv'
  BY ReadyFacts, GoesOn DEF Ready
<1>2. PhantomInv'
  BY DEF PhantomInv
<1>3. call'.result = call.result \/ call'.result = "Source"
  BY DEF Ready, HandlerMove
<1>4. Verdict'
  BY <1>3, ReadyFacts, NoVerdict DEF Ready
<1>5. QED BY <1>1, <1>2, <1>4 DEF FollowedNext

LEMMA Faults ==
  ASSUME Ready, ~hist'.phantom, dec'.state # "Done",
         NEW k \in 0 .. stream.held, FollowsNext(k),
         call'.pc = "idle", call'.result \in {"BadData", "InvalidHeader", "ChecksumMismatch"},
         ~Acceptable \/ hist'.errors > 0
  PROVE  FollowedNext
<1>1. ~Going'
  BY DEF Going, Alive, Fatal
<1>2. FollowInv'
  BY <1>1, FailsAfter DEF Ready
<1>3. PhantomInv'
  BY DEF PhantomInv
<1>4. Verdict'
  BY ReadyFacts, NoVerdict DEF Ready
<1>5. QED BY <1>2, <1>3, <1>4 DEF FollowedNext

LEMMA Invents ==
  ASSUME Ready, hist'.phantom, ~Acceptable, dec'.state # "Done",
         \/ call'.pc = "idle" /\ call'.result \in {"BadData", "InvalidHeader", "ChecksumMismatch"}
         \/ /\ BitPos(in') > 8 * stream.nbytes
            /\ dec'.state \notin {"WrapperHeader", "UncompressedData", "WrapperFooter"}
  PROVE  FollowedNext
<1>1. FollowInv'
  BY DEF FollowInv
<1>2. stream' = stream /\ (Acceptable' <=> Acceptable)
  BY KeptStream DEF Ready
<1>3. BitPos(in)' = BitPos(in')
  BY DEF BitPos
<1>4. PhantomInv'
  BY <1>2, <1>3 DEF PhantomInv, Alive, Fatal
<1>5. Verdict'
  BY ReadyFacts, NoVerdict DEF Ready
<1>6. QED BY <1>1, <1>4, <1>5 DEF FollowedNext

-------------------------------------------------------------------------------
(* Reads.                                                                  *)

(* t, read by r, is the token after the first k.                           *)
Genuine(r, kinds, t, k) ==
  /\ ~hist.phantom /\ HasToken(r, kinds)
  /\ k \in 0 .. stream.held /\ k < stream.held
  /\ Tracks(k) /\ BitPos(r) = TokenEnd(k)
  /\ t = stream.toks[k + 1]

(* t is no token of the stream: it needs bits past the stream's end.       *)
Invented(r, kinds, t, phantoms) ==
  /\ ~HasToken(r, kinds) /\ t \in phantoms
  /\ BitPos(r) + Width(t) > 8 * stream.nbytes
  /\ hist.phantom \/ (Tracks(stream.held) /\ BitPos(r) = TokenEnd(stream.held))

LEMMA TracksNoFault ==
  ASSUME NEW k, Tracks(k)
  PROVE  ~D[k].fault /\ D[k].sum_ok /\ D[k].size_ok
BY DEF Tracks, Good

LEMMA ReadCases ==
  ASSUME Ready, dec.state # "WrapperFooter",
         NEW place \in {"block", "precode", "lens", "symbol"},
         \A k \in 0 .. stream.held : Tracks(k) => D[k].place = place,
         NEW kinds, \A u \in Token : PlaceOf(u) = place => u.kind \in kinds,
         NEW phantoms, \A u \in phantoms : u \in Token,
         NEW r, ReaderFits(r), BitPos(r) = BitPos(in), NEW t \in Read(r, kinds, phantoms)
  PROVE  /\ t \in Token
         /\ \/ \E k : Genuine(r, kinds, t, k)
            \/ Invented(r, kinds, t, phantoms)
<1>0. Known /\ LaidOut /\ StreamOK /\ stream.held \in Nat /\ stream.nbytes \in Nat
  BY ReadyFacts, TokenEnds
<1>1. BitPos(r) \in Int
  BY ReaderTypes DEF ReaderFits
<1>2. ASSUME NEW k \in 0 .. stream.held, Tracks(k)
      PROVE  BitPos(r) = TokenEnd(k) /\ TokenEnd(k) \in Nat
             /\ ~D[k].fault /\ D[k].place = place
  <2>1. BitPos(in) = TokenEnd(k)
    BY <1>2 DEF Tracks, Placed
  <2>2. TokenEnd(k) \in Nat
    BY <1>0, TokenEnds
  <2>3. QED BY <1>2, <2>1, <2>2, TracksNoFault
<1>3. CASE hist.phantom
  <2>1. BitPos(r) > 8 * stream.nbytes
    BY <1>3, StillTracks
  <2>2. TokenEnd(stream.held) <= 8 * stream.nbytes /\ TokenEnd(stream.held) \in Nat
    BY <1>0, TokenEnds
  <2>3. BitPos(r) \in Nat /\ BitPos(r) >= TokenEnd(stream.held)
    BY <1>0, <1>1, <2>1, <2>2
  <2>4. ~HasToken(r, kinds) /\ t \in phantoms
    BY <1>0, <2>3, NoTokenHere
  <2>5. t \in Token
    BY <2>4
  <2>6. Width(t) \in Nat
    BY <2>5, TokenWidth
  <2>7. BitPos(r) + Width(t) > 8 * stream.nbytes
    BY <1>0, <1>1, <2>1, <2>6
  <2>8. QED BY <1>3, <2>4, <2>5, <2>7 DEF Invented
<1>4. CASE ~hist.phantom
  <2>1. PICK k \in 0 .. stream.held : Tracks(k)
    BY <1>4, StillTracks
  <2>2. BitPos(r) = TokenEnd(k) /\ TokenEnd(k) \in Nat /\ ~D[k].fault /\ D[k].place = place
    BY <1>2, <2>1
  <2>3. CASE k < stream.held
    <3>1. /\ stream.toks[k + 1] \in Token
          /\ PlaceOf(stream.toks[k + 1]) = place
          /\ stream.toks[k + 1].kind \notin {"len", "footer"}
                => stream.starts[k + 1] = TokenEnd(k)
      BY <1>0, <2>2, <2>3, NextToken
    <3>2. stream.toks[k + 1].kind \notin {"len", "footer"}
      BY <3>1 DEF PlaceOf
    <3>3. BitPos(r) = stream.starts[k + 1] /\ stream.toks[k + 1].kind \in kinds
      BY <2>2, <3>1, <3>2
    <3>4. HasToken(r, kinds) /\ Read(r, kinds, phantoms) = {stream.toks[k + 1]}
      BY <1>0, <2>3, <3>3, TokenHere
    <3>5. Genuine(r, kinds, t, k)
      BY <1>4, <2>1, <2>2, <2>3, <3>4 DEF Genuine
    <3>6. t \in Token
      BY <3>1, <3>4
    <3>7. QED BY <3>5, <3>6
  <2>4. CASE ~(k < stream.held)
    <3>1. k = stream.held
      BY <1>0, <2>4
    <3>2. BitPos(r) = TokenEnd(stream.held) /\ BitPos(r) \in Nat
          /\ ~D[stream.held].fault /\ D[stream.held].place = place
      BY <2>2, <3>1
    <3>3. ~HasToken(r, kinds)
      BY <1>0, <3>2, NoTokenHere
    <3>4. t \in phantoms /\ BitPos(r) + Width(t) > 8 * stream.nbytes
      BY <1>0, <3>2, PhantomReaches
    <3>5. QED BY <2>1, <3>1, <3>2, <3>3, <3>4 DEF Invented
  <2>5. QED BY <2>3, <2>4
<1>5. QED BY <1>3, <1>4

(* What a genuine token brings.                                            *)
LEMMA GenuineFacts ==
  ASSUME Ready, NEW r, NEW kinds, NEW t, NEW k, Genuine(r, kinds, t, k)
  PROVE  /\ k \in 0 .. stream.held /\ k + 1 \in 0 .. stream.held /\ k \in Nat
         /\ stream.toks[k + 1] \in Token /\ PlaceOf(stream.toks[k + 1]) = D[k].place
         /\ ~D[k].fault /\ D[k].sum_ok = TRUE /\ D[k].size_ok = TRUE
         /\ D[k] \in Meaning /\ D[k + 1] \in Meaning
         /\ D[k + 1] = DecodeToken(D[k], stream.toks[k + 1])
         /\ Leads(D[k].out, D[k + 1].out)
         /\ stream.toks[k + 1].kind \notin {"len", "footer"}
              => TokenEnd(k + 1) = TokenEnd(k) + Width(stream.toks[k + 1])
         /\ stream.toks[k + 1].kind \in {"len", "footer"}
              => TokenEnd(k + 1) = Aligned(TokenEnd(k)) + Width(stream.toks[k + 1])
         /\ TokenEnd(k) \in Nat /\ TokenEnd(k + 1) \in Nat
         /\ TokenEnd(k + 1) <= 8 * stream.nbytes
         /\ TokenEnd(k) <= 8 * stream.nbytes
         /\ BitPos(r) = TokenEnd(k)
<1>1. Known /\ LaidOut
  BY ReadyFacts
<1>2. /\ k \in 0 .. stream.held /\ k < stream.held /\ Tracks(k) /\ BitPos(r) = TokenEnd(k)
  BY DEF Genuine
<1>3. ~D[k].fault /\ D[k].sum_ok = TRUE /\ D[k].size_ok = TRUE
  BY <1>2 DEF Tracks, Good
<1> DEFINE u == stream.toks[k + 1]
<1>4. /\ k + 1 \in 0 .. stream.held
      /\ u \in Token /\ PlaceOf(u) = D[k].place
      /\ TokenEnd(k + 1) = stream.starts[k + 1] + Width(u)
      /\ TokenEnd(k + 1) <= 8 * stream.nbytes
      /\ u.kind \notin {"len", "footer"} => stream.starts[k + 1] = TokenEnd(k)
      /\ u.kind \in {"len", "footer"} => stream.starts[k + 1] = Aligned(TokenEnd(k))
      /\ D[k] \in Meaning /\ D[k + 1] \in Meaning /\ D[k + 1] = DecodeToken(D[k], u)
      /\ Leads(D[k].out, D[k + 1].out)
  BY <1>1, <1>2, <1>3, NextToken
<1>5. TokenEnd(k) \in Nat /\ TokenEnd(k) <= 8 * stream.nbytes
  BY <1>1, <1>2, TokenEnds
<1>6. TokenEnd(k + 1) \in Nat /\ k \in Nat
  BY <1>1, <1>2, <1>4, TokenEnds
<1>7. QED BY <1>2, <1>3, <1>4, <1>5, <1>6

-------------------------------------------------------------------------------
(* What each kind of token does to what the stream means.                  *)

Same(d, e) == e.sum_ok = d.sum_ok /\ e.size_ok = d.size_ok

LEMMA OkTokenMeans ==
  ASSUME NEW d \in Meaning, NEW t \in Token, ~d.fault, NEW e, e = DecodeToken(d, t),
         t.kind \in {"wrapper", "precode", "lens", "len"}
  PROVE  /\ e.out = d.out /\ e.final = d.final /\ e.fault = ~t.ok /\ Same(d, e)
         /\ e.place = PlaceAfter(d, t) /\ e.todo = TodoAfter(d, t)
<1>1. /\ e.out = d.out /\ e.final = d.final /\ e.fault = ~t.ok
      /\ e.place = PlaceAfter(d, t) /\ e.todo = TodoAfter(d, t)
      /\ e.sum_ok = d.sum_ok /\ e.size_ok = d.size_ok
  BY DecodeTokenFields
<1>2. QED BY <1>1 DEF Same

LEMMA BlockTokenMeans ==
  ASSUME NEW d \in Meaning, NEW t \in Token, ~d.fault, NEW e, e = DecodeToken(d, t),
         t.kind = "block"
  PROVE  /\ e.out = d.out /\ e.final = t.final /\ Same(d, e)
         /\ e.fault = (t.type = "reserved")
         /\ e.place = CASE t.type = "dynamic" -> "precode"
                         [] t.type = "static" -> "symbol"
                         [] t.type = "stored" -> "len"
                         [] OTHER -> "end"
<1>1. /\ e.out = d.out /\ e.final = t.final /\ e.fault = (t.type = "reserved")
      /\ e.place = PlaceAfter(d, t)
      /\ e.sum_ok = d.sum_ok /\ e.size_ok = d.size_ok
  BY DecodeTokenFields
<1>2. PlaceAfter(d, t) = CASE t.type = "dynamic" -> "precode"
                           [] t.type = "static" -> "symbol"
                           [] t.type = "stored" -> "len"
                           [] OTHER -> "end"
  BY DEF PlaceAfter
<1>3. QED BY <1>1, <1>2 DEF Same

LEMMA LiteralMeans ==
  ASSUME NEW d \in Meaning, NEW t \in Token, ~d.fault, NEW e, e = DecodeToken(d, t),
         t.kind \in {"lit", "byte"}
  PROVE  /\ e.out = Append(d.out, t.val) /\ e.final = d.final /\ e.fault = FALSE /\ Same(d, e)
         /\ e.place = PlaceAfter(d, t) /\ e.todo = TodoAfter(d, t)
<1>1. /\ e.out = Append(d.out, t.val) /\ e.final = d.final /\ e.fault = FALSE
      /\ e.place = PlaceAfter(d, t) /\ e.todo = TodoAfter(d, t)
      /\ e.sum_ok = d.sum_ok /\ e.size_ok = d.size_ok
  BY DecodeTokenFields
<1>2. QED BY <1>1 DEF Same

LEMMA MatchMeans ==
  ASSUME NEW d \in Meaning, NEW t \in Token, ~d.fault, NEW e, e = DecodeToken(d, t),
         t.kind = "match"
  PROVE  /\ t.offset > Len(d.out) => e.fault = TRUE
         /\ t.offset <= Len(d.out) =>
              e.fault = FALSE /\ e.out = Copied(d.out, t.offset, t.length)
         /\ e.final = d.final /\ Same(d, e) /\ e.place = "symbol"
<1>0. Len(d.out) \in Nat /\ t.offset \in Nat
  BY LenProperties, MatchToken, BufferAssumption DEF Meaning
<1>1. /\ e.fault = (IF t.offset > Len(d.out) THEN TRUE ELSE FALSE)
      /\ t.offset <= Len(d.out) => e.out = Copied(d.out, t.offset, t.length)
      /\ e.final = d.final
      /\ e.place = PlaceAfter(d, t)
      /\ e.sum_ok = d.sum_ok /\ e.size_ok = d.size_ok
  BY DecodeTokenFields
<1>2. PlaceAfter(d, t) = "symbol"
  BY DEF PlaceAfter
<1>3. QED BY <1>0, <1>1, <1>2 DEF Same

LEMMA EndOfBlockMeans ==
  ASSUME NEW d \in Meaning, NEW t \in Token, ~d.fault, NEW e, e = DecodeToken(d, t),
         t.kind = "eob"
  PROVE  /\ e.out = d.out /\ e.final = d.final /\ e.fault = FALSE /\ Same(d, e)
         /\ e.place = AfterBlock(d.final)
<1>1. /\ e.out = d.out /\ e.final = d.final /\ e.fault = FALSE
      /\ e.place = PlaceAfter(d, t)
      /\ e.sum_ok = d.sum_ok /\ e.size_ok = d.size_ok
  BY DecodeTokenFields
<1>2. PlaceAfter(d, t) = AfterBlock(d.final)
  BY DEF PlaceAfter
<1>3. QED BY <1>1, <1>2 DEF Same

LEMMA FooterMeans ==
  ASSUME NEW d \in Meaning, NEW t \in Token, ~d.fault, NEW e, e = DecodeToken(d, t),
         t.kind = "footer"
  PROVE  /\ e.out = d.out /\ e.final = d.final /\ e.fault = FALSE
         /\ e.sum_ok = (t.sum = d.out) /\ e.size_ok = (t.size = Len(d.out))
         /\ e.place = "end"
<1>1. /\ e.out = d.out /\ e.final = d.final /\ e.fault = FALSE
      /\ e.place = PlaceAfter(d, t)
      /\ e.sum_ok = (t.sum = d.out) /\ e.size_ok = (t.size = Len(d.out))
  BY DecodeTokenFields
<1>2. PlaceAfter(d, t) = "end"
  BY DEF PlaceAfter
<1>3. QED BY <1>1, <1>2

-------------------------------------------------------------------------------
(* The end of a stream, and its wrapper header.                            *)

(* The stream was decoded to its end.                                      *)
LEMMA Completes ==
  ASSUME Ready, ~hist'.phantom, dec'.state = "Done", call'.pc # "idle",
         NEW k \in 0 .. stream.held, FollowsNext(k),
         Acceptable, produced' = stream.means.out, done'.segment = ~stream.means.final,
         (done'.matched # None /\ (hist'.errors = 0 \/ checksum_policy = "verify"))
           => (done'.matched = "yes" <=> FooterAgrees)
  PROVE  FollowedNext
<1>1. ~Going'
  BY DEF Going
<1>2. FollowInv'
  BY <1>1, FailsAfter DEF Ready
<1>3. PhantomInv'
  BY DEF PhantomInv
<1>4. /\ stream' = stream /\ (Acceptable' <=> Acceptable)
      /\ wrapper' = wrapper /\ checksum_policy' = checksum_policy
  BY KeptStream DEF Ready
<1>5. FooterAgrees' <=> FooterAgrees
  BY <1>4 DEF FooterAgrees
<1>6. DoneIsRight'
  BY <1>4, <1>5 DEF DoneIsRight, None
<1>7. call'.result = call.result
  BY DEF Ready, HandlerMove
<1>8. NoFalseError'
  <2> SUFFICES ASSUME hist'.errors = 0,
                      call'.result \in {"BadData", "InvalidHeader", "ChecksumMismatch"}
               PROVE  ~Acceptable'
    BY DEF NoFalseError, NeverCalledCorrupt
  <2>1. hist.errors = 0
    BY ReadyFacts
  <2>2. QED BY <1>4, <1>7, <2>1, ReadyFacts DEF Verdict, NoFalseError, NeverCalledCorrupt
<1>9. QED BY <1>2, <1>3, <1>6, <1>8 DEF FollowedNext, Verdict

(* Nothing is owed but in a compressed block.                              *)
LEMMA OwesNothing ==
  ASSUME Ready, NEW k \in 0 .. stream.held, Tracks(k), dec.match = NoMatch, dec.lits = <<>>
  PROVE  produced = D[k].out
<1>1. produced \in Seq(Byte)
  BY ReadyFacts, PendingKnown
<1>2. D[k].out = produced \o <<>>
  BY DEF Tracks, Owes
<1>3. QED BY <1>1, <1>2, ConcatProperties

LEMMA TracksLeads ==
  ASSUME Ready, NEW k \in 0 .. stream.held, Tracks(k)
  PROVE  Leads(produced, D[k].out)
BY ReadyFacts, PendingKnown, OwedLeads DEF Tracks

(* The reader after a failed read of the source.                           *)
LEMMA FailedFits ==
  ASSUME StreamOK, NEW i, ReaderFits(i), SourceFails(i)
  PROVE  /\ ReaderFits(in') /\ BitPos(in') = BitPos(i)
         /\ in'.pos = i.pos /\ in'.left = i.left /\ in'.over = i.over
         /\ in'.end >= i.end
<1>0. INPUT_BUF_SIZE \in Nat
  BY StreamAssumption
<1>1. PICK e \in i.end .. AtMost(i.pos + INPUT_BUF_SIZE - 1, stream.nbytes) :
         in' = [i EXCEPT !.end = e]
  BY DEF SourceFails
<1>2. /\ i.pos \in Nat /\ i.end \in Nat /\ i.left \in Int /\ i.over \in Int
      /\ i \in [pos : Nat, end : Nat, left : Int, over : Int]
      /\ stream.nbytes \in Nat /\ i.pos <= i.end
  BY DEF ReaderFits, ReaderOK, StreamOK
<1>3. e \in Nat /\ i.end <= e /\ e <= i.pos + INPUT_BUF_SIZE - 1 /\ e <= stream.nbytes
  BY <1>0, <1>1, <1>2 DEF AtMost
<1>4. /\ in'.pos = i.pos /\ in'.left = i.left /\ in'.over = i.over /\ in'.end = e
      /\ in' \in [pos : Nat, end : Nat, left : Int, over : Int]
  BY <1>1, <1>2, <1>3
<1>5. ReaderFits(in')
  BY <1>0, <1>2, <1>3, <1>4 DEF ReaderFits, ReaderOK
<1>6. BitPos(in') = BitPos(i)
  BY <1>4 DEF BitPos
<1>7. QED BY <1>3, <1>4, <1>5, <1>6

(* A failing source stages bytes and nothing else.                         *)
LEMMA QuietFailureFollows ==
  ASSUME Ready, SourceFails(in), dec' = dec, UNCHANGED bufferVars,
         dec.state \notin {"UncompressedData", "WrapperFooter"}
  PROVE  ReaderInv' /\ FollowedNext
<1>0. /\ StreamOK /\ ReaderFits(in) /\ in.over <= 8 /\ CallOK /\ HistOK
  BY ReadyFacts
<1>1. /\ ReaderFits(in') /\ BitPos(in') = BitPos(in)
      /\ in'.pos = in.pos /\ in'.left = in.left /\ in'.over = in.over
  BY <1>0, FailedFits
<1>2. call'.pc = "idle" /\ call'.result = "Source"
  BY <1>0, Leaving DEF SourceFails
<1>3. hist'.errors = hist.errors + 1 /\ hist'.phantom = hist.phantom
  BY <1>0 DEF SourceFails, HistOK
<1>4. produced' = produced
  BY DEF bufferVars
<1>5. ReaderInv'
  <2>1. stream' = stream /\ ReaderFits(in)'
    BY <1>1, ReadyFacts DEF ReaderFits, ReaderOK
  <2>2. QED BY <1>0, <1>1, <2>1 DEF ReaderInv
<1>6. dec.state # "Done"
  BY DEF Ready, Going
<1>7. CASE hist.phantom
  <2>1. hist'.phantom /\ ~Acceptable
    BY <1>3, <1>7, StillTracks
  <2>2. BitPos(in') > 8 * stream.nbytes
    BY <1>1, <1>7, StillTracks
  <2>3. dec'.state \notin {"WrapperHeader", "UncompressedData", "WrapperFooter", "Done"}
    BY <1>6, <1>7, StillTracks
  <2>4. QED BY <1>5, <2>1, <2>2, <2>3, Invents
<1>8. CASE ~hist.phantom
  <2>1. PICK k \in 0 .. stream.held : Tracks(k)
    BY <1>8, StillTracks
  <2>2. Expects(dec', in', k)
    BY <1>1, <2>1 DEF Tracks, Expects
  <2>3. BitPos(in') = TokenEnd(k)
    BY <1>1, <2>1 DEF Tracks, Placed
  <2>4. Good(k) /\ Owes(dec', produced', D[k].out)
    BY <1>4, <2>1 DEF Tracks
  <2>5. Placed(dec', in', hist'.errors, k)
    BY <2>3 DEF Placed
  <2>6. TracksNext(k)
    BY <1>2, <2>2, <2>4, <2>5 DEF TracksNext
  <2>7. QED BY <1>2, <1>3, <1>5, <1>6, <1>8, <2>3, <2>6, Advances
<1>9. QED BY <1>5, <1>7, <1>8

(* The wrapper's header is one token or the stream has none.               *)
LEMMA WrapperHeaderFollows ==
  ASSUME Ready, ParseWrapperHeader
  PROVE  ReaderInv' /\ FollowedNext
<1> DEFINE i == Filled(in)
           t == TheToken(i, {"wrapper"})
           good == /\ HasToken(i, {"wrapper"})
                   /\ t.ok
                   /\ t.bits <= 8 * Staged(i)
<1>0. /\ StreamOK /\ ReaderFits(in) /\ in.over <= 8 /\ CallOK /\ DecoderOK /\ HistOK
      /\ Known /\ LaidOut
  BY ReadyFacts
<1>1. dec.state = "WrapperHeader" /\ UNCHANGED bufferVars /\ UNCHANGED hist
  BY DEF ParseWrapperHeader
<1>2. /\ good => /\ in' = [i EXCEPT !.pos = @ + t.bits \div 8]
                 /\ dec' = [dec EXCEPT !.state = "BlockHeader"]
                 /\ ToAccount
      /\ ~good => in' = i /\ Fail("InvalidHeader") /\ UNCHANGED dec
  BY DEF ParseWrapperHeader
<1>3. /\ ReaderFits(i) /\ BitPos(i) = BitPos(in)
      /\ i.pos = in.pos /\ i.left = in.left /\ i.over = in.over
      /\ i.end = stream.nbytes \/ Staged(i) = INPUT_BUF_SIZE
  BY <1>0, FilledFits
<1>4. ~hist.phantom /\ ~hist'.phantom
  BY <1>1, StillTracks
<1>5. PICK k \in 0 .. stream.held : Tracks(k)
  BY <1>4, StillTracks
<1>6. k = 0 /\ D[0].place = "wrapper" /\ in.pos = 0 /\ in.left = 0 /\ in.over = 0
      /\ ~D[0].fault /\ BitPos(in) = TokenEnd(0) /\ dec.final = D[0].final
  BY <1>1, <1>5, TracksNoFault DEF Tracks, Expects, Placed
<1>7. TokenEnd(0) = 0
  BY DEF TokenEnd
<1>8. produced = D[0].out /\ produced' = produced
  BY <1>0, <1>1, <1>5, <1>6, OwesNothing, ReadyFacts DEF DecoderFits, bufferVars
<1> HIDE DEF i
<1>9. CASE stream.held > 0
  <2>1. 0 \in 0 .. stream.held /\ 0 < stream.held /\ stream.held \in Nat
    BY <1>0, <1>9, TokenEnds
  <2> DEFINE u == stream.toks[1]
  <2>2. /\ u \in Token /\ PlaceOf(u) = "wrapper"
        /\ TokenEnd(1) = stream.starts[1] + Width(u)
        /\ TokenEnd(1) <= 8 * stream.nbytes
        /\ u.kind \notin {"len", "footer"} => stream.starts[1] = 0
        /\ D[0] \in Meaning /\ D[1] \in Meaning /\ D[1] = DecodeToken(D[0], u)
        /\ 1 \in 0 .. stream.held
    BY <1>0, <1>6, <1>7, <2>1, NextToken
  <2>3. u.kind = "wrapper"
    BY <2>2 DEF PlaceOf
  <2>4. u.ok \in BOOLEAN /\ \E n \in 1 .. INPUT_BUF_SIZE : u.bits = 8 * n
    BY <2>2, <2>3, WrapperToken
  <2>5. HasToken(i, {"wrapper"}) /\ t = u
    BY <1>0, <1>3, <1>6, <1>7, <2>1, <2>2, <2>3, TokenHere
  <2>6. Width(u) = u.bits
    BY <2>3 DEF Width
  <2>7. PICK n \in 1 .. INPUT_BUF_SIZE : u.bits = 8 * n
    BY <2>4
  <2>8. INPUT_BUF_SIZE \in Nat /\ stream.nbytes \in Nat
    BY <1>0, StreamAssumption DEF StreamOK
  <2>9. Staged(i) = i.end - i.pos /\ i.end \in Nat /\ i.pos = 0
    BY <1>3, <1>6 DEF Staged, ReaderFits, ReaderOK
  <2>10. u.bits <= 8 * Staged(i)
    <3>1. 8 * n <= 8 * stream.nbytes
      BY <2>2, <2>3, <2>6, <2>7
    <3>2. n <= INPUT_BUF_SIZE /\ n \in Nat
      BY <2>7, <2>8
    <3>3. QED BY <1>3, <2>7, <2>8, <2>9, <3>1, <3>2
  <2>11. good <=> u.ok
    BY <2>5, <2>10
  <2>12. /\ D[1].final = D[0].final
         /\ D[1].fault <=> ~u.ok
         /\ D[1].sum_ok = D[0].sum_ok /\ D[1].size_ok = D[0].size_ok
         /\ D[1].out = D[0].out /\ D[1].place = "block"
    <3>1. PlaceAfter(D[0], u) = "block"
      BY <2>3 DEF PlaceAfter
    <3>2. u.kind \in {"wrapper", "precode", "lens", "len"} /\ ~D[0].fault
          /\ u \in Token /\ D[0] \in Meaning /\ D[1] = DecodeToken(D[0], u)
      BY <1>6, <2>2, <2>3
    <3>3. /\ D[1].out = D[0].out /\ D[1].final = D[0].final /\ D[1].fault = ~u.ok
          /\ Same(D[0], D[1]) /\ D[1].place = PlaceAfter(D[0], u)
      BY <3>2, OkTokenMeans
    <3>4. QED BY <3>1, <3>3 DEF Same
  <2>13. CASE u.ok
    <3>1. /\ in' = [i EXCEPT !.pos = @ + u.bits \div 8]
          /\ dec' = [dec EXCEPT !.state = "BlockHeader"]
          /\ ToAccount
      BY <1>2, <2>5, <2>11, <2>13
    <3>2. u.bits \div 8 = n
      BY <2>7
    <3>3. in' = [i EXCEPT !.pos = i.pos + n]
      BY <3>1, <3>2
    <3>4. i \in [pos : Nat, end : Nat, left : Int, over : Int]
      BY <1>3 DEF ReaderFits, ReaderOK
    <3>5. /\ in' \in [pos : Nat, end : Nat, left : Int, over : Int]
          /\ in'.pos = n /\ in'.end = i.end /\ in'.left = 0 /\ in'.over = 0
      BY <1>3, <1>6, <2>7, <2>9, <3>3, <3>4
    <3>6. n <= i.end /\ i.end <= stream.nbytes /\ i.end - 0 <= INPUT_BUF_SIZE
      BY <1>3, <2>7, <2>9, <2>10 DEF ReaderFits
    <3>7. ReaderFits(in') /\ BitPos(in') = 8 * n
      BY <2>7, <2>8, <2>9, <3>5, <3>6 DEF ReaderFits, ReaderOK, BitPos
    <3>8. dec'.state = "BlockHeader" /\ dec'.final = dec.final
          /\ dec'.match = dec.match /\ dec'.lits = dec.lits
      BY <1>0, <3>1 DEF DecoderOK
    <3>9. call'.pc = "account"
      BY <1>0, <3>1, Leaving
    <3>10. ReaderInv'
      <4>1. stream' = stream
        BY ReadyFacts
      <4>2. ReaderFits(in)'
        BY <3>7, <4>1 DEF ReaderFits, ReaderOK
      <4>3. QED BY <3>5, <3>8, <4>2 DEF ReaderInv
    <3>11. BitPos(in') = TokenEnd(1)
      BY <2>2, <2>3, <2>6, <2>7, <3>7
    <3>12. D[0].final = FALSE
      BY <1>0, UndecodedMeans DEF Known, Meant
    <3>13. Good(1)
      <4>1. D[1].fault \in BOOLEAN /\ D[1].fault = FALSE
        BY <2>2, <2>12, <2>13 DEF Meaning
      <4>2. D[1].sum_ok = TRUE /\ D[1].size_ok = TRUE
        BY <1>5, <1>6, <2>12 DEF Tracks, Good
      <4>3. QED BY <4>1, <4>2 DEF Good
    <3>14. Expects(dec', in', 1)
      BY <1>6, <2>12, <3>8, <3>12 DEF Expects
    <3>15. Owes(dec', produced', D[1].out)
      BY <1>5, <1>6, <1>8, <2>12, <3>8 DEF Owes, Tracks
    <3>16. TracksNext(1)
      BY <3>9, <3>11, <3>13, <3>14, <3>15 DEF TracksNext, Placed
    <3>17. QED BY <1>4, <2>2, <3>8, <3>9, <3>10, <3>11, <3>16, Advances
  <2>14. CASE ~u.ok
    <3>1. in' = i /\ Fail("InvalidHeader") /\ UNCHANGED dec
      BY <1>2, <2>11, <2>14
    <3>2. call'.pc = "idle" /\ call'.result = "InvalidHeader"
      BY <1>0, <3>1, Leaving
    <3>3. ~Acceptable
      BY <1>0, <2>2, <2>12, <2>14, FaultyStream
    <3>4. FollowsNext(0)
      BY <1>1, <1>5, <1>6, <1>8, <3>1, TracksLeads DEF FollowsNext
    <3>5. ReaderInv'
      <4>1. stream' = stream
        BY ReadyFacts
      <4>2. ReaderFits(in)'
        BY <1>3, <3>1, <4>1 DEF ReaderFits, ReaderOK
      <4>3. QED BY <1>1, <1>3, <1>6, <3>1, <4>2 DEF ReaderInv
    <3>6. QED BY <1>1, <1>4, <2>1, <3>1, <3>2, <3>3, <3>4, <3>5, Faults
  <2>15. QED BY <2>13, <2>14
<1>10. CASE ~(stream.held > 0)
  <2>1. stream.held = 0
    BY <1>0, <1>10, TokenEnds
  <2>2. BitPos(i) = 0
    BY <1>3, <1>6, <1>7
  <2>3. ~HasToken(i, {"wrapper"})
    BY <1>0, <1>7, <2>1, <2>2, NoTokenHere
  <2>4. in' = i /\ Fail("InvalidHeader") /\ UNCHANGED dec
    BY <1>2, <2>3
  <2>5. call'.pc = "idle" /\ call'.result = "InvalidHeader"
    BY <1>0, <2>4, Leaving
  <2>6. ~Acceptable
    BY <1>0, <1>6, <2>1, CutOffStream
  <2>7. FollowsNext(0)
    BY <1>1, <1>5, <1>6, <1>8, <2>4, TracksLeads DEF FollowsNext
  <2>8. ReaderInv'
    <3>1. stream' = stream
      BY ReadyFacts
    <3>2. ReaderFits(in)'
      BY <1>3, <2>4, <3>1 DEF ReaderFits, ReaderOK
    <3>3. QED BY <1>1, <1>3, <1>6, <2>4, <3>2 DEF ReaderInv
  <2>9. 0 \in 0 .. stream.held
    BY <2>1
  <2>10. QED BY <1>1, <1>4, <2>4, <2>5, <2>6, <2>7, <2>8, <2>9, Faults
<1>11. QED BY <1>9, <1>10

(* A segment's end is the end of what the source holds.                    *)
LEMMA SegmentEndsHere ==
  ASSUME Ready, EndSegment
  PROVE  /\ ~hist.phantom /\ ReaderFits(in') /\ in'.over = in.over
         /\ BitPos(in') = BitPos(in) /\ Fed(in') /\ options.segment_end
         /\ Size \in 0 .. stream.held /\ stream.held = Size /\ Size \in Nat /\ Tracks(Size)
         /\ D[Size].place = "block" /\ D[Size].final = FALSE /\ ~D[Size].fault
         /\ TokenEnd(Size) = 8 * stream.nbytes
<1> DEFINE i == Filled(in)
<1>0. /\ StreamOK /\ ReaderFits(in) /\ in.over <= 8 /\ CallOK /\ DecoderOK /\ HistOK
      /\ Known /\ LaidOut /\ Meant /\ Suited /\ DecoderFits /\ CallFits
  BY ReadyFacts
<1>1. dec.state = "BlockHeader" /\ UNCHANGED bufferVars /\ UNCHANGED hist
      /\ AtSegmentEnd(i) /\ in' = i /\ ToAccount
      /\ done' = [done EXCEPT !.segment = TRUE] /\ dec' = [dec EXCEPT !.state = "Done"]
  BY DEF EndSegment
<1>2. /\ ReaderFits(i) /\ BitPos(i) = BitPos(in) /\ Fed(i)
      /\ i.over = in.over
  BY <1>0, FilledFits
<1>3. BitPos(i) = 8 * stream.nbytes
  BY <1>0, <1>1, <1>2, SegmentEndIsEnd DEF AtSegmentEnd
<1>4. stream.nbytes \in Nat /\ Size \in Nat /\ stream.held \in Nat /\ stream.held <= Size
  BY <1>0, TokenEnds
<1>5. ~hist.phantom /\ ~hist'.phantom
  BY <1>1, <1>2, <1>3, <1>4, StillTracks
<1>6. PICK k \in 0 .. stream.held : Tracks(k)
  BY <1>5, StillTracks
<1>7. /\ D[k].place = "block" /\ D[k].final = FALSE /\ ~D[k].fault
      /\ TokenEnd(k) = 8 * stream.nbytes
  BY <1>1, <1>2, <1>3, <1>6, TracksNoFault DEF Tracks, Expects, Placed
<1>8. options.segment_end
  BY <1>1 DEF AtSegmentEnd
<1> HIDE DEF i
<1>9. k = Size /\ stream.held = Size
  <2> SUFFICES ASSUME k # Size PROVE FALSE
    BY <1>4
  <2>1. k + 1 \in 1 .. Size /\ (k + 1) - 1 = k /\ k \in 0 .. Size
    BY <1>4
  <2>2. PlaceOf(stream.toks[k + 1]) = "block"
    BY <1>0, <1>7, <2>1 DEF Suited
  <2>3. stream.toks[k + 1].kind \notin {"len", "footer"}
    BY <2>2 DEF PlaceOf
  <2>4. stream.starts[k + 1] = StartAt(stream.toks, k + 1, TokenEnd(k))
    BY <1>0, <2>1 DEF LaidOut
  <2>5. stream.starts[k + 1] = 8 * stream.nbytes
    BY <1>7, <2>3, <2>4 DEF StartAt
  <2>6. stream.starts[k + 1] # 8 * stream.nbytes
    BY <1>0, <1>7, <1>8, <2>1 DEF Suited
  <2>7. QED BY <2>5, <2>6
<1>10. QED BY <1>1, <1>2, <1>4, <1>5, <1>6, <1>7, <1>8, <1>9

(* A segment ends where its last block did.                                *)
LEMMA EndSegmentFollows ==
  ASSUME Ready, EndSegment
  PROVE  ReaderInv' /\ FollowedNext
<1>0. /\ StreamOK /\ ReaderFits(in) /\ in.over <= 8 /\ CallOK /\ DecoderOK /\ HistOK
      /\ Known /\ LaidOut /\ Meant /\ Suited /\ DecoderFits /\ CallFits
  BY ReadyFacts
<1>1. /\ UNCHANGED bufferVars /\ UNCHANGED hist /\ ToAccount
      /\ done' = [done EXCEPT !.segment = TRUE] /\ dec' = [dec EXCEPT !.state = "Done"]
  BY DEF EndSegment
<1>2. /\ ~hist.phantom /\ ReaderFits(in') /\ in'.over = in.over /\ BitPos(in') = BitPos(in)
      /\ Fed(in') /\ options.segment_end
      /\ Size \in 0 .. stream.held /\ stream.held = Size /\ Size \in Nat /\ Tracks(Size)
      /\ D[Size].place = "block" /\ D[Size].final = FALSE /\ ~D[Size].fault
      /\ TokenEnd(Size) = 8 * stream.nbytes
  BY SegmentEndsHere
<1>3. ~hist'.phantom
  BY <1>1, <1>2
<1>4. stream.starts[Size + 1] = 8 * stream.nbytes
  <2>1. Size \in 0 .. Size
    BY <1>2
  <2>2. stream.starts[Size + 1] = StartAt(stream.toks, Size + 1, TokenEnd(Size))
    BY <1>0, <2>1 DEF LaidOut
  <2>3. ~(Size + 1 <= Len(stream.toks))
    BY <1>2 DEF Size
  <2>4. QED BY <1>2, <2>2, <2>3 DEF StartAt
<1>5. /\ stream.means.out = D[Size].out
      /\ ~stream.means.fault /\ stream.means.segment
      /\ ~stream.means.final
  BY <1>0, <1>2, <1>4, StreamMeans
<1>6. Acceptable
  BY <1>2, <1>5 DEF Acceptable
<1>7. produced' = stream.means.out
  <2>1. dec.state = "BlockHeader"
    BY DEF EndSegment
  <2>2. QED BY <1>0, <1>1, <1>2, <1>5, <2>1, OwesNothing DEF DecoderFits, bufferVars
<1>8. dec'.state = "Done" /\ call'.pc = "account"
  BY <1>0, <1>1, Leaving DEF DecoderOK
<1>9. FollowsNext(Size)
  <2>1. produced' = produced
    BY <1>1 DEF bufferVars
  <2>2. QED BY <1>2, <1>8, <2>1, TracksLeads DEF FollowsNext
<1>10. done.segment = FALSE /\ done.matched = None
  BY <1>0 DEF CallFits, Ready
<1>11. done'.segment = TRUE /\ done'.matched = None
  BY <1>0, <1>1, <1>10 DEF CallFits
<1>12. done'.segment = ~stream.means.final
  <2>1. stream.means.final \in BOOLEAN
    BY <1>0 DEF Meant
  <2>2. QED BY <1>5, <1>11, <2>1
<1>13. ReaderInv'
  <2>1. stream' = stream
    BY ReadyFacts
  <2>2. ReaderFits(in)'
    BY <1>2, <2>1 DEF ReaderFits, ReaderOK
  <2>3. QED BY <1>0, <1>2, <1>8, <2>2 DEF ReaderInv
<1>14. QED BY <1>2, <1>3, <1>6, <1>7, <1>8, <1>9, <1>11, <1>12, <1>13, Completes

LEMMA ReaderStaysFit ==
  ASSUME Ready, ReaderFits(in'),
         in'.over <= 8 \/ (call'.pc = "idle" /\ call'.result \in Fatal),
         dec'.state = "WrapperFooter" => in'.over <= in'.left \div 8,
         dec'.state = "UncompressedData" =>
           in'.left < 8 \/ Staged(in') > 0 \/ in'.end = stream.nbytes
  PROVE  ReaderInv'
<1>1. stream' = stream
  BY ReadyFacts
<1>2. ReaderFits(in)' /\ Staged(in)' = Staged(in')
  BY <1>1 DEF ReaderFits, ReaderOK, Staged
<1>3. Alive' => in'.over <= 8
  BY DEF Alive, Fatal
<1>4. QED BY <1>1, <1>2, <1>3 DEF ReaderInv

(* The reader with which headers are parsed.                               *)
LEMMA HeaderReader ==
  ASSUME StreamOK, NEW i, ReaderFits(i), i.over <= 8
  PROVE  LET r == Refilled(Filled(i)) IN
         /\ ReaderFits(r) /\ BitPos(r) = BitPos(i) /\ r.left >= 56 /\ r.left \in Nat
         /\ r.over \in Nat
         /\ r.end = Filled(i).end
         /\ Staged(r) > 0 \/ r.end = stream.nbytes
<1> DEFINE f == Filled(i)
           r == Refilled(f)
<1>1. ReaderFits(f) /\ BitPos(f) = BitPos(i) /\ f.over <= 8 /\ Fed(f)
      /\ (f.end = stream.nbytes \/ Staged(f) = INPUT_BUF_SIZE)
  BY FilledFits
<1> HIDE DEF f
<1>2. ReaderFits(r) /\ BitPos(r) = BitPos(f) /\ r.left >= 56 /\ r.end = f.end
  BY <1>1, RefilledFits
<1>3. r.left \in Nat /\ r.over \in Nat
  BY <1>2 DEF ReaderFits, ReaderOK
<1>4. INPUT_BUF_SIZE >= 8
  BY StreamAssumption
<1>5. CASE Staged(f) = INPUT_BUF_SIZE
  <2>1. r = RefilledFast(f)
    BY <1>4, <1>5 DEF Refilled
  <2>2. Staged(r) >= Staged(f) - 7
    <3>1. INPUT_BUF_SIZE \in Nat
      BY StreamAssumption
    <3>2. ReaderOK(f) /\ Staged(f) >= 7
      BY <1>1, <1>4, <1>5, <3>1 DEF ReaderFits
    <3>3. QED BY <2>1, <3>2, RefilledFastReader DEF ReaderFits
  <2>3. Staged(r) \in Int /\ INPUT_BUF_SIZE \in Int
    BY <1>2, StreamAssumption DEF Staged, ReaderFits, ReaderOK
  <2> HIDE DEF r
  <2>4. Staged(r) > 0
    BY <1>4, <1>5, <2>2, <2>3
  <2>5. QED BY <1>1, <1>2, <1>3, <2>4 DEF f, r
<1>6. CASE f.end = stream.nbytes
  BY <1>1, <1>2, <1>3, <1>6 DEF f
<1>7. QED BY <1>1, <1>5, <1>6

(* A token read where no block is pending.                                 *)
LEMMA ReadsQuietly ==
  ASSUME Ready, NEW r, NEW kinds, NEW t, NEW k, Genuine(r, kinds, t, k),
         dec.match = NoMatch, dec.lits = <<>>, dec'.match = NoMatch, dec'.lits = <<>>,
         UNCHANGED bufferVars, D[k + 1].out = D[k].out
  PROVE  Owes(dec', produced', D[k + 1].out) /\ Leads(produced', D[k].out)
<1>1. k \in 0 .. stream.held /\ Tracks(k)
  BY DEF Genuine
<1>2. produced' = produced
  BY DEF bufferVars
<1>3. QED BY <1>1, <1>2, TracksLeads DEF Tracks, Owes

LEMMA GoodNext ==
  ASSUME NEW k, NEW j, Good(k), D[j].fault = FALSE, Same(D[k], D[j])
  PROVE  Good(j)
BY DEF Good, Same

LEMMA NotedPhantom ==
  ASSUME HistOK, NEW real, NotePhantom(real)
  PROVE  hist'.phantom = (hist.phantom \/ ~real) /\ hist'.errors = hist.errors
BY DEF HistOK, NotePhantom

(* A block header invented at a place where one might stand.               *)
LEMMA InventedBlock ==
  ASSUME Ready, dec.state = "BlockHeader", ~AtSegmentEnd(Filled(in)),
         NEW r, BitPos(r) = BitPos(in), NEW t, NEW phantoms,
         Invented(r, {"block"}, t, phantoms)
  PROVE  ~Acceptable
<1>0. /\ StreamOK /\ ReaderFits(in) /\ Known /\ LaidOut /\ Meant
  BY ReadyFacts
<1>1. CASE hist.phantom
  BY <1>1, StillTracks
<1>2. CASE ~hist.phantom
  <2>1. Tracks(stream.held) /\ BitPos(in) = TokenEnd(stream.held)
    BY <1>2 DEF Invented
  <2>2. D[stream.held].final = FALSE
    BY <2>1 DEF Tracks, Expects
  <2>3. ~stream.means.final
    BY <1>0, <2>2, StreamMeans
  <2>4. ASSUME options.segment_end, stream.means.segment PROVE FALSE
    <3>1. stream.held = Size /\ stream.starts[Size + 1] = 8 * stream.nbytes
      BY <1>0, <2>4, StreamMeans
    <3>2. Size \in Nat /\ Size \in 0 .. Size
      BY <1>0, TokenEnds
    <3>3. stream.starts[Size + 1] = StartAt(stream.toks, Size + 1, TokenEnd(Size))
      BY <1>0, <3>2 DEF LaidOut
    <3>4. ~(Size + 1 <= Len(stream.toks))
      BY <3>2 DEF Size
    <3>5. TokenEnd(Size) = 8 * stream.nbytes
      BY <3>1, <3>3, <3>4 DEF StartAt
    <3>6. /\ ReaderFits(Filled(in)) /\ BitPos(Filled(in)) = BitPos(in) /\ Fed(Filled(in))
      BY <1>0, FilledFits
    <3>7. BitPos(Filled(in)) = 8 * stream.nbytes
      BY <2>1, <3>1, <3>5, <3>6
    <3>8. AtSegmentEnd(Filled(in))
      BY <1>0, <2>4, <3>6, <3>7, SegmentEndIsEnd DEF AtSegmentEnd
    <3>9. QED BY <3>8
  <2>5. QED BY <2>3, <2>4 DEF Acceptable
<1>3. QED BY <1>1, <1>2

LEMMA SymbolKinds ==
  /\ \A u \in Token : PlaceOf(u) = "block" => u.kind \in {"block"}
  /\ \A u \in Token : PlaceOf(u) = "precode" => u.kind \in {"precode"}
  /\ \A u \in Token : PlaceOf(u) = "lens" => u.kind \in {"lens"}
  /\ \A u \in Token : PlaceOf(u) = "symbol" => u.kind \in Symbols
<1>1. ASSUME NEW u
      PROVE  /\ PlaceOf(u) = "block" => u.kind = "block"
             /\ PlaceOf(u) = "precode" => u.kind = "precode"
             /\ PlaceOf(u) = "lens" => u.kind = "lens"
  BY DEF PlaceOf
<1>2. \A u \in Token : PlaceOf(u) = "symbol" => u.kind \in Symbols
  BY TokenKind DEF PlaceOf, Symbols
<1>3. QED BY <1>1, <1>2

LEMMA GenuineEnds ==
  ASSUME Ready, NEW r, NEW kinds, NEW t, NEW k, Genuine(r, kinds, t, k)
  PROVE  /\ k \in 0 .. stream.held /\ k + 1 \in 0 .. stream.held
         /\ t.kind \notin {"len", "footer"} => TokenEnd(k + 1) = BitPos(r) + Width(t)
<1>1. t = stream.toks[k + 1]
  BY DEF Genuine
<1>2. /\ k \in 0 .. stream.held /\ k + 1 \in 0 .. stream.held
      /\ stream.toks[k + 1].kind \notin {"len", "footer"}
           => TokenEnd(k + 1) = TokenEnd(k) + Width(stream.toks[k + 1])
      /\ BitPos(r) = TokenEnd(k)
  BY GenuineFacts
<1>3. QED BY <1>1, <1>2

(* A header token of n bits was read at r: on to token k + 1.              *)
LEMMA HeaderAdvances ==
  ASSUME Ready, NEW r, ReaderFits(r), r.over <= 8, NEW kinds, NEW t, NEW k,
         Genuine(r, kinds, t, k), t.kind \notin {"len", "footer"},
         NEW n \in Nat, n <= r.left, n = Width(t), in' = Consumed(r, n),
         dec.match = NoMatch, dec.lits = <<>>, dec'.match = NoMatch, dec'.lits = <<>>,
         UNCHANGED bufferVars, D[k + 1].out = D[k].out,
         D[k + 1].fault = FALSE, Same(D[k], D[k + 1]),
         hist'.phantom = hist.phantom,
         dec'.state \in {"DynamicPrecodeLens", "DynamicCodeLengths", "CompressedData"},
         Expects(dec', in', k + 1),
         call'.pc # "idle", call'.pc = "codelens" => LensStaged(in', k + 1)
  PROVE  ReaderInv' /\ FollowedNext
<1>1. /\ ReaderFits(in') /\ BitPos(in') = BitPos(r) + n /\ in'.over = r.over
  BY ConsumedFits
<1>2. /\ k + 1 \in 0 .. stream.held /\ Tracks(k) /\ ~hist.phantom
      /\ TokenEnd(k + 1) = BitPos(r) + n
  <2>2. k + 1 \in 0 .. stream.held /\ TokenEnd(k + 1) = BitPos(r) + n
    BY GenuineEnds
  <2>3. Tracks(k) /\ ~hist.phantom
    BY DEF Genuine
  <2>4. QED BY <2>2, <2>3
<1>3. BitPos(in') = TokenEnd(k + 1)
  BY <1>1, <1>2
<1>4. Owes(dec', produced', D[k + 1].out)
  BY ReadsQuietly
<1>5. Good(k + 1)
  BY <1>2, GoodNext DEF Tracks
<1>6. TracksNext(k + 1)
  BY <1>3, <1>4, <1>5 DEF TracksNext, Placed
<1>7. ReaderInv'
  BY <1>1, ReaderStaysFit
<1>8. FollowedNext
  BY <1>2, <1>3, <1>6, Advances
<1>9. QED BY <1>7, <1>8

(* A header token was invented at r.                                       *)
LEMMA HeaderInvented ==
  ASSUME Ready, NEW r, ReaderFits(r), r.over <= 8,
         NEW kinds, NEW t \in Token, NEW phantoms, Invented(r, kinds, t, phantoms),
         NEW n \in Nat, n <= r.left, n = Width(t), in' = Consumed(r, n),
         NotePhantom(HasToken(r, kinds)), ~Acceptable,
         dec'.state \in {"DynamicPrecodeLens", "DynamicCodeLengths", "CompressedData"}
  PROVE  ReaderInv' /\ FollowedNext
<1>1. /\ ReaderFits(in') /\ BitPos(in') = BitPos(r) + n /\ in'.over = r.over
  BY ConsumedFits
<1>2. hist'.phantom
  BY NotedPhantom, ReadyFacts DEF Invented
<1>3. BitPos(in') > 8 * stream.nbytes
  BY <1>1 DEF Invented
<1>4. ReaderInv'
  BY <1>1, ReaderStaysFit
<1>5. FollowedNext
  BY <1>2, <1>3, Invents
<1>6. QED BY <1>4, <1>5

-------------------------------------------------------------------------------
(* Block headers.                                                          *)

(* What parse_block_header starts from.                                    *)
AtHeader(r) ==
  /\ dec.state = "BlockHeader" /\ ~AtSegmentEnd(Filled(in))
  /\ dec.match = NoMatch /\ dec.lits = <<>>
  /\ ReaderFits(r) /\ BitPos(r) = BitPos(in) /\ r.left >= 56 /\ r.left \in Nat
  /\ r.over <= 8
  /\ Staged(r) > 0 \/ r.end = stream.nbytes
  /\ UNCHANGED bufferVars

LEMMA HeaderTokens ==
  ASSUME Ready, NEW r, AtHeader(r), NEW t \in Read(r, {"block"}, Phantoms.block)
  PROVE  /\ t \in Token /\ t.kind = "block"
         /\ t.type \in {"dynamic", "static", "stored", "reserved"} /\ t.final \in BOOLEAN
         /\ Width(t) = IF t.type = "dynamic" THEN 20 ELSE 3
         /\ \/ \E k : Genuine(r, {"block"}, t, k)
            \/ Invented(r, {"block"}, t, Phantoms.block) /\ ~Acceptable
<1>1. StreamOK
  BY ReadyFacts
<1>2. \A k \in 0 .. stream.held : Tracks(k) => D[k].place = "block"
  BY DEF Tracks, Expects, AtHeader
<1>3. \A u \in Token : PlaceOf(u) = "block" => u.kind \in {"block"}
  BY SymbolKinds
<1>4. \A u \in Phantoms.block : u \in Token
  BY PhantomsAreTokens
<1>5. dec.state # "WrapperFooter" /\ "block" \in {"block", "precode", "lens", "symbol"}
      /\ ReaderFits(r) /\ BitPos(r) = BitPos(in)
  BY DEF AtHeader
<1>6. /\ t \in Token
      /\ (\E k : Genuine(r, {"block"}, t, k)) \/ Invented(r, {"block"}, t, Phantoms.block)
  BY <1>2, <1>3, <1>4, <1>5, ReadCases
<1>7. t.kind = "block"
  BY <1>1, PhantomsAreTokens, ReadGives
<1>8. /\ t.type \in {"dynamic", "static", "stored", "reserved"} /\ t.final \in BOOLEAN
      /\ t.bits = IF t.type = "dynamic" THEN 20 ELSE 3
  BY <1>6, <1>7, BlockToken
<1>9. Width(t) = IF t.type = "dynamic" THEN 20 ELSE 3
  BY <1>6, <1>7, <1>8, TokenWidth
<1>10. Invented(r, {"block"}, t, Phantoms.block) => ~Acceptable
  BY InventedBlock DEF AtHeader
<1>11. QED BY <1>6, <1>7, <1>8, <1>9, <1>10

(* A block header is what the stream says.                                 *)
LEMMA HeaderMeans ==
  ASSUME Ready, NEW r, AtHeader(r), NEW t, NEW k, Genuine(r, {"block"}, t, k),
         t \in Token, t.kind = "block"
  PROVE  /\ k \in 0 .. stream.held /\ k + 1 \in 0 .. stream.held /\ Tracks(k)
         /\ D[k + 1].out = D[k].out /\ D[k + 1].final = t.final /\ Same(D[k], D[k + 1])
         /\ D[k + 1].fault = (t.type = "reserved")
         /\ D[k + 1].place = CASE t.type = "dynamic" -> "precode"
                               [] t.type = "static" -> "symbol"
                               [] t.type = "stored" -> "len"
                               [] OTHER -> "end"
         /\ BlockIs(k + 1, t.type)
<1>1. t = stream.toks[k + 1] /\ Tracks(k)
  BY DEF Genuine
<1>2. /\ k \in 0 .. stream.held /\ k + 1 \in 0 .. stream.held /\ k \in Nat
      /\ ~D[k].fault /\ D[k] \in Meaning /\ D[k + 1] = DecodeToken(D[k], stream.toks[k + 1])
  BY GenuineFacts
<1>3. D[k + 1] = DecodeToken(D[k], t)
  BY <1>1, <1>2
<1>4. BlockIs(k + 1, t.type)
  BY <1>1, <1>2, BlockBegins
<1>5. QED BY <1>1, <1>2, <1>3, <1>4, BlockTokenMeans

(* Each type of block is begun from its header token.                      *)
LEMMA DynamicFollows ==
  ASSUME Ready, NEW r, AtHeader(r), NEW t \in Read(r, {"block"}, Phantoms.block),
         t.type = "dynamic", BeginDynamic(r, t)
  PROVE  ReaderInv' /\ FollowedNext
<1>0. DecoderOK /\ CallOK /\ HistOK /\ ReaderFits(r) /\ r.over <= 8 /\ 20 <= r.left
      /\ dec.match = NoMatch /\ dec.lits = <<>> /\ UNCHANGED bufferVars
  BY ReadyFacts DEF AtHeader
<1>1. /\ t \in Token /\ t.kind = "block" /\ Width(t) = 20
      /\ \/ \E k : Genuine(r, {"block"}, t, k)
         \/ Invented(r, {"block"}, t, Phantoms.block) /\ ~Acceptable
  BY HeaderTokens
<1>2. /\ in' = Consumed(r, 20) /\ ToAccount /\ NotePhantom(HasToken(r, {"block"}))
      /\ dec' = [dec EXCEPT !.state = "DynamicPrecodeLens", !.final = t.final,
                            !.static_loaded = FALSE]
  BY DEF BeginDynamic
<1>3. /\ dec'.state = "DynamicPrecodeLens" /\ dec'.final = t.final
      /\ dec'.match = NoMatch /\ dec'.lits = <<>>
  BY <1>0, <1>2 DEF DecoderOK
<1>4. call'.pc = "account"
  BY <1>0, <1>2, Leaving
<1>5. CASE \E k : Genuine(r, {"block"}, t, k)
  <2>1. PICK k : Genuine(r, {"block"}, t, k)
    BY <1>5
  <2>2. /\ D[k + 1].out = D[k].out /\ D[k + 1].final = t.final /\ Same(D[k], D[k + 1])
        /\ D[k + 1].fault = (t.type = "reserved")
        /\ D[k + 1].place = CASE t.type = "dynamic" -> "precode"
                              [] t.type = "static" -> "symbol"
                              [] t.type = "stored" -> "len"
                              [] OTHER -> "end"
        /\ BlockIs(k + 1, t.type)
    BY <1>1, <2>1, HeaderMeans
  <2>3. D[k + 1].fault = FALSE /\ D[k + 1].place = "precode" /\ BlockIs(k + 1, "dynamic")
    BY <2>2
  <2>4. Expects(dec', in', k + 1)
    BY <1>3, <2>2, <2>3 DEF Expects
  <2>5. hist'.phantom = hist.phantom
    BY <1>0, <1>2, <2>1, NotedPhantom, ReadyFacts DEF Genuine
  <2>6. QED BY <1>0, <1>1, <1>2, <1>3, <1>4, <2>1, <2>2, <2>3, <2>4, <2>5, HeaderAdvances
<1>6. CASE Invented(r, {"block"}, t, Phantoms.block) /\ ~Acceptable
  BY <1>0, <1>1, <1>2, <1>3, <1>6, HeaderInvented
<1>7. QED BY <1>1, <1>5, <1>6

LEMMA StaticFollows ==
  ASSUME Ready, NEW r, AtHeader(r), NEW t \in Read(r, {"block"}, Phantoms.block),
         t.type = "static", BeginStatic(r, t)
  PROVE  ReaderInv' /\ FollowedNext
<1>0. DecoderOK /\ CallOK /\ HistOK /\ ReaderFits(r) /\ r.over <= 8 /\ 3 <= r.left
      /\ dec.match = NoMatch /\ dec.lits = <<>> /\ UNCHANGED bufferVars /\ DecoderFits
  BY ReadyFacts DEF AtHeader
<1>1. /\ t \in Token /\ t.kind = "block" /\ Width(t) = 3
      /\ \/ \E k : Genuine(r, {"block"}, t, k)
         \/ Invented(r, {"block"}, t, Phantoms.block) /\ ~Acceptable
  BY HeaderTokens
<1> DEFINE d == IF dec.static_loaded THEN dec
                ELSE [WithTable("static", 9) EXCEPT !.static_loaded = TRUE]
<1>2. /\ in' = Consumed(r, 3) /\ ToAccount /\ NotePhantom(HasToken(r, {"block"}))
      /\ dec' = [d EXCEPT !.state = "CompressedData", !.final = t.final]
  BY DEF BeginStatic
<1>3. /\ dec'.state = "CompressedData" /\ dec'.final = t.final
      /\ dec'.match = NoMatch /\ dec'.lits = <<>> /\ dec'.table.code = "static"
  <2>1. /\ DOMAIN d = DOMAIN dec /\ d.match = NoMatch /\ d.lits = <<>>
        /\ d.table.code = "static"
    <3>1. CASE dec.static_loaded
      BY <1>0, <3>1 DEF DecoderFits
    <3>2. CASE ~dec.static_loaded
      BY <1>0, <3>2, TableFits DEF DecoderOK
    <3>3. QED BY <3>1, <3>2
  <2> HIDE DEF d
  <2>2. QED BY <1>0, <1>2, <2>1 DEF DecoderOK
<1>4. call'.pc = "account"
  BY <1>0, <1>2, Leaving
<1> HIDE DEF d
<1>5. CASE \E k : Genuine(r, {"block"}, t, k)
  <2>1. PICK k : Genuine(r, {"block"}, t, k)
    BY <1>5
  <2>2. /\ D[k + 1].out = D[k].out /\ D[k + 1].final = t.final /\ Same(D[k], D[k + 1])
        /\ D[k + 1].fault = (t.type = "reserved")
        /\ D[k + 1].place = CASE t.type = "dynamic" -> "precode"
                              [] t.type = "static" -> "symbol"
                              [] t.type = "stored" -> "len"
                              [] OTHER -> "end"
        /\ BlockIs(k + 1, t.type)
    BY <1>1, <2>1, HeaderMeans
  <2>3. D[k + 1].fault = FALSE /\ D[k + 1].place = "symbol"
        /\ BlockIs(k + 1, dec'.table.code)
    BY <1>3, <2>2
  <2>4. Expects(dec', in', k + 1)
    BY <1>3, <2>2, <2>3 DEF Expects
  <2>5. hist'.phantom = hist.phantom
    BY <1>0, <1>2, <2>1, NotedPhantom, ReadyFacts DEF Genuine
  <2>6. QED BY <1>0, <1>1, <1>2, <1>3, <1>4, <2>1, <2>2, <2>3, <2>4, <2>5, HeaderAdvances
<1>6. CASE Invented(r, {"block"}, t, Phantoms.block) /\ ~Acceptable
  BY <1>0, <1>1, <1>2, <1>3, <1>6, HeaderInvented
<1>7. QED BY <1>1, <1>5, <1>6

(* A header is refused.                                                    *)
LEMMA HeaderFails ==
  ASSUME Ready, ReaderFits(in'), UNCHANGED bufferVars,
         dec'.state \in {"BlockHeader", "DynamicPrecodeLens", "DynamicCodeLengths"},
         call'.pc = "idle", call'.result = "BadData", ~Acceptable,
         hist'.phantom \/ \E k \in 0 .. stream.held : Tracks(k)
  PROVE  ReaderInv' /\ FollowedNext
<1>1. ReaderInv'
  BY ReaderStaysFit DEF Fatal
<1>2. CASE hist'.phantom
  BY <1>1, <1>2, Invents
<1>3. CASE ~hist'.phantom
  <2>1. PICK k \in 0 .. stream.held : Tracks(k)
    BY <1>3
  <2>2. Leads(produced', D[k].out)
    BY <2>1, TracksLeads DEF bufferVars
  <2>3. FollowsNext(k)
    BY <2>2 DEF FollowsNext
  <2>4. FollowedNext
    BY <1>3, <2>3, Faults
  <2>5. QED BY <1>1, <2>4
<1>4. QED BY <1>2, <1>3

LEMMA ConsumedTwice ==
  ASSUME NEW r, ReaderOK(r), NEW a \in Int, NEW b \in Int
  PROVE  Consumed(Consumed(r, a), b) = Consumed(r, a + b)
<1>1. /\ r \in [pos : Nat, end : Nat, left : Int, over : Int] /\ r.left \in Int
  BY DEF ReaderOK
<1>2. (r.left - a) - b = r.left - (a + b)
  BY <1>1
<1>3. Consumed(r, a) = [r EXCEPT !.left = r.left - a]
  BY DEF Consumed
<1>4. Consumed(Consumed(r, a), b) = [r EXCEPT !.left = (r.left - a) - b]
  BY <1>1, <1>3 DEF Consumed
<1>5. Consumed(r, a + b) = [r EXCEPT !.left = r.left - (a + b)]
  BY DEF Consumed
<1>6. QED BY <1>2, <1>4, <1>5

(* The reader at the next byte.                                            *)
LEMMA AlignedReader ==
  ASSUME NEW r, ReaderFits(r), r.left \in Nat, r.left >= 56, BitPos(r) + 3 \in Nat
  PROVE  LET a == Consumed(r, 3 + ((r.left - 3) % 8)) IN
         /\ ReaderFits(a) /\ BitPos(a) = Aligned(BitPos(r) + 3)
         /\ a.left >= 46 /\ a.left % 8 = 0 /\ a.pos = r.pos /\ a.end = r.end /\ a.over = r.over
<1> DEFINE c == Consumed(r, 3)
           m == c.left % 8
           a == Consumed(r, 3 + ((r.left - 3) % 8))
<1>1. /\ ReaderFits(c) /\ BitPos(c) = BitPos(r) + 3 /\ c.left = r.left - 3
      /\ c.pos = r.pos /\ c.end = r.end /\ c.over = r.over
  BY ConsumedFits
<1>2. m \in 0 .. 7 /\ m <= c.left /\ BitPos(Consumed(c, m)) = Aligned(BitPos(r) + 3)
  BY <1>1, AligningReader
<1>3. a = Consumed(c, m)
  <2>1. m = (r.left - 3) % 8
    BY <1>1
  <2>2. ReaderOK(r) /\ m \in Int /\ 3 \in Int
    BY <1>2 DEF ReaderFits
  <2> HIDE DEF m
  <2>3. Consumed(c, m) = Consumed(r, 3 + m)
    BY <2>2, ConsumedTwice
  <2>4. QED BY <2>1, <2>3 DEF a
<1>10. m \in Nat
  BY <1>2
<1>4. /\ ReaderFits(Consumed(c, m)) /\ Consumed(c, m).left = c.left - m
      /\ Consumed(c, m).pos = c.pos /\ Consumed(c, m).end = c.end
      /\ Consumed(c, m).over = c.over
  <2> HIDE DEF c, m
  <2>1. QED BY <1>1, <1>2, <1>10, ConsumedFits
<1>5. c.left \in Nat /\ c.left >= 53 /\ c.left \in Int
  BY <1>1
<1>6. (c.left - m) % 8 = 0
  BY <1>5
<1> HIDE DEF a, c, m
<1>7. c.left - m >= 46
  BY <1>2, <1>5
<1>8. QED BY <1>1, <1>2, <1>3, <1>4, <1>6, <1>7 DEF a

(* Bytes that are in the stream are in the bit buffer.                     *)
LEMMA RealBytesThere ==
  ASSUME StreamOK, NEW a, ReaderFits(a), a.left % 8 = 0, a.left >= 46,
         BitPos(a) + 32 <= 8 * stream.nbytes
  PROVE  RealBytes(a) >= 4
<1>1. /\ a.pos \in Nat /\ a.left \in Nat /\ a.over \in Nat /\ stream.nbytes \in Nat
      /\ BitPos(a) = 8 * (a.pos + a.over) - a.left
  BY ReaderTypes DEF ReaderFits, StreamOK
<1> DEFINE q == a.left \div 8
<1>2. a.left = 8 * q /\ q \in Nat
  BY <1>1
<1>3. RealBytes(a) = Max({q - a.over, 0})
  BY DEF RealBytes
<1>4. a.over > 0 => a.pos = stream.nbytes
  BY DEF ReaderFits
<1> HIDE DEF q
<1>5. q - a.over >= 4
  <2>1. CASE a.over > 0
    BY <1>1, <1>2, <1>4, <2>1
  <2>2. CASE a.over = 0
    BY <1>1, <1>2, <2>2
  <2>3. QED BY <1>1, <2>1, <2>2
<1>6. Max({q - a.over, 0}) = IF q - a.over >= 0 THEN q - a.over ELSE 0
  <2>1. q - a.over \in Int
    BY <1>1, <1>2
  <2>2. QED BY <2>1, MaxWithZero
<1>7. QED BY <1>1, <1>2, <1>3, <1>5, <1>6

(* LEN and NLEN, read after a stored block's header.                       *)
LEMMA StoredLength ==
  ASSUME Ready, NEW j \in 0 .. stream.held, j < stream.held,
         ~D[j].fault, D[j].place = "len",
         NEW a, ReaderFits(a), a.left % 8 = 0, a.left >= 46,
         BitPos(a) = Aligned(TokenEnd(j))
  PROVE  LET u == stream.toks[j + 1] IN
         /\ HasToken(a, {"len"}) /\ TheToken(a, {"len"}) = u
         /\ RealBytes(a) >= 4
         /\ j + 1 \in 0 .. stream.held
         /\ u.n \in Nat /\ u.ok \in BOOLEAN
         /\ TokenEnd(j + 1) = BitPos(a) + 32 /\ TokenEnd(j + 1) % 8 = 0
         /\ D[j + 1].out = D[j].out /\ D[j + 1].final = D[j].final
         /\ D[j + 1].fault = ~u.ok /\ Same(D[j], D[j + 1])
         /\ D[j + 1].place = IF u.n = 0 THEN AfterBlock(D[j].final) ELSE "byte"
         /\ D[j + 1].todo = u.n
<1> DEFINE u == stream.toks[j + 1]
<1>0. Known /\ LaidOut /\ StreamOK
  BY ReadyFacts
<1>1. /\ j + 1 \in 0 .. stream.held
      /\ u \in Token /\ PlaceOf(u) = "len"
      /\ TokenEnd(j + 1) = stream.starts[j + 1] + Width(u)
      /\ TokenEnd(j + 1) <= 8 * stream.nbytes
      /\ u.kind \in {"len", "footer"} => stream.starts[j + 1] = Aligned(TokenEnd(j))
      /\ D[j] \in Meaning /\ D[j + 1] = DecodeToken(D[j], u)
  BY <1>0, NextToken
<1>2. u.kind = "len"
  BY <1>1 DEF PlaceOf
<1>3. u.n \in Nat /\ u.ok \in BOOLEAN /\ u.bits = 32 /\ Width(u) = 32
  BY <1>1, <1>2, LenToken, TokenWidth
<1>4. BitPos(a) = stream.starts[j + 1] /\ TokenEnd(j + 1) = BitPos(a) + 32
  BY <1>1, <1>2, <1>3
<1>5. HasToken(a, {"len"}) /\ TheToken(a, {"len"}) = u
  BY <1>0, <1>2, <1>4, TokenHere
<1>6. RealBytes(a) >= 4
  BY <1>0, <1>1, <1>4, RealBytesThere
<1>7. TokenEnd(j + 1) % 8 = 0
  <2>1. TokenEnd(j) \in Nat
    BY <1>0, TokenEnds
  <2>2. Aligned(TokenEnd(j)) \in Nat /\ Aligned(TokenEnd(j)) % 8 = 0
    BY <2>1, AlignedFacts
  <2>3. BitPos(a) \in Nat /\ BitPos(a) % 8 = 0
    BY <2>2
  <2> DEFINE b == BitPos(a)
  <2> HIDE DEF b
  <2>4. b \in Nat /\ b % 8 = 0 => (b + 32) % 8 = 0
    OBVIOUS
  <2>5. QED BY <1>4, <2>3, <2>4 DEF b
<1>8. /\ D[j + 1].out = D[j].out /\ D[j + 1].final = D[j].final
      /\ D[j + 1].fault = ~u.ok /\ Same(D[j], D[j + 1])
      /\ D[j + 1].place = PlaceAfter(D[j], u) /\ D[j + 1].todo = TodoAfter(D[j], u)
  <2>1. u.kind \in {"wrapper", "precode", "lens", "len"}
    BY <1>2
  <2>2. QED BY <1>1, <2>1, OkTokenMeans
<1>9. PlaceAfter(D[j], u) = IF u.n = 0 THEN AfterBlock(D[j].final) ELSE "byte"
  BY <1>2 DEF PlaceAfter
<1>10. TodoAfter(D[j], u) = u.n
  BY <1>2 DEF TodoAfter
<1>11. QED BY <1>1, <1>3, <1>4, <1>5, <1>6, <1>7, <1>8, <1>9, <1>10

LEMMA StoredFollows ==
  ASSUME Ready, NEW r, AtHeader(r), NEW t \in Read(r, {"block"}, Phantoms.block),
         t.type = "stored", BeginStored(r, t)
  PROVE  ReaderInv' /\ FollowedNext
<1> DEFINE a == Consumed(r, 3 + ((r.left - 3) % 8))
           len == TheToken(a, {"len"})
           good == RealBytes(a) >= 4 /\ HasToken(a, {"len"}) /\ len.ok
<1>0. /\ DecoderOK /\ CallOK /\ HistOK /\ StreamOK /\ Known /\ LaidOut
      /\ ReaderFits(r) /\ r.over <= 8 /\ 56 <= r.left /\ r.left \in Nat
      /\ dec.match = NoMatch /\ dec.lits = <<>> /\ UNCHANGED bufferVars
      /\ dec.state = "BlockHeader"
      /\ Staged(r) > 0 \/ r.end = stream.nbytes
  BY ReadyFacts DEF AtHeader
<1>1. /\ t \in Token /\ t.kind = "block" /\ Width(t) = 3
      /\ \/ \E k : Genuine(r, {"block"}, t, k)
         \/ Invented(r, {"block"}, t, Phantoms.block) /\ ~Acceptable
  BY HeaderTokens
<1>2. /\ in' = IF RealBytes(a) >= 4 THEN Consumed(a, 32) ELSE a
      /\ good => /\ dec' = [dec EXCEPT !.state = "UncompressedData",
                                       !.final = t.final, !.remaining = len.n]
                 /\ ToAccount
      /\ ~good => Fail("BadData") /\ dec' = [dec EXCEPT !.final = t.final]
      /\ NotePhantom(HasToken(r, {"block"}))
  BY DEF BeginStored
<1>3. r.over \in Nat /\ BitPos(r) \in Int /\ stream.nbytes \in Nat
  BY <1>0, ReaderTypes DEF ReaderFits, StreamOK
<1>4. CASE \E k : Genuine(r, {"block"}, t, k)
  <2>1. PICK k : Genuine(r, {"block"}, t, k)
    BY <1>4
  <2>2. /\ k \in 0 .. stream.held /\ k + 1 \in 0 .. stream.held /\ Tracks(k)
        /\ D[k + 1].out = D[k].out /\ D[k + 1].final = t.final /\ Same(D[k], D[k + 1])
        /\ D[k + 1].fault = (t.type = "reserved")
        /\ D[k + 1].place = CASE t.type = "dynamic" -> "precode"
                              [] t.type = "static" -> "symbol"
                              [] t.type = "stored" -> "len"
                              [] OTHER -> "end"
    BY <1>1, <2>1, HeaderMeans
  <2> DEFINE j == k + 1
  <2>3. /\ j \in 0 .. stream.held /\ D[j].fault = FALSE /\ D[j].place = "len"
        /\ D[j].out = D[k].out /\ D[j].final = t.final /\ Same(D[k], D[j])
    BY <2>2
  <2>4. TokenEnd(j) = BitPos(r) + 3 /\ TokenEnd(j) \in Nat
    BY <1>0, <1>1, <2>1, <2>3, GenuineEnds, TokenEnds
  <2>5. hist'.phantom = FALSE
    BY <1>0, <1>2, <2>1, NotedPhantom, ReadyFacts DEF Genuine
  <2> HIDE DEF j
  <2>6. BitPos(r) + 3 \in Nat
    BY <2>4
  <2>7. /\ ReaderFits(a) /\ BitPos(a) = Aligned(TokenEnd(j))
        /\ a.left >= 46 /\ a.left % 8 = 0 /\ a.pos = r.pos /\ a.end = r.end
        /\ a.over = r.over
    BY <1>0, <2>4, <2>6, AlignedReader
  <2> HIDE DEF a
  <2>8. a.left \in Nat /\ 32 <= a.left
    BY <2>7 DEF ReaderFits, ReaderOK
  <2>9. /\ ReaderFits(Consumed(a, 32)) /\ BitPos(Consumed(a, 32)) = BitPos(a) + 32
        /\ Consumed(a, 32).pos = a.pos /\ Consumed(a, 32).end = a.end
        /\ Consumed(a, 32).over = a.over
    BY <2>7, <2>8, ConsumedFits
  <2>10. ReaderFits(in')
    BY <1>2, <2>7, <2>9
  <2>11. CASE ~good
    <3>1. Fail("BadData") /\ dec' = [dec EXCEPT !.final = t.final]
      BY <1>2, <2>11
    <3>2. call'.pc = "idle" /\ call'.result = "BadData" /\ dec'.state = "BlockHeader"
      BY <1>0, <3>1, Leaving DEF DecoderOK
    <3>3. ~Acceptable
      <4>1. CASE j < stream.held
        <5>1. /\ HasToken(a, {"len"}) /\ len = stream.toks[j + 1] /\ RealBytes(a) >= 4
              /\ j + 1 \in 0 .. stream.held /\ D[j + 1].fault = ~stream.toks[j + 1].ok
          BY <2>3, <2>7, <4>1, StoredLength
        <5>2. ~stream.toks[j + 1].ok
          BY <2>11, <5>1
        <5>3. D[j + 1].fault
          BY <5>1, <5>2
        <5>4. QED BY <1>0, <5>1, <5>3, FaultyStream
      <4>2. CASE ~(j < stream.held)
        <5>1. j = stream.held
          BY <1>0, <2>3, <4>2, TokenEnds
        <5>2. ~D[stream.held].fault /\ D[stream.held].place \notin {"block", "footer", "end"}
          BY <2>3, <5>1
        <5>3. QED BY <1>0, <5>2, CutOffStream
      <4>3. QED BY <4>1, <4>2
    <3>4. QED BY <1>0, <2>2, <2>10, <3>2, <3>3, HeaderFails
  <2>12. CASE good
    <3>1. j < stream.held
      <4> SUFFICES ASSUME ~(j < stream.held) PROVE FALSE
        OBVIOUS
      <4>1. j = stream.held
        BY <1>0, <2>3, TokenEnds
      <4>2. BitPos(a) \in Nat /\ BitPos(a) >= TokenEnd(stream.held)
        BY <2>4, <2>7, <4>1, AlignedFacts
      <4>3. ~HasToken(a, {"len"})
        BY <1>0, <4>2, NoTokenHere
      <4>4. QED BY <2>12, <4>3
    <3> DEFINE u == stream.toks[j + 1]
    <3>2. /\ HasToken(a, {"len"}) /\ len = u
          /\ j + 1 \in 0 .. stream.held
          /\ u.n \in Nat /\ u.ok \in BOOLEAN
          /\ TokenEnd(j + 1) = BitPos(a) + 32 /\ TokenEnd(j + 1) % 8 = 0
          /\ D[j + 1].out = D[j].out /\ D[j + 1].final = D[j].final
          /\ D[j + 1].fault = ~u.ok /\ Same(D[j], D[j + 1])
          /\ D[j + 1].place = IF u.n = 0 THEN AfterBlock(D[j].final) ELSE "byte"
          /\ D[j + 1].todo = u.n
      BY <2>3, <2>7, <3>1, StoredLength
    <3>3. u.ok /\ D[j + 1].fault = FALSE
      BY <2>12, <3>2
    <3>4. /\ dec' = [dec EXCEPT !.state = "UncompressedData",
                                !.final = t.final, !.remaining = u.n]
          /\ ToAccount /\ in' = Consumed(a, 32)
      BY <1>2, <2>12, <3>2
    <3> HIDE DEF u
    <3>5. /\ dec'.state = "UncompressedData" /\ dec'.final = t.final
          /\ dec'.remaining = u.n /\ dec'.match = NoMatch /\ dec'.lits = <<>>
      BY <1>0, <3>4 DEF DecoderOK
    <3>6. call'.pc = "account"
      BY <1>0, <3>4, Leaving
    <3>7. BitPos(in') = TokenEnd(j + 1)
      BY <2>9, <3>2, <3>4
    <3>8. Good(j + 1)
      BY <2>2, <2>3, <3>2, <3>3 DEF Tracks, Good, Same
    <3>9. Expects(dec', in', j + 1)
      <4>1. u.n = 0 => D[j + 1].place = AfterBlock(D[j + 1].final)
        BY <3>2
      <4>2. u.n > 0 => D[j + 1].place = "byte" /\ D[j + 1].todo = u.n
        BY <3>2
      <4>3. D[j + 1].final = dec'.final
        BY <2>3, <3>2, <3>5
      <4>4. u.n = 0 \/ u.n > 0
        BY <3>2
      <4>5. QED BY <3>2, <3>5, <4>1, <4>2, <4>3, <4>4 DEF Expects
    <3>10. Owes(dec', produced', D[j + 1].out)
      <4>1. Owes(dec, produced, D[k].out) /\ produced' = produced
        BY <1>0, <2>2 DEF Tracks, bufferVars
      <4>2. D[j + 1].out = D[k].out
        BY <2>3, <3>2
      <4>3. QED BY <1>0, <3>5, <4>1, <4>2 DEF Owes
    <3>11. TracksNext(j + 1)
      BY <3>6, <3>7, <3>8, <3>9, <3>10 DEF TracksNext, Placed
    <3>12. Staged(in') > 0 \/ in'.end = stream.nbytes
      BY <1>0, <2>7, <2>9, <3>4 DEF Staged
    <3>13. in'.over <= 8
      BY <1>0, <2>7, <2>9, <3>4
    <3>14. ReaderInv'
      BY <2>10, <3>5, <3>12, <3>13, ReaderStaysFit
    <3>15. FollowedNext
      BY <2>5, <3>2, <3>5, <3>6, <3>7, <3>11, Advances
    <3>16. QED BY <3>14, <3>15
  <2>13. QED BY <2>11, <2>12
<1>5. CASE Invented(r, {"block"}, t, Phantoms.block) /\ ~Acceptable
  <2>1. BitPos(r) + 3 > 8 * stream.nbytes
    BY <1>1, <1>5 DEF Invented
  <2>2. BitPos(r) + 3 \in Nat
    BY <1>3, <2>1
  <2>3. /\ ReaderFits(a) /\ BitPos(a) = Aligned(BitPos(r) + 3)
        /\ a.left >= 46 /\ a.left % 8 = 0 /\ a.pos = r.pos /\ a.end = r.end
        /\ a.over = r.over
    BY <1>0, <2>2, AlignedReader
  <2> HIDE DEF a
  <2>4. BitPos(a) > 8 * stream.nbytes
    BY <1>3, <2>1, <2>2, <2>3, AlignedFacts
  <2>5. RealBytes(a) = 0
    BY <1>0, <2>3, <2>4, BeyondStream
  <2>6. ~good /\ in' = a
    BY <1>2, <2>5
  <2>7. Fail("BadData") /\ dec' = [dec EXCEPT !.final = t.final]
    BY <1>2, <2>6
  <2>8. call'.pc = "idle" /\ call'.result = "BadData" /\ dec'.state = "BlockHeader"
    BY <1>0, <2>7, Leaving DEF DecoderOK
  <2>9. hist'.phantom
    <3>1. ~HasToken(r, {"block"})
      BY <1>5 DEF Invented
    <3>2. hist'.phantom = (hist.phantom \/ ~HasToken(r, {"block"}))
      BY <1>0, <1>2, NotedPhantom
    <3>3. QED BY <3>1, <3>2
  <2>10. QED BY <1>0, <1>5, <2>3, <2>6, <2>8, <2>9, HeaderFails
<1>6. QED BY <1>1, <1>4, <1>5

LEMMA BadBlockFollows ==
  ASSUME Ready, NEW r, AtHeader(r), NEW t \in Read(r, {"block"}, Phantoms.block),
         t.type = "reserved", BadBlock(r, t.final)
  PROVE  ReaderInv' /\ FollowedNext
<1>0. DecoderOK /\ CallOK /\ Known /\ ReaderFits(r) /\ UNCHANGED bufferVars
      /\ dec.state = "BlockHeader"
  BY ReadyFacts DEF AtHeader
<1>1. /\ t \in Token /\ t.kind = "block"
      /\ \/ \E k : Genuine(r, {"block"}, t, k)
         \/ Invented(r, {"block"}, t, Phantoms.block) /\ ~Acceptable
  BY HeaderTokens
<1>2. in' = r /\ Fail("BadData") /\ dec' = [dec EXCEPT !.final = t.final]
  BY DEF BadBlock
<1>3. call'.pc = "idle" /\ call'.result = "BadData" /\ dec'.state = "BlockHeader"
  BY <1>0, <1>2, Leaving DEF DecoderOK
<1>4. ~Invented(r, {"block"}, t, Phantoms.block)
  BY DEF Invented, Phantoms, PhantomsWith, Block
<1>5. PICK k : Genuine(r, {"block"}, t, k)
  BY <1>1, <1>4
<1>6. /\ k \in 0 .. stream.held /\ k + 1 \in 0 .. stream.held /\ Tracks(k)
      /\ D[k + 1].fault = (t.type = "reserved")
  BY <1>1, <1>5, HeaderMeans
<1>7. ~Acceptable
  BY <1>0, <1>6, FaultyStream
<1>8. QED BY <1>0, <1>2, <1>3, <1>6, <1>7, HeaderFails

(* Padding in the bit buffer of a decoder that reads real tokens is not    *)
(* more than a load of it.                                                 *)
LEMMA OverrunInvented ==
  ASSUME Ready, dec.state # "WrapperFooter", NEW r, ReaderFits(r), BitPos(r) = BitPos(in),
         Overrun(r)
  PROVE  hist.phantom /\ ~Acceptable /\ BitPos(r) > 8 * stream.nbytes
<1>0. Known /\ LaidOut /\ StreamOK /\ stream.nbytes \in Nat
  BY ReadyFacts, TokenEnds
<1>1. BitPos(r) \in Int
  BY ReaderTypes DEF ReaderFits
<1>2. ~(BitPos(r) <= 8 * stream.nbytes)
  BY <1>0, WithinStream
<1>3. ~(~hist.phantom)
  <2> SUFFICES ASSUME ~hist.phantom PROVE FALSE
    OBVIOUS
  <2>1. PICK k \in 0 .. stream.held : Tracks(k)
    BY StillTracks
  <2>2. BitPos(in) = TokenEnd(k)
    BY <2>1 DEF Tracks, Placed
  <2>3. TokenEnd(k) <= 8 * stream.nbytes
    BY <1>0, TokenEnds
  <2>4. QED BY <1>2, <2>2, <2>3
<1>4. QED BY <1>0, <1>1, <1>2, <1>3, StillTracks

LEMMA HeaderReady ==
  ASSUME Ready
  PROVE  LET r == Refilled(Filled(in)) IN
         /\ ReaderFits(r) /\ BitPos(r) = BitPos(in) /\ r.left >= 56 /\ r.left \in Nat
         /\ r.over \in Nat
         /\ Staged(r) > 0 \/ r.end = stream.nbytes
<1>1. StreamOK /\ ReaderFits(in) /\ in.over <= 8
  BY ReadyFacts
<1>2. QED BY <1>1, HeaderReader

(* A block header is read, and the decoder expects what that block holds.  *)
LEMMA BlockHeaderFollows ==
  ASSUME Ready, ParseBlockHeader
  PROVE  ReaderInv' /\ FollowedNext
<1> DEFINE r == Refilled(Filled(in))
<1>1. /\ dec.state = "BlockHeader" /\ ~AtSegmentEnd(Filled(in)) /\ UNCHANGED bufferVars
      /\ IF Overrun(r) THEN BadBlock(r, dec.final)
         ELSE \E t \in Read(r, {"block"}, Phantoms.block) :
              \/ t.type = "dynamic" /\ BeginDynamic(r, t)
              \/ t.type = "static" /\ BeginStatic(r, t)
              \/ t.type = "stored" /\ BeginStored(r, t)
              \/ t.type = "reserved" /\ BadBlock(r, t.final)
  BY DEF ParseBlockHeader
<1>2. /\ ReaderFits(r) /\ BitPos(r) = BitPos(in) /\ r.left >= 56 /\ r.left \in Nat
      /\ r.over \in Nat
      /\ Staged(r) > 0 \/ r.end = stream.nbytes
  BY HeaderReady
<1>3. dec.match = NoMatch /\ dec.lits = <<>> /\ DecoderOK /\ CallOK
  BY <1>1, ReadyFacts DEF DecoderFits
<1> HIDE DEF r
<1>4. CASE Overrun(r)
  <2>1. in' = r /\ Fail("BadData") /\ dec' = [dec EXCEPT !.final = dec.final] /\ UNCHANGED hist
    BY <1>1, <1>4 DEF BadBlock
  <2>2. call'.pc = "idle" /\ call'.result = "BadData" /\ dec'.state = "BlockHeader"
    BY <1>1, <1>3, <2>1, Leaving DEF DecoderOK
  <2>3. hist'.phantom /\ ~Acceptable
    BY <1>1, <1>2, <1>4, <2>1, OverrunInvented
  <2>4. QED BY <1>1, <1>2, <2>1, <2>2, <2>3, HeaderFails
<1>5. CASE ~Overrun(r)
  <2>1. r.over <= 8
    BY <1>2, <1>5 DEF Overrun
  <2>2. AtHeader(r)
    BY <1>1, <1>2, <1>3, <2>1 DEF AtHeader
  <2>3. PICK t \in Read(r, {"block"}, Phantoms.block) :
           \/ t.type = "dynamic" /\ BeginDynamic(r, t)
           \/ t.type = "static" /\ BeginStatic(r, t)
           \/ t.type = "stored" /\ BeginStored(r, t)
           \/ t.type = "reserved" /\ BadBlock(r, t.final)
    BY <1>1, <1>5
  <2>4. QED BY <2>2, <2>3, DynamicFollows, StaticFollows, StoredFollows, BadBlockFollows
<1>6. QED BY <1>4, <1>5

-------------------------------------------------------------------------------
(* A dynamic block's code lengths.                                         *)

(* A token invented where the stream may not end.                          *)
LEMMA InventedInside ==
  ASSUME Ready, NEW r, NEW kinds, NEW t, NEW phantoms, Invented(r, kinds, t, phantoms),
         \A k \in 0 .. stream.held : Tracks(k) => D[k].place \notin {"block", "footer", "end"}
  PROVE  ~Acceptable
<1>1. CASE hist.phantom
  BY <1>1, StillTracks
<1>2. CASE ~hist.phantom
  <2>1. Tracks(stream.held) /\ Known /\ LaidOut
    BY <1>2, ReadyFacts DEF Invented
  <2>2. stream.held \in 0 .. stream.held
    BY <2>1, TokenEnds
  <2>3. ~D[stream.held].fault
    BY <2>1, TracksNoFault
  <2>4. QED BY <2>1, <2>2, <2>3, CutOffStream
<1>3. QED BY <1>1, <1>2

(* A token of a dynamic block's header is what the stream says.            *)
LEMMA LengthsMean ==
  ASSUME Ready, NEW r, NEW kinds, NEW t, NEW k, Genuine(r, kinds, t, k),
         t.kind \in {"precode", "lens"}
  PROVE  /\ k \in 0 .. stream.held /\ k + 1 \in 0 .. stream.held /\ Tracks(k) /\ k \in Nat
         /\ D[k + 1].out = D[k].out /\ D[k + 1].final = D[k].final /\ Same(D[k], D[k + 1])
         /\ D[k + 1].fault = ~t.ok
         /\ t.kind = "precode" => D[k + 1].place = "lens"
         /\ t.kind = "lens" => D[k + 1].place = IF t.last THEN "symbol" ELSE "lens"
         /\ \A type : BlockIs(k, type) => BlockIs(k + 1, type)
         /\ stream.toks[k + 1].kind = t.kind
<1>1. t = stream.toks[k + 1] /\ Tracks(k)
  BY DEF Genuine
<1>2. /\ k \in 0 .. stream.held /\ k + 1 \in 0 .. stream.held /\ k \in Nat
      /\ ~D[k].fault /\ D[k] \in Meaning /\ D[k + 1] = DecodeToken(D[k], stream.toks[k + 1])
      /\ stream.toks[k + 1] \in Token
  BY GenuineFacts
<1>3. D[k + 1] = DecodeToken(D[k], t) /\ t \in Token
  BY <1>1, <1>2
<1>4. \A type : BlockIs(k, type) => BlockIs(k + 1, type)
  BY <1>1, <1>2, BlockGoesOn
<1>5. /\ D[k + 1].out = D[k].out /\ D[k + 1].final = D[k].final /\ Same(D[k], D[k + 1])
      /\ D[k + 1].fault = ~t.ok /\ D[k + 1].place = PlaceAfter(D[k], t)
  <2>1. t.kind \in {"wrapper", "precode", "lens", "len"}
    OBVIOUS
  <2>2. QED BY <1>2, <1>3, <2>1, OkTokenMeans
<1>6. /\ t.kind = "precode" => PlaceAfter(D[k], t) = "lens"
      /\ t.kind = "lens" => PlaceAfter(D[k], t) = IF t.last THEN "symbol" ELSE "lens"
  BY DEF PlaceAfter
<1>7. QED BY <1>1, <1>2, <1>4, <1>5, <1>6

(* The precode's lengths.                                                  *)
LEMMA PrecodeFollows ==
  ASSUME Ready, ParseDynamicPrecodeLens
  PROVE  ReaderInv' /\ FollowedNext
<1> DEFINE r == Refilled(Filled(in))
           kinds == {"precode"}
<1>1. PICK t \in Read(r, kinds, Phantoms.precode) :
         /\ in' = IF Overrun(r) THEN r ELSE Consumed(r, t.bits)
         /\ IF Overrun(r) \/ ~t.ok
              THEN Fail("BadData") /\ UNCHANGED dec
              ELSE ToAccount /\ dec' = [dec EXCEPT !.state = "DynamicCodeLengths"]
  BY DEF ParseDynamicPrecodeLens
<1>2. /\ dec.state = "DynamicPrecodeLens" /\ UNCHANGED bufferVars
      /\ NotePhantom(HasToken(r, kinds))
  BY DEF ParseDynamicPrecodeLens
<1>3. /\ ReaderFits(r) /\ BitPos(r) = BitPos(in) /\ r.left >= 56 /\ r.left \in Nat
      /\ r.over \in Nat
  BY HeaderReady
<1>4. /\ dec.match = NoMatch /\ dec.lits = <<>> /\ DecoderOK /\ CallOK /\ HistOK /\ Known
      /\ StreamOK
  BY <1>2, ReadyFacts DEF DecoderFits
<1> HIDE DEF r, kinds
<1>5. \A k \in 0 .. stream.held : Tracks(k) => D[k].place = "precode"
  BY <1>2 DEF Tracks, Expects
<1>6. /\ t \in Token
      /\ (\E k : Genuine(r, kinds, t, k)) \/ Invented(r, kinds, t, Phantoms.precode)
  <2>1. \A u \in Token : PlaceOf(u) = "precode" => u.kind \in kinds
    BY SymbolKinds DEF kinds
  <2>2. \A u \in Phantoms.precode : u \in Token
    BY PhantomsAreTokens
  <2>3. dec.state # "WrapperFooter" /\ "precode" \in {"block", "precode", "lens", "symbol"}
    BY <1>2
  <2>4. QED BY <1>1, <1>3, <1>5, <2>1, <2>2, <2>3, ReadCases
<1>7. t.kind = "precode"
  <2>1. \A u \in Phantoms.precode : u.kind = "precode"
    BY DEF Phantoms, PhantomsWith, Precode
  <2>2. QED BY <1>1, <1>4, <2>1, ReadGives DEF kinds
<1>8. t.ok \in BOOLEAN /\ t.bits \in 1 .. 54
  BY <1>6, <1>7, PrecodeToken
<1>9. Width(t) = t.bits /\ t.bits \in Nat /\ t.bits <= r.left
  BY <1>3, <1>6, <1>7, <1>8, TokenWidth
<1>10. hist'.phantom = (hist.phantom \/ ~HasToken(r, kinds))
  BY <1>2, <1>4, NotedPhantom
<1>11. Invented(r, kinds, t, Phantoms.precode) => ~Acceptable
  BY <1>5, InventedInside
<1>12. ReaderFits(Consumed(r, t.bits))
  BY <1>3, <1>9, ConsumedFits
<1>13. CASE Overrun(r)
  <2>1. in' = r /\ Fail("BadData") /\ UNCHANGED dec
    BY <1>1, <1>13
  <2>2. call'.pc = "idle" /\ call'.result = "BadData"
    BY <1>4, <2>1, Leaving
  <2>3. hist.phantom /\ ~Acceptable
    BY <1>2, <1>3, <1>13, OverrunInvented
  <2>4. hist'.phantom
    BY <1>10, <2>3
  <2>5. QED BY <1>2, <1>3, <2>1, <2>2, <2>3, <2>4, HeaderFails
<1>14. CASE ~Overrun(r) /\ ~t.ok
  <2>1. in' = Consumed(r, t.bits) /\ Fail("BadData") /\ UNCHANGED dec
    BY <1>1, <1>14
  <2>2. call'.pc = "idle" /\ call'.result = "BadData"
    BY <1>4, <2>1, Leaving
  <2>3. CASE \E k : Genuine(r, kinds, t, k)
    <3>1. PICK k : Genuine(r, kinds, t, k)
      BY <2>3
    <3>2. k \in 0 .. stream.held /\ k + 1 \in 0 .. stream.held /\ Tracks(k)
          /\ D[k + 1].fault = ~t.ok
      BY <1>7, <3>1, LengthsMean
    <3>3. ~Acceptable
      BY <1>4, <1>14, <3>2, FaultyStream
    <3>4. QED BY <1>2, <1>12, <2>1, <2>2, <3>2, <3>3, HeaderFails
  <2>4. CASE Invented(r, kinds, t, Phantoms.precode)
    <3>1. hist'.phantom
      BY <1>10, <2>4 DEF Invented
    <3>2. QED BY <1>2, <1>11, <1>12, <2>1, <2>2, <2>4, <3>1, HeaderFails
  <2>5. QED BY <1>6, <2>3, <2>4
<1>15. CASE ~Overrun(r) /\ t.ok
  <2>1. /\ in' = Consumed(r, t.bits) /\ ToAccount
        /\ dec' = [dec EXCEPT !.state = "DynamicCodeLengths"]
    BY <1>1, <1>15
  <2>2. call'.pc = "account"
    BY <1>4, <2>1, Leaving
  <2>3. /\ dec'.state = "DynamicCodeLengths" /\ dec'.final = dec.final
        /\ dec'.match = NoMatch /\ dec'.lits = <<>>
    BY <1>4, <2>1 DEF DecoderOK
  <2>4. r.over <= 8
    BY <1>3, <1>15 DEF Overrun
  <2>5. CASE \E k : Genuine(r, kinds, t, k)
    <3>1. PICK k : Genuine(r, kinds, t, k)
      BY <2>5
    <3>2. /\ k \in 0 .. stream.held /\ k + 1 \in 0 .. stream.held /\ Tracks(k)
          /\ D[k + 1].out = D[k].out /\ D[k + 1].final = D[k].final /\ Same(D[k], D[k + 1])
          /\ D[k + 1].fault = ~t.ok /\ D[k + 1].place = "lens"
          /\ \A type : BlockIs(k, type) => BlockIs(k + 1, type)
      BY <1>7, <3>1, LengthsMean
    <3>3. D[k + 1].fault = FALSE
      BY <1>15, <3>2
    <3>4. dec.final = D[k].final /\ BlockIs(k, "dynamic")
      BY <1>2, <3>2 DEF Tracks, Expects
    <3>5. Expects(dec', in', k + 1)
      BY <2>3, <3>2, <3>4 DEF Expects
    <3>6. hist'.phantom = hist.phantom
      <4>1. ~hist.phantom /\ HasToken(r, kinds)
        BY <3>1 DEF Genuine
      <4>2. QED BY <1>10, <4>1, ReadyFacts
    <3>7. QED BY <1>2, <1>3, <1>4, <1>7, <1>9, <2>1, <2>2, <2>3, <2>4,
                 <3>1, <3>2, <3>3, <3>5, <3>6, HeaderAdvances
  <2>6. CASE Invented(r, kinds, t, Phantoms.precode)
    BY <1>2, <1>3, <1>6, <1>9, <1>11, <2>1, <2>3, <2>4, <2>6, HeaderInvented
  <2>7. QED BY <1>6, <2>5, <2>6
<1>16. QED BY <1>8, <1>13, <1>14, <1>15

(* A full staging buffer holds all code lengths there can be.              *)
LEMMA LengthsStaged ==
  ASSUME Known, StreamOK, NEW i, ReaderFits(i),
         i.end = stream.nbytes \/ Staged(i) = INPUT_BUF_SIZE,
         NEW k \in 0 .. stream.held, BitPos(i) = TokenEnd(k)
  PROVE  LensStaged(i, k)
<1>0. /\ LaidOut /\ Suited /\ INPUT_BUF_SIZE \in Nat /\ INPUT_BUF_SIZE >= 8
      /\ Size \in Nat /\ k \in 0 .. Size /\ TokenEnd(k) \in Nat
  BY TokenEnds, StreamAssumption DEF Known
<1>1. /\ i.pos \in Nat /\ i.end \in Nat /\ i.left \in Nat /\ i.over \in Nat
      /\ BitPos(i) = 8 * (i.pos + i.over) - i.left /\ Staged(i) = i.end - i.pos
      /\ i.end <= stream.nbytes /\ stream.nbytes \in Nat
      /\ i.over > 0 => i.pos = stream.nbytes
  BY ReaderTypes DEF ReaderFits, StreamOK
<1> SUFFICES ASSUME NEW j \in k .. Size,
                    \A l \in (k + 1) .. j : stream.toks[l].kind = "lens",
                    i.end # stream.nbytes
             PROVE  8 * i.end >= TokenEnd(j) + 64
  BY DEF LensStaged
<1>2. Staged(i) = INPUT_BUF_SIZE /\ i.over = 0
  BY <1>0, <1>1
<1>3. TokenEnd(k) <= 8 * i.pos
  BY <1>1, <1>2
<1>4. 8 * i.end = 8 * i.pos + 8 * INPUT_BUF_SIZE
  BY <1>0, <1>1, <1>2
<1>5. CASE j = k
  <2>1. TokenEnd(j) = TokenEnd(k)
    BY <1>5
  <2>2. 8 * i.end >= TokenEnd(k) + 64
    BY <1>0, <1>1, <1>3, <1>4
  <2>3. QED BY <2>1, <2>2
<1>6. CASE j # k
  <2>1. /\ k + 1 \in 1 .. Size /\ j \in 1 .. Size /\ k + 1 <= j /\ (k + 1) - 1 = k
        /\ j \in 0 .. Size /\ k + 1 \in (k + 1) .. j
    BY <1>0, <1>6
  <2>2. stream.starts[j + 1] - stream.starts[k + 1] <= 8 * (INPUT_BUF_SIZE - 8)
    BY <1>0, <2>1 DEF Suited
  <2>3. stream.toks[k + 1].kind = "lens"
    BY <2>1
  <2>4. stream.starts[k + 1] = TokenEnd(k)
    <3>1. stream.starts[k + 1] = StartAt(stream.toks, k + 1, TokenEnd(k))
      BY <1>0 DEF LaidOut
    <3>2. QED BY <2>3, <3>1 DEF StartAt
  <2>5. TokenEnd(j) \in Nat /\ stream.starts[j + 1] >= TokenEnd(j) /\ stream.starts[j + 1] \in Nat
    <3>1. stream.starts[j + 1] = StartAt(stream.toks, j + 1, TokenEnd(j)) /\ TokenEnd(j) \in Nat
      BY <1>0, <2>1 DEF LaidOut
    <3>2. Aligned(TokenEnd(j)) \in Nat /\ TokenEnd(j) <= Aligned(TokenEnd(j))
      BY <3>1, AlignedFacts
    <3>3. QED BY <3>1, <3>2 DEF StartAt
  <2>6. TokenEnd(j) <= TokenEnd(k) + 8 * INPUT_BUF_SIZE - 64
    BY <1>0, <2>2, <2>4, <2>5
  <2>7. QED BY <1>0, <1>1, <1>3, <1>4, <2>5, <2>6
<1>7. QED BY <1>5, <1>6

(* The loop that reads the code lengths is entered with all of them staged.*)
LEMMA EnterCodeLengthsFollows ==
  ASSUME Ready, EnterCodeLengths
  PROVE  ReaderInv' /\ FollowedNext
<1> DEFINE i == Filled(in)
<1>0. StreamOK /\ ReaderFits(in) /\ in.over <= 8 /\ CallOK /\ Known /\ DecoderFits
  BY ReadyFacts
<1>1. /\ dec.state = "DynamicCodeLengths" /\ in' = i /\ ToPc("codelens")
      /\ UNCHANGED bufferVars /\ UNCHANGED dec /\ UNCHANGED hist
  BY DEF EnterCodeLengths
<1>2. /\ ReaderFits(i) /\ BitPos(i) = BitPos(in) /\ i.over = in.over
      /\ i.end = stream.nbytes \/ Staged(i) = INPUT_BUF_SIZE
  BY <1>0, FilledFits
<1>3. call'.pc = "codelens"
  BY <1>0, <1>1, Leaving
<1> HIDE DEF i
<1>4. ReaderInv'
  BY <1>0, <1>1, <1>2, ReaderStaysFit
<1>5. CASE hist.phantom
  BY <1>1, <1>2, <1>4, <1>5, StillTracks, Invents
<1>6. CASE ~hist.phantom
  <2>1. PICK k \in 0 .. stream.held : Tracks(k)
    BY <1>6, StillTracks
  <2>2. BitPos(i) = TokenEnd(k)
    BY <1>1, <1>2, <2>1 DEF Tracks, Placed
  <2>3. LensStaged(i, k)
    BY <1>0, <1>2, <2>2, LengthsStaged
  <2>4. Expects(dec', in', k)
    BY <1>1, <2>1 DEF Tracks, Expects
  <2>5. Good(k) /\ Owes(dec', produced', D[k].out)
    BY <1>1, <2>1 DEF Tracks, bufferVars
  <2>6. TracksNext(k)
    BY <1>1, <2>2, <2>3, <2>4, <2>5 DEF TracksNext, Placed
  <2>7. QED BY <1>1, <1>3, <1>4, <1>6, <2>6, Advances
<1>7. QED BY <1>5, <1>6, ReadyFacts

(* The lengths' loop never runs short of staged bytes.                     *)
LEMMA LengthReader ==
  ASSUME Ready, call.pc = "codelens"
  PROVE  LET r == IF in.left < 14 THEN Refilled(in) ELSE in IN
         /\ ReaderFits(r) /\ BitPos(r) = BitPos(in) /\ r.left >= 14 /\ r.left \in Nat
         /\ r.over \in Nat /\ r.end = in.end
<1>0. /\ StreamOK /\ ReaderFits(in) /\ in.over <= 8 /\ Known /\ LaidOut
      /\ stream.nbytes \in Nat
  BY ReadyFacts, TokenEnds
<1>1. /\ in.pos \in Nat /\ in.end \in Nat /\ in.left \in Nat /\ in.over \in Nat
      /\ BitPos(in) = 8 * (in.pos + in.over) - in.left /\ Staged(in) = in.end - in.pos
  BY <1>0, ReaderTypes DEF ReaderFits
<1>2. CASE ~(in.left < 14)
  BY <1>0, <1>1, <1>2
<1>3. CASE in.left < 14
  <2>1. Fed(in)
    <3>1. CASE hist.phantom
      <4>1. BitPos(in) > 8 * stream.nbytes
        BY <3>1, StillTracks
      <4>2. QED BY <1>0, <4>1, BeyondStream DEF Fed
    <3>2. CASE ~hist.phantom
      <4>1. PICK k \in 0 .. stream.held : Tracks(k)
        BY <3>2, StillTracks
      <4>2. LensStaged(in, k)
        BY <4>1 DEF Tracks
      <4>3. dec.state # "WrapperFooter"
        BY ReadyFacts DEF CallFits
      <4>4. BitPos(in) = TokenEnd(k)
        BY <4>1, <4>3 DEF Tracks, Placed
      <4>5. k \in k .. Size /\ \A l \in (k + 1) .. k : stream.toks[l].kind = "lens"
        BY <1>0, TokenEnds
      <4>6. in.end = stream.nbytes \/ 8 * in.end >= TokenEnd(k) + 64
        BY <4>2, <4>5 DEF LensStaged
      <4>7. CASE 8 * in.end >= TokenEnd(k) + 64
        <5>1. 8 * in.end >= 8 * (in.pos + in.over) - 13 + 64
          BY <1>1, <1>3, <4>4, <4>7
        <5>2. Staged(in) >= 7
          BY <1>1, <5>1
        <5>3. QED BY <5>2 DEF Fed
      <4>8. QED BY <4>6, <4>7 DEF Fed
    <3>3. QED BY <3>1, <3>2
  <2>2. /\ ReaderFits(Refilled(in)) /\ BitPos(Refilled(in)) = BitPos(in)
        /\ Refilled(in).left >= 56 /\ Refilled(in).end = in.end
    BY <1>0, <2>1, RefilledFits
  <2>3. Refilled(in).left \in Nat /\ Refilled(in).over \in Nat
    BY <2>2 DEF ReaderFits, ReaderOK
  <2>4. QED BY <1>3, <2>2, <2>3
<1>4. QED BY <1>2, <1>3

(* One code length item; the last one builds the tables.                   *)
LEMMA CodeLengthFollows ==
  ASSUME Ready, ParseCodeLength
  PROVE  ReaderInv' /\ FollowedNext
<1> DEFINE r == IF in.left < 14 THEN Refilled(in) ELSE in
           kinds == {"lens"}
<1>1. PICK t \in Read(r, kinds, Phantoms.lens) :
         /\ in' = IF Overrun(r) THEN r ELSE Consumed(r, t.bits)
         /\ IF Overrun(r) \/ ~t.ok THEN Fail("BadData") /\ UNCHANGED dec
            ELSE IF t.last THEN ToAccount /\ dec' = WithTable("dynamic", t.longest)
            ELSE UNCHANGED <<dec, call>>
  BY DEF ParseCodeLength
<1>2. call.pc = "codelens" /\ UNCHANGED bufferVars /\ NotePhantom(HasToken(r, kinds))
  BY DEF ParseCodeLength
<1>3. /\ ReaderFits(r) /\ BitPos(r) = BitPos(in) /\ r.left >= 14 /\ r.left \in Nat
      /\ r.over \in Nat /\ r.end = in.end
  BY <1>2, LengthReader
<1>4. /\ dec.state = "DynamicCodeLengths"
      /\ dec.match = NoMatch /\ dec.lits = <<>> /\ DecoderOK /\ CallOK /\ HistOK /\ Known
      /\ StreamOK /\ DecoderFits
  BY <1>2, ReadyFacts DEF DecoderFits, CallFits
<1> HIDE DEF r, kinds
<1>5. \A k \in 0 .. stream.held : Tracks(k) => D[k].place = "lens"
  BY <1>4 DEF Tracks, Expects
<1>6. /\ t \in Token
      /\ (\E k : Genuine(r, kinds, t, k)) \/ Invented(r, kinds, t, Phantoms.lens)
  <2>1. \A u \in Token : PlaceOf(u) = "lens" => u.kind \in kinds
    BY SymbolKinds DEF kinds
  <2>2. \A u \in Phantoms.lens : u \in Token
    BY PhantomsAreTokens
  <2>3. dec.state # "WrapperFooter" /\ "lens" \in {"block", "precode", "lens", "symbol"}
    BY <1>4
  <2>4. QED BY <1>1, <1>3, <1>5, <2>1, <2>2, <2>3, ReadCases
<1>7. t.kind = "lens"
  BY <1>1, <1>4, PhantomsAreTokens, ReadGives DEF kinds
<1>8. t.last \in BOOLEAN /\ t.ok \in BOOLEAN /\ t.bits \in 1 .. 14
  BY <1>6, <1>7, LensToken
<1>9. Width(t) = t.bits /\ t.bits \in Nat /\ t.bits <= r.left
  BY <1>3, <1>6, <1>7, <1>8, TokenWidth
<1>10. hist'.phantom = (hist.phantom \/ ~HasToken(r, kinds))
  BY <1>2, <1>4, NotedPhantom
<1>11. Invented(r, kinds, t, Phantoms.lens) => ~Acceptable
  BY <1>5, InventedInside
<1>12. ReaderFits(Consumed(r, t.bits))
  BY <1>3, <1>9, ConsumedFits
<1>13. CASE Overrun(r)
  <2>1. in' = r /\ Fail("BadData") /\ UNCHANGED dec
    BY <1>1, <1>13
  <2>2. call'.pc = "idle" /\ call'.result = "BadData"
    BY <1>4, <2>1, Leaving
  <2>3. hist.phantom /\ ~Acceptable
    BY <1>3, <1>4, <1>13, OverrunInvented
  <2>4. hist'.phantom
    BY <1>10, <2>3
  <2>5. QED BY <1>2, <1>3, <1>4, <2>1, <2>2, <2>3, <2>4, HeaderFails
<1>14. CASE ~Overrun(r) /\ ~t.ok
  <2>1. in' = Consumed(r, t.bits) /\ Fail("BadData") /\ UNCHANGED dec
    BY <1>1, <1>14
  <2>2. call'.pc = "idle" /\ call'.result = "BadData"
    BY <1>4, <2>1, Leaving
  <2>3. CASE \E k : Genuine(r, kinds, t, k)
    <3>1. PICK k : Genuine(r, kinds, t, k)
      BY <2>3
    <3>2. k \in 0 .. stream.held /\ k + 1 \in 0 .. stream.held /\ Tracks(k)
          /\ D[k + 1].fault = ~t.ok
      BY <1>7, <3>1, LengthsMean
    <3>3. ~Acceptable
      BY <1>4, <1>14, <3>2, FaultyStream
    <3>4. QED BY <1>2, <1>4, <1>12, <2>1, <2>2, <3>2, <3>3, HeaderFails
  <2>4. CASE Invented(r, kinds, t, Phantoms.lens)
    <3>1. hist'.phantom
      BY <1>10, <2>4 DEF Invented
    <3>2. QED BY <1>2, <1>4, <1>11, <1>12, <2>1, <2>2, <2>4, <3>1, HeaderFails
  <2>5. QED BY <1>6, <2>3, <2>4
<1>15. CASE ~Overrun(r) /\ t.ok
  <2>1. /\ in' = Consumed(r, t.bits)
        /\ t.last => ToAccount /\ dec' = WithTable("dynamic", t.longest)
        /\ ~t.last => UNCHANGED <<dec, call>>
    BY <1>1, <1>15
  <2>2. call'.pc = IF t.last THEN "account" ELSE "codelens"
    BY <1>2, <1>4, <2>1, Leaving
  <2>3. /\ dec'.state = IF t.last THEN "CompressedData" ELSE "DynamicCodeLengths"
        /\ dec'.final = dec.final
        /\ dec'.match = NoMatch /\ dec'.lits = <<>>
        /\ t.last => dec'.table.code = "dynamic"
    <3>1. CASE t.last
      BY <1>4, <2>1, <3>1, TableFits
    <3>2. CASE ~t.last
      BY <1>4, <2>1, <3>2
    <3>3. QED BY <3>1, <3>2
  <2>4. r.over <= 8
    BY <1>3, <1>15 DEF Overrun
  <2>5. CASE \E k : Genuine(r, kinds, t, k)
    <3>1. PICK k : Genuine(r, kinds, t, k)
      BY <2>5
    <3>2. /\ k \in 0 .. stream.held /\ k + 1 \in 0 .. stream.held /\ Tracks(k) /\ k \in Nat
          /\ D[k + 1].out = D[k].out /\ D[k + 1].final = D[k].final /\ Same(D[k], D[k + 1])
          /\ D[k + 1].fault = ~t.ok
          /\ D[k + 1].place = IF t.last THEN "symbol" ELSE "lens"
          /\ \A type : BlockIs(k, type) => BlockIs(k + 1, type)
          /\ stream.toks[k + 1].kind = "lens"
      BY <1>7, <3>1, LengthsMean
    <3>3. D[k + 1].fault = FALSE
      BY <1>15, <3>2
    <3>4. dec.final = D[k].final /\ BlockIs(k, "dynamic")
      BY <1>4, <3>2 DEF Tracks, Expects
    <3>5. Expects(dec', in', k + 1)
      <4>1. CASE t.last
        BY <2>3, <3>2, <3>4, <4>1 DEF Expects
      <4>2. CASE ~t.last
        BY <2>3, <3>2, <3>4, <4>2 DEF Expects
      <4>3. QED BY <4>1, <4>2
    <3>6. hist'.phantom = hist.phantom
      <4>1. ~hist.phantom /\ HasToken(r, kinds)
        BY <3>1 DEF Genuine
      <4>2. QED BY <1>10, <4>1, ReadyFacts
    <3>7. LensStaged(in', k + 1)
      <4>1. LensStaged(in, k)
        BY <1>2, <3>2 DEF Tracks
      <4>2. in'.end = in.end
        BY <1>3, <1>9, <2>1, ConsumedFits
      <4>3. Size \in Nat
        BY <1>4, TokenEnds DEF Known
      <4> SUFFICES ASSUME NEW j \in (k + 1) .. Size,
                          \A l \in ((k + 1) + 1) .. j : stream.toks[l].kind = "lens"
                   PROVE  in'.end = stream.nbytes \/ 8 * in'.end >= TokenEnd(j) + 64
        BY DEF LensStaged
      <4>4. j \in k .. Size
        BY <3>2, <4>3
      <4>5. \A l \in (k + 1) .. j : stream.toks[l].kind = "lens"
        <5> TAKE l \in (k + 1) .. j
        <5>1. CASE l = k + 1
          BY <3>2, <5>1
        <5>2. CASE l # k + 1
          <6>1. l \in ((k + 1) + 1) .. j
            BY <3>2, <4>3, <5>2
          <6>2. QED BY <6>1
        <5>3. QED BY <5>1, <5>2
      <4>6. QED BY <4>1, <4>2, <4>4, <4>5 DEF LensStaged
    <3>8. call'.pc # "idle" /\ (call'.pc = "codelens" => LensStaged(in', k + 1))
      BY <2>2, <3>7
    <3>9. dec'.state \in {"DynamicPrecodeLens", "DynamicCodeLengths", "CompressedData"}
      BY <2>3
    <3>10. QED BY <1>2, <1>3, <1>4, <1>7, <1>9, <2>1, <2>3, <2>4, <3>1, <3>2, <3>3,
                  <3>5, <3>6, <3>8, <3>9, HeaderAdvances
  <2>6. CASE Invented(r, kinds, t, Phantoms.lens)
    <3>1. dec'.state \in {"DynamicPrecodeLens", "DynamicCodeLengths", "CompressedData"}
      BY <2>3
    <3>2. QED BY <1>2, <1>3, <1>6, <1>9, <1>11, <2>1, <2>4, <2>6, <3>1, HeaderInvented
  <2>7. QED BY <1>6, <2>5, <2>6
<1>16. QED BY <1>8, <1>13, <1>14, <1>15

-------------------------------------------------------------------------------
(* What is written.                                                        *)

LEMMA ProducedKnown ==
  ASSUME WindowInv
  PROVE  /\ produced \in Seq(Byte) /\ Len(produced) \in Nat
         /\ lookback_valid \in Nat /\ lookback_valid <= Len(produced)
         /\ lookback_valid = AtMost(Len(produced), LOOKBACK_SIZE)
<1>1. produced \in Seq(Byte) /\ lookback_valid \in Nat
  BY DEF WindowInv, BufferTypeOK
<1>2. Len(produced) \in Nat
  BY <1>1, LenProperties
<1>3. lookback_valid = AtMost(Len(produced), LOOKBACK_SIZE)
  BY DEF WindowInv, LookbackExact
<1>4. LOOKBACK_SIZE \in Nat
  BY BufferAssumption
<1>5. lookback_valid <= Len(produced)
  BY <1>2, <1>3, <1>4 DEF AtMost
<1>6. QED BY <1>1, <1>2, <1>3, <1>5

LEMMA CopiedNone ==
  ASSUME NEW s \in Seq(Byte), NEW offset \in 1 .. Len(s)
  PROVE  Copied(s, offset, 0) = s
<1>1. /\ Copied(s, offset, 0) \in Seq(Byte) /\ Len(Copied(s, offset, 0)) = Len(s) + 0
      /\ Leads(s, Copied(s, offset, 0))
  BY CopiedFacts
<1>2. Len(s) \in Nat
  BY LenProperties
<1> DEFINE c == Copied(s, offset, 0)
<1>3. c \in Seq(Byte) /\ Len(c) = Len(s) /\ \A i \in 1 .. Len(s) : c[i] = s[i]
  BY <1>1, <1>2 DEF Leads
<1> HIDE DEF c
<1>4. c = s
  BY <1>3, SeqEqual
<1>5. QED BY <1>4 DEF c

LEMMA MatchProduces ==
  ASSUME WindowInv, NEW offset \in 1 .. Len(produced), NEW n \in Nat, NEW scratch,
         IF n = 0 THEN UNCHANGED bufferVars ELSE WriteMatch(offset, n, scratch)
  PROVE  produced' = Copied(produced, offset, n)
<1>1. produced \in Seq(Byte)
  BY ProducedKnown
<1>2. CASE n = 0
  BY <1>1, <1>2, CopiedNone DEF bufferVars
<1>3. CASE n # 0
  <2>1. produced' = Extended(produced, PromisedBytes(offset, n), n)
    BY <1>3 DEF WriteMatch, WriteBytes
  <2>2. QED BY <1>1, <2>1, PromiseIsCopy
<1>4. QED BY <1>2, <1>3

LEMMA LiteralsProduce ==
  ASSUME WindowInv, NEW vals \in Seq(Byte), NEW n \in 0 .. Len(vals), NEW scratch,
         IF n = 0 THEN UNCHANGED bufferVars ELSE PutBytes(Cells(vals, n), n, scratch)
  PROVE  produced' = produced \o SubSeq(vals, 1, n)
<1>1. produced \in Seq(Byte) /\ Len(vals) \in Nat
  BY ProducedKnown, LenProperties
<1>2. /\ SubSeq(vals, 1, n) \in Seq(Byte) /\ Len(SubSeq(vals, 1, n)) = n
      /\ \A i \in 1 .. n : SubSeq(vals, 1, n)[i] = vals[i]
  <2>1. 1 \in 1 .. (Len(vals) + 1) /\ n \in 0 .. Len(vals)
    BY <1>1
  <2>2. CASE n = 0
    <3>1. SubSeq(vals, 1, n) = <<>>
      BY <1>1, <2>2, SubSeqEmpty
    <3>2. QED BY <2>2, <3>1, EmptySeq
  <2>3. CASE n # 0
    <3>1. n \in 1 .. Len(vals) /\ 1 \in 1 .. Len(vals)
      BY <1>1, <2>3
    <3> DEFINE l == Len(vals)
    <3>2. n \in Nat /\ l \in Nat /\ 1 <= n /\ n <= l
      BY <1>1, <3>1
    <3> HIDE DEF l
    <3>3. /\ SubSeq(vals, 1, n) \in Seq(Byte)
          /\ Len(SubSeq(vals, 1, n)) = IF 1 <= n THEN n - 1 + 1 ELSE 0
          /\ \A i \in 1 .. n - 1 + 1 : SubSeq(vals, 1, n)[i] = vals[1 + i - 1]
      BY <1>1, <3>1, SubSeqProperties
    <3>4. n - 1 + 1 = n /\ \A i \in 1 .. n : 1 + i - 1 = i
      BY <3>2
    <3>5. QED BY <3>2, <3>3, <3>4
  <2>4. QED BY <2>2, <2>3
<1>3. CASE n = 0
  <2>1. SubSeq(vals, 1, n) = <<>>
    BY <1>2, <1>3, EmptySeq
  <2>2. QED BY <1>1, <1>3, <2>1, ConcatProperties DEF bufferVars
<1>4. CASE n # 0
  <2>1. produced' = Extended(produced, Cells(vals, n), n)
    BY <1>4 DEF PutBytes, WriteBytes
  <2>2. Cells(vals, n) \in [0 .. (n - 1) -> Byte]
    BY CellsAreBytes
  <2>3. \A i \in 1 .. n : SubSeq(vals, 1, n)[i] = Cells(vals, n)[i - 1]
    <3> TAKE i \in 1 .. n
    <3>1. n \in Nat
      BY <1>1
    <3>2. i - 1 \in 0 .. (n - 1) /\ (i - 1) + 1 = i
      BY <3>1
    <3>3. Cells(vals, n)[i - 1] = vals[i]
      BY <3>2 DEF Cells
    <3>4. QED BY <1>2, <3>3
  <2>4. n \in Nat
    BY <1>1
  <2>5. QED BY <1>1, <1>2, <2>1, <2>2, <2>3, <2>4, ExtendedIsConcat
<1>5. QED BY <1>3, <1>4

-------------------------------------------------------------------------------
(* Steps within a compressed block that read no token.                     *)

LEMMA BlockGoes ==
  ASSUME Ready, dec.state = "CompressedData", dec'.state = "CompressedData",
         dec'.final = dec.final, dec'.table.code = dec.table.code,
         ReaderFits(in'), BitPos(in') = BitPos(in), in'.over <= 8, UNCHANGED hist,
         call'.pc \notin {"idle", "codelens"},
         \A k \in 0 .. stream.held :
           Owes(dec, produced, D[k].out) => Owes(dec', produced', D[k].out)
  PROVE  ReaderInv' /\ FollowedNext
<1>1. ReaderInv'
  BY ReaderStaysFit
<1>2. CASE hist.phantom
  BY <1>1, <1>2, StillTracks, Invents
<1>3. CASE ~hist.phantom
  <2>1. PICK k \in 0 .. stream.held : Tracks(k)
    BY <1>3, StillTracks
  <2>2. BitPos(in') = TokenEnd(k)
    BY <2>1 DEF Tracks, Placed
  <2>3. Expects(dec', in', k)
    BY <2>1 DEF Tracks, Expects
  <2>4. Good(k) /\ Owes(dec', produced', D[k].out)
    BY <2>1 DEF Tracks
  <2>5. TracksNext(k)
    BY <2>2, <2>3, <2>4 DEF TracksNext, Placed
  <2>6. FollowedNext
    BY <1>3, <2>2, <2>5, Advances
  <2>7. QED BY <1>1, <2>6
<1>4. QED BY <1>2, <1>3, ReadyFacts

-------------------------------------------------------------------------------
(* Output that waited for room.                                            *)

LEMMA CutSequence ==
  ASSUME NEW s \in Seq(Byte), NEW n \in 0 .. Len(s)
  PROVE  /\ SubSeq(s, 1, n) \in Seq(Byte) /\ SubSeq(s, n + 1, Len(s)) \in Seq(Byte)
         /\ SubSeq(s, 1, n) \o SubSeq(s, n + 1, Len(s)) = s
<1> DEFINE l == Len(s)
           a == SubSeq(s, 1, n)
           b == SubSeq(s, n + 1, l)
<1>1. l \in Nat /\ n \in Nat /\ n <= l
  BY LenProperties
<1>2. \A i \in 1 .. l : s[i] \in Byte
  BY ElementOfSeq
<1> HIDE DEF l
<1>3. /\ a \in Seq(Byte)
      /\ Len(a) = IF 1 <= n THEN n - 1 + 1 ELSE 0
      /\ \A i \in 1 .. n - 1 + 1 : a[i] = s[1 + i - 1]
  <2>1. \A i \in 1 .. n : s[i] \in Byte
    BY <1>1, <1>2
  <2>2. QED BY <1>1, <2>1, SubSeqProperties
<1>4. Len(a) = n /\ \A i \in 1 .. n : a[i] = s[i]
  <2>1. n - 1 + 1 = n /\ \A i \in 1 .. n : 1 + i - 1 = i
    BY <1>1
  <2>2. QED BY <1>1, <1>3, <2>1
<1>5. /\ b \in Seq(Byte)
      /\ Len(b) = IF n + 1 <= l THEN l - (n + 1) + 1 ELSE 0
      /\ \A i \in 1 .. l - (n + 1) + 1 : b[i] = s[(n + 1) + i - 1]
  <2>1. \A i \in (n + 1) .. l : s[i] \in Byte
    BY <1>1, <1>2
  <2>2. n + 1 \in Int /\ l \in Int
    BY <1>1
  <2>3. QED BY <2>1, <2>2, SubSeqProperties
<1>6. Len(b) = l - n /\ \A i \in 1 .. (l - n) : b[i] = s[n + i]
  <2>1. l - (n + 1) + 1 = l - n /\ \A i \in 1 .. (l - n) : (n + 1) + i - 1 = n + i
    BY <1>1
  <2>2. QED BY <1>1, <1>5, <2>1
<1> HIDE DEF a, b
<1>7. /\ a \o b \in Seq(Byte) /\ Len(a \o b) = Len(a) + Len(b)
      /\ \A i \in 1 .. Len(a) + Len(b) : (a \o b)[i] =
            IF i <= Len(a) THEN a[i] ELSE b[i - Len(a)]
  BY <1>3, <1>5, ConcatProperties
<1>8. Len(a \o b) = l /\ \A i \in 1 .. l : (a \o b)[i] = IF i <= n THEN a[i] ELSE b[i - n]
  BY <1>1, <1>4, <1>6, <1>7
<1>9. \A i \in 1 .. l : (a \o b)[i] = s[i]
  <2> TAKE i \in 1 .. l
  <2>1. CASE i <= n
    <3>1. i \in 1 .. n
      BY <1>1, <2>1
    <3>2. QED BY <1>4, <1>8, <2>1, <3>1
  <2>2. CASE ~(i <= n)
    <3>1. i - n \in 1 .. (l - n) /\ n + (i - n) = i
      BY <1>1, <2>2
    <3>2. QED BY <1>6, <1>8, <2>2, <3>1
  <2>3. QED BY <2>1, <2>2
<1>10. a \o b = s
  BY <1>7, <1>8, <1>9, SeqEqual DEF l
<1>11. QED BY <1>3, <1>5, <1>10 DEF a, b, l

LEMMA BytesConcat ==
  ASSUME NEW s \in Seq(Byte), NEW t \in Seq(Byte), NEW u \in Seq(Byte)
  PROVE  (s \o t) \o u = s \o (t \o u)
<1> DEFINE l == Len(s)
           m == Len(t)
           n == Len(u)
           st == s \o t
           tu == t \o u
           a == st \o u
           b == s \o tu
<1>1. l \in Nat /\ m \in Nat /\ n \in Nat
  BY LenProperties
<1>2. /\ st \in Seq(Byte) /\ Len(st) = l + m
      /\ \A i \in 1 .. l + m : st[i] = IF i <= l THEN s[i] ELSE t[i - l]
  BY ConcatProperties
<1>3. /\ tu \in Seq(Byte) /\ Len(tu) = m + n
      /\ \A i \in 1 .. m + n : tu[i] = IF i <= m THEN t[i] ELSE u[i - m]
  BY ConcatProperties
<1> HIDE DEF st, tu
<1>4. /\ a \in Seq(Byte) /\ Len(a) = Len(st) + n
      /\ \A i \in 1 .. Len(st) + n : a[i] = IF i <= Len(st) THEN st[i] ELSE u[i - Len(st)]
  <2>1. st \in Seq(Byte)
    BY <1>2
  <2>2. QED BY <2>1, ConcatProperties
<1>5. /\ b \in Seq(Byte) /\ Len(b) = l + Len(tu)
      /\ \A i \in 1 .. l + Len(tu) : b[i] = IF i <= l THEN s[i] ELSE tu[i - l]
  <2>1. tu \in Seq(Byte)
    BY <1>3
  <2>2. QED BY <2>1, ConcatProperties
<1> HIDE DEF l, m, n, a, b
<1>6. Len(a) = l + m + n /\ Len(b) = l + m + n
  BY <1>1, <1>2, <1>3, <1>4, <1>5
<1>7. ASSUME NEW i \in 1 .. l + m + n
      PROVE  a[i] = b[i]
  <2>0. i \in Int /\ 1 <= i /\ i <= l + m + n
    BY <1>1, <1>7
  <2>1. CASE i <= l
    <3>1. i \in 1 .. Len(st) + n /\ i <= Len(st) /\ i \in 1 .. l + m /\ i \in 1 .. l + Len(tu)
      BY <1>1, <1>2, <1>3, <2>0, <2>1
    <3>2. a[i] = st[i] /\ st[i] = s[i] /\ b[i] = s[i]
      BY <1>2, <1>4, <1>5, <2>1, <3>1
    <3>3. QED BY <3>2
  <2>2. CASE ~(i <= l) /\ i <= l + m
    <3>1. /\ i \in 1 .. Len(st) + n /\ i <= Len(st) /\ i \in 1 .. l + m
          /\ i \in 1 .. l + Len(tu) /\ i - l \in 1 .. m + n /\ i - l <= m
      BY <1>1, <1>2, <1>3, <2>0, <2>2
    <3>2. a[i] = st[i] /\ st[i] = t[i - l]
      BY <1>2, <1>4, <2>2, <3>1
    <3>3. b[i] = tu[i - l] /\ tu[i - l] = t[i - l]
      BY <1>3, <1>5, <2>2, <3>1
    <3>4. QED BY <3>2, <3>3
  <2>3. CASE ~(i <= l + m)
    <3>1. /\ i \in 1 .. Len(st) + n /\ ~(i <= Len(st)) /\ i - Len(st) = i - l - m
          /\ i \in 1 .. l + Len(tu) /\ ~(i <= l) /\ i - l \in 1 .. m + n /\ ~(i - l <= m)
      BY <1>1, <1>2, <1>3, <2>0, <2>3
    <3>2. a[i] = u[i - l - m]
      BY <1>4, <3>1
    <3>3. b[i] = tu[i - l] /\ tu[i - l] = u[i - l - m]
      BY <1>3, <1>5, <3>1
    <3>4. QED BY <3>2, <3>3
  <2>4. QED BY <2>1, <2>2, <2>3
<1>8. a = b
  BY <1>4, <1>5, <1>6, <1>7, SeqEqual
<1>9. QED BY <1>8 DEF a, b, st, tu

LEMMA BytesTail ==
  ASSUME NEW s \in Seq(Byte), s # <<>>
  PROVE  Tail(s) = SubSeq(s, 2, Len(s))
<1>1. \A S : \A a \in Seq(S) : a # <<>> => Tail(a) = SubSeq(a, 2, Len(a))
  BY TailIsSubSeq, Zenon
<1>2. QED BY <1>1, Zenon

LEMMA LiteralsOwed ==
  ASSUME WindowInv, NEW vals \in Seq(Byte), NEW n \in 0 .. Len(vals), NEW scratch,
         IF n = 0 THEN UNCHANGED bufferVars ELSE PutBytes(Cells(vals, n), n, scratch)
  PROVE  produced' \o SubSeq(vals, n + 1, Len(vals)) = produced \o vals
<1> DEFINE a == SubSeq(vals, 1, n)
           b == SubSeq(vals, n + 1, Len(vals))
<1>1. produced' = produced \o a
  BY LiteralsProduce
<1>2. a \in Seq(Byte) /\ b \in Seq(Byte) /\ a \o b = vals
  BY CutSequence
<1>3. produced \in Seq(Byte)
  BY ProducedKnown
<1> HIDE DEF a, b
<1>4. (produced \o a) \o b = produced \o (a \o b)
  <2>1. produced \in Seq(Byte) /\ a \in Seq(Byte) /\ b \in Seq(Byte)
    BY <1>2, <1>3
  <2>2. QED BY <2>1, BytesConcat
<1>5. QED BY <1>1, <1>2, <1>4 DEF b

(* Literals that waited are written first.                                 *)
LEMMA ResumeLiteralFollows ==
  ASSUME Ready, ResumeLiteral
  PROVE  ReaderInv' /\ FollowedNext
<1>0. /\ WindowInv /\ DecoderOK /\ CallOK /\ CallFits /\ ReaderFits(in) /\ in.over <= 8
      /\ dec.lits \in Seq(Byte)
  BY ReadyFacts DEF DecoderOK
<1>1. /\ call.pc = "dispatch" /\ dec.state = "CompressedData" /\ dec.match = NoMatch
      /\ dec.lits # <<>> /\ UNCHANGED in /\ UNCHANGED hist
      /\ IF OutputSpace = 0
           THEN ToAccount /\ UNCHANGED <<bufferVars, dec>>
           ELSE /\ PutBytes([j \in {0} |-> dec.lits[1]], 1, 0)
                /\ dec' = [dec EXCEPT !.lits = Tail(@)]
                /\ StopIfFull(1)
  BY DEF ResumeLiteral, InBlock
<1>2. call'.pc \notin {"idle", "codelens"}
  BY <1>0, <1>1, AfterStop
<1>3. CASE OutputSpace = 0
  <2>1. UNCHANGED dec /\ produced' = produced
    BY <1>1, <1>3 DEF bufferVars
  <2>2. QED BY <1>0, <1>1, <1>2, <2>1, BlockGoes
<1>4. CASE OutputSpace # 0
  <2>1. /\ PutBytes([j \in {0} |-> dec.lits[1]], 1, 0)
        /\ dec' = [dec EXCEPT !.lits = Tail(dec.lits)]
    BY <1>1, <1>4
  <2>2. /\ dec'.state = "CompressedData" /\ dec'.match = NoMatch /\ dec'.final = dec.final
        /\ dec'.lits = Tail(dec.lits) /\ dec'.table = dec.table
    BY <1>0, <1>1, <2>1 DEF DecoderOK
  <2>3. Len(dec.lits) \in Nat \ {0}
    BY <1>0, <1>1, EmptySeq
  <2>4. Cells(dec.lits, 1) = [j \in {0} |-> dec.lits[1]]
    <3>1. 0 .. (1 - 1) = {0} /\ \A j \in {0} : j + 1 = 1
      OBVIOUS
    <3>2. QED BY <3>1 DEF Cells
  <2>5. IF 1 = 0 THEN UNCHANGED bufferVars ELSE PutBytes(Cells(dec.lits, 1), 1, 0)
    BY <2>1, <2>4
  <2>6. 1 \in 0 .. Len(dec.lits)
    BY <2>3
  <2>7. produced' \o SubSeq(dec.lits, 1 + 1, Len(dec.lits)) = produced \o dec.lits
    BY <1>0, <2>5, <2>6, LiteralsOwed
  <2>8. Tail(dec.lits) = SubSeq(dec.lits, 2, Len(dec.lits))
    <3> DEFINE s == dec.lits
    <3>1. s \in Seq(Byte) /\ s # <<>>
      BY <1>0, <1>1
    <3> HIDE DEF s
    <3>2. Tail(s) = SubSeq(s, 2, Len(s))
      BY <3>1, BytesTail, Zenon
    <3>3. QED BY <3>2, Zenon DEF s
  <2>9. produced' \o dec'.lits = produced \o dec.lits
    <3>1. 1 + 1 = 2
      OBVIOUS
    <3>2. produced' \o SubSeq(dec.lits, 2, Len(dec.lits)) = produced \o dec.lits
      BY <2>7, <3>1, Zenon
    <3>3. QED BY <2>2, <2>8, <3>2, Zenon
  <2>10. \A k \in 0 .. stream.held :
           Owes(dec, produced, D[k].out) => Owes(dec', produced', D[k].out)
    BY <1>1, <2>2, <2>9 DEF Owes
  <2>11. QED BY <1>0, <1>1, <1>2, <2>2, <2>10, BlockGoes
<1>5. QED BY <1>3, <1>4

(* A match that waited goes on where it stopped.                           *)
LEMMA ResumeMatchFollows ==
  ASSUME Ready, ResumeMatch
  PROVE  ReaderInv' /\ FollowedNext
<1> DEFINE m == dec.match
           n == AtMost(m.length, OutputSpace)
           rest == IF n < m.length THEN [m EXCEPT !.length = @ - n] ELSE NoMatch
<1>0. /\ WindowInv /\ DecoderInv /\ DecoderOK /\ CallOK /\ DecoderFits /\ ReaderFits(in)
      /\ in.over <= 8
  BY ReadyFacts
<1>1. /\ call.pc = "dispatch" /\ dec.state = "CompressedData" /\ m # NoMatch
      /\ UNCHANGED in /\ UNCHANGED hist
      /\ IF n = 0 THEN UNCHANGED bufferVars ELSE WriteMatch(m.offset, n, 0)
      /\ dec' = [dec EXCEPT !.match = rest]
      /\ IF n < m.length THEN ToAccount ELSE StopIfFull(n)
  BY DEF ResumeMatch, InBlock
<1>2. call'.pc \notin {"idle", "codelens"}
  BY <1>0, <1>1, AfterStop
<1>3. /\ produced \in Seq(Byte) /\ m.offset \in 1 .. Len(produced) /\ m.length \in Nat
      /\ m \in [offset : Nat, length : Nat] /\ dec.lits = <<>> /\ OutputSpace \in Nat
      /\ Len(produced) \in Nat
  BY <1>0, <1>1, PendingKnown, WindowFacts DEF DecoderOK, DecoderFits
<1>4. /\ dec'.state = "CompressedData" /\ dec'.match = rest /\ dec'.final = dec.final
      /\ dec'.lits = dec.lits /\ dec'.table = dec.table
  BY <1>0, <1>1 DEF DecoderOK
<1>5. n \in Nat /\ n <= m.length /\ m.length - n \in Nat
  BY <1>3 DEF AtMost
<1> HIDE DEF m, n
<1>6. produced' = Copied(produced, m.offset, n)
  BY <1>0, <1>1, <1>3, <1>5, MatchProduces
<1>7. Copied(produced', m.offset, m.length - n) = Copied(produced, m.offset, m.length)
  <2>1. Copied(Copied(produced, m.offset, n), m.offset, m.length - n)
          = Copied(produced, m.offset, n + (m.length - n))
    BY <1>3, <1>5, CopiedComposes
  <2>2. n + (m.length - n) = m.length
    BY <1>3, <1>5
  <2>3. QED BY <1>6, <2>1, <2>2
<1>8. ASSUME NEW k \in 0 .. stream.held, Owes(dec, produced, D[k].out)
      PROVE  Owes(dec', produced', D[k].out)
  <2>1. D[k].out = Copied(produced, m.offset, m.length)
    BY <1>1, <1>8 DEF Owes, m
  <2>2. CASE n < m.length
    <3>1. /\ dec'.match = [m EXCEPT !.length = m.length - n]
      BY <1>4, <2>2
    <3>2. dec'.match.offset = m.offset /\ dec'.match.length = m.length - n
      BY <1>3, <3>1
    <3>3. dec'.match # NoMatch
      BY <1>3, <3>2 DEF NoMatch
    <3>4. QED BY <1>7, <2>1, <3>2, <3>3 DEF Owes
  <2>3. CASE ~(n < m.length)
    <3>1. n = m.length
      BY <1>3, <1>5, <2>3
    <3>2. dec'.match = NoMatch /\ dec'.lits = <<>>
      BY <1>3, <1>4, <2>3
    <3>3. produced' = D[k].out
      BY <1>6, <2>1, <3>1
    <3>4. produced' \in Seq(Byte)
      BY <1>3, <1>5, <1>6, CopiedFacts
    <3>5. produced' \o <<>> = produced'
      BY <3>4, ConcatEmptySeq
    <3>6. QED BY <3>2, <3>3, <3>5 DEF Owes
  <2>4. QED BY <2>2, <2>3
<1>9. QED BY <1>0, <1>1, <1>2, <1>4, <1>8, BlockGoes

(* Steps of decompress_block that only refill the reader.                  *)

LEMMA NothingPending ==
  ASSUME Ready, \/ InBlock("dispatch") /\ ~HasPending
                \/ InBlock("refill") \/ InBlock("generic") \/ InBlock("fast")
  PROVE  dec.state = "CompressedData" /\ dec.match = NoMatch /\ dec.lits = <<>>
<1>1. CallFits
  BY ReadyFacts
<1>2. CASE InBlock("dispatch") /\ ~HasPending
  BY <1>2 DEF InBlock, HasPending
<1>3. CASE InBlock("refill") \/ InBlock("generic") \/ InBlock("fast")
  <2>1. call.pc \in {"refill", "fast", "generic"}
    BY <1>3 DEF InBlock
  <2>2. QED BY <1>1, <2>1 DEF CallFits
<1>4. QED BY <1>2, <1>3

(* No padding is dropped: there is none while the source has more.         *)
LEMMA GenericInputFits ==
  ASSUME StreamOK, ReaderFits(in), in.over <= 8
  PROVE  /\ ReaderFits(GenericInput) /\ BitPos(GenericInput) = BitPos(in)
         /\ GenericInput.over = in.over /\ GenericInput.pos = in.pos
         /\ GenericInput.left = in.left
         /\ Fed(GenericInput)
<1>1. /\ GENERIC_REFILL \in Nat /\ GENERIC_REFILL >= 8 /\ ReaderOK(in) /\ Staged(in) \in Nat
  BY StreamAssumption, ReaderTypes DEF ReaderFits
<1>2. CASE ~GenericFills
  <2>1. GenericInput = in
    BY <1>2 DEF GenericInput
  <2>2. Staged(in) >= 7
    BY <1>1, <1>2 DEF GenericFills
  <2>3. QED BY <2>1, <2>2 DEF Fed
<1>3. CASE GenericFills
  <2> DEFINE f == Filled(in)
  <2>1. /\ ReaderFits(f) /\ BitPos(f) = BitPos(in) /\ f.pos = in.pos /\ f.left = in.left
        /\ f.over = in.over /\ f.end >= in.end /\ Fed(f) /\ f.end <= stream.nbytes
    BY FilledFits DEF ReaderFits
  <2>2. GenericInput = IF f.over > 0 /\ Staged(f) > Staged(in)
                         THEN [f EXCEPT !.left = f.left - 8 * f.over, !.over = 0]
                         ELSE f
    BY <1>3 DEF GenericInput
  <2> HIDE DEF f
  <2>3. ~(f.over > 0 /\ Staged(f) > Staged(in))
    <3>1. SUFFICES ASSUME f.over > 0 PROVE ~(Staged(f) > Staged(in))
      OBVIOUS
    <3>2. f.pos = stream.nbytes
      BY <2>1, <3>1 DEF ReaderFits
    <3>3. /\ f.end \in Nat /\ f.pos \in Nat /\ f.pos <= f.end /\ Staged(f) = f.end - f.pos
      BY <2>1, ReaderTypes DEF ReaderFits, ReaderOK
    <3>4. Staged(f) = 0
      BY <2>1, <3>2, <3>3 DEF StreamOK
    <3>5. QED BY <1>1, <3>4
  <2>4. GenericInput = f
    BY <2>2, <2>3
  <2>5. QED BY <2>1, <2>4
<1>4. QED BY <1>2, <1>3

LEMMA GenericReaderFits ==
  ASSUME StreamOK, ReaderFits(in), in.over <= 8
  PROVE  /\ ReaderFits(GenericReader) /\ BitPos(GenericReader) = BitPos(in)
         /\ GenericReader.left >= 56
<1>1. /\ ReaderFits(GenericInput) /\ BitPos(GenericInput) = BitPos(in)
      /\ GenericInput.over <= 8 /\ Fed(GenericInput)
  BY GenericInputFits
<1>2. QED BY <1>1, RefilledFits DEF GenericReader

(* The generic loop hands over to the fastloop between two symbols.        *)
LEMMA GenericReenterFollows ==
  ASSUME Ready, GenericReenter
  PROVE  ReaderInv' /\ FollowedNext
<1>1. /\ StreamOK /\ ReaderFits(in) /\ in.over <= 8 /\ CallOK
  BY ReadyFacts
<1>2. /\ InBlock("generic") /\ in' = GenericInput /\ ToPc("refill")
      /\ UNCHANGED bufferVars /\ UNCHANGED dec /\ UNCHANGED hist
  BY DEF GenericReenter
<1>3. dec.state = "CompressedData"
  BY <1>2 DEF InBlock
<1>4. ReaderFits(in') /\ BitPos(in') = BitPos(in) /\ in'.over <= 8
  BY <1>1, <1>2, GenericInputFits
<1>5. call'.pc = "refill"
  BY <1>1, <1>2, Leaving
<1>6. produced' = produced
  BY <1>2 DEF bufferVars
<1>7. QED BY <1>2, <1>3, <1>4, <1>5, <1>6, BlockGoes

(* More padding than a load means the stream was cut off.                  *)
LEMMA GenericOverrunFollows ==
  ASSUME Ready, GenericOverrun
  PROVE  ReaderInv' /\ FollowedNext
<1>1. /\ StreamOK /\ ReaderFits(in) /\ in.over <= 8 /\ CallOK
  BY ReadyFacts
<1>2. /\ InBlock("generic") /\ in' = GenericReader /\ Fail("BadData")
      /\ Overrun(GenericReader)
      /\ UNCHANGED bufferVars /\ UNCHANGED dec /\ UNCHANGED hist
  BY DEF GenericOverrun
<1>3. dec.state = "CompressedData" /\ dec'.state = "CompressedData"
  BY <1>2 DEF InBlock
<1>4. ReaderFits(GenericReader) /\ BitPos(GenericReader) = BitPos(in)
  BY <1>1, GenericReaderFits
<1>5. hist.phantom /\ ~Acceptable
  BY <1>2, <1>3, <1>4, OverrunInvented
<1>6. call'.pc = "idle" /\ call'.result = "BadData"
  BY <1>1, <1>2, Leaving
<1>7. hist'.phantom
  BY <1>2, <1>5
<1>8. FollowedNext
  BY <1>3, <1>5, <1>6, <1>7, Invents
<1>9. ReaderInv'
  <2>1. call'.result \in Fatal
    BY <1>6 DEF Fatal
  <2>2. ReaderFits(in')
    BY <1>2, <1>4
  <2>3. QED BY <1>3, <1>6, <2>1, <2>2, ReaderStaysFit
<1>10. QED BY <1>8, <1>9

(* Entering the loops reads nothing.                                       *)
LEMMA EnterLoopsFollows ==
  ASSUME Ready, EnterLoops
  PROVE  ReaderInv' /\ FollowedNext
<1> DEFINE i == IF Staged(in) < REFILL_BELOW THEN Filled(in) ELSE in
           addDoubles == dec.doubles_pending /\ Staged(i) >= DOUBLE_LITERAL_MIN_INPUT
<1>1. /\ StreamOK /\ ReaderFits(in) /\ in.over <= 8 /\ CallOK /\ DecoderOK
  BY ReadyFacts
<1>2. /\ AtRefill /\ UNCHANGED bufferVars /\ UNCHANGED hist
      /\ dec' = IF addDoubles
                  THEN [dec EXCEPT !.table.doubles = TRUE, !.doubles_pending = FALSE,
                                   !.litlen_doubles = TRUE]
                  ELSE dec
      /\ IF FastOk(i, write_pos)
           THEN /\ in' = RefilledFast(i)
                /\ call' = [call EXCEPT !.pc = "fast", !.chain = 0, !.start = RealStart]
           ELSE in' = i /\ ToPc("generic")
  BY DEF EnterLoops
<1>3. dec.state = "CompressedData" /\ dec.match = NoMatch /\ dec.lits = <<>>
  BY <1>2, NothingPending DEF AtRefill
<1>4. /\ ReaderFits(i) /\ BitPos(i) = BitPos(in) /\ i.over = in.over
  BY <1>1, FilledFits
<1>5. /\ dec'.state = dec.state /\ dec'.match = dec.match /\ dec'.lits = dec.lits
      /\ dec'.final = dec.final /\ dec'.table.code = dec.table.code
  BY <1>1, <1>2 DEF DecoderOK
<1> HIDE DEF i, addDoubles
<1>6. produced' = produced
  BY <1>2 DEF bufferVars
<1>7. /\ ReaderFits(in') /\ BitPos(in') = BitPos(in) /\ in'.over <= 8
      /\ call'.pc \in {"fast", "generic"}
  <2>1. CASE FastOk(i, write_pos)
    <3>1. Staged(i) >= 7
      <4>1. Staged(i) > FASTLOOP_MAX_BYTES_READ /\ Staged(i) \in Nat
        BY <1>4, <2>1, ReaderTypes DEF FastOk, ReaderFits
      <4>2. QED BY <4>1, StreamAssumption
    <3>2. in' = RefilledFast(i)
      BY <1>2, <2>1
    <3>3. call' = [call EXCEPT !.pc = "fast", !.chain = 0, !.start = RealStart]
      BY <1>2, <2>1
    <3>4. call'.pc = "fast"
      BY <1>1, <3>3 DEF CallOK
    <3>5. /\ ReaderFits(RefilledFast(i)) /\ BitPos(RefilledFast(i)) = BitPos(i)
          /\ RefilledFast(i).over = 0
      BY <1>1, <1>4, <3>1, RefilledFastFits
    <3>6. QED BY <1>4, <3>2, <3>4, <3>5
  <2>2. CASE ~FastOk(i, write_pos)
    <3>1. in' = i /\ ToPc("generic")
      BY <1>2, <2>2
    <3>2. QED BY <1>1, <1>4, <3>1, Leaving
  <2>3. QED BY <2>1, <2>2
<1>8. ASSUME NEW k \in 0 .. stream.held, Owes(dec, produced, D[k].out)
      PROVE  Owes(dec', produced', D[k].out)
  BY <1>5, <1>6, <1>8 DEF Owes
<1>9. QED BY <1>2, <1>3, <1>5, <1>7, <1>8, BlockGoes

(* Every failure of the source that loses nothing.                         *)
LEMMA QuietFailuresFollow ==
  ASSUME Ready, SourceFailsBeforeHandler \/ SourceFailsAtRefill \/ SourceFailsInGeneric
  PROVE  ReaderInv' /\ FollowedNext
<1>1. /\ SourceFails(in) /\ dec' = dec /\ UNCHANGED bufferVars
  BY DEF SourceFailsBeforeHandler, SourceFailsAtRefill, SourceFailsInGeneric
<1>2. dec.state \in {"WrapperHeader", "BlockHeader", "DynamicPrecodeLens",
                     "DynamicCodeLengths", "CompressedData"}
  BY DEF SourceFailsBeforeHandler, SourceFailsAtRefill, SourceFailsInGeneric, AtRefill, InBlock
<1>3. dec.state \notin {"UncompressedData", "WrapperFooter"}
  BY <1>2
<1>4. QED BY <1>1, <1>3, QuietFailureFollows
===============================================================================

---------------------------- MODULE DecodingProofs ----------------------------
(***************************************************************************)
(* StreamDecompressor decodes: what it produces is the beginning of what   *)
(* the stream means (OutputIsPrefix), a decoder that says it is done has   *)
(* decoded all of it (DoneIsRight), no stream that should be accepted is   *)
(* called corrupt (NoFalseError), and none whose decoding completes went   *)
(* over a limit (LimitsEnforced).                                          *)
(*                                                                         *)
(* Order: symbols in both loops; stored bytes; the footer; the rest of     *)
(* fill() and its caller; the theorems on decoding.                        *)
(* Then runs of blocks without output: how long they are, how far the      *)
(* counter of fill() may be behind (StallInv), every step again, and the   *)
(* theorem on the limits.                                                  *)
(***************************************************************************)
EXTENDS DecodingInvariant

-------------------------------------------------------------------------------
(* Symbols.                                                                *)

(* What both loops read a symbol from.                                     *)
AtSymbol(r) ==
  /\ dec.state = "CompressedData" /\ dec.match = NoMatch /\ dec.lits = <<>>
  /\ ReaderFits(r) /\ BitPos(r) = BitPos(in) /\ r.over <= 8

LEMMA SymbolCases ==
  ASSUME Ready, NEW r, AtSymbol(r), NEW t \in Read(r, Symbols, Phantoms.symbol)
  PROVE  /\ t \in Token /\ t.kind \in Symbols
         /\ \/ \E k : Genuine(r, Symbols, t, k)
            \/ Invented(r, Symbols, t, Phantoms.symbol) /\ ~Acceptable
<1>1. /\ dec.state = "CompressedData" /\ ReaderFits(r) /\ BitPos(r) = BitPos(in) /\ StreamOK
  BY ReadyFacts DEF AtSymbol
<1>2. \A k \in 0 .. stream.held : Tracks(k) => D[k].place = "symbol"
  BY <1>1 DEF Tracks, Expects
<1>3. t \in Token /\ t.kind \in Symbols
  BY <1>1, SymbolRead
<1>4. (\E k : Genuine(r, Symbols, t, k)) \/ Invented(r, Symbols, t, Phantoms.symbol)
  <2>1. \A u \in Token : PlaceOf(u) = "symbol" => u.kind \in Symbols
    BY SymbolKinds
  <2>2. \A u \in Phantoms.symbol : u \in Token
    BY PhantomsAreTokens
  <2>3. dec.state # "WrapperFooter" /\ "symbol" \in {"block", "precode", "lens", "symbol"}
    BY <1>1
  <2>4. QED BY <1>1, <1>2, <2>1, <2>2, <2>3, ReadCases
<1>5. Invented(r, Symbols, t, Phantoms.symbol) => ~Acceptable
  BY <1>2, InventedInside
<1>6. QED BY <1>3, <1>4, <1>5

(* The tokens from k + 1 to j continue the block.                          *)
Continues(k, j) ==
  /\ j \in 0 .. stream.held
  /\ Good(j) /\ D[j].final = D[k].final /\ D[j].place = "symbol"
  /\ \A type : BlockIs(k, type) => BlockIs(j, type)

LEMMA SymbolGenuine ==
  ASSUME Ready, NEW r, AtSymbol(r), NEW t \in Token, t.kind \in Symbols,
         NEW k, Genuine(r, Symbols, t, k)
  PROVE  /\ k \in 0 .. stream.held /\ k + 1 \in 0 .. stream.held /\ k \in Nat
         /\ Tracks(k) /\ Good(k) /\ ~hist.phantom /\ HasToken(r, Symbols)
         /\ D[k] \in Meaning /\ D[k].fault = FALSE /\ D[k + 1] = DecodeToken(D[k], t)
         /\ D[k].out = produced
         /\ TokenEnd(k) = BitPos(r) /\ TokenEnd(k + 1) = BitPos(r) + Width(t)
         /\ dec.final = D[k].final /\ D[k].place = "symbol" /\ BlockIs(k, dec.table.code)
         /\ \A type : BlockIs(k, type) => BlockIs(k + 1, type)
<1>1. t = stream.toks[k + 1] /\ Tracks(k) /\ ~hist.phantom /\ HasToken(r, Symbols)
  BY DEF Genuine
<1>2. t.kind \notin {"len", "footer", "block"}
  BY DEF Symbols
<1>3. /\ k \in 0 .. stream.held /\ k + 1 \in 0 .. stream.held /\ k \in Nat
      /\ ~D[k].fault /\ D[k] \in Meaning /\ D[k + 1] = DecodeToken(D[k], stream.toks[k + 1])
      /\ TokenEnd(k) = BitPos(r)
  BY GenuineFacts
<1>4. TokenEnd(k + 1) = BitPos(r) + Width(t)
  BY <1>2, GenuineEnds
<1>5. D[k + 1] = DecodeToken(D[k], t)
  BY <1>1, <1>3
<1>6. \A type : BlockIs(k, type) => BlockIs(k + 1, type)
  BY <1>1, <1>2, <1>3, BlockGoesOn
<1>7. D[k].out = produced
  BY <1>1, <1>3, OwesNothing DEF AtSymbol
<1>8. /\ dec.final = D[k].final /\ D[k].place = "symbol" /\ BlockIs(k, dec.table.code)
  BY <1>1 DEF AtSymbol, Tracks, Expects
<1>9. Good(k)
  BY <1>1 DEF Tracks
<1>10. D[k].fault = FALSE
  BY <1>9 DEF Good
<1>11. QED BY <1>1, <1>3, <1>4, <1>5, <1>6, <1>7, <1>8, <1>9, <1>10

(* A genuine literal or match continues the block.                         *)
LEMMA GenuineLiteral ==
  ASSUME Ready, NEW r, AtSymbol(r), NEW t \in Token, t.kind = "lit",
         NEW k, Genuine(r, Symbols, t, k)
  PROVE  Continues(k, k + 1) /\ D[k + 1].out = Append(produced, t.val)
<1>1. t.kind \in Symbols
  BY DEF Symbols
<1>2. /\ k + 1 \in 0 .. stream.held /\ Good(k)
      /\ D[k] \in Meaning /\ D[k].fault = FALSE /\ D[k + 1] = DecodeToken(D[k], t)
      /\ D[k].out = produced
      /\ \A type : BlockIs(k, type) => BlockIs(k + 1, type)
  BY <1>1, SymbolGenuine
<1>3. /\ D[k + 1].out = Append(D[k].out, t.val) /\ D[k + 1].final = D[k].final
      /\ D[k + 1].fault = FALSE /\ Same(D[k], D[k + 1])
      /\ D[k + 1].place = PlaceAfter(D[k], t)
  BY <1>2, LiteralMeans
<1>4. PlaceAfter(D[k], t) = "symbol"
  BY DEF PlaceAfter
<1>5. Good(k + 1)
  BY <1>2, <1>3, GoodNext
<1>6. QED BY <1>2, <1>3, <1>4, <1>5 DEF Continues

LEMMA GenuineMatch ==
  ASSUME Ready, NEW r, AtSymbol(r), NEW t \in Token, t.kind = "match",
         NEW k, Genuine(r, Symbols, t, k)
  PROVE  /\ k + 1 \in 0 .. stream.held
         /\ t.offset > Len(produced) => D[k + 1].fault = TRUE
         /\ t.offset <= Len(produced) =>
              Continues(k, k + 1) /\ D[k + 1].out = Copied(produced, t.offset, t.length)
<1>1. t.kind \in Symbols
  BY DEF Symbols
<1>2. /\ k + 1 \in 0 .. stream.held /\ Good(k)
      /\ D[k] \in Meaning /\ D[k].fault = FALSE /\ D[k + 1] = DecodeToken(D[k], t)
      /\ D[k].out = produced
      /\ \A type : BlockIs(k, type) => BlockIs(k + 1, type)
  BY <1>1, SymbolGenuine
<1>3. /\ t.offset > Len(D[k].out) => D[k + 1].fault = TRUE
      /\ t.offset <= Len(D[k].out) =>
           D[k + 1].fault = FALSE /\ D[k + 1].out = Copied(D[k].out, t.offset, t.length)
      /\ D[k + 1].final = D[k].final /\ Same(D[k], D[k + 1]) /\ D[k + 1].place = "symbol"
  BY <1>2, MatchMeans
<1>4. ASSUME t.offset <= Len(produced)
      PROVE  Good(k + 1)
  BY <1>2, <1>3, <1>4, GoodNext
<1>5. QED BY <1>2, <1>3, <1>4 DEF Continues

(* On in the block, with the tokens up to j read.                          *)
LEMMA SymbolAdvances ==
  ASSUME Ready, NEW r, AtSymbol(r), NEW t \in Token, t.kind \in Symbols,
         NEW k, Genuine(r, Symbols, t, k), NEW j, Continues(k, j),
         ReaderFits(in'), in'.over <= 8, BitPos(in') = TokenEnd(j),
         dec'.state = "CompressedData", dec'.final = dec.final,
         dec'.table.code = dec.table.code, Owes(dec', produced', D[j].out),
         NotePhantom(HasToken(r, Symbols)), call'.pc \notin {"idle", "codelens"}
  PROVE  ReaderInv' /\ FollowedNext
<1>1. /\ ~hist.phantom /\ HasToken(r, Symbols) /\ dec.final = D[k].final
      /\ BlockIs(k, dec.table.code)
  BY SymbolGenuine
<1>2. ~hist'.phantom
  BY <1>1, NotedPhantom, ReadyFacts
<1>3. j \in 0 .. stream.held /\ Good(j) /\ D[j].final = D[k].final /\ D[j].place = "symbol"
      /\ BlockIs(j, dec.table.code)
  BY <1>1 DEF Continues
<1>4. Expects(dec', in', j)
  BY <1>1, <1>3 DEF Expects
<1>5. TracksNext(j)
  BY <1>3, <1>4 DEF TracksNext, Placed
<1>6. ReaderInv'
  BY ReaderStaysFit
<1>7. FollowedNext
  BY <1>2, <1>3, <1>5, Advances
<1>8. QED BY <1>6, <1>7

(* A symbol was invented at r and n bits consumed for it.                  *)
LEMMA SymbolInvented ==
  ASSUME Ready, NEW r, AtSymbol(r), NEW t \in Token,
         Invented(r, Symbols, t, Phantoms.symbol), ~Acceptable,
         NEW n \in Nat, n <= r.left, n >= Width(t), in' = Consumed(r, n),
         NotePhantom(HasToken(r, Symbols)),
         dec'.state \in {"BlockHeader", "CompressedData"}
  PROVE  ReaderInv' /\ FollowedNext
<1>1. /\ ReaderFits(in') /\ BitPos(in') = BitPos(r) + n /\ in'.over = r.over
  BY ConsumedFits DEF AtSymbol
<1>2. hist'.phantom
  BY NotedPhantom, ReadyFacts DEF Invented
<1>3. BitPos(in') > 8 * stream.nbytes
  <2>1. BitPos(r) + Width(t) > 8 * stream.nbytes /\ Width(t) \in Nat
    BY TokenWidth DEF Invented
  <2>2. BitPos(r) \in Int /\ stream.nbytes \in Nat
    BY ReaderTypes, ReadyFacts DEF AtSymbol, ReaderFits, StreamOK
  <2>3. QED BY <1>1, <2>1, <2>2
<1>4. ReaderInv'
  BY <1>1, ReaderStaysFit DEF AtSymbol
<1>5. FollowedNext
  BY <1>2, <1>3, Invents
<1>6. QED BY <1>4, <1>5

LEMMA AppendOne ==
  ASSUME NEW s \in Seq(Byte), NEW a \in Byte
  PROVE  Append(s, a) \in Seq(Byte) /\ Append(s, a) = s \o <<a>>
<1> DEFINE v == <<a>>
           l == Len(s)
<1>1. v \in Seq(Byte) /\ Len(v) = 1 /\ v[1] = a
  OBVIOUS
<1> HIDE DEF v
<1>2. /\ s \o v \in Seq(Byte) /\ Len(s \o v) = l + 1
      /\ \A i \in 1 .. l + 1 : (s \o v)[i] = IF i <= l THEN s[i] ELSE v[i - l]
  BY <1>1, ConcatProperties
<1>3. /\ Append(s, a) \in Seq(Byte) /\ Len(Append(s, a)) = l + 1
      /\ \A i \in 1 .. l : Append(s, a)[i] = s[i]
      /\ Append(s, a)[l + 1] = a
  BY AppendProperties
<1>4. l \in Nat
  BY LenProperties
<1> DEFINE p == Append(s, a)
           q == s \o v
<1> HIDE DEF l, p, q
<1>5. ASSUME NEW i \in 1 .. l + 1
      PROVE  p[i] = q[i]
  <2>1. CASE i <= l
    <3>1. i \in 1 .. l
      BY <1>4, <2>1
    <3>2. QED BY <1>2, <1>3, <2>1, <3>1 DEF p, q
  <2>2. CASE ~(i <= l)
    <3>1. i = l + 1 /\ i - l = 1
      BY <1>4, <2>2
    <3>2. QED BY <1>1, <1>2, <1>3, <2>2, <3>1 DEF p, q
  <2>3. QED BY <2>1, <2>2
<1>6. p \in Seq(Byte) /\ q \in Seq(Byte) /\ Len(p) = l + 1 /\ Len(q) = l + 1
  BY <1>2, <1>3 DEF p, q
<1>7. p = q
  BY <1>5, <1>6, SeqEqual
<1>8. QED BY <1>6, <1>7 DEF p, q, v

LEMMA AppendTwo ==
  ASSUME NEW s \in Seq(Byte), NEW a \in Byte, NEW b \in Byte
  PROVE  Append(Append(s, a), b) = s \o <<a, b>>
<1>1. Append(s, a) \in Seq(Byte) /\ Append(s, a) = s \o <<a>>
  BY AppendOne
<1>2. Append(Append(s, a), b) = Append(s, a) \o <<b>>
  BY <1>1, AppendOne
<1>3. <<a>> \in Seq(Byte) /\ <<b>> \in Seq(Byte)
  OBVIOUS
<1>4. (s \o <<a>>) \o <<b>> = s \o (<<a>> \o <<b>>)
  BY <1>3, BytesConcat
<1>5. <<a>> \o <<b>> = <<a, b>>
  <2> DEFINE v == <<a>>
             w == <<b>>
             p == v \o w
             q == <<a, b>>
  <2>1. v \in Seq(Byte) /\ w \in Seq(Byte) /\ q \in Seq(Byte)
        /\ Len(v) = 1 /\ Len(w) = 1 /\ Len(q) = 2
        /\ v[1] = a /\ w[1] = b /\ q[1] = a /\ q[2] = b
    OBVIOUS
  <2> HIDE DEF v, w, q
  <2>2. /\ p \in Seq(Byte) /\ Len(p) = Len(v) + Len(w)
        /\ \A i \in 1 .. Len(v) + Len(w) : p[i] = IF i <= Len(v) THEN v[i] ELSE w[i - Len(v)]
    BY <2>1, ConcatProperties
  <2> HIDE DEF p
  <2>3. Len(p) = 2 /\ p[1] = a /\ p[2] = b
    <3>1. 1 \in 1 .. 1 + 1 /\ 2 \in 1 .. 1 + 1 /\ 1 <= 1 /\ ~(2 <= 1) /\ 2 - 1 = 1 /\ 1 + 1 = 2
      OBVIOUS
    <3>2. p[1] = v[1] /\ p[2] = w[2 - 1]
      BY <2>1, <2>2, <3>1
    <3>3. QED BY <2>1, <2>2, <3>1, <3>2
  <2>4. \A i \in 1 .. 2 : p[i] = q[i]
    <3>1. \A i \in 1 .. 2 : i = 1 \/ i = 2
      OBVIOUS
    <3>2. QED BY <2>1, <2>3, <3>1
  <2>5. p = q
    BY <2>1, <2>2, <2>3, <2>4, SeqEqual
  <2>6. QED BY <2>5 DEF p, q, v, w
<1>6. QED BY <1>1, <1>2, <1>4, <1>5

(* A second literal of an entry is the next token.                         *)
LEMMA SecondToken ==
  ASSUME Ready, NEW k \in 0 .. stream.held, k \in Nat, ~D[k].fault, D[k].place = "symbol",
         NEW i, BitPos(i) = TokenEnd(k), NEW u \in Tokens(i, {"lit"})
  PROVE  /\ k + 1 \in 0 .. stream.held
         /\ u \in Token /\ u.kind = "lit" /\ u = stream.toks[k + 1]
         /\ D[k] \in Meaning /\ D[k + 1] = DecodeToken(D[k], u)
         /\ TokenEnd(k + 1) = TokenEnd(k) + Width(u)
<1>1. Known /\ LaidOut /\ StreamOK /\ stream.held \in Nat
  BY ReadyFacts, TokenEnds
<1>2. k < stream.held
  <2>1. SUFFICES ASSUME k = stream.held PROVE FALSE
    BY <1>1
  <2>2. BitPos(i) \in Nat /\ BitPos(i) >= TokenEnd(stream.held)
    BY <1>1, <2>1, TokenEnds
  <2>3. Tokens(i, {"lit"}) = {}
    BY <1>1, <2>2, NoTokenHere
  <2>4. QED BY <2>3
<1> DEFINE v == stream.toks[k + 1]
<1>3. /\ k + 1 \in 0 .. stream.held
      /\ v \in Token /\ PlaceOf(v) = D[k].place
      /\ TokenEnd(k + 1) = stream.starts[k + 1] + Width(v)
      /\ v.kind \notin {"len", "footer"} => stream.starts[k + 1] = TokenEnd(k)
      /\ D[k] \in Meaning /\ D[k + 1] = DecodeToken(D[k], v)
  BY <1>1, <1>2, NextToken
<1>4. v.kind \in Symbols /\ v.kind \notin {"len", "footer"}
  <2>1. v.kind \in Symbols
    BY <1>3, SymbolKinds
  <2>2. QED BY <2>1 DEF Symbols
<1>5. BitPos(i) = stream.starts[k + 1]
  BY <1>3, <1>4
<1>6. Tokens(i, Symbols) = {v}
  BY <1>1, <1>2, <1>4, <1>5, TokenHere
<1>7. u \in Tokens(i, Symbols) /\ u.kind = "lit"
  <2>1. u \in TokensOf(stream, stream.nbytes, BitPos(i)) /\ u.kind \in {"lit"}
    BY DEF Tokens, TokensFor
  <2>2. u.kind \in Symbols
    BY <2>1 DEF Symbols
  <2>3. QED BY <2>1, <2>2 DEF Tokens, TokensFor
<1>8. u = v
  BY <1>6, <1>7
<1>9. QED BY <1>3, <1>4, <1>7, <1>8

LEMMA EntryCases ==
  ASSUME NEW i, NEW t, t.kind = "lit"
  PROVE  \/ Entry(i, t) = [vals |-> <<t.val>>, bits |-> t.bits]
         \/ /\ dec.table.doubles
            /\ \E u \in Tokens(Consumed(i, t.bits), {"lit"}) :
                 /\ t.bits + u.bits <= dec.table.bits
                 /\ Entry(i, t) = [vals |-> <<t.val, u.val>>, bits |-> t.bits + u.bits]
<1> DEFINE second == {u \in Tokens(Consumed(i, t.bits), {"lit"}) :
                        t.bits + u.bits <= dec.table.bits}
           v == CHOOSE u \in second : TRUE
<1>1. Entry(i, t) = IF dec.table.doubles /\ second # {}
                      THEN [vals |-> <<t.val, v.val>>, bits |-> t.bits + v.bits]
                      ELSE [vals |-> <<t.val>>, bits |-> t.bits]
  BY DEF Entry
<1>2. second # {} => v \in second
  OBVIOUS
<1>3. \A u \in second : u \in Tokens(Consumed(i, t.bits), {"lit"}) /\ t.bits + u.bits <= dec.table.bits
  OBVIOUS
<1> HIDE DEF second, v
<1>4. CASE dec.table.doubles /\ second # {}
  BY <1>1, <1>2, <1>3, <1>4
<1>5. CASE ~(dec.table.doubles /\ second # {})
  BY <1>1, <1>5
<1>6. QED BY <1>4, <1>5

(* The one or two literals of a table's entry are the next tokens.         *)
LEMMA EntryRead ==
  ASSUME Ready, NEW r, AtSymbol(r), NEW t \in Token, t.kind = "lit",
         NEW k, Genuine(r, Symbols, t, k)
  PROVE  \E j : /\ Continues(k, j)
                /\ TokenEnd(j) = BitPos(r) + Entry(r, t).bits
                /\ D[j].out = produced \o Entry(r, t).vals
<1>1. /\ Continues(k, k + 1) /\ D[k + 1].out = Append(produced, t.val)
      /\ t.kind \in Symbols
  BY GenuineLiteral DEF Symbols
<1>2. /\ TokenEnd(k + 1) = BitPos(r) + Width(t) /\ k \in Nat
      /\ k + 1 \in 0 .. stream.held
  BY <1>1, SymbolGenuine
<1>3. t.val \in Byte /\ t.bits \in Nat /\ Width(t) = t.bits /\ produced \in Seq(Byte)
  BY LitToken, TokenWidth, ReadyFacts, ProducedKnown
<1>4. CASE Entry(r, t) = [vals |-> <<t.val>>, bits |-> t.bits]
  <2>1. Entry(r, t).vals = <<t.val>> /\ Entry(r, t).bits = t.bits
    BY <1>4
  <2>2. Append(produced, t.val) = produced \o <<t.val>>
    BY <1>3, AppendOne
  <2>3. QED BY <1>1, <1>2, <1>3, <2>1, <2>2
<1>5. ASSUME NEW u \in Tokens(Consumed(r, t.bits), {"lit"}),
             Entry(r, t) = [vals |-> <<t.val, u.val>>, bits |-> t.bits + u.bits]
      PROVE  \E j : /\ Continues(k, j)
                    /\ TokenEnd(j) = BitPos(r) + Entry(r, t).bits
                    /\ D[j].out = produced \o Entry(r, t).vals
  <2> DEFINE i == Consumed(r, t.bits)
             j == k + 1
  <2>1. BitPos(i) = TokenEnd(j)
    <3>1. ReaderOK(r)
      BY DEF AtSymbol, ReaderFits
    <3>2. /\ ReaderOK(i) /\ i.pos = r.pos /\ i.left = r.left - t.bits /\ i.over = r.over
      <4>1. t.bits \in Int
        BY <1>3
      <4>2. QED BY <3>1, <4>1, ConsumedReader
    <3>3. BitPos(i) = BitPos(r) + t.bits
      BY <1>3, <3>1, <3>2 DEF BitPos, ReaderOK
    <3>4. QED BY <1>2, <1>3, <3>3
  <2>2. /\ Good(j) /\ D[j].final = D[k].final /\ D[j].place = "symbol"
        /\ \A type : BlockIs(k, type) => BlockIs(j, type)
    BY <1>1 DEF Continues
  <2>3. u \in Tokens(i, {"lit"}) /\ j \in Nat /\ ~D[j].fault /\ j \in 0 .. stream.held
    BY <1>2, <1>5, <2>2 DEF Good
  <2> HIDE DEF i, j
  <2>4. /\ j + 1 \in 0 .. stream.held
        /\ u \in Token /\ u.kind = "lit" /\ u = stream.toks[j + 1]
        /\ D[j] \in Meaning /\ D[j + 1] = DecodeToken(D[j], u)
        /\ TokenEnd(j + 1) = TokenEnd(j) + Width(u)
    BY <2>1, <2>2, <2>3, SecondToken
  <2>5. /\ D[j + 1].out = Append(D[j].out, u.val) /\ D[j + 1].final = D[j].final
        /\ D[j + 1].fault = FALSE /\ Same(D[j], D[j + 1])
        /\ D[j + 1].place = PlaceAfter(D[j], u)
    BY <2>3, <2>4, LiteralMeans
  <2>6. PlaceAfter(D[j], u) = "symbol"
    BY <2>4 DEF PlaceAfter
  <2>7. Good(j + 1)
    BY <2>2, <2>5, GoodNext
  <2>8. \A type : BlockIs(j, type) => BlockIs(j + 1, type)
    BY <2>3, <2>4, BlockGoesOn
  <2>9. Continues(k, j + 1)
    BY <2>2, <2>4, <2>5, <2>6, <2>7, <2>8 DEF Continues
  <2>10. Entry(r, t).vals = <<t.val, u.val>> /\ Entry(r, t).bits = t.bits + u.bits
    BY <1>5
  <2>11. u.val \in Byte /\ u.bits \in Nat /\ Width(u) = u.bits
    BY <2>4, LitToken, TokenWidth
  <2>12. TokenEnd(j + 1) = BitPos(r) + Entry(r, t).bits
    <3>1. TokenEnd(j) = BitPos(r) + t.bits
      BY <1>2, <1>3 DEF j
    <3>2. BitPos(r) \in Int
      BY ReaderTypes DEF AtSymbol, ReaderFits
    <3>3. QED BY <1>3, <2>4, <2>10, <2>11, <3>1, <3>2
  <2>13. D[j + 1].out = produced \o Entry(r, t).vals
    <3>1. D[j].out = Append(produced, t.val)
      BY <1>1 DEF j
    <3>2. QED BY <1>3, <2>5, <2>10, <2>11, <3>1, AppendTwo
  <2>14. QED BY <2>9, <2>12, <2>13
<1>6. QED BY <1>4, <1>5, EntryCases

-------------------------------------------------------------------------------
(* The generic loop.                                                       *)

LEMMA EntryBits ==
  ASSUME Ready, NEW i, NEW t \in Token, t.kind = "lit"
  PROVE  /\ Entry(i, t).bits \in Nat /\ t.bits <= Entry(i, t).bits
         /\ Entry(i, t).bits <= 15 \/ Entry(i, t).bits <= dec.table.bits
         /\ Entry(i, t).bits <= 18
         /\ Entry(i, t).vals \in Seq(Byte) /\ Len(Entry(i, t).vals) \in 1 .. 2
<1>1. StreamOK /\ DecoderOK
  BY ReadyFacts
<1>2. t.bits \in 1 .. 15
  BY LitToken
<1>3. dec.table.bits \in Nat /\ dec.table.bits <= 18
  <2>1. dec.table.bits \in 0 .. LITLEN_TABLEBITS
    BY <1>1 DEF DecoderOK
  <2>2. QED BY <2>1, StreamAssumption
<1>4. /\ Entry(i, t).vals \in Seq(Byte) /\ Len(Entry(i, t).vals) \in 1 .. 2
  BY <1>1, EntryFacts
<1>5. CASE Entry(i, t) = [vals |-> <<t.val>>, bits |-> t.bits]
  <2>1. Entry(i, t).bits = t.bits
    BY <1>5
  <2>2. QED BY <1>2, <1>4, <2>1
<1>6. ASSUME NEW u \in Tokens(Consumed(i, t.bits), {"lit"}),
             t.bits + u.bits <= dec.table.bits,
             Entry(i, t) = [vals |-> <<t.val, u.val>>, bits |-> t.bits + u.bits]
      PROVE  /\ Entry(i, t).bits \in Nat /\ t.bits <= Entry(i, t).bits
             /\ Entry(i, t).bits <= dec.table.bits
             /\ Entry(i, t).bits <= 18
  <2>1. Entry(i, t).bits = t.bits + u.bits
    BY <1>6
  <2>2. u.bits \in Nat
    BY <1>1, <1>6, TokensAreTokens, TokenWidth
  <2>3. QED BY <1>2, <1>3, <1>6, <2>1, <2>2
<1>7. QED BY <1>4, <1>5, <1>6, EntryCases

LEMMA GenericSymbol ==
  ASSUME Ready, GenericReady
  PROVE  AtSymbol(GenericReader) /\ GenericReader.left >= 56 /\ GenericReader.left \in Nat
<1>1. InBlock("generic") /\ ~Overrun(GenericReader)
  BY DEF GenericReady
<1>2. dec.state = "CompressedData" /\ dec.match = NoMatch /\ dec.lits = <<>>
  BY <1>1, NothingPending
<1>3. /\ ReaderFits(GenericReader) /\ BitPos(GenericReader) = BitPos(in)
      /\ GenericReader.left >= 56
  BY ReadyFacts, GenericReaderFits
<1>4. GenericReader.left \in Nat /\ GenericReader.over \in Int
  BY <1>3, ReaderTypes DEF ReaderFits
<1>5. GenericReader.over <= 8
  BY <1>1, <1>4 DEF Overrun
<1>6. QED BY <1>2, <1>3, <1>4, <1>5 DEF AtSymbol

(* The generic loop's literals: one or two, as many as there is room for.  *)
LEMMA GenericLiteralFollows ==
  ASSUME Ready, GenericLiteral
  PROVE  ReaderInv' /\ FollowedNext
<1> DEFINE r == GenericReader
<1>1. PICK t \in Read(r, Symbols, Phantoms.symbol) :
         /\ t.kind = "lit"
         /\ LET e == Entry(r, t)
                n == AtMost(Len(e.vals), OutputSpace)
            IN  /\ in' = Consumed(r, e.bits)
                /\ IF n = 0 THEN UNCHANGED bufferVars ELSE PutBytes(Cells(e.vals, n), n, 0)
                /\ dec' = [dec EXCEPT !.lits = SubSeq(e.vals, n + 1, Len(e.vals))]
                /\ IF n < Len(e.vals) THEN ToAccount ELSE StopIfFull(n)
  BY DEF GenericLiteral
<1>2. GenericReady /\ NotePhantom(HasToken(r, Symbols))
  BY DEF GenericLiteral
<1>3. AtSymbol(r) /\ r.left >= 56 /\ r.left \in Nat
  BY <1>2, GenericSymbol
<1>4. /\ WindowInv /\ DecoderOK /\ CallOK /\ OutputSpace \in Nat
      /\ call.pc = "generic" /\ dec.state = "CompressedData" /\ dec.match = NoMatch
  BY <1>2, <1>3, ReadyFacts, WindowFacts DEF GenericReady, InBlock, AtSymbol
<1> HIDE DEF r
<1>5. /\ t \in Token /\ t.kind \in Symbols
      /\ \/ \E k : Genuine(r, Symbols, t, k)
         \/ Invented(r, Symbols, t, Phantoms.symbol) /\ ~Acceptable
  BY <1>1, <1>3, SymbolCases
<1> DEFINE bits == Entry(r, t).bits
           vals == Entry(r, t).vals
           n == AtMost(Len(vals), OutputSpace)
<1>6. /\ bits \in Nat /\ t.bits <= bits /\ bits <= 18
      /\ vals \in Seq(Byte) /\ Len(vals) \in 1 .. 2
  BY <1>1, <1>5, EntryBits
<1>7. /\ in' = Consumed(r, bits)
      /\ IF n = 0 THEN UNCHANGED bufferVars ELSE PutBytes(Cells(vals, n), n, 0)
      /\ dec' = [dec EXCEPT !.lits = SubSeq(vals, n + 1, Len(vals))]
      /\ ToAccount \/ StopIfFull(n)
  BY <1>1
<1>8. n \in 0 .. Len(vals)
  BY <1>4, <1>6 DEF AtMost
<1> HIDE DEF bits, vals, n
<1>9. /\ dec'.state = "CompressedData" /\ dec'.match = NoMatch /\ dec'.final = dec.final
      /\ dec'.lits = SubSeq(vals, n + 1, Len(vals)) /\ dec'.table = dec.table
  BY <1>4, <1>7 DEF DecoderOK
<1>10. call'.pc \notin {"idle", "codelens"}
  BY <1>4, <1>7, AfterStop
<1>11. /\ ReaderFits(in') /\ BitPos(in') = BitPos(r) + bits /\ in'.over <= 8 /\ bits <= r.left
  <2>1. bits <= r.left
    BY <1>3, <1>6
  <2>2. QED BY <1>3, <1>6, <1>7, <2>1, ConsumedFits DEF AtSymbol
<1>12. ASSUME NEW k, Genuine(r, Symbols, t, k)
       PROVE  ReaderInv' /\ FollowedNext
  <2>1. PICK j : /\ Continues(k, j) /\ TokenEnd(j) = BitPos(r) + bits
                 /\ D[j].out = produced \o vals
    BY <1>1, <1>3, <1>5, <1>12, EntryRead DEF bits, vals
  <2>2. produced' \o SubSeq(vals, n + 1, Len(vals)) = produced \o vals
    BY <1>4, <1>6, <1>7, <1>8, LiteralsOwed
  <2>3. Owes(dec', produced', D[j].out)
    BY <1>9, <2>1, <2>2 DEF Owes
  <2>4. dec'.table.code = dec.table.code
    BY <1>9
  <2>5. BitPos(in') = TokenEnd(j)
    BY <1>11, <2>1
  <2>6. QED BY <1>2, <1>3, <1>5, <1>9, <1>10, <1>11, <1>12, <2>1, <2>3, <2>4, <2>5, SymbolAdvances
<1>13. ASSUME Invented(r, Symbols, t, Phantoms.symbol), ~Acceptable
       PROVE  ReaderInv' /\ FollowedNext
  <2>1. bits >= Width(t)
    BY <1>1, <1>5, <1>6, TokenWidth
  <2>2. dec'.state \in {"BlockHeader", "CompressedData"}
    BY <1>9
  <2>3. QED BY <1>2, <1>3, <1>5, <1>6, <1>7, <1>11, <1>13, <2>1, <2>2, SymbolInvented
<1>14. QED BY <1>5, <1>12, <1>13

(* What is left of a match waits in the decoder.                           *)
LEMMA MatchOwed ==
  ASSUME produced \in Seq(Byte), NEW offset \in 1 .. Len(produced),
         NEW length \in Nat, NEW n \in Nat, n <= length,
         produced' = Copied(produced, offset, n),
         \/ n < length /\ dec'.match = [offset |-> offset, length |-> length - n]
         \/ ~(n < length) /\ dec'.match = NoMatch,
         dec'.lits = <<>>
  PROVE  Owes(dec', produced', Copied(produced, offset, length))
<1>1. Copied(produced', offset, length - n) = Copied(produced, offset, length)
  <2>1. length - n \in Nat /\ n + (length - n) = length
    OBVIOUS
  <2>2. Copied(Copied(produced, offset, n), offset, length - n)
          = Copied(produced, offset, n + (length - n))
    BY <2>1, CopiedComposes
  <2>3. QED BY <2>1, <2>2
<1>2. CASE n < length
  <2>1. dec'.match = [offset |-> offset, length |-> length - n]
    BY <1>2
  <2>2. dec'.match.offset = offset /\ dec'.match.length = length - n
    BY <2>1
  <2>3. offset # 0
    <3>1. Len(produced) \in Nat
      BY LenProperties
    <3>2. QED BY <3>1
  <2>4. dec'.match # NoMatch
    BY <2>2, <2>3 DEF NoMatch
  <2>5. QED BY <1>1, <2>2, <2>4 DEF Owes
<1>3. CASE ~(n < length)
  <2>1. n = length /\ dec'.match = NoMatch
    BY <1>3
  <2>2. produced' = Copied(produced, offset, length)
    BY <2>1
  <2>3. produced' \in Seq(Byte)
    BY CopiedFacts
  <2>4. produced' \o <<>> = produced'
    BY <2>3, ConcatEmptySeq
  <2>5. QED BY <2>1, <2>2, <2>4 DEF Owes
<1>4. QED BY <1>2, <1>3

(* lookback_valid allows exactly what reaches into the output.             *)
LEMMA LookbackDecides ==
  ASSUME WindowInv, NEW offset \in 1 .. LOOKBACK_SIZE
  PROVE  offset > lookback_valid <=> offset > Len(produced)
<1>1. /\ Len(produced) \in Nat /\ lookback_valid = AtMost(Len(produced), LOOKBACK_SIZE)
  BY ProducedKnown
<1>2. LOOKBACK_SIZE \in Nat
  BY BufferAssumption
<1>3. QED BY <1>1, <1>2 DEF AtMost

(* A match is refused: it reaches before the stream's start.               *)
LEMMA MatchRefused ==
  ASSUME Ready, NEW r, AtSymbol(r), NEW t \in Token, t.kind = "match",
         NEW k, Genuine(r, Symbols, t, k), t.offset > Len(produced),
         ReaderFits(in'), BitPos(in') = BitPos(r) + Width(t), in'.over <= 8,
         UNCHANGED bufferVars, UNCHANGED dec, Fail("BadData"),
         NotePhantom(HasToken(r, Symbols))
  PROVE  ReaderInv' /\ FollowedNext
<1>1. t.kind \in Symbols
  BY DEF Symbols
<1>2. /\ k \in 0 .. stream.held /\ k + 1 \in 0 .. stream.held /\ ~hist.phantom
      /\ HasToken(r, Symbols) /\ D[k].out = produced
      /\ TokenEnd(k + 1) = BitPos(r) + Width(t)
      /\ BlockIs(k, dec.table.code) /\ \A type : BlockIs(k, type) => BlockIs(k + 1, type)
  BY <1>1, SymbolGenuine
<1>3. ~Acceptable
  <2>1. D[k + 1].fault
    BY GenuineMatch
  <2>2. QED BY <1>2, <2>1, FaultyStream, ReadyFacts
<1>4. Leads(D[k].out, D[k + 1].out)
  BY GenuineFacts
<1>5. ~hist'.phantom
  BY <1>2, NotedPhantom, ReadyFacts
<1>6. FollowsNext(k + 1)
  <2>1. produced' = produced
    BY DEF bufferVars
  <2>2. QED BY <1>2, <1>4, <2>1 DEF FollowsNext
<1>7. call'.pc = "idle" /\ call'.result = "BadData"
  BY Leaving, ReadyFacts
<1>8. dec'.state = "CompressedData"
  BY DEF AtSymbol
<1>9. FollowedNext
  BY <1>2, <1>3, <1>5, <1>6, <1>7, <1>8, Faults
<1>10. ReaderInv'
  BY <1>8, ReaderStaysFit
<1>11. QED BY <1>9, <1>10

(* The generic loop's match: what has no room waits.                       *)
LEMMA GenericMatchFollows ==
  ASSUME Ready, GenericMatch
  PROVE  ReaderInv' /\ FollowedNext
<1> DEFINE r == GenericReader
<1>1. PICK t \in Read(r, Symbols, Phantoms.symbol) :
         /\ t.kind = "match"
         /\ in' = Consumed(r, t.bits + t.obits)
         /\ LET n == AtMost(t.length, OutputSpace) IN
              IF t.offset > lookback_valid
                THEN Fail("BadData") /\ UNCHANGED <<bufferVars, dec>>
                ELSE /\ IF n = 0 THEN UNCHANGED bufferVars ELSE WriteMatch(t.offset, n, 0)
                     /\ dec' = IF n < t.length
                                 THEN [dec EXCEPT !.match = [offset |-> t.offset,
                                                             length |-> t.length - n]]
                                 ELSE dec
                     /\ IF n < t.length THEN ToAccount ELSE StopIfFull(n)
  BY DEF GenericMatch
<1>2. GenericReady /\ NotePhantom(HasToken(r, Symbols))
  BY DEF GenericMatch
<1>3. AtSymbol(r) /\ r.left >= 56 /\ r.left \in Nat
  BY <1>2, GenericSymbol
<1>4. /\ WindowInv /\ DecoderOK /\ CallOK /\ OutputSpace \in Nat
      /\ call.pc = "generic" /\ dec.state = "CompressedData"
      /\ dec.match = NoMatch /\ dec.lits = <<>>
  BY <1>2, <1>3, ReadyFacts, WindowFacts DEF GenericReady, InBlock, AtSymbol
<1> HIDE DEF r
<1>5. /\ t \in Token /\ t.kind \in Symbols
      /\ \/ \E k : Genuine(r, Symbols, t, k)
         \/ Invented(r, Symbols, t, Phantoms.symbol) /\ ~Acceptable
  BY <1>1, <1>3, SymbolCases
<1>6. /\ t.offset \in 1 .. LOOKBACK_SIZE /\ t.length \in Nat
      /\ t.bits \in 1 .. 20 /\ t.obits \in 0 .. 28 /\ Width(t) = t.bits + t.obits
  BY <1>1, <1>5, MatchToken, StreamAssumption DEF Width
<1> DEFINE bits == t.bits + t.obits
           n == AtMost(t.length, OutputSpace)
<1>7. bits \in Nat /\ bits <= 48 /\ bits = Width(t) /\ bits <= r.left
  BY <1>3, <1>6
<1>8. n \in Nat /\ n <= t.length
  BY <1>4, <1>6 DEF AtMost
<1>9. in' = Consumed(r, bits)
  BY <1>1
<1>10. \/ t.offset > lookback_valid /\ Fail("BadData") /\ UNCHANGED <<bufferVars, dec>>
       \/ /\ ~(t.offset > lookback_valid)
          /\ IF n = 0 THEN UNCHANGED bufferVars ELSE WriteMatch(t.offset, n, 0)
          /\ dec' = IF n < t.length
                      THEN [dec EXCEPT !.match = [offset |-> t.offset,
                                                  length |-> t.length - n]]
                      ELSE dec
          /\ ToAccount \/ StopIfFull(n)
  BY <1>1
<1> HIDE DEF bits, n
<1>11. /\ ReaderFits(in') /\ BitPos(in') = BitPos(r) + bits /\ in'.over <= 8
  BY <1>3, <1>7, <1>9, ConsumedFits DEF AtSymbol
<1>12. dec'.state = "CompressedData" /\ dec'.final = dec.final /\ dec'.table = dec.table
       /\ dec'.lits = <<>>
  <2>1. CASE UNCHANGED dec
    BY <1>4, <2>1
  <2>2. CASE dec' = [dec EXCEPT !.match = [offset |-> t.offset, length |-> t.length - n]]
    BY <1>4, <2>2 DEF DecoderOK
  <2>3. QED BY <1>10, <2>1, <2>2
<1>13. ASSUME Invented(r, Symbols, t, Phantoms.symbol), ~Acceptable
       PROVE  ReaderInv' /\ FollowedNext
  <2>1. bits >= Width(t)
    BY <1>7
  <2>2. dec'.state \in {"BlockHeader", "CompressedData"}
    BY <1>12
  <2>3. QED BY <1>2, <1>3, <1>5, <1>7, <1>9, <1>13, <2>1, <2>2, SymbolInvented
<1>14. ASSUME NEW k, Genuine(r, Symbols, t, k)
       PROVE  ReaderInv' /\ FollowedNext
  <2>1. t.offset > lookback_valid <=> t.offset > Len(produced)
    BY <1>4, <1>6, LookbackDecides
  <2>2. CASE t.offset > lookback_valid
    <3>1. Fail("BadData") /\ UNCHANGED bufferVars /\ UNCHANGED dec
      BY <1>10, <2>2
    <3>2. BitPos(in') = BitPos(r) + Width(t)
      BY <1>7, <1>11
    <3>3. QED BY <1>1, <1>2, <1>3, <1>5, <1>11, <1>14, <2>1, <2>2, <3>1, <3>2, MatchRefused
  <2>3. CASE ~(t.offset > lookback_valid)
    <3>1. /\ IF n = 0 THEN UNCHANGED bufferVars ELSE WriteMatch(t.offset, n, 0)
          /\ dec' = IF n < t.length
                      THEN [dec EXCEPT !.match = [offset |-> t.offset,
                                                  length |-> t.length - n]]
                      ELSE dec
          /\ ToAccount \/ StopIfFull(n)
      BY <1>10, <2>3
    <3>2. produced \in Seq(Byte) /\ t.offset \in 1 .. Len(produced)
      <4>1. produced \in Seq(Byte) /\ Len(produced) \in Nat
        BY <1>4, ProducedKnown
      <4>2. QED BY <1>6, <2>1, <2>3, <4>1
    <3>3. produced' = Copied(produced, t.offset, n)
      BY <1>4, <1>8, <3>1, <3>2, MatchProduces
    <3>4. \/ n < t.length /\ dec'.match = [offset |-> t.offset, length |-> t.length - n]
          \/ ~(n < t.length) /\ dec'.match = NoMatch
      BY <1>4, <3>1 DEF DecoderOK
    <3>5. Owes(dec', produced', Copied(produced, t.offset, t.length))
      BY <1>6, <1>8, <1>12, <3>2, <3>3, <3>4, MatchOwed
    <3>6. /\ Continues(k, k + 1) /\ D[k + 1].out = Copied(produced, t.offset, t.length)
      <4>1. t.offset <= Len(produced)
        BY <3>2
      <4>2. QED BY <1>1, <1>3, <1>5, <1>14, <4>1, GenuineMatch
    <3>7. BitPos(in') = TokenEnd(k + 1)
      <4>1. TokenEnd(k + 1) = BitPos(r) + Width(t)
        BY <1>3, <1>5, <1>14, SymbolGenuine
      <4>2. QED BY <1>7, <1>11, <4>1
    <3>8. call'.pc \notin {"idle", "codelens"}
      BY <1>4, <3>1, AfterStop
    <3>9. Owes(dec', produced', D[k + 1].out)
      BY <3>5, <3>6
    <3>10. dec'.table.code = dec.table.code
      BY <1>12
    <3>11. QED BY <1>2, <1>3, <1>5, <1>11, <1>12, <1>14, <3>6, <3>7, <3>8, <3>9, <3>10, SymbolAdvances
  <2>4. QED BY <2>2, <2>3
<1>15. QED BY <1>5, <1>13, <1>14

-------------------------------------------------------------------------------
(* The end of a block.                                                     *)

(* A raw stream ends with its final block.                                 *)
LEMMA RawStreamEnds ==
  ASSUME Known, wrapper = "raw", NEW j \in 0 .. stream.held, Good(j),
         D[j].place = "footer", D[j].final = TRUE
  PROVE  Acceptable /\ D[j].out = stream.means.out /\ stream.means.final = TRUE
<1>1. /\ stream.held \in Nat /\ stream.held <= Size /\ Size \in Nat /\ LaidOut /\ Suited
      /\ j \in 0 .. Size
  BY TokenEnds DEF Known
<1>2. ~D[j].fault
  BY DEF Good
<1>3. j = Size
  <2>1. SUFFICES ASSUME j < Size PROVE FALSE
    BY <1>1
  <2>2. j + 1 \in 1 .. Size /\ (j + 1) - 1 = j
    BY <1>1, <2>1
  <2>3. PlaceOf(stream.toks[j + 1]) = "footer"
    BY <1>1, <1>2, <2>2 DEF Suited
  <2>4. stream.toks[j + 1].kind = "footer"
    BY <2>3 DEF PlaceOf
  <2>5. QED BY <1>1, <2>2, <2>4 DEF Suited
<1>4. stream.held = Size /\ j = stream.held
  BY <1>1, <1>3
<1>5. /\ stream.means.out = D[j].out /\ stream.means.sum_ok = D[j].sum_ok
      /\ stream.means.fault <=> (D[j].fault \/ stream.held # Size)
      /\ stream.means.final <=> (stream.held = Size /\ D[j].final)
  BY <1>4, StreamMeans DEF Known
<1>6. stream.means.final \in BOOLEAN
  <2>1. stream.means = [out |-> D[stream.held].out, sum_ok |-> D[stream.held].sum_ok,
                        size_ok |-> D[stream.held].size_ok,
                        fault |-> D[stream.held].fault \/ ~(stream.held = Size),
                        final |-> (stream.held = Size) /\ D[stream.held].final,
                        segment |-> (stream.held = Size) /\ ~D[stream.held].final
                                      /\ stream.starts[Size + 1] = 8 * stream.nbytes]
    BY DEF Known, Meant
  <2>2. stream.means.final = (stream.held = Size /\ D[stream.held].final)
    BY <2>1
  <2>3. QED BY <2>2
<1>7. stream.means.final = TRUE
  BY <1>4, <1>5, <1>6
<1>8. FooterAccepted
  <2>1. stream.means.sum_ok
    BY <1>5 DEF Good
  <2>2. checksum_policy \in ChecksumPolicy
    BY <1>1 DEF Suited
  <2>3. QED BY <2>1, <2>2 DEF FooterAccepted, FooterAgrees, ChecksumPolicy
<1>9. ~stream.means.fault
  BY <1>2, <1>4, <1>5
<1>10. QED BY <1>5, <1>7, <1>8, <1>9 DEF Acceptable

(* finish_block after the last token of a block.                           *)
LEMMA BlockFinishes ==
  ASSUME Ready, ~hist'.phantom, NEW j \in 0 .. stream.held, Good(j),
         D[j].place = AfterBlock(D[j].final), dec.final = D[j].final,
         dec.match = NoMatch, dec.lits = <<>>,
         produced' = D[j].out, ReaderFits(in'), BitPos(in') = TokenEnd(j),
         FinishBlock(in'), UNCHANGED done
  PROVE  ReaderInv' /\ FollowedNext
<1>0. /\ Known /\ LaidOut /\ StreamOK /\ DecoderOK /\ CallOK /\ CallFits /\ Going
  BY ReadyFacts DEF Ready
<1>1. BitPos(in') <= 8 * stream.nbytes
  BY <1>0, TokenEnds
<1>2. in'.over <= 7 /\ in'.over <= in'.left \div 8
  BY <1>0, <1>1, WithinStream
<1>3. in'.over \in Int /\ in'.left \in Int /\ in'.left \div 8 \in Int
  <2>1. in'.over \in Int /\ in'.left \in Int
    BY ReaderTypes DEF ReaderFits
  <2>2. QED BY <2>1
<1>4. ~(in'.over > in'.left \div 8) /\ in'.over <= 8
  BY <1>2, <1>3
<1>5. Finished(in') = IF ~dec.final THEN "BlockHeader"
                      ELSE IF wrapper = "raw" THEN "Done" ELSE "WrapperFooter"
  BY <1>4 DEF Finished
<1>6. ToAccount /\ dec' = [dec EXCEPT !.state = Finished(in'), !.remaining = 0]
  BY <1>5 DEF FinishBlock
<1>7. /\ dec'.state = Finished(in') /\ dec'.final = dec.final /\ dec'.match = NoMatch
      /\ dec'.lits = <<>>
  BY <1>0, <1>6 DEF DecoderOK
<1>8. call'.pc = "account"
  BY <1>0, <1>6, Leaving
<1>9. ReaderInv'
  <2>1. dec'.state # "UncompressedData"
    BY <1>5, <1>7
  <2>2. QED BY <1>2, <1>4, <2>1, ReaderStaysFit
<1>10. produced' \in Seq(Byte) /\ Leads(produced', D[j].out)
  BY <1>0, OutLeads, LeadsReflexive
<1>11. Owes(dec', produced', D[j].out)
  BY <1>7, <1>10, ConcatEmptySeq DEF Owes
<1>12. D[j].final \in BOOLEAN
  <2>1. j \in 0 .. Size
    BY <1>0, TokenEnds
  <2>2. D[j] \in Meaning
    BY <1>0, <2>1 DEF Meant, Known
  <2>3. QED BY <2>2 DEF Meaning
<1>13. CASE ~dec.final
  <2>1. dec'.state = "BlockHeader" /\ D[j].place = "block" /\ dec'.final = FALSE
    BY <1>5, <1>7, <1>12, <1>13 DEF AfterBlock
  <2>2. Expects(dec', in', j)
    BY <1>7, <2>1 DEF Expects
  <2>3. TracksNext(j)
    BY <1>8, <1>11, <2>2 DEF TracksNext, Placed
  <2>4. FollowedNext
    BY <1>8, <2>1, <2>3, Advances
  <2>5. QED BY <1>9, <2>4
<1>14. CASE dec.final /\ wrapper # "raw"
  <2>1. dec'.state = "WrapperFooter" /\ D[j].place = "footer"
    BY <1>5, <1>7, <1>12, <1>14 DEF AfterBlock
  <2>2. Expects(dec', in', j)
    BY <1>7, <1>14, <2>1 DEF Expects
  <2>3. TracksNext(j)
    BY <1>8, <1>11, <2>2 DEF TracksNext, Placed
  <2>4. FollowedNext
    BY <1>8, <2>1, <2>3, Advances
  <2>5. QED BY <1>9, <2>4
<1>15. CASE dec.final /\ wrapper = "raw"
  <2>1. dec'.state = "Done" /\ D[j].place = "footer" /\ D[j].final = TRUE
    BY <1>5, <1>7, <1>12, <1>15 DEF AfterBlock
  <2>2. Acceptable /\ D[j].out = stream.means.out /\ stream.means.final = TRUE
    BY <1>0, <1>15, <2>1, RawStreamEnds
  <2>3. FollowsNext(j)
    BY <1>10, <2>1 DEF FollowsNext
  <2>4. done'.segment = ~stream.means.final /\ done'.matched = None
    BY <1>0, <2>2 DEF CallFits
  <2>5. FollowedNext
    BY <1>8, <2>1, <2>2, <2>3, <2>4, Completes
  <2>6. QED BY <1>9, <2>5
<1>16. QED BY <1>13, <1>14, <1>15

(* The end-of-block symbol, in either loop.                                *)
LEMMA EndOfBlockFollows ==
  ASSUME Ready, NEW r, AtSymbol(r), NEW t \in Read(r, Symbols, Phantoms.symbol),
         t.kind = "eob", r.left \in Nat, r.left >= 15,
         in' = Consumed(r, t.bits), FinishBlock(in'),
         NotePhantom(HasToken(r, Symbols)), UNCHANGED bufferVars, UNCHANGED done
  PROVE  ReaderInv' /\ FollowedNext
<1>1. /\ t \in Token /\ t.kind \in Symbols
      /\ \/ \E k : Genuine(r, Symbols, t, k)
         \/ Invented(r, Symbols, t, Phantoms.symbol) /\ ~Acceptable
  BY SymbolCases
<1>2. t.bits \in 1 .. 15 /\ Width(t) = t.bits
  BY <1>1, EobToken, TokenWidth
<1>3. t.bits \in Nat /\ t.bits <= r.left /\ t.bits >= Width(t)
  BY <1>2
<1>4. ReaderFits(in') /\ BitPos(in') = BitPos(r) + t.bits /\ in'.over = r.over
  BY <1>3, ConsumedFits DEF AtSymbol
<1>5. ASSUME NEW k, Genuine(r, Symbols, t, k)
      PROVE  ReaderInv' /\ FollowedNext
  <2>1. /\ k + 1 \in 0 .. stream.held /\ Good(k) /\ ~hist.phantom /\ HasToken(r, Symbols)
        /\ D[k] \in Meaning /\ D[k].fault = FALSE /\ D[k + 1] = DecodeToken(D[k], t)
        /\ D[k].out = produced /\ TokenEnd(k + 1) = BitPos(r) + Width(t)
        /\ dec.final = D[k].final
    BY <1>1, <1>5, SymbolGenuine
  <2>2. /\ D[k + 1].out = D[k].out /\ D[k + 1].final = D[k].final /\ D[k + 1].fault = FALSE
        /\ Same(D[k], D[k + 1]) /\ D[k + 1].place = AfterBlock(D[k].final)
    BY <1>1, <2>1, EndOfBlockMeans
  <2>3. Good(k + 1)
    BY <2>1, <2>2, GoodNext
  <2>4. ~hist'.phantom
    BY <2>1, NotedPhantom, ReadyFacts
  <2>5. produced' = D[k + 1].out
    BY <2>1, <2>2 DEF bufferVars
  <2>6. BitPos(in') = TokenEnd(k + 1)
    BY <1>2, <1>4, <2>1
  <2>7. dec.match = NoMatch /\ dec.lits = <<>>
    BY DEF AtSymbol
  <2>8. D[k + 1].place = AfterBlock(D[k + 1].final) /\ dec.final = D[k + 1].final
    BY <2>1, <2>2
  <2>9. QED BY <1>4, <2>1, <2>3, <2>4, <2>5, <2>6, <2>7, <2>8, BlockFinishes
<1>6. ASSUME Invented(r, Symbols, t, Phantoms.symbol), ~Acceptable
      PROVE  ReaderInv' /\ FollowedNext
  <2>1. BitPos(in') > 8 * stream.nbytes
    BY <1>2, <1>4, <1>6 DEF Invented
  <2>2. in'.over > in'.left \div 8
    BY <1>4, <2>1, BeyondStream, ReadyFacts
  <2>3. Finished(in') = IF ~dec.final THEN "BlockHeader" ELSE "BadData"
    BY <2>2 DEF Finished
  <2>4. dec'.state \in {"BlockHeader", "CompressedData"}
    <3>1. CASE ~dec.final
      <4>1. dec' = [dec EXCEPT !.state = "BlockHeader", !.remaining = 0]
        BY <2>3, <3>1 DEF FinishBlock
      <4>2. QED BY <4>1, ReadyFacts DEF DecoderOK
    <3>2. CASE dec.final
      <4>1. UNCHANGED dec
        BY <2>3, <3>2 DEF FinishBlock
      <4>2. QED BY <4>1 DEF AtSymbol
    <3>3. QED BY <3>1, <3>2
  <2>5. QED BY <1>1, <1>3, <1>6, <2>4, SymbolInvented
<1>7. QED BY <1>1, <1>5, <1>6

LEMMA GenericEndOfBlockFollows ==
  ASSUME Ready, GenericEndOfBlock
  PROVE  ReaderInv' /\ FollowedNext
<1>1. PICK t \in Read(GenericReader, Symbols, Phantoms.symbol) :
         t.kind = "eob" /\ in' = Consumed(GenericReader, t.bits) /\ FinishBlock(in')
  BY DEF GenericEndOfBlock
<1>2. /\ GenericReady /\ NotePhantom(HasToken(GenericReader, Symbols))
      /\ UNCHANGED bufferVars /\ UNCHANGED done
  BY DEF GenericEndOfBlock
<1>3. AtSymbol(GenericReader) /\ GenericReader.left >= 56 /\ GenericReader.left \in Nat
  BY <1>2, GenericSymbol
<1>4. GenericReader.left >= 15
  BY <1>3
<1>5. QED BY <1>1, <1>2, <1>3, <1>4, EndOfBlockFollows

-------------------------------------------------------------------------------
(* The fastloop.                                                           *)

LEMMA FastSymbol ==
  ASSUME Ready, InBlock("fast")
  PROVE  /\ AtSymbol(in) /\ in.left \in Nat /\ in.left >= 20 /\ in.over = 0
         /\ Staged(in) >= 15 /\ Staged(in) \in Nat
         /\ BitPos(in) + 48 <= 8 * stream.nbytes
         /\ dec.table.bits \in Nat /\ dec.table.bits <= 18
<1>1. /\ WindowInv /\ DecoderInv /\ StreamOK /\ DecoderOK /\ CallOK /\ ReaderFits(in) /\ in.over <= 8
  BY ReadyFacts
<1>2. dec.state = "CompressedData" /\ dec.match = NoMatch /\ dec.lits = <<>>
  BY NothingPending
<1>3. call.pc = "fast"
  BY DEF InBlock
<1>4. Staged(in) >= 15 /\ Staged(in) \in Nat
  BY <1>1, <1>3, TurnHasRoom, ReaderTypes DEF ReaderFits
<1>5. dec.table.bits \in Nat /\ dec.table.bits <= 18
  <2>1. dec.table.bits \in 0 .. LITLEN_TABLEBITS
    BY <1>1 DEF DecoderOK
  <2>2. QED BY <2>1, StreamAssumption
<1>6. in.left >= 56 - call.chain * dec.table.bits
  BY <1>1, <1>3 DEF DecoderInv, TurnHolds
<1>7. /\ in.left \in Int /\ in.pos \in Nat /\ in.end \in Nat /\ in.over \in Int
      /\ BitPos(in) = 8 * (in.pos + in.over) - in.left /\ Staged(in) = in.end - in.pos
  BY <1>1, ReaderTypes DEF ReaderFits
<1>8. in.left >= 20
  <2>1. call.chain = 0 \/ call.chain = 1 \/ call.chain = 2
    BY <1>1 DEF CallOK
  <2> DEFINE b == dec.table.bits
  <2>2. b \in Nat /\ b <= 18
    BY <1>5
  <2> HIDE DEF b
  <2>3. in.left >= 56 - call.chain * b
    BY <1>6 DEF b
  <2>4. CASE call.chain = 0
    <3>1. in.left >= 56 - 0 * b
      BY <2>3, <2>4
    <3>2. QED BY <1>7, <2>2, <3>1
  <2>5. CASE call.chain = 1
    <3>1. in.left >= 56 - 1 * b
      BY <2>3, <2>5
    <3>2. QED BY <1>7, <2>2, <3>1
  <2>6. CASE call.chain = 2
    <3>1. in.left >= 56 - 2 * b
      BY <2>3, <2>6
    <3>2. QED BY <1>7, <2>2, <3>1
  <2>7. QED BY <2>1, <2>4, <2>5, <2>6
<1>9. in.end <= stream.nbytes /\ stream.nbytes \in Nat /\ (in.over > 0 => in.pos = stream.nbytes)
      /\ in.over >= 0
  BY <1>1 DEF ReaderFits, StreamOK
<1>10. in.over = 0
  BY <1>4, <1>7, <1>9
<1>11. BitPos(in) + 48 <= 8 * stream.nbytes
  BY <1>4, <1>7, <1>8, <1>9, <1>10
<1>12. AtSymbol(in)
  BY <1>1, <1>2 DEF AtSymbol
<1>13. in.left \in Nat
  BY <1>7, <1>8
<1>14. QED BY <1>4, <1>5, <1>8, <1>10, <1>11, <1>12, <1>13

LEMMA SymbolWidths ==
  ASSUME NEW t \in Token, t.kind \in Symbols
  PROVE  Width(t) \in Nat /\ Width(t) <= 48
<1>1. CASE t.kind = "match"
  BY <1>1, MatchToken DEF Width
<1>2. CASE t.kind = "lit"
  BY <1>2, LitToken, TokenWidth
<1>3. CASE t.kind = "eob"
  BY <1>3, EobToken, TokenWidth
<1>4. QED BY <1>1, <1>2, <1>3 DEF Symbols

(* Far from the stream's end nothing is invented.                          *)
LEMMA FastIsGenuine ==
  ASSUME Ready, InBlock("fast"), NEW t \in Read(in, Symbols, Phantoms.symbol)
  PROVE  t \in Token /\ t.kind \in Symbols /\ \E k : Genuine(in, Symbols, t, k)
<1>1. AtSymbol(in) /\ BitPos(in) + 48 <= 8 * stream.nbytes
  BY FastSymbol
<1>2. /\ t \in Token /\ t.kind \in Symbols
      /\ \/ \E k : Genuine(in, Symbols, t, k)
         \/ Invented(in, Symbols, t, Phantoms.symbol) /\ ~Acceptable
  BY <1>1, SymbolCases
<1>3. ~Invented(in, Symbols, t, Phantoms.symbol)
  <2>1. SUFFICES ASSUME BitPos(in) + Width(t) > 8 * stream.nbytes PROVE FALSE
    BY DEF Invented
  <2>2. Width(t) \in Nat /\ Width(t) <= 48
    BY <1>2, SymbolWidths
  <2>3. BitPos(in) \in Int /\ stream.nbytes \in Nat
    BY <1>1, ReaderTypes, ReadyFacts DEF AtSymbol, ReaderFits, StreamOK
  <2>4. QED BY <1>1, <2>1, <2>2, <2>3
<1>4. QED BY <1>2, <1>3

(* A turn's end refills the reader.                                        *)
LEMMA TurnFits ==
  ASSUME Ready, NEW i, ReaderFits(i), Staged(i) >= 7, NEW n, FastTurn(i, n)
  PROVE  /\ ReaderFits(in') /\ BitPos(in') = BitPos(i) /\ in'.over = 0
         /\ call'.pc \notin {"idle", "codelens"}
<1>1. StreamOK /\ CallOK
  BY ReadyFacts
<1>2. /\ in' = RefilledFast(i)
      /\ call' = [call EXCEPT !.chain = 0,
                    !.pc = IF FastOk(RefilledFast(i), write_pos + n) THEN "fast" ELSE "generic"]
  BY DEF FastTurn
<1>3. call'.pc \in {"fast", "generic"}
  BY <1>1, <1>2 DEF CallOK
<1>4. QED BY <1>1, <1>2, <1>3, RefilledFastFits

LEMMA WholeSequence ==
  ASSUME NEW s \in Seq(Byte)
  PROVE  SubSeq(s, 1, Len(s)) = s
<1> DEFINE l == Len(s)
<1>1. l \in Nat /\ l \in 0 .. l /\ l + 1 \in Int /\ l \in Int /\ l < l + 1
  BY LenProperties
<1>2. /\ SubSeq(s, 1, l) \in Seq(Byte)
      /\ SubSeq(s, 1, l) \o SubSeq(s, l + 1, l) = s
  BY <1>1, CutSequence
<1>3. SubSeq(s, l + 1, l) = <<>>
  BY <1>1, SubSeqEmpty
<1>4. SubSeq(s, 1, l) \o <<>> = SubSeq(s, 1, l)
  BY <1>2, ConcatEmptySeq
<1>5. QED BY <1>2, <1>3, <1>4

(* The flag and the table agree: every codeword of an entry is stored.     *)
LEMMA EntryStored ==
  ASSUME Ready, DoublesFlagsAgree, dec.state = "CompressedData",
         NEW i, NEW t \in Token, t.kind = "lit"
  PROVE  (IF dec.litlen_doubles /\ InMainTable(t) THEN Len(Entry(i, t).vals) ELSE 1)
           = Len(Entry(i, t).vals)
<1>1. SUFFICES ASSUME ~(dec.litlen_doubles /\ InMainTable(t))
               PROVE  Len(Entry(i, t).vals) = 1
  OBVIOUS
<1>2. dec.litlen_doubles = dec.table.doubles
  BY DEF DoublesFlagsAgree
<1>3. CASE Entry(i, t) = [vals |-> <<t.val>>, bits |-> t.bits]
  <2>1. Entry(i, t).vals = <<t.val>>
    BY <1>3
  <2>2. QED BY <2>1
<1>4. ASSUME NEW u \in Tokens(Consumed(i, t.bits), {"lit"}),
             t.bits + u.bits <= dec.table.bits, dec.table.doubles
      PROVE  FALSE
  <2>1. ~InMainTable(t)
    BY <1>1, <1>2, <1>4
  <2>2. t.bits \in Nat
    BY LitToken
  <2>3. u.bits \in Nat
    BY ReadyFacts, TokensAreTokens, TokenWidth
  <2>4. dec.table.bits \in Int
    BY ReadyFacts, StreamAssumption DEF DecoderOK
  <2>5. QED BY <1>4, <2>1, <2>2, <2>3, <2>4 DEF InMainTable
<1>5. QED BY <1>3, <1>4, EntryCases

(* The fastloop's literals: its flag says how many bytes an entry stores.  *)
LEMMA FastLiteralFollows ==
  ASSUME Ready, DoublesFlagsAgree, FastLiteral
  PROVE  ReaderInv' /\ FollowedNext
<1>1. PICK t \in Read(in, Symbols, Phantoms.symbol) :
         /\ t.kind = "lit"
         /\ LET e == Entry(in, t)
                n == IF dec.litlen_doubles /\ InMainTable(t) THEN Len(e.vals) ELSE 1
                scratch == IF dec.litlen_doubles /\ InMainTable(t) THEN 2 - n ELSE 0
                i == Consumed(in, e.bits)
            IN  /\ PutBytes(Cells(e.vals, n), n, scratch)
                /\ IF call.chain < 2 /\ InMainTable(t)
                     THEN in' = i /\ call' = [call EXCEPT !.chain = @ + 1]
                     ELSE FastTurn(i, n)
  BY DEF FastLiteral
<1>2. InBlock("fast") /\ NotePhantom(HasToken(in, Symbols)) /\ UNCHANGED dec
  BY DEF FastLiteral
<1>3. /\ AtSymbol(in) /\ in.left \in Nat /\ in.left >= 20 /\ in.over = 0
      /\ Staged(in) >= 15 /\ Staged(in) \in Nat
  BY <1>2, FastSymbol
<1>4. /\ t \in Token /\ t.kind \in Symbols
  BY <1>2, FastIsGenuine
<1>5. PICK k : Genuine(in, Symbols, t, k)
  BY <1>2, FastIsGenuine
<1> DEFINE bits == Entry(in, t).bits
           vals == Entry(in, t).vals
           n == IF dec.litlen_doubles /\ InMainTable(t) THEN Len(vals) ELSE 1
           scratch == IF dec.litlen_doubles /\ InMainTable(t) THEN 2 - n ELSE 0
           i == Consumed(in, bits)
<1>6. /\ WindowInv /\ CallOK /\ StreamOK /\ call.pc = "fast" /\ dec.state = "CompressedData"
      /\ dec.match = NoMatch /\ dec.lits = <<>>
  BY <1>2, <1>3, ReadyFacts DEF InBlock, AtSymbol
<1>7. n = Len(vals)
  BY <1>1, <1>4, <1>6, EntryStored
<1>8. /\ bits \in Nat /\ bits <= 18 /\ vals \in Seq(Byte) /\ Len(vals) \in 1 .. 2
  BY <1>1, <1>4, EntryBits
<1>9. /\ PutBytes(Cells(vals, n), n, scratch)
      /\ \/ in' = i /\ call' = [call EXCEPT !.chain = @ + 1]
         \/ FastTurn(i, n)
  BY <1>1
<1> HIDE DEF bits, vals, n, scratch
<1>10. produced' = produced \o vals
  <2>1. n \in 0 .. Len(vals) /\ n # 0
    BY <1>7, <1>8
  <2>2. IF n = 0 THEN UNCHANGED bufferVars ELSE PutBytes(Cells(vals, n), n, scratch)
    BY <1>9, <2>1
  <2>3. produced' = produced \o SubSeq(vals, 1, n)
    BY <1>6, <1>8, <2>1, <2>2, LiteralsProduce
  <2>4. SubSeq(vals, 1, n) = vals
    BY <1>7, <1>8, WholeSequence
  <2>5. QED BY <2>3, <2>4
<1>11. /\ ReaderFits(i) /\ BitPos(i) = BitPos(in) + bits /\ i.over = 0 /\ Staged(i) >= 7
  <2>1. bits <= in.left
    BY <1>3, <1>8
  <2>2. /\ ReaderFits(i) /\ BitPos(i) = BitPos(in) + bits /\ i.over = in.over
        /\ i.pos = in.pos /\ i.end = in.end
    BY <1>3, <1>8, <2>1, ConsumedFits DEF AtSymbol
  <2>3. Staged(i) = Staged(in)
    BY <2>2 DEF Staged
  <2>4. QED BY <1>3, <2>2, <2>3
<1> HIDE DEF i
<1>12. /\ ReaderFits(in') /\ BitPos(in') = BitPos(in) + bits /\ in'.over = 0
       /\ call'.pc \notin {"idle", "codelens"}
  <2>1. CASE in' = i /\ call' = [call EXCEPT !.chain = @ + 1]
    <3>1. call'.pc = "fast"
      BY <1>6, <2>1 DEF CallOK
    <3>2. QED BY <1>11, <2>1, <3>1
  <2>2. CASE FastTurn(i, n)
    BY <1>11, <2>2, TurnFits
  <2>3. QED BY <1>9, <2>1, <2>2
<1>13. PICK j : /\ Continues(k, j) /\ TokenEnd(j) = BitPos(in) + bits
                /\ D[j].out = produced \o vals
  BY <1>1, <1>3, <1>4, <1>5, EntryRead DEF bits, vals
<1>14. Owes(dec', produced', D[j].out)
  <2>1. produced \o vals \in Seq(Byte)
    BY <1>6, <1>8, ProducedKnown, ConcatLeads
  <2>2. (produced \o vals) \o <<>> = produced \o vals
    BY <2>1, ConcatEmptySeq
  <2>3. dec'.match = NoMatch /\ dec'.lits = <<>>
    BY <1>2, <1>6
  <2>4. QED BY <1>10, <1>13, <2>2, <2>3 DEF Owes
<1>15. /\ in'.over <= 8 /\ dec'.state = "CompressedData" /\ dec'.final = dec.final
       /\ dec'.table.code = dec.table.code /\ BitPos(in') = TokenEnd(j)
  BY <1>2, <1>6, <1>12, <1>13
<1>16. QED BY <1>2, <1>3, <1>4, <1>5, <1>12, <1>13, <1>14, <1>15, SymbolAdvances

(* The reader after a match's length and offset.                           *)
LEMMA FastMatchReader ==
  ASSUME Ready, InBlock("fast"), NEW bits \in Nat, bits <= 20, NEW obits \in Nat, obits <= 28
  PROVE  LET len == Consumed(in, bits)
             mid == IF len.left < 28 + dec.table.bits THEN RefilledFast(len) ELSE len
             i == Consumed(mid, obits)
         IN  /\ ReaderFits(i) /\ BitPos(i) = BitPos(in) + (bits + obits)
             /\ i.over = 0 /\ Staged(i) >= 7
<1> DEFINE len == Consumed(in, bits)
           mid == IF len.left < 28 + dec.table.bits THEN RefilledFast(len) ELSE len
           i == Consumed(mid, obits)
<1>1. /\ ReaderFits(in) /\ in.left \in Nat /\ in.left >= 20 /\ in.over = 0
      /\ Staged(in) >= 15 /\ Staged(in) \in Nat /\ dec.table.bits \in Nat
      /\ BitPos(in) \in Int
  <2>1. AtSymbol(in)
    BY FastSymbol
  <2>2. ReaderFits(in)
    BY <2>1 DEF AtSymbol
  <2>3. BitPos(in) \in Int
    BY <2>2, ReaderTypes DEF ReaderFits
  <2>4. QED BY <2>2, <2>3, FastSymbol
<1>2. /\ ReaderFits(len) /\ BitPos(len) = BitPos(in) + bits /\ len.left = in.left - bits
      /\ len.pos = in.pos /\ len.end = in.end /\ len.over = 0
  <2>1. bits <= in.left
    BY <1>1
  <2>2. QED BY <1>1, <2>1, ConsumedFits
<1>3. Staged(len) = Staged(in)
  BY <1>2 DEF Staged
<1> HIDE DEF len
<1>4. /\ ReaderFits(mid) /\ BitPos(mid) = BitPos(len) /\ mid.left \in Int /\ mid.left >= 28
      /\ mid.over = 0 /\ Staged(mid) >= 8
  <2>1. CASE len.left < 28 + dec.table.bits
    <3>1. mid = RefilledFast(len)
      BY <2>1
    <3>2. Staged(len) >= 7 /\ StreamOK
      BY <1>1, <1>3, ReadyFacts
    <3>3. /\ ReaderFits(RefilledFast(len)) /\ BitPos(RefilledFast(len)) = BitPos(len)
          /\ RefilledFast(len).left >= 56 /\ RefilledFast(len).over = 0
      BY <1>2, <3>2, RefilledFastFits
    <3>4. Staged(RefilledFast(len)) >= Staged(len) - 7
      BY <1>2, <3>2, RefilledFastReader DEF ReaderFits
    <3>5. Staged(RefilledFast(len)) \in Nat /\ RefilledFast(len).left \in Int
      BY <3>3, ReaderTypes DEF ReaderFits
    <3>6. QED BY <1>1, <1>3, <3>1, <3>3, <3>4, <3>5
  <2>2. CASE ~(len.left < 28 + dec.table.bits)
    <3>1. mid = len
      BY <2>2
    <3>2. len.left \in Int
      BY <1>2, ReaderTypes DEF ReaderFits
    <3>3. QED BY <1>1, <1>2, <1>3, <2>2, <3>1, <3>2
  <2>3. QED BY <2>1, <2>2
<1> HIDE DEF mid
<1>5. obits <= mid.left
  BY <1>4
<1>6. /\ ReaderFits(i) /\ BitPos(i) = BitPos(mid) + obits
      /\ i.pos = mid.pos /\ i.end = mid.end /\ i.over = mid.over
  BY <1>4, <1>5, ConsumedFits
<1>7. Staged(i) = Staged(mid) /\ Staged(mid) \in Nat
  BY <1>4, <1>6, ReaderTypes DEF Staged, ReaderFits
<1>8. BitPos(i) = BitPos(in) + (bits + obits)
  BY <1>1, <1>2, <1>4, <1>6
<1>9. i.over = 0 /\ Staged(i) >= 7
  BY <1>4, <1>6, <1>7
<1>10. QED BY <1>6, <1>8, <1>9 DEF i, mid, len

(* The fastloop's match: its own bound on distances is the window's.       *)
LEMMA FastMatchFollows ==
  ASSUME Ready, FastMatch
  PROVE  ReaderInv' /\ FollowedNext
<1>1. PICK t \in Read(in, Symbols, Phantoms.symbol) :
         /\ t.kind = "match"
         /\ LET len == Consumed(in, t.bits)
                mid == IF len.left < 28 + dec.table.bits THEN RefilledFast(len) ELSE len
                i == Consumed(mid, t.obits)
            IN  IF t.offset > write_pos - call.start
                  THEN in' = i /\ Fail("BadData") /\ UNCHANGED bufferVars
                  ELSE /\ WriteMatch(t.offset, t.length, MATCH_OVERCOPY)
                       /\ FastTurn(i, t.length)
  BY DEF FastMatch
<1>2. InBlock("fast") /\ NotePhantom(HasToken(in, Symbols)) /\ UNCHANGED dec
  BY DEF FastMatch
<1>3. AtSymbol(in)
  BY <1>2, FastSymbol
<1>4. /\ t \in Token /\ t.kind \in Symbols
  BY <1>2, FastIsGenuine
<1>5. PICK k : Genuine(in, Symbols, t, k)
  BY <1>2, FastIsGenuine
<1>6. /\ t.offset \in 1 .. LOOKBACK_SIZE /\ t.length \in Nat \ {0}
      /\ t.bits \in Nat /\ t.bits <= 20 /\ t.obits \in Nat /\ t.obits <= 28
      /\ Width(t) = t.bits + t.obits
  BY <1>1, <1>4, MatchToken, StreamAssumption DEF Width
<1>7. /\ WindowInv /\ DecoderInv /\ CallOK /\ call.pc = "fast" /\ dec.state = "CompressedData"
      /\ dec.match = NoMatch /\ dec.lits = <<>>
  BY <1>2, <1>3, ReadyFacts DEF InBlock, AtSymbol
<1>8. (t.offset > write_pos - call.start) <=> (t.offset > Len(produced))
  <2>1. lookback_valid = AtMost(write_pos - call.start, LOOKBACK_SIZE)
    BY <1>7 DEF DecoderInv, TurnHolds
  <2>2. (t.offset > lookback_valid) <=> (t.offset > Len(produced))
    BY <1>6, <1>7, LookbackDecides
  <2>3. LOOKBACK_SIZE \in Nat /\ write_pos \in Int /\ call.start \in Int
    BY <1>7, BufferAssumption, WindowFacts DEF CallOK
  <2>4. QED BY <1>6, <2>1, <2>2, <2>3 DEF AtMost
<1> DEFINE len == Consumed(in, t.bits)
           mid == IF len.left < 28 + dec.table.bits THEN RefilledFast(len) ELSE len
           i == Consumed(mid, t.obits)
<1>9. /\ ReaderFits(i) /\ BitPos(i) = BitPos(in) + (t.bits + t.obits)
      /\ i.over = 0 /\ Staged(i) >= 7
  BY <1>2, <1>6, FastMatchReader
<1>10. \/ t.offset > write_pos - call.start /\ in' = i /\ Fail("BadData") /\ UNCHANGED bufferVars
       \/ /\ ~(t.offset > write_pos - call.start)
          /\ WriteMatch(t.offset, t.length, MATCH_OVERCOPY)
          /\ FastTurn(i, t.length)
  BY <1>1
<1> HIDE DEF i, mid, len
<1>11. CASE t.offset > write_pos - call.start
  <2>1. in' = i /\ Fail("BadData") /\ UNCHANGED bufferVars
    BY <1>10, <1>11
  <2>2. ReaderFits(in') /\ BitPos(in') = BitPos(in) + Width(t) /\ in'.over <= 8
    BY <1>6, <1>9, <2>1
  <2>3. t.offset > Len(produced)
    BY <1>8, <1>11
  <2>4. QED BY <1>1, <1>2, <1>3, <1>4, <1>5, <2>1, <2>2, <2>3, MatchRefused
<1>12. CASE ~(t.offset > write_pos - call.start)
  <2>1. WriteMatch(t.offset, t.length, MATCH_OVERCOPY) /\ FastTurn(i, t.length)
    BY <1>10, <1>12
  <2>2. produced \in Seq(Byte) /\ t.offset \in 1 .. Len(produced) /\ t.offset <= Len(produced)
    <3>1. produced \in Seq(Byte) /\ Len(produced) \in Nat
      BY <1>7, ProducedKnown
    <3>2. QED BY <1>6, <1>8, <1>12, <3>1
  <2>3. produced' = Copied(produced, t.offset, t.length)
    <3>1. t.length \in Nat /\ t.length # 0
      BY <1>6
    <3>2. IF t.length = 0 THEN UNCHANGED bufferVars
          ELSE WriteMatch(t.offset, t.length, MATCH_OVERCOPY)
      BY <2>1, <3>1
    <3>3. QED BY <1>7, <2>2, <3>1, <3>2, MatchProduces
  <2>4. /\ Continues(k, k + 1) /\ D[k + 1].out = Copied(produced, t.offset, t.length)
    BY <1>1, <1>3, <1>4, <1>5, <2>2, GenuineMatch
  <2>5. /\ ReaderFits(in') /\ BitPos(in') = BitPos(i) /\ in'.over = 0
        /\ call'.pc \notin {"idle", "codelens"}
    BY <1>9, <2>1, TurnFits
  <2>6. BitPos(in') = TokenEnd(k + 1)
    <3>1. TokenEnd(k + 1) = BitPos(in) + Width(t)
      BY <1>3, <1>4, <1>5, SymbolGenuine
    <3>2. QED BY <1>6, <1>9, <2>5, <3>1
  <2>7. Owes(dec', produced', D[k + 1].out)
    <3>1. produced' \in Seq(Byte)
      <4>1. t.length \in Nat
        BY <1>6
      <4>2. QED BY <2>2, <2>3, <4>1, CopiedFacts
    <3>2. produced' \o <<>> = produced'
      BY <3>1, ConcatEmptySeq
    <3>3. dec'.match = NoMatch /\ dec'.lits = <<>>
      BY <1>2, <1>7
    <3>4. QED BY <2>3, <2>4, <3>2, <3>3 DEF Owes
  <2>8. /\ in'.over <= 8 /\ dec'.state = "CompressedData" /\ dec'.final = dec.final
        /\ dec'.table.code = dec.table.code
    BY <1>2, <1>7, <2>5
  <2>9. QED BY <1>2, <1>3, <1>4, <1>5, <2>4, <2>5, <2>6, <2>7, <2>8, SymbolAdvances
<1>13. QED BY <1>11, <1>12

LEMMA FastEndOfBlockFollows ==
  ASSUME Ready, FastEndOfBlock
  PROVE  ReaderInv' /\ FollowedNext
<1>1. PICK t \in Read(in, Symbols, Phantoms.symbol) :
         t.kind = "eob" /\ in' = Consumed(in, t.bits) /\ FinishBlock(in')
  BY DEF FastEndOfBlock
<1>2. /\ InBlock("fast") /\ NotePhantom(HasToken(in, Symbols))
      /\ UNCHANGED bufferVars /\ UNCHANGED done
  BY DEF FastEndOfBlock
<1>3. AtSymbol(in) /\ in.left >= 15 /\ in.left \in Nat
  BY <1>2, FastSymbol
<1>4. QED BY <1>1, <1>2, <1>3, EndOfBlockFollows

-------------------------------------------------------------------------------
(* Stored bytes.                                                           *)

RawBytes(first, n) == [j \in 1 .. n |-> ByteAt(first + (j - 1))]

LEMMA RawBytesKnown ==
  ASSUME StreamOK, NEW first \in Int, NEW n \in Nat
  PROVE  /\ RawBytes(first, n) \in Seq(Byte) /\ Len(RawBytes(first, n)) = n
         /\ \A j \in 1 .. n : RawBytes(first, n)[j] = ByteAt(first + (j - 1))
<1>1. \A j \in 1 .. n : ByteAt(first + (j - 1)) \in Byte
  BY StoredByte
<1>2. QED BY <1>1 DEF RawBytes

LEMMA NoRawByte ==
  ASSUME StreamOK, NEW first \in Int
  PROVE  RawBytes(first, 0) = <<>>
<1>1. Len(RawBytes(first, 0)) = 0 /\ RawBytes(first, 0) \in Seq(Byte)
  BY RawBytesKnown
<1>2. QED BY <1>1, EmptySeq

LEMMA OneMoreRawByte ==
  ASSUME StreamOK, NEW first \in Int, NEW n \in Nat
  PROVE  RawBytes(first, n + 1) = Append(RawBytes(first, n), ByteAt(first + n))
<1> DEFINE s == RawBytes(first, n)
           t == RawBytes(first, n + 1)
           v == ByteAt(first + n)
<1>1. /\ s \in Seq(Byte) /\ Len(s) = n
      /\ \A j \in 1 .. n : s[j] = ByteAt(first + (j - 1))
  BY RawBytesKnown
<1>2. /\ t \in Seq(Byte) /\ Len(t) = n + 1
      /\ \A j \in 1 .. (n + 1) : t[j] = ByteAt(first + (j - 1))
  BY RawBytesKnown
<1>3. v \in Byte
  BY StoredByte
<1> HIDE DEF s, t
<1>4. Append(s, v) \in Seq(Byte) /\ Len(Append(s, v)) = n + 1
      /\ \A j \in 1 .. (n + 1) : Append(s, v)[j] = IF j <= n THEN s[j] ELSE v
  <2> HIDE DEF v
  <2>1. QED BY <1>1, <1>3, AppendProperties
<1>8. t[n + 1] = v
  <2>1. n + 1 \in 1 .. (n + 1) /\ (n + 1) - 1 = n
    OBVIOUS
  <2>2. QED BY <1>2, <2>1
<1>9. \A j \in 1 .. n : t[j] = s[j]
  BY <1>1, <1>2
<1> HIDE DEF v
<1> DEFINE a == Append(s, v)
<1>10. /\ a \in Seq(Byte) /\ Len(a) = n + 1
       /\ \A j \in 1 .. (n + 1) : a[j] = IF j <= n THEN s[j] ELSE v
  BY <1>4
<1> HIDE DEF a
<1>5. \A j \in 1 .. (n + 1) : t[j] = a[j]
  <2> TAKE j \in 1 .. (n + 1)
  <2>1. j \in 1 .. n \/ j = n + 1
    OBVIOUS
  <2>2. QED BY <1>8, <1>9, <1>10, <2>1
<1>6. t = a
  BY <1>2, <1>5, <1>10, SeqEqual
<1>7. QED BY <1>6 DEF s, t, v, a

(* What copy_uncompressed's writes record.                                 *)
LEMMA BytesProduce ==
  ASSUME WindowInv, StreamOK, NEW n \in Nat, StoreBytes(n), FirstByte \in Int
  PROVE  produced' = produced \o RawBytes(FirstByte, n)
<1> DEFINE f == [j \in 0 .. (n - 1) |-> ByteAt(FirstByte + j)]
           t == RawBytes(FirstByte, n)
<1>1. produced \in Seq(Byte)
  BY ProducedKnown
<1>2. /\ t \in Seq(Byte) /\ Len(t) = n
      /\ \A j \in 1 .. n : t[j] = ByteAt(FirstByte + (j - 1))
  BY RawBytesKnown
<1> HIDE DEF t
<1>3. CASE n = 0
  <2>1. t = <<>>
    BY <1>2, <1>3, EmptySeq
  <2>2. produced' = produced
    BY <1>3 DEF StoreBytes, bufferVars
  <2>3. QED BY <1>1, <2>1, <2>2, ConcatProperties DEF t
<1>4. CASE n # 0
  <2>1. produced' = Extended(produced, f, n)
    BY <1>4 DEF StoreBytes, PutBytes, WriteBytes
  <2>2. f \in [0 .. (n - 1) -> Byte]
    BY StoredByte
  <2>3. \A i \in 1 .. n : t[i] = f[i - 1]
    BY <1>2
  <2> HIDE DEF f
  <2>4. QED BY <1>1, <1>2, <2>1, <2>2, <2>3, ExtendedIsConcat DEF t
<1>5. QED BY <1>3, <1>4

(* A stored block's next byte.                                             *)
LEMMA NextRawByte ==
  ASSUME Known, NEW k \in 0 .. stream.held, Good(k), D[k].place = "byte",
         NEW first \in Nat, TokenEnd(k) = 8 * first, TokenEnd(k) + 8 <= 8 * stream.nbytes
  PROVE  /\ k < stream.held /\ k + 1 \in 0 .. stream.held /\ Good(k + 1)
         /\ TokenEnd(k + 1) = TokenEnd(k) + 8
         /\ D[k + 1].out = Append(D[k].out, ByteAt(first))
         /\ D[k + 1].final = D[k].final /\ D[k + 1].todo = D[k].todo - 1
         /\ D[k + 1].place = IF D[k].todo = 1 THEN AfterBlock(D[k].final) ELSE "byte"
<1> DEFINE t == stream.toks[k + 1]
<1>1. /\ Size \in Nat /\ stream.held \in 0 .. Size /\ stream.nbytes \in Nat
      /\ k \in Nat /\ TokenEnd(k) \in Nat /\ LaidOut /\ Meant /\ Suited
  <2>1. LaidOut /\ Meant /\ Suited
    BY DEF Known
  <2>2. Size \in Nat /\ stream.held \in 0 .. Size /\ stream.nbytes \in Nat
    BY <2>1 DEF LaidOut
  <2>3. TokenEnd(k) \in Nat /\ k \in 0 .. Size
    BY <2>1, TokenEnds
  <2>4. k \in Nat
    BY <2>2, <2>3
  <2>5. QED BY <2>1, <2>2, <2>3, <2>4
<1>2. ~D[k].fault /\ D[k].fault = FALSE
  BY DEF Good
<1>3. k # Size
  <2>1. k = Size => D[k].place \in {"block", "footer", "end"}
    BY <1>1, <1>2 DEF Suited
  <2>2. QED BY <2>1
<1>4. k + 1 \in 1 .. Size /\ (k + 1) - 1 = k
  BY <1>1, <1>3
<1>5. t \in Token /\ PlaceOf(t) = D[k].place
  BY <1>1, <1>2, <1>4 DEF Suited, LaidOut
<1>6. t.kind = "byte"
  BY <1>5 DEF PlaceOf
<1>7. Width(t) = 8
  BY <1>5, <1>6, ByteToken DEF Width
<1>8. /\ stream.starts[k + 1] = StartAt(stream.toks, k + 1, TokenEnd(k))
      /\ TokenEnd(k + 1) = stream.starts[k + 1] + Width(t)
      /\ k + 1 <= stream.held <=> TokenEnd(k + 1) <= 8 * stream.nbytes
  <2>1. k \in 0 .. Size
    BY <1>1
  <2>2. QED BY <1>1, <1>4, <2>1 DEF LaidOut
<1>9. stream.starts[k + 1] = TokenEnd(k)
  BY <1>6, <1>8 DEF StartAt
<1>10. TokenEnd(k + 1) = TokenEnd(k) + 8
  BY <1>7, <1>8, <1>9
<1>11. k + 1 <= stream.held
  BY <1>8, <1>10
<1>12. k < stream.held /\ k + 1 \in 0 .. stream.held
  BY <1>1, <1>11
<1>13. D[k] \in Meaning /\ D[k + 1] = DecodeToken(D[k], t)
  BY <1>2, <1>12, NextToken
<1>14. /\ D[k + 1].out = Append(D[k].out, t.val) /\ D[k + 1].final = D[k].final
       /\ D[k + 1].fault = FALSE /\ Same(D[k], D[k + 1])
       /\ D[k + 1].place = PlaceAfter(D[k], t) /\ D[k + 1].todo = TodoAfter(D[k], t)
  BY <1>2, <1>5, <1>6, <1>13, LiteralMeans
<1>15. Good(k + 1)
  BY <1>14, GoodNext
<1>16. D[k + 1].place = IF D[k].todo = 1 THEN AfterBlock(D[k].final) ELSE "byte"
  BY <1>6, <1>14 DEF PlaceAfter
<1>17. D[k + 1].todo = D[k].todo - 1
  BY <1>6, <1>14 DEF TodoAfter
<1>18. ByteAt(first) = t.val
  <2> DEFINE i == [pos |-> first, end |-> first, left |-> 0, over |-> 0]
  <2>2. BitPos(i) = TokenEnd(k) /\ BitPos(i) = 8 * first
    BY DEF BitPos
  <2>3. Tokens(i, {"byte"}) = {t}
    BY <1>1, <1>6, <1>9, <1>12, <2>2, TokenHere
  <2>4. Tokens(i, {"byte"}) = {u \in TokensAt(8 * first) : u.kind = "byte"}
    BY <2>2 DEF Tokens, TokensFor, TokensAt
  <2> HIDE DEF i
  <2>5. ByteAt(first) = (CHOOSE u \in {t} : TRUE).val
    BY <2>3, <2>4 DEF ByteAt
  <2>6. (CHOOSE u \in {t} : TRUE) = t
    OBVIOUS
  <2>7. QED BY <2>5, <2>6
<1>19. QED BY <1>10, <1>12, <1>14, <1>15, <1>16, <1>17, <1>18

(* A stored block's next n bytes.                                          *)
AfterBytes(k, first, n) ==
  /\ k + n \in 0 .. stream.held /\ Good(k + n)
  /\ TokenEnd(k + n) = TokenEnd(k) + 8 * n
  /\ D[k + n].out = D[k].out \o RawBytes(first, n)
  /\ D[k + n].final = D[k].final /\ D[k + n].todo = D[k].todo - n
  /\ D[k + n].place = IF n = D[k].todo THEN AfterBlock(D[k].final) ELSE "byte"

LEMMA AppendToConcat ==
  ASSUME NEW s \in Seq(Byte), NEW t \in Seq(Byte), NEW v \in Byte
  PROVE  s \o Append(t, v) = Append(s \o t, v)
OBVIOUS

LEMMA RawBytesMean ==
  ASSUME Known, StreamOK, NEW k \in 0 .. stream.held, Good(k), D[k].place = "byte",
         NEW first \in Nat, TokenEnd(k) = 8 * first, D[k].todo \in Nat \ {0}, NEW n \in 0 .. D[k].todo,
         TokenEnd(k) + 8 * n <= 8 * stream.nbytes
  PROVE  AfterBytes(k, first, n)
<1> DEFINE todo == D[k].todo
           T == {m \in 0 .. n : AfterBytes(k, first, m)}
<1>1. /\ stream.held \in Nat /\ stream.nbytes \in Nat /\ TokenEnd(k) \in Nat /\ k \in Nat
      /\ LaidOut /\ todo \in Nat /\ todo > 0 /\ n \in Nat /\ n <= todo
  <2>1. LaidOut
    BY DEF Known
  <2>2. stream.held \in Nat /\ stream.nbytes \in Nat /\ TokenEnd(k) \in Nat
    BY <2>1, TokenEnds
  <2>3. k \in Nat
    BY <2>2
  <2>4. QED BY <2>1, <2>2, <2>3
<1>3. D[k].out \in Seq(Byte)
  BY OutLeads
<1>4. 0 \in T
  <2>1. RawBytes(first, 0) = <<>>
    BY NoRawByte
  <2>2. D[k].out = D[k].out \o RawBytes(first, 0)
    BY <1>3, <2>1, ConcatProperties
  <2> HIDE DEF todo
  <2>3. k + 0 = k /\ 8 * 0 = 0 /\ TokenEnd(k) + 0 = TokenEnd(k) /\ 0 # todo
        /\ todo - 0 = todo /\ 0 \in 0 .. n
    BY <1>1
  <2>4. D[k].final = D[k].final /\ D[k].place = "byte"
    OBVIOUS
  <2> HIDE DEF todo
  <2>5. AfterBytes(k, first, 0)
    <3>1. /\ k \in 0 .. stream.held /\ Good(k)
          /\ TokenEnd(k) = TokenEnd(k) + 8 * 0
          /\ D[k].out = D[k].out \o RawBytes(first, 0)
          /\ D[k].final = D[k].final /\ todo = todo - 0
          /\ D[k].place = IF 0 = todo THEN AfterBlock(D[k].final) ELSE "byte"
      BY <2>2, <2>3
    <3>2. QED BY <2>3, <3>1, Zenon DEF AfterBytes, todo
  <2>6. QED BY <2>3, <2>5
<1>5. ASSUME NEW m \in 1 .. n, m - 1 \in T
      PROVE  m \in T
  <2> DEFINE l == m - 1
             j == k + l
  <2>1. /\ l \in Nat /\ l + 1 = m /\ l < n /\ l < todo /\ j + 1 = k + m /\ j \in Nat
        /\ l \in 0 .. n /\ l # todo /\ m \in 0 .. n
    BY <1>1, <1>5
  <2>2. AfterBytes(k, first, l)
    BY <1>5
  <2> HIDE DEF l, T
  <2>3. /\ j \in 0 .. stream.held /\ Good(j)
        /\ TokenEnd(j) = TokenEnd(k) + 8 * l
        /\ D[j].out = D[k].out \o RawBytes(first, l)
        /\ D[j].final = D[k].final /\ D[j].todo = todo - l
        /\ D[j].place = "byte"
    <3>1. /\ j \in 0 .. stream.held /\ Good(j)
          /\ TokenEnd(j) = TokenEnd(k) + 8 * l
          /\ D[j].out = D[k].out \o RawBytes(first, l)
          /\ D[j].final = D[k].final /\ D[j].todo = todo - l
          /\ D[j].place = IF l = todo THEN AfterBlock(D[k].final) ELSE "byte"
      BY <2>2, Zenon DEF AfterBytes
    <3>2. QED BY <2>1, <3>1
  <2> HIDE DEF j, todo
  <2>4. TokenEnd(j) \in Nat /\ TokenEnd(j) = 8 * (first + l) /\ first + l \in Nat
    BY <1>1, <2>1, <2>3
  <2>6. TokenEnd(j) + 8 <= 8 * stream.nbytes
    BY <1>1, <2>1, <2>3
  <2>7. /\ j + 1 \in 0 .. stream.held /\ Good(j + 1)
        /\ TokenEnd(j + 1) = TokenEnd(j) + 8
        /\ D[j + 1].out = Append(D[j].out, ByteAt(first + l))
        /\ D[j + 1].final = D[j].final /\ D[j + 1].todo = D[j].todo - 1
        /\ D[j + 1].place = IF D[j].todo = 1 THEN AfterBlock(D[j].final) ELSE "byte"
    BY <2>3, <2>4, <2>6, NextRawByte
  <2>8. D[j + 1].out = D[k].out \o RawBytes(first, m)
    <3>4. l \in Nat /\ first \in Int /\ l + 1 = m
      BY <2>1
    <3>5. RawBytes(first, l + 1) = Append(RawBytes(first, l), ByteAt(first + l))
      BY <3>4, OneMoreRawByte, Zenon
    <3>1. RawBytes(first, m) = Append(RawBytes(first, l), ByteAt(first + l))
      BY <3>4, <3>5, Zenon
    <3>2. RawBytes(first, l) \in Seq(Byte) /\ ByteAt(first + l) \in Byte
      BY <3>4, RawBytesKnown, StoredByte, Zenon
    <3>3. QED BY <1>3, <2>3, <2>7, <3>1, <3>2, AppendToConcat
  <2>9. TokenEnd(j + 1) = TokenEnd(k) + 8 * m
    <3>1. TokenEnd(j + 1) = (TokenEnd(k) + 8 * l) + 8
      BY <2>3, <2>7
    <3>2. l \in Nat /\ m = l + 1 /\ TokenEnd(k) \in Nat
      BY <1>1, <2>1
    <3>3. QED BY <3>1, <3>2
  <2>10. D[j + 1].todo = todo - m /\ (D[j].todo = 1 <=> m = todo)
    <3>1. todo \in Nat /\ l \in Nat /\ m = l + 1
      BY <1>1, <2>1
    <3>2. D[j].todo = todo - l /\ D[j + 1].todo = D[j].todo - 1
      BY <2>3, <2>7
    <3>3. QED BY <3>1, <3>2
  <2>11. AfterBytes(k, first, m)
    <3>1. /\ j + 1 \in 0 .. stream.held /\ Good(j + 1)
          /\ TokenEnd(j + 1) = TokenEnd(k) + 8 * m
          /\ D[j + 1].out = D[k].out \o RawBytes(first, m)
          /\ D[j + 1].final = D[k].final /\ D[j + 1].todo = todo - m
          /\ D[j + 1].place = IF m = todo THEN AfterBlock(D[k].final) ELSE "byte"
      BY <2>3, <2>7, <2>8, <2>9, <2>10
    <3>2. QED BY <2>1, <3>1, Zenon DEF AfterBytes, todo
  <2>12. QED BY <2>1, <2>11 DEF T
<1> HIDE DEF T
<1>6. 0 .. n \subseteq T
  BY <1>1, <1>4, <1>5, InductionUpTo
<1>7. n \in T
  BY <1>1, <1>6
<1>8. QED BY <1>7 DEF T

LEMMA BitsLeft ==
  ASSUME NEW p \in Nat, NEW o \in Nat, NEW l \in Nat, NEW b \in Nat, 8 * b = 8 * (p + o) - l
  PROVE  l = 8 * (p + o - b) /\ l \div 8 = p + o - b
<1> DEFINE x == p + o - b
<1>1. l = 8 * x /\ x \in Int
  OBVIOUS
<1> HIDE DEF x
<1>2. l \div 8 = x
  BY <1>1
<1>3. QED BY <1>1, <1>2 DEF x

LEMMA EmptiedFields ==
  ASSUME NEW c \in [pos : Nat, end : Nat, left : Int, over : Int]
  PROVE  /\ Emptied(c) \in [pos : Nat, end : Nat, left : Int, over : Int]
         /\ Emptied(c).pos = c.pos /\ Emptied(c).end = c.end
         /\ Emptied(c).left = 0 /\ Emptied(c).over = 0
<1>1. Emptied(c) = [[c EXCEPT !.left = 0] EXCEPT !.over = 0]
  BY DEF Emptied
<1> DEFINE e == [c EXCEPT !.left = 0]
<1>2. /\ e \in [pos : Nat, end : Nat, left : Int, over : Int]
      /\ e.pos = c.pos /\ e.end = c.end /\ e.left = 0
  OBVIOUS
<1> HIDE DEF e
<1>3. [e EXCEPT !.over = 0] \in [pos : Nat, end : Nat, left : Int, over : Int]
  BY <1>2
<1>4. QED BY <1>1, <1>2, <1>3 DEF e

(* copy_uncompressed's first phase takes whole bytes from the bit buffer.  *)
LEMMA DrainedReader ==
  ASSUME StreamOK, DecoderOK, WindowInv, ReaderFits(in),
         NEW b \in Nat, BitPos(in) = 8 * b, b <= stream.nbytes
  PROVE  /\ Drained \in Nat /\ Drained <= dec.remaining /\ Drained <= OutputSpace
         /\ dec.remaining \in Nat /\ OutputSpace \in Nat
         /\ ReaderFits(AfterDrain) /\ BitPos(AfterDrain) = 8 * (b + Drained)
         /\ AfterDrain.pos = in.pos /\ AfterDrain.end = in.end
         /\ AfterDrain.left <= in.left /\ AfterDrain.over <= in.over
         /\ b + Drained <= in.pos
         /\ CopyNeedsInput => /\ AfterDrain.left = 0 /\ AfterDrain.over = 0
                              /\ b + Drained = in.pos
         /\ FirstByte = b
<1> DEFINE q == in.left \div 8
           d == Drained
           c == Consumed(in, 8 * d)
<1>1. /\ in.pos \in Nat /\ in.end \in Nat /\ in.left \in Nat /\ in.over \in Nat
      /\ stream.nbytes \in Nat /\ in.over <= 15
      /\ 8 * b = 8 * (in.pos + in.over) - in.left
      /\ dec.remaining \in Nat /\ OutputSpace \in Nat
  BY ReaderTypes, WindowFacts DEF ReaderFits, StreamOK, DecoderOK
<1>2. in.over <= in.left \div 8
  BY <1>1, WithinStream
<1>3. q = in.pos + in.over - b /\ in.left = 8 * q /\ q \in Int
  <2>1. in.left = 8 * (in.pos + in.over - b) /\ in.left \div 8 = in.pos + in.over - b
    BY <1>1, BitsLeft
  <2>2. in.pos + in.over - b \in Int
    BY <1>1
  <2>3. QED BY <2>1, <2>2
<1>4. in.over <= q
  BY <1>2
<1> HIDE DEF q
<1>5. RealBytes(in) = in.pos - b /\ in.pos - b \in Nat
  <2>1. RealBytes(in) = Max({q - in.over, 0})
    BY DEF RealBytes, q
  <2>2. q - in.over \in Int /\ q - in.over >= 0 /\ q - in.over = in.pos - b
    BY <1>1, <1>3, <1>4
  <2>3. QED BY <2>1, <2>2, MaxWithZero
<1>6. /\ d \in Nat /\ d <= dec.remaining /\ d <= OutputSpace /\ d <= in.pos - b
      /\ d = in.pos - b \/ d = dec.remaining \/ d = OutputSpace
  BY <1>1, <1>5 DEF Drained, AtMost
<1>7. CopyNeedsInput <=> (dec.remaining - d > 0 /\ OutputSpace > d)
  BY DEF CopyNeedsInput, StillWanted
<1>8. FirstByte = b
  BY DEF FirstByte
<1> HIDE DEF d
<1>9. CopyNeedsInput => d = in.pos - b
  BY <1>1, <1>6, <1>7
<1>10. 8 * d \in Nat /\ 8 * d <= in.left
  BY <1>1, <1>3, <1>6
<1>11. /\ ReaderFits(c) /\ BitPos(c) = BitPos(in) + 8 * d /\ c.left = in.left - 8 * d
       /\ c.pos = in.pos /\ c.end = in.end /\ c.over = in.over
  BY <1>10, ConsumedFits
<1>12. c.left \div 8 = q - d
  <2>1. c.left = 8 * (q - d) /\ q - d \in Int
    BY <1>1, <1>3, <1>6, <1>11
  <2>2. QED BY <2>1
<1>13. AfterDrain = IF c.left \div 8 <= c.over THEN Emptied(c) ELSE c
  BY DEF AfterDrain, d
<1> HIDE DEF c
<1>14. c.left \div 8 <= c.over <=> d = in.pos - b
  <2> DEFINE m == c.left \div 8
  <2>1. m = q - d /\ c.over = in.over
    BY <1>11, <1>12
  <2> HIDE DEF m
  <2>4. /\ q = in.pos + in.over - b /\ in.pos \in Nat /\ in.over \in Nat /\ d \in Nat
        /\ d <= in.pos - b
    BY <1>1, <1>3, <1>6
  <2>5. in.pos + in.over - b - d <= in.over <=> d = in.pos - b
    BY <2>4
  <2>2. m <= c.over <=> d = in.pos - b
    BY <2>1, <2>4, <2>5
  <2>3. QED BY <2>2 DEF m
<1>15. BitPos(c) = 8 * (b + d) /\ b + d <= in.pos
  BY <1>1, <1>6, <1>11
<1>16. CASE d = in.pos - b
  <2>1. AfterDrain = Emptied(c)
    BY <1>13, <1>14, <1>16
  <2>2. c \in [pos : Nat, end : Nat, left : Int, over : Int] /\ c.pos <= c.end
    BY <1>11 DEF ReaderFits, ReaderOK
  <2>3. /\ AfterDrain.pos = in.pos /\ AfterDrain.end = in.end
        /\ AfterDrain.left = 0 /\ AfterDrain.over = 0
        /\ AfterDrain \in [pos : Nat, end : Nat, left : Int, over : Int]
    <3>1. c.pos = in.pos /\ c.end = in.end
      BY <1>11
    <3>2. QED BY <2>1, <2>2, <3>1, EmptiedFields
  <2>4. ReaderFits(AfterDrain)
    BY <1>11, <2>3 DEF ReaderFits, ReaderOK
  <2>5. b + d = in.pos
    BY <1>1, <1>16
  <2>6. BitPos(AfterDrain) = 8 * (b + d)
    BY <1>1, <2>3, <2>5 DEF BitPos
  <2> HIDE DEF CopyNeedsInput
  <2>7. AfterDrain.left <= in.left /\ AfterDrain.over <= in.over
    BY <1>1, <2>3
  <2>8. QED BY <1>1, <1>6, <1>8, <1>15, <2>3, <2>4, <2>5, <2>6, <2>7 DEF d
<1>17. CASE d # in.pos - b
  <2>1. AfterDrain = c
    BY <1>13, <1>14, <1>17
  <2>2. c.left <= in.left /\ c.over <= in.over
    BY <1>1, <1>6, <1>11
  <2>3. ~CopyNeedsInput
    BY <1>9, <1>17
  <2>4. QED BY <1>1, <1>6, <1>8, <1>11, <1>15, <2>1, <2>2, <2>3 DEF d
<1>18. QED BY <1>16, <1>17

(* ... and its second whole bytes from staging.                            *)
LEMMA StagedBytes ==
  ASSUME NEW i, ReaderFits(i), NEW n \in Nat, n <= Staged(i), n > 0 => i.left = 0 /\ i.over = 0,
         NEW after, after = [i EXCEPT !.pos = @ + n]
  PROVE  /\ ReaderFits(after) /\ BitPos(after) = BitPos(i) + 8 * n
         /\ after.left = i.left /\ after.over = i.over /\ after.pos = i.pos + n
         /\ after.end = i.end
<1>1. /\ i \in [pos : Nat, end : Nat, left : Int, over : Int] /\ i.pos <= i.end
  BY DEF ReaderFits, ReaderOK
<1>2. /\ after.left = i.left /\ after.over = i.over /\ after.pos = i.pos + n
      /\ after.end = i.end
      /\ after \in [pos : Nat, end : Nat, left : Int, over : Int]
  BY <1>1
<1>3. n <= i.end - i.pos /\ i.pos \in Nat /\ i.end \in Nat /\ i.left \in Int /\ i.over \in Int
  BY <1>1 DEF Staged
<1>4. after.pos <= after.end /\ i.end - (i.pos + n) <= i.end - i.pos
  BY <1>2, <1>3
<1>5. after.over > 0 => after.pos = stream.nbytes
  <2>1. i.over > 0 => n = 0
    BY <1>3
  <2>2. i.over > 0 => i.pos = stream.nbytes
    BY DEF ReaderFits
  <2>3. QED BY <1>2, <1>3, <2>1, <2>2
<1>6. INPUT_BUF_SIZE \in Nat
  BY StreamAssumption
<1>7. ReaderFits(after)
  <2>1. /\ 0 <= i.left /\ i.left <= 63 /\ 0 <= i.over /\ i.over <= 15
        /\ i.end <= stream.nbytes /\ i.end - i.pos <= INPUT_BUF_SIZE
    BY DEF ReaderFits
  <2>2. i.end - (i.pos + n) <= INPUT_BUF_SIZE
    BY <1>3, <1>4, <1>6, <2>1
  <2>3. QED BY <1>2, <1>4, <1>5, <2>1, <2>2 DEF ReaderFits, ReaderOK
<1>8. BitPos(after) = BitPos(i) + 8 * n
  BY <1>2, <1>3 DEF BitPos
<1>9. QED BY <1>2, <1>7, <1>8

(* The bytes copied are the stored block's, and its end is where the       *)
(* decoder expects it.                                                     *)
CopiedTo(j, b, n) ==
  /\ j \in 0 .. stream.held /\ Good(j)
  /\ TokenEnd(j) = 8 * (b + n)
  /\ D[j].out = produced \o RawBytes(b, n)
  /\ D[j].final = dec.final
  /\ IF n = dec.remaining THEN D[j].place = AfterBlock(D[j].final)
     ELSE /\ D[j].place = "byte"
          /\ D[j].todo = dec.remaining - n \/ TokenEnd(j) = 8 * stream.nbytes

LEMMA CopyStart ==
  ASSUME Ready, dec.state = "UncompressedData"
  PROVE  /\ ~hist.phantom
         /\ \E k \in 0 .. stream.held, b \in Nat :
              /\ Tracks(k) /\ TokenEnd(k) = 8 * b /\ BitPos(in) = 8 * b /\ b <= stream.nbytes
         /\ dec.match = NoMatch /\ dec.lits = <<>>
<1>0. /\ Known /\ LaidOut /\ DecoderFits
  BY ReadyFacts
<1>1. ~hist.phantom
  BY StillTracks
<1>2. PICK k \in 0 .. stream.held : Tracks(k)
  BY <1>1, StillTracks
<1>3. BitPos(in) = TokenEnd(k) /\ TokenEnd(k) % 8 = 0
  BY <1>2 DEF Tracks, Placed, Expects
<1>4. TokenEnd(k) \in Nat /\ TokenEnd(k) <= 8 * stream.nbytes /\ stream.nbytes \in Nat
  BY <1>0, TokenEnds
<1> DEFINE b == TokenEnd(k) \div 8
           e == TokenEnd(k)
<1>5. e = 8 * b /\ b \in Nat
  <2>1. e \in Nat /\ e % 8 = 0
    BY <1>3, <1>4
  <2> HIDE DEF e
  <2>2. e = 8 * (e \div 8) /\ e \div 8 \in Nat
    BY <2>1
  <2>3. QED BY <2>2 DEF e
<1> HIDE DEF b
<1>6. b <= stream.nbytes
  BY <1>4, <1>5
<1>7. dec.match = NoMatch /\ dec.lits = <<>>
  BY <1>0 DEF DecoderFits
<1>8. QED BY <1>1, <1>2, <1>3, <1>5, <1>6, <1>7

LEMMA CopyReads ==
  ASSUME Ready, dec.state = "UncompressedData", NEW k \in 0 .. stream.held, Tracks(k),
         NEW b \in Nat, TokenEnd(k) = 8 * b, NEW n \in Nat, n <= dec.remaining,
         b + n <= stream.nbytes
  PROVE  \E j : CopiedTo(j, b, n)
<1>0. /\ Known /\ LaidOut /\ StreamOK /\ DecoderOK /\ WindowInv
      /\ dec.match = NoMatch /\ dec.lits = <<>>
  BY ReadyFacts, CopyStart
<1>1. /\ Good(k) /\ dec.final = D[k].final /\ produced = D[k].out
      /\ \/ dec.remaining = 0 /\ D[k].place = AfterBlock(D[k].final)
         \/ /\ dec.remaining > 0 /\ D[k].place = "byte"
            /\ D[k].todo = dec.remaining \/ TokenEnd(k) = 8 * stream.nbytes
  BY <1>0, OwesNothing DEF Tracks, Expects
<1>2. dec.remaining \in Nat /\ stream.nbytes \in Nat
  BY <1>0 DEF DecoderOK, StreamOK
<1>3. produced = produced \o RawBytes(b, 0)
  <2>1. RawBytes(b, 0) = <<>> /\ produced \in Seq(Byte)
    BY <1>0, NoRawByte, ProducedKnown
  <2>2. QED BY <2>1, ConcatProperties
<1>4. CASE n = 0
  <2>1. TokenEnd(k) = 8 * (b + n)
    BY <1>4
  <2>2. D[k].out = produced \o RawBytes(b, n)
    BY <1>1, <1>3, <1>4
  <2>3. CASE dec.remaining = 0
    <3>1. CopiedTo(k, b, n)
      BY <1>1, <1>4, <2>1, <2>2, <2>3 DEF CopiedTo
    <3>2. QED BY <3>1
  <2>4. CASE dec.remaining > 0
    <3>1. n # dec.remaining /\ dec.remaining - n = dec.remaining /\ dec.remaining # 0
      BY <1>2, <1>4, <2>4
    <3>2. /\ D[k].place = "byte"
          /\ D[k].todo = dec.remaining - n \/ TokenEnd(k) = 8 * stream.nbytes
      BY <1>1, <3>1
    <3>3. CopiedTo(k, b, n)
      BY <1>1, <2>1, <2>2, <3>1, <3>2, Zenon DEF CopiedTo
    <3>4. QED BY <3>3
  <2>5. QED BY <1>2, <2>3, <2>4
<1>5. CASE n # 0
  <2>1. b # stream.nbytes /\ dec.remaining > 0 /\ dec.remaining # 0
    BY <1>2, <1>5
  <2>2. TokenEnd(k) # 8 * stream.nbytes
    BY <1>2, <2>1
  <2>3. D[k].place = "byte" /\ D[k].todo = dec.remaining
    BY <1>1, <2>1, <2>2
  <2>4. TokenEnd(k) + 8 * n <= 8 * stream.nbytes
    BY <1>2
  <2>5. D[k].todo \in Nat \ {0} /\ n \in 0 .. D[k].todo
    BY <1>2, <2>1, <2>3
  <2>6. AfterBytes(k, b, n)
    BY <1>0, <1>1, <2>3, <2>4, <2>5, RawBytesMean
  <2>7. TokenEnd(k) + 8 * n = 8 * (b + n)
    OBVIOUS
  <2>8. CopiedTo(k + n, b, n)
    <3>1. /\ k + n \in 0 .. stream.held /\ Good(k + n)
          /\ TokenEnd(k + n) = 8 * (b + n)
          /\ D[k + n].out = produced \o RawBytes(b, n)
          /\ D[k + n].final = D[k].final /\ D[k + n].todo = dec.remaining - n
          /\ D[k + n].place = IF n = dec.remaining THEN AfterBlock(D[k].final) ELSE "byte"
      BY <1>1, <2>3, <2>6, <2>7, Zenon DEF AfterBytes
    <3>2. QED BY <1>1, <3>1, Zenon DEF CopiedTo
  <2>9. QED BY <2>8
<1>6. QED BY <1>4, <1>5

(* One call of copy_uncompressed.                                          *)
CopyInput == IF CopyNeedsInput /\ Staged(AfterDrain) = 0 THEN Filled(AfterDrain)
                                                         ELSE AfterDrain
FromCopyInput ==
  IF CopyNeedsInput THEN AtMost(AtMost(Staged(CopyInput), StillWanted), OutputSpace - Drained)
  ELSE 0

(* The whole bytes b, b + 1, ... of the source are tokens k + 1 to j.      *)
CopyGoes(k, b, j) ==
  LET n == Drained + FromCopyInput IN
  /\ k \in 0 .. stream.held /\ Tracks(k) /\ TokenEnd(k) = 8 * b /\ b \in Nat
  /\ Drained \in Nat /\ FromCopyInput \in Nat /\ FromCopyInput <= StillWanted
  /\ n \in Nat /\ n <= dec.remaining /\ b + n <= stream.nbytes
  /\ n = dec.remaining <=> StillWanted = FromCopyInput
  /\ CopiedTo(j, b, n)
  /\ produced' = D[j].out
  /\ ReaderFits(in') /\ BitPos(in') = TokenEnd(j)

(* What it leaves in the reader.                                           *)
CopyLeaves(b) ==
  /\ FromCopyInput > 0 => CopyNeedsInput
  /\ CopyNeedsInput =>
       /\ AfterDrain.left = 0 /\ AfterDrain.over = 0 /\ b + Drained = in.pos
       /\ StillWanted > 0
       /\ FromCopyInput = 0 => CopyInput.pos = CopyInput.end /\ CopyInput.end = stream.nbytes
  /\ ~CopyNeedsInput => CopyInput.end = in.end
  /\ AfterDrain.left <= in.left /\ AfterDrain.over <= in.over
  /\ CopyInput.pos = in.pos /\ CopyInput.left = AfterDrain.left
  /\ CopyInput.over = AfterDrain.over
  /\ in'.left = CopyInput.left /\ in'.over = CopyInput.over
  /\ in'.pos = CopyInput.pos + FromCopyInput /\ in'.end = CopyInput.end

LEMMA CopyStep ==
  ASSUME Ready, CopyUncompressed
  PROVE  \E k, b, j : CopyGoes(k, b, j) /\ CopyLeaves(b)
<1> DEFINE i == CopyInput
           fromStaging == FromCopyInput
           after == [i EXCEPT !.pos = @ + fromStaging]
           n == Drained + fromStaging
<1>1. /\ UNCHANGED <<given, acct, done, hist>>
      /\ dec.state = "UncompressedData"
      /\ in' = after
      /\ StoreBytes(n)
      /\ IF CopyNeedsInput /\ fromStaging = 0 THEN Fail("BadData") /\ UNCHANGED dec
         ELSE IF StillWanted = fromStaging THEN FinishBlock(after)
         ELSE /\ dec' = [dec EXCEPT !.remaining = StillWanted - fromStaging]
              /\ ToAccount
  BY Zenon DEF CopyUncompressed, CopyInput, FromCopyInput
<1>2. /\ Known /\ LaidOut /\ StreamOK /\ DecoderOK /\ WindowInv /\ ReaderFits(in) /\ CallOK
      /\ in.over <= 8 /\ in.over \in Nat /\ in.left \in Nat /\ in.pos \in Nat
      /\ in.end \in Nat /\ stream.nbytes \in Nat /\ in.end <= stream.nbytes /\ in.pos <= in.end
  <2>1. /\ Known /\ LaidOut /\ StreamOK /\ DecoderOK /\ WindowInv /\ ReaderFits(in) /\ CallOK
        /\ in.over <= 8
    BY ReadyFacts
  <2>2. QED BY <2>1, ReaderTypes DEF ReaderFits, StreamOK, ReaderOK
<1>3. /\ ~hist.phantom /\ dec.match = NoMatch /\ dec.lits = <<>>
  BY <1>1, CopyStart
<1>4. PICK k \in 0 .. stream.held, b \in Nat :
        /\ Tracks(k) /\ TokenEnd(k) = 8 * b /\ BitPos(in) = 8 * b /\ b <= stream.nbytes
  BY <1>1, CopyStart
<1>5. /\ Drained \in Nat /\ Drained <= dec.remaining /\ Drained <= OutputSpace
      /\ dec.remaining \in Nat /\ OutputSpace \in Nat
      /\ ReaderFits(AfterDrain) /\ BitPos(AfterDrain) = 8 * (b + Drained)
      /\ AfterDrain.pos = in.pos /\ AfterDrain.end = in.end
      /\ AfterDrain.left <= in.left /\ AfterDrain.over <= in.over
      /\ b + Drained <= in.pos
      /\ CopyNeedsInput => /\ AfterDrain.left = 0 /\ AfterDrain.over = 0
                           /\ b + Drained = in.pos
      /\ FirstByte = b
  BY <1>2, <1>4, DrainedReader
<1>6. /\ StillWanted \in Nat /\ StillWanted = dec.remaining - Drained
      /\ CopyNeedsInput <=> (StillWanted > 0 /\ OutputSpace > Drained)
  BY <1>5 DEF StillWanted, CopyNeedsInput
<1>7. /\ ReaderFits(i) /\ BitPos(i) = 8 * (b + Drained) /\ i.pos = in.pos
      /\ i.left = AfterDrain.left /\ i.over = AfterDrain.over
      /\ CopyNeedsInput /\ Staged(i) = 0 => i.end = stream.nbytes
      /\ ~CopyNeedsInput => i.end = in.end
  <2>1. /\ ReaderFits(Filled(AfterDrain)) /\ BitPos(Filled(AfterDrain)) = BitPos(AfterDrain)
        /\ Filled(AfterDrain).pos = AfterDrain.pos /\ Filled(AfterDrain).left = AfterDrain.left
        /\ Filled(AfterDrain).over = AfterDrain.over
        /\ \/ Filled(AfterDrain).end = stream.nbytes
           \/ Staged(Filled(AfterDrain)) = INPUT_BUF_SIZE
    BY <1>2, <1>5, FilledFits
  <2>2. INPUT_BUF_SIZE # 0
    BY StreamAssumption
  <2>3. CASE CopyNeedsInput /\ Staged(AfterDrain) = 0
    <3>1. i = Filled(AfterDrain)
      BY <2>3 DEF CopyInput
    <3> HIDE DEF i
    <3>2. QED BY <1>5, <2>1, <2>2, <2>3, <3>1
  <2>4. CASE ~(CopyNeedsInput /\ Staged(AfterDrain) = 0)
    <3>1. i = AfterDrain
      BY <2>4 DEF CopyInput
    <3> HIDE DEF i
    <3>2. QED BY <1>5, <2>4, <3>1
  <2>5. QED BY <2>3, <2>4
<1> HIDE DEF i
<1>8. Staged(i) \in Nat
  BY <1>7, ReaderTypes DEF ReaderFits
<1>9. /\ fromStaging \in Nat /\ fromStaging <= Staged(i) /\ fromStaging <= StillWanted
      /\ fromStaging > 0 => CopyNeedsInput
      /\ CopyNeedsInput /\ fromStaging = 0 => Staged(i) = 0
  <2>1. CASE ~CopyNeedsInput
    BY <1>6, <1>8, <2>1 DEF FromCopyInput
  <2>2. CASE CopyNeedsInput
    <3>1. OutputSpace - Drained \in Nat /\ OutputSpace - Drained > 0 /\ StillWanted > 0
      BY <1>5, <1>6, <2>2
    <3>2. fromStaging = AtMost(AtMost(Staged(i), StillWanted), OutputSpace - Drained)
      BY <2>2 DEF FromCopyInput, i
    <3> HIDE DEF fromStaging
    <3>3. QED BY <1>6, <1>8, <2>2, <3>1, <3>2 DEF AtMost
  <2>3. QED BY <2>1, <2>2
<1> HIDE DEF fromStaging
<1>10. /\ ReaderFits(after) /\ BitPos(after) = BitPos(i) + 8 * fromStaging
       /\ after.left = i.left /\ after.over = i.over /\ after.pos = i.pos + fromStaging
       /\ after.end = i.end
  <2>1. fromStaging > 0 => i.left = 0 /\ i.over = 0
    BY <1>5, <1>7, <1>9
  <2>2. QED BY <1>7, <1>9, <2>1, StagedBytes
<1> HIDE DEF after
<1>11. n \in Nat /\ n <= dec.remaining /\ (n = dec.remaining <=> StillWanted = fromStaging)
  BY <1>5, <1>6, <1>9
<1>12. BitPos(after) = 8 * (b + n)
  BY <1>5, <1>7, <1>9, <1>10
<1>13. b + n <= stream.nbytes
  <2>1. CASE fromStaging = 0
    BY <1>2, <1>5, <2>1
  <2>2. CASE fromStaging # 0
    <3>1. b + Drained = in.pos
      BY <1>5, <1>9, <2>2
    <3>2. after.pos \in Nat /\ after.end \in Nat /\ after.pos <= after.end
          /\ after.end <= stream.nbytes
      BY <1>10 DEF ReaderFits, ReaderOK
    <3>3. QED BY <1>2, <1>5, <1>7, <1>9, <1>10, <3>1, <3>2
  <2>3. QED BY <2>1, <2>2
<1>14. produced' = produced \o RawBytes(b, n)
  <2>1. FirstByte \in Int /\ FirstByte = b
    BY <1>5
  <2>2. QED BY <1>1, <1>2, <1>11, <2>1, BytesProduce
<1> HIDE DEF n
<1>15. PICK j : CopiedTo(j, b, n)
  BY <1>1, <1>4, <1>11, <1>13, CopyReads
<1>16. /\ j \in 0 .. stream.held /\ Good(j)
       /\ BitPos(in') = TokenEnd(j) /\ TokenEnd(j) = 8 * (b + n)
       /\ produced' = D[j].out /\ D[j].final = dec.final
       /\ ReaderFits(in')
  BY <1>1, <1>10, <1>12, <1>14, <1>15 DEF CopiedTo
<1>17. CopyNeedsInput /\ fromStaging = 0 => i.pos = i.end /\ i.end = stream.nbytes
  <2> SUFFICES ASSUME CopyNeedsInput, fromStaging = 0
               PROVE  i.pos = i.end /\ i.end = stream.nbytes
    OBVIOUS
  <2>1. Staged(i) = 0 /\ i.end = stream.nbytes
    BY <1>7, <1>9
  <2>2. i.pos \in Nat /\ i.end \in Nat /\ Staged(i) = i.end - i.pos
    BY <1>7, ReaderTypes DEF ReaderFits
  <2>3. QED BY <2>1, <2>2
<1>18. CopyGoes(k, b, j)
  <2>1. Drained + FromCopyInput = n /\ FromCopyInput = fromStaging
    BY DEF n, fromStaging
  <2>2. QED BY <1>4, <1>5, <1>9, <1>11, <1>13, <1>15, <1>16, <2>1, Zenon DEF CopyGoes
<1>19. CopyLeaves(b)
  BY <1>1, <1>5, <1>6, <1>7, <1>9, <1>10, <1>17 DEF CopyLeaves, i, fromStaging
<1>20. QED BY <1>18, <1>19

(* A stored block's bytes, from the bit buffer first and then from staging.*)
LEMMA CopyUncompressedFollows ==
  ASSUME Ready, CopyUncompressed
  PROVE  ReaderInv' /\ FollowedNext
<1> DEFINE n == Drained + FromCopyInput
<1>1. /\ UNCHANGED <<given, acct, done, hist>>
      /\ dec.state = "UncompressedData"
      /\ IF CopyNeedsInput /\ FromCopyInput = 0 THEN Fail("BadData") /\ UNCHANGED dec
         ELSE IF StillWanted = FromCopyInput THEN FinishBlock(in')
         ELSE /\ dec' = [dec EXCEPT !.remaining = StillWanted - FromCopyInput]
              /\ ToAccount
  BY Zenon DEF CopyUncompressed, CopyInput, FromCopyInput
<1>2. /\ Known /\ LaidOut /\ StreamOK /\ DecoderOK /\ WindowInv /\ ReaderFits(in) /\ CallOK
      /\ in.over <= 8 /\ in.over \in Nat /\ in.left \in Nat /\ in.pos \in Nat
      /\ in.end \in Nat /\ stream.nbytes \in Nat
  <2>1. /\ Known /\ LaidOut /\ StreamOK /\ DecoderOK /\ WindowInv /\ ReaderFits(in) /\ CallOK
        /\ in.over <= 8
    BY ReadyFacts
  <2>2. QED BY <2>1, ReaderTypes DEF ReaderFits, StreamOK, ReaderOK
<1>3. /\ ~hist.phantom /\ dec.match = NoMatch /\ dec.lits = <<>>
  BY <1>1, CopyStart
<1>4. PICK k, b, j : CopyGoes(k, b, j) /\ CopyLeaves(b)
  BY CopyStep
<1>5. /\ Drained \in Nat /\ FromCopyInput \in Nat /\ FromCopyInput <= StillWanted
      /\ b \in Nat /\ n \in Nat /\ n <= dec.remaining
      /\ n = dec.remaining <=> StillWanted = FromCopyInput
      /\ CopiedTo(j, b, n)
      /\ produced' = D[j].out
      /\ ReaderFits(in') /\ BitPos(in') = TokenEnd(j)
  BY <1>4, Zenon DEF CopyGoes
<1>6. StillWanted = dec.remaining - Drained /\ dec.remaining \in Nat
  BY <1>2 DEF StillWanted, DecoderOK
<1> HIDE DEF n
<1>7. /\ j \in 0 .. stream.held /\ Good(j)
       /\ BitPos(in') = TokenEnd(j) /\ TokenEnd(j) = 8 * (b + n)
       /\ produced' = D[j].out /\ D[j].final = dec.final
       /\ ReaderFits(in')
  BY <1>5 DEF CopiedTo
<1>8. ~hist'.phantom
  BY <1>1, <1>3
<1>9. produced' \in Seq(Byte) /\ Leads(produced', D[j].out)
  BY <1>2, <1>7, OutLeads, LeadsReflexive
<1>10. CASE CopyNeedsInput /\ FromCopyInput = 0
  <2>1. call'.pc = "idle" /\ call'.result = "BadData" /\ dec' = dec
    BY <1>1, <1>2, <1>10 DEF Fail, CallOK
  <2>2. /\ CopyInput.pos = CopyInput.end /\ CopyInput.end = stream.nbytes
        /\ CopyInput.pos = in.pos /\ b + Drained = in.pos /\ StillWanted > 0
        /\ in'.end = CopyInput.end
    BY <1>4, <1>10 DEF CopyLeaves
  <2>3. n = Drained /\ StillWanted # FromCopyInput /\ n # dec.remaining
    BY <1>5, <1>6, <1>10, <2>2 DEF n
  <2>4. TokenEnd(j) = 8 * stream.nbytes
    <3>1. b + n = stream.nbytes
      BY <2>2, <2>3
    <3>2. QED BY <1>7, <3>1
  <2>5. D[j].place = "byte"
    BY <1>5, <2>3 DEF CopiedTo
  <2>6. ~Acceptable
    <3>1. ~D[j].fault
      BY <1>7 DEF Good
    <3>2. CASE j = stream.held
      BY <1>2, <2>5, <3>1, <3>2, CutOffStream
    <3>3. CASE j # stream.held
      <4>1. j < stream.held
        <5>1. stream.held \in Nat
          BY <1>2, TokenEnds
        <5>2. QED BY <1>7, <3>3, <5>1
      <4>2. /\ stream.toks[j + 1] \in Token /\ PlaceOf(stream.toks[j + 1]) = D[j].place
            /\ TokenEnd(j) <= stream.starts[j + 1] /\ stream.starts[j + 1] \in Nat
            /\ TokenEnd(j + 1) = stream.starts[j + 1] + Width(stream.toks[j + 1])
            /\ TokenEnd(j + 1) <= 8 * stream.nbytes
        BY <1>2, <1>7, <3>1, <4>1, NextToken
      <4>3. stream.toks[j + 1].kind = "byte"
        BY <2>5, <4>2 DEF PlaceOf
      <4>4. Width(stream.toks[j + 1]) = 8
        BY <4>2, <4>3, ByteToken DEF Width
      <4>5. QED BY <1>2, <2>4, <4>2, <4>4
    <3>4. QED BY <3>2, <3>3
  <2>7. FollowsNext(j)
    BY <1>1, <1>9, <2>1 DEF FollowsNext
  <2>8. FollowedNext
    BY <1>1, <1>7, <1>8, <2>1, <2>6, <2>7, Faults
  <2>9. ReaderInv'
    <3>1. in'.end = stream.nbytes
      BY <2>2
    <3>2. QED BY <1>1, <1>7, <2>1, <3>1, ReaderStaysFit DEF Fatal
  <2>10. QED BY <2>8, <2>9
<1>11. CASE ~(CopyNeedsInput /\ FromCopyInput = 0) /\ StillWanted = FromCopyInput
  <2>1. FinishBlock(in') /\ UNCHANGED done
    BY <1>1, <1>11
  <2>2. D[j].place = AfterBlock(D[j].final) /\ dec.final = D[j].final
    BY <1>5, <1>11 DEF CopiedTo
  <2>3. QED BY <1>3, <1>7, <1>8, <2>1, <2>2, BlockFinishes
<1>12. CASE ~(CopyNeedsInput /\ FromCopyInput = 0) /\ StillWanted # FromCopyInput
  <2>1. dec' = [dec EXCEPT !.remaining = StillWanted - FromCopyInput] /\ ToAccount
    BY <1>1, <1>12
  <2>2. /\ dec'.state = "UncompressedData" /\ dec'.final = dec.final /\ dec'.match = NoMatch
        /\ dec'.lits = <<>> /\ dec'.remaining = StillWanted - FromCopyInput
    BY <1>1, <1>2, <1>3, <2>1 DEF DecoderOK
  <2>3. call'.pc = "account"
    BY <1>2, <2>1 DEF ToAccount, CallOK
  <2>4. dec'.remaining > 0 /\ dec'.remaining = dec.remaining - n /\ n # dec.remaining
    <3>1. n # dec.remaining
      BY <1>5, <1>12, Zenon
    <3>2. n = Drained + FromCopyInput
      BY DEF n
    <3>3. StillWanted - FromCopyInput > 0 /\ StillWanted - FromCopyInput = dec.remaining - n
      BY <1>5, <1>6, <1>12, <3>2
    <3>4. QED BY <2>2, <3>1, <3>3
  <2>5. D[j].place = "byte" /\ (D[j].todo = dec'.remaining \/ TokenEnd(j) = 8 * stream.nbytes)
    BY <1>5, <2>4 DEF CopiedTo
  <2>6. TokenEnd(j) % 8 = 0
    <3> DEFINE e == TokenEnd(j)
               m == b + n
    <3>1. e = 8 * m /\ m \in Nat
      BY <1>5, <1>7
    <3> HIDE DEF e, m
    <3>2. e % 8 = 0
      BY <3>1
    <3>3. QED BY <3>2 DEF e
  <2>7. Expects(dec', in', j)
    BY <1>7, <2>2, <2>4, <2>5, <2>6 DEF Expects
  <2>8. Owes(dec', produced', D[j].out)
    BY <1>7, <1>9, <2>2, ConcatEmptySeq DEF Owes
  <2>9. TracksNext(j)
    BY <1>7, <2>3, <2>7, <2>8 DEF TracksNext, Placed
  <2>10. FollowedNext
    BY <1>7, <1>8, <2>2, <2>3, <2>9, Advances
  <2>11. in'.over <= 8
    <3>1. in'.over <= in.over /\ in'.over \in Int
      BY <1>4, <1>5, ReaderTypes DEF CopyLeaves, ReaderFits
    <3>2. QED BY <1>2, <3>1
  <2>12. in'.left < 8 \/ Staged(in') > 0 \/ in'.end = stream.nbytes
    <3>1. CASE CopyNeedsInput
      BY <1>4, <3>1 DEF CopyLeaves
    <3>2. CASE ~CopyNeedsInput
      <4>1. FromCopyInput = 0
        BY <1>4, <1>5, <3>2 DEF CopyLeaves
      <4>2. in'.pos = in.pos /\ in'.end = in.end /\ in'.left <= in.left
        BY <1>2, <1>4, <3>2, <4>1 DEF CopyLeaves
      <4>3. in.left < 8 \/ Staged(in) > 0 \/ in.end = stream.nbytes
        BY <1>1 DEF Ready, DecodingInv, ReaderInv
      <4>4. in'.left \in Int
        BY <1>7, ReaderTypes DEF ReaderFits
      <4>5. QED BY <1>2, <4>2, <4>3, <4>4 DEF Staged
    <3>3. QED BY <3>1, <3>2
  <2>13. ReaderInv'
    BY <1>7, <2>2, <2>11, <2>12, ReaderStaysFit
  <2>14. QED BY <2>10, <2>13
<1>13. QED BY <1>10, <1>11, <1>12

(* A source that fails there has not kept what the bit buffer held.        *)
LEMMA SourceFailsInCopyFollows ==
  ASSUME Ready, SourceFailsInCopy
  PROVE  ReaderInv' /\ FollowedNext
<1>1. /\ UNCHANGED <<given, dec, acct, done>>
      /\ dec.state = "UncompressedData" /\ CopyNeedsInput /\ Staged(AfterDrain) = 0
      /\ StoreBytes(Drained) /\ SourceFails(AfterDrain)
  BY Zenon DEF SourceFailsInCopy
<1>2. /\ Known /\ LaidOut /\ StreamOK /\ DecoderOK /\ WindowInv /\ ReaderFits(in) /\ CallOK
      /\ HistOK /\ in.over <= 8
  BY ReadyFacts
<1>3. /\ ~hist.phantom /\ dec.match = NoMatch /\ dec.lits = <<>>
  BY <1>1, CopyStart
<1>4. PICK k \in 0 .. stream.held, b \in Nat :
        /\ Tracks(k) /\ TokenEnd(k) = 8 * b /\ BitPos(in) = 8 * b /\ b <= stream.nbytes
  BY <1>1, CopyStart
<1>5. /\ Drained \in Nat /\ Drained <= dec.remaining /\ Drained <= OutputSpace
      /\ dec.remaining \in Nat /\ OutputSpace \in Nat
      /\ ReaderFits(AfterDrain) /\ BitPos(AfterDrain) = 8 * (b + Drained)
      /\ AfterDrain.pos = in.pos /\ AfterDrain.end = in.end
      /\ b + Drained <= in.pos
      /\ AfterDrain.left = 0 /\ AfterDrain.over = 0 /\ b + Drained = in.pos
      /\ FirstByte = b
  BY <1>1, <1>2, <1>4, DrainedReader
<1>6. Drained # dec.remaining
  BY <1>1, <1>5 DEF CopyNeedsInput, StillWanted
<1>7. /\ in.pos \in Nat /\ in.end \in Nat /\ in.left \in Nat /\ in.over \in Nat
      /\ stream.nbytes \in Nat /\ BitPos(in) = 8 * (in.pos + in.over) - in.left
      /\ in.end <= stream.nbytes /\ in.pos = in.end
  BY <1>1, <1>2, <1>5, ReaderTypes DEF ReaderFits, StreamOK, Staged
<1>8. b + Drained <= stream.nbytes
  BY <1>5, <1>7
<1>9. Drained # 0 => b + Drained = stream.nbytes
  <2> SUFFICES ASSUME Drained # 0 PROVE b + Drained = stream.nbytes
    OBVIOUS
  <2>1. in.left < 8 \/ Staged(in) > 0 \/ in.end = stream.nbytes
    BY <1>1 DEF Ready, DecodingInv, ReaderInv
  <2>2. in.left >= 8
    BY <1>4, <1>5, <1>7
  <2>3. QED BY <1>5, <1>7, <2>1, <2>2 DEF Staged
<1>10. PICK j : CopiedTo(j, b, Drained)
  BY <1>1, <1>4, <1>5, <1>8, CopyReads
<1>11. produced' = produced \o RawBytes(b, Drained)
  <2>1. FirstByte \in Int
    BY <1>5
  <2>2. QED BY <1>1, <1>2, <1>5, <2>1, BytesProduce
<1>12. /\ ReaderFits(in') /\ BitPos(in') = BitPos(AfterDrain)
       /\ in'.left = 0 /\ in'.over = 0
  BY <1>1, <1>2, <1>5, FailedFits
<1>13. /\ j \in 0 .. stream.held /\ Good(j)
       /\ BitPos(in') = TokenEnd(j) /\ TokenEnd(j) = 8 * (b + Drained)
       /\ produced' = D[j].out /\ D[j].final = dec.final /\ D[j].place = "byte"
       /\ D[j].todo = dec.remaining - Drained \/ TokenEnd(j) = 8 * stream.nbytes
  BY <1>5, <1>6, <1>10, <1>11, <1>12, Zenon DEF CopiedTo
<1>14. D[j].todo = dec.remaining \/ TokenEnd(j) = 8 * stream.nbytes
  <2>1. CASE Drained = 0
    BY <1>5, <1>13, <2>1
  <2>2. CASE Drained # 0
    BY <1>9, <1>13, <2>2
  <2>3. QED BY <2>1, <2>2
<1>15. dec.remaining > 0
  BY <1>5, <1>6
<1>16. TokenEnd(j) % 8 = 0
  <2> DEFINE e == TokenEnd(j)
             m == b + Drained
  <2>1. e = 8 * m /\ m \in Nat
    BY <1>5, <1>13
  <2> HIDE DEF e, m
  <2>2. e % 8 = 0
    BY <2>1
  <2>3. QED BY <2>2 DEF e
<1>17. dec' = dec
  BY <1>1
<1>18. Expects(dec', in', j)
  BY <1>1, <1>13, <1>14, <1>15, <1>16, <1>17 DEF Expects
<1>19. call'.pc = "idle" /\ call'.result = "Source" /\ hist'.phantom = hist.phantom
  <2>1. call' = [call EXCEPT !.pc = "idle", !.result = "Source"]
        /\ hist' = [hist EXCEPT !.errors = @ + 1]
    BY <1>1 DEF SourceFails, Fail
  <2>2. QED BY <1>2, <2>1 DEF CallOK, HistOK
<1>20. produced' \in Seq(Byte)
  BY <1>2, <1>13, OutLeads
<1>21. Owes(dec', produced', D[j].out)
  BY <1>3, <1>13, <1>17, <1>20, ConcatEmptySeq DEF Owes
<1>22. TracksNext(j)
  BY <1>13, <1>18, <1>19, <1>21 DEF TracksNext, Placed
<1>23. FollowedNext
  BY <1>1, <1>3, <1>13, <1>17, <1>19, <1>22, Advances
<1>24. ReaderInv'
  BY <1>1, <1>12, <1>17, ReaderStaysFit
<1>25. QED BY <1>23, <1>24

-------------------------------------------------------------------------------
(* The footer.                                                             *)

LEMMA EmptiedFits ==
  ASSUME NEW i, ReaderFits(i)
  PROVE  /\ ReaderFits(Emptied(i))
         /\ Emptied(i).pos = i.pos /\ Emptied(i).end = i.end
         /\ Emptied(i).left = 0 /\ Emptied(i).over = 0
<1>1. i \in [pos : Nat, end : Nat, left : Int, over : Int] /\ i.pos <= i.end
  BY DEF ReaderFits, ReaderOK
<1>2. /\ Emptied(i).pos = i.pos /\ Emptied(i).end = i.end
      /\ Emptied(i).left = 0 /\ Emptied(i).over = 0
      /\ Emptied(i) \in [pos : Nat, end : Nat, left : Int, over : Int]
  BY <1>1, EmptiedFields
<1>3. i.end <= stream.nbytes /\ i.end - i.pos <= INPUT_BUF_SIZE
  BY DEF ReaderFits
<1>4. QED BY <1>1, <1>2, <1>3 DEF ReaderFits, ReaderOK

(* The footer's first bytes are in the bit buffer, the rest in staging.    *)
LEMMA FooterReaderFits ==
  ASSUME StreamOK, ReaderFits(in), in.over <= in.left \div 8, BitPos(in) \in Nat,
         NEW a, a = Aligned(BitPos(in))
  PROVE  /\ BitPos(FooterReader) = a /\ a \in Nat
         /\ FooterSize \in Nat /\ FooterSize <= 8
         /\ FromStaging \in Nat /\ FromStaging <= FooterSize
         /\ FromStaging > 0 => a + 8 * FooterSize = 8 * (in.pos + FromStaging)
         /\ FromStaging = 0 => a + 8 * FooterSize <= 8 * in.pos
<1> DEFINE m == in.left % 8
           q == in.left \div 8
<1>1. /\ in.pos \in Nat /\ in.left \in Nat /\ in.over \in Nat
      /\ BitPos(in) = 8 * (in.pos + in.over) - in.left
  BY ReaderTypes DEF ReaderFits
<1>2. m \in 0 .. 7 /\ m <= in.left /\ BitPos(Consumed(in, m)) = Aligned(BitPos(in))
  BY AligningReader
<1>3. BitPos(FooterReader) = a
  BY <1>2 DEF FooterReader
<1>4. /\ FooterReader.pos = in.pos /\ FooterReader.over = in.over
      /\ FooterReader.left = in.left - m
      /\ BitPos(FooterReader) = BitPos(in) + m
  <2>1. m \in Nat
    BY <1>2
  <2> HIDE DEF m
  <2>2. QED BY <1>2, <2>1, ConsumedFits DEF FooterReader, m
<1>5. in.left = 8 * q + m /\ q \in Nat /\ in.over <= q
  <2>1. 8 \in Nat \ {0} /\ in.left \in Int
    BY <1>1
  <2>2. in.left = 8 * (in.left \div 8) + (in.left % 8) /\ in.left \div 8 \in Int
    BY <2>1, DivMod
  <2>3. QED BY <1>1, <2>2
<1> HIDE DEF q
<1>6. (in.left - m) \div 8 = q
  <2> HIDE DEF m
  <2>1. in.left - m = 8 * q
    BY <1>1, <1>2, <1>5
  <2> DEFINE x == in.left - m
  <2>2. x = 8 * q
    BY <2>1
  <2> HIDE DEF x
  <2>3. x \div 8 = q
    BY <1>5, <2>2
  <2>4. QED BY <2>3 DEF x
<1> HIDE DEF m
<1>7. RealBytes(FooterReader) = q - in.over /\ q - in.over \in Nat
  <2>1. RealBytes(FooterReader) = Max({q - in.over, 0})
    BY <1>4, <1>6 DEF RealBytes
  <2>2. q - in.over \in Int /\ q - in.over >= 0
    BY <1>1, <1>5
  <2>3. QED BY <2>1, <2>2, MaxWithZero
<1>8. a = (8 * (in.pos + in.over) - (8 * q + m)) + m
  BY <1>1, <1>3, <1>4, <1>5
<1>9. a \in Nat
  BY AlignedFacts
<1>10. FooterSize \in Nat /\ FooterSize <= 8
  BY DEF FooterSize, FooterBytes
<1> DEFINE taken == AtMost(RealBytes(FooterReader), FooterSize)
<1>11. FromStaging = FooterSize - taken
  BY DEF FromStaging
<1>12. taken = AtMost(q - in.over, FooterSize)
  BY <1>7
<1> HIDE DEF taken
<1>13. /\ FromStaging \in Nat /\ FromStaging <= FooterSize
       /\ FromStaging > 0 => a + 8 * FooterSize = 8 * (in.pos + FromStaging)
       /\ FromStaging = 0 => a + 8 * FooterSize <= 8 * in.pos
  <2> DEFINE size == FooterSize
             need == FromStaging
             real == q - in.over
  <2>1. /\ q \in Nat /\ m \in Nat /\ in.over \in Nat /\ in.pos \in Nat /\ a \in Nat
        /\ size \in Nat /\ real \in Nat
        /\ a = (8 * (in.pos + in.over) - (8 * q + m)) + m /\ need = size - taken
    BY <1>1, <1>2, <1>5, <1>7, <1>8, <1>9, <1>10, <1>11
  <2>2. real = q - in.over
    OBVIOUS
  <2>3. taken = IF real <= size THEN real ELSE size
    BY <1>12 DEF AtMost
  <2> HIDE DEF size, need, real
  <2>4. /\ need \in Nat /\ need <= size
        /\ need > 0 => a + 8 * size = 8 * (in.pos + need)
        /\ need = 0 => a + 8 * size <= 8 * in.pos
    <3>1. CASE real <= size
      BY <2>1, <2>2, <2>3, <3>1
    <3>2. CASE real > size
      BY <2>1, <2>2, <2>3, <3>2
    <3>3. QED BY <2>1, <3>1, <3>2
  <2>5. QED BY <2>4 DEF size, need
<1>14. QED BY <1>3, <1>9, <1>10, <1>13

(* Where parse_wrapper_footer starts.                                      *)
AtFooter(k) ==
  /\ k \in 0 .. stream.held /\ k + 1 \in 1 .. Size /\ Tracks(k)
  /\ D[k] \in Meaning /\ D[k].place = "footer" /\ D[k].final = TRUE /\ D[k].fault = FALSE
  /\ D[k].out = produced
  /\ stream.toks[k + 1] \in Token /\ stream.toks[k + 1].kind = "footer"
  /\ stream.starts[k + 1] \in Nat
  /\ stream.starts[k + 1] = Aligned(TokenEnd(k)) /\ TokenEnd(k) \in Nat
  /\ TokenEnd(k + 1) = stream.starts[k + 1] + 8 * FooterSize
  /\ k < stream.held <=> TokenEnd(k + 1) <= 8 * stream.nbytes

LEMMA FooterStart ==
  ASSUME Ready, dec.state = "WrapperFooter"
  PROVE  /\ ~hist.phantom /\ wrapper # "raw"
         /\ dec.match = NoMatch /\ dec.lits = <<>>
         /\ in.over <= in.left \div 8
         /\ \E k : /\ AtFooter(k)
                   /\ \/ BitPos(in) = TokenEnd(k)
                      \/ /\ hist.errors > 0 /\ in.left = 0 /\ in.over = 0
                         /\ 8 * in.pos >= stream.starts[k + 1]
<1>0. /\ Known /\ LaidOut /\ Meant /\ Suited /\ DecoderFits
  BY ReadyFacts
<1>1. ~hist.phantom
  BY StillTracks
<1>2. PICK k \in 0 .. stream.held : Tracks(k)
  BY <1>1, StillTracks
<1>3. /\ D[k].place = "footer" /\ wrapper # "raw" /\ D[k].final = dec.final
      /\ ~D[k].fault /\ D[k].fault = FALSE
  BY <1>2 DEF Tracks, Expects, Good
<1>4. dec.match = NoMatch /\ dec.lits = <<>> /\ dec.final
  BY <1>0 DEF DecoderFits
<1>5. produced = D[k].out
  BY <1>2, <1>4, OwesNothing
<1>6. in.over <= in.left \div 8
  BY DEF Ready, DecodingInv, ReaderInv
<1>7. k \in 0 .. Size /\ Size \in Nat /\ stream.held \in 0 .. Size /\ k \in Nat
      /\ TokenEnd(k) \in Nat
  <2>1. k \in 0 .. Size /\ Size \in Nat /\ stream.held \in 0 .. Size /\ TokenEnd(k) \in Nat
    BY <1>0, TokenEnds DEF LaidOut
  <2>2. QED BY <2>1
<1>8. D[k] \in Meaning
  BY <1>0, <1>7 DEF Meant
<1>9. D[k].final = TRUE
  BY <1>3, <1>4, <1>8 DEF Meaning
<1>10. k # Size
  BY <1>0, <1>3, Zenon DEF Suited
<1>11. k + 1 \in 1 .. Size /\ (k + 1) - 1 = k
  BY <1>7, <1>10
<1> DEFINE t == stream.toks[k + 1]
<1>12. t \in Token /\ PlaceOf(t) = D[k].place
  BY <1>0, <1>3, <1>11 DEF Suited, LaidOut
<1>13. t.kind = "footer"
  BY <1>3, <1>12 DEF PlaceOf
<1>14. t.bits = 8 * FooterSize /\ Width(t) = 8 * FooterSize
  <2>1. t.bits = 8 * FooterSize
    BY <1>0, <1>11, <1>13 DEF Suited
  <2>2. QED BY <1>13, <2>1 DEF Width
<1>15. /\ stream.starts[k + 1] = StartAt(stream.toks, k + 1, TokenEnd(k))
       /\ TokenEnd(k + 1) = stream.starts[k + 1] + Width(t)
       /\ k + 1 <= stream.held <=> TokenEnd(k + 1) <= 8 * stream.nbytes
  BY <1>0, <1>7, <1>11 DEF LaidOut
<1>16. stream.starts[k + 1] = Aligned(TokenEnd(k)) /\ stream.starts[k + 1] \in Nat
  <2>1. k + 1 <= Len(stream.toks)
    BY <1>11 DEF Size
  <2>2. stream.starts[k + 1] = Aligned(TokenEnd(k))
    BY <1>13, <1>15, <2>1 DEF StartAt
  <2>3. QED BY <1>7, <2>2, AlignedFacts
<1>17. k < stream.held <=> k + 1 <= stream.held
  BY <1>7
<1>18. AtFooter(k)
  BY <1>2, <1>3, <1>5, <1>7, <1>8, <1>9, <1>11, <1>12, <1>13, <1>14, <1>15, <1>16, <1>17
     DEF AtFooter
<1>19. \/ BitPos(in) = TokenEnd(k)
       \/ /\ hist.errors > 0 /\ in.left = 0 /\ in.over = 0
          /\ 8 * in.pos >= stream.starts[k + 1]
  BY <1>2, Zenon DEF Tracks, Placed
<1>20. QED BY <1>1, <1>3, <1>4, <1>6, <1>18, <1>19

LEMMA FooterMissing ==
  ASSUME Ready, NEW k, AtFooter(k), ~(k < stream.held)
  PROVE  ~Acceptable
<1>1. k = stream.held /\ stream.held # Size
  <2>1. k \in 0 .. stream.held /\ k + 1 \in 1 .. Size
    BY DEF AtFooter
  <2>2. stream.held \in Nat /\ Size \in Nat
    BY ReadyFacts, TokenEnds
  <2>3. QED BY <2>1, <2>2
<1>2. stream.means.fault
  BY <1>1, ReadyFacts, StreamMeans
<1>3. QED BY <1>2 DEF Acceptable

(* Nothing comes after the footer.                                         *)
LEMMA FooterEndsStream ==
  ASSUME Ready, NEW k, AtFooter(k), k < stream.held
  PROVE  /\ stream.held = k + 1 /\ k + 1 = Size /\ k \in 0 .. stream.held
         /\ stream.means.out = produced /\ stream.means.final = TRUE
         /\ stream.means.sum_ok <=> stream.toks[k + 1].sum = produced
         /\ stream.means.size_ok <=> stream.toks[k + 1].size = Len(produced)
         /\ Acceptable <=> FooterAccepted
<1> DEFINE t == stream.toks[k + 1]
<1>1. /\ Known /\ Meant /\ Suited /\ LaidOut
  BY ReadyFacts
<1>2. /\ k \in 0 .. stream.held /\ k + 1 \in 1 .. Size
      /\ D[k] \in Meaning /\ D[k].final = TRUE /\ D[k].fault = FALSE
      /\ D[k].out = produced /\ t \in Token /\ t.kind = "footer"
  BY DEF AtFooter
<1>3. stream.held \in 0 .. Size /\ Size \in Nat /\ k \in Nat
  <2>1. stream.held \in 0 .. Size /\ Size \in Nat
    BY <1>1 DEF LaidOut
  <2>2. QED BY <1>2, <2>1
<1>4. D[k + 1] = DecodeToken(D[k], t)
  <2>1. ~D[k].fault
    BY <1>2
  <2>2. QED BY <1>1, <1>2, <2>1, NextToken
<1>5. /\ D[k + 1].out = D[k].out /\ D[k + 1].final = D[k].final /\ D[k + 1].fault = FALSE
      /\ D[k + 1].sum_ok = (t.sum = D[k].out)
      /\ D[k + 1].size_ok = (t.size = Len(D[k].out))
      /\ D[k + 1].place = "end"
  <2>1. ~D[k].fault
    BY <1>2
  <2>2. QED BY <1>2, <1>4, <2>1, FooterMeans
<1>6. k + 1 = Size
  <2> SUFFICES ASSUME k + 1 # Size PROVE FALSE
    OBVIOUS
  <2>1. k + 2 \in 1 .. Size /\ (k + 2) - 1 = k + 1
    BY <1>2, <1>3
  <2>2. D[k + 1].fault \/ PlaceOf(stream.toks[k + 2]) = D[k + 1].place
    BY <1>1, <2>1 DEF Suited
  <2>3. PlaceOf(stream.toks[k + 2]) = "end"
    BY <1>5, <2>2
  <2>4. stream.toks[k + 2] \in Token
    BY <1>1, <2>1 DEF LaidOut
  <2>5. stream.toks[k + 2].kind # "end"
    BY <2>4, TokenKind
  <2>6. QED BY <2>3, <2>5 DEF PlaceOf
<1>7. stream.held = k + 1 /\ stream.held = Size
  BY <1>2, <1>3, <1>6
<1>8. /\ stream.means.out = produced
      /\ stream.means.sum_ok = (t.sum = produced)
      /\ stream.means.size_ok = (t.size = Len(produced))
  BY <1>1, <1>2, <1>5, <1>7, StreamMeans
<1>9. /\ ~stream.means.fault /\ stream.means.final /\ ~stream.means.segment
  BY <1>1, <1>2, <1>5, <1>7, StreamMeans
<1>10. stream.means.final = TRUE
  <2>1. stream.means.final \in BOOLEAN
    BY <1>1 DEF Meant
  <2>2. QED BY <1>9, <2>1
<1>11. Acceptable <=> FooterAccepted
  BY <1>9 DEF Acceptable
<1>12. QED BY <1>2, <1>6, <1>7, <1>8, <1>10, <1>11

(* The checksum it is compared with is that of all that was produced.      *)
LEMMA FlushedHere ==
  ASSUME Ready, FlushChecksum, wrapper # "raw"
  PROVE  /\ produced' = produced /\ produced \in Seq(Byte) /\ total_output' = Len(produced)
         /\ checksum_policy # "ignore" => checksum' = produced
<1>1. WindowInv
  BY ReadyFacts
<1>2. /\ checksum' = FlushedChecksum /\ total_output' = FlushedTotal /\ produced' = produced
  BY DEF FlushChecksum
<1>3. /\ FlushedTotal = Len(produced)
      /\ FlushedChecksum \in Seq(Byte)
      /\ checksum_policy # "ignore" =>
           /\ Len(FlushedChecksum) = Len(produced)
           /\ \A i \in 1 .. Len(produced) : FlushedChecksum[i] = produced[i]
  BY <1>1, FlushCoversAll
<1>4. produced \in Seq(Byte)
  BY <1>1, ProducedKnown
<1> DEFINE f == FlushedChecksum
<1>5. checksum_policy # "ignore" => f = produced
  <2> HIDE DEF f
  <2> SUFFICES ASSUME checksum_policy # "ignore" PROVE f = produced
    OBVIOUS
  <2>1. f \in Seq(Byte) /\ Len(f) = Len(produced) /\ \A i \in 1 .. Len(f) : f[i] = produced[i]
    BY <1>3 DEF f
  <2>2. QED BY <1>4, <2>1, SeqEqual
<1>6. QED BY <1>2, <1>3, <1>4, <1>5

LEMMA FooterThere ==
  ASSUME Ready, NEW k, AtFooter(k), k < stream.held,
         BitPos(FooterReader) = stream.starts[k + 1]
  PROVE  /\ HasToken(FooterReader, {"footer"})
         /\ TheToken(FooterReader, {"footer"}) = stream.toks[k + 1]
<1>1. LaidOut /\ k \in 0 .. stream.held /\ stream.toks[k + 1].kind \in {"footer"}
  BY ReadyFacts DEF AtFooter
<1>2. QED BY <1>1, TokenHere

LEMMA FooterPassed ==
  ASSUME Ready, NEW k, AtFooter(k), k < stream.held,
         BitPos(FooterReader) \in Nat, BitPos(FooterReader) > stream.starts[k + 1]
  PROVE  ~HasToken(FooterReader, {"footer"})
<1> DEFINE bit == BitPos(FooterReader)
<1>1. LaidOut /\ stream.held = k + 1 /\ k \in 0 .. stream.held
  BY ReadyFacts, FooterEndsStream
<1>2. ASSUME NEW j \in 1 .. stream.held
      PROVE  stream.starts[j] # bit
  <2> HIDE DEF bit
  <2>1. stream.held \in Nat /\ k \in Nat /\ Size \in Nat /\ stream.held <= Size
    BY <1>1, TokenEnds
  <2>2. CASE j = k + 1
    BY <2>2 DEF bit
  <2>3. CASE j # k + 1
    <3>1. j \in 1 .. Size /\ j \in 0 .. Size /\ k \in j .. Size /\ k + 1 \in 1 .. Size
          /\ (k + 1) - 1 = k
      BY <1>1, <1>2, <2>1, <2>3
    <3>2. stream.starts[j] < TokenEnd(j) /\ TokenEnd(j) <= TokenEnd(k)
      BY <1>1, <3>1 DEF LaidOut
    <3>3. TokenEnd(k) <= stream.starts[k + 1]
      BY <1>1, <3>1 DEF LaidOut
    <3>4. /\ stream.starts[j] \in Nat /\ TokenEnd(j) \in Nat /\ TokenEnd(k) \in Nat
          /\ stream.starts[k + 1] \in Nat
      <4>1. j \in 1 .. (Size + 1) /\ k + 1 \in 1 .. (Size + 1) /\ k \in 0 .. Size
        BY <2>1, <3>1
      <4>2. QED BY <1>1, <3>1, <4>1 DEF LaidOut
    <3>5. QED BY <3>2, <3>3, <3>4 DEF bit
  <2>4. QED BY <2>2, <2>3
<1>3. TokensOf(stream, stream.nbytes, bit) = {}
  <2> HIDE DEF bit
  <2>1. QED BY <1>2 DEF TokensOf
<1>4. QED BY <1>3 DEF HasToken, Tokens, TokensFor

LEMMA SkippedFits ==
  ASSUME NEW i, ReaderFits(i), i.left = 0, i.over = 0, NEW s, s = [i EXCEPT !.pos = i.end]
  PROVE  /\ ReaderFits(s) /\ s.pos = i.end /\ s.end = i.end /\ s.left = 0 /\ s.over = 0
<1>1. i \in [pos : Nat, end : Nat, left : Int, over : Int] /\ i.end <= stream.nbytes
  BY DEF ReaderFits, ReaderOK
<1>2. /\ s \in [pos : Nat, end : Nat, left : Int, over : Int]
      /\ s.pos = i.end /\ s.end = i.end /\ s.left = 0 /\ s.over = 0
  BY <1>1
<1>3. INPUT_BUF_SIZE \in Nat
  BY StreamAssumption
<1>4. s.end - s.pos = 0 /\ s.pos <= s.end /\ i.end - i.end <= INPUT_BUF_SIZE
  BY <1>1, <1>2, <1>3
<1>5. QED BY <1>1, <1>2, <1>3, <1>4 DEF ReaderFits, ReaderOK

(* The reader that takes the footer's bytes from staging.                  *)
FooterInput == IF Staged(in) < FromStaging THEN Filled(Emptied(in)) ELSE Emptied(in)

LEMMA FooterInputFits ==
  ASSUME StreamOK, ReaderFits(in), FromStaging \in Nat, FromStaging <= 8
  PROVE  /\ ReaderFits(FooterInput)
         /\ FooterInput.pos = in.pos /\ FooterInput.left = 0 /\ FooterInput.over = 0
         /\ Staged(FooterInput) < FromStaging => FooterInput.end = stream.nbytes
<1>1. /\ ReaderFits(Emptied(in))
      /\ Emptied(in).pos = in.pos /\ Emptied(in).end = in.end
      /\ Emptied(in).left = 0 /\ Emptied(in).over = 0
  BY EmptiedFits
<1>2. /\ ReaderFits(Filled(Emptied(in)))
      /\ Filled(Emptied(in)).pos = in.pos /\ Filled(Emptied(in)).left = 0
      /\ Filled(Emptied(in)).over = 0
      /\ \/ Filled(Emptied(in)).end = stream.nbytes
         \/ Staged(Filled(Emptied(in))) = INPUT_BUF_SIZE
  BY <1>1, FilledFits
<1>3. INPUT_BUF_SIZE \in Nat /\ INPUT_BUF_SIZE >= 8
  BY StreamAssumption
<1>4. CASE Staged(in) < FromStaging
  <2>1. FooterInput = Filled(Emptied(in))
    BY <1>4 DEF FooterInput
  <2>2. Staged(FooterInput) = INPUT_BUF_SIZE => ~(Staged(FooterInput) < FromStaging)
    BY <1>3
  <2>3. QED BY <1>2, <2>1, <2>2
<1>5. CASE ~(Staged(in) < FromStaging)
  <2>1. FooterInput = Emptied(in)
    BY <1>5 DEF FooterInput
  <2>2. Staged(FooterInput) = Staged(in)
    BY <1>1, <2>1 DEF Staged
  <2>3. QED BY <1>1, <1>5, <2>1, <2>2
<1>6. QED BY <1>4, <1>5

(* The footer is in the source exactly when its bytes are found.           *)
LEMMA FooterBytesFound ==
  ASSUME Ready, dec.state = "WrapperFooter", NEW k, AtFooter(k), wrapper # "raw",
         in.over <= in.left \div 8,
         \/ BitPos(in) = TokenEnd(k)
         \/ /\ hist.errors > 0 /\ in.left = 0 /\ in.over = 0
            /\ 8 * in.pos >= stream.starts[k + 1]
  PROVE  /\ FromStaging \in Nat /\ FromStaging <= 8
         /\ BitPos(FooterReader) \in Nat
         /\ BitPos(FooterReader) >= stream.starts[k + 1]
         /\ hist.errors = 0 => BitPos(FooterReader) = stream.starts[k + 1]
         /\ ~(Staged(FooterInput) < FromStaging) => k < stream.held
         /\ Staged(FooterInput) < FromStaging => ~(k < stream.held) \/ hist.errors > 0
         /\ FromStaging > 0 => 8 * in.pos >= stream.starts[k + 1]
<1>1. /\ StreamOK /\ ReaderFits(in) /\ hist.errors \in Nat
  BY ReadyFacts
<1>2. /\ in.pos \in Nat /\ in.end \in Nat /\ in.left \in Int /\ in.over \in Int
      /\ stream.nbytes \in Nat /\ BitPos(in) = 8 * (in.pos + in.over) - in.left
      /\ in.end <= stream.nbytes /\ in.pos <= in.end
  BY <1>1, ReaderTypes DEF ReaderFits, StreamOK, ReaderOK
<1>3. /\ stream.starts[k + 1] = Aligned(TokenEnd(k)) /\ TokenEnd(k) \in Nat
      /\ stream.starts[k + 1] \in Nat
      /\ TokenEnd(k + 1) = stream.starts[k + 1] + 8 * FooterSize
      /\ k < stream.held <=> TokenEnd(k + 1) <= 8 * stream.nbytes
  BY DEF AtFooter
<1>4. BitPos(in) \in Nat
  <2>1. CASE BitPos(in) = TokenEnd(k)
    BY <1>3, <2>1
  <2>2. CASE in.left = 0 /\ in.over = 0
    BY <1>2, <2>2
  <2>3. QED BY <2>1, <2>2
<1> DEFINE a == Aligned(BitPos(in))
           s == stream.starts[k + 1]
<1>5. /\ BitPos(FooterReader) = a /\ a \in Nat
      /\ FooterSize \in Nat /\ FooterSize <= 8
      /\ FromStaging \in Nat /\ FromStaging <= FooterSize
      /\ FromStaging > 0 => a + 8 * FooterSize = 8 * (in.pos + FromStaging)
      /\ FromStaging = 0 => a + 8 * FooterSize <= 8 * in.pos
  BY <1>1, <1>4, FooterReaderFits
<1>6. a = s \/ (hist.errors > 0 /\ a = 8 * in.pos /\ a >= s)
  <2>1. CASE BitPos(in) = TokenEnd(k)
    BY <1>3, <2>1
  <2>2. CASE hist.errors > 0 /\ in.left = 0 /\ in.over = 0 /\ 8 * in.pos >= stream.starts[k + 1]
    <3>1. BitPos(in) = 8 * in.pos
      BY <1>2, <2>2
    <3>2. (8 * in.pos) % 8 = 0
      <4> DEFINE x == 8 * in.pos
      <4>1. x % 8 = 0
        BY <1>2
      <4>2. QED BY <4>1
    <3>3. a = 8 * in.pos
      BY <1>4, <3>1, <3>2, AlignedFacts
    <3>4. QED BY <2>2, <3>3
  <2>3. QED BY <2>1, <2>2
<1> HIDE DEF a
<1>7. /\ ReaderFits(FooterInput)
      /\ FooterInput.pos = in.pos /\ FooterInput.left = 0 /\ FooterInput.over = 0
      /\ Staged(FooterInput) < FromStaging => FooterInput.end = stream.nbytes
  <2>1. FromStaging <= 8
    BY <1>5
  <2>2. QED BY <1>1, <1>5, <2>1, FooterInputFits
<1>8. /\ FooterInput.end \in Nat /\ Staged(FooterInput) = FooterInput.end - in.pos
      /\ FooterInput.end <= stream.nbytes /\ in.pos <= FooterInput.end
  BY <1>7, ReaderTypes DEF ReaderFits, ReaderOK
<1>9. ~(Staged(FooterInput) < FromStaging) => k < stream.held
  <2> SUFFICES ASSUME ~(Staged(FooterInput) < FromStaging)
               PROVE  TokenEnd(k + 1) <= 8 * stream.nbytes
    BY <1>3
  <2>1. in.pos + FromStaging <= stream.nbytes
    BY <1>2, <1>5, <1>8
  <2>2. a + 8 * FooterSize <= 8 * (in.pos + FromStaging)
    BY <1>2, <1>5
  <2>3. s <= a
    BY <1>3, <1>5, <1>6
  <2>4. QED BY <1>2, <1>3, <1>5, <2>1, <2>2, <2>3
<1>10. Staged(FooterInput) < FromStaging => ~(k < stream.held) \/ hist.errors > 0
  <2> SUFFICES ASSUME Staged(FooterInput) < FromStaging, a = s
               PROVE  ~(TokenEnd(k + 1) <= 8 * stream.nbytes)
    BY <1>3, <1>6
  <2>1. in.pos + FromStaging > stream.nbytes /\ FromStaging > 0
    BY <1>2, <1>5, <1>7, <1>8
  <2>2. QED BY <1>2, <1>3, <1>5, <2>1
<1>11. FromStaging > 0 => 8 * in.pos >= s
  <2> SUFFICES ASSUME FromStaging > 0 PROVE 8 * in.pos >= s
    OBVIOUS
  <2>1. a <= 8 * in.pos
    BY <1>2, <1>5
  <2>2. s <= a
    BY <1>3, <1>5, <1>6
  <2>3. QED BY <1>2, <1>3, <1>5, <2>1, <2>2
<1>12. FromStaging <= 8 /\ a >= s /\ (hist.errors = 0 => a = s)
  BY <1>1, <1>3, <1>5, <1>6
<1>13. QED BY <1>5, <1>9, <1>10, <1>11, <1>12

(* The footer is compared with all that was produced.                      *)
LEMMA WrapperFooterFollows ==
  ASSUME Ready, ParseWrapperFooter
  PROVE  ReaderInv' /\ FollowedNext
<1> DEFINE i == FooterInput
           t == TheToken(FooterReader, {"footer"})
           there == HasToken(FooterReader, {"footer"})
           size_ok == wrapper = "gzip" => (there /\ SizeAgrees(t))
           matched == there /\ t.sum = checksum' /\ size_ok
           accepted == \/ ~options.verify_footer
                       \/ checksum_policy = "ignore" /\ size_ok
                       \/ checksum_policy = "report"
                       \/ checksum_policy = "verify" /\ matched
<1>1. /\ dec.state = "WrapperFooter" /\ FlushChecksum /\ UNCHANGED hist
      /\ IF Staged(i) < FromStaging
           THEN /\ in' = [i EXCEPT !.pos = i.end]
                /\ Fail("BadData")
                /\ UNCHANGED <<dec, done>>
           ELSE /\ in' = [i EXCEPT !.pos = @ + FromStaging]
                /\ done' = [done EXCEPT
                     !.footer = IF there THEN t.sum ELSE <<Junk>>,
                     !.matched = IF ~options.verify_footer \/ checksum_policy = "ignore" THEN @
                                 ELSE IF matched THEN "yes" ELSE "no"]
                /\ IF accepted
                     THEN ToAccount /\ dec' = [dec EXCEPT !.state = "Done"]
                     ELSE Fail("ChecksumMismatch") /\ UNCHANGED dec
  BY Zenon DEF ParseWrapperFooter, FooterInput
<1>2. /\ StreamOK /\ DecoderOK /\ ReaderFits(in) /\ CallOK /\ hist.errors \in Nat /\ CallFits
      /\ Suited
  BY ReadyFacts
<1>3. /\ ~hist.phantom /\ wrapper # "raw"
      /\ dec.match = NoMatch /\ dec.lits = <<>> /\ in.over <= in.left \div 8
  BY <1>1, FooterStart
<1>4. PICK k : /\ AtFooter(k)
               /\ \/ BitPos(in) = TokenEnd(k)
                  \/ /\ hist.errors > 0 /\ in.left = 0 /\ in.over = 0
                     /\ 8 * in.pos >= stream.starts[k + 1]
  BY <1>1, FooterStart
<1>5. /\ FromStaging \in Nat /\ FromStaging <= 8
      /\ BitPos(FooterReader) \in Nat
      /\ BitPos(FooterReader) >= stream.starts[k + 1]
      /\ hist.errors = 0 => BitPos(FooterReader) = stream.starts[k + 1]
      /\ ~(Staged(i) < FromStaging) => k < stream.held
      /\ Staged(i) < FromStaging => ~(k < stream.held) \/ hist.errors > 0
  BY <1>1, <1>3, <1>4, FooterBytesFound
<1>6. ReaderFits(i) /\ i.pos = in.pos /\ i.left = 0 /\ i.over = 0
  BY <1>2, <1>5, FooterInputFits
<1>7. /\ produced' = produced /\ produced \in Seq(Byte) /\ total_output' = Len(produced)
      /\ checksum_policy # "ignore" => checksum' = produced
  BY <1>1, <1>3, FlushedHere
<1>8. ~hist'.phantom /\ hist'.errors = hist.errors
  BY <1>1, <1>3
<1>9. k \in 0 .. stream.held /\ D[k].out = produced
  BY <1>4 DEF AtFooter
<1>10. Leads(produced', D[k].out)
  BY <1>7, <1>9, LeadsReflexive
<1>11. CASE Staged(i) < FromStaging
  <2>1. in' = [i EXCEPT !.pos = i.end] /\ Fail("BadData") /\ dec' = dec
    BY <1>1, <1>11
  <2>2. call'.pc = "idle" /\ call'.result = "BadData"
    BY <1>2, <2>1 DEF Fail, CallOK
  <2>3. ReaderFits(in') /\ in'.left = 0 /\ in'.over = 0
    BY <1>6, <2>1, SkippedFits
  <2>4. ReaderInv'
    BY <1>1, <2>1, <2>3, ReaderStaysFit
  <2>5. FollowsNext(k)
    BY <1>1, <1>10, <2>1 DEF FollowsNext
  <2>6. ~Acceptable \/ hist'.errors > 0
    BY <1>4, <1>5, <1>8, <1>11, FooterMissing
  <2>7. FollowedNext
    BY <1>1, <1>8, <1>9, <2>1, <2>2, <2>5, <2>6, Faults
  <2>8. QED BY <2>4, <2>7
<1>12. CASE ~(Staged(i) < FromStaging)
  <2>1. /\ in' = [i EXCEPT !.pos = @ + FromStaging]
        /\ done' = [done EXCEPT
             !.footer = IF there THEN t.sum ELSE <<Junk>>,
             !.matched = IF ~options.verify_footer \/ checksum_policy = "ignore" THEN @
                         ELSE IF matched THEN "yes" ELSE "no"]
        /\ IF accepted
             THEN ToAccount /\ dec' = [dec EXCEPT !.state = "Done"]
             ELSE Fail("ChecksumMismatch") /\ UNCHANGED dec
    BY <1>1, <1>12
  <2>2. k < stream.held
    BY <1>5, <1>12
  <2>3. /\ stream.means.out = produced /\ stream.means.final = TRUE
        /\ stream.means.sum_ok <=> stream.toks[k + 1].sum = produced
        /\ stream.means.size_ok <=> stream.toks[k + 1].size = Len(produced)
        /\ Acceptable <=> FooterAccepted
    BY <1>4, <2>2, FooterEndsStream
  <2>4. FromStaging <= Staged(i)
    <3>1. Staged(i) \in Nat
      BY <1>6, ReaderTypes DEF ReaderFits
    <3>2. QED BY <1>5, <1>12, <3>1
  <2>5. ReaderFits(in') /\ in'.left = 0 /\ in'.over = 0
    <3>1. i.left = 0 /\ i.over = 0
      BY <1>6
    <3>2. QED BY <1>5, <1>6, <2>1, <2>4, <3>1, StagedBytes
  <2>6. (dec'.state = "WrapperFooter" \/ dec'.state = "Done")
    BY <1>1, <1>2, <2>1 DEF DecoderOK
  <2>7. ReaderInv'
    BY <2>5, <2>6, ReaderStaysFit
  <2>8. done'.segment = FALSE /\ done.matched = None
        /\ done'.matched = IF ~options.verify_footer \/ checksum_policy = "ignore" THEN None
                           ELSE IF matched THEN "yes" ELSE "no"
    <3>1. DOMAIN done = {"matched", "footer", "segment"} /\ done.segment = FALSE
          /\ done.matched = None
      BY <1>2 DEF CallFits, Ready
    <3> HIDE DEF matched, there, t
    <3>2. QED BY <2>1, <3>1
  (* The footer is read at its place, or the place was lost. *)
  <2>9. BitPos(FooterReader) = stream.starts[k + 1] =>
          /\ size_ok <=> (wrapper = "gzip" => stream.means.size_ok)
          /\ checksum_policy # "ignore" => (matched <=> FooterAgrees)
    <3> SUFFICES ASSUME BitPos(FooterReader) = stream.starts[k + 1]
                 PROVE  /\ size_ok <=> (wrapper = "gzip" => stream.means.size_ok)
                        /\ checksum_policy # "ignore" => (matched <=> FooterAgrees)
      OBVIOUS
    <3>1. there /\ t = stream.toks[k + 1]
      BY <1>4, <2>2, FooterThere
    <3>2. SizeAgrees(t) <=> (wrapper = "gzip" => stream.means.size_ok)
      BY <1>7, <2>3, <3>1 DEF SizeAgrees
    <3>3. size_ok <=> (wrapper = "gzip" => stream.means.size_ok)
      BY <3>1, <3>2, Zenon
    <3>4. checksum_policy # "ignore" => (t.sum = checksum' <=> stream.means.sum_ok)
      BY <1>7, <2>3, <3>1
    <3> HIDE DEF size_ok, t, there
    <3>5. checksum_policy # "ignore" => (matched <=> FooterAgrees)
      BY <3>1, <3>3, <3>4, Zenon DEF FooterAgrees
    <3>6. QED BY <3>3, <3>5
  <2>10. BitPos(FooterReader) # stream.starts[k + 1] =>
           hist.errors > 0 /\ ~matched /\ (size_ok <=> wrapper # "gzip")
    <3> SUFFICES ASSUME BitPos(FooterReader) # stream.starts[k + 1]
                 PROVE  hist.errors > 0 /\ ~matched /\ (size_ok <=> wrapper # "gzip")
      OBVIOUS
    <3>1. hist.errors > 0
      BY <1>2, <1>5
    <3>2. BitPos(FooterReader) > stream.starts[k + 1]
      <4>1. stream.starts[k + 1] \in Nat
        BY <1>4 DEF AtFooter
      <4>2. QED BY <1>5, <4>1
    <3>3. ~there
      BY <1>4, <1>5, <2>2, <3>2, FooterPassed
    <3> HIDE DEF there
    <3>4. QED BY <3>1, <3>3, Zenon
  <2> HIDE DEF matched, size_ok
  <2>11. checksum_policy \in {"verify", "report", "ignore"}
    BY <1>2 DEF Suited, ChecksumPolicy
  <2>12. CASE accepted
    <3>1. dec'.state = "Done" /\ call'.pc = "account"
      BY <1>2, <2>1, <2>12 DEF ToAccount, DecoderOK, CallOK
    <3>2. FollowsNext(k)
      BY <1>10, <3>1 DEF FollowsNext
    <3>3. Acceptable
      <4>1. FooterAccepted
        BY <2>9, <2>10, <2>12, Zenon DEF FooterAccepted
      <4>2. QED BY <2>3, <4>1
    <3>4. (done'.matched # None /\ (hist'.errors = 0 \/ checksum_policy = "verify"))
             => (done'.matched = "yes" <=> FooterAgrees)
      <4> SUFFICES ASSUME done'.matched # None, hist'.errors = 0 \/ checksum_policy = "verify"
                   PROVE  done'.matched = "yes" <=> FooterAgrees
        OBVIOUS
      <4>1. /\ options.verify_footer /\ checksum_policy # "ignore"
            /\ done'.matched = IF matched THEN "yes" ELSE "no"
        BY <2>8
      <4>2. done'.matched = "yes" <=> matched
        BY <4>1
      <4>3. BitPos(FooterReader) = stream.starts[k + 1]
        <5>1. CASE hist'.errors = 0
          BY <1>5, <1>8, <5>1
        <5>2. CASE checksum_policy = "verify"
          <6>1. matched
            BY <2>12, <4>1, <5>2
          <6>2. QED BY <2>10, <6>1, Zenon
        <5>3. QED BY <5>1, <5>2
      <4>4. QED BY <2>9, <4>1, <4>2, <4>3
    <3>5. produced' = stream.means.out /\ done'.segment = ~stream.means.final
      BY <1>7, <2>3, <2>8
    <3>6. FollowedNext
      BY <1>8, <1>9, <3>1, <3>2, <3>3, <3>4, <3>5, Completes
    <3>7. QED BY <2>7, <3>6
  <2>13. CASE ~accepted
    <3>1. Fail("ChecksumMismatch") /\ dec' = dec
      BY <2>1, <2>13
    <3>2. call'.pc = "idle" /\ call'.result = "ChecksumMismatch"
      BY <1>2, <3>1 DEF Fail, CallOK
    <3>3. FollowsNext(k)
      BY <1>1, <1>10, <3>1 DEF FollowsNext
    <3>4. ~Acceptable \/ hist'.errors > 0
      <4> SUFFICES ASSUME ~(hist'.errors > 0) PROVE ~Acceptable
        OBVIOUS
      <4>1. BitPos(FooterReader) = stream.starts[k + 1]
        BY <1>2, <1>5, <1>8
      <4>2. ~FooterAccepted
        BY <2>9, <2>13, <4>1, Zenon DEF FooterAccepted
      <4>3. QED BY <2>3, <4>2
    <3>5. FollowedNext
      BY <1>1, <1>8, <1>9, <3>1, <3>2, <3>3, <3>4, Faults
    <3>6. QED BY <2>7, <3>5
  <2>14. QED BY <2>12, <2>13
<1>13. QED BY <1>11, <1>12

(* A source that fails there loses the footer's first bytes.               *)
LEMMA SourceFailsInFooterFollows ==
  ASSUME Ready, SourceFailsInFooter
  PROVE  ReaderInv' /\ FollowedNext
<1> DEFINE s == [Emptied(in) EXCEPT !.pos = in.end]
<1>1. /\ dec.state = "WrapperFooter" /\ Staged(in) < FromStaging /\ FlushChecksum
      /\ SourceFails(s) /\ dec' = dec
  BY DEF SourceFailsInFooter
<1>2. /\ StreamOK /\ DecoderOK /\ ReaderFits(in) /\ CallOK /\ HistOK /\ hist.errors \in Nat
  BY ReadyFacts
<1>3. /\ ~hist.phantom /\ wrapper # "raw"
      /\ dec.match = NoMatch /\ dec.lits = <<>> /\ in.over <= in.left \div 8
  BY <1>1, FooterStart
<1>4. PICK k : /\ AtFooter(k)
               /\ \/ BitPos(in) = TokenEnd(k)
                  \/ /\ hist.errors > 0 /\ in.left = 0 /\ in.over = 0
                     /\ 8 * in.pos >= stream.starts[k + 1]
  BY <1>1, FooterStart
<1>5. FromStaging \in Nat /\ (FromStaging > 0 => 8 * in.pos >= stream.starts[k + 1])
  BY <1>1, <1>3, <1>4, FooterBytesFound
<1>6. /\ ReaderFits(Emptied(in)) /\ Emptied(in).end = in.end
      /\ Emptied(in).left = 0 /\ Emptied(in).over = 0
  BY <1>2, EmptiedFits
<1>7. ReaderFits(s) /\ s.pos = in.end /\ s.left = 0 /\ s.over = 0
  <2>1. s = [Emptied(in) EXCEPT !.pos = Emptied(in).end]
    BY <1>6
  <2> HIDE DEF s
  <2>2. QED BY <1>6, <2>1, SkippedFits
<1> HIDE DEF s
<1>8. ReaderFits(in') /\ in'.pos = in.end /\ in'.left = 0 /\ in'.over = 0
  BY <1>1, <1>2, <1>7, FailedFits
<1>9. 8 * in'.pos >= stream.starts[k + 1]
  <2>1. /\ Staged(in) \in Nat /\ in.pos \in Nat /\ in.end \in Nat
        /\ Staged(in) = in.end - in.pos /\ in.pos <= in.end
    BY <1>2, ReaderTypes DEF ReaderFits, ReaderOK
  <2>2. FromStaging > 0
    BY <1>1, <1>5, <2>1
  <2>3. stream.starts[k + 1] \in Nat
    BY <1>4 DEF AtFooter
  <2>4. QED BY <1>5, <1>8, <2>1, <2>2, <2>3
<1>10. /\ call'.pc = "idle" /\ call'.result = "Source"
       /\ hist'.phantom = hist.phantom /\ hist'.errors = hist.errors + 1
  <2>1. call' = [call EXCEPT !.pc = "idle", !.result = "Source"]
        /\ hist' = [hist EXCEPT !.errors = @ + 1]
    BY <1>1 DEF SourceFails, Fail
  <2>2. QED BY <1>2, <2>1 DEF CallOK, HistOK
<1>11. /\ k \in 0 .. stream.held /\ Tracks(k) /\ D[k].out = produced /\ D[k].place = "footer"
  BY <1>4 DEF AtFooter
<1>12. produced' = produced /\ produced \in Seq(Byte)
  BY <1>1, <1>3, FlushedHere
<1>13. Expects(dec', in', k)
  BY <1>1, <1>11 DEF Tracks, Expects
<1>14. Placed(dec', in', hist'.errors, k)
  <2>1. hist'.errors > 0
    BY <1>2, <1>10
  <2>2. QED BY <1>1, <1>8, <1>9, <2>1 DEF Placed
<1>15. Owes(dec', produced', D[k].out)
  BY <1>1, <1>3, <1>11, <1>12, ConcatEmptySeq DEF Owes
<1>16. TracksNext(k)
  BY <1>10, <1>11, <1>13, <1>14, <1>15 DEF TracksNext, Tracks
<1>17. FollowedNext
  BY <1>1, <1>3, <1>10, <1>11, <1>16, Advances
<1>18. ReaderInv'
  BY <1>1, <1>8, ReaderStaysFit
<1>19. QED BY <1>17, <1>18

-------------------------------------------------------------------------------
(* All the handlers, the accounting and the caller.                        *)

(* The window's operations keep the format.                                *)
LEMMA UseKeepsFormat ==
  ASSUME BufferUse \/ UNCHANGED bufferVars
  PROVE  UNCHANGED formatVars
<1>1. CASE UNCHANGED bufferVars
  BY <1>1 DEF bufferVars
<1>2. CASE PutsBytes
  BY <1>2 DEF PutsBytes, PutBytes, WriteBytes
<1>3. CASE CopiesMatch
  BY <1>3 DEF CopiesMatch, WriteMatch, WriteBytes
<1>4. CASE CompactWhenFull
  BY <1>4 DEF CompactWhenFull, CompactOutput, Grow, Slide, NothingToCompact, bufferVars
<1>5. CASE AdvanceSome
  BY <1>5 DEF AdvanceSome, Advance
<1>6. CASE FlushChecksum
  BY <1>6 DEF FlushChecksum
<1>7. CASE ResetOutput
  BY <1>7 DEF ResetOutput
<1>8. QED BY <1>1, <1>2, <1>3, <1>4, <1>5, <1>6, <1>7 DEF BufferUse

(* What every handler starts from.                                         *)
LEMMA HandlerIsReady ==
  ASSUME DecodingInv, Sound, Sound', HandlerStep
  PROVE  Ready
<1>1. WindowInv /\ DecoderInv /\ DecoderInv'
  BY DEF Sound
<1>2. /\ BufferUse \/ UNCHANGED bufferVars
      /\ HandlerMove /\ UNCHANGED <<given, acct>>
  BY <1>1, EveryHandler DEF Handled
<1>3. Kept
  BY <1>2, UseKeepsFormat DEF Kept
<1>4. options.source_errors \in Nat
  BY KnownNow DEF Known, Suited
<1>5. ShapeFits
  BY DEF DecodingInv, ShapeFits
<1>6. ShapeFits' /\ Going
  BY <1>1, <1>3, <1>4, <1>5, HandlersKeepShape DEF Kept
<1>7. QED BY <1>2, <1>3, <1>6 DEF Ready

(* Every handler keeps the decoder in step with its stream.                *)
LEMMA HandlersFollow ==
  ASSUME Ready, DoublesFlagsAgree, HandlerStep
  PROVE  ReaderInv' /\ FollowedNext
<1>1. CASE ParseWrapperHeader \/ EndSegment \/ ParseBlockHeader
           \/ ParseDynamicPrecodeLens \/ EnterCodeLengths \/ ParseCodeLength
  BY <1>1, WrapperHeaderFollows, EndSegmentFollows, BlockHeaderFollows, PrecodeFollows,
     EnterCodeLengthsFollows, CodeLengthFollows
<1>2. CASE ResumeMatch \/ ResumeLiteral \/ EnterLoops
  BY <1>2, ResumeMatchFollows, ResumeLiteralFollows, EnterLoopsFollows
<1>3. CASE FastLiteral \/ FastMatch \/ FastEndOfBlock
  BY <1>3, FastLiteralFollows, FastMatchFollows, FastEndOfBlockFollows
<1>4. CASE GenericReenter \/ GenericOverrun \/ GenericLiteral \/ GenericMatch
           \/ GenericEndOfBlock
  BY <1>4, GenericReenterFollows, GenericOverrunFollows, GenericLiteralFollows,
     GenericMatchFollows, GenericEndOfBlockFollows
<1>5. CASE CopyUncompressed \/ ParseWrapperFooter
  BY <1>5, CopyUncompressedFollows, WrapperFooterFollows
<1>6. CASE SourceError
  BY <1>6, QuietFailuresFollow, SourceFailsInCopyFollows, SourceFailsInFooterFollows
     DEF SourceError
<1>7. QED BY <1>1, <1>2, <1>3, <1>4, <1>5, <1>6 DEF HandlerStep

LEMMA HandlersDecode ==
  ASSUME DecodingInv, Sound, Sound', DoublesFlagsAgree, HandlerStep
  PROVE  DecodingInv'
<1>1. Ready
  BY HandlerIsReady
<1>2. ReaderInv' /\ FollowedNext
  BY <1>1, HandlersFollow
<1>3. StreamKnown'
  BY <1>1, KeptStream DEF Ready, DecodingInv
<1>4. DecoderFits' /\ CallFits' /\ HistFits'
  BY <1>1 DEF Ready, ShapeFits
<1>5. QED BY <1>2, <1>3, <1>4 DEF DecodingInv, FollowedNext

(* Outside the handlers nothing is read.                                   *)
Idles ==
  /\ Kept /\ UNCHANGED <<in, dec, hist, done, produced>>
  /\ Alive' => Alive
  /\ call'.pc = "codelens" => call.pc = "codelens"
  /\ CallFits'
  /\ \/ call'.result = call.result
     \/ call'.result \notin {"BadData", "InvalidHeader", "ChecksumMismatch"}

(* A step that reads nothing leaves the decoder where it was.              *)
LEMMA IdlingTracks ==
  ASSUME Idles, NEW k, Tracks(k)
  PROVE  Tracks(k)'
<1>1. Kept /\ UNCHANGED <<in, dec, hist, produced>>
      /\ (call'.pc = "codelens" => call.pc = "codelens")
  BY DEF Idles
<1>2. TracksNext(k)
  BY <1>1 DEF Tracks, TracksNext
<1>3. QED BY <1>1, <1>2, NextTracks

LEMMA IdlingFollows ==
  ASSUME Idles, NEW k, Follows(k)
  PROVE  Follows(k)'
<1>1. Kept /\ UNCHANGED <<in, dec, produced>>
  BY DEF Idles
<1>2. FollowsNext(k)
  BY <1>1 DEF Follows, FollowsNext
<1>3. QED BY <1>1, <1>2, NextTracks

LEMMA IdlingKeepsVerdict ==
  ASSUME Idles, Verdict
  PROVE  Verdict'
<1>1. /\ stream' = stream /\ wrapper' = wrapper /\ checksum_policy' = checksum_policy
      /\ Acceptable' <=> Acceptable
  BY KeptStream DEF Idles
<1>2. /\ dec' = dec /\ hist' = hist /\ done' = done /\ produced' = produced
      /\ \/ call'.result = call.result
         \/ call'.result \notin {"BadData", "InvalidHeader", "ChecksumMismatch"}
  BY DEF Idles
<1>3. FooterAgrees' <=> FooterAgrees
  BY <1>1 DEF FooterAgrees
<1>4. DoneIsRight'
  BY <1>1, <1>2, <1>3 DEF Verdict, DoneIsRight
<1>5. NoFalseError'
  BY <1>1, <1>2 DEF Verdict, NoFalseError, NeverCalledCorrupt
<1>6. QED BY <1>4, <1>5 DEF Verdict

(* Such a step keeps the invariant.                                        *)
LEMMA IdlingDecodes ==
  ASSUME DecodingInv, Idles
  PROVE  DecodingInv'
<1>1. /\ Kept /\ in' = in /\ dec' = dec /\ hist' = hist
      /\ (Alive' => Alive) /\ CallFits'
  BY DEF Idles
<1>2. /\ stream' = stream /\ options' = options /\ StreamKnown'
      /\ Acceptable' <=> Acceptable
  BY <1>1, KeptStream DEF DecodingInv
<1>3. Going' => Going
  BY <1>1 DEF Going
<1>4. ReaderInv'
  <2>1. ReaderFits(in)'
    BY <1>1, <1>2 DEF DecodingInv, ReaderInv, ReaderFits, ReaderOK
  <2>2. QED BY <1>1, <1>2, <2>1 DEF DecodingInv, ReaderInv, Staged
<1>5. DecoderFits' /\ HistFits'
  BY <1>1, <1>2 DEF DecodingInv, DecoderFits, HistFits
<1>6. FollowInv'
  <2>1. CASE hist.phantom
    BY <1>1, <2>1 DEF FollowInv
  <2>2. CASE ~hist.phantom
    <3>1. PICK k \in 0 .. stream.held : Follows(k) /\ (Going => Tracks(k))
      BY <2>2 DEF DecodingInv, FollowInv
    <3>2. Follows(k)'
      BY <3>1, IdlingFollows
    <3>3. Going' => Tracks(k)'
      BY <3>1, <1>3, IdlingTracks
    <3>4. QED BY <1>2, <3>2, <3>3 DEF FollowInv
  <2>3. QED BY <2>1, <2>2
<1>7. PhantomInv'
  BY <1>1, <1>2 DEF DecodingInv, PhantomInv, BitPos
<1>8. Verdict'
  BY IdlingKeepsVerdict DEF DecodingInv
<1>9. QED BY <1>1, <1>2, <1>4, <1>5, <1>6, <1>7, <1>8 DEF DecodingInv

(* The accounting and the caller read nothing.                             *)
LEMMA ReturnIdles ==
  ASSUME DecodingInv, Sound, ReturnFromFill
  PROVE  Idles
<1>1. /\ call.pc = "account" /\ UNCHANGED <<bufferVars, given, in, dec, done, hist>>
      /\ \/ Fail("OutputLimitExceeded") \/ Fail("StallLimitExceeded") \/ Return
  BY DEF ReturnFromFill
<1>2. CallOK
  BY DEF Sound, DecoderInv
<1>3. call'.pc = "idle" /\ call'.result \in {"OutputLimitExceeded", "StallLimitExceeded", "ok"}
  BY <1>1, <1>2 DEF Fail, Return, CallOK
<1>4. Kept /\ produced' = produced
  BY <1>1 DEF Kept, bufferVars
<1>5. Alive
  BY <1>1 DEF Alive
<1>6. CallFits'
  BY <1>1, <1>3, <1>5 DEF DecodingInv, CallFits, Going, Alive
<1>7. QED BY <1>1, <1>3, <1>4, <1>5, <1>6 DEF Idles

LEMMA CompactionKeepsOutput ==
  ASSUME CompactOutput \/ UNCHANGED bufferVars
  PROVE  UNCHANGED formatVars /\ produced' = produced
BY DEF CompactOutput, Grow, Slide, NothingToCompact, bufferVars

LEMMA GoRoundIdles ==
  ASSUME DecodingInv, Sound, GoRound
  PROVE  Idles
<1>1. /\ call.pc = "account" /\ UNCHANGED <<given, in, dec, done, hist>>
      /\ CompactOutput \/ UNCHANGED bufferVars
      /\ ~MayReturn
  BY DEF GoRound
<1>2. call' = [call EXCEPT !.pc = "dispatch", !.prev = write_pos']
  BY GoRoundStep DEF Sound
<1>3. CallOK
  BY DEF Sound, DecoderInv
<1>4. call'.pc = "dispatch" /\ call'.result = call.result
  BY <1>2, <1>3 DEF CallOK
<1>5. Kept /\ produced' = produced
  BY <1>1, CompactionKeepsOutput DEF Kept
<1>6. Alive /\ dec.state # "Done"
  BY <1>1 DEF Alive, MayReturn
<1>7. CallFits'
  BY <1>1, <1>4, <1>6 DEF DecodingInv, CallFits, Going, Alive
<1>8. QED BY <1>1, <1>4, <1>5, <1>6, <1>7 DEF Idles

LEMMA BeginFillIdles ==
  ASSUME DecodingInv, Sound, BeginFill
  PROVE  Idles
<1>1. /\ call.pc = "idle" /\ UNCHANGED <<given, in, dec, done, hist>>
      /\ CompactOutput \/ UNCHANGED bufferVars
      /\ dec.state # "Done" /\ call.result \notin Fatal
      /\ call' = [call EXCEPT !.pc = "dispatch", !.prev = write_pos']
  BY DEF BeginFill
<1>2. CallOK
  BY DEF Sound, DecoderInv
<1>3. call'.pc = "dispatch" /\ call'.result = call.result
  BY <1>1, <1>2 DEF CallOK
<1>4. Kept /\ produced' = produced
  BY <1>1, CompactionKeepsOutput DEF Kept
<1>5. Alive
  BY <1>1 DEF Alive
<1>6. CallFits'
  BY <1>1, <1>3, <1>5 DEF DecodingInv, CallFits, Going, Alive
<1>7. QED BY <1>1, <1>3, <1>4, <1>5, <1>6 DEF Idles

LEMMA CallerIdles ==
  ASSUME DecodingInv, TakeOutput \/ RunningChecksum \/ Rest \/ UNCHANGED vars
  PROVE  Idles
<1>1. UNCHANGED streamVars /\ UNCHANGED formatVars /\ produced' = produced
  BY DEF TakeOutput, RunningChecksum, Rest, vars, bufferVars, Advance, FlushChecksum
<1>2. Kept /\ UNCHANGED <<in, dec, hist, done, call>>
  BY <1>1 DEF Kept, streamVars
<1>3. CallFits'
  BY <1>2 DEF DecodingInv, CallFits, Going, Alive
<1>4. QED BY <1>1, <1>2, <1>3 DEF Idles, Alive

(* A decoder that has just been given a stream has read none of it.        *)
Fresh ==
  /\ StreamKnown /\ in = FreshInput /\ done = FreshDone /\ call = FreshCall
  /\ dec.state = FirstState /\ dec.remaining = 0 /\ dec.final = FALSE
  /\ dec.match = NoMatch /\ dec.lits = <<>> /\ dec.static_loaded = FALSE
  /\ hist.errors <= options.source_errors /\ hist.resets \in 0 .. MaxResets
  /\ hist.phantom = FALSE /\ produced = <<>>

LEMMA FreshTracks ==
  ASSUME Fresh
  PROVE  Tracks(0) /\ Follows(0)
<1>1. LaidOut /\ Meant /\ Suited
  BY KnownStream DEF Fresh
<1>2. /\ D[0] = Undecoded(stream.toks) /\ D[0] \in Meaning /\ D[0].out = <<>>
      /\ ~D[0].final /\ ~D[0].fault /\ D[0].sum_ok /\ D[0].size_ok
      /\ D[0].place = IF stream.toks # <<>> /\ stream.toks[1].kind = "wrapper"
                        THEN "wrapper" ELSE "block"
  BY <1>1, UndecodedMeans DEF Meant
<1>3. /\ D[0].final = FALSE /\ D[0].fault = FALSE /\ D[0].sum_ok = TRUE
      /\ D[0].size_ok = TRUE
  BY <1>2 DEF Meaning
<1>4. (wrapper # "raw" /\ options.verify_footer)
        <=> (stream.toks # <<>> /\ stream.toks[1].kind = "wrapper")
  <2>1. Size > 0 <=> stream.toks # <<>>
    BY <1>1 DEF LaidOut, Size
  <2>2. QED BY <1>1, <2>1 DEF Suited
<1>5. \/ dec.state = "WrapperHeader" /\ D[0].place = "wrapper"
      \/ dec.state = "BlockHeader" /\ D[0].place = "block"
  BY <1>2, <1>4 DEF Fresh, FirstState
<1>6. in.pos = 0 /\ in.left = 0 /\ in.over = 0
  BY DEF Fresh, FreshInput
<1>7. Expects(dec, in, 0)
  BY <1>3, <1>5, <1>6 DEF Fresh, Expects
<1>8. BitPos(in) = TokenEnd(0)
  BY <1>6 DEF BitPos, TokenEnd
<1>9. Owes(dec, produced, D[0].out)
  BY <1>2 DEF Fresh, Owes
<1>10. call.pc = "idle"
  BY DEF Fresh, FreshCall
<1>11. Leads(produced, D[0].out)
  BY <1>2 DEF Fresh, Leads
<1>12. QED BY <1>3, <1>5, <1>7, <1>8, <1>9, <1>10, <1>11 DEF Tracks, Follows, Good, Placed

LEMMA FreshReads ==
  ASSUME Fresh
  PROVE  ReaderInv
<1>1. stream.nbytes \in Nat
  BY KnownStream DEF Fresh, LaidOut
<1>2. in = FreshInput /\ dec.state \in {"WrapperHeader", "BlockHeader"}
  BY DEF Fresh, FirstState
<1>3. ReaderFits(in)
  BY <1>1, <1>2, FreshReader, StreamAssumption DEF ReaderFits, FreshInput
<1>4. QED BY <1>2, <1>3 DEF ReaderInv, FreshInput

LEMMA FreshDecodes == Fresh => DecodingInv
<1> SUFFICES ASSUME Fresh PROVE DecodingInv
  OBVIOUS
<1>1. StreamKnown /\ ReaderInv
  BY FreshReads DEF Fresh
<1>2. dec.state \in {"WrapperHeader", "BlockHeader"}
  BY DEF Fresh, FirstState
<1>3. call.pc = "idle" /\ call.result = None
  BY DEF Fresh, FreshCall
<1>4. DecoderFits
  <2>1. dec.match = NoMatch /\ dec.lits = <<>> /\ dec.static_loaded = FALSE
    BY DEF Fresh
  <2>2. Len(dec.lits) <= 2
    BY <2>1
  <2>3. QED BY <1>2, <2>1, <2>2 DEF DecoderFits
<1>5. CallFits
  BY <1>2, <1>3 DEF Fresh, FreshDone, CallFits
<1>6. HistFits
  BY DEF Fresh, HistFits
<1>7. FollowInv
  <2>1. 0 \in 0 .. stream.held
    BY <1>1, KnownStream DEF LaidOut
  <2>2. QED BY <2>1, FreshTracks DEF FollowInv
<1>8. PhantomInv
  BY DEF Fresh, PhantomInv
<1>9. Verdict
  BY <1>2, <1>3 DEF Verdict, DoneIsRight, NoFalseError, NeverCalledCorrupt, None
<1>10. QED BY <1>1, <1>4, <1>5, <1>6, <1>7, <1>8, <1>9 DEF DecodingInv

LEMMA InitIsFresh == Init => Fresh
<1> SUFFICES ASSUME Init PROVE Fresh
  OBVIOUS
<1>1. StreamKnown
  BY DEF Init, StreamKnown
<1>2. options.source_errors \in Nat
  BY <1>1, KnownStream DEF Suited
<1>3. QED BY <1>1, <1>2, StreamAssumption
   DEF Init, Fresh, BufferInit, FreshHist

LEMMA ResetIsFresh ==
  ASSUME DecodingInv, DecoderInv, Reset
  PROVE  Fresh'
<1>1. /\ hist.resets < MaxResets /\ ResetOutput
      /\ \E u \in Setups : SetUpAs(u) /\ stream' \in Sources(u)
      /\ options' = options /\ in' = FreshInput /\ dec' = Rewound(dec)
      /\ done' = FreshDone /\ call' = FreshCall
      /\ hist' = [FreshHist EXCEPT !.errors = hist.errors, !.resets = hist.resets + 1]
  BY DEF Reset
<1>2. wrapper' = wrapper /\ checksum_policy' = checksum_policy /\ produced' = <<>>
  BY <1>1 DEF ResetOutput, formatVars
<1>3. StreamKnown'
  <2>1. PICK u \in Setups : SetUpAs(u) /\ stream' \in Sources(u)
    BY <1>1
  <2>2. SetUpAs(u)'
    BY <1>1, <1>2, <2>1 DEF SetUpAs
  <2>3. QED BY <2>1, <2>2 DEF StreamKnown
<1>4. FirstState' = FirstState
  BY <1>1, <1>2 DEF FirstState
<1>5. /\ dec'.state = FirstState /\ dec'.remaining = 0 /\ dec'.final = FALSE
      /\ dec'.match = NoMatch /\ dec'.lits = <<>> /\ dec'.static_loaded = FALSE
  BY <1>1 DEF Rewound, DecoderInv, DecoderOK
<1>6. hist'.errors = hist.errors /\ hist'.resets = hist.resets + 1 /\ hist'.phantom = FALSE
  BY <1>1 DEF FreshHist
<1>7. hist.errors <= options.source_errors /\ hist.resets \in 0 .. MaxResets
  BY DEF DecodingInv, HistFits
<1>8. hist'.errors <= options'.source_errors /\ hist'.resets \in 0 .. MaxResets
  BY <1>1, <1>6, <1>7, StreamAssumption
<1>9. QED BY <1>1, <1>2, <1>3, <1>4, <1>5, <1>6, <1>8 DEF Fresh

-------------------------------------------------------------------------------
(* Every step keeps the decoder in step with its stream.                   *)

LEMMA StepDecodes ==
  DecodingInv /\ Sound /\ Sound' /\ DoublesFlagsAgree /\ [Next]_vars => DecodingInv'
<1> SUFFICES ASSUME DecodingInv, Sound, Sound', DoublesFlagsAgree, [Next]_vars
             PROVE  DecodingInv'
  OBVIOUS
<1>1. CASE HandlerStep
  BY <1>1, HandlersDecode
<1>2. CASE ReturnFromFill \/ GoRound \/ BeginFill
  BY <1>2, ReturnIdles, GoRoundIdles, BeginFillIdles, IdlingDecodes
<1>3. CASE TakeOutput \/ RunningChecksum \/ Rest \/ UNCHANGED vars
  BY <1>3, CallerIdles, IdlingDecodes
<1>4. CASE Reset
  <2>1. Fresh'
    BY <1>4, ResetIsFresh DEF Sound
  <2>2. (Fresh => DecodingInv)'
    BY FreshDecodes, PTL
  <2>3. QED BY <2>1, <2>2
<1>5. QED BY <1>1, <1>2, <1>3, <1>4, NextCases

LEMMA AlwaysDecodes == Spec => []DecodingInv
<1>1. Init => DecodingInv
  BY InitIsFresh, FreshDecodes
<1>2. QED BY <1>1, StepDecodes, SoundHolds, FlagsAlwaysAgree, PTL DEF Spec

-------------------------------------------------------------------------------
(* What that says of the decoder's promises.                               *)

(* peek() is the end of what was produced.                                 *)
LEMMA PeekIsSuffix ==
  ASSUME WindowInv
  PROVE  IsSuffix(Peek, produced)
<1>1. /\ write_pos \in Nat /\ read_pos \in 0 .. write_pos
      /\ produced \in Seq(Byte) /\ buffer \in Seq(Byte) /\ write_pos <= Len(buffer)
      /\ write_pos <= Len(produced)
      /\ \A p \in 1 .. write_pos : buffer[p] = produced[Len(produced) - write_pos + p]
  BY DEF WindowInv, BufferTypeOK, WindowHoldsTail
<1>2. Len(produced) \in Nat /\ \A i \in 1 .. Len(produced) : produced[i] \in Byte
  BY <1>1, LenProperties, ElementOfSeq
<1> DEFINE l == Len(produced)
           n == PeekLen
           back == Reverse(produced)
           peeked == Reverse(Peek)
<1>3. n \in Nat /\ n <= write_pos /\ n = write_pos - read_pos /\ l \in Nat /\ n <= l
  BY <1>1, <1>2 DEF PeekLen
<1>4. \A i \in 1 .. n : /\ read_pos + i \in 1 .. write_pos
                        /\ l - n + i \in 1 .. l
                        /\ l - write_pos + (read_pos + i) = l - n + i
  <2> HIDE DEF n, l
  <2> QED BY <1>1, <1>3
<1>5. \A i \in 1 .. n : Peek[i] = produced[l - n + i] /\ Peek[i] \in Byte
  BY <1>1, <1>2, <1>4 DEF Peek
<1>6. Peek \in Seq(Byte) /\ Len(Peek) = n
  <2>1. Peek \in [1 .. n -> Byte]
    BY <1>5 DEF Peek
  <2>2. QED BY <1>3, <2>1, FunctionIsSequence
<1>7. peeked \in Seq(Byte) /\ Len(peeked) = n
      /\ \A i \in 1 .. n : peeked[i] = Peek[(n - i) + 1]
  <2>1. \A i \in 1 .. n : (n - i) + 1 \in 1 .. n
    BY <1>3
  <2>2. peeked = [i \in 1 .. n |-> Peek[(n - i) + 1]]
    BY <1>6 DEF Reverse
  <2>3. peeked \in [1 .. n -> Byte]
    BY <1>5, <2>1, <2>2
  <2>4. QED BY <1>3, <2>2, <2>3, FunctionIsSequence
<1>8. back \in Seq(Byte) /\ Len(back) = l
      /\ \A i \in 1 .. l : back[i] = produced[(l - i) + 1]
  <2>1. \A i \in 1 .. l : (l - i) + 1 \in 1 .. l
    BY <1>3
  <2>2. back = [i \in 1 .. l |-> produced[(l - i) + 1]]
    BY DEF Reverse
  <2>3. back \in [1 .. l -> Byte]
    BY <1>2, <2>1, <2>2
  <2>4. QED BY <1>3, <2>2, <2>3, FunctionIsSequence
<1>9. \A i \in 1 .. n : /\ i \in 1 .. l /\ (n - i) + 1 \in 1 .. n
                        /\ l - n + ((n - i) + 1) = (l - i) + 1
  <2> HIDE DEF n, l
  <2> QED BY <1>3
<1>10. \A i \in 1 .. n : back[i] = peeked[i]
  <2> SUFFICES ASSUME NEW i \in 1 .. n PROVE back[i] = peeked[i]
    OBVIOUS
  <2>1. back[i] = produced[(l - i) + 1]
    BY <1>8, <1>9
  <2>2. peeked[i] = Peek[(n - i) + 1]
    BY <1>7
  <2>3. Peek[(n - i) + 1] = produced[l - n + ((n - i) + 1)]
    BY <1>5, <1>9
  <2>4. QED BY <1>9, <2>1, <2>2, <2>3
<1>11. Leads(peeked, back)
  BY <1>3, <1>7, <1>8, <1>10 DEF Leads
<1>12. QED BY <1>7, <1>8, <1>11, PrefixLeads DEF IsSuffix

LEMMA DecoderIsTyped ==
  ASSUME DecodingInv, Sound
  PROVE  TypeOK
<1>1. /\ StreamOK /\ DecoderOK /\ HistOK
  BY DEF Sound, DecoderInv
<1>2. /\ ReaderFits(in) /\ ReaderOK(in)
      /\ dec.state = "WrapperFooter" => in.over <= in.left \div 8
  BY DEF DecodingInv, ReaderInv, ReaderFits
<1>3. /\ in.pos \in Positions /\ in.end \in in.pos .. stream.nbytes
      /\ in.end - in.pos <= INPUT_BUF_SIZE
      /\ in.left \in 0 .. 63
      /\ in.over \in 0 .. 15
  BY <1>1, <1>2 DEF ReaderFits, ReaderOK, StreamOK, Positions
<1>4. /\ dec.remaining \in Nat
      /\ dec.match.length > 0 => dec.lits = <<>>
      /\ Len(dec.lits) <= 2
      /\ dec.table.bits \in 0 .. LITLEN_TABLEBITS
      /\ dec.state \in {"WrapperHeader", "BlockHeader", "DynamicPrecodeLens",
                    "DynamicCodeLengths", "CompressedData", "UncompressedData",
                    "WrapperFooter", "Done"}
  BY <1>1 DEF DecodingInv, DecoderFits, DecoderOK, NoMatch
<1>5. call.pc \in {"idle", "dispatch", "codelens", "refill", "fast", "generic", "account"}
  BY DEF DecodingInv, CallFits
<1>6. options.source_errors \in Nat
  BY KnownNow DEF Known, Suited
<1>7. hist.errors \in 0 .. options.source_errors /\ hist.resets \in 0 .. MaxResets
  BY <1>1, <1>6 DEF HistOK, DecodingInv, HistFits
<1>8. QED BY <1>2, <1>3, <1>4, <1>5, <1>7 DEF TypeOK

LEMMA OutputLeads ==
  ASSUME DecodingInv, Sound
  PROVE  OutputIsPrefix
<1>1. WindowInv /\ Known /\ TypeOK /\ produced \in Seq(Byte)
  BY KnownNow, DecoderIsTyped DEF Sound, WindowInv, BufferTypeOK
<1>2. ASSUME ~hist.phantom
      PROVE  IsPrefix(produced, stream.means.out) /\ TableFitsBlock
  <2>1. PICK k \in 0 .. stream.held : Follows(k)
    BY <1>2 DEF DecodingInv, FollowInv
  <2>2. Leads(produced, D[k].out)
    BY <2>1 DEF Follows
  <2>3. /\ D[k].out \in Seq(Byte) /\ stream.means.out \in Seq(Byte)
        /\ Leads(D[k].out, stream.means.out)
    BY <1>1, OutLeads
  <2>4. Leads(produced, stream.means.out)
    BY <1>1, <2>2, <2>3, LeadsTransitive
  <2>5. TableFitsBlock
    BY <1>1, <2>1, BlockTypeIs DEF TableFitsBlock, Follows
  <2>6. QED BY <1>1, <2>3, <2>4, <2>5, PrefixLeads
<1>3. IsSuffix(Peek, produced)
  BY <1>1, PeekIsSuffix
<1>4. hist.phantom => ~Acceptable
  BY DEF DecodingInv, PhantomInv
<1>5. QED BY <1>1, <1>2, <1>3, <1>4 DEF OutputIsPrefix

(* Whatever the sizes of the output and staging buffers, the pieces the    *)
(* caller takes, the errors of the source and the resets between streams,  *)
(* the bytes produced are the beginning of what RFC 1951 assigns to the    *)
(* stream and peek() is their end (streaming.rs 743-846).                  *)
THEOREM StreamDecodesRight == Spec => []OutputIsPrefix
<1>1. DecodingInv /\ Sound => OutputIsPrefix
  BY OutputLeads
<1>2. QED BY <1>1, AlwaysDecodes, SoundHolds, PTL

(* A decoder that says it is done has decoded a whole stream it should     *)
(* accept, and its verdict on the footer is the right one.                 *)
THEOREM DoneMeansDecoded == Spec => []DoneIsRight
<1>1. DecodingInv => DoneIsRight
  BY DEF DecodingInv, Verdict
<1>2. QED BY <1>1, AlwaysDecodes, PTL

(* While the source delivers, no stream that should be accepted is ever    *)
(* called corrupt.                                                         *)
THEOREM NoStreamMisjudged == Spec => []NoFalseError
<1>1. DecodingInv => NoFalseError
  BY DEF DecodingInv, Verdict
<1>2. QED BY <1>1, AlwaysDecodes, PTL

-------------------------------------------------------------------------------
(* Blocks without output.                                                  *)

(* A token's part in a run of blocks without output.                       *)
RunAfter(n, t) ==
  IF Productive(t) THEN 0 ELSE n + (IF t.kind = "block" THEN 1 ELSE 0)

(* What EmptyRuns computes, step by step.                                  *)
LEMMA RunsKnown ==
  ASSUME NEW toks \in Seq(Token)
  PROVE  /\ \A k \in 0 .. Len(toks) : EmptyRuns(toks)[k] \in Nat
         /\ EmptyRuns(toks)[0] = 0
         /\ \A k \in 1 .. Len(toks) :
              EmptyRuns(toks)[k] = RunAfter(EmptyRuns(toks)[k - 1], toks[k])
<1> DEFINE N == Len(toks)
           step == [k \in 1 .. N |-> [n \in Nat |-> RunAfter(n, toks[k])]]
           Holds(f) == f = [k \in 0 .. Len(toks) |->
                              IF k = 0 \/ Productive(toks[k]) THEN 0
                              ELSE f[k - 1] + (IF toks[k].kind = "block" THEN 1 ELSE 0)]
<1>1. N \in Nat
  BY LenProperties
<1>2. step \in [1 .. N -> [Nat -> Nat]]
  BY DEF RunAfter
<1>3. PICK g : Iterates(g, N, Nat, 0, step)
  <2> HIDE DEF step, N
  <2>1. QED BY <1>1, <1>2, IterationExists
<1>4. /\ g \in [0 .. N -> Nat] /\ g[0] = 0
      /\ \A k \in 1 .. N : g[k] = RunAfter(g[k - 1], toks[k])
  <2>1. /\ g \in [0 .. N -> Nat] /\ g[0] = 0
        /\ \A k \in 1 .. N : g[k] = step[k][g[k - 1]]
    BY <1>3 DEF Iterates
  <2>2. ASSUME NEW k \in 1 .. N PROVE g[k] = RunAfter(g[k - 1], toks[k])
    <3>1. k - 1 \in 0 .. N
      BY <1>1
    <3>2. g[k - 1] \in Nat
      BY <2>1, <3>1
    <3>3. QED BY <2>1, <3>2
  <2>3. QED BY <2>1, <2>2
<1>5. Holds(g)
  <2>1. g = [k \in 0 .. N |-> g[k]]
    BY <1>4
  <2>2. \A k \in 0 .. N : g[k] = IF k = 0 \/ Productive(toks[k]) THEN 0
                                 ELSE g[k - 1] + (IF toks[k].kind = "block" THEN 1 ELSE 0)
    BY <1>4 DEF RunAfter
  <2>3. QED BY <2>1, <2>2
<1>6. EmptyRuns(toks) = CHOOSE h : Holds(h)
  BY DEF EmptyRuns
<1> DEFINE f == EmptyRuns(toks)
<1>7. Holds(f)
  <2> HIDE DEF Holds
  <2>1. QED BY <1>5, <1>6
<1>8. \A k \in 0 .. N : f[k] = IF k = 0 \/ Productive(toks[k]) THEN 0
                               ELSE f[k - 1] + (IF toks[k].kind = "block" THEN 1 ELSE 0)
  <2> HIDE DEF f
  <2>1. QED BY <1>7
<1> HIDE DEF f, Holds
<1>9. f[0] = 0 /\ \A k \in 1 .. N : f[k] = RunAfter(f[k - 1], toks[k])
  BY <1>1, <1>8 DEF RunAfter
<1>10. \A k \in 0 .. N : f[k] \in Nat
  <2> DEFINE T == {k \in 0 .. N : f[k] \in Nat}
  <2>1. 0 \in T
    BY <1>1, <1>9
  <2>2. ASSUME NEW k \in 1 .. N, k - 1 \in T PROVE k \in T
    <3>1. RunAfter(f[k - 1], toks[k]) \in Nat
      BY <2>2 DEF RunAfter
    <3>2. QED BY <1>9, <3>1
  <2> HIDE DEF T
  <2>3. 0 .. N \subseteq T
    BY <1>1, <2>1, <2>2, InductionUpTo
  <2>4. QED BY <2>3 DEF T
<1>11. QED BY <1>9, <1>10 DEF f

Runs == EmptyRuns(stream.toks)

(* Where a block ends that need not have had output.                       *)
Closes(t) == t.kind = "eob" \/ (t.kind = "len" /\ t.n = 0)

Ends == {k \in 1 .. Size : Closes(stream.toks[k])}

LEMMA RunsGo ==
  ASSUME LaidOut
  PROVE  /\ \A k \in 0 .. Size : Runs[k] \in Nat
         /\ Runs[0] = 0
         /\ \A k \in 1 .. Size : Runs[k] = RunAfter(Runs[k - 1], stream.toks[k])
BY RunsKnown DEF LaidOut, Runs, Size

(* Tokens that open no block do not lengthen a run, and output ends it.    *)
LEMMA RunsWithin ==
  ASSUME LaidOut, NEW k \in 0 .. Size, NEW j \in k .. Size,
         \A l \in (k + 1) .. j : stream.toks[l].kind # "block"
  PROVE  /\ Runs[j] \in Nat /\ Runs[j] <= Runs[k]
         /\ (j > k /\ Productive(stream.toks[j])) => Runs[j] = 0
<1>1. Size \in Nat /\ k \in Nat /\ k <= Size /\ j \in Nat /\ k <= j /\ j <= Size
  BY DEF LaidOut
<1> DEFINE T == {n \in 0 .. (j - k) : Runs[k + n] \in Nat /\ Runs[k + n] <= Runs[k]}
<1>2. 0 \in T
  <2>1. Runs[k] \in Nat /\ k + 0 = k
    BY <1>1, RunsGo
  <2> HIDE DEF Runs
  <2>2. QED BY <1>1, <2>1
<1>3. ASSUME NEW n \in 1 .. (j - k), n - 1 \in T PROVE n \in T
  <2>1. k + n \in 1 .. Size /\ (k + n) - 1 = k + (n - 1) /\ k + n \in (k + 1) .. j
    BY <1>1
  <2>2. Runs[k + n] = RunAfter(Runs[k + (n - 1)], stream.toks[k + n])
    BY <2>1, RunsGo
  <2>3. stream.toks[k + n].kind # "block"
    BY <2>1
  <2>4. Runs[k + (n - 1)] \in Nat /\ Runs[k + (n - 1)] <= Runs[k] /\ Runs[k] \in Nat
    BY <1>1, <1>3, RunsGo
  <2> HIDE DEF Runs
  <2>5. QED BY <2>2, <2>3, <2>4 DEF RunAfter
<1> HIDE DEF T
<1>4. j - k \in T
  BY <1>1, <1>2, <1>3, InductionUpTo
<1>5. k + (j - k) = j
  BY <1>1
<1>6. Runs[j] \in Nat /\ Runs[j] <= Runs[k]
  BY <1>4, <1>5 DEF T
<1>7. ASSUME j > k, Productive(stream.toks[j]) PROVE Runs[j] = 0
  <2>1. j \in 1 .. Size
    BY <1>1, <1>7
  <2>2. QED BY <1>7, <2>1, RunsGo DEF RunAfter
<1>8. QED BY <1>6, <1>7

(* The longest run is one of a block's end, or none.                       *)
LEMMA LongestRunBound ==
  ASSUME LaidOut, NEW bound \in Nat, \A e \in Ends : Runs[e] <= bound
  PROVE  LongestEmptyRun(stream.toks) <= bound
<1> DEFINE S == {Runs[e] : e \in Ends} \cup {0}
           U == {n \in Nat : \E x \in S : n = bound - x}
<1>1. \A x \in S : x \in Nat /\ x <= bound
  <2>1. ASSUME NEW e \in Ends PROVE Runs[e] \in Nat
    <3>1. e \in 0 .. Size
      BY DEF Ends, LaidOut
    <3>2. QED BY <3>1, RunsGo
  <2>2. QED BY <2>1
<1>2. LongestEmptyRun(stream.toks) = Max(S)
  BY DEF LongestEmptyRun, Ends, Closes, Runs, Size
<1> HIDE DEF S
<1>3. 0 \in S
  BY DEF S
<1>4. U \subseteq Nat /\ bound \in U
  BY <1>3
<1>5. PICK m \in U : \A n \in U : m <= n
  BY <1>4, LeastNumber
<1>6. PICK x \in S : m = bound - x
  OBVIOUS
<1>7. \A y \in S : x >= y
  <2> SUFFICES ASSUME NEW y \in S PROVE x >= y
    OBVIOUS
  <2>1. y \in Nat /\ y <= bound /\ x \in Nat /\ x <= bound
    BY <1>1
  <2>2. bound - y \in U
    BY <2>1
  <2>3. m <= bound - y
    BY <1>5, <2>2
  <2>4. QED BY <1>6, <2>1, <2>3
<1>8. Max(S) \in S
  BY <1>7 DEF Max
<1>9. QED BY <1>1, <1>2, <1>8

(* With k tokens read the counter is at most one block behind, and only    *)
(* the block that ended last may still be over the limit.                  *)
Charged(k) ==
  /\ Runs[k] <= acct.stalls + 1
  /\ acct.stalls <= MAX_BLOCKS_WITHOUT_OUTPUT
  /\ (call.pc # "idle" /\ Delta > 0) => Runs[k] = 0
  /\ HasPending => Runs[k] = 0
  /\ \A e \in Ends : e <= k => (Runs[e] <= MAX_BLOCKS_WITHOUT_OUTPUT \/ e = k)

(* It is not behind where fill() goes on to the next block.                *)
Counts(k) ==
  /\ Charged(k)
  /\ (dec.state = "BlockHeader" /\ call.pc # "account") =>
       /\ Runs[k] <= acct.stalls
       /\ call.pc = "dispatch" => Delta = 0

(* At the stream's end a run over the limit is still to be refused.        *)
AllCharged ==
  \A e \in Ends : \/ Runs[e] <= MAX_BLOCKS_WITHOUT_OUTPUT
                  \/ /\ call.pc = "account" /\ Runs[e] <= acct.stalls + 1
                     /\ Delta > 0 => Runs[e] = 0

StallInv ==
  /\ acct.stalls \in Nat
  /\ (hist.errors = 0 /\ ~hist.phantom) =>
       /\ Going => \A k \in 0 .. stream.held : Tracks(k) => Counts(k)
       /\ (dec.state = "Done" /\ (call.pc # "idle" \/ call.result = "ok")) => AllCharged

(* Tokens end one after the other.                                         *)
LEMMA EndsApart ==
  ASSUME LaidOut, NEW j \in 0 .. Size, NEW k \in 0 .. Size, TokenEnd(j) = TokenEnd(k)
  PROVE  j = k
<1>1. ASSUME NEW m \in 0 .. Size, NEW n \in 0 .. Size, m < n
      PROVE  TokenEnd(m) < TokenEnd(n)
  <2>1. /\ Size \in Nat /\ m \in Nat /\ n \in Nat /\ n - 1 \in 0 .. Size
        /\ n - 1 \in m .. Size /\ n \in 1 .. Size
    BY <1>1 DEF LaidOut
  <2>2. TokenEnd(m) <= TokenEnd(n - 1)
    BY <2>1 DEF LaidOut
  <2>3. TokenEnd(n - 1) <= stream.starts[n] /\ stream.starts[n] < TokenEnd(n)
    BY <2>1 DEF LaidOut
  <2>4. TokenEnd(m) \in Nat /\ TokenEnd(n - 1) \in Nat /\ TokenEnd(n) \in Nat
    BY <2>1 DEF LaidOut
  <2>5. stream.starts[n] \in Nat
    <3>1. stream.starts \in [1 .. (Size + 1) -> Nat]
      BY Zenon DEF LaidOut
    <3>2. n \in 1 .. (Size + 1)
      BY <2>1
    <3>3. QED BY <3>1, <3>2
  <2>6. QED BY <2>2, <2>3, <2>4, <2>5
<1>2. TokenEnd(j) \in Nat /\ TokenEnd(k) \in Nat /\ j \in Nat /\ k \in Nat
  BY DEF LaidOut
<1>3. ~(j < k) /\ ~(k < j)
  BY <1>1, <1>2
<1>4. QED BY <1>2, <1>3

LEMMA TracksOnce ==
  ASSUME LaidOut, hist.errors = 0, NEW j \in 0 .. stream.held, NEW k \in 0 .. stream.held,
         Tracks(k), BitPos(in) = TokenEnd(j)
  PROVE  j = k
<1>1. BitPos(in) = TokenEnd(k)
  BY DEF Tracks, Placed
<1>2. j \in 0 .. Size /\ k \in 0 .. Size
  BY DEF LaidOut
<1>3. QED BY <1>1, <1>2, EndsApart

-------------------------------------------------------------------------------
(* A handler's step, while the source delivers.                            *)

Counting ==
  /\ DecodingInv /\ Sound /\ Sound' /\ HandlerStep /\ DecodingInv' /\ StallInv
  /\ hist'.errors = 0 /\ ~hist'.phantom

LEMMA CountingFacts ==
  ASSUME Counting
  PROVE  /\ Ready /\ Kept /\ Known /\ LaidOut /\ Handled
         /\ hist.errors = 0 /\ ~hist.phantom /\ Going
         /\ call.pc # "idle" /\ call'.prev = call.prev /\ call.prev \in Int
         /\ UNCHANGED acct /\ acct.stalls \in Nat
         /\ write_pos \in Nat /\ write_pos' \in Nat /\ write_pos' >= write_pos
         /\ Len(produced) \in Nat /\ Len(produced') \in Nat
         /\ Len(produced') - write_pos' = Len(produced) - write_pos
<1>1. Ready
  BY HandlerIsReady DEF Counting
<1>2. Handled
  BY EveryHandler DEF Counting, Sound
<1>3. Kept /\ Known /\ LaidOut /\ Going /\ HistOK /\ hist.errors \in Nat
      /\ hist'.errors \in Nat /\ hist'.errors >= hist.errors /\ CallOK
  BY <1>1, ReadyFacts DEF Ready
<1>4. hist.errors = 0
  BY <1>3 DEF Counting
<1>5. ~hist.phantom
  <2>1. Noted \/ \E i : SourceFails(i)
    BY HandlersNote DEF Counting
  <2>2. \A i : ~SourceFails(i)
    <3> SUFFICES ASSUME NEW i, SourceFails(i) PROVE FALSE
      OBVIOUS
    <3>1. hist' = [hist EXCEPT !.errors = hist.errors + 1]
      BY DEF SourceFails
    <3>2. hist'.errors = hist.errors + 1
      BY <1>3, <3>1 DEF HistOK
    <3>3. QED BY <1>4, <3>2 DEF Counting
  <2>3. CASE UNCHANGED hist
    BY <2>3 DEF Counting
  <2>4. ASSUME NEW real \in BOOLEAN, NotePhantom(real) PROVE ~hist.phantom
    <3>1. hist'.phantom = (hist.phantom \/ ~real)
      BY <1>3, <2>4, NotedPhantom
    <3>2. QED BY <3>1 DEF Counting
  <2>5. QED BY <2>1, <2>2, <2>3, <2>4 DEF Noted
<1>6. call.pc # "idle"
  BY HandlersRunInFill DEF Counting
<1>7. write_pos \in Nat /\ Len(produced) \in Nat
  BY WindowFacts DEF Counting, Sound
<1>8. write_pos' \in Nat /\ Len(produced') \in Nat
  <2>1. WindowInv'
    BY DEF Counting, Sound
  <2>2. QED BY <2>1, BufferAssumption DEF WindowInv, BufferTypeOK
<1>9. QED BY <1>1, <1>2, <1>3, <1>4, <1>5, <1>6, <1>7, <1>8
          DEF Handled, HandlerMove, CallOK, Counting, StallInv

(* Between token k and token j no block begins or ends.                    *)
Inside(k, j) == \A l \in k .. (j - 1) : Good(l) /\ D[l].place \notin {"block", "footer"}

(* A block's end is followed by another block or by the footer.            *)
LEMMA ClosedPlace ==
  ASSUME Known, NEW k \in Ends, ~D[k].fault
  PROVE  D[k].place \in {"block", "footer"}
<1>1. /\ k \in 1 .. Size /\ k \in 0 .. Size /\ k - 1 \in 0 .. Size /\ k \in (k - 1) .. Size
      /\ Closes(stream.toks[k]) /\ stream.toks[k] \in Token
  <2>1. k \in 1 .. Size /\ Closes(stream.toks[k])
    BY DEF Ends
  <2>2. Size \in Nat /\ stream.toks[k] \in Token
    BY <2>1 DEF Known, LaidOut
  <2>3. QED BY <2>1, <2>2
<1> DEFINE t == stream.toks[k]
           d == D[k - 1]
           e == D[k]
<1>2. d \in Meaning /\ ~d.fault /\ e = DecodeToken(d, t)
  BY <1>1 DEF Known, Meant
<1>3. t \in Token
  BY <1>1
<1> HIDE DEF d, e, t
<1>4. CASE t.kind = "eob"
  <2>1. e.place = AfterBlock(d.final)
    BY <1>2, <1>3, <1>4, EndOfBlockMeans
  <2>2. QED BY <2>1 DEF AfterBlock, e
<1>5. CASE t.kind = "len" /\ t.n = 0
  <2>1. e.place = PlaceAfter(d, t)
    BY <1>2, <1>3, <1>5, OkTokenMeans
  <2>2. PlaceAfter(d, t) = AfterBlock(d.final)
    BY <1>5 DEF PlaceAfter
  <2>3. QED BY <2>1, <2>2 DEF AfterBlock, e
<1>6. QED BY <1>1, <1>4, <1>5 DEF Closes, t

LEMMA InsideFacts ==
  ASSUME Known, NEW k \in 0 .. Size, NEW j \in k .. Size, Inside(k, j)
  PROVE  /\ \A l \in (k + 1) .. j : stream.toks[l].kind # "block"
         /\ \A l \in k .. (j - 1) : l \notin Ends
<1>1. Size \in Nat /\ k \in Nat /\ j \in Nat /\ k <= j /\ j <= Size
  BY DEF Known, LaidOut
<1>2. ASSUME NEW l \in (k + 1) .. j PROVE stream.toks[l].kind # "block"
  <2>1. l - 1 \in k .. (j - 1) /\ l \in 1 .. Size
    BY <1>1
  <2>2. Good(l - 1) /\ D[l - 1].place \notin {"block", "footer"}
    BY <2>1 DEF Inside
  <2>3. PlaceOf(stream.toks[l]) = D[l - 1].place
    BY <2>1, <2>2 DEF Known, Suited, Good
  <2>4. QED BY <2>2, <2>3 DEF PlaceOf
<1>3. ASSUME NEW l \in k .. (j - 1) PROVE l \notin Ends
  BY ClosedPlace DEF Inside, Good
<1>4. QED BY <1>2, <1>3

(* Output within a block ends a run.                                       *)
LEMMA RunsBroken ==
  ASSUME Known, NEW k \in 0 .. Size, NEW j \in k .. Size,
         \A l \in (k + 1) .. j : stream.toks[l].kind # "block",
         D[j].out # D[k].out
  PROVE  Runs[j] = 0
<1>0. LaidOut /\ Size \in Nat
  BY DEF Known, LaidOut
<1>1. LaidOut /\ Size \in Nat /\ k \in Nat /\ k <= Size /\ j \in Nat /\ k <= j /\ j <= Size
  BY <1>0
<1> DEFINE T == {n \in 0 .. (j - k) : Runs[k + n] = 0 \/ D[k + n].out = D[k].out}
<1>2. 0 \in T
  <2>1. k + 0 = k
    BY <1>1
  <2>2. D[k + 0].out = D[k].out
    BY <2>1
  <2> HIDE DEF Runs, D
  <2>3. QED BY <1>1, <2>2
<1>3. ASSUME NEW n \in 1 .. (j - k), n - 1 \in T PROVE n \in T
  <2>1. k + n \in 1 .. Size /\ (k + n) - 1 = k + (n - 1) /\ k + n \in (k + 1) .. j
        /\ k + (n - 1) \in 0 .. Size
    BY <1>1
  <2> DEFINE t == stream.toks[k + n]
             d == D[k + (n - 1)]
             e == D[k + n]
  <2>2. Runs[k + n] = RunAfter(Runs[k + (n - 1)], t)
    BY <1>1, <2>1, RunsGo
  <2>3. t.kind # "block" /\ t \in Token
    BY <1>1, <2>1 DEF LaidOut
  <2>4. d \in Meaning /\ e = DecodeToken(d, t)
    BY <2>1 DEF Known, Meant
  <2>5. Runs[k + (n - 1)] \in Nat
    BY <1>1, <2>1, RunsGo
  <2>6. Runs[k + (n - 1)] = 0 \/ d.out = D[k].out
    BY <1>3
  <2> HIDE DEF Runs, D, t, d, e
  <2>7. CASE Productive(t)
    <3>1. Runs[k + n] = 0
      BY <2>2, <2>7 DEF RunAfter
    <3>2. QED BY <3>1
  <2>8. CASE ~Productive(t)
    <3>1. Runs[k + n] = Runs[k + (n - 1)]
      BY <2>2, <2>3, <2>5, <2>8 DEF RunAfter
    <3>2. t.kind \notin {"byte", "lit", "match"}
      BY <2>8 DEF Productive
    <3>3. ASSUME d.fault PROVE e.out = d.out
      BY <2>4, <3>3 DEF DecodeToken
    <3>4. ASSUME ~d.fault PROVE e.out = d.out
      BY <2>3, <2>4, <3>2, <3>4, DecodeTokenFields
    <3>5. QED BY <2>6, <3>1, <3>3, <3>4 DEF e
  <2>9. QED BY <2>7, <2>8
<1> HIDE DEF T
<1>4. j - k \in T
  BY <1>1, <1>2, <1>3, InductionUpTo
<1>5. k + (j - k) = j
  BY <1>1
<1>6. QED BY <1>4, <1>5 DEF T

-------------------------------------------------------------------------------
(* The counter covers what a handler reads within a block.                 *)
LEMMA KeptRuns ==
  ASSUME Kept
  PROVE  /\ Runs' = Runs /\ Ends' = Ends
         /\ stream' = stream
         /\ \A k \in 0 .. stream.held : Tracks(k)' =>
              (hist'.errors = 0 => BitPos(in') = TokenEnd(k))
<1>1. stream' = stream
  BY KeptStream
<1>2. ASSUME NEW k, Tracks(k)', hist'.errors = 0
      PROVE  BitPos(in') = TokenEnd(k)
  <2>1. BitPos(in') = TokenEnd(k)'
    BY <1>2 DEF Tracks, Placed, BitPos
  <2>2. QED BY <2>1, KeptTokens
<1>3. QED BY <1>1, <1>2 DEF Runs, Ends, Size

LEMMA ChargeCarries ==
  ASSUME Counting, dec.state # "BlockHeader",
         NEW k \in 0 .. stream.held, Tracks(k), NEW j \in k .. stream.held, Inside(k, j),
         Leads(produced', D[j].out), HasPending' => (HasPending \/ Runs[j] = 0)
  PROVE  Charged(j)'
<1>0. /\ Ready /\ Kept /\ Known /\ LaidOut
      /\ hist.errors = 0 /\ ~hist.phantom /\ Going
      /\ call.pc # "idle" /\ call'.prev = call.prev /\ call.prev \in Int
      /\ UNCHANGED acct /\ acct.stalls \in Nat
      /\ write_pos \in Nat /\ write_pos' \in Nat /\ write_pos' >= write_pos
      /\ Len(produced) \in Nat /\ Len(produced') \in Nat
      /\ Len(produced') - write_pos' = Len(produced) - write_pos
  BY CountingFacts
<1>1. /\ Size \in Nat /\ k \in 0 .. Size /\ j \in k .. Size /\ k \in Nat /\ j \in Nat
      /\ j \in 0 .. Size /\ k <= j /\ j \in 0 .. stream.held
  <2>1. Size \in Nat /\ stream.held \in Nat /\ stream.held <= Size
    BY <1>0, TokenEnds
  <2>2. QED BY <2>1
<1>2. Charged(k)
  BY <1>0 DEF Counting, StallInv, Counts
<1>3. /\ \A l \in (k + 1) .. j : stream.toks[l].kind # "block"
      /\ \A l \in k .. (j - 1) : l \notin Ends
  BY <1>0, <1>1, InsideFacts
<1>4. Runs[j] \in Nat /\ Runs[k] \in Nat /\ Runs[j] <= Runs[k]
  BY <1>0, <1>1, <1>3, RunsWithin, RunsGo
<1>5. Runs' = Runs /\ Ends' = Ends
  BY <1>0, KeptRuns
<1> HIDE DEF Runs, Ends
<1>6. Runs[j] <= acct.stalls + 1
  BY <1>0, <1>2, <1>4 DEF Charged
<1>7. (call.pc # "idle" /\ Delta > 0) \/ HasPending => Runs[j] = 0
  <2>1. (call.pc # "idle" /\ Delta > 0) \/ HasPending => Runs[k] = 0
    BY <1>2 DEF Charged
  <2>2. QED BY <1>4, <2>1
<1>8. ASSUME Delta' > 0 PROVE Runs[j] = 0
  <2>1. Delta' = write_pos' - call.prev /\ Delta = write_pos - call.prev
    BY <1>0 DEF Delta
  <2>2. CASE Delta > 0 \/ HasPending
    BY <1>0, <1>7, <2>2
  <2>3. CASE ~(Delta > 0) /\ ~HasPending
    <3>1. write_pos' > write_pos
      BY <1>0, <1>8, <2>1, <2>3
    <3>2. Len(produced') > Len(produced)
      BY <1>0, <3>1
    <3>3. produced = D[k].out
      <4>1. dec.match = NoMatch /\ dec.lits = <<>>
        BY <2>3 DEF HasPending
      <4>2. QED BY <1>0, <4>1, OwesNothing
    <3>4. D[j].out # D[k].out
      <4>1. D[j].out \in Seq(Byte)
        BY <1>0, OutLeads
      <4>2. Len(D[j].out) \in Nat /\ Len(produced') <= Len(D[j].out)
        BY <4>1, LenProperties DEF Leads
      <4> DEFINE o == D[j].out
      <4> HIDE DEF o
      <4>3. Len(o) \in Nat /\ Len(produced') <= Len(o)
        BY <4>2 DEF o
      <4>4. o # produced
        BY <1>0, <3>2, <4>3
      <4>5. QED BY <3>3, <4>4 DEF o
    <3>5. QED BY <1>0, <1>1, <1>3, <3>4, RunsBroken
  <2>4. QED BY <2>2, <2>3
<1>9. ASSUME NEW e \in Ends, e <= j
      PROVE  Runs[e] <= MAX_BLOCKS_WITHOUT_OUTPUT \/ e = j
  <2>1. e \in 1 .. Size
    BY DEF Ends
  <2>2. CASE e <= k
    <3>1. Runs[e] <= MAX_BLOCKS_WITHOUT_OUTPUT \/ e = k
      BY <1>2, <2>2 DEF Charged
    <3>2. e = k => k = j
      BY <1>1, <1>3
    <3>3. QED BY <3>1, <3>2
  <2>3. CASE ~(e <= k)
    <3>1. e \in k .. (j - 1) \/ e = j
      BY <1>1, <1>9, <2>1, <2>3
    <3>2. QED BY <1>3, <3>1
  <2>4. QED BY <2>2, <2>3
<1>10. acct.stalls <= MAX_BLOCKS_WITHOUT_OUTPUT
  BY <1>2 DEF Charged
<1>11. HasPending' => Runs[j] = 0
  BY <1>7
<1>12. QED BY <1>0, <1>5, <1>6, <1>8, <1>9, <1>10, <1>11 DEF Charged

(* The three ways a handler's step may end, while the source delivers:     *)
(* fill() goes on with j tokens read,                                      *)
LEMMA StepFollows ==
  ASSUME Counting, NEW j \in 0 .. stream.held, BitPos(in') = TokenEnd(j), Going'
  PROVE  /\ Leads(produced', D[j].out)
         /\ \A n \in 0 .. stream.held : Tracks(n)' => n = j
<1>1. LaidOut /\ Kept /\ stream' = stream /\ D' = D
  BY CountingFacts, KeptStream
<1>2. hist'.errors = 0 /\ ~hist'.phantom
  BY DEF Counting
<1>3. ASSUME NEW n \in 0 .. stream.held, Tracks(n)' PROVE n = j
  <2>1. TokenEnd(n) = TokenEnd(j)
    BY <1>1, <1>2, <1>3, KeptRuns
  <2>2. n \in 0 .. Size /\ j \in 0 .. Size
    BY <1>1, TokenEnds
  <2>3. QED BY <1>1, <2>1, <2>2, EndsApart
<1>4. FollowInv'
  BY DEF Counting, DecodingInv
<1>5. PICK n \in 0 .. stream.held : Follows(n)' /\ Tracks(n)'
  BY <1>1, <1>2, <1>4 DEF FollowInv
<1>6. Leads(produced', D[n].out)
  BY <1>1, <1>5 DEF Follows, Leads
<1>7. QED BY <1>3, <1>5, <1>6

LEMMA CountsOn ==
  ASSUME Counting, dec.state # "BlockHeader",
         NEW k \in 0 .. stream.held, Tracks(k), NEW j \in k .. stream.held, Inside(k, j),
         BitPos(in') = TokenEnd(j), HasPending' => (HasPending \/ Runs[j] = 0),
         dec'.state # "Done", dec'.state = "BlockHeader" => call'.pc = "account"
  PROVE  StallInv'
<1>1. /\ Kept /\ UNCHANGED acct /\ acct.stalls \in Nat /\ LaidOut
  BY CountingFacts
<1>2. stream' = stream
  BY <1>1, KeptStream
<1>3. j \in 0 .. stream.held
  BY <1>1, TokenEnds
<1>4. ASSUME Going', NEW n \in 0 .. stream.held, Tracks(n)'
      PROVE  Counts(n)'
  <2>1. n = j /\ Leads(produced', D[j].out)
    BY <1>3, <1>4, StepFollows
  <2>2. Charged(j)'
    BY <2>1, ChargeCarries
  <2>3. QED BY <2>1, <2>2 DEF Counts
<1>5. QED BY <1>1, <1>2, <1>4 DEF StallInv

(* fill() fails,                                                           *)
LEMMA CountsFailed ==
  ASSUME Counting, call'.pc = "idle"
  PROVE  StallInv'
<1>1. /\ UNCHANGED acct /\ acct.stalls \in Nat /\ Ready
  BY CountingFacts
<1>2. call'.result \in {"BadData", "InvalidHeader", "ChecksumMismatch"}
  BY <1>1 DEF Ready, HandlerMove, Counting
<1>3. ~Going' /\ call'.result # "ok"
  BY <1>2 DEF Going, Alive, Fatal
<1>4. QED BY <1>1, <1>3 DEF StallInv

(* or the stream ends with token j, the last that may end a block.         *)
LEMMA CountsEnd ==
  ASSUME Counting, dec.state # "BlockHeader",
         NEW k \in 0 .. stream.held, Tracks(k), NEW j \in k .. stream.held, Inside(k, j),
         Leads(produced', D[j].out), HasPending' => (HasPending \/ Runs[j] = 0),
         dec'.state = "Done", call'.pc = "account", \A e \in Ends : e <= j
  PROVE  StallInv'
<1>1. /\ Kept /\ UNCHANGED acct /\ acct.stalls \in Nat
  BY CountingFacts
<1>2. Runs' = Runs /\ Ends' = Ends
  BY <1>1, KeptRuns
<1>3. Charged(j)'
  BY ChargeCarries
<1> HIDE DEF Runs, Ends
<1>4. AllCharged'
  BY <1>2, <1>3 DEF Charged, AllCharged
<1>5. ~Going'
  BY DEF Going
<1>6. QED BY <1>1, <1>4, <1>5 DEF StallInv

-------------------------------------------------------------------------------
(* Handlers that read no token, or one.                                    *)

LEMMA CountsHere ==
  ASSUME Counting, dec.state # "BlockHeader", BitPos(in') = BitPos(in),
         HasPending' => HasPending, dec'.state \notin {"Done", "BlockHeader"}
  PROVE  StallInv'
<1>1. Ready /\ LaidOut /\ hist.errors = 0 /\ ~hist.phantom
  BY CountingFacts
<1>2. PICK k \in 0 .. stream.held : Tracks(k)
  BY <1>1, StillTracks
<1>3. k \in k .. stream.held /\ k \in Nat /\ stream.held \in Nat
  BY <1>1, TokenEnds
<1>4. Inside(k, k)
  BY <1>3 DEF Inside
<1>5. BitPos(in') = TokenEnd(k)
  BY <1>1, <1>2 DEF Tracks, Placed
<1>6. QED BY <1>2, <1>3, <1>4, <1>5, CountsOn

(* What is noted as a phantom does not count.                              *)
LEMMA NothingInvented ==
  ASSUME Counting, NEW r, NEW kinds, NotePhantom(HasToken(r, kinds)),
         NEW t, NEW phantoms
  PROVE  ~Invented(r, kinds, t, phantoms)
<1>1. HistOK
  BY CountingFacts, ReadyFacts
<1>2. hist'.phantom = (hist.phantom \/ ~HasToken(r, kinds))
  BY <1>1, NotedPhantom
<1>3. QED BY <1>2 DEF Invented, Counting

LEMMA OneInside ==
  ASSUME Ready, NEW r, NEW kinds, NEW t, NEW k, Genuine(r, kinds, t, k),
         D[k].place \notin {"block", "footer"}
  PROVE  /\ k \in 0 .. stream.held /\ k + 1 \in k .. stream.held /\ Tracks(k)
         /\ Inside(k, k + 1)
         /\ Productive(t) => Runs[k + 1] = 0
<1>1. /\ k \in 0 .. stream.held /\ k + 1 \in 0 .. stream.held /\ k \in Nat /\ Tracks(k)
      /\ t = stream.toks[k + 1] /\ LaidOut
  BY GenuineFacts, ReadyFacts DEF Genuine
<1>2. k + 1 \in k .. stream.held /\ k .. ((k + 1) - 1) = {k} /\ k + 1 \in 1 .. Size
  BY <1>1, TokenEnds
<1>3. Inside(k, k + 1)
  BY <1>1, <1>2 DEF Inside, Tracks
<1>4. Productive(t) => Runs[k + 1] = 0
  BY <1>1, <1>2, RunsGo DEF RunAfter
<1>5. QED BY <1>1, <1>2, <1>3, <1>4

LEMMA CountsRead ==
  ASSUME Counting, dec.state # "BlockHeader",
         NEW r, NEW kinds, NEW t, NEW k, Genuine(r, kinds, t, k),
         D[k].place \notin {"block", "footer"}, BitPos(in') = TokenEnd(k + 1),
         HasPending' => (HasPending \/ Productive(t)),
         dec'.state # "Done", dec'.state = "BlockHeader" => call'.pc = "account"
  PROVE  StallInv'
<1>1. Ready
  BY CountingFacts
<1>2. /\ k \in 0 .. stream.held /\ k + 1 \in k .. stream.held /\ Tracks(k)
      /\ Inside(k, k + 1)
      /\ Productive(t) => Runs[k + 1] = 0
  BY <1>1, OneInside
<1>3. QED BY <1>2, CountsOn

LEMMA PrecodeCounts ==
  ASSUME Counting, ParseDynamicPrecodeLens
  PROVE  StallInv'
<1> DEFINE r == Refilled(Filled(in))
           kinds == {"precode"}
<1>0. Ready
  BY CountingFacts
<1>1. PICK t \in Read(r, kinds, Phantoms.precode) :
         /\ in' = IF Overrun(r) THEN r ELSE Consumed(r, t.bits)
         /\ IF Overrun(r) \/ ~t.ok
              THEN Fail("BadData") /\ UNCHANGED dec
              ELSE ToAccount /\ dec' = [dec EXCEPT !.state = "DynamicCodeLengths"]
  BY DEF ParseDynamicPrecodeLens
<1>2. /\ dec.state = "DynamicPrecodeLens" /\ NotePhantom(HasToken(r, kinds))
  BY DEF ParseDynamicPrecodeLens
<1>3. /\ ReaderFits(r) /\ BitPos(r) = BitPos(in) /\ r.left >= 56 /\ r.left \in Nat
  BY <1>0, HeaderReady
<1>4. DecoderOK /\ CallOK /\ StreamOK
  BY <1>0, ReadyFacts
<1> HIDE DEF r, kinds
<1>5. \A k \in 0 .. stream.held : Tracks(k) => D[k].place = "precode"
  BY <1>2 DEF Tracks, Expects
<1>6. t \in Token /\ \E k : Genuine(r, kinds, t, k)
  <2>1. \A u \in Token : PlaceOf(u) = "precode" => u.kind \in kinds
    BY SymbolKinds DEF kinds
  <2>2. \A u \in Phantoms.precode : u \in Token
    BY PhantomsAreTokens
  <2>3. dec.state # "WrapperFooter" /\ "precode" \in {"block", "precode", "lens", "symbol"}
    BY <1>2
  <2>4. /\ t \in Token
        /\ (\E k : Genuine(r, kinds, t, k)) \/ Invented(r, kinds, t, Phantoms.precode)
    BY <1>0, <1>1, <1>3, <1>5, <2>1, <2>2, <2>3, ReadCases
  <2>5. QED BY <1>2, <2>4, NothingInvented
<1>7. PICK k : Genuine(r, kinds, t, k)
  BY <1>6
<1>8. /\ k \in 0 .. stream.held /\ Tracks(k) /\ D[k].place = "precode"
      /\ t.kind \in kinds
  <2>1. k \in 0 .. stream.held /\ Tracks(k) /\ HasToken(r, kinds)
    BY <1>7 DEF Genuine
  <2>2. t \in Tokens(r, kinds)
    BY <1>1, <2>1 DEF Read, ReadFrom, HasToken, Tokens
  <2>3. QED BY <1>4, <1>5, <2>1, <2>2, TokensAreTokens
<1>9. t.kind = "precode" /\ t.bits \in 1 .. 54
  BY <1>6, <1>8, PrecodeToken DEF kinds
<1>10. CASE Overrun(r) \/ ~t.ok
  <2>1. call'.pc = "idle"
    BY <1>1, <1>4, <1>10, Leaving
  <2>2. QED BY <2>1, CountsFailed
<1>11. CASE ~(Overrun(r) \/ ~t.ok)
  <2>1. in' = Consumed(r, t.bits) /\ dec' = [dec EXCEPT !.state = "DynamicCodeLengths"]
    BY <1>1, <1>11
  <2>2. dec'.state = "DynamicCodeLengths" /\ dec'.match = dec.match /\ dec'.lits = dec.lits
    BY <1>4, <2>1 DEF DecoderOK
  <2>3. BitPos(in') = BitPos(r) + t.bits
    BY <1>3, <1>9, <2>1, ConsumedFits
  <2>4. BitPos(in') = TokenEnd(k + 1)
    <3>1. TokenEnd(k + 1) = BitPos(r) + Width(t)
      BY <1>0, <1>7, <1>9, GenuineEnds
    <3>2. QED BY <1>9, <2>3, <3>1 DEF Width
  <2>5. QED BY <1>2, <1>7, <1>8, <2>2, <2>4, CountsRead DEF HasPending
<1>12. QED BY <1>10, <1>11

(* Headers and code lengths within a block.                                *)
LEMMA WrapperHeaderCounts ==
  ASSUME Counting, ParseWrapperHeader
  PROVE  StallInv'
<1> DEFINE i == Filled(in)
           t == TheToken(i, {"wrapper"})
           good == /\ HasToken(i, {"wrapper"})
                   /\ t.ok
                   /\ t.bits <= 8 * Staged(i)
<1>0. Ready /\ Known /\ LaidOut /\ ~hist.phantom /\ hist.errors = 0
  BY CountingFacts
<1>1. /\ StreamOK /\ ReaderFits(in) /\ CallOK /\ DecoderOK
  BY <1>0, ReadyFacts
<1>2. dec.state = "WrapperHeader"
  BY DEF ParseWrapperHeader
<1>3. /\ good => /\ in' = [i EXCEPT !.pos = @ + t.bits \div 8]
                 /\ dec' = [dec EXCEPT !.state = "BlockHeader"]
                 /\ ToAccount
      /\ ~good => Fail("InvalidHeader")
  BY DEF ParseWrapperHeader
<1>4. /\ ReaderFits(i) /\ BitPos(i) = BitPos(in)
      /\ i.pos = in.pos /\ i.left = in.left /\ i.over = in.over
  BY <1>1, FilledFits
<1>5. PICK k \in 0 .. stream.held : Tracks(k)
  BY <1>0, StillTracks
<1>6. k = 0 /\ D[0].place = "wrapper" /\ in.pos = 0 /\ in.left = 0 /\ in.over = 0
      /\ ~D[0].fault /\ BitPos(in) = TokenEnd(0)
  BY <1>2, <1>5, TracksNoFault DEF Tracks, Expects, Placed
<1>7. TokenEnd(0) = 0
  BY DEF TokenEnd
<1> HIDE DEF i
<1>8. CASE ~good
  <2>1. call'.pc = "idle"
    BY <1>1, <1>3, <1>8, Leaving
  <2>2. QED BY <2>1, CountsFailed
<1>9. CASE good
  <2>1. stream.held > 0 /\ stream.held \in Nat
    <3>1. stream.held \in Nat
      BY <1>0, TokenEnds
    <3>2. ASSUME stream.held = 0 PROVE FALSE
      <4>1. BitPos(i) \in Nat /\ BitPos(i) >= TokenEnd(stream.held)
        BY <1>4, <1>6, <1>7, <3>2
      <4>2. ~HasToken(i, {"wrapper"})
        BY <1>0, <4>1, NoTokenHere
      <4>3. QED BY <1>9, <4>2
    <3>3. QED BY <3>1, <3>2
  <2>2. 0 \in 0 .. stream.held /\ 0 < stream.held
    BY <2>1
  <2> DEFINE u == stream.toks[1]
  <2>3. /\ u \in Token /\ PlaceOf(u) = "wrapper"
        /\ TokenEnd(1) = stream.starts[1] + Width(u)
        /\ u.kind \notin {"len", "footer"} => stream.starts[1] = 0
    BY <1>0, <1>6, <1>7, <2>2, NextToken
  <2>4. u.kind = "wrapper"
    BY <2>3 DEF PlaceOf
  <2>5. PICK n \in 1 .. INPUT_BUF_SIZE : u.bits = 8 * n
    BY <2>3, <2>4, WrapperToken
  <2>6. t = u
    BY <1>0, <1>4, <1>6, <1>7, <2>2, <2>3, <2>4, TokenHere
  <2>7. TokenEnd(1) = 8 * n
    BY <2>3, <2>4, <2>5 DEF Width
  <2>8. u.bits \div 8 = n /\ n \in Nat
    <3>1. INPUT_BUF_SIZE \in Nat
      BY StreamAssumption
    <3>2. QED BY <2>5, <3>1
  <2>9. in' = [i EXCEPT !.pos = i.pos + n]
    BY <1>3, <1>9, <2>6, <2>8
  <2>10. BitPos(in') = TokenEnd(0 + 1)
    <3>1. i \in [pos : Nat, end : Nat, left : Int, over : Int]
      BY <1>4 DEF ReaderFits, ReaderOK
    <3>2. in'.pos = n /\ in'.left = 0 /\ in'.over = 0
      BY <1>4, <1>6, <2>8, <2>9, <3>1
    <3>3. BitPos(in') = 8 * n
      BY <2>8, <3>2 DEF BitPos
    <3>4. QED BY <2>7, <3>3
  <2>11. /\ dec'.state = "BlockHeader" /\ dec'.match = dec.match /\ dec'.lits = dec.lits
         /\ call'.pc = "account"
    BY <1>1, <1>3, <1>9, Leaving DEF DecoderOK
  <2>12. Genuine(i, {"wrapper"}, u, 0)
    BY <1>0, <1>4, <1>5, <1>6, <1>9, <2>2 DEF Genuine
  <2>13. D[0].place \notin {"block", "footer"} /\ (HasPending' => HasPending)
    BY <1>6, <2>11 DEF HasPending
  <2>14. QED BY <1>2, <2>10, <2>11, <2>12, <2>13, CountsRead
<1>10. QED BY <1>8, <1>9

LEMMA CodeLengthCounts ==
  ASSUME Counting, ParseCodeLength
  PROVE  StallInv'
<1> DEFINE r == IF in.left < 14 THEN Refilled(in) ELSE in
           kinds == {"lens"}
<1>0. Ready
  BY CountingFacts
<1>1. PICK t \in Read(r, kinds, Phantoms.lens) :
         /\ in' = IF Overrun(r) THEN r ELSE Consumed(r, t.bits)
         /\ IF Overrun(r) \/ ~t.ok THEN Fail("BadData") /\ UNCHANGED dec
            ELSE IF t.last THEN ToAccount /\ dec' = WithTable("dynamic", t.longest)
            ELSE UNCHANGED <<dec, call>>
  BY DEF ParseCodeLength
<1>2. call.pc = "codelens" /\ NotePhantom(HasToken(r, kinds))
  BY DEF ParseCodeLength
<1>3. /\ ReaderFits(r) /\ BitPos(r) = BitPos(in) /\ r.left >= 14 /\ r.left \in Nat
  BY <1>0, <1>2, LengthReader
<1>4. DecoderOK /\ CallOK /\ StreamOK /\ dec.state = "DynamicCodeLengths" /\ DecoderFits
  BY <1>0, <1>2, ReadyFacts DEF CallFits
<1> HIDE DEF r, kinds
<1>5. \A k \in 0 .. stream.held : Tracks(k) => D[k].place = "lens"
  BY <1>4 DEF Tracks, Expects
<1>6. t \in Token /\ \E k : Genuine(r, kinds, t, k)
  <2>1. \A u \in Token : PlaceOf(u) = "lens" => u.kind \in kinds
    BY SymbolKinds DEF kinds
  <2>2. \A u \in Phantoms.lens : u \in Token
    BY PhantomsAreTokens
  <2>3. dec.state # "WrapperFooter" /\ "lens" \in {"block", "precode", "lens", "symbol"}
    BY <1>4
  <2>4. /\ t \in Token
        /\ (\E k : Genuine(r, kinds, t, k)) \/ Invented(r, kinds, t, Phantoms.lens)
    BY <1>0, <1>1, <1>3, <1>5, <2>1, <2>2, <2>3, ReadCases
  <2>5. QED BY <1>2, <2>4, NothingInvented
<1>7. PICK k : Genuine(r, kinds, t, k)
  BY <1>6
<1>8. /\ k \in 0 .. stream.held /\ Tracks(k) /\ D[k].place = "lens"
      /\ t.kind = "lens"
  <2>1. k \in 0 .. stream.held /\ Tracks(k) /\ HasToken(r, kinds)
    BY <1>7 DEF Genuine
  <2>2. t.kind = "lens"
    BY <1>1, <1>4, PhantomsAreTokens, ReadGives DEF kinds
  <2>3. QED BY <1>5, <2>1, <2>2
<1>9. t.bits \in 1 .. 14 /\ t.longest \in Nat
  BY <1>6, <1>8, LensToken
<1>10. CASE Overrun(r) \/ ~t.ok
  <2>1. call'.pc = "idle"
    BY <1>1, <1>4, <1>10, Leaving
  <2>2. QED BY <2>1, CountsFailed
<1>11. CASE ~(Overrun(r) \/ ~t.ok)
  <2>1. /\ in' = Consumed(r, t.bits)
        /\ dec' = WithTable("dynamic", t.longest) \/ dec' = dec
    BY <1>1, <1>11
  <2>2. /\ dec'.state \in {"CompressedData", "DynamicCodeLengths"}
        /\ dec'.match = dec.match /\ dec'.lits = dec.lits
    <3>1. CASE dec' = dec
      BY <1>4, <3>1
    <3>2. CASE dec' = WithTable("dynamic", t.longest)
      <4>1. dec'.match = dec.match /\ dec'.lits = dec.lits
        BY <1>4, <1>9, <3>2, TableMade
      <4>2. dec'.state = "CompressedData"
        BY <1>4, <3>2 DEF WithTable, DecoderOK
      <4>3. QED BY <4>1, <4>2
    <3>3. QED BY <2>1, <3>1, <3>2
  <2>3. BitPos(in') = BitPos(r) + t.bits
    BY <1>3, <1>9, <2>1, ConsumedFits
  <2>4. BitPos(in') = TokenEnd(k + 1)
    <3>1. TokenEnd(k + 1) = BitPos(r) + Width(t)
      BY <1>0, <1>7, <1>8, GenuineEnds
    <3>2. QED BY <1>8, <2>3, <3>1 DEF Width
  <2>5. QED BY <1>4, <1>7, <1>8, <2>2, <2>4, CountsRead DEF HasPending
<1>12. QED BY <1>10, <1>11

LEMMA EnterCodeLengthsCounts ==
  ASSUME Counting, EnterCodeLengths
  PROVE  StallInv'
<1>1. StreamOK /\ ReaderFits(in)
  BY CountingFacts, ReadyFacts
<1>2. dec.state = "DynamicCodeLengths" /\ in' = Filled(in) /\ dec' = dec
  BY DEF EnterCodeLengths
<1>3. BitPos(in') = BitPos(in)
  BY <1>1, <1>2, FilledFits
<1>4. QED BY <1>2, <1>3, CountsHere DEF HasPending

-------------------------------------------------------------------------------
(* Within decompress_block.                                                *)
LEMMA ResumesCount ==
  ASSUME Counting, ResumeMatch \/ ResumeLiteral
  PROVE  StallInv'
<1>1. dec.state = "CompressedData" /\ HasPending /\ in' = in
  BY DEF ResumeMatch, ResumeLiteral, InBlock, HasPending
<1>2. DecoderOK
  BY CountingFacts, ReadyFacts
<1>3. dec'.state = dec.state
  BY <1>2 DEF ResumeMatch, ResumeLiteral, DecoderOK
<1>4. QED BY <1>1, <1>3, CountsHere

LEMMA EnterLoopsCounts ==
  ASSUME Counting, EnterLoops
  PROVE  StallInv'
<1> DEFINE i == IF Staged(in) < REFILL_BELOW THEN Filled(in) ELSE in
           addDoubles == dec.doubles_pending /\ Staged(i) >= DOUBLE_LITERAL_MIN_INPUT
<1>0. Ready
  BY CountingFacts
<1>1. StreamOK /\ ReaderFits(in) /\ DecoderOK
  BY <1>0, ReadyFacts
<1>2. /\ AtRefill
      /\ dec' = IF addDoubles
                  THEN [dec EXCEPT !.table.doubles = TRUE, !.doubles_pending = FALSE,
                                   !.litlen_doubles = TRUE]
                  ELSE dec
      /\ IF FastOk(i, write_pos) THEN in' = RefilledFast(i) ELSE in' = i
  BY DEF EnterLoops
<1>3. dec.state = "CompressedData"
  BY <1>0, <1>2, NothingPending DEF AtRefill
<1>4. ReaderFits(i) /\ BitPos(i) = BitPos(in)
  BY <1>1, FilledFits
<1>5. dec'.state = dec.state /\ dec'.match = dec.match /\ dec'.lits = dec.lits
  BY <1>1, <1>2 DEF DecoderOK
<1> HIDE DEF i, addDoubles
<1>6. BitPos(in') = BitPos(in)
  <2>1. CASE FastOk(i, write_pos)
    <3>1. Staged(i) >= 7
      <4>1. Staged(i) > FASTLOOP_MAX_BYTES_READ /\ Staged(i) \in Nat
        BY <1>4, <2>1, ReaderTypes DEF FastOk, ReaderFits
      <4>2. QED BY <4>1, StreamAssumption
    <3>2. QED BY <1>1, <1>2, <1>4, <2>1, <3>1, RefilledFastFits
  <2>2. QED BY <1>2, <1>4, <2>1
<1>7. QED BY <1>3, <1>5, <1>6, CountsHere DEF HasPending

LEMMA GenericReenterCounts ==
  ASSUME Counting, GenericReenter
  PROVE  StallInv'
<1>1. StreamOK /\ ReaderFits(in) /\ in.over <= 8
  BY CountingFacts, ReadyFacts
<1>2. dec.state = "CompressedData" /\ in' = GenericInput /\ dec' = dec
  BY DEF GenericReenter, InBlock
<1>3. BitPos(in') = BitPos(in)
  BY <1>1, <1>2, GenericInputFits
<1>4. QED BY <1>2, <1>3, CountsHere DEF HasPending

LEMMA GenericOverrunCounts ==
  ASSUME Counting, GenericOverrun
  PROVE  StallInv'
<1>1. CallOK
  BY CountingFacts, ReadyFacts
<1>2. call'.pc = "idle"
  BY <1>1, Leaving DEF GenericOverrun
<1>3. QED BY <1>2, CountsFailed

(* Symbols end a run of blocks without output, and no block ends in them.  *)

LEMMA EntrySpan ==
  ASSUME Ready, NEW r, AtSymbol(r), NEW t \in Token, t.kind = "lit",
         NEW k, Genuine(r, Symbols, t, k)
  PROVE  /\ k \in 0 .. stream.held /\ Tracks(k)
         /\ \E j \in k .. stream.held :
              /\ Inside(k, j) /\ Runs[j] = 0
              /\ TokenEnd(j) = BitPos(r) + Entry(r, t).bits
<1>1. /\ Continues(k, k + 1) /\ t.kind \in Symbols
  BY GenuineLiteral DEF Symbols
<1>2. /\ TokenEnd(k + 1) = BitPos(r) + Width(t) /\ k \in Nat
      /\ k + 1 \in 0 .. stream.held /\ D[k].place = "symbol"
  BY <1>1, SymbolGenuine
<1>3. t.bits \in Nat /\ Width(t) = t.bits
  BY LitToken, TokenWidth
<1>4. /\ k \in 0 .. stream.held /\ k + 1 \in k .. stream.held /\ Tracks(k) /\ Inside(k, k + 1)
      /\ Runs[k + 1] = 0
  BY <1>2, OneInside DEF Productive
<1>5. CASE Entry(r, t) = [vals |-> <<t.val>>, bits |-> t.bits]
  <2>1. Entry(r, t).bits = t.bits
    BY <1>5
  <2>2. QED BY <1>2, <1>3, <1>4, <2>1
<1>6. ASSUME NEW u \in Tokens(Consumed(r, t.bits), {"lit"}),
             Entry(r, t) = [vals |-> <<t.val, u.val>>, bits |-> t.bits + u.bits]
      PROVE  \E j \in k .. stream.held :
                /\ Inside(k, j) /\ Runs[j] = 0
                /\ TokenEnd(j) = BitPos(r) + Entry(r, t).bits
  <2> DEFINE i == Consumed(r, t.bits)
             j == k + 1
  <2>1. BitPos(i) = TokenEnd(j)
    <3>1. ReaderOK(r)
      BY DEF AtSymbol, ReaderFits
    <3>2. /\ ReaderOK(i) /\ i.pos = r.pos /\ i.left = r.left - t.bits /\ i.over = r.over
      <4>1. t.bits \in Int
        BY <1>3
      <4>2. QED BY <3>1, <4>1, ConsumedReader
    <3>3. BitPos(i) = BitPos(r) + t.bits
      BY <1>3, <3>1, <3>2 DEF BitPos, ReaderOK
    <3>4. QED BY <1>2, <1>3, <3>3
  <2>2. Good(j) /\ D[j].place = "symbol"
    BY <1>1 DEF Continues
  <2>3. u \in Tokens(i, {"lit"}) /\ j \in Nat /\ ~D[j].fault /\ j \in 0 .. stream.held
    BY <1>2, <1>6, <2>2 DEF Good
  <2> HIDE DEF i, j
  <2>4. /\ j + 1 \in 0 .. stream.held
        /\ u \in Token /\ u.kind = "lit" /\ u = stream.toks[j + 1]
        /\ TokenEnd(j + 1) = TokenEnd(j) + Width(u)
    BY <2>1, <2>2, <2>3, SecondToken
  <2>5. Width(u) = u.bits /\ u.bits \in Nat
    BY <2>4, LitToken, TokenWidth
  <2>6. Runs[j + 1] = 0
    <3>1. LaidOut /\ j + 1 \in 1 .. Size /\ (j + 1) - 1 = j
      BY <2>3, <2>4, ReadyFacts, TokenEnds
    <3>2. Productive(u)
      BY <2>4 DEF Productive
    <3>3. QED BY <2>4, <3>1, <3>2, RunsGo DEF RunAfter
  <2>7. j + 1 \in k .. stream.held /\ Inside(k, j + 1)
    <3>1. stream.held \in Nat
      BY ReadyFacts, TokenEnds
    <3>2. j + 1 \in k .. stream.held /\ k .. ((j + 1) - 1) = (k .. ((k + 1) - 1)) \cup {j}
      BY <1>2, <2>3, <2>4, <3>1 DEF j
    <3>3. QED BY <1>4, <2>2, <3>2 DEF Inside
  <2>8. TokenEnd(j + 1) = BitPos(r) + Entry(r, t).bits
    <3>1. Entry(r, t).bits = t.bits + u.bits
      BY <1>6
    <3>2. BitPos(r) \in Int
      BY ReaderTypes DEF AtSymbol, ReaderFits
    <3>3. TokenEnd(j) = BitPos(r) + t.bits
      BY <1>2, <1>3 DEF j
    <3>4. QED BY <1>3, <2>4, <2>5, <3>1, <3>2, <3>3
  <2>9. QED BY <2>6, <2>7, <2>8
<1>7. QED BY <1>4, <1>5, <1>6, EntryCases

(* Literals.                                                               *)
LEMMA LiteralCounts ==
  ASSUME Counting, NEW r, AtSymbol(r), NEW t \in Token, t.kind = "lit",
         NEW k, Genuine(r, Symbols, t, k), BitPos(in') = BitPos(r) + Entry(r, t).bits,
         dec'.state = "CompressedData"
  PROVE  StallInv'
<1>1. Ready /\ dec.state # "BlockHeader"
  BY CountingFacts DEF AtSymbol
<1>2. k \in 0 .. stream.held /\ Tracks(k)
  BY <1>1, EntrySpan
<1>3. PICK j \in k .. stream.held :
         Inside(k, j) /\ Runs[j] = 0 /\ TokenEnd(j) = BitPos(r) + Entry(r, t).bits
  BY <1>1, EntrySpan
<1>4. BitPos(in') = TokenEnd(j)
  BY <1>3
<1>5. QED BY <1>1, <1>2, <1>3, <1>4, CountsOn

LEMMA GenericLiteralCounts ==
  ASSUME Counting, GenericLiteral
  PROVE  StallInv'
<1> DEFINE r == GenericReader
<1>0. Ready
  BY CountingFacts
<1>1. PICK t \in Read(r, Symbols, Phantoms.symbol) :
         /\ t.kind = "lit"
         /\ in' = Consumed(r, Entry(r, t).bits)
         /\ \E lits : dec' = [dec EXCEPT !.lits = lits]
  BY DEF GenericLiteral
<1>2. GenericReady /\ NotePhantom(HasToken(r, Symbols))
  BY DEF GenericLiteral
<1>3. AtSymbol(r) /\ r.left >= 56 /\ r.left \in Nat
  BY <1>0, <1>2, GenericSymbol
<1> HIDE DEF r
<1>4. t \in Token /\ \E k : Genuine(r, Symbols, t, k)
  BY <1>0, <1>1, <1>2, <1>3, SymbolCases, NothingInvented
<1>5. PICK k : Genuine(r, Symbols, t, k)
  BY <1>4
<1> DEFINE bits == Entry(r, t).bits
<1>6. bits \in Nat /\ bits <= 18
  BY <1>0, <1>1, <1>4, EntryBits
<1>7. in' = Consumed(r, bits)
  BY <1>1
<1> HIDE DEF bits
<1>8. BitPos(in') = BitPos(r) + bits
  <2>1. bits <= r.left
    BY <1>3, <1>6
  <2>2. QED BY <1>6, <1>7, <2>1, <1>3, ConsumedFits DEF AtSymbol
<1>9. dec'.state = "CompressedData"
  <2>1. DecoderOK /\ dec.state = "CompressedData"
    BY <1>0, <1>3, ReadyFacts DEF AtSymbol
  <2>2. QED BY <1>1, <2>1 DEF DecoderOK
<1>10. QED BY <1>1, <1>3, <1>4, <1>5, <1>8, <1>9, LiteralCounts DEF bits

LEMMA FastLiteralCounts ==
  ASSUME Counting, FastLiteral
  PROVE  StallInv'
<1>0. Ready
  BY CountingFacts
<1>1. PICK t \in Read(in, Symbols, Phantoms.symbol) :
         /\ t.kind = "lit"
         /\ LET i == Consumed(in, Entry(in, t).bits)
            IN  in' = i \/ \E n : FastTurn(i, n)
  BY DEF FastLiteral
<1>2. InBlock("fast") /\ UNCHANGED dec
  BY DEF FastLiteral
<1>3. /\ AtSymbol(in) /\ in.left \in Nat /\ in.left >= 20 /\ in.over = 0
      /\ Staged(in) >= 15 /\ Staged(in) \in Nat
  BY <1>0, <1>2, FastSymbol
<1>4. t \in Token /\ \E k : Genuine(in, Symbols, t, k)
  BY <1>0, <1>2, FastIsGenuine
<1>5. PICK k : Genuine(in, Symbols, t, k)
  BY <1>4
<1> DEFINE bits == Entry(in, t).bits
           i == Consumed(in, bits)
<1>6. bits \in Nat /\ bits <= 18
  BY <1>0, <1>1, <1>4, EntryBits
<1>7. in' = i \/ \E n : FastTurn(i, n)
  BY <1>1
<1> HIDE DEF bits
<1>8. /\ ReaderFits(i) /\ BitPos(i) = BitPos(in) + bits /\ Staged(i) >= 7
  <2>1. bits <= in.left
    BY <1>3, <1>6
  <2>2. /\ ReaderFits(i) /\ BitPos(i) = BitPos(in) + bits
        /\ i.pos = in.pos /\ i.end = in.end
    BY <1>3, <1>6, <2>1, ConsumedFits DEF AtSymbol
  <2>3. Staged(i) = Staged(in)
    BY <2>2 DEF Staged
  <2>4. QED BY <1>3, <2>2, <2>3
<1> HIDE DEF i
<1>9. BitPos(in') = BitPos(in) + bits
  <2>1. CASE in' = i
    BY <1>8, <2>1
  <2>2. ASSUME NEW n, FastTurn(i, n) PROVE BitPos(in') = BitPos(in) + bits
    BY <1>0, <1>8, <2>2, TurnFits
  <2>3. QED BY <1>7, <2>1, <2>2
<1>10. dec'.state = "CompressedData"
  BY <1>2, <1>3 DEF AtSymbol
<1>11. QED BY <1>1, <1>3, <1>4, <1>5, <1>9, <1>10, LiteralCounts DEF bits

(* Matches.                                                                *)
LEMMA MatchCounts ==
  ASSUME Counting, NEW r, AtSymbol(r), NEW t \in Token, t.kind = "match",
         NEW k, Genuine(r, Symbols, t, k), BitPos(in') = BitPos(r) + Width(t),
         dec'.state = "CompressedData"
  PROVE  StallInv'
<1>1. Ready /\ dec.state # "BlockHeader"
  BY CountingFacts DEF AtSymbol
<1>2. D[k].place = "symbol" /\ TokenEnd(k + 1) = BitPos(r) + Width(t)
  BY <1>1, SymbolGenuine DEF Symbols
<1>3. BitPos(in') = TokenEnd(k + 1) /\ Productive(t)
  BY <1>2 DEF Productive
<1>4. QED BY <1>1, <1>2, <1>3, CountsRead

LEMMA GenericMatchCounts ==
  ASSUME Counting, GenericMatch
  PROVE  StallInv'
<1> DEFINE r == GenericReader
<1>0. Ready
  BY CountingFacts
<1>1. PICK t \in Read(r, Symbols, Phantoms.symbol) :
         /\ t.kind = "match"
         /\ in' = Consumed(r, t.bits + t.obits)
         /\ \/ Fail("BadData")
            \/ dec' = dec
            \/ \E m : dec' = [dec EXCEPT !.match = m]
  BY DEF GenericMatch
<1>2. GenericReady /\ NotePhantom(HasToken(r, Symbols))
  BY DEF GenericMatch
<1>3. AtSymbol(r) /\ r.left >= 56 /\ r.left \in Nat
  BY <1>0, <1>2, GenericSymbol
<1> HIDE DEF r
<1>4. t \in Token /\ \E k : Genuine(r, Symbols, t, k)
  BY <1>0, <1>1, <1>2, <1>3, SymbolCases, NothingInvented
<1>5. PICK k : Genuine(r, Symbols, t, k)
  BY <1>4
<1> DEFINE bits == t.bits + t.obits
<1>6. bits \in Nat /\ bits <= 48 /\ bits = Width(t)
  BY <1>1, <1>4, MatchToken DEF Width
<1>7. in' = Consumed(r, bits)
  BY <1>1
<1> HIDE DEF bits
<1>8. BitPos(in') = BitPos(r) + Width(t)
  <2>1. bits <= r.left
    BY <1>3, <1>6
  <2>2. QED BY <1>6, <1>7, <2>1, <1>3, ConsumedFits DEF AtSymbol
<1>9. DecoderOK /\ CallOK /\ dec.state = "CompressedData"
  BY <1>0, <1>3, ReadyFacts DEF AtSymbol
<1>10. CASE Fail("BadData")
  BY <1>9, <1>10, Leaving, CountsFailed
<1>11. CASE dec' = dec \/ \E m : dec' = [dec EXCEPT !.match = m]
  <2>1. dec'.state = "CompressedData"
    BY <1>9, <1>11 DEF DecoderOK
  <2>2. QED BY <1>1, <1>3, <1>4, <1>5, <1>8, <2>1, MatchCounts
<1>12. QED BY <1>1, <1>10, <1>11

LEMMA FastMatchCounts ==
  ASSUME Counting, FastMatch
  PROVE  StallInv'
<1>0. Ready
  BY CountingFacts
<1>1. PICK t \in Read(in, Symbols, Phantoms.symbol) :
         /\ t.kind = "match"
         /\ LET len == Consumed(in, t.bits)
                mid == IF len.left < 28 + dec.table.bits THEN RefilledFast(len) ELSE len
                i == Consumed(mid, t.obits)
            IN  Fail("BadData") \/ FastTurn(i, t.length)
  BY DEF FastMatch
<1>2. InBlock("fast") /\ UNCHANGED dec
  BY DEF FastMatch
<1>3. AtSymbol(in) /\ CallOK
  BY <1>0, <1>2, FastSymbol, ReadyFacts
<1>4. t \in Token /\ \E k : Genuine(in, Symbols, t, k)
  BY <1>0, <1>2, FastIsGenuine
<1>5. PICK k : Genuine(in, Symbols, t, k)
  BY <1>4
<1>6. /\ t.bits \in Nat /\ t.bits <= 20 /\ t.obits \in Nat /\ t.obits <= 28
      /\ Width(t) = t.bits + t.obits
  BY <1>1, <1>4, MatchToken, StreamAssumption DEF Width
<1> DEFINE len == Consumed(in, t.bits)
           mid == IF len.left < 28 + dec.table.bits THEN RefilledFast(len) ELSE len
           i == Consumed(mid, t.obits)
<1>7. ReaderFits(i) /\ BitPos(i) = BitPos(in) + Width(t) /\ Staged(i) >= 7
  BY <1>0, <1>2, <1>6, FastMatchReader
<1>8. Fail("BadData") \/ FastTurn(i, t.length)
  BY <1>1
<1> HIDE DEF i, mid, len
<1>9. CASE Fail("BadData")
  BY <1>3, <1>9, Leaving, CountsFailed
<1>10. CASE FastTurn(i, t.length)
  <2>1. BitPos(in') = BitPos(in) + Width(t)
    BY <1>0, <1>7, <1>10, TurnFits
  <2>2. dec'.state = "CompressedData"
    BY <1>2, <1>3 DEF AtSymbol
  <2>3. QED BY <1>1, <1>3, <1>4, <1>5, <2>1, <2>2, MatchCounts
<1>11. QED BY <1>8, <1>9, <1>10

(* The end of a block.                                                     *)

(* A raw stream ends with its last block.                                  *)
LEMMA RawEndsHere ==
  ASSUME Known, wrapper = "raw", NEW j \in 0 .. stream.held, Good(j), D[j].place = "footer"
  PROVE  j = Size
<1>1. /\ stream.held \in Nat /\ stream.held <= Size /\ Size \in Nat /\ Suited /\ j \in 0 .. Size
  BY TokenEnds DEF Known
<1>2. SUFFICES ASSUME j < Size PROVE FALSE
  BY <1>1
<1>3. j + 1 \in 1 .. Size /\ (j + 1) - 1 = j
  BY <1>1, <1>2
<1>4. PlaceOf(stream.toks[j + 1]) = "footer"
  BY <1>1, <1>3 DEF Suited, Good
<1>5. stream.toks[j + 1].kind = "footer"
  BY <1>4 DEF PlaceOf
<1>6. QED BY <1>1, <1>3, <1>5 DEF Suited

LEMMA FinishCounts ==
  ASSUME Counting, dec.state # "BlockHeader", dec.match = NoMatch, dec.lits = <<>>,
         NEW k \in 0 .. stream.held, Tracks(k), NEW j \in k .. stream.held, Inside(k, j),
         Good(j), D[j].place = AfterBlock(D[j].final), dec.final = D[j].final,
         produced' = D[j].out, ReaderFits(in'), BitPos(in') = TokenEnd(j), FinishBlock(in')
  PROVE  StallInv'
<1>0. /\ Known /\ LaidOut /\ StreamOK /\ DecoderOK /\ CallOK /\ WindowInv
  BY CountingFacts, ReadyFacts
<1>1. j \in 0 .. stream.held
  BY <1>0, TokenEnds
<1>2. in'.over <= in'.left \div 8
  <2>1. BitPos(in') <= 8 * stream.nbytes
    BY <1>0, <1>1, TokenEnds
  <2>2. QED BY <1>0, <2>1, WithinStream
<1>3. ~(in'.over > in'.left \div 8)
  <2>1. in'.over \in Int /\ in'.left \in Int
    BY ReaderTypes DEF ReaderFits
  <2>2. in'.left \div 8 \in Int
    BY <2>1
  <2>3. QED BY <1>2, <2>1, <2>2
<1>4. Finished(in') = IF ~dec.final THEN "BlockHeader"
                      ELSE IF wrapper = "raw" THEN "Done" ELSE "WrapperFooter"
  BY <1>3 DEF Finished
<1>5. ToAccount /\ dec' = [dec EXCEPT !.state = Finished(in'), !.remaining = 0]
  BY <1>4 DEF FinishBlock
<1>6. /\ dec'.state = Finished(in') /\ dec'.match = NoMatch /\ dec'.lits = <<>>
      /\ call'.pc = "account"
  BY <1>0, <1>5, Leaving DEF DecoderOK
<1>7. ~HasPending'
  BY <1>6 DEF HasPending
<1>8. CASE dec'.state # "Done"
  BY <1>6, <1>7, <1>8, CountsOn
<1>9. CASE dec'.state = "Done"
  <2>1. dec.final /\ wrapper = "raw"
    BY <1>4, <1>6, <1>9
  <2>2. D[j].final = TRUE
    <3>1. j \in 0 .. Size
      BY <1>0, <1>1, TokenEnds
    <3>2. D[j] \in Meaning
      BY <1>0, <3>1 DEF Meant, Known
    <3>3. QED BY <2>1, <3>2 DEF Meaning
  <2>3. D[j].place = "footer"
    BY <2>2 DEF AfterBlock
  <2>4. j = Size
    BY <1>0, <1>1, <2>1, <2>3, RawEndsHere
  <2>5. \A e \in Ends : e <= j
    BY <1>0, <2>4, TokenEnds DEF Ends
  <2>6. Leads(produced', D[j].out)
    BY <1>0, <1>1, OutLeads, LeadsReflexive
  <2>7. QED BY <1>6, <1>7, <1>9, <2>5, <2>6, CountsEnd
<1>10. QED BY <1>8, <1>9

LEMMA EndOfBlockCounts ==
  ASSUME Counting, NEW r, AtSymbol(r), r.left \in Nat, r.left >= 15,
         NEW t \in Token, t.kind = "eob", NEW k, Genuine(r, Symbols, t, k),
         in' = Consumed(r, t.bits), FinishBlock(in'), UNCHANGED bufferVars
  PROVE  StallInv'
<1>0. Ready
  BY CountingFacts
<1>1. t.bits \in 1 .. 15 /\ Width(t) = t.bits
  BY EobToken, TokenWidth
<1>2. t.bits \in Nat /\ t.bits <= r.left
  BY <1>1
<1>3. ReaderFits(in') /\ BitPos(in') = BitPos(r) + t.bits
  BY <1>2, ConsumedFits DEF AtSymbol
<1>4. t.kind \in Symbols
  BY DEF Symbols
<1>5. /\ k \in 0 .. stream.held /\ Good(k) /\ Tracks(k) /\ D[k].place = "symbol"
      /\ D[k] \in Meaning /\ D[k].fault = FALSE /\ D[k + 1] = DecodeToken(D[k], t)
      /\ D[k].out = produced /\ TokenEnd(k + 1) = BitPos(r) + Width(t)
      /\ dec.final = D[k].final
  BY <1>0, <1>4, SymbolGenuine
<1>6. /\ D[k + 1].out = D[k].out /\ D[k + 1].final = D[k].final /\ D[k + 1].fault = FALSE
      /\ Same(D[k], D[k + 1]) /\ D[k + 1].place = AfterBlock(D[k].final)
  BY <1>5, EndOfBlockMeans
<1>7. Good(k + 1) /\ produced' = D[k + 1].out /\ BitPos(in') = TokenEnd(k + 1)
  BY <1>1, <1>3, <1>5, <1>6, GoodNext DEF bufferVars
<1>8. k + 1 \in k .. stream.held /\ Inside(k, k + 1)
  BY <1>0, <1>5, OneInside
<1>9. D[k + 1].place = AfterBlock(D[k + 1].final) /\ dec.final = D[k + 1].final
  BY <1>5, <1>6
<1>10. dec.match = NoMatch /\ dec.lits = <<>> /\ dec.state # "BlockHeader"
  BY DEF AtSymbol
<1>11. QED BY <1>3, <1>5, <1>7, <1>8, <1>9, <1>10, FinishCounts

LEMMA GenericEndOfBlockCounts ==
  ASSUME Counting, GenericEndOfBlock
  PROVE  StallInv'
<1> DEFINE r == GenericReader
<1>0. Ready
  BY CountingFacts
<1>1. PICK t \in Read(r, Symbols, Phantoms.symbol) :
         t.kind = "eob" /\ in' = Consumed(r, t.bits) /\ FinishBlock(in')
  BY DEF GenericEndOfBlock
<1>2. GenericReady /\ NotePhantom(HasToken(r, Symbols)) /\ UNCHANGED bufferVars
  BY DEF GenericEndOfBlock
<1>3. AtSymbol(r) /\ r.left \in Nat /\ r.left >= 15
  BY <1>0, <1>2, GenericSymbol
<1> HIDE DEF r
<1>4. t \in Token /\ \E k : Genuine(r, Symbols, t, k)
  BY <1>0, <1>1, <1>2, <1>3, SymbolCases, NothingInvented
<1>5. PICK k : Genuine(r, Symbols, t, k)
  BY <1>4
<1>6. QED BY <1>1, <1>2, <1>3, <1>4, <1>5, EndOfBlockCounts

LEMMA FastEndOfBlockCounts ==
  ASSUME Counting, FastEndOfBlock
  PROVE  StallInv'
<1>0. Ready
  BY CountingFacts
<1>1. PICK t \in Read(in, Symbols, Phantoms.symbol) :
         t.kind = "eob" /\ in' = Consumed(in, t.bits) /\ FinishBlock(in')
  BY DEF FastEndOfBlock
<1>2. InBlock("fast") /\ UNCHANGED bufferVars
  BY DEF FastEndOfBlock
<1>3. AtSymbol(in) /\ in.left \in Nat /\ in.left >= 15
  BY <1>0, <1>2, FastSymbol
<1>4. t \in Token /\ \E k : Genuine(in, Symbols, t, k)
  BY <1>0, <1>2, FastIsGenuine
<1>5. PICK k : Genuine(in, Symbols, t, k)
  BY <1>4
<1>6. QED BY <1>1, <1>2, <1>3, <1>4, <1>5, EndOfBlockCounts

(* Stored bytes.                                                           *)
LEMMA CopyInside ==
  ASSUME Ready, hist.errors = 0, dec.state = "UncompressedData", NEW k, NEW b, NEW j,
         CopyGoes(k, b, j)
  PROVE  /\ k \in 0 .. stream.held /\ Tracks(k) /\ j \in k .. stream.held
         /\ Inside(k, j)
<1> DEFINE n == Drained + FromCopyInput
<1>0. /\ Known /\ LaidOut /\ StreamOK /\ DecoderOK /\ stream.held \in Nat /\ stream.held <= Size
      /\ Size \in Nat
  BY ReadyFacts, TokenEnds
<1>1. /\ k \in 0 .. stream.held /\ Tracks(k) /\ TokenEnd(k) = 8 * b /\ b \in Nat
      /\ n \in Nat /\ n <= dec.remaining /\ b + n <= stream.nbytes
      /\ CopiedTo(j, b, n)
  BY Zenon DEF CopyGoes
<1>2. dec.remaining \in Nat /\ stream.nbytes \in Nat
  BY <1>0 DEF DecoderOK, StreamOK
<1>3. j \in 0 .. stream.held /\ TokenEnd(j) = 8 * (b + n)
  BY <1>1 DEF CopiedTo
<1> HIDE DEF n
<1>4. /\ Good(k)
      /\ \/ dec.remaining = 0
         \/ /\ dec.remaining > 0 /\ D[k].place = "byte"
            /\ D[k].todo = dec.remaining \/ TokenEnd(k) = 8 * stream.nbytes
  BY <1>1 DEF Tracks, Expects
<1>5. CASE n = 0
  <2>1. TokenEnd(j) = TokenEnd(k)
    BY <1>1, <1>3, <1>5
  <2>2. j = k
    <3>1. j \in 0 .. Size /\ k \in 0 .. Size
      BY <1>0, <1>1, <1>3
    <3>2. QED BY <1>0, <2>1, <3>1, EndsApart
  <2>3. j \in k .. stream.held /\ k .. (j - 1) = {}
    BY <1>0, <1>1, <2>2
  <2>4. QED BY <1>1, <2>3 DEF Inside
<1>6. CASE n # 0
  <2>1. TokenEnd(k) # 8 * stream.nbytes /\ dec.remaining > 0
    BY <1>1, <1>2, <1>6
  <2>2. D[k].place = "byte" /\ D[k].todo = dec.remaining
    BY <1>4, <2>1, <1>2
  <2>3. D[k].todo \in Nat \ {0} /\ n <= D[k].todo
    BY <1>1, <1>2, <2>1, <2>2
  <2>4. ASSUME NEW m \in 0 .. n PROVE AfterBytes(k, b, m)
    <3>1. m \in 0 .. D[k].todo /\ TokenEnd(k) + 8 * m <= 8 * stream.nbytes
      BY <1>1, <1>2, <2>3
    <3>2. QED BY <1>0, <1>1, <1>4, <2>2, <2>3, <3>1, RawBytesMean
  <2>5. k + n \in 0 .. stream.held /\ TokenEnd(k + n) = TokenEnd(k) + 8 * n
    <3>1. n \in 0 .. n
      BY <1>1
    <3>2. QED BY <2>4, <3>1 DEF AfterBytes
  <2>6. j = k + n
    <3>1. TokenEnd(j) = TokenEnd(k + n)
      BY <1>1, <1>3, <2>5
    <3>2. j \in 0 .. Size /\ k + n \in 0 .. Size
      BY <1>0, <1>3, <2>5
    <3>3. QED BY <1>0, <3>1, <3>2, EndsApart
  <2>7. j \in k .. stream.held
    BY <1>0, <1>1, <2>5, <2>6
  <2>8. ASSUME NEW l \in k .. (j - 1)
        PROVE  Good(l) /\ D[l].place \notin {"block", "footer"}
    <3> DEFINE m == l - k
    <3>1. m \in 0 .. n /\ m # D[k].todo /\ k + m = l
      BY <1>1, <2>3, <2>6
    <3> HIDE DEF m
    <3>2. AfterBytes(k, b, m)
      BY <2>4, <3>1
    <3>3. Good(l) /\ D[l].place = "byte"
      BY <3>1, <3>2 DEF AfterBytes
    <3>4. QED BY <3>3
  <2>9. QED BY <1>1, <2>7, <2>8 DEF Inside
<1>7. QED BY <1>5, <1>6

LEMMA CopyCounts ==
  ASSUME Counting, CopyUncompressed
  PROVE  StallInv'
<1>0. Ready /\ hist.errors = 0
  BY CountingFacts
<1>1. /\ dec.state = "UncompressedData"
      /\ \/ Fail("BadData")
         \/ StillWanted = FromCopyInput /\ FinishBlock(in')
         \/ /\ dec' = [dec EXCEPT !.remaining = StillWanted - FromCopyInput]
            /\ ToAccount
  BY Zenon DEF CopyUncompressed, CopyInput, FromCopyInput
<1>2. CallOK /\ DecoderOK /\ dec.match = NoMatch /\ dec.lits = <<>>
  BY <1>0, <1>1, ReadyFacts, CopyStart
<1>3. PICK k, b, j : CopyGoes(k, b, j)
  BY <1>0, CopyStep
<1> DEFINE n == Drained + FromCopyInput
<1>4. /\ n = dec.remaining <=> StillWanted = FromCopyInput
      /\ CopiedTo(j, b, n)
      /\ produced' = D[j].out /\ ReaderFits(in') /\ BitPos(in') = TokenEnd(j)
  BY <1>3, Zenon DEF CopyGoes
<1> HIDE DEF n
<1>5. k \in 0 .. stream.held /\ Tracks(k) /\ j \in k .. stream.held /\ Inside(k, j)
  BY <1>0, <1>1, <1>3, CopyInside
<1>6. Good(j) /\ dec.final = D[j].final
  BY <1>4 DEF CopiedTo
<1>7. CASE Fail("BadData")
  BY <1>2, <1>7, Leaving, CountsFailed
<1>8. CASE StillWanted = FromCopyInput /\ FinishBlock(in')
  <2>1. D[j].place = AfterBlock(D[j].final)
    BY <1>4, <1>8 DEF CopiedTo
  <2>2. dec.state # "BlockHeader"
    BY <1>1
  <2>3. QED BY <1>2, <1>4, <1>5, <1>6, <1>8, <2>1, <2>2, FinishCounts
<1>9. CASE dec' = [dec EXCEPT !.remaining = StillWanted - FromCopyInput]
  <2>1. dec'.state = "UncompressedData" /\ dec'.match = NoMatch /\ dec'.lits = <<>>
    BY <1>1, <1>2, <1>9 DEF DecoderOK
  <2>2. ~HasPending'
    BY <2>1 DEF HasPending
  <2>3. QED BY <1>1, <1>4, <1>5, <2>1, <2>2, CountsOn
<1>10. QED BY <1>1, <1>7, <1>8, <1>9

(* A block's header: the run may grow, the counter has caught up.          *)

LEMMA HeaderCounts ==
  ASSUME Counting, call.pc = "dispatch", dec.state = "BlockHeader", UNCHANGED bufferVars,
         NEW k \in 0 .. stream.held, Tracks(k),
         NEW j \in 0 .. stream.held, j = k + 1 \/ j = k + 2,
         stream.toks[k + 1].kind = "block", j = k + 2 => stream.toks[k + 2].kind = "len",
         BitPos(in') = TokenEnd(j), dec'.match = NoMatch, dec'.lits = <<>>,
         dec'.state \notin {"BlockHeader", "Done"}
  PROVE  StallInv'
<1>1. /\ Kept /\ LaidOut /\ UNCHANGED acct /\ acct.stalls \in Nat
      /\ hist.errors = 0 /\ ~hist.phantom /\ Going
      /\ call.pc # "idle" /\ call'.prev = call.prev
  BY CountingFacts
<1>2. /\ Runs' = Runs /\ Ends' = Ends /\ stream' = stream
  BY <1>1, KeptRuns
<1>3. Charged(k) /\ Runs[k] <= acct.stalls /\ Delta = 0
  BY <1>1 DEF Counting, StallInv, Counts
<1>4. /\ k + 1 \in 1 .. Size /\ (k + 1) - 1 = k /\ k \in 0 .. Size /\ j \in 0 .. Size
      /\ k \in Nat /\ j = k + 2 => k + 2 \in 1 .. Size /\ (k + 2) - 1 = k + 1
  <2>1. stream.held \in Nat /\ stream.held <= Size /\ Size \in Nat
    BY <1>1, TokenEnds
  <2>2. QED BY <2>1
<1>5. Runs[k] \in Nat /\ Runs[k + 1] = Runs[k] + 1
  <2>1. Runs[k] \in Nat /\ Runs[k + 1] = RunAfter(Runs[k], stream.toks[k + 1])
    BY <1>1, <1>4, RunsGo
  <2>2. QED BY <2>1 DEF RunAfter, Productive
<1>6. Runs[j] <= acct.stalls + 1
  <2>1. CASE j = k + 1
    BY <1>1, <1>3, <1>5, <2>1
  <2>2. CASE j = k + 2
    <3>1. Runs[k + 2] = RunAfter(Runs[k + 1], stream.toks[k + 2])
      BY <1>1, <1>4, <2>2, RunsGo
    <3>2. Runs[k + 2] = Runs[k + 1] + 0
      BY <2>2, <3>1 DEF RunAfter, Productive
    <3>3. QED BY <1>1, <1>3, <1>5, <2>2, <3>2
  <2>3. QED BY <2>1, <2>2
<1>7. acct.stalls <= MAX_BLOCKS_WITHOUT_OUTPUT
  BY <1>3 DEF Charged
<1>8. ASSUME NEW e \in Ends, e <= j
      PROVE  Runs[e] <= MAX_BLOCKS_WITHOUT_OUTPUT \/ e = j
  <2>1. e \in 1 .. Size /\ Closes(stream.toks[e])
    BY DEF Ends
  <2>2. e # k + 1
    BY <2>1 DEF Closes
  <2>3. CASE e = j
    BY <2>3
  <2>4. CASE e # j
    <3>1. e <= k
      BY <1>4, <1>8, <2>1, <2>2, <2>4
    <3>2. Runs[e] <= MAX_BLOCKS_WITHOUT_OUTPUT \/ e = k
      BY <1>3, <3>1 DEF Charged
    <3>3. CASE e = k
      <4>1. MAX_BLOCKS_WITHOUT_OUTPUT \in Nat
        BY StreamAssumption
      <4>2. QED BY <1>1, <1>3, <1>5, <1>7, <3>3, <4>1
    <3>4. QED BY <3>2, <3>3
  <2>5. QED BY <2>3, <2>4
<1>9. Delta' = 0
  BY <1>1, <1>3 DEF Delta, bufferVars
<1>10. ~HasPending'
  BY DEF HasPending
<1>11. Charged(j)'
  <2> HIDE DEF Runs, Ends
  <2>1. \A e \in Ends : e <= j => (Runs[e] <= MAX_BLOCKS_WITHOUT_OUTPUT \/ e = j)
    BY <1>8
  <2>2. QED BY <1>1, <1>2, <1>6, <1>7, <1>9, <1>10, <2>1 DEF Charged
<1>12. ASSUME Going', NEW n \in 0 .. stream.held, Tracks(n)'
       PROVE  Counts(n)'
  <2>1. n = j
    BY <1>12, StepFollows
  <2>2. QED BY <1>11, <2>1 DEF Counts
<1>13. QED BY <1>1, <1>2, <1>12 DEF StallInv

(* Each type of block has one header token, a stored one its length too.   *)
LEMMA BlockHeaderCounts ==
  ASSUME Counting, ParseBlockHeader
  PROVE  StallInv'
<1> DEFINE r == Refilled(Filled(in))
<1>0. Ready
  BY CountingFacts
<1>1. /\ call.pc = "dispatch" /\ dec.state = "BlockHeader"
      /\ ~AtSegmentEnd(Filled(in)) /\ UNCHANGED bufferVars
      /\ IF Overrun(r) THEN BadBlock(r, dec.final)
         ELSE \E t \in Read(r, {"block"}, Phantoms.block) :
              \/ t.type = "dynamic" /\ BeginDynamic(r, t)
              \/ t.type = "static" /\ BeginStatic(r, t)
              \/ t.type = "stored" /\ BeginStored(r, t)
              \/ t.type = "reserved" /\ BadBlock(r, t.final)
  BY DEF ParseBlockHeader
<1>2. /\ ReaderFits(r) /\ BitPos(r) = BitPos(in) /\ r.left >= 56 /\ r.left \in Nat
      /\ r.over \in Nat
      /\ Staged(r) > 0 \/ r.end = stream.nbytes
  BY <1>0, HeaderReady
<1>3. /\ dec.match = NoMatch /\ dec.lits = <<>> /\ DecoderOK /\ CallOK /\ DecoderFits
      /\ Known /\ LaidOut /\ StreamOK
  BY <1>0, <1>1, ReadyFacts DEF DecoderFits
<1> HIDE DEF r
<1>4. ASSUME NEW final, BadBlock(r, final) PROVE StallInv'
  <2>1. call'.pc = "idle"
    BY <1>3, <1>4, Leaving DEF BadBlock
  <2>2. QED BY <2>1, CountsFailed
<1>5. ASSUME ~Overrun(r), NEW t \in Read(r, {"block"}, Phantoms.block),
             \/ t.type = "dynamic" /\ BeginDynamic(r, t)
             \/ t.type = "static" /\ BeginStatic(r, t)
             \/ t.type = "stored" /\ BeginStored(r, t)
      PROVE  StallInv'
  <2>1. AtHeader(r)
    <3>1. r.over <= 8
      BY <1>2, <1>5 DEF Overrun
    <3>2. QED BY <1>1, <1>2, <1>3, <3>1 DEF AtHeader
  <2>2. NotePhantom(HasToken(r, {"block"}))
    BY <1>5 DEF BeginDynamic, BeginStatic, BeginStored
  <2>3. /\ t \in Token /\ t.kind = "block"
        /\ Width(t) = IF t.type = "dynamic" THEN 20 ELSE 3
        /\ \E k : Genuine(r, {"block"}, t, k)
    BY <1>0, <2>1, <2>2, HeaderTokens, NothingInvented
  <2>4. PICK k : Genuine(r, {"block"}, t, k)
    BY <2>3
  <2>5. /\ k \in 0 .. stream.held /\ k + 1 \in 0 .. stream.held /\ Tracks(k)
        /\ D[k + 1].fault = (t.type = "reserved")
        /\ D[k + 1].place = CASE t.type = "dynamic" -> "precode"
                              [] t.type = "static" -> "symbol"
                              [] t.type = "stored" -> "len"
                              [] OTHER -> "end"
    BY <1>0, <2>1, <2>3, <2>4, HeaderMeans
  <2>6. t = stream.toks[k + 1]
    BY <2>4 DEF Genuine
  <2>7. TokenEnd(k + 1) = BitPos(r) + Width(t) /\ TokenEnd(k + 1) \in Nat
    BY <1>0, <1>3, <2>3, <2>4, <2>5, GenuineEnds, TokenEnds
  <2>8. CASE t.type = "dynamic" /\ BeginDynamic(r, t)
    <3>1. in' = Consumed(r, 20)
          /\ dec' = [dec EXCEPT !.state = "DynamicPrecodeLens", !.final = t.final,
                                !.static_loaded = FALSE]
      BY <2>8 DEF BeginDynamic
    <3>2. BitPos(in') = TokenEnd(k + 1)
      BY <1>2, <2>3, <2>7, <2>8, <3>1, ConsumedFits
    <3>3. dec'.state = "DynamicPrecodeLens" /\ dec'.match = NoMatch /\ dec'.lits = <<>>
      BY <1>3, <3>1 DEF DecoderOK
    <3>4. k + 1 # k + 2
      BY <2>5
    <3>5. QED BY <1>1, <2>3, <2>5, <2>6, <3>2, <3>3, <3>4, HeaderCounts
  <2>9. CASE t.type = "static" /\ BeginStatic(r, t)
    <3> DEFINE d == IF dec.static_loaded THEN dec
                    ELSE [WithTable("static", 9) EXCEPT !.static_loaded = TRUE]
    <3>1. in' = Consumed(r, 3) /\ dec' = [d EXCEPT !.state = "CompressedData", !.final = t.final]
      BY <2>9 DEF BeginStatic
    <3>2. BitPos(in') = TokenEnd(k + 1)
      BY <1>2, <2>3, <2>7, <2>9, <3>1, ConsumedFits
    <3>3. DOMAIN d = DOMAIN dec /\ d.match = NoMatch /\ d.lits = <<>>
      <4>1. CASE dec.static_loaded
        BY <1>3, <4>1
      <4>2. CASE ~dec.static_loaded
        BY <1>3, <4>2, TableFits DEF DecoderOK
      <4>3. QED BY <4>1, <4>2
    <3> HIDE DEF d
    <3>4. dec'.state = "CompressedData" /\ dec'.match = NoMatch /\ dec'.lits = <<>>
      BY <1>3, <3>1, <3>3 DEF DecoderOK
    <3>5. k + 1 # k + 2
      BY <2>5
    <3>6. QED BY <1>1, <2>3, <2>5, <2>6, <3>2, <3>4, <3>5, HeaderCounts
  <2>10. CASE t.type = "stored" /\ BeginStored(r, t)
    <3> DEFINE a == Consumed(r, 3 + ((r.left - 3) % 8))
               len == TheToken(a, {"len"})
               good == RealBytes(a) >= 4 /\ HasToken(a, {"len"}) /\ len.ok
               j == k + 1
    <3>1. \/ Fail("BadData")
          \/ /\ good /\ in' = Consumed(a, 32)
             /\ dec' = [dec EXCEPT !.state = "UncompressedData",
                                   !.final = t.final, !.remaining = len.n]
      BY <2>10 DEF BeginStored
    <3>2. /\ j \in 0 .. stream.held /\ ~D[j].fault /\ D[j].place = "len"
          /\ TokenEnd(j) = BitPos(r) + 3 /\ BitPos(r) + 3 \in Nat /\ TokenEnd(j) \in Nat
      BY <2>3, <2>5, <2>7, <2>10
    <3> HIDE DEF j
    <3>3. /\ ReaderFits(a) /\ BitPos(a) = Aligned(TokenEnd(j))
          /\ a.left >= 46 /\ a.left % 8 = 0
      BY <1>2, <3>2, AlignedReader
    <3> HIDE DEF a
    <3>4. CASE Fail("BadData")
      BY <1>3, <3>4, Leaving, CountsFailed
    <3>5. CASE /\ good /\ in' = Consumed(a, 32)
               /\ dec' = [dec EXCEPT !.state = "UncompressedData",
                                     !.final = t.final, !.remaining = len.n]
      <4>1. j < stream.held
        <5> SUFFICES ASSUME ~(j < stream.held) PROVE FALSE
          OBVIOUS
        <5>1. j = stream.held
          BY <1>3, <3>2, TokenEnds
        <5>2. BitPos(a) \in Nat /\ BitPos(a) >= TokenEnd(stream.held)
          BY <3>2, <3>3, <5>1, AlignedFacts
        <5>3. ~HasToken(a, {"len"})
          BY <1>3, <5>2, NoTokenHere
        <5>4. QED BY <3>5, <5>3
      <4> DEFINE u == stream.toks[j + 1]
      <4>2. /\ HasToken(a, {"len"}) /\ len = u /\ j + 1 \in 0 .. stream.held
            /\ TokenEnd(j + 1) = BitPos(a) + 32
        BY <1>0, <3>2, <3>3, <4>1, StoredLength
      <4>3. u.kind = "len"
        <5>1. len \in Tokens(a, {"len"})
          BY <4>2 DEF HasToken, TheToken
        <5>2. QED BY <1>3, <4>2, <5>1, TokensAreTokens
      <4>4. BitPos(in') = TokenEnd(j + 1)
        <5>1. 32 <= a.left /\ 32 \in Nat
          BY <3>3 DEF ReaderFits, ReaderOK
        <5>2. QED BY <3>3, <3>5, <4>2, <5>1, ConsumedFits
      <4>5. dec'.state = "UncompressedData" /\ dec'.match = NoMatch /\ dec'.lits = <<>>
        BY <1>3, <3>5 DEF DecoderOK
      <4>6. j + 1 = k + 2
        BY <2>5 DEF j
      <4>7. QED BY <1>1, <2>3, <2>5, <2>6, <4>2, <4>3, <4>4, <4>5, <4>6, HeaderCounts
    <3>6. QED BY <3>1, <3>4, <3>5
  <2>11. QED BY <1>5, <2>8, <2>9, <2>10
<1>6. CASE Overrun(r)
  BY <1>1, <1>4, <1>6
<1>7. CASE ~Overrun(r)
  <2>1. PICK t \in Read(r, {"block"}, Phantoms.block) :
           \/ t.type = "dynamic" /\ BeginDynamic(r, t)
           \/ t.type = "static" /\ BeginStatic(r, t)
           \/ t.type = "stored" /\ BeginStored(r, t)
           \/ t.type = "reserved" /\ BadBlock(r, t.final)
    BY <1>1, <1>7
  <2>2. QED BY <1>4, <1>5, <1>7, <2>1
<1>8. QED BY <1>6, <1>7

-------------------------------------------------------------------------------
(* The stream's end: the footer,                                           *)

LEMMA WrapperFooterCounts ==
  ASSUME Counting, ParseWrapperFooter
  PROVE  StallInv'
<1> DEFINE i == FooterInput
           t == TheToken(FooterReader, {"footer"})
           there == HasToken(FooterReader, {"footer"})
           size_ok == wrapper = "gzip" => (there /\ SizeAgrees(t))
           matched == there /\ t.sum = checksum' /\ size_ok
           accepted == \/ ~options.verify_footer
                       \/ checksum_policy = "ignore" /\ size_ok
                       \/ checksum_policy = "report"
                       \/ checksum_policy = "verify" /\ matched
<1>1. /\ dec.state = "WrapperFooter" /\ FlushChecksum
      /\ IF Staged(i) < FromStaging
           THEN Fail("BadData")
           ELSE IF accepted
                  THEN ToAccount /\ dec' = [dec EXCEPT !.state = "Done"]
                  ELSE Fail("ChecksumMismatch")
  BY Zenon DEF ParseWrapperFooter, FooterInput
<1> HIDE DEF accepted
<1>2. /\ Ready /\ Known /\ LaidOut /\ DecoderOK /\ CallOK
      /\ hist.errors = 0 /\ ~hist.phantom
  BY CountingFacts, ReadyFacts
<1>3. /\ ~hist.phantom /\ wrapper # "raw"
      /\ dec.match = NoMatch /\ dec.lits = <<>> /\ in.over <= in.left \div 8
  BY <1>1, <1>2, FooterStart
<1>4. PICK k : /\ AtFooter(k)
               /\ \/ BitPos(in) = TokenEnd(k)
                  \/ /\ hist.errors > 0 /\ in.left = 0 /\ in.over = 0
                     /\ 8 * in.pos >= stream.starts[k + 1]
  BY <1>1, <1>2, FooterStart
<1>5. ~(Staged(i) < FromStaging) => k < stream.held
  BY <1>1, <1>2, <1>3, <1>4, FooterBytesFound
<1>6. produced' = produced /\ produced \in Seq(Byte)
  BY <1>1, <1>2, <1>3, FlushedHere
<1>7. k \in 0 .. stream.held /\ Tracks(k) /\ D[k].out = produced
      /\ k + 1 \in 1 .. Size /\ stream.toks[k + 1].kind = "footer"
  BY <1>4 DEF AtFooter
<1>8. CASE Fail("BadData") \/ Fail("ChecksumMismatch")
  <2>1. call'.pc = "idle"
    BY <1>2, <1>8, Leaving
  <2>2. QED BY <2>1, CountsFailed
<1>9. ASSUME ~(Staged(i) < FromStaging), ToAccount, dec' = [dec EXCEPT !.state = "Done"]
      PROVE  StallInv'
  <2>1. dec'.state = "Done" /\ dec'.match = dec.match /\ dec'.lits = dec.lits
        /\ call'.pc = "account"
    BY <1>2, <1>9 DEF DecoderOK, CallOK, ToAccount
  <2>2. k + 1 = Size
    BY <1>2, <1>4, <1>5, <1>9, FooterEndsStream
  <2>3. k \in Nat /\ Size \in Nat /\ k \in k .. stream.held
    <3>1. stream.held \in Nat /\ Size \in Nat
      BY <1>2, TokenEnds
    <3>2. QED BY <1>7, <3>1
  <2>4. ASSUME NEW e \in Ends PROVE e <= k
    <3>1. e \in 1 .. Size /\ Closes(stream.toks[e])
      BY DEF Ends
    <3>2. e # k + 1
      BY <1>7, <3>1 DEF Closes
    <3>3. QED BY <2>2, <2>3, <3>1, <3>2
  <2>5. Inside(k, k)
    <3>1. k .. (k - 1) = {}
      BY <2>3
    <3>2. QED BY <3>1 DEF Inside
  <2>6. Leads(produced', D[k].out)
    BY <1>6, <1>7, LeadsReflexive
  <2>7. ~HasPending'
    BY <1>3, <2>1 DEF HasPending
  <2>8. QED BY <1>1, <1>7, <2>1, <2>3, <2>4, <2>5, <2>6, <2>7, CountsEnd
<1>10. QED BY <1>1, <1>5, <1>8, <1>9

(* or the source's, in the middle of a stream of segments.                 *)
LEMMA EndSegmentCounts ==
  ASSUME Counting, EndSegment
  PROVE  StallInv'
<1>1. /\ Kept /\ Ready /\ UNCHANGED acct /\ acct.stalls \in Nat
      /\ hist.errors = 0 /\ ~hist.phantom /\ Going /\ DecoderOK /\ CallOK
  BY CountingFacts, ReadyFacts
<1>2. call.pc = "dispatch" /\ dec.state = "BlockHeader"
      /\ dec' = [dec EXCEPT !.state = "Done"]
  BY DEF EndSegment
<1>3. Runs' = Runs /\ Ends' = Ends
  BY <1>1, KeptRuns
<1>4. /\ Size \in 0 .. stream.held /\ Tracks(Size) /\ Size \in Nat
  BY <1>1, SegmentEndsHere
<1>5. Charged(Size) /\ Runs[Size] <= acct.stalls
  BY <1>1, <1>2, <1>4 DEF Counting, StallInv, Counts
<1>6. ASSUME NEW e \in Ends PROVE Runs[e] <= MAX_BLOCKS_WITHOUT_OUTPUT
  <2>1. e \in 1 .. Size
    BY DEF Ends
  <2>2. Runs[e] <= MAX_BLOCKS_WITHOUT_OUTPUT \/ e = Size
    BY <1>4, <1>5, <2>1 DEF Charged
  <2>3. CASE e = Size
    <3>1. acct.stalls <= MAX_BLOCKS_WITHOUT_OUTPUT /\ MAX_BLOCKS_WITHOUT_OUTPUT \in Nat
      BY <1>5, StreamAssumption DEF Charged
    <3>2. Runs[Size] \in Nat
      BY <1>1, <1>4, CountingFacts, RunsGo
    <3>3. QED BY <1>1, <1>5, <2>3, <3>1, <3>2
  <2>4. QED BY <2>2, <2>3
<1> HIDE DEF Runs, Ends
<1>7. AllCharged'
  BY <1>3, <1>6 DEF AllCharged
<1>8. dec'.state = "Done"
  BY <1>1, <1>2 DEF DecoderOK
<1>9. ~Going'
  BY <1>8 DEF Going
<1>10. QED BY <1>1, <1>7, <1>9 DEF StallInv

-------------------------------------------------------------------------------
(* Every handler keeps the count.                                          *)
LEMMA SourceErrorIsCounted ==
  ASSUME HistOK, SourceError
  PROVE  hist'.errors # 0
<1>1. \E i : SourceFails(i)
  BY DEF SourceError, SourceFailsBeforeHandler, SourceFailsAtRefill, SourceFailsInGeneric,
         SourceFailsInCopy, SourceFailsInFooter
<1>2. hist' = [hist EXCEPT !.errors = @ + 1] /\ hist.errors \in Nat
      /\ hist'.errors = hist.errors + 1
  BY <1>1 DEF SourceFails, HistOK
<1>3. QED BY <1>2

LEMMA HandlersCount ==
  ASSUME Counting
  PROVE  StallInv'
<1>1. CASE ParseWrapperHeader \/ EndSegment \/ ParseBlockHeader
           \/ ParseDynamicPrecodeLens \/ EnterCodeLengths \/ ParseCodeLength
  BY <1>1, WrapperHeaderCounts, EndSegmentCounts, BlockHeaderCounts, PrecodeCounts,
     EnterCodeLengthsCounts, CodeLengthCounts
<1>2. CASE ResumeMatch \/ ResumeLiteral \/ EnterLoops
  BY <1>2, ResumesCount, EnterLoopsCounts
<1>3. CASE FastLiteral \/ FastMatch \/ FastEndOfBlock
  BY <1>3, FastLiteralCounts, FastMatchCounts, FastEndOfBlockCounts
<1>4. CASE GenericReenter \/ GenericOverrun \/ GenericLiteral \/ GenericMatch
           \/ GenericEndOfBlock
  BY <1>4, GenericReenterCounts, GenericOverrunCounts, GenericLiteralCounts,
     GenericMatchCounts, GenericEndOfBlockCounts
<1>5. CASE CopyUncompressed \/ ParseWrapperFooter
  BY <1>5, CopyCounts, WrapperFooterCounts
<1>6. CASE SourceError
  BY <1>6, SourceErrorIsCounted, CountingFacts, ReadyFacts DEF Counting
<1>7. HandlerStep
  BY DEF Counting
<1>8. QED BY <1>1, <1>2, <1>3, <1>4, <1>5, <1>6, <1>7 DEF HandlerStep

LEMMA HandlersKeepStalls ==
  ASSUME DecodingInv, Sound, Sound', DecodingInv', HandlerStep, StallInv
  PROVE  StallInv'
<1>1. acct' = acct
  BY EveryHandler DEF Sound, Handled
<1>2. CASE hist'.errors = 0 /\ ~hist'.phantom
  BY <1>2, HandlersCount DEF Counting
<1>3. CASE ~(hist'.errors = 0 /\ ~hist'.phantom)
  BY <1>1, <1>3 DEF StallInv
<1>4. QED BY <1>2, <1>3

(* The accounting at the end of a round brings the counter up to date.     *)
LEMMA IdleTracksSame ==
  ASSUME DecodingInv, Idles, hist.errors = 0, ~hist.phantom, Going',
         NEW k \in 0 .. stream.held, Tracks(k)'
  PROVE  Going /\ Tracks(k)
<1>1. Kept /\ in' = in /\ dec' = dec /\ hist' = hist /\ (Alive' => Alive) /\ LaidOut
  BY KnownNow DEF Idles, Known
<1>2. Going
  BY <1>1 DEF Going
<1>3. PICK n \in 0 .. stream.held : Tracks(n)
  BY <1>2 DEF DecodingInv, FollowInv
<1>4. BitPos(in') = TokenEnd(k)
  BY <1>1, KeptRuns
<1>5. BitPos(in) = TokenEnd(k)
  BY <1>1, <1>4
<1>6. k = n
  BY <1>1, <1>3, <1>5, TracksOnce
<1>7. QED BY <1>2, <1>3, <1>6

LEMMA RunsAreKnown ==
  ASSUME DecodingInv
  PROVE  \A k \in 0 .. stream.held : k \in 0 .. Size /\ Runs[k] \in Nat
<1>1. LaidOut
  BY KnownNow DEF Known
<1>2. stream.held \in Nat /\ stream.held <= Size /\ Size \in Nat
  BY <1>1, TokenEnds
<1>3. \A k \in 0 .. stream.held : k \in 0 .. Size
  BY <1>2
<1>4. QED BY <1>1, <1>3, RunsGo

LEMMA AccountingCounts ==
  ASSUME DecodingInv, Sound, AccountsHold, StallInv, Idles,
         call.pc = "account", UNCHANGED dec, hist.errors = 0, ~hist.phantom,
         acct' = Counted, ~Stalled, dec.state # "Done",
         Going', call'.pc # "account", call'.pc = "idle" \/ Delta' = 0,
         NEW k \in 0 .. stream.held, Tracks(k)'
  PROVE  Counts(k)'
<1>1. Going /\ Tracks(k) /\ Kept
  BY IdleTracksSame DEF Idles
<1>2. Charged(k)
  BY <1>1 DEF StallInv, Counts
<1>3. Runs' = Runs /\ Ends' = Ends
  BY <1>1, KeptRuns
<1>4. Runs[k] \in Nat /\ acct.stalls \in Nat /\ MAX_BLOCKS_WITHOUT_OUTPUT \in Nat
  BY RunsAreKnown, StreamAssumption DEF StallInv
<1>5. Delta \in Int /\ Delta >= 0
  <2>1. Delta \in Int
    BY WindowFacts DEF Delta, Sound, DecoderInv, CallOK
  <2>2. Delta >= 0
    BY DEF AccountsHold, Accounted, Uncounted, Delta
  <2>3. QED BY <2>1, <2>2
<1>6. DOMAIN acct = {"total", "stalls"}
  BY DEF AccountsHold
<1>7. HasPending' = HasPending
  BY DEF HasPending
<1> HIDE DEF Runs, Ends
<1>8. /\ Runs[k] <= acct.stalls + 1 /\ acct.stalls <= MAX_BLOCKS_WITHOUT_OUTPUT
      /\ Delta > 0 => Runs[k] = 0
      /\ HasPending => Runs[k] = 0
      /\ \A e \in Ends : e <= k => (Runs[e] <= MAX_BLOCKS_WITHOUT_OUTPUT \/ e = k)
  BY <1>2 DEF Charged
<1>9. /\ Runs[k] <= acct'.stalls + 1 /\ acct'.stalls <= MAX_BLOCKS_WITHOUT_OUTPUT
      /\ dec.state = "BlockHeader" => Runs[k] <= acct'.stalls
  <2>1. CASE Delta > 0
    <3>1. acct'.stalls = 0
      BY <2>1 DEF Counted
    <3>2. QED BY <1>4, <1>8, <2>1, <3>1
  <2>2. CASE Delta = 0 /\ BlockCompleted
    <3>1. Counted = [acct EXCEPT !.stalls = @ + 1]
      BY <2>2 DEF Counted
    <3>2. Counted.stalls = acct.stalls + 1
      BY <1>6, <3>1
    <3>3. Counted.stalls <= MAX_BLOCKS_WITHOUT_OUTPUT
      BY <1>4, <2>2, <3>2 DEF Stalled
    <3>4. QED BY <1>4, <1>8, <3>2, <3>3
  <2>3. CASE Delta = 0 /\ ~BlockCompleted
    <3>1. acct' = acct
      BY <2>3 DEF Counted
    <3>2. dec.state # "BlockHeader"
      BY <2>3 DEF BlockCompleted
    <3>3. QED BY <1>8, <3>1, <3>2
  <2>4. QED BY <1>5, <2>1, <2>2, <2>3
<1>10. Charged(k)'
  <2>1. (call'.pc # "idle" /\ Delta' > 0) => Runs[k] = 0
    OBVIOUS
  <2>2. QED BY <1>3, <1>7, <1>8, <1>9, <2>1 DEF Charged
<1>11. QED BY <1>3, <1>9, <1>10 DEF Counts

(* A return to the caller or another round charges what was read since.    *)
LEMMA StallsStayCounted ==
  ASSUME WindowInv, DecoderInv, AccountsHold, acct.stalls \in Nat
  PROVE  Counted.stalls \in Nat
<1>1. DOMAIN acct = {"total", "stalls"}
  BY DEF AccountsHold
<1>2. CASE Delta > 0
  BY <1>2 DEF Counted
<1>3. CASE ~(Delta > 0)
  BY <1>1, <1>3 DEF Counted
<1>4. QED BY <1>2, <1>3

LEMMA ReturnKeepsStalls ==
  ASSUME DecodingInv, Sound, AccountsHold, StallInv, ReturnFromFill
  PROVE  StallInv'
<1>1. Idles
  BY ReturnIdles
<1>2. /\ call.pc = "account" /\ acct' = Counted /\ dec' = dec /\ hist' = hist
      /\ IF OverLimit THEN Fail("OutputLimitExceeded")
         ELSE IF Stalled THEN Fail("StallLimitExceeded")
         ELSE Return
  BY DEF ReturnFromFill
<1>3. CallOK
  BY DEF Sound, DecoderInv
<1>4. /\ call'.pc = "idle"
      /\ call'.result = IF OverLimit THEN "OutputLimitExceeded"
                        ELSE IF Stalled THEN "StallLimitExceeded" ELSE "ok"
  BY <1>2, <1>3 DEF Fail, Return, CallOK
<1>5. acct'.stalls \in Nat
  BY <1>2, StallsStayCounted DEF Sound, StallInv
<1>6. ASSUME hist.errors = 0, ~hist.phantom, Going', NEW k \in 0 .. stream.held, Tracks(k)'
      PROVE  Counts(k)'
  <2>1. call'.result \notin Fatal /\ dec.state # "Done"
    BY <1>2, <1>4, <1>6 DEF Going, Alive
  <2>2. ~Stalled
    BY <1>4, <2>1 DEF Fatal
  <2>3. QED BY <1>1, <1>2, <1>4, <1>6, <2>1, <2>2, AccountingCounts
<1>7. ASSUME hist.errors = 0, ~hist.phantom, dec.state = "Done", call'.result = "ok"
      PROVE  \A e \in Ends : Runs[e] <= MAX_BLOCKS_WITHOUT_OUTPUT
  <2>1. AllCharged
    BY <1>2, <1>7 DEF StallInv
  <2>2. ~Stalled
    BY <1>4, <1>7
  <2>3. Delta \in Int /\ Delta >= 0
    <3>1. Delta \in Int
      BY WindowFacts DEF Delta, Sound, DecoderInv, CallOK
    <3>2. Delta >= 0
      BY <1>2, <1>7 DEF AccountsHold, Accounted, Uncounted, Delta
    <3>3. QED BY <3>1, <3>2
  <2>4. acct.stalls \in Nat /\ MAX_BLOCKS_WITHOUT_OUTPUT \in Nat
    BY StreamAssumption DEF StallInv
  <2>5. ASSUME NEW e \in Ends, ~(Runs[e] <= MAX_BLOCKS_WITHOUT_OUTPUT) PROVE FALSE
    <3>1. Runs[e] <= acct.stalls + 1 /\ (Delta > 0 => Runs[e] = 0)
      BY <2>1, <2>5 DEF AllCharged
    <3>2. Delta = 0
      BY <2>3, <2>4, <2>5, <3>1
    <3>3. BlockCompleted
      BY <1>7 DEF BlockCompleted
    <3>4. Counted = [acct EXCEPT !.stalls = @ + 1]
      BY <3>2, <3>3 DEF Counted
    <3>5. Counted.stalls = acct.stalls + 1
      BY <3>4 DEF AccountsHold
    <3>6. acct.stalls + 1 <= MAX_BLOCKS_WITHOUT_OUTPUT
      BY <2>2, <2>4, <3>2, <3>3, <3>5 DEF Stalled
    <3>7. Runs[e] \in Nat
      <4>1. LaidOut /\ e \in 0 .. Size
        BY KnownNow DEF Known, Ends
      <4>2. QED BY <4>1, RunsGo
    <3>8. QED BY <2>4, <2>5, <3>1, <3>6, <3>7
  <2>6. QED BY <2>5
<1>8. Runs' = Runs /\ Ends' = Ends /\ stream' = stream
  BY <1>1, KeptRuns DEF Idles
<1> HIDE DEF Runs, Ends
<1>9. ASSUME hist.errors = 0, ~hist.phantom, dec.state = "Done", call'.result = "ok"
      PROVE  AllCharged'
  BY <1>7, <1>8, <1>9 DEF AllCharged
<1>10. QED BY <1>2, <1>4, <1>5, <1>6, <1>8, <1>9 DEF StallInv

LEMMA NothingWritten == \A n \in Nat : n - n = 0
OBVIOUS

LEMMA GoRoundKeepsStalls ==
  ASSUME DecodingInv, Sound, AccountsHold, StallInv, GoRound
  PROVE  StallInv'
<1>1. Idles
  BY GoRoundIdles
<1>2. /\ call.pc = "account" /\ acct' = Counted /\ dec' = dec /\ hist' = hist
      /\ ~Stalled /\ dec.state # "Done"
  BY DEF GoRound, MayReturn
<1>3. call' = [call EXCEPT !.pc = "dispatch", !.prev = write_pos']
  BY GoRoundStep DEF Sound
<1>4. call'.pc = "dispatch" /\ call'.prev = write_pos'
  BY <1>3 DEF Sound, DecoderInv, CallOK
<1>5. WindowInv'
  <2>1. BufferUse \/ UNCHANGED bufferVars
    BY GoRoundStep DEF Sound
  <2>2. QED BY <2>1, UseKeepsInvariant DEF Sound
<1>6. Delta' = 0
  <2>1. write_pos' \in Nat
    BY <1>5 DEF WindowInv, BufferTypeOK
  <2>2. write_pos' - write_pos' = 0
    BY <2>1, NothingWritten
  <2>3. QED BY <1>4, <2>2 DEF Delta
<1>7. acct'.stalls \in Nat
  BY <1>2, StallsStayCounted DEF Sound, StallInv
<1>8. stream' = stream
  BY <1>1, KeptRuns DEF Idles
<1>9. ASSUME hist.errors = 0, ~hist.phantom, Going', NEW k \in 0 .. stream.held, Tracks(k)'
      PROVE  Counts(k)'
  BY <1>1, <1>2, <1>4, <1>6, <1>9, AccountingCounts
<1>10. QED BY <1>2, <1>7, <1>8, <1>9 DEF StallInv

(* Between two accountings nothing is counted.                             *)
LEMMA WaitingCounts ==
  ASSUME DecodingInv, Idles, StallInv, UNCHANGED acct,
         \/ call.pc = "idle" /\ call'.pc = "idle"
         \/ call.pc = "idle" /\ Delta' = 0 /\ call'.pc = "dispatch"
         \/ UNCHANGED <<call, write_pos>>,
         (dec.state = "Done" /\ (call'.pc # "idle" \/ call'.result = "ok")) => UNCHANGED call
  PROVE  StallInv'
<1>1. Kept /\ dec' = dec /\ hist' = hist
  BY DEF Idles
<1>2. Runs' = Runs /\ Ends' = Ends /\ stream' = stream
  BY <1>1, KeptRuns
<1>3. HasPending' = HasPending
  BY <1>1 DEF HasPending
<1>4. UNCHANGED <<call, write_pos>> => Delta' = Delta
  BY DEF Delta
<1>5. ASSUME hist.errors = 0, ~hist.phantom, Going', NEW k \in 0 .. stream.held, Tracks(k)'
      PROVE  Counts(k)'
  <2>1. Counts(k)
    BY <1>5, IdleTracksSame DEF StallInv
  <2> HIDE DEF Runs, Ends
  <2>2. CASE UNCHANGED <<call, write_pos>>
    BY <1>1, <1>2, <1>3, <1>4, <2>1, <2>2 DEF Counts, Charged
  <2>3. CASE call.pc = "idle" /\ (call'.pc = "idle" \/ Delta' = 0)
             /\ call'.pc \in {"idle", "dispatch"}
    <3>1. Charged(k)'
      BY <1>1, <1>2, <1>3, <2>1, <2>3 DEF Counts, Charged
    <3>2. dec.state = "BlockHeader" => Runs[k] <= acct.stalls
      BY <2>1, <2>3 DEF Counts
    <3>3. call'.pc = "dispatch" => Delta' = 0
      BY <2>3
    <3>4. QED BY <1>1, <1>2, <3>1, <3>2, <3>3 DEF Counts
  <2>4. QED BY <2>2, <2>3
<1>6. ASSUME hist.errors = 0, ~hist.phantom, dec.state = "Done",
             call'.pc # "idle" \/ call'.result = "ok"
      PROVE  AllCharged'
  <2>1. call' = call
    BY <1>6
  <2>2. AllCharged
    BY <1>6, <2>1 DEF StallInv
  <2>3. call.pc # "idle" => Delta' = Delta
    BY <1>4, <2>1
  <2> HIDE DEF Runs, Ends
  <2>4. QED BY <1>2, <2>1, <2>2, <2>3 DEF AllCharged
<1>7. QED BY <1>1, <1>2, <1>5, <1>6 DEF StallInv

LEMMA BeginFillKeepsStalls ==
  ASSUME DecodingInv, Sound, StallInv, BeginFill
  PROVE  StallInv'
<1>1. Idles
  BY BeginFillIdles
<1>2. /\ call.pc = "idle" /\ dec.state # "Done" /\ acct' = acct
      /\ call' = [call EXCEPT !.pc = "dispatch", !.prev = write_pos']
      /\ IF OutputSpace = 0 THEN CompactOutput ELSE UNCHANGED bufferVars
  BY DEF BeginFill
<1>3. call'.pc = "dispatch" /\ call'.prev = write_pos'
  BY <1>2 DEF Sound, DecoderInv, CallOK
<1>4. write_pos' \in Nat
  <2>1. BufferUse \/ UNCHANGED bufferVars
    BY BeginFillStep DEF Sound
  <2>2. WindowInv'
    BY <2>1, UseKeepsInvariant DEF Sound
  <2>3. QED BY <2>2 DEF WindowInv, BufferTypeOK
<1>5. Delta' = 0
  <2>1. write_pos' - write_pos' = 0
    BY <1>4, NothingWritten
  <2>2. QED BY <1>3, <2>1 DEF Delta
<1>6. QED BY <1>1, <1>2, <1>3, <1>5, WaitingCounts

LEMMA CallerKeepsStalls ==
  ASSUME DecodingInv, StallInv, TakeOutput \/ RunningChecksum \/ Rest \/ UNCHANGED vars
  PROVE  StallInv'
<1>1. Idles
  BY CallerIdles
<1>2. UNCHANGED streamVars /\ write_pos' = write_pos
  BY DEF TakeOutput, RunningChecksum, Rest, vars, bufferVars, Advance, FlushChecksum
<1>3. acct' = acct /\ call' = call
  BY <1>2 DEF streamVars
<1>4. QED BY <1>1, <1>2, <1>3, WaitingCounts

(* Nothing is charged before the first token.                              *)
LEMMA FreshCounts == Fresh /\ acct = FreshAcct => StallInv
<1> SUFFICES ASSUME Fresh, acct = FreshAcct PROVE StallInv
  OBVIOUS
<1>1. LaidOut
  BY KnownStream DEF Fresh
<1>2. acct.stalls = 0
  BY DEF FreshAcct
<1>3. call.pc = "idle" /\ dec.state \notin {"Done"}
  BY DEF Fresh, FreshCall, FirstState
<1>4. 0 \in 0 .. stream.held /\ Size \in Nat
  BY <1>1, TokenEnds
<1>5. Runs[0] = 0
  BY <1>1, RunsGo
<1>6. \A e \in Ends : ~(e <= 0)
  BY <1>4 DEF Ends
<1>7. Charged(0)
  <2>1. MAX_BLOCKS_WITHOUT_OUTPUT \in Nat
    BY StreamAssumption
  <2> HIDE DEF Runs, Ends
  <2>2. QED BY <1>2, <1>3, <1>5, <1>6, <2>1 DEF Charged
<1>8. Counts(0)
  <2> HIDE DEF Runs
  <2>1. QED BY <1>2, <1>3, <1>5, <1>7 DEF Counts
<1>9. BitPos(in) = TokenEnd(0)
  BY DEF Fresh, FreshInput, BitPos, TokenEnd
<1>10. ASSUME hist.errors = 0, NEW k \in 0 .. stream.held, Tracks(k)
       PROVE  Counts(k)
  <2>1. 0 = k
    BY <1>1, <1>4, <1>9, <1>10, TracksOnce
  <2>2. QED BY <1>8, <2>1
<1>11. QED BY <1>2, <1>3, <1>10 DEF StallInv

-------------------------------------------------------------------------------
LEMMA StepKeepsStalls ==
  DecodingInv /\ DecodingInv' /\ Sound /\ Sound' /\ AccountsHold /\ StallInv /\ [Next]_vars
    => StallInv'
<1> SUFFICES ASSUME DecodingInv, DecodingInv', Sound, Sound', AccountsHold, StallInv,
                    [Next]_vars
             PROVE  StallInv'
  OBVIOUS
<1>1. CASE HandlerStep
  BY <1>1, HandlersKeepStalls
<1>2. CASE ReturnFromFill \/ GoRound \/ BeginFill
  BY <1>2, ReturnKeepsStalls, GoRoundKeepsStalls, BeginFillKeepsStalls
<1>3. CASE TakeOutput \/ RunningChecksum \/ Rest \/ UNCHANGED vars
  BY <1>3, CallerKeepsStalls
<1>4. CASE Reset
  <2>1. Fresh' /\ (acct = FreshAcct)'
    <3>1. Fresh'
      BY <1>4, ResetIsFresh DEF Sound
    <3>2. acct' = FreshAcct
      BY <1>4 DEF Reset
    <3>3. QED BY <3>1, <3>2 DEF FreshAcct
  <2>2. (Fresh /\ acct = FreshAcct => StallInv)'
    BY FreshCounts, PTL
  <2>3. QED BY <2>1, <2>2
<1>5. QED BY <1>1, <1>2, <1>3, <1>4, NextCases

LEMMA StallsAlwaysCounted == Spec => []StallInv
<1>1. Init => StallInv
  <2>1. Init => (Fresh /\ acct = FreshAcct)
    BY InitIsFresh DEF Init
  <2>2. QED BY <2>1, FreshCounts
<1>2. QED BY <1>1, StepKeepsStalls, AlwaysDecodes, SoundHolds, AccountsAlwaysHold, PTL
       DEF Spec

(* The counter refuses every longer run of blocks without output.          *)
LEMMA StallLimitKept ==
  ASSUME DecodingInv, StallInv, hist.errors = 0
  PROVE  StallLimitHolds
<1> SUFFICES ASSUME dec.state = "Done", call.pc = "idle", call.result = "ok"
             PROVE  LongestEmptyRun(stream.toks) <= MAX_BLOCKS_WITHOUT_OUTPUT
  BY DEF StallLimitHolds
<1>1. ~hist.phantom
  BY DEF DecodingInv, PhantomInv, Verdict, DoneIsRight
<1>2. AllCharged
  BY <1>1 DEF StallInv
<1>3. \A e \in Ends : Runs[e] <= MAX_BLOCKS_WITHOUT_OUTPUT
  <2> HIDE DEF Ends, Runs
  <2>1. QED BY <1>2 DEF AllCharged
<1>4. LaidOut /\ MAX_BLOCKS_WITHOUT_OUTPUT \in Nat
  BY KnownNow, StreamAssumption DEF Known
<1>5. QED BY <1>3, <1>4, LongestRunBound

(* While the source delivers, a stream whose decoding completes has        *)
(* produced no more than max_output_size and has no more than              *)
(* MAX_BLOCKS_WITHOUT_OUTPUT blocks without output in a row, however its   *)
(* blocks fall into calls of fill() (streaming.rs 800-846).                *)
THEOREM LimitsAlwaysEnforced == Spec => []LimitsEnforced
<1>1. DecodingInv /\ StallInv => (hist.errors = 0 => StallLimitHolds)
  BY StallLimitKept
<1>2. (hist.errors = 0 => OutputLimitHolds) /\ (hist.errors = 0 => StallLimitHolds)
        => LimitsEnforced
  BY DEF LimitsEnforced, LimitsHold
<1>3. QED BY <1>1, <1>2, AlwaysDecodes, StallsAlwaysCounted, OutputLimitEnforced, PTL
===============================================================================

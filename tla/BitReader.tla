------------------------------- MODULE BitReader -------------------------------
(***************************************************************************)
(* The bit buffer all three decoders share (refill_bits, refill_bits_fast  *)
(* in src/src/decompress/mod.rs) over a stream of tokens.  A reader i is   *)
(*   pos, end   offsets in the stream of the next byte to load and of the  *)
(*              end of what may be loaded                                  *)
(*   left       bits in the buffer                                         *)
(*   over       bytes of them that were invented past the end              *)
(***************************************************************************)
EXTENDS DeflateStreams, Functions

Staged(i) == i.end - i.pos

BitPos(i) == 8 * (i.pos + i.over) - i.left

Consumed(i, n) == [i EXCEPT !.left = @ - n]

(* Mutant: counts overread padding as data. *)
RealBytes_CountsOverread(i) == i.left \div 8

(* Bytes in the bit buffer that are not overread padding. *)
RealBytes(i) == Max({i.left \div 8 - i.over, 0})

(* refill_bits_fast, and refill_bits when 8 bytes are staged. *)
RefilledFast(i) ==
  [i EXCEPT !.pos = @ + (7 - ((i.left \div 8) % 8)),
            !.left = 56 + (@ % 8)]

(* refill_bits' byte-at-a-time fallback; past the end it counts overread. *)
RefilledSlow(i) ==
  LET wanted == IF i.left >= 56 THEN 0 ELSE (63 - i.left) \div 8
      real == Min({wanted, Staged(i)})
  IN  [i EXCEPT !.pos = @ + real,
                !.over = @ + (wanted - real),
                !.left = @ + 8 * wanted]

Refilled(i) == IF Staged(i) >= 8 THEN RefilledFast(i) ELSE RefilledSlow(i)

Overrun(i) == i.over > 8

(***************************************************************************)
(* What the bits at i may be read as, when the bytes of s before `end` are *)
(* there: the token that starts there if its kind is expected and all of   *)
(* it is there, otherwise some symbol the table happens to give, a         *)
(* phantom: of a token that is cut off one that needs bits past the end    *)
(* (codes are prefix-free, so the bits that are there decode to nothing    *)
(* shorter), inside a token any.                                           *)
(***************************************************************************)
PhantomsWith(junk, far) ==
  [block |-> {Block("stored", FALSE), Block("static", TRUE),
              Block("dynamic", FALSE)},
   symbol |-> {Lit(junk, 15), Eob(15), Match(1, 2, 20, 28),
               Match(far, 2, 20, 28)},
   precode |-> {Precode(54, TRUE), Precode(54, FALSE)},
   lens |-> {Lens(14, TRUE, TRUE, 1), Lens(14, FALSE, FALSE, 1)}]

Symbols == {"lit", "match", "eob"}

TokensOf(s, end, bit) ==
  {s.toks[k] : k \in {j \in 1 .. s.held :
     s.starts[j] = bit /\ bit + Width(s.toks[j]) <= 8 * end}}

TokensFor(s, end, i, kinds) == {t \in TokensOf(s, end, BitPos(i)) : t.kind \in kinds}

ReadFrom(s, end, i, kinds, phantoms) ==
  LET real == TokensFor(s, end, i, kinds)
  IN  IF real # {} THEN real
      ELSE IF BitPos(i) \in Range(s.starts)
        THEN {t \in phantoms : BitPos(i) + Width(t) > 8 * end}
      ELSE phantoms

===============================================================================

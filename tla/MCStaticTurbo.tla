----------------------------- MODULE MCStaticTurbo -----------------------------
(* Two sets of constants for TLC.                                            *)
EXTENDS StaticTurbo

(* A literal 1 takes more than a byte, as the literals above 143 do in the   *)
(* static code.  Blocks are shorter than the window, matches reach past both. *)
MCHashShort == [s \in [1 .. SHORT_LEN -> Byte] |-> 0]
MCHashLong == [s \in [1 .. LONG_LEN -> Byte] |-> s[1]]
MCLiteralBits == [b \in Byte |-> IF b = 0 THEN 2 ELSE 6]
MCInputs == [1 .. 9 -> Byte]

(* The code's own block lengths and costs, and the bytes 78 .. 177 once each *)
(* in that order: the finder, scaled down here, finds nothing in them.       *)
DistinctBytes == 78 .. 177
DistinctInputs == {[k \in 1 .. 100 |-> 77 + k]}
MCHashParity == [s \in [1 .. LONG_LEN -> Byte] |-> s[1] % 2]
StaticLiteralBits == [b \in Byte |-> IF b < 144 THEN 8 ELSE 9]
BoundRooms == {Bound(100)}
===============================================================================

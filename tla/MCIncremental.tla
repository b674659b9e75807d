----------------------------- MODULE MCIncremental -----------------------------
(* Hashes and texts for TLC.  Of two bytes, 00 and 11 collide.  The texts    *)
(* share a beginning, repeat themselves within the window and across it, and *)
(* are longer than a stored piece and than the window.                       *)
EXTENDS IncrementalCompressor

MCHash == [s \in [1 .. 2 -> Byte] |-> (s[1] + 2 * s[2]) % 3]

MCTexts == {<<0, 0, 1, 0, 0, 0, 1>>, <<0, 0, 0, 1, 0, 0>>}
===============================================================================

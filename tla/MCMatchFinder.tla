----------------------------- MODULE MCMatchFinder -----------------------------
(* Hashes and texts for TLC.  Two bytes hash to two buckets with a           *)
(* collision; the texts repeat themselves at distances up to the window and  *)
(* beyond it.                                                                *)
EXTENDS OneShotFinders

MCHashShort == [s \in [1 .. SHORT_LEN -> Byte] |-> s[1]]
MCHashLong == [s \in [1 .. LONG_LEN -> Byte] |-> s[1]]

MCTexts == {<<0, 1, 0, 1, 0, 1, 0, 0>>}

MCWholeTexts == {<<0, 0, 0, 0, 0, 0, 0, 0, 0, 0>>,
                 <<0, 1, 0, 1, 1, 0, 1, 1, 0, 0, 0, 1>>,
                 <<1, 0, 0, 1, 0, 0, 0, 1, 0, 0, 1, 0>>,
                 <<0, 1, 1, 0, 1, 0>>}
===============================================================================

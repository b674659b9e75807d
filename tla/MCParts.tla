----------------------------- MODULE MCParts -----------------------------
(* The output buffer, the codes of a block, and the optimal parser that        *)
(* chooses its items by what those codes cost, for TLC: one to a behaviour.    *)
EXTENDS OutputWindow, HuffmanBlock, NearOptimalBlocks, BlockOptimizer

vars == <<bufferVars, blockVars, jobVars, optVars>>

(* Extra bits of the scaled alphabets: symbols 0, 1, 2 carry 0, 1, 2.      *)
MCExtraBits == [s \in 0 .. 3 |-> s]

Block(litlen, offset) == [litlen |-> [k \in 0 .. Len(litlen) - 1 |-> litlen[k + 1]],
                          offset |-> [k \in 0 .. Len(offset) - 1 |-> offset[k + 1]]]

(* Twelve litlen symbols: nine literals and the end of block, then lengths.*)
MCCounts ==
  {Block(<<0, 0, 0, 0, 0, 0, 0, 0, 1, 0, 0, 0>>, <<0, 0, 0, 0>>),
   Block(<<9, 0, 0, 0, 0, 0, 0, 0, 1, 0, 0, 0>>, <<0, 0, 0, 0>>),
   Block(<<1, 1, 1, 2, 1, 1, 1, 1, 1, 0, 0, 4>>, <<0, 0, 0, 4>>),
   Block(<<1, 1, 2, 3, 5, 8, 13, 21, 1, 34, 0, 0>>, <<1, 2, 4, 9>>),
   Block(<<0, 0, 0, 0, 0, 7, 9, 8, 1, 2, 2, 3>>, <<3, 3, 4, 5>>),
   Block(<<5, 6, 0, 40, 0, 44, 0, 0, 1, 0, 60, 0>>, <<0, 60, 0, 0>>),
   Block(<<0, 0, 0, 0, 0, 1, 1, 1, 1, 1, 1, 1>>, <<1, 1, 1, 0>>),
   Block(<<30, 31, 33, 30, 29, 34, 35, 31, 30, 0, 1, 1>>, <<2, 0, 0, 0>>)}
  \cup {Block(<<a, a, b, b, c, c, c, a, 1, b, d, c>>, <<a, c, b, d>>) :
          a \in {0, 1, 7}, b \in {0, 1, 7}, c \in {0, 2, 20}, d \in {0, 1}}

(* Runs around every threshold of the repeat codes.                        *)
RunLengths == {1, 2, 3, 4, 6, 7, 8, 9, 10, 11, 13, 14, 138, 139, 140, 149}

MCLensSamples ==
  {[k \in 1 .. a + b |-> IF (k <= a) = zeroFirst THEN 0 ELSE 2] :
     a \in RunLengths, b \in {1, 3, 4, 7, 8, 12}, zeroFirst \in BOOLEAN}

MCMatches ==
  {[length |-> l, offset |-> o, copy |-> o <= 70 /\ l <= 80] :
     l \in {3, 4, 10, 11, 16, 31, 32, 33, 34, 47, 64, 67, 80, 226, 227, 257, 258},
     o \in {1, 2, 3, 7, 15, 16, 17, 31, 32, 33, 63, 70, 255, 256, 257, 258, 384, 385, 16384, 16385,
            24576, 24577, 32767, 32768}}

(* Texts with repeats at several offsets; the dictionary ones have a prefix.   *)
MCTexts ==
  {<<1, 2, 3, 1, 2, 3, 1, 1, 2, 1, 2, 3, 3, 1, 1, 1, 1, 2, 3,
     1, 2, 3, 1, 3, 2, 1, 3, 3, 2, 1, 2, 2, 3, 1>>,
   <<1, 1, 1, 1, 1, 1, 2, 1, 1, 2, 1, 2, 1, 2, 2, 1, 2, 1, 1,
     1, 2, 1, 2, 1, 1, 2>>}

MCJobs ==
  {[input |-> text, blocks |-> b, chunk_start |-> 0, force_nonfinal |-> FALSE, depth |-> 12,
    nice |-> 3] : text \in MCTexts, b \in {"own", "segments", "split"}}
  \cup
  {[input |-> text, blocks |-> b, chunk_start |-> 3, force_nonfinal |-> TRUE, depth |-> 4,
    nice |-> 4] : text \in MCTexts, b \in {"own", "split"}}

(* Far offsets are not always dearer than near ones.                           *)
MCCosts == [literal |-> <<3, 4, 5>>,
            length  |-> 2 :> 2 @@ 3 :> 3 @@ 4 :> 3,
            offset  |-> [o \in 1 .. 12 |-> IF o <= 2 THEN 3 ELSE IF o <= 5 THEN 1 ELSE 4]]

Effort(passes, high, try_static, guarded) ==
  [passes |-> passes, diversify |-> high, milestones |-> high, try_static |-> try_static,
   guarded |-> guarded]

MCEfforts == {Effort(2, FALSE, FALSE, TRUE), Effort(4, FALSE, TRUE, FALSE),
              Effort(6, TRUE, TRUE, FALSE)}

(* A buffer nobody uses. *)
BufferOff == BufferInit /\ wrapper = "raw" /\ checksum_policy = "ignore"

OnlyBuffer == stage = "off" /\ phase = "off" /\ step = "off"

Init == \/ BufferInit /\ HBOff /\ NearOptimalOff /\ OptimizerOff
        \/ BufferOff /\ HBInit /\ NearOptimalOff /\ OptimizerOff
        \/ BufferOff /\ HBOff /\ NearOptimalInit /\ OptimizerOff
        \/ BufferOff /\ HBOff /\ NearOptimalOff /\ OptimizerInit

Next == \/ OnlyBuffer /\ BufferNext /\ UNCHANGED <<blockVars, jobVars, optVars>>
        \/ HBNext /\ UNCHANGED <<bufferVars, jobVars, optVars>>
        \/ NearOptimalNext /\ UNCHANGED <<bufferVars, blockVars, optVars>>
        \/ OptimizerNext /\ UNCHANGED <<bufferVars, blockVars, jobVars>>

Spec == Init /\ [][Next]_vars
=============================================================================

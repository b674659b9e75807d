------------------------------ MODULE MCParallel ------------------------------
(* Parallel gzip, strips, the checksums both are joined with and the sums of  *)
(* one chunk of bytes, for TLC, one machine to a behaviour.  The texts repeat *)
(* themselves within the window, across chunks and across strips; the bytes   *)
(* that are hashed have long runs of the largest one.                         *)
EXTENDS ParallelGzip, PngStrips, Checksums, AdlerChunk

vars == <<gzipVars, stripVars, hashVars, chunkVars>>

Text == <<1, 2, 1, 1, 2, 2, 1, 2, 1>>
Prefix(n) == SubSeq(Text, 1, n)

MCGzipInputs == {Prefix(n) : n \in {0, 2, 6, 9}}

Plain == [store |-> FALSE, static |-> FALSE, alone |-> FALSE, passthrough |-> 0]

MCGzipLevels == {Plain, [Plain EXCEPT !.passthrough = 2], [Plain EXCEPT !.store = TRUE],
                 [Plain EXCEPT !.alone = TRUE], [Plain EXCEPT !.static = TRUE]}

MCImages == {<<<<1, 2, 1>>, <<1, 2>>, <<2, 1, 2>>>>, <<<<1>>, <<>>, <<1, 1, 1>>>>, <<<<>>>>}

MCByteOf(i) == IF i % 700 < 300 THEN 255 ELSE (i * (i + 7) * 31 + i \div 5) % 256

Init == \/ GzipInit /\ StripsOff /\ HashOff /\ ChunkOff
        \/ GzipOff /\ StripsInit /\ HashOff /\ ChunkOff
        \/ GzipOff /\ StripsOff /\ HashInit /\ ChunkOff
        \/ GzipOff /\ StripsOff /\ HashOff /\ ChunkInit

Next == \/ GzipNext /\ UNCHANGED <<stripVars, hashVars, chunkVars>>
        \/ StripsNext /\ UNCHANGED <<gzipVars, hashVars, chunkVars>>
        \/ HashNext /\ UNCHANGED <<gzipVars, stripVars, chunkVars>>
        \/ ChunkNext /\ UNCHANGED <<gzipVars, stripVars, hashVars>>

Spec == Init /\ [][Next]_vars
===============================================================================

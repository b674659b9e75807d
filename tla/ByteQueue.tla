------------------------------ MODULE ByteQueue ------------------------------
(***************************************************************************)
(* What the output side of the streaming decoder promises its caller: a    *)
(* lossless FIFO.  Bytes the decoder writes come out of peek() in order,   *)
(* each exactly once, whatever growing and sliding happens underneath.     *)
(***************************************************************************)
EXTENDS Integers, Sequences

CONSTANT Byte

VARIABLES
  written,  (* every byte written since the last clear                    *)
  taken,    (* how many of them the caller has taken                      *)
  view      (* what peek() shows                                          *)

queueVars == <<written, taken, view>>

Pending(w, t) == [i \in 1 .. (Len(w) - t) |-> w[t + i]]

Extends(w, v) == Len(v) <= Len(w) /\ \A i \in 1 .. Len(v) : w[i] = v[i]

Init == written = <<>> /\ taken = 0 /\ view = <<>>

Write == Extends(written', written) /\ taken' = taken

Take == taken' \in taken .. Len(written) /\ written' = written

Clear == written' = <<>> /\ taken' = 0

Next == /\ Write \/ Take \/ Clear
        /\ view' = Pending(written', taken')

Spec == Init /\ [][Next]_queueVars
===============================================================================

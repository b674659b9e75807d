------------------------------- MODULE MCOneShot -------------------------------
(* The calls TLC lets one Decompressor make, in any order.  Rooms are ample, *)
(* exact, one short of it, and none; limits are tighter than the room.       *)
EXTENDS OneShotCorrectness, SampleStreams

Call(wrapper, policy, room, max, stream) ==
  [wrapper |-> wrapper, policy |-> policy, room |-> room, max |-> max,
   stops |-> FALSE, s |-> Source(stream)]

Stoppable(j) == [j EXCEPT !.stops = TRUE]

Size(stream) == Len(Source(stream).means.out)

RoomsFor(stream) == 0 .. Size(stream) + 3

AllOf(seq) == {seq[k] : k \in 1 .. Len(seq)}

RawCalls == {Call("raw", "verify", room, -1, x) : room \in {4, 20}, x \in AllOf(RawStreams)}
              \cup UNION {{Call("raw", "verify", room, -1, x) : room \in RoomsFor(x)} :
                            x \in AllOf(Good)}

ZlibCalls == {Call("zlib", p, room, -1, x) : p \in {"verify", "report", "ignore"}, room \in {3, 20},
                                              x \in AllOf(ZlibStreams)}

GzipCalls == {Call("gzip", p, 20, max, x) : p \in {"verify", "report", "ignore"}, max \in {3, 20},
                                             x \in AllOf(GzipStreams)}

(* A code both of whose lengths are a phantom away from the stream's end, a  *)
(* match that is both too long and too far, fastloops that run out of room.  *)
BothWrong == StaticBlock(TRUE, <<Lit(1, 8), Match(4, 3, 7, 5)>>)

FastCalls ==
  {Call("raw", "verify", 80, -1, x) : x \in AllOf(FastStreams)}
    \cup {Call("raw", "verify", 80, max, FastStreams[1]) : max \in {20, 31, 40}}
    \cup {Call("raw", "verify", room, -1, Followed(BothWrong, 40)) : room \in {1, 3, 4, 80}}
    \cup {Call("zlib", "verify", 60, -1, Followed(Zlib(Mixed), 30))}

Calls == RawCalls \cup ZlibCalls \cup GzipCalls \cup FastCalls
           \cup {Stoppable(Call("raw", "verify", 80, -1, x)) :
                   x \in {FastStreams[1], Whole(Mixed)}}

MCSpec == Init /\ [][Next(Calls)]_vars
===============================================================================

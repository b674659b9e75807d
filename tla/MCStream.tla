-------------------------------- MODULE MCStream --------------------------------
(* The decoders TLC checks, each with the streams it is given.               *)
EXTENDS StreamCorrectness, SampleStreams

Plain(wrap, policy, streams) ==
  [wrapper |-> wrap, policy |-> policy, segment_end |-> FALSE, verify_footer |-> TRUE,
   max_output_size |-> -1, source_errors |-> 0, streams |-> streams]

Failing(u, errors) == [u EXCEPT !.source_errors = errors]

Limited(u, max) == [u EXCEPT !.max_output_size = max]

Formats ==
  {Plain("raw", "verify", RawStreams),
   Plain("zlib", "verify", ZlibStreams),
   Plain("zlib", "report", ZlibStreams),
   Limited(Plain("zlib", "verify", Append(ZlibStreams, Whole(Stalling))), 9),
   Plain("gzip", "verify", GzipStreams),
   Plain("gzip", "ignore", GzipStreams),
   Failing(Plain("zlib", "verify", RetryStreams), 2),
   [Plain("zlib", "verify", SegmentStreams) EXCEPT !.segment_end = TRUE,
                                                   !.verify_footer = FALSE]}

LongOnes == {Plain("raw", "verify", FastStreams), Plain("zlib", "verify", LongZlib)}
Retried == {Failing(Plain("zlib", "verify", RetryStreams), 1)}
RetriedWithLimit == {Failing(Limited(Plain("zlib", "verify", RetryStreams), 20), 2)}
===============================================================================

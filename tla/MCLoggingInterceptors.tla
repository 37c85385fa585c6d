----------------------- MODULE MCLoggingInterceptors -----------------------
(***************************************************************************)
(* LoggingInterceptors on small instances.                                 *)
(***************************************************************************)
EXTENDS LoggingInterceptors

\* Empty, shorter than the buffer, of its size, longer, and twice as long and more;
\* different bytes, so that none can stand for another.
AllLengths == {SubSeq(<<1, 2, 3, 4, 5>>, 1, n) : n \in 0..5}
=============================================================================

--------------------------- MODULE MCAppleStream ---------------------------
(* Instances of AppleStream for TLC.                                       *)
EXTENDS AppleStream

\* No contents, less than a read, one read with a zero in it, two reads of which
\* the first is a hole, a block above the limit, and one whose sizes, 15 and 2,
\* wrap around when added.
SmallChunks ==
  {<<>>, <<0>>, <<0, 1>>, <<0, 0, 1, 1>>, [i \in 1 .. 5 |-> 0], [i \in 1 .. 15 |-> 0]}
=============================================================================

---------------------------- MODULE MCStreamInput ----------------------------
(***************************************************************************)
(* An instance of StreamInput for TLC.                                     *)
(***************************************************************************)
EXTENDS StreamInput

CONSTANTS c1, c2

\* With limits of three chunks and three bytes: a message within both that may come in two orders,
\* one that is too large at its first chunk, and one with too many chunks.
LimitBodies == {<<1, 0, 1>>, <<4, 0>>, <<0, 0, 0, 0>>}

Interchangeable == Permutations(Channels)
==============================================================================

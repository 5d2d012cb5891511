----------------------- MODULE MCStaticCircularBuffer -----------------------
(* Small instances of StaticCircularBuffer for TLC.                        *)
EXTENDS StaticCircularBuffer, TLC

Interchangeable == Permutations(Objects) \union Permutations(Values)
=============================================================================

-------------------------- MODULE MCStreamFactory --------------------------
(* An instance of the stream factory for TLC.                               *)
EXTENDS StreamFactory, TLC

MCSymmetry == Permutations(Conns) \cup Permutations(Consumers) \cup Permutations(Readers)
=============================================================================

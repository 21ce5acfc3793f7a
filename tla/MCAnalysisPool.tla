--------------------------- MODULE MCAnalysisPool ---------------------------
(* Instances of the analysis pool for TLC.                                  *)
EXTENDS AnalysisPool, TLC

CONSTANTS c1, c2, k1, k2, k3, k4

MCCallers == {c1, c2}

\* Callers differ in nothing but their name.
MCSymmetry == Permutations(MCCallers)

MCItems   == {k1, k2, k3, k4}

\* k1 is small and frequent, k2 large and rare, k3 is owned by the other
\* worker, k4 is filtered out.
MCEvents == 1..5
MCItemOf == [e \in Events |-> <<k1, k1, k2, k3, k4>>[e]]
MCWeight == (k1 :> 1) @@ (k2 :> 3) @@ (k3 :> 2) @@ (k4 :> 9)
MCMatch  == {k1, k2, k3}
MCSlot   == (k1 :> 0) @@ (k2 :> 0) @@ (k3 :> 1) @@ (k4 :> 1)
=============================================================================

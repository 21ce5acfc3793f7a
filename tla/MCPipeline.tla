----------------------------- MODULE MCPipeline -----------------------------
(* Instances of the pipeline for TLC.                                       *)
EXTENDS Pipeline

CONSTANTS w1, w2

TwoWorkers == {w1, w2}

\* Slot 0 takes most packets, so one batch can have two packets there.
MCSlot == [p \in Packets |-> IF p = 3 THEN 1 ELSE 0]
=============================================================================

---------------------------- MODULE MCDecodePool ----------------------------
(* Instances of the decode pool for TLC.                                    *)
EXTENDS DecodePool

CONSTANTS w1, w2

MCWorkers == {w1, w2}
=============================================================================

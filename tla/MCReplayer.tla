----------------------------- MODULE MCReplayer -----------------------------
(* Instances of the replayer for TLC.                                       *)
EXTENDS Replayer

\* A packet older than the one before it, then one after a pause.
MCStamp == <<3, 7, 4, 9>>
=============================================================================

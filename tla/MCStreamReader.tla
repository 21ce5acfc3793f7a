--------------------------- MODULE MCStreamReader ---------------------------
(* Instances of the stream reader for TLC.                                  *)
EXTENDS StreamReader

\* "x\r\nx\nr": a line with \r\n, one with \n, an unfinished one.
MCText == <<"x", "r", "n", "x", "n", "r">>
=============================================================================

-------------------------- MODULE MCReaderContract --------------------------
(* An instance of the reader with the history of its errors for TLC.        *)
EXTENDS ReaderContract

\* "xxn": a byte, one to be lost and a line end.
MCText == <<"x", "x", "n">>
=============================================================================

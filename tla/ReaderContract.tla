--------------------------- MODULE ReaderContract ---------------------------
(***************************************************************************)
(* What the comments of the reader's interface say of its errors, beside   *)
(* what Reader and Buffer do.  The history variables only record what the  *)
(* calls of StreamReader return; ReadN and its like are those of           *)
(* StreamReader.                                                           *)
(***************************************************************************)
EXTENDS StreamReader

VARIABLES
  reported,  \* history: how often (2: or more) an ErrLostData was returned for
             \* the gap that ends at a position, since the last Reset
  withheld   \* history: a ReadN or PeekN that met the end of the stream has
             \* not returned all the bytes that were available

NoReports == [p \in Positions |-> 0]

ContractInit == Init /\ reported = NoReports /\ withheld = FALSE

\* A call returns e in this step.  (A closed or failed reader returns neither
\* of the errors below for bytes it holds, and what it ignores returns nothing.)
Returned(e) == ~closed /\ err = "nil" /\ result'.err = e

gapEnd == cursor + avail + gap

ContractNext ==
  /\ Next
  /\ reported' = CASE result'.op = "Reset" -> NoReports
                   [] Returned("lost")     ->
                        [reported EXCEPT ![gapEnd] = IF @ < 2 THEN @ + 1 ELSE @]
                   [] OTHER                -> reported
  /\ withheld' = (withheld \/ /\ Returned("eof") /\ result'.op \in {"ReadN", "PeekN"}
                              /\ result'.out # SubSeq(buf, 1, avail))

ContractSpec == ContractInit /\ [][ContractNext]_<<vars, reported, withheld>>

\* "It is returned only once for each gap" (ErrLostData).
GapReportedOnce == \A p \in Positions : reported[p] <= 1

\* "If EOF is encountered before reading n bytes, the available bytes are
\* returned along with ErrUnexpectedEOF" (model.Reader, of ReadN and PeekN).
AvailableAtEnd == ~withheld

\* The reader keeps one of the two at least.  It is a disjunction so that one
\* behaviour that violates it breaks both: PeekN and IndexAny leave a gap in
\* place and report it again, and ReadN and PeekN return nil with every short
\* read (Buffer.ReadN, Buffer.PeekN, Buffer.IndexAny).
KeepsAPromise == GapReportedOnce \/ AvailableAtEnd
=============================================================================

------------------------------ MODULE GapStream ------------------------------
(***************************************************************************)
(* What the caller sees of a reader of one direction of a TCP              *)
(* conversation.  The stream is a sequence of numbered bytes; the          *)
(* assembler delivers it in order and declares some positions lost.  The   *)
(* reader has one cursor in it.  Reads return the bytes after the cursor;  *)
(* Discard moves the cursor, also beyond what has been delivered; a loss   *)
(* is reported when the cursor gets to it.                                 *)
(*                                                                         *)
(* It describes the reader as it is.  In two points the comments of the    *)
(* code promise something else (see Read and Find, and ReaderContract).    *)
(***************************************************************************)
EXTENDS Integers, Sequences, FiniteSets

CONSTANTS
  Text,     \* the content of each position: "x", "r" (\r) or "n" (\n)
  Cap,      \* bytes the reader is ready to hold (32 KiB)
  MaxRead,  \* largest argument of ReadN, PeekN and Discard (a bound)
  MaxAhead  \* how far the cursor may run ahead of the stream (a bound)

VARIABLES
  sent,     \* positions delivered or declared lost so far
  rd,       \* positions consumed so far
  lost,     \* lost positions not yet consumed
  closed, eof, failed,
  result    \* what the last call returned

vars == <<sent, rd, lost, closed, eof, failed, result>>

N == Len(Text)

\* The positions that can be read, and how many of them precede a loss.
Window == (rd + 1)..sent
Avail  == IF lost = {} THEN Cardinality(Window)
          ELSE (CHOOSE p \in lost : \A q \in lost : p <= q) - rd - 1
\* Sizes of a loss that starts right after the available bytes.
Gaps   == {g \in 1..N : (rd + Avail + 1)..(rd + Avail + g) \subseteq lost}
Bytes(n) == [i \in 1..n |-> rd + i]
Short  == IF eof THEN "eof" ELSE "short"

Return(op, n, out, err, gap) ==
  result' = [op |-> op, n |-> n, out |-> out, err |-> err, gap |-> gap]

MoveTo(p) == rd' = p /\ lost' = {q \in lost : q > p}

Init ==
  /\ sent = 0 /\ rd = 0 /\ lost = {}
  /\ closed = FALSE /\ eof = FALSE /\ failed = FALSE
  /\ result = [op |-> "New", n |-> 0, out |-> <<>>, err |-> "nil", gap |-> 0]

\* The next skip positions are lost and the len after them arrive.  A reader
\* that would have to hold too much fails for good.
Deliver(skip, len) ==
  LET new    == {p \in (sent + skip + 1)..(sent + skip + len) : p > rd}
      missed == {p \in (sent + 1)..(sent + skip) : p > rd}
  IN  /\ ~closed /\ ~failed
      /\ sent + skip + len <= N
      /\ IF new # {} /\ Cardinality(Window \ lost) + Cardinality(new) > Cap
         THEN failed' = TRUE /\ UNCHANGED <<sent, lost>>
         ELSE /\ sent' = sent + skip + len
              /\ lost' = lost \cup missed
              /\ UNCHANGED failed
      /\ Return("Reassembled", 0, <<>>, "nil", 0)
      /\ UNCHANGED <<rd, closed, eof>>

Complete == eof' = TRUE /\ Return("Complete", 0, <<>>, "nil", 0)
            /\ UNCHANGED <<sent, rd, lost, closed, failed>>

Restart ==
  /\ sent' = 0 /\ rd' = 0 /\ lost' = {}
  /\ closed' = FALSE /\ eof' = FALSE /\ failed' = FALSE
  /\ Return("Reset", 0, <<>>, "nil", 0)

\* Forgets what has been delivered, and that the cursor was ahead of it.
Truncate ==
  /\ MoveTo(sent)
  /\ Return("Truncate", 0, <<>>, "nil", 0)
  /\ UNCHANGED <<sent, closed, eof, failed>>

Close ==
  /\ MoveTo(sent) /\ closed' = TRUE
  /\ Return("Close", 0, <<>>, "nil", 0)
  /\ UNCHANGED <<sent, eof, failed>>

Fail(op, n) ==
  /\ failed
  /\ Return(op, n, <<>>, "write", 0)
  /\ UNCHANGED <<sent, rd, lost, closed, eof, failed>>

Discard(n) ==
  \/ Fail("Discard", n)
  \/ /\ ~failed
     /\ rd + n <= sent + MaxAhead
     /\ MoveTo(rd + n)
     /\ Return("Discard", n, <<>>, "nil", 0)
     /\ UNCHANGED <<sent, closed, eof, failed>>

\* n bytes, or what precedes a loss; op = "PeekN" does not move the cursor, so
\* that the loss is reported again, where ErrLostData "is returned only once for
\* each gap".  A short read returns no bytes, also at the end of the stream,
\* where model.Reader says that "the available bytes are returned".
Read(op, n) ==
  \/ Fail(op, n)
  \/ /\ ~failed
     /\ UNCHANGED <<sent, closed, eof, failed>>
     /\ \/ /\ Cardinality(Window) < n
           /\ Return(op, n, <<>>, Short, 0)
           /\ UNCHANGED <<rd, lost>>
        \/ /\ Cardinality(Window) >= n /\ Avail < n
           /\ \E g \in Gaps :
                /\ Return(op, n, Bytes(Avail), "lost", g)
                /\ IF op = "PeekN" THEN UNCHANGED <<rd, lost>>
                   ELSE MoveTo(rd + Avail + g)
        \/ /\ Avail >= n
           /\ Return(op, n, Bytes(n), "nil", 0)
           /\ IF op = "PeekN" THEN UNCHANGED <<rd, lost>> ELSE MoveTo(rd + n)

\* The bytes of the next line without its end; the cursor moves behind the
\* "\n", or behind a loss that comes first.
Line ==
  LET ends == {k \in 1..Avail : Text[rd + k] = "n"}
      k    == CHOOSE i \in ends : \A j \in ends : i <= j
      len  == IF k > 1 /\ Text[rd + k - 1] = "r" THEN k - 2 ELSE k - 1
  IN  \/ Fail("ReadLine", 0)
      \/ /\ ~failed
         /\ UNCHANGED <<sent, closed, eof, failed>>
         /\ \/ ends # {} /\ Return("ReadLine", 0, Bytes(len), "nil", 0) /\ MoveTo(rd + k)
            \/ /\ ends = {} /\ lost # {}
               /\ \E g \in Gaps :
                    Return("ReadLine", 0, <<>>, "lost", g) /\ MoveTo(rd + Avail + g)
            \/ /\ ends = {} /\ lost = {}
               /\ Return("ReadLine", 0, <<>>, Short, 0)
               /\ UNCHANGED <<rd, lost>>

\* How many bytes precede the first one whose content is in chars.  A loss is
\* reported at every call.
Find(chars) ==
  LET hits == {k \in 1..Avail : Text[rd + k] \in chars}
  IN  \/ Fail("IndexAny", 0)
      \/ /\ ~failed
         /\ UNCHANGED <<sent, rd, lost, closed, eof, failed>>
         /\ \/ /\ hits # {}
               /\ Return("IndexAny", (CHOOSE i \in hits : \A j \in hits : i <= j) - 1,
                         <<>>, "nil", 0)
            \/ /\ hits = {} /\ lost # {}
               /\ \E g \in Gaps : Return("IndexAny", 0, <<>>, "lost", g)
            \/ hits = {} /\ lost = {} /\ Return("IndexAny", 0, <<>>, Short, 0)

Next ==
  \/ \E skip, len \in 0..N : Deliver(skip, len)
  \/ Complete \/ Restart \/ Truncate \/ Close \/ Line
  \/ \E n \in 0..MaxRead :
       Discard(n) \/ Read("ReadN", n) \/ Read("PeekN", n)
  \/ \E chars \in SUBSET {"x", "r", "n"} : Find(chars)

Spec == Init /\ [][Next]_vars
=============================================================================

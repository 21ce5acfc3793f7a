------------------------------ MODULE Consumer ------------------------------
(***************************************************************************)
(* The consumer of one memcached text conversation (protocol/mctext and    *)
(* protocol/model): a state machine that reads commands from the client's  *)
(* stream, finds their replies in the server's and reports a get hit for   *)
(* every VALUE line.  The assembler calls it with pieces of either stream  *)
(* in capture order; every call runs the machine until it needs more data. *)
(*                                                                         *)
(* Each direction is read through assembly/reader, represented here by     *)
(* what GapStream says of it: a cursor in the stream and the losses ahead  *)
(* of it.  A stream is a sequence of units, each a piece of text that may  *)
(* end in a blank or in an end of line; packets split it between any two.  *)
(***************************************************************************)
EXTENDS Integers, Sequences, FiniteSets, SequencesExt

CONSTANTS
  Conversations, \* what may be said: [client, server], sequences of units
  Outstanding,   \* requests a client sends before it waits for a reply
  MaxLost,       \* packets that are never captured (a bound)
  BufferSize,    \* capacity of a reader, in units (32 KiB)
  EventCap       \* cap(eventBuf) (8)

ASSUME ConsumerAssumption ==
  /\ MaxLost \in Nat /\ Outstanding \in Nat \ {0}
  /\ BufferSize \in Nat \ {0} /\ EventCap \in Nat \ {0}

VARIABLES
  said,     \* the conversation
  wire,     \* per direction: units that have crossed the network
  lostPackets,
  harmed,   \* requests that lost a unit of themselves or of their reply
  reader,   \* ClientReader and ServerReader
  ended,    \* directions whose stream is complete
  state,    \* Consumer.State
  running,  \* inside Consumer.Run
  cmd, args,
  eventBuf, \* events not yet handed on, each the position of its VALUE line
  handled   \* what Handler has been given

network == <<said, wire, lostPackets, harmed, ended>>
vars == <<said, wire, lostPackets, harmed, reader, ended, state, running,
          cmd, args, eventBuf, handled>>

Sides == {"client", "server"}

\* A unit has a text, the delimiter it ends in, the number it spells, the
\* request it belongs to, and whether the VALUE line of a hit starts with it.
Text(s)     == said[s]
Owner(s, p) == said[s][p].request
\* The last position of request i, or of its reply.
End(s, i)   == Cardinality({p \in DOMAIN said[s] : Owner(s, p) <= i})
RequestIds  == {Owner("client", p) : p \in DOMAIN said["client"]}

-----------------------------------------------------------------------------
(* The readers.                                                            *)

NewReader == [rd |-> 0, sent |-> 0, lost |-> {}, closed |-> FALSE,
              err |-> FALSE, eofSource |-> FALSE]

\* Truncate: nothing is buffered and nothing is owed any more.
Truncated(r) == [r EXCEPT !.rd = r.sent, !.lost = {}]
Reset(r)     == [Truncated(r) EXCEPT !.closed = FALSE, !.err = FALSE]
Closed(r)    == [Truncated(r) EXCEPT !.closed = TRUE]
\* Reset, Put into the pool, and eofSource in its place.
Retired(r)   == [Reset(r) EXCEPT !.eofSource = TRUE]
\* Discards what is there and owes nothing.
Discarded_NoDebt(r, n) ==
  LET to == IF r.rd + n <= r.sent THEN r.rd + n ELSE r.sent
  IN  IF r.eofSource THEN r ELSE [r EXCEPT !.rd = to, !.lost = {p \in @ : p > to}]

\* Discard: eofSource ignores it, a failed reader refuses.
Discarded(r, n) == IF r.eofSource THEN r
                   ELSE [r EXCEPT !.rd = @ + n, !.lost = {p \in @ : p > r.rd + n}]

Buffered(r) == ((r.rd + 1)..r.sent) \ r.lost

\* Reassembled: the units from wire + 1 on arrive, n of them; whatever lies
\* between them and the last delivery is lost.
Received(r, at, n) ==
  LET new == {p \in (at + 1)..(at + n) : p > r.rd}
      to  == at + n
  IN  CASE r.closed \/ r.eofSource -> Truncated([r EXCEPT !.sent = to])
        [] ~r.closed /\ ~r.eofSource /\ r.err -> [r EXCEPT !.sent = to]
        [] ~r.closed /\ ~r.eofSource /\ ~r.err ->
             IF new # {} /\ Cardinality(Buffered(r)) + Cardinality(new) > BufferSize
             THEN [r EXCEPT !.sent = to, !.err = TRUE]
             ELSE [r EXCEPT !.sent = to,
                            !.lost = @ \cup {p \in (r.sent + 1)..at : p > r.rd}]

\* The readable positions of stream s that end in one of delims.
Hits(s, delims) ==
  {p \in Buffered(reader[s]) : /\ Text(s)[p].delim \in delims
                               /\ \A q \in reader[s].lost : q > p}
\* Why IndexAny or ReadLine cannot return one.
Failure(s) ==
  CASE reader[s].eofSource -> "EOF"
    [] ~reader[s].eofSource /\ reader[s].err -> "write"
    [] ~reader[s].eofSource /\ ~reader[s].err ->
         IF reader[s].lost # {} THEN "lost" ELSE "short"
Finds(s, delims) == ~reader[s].eofSource /\ ~reader[s].err /\ Hits(s, delims) # {}

\* The text up to the next delimiter, and the reader behind it.
Next1(s, delims) == CHOOSE p \in Hits(s, delims) : \A q \in Hits(s, delims) : p <= q
Taken(s, delims) == SubSeq(Text(s), reader[s].rd + 1, Next1(s, delims))
Word(units) == SelectSeq([i \in DOMAIN units |-> units[i].text], LAMBDA t : t # "")
Past(s, delims) == [reader[s] EXCEPT !.rd = Next1(s, delims)]

WordEnd == {"blank", "eol"}
LineEnd == {"eol"}

-----------------------------------------------------------------------------
(* Consumer.Run.                                                           *)

Init ==
  /\ said \in Conversations
  /\ wire = [s \in Sides |-> 0] /\ lostPackets = 0 /\ harmed = {}
  /\ reader = [s \in Sides |-> NewReader] /\ ended = {}
  /\ state = "peekMagicByte" /\ running = FALSE
  /\ cmd = [at |-> 0, word |-> <<>>] /\ args = <<>>
  /\ eventBuf = <<>> /\ handled = <<>>

Return_KeepsState(err, rs) ==
  /\ running' = FALSE /\ UNCHANGED state
  /\ reader' = IF err \in {"short", "EOF"} THEN rs ELSE [s \in Sides |-> Reset(rs[s])]

Return_RetriesAtEOF(err, rs) ==
  /\ running' = (err = "EOF")
  /\ IF err \in {"short", "EOF"}
     THEN reader' = rs /\ UNCHANGED state
     ELSE reader' = [s \in Sides |-> Reset(rs[s])] /\ state' = "readCommand"

\* A state function that returns an error: run ends, and unless it only ran
\* out of data both readers are reset and the next command is looked for.
\* rs are the readers as the state function leaves them.
Return(err, rs) ==
  /\ running' = FALSE
  /\ IF err \in {"short", "EOF"}
     THEN reader' = rs /\ UNCHANGED state
     ELSE reader' = [s \in Sides |-> Reset(rs[s])] /\ state' = "readCommand"

\* A state function that returns nil: run calls the next one.
Continue(next, rs) ==
  running' = TRUE /\ reader' = rs /\ state' = next

In(st) == running /\ state = st /\ UNCHANGED network

ServerTruncated == [reader EXCEPT !["server"] = Truncated(@)]

\* Consumer.Close puts both readers back and makes Run a no-op.
PeekMagicByte ==
  LET r == reader["client"]
  IN  /\ In("peekMagicByte")
      /\ UNCHANGED <<cmd, args, eventBuf, handled>>
      /\ \/ r.err /\ Return("write", ServerTruncated)
         \/ (r.eofSource \/ (~r.err /\ r.sent <= r.rd)) /\ Return("short", ServerTruncated)
         \/ /\ ~r.err /\ r.rd + 1 \in r.lost
            /\ Return("short", [ServerTruncated EXCEPT !["client"] = Truncated(@)])
         \/ /\ ~r.err /\ r.rd + 1 \in Buffered(r)
            /\ IF Text("client")[r.rd + 1].text = "0x80"
               THEN /\ reader' = [s \in Sides |-> Retired(reader[s])]
                    /\ running' = FALSE /\ state' = "closed"
               ELSE Continue("readCommand", ServerTruncated)

\* asciiRe: letters only, at least one.
Letters(word) == word # <<>> /\ \A i \in DOMAIN word : word[i] \notin {"num", "0x80"}

CommandState(word) ==
  CASE word = <<"get">>  -> "handleGet"    \* get, gets
    [] word = <<"set">>  -> "handleSet"    \* set, add, replace, append, prepend, cas
    [] word = <<"quit">> -> "handleQuit"
    [] OTHER -> "nil"

ReadCommand ==
  LET word == Word(Taken("client", WordEnd))
      rs   == [ServerTruncated EXCEPT !["client"] = Past("client", WordEnd)]
  IN  /\ In("readCommand")
      /\ args' = <<>>
      /\ UNCHANGED <<eventBuf, handled>>
      /\ IF ~Finds("client", WordEnd)
         THEN Return(Failure("client"), ServerTruncated) /\ UNCHANGED cmd
         ELSE /\ cmd' = [at |-> reader["client"].rd + 1, word |-> word]
              /\ CASE ~Letters(word) -> Return("desync", rs)
                   [] Letters(word) /\ CommandState(word) # "nil" -> Continue("readArgs", rs)
                   [] Letters(word) /\ CommandState(word) = "nil" -> Continue("handleUnknown", rs)

ReadArgs ==
  LET units == Taken("client", WordEnd)
      rs    == [ServerTruncated EXCEPT !["client"] = Past("client", WordEnd)]
  IN  /\ In("readArgs")
      /\ UNCHANGED <<cmd, eventBuf, handled>>
      /\ IF ~Finds("client", WordEnd)
         THEN Return(Failure("client"), ServerTruncated) /\ UNCHANGED args
         ELSE /\ args' = Append(args, [word |-> Word(units), size |-> Last(units).size])
              /\ IF Last(units).delim = "blank" THEN Continue("readArgs", rs)
                 ELSE Continue(CommandState(cmd.word), rs)

\* AddEvent and FlushEvents.
AddEvent(e) ==
  IF Len(eventBuf) + 1 = EventCap
  THEN handled' = handled \o Append(eventBuf, e) /\ eventBuf' = <<>>
  ELSE eventBuf' = Append(eventBuf, e) /\ UNCHANGED handled

\* One turn of handleGet's loop.  A line with a VALUE and a numeric size is a
\* hit whose data is skipped, arrived or not; a size that is not a number is an
\* error; any other line ends the reply.  (readArgs leaves at least one word in
\* args, so the test for none never succeeds.)
HandleGet ==
  LET units == Taken("server", LineEnd)
      past  == Past("server", LineEnd)
      line  == Word(units)
      value == Len(line) > 1 /\ line[1] = "VALUE"
      rs(r) == [reader EXCEPT !["server"] = r]
  IN  /\ In("handleGet")
      /\ UNCHANGED <<cmd, args>>
      /\ IF Finds("server", LineEnd) /\ value /\ line[2] = "num"
         THEN /\ AddEvent(reader["server"].rd + 1)
              /\ Continue("handleGet", rs(Discarded(past, Last(units).size + 1)))
         ELSE /\ UNCHANGED <<eventBuf, handled>>
              /\ CASE ~Finds("server", LineEnd) -> Return(Failure("server"), reader)
                   [] Finds("server", LineEnd) /\ value  -> Return("Atoi", rs(past))
                   [] Finds("server", LineEnd) /\ ~value -> Continue("readCommand", rs(past))

\* discardResponse, entered with the readers rs that its caller leaves.
Discard(rs) == Continue("discardResponse", rs)

HandleSet_KeepsData ==
  /\ In("handleSet")
  /\ Discard(reader)
  /\ UNCHANGED <<cmd, args, eventBuf, handled>>

\* The data of a set is skipped in the client's stream, arrived or not.
HandleSet ==
  /\ In("handleSet")
  /\ UNCHANGED <<cmd, args, eventBuf, handled>>
  /\ CASE Len(args) < 4 -> Discard(reader)
       [] Len(args) >= 4 /\ args[4].word # <<"num">> -> Discard(reader)
       [] Len(args) >= 4 /\ args[4].word = <<"num">> ->
            IF reader["client"].err THEN Return("write", reader)
            ELSE Discard([reader EXCEPT !["client"] = Discarded(@, args[4].size + 1)])

HandleUnknown ==
  /\ In("handleUnknown")
  /\ Discard(reader)
  /\ UNCHANGED <<cmd, args, eventBuf, handled>>

DiscardResponse ==
  /\ In("discardResponse")
  /\ IF Finds("server", LineEnd)
     THEN Continue("readCommand", [reader EXCEPT !["server"] = Past("server", LineEnd)])
     ELSE Return(Failure("server"), reader)
  /\ UNCHANGED <<cmd, args, eventBuf, handled>>

\* The readers are closed but kept; from now on State returns io.EOF.
HandleQuit ==
  /\ In("handleQuit")
  /\ reader' = [s \in Sides |-> Closed(reader[s])]
  /\ state' = "quit" /\ running' = FALSE
  /\ UNCHANGED <<cmd, args, eventBuf, handled>>

Step == \/ PeekMagicByte \/ ReadCommand \/ ReadArgs \/ HandleGet \/ HandleSet
        \/ HandleUnknown \/ DiscardResponse \/ HandleQuit
-----------------------------------------------------------------------------
(* The network and the assembler.                                          *)

\* A server answers what it has received; a client has at most Outstanding
\* requests unanswered and says nothing after one that has no reply (quit).
\* Capture sees the two directions in this order.
MayCross(s, p) ==
  LET i == Owner(s, p)
  IN  IF s = "server" THEN wire["client"] >= End("client", i)
      ELSE /\ \A j \in 1..(i - 1) : End("server", j) > End("server", j - 1)
           /\ i > Outstanding => wire["server"] >= End("server", i - Outstanding)

Crosses(s, n) ==
  /\ ~running /\ s \notin ended
  /\ wire[s] + n <= Len(Text(s))
  /\ n > 0 => MayCross(s, wire[s] + n)
  /\ wire' = [wire EXCEPT ![s] = @ + n]

Owners(s, n) == {Owner(s, p) : p \in (wire[s] + 1)..(wire[s] + n)}

\* ClientStream.Reassembled and ServerStream.Reassembled; n is 0 for a bare
\* SYN or FIN.  Run does nothing after Close and returns io.EOF after quit.
Reassembled(s, n) ==
  /\ Crosses(s, n)
  /\ reader' = [reader EXCEPT ![s] = Received(@, wire[s], n)]
  /\ harmed' = harmed \cup (IF reader'[s].err THEN Owners(s, n) ELSE {})
  /\ running' = (state \notin {"closed", "quit"})
  /\ UNCHANGED <<said, lostPackets, ended, state, cmd, args, eventBuf, handled>>

\* A packet that is not captured; the assembler reports the gap with the next.
Lose(s, n) ==
  /\ n > 0 /\ lostPackets < MaxLost
  /\ Crosses(s, n)
  /\ lostPackets' = lostPackets + 1
  /\ harmed' = harmed \cup Owners(s, n)
  /\ UNCHANGED <<said, reader, ended, state, running, cmd, args, eventBuf, handled>>

\* ClientStream.ReassemblyComplete and ServerStream.ReassemblyComplete, on a
\* FIN, a RST or after a minute of silence.  The reader's EOF flag is set and
\* reset again within the call, so no read ever sees it.
ReassemblyComplete(s) ==
  /\ ~running /\ s \notin ended
  /\ ended' = ended \cup {s}
  /\ handled' = handled \o eventBuf /\ eventBuf' = <<>>
  /\ reader' = [reader EXCEPT ![s] = Retired(@)]
  /\ UNCHANGED <<said, wire, lostPackets, harmed, state, running, cmd, args>>

MaxPacket == Len(Text("client")) + Len(Text("server"))

Next ==
  \/ Step
  \/ \E s \in Sides, n \in 0..MaxPacket : Reassembled(s, n) \/ Lose(s, n)
  \/ \E s \in Sides : ReassemblyComplete(s)

\* The assembly worker that called Run runs it to its end.
Spec == Init /\ [][Next]_vars /\ WF_vars(Step)

-----------------------------------------------------------------------------
(* Properties.                                                             *)

TypeOK ==
  /\ \A s \in Sides : /\ reader[s].lost \subseteq (reader[s].rd + 1)..reader[s].sent
                      /\ reader[s].sent <= wire[s] /\ wire[s] <= Len(Text(s))
                      /\ Cardinality(Buffered(reader[s])) <= BufferSize \/ reader[s].err
  /\ harmed \subseteq RequestIds /\ ended \subseteq Sides
  /\ state \in {"peekMagicByte", "readCommand", "readArgs", "handleGet", "handleSet",
                "handleUnknown", "discardResponse", "handleQuit", "closed", "quit"}
  /\ running \in BOOLEAN
  /\ Len(eventBuf) < EventCap

HitsOf(i) == {p \in DOMAIN said["server"] : said["server"][p].hit /\ Owner("server", p) = i}
events == handled \o eventBuf

\* Every event is the VALUE line of a hit in the reply to a get.
OnlyHits == Range(events) \subseteq UNION {HitsOf(i) : i \in RequestIds}
\* No VALUE line is reported twice, or before one that precedes it.
OnceInOrder == \A i, j \in DOMAIN events : i < j => events[i] < events[j]

\* Wherever the streams are cut and whichever packet is lost, an event is
\* reported for a VALUE line of a reply to a get and for nothing else (never
\* for data that looks like one), once, and in the order of the stream
\* (handleGet, AddEvent, FlushEvents).  When a packet is lost the first part
\* depends on what the rest of the damaged request can be mistaken for: it is
\* claimed where that is no two commands in a row.
NoPhantom == TypeOK /\ OnlyHits /\ OnceInOrder

\* A loss costs at most the hits of the damaged request and of the one after
\* it: once a request and its predecessor were captured whole, all the hits of
\* its reply are reported ("try to resync at the next command", run).  When
\* both streams are complete, whichever ended first, they have been handed on
\* and none is left in eventBuf (FlushEvents).
ResyncAfterLoss ==
  ~running /\ state \notin {"closed", "quit"} =>
    \A i \in RequestIds :
      {i - 1, i} \cap harmed = {} /\ wire["server"] >= End("server", i)
        => HitsOf(i) \subseteq Range(IF ended = Sides THEN handled ELSE events)

\* As long as nothing is lost, a command is the first word of a request, and
\* what handleGet and discardResponse read is the reply to that request.
InStep ==
  harmed = {} /\ state \in {"readArgs", "handleGet", "handleSet", "handleUnknown",
                            "discardResponse", "handleQuit"} =>
    LET i == Owner("client", cmd.at)
    IN  /\ cmd.at = End("client", i - 1) + 1
        /\ state \in {"handleGet", "discardResponse"} =>
             reader["server"].rd \in End("server", i - 1)..End("server", i)

\* Run comes back to the assembly worker that called it: no state returns nil
\* for ever without consuming anything, eofSource in place of a reader
\* included.  (A worker in an endless loop stops every connection it serves.)
RunReturns == running ~> ~running
=============================================================================

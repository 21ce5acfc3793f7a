------------------------------ MODULE Replayer ------------------------------
(***************************************************************************)
(* The replayer (capture/replay.go): a PacketSource in front of a capture  *)
(* file that releases packets at the pace of their timestamps.             *)
(*                                                                         *)
(* It reads the file in batches into a buffer of its own and remembers in  *)
(* cursor how far it has got.  CollectPackets drops what is overdue and    *)
(* copies out what is due; DiscardPacket skips one packet.  Both sleep     *)
(* when nothing is due.  One goroutine, Pool.Run, makes all the calls;     *)
(* what runs concurrently is the clock, which moves between any two steps. *)
(*                                                                         *)
(* Packets are 1..NumPackets in file order.  Time is counted in ticks.     *)
(***************************************************************************)
EXTENDS Integers, Sequences, FiniteSets

CONSTANTS
  NumPackets,     \* packets in the file
  Stamp,          \* Stamp[p]: CaptureInfo.Timestamp of packet p
  BufCap,         \* capacity of both PacketBuffers (1000 packets)
  Timeout,        \* replayerTimeout (10 ms)
  DurationBits,   \* width of time.Duration (64)
  Unset,          \* the zero time.Time
  MaxReadErrors,  \* bound: read errors of the file other than io.EOF
  MaxClock,       \* bound: the clock stops here
  MaxReceived     \* bound: received is not counted further than this

Packets     == 1..NumPackets
HalfRange   == 2^(DurationBits - 1)   \* a Duration is at least -HalfRange
MaxDuration == HalfRange - 1

\* The clock does not get near the end of the range of a Duration (292 years), and
\* a power of two is a positive number.
ASSUME ReplayAssumption ==
  /\ NumPackets \in Nat /\ BufCap \in Nat \ {0}
  /\ Stamp \in [Packets -> Nat]
  /\ Timeout \in Nat \ {0}
  /\ DurationBits \in Nat \ {0} /\ HalfRange \in Nat \ {0}
  /\ MaxReadErrors \in Nat /\ MaxClock \in Nat /\ MaxReceived \in Nat
  /\ MaxClock + Timeout < MaxDuration
  /\ Unset \notin Int

VARIABLES
  clock,       \* time.Now; only differences to start are ever used, so
               \* the time before the first call stands still
  start,       \* replayer.start
  first,       \* replayer.first
  buf,         \* replayer.buf
  cursor,      \* replayer.cursor, counted from 0
  received,    \* replayer.received
  dropped,     \* replayer.dropped
  src,         \* packets read from the file
  readErrors,  \* read errors so far
  pc,          \* where the current call is
  elapsed,     \* the local variable of CollectPackets
  pb,          \* the caller's PacketBuffer
  res,         \* how the last call ended
  fate         \* history: what became of each packet

fileVars == <<src, readErrors>>
timeVars == <<clock, start, first>>
vars == <<clock, start, first, buf, cursor, received, dropped, src, readErrors,
          pc, elapsed, pb, res, fate>>

TypeOK ==
  /\ clock \in 0..MaxClock
  /\ start \in (0..MaxClock) \cup {Unset}
  /\ first \in Nat \cup {Unset}
  /\ buf \in Seq(Packets) /\ Len(buf) <= BufCap
  /\ cursor \in 0..BufCap
  /\ received \in 0..MaxReceived /\ dropped \in Nat
  /\ src \in 0..NumPackets /\ readErrors \in 0..MaxReadErrors
  /\ pc \in {"idle", "collectFill", "deliver", "discardFill", "discard"}
  /\ elapsed \in 0..MaxClock
  /\ pb \in Seq(Packets) /\ Len(pb) <= BufCap
  /\ res \in {"none", "nil", "timeout", "eof", "error"}
  /\ fate \in [Packets -> {"unread", "buffered", "returned", "expired", "discarded"}]

(* newReplayer.                                                            *)
Init ==
  /\ clock = 0 /\ start = Unset /\ first = Unset
  /\ buf = <<>> /\ cursor = 0
  /\ received = 0 /\ dropped = 0
  /\ src = 0 /\ readErrors = 0
  /\ pc = "idle" /\ elapsed = 0
  /\ pb = <<>> /\ res = "none"
  /\ fate = [p \in Packets |-> "unread"]

-----------------------------------------------------------------------------
(* Time.                                                                   *)

\* The sum as it would be if a Duration never overflowed.
plus_Wide(a, b) == a + b

\* Addition of two Durations, which wraps.
plus(a, b) == ((a + b + HalfRange) % (2 * HalfRange)) - HalfRange

\* time.Since(t) at instant now: Sub saturates, and the zero time is further
\* back than a Duration reaches.
Since(t, now) == IF t = Unset THEN MaxDuration ELSE now - t

\* p.Info.Timestamp.After(f.Add(d)).  Any timestamp is after the zero time
\* plus the age of the process.
After(p, f, d) == f = Unset \/ Stamp[p] > f + d

SmallerOf(a, b) == IF a <= b THEN a ELSE b

Sleep_Skipped == UNCHANGED clock

\* time.Sleep(replayerTimeout)
Sleep == clock' = IF start = Unset THEN clock ELSE SmallerOf(clock + Timeout, MaxClock)

Tick ==
  /\ start # Unset
  /\ clock < MaxClock
  /\ clock' = clock + 1
  /\ UNCHANGED <<start, first, buf, cursor, received, dropped, fileVars, pc,
                 elapsed, pb, res, fate>>

-----------------------------------------------------------------------------
(* dropExpired.                                                            *)

\* The cursor where dropExpired(e) stops in buffer b, coming from c.
unexpired(b, c, f, e) ==
  IF c >= Len(b) THEN c
  ELSE CHOOSE j \in c..Len(b) :
         /\ j = Len(b) \/ After(b[j + 1], f, e - Timeout \div 2)
         /\ \A i \in c..(j - 1) : ~After(b[i + 1], f, e - Timeout \div 2)

dropExpired(b, c, f, e, known) ==
  LET j == unexpired(b, c, f, e) IN
  /\ cursor' = j
  /\ dropped' = dropped + (j - c)
  /\ fate' = [p \in Packets |->
                IF \E i \in (c + 1)..j : b[i] = p THEN "expired" ELSE known[p]]

-----------------------------------------------------------------------------
(* fill: source.CollectPackets clears the buffer and stores k packets.     *)

Batch(k) == [i \in 1..k |-> src + i]

Read(k) ==
  /\ src + k <= NumPackets
  /\ buf' = Batch(k)
  /\ src' = src + k

\* fate with the k packets just read.
Known(k) == [p \in Packets |-> IF p \in (src + 1)..(src + k) THEN "buffered" ELSE fate[p]]

\* Leaves out the dropExpired after fill.
CollectFill_NoDrop(k) ==
  /\ pc = "collectFill"
  /\ Read(k)
  /\ first' = IF first = Unset THEN Stamp[src + 1] ELSE first
  /\ cursor' = 0
  /\ fate' = Known(k)
  /\ pc' = "deliver"
  /\ UNCHANGED <<clock, start, received, dropped, readErrors, elapsed, pb, res>>

\* fill forgets r.cursor = 0.
CollectFill_KeepsCursor(k) ==
  /\ pc = "collectFill"
  /\ Read(k)
  /\ first' = IF first = Unset THEN Stamp[src + 1] ELSE first
  /\ dropExpired(Batch(k), cursor, first', elapsed, Known(k))
  /\ pc' = IF cursor' >= k THEN "collectFill" ELSE "deliver"
  /\ UNCHANGED <<clock, start, received, readErrors, elapsed, pb, res>>

\* In CollectPackets, err == nil: then dropExpired, and again while everything
\* is overdue.
CollectFill(k) ==
  /\ pc = "collectFill"
  /\ Read(k)
  /\ first' = IF first = Unset THEN Stamp[src + 1] ELSE first
  /\ dropExpired(Batch(k), 0, first', elapsed, Known(k))
  /\ pc' = IF cursor' >= k THEN "collectFill" ELSE "deliver"
  /\ UNCHANGED <<clock, start, received, readErrors, elapsed, pb, res>>

\* In DiscardPacket, err == nil.
DiscardFill(k) ==
  /\ pc = "discardFill"
  /\ Read(k)
  /\ first' = IF first = Unset THEN Stamp[src + 1] ELSE first
  /\ cursor' = 0
  /\ fate' = Known(k)
  /\ pc' = "discard"
  /\ UNCHANGED <<clock, start, received, dropped, readErrors, elapsed, pb, res>>

\* An error after k packets ends either call at once: the packets stay in the
\* buffer, cursor and first as they were.
FillError(k) ==
  /\ pc \in {"collectFill", "discardFill"}
  /\ readErrors < MaxReadErrors
  /\ Read(k)
  /\ fate' = Known(k)
  /\ readErrors' = readErrors + 1
  /\ pc' = "idle"
  /\ res' = "error"
  /\ UNCHANGED <<timeVars, cursor, received, dropped, elapsed, pb>>

FillEOF ==
  /\ pc \in {"collectFill", "discardFill"}
  /\ src = NumPackets
  /\ buf' = <<>>
  /\ pc' = "idle"
  /\ res' = "eof"
  /\ UNCHANGED <<timeVars, cursor, received, dropped, fileVars, elapsed, pb, fate>>

-----------------------------------------------------------------------------
(* CollectPackets.                                                         *)

CollectPackets ==
  /\ pc = "idle"
  /\ pb' = <<>>
  /\ start' = IF start = Unset THEN clock ELSE start
  /\ elapsed' = Since(start', clock)
  /\ dropExpired(buf, cursor, first, elapsed', fate)
  /\ pc' = IF cursor' >= Len(buf) THEN "collectFill" ELSE "deliver"
  /\ UNCHANGED <<clock, first, buf, received, fileVars, res>>

\* The next packet of the buffer is not due yet.
early(j) == After(buf[j + 1], first, elapsed + Timeout)

\* The cursor where the loop that copies packets out ends: at the end of the
\* buffer, when the caller's bytes run out (after room packets), or at an
\* early packet.
stop(room) ==
  CHOOSE j \in cursor..Len(buf) :
    /\ \A i \in cursor..(j - 1) : i - cursor < room /\ ~early(i)
    /\ IF j = Len(buf) \/ j - cursor = room THEN TRUE ELSE early(j)

\* The packets from cursor up to j are in the caller's buffer.
Returned(j) ==
  /\ pb' = SubSeq(buf, cursor + 1, j)
  /\ fate' = [p \in Packets |-> IF \E i \in (cursor + 1)..j : buf[i] = p
                                THEN "returned" ELSE fate[p]]

\* Does not move past the packets it copied out before it sleeps.
Deliver_Rereads(room) ==
  LET j == stop(room)
      tooEarly == j < Len(buf) /\ j - cursor < room
  IN
  /\ pc = "deliver"
  /\ Returned(j)
  /\ cursor' = IF tooEarly THEN cursor ELSE j
  /\ IF tooEarly THEN Sleep ELSE UNCHANGED clock
  /\ res' = IF tooEarly /\ j = cursor THEN "timeout" ELSE "nil"
  /\ pc' = "idle"
  /\ UNCHANGED <<start, first, buf, received, dropped, fileVars, elapsed>>

\* received is incremented before the packet is looked at, so an early packet
\* is counted too, in every call that meets it.
Deliver(room) ==
  LET j == stop(room)
      tooEarly == j < Len(buf) /\ j - cursor < room
      seen == (j - cursor) + (IF tooEarly THEN 1 ELSE 0)
  IN
  /\ pc = "deliver"
  /\ Returned(j)
  /\ cursor' = j
  /\ received' = SmallerOf(received + seen, MaxReceived)
  /\ IF tooEarly THEN Sleep ELSE UNCHANGED clock
  /\ res' = IF tooEarly /\ j = cursor THEN "timeout" ELSE "nil"
  /\ pc' = "idle"
  /\ UNCHANGED <<start, first, buf, dropped, fileVars, elapsed>>

-----------------------------------------------------------------------------
(* DiscardPacket.                                                          *)

DiscardPacket ==
  /\ pc = "idle"
  /\ pc' = IF cursor >= Len(buf) THEN "discardFill" ELSE "discard"
  /\ UNCHANGED <<timeVars, buf, cursor, received, dropped, fileVars, elapsed,
                 pb, res, fate>>

\* offset > elapsed+replayerTimeout
notDue ==
  LET offset == IF first = Unset THEN MaxDuration ELSE Stamp[buf[cursor + 1]] - first
  IN  offset > plus(Since(start, clock), Timeout)

DiscardTimeout ==
  /\ pc = "discard"
  /\ notDue
  /\ Sleep
  /\ pc' = "idle"
  /\ res' = "timeout"
  /\ UNCHANGED <<start, first, buf, cursor, received, dropped, fileVars, elapsed,
                 pb, fate>>

Discard ==
  /\ pc = "discard"
  /\ ~notDue
  /\ cursor' = cursor + 1
  /\ received' = SmallerOf(received + 1, MaxReceived)
  /\ fate' = [fate EXCEPT ![buf[cursor + 1]] = "discarded"]
  /\ pc' = "idle"
  /\ res' = "nil"
  /\ UNCHANGED <<timeVars, buf, dropped, fileVars, elapsed, pb>>

-----------------------------------------------------------------------------
\* The steps inside a call, a failing read excepted.
Step ==
  \/ \E k \in 1..BufCap : CollectFill(k) \/ DiscardFill(k)
  \/ FillEOF
  \/ \E room \in 1..BufCap : Deliver(room)
  \/ DiscardTimeout
  \/ Discard

Next ==
  \/ Tick
  \/ CollectPackets
  \/ DiscardPacket
  \/ Step
  \/ \E k \in 0..(BufCap - 1) : FillError(k)

Spec == Init /\ [][Next]_vars

\* A call that is under way goes on, and Pool.Run calls CollectPackets again
\* and again, since a decode worker becomes free again and again.
FairSpec == Spec /\ WF_vars(Step) /\ SF_vars(CollectPackets)

-----------------------------------------------------------------------------
(* Properties.                                                             *)

\* Real time since the first CollectPackets.
Age(now) == IF start' = Unset THEN 0 ELSE now - start'

\* Neither CollectPackets nor DiscardPacket lets a packet go more than
\* replayerTimeout before its time, measured on the clock at that moment;
\* before the replay has started (DiscardPacket called first, when no decode
\* worker is ready yet) that holds because elapsed+replayerTimeout overflows.
NeverEarly ==
  [][\A p \in Packets :
       fate[p] # fate'[p] /\ fate'[p] \in {"returned", "discarded"} =>
         first' # Unset /\ Stamp[p] - first' <= Age(clock) + Timeout]_vars

\* CollectPackets never returns a packet that was overdue by replayerTimeout/2
\* when the call began: what became overdue while it sat in the buffer, or was
\* overdue when read, is dropped instead.  (A packet older than one before it
\* can hide behind that one, which stops dropExpired.)
NotStale ==
  [][\A p \in Packets :
       /\ fate[p] # fate'[p] /\ fate'[p] = "returned"
       /\ \A q \in 1..(p - 1) : Stamp[q] <= Stamp[p]
       =>
         Stamp[p] - first' > elapsed' - Timeout \div 2]_vars

\* Each packet is given to the caller of CollectPackets at most once, in file
\* order, read errors or not.
ReturnedInOrder ==
  [][pb' # pb => \A i \in DOMAIN pb' :
       /\ fate[pb'[i]] = "buffered"
       /\ \A q \in Packets : q > pb'[i] => fate[q] \in {"unread", "buffered"}]_vars

\* Every packet is accounted for.  PacketsDropped in Stats is the number of
\* packets dropExpired skipped and, as long as no read has failed, a packet
\* read from the file has been returned, dropped or discarded, or is still
\* ahead of the cursor.
NothingLost ==
  /\ TypeOK
  /\ dropped = Cardinality({p \in Packets : fate[p] = "expired"})
  /\ readErrors = 0 /\ pc \in {"idle", "deliver", "discard"} =>
       {p \in Packets : fate[p] = "buffered"} = {buf[i] : i \in (cursor + 1)..Len(buf)}

\* Unless a read fails, the replay of a file ends: CollectPackets or
\* DiscardPacket reports io.EOF, which is what makes Pool.Run return.
ReplayEnds == <>(res = "eof" \/ readErrors > 0)
=============================================================================

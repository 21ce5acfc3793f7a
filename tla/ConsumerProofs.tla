--------------------------- MODULE ConsumerProofs ---------------------------
(***************************************************************************)
(* Proofs about the consumer.  Whatever the two sides say and whatever is  *)
(* lost, the readers keep their bounds and no VALUE line is reported twice *)
(* or out of order.  For conversations in the grammar of TextGrammar, with *)
(* one request at a time, and as long as no packet is lost: the consumer   *)
(* stays in step, reports nothing but hits, and all of them, wherever the  *)
(* packets split the streams.                                              *)
(*                                                                         *)
(* The second part rests on an invariant that says for every state of the  *)
(* machine where its cursors are in the conversation (Phase), what has     *)
(* been reported up to there (Reported), and, when Run has come back, why: *)
(* there is no delimiter behind the cursor in what has crossed (Unread).   *)
(***************************************************************************)
EXTENDS TextGrammar, FiniteSetTheorems, SequenceTheorems, TLAPS

(* What the variables range over.                                          *)
Reader == [rd : Nat, sent : Nat, lost : SUBSET Nat, closed : BOOLEAN,
           err : BOOLEAN, eofSource : BOOLEAN]
Words == {Word(units) : units \in Seq(Unit)} \cup {<<>>}
Arg == [word : Words, size : Nat]
States == {"peekMagicByte", "readCommand", "readArgs", "handleGet", "handleSet",
           "handleUnknown", "discardResponse", "handleQuit", "closed", "quit"}

\* What TypeOK says of the reader of a direction of which w units have crossed.
Sound(r, w) ==
  /\ r \in Reader
  /\ r.lost \subseteq (r.rd + 1)..r.sent /\ r.sent <= w
  /\ Cardinality(Buffered(r)) <= BufferSize \/ r.err

\* r2 is no less far than r, unless r was owed what Truncate forgot.
Goes(r, r2) == r.sent <= r2.sent /\ (r.rd <= r2.rd \/ r.sent <= r2.rd)

-----------------------------------------------------------------------------
(* The readers.                                                            *)

\* A set of natural numbers that is not empty has a least member.
LEMMA Smallest ==
  ASSUME NEW S \in SUBSET Nat, S # {}
  PROVE  \E i \in S : \A j \in S : i <= j
<1> DEFINE R == {r \in Nat \X Nat : r[1] < r[2]}
<1>1. IsWellFoundedOn(R, Nat)
  BY NatLessThanWellFounded DEF OpToRel
<1>2. ASSUME NEW i \in Nat, NEW j \in Nat, <<j, i>> \notin R PROVE i <= j
  BY <1>2
<1> HIDE DEF R
<1>3. PICK i \in S : \A j \in S : ~(<<j, i>> \in R)
  BY <1>1, WFMin
<1> QED BY <1>2, <1>3

\* What is buffered is a finite set, and a part of it is no larger.
LEMMA BufferedFinite ==
  ASSUME NEW r \in Reader
  PROVE  IsFiniteSet(Buffered(r)) /\ Cardinality(Buffered(r)) \in Nat
<1>1. IsFiniteSet((r.rd + 1)..r.sent)
  BY FS_Interval DEF Reader
<1>2. Buffered(r) \in SUBSET ((r.rd + 1)..r.sent)
  BY DEF Buffered
<1>3. IsFiniteSet(Buffered(r))
  BY <1>1, <1>2, FS_Subset
<1> QED BY <1>3, FS_CardinalityType

\* A reader that has read everything holds nothing.
LEMMA NothingBuffered ==
  ASSUME NEW r \in Reader, r.rd = r.sent, r.lost = {}
  PROVE  Cardinality(Buffered(r)) <= BufferSize
<1>1. Buffered(r) = {}
  BY DEF Buffered, Reader
<1>2. Cardinality(Buffered(r)) = 0
  BY <1>1, FS_EmptySet
<1> QED BY <1>2, ConsumerAssumption

\* Truncate, Reset, Close and the return to the pool.
LEMMA EmptiedIsSound ==
  ASSUME NEW w \in Nat, NEW r, Sound(r, w)
  PROVE  /\ Sound(Truncated(r), w) /\ Sound(Reset(r), w)
         /\ Sound(Closed(r), w) /\ Sound(Retired(r), w)
         /\ Goes(r, Truncated(r)) /\ Goes(r, Reset(r))
         /\ Goes(r, Closed(r)) /\ Goes(r, Retired(r))
<1>1. r \in Reader /\ r.sent <= w
  BY DEF Sound
<1>2. ASSUME NEW t, t \in Reader, t.rd = r.sent, t.sent = r.sent, t.lost = {}
      PROVE  Sound(t, w) /\ Goes(r, t)
  <2>1. Cardinality(Buffered(t)) <= BufferSize
    BY <1>2, NothingBuffered
  <2> QED BY <1>1, <1>2, <2>1 DEF Sound, Goes, Reader
<1>3. /\ Truncated(r) \in Reader /\ Reset(r) \in Reader
      /\ Closed(r) \in Reader /\ Retired(r) \in Reader
  BY <1>1 DEF Truncated, Reset, Closed, Retired, Reader
<1>4. \A t \in {Truncated(r), Reset(r), Closed(r), Retired(r)} :
        t.rd = r.sent /\ t.sent = r.sent /\ t.lost = {}
  BY <1>1 DEF Truncated, Reset, Closed, Retired, Reader
<1> QED BY <1>2, <1>3, <1>4

\* The cursor moves to q.
Moved(r, q) == [r EXCEPT !.rd = q, !.lost = {p \in @ : p > q}]

\* A cursor moved forward, and the losses it passed forgotten.
LEMMA MovedIsSound ==
  ASSUME NEW w \in Nat, NEW r, Sound(r, w), NEW q \in Nat, r.rd <= q
  PROVE  Sound(Moved(r, q), w) /\ Goes(r, Moved(r, q))
<1> DEFINE t == Moved(r, q)
<1>1. r \in Reader /\ r.lost \subseteq (r.rd + 1)..r.sent /\ r.sent <= w
  BY DEF Sound
<1>2. t \in Reader /\ t.rd = q /\ t.sent = r.sent /\ t.lost = {p \in r.lost : p > q} /\ t.err = r.err
  BY <1>1 DEF Reader, Moved
<1> HIDE DEF t
<1>3. Buffered(t) \in SUBSET Buffered(r)
  BY <1>1, <1>2 DEF Buffered, Reader
<1>4. Cardinality(Buffered(t)) <= Cardinality(Buffered(r))
  BY <1>1, <1>3, BufferedFinite, FS_Subset
<1>5. Cardinality(Buffered(t)) \in Nat /\ Cardinality(Buffered(r)) \in Nat
  BY <1>1, <1>2, BufferedFinite
<1>6. Cardinality(Buffered(t)) <= BufferSize \/ t.err
  BY <1>2, <1>4, <1>5, ConsumerAssumption DEF Sound
<1>7. t.lost \subseteq (t.rd + 1)..t.sent
  BY <1>1, <1>2 DEF Reader
<1>8. Goes(r, t)
  BY <1>1, <1>2 DEF Goes, Reader
<1> QED BY <1>1, <1>2, <1>6, <1>7, <1>8 DEF Sound, t

\* Discard keeps a reader's bounds, also when it owes more than has arrived.
LEMMA DiscardedIsSound ==
  ASSUME NEW w \in Nat, NEW r, Sound(r, w), NEW n \in Nat
  PROVE  Sound(Discarded(r, n), w) /\ Goes(r, Discarded(r, n))
<1>1. r \in Reader
  BY DEF Sound
<1>2. CASE r.eofSource
  BY <1>1, <1>2 DEF Discarded, Goes, Reader
<1>3. CASE ~r.eofSource
  <2>1. r.rd + n \in Nat /\ r.rd <= r.rd + n
    BY <1>1 DEF Reader
  <2>2. Discarded(r, n) = Moved(r, r.rd + n)
    BY <1>1, <1>3 DEF Discarded, Moved, Reader
  <2> QED BY <2>1, <2>2, MovedIsSound
<1> QED BY <1>2, <1>3

\* Discard never moves the cursor back.
LEMMA DiscardedAdvances ==
  ASSUME NEW r \in Reader, NEW n \in Nat
  PROVE  r.rd <= Discarded(r, n).rd /\ r.sent = Discarded(r, n).sent
<1>1. CASE r.eofSource
  BY <1>1 DEF Discarded, Reader
<1>2. CASE ~r.eofSource
  <2>1. Discarded(r, n) = Moved(r, r.rd + n)
    BY <1>2 DEF Discarded, Moved, Reader
  <2>2. Moved(r, r.rd + n).rd = r.rd + n /\ Moved(r, r.rd + n).sent = r.sent
    BY DEF Moved, Reader
  <2> QED BY <2>1, <2>2 DEF Reader
<1> QED BY <1>1, <1>2

\* A write: what arrives behind a debt is dropped, what does not fit is refused.
LEMMA ReceivedIsSound ==
  ASSUME NEW w \in Nat, NEW r, Sound(r, w), NEW n \in Nat
  PROVE  Sound(Received(r, w, n), w + n) /\ Goes(r, Received(r, w, n))
<1> DEFINE new == {p \in (w + 1)..(w + n) : p > r.rd}
           t == [r EXCEPT !.sent = w + n]
<1>1. r \in Reader /\ r.lost \subseteq (r.rd + 1)..r.sent /\ r.sent <= w /\ r.sent <= w + n
      /\ w + n \in Nat
  BY DEF Sound, Reader
<1>7. r.closed \in BOOLEAN /\ r.eofSource \in BOOLEAN /\ r.err \in BOOLEAN
  BY <1>1 DEF Reader
<1>2. CASE r.closed \/ r.eofSource
  <2>1. Received(r, w, n) = Truncated(t)
    BY <1>2, <1>7 DEF Received
  <2>2. Truncated(t) \in Reader /\ Truncated(t).rd = w + n /\ Truncated(t).sent = w + n
        /\ Truncated(t).lost = {}
    BY <1>1 DEF Truncated, Reader
  <2>3. Cardinality(Buffered(Truncated(t))) <= BufferSize
    BY <2>2, NothingBuffered
  <2> QED BY <1>1, <2>1, <2>2, <2>3 DEF Sound, Goes, Reader
<1>3. ASSUME NEW u, u \in Reader, u.rd = r.rd, u.lost = r.lost, u.sent = w + n, u.err
      PROVE  Sound(u, w + n) /\ Goes(r, u)
  BY <1>1, <1>3 DEF Sound, Goes, Reader
<1>4. CASE ~r.closed /\ ~r.eofSource /\ r.err
  <2>1. Received(r, w, n) = t
    BY <1>4 DEF Received
  <2>2. t \in Reader /\ t.rd = r.rd /\ t.lost = r.lost /\ t.sent = w + n /\ t.err
    BY <1>1, <1>4 DEF Reader
  <2> QED BY <1>3, <2>1, <2>2
<1>5. CASE ~r.closed /\ ~r.eofSource /\ ~r.err /\ new # {}
           /\ Cardinality(Buffered(r)) + Cardinality(new) > BufferSize
  <2>1. Received(r, w, n) = [r EXCEPT !.sent = w + n, !.err = TRUE]
    BY <1>5 DEF Received
  <2>2. LET u == [r EXCEPT !.sent = w + n, !.err = TRUE]
        IN u \in Reader /\ u.rd = r.rd /\ u.lost = r.lost /\ u.sent = w + n /\ u.err
    BY <1>1 DEF Reader
  <2> QED BY <1>3, <2>1, <2>2
<1>6. CASE ~r.closed /\ ~r.eofSource /\ ~r.err
           /\ ~(new # {} /\ Cardinality(Buffered(r)) + Cardinality(new) > BufferSize)
  <2> DEFINE u == [r EXCEPT !.sent = w + n,
                            !.lost = @ \cup {p \in (r.sent + 1)..w : p > r.rd}]
  <2>1. Received(r, w, n) = u
    BY <1>6 DEF Received
  <2>2. u \in Reader /\ u.rd = r.rd /\ u.sent = w + n
        /\ u.lost = r.lost \cup {p \in (r.sent + 1)..w : p > r.rd}
    <3> DEFINE l == r.lost \cup {p \in (r.sent + 1)..w : p > r.rd}
    <3>1. l \in SUBSET Nat
      BY <1>1 DEF Reader
    <3>2. u = [r EXCEPT !.sent = w + n, !.lost = l]
      BY <1>1 DEF Reader
    <3> HIDE DEF u, l
    <3>3. u \in Reader /\ u.rd = r.rd /\ u.sent = w + n /\ u.lost = l
      BY <1>1, <3>1, <3>2 DEF Reader
    <3> QED BY <3>3 DEF l
  <2> HIDE DEF u
  <2>3. u.lost \subseteq (u.rd + 1)..u.sent
    BY <1>1, <2>2 DEF Reader
  <2>4. Buffered(u) = Buffered(r) \cup new
    BY <1>1, <2>2 DEF Buffered, Reader
  <2>5. IsFiniteSet(new)
    <3>1. IsFiniteSet((w + 1)..(w + n))
      BY FS_Interval
    <3> QED BY <3>1, FS_Subset
  <2>6. IsFiniteSet(Buffered(r)) /\ Cardinality(Buffered(r)) \in Nat
    BY <1>1, BufferedFinite
  <2>7. Cardinality(Buffered(u)) <= Cardinality(Buffered(r)) + Cardinality(new)
    <3>1. IsFiniteSet(Buffered(r) \cap new)
      BY <2>5, FS_Subset
    <3>2. Cardinality(Buffered(r) \cap new) \in Nat /\ Cardinality(new) \in Nat
      BY <2>5, <3>1, FS_CardinalityType
    <3>3. Cardinality(Buffered(u)) =
            Cardinality(Buffered(r)) + Cardinality(new) - Cardinality(Buffered(r) \cap new)
      BY <2>4, <2>5, <2>6, FS_Union
    <3> HIDE DEF new
    <3> QED BY <2>6, <3>2, <3>3
  <2>8. Cardinality(Buffered(u)) <= BufferSize
    <3>1. CASE new = {}
      BY <1>6, <2>4, <3>1 DEF Sound
    <3>2. CASE new # {}
      <4>1. Cardinality(Buffered(u)) \in Nat /\ Cardinality(new) \in Nat
        BY <2>2, <2>5, BufferedFinite, FS_CardinalityType
      <4> HIDE DEF new
      <4> QED BY <1>6, <2>6, <2>7, <3>2, <4>1, ConsumerAssumption
    <3> QED BY <3>1, <3>2
  <2>9. Goes(r, u)
    BY <1>1, <2>2 DEF Goes, Reader
  <2> QED BY <1>1, <2>1, <2>2, <2>3, <2>8, <2>9 DEF Sound
<1> HIDE DEF new, t
<1> QED BY <1>2, <1>4, <1>5, <1>6, <1>7

-----------------------------------------------------------------------------
(* Types.                                                                  *)

TInv ==
  /\ Typed(said)
  /\ wire \in [Sides -> Nat] /\ \A s \in Sides : wire[s] <= Len(said[s])
  /\ reader \in [Sides -> Reader] /\ \A s \in Sides : Sound(reader[s], wire[s])
  /\ harmed \subseteq Requests(said) /\ ended \subseteq Sides
  /\ state \in States /\ running \in BOOLEAN
  /\ cmd \in [at : Nat, word : Words] /\ args \in Seq(Arg)
  /\ eventBuf \in Seq(Nat) /\ handled \in Seq(Nat) /\ Len(eventBuf) < EventCap
  /\ state = "readArgs" => CommandState(cmd.word) # "nil"

\* The readers rs may replace the present ones.
Fit(rs) ==
  /\ rs \in [Sides -> Reader]
  /\ \A s \in Sides : Sound(rs[s], wire[s]) /\ Goes(reader[s], rs[s])

\* Going on is transitive.
LEMMA GoesOn ==
  ASSUME NEW r \in Reader, NEW t \in Reader, NEW u \in Reader, Goes(r, t), Goes(t, u)
  PROVE  Goes(r, u)
  BY DEF Goes, Reader

\* The present readers may stay.
LEMMA FitReader ==
  ASSUME TInv PROVE Fit(reader)
<1>1. \A r \in Reader : Goes(r, r)
  BY DEF Goes, Reader
<1> QED BY <1>1 DEF TInv, Fit

\* One reader of several that fit is replaced by one that goes on from it.
LEMMA FitExcept ==
  ASSUME TInv, NEW rs, Fit(rs), NEW s \in Sides, NEW r,
         Sound(r, wire[s]), Goes(rs[s], r)
  PROVE  Fit([rs EXCEPT ![s] = r])
<1>1. r \in Reader
  BY DEF Sound
<1>2. Goes(reader[s], r)
  BY <1>1, GoesOn DEF Fit, TInv
<1> QED BY <1>1, <1>2 DEF Fit

\* They may with the server's truncated, as each state function before a reply
\* does.
LEMMA FitTruncated ==
  ASSUME TInv PROVE Fit(ServerTruncated)
<1>1. "server" \in Sides /\ wire["server"] \in Nat /\ Sound(reader["server"], wire["server"])
  BY DEF TInv, Sides
<1>2. ServerTruncated = [reader EXCEPT !["server"] = Truncated(reader["server"])]
  BY DEF ServerTruncated, TInv
<1> QED BY <1>1, <1>2, EmptiedIsSound, FitReader, FitExcept

\* Readers that may replace the present ones may also be reset first (run,
\* after an error).
LEMMA FitReset ==
  ASSUME TInv, NEW rs, Fit(rs)
  PROVE  Fit([s \in Sides |-> Reset(rs[s])])
<1>1. ASSUME NEW s \in Sides
      PROVE  Reset(rs[s]) \in Reader /\ Sound(Reset(rs[s]), wire[s]) /\ Goes(reader[s], Reset(rs[s]))
  <2>1. wire[s] \in Nat /\ Sound(rs[s], wire[s])
    BY DEF TInv, Fit
  <2>2. Sound(Reset(rs[s]), wire[s]) /\ Goes(rs[s], Reset(rs[s]))
    BY <2>1, EmptiedIsSound
  <2>3. Reset(rs[s]) \in Reader /\ rs[s] \in Reader /\ reader[s] \in Reader
    BY <2>1, <2>2 DEF Sound, TInv
  <2> QED BY <2>2, <2>3, GoesOn DEF Fit
<1> QED BY <1>1 DEF Fit

\* IndexAny and ReadLine find the first delimiter: no loss lies before it.
LEMMA FindsFirst ==
  ASSUME TInv, NEW s \in Sides, NEW delims, Finds(s, delims)
  PROVE  /\ Next1(s, delims) \in Hits(s, delims)
         /\ \A q \in Hits(s, delims) : Next1(s, delims) <= q
         /\ Next1(s, delims) \in Nat /\ reader[s].rd < Next1(s, delims)
         /\ Next1(s, delims) <= reader[s].sent /\ Next1(s, delims) <= wire[s]
         /\ Next1(s, delims) \in DOMAIN said[s] /\ said[s][Next1(s, delims)].delim \in delims
         /\ \A q \in reader[s].lost : q > Next1(s, delims)
         /\ ~reader[s].eofSource /\ ~reader[s].err
<1>1. reader[s] \in Reader /\ reader[s].sent <= wire[s] /\ wire[s] <= Len(said[s])
      /\ wire[s] \in Nat
  BY DEF TInv, Sound
<1>2. Hits(s, delims) # {} /\ ~reader[s].eofSource /\ ~reader[s].err
  BY DEF Finds
<1>3. Hits(s, delims) \in SUBSET Nat
  BY <1>1 DEF Hits, Buffered, Reader
<1>4. \E p \in Hits(s, delims) : \A q \in Hits(s, delims) : p <= q
  BY <1>2, <1>3, Smallest
<1>5. Next1(s, delims) \in Hits(s, delims) /\ \A q \in Hits(s, delims) : Next1(s, delims) <= q
  BY <1>4 DEF Next1
<1>6. /\ Next1(s, delims) \in (reader[s].rd + 1)..reader[s].sent
      /\ said[s][Next1(s, delims)].delim \in delims
      /\ \A q \in reader[s].lost : q > Next1(s, delims)
  BY <1>5 DEF Hits, Buffered, Text
<1>7. Next1(s, delims) \in 1..Len(said[s]) /\ reader[s].rd < Next1(s, delims)
      /\ Next1(s, delims) <= reader[s].sent /\ Next1(s, delims) <= wire[s]
  BY <1>1, <1>6 DEF Reader
<1>8. DOMAIN said[s] = 1..Len(said[s])
  BY DEF TInv, Typed
<1> QED BY <1>2, <1>3, <1>5, <1>6, <1>7, <1>8

\* The reader behind the delimiter found.
LEMMA PastIsSound ==
  ASSUME TInv, NEW s \in Sides, NEW delims, Finds(s, delims)
  PROVE  Sound(Past(s, delims), wire[s]) /\ Goes(reader[s], Past(s, delims))
<1>1. reader[s] \in Reader /\ Sound(reader[s], wire[s]) /\ wire[s] \in Nat
  BY DEF TInv
<1> DEFINE q == Next1(s, delims)
<1>2. q \in Nat /\ reader[s].rd <= q /\ \A p \in reader[s].lost : p > q
  BY <1>1, FindsFirst DEF Reader
<1>3. Past(s, delims) = Moved(reader[s], q)
  BY <1>1, <1>2 DEF Past, Moved, Reader
<1> HIDE DEF q
<1> QED BY <1>1, <1>2, <1>3, MovedIsSound

\* They may with one moved behind the delimiter it found.
LEMMA FitPast ==
  ASSUME TInv, NEW rs, Fit(rs), NEW s \in Sides, rs[s] = reader[s], NEW delims, Finds(s, delims)
  PROVE  Fit([rs EXCEPT ![s] = Past(s, delims)])
  BY PastIsSound, FitExcept

\* The text read is a sequence of units, and the last one carries the delimiter.
LEMMA TakenUnits ==
  ASSUME TInv, NEW s \in Sides, NEW delims, Finds(s, delims)
  PROVE  /\ Taken(s, delims) \in Seq(Unit)
         /\ Last(Taken(s, delims)) = said[s][Next1(s, delims)]
         /\ Last(Taken(s, delims)) \in Unit /\ Last(Taken(s, delims)).delim \in delims
<1> DEFINE q == Next1(s, delims)
           a == reader[s].rd + 1
<1>1. a \in Nat /\ q \in Nat /\ a <= q /\ q \in 1..Len(said[s]) /\ 1 <= a
  BY FindsFirst, SMTT(30) DEF TInv, Reader, Typed
<1>2. said[s] \in Seq(Unit)
  BY DEF TInv, Typed
<1>3. \A i \in a..q : said[s][i] \in Unit
  BY <1>1, <1>2
<1>4. Taken(s, delims) = SubSeq(said[s], a, q)
  BY DEF Taken, Text
<1>5. said[s][q].delim \in delims /\ said[s][q] \in Unit
  BY <1>1, <1>2, FindsFirst
<1> HIDE DEF a, q
<1>6. /\ SubSeq(said[s], a, q) \in Seq(Unit)
      /\ Len(SubSeq(said[s], a, q)) = q - a + 1
      /\ SubSeq(said[s], a, q)[q - a + 1] = said[s][a + (q - a + 1) - 1]
  <2>1. q - a + 1 \in 1..(q - a + 1) /\ a \in Int /\ q \in Int
    BY <1>1
  <2> QED BY <1>1, <1>3, <2>1, SubSeqProperties
<1>7. a + (q - a + 1) - 1 = q
  BY <1>1
<1>8. Last(Taken(s, delims)) = said[s][q]
  BY <1>4, <1>6, <1>7 DEF Last
<1> QED BY <1>4, <1>5, <1>6, <1>8 DEF q

\* The end of Run, or the call of the next state function.
LEMMA ReturnTypes ==
  ASSUME TInv, NEW rs, Fit(rs), NEW err, Return(err, rs)
  PROVE  Fit(reader') /\ state' \in States /\ running' = FALSE
         /\ (state' = state \/ state' = "readCommand")
<1>1. Fit([s \in Sides |-> Reset(rs[s])])
  BY FitReset
<1> QED BY <1>1 DEF Return, TInv, States

\* A state function that returns nil leaves the readers it was given.
LEMMA ContinueTypes ==
  ASSUME NEW rs, Fit(rs), NEW next \in States, Continue(next, rs)
  PROVE  Fit(reader') /\ state' = next /\ running' = TRUE
  BY DEF Continue

\* A command has one of three handlers, or none.
LEMMA CommandStates ==
  ASSUME NEW word
  PROVE  CommandState(word) \in {"handleGet", "handleSet", "handleQuit", "nil"}
  BY DEF CommandState

\* AddEvent puts the event behind all others, whether it flushes or not.
LEMMA AddEventAppends ==
  ASSUME TInv, NEW e \in Nat, AddEvent(e)
  PROVE  /\ eventBuf' \in Seq(Nat) /\ handled' \in Seq(Nat) /\ Len(eventBuf') < EventCap
         /\ events' = Append(events, e)
<1>1. eventBuf \in Seq(Nat) /\ handled \in Seq(Nat) /\ Len(eventBuf) < EventCap
      /\ EventCap \in Nat \ {0}
  BY ConsumerAssumption DEF TInv
<1>2. Append(eventBuf, e) \in Seq(Nat) /\ Len(Append(eventBuf, e)) = Len(eventBuf) + 1
  BY <1>1
<1>3. handled \o Append(eventBuf, e) = Append(handled \o eventBuf, e)
  BY <1>1, <1>2
<1>4. CASE Len(eventBuf) + 1 = EventCap
  <2>1. handled' = handled \o Append(eventBuf, e) /\ eventBuf' = <<>>
    BY <1>4 DEF AddEvent
  <2>2. handled' \in Seq(Nat) /\ eventBuf' \in Seq(Nat) /\ Len(eventBuf') = 0
    BY <1>1, <1>2, <2>1
  <2>3. handled' \o eventBuf' = handled'
    BY <2>1, <2>2, ConcatEmptySeq
  <2> QED BY <1>1, <1>3, <2>1, <2>2, <2>3 DEF events
<1>5. CASE Len(eventBuf) + 1 # EventCap
  <2>1. handled' = handled /\ eventBuf' = Append(eventBuf, e)
    BY <1>5 DEF AddEvent
  <2> QED BY <1>1, <1>2, <1>3, <1>5, <2>1, SMTT(30) DEF events
<1> QED BY <1>4, <1>5

\* What a step of Run may do with the events: one is added, for the line that
\* the server's reader stood before and now stands behind.
Reports ==
  /\ eventBuf' \in Seq(Nat) /\ handled' \in Seq(Nat) /\ Len(eventBuf') < EventCap
  /\ \/ UNCHANGED <<eventBuf, handled>>
     \/ /\ events' = Append(events, reader["server"].rd + 1)
        /\ reader["server"].rd + 1 <= reader'["server"].rd
        /\ reader["server"].rd + 1 <= reader'["server"].sent

StepTypes ==
  /\ Fit(reader') /\ state' \in States /\ running' \in BOOLEAN
  /\ cmd' \in [at : Nat, word : Words] /\ args' \in Seq(Arg) /\ Reports
  /\ state' = "readArgs" => CommandState(cmd'.word) # "nil"

\* A step that leaves the events alone reports nothing.
LEMMA SameEvents ==
  ASSUME TInv, UNCHANGED <<eventBuf, handled>>
  PROVE  Reports
  BY DEF TInv, Reports

\* peekMagicByte keeps the types.
LEMMA PeekMagicByteTypes ==
  ASSUME TInv, PeekMagicByte PROVE StepTypes
<1>1. Reports /\ cmd' = cmd /\ args' = args
  BY SameEvents DEF PeekMagicByte
<1>2. Fit(ServerTruncated)
  BY FitTruncated
<1>3. Fit([ServerTruncated EXCEPT !["client"] = Truncated(@)])
  <2>1. "client" \in Sides /\ ServerTruncated \in [Sides -> Reader] /\ wire["client"] \in Nat
        /\ Sound(ServerTruncated["client"], wire["client"])
    BY <1>2 DEF Fit, Sides, TInv
  <2> QED BY <1>2, <2>1, FitExcept, EmptiedIsSound
<1>4. Fit([s \in Sides |-> Retired(reader[s])])
  <2>1. ASSUME NEW s \in Sides
        PROVE  Sound(Retired(reader[s]), wire[s]) /\ Goes(reader[s], Retired(reader[s]))
               /\ Retired(reader[s]) \in Reader
    <3>1. wire[s] \in Nat /\ Sound(reader[s], wire[s])
      BY DEF TInv
    <3> QED BY <3>1, EmptiedIsSound DEF Sound
  <2> QED BY <2>1 DEF Fit
<1>5. Fit(reader') /\ state' \in States /\ running' \in BOOLEAN /\ state' # "readArgs"
  <2>1. CASE \E err, rs : Fit(rs) /\ Return(err, rs)
    BY <2>1, ReturnTypes DEF PeekMagicByte, In
  <2>2. CASE Continue("readCommand", ServerTruncated)
    BY <1>2, <2>2, ContinueTypes DEF States
  <2>3. CASE reader' = [s \in Sides |-> Retired(reader[s])] /\ running' = FALSE /\ state' = "closed"
    BY <1>4, <2>3 DEF States
  <2> QED BY <1>2, <1>3, <2>1, <2>2, <2>3 DEF PeekMagicByte
<1> QED BY <1>1, <1>5 DEF StepTypes, TInv

\* readCommand keeps the types.
LEMMA ReadCommandTypes ==
  ASSUME TInv, ReadCommand PROVE StepTypes
<1>1. Reports /\ args' = <<>> /\ args' \in Seq(Arg)
  BY SameEvents DEF ReadCommand
<1>2. Fit(ServerTruncated) /\ "client" \in Sides /\ ServerTruncated["client"] = reader["client"]
  BY FitTruncated DEF ServerTruncated, Sides, TInv
<1>3. CASE ~Finds("client", WordEnd)
  <2>1. Return(Failure("client"), ServerTruncated) /\ cmd' = cmd /\ state = "readCommand"
    BY <1>3 DEF ReadCommand, In
  <2> QED BY <1>1, <1>2, <2>1, ReturnTypes DEF StepTypes, TInv
<1>4. CASE Finds("client", WordEnd)
  <2> DEFINE rs == [ServerTruncated EXCEPT !["client"] = Past("client", WordEnd)]
             word == Word(Taken("client", WordEnd))
  <2>1. Fit(rs)
    BY <1>2, <1>4, FitPast
  <2>2. word \in Words /\ reader["client"].rd + 1 \in Nat
    BY <1>2, <1>4, TakenUnits DEF Words, TInv, Reader
  <2>3. cmd' = [at |-> reader["client"].rd + 1, word |-> word]
    BY <1>4 DEF ReadCommand
  <2>4. Return("desync", rs) \/ Continue("readArgs", rs) \/ Continue("handleUnknown", rs)
    BY <1>4 DEF ReadCommand
  <2>5. Fit(reader') /\ state' \in States /\ running' \in BOOLEAN
        /\ (state' = "readArgs" => Continue("readArgs", rs))
    <3>1. state = "readCommand"
      BY DEF ReadCommand, In
    <3> HIDE DEF rs
    <3> QED BY <2>1, <2>4, <3>1, ReturnTypes, ContinueTypes DEF States
  <2>6. state' = "readArgs" => CommandState(word) # "nil"
    BY <1>4, <2>5 DEF ReadCommand, Continue, Return
  <2> HIDE DEF word
  <2> QED BY <1>1, <2>2, <2>3, <2>5, <2>6 DEF StepTypes
<1> QED BY <1>3, <1>4

\* readArgs keeps the types.
LEMMA ReadArgsTypes ==
  ASSUME TInv, ReadArgs PROVE StepTypes
<1>1. Reports /\ cmd' = cmd
  BY SameEvents DEF ReadArgs
<1>2. Fit(ServerTruncated) /\ "client" \in Sides /\ ServerTruncated["client"] = reader["client"]
  BY FitTruncated DEF ServerTruncated, Sides, TInv
<1>3. CASE ~Finds("client", WordEnd)
  <2>1. Return(Failure("client"), ServerTruncated) /\ args' = args
    BY <1>3 DEF ReadArgs
  <2> QED BY <1>1, <1>2, <2>1, ReturnTypes DEF StepTypes, TInv
<1>4. CASE Finds("client", WordEnd)
  <2> DEFINE rs == [ServerTruncated EXCEPT !["client"] = Past("client", WordEnd)]
             units == Taken("client", WordEnd)
             arg == [word |-> Word(units), size |-> Last(units).size]
  <2>1. Fit(rs)
    BY <1>2, <1>4, FitPast
  <2>2. arg \in Arg
    <3>1. units \in Seq(Unit) /\ Last(units) \in Unit
      BY <1>2, <1>4, TakenUnits
    <3> HIDE DEF units
    <3> QED BY <3>1 DEF Words, Arg, Unit
  <2>3. args' = Append(args, arg)
    BY <1>4 DEF ReadArgs
  <2>4. args' \in Seq(Arg)
    <3> HIDE DEF arg
    <3> QED BY <2>2, <2>3 DEF TInv
  <2>5. Continue("readArgs", rs) \/ Continue(CommandState(cmd.word), rs)
    BY <1>4 DEF ReadArgs
  <2>6. CommandState(cmd.word) \in States /\ CommandState(cmd.word) # "nil"
    BY CommandStates DEF States, ReadArgs, In, TInv
  <2>7. Fit(reader') /\ state' \in States /\ running' \in BOOLEAN
    <3> HIDE DEF rs
    <3> QED BY <2>1, <2>5, <2>6, ContinueTypes DEF States
  <2> QED BY <1>1, <2>4, <2>6, <2>7 DEF StepTypes, TInv
<1> QED BY <1>3, <1>4

\* handleGet keeps the types, and reports a line it then stands behind.
LEMMA HandleGetTypes ==
  ASSUME TInv, HandleGet PROVE StepTypes
<1> DEFINE units == Taken("server", LineEnd)
           past == Past("server", LineEnd)
           to == Discarded(past, Last(units).size + 1)
           rs(r) == [reader EXCEPT !["server"] = r]
<1>1. cmd' = cmd /\ args' = args /\ state = "handleGet" /\ "server" \in Sides
      /\ Fit(reader)
  BY FitReader DEF HandleGet, In, Sides
<1>2. CASE ~Finds("server", LineEnd)
  <2>1. UNCHANGED <<eventBuf, handled>> /\ Return(Failure("server"), reader)
    BY <1>2 DEF HandleGet
  <2> QED BY <1>1, <2>1, SameEvents, ReturnTypes DEF StepTypes, TInv
<1>3. CASE Finds("server", LineEnd)
  <2>1. Fit(rs(past)) /\ Sound(past, wire["server"]) /\ Goes(reader["server"], past)
    BY <1>1, <1>3, FitPast, PastIsSound
  <2>2. \/ /\ AddEvent(reader["server"].rd + 1)
           /\ Continue("handleGet", rs(to))
        \/ /\ UNCHANGED <<eventBuf, handled>>
           /\ Return("Atoi", rs(past)) \/ Continue("readCommand", rs(past))
    BY <1>3 DEF HandleGet
  <2>3. CASE UNCHANGED <<eventBuf, handled>> /\ Return("Atoi", rs(past))
    <3> HIDE DEF rs
    <3> QED BY <1>1, <2>1, <2>3, SameEvents, ReturnTypes DEF StepTypes, TInv
  <2>4. CASE UNCHANGED <<eventBuf, handled>> /\ Continue("readCommand", rs(past))
    <3>1. "readCommand" \in States
      BY DEF States
    <3> HIDE DEF rs
    <3> QED BY <1>1, <2>1, <2>4, <3>1, SameEvents, ContinueTypes DEF StepTypes, TInv
  <2>5. CASE AddEvent(reader["server"].rd + 1) /\ Continue("handleGet", rs(to))
    <3>1. Last(units).size + 1 \in Nat
      <4>1. Last(units) \in Unit
        BY <1>1, <1>3, TakenUnits
      <4> HIDE DEF units
      <4> QED BY <4>1 DEF Unit
    <3>2. wire["server"] \in Nat /\ reader["server"] \in Reader /\ reader["server"].rd + 1 \in Nat
      BY <1>1 DEF TInv, Reader
    <3>3. Sound(to, wire["server"]) /\ Goes(past, to)
      <4> HIDE DEF past, units
      <4> QED BY <2>1, <3>1, <3>2, DiscardedIsSound
    <3>4. past \in Reader /\ to \in Reader
      <4> HIDE DEF past, to
      <4> QED BY <2>1, <3>3 DEF Sound
    <3>5. Goes(reader["server"], to)
      <4> HIDE DEF past, to
      <4> QED BY <2>1, <3>2, <3>3, <3>4, GoesOn
    <3>6. Fit(rs(to))
      <4> HIDE DEF to
      <4> QED BY <1>1, <3>3, <3>5, FitExcept
    <3>7. Fit(reader') /\ state' = "handleGet" /\ running' = TRUE /\ reader' = rs(to)
      <4>1. "handleGet" \in States
        BY DEF States
      <4> HIDE DEF rs, to
      <4> QED BY <2>5, <3>6, <4>1, ContinueTypes DEF Continue
    <3>8. reader'["server"] = to
      <4> HIDE DEF to
      <4> QED BY <3>7, <1>1 DEF TInv
    <3>9. reader["server"].rd + 1 <= past.rd /\ past.rd <= past.sent
          /\ past.rd <= to.rd /\ past.sent = to.sent
      <4>1. past.rd = Next1("server", LineEnd) /\ past.sent = reader["server"].sent
            /\ past.eofSource = reader["server"].eofSource
        BY <3>2 DEF Past, Reader
      <4>2. /\ Next1("server", LineEnd) \in Nat /\ reader["server"].rd < Next1("server", LineEnd)
            /\ Next1("server", LineEnd) <= reader["server"].sent
        BY <1>1, <1>3, FindsFirst
      <4>3. past.rd <= to.rd /\ past.sent = to.sent
        <5> HIDE DEF past, units
        <5> QED BY <3>1, <3>4, DiscardedAdvances
      <4> HIDE DEF past, to
      <4> QED BY <3>2, <4>1, <4>2, <4>3 DEF Reader
    <3>10. Reports
      <4>1. reader["server"].rd + 1 <= to.rd /\ reader["server"].rd + 1 <= to.sent
        <5> HIDE DEF past, to
        <5> QED BY <3>2, <3>4, <3>9 DEF Reader
      <4> HIDE DEF to
      <4> QED BY <2>5, <3>2, <3>8, <4>1, AddEventAppends DEF Reports
    <3> QED BY <1>1, <3>7, <3>10 DEF StepTypes, TInv, States
  <2> QED BY <2>2, <2>3, <2>4, <2>5
<1> QED BY <1>2, <1>3

\* handleSet keeps the types.
LEMMA HandleSetTypes ==
  ASSUME TInv, HandleSet PROVE StepTypes
<1> DEFINE r == reader["client"]
           rs == [reader EXCEPT !["client"] = Discarded(r, args[4].size + 1)]
<1>1. Reports /\ cmd' = cmd /\ args' = args /\ state = "handleSet" /\ Fit(reader)
  BY SameEvents, FitReader DEF HandleSet, In
<1>2. "discardResponse" \in States /\ "client" \in Sides
  BY DEF States, Sides
<1>6. Len(args) \in Nat
  BY DEF TInv
<1>3. CASE Len(args) < 4 \/ (Len(args) >= 4 /\ args[4].word # <<"num">>)
  <2>1. CASE Len(args) < 4
    <3>1. ~(Len(args) >= 4)
      BY <1>6, <2>1
    <3>2. Continue("discardResponse", reader)
      BY <2>1, <3>1 DEF HandleSet, Discard
    <3> QED BY <1>1, <1>2, <3>2, ContinueTypes DEF StepTypes, TInv
  <2>2. CASE Len(args) >= 4 /\ args[4].word # <<"num">>
    <3>1. ~(Len(args) < 4)
      BY <1>6, <2>2
    <3>2. Continue("discardResponse", reader)
      BY <2>2, <3>1 DEF HandleSet, Discard
    <3> QED BY <1>1, <1>2, <3>2, ContinueTypes DEF StepTypes, TInv
  <2> QED BY <1>3, <2>1, <2>2
<1>4. CASE Len(args) >= 4 /\ args[4].word = <<"num">> /\ r.err
  <2>1. Return("write", reader)
    BY <1>4 DEF HandleSet, TInv
  <2> QED BY <1>1, <2>1, ReturnTypes DEF StepTypes, TInv
<1>5. CASE Len(args) >= 4 /\ args[4].word = <<"num">> /\ ~r.err
  <2>1. args[4] \in Arg
    BY <1>5 DEF TInv
  <2>2. args[4].size + 1 \in Nat
    BY <2>1 DEF Arg
  <2>3. Sound(r, wire["client"]) /\ wire["client"] \in Nat
    BY <1>2 DEF TInv
  <2>4. Fit(rs)
    BY <1>1, <1>2, <2>2, <2>3, DiscardedIsSound, FitExcept
  <2>5. Continue("discardResponse", rs)
    BY <1>5 DEF HandleSet, Discard, TInv
  <2> HIDE DEF rs
  <2> QED BY <1>1, <1>2, <2>4, <2>5, ContinueTypes DEF StepTypes, TInv
<1> QED BY <1>3, <1>4, <1>5, <1>6

\* handleUnknown, discardResponse and handleQuit keep the types.
LEMMA OtherStepTypes ==
  ASSUME TInv, HandleUnknown \/ DiscardResponse \/ HandleQuit PROVE StepTypes
<1>1. Reports /\ cmd' = cmd /\ args' = args /\ state # "readArgs" /\ Fit(reader)
  BY SameEvents, FitReader DEF HandleUnknown, DiscardResponse, HandleQuit, In
<1>2. {"discardResponse", "readCommand", "quit"} \subseteq States /\ "server" \in Sides
  BY DEF States, Sides
<1>3. CASE HandleUnknown
  <2>1. Continue("discardResponse", reader)
    BY <1>3 DEF HandleUnknown, Discard
  <2> QED BY <1>1, <1>2, <2>1, ContinueTypes DEF StepTypes, TInv
<1>4. CASE DiscardResponse /\ ~Finds("server", LineEnd)
  <2>1. Return(Failure("server"), reader)
    BY <1>4 DEF DiscardResponse
  <2> QED BY <1>1, <2>1, ReturnTypes DEF StepTypes, TInv
<1>5. CASE DiscardResponse /\ Finds("server", LineEnd)
  <2> DEFINE rs == [reader EXCEPT !["server"] = Past("server", LineEnd)]
  <2>1. Fit(rs) /\ Continue("readCommand", rs)
    BY <1>1, <1>2, <1>5, FitPast DEF DiscardResponse
  <2> HIDE DEF rs
  <2> QED BY <1>1, <1>2, <2>1, ContinueTypes DEF StepTypes, TInv
<1>6. CASE HandleQuit
  <2>1. ASSUME NEW s \in Sides
        PROVE  Sound(Closed(reader[s]), wire[s]) /\ Goes(reader[s], Closed(reader[s]))
               /\ Closed(reader[s]) \in Reader
    <3>1. wire[s] \in Nat /\ Sound(reader[s], wire[s])
      BY DEF TInv
    <3> QED BY <3>1, EmptiedIsSound DEF Sound
  <2>2. Fit([s \in Sides |-> Closed(reader[s])])
    BY <2>1 DEF Fit
  <2> QED BY <1>1, <1>2, <1>6, <2>2 DEF HandleQuit, StepTypes, TInv
<1> QED BY <1>3, <1>4, <1>5, <1>6

\* Every state function keeps the types and leaves the network alone.
LEMMA StepHasTypes ==
  ASSUME TInv, Step PROVE StepTypes /\ UNCHANGED network
<1>1. StepTypes
  BY PeekMagicByteTypes, ReadCommandTypes, ReadArgsTypes, HandleGetTypes, HandleSetTypes,
     OtherStepTypes DEF Step
<1>2. UNCHANGED network
  BY DEF Step, PeekMagicByte, ReadCommand, ReadArgs, HandleGet, HandleSet, HandleUnknown,
         DiscardResponse, HandleQuit, In
<1> QED BY <1>1, <1>2

\* A step of Run keeps the types: the network stands still meanwhile.
LEMMA StepKeepsTypes ==
  ASSUME TInv, Step PROVE TInv'
<1>1. StepTypes /\ said' = said /\ wire' = wire /\ harmed' = harmed /\ ended' = ended
  BY StepHasTypes DEF network
<1>2. \A s \in Sides : Sound(reader'[s], wire'[s])
  BY <1>1 DEF StepTypes, Fit
<1>3. reader' \in [Sides -> Reader]
  BY <1>1 DEF StepTypes, Fit
<1> QED BY <1>1, <1>2, <1>3 DEF TInv, StepTypes, Reports

\* What a packet may not change, and whose units it holds.
LEMMA CrossesTypes ==
  ASSUME TInv, NEW s \in Sides, NEW n \in Nat, Crosses(s, n)
  PROVE  /\ wire' \in [Sides -> Nat] /\ wire'[s] = wire[s] + n
         /\ wire[s] + n \in Nat /\ wire[s] + n <= Len(said[s])
         /\ \A t \in Sides \ {s} : wire'[t] = wire[t]
         /\ Owners(s, n) \subseteq Requests(said)
<1>1. wire' = [wire EXCEPT ![s] = @ + n] /\ wire[s] + n <= Len(said[s])
  BY DEF Crosses, Text
<1>2. wire[s] \in Nat /\ wire \in [Sides -> Nat] /\ wire[s] + n \in Nat
  BY DEF TInv
<1>3. \A p \in (wire[s] + 1)..(wire[s] + n) : p \in DOMAIN said[s]
  <2>1. DOMAIN said[s] = 1..Len(said[s])
    BY DEF TInv, Typed
  <2> QED BY <1>1, <1>2, <2>1 DEF TInv, Typed
<1>4. \A p \in DOMAIN said[s] : said[s][p].request \in Requests(said)
  BY DEF TInv, Typed, Requests, Sides
<1>5. Owners(s, n) \subseteq Requests(said)
  BY <1>3, <1>4 DEF Owners, Owner
<1> QED BY <1>1, <1>2, <1>5

\* A packet keeps the types, and no reader goes back.
LEMMA ReassembledTypes ==
  ASSUME TInv, NEW s \in Sides, NEW n \in Nat, Reassembled(s, n)
  PROVE  /\ TInv' /\ UNCHANGED <<eventBuf, handled>>
         /\ \A t \in Sides : Goes(reader[t], reader'[t])
<1>1. /\ wire' \in [Sides -> Nat] /\ wire'[s] = wire[s] + n
      /\ wire[s] + n \in Nat /\ wire[s] + n <= Len(said[s])
      /\ \A t \in Sides \ {s} : wire'[t] = wire[t]
      /\ Owners(s, n) \subseteq Requests(said)
  BY CrossesTypes DEF Reassembled
<1>2. UNCHANGED <<said, lostPackets, ended, state, cmd, args, eventBuf, handled>>
  BY DEF Reassembled
<1>3. wire[s] \in Nat /\ Sound(reader[s], wire[s])
  BY DEF TInv
<1> DEFINE r == Received(reader[s], wire[s], n)
<1>4. Sound(r, wire[s] + n) /\ Goes(reader[s], r) /\ r \in Reader
  BY <1>3, ReceivedIsSound DEF Sound
<1>5. reader' = [reader EXCEPT ![s] = r]
  BY DEF Reassembled
<1> HIDE DEF r
<1>6. reader' \in [Sides -> Reader] /\ \A t \in Sides : Sound(reader'[t], wire'[t])
  BY <1>1, <1>4, <1>5 DEF TInv
<1>7. \A t \in Sides : Goes(reader[t], reader'[t])
  <2>1. \A t \in Sides : Goes(reader[t], reader[t])
    BY FitReader DEF Fit
  <2> QED BY <1>4, <1>5, <2>1 DEF TInv
<1>8. harmed' \subseteq Requests(said)
  BY <1>1 DEF Reassembled, TInv
<1>9. running' \in BOOLEAN
  BY DEF Reassembled
<1>10. \A t \in Sides : wire'[t] <= Len(said'[t])
  BY <1>1, <1>2 DEF TInv
<1>11. TInv'
  BY <1>1, <1>2, <1>6, <1>8, <1>9, <1>10 DEF TInv
<1> QED BY <1>2, <1>7, <1>11

\* A packet that is lost keeps the types.
LEMMA LoseTypes ==
  ASSUME TInv, NEW s \in Sides, NEW n \in Nat, Lose(s, n)
  PROVE  TInv' /\ UNCHANGED <<reader, eventBuf, handled>>
<1>1. /\ wire' \in [Sides -> Nat] /\ wire'[s] = wire[s] + n
      /\ wire[s] + n \in Nat /\ wire[s] + n <= Len(said[s])
      /\ \A t \in Sides \ {s} : wire'[t] = wire[t]
      /\ Owners(s, n) \subseteq Requests(said)
  BY CrossesTypes DEF Lose
<1>2. UNCHANGED <<said, reader, ended, state, running, cmd, args, eventBuf, handled>>
      /\ harmed' = harmed \cup Owners(s, n)
  BY DEF Lose
<1>3. ASSUME NEW t \in Sides PROVE wire[t] \in Nat /\ wire[t] <= wire'[t]
  <2>1. wire[t] \in Nat /\ wire[s] \in Nat /\ wire[s] <= wire[s] + n
    BY DEF TInv
  <2>2. CASE t = s
    BY <1>1, <2>1, <2>2
  <2>3. CASE t # s
    <3>1. wire'[t] = wire[t]
      BY <1>1, <2>3
    <3> QED BY <2>1, <3>1
  <2> QED BY <2>2, <2>3
<1>4. ASSUME NEW t \in Sides PROVE Sound(reader'[t], wire'[t])
  <2>1. Sound(reader[t], wire[t]) /\ wire'[t] \in Nat
    BY <1>1 DEF TInv
  <2> QED BY <1>2, <1>3, <2>1 DEF Sound, Reader
<1>5. \A t \in Sides : wire'[t] <= Len(said'[t])
  BY <1>1, <1>2 DEF TInv
<1> QED BY <1>1, <1>2, <1>4, <1>5 DEF TInv

\* The end of a stream keeps the types and the events, and no reader goes back.
LEMMA CompleteTypes ==
  ASSUME TInv, NEW s \in Sides, ReassemblyComplete(s)
  PROVE  /\ TInv' /\ events' = events
         /\ \A t \in Sides : Goes(reader[t], reader'[t])
<1>1. UNCHANGED <<said, wire, lostPackets, harmed, state, running, cmd, args>>
      /\ ended' = ended \cup {s} /\ handled' = handled \o eventBuf /\ eventBuf' = <<>>
      /\ reader' = [reader EXCEPT ![s] = Retired(reader[s])]
  BY DEF ReassemblyComplete
<1>2. eventBuf \in Seq(Nat) /\ handled \in Seq(Nat) /\ handled \o eventBuf \in Seq(Nat)
  BY DEF TInv
<1>3. eventBuf' \in Seq(Nat) /\ handled' \in Seq(Nat) /\ Len(eventBuf') < EventCap
  BY <1>1, <1>2, ConsumerAssumption
<1>4. events' = events
  BY <1>1, <1>2, ConcatEmptySeq DEF events
<1>5. wire[s] \in Nat /\ Sound(reader[s], wire[s])
  BY DEF TInv
<1>6. Fit(reader')
  BY <1>1, <1>5, FitReader, FitExcept, EmptiedIsSound
<1>7. reader' \in [Sides -> Reader] /\ \A t \in Sides : Sound(reader'[t], wire'[t])
  BY <1>1, <1>6 DEF Fit
<1>8. TInv'
  BY <1>1, <1>3, <1>7 DEF TInv
<1> QED BY <1>4, <1>6, <1>8 DEF Fit

\* The types hold initially, and nothing has been reported.
LEMMA InitHasTypes ==
  ASSUME \A c \in Conversations : Typed(c), Init
  PROVE  TInv /\ events = <<>>
<1>1. Typed(said)
  BY DEF Init
<1>2. NewReader \in Reader /\ NewReader.rd = 0 /\ NewReader.sent = 0 /\ NewReader.lost = {}
  BY DEF NewReader, Reader
<1>3. Sound(NewReader, 0)
  BY <1>2, NothingBuffered DEF Sound
<1>4. \A s \in Sides : Len(said[s]) \in Nat
  BY <1>1 DEF Typed
<1>7. eventBuf = <<>> /\ handled = <<>> /\ Len(<<>>) = 0 /\ 0 < EventCap
  BY ConsumerAssumption DEF Init
<1>8. cmd \in [at : Nat, word : Words] /\ args \in Seq(Arg)
  BY DEF Init, Words
<1>9. events = <<>>
  BY <1>7 DEF events
<1>10. wire \in [Sides -> Nat] /\ reader \in [Sides -> Reader]
       /\ \A s \in Sides : wire[s] = 0 /\ reader[s] = NewReader
  BY <1>2 DEF Init
<1>11. \A s \in Sides : wire[s] <= Len(said[s]) /\ Sound(reader[s], wire[s])
  BY <1>3, <1>4, <1>10
<1>12. harmed \subseteq Requests(said) /\ ended \subseteq Sides /\ state \in States
       /\ running \in BOOLEAN /\ state # "readArgs"
  BY DEF Init, States
<1>13. eventBuf \in Seq(Nat) /\ handled \in Seq(Nat) /\ Len(eventBuf) < EventCap
  BY <1>7
<1> QED BY <1>1, <1>8, <1>9, <1>10, <1>11, <1>12, <1>13 DEF TInv

-----------------------------------------------------------------------------
(* The order of the events.                                                *)

\* The events ev increase and lie behind the reader r.
AllBehind(ev, r) ==
  /\ \A i, j \in DOMAIN ev : i < j => ev[i] < ev[j]
  /\ \A i \in DOMAIN ev : ev[i] <= r.rd /\ ev[i] <= r.sent

\* Events stay behind a reader that goes on.
LEMMA StillBehind ==
  ASSUME NEW ev \in Seq(Nat), NEW r \in Reader, NEW t \in Reader, AllBehind(ev, r), Goes(r, t)
  PROVE  AllBehind(ev, t)
<1>1. \A i \in DOMAIN ev : ev[i] \in Nat
  OBVIOUS
<1> QED BY <1>1 DEF AllBehind, Goes, Reader

\* An event for the line a reader passes comes behind all others.
LEMMA OneMoreBehind ==
  ASSUME NEW ev \in Seq(Nat), NEW r \in Reader, NEW t \in Reader, AllBehind(ev, r), Goes(r, t),
         r.rd + 1 <= t.rd, r.rd + 1 <= t.sent
  PROVE  AllBehind(Append(ev, r.rd + 1), t)
<1> DEFINE e == Append(ev, r.rd + 1)
<1>1. AllBehind(ev, t)
  BY StillBehind
<1>2. r.rd \in Nat /\ t.rd \in Nat /\ t.sent \in Nat
  BY DEF Reader
<1>3. /\ DOMAIN e = 1..(Len(ev) + 1) /\ e[Len(ev) + 1] = r.rd + 1 /\ Len(ev) \in Nat
      /\ \A i \in 1..Len(ev) : e[i] = ev[i] /\ ev[i] \in Nat
  BY <1>2
<1>4. DOMAIN ev = 1..Len(ev)
  OBVIOUS
<1>5. \A i \in 1..Len(ev) : ev[i] <= r.rd
  BY <1>4 DEF AllBehind
<1> HIDE DEF e
<1>6. ASSUME NEW i \in DOMAIN e PROVE e[i] <= t.rd /\ e[i] <= t.sent
  BY <1>1, <1>3, <1>4 DEF AllBehind
<1>7. ASSUME NEW i \in DOMAIN e, NEW j \in DOMAIN e, i < j PROVE e[i] < e[j]
  <2>1. i \in 1..Len(ev)
    BY <1>3, <1>7
  <2>2. CASE j \in 1..Len(ev)
    BY <1>1, <1>3, <1>4, <1>7, <2>1, <2>2 DEF AllBehind
  <2>3. CASE j = Len(ev) + 1
    BY <1>2, <1>3, <1>5, <2>1, <2>3
  <2> QED BY <1>3, <2>2, <2>3
<1> QED BY <1>6, <1>7 DEF AllBehind, e

OInv == TInv /\ AllBehind(events, reader["server"])

\* The events are positions.
LEMMA EventsType ==
  ASSUME TInv PROVE events \in Seq(Nat) /\ reader["server"] \in Reader /\ "server" \in Sides
  BY DEF TInv, events, Sides

\* The packets of Next.
LEMMA PacketsAreNat ==
  ASSUME TInv PROVE MaxPacket \in Nat
<1>1. Len(said["client"]) \in Nat /\ Len(said["server"]) \in Nat
  BY DEF TInv, Typed, Sides
<1>2. MaxPacket = Len(said["client"]) + Len(said["server"])
  BY Zenon DEF MaxPacket, Text
<1>3. \A a, b \in Nat : a + b \in Nat
  OBVIOUS
<1> QED BY ONLY <1>1, <1>2, <1>3, Zenon

\* Every step keeps the events in order, those of a damaged conversation
\* included.
LEMMA OInvStep ==
  ASSUME OInv, [Next]_vars PROVE OInv'
<1>1. TInv /\ AllBehind(events, reader["server"]) /\ events \in Seq(Nat)
      /\ reader["server"] \in Reader /\ "server" \in Sides
  BY EventsType DEF OInv
<1>2. ASSUME TInv', events' = events, Goes(reader["server"], reader'["server"]) PROVE OInv'
  <2>1. reader'["server"] \in Reader
    BY <1>1, <1>2 DEF TInv
  <2>2. AllBehind(events, reader'["server"])
    BY <1>1, <1>2, <2>1, StillBehind
  <2>3. AllBehind(events', reader'["server"])
    BY <1>2, <2>2
  <2> QED BY <1>2, <2>3 DEF OInv
<1>3. CASE UNCHANGED vars
  <2>1. TInv'
    BY <1>1, <1>3 DEF TInv, vars
  <2>2. events' = events /\ reader' = reader
    BY <1>3 DEF vars, events
  <2> QED BY <1>1, <1>2, <2>1, <2>2 DEF Goes, Reader
<1>4. CASE Step
  <2>1. TInv' /\ StepTypes
    BY <1>1, <1>4, StepKeepsTypes, StepHasTypes
  <2>2. Goes(reader["server"], reader'["server"]) /\ reader'["server"] \in Reader
    BY <1>1, <2>1 DEF StepTypes, Fit
  <2>3. CASE UNCHANGED <<eventBuf, handled>>
    <3>1. events' = events
      BY <2>3 DEF events
    <3> QED BY <1>2, <2>1, <2>2, <3>1
  <2>4. CASE /\ events' = Append(events, reader["server"].rd + 1)
             /\ reader["server"].rd + 1 <= reader'["server"].rd
             /\ reader["server"].rd + 1 <= reader'["server"].sent
    <3>1. AllBehind(Append(events, reader["server"].rd + 1), reader'["server"])
      BY <1>1, <2>2, <2>4, OneMoreBehind
    <3> QED BY <2>1, <2>4, <3>1 DEF OInv
  <2> QED BY <2>1, <2>3, <2>4 DEF StepTypes, Reports
<1>5. MaxPacket \in Nat
  BY <1>1, PacketsAreNat
<1>6. ASSUME NEW s \in Sides, NEW n \in 0..MaxPacket, Reassembled(s, n) PROVE OInv'
  <2>1. TInv' /\ UNCHANGED <<eventBuf, handled>> /\ Goes(reader["server"], reader'["server"])
    BY <1>1, <1>5, <1>6, ReassembledTypes
  <2>2. events' = events
    BY <2>1 DEF events
  <2> QED BY <1>2, <2>1, <2>2
<1>7. ASSUME NEW s \in Sides, NEW n \in 0..MaxPacket, Lose(s, n) PROVE OInv'
  <2>1. TInv' /\ UNCHANGED <<reader, eventBuf, handled>>
    BY <1>1, <1>5, <1>7, LoseTypes
  <2>2. events' = events /\ Goes(reader["server"], reader["server"])
    BY <1>1, <2>1 DEF events, Goes, Reader
  <2> QED BY <1>2, <2>1, <2>2
<1>8. ASSUME NEW s \in Sides, ReassemblyComplete(s) PROVE OInv'
  BY <1>1, <1>2, <1>8, CompleteTypes
<1> QED BY <1>3, <1>4, <1>6, <1>7, <1>8 DEF Next

\* They are in order throughout.
LEMMA OInvHolds ==
  ASSUME \A c \in Conversations : Typed(c)
  PROVE  Spec => []OInv
<1>1. Init => OInv
  BY InitHasTypes DEF OInv, AllBehind
<1>2. OInv /\ [Next]_vars => OInv'
  BY OInvStep
<1> QED BY <1>1, <1>2, PTL DEF Spec

\* Types: the readers stay within what has crossed the network and within
\* their capacity, and eventBuf is never full when a state function returns.
THEOREM ConsumerTypes ==
  ASSUME \A c \in Conversations : Typed(c)
  PROVE  Spec => []TypeOK
<1>1. OInv => TypeOK
  <2>1. RequestIds = Requests(said)
    BY DEF RequestIds, Requests, Owner
  <2> QED BY <2>1 DEF OInv, TInv, TypeOK, Sound, States, Text
<1> QED BY <1>1, OInvHolds, PTL

\* No VALUE line is reported twice or out of order, whatever the two sides
\* say, however it is cut, and whatever is lost.
THEOREM EventsOnceInOrder ==
  ASSUME \A c \in Conversations : Typed(c)
  PROVE  Spec => []OnceInOrder
<1>1. OInv => OnceInOrder
  BY DEF OInv, AllBehind, OnceInOrder
<1> QED BY <1>1, OInvHolds, PTL

-----------------------------------------------------------------------------
(* Where requests and replies end.                                         *)

\* The units of a typed conversation.
LEMMA UnitsTyped ==
  ASSUME NEW c, Typed(c), NEW s \in Sides, NEW p \in 1..Len(c[s])
  PROVE  /\ c[s][p] \in Unit /\ c[s][p].request \in Nat \ {0} /\ c[s][p].size \in Nat
         /\ p \in DOMAIN c[s] /\ p \in Nat
<1>1. c[s] \in Seq(Unit) /\ DOMAIN c[s] = 1..Len(c[s]) /\ Len(c[s]) \in Nat
  BY DEF Typed
<1>2. c[s][p] \in Unit
  BY <1>1
<1>3. \A u \in Unit : u.request \in Nat \ {0} /\ u.size \in Nat
  BY DEF Unit
<1> QED BY <1>1, <1>2, <1>3

\* The end of a request: its units and those of earlier ones are before it.
LEMMA EndIs ==
  ASSUME NEW c, Typed(c), InTurn(c), NEW s \in Sides, NEW i \in Nat
  PROVE  /\ EndOf(c, s, i) \in Nat /\ EndOf(c, s, i) <= Len(c[s])
         /\ \A p \in 1..Len(c[s]) : c[s][p].request <= i <=> p <= EndOf(c, s, i)
<1> DEFINE n == Len(c[s])
           B == {p \in 1..(n + 1) : p = n + 1 \/ c[s][p].request > i}
<1>1. n \in Nat /\ DOMAIN c[s] = 1..n
  BY DEF Typed
<1>2. \A p \in 1..n : c[s][p].request \in Nat
  BY UnitsTyped
<1>3. B \in SUBSET Nat /\ n + 1 \in B
  BY <1>1
<1>4. PICK k \in B : \A j \in B : k <= j
  BY <1>3, Smallest
<1>5. k \in 1..(n + 1) /\ k - 1 \in Nat /\ k - 1 <= n
  BY <1>1, <1>4
<1>6. ASSUME NEW p \in 1..n PROVE c[s][p].request <= i <=> p <= k - 1
  <2>1. CASE p <= k - 1
    <3>1. p \notin B
      BY <1>1, <1>4, <1>5, <2>1
    <3> QED BY <1>1, <1>2, <2>1, <3>1
  <2>2. CASE ~(p <= k - 1)
    <3>1. k <= p /\ k \in 1..n /\ k # n + 1
      BY <1>1, <1>5, <2>2
    <3>2. c[s][k].request > i
      BY <1>4, <3>1
    <3>3. c[s][k].request <= c[s][p].request
      BY <1>1, <3>1 DEF InTurn
    <3> QED BY <1>2, <2>2, <3>1, <3>2, <3>3
  <2> QED BY <2>1, <2>2
<1> HIDE DEF n, B
<1>7. {p \in DOMAIN c[s] : c[s][p].request <= i} = 1..(k - 1)
  BY <1>1, <1>5, <1>6
<1>8. Cardinality(1..(k - 1)) = k - 1
  <2>1. Cardinality(1..(k - 1)) = IF 1 > k - 1 THEN 0 ELSE (k - 1) - 1 + 1
    BY <1>5, FS_Interval
  <2> QED BY <1>5, <2>1
<1>9. EndOf(c, s, i) = k - 1
  BY <1>7, <1>8 DEF EndOf
<1> QED BY <1>5, <1>6, <1>9 DEF n

\* Later requests end later.
LEMMA EndGrows ==
  ASSUME NEW c, Typed(c), InTurn(c), NEW s \in Sides, NEW i \in Nat, NEW j \in Nat, i <= j
  PROVE  EndOf(c, s, i) <= EndOf(c, s, j)
<1> DEFINE e == EndOf(c, s, i)
           f == EndOf(c, s, j)
<1>1. e \in Nat /\ f \in Nat /\ e <= Len(c[s]) /\ Len(c[s]) \in Nat
  BY EndIs DEF Typed
<1>2. CASE e = 0
  BY <1>1, <1>2
<1>3. CASE e # 0
  <2>1. e \in 1..Len(c[s])
    BY <1>1, <1>3
  <2>2. c[s][e].request \in Nat
    BY <2>1, UnitsTyped
  <2>3. e <= e
    BY <1>1
  <2>4. c[s][e].request <= i
    BY <2>1, <2>3, EndIs
  <2>5. c[s][e].request <= j
    BY <2>2, <2>4
  <2> QED BY <2>1, <2>5, EndIs
<1> QED BY <1>2, <1>3

\* Nothing belongs to request 0.
LEMMA EndAtZero ==
  ASSUME NEW c, Typed(c), InTurn(c), NEW s \in Sides
  PROVE  EndOf(c, s, 0) = 0
<1> DEFINE e == EndOf(c, s, 0)
<1>1. e \in Nat /\ e <= Len(c[s]) /\ Len(c[s]) \in Nat
  BY EndIs DEF Typed
<1>2. CASE e # 0
  <2>1. 1 \in 1..Len(c[s]) /\ 1 <= e
    BY <1>1, <1>2
  <2>2. c[s][1].request \in Nat \ {0}
    BY <2>1, UnitsTyped
  <2>3. c[s][1].request <= 0
    BY <2>1, EndIs
  <2> QED BY <2>2, <2>3
<1> QED BY <1>2

\* The unit at p belongs to request i exactly if it lies between two ends.
LEMMA OwnerIs ==
  ASSUME NEW c, Typed(c), InTurn(c), NEW s \in Sides, NEW i \in Nat \ {0},
         NEW p \in 1..Len(c[s])
  PROVE  /\ c[s][p].request = i <=> EndOf(c, s, i - 1) < p /\ p <= EndOf(c, s, i)
         /\ EndOf(c, s, i - 1) < p /\ p <= EndOf(c, s, i) => i \in Requests(c)
<1>1. i - 1 \in Nat /\ c[s][p].request \in Nat /\ p \in Nat
  BY UnitsTyped
<1>2. c[s][p].request <= i <=> p <= EndOf(c, s, i)
  BY EndIs
<1>3. c[s][p].request <= i - 1 <=> p <= EndOf(c, s, i - 1)
  BY <1>1, EndIs
<1>4. EndOf(c, s, i - 1) \in Nat
  BY <1>1, EndIs
<1>5. c[s][p].request = i <=> EndOf(c, s, i - 1) < p /\ p <= EndOf(c, s, i)
  BY <1>1, <1>2, <1>3, <1>4
<1>6. c[s][p].request \in Requests(c)
  BY DEF Typed, Requests, Sides
<1> QED BY <1>5, <1>6

\* Requests are numbered from 1 on.
LEMMA RequestsAreNat ==
  ASSUME NEW c, Typed(c) PROVE Requests(c) \subseteq Nat \ {0}
<1>1. "client" \in Sides /\ DOMAIN c["client"] = 1..Len(c["client"])
  BY DEF Typed, Sides
<1> QED BY <1>1, UnitsTyped DEF Requests

\* What belongs to request i is not empty exactly if there is a request i.
LEMMA NonEmptyRequest ==
  ASSUME NEW c, Typed(c), InTurn(c), NEW s \in Sides, NEW i \in Nat \ {0}
  PROVE  /\ EndOf(c, s, i - 1) < EndOf(c, s, i) => i \in Requests(c)
         /\ i \in Requests(c) => EndOf(c, "client", i - 1) < EndOf(c, "client", i)
<1>1. i - 1 \in Nat /\ i \in Nat
  OBVIOUS
<1>2. ASSUME EndOf(c, s, i - 1) < EndOf(c, s, i) PROVE i \in Requests(c)
  <2> DEFINE e == EndOf(c, s, i)
  <2>1. e \in Nat /\ EndOf(c, s, i - 1) \in Nat /\ e <= Len(c[s]) /\ Len(c[s]) \in Nat
    BY <1>1, EndIs DEF Typed
  <2>2. e \in 1..Len(c[s]) /\ e <= e
    BY <1>2, <2>1
  <2> QED BY <1>2, <2>2, OwnerIs
<1>3. ASSUME i \in Requests(c) PROVE EndOf(c, "client", i - 1) < EndOf(c, "client", i)
  <2>1. PICK p \in DOMAIN c["client"] : c["client"][p].request = i
    BY <1>3 DEF Requests
  <2>2. "client" \in Sides /\ p \in 1..Len(c["client"])
    BY <2>1 DEF Typed, Sides
  <2>3. EndOf(c, "client", i - 1) < p /\ p <= EndOf(c, "client", i)
    BY <2>1, <2>2, OwnerIs
  <2>4. EndOf(c, "client", i - 1) \in Nat /\ EndOf(c, "client", i) \in Nat
    BY <1>1, <2>2, EndIs
  <2> QED BY <2>2, <2>3, <2>4
<1> QED BY <1>2, <1>3

\* The first delimiter behind p, if there is one.
LEMMA FirstIs ==
  ASSUME NEW c, Typed(c), NEW s \in Sides, NEW p, NEW delims, Ahead(c, s, p, delims) # {}
  PROVE  /\ First(c, s, p, delims) \in Ahead(c, s, p, delims)
         /\ \A r \in Ahead(c, s, p, delims) : First(c, s, p, delims) <= r
         /\ First(c, s, p, delims) \in 1..Len(c[s]) /\ First(c, s, p, delims) > p
         /\ c[s][First(c, s, p, delims)].delim \in delims
<1>1. DOMAIN c[s] = 1..Len(c[s])
  BY DEF Typed
<1>2. Ahead(c, s, p, delims) \in SUBSET Nat
  BY <1>1 DEF Ahead
<1>3. \E q \in Ahead(c, s, p, delims) : \A r \in Ahead(c, s, p, delims) : q <= r
  BY <1>2, Smallest
<1>4. /\ First(c, s, p, delims) \in Ahead(c, s, p, delims)
      /\ \A r \in Ahead(c, s, p, delims) : First(c, s, p, delims) <= r
  BY <1>3 DEF First
<1> QED BY <1>1, <1>4 DEF Ahead

-----------------------------------------------------------------------------
(* The network: one request at a time.                                     *)

C(i) == EndOf(said, "client", i)
S(i) == EndOf(said, "server", i)

\* Request i or its reply is crossing.
At(i) ==
  /\ C(i - 1) <= wire["client"] /\ wire["client"] <= C(i)
  /\ S(i - 1) <= wire["server"] /\ wire["server"] <= S(i)
  /\ S(i - 1) < wire["server"] => wire["client"] = C(i)

\* What is needed of the conversation here.
Orderly == TInv /\ InTurn(said) /\ Outstanding = 1

\* The ends around request i, and how far the two streams have crossed.
LEMMA Ends ==
  ASSUME Orderly, NEW i \in Nat \ {0}
  PROVE  /\ i - 1 \in Nat
         /\ C(i - 1) \in Nat /\ C(i) \in Nat /\ S(i - 1) \in Nat /\ S(i) \in Nat
         /\ C(i - 1) <= C(i) /\ S(i - 1) <= S(i)
         /\ C(i) <= Len(said["client"]) /\ S(i) <= Len(said["server"])
         /\ wire["client"] \in Nat /\ wire["server"] \in Nat
<1>1. Typed(said) /\ InTurn(said) /\ "client" \in Sides /\ "server" \in Sides
  BY DEF Orderly, TInv, Sides
<1>2. i - 1 \in Nat /\ i \in Nat /\ i - 1 <= i
  OBVIOUS
<1>3. wire["client"] \in Nat /\ wire["server"] \in Nat
  BY <1>1 DEF Orderly, TInv
<1> QED BY <1>1, <1>2, <1>3, EndIs, EndGrows DEF C, S

\* The end in the specification and the one in the grammar are the same.
LEMMA EndIsEndOf ==
  ASSUME NEW s, NEW i PROVE End(s, i) = EndOf(said, s, i)
  BY DEF End, EndOf, Owner

\* A client packet belongs to request i, of which nothing was answered yet, or
\* to the next one, and then the reply to i is complete.
LEMMA ClientCrosses ==
  ASSUME Orderly, NEW i \in Nat \ {0}, At(i), NEW n \in Nat \ {0}, Crosses("client", n)
  PROVE  \/ wire["client"] + n <= C(i) /\ wire["server"] = S(i - 1)
         \/ /\ wire["client"] = C(i) /\ wire["server"] = S(i) /\ S(i - 1) < S(i)
            /\ i + 1 \in Requests(said) /\ wire["client"] + n <= C(i + 1)
<1>1. Typed(said) /\ InTurn(said) /\ "client" \in Sides /\ "server" \in Sides
  BY DEF Orderly, TInv, Sides
<1> DEFINE w == wire["client"]
           v == wire["server"]
           p == w + n
           o == said["client"][p].request
<1>2. p \in 1..Len(said["client"]) /\ w \in Nat /\ v \in Nat /\ p \in Nat
  BY <1>1 DEF Crosses, Text, Orderly, TInv
<1>3. o \in Nat \ {0} /\ o \in Requests(said)
  BY <1>1, <1>2, UnitsTyped DEF Requests
<1>4. /\ C(o - 1) < p /\ p <= C(o)
  BY <1>1, <1>2, <1>3, OwnerIs DEF C
<1>5. /\ \A j \in 1..(o - 1) : S(j) > S(j - 1)
      /\ o > 1 => v >= S(o - 1)
  <2>1. MayCross("client", p)
    BY DEF Crosses
  <2> QED BY <2>1, EndIsEndOf DEF MayCross, Orderly, S, Owner
<1>6. C(i - 1) <= w /\ w <= C(i) /\ S(i - 1) <= v /\ v <= S(i) /\ (S(i - 1) < v => w = C(i))
  BY DEF At
<1>7. /\ C(i - 1) \in Nat /\ C(i) \in Nat /\ S(i - 1) \in Nat /\ S(i) \in Nat
  BY Ends
<1> HIDE DEF w, v, p, o
<1>8. p = w + n
  BY DEF p
<1>9. CASE o < i
  <2>1. o <= i - 1 /\ i - 1 \in Nat /\ o \in Nat
    BY <1>3, <1>9
  <2>2. C(o) <= C(i - 1) /\ C(o) \in Nat
    BY <1>1, <2>1, EndGrows, EndIs DEF C
  <2> QED BY <1>2, <1>4, <1>6, <1>7, <1>8, <2>2
<1>10. CASE o = i
  <2>1. p <= C(i)
    BY <1>4, <1>10
  <2>2. w # C(i)
    BY <1>2, <1>7, <1>8, <2>1
  <2>3. v = S(i - 1)
    BY <1>2, <1>6, <1>7, <2>2
  <2> QED BY <2>1, <2>3 DEF p, w, v
<1>11. CASE o > i
  <2>1. i \in 1..(o - 1) /\ o > 1 /\ o - 1 \in Nat /\ i \in Nat /\ i <= o - 1
    BY <1>3, <1>11
  <2>2. S(i) > S(i - 1) /\ v >= S(o - 1)
    BY <1>5, <2>1
  <2>3. S(i) <= S(o - 1) /\ S(o - 1) \in Nat
    BY <1>1, <2>1, EndGrows, EndIs DEF S
  <2>4. v = S(i) /\ w = C(i) /\ S(o - 1) = S(i)
    BY <1>2, <1>6, <1>7, <2>2, <2>3
  <2>5. o = i + 1
    <3>1. CASE o - 1 > i
      <4>1. o - 1 \in 1..(o - 1) /\ (o - 1) - 1 \in Nat /\ i <= (o - 1) - 1
        BY <1>3, <2>1, <3>1
      <4>2. S(o - 1) > S((o - 1) - 1)
        BY <1>5, <4>1
      <4>3. S(i) <= S((o - 1) - 1) /\ S((o - 1) - 1) \in Nat
        BY <1>1, <2>1, <4>1, EndGrows, EndIs DEF S
      <4> QED BY <1>7, <2>4, <4>2, <4>3
    <3> QED BY <1>3, <2>1, <3>1
  <2>6. p <= C(i + 1) /\ i + 1 \in Requests(said)
    BY <1>3, <1>4, <2>5
  <2> QED BY <1>7, <2>2, <2>4, <2>6 DEF p, w, v
<1> QED BY <1>3, <1>9, <1>10, <1>11

\* A server packet belongs to the reply to request i, which has arrived.
LEMMA ServerCrosses ==
  ASSUME Orderly, NEW i \in Nat \ {0}, At(i), NEW n \in Nat \ {0}, Crosses("server", n)
  PROVE  wire["client"] = C(i) /\ wire["server"] + n <= S(i) /\ i \in Requests(said)
<1>1. Typed(said) /\ InTurn(said) /\ "client" \in Sides /\ "server" \in Sides
  BY DEF Orderly, TInv, Sides
<1> DEFINE w == wire["client"]
           v == wire["server"]
           p == v + n
           o == said["server"][p].request
<1>2. p \in 1..Len(said["server"]) /\ w \in Nat /\ v \in Nat /\ p \in Nat
  BY <1>1 DEF Crosses, Text, Orderly, TInv
<1>3. o \in Nat \ {0} /\ o \in Requests(said)
  BY <1>1, <1>2, UnitsTyped DEF Typed
<1>4. S(o - 1) < p /\ p <= S(o)
  BY <1>1, <1>2, <1>3, OwnerIs DEF S
<1>5. w >= C(o)
  <2>1. MayCross("server", p)
    BY DEF Crosses
  <2> QED BY <2>1, EndIsEndOf DEF MayCross, C, Owner
<1>6. C(i - 1) <= w /\ w <= C(i) /\ S(i - 1) <= v /\ v <= S(i)
  BY DEF At
<1>7. /\ C(i - 1) \in Nat /\ C(i) \in Nat /\ S(i - 1) \in Nat /\ S(i) \in Nat /\ i - 1 \in Nat
  BY Ends
<1> HIDE DEF w, v, p, o
<1>8. p = v + n
  BY DEF p
<1>9. CASE o < i
  <2>1. o <= i - 1 /\ o \in Nat
    BY <1>3, <1>9
  <2>2. S(o) <= S(i - 1) /\ S(o) \in Nat
    BY <1>1, <1>7, <2>1, EndGrows, EndIs DEF S
  <2> QED BY <1>2, <1>4, <1>6, <1>7, <1>8, <2>2
<1>10. CASE o = i
  BY <1>2, <1>3, <1>4, <1>5, <1>6, <1>7, <1>10 DEF p, w, v
<1>11. CASE o > i
  <2>1. i <= o - 1 /\ o - 1 \in Nat /\ i \in Nat /\ o \in Nat
    BY <1>3, <1>11
  <2>2. C(i) <= C(o - 1) /\ C(o - 1) \in Nat /\ C(o) \in Nat
    BY <1>1, <2>1, EndGrows, EndIs DEF C
  <2>3. C(o - 1) < C(o)
    BY <1>1, <1>3, NonEmptyRequest DEF C
  <2> QED BY <1>2, <1>5, <1>6, <1>7, <2>2, <2>3
<1> QED BY <1>3, <1>9, <1>10, <1>11

-----------------------------------------------------------------------------
(* Reading while nothing is lost.                                          *)

CleanOne(r, w) ==
  /\ r \in Reader /\ r.lost = {} /\ ~r.err /\ r.sent = w
  /\ (r.eofSource => r.rd = w)

Clean ==
  \A s \in Sides :
    /\ CleanOne(reader[s], wire[s])
    /\ (state # "closed" => (reader[s].eofSource <=> s \in ended))
    /\ (reader[s].closed => state = "quit")

\* The readers rs may replace the present ones.
Tidy(rs) ==
  \A s \in Sides : /\ CleanOne(rs[s], wire[s])
                   /\ (rs[s].eofSource <=> reader[s].eofSource)
                   /\ (rs[s].closed => reader[s].closed)

\* Truncate and Reset leave an undamaged reader so, behind all that has
\* crossed.
LEMMA CleanEmptied ==
  ASSUME NEW w \in Nat, NEW r, CleanOne(r, w)
  PROVE  /\ CleanOne(Truncated(r), w) /\ Truncated(r).rd = w
         /\ (Truncated(r).eofSource <=> r.eofSource) /\ (Truncated(r).closed <=> r.closed)
         /\ CleanOne(Reset(r), w) /\ Reset(r).rd = w
         /\ (Reset(r).eofSource <=> r.eofSource) /\ ~Reset(r).closed
<1>1. r \in Reader /\ r.sent = w /\ ~r.err
  BY DEF CleanOne
<1>2. Truncated(r) \in Reader /\ Reset(r) \in Reader
  BY <1>1 DEF Truncated, Reset, Reader
<1>3. /\ Truncated(r).rd = w /\ Truncated(r).sent = w /\ Truncated(r).lost = {}
      /\ ~Truncated(r).err /\ (Truncated(r).eofSource <=> r.eofSource)
      /\ (Truncated(r).closed <=> r.closed)
  BY <1>1 DEF Truncated, Reader
<1>4. /\ Reset(r).rd = w /\ Reset(r).sent = w /\ Reset(r).lost = {}
      /\ ~Reset(r).err /\ (Reset(r).eofSource <=> r.eofSource) /\ ~Reset(r).closed
  BY <1>1 DEF Reset, Truncated, Reader
<1> QED BY <1>2, <1>3, <1>4 DEF CleanOne

\* Undamaged readers may stay.
LEMMA TidyReader ==
  ASSUME TInv, Clean PROVE Tidy(reader)
  BY DEF Clean, Tidy

\* The server's may be truncated.
LEMMA TidyTruncated ==
  ASSUME TInv, Clean
  PROVE  /\ Tidy(ServerTruncated) /\ ServerTruncated["client"] = reader["client"]
         /\ ServerTruncated["server"].rd = wire["server"]
         /\ ServerTruncated \in [Sides -> Reader]
<1>1. /\ wire["server"] \in Nat /\ CleanOne(reader["server"], wire["server"])
      /\ reader \in [Sides -> Reader]
  BY DEF TInv, Clean, Sides
<1>2. /\ ServerTruncated["server"] = Truncated(reader["server"])
      /\ ServerTruncated["client"] = reader["client"]
      /\ DOMAIN ServerTruncated = Sides
  BY <1>1 DEF ServerTruncated, Sides
<1>3. ServerTruncated \in [Sides -> Reader]
  BY FitTruncated DEF Fit
<1>4. /\ CleanOne(ServerTruncated["server"], wire["server"])
      /\ ServerTruncated["server"].rd = wire["server"]
      /\ (ServerTruncated["server"].eofSource <=> reader["server"].eofSource)
      /\ (ServerTruncated["server"].closed <=> reader["server"].closed)
  BY <1>1, <1>2, CleanEmptied
<1>5. CleanOne(ServerTruncated["client"], wire["client"])
  BY <1>2 DEF Clean, Sides
<1>6. Tidy(ServerTruncated)
  BY <1>2, <1>4, <1>5 DEF Tidy, Sides
<1> QED BY <1>2, <1>3, <1>4, <1>6

\* Both may be reset.
LEMMA TidyReset ==
  ASSUME TInv, Clean, NEW rs, Tidy(rs)
  PROVE  /\ Tidy([s \in Sides |-> Reset(rs[s])])
         /\ \A s \in Sides : Reset(rs[s]).rd = wire[s]
<1>1. \A s \in Sides : wire[s] \in Nat
  BY DEF TInv
<1>2. ASSUME NEW s \in Sides
      PROVE  CleanOne(Reset(rs[s]), wire[s]) /\ Reset(rs[s]).rd = wire[s]
             /\ (Reset(rs[s]).eofSource <=> reader[s].eofSource) /\ ~Reset(rs[s]).closed
  BY <1>1, CleanEmptied DEF Tidy
<1> QED BY <1>2 DEF Tidy

\* What the present text holds behind the cursor is what is found.
LEMMA CleanFinds ==
  ASSUME TInv, Clean, state # "closed", NEW s \in Sides, NEW delims, Finds(s, delims)
  PROVE  /\ Ahead(said, s, reader[s].rd, delims) # {}
         /\ Next1(s, delims) = First(said, s, reader[s].rd, delims)
         /\ Next1(s, delims) <= wire[s] /\ s \notin ended
         /\ Past(s, delims) = [reader[s] EXCEPT !.rd = Next1(s, delims)]
         /\ CleanOne(Past(s, delims), wire[s]) /\ Past(s, delims).rd = Next1(s, delims)
         /\ (Past(s, delims).eofSource <=> reader[s].eofSource)
         /\ (Past(s, delims).closed <=> reader[s].closed)
         /\ Word(Taken(s, delims)) = TextTo(said, s, reader[s].rd, Next1(s, delims))
<1>1. CleanOne(reader[s], wire[s]) /\ (reader[s].eofSource <=> s \in ended) /\ wire[s] \in Nat
      /\ reader[s] \in Reader /\ reader[s].sent = wire[s] /\ reader[s].lost = {}
  BY DEF Clean, CleanOne, TInv
<1> DEFINE q == Next1(s, delims)
           A == Ahead(said, s, reader[s].rd, delims)
           f == First(said, s, reader[s].rd, delims)
<1>2. /\ q \in Hits(s, delims) /\ \A h \in Hits(s, delims) : q <= h
      /\ q \in Nat /\ reader[s].rd < q /\ q <= wire[s]
      /\ q \in DOMAIN said[s] /\ said[s][q].delim \in delims
      /\ ~reader[s].eofSource /\ ~reader[s].err
  BY FindsFirst
<1>3. q \in A
  BY <1>1, <1>2 DEF Ahead, Reader
<1>4. Typed(said) /\ reader[s].rd \in Nat
  BY <1>1 DEF TInv, Reader
<1>5. f \in A /\ f <= q /\ f \in 1..Len(said[s]) /\ f > reader[s].rd
      /\ said[s][f].delim \in delims
  BY <1>3, <1>4, FirstIs
<1>6. f \in Hits(s, delims)
  <2>1. f \in (reader[s].rd + 1)..reader[s].sent
    <3> HIDE DEF f, q
    <3> QED BY <1>1, <1>2, <1>4, <1>5
  <2> QED BY <1>1, <1>5, <2>1 DEF Hits, Buffered, Text
<1>7. q = f
  <2>1. q <= f /\ f \in Nat
    BY <1>2, <1>5, <1>6
  <2> HIDE DEF q, f
  <2> QED BY <1>2, <1>5, <2>1
<1>8. Past(s, delims) = [reader[s] EXCEPT !.rd = q]
  BY DEF Past
<1>9. /\ CleanOne(Past(s, delims), wire[s]) /\ Past(s, delims).rd = q
      /\ (Past(s, delims).eofSource <=> reader[s].eofSource)
      /\ (Past(s, delims).closed <=> reader[s].closed)
  <2> HIDE DEF q
  <2> QED BY <1>1, <1>2, <1>8 DEF CleanOne, Reader
<1>10. Word(Taken(s, delims)) = TextTo(said, s, reader[s].rd, q)
  BY DEF Taken, TextTo, Text
<1> QED BY <1>1, <1>2, <1>3, <1>7, <1>8, <1>9, <1>10

\* What is not found has not crossed, unless the stream has ended.
LEMMA CleanMisses ==
  ASSUME TInv, Clean, state # "closed", NEW s \in Sides, NEW delims, ~Finds(s, delims)
  PROVE  /\ Failure(s) \in {"short", "EOF"}
         /\ s \in ended \/ \A p \in Ahead(said, s, reader[s].rd, delims) : p > wire[s]
<1>1. CleanOne(reader[s], wire[s]) /\ (reader[s].eofSource <=> s \in ended) /\ wire[s] \in Nat
      /\ reader[s] \in Reader /\ reader[s].sent = wire[s] /\ reader[s].lost = {} /\ ~reader[s].err
  BY DEF Clean, CleanOne, TInv
<1>2. Failure(s) \in {"short", "EOF"}
  BY <1>1 DEF Failure
<1>3. ASSUME s \notin ended, NEW p \in Ahead(said, s, reader[s].rd, delims), ~(p > wire[s])
      PROVE  FALSE
  <2>1. p \in DOMAIN said[s] /\ p > reader[s].rd /\ said[s][p].delim \in delims
        /\ p \in Nat /\ reader[s].rd \in Nat
    BY <1>1, <1>3 DEF Ahead, TInv, Typed, Reader
  <2>2. p \in (reader[s].rd + 1)..reader[s].sent
    BY <1>1, <1>3, <2>1
  <2>3. p \in Hits(s, delims)
    BY <1>1, <2>1, <2>2 DEF Hits, Buffered, Text
  <2> QED BY <1>1, <1>3, <2>3 DEF Finds
<1> QED BY <1>2, <1>3

\* A state function that ran out of data.
LEMMA CleanReturn ==
  ASSUME TInv, Clean, state # "closed", NEW s \in Sides, NEW delims, ~Finds(s, delims),
         NEW rs, Return(Failure(s), rs)
  PROVE  reader' = rs /\ state' = state /\ running' = FALSE
  BY CleanMisses DEF Return

\* Steps that end neither the conversation nor the interest in it.
LEMMA CleanStep ==
  ASSUME TInv, Clean, state \notin {"closed", "quit"}, UNCHANGED network, Tidy(reader'),
         state' \notin {"closed", "quit"}
  PROVE  Clean'
<1>1. \A s \in Sides : /\ CleanOne(reader'[s], wire[s])
                       /\ (reader'[s].eofSource <=> reader[s].eofSource)
                       /\ (reader'[s].closed => reader[s].closed)
                       /\ (reader[s].eofSource <=> s \in ended)
                       /\ ~reader[s].closed
  BY DEF Tidy, Clean
<1>2. wire' = wire /\ ended' = ended
  BY DEF network
<1>3. \A s \in Sides : CleanOne(reader'[s], wire'[s])
  BY <1>1, <1>2
<1> QED BY <1>1, <1>2, <1>3 DEF Clean

-----------------------------------------------------------------------------
(* Where the consumer is in the conversation while nothing is lost.        *)

\* All hits up to position b of the server's stream have been reported.
Reported(b) == \A p \in HitsIn(said, 0, b) : p \in Range(events)
Genuine == \A p \in Range(events) : p \in HitsIn(said, 0, Len(said["server"]))

\* Run came back because there was no delimiter to be found.
Unread(s, delims) ==
  ~running => \A p \in Ahead(said, s, reader[s].rd, delims) : p > wire[s]

\* Request i is crossing and nothing of its reply.
Before(i) == At(i) /\ wire["server"] = S(i - 1) /\ Reported(S(i - 1))

InRequest(k) ==
  /\ k \in Requests(said)
  /\ cmd = [at |-> C(k - 1) + 1, word |-> WordOf(said, k)] /\ Letters(cmd.word)

Peeking ==
  /\ reader["client"].rd = 0 /\ At(1) /\ wire["server"] = 0
  /\ (~running \/ "client" \in ended => wire["client"] = 0)

\* readCommand, before request i and behind it.
Waiting(i) ==
  /\ i \in Requests(said) /\ Before(i)
  /\ IF "client" \in ended THEN wire["client"] < C(i)
     ELSE reader["client"].rd = C(i - 1) /\ Unread("client", WordEnd)
Finished(i) ==
  /\ i \in Requests(said) /\ At(i) /\ Reported(S(i))
  /\ ("client" \notin ended => reader["client"].rd = C(i) /\ wire["client"] = C(i))

\* args are the words of request k up to the cursor.
ArgsRead(k) ==
  /\ (Len(args) <= 3 => reader["client"].rd = ArgAt(said, k, Len(args)))
  /\ Len(args) >= 4 =>
       /\ args[4].word = TextTo(said, "client", ArgAt(said, k, 3), ArgAt(said, k, 4))
       /\ args[4].size = said["client"][ArgAt(said, k, 4)].size
       /\ \A j \in 1..3 : ArgAt(said, k, j) # LineAt(said, k)

Reading(k) ==
  /\ InRequest(k) /\ Before(k) /\ CommandState(cmd.word) # "nil"
  /\ IF "client" \in ended THEN wire["client"] < C(k)
     ELSE /\ WordAt(said, k) <= reader["client"].rd
          /\ reader["client"].rd < LineAt(said, k)
          /\ ArgsRead(k) /\ Unread("client", WordEnd)
          /\ \A j \in 1..3 : j <= Len(args) => ArgAt(said, k, j) # LineAt(said, k)

Setting(k) ==
  /\ InRequest(k) /\ Before(k) /\ CommandState(cmd.word) = "handleSet"
  /\ running /\ "client" \notin ended /\ reader["server"].rd = S(k - 1)
  /\ args # <<>> /\ reader["client"].rd = LineAt(said, k)
  /\ ArgsRead(k)

Unknown(k) ==
  /\ InRequest(k) /\ Before(k) /\ CommandState(cmd.word) = "nil"
  /\ running /\ "client" \notin ended /\ reader["server"].rd = S(k - 1)
  /\ reader["client"].rd = C(k)

\* handleGet and discardResponse; when the server's stream has ended they wait
\* for ever.
Answered(k) ==
  /\ InRequest(k)
  /\ IF "server" \in ended
     THEN S(k - 1) <= wire["server"] /\ wire["server"] < S(k) /\ Reported(S(k - 1))
     ELSE /\ At(k) /\ Unread("server", LineEnd)
          /\ S(k - 1) <= reader["server"].rd /\ Reported(reader["server"].rd)
          /\ ("client" \notin ended => reader["client"].rd = C(k))

Getting(k) ==
  /\ Answered(k) /\ CommandState(cmd.word) = "handleGet"
  /\ "server" \notin ended => /\ reader["server"].rd \in Starts(said, k)
                              /\ wire["client"] = C(k)

Discarding(k) ==
  /\ Answered(k) /\ CommandState(cmd.word) \in {"nil", "handleSet"}
  /\ ("server" \notin ended => reader["server"].rd = S(k - 1))

Phase ==
  /\ (state = "peekMagicByte" => Peeking)
  /\ (state = "readCommand" => \E i \in Requests(said) : Waiting(i) \/ Finished(i))
  /\ (state = "readArgs" => \E k \in Requests(said) : Reading(k))
  /\ (state = "handleSet" => \E k \in Requests(said) : Setting(k))
  /\ (state = "handleUnknown" => \E k \in Requests(said) : Unknown(k))
  /\ (state = "handleGet" => \E k \in Requests(said) : Getting(k))
  /\ (state = "discardResponse" => \E k \in Requests(said) : Discarding(k))
  /\ (state = "handleQuit" => running /\ \E k \in Requests(said) : InRequest(k))

\* A conversation in the text protocol, undamaged so far.
Undamaged == Clean /\ Genuine /\ state # "closed" /\ Phase
Healthy == Orderly /\ Regular(said) /\ ~IsBinary(said) /\ Undamaged

\* The first word of a request ends within it.
LEMMA RequestFacts ==
  ASSUME Orderly, Regular(said), ~IsBinary(said), NEW k \in Requests(said)
  PROVE  /\ Request(said, k) /\ k \in Nat \ {0} /\ Typed(said) /\ InTurn(said)
         /\ C(k - 1) < WordAt(said, k) /\ WordAt(said, k) <= C(k) /\ WordAt(said, k) \in Nat
         /\ WordAt(said, k) \in Ahead(said, "client", C(k - 1), WordEnd)
<1>1. Typed(said) /\ InTurn(said) /\ Request(said, k) /\ "client" \in Sides
  BY DEF Regular, Sides
<1>2. k \in Nat \ {0}
  BY <1>1, RequestsAreNat
<1>3. /\ Ahead(said, "client", C(k - 1), WordEnd) # {}
      /\ First(said, "client", C(k - 1), WordEnd) <= C(k)
  BY <1>1 DEF Request, Within, C
<1>4. /\ First(said, "client", C(k - 1), WordEnd) \in Ahead(said, "client", C(k - 1), WordEnd)
      /\ First(said, "client", C(k - 1), WordEnd) \in 1..Len(said["client"])
      /\ First(said, "client", C(k - 1), WordEnd) > C(k - 1)
  BY <1>1, <1>3, FirstIs
<1>5. WordAt(said, k) = First(said, "client", C(k - 1), WordEnd)
  BY DEF WordAt, C
<1>6. C(k - 1) \in Nat
  BY <1>2, Ends
<1> QED BY <1>1, <1>2, <1>3, <1>4, <1>5, <1>6

\* The line of a command with arguments ends within the request.
LEMMA LineFacts ==
  ASSUME Orderly, Regular(said), ~IsBinary(said), NEW k \in Requests(said),
         Letters(WordOf(said, k)), CommandState(WordOf(said, k)) # "nil"
  PROVE  /\ WordAt(said, k) < LineAt(said, k) /\ LineAt(said, k) <= C(k)
         /\ LineAt(said, k) \in 1..Len(said["client"])
         /\ said["client"][LineAt(said, k)].delim = "eol"
         /\ \A p \in Ahead(said, "client", WordAt(said, k), LineEnd) : LineAt(said, k) <= p
<1>1. /\ Ahead(said, "client", WordAt(said, k), LineEnd) # {}
      /\ First(said, "client", WordAt(said, k), LineEnd) <= C(k)
  BY RequestFacts DEF Request, Within, C
<1>2. Typed(said) /\ "client" \in Sides /\ WordAt(said, k) \in Nat
  BY RequestFacts DEF Sides
<1>3. LineAt(said, k) = First(said, "client", WordAt(said, k), LineEnd)
  BY DEF LineAt
<1>4. /\ LineAt(said, k) \in 1..Len(said["client"]) /\ LineAt(said, k) > WordAt(said, k)
      /\ said["client"][LineAt(said, k)].delim \in LineEnd
      /\ \A p \in Ahead(said, "client", WordAt(said, k), LineEnd) : LineAt(said, k) <= p
  BY <1>1, <1>2, <1>3, FirstIs
<1> QED BY <1>1, <1>2, <1>3, <1>4 DEF LineEnd

\* Where the reply to a get is read there is a line to read.
LEMMA StartFacts ==
  ASSUME Orderly, Regular(said), ~IsBinary(said), NEW k \in Requests(said),
         Letters(WordOf(said, k)), CommandState(WordOf(said, k)) = "handleGet",
         NEW g \in Starts(said, k)
  PROVE  /\ Ahead(said, "server", g, LineEnd) # {}
         /\ First(said, "server", g, LineEnd) <= S(k)
         /\ First(said, "server", g, LineEnd) \in Ahead(said, "server", g, LineEnd)
         /\ First(said, "server", g, LineEnd) \in 1..Len(said["server"])
         /\ g < First(said, "server", g, LineEnd)
<1>1. GetReply(said, k) /\ Typed(said) /\ "server" \in Sides
  BY RequestFacts DEF Request, Sides
<1>2. Within(said, "server", g, LineEnd, S(k))
  BY <1>1 DEF GetReply, S
<1>3. Ahead(said, "server", g, LineEnd) # {} /\ First(said, "server", g, LineEnd) <= S(k)
  BY <1>2 DEF Within
<1>4. /\ First(said, "server", g, LineEnd) \in Ahead(said, "server", g, LineEnd)
      /\ First(said, "server", g, LineEnd) \in 1..Len(said["server"])
      /\ First(said, "server", g, LineEnd) > g
  BY <1>1, <1>3, FirstIs
<1>5. First(said, "server", g, LineEnd) > g => g < First(said, "server", g, LineEnd)
  OBVIOUS
<1> QED BY <1>3, <1>4, <1>5

\* The reply that discardResponse reads is one line without a hit.
LEMMA OneLineFacts ==
  ASSUME Orderly, Regular(said), ~IsBinary(said), NEW k \in Requests(said),
         Letters(WordOf(said, k)), CommandState(WordOf(said, k)) \in {"nil", "handleSet"}
  PROVE  /\ NoHits(said, k)
         /\ Ahead(said, "server", S(k - 1), LineEnd) # {}
         /\ First(said, "server", S(k - 1), LineEnd) = S(k)
         /\ S(k) \in Ahead(said, "server", S(k - 1), LineEnd) /\ S(k - 1) < S(k)
<1>1. NoHits(said, k) /\ OneLine(said, k) /\ Typed(said) /\ "server" \in Sides /\ k \in Nat \ {0}
  BY RequestFacts DEF Request, Sides
<1>2. /\ Ahead(said, "server", S(k - 1), LineEnd) # {}
      /\ First(said, "server", S(k - 1), LineEnd) = S(k)
  BY <1>1 DEF OneLine, Within, S
<1>3. /\ S(k) \in Ahead(said, "server", S(k - 1), LineEnd) /\ S(k) > S(k - 1)
  BY <1>1, <1>2, FirstIs
<1>4. S(k) \in Nat /\ S(k - 1) \in Nat
  BY <1>1, Ends
<1> QED BY <1>1, <1>2, <1>3, <1>4

\* What was reported stays so, and between positions without a hit.
LEMMA ReportedUpTo ==
  ASSUME NEW a \in Nat, NEW b \in Nat, Reported(a), a <= b => HitsIn(said, a, b) = {}, Typed(said)
  PROVE  Reported(b)
<1> SUFFICES ASSUME NEW p \in HitsIn(said, 0, b) PROVE p \in Range(events)
  BY DEF Reported
<1>1. p \in DOMAIN said["server"] /\ said["server"][p].hit /\ 0 < p /\ p <= b /\ p \in Nat
  BY DEF HitsIn, Typed, Sides
<1>2. CASE p <= a
  <2>1. p \in HitsIn(said, 0, a)
    BY <1>1, <1>2 DEF HitsIn
  <2> QED BY <2>1 DEF Reported
<1>3. CASE a < p
  <2>1. p \in HitsIn(said, a, b) /\ a <= b
    BY <1>1, <1>3 DEF HitsIn
  <2> QED BY <2>1
<1> QED BY <1>1, <1>2, <1>3

\* A state function leaves the conversation and the network alone.
LEMMA Frame ==
  ASSUME UNCHANGED network
  PROVE  /\ said' = said /\ wire' = wire /\ ended' = ended /\ harmed' = harmed
         /\ \A i : C(i)' = C(i) /\ S(i)' = S(i) /\ (At(i)' <=> At(i))
<1>1. said' = said /\ wire' = wire /\ ended' = ended /\ harmed' = harmed
  BY DEF network
<1> QED BY <1>1 DEF C, S, At

\* What was reported stays reported.
LEMMA FrameEvents ==
  ASSUME said' = said, events' = events
  PROVE  (\A b : Reported(b)' <=> Reported(b)) /\ (Genuine' <=> Genuine)
  BY DEF Reported, Genuine

\* peekMagicByte, of a conversation in the text protocol.
LEMMA PeekHealthy ==
  ASSUME Healthy, PeekMagicByte PROVE Undamaged'
<1>1. /\ TInv /\ Clean /\ Genuine /\ Peeking /\ UNCHANGED network /\ Orderly
      /\ state = "peekMagicByte" /\ UNCHANGED <<cmd, args, eventBuf, handled>>
  BY DEF Healthy, Undamaged, Orderly, Phase, PeekMagicByte, In
<1> DEFINE r == reader["client"]
<1>2. /\ CleanOne(r, wire["client"]) /\ r \in Reader /\ r.lost = {} /\ ~r.err
      /\ r.sent = wire["client"] /\ r.rd = 0 /\ (r.eofSource <=> "client" \in ended)
      /\ At(1) /\ wire["server"] = 0 /\ wire["client"] \in Nat
      /\ ("client" \in ended => wire["client"] = 0)
  BY <1>1 DEF Clean, CleanOne, Sides, Peeking, TInv
<1>3. /\ said' = said /\ wire' = wire /\ ended' = ended
      /\ \A i : C(i)' = C(i) /\ S(i)' = S(i) /\ (At(i)' <=> At(i))
  BY <1>1, Frame
<1>4. events' = events /\ Genuine' /\ \A b : Reported(b)' <=> Reported(b)
  <2>1. events' = events
    BY <1>1 DEF events
  <2> QED BY <1>1, <1>3, <2>1, FrameEvents
<1>5. Tidy(ServerTruncated) /\ ServerTruncated["client"] = r
  BY <1>1, TidyTruncated
<1>6. /\ Typed(said) /\ InTurn(said) /\ "client" \in Sides /\ ~IsBinary(said)
      /\ said["client"] \in Seq(Unit)
  BY DEF Healthy, Regular, Sides, Typed
<1>7. ASSUME reader' = ServerTruncated, state' \in {"peekMagicByte", "readCommand"} PROVE Clean'
  BY <1>1, <1>5, <1>7, CleanStep
<1>8. CASE (r.eofSource \/ (~r.err /\ r.sent <= r.rd)) /\ Return("short", ServerTruncated)
  <2>1. reader' = ServerTruncated /\ state' = state /\ running' = FALSE
    BY <1>8 DEF Return
  <2>2. wire["client"] = 0
    BY <1>2, <1>8
  <2>3. Peeking'
    BY <1>2, <1>3, <1>5, <2>1, <2>2 DEF Peeking
  <2> QED BY <1>1, <1>4, <1>7, <2>1, <2>3 DEF Undamaged, Phase
<1>9. CASE r.rd + 1 \in Buffered(r)
           /\ IF Text("client")[r.rd + 1].text = "0x80"
              THEN /\ reader' = [s \in Sides |-> Retired(reader[s])]
                   /\ running' = FALSE /\ state' = "closed"
              ELSE Continue("readCommand", ServerTruncated)
  <2>1. 1 <= wire["client"] /\ "client" \notin ended
    BY <1>2, <1>9 DEF Buffered
  <2>2. said["client"] # <<>>
    BY <1>1, <1>6, <2>1 DEF TInv
  <2>3. Text("client")[r.rd + 1].text # "0x80"
    BY <1>2, <1>6, <2>2 DEF IsBinary, Text
  <2>4. reader' = ServerTruncated /\ state' = "readCommand" /\ running' = TRUE
    BY <1>9, <2>3 DEF Continue
  <2>5. C(0) = 0 /\ S(0) = 0
    BY <1>6, EndAtZero DEF C, S, Sides
  <2>6. wire["client"] <= C(1) /\ C(1) \in Nat /\ 1 - 1 = 0
    BY <1>1, <1>2, Ends DEF At
  <2>7. C(1 - 1) < C(1)
    BY <1>2, <2>1, <2>5, <2>6
  <2>8. 1 \in Requests(said)
    BY <1>6, <2>7, NonEmptyRequest DEF C
  <2>9. Reported(0)
    BY <1>6 DEF Reported, HitsIn, Typed, Sides
  <2>10. Waiting(1)'
    <3>1. Before(1)'
      BY <1>2, <1>3, <1>4, <2>5, <2>6, <2>9 DEF Before
    <3>2. reader'["client"].rd = C(1 - 1) /\ running'
      BY <1>2, <1>5, <2>4, <2>5, <2>6
    <3>3. Unread("client", WordEnd)'
      BY <3>2 DEF Unread
    <3>4. (reader["client"].rd = C(1 - 1))'
      BY <1>3, <3>2
    <3> QED BY <1>3, <2>1, <2>8, <3>1, <3>3, <3>4 DEF Waiting
  <2> QED BY <1>3, <1>4, <1>7, <2>4, <2>8, <2>10 DEF Undamaged, Phase
<1>10. /\ ~r.err
       /\ r.rd + 1 \notin r.lost
  BY <1>2
<1> QED BY <1>8, <1>9, <1>10 DEF PeekMagicByte

\* readCommand finds the first word of the next request, or waits for it.
LEMMA ReadCommandHealthy ==
  ASSUME Healthy, ReadCommand PROVE Undamaged'
<1>1. /\ TInv /\ Clean /\ Genuine /\ UNCHANGED network /\ Orderly
      /\ state = "readCommand" /\ running /\ UNCHANGED <<eventBuf, handled>>
      /\ Regular(said) /\ ~IsBinary(said) /\ args' = <<>>
  BY DEF Healthy, Undamaged, Orderly, ReadCommand, In
<1>2. PICK i \in Requests(said) : Waiting(i) \/ Finished(i)
  BY <1>1 DEF Healthy, Undamaged, Phase
<1>3. /\ said' = said /\ wire' = wire /\ ended' = ended
      /\ \A j : C(j)' = C(j) /\ S(j)' = S(j) /\ (At(j)' <=> At(j))
  BY <1>1, Frame
<1>4. events' = events /\ Genuine' /\ \A b : Reported(b)' <=> Reported(b)
  <2>1. events' = events
    BY <1>1 DEF events
  <2> QED BY <1>1, <1>3, <2>1, FrameEvents
<1>5. /\ Tidy(ServerTruncated) /\ ServerTruncated["client"] = reader["client"]
      /\ ServerTruncated["server"].rd = wire["server"]
      /\ ServerTruncated \in [Sides -> Reader] /\ "client" \in Sides /\ "server" \in Sides
  BY <1>1, TidyTruncated DEF Sides
<1>6. /\ i \in Nat \ {0} /\ Request(said, i) /\ Typed(said)
      /\ C(i - 1) < WordAt(said, i) /\ WordAt(said, i) <= C(i) /\ WordAt(said, i) \in Nat
  BY <1>1, RequestFacts
<1>7. /\ C(i - 1) \in Nat /\ C(i) \in Nat /\ S(i - 1) \in Nat /\ S(i) \in Nat
      /\ wire["client"] \in Nat /\ wire["server"] \in Nat
  BY <1>1, <1>6, Ends
<1>8. CASE ~Finds("client", WordEnd)
  <2>1. Return(Failure("client"), ServerTruncated)
    BY <1>8 DEF ReadCommand
  <2>2. reader' = ServerTruncated /\ state' = state /\ running' = FALSE
    BY <1>1, <1>5, <1>8, <2>1, CleanReturn
  <2>3. "client" \in ended
        \/ \A p \in Ahead(said, "client", reader["client"].rd, WordEnd) : p > wire["client"]
    BY <1>1, <1>5, <1>8, CleanMisses
  <2>4. Clean'
    BY <1>1, <1>5, <2>2, CleanStep
  <2>5. Waiting(i) => Waiting(i)'
    BY <1>3, <1>4, <1>5, <2>2, <2>3 DEF Waiting, Before, Unread
  <2>6. Finished(i) => Finished(i)'
    BY <1>3, <1>4, <1>5, <2>2 DEF Finished
  <2> QED BY <1>1, <1>2, <1>3, <1>4, <2>2, <2>4, <2>5, <2>6 DEF Undamaged, Phase
<1>9. CASE Finds("client", WordEnd)
  <2> DEFINE q == Next1("client", WordEnd)
             past == Past("client", WordEnd)
             word == Word(Taken("client", WordEnd))
             rs == [ServerTruncated EXCEPT !["client"] = past]
  <2>1. /\ q = First(said, "client", reader["client"].rd, WordEnd)
        /\ q <= wire["client"] /\ "client" \notin ended
        /\ CleanOne(past, wire["client"]) /\ past.rd = q
        /\ (past.eofSource <=> reader["client"].eofSource)
        /\ (past.closed <=> reader["client"].closed)
        /\ word = TextTo(said, "client", reader["client"].rd, q)
        /\ reader["client"].rd < q /\ q \in Nat
    BY <1>1, <1>5, <1>9, CleanFinds, FindsFirst
  <2>2. rs["client"] = past /\ rs["server"] = ServerTruncated["server"]
    BY <1>5 DEF Sides
  <2>3. Tidy(rs)
    <3> HIDE DEF past, rs
    <3> QED BY <1>5, <2>1, <2>2 DEF Tidy, Sides
  <2>4. Waiting(i)
    <3>1. ASSUME Finished(i) PROVE FALSE
      <4>1. reader["client"].rd = wire["client"]
        BY <2>1, <3>1 DEF Finished
      <4> HIDE DEF q
      <4> QED BY <1>7, <2>1, <4>1
    <3> QED BY <1>2, <3>1
  <2>5. /\ reader["client"].rd = C(i - 1) /\ At(i) /\ wire["server"] = S(i - 1)
        /\ Reported(S(i - 1)) /\ wire["client"] <= C(i)
    BY <2>1, <2>4 DEF Waiting, Before, At
  <2>6. q = WordAt(said, i) /\ word = WordOf(said, i)
    BY <2>1, <2>5 DEF WordAt, WordOf, C
  <2>7. cmd' = [at |-> C(i - 1) + 1, word |-> word]
    BY <1>9, <2>5 DEF ReadCommand
  <2> HIDE DEF q, past, word, rs
  <2>8. /\ rs["client"].rd = q /\ rs["server"].rd = wire["server"]
    BY <1>5, <2>1, <2>2
  <2>9. Before(i)'
    BY <1>3, <1>4, <2>5 DEF Before
  <2>10. Letters(word) => InRequest(i)'
    BY <1>3, <2>6, <2>7 DEF InRequest
  <2>11. CASE ~Letters(word)
    <3>1. Return("desync", rs)
      BY <1>9, <2>11 DEF ReadCommand, rs, past, word
    <3>2. reader' = [s \in Sides |-> Reset(rs[s])] /\ state' = "readCommand" /\ running' = FALSE
      BY <3>1 DEF Return
    <3>3. Tidy(reader') /\ \A s \in Sides : reader'[s].rd = wire[s]
      BY <1>1, <2>3, <3>2, TidyReset
    <3>4. Clean'
      BY <1>1, <3>2, <3>3, CleanStep
    <3>5. WordAt(said, i) = C(i) /\ NoHits(said, i)
      BY <1>6, <2>6, <2>11 DEF Request, C
    <3>6. wire["client"] = C(i)
      BY <1>7, <2>1, <2>5, <2>6, <3>5
    <3>7. HitsIn(said, S(i - 1), S(i)) = {}
      BY <3>5 DEF NoHits, S
    <3>8. Reported(S(i))
      BY <1>6, <1>7, <2>5, <3>7, ReportedUpTo
    <3>9. Finished(i)'
      BY <1>3, <1>4, <1>5, <2>5, <3>3, <3>6, <3>8 DEF Finished
    <3> QED BY <1>3, <1>4, <3>2, <3>4, <3>9 DEF Undamaged, Phase
  <2>12. CASE Letters(word) /\ CommandState(word) # "nil"
    <3>1. Continue("readArgs", rs)
      BY <1>9, <2>12 DEF ReadCommand, rs, past, word
    <3>2. reader' = rs /\ state' = "readArgs" /\ running' = TRUE
      BY <3>1 DEF Continue
    <3>3. Clean'
      BY <1>1, <2>3, <3>2, CleanStep
    <3>4. WordAt(said, i) < LineAt(said, i)
      BY <1>1, <2>6, <2>12, LineFacts
    <3>5. ArgAt(said, i, 0) = WordAt(said, i)
      BY DEF ArgAt
    <3>6. ArgsRead(i)'
      BY <1>1, <1>3, <2>6, <2>8, <3>2, <3>5 DEF ArgsRead
    <3>7. Unread("client", WordEnd)'
      BY <3>2 DEF Unread
    <3>8. Reading(i)'
      BY <1>1, <1>3, <1>6, <2>1, <2>6, <2>7, <2>8, <2>9, <2>10, <2>12, <3>2, <3>4, <3>6, <3>7
         DEF Reading
    <3> QED BY <1>3, <1>4, <3>2, <3>3, <3>8 DEF Undamaged, Phase
  <2>13. CASE Letters(word) /\ CommandState(word) = "nil"
    <3>1. Continue("handleUnknown", rs)
      BY <1>9, <2>13 DEF ReadCommand, rs, past, word
    <3>2. reader' = rs /\ state' = "handleUnknown" /\ running' = TRUE
      BY <3>1 DEF Continue
    <3>3. Clean'
      BY <1>1, <2>3, <3>2, CleanStep
    <3>4. WordAt(said, i) = C(i)
      BY <1>6, <2>6, <2>13 DEF Request, C
    <3>5. Unknown(i)'
      BY <1>3, <2>1, <2>5, <2>6, <2>7, <2>8, <2>9, <2>10, <2>13, <3>2, <3>4 DEF Unknown
    <3> QED BY <1>3, <1>4, <3>2, <3>3, <3>5 DEF Undamaged, Phase
  <2> QED BY <2>11, <2>12, <2>13
<1> QED BY <1>8, <1>9

\* The word at the cursor is the next argument, and the last one exactly if it
\* ends the line.
LEMMA NextArg ==
  ASSUME Orderly, Regular(said), ~IsBinary(said), NEW k \in Requests(said),
         Letters(WordOf(said, k)), CommandState(WordOf(said, k)) # "nil",
         NEW p \in Nat, WordAt(said, k) <= p, p < LineAt(said, k),
         NEW q, q = First(said, "client", p, WordEnd)
  PROVE  /\ q \in Nat /\ p < q /\ q <= LineAt(said, k)
         /\ said["client"][q].delim \in WordEnd
         /\ said["client"][q].delim = "eol" <=> q = LineAt(said, k)
<1> DEFINE l == LineAt(said, k)
<1>1. /\ Typed(said) /\ "client" \in Sides /\ WordAt(said, k) \in Nat
      /\ l \in 1..Len(said["client"]) /\ said["client"][l].delim = "eol"
      /\ \A r \in Ahead(said, "client", WordAt(said, k), LineEnd) : l <= r
      /\ DOMAIN said["client"] = 1..Len(said["client"])
  BY RequestFacts, LineFacts DEF Sides, Typed
<1> HIDE DEF l
<1>2. l \in Ahead(said, "client", p, WordEnd)
  BY <1>1 DEF Ahead, WordEnd, l
<1>3. /\ q \in 1..Len(said["client"]) /\ q > p /\ said["client"][q].delim \in WordEnd
      /\ q <= l
  BY <1>1, <1>2, FirstIs
<1>4. ASSUME said["client"][q].delim = "eol" PROVE q = l
  <2>1. q \in Ahead(said, "client", WordAt(said, k), LineEnd)
    BY <1>1, <1>3, <1>4 DEF Ahead, LineEnd
  <2>2. l <= q
    BY <1>1, <2>1
  <2> QED BY <1>1, <1>3, <2>2
<1> QED BY <1>1, <1>3, <1>4 DEF l

\* The end of an argument is the first delimiter behind the one before.
LEMMA ArgAtNext ==
  ASSUME NEW c, NEW i, NEW n \in 0..3
  PROVE  ArgAt(c, i, n + 1) = First(c, "client", ArgAt(c, i, n), WordEnd)
<1>1. CASE n = 0
  BY <1>1 DEF ArgAt
<1>2. CASE n = 1
  BY <1>2 DEF ArgAt
<1>3. CASE n = 2
  BY <1>3 DEF ArgAt
<1>4. CASE n = 3
  BY <1>4 DEF ArgAt
<1> QED BY <1>1, <1>2, <1>3, <1>4

\* readArgs reads the arguments up to the end of the line.
LEMMA ReadArgsHealthy ==
  ASSUME Healthy, ReadArgs PROVE Undamaged'
<1>1. /\ TInv /\ Clean /\ Genuine /\ UNCHANGED network /\ Orderly
      /\ state = "readArgs" /\ running /\ UNCHANGED <<cmd, eventBuf, handled>>
      /\ Regular(said) /\ ~IsBinary(said)
  BY DEF Healthy, Undamaged, Orderly, ReadArgs, In
<1>2. PICK k \in Requests(said) : Reading(k)
  BY <1>1 DEF Healthy, Undamaged, Phase
<1>3. /\ said' = said /\ wire' = wire /\ ended' = ended
      /\ \A j : C(j)' = C(j) /\ S(j)' = S(j) /\ (At(j)' <=> At(j))
  BY <1>1, Frame
<1>4. events' = events /\ Genuine' /\ \A b : Reported(b)' <=> Reported(b)
  <2>1. events' = events
    BY <1>1 DEF events
  <2> QED BY <1>1, <1>3, <2>1, FrameEvents
<1>5. /\ Tidy(ServerTruncated) /\ ServerTruncated["client"] = reader["client"]
      /\ ServerTruncated["server"].rd = wire["server"]
      /\ ServerTruncated \in [Sides -> Reader] /\ "client" \in Sides /\ "server" \in Sides
  BY <1>1, TidyTruncated DEF Sides
<1>6. /\ k \in Nat \ {0} /\ Request(said, k) /\ Typed(said)
  BY <1>1, RequestFacts
<1>7. /\ C(k - 1) \in Nat /\ C(k) \in Nat /\ S(k - 1) \in Nat /\ S(k) \in Nat
      /\ wire["client"] \in Nat /\ wire["server"] \in Nat
  BY <1>1, <1>6, Ends
<1>8. /\ InRequest(k) /\ Before(k) /\ cmd.word = WordOf(said, k) /\ Letters(WordOf(said, k))
      /\ CommandState(cmd.word) # "nil"
  BY <1>2 DEF Reading, InRequest
<1>9. InRequest(k)' /\ Before(k)' /\ cmd' = cmd
  BY <1>1, <1>3, <1>4, <1>8 DEF InRequest, Before
<1>10. CASE ~Finds("client", WordEnd)
  <2>1. Return(Failure("client"), ServerTruncated) /\ args' = args
    BY <1>10 DEF ReadArgs
  <2>2. reader' = ServerTruncated /\ state' = state /\ running' = FALSE
    BY <1>1, <1>5, <1>10, <2>1, CleanReturn
  <2>3. "client" \in ended
        \/ \A p \in Ahead(said, "client", reader["client"].rd, WordEnd) : p > wire["client"]
    BY <1>1, <1>5, <1>10, CleanMisses
  <2>4. Clean'
    BY <1>1, <1>5, <2>2, CleanStep
  <2>5. ArgsRead(k) => ArgsRead(k)'
    BY <1>3, <1>5, <2>1, <2>2 DEF ArgsRead
  <2>6. "client" \notin ended => Unread("client", WordEnd)'
    BY <1>3, <1>5, <2>2, <2>3 DEF Unread
  <2>7. Reading(k)'
    BY <1>2, <1>3, <1>5, <1>9, <2>1, <2>2, <2>5, <2>6 DEF Reading
  <2> QED BY <1>1, <1>3, <1>4, <2>2, <2>4, <2>7 DEF Undamaged, Phase
<1>11. CASE Finds("client", WordEnd)
  <2> DEFINE q == Next1("client", WordEnd)
             rd == reader["client"].rd
             past == Past("client", WordEnd)
             units == Taken("client", WordEnd)
             arg == [word |-> Word(units), size |-> Last(units).size]
             rs == [ServerTruncated EXCEPT !["client"] = past]
             n == Len(args)
  <2>1. /\ q = First(said, "client", rd, WordEnd)
        /\ q <= wire["client"] /\ "client" \notin ended
        /\ CleanOne(past, wire["client"]) /\ past.rd = q
        /\ (past.eofSource <=> reader["client"].eofSource)
        /\ (past.closed <=> reader["client"].closed)
        /\ Word(units) = TextTo(said, "client", rd, q)
        /\ Last(units) = said["client"][q]
    BY <1>1, <1>5, <1>11, CleanFinds, TakenUnits
  <2>2. rs["client"] = past /\ rs["server"] = ServerTruncated["server"]
    BY <1>5 DEF Sides
  <2>3. Tidy(rs)
    <3> HIDE DEF past, rs
    <3> QED BY <1>5, <2>1, <2>2 DEF Tidy, Sides
  <2>4. /\ WordAt(said, k) <= rd /\ rd < LineAt(said, k) /\ ArgsRead(k)
        /\ \A j \in 1..3 : j <= Len(args) => ArgAt(said, k, j) # LineAt(said, k)
        /\ rd \in Nat /\ WordAt(said, k) \in Nat /\ LineAt(said, k) \in Nat
        /\ LineAt(said, k) <= C(k)
    BY <1>1, <1>2, <1>5, <1>8, <2>1, RequestFacts, LineFacts DEF Reading, TInv, Reader
  <2>5. args' = Append(args, arg) /\ args \in Seq(Arg) /\ n \in Nat
    BY <1>1, <1>11 DEF ReadArgs, TInv
  <2>6. /\ (said["client"][q].delim = "blank" => Continue("readArgs", rs))
        /\ (said["client"][q].delim # "blank" => Continue(CommandState(cmd.word), rs))
    BY <1>11, <2>1 DEF ReadArgs
  <2>7. arg.word = TextTo(said, "client", rd, q) /\ arg.size = said["client"][q].size
    BY <2>1
  <2> HIDE DEF q, past, units, arg, rs, rd, n
  <2>8. /\ q \in Nat /\ rd < q /\ q <= LineAt(said, k)
        /\ said["client"][q].delim \in WordEnd
        /\ (said["client"][q].delim = "eol" <=> q = LineAt(said, k))
    BY <1>1, <1>8, <2>1, <2>4, NextArg
  <2>9. rs["client"].rd = q /\ rs["server"].rd = wire["server"]
    BY <1>5, <2>1, <2>2
  <2>10. reader' = rs /\ running' = TRUE
    BY <2>6 DEF Continue
  <2>11. /\ Len(args') = n + 1 /\ args'[n + 1] = arg
         /\ \A j \in 1..n : args'[j] = args[j]
    BY <2>5 DEF n
  <2>12. ArgsRead(k)'
    <3>1. CASE n + 1 <= 3
      <4>1. n \in 0..3 /\ n <= 3
        BY <2>5, <3>1
      <4>2. rd = ArgAt(said, k, n)
        BY <2>4, <4>1 DEF ArgsRead, n, rd
      <4>3. q = ArgAt(said, k, n + 1)
        BY <2>1, <4>1, <4>2, ArgAtNext
      <4>4. ~(n + 1 >= 4)
        BY <2>5, <3>1
      <4> QED BY <1>3, <2>9, <2>10, <2>11, <4>3, <4>4 DEF ArgsRead
    <3>2. CASE n + 1 = 4
      <4>1. n = 3 /\ n <= 3 /\ 3 \in 0..3 /\ 3 + 1 = 4
        BY <2>5, <3>2
      <4>2. rd = ArgAt(said, k, 3)
        BY <2>4, <4>1 DEF ArgsRead, n, rd
      <4>3. q = ArgAt(said, k, 4)
        BY <2>1, <4>1, <4>2, ArgAtNext
      <4>4. \A j \in 1..3 : ArgAt(said, k, j) # LineAt(said, k)
        BY <2>4, <4>1 DEF n
      <4>5. Len(args') = 4 /\ args'[4] = arg /\ ~(4 <= 3)
        BY <2>11, <4>1
      <4> QED BY <1>3, <2>7, <4>2, <4>3, <4>4, <4>5 DEF ArgsRead
    <3>3. CASE n >= 4
      <4>1. 4 \in 1..n /\ ~(n + 1 <= 3)
        BY <2>5, <3>3
      <4>2. args'[4] = args[4] /\ Len(args') = n + 1
        BY <2>11, <4>1
      <4> QED BY <1>3, <2>4, <3>3, <4>1, <4>2 DEF ArgsRead, n
    <3> QED BY <2>5, <3>1, <3>2, <3>3
  <2>13. CASE said["client"][q].delim = "blank"
    <3>1. state' = "readArgs"
      BY <2>6, <2>13 DEF Continue
    <3>2. Clean'
      BY <1>1, <2>3, <2>10, <3>1, CleanStep
    <3>3. q < LineAt(said, k)
      BY <2>4, <2>8, <2>13
    <3>4. ASSUME NEW j \in 1..3, j <= n + 1 PROVE ArgAt(said, k, j) # LineAt(said, k)
      <4>1. CASE j <= n
        BY <2>4, <4>1 DEF n
      <4>2. CASE j = n + 1
        <5>1. n \in 0..3 /\ n <= 3
          BY <2>5, <4>2
        <5>2. rd = ArgAt(said, k, n)
          BY <2>4, <5>1 DEF ArgsRead, n, rd
        <5>3. q = ArgAt(said, k, n + 1)
          BY <2>1, <5>1, <5>2, ArgAtNext
        <5> QED BY <2>4, <2>8, <3>3, <4>2, <5>3
      <4> QED BY <2>5, <3>4, <4>1, <4>2
    <3>5. Unread("client", WordEnd)'
      BY <2>10 DEF Unread
    <3>6. WordAt(said, k) <= q
      BY <2>4, <2>8
    <3>7. Reading(k)'
      <4>1. reader'["client"].rd = q
        BY <2>9, <2>10
      <4>2. (\A j \in 1..3 : j <= Len(args) => ArgAt(said, k, j) # LineAt(said, k))'
        BY <1>3, <2>11, <3>4
      <4>3. (WordAt(said, k) <= reader["client"].rd /\ reader["client"].rd < LineAt(said, k))'
        BY <1>3, <3>3, <3>6, <4>1
      <4>4. ("client" \notin ended /\ CommandState(cmd.word) # "nil")'
        BY <1>3, <1>8, <1>9, <2>1
      <4> QED BY <1>9, <2>12, <3>5, <4>2, <4>3, <4>4 DEF Reading
    <3> QED BY <1>3, <1>4, <3>1, <3>2, <3>7 DEF Undamaged, Phase
  <2>14. CASE said["client"][q].delim # "blank"
    <3>1. state' = CommandState(cmd.word) /\ state' \in {"handleGet", "handleSet", "handleQuit"}
      BY <1>8, <2>6, <2>14, CommandStates DEF Continue
    <3>2. Clean'
      BY <1>1, <2>3, <2>10, <3>1, CleanStep
    <3>3. q = LineAt(said, k)
      BY <2>8, <2>14 DEF WordEnd
    <3>4. /\ wire["server"] = S(k - 1) /\ At(k) /\ Reported(S(k - 1)) /\ wire["client"] <= C(k)
      BY <1>8 DEF Before, At
    <3>5. CASE state' = "handleGet"
      <4>1. LineAt(said, k) = C(k)
        BY <1>6, <1>8, <3>1, <3>5 DEF Request, C
      <4>2. wire["client"] = C(k)
        BY <1>7, <2>1, <2>8, <3>3, <3>4, <4>1
      <4>3. S(k - 1) \in Starts(said, k)
        BY DEF Starts, S
      <4>4. /\ First(said, "server", S(k - 1), LineEnd) \in 1..Len(said["server"])
            /\ First(said, "server", S(k - 1), LineEnd) <= S(k)
            /\ S(k - 1) < First(said, "server", S(k - 1), LineEnd)
        BY <1>1, <1>8, <3>1, <3>5, <4>3, StartFacts
      <4>5. S(k - 1) < S(k)
        BY <1>7, <4>4
      <4>6. Unread("server", LineEnd)'
        BY <2>10 DEF Unread
      <4>7. reader'["server"].rd = S(k - 1) /\ reader'["client"].rd = C(k)
        BY <2>9, <2>10, <3>3, <3>4, <4>1
      <4>8. S(k - 1)' = S(k - 1)
        BY <1>3
      <4>9. /\ (S(k - 1) <= reader["server"].rd)' /\ (Reported(reader["server"].rd))'
        <5>1. PICK g \in Nat : g = S(k - 1)
          BY <1>7
        <5>2. S(k - 1)' = g /\ Reported(g)' /\ reader'["server"].rd = g
          BY <1>3, <1>4, <3>4, <4>7, <5>1
        <5>3. (reader["server"].rd)' = g
          BY <5>2
        <5>4. g <= g
          BY <5>1
        <5> QED BY <5>2, <5>3, <5>4 DEF Reported
      <4>10. Answered(k)'
        <5>1. CASE "server" \notin ended
          BY <1>3, <1>9, <2>1, <3>4, <4>6, <4>7, <4>9, <5>1 DEF Answered
        <5>2. CASE "server" \in ended
          <6>1. (Reported(S(k - 1)))'
            <7>1. PICK g \in Nat : g = S(k - 1)
              BY <1>7
            <7>2. S(k - 1)' = g /\ Reported(g)'
              BY <1>4, <3>4, <4>8, <7>1
            <7> QED BY <7>2 DEF Reported
          <6> QED BY <1>3, <1>7, <1>9, <3>4, <4>5, <5>2, <6>1 DEF Answered
        <5> QED BY <5>1, <5>2
      <4>11. (reader["server"].rd \in Starts(said, k))'
        BY <1>3, <4>3, <4>7
      <4>12. Getting(k)'
        BY <1>3, <1>9, <3>1, <3>5, <4>2, <4>10, <4>11 DEF Getting
      <4> QED BY <1>3, <1>4, <3>2, <3>5, <4>12 DEF Undamaged, Phase
    <3>6. CASE state' = "handleSet"
      <4>1. args' # <<>>
        BY <2>5, <2>11
      <4>2. Setting(k)'
        BY <1>3, <1>9, <2>1, <2>9, <2>10, <2>12, <3>1, <3>3, <3>4, <3>6, <4>1 DEF Setting
      <4> QED BY <1>3, <1>4, <3>2, <3>6, <4>2 DEF Undamaged, Phase
    <3>7. CASE state' = "handleQuit"
      BY <1>3, <1>4, <1>9, <2>10, <3>2, <3>7 DEF Undamaged, Phase
    <3> QED BY <3>1, <3>5, <3>6, <3>7
  <2> QED BY <2>13, <2>14
<1> QED BY <1>10, <1>11

\* What a state function that reports nothing leaves alone.
LEMMA QuietFrame ==
  ASSUME Healthy, UNCHANGED network, UNCHANGED <<eventBuf, handled>>
  PROVE  /\ TInv /\ Clean /\ Genuine /\ Orderly /\ Regular(said) /\ ~IsBinary(said)
         /\ said' = said /\ wire' = wire /\ ended' = ended
         /\ \A j : C(j)' = C(j) /\ S(j)' = S(j) /\ (At(j)' <=> At(j))
         /\ Genuine' /\ \A b : Reported(b)' <=> Reported(b)
         /\ state # "closed" /\ "client" \in Sides /\ "server" \in Sides
<1>1. /\ TInv /\ Clean /\ Genuine /\ Orderly /\ Regular(said) /\ ~IsBinary(said)
      /\ state # "closed" /\ "client" \in Sides /\ "server" \in Sides
  BY DEF Healthy, Undamaged, Orderly, Sides
<1>2. /\ said' = said /\ wire' = wire /\ ended' = ended
      /\ \A j : C(j)' = C(j) /\ S(j)' = S(j) /\ (At(j)' <=> At(j))
  BY Frame
<1>3. events' = events
  BY DEF events
<1>4. Genuine' /\ \A b : Reported(b)' <=> Reported(b)
  BY <1>1, <1>2, <1>3, FrameEvents
<1> QED BY <1>1, <1>2, <1>4

\* The request a command belongs to.
LEMMA InRequestFacts ==
  ASSUME Orderly, Regular(said), ~IsBinary(said), NEW k \in Requests(said), InRequest(k)
  PROVE  /\ cmd.word = WordOf(said, k) /\ Letters(WordOf(said, k))
         /\ k \in Nat \ {0} /\ Request(said, k) /\ Typed(said)
         /\ C(k - 1) \in Nat /\ C(k) \in Nat /\ S(k - 1) \in Nat /\ S(k) \in Nat
         /\ wire["client"] \in Nat /\ wire["server"] \in Nat
<1>1. cmd.word = WordOf(said, k) /\ Letters(WordOf(said, k))
  BY DEF InRequest
<1>2. k \in Nat \ {0} /\ Request(said, k) /\ Typed(said)
  BY RequestFacts
<1> QED BY <1>1, <1>2, Ends

\* discardResponse is entered at the start of the reply to the request.
LEMMA ToDiscarding ==
  ASSUME Healthy, UNCHANGED network, UNCHANGED <<cmd, args, eventBuf, handled>>,
         NEW k \in Requests(said), InRequest(k), Before(k),
         CommandState(cmd.word) \in {"nil", "handleSet"},
         reader'["server"].rd = S(k - 1), reader'["client"].rd = C(k), running'
  PROVE  Discarding(k)'
<1>1. /\ Orderly /\ Regular(said) /\ ~IsBinary(said)
      /\ said' = said /\ wire' = wire /\ ended' = ended
      /\ \A j : C(j)' = C(j) /\ S(j)' = S(j) /\ (At(j)' <=> At(j))
      /\ \A b : Reported(b)' <=> Reported(b)
  BY QuietFrame
<1>2. At(k) /\ wire["server"] = S(k - 1) /\ Reported(S(k - 1))
  BY DEF Before
<1>3. S(k - 1) < S(k) /\ S(k - 1) \in Nat
  BY <1>1, InRequestFacts, OneLineFacts
<1>4. PICK g \in Nat : g = S(k - 1)
  BY <1>3
<1>5. S(k - 1)' = g /\ Reported(g)' /\ reader'["server"].rd = g /\ g <= g
  BY <1>1, <1>2, <1>4
<1>6. (Reported(reader["server"].rd))' /\ (Reported(S(k - 1)))'
  BY <1>5 DEF Reported
<1>7. InRequest(k)'
  BY <1>1 DEF InRequest
<1>8. Unread("server", LineEnd)'
  BY DEF Unread
<1>9. CASE "server" \in ended
  <2>1. (S(k - 1) <= wire["server"] /\ wire["server"] < S(k))'
    BY <1>1, <1>2, <1>3
  <2>2. Answered(k)'
    BY <1>1, <1>6, <1>7, <1>9, <2>1 DEF Answered
  <2> QED BY <1>1, <1>9, <2>2 DEF Discarding
<1>10. CASE "server" \notin ended
  <2>1. (S(k - 1) <= reader["server"].rd)'
    BY <1>5
  <2>2. (reader["client"].rd = C(k))'
    BY <1>1
  <2>3. Answered(k)'
    BY <1>1, <1>2, <1>6, <1>7, <1>8, <1>10, <2>1, <2>2 DEF Answered
  <2>4. (reader["server"].rd = S(k - 1))'
    BY <1>5
  <2> QED BY <1>1, <1>10, <2>3, <2>4 DEF Discarding
<1> QED BY <1>9, <1>10

\* handleUnknown goes on to the reply.
LEMMA HandleUnknownHealthy ==
  ASSUME Healthy, HandleUnknown PROVE Undamaged'
<1>1. /\ UNCHANGED network /\ UNCHANGED <<cmd, args, eventBuf, handled>>
      /\ state = "handleUnknown" /\ reader' = reader /\ state' = "discardResponse" /\ running'
  BY DEF HandleUnknown, In, Discard, Continue
<1>2. /\ TInv /\ Clean /\ Genuine' /\ said' = said
  BY <1>1, QuietFrame
<1>3. PICK k \in Requests(said) : Unknown(k)
  BY <1>1 DEF Healthy, Undamaged, Phase
<1>4. Discarding(k)'
  BY <1>1, <1>3, ToDiscarding DEF Unknown
<1>5. Clean'
  BY <1>1, <1>2, TidyReader, CleanStep
<1> QED BY <1>1, <1>2, <1>3, <1>4, <1>5 DEF Undamaged, Phase

\* Behind the data of a set the next request begins.
LEMMA SetEnds ==
  ASSUME Orderly, Regular(said), ~IsBinary(said), NEW k \in Requests(said), Setting(k)
  PROVE  /\ Len(args) < 4 => C(k) = LineAt(said, k)
         /\ Len(args) >= 4 /\ args[4].word # <<"num">> => C(k) = LineAt(said, k)
         /\ Len(args) >= 4 /\ args[4].word = <<"num">> =>
              C(k) = LineAt(said, k) + args[4].size + 1
         /\ LineAt(said, k) \in Nat /\ reader["client"].rd = LineAt(said, k)
<1>1. /\ InRequest(k) /\ CommandState(cmd.word) = "handleSet" /\ ArgsRead(k)
      /\ args # <<>> /\ reader["client"].rd = LineAt(said, k)
  BY DEF Setting
<1>2. /\ cmd.word = WordOf(said, k) /\ Letters(WordOf(said, k)) /\ Request(said, k)
  BY <1>1, InRequestFacts
<1>3. C(k) = LineAt(said, k) + DataOf(said, k)
  BY <1>1, <1>2 DEF Request, C
<1>4. LineAt(said, k) \in Nat
  BY <1>1, <1>2, LineFacts
<1>5. args \in Seq(Arg) /\ Len(args) \in Nat
  BY DEF Orderly, TInv
<1>6. ASSUME Len(args) < 4 PROVE C(k) = LineAt(said, k)
  <2>1. Len(args) \in 1..3 /\ Len(args) <= 3
    <3>1. Len(args) # 0
      BY <1>1, <1>5
    <3>2. \A n \in Nat : n # 0 /\ n < 4 => n \in 1..3 /\ n <= 3
      OBVIOUS
    <3> QED BY <1>5, <1>6, <3>1, <3>2
  <2>2. ArgAt(said, k, Len(args)) = LineAt(said, k)
    BY <1>1, <2>1 DEF ArgsRead
  <2>3. DataOf(said, k) = 0
    BY <2>1, <2>2 DEF DataOf
  <2> QED BY <1>3, <1>4, <2>3
<1>7. ASSUME Len(args) >= 4
      PROVE  /\ args[4].word = TextTo(said, "client", ArgAt(said, k, 3), ArgAt(said, k, 4))
             /\ args[4].size = said["client"][ArgAt(said, k, 4)].size
             /\ \A j \in 1..3 : ArgAt(said, k, j) # LineAt(said, k)
  BY <1>1, <1>7 DEF ArgsRead
<1>8. ASSUME Len(args) >= 4, args[4].word # <<"num">> PROVE C(k) = LineAt(said, k)
  <2>1. DataOf(said, k) = 0
    BY <1>7, <1>8 DEF DataOf
  <2> QED BY <1>3, <1>4, <2>1
<1>9. ASSUME Len(args) >= 4, args[4].word = <<"num">>
      PROVE  C(k) = LineAt(said, k) + args[4].size + 1
  <2>1. DataOf(said, k) = args[4].size + 1
    BY <1>7, <1>9 DEF DataOf
  <2>2. args[4] \in Arg
    BY <1>5, <1>9
  <2>3. args[4].size \in Nat
    BY <2>2 DEF Arg
  <2> QED BY <1>3, <1>4, <2>1, <2>3
<1> QED BY <1>1, <1>4, <1>6, <1>8, <1>9

\* handleSet skips the data, arrived or not, and goes on to the reply.
LEMMA HandleSetHealthy ==
  ASSUME Healthy, HandleSet PROVE Undamaged'
<1>1. /\ UNCHANGED network /\ UNCHANGED <<cmd, args, eventBuf, handled>> /\ state = "handleSet"
  BY DEF HandleSet, In
<1>2. /\ TInv /\ Clean /\ Genuine' /\ said' = said /\ Orderly /\ Regular(said)
      /\ ~IsBinary(said) /\ "client" \in Sides /\ "server" \in Sides
  BY <1>1, QuietFrame
<1>3. PICK k \in Requests(said) : Setting(k)
  BY <1>1 DEF Healthy, Undamaged, Phase
<1> DEFINE r == reader["client"]
           n == args[4].size + 1
           rs == [reader EXCEPT !["client"] = Discarded(r, n)]
<1>4. /\ CleanOne(r, wire["client"]) /\ ~r.err /\ ~r.eofSource /\ r.lost = {} /\ r \in Reader
      /\ reader["server"].rd = S(k - 1) /\ reader \in [Sides -> Reader]
      /\ InRequest(k) /\ Before(k) /\ CommandState(cmd.word) = "handleSet"
  BY <1>1, <1>2, <1>3 DEF Clean, CleanOne, Setting, TInv
<1>5. /\ Len(args) < 4 => C(k) = r.rd
      /\ Len(args) >= 4 /\ args[4].word # <<"num">> => C(k) = r.rd
      /\ Len(args) >= 4 /\ args[4].word = <<"num">> => C(k) = r.rd + args[4].size + 1
      /\ r.rd \in Nat /\ C(k) \in Nat
  BY <1>2, <1>3, <1>4, SetEnds, InRequestFacts
<1>6. args \in Seq(Arg) /\ Len(args) \in Nat
  BY <1>2 DEF TInv
<1>7. CASE reader' = reader /\ state' = "discardResponse" /\ running' /\ C(k) = r.rd
  <2>1. Discarding(k)'
    BY <1>1, <1>4, <1>7, ToDiscarding
  <2>2. Clean'
    BY <1>1, <1>2, <1>7, TidyReader, CleanStep
  <2> QED BY <1>2, <1>7, <2>1, <2>2 DEF Undamaged, Phase
<1>8. CASE /\ reader' = rs /\ state' = "discardResponse" /\ running'
           /\ Len(args) >= 4 /\ C(k) = r.rd + args[4].size + 1
  <2>1. args[4] \in Arg
    BY <1>6, <1>8
  <2>2. args[4].size \in Nat
    BY <2>1 DEF Arg
  <2>3. n \in Nat /\ r.rd + n = C(k)
    BY <1>5, <1>8, <2>2
  <2>4. rs["client"] = Discarded(r, n) /\ rs["server"] = reader["server"]
    BY <1>2, <1>4
  <2> HIDE DEF n, rs
  <2>5. Discarded(r, n) = [r EXCEPT !.rd = C(k), !.lost = {}]
    BY <1>4, <2>3 DEF Discarded, Reader
  <2>6. /\ Discarded(r, n).rd = C(k) /\ CleanOne(Discarded(r, n), wire["client"])
        /\ (Discarded(r, n).eofSource <=> r.eofSource) /\ (Discarded(r, n).closed <=> r.closed)
    BY <1>4, <1>5, <2>5 DEF CleanOne, Reader
  <2>7. Tidy(reader')
    BY <1>2, <1>8, <2>4, <2>6 DEF Tidy, Clean, Sides
  <2>8. Clean'
    BY <1>1, <1>2, <1>8, <2>7, CleanStep
  <2>9. reader'["server"].rd = S(k - 1) /\ reader'["client"].rd = C(k)
    BY <1>4, <1>8, <2>4, <2>6
  <2>10. Discarding(k)'
    BY <1>1, <1>4, <1>8, <2>9, ToDiscarding
  <2> QED BY <1>2, <1>8, <2>8, <2>10 DEF Undamaged, Phase
<1>9. CASE Len(args) < 4
  <2>1. Discard(reader)
    <3>1. ~(Len(args) >= 4)
      BY <1>6, <1>9
    <3> QED BY <1>9, <3>1 DEF HandleSet
  <2> QED BY <1>5, <1>7, <1>9, <2>1 DEF Discard, Continue
<1>10. CASE Len(args) >= 4 /\ args[4].word # <<"num">>
  <2>1. Discard(reader)
    <3>1. ~(Len(args) < 4)
      BY <1>6, <1>10
    <3> QED BY <1>10, <3>1 DEF HandleSet
  <2> QED BY <1>5, <1>7, <1>10, <2>1 DEF Discard, Continue
<1>11. CASE Len(args) >= 4 /\ args[4].word = <<"num">>
  <2>1. Discard(rs)
    BY <1>4, <1>6, <1>11 DEF HandleSet
  <2> QED BY <1>5, <1>8, <1>11, <2>1 DEF Discard, Continue
<1> QED BY <1>6, <1>9, <1>10, <1>11

\* A reply that has not ended yet keeps the state function waiting.
LEMMA KeepsAnswered ==
  ASSUME Healthy, UNCHANGED network, UNCHANGED <<cmd, args, eventBuf, handled>>,
         reader' = reader, NEW k \in Requests(said), Answered(k),
         "server" \notin ended => Unread("server", LineEnd)'
  PROVE  Answered(k)'
<1>1. /\ said' = said /\ wire' = wire /\ ended' = ended
      /\ \A j : C(j)' = C(j) /\ S(j)' = S(j) /\ (At(j)' <=> At(j))
      /\ \A b : Reported(b)' <=> Reported(b)
  BY QuietFrame
<1>2. events' = events
  BY DEF events
<1>3. InRequest(k) <=> InRequest(k)'
  BY <1>1 DEF InRequest
<1>4. (Reported(S(k - 1)))' <=> Reported(S(k - 1))
  BY <1>1, <1>2 DEF Reported
<1>5. (Reported(reader["server"].rd))' <=> Reported(reader["server"].rd)
  BY <1>1, <1>2 DEF Reported
<1> QED BY <1>1, <1>3, <1>4, <1>5 DEF Answered

\* discardResponse reads the one line of the reply.
LEMMA DiscardResponseHealthy ==
  ASSUME Healthy, DiscardResponse PROVE Undamaged'
<1>1. /\ UNCHANGED network /\ UNCHANGED <<cmd, args, eventBuf, handled>>
      /\ state = "discardResponse"
  BY DEF DiscardResponse, In
<1>2. /\ TInv /\ Clean /\ Genuine' /\ said' = said /\ wire' = wire /\ ended' = ended
      /\ Orderly /\ Regular(said) /\ ~IsBinary(said) /\ "client" \in Sides /\ "server" \in Sides
      /\ \A j : C(j)' = C(j) /\ S(j)' = S(j) /\ (At(j)' <=> At(j))
      /\ \A b : Reported(b)' <=> Reported(b)
  BY <1>1, QuietFrame
<1>3. PICK k \in Requests(said) : Discarding(k)
  BY <1>1 DEF Healthy, Undamaged, Phase
<1>4. Answered(k) /\ InRequest(k) /\ CommandState(cmd.word) \in {"nil", "handleSet"}
  BY <1>3 DEF Discarding, Answered
<1>5. /\ cmd.word = WordOf(said, k) /\ Letters(WordOf(said, k))
      /\ k \in Nat \ {0} /\ Typed(said)
      /\ C(k) \in Nat /\ S(k - 1) \in Nat /\ S(k) \in Nat
      /\ wire["client"] \in Nat /\ wire["server"] \in Nat
  BY <1>2, <1>4, InRequestFacts
<1>6. CASE ~Finds("server", LineEnd)
  <2>1. Return(Failure("server"), reader)
    BY <1>6 DEF DiscardResponse
  <2>2. reader' = reader /\ state' = state /\ running' = FALSE
    BY <1>1, <1>2, <1>6, <2>1, CleanReturn
  <2>3. "server" \in ended
        \/ \A p \in Ahead(said, "server", reader["server"].rd, LineEnd) : p > wire["server"]
    BY <1>1, <1>2, <1>6, CleanMisses
  <2>4. "server" \notin ended => Unread("server", LineEnd)'
    BY <1>2, <2>2, <2>3 DEF Unread
  <2>5. Answered(k)'
    BY <1>1, <1>4, <2>2, <2>4, KeepsAnswered
  <2>6. Discarding(k)'
    BY <1>1, <1>2, <1>3, <2>2, <2>5 DEF Discarding
  <2>7. Clean'
    BY <1>1, <1>2, <2>2, TidyReader, CleanStep
  <2> QED BY <1>1, <1>2, <2>2, <2>6, <2>7 DEF Undamaged, Phase
<1>7. CASE Finds("server", LineEnd)
  <2> DEFINE past == Past("server", LineEnd)
             q == Next1("server", LineEnd)
             rs == [reader EXCEPT !["server"] = past]
  <2>1. /\ q = First(said, "server", reader["server"].rd, LineEnd)
        /\ q <= wire["server"] /\ "server" \notin ended
        /\ CleanOne(past, wire["server"])
        /\ (past.eofSource <=> reader["server"].eofSource)
        /\ (past.closed <=> reader["server"].closed)
    BY <1>1, <1>2, <1>7, CleanFinds
  <2>2. /\ reader["server"].rd = S(k - 1) /\ At(k) /\ Reported(S(k - 1))
        /\ ("client" \notin ended => reader["client"].rd = C(k))
    BY <1>3, <2>1 DEF Discarding, Answered
  <2>3. q = S(k) /\ NoHits(said, k) /\ S(k - 1) < S(k)
    BY <1>2, <1>4, <1>5, <2>1, <2>2, OneLineFacts
  <2>4. reader' = rs /\ state' = "readCommand"
    BY <1>7 DEF DiscardResponse, Continue
  <2>5. rs["server"] = past /\ rs["client"] = reader["client"]
    BY <1>2 DEF TInv
  <2> HIDE DEF q, past, rs
  <2>6. wire["server"] = S(k) /\ wire["client"] = C(k)
    BY <1>5, <2>1, <2>2, <2>3 DEF At
  <2>7. HitsIn(said, S(k - 1), S(k)) = {}
    BY <2>3 DEF NoHits, S
  <2>8. Reported(S(k))
    BY <1>5, <2>2, <2>7, ReportedUpTo
  <2>9. Tidy(reader')
    BY <1>2, <2>1, <2>4, <2>5 DEF Tidy, Clean, Sides
  <2>10. Clean'
    BY <1>1, <1>2, <2>4, <2>9, CleanStep
  <2>11. Finished(k)'
    <3>1. (Reported(S(k)))'
      <4>1. PICK g \in Nat : g = S(k)
        BY <1>5
      <4>2. S(k)' = g /\ Reported(g)'
        BY <1>2, <2>8, <4>1
      <4> QED BY <4>2 DEF Reported
    <3>2. ("client" \notin ended => reader["client"].rd = C(k) /\ wire["client"] = C(k))'
      BY <1>2, <2>2, <2>4, <2>5, <2>6
    <3> QED BY <1>2, <2>2, <3>1, <3>2 DEF Finished
  <2> QED BY <1>2, <2>4, <2>10, <2>11 DEF Undamaged, Phase
<1> QED BY <1>6, <1>7

\* handleQuit closes the readers.
LEMMA HandleQuitHealthy ==
  ASSUME Healthy, HandleQuit PROVE Undamaged'
<1>1. /\ UNCHANGED network /\ UNCHANGED <<cmd, args, eventBuf, handled>> /\ state = "handleQuit"
      /\ reader' = [s \in Sides |-> Closed(reader[s])] /\ state' = "quit"
  BY DEF HandleQuit, In
<1>2. TInv /\ Clean /\ Genuine' /\ wire' = wire /\ ended' = ended
  BY <1>1, QuietFrame
<1>3. ASSUME NEW s \in Sides
      PROVE  CleanOne(Closed(reader[s]), wire[s])
             /\ (Closed(reader[s]).eofSource <=> reader[s].eofSource)
  <2>1. wire[s] \in Nat /\ CleanOne(reader[s], wire[s])
    BY <1>2 DEF TInv, Clean
  <2>2. /\ CleanOne(Truncated(reader[s]), wire[s]) /\ Truncated(reader[s]) \in Reader
        /\ (Truncated(reader[s]).eofSource <=> reader[s].eofSource)
    BY <2>1, CleanEmptied DEF CleanOne
  <2>3. Closed(reader[s]) = [Truncated(reader[s]) EXCEPT !.closed = TRUE]
    BY DEF Closed
  <2> QED BY <2>2, <2>3 DEF CleanOne, Reader
<1>4. Clean'
  <2>1. \A s \in Sides : CleanOne(reader'[s], wire'[s]) /\ (reader'[s].eofSource <=> s \in ended')
    BY <1>1, <1>2, <1>3 DEF Clean
  <2> QED BY <1>1, <2>1 DEF Clean
<1> QED BY <1>1, <1>2, <1>4 DEF Undamaged, Phase

\* The line at a place where the reply to a get is read on.
LEMMA GetLine ==
  ASSUME Orderly, Regular(said), ~IsBinary(said), NEW k \in Requests(said),
         Letters(WordOf(said, k)), CommandState(WordOf(said, k)) = "handleGet",
         NEW g \in Nat, g \in Starts(said, k), S(k - 1) <= g,
         NEW q, q = First(said, "server", g, LineEnd),
         NEW line, line = TextTo(said, "server", g, q)
  PROVE  /\ q \in 1..Len(said["server"]) /\ g < q /\ q <= S(k)
         /\ IF IsValue(line) /\ line[2] = "num"
            THEN /\ g + 1 \in HitsIn(said, 0, Len(said["server"]))
                 /\ HitsIn(said, g + 1, q + said["server"][q].size + 1) = {}
                 /\ q + said["server"][q].size + 1 \in Starts(said, k)
            ELSE HitsIn(said, g, S(k)) = {} /\ (~IsValue(line) => q = S(k))
<1>1. GetReply(said, k) /\ Typed(said) /\ k \in Nat \ {0}
  BY RequestFacts DEF Request
<1>2. q \in 1..Len(said["server"]) /\ g < q /\ q <= S(k)
  BY StartFacts
<1>3. S(k - 1) \in Nat /\ S(k) \in Nat /\ S(k) <= Len(said["server"])
  BY <1>1, Ends
<1>4. /\ g + 1 \in HitsIn(said, g, S(k)) =>
           IsValue(line) /\ line[2] = "num" /\ HitsIn(said, g + 1, Behind(said, g)) = {}
      /\ g + 1 \notin HitsIn(said, g, S(k)) =>
           /\ HitsIn(said, g, S(k)) = {}
           /\ IF IsValue(line) THEN line[2] # "num" ELSE q = S(k)
  BY <1>1 DEF GetReply, S
<1>5. Behind(said, g) = q + said["server"][q].size + 1
  BY DEF Behind
<1>6. CASE g + 1 \in HitsIn(said, g, S(k))
  <2>1. /\ g + 1 \in DOMAIN said["server"] /\ said["server"][g + 1].hit /\ g + 1 <= S(k)
        /\ Len(said["server"]) \in Nat
    BY <1>1, <1>6 DEF HitsIn, Typed, Sides
  <2>2. g + 1 \in HitsIn(said, 0, Len(said["server"])) /\ g + 1 \in HitsIn(said, S(k - 1), S(k))
    BY <1>3, <2>1 DEF HitsIn
  <2>3. Behind(said, (g + 1) - 1) \in Starts(said, k)
    BY <2>2 DEF Starts, S
  <2>4. (g + 1) - 1 = g
    OBVIOUS
  <2> QED BY <1>2, <1>4, <1>5, <1>6, <2>2, <2>3, <2>4
<1>7. CASE g + 1 \notin HitsIn(said, g, S(k))
  BY <1>2, <1>4, <1>7
<1> QED BY <1>6, <1>7

\* The range of a sequence with one more member.
LEMMA OneMore ==
  ASSUME NEW s \in Seq(Nat), NEW e \in Nat
  PROVE  Range(Append(s, e)) = Range(s) \cup {e}
<1>1. /\ Append(s, e) \in Seq(Nat) /\ Len(Append(s, e)) = Len(s) + 1 /\ Len(s) \in Nat
      /\ DOMAIN s = 1..Len(s) /\ DOMAIN Append(s, e) = 1..(Len(s) + 1)
      /\ Append(s, e)[Len(s) + 1] = e /\ \A j \in 1..Len(s) : Append(s, e)[j] = s[j]
  OBVIOUS
<1> DEFINE t == Append(s, e)
<1> HIDE DEF t
<1>2. ASSUME NEW x \in Range(t) PROVE x \in Range(s) \cup {e}
  <2>1. PICK j \in DOMAIN t : x = t[j]
    BY DEF Range
  <2>2. j \in 1..Len(s) \/ j = Len(s) + 1
    BY <1>1, <2>1 DEF t
  <2> QED BY <1>1, <2>1, <2>2 DEF Range, t
<1>3. ASSUME NEW x \in Range(s) PROVE x \in Range(t)
  <2>1. PICK j \in DOMAIN s : x = s[j]
    BY DEF Range
  <2>2. j \in DOMAIN t /\ t[j] = x
    BY <1>1, <2>1 DEF t
  <2> QED BY <2>2 DEF Range
<1>4. e \in Range(t)
  <2>1. Len(s) + 1 \in DOMAIN t /\ t[Len(s) + 1] = e
    BY <1>1 DEF t
  <2> QED BY <2>1 DEF Range
<1> QED BY <1>2, <1>3, <1>4 DEF t

\* A hit reported: nothing else lies between it and the end of its data.
LEMMA HitReported ==
  ASSUME TInv, said' = said, NEW g \in Nat, NEW b \in Nat, Reported(g), Genuine,
         g + 1 \in HitsIn(said, 0, Len(said["server"])), HitsIn(said, g + 1, b) = {},
         events' = Append(events, g + 1)
  PROVE  Reported(b)' /\ Genuine'
<1>1. events \in Seq(Nat)
  BY EventsType
<1>2. Range(events') = Range(events) \cup {g + 1}
  BY <1>1, OneMore
<1>3. Genuine'
  BY <1>2 DEF Genuine
<1>4. ASSUME NEW p \in HitsIn(said, 0, b) PROVE p \in Range(events')
  <2>1. p \in DOMAIN said["server"] /\ said["server"][p].hit /\ 0 < p /\ p <= b /\ p \in Nat
    BY SMTT(30) DEF HitsIn, TInv, Typed, Sides
  <2>2. CASE p <= g
    <3>1. p \in HitsIn(said, 0, g)
      BY <2>1, <2>2 DEF HitsIn
    <3> QED BY <1>2, <3>1 DEF Reported
  <2>3. CASE p = g + 1
    BY <1>2, <2>3
  <2>4. CASE g + 1 < p
    <3>1. p \in HitsIn(said, g + 1, b)
      BY <2>1, <2>4 DEF HitsIn
    <3> QED BY <3>1
  <2> QED BY <2>1, <2>2, <2>3, <2>4
<1>5. Reported(b)'
  BY <1>4 DEF Reported
<1> QED BY <1>3, <1>5

\* handleGet reports the hits of the reply, one line after the other.
LEMMA HandleGetHealthy ==
  ASSUME Healthy, HandleGet PROVE Undamaged'
<1>1. /\ UNCHANGED network /\ UNCHANGED <<cmd, args>> /\ state = "handleGet"
      /\ TInv /\ Clean /\ Genuine /\ Orderly /\ Regular(said) /\ ~IsBinary(said)
      /\ "client" \in Sides /\ "server" \in Sides
  BY DEF HandleGet, In, Healthy, Undamaged, Orderly, Sides
<1>2. /\ said' = said /\ wire' = wire /\ ended' = ended
      /\ \A j : C(j)' = C(j) /\ S(j)' = S(j) /\ (At(j)' <=> At(j))
  BY <1>1, Frame
<1>3. PICK k \in Requests(said) : Getting(k)
  BY <1>1 DEF Healthy, Undamaged, Phase
<1>4. Answered(k) /\ InRequest(k) /\ CommandState(cmd.word) = "handleGet"
  BY <1>3 DEF Getting, Answered
<1>5. /\ cmd.word = WordOf(said, k) /\ Letters(WordOf(said, k))
      /\ k \in Nat \ {0} /\ Typed(said)
      /\ C(k) \in Nat /\ S(k - 1) \in Nat /\ S(k) \in Nat
      /\ wire["client"] \in Nat /\ wire["server"] \in Nat
  BY <1>1, <1>4, InRequestFacts
<1>6. CASE ~Finds("server", LineEnd)
  <2>1. Return(Failure("server"), reader) /\ UNCHANGED <<eventBuf, handled>>
    BY <1>6 DEF HandleGet
  <2>2. reader' = reader /\ state' = state /\ running' = FALSE
    BY <1>1, <1>6, <2>1, CleanReturn
  <2>3. "server" \in ended
        \/ \A p \in Ahead(said, "server", reader["server"].rd, LineEnd) : p > wire["server"]
    BY <1>1, <1>6, CleanMisses
  <2>4. "server" \notin ended => Unread("server", LineEnd)'
    BY <1>2, <2>2, <2>3 DEF Unread
  <2>5. Answered(k)'
    BY <1>1, <1>4, <2>1, <2>2, <2>4, KeepsAnswered
  <2>6. Getting(k)'
    BY <1>1, <1>2, <1>3, <2>2, <2>5 DEF Getting
  <2>7. Clean'
    BY <1>1, <2>2, TidyReader, CleanStep
  <2>8. Genuine'
    BY <1>1, <2>1, QuietFrame
  <2> QED BY <1>1, <1>2, <2>2, <2>6, <2>7, <2>8 DEF Undamaged, Phase
<1>7. CASE Finds("server", LineEnd)
  <2> DEFINE g == reader["server"].rd
             past == Past("server", LineEnd)
             q == Next1("server", LineEnd)
             units == Taken("server", LineEnd)
             line == Word(units)
             size == Last(units).size
             rs(r) == [reader EXCEPT !["server"] = r]
             b == q + said["server"][q].size + 1
  <2>1. /\ q = First(said, "server", g, LineEnd)
        /\ q <= wire["server"] /\ "server" \notin ended
        /\ CleanOne(past, wire["server"]) /\ past.rd = q
        /\ (past.eofSource <=> reader["server"].eofSource)
        /\ (past.closed <=> reader["server"].closed)
        /\ line = TextTo(said, "server", g, q) /\ Last(units) = said["server"][q]
    BY <1>1, <1>7, CleanFinds, TakenUnits
  <2>2. /\ At(k) /\ Reported(g) /\ S(k - 1) <= g /\ g \in Starts(said, k)
        /\ ("client" \notin ended => reader["client"].rd = C(k))
        /\ wire["client"] = C(k)
    BY <1>3, <1>4, <2>1 DEF Getting, Answered
  <2>3. /\ ~reader["server"].eofSource /\ reader \in [Sides -> Reader] /\ g \in Nat
        /\ reader["server"] \in Reader
    BY <1>1, <1>7 DEF Finds, TInv, Reader
  <2>4. \A r : rs(r)["server"] = r /\ rs(r)["client"] = reader["client"]
    BY <1>1, <2>3
  <2>5. ASSUME NEW r, CleanOne(r, wire["server"]), ~r.eofSource, (r.closed <=> reader["server"].closed)
        PROVE  Tidy(rs(r))
    <3> HIDE DEF rs
    <3> QED BY <1>1, <2>3, <2>4, <2>5 DEF Tidy, Clean, Sides
  <2>6. \/ /\ IsValue(line) /\ line[2] = "num" /\ AddEvent(g + 1)
           /\ Continue("handleGet", rs(Discarded(past, size + 1)))
        \/ /\ IsValue(line) /\ line[2] # "num" /\ UNCHANGED <<eventBuf, handled>>
           /\ Return("Atoi", rs(past))
        \/ /\ ~IsValue(line) /\ UNCHANGED <<eventBuf, handled>>
           /\ Continue("readCommand", rs(past))
    BY <1>7 DEF HandleGet, IsValue
  <2> HIDE DEF g, past, q, units, line, size, rs
  <2>7. /\ q \in 1..Len(said["server"]) /\ g < q /\ q <= S(k)
        /\ IF IsValue(line) /\ line[2] = "num"
           THEN /\ g + 1 \in HitsIn(said, 0, Len(said["server"]))
                /\ HitsIn(said, g + 1, b) = {} /\ b \in Starts(said, k)
           ELSE HitsIn(said, g, S(k)) = {} /\ (~IsValue(line) => q = S(k))
    BY <1>1, <1>4, <1>5, <2>1, <2>2, <2>3, GetLine
  <2>8. said["server"][q].size \in Nat /\ q \in Nat /\ b \in Nat /\ g <= b /\ q < b
    <3>1. said["server"][q].size \in Nat /\ q \in Nat
      BY <1>1, <1>5, <2>7, UnitsTyped
    <3> QED BY <2>3, <2>7, <3>1
  <2>9. ASSUME UNCHANGED <<eventBuf, handled>>, HitsIn(said, g, S(k)) = {},
               reader'["client"].rd = C(k) \/ "client" \in ended
        PROVE  Finished(k)' /\ Genuine'
    <3>1. Reported(S(k))
      BY <1>5, <2>2, <2>3, <2>9, ReportedUpTo
    <3>2. Genuine' /\ \A p : Reported(p)' <=> Reported(p)
      BY <1>1, <2>9, QuietFrame
    <3>3. PICK z \in Nat : z = S(k)
      BY <1>5
    <3>4. S(k)' = z /\ Reported(z)'
      BY <1>2, <3>1, <3>2, <3>3
    <3>5. (Reported(S(k)))'
      BY <3>4 DEF Reported
    <3>6. ("client" \notin ended => reader["client"].rd = C(k) /\ wire["client"] = C(k))'
      BY <1>2, <2>2, <2>9
    <3> QED BY <1>2, <2>2, <3>2, <3>5, <3>6 DEF Finished
  <2>10. CASE /\ IsValue(line) /\ line[2] = "num" /\ AddEvent(g + 1)
              /\ Continue("handleGet", rs(Discarded(past, size + 1)))
    <3> DEFINE to == Discarded(past, size + 1)
    <3>1. reader' = rs(to) /\ state' = "handleGet" /\ running' = TRUE
      BY <2>10 DEF Continue
    <3>2. to = [past EXCEPT !.rd = b, !.lost = {}]
      <4>1. past \in Reader /\ past.lost = {} /\ past.rd = q /\ ~past.eofSource
        BY <2>1, <2>3 DEF CleanOne
      <4>2. size = said["server"][q].size
        BY <2>1 DEF size
      <4>3. q + (size + 1) = b
        BY <2>8, <4>2
      <4> HIDE DEF b
      <4> QED BY <4>1, <4>3 DEF Discarded
    <3> HIDE DEF b, to
    <3>3. CleanOne(to, wire["server"]) /\ to.rd = b /\ ~to.eofSource
          /\ (to.closed <=> reader["server"].closed)
      BY <2>1, <2>3, <2>8, <3>2 DEF CleanOne, Reader
    <3>4. Clean'
      BY <1>1, <2>5, <3>1, <3>3, CleanStep
    <3>5. events' = Append(events, g + 1)
      <4>1. g + 1 \in Nat
        BY <2>3
      <4> QED BY <1>1, <2>10, <4>1, AddEventAppends
    <3>6. PICK d \in Nat, h \in Nat : d = b /\ h = g
      BY <2>3, <2>8
    <3>7. reader'["server"].rd = b /\ reader'["client"].rd = reader["client"].rd
      BY <2>4, <3>1, <3>3
    <3>8. (Reported(reader["server"].rd))' /\ Genuine'
      <4>1. Reported(h) /\ h + 1 \in HitsIn(said, 0, Len(said["server"]))
            /\ HitsIn(said, h + 1, d) = {} /\ events' = Append(events, h + 1)
        BY <2>2, <2>7, <2>10, <3>5, <3>6
      <4>2. Reported(d)' /\ Genuine'
        BY <1>1, <1>2, <4>1, HitReported
      <4>3. (reader["server"].rd)' = d
        BY <3>6, <3>7
      <4> QED BY <4>2, <4>3 DEF Reported
    <3>9. Unread("server", LineEnd)'
      BY <3>1 DEF Unread
    <3>10. InRequest(k)'
      BY <1>1, <1>2, <1>4 DEF InRequest
    <3>11. S(k - 1) <= b
      BY <1>5, <2>2, <2>3, <2>8
    <3>12. (S(k - 1) <= reader["server"].rd)'
      BY <1>2, <3>7, <3>11
    <3>13. ("client" \notin ended => reader["client"].rd = C(k))'
      BY <1>2, <2>2, <3>7
    <3>14. Answered(k)'
      BY <1>2, <2>1, <2>2, <3>8, <3>9, <3>10, <3>12, <3>13 DEF Answered
    <3>15. (reader["server"].rd \in Starts(said, k) /\ wire["client"] = C(k))'
      BY <1>2, <2>2, <2>7, <2>10, <3>7
    <3>16. Getting(k)'
      BY <1>1, <1>4, <3>14, <3>15 DEF Getting
    <3> QED BY <1>2, <3>1, <3>4, <3>8, <3>16 DEF Undamaged, Phase
  <2>11. CASE /\ IsValue(line) /\ line[2] # "num" /\ UNCHANGED <<eventBuf, handled>>
              /\ Return("Atoi", rs(past))
    <3>1. /\ reader' = [s \in Sides |-> Reset(rs(past)[s])] /\ state' = "readCommand"
      BY <2>11 DEF Return
    <3>2. Tidy(rs(past))
      BY <2>1, <2>3, <2>5
    <3>3. Tidy(reader') /\ \A s \in Sides : reader'[s].rd = wire[s]
      BY <1>1, <3>1, <3>2, TidyReset
    <3>4. Clean'
      BY <1>1, <3>1, <3>3, CleanStep
    <3>5. reader'["client"].rd = C(k)
      BY <1>1, <2>2, <3>3
    <3>6. Finished(k)' /\ Genuine'
      BY <2>7, <2>9, <2>11, <3>5
    <3> QED BY <1>2, <3>1, <3>4, <3>6 DEF Undamaged, Phase
  <2>12. CASE /\ ~IsValue(line) /\ UNCHANGED <<eventBuf, handled>>
              /\ Continue("readCommand", rs(past))
    <3>1. reader' = rs(past) /\ state' = "readCommand"
      BY <2>12 DEF Continue
    <3>2. Tidy(rs(past))
      BY <2>1, <2>3, <2>5
    <3>3. Clean'
      BY <1>1, <3>1, <3>2, CleanStep
    <3>4. reader'["client"].rd = C(k) \/ "client" \in ended
      BY <2>2, <2>4, <3>1
    <3>5. Finished(k)' /\ Genuine'
      BY <2>7, <2>9, <2>12, <3>4
    <3> QED BY <1>2, <3>1, <3>3, <3>5 DEF Undamaged, Phase
  <2> QED BY <2>6, <2>10, <2>11, <2>12
<1> QED BY <1>6, <1>7

\* Every state function leaves an undamaged conversation so.
LEMMA StepHealthy ==
  ASSUME Healthy, Step PROVE Undamaged'
  BY PeekHealthy, ReadCommandHealthy, ReadArgsHealthy, HandleGetHealthy, HandleSetHealthy,
     HandleUnknownHealthy, DiscardResponseHealthy, HandleQuitHealthy DEF Step

-----------------------------------------------------------------------------
(* Packets while nothing is lost.                                          *)

\* A packet leaves the conversation where it is, unless it is the client's and
\* the request was answered.
LEMMA StaysAt ==
  ASSUME Orderly, said' = said, NEW i \in Nat \ {0}, At(i),
         NEW s \in Sides, NEW n \in Nat, Crosses(s, n),
         n # 0 /\ s = "client" => wire["client"] # C(i) \/ wire["server"] # S(i)
  PROVE  At(i)' /\ (wire["client"] < C(i) => wire'["server"] = wire["server"])
<1>1. /\ C(i - 1) \in Nat /\ C(i) \in Nat /\ S(i - 1) \in Nat /\ S(i) \in Nat
      /\ wire["client"] \in Nat /\ wire["server"] \in Nat
  BY Ends
<1>2. C(i)' = C(i) /\ C(i - 1)' = C(i - 1) /\ S(i)' = S(i) /\ S(i - 1)' = S(i - 1)
  BY DEF C, S
<1>3. wire' = [wire EXCEPT ![s] = @ + n] /\ wire \in [Sides -> Nat]
  BY DEF Crosses, Orderly, TInv
<1>4. CASE n = 0
  <2>1. wire'["client"] = wire["client"] /\ wire'["server"] = wire["server"]
    BY <1>1, <1>3, <1>4 DEF Sides
  <2> QED BY <1>2, <2>1 DEF At
<1>5. CASE n # 0 /\ s = "client"
  <2>1. wire'["client"] = wire["client"] + n /\ wire'["server"] = wire["server"]
    BY <1>3, <1>5 DEF Sides
  <2>2. wire["client"] + n <= C(i) /\ wire["server"] = S(i - 1)
    BY <1>5, ClientCrosses
  <2> QED BY <1>1, <1>2, <2>1, <2>2 DEF At
<1>6. CASE n # 0 /\ s = "server"
  <2>1. wire'["client"] = wire["client"] /\ wire'["server"] = wire["server"] + n
    BY <1>3, <1>6 DEF Sides
  <2>2. wire["client"] = C(i) /\ wire["server"] + n <= S(i)
    BY <1>6, ServerCrosses
  <2> QED BY <1>1, <1>2, <2>1, <2>2 DEF At
<1> QED BY <1>4, <1>5, <1>6 DEF Sides

\* Nothing of a reply crosses before the whole request has.
LEMMA BeforeStays ==
  ASSUME Orderly, said' = said, events' = events, NEW i \in Nat \ {0}, Before(i),
         wire["client"] < C(i), NEW s \in Sides, NEW n \in Nat, Crosses(s, n)
  PROVE  Before(i)'
<1>1. At(i) /\ wire["server"] = S(i - 1) /\ Reported(S(i - 1))
  BY DEF Before
<1>2. wire["client"] \in Nat /\ C(i) \in Nat
  BY Ends
<1>3. At(i)' /\ wire'["server"] = wire["server"]
  BY <1>1, <1>2, StaysAt
<1>4. (Reported(S(i - 1)))'
  BY <1>1 DEF Reported, S
<1> QED BY <1>1, <1>3, <1>4 DEF Before, S

\* Whatever arrives in order is taken as it is.
LEMMA ReceivedClean ==
  ASSUME NEW w \in Nat, NEW n \in Nat, NEW r, CleanOne(r, w), ~Received(r, w, n).err
  PROVE  /\ CleanOne(Received(r, w, n), w + n)
         /\ (Received(r, w, n).eofSource <=> r.eofSource)
         /\ (Received(r, w, n).closed <=> r.closed)
         /\ (~r.closed /\ ~r.eofSource => Received(r, w, n).rd = r.rd)
<1>1. /\ r \in Reader /\ r.lost = {} /\ ~r.err /\ r.sent = w /\ w + n \in Nat
      /\ r.closed \in BOOLEAN /\ r.eofSource \in BOOLEAN /\ r.rd \in Nat
  BY DEF CleanOne, Reader
<1>2. CASE r.closed \/ r.eofSource
  <2>1. Received(r, w, n) = Truncated([r EXCEPT !.sent = w + n])
    BY <1>1, <1>2 DEF Received
  <2>2. Received(r, w, n) = [r EXCEPT !.sent = w + n, !.rd = w + n, !.lost = {}]
    BY <1>1, <2>1 DEF Truncated, Reader
  <2> QED BY <1>1, <1>2, <2>2 DEF CleanOne, Reader
<1>3. CASE ~r.closed /\ ~r.eofSource
  <2> DEFINE gap == {p \in (r.sent + 1)..w : p > r.rd}
             full == [r EXCEPT !.sent = w + n, !.err = TRUE]
  <2>1. gap = {}
    BY <1>1
  <2>2. Received(r, w, n) = full \/ Received(r, w, n) = [r EXCEPT !.sent = w + n, !.lost = @ \cup gap]
    BY <1>1, <1>3 DEF Received
  <2>3. full.err
    BY <1>1 DEF Reader
  <2> HIDE DEF gap, full
  <2>4. Received(r, w, n) = [r EXCEPT !.sent = w + n, !.lost = {}]
    BY <1>1, <2>1, <2>2, <2>3
  <2> QED BY <1>1, <1>3, <2>4 DEF CleanOne, Reader
<1> QED BY <1>2, <1>3

\* An overflow damages a request, and only a packet can overflow.
LEMMA NoOverflow ==
  ASSUME TInv, Clean, NEW s \in Sides, NEW n \in Nat, Reassembled(s, n), harmed' = {}
  PROVE  harmed = {} /\ ~Received(reader[s], wire[s], n).err
<1> DEFINE r == reader[s]
           w == wire[s]
<1>1. /\ reader \in [Sides -> Reader] /\ r \in Reader /\ w \in Nat /\ ~r.err /\ r.sent = w
      /\ r.closed \in BOOLEAN /\ r.eofSource \in BOOLEAN /\ r.rd \in Nat
  BY DEF TInv, Clean, CleanOne, Reader
<1>2. reader'[s] = Received(r, w, n)
  BY <1>1 DEF Reassembled
<1>3. harmed = {} /\ (reader'[s].err => Owners(s, n) = {})
  BY DEF Reassembled
<1>4. CASE n # 0
  <2>1. w + 1 \in (w + 1)..(w + n)
    BY <1>1, <1>4
  <2>2. Owners(s, n) # {}
    BY <2>1 DEF Owners
  <2> QED BY <1>2, <1>3, <2>2
<1>5. CASE n = 0
  <2>1. {p \in (w + 1)..(w + n) : p > r.rd} = {}
    BY <1>1, <1>5
  <2>2. \/ Received(r, w, n) = Truncated([r EXCEPT !.sent = w + n])
        \/ Received(r, w, n) =
             [r EXCEPT !.sent = w + n, !.lost = @ \cup {p \in (r.sent + 1)..w : p > r.rd}]
    BY <1>1, <2>1 DEF Received
  <2>3. Received(r, w, n).err = r.err
    <3> HIDE DEF r, w
    <3> QED BY <1>1, <2>2 DEF Truncated, Reader
  <2> QED BY <1>1, <1>3, <2>3
<1> QED BY <1>4, <1>5

\* A packet that damages nothing leaves the readers where they are.
LEMMA ReassembledFrame ==
  ASSUME TInv, Clean, Genuine, NEW s \in Sides, NEW n \in Nat, Reassembled(s, n), harmed' = {}
  PROVE  /\ harmed = {} /\ Clean' /\ Genuine' /\ events' = events
         /\ said' = said /\ ended' = ended /\ state' = state /\ cmd' = cmd /\ args' = args
         /\ eventBuf' = eventBuf
         /\ Crosses(s, n) /\ ~running /\ s \notin ended
         /\ (state \notin {"closed", "quit"} => running' /\ \A t \in Sides : reader'[t].rd = reader[t].rd)
         /\ wire' = [wire EXCEPT ![s] = @ + n] /\ \A t \in Sides : t # s => wire'[t] = wire[t]
         /\ wire'[s] = wire[s] + n
<1>1. /\ said' = said /\ ended' = ended /\ state' = state /\ cmd' = cmd /\ args' = args
      /\ eventBuf' = eventBuf /\ handled' = handled /\ running' = (state \notin {"closed", "quit"})
      /\ Crosses(s, n) /\ ~running /\ s \notin ended
      /\ wire' = [wire EXCEPT ![s] = @ + n]
      /\ reader' = [reader EXCEPT ![s] = Received(@, wire[s], n)]
  BY DEF Reassembled, Crosses
<1>2. reader \in [Sides -> Reader] /\ wire \in [Sides -> Nat] /\ wire[s] \in Nat
  BY DEF TInv
<1>3. events' = events
  BY <1>1 DEF events
<1>4. Genuine'
  BY <1>1, <1>3, FrameEvents
<1> DEFINE r == Received(reader[s], wire[s], n)
<1>5. /\ CleanOne(r, wire[s] + n) /\ (r.eofSource <=> reader[s].eofSource)
      /\ (r.closed <=> reader[s].closed)
      /\ (~reader[s].closed /\ ~reader[s].eofSource => r.rd = reader[s].rd)
      /\ harmed = {}
  BY <1>2, NoOverflow, ReceivedClean DEF Clean
<1> HIDE DEF r
<1>6. /\ reader'[s] = r /\ wire'[s] = wire[s] + n
      /\ \A t \in Sides : t # s => reader'[t] = reader[t] /\ wire'[t] = wire[t]
  BY <1>1, <1>2 DEF r
<1>7. ASSUME NEW t \in Sides
      PROVE  /\ CleanOne(reader'[t], wire'[t])
             /\ (reader'[t].eofSource <=> reader[t].eofSource)
             /\ (reader'[t].closed <=> reader[t].closed)
             /\ (state \notin {"closed", "quit"} => reader'[t].rd = reader[t].rd)
  <2>1. CASE t = s
    BY <1>1, <1>5, <1>6, <2>1 DEF Clean
  <2>2. CASE t # s
    BY <1>6, <2>2 DEF Clean
  <2> QED BY <2>1, <2>2
<1>8. Clean'
  BY <1>1, <1>7 DEF Clean
<1> QED BY <1>1, <1>3, <1>4, <1>5, <1>6, <1>7, <1>8

-----------------------------------------------------------------------------
(* What is still to come when Run came back.                               *)

\* readCommand came back: the request has not crossed.
LEMMA WaitingIsShort ==
  ASSUME Healthy, ~running, NEW i \in Requests(said), Waiting(i)
  PROVE  wire["client"] < C(i)
<1>1. Orderly /\ Regular(said) /\ ~IsBinary(said)
  BY DEF Healthy
<1>2. /\ i \in Nat \ {0} /\ WordAt(said, i) <= C(i) /\ WordAt(said, i) \in Nat
      /\ WordAt(said, i) \in Ahead(said, "client", C(i - 1), WordEnd)
  BY <1>1, RequestFacts
<1>3. C(i) \in Nat /\ wire["client"] \in Nat
  BY <1>1, <1>2, Ends
<1>4. CASE "client" \notin ended
  <2>1. WordAt(said, i) > wire["client"]
    BY <1>2, <1>4 DEF Waiting, Unread
  <2> QED BY <1>2, <1>3, <2>1
<1> QED BY <1>4 DEF Waiting

\* readArgs came back: the request has not crossed.
LEMMA ReadingIsShort ==
  ASSUME Healthy, ~running, NEW k \in Requests(said), Reading(k)
  PROVE  wire["client"] < C(k)
<1>1. /\ Orderly /\ Regular(said) /\ ~IsBinary(said) /\ InRequest(k)
      /\ CommandState(cmd.word) # "nil"
  BY DEF Healthy, Reading
<1>2. /\ cmd.word = WordOf(said, k) /\ Letters(WordOf(said, k)) /\ C(k) \in Nat
      /\ wire["client"] \in Nat /\ Typed(said)
  BY <1>1, InRequestFacts
<1>3. CASE "client" \notin ended
  <2> DEFINE rd == reader["client"].rd
             l == LineAt(said, k)
  <2>1. /\ WordAt(said, k) <= rd /\ rd < l
        /\ \A p \in Ahead(said, "client", rd, WordEnd) : p > wire["client"]
    BY <1>3 DEF Reading, Unread
  <2>2. l \in 1..Len(said["client"]) /\ said["client"][l].delim = "eol" /\ l <= C(k)
        /\ DOMAIN said["client"] = 1..Len(said["client"])
    BY <1>1, <1>2, LineFacts DEF Typed, Sides
  <2>3. rd \in Nat
    BY <1>1 DEF Orderly, TInv, Reader, Sides
  <2>4. l \in Ahead(said, "client", rd, WordEnd)
    <3> HIDE DEF l, rd
    <3> QED BY <2>1, <2>2, <2>3 DEF Ahead, WordEnd
  <2>5. l > wire["client"]
    BY <2>1, <2>4
  <2> HIDE DEF l, rd
  <2> QED BY <1>2, <2>2, <2>5
<1> QED BY <1>3 DEF Reading

\* handleGet or discardResponse came back: the reply has not crossed.
LEMMA AnsweredIsShort ==
  ASSUME Healthy, ~running, NEW k \in Requests(said), Getting(k) \/ Discarding(k)
  PROVE  wire["server"] < S(k)
<1>1. Orderly /\ Regular(said) /\ ~IsBinary(said) /\ Answered(k) /\ InRequest(k)
  BY DEF Healthy, Getting, Discarding, Answered
<1>2. /\ cmd.word = WordOf(said, k) /\ Letters(WordOf(said, k)) /\ S(k) \in Nat
      /\ wire["server"] \in Nat /\ Typed(said)
  BY <1>1, InRequestFacts
<1>3. CASE "server" \in ended
  BY <1>1, <1>3 DEF Answered
<1>4. CASE "server" \notin ended
  <2> DEFINE rd == reader["server"].rd
             q == First(said, "server", rd, LineEnd)
  <2>1. \A p \in Ahead(said, "server", rd, LineEnd) : p > wire["server"]
    BY <1>1, <1>4 DEF Answered, Unread
  <2>2. q \in Ahead(said, "server", rd, LineEnd) /\ q <= S(k) /\ q \in Nat
    <3>1. CASE Getting(k)
      <4>1. rd \in Starts(said, k) /\ CommandState(cmd.word) = "handleGet"
        BY <1>4, <3>1 DEF Getting
      <4> QED BY <1>1, <1>2, <4>1, StartFacts
    <3>2. CASE Discarding(k)
      <4>1. rd = S(k - 1) /\ CommandState(cmd.word) \in {"nil", "handleSet"}
        BY <1>4, <3>2 DEF Discarding
      <4>2. q = S(k) /\ S(k) \in Ahead(said, "server", S(k - 1), LineEnd)
        BY <1>1, <1>2, <4>1, OneLineFacts
      <4> QED BY <1>2, <4>1, <4>2
    <3> QED BY <3>1, <3>2
  <2>3. q > wire["server"]
    BY <2>1, <2>2
  <2> HIDE DEF q
  <2> QED BY <1>2, <2>2, <2>3
<1> QED BY <1>3, <1>4

-----------------------------------------------------------------------------
(* A packet, in each phase.                                                *)

\* The first packet is the client's.
LEMMA PacketWhilePeeking ==
  ASSUME Orderly, Peeking, ~running, said' = said, ended' = ended, running',
         NEW s \in Sides, NEW n \in Nat, Crosses(s, n), s \notin ended,
         reader'["client"].rd = reader["client"].rd
  PROVE  Peeking'
<1>1. /\ At(1) /\ wire["client"] = 0 /\ wire["server"] = 0 /\ reader["client"].rd = 0
  BY DEF Peeking
<1>2. 1 \in Nat \ {0} /\ 1 - 1 = 0 /\ C(1) \in Nat /\ S(1) \in Nat
  BY Ends
<1>3. S(0) = 0 /\ C(0) = 0
  BY EndAtZero DEF S, C, Orderly, TInv, Sides
<1>4. CASE n = 0
  <2>1. wire' = wire
    BY <1>4 DEF Crosses, Orderly, TInv
  <2> QED BY <1>1, <2>1 DEF Peeking, At, C, S
<1>5. CASE n # 0 /\ s = "client"
  <2>1. \/ wire["client"] + n <= C(1) /\ wire["server"] = S(1 - 1)
        \/ wire["server"] = S(1) /\ S(1 - 1) < S(1)
    BY <1>1, <1>2, <1>5, ClientCrosses
  <2>2. wire["client"] # C(1)
    BY <1>1, <1>2, <1>3, <1>5, <2>1
  <2>3. At(1)'
    BY <1>1, <1>2, <2>2, StaysAt
  <2>4. wire'["server"] = wire["server"]
    BY <1>5 DEF Crosses, Orderly, TInv, Sides
  <2> QED BY <1>1, <1>5, <2>3, <2>4 DEF Peeking
<1>6. CASE n # 0 /\ s = "server"
  <2>1. wire["client"] = C(1) /\ 1 \in Requests(said)
    BY <1>1, <1>2, <1>6, ServerCrosses
  <2>2. C(1 - 1) < C(1)
    BY <1>2, <2>1, NonEmptyRequest DEF C, Orderly, TInv
  <2> QED BY <1>1, <1>2, <1>3, <2>1, <2>2
<1> QED BY <1>4, <1>5, <1>6 DEF Sides

\* Behind an answered request the next one begins.
LEMMA PacketWhileFinished ==
  ASSUME Healthy, NEW i \in Requests(said), Finished(i), said' = said, ended' = ended,
         running', events' = events, NEW s \in Sides, NEW n \in Nat, Crosses(s, n),
         s \notin ended, reader'["client"].rd = reader["client"].rd
  PROVE  Finished(i)' \/ (i + 1 \in Requests(said) /\ Waiting(i + 1)')
<1>1. /\ Orderly /\ At(i) /\ Reported(S(i))
      /\ ("client" \notin ended => reader["client"].rd = C(i) /\ wire["client"] = C(i))
  BY DEF Healthy, Finished
<1>2. i \in Nat \ {0} /\ i + 1 \in Nat \ {0} /\ (i + 1) - 1 = i
  BY <1>1, RequestsAreNat DEF Orderly, TInv
<1>3. /\ C(i) \in Nat /\ S(i) \in Nat /\ wire["client"] \in Nat /\ wire["server"] \in Nat
      /\ C(i + 1) \in Nat /\ S(i + 1) \in Nat /\ S(i) <= S(i + 1) /\ S(i - 1) \in Nat
      /\ wire \in [Sides -> Nat]
  BY <1>1, <1>2, Ends DEF Orderly, TInv
<1>4. /\ C(i)' = C(i) /\ S(i)' = S(i) /\ C(i + 1)' = C(i + 1) /\ S(i + 1)' = S(i + 1)
  BY DEF C, S
<1>5. (Reported(S(i)))'
  BY <1>1 DEF Reported, S
<1>6. CASE n = 0 \/ s = "server"
  <2>1. At(i)'
    BY <1>1, <1>2, <1>6, StaysAt
  <2>2. wire'["client"] = wire["client"]
    BY <1>3, <1>6 DEF Crosses, Sides
  <2>3. Finished(i)'
    BY <1>1, <1>4, <1>5, <2>1, <2>2 DEF Finished
  <2> QED BY <2>3
<1>7. CASE n # 0 /\ s = "client"
  <2>1. wire["client"] = C(i) /\ reader["client"].rd = C(i)
    BY <1>1, <1>7
  <2>2. \/ wire["client"] + n <= C(i) /\ wire["server"] = S(i - 1)
        \/ /\ wire["client"] = C(i) /\ wire["server"] = S(i) /\ S(i - 1) < S(i)
           /\ i + 1 \in Requests(said) /\ wire["client"] + n <= C(i + 1)
    BY <1>1, <1>2, <1>7, ClientCrosses
  <2>3. /\ wire["server"] = S(i) /\ i + 1 \in Requests(said) /\ wire["client"] + n <= C(i + 1)
    BY <1>3, <1>7, <2>1, <2>2
  <2>4. wire'["client"] = wire["client"] + n /\ wire'["server"] = wire["server"]
    BY <1>3, <1>7 DEF Crosses, Sides
  <2>5. At(i + 1)'
    <3>1. C(i) <= wire'["client"] /\ wire'["client"] <= C(i + 1)
      BY <1>3, <2>1, <2>3, <2>4
    <3>2. S(i) <= wire'["server"] /\ wire'["server"] <= S(i + 1) /\ ~(S(i) < wire'["server"])
      BY <1>3, <2>3, <2>4
    <3> QED BY <1>2, <1>4, <3>1, <3>2 DEF At
  <2>6. Before(i + 1)'
    BY <1>2, <1>4, <1>5, <2>3, <2>4, <2>5 DEF Before
  <2>7. Unread("client", WordEnd)'
    BY DEF Unread
  <2>8. Waiting(i + 1)'
    BY <1>2, <1>4, <1>7, <2>1, <2>3, <2>6, <2>7 DEF Waiting
  <2> QED BY <2>3, <2>8
<1> QED BY <1>6, <1>7 DEF Sides

\* Until the reply has crossed, packets belong to it or are the rest of the
\* request.
LEMMA PacketWhileAnswered ==
  ASSUME Healthy, ~running, NEW k \in Requests(said), Getting(k) \/ Discarding(k),
         said' = said, ended' = ended, cmd' = cmd,
         running', events' = events, NEW s \in Sides, NEW n \in Nat, Crosses(s, n),
         s \notin ended, \A t \in Sides : reader'[t].rd = reader[t].rd
  PROVE  (Getting(k) => Getting(k)') /\ (Discarding(k) => Discarding(k)')
<1>1. Orderly /\ Answered(k) /\ InRequest(k) /\ Regular(said) /\ ~IsBinary(said)
  BY DEF Healthy, Getting, Discarding, Answered
<1>2. /\ k \in Nat \ {0} /\ C(k) \in Nat /\ S(k) \in Nat /\ S(k - 1) \in Nat
      /\ wire["client"] \in Nat /\ wire["server"] \in Nat /\ wire \in [Sides -> Nat]
      /\ "client" \in Sides /\ "server" \in Sides
  BY <1>1, InRequestFacts DEF Orderly, TInv, Sides
<1>3. /\ C(k)' = C(k) /\ S(k)' = S(k) /\ S(k - 1)' = S(k - 1) /\ C(k - 1)' = C(k - 1)
  BY DEF C, S
<1>4. InRequest(k)'
  BY <1>1, <1>3 DEF InRequest
<1>5. wire["server"] < S(k)
  BY AnsweredIsShort
<1>6. reader'["client"].rd = reader["client"].rd /\ reader'["server"].rd = reader["server"].rd
  BY <1>2
<1>7. CASE "server" \in ended
  <2>1. s = "client"
    BY <1>7 DEF Sides
  <2>2. wire'["server"] = wire["server"]
    BY <1>2, <2>1 DEF Crosses
  <2>3. (Reported(S(k - 1)))'
    BY <1>1, <1>7 DEF Answered, Reported, S
  <2>4. Answered(k)'
    BY <1>1, <1>3, <1>4, <1>7, <2>2, <2>3 DEF Answered
  <2> QED BY <1>7, <2>4 DEF Getting, Discarding
<1>8. CASE "server" \notin ended
  <2>1. /\ At(k) /\ S(k - 1) <= reader["server"].rd /\ Reported(reader["server"].rd)
        /\ ("client" \notin ended => reader["client"].rd = C(k))
    BY <1>1, <1>8 DEF Answered
  <2>2. wire["server"] # S(k)
    BY <1>2, <1>5
  <2>3. At(k)'
    BY <1>1, <1>2, <2>1, <2>2, StaysAt
  <2>4. (Reported(reader["server"].rd))'
    BY <1>6, <2>1 DEF Reported
  <2>5. Unread("server", LineEnd)'
    BY DEF Unread
  <2>6. Answered(k)'
    BY <1>3, <1>4, <1>6, <1>8, <2>1, <2>3, <2>4, <2>5 DEF Answered
  <2>7. ASSUME Getting(k) PROVE Getting(k)'
    <3>1. wire["client"] = C(k) /\ reader["server"].rd \in Starts(said, k)
      BY <1>8, <2>7 DEF Getting
    <3>2. wire'["client"] = C(k)
      <4>1. wire["client"] <= wire'["client"] /\ wire'["client"] \in Nat
        BY <1>2 DEF Crosses
      <4>2. wire'["client"] <= C(k)
        BY <1>3, <2>3 DEF At
      <4> QED BY <1>2, <3>1, <4>1, <4>2
    <3> QED BY <1>3, <1>6, <2>6, <2>7, <3>1, <3>2 DEF Getting
  <2>8. ASSUME Discarding(k) PROVE Discarding(k)'
    BY <1>3, <1>6, <2>6, <2>8 DEF Discarding
  <2> QED BY <2>7, <2>8
<1> QED BY <1>7, <1>8

\* A packet that damages nothing leaves an undamaged conversation so.
LEMMA ReassembledHealthy ==
  ASSUME Healthy, NEW s \in Sides, NEW n \in Nat, Reassembled(s, n), harmed' = {}
  PROVE  Undamaged'
<1>1. TInv /\ Orderly /\ Clean /\ Genuine /\ Phase /\ state # "closed"
  BY DEF Healthy, Undamaged, Orderly
<1>2. /\ Clean' /\ Genuine' /\ events' = events /\ said' = said /\ ended' = ended
      /\ state' = state /\ cmd' = cmd /\ args' = args
      /\ Crosses(s, n) /\ ~running /\ s \notin ended
      /\ (state # "quit" => running' /\ \A t \in Sides : reader'[t].rd = reader[t].rd)
  BY <1>1, ReassembledFrame
<1>3. "client" \in Sides /\ "server" \in Sides
  BY DEF Sides
<1>4. CASE state = "peekMagicByte"
  <2>1. Peeking'
    BY <1>1, <1>2, <1>3, <1>4, PacketWhilePeeking DEF Phase
  <2> QED BY <1>2, <1>4, <2>1 DEF Undamaged, Phase
<1>5. CASE state = "readCommand"
  <2>1. PICK i \in Requests(said) : Waiting(i) \/ Finished(i)
    BY <1>1, <1>5 DEF Phase
  <2>2. i \in Nat \ {0}
    BY <1>1, RequestsAreNat DEF TInv
  <2>3. CASE Waiting(i)
    <3>1. wire["client"] < C(i) /\ Before(i)
      BY <1>2, <2>3, WaitingIsShort DEF Waiting
    <3>2. Before(i)'
      BY <1>1, <1>2, <2>2, <3>1, BeforeStays
    <3>3. Unread("client", WordEnd)'
      BY <1>2, <1>5 DEF Unread
    <3>4. "client" \in ended => wire'["client"] = wire["client"]
      BY <1>1, <1>2 DEF Crosses, TInv, Sides
    <3>5. Waiting(i)'
      BY <1>2, <1>3, <1>5, <2>3, <3>2, <3>3, <3>4 DEF Waiting, C
    <3> QED BY <1>2, <1>5, <3>5 DEF Undamaged, Phase
  <2>4. CASE Finished(i)
    <3>1. Finished(i)' \/ (i + 1 \in Requests(said) /\ Waiting(i + 1)')
      BY <1>2, <1>3, <1>5, <2>4, PacketWhileFinished
    <3> QED BY <1>2, <1>5, <3>1 DEF Undamaged, Phase
  <2> QED BY <2>1, <2>3, <2>4
<1>6. CASE state = "readArgs"
  <2>1. PICK k \in Requests(said) : Reading(k)
    BY <1>1, <1>6 DEF Phase
  <2>2. k \in Nat \ {0}
    BY <1>1, RequestsAreNat DEF TInv
  <2>3. wire["client"] < C(k) /\ Before(k) /\ InRequest(k)
    BY <1>2, <2>1, ReadingIsShort DEF Reading
  <2>4. Before(k)'
    BY <1>1, <1>2, <2>2, <2>3, BeforeStays
  <2>5. Unread("client", WordEnd)'
    BY <1>2, <1>6 DEF Unread
  <2>6. "client" \in ended => wire'["client"] = wire["client"]
    BY <1>1, <1>2 DEF Crosses, TInv, Sides
  <2>7. InRequest(k)'
    BY <1>2, <2>3 DEF InRequest, C
  <2>8. reader'["client"].rd = reader["client"].rd
    BY <1>2, <1>3, <1>6
  <2>9. ArgsRead(k) => ArgsRead(k)'
    BY <1>2, <2>8 DEF ArgsRead
  <2>10. Reading(k)'
    BY <1>2, <2>1, <2>4, <2>5, <2>6, <2>7, <2>8, <2>9 DEF Reading, C
  <2> QED BY <1>2, <1>6, <2>10 DEF Undamaged, Phase
<1>7. CASE state = "handleGet"
  <2>1. PICK k \in Requests(said) : Getting(k)
    BY <1>1, <1>7 DEF Phase
  <2>2. Getting(k)'
    BY <1>2, <1>7, <2>1, PacketWhileAnswered
  <2> QED BY <1>2, <1>7, <2>2 DEF Undamaged, Phase
<1>8. CASE state = "discardResponse"
  <2>1. PICK k \in Requests(said) : Discarding(k)
    BY <1>1, <1>8 DEF Phase
  <2>2. Discarding(k)'
    BY <1>2, <1>8, <2>1, PacketWhileAnswered
  <2> QED BY <1>2, <1>8, <2>2 DEF Undamaged, Phase
<1>9. CASE state \in {"handleSet", "handleUnknown", "handleQuit"}
  BY <1>1, <1>2, <1>9 DEF Phase, Setting, Unknown
<1>10. CASE state = "quit"
  BY <1>2, <1>10 DEF Undamaged, Phase
<1> QED BY <1>1, <1>4, <1>5, <1>6, <1>7, <1>8, <1>9, <1>10 DEF TInv, States

-----------------------------------------------------------------------------
(* The end of a stream.                                                    *)

\* The end of a stream flushes the events and retires one reader.
LEMMA CompleteFrame ==
  ASSUME TInv, Clean, Genuine, NEW s \in Sides, ReassemblyComplete(s)
  PROVE  /\ Clean' /\ Genuine' /\ events' = events /\ eventBuf' = <<>>
         /\ said' = said /\ wire' = wire /\ harmed' = harmed /\ state' = state
         /\ running' = running /\ ~running /\ cmd' = cmd /\ args' = args
         /\ s \notin ended /\ ended' = ended \cup {s} /\ reader'[s].rd = wire[s]
         /\ \A t \in Sides : t # s => reader'[t] = reader[t]
<1>1. /\ said' = said /\ wire' = wire /\ harmed' = harmed /\ state' = state
      /\ running' = running /\ ~running /\ cmd' = cmd /\ args' = args /\ eventBuf' = <<>>
      /\ s \notin ended /\ ended' = ended \cup {s}
      /\ reader' = [reader EXCEPT ![s] = Retired(reader[s])]
  BY DEF ReassemblyComplete
<1>2. events' = events
  BY CompleteTypes
<1>3. Genuine'
  BY <1>1, <1>2, FrameEvents
<1>4. reader \in [Sides -> Reader] /\ wire[s] \in Nat /\ CleanOne(reader[s], wire[s])
  BY DEF TInv, Clean
<1>5. CleanOne(Reset(reader[s]), wire[s]) /\ Reset(reader[s]).rd = wire[s] /\ ~Reset(reader[s]).closed
      /\ Reset(reader[s]) \in Reader
  BY <1>4, CleanEmptied DEF CleanOne
<1>6. /\ CleanOne(Retired(reader[s]), wire[s]) /\ Retired(reader[s]).rd = wire[s]
      /\ ~Retired(reader[s]).closed /\ Retired(reader[s]).eofSource
  BY <1>5 DEF Retired, CleanOne, Reader
<1>7. reader'[s] = Retired(reader[s]) /\ \A t \in Sides : t # s => reader'[t] = reader[t]
  BY <1>1, <1>4
<1>8. ASSUME NEW t \in Sides
      PROVE  /\ CleanOne(reader'[t], wire'[t])
             /\ (state' # "closed" => (reader'[t].eofSource <=> t \in ended'))
             /\ (reader'[t].closed => state' = "quit")
  <2>1. CASE t = s
    BY <1>1, <1>6, <1>7, <2>1
  <2>2. CASE t # s
    BY <1>1, <1>7, <2>2 DEF Clean
  <2> QED BY <2>1, <2>2
<1>9. Clean'
  BY <1>8 DEF Clean
<1> QED BY <1>1, <1>2, <1>3, <1>6, <1>7, <1>9

\* A stream that ends before the client said anything.
LEMMA EndWhilePeeking ==
  ASSUME TInv, Clean, Genuine, Peeking, NEW s \in Sides, ReassemblyComplete(s)
  PROVE  Peeking'
<1>1. /\ said' = said /\ wire' = wire /\ running' = running /\ ~running
      /\ reader'[s].rd = wire[s] /\ \A t \in Sides : t # s => reader'[t] = reader[t]
  BY CompleteFrame
<1>2. wire["client"] = 0 /\ reader["client"].rd = 0
  BY <1>1 DEF Peeking
<1>3. reader'["client"].rd = 0
  BY <1>1, <1>2 DEF Sides
<1> QED BY <1>1, <1>2, <1>3 DEF Peeking, At, C, S

\* A stream that ends before the reply has crossed.
LEMMA EndWhileAnswered ==
  ASSUME Healthy, NEW k \in Requests(said), Getting(k) \/ Discarding(k),
         NEW s \in Sides, ReassemblyComplete(s)
  PROVE  (Getting(k) => Getting(k)') /\ (Discarding(k) => Discarding(k)')
<1>1. /\ Orderly /\ TInv /\ Clean /\ Genuine /\ Answered(k) /\ InRequest(k)
      /\ Regular(said) /\ ~IsBinary(said)
  BY DEF Healthy, Undamaged, Orderly, Getting, Discarding, Answered
<1>2. /\ events' = events /\ said' = said /\ wire' = wire /\ cmd' = cmd
      /\ running' = running /\ ~running /\ s \notin ended /\ ended' = ended \cup {s}
      /\ \A t \in Sides : t # s => reader'[t] = reader[t]
  BY <1>1, CompleteFrame
<1>3. \A j : C(j)' = C(j) /\ S(j)' = S(j) /\ (At(j)' <=> At(j))
  BY <1>2 DEF C, S, At
<1>4. InRequest(k)' /\ wire["server"] < S(k)
  BY <1>1, <1>2, <1>3, AnsweredIsShort DEF InRequest
<1>5. S(k - 1) \in Nat /\ Typed(said) /\ reader["server"].rd \in Nat
  BY <1>1, InRequestFacts DEF TInv, Sides, Reader
<1>6. CASE s = "server"
  <2>1. /\ At(k) /\ S(k - 1) <= reader["server"].rd /\ Reported(reader["server"].rd)
    BY <1>1, <1>2, <1>6 DEF Answered
  <2>2. S(k - 1) <= wire["server"]
    BY <2>1 DEF At
  <2>3. reader["server"].rd <= S(k - 1) => HitsIn(said, reader["server"].rd, S(k - 1)) = {}
    BY <1>5, <2>1 DEF HitsIn, Typed, Sides
  <2>4. Reported(S(k - 1))
    BY <1>5, <2>1, <2>3, ReportedUpTo
  <2>5. (Reported(S(k - 1)))'
    BY <1>2, <2>4 DEF Reported, S
  <2>6. Answered(k)' /\ "server" \in ended'
    BY <1>2, <1>3, <1>4, <1>6, <2>2, <2>5 DEF Answered
  <2> QED BY <1>2, <2>6 DEF Getting, Discarding
<1>7. CASE s = "client"
  <2>1. /\ reader'["server"] = reader["server"] /\ ("server" \in ended' <=> "server" \in ended)
        /\ "client" \in ended'
    BY <1>2, <1>7 DEF Sides
  <2>2. (Reported(S(k - 1)))' <=> Reported(S(k - 1))
    BY <1>2 DEF Reported, S
  <2>3. (Reported(reader["server"].rd))' <=> Reported(reader["server"].rd)
    BY <1>2, <2>1 DEF Reported
  <2>4. Unread("server", LineEnd) => Unread("server", LineEnd)'
    BY <1>2, <2>1 DEF Unread
  <2>5. Answered(k)'
    BY <1>1, <1>2, <1>3, <1>4, <2>1, <2>2, <2>3, <2>4 DEF Answered
  <2> QED BY <1>2, <1>3, <2>1, <2>5 DEF Getting, Discarding
<1> QED BY <1>6, <1>7 DEF Sides

\* The end of a stream leaves an undamaged conversation so.
LEMMA CompleteHealthy ==
  ASSUME Healthy, NEW s \in Sides, ReassemblyComplete(s)
  PROVE  Undamaged'
<1>1. TInv /\ Orderly /\ Clean /\ Genuine /\ Phase /\ state # "closed"
  BY DEF Healthy, Undamaged, Orderly
<1>2. /\ Clean' /\ Genuine' /\ events' = events /\ said' = said /\ wire' = wire
      /\ state' = state /\ running' = running /\ ~running /\ cmd' = cmd /\ args' = args
      /\ s \notin ended /\ ended' = ended \cup {s}
      /\ \A t \in Sides : t # s => reader'[t] = reader[t]
  BY <1>1, CompleteFrame
<1>3. \A j : C(j)' = C(j) /\ S(j)' = S(j) /\ (At(j)' <=> At(j))
  BY <1>2 DEF C, S, At
<1>4. \A j : Before(j) => Before(j)'
  BY <1>2, <1>3 DEF Before, Reported, S
<1>5. s = "server" => /\ reader'["client"] = reader["client"]
                      /\ ("client" \in ended' <=> "client" \in ended)
  BY <1>2 DEF Sides
<1>6. s = "client" => "client" \in ended'
  BY <1>2
<1>7. Unread("client", WordEnd) /\ s = "server" => Unread("client", WordEnd)'
  BY <1>2, <1>5 DEF Unread
<1>8. CASE state = "peekMagicByte"
  <2>1. Peeking'
    BY <1>1, <1>8, EndWhilePeeking DEF Phase
  <2> QED BY <1>2, <1>8, <2>1 DEF Undamaged, Phase
<1>9. CASE state = "readCommand"
  <2>1. PICK i \in Requests(said) : Waiting(i) \/ Finished(i)
    BY <1>1, <1>9 DEF Phase
  <2>2. CASE Waiting(i)
    <3>1. wire["client"] < C(i) /\ Before(i)
      BY <1>2, <2>2, WaitingIsShort DEF Waiting
    <3>2. Before(i)' /\ (wire["client"] < C(i))'
      BY <1>2, <1>3, <1>4, <3>1
    <3>3. Waiting(i)'
      <4>1. CASE "client" \in ended'
        BY <1>2, <3>2, <4>1 DEF Waiting
      <4>2. CASE "client" \notin ended'
        BY <1>2, <1>3, <1>5, <1>6, <1>7, <2>2, <3>2, <4>2 DEF Waiting, Sides
      <4> QED BY <4>1, <4>2
    <3> QED BY <1>2, <1>9, <3>3 DEF Undamaged, Phase
  <2>3. CASE Finished(i)
    <3>1. (Reported(S(i)))'
      BY <1>2, <2>3 DEF Finished, Reported, S
    <3>2. Finished(i)'
      BY <1>2, <1>3, <1>5, <1>6, <2>3, <3>1 DEF Finished, Sides
    <3> QED BY <1>2, <1>9, <3>2 DEF Undamaged, Phase
  <2> QED BY <2>1, <2>2, <2>3
<1>10. CASE state = "readArgs"
  <2>1. PICK k \in Requests(said) : Reading(k)
    BY <1>1, <1>10 DEF Phase
  <2>2. wire["client"] < C(k) /\ Before(k) /\ InRequest(k) /\ CommandState(cmd.word) # "nil"
    BY <1>2, <2>1, ReadingIsShort DEF Reading
  <2>3. Before(k)' /\ (wire["client"] < C(k))' /\ InRequest(k)' /\ CommandState(cmd'.word) # "nil"
    BY <1>2, <1>3, <1>4, <2>2 DEF InRequest
  <2>4. Reading(k)'
    <3>1. CASE "client" \in ended'
      BY <1>2, <2>3, <3>1 DEF Reading
    <3>2. CASE "client" \notin ended'
      <4>1. s = "server" /\ "client" \notin ended /\ reader'["client"] = reader["client"]
        BY <1>5, <1>6, <3>2 DEF Sides
      <4>2. /\ WordAt(said, k) <= reader["client"].rd /\ reader["client"].rd < LineAt(said, k)
            /\ ArgsRead(k) /\ Unread("client", WordEnd)
            /\ \A j \in 1..3 : j <= Len(args) => ArgAt(said, k, j) # LineAt(said, k)
        BY <2>1, <4>1 DEF Reading
      <4>3. ArgsRead(k)'
        BY <1>2, <4>1, <4>2 DEF ArgsRead
      <4>4. Unread("client", WordEnd)'
        BY <1>7, <4>1, <4>2
      <4> QED BY <1>2, <2>3, <3>2, <4>1, <4>2, <4>3, <4>4 DEF Reading
    <3> QED BY <3>1, <3>2
  <2> QED BY <1>2, <1>10, <2>4 DEF Undamaged, Phase
<1>11. CASE state = "handleGet"
  <2>1. PICK k \in Requests(said) : Getting(k)
    BY <1>1, <1>11 DEF Phase
  <2>2. Getting(k)'
    BY <2>1, EndWhileAnswered
  <2> QED BY <1>2, <1>11, <2>2 DEF Undamaged, Phase
<1>12. CASE state = "discardResponse"
  <2>1. PICK k \in Requests(said) : Discarding(k)
    BY <1>1, <1>12 DEF Phase
  <2>2. Discarding(k)'
    BY <2>1, EndWhileAnswered
  <2> QED BY <1>2, <1>12, <2>2 DEF Undamaged, Phase
<1>13. CASE state \in {"handleSet", "handleUnknown", "handleQuit"}
  BY <1>1, <1>2, <1>13 DEF Phase, Setting, Unknown
<1>14. CASE state = "quit"
  BY <1>2, <1>14 DEF Undamaged, Phase
<1> QED BY <1>1, <1>8, <1>9, <1>10, <1>11, <1>12, <1>13, <1>14 DEF TInv, States

-----------------------------------------------------------------------------
(* The inductive invariant.                                                *)

\* A conversation in the binary protocol: peekMagicByte closes the consumer.
LeftAlone ==
  /\ Clean /\ Genuine /\ state \in {"peekMagicByte", "closed"}
  /\ (state = "peekMagicByte" => Peeking)

\* Nothing is left in eventBuf once the server has said everything.
Flushed == "server" \in ended => eventBuf = <<>>

Intact == Flushed /\ IF IsBinary(said) THEN LeftAlone ELSE Undamaged

LInv == TInv /\ Regular(said) /\ (harmed = {} => Intact)

\* Requests and replies follow one another.
LEMMA LInvOrderly ==
  ASSUME LInv, Outstanding = 1 PROVE Orderly
  BY DEF LInv, Orderly, Regular

\* handleGet finds no line in a stream that has ended.
LEMMA StepFlushed ==
  ASSUME TInv, Clean, state # "closed", Flushed, Step
  PROVE  Flushed'
<1>1. ended' = ended
  BY StepHasTypes DEF network
<1>2. CASE HandleGet /\ Finds("server", LineEnd)
  <2>1. "server" \notin ended
    BY <1>2, CleanFinds DEF Sides
  <2> QED BY <1>1, <2>1 DEF Flushed
<1>3. CASE ~(HandleGet /\ Finds("server", LineEnd))
  <2>1. eventBuf' = eventBuf
    BY <1>3 DEF Step, PeekMagicByte, ReadCommand, ReadArgs, HandleGet, HandleSet, HandleUnknown,
                DiscardResponse, HandleQuit
  <2> QED BY <1>1, <2>1 DEF Flushed
<1> QED BY <1>2, <1>3

\* A conversation in the binary protocol is closed at its first unit.
LEMMA BinaryStep ==
  ASSUME TInv, LeftAlone, Step, IsBinary(said)
  PROVE  LeftAlone'
<1>1. PeekMagicByte /\ state = "peekMagicByte"
  BY DEF LeftAlone, Step, PeekMagicByte, ReadCommand, ReadArgs, HandleGet, HandleSet,
         HandleUnknown, DiscardResponse, HandleQuit, In
<1>2. /\ Clean /\ Genuine /\ Peeking /\ UNCHANGED network
      /\ UNCHANGED <<cmd, args, eventBuf, handled>>
  BY <1>1 DEF LeftAlone, PeekMagicByte, In
<1>3. /\ said' = said /\ wire' = wire /\ ended' = ended
      /\ \A i : C(i)' = C(i) /\ S(i)' = S(i) /\ (At(i)' <=> At(i))
  BY <1>2, Frame
<1>4. Genuine'
  <2>1. events' = events
    BY <1>2 DEF events
  <2> QED BY <1>2, <1>3, <2>1, FrameEvents
<1> DEFINE r == reader["client"]
<1>5. /\ r \in Reader /\ r.lost = {} /\ ~r.err /\ r.sent = wire["client"] /\ r.rd = 0
      /\ (r.eofSource <=> "client" \in ended) /\ wire["client"] \in Nat /\ At(1)
      /\ wire["server"] = 0 /\ ("client" \in ended => wire["client"] = 0)
  BY <1>1, <1>2 DEF Clean, CleanOne, Sides, Peeking, TInv
<1>6. Tidy(ServerTruncated) /\ ServerTruncated["client"] = r
  BY <1>2, TidyTruncated
<1>7. CASE (r.eofSource \/ (~r.err /\ r.sent <= r.rd)) /\ Return("short", ServerTruncated)
  <2>1. reader' = ServerTruncated /\ state' = state /\ running' = FALSE
    BY <1>7 DEF Return
  <2>2. wire["client"] = 0
    BY <1>5, <1>7
  <2>3. Clean'
    BY <1>1, <1>2, <1>6, <2>1, CleanStep
  <2>4. Peeking'
    BY <1>3, <1>5, <1>6, <2>1, <2>2 DEF Peeking
  <2> QED BY <1>1, <1>4, <2>1, <2>3, <2>4 DEF LeftAlone
<1>8. CASE r.rd + 1 \in Buffered(r)
           /\ IF Text("client")[r.rd + 1].text = "0x80"
              THEN /\ reader' = [s \in Sides |-> Retired(reader[s])]
                   /\ running' = FALSE /\ state' = "closed"
              ELSE Continue("readCommand", ServerTruncated)
  <2>1. Text("client")[r.rd + 1].text = "0x80"
    BY <1>5 DEF IsBinary, Text
  <2>2. reader' = [s \in Sides |-> Retired(reader[s])] /\ state' = "closed"
    BY <1>8, <2>1
  <2>3. ASSUME NEW s \in Sides
        PROVE  CleanOne(Retired(reader[s]), wire[s]) /\ ~Retired(reader[s]).closed
    <3>1. wire[s] \in Nat /\ CleanOne(reader[s], wire[s])
      BY <1>2 DEF TInv, Clean
    <3>2. CleanOne(Reset(reader[s]), wire[s]) /\ Reset(reader[s]).rd = wire[s]
          /\ ~Reset(reader[s]).closed
      BY <3>1, CleanEmptied
    <3> QED BY <3>2 DEF Retired, CleanOne, Reader
  <2>4. Clean'
    BY <1>3, <2>2, <2>3 DEF Clean
  <2> QED BY <1>4, <2>2, <2>4 DEF LeftAlone
<1>9. ~r.err /\ r.rd + 1 \notin r.lost
  BY <1>5
<1> QED BY <1>1, <1>7, <1>8, <1>9 DEF PeekMagicByte

\* Every step keeps the invariant.
LEMMA LInvStep ==
  ASSUME LInv, Outstanding = 1, [Next]_vars PROVE LInv'
<1>1. TInv /\ Regular(said) /\ Orderly
  BY LInvOrderly DEF LInv
<1>2. ASSUME Intact, ~IsBinary(said) PROVE Healthy
  BY <1>1, <1>2 DEF Healthy, Intact
<1>3. ASSUME Intact PROVE Clean /\ Genuine /\ Flushed
  BY <1>3 DEF Intact, LeftAlone, Undamaged
<1>4. CASE UNCHANGED vars
  <2>1. TInv'
    BY <1>1, <1>4 DEF TInv, vars
  <2>2. /\ said' = said /\ wire' = wire /\ harmed' = harmed /\ reader' = reader
        /\ ended' = ended /\ state' = state /\ running' = running /\ cmd' = cmd
        /\ args' = args /\ eventBuf' = eventBuf /\ events' = events
    BY <1>4 DEF vars, events
  <2>3. \A j : (At(j)' <=> At(j)) /\ (Before(j)' <=> Before(j)) /\ (InRequest(j)' <=> InRequest(j))
    BY <2>2 DEF At, Before, InRequest, Reported, C, S
  <2>4. \A j : (Waiting(j)' <=> Waiting(j)) /\ (Finished(j)' <=> Finished(j))
    BY <2>2, <2>3 DEF Waiting, Finished, Unread, Reported, C, S
  <2>5. \A j : ArgsRead(j)' <=> ArgsRead(j)
    BY <2>2 DEF ArgsRead
  <2>6. \A j : (Reading(j)' <=> Reading(j)) /\ (Setting(j)' <=> Setting(j)) /\ (Unknown(j)' <=> Unknown(j))
    BY <2>2, <2>3, <2>5 DEF Reading, Setting, Unknown, Unread, C, S
  <2>7. \A j : Answered(j)' <=> Answered(j)
    BY <2>2, <2>3 DEF Answered, Unread, Reported, C, S
  <2>8. \A j : (Getting(j)' <=> Getting(j)) /\ (Discarding(j)' <=> Discarding(j))
    BY <2>2, <2>7 DEF Getting, Discarding, C, S
  <2>9. Peeking' <=> Peeking
    BY <2>2, <2>3 DEF Peeking
  <2>10. Phase' <=> Phase
    BY <2>2, <2>3, <2>4, <2>6, <2>8, <2>9 DEF Phase
  <2>11. (Clean' <=> Clean) /\ (Genuine' <=> Genuine) /\ (Flushed' <=> Flushed)
    BY <2>2 DEF Clean, Genuine, Flushed
  <2>12. Intact' <=> Intact
    BY <2>2, <2>9, <2>10, <2>11 DEF Intact, LeftAlone, Undamaged
  <2> QED BY <1>1, <2>1, <2>2, <2>12 DEF LInv
<1>5. CASE Step
  <2>1. TInv' /\ said' = said /\ harmed' = harmed
    BY <1>1, <1>5, StepKeepsTypes, StepHasTypes DEF network
  <2>2. ASSUME Intact PROVE Intact'
    <3>1. state # "closed"
      BY <1>5 DEF Step, PeekMagicByte, ReadCommand, ReadArgs, HandleGet, HandleSet,
                  HandleUnknown, DiscardResponse, HandleQuit, In
    <3>2. Flushed'
      BY <1>1, <1>3, <1>5, <2>2, <3>1, StepFlushed
    <3>3. CASE IsBinary(said)
      <4>1. LeftAlone'
        BY <1>1, <1>5, <2>2, <3>3, BinaryStep DEF Intact
      <4> QED BY <2>1, <3>2, <3>3, <4>1 DEF Intact
    <3>4. CASE ~IsBinary(said)
      <4>1. Undamaged'
        BY <1>2, <1>5, <2>2, <3>4, StepHealthy
      <4> QED BY <2>1, <3>2, <3>4, <4>1 DEF Intact
    <3> QED BY <3>3, <3>4
  <2> QED BY <1>1, <2>1, <2>2 DEF LInv
<1>6. MaxPacket \in Nat
  BY <1>1, PacketsAreNat
<1>7. ASSUME NEW s \in Sides, NEW n \in 0..MaxPacket, Reassembled(s, n) PROVE LInv'
  <2>1. n \in Nat
    BY <1>6, <1>7
  <2>2. TInv' /\ said' = said
    BY <1>1, <1>7, <2>1, ReassembledTypes DEF Reassembled
  <2>3. ASSUME harmed' = {} PROVE Intact'
    <3>1. harmed = {}
      BY <1>7, <2>3 DEF Reassembled
    <3>2. Intact
      BY <3>1 DEF LInv
    <3>3. /\ Clean' /\ Genuine' /\ ended' = ended /\ eventBuf' = eventBuf /\ state' = state
          /\ Crosses(s, n) /\ ~running /\ s \notin ended
          /\ (state \notin {"closed", "quit"} =>
                running' /\ \A t \in Sides : reader'[t].rd = reader[t].rd)
      BY <1>1, <1>3, <1>7, <2>1, <2>3, <3>2, ReassembledFrame
    <3>4. Flushed'
      BY <1>3, <3>2, <3>3 DEF Flushed
    <3>5. CASE IsBinary(said)
      <4>1. state \in {"peekMagicByte", "closed"} /\ (state = "peekMagicByte" => Peeking)
        BY <3>2, <3>5 DEF Intact, LeftAlone
      <4>2. ASSUME state = "peekMagicByte" PROVE Peeking'
        <5>1. running' /\ reader'["client"].rd = reader["client"].rd
          BY <3>3, <4>2 DEF Sides
        <5> QED BY <1>1, <2>1, <2>2, <3>3, <4>1, <4>2, <5>1, PacketWhilePeeking
      <4>3. LeftAlone'
        BY <3>3, <4>1, <4>2 DEF LeftAlone
      <4> QED BY <2>2, <3>4, <3>5, <4>3 DEF Intact
    <3>6. CASE ~IsBinary(said)
      <4>1. Undamaged'
        BY <1>2, <1>7, <2>1, <2>3, <3>2, <3>6, ReassembledHealthy
      <4> QED BY <2>2, <3>4, <3>6, <4>1 DEF Intact
    <3> QED BY <3>5, <3>6
  <2> QED BY <1>1, <2>2, <2>3 DEF LInv
<1>8. ASSUME NEW s \in Sides, NEW n \in 0..MaxPacket, Lose(s, n) PROVE LInv'
  <2>1. n \in Nat /\ n > 0
    BY <1>6, <1>8 DEF Lose
  <2>2. TInv' /\ said' = said /\ wire[s] \in Nat
    BY <1>1, <1>8, <2>1, LoseTypes DEF Lose, TInv
  <2>3. wire[s] + 1 \in (wire[s] + 1)..(wire[s] + n)
    BY <2>1, <2>2
  <2>4. Owners(s, n) # {}
    BY <2>3 DEF Owners
  <2>5. harmed' # {}
    BY <1>8, <2>4 DEF Lose
  <2> QED BY <1>1, <2>2, <2>5 DEF LInv
<1>9. ASSUME NEW s \in Sides, ReassemblyComplete(s) PROVE LInv'
  <2>1. TInv' /\ said' = said /\ harmed' = harmed
    BY <1>1, <1>9, CompleteTypes DEF ReassemblyComplete
  <2>2. ASSUME Intact PROVE Intact'
    <3>1. /\ Clean' /\ Genuine' /\ eventBuf' = <<>> /\ state' = state
      BY <1>1, <1>3, <1>9, <2>2, CompleteFrame
    <3>2. Flushed'
      BY <3>1 DEF Flushed
    <3>3. CASE IsBinary(said)
      <4>1. state \in {"peekMagicByte", "closed"} /\ (state = "peekMagicByte" => Peeking)
        BY <2>2, <3>3 DEF Intact, LeftAlone
      <4>2. ASSUME state = "peekMagicByte" PROVE Peeking'
        BY <1>1, <1>3, <1>9, <2>2, <4>1, <4>2, EndWhilePeeking
      <4>3. LeftAlone'
        BY <3>1, <4>1, <4>2 DEF LeftAlone
      <4> QED BY <2>1, <3>2, <3>3, <4>3 DEF Intact
    <3>4. CASE ~IsBinary(said)
      <4>1. Undamaged'
        BY <1>2, <1>9, <2>2, <3>4, CompleteHealthy
      <4> QED BY <2>1, <3>2, <3>4, <4>1 DEF Intact
    <3> QED BY <3>3, <3>4
  <2> QED BY <1>1, <2>1, <2>2 DEF LInv
<1> QED BY <1>4, <1>5, <1>7, <1>8, <1>9 DEF Next

\* The invariant holds initially.
LEMMA LInvInit ==
  ASSUME \A c \in Conversations : Regular(c), Init, Outstanding = 1
  PROVE  LInv
<1>1. Regular(said) /\ Typed(said) /\ InTurn(said)
  BY DEF Init, Regular
<1>2. TInv /\ events = <<>>
  BY InitHasTypes DEF Regular
<1>3. Orderly
  BY <1>1, <1>2 DEF Orderly
<1>4. /\ ended = {} /\ state = "peekMagicByte" /\ ~running /\ eventBuf = <<>>
      /\ wire["client"] = 0 /\ wire["server"] = 0
      /\ \A s \in Sides : reader[s] = NewReader /\ wire[s] = 0
  BY DEF Init, Sides
<1>5. Clean
  BY <1>2, <1>4 DEF Clean, CleanOne, NewReader, TInv
<1>6. Genuine
  BY <1>2 DEF Genuine, Range
<1>7. Peeking
  <2>1. C(0) = 0 /\ S(0) = 0
    BY <1>1, EndAtZero DEF C, S, Sides
  <2>2. 1 - 1 = 0 /\ C(1) \in Nat /\ S(1) \in Nat
    BY <1>3, Ends
  <2>3. At(1)
    BY <1>4, <2>1, <2>2 DEF At
  <2> QED BY <1>4, <2>3 DEF Peeking, NewReader, Sides
<1>8. Intact
  BY <1>4, <1>5, <1>6, <1>7 DEF Intact, Flushed, LeftAlone, Undamaged, Phase
<1> QED BY <1>1, <1>2, <1>8 DEF LInv

\* The invariant holds throughout.
LEMMA LInvHolds ==
  ASSUME \A c \in Conversations : Regular(c), Outstanding = 1
  PROVE  Spec => []LInv
<1>1. Init => LInv
  BY LInvInit
<1>2. LInv /\ [Next]_vars => LInv'
  BY LInvStep
<1> QED BY <1>1, <1>2, PTL DEF Spec

-----------------------------------------------------------------------------
(* What follows from it.                                                   *)

\* The requests of the specification and of the grammar are the same.
LEMMA RequestIdsAre ==
  RequestIds = Requests(said)
  BY DEF RequestIds, Requests, Owner

\* A command is the first word of its request, and the server's cursor in its
\* reply.
LEMMA HealthyInStep ==
  ASSUME Healthy, NEW k \in Requests(said), InRequest(k),
         state \in {"handleGet", "discardResponse"} => Getting(k) \/ Discarding(k)
  PROVE  LET i == Owner("client", cmd.at)
         IN  /\ cmd.at = End("client", i - 1) + 1
             /\ state \in {"handleGet", "discardResponse"} =>
                  reader["server"].rd \in End("server", i - 1)..End("server", i)
<1>1. /\ Orderly /\ Regular(said) /\ ~IsBinary(said) /\ TInv /\ Clean /\ state # "closed"
      /\ "client" \in Sides /\ "server" \in Sides
  BY DEF Healthy, Undamaged, Orderly, Sides
<1>2. /\ cmd.word = WordOf(said, k) /\ Letters(WordOf(said, k)) /\ k \in Nat \ {0} /\ Typed(said)
      /\ C(k - 1) \in Nat /\ C(k) \in Nat /\ S(k - 1) \in Nat /\ S(k) \in Nat
      /\ wire["server"] \in Nat
  BY <1>1, InRequestFacts
<1>3. cmd.at = C(k - 1) + 1
  BY DEF InRequest
<1>4. C(k - 1) < C(k) /\ C(k) <= Len(said["client"]) /\ InTurn(said) /\ S(k - 1) <= S(k)
  BY <1>1, <1>2, NonEmptyRequest, Ends DEF C, Orderly
<1>5. /\ C(k - 1) + 1 \in 1..Len(said["client"]) /\ C(k - 1) < C(k - 1) + 1
      /\ C(k - 1) + 1 <= C(k) /\ Len(said["client"]) \in Nat
  <2>1. Len(said["client"]) \in Nat
    BY <1>1, <1>2 DEF Typed
  <2> QED BY <1>2, <1>4, <2>1
<1>6. Owner("client", cmd.at) = k
  BY <1>1, <1>2, <1>3, <1>4, <1>5, OwnerIs DEF C, Owner
<1>7. /\ End("client", k - 1) = C(k - 1) /\ End("server", k - 1) = S(k - 1)
      /\ End("server", k) = S(k)
  BY EndIsEndOf DEF C, S
<1>8. ASSUME state \in {"handleGet", "discardResponse"}
      PROVE  reader["server"].rd \in S(k - 1)..S(k)
  <2> DEFINE rd == reader["server"].rd
  <2>1. (Getting(k) \/ Discarding(k)) /\ Answered(k) /\ rd \in Nat
        /\ CleanOne(reader["server"], wire["server"])
        /\ (reader["server"].eofSource <=> "server" \in ended)
    BY <1>1, <1>8 DEF Getting, Discarding, TInv, Reader, Clean
  <2>2. CASE "server" \in ended
    <3>1. S(k - 1) <= wire["server"] /\ wire["server"] < S(k)
      BY <2>1, <2>2 DEF Answered
    <3>2. rd = wire["server"]
      BY <2>1, <2>2 DEF CleanOne
    <3> QED BY <1>2, <3>1, <3>2
  <2>3. CASE "server" \notin ended
    <3>1. S(k - 1) <= rd
      BY <2>1, <2>3 DEF Answered
    <3>2. rd <= S(k)
      <4>1. CASE Getting(k)
        <5> DEFINE q == First(said, "server", rd, LineEnd)
        <5>1. rd \in Starts(said, k) /\ CommandState(cmd.word) = "handleGet"
          BY <2>3, <4>1 DEF Getting
        <5>2. q <= S(k) /\ rd < q /\ q \in 1..Len(said["server"])
          BY <1>1, <1>2, <5>1, StartFacts
        <5> HIDE DEF q
        <5> QED BY <1>2, <2>1, <5>2
      <4>2. CASE Discarding(k)
        BY <1>4, <2>3, <4>2 DEF Discarding
      <4> QED BY <2>1, <4>1, <4>2
    <3> QED BY <1>2, <2>1, <3>1, <3>2
  <2> QED BY <2>2, <2>3
<1> QED BY <1>3, <1>6, <1>7, <1>8

\* As long as nothing is lost the consumer never confuses requests or replies,
\* wherever the packets split them (mctext.fsm): the command it works on is
\* the first word of a request, and it looks for the reply where it is.
THEOREM StaysInStep ==
  ASSUME \A c \in Conversations : Regular(c), Outstanding = 1
  PROVE  Spec => []InStep
<1>1. LInv => InStep
  <2> SUFFICES ASSUME LInv, harmed = {},
                      state \in {"readArgs", "handleGet", "handleSet", "handleUnknown",
                                 "discardResponse", "handleQuit"}
               PROVE  InStep
    BY DEF InStep
  <2>1. Intact /\ Orderly /\ Regular(said)
    BY LInvOrderly DEF LInv
  <2>2. Healthy
    BY <2>1 DEF Intact, LeftAlone, Healthy
  <2>3. PICK k \in Requests(said) :
          InRequest(k) /\ (state \in {"handleGet", "discardResponse"} => Getting(k) \/ Discarding(k))
    BY <2>2 DEF Healthy, Undamaged, Phase, Reading, Setting, Unknown, Getting, Discarding, Answered
  <2> QED BY <2>2, <2>3, HealthyInStep DEF InStep
<1> QED BY <1>1, LInvHolds, PTL

\* As long as nothing is lost an event is reported for the VALUE line of a hit
\* and for nothing else, never for data that looks like one, and for each once
\* and in order (handleGet, AddEvent, FlushEvents).
THEOREM LosslessNoPhantom ==
  ASSUME \A c \in Conversations : Regular(c), Outstanding = 1
  PROVE  Spec => [](harmed = {} => NoPhantom)
<1>1. \A c \in Conversations : Typed(c)
  BY DEF Regular
<1>2. LInv /\ harmed = {} => OnlyHits
  <2> SUFFICES ASSUME LInv, harmed = {}, NEW p \in Range(events)
               PROVE  p \in UNION {HitsOf(i) : i \in RequestIds}
    BY DEF OnlyHits
  <2>1. Genuine /\ Typed(said)
    BY DEF LInv, Intact, LeftAlone, Undamaged, Regular
  <2>2. p \in DOMAIN said["server"] /\ said["server"][p].hit
    BY <2>1 DEF Genuine, HitsIn
  <2>3. said["server"][p].request \in RequestIds
    BY <2>1, <2>2, RequestIdsAre DEF Typed
  <2>4. p \in HitsOf(said["server"][p].request)
    BY <2>2 DEF HitsOf, Owner
  <2> QED BY <2>3, <2>4
<1>3. TypeOK /\ OnceInOrder /\ (harmed = {} => OnlyHits) => (harmed = {} => NoPhantom)
  BY DEF NoPhantom
<1>4. Spec => []TypeOK
  BY <1>1, ConsumerTypes
<1>5. Spec => []OnceInOrder
  BY <1>1, EventsOnceInOrder
<1>6. Spec => []LInv
  BY LInvHolds
<1> QED BY <1>2, <1>3, <1>4, <1>5, <1>6, PTL

\* What lies up to i is reported when Run came back, if all of it has crossed.
LEMMA IntactReports ==
  ASSUME LInv, Outstanding = 1, harmed = {}, ~running, state \notin {"closed", "quit"},
         NEW i \in Requests(said), wire["server"] >= S(i)
  PROVE  Reported(S(i))
<1>1. Intact /\ Orderly /\ Regular(said) /\ Typed(said) /\ InTurn(said) /\ "server" \in Sides
      /\ state \in States
  BY LInvOrderly DEF LInv, Regular, Sides, TInv
<1>2. i \in Nat \ {0} /\ S(i) \in Nat /\ wire["server"] \in Nat
  BY <1>1, RequestsAreNat, Ends
<1>3. ASSUME NEW b \in Nat, S(i) <= b, Reported(b) PROVE Reported(S(i))
  BY <1>1, <1>2, <1>3 DEF Reported, HitsIn, Typed
<1>4. CASE state = "peekMagicByte"
  <2>1. Peeking
    BY <1>1, <1>4 DEF Intact, LeftAlone, Undamaged, Phase
  <2>2. S(i) = 0
    BY <1>2, <2>1 DEF Peeking
  <2> QED BY <1>1, <2>2 DEF Reported, HitsIn, Typed
<1>5. CASE state # "peekMagicByte"
  <2>1. Healthy
    BY <1>1, <1>5 DEF Intact, LeftAlone, Healthy
  <2>2. Phase
    BY <2>1 DEF Healthy, Undamaged
  <2>3. ASSUME NEW k \in Requests(said), Before(k) PROVE Reported(S(i))
    <3>1. wire["server"] = S(k - 1) /\ Reported(S(k - 1))
      BY <2>3 DEF Before
    <3>2. S(k - 1) \in Nat /\ S(i) <= S(k - 1)
      BY <1>2, <3>1
    <3> QED BY <1>3, <3>1, <3>2
  <2>4. ASSUME NEW k \in Requests(said), Finished(k) PROVE Reported(S(i))
    <3>1. wire["server"] <= S(k) /\ Reported(S(k))
      BY <2>4 DEF Finished, At
    <3>2. k \in Nat \ {0} /\ S(k) \in Nat
      BY <1>1, RequestsAreNat, Ends
    <3>3. S(i) <= S(k)
      BY <1>2, <3>1, <3>2
    <3> QED BY <1>3, <3>1, <3>2, <3>3
  <2>5. ASSUME NEW k \in Requests(said), Getting(k) \/ Discarding(k) PROVE Reported(S(i))
    <3>1. k \in Nat \ {0} /\ S(k) \in Nat /\ S(k - 1) \in Nat /\ k - 1 \in Nat
      BY <1>1, RequestsAreNat, Ends
    <3>2. wire["server"] < S(k) /\ Answered(k)
      BY <2>1, <2>5, AnsweredIsShort DEF Getting, Discarding
    <3>3. i <= k - 1
      <4>1. CASE k <= i
        <5>1. S(k) <= S(i)
          BY <1>1, <1>2, <3>1, <4>1, EndGrows DEF S
        <5> QED BY <1>2, <3>1, <3>2, <5>1
      <4> QED BY <1>2, <3>1, <4>1
    <3>4. S(i) <= S(k - 1)
      BY <1>1, <1>2, <3>1, <3>3, EndGrows DEF S
    <3>5. CASE "server" \in ended
      BY <1>3, <3>1, <3>2, <3>4, <3>5 DEF Answered
    <3>6. CASE "server" \notin ended
      <4> DEFINE rd == reader["server"].rd
      <4>1. S(k - 1) <= rd /\ Reported(rd) /\ rd \in Nat
        BY <1>1, <3>2, <3>6 DEF Answered, Orderly, TInv, Reader
      <4>2. S(i) <= rd
        BY <1>2, <3>1, <3>4, <4>1
      <4> QED BY <1>3, <4>1, <4>2
    <3> QED BY <3>5, <3>6
  <2>6. CASE state = "readCommand"
    BY <2>2, <2>3, <2>4, <2>6 DEF Phase, Waiting
  <2>7. CASE state = "readArgs"
    BY <2>2, <2>3, <2>7 DEF Phase, Reading
  <2>8. CASE state \in {"handleGet", "discardResponse"}
    BY <2>2, <2>5, <2>8 DEF Phase
  <2>9. CASE state \in {"handleSet", "handleUnknown", "handleQuit"}
    BY <2>2, <2>9 DEF Phase, Setting, Unknown
  <2> QED BY <1>1, <1>5, <2>6, <2>7, <2>8, <2>9 DEF States
<1> QED BY <1>4, <1>5

\* As long as nothing is lost no hit is missed: whenever Run has come back, all
\* hits of the replies that have crossed are reported, and all are handed on
\* once both streams are complete, whichever ended first (FlushEvents).
THEOREM LosslessResync ==
  ASSUME \A c \in Conversations : Regular(c), Outstanding = 1
  PROVE  Spec => [](harmed = {} => ResyncAfterLoss)
<1>1. LInv /\ harmed = {} => ResyncAfterLoss
  <2> SUFFICES ASSUME LInv, harmed = {}, ~running, state \notin {"closed", "quit"},
                      NEW i \in RequestIds, wire["server"] >= End("server", i),
                      NEW p \in HitsOf(i)
               PROVE  p \in Range(IF ended = Sides THEN handled ELSE events)
    BY DEF ResyncAfterLoss
  <2>1. i \in Requests(said) /\ Typed(said) /\ InTurn(said) /\ Intact /\ TInv
    BY RequestIdsAre DEF LInv, Regular
  <2>2. wire["server"] >= S(i)
    BY EndIsEndOf DEF S
  <2>3. Reported(S(i))
    BY <2>1, <2>2, IntactReports
  <2>4. i \in Nat \ {0} /\ "server" \in Sides /\ DOMAIN said["server"] = 1..Len(said["server"])
    BY <2>1, RequestsAreNat DEF Typed, Sides
  <2>5. p \in DOMAIN said["server"] /\ said["server"][p].hit /\ said["server"][p].request = i
    BY DEF HitsOf, Owner
  <2>6. p <= S(i)
    BY <2>1, <2>4, <2>5, OwnerIs DEF S
  <2>7. p \in HitsIn(said, 0, S(i))
    BY <2>4, <2>5, <2>6 DEF HitsIn
  <2>8. p \in Range(events)
    BY <2>3, <2>7 DEF Reported
  <2>9. ended = Sides => events = handled
    <3>1. ended = Sides => eventBuf = <<>>
      BY <2>1, <2>4 DEF Intact, Flushed
    <3> QED BY <2>1, <3>1, ConcatEmptySeq DEF events, TInv
  <2> QED BY <2>8, <2>9
<1> QED BY <1>1, LInvHolds, PTL
=============================================================================

--------------------------- MODULE ReplayerProofs ---------------------------
(***************************************************************************)
(* Proofs about the replayer, for any file, any timestamps (in order or    *)
(* not), any buffer capacity and any number of read errors.                *)
(*                                                                         *)
(* The buffer is a run of consecutive packets that ends where the file has *)
(* been read to (Buffering), and what lies ahead of the cursor is neither  *)
(* returned nor dropped yet (Fates): that gives NothingLost and            *)
(* ReturnedInOrder.  Timing relates the elapsed time a call works with to  *)
(* the clock, which moves on while the call lasts: that gives NeverEarly   *)
(* and NotStale.                                                           *)
(***************************************************************************)
EXTENDS Replayer, FiniteSetTheorems, TLAPS

AllFates == {"unread", "buffered", "returned", "expired", "discarded"}

\* The packets that are expired according to f.
Expired(f) == {p \in Packets : f[p] = "expired"}

Buffering ==
  /\ Len(buf) <= src
  /\ \A i \in 1..Len(buf) : buf[i] = src - Len(buf) + i
  /\ pc \in {"collectFill", "discardFill"} => cursor >= Len(buf)
  /\ pc \in {"deliver", "discard"} => cursor < Len(buf)

\* What lies ahead of the cursor is buffered and, unless a read has failed, all
\* that is buffered lies ahead of the cursor.
Fates ==
  /\ \A p \in Packets : p > src => fate[p] = "unread"
  /\ \A i \in 1..Len(buf) : i > cursor => fate[buf[i]] = "buffered"
  /\ readErrors = 0 =>
       \A p \in Packets : fate[p] = "buffered" =>
         \E i \in 1..Len(buf) : i > cursor /\ buf[i] = p
  /\ dropped = Cardinality(Expired(fate))

\* A call of CollectPackets works with a time that has passed, and delivers
\* from a packet on that is not overdue at that time.
Timing ==
  /\ start # Unset => start <= clock
  /\ pc \in {"collectFill", "deliver"} => start # Unset /\ elapsed <= clock - start
  /\ pc = "deliver" => After(buf[cursor + 1], first, elapsed - Timeout \div 2)

RInv == TypeOK /\ Buffering /\ Fates /\ Timing

-----------------------------------------------------------------------------
(* The operators.                                                          *)

\* A nonempty set of naturals has a smallest element.
LEMMA Smallest ==
  ASSUME NEW S \in SUBSET Nat, S # {}
  PROVE  \E i \in S : \A j \in S : i <= j
<1> DEFINE R == {r \in Nat \X Nat : r[1] < r[2]}
<1>1. IsWellFoundedOn(R, Nat)
  BY NatLessThanWellFounded DEF OpToRel
<1>2. ASSUME NEW i \in Nat, NEW j \in Nat, <<j, i>> \notin R PROVE i <= j
  BY <1>2
<1> HIDE DEF R
<1>3. PICK i \in S : \A j \in S : ~(<<j, i>> \in R)
  BY <1>1, WFMin
<1> QED BY <1>2, <1>3

\* dropExpired stops at the first packet that is not overdue, or at the end.
LEMMA UnexpiredFacts ==
  ASSUME NEW b \in Seq(Packets), NEW c \in Nat, NEW f, NEW e
  PROVE  /\ c >= Len(b) => unexpired(b, c, f, e) = c
         /\ c < Len(b) =>
              /\ unexpired(b, c, f, e) \in c..Len(b)
              /\ unexpired(b, c, f, e) # Len(b) =>
                   After(b[unexpired(b, c, f, e) + 1], f, e - Timeout \div 2)
<1>1. c >= Len(b) => unexpired(b, c, f, e) = c
  BY DEF unexpired
<1>2. ASSUME c < Len(b)
      PROVE  /\ unexpired(b, c, f, e) \in c..Len(b)
             /\ unexpired(b, c, f, e) # Len(b) =>
                  After(b[unexpired(b, c, f, e) + 1], f, e - Timeout \div 2)
  <2> DEFINE late(i) == After(b[i + 1], f, e - Timeout \div 2)
             S == {j \in c..Len(b) : j = Len(b) \/ late(j)}
  <2>1. Len(b) \in Nat /\ S \in SUBSET Nat /\ Len(b) \in S
    BY <1>2
  <2>2. PICK j \in S : \A i \in S : j <= i
    BY <2>1, Smallest
  <2>3. j \in c..Len(b) /\ (j = Len(b) \/ late(j))
    BY <2>2
  <2>4. \A i \in c..(j - 1) : ~late(i)
    <3> SUFFICES ASSUME NEW i \in c..(j - 1), late(i) PROVE FALSE
      OBVIOUS
    <3>1. i \in c..Len(b) /\ i < j
      BY <2>1, <2>3
    <3>2. i \in S
      BY <3>1
    <3> HIDE DEF S
    <3> QED BY <2>1, <2>2, <3>1, <3>2
  <2>5. unexpired(b, c, f, e) =
          CHOOSE k \in c..Len(b) : /\ k = Len(b) \/ late(k)
                                   /\ \A i \in c..(k - 1) : ~late(i)
    <3>1. ~(c >= Len(b))
      BY <1>2, <2>1
    <3> QED BY <3>1, Zenon DEF unexpired
  <2> HIDE DEF late
  <2>6. /\ unexpired(b, c, f, e) \in c..Len(b)
        /\ unexpired(b, c, f, e) = Len(b) \/ late(unexpired(b, c, f, e))
    BY <2>3, <2>4, <2>5
  <2> QED BY <2>6 DEF late
<1> QED BY <1>1, <1>2

\* known after the packets from c up to where dropExpired stops have expired.
Dropping(b, c, f, e, known) ==
  [p \in Packets |-> IF \E i \in (c + 1)..unexpired(b, c, f, e) : b[i] = p
                     THEN "expired" ELSE known[p]]

\* The promise of dropExpired: from cursor c it moves to j, turning what is known
\* of the packets into g; it counts exactly what it drops, and what it leaves at
\* the cursor is not overdue.
Dropped(b, base, c, f, e, known, j, g) ==
  /\ j \in Nat /\ c <= j /\ (j <= Len(b) \/ j = c)
  /\ Cardinality(Expired(g)) \in Nat
  /\ Cardinality(Expired(g)) = Cardinality(Expired(known)) + (j - c)
  /\ g \in [Packets -> AllFates]
  /\ \A i \in 1..Len(b) : i > j => g[b[i]] = "buffered"
  /\ \A p \in Packets :
       /\ g[p] \in {known[p], "expired"}
       /\ p > base + Len(b) => g[p] = known[p]
       /\ g[p] = "buffered" => \A i \in 1..Len(b) : i > c /\ i <= j => b[i] # p
  /\ j < Len(b) => After(b[j + 1], f, e - Timeout \div 2)

\* It keeps that promise for a buffer of consecutive packets that are known to be
\* buffered ahead of c.
LEMMA DropFacts ==
  ASSUME NEW b \in Seq(Packets), NEW base \in Nat, \A i \in 1..Len(b) : b[i] = base + i,
         NEW c \in Nat, NEW f, NEW e, NEW known \in [Packets -> AllFates],
         \A i \in 1..Len(b) : i > c => known[b[i]] = "buffered",
         NEW j, j = unexpired(b, c, f, e), NEW g, g = Dropping(b, c, f, e, known)
  PROVE  Dropped(b, base, c, f, e, known, j, g)
<1> USE ReplayAssumption
<1> DEFINE X == {b[i] : i \in (c + 1)..j}
<1>1. g = [p \in Packets |-> IF \E i \in (c + 1)..j : b[i] = p THEN "expired" ELSE known[p]]
  BY DEF Dropping
<1>2. /\ Len(b) \in Nat
      /\ c >= Len(b) => j = c
      /\ c < Len(b) => j \in c..Len(b) /\ (j # Len(b) => After(b[j + 1], f, e - Timeout \div 2))
  BY UnexpiredFacts
<1>3. j \in Nat /\ c <= j /\ (j <= Len(b) \/ j = c)
  BY <1>2
<1>4. \A i \in (c + 1)..j : i \in 1..Len(b) /\ i > c
  BY <1>2, <1>3
<1>5. X \subseteq Packets /\ X = (base + c + 1)..(base + j)
  <2>1. ASSUME NEW p PROVE p \in X <=> p \in (base + c + 1)..(base + j)
    <3>1. ASSUME p \in X PROVE p \in (base + c + 1)..(base + j)
      <4>1. PICK i \in (c + 1)..j : p = b[i]
        BY <3>1
      <4>2. p = base + i
        BY <1>4, <4>1
      <4> QED BY <1>3, <4>2
    <3>2. ASSUME p \in (base + c + 1)..(base + j) PROVE p \in X
      <4>1. p - base \in (c + 1)..j /\ base + (p - base) = p
        BY <1>3, <3>2
      <4>2. b[p - base] = p
        BY <1>4, <4>1
      <4> QED BY <4>1, <4>2
    <3> QED BY <3>1, <3>2
  <2>2. X \subseteq Packets
    BY <1>4
  <2> HIDE DEF X
  <2> QED BY <2>1, <2>2
<1>6. \A p \in Packets : g[p] = IF p \in X THEN "expired" ELSE known[p]
  BY <1>1
<1>7. g \in [Packets -> AllFates]
  BY <1>1 DEF AllFates
<1>8. \A p \in X : known[p] = "buffered"
  BY <1>4
<1> HIDE DEF X
<1>9. Expired(g) = Expired(known) \cup X /\ Expired(known) \cap X = {}
  BY <1>5, <1>6, <1>8 DEF Expired
<1>10. /\ IsFiniteSet(X) /\ Cardinality(X) = j - c
       /\ IsFiniteSet(Expired(known))
  <2>a. base + c + 1 \in Int /\ base + j \in Int
    BY <1>3
  <2>1. IsFiniteSet(X) /\ Cardinality(X) = IF base + c + 1 > base + j THEN 0
                                           ELSE (base + j) - (base + c + 1) + 1
    BY <1>5, <2>a, FS_Interval, Zenon
  <2>2. IsFiniteSet(Packets)
    BY FS_Interval DEF Packets
  <2>3. IsFiniteSet(Expired(known))
    BY <2>2, FS_Subset DEF Expired
  <2> QED BY <1>3, <2>1, <2>3
<1>11. /\ Cardinality(Expired(g)) \in Nat
       /\ Cardinality(Expired(g)) = Cardinality(Expired(known)) + (j - c)
  <2>1. Cardinality(Expired(known) \cap X) = 0
    BY <1>9, FS_EmptySet
  <2>2. Cardinality(Expired(known) \cup X)
          = Cardinality(Expired(known)) + Cardinality(X) - Cardinality(Expired(known) \cap X)
    BY <1>10, FS_Union
  <2>3. Cardinality(Expired(known)) \in Nat
    BY <1>10, FS_CardinalityType
  <2> QED BY <1>9, <1>10, <2>1, <2>2, <2>3, <1>3
<1>12. \A i \in 1..Len(b) : i > j => g[b[i]] = "buffered"
  <2> SUFFICES ASSUME NEW i \in 1..Len(b), i > j PROVE g[b[i]] = "buffered"
    OBVIOUS
  <2>1. b[i] \in Packets /\ b[i] = base + i /\ i > c
    BY <1>2, <1>3
  <2>2. b[i] \notin X
    BY <1>3, <1>5, <2>1
  <2> QED BY <1>6, <2>1, <2>2
<1>13. ASSUME NEW p \in Packets
       PROVE  /\ g[p] \in {known[p], "expired"}
              /\ p > base + Len(b) => g[p] = known[p]
              /\ g[p] = "buffered" => \A i \in 1..Len(b) : i > c /\ i <= j => b[i] # p
  <2>1. p > base + Len(b) => p \notin X
    BY <1>2, <1>3, <1>5
  <2>2. \A i \in 1..Len(b) : i > c /\ i <= j => b[i] \in X
    <3> SUFFICES ASSUME NEW i \in 1..Len(b), i > c, i <= j PROVE b[i] \in X
      OBVIOUS
    <3>1. b[i] = base + i
      OBVIOUS
    <3>2. base + i \in (base + c + 1)..(base + j)
      BY <1>3
    <3> QED BY <1>5, <3>1, <3>2
  <2> QED BY <1>6, <2>1, <2>2
<1>14. j < Len(b) => After(b[j + 1], f, e - Timeout \div 2)
  BY <1>2
<1> QED BY <1>3, <1>7, <1>11, <1>12, <1>13, <1>14, Zenon DEF Dropped

\* What a read of k packets puts into the buffer, and what is known of them.
LEMMA ReadFacts ==
  ASSUME TypeOK, Fates, NEW k \in 0..BufCap, Read(k)
  PROVE  /\ buf' = Batch(k) /\ src' = src + k /\ src' \in 0..NumPackets
         /\ src \in Nat /\ k \in Nat
         /\ Batch(k) \in Seq(Packets) /\ Len(Batch(k)) = k
         /\ \A i \in 1..k : Batch(k)[i] = src + i
         /\ Known(k) \in [Packets -> AllFates]
         /\ \A i \in 1..k : Known(k)[src + i] = "buffered"
         /\ \A p \in Packets : p > src + k => Known(k)[p] = "unread"
         /\ \A p \in Packets : p <= src => Known(k)[p] = fate[p]
         /\ Expired(Known(k)) = Expired(fate)
<1> USE ReplayAssumption
<1>1. /\ buf' = Batch(k) /\ src' = src + k /\ src + k <= NumPackets
      /\ src \in Nat /\ k \in Nat /\ NumPackets \in Nat
  BY DEF Read, TypeOK
<1>2. \A i \in 1..k : src + i \in Packets
  BY <1>1 DEF Packets
<1>3. Batch(k) \in Seq(Packets) /\ Len(Batch(k)) = k /\ \A i \in 1..k : Batch(k)[i] = src + i
  BY <1>1, <1>2 DEF Batch
<1>4. \A p \in Packets : Known(k)[p] = IF p \in (src + 1)..(src + k) THEN "buffered" ELSE fate[p]
  BY DEF Known
<1>5. Known(k) \in [Packets -> AllFates]
  BY DEF Known, TypeOK, AllFates
<1>6. \A i \in 1..k : Known(k)[src + i] = "buffered"
  <2> SUFFICES ASSUME NEW i \in 1..k PROVE Known(k)[src + i] = "buffered"
    OBVIOUS
  <2>1. src + i \in (src + 1)..(src + k)
    BY <1>1
  <2> QED BY <1>2, <1>4, <2>1
<1>7. ASSUME NEW p \in Packets
      PROVE  /\ p > src + k => Known(k)[p] = "unread"
             /\ p <= src => Known(k)[p] = fate[p]
             /\ p \in (src + 1)..(src + k) => fate[p] = "unread"
  <2>1. p \in Nat
    BY DEF Packets
  <2>2. p > src => fate[p] = "unread"
    BY DEF Fates
  <2> QED BY <1>1, <1>4, <2>1, <2>2
<1>8. Expired(Known(k)) = Expired(fate)
  BY <1>4, <1>7 DEF Expired
<1> QED BY <1>1, <1>3, <1>5, <1>6, <1>7, <1>8

\* first after a successful read.
LEMMA FirstType ==
  ASSUME TypeOK, NEW k \in 1..BufCap, Read(k),
         first' = IF first = Unset THEN Stamp[src + 1] ELSE first
  PROVE  first' \in Nat
<1>1. src + 1 \in Packets
  BY ReplayAssumption DEF Read, TypeOK, Packets
<1> QED BY <1>1, ReplayAssumption DEF TypeOK

\* Sleeping moves the clock on.
LEMMA SleepFacts ==
  ASSUME TypeOK, Timing, Sleep \/ UNCHANGED clock
  PROVE  clock' \in 0..MaxClock /\ clock <= clock'
  BY ReplayAssumption DEF TypeOK, Sleep, SmallerOf

\* A read in CollectPackets.
LEMMA CollectFillInv ==
  ASSUME RInv, NEW k \in 1..BufCap, CollectFill(k)
  PROVE  RInv'
<1> USE ReplayAssumption
<1> DEFINE b == Batch(k)
           K == Known(k)
<1>t. TypeOK /\ Buffering /\ Fates /\ Timing
  BY DEF RInv
<1>1. /\ pc = "collectFill" /\ Read(k)
      /\ first' = IF first = Unset THEN Stamp[src + 1] ELSE first
      /\ cursor' = unexpired(b, 0, first', elapsed)
      /\ dropped' = dropped + (cursor' - 0)
      /\ fate' = Dropping(b, 0, first', elapsed, K)
      /\ pc' = IF cursor' >= k THEN "collectFill" ELSE "deliver"
      /\ UNCHANGED <<clock, start, received, readErrors, elapsed, pb, res>>
  BY DEF CollectFill, dropExpired, Dropping
<1>2. /\ buf' = b /\ src' = src + k /\ src' \in 0..NumPackets
      /\ src \in Nat /\ k \in Nat
      /\ b \in Seq(Packets) /\ Len(b) = k
      /\ \A i \in 1..k : b[i] = src + i
      /\ K \in [Packets -> AllFates]
      /\ \A i \in 1..k : K[src + i] = "buffered"
      /\ \A p \in Packets : p > src + k => K[p] = "unread"
      /\ \A p \in Packets : p <= src => K[p] = fate[p]
      /\ Expired(K) = Expired(fate)
  BY <1>1, <1>t, ReadFacts
<1>3. first' \in Nat
  BY <1>1, <1>t, FirstType
<1> HIDE DEF b, K
<1>4. /\ \A i \in 1..Len(b) : b[i] = src + i
      /\ \A i \in 1..Len(b) : i > 0 => K[b[i]] = "buffered"
  <2>1. 1..Len(b) = 1..k
    BY <1>2
  <2>2. \A i \in 1..k : b[i] = src + i /\ K[b[i]] = "buffered"
    BY <1>2
  <2> QED BY <2>1, <2>2
<1>5. dropped = Cardinality(Expired(K))
  BY <1>2, <1>t DEF Fates
<1>6. /\ cursor' \in Nat /\ (cursor' <= k \/ cursor' = 0)
      /\ Cardinality(Expired(fate')) \in Nat
      /\ Cardinality(Expired(fate')) = Cardinality(Expired(K)) + (cursor' - 0)
      /\ fate' \in [Packets -> AllFates]
      /\ \A i \in 1..k : i > cursor' => fate'[b[i]] = "buffered"
      /\ \A p \in Packets :
           /\ fate'[p] \in {K[p], "expired"}
           /\ p > src + k => fate'[p] = K[p]
           /\ fate'[p] = "buffered" => \A i \in 1..k : i > 0 /\ i <= cursor' => b[i] # p
      /\ cursor' < k => After(b[cursor' + 1], first', elapsed - Timeout \div 2)
  <2>1. Dropped(b, src, 0, first', elapsed, K, cursor', fate')
    BY <1>1, <1>2, <1>4, DropFacts, 0 \in Nat
  <2> QED BY <1>2, <2>1 DEF Dropped
<1>d. dropped' \in Nat /\ dropped' = Cardinality(Expired(fate'))
  BY <1>1, <1>5, <1>6
<1>7. TypeOK'
  <2>1. cursor' \in 0..BufCap
    BY <1>2, <1>6
  <2> QED BY <1>1, <1>2, <1>3, <1>6, <1>d, <1>t, <2>1, SMTT(40) DEF TypeOK, AllFates
<1>8. Buffering'
  BY <1>1, <1>2, <1>6 DEF Buffering
<1>9. Timing'
  <2>1. (start # Unset => start <= clock)'
    BY <1>1, <1>t DEF Timing
  <2>2. start' # Unset /\ elapsed' <= clock' - start'
    BY <1>1, <1>t DEF Timing
  <2>3. pc' = "deliver" => After(buf'[cursor' + 1], first', elapsed' - Timeout \div 2)
    BY <1>1, <1>2, <1>6
  <2> QED BY <2>1, <2>2, <2>3 DEF Timing
<1>10. ASSUME readErrors = 0, NEW p \in Packets, fate'[p] = "buffered"
       PROVE  \E i \in 1..k : i > cursor' /\ b[i] = p
  <2>1. K[p] = "buffered"
    BY <1>6, <1>10
  <2>2. fate[p] # "buffered"
    BY <1>1, <1>t, <1>10 DEF Fates, Buffering, TypeOK
  <2>3. p \in Nat /\ p > src /\ p <= src + k
    BY <1>2, <2>1, <2>2 DEF Packets
  <2>4. p - src \in 1..k /\ src + (p - src) = p
    BY <1>2, <2>3
  <2>5. b[p - src] = p
    BY <1>2, <2>4
  <2>6. p - src > cursor'
    BY <1>6, <1>10, <2>3, <2>4, <2>5, <1>2
  <2> QED BY <2>4, <2>5, <2>6
<1>11. Fates'
  BY <1>1, <1>2, <1>6, <1>d, <1>10 DEF Fates
<1> QED BY <1>7, <1>8, <1>9, <1>11 DEF RInv

\* A read in DiscardPacket, or one that fails after k packets.
LEMMA OtherFillInv ==
  ASSUME RInv, NEW k \in 0..BufCap, (k # 0 /\ DiscardFill(k)) \/ FillError(k)
  PROVE  RInv'
<1> USE ReplayAssumption
<1> DEFINE b == Batch(k)
           K == Known(k)
<1>t. TypeOK /\ Buffering /\ Fates /\ Timing
  BY DEF RInv
<1>1. /\ Read(k) /\ fate' = K
      /\ UNCHANGED <<clock, start, received, dropped, elapsed, pb>>
  BY DEF DiscardFill, FillError, timeVars
<1>2. /\ buf' = b /\ src' = src + k /\ src' \in 0..NumPackets
      /\ src \in Nat /\ k \in Nat
      /\ b \in Seq(Packets) /\ Len(b) = k
      /\ \A i \in 1..k : b[i] = src + i
      /\ K \in [Packets -> AllFates]
      /\ \A i \in 1..k : K[src + i] = "buffered"
      /\ \A p \in Packets : p > src + k => K[p] = "unread"
      /\ \A p \in Packets : p <= src => K[p] = fate[p]
      /\ Expired(K) = Expired(fate)
  BY <1>1, <1>t, ReadFacts
<1> HIDE DEF b, K
<1>3. \/ /\ k # 0 /\ pc = "discardFill" /\ cursor' = 0 /\ pc' = "discard"
         /\ first' = (IF first = Unset THEN Stamp[src + 1] ELSE first)
         /\ readErrors' = readErrors /\ res' = res
      \/ /\ cursor' = cursor /\ first' = first /\ pc' = "idle" /\ res' = "error"
         /\ readErrors < MaxReadErrors /\ readErrors' = readErrors + 1
  BY DEF DiscardFill, FillError, timeVars
<1>4. first' \in Nat \cup {Unset}
  <2>1. CASE k # 0 /\ first' = (IF first = Unset THEN Stamp[src + 1] ELSE first)
    BY <1>1, <1>t, <2>1, FirstType
  <2> QED BY <1>3, <1>t, <2>1 DEF TypeOK
<1>5. cursor' \in 0..BufCap /\ readErrors' \in 0..MaxReadErrors
  BY <1>3, <1>t DEF TypeOK
<1>6. TypeOK'
  <2>1. pc' \in {"idle", "discard"} /\ (res' = res \/ res' = "error")
    BY <1>3
  <2>2. buf' \in Seq(Packets) /\ Len(buf') <= BufCap
    BY <1>1, <1>2 DEF Read
  <2>3. fate' \in [Packets -> {"unread", "buffered", "returned", "expired", "discarded"}]
    BY <1>1, <1>2 DEF AllFates
  <2>4. res' \in {"none", "nil", "timeout", "eof", "error"}
    BY <1>t, <2>1 DEF TypeOK
  <2> QED BY <1>1, <1>2, <1>4, <1>5, <1>t, <2>1, <2>2, <2>3, <2>4 DEF TypeOK
<1>7. Buffering'
  BY <1>1, <1>2, <1>3 DEF Buffering
<1>8. Timing'
  <2>1. pc' \in {"idle", "discard"}
    BY <1>3
  <2> QED BY <1>1, <1>t, <2>1 DEF Timing
<1>9. \A i \in 1..k : K[b[i]] = "buffered"
  BY <1>2
<1>10. ASSUME readErrors' = 0, NEW p \in Packets, K[p] = "buffered"
       PROVE  \E i \in 1..k : i > cursor' /\ b[i] = p
  <2>1. pc = "discardFill" /\ cursor' = 0 /\ readErrors = 0
    BY <1>3, <1>10, <1>t DEF TypeOK
  <2>2. fate[p] # "buffered"
    BY <1>t, <2>1 DEF Fates, Buffering, TypeOK
  <2>3. p \in Nat /\ p > src /\ p <= src + k
    BY <1>2, <1>10, <2>2 DEF Packets
  <2>4. p - src \in 1..k /\ src + (p - src) = p
    BY <1>2, <2>3
  <2>5. b[p - src] = p /\ p - src > cursor'
    BY <1>2, <2>1, <2>4
  <2> QED BY <2>4, <2>5
<1>11. Fates'
  <2>1. dropped' = Cardinality(Expired(fate'))
    BY <1>1, <1>2, <1>t DEF Fates
  <2> QED BY <1>1, <1>2, <1>9, <1>10, <2>1 DEF Fates
<1> QED BY <1>6, <1>7, <1>8, <1>11 DEF RInv

\* A read that reports the end of the file empties the buffer.
LEMMA FillEOFInv ==
  ASSUME RInv, FillEOF
  PROVE  RInv'
<1> USE ReplayAssumption
<1>t. TypeOK /\ Buffering /\ Fates /\ Timing
  BY DEF RInv
<1>1. /\ pc \in {"collectFill", "discardFill"} /\ buf' = <<>> /\ pc' = "idle" /\ res' = "eof"
      /\ UNCHANGED <<clock, start, first, cursor, received, dropped, src, readErrors,
                     elapsed, pb, fate>>
  BY DEF FillEOF, timeVars, fileVars
<1>2. buf' \in Seq(Packets) /\ Len(buf') = 0 /\ 1..Len(buf') = {}
  BY <1>1
<1>3. TypeOK'
  BY <1>1, <1>2, <1>t DEF TypeOK
<1>4. Buffering' /\ Timing'
  BY <1>1, <1>2, <1>t DEF Buffering, Timing, TypeOK
<1>5. readErrors = 0 => \A p \in Packets : fate[p] # "buffered"
  BY <1>1, <1>t DEF Fates, Buffering, TypeOK
<1>6. Fates'
  BY <1>1, <1>2, <1>5, <1>t DEF Fates
<1> QED BY <1>3, <1>4, <1>6 DEF RInv

\* CollectPackets drops what has become overdue in the buffer.
LEMMA CollectPacketsInv ==
  ASSUME RInv, CollectPackets
  PROVE  RInv'
<1> USE ReplayAssumption
<1>t. TypeOK /\ Buffering /\ Fates /\ Timing
  BY DEF RInv
<1>1. /\ pc = "idle" /\ pb' = <<>>
      /\ start' = (IF start = Unset THEN clock ELSE start)
      /\ elapsed' = Since(start', clock)
      /\ cursor' = unexpired(buf, cursor, first, elapsed')
      /\ dropped' = dropped + (cursor' - cursor)
      /\ fate' = Dropping(buf, cursor, first, elapsed', fate)
      /\ pc' = IF cursor' >= Len(buf) THEN "collectFill" ELSE "deliver"
      /\ UNCHANGED <<clock, first, buf, received, src, readErrors, res>>
  BY DEF CollectPackets, dropExpired, Dropping, fileVars
<1> DEFINE base == src - Len(buf)
<1>2. /\ buf \in Seq(Packets) /\ Len(buf) \in Nat /\ src \in Nat /\ base \in Nat
      /\ cursor \in Nat /\ fate \in [Packets -> AllFates] /\ base + Len(buf) = src
      /\ \A i \in 1..Len(buf) : buf[i] = base + i
  BY <1>t DEF TypeOK, Buffering, AllFates
<1>3. /\ \A i \in 1..Len(buf) : i > cursor => fate[buf[i]] = "buffered"
      /\ dropped = Cardinality(Expired(fate))
  BY <1>t DEF Fates
<1> HIDE DEF base
<1>4. Dropped(buf, base, cursor, first, elapsed', fate, cursor', fate')
  BY <1>1, <1>2, <1>3, DropFacts
<1>5. /\ cursor' \in Nat /\ cursor <= cursor' /\ (cursor' <= Len(buf) \/ cursor' = cursor)
      /\ Cardinality(Expired(fate')) \in Nat
      /\ Cardinality(Expired(fate')) = Cardinality(Expired(fate)) + (cursor' - cursor)
      /\ fate' \in [Packets -> AllFates]
      /\ \A i \in 1..Len(buf) : i > cursor' => fate'[buf[i]] = "buffered"
      /\ \A p \in Packets :
           /\ fate'[p] \in {fate[p], "expired"}
           /\ p > src => fate'[p] = fate[p]
           /\ fate'[p] = "buffered" =>
                \A i \in 1..Len(buf) : i > cursor /\ i <= cursor' => buf[i] # p
      /\ cursor' < Len(buf) => After(buf[cursor' + 1], first, elapsed' - Timeout \div 2)
  BY <1>2, <1>4 DEF Dropped
<1>6. dropped' \in Nat /\ dropped' = Cardinality(Expired(fate'))
  BY <1>1, <1>3, <1>5
<1>7. /\ start' \in 0..MaxClock /\ start' # Unset /\ start' <= clock
      /\ elapsed' = clock - start' /\ elapsed' \in 0..MaxClock
  BY <1>1, <1>t DEF TypeOK, Timing, Since
<1>8. TypeOK'
  <2>1. cursor' \in 0..BufCap
    BY <1>2, <1>5, <1>t DEF TypeOK
  <2>2. pb' \in Seq(Packets) /\ Len(pb') <= BufCap
    BY <1>1
  <2>3. pc' \in {"collectFill", "deliver"}
    BY <1>1
  <2> QED BY <1>1, <1>5, <1>6, <1>7, <1>t, <2>1, <2>2, <2>3 DEF TypeOK, AllFates
<1>9. Buffering'
  BY <1>1, <1>2, <1>5, <1>t DEF Buffering
<1>10. Timing'
  <2>1. pc' = "deliver" => After(buf'[cursor' + 1], first', elapsed' - Timeout \div 2)
    BY <1>1, <1>2, <1>5
  <2> QED BY <1>1, <1>7, <2>1 DEF Timing
<1>11. ASSUME readErrors = 0, NEW p \in Packets, fate'[p] = "buffered"
       PROVE  \E i \in 1..Len(buf) : i > cursor' /\ buf[i] = p
  <2>1. fate[p] = "buffered"
    BY <1>5, <1>11
  <2>2. PICK i \in 1..Len(buf) : i > cursor /\ buf[i] = p
    BY <1>t, <1>11, <2>1 DEF Fates
  <2>3. ~(i <= cursor')
    BY <1>5, <1>11, <2>2
  <2> QED BY <1>5, <2>2, <2>3
<1>12. Fates'
  <2>1. \A p \in Packets : p > src => fate'[p] = "unread"
    BY <1>5, <1>t DEF Fates
  <2> QED BY <1>1, <1>5, <1>6, <1>11, <2>1 DEF Fates
<1> QED BY <1>8, <1>9, <1>10, <1>12 DEF RInv

\* The copying loop stops at the end of the buffer, when room has run out or at
\* an early packet, and passes no early packet.
LEMMA StopFacts ==
  ASSUME TypeOK, cursor <= Len(buf), NEW room \in Nat
  PROVE  /\ stop(room) \in cursor..Len(buf)
         /\ \A i \in cursor..(stop(room) - 1) : ~early(i)
<1> DEFINE done(j) == IF j = Len(buf) \/ j - cursor = room THEN TRUE ELSE early(j)
           S == {j \in cursor..Len(buf) : done(j)}
<1>1. Len(buf) \in Nat /\ cursor \in Nat /\ cursor <= Len(buf)
  BY DEF TypeOK
<1>2. S \in SUBSET Nat /\ Len(buf) \in S
  BY <1>1
<1>3. PICK j \in S : \A i \in S : j <= i
  BY <1>2, Smallest
<1>4. j \in cursor..Len(buf) /\ done(j)
  BY <1>3
<1>5. \A i \in cursor..(j - 1) : i \in cursor..Len(buf) /\ ~done(i)
  <2> SUFFICES ASSUME NEW i \in cursor..(j - 1) PROVE i \in cursor..Len(buf) /\ ~done(i)
    OBVIOUS
  <2>1. i \in cursor..Len(buf) /\ i < j
    BY <1>1, <1>4
  <2>2. i \notin S
    <3> HIDE DEF S
    <3> QED BY <1>1, <1>2, <1>3, <2>1
  <2> QED BY <2>1, <2>2
<1>6. \A i \in cursor..(j - 1) : i - cursor # room /\ ~early(i)
  BY <1>1, <1>4, <1>5
<1>7. j - cursor <= room
  <2> SUFFICES ASSUME j - cursor > room PROVE FALSE
    BY <1>1, <1>4
  <2>1. cursor + room \in cursor..(j - 1) /\ (cursor + room) - cursor = room
    BY <1>1, <1>4
  <2> QED BY <1>6, <2>1
<1>8. \A i \in cursor..(j - 1) : i - cursor < room /\ ~early(i)
  BY <1>1, <1>4, <1>6, <1>7
<1>9. stop(room) =
        CHOOSE k \in cursor..Len(buf) : /\ \A i \in cursor..(k - 1) : i - cursor < room /\ ~early(i)
                                        /\ done(k)
  BY Zenon DEF stop
<1> HIDE DEF done
<1>10. /\ stop(room) \in cursor..Len(buf)
       /\ \A i \in cursor..(stop(room) - 1) : i - cursor < room /\ ~early(i)
  BY <1>4, <1>8, <1>9
<1> QED BY <1>10

\* Facts of arithmetic.
LEMMA InRun ==
  ASSUME NEW m \in Nat, NEW l \in Nat, NEW n \in m..l, NEW i \in 1..(n - m)
  PROVE  m + i \in 1..l /\ m + i > m /\ m + i \in Nat
  OBVIOUS

\* Part of a buffer fits where the buffer does.
LEMMA PartFits ==
  ASSUME NEW m \in Nat, NEW n \in Nat, NEW l \in Nat, NEW cap \in Nat, n <= l, l <= cap
  PROVE  n - m <= cap
  OBVIOUS

\* A time that has passed stays in the past.
LEMMA LaterStill ==
  ASSUME NEW e \in Int, NEW s \in Int, NEW t \in Int, NEW u \in Int, e <= t - s, t <= u
  PROVE  e <= u - s
  OBVIOUS

\* What SubSeq takes out of a sequence after its first m elements.
LEMMA SubSeqFacts ==
  ASSUME NEW S, NEW s \in Seq(S), NEW m \in Nat, NEW n \in m..Len(s)
  PROVE  /\ SubSeq(s, m + 1, n) \in Seq(S) /\ Len(SubSeq(s, m + 1, n)) = n - m
         /\ \A i \in 1..(n - m) : SubSeq(s, m + 1, n)[i] = s[m + i]
  OBVIOUS

\* What CollectPackets hands out: a run of buffered packets from the cursor on.
LEMMA DeliverFacts ==
  ASSUME RInv, NEW room \in 1..BufCap, Deliver(room)
  PROVE  /\ pc = "deliver" /\ pc' = "idle" /\ cursor < Len(buf)
         /\ cursor' \in cursor..Len(buf)
         /\ \A i \in (cursor + 1)..cursor' : i \in 1..Len(buf) /\ i > cursor /\ ~early(i - 1)
         /\ pb' = SubSeq(buf, cursor + 1, cursor')
         /\ fate' = [p \in Packets |-> IF \E i \in (cursor + 1)..cursor' : buf[i] = p
                                       THEN "returned" ELSE fate[p]]
         /\ received' \in 0..MaxReceived
         /\ clock' \in 0..MaxClock /\ clock <= clock'
         /\ res' \in {"timeout", "nil"}
         /\ UNCHANGED <<start, first, buf, dropped, src, readErrors, elapsed>>
<1> USE ReplayAssumption
<1> DEFINE j == stop(room)
           tooEarly == j < Len(buf) /\ j - cursor < room
           seen == (j - cursor) + (IF tooEarly THEN 1 ELSE 0)
<1>t. TypeOK /\ Buffering /\ Fates /\ Timing
  BY DEF RInv
<1>1. /\ pc = "deliver" /\ pc' = "idle" /\ cursor' = j
      /\ Returned(j)
      /\ received' = SmallerOf(received + seen, MaxReceived)
      /\ Sleep \/ UNCHANGED clock
      /\ res' \in {"timeout", "nil"}
      /\ UNCHANGED <<start, first, buf, dropped, src, readErrors, elapsed>>
  BY DEF Deliver, fileVars
<1>2. cursor \in Nat /\ Len(buf) \in Nat /\ cursor < Len(buf)
  BY <1>1, <1>t DEF TypeOK, Buffering
<1>3. j \in cursor..Len(buf) /\ \A i \in cursor..(j - 1) : ~early(i)
  BY <1>2, <1>t, StopFacts
<1>4. received' \in 0..MaxReceived
  <2>1. seen \in Nat
    BY <1>2, <1>3
  <2> HIDE DEF seen
  <2> QED BY <1>1, <1>t, <2>1 DEF TypeOK, SmallerOf
<1>5. clock' \in 0..MaxClock /\ clock <= clock'
  BY <1>1, <1>t, SleepFacts
<1> HIDE DEF j
<1>6. \A i \in (cursor + 1)..j : i \in 1..Len(buf) /\ i > cursor /\ ~early(i - 1)
  <2> SUFFICES ASSUME NEW i \in (cursor + 1)..j
               PROVE  i \in 1..Len(buf) /\ i > cursor /\ ~early(i - 1)
    OBVIOUS
  <2>1. i \in 1..Len(buf) /\ i > cursor /\ i - 1 \in cursor..(j - 1)
    BY <1>2, <1>3
  <2> QED BY <1>3, <2>1
<1>7. /\ pb' = SubSeq(buf, cursor + 1, j)
      /\ fate' = [p \in Packets |-> IF \E i \in (cursor + 1)..j : buf[i] = p
                                    THEN "returned" ELSE fate[p]]
  BY <1>1 DEF Returned
<1> QED BY <1>1, <1>2, <1>3, <1>4, <1>5, <1>6, <1>7

\* CollectPackets copies packets out.
LEMMA DeliverInv ==
  ASSUME RInv, NEW room \in 1..BufCap, Deliver(room)
  PROVE  RInv'
<1> USE ReplayAssumption
<1>t. TypeOK /\ Buffering /\ Fates /\ Timing
  BY DEF RInv
<1>1. /\ pc = "deliver" /\ pc' = "idle" /\ cursor < Len(buf)
      /\ cursor' \in cursor..Len(buf)
      /\ \A i \in (cursor + 1)..cursor' : i \in 1..Len(buf) /\ i > cursor
      /\ pb' = SubSeq(buf, cursor + 1, cursor')
      /\ fate' = [p \in Packets |-> IF \E i \in (cursor + 1)..cursor' : buf[i] = p
                                    THEN "returned" ELSE fate[p]]
      /\ received' \in 0..MaxReceived
      /\ clock' \in 0..MaxClock /\ clock <= clock'
      /\ res' \in {"timeout", "nil"}
      /\ UNCHANGED <<start, first, buf, dropped, src, readErrors, elapsed>>
  BY DeliverFacts
<1>2. /\ buf \in Seq(Packets) /\ Len(buf) \in Nat /\ cursor \in Nat /\ src \in Nat
      /\ Len(buf) <= BufCap /\ cursor' \in Nat
      /\ \A i \in 1..Len(buf) : buf[i] = src - Len(buf) + i
  BY <1>1, <1>t DEF TypeOK, Buffering
<1>a. /\ cursor' \in cursor..Len(buf)
      /\ \A i \in (cursor + 1)..cursor' : i \in 1..Len(buf) /\ i > cursor
  BY <1>1
<1>b. \A i \in 1..Len(buf) : i > cursor => buf[i] \in Packets /\ fate[buf[i]] = "buffered"
  BY <1>2, <1>t DEF Fates
<1>3. \A i \in (cursor + 1)..cursor' : buf[i] \in Packets /\ fate[buf[i]] = "buffered"
  BY <1>a, <1>b
<1>4. pb' \in Seq(Packets) /\ Len(pb') <= BufCap
  <2>1. /\ SubSeq(buf, cursor + 1, cursor') \in Seq(Packets)
        /\ Len(SubSeq(buf, cursor + 1, cursor')) = cursor' - cursor
    <3>1. buf \in Seq(Packets) /\ cursor \in Nat /\ cursor' \in cursor..Len(buf)
      BY <1>2, <1>a
    <3> QED BY <3>1, SubSeqFacts, ZenonT(40)
  <2>2. cursor' - cursor <= BufCap
    <3>1. cursor' <= Len(buf) /\ cursor \in Nat /\ cursor' \in Nat /\ Len(buf) \in Nat
      BY <1>2, <1>a
    <3>2. Len(buf) <= BufCap /\ BufCap \in Nat
      BY <1>2
    <3> QED BY <3>1, <3>2, PartFits
  <2>3. pb' = SubSeq(buf, cursor + 1, cursor')
    BY <1>1
  <2> QED BY <2>1, <2>2, <2>3
<1>5. fate' \in [Packets -> AllFates]
  BY <1>1, <1>t DEF TypeOK, AllFates
<1>6. TypeOK'
  <2>1. cursor' \in 0..BufCap
    BY <1>1, <1>2
  <2> QED BY <1>1, <1>4, <1>5, <1>t, <2>1 DEF TypeOK, AllFates
<1>7. Buffering' /\ Timing'
  <2>1. Buffering'
    BY <1>1, <1>t DEF Buffering
  <2>2. (start # Unset => start <= clock)'
    BY <1>1, <1>t DEF Timing, TypeOK
  <2> QED BY <1>1, <2>1, <2>2 DEF Timing
<1>8. Expired(fate') = Expired(fate)
  BY <1>1, <1>3 DEF Expired
<1>9. \A i \in 1..Len(buf) : i > cursor' => fate'[buf[i]] = "buffered"
  <2> SUFFICES ASSUME NEW i \in 1..Len(buf), i > cursor' PROVE fate'[buf[i]] = "buffered"
    OBVIOUS
  <2>1. i > cursor /\ buf[i] \in Packets /\ fate[buf[i]] = "buffered"
    <3>1. i > cursor
      BY <1>2, <1>a
    <3> QED BY <1>b, <3>1
  <2>2. \A k \in (cursor + 1)..cursor' : buf[k] # buf[i]
    BY <1>1, <1>2, SMTT(40)
  <2> QED BY <1>1, <2>1, <2>2
<1>10. ASSUME readErrors = 0, NEW p \in Packets, fate'[p] = "buffered"
       PROVE  \E i \in 1..Len(buf) : i > cursor' /\ buf[i] = p
  <2>1. fate[p] = "buffered" /\ \A i \in (cursor + 1)..cursor' : buf[i] # p
    BY <1>1, <1>10
  <2>2. PICK i \in 1..Len(buf) : i > cursor /\ buf[i] = p
    BY <1>t, <1>10, <2>1 DEF Fates
  <2>3. ~(i <= cursor')
    <3> SUFFICES ASSUME i <= cursor' PROVE FALSE
      OBVIOUS
    <3>1. i \in (cursor + 1)..cursor'
      BY <1>2, <2>2
    <3> QED BY <2>1, <2>2, <3>1
  <2> QED BY <1>2, <2>2, <2>3
<1>11. \A p \in Packets : p > src => fate'[p] = "unread"
  <2> SUFFICES ASSUME NEW p \in Packets, p > src PROVE fate'[p] = "unread"
    OBVIOUS
  <2>1. fate[p] = "unread"
    BY <1>t DEF Fates
  <2> QED BY <1>1, <1>3, <2>1
<1>12. Fates'
  BY <1>1, <1>8, <1>9, <1>10, <1>11, <1>t, SMTT(40) DEF Fates
<1> QED BY <1>6, <1>7, <1>12 DEF RInv

\* DiscardPacket skips one packet.
LEMMA DiscardInv ==
  ASSUME RInv, Discard
  PROVE  RInv'
<1> USE ReplayAssumption
<1>t. TypeOK /\ Buffering /\ Fates /\ Timing
  BY DEF RInv
<1> DEFINE x == buf[cursor + 1]
<1>1. /\ pc = "discard" /\ pc' = "idle" /\ cursor' = cursor + 1
      /\ received' = SmallerOf(received + 1, MaxReceived)
      /\ fate' = [fate EXCEPT ![x] = "discarded"]
      /\ res' = "nil"
      /\ UNCHANGED <<clock, start, first, buf, dropped, src, readErrors, elapsed, pb>>
  BY DEF Discard, timeVars, fileVars
<1>2. /\ buf \in Seq(Packets) /\ Len(buf) \in Nat /\ cursor \in Nat /\ src \in Nat
      /\ Len(buf) <= BufCap /\ cursor < Len(buf) /\ cursor + 1 \in 1..Len(buf)
      /\ \A i \in 1..Len(buf) : buf[i] = src - Len(buf) + i
  BY <1>1, <1>t DEF TypeOK, Buffering
<1>3. x \in Packets /\ fate[x] = "buffered" /\ x = src - Len(buf) + (cursor + 1)
  BY <1>2, <1>t DEF Fates
<1> HIDE DEF x
<1>4. fate' \in [Packets -> AllFates] /\ \A p \in Packets : p # x => fate'[p] = fate[p]
  BY <1>1, <1>3, <1>t DEF TypeOK, AllFates
<1>5. fate'[x] = "discarded"
  BY <1>1, <1>3, <1>t DEF TypeOK
<1>6. TypeOK'
  <2>1. cursor' \in 0..BufCap /\ received' \in 0..MaxReceived
    BY <1>1, <1>2, <1>t DEF TypeOK, SmallerOf
  <2> QED BY <1>1, <1>4, <1>t, <2>1 DEF TypeOK, AllFates
<1>7. Buffering' /\ Timing'
  BY <1>1, <1>t DEF Buffering, Timing
<1>8. Expired(fate') = Expired(fate)
  BY <1>3, <1>4, <1>5 DEF Expired
<1>9. \A i \in 1..Len(buf) : i > cursor' => fate'[buf[i]] = "buffered"
  <2> SUFFICES ASSUME NEW i \in 1..Len(buf), i > cursor' PROVE fate'[buf[i]] = "buffered"
    OBVIOUS
  <2>1. i > cursor /\ buf[i] \in Packets /\ fate[buf[i]] = "buffered"
    BY <1>1, <1>2, <1>t DEF Fates
  <2>2. buf[i] # x
    BY <1>1, <1>2, <1>3
  <2> QED BY <1>4, <2>1, <2>2
<1>10. ASSUME readErrors = 0, NEW p \in Packets, fate'[p] = "buffered"
       PROVE  \E i \in 1..Len(buf) : i > cursor' /\ buf[i] = p
  <2>1. fate[p] = "buffered" /\ p # x
    BY <1>4, <1>5, <1>10
  <2>2. PICK i \in 1..Len(buf) : i > cursor /\ buf[i] = p
    BY <1>t, <1>10, <2>1 DEF Fates
  <2>3. i # cursor + 1
    BY <2>1, <2>2 DEF x
  <2> QED BY <1>1, <1>2, <2>2, <2>3
<1>11. \A p \in Packets : p > src => fate'[p] = "unread"
  BY <1>2, <1>3, <1>4, <1>t DEF Fates
<1>12. Fates'
  BY <1>1, <1>8, <1>9, <1>10, <1>11, <1>t DEF Fates
<1> QED BY <1>6, <1>7, <1>12 DEF RInv

\* The steps that touch neither the buffer nor the fate of a packet.
LEMMA QuietInv ==
  ASSUME RInv, Tick \/ DiscardPacket \/ DiscardTimeout
  PROVE  RInv'
<1> USE ReplayAssumption
<1>t. TypeOK /\ Buffering /\ Fates /\ Timing
  BY DEF RInv
<1>1. /\ UNCHANGED <<start, first, buf, cursor, received, dropped, src, readErrors,
                     elapsed, pb, fate>>
      /\ res' = res \/ res' = "timeout"
      /\ \/ pc' = pc
         \/ pc' = IF cursor >= Len(buf) THEN "discardFill" ELSE "discard"
         \/ pc' = "idle"
  BY DEF Tick, DiscardPacket, DiscardTimeout, timeVars, fileVars
<1>2. clock' \in 0..MaxClock /\ clock <= clock'
  <2>1. CASE Tick
    BY <1>t, <2>1 DEF Tick, TypeOK
  <2>2. CASE DiscardPacket
    BY <1>t, <2>2 DEF DiscardPacket, TypeOK, timeVars
  <2>3. CASE DiscardTimeout
    BY <1>t, <2>3, SleepFacts DEF DiscardTimeout
  <2> QED BY <2>1, <2>2, <2>3
<1>3. TypeOK'
  <2>1. pc' \in {"idle", "collectFill", "deliver", "discardFill", "discard"}
    BY <1>1, <1>t DEF TypeOK
  <2> QED BY <1>1, <1>2, <1>t, <2>1 DEF TypeOK
<1>4. Buffering'
  BY <1>1, <1>t DEF Buffering, TypeOK
<1>5. Timing'
  <2>1. (start # Unset => start <= clock)'
    BY <1>1, <1>2, <1>t DEF Timing, TypeOK
  <2>2. pc' \in {"collectFill", "deliver"} => pc = pc'
    BY <1>1
  <2>3. pc' \in {"collectFill", "deliver"} => start' # Unset /\ elapsed' <= clock' - start'
    <3> SUFFICES ASSUME pc \in {"collectFill", "deliver"}
                 PROVE  start' # Unset /\ elapsed' <= clock' - start'
      BY <2>2
    <3>1. start # Unset /\ elapsed <= clock - start
      BY <1>t DEF Timing
    <3>2. start \in Int /\ elapsed \in Int /\ clock \in Int
      BY <1>t, <3>1 DEF TypeOK
    <3>3. start' = start /\ elapsed' = elapsed
      BY <1>1
    <3>4. clock' \in Int /\ clock <= clock'
      BY <1>2
    <3>5. elapsed <= clock' - start
      BY <3>1, <3>2, <3>4, LaterStill
    <3> QED BY <3>1, <3>3, <3>5
  <2> QED BY <1>1, <1>t, <2>1, <2>2, <2>3 DEF Timing
<1>6. Fates'
  BY <1>1, <1>t DEF Fates
<1> QED BY <1>3, <1>4, <1>5, <1>6 DEF RInv

-----------------------------------------------------------------------------
(* The theorems.                                                           *)

\* A new replayer has read nothing.
LEMMA RInvInit ==
  ASSUME Init
  PROVE  RInv
<1> USE ReplayAssumption
<1>1. TypeOK
  BY DEF Init, TypeOK
<1>2. Buffering /\ Timing
  BY DEF Init, Buffering, Timing
<1>3. Expired(fate) = {}
  BY DEF Init, Expired
<1>4. dropped = Cardinality(Expired(fate))
  BY <1>3, FS_EmptySet DEF Init
<1>5. Fates
  BY <1>4 DEF Init, Fates
<1> QED BY <1>1, <1>2, <1>5 DEF RInv

\* Every step of the replayer keeps its invariant.
LEMMA RInvStep ==
  ASSUME RInv, [Next]_vars
  PROVE  RInv'
<1>1. CASE Tick \/ DiscardPacket \/ DiscardTimeout
  BY <1>1, QuietInv
<1>2. CASE CollectPackets
  BY <1>2, CollectPacketsInv
<1>3. CASE \E k \in 1..BufCap : CollectFill(k)
  BY <1>3, CollectFillInv
<1>4. ASSUME NEW k \in 1..BufCap, DiscardFill(k) PROVE RInv'
  BY <1>4, OtherFillInv, ReplayAssumption
<1>5. ASSUME NEW k \in 0..(BufCap - 1), FillError(k) PROVE RInv'
  BY <1>5, OtherFillInv, ReplayAssumption
<1>6. CASE FillEOF
  BY <1>6, FillEOFInv
<1>7. CASE \E room \in 1..BufCap : Deliver(room)
  BY <1>7, DeliverInv
<1>8. CASE Discard
  BY <1>8, DiscardInv
<1>9. CASE UNCHANGED vars
  BY <1>9 DEF vars, RInv, TypeOK, Buffering, Fates, Timing
<1> QED BY <1>1, <1>2, <1>3, <1>4, <1>5, <1>6, <1>7, <1>8, <1>9 DEF Next, Step

\* The inductive invariant of the replayer.
THEOREM RInvInvariant == Spec => []RInv
<1>1. Init => RInv
  BY RInvInit
<1>2. RInv /\ [Next]_vars => RInv'
  BY RInvStep
<1> QED BY <1>1, <1>2, PTL DEF Spec

\* PacketsDropped counts what dropExpired skipped, and as long as no read has
\* failed every packet read is returned, dropped, discarded or still ahead of the
\* cursor: for every file, every pattern of reads and every timing.
THEOREM NothingIsLost == Spec => []NothingLost
<1>1. RInv => NothingLost
  <2> SUFFICES ASSUME RInv PROVE NothingLost
    OBVIOUS
  <2>t. TypeOK /\ Buffering /\ Fates
    BY DEF RInv
  <2>1. dropped = Cardinality({p \in Packets : fate[p] = "expired"})
    BY <2>t DEF Fates, Expired
  <2>2. buf \in Seq(Packets) /\ Len(buf) \in Nat /\ cursor \in Nat
    BY <2>t DEF TypeOK
  <2>3. \A i : i \in (cursor + 1)..Len(buf) <=> (i \in 1..Len(buf) /\ i > cursor)
    BY <2>2
  <2>4. ASSUME readErrors = 0
        PROVE  {p \in Packets : fate[p] = "buffered"} = {buf[i] : i \in (cursor + 1)..Len(buf)}
    <3>1. \A p \in Packets : fate[p] = "buffered" => \E i \in (cursor + 1)..Len(buf) : buf[i] = p
      BY <2>t, <2>3, <2>4 DEF Fates
    <3>2. \A i \in (cursor + 1)..Len(buf) : buf[i] \in Packets /\ fate[buf[i]] = "buffered"
      BY <2>t, <2>2, <2>3 DEF Fates
    <3> QED BY <3>1, <3>2
  <2> QED BY <2>t, <2>1, <2>4 DEF NothingLost
<1> QED BY <1>1, RInvInvariant, PTL

\* pb is filled by Deliver only; the other steps leave it alone or clear it.
LEMMA OnlyDeliver ==
  ASSUME [Next]_vars
  PROVE  \/ \E room \in 1..BufCap : Deliver(room)
         \/ pb' = pb
         \/ pb' = <<>>
  BY DEF Next, Step, Tick, CollectPackets, DiscardPacket, CollectFill, DiscardFill, FillError,
         FillEOF, DiscardTimeout, Discard, vars

\* Each packet is handed to the caller of CollectPackets at most once and in file
\* order, whatever reads fail in between.
THEOREM PacketsInOrder == Spec => ReturnedInOrder
<1> DEFINE A == pb' # pb => \A i \in DOMAIN pb' :
                  /\ fate[pb'[i]] = "buffered"
                  /\ \A q \in Packets : q > pb'[i] => fate[q] \in {"unread", "buffered"}
<1>1. RInv /\ [Next]_vars => A
  <2> SUFFICES ASSUME RInv, [Next]_vars, pb' # pb, NEW i \in DOMAIN pb'
               PROVE  /\ fate[pb'[i]] = "buffered"
                      /\ \A q \in Packets : q > pb'[i] => fate[q] \in {"unread", "buffered"}
    OBVIOUS
  <2>t. TypeOK /\ Buffering /\ Fates
    BY DEF RInv
  <2>1. PICK room \in 1..BufCap : Deliver(room)
    <3>1. pb' # <<>>
      OBVIOUS
    <3> QED BY <3>1, OnlyDeliver
  <2>2. /\ pb' = SubSeq(buf, cursor + 1, cursor')
        /\ cursor' \in cursor..Len(buf)
    BY <2>1, DeliverFacts
  <2>3. /\ buf \in Seq(Packets) /\ cursor \in Nat /\ Len(buf) \in Nat /\ src \in Nat
        /\ Len(buf) <= src
        /\ \A k \in 1..Len(buf) : buf[k] = src - Len(buf) + k
    BY <2>t DEF TypeOK, Buffering
  <2>4. /\ pb' \in Seq(Packets) /\ Len(pb') = cursor' - cursor
        /\ \A k \in 1..(cursor' - cursor) : pb'[k] = buf[cursor + k]
    BY <2>2, <2>3, SubSeqFacts
  <2>5. i \in 1..(cursor' - cursor)
    BY <2>4
  <2> DEFINE n == cursor + i
  <2>6. n \in 1..Len(buf) /\ n > cursor /\ n \in Nat
    BY <2>2, <2>3, <2>5, InRun
  <2>7. pb'[i] = buf[n]
    BY <2>4, <2>5
  <2> HIDE DEF n
  <2>8. \A k \in 1..Len(buf) : k > cursor => fate[buf[k]] = "buffered"
    BY <2>t DEF Fates
  <2>9. ASSUME NEW q \in Packets, q > pb'[i]
        PROVE  fate[q] \in {"unread", "buffered"}
    <3>1. CASE q > src
      BY <2>t, <3>1 DEF Fates
    <3>2. CASE ~(q > src)
      <4>1. q \in Nat
        BY DEF Packets
      <4>2. buf[n] = src - Len(buf) + n
        BY <2>3, <2>6
      <4> DEFINE k == q - src + Len(buf)
      <4>3. k \in 1..Len(buf) /\ k > n /\ src - Len(buf) + k = q
        BY <2>3, <2>6, <2>7, <2>9, <3>2, <4>1, <4>2
      <4>4. k > cursor
        BY <2>3, <2>6, <4>3
      <4> HIDE DEF k
      <4>5. buf[k] = q
        BY <2>3, <4>3
      <4> QED BY <2>8, <4>3, <4>4, <4>5
    <3> QED BY <3>1, <3>2
  <2> QED BY <2>6, <2>7, <2>8, <2>9
<1>2. RInv /\ [Next]_vars => [A]_vars
  BY <1>1
<1> QED BY <1>2, RInvInvariant, PTL DEF Spec, ReturnedInOrder

\* Which packets a step lets go, and how.
LEMMA LetGo ==
  ASSUME RInv, [Next]_vars, NEW p \in Packets, fate'[p] # fate[p],
         fate'[p] \in {"returned", "discarded"}
  PROVE  \/ /\ fate'[p] = "returned" /\ pc = "deliver"
            /\ UNCHANGED <<start, first, elapsed>>
            /\ \E i \in 1..Len(buf) : i > cursor /\ buf[i] = p /\ ~early(i - 1)
         \/ /\ fate'[p] = "discarded" /\ Discard
            /\ p = buf[cursor + 1]
            /\ UNCHANGED <<start, first, elapsed>>
<1>t. TypeOK /\ Buffering /\ Fates /\ Timing
  BY DEF RInv
<1>f. fate[p] \in AllFates
  BY <1>t DEF TypeOK, AllFates
<1>1. CASE Tick \/ DiscardPacket \/ DiscardTimeout \/ FillEOF \/ UNCHANGED vars
  BY <1>1 DEF Tick, DiscardPacket, DiscardTimeout, FillEOF, vars
<1>2. CASE CollectPackets
  <2>1. fate' = Dropping(buf, cursor, first, elapsed', fate)
    BY <1>2 DEF CollectPackets, dropExpired, Dropping
  <2>2. fate'[p] \in {fate[p], "expired"}
    BY <2>1 DEF Dropping
  <2> QED BY <2>2
<1>3. ASSUME NEW k \in 0..BufCap, CollectFill(k) \/ DiscardFill(k) \/ FillError(k)
      PROVE  FALSE
  <2>1. Known(k)[p] \in {fate[p], "buffered"}
    BY DEF Known
  <2>2. fate' = Known(k) \/ fate' = Dropping(Batch(k), 0, first', elapsed, Known(k))
    BY <1>3 DEF CollectFill, DiscardFill, FillError, dropExpired, Dropping
  <2>3. fate'[p] \in {Known(k)[p], "expired"}
    BY <2>2 DEF Dropping
  <2> QED BY <2>1, <2>3
<1>4. ASSUME NEW room \in 1..BufCap, Deliver(room)
      PROVE  /\ fate'[p] = "returned" /\ pc = "deliver"
             /\ UNCHANGED <<start, first, elapsed>>
             /\ \E i \in 1..Len(buf) : i > cursor /\ buf[i] = p /\ ~early(i - 1)
  <2>1. /\ pc = "deliver"
        /\ \A i \in (cursor + 1)..cursor' : i \in 1..Len(buf) /\ i > cursor /\ ~early(i - 1)
        /\ fate' = [q \in Packets |-> IF \E i \in (cursor + 1)..cursor' : buf[i] = q
                                      THEN "returned" ELSE fate[q]]
        /\ UNCHANGED <<start, first, elapsed>>
    BY <1>4, DeliverFacts
  <2>2. PICK i \in (cursor + 1)..cursor' : buf[i] = p
    BY <2>1
  <2>3. fate'[p] = "returned"
    BY <2>1, <2>2
  <2> QED BY <2>1, <2>2, <2>3
<1>5. CASE Discard
  <2>1. fate' = [fate EXCEPT ![buf[cursor + 1]] = "discarded"] /\ UNCHANGED <<start, first, elapsed>>
    BY <1>5 DEF Discard, timeVars
  <2>2. p = buf[cursor + 1] /\ fate'[p] = "discarded"
    BY <1>t, <2>1 DEF TypeOK
  <2> QED BY <1>5, <2>1, <2>2
<1>6. BufCap \in Nat
  BY ReplayAssumption
<1>7. \A k \in 1..BufCap : k \in 0..BufCap
  BY <1>6
<1>8. \A k \in 0..(BufCap - 1) : k \in 0..BufCap
  BY <1>6
<1> QED BY <1>1, <1>2, <1>3, <1>4, <1>5, <1>7, <1>8 DEF Next, Step

\* CollectPackets returns no packet that was overdue by replayerTimeout/2 when the
\* call began, unless an older timestamp follows a younger one in the file.
THEOREM NoStalePackets == Spec => NotStale
<1> DEFINE A == \A p \in Packets :
                  /\ fate[p] # fate'[p] /\ fate'[p] = "returned"
                  /\ \A q \in 1..(p - 1) : Stamp[q] <= Stamp[p]
                  => Stamp[p] - first' > elapsed' - Timeout \div 2
<1>1. RInv /\ [Next]_vars => A
  <2> SUFFICES ASSUME RInv, [Next]_vars, NEW p \in Packets, fate[p] # fate'[p],
                      fate'[p] = "returned", \A q \in 1..(p - 1) : Stamp[q] <= Stamp[p]
               PROVE  Stamp[p] - first' > elapsed' - Timeout \div 2
    OBVIOUS
  <2>t. TypeOK /\ Buffering /\ Fates /\ Timing
    BY DEF RInv
  <2>1. /\ pc = "deliver" /\ UNCHANGED <<start, first, elapsed>>
        /\ \E i \in 1..Len(buf) : i > cursor /\ buf[i] = p /\ ~early(i - 1)
    BY LetGo
  <2>2. PICK i \in 1..Len(buf) : i > cursor /\ buf[i] = p /\ ~early(i - 1)
    BY <2>1
  <2>3. /\ Len(buf) \in Nat /\ cursor \in Nat /\ src \in Nat /\ cursor + 1 \in 1..Len(buf)
        /\ buf \in Seq(Packets) /\ Len(buf) <= src
        /\ buf[i] = src - Len(buf) + i
        /\ buf[cursor + 1] = src - Len(buf) + (cursor + 1)
    BY <2>1, <2>t, SMTT(40) DEF TypeOK, Buffering
  <2> DEFINE q == buf[cursor + 1]
  <2>4. q \in Packets /\ q \in Nat /\ p \in Nat
    <3>1. q \in Packets
      BY <2>3
    <3> QED BY <3>1 DEF Packets
  <2>5. q = p \/ q \in 1..(p - 1)
    BY <2>2, <2>3, <2>4 DEF Packets
  <2>6. Stamp \in [Packets -> Nat] /\ Timeout \in Nat
    BY ReplayAssumption
  <2>7. Stamp[p] \in Nat /\ Stamp[q] \in Nat
    BY <2>4, <2>6
  <2>8. Stamp[q] <= Stamp[p]
    BY <2>5, <2>7
  <2>9. first # Unset
    BY <2>2 DEF early, After
  <2>10. first \in Nat /\ elapsed \in Int /\ Timeout \div 2 \in Int
    BY <2>6, <2>9, <2>t, ReplayAssumption DEF TypeOK
  <2>11. Stamp[q] > first + (elapsed - Timeout \div 2)
    BY <2>1, <2>9, <2>t DEF Timing, After
  <2>12. first' = first /\ elapsed' = elapsed
    BY <2>1
  <2> HIDE DEF q
  <2> QED BY <2>7, <2>8, <2>10, <2>11, <2>12
<1>2. RInv /\ [Next]_vars => [A]_vars
  BY <1>1
<1> QED BY <1>2, RInvInvariant, PTL DEF Spec, NotStale

\* Addition of Durations below the limit, and one step beyond it.
LEMMA PlusFacts ==
  ASSUME NEW a \in Nat, NEW b \in Nat \ {0}, a <= MaxDuration, b < MaxDuration
  PROVE  /\ a + b < MaxDuration => plus(a, b) = a + b
         /\ a = MaxDuration => plus(a, b) < 0
         /\ plus(a, b) \in Int
<1> DEFINE h == HalfRange
<1>1. h \in Nat \ {0} /\ MaxDuration = h - 1
  BY ReplayAssumption DEF MaxDuration
<1> HIDE DEF h
<1>2. plus(a, b) = ((a + b + h) % (2 * h)) - h
  BY DEF plus, h
<1>3. 2 * h \in Nat \ {0}
  BY <1>1
<1>4. ASSUME NEW m \in Nat \ {0}, NEW x \in Int
      PROVE  /\ 0 <= x /\ x < m => x % m = x
             /\ m <= x /\ x < 2 * m => x % m = x - m
             /\ x % m \in Int
  OBVIOUS
<1>5. ASSUME a + b < MaxDuration PROVE (a + b + h) % (2 * h) = a + b + h
  <2>1. 0 <= a + b + h /\ a + b + h < 2 * h /\ a + b + h \in Int
    BY <1>1, <1>5
  <2> QED BY <1>3, <1>4, <2>1
<1>6. ASSUME a = MaxDuration PROVE (a + b + h) % (2 * h) = (a + b + h) - 2 * h
  <2>1. 2 * h <= a + b + h /\ a + b + h < 2 * (2 * h) /\ a + b + h \in Int
    BY <1>1, <1>6
  <2> QED BY <1>3, <1>4, <2>1
<1>7. (a + b + h) % (2 * h) \in Int
  BY <1>1, <1>3, <1>4
<1>8. a = MaxDuration => ((a + b + h) - 2 * h) - h < 0
  BY <1>1
<1>9. (a + b + h) - h = a + b
  BY <1>1
<1> HIDE DEF MaxDuration
<1>10. a + b < MaxDuration => plus(a, b) = a + b
  BY <1>2, <1>5, <1>9
<1>11. a = MaxDuration => plus(a, b) < 0
  BY <1>2, <1>6, <1>8
<1>12. plus(a, b) \in Int
  BY <1>1, <1>2, <1>7
<1> QED BY <1>10, <1>11, <1>12

\* A packet is let go by DiscardPacket only once the replay knows its first packet,
\* and not before its time less replayerTimeout: while the replay has not started,
\* elapsed+replayerTimeout overflows and nothing is due that is not older than first.
LEMMA DiscardDue ==
  ASSUME RInv, pc = "discard", ~notDue
  PROVE  /\ first # Unset
         /\ Stamp[buf[cursor + 1]] - first <= (IF start = Unset THEN 0 ELSE clock - start) + Timeout
<1>t. TypeOK /\ Buffering /\ Timing
  BY DEF RInv
<1> DEFINE s == Since(start, clock)
           offset == IF first = Unset THEN MaxDuration ELSE Stamp[buf[cursor + 1]] - first
<1>1. /\ HalfRange \in Nat \ {0} /\ Timeout \in Nat \ {0} /\ MaxClock \in Nat
      /\ MaxClock + Timeout < MaxDuration
      /\ MaxDuration \in Nat
  BY ReplayAssumption DEF MaxDuration
<1>2. /\ start = Unset => s = MaxDuration
      /\ start # Unset => s = clock - start /\ s \in 0..MaxClock
  BY <1>1, <1>t DEF TypeOK, Timing, Since
<1>3. ~(offset > plus(s, Timeout))
  BY DEF notDue
<1> HIDE DEF s
<1>4. s \in Nat /\ s <= MaxDuration /\ Timeout < MaxDuration
  BY <1>1, <1>2
<1>5. /\ s + Timeout < MaxDuration => plus(s, Timeout) = s + Timeout
      /\ s = MaxDuration => plus(s, Timeout) < 0
      /\ plus(s, Timeout) \in Int
  BY <1>1, <1>4, PlusFacts
<1>6. plus(s, Timeout) < MaxDuration
  BY <1>1, <1>2, <1>5
<1>7. first # Unset
  BY <1>1, <1>3, <1>5, <1>6
<1>8. Stamp[buf[cursor + 1]] \in Nat /\ first \in Nat
  <2>1. cursor + 1 \in 1..Len(buf) /\ buf \in Seq(Packets)
    BY <1>t DEF TypeOK, Buffering
  <2>2. buf[cursor + 1] \in Packets
    BY <2>1
  <2> QED BY <1>7, <1>t, <2>2, ReplayAssumption DEF TypeOK
<1>9. Stamp[buf[cursor + 1]] - first <= plus(s, Timeout)
  BY <1>3, <1>5, <1>7, <1>8
<1>10. CASE start = Unset
  BY <1>1, <1>2, <1>5, <1>7, <1>8, <1>9, <1>10
<1>11. CASE start # Unset
  <2>1. plus(s, Timeout) = (clock - start) + Timeout
    BY <1>1, <1>2, <1>5, <1>11
  <2> QED BY <1>7, <1>9, <1>11, <2>1
<1> QED BY <1>10, <1>11

\* No packet is let go, returned or discarded, more than replayerTimeout before its
\* time on the clock at that moment.
THEOREM NoPacketEarly == Spec => NeverEarly
<1> DEFINE A == \A p \in Packets :
                  fate[p] # fate'[p] /\ fate'[p] \in {"returned", "discarded"} =>
                    first' # Unset /\ Stamp[p] - first' <= Age(clock) + Timeout
<1>1. RInv /\ [Next]_vars => A
  <2> SUFFICES ASSUME RInv, [Next]_vars, NEW p \in Packets, fate[p] # fate'[p],
                      fate'[p] \in {"returned", "discarded"}
               PROVE  first' # Unset /\ Stamp[p] - first' <= Age(clock) + Timeout
    OBVIOUS
  <2>t. TypeOK /\ Timing
    BY DEF RInv
  <2>1. CASE /\ fate'[p] = "returned" /\ pc = "deliver"
             /\ UNCHANGED <<start, first, elapsed>>
             /\ \E i \in 1..Len(buf) : i > cursor /\ buf[i] = p /\ ~early(i - 1)
    <3>1. PICK i \in 1..Len(buf) : i > cursor /\ buf[i] = p /\ ~early(i - 1)
      BY <2>1
    <3>2. (i - 1) + 1 = i
      BY <2>t DEF TypeOK
    <3>3. first # Unset /\ ~(Stamp[p] > first + (elapsed + Timeout))
      BY <3>1, <3>2 DEF early, After
    <3>4. start # Unset /\ elapsed <= clock - start
      BY <2>1, <2>t DEF Timing
    <3>5. first \in Nat /\ elapsed \in Int /\ clock \in Int /\ start \in Int
      BY <2>t, <3>3, <3>4, ReplayAssumption DEF TypeOK
    <3>6. Stamp[p] \in Nat /\ Timeout \in Nat
      BY ReplayAssumption
    <3>7. Stamp[p] - first <= (clock - start) + Timeout
      BY <3>3, <3>4, <3>5, <3>6
    <3> QED BY <2>1, <3>3, <3>4, <3>7 DEF Age
  <2>2. CASE /\ fate'[p] = "discarded" /\ Discard
             /\ p = buf[cursor + 1]
             /\ UNCHANGED <<start, first, elapsed>>
    <3>1. /\ first # Unset
          /\ Stamp[buf[cursor + 1]] - first <= (IF start = Unset THEN 0 ELSE clock - start) + Timeout
      BY <2>2, DiscardDue DEF Discard
    <3> QED BY <2>2, <3>1 DEF Age
  <2> QED BY <2>1, <2>2, LetGo
<1>2. RInv /\ [Next]_vars => [A]_vars
  BY <1>1
<1> QED BY <1>2, RInvInvariant, PTL DEF Spec, NeverEarly
=============================================================================

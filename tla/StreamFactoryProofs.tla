------------------------- MODULE StreamFactoryProofs -------------------------
(***************************************************************************)
(* Proofs about the stream factory and the pool of readers, for any sets   *)
(* of connections, consumers and readers.                                  *)
(*                                                                         *)
(* OneOwner and PooledClean rest on where a reader can come from: the      *)
(* pool, or nowhere (it is not made yet), and in both places it is clean   *)
(* and nobody's.  NoCrossTalk needs in addition that the assembler's       *)
(* table, halfOpen and the consumers agree on the connection.  Paired and  *)
(* Returned follow from how far an ordinary connection has come, and from  *)
(* who of it can have a reader (Pairing).                                  *)
(***************************************************************************)
EXTENDS StreamFactory, TLAPS

\* One owner per reader, without the types.
Owned ==
  \A r \in Readers :
    /\ pool[r] <= 1
    /\ \A c1, c2 \in Consumers, s1, s2 \in Sides :
         reader[c1][s1] = r /\ reader[c2][s2] = r
           => pool[r] = 0 /\ c1 = c2 /\ s1 = s2

\* A reader that a consumer has is not handed out as a new one.
HeldMade ==
  \A c \in Consumers, s \in Sides : reader[c][s] # eofSource => reader[c][s] \in made

Pooling == TypeOK /\ Owned /\ HeldMade

\* What New can get is clean, pooled or not made yet.
Clean ==
  \A r \in Readers : pool[r] > 0 \/ r \notin made => holds[r] = {} /\ ~closed[r]

\* Streams, halfOpen and consumers agree on the connection, and a consumer
\* without one has no reader.
Bound ==
  /\ \A k \in Conns, s \in Sides : stream[k][s] # None => conn[stream[k][s]] = k
  /\ \A k \in Conns : halfOpen[k] # None => conn[halfOpen[k]] = k
  /\ \A c \in Consumers, s \in Sides : conn[c] = None => reader[c][s] = eofSource

IInv == Pooling /\ Clean /\ Bound /\ NoCrossTalk

-----------------------------------------------------------------------------
(* The steps that several actions share.                                   *)

\* Putting back readers in use, and putting eofSource in their place, keeps
\* the pool sound: Close and ReassemblyComplete.
LEMMA PutBack ==
  ASSUME Pooling, NEW c \in Consumers, NEW T \in SUBSET Sides,
         NEW R, R = {reader[c][s] : s \in T} \ {eofSource},
         reader' = [reader EXCEPT ![c] = [s \in Sides |-> IF s \in T THEN eofSource
                                                          ELSE reader[c][s]]],
         pool' = Put(R), UNCHANGED made
  PROVE  /\ reader' \in [Consumers -> [Sides -> Readers \cup {eofSource}]]
         /\ pool' \in [Readers -> Nat]
         /\ Owned' /\ HeldMade'
<1> USE DEF Pooling
<1>1. reader' \in [Consumers -> [Sides -> Readers \cup {eofSource}]]
  BY DEF TypeOK
<1>2. pool' \in [Readers -> Nat]
  BY DEF TypeOK, Put
<1>3. ASSUME NEW c1 \in Consumers, NEW s1 \in Sides, reader'[c1][s1] # eofSource
      PROVE  /\ reader'[c1][s1] = reader[c1][s1]
             /\ c1 = c => s1 \notin T
  BY <1>3 DEF TypeOK
<1>4. ASSUME NEW r \in R
      PROVE  /\ r \in Readers /\ pool[r] = 0 /\ pool'[r] = 1
             /\ \A c1 \in Consumers, s1 \in Sides : reader'[c1][s1] # r
  <2>1. PICK s \in T : reader[c][s] = r /\ r # eofSource
    BY <1>4
  <2>2. r \in Readers /\ s \in Sides
    BY <2>1 DEF TypeOK
  <2>3. pool[r] = 0
    BY <2>1, <2>2 DEF Owned
  <2>4. pool'[r] = 1
    BY <1>4, <2>2, <2>3 DEF Put
  <2>5. ASSUME NEW c1 \in Consumers, NEW s1 \in Sides, reader'[c1][s1] = r
        PROVE  FALSE
    <3>1. reader[c1][s1] = r /\ (c1 = c => s1 \notin T)
      BY <1>3, <2>5, <2>1
    <3>2. c1 = c /\ s1 = s
      BY <3>1, <2>1, <2>2 DEF Owned
    <3> QED
      BY <3>1, <3>2
  <2> QED
    BY <2>2, <2>3, <2>4, <2>5
<1>5. Owned'
  <2> SUFFICES ASSUME NEW r \in Readers
               PROVE  /\ pool'[r] <= 1
                      /\ \A c1, c2 \in Consumers, s1, s2 \in Sides :
                           reader'[c1][s1] = r /\ reader'[c2][s2] = r
                             => pool'[r] = 0 /\ c1 = c2 /\ s1 = s2
    BY DEF Owned
  <2>1. CASE r \in R
    BY <2>1, <1>4
  <2>2. CASE r \notin R
    <3>1. pool'[r] = pool[r]
      BY <2>2 DEF Put
    <3>2. r # eofSource
      BY FactoryAssumption
    <3> QED
      BY <3>1, <3>2, <1>3 DEF Owned
  <2> QED
    BY <2>1, <2>2
<1>6. HeldMade'
  BY <1>3 DEF HeldMade
<1> QED
  BY <1>1, <1>2, <1>5, <1>6

-----------------------------------------------------------------------------
(* Pooling: types, owners and made readers.                                *)

\* What New can get is nobody's.
LEMMA GettableFree ==
  ASSUME Pooling, NEW r \in Gettable
  PROVE  r \in Readers /\ \A c \in Consumers, s \in Sides : reader[c][s] # r
<1>1. r \in Readers /\ (pool[r] > 0 \/ r \notin made)
  BY DEF Gettable
<1>2. ASSUME NEW c \in Consumers, NEW s \in Sides, reader[c][s] = r
      PROVE  FALSE
  <2>1. pool[r] = 0
    BY <1>1, <1>2 DEF Pooling, Owned
  <2>2. r \in made
    BY <1>1, <1>2, FactoryAssumption DEF Pooling, HeldMade
  <2> QED
    BY <1>1, <2>1, <2>2
<1> QED
  BY <1>1, <1>2

\* createConsumer takes two readers that are nobody's.
LEMMA CreatePooling ==
  ASSUME Pooling, NEW c \in Consumers, NEW k \in Conns, CreateConsumer(c, k)
  PROVE  /\ conn' \in [Consumers -> Conns \cup {None}]
         /\ reader' \in [Consumers -> [Sides -> Readers \cup {eofSource}]]
         /\ made' \subseteq Readers /\ pool' \in [Readers -> Nat]
         /\ Owned' /\ HeldMade'
<1>1. PICK cr, sr \in Gettable :
        /\ cr # sr
        /\ conn' = [conn EXCEPT ![c] = k]
        /\ reader' = [reader EXCEPT ![c] = [s \in Sides |-> IF s = "client" THEN cr ELSE sr]]
        /\ made' = made \cup {cr, sr}
        /\ pool' = [r \in Readers |-> IF r \in {cr, sr} /\ pool[r] > 0 THEN pool[r] - 1
                                      ELSE pool[r]]
  BY DEF CreateConsumer
<1>2. /\ cr \in Readers /\ \A c1 \in Consumers, s1 \in Sides : reader[c1][s1] # cr
      /\ sr \in Readers /\ \A c1 \in Consumers, s1 \in Sides : reader[c1][s1] # sr
  BY GettableFree
<1>3. TypeOK
  BY DEF Pooling
<1>4. /\ conn' \in [Consumers -> Conns \cup {None}]
      /\ reader' \in [Consumers -> [Sides -> Readers \cup {eofSource}]]
      /\ made' \subseteq Readers
  BY <1>1, <1>2, <1>3 DEF TypeOK
<1>5. pool' \in [Readers -> Nat]
  BY <1>1, <1>3 DEF TypeOK
<1>6. \A c1 \in Consumers, s1 \in Sides :
        reader'[c1][s1] = IF c1 = c THEN IF s1 = "client" THEN cr ELSE sr
                          ELSE reader[c1][s1]
  BY <1>1, <1>3 DEF TypeOK
<1>7. Owned'
  <2> SUFFICES ASSUME NEW r \in Readers
               PROVE  /\ pool'[r] <= 1
                      /\ \A c1, c2 \in Consumers, s1, s2 \in Sides :
                           reader'[c1][s1] = r /\ reader'[c2][s2] = r
                             => pool'[r] = 0 /\ c1 = c2 /\ s1 = s2
    BY DEF Owned
  <2>1. pool[r] \in Nat /\ pool[r] <= 1
    BY <1>3 DEF TypeOK, Pooling, Owned
  <2>2. CASE r \in {cr, sr}
    <3>1. pool'[r] = 0
      BY <1>1, <2>1, <2>2
    <3> QED
      BY <1>1, <1>2, <1>6, <2>2, <3>1 DEF Sides
  <2>3. CASE r \notin {cr, sr}
    <3>1. pool'[r] = pool[r]
      BY <1>1, <2>3
    <3>2. \A c1 \in Consumers, s1 \in Sides :
            reader'[c1][s1] = r => reader[c1][s1] = r
      BY <1>6, <2>3
    <3> QED
      BY <2>1, <3>1, <3>2 DEF Pooling, Owned
  <2> QED
    BY <2>2, <2>3
<1>8. HeldMade'
  BY <1>1, <1>6 DEF Pooling, HeldMade
<1> QED
  BY <1>4, <1>5, <1>7, <1>8

\* The types of a set of reset readers.
LEMMA ResetTypes ==
  ASSUME TypeOK, NEW R
  PROVE  /\ ResetData(R) \in [Readers -> SUBSET AnyData]
         /\ ResetClosed(R) \in [Readers -> BOOLEAN]
<1>1. ResetData(R) \in [Readers -> SUBSET AnyData]
  BY DEF TypeOK, ResetData
<1>2. ResetClosed(R) \in [Readers -> BOOLEAN]
  BY Zenon DEF TypeOK, ResetClosed
<1> QED
  BY <1>1, <1>2

\* Close puts both readers back.
LEMMA ClosePooling ==
  ASSUME Pooling, NEW c \in Consumers, Close(c), UNCHANGED made
  PROVE  /\ reader' \in [Consumers -> [Sides -> Readers \cup {eofSource}]]
         /\ pool' \in [Readers -> Nat]
         /\ holds' \in [Readers -> SUBSET AnyData]
         /\ closed' \in [Readers -> BOOLEAN]
         /\ Owned' /\ HeldMade'
<1>1. TypeOK
  BY DEF Pooling
<1>2. HeldBy(c) = {reader[c][s] : s \in Sides} \ {eofSource}
  BY DEF HeldBy
<1>3. reader' = [reader EXCEPT ![c] = [s \in Sides |-> IF s \in Sides THEN eofSource
                                                       ELSE reader[c][s]]]
  BY DEF Close
<1>4. pool' = Put(HeldBy(c))
  BY DEF Close
<1>5. /\ holds' \in [Readers -> SUBSET AnyData]
      /\ closed' \in [Readers -> BOOLEAN]
  BY <1>1, ResetTypes DEF Close
<1> QED
  BY <1>2, <1>3, <1>4, <1>5, PutBack

\* Run leaves a consumer its readers, or takes them away.
LEMMA RunReaders ==
  ASSUME TypeOK, NEW c, NEW h, Run(c, h)
  PROVE  \A c1 \in Consumers, s1 \in Sides : reader'[c1][s1] \in {reader[c1][s1], eofSource}
<1>1. CASE reader' = reader
  BY <1>1
<1>2. CASE reader' = [reader EXCEPT ![c] = [s \in Sides |-> eofSource]]
  <2>1. reader \in [Consumers -> [Sides -> Readers \cup {eofSource}]]
    BY DEF TypeOK
  <2> QED BY <1>2, <2>1
<1> QED BY <1>1, <1>2 DEF Run, Close

\* At the start no reader has been made.
LEMMA PoolingInit == Init => Pooling
<1> SUFFICES ASSUME Init PROVE Pooling
  OBVIOUS
<1>1. TypeOK
  BY DEF Init, TypeOK
<1>2. Owned
  <2>1. \A c \in Consumers, s \in Sides : reader[c][s] = eofSource
    BY DEF Init
  <2> QED
    BY <2>1, FactoryAssumption DEF Init, Owned
<1>3. HeldMade
  BY DEF Init, HeldMade
<1> QED
  BY <1>1, <1>2, <1>3 DEF Pooling

\* New pairs the stream or makes a consumer for it.
LEMMA NewPooling ==
  ASSUME Pooling, NEW k \in Conns, NEW s \in Sides, New(k, s)
  PROVE  Pooling'
<1>1. PICK c \in Consumers : Pair(k, c) /\ stream' = [stream EXCEPT ![k][s] = c]
  BY DEF New
<1>2. TypeOK
  BY DEF Pooling
<1>3. /\ opened' \in [Conns -> SUBSET Sides] /\ irregular' \subseteq Conns
      /\ UNCHANGED <<holds, closed>>
  BY <1>2 DEF New, TypeOK
<1>4. stream' \in [Conns -> [Sides -> Consumers \cup {None}]]
  BY <1>1, <1>2 DEF TypeOK
<1>5. halfOpen' \in [Conns -> Consumers \cup {None}]
  BY <1>1, <1>2 DEF Pair, TypeOK
<1>6. /\ conn' \in [Consumers -> Conns \cup {None}]
      /\ reader' \in [Consumers -> [Sides -> Readers \cup {eofSource}]]
      /\ made' \subseteq Readers /\ pool' \in [Readers -> Nat]
      /\ Owned' /\ HeldMade'
  <2>1. CASE UNCHANGED <<conn, reader, made, pool>>
    BY <2>1, <1>2 DEF Pooling, TypeOK, Owned, HeldMade
  <2>2. CASE CreateConsumer(c, k)
    BY <2>2, CreatePooling
  <2> QED
    BY <1>1, <2>1, <2>2 DEF Pair
<1>7. TypeOK'
  BY <1>2, <1>3, <1>4, <1>5, <1>6 DEF TypeOK
<1> QED
  BY <1>6, <1>7 DEF Pooling

\* Run changes what the readers hold, or closes the consumer.
LEMMA ReassembledPooling ==
  ASSUME Pooling, NEW k \in Conns, NEW s \in Sides, Reassembled(k, s)
  PROVE  Pooling'
<1> DEFINE c == stream[k][s]
           h == IF reader[c][s] = eofSource \/ closed[reader[c][s]] THEN holds
                ELSE [holds EXCEPT ![reader[c][s]] = @ \cup {Live(k, s)}]
<1>1. /\ c # None /\ Run(c, h)
      /\ UNCHANGED <<stream, halfOpen, conn, made, opened, irregular>>
  BY DEF Reassembled
<1>2. TypeOK
  BY DEF Pooling
<1>3. c \in Consumers
  BY <1>1, <1>2 DEF TypeOK
<1>4. h \in [Readers -> SUBSET AnyData]
  <2>1. Live(k, s) \in AnyData
    BY DEF Live, AnyData
  <2>2. holds \in [Readers -> SUBSET AnyData]
    BY <1>2 DEF TypeOK
  <2> QED
    BY <2>1, <2>2
<1> HIDE DEF c, h
<1>5. CASE UNCHANGED <<pool, reader>>
  <2>1. holds' \in [Readers -> SUBSET AnyData] /\ closed' \in [Readers -> BOOLEAN]
    <3>1. CASE \E R \in SUBSET HeldBy(c) :
                 /\ holds' = [r \in Readers |-> IF r \in R THEN {} ELSE h[r]]
                 /\ UNCHANGED <<closed, pool, reader>>
      BY <3>1, <1>2, <1>4 DEF TypeOK
    <3>2. CASE /\ holds' = [r \in Readers |-> IF r \in HeldBy(c) THEN {} ELSE h[r]]
               /\ \E quit \in BOOLEAN :
                    closed' = [r \in Readers |-> IF r \in HeldBy(c) THEN quit ELSE closed[r]]
      <4>1. holds' \in [Readers -> SUBSET AnyData]
        BY <3>2, <1>4
      <4>2. PICK quit \in BOOLEAN :
              closed' = [r \in Readers |-> IF r \in HeldBy(c) THEN quit ELSE closed[r]]
        BY <3>2
      <4>3. closed \in [Readers -> BOOLEAN]
        BY <1>2 DEF TypeOK
      <4>4. closed' \in [Readers -> BOOLEAN]
        BY <4>2, <4>3, Zenon
      <4> QED
        BY <4>1, <4>4
    <3>3. CASE Close(c)
      BY <3>3, <1>2, ResetTypes DEF Close
    <3> QED
      BY <1>1, <3>1, <3>2, <3>3 DEF Run
  <2>2. TypeOK'
    BY <1>1, <1>2, <1>5, <2>1 DEF TypeOK
  <2>3. Owned' /\ HeldMade'
    BY <1>1, <1>5 DEF Pooling, Owned, HeldMade
  <2> QED
    BY <2>2, <2>3 DEF Pooling
<1>6. CASE Close(c)
  <2>1. /\ reader' \in [Consumers -> [Sides -> Readers \cup {eofSource}]]
        /\ pool' \in [Readers -> Nat]
        /\ holds' \in [Readers -> SUBSET AnyData]
        /\ closed' \in [Readers -> BOOLEAN]
        /\ Owned' /\ HeldMade'
    BY <1>1, <1>3, <1>6, ClosePooling
  <2>2. TypeOK'
    BY <1>1, <1>2, <2>1 DEF TypeOK
  <2> QED
    BY <2>1, <2>2 DEF Pooling
<1> QED
  BY <1>1, <1>5, <1>6 DEF Run

\* Data of a stream that ends is marked as such; it stays data.
LEMMA AgedType ==
  ASSUME NEW d \in AnyData, NEW k \in Conns, NEW s \in Sides
  PROVE  Aged(d, k, s) \in AnyData
BY DEF Aged, AnyData

\* The reader of the stream that ends goes back to the pool.
LEMMA CompletePooling ==
  ASSUME Pooling, NEW k \in Conns, NEW s \in Sides, ReassemblyComplete(k, s)
  PROVE  Pooling'
<1> DEFINE c == stream[k][s]
           R == {reader[c][s]} \ {eofSource}
<1>1. /\ c # None
      /\ stream' = [stream EXCEPT ![k][s] = None]
      /\ holds' = [r \in Readers |-> {Aged(d, k, s) : d \in ResetData(R)[r]}]
      /\ closed' = ResetClosed(R)
      /\ pool' = Put(R)
      /\ reader' = [reader EXCEPT ![c][s] = eofSource]
      /\ UNCHANGED <<halfOpen, conn, made, opened, irregular>>
  BY DEF ReassemblyComplete
<1>2. TypeOK
  BY DEF Pooling
<1>3. c \in Consumers
  BY <1>1, <1>2 DEF TypeOK
<1>4. /\ ResetData(R) \in [Readers -> SUBSET AnyData]
      /\ closed' \in [Readers -> BOOLEAN]
  BY <1>1, <1>2, ResetTypes
<1>5. holds' \in [Readers -> SUBSET AnyData]
  <2>1. ASSUME NEW r \in Readers
        PROVE  {Aged(d, k, s) : d \in ResetData(R)[r]} \in SUBSET AnyData
    <3>1. \A d \in ResetData(R)[r] : Aged(d, k, s) \in AnyData
      BY <1>4, AgedType
    <3> QED
      BY <3>1
  <2> QED
    BY <1>1, <2>1
<1>6. /\ reader' \in [Consumers -> [Sides -> Readers \cup {eofSource}]]
      /\ pool' \in [Readers -> Nat]
      /\ Owned' /\ HeldMade'
  <2>1. R = {reader[c][t] : t \in {s}} \ {eofSource}
    OBVIOUS
  <2>2. reader' = [reader EXCEPT ![c] = [t \in Sides |-> IF t \in {s} THEN eofSource
                                                         ELSE reader[c][t]]]
    BY <1>1, <1>2, <1>3 DEF TypeOK
  <2>3. {s} \in SUBSET Sides
    OBVIOUS
  <2> HIDE DEF c, R
  <2> QED
    BY <1>1, <1>3, <2>1, <2>2, <2>3, PutBack
<1>7. stream' \in [Conns -> [Sides -> Consumers \cup {None}]]
  BY <1>1, <1>2 DEF TypeOK
<1> HIDE DEF c, R
<1>8. TypeOK'
  BY <1>1, <1>2, <1>4, <1>5, <1>6, <1>7 DEF TypeOK
<1> QED
  BY <1>6, <1>8 DEF Pooling

\* The garbage collector frees what nobody uses.
LEMMA CollectPooling ==
  ASSUME Pooling,
         \/ \E c \in Consumers : CollectConsumer(c)
         \/ \E r \in Readers : CollectReader(r)
  PROVE  Pooling'
<1>1. TypeOK
  BY DEF Pooling
<1>2. CASE \E c \in Consumers : CollectConsumer(c)
  <2>1. PICK c \in Consumers : CollectConsumer(c)
    BY <1>2
  <2>2. \A c1 \in Consumers, s \in Sides :
          reader'[c1][s] = IF c1 = c THEN eofSource ELSE reader[c1][s]
    BY <2>1, <1>1 DEF CollectConsumer, TypeOK
  <2>3. Owned'
    BY <2>1, <2>2, FactoryAssumption DEF CollectConsumer, Pooling, Owned
  <2>4. HeldMade'
    <3> SUFFICES ASSUME NEW c1 \in Consumers, NEW s1 \in Sides, reader'[c1][s1] # eofSource
                 PROVE  reader'[c1][s1] \in made'
      BY DEF HeldMade
    <3>1. c1 # c /\ reader'[c1][s1] = reader[c1][s1]
      BY <2>2
    <3>2. reader[c1][s1] \in Readers
      BY <3>1, <1>1 DEF TypeOK
    <3>3. reader[c1][s1] \notin HeldBy(c)
      BY <3>1, <3>2 DEF HeldBy, Pooling, Owned
    <3> QED
      BY <2>1, <3>1, <3>3 DEF CollectConsumer, Pooling, HeldMade
  <2>5. /\ holds' \in [Readers -> SUBSET AnyData]
        /\ closed' \in [Readers -> BOOLEAN]
    BY <2>1, <1>1, ResetTypes DEF CollectConsumer
  <2>6. TypeOK'
    BY <2>1, <2>5, <1>1 DEF CollectConsumer, TypeOK
  <2> QED
    BY <2>3, <2>4, <2>6 DEF Pooling
<1>3. CASE \E r \in Readers : CollectReader(r)
  <2>1. PICK r \in Readers : CollectReader(r)
    BY <1>3
  <2>2. TypeOK'
    BY <2>1, <1>1 DEF CollectReader, TypeOK
  <2>3. Owned'
    BY <2>1, <1>1 DEF CollectReader, TypeOK, Pooling, Owned
  <2>4. \A c \in Consumers, s \in Sides : reader[c][s] # r
    BY <2>1 DEF CollectReader, Pooling, Owned
  <2>5. HeldMade'
    BY <2>1, <2>4 DEF CollectReader, Pooling, HeldMade
  <2> QED
    BY <2>2, <2>3, <2>5 DEF Pooling
<1> QED
  BY <1>2, <1>3

\* Every step keeps the ownership of readers.
LEMMA PoolingStep == Pooling /\ [Next]_vars => Pooling'
<1> SUFFICES ASSUME Pooling, [Next]_vars PROVE Pooling'
  OBVIOUS
<1>1. CASE UNCHANGED vars
  BY <1>1 DEF vars, Pooling, TypeOK, Owned, HeldMade
<1>2. CASE Next
  BY <1>2, NewPooling, ReassembledPooling, CompletePooling, CollectPooling DEF Next
<1> QED
  BY <1>1, <1>2

\* A reader is in the pool once or with one consumer in one direction,
\* whatever the order of Close, quit and ReassemblyComplete, for any number of
\* connections, consumers and readers.
THEOREM ReadersOwned == Spec => []OneOwner
<1>1. Pooling => OneOwner
  BY DEF Pooling, Owned, OneOwner
<1> QED
  BY <1>1, PoolingInit, PoolingStep, PTL DEF Spec

-----------------------------------------------------------------------------
(* Clean: what New can get holds nothing and is open.                      *)

\* A reader that changes hands or data does so as one of a consumer's, or is
\* reset.
LEMMA CleanStep == Pooling /\ Clean /\ [Next]_vars => Clean'
<1> SUFFICES ASSUME Pooling, Clean, [Next]_vars, NEW r \in Readers,
                    pool'[r] > 0 \/ r \notin made'
             PROVE  holds'[r] = {} /\ ~closed'[r]
  BY DEF Clean
<1>t. TypeOK
  BY DEF Pooling
<1>c. pool[r] > 0 \/ r \notin made => holds[r] = {} /\ ~closed[r]
  BY DEF Clean
<1>1. CASE UNCHANGED vars
  BY <1>1, <1>c DEF vars
<1>2. ASSUME NEW k \in Conns, NEW s \in Sides, New(k, s)
      PROVE  holds'[r] = {} /\ ~closed'[r]
  <2>1. UNCHANGED <<holds, closed>>
    BY <1>2 DEF New
  <2>2. pool[r] > 0 \/ r \notin made
    <3>1. PICK c \in Consumers : Pair(k, c)
      BY <1>2 DEF New
    <3>2. CASE UNCHANGED <<conn, reader, made, pool>>
      BY <3>2
    <3>3. CASE CreateConsumer(c, k)
      BY <3>3, <1>t DEF CreateConsumer, TypeOK
    <3> QED
      BY <3>1, <3>2, <3>3 DEF Pair
  <2> QED
    BY <2>1, <2>2, <1>c
<1>3. ASSUME NEW k \in Conns, NEW s \in Sides, Reassembled(k, s)
      PROVE  holds'[r] = {} /\ ~closed'[r]
  <2> DEFINE c == stream[k][s]
             h == IF reader[c][s] = eofSource \/ closed[reader[c][s]] THEN holds
                  ELSE [holds EXCEPT ![reader[c][s]] = @ \cup {Live(k, s)}]
  <2>1. c # None /\ Run(c, h) /\ UNCHANGED made
    BY <1>3 DEF Reassembled
  <2>2. c \in Consumers
    BY <2>1, <1>t DEF TypeOK
  <2>3. r \in HeldBy(c) => r \in made /\ pool[r] = 0
    BY <2>2 DEF HeldBy, Pooling, Owned, HeldMade
  <2>4. r \notin HeldBy(c) => h[r] = holds[r]
    BY <2>2, <1>t DEF HeldBy, TypeOK
  <2> HIDE DEF c, h
  <2>5. CASE \E R \in SUBSET HeldBy(c) :
               /\ holds' = [q \in Readers |-> IF q \in R THEN {} ELSE h[q]]
               /\ UNCHANGED <<closed, pool, reader>>
    BY <2>1, <2>3, <2>4, <2>5, <1>c
  <2>6. CASE /\ holds' = [q \in Readers |-> IF q \in HeldBy(c) THEN {} ELSE h[q]]
             /\ \E quit \in BOOLEAN :
                  closed' = [q \in Readers |-> IF q \in HeldBy(c) THEN quit ELSE closed[q]]
             /\ UNCHANGED <<pool, reader>>
    BY <2>1, <2>3, <2>4, <2>6, <1>c
  <2>7. CASE Close(c)
    <3>1. r \in HeldBy(c) => holds'[r] = {} /\ ~closed'[r]
      BY <2>7 DEF Close, ResetData, ResetClosed
    <3>2. r \notin HeldBy(c) => holds'[r] = holds[r] /\ closed'[r] = closed[r] /\ pool'[r] = pool[r]
      BY <2>7 DEF Close, ResetData, ResetClosed, Put
    <3> QED
      BY <2>1, <3>1, <3>2, <1>c
  <2> QED
    BY <2>1, <2>5, <2>6, <2>7 DEF Run
<1>4. ASSUME NEW k \in Conns, NEW s \in Sides, ReassemblyComplete(k, s)
      PROVE  holds'[r] = {} /\ ~closed'[r]
  <2> DEFINE R == {reader[stream[k][s]][s]} \ {eofSource}
  <2>1. /\ holds' = [q \in Readers |-> {Aged(d, k, s) : d \in ResetData(R)[q]}]
        /\ closed' = ResetClosed(R) /\ pool' = Put(R) /\ UNCHANGED made
    BY <1>4 DEF ReassemblyComplete
  <2> HIDE DEF R
  <2>2. CASE r \in R
    BY <2>1, <2>2 DEF ResetData, ResetClosed
  <2>3. CASE r \notin R
    <3>1. pool'[r] = pool[r]
      BY <2>1, <2>3 DEF Put
    <3>2. holds[r] = {} /\ ~closed[r]
      BY <2>1, <3>1, <1>c
    <3> QED
      BY <2>1, <2>3, <3>2 DEF ResetData, ResetClosed
  <2> QED
    BY <2>2, <2>3
<1>5. ASSUME NEW c \in Consumers, CollectConsumer(c)
      PROVE  holds'[r] = {} /\ ~closed'[r]
  <2>1. CASE r \in HeldBy(c)
    BY <1>5, <2>1 DEF CollectConsumer, ResetData, ResetClosed
  <2>2. CASE r \notin HeldBy(c)
    BY <1>5, <2>2, <1>c DEF CollectConsumer, ResetData, ResetClosed
  <2> QED
    BY <2>1, <2>2
<1>6. ASSUME NEW q \in Readers, CollectReader(q)
      PROVE  holds'[r] = {} /\ ~closed'[r]
  BY <1>6, <1>c, <1>t DEF CollectReader, TypeOK
<1> QED
  BY <1>1, <1>2, <1>3, <1>4, <1>5, <1>6 DEF Next

\* A reader comes out of the pool without the data of its last connection and
\* not closed by its quit, whatever happened to it before, for any number of
\* connections, consumers and readers.
THEOREM PooledReadersClean == Spec => []PooledClean
<1>1. Init => Clean
  BY DEF Init, Clean
<1>2. Clean => PooledClean
  BY DEF Clean, PooledClean
<1> QED
  BY <1>1, <1>2, PoolingInit, PoolingStep, CleanStep, PTL DEF Spec

-----------------------------------------------------------------------------
(* Bound and NoCrossTalk.                                                  *)

\* Every step keeps the tables in agreement.
LEMMA BoundStep == Pooling /\ Bound /\ [Next]_vars => Bound'
<1> SUFFICES ASSUME Pooling, Bound, [Next]_vars PROVE Bound'
  OBVIOUS
<1>t. TypeOK
  BY DEF Pooling
<1>1. CASE UNCHANGED vars
  BY <1>1 DEF vars, Bound
<1>2. ASSUME NEW k \in Conns, NEW s \in Sides, New(k, s)
      PROVE  Bound'
  <2>1. PICK c \in Consumers : Pair(k, c) /\ stream' = [stream EXCEPT ![k][s] = c]
    BY <1>2 DEF New
  <2>2. \A k1 \in Conns, s1 \in Sides :
          stream'[k1][s1] = IF k1 = k /\ s1 = s THEN c ELSE stream[k1][s1]
    BY <2>1, <1>t DEF TypeOK
  <2>3. CASE halfOpen[k] # None
    <3>1. /\ c = halfOpen[k] /\ conn' = conn /\ reader' = reader
          /\ halfOpen' = [halfOpen EXCEPT ![k] = None]
      BY <2>1, <2>3 DEF Pair
    <3>2. conn[c] = k
      BY <2>3, <3>1 DEF Bound
    <3>3. \A k1 \in Conns, s1 \in Sides : stream'[k1][s1] # None => conn'[stream'[k1][s1]] = k1
      BY <2>2, <3>1, <3>2 DEF Bound
    <3>4. \A k1 \in Conns : halfOpen'[k1] # None => conn'[halfOpen'[k1]] = k1
      BY <3>1, <1>t DEF Bound, TypeOK
    <3>5. \A c1 \in Consumers, s1 \in Sides : conn'[c1] = None => reader'[c1][s1] = eofSource
      BY <3>1 DEF Bound
    <3> QED
      BY <3>3, <3>4, <3>5 DEF Bound
  <2>4. CASE halfOpen[k] = None
    <3>1. CreateConsumer(c, k) /\ halfOpen' = [halfOpen EXCEPT ![k] = c]
      BY <2>1, <2>4 DEF Pair
    <3>2. conn[c] = None /\ conn' = [conn EXCEPT ![c] = k]
      BY <3>1 DEF CreateConsumer
    <3>3. \A c1 \in Consumers : c1 # c => \A s1 \in Sides : reader'[c1][s1] = reader[c1][s1]
      BY <3>1, <1>t DEF CreateConsumer, TypeOK
    <3>4. \A k1 \in Conns, s1 \in Sides : stream[k1][s1] # c /\ halfOpen[k1] # c
      BY <3>2, FactoryAssumption DEF Bound
    <3>5. \A k1 \in Conns, s1 \in Sides : stream'[k1][s1] # None => conn'[stream'[k1][s1]] = k1
      BY <2>2, <3>2, <3>4, <1>t DEF Bound, TypeOK
    <3>6. \A k1 \in Conns : halfOpen'[k1] # None => conn'[halfOpen'[k1]] = k1
      BY <3>1, <3>2, <3>4, <1>t DEF Bound, TypeOK, Sides
    <3>7. \A c1 \in Consumers, s1 \in Sides : conn'[c1] = None => reader'[c1][s1] = eofSource
      BY <3>2, <3>3, <1>t, FactoryAssumption DEF Bound, TypeOK
    <3> QED
      BY <3>5, <3>6, <3>7 DEF Bound
  <2> QED
    BY <2>3, <2>4
<1>3. ASSUME NEW k \in Conns, NEW s \in Sides, Reassembled(k, s)
      PROVE  Bound'
  <2>1. UNCHANGED <<stream, halfOpen, conn>>
    BY <1>3 DEF Reassembled
  <2>2. \A c1 \in Consumers, s1 \in Sides : reader'[c1][s1] \in {reader[c1][s1], eofSource}
    BY <1>3, <1>t, RunReaders DEF Reassembled
  <2> QED
    BY <2>1, <2>2 DEF Bound
<1>4. ASSUME NEW k \in Conns, NEW s \in Sides, ReassemblyComplete(k, s)
      PROVE  Bound'
  <2>1. UNCHANGED <<halfOpen, conn>>
    BY <1>4 DEF ReassemblyComplete
  <2>2. \A c1 \in Consumers, s1 \in Sides : reader'[c1][s1] \in {reader[c1][s1], eofSource}
    BY <1>4, <1>t DEF ReassemblyComplete, TypeOK
  <2>3. \A k1 \in Conns, s1 \in Sides : stream'[k1][s1] \in {stream[k1][s1], None}
    BY <1>4, <1>t DEF ReassemblyComplete, TypeOK
  <2> QED
    BY <2>1, <2>2, <2>3 DEF Bound
<1>5. ASSUME NEW c \in Consumers, CollectConsumer(c)
      PROVE  Bound'
  <2>1. \A k1 \in Conns, s1 \in Sides : stream[k1][s1] # c /\ halfOpen[k1] # c
    BY <1>5 DEF CollectConsumer, Referenced
  <2>2. UNCHANGED <<stream, halfOpen>> /\ conn' = [conn EXCEPT ![c] = None]
    BY <1>5 DEF CollectConsumer
  <2>3. \A c1 \in Consumers, s1 \in Sides :
          reader'[c1][s1] = IF c1 = c THEN eofSource ELSE reader[c1][s1]
    BY <1>5, <1>t DEF CollectConsumer, TypeOK
  <2> QED
    BY <2>1, <2>2, <2>3, <1>t DEF Bound, TypeOK, Sides
<1>6. ASSUME NEW r \in Readers, CollectReader(r)
      PROVE  Bound'
  BY <1>6 DEF CollectReader, Bound
<1> QED
  BY <1>1, <1>2, <1>3, <1>4, <1>5, <1>6 DEF Next

\* New gives a consumer clean readers, or the stream to a consumer whose
\* reader for that direction is empty.
LEMMA NewTalk ==
  ASSUME IInv, NEW k \in Conns, NEW s \in Sides, New(k, s)
  PROVE  NoCrossTalk'
<1> SUFFICES ASSUME NEW c1 \in Consumers, NEW s1 \in Sides, reader'[c1][s1] # eofSource,
                    NEW d \in holds'[reader'[c1][s1]]
             PROVE  d = Live(conn'[c1], s1) /\ stream'[conn'[c1]][s1] = c1
  BY DEF NoCrossTalk
<1>t. TypeOK
  BY DEF IInv, Pooling
<1>1. PICK c \in Consumers : Pair(k, c) /\ stream' = [stream EXCEPT ![k][s] = c]
  BY DEF New
<1>2. stream[k][s] = None /\ UNCHANGED holds
  BY DEF New
<1>3. ASSUME UNCHANGED conn, reader'[c1][s1] = reader[c1][s1]
      PROVE  d = Live(conn'[c1], s1) /\ stream'[conn'[c1]][s1] = c1
  <2>1. d = Live(conn[c1], s1) /\ stream[conn[c1]][s1] = c1
    BY <1>2, <1>3 DEF IInv, NoCrossTalk
  <2>2. conn[c1] \in Conns
    BY <1>3, <1>t DEF IInv, Bound, TypeOK
  <2>3. ~(conn[c1] = k /\ s1 = s)
    BY <1>2, <2>1, FactoryAssumption
  <2> QED
    BY <1>1, <1>3, <2>1, <2>2, <2>3, <1>t DEF TypeOK
<1>4. CASE UNCHANGED <<conn, reader, made, pool>>
  BY <1>3, <1>4
<1>5. CASE CreateConsumer(c, k)
  <2>1. CASE c1 = c
    <3>1. reader'[c1][s1] \in Gettable
      BY <1>5, <2>1, <1>t DEF CreateConsumer, TypeOK
    <3>2. holds[reader'[c1][s1]] = {}
      BY <3>1 DEF Gettable, IInv, Clean
    <3> QED
      BY <1>2, <3>2
  <2>2. CASE c1 # c
    <3>1. reader'[c1][s1] = reader[c1][s1] /\ conn'[c1] = conn[c1]
      BY <1>5, <2>2, <1>t DEF CreateConsumer, TypeOK
    <3>2. d = Live(conn[c1], s1) /\ stream[conn[c1]][s1] = c1
      BY <1>2, <3>1 DEF IInv, NoCrossTalk
    <3>3. conn[c1] \in Conns
      BY <3>1, <1>t DEF IInv, Bound, TypeOK
    <3>4. ~(conn[c1] = k /\ s1 = s)
      BY <1>2, <3>2, FactoryAssumption
    <3> QED
      BY <1>1, <3>1, <3>2, <3>3, <3>4, <1>t DEF TypeOK
  <2> QED
    BY <2>1, <2>2
<1> QED
  BY <1>1, <1>4, <1>5 DEF Pair

\* Data goes to the reader of the stream it came with, and nowhere else.
LEMMA ReassembledTalk ==
  ASSUME IInv, NEW k \in Conns, NEW s \in Sides, Reassembled(k, s)
  PROVE  NoCrossTalk'
<1> SUFFICES ASSUME NEW c1 \in Consumers, NEW s1 \in Sides, reader'[c1][s1] # eofSource,
                    NEW d \in holds'[reader'[c1][s1]]
             PROVE  d = Live(conn'[c1], s1) /\ stream'[conn'[c1]][s1] = c1
  BY DEF NoCrossTalk
<1> DEFINE c == stream[k][s]
           h == IF reader[c][s] = eofSource \/ closed[reader[c][s]] THEN holds
                ELSE [holds EXCEPT ![reader[c][s]] = @ \cup {Live(k, s)}]
<1>t. TypeOK
  BY DEF IInv, Pooling
<1>1. c # None /\ Run(c, h) /\ UNCHANGED <<stream, conn>>
  BY DEF Reassembled
<1>2. c \in Consumers /\ conn[c] = k
  BY <1>1, <1>t DEF TypeOK, IInv, Bound
<1>3. reader'[c1][s1] = reader[c1][s1] /\ reader[c1][s1] \in Readers
  <2>1. reader'[c1][s1] \in {reader[c1][s1], eofSource}
    BY <1>1, <1>t, RunReaders
  <2>2. reader[c1][s1] \in Readers \cup {eofSource}
    BY <1>t DEF TypeOK
  <2> QED BY <2>1, <2>2
<1>4. d \in holds[reader[c1][s1]] => d = Live(conn[c1], s1) /\ stream[conn[c1]][s1] = c1
  BY <1>3 DEF IInv, NoCrossTalk
<1>5. d \in h[reader[c1][s1]] => d = Live(conn[c1], s1) /\ stream[conn[c1]][s1] = c1
  <2> SUFFICES ASSUME d \in h[reader[c1][s1]], d \notin holds[reader[c1][s1]]
               PROVE  d = Live(conn[c1], s1) /\ stream[conn[c1]][s1] = c1
    BY <1>4
  <2>1. reader[c1][s1] = reader[c][s] /\ d = Live(k, s)
    BY <1>3, <1>t DEF TypeOK
  <2>2. c1 = c /\ s1 = s
    BY <2>1, <1>2, <1>3 DEF IInv, Pooling, Owned
  <2> QED
    BY <2>1, <2>2, <1>2
<1> HIDE DEF c, h
<1>6. d \in h[reader[c1][s1]] \/ d \in holds[reader[c1][s1]]
  BY <1>1, <1>3 DEF Run, Close, ResetData
<1> QED
  BY <1>1, <1>4, <1>5, <1>6

\* When a stream ends its reader is emptied, and no other has data of it.
LEMMA CompleteTalk ==
  ASSUME IInv, NEW k \in Conns, NEW s \in Sides, ReassemblyComplete(k, s)
  PROVE  NoCrossTalk'
<1> SUFFICES ASSUME NEW c1 \in Consumers, NEW s1 \in Sides, reader'[c1][s1] # eofSource,
                    NEW d \in holds'[reader'[c1][s1]]
             PROVE  d = Live(conn'[c1], s1) /\ stream'[conn'[c1]][s1] = c1
  BY DEF NoCrossTalk
<1> DEFINE c == stream[k][s]
           R == {reader[c][s]} \ {eofSource}
<1>t. TypeOK
  BY DEF IInv, Pooling
<1>1. /\ c # None
      /\ stream' = [stream EXCEPT ![k][s] = None]
      /\ holds' = [r \in Readers |-> {Aged(e, k, s) : e \in ResetData(R)[r]}]
      /\ reader' = [reader EXCEPT ![c][s] = eofSource]
      /\ UNCHANGED conn
  BY DEF ReassemblyComplete
<1>2. c \in Consumers
  BY <1>1, <1>t DEF TypeOK
<1>3. ~(c1 = c /\ s1 = s) /\ reader'[c1][s1] = reader[c1][s1] /\ reader[c1][s1] \in Readers
  BY <1>1, <1>2, <1>t DEF TypeOK
<1> HIDE DEF R
<1>4. PICK e \in ResetData(R)[reader[c1][s1]] : d = Aged(e, k, s)
  BY <1>1, <1>3
<1>5. e \in holds[reader[c1][s1]]
  BY <1>3, <1>4 DEF ResetData
<1>6. e = Live(conn[c1], s1) /\ stream[conn[c1]][s1] = c1
  BY <1>3, <1>5 DEF IInv, NoCrossTalk
<1>7. conn[c1] \in Conns
  BY <1>3, <1>t DEF IInv, Bound, TypeOK
<1>8. ~(conn[c1] = k /\ s1 = s)
  BY <1>3, <1>6
<1>9. d = e
  BY <1>4, <1>6, <1>8 DEF Aged, Live
<1> QED
  BY <1>1, <1>6, <1>7, <1>8, <1>9, <1>t DEF TypeOK

\* The collector touches no consumer that is in use.
LEMMA CollectTalk ==
  ASSUME IInv,
         \/ \E c \in Consumers : CollectConsumer(c)
         \/ \E r \in Readers : CollectReader(r)
  PROVE  NoCrossTalk'
<1>t. TypeOK
  BY DEF IInv, Pooling
<1>1. ASSUME NEW c \in Consumers, CollectConsumer(c)
      PROVE  NoCrossTalk'
  <2> SUFFICES ASSUME NEW c1 \in Consumers, NEW s1 \in Sides, reader'[c1][s1] # eofSource,
                      NEW d \in holds'[reader'[c1][s1]]
               PROVE  d = Live(conn'[c1], s1) /\ stream'[conn'[c1]][s1] = c1
    BY DEF NoCrossTalk
  <2>1. c1 # c /\ reader'[c1][s1] = reader[c1][s1] /\ reader[c1][s1] \in Readers
    BY <1>1, <1>t DEF CollectConsumer, TypeOK
  <2>2. d \in holds[reader[c1][s1]] /\ conn'[c1] = conn[c1] /\ UNCHANGED stream
    BY <1>1, <2>1, <1>t DEF CollectConsumer, ResetData, TypeOK
  <2> QED
    BY <2>1, <2>2 DEF IInv, NoCrossTalk
<1>2. ASSUME NEW r \in Readers, CollectReader(r)
      PROVE  NoCrossTalk'
  BY <1>2 DEF CollectReader, IInv, NoCrossTalk
<1> QED
  BY <1>1, <1>2

\* A consumer never reads data of another connection, of the other direction
\* or of an earlier stream, however streams are opened, completed and opened
\* again, for any number of connections, consumers and readers.
THEOREM NoDataCrosses == Spec => []NoCrossTalk
<1>1. Init => IInv
  <2>1. Init => Clean /\ Bound /\ NoCrossTalk
    BY FactoryAssumption DEF Init, Clean, Bound, NoCrossTalk
  <2> QED
    BY <2>1, PoolingInit DEF IInv
<1>2. IInv /\ [Next]_vars => IInv'
  <2> SUFFICES ASSUME IInv, [Next]_vars PROVE IInv'
    OBVIOUS
  <2>1. Pooling' /\ Clean' /\ Bound'
    BY PoolingStep, CleanStep, BoundStep DEF IInv
  <2>2. CASE UNCHANGED vars
    BY <2>2, <2>1 DEF vars, IInv, NoCrossTalk
  <2>3. CASE Next
    BY <2>1, <2>3, NewTalk, ReassembledTalk, CompleteTalk, CollectTalk DEF Next, IInv
  <2> QED
    BY <2>2, <2>3
<1>3. IInv => NoCrossTalk
  BY DEF IInv
<1> QED
  BY <1>1, <1>2, <1>3, PTL DEF Spec

-----------------------------------------------------------------------------
(* Pairing.                                                                *)

\* How far the ordinary connection k has come: nothing is open, or one
\* direction s was opened and its consumer waits for the other, or both were.
Idle(k)       == opened[k] = {} /\ halfOpen[k] = None /\ \A s \in Sides : stream[k][s] = None
Half(k, s)    == /\ opened[k] = {s} /\ halfOpen[k] # None
                 /\ stream[k][s] \in {None, halfOpen[k]} /\ stream[k][Other(s)] = None
Full(k)       == /\ opened[k] = Sides /\ halfOpen[k] = None
                 /\ stream[k]["client"] # None /\ stream[k]["server"] # None
                      => stream[k]["client"] = stream[k]["server"]
Progress(k)   == Idle(k) \/ (\E s \in Sides : Half(k, s)) \/ Full(k)

\* Whoever of connection k has a reader either has the stream, or waits for it.
InUse(k) ==
  \A c \in Consumers, s \in Sides :
    conn[c] = k /\ reader[c][s] # eofSource =>
      stream[k][s] = c \/ (halfOpen[k] = c /\ s \notin opened[k])

Pairing == \A k \in Conns \ irregular : Progress(k) /\ InUse(k)

\* The two directions.
LEMMA SideFacts ==
  ASSUME NEW s \in Sides
  PROVE  /\ Other(s) \in Sides /\ Other(s) # s /\ Other(Other(s)) = s
         /\ \A t \in Sides : t = s \/ t = Other(s)
         /\ {s} # {} /\ {s} # Sides /\ Sides # {}
         /\ Sides = {s} \cup {Other(s)}
<1>1. CASE s = "client"
  BY <1>1 DEF Sides, Other
<1>2. CASE s = "server"
  BY <1>2 DEF Sides, Other
<1> QED BY <1>1, <1>2 DEF Sides

\* New opens a direction of an ordinary connection that is idle or half open.
LEMMA NewPairing ==
  ASSUME Pooling, Pairing, NEW k \in Conns, NEW s \in Sides, New(k, s)
  PROVE  Pairing'
<1> DEFINE o == Other(s)
<1>t. TypeOK
  BY DEF Pooling
<1>1. PICK c \in Consumers : Pair(k, c) /\ stream' = [stream EXCEPT ![k][s] = c]
  BY DEF New
<1>2. /\ stream[k][s] = None /\ c # None
      /\ \A k1 \in Conns, t \in Sides :
           stream'[k1][t] = IF k1 = k /\ t = s THEN c ELSE stream[k1][t]
  BY <1>1, <1>t, FactoryAssumption DEF New, TypeOK
<1>3. /\ \A k1 \in Conns : k1 # k => opened'[k1] = opened[k1] /\ halfOpen'[k1] = halfOpen[k1]
      /\ opened'[k] = IF stream[k][o] = None THEN {s} ELSE opened[k] \cup {s}
  BY <1>1, <1>t DEF New, TypeOK, Pair
<1>4. irregular \subseteq irregular' /\ (~Ordinary(k, s) => k \in irregular')
  BY DEF New
<1>5. /\ o \in Sides /\ o # s /\ Other(o) = s /\ \A t \in Sides : t = s \/ t = o
      /\ {s} # {} /\ {s} # Sides /\ Sides # {} /\ Sides = {s} \cup {o}
  BY SideFacts
<1>o. Ordinary(k, s) => \/ stream[k][o] = None /\ opened[k] \in {{}, Sides}
                        \/ stream[k][o] # None /\ s \notin opened[k]
  <2>1. CASE stream[k][o] = None
    BY <2>1 DEF Ordinary
  <2>2. CASE stream[k][o] # None
    BY <2>2 DEF Ordinary
  <2> QED BY <2>1, <2>2
<1> HIDE DEF o
<1>6. ASSUME NEW c1 \in Consumers, NEW k1 \in Conns, k1 # k, conn'[c1] = k1, NEW t \in Sides
      PROVE  conn[c1] = k1 /\ reader'[c1][t] = reader[c1][t]
  BY <1>1, <1>6, <1>t DEF Pair, CreateConsumer, TypeOK
<1>7. ASSUME NEW k1 \in Conns \ irregular', k1 # k PROVE Progress(k1)' /\ InUse(k1)'
  <2>1. Progress(k1) /\ InUse(k1)
    BY <1>4, <1>7 DEF Pairing
  <2>2. /\ \A t \in Sides : stream'[k1][t] = stream[k1][t]
        /\ opened'[k1] = opened[k1] /\ halfOpen'[k1] = halfOpen[k1]
    BY <1>2, <1>3, <1>7
  <2>3. (Idle(k1) => Idle(k1)') /\ (Full(k1) => Full(k1)')
    BY <2>2 DEF Idle, Full, Sides
  <2>4. \A t \in Sides : Half(k1, t) => Half(k1, t)'
    BY <2>2, SideFacts DEF Half
  <2>5. InUse(k1)'
    BY <1>6, <1>7, <2>1, <2>2 DEF InUse
  <2> QED BY <2>1, <2>3, <2>4, <2>5 DEF Progress
<1>8. ASSUME k \notin irregular' PROVE Progress(k)' /\ InUse(k)'
  <2>1. Progress(k) /\ InUse(k)
    BY <1>4, <1>8 DEF Pairing
  <2>2. CASE halfOpen[k] = None
    <3>1. CreateConsumer(c, k) /\ halfOpen' = [halfOpen EXCEPT ![k] = c]
      BY <1>1, <2>2 DEF Pair
    <3>2. \A t \in Sides : ~Half(k, t)
      BY <2>2 DEF Half
    <3>3. stream[k][o] = None /\ opened[k] \in {{}, Sides}
      BY <1>4, <1>5, <1>8, <1>o, <2>1, <3>2 DEF Progress, Idle, Full
    <3>4. halfOpen'[k] = c /\ opened'[k] = {s} /\ stream'[k][s] = c /\ stream'[k][o] = None
      BY <1>2, <1>3, <1>5, <1>t, <3>1, <3>3 DEF TypeOK
    <3>5. Half(k, s)'
      BY <1>2, <3>4 DEF Half, o
    <3>6. ASSUME NEW c1 \in Consumers, NEW t \in Sides, conn'[c1] = k,
                 reader'[c1][t] # eofSource
          PROVE  c1 = c
      <4> SUFFICES ASSUME c1 # c PROVE FALSE
        OBVIOUS
      <4>1. conn[c1] = k /\ reader[c1][t] # eofSource
        BY <1>t, <3>1, <3>6 DEF CreateConsumer, TypeOK
      <4>2. stream[k][t] = c1
        BY <2>1, <2>2, <4>1, <1>t, FactoryAssumption DEF InUse
      <4> QED BY <1>2, <1>5, <3>3, <4>2, FactoryAssumption
    <3>7. InUse(k)'
      BY <1>5, <3>4, <3>6 DEF InUse
    <3> QED BY <3>5, <3>7 DEF Progress
  <2>3. CASE halfOpen[k] # None
    <3>1. /\ c = halfOpen[k] /\ halfOpen' = [halfOpen EXCEPT ![k] = None]
          /\ UNCHANGED <<conn, reader>>
      BY <1>1, <2>3 DEF Pair
    <3>2. ~Idle(k) /\ ~Full(k)
      BY <2>3 DEF Idle, Full
    <3>3. PICK t \in Sides : Half(k, t)
      BY <2>1, <3>2 DEF Progress
    <3>4. t = o /\ stream[k][o] = c /\ opened[k] = {o}
      <4>1. opened[k] = {t} /\ stream[k][t] \in {None, halfOpen[k]} /\ stream[k][Other(t)] = None
        BY <3>3 DEF Half
      <4>2. opened[k] \notin {{}, Sides}
        BY <4>1, SideFacts
      <4>3. stream[k][o] # None /\ s \notin opened[k]
        BY <1>4, <1>8, <1>o, <4>2
      <4>4. t = o
        BY <1>5, <4>1, <4>3
      <4> QED BY <3>1, <4>1, <4>3, <4>4
    <3>5. /\ stream'[k][s] = c /\ stream'[k][o] = c /\ halfOpen'[k] = None
          /\ opened'[k] = Sides
      BY <1>2, <1>3, <1>5, <1>t, <3>1, <3>4 DEF TypeOK
    <3>6. Full(k)'
      BY <1>5, <3>5 DEF Full, Sides
    <3>7. \A c1 \in Consumers, u \in Sides :
            conn[c1] = k /\ reader[c1][u] # eofSource => c1 = c
      BY <1>2, <1>5, <2>1, <3>1, <3>4, FactoryAssumption DEF InUse
    <3>8. InUse(k)'
      BY <1>5, <3>1, <3>5, <3>7 DEF InUse
    <3> QED BY <3>6, <3>8 DEF Progress
  <2> QED BY <2>2, <2>3
<1> QED BY <1>7, <1>8 DEF Pairing

\* The other steps end streams and give readers back.
LEMMA OldPairing ==
  ASSUME Pooling, Pairing, [Next]_vars,
         \A k \in Conns, s \in Sides : ~New(k, s)
  PROVE  Pairing'
<1>t. TypeOK
  BY DEF Pooling
<1>1. UNCHANGED <<halfOpen, opened, irregular>>
  BY DEF Next, vars, Reassembled, ReassemblyComplete, CollectConsumer, CollectReader
<1>2. /\ \A k \in Conns, s \in Sides : stream'[k][s] \in {stream[k][s], None}
      /\ \A c \in Consumers : conn'[c] \in {conn[c], None}
      /\ \A c \in Consumers, s \in Sides : reader'[c][s] \in {reader[c][s], eofSource}
      /\ \A c \in Consumers, k \in Conns, s \in Sides :
           stream[k][s] = c /\ stream'[k][s] = None => reader'[c][s] = eofSource
  <2>1. CASE UNCHANGED vars
    BY <2>1, FactoryAssumption DEF vars
  <2>2. ASSUME NEW k \in Conns, NEW s \in Sides, Reassembled(k, s)
        PROVE  /\ UNCHANGED <<stream, conn>>
               /\ \A c1 \in Consumers, s1 \in Sides : reader'[c1][s1] \in {reader[c1][s1], eofSource}
    BY <2>2, <1>t, RunReaders DEF Reassembled
  <2>3. ASSUME NEW k \in Conns, NEW s \in Sides, ReassemblyComplete(k, s)
        PROVE  /\ UNCHANGED conn
               /\ \A k1 \in Conns, s1 \in Sides :
                    stream'[k1][s1] = IF k1 = k /\ s1 = s THEN None ELSE stream[k1][s1]
               /\ \A c1 \in Consumers, s1 \in Sides :
                    reader'[c1][s1] = IF c1 = stream[k][s] /\ s1 = s THEN eofSource
                                      ELSE reader[c1][s1]
    BY <2>3, <1>t DEF ReassemblyComplete, TypeOK
  <2>4. ASSUME NEW c \in Consumers, CollectConsumer(c)
        PROVE  /\ UNCHANGED stream
               /\ \A c1 \in Consumers : conn'[c1] \in {conn[c1], None}
               /\ \A c1 \in Consumers, s1 \in Sides : reader'[c1][s1] \in {reader[c1][s1], eofSource}
    BY <2>4, <1>t DEF CollectConsumer, TypeOK
  <2>5. ASSUME NEW r \in Readers, CollectReader(r) PROVE UNCHANGED <<stream, conn, reader>>
    BY <2>5 DEF CollectReader
  <2>6. CASE \E k \in Conns, s \in Sides : Reassembled(k, s)
    BY <2>2, <2>6, FactoryAssumption
  <2>7. CASE \E k \in Conns, s \in Sides : ReassemblyComplete(k, s)
    BY <2>3, <2>7, FactoryAssumption
  <2>8. CASE \E c \in Consumers : CollectConsumer(c)
    BY <2>4, <2>8, FactoryAssumption
  <2>9. CASE \E r \in Readers : CollectReader(r)
    BY <2>5, <2>9, FactoryAssumption
  <2> QED BY <2>1, <2>6, <2>7, <2>8, <2>9 DEF Next
<1>3. ASSUME NEW k \in Conns \ irregular' PROVE Progress(k)' /\ InUse(k)'
  <2>1. Progress(k) /\ InUse(k)
    BY <1>1, <1>3 DEF Pairing
  <2>2. (Idle(k) => Idle(k)') /\ (Full(k) => Full(k)')
    BY <1>1, <1>2 DEF Idle, Full, Sides
  <2>3. ASSUME NEW s \in Sides, Half(k, s) PROVE Half(k, s)'
    <3>1. stream'[k][s] \in {stream[k][s], None} /\ stream'[k][Other(s)] \in {stream[k][Other(s)], None}
      BY <1>2, SideFacts
    <3> QED BY <1>1, <2>3, <3>1 DEF Half
  <2>4. InUse(k)'
    <3> SUFFICES ASSUME NEW c \in Consumers, NEW s \in Sides, conn'[c] = k,
                        reader'[c][s] # eofSource
                 PROVE  stream'[k][s] = c \/ (halfOpen[k] = c /\ s \notin opened[k])
      BY <1>1 DEF InUse
    <3>1. conn[c] = k /\ reader[c][s] # eofSource
      BY <1>2, FactoryAssumption
    <3> QED BY <1>2, <2>1, <3>1 DEF InUse
  <2> QED BY <2>1, <2>2, <2>3, <2>4 DEF Progress
<1> QED BY <1>3 DEF Pairing

\* An ordinary connection goes through its stages, round and round.
LEMMA PairingInvariant == Spec => [](Pooling /\ Pairing)
<1> DEFINE I == Pooling /\ Pairing
<1>1. Init => I
  <2> SUFFICES ASSUME Init PROVE Pairing
    BY PoolingInit
  <2>1. ASSUME NEW k \in Conns PROVE Idle(k) /\ InUse(k)
    BY FactoryAssumption DEF Init, Idle, InUse
  <2> QED BY <2>1 DEF Pairing, Progress
<1>2. I /\ [Next]_vars => I'
  BY PoolingStep, NewPairing, OldPairing
<1> QED BY <1>1, <1>2, PTL DEF Spec

\* New sends the two directions of a connection to one consumer, as long as no
\* direction of it came back alone, for any number of connections.
THEOREM DirectionsPaired == Spec => []Paired
<1>1. Pairing => Paired
  <2> SUFFICES ASSUME Pairing, NEW k \in Conns \ irregular,
                      \A s \in Sides : stream[k][s] # None
               PROVE  stream[k]["client"] = stream[k]["server"]
    BY DEF Paired
  <2>1. Progress(k)
    BY DEF Pairing
  <2>2. ~Idle(k) /\ \A s \in Sides : ~Half(k, s)
    BY SideFacts DEF Idle, Half, Sides
  <2> QED BY <2>1, <2>2 DEF Progress, Full, Sides
<1> QED BY <1>1, PairingInvariant, PTL

\* When an ordinary connection is over its readers are in the pool again and
\* halfOpen has forgotten it: no consumer leaks its readers.
THEOREM ReadersReturned == Spec => []Returned
<1>1. TypeOK /\ Pairing => Returned
  <2> SUFFICES ASSUME TypeOK, Pairing, NEW k \in Conns \ irregular,
                      \A s \in Sides : stream[k][s] = None, opened[k] \in {{}, Sides}
               PROVE  /\ halfOpen[k] = None
                      /\ \A c \in Consumers : conn[c] = k => HeldBy(c) = {}
    BY DEF Returned
  <2>1. Progress(k) /\ InUse(k)
    BY DEF Pairing
  <2>2. \A s \in Sides : ~Half(k, s)
    BY SideFacts DEF Half
  <2>3. halfOpen[k] = None
    BY <2>1, <2>2 DEF Progress, Idle, Full
  <2>4. ASSUME NEW c \in Consumers, conn[c] = k, NEW s \in Sides PROVE reader[c][s] = eofSource
    BY <2>1, <2>3, <2>4, FactoryAssumption DEF InUse
  <2> QED BY <2>3, <2>4 DEF HeldBy
<1> QED BY <1>1, PairingInvariant, PTL DEF Pooling
=============================================================================

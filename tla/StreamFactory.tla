---------------------------- MODULE StreamFactory ----------------------------
(***************************************************************************)
(* How streams get their consumers (assembly/streamfactory.go) and how     *)
(* consumers get and return their readers (protocol/model).                *)
(*                                                                         *)
(* The assembler opens one stream per direction of a connection when it    *)
(* first sees the direction, and completes it on FIN, RST or after a       *)
(* minute of silence; the directions come and go independently.  New       *)
(* pairs a stream with the consumer that waits in halfOpen for the other   *)
(* half of the connection.  A consumer has two readers out of a pool that  *)
(* all consumers of all assembly workers share, and keeps each until its   *)
(* stream is complete.  What a consumer does with the data is in module    *)
(* Consumer; here a run of it ends in one of five ways.                    *)
(***************************************************************************)
EXTENDS Integers

CONSTANTS
  Conns,      \* connections: a server endpoint and a client endpoint
  Consumers,  \* *model.Consumer, reused once nothing refers to them
  Readers,    \* *reader.Reader, likewise
  None,       \* nil
  eofSource   \* the DummySource that stands for a reader given back

ASSUME FactoryAssumption ==
  /\ None \notin Conns /\ None \notin Consumers
  /\ eofSource \notin Readers

Sides == {"client", "server"}
Other(s) == IF s = "client" THEN "server" ELSE "client"

VARIABLES
  stream,     \* the assembler's table: stream[k][s] writes to this consumer
  halfOpen,   \* streamFactory.halfOpen
  conn,       \* the connection a consumer was made for
  reader,     \* ClientReader and ServerReader
  made,       \* readers that exist
  pool,       \* bufferPool: how often it holds each reader
  holds,      \* streams a reader has data of, and whether they are still open
  closed,     \* Reader.closed
  opened,     \* history: directions opened since the connection was idle
  irregular   \* history: connections one direction of which was opened again
              \* while the other one stayed open, or had never been seen

vars == <<stream, halfOpen, conn, reader, made, pool, holds, closed, opened, irregular>>

AnyData    == [of : Conns, side : Sides, live : BOOLEAN]
Live(k, s) == [of |-> k, side |-> s, live |-> TRUE]
\* Data of the stream s of k when that stream ends.
Aged(d, k, s) == IF d = Live(k, s) THEN [of |-> k, side |-> s, live |-> FALSE] ELSE d

TypeOK ==
  /\ stream \in [Conns -> [Sides -> Consumers \cup {None}]]
  /\ halfOpen \in [Conns -> Consumers \cup {None}]
  /\ conn \in [Consumers -> Conns \cup {None}]
  /\ reader \in [Consumers -> [Sides -> Readers \cup {eofSource}]]
  /\ made \subseteq Readers
  /\ pool \in [Readers -> Nat]
  /\ holds \in [Readers -> SUBSET AnyData]
  /\ closed \in [Readers -> BOOLEAN]
  /\ opened \in [Conns -> SUBSET Sides]
  /\ irregular \subseteq Conns

Init ==
  /\ stream = [k \in Conns |-> [s \in Sides |-> None]]
  /\ halfOpen = [k \in Conns |-> None]
  /\ conn = [c \in Consumers |-> None]
  /\ reader = [c \in Consumers |-> [s \in Sides |-> eofSource]]
  /\ made = {} /\ pool = [r \in Readers |-> 0]
  /\ holds = [r \in Readers |-> {}] /\ closed = [r \in Readers |-> FALSE]
  /\ opened = [k \in Conns |-> {}] /\ irregular = {}

-----------------------------------------------------------------------------
(* streamFactory.                                                          *)

\* bufferPool.Get: a pooled reader, or a new one.
Gettable == {r \in Readers : pool[r] > 0 \/ r \notin made}

\* createConsumer and model.New.
CreateConsumer(c, k) ==
  \E cr, sr \in Gettable :
    /\ cr # sr
    /\ conn[c] = None
    /\ conn' = [conn EXCEPT ![c] = k]
    /\ reader' = [reader EXCEPT ![c] = [s \in Sides |-> IF s = "client" THEN cr ELSE sr]]
    /\ made' = made \cup {cr, sr}
    /\ pool' = [r \in Readers |-> IF r \in {cr, sr} /\ pool[r] > 0 THEN pool[r] - 1
                                  ELSE pool[r]]

Pair_AnyConnection(k, c) ==
  \/ \E k2 \in Conns : /\ halfOpen[k2] # None /\ c = halfOpen[k2]
                       /\ halfOpen' = [halfOpen EXCEPT ![k2] = None]
                       /\ UNCHANGED <<conn, reader, made, pool>>
  \/ /\ \A k2 \in Conns : halfOpen[k2] = None
     /\ CreateConsumer(c, k)
     /\ halfOpen' = [halfOpen EXCEPT ![k] = c]

Pair_NotReversed(k, c) ==
  /\ CreateConsumer(c, k)
  /\ halfOpen' = [halfOpen EXCEPT ![k] = c]

Pair_NotDeleted(k, c) ==
  \/ /\ halfOpen[k] # None /\ c = halfOpen[k]
     /\ UNCHANGED <<halfOpen, conn, reader, made, pool>>
  \/ /\ halfOpen[k] = None
     /\ CreateConsumer(c, k)
     /\ halfOpen' = [halfOpen EXCEPT ![k] = c]

\* The consumer that New returns a stream of, and what becomes of halfOpen.
Pair(k, c) ==
  \/ /\ halfOpen[k] # None /\ c = halfOpen[k]
     /\ halfOpen' = [halfOpen EXCEPT ![k] = None]
     /\ UNCHANGED <<conn, reader, made, pool>>
  \/ /\ halfOpen[k] = None
     /\ CreateConsumer(c, k)
     /\ halfOpen' = [halfOpen EXCEPT ![k] = c]

\* An ordinary connection is idle, gets its two directions one after the
\* other, and is idle again.
Ordinary(k, s) ==
  IF stream[k][Other(s)] = None THEN opened[k] \in {{}, Sides}
  ELSE s \notin opened[k]

\* getConnection finds no stream for a packet with SYN or data: New.
New(k, s) ==
  /\ stream[k][s] = None
  /\ \E c \in Consumers : Pair(k, c) /\ stream' = [stream EXCEPT ![k][s] = c]
  /\ opened' = [opened EXCEPT ![k] = IF stream[k][Other(s)] = None THEN {s}
                                     ELSE @ \cup {s}]
  /\ irregular' = IF Ordinary(k, s) THEN irregular ELSE irregular \cup {k}
  /\ UNCHANGED <<holds, closed>>

-----------------------------------------------------------------------------
(* model.Consumer.                                                         *)

HeldBy(c) == {reader[c][s] : s \in Sides} \ {eofSource}

\* Reset of the readers in R; a pooled reader is one that was Put after Reset.
ResetData(R)   == [r \in Readers |-> IF r \in R THEN {} ELSE holds[r]]
ResetClosed(R) == [r \in Readers |-> IF r \in R THEN FALSE ELSE closed[r]]
Put(R)         == [r \in Readers |-> IF r \in R THEN pool[r] + 1 ELSE pool[r]]

Close_KeepsReaders(c) ==
  /\ holds' = ResetData(HeldBy(c)) /\ closed' = ResetClosed(HeldBy(c))
  /\ pool' = Put(HeldBy(c))
  /\ UNCHANGED reader

\* Consumer.Close: both readers go back to the pool.
Close(c) ==
  /\ holds' = ResetData(HeldBy(c)) /\ closed' = ResetClosed(HeldBy(c))
  /\ pool' = Put(HeldBy(c))
  /\ reader' = [reader EXCEPT ![c] = [s \in Sides |-> eofSource]]

\* What Run may do to the readers of c, which hold h: consume client data or
\* not, truncate the server's, reset both, close them for good (quit), or
\* give them back (binary protocol).  After Close, Run does nothing.
Run(c, h) ==
  \/ \E R \in SUBSET HeldBy(c) :
       /\ holds' = [r \in Readers |-> IF r \in R THEN {} ELSE h[r]]
       /\ UNCHANGED <<closed, pool, reader>>
  \/ /\ holds' = [r \in Readers |-> IF r \in HeldBy(c) THEN {} ELSE h[r]]
     /\ \E quit \in BOOLEAN :
          closed' = [r \in Readers |-> IF r \in HeldBy(c) THEN quit ELSE closed[r]]
     /\ UNCHANGED <<pool, reader>>
  \/ HeldBy(c) # {} /\ Close(c)

\* ClientStream.Reassembled and ServerStream.Reassembled.
Reassembled(k, s) ==
  LET c == stream[k][s]
      r == reader[c][s]
  IN  /\ c # None
      /\ Run(c, IF r = eofSource \/ closed[r] THEN holds
                ELSE [holds EXCEPT ![r] = @ \cup {Live(k, s)}])
      /\ UNCHANGED <<stream, halfOpen, conn, made, opened, irregular>>

ReassemblyComplete_NoReset(k, s) ==
  LET c == stream[k][s]
  IN  /\ c # None
      /\ stream' = [stream EXCEPT ![k][s] = None]
      /\ pool' = Put({reader[c][s]} \ {eofSource})
      /\ reader' = [reader EXCEPT ![c][s] = eofSource]
      /\ UNCHANGED <<halfOpen, conn, made, holds, closed, opened, irregular>>

\* ClientStream.ReassemblyComplete and ServerStream.ReassemblyComplete; the
\* assembler forgets the stream.
ReassemblyComplete(k, s) ==
  LET c == stream[k][s]
      R == {reader[c][s]} \ {eofSource}
      aged == [r \in Readers |-> {Aged(d, k, s) : d \in ResetData(R)[r]}]
  IN  /\ c # None
      /\ stream' = [stream EXCEPT ![k][s] = None]
      /\ holds' = aged /\ closed' = ResetClosed(R)
      /\ pool' = Put(R)
      /\ reader' = [reader EXCEPT ![c][s] = eofSource]
      /\ UNCHANGED <<halfOpen, conn, made, opened, irregular>>

-----------------------------------------------------------------------------
(* The garbage collector.                                                  *)

Referenced(c) == (\E k \in Conns : halfOpen[k] = c) \/ (\E k \in Conns, s \in Sides : stream[k][s] = c)

\* A consumer nothing refers to is collected, with the readers only it has.
CollectConsumer(c) ==
  /\ conn[c] # None /\ ~Referenced(c)
  /\ conn' = [conn EXCEPT ![c] = None]
  /\ reader' = [reader EXCEPT ![c] = [s \in Sides |-> eofSource]]
  /\ made' = made \ HeldBy(c)
  /\ holds' = ResetData(HeldBy(c)) /\ closed' = ResetClosed(HeldBy(c))
  /\ UNCHANGED <<stream, halfOpen, pool, opened, irregular>>

\* sync.Pool may let go of what it holds at any time.
CollectReader(r) ==
  /\ pool[r] > 0
  /\ pool' = [pool EXCEPT ![r] = @ - 1]
  /\ made' = made \ {r}
  /\ UNCHANGED <<stream, halfOpen, conn, reader, holds, closed, opened, irregular>>

Next ==
  \/ \E k \in Conns, s \in Sides : \/ New(k, s) \/ Reassembled(k, s)
                                   \/ ReassemblyComplete(k, s)
  \/ \E c \in Consumers : CollectConsumer(c)
  \/ \E r \in Readers : CollectReader(r)

Spec == Init /\ [][Next]_vars

-----------------------------------------------------------------------------
(* Properties.                                                             *)

\* A reader is in the pool, once, or it is one of the two readers of one
\* consumer, never both: otherwise two connections, possibly on two assembly
\* workers, would write into one buffer.  Close, the two ReassemblyComplete
\* and quit may come in any order for the same consumer.
OneOwner ==
  /\ TypeOK
  /\ \A r \in Readers :
       /\ pool[r] <= 1
       /\ \A c1, c2 \in Consumers, s1, s2 \in Sides :
            reader[c1][s1] = r /\ reader[c2][s2] = r
              => pool[r] = 0 /\ c1 = c2 /\ s1 = s2

\* A reader comes out of the pool as if it were new: without the data of the
\* connection before, and not closed by its quit.
PooledClean == \A r \in Readers : pool[r] > 0 => holds[r] = {} /\ ~closed[r]

\* A consumer reads data of its own connection only, in the right direction,
\* and of the stream that is open now and not of an earlier one of that name.
NoCrossTalk ==
  \A c \in Consumers, s \in Sides :
    reader[c][s] # eofSource =>
      \A d \in holds[reader[c][s]] : d = Live(conn[c], s) /\ stream[conn[c]][s] = c

\* "TCP conversations (stream pairs)": the two directions of a connection go
\* to one consumer, which New finds in halfOpen, as long as no direction came
\* back alone.
Paired ==
  \A k \in Conns :
    (\A s \in Sides : stream[k][s] # None) /\ k \notin irregular
      => stream[k]["client"] = stream[k]["server"]

\* Once an ordinary connection is over its readers are back in the pool and
\* nothing refers to its consumers.
Returned ==
  \A k \in Conns :
    (\A s \in Sides : stream[k][s] = None) /\ opened[k] \in {{}, Sides} /\ k \notin irregular
      => /\ halfOpen[k] = None
         /\ \A c \in Consumers : conn[c] = k => HeldBy(c) = {}
=============================================================================

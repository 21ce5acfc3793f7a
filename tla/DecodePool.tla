------------------------------ MODULE DecodePool ------------------------------
(***************************************************************************)
(* The decode pool of memsniff (decode/pool.go, decode/worker.go).         *)
(*                                                                         *)
(* One goroutine executes Pool.Run.  It takes an idle worker from the      *)
(* channel readyQ, lets the packet source write a batch straight into that *)
(* worker's PacketBuffer, and hands the batch over through the worker's    *)
(* one-slot channel workReady.  Each worker goroutine executes             *)
(* worker.loop: publish itself on readyQ, wait on workReady, run the       *)
(* handler on its own buffer, publish itself again.  No lock protects the  *)
(* buffers: who may touch one is decided by these channels alone.          *)
(*                                                                         *)
(* Packets are the numbers 1..NumPackets in capture order.  The handler is *)
(* opaque here; module Pipeline replaces it by the assembly pool.          *)
(***************************************************************************)
EXTENDS Naturals, Sequences, FiniteSets

CONSTANTS
  Workers,        \* the decode workers (flag --decodeworkers)
  NoWorker,       \* "Run holds no worker"
  NumPackets,     \* packets the source delivers before it reports io.EOF
  MaxBatch,       \* capacity of a worker's PacketBuffer (1000 packets)
  MaxReadErrors   \* how often the source fails with neither timeout nor EOF

ASSUME WorkersAssumption ==
  IsFiniteSet(Workers) /\ Workers # {} /\ NoWorker \notin Workers

ASSUME BoundsAssumption ==
  NumPackets \in Nat /\ MaxBatch \in Nat \ {0} /\ MaxReadErrors \in Nat

VARIABLES
  src,         \* packets already read from the PacketSource
  pb,          \* pb[w]: the packets in worker w's PacketBuffer
  readyQ,      \* the channel of idle workers, capacity numWorkers
  workReady,   \* workReady[w]: tokens in w's channel, capacity 1
  closed,      \* closed[w]: close(w.workReady) has been called
  wpc,         \* where worker.loop of each worker is
  rpc,         \* where Pool.Run is
  cur,         \* nextWorker of Pool.Run
  nClosed,     \* workers Run has closed at the end of input
  readErrors,  \* read errors so far
  captured,    \* Stats.PacketsCaptured
  dropped,     \* Stats.PacketsDropped
  fate         \* history: what became of each packet

runVars  == <<rpc, cur, nClosed>>
chanVars == <<readyQ, workReady, closed>>
srcVars  == <<src, readErrors, captured, dropped>>
vars     == <<src, pb, readyQ, workReady, closed, wpc, rpc, cur, nClosed,
              readErrors, captured, dropped, fate>>

Packets    == 1..NumPackets
numWorkers == Cardinality(Workers)
InReadyQ(w) == \E i \in 1..Len(readyQ) : readyQ[i] = w

TypeOK ==
  /\ src \in 0..NumPackets
  /\ pb \in [Workers -> Seq(Packets)]
  /\ readyQ \in Seq(Workers)
  /\ workReady \in [Workers -> 0..1]
  /\ closed \in [Workers -> BOOLEAN]
  /\ wpc \in [Workers -> {"publish", "wait", "handle", "exited"}]
  /\ rpc \in {"select", "collect", "work", "closing", "returned"}
  /\ cur \in Workers \cup {NoWorker}
  /\ nClosed \in Nat
  /\ readErrors \in 0..MaxReadErrors
  /\ captured \in Nat
  /\ dropped \in Nat
  /\ fate \in [Packets -> {"unread", "buffered", "handled", "discarded"}]

(* NewPool: every worker goroutine is started, Run has not looped yet.     *)
Init ==
  /\ src = 0
  /\ pb = [w \in Workers |-> <<>>]
  /\ readyQ = <<>>
  /\ workReady = [w \in Workers |-> 0]
  /\ closed = [w \in Workers |-> FALSE]
  /\ wpc = [w \in Workers |-> "publish"]
  /\ rpc = "select"
  /\ cur = NoWorker
  /\ nClosed = 0
  /\ readErrors = 0
  /\ captured = 0
  /\ dropped = 0
  /\ fate = [p \in Packets |-> "unread"]

-----------------------------------------------------------------------------
(* Pool.Run: the select statement.                                         *)

\* case nextWorker := <-p.readyQ
RunReceive ==
  /\ rpc = "select"
  /\ readyQ # <<>>
  /\ cur' = Head(readyQ)
  /\ readyQ' = Tail(readyQ)
  /\ rpc' = "collect"
  /\ UNCHANGED <<pb, workReady, closed, wpc, nClosed, srcVars, fate>>

\* default: DiscardPacket returned nil.  A timeout, io.EOF (the loop sleeps)
\* or any other error changes nothing and the loop runs again: a stutter.
RunDiscard ==
  /\ rpc = "select"
  /\ readyQ = <<>>
  /\ src < NumPackets
  /\ src' = src + 1
  /\ dropped' = dropped + 1
  /\ fate' = [fate EXCEPT ![src + 1] = "discarded"]
  /\ UNCHANGED <<pb, chanVars, wpc, runVars, readErrors, captured>>

-----------------------------------------------------------------------------
(* Pool.sendToWorker: CollectPackets writes into cur's buffer, which both  *)
(* sources clear first.                                                    *)

\* The next k packets of the source.
Batch_OffByOne(k) == [i \in 1..k |-> src + i - 1]
Batch(k) == [i \in 1..k |-> src + i]

\* CollectPackets has put k packets into cur's buffer and they are counted.
Collected_NotConsumed(k) ==
  /\ src + k <= NumPackets
  /\ pb' = [pb EXCEPT ![cur] = Batch(k)]
  /\ src' = IF k = 0 THEN src ELSE src + k - 1
  /\ captured' = captured + k
  /\ fate' = [p \in Packets |->
                IF p \in (src + 1)..(src + k) THEN "buffered" ELSE fate[p]]

Collected_CountsCapacity(k) ==
  /\ src + k <= NumPackets
  /\ pb' = [pb EXCEPT ![cur] = Batch(k)]
  /\ src' = src + k
  /\ captured' = captured + MaxBatch
  /\ fate' = [p \in Packets |->
                IF p \in (src + 1)..(src + k) THEN "buffered" ELSE fate[p]]

Collected(k) ==
  /\ src + k <= NumPackets
  /\ pb' = [pb EXCEPT ![cur] = Batch(k)]
  /\ src' = src + k
  /\ captured' = captured + k
  /\ fate' = [p \in Packets |->
                IF p \in (src + 1)..(src + k) THEN "buffered" ELSE fate[p]]

\* err == nil.  The PacketSource interface lets k be 0.
CollectBatch(k) ==
  /\ rpc = "collect"
  /\ Collected(k)
  /\ rpc' = "work"
  /\ UNCHANGED <<chanVars, wpc, cur, nClosed, readErrors, dropped>>

\* pcap.NextErrorTimeoutExpired: the for loop asks again.
CollectTimeout ==
  /\ rpc = "collect"
  /\ pb' = [pb EXCEPT ![cur] = <<>>]
  /\ UNCHANGED <<chanVars, wpc, runVars, srcVars, fate>>

\* Any other error, after k packets were stored: it is logged, Run loops, and
\* nothing puts cur back on readyQ.
CollectError(k) ==
  /\ rpc = "collect"
  /\ readErrors < MaxReadErrors
  /\ Collected(k)
  /\ readErrors' = readErrors + 1
  /\ rpc' = "select"
  /\ cur' = NoWorker
  /\ UNCHANGED <<chanVars, wpc, nClosed, dropped>>

\* io.EOF: no packets; Run closes this worker and starts to collect the rest.
CollectEOF_Retries ==
  /\ rpc = "collect"
  /\ src = NumPackets
  /\ pb' = [pb EXCEPT ![cur] = <<>>]
  /\ UNCHANGED <<chanVars, wpc, runVars, srcVars, fate>>

CollectEOF ==
  /\ rpc = "collect"
  /\ src = NumPackets
  /\ pb' = [pb EXCEPT ![cur] = <<>>]
  /\ closed' = [closed EXCEPT ![cur] = TRUE]
  /\ nClosed' = 1
  /\ rpc' = "closing"
  /\ cur' = NoWorker
  /\ UNCHANGED <<readyQ, workReady, wpc, srcVars, fate>>

\* worker.work with packets: w.workReady <- struct{}{}.
SendWork_AlsoRejoins ==
  /\ rpc = "work"
  /\ pb[cur] # <<>>
  /\ workReady[cur] = 0
  /\ workReady' = [workReady EXCEPT ![cur] = 1]
  /\ readyQ' = Append(readyQ, cur)
  /\ rpc' = "select"
  /\ cur' = NoWorker
  /\ UNCHANGED <<pb, closed, wpc, nClosed, srcVars, fate>>

SendWork ==
  /\ rpc = "work"
  /\ pb[cur] # <<>>
  /\ workReady[cur] = 0
  /\ workReady' = [workReady EXCEPT ![cur] = 1]
  /\ rpc' = "select"
  /\ cur' = NoWorker
  /\ UNCHANGED <<pb, readyQ, closed, wpc, nClosed, srcVars, fate>>

\* worker.work without packets: w.workerQueue <- w, from Run's goroutine.
RejoinQueue ==
  /\ rpc = "work"
  /\ pb[cur] = <<>>
  /\ Len(readyQ) < numWorkers
  /\ readyQ' = Append(readyQ, cur)
  /\ rpc' = "select"
  /\ cur' = NoWorker
  /\ UNCHANGED <<pb, workReady, closed, wpc, nClosed, srcVars, fate>>

-----------------------------------------------------------------------------
(* The end of input: (<-p.readyQ).close() for the other workers.           *)

CloseNext ==
  /\ rpc = "closing"
  /\ nClosed < numWorkers
  /\ readyQ # <<>>
  /\ closed' = [closed EXCEPT ![Head(readyQ)] = TRUE]
  /\ readyQ' = Tail(readyQ)
  /\ nClosed' = nClosed + 1
  /\ UNCHANGED <<pb, workReady, wpc, rpc, cur, srcVars, fate>>

RunReturn_OneShort ==
  /\ rpc = "closing"
  /\ nClosed + 1 >= numWorkers
  /\ rpc' = "returned"
  /\ UNCHANGED <<pb, chanVars, wpc, cur, nClosed, srcVars, fate>>

RunReturn ==
  /\ rpc = "closing"
  /\ nClosed >= numWorkers
  /\ rpc' = "returned"
  /\ UNCHANGED <<pb, chanVars, wpc, cur, nClosed, srcVars, fate>>

-----------------------------------------------------------------------------
(* worker.loop.                                                            *)

\* w.workerQueue <- w
Publish(w) ==
  /\ wpc[w] = "publish"
  /\ Len(readyQ) < numWorkers
  /\ readyQ' = Append(readyQ, w)
  /\ wpc' = [wpc EXCEPT ![w] = "wait"]
  /\ UNCHANGED <<pb, workReady, closed, runVars, srcVars, fate>>

\* _, ok := <-w.workReady with a token: the handler starts on w.pb.
TakeWork_PublishesEarly(w) ==
  /\ wpc[w] = "wait"
  /\ workReady[w] = 1
  /\ workReady' = [workReady EXCEPT ![w] = 0]
  /\ wpc' = [wpc EXCEPT ![w] = "handle"]
  /\ readyQ' = Append(readyQ, w)
  /\ fate' = [p \in Packets |->
                IF \E i \in 1..Len(pb[w]) : pb[w][i] = p
                THEN "handled" ELSE fate[p]]
  /\ UNCHANGED <<pb, closed, runVars, srcVars>>

TakeWork(w) ==
  /\ wpc[w] = "wait"
  /\ workReady[w] = 1
  /\ workReady' = [workReady EXCEPT ![w] = 0]
  /\ wpc' = [wpc EXCEPT ![w] = "handle"]
  /\ fate' = [p \in Packets |->
                IF \E i \in 1..Len(pb[w]) : pb[w][i] = p
                THEN "handled" ELSE fate[p]]
  /\ UNCHANGED <<pb, readyQ, closed, runVars, srcVars>>

\* w.handler(w.pb) returns and the loop starts over.
HandlerReturns(w) ==
  /\ wpc[w] = "handle"
  /\ wpc' = [wpc EXCEPT ![w] = "publish"]
  /\ UNCHANGED <<pb, chanVars, runVars, srcVars, fate>>

\* !ok: the channel is closed and empty.
Exit(w) ==
  /\ wpc[w] = "wait"
  /\ workReady[w] = 0
  /\ closed[w]
  /\ wpc' = [wpc EXCEPT ![w] = "exited"]
  /\ UNCHANGED <<pb, chanVars, runVars, srcVars, fate>>

Finished == rpc = "returned" /\ \A w \in Workers : wpc[w] = "exited"

\* Everything has ended; lets TLC tell this state from a deadlock.
Terminated == Finished /\ UNCHANGED vars

-----------------------------------------------------------------------------
Run ==
  \/ RunReceive
  \/ RunDiscard
  \/ \E k \in 0..MaxBatch : CollectBatch(k)
  \/ CollectTimeout
  \/ \E k \in 0..(MaxBatch - 1) : CollectError(k)
  \/ CollectEOF
  \/ SendWork
  \/ RejoinQueue
  \/ CloseNext
  \/ RunReturn

Loop(w) == Publish(w) \/ TakeWork(w) \/ HandlerReturns(w) \/ Exit(w)

Next == Run \/ (\E w \in Workers : Loop(w)) \/ Terminated

Spec == Init /\ [][Next]_vars

\* Every goroutine that can run is eventually scheduled, every handler call
\* returns, and the source does not time out (or come back empty) for ever.
SourceProgress == (\E k \in 1..MaxBatch : CollectBatch(k)) \/ CollectEOF

RunFairness ==
  /\ WF_vars(RunReceive)
  /\ SF_vars(SourceProgress)
  /\ WF_vars(SendWork)
  /\ WF_vars(RejoinQueue)
  /\ WF_vars(CloseNext)
  /\ WF_vars(RunReturn)

FairSpec == Spec /\ RunFairness /\ \A w \in Workers : WF_vars(Loop(w))

-----------------------------------------------------------------------------
(* Properties.                                                             *)

\* No goroutine ever blocks on, or panics in, a channel operation that the
\* code performs without a select.  When worker.work sends on workReady, the
\* slot is empty and the channel open; when a worker (worker.loop) or Run
\* (worker.work) sends on readyQ there is room; when Run closes the worker it
\* received (Pool.Run, worker.close), that channel has not been closed before
\* and holds no unprocessed batch.
ChannelSafety ==
  /\ rpc \in {"collect", "work"} =>
       /\ cur \in Workers
       /\ workReady[cur] = 0
       /\ ~closed[cur]
       /\ Len(readyQ) < numWorkers
  /\ readyQ # <<>> => ~closed[Head(readyQ)] /\ workReady[Head(readyQ)] = 0
  /\ \A w \in Workers : wpc[w] = "publish" => Len(readyQ) < numWorkers

\* A batch that has been handed to a worker (worker.work) is not modified
\* until its handler returns: worker.buf says the buffer "must not be
\* modified" from then on, and only the channel protocol enforces it.
BufferStable ==
  [][\A w \in Workers :
       (workReady[w] = 1 \/ wpc[w] = "handle") => pb'[w] = pb[w]]_vars

\* A packet read by Pool.Run is either discarded for good or goes through one
\* buffer to one handler call, once; it never comes back.
PacketFate ==
  [][\A p \in Packets :
       fate'[p] # fate[p] =>
         \/ fate[p] = "unread" /\ fate'[p] \in {"buffered", "discarded"}
         \/ fate[p] = "buffered" /\ fate'[p] = "handled"]_vars

\* Pool.Stats: PacketsCaptured counts exactly the packets put into a worker's
\* buffer, PacketsDropped exactly those discarded for lack of an idle worker,
\* and together they account for everything read from the source.
StatsExact ==
  /\ captured = Cardinality({p \in Packets : fate[p] \in {"buffered", "handled"}})
  /\ dropped = Cardinality({p \in Packets : fate[p] = "discarded"})
  /\ captured + dropped = src

\* Run does not return (and main does not exit) with captured packets still
\* waiting for a handler, nor while a handler runs: Run has received every
\* worker from readyQ, so every batch has been processed.
Drained ==
  rpc = "returned" =>
    /\ \A p \in Packets : fate[p] \in {"handled", "discarded"}
    /\ \A w \in Workers : wpc[w] \in {"wait", "exited"} /\ closed[w]

\* At the end of the input Run returns and every worker goroutine ends
\* ("shuts them down at the end of input", decode/pool_test.go).
Shutdown == src = NumPackets ~> Finished

\* The same as long as CollectPackets has not failed: timeouts, empty batches,
\* discards and slow handlers never keep Run from ending.
CleanShutdown == src = NumPackets ~> (Finished \/ readErrors > 0)

=============================================================================

-------------------------- MODULE DecodePoolProofs --------------------------
(***************************************************************************)
(* Proofs about the decode pool, for any set of workers, any number of     *)
(* packets, any batch size and any number of read errors.                  *)
(*                                                                         *)
(* The properties of DecodePool are not inductive.  What makes them true   *)
(* is who owns a worker's buffer: Ownership says that a worker is at any   *)
(* time in exactly one of the hands readyQ, Run, its own goroutine, or     *)
(* (after a read error) nobody's, and that the channel workReady and the   *)
(* worker's program counter agree with it.                                 *)
(***************************************************************************)
EXTENDS DecodePool, FiniteSetTheorems, SequenceTheorems, TLAPS

\* No worker is on readyQ twice.
ReadyDistinct ==
  \A i, j \in 1..Len(readyQ) : readyQ[i] = readyQ[j] => i = j

\* Run may collect into w, send to it or close it.
Idle(w) == wpc[w] = "wait" /\ workReady[w] = 0 /\ ~closed[w]

\* A worker on readyQ is idle and not the one Run holds.
ReadyIdle ==
  \A i \in 1..Len(readyQ) : Idle(readyQ[i]) /\ readyQ[i] # cur

\* Between receiving a worker and letting go of it Run holds an idle one, and
\* it holds none otherwise.
HeldIdle ==
  /\ rpc \in {"collect", "work"} => cur \in Workers /\ Idle(cur)
  /\ rpc \notin {"collect", "work"} => cur = NoWorker

\* A token is only ever sent to a waiting worker whose channel is open; a
\* closed worker waits or has ended.
WorkerStates ==
  \A w \in Workers :
    /\ workReady[w] = 1 => wpc[w] = "wait" /\ ~closed[w]
    /\ closed[w] => wpc[w] \in {"wait", "exited"}
    /\ wpc[w] = "exited" => closed[w]

Ownership ==
  /\ ReadyDistinct
  /\ ReadyIdle
  /\ HeldIdle
  /\ WorkerStates

-----------------------------------------------------------------------------
(* Lemmas on sequences.                                                    *)

\* Batch returns a sequence of packets when the source can deliver k more.
LEMMA BatchType ==
  ASSUME NEW k \in Nat, src \in Nat, NumPackets \in Nat, src + k <= NumPackets
  PROVE  /\ Batch(k) \in Seq(Packets)
         /\ Len(Batch(k)) = k
         /\ \A i \in 1..k : Batch(k)[i] = src + i
<1>1. Batch(k) \in [1..k -> Packets]
  BY DEF Batch, Packets
<1> QED
  BY <1>1 DEF Batch

\* A queue of distinct workers that lacks one of them has room for it: the
\* capacity numWorkers of readyQ is enough.
LEMMA QueueRoom ==
  ASSUME NEW S, IsFiniteSet(S), NEW q \in Seq(S), NEW x \in S,
         \A i, j \in 1..Len(q) : q[i] = q[j] => i = j,
         \A i \in 1..Len(q) : q[i] # x
  PROVE  Len(q) < Cardinality(S)
<1>1. /\ IsFiniteSet(S \ {x})
      /\ Cardinality(S \ {x}) = Cardinality(S) - 1
  BY FS_RemoveElement
<1>2. q \in Injection(1..Len(q), S \ {x})
  <2>1. q \in [1..Len(q) -> S \ {x}]
    OBVIOUS
  <2> QED BY <2>1 DEF Injection, IsInjective
<1>3. Cardinality(1..Len(q)) <= Cardinality(S \ {x})
  BY <1>1, <1>2, FS_Injection
<1>4. Len(q) \in Nat
  OBVIOUS
<1>5. Cardinality(1..Len(q)) = Len(q)
  <2>1. Cardinality(1..Len(q)) = IF 1 > Len(q) THEN 0 ELSE Len(q) - 1 + 1
    BY <1>4, FS_Interval
  <2> QED BY <1>4, <2>1
<1>6. Cardinality(S) \in Nat
  BY FS_CardinalityType
<1> QED
  BY <1>1, <1>3, <1>4, <1>5, <1>6

-----------------------------------------------------------------------------
(* Ownership is inductive.                                                 *)

\* Collecting a batch keeps the types of what it writes.
LEMMA CollectedType ==
  ASSUME TypeOK, NEW k \in Nat, Collected(k)
  PROVE  /\ pb' \in [Workers -> Seq(Packets)]
         /\ src' \in 0..NumPackets
         /\ captured' \in Nat
         /\ fate' \in [Packets -> {"unread", "buffered", "handled", "discarded"}]
<1>1. Batch(k) \in Seq(Packets)
  BY BatchType, BoundsAssumption DEF TypeOK, Collected
<1>2. pb' \in [Workers -> Seq(Packets)]
  BY <1>1 DEF TypeOK, Collected
<1>3. src' \in 0..NumPackets /\ captured' \in Nat
  BY BoundsAssumption DEF TypeOK, Collected
<1>4. fate' \in [Packets -> {"unread", "buffered", "handled", "discarded"}]
  BY DEF TypeOK, Collected
<1> QED BY <1>2, <1>3, <1>4

\* NewPool establishes the types and the ownership.
LEMMA OwnershipInit == Init => TypeOK /\ Ownership
  BY BoundsAssumption, WorkersAssumption
  DEF Init, TypeOK, Ownership, ReadyDistinct, ReadyIdle, HeldIdle, WorkerStates

\* Receiving from readyQ, a discarded packet, and the loop of CollectPackets.
LEMMA OwnershipRunLoop ==
  ASSUME TypeOK, Ownership,
         RunReceive \/ RunDiscard \/ CollectTimeout \/ RunReturn
  PROVE  TypeOK' /\ Ownership'
<1> USE BoundsAssumption, WorkersAssumption
      DEF TypeOK, Ownership, Idle
<1>1. CASE RunReceive
  <2>1. /\ Head(readyQ) = readyQ[1]
        /\ readyQ' \in Seq(Workers)
        /\ Len(readyQ') = Len(readyQ) - 1
        /\ \A i \in 1..Len(readyQ') : readyQ'[i] = readyQ[i + 1]
        /\ 1 \in 1..Len(readyQ)
    BY <1>1 DEF RunReceive
  <2>2. TypeOK'
    BY <1>1, <2>1 DEF RunReceive, srcVars
  <2>3. ReadyDistinct'
    BY <1>1, <2>1 DEF RunReceive, ReadyDistinct
  <2>4. ReadyIdle'
    BY <1>1, <2>1 DEF RunReceive, ReadyDistinct, ReadyIdle
  <2>5. HeldIdle'
    BY <1>1, <2>1 DEF RunReceive, ReadyIdle, HeldIdle
  <2>6. WorkerStates'
    BY <1>1 DEF RunReceive, WorkerStates
  <2> QED BY <2>2, <2>3, <2>4, <2>5, <2>6
<1>2. CASE RunDiscard
  <2>1. TypeOK'
    BY <1>2 DEF RunDiscard, chanVars, runVars, Packets
  <2> QED
    BY <1>2, <2>1 DEF RunDiscard, chanVars, runVars, ReadyDistinct, ReadyIdle,
                      HeldIdle, WorkerStates
<1>3. CASE CollectTimeout
  BY <1>3 DEF CollectTimeout, chanVars, runVars, srcVars, ReadyDistinct,
              ReadyIdle, HeldIdle, WorkerStates
<1>4. CASE RunReturn
  BY <1>4 DEF RunReturn, chanVars, srcVars, ReadyDistinct,
              ReadyIdle, HeldIdle, WorkerStates
<1> QED BY <1>1, <1>2, <1>3, <1>4

\* The ends of sendToWorker: a batch, an error, the end of the input.
LEMMA OwnershipCollect ==
  ASSUME TypeOK, Ownership, NEW k \in Nat,
         CollectBatch(k) \/ CollectError(k) \/ CollectEOF
  PROVE  TypeOK' /\ Ownership'
<1> USE BoundsAssumption, WorkersAssumption
      DEF Ownership, Idle
<1>1. CASE CollectBatch(k)
  <2>1. TypeOK'
    BY <1>1, CollectedType DEF TypeOK, CollectBatch, chanVars
  <2> QED
    BY <1>1, <2>1 DEF CollectBatch, chanVars, ReadyDistinct, ReadyIdle,
                      HeldIdle, WorkerStates
<1>2. CASE CollectError(k)
  <2>1. TypeOK'
    BY <1>2, CollectedType DEF TypeOK, CollectError, chanVars
  <2>2. ReadyDistinct' /\ ReadyIdle'
    BY <1>2 DEF TypeOK, CollectError, chanVars, ReadyDistinct, ReadyIdle, HeldIdle
  <2>3. HeldIdle' /\ WorkerStates'
    BY <1>2 DEF TypeOK, CollectError, chanVars, HeldIdle, WorkerStates
  <2> QED BY <2>1, <2>2, <2>3
<1>3. CASE CollectEOF
  <2>1. TypeOK'
    <3>1. pb' \in [Workers -> Seq(Packets)]
      <4>1. pb \in [Workers -> Seq(Packets)] /\ <<>> \in Seq(Packets)
        BY DEF TypeOK
      <4>2. pb' = [pb EXCEPT ![cur] = <<>>]
        BY <1>3 DEF CollectEOF
      <4> QED BY <4>1, <4>2
    <3>2. closed' \in [Workers -> BOOLEAN]
      BY <1>3 DEF TypeOK, CollectEOF
    <3> QED BY <1>3, <3>1, <3>2 DEF TypeOK, CollectEOF, srcVars
  <2>2. ReadyDistinct' /\ ReadyIdle'
    <3>1. \A i \in 1..Len(readyQ) : readyQ[i] \in Workers
      BY DEF TypeOK
    <3>2. cur \in Workers
      BY <1>3 DEF CollectEOF, HeldIdle
    <3> QED BY <1>3, <3>1, <3>2 DEF TypeOK, CollectEOF, ReadyDistinct, ReadyIdle
  <2>3. HeldIdle' /\ WorkerStates'
    BY <1>3 DEF TypeOK, CollectEOF, HeldIdle, WorkerStates
  <2> QED BY <2>1, <2>2, <2>3
<1> QED BY <1>1, <1>2, <1>3

\* worker.work on Run's goroutine, and the shutdown loop.
LEMMA OwnershipWork ==
  ASSUME TypeOK, Ownership, SendWork \/ RejoinQueue \/ CloseNext
  PROVE  TypeOK' /\ Ownership'
<1> USE BoundsAssumption, WorkersAssumption
      DEF TypeOK, Ownership, Idle
<1>1. CASE SendWork
  <2>1. TypeOK'
    <3>1. workReady' \in [Workers -> 0..1]
      <4>1. workReady \in [Workers -> 0..1] /\ 1 \in 0..1
        OBVIOUS
      <4>2. workReady' = [workReady EXCEPT ![cur] = 1]
        BY <1>1 DEF SendWork
      <4> QED BY <4>1, <4>2
    <3> QED BY <1>1, <3>1 DEF SendWork, srcVars
  <2>2. ReadyDistinct' /\ ReadyIdle'
    BY <1>1 DEF SendWork, ReadyDistinct, ReadyIdle
  <2>3. HeldIdle' /\ WorkerStates'
    BY <1>1 DEF SendWork, HeldIdle, WorkerStates
  <2> QED BY <2>1, <2>2, <2>3
<1>2. CASE RejoinQueue
  <2>1. /\ cur \in Workers
        /\ readyQ' \in Seq(Workers)
        /\ Len(readyQ') = Len(readyQ) + 1
        /\ \A i \in 1..Len(readyQ) : readyQ'[i] = readyQ[i]
        /\ readyQ'[Len(readyQ) + 1] = cur
    BY <1>2 DEF RejoinQueue, HeldIdle
  <2>2. TypeOK'
    BY <1>2, <2>1 DEF RejoinQueue, srcVars
  <2>3. ReadyDistinct'
    <3>1. \A i \in 1..Len(readyQ) : readyQ[i] # cur
      BY DEF ReadyIdle
    <3>2. \A i \in 1..Len(readyQ') : i \in 1..Len(readyQ) \/ i = Len(readyQ) + 1
      BY <2>1
    <3> QED BY <2>1, <3>1, <3>2 DEF ReadyDistinct
  <2>4. ReadyIdle'
    BY <1>2, <2>1 DEF RejoinQueue, ReadyIdle, HeldIdle
  <2>5. HeldIdle' /\ WorkerStates'
    BY <1>2 DEF RejoinQueue, HeldIdle, WorkerStates
  <2> QED BY <2>2, <2>3, <2>4, <2>5
<1>3. CASE CloseNext
  <2>1. /\ Head(readyQ) = readyQ[1]
        /\ readyQ' \in Seq(Workers)
        /\ Len(readyQ') = Len(readyQ) - 1
        /\ \A i \in 1..Len(readyQ') : readyQ'[i] = readyQ[i + 1]
        /\ 1 \in 1..Len(readyQ)
    BY <1>3 DEF CloseNext
  <2>2. TypeOK'
    BY <1>3, <2>1 DEF CloseNext, srcVars
  <2>3. ReadyDistinct'
    BY <1>3, <2>1 DEF CloseNext, ReadyDistinct
  <2>4. ReadyIdle'
    BY <1>3, <2>1 DEF CloseNext, ReadyDistinct, ReadyIdle
  <2>5. HeldIdle' /\ WorkerStates'
    BY <1>3, <2>1 DEF CloseNext, HeldIdle, WorkerStates, ReadyIdle
  <2> QED BY <2>2, <2>3, <2>4, <2>5
<1> QED BY <1>1, <1>2, <1>3

\* The steps of a worker's goroutine.
LEMMA OwnershipLoop ==
  ASSUME TypeOK, Ownership, NEW w \in Workers, Loop(w)
  PROVE  TypeOK' /\ Ownership'
<1> USE BoundsAssumption, WorkersAssumption
      DEF TypeOK, Ownership, Idle
<1>1. CASE Publish(w)
  <2>1. /\ readyQ' \in Seq(Workers)
        /\ Len(readyQ') = Len(readyQ) + 1
        /\ \A i \in 1..Len(readyQ) : readyQ'[i] = readyQ[i]
        /\ readyQ'[Len(readyQ) + 1] = w
    BY <1>1 DEF Publish
  <2>2. TypeOK'
    BY <1>1, <2>1 DEF Publish, runVars, srcVars
  <2>3. w # cur /\ ~closed[w] /\ workReady[w] = 0
    BY <1>1 DEF Publish, HeldIdle, WorkerStates
  <2>4. ReadyDistinct'
    BY <1>1, <2>1 DEF Publish, ReadyDistinct, ReadyIdle
  <2>5. ReadyIdle'
    BY <1>1, <2>1, <2>3 DEF Publish, runVars, ReadyIdle
  <2>6. HeldIdle' /\ WorkerStates'
    BY <1>1 DEF Publish, runVars, HeldIdle, WorkerStates
  <2> QED BY <2>2, <2>4, <2>5, <2>6
<1>2. CASE TakeWork(w)
  <2>1. TypeOK'
    BY <1>2 DEF TakeWork, runVars, srcVars
  <2>2. ReadyDistinct' /\ ReadyIdle'
    <3>1. \A i \in 1..Len(readyQ) : readyQ[i] \in Workers
      OBVIOUS
    <3>2. ReadyDistinct'
      BY <1>2 DEF TakeWork, ReadyDistinct
    <3>3. \A i \in 1..Len(readyQ) : readyQ[i] # w
      BY <1>2, <3>1 DEF TakeWork, ReadyIdle
    <3>4. \A v \in Workers : v # w =>
            wpc'[v] = wpc[v] /\ workReady'[v] = workReady[v] /\ closed'[v] = closed[v]
      BY <1>2 DEF TakeWork
    <3>5. readyQ' = readyQ /\ cur' = cur
      BY <1>2 DEF TakeWork, runVars
    <3> QED BY <3>1, <3>2, <3>3, <3>4, <3>5 DEF ReadyIdle
  <2>3. HeldIdle' /\ WorkerStates'
    BY <1>2 DEF TakeWork, runVars, HeldIdle, WorkerStates
  <2> QED BY <2>1, <2>2, <2>3
<1>3. CASE HandlerReturns(w)
  <2>1. TypeOK'
    BY <1>3 DEF HandlerReturns, chanVars, runVars, srcVars
  <2>2. readyQ' = readyQ /\ cur' = cur /\ workReady' = workReady /\ closed' = closed
    BY <1>3 DEF HandlerReturns, chanVars, runVars
  <2>3. ReadyDistinct' /\ ReadyIdle'
    <3>1. \A i \in 1..Len(readyQ) : readyQ[i] \in Workers
      OBVIOUS
    <3>2. ReadyDistinct'
      BY <2>2 DEF ReadyDistinct
    <3>3. \A i \in 1..Len(readyQ) : readyQ[i] # w
      BY <1>3, <3>1 DEF HandlerReturns, ReadyIdle
    <3>4. \A v \in Workers : v # w => wpc'[v] = wpc[v]
      BY <1>3 DEF HandlerReturns
    <3> QED BY <2>2, <3>1, <3>2, <3>3, <3>4 DEF ReadyIdle
  <2>4. HeldIdle' /\ WorkerStates'
    BY <1>3 DEF HandlerReturns, chanVars, runVars, HeldIdle, WorkerStates
  <2> QED BY <2>1, <2>3, <2>4
<1>4. CASE Exit(w)
  <2>1. TypeOK'
    BY <1>4 DEF Exit, chanVars, runVars, srcVars
  <2>2. \A i \in 1..Len(readyQ) : readyQ[i] \in Workers /\ readyQ[i] # w
    <3>1. \A i \in 1..Len(readyQ) : readyQ[i] \in Workers
      OBVIOUS
    <3>2. closed[w]
      BY <1>4 DEF Exit
    <3> QED BY <3>1, <3>2 DEF ReadyIdle
  <2>3. ReadyDistinct' /\ ReadyIdle'
    BY <1>4, <2>2 DEF Exit, chanVars, runVars, ReadyDistinct, ReadyIdle
  <2>4. HeldIdle' /\ WorkerStates'
    BY <1>4 DEF Exit, chanVars, runVars, HeldIdle, WorkerStates
  <2> QED BY <2>1, <2>3, <2>4
<1> QED BY <1>1, <1>2, <1>3, <1>4 DEF Loop

\* Every step of the pool keeps the types and the ownership.
LEMMA OwnershipStep ==
  TypeOK /\ Ownership /\ [Next]_vars => TypeOK' /\ Ownership'
<1> SUFFICES ASSUME TypeOK, Ownership, [Next]_vars
             PROVE  TypeOK' /\ Ownership'
  OBVIOUS
<1>1. CASE Run
  <2>1. 0..MaxBatch \subseteq Nat /\ 0..(MaxBatch - 1) \subseteq Nat
    BY BoundsAssumption
  <2> QED
    BY <1>1, <2>1, OwnershipRunLoop, OwnershipCollect, OwnershipWork DEF Run
<1>2. CASE \E w \in Workers : Loop(w)
  BY <1>2, OwnershipLoop
<1>3. CASE UNCHANGED vars
  BY <1>3 DEF vars, TypeOK, Ownership, ReadyDistinct, ReadyIdle, HeldIdle,
              WorkerStates, Idle
<1> QED BY <1>1, <1>2, <1>3 DEF Next, Terminated

\* Ownership holds in every reachable state.
THEOREM OwnershipInvariant == Spec => [](TypeOK /\ Ownership)
  BY OwnershipInit, OwnershipStep, PTL DEF Spec

\* The state of Pool.Run and of the workers stays well-typed: Run never sends
\* to, collects into or closes anything but a worker.
THEOREM TypeCorrect == Spec => []TypeOK
  BY OwnershipInvariant, PTL

\* No channel operation of Pool.Run, worker.work, worker.close or worker.loop
\* that is written without a select can block or panic.
THEOREM ChannelsSafe == Spec => []ChannelSafety
<1>1. TypeOK /\ Ownership => ChannelSafety
  <2> SUFFICES ASSUME TypeOK, Ownership PROVE ChannelSafety
    OBVIOUS
  <2> USE WorkersAssumption DEF TypeOK, Ownership, Idle
  <2>1. ASSUME rpc \in {"collect", "work"}
        PROVE  Len(readyQ) < numWorkers
    <3>1. cur \in Workers /\ \A i \in 1..Len(readyQ) : readyQ[i] # cur
      BY <2>1 DEF HeldIdle, ReadyIdle
    <3> QED BY <3>1, QueueRoom DEF ReadyDistinct, numWorkers
  <2>2. ASSUME NEW w \in Workers, wpc[w] = "publish"
        PROVE  Len(readyQ) < numWorkers
    <3>1. \A i \in 1..Len(readyQ) : readyQ[i] # w
      BY <2>2 DEF ReadyIdle
    <3> QED BY <3>1, QueueRoom DEF ReadyDistinct, numWorkers
  <2>3. ASSUME readyQ # <<>>
        PROVE  ~closed[Head(readyQ)] /\ workReady[Head(readyQ)] = 0
    <3>1. Head(readyQ) = readyQ[1] /\ 1 \in 1..Len(readyQ)
      BY <2>3
    <3> QED BY <3>1 DEF ReadyIdle
  <2> QED BY <2>1, <2>2, <2>3 DEF ChannelSafety, HeldIdle
<1> QED BY <1>1, OwnershipInvariant, PTL

\* The buffer a worker has been told to process is not written until its
\* handler has returned.
THEOREM BuffersStable == Spec => BufferStable
<1>1. TypeOK /\ Ownership /\ [Next]_vars =>
        [\A w \in Workers :
           (workReady[w] = 1 \/ wpc[w] = "handle") => pb'[w] = pb[w]]_vars
  <2> SUFFICES ASSUME TypeOK, Ownership, Next, NEW w \in Workers,
                      workReady[w] = 1 \/ wpc[w] = "handle"
               PROVE  pb'[w] = pb[w]
    OBVIOUS
  <2>1. ASSUME rpc = "collect" PROVE w # cur
    BY <2>1 DEF Ownership, HeldIdle, Idle
  <2>2. ASSUME NEW k \in Nat, Collected(k), rpc = "collect" PROVE pb'[w] = pb[w]
    BY <2>1, <2>2 DEF Collected, TypeOK
  <2>3. CASE Run
    BY <2>1, <2>2, <2>3, BoundsAssumption
    DEF Run, RunReceive, RunDiscard, CollectBatch, CollectTimeout, CollectError,
        CollectEOF, SendWork, RejoinQueue, CloseNext, RunReturn, TypeOK
  <2>4. CASE \E v \in Workers : Loop(v)
    BY <2>4 DEF Loop, Publish, TakeWork, HandlerReturns, Exit
  <2>5. CASE Terminated
    BY <2>5 DEF Terminated, vars
  <2> QED BY <2>3, <2>4, <2>5 DEF Next
<1> QED BY <1>1, OwnershipInvariant, PTL DEF Spec, BufferStable

-----------------------------------------------------------------------------
(* What becomes of the packets.                                            *)

\* The source is read in order.
ReadInOrder == \A p \in Packets : fate[p] = "unread" <=> p > src

\* What lies in a buffer has been captured.
InBuffer ==
  \A w \in Workers : \A i \in 1..Len(pb[w]) : fate[pb[w][i]] \in {"buffered", "handled"}

\* The goroutine of w owns the buffer or is done with it: nothing in it waits
\* for a handler.
Recycled ==
  \A w \in Workers :
    (\/ wpc[w] \in {"publish", "handle"}
     \/ closed[w]
     \/ rpc = "collect" /\ cur = w
     \/ InReadyQ(w))
    => \A i \in 1..Len(pb[w]) : fate[pb[w][i]] = "handled"

\* A packet that waits for a handler lies in some worker's buffer.
Buffered ==
  \A p \in Packets :
    fate[p] = "buffered" => \E w \in Workers : \E i \in 1..Len(pb[w]) : pb[w][i] = p

\* Run starts to close workers at the end of the input, counts the ones it
\* has closed, and returns when it has closed all.
Closing ==
  /\ rpc \in {"closing", "returned"} => src = NumPackets
  /\ rpc \notin {"closing", "returned"} => \A w \in Workers : ~closed[w]
  /\ nClosed = Cardinality({w \in Workers : closed[w]})
  /\ rpc = "returned" => nClosed >= numWorkers

Accounting ==
  /\ ReadInOrder
  /\ InBuffer
  /\ Recycled
  /\ Buffered
  /\ Closing

IInv == TypeOK /\ Ownership /\ Accounting

\* At the start nothing has been read.
LEMMA AccountingInit == Init => Accounting
<1> SUFFICES ASSUME Init PROVE Accounting
  OBVIOUS
<1>1. ReadInOrder
  BY BoundsAssumption DEF Init, ReadInOrder, Packets
<1>2. InBuffer /\ Recycled /\ Buffered
  BY DEF Init, InBuffer, Recycled, Buffered
<1>3. Closing
  <2>1. {w \in Workers : closed[w]} = {}
    BY DEF Init
  <2> QED BY <2>1, FS_EmptySet DEF Init, Closing
<1> QED BY <1>1, <1>2, <1>3 DEF Accounting

\* Putting the next k packets into the held worker's buffer: what was in it
\* had been handled, so no packet is lost.
LEMMA AccountingCollected ==
  ASSUME IInv, NEW k \in Nat, Collected(k), rpc = "collect",
         UNCHANGED <<closed, wpc, readyQ, nClosed>>,
         rpc' \notin {"collect", "closing", "returned"}
  PROVE  Accounting'
<1> USE BoundsAssumption DEF IInv, Accounting
<1>1. /\ src \in Nat /\ NumPackets \in Nat /\ src + k <= NumPackets
      /\ cur \in Workers
      /\ pb \in [Workers -> Seq(Packets)]
      /\ readyQ \in Seq(Workers)
  BY DEF TypeOK, Collected, Ownership, HeldIdle
<1>2. /\ pb'[cur] = Batch(k)
      /\ \A w \in Workers : w # cur => pb'[w] = pb[w]
      /\ src' = src + k
  BY <1>1 DEF Collected
<1>3. \A p \in Packets :
        fate'[p] = IF p \in (src + 1)..(src + k) THEN "buffered" ELSE fate[p]
  BY DEF Collected
<1>4. /\ Len(Batch(k)) = k
      /\ \A i \in 1..k : Batch(k)[i] = src + i
      /\ Batch(k) \in Seq(Packets)
  BY <1>1, BatchType
<1>5. \A w \in Workers : \A i \in 1..Len(pb[w]) :
        /\ pb[w][i] \in Packets
        /\ pb[w][i] \notin (src + 1)..(src + k)
  <2> SUFFICES ASSUME NEW w \in Workers, NEW i \in 1..Len(pb[w])
               PROVE  pb[w][i] \in Packets /\ pb[w][i] \notin (src + 1)..(src + k)
    OBVIOUS
  <2>1. pb[w][i] \in Packets
    BY <1>1
  <2>2. ~(pb[w][i] > src)
    BY <2>1 DEF InBuffer, ReadInOrder
  <2> QED BY <1>1, <2>1, <2>2 DEF Packets
<1>6. ReadInOrder'
  <2> SUFFICES ASSUME NEW p \in Packets
               PROVE  fate'[p] = "unread" <=> p > src + k
    BY <1>2 DEF ReadInOrder
  <2>1. p \in Nat
    BY DEF Packets
  <2>2. fate[p] = "unread" <=> p > src
    BY DEF ReadInOrder
  <2>3. CASE p \in (src + 1)..(src + k)
    BY <1>1, <1>3, <2>1, <2>3
  <2>4. CASE p \notin (src + 1)..(src + k)
    BY <1>1, <1>3, <2>1, <2>2, <2>4
  <2> QED BY <2>3, <2>4
<1>7. InBuffer'
  <2> SUFFICES ASSUME NEW w \in Workers, NEW i \in 1..Len(pb'[w])
               PROVE  fate'[pb'[w][i]] \in {"buffered", "handled"}
    BY DEF InBuffer
  <2>1. CASE w = cur
    <3>1. i \in 1..k /\ pb'[w][i] = src + i
      BY <1>2, <1>4, <2>1
    <3>2. pb'[w][i] \in Packets /\ pb'[w][i] \in (src + 1)..(src + k)
      BY <1>1, <3>1 DEF Packets
    <3> QED BY <1>3, <3>2
  <2>2. CASE w # cur
    <3>1. pb'[w] = pb[w]
      BY <1>2, <2>2
    <3> QED BY <1>3, <1>5, <3>1 DEF InBuffer
  <2> QED BY <2>1, <2>2
<1>8. Recycled'
  <2> SUFFICES ASSUME NEW w \in Workers,
                      wpc[w] \in {"publish", "handle"} \/ closed[w] \/ InReadyQ(w),
                      NEW i \in 1..Len(pb'[w])
               PROVE  fate'[pb'[w][i]] = "handled"
    BY DEF Recycled, InReadyQ
  <2>1. w # cur
    BY DEF Ownership, ReadyIdle, HeldIdle, Idle, InReadyQ
  <2>2. pb'[w] = pb[w]
    BY <1>2, <2>1
  <2>3. fate[pb[w][i]] = "handled"
    BY <2>2 DEF Recycled
  <2> QED BY <1>3, <1>5, <2>2, <2>3
<1>9. Buffered'
  <2> SUFFICES ASSUME NEW p \in Packets, fate'[p] = "buffered"
               PROVE  \E w \in Workers : \E i \in 1..Len(pb'[w]) : pb'[w][i] = p
    BY DEF Buffered
  <2>1. CASE p \in (src + 1)..(src + k)
    <3>1. p - src \in 1..Len(pb'[cur]) /\ pb'[cur][p - src] = p
      BY <1>1, <1>2, <1>4, <2>1
    <3> QED BY <1>1, <3>1
  <2>2. CASE p \notin (src + 1)..(src + k)
    <3>1. fate[p] = "buffered"
      BY <1>3, <2>2
    <3>2. PICK w \in Workers : \E i \in 1..Len(pb[w]) : pb[w][i] = p
      BY <3>1 DEF Buffered
    <3>3. w # cur
      BY <3>1, <3>2 DEF Recycled
    <3> QED BY <1>2, <3>2, <3>3
  <2> QED BY <2>1, <2>2
<1>10. Closing'
  <2>1. closed' = closed /\ nClosed' = nClosed
    OBVIOUS
  <2> QED BY <2>1 DEF Closing
<1> QED BY <1>6, <1>7, <1>8, <1>9, <1>10

\* Steps that leave the packets and the closed workers alone only move a
\* worker between hands that have the same claim on its buffer.
LEMMA AccountingStill ==
  ASSUME IInv, UNCHANGED <<src, pb, fate, closed, nClosed>>,
         rpc' = rpc \/ (rpc \notin {"closing", "returned"} /\
                        rpc' \notin {"closing", "returned"}),
         \A w \in Workers :
           (\/ wpc'[w] \in {"publish", "handle"}
            \/ rpc' = "collect" /\ cur' = w
            \/ InReadyQ(w)')
           => \/ wpc[w] \in {"publish", "handle"}
              \/ rpc = "collect" /\ cur = w
              \/ InReadyQ(w)
              \/ pb[w] = <<>>
  PROVE  Accounting'
<1> USE DEF IInv, Accounting
<1>1. ReadInOrder' /\ InBuffer' /\ Buffered'
  BY DEF ReadInOrder, InBuffer, Buffered
<1>2. Recycled'
  <2> SUFFICES ASSUME NEW w \in Workers,
                      \/ wpc'[w] \in {"publish", "handle"}
                      \/ closed'[w]
                      \/ rpc' = "collect" /\ cur' = w
                      \/ InReadyQ(w)',
                      NEW i \in 1..Len(pb[w])
               PROVE  fate[pb[w][i]] = "handled"
    BY DEF Recycled
  <2>1. pb[w] # <<>>
    OBVIOUS
  <2> QED BY <2>1 DEF Recycled
<1>3. Closing'
  BY DEF Closing
<1> QED BY <1>1, <1>2, <1>3

\* The steps of Run.
LEMMA AccountingRun == ASSUME IInv, Run PROVE Accounting'
<1> USE BoundsAssumption, WorkersAssumption DEF IInv
<1>0. /\ readyQ \in Seq(Workers)
      /\ readyQ # <<>> => /\ Head(readyQ) = readyQ[1]
                          /\ 1 \in 1..Len(readyQ)
                          /\ Head(readyQ) \in Workers
                          /\ Len(Tail(readyQ)) = Len(readyQ) - 1
                          /\ \A i \in 1..Len(Tail(readyQ)) : Tail(readyQ)[i] = readyQ[i + 1]
  BY DEF TypeOK
<1>1. CASE RunReceive
  <2>1. \A w \in Workers : InReadyQ(w)' => InReadyQ(w)
    BY <1>0, <1>1 DEF RunReceive, InReadyQ
  <2>2. InReadyQ(cur')
    BY <1>0, <1>1 DEF RunReceive, InReadyQ
  <2> QED
    BY <1>1, <2>1, <2>2, AccountingStill DEF RunReceive, srcVars
<1>2. CASE RunDiscard
  <2> USE DEF Accounting
  <2>1. /\ \A p \in Packets : fate'[p] = IF p = src + 1 THEN "discarded" ELSE fate[p]
        /\ src' = src + 1
        /\ src + 1 \in Packets
        /\ fate[src + 1] = "unread"
        /\ src \in Nat
    BY <1>2 DEF RunDiscard, TypeOK, ReadInOrder, Packets
  <2>2. ReadInOrder'
    BY <2>1 DEF ReadInOrder, Packets
  <2>3. \A w \in Workers : \A i \in 1..Len(pb[w]) :
          pb[w][i] \in Packets /\ pb[w][i] # src + 1
    <3>1. \A w \in Workers : pb[w] \in Seq(Packets)
      BY DEF TypeOK
    <3> QED BY <2>1, <3>1 DEF InBuffer
  <2>4. pb' = pb
    BY <1>2 DEF RunDiscard
  <2>5. InBuffer'
    BY <2>1, <2>3, <2>4 DEF InBuffer
  <2>6. Recycled'
    BY <1>2, <2>1, <2>3, <2>4
    DEF Recycled, RunDiscard, chanVars, runVars, InReadyQ
  <2>7. Buffered'
    BY <2>1, <2>4 DEF Buffered
  <2>8. Closing'
    BY <1>2 DEF Closing, RunDiscard, chanVars, runVars
  <2> QED BY <2>2, <2>5, <2>6, <2>7, <2>8
<1>3. ASSUME NEW k \in 0..MaxBatch, CollectBatch(k) PROVE Accounting'
  BY <1>3, AccountingCollected DEF CollectBatch, chanVars
<1>4. ASSUME NEW k \in 0..(MaxBatch - 1), CollectError(k) PROVE Accounting'
  BY <1>4, AccountingCollected DEF CollectError, chanVars
<1>5. ASSUME CollectTimeout \/ CollectEOF PROVE Accounting'
  <2> USE DEF Accounting
  <2>1. /\ cur \in Workers
        /\ rpc = "collect"
        /\ pb'[cur] = <<>>
        /\ \A w \in Workers : w # cur => pb'[w] = pb[w]
        /\ UNCHANGED <<readyQ, wpc, src, fate>>
    BY <1>5 DEF CollectTimeout, CollectEOF, Ownership, HeldIdle, TypeOK,
                chanVars, runVars, srcVars
  <2>2. \A w \in Workers : w # cur => (closed'[w] <=> closed[w])
    BY <1>5 DEF CollectTimeout, CollectEOF, chanVars, TypeOK
  <2>3. ReadInOrder'
    BY <2>1 DEF ReadInOrder
  <2>4. InBuffer'
    BY <2>1 DEF InBuffer
  <2>5. Recycled'
    <3>1. \A w \in Workers : rpc' = "collect" /\ cur' = w => w = cur
      BY <1>5 DEF CollectTimeout, CollectEOF, runVars
    <3> QED BY <2>1, <2>2, <3>1 DEF Recycled, InReadyQ
  <2>6. Buffered'
    <3> SUFFICES ASSUME NEW p \in Packets, fate[p] = "buffered"
                 PROVE  \E w \in Workers : \E i \in 1..Len(pb'[w]) : pb'[w][i] = p
      BY <2>1 DEF Buffered
    <3>1. PICK w \in Workers : \E i \in 1..Len(pb[w]) : pb[w][i] = p
      BY DEF Buffered
    <3>2. w # cur
      BY <2>1, <3>1 DEF Recycled
    <3> QED BY <2>1, <3>1, <3>2
  <2>7. CASE CollectTimeout
    <3>1. Closing'
      BY <2>7 DEF Closing, CollectTimeout, chanVars, runVars, srcVars
    <3> QED BY <2>3, <2>4, <2>5, <2>6, <3>1
  <2>8. CASE CollectEOF
    <3>1. {w \in Workers : closed'[w]} = {cur}
      BY <2>1, <2>8 DEF Closing, CollectEOF, TypeOK
    <3>2. Cardinality({cur}) = 1
      BY FS_Singleton
    <3>3. Closing'
      BY <2>8, <3>1, <3>2 DEF Closing, CollectEOF, srcVars
    <3> QED BY <2>3, <2>4, <2>5, <2>6, <3>3
  <2> QED BY <1>5, <2>7, <2>8
<1>6. CASE SendWork
  BY <1>6, AccountingStill DEF SendWork, srcVars, InReadyQ
<1>7. CASE RejoinQueue
  <2>1. cur \in Workers /\ pb[cur] = <<>>
    BY <1>7 DEF RejoinQueue, Ownership, HeldIdle
  <2>2. \A w \in Workers : InReadyQ(w)' => InReadyQ(w) \/ w = cur
    BY <1>0, <1>7, <2>1 DEF RejoinQueue, InReadyQ
  <2> QED
    BY <1>7, <2>1, <2>2, AccountingStill DEF RejoinQueue, srcVars
<1>8. CASE CloseNext
  <2> USE DEF Accounting
  <2> DEFINE v == Head(readyQ)
  <2>1. /\ v \in Workers
        /\ InReadyQ(v)
        /\ ~closed[v]
        /\ closed' = [closed EXCEPT ![v] = TRUE]
        /\ rpc = "closing" /\ rpc' = "closing"
        /\ UNCHANGED <<pb, wpc, src, fate, cur>>
        /\ nClosed' = nClosed + 1
    BY <1>0, <1>8 DEF CloseNext, srcVars, InReadyQ, Ownership, ReadyIdle, Idle
  <2>2. \A w \in Workers : InReadyQ(w)' => InReadyQ(w)
    BY <1>0, <1>8 DEF CloseNext, InReadyQ
  <2> HIDE DEF v
  <2>3. ReadInOrder' /\ InBuffer' /\ Buffered'
    BY <2>1 DEF ReadInOrder, InBuffer, Buffered
  <2>4. \A w \in Workers : closed'[w] => closed[w] \/ w = v
    BY <2>1 DEF TypeOK
  <2>5. Recycled'
    BY <2>1, <2>2, <2>4 DEF Recycled
  <2>6. Closing'
    <3>1. {w \in Workers : closed'[w]} = {w \in Workers : closed[w]} \cup {v}
      BY <2>1 DEF TypeOK
    <3>2. IsFiniteSet({w \in Workers : closed[w]})
      BY FS_Subset
    <3>3. v \notin {w \in Workers : closed[w]}
      BY <2>1
    <3>4. Cardinality({w \in Workers : closed'[w]})
            = Cardinality({w \in Workers : closed[w]}) + 1
      BY <3>1, <3>2, <3>3, FS_AddElement
    <3> QED BY <2>1, <3>4 DEF Closing
  <2> QED BY <2>3, <2>5, <2>6
<1>9. CASE RunReturn
  <2>1. ReadInOrder' /\ InBuffer' /\ Buffered' /\ Recycled'
    BY <1>9 DEF Accounting, RunReturn, chanVars, srcVars, ReadInOrder, InBuffer,
                Buffered, Recycled, InReadyQ
  <2>2. Closing'
    BY <1>9 DEF Accounting, RunReturn, chanVars, srcVars, Closing
  <2> QED BY <2>1, <2>2 DEF Accounting
<1> QED BY <1>1, <1>2, <1>3, <1>4, <1>5, <1>6, <1>7, <1>8, <1>9 DEF Run

\* The steps of a worker.
LEMMA AccountingLoop ==
  ASSUME IInv, NEW w \in Workers, Loop(w) PROVE Accounting'
<1> USE DEF IInv
<1>1. CASE Publish(w)
  <2>1. \A v \in Workers : InReadyQ(v)' => InReadyQ(v) \/ v = w
    BY <1>1 DEF Publish, InReadyQ, TypeOK
  <2> QED
    BY <1>1, <2>1, AccountingStill DEF Publish, srcVars, runVars, TypeOK
<1>2. CASE TakeWork(w)
  <2> USE DEF Accounting
  <2>1. \A p \in Packets :
          fate'[p] = IF \E i \in 1..Len(pb[w]) : pb[w][i] = p
                     THEN "handled" ELSE fate[p]
    BY <1>2 DEF TakeWork
  <2>2. \A p \in Packets : fate'[p] # fate[p] =>
          fate[p] = "buffered" /\ fate'[p] = "handled"
    BY <2>1 DEF InBuffer
  <2>3. \A v \in Workers : \A i \in 1..Len(pb[v]) : pb[v][i] \in Packets
    BY DEF TypeOK
  <2>4. UNCHANGED <<pb, src, closed, readyQ, rpc, cur, nClosed>>
    BY <1>2 DEF TakeWork, runVars, srcVars
  <2>5. ReadInOrder'
    BY <2>2, <2>4 DEF ReadInOrder
  <2>6. InBuffer'
    BY <2>2, <2>3, <2>4 DEF InBuffer
  <2>7. Recycled'
    <3>1. \A v \in Workers : v # w => wpc'[v] = wpc[v]
      BY <1>2 DEF TakeWork, TypeOK
    <3>2. \A i \in 1..Len(pb[w]) : fate'[pb[w][i]] = "handled"
      BY <2>1, <2>3
    <3> QED BY <2>2, <2>3, <2>4, <3>1, <3>2 DEF Recycled, InReadyQ
  <2>8. Buffered'
    BY <2>2, <2>4 DEF Buffered
  <2>9. Closing'
    BY <2>4 DEF Closing
  <2> QED BY <2>5, <2>6, <2>7, <2>8, <2>9
<1>3. CASE HandlerReturns(w)
  BY <1>3, AccountingStill
  DEF HandlerReturns, chanVars, runVars, srcVars, TypeOK, InReadyQ
<1>4. CASE Exit(w)
  BY <1>4, AccountingStill
  DEF Exit, chanVars, runVars, srcVars, TypeOK, InReadyQ
<1> QED BY <1>1, <1>2, <1>3, <1>4 DEF Loop

\* IInv is inductive.
LEMMA IInvStep == IInv /\ [Next]_vars => IInv'
<1> SUFFICES ASSUME IInv, [Next]_vars PROVE IInv'
  OBVIOUS
<1>1. TypeOK' /\ Ownership'
  BY OwnershipStep DEF IInv
<1>2. CASE Run
  BY <1>1, <1>2, AccountingRun DEF IInv
<1>3. CASE \E w \in Workers : Loop(w)
  BY <1>1, <1>3, AccountingLoop DEF IInv
<1>4. CASE UNCHANGED vars
  BY <1>1, <1>4
  DEF IInv, vars, Accounting, ReadInOrder, InBuffer, Recycled, Buffered,
      Closing, InReadyQ
<1> QED BY <1>2, <1>3, <1>4 DEF Next, Terminated

(* Who owns each worker (Ownership) and where each packet is (Accounting),   *)
(* together, hold in every state of Pool.Run and its workers.               *)
THEOREM IInvInvariant == Spec => []IInv
  BY OwnershipInit, AccountingInit, IInvStep, PTL DEF Spec, IInv

\* When Pool.Run returns, every packet that was captured has been through a
\* handler and every worker has been told to stop, whatever read errors
\* happened on the way.
THEOREM RunDrains == Spec => []Drained
<1>1. IInv => Drained
  <2> SUFFICES ASSUME IInv, rpc = "returned" PROVE
        /\ \A p \in Packets : fate[p] \in {"handled", "discarded"}
        /\ \A w \in Workers : wpc[w] \in {"wait", "exited"} /\ closed[w]
    BY DEF Drained
  <2> USE DEF IInv, Accounting
  <2>1. \A w \in Workers : closed[w]
    <3> DEFINE C == {w \in Workers : closed[w]}
    <3>1. Cardinality(C) <= Cardinality(Workers) /\ IsFiniteSet(C)
      BY FS_Subset, WorkersAssumption
    <3>2. Cardinality(C) >= Cardinality(Workers)
      BY DEF Closing, numWorkers
    <3>3. Cardinality(C) \in Nat /\ Cardinality(Workers) \in Nat
      BY <3>1, FS_CardinalityType, WorkersAssumption
    <3>4. Cardinality(Workers) = Cardinality(C)
      BY <3>1, <3>2, <3>3
    <3>5. C \in SUBSET Workers
      OBVIOUS
    <3>6. Workers = C
      BY <3>4, <3>5, FS_Subset, WorkersAssumption
    <3> QED BY <3>6
  <2>2. ASSUME NEW p \in Packets PROVE fate[p] \in {"handled", "discarded"}
    <3>1. fate[p] # "unread"
      BY BoundsAssumption DEF Closing, ReadInOrder, Packets
    <3>2. fate[p] # "buffered"
      BY <2>1 DEF Buffered, Recycled
    <3> QED BY <3>1, <3>2 DEF TypeOK
  <2> QED BY <2>1, <2>2 DEF Ownership, WorkerStates
<1> QED BY <1>1, IInvInvariant, PTL

\* A packet is captured into one buffer and handled once, or discarded once:
\* its fate is never revised.
THEOREM FateIsFinal == Spec => PacketFate
<1> DEFINE Advance ==
      \A p \in Packets :
        fate'[p] # fate[p] =>
          \/ fate[p] = "unread" /\ fate'[p] \in {"buffered", "discarded"}
          \/ fate[p] = "buffered" /\ fate'[p] = "handled"
<1>1. IInv /\ [Next]_vars => [Advance]_vars
  <2> SUFFICES ASSUME IInv, Next PROVE Advance
    OBVIOUS
  <2> USE BoundsAssumption DEF IInv, Accounting
  <2>1. ASSUME NEW k \in Nat, Collected(k) PROVE Advance
    BY <2>1 DEF Collected, ReadInOrder, Packets, TypeOK
  <2>2. CASE RunDiscard
    BY <2>2 DEF RunDiscard, ReadInOrder, Packets, TypeOK
  <2>3. CASE Run
    BY <2>1, <2>2, <2>3
    DEF Run, RunReceive, CollectBatch, CollectTimeout, CollectError,
        CollectEOF, SendWork, RejoinQueue, CloseNext, RunReturn
  <2>4. ASSUME NEW w \in Workers, Loop(w) PROVE Advance
    BY <2>4 DEF Loop, Publish, TakeWork, HandlerReturns, Exit, InBuffer
  <2>5. CASE Terminated
    BY <2>5 DEF Terminated, vars
  <2> QED BY <2>3, <2>4, <2>5 DEF Next
<1> QED BY <1>1, IInvInvariant, PTL DEF Spec, PacketFate

-----------------------------------------------------------------------------
(* The counters of Pool.Stats.                                             *)

Captured  == {p \in Packets : fate[p] \in {"buffered", "handled"}}
Discarded == {p \in Packets : fate[p] = "discarded"}

\* Counting the packets of one call of CollectPackets: they were unread, so
\* none of them is counted twice.
LEMMA StatsCollected ==
  ASSUME IInv, StatsExact, NEW k \in Nat, Collected(k), dropped' = dropped
  PROVE  StatsExact'
<1> USE BoundsAssumption DEF IInv, Accounting
<1> DEFINE New == (src + 1)..(src + k)
<1>1. /\ src \in Nat /\ captured \in Nat /\ dropped \in Nat
      /\ NumPackets \in Nat /\ src + k <= NumPackets
      /\ src' = src + k /\ captured' = captured + k
  BY DEF TypeOK, Collected
<1>2. \A p \in Packets : fate'[p] = IF p \in New THEN "buffered" ELSE fate[p]
  BY DEF Collected
<1>3. \A p \in New : p \in Packets /\ fate[p] = "unread"
  BY <1>1 DEF ReadInOrder, Packets
<1>4. IsFiniteSet(New) /\ Cardinality(New) = k
  BY <1>1, FS_Interval
<1>5. IsFiniteSet(Packets)
  BY FS_Interval DEF Packets
<1> HIDE DEF New
<1>6. Captured' = Captured \cup New
  BY <1>2, <1>3 DEF Captured
<1>7. Captured \cap New = {}
  BY <1>3 DEF Captured
<1>8. IsFiniteSet(Captured) /\ Cardinality(Captured) = captured
  BY <1>5, FS_Subset DEF Captured, StatsExact
<1>9. Cardinality(Captured') = captured + k
  <2>1. Cardinality(Captured \cup New)
          = Cardinality(Captured) + Cardinality(New) - Cardinality(Captured \cap New)
    BY <1>4, <1>8, FS_Union
  <2>2. Cardinality(Captured \cap New) = 0
    BY <1>7, FS_EmptySet
  <2> QED BY <1>1, <1>4, <1>6, <1>8, <2>1, <2>2
<1>10. Discarded' = Discarded
  BY <1>2, <1>3 DEF Discarded
<1> QED BY <1>1, <1>9, <1>10 DEF StatsExact, Captured, Discarded

\* A discarded packet was unread.
LEMMA StatsDiscard == ASSUME IInv, StatsExact, RunDiscard PROVE StatsExact'
<1> USE BoundsAssumption DEF IInv, Accounting
<1>1. /\ src \in Nat /\ captured \in Nat /\ dropped \in Nat
      /\ src' = src + 1 /\ captured' = captured /\ dropped' = dropped + 1
      /\ src + 1 \in Packets /\ fate[src + 1] = "unread"
      /\ \A p \in Packets : fate'[p] = IF p = src + 1 THEN "discarded" ELSE fate[p]
  BY DEF TypeOK, RunDiscard, Packets, ReadInOrder
<1>2. IsFiniteSet(Packets)
  BY FS_Interval DEF Packets
<1>3. Captured' = Captured
  BY <1>1 DEF Captured
<1>4. Discarded' = Discarded \cup {src + 1} /\ src + 1 \notin Discarded
  BY <1>1 DEF Discarded
<1>5. IsFiniteSet(Discarded) /\ Cardinality(Discarded) = dropped
  BY <1>2, FS_Subset DEF Discarded, StatsExact
<1>6. Cardinality(Discarded') = dropped + 1
  BY <1>4, <1>5, FS_AddElement
<1> QED BY <1>1, <1>3, <1>6 DEF StatsExact, Captured, Discarded

\* PacketsCaptured and PacketsDropped of Pool.Stats are exact in every state:
\* the first counts the packets written to a worker's buffer, the second those
\* discarded, and their sum is what has been read, also after read errors.
THEOREM StatsAreExact == Spec => []StatsExact
<1>1. Init => StatsExact
  <2> SUFFICES ASSUME Init PROVE StatsExact
    OBVIOUS
  <2>1. Captured = {} /\ Discarded = {}
    BY DEF Init, Captured, Discarded
  <2>2. /\ captured = Cardinality(Captured)
        /\ dropped = Cardinality(Discarded)
        /\ captured + dropped = src
    BY <2>1, FS_EmptySet DEF Init
  <2> QED BY <2>2 DEF StatsExact, Captured, Discarded
<1>2. IInv /\ StatsExact /\ [Next]_vars => StatsExact'
  <2> SUFFICES ASSUME IInv, StatsExact, [Next]_vars PROVE StatsExact'
    OBVIOUS
  <2>1. ASSUME UNCHANGED <<src, captured, dropped>>,
               \A p \in Packets : fate'[p] = fate[p] \/
                 (fate[p] \in {"buffered", "handled"} /\ fate'[p] \in {"buffered", "handled"})
        PROVE  StatsExact'
    <3>1. Captured' = Captured /\ Discarded' = Discarded
      BY <2>1 DEF Captured, Discarded
    <3> QED BY <2>1, <3>1 DEF StatsExact, Captured, Discarded
  <2>2. ASSUME UNCHANGED <<src, captured, dropped, fate>> PROVE StatsExact'
    BY <2>1, <2>2
  <2>3. CASE RunDiscard
    BY <2>3, StatsDiscard
  <2>4. ASSUME NEW k \in 0..MaxBatch, CollectBatch(k) PROVE StatsExact'
    BY <2>4, StatsCollected, BoundsAssumption DEF CollectBatch
  <2>5. ASSUME NEW k \in 0..(MaxBatch - 1), CollectError(k) PROVE StatsExact'
    BY <2>5, StatsCollected, BoundsAssumption DEF CollectError
  <2>6. CASE Run
    BY <2>2, <2>3, <2>4, <2>5, <2>6
    DEF Run, RunReceive, CollectTimeout, CollectEOF, SendWork, RejoinQueue,
        CloseNext, RunReturn, srcVars
  <2>7. ASSUME NEW w \in Workers, Loop(w) PROVE StatsExact'
    <3>1. CASE TakeWork(w)
      <4>1. \A p \in Packets : fate'[p] = fate[p] \/
              (fate[p] \in {"buffered", "handled"} /\ fate'[p] \in {"buffered", "handled"})
        BY <3>1 DEF TakeWork, IInv, Accounting, InBuffer
      <4> QED BY <2>1, <3>1, <4>1 DEF TakeWork, srcVars
    <3> QED BY <2>2, <2>7, <3>1 DEF Loop, Publish, HandlerReturns, Exit, srcVars
  <2>8. CASE UNCHANGED vars
    BY <2>2, <2>8 DEF vars
  <2> QED BY <2>6, <2>7, <2>8 DEF Next, Terminated
<1> QED BY <1>1, <1>2, IInvInvariant, PTL DEF Spec
=============================================================================

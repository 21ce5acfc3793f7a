------------------------------ MODULE Pipeline ------------------------------
(***************************************************************************)
(* The decode pool composed with the assembly pool (assembly/pool.go,      *)
(* assembly/worker.go): the handler a decode worker runs is decodeBatch    *)
(* followed by Pool.HandlePackets.                                         *)
(*                                                                         *)
(* HandlePackets splits the batch by connection, offers each part to the   *)
(* assembly worker of its slot through a bounded channel without blocking, *)
(* and waits on a fresh channel doneCh for as many completions as it made  *)
(* offers.  A work item holds no packet data: its packets are decoded in   *)
(* place and point into the decode worker's buffer, so what an assembly    *)
(* worker reads is whatever that buffer holds when it reads it.            *)
(***************************************************************************)
EXTENDS DecodePool, SequencesExt

CONSTANTS
  NumAssembly,   \* number of assembly workers (flag --assemblyworkers)
  Slot,          \* Slot[p]: FlowHash of packet p modulo the number of workers
  QueueCap       \* capacity of an assembly worker's wiCh (128)

Assembly == 0..(NumAssembly - 1)

ASSUME AssemblyAssumption ==
  /\ NumAssembly \in Nat \ {0}
  /\ Slot \in [Packets -> Assembly]
  /\ QueueCap \in Nat \ {0}

VARIABLES
  hpc,        \* whether HandlePackets runs on decode worker w
  perWorker,  \* perWorker[w][a]: indexes of w's buffer that go to slot a
  offer,      \* the loop variable i of HandlePackets
  pending,    \* batchesSent, less the completions already received
  doneCh,     \* completions waiting in doneCh, capacity NumAssembly
  wiCh,       \* wiCh[a]: the work items queued for assembly worker a
  busy,       \* the item assembly worker a is working on
  assembled   \* history: packets given to a's tcpassembly.Assembler

handleVars   == <<hpc, perWorker, offer, pending, doneCh>>
assemblyVars == <<wiCh, busy, assembled>>
pipeVars     == <<hpc, perWorker, offer, pending, doneCh, wiCh, busy, assembled>>
allVars      == <<vars, pipeVars>>

Indexes == 1..MaxBatch
Items   == [owner : Workers, dps : SUBSET Indexes]
NoItem  == [owner |-> NoWorker, dps |-> {}]

\* Types of the variables this module adds to those of DecodePool.
PTypeOK ==
  /\ TypeOK
  /\ hpc \in [Workers -> {"idle", "running"}]
  /\ perWorker \in [Workers -> [Assembly -> SUBSET Indexes]]
  /\ offer \in [Workers -> 0..NumAssembly]
  /\ pending \in [Workers -> Nat]
  /\ doneCh \in [Workers -> 0..NumAssembly]
  /\ wiCh \in [Assembly -> Seq(Items)]
  /\ busy \in [Assembly -> Items \cup {NoItem}]
  /\ assembled \in [Assembly -> Seq(Packets)]

PInit ==
  /\ Init
  /\ hpc = [w \in Workers |-> "idle"]
  /\ perWorker = [w \in Workers |-> [a \in Assembly |-> {}]]
  /\ offer = [w \in Workers |-> 0]
  /\ pending = [w \in Workers |-> 0]
  /\ doneCh = [w \in Workers |-> 0]
  /\ wiCh = [a \in Assembly |-> <<>>]
  /\ busy = [a \in Assembly |-> NoItem]
  /\ assembled = [a \in Assembly |-> <<>>]

-----------------------------------------------------------------------------
(* HandlePackets, on the goroutine of decode worker w.                     *)

partition_LosesLast(w) ==
  [a \in Assembly |->
     {i \in DOMAIN pb[w] : Slot[pb[w][i]] = a /\ (i = 1 \/ i < Len(pb[w]))}]

partition_ByIndex(w) ==
  [a \in Assembly |-> {i \in DOMAIN pb[w] : i % NumAssembly = a}]

\* Pool.partition: append keeps the buffer's order, so a part is the set of
\* its indexes.
partition(w) ==
  [a \in Assembly |-> {i \in DOMAIN pb[w] : Slot[pb[w][i]] = a}]

\* decodeBatch fills the decoder's packets; HandlePackets partitions them and
\* makes doneCh.
BeginHandle(w) ==
  /\ wpc[w] = "handle"
  /\ hpc[w] = "idle"
  /\ hpc' = [hpc EXCEPT ![w] = "running"]
  /\ perWorker' = [perWorker EXCEPT ![w] = partition(w)]
  /\ offer' = [offer EXCEPT ![w] = 0]
  /\ pending' = [pending EXCEPT ![w] = 0]
  /\ doneCh' = [doneCh EXCEPT ![w] = 0]
  /\ UNCHANGED <<vars, assemblyVars>>

\* w is at iteration offer[w] of the loop over perWorker.
Offering(w) == hpc[w] = "running" /\ offer[w] < NumAssembly

Part(w) == perWorker[w][offer[w]]

\* len(packets) == 0
SkipEmpty(w) ==
  /\ Offering(w)
  /\ Part(w) = {}
  /\ offer' = [offer EXCEPT ![w] = @ + 1]
  /\ UNCHANGED <<vars, hpc, perWorker, pending, doneCh, assemblyVars>>

\* worker.handlePackets: case w.wiCh <- workItem{dps, doneCh}
SendItem(w) ==
  /\ Offering(w)
  /\ Part(w) # {}
  /\ Len(wiCh[offer[w]]) < QueueCap
  /\ wiCh' = [wiCh EXCEPT ![offer[w]] =
                Append(@, [owner |-> w, dps |-> Part(w)])]
  /\ pending' = [pending EXCEPT ![w] = @ + 1]
  /\ offer' = [offer EXCEPT ![w] = @ + 1]
  /\ UNCHANGED <<vars, hpc, perWorker, doneCh, busy, assembled>>

\* default: errQueueFull is logged, but batchesSent has been incremented.
QueueFull(w) ==
  /\ Offering(w)
  /\ Part(w) # {}
  /\ Len(wiCh[offer[w]]) >= QueueCap
  /\ pending' = [pending EXCEPT ![w] = @ + 1]
  /\ offer' = [offer EXCEPT ![w] = @ + 1]
  /\ UNCHANGED <<vars, hpc, perWorker, doneCh, assemblyVars>>

Awaiting(w) == hpc[w] = "running" /\ offer[w] = NumAssembly

\* <-doneCh
AwaitDone(w) ==
  /\ Awaiting(w)
  /\ pending[w] > 0
  /\ doneCh[w] > 0
  /\ pending' = [pending EXCEPT ![w] = @ - 1]
  /\ doneCh' = [doneCh EXCEPT ![w] = @ - 1]
  /\ UNCHANGED <<vars, hpc, perWorker, offer, assemblyVars>>

\* Returns with one completion outstanding (i := 1 in the last loop).
HandleReturn_OneShort(w) ==
  /\ Awaiting(w)
  /\ pending[w] <= 1
  /\ HandlerReturns(w)
  /\ hpc' = [hpc EXCEPT ![w] = "idle"]
  /\ UNCHANGED <<perWorker, offer, pending, doneCh, assemblyVars>>

HandleReturn_NoPublish(w) ==
  /\ Awaiting(w)
  /\ pending[w] = 0
  /\ wpc' = [wpc EXCEPT ![w] = "wait"]
  /\ hpc' = [hpc EXCEPT ![w] = "idle"]
  /\ UNCHANGED <<pb, chanVars, runVars, srcVars, fate>>
  /\ UNCHANGED <<perWorker, offer, pending, doneCh, assemblyVars>>

\* HandlePackets returns to worker.loop.
HandleReturn(w) ==
  /\ Awaiting(w)
  /\ pending[w] = 0
  /\ HandlerReturns(w)
  /\ hpc' = [hpc EXCEPT ![w] = "idle"]
  /\ UNCHANGED <<perWorker, offer, pending, doneCh, assemblyVars>>

-----------------------------------------------------------------------------
(* worker.loop of assembly worker a.  (Its ticker case flushes streams,    *)
(* which touches nothing of this module.)                                  *)

TakeItem_Peeks(a) ==
  /\ busy[a] = NoItem
  /\ wiCh[a] # <<>>
  /\ busy' = [busy EXCEPT ![a] = Head(wiCh[a])]
  /\ UNCHANGED <<vars, handleVars, wiCh, assembled>>

TakeItem(a) ==
  /\ busy[a] = NoItem
  /\ wiCh[a] # <<>>
  /\ busy' = [busy EXCEPT ![a] = Head(wiCh[a])]
  /\ wiCh' = [wiCh EXCEPT ![a] = Tail(@)]
  /\ UNCHANGED <<vars, handleVars, assembled>>

First_Last(dps) == CHOOSE i \in dps : \A j \in dps : i >= j

\* The first index of a part not yet assembled.
First(dps) == CHOOSE i \in dps : \A j \in dps : i <= j

\* AssembleWithTimestamp on the next packet of the item, read from the
\* owner's buffer as it is now.
Assemble(a) ==
  /\ busy[a].dps # {}
  /\ LET i == First(busy[a].dps)
         buf == pb[busy[a].owner]
     IN  /\ assembled' = [assembled EXCEPT ![a] =
                            IF i \in DOMAIN buf THEN Append(@, buf[i]) ELSE @]
         /\ busy' = [busy EXCEPT ![a].dps = @ \ {i}]
  /\ UNCHANGED <<vars, handleVars, wiCh>>

\* Sends no completion for the last packets.
FinishItem_Silent(a) ==
  /\ busy[a] # NoItem
  /\ busy[a].dps = {}
  /\ busy' = [busy EXCEPT ![a] = NoItem]
  /\ UNCHANGED <<vars, handleVars, wiCh, assembled>>

\* wi.doneCh <- struct{}{}
FinishItem(a) ==
  /\ busy[a] # NoItem
  /\ busy[a].dps = {}
  /\ doneCh[busy[a].owner] < NumAssembly
  /\ doneCh' = [doneCh EXCEPT ![busy[a].owner] = @ + 1]
  /\ busy' = [busy EXCEPT ![a] = NoItem]
  /\ UNCHANGED <<vars, hpc, perWorker, offer, pending, wiCh, assembled>>

-----------------------------------------------------------------------------
\* The steps of DecodePool other than the handler's return.
PoolStep ==
  /\ Run \/ (\E w \in Workers : Publish(w) \/ TakeWork(w) \/ Exit(w))
  /\ UNCHANGED pipeVars

Handle(w) ==
  BeginHandle(w) \/ SkipEmpty(w) \/ SendItem(w) \/ QueueFull(w)
    \/ AwaitDone(w) \/ HandleReturn(w)

AssemblyLoop(a) == TakeItem(a) \/ Assemble(a) \/ FinishItem(a)

PTerminated == Finished /\ UNCHANGED allVars

PNext ==
  \/ PoolStep
  \/ \E w \in Workers : Handle(w)
  \/ \E a \in Assembly : AssemblyLoop(a)
  \/ PTerminated

PSpec == PInit /\ [][PNext]_allVars

\* Each goroutine that can take a step eventually does.  Unlike in FairSpec,
\* nothing is assumed about the handler returning.
PFairSpec ==
  /\ PSpec
  /\ RunFairness
  /\ \A w \in Workers :
       /\ WF_vars(Publish(w) \/ TakeWork(w) \/ Exit(w))
       /\ WF_allVars(Handle(w))
  /\ \A a \in Assembly : WF_allVars(AssemblyLoop(a))

-----------------------------------------------------------------------------
(* Properties.                                                             *)

\* The items a holds: queued in wiCh[a], or being worked on.
Holds(a, w) ==
  \/ busy[a] # NoItem /\ busy[a].owner = w
  \/ \E i \in DOMAIN wiCh[a] : wiCh[a][i].owner = w

Outstanding(w) == {a \in Assembly : Holds(a, w)}

\* While any assembly worker still holds a work item, the decode worker whose
\* buffer the item points into is inside HandlePackets and waiting for it:
\* assembly never reads a buffer that has been given back to Pool.Run.  The
\* completions HandlePackets still waits for cover every such item.
ItemsPinned ==
  \A w \in Workers :
    /\ Outstanding(w) # {} => wpc[w] = "handle" /\ hpc[w] = "running"
    /\ Cardinality(Outstanding(w)) + doneCh[w] <= pending[w]

\* The item's indexes are inside the owner's buffer and every packet read
\* through them belongs to this assembly worker's slot, so both directions of
\* a connection always meet the same Assembler.
RightSlot ==
  \A a \in Assembly :
    /\ \A i \in DOMAIN assembled[a] : Slot[assembled[a][i]] = a
    /\ busy[a] # NoItem =>
         \A i \in busy[a].dps : i \in DOMAIN pb[busy[a].owner]

\* No packet reaches an Assembler twice, and the caller's doneCh has room for
\* the completion of every item in work: an assembly worker never blocks in its
\* send.
AssembledOnce ==
  /\ PTypeOK
  /\ \A a \in Assembly :
       /\ \A i, j \in DOMAIN assembled[a] :
            assembled[a][i] = assembled[a][j] => i = j
       /\ busy[a] # NoItem => doneCh[busy[a].owner] < NumAssembly

\* The packets of w's batch that a's Assembler has seen.
Seen(a) == ToSet(assembled[a])

\* HandlePackets returns only when every packet of the batch has been
\* assembled (it never happens after an errQueueFull: see Refused).
CompleteOnReturn ==
  [][\A w \in Workers :
       wpc[w] = "handle" /\ wpc'[w] # "handle" =>
         \A i \in DOMAIN pb[w] : pb[w][i] \in Seen(Slot[pb[w][i]])]_allVars

\* Within one batch, the packets of a slot are assembled in capture order.  (Two
\* decode workers' batches race for the assembly queue, so no more can be said.)
BatchOrder ==
  [][\A a \in Assembly :
       assembled'[a] # assembled[a] =>
         \A w \in Workers :
           Last(assembled'[a]) \in ToSet(pb[w]) =>
             \A q \in Seen(a) \cap ToSet(pb[w]) : q < Last(assembled'[a])]_allVars

\* Every call of the handler by a decode worker returns, so that the worker
\* "will send itself to q when it is ready for a new batch of packets"
\* (decode/worker.go, startWorker).
HandlerTerminates ==
  \A w \in Workers : wpc[w] = "handle" ~> wpc[w] = "publish"

\* A part of w's batch was offered and is neither with its assembly worker nor
\* assembled: handlePackets has returned errQueueFull.
Refused(w) ==
  /\ hpc[w] = "running"
  /\ \E a \in Assembly :
       /\ a < offer[w] /\ ~Holds(a, w)
       /\ \E i \in perWorker[w][a] : pb[w][i] \notin Seen(a)

\* A refused offer is the only thing that keeps HandlePackets from returning:
\* a call whose items all fit into the queues ends, whatever the other decode
\* workers and the assembly workers do (handlePackets, loop).
AcceptedCallsReturn ==
  \A w \in Workers : wpc[w] = "handle" ~> wpc[w] = "publish" \/ Refused(w)

\* The composition implements the decode pool.  Its assumption on the handler
\* (every call of worker.handler returns) is discharged for every decode worker
\* that does not end up waiting for a refused item.
ImplementsDecodePool ==
  /\ Spec /\ RunFairness
  /\ \A w \in Workers : WF_vars(Loop(w)) \/ <>[]Refused(w)
=============================================================================

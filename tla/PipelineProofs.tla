--------------------------- MODULE PipelineProofs ---------------------------
(***************************************************************************)
(* Proofs about the decode pool composed with the assembly pool, for any   *)
(* number of workers on either side, any assignment of packets to slots    *)
(* and any queue capacity.                                                 *)
(*                                                                         *)
(* The composition takes only steps of DecodePool, so the invariants of    *)
(* DecodePoolProofs hold in it.  On top of them, Buffers says what the     *)
(* decode workers' buffers contain, WorkItems which items exist and what   *)
(* they point to, History what the assemblers have seen, and Covered that  *)
(* a caller of HandlePackets waits for everything it still has to wait for.*)
(***************************************************************************)
EXTENDS Pipeline, DecodePoolProofs

-----------------------------------------------------------------------------
(* The buffers of the decode workers.                                      *)

\* CollectPackets fills a buffer in capture order, up to its capacity.
BufferOrder ==
  \A w \in Workers :
    /\ Len(pb[w]) <= MaxBatch
    /\ \A i, j \in 1..Len(pb[w]) : i < j => pb[w][i] < pb[w][j]

\* No packet is in two buffers.
Disjoint ==
  \A v, w \in Workers :
    v # w => \A i \in 1..Len(pb[v]), j \in 1..Len(pb[w]) : pb[v][i] # pb[w][j]

\* A batch on its way to a worker has not been handled.
Fresh ==
  \A w \in Workers :
    workReady[w] = 1 \/ (rpc = "work" /\ cur = w) =>
      \A i \in 1..Len(pb[w]) : fate[pb[w][i]] = "buffered"

Buffers == BufferOrder /\ Disjoint /\ Fresh

-----------------------------------------------------------------------------
(* The work items.                                                         *)

\* HandlePackets runs inside the handler, on the partition of the buffer, and
\* has not counted more batches than it has made offers.
Calls ==
  \A w \in Workers :
    /\ hpc[w] = "running" => wpc[w] = "handle" /\ perWorker[w] = partition(w)
    /\ pending[w] <= offer[w]

\* A queued item is a whole part of a call in progress.
QueuedItems ==
  \A a \in Assembly : \A k \in 1..Len(wiCh[a]) :
    LET w == wiCh[a][k].owner
    IN  hpc[w] = "running" /\ a < offer[w] /\ wiCh[a][k].dps = perWorker[w][a]

\* What is left of the item in work is an end of a part, the rest has been seen.
BusyItems ==
  \A a \in Assembly : busy[a] # NoItem =>
    LET w == busy[a].owner
    IN  /\ hpc[w] = "running" /\ a < offer[w]
        /\ busy[a].dps \subseteq perWorker[w][a]
        /\ \A j \in perWorker[w][a] \ busy[a].dps :
             /\ pb[w][j] \in Seen(a)
             /\ \A i \in busy[a].dps : j < i

\* An assembly worker holds at most one item of each caller.
OneItem ==
  \A a \in Assembly :
    /\ \A k, l \in 1..Len(wiCh[a]) : wiCh[a][k].owner = wiCh[a][l].owner => k = l
    /\ \A k \in 1..Len(wiCh[a]) : wiCh[a][k].owner # busy[a].owner

WorkItems == Calls /\ QueuedItems /\ BusyItems /\ OneItem

-----------------------------------------------------------------------------
(* What the assemblers have seen.                                          *)

Queued(a, w) == \E k \in 1..Len(wiCh[a]) : wiCh[a][k].owner = w

\* Index i of w's buffer may still be read by a.
ToRead(a, w, i) ==
  /\ wpc[w] = "handle"
  /\ i \in 1..Len(pb[w])
  /\ Slot[pb[w][i]] = a
  /\ \/ hpc[w] = "idle"
     \/ a >= offer[w]
     \/ Queued(a, w)
     \/ busy[a].owner = w /\ i \in busy[a].dps

SeenHandled ==
  \A a \in Assembly : \A k \in 1..Len(assembled[a]) :
    Slot[assembled[a][k]] = a /\ fate[assembled[a][k]] = "handled"

SeenOnce ==
  \A a \in Assembly : \A k, l \in 1..Len(assembled[a]) :
    assembled[a][k] = assembled[a][l] => k = l

Unseen ==
  \A a \in Assembly, w \in Workers : \A i \in 1..Len(pb[w]) :
    ToRead(a, w, i) => pb[w][i] \notin Seen(a)

History == SeenHandled /\ SeenOnce /\ Unseen

\* The offers w has made whose packets have not all been seen: an item is
\* still held, or was refused by a full queue.
Incomplete(w) ==
  {a \in Assembly : /\ hpc[w] = "running"
                    /\ a < offer[w]
                    /\ \E i \in perWorker[w][a] : pb[w][i] \notin Seen(a)}

Unanswered(w) == Outstanding(w) \cup Incomplete(w)

\* The completions w waits for cover those in doneCh and those still to come.
Covered == \A w \in Workers : Cardinality(Unanswered(w)) + doneCh[w] <= pending[w]

PInv == PTypeOK /\ IInv /\ Buffers /\ WorkItems /\ History /\ Covered

-----------------------------------------------------------------------------
(* The composition takes only steps of the decode pool.                    *)

\* Every step of the pipeline is a step of the decode pool, or none.
LEMMA PStep == PNext => [Next]_vars
<1> SUFFICES ASSUME PNext PROVE [Next]_vars
  OBVIOUS
<1>1. CASE PoolStep
  BY <1>1 DEF PoolStep, Next, Loop
<1>2. ASSUME NEW w \in Workers, Handle(w) PROVE [Next]_vars
  BY <1>2
  DEF Handle, BeginHandle, SkipEmpty, SendItem, QueueFull, AwaitDone,
      HandleReturn, Next, Loop
<1>3. ASSUME NEW a \in Assembly, AssemblyLoop(a) PROVE UNCHANGED vars
  BY <1>3 DEF AssemblyLoop, TakeItem, Assemble, FinishItem
<1>4. CASE PTerminated
  BY <1>4 DEF PTerminated, allVars
<1> QED BY <1>1, <1>2, <1>3, <1>4 DEF PNext

\* The safety part of ImplementsDecodePool: with HandlePackets as the handler,
\* every step is a step of the decode pool or leaves its state alone.
THEOREM RefinesDecodePool == PSpec => Spec
<1>1. [PNext]_allVars => [Next]_vars
  BY PStep DEF allVars
<1> QED BY <1>1, PTL DEF PSpec, PInit, Spec

-----------------------------------------------------------------------------
(* The buffers.                                                            *)

\* At the start all buffers are empty.
LEMMA BuffersInit == Init => Buffers
  BY BoundsAssumption DEF Init, Buffers, BufferOrder, Disjoint, Fresh

\* Collecting into the held worker's buffer.
LEMMA BuffersCollected ==
  ASSUME IInv, Buffers, NEW k \in 0..MaxBatch, Collected(k), rpc = "collect",
         UNCHANGED workReady, cur' = cur \/ rpc' # "work"
  PROVE  Buffers'
<1> USE BoundsAssumption DEF IInv, Buffers
<1>1. /\ src \in Nat /\ NumPackets \in Nat /\ src + k <= NumPackets /\ k \in Nat
      /\ MaxBatch \in Nat /\ k <= MaxBatch
      /\ cur \in Workers /\ workReady[cur] = 0
      /\ pb \in [Workers -> Seq(Packets)]
  BY DEF TypeOK, Collected, Ownership, HeldIdle, Idle
<1>2. /\ pb'[cur] = Batch(k)
      /\ \A w \in Workers : w # cur => pb'[w] = pb[w]
  BY <1>1 DEF Collected
<1>3. \A p \in Packets :
        fate'[p] = IF p \in (src + 1)..(src + k) THEN "buffered" ELSE fate[p]
  BY DEF Collected
<1>4. /\ Len(Batch(k)) = k
      /\ \A i \in 1..k : Batch(k)[i] = src + i
  BY <1>1, BatchType
<1>5. \A w \in Workers : \A i \in 1..Len(pb[w]) : pb[w][i] \in Packets /\ pb[w][i] <= src
  <2> SUFFICES ASSUME NEW w \in Workers, NEW i \in 1..Len(pb[w])
               PROVE  pb[w][i] \in Packets /\ pb[w][i] <= src
    OBVIOUS
  <2>1. pb[w][i] \in Packets
    BY <1>1
  <2>2. ~(pb[w][i] > src)
    BY <2>1 DEF Accounting, InBuffer, ReadInOrder
  <2> QED BY <1>1, <2>1, <2>2 DEF Packets
<1>6. BufferOrder'
  <2> SUFFICES ASSUME NEW w \in Workers
               PROVE  /\ Len(pb'[w]) <= MaxBatch
                      /\ \A i, j \in 1..Len(pb'[w]) : i < j => pb'[w][i] < pb'[w][j]
    BY DEF BufferOrder
  <2>1. CASE w = cur
    BY <1>1, <1>2, <1>4, <2>1
  <2>2. CASE w # cur
    BY <1>2, <2>2 DEF BufferOrder
  <2> QED BY <2>1, <2>2
<1>7. \A w \in Workers : w # cur =>
        \A i \in 1..k, j \in 1..Len(pb[w]) : Batch(k)[i] # pb[w][j]
  BY <1>1, <1>4, <1>5 DEF Packets
<1>8. Disjoint'
  <2> SUFFICES ASSUME NEW v \in Workers, NEW w \in Workers, v # w,
                      NEW i \in 1..Len(pb'[v]), NEW j \in 1..Len(pb'[w])
               PROVE  pb'[v][i] # pb'[w][j]
    BY DEF Disjoint
  <2>1. CASE v = cur
    BY <1>2, <1>4, <1>7, <2>1
  <2>2. CASE w = cur
    BY <1>2, <1>4, <1>7, <2>2
  <2>3. CASE v # cur /\ w # cur
    BY <1>2, <2>3 DEF Disjoint
  <2> QED BY <2>1, <2>2, <2>3
<1>9. Fresh'
  <2> SUFFICES ASSUME NEW w \in Workers, NEW i \in 1..Len(pb'[w]),
                      workReady[w] = 1 \/ (rpc' = "work" /\ cur' = w)
               PROVE  fate'[pb'[w][i]] = "buffered"
    BY DEF Fresh
  <2>1. CASE w = cur
    <3>1. pb'[w][i] \in Packets /\ pb'[w][i] \in (src + 1)..(src + k)
      BY <1>1, <1>2, <1>4, <2>1 DEF Packets
    <3> QED BY <1>3, <3>1
  <2>2. CASE w # cur
    <3>1. pb'[w] = pb[w] /\ workReady[w] = 1
      BY <1>2, <2>2
    <3>2. fate[pb[w][i]] = "buffered"
      BY <3>1 DEF Fresh
    <3> QED BY <1>1, <1>3, <1>5, <3>1, <3>2
  <2> QED BY <2>1, <2>2
<1> QED BY <1>6, <1>8, <1>9

\* Buffers that are only emptied, and packets whose fate does not change.
LEMMA BuffersShrink ==
  ASSUME Buffers, MaxBatch \in Nat, UNCHANGED fate,
         \A w \in Workers : pb'[w] = pb[w] \/ pb'[w] = <<>>,
         \A w \in Workers :
           workReady'[w] = 1 \/ (rpc' = "work" /\ cur' = w) =>
             workReady[w] = 1 \/ (rpc = "work" /\ cur = w)
  PROVE  Buffers'
  BY DEF Buffers, BufferOrder, Disjoint, Fresh

\* Every step keeps the buffers ordered, disjoint and no further than the source.
LEMMA BuffersStep ==
  ASSUME IInv, Buffers, [Next]_vars PROVE Buffers'
<1> USE BoundsAssumption
<1>0. \A w \in Workers : \A i \in 1..Len(pb[w]) : pb[w][i] \in Packets
  BY DEF IInv, TypeOK
<1>1. CASE RunReceive \/ RejoinQueue \/ CloseNext \/ RunReturn
  BY <1>1, BuffersShrink DEF RunReceive, RejoinQueue, CloseNext, RunReturn, chanVars
<1>2. CASE RunDiscard
  <2>1. /\ \A p \in Packets : p # src + 1 => fate'[p] = fate[p]
        /\ UNCHANGED <<pb, workReady, rpc, cur>>
    BY <1>2 DEF RunDiscard, IInv, TypeOK, chanVars, runVars
  <2>2. \A w \in Workers : \A i \in 1..Len(pb[w]) : pb[w][i] # src + 1
    <3>1. src + 1 \in Packets /\ fate[src + 1] = "unread"
      BY <1>2 DEF RunDiscard, IInv, Accounting, ReadInOrder, TypeOK, Packets
    <3> QED BY <3>1 DEF IInv, Accounting, InBuffer
  <2> QED
    BY <1>0, <2>1, <2>2 DEF Buffers, BufferOrder, Disjoint, Fresh
<1>3. ASSUME NEW k \in 0..MaxBatch, CollectBatch(k) PROVE Buffers'
  BY <1>3, BuffersCollected DEF CollectBatch, chanVars
<1>4. ASSUME NEW k \in 0..(MaxBatch - 1), CollectError(k) PROVE Buffers'
  BY <1>4, BuffersCollected DEF CollectError, chanVars
<1>5. CASE CollectTimeout \/ CollectEOF
  <2>1. \A w \in Workers : pb'[w] = pb[w] \/ pb'[w] = <<>>
    BY <1>5 DEF CollectTimeout, CollectEOF, IInv, TypeOK
  <2> QED BY <1>5, <2>1, BuffersShrink DEF CollectTimeout, CollectEOF, chanVars, runVars
<1>6. CASE SendWork
  <2>1. \A w \in Workers : workReady'[w] = 1 => workReady[w] = 1 \/ w = cur
    BY <1>6 DEF SendWork, IInv, TypeOK
  <2> QED BY <1>6, <2>1, BuffersShrink DEF SendWork
<1>7. CASE Run
  BY <1>1, <1>2, <1>3, <1>4, <1>5, <1>6, <1>7 DEF Run
<1>8. ASSUME NEW w \in Workers, Publish(w) \/ HandlerReturns(w) \/ Exit(w) PROVE Buffers'
  BY <1>8, BuffersShrink DEF Publish, HandlerReturns, Exit, chanVars, runVars
<1>9. ASSUME NEW w \in Workers, TakeWork(w) PROVE Buffers'
  <2>1. /\ UNCHANGED <<pb, rpc, cur>>
        /\ \A v \in Workers : workReady'[v] = 1 => v # w /\ workReady[v] = 1
        /\ rpc = "work" => cur # w
    BY <1>9 DEF TakeWork, IInv, TypeOK, Ownership, HeldIdle, Idle, runVars
  <2>2. \A v \in Workers : v # w => \A i \in 1..Len(pb[v]) :
          fate'[pb[v][i]] = fate[pb[v][i]]
    BY <1>0, <1>9 DEF TakeWork, Buffers, Disjoint
  <2> QED BY <2>1, <2>2 DEF Buffers, BufferOrder, Disjoint, Fresh
<1>10. CASE UNCHANGED vars
  BY <1>10, BuffersShrink DEF vars
<1> QED BY <1>7, <1>8, <1>9, <1>10 DEF Next, Loop, Terminated

-----------------------------------------------------------------------------
(* Lemmas on the definitions of Pipeline.                                  *)

\* What a step of the decode pool leaves alone: the buffer of a worker whose
\* handler runs or is about to run, and the fate of handled packets.
LEMMA PoolFrame ==
  ASSUME IInv, Buffers,
         Run \/ (\E w \in Workers : Publish(w) \/ TakeWork(w) \/ Exit(w))
  PROVE  /\ \A w \in Workers : wpc[w] = "handle" => wpc'[w] = "handle" /\ pb'[w] = pb[w]
         /\ \A w \in Workers : wpc[w] # "handle" /\ wpc'[w] = "handle" =>
              /\ pb'[w] = pb[w]
              /\ \A i \in 1..Len(pb[w]) : fate[pb[w][i]] = "buffered"
         /\ \A p \in Packets : fate[p] = "handled" => fate'[p] = "handled"
<1> USE BoundsAssumption DEF IInv
<1>1. ASSUME Run PROVE wpc' = wpc
  BY <1>1
  DEF Run, RunReceive, RunDiscard, CollectBatch, CollectTimeout, CollectError,
      CollectEOF, SendWork, RejoinQueue, CloseNext, RunReturn
<1>2. ASSUME Run, NEW w \in Workers, wpc[w] = "handle" PROVE pb'[w] = pb[w]
  <2>1. rpc = "collect" => w # cur
    BY <1>2 DEF Ownership, HeldIdle, Idle
  <2>2. ASSUME NEW k \in Nat, Collected(k), rpc = "collect" PROVE pb'[w] = pb[w]
    BY <2>1, <2>2 DEF Collected, TypeOK
  <2> QED
    BY <1>2, <2>1, <2>2
    DEF Run, RunReceive, RunDiscard, CollectBatch, CollectTimeout, CollectError,
        CollectEOF, SendWork, RejoinQueue, CloseNext, RunReturn, TypeOK
<1>3. ASSUME Run, NEW p \in Packets, fate[p] = "handled" PROVE fate'[p] = "handled"
  <2>1. p \in Nat /\ src \in Nat /\ p <= src
    BY <1>3 DEF Accounting, ReadInOrder, TypeOK, Packets
  <2>2. ASSUME NEW k \in Nat, Collected(k) PROVE fate'[p] = "handled"
    BY <1>3, <2>1, <2>2 DEF Collected
  <2>3. ASSUME RunDiscard PROVE fate'[p] = "handled"
    BY <1>3, <2>1, <2>3 DEF RunDiscard, TypeOK
  <2> QED
    BY <1>3, <2>2, <2>3
    DEF Run, RunReceive, CollectBatch, CollectTimeout, CollectError,
        CollectEOF, SendWork, RejoinQueue, CloseNext, RunReturn
<1>4. CASE Run
  BY <1>1, <1>2, <1>3, <1>4
<1>5. ASSUME NEW v \in Workers, Publish(v) \/ Exit(v)
      PROVE  /\ UNCHANGED <<pb, fate>>
             /\ \A w \in Workers : wpc'[w] = "handle" <=> wpc[w] = "handle"
  BY <1>5 DEF Publish, Exit, TypeOK
<1>6. ASSUME NEW v \in Workers, TakeWork(v)
      PROVE  /\ pb' = pb
             /\ \A w \in Workers : w # v => wpc'[w] = wpc[w]
             /\ wpc[v] # "handle"
             /\ \A i \in 1..Len(pb[v]) : fate[pb[v][i]] = "buffered"
             /\ \A p \in Packets : fate[p] = "handled" => fate'[p] = "handled"
  BY <1>6 DEF TakeWork, TypeOK, Buffers, Fresh
<1> QED BY <1>4, <1>5, <1>6

\* One more packet in the history of an assembly worker.
LEMMA SeenAppend ==
  ASSUME NEW S, NEW s \in Seq(S), NEW x \in S
  PROVE  ToSet(Append(s, x)) = ToSet(s) \cup {x}
<1>1. /\ Append(s, x) \in Seq(S)
      /\ Len(Append(s, x)) = Len(s) + 1
      /\ Append(s, x)[Len(s) + 1] = x
      /\ \A i \in 1..Len(s) : Append(s, x)[i] = s[i]
  OBVIOUS
<1>2. ASSUME NEW t \in Seq(S), NEW y
      PROVE  y \in ToSet(t) <=> \E i \in 1..Len(t) : t[i] = y
  BY DEF ToSet
<1>3. ASSUME NEW y PROVE y \in ToSet(Append(s, x)) <=> y \in ToSet(s) \/ y = x
  <2>1. (\E i \in 1..(Len(s) + 1) : Append(s, x)[i] = y)
          <=> (\E i \in 1..Len(s) : s[i] = y) \/ y = x
    BY <1>1
  <2>2. y \in ToSet(s) <=> \E i \in 1..Len(s) : s[i] = y
    BY <1>2
  <2>3. y \in ToSet(Append(s, x)) <=> \E i \in 1..(Len(s) + 1) : Append(s, x)[i] = y
    <3>1. y \in ToSet(Append(s, x)) <=>
            \E i \in 1..Len(Append(s, x)) : Append(s, x)[i] = y
      BY ONLY <1>1, <1>2
    <3> QED BY <1>1, <3>1
  <2> QED BY <2>1, <2>2, <2>3
<1> QED BY <1>3

\* An assembly worker has seen what its history lists.
LEMMA SeenElement ==
  ASSUME PTypeOK, NEW a \in Assembly, NEW x
  PROVE  x \in Seen(a) <=> \E k \in 1..Len(assembled[a]) : assembled[a][k] = x
<1>1. DOMAIN assembled[a] = 1..Len(assembled[a])
  BY DEF PTypeOK
<1> QED BY <1>1 DEF Seen, ToSet

\* The first of the indexes left exists and is the smallest.
LEMMA FirstIsLeast ==
  ASSUME NEW dps \in SUBSET Nat, dps # {}
  PROVE  First(dps) \in dps /\ \A j \in dps : First(dps) <= j
<1>1. \E i \in dps : \A j \in dps : i <= j
  <2> DEFINE R == {r \in Nat \X Nat : r[1] < r[2]}
  <2>1. IsWellFoundedOn(R, Nat)
    BY NatLessThanWellFounded DEF OpToRel
  <2>2. ASSUME NEW i \in Nat, NEW j \in Nat, <<j, i>> \notin R PROVE i <= j
    BY <2>2
  <2> HIDE DEF R
  <2>3. PICK i \in dps : \A j \in dps : ~(<<j, i>> \in R)
    BY <2>1, WFMin
  <2>4. ASSUME NEW j \in dps PROVE i <= j
    BY <2>2, <2>3
  <2> QED BY <2>4
<1> QED BY <1>1 DEF First

\* An assembly worker holds an item of w in its queue or in its hand.
LEMMA HeldItems ==
  ASSUME NEW w \in Workers
  PROVE  Outstanding(w) = {a \in Assembly : Queued(a, w) \/ busy[a].owner = w}
<1>1. ASSUME NEW a \in Assembly
      PROVE  Holds(a, w) <=> Queued(a, w) \/ busy[a].owner = w
  BY WorkersAssumption DEF Holds, Queued, NoItem
<1> QED BY <1>1 DEF Outstanding

\* Every set of assembly workers is finite.
LEMMA AssemblyFinite ==
  ASSUME NEW S \in SUBSET Assembly
  PROVE  /\ IsFiniteSet(S)
         /\ Cardinality(S) \in Nat
         /\ \A T \in SUBSET S : Cardinality(T) <= Cardinality(S)
<1>1. IsFiniteSet(Assembly)
  BY AssemblyAssumption, FS_Interval DEF Assembly
<1>2. IsFiniteSet(S)
  BY <1>1, FS_Subset
<1> QED BY <1>2, FS_Subset, FS_CardinalityType

\* The assembly workers that still owe an answer are finitely many.
LEMMA UnansweredType ==
  ASSUME NEW w
  PROVE  Unanswered(w) \in SUBSET Assembly /\ Cardinality(Unanswered(w)) \in Nat
<1>1. Unanswered(w) \in SUBSET Assembly
  BY DEF Unanswered, Outstanding, Incomplete
<1> QED BY <1>1, AssemblyFinite

\* An item is only held for a call in progress that has already offered it.
LEMMA HeldOffered ==
  ASSUME PInv, NEW w \in Workers, NEW a \in Unanswered(w)
  PROVE  hpc[w] = "running" /\ a < offer[w] /\ wpc[w] = "handle"
<1>1. CASE a \in Outstanding(w)
  <2>1. a \in Assembly /\ (Queued(a, w) \/ busy[a].owner = w)
    BY <1>1, HeldItems
  <2>2. hpc[w] = "running" /\ a < offer[w]
    BY <2>1, WorkersAssumption DEF PInv, WorkItems, QueuedItems, BusyItems, Queued, NoItem
  <2> QED BY <2>2 DEF PInv, WorkItems, Calls
<1>2. CASE a \in Incomplete(w)
  BY <1>2 DEF Incomplete, PInv, WorkItems, Calls
<1> QED BY <1>1, <1>2 DEF Unanswered

\* A step that answers nothing new and counts nothing keeps Covered.
LEMMA CoveredStill ==
  ASSUME Covered, PTypeOK, UNCHANGED <<pending, doneCh>>,
         \A w \in Workers : Unanswered(w)' \subseteq Unanswered(w)
  PROVE  Covered'
<1> SUFFICES ASSUME NEW w \in Workers
             PROVE  Cardinality(Unanswered(w)') + doneCh[w] <= pending[w]
  BY DEF Covered
<1>1. /\ Cardinality(Unanswered(w)') <= Cardinality(Unanswered(w))
      /\ Cardinality(Unanswered(w)') \in Nat
      /\ Cardinality(Unanswered(w)) \in Nat
  BY AssemblyFinite, UnansweredType
<1>2. /\ Cardinality(Unanswered(w)) + doneCh[w] <= pending[w]
      /\ doneCh[w] \in Nat /\ pending[w] \in Nat
  BY AssemblyAssumption DEF Covered, PTypeOK
<1> QED BY <1>1, <1>2

-----------------------------------------------------------------------------
(* The steps of the decode pool and of HandlePackets.                      *)

\* The start state satisfies the invariant.
LEMMA PInvInit == PInit => PInv
<1> SUFFICES ASSUME PInit PROVE PInv
  OBVIOUS
<1> USE WorkersAssumption, BoundsAssumption, AssemblyAssumption
<1>1. IInv /\ Buffers
  BY OwnershipInit, AccountingInit, BuffersInit DEF PInit, IInv
<1>2. PTypeOK
  <2>1. TypeOK
    BY <1>1 DEF IInv
  <2>2. wiCh \in [Assembly -> Seq(Items)] /\ assembled \in [Assembly -> Seq(Packets)]
    BY DEF PInit
  <2>3. /\ offer \in [Workers -> 0..NumAssembly]
        /\ pending \in [Workers -> Nat]
        /\ doneCh \in [Workers -> 0..NumAssembly]
    BY DEF PInit
  <2>4. /\ hpc \in [Workers -> {"idle", "running"}]
        /\ perWorker \in [Workers -> [Assembly -> SUBSET Indexes]]
        /\ busy \in [Assembly -> Items \cup {NoItem}]
    BY DEF PInit
  <2> QED BY <2>1, <2>2, <2>3, <2>4 DEF PTypeOK
<1>3. WorkItems
  BY DEF PInit, WorkItems, Calls, QueuedItems, BusyItems, OneItem
<1>4. SeenHandled /\ SeenOnce
  BY DEF PInit, SeenHandled, SeenOnce
<1>5. \A a \in Assembly : Seen(a) = {}
  BY DEF PInit, Seen, ToSet
<1>6. Unseen
  BY <1>5 DEF Unseen
<1>7. Covered
  <2> SUFFICES ASSUME NEW w \in Workers
               PROVE  Cardinality(Unanswered(w)) + doneCh[w] <= pending[w]
    BY DEF Covered
  <2>1. Unanswered(w) = {}
    BY HeldItems DEF PInit, Unanswered, Incomplete, Queued, NoItem
  <2>2. pending[w] = 0 /\ doneCh[w] = 0
    BY DEF PInit
  <2> QED BY <2>1, <2>2, FS_EmptySet
<1> QED BY <1>1, <1>2, <1>3, <1>4, <1>6, <1>7 DEF PInv, History

\* A step of the decode pool does not touch what a running call works on, and
\* a call that is about to run has a batch nobody has seen.
LEMMA PoolStepInv ==
  ASSUME PInv, TypeOK', PoolStep
  PROVE  PTypeOK' /\ WorkItems' /\ History' /\ Covered'
<1> USE DEF PInv
<1>1. UNCHANGED <<hpc, perWorker, offer, pending, doneCh, wiCh, busy, assembled>>
  BY DEF PoolStep, pipeVars
<1>2. /\ \A w \in Workers : wpc[w] = "handle" => wpc'[w] = "handle" /\ pb'[w] = pb[w]
      /\ \A w \in Workers : wpc[w] # "handle" /\ wpc'[w] = "handle" =>
           /\ pb'[w] = pb[w]
           /\ \A i \in 1..Len(pb[w]) : fate[pb[w][i]] = "buffered"
      /\ \A p \in Packets : fate[p] = "handled" => fate'[p] = "handled"
  BY PoolFrame DEF PoolStep
<1>3. \A a \in Assembly : Seen(a)' = Seen(a)
  BY <1>1 DEF Seen
<1>4. \A w \in Workers : hpc[w] = "running" => pb'[w] = pb[w] /\ wpc'[w] = "handle"
  BY <1>2 DEF WorkItems, Calls
<1>5. PTypeOK'
  BY <1>1 DEF PTypeOK
<1>6. Calls'
  <2>1. \A w \in Workers : hpc[w] = "running" => partition(w)' = partition(w)
    BY <1>4 DEF partition
  <2> QED BY <1>1, <1>4, <2>1 DEF WorkItems, Calls
<1>7. QueuedItems' /\ OneItem'
  BY <1>1 DEF WorkItems, QueuedItems, OneItem
<1>8. BusyItems'
  <2>1. \A a \in Assembly : busy[a] # NoItem => busy[a].owner \in Workers
    BY DEF PTypeOK, Items
  <2> QED BY <1>1, <1>3, <1>4, <2>1 DEF WorkItems, BusyItems
<1>9. SeenHandled' /\ SeenOnce'
  <2>1. \A a \in Assembly : \A k \in 1..Len(assembled[a]) : assembled[a][k] \in Packets
    BY DEF PTypeOK
  <2> QED BY <1>1, <1>2, <2>1 DEF History, SeenHandled, SeenOnce
<1>10. Unseen'
  <2> SUFFICES ASSUME NEW a \in Assembly, NEW w \in Workers, NEW i \in 1..Len(pb'[w]),
                      ToRead(a, w, i)'
               PROVE  pb'[w][i] \notin Seen(a)
    BY <1>3 DEF Unseen
  <2>1. wpc'[w] = "handle"
    BY DEF ToRead
  <2>2. CASE wpc[w] = "handle"
    <3>1. ToRead(a, w, i) /\ i \in 1..Len(pb[w]) /\ pb'[w] = pb[w]
      BY <1>1, <1>2, <2>2 DEF ToRead, Queued
    <3> QED BY <3>1 DEF History, Unseen
  <2>3. CASE wpc[w] # "handle"
    <3>1. pb'[w] = pb[w] /\ fate[pb[w][i]] = "buffered"
      BY <1>2, <2>1, <2>3
    <3>2. ASSUME NEW x \in Seen(a) PROVE fate[x] = "handled"
      BY SeenElement DEF History, SeenHandled
    <3> QED BY <3>1, <3>2
  <2> QED BY <2>2, <2>3
<1>11. Covered'
  <2>1. ASSUME NEW w \in Workers PROVE Unanswered(w)' = Unanswered(w)
    <3>1. Outstanding(w)' = Outstanding(w)
      BY <1>1 DEF Outstanding, Holds
    <3>2. Incomplete(w)' = Incomplete(w)
      BY <1>1, <1>3, <1>4 DEF Incomplete
    <3> QED BY <3>1, <3>2 DEF Unanswered
  <2> QED BY <1>1, <2>1, CoveredStill
<1> QED BY <1>5, <1>6, <1>7, <1>8, <1>9, <1>10, <1>11 DEF WorkItems, History

\* decodeBatch and partition: the call starts with every packet of the batch
\* still to be read.
LEMMA BeginHandleInv ==
  ASSUME PInv, NEW v \in Workers, BeginHandle(v)
  PROVE  PTypeOK' /\ WorkItems' /\ History' /\ Covered'
<1> USE AssemblyAssumption, BoundsAssumption DEF PInv
<1>1. /\ UNCHANGED <<pb, wpc, fate, wiCh, busy, assembled>>
      /\ hpc[v] = "idle" /\ wpc[v] = "handle"
      /\ hpc' = [hpc EXCEPT ![v] = "running"]
      /\ perWorker' = [perWorker EXCEPT ![v] = partition(v)]
      /\ offer' = [offer EXCEPT ![v] = 0]
      /\ pending' = [pending EXCEPT ![v] = 0]
      /\ doneCh' = [doneCh EXCEPT ![v] = 0]
  BY DEF BeginHandle, vars, assemblyVars
<1>2. /\ hpc'[v] = "running" /\ offer'[v] = 0 /\ pending'[v] = 0 /\ doneCh'[v] = 0
      /\ perWorker'[v] = partition(v)
      /\ \A w \in Workers : w # v =>
           /\ hpc'[w] = hpc[w] /\ perWorker'[w] = perWorker[w] /\ offer'[w] = offer[w]
           /\ pending'[w] = pending[w] /\ doneCh'[w] = doneCh[w]
  BY <1>1 DEF PTypeOK
<1>3. \A a \in Assembly : Seen(a)' = Seen(a)
  BY <1>1 DEF Seen
<1>4. PTypeOK'
  <2>1. TypeOK'
    BY DEF PTypeOK, TypeOK, BeginHandle, vars
  <2>2. partition(v) \in [Assembly -> SUBSET Indexes]
    <3>1. pb[v] \in Seq(Packets) /\ Len(pb[v]) <= MaxBatch
      BY DEF PTypeOK, TypeOK, Buffers, BufferOrder
    <3>2. DOMAIN pb[v] \subseteq Indexes
      BY <3>1 DEF Indexes
    <3> QED BY <3>2 DEF partition
  <2>3. perWorker' \in [Workers -> [Assembly -> SUBSET Indexes]]
    BY <1>1, <2>2 DEF PTypeOK
  <2>4. /\ hpc' \in [Workers -> {"idle", "running"}]
        /\ offer' \in [Workers -> 0..NumAssembly]
        /\ pending' \in [Workers -> Nat]
        /\ doneCh' \in [Workers -> 0..NumAssembly]
    BY <1>1 DEF PTypeOK
  <2> QED BY <1>1, <2>1, <2>3, <2>4 DEF PTypeOK
<1>5. Calls'
  <2>1. \A w : partition(w)' = partition(w)
    BY <1>1 DEF partition
  <2> QED BY <1>1, <1>2, <2>1 DEF WorkItems, Calls
<1>6. /\ \A a \in Assembly : \A k \in 1..Len(wiCh[a]) :
           wiCh[a][k].owner \in Workers /\ wiCh[a][k].owner # v
      /\ \A a \in Assembly : busy[a] # NoItem =>
           busy[a].owner \in Workers /\ busy[a].owner # v
  <2>1. ASSUME NEW a \in Assembly, NEW k \in 1..Len(wiCh[a])
        PROVE  wiCh[a][k].owner \in Workers /\ wiCh[a][k].owner # v
    <3>1. wiCh[a][k] \in Items
      BY DEF PTypeOK
    <3>2. hpc[wiCh[a][k].owner] = "running"
      BY DEF WorkItems, QueuedItems
    <3> QED BY <1>1, <3>1, <3>2 DEF Items
  <2>2. ASSUME NEW a \in Assembly, busy[a] # NoItem
        PROVE  busy[a].owner \in Workers /\ busy[a].owner # v
    BY <1>1, <2>2 DEF PTypeOK, Items, WorkItems, BusyItems
  <2> QED BY <2>1, <2>2
<1>7. QueuedItems' /\ OneItem'
  <2>1. QueuedItems'
    <3> SUFFICES ASSUME NEW a \in Assembly, NEW k \in 1..Len(wiCh[a])
                 PROVE  LET w == wiCh[a][k].owner
                        IN  hpc'[w] = "running" /\ a < offer'[w]
                              /\ wiCh[a][k].dps = perWorker'[w][a]
      BY <1>1 DEF QueuedItems
    <3> QED BY <1>2, <1>6 DEF WorkItems, QueuedItems
  <2>2. OneItem'
    BY <1>1 DEF WorkItems, OneItem
  <2> QED BY <2>1, <2>2
<1>8. BusyItems'
  BY <1>1, <1>2, <1>3, <1>6 DEF WorkItems, BusyItems
<1>9. SeenHandled' /\ SeenOnce'
  BY <1>1 DEF History, SeenHandled, SeenOnce
<1>10. Unseen'
  <2>1. \A a \in Assembly, w \in Workers : \A i \in 1..Len(pb[w]) :
          ToRead(a, w, i)' => ToRead(a, w, i)
    BY <1>1, <1>2 DEF ToRead, Queued
  <2> QED BY <1>1, <1>3, <2>1 DEF History, Unseen
<1>11. Covered'
  <2> SUFFICES ASSUME NEW w \in Workers
               PROVE  Cardinality(Unanswered(w)') + doneCh'[w] <= pending'[w]
    BY DEF Covered
  <2>0. Outstanding(w)' = Outstanding(w)
    BY <1>1 DEF Outstanding, Holds
  <2>1. CASE w = v
    <3>1. Outstanding(w) = {}
      BY <1>1, <2>1, HeldOffered DEF Unanswered
    <3>2. Incomplete(w)' = {}
      BY <1>2, <2>1 DEF Incomplete, Assembly
    <3>3. Unanswered(w)' = {}
      BY <2>0, <3>1, <3>2 DEF Unanswered
    <3> QED BY <1>2, <2>1, <3>3, FS_EmptySet
  <2>2. CASE w # v
    <3>1. Incomplete(w)' = Incomplete(w)
      BY <1>1, <1>2, <1>3, <2>2 DEF Incomplete
    <3>2. Unanswered(w)' = Unanswered(w)
      BY <2>0, <3>1 DEF Unanswered
    <3> QED BY <1>2, <2>2, <3>2 DEF Covered
  <2> QED BY <2>1, <2>2
<1> QED BY <1>4, <1>5, <1>7, <1>8, <1>9, <1>10, <1>11 DEF WorkItems, History

\* What the three outcomes of an offer have in common: the loop moves on, and
\* the part is empty, queued, or refused and counted all the same.
LEMMA OfferInv ==
  ASSUME PInv, NEW v \in Workers, Offering(v),
         UNCHANGED <<vars, hpc, perWorker, doneCh, busy, assembled>>,
         offer' = [offer EXCEPT ![v] = @ + 1],
         \/ Part(v) = {} /\ UNCHANGED <<pending, wiCh>>
         \/ /\ pending' = [pending EXCEPT ![v] = @ + 1]
            /\ \/ wiCh' = wiCh
               \/ wiCh' = [wiCh EXCEPT ![offer[v]] =
                             Append(@, [owner |-> v, dps |-> Part(v)])]
  PROVE  PTypeOK' /\ WorkItems' /\ History' /\ Covered'
<1> USE AssemblyAssumption DEF PInv
<1> DEFINE b == offer[v]
           it == [owner |-> v, dps |-> Part(v)]
<1>0. UNCHANGED <<pb, wpc, fate>>
  BY DEF vars
<1>1. /\ b \in Assembly /\ b \in Nat /\ offer'[v] = b + 1 /\ hpc[v] = "running"
      /\ \A w \in Workers : w # v => offer'[w] = offer[w]
      /\ \A w \in Workers : offer[w] \in Nat /\ offer[w] <= offer'[w]
      /\ perWorker[v][b] = Part(v)
      /\ wpc[v] = "handle"
  <2>1. /\ offer \in [Workers -> 0..NumAssembly]
        /\ offer' = [offer EXCEPT ![v] = @ + 1]
        /\ b < NumAssembly /\ hpc[v] = "running"
    BY DEF PTypeOK, Offering
  <2>2. b \in Assembly /\ b \in Nat
    BY <2>1 DEF Assembly
  <2>3. /\ offer'[v] = b + 1
        /\ \A w \in Workers : w # v => offer'[w] = offer[w]
    BY <2>1
  <2>4. \A w \in Workers : offer[w] \in Nat /\ offer[w] <= offer'[w]
    BY <2>1, <2>3
  <2>5. wpc[v] = "handle" /\ perWorker[v][b] = Part(v)
    BY <2>1 DEF WorkItems, Calls, Part
  <2> QED BY <2>1, <2>2, <2>3, <2>4, <2>5
<1>2. it \in Items /\ it.owner = v /\ it.dps = Part(v)
  BY <1>1 DEF Items, PTypeOK
<1>3. /\ \A a \in Assembly : a # b => wiCh'[a] = wiCh[a]
      /\ \/ wiCh'[b] = wiCh[b]
         \/ /\ wiCh'[b] = Append(wiCh[b], it)
            /\ pending'[v] = pending[v] + 1
  BY <1>1 DEF PTypeOK
<1>4. /\ \A w \in Workers : w # v => pending'[w] = pending[w]
      /\ pending'[v] \in {pending[v], pending[v] + 1}
      /\ pending'[v] = pending[v] => Part(v) = {} /\ wiCh' = wiCh
      /\ \A w \in Workers : pending[w] \in Nat /\ doneCh[w] \in Nat
  BY DEF PTypeOK
<1>5. /\ \A a \in Assembly : wiCh[a] \in Seq(Items)
      /\ Len(Append(wiCh[b], it)) = Len(wiCh[b]) + 1
      /\ \A k \in 1..Len(wiCh[b]) : Append(wiCh[b], it)[k] = wiCh[b][k]
      /\ Append(wiCh[b], it)[Len(wiCh[b]) + 1] = it
      /\ Len(wiCh[b]) \in Nat
  BY <1>1, <1>2 DEF PTypeOK
<1>6. \A a \in Assembly : Seen(a)' = Seen(a)
  BY DEF Seen
<1>7. ~ Queued(b, v) /\ busy[b].owner # v
  BY <1>1, HeldItems, HeldOffered DEF Unanswered
<1> HIDE DEF b, it
<1>8. PTypeOK'
  <2>1. TypeOK'
    BY DEF PTypeOK, TypeOK, vars
  <2>2. offer' \in [Workers -> 0..NumAssembly]
    BY DEF PTypeOK, Offering
  <2>3. pending' \in [Workers -> Nat]
    <3>1. pending \in [Workers -> Nat]
      BY DEF PTypeOK
    <3>2. pending' = pending \/ pending' = [pending EXCEPT ![v] = @ + 1]
      OBVIOUS
    <3> QED BY <3>1, <3>2
  <2>4. wiCh' \in [Assembly -> Seq(Items)]
    <3>1. CASE wiCh' = wiCh
      BY <3>1 DEF PTypeOK
    <3>2. CASE wiCh' = [wiCh EXCEPT ![b] = Append(@, it)]
      BY <1>1, <1>2, <1>5, <3>2 DEF PTypeOK
    <3> QED BY <3>1, <3>2 DEF b, it
  <2> QED BY <2>1, <2>2, <2>3, <2>4 DEF PTypeOK
<1>9. Calls'
  <2>1. \A w : partition(w)' = partition(w)
    BY <1>0 DEF partition
  <2>2. \A w \in Workers : pending[w] <= offer[w]
    BY DEF WorkItems, Calls
  <2>3. pending'[v] <= offer'[v]
    BY <1>1, <1>4, <2>2 DEF b
  <2>4. \A w \in Workers : pending'[w] <= offer'[w]
    BY <1>1, <1>4, <2>2, <2>3
  <2> QED BY <1>0, <2>1, <2>4 DEF WorkItems, Calls
<1>10. ASSUME NEW a \in Assembly, NEW k \in 1..Len(wiCh'[a])
       PROVE  \/ k \in 1..Len(wiCh[a]) /\ wiCh'[a][k] = wiCh[a][k]
              \/ a = b /\ k = Len(wiCh[b]) + 1 /\ wiCh'[a][k] = it
  <2>1. CASE wiCh'[a] = wiCh[a]
    BY <2>1
  <2>2. CASE a = b /\ wiCh'[b] = Append(wiCh[b], it)
    BY <1>5, <2>2
  <2> QED BY <1>3, <2>1, <2>2
<1>11. QueuedItems'
  <2> SUFFICES ASSUME NEW a \in Assembly, NEW k \in 1..Len(wiCh'[a])
               PROVE  LET w == wiCh'[a][k].owner
                      IN  hpc[w] = "running" /\ a < offer'[w]
                            /\ wiCh'[a][k].dps = perWorker[w][a]
    BY DEF QueuedItems
  <2>1. CASE k \in 1..Len(wiCh[a]) /\ wiCh'[a][k] = wiCh[a][k]
    <3>1. wiCh[a][k] \in Items
      BY <1>5, <2>1
    <3>2. wiCh[a][k].owner \in Workers
      BY <3>1 DEF Items
    <3>3. a \in Nat
      BY DEF Assembly
    <3> QED BY <1>1, <2>1, <3>2, <3>3 DEF WorkItems, QueuedItems
  <2>2. CASE a = b /\ wiCh'[a][k] = it
    BY <1>1, <1>2, <2>2
  <2> QED BY <1>10, <2>1, <2>2
<1>12. OneItem'
  <2> SUFFICES ASSUME NEW a \in Assembly
               PROVE  /\ \A k, l \in 1..Len(wiCh'[a]) :
                           wiCh'[a][k].owner = wiCh'[a][l].owner => k = l
                      /\ \A k \in 1..Len(wiCh'[a]) : wiCh'[a][k].owner # busy[a].owner
    BY DEF OneItem
  <2>1. \A k \in 1..Len(wiCh[b]) : wiCh[b][k].owner # v
    BY <1>7 DEF Queued
  <2>2. ASSUME NEW k \in 1..Len(wiCh'[a]) PROVE wiCh'[a][k].owner # busy[a].owner
    BY <1>2, <1>7, <1>10 DEF WorkItems, OneItem
  <2>3. ASSUME NEW k \in 1..Len(wiCh'[a]), NEW l \in 1..Len(wiCh'[a]),
               wiCh'[a][k].owner = wiCh'[a][l].owner
        PROVE  k = l
    <3>1. CASE wiCh'[a][k].owner = v /\ a = b
      BY <1>2, <1>10, <2>1, <2>3, <3>1
    <3>2. CASE wiCh'[a][k].owner # v \/ a # b
      <4>1. /\ k \in 1..Len(wiCh[a]) /\ wiCh'[a][k] = wiCh[a][k]
            /\ l \in 1..Len(wiCh[a]) /\ wiCh'[a][l] = wiCh[a][l]
        BY <1>2, <1>10, <2>3, <3>2
      <4> QED BY <2>3, <4>1 DEF WorkItems, OneItem
    <3> QED BY <3>1, <3>2
  <2> QED BY <2>2, <2>3
<1>13. BusyItems'
  <2> SUFFICES ASSUME NEW a \in Assembly, busy[a] # NoItem
               PROVE  LET w == busy[a].owner
                      IN  /\ hpc[w] = "running" /\ a < offer'[w]
                          /\ busy[a].dps \subseteq perWorker[w][a]
                          /\ \A j \in perWorker[w][a] \ busy[a].dps :
                               /\ pb[w][j] \in Seen(a)
                               /\ \A i \in busy[a].dps : j < i
    BY <1>0, <1>6 DEF BusyItems
  <2>1. busy[a].owner \in Workers /\ a \in Nat
    BY DEF PTypeOK, Items, Assembly
  <2> QED BY <1>1, <2>1 DEF WorkItems, BusyItems
<1>14. SeenHandled' /\ SeenOnce'
  BY <1>0 DEF History, SeenHandled, SeenOnce
<1>15. Unseen'
  <2> SUFFICES ASSUME NEW a \in Assembly, NEW w \in Workers, NEW i \in 1..Len(pb[w]),
                      ToRead(a, w, i)'
               PROVE  ToRead(a, w, i)
    BY <1>0, <1>6 DEF History, Unseen
  <2>1. Queued(a, w)' => Queued(a, w) \/ (a = b /\ w = v)
    BY <1>2, <1>10 DEF Queued
  <2>2. a \in Nat
    BY DEF Assembly
  <2>3. a >= offer'[w] => a >= offer[w]
    BY <1>1, <2>2
  <2>4. a = b /\ w = v => a >= offer[w]
    BY <1>1 DEF b
  <2> QED BY <1>0, <2>1, <2>3, <2>4 DEF ToRead
<1>16. Covered'
  <2> SUFFICES ASSUME NEW w \in Workers
               PROVE  Cardinality(Unanswered(w)') + doneCh[w] <= pending'[w]
    BY DEF Covered
  <2>1. ASSUME NEW a \in Unanswered(w)' PROVE a \in Unanswered(w) \/ (a = b /\ w = v)
    <3>1. CASE a \in Outstanding(w)'
      <4>1. a \in Assembly /\ (Queued(a, w)' \/ busy[a].owner = w)
        BY <3>1, HeldItems DEF Outstanding, Holds, Queued
      <4>2. Queued(a, w)' => Queued(a, w) \/ (a = b /\ w = v)
        BY <1>2, <1>10, <4>1 DEF Queued
      <4> QED BY <4>1, <4>2, HeldItems DEF Unanswered
    <3>2. CASE a \in Incomplete(w)'
      BY <1>0, <1>1, <1>6, <3>2 DEF Incomplete, Unanswered, Assembly, b
    <3> QED BY <3>1, <3>2 DEF Unanswered
  <2>2. ASSUME pending'[v] = pending[v], w = v PROVE b \notin Unanswered(w)'
    <3>1. b \notin Outstanding(w)'
      BY <1>1, <1>4, <1>7, <2>2, WorkersAssumption DEF Outstanding, Holds, Queued, NoItem
    <3>2. b \notin Incomplete(w)'
      BY <1>1, <1>4, <2>2 DEF Incomplete
    <3> QED BY <3>1, <3>2 DEF Unanswered
  <2>3. Cardinality(Unanswered(w)) + doneCh[w] <= pending[w]
    BY DEF Covered
  <2>4. Cardinality(Unanswered(w)) \in Nat /\ Unanswered(w) \in SUBSET Assembly
    BY UnansweredType
  <2>5. CASE w = v /\ pending'[v] = pending[v] + 1
    <3>1. Unanswered(w)' \subseteq Unanswered(w) \cup {b}
      BY <2>1
    <3>2. Unanswered(w) \cup {b} \in SUBSET Assembly
      BY <1>1, <2>4
    <3>3. Cardinality(Unanswered(w)') <= Cardinality(Unanswered(w) \cup {b})
      BY <3>1, <3>2, AssemblyFinite
    <3>4. Cardinality(Unanswered(w) \cup {b}) <= Cardinality(Unanswered(w)) + 1
      <4>1. IsFiniteSet(Unanswered(w))
        BY <2>4, AssemblyFinite
      <4>2. Cardinality(Unanswered(w) \cup {b})
              = IF b \in Unanswered(w) THEN Cardinality(Unanswered(w))
                ELSE Cardinality(Unanswered(w)) + 1
        BY <4>1, FS_AddElement
      <4> QED BY <2>4, <4>2
    <3>5. Cardinality(Unanswered(w)') \in Nat /\ Cardinality(Unanswered(w) \cup {b}) \in Nat
      BY <3>1, <3>2, AssemblyFinite
    <3> QED BY <1>4, <2>3, <2>4, <2>5, <3>3, <3>4, <3>5
  <2>6. CASE w # v \/ pending'[v] = pending[v]
    <3>1. Unanswered(w)' \subseteq Unanswered(w)
      BY <2>1, <2>2, <2>6
    <3>2. Cardinality(Unanswered(w)') <= Cardinality(Unanswered(w))
      BY <2>4, <3>1, AssemblyFinite
    <3>3. Cardinality(Unanswered(w)') \in Nat
      BY <2>4, <3>1, AssemblyFinite
    <3> QED BY <1>4, <2>3, <2>4, <2>6, <3>2, <3>3
  <2> QED BY <1>4, <2>5, <2>6
<1> QED BY <1>8, <1>9, <1>11, <1>12, <1>13, <1>14, <1>15, <1>16 DEF WorkItems, History

\* <-doneCh and the return of HandlePackets change nothing for other calls.
LEMMA AwaitDoneInv ==
  ASSUME PInv, NEW v \in Workers, AwaitDone(v)
  PROVE  PTypeOK' /\ WorkItems' /\ History' /\ Covered'
<1> USE AssemblyAssumption DEF PInv
<1>1. /\ UNCHANGED <<pb, wpc, fate, hpc, perWorker, offer, wiCh, busy, assembled>>
      /\ pending' = [pending EXCEPT ![v] = @ - 1]
      /\ doneCh' = [doneCh EXCEPT ![v] = @ - 1]
      /\ pending[v] > 0 /\ doneCh[v] > 0
  BY DEF AwaitDone, vars, assemblyVars
<1>2. /\ pending \in [Workers -> Nat] /\ doneCh \in [Workers -> 0..NumAssembly]
      /\ offer \in [Workers -> 0..NumAssembly]
  BY DEF PTypeOK
<1>3. /\ pending'[v] = pending[v] - 1 /\ doneCh'[v] = doneCh[v] - 1
      /\ \A w \in Workers : w # v => pending'[w] = pending[w] /\ doneCh'[w] = doneCh[w]
  BY <1>1, <1>2
<1>4. PTypeOK'
  <2>1. TypeOK'
    BY DEF PTypeOK, TypeOK, AwaitDone, vars
  <2>2. pending' \in [Workers -> Nat] /\ doneCh' \in [Workers -> 0..NumAssembly]
    BY <1>1, <1>2
  <2> QED BY <1>1, <2>1, <2>2 DEF PTypeOK
<1>5. Calls'
  <2>1. \A w \in Workers : pending[w] <= offer[w]
    BY DEF WorkItems, Calls
  <2>2. \A w \in Workers : pending'[w] <= offer[w]
    BY <1>1, <1>2, <1>3, <2>1
  <2>3. \A w : partition(w)' = partition(w)
    BY <1>1 DEF partition
  <2> QED BY <1>1, <2>2, <2>3 DEF WorkItems, Calls
<1>6. QueuedItems' /\ OneItem'
  BY <1>1 DEF WorkItems, QueuedItems, OneItem
<1>7. BusyItems'
  BY <1>1 DEF WorkItems, BusyItems, Seen
<1>8. SeenHandled' /\ SeenOnce'
  BY <1>1 DEF History, SeenHandled, SeenOnce
<1>9. Unseen'
  BY <1>1 DEF History, Unseen, ToRead, Queued, Seen
<1>10. Covered'
  <2> SUFFICES ASSUME NEW w \in Workers
               PROVE  Cardinality(Unanswered(w)') + doneCh'[w] <= pending'[w]
    BY DEF Covered
  <2>1. Unanswered(w)' = Unanswered(w)
    BY <1>1 DEF Unanswered, Outstanding, Holds, Incomplete, Seen
  <2>2. Cardinality(Unanswered(w)) + doneCh[w] <= pending[w]
    BY DEF Covered
  <2>3. Cardinality(Unanswered(w)) \in Nat
    BY UnansweredType
  <2> QED BY <1>2, <1>3, <2>1, <2>2, <2>3
<1> QED BY <1>4, <1>5, <1>6, <1>7, <1>8, <1>9, <1>10 DEF WorkItems, History

\* HandlePackets returns when nothing of its call is held any more.
LEMMA HandleReturnInv ==
  ASSUME PInv, NEW v \in Workers, HandleReturn(v)
  PROVE  /\ Unanswered(v) = {}
         /\ PTypeOK' /\ WorkItems' /\ History' /\ Covered'
<1> USE AssemblyAssumption DEF PInv
<1>1. /\ UNCHANGED <<pb, fate, perWorker, offer, pending, doneCh, wiCh, busy, assembled>>
      /\ hpc' = [hpc EXCEPT ![v] = "idle"]
      /\ wpc' = [wpc EXCEPT ![v] = "publish"]
      /\ pending[v] = 0
  BY DEF HandleReturn, HandlerReturns, assemblyVars
<1>2. /\ hpc'[v] = "idle" /\ wpc'[v] = "publish"
      /\ \A w \in Workers : w # v => hpc'[w] = hpc[w] /\ wpc'[w] = wpc[w]
  BY <1>1 DEF PTypeOK, TypeOK
<1>3. Unanswered(v) = {}
  <2>1. Cardinality(Unanswered(v)) + doneCh[v] <= 0
    BY <1>1 DEF Covered
  <2>2. Cardinality(Unanswered(v)) \in Nat /\ doneCh[v] \in Nat
    BY UnansweredType DEF PTypeOK
  <2>3. Cardinality(Unanswered(v)) = 0
    BY <2>1, <2>2
  <2>4. IsFiniteSet(Unanswered(v))
    BY UnansweredType, AssemblyFinite
  <2> QED BY <2>3, <2>4, FS_EmptySet
<1>4. PTypeOK'
  <2>1. TypeOK'
    BY DEF PTypeOK, TypeOK, HandleReturn, HandlerReturns, chanVars, runVars, srcVars
  <2>2. hpc' \in [Workers -> {"idle", "running"}]
    BY <1>1 DEF PTypeOK
  <2> QED BY <1>1, <2>1, <2>2 DEF PTypeOK
<1>5. Calls'
  <2>1. \A w : partition(w)' = partition(w)
    BY <1>1 DEF partition
  <2> QED BY <1>1, <1>2, <2>1 DEF WorkItems, Calls
<1>6. \A a \in Assembly : ~Queued(a, v) /\ busy[a].owner # v
  BY <1>3, HeldItems DEF Unanswered
<1>7. QueuedItems' /\ OneItem'
  <2>1. QueuedItems'
    <3> SUFFICES ASSUME NEW a \in Assembly, NEW k \in 1..Len(wiCh[a])
                 PROVE  LET w == wiCh[a][k].owner
                        IN  hpc'[w] = "running" /\ a < offer[w]
                              /\ wiCh[a][k].dps = perWorker[w][a]
      BY <1>1 DEF QueuedItems
    <3>1. wiCh[a][k] \in Items
      BY DEF PTypeOK
    <3>2. wiCh[a][k].owner \in Workers /\ wiCh[a][k].owner # v
      BY <1>6, <3>1 DEF Items, Queued
    <3> QED BY <1>2, <3>2 DEF WorkItems, QueuedItems
  <2>2. OneItem'
    BY <1>1 DEF WorkItems, OneItem
  <2> QED BY <2>1, <2>2
<1>8. BusyItems'
  <2>1. \A a \in Assembly : busy[a] # NoItem =>
          busy[a].owner \in Workers /\ hpc'[busy[a].owner] = hpc[busy[a].owner]
    BY <1>2, <1>6 DEF PTypeOK, Items
  <2> QED BY <1>1, <2>1 DEF WorkItems, BusyItems, Seen
<1>9. SeenHandled' /\ SeenOnce'
  BY <1>1 DEF History, SeenHandled, SeenOnce
<1>10. Unseen'
  <2>1. \A a \in Assembly, w \in Workers : \A i \in 1..Len(pb[w]) :
          ToRead(a, w, i)' => ToRead(a, w, i)
    BY <1>1, <1>2 DEF ToRead, Queued
  <2> QED BY <1>1, <2>1 DEF History, Unseen, Seen
<1>11. Covered'
  <2>1. ASSUME NEW w \in Workers PROVE Unanswered(w)' \subseteq Unanswered(w)
    <3>1. Outstanding(w)' = Outstanding(w)
      BY <1>1 DEF Outstanding, Holds
    <3>2. Incomplete(w)' \subseteq Incomplete(w)
      BY <1>1, <1>2 DEF Incomplete, Seen
    <3> QED BY <3>1, <3>2 DEF Unanswered
  <2> QED BY <1>1, <2>1, CoveredStill
<1> QED BY <1>3, <1>4, <1>5, <1>7, <1>8, <1>9, <1>10, <1>11 DEF WorkItems, History

\* The steps of HandlePackets keep the invariant.
LEMMA HandleInv ==
  ASSUME PInv, NEW w \in Workers, Handle(w)
  PROVE  PTypeOK' /\ WorkItems' /\ History' /\ Covered'
<1>1. CASE SkipEmpty(w)
  BY <1>1, OfferInv DEF SkipEmpty, assemblyVars
<1>2. CASE SendItem(w)
  BY <1>2, OfferInv DEF SendItem
<1>3. CASE QueueFull(w)
  BY <1>3, OfferInv DEF QueueFull, assemblyVars
<1> QED
  BY <1>1, <1>2, <1>3, BeginHandleInv, AwaitDoneInv, HandleReturnInv DEF Handle

-----------------------------------------------------------------------------
(* The steps of an assembly worker.                                        *)

\* Receiving from wiCh moves the oldest item into the worker's hand, whole.
LEMMA TakeItemInv ==
  ASSUME PInv, NEW b \in Assembly, TakeItem(b)
  PROVE  PTypeOK' /\ WorkItems' /\ History' /\ Covered'
<1> USE AssemblyAssumption DEF PInv
<1> DEFINE q == wiCh[b]
<1>1. /\ UNCHANGED <<pb, wpc, fate, hpc, perWorker, offer, pending, doneCh, assembled>>
      /\ busy[b] = NoItem /\ q # <<>>
      /\ busy' = [busy EXCEPT ![b] = Head(q)]
      /\ wiCh' = [wiCh EXCEPT ![b] = Tail(q)]
  BY DEF TakeItem, vars, handleVars
<1>2. /\ q \in Seq(Items) /\ Len(q) \in Nat /\ 1 \in 1..Len(q)
      /\ Head(q) = q[1] /\ Head(q) \in Items /\ Head(q).owner \in Workers
      /\ Tail(q) \in Seq(Items)
      /\ Len(Tail(q)) = Len(q) - 1
      /\ \A k \in 1..Len(Tail(q)) : Tail(q)[k] = q[k + 1] /\ k + 1 \in 1..Len(q)
  <2>1. q \in Seq(Items) /\ q # <<>>
    BY <1>1 DEF PTypeOK
  <2> HIDE DEF q
  <2>2. Head(q) = q[1] /\ Head(q) \in Items /\ 1 \in 1..Len(q)
    BY <2>1
  <2>3. Head(q).owner \in Workers
    BY <2>2 DEF Items
  <2>4. Tail(q) \in Seq(Items) /\ Len(Tail(q)) = Len(q) - 1 /\ Len(q) \in Nat
    BY <2>1
  <2>5. \A k \in 1..Len(Tail(q)) : Tail(q)[k] = q[k + 1] /\ k + 1 \in 1..Len(q)
    BY <2>1, <2>4
  <2> QED BY <2>1, <2>2, <2>3, <2>4, <2>5
<1>3. /\ busy'[b] = Head(q) /\ wiCh'[b] = Tail(q)
      /\ \A a \in Assembly : a # b => busy'[a] = busy[a] /\ wiCh'[a] = wiCh[a]
  BY <1>1 DEF PTypeOK
<1> HIDE DEF q
<1>4. PTypeOK'
  <2>1. TypeOK'
    BY DEF PTypeOK, TypeOK, TakeItem, vars
  <2>2. wiCh' \in [Assembly -> Seq(Items)] /\ busy' \in [Assembly -> Items \cup {NoItem}]
    BY <1>1, <1>2 DEF PTypeOK
  <2> QED BY <1>1, <2>1, <2>2 DEF PTypeOK
<1>5. Calls'
  BY <1>1 DEF WorkItems, Calls, partition
<1>6. ASSUME NEW a \in Assembly, NEW k \in 1..Len(wiCh'[a])
      PROVE  \E l \in 1..Len(wiCh[a]) :
               /\ wiCh'[a][k] = wiCh[a][l]
               /\ l = IF a = b THEN k + 1 ELSE k
  BY <1>2, <1>3 DEF q
<1>7. QueuedItems'
  <2>0. hpc' = hpc /\ offer' = offer /\ perWorker' = perWorker
    BY <1>1
  <2> SUFFICES ASSUME NEW a \in Assembly, NEW k \in 1..Len(wiCh'[a])
               PROVE  LET w == wiCh'[a][k].owner
                      IN  hpc[w] = "running" /\ a < offer[w]
                            /\ wiCh'[a][k].dps = perWorker[w][a]
    BY <2>0 DEF QueuedItems
  <2>1. PICK l \in 1..Len(wiCh[a]) : wiCh'[a][k] = wiCh[a][l]
    BY <1>6
  <2> QED BY <2>1 DEF WorkItems, QueuedItems
<1>8. OneItem'
  <2> SUFFICES ASSUME NEW a \in Assembly, NEW k \in 1..Len(wiCh'[a])
               PROVE  /\ \A l \in 1..Len(wiCh'[a]) :
                           wiCh'[a][k].owner = wiCh'[a][l].owner => k = l
                      /\ wiCh'[a][k].owner # busy'[a].owner
    BY DEF OneItem
  <2>1. ASSUME NEW l \in 1..Len(wiCh'[a]), wiCh'[a][k].owner = wiCh'[a][l].owner
        PROVE  k = l
    <3>1. PICK k1 \in 1..Len(wiCh[a]) :
            wiCh'[a][k] = wiCh[a][k1] /\ k1 = IF a = b THEN k + 1 ELSE k
      BY <1>6
    <3>2. PICK l1 \in 1..Len(wiCh[a]) :
            wiCh'[a][l] = wiCh[a][l1] /\ l1 = IF a = b THEN l + 1 ELSE l
      BY <1>6
    <3>3. k1 = l1
      BY <2>1, <3>1, <3>2 DEF WorkItems, OneItem
    <3> QED BY <3>1, <3>2, <3>3
  <2>2. CASE a = b
    <3>1. wiCh'[a][k] = q[k + 1] /\ k + 1 \in 1..Len(q) /\ k + 1 # 1
      <4>1. wiCh'[a] = Tail(q)
        BY <1>3, <2>2
      <4>2. k \in 1..Len(Tail(q)) /\ k + 1 # 1
        BY <4>1
      <4>3. Tail(q)[k] = q[k + 1] /\ k + 1 \in 1..Len(q)
        BY <1>2, <4>2
      <4> QED BY <4>1, <4>2, <4>3
    <3>2. q[k + 1].owner # q[1].owner
      BY <1>2, <2>2, <3>1 DEF WorkItems, OneItem, q
    <3> QED BY <1>2, <1>3, <2>1, <2>2, <3>1, <3>2
  <2>3. CASE a # b
    BY <1>3, <2>1, <2>3 DEF WorkItems, OneItem
  <2> QED BY <2>2, <2>3
<1>9. BusyItems'
  <2> SUFFICES ASSUME NEW a \in Assembly, busy'[a] # NoItem
               PROVE  LET w == busy'[a].owner
                      IN  /\ hpc[w] = "running" /\ a < offer[w]
                          /\ busy'[a].dps \subseteq perWorker[w][a]
                          /\ \A j \in perWorker[w][a] \ busy'[a].dps :
                               /\ pb[w][j] \in Seen(a)
                               /\ \A i \in busy'[a].dps : j < i
    BY <1>1 DEF BusyItems, Seen
  <2>1. CASE a = b
    <3>1. /\ hpc[q[1].owner] = "running" /\ b < offer[q[1].owner]
          /\ q[1].dps = perWorker[q[1].owner][b]
      BY <1>2 DEF WorkItems, QueuedItems, q
    <3> QED BY <1>2, <1>3, <2>1, <3>1
  <2>2. CASE a # b
    BY <1>3, <2>2 DEF WorkItems, BusyItems
  <2> QED BY <2>1, <2>2
<1>10. SeenHandled' /\ SeenOnce'
  BY <1>1 DEF History, SeenHandled, SeenOnce
<1>11. ASSUME NEW a \in Assembly, NEW w \in Workers, Queued(a, w)' \/ busy'[a].owner = w
       PROVE  Queued(a, w) \/ busy[a].owner = w
  <2>1. Queued(a, w)' => Queued(a, w)
    BY <1>6 DEF Queued
  <2>2. busy'[a].owner = w => Queued(a, w) \/ busy[a].owner = w
    BY <1>2, <1>3 DEF Queued, q
  <2> QED BY <1>11, <2>1, <2>2
<1>12. Unseen'
  <2> SUFFICES ASSUME NEW a \in Assembly, NEW w \in Workers, NEW i \in 1..Len(pb[w]),
                      ToRead(a, w, i)'
               PROVE  ToRead(a, w, i)
    BY <1>1 DEF History, Unseen, Seen
  <2>1. Queued(a, w)' => Queued(a, w)
    BY <1>6 DEF Queued
  <2>2. busy'[a].owner = w /\ i \in busy'[a].dps =>
          Queued(a, w) \/ (busy[a].owner = w /\ i \in busy[a].dps)
    BY <1>2, <1>3 DEF Queued, q
  <2> QED BY <1>1, <2>1, <2>2 DEF ToRead
<1>13. Covered'
  <2>1. ASSUME NEW w \in Workers PROVE Unanswered(w)' \subseteq Unanswered(w)
    <3>1. Outstanding(w)' = {a \in Assembly : Queued(a, w)' \/ busy'[a].owner = w}
      <4>1. ASSUME NEW a \in Assembly
            PROVE  Holds(a, w)' <=> Queued(a, w)' \/ busy'[a].owner = w
        BY WorkersAssumption DEF Holds, Queued, NoItem
      <4> QED BY <4>1 DEF Outstanding
    <3>2. Outstanding(w)' \subseteq Outstanding(w)
      BY <1>11, <3>1, HeldItems
    <3>3. Incomplete(w)' = Incomplete(w)
      BY <1>1 DEF Incomplete, Seen
    <3> QED BY <3>2, <3>3 DEF Unanswered
  <2> QED BY <1>1, <2>1, CoveredStill
<1> QED BY <1>4, <1>5, <1>7, <1>8, <1>9, <1>10, <1>12, <1>13 DEF WorkItems, History

\* AssembleWithTimestamp reads the smallest index left: a packet of this slot
\* that this assembler has not seen.
LEMMA AssembleReads ==
  ASSUME PInv, NEW b \in Assembly, busy[b].dps # {}
  PROVE  LET w == busy[b].owner
             i == First(busy[b].dps)
         IN  /\ busy[b] \in Items /\ busy[b] # NoItem
             /\ w \in Workers /\ wpc[w] = "handle" /\ hpc[w] = "running"
             /\ i \in busy[b].dps /\ \A j \in busy[b].dps : i <= j
             /\ i \in 1..Len(pb[w]) /\ pb[w][i] \in Packets
             /\ Slot[pb[w][i]] = b
             /\ pb[w][i] \notin Seen(b)
             /\ fate[pb[w][i]] = "handled"
             /\ perWorker[w][b] = {j \in 1..Len(pb[w]) : Slot[pb[w][j]] = b}
<1> USE DEF PInv
<1> DEFINE w == busy[b].owner
           i == First(busy[b].dps)
<1>1. busy[b] # NoItem /\ busy[b] \in Items
  BY DEF NoItem, PTypeOK
<1>2. w \in Workers /\ busy[b].dps \in SUBSET Nat
  BY <1>1, BoundsAssumption DEF Items, Indexes
<1>3. i \in busy[b].dps /\ \A j \in busy[b].dps : i <= j
  BY <1>2, FirstIsLeast
<1>4. hpc[w] = "running" /\ b < offer[w] /\ busy[b].dps \subseteq perWorker[w][b]
  BY <1>1 DEF WorkItems, BusyItems
<1>5. wpc[w] = "handle" /\ perWorker[w] = partition(w)
  BY <1>2, <1>4 DEF WorkItems, Calls
<1>6. pb[w] \in Seq(Packets)
  BY <1>2 DEF PTypeOK, TypeOK
<1>7. perWorker[w][b] = {j \in 1..Len(pb[w]) : Slot[pb[w][j]] = b}
  BY <1>5, <1>6 DEF partition
<1>8. i \in 1..Len(pb[w]) /\ Slot[pb[w][i]] = b
  BY <1>3, <1>4, <1>7
<1>9. pb[w][i] \in Packets
  BY <1>6, <1>8
<1>10. ToRead(b, w, i)
  BY <1>3, <1>5, <1>8 DEF ToRead
<1>11. pb[w][i] \notin Seen(b)
  BY <1>2, <1>8, <1>10 DEF History, Unseen
<1>12. fate[pb[w][i]] = "handled"
  BY <1>2, <1>5, <1>8 DEF IInv, Accounting, Recycled
<1> QED
  BY <1>1, <1>2, <1>3, <1>4, <1>5, <1>7, <1>8, <1>9, <1>11, <1>12

\* The steps of an assembly worker keep the invariant.
LEMMA AssembleInv ==
  ASSUME PInv, NEW b \in Assembly, Assemble(b)
  PROVE  PTypeOK' /\ WorkItems' /\ History' /\ Covered'
<1> USE AssemblyAssumption DEF PInv
<1> DEFINE v == busy[b].owner
           n == First(busy[b].dps)
           x == pb[v][n]
<1>1. /\ UNCHANGED <<pb, wpc, fate, hpc, perWorker, offer, pending, doneCh, wiCh>>
      /\ busy[b].dps # {}
      /\ busy' = [busy EXCEPT ![b].dps = @ \ {n}]
      /\ assembled' = [assembled EXCEPT ![b] =
                         IF n \in DOMAIN pb[v] THEN Append(@, x) ELSE @]
  BY DEF Assemble, vars, handleVars
<1>2. /\ busy[b] \in Items /\ busy[b] # NoItem
      /\ v \in Workers /\ wpc[v] = "handle" /\ hpc[v] = "running"
      /\ n \in busy[b].dps /\ \A j \in busy[b].dps : n <= j
      /\ n \in 1..Len(pb[v]) /\ x \in Packets
      /\ Slot[x] = b
      /\ x \notin Seen(b)
      /\ fate[x] = "handled"
      /\ perWorker[v][b] = {j \in 1..Len(pb[v]) : Slot[pb[v][j]] = b}
  BY <1>1, AssembleReads
<1>3. n \in DOMAIN pb[v]
  BY <1>2 DEF PTypeOK, TypeOK
<1> HIDE DEF n, x
<1>4. /\ busy'[b].owner = v /\ busy'[b].dps = busy[b].dps \ {n}
      /\ busy'[b] \in Items
      /\ \A a \in Assembly : a # b => busy'[a] = busy[a]
  <2>1. busy \in [Assembly -> Items \cup {NoItem}]
    BY DEF PTypeOK
  <2>2. busy'[b] = [busy[b] EXCEPT !.dps = @ \ {n}]
    BY <1>1, <2>1
  <2>3. \A a \in Assembly : a # b => busy'[a] = busy[a]
    BY <1>1, <2>1
  <2> QED BY <1>2, <2>2, <2>3 DEF Items
<1>5. /\ assembled[b] \in Seq(Packets)
      /\ assembled'[b] = Append(assembled[b], x)
      /\ \A a \in Assembly : a # b => assembled'[a] = assembled[a]
  BY <1>1, <1>3 DEF PTypeOK
<1>6. /\ Seen(b)' = Seen(b) \cup {x}
      /\ \A a \in Assembly : a # b => Seen(a)' = Seen(a)
  BY <1>2, <1>5, SeenAppend DEF Seen
<1>7. \A a \in Assembly : Seen(a) \subseteq Seen(a)'
  BY <1>6
<1>8. PTypeOK'
  <2>1. TypeOK'
    BY DEF PTypeOK, TypeOK, Assemble, vars
  <2>2. assembled' \in [Assembly -> Seq(Packets)]
    BY <1>1, <1>2, <1>3 DEF PTypeOK
  <2>3. busy' \in [Assembly -> Items \cup {NoItem}]
    <3>1. busy' = [busy EXCEPT ![b] = busy'[b]] /\ busy \in [Assembly -> Items \cup {NoItem}]
      BY <1>1 DEF PTypeOK
    <3> QED BY <1>4, <3>1
  <2> QED BY <1>1, <2>1, <2>2, <2>3 DEF PTypeOK
<1>9. Calls'
  BY <1>1 DEF WorkItems, Calls, partition
<1>10. QueuedItems'
  BY <1>1 DEF WorkItems, QueuedItems
<1>11. OneItem'
  <2>1. \A a \in Assembly : busy'[a].owner = busy[a].owner
    BY <1>4
  <2> QED BY <1>1, <2>1 DEF WorkItems, OneItem
<1>12. BusyItems'
  <2> SUFFICES ASSUME NEW a \in Assembly, busy'[a] # NoItem
               PROVE  LET w == busy'[a].owner
                      IN  /\ hpc[w] = "running" /\ a < offer[w]
                          /\ busy'[a].dps \subseteq perWorker[w][a]
                          /\ \A j \in perWorker[w][a] \ busy'[a].dps :
                               /\ pb[w][j] \in Seen(a)'
                               /\ \A i \in busy'[a].dps : j < i
    BY <1>1 DEF BusyItems
  <2>1. CASE a # b
    BY <1>4, <1>7, <2>1 DEF WorkItems, BusyItems
  <2>2. CASE a = b
    <3>1. /\ hpc[v] = "running" /\ b < offer[v]
          /\ busy[b].dps \subseteq perWorker[v][b]
          /\ \A j \in perWorker[v][b] \ busy[b].dps :
               pb[v][j] \in Seen(b) /\ \A i \in busy[b].dps : j < i
      BY <1>2 DEF WorkItems, BusyItems
    <3>2. \A j \in perWorker[v][b] : j \in Nat
      BY <1>2
    <3>3. ASSUME NEW j \in perWorker[v][b] \ (busy[b].dps \ {n})
          PROVE  pb[v][j] \in Seen(b)' /\ \A i \in busy[b].dps \ {n} : j < i
      <4>1. CASE j = n
        BY <1>2, <1>6, <3>1, <3>2, <4>1 DEF x
      <4>2. CASE j # n
        BY <1>7, <3>1, <4>2
      <4> QED BY <4>1, <4>2
    <3> QED BY <1>4, <2>2, <3>1, <3>3
  <2> QED BY <2>1, <2>2
<1>13. /\ Len(assembled'[b]) = Len(assembled[b]) + 1
       /\ assembled'[b][Len(assembled[b]) + 1] = x
       /\ \A k \in 1..Len(assembled[b]) : assembled'[b][k] = assembled[b][k]
       /\ Len(assembled[b]) \in Nat
  BY <1>2, <1>5
<1>14. SeenHandled'
  <2> SUFFICES ASSUME NEW a \in Assembly, NEW k \in 1..Len(assembled'[a])
               PROVE  Slot[assembled'[a][k]] = a /\ fate[assembled'[a][k]] = "handled"
    BY <1>1 DEF SeenHandled
  <2>1. CASE a = b /\ k = Len(assembled[b]) + 1
    BY <1>2, <1>13, <2>1
  <2>2. CASE k \in 1..Len(assembled[a]) /\ assembled'[a][k] = assembled[a][k]
    BY <2>2 DEF History, SeenHandled
  <2> QED BY <1>5, <1>13, <2>1, <2>2
<1>15. SeenOnce'
  <2> SUFFICES ASSUME NEW a \in Assembly,
                      NEW k \in 1..Len(assembled'[a]), NEW l \in 1..Len(assembled'[a]),
                      assembled'[a][k] = assembled'[a][l]
               PROVE  k = l
    BY DEF SeenOnce
  <2>1. CASE a # b
    BY <1>5, <2>1 DEF History, SeenOnce
  <2>2. CASE a = b
    <3>1. \A m \in 1..Len(assembled[b]) : assembled[b][m] # x
      BY <1>2, SeenElement
    <3>2. CASE k \in 1..Len(assembled[b]) /\ l \in 1..Len(assembled[b])
      BY <1>13, <2>2, <3>2 DEF History, SeenOnce
    <3>3. CASE k = Len(assembled[b]) + 1 \/ l = Len(assembled[b]) + 1
      BY <1>13, <2>2, <3>1, <3>3, SMTT(40)
    <3> QED BY <1>13, <2>2, <3>2, <3>3
  <2> QED BY <2>1, <2>2
<1>16. Unseen'
  <2> SUFFICES ASSUME NEW a \in Assembly, NEW w \in Workers, NEW i \in 1..Len(pb[w]),
                      ToRead(a, w, i)'
               PROVE  pb[w][i] \notin Seen(a)'
    BY <1>1 DEF Unseen
  <2>1. ToRead(a, w, i)
    BY <1>1, <1>4 DEF ToRead, Queued
  <2>2. pb[w][i] \notin Seen(a)
    BY <2>1 DEF History, Unseen
  <2>3. CASE a = b /\ w = v /\ i = n
    <3>1. b < offer[v] /\ ~Queued(b, v)
      BY <1>2 DEF WorkItems, BusyItems, OneItem, Queued
    <3>2. offer[v] \in Nat /\ b \in Nat
      BY <1>2 DEF PTypeOK, Assembly
    <3> QED BY <1>1, <1>2, <1>4, <2>3, <3>1, <3>2 DEF ToRead, Queued
  <2>4. CASE a = b /\ ~(w = v /\ i = n)
    <3>1. pb[w][i] # x
      <4>1. CASE w # v
        BY <1>2, <4>1 DEF Buffers, Disjoint, x
      <4>2. CASE w = v
        <5>1. i < n \/ n < i
          BY <1>2, <2>4, <4>2
        <5>2. pb[v][i] \in Nat /\ x \in Nat
          <6>1. pb[v] \in Seq(Packets)
            BY <1>2 DEF PTypeOK, TypeOK
          <6>2. pb[v][i] \in Packets
            BY <4>2, <6>1
          <6> QED BY <1>2, <6>2 DEF Packets
        <5> QED BY <1>2, <4>2, <5>1, <5>2 DEF Buffers, BufferOrder, x
      <4> QED BY <4>1, <4>2
    <3> QED BY <1>6, <2>2, <2>4, <3>1
  <2>5. CASE a # b
    BY <1>6, <2>2, <2>5
  <2> QED BY <2>3, <2>4, <2>5
<1>17. Covered'
  <2>1. ASSUME NEW w \in Workers PROVE Unanswered(w)' \subseteq Unanswered(w)
    <3>1. Outstanding(w)' \subseteq Outstanding(w)
      BY <1>1, <1>2, <1>4 DEF Outstanding, Holds
    <3>2. Incomplete(w)' \subseteq Incomplete(w)
      BY <1>1, <1>7 DEF Incomplete
    <3> QED BY <3>1, <3>2 DEF Unanswered
  <2> QED BY <1>1, <2>1, CoveredStill
<1> QED
  BY <1>8, <1>9, <1>10, <1>11, <1>12, <1>14, <1>15, <1>16, <1>17 DEF WorkItems, History

\* The completion: the item leaves the worker's hand when all of it has been
\* seen, so its slot counts as answered.
LEMMA FinishItemInv ==
  ASSUME PInv, NEW b \in Assembly, FinishItem(b)
  PROVE  PTypeOK' /\ WorkItems' /\ History' /\ Covered'
<1> USE AssemblyAssumption DEF PInv
<1> DEFINE v == busy[b].owner
<1>1. /\ UNCHANGED <<pb, wpc, fate, hpc, perWorker, offer, pending, wiCh, assembled>>
      /\ busy[b] # NoItem /\ busy[b].dps = {}
      /\ busy' = [busy EXCEPT ![b] = NoItem]
      /\ doneCh[v] < NumAssembly
      /\ doneCh' = [doneCh EXCEPT ![v] = @ + 1]
  BY DEF FinishItem, vars
<1>2. v \in Workers
  BY <1>1 DEF PTypeOK, Items
<1>3. /\ busy'[b] = NoItem
      /\ \A a \in Assembly : a # b => busy'[a] = busy[a]
      /\ doneCh'[v] = doneCh[v] + 1
      /\ \A w \in Workers : w # v => doneCh'[w] = doneCh[w]
      /\ \A w \in Workers : doneCh[w] \in Nat /\ pending[w] \in Nat
  BY <1>1, <1>2 DEF PTypeOK
<1>4. PTypeOK'
  <2>1. TypeOK'
    BY DEF PTypeOK, TypeOK, FinishItem, vars
  <2>2. busy' \in [Assembly -> Items \cup {NoItem}]
    BY <1>1 DEF PTypeOK
  <2>3. doneCh' \in [Workers -> 0..NumAssembly]
    BY <1>1, <1>2 DEF PTypeOK
  <2> QED BY <1>1, <2>1, <2>2, <2>3 DEF PTypeOK
<1>5. Calls'
  BY <1>1 DEF WorkItems, Calls, partition
<1>6. QueuedItems'
  BY <1>1 DEF WorkItems, QueuedItems
<1>7. OneItem'
  <2>1. \A a \in Assembly : \A k \in 1..Len(wiCh[a]) : wiCh[a][k].owner \in Workers
    <3>1. \A a \in Assembly : \A k \in 1..Len(wiCh[a]) : wiCh[a][k] \in Items
      BY DEF PTypeOK
    <3> QED BY <3>1 DEF Items
  <2> QED BY <1>1, <1>3, <2>1, WorkersAssumption DEF WorkItems, OneItem, NoItem
<1>8. BusyItems'
  <2> SUFFICES ASSUME NEW a \in Assembly, busy'[a] # NoItem
               PROVE  LET w == busy'[a].owner
                      IN  /\ hpc[w] = "running" /\ a < offer[w]
                          /\ busy'[a].dps \subseteq perWorker[w][a]
                          /\ \A j \in perWorker[w][a] \ busy'[a].dps :
                               /\ pb[w][j] \in Seen(a)
                               /\ \A i \in busy'[a].dps : j < i
    BY <1>1 DEF BusyItems, Seen
  <2>1. a # b /\ busy'[a] = busy[a]
    BY <1>3
  <2> QED BY <2>1 DEF WorkItems, BusyItems
<1>9. SeenHandled' /\ SeenOnce'
  BY <1>1 DEF History, SeenHandled, SeenOnce
<1>10. Unseen'
  <2>1. \A a \in Assembly, w \in Workers : \A i \in 1..Len(pb[w]) :
          ToRead(a, w, i)' => ToRead(a, w, i)
    BY <1>1, <1>3 DEF ToRead, Queued, NoItem
  <2> QED BY <1>1, <2>1 DEF History, Unseen, Seen
<1>11. Covered'
  <2> SUFFICES ASSUME NEW w \in Workers
               PROVE  Cardinality(Unanswered(w)') + doneCh'[w] <= pending[w]
    BY <1>1 DEF Covered
  <2>1. Incomplete(w)' = Incomplete(w)
    BY <1>1 DEF Incomplete, Seen
  <2>2. Outstanding(w)' \subseteq Outstanding(w)
    BY <1>1, <1>3 DEF Outstanding, Holds
  <2>3. Unanswered(w)' \subseteq Unanswered(w)
    BY <2>1, <2>2 DEF Unanswered
  <2>4. /\ Cardinality(Unanswered(w)) + doneCh[w] <= pending[w]
        /\ Cardinality(Unanswered(w)) \in Nat
        /\ Unanswered(w) \in SUBSET Assembly
    BY UnansweredType DEF Covered
  <2>5. CASE w # v
    <3>1. /\ Cardinality(Unanswered(w)') <= Cardinality(Unanswered(w))
          /\ Cardinality(Unanswered(w)') \in Nat
      BY <2>3, <2>4, AssemblyFinite
    <3> QED BY <1>3, <2>4, <2>5, <3>1
  <2>6. CASE w = v
    <3>1. b \in Unanswered(w)
      BY <1>2, <2>6, HeldItems DEF Unanswered
    <3>2. b \notin Outstanding(w)'
      <4>1. \A k \in 1..Len(wiCh[b]) : wiCh[b][k].owner # v
        BY DEF WorkItems, OneItem
      <4>2. wiCh[b] \in Seq(Items)
        BY DEF PTypeOK
      <4> QED BY <1>1, <1>3, <2>6, <4>1, <4>2 DEF Outstanding, Holds
    <3>3. b \notin Incomplete(w)'
      <4>1. \A j \in perWorker[v][b] : pb[v][j] \in Seen(b)
        BY <1>1 DEF WorkItems, BusyItems
      <4> QED BY <2>1, <2>6, <4>1 DEF Incomplete
    <3>4. Unanswered(w)' \in SUBSET (Unanswered(w) \ {b})
      BY <2>3, <3>2, <3>3 DEF Unanswered
    <3>5. Cardinality(Unanswered(w) \ {b}) = Cardinality(Unanswered(w)) - 1
      <4>1. IsFiniteSet(Unanswered(w))
        BY <2>4, AssemblyFinite
      <4> QED BY <3>1, <4>1, FS_RemoveElement
    <3>6. /\ Cardinality(Unanswered(w)') <= Cardinality(Unanswered(w) \ {b})
          /\ Cardinality(Unanswered(w)') \in Nat
      <4>1. Unanswered(w) \ {b} \in SUBSET Assembly /\ Unanswered(w)' \in SUBSET Assembly
        BY <2>4, <3>4
      <4> QED BY <3>4, <4>1, AssemblyFinite
    <3> QED BY <1>3, <2>4, <2>6, <3>5, <3>6
  <2> QED BY <2>5, <2>6
<1> QED BY <1>4, <1>5, <1>6, <1>7, <1>8, <1>9, <1>10, <1>11 DEF WorkItems, History

-----------------------------------------------------------------------------
(* PInv is inductive, and what follows from it.                            *)

\* Every step keeps the invariant.
LEMMA PInvStep == PInv /\ [PNext]_allVars => PInv'
<1> SUFFICES ASSUME PInv, [PNext]_allVars PROVE PInv'
  OBVIOUS
<1>1. [Next]_vars
  BY PStep DEF allVars
<1>2. IInv' /\ Buffers'
  BY <1>1, IInvStep, BuffersStep DEF PInv
<1>3. CASE PoolStep
  BY <1>2, <1>3, PoolStepInv DEF PInv, IInv
<1>4. CASE \E w \in Workers : Handle(w)
  BY <1>2, <1>4, HandleInv DEF PInv
<1>5. CASE \E a \in Assembly : AssemblyLoop(a)
  BY <1>2, <1>5, TakeItemInv, AssembleInv, FinishItemInv DEF PInv, AssemblyLoop
<1>6. CASE UNCHANGED allVars
  <2>1. UNCHANGED <<vars, pb, wpc, fate, hpc, perWorker, offer, pending, doneCh, wiCh,
                    busy, assembled>>
    BY <1>6 DEF allVars, vars, pipeVars
  <2>2. PTypeOK'
    BY <1>2, <2>1 DEF PInv, PTypeOK, IInv
  <2>3. WorkItems'
    BY <2>1
    DEF PInv, WorkItems, Calls, QueuedItems, BusyItems, OneItem, partition, Seen
  <2>4. History'
    BY <2>1 DEF PInv, History, SeenHandled, SeenOnce, Unseen, ToRead, Queued, Seen
  <2>5. Covered'
    BY <2>1 DEF PInv, Covered, Unanswered, Outstanding, Holds, Incomplete, Seen
  <2> QED BY <1>2, <2>2, <2>3, <2>4, <2>5 DEF PInv
<1> QED BY <1>3, <1>4, <1>5, <1>6 DEF PNext, PTerminated

\* The inductive invariant of the pipeline, HandlePackets and the assembly
\* workers included.
THEOREM PInvInvariant == PSpec => []PInv
  BY PInvInit, PInvStep, PTL DEF PSpec

\* The number of completions a call has counted covers its items and doneCh.
LEMMA PinnedByCount ==
  ASSUME PInv, NEW w \in Workers
  PROVE  /\ Cardinality(Outstanding(w)) + doneCh[w] <= pending[w]
         /\ Cardinality(Outstanding(w)) \in Nat
         /\ doneCh[w] \in Nat /\ pending[w] \in Nat
<1>1. Outstanding(w) \in SUBSET Unanswered(w) /\ Unanswered(w) \in SUBSET Assembly
  BY UnansweredType DEF Unanswered
<1>2. /\ Cardinality(Outstanding(w)) <= Cardinality(Unanswered(w))
      /\ Cardinality(Outstanding(w)) \in Nat /\ Cardinality(Unanswered(w)) \in Nat
  BY <1>1, AssemblyFinite
<1>3. /\ Cardinality(Unanswered(w)) + doneCh[w] <= pending[w]
      /\ doneCh[w] \in Nat /\ pending[w] \in Nat
  BY AssemblyAssumption DEF PInv, Covered, PTypeOK
<1> QED BY <1>2, <1>3

\* An assembly worker never reads a decode worker's buffer outside of that
\* worker's call of HandlePackets, and the call cannot return before the item
\* is finished.
THEOREM ItemsArePinned == PSpec => []ItemsPinned
<1>1. PInv => ItemsPinned
  <2> SUFFICES ASSUME PInv, NEW w \in Workers
               PROVE  /\ Outstanding(w) # {} => wpc[w] = "handle" /\ hpc[w] = "running"
                      /\ Cardinality(Outstanding(w)) + doneCh[w] <= pending[w]
    BY DEF ItemsPinned
  <2> QED BY HeldOffered, PinnedByCount DEF Unanswered
<1> QED BY <1>1, PInvInvariant, PTL

\* Every packet an assembler reads lies in the buffer of a running call and
\* belongs to the assembler's slot, for any FlowHash.
THEOREM PacketsMeetTheirSlot == PSpec => []RightSlot
<1>1. PInv => RightSlot
  <2> SUFFICES ASSUME PInv, NEW a \in Assembly
               PROVE  /\ \A i \in DOMAIN assembled[a] : Slot[assembled[a][i]] = a
                      /\ busy[a] # NoItem =>
                           \A i \in busy[a].dps : i \in DOMAIN pb[busy[a].owner]
    BY DEF RightSlot
  <2>1. DOMAIN assembled[a] = 1..Len(assembled[a])
    BY DEF PInv, PTypeOK
  <2>2. \A i \in DOMAIN assembled[a] : Slot[assembled[a][i]] = a
    BY <2>1 DEF PInv, History, SeenHandled
  <2>3. ASSUME busy[a] # NoItem, NEW i \in busy[a].dps
        PROVE  i \in DOMAIN pb[busy[a].owner]
    <3>1. /\ busy[a].owner \in Workers
          /\ i \in perWorker[busy[a].owner][a]
          /\ perWorker[busy[a].owner] = partition(busy[a].owner)
      BY <2>3 DEF PInv, PTypeOK, Items, WorkItems, BusyItems, Calls
    <3> QED BY <3>1 DEF partition
  <2> QED BY <2>2, <2>3
<1> QED BY <1>1, PInvInvariant, PTL

\* An assembler sees each packet at most once, and an assembly worker never
\* waits for room in the caller's doneCh.
THEOREM PacketsAssembledOnce == PSpec => []AssembledOnce
<1>1. PInv => AssembledOnce
  <2> SUFFICES ASSUME PInv, NEW a \in Assembly
               PROVE  /\ \A i, j \in DOMAIN assembled[a] :
                           assembled[a][i] = assembled[a][j] => i = j
                      /\ busy[a] # NoItem => doneCh[busy[a].owner] < NumAssembly
    BY DEF AssembledOnce, PInv
  <2>1. DOMAIN assembled[a] = 1..Len(assembled[a])
    BY DEF PInv, PTypeOK
  <2>2. \A i, j \in DOMAIN assembled[a] : assembled[a][i] = assembled[a][j] => i = j
    BY <2>1 DEF PInv, History, SeenOnce
  <2>3. ASSUME busy[a] # NoItem PROVE doneCh[busy[a].owner] < NumAssembly
    <3> DEFINE w == busy[a].owner
    <3>1. w \in Workers
      BY <2>3 DEF PInv, PTypeOK, Items
    <3>2. a \in Outstanding(w)
      BY <3>1, HeldItems
    <3>3. Cardinality(Outstanding(w)) # 0
      <4>1. IsFiniteSet(Outstanding(w))
        BY UnansweredType, AssemblyFinite DEF Unanswered
      <4> QED BY <3>2, <4>1, FS_EmptySet
    <3>4. /\ Cardinality(Outstanding(w)) + doneCh[w] <= pending[w]
          /\ Cardinality(Outstanding(w)) \in Nat /\ doneCh[w] \in Nat
      BY <3>1, PinnedByCount
    <3>5. /\ pending[w] <= offer[w] /\ offer[w] <= NumAssembly
          /\ pending[w] \in Nat /\ offer[w] \in Nat
      BY <3>1, AssemblyAssumption DEF PInv, PTypeOK, WorkItems, Calls
    <3> QED BY <3>3, <3>4, <3>5, AssemblyAssumption
  <2> QED BY <2>2, <2>3
<1> QED BY <1>1, PInvInvariant, PTL

\* HandlePackets returns only when every packet of the batch has been given to
\* the assembler of its slot: after a refused offer it does not return.
THEOREM ReturnIsComplete == PSpec => CompleteOnReturn
<1> DEFINE Complete ==
      \A w \in Workers :
        wpc[w] = "handle" /\ wpc'[w] # "handle" =>
          \A i \in DOMAIN pb[w] : pb[w][i] \in Seen(Slot[pb[w][i]])
<1>1. PInv /\ [PNext]_allVars => [Complete]_allVars
  <2> SUFFICES ASSUME PInv, PNext PROVE Complete
    OBVIOUS
  <2> SUFFICES ASSUME NEW w \in Workers, wpc[w] = "handle", wpc'[w] # "handle",
                      NEW i \in DOMAIN pb[w]
               PROVE  pb[w][i] \in Seen(Slot[pb[w][i]])
    OBVIOUS
  <2>1. ~PoolStep
    BY PoolFrame DEF PoolStep, PInv
  <2>2. \A a \in Assembly : ~AssemblyLoop(a)
    BY DEF AssemblyLoop, TakeItem, Assemble, FinishItem, vars
  <2>3. ~PTerminated
    BY DEF PTerminated, allVars, vars
  <2>4. PICK v \in Workers : Handle(v)
    BY <2>1, <2>2, <2>3 DEF PNext
  <2>5. HandleReturn(v)
    BY <2>4 DEF Handle, BeginHandle, SkipEmpty, SendItem, QueueFull, AwaitDone, vars
  <2>6. v = w
    BY <2>5 DEF HandleReturn, HandlerReturns, PInv, PTypeOK, TypeOK
  <2>7. Unanswered(w) = {}
    BY <2>5, <2>6, HandleReturnInv
  <2>8. hpc[w] = "running" /\ offer[w] = NumAssembly
    BY <2>5, <2>6 DEF HandleReturn, Awaiting
  <2>9. perWorker[w] = partition(w) /\ pb[w] \in Seq(Packets)
    BY <2>8 DEF PInv, WorkItems, Calls, PTypeOK, TypeOK
  <2> DEFINE a == Slot[pb[w][i]]
  <2>10. a \in Assembly /\ a < NumAssembly /\ i \in perWorker[w][a]
    <3>1. pb[w][i] \in Packets
      BY <2>9
    <3>2. a \in Assembly
      BY <3>1, AssemblyAssumption
    <3> QED BY <2>9, <3>2, AssemblyAssumption DEF partition, Assembly
  <2> HIDE DEF a
  <2>11. a \notin Incomplete(w)
    BY <2>7 DEF Unanswered
  <2> QED BY <2>8, <2>10, <2>11 DEF Incomplete, a
<1> QED BY <1>1, PInvInvariant, PTL DEF PSpec, CompleteOnReturn

\* The packets of one batch that share a slot are assembled in capture order,
\* whatever the other decode workers put into the queues in between.
THEOREM BatchesInOrder == PSpec => BatchOrder
<1> DEFINE InOrder ==
      \A a \in Assembly :
        assembled'[a] # assembled[a] =>
          \A w \in Workers :
            Last(assembled'[a]) \in ToSet(pb[w]) =>
              \A q \in Seen(a) \cap ToSet(pb[w]) : q < Last(assembled'[a])
<1>1. PInv /\ [PNext]_allVars => [InOrder]_allVars
  <2> SUFFICES ASSUME PInv, PNext PROVE InOrder
    OBVIOUS
  <2> SUFFICES ASSUME NEW a \in Assembly, assembled'[a] # assembled[a],
                      NEW w \in Workers, Last(assembled'[a]) \in ToSet(pb[w]),
                      NEW q \in Seen(a) \cap ToSet(pb[w])
               PROVE  q < Last(assembled'[a])
    OBVIOUS
  <2>1. PICK b \in Assembly : Assemble(b)
    BY DEF PNext, PoolStep, PTerminated, allVars, pipeVars, Handle, BeginHandle, SkipEmpty,
           SendItem, QueueFull, AwaitDone, HandleReturn, AssemblyLoop, TakeItem,
           FinishItem, assemblyVars
  <2>2. a = b
    BY <2>1 DEF Assemble, PInv, PTypeOK
  <2> DEFINE v == busy[a].owner
             n == First(busy[a].dps)
             x == pb[v][n]
  <2>3. busy[a].dps # {}
    BY <2>1, <2>2 DEF Assemble
  <2>4. /\ busy[a] # NoItem /\ v \in Workers
        /\ n \in busy[a].dps
        /\ n \in 1..Len(pb[v]) /\ x \in Packets
        /\ perWorker[v][a] = {j \in 1..Len(pb[v]) : Slot[pb[v][j]] = a}
        /\ wpc[v] = "handle"
    BY <2>3, AssembleReads
  <2>5. \A u \in Workers : pb[u] \in Seq(Packets)
    BY DEF PInv, PTypeOK, TypeOK
  <2>6. assembled'[a] = Append(assembled[a], x) /\ assembled[a] \in Seq(Packets)
    BY <2>1, <2>2, <2>4, <2>5 DEF Assemble, PInv, PTypeOK
  <2> HIDE DEF n, x
  <2>7. Last(assembled'[a]) = x
    BY <2>4, <2>6 DEF Last
  <2>8. PICK i \in 1..Len(pb[w]) : pb[w][i] = x
    BY <2>5, <2>7 DEF ToSet
  <2>9. PICK j \in 1..Len(pb[w]) : pb[w][j] = q
    BY <2>5 DEF ToSet
  <2>10. w = v
    BY <2>4, <2>8 DEF PInv, Buffers, Disjoint, x
  <2>11. Slot[q] = a
    <3>1. \E k \in 1..Len(assembled[a]) : assembled[a][k] = q
      BY SeenElement DEF PInv
    <3> QED BY <3>1 DEF PInv, History, SeenHandled
  <2>12. j \in perWorker[v][a]
    BY <2>4, <2>9, <2>10, <2>11
  <2>13. j \notin busy[a].dps
    <3>1. ASSUME j \in busy[a].dps PROVE ToRead(a, v, j)
      BY <2>4, <2>9, <2>10, <2>11, <3>1 DEF ToRead
    <3> QED BY <2>4, <2>9, <2>10, <3>1 DEF PInv, History, Unseen
  <2>14. j < n
    BY <2>4, <2>12, <2>13 DEF PInv, WorkItems, BusyItems
  <2>15. pb[v][j] < pb[v][n]
    BY <2>4, <2>9, <2>10, <2>14 DEF PInv, Buffers, BufferOrder
  <2> QED BY <2>7, <2>9, <2>10, <2>15 DEF x
<1> QED BY <1>1, PInvInvariant, PTL DEF PSpec, BatchOrder

\* What Pool.Run and the decode workers guarantee, they guarantee with the
\* assembly pool behind them: no channel operation blocks or panics, the
\* statistics are exact, and Run returns with every packet handled.
THEOREM PoolGuarantees == PSpec => [](ChannelSafety /\ StatsExact /\ Drained)
  BY RefinesDecodePool, ChannelsSafe, StatsAreExact, RunDrains, PTL
=============================================================================

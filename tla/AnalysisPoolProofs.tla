------------------------- MODULE AnalysisPoolProofs -------------------------
(***************************************************************************)
(* Proofs about the analysis pool, for any set of callers and events, any  *)
(* number of workers, any assignment of keys to workers, any queue         *)
(* capacity and any report size.                                           *)
(*                                                                         *)
(* Routing says that an event only ever meets the worker of its key and    *)
(* how far each call of HandleEvents has come; OnePlace that an event is   *)
(* in exactly one place; Counters what the statistics count in the middle  *)
(* of a call; Reporting what Report has collected so far.                  *)
(***************************************************************************)
EXTENDS AnalysisPool, FiniteSetTheorems, TLAPS

\* The worker that owns the key of e.
Owner(e) == Slot[ItemOf[e]]

\* Every part, batch and hotlist holds events of its worker's keys.  A call has
\* nothing left for the workers it has passed, and has an outcome to account
\* for only while it is at a worker.
Routing ==
  /\ \A c \in Callers :
       /\ \A w \in Workers :
            /\ \A e \in todo[c][w] : Owner(e) = w
            /\ w < at[c] => todo[c][w] = {}
       /\ offered[c] # "no" => at[c] < NumWorkers
  /\ \A w \in Workers :
       /\ \A i \in 1..Len(kisChan[w]) : \A e \in kisChan[w][i] : Owner(e) = w
       /\ \A e \in hl[w] : Owner(e) = w
       /\ \A e \in snap[w] : Owner(e) = w
  /\ rpc = "reset" => shouldReset /\ visit < NumWorkers

-----------------------------------------------------------------------------
(* Where an event is.                                                      *)

InCall(e, c)  == e \in todo[c][Owner(e)]
Todo(e, c)    == InCall(e, c) /\ (offered[c] = "no" \/ Owner(e) # at[c])
Queued(e, i)  == i \in 1..Len(kisChan[Owner(e)]) /\ e \in kisChan[Owner(e)][i]
Hot(e)        == e \in hl[Owner(e)]

\* Event e is somewhere.
Somewhere(e) ==
  \/ e \in fresh \/ e \in filtered \/ e \in shed \/ e \in cleared
  \/ \E c \in Callers : Todo(e, c)
  \/ \E i \in Nat : Queued(e, i)
  \/ Hot(e)

\* Event e is nowhere else.
NotTwice(e) ==
  /\ e \in fresh => e \notin filtered /\ \A c \in Callers : ~InCall(e, c)
  /\ e \in filtered => \A c \in Callers : ~InCall(e, c)
  /\ e \in fresh \/ e \in filtered => e \notin shed
  /\ e \in fresh \/ e \in filtered \/ e \in shed => e \notin cleared
  /\ e \in fresh \/ e \in filtered \/ e \in shed \/ e \in cleared => ~Hot(e)
  /\ e \in fresh \/ e \in filtered \/ e \in shed \/ e \in cleared \/ Hot(e) =>
       /\ \A c \in Callers : ~Todo(e, c)
       /\ \A i \in Nat : ~Queued(e, i)
  /\ \A c \in Callers : \A i \in Nat : Todo(e, c) => ~Queued(e, i)
  /\ \A c, d \in Callers : InCall(e, c) /\ InCall(e, d) => c = d
  /\ \A i, j \in Nat : Queued(e, i) /\ Queued(e, j) => i = j

\* An offer that was refused has shed its events, one that was not has not.
OutcomeKept ==
  \A c \in Callers :
    /\ offered[c] = "full" => todo[c][at[c]] \subseteq shed
    /\ offered[c] = "queued" => todo[c][at[c]] \cap shed = {}

OnePlace == (\A e \in Events : Somewhere(e) /\ NotTwice(e)) /\ OutcomeKept

-----------------------------------------------------------------------------
(* The counters.                                                           *)

Open       == {e \in Events : \E c \in Callers : InCall(e, c)}
Dispatched == Events \ (fresh \cup filtered \cup Open)
Lost       == shed \ Open

Counters ==
  /\ dropped = Cardinality(Lost)
  /\ handled + dropped = Cardinality(Dispatched)

-----------------------------------------------------------------------------
(* Report.                                                                 *)

\* With resets, what a report has counted is erased, or about to be.
CountedOnce ==
  shouldReset => \A e \in Events :
    /\ counted[e] <= 1
    /\ counted[e] # 0 => e \in cleared \/ (rpc = "reset" /\ e \in hl[visit])

\* The call of Report in progress, or the last one, has asked worker w.
Asked(w) == rpc = "idle" \/ w < visit \/ (rpc = "reset" /\ w = visit)

\* The items of worker w among the entries.
Listed(w) == {x.item : x \in {y \in entries : Slot[y.item] = w}}

Collecting ==
  /\ rpc = "idle" => report = entries
  /\ \A w \in Workers : ~Asked(w) => snap[w] = {}
  /\ \A x \in entries : Asked(Slot[x.item]) /\ x.count = Count(snap[Slot[x.item]], x.item)
  /\ \A w \in Workers : Asked(w) => Listed(w) \in Tops(snap[w], ReportSize)

\* Without resets, hotlists grow and reports follow them.
Growing ==
  ~shouldReset =>
    /\ \A w \in Workers : snap[w] \subseteq hl[w]
    /\ \A x \in report :
         /\ x.count <= Count(hl[Slot[x.item]], x.item)
         /\ Asked(Slot[x.item]) => x.count <= Count(snap[Slot[x.item]], x.item)

\* The last report lists an item once, for at least one event.
WellFormed ==
  /\ \A x, y \in report : x.item = y.item => x = y
  /\ \A x \in report : x.count # 0 /\ ReportSize # 0

Reporting == CountedOnce /\ Collecting /\ Growing /\ WellFormed

AInv == TypeOK /\ Routing /\ OnePlace /\ Counters /\ Reporting

-----------------------------------------------------------------------------
(* Types and routing.                                                      *)

\* The worker of an event, by partition of its key.
LEMMA OwnerType == ASSUME NEW e \in Events PROVE Owner(e) \in Workers /\ ItemOf[e] \in Items
  BY AnalysisAssumption DEF Owner

\* A count is a natural number.
LEMMA CountType == ASSUME NEW h \in SUBSET Events, NEW i PROVE Count(h, i) \in Nat
<1>1. IsFiniteSet({e \in h : ItemOf[e] = i})
  BY AnalysisAssumption, FS_Subset
<1> QED BY <1>1, FS_CardinalityType DEF Count

\* A hotlist that only gains events lowers no count.
LEMMA CountGrows ==
  ASSUME NEW g \in SUBSET Events, NEW h \in SUBSET g, NEW i
  PROVE  Count(h, i) <= Count(g, i)
<1>1. IsFiniteSet({e \in g : ItemOf[e] = i})
  BY AnalysisAssumption, FS_Subset
<1>2. {e \in h : ItemOf[e] = i} \in SUBSET {e \in g : ItemOf[e] = i}
  OBVIOUS
<1> QED BY <1>1, <1>2, FS_Subset DEF Count

\* Reading and appending to the queue of a worker.
LEMMA QueueFacts ==
  ASSUME NEW q \in Seq(SUBSET Events)
  PROVE  /\ Len(q) \in Nat
         /\ \A i \in 1..Len(q) : q[i] \in SUBSET Events
         /\ \A S \in SUBSET Events :
              /\ Append(q, S) \in Seq(SUBSET Events)
              /\ Len(Append(q, S)) = Len(q) + 1
              /\ Append(q, S)[Len(q) + 1] = S
              /\ \A i \in 1..Len(q) : Append(q, S)[i] = q[i]
         /\ q # <<>> =>
              /\ Head(q) = q[1] /\ 1 \in 1..Len(q) /\ Head(q) \in SUBSET Events
              /\ Tail(q) \in Seq(SUBSET Events)
              /\ Len(Tail(q)) = Len(q) - 1
              /\ \A i \in 1..Len(Tail(q)) : Tail(q)[i] = q[i + 1]
<1>1. /\ Len(q) \in Nat
      /\ \A i \in 1..Len(q) : q[i] \in SUBSET Events
  OBVIOUS
<1>2. ASSUME NEW S \in SUBSET Events
      PROVE  /\ Append(q, S) \in Seq(SUBSET Events)
             /\ Len(Append(q, S)) = Len(q) + 1
             /\ Append(q, S)[Len(q) + 1] = S
             /\ \A i \in 1..Len(q) : Append(q, S)[i] = q[i]
  OBVIOUS
<1>3. ASSUME q # <<>>
      PROVE  /\ Head(q) = q[1] /\ 1 \in 1..Len(q) /\ Head(q) \in SUBSET Events
             /\ Tail(q) \in Seq(SUBSET Events)
             /\ Len(Tail(q)) = Len(q) - 1
             /\ \A i \in 1..Len(Tail(q)) : Tail(q)[i] = q[i + 1]
  BY <1>3
<1> QED BY <1>1, <1>2, <1>3

\* The worker a call is at.
LEMMA AtWorker ==
  ASSUME TypeOK, NEW c \in Callers, at[c] < NumWorkers
  PROVE  /\ at[c] \in Workers /\ at[c] \in Nat
         /\ todo[c][at[c]] \in SUBSET Events
         /\ kisChan[at[c]] \in Seq(SUBSET Events)
<1>1. at[c] \in Workers /\ at[c] \in Nat
  BY AnalysisAssumption DEF TypeOK, Workers
<1>2. todo[c] \in [Workers -> SUBSET Events] /\ kisChan \in [Workers -> Seq(SUBSET Events)]
  BY DEF TypeOK
<1> QED BY <1>1, <1>2

\* At the start no event is anywhere.
LEMMA RoutingInit == Init => TypeOK /\ Routing
<1> SUFFICES ASSUME Init PROVE TypeOK /\ Routing
  OBVIOUS
<1> USE AnalysisAssumption
<1>1. TypeOK
  <2>1. /\ todo \in [Callers -> [Workers -> SUBSET Events]]
        /\ kisChan \in [Workers -> Seq(SUBSET Events)]
    BY DEF Init
  <2>2. /\ at \in [Callers -> 0..NumWorkers] /\ counted \in [Events -> Nat]
        /\ offered \in [Callers -> {"no", "queued", "full"}]
        /\ hl \in [Workers -> SUBSET Events] /\ snap \in [Workers -> SUBSET Events]
    BY DEF Init
  <2> QED BY <2>1, <2>2 DEF Init, TypeOK
<1>2. Routing
  BY DEF Init, Routing, Workers
<1> QED BY <1>1, <1>2

\* The steps of a call of HandleEvents keep the events with their workers.
LEMMA RoutingCall ==
  ASSUME TypeOK, Routing, NEW c \in Callers,
         Call(c) \/ (\E S \in Batches : HandleEvents(c, S))
  PROVE  TypeOK' /\ Routing'
<1> USE AnalysisAssumption
<1>1. ASSUME NEW S \in Batches, HandleEvents(c, S) PROVE TypeOK' /\ Routing'
  <2> DEFINE P == partitionEvents(filterEvents(S))
  <2>1. P \in [Workers -> SUBSET Events] /\ \A w \in Workers : \A e \in P[w] : Owner(e) = w
    BY DEF partitionEvents, filterEvents, Batches, Owner
  <2>2. fresh' \subseteq Events /\ filtered' \subseteq Events
    BY <1>1 DEF HandleEvents, TypeOK, Batches
  <2>3. todo' = [todo EXCEPT ![c] = P] /\ at' = [at EXCEPT ![c] = 0]
    BY <1>1 DEF HandleEvents
  <2> HIDE DEF P
  <2>4. /\ todo' \in [Callers -> [Workers -> SUBSET Events]]
        /\ at' \in [Callers -> 0..NumWorkers]
    BY <2>1, <2>3 DEF TypeOK
  <2>5. TypeOK'
    BY <1>1, <2>2, <2>4 DEF TypeOK, HandleEvents, reportVars
  <2>6. offered[c] = "no"
    BY <1>1 DEF HandleEvents, Routing
  <2>7. ASSUME NEW d \in Callers
        PROVE  /\ \A w \in Workers :
                    /\ \A e \in todo'[d][w] : Owner(e) = w
                    /\ w < at'[d] => todo'[d][w] = {}
               /\ offered[d] # "no" => at'[d] < NumWorkers
    <3>1. CASE d = c
      BY <2>1, <2>3, <2>6, <3>1 DEF TypeOK, Workers
    <3>2. CASE d # c
      BY <2>3, <3>2 DEF TypeOK, Routing
    <3> QED BY <3>1, <3>2
  <2> QED BY <1>1, <2>5, <2>7 DEF Routing, HandleEvents, reportVars
<1>2. CASE SkipWorker(c)
  <2>1. /\ at' = [at EXCEPT ![c] = @ + 1] /\ at[c] < NumWorkers /\ at[c] \in Nat
        /\ todo[c][at[c]] = {} /\ offered[c] = "no"
        /\ UNCHANGED <<shouldReset, fresh, filtered, todo, offered, shed, handled,
                       dropped, kisChan, hl, cleared, rpc, visit, snap, entries,
                       report, counted>>
    BY <1>2, AtWorker DEF SkipWorker, reportVars
  <2>2. at' \in [Callers -> 0..NumWorkers]
    BY <2>1 DEF TypeOK
  <2>3. ASSUME NEW d \in Callers
        PROVE  /\ \A w \in Workers : w < at'[d] => todo[d][w] = {}
               /\ offered[d] # "no" => at'[d] < NumWorkers
    <3>1. CASE d = c
      <4>1. at'[c] = at[c] + 1
        BY <2>1 DEF TypeOK
      <4>2. \A w \in Workers : w < at[c] + 1 => w < at[c] \/ w = at[c]
        BY <2>1 DEF Workers
      <4>3. \A w \in Workers : w < at[c] => todo[c][w] = {}
        BY DEF Routing
      <4> QED BY <2>1, <3>1, <4>1, <4>2, <4>3
    <3>2. CASE d # c
      BY <2>1, <3>2 DEF TypeOK, Routing
    <3> QED BY <3>1, <3>2
  <2> QED BY <2>1, <2>2, <2>3 DEF TypeOK, Routing
<1>3. CASE Enqueue(c)
  <2> DEFINE w == at[c]
             T == todo[c][w]
  <2>1. /\ kisChan' = [kisChan EXCEPT ![w] = Append(@, T)]
        /\ offered' = [offered EXCEPT ![c] = "queued"]
        /\ UNCHANGED <<shouldReset, fresh, filtered, todo, at, shed, handled,
                       dropped, hl, cleared, rpc, visit, snap, entries,
                       report, counted>>
        /\ w \in Workers /\ T \in SUBSET Events /\ w < NumWorkers
        /\ kisChan[w] \in Seq(SUBSET Events)
    BY <1>3, AtWorker DEF Enqueue, reportVars
  <2>2. \A e \in T : Owner(e) = w
    BY <2>1 DEF Routing
  <2> HIDE DEF T
  <2>3. kisChan' \in [Workers -> Seq(SUBSET Events)]
    BY <2>1, QueueFacts DEF TypeOK
  <2>4. offered' \in [Callers -> {"no", "queued", "full"}]
    BY <2>1 DEF TypeOK
  <2>5. ASSUME NEW v \in Workers, NEW i \in 1..Len(kisChan'[v]), NEW e \in kisChan'[v][i]
        PROVE  Owner(e) = v
    <3>1. CASE v = w
      <4>1. kisChan'[w] = Append(kisChan[w], T)
        BY <2>1 DEF TypeOK
      <4>2. CASE i = Len(kisChan[w]) + 1
        BY <2>1, <2>2, <3>1, <4>1, <4>2, QueueFacts
      <4>3. CASE i \in 1..Len(kisChan[w])
        <5>1. e \in kisChan[v][i]
          BY <2>1, <3>1, <4>1, <4>3, QueueFacts
        <5> QED BY <3>1, <4>3, <5>1 DEF Routing
      <4> QED BY <2>1, <3>1, <4>1, <4>2, <4>3, QueueFacts
    <3>2. CASE v # w
      BY <2>1, <3>2 DEF TypeOK, Routing
    <3> QED BY <3>1, <3>2
  <2>6. \A d \in Callers : offered'[d] # "no" => at[d] < NumWorkers
    BY <2>1 DEF TypeOK, Routing
  <2>7. TypeOK'
    BY <2>1, <2>3, <2>4 DEF TypeOK
  <2> QED BY <2>1, <2>5, <2>6, <2>7 DEF Routing
<1>4. CASE Overload(c)
  <2>1. /\ shed' = shed \cup todo[c][at[c]]
        /\ offered' = [offered EXCEPT ![c] = "full"]
        /\ UNCHANGED <<shouldReset, fresh, filtered, todo, at, handled,
                       dropped, kisChan, hl, cleared, rpc, visit, snap, entries,
                       report, counted>>
        /\ todo[c][at[c]] \in SUBSET Events /\ at[c] < NumWorkers
    BY <1>4, AtWorker DEF Overload, reportVars
  <2>2. offered' \in [Callers -> {"no", "queued", "full"}]
    BY <2>1 DEF TypeOK
  <2>3. \A d \in Callers : offered'[d] # "no" => at[d] < NumWorkers
    BY <2>1 DEF TypeOK, Routing
  <2>4. TypeOK'
    BY <2>1, <2>2 DEF TypeOK
  <2> QED BY <2>1, <2>3, <2>4 DEF Routing
<1>5. CASE Account(c)
  <2> DEFINE w == at[c]
             n == Cardinality(todo[c][w])
  <2>1. /\ offered[c] # "no"
        /\ handled' = IF offered[c] = "queued" THEN handled + n ELSE handled
        /\ dropped' = IF offered[c] = "full" THEN dropped + n ELSE dropped
        /\ offered' = [offered EXCEPT ![c] = "no"]
        /\ todo' = [todo EXCEPT ![c][w] = {}]
        /\ at' = [at EXCEPT ![c] = @ + 1]
        /\ UNCHANGED <<shouldReset, fresh, filtered, shed, kisChan, hl, cleared, rpc,
                       visit, snap, entries, report, counted>>
    BY <1>5 DEF Account, reportVars
  <2>2. w < NumWorkers /\ w \in Workers /\ w \in Nat /\ todo[c][w] \in SUBSET Events
    BY <2>1, AtWorker DEF Routing
  <2>3. n \in Nat
    BY <2>2, FS_Subset, FS_CardinalityType
  <2> HIDE DEF n
  <2>4. handled' \in Nat /\ dropped' \in Nat
    BY <2>1, <2>3 DEF TypeOK
  <2>5. /\ todo' \in [Callers -> [Workers -> SUBSET Events]]
        /\ at' \in [Callers -> 0..NumWorkers]
        /\ offered' \in [Callers -> {"no", "queued", "full"}]
    BY <2>1, <2>2 DEF TypeOK
  <2>6. TypeOK'
    BY <2>1, <2>4, <2>5 DEF TypeOK
  <2>7. ASSUME NEW d \in Callers
        PROVE  /\ \A v \in Workers :
                    /\ \A e \in todo'[d][v] : Owner(e) = v
                    /\ v < at'[d] => todo'[d][v] = {}
               /\ offered'[d] # "no" => at'[d] < NumWorkers
    <3>1. CASE d = c
      <4>1. /\ at'[c] = w + 1 /\ offered'[c] = "no"
            /\ \A v \in Workers : todo'[c][v] = IF v = w THEN {} ELSE todo[c][v]
        BY <2>1, <2>2 DEF TypeOK
      <4>2. \A v \in Workers : v < w + 1 => v < w \/ v = w
        BY <2>2 DEF Workers
      <4>3. \A v \in Workers : v < w => todo[c][v] = {}
        BY DEF Routing
      <4>4. \A v \in Workers : \A e \in todo[c][v] : Owner(e) = v
        BY DEF Routing
      <4> HIDE DEF w
      <4> QED BY <3>1, <4>1, <4>2, <4>3, <4>4
    <3>2. CASE d # c
      BY <2>1, <3>2 DEF TypeOK, Routing
    <3> QED BY <3>1, <3>2
  <2> QED BY <2>1, <2>6, <2>7 DEF Routing
<1> QED BY <1>1, <1>2, <1>3, <1>4, <1>5 DEF Call

\* The steps of a worker and of Report.
LEMMA RoutingReport ==
  ASSUME TypeOK, Routing, (\E w \in Workers : Process(w)) \/ BeginReport \/ Report
  PROVE  TypeOK' /\ Routing'
<1> USE AnalysisAssumption
<1>0. visit < NumWorkers => visit \in Workers
  BY DEF TypeOK, Workers
<1>1. ASSUME NEW w \in Workers, Process(w) PROVE TypeOK' /\ Routing'
  <2>1. /\ kisChan[w] # <<>> /\ kisChan[w] \in Seq(SUBSET Events)
        /\ hl' = [hl EXCEPT ![w] = @ \cup Head(kisChan[w])]
        /\ kisChan' = [kisChan EXCEPT ![w] = Tail(@)]
        /\ UNCHANGED <<shouldReset, fresh, filtered, todo, at, offered, shed, handled,
                       dropped, cleared, rpc, visit, snap, entries, report, counted>>
    BY <1>1 DEF Process, callVars, reportVars, TypeOK
  <2>2. /\ kisChan' \in [Workers -> Seq(SUBSET Events)]
        /\ hl' \in [Workers -> SUBSET Events]
    BY <2>1, QueueFacts DEF TypeOK
  <2>3. TypeOK'
    BY <2>1, <2>2 DEF TypeOK
  <2>4. ASSUME NEW v \in Workers
        PROVE  /\ \A i \in 1..Len(kisChan'[v]) : \A e \in kisChan'[v][i] : Owner(e) = v
               /\ \A e \in hl'[v] : Owner(e) = v
    <3>1. CASE v = w
      <4>1. kisChan'[w] = Tail(kisChan[w]) /\ hl'[w] = hl[w] \cup kisChan[w][1]
        BY <2>1, QueueFacts DEF TypeOK
      <4>2. ASSUME NEW i \in 1..Len(Tail(kisChan[w]))
            PROVE  /\ i + 1 \in 1..Len(kisChan[w]) /\ 1 \in 1..Len(kisChan[w])
                   /\ Tail(kisChan[w])[i] = kisChan[w][i + 1]
        BY <2>1, QueueFacts
      <4>3. 1 \in 1..Len(kisChan[w])
        BY <2>1, QueueFacts
      <4> QED BY <3>1, <4>1, <4>2, <4>3 DEF Routing
    <3>2. CASE v # w
      BY <2>1, <3>2 DEF TypeOK, Routing
    <3> QED BY <3>1, <3>2
  <2> QED BY <2>1, <2>3, <2>4 DEF Routing
<1>2. CASE BeginReport
  <2>1. /\ rpc' = "top" /\ visit' = 0 /\ entries' = {} /\ snap' = [w \in Workers |-> {}]
        /\ UNCHANGED <<shouldReset, fresh, filtered, todo, at, offered, kisChan, hl, shed,
                       cleared, handled, dropped, report, counted>>
    BY <1>2 DEF BeginReport, callVars
  <2>2. TypeOK'
    BY <2>1 DEF TypeOK
  <2> QED BY <2>1, <2>2 DEF Routing
<1>3. CASE Top
  <2>1. /\ visit < NumWorkers
        /\ snap' = [snap EXCEPT ![visit] = hl[visit]]
        /\ rpc' = IF shouldReset THEN "reset" ELSE "top"
        /\ visit' = IF shouldReset THEN visit ELSE visit + 1
        /\ UNCHANGED <<shouldReset, fresh, filtered, todo, at, offered, kisChan, hl, shed,
                       cleared, handled, dropped, report>>
    BY <1>3 DEF Top, callVars
  <2>2. PICK S \in Tops(hl[visit], ReportSize) :
          /\ entries' = entries \cup {[item |-> i, count |-> Count(hl[visit], i)] : i \in S}
          /\ counted' = [e \in Events |-> IF e \in hl[visit] /\ ItemOf[e] \in S
                                          THEN SmallerOf(2, counted[e] + 1)
                                          ELSE counted[e]]
    BY <1>3 DEF Top
  <2>3. visit \in Workers /\ hl[visit] \in SUBSET Events /\ visit \in Nat
    BY <1>0, <2>1 DEF TypeOK
  <2>4. S \subseteq Items
    BY <2>3 DEF Tops, Support
  <2>5. entries' \subseteq Entry
    <3>1. \A i \in S : [item |-> i, count |-> Count(hl[visit], i)] \in Entry
      BY <2>3, <2>4, CountType DEF Entry
    <3> QED BY <2>2, <3>1 DEF TypeOK
  <2>6. counted' \in [Events -> Nat]
    BY <2>2 DEF TypeOK, SmallerOf
  <2>7. rpc' \in {"top", "reset"} /\ visit' \in 0..NumWorkers
    BY <2>1, <2>3
  <2>8. snap' \in [Workers -> SUBSET Events]
    BY <2>1, <2>3 DEF TypeOK
  <2>9. TypeOK'
    BY <2>1, <2>5, <2>6, <2>7, <2>8 DEF TypeOK
  <2>10. rpc' = "reset" => shouldReset' /\ visit' < NumWorkers
    BY <2>1
  <2>11. \A w \in Workers : \A e \in snap'[w] : Owner(e) = w
    BY <2>1, <2>3 DEF TypeOK, Routing
  <2> QED BY <2>1, <2>9, <2>10, <2>11 DEF Routing
<1>4. CASE ResetWorker
  <2>1. /\ rpc = "reset" /\ rpc' = "top" /\ visit' = visit + 1
        /\ hl' = [hl EXCEPT ![visit] = {}]
        /\ cleared' = cleared \cup hl[visit]
        /\ UNCHANGED <<shouldReset, fresh, filtered, todo, at, offered, kisChan, shed,
                       handled, dropped, snap, entries, report, counted>>
    BY <1>4 DEF ResetWorker, callVars
  <2>2. visit \in Workers /\ visit \in Nat /\ visit < NumWorkers
    BY <1>0, <2>1 DEF Routing, TypeOK
  <2>3. /\ cleared' \subseteq Events /\ hl' \in [Workers -> SUBSET Events]
        /\ visit' \in 0..NumWorkers
    BY <2>1, <2>2 DEF TypeOK
  <2>4. TypeOK'
    BY <2>1, <2>3 DEF TypeOK
  <2>5. \A w \in Workers : \A e \in hl'[w] : Owner(e) = w
    BY <2>1, <2>2 DEF TypeOK, Routing
  <2> QED BY <2>1, <2>4, <2>5 DEF Routing
<1>5. CASE EndReport
  <2>1. /\ report' = entries /\ rpc' = "idle"
        /\ UNCHANGED <<shouldReset, fresh, filtered, todo, at, offered, kisChan, hl, shed,
                       cleared, handled, dropped, visit, snap, entries, counted>>
    BY <1>5 DEF EndReport, callVars
  <2> QED BY <2>1 DEF TypeOK, Routing
<1> QED BY <1>1, <1>2, <1>3, <1>4, <1>5 DEF Report

\* Every step sends an event to the worker that owns its item.
LEMMA RoutingStep == TypeOK /\ Routing /\ [Next]_vars => TypeOK' /\ Routing'
<1> SUFFICES ASSUME TypeOK, Routing, [Next]_vars PROVE TypeOK' /\ Routing'
  OBVIOUS
<1>1. CASE UNCHANGED vars
  BY <1>1 DEF vars, TypeOK, Routing
<1> QED BY <1>1, RoutingCall, RoutingReport DEF Next

-----------------------------------------------------------------------------
(* Every event is in one place.                                            *)

\* At the start no event has two places.
LEMMA OnePlaceInit == Init => OnePlace
<1> SUFFICES ASSUME Init PROVE OnePlace
  OBVIOUS
<1>1. ASSUME NEW e \in Events
      PROVE  /\ e \in fresh /\ e \notin filtered /\ e \notin shed /\ e \notin cleared
             /\ \A c \in Callers : ~InCall(e, c) /\ ~Todo(e, c)
             /\ \A i \in Nat : ~Queued(e, i)
             /\ ~Hot(e)
  BY OwnerType DEF Init, InCall, Todo, Queued, Hot
<1>2. \A e \in Events : Somewhere(e) /\ NotTwice(e)
  BY <1>1 DEF Somewhere, NotTwice
<1> QED BY <1>2 DEF OnePlace, OutcomeKept, Init

\* The events c has for the worker it is at.
LEMMA AtPart ==
  ASSUME TypeOK, Routing, NEW c \in Callers, at[c] < NumWorkers, NEW e \in Events
  PROVE  e \in todo[c][at[c]] <=> InCall(e, c) /\ Owner(e) = at[c]
  BY AtWorker DEF InCall, Routing

\* A new call takes fresh events only, and the previous call of the same
\* goroutine has left nothing behind.
LEMMA OnePlaceHandle ==
  ASSUME TypeOK, Routing, OnePlace, NEW c \in Callers, NEW S \in Batches, HandleEvents(c, S)
  PROVE  OnePlace'
<1> USE AnalysisAssumption
<1>1. /\ at[c] = NumWorkers /\ S \subseteq fresh
      /\ fresh' = fresh \ S
      /\ filtered' = filtered \cup (S \ filterEvents(S))
      /\ todo' = [todo EXCEPT ![c] = partitionEvents(filterEvents(S))]
      /\ at' = [at EXCEPT ![c] = 0]
      /\ UNCHANGED <<offered, shed, kisChan, hl, cleared>>
  BY DEF HandleEvents
<1>2. offered[c] = "no"
  BY <1>1 DEF Routing
<1>3. ASSUME NEW e \in Events
      PROVE  /\ ~InCall(e, c) /\ (InCall(e, c)' <=> e \in filterEvents(S))
             /\ \A d \in Callers : d # c => (InCall(e, d)' <=> InCall(e, d))
  <2>1. Owner(e) \in Workers /\ Owner(e) < NumWorkers
    BY OwnerType DEF Workers
  <2>2. ~InCall(e, c)
    BY <1>1, <2>1 DEF Routing, InCall
  <2>3. partitionEvents(filterEvents(S))[Owner(e)] = {f \in filterEvents(S) : Owner(f) = Owner(e)}
    BY <2>1 DEF partitionEvents, Owner
  <2>4. todo'[c] = partitionEvents(filterEvents(S)) /\ \A d \in Callers : d # c => todo'[d] = todo[d]
    BY <1>1 DEF TypeOK
  <2> QED BY <2>2, <2>3, <2>4 DEF InCall
<1>4. ASSUME NEW e \in Events
      PROVE  /\ ~Todo(e, c) /\ (Todo(e, c)' <=> e \in filterEvents(S))
             /\ \A d \in Callers : d # c => (Todo(e, d)' <=> Todo(e, d))
             /\ \A i \in Nat : Queued(e, i)' <=> Queued(e, i)
             /\ Hot(e)' <=> Hot(e)
  <2>1. \A d \in Callers : d # c => at'[d] = at[d]
    BY <1>1 DEF TypeOK
  <2>2. (\A i \in Nat : Queued(e, i)' <=> Queued(e, i)) /\ (Hot(e)' <=> Hot(e))
    BY <1>1 DEF Queued, Hot
  <2> QED BY <1>1, <1>2, <1>3, <2>1, <2>2 DEF Todo
<1>5. filterEvents(S) \subseteq S
  BY DEF filterEvents
<1>6. ASSUME NEW e \in Events PROVE Somewhere(e)' /\ NotTwice(e)'
  <2>1. Somewhere(e) /\ NotTwice(e)
    BY DEF OnePlace
  <2>2. Somewhere(e)'
    BY <1>1, <1>4, <1>5, <2>1 DEF Somewhere
  <2>3. NotTwice(e)'
    BY <1>1, <1>3, <1>4, <1>5, <2>1 DEF NotTwice
  <2> QED BY <2>2, <2>3
<1>7. OutcomeKept'
  <2> SUFFICES ASSUME NEW d \in Callers, offered[d] # "no"
               PROVE  todo'[d] = todo[d] /\ at'[d] = at[d]
    BY <1>1 DEF OnePlace, OutcomeKept
  <2> QED BY <1>1, <1>2 DEF TypeOK
<1> QED BY <1>6, <1>7 DEF OnePlace

\* Offering a part to its worker moves its events to the queue or sheds them.
LEMMA OnePlaceOffer ==
  ASSUME TypeOK, Routing, OnePlace, NEW c \in Callers, Enqueue(c) \/ Overload(c)
  PROVE  OnePlace'
<1> USE AnalysisAssumption
<1> DEFINE w == at[c]
           T == todo[c][w]
           n == Len(kisChan[w]) + 1
<1>1. /\ w < NumWorkers /\ offered[c] = "no"
      /\ UNCHANGED <<fresh, filtered, todo, at, hl, cleared>>
  BY DEF Enqueue, Overload
<1>2. /\ w \in Workers /\ T \in SUBSET Events /\ kisChan[w] \in Seq(SUBSET Events)
      /\ n \in Nat
  BY <1>1, AtWorker
<1>3. ASSUME NEW e \in Events PROVE e \in T <=> InCall(e, c) /\ Owner(e) = w
  BY <1>1, AtPart
<1>4. /\ offered'[c] # "no"
      /\ \A d \in Callers : d # c => offered'[d] = offered[d]
  BY DEF Enqueue, Overload, TypeOK
<1> HIDE DEF T, n
<1>5. ASSUME NEW e \in Events
      PROVE  /\ \A d \in Callers : InCall(e, d)' <=> InCall(e, d)
             /\ Todo(e, c) <=> InCall(e, c)
             /\ Todo(e, c)' <=> Todo(e, c) /\ e \notin T
             /\ \A d \in Callers : d # c => (Todo(e, d)' <=> Todo(e, d))
             /\ Hot(e)' <=> Hot(e)
  <2>1. (\A d \in Callers : InCall(e, d)' <=> InCall(e, d)) /\ (Hot(e)' <=> Hot(e))
    BY <1>1 DEF InCall, Hot
  <2> QED BY <1>1, <1>3, <1>4, <2>1 DEF Todo
<1>6. ASSUME NEW e \in Events PROVE Somewhere(e) /\ NotTwice(e)
  BY DEF OnePlace
<1>7. CASE Enqueue(c)
  <2>1. shed' = shed /\ kisChan' = [kisChan EXCEPT ![w] = Append(@, T)]
        /\ offered'[c] = "queued"
    BY <1>7 DEF Enqueue, T, TypeOK
  <2>2. ASSUME NEW e \in Events, NEW i \in Nat
        PROVE  /\ Queued(e, i)' <=> Queued(e, i) \/ (e \in T /\ i = n)
               /\ e \in T => ~Queued(e, n)
    <3>1. CASE Owner(e) # w
      <4>1. kisChan'[Owner(e)] = kisChan[Owner(e)]
        BY <2>1, <3>1, OwnerType DEF TypeOK
      <4> QED BY <1>3, <3>1, <4>1 DEF Queued
    <3>2. CASE Owner(e) = w
      <4>1. kisChan'[w] = Append(kisChan[w], T)
        BY <1>2, <2>1 DEF TypeOK
      <4>2. /\ Len(kisChan'[w]) = n /\ kisChan'[w][n] = T
            /\ \A j \in 1..(n - 1) : kisChan'[w][j] = kisChan[w][j]
            /\ Len(kisChan[w]) = n - 1 /\ n \in Nat /\ n >= 1
        BY <1>2, <4>1, QueueFacts DEF n
      <4> QED BY <3>2, <4>2 DEF Queued
    <3> QED BY <3>1, <3>2
  <2>3. ASSUME NEW e \in Events PROVE Somewhere(e)' /\ NotTwice(e)'
    <3>1. Somewhere(e)'
      BY <1>1, <1>2, <1>3, <1>5, <1>6, <2>1, <2>2 DEF Somewhere
    <3>2. NotTwice(e)'
      <4>1. CASE e \notin T
        <5>1. /\ \A d \in Callers : (InCall(e, d)' <=> InCall(e, d)) /\ (Todo(e, d)' <=> Todo(e, d))
              /\ \A i \in Nat : Queued(e, i)' <=> Queued(e, i)
              /\ Hot(e)' <=> Hot(e)
              /\ e \in shed' <=> e \in shed
          BY <1>5, <2>1, <2>2, <4>1
        <5>2. NotTwice(e)
          BY <1>6
        <5> QED BY <1>1, <5>1, <5>2 DEF NotTwice
      <4>2. CASE e \in T
        <5>1. InCall(e, c) /\ Todo(e, c) /\ NotTwice(e)
          BY <1>3, <1>5, <1>6, <4>2
        <5>2. /\ e \notin fresh /\ e \notin filtered /\ e \notin shed /\ e \notin cleared
              /\ ~Hot(e)
              /\ \A i \in Nat : ~Queued(e, i)
              /\ \A d \in Callers : InCall(e, d) => d = c
          BY <5>1 DEF NotTwice
        <5>3. \A d \in Callers : ~Todo(e, d)'
          <6>1. \A d \in Callers : Todo(e, d) => d = c
            BY <5>2 DEF Todo
          <6> QED BY <1>5, <4>2, <6>1
        <5>4. \A i \in Nat : Queued(e, i)' <=> i = n
          BY <5>2, <2>2, <4>2
        <5>5. (\A d \in Callers : InCall(e, d)' <=> InCall(e, d)) /\ (Hot(e)' <=> Hot(e))
          BY <1>5
        <5> QED BY <1>1, <2>1, <5>2, <5>3, <5>4, <5>5 DEF NotTwice
      <4> QED BY <4>1, <4>2
    <3> QED BY <3>1, <3>2
  <2>4. OutcomeKept'
    <3>1. \A e \in T : e \notin shed
      BY <1>2, <1>3, <1>5, <1>6 DEF NotTwice
    <3> QED BY <1>1, <1>4, <2>1, <3>1 DEF OnePlace, OutcomeKept, T
  <2> QED BY <2>3, <2>4 DEF OnePlace
<1>8. CASE Overload(c)
  <2>1. shed' = shed \cup T /\ kisChan' = kisChan /\ offered'[c] = "full"
    BY <1>8 DEF Overload, T, TypeOK
  <2>2. ASSUME NEW e \in Events PROVE Somewhere(e)' /\ NotTwice(e)'
    <3>0. \A i \in Nat : Queued(e, i)' <=> Queued(e, i)
      BY <2>1 DEF Queued
    <3>1. Somewhere(e)'
      BY <1>1, <1>3, <1>5, <1>6, <2>1, <3>0 DEF Somewhere
    <3>2. NotTwice(e)'
      <4>1. CASE e \notin T
        <5>1. /\ \A d \in Callers : (InCall(e, d)' <=> InCall(e, d)) /\ (Todo(e, d)' <=> Todo(e, d))
              /\ \A i \in Nat : Queued(e, i)' <=> Queued(e, i)
              /\ Hot(e)' <=> Hot(e)
              /\ e \in shed' <=> e \in shed
          BY <1>5, <2>1, <3>0, <4>1
        <5>2. NotTwice(e)
          BY <1>6
        <5> QED BY <1>1, <5>1, <5>2 DEF NotTwice
      <4>2. CASE e \in T
        <5>1. InCall(e, c) /\ Todo(e, c) /\ NotTwice(e)
          BY <1>3, <1>5, <1>6, <4>2
        <5>2. /\ e \notin fresh /\ e \notin filtered /\ e \notin shed /\ e \notin cleared
              /\ ~Hot(e)
              /\ \A i \in Nat : ~Queued(e, i)
              /\ \A d \in Callers : InCall(e, d) => d = c
          BY <5>1 DEF NotTwice
        <5>3. \A d \in Callers : ~Todo(e, d)'
          <6>1. \A d \in Callers : Todo(e, d) => d = c
            BY <5>2 DEF Todo
          <6> QED BY <1>5, <4>2, <6>1
        <5>4. \A i \in Nat : ~Queued(e, i)'
          BY <5>2, <3>0, <4>2
        <5>5. (\A d \in Callers : InCall(e, d)' <=> InCall(e, d)) /\ (Hot(e)' <=> Hot(e))
          BY <1>5
        <5> QED BY <1>1, <2>1, <5>2, <5>3, <5>4, <5>5 DEF NotTwice
      <4> QED BY <4>1, <4>2
    <3> QED BY <3>1, <3>2
  <2>3. OutcomeKept'
    <3> SUFFICES ASSUME NEW d \in Callers
                 PROVE  /\ offered'[d] = "full" => todo[d][at[d]] \subseteq shed'
                        /\ offered'[d] = "queued" => todo[d][at[d]] \cap shed' = {}
      BY <1>1 DEF OutcomeKept
    <3>1. CASE d = c
      BY <2>1, <3>1 DEF T
    <3>2. CASE d # c
      <4>1. ASSUME offered[d] = "queued", NEW e \in todo[d][at[d]] PROVE e \notin T
        <5>1. at[d] < NumWorkers
          BY <4>1 DEF Routing
        <5>2. e \in Events /\ InCall(e, d)
          BY <5>1, AtPart, AtWorker
        <5> QED BY <1>3, <1>6, <3>2, <5>2 DEF NotTwice
      <4> QED BY <1>4, <2>1, <3>2, <4>1 DEF OnePlace, OutcomeKept
    <3> QED BY <3>1, <3>2
  <2> QED BY <2>2, <2>3 DEF OnePlace
<1> QED BY <1>7, <1>8

\* Accounting for an offer ends the claim of the call on its events.
LEMMA OnePlaceAccount ==
  ASSUME TypeOK, Routing, OnePlace, NEW c \in Callers, Account(c)
  PROVE  /\ OnePlace'
         /\ \A e \in Events :
              /\ InCall(e, c)' <=> InCall(e, c) /\ e \notin todo[c][at[c]]
              /\ \A d \in Callers : d # c => (InCall(e, d)' <=> InCall(e, d))
<1> USE AnalysisAssumption
<1> DEFINE w == at[c]
           T == todo[c][w]
<1>1. /\ offered[c] # "no"
      /\ offered' = [offered EXCEPT ![c] = "no"]
      /\ todo' = [todo EXCEPT ![c][w] = {}]
      /\ at' = [at EXCEPT ![c] = @ + 1]
      /\ UNCHANGED <<fresh, filtered, shed, kisChan, hl, cleared>>
  BY DEF Account
<1>2. w < NumWorkers /\ w \in Workers
  BY <1>1, AtWorker DEF Routing
<1>3. ASSUME NEW e \in Events PROVE e \in T <=> InCall(e, c) /\ Owner(e) = w
  BY <1>2, AtPart
<1>4. /\ \A v \in Workers : todo'[c][v] = IF v = w THEN {} ELSE todo[c][v]
      /\ offered'[c] = "no"
      /\ \A d \in Callers : d # c =>
           todo'[d] = todo[d] /\ at'[d] = at[d] /\ offered'[d] = offered[d]
  BY <1>1, <1>2 DEF TypeOK
<1> HIDE DEF T
<1>5. ASSUME NEW e \in Events
      PROVE  /\ InCall(e, c)' <=> InCall(e, c) /\ e \notin T
             /\ \A d \in Callers : d # c => (InCall(e, d)' <=> InCall(e, d))
             /\ \A d \in Callers : Todo(e, d)' <=> Todo(e, d)
             /\ \A i \in Nat : Queued(e, i)' <=> Queued(e, i)
             /\ Hot(e)' <=> Hot(e)
  <2>1. /\ InCall(e, c)' <=> InCall(e, c) /\ e \notin T
        /\ \A d \in Callers : d # c => (InCall(e, d)' <=> InCall(e, d))
    BY <1>3, <1>4, OwnerType DEF InCall
  <2>2. Todo(e, c)' <=> Todo(e, c)
    BY <1>1, <1>3, <1>4, <2>1 DEF Todo
  <2>3. \A d \in Callers : d # c => (Todo(e, d)' <=> Todo(e, d))
    BY <1>4, <2>1 DEF Todo
  <2>4. (\A i \in Nat : Queued(e, i)' <=> Queued(e, i)) /\ (Hot(e)' <=> Hot(e))
    BY <1>1 DEF Queued, Hot
  <2> QED BY <2>1, <2>2, <2>3, <2>4
<1>6. ASSUME NEW e \in Events PROVE Somewhere(e)' /\ NotTwice(e)'
  <2>1. Somewhere(e) /\ NotTwice(e)
    BY DEF OnePlace
  <2>2. Somewhere(e)'
    BY <1>1, <1>5, <2>1 DEF Somewhere
  <2>3. NotTwice(e)'
    BY <1>1, <1>5, <2>1 DEF NotTwice
  <2> QED BY <2>2, <2>3
<1>7. OutcomeKept'
  BY <1>1, <1>4 DEF OnePlace, OutcomeKept
<1> QED BY <1>5, <1>6, <1>7 DEF OnePlace, T

\* A worker moves the oldest batch into its hotlist; a reset erases it.
LEMMA OnePlaceWorker ==
  ASSUME TypeOK, Routing, OnePlace, (\E w \in Workers : Process(w)) \/ ResetWorker
  PROVE  OnePlace'
<1> USE AnalysisAssumption
<1>0. UNCHANGED <<fresh, filtered, todo, at, offered, shed>>
  BY DEF Process, ResetWorker, callVars
<1>1. OutcomeKept'
  BY <1>0 DEF OnePlace, OutcomeKept
<1>2. ASSUME NEW e \in Events
      PROVE  /\ \A c \in Callers : (InCall(e, c)' <=> InCall(e, c)) /\ (Todo(e, c)' <=> Todo(e, c))
             /\ Somewhere(e) /\ NotTwice(e)
  BY <1>0 DEF InCall, Todo, OnePlace
<1>3. ASSUME NEW w \in Workers, Process(w), NEW e \in Events
      PROVE  Somewhere(e)' /\ NotTwice(e)'
  <2>1. /\ kisChan[w] # <<>> /\ kisChan[w] \in Seq(SUBSET Events)
        /\ hl'[w] = hl[w] \cup Head(kisChan[w])
        /\ kisChan'[w] = Tail(kisChan[w])
        /\ \A v \in Workers : v # w => hl'[v] = hl[v] /\ kisChan'[v] = kisChan[v]
        /\ cleared' = cleared
    BY <1>3 DEF Process, TypeOK
  <2>2. CASE Owner(e) # w
    <3>1. (\A i \in Nat : Queued(e, i)' <=> Queued(e, i)) /\ (Hot(e)' <=> Hot(e))
      BY <2>1, <2>2, OwnerType DEF Queued, Hot
    <3>2. Somewhere(e)'
      BY <1>0, <1>2, <2>1, <3>1 DEF Somewhere
    <3>3. NotTwice(e)'
      BY <1>0, <1>2, <2>1, <3>1 DEF NotTwice
    <3> QED BY <3>2, <3>3
  <2>3. CASE Owner(e) = w
    <3>1. /\ Len(kisChan'[w]) = Len(kisChan[w]) - 1
          /\ \A i \in 1..(Len(kisChan[w]) - 1) : kisChan'[w][i] = kisChan[w][i + 1]
          /\ hl'[w] = hl[w] \cup kisChan[w][1]
          /\ Len(kisChan[w]) \in Nat /\ 1 \in 1..Len(kisChan[w])
      BY <2>1, QueueFacts
    <3>2. \A i \in Nat : Queued(e, i)' <=> i >= 1 /\ Queued(e, i + 1)
      BY <2>3, <3>1 DEF Queued
    <3>3. Hot(e)' <=> Hot(e) \/ Queued(e, 1)
      BY <2>3, <3>1 DEF Queued, Hot
    <3>4. \A i \in Nat : Queued(e, i) => i >= 1
      BY DEF Queued
    <3>5. Somewhere(e)'
      <4>1. CASE \E i \in Nat : Queued(e, i)
        <5>1. PICK i \in Nat : Queued(e, i)
          BY <4>1
        <5>2. CASE i = 1
          BY <3>3, <5>1, <5>2 DEF Somewhere
        <5>3. CASE i # 1
          <6>1. i - 1 \in Nat /\ i - 1 >= 1 /\ (i - 1) + 1 = i
            BY <3>4, <5>1, <5>3
          <6>2. Queued(e, i - 1)'
            BY <3>2, <5>1, <6>1
          <6> QED BY <6>1, <6>2 DEF Somewhere
        <5> QED BY <5>2, <5>3
      <4>2. CASE ~(\E i \in Nat : Queued(e, i))
        BY <1>0, <1>2, <2>1, <3>3, <4>2 DEF Somewhere
      <4> QED BY <4>1, <4>2
    <3>6. NotTwice(e)'
      <4>1. \A i, j \in Nat : Queued(e, i)' /\ Queued(e, j)' => i = j
        <5> SUFFICES ASSUME NEW i \in Nat, NEW j \in Nat, Queued(e, i)', Queued(e, j)'
                     PROVE  i = j
          OBVIOUS
        <5>1. Queued(e, i + 1) /\ Queued(e, j + 1)
          BY <3>2
        <5>2. i + 1 \in Nat /\ j + 1 \in Nat
          OBVIOUS
        <5>3. i + 1 = j + 1
          BY <1>2, <5>1, <5>2 DEF NotTwice
        <5> QED BY <5>3
      <4>2. \A i \in Nat : Queued(e, i)' => \E j \in Nat : Queued(e, j) /\ j >= 2
        <5> SUFFICES ASSUME NEW i \in Nat, Queued(e, i)'
                     PROVE  \E j \in Nat : Queued(e, j) /\ j >= 2
          OBVIOUS
        <5>1. Queued(e, i + 1) /\ i + 1 \in Nat /\ i + 1 >= 2
          BY <3>2
        <5> QED BY <5>1
      <4>3. Hot(e)' => \A i \in Nat : ~Queued(e, i)'
        <5> SUFFICES ASSUME Hot(e)', NEW i \in Nat, Queued(e, i)' PROVE FALSE
          OBVIOUS
        <5>1. PICK j \in Nat : Queued(e, j) /\ j >= 2
          BY <4>2
        <5>2. ~Hot(e)
          BY <1>2, <5>1 DEF NotTwice
        <5>3. Queued(e, 1) /\ 1 \in Nat /\ 1 # j
          BY <3>3, <5>1, <5>2
        <5> QED BY <1>2, <5>1, <5>3 DEF NotTwice
      <4>4. Hot(e)' => Hot(e) \/ \E j \in Nat : Queued(e, j)
        BY <3>3
      <4> QED BY <1>0, <1>2, <2>1, <4>1, <4>2, <4>3, <4>4 DEF NotTwice
    <3> QED BY <3>5, <3>6
  <2> QED BY <2>2, <2>3
<1>4. ASSUME ResetWorker, NEW e \in Events PROVE Somewhere(e)' /\ NotTwice(e)'
  <2>1. visit \in Workers
    BY <1>4 DEF ResetWorker, Routing, TypeOK, Workers
  <2>2. /\ hl'[visit] = {} /\ \A w \in Workers : w # visit => hl'[w] = hl[w]
        /\ cleared' = cleared \cup hl[visit]
        /\ kisChan' = kisChan
    BY <1>4, <2>1 DEF ResetWorker, TypeOK
  <2>3. Hot(e)' <=> Hot(e) /\ Owner(e) # visit
    BY <2>2, OwnerType DEF Hot
  <2>4. e \in hl[visit] <=> Hot(e) /\ Owner(e) = visit
    BY <2>1 DEF Hot, Routing
  <2>5. \A i \in Nat : Queued(e, i)' <=> Queued(e, i)
    BY <2>2 DEF Queued
  <2>6. Somewhere(e)'
    BY <1>0, <1>2, <2>2, <2>3, <2>4, <2>5 DEF Somewhere
  <2>7. NotTwice(e)'
    BY <1>0, <1>2, <2>2, <2>3, <2>4, <2>5 DEF NotTwice
  <2> QED BY <2>6, <2>7
<1> QED BY <1>1, <1>3, <1>4 DEF OnePlace

\* Every step moves an event, and never copies it.
LEMMA OnePlaceStep ==
  ASSUME TypeOK, Routing, OnePlace, [Next]_vars PROVE OnePlace'
<1>1. ASSUME UNCHANGED <<fresh, filtered, todo, at, offered, kisChan, hl, shed, cleared>>
      PROVE  OnePlace'
  BY <1>1
  DEF OnePlace, OutcomeKept, Somewhere, NotTwice, InCall, Todo, Queued, Hot
<1>2. ASSUME NEW c \in Callers, SkipWorker(c) PROVE OnePlace'
  <2>1. /\ UNCHANGED <<fresh, filtered, todo, offered, kisChan, hl, shed, cleared>>
        /\ offered[c] = "no"
        /\ \A d \in Callers : d # c => at'[d] = at[d]
    BY <1>2 DEF SkipWorker, TypeOK
  <2>2. ASSUME NEW e \in Events
        PROVE  /\ \A d \in Callers : (InCall(e, d)' <=> InCall(e, d)) /\ (Todo(e, d)' <=> Todo(e, d))
               /\ \A i \in Nat : Queued(e, i)' <=> Queued(e, i)
               /\ Hot(e)' <=> Hot(e)
    <3>1. \A d \in Callers : InCall(e, d)' <=> InCall(e, d)
      BY <2>1 DEF InCall
    <3>2. (\A i \in Nat : Queued(e, i)' <=> Queued(e, i)) /\ (Hot(e)' <=> Hot(e))
      BY <2>1 DEF Queued, Hot
    <3> QED BY <2>1, <3>1, <3>2 DEF Todo
  <2>3. \A e \in Events : Somewhere(e)' /\ NotTwice(e)'
    BY <2>1, <2>2 DEF OnePlace, Somewhere, NotTwice
  <2>4. OutcomeKept'
    BY <2>1 DEF OnePlace, OutcomeKept
  <2> QED BY <2>3, <2>4 DEF OnePlace
<1>3. CASE BeginReport \/ Top \/ EndReport
  BY <1>1, <1>3 DEF BeginReport, Top, EndReport, callVars
<1>4. CASE UNCHANGED vars
  BY <1>1, <1>4 DEF vars
<1> QED
  BY <1>2, <1>3, <1>4, OnePlaceHandle, OnePlaceOffer, OnePlaceAccount, OnePlaceWorker
  DEF Next, Call, Report

\* The places of module AnalysisPool, in the terms used here.
LEMMA HomesOf ==
  ASSUME TypeOK, Routing, NEW e \in Events, NEW h
  PROVE  h \in Homes(e) <=>
           \/ e \in fresh /\ h = <<"fresh">>
           \/ e \in filtered /\ h = <<"filtered">>
           \/ e \in shed /\ h = <<"shed">>
           \/ e \in cleared /\ h = <<"cleared">>
           \/ \E c \in Callers : Todo(e, c) /\ h = <<"todo", c, Owner(e)>>
           \/ \E i \in Nat : Queued(e, i) /\ h = <<"queue", Owner(e), i>>
           \/ Hot(e) /\ h = <<"hotlist", Owner(e)>>
<1> DEFINE A1 == {<<"fresh">> : x \in {e} \cap fresh}
           A2 == {<<"filtered">> : x \in {e} \cap filtered}
           A3 == {<<"shed">> : x \in {e} \cap shed}
           A4 == {<<"cleared">> : x \in {e} \cap cleared}
           A5 == {<<"todo", p[1], p[2]>> :
                    p \in {q \in Callers \X Workers :
                             /\ e \in todo[q[1]][q[2]]
                             /\ offered[q[1]] = "no" \/ q[2] # at[q[1]]}}
           A6 == UNION {{<<"queue", w, i>> :
                           i \in {j \in DOMAIN kisChan[w] : e \in kisChan[w][j]}} :
                        w \in Workers}
           A7 == {<<"hotlist", w>> : w \in {v \in Workers : e \in hl[v]}}
<1>0. Owner(e) \in Workers
  BY OwnerType
<1>1. h \in Homes(e) <=>
        h \in A1 \/ h \in A2 \/ h \in A3 \/ h \in A4 \/ h \in A5 \/ h \in A6 \/ h \in A7
  BY DEF Homes
<1>2. /\ h \in A1 <=> e \in fresh /\ h = <<"fresh">>
      /\ h \in A2 <=> e \in filtered /\ h = <<"filtered">>
      /\ h \in A3 <=> e \in shed /\ h = <<"shed">>
      /\ h \in A4 <=> e \in cleared /\ h = <<"cleared">>
  OBVIOUS
<1>3. h \in A5 <=> \E c \in Callers : Todo(e, c) /\ h = <<"todo", c, Owner(e)>>
  <2>1. ASSUME NEW c \in Callers, NEW w \in Workers, e \in todo[c][w] PROVE w = Owner(e)
    BY <2>1 DEF Routing
  <2>2. h \in A5 <=> \E c \in Callers, w \in Workers :
          /\ e \in todo[c][w] /\ (offered[c] = "no" \/ w # at[c])
          /\ h = <<"todo", c, w>>
    <3>1. ASSUME h \in A5
          PROVE  \E c \in Callers, w \in Workers :
                   /\ e \in todo[c][w] /\ (offered[c] = "no" \/ w # at[c])
                   /\ h = <<"todo", c, w>>
      <4>1. PICK p \in Callers \X Workers :
              /\ e \in todo[p[1]][p[2]] /\ (offered[p[1]] = "no" \/ p[2] # at[p[1]])
              /\ h = <<"todo", p[1], p[2]>>
        BY <3>1
      <4> QED BY <4>1
    <3>2. ASSUME NEW c \in Callers, NEW w \in Workers,
                 e \in todo[c][w], offered[c] = "no" \/ w # at[c],
                 h = <<"todo", c, w>>
          PROVE  h \in A5
      <4>1. <<c, w>> \in {q \in Callers \X Workers :
                            /\ e \in todo[q[1]][q[2]]
                            /\ offered[q[1]] = "no" \/ q[2] # at[q[1]]}
        BY <3>2
      <4> QED BY <3>2, <4>1
    <3> QED BY <3>1, <3>2
  <2> HIDE DEF A5
  <2> QED BY <1>0, <2>1, <2>2 DEF Todo, InCall
<1>4. h \in A6 <=> \E i \in Nat : Queued(e, i) /\ h = <<"queue", Owner(e), i>>
  <2>1. \A w \in Workers : DOMAIN kisChan[w] = 1..Len(kisChan[w]) /\ Len(kisChan[w]) \in Nat
    BY DEF TypeOK
  <2>2. ASSUME NEW w \in Workers, NEW i \in 1..Len(kisChan[w]), e \in kisChan[w][i]
        PROVE  w = Owner(e)
    BY <2>2 DEF Routing
  <2>3. h \in A6 <=> \E w \in Workers : \E i \in 1..Len(kisChan[w]) :
          e \in kisChan[w][i] /\ h = <<"queue", w, i>>
    BY <2>1
  <2> HIDE DEF A6
  <2> QED BY <1>0, <2>1, <2>2, <2>3 DEF Queued
<1>5. h \in A7 <=> Hot(e) /\ h = <<"hotlist", Owner(e)>>
  <2>1. \A w \in Workers : e \in hl[w] => w = Owner(e)
    BY DEF Routing
  <2> QED BY <1>0, <2>1 DEF Hot
<1> HIDE DEF A1, A2, A3, A4, A5, A6, A7
<1> QED BY <1>1, <1>2, <1>3, <1>4, <1>5

\* HandleEvents, worker.loop and Report never lose or duplicate an event: each
\* is in exactly one place, and with the worker of its key once dispatched.
THEOREM EventsAreAccounted == Spec => []EventsAccounted
<1>1. TypeOK /\ Routing /\ OnePlace => EventsAccounted
  <2> SUFFICES ASSUME TypeOK, Routing, OnePlace, NEW e \in Events
               PROVE  /\ Cardinality(Homes(e)) = 1
                      /\ \A p \in Homes(e) :
                           p[1] \in {"queue", "hotlist"} => p[2] = Slot[ItemOf[e]]
    BY DEF EventsAccounted
  <2>1. Somewhere(e) /\ NotTwice(e)
    BY DEF OnePlace
  <2>2. ASSUME NEW h0, h0 \in Homes(e), \A h \in Homes(e) : h = h0
        PROVE  Cardinality(Homes(e)) = 1
    <3>1. Homes(e) = {h0}
      BY <2>2
    <3> QED BY <3>1, FS_Singleton
  <2>3. \E h0 : h0 \in Homes(e) /\ \A h \in Homes(e) : h = h0
    <3>1. CASE e \in fresh
      <4>1. <<"fresh">> \in Homes(e) /\ \A h \in Homes(e) : h = <<"fresh">>
        BY <2>1, <3>1, HomesOf DEF NotTwice, Todo
      <4> QED BY <4>1
    <3>2. CASE e \in filtered
      <4>1. <<"filtered">> \in Homes(e) /\ \A h \in Homes(e) : h = <<"filtered">>
        BY <2>1, <3>2, HomesOf DEF NotTwice, Todo
      <4> QED BY <4>1
    <3>3. CASE e \in shed
      <4>1. <<"shed">> \in Homes(e) /\ \A h \in Homes(e) : h = <<"shed">>
        BY <2>1, <3>3, HomesOf DEF NotTwice
      <4> QED BY <4>1
    <3>4. CASE e \in cleared
      <4>1. <<"cleared">> \in Homes(e) /\ \A h \in Homes(e) : h = <<"cleared">>
        BY <2>1, <3>4, HomesOf DEF NotTwice
      <4> QED BY <4>1
    <3>5. CASE Hot(e)
      <4> DEFINE h0 == <<"hotlist", Owner(e)>>
      <4>1. h0 \in Homes(e) /\ \A h \in Homes(e) : h = h0
        BY <2>1, <3>5, HomesOf DEF NotTwice
      <4> QED BY <4>1
    <3>6. ASSUME NEW c \in Callers, Todo(e, c)
          PROVE  \E h0 : h0 \in Homes(e) /\ \A h \in Homes(e) : h = h0
      <4> DEFINE h0 == <<"todo", c, Owner(e)>>
      <4>1. \A d \in Callers : Todo(e, d) => d = c
        BY <2>1, <3>6 DEF NotTwice, Todo
      <4>2. h0 \in Homes(e) /\ \A h \in Homes(e) : h = h0
        BY <2>1, <3>6, <4>1, HomesOf DEF NotTwice
      <4> QED BY <4>2
    <3>7. ASSUME NEW i \in Nat, Queued(e, i)
          PROVE  \E h0 : h0 \in Homes(e) /\ \A h \in Homes(e) : h = h0
      <4> DEFINE h0 == <<"queue", Owner(e), i>>
      <4>1. \A j \in Nat : Queued(e, j) => j = i
        BY <2>1, <3>7 DEF NotTwice
      <4>2. h0 \in Homes(e) /\ \A h \in Homes(e) : h = h0
        BY <2>1, <3>7, <4>1, HomesOf DEF NotTwice
      <4> QED BY <4>2
    <3> QED BY <2>1, <3>1, <3>2, <3>3, <3>4, <3>5, <3>6, <3>7 DEF Somewhere
  <2>4. ASSUME NEW p \in Homes(e), p[1] \in {"queue", "hotlist"}
        PROVE  p[2] = Slot[ItemOf[e]]
    <3>1. /\ p # <<"fresh">> /\ p # <<"filtered">> /\ p # <<"shed">> /\ p # <<"cleared">>
          /\ \A c : p # <<"todo", c, Owner(e)>>
      BY <2>4
    <3> QED BY <3>1, HomesOf DEF Owner
  <2> QED BY <2>2, <2>3, <2>4
<1>2. TypeOK /\ Routing /\ OnePlace /\ [Next]_vars => (TypeOK /\ Routing /\ OnePlace)'
  BY RoutingStep, OnePlaceStep
<1> QED BY <1>1, <1>2, RoutingInit, OnePlaceInit, PTL DEF Spec

-----------------------------------------------------------------------------
(* The counters of Pool.Stats.                                             *)

\* At the start both counters are zero.
LEMMA CountersInit == Init => Counters
<1> SUFFICES ASSUME Init PROVE Counters
  OBVIOUS
<1>1. Lost = {} /\ Dispatched = {}
  BY DEF Init, Lost, Dispatched
<1> QED BY <1>1, FS_EmptySet DEF Init, Counters

\* The counters follow what a step does to the events.
LEMMA CountersStep ==
  ASSUME TypeOK, Routing, OnePlace, Counters, [Next]_vars PROVE Counters'
<1> USE AnalysisAssumption
<1>0. \A e \in Events : NotTwice(e)
  BY DEF OnePlace
<1>1. ASSUME UNCHANGED <<handled, dropped>>, Lost' = Lost, Dispatched' = Dispatched
      PROVE  Counters'
  BY <1>1 DEF Counters
<1>2. ASSUME UNCHANGED <<handled, dropped, fresh, filtered, shed, todo>> PROVE Counters'
  <2>1. Open' = Open
    BY <1>2 DEF Open, InCall
  <2> QED BY <1>1, <1>2, <2>1 DEF Lost, Dispatched
<1>3. ASSUME NEW c \in Callers, NEW S \in Batches, HandleEvents(c, S) PROVE Counters'
  <2>1. /\ at[c] = NumWorkers /\ S \subseteq fresh
        /\ fresh' = fresh \ S
        /\ filtered' = filtered \cup (S \ filterEvents(S))
        /\ todo' = [todo EXCEPT ![c] = partitionEvents(filterEvents(S))]
        /\ UNCHANGED <<shed, handled, dropped>>
    BY <1>3 DEF HandleEvents
  <2>2. todo'[c] = partitionEvents(filterEvents(S)) /\ \A d \in Callers : d # c => todo'[d] = todo[d]
    BY <2>1 DEF TypeOK
  <2>3. ASSUME NEW e \in Events
        PROVE  e \in Open' <=> e \in Open \/ e \in filterEvents(S)
    <3>1. Owner(e) \in Workers /\ Owner(e) < NumWorkers
      BY OwnerType DEF Workers
    <3>2. ~InCall(e, c)
      BY <2>1, <3>1 DEF Routing, InCall
    <3>3. InCall(e, c)' <=> e \in filterEvents(S)
      BY <2>2, <3>1 DEF partitionEvents, Owner, InCall
    <3>4. \A d \in Callers : d # c => (InCall(e, d)' <=> InCall(e, d))
      BY <2>2 DEF InCall
    <3> QED BY <3>2, <3>3, <3>4 DEF Open
  <2>4. filterEvents(S) \subseteq S
    BY DEF filterEvents
  <2>5. \A e \in S : e \notin shed
    BY <1>0, <2>1 DEF NotTwice, TypeOK
  <2>6. Lost' = Lost
    BY <2>1, <2>3, <2>4, <2>5 DEF Lost, TypeOK
  <2>7. Dispatched' = Dispatched
    BY <2>1, <2>3, <2>4 DEF Dispatched
  <2> QED BY <1>1, <2>1, <2>6, <2>7
<1>4. ASSUME NEW c \in Callers, Overload(c) PROVE Counters'
  <2>1. /\ shed' = shed \cup todo[c][at[c]] /\ at[c] < NumWorkers
        /\ UNCHANGED <<handled, dropped, fresh, filtered, todo>>
    BY <1>4 DEF Overload
  <2>2. Open' = Open
    BY <2>1 DEF Open, InCall
  <2>3. todo[c][at[c]] \subseteq Open
    BY <2>1, AtPart, AtWorker DEF Open
  <2>4. Lost' = Lost
    BY <2>1, <2>2, <2>3 DEF Lost
  <2>5. Dispatched' = Dispatched
    BY <2>1, <2>2 DEF Dispatched
  <2> QED BY <1>1, <2>1, <2>4, <2>5
<1>5. ASSUME NEW c \in Callers, Account(c) PROVE Counters'
  <2> DEFINE T == todo[c][at[c]]
             n == Cardinality(T)
  <2>1. /\ offered[c] \in {"queued", "full"}
        /\ handled' = IF offered[c] = "queued" THEN handled + n ELSE handled
        /\ dropped' = IF offered[c] = "full" THEN dropped + n ELSE dropped
        /\ UNCHANGED <<shed, fresh, filtered>>
    BY <1>5 DEF Account, TypeOK
  <2>2. at[c] < NumWorkers /\ T \in SUBSET Events
    BY <2>1, AtWorker DEF Routing
  <2>3. IsFiniteSet(T) /\ n \in Nat
    BY <2>2, FS_Subset, FS_CardinalityType
  <2>4. \A e \in T : InCall(e, c)
    BY <2>2, AtPart
  <2> HIDE DEF T, n
  <2>5. ASSUME NEW e \in Events PROVE e \in Open' <=> e \in Open /\ e \notin T
    <3>1. /\ InCall(e, c)' <=> InCall(e, c) /\ e \notin T
          /\ \A d \in Callers : d # c => (InCall(e, d)' <=> InCall(e, d))
      BY <1>5, OnePlaceAccount DEF T
    <3>2. e \in T => \A d \in Callers : d # c => ~InCall(e, d)
      BY <1>0, <2>4 DEF NotTwice
    <3> QED BY <3>1, <3>2 DEF Open
  <2>6. \A e \in T : e \in Open /\ e \notin fresh /\ e \notin filtered
    BY <1>0, <2>2, <2>4 DEF Open, NotTwice
  <2>7. Dispatched' = Dispatched \cup T /\ Dispatched \cap T = {}
    BY <2>1, <2>2, <2>5, <2>6 DEF Dispatched
  <2>8. IsFiniteSet(Dispatched) /\ IsFiniteSet(Lost)
    BY FS_Subset DEF Dispatched, Lost, TypeOK
  <2>9. ASSUME NEW X, IsFiniteSet(X), X \cap T = {}
        PROVE  Cardinality(X \cup T) = Cardinality(X) + n /\ Cardinality(X) \in Nat
    <3>1. Cardinality(X \cup T) = Cardinality(X) + Cardinality(T) - Cardinality(X \cap T)
      BY <2>3, <2>9, FS_Union
    <3>2. Cardinality(X \cap T) = 0 /\ Cardinality(X) \in Nat
      BY <2>9, FS_EmptySet, FS_CardinalityType
    <3> QED BY <2>3, <3>1, <3>2 DEF n
  <2>10. Cardinality(Dispatched') = handled + dropped + n
    BY <2>7, <2>8, <2>9 DEF Counters
  <2>11. CASE offered[c] = "full"
    <3>1. T \subseteq shed
      BY <2>11 DEF OnePlace, OutcomeKept, T
    <3>2. Lost' = Lost \cup T /\ Lost \cap T = {}
      BY <2>1, <2>2, <2>5, <2>6, <3>1 DEF Lost, TypeOK
    <3>3. Cardinality(Lost') = dropped + n
      BY <2>8, <2>9, <3>2 DEF Counters
    <3> QED BY <2>1, <2>3, <2>10, <2>11, <3>3 DEF Counters, TypeOK
  <2>12. CASE offered[c] = "queued"
    <3>1. T \cap shed = {}
      BY <2>12 DEF OnePlace, OutcomeKept, T
    <3>2. Lost' = Lost
      BY <2>1, <2>5, <3>1 DEF Lost, TypeOK
    <3> QED BY <2>1, <2>3, <2>10, <2>12, <3>2 DEF Counters, TypeOK
  <2> QED BY <2>1, <2>11, <2>12
<1>6. CASE UNCHANGED vars
  BY <1>2, <1>6 DEF vars
<1>7. ASSUME NEW c \in Callers, SkipWorker(c) \/ Enqueue(c) PROVE Counters'
  BY <1>2, <1>7 DEF SkipWorker, Enqueue
<1>8. CASE (\E w \in Workers : Process(w)) \/ BeginReport \/ Report
  BY <1>2, <1>8 DEF Process, BeginReport, Report, Top, ResetWorker, EndReport, callVars
<1> QED BY <1>3, <1>4, <1>5, <1>6, <1>7, <1>8 DEF Next, Call

\* EventsHandled and EventsDropped of Pool.Stats are exact whenever no call of
\* HandleEvents is in progress, for any interleaving of the calls.
THEOREM StatsAreExact == Spec => []StatsExact
<1>1. TypeOK /\ Routing /\ Counters => StatsExact
  <2> SUFFICES ASSUME TypeOK, Routing, Counters, \A c \in Callers : at[c] = NumWorkers
               PROVE  /\ dropped = Cardinality(shed)
                      /\ handled + dropped = Cardinality(Events \ (fresh \cup filtered))
    BY DEF StatsExact
  <2>1. ASSUME NEW e \in Events, NEW c \in Callers PROVE ~InCall(e, c)
    <3>1. Owner(e) \in Workers /\ Owner(e) < NumWorkers
      BY OwnerType, AnalysisAssumption DEF Workers
    <3> QED BY <3>1 DEF Routing, InCall
  <2>2. Open = {}
    BY <2>1 DEF Open
  <2>3. Lost = shed /\ Dispatched = Events \ (fresh \cup filtered)
    BY <2>2 DEF Lost, Dispatched
  <2> QED BY <2>3 DEF Counters
<1> DEFINE I == TypeOK /\ Routing /\ OnePlace /\ Counters
<1>2. I /\ [Next]_vars => I'
  BY RoutingStep, OnePlaceStep, CountersStep
<1>3. Init => I
  BY RoutingInit, OnePlaceInit, CountersInit
<1>4. I => StatsExact
  BY <1>1
<1> HIDE DEF I
<1> QED BY <1>2, <1>3, <1>4, PTL DEF Spec

-----------------------------------------------------------------------------
(* What a report counts.                                                   *)

\* The worker Report visits, as long as it visits one.
LEMMA Visited ==
  ASSUME TypeOK, visit < NumWorkers
  PROVE  visit \in Workers /\ visit \in Nat /\ hl[visit] \in SUBSET Events
  BY AnalysisAssumption DEF TypeOK, Workers

\* The steps of the callers leave the report and the hotlists alone, those of a
\* worker the report.
LEMMA Bystanders ==
  ASSUME [Next]_vars, ~BeginReport, ~Report
  PROVE  /\ UNCHANGED <<shouldReset, rpc, visit, snap, entries, report, counted, cleared>>
         /\ UNCHANGED hl \/ \E w \in Workers : Process(w)
<1>1. CASE UNCHANGED vars
  BY <1>1 DEF vars
<1>2. ASSUME NEW c \in Callers, NEW S \in Batches, HandleEvents(c, S)
      PROVE  UNCHANGED <<shouldReset, rpc, visit, snap, entries, report, counted, cleared, hl>>
  BY <1>2 DEF HandleEvents, reportVars
<1>3. ASSUME NEW c \in Callers, Call(c)
      PROVE  UNCHANGED <<shouldReset, rpc, visit, snap, entries, report, counted, cleared, hl>>
  BY <1>3 DEF Call, SkipWorker, Enqueue, Overload, Account, reportVars
<1>4. ASSUME NEW w \in Workers, Process(w)
      PROVE  UNCHANGED <<shouldReset, rpc, visit, snap, entries, report, counted, cleared>>
  BY <1>4 DEF Process, callVars, reportVars
<1> QED BY <1>1, <1>2, <1>3, <1>4 DEF Next

\* Hotlists only grow, except when Report resets one.
LEMMA HotlistsGrow ==
  ASSUME TypeOK, [Next]_vars, ~ResetWorker, NEW w \in Workers
  PROVE  hl[w] \subseteq hl'[w]
<1>1. CASE UNCHANGED hl
  BY <1>1
<1>2. ASSUME NEW v \in Workers, Process(v) PROVE hl[w] \subseteq hl'[w]
  BY <1>2 DEF Process, TypeOK
<1>3. CASE BeginReport \/ Report
  BY <1>3 DEF BeginReport, Report, Top, EndReport
<1> QED BY <1>1, <1>2, <1>3, Bystanders

\* A report counts what no report has counted before: what the earlier ones
\* counted is no longer in a hotlist when the next one asks for it.
LEMMA CountedOnceStep ==
  ASSUME TypeOK, Routing, OnePlace, CountedOnce, [Next]_vars
  PROVE  CountedOnce'
<1> SUFFICES ASSUME shouldReset', NEW e \in Events
             PROVE  /\ counted'[e] <= 1
                    /\ counted'[e] # 0 => e \in cleared' \/ (rpc' = "reset" /\ e \in hl'[visit'])
  BY DEF CountedOnce
<1> USE AnalysisAssumption
<1>1. CASE ~BeginReport /\ ~Report
  <2>1. UNCHANGED <<shouldReset, rpc, visit, counted, cleared>> /\ ~ResetWorker
    BY <1>1, Bystanders DEF Report
  <2>2. rpc = "reset" => hl[visit] \subseteq hl'[visit]
    BY <2>1, Visited, HotlistsGrow DEF Routing
  <2> QED BY <2>1, <2>2 DEF CountedOnce
<1>2. CASE BeginReport
  BY <1>2 DEF BeginReport, callVars, CountedOnce
<1>3. CASE EndReport
  BY <1>3 DEF EndReport, callVars, CountedOnce
<1>4. CASE Top
  <2>1. PICK S \in Tops(hl[visit], ReportSize) :
          counted' = [f \in Events |-> IF f \in hl[visit] /\ ItemOf[f] \in S
                                       THEN SmallerOf(2, counted[f] + 1)
                                       ELSE counted[f]]
    BY <1>4 DEF Top
  <2>2. /\ rpc = "top" /\ shouldReset /\ rpc' = "reset" /\ visit' = visit
        /\ UNCHANGED <<hl, cleared>> /\ visit < NumWorkers
    BY <1>4 DEF Top, callVars
  <2>3. counted[e] <= 1 /\ (counted[e] # 0 => e \in cleared)
    BY <2>2 DEF CountedOnce
  <2>4. e \in hl[visit] => e \notin cleared
    BY <2>2, Visited DEF Routing, OnePlace, NotTwice, Hot
  <2>5. counted[e] \in Nat
    BY DEF TypeOK
  <2> QED BY <2>1, <2>2, <2>3, <2>4, <2>5 DEF SmallerOf
<1>5. CASE ResetWorker
  <2>1. /\ shouldReset /\ cleared' = cleared \cup hl[visit] /\ counted' = counted
    BY <1>5 DEF ResetWorker, callVars
  <2> QED BY <2>1 DEF CountedOnce
<1> QED BY <1>1, <1>2, <1>3, <1>4, <1>5 DEF Report

\* With resets, no event is counted in two reports, although worker.top and
\* worker.reset are separate exchanges and events arrive between them.
THEOREM EventsReportedOnce == Spec => []ReportedOnce
<1> DEFINE I == TypeOK /\ Routing /\ OnePlace /\ CountedOnce
<1>1. Init => I
  BY RoutingInit, OnePlaceInit DEF Init, CountedOnce
<1>2. I /\ [Next]_vars => I'
  BY RoutingStep, OnePlaceStep, CountedOnceStep
<1>3. I => ReportedOnce
  BY DEF CountedOnce, ReportedOnce
<1> HIDE DEF I
<1> QED BY <1>1, <1>2, <1>3, PTL DEF Spec

-----------------------------------------------------------------------------
(* What a report lists.                                                    *)

\* The items of a worker's hotlist are that worker's.
LEMMA SupportOf ==
  ASSUME Routing, TypeOK, NEW w \in Workers
  PROVE  /\ \A i \in Support(hl[w]) : i \in Items /\ Slot[i] = w
         /\ \A i \in Support(snap[w]) : i \in Items /\ Slot[i] = w
<1>1. hl[w] \subseteq Events /\ snap[w] \subseteq Events
  BY DEF TypeOK
<1> QED BY <1>1, AnalysisAssumption DEF Support, Routing, Owner

\* Report goes from worker to worker and keeps, for each one it has asked, the
\* entries of that worker's hotlist of the moment.
LEMMA CollectingStep ==
  ASSUME TypeOK, Routing, Collecting, [Next]_vars
  PROVE  Collecting'
<1> USE AnalysisAssumption
<1>1. CASE ~BeginReport /\ ~Report
  BY <1>1, Bystanders DEF Collecting, Asked, Listed
<1>2. CASE BeginReport
  <2>1. /\ rpc' = "top" /\ visit' = 0 /\ entries' = {} /\ snap' = [w \in Workers |-> {}]
    BY <1>2 DEF BeginReport
  <2>2. \A w \in Workers : ~Asked(w)' /\ snap'[w] = {}
    BY <2>1 DEF Asked, Workers
  <2> QED BY <2>1, <2>2 DEF Collecting
<1>3. CASE EndReport
  <2>1. /\ visit = NumWorkers /\ report' = entries /\ rpc' = "idle"
        /\ UNCHANGED <<visit, snap, entries>>
    BY <1>3 DEF EndReport
  <2>2. \A w \in Workers : Asked(w) /\ Asked(w)' /\ Listed(w)' = Listed(w)
    BY <2>1 DEF Asked, Workers, Listed
  <2> QED BY <2>1, <2>2 DEF Collecting, TypeOK, Entry
<1>4. CASE ResetWorker
  <2>1. /\ rpc = "reset" /\ rpc' = "top" /\ visit' = visit + 1
        /\ UNCHANGED <<snap, entries, report>> /\ visit < NumWorkers
    BY <1>4 DEF ResetWorker, Routing
  <2>2. visit \in Nat
    BY <2>1, Visited
  <2>3. \A w \in Workers : (Asked(w)' <=> Asked(w)) /\ Listed(w)' = Listed(w)
    BY <2>1, <2>2 DEF Asked, Workers, Listed
  <2> QED BY <2>1, <2>3 DEF Collecting, TypeOK, Entry
<1>5. CASE Top
  <2> DEFINE h == hl[visit]
  <2>1. /\ rpc = "top" /\ visit < NumWorkers
        /\ snap' = [snap EXCEPT ![visit] = h]
        /\ rpc' = IF shouldReset THEN "reset" ELSE "top"
        /\ visit' = IF shouldReset THEN visit ELSE visit + 1
    BY <1>5 DEF Top
  <2>2. PICK S \in Tops(h, ReportSize) :
          entries' = entries \cup {[item |-> i, count |-> Count(h, i)] : i \in S}
    BY <1>5 DEF Top
  <2>3. visit \in Workers /\ visit \in Nat
    BY <2>1, Visited
  <2>4. \A i \in S : i \in Items /\ Slot[i] = visit
    BY <2>3, SupportOf DEF Tops
  <2>5. /\ \A w \in Workers : Asked(w)' <=> Asked(w) \/ w = visit
        /\ ~Asked(visit)
    BY <2>1, <2>3 DEF Asked, Workers
  <2>6. snap'[visit] = h /\ \A w \in Workers : w # visit => snap'[w] = snap[w]
    BY <2>1, <2>3 DEF TypeOK
  <2> HIDE DEF h
  <2>7. \A x \in entries : Slot[x.item] \in Workers /\ Slot[x.item] # visit
    BY <2>5 DEF Collecting, TypeOK, Entry
  <2>8. ASSUME NEW w \in Workers
        PROVE  Listed(w)' = IF w = visit THEN S ELSE Listed(w)
    <3> DEFINE new == {[item |-> i, count |-> Count(h, i)] : i \in S}
    <3>1. \A i : i \in Listed(w) <=> \E x \in entries : Slot[x.item] = w /\ x.item = i
      BY DEF Listed
    <3>2. \A i : i \in Listed(w)' <=> \E x \in entries' : Slot[x.item] = w /\ x.item = i
      BY DEF Listed
    <3>3. \A x \in new : x.item \in S
      OBVIOUS
    <3>4. \A i \in S : \E x \in new : x.item = i
      <4> TAKE i \in S
      <4> WITNESS [item |-> i, count |-> Count(h, i)] \in new
      <4> QED OBVIOUS
    <3>5. entries' = entries \cup new
      BY <2>2
    <3> HIDE DEF new
    <3>6. CASE w = visit
      <4>1. \A i : i \in Listed(w)' <=> i \in S
        BY <2>4, <2>7, <3>2, <3>3, <3>4, <3>5, <3>6
      <4> QED BY <3>6, <4>1
    <3>7. CASE w # visit
      <4>1. \A i : i \in Listed(w)' <=> i \in Listed(w)
        BY <2>4, <2>7, <3>1, <3>2, <3>3, <3>5, <3>7
      <4> QED BY <3>7, <4>1
    <3> QED BY <3>6, <3>7
  <2>9. ASSUME NEW x \in entries'
        PROVE  Asked(Slot[x.item])' /\ x.count = Count(snap'[Slot[x.item]], x.item)
    <3>1. CASE x \in entries
      BY <2>5, <2>6, <2>7, <3>1 DEF Collecting
    <3>2. CASE x \notin entries
      <4>1. PICK i \in S : x = [item |-> i, count |-> Count(h, i)]
        BY <2>2, <3>2
      <4>2. x.item = i /\ x.count = Count(h, i) /\ Slot[i] = visit
        BY <2>4, <4>1
      <4> QED BY <2>3, <2>5, <2>6, <4>2
    <3> QED BY <3>1, <3>2
  <2>10. ASSUME NEW w \in Workers, Asked(w)' PROVE Listed(w)' \in Tops(snap'[w], ReportSize)
    <3>1. CASE w = visit
      BY <2>6, <2>8, <3>1
    <3>2. CASE w # visit
      BY <2>5, <2>6, <2>8, <2>10, <3>2 DEF Collecting
    <3> QED BY <3>1, <3>2
  <2>11. \A w \in Workers : ~Asked(w)' => snap'[w] = {}
    BY <2>5, <2>6 DEF Collecting
  <2> QED BY <2>1, <2>9, <2>10, <2>11 DEF Collecting
<1> QED BY <1>1, <1>2, <1>3, <1>4, <1>5 DEF Report

\* Being in the support is having a count, and an entry cut off means that the
\* report is full.
LEMMA TopsFacts ==
  ASSUME NEW h \in SUBSET Events, NEW S \in Tops(h, ReportSize)
  PROVE  /\ S \subseteq Support(h) /\ IsFiniteSet(Support(h)) /\ IsFiniteSet(S)
         /\ \A i \in Support(h) : Count(h, i) # 0
         /\ \A i : Count(h, i) # 0 => i \in Support(h)
         /\ S # {} => ReportSize # 0
         /\ \A i \in Support(h) \ S :
              /\ Cardinality(S) = ReportSize
              /\ \A j \in S : Traffic(h, j) >= Traffic(h, i)
<1> USE AnalysisAssumption
<1>1. S \subseteq Support(h) /\ Cardinality(S) = SmallerOf(ReportSize, Cardinality(Support(h)))
  BY DEF Tops
<1>2. Support(h) \subseteq Items
  BY DEF Support
<1>3. IsFiniteSet(Support(h)) /\ IsFiniteSet(S)
  BY <1>1, <1>2, FS_Subset
<1>4. ASSUME NEW i PROVE Count(h, i) # 0 <=> i \in Support(h)
  <2>1. IsFiniteSet({e \in h : ItemOf[e] = i})
    BY FS_Subset
  <2>2. Count(h, i) = 0 <=> {e \in h : ItemOf[e] = i} = {}
    BY <2>1, FS_EmptySet DEF Count
  <2> QED BY <2>2 DEF Support
<1>5. Cardinality(Support(h)) \in Nat /\ Cardinality(S) \in Nat
  BY <1>3, FS_CardinalityType
<1>6. S # {} => ReportSize # 0
  BY <1>1, <1>3, <1>5, FS_EmptySet DEF SmallerOf
<1>7. ASSUME NEW i \in Support(h) \ S PROVE Cardinality(S) = ReportSize
  <2>1. Cardinality(S) # Cardinality(Support(h))
    BY <1>1, <1>3, FS_Subset
  <2> QED BY <1>1, <1>5, <2>1 DEF SmallerOf
<1>8. \A i \in Support(h) \ S : \A j \in S : Traffic(h, j) >= Traffic(h, i)
  BY DEF Tops
<1> QED BY <1>1, <1>3, <1>4, <1>6, <1>7, <1>8

\* What the entries say when all workers have been asked.
LEMMA Collected ==
  ASSUME TypeOK, Routing, Collecting, \A w \in Workers : Asked(w)
  PROVE  /\ \A x, y \in entries : x.item = y.item => x = y
         /\ \A x \in entries : /\ Slot[x.item] \in Workers /\ x.item \in Items /\ x.count \in Nat
                               /\ x.count = Count(snap[Slot[x.item]], x.item)
                               /\ x.count # 0 /\ ReportSize # 0
<1> USE AnalysisAssumption
<1>1. ASSUME NEW x \in entries
      PROVE  /\ x \in Entry /\ x = [item |-> x.item, count |-> x.count]
             /\ x.item \in Items /\ x.count \in Nat /\ Slot[x.item] \in Workers
             /\ x.count = Count(snap[Slot[x.item]], x.item)
  BY DEF Collecting, TypeOK, Entry
<1>2. ASSUME NEW x \in entries PROVE x.count # 0 /\ ReportSize # 0
  <2> DEFINE w == Slot[x.item]
  <2>1. w \in Workers /\ x.count = Count(snap[w], x.item) /\ snap[w] \in SUBSET Events
    BY <1>1 DEF TypeOK
  <2>2. x.item \in Listed(w)
    BY DEF Listed
  <2>3. Listed(w) \in Tops(snap[w], ReportSize)
    BY <2>1 DEF Collecting
  <2> HIDE DEF w
  <2> QED BY <2>1, <2>2, <2>3, TopsFacts
<1> QED BY <1>1, <1>2

\* Without resets what was reported stays true, and the last report is well
\* formed.
LEMMA GrowingStep ==
  ASSUME TypeOK, Routing, Collecting, Growing, WellFormed, [Next]_vars
  PROVE  Growing' /\ WellFormed'
<1> USE AnalysisAssumption
<1>1. TypeOK'
  BY RoutingStep
<1>2. ASSUME NEW x \in report
      PROVE  x.item \in Items /\ x.count \in Nat /\ Slot[x.item] \in Workers
  BY DEF TypeOK, Entry
<1>3. CASE ~EndReport
  <2>1. report' = report /\ WellFormed'
    <3>1. report' = report
      BY <1>3, Bystanders DEF Report, BeginReport, Top, ResetWorker
    <3> QED BY <3>1 DEF WellFormed
  <2> SUFFICES ASSUME ~shouldReset' PROVE
                 /\ \A w \in Workers : snap'[w] \subseteq hl'[w]
                 /\ \A x \in report :
                      /\ x.count <= Count(hl'[Slot[x.item]], x.item)
                      /\ Asked(Slot[x.item])' => x.count <= Count(snap'[Slot[x.item]], x.item)
    BY <2>1 DEF Growing
  <2>2. ~shouldReset
    BY Bystanders DEF Report, BeginReport, Top, ResetWorker, EndReport, callVars
  <2>3. ~ResetWorker
    BY <2>2 DEF ResetWorker, Routing
  <2>4. ASSUME NEW w \in Workers
        PROVE  /\ hl[w] \subseteq hl'[w] /\ snap[w] \subseteq hl[w]
               /\ hl'[w] \in SUBSET Events
               /\ hl[w] \in SUBSET hl'[w] /\ snap[w] \in SUBSET Events
    BY <1>1, <2>2, <2>3, HotlistsGrow DEF TypeOK, Growing
  <2>5. ASSUME NEW x \in report
        PROVE  /\ x.count <= Count(hl'[Slot[x.item]], x.item)
               /\ Asked(Slot[x.item]) => x.count <= Count(snap[Slot[x.item]], x.item)
    <3>1. x.count <= Count(hl[Slot[x.item]], x.item)
      BY <2>2 DEF Growing
    <3>2. Count(hl[Slot[x.item]], x.item) <= Count(hl'[Slot[x.item]], x.item)
      BY <1>2, <2>4, CountGrows
    <3>3. /\ Count(hl[Slot[x.item]], x.item) \in Nat
          /\ Count(hl'[Slot[x.item]], x.item) \in Nat
      BY <1>2, <2>4, CountType
    <3>4. Asked(Slot[x.item]) => x.count <= Count(snap[Slot[x.item]], x.item)
      BY <2>2 DEF Growing
    <3> QED BY <1>2, <3>1, <3>2, <3>3, <3>4
  <2>6. CASE ~BeginReport /\ ~Report
    <3>1. UNCHANGED <<rpc, visit, snap>>
      BY <2>6, Bystanders
    <3> QED BY <2>4, <2>5, <3>1 DEF Asked
  <2>7. CASE BeginReport
    <3>1. \A w \in Workers : ~Asked(w)' /\ snap'[w] = {}
      BY <2>7 DEF BeginReport, Asked, Workers
    <3> QED BY <1>2, <2>5, <3>1
  <2>8. CASE Top
    <3>1. /\ rpc = "top" /\ visit < NumWorkers /\ rpc' = "top" /\ visit' = visit + 1
          /\ snap' = [snap EXCEPT ![visit] = hl[visit]] /\ hl' = hl
      BY <2>2, <2>8 DEF Top
    <3>2. visit \in Workers /\ visit \in Nat
      BY <3>1, Visited
    <3>3. /\ snap'[visit] = hl'[visit]
          /\ \A w \in Workers : w # visit => snap'[w] = snap[w] /\ (Asked(w)' => Asked(w))
      BY <3>1, <3>2 DEF Asked, Workers, TypeOK
    <3>4. \A w \in Workers : snap'[w] \subseteq hl'[w]
      BY <2>4, <3>3
    <3>5. ASSUME NEW x \in report, Asked(Slot[x.item])'
          PROVE  x.count <= Count(snap'[Slot[x.item]], x.item)
      <4>1. CASE Slot[x.item] = visit
        BY <2>5, <3>3, <4>1
      <4>2. CASE Slot[x.item] # visit
        BY <1>2, <2>5, <3>3, <3>5, <4>2
      <4> QED BY <4>1, <4>2
    <3> QED BY <2>5, <3>4, <3>5
  <2> QED BY <1>3, <2>3, <2>6, <2>7, <2>8 DEF Report
<1>4. CASE EndReport
  <2>1. /\ rpc = "top" /\ visit = NumWorkers /\ report' = entries /\ rpc' = "idle"
        /\ UNCHANGED <<visit, snap, entries, hl, shouldReset>>
    BY <1>4 DEF EndReport, callVars
  <2>2. \A w \in Workers : Asked(w)
    BY <2>1 DEF Asked, Workers
  <2>3. /\ \A x, y \in entries : x.item = y.item => x = y
        /\ \A x \in entries : /\ Slot[x.item] \in Workers /\ x.item \in Items /\ x.count \in Nat
                              /\ x.count = Count(snap[Slot[x.item]], x.item)
                              /\ x.count # 0 /\ ReportSize # 0
    BY <2>2, Collected
  <2>4. WellFormed'
    BY <2>1, <2>3 DEF WellFormed
  <2>5. ASSUME ~shouldReset, NEW x \in entries
        PROVE  /\ x.count <= Count(hl[Slot[x.item]], x.item)
               /\ x.count <= Count(snap[Slot[x.item]], x.item)
    <3>1. /\ hl[Slot[x.item]] \in SUBSET Events
          /\ snap[Slot[x.item]] \in SUBSET hl[Slot[x.item]]
      BY <2>3, <2>5 DEF TypeOK, Growing
    <3> QED BY <2>3, <3>1, CountGrows
  <2>6. Growing'
    BY <2>1, <2>5 DEF Growing
  <2> QED BY <2>4, <2>6
<1> QED BY <1>3, <1>4

-----------------------------------------------------------------------------
(* The invariant as a whole, and what reports promise.                     *)

\* Before the first step there is nothing to report.
LEMMA ReportingInit == Init => Reporting
<1> SUFFICES ASSUME Init PROVE Reporting
  OBVIOUS
<1> USE AnalysisAssumption
<1>1. CountedOnce
  BY DEF Init, CountedOnce
<1>2. Growing /\ WellFormed
  BY DEF Init, Growing, WellFormed
<1>3. ASSUME NEW w \in Workers PROVE Listed(w) \in Tops(snap[w], ReportSize)
  <2>1. Listed(w) = {} /\ snap[w] = {} /\ Support({}) = {}
    BY DEF Init, Listed, Support
  <2>2. {} \in Tops({}, ReportSize)
    <3>1. Cardinality({}) = 0 /\ SmallerOf(ReportSize, 0) = 0
      BY FS_EmptySet DEF SmallerOf
    <3>2. Cardinality({}) = SmallerOf(ReportSize, Cardinality(Support({})))
      BY <2>1, <3>1
    <3> QED BY <2>1, <3>2 DEF Tops
  <2> QED BY <2>1, <2>2
<1>4. Collecting
  BY <1>3 DEF Init, Collecting
<1> QED BY <1>1, <1>2, <1>4 DEF Reporting

\* The inductive invariant of the analysis pool: every event is with the worker
\* of its key and in one place, the statistics count what has been dispatched,
\* and a report in progress holds the top entries of the workers asked so far.
THEOREM AInvInvariant == Spec => []AInv
<1>1. Init => AInv
  BY RoutingInit, OnePlaceInit, CountersInit, ReportingInit DEF AInv
<1>2. AInv /\ [Next]_vars => AInv'
  BY RoutingStep, OnePlaceStep, CountersStep, CountedOnceStep, CollectingStep, GrowingStep
     DEF AInv, Reporting
<1> QED BY <1>1, <1>2, PTL DEF Spec

\* Pool.Report is exact for the moment each worker was asked: every item is
\* listed once with its complete count, and one is left out only behind
\* ReportSize items of no less traffic.
THEOREM ReportsAreExact == Spec => []ReportExact
<1>1. AInv => ReportExact
  <2> USE AnalysisAssumption
  <2> DEFINE seen == UNION {snap[w] : w \in Workers}
             traffic(x) == Weight[x.item] * x.count
  <2> SUFFICES ASSUME AInv, rpc = "idle"
               PROVE  /\ \A x, y \in report : x.item = y.item => x = y
                      /\ \A x \in report : x.count = Count(seen, x.item)
                      /\ \A i \in Support(seen) :
                           (\A x \in report : x.item # i) =>
                             Cardinality({x \in report : traffic(x) >= Traffic(seen, i)})
                               >= ReportSize
    BY DEF ReportExact
  <2>1. TypeOK /\ Routing /\ Collecting /\ report = entries /\ \A w \in Workers : Asked(w)
    BY DEF AInv, Reporting, Collecting, Asked
  <2>2. /\ \A x, y \in report : x.item = y.item => x = y
        /\ \A x \in report : /\ Slot[x.item] \in Workers /\ x.item \in Items /\ x.count \in Nat
                             /\ x.count = Count(snap[Slot[x.item]], x.item)
    BY <2>1, Collected
  <2>3. \A w \in Workers : snap[w] \in SUBSET Events /\ snap[w] \subseteq seen
    BY <2>1 DEF TypeOK
  <2>4. seen \in SUBSET Events /\ \A e \in seen : e \in snap[Owner(e)]
    BY <2>1 DEF TypeOK, Routing
  <2> HIDE DEF seen
  <2>5. ASSUME NEW i \in Items PROVE Count(seen, i) = Count(snap[Slot[i]], i)
    <3>1. {e \in seen : ItemOf[e] = i} = {e \in snap[Slot[i]] : ItemOf[e] = i}
      BY <2>3, <2>4 DEF Owner
    <3> QED BY <3>1 DEF Count
  <2>6. ASSUME NEW i \in Support(seen), \A x \in report : x.item # i
        PROVE  Cardinality({x \in report : traffic(x) >= Traffic(seen, i)}) >= ReportSize
    <3> DEFINE w == Slot[i]
               L == Listed(w)
               B == {x \in report : traffic(x) >= Traffic(seen, i)}
    <3>1. i \in Items /\ w \in Workers /\ i \in Support(snap[w])
      BY <2>4 DEF Support, Owner
    <3>2. L \in Tops(snap[w], ReportSize) /\ snap[w] \in SUBSET Events
      BY <2>1, <2>3, <3>1 DEF Collecting
    <3>3. L = {x.item : x \in {y \in report : Slot[y.item] = w}}
      BY <2>1 DEF Listed
    <3>4. i \notin L
      BY <2>6, <3>3
    <3> HIDE DEF L
    <3>5. /\ Cardinality(L) = ReportSize /\ L \subseteq Support(snap[w]) /\ IsFiniteSet(L)
          /\ \A j \in L : Traffic(snap[w], j) >= Traffic(snap[w], i)
      BY <3>1, <3>2, <3>4, TopsFacts
    <3>6. Traffic(seen, i) = Traffic(snap[w], i)
      BY <2>5, <3>1 DEF Traffic
    <3>7. ASSUME NEW x \in report, Slot[x.item] = w
          PROVE  x.item \in L /\ traffic(x) = Traffic(snap[w], x.item) /\ x \in B
      <4>1. x.item \in L
        BY <3>3, <3>7
      <4>2. traffic(x) = Traffic(snap[w], x.item)
        BY <2>2, <3>7 DEF Traffic
      <4> QED BY <3>5, <3>6, <4>1, <4>2
    <3> HIDE DEF w, B
    <3>8. PICK f \in [L -> report] : \A j \in L : f[j].item = j /\ Slot[f[j].item] = w
      <4> DEFINE f == [j \in L |-> CHOOSE x \in report : x.item = j /\ Slot[x.item] = w]
      <4>1. ASSUME NEW j \in L PROVE \E x \in report : x.item = j /\ Slot[x.item] = w
        BY <3>3
      <4>2. \A j \in L : f[j] \in report /\ f[j].item = j /\ Slot[f[j].item] = w
        BY <4>1
      <4>3. f \in [L -> report]
        BY <4>2
      <4> HIDE DEF f
      <4> QED BY <4>2, <4>3
    <3>9. f \in Injection(L, B)
      <4>1. f \in [L -> B]
        BY <3>7, <3>8
      <4>2. \A j, k \in L : f[j] = f[k] => j = k
        BY <3>8
      <4> QED BY <4>1, <4>2 DEF Injection, IsInjective
    <3>10. IsFiniteSet(B)
      <4> DEFINE g == [x \in B |-> x.item]
      <4>1. B \subseteq report
        BY DEF B
      <4>2. g \in [B -> Items] /\ \A x, y \in B : g[x] = g[y] => x = y
        BY <2>2, <4>1
      <4>3. g \in Injection(B, Items)
        BY <4>2 DEF Injection, IsInjective
      <4> QED BY <4>3, FS_Injection
    <3>11. Cardinality(L) <= Cardinality(B)
      BY <3>9, <3>10, FS_Injection
    <3>12. Cardinality(B) \in Nat
      BY <3>10, FS_CardinalityType
    <3> QED BY <3>5, <3>11, <3>12 DEF B
  <2>7. \A x \in report : x.count = Count(seen, x.item)
    BY <2>2, <2>5
  <2> QED BY <2>2, <2>6, <2>7
<1> QED BY <1>1, AInvInvariant, PTL

\* In cumulative mode the report of an item never goes down, and one that is no
\* longer listed has made room for an item of its own worker with no less
\* traffic: Pool.Report never loses a key to anything but busier keys.
THEOREM CumulativeReportsGrow == Spec => ReportsGrow
<1> USE AnalysisAssumption
<1>1. ASSUME AInv, [Next]_vars, ~shouldReset, NEW x \in report
      PROVE  /\ \A y \in report' : x.item = y.item => y.count >= x.count
             /\ \E y \in report' :
                  /\ Slot[y.item] = Slot[x.item]
                  /\ Weight[y.item] * y.count >= Weight[x.item] * x.count
  <2>1. TypeOK /\ Routing /\ Collecting /\ Growing /\ WellFormed
    BY <1>1 DEF AInv, Reporting
  <2>2. /\ x.item \in Items /\ x.count \in Nat /\ Slot[x.item] \in Workers
        /\ Weight[x.item] \in Nat
    BY <2>1 DEF TypeOK, Entry
  <2>3. Weight[x.item] * x.count \in Nat
    BY <2>2
  <2>4. CASE ~EndReport
    <3>1. report' = report
      BY <1>1, <2>4, Bystanders DEF Report, BeginReport, Top, ResetWorker
    <3>2. \A y \in report' : x.item = y.item => y.count >= x.count
      BY <2>1, <2>2, <3>1 DEF WellFormed
    <3>3. Weight[x.item] * x.count >= Weight[x.item] * x.count
      BY <2>3
    <3> QED BY <1>1, <3>1, <3>2, <3>3
  <2>5. CASE EndReport
    <3> DEFINE w == Slot[x.item]
               L == Listed(w)
    <3>1. report' = entries /\ \A v \in Workers : Asked(v)
      BY <2>5 DEF EndReport, Asked, Workers
    <3>2. \A y \in entries : /\ Slot[y.item] \in Workers /\ y.item \in Items /\ y.count \in Nat
                             /\ y.count = Count(snap[Slot[y.item]], y.item)
      BY <2>1, <3>1, Collected
    <3>3. x.count <= Count(snap[w], x.item) /\ x.count # 0 /\ ReportSize # 0
      BY <1>1, <2>1, <2>2, <3>1 DEF Growing, WellFormed
    <3>4. L \in Tops(snap[w], ReportSize) /\ snap[w] \in SUBSET Events
      BY <2>1, <2>2, <3>1 DEF Collecting, TypeOK
    <3>5. Count(snap[w], x.item) \in Nat
      BY <3>4, CountType
    <3>6. \A i : i \in L <=> \E y \in entries : Slot[y.item] = w /\ y.item = i
      BY DEF Listed
    <3>7. \A y \in entries : x.item = y.item => y.count >= x.count
      BY <2>2, <3>2, <3>3, <3>5
    <3> HIDE DEF w, L
    <3>8. Weight[x.item] * Count(snap[w], x.item) >= Weight[x.item] * x.count
      <4>1. \A a, b, c \in Nat : b <= c => a * b <= a * c
        OBVIOUS
      <4>2. Weight[x.item] * x.count <= Weight[x.item] * Count(snap[w], x.item)
        BY <2>2, <3>3, <3>5, <4>1
      <4> QED BY <2>2, <3>5, <4>2
    <3>9. \E y \in entries : /\ Slot[y.item] = w
                             /\ Weight[y.item] * y.count >= Weight[x.item] * x.count
      <4>1. CASE x.item \in L
        <5>1. PICK y \in entries : y.item = x.item /\ Slot[y.item] = w
          BY <3>6, <4>1
        <5> QED BY <3>2, <3>8, <5>1
      <4>2. CASE x.item \notin L
        <5>1. x.item \in Support(snap[w])
          BY <2>2, <3>3, <3>4, <3>5, TopsFacts
        <5>2. /\ Cardinality(L) = ReportSize
              /\ \A j \in L : Traffic(snap[w], j) >= Traffic(snap[w], x.item)
          BY <3>4, <4>2, <5>1, TopsFacts
        <5>3. L # {}
          BY <3>3, <5>2, FS_EmptySet
        <5>4. PICK y \in entries : y.item \in L /\ Slot[y.item] = w
          BY <3>6, <5>3
        <5>5. Weight[y.item] * y.count >= Weight[x.item] * Count(snap[w], x.item)
          BY <3>2, <5>2, <5>4 DEF Traffic
        <5>6. Weight[y.item] * y.count \in Nat /\ Weight[x.item] * Count(snap[w], x.item) \in Nat
          BY <2>2, <3>2, <3>5
        <5> QED BY <2>3, <3>8, <5>4, <5>5, <5>6
      <4> QED BY <4>1, <4>2
    <3> QED BY <3>1, <3>7, <3>9 DEF w
  <2> QED BY <2>4, <2>5
<1>2. AInv /\ [Next]_vars =>
        [~shouldReset => \A x \in report :
           /\ \A y \in report' : x.item = y.item => y.count >= x.count
           /\ \E y \in report' :
                /\ Slot[y.item] = Slot[x.item]
                /\ Weight[y.item] * y.count >= Weight[x.item] * x.count]_vars
  BY <1>1
<1> QED BY <1>2, AInvInvariant, PTL DEF Spec, ReportsGrow
=============================================================================

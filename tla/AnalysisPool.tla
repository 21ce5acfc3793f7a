---------------------------- MODULE AnalysisPool ----------------------------
(***************************************************************************)
(* The analysis pool (analysis/*.go, hotlist/*.go).                        *)
(*                                                                         *)
(* Many goroutines call HandleEvents, which filters a batch of events,     *)
(* splits it by key, and offers each part to the worker that owns its keys *)
(* without ever blocking.  One goroutine, the user interface, calls        *)
(* Report, which visits the workers one after the other: it asks for the   *)
(* worker's top entries and, unless --cumulative is set, resets it in a    *)
(* second exchange.  Each worker executes worker.loop and is the only one  *)
(* to touch its hotlist.                                                   *)
(*                                                                         *)
(* An event is a model of one GET hit; it is only ever counted, so a       *)
(* hotlist is the set of events added to it since its last reset.          *)
(***************************************************************************)
EXTENDS Naturals, Sequences, FiniteSets

CONSTANTS
  Callers,      \* goroutines that call HandleEvents (assembly workers)
  Events,       \* the events they will report
  Items,        \* keyInfo values: cache key and value size
  ItemOf,       \* the keyInfo of an event
  Weight,       \* keyInfo.Weight: the size
  Match,        \* items whose key passes the filter set at startup
  NumWorkers,   \* flag --analysisworkers
  Slot,         \* keySlot of an item's key
  QueueCap,     \* capacity of kisChan (1024)
  ReportSize,   \* flag --top
  MaxBatch      \* largest batch a caller hands over (a bound)

Workers == 0..(NumWorkers - 1)

ASSUME AnalysisAssumption ==
  /\ IsFiniteSet(Events) /\ IsFiniteSet(Items)
  /\ ItemOf \in [Events -> Items]
  /\ Weight \in [Items -> Nat]
  /\ Match \subseteq Items
  /\ NumWorkers \in Nat \ {0}
  /\ Slot \in [Items -> Workers]
  /\ QueueCap \in Nat \ {0} /\ ReportSize \in Nat

VARIABLES
  shouldReset, \* argument of Report, fixed at start: not --cumulative
  fresh,      \* events not yet reported by a caller
  filtered,   \* events the filter has removed
  todo,       \* todo[c]: perWorkerEvents of c's call of HandleEvents
  at,         \* at[c]: its loop variable; NumWorkers when c is not in a call
  offered,    \* outcome of c's offer to worker at[c]: "no", "queued", "full"
  kisChan,    \* kisChan[w]: queued batches
  hl,         \* hl[w]: the hotlist
  shed,       \* events lost to a full queue
  cleared,    \* events erased by worker resets
  handled,    \* Stats.EventsHandled
  dropped,    \* Stats.EventsDropped
  rpc,        \* where Report is: "idle", "top", "reset"
  visit,      \* the worker Report visits
  snap,       \* snap[w]: the hotlist as Report saw it
  entries,    \* allEntries of the call in progress
  report,     \* what the last call returned
  counted     \* history: in how many reports each event was counted (2: or more)

callVars   == <<shouldReset, fresh, filtered, todo, at, offered, shed, handled, dropped>>
reportVars == <<rpc, visit, snap, entries, report, counted>>
vars == <<shouldReset, fresh, filtered, todo, at, offered, kisChan, hl, shed,
          cleared, handled, dropped, rpc, visit, snap, entries, report, counted>>

Entry == [item : Items, count : Nat]

TypeOK ==
  /\ shouldReset \in BOOLEAN
  /\ fresh \subseteq Events /\ filtered \subseteq Events
  /\ shed \subseteq Events /\ cleared \subseteq Events
  /\ todo \in [Callers -> [Workers -> SUBSET Events]]
  /\ at \in [Callers -> 0..NumWorkers]
  /\ offered \in [Callers -> {"no", "queued", "full"}]
  /\ kisChan \in [Workers -> Seq(SUBSET Events)]
  /\ hl \in [Workers -> SUBSET Events]
  /\ handled \in Nat /\ dropped \in Nat
  /\ rpc \in {"idle", "top", "reset"}
  /\ visit \in 0..NumWorkers
  /\ snap \in [Workers -> SUBSET Events]
  /\ entries \subseteq Entry /\ report \subseteq Entry
  /\ counted \in [Events -> Nat]

Init ==
  /\ shouldReset \in BOOLEAN
  /\ fresh = Events /\ filtered = {} /\ shed = {} /\ cleared = {}
  /\ todo = [c \in Callers |-> [w \in Workers |-> {}]]
  /\ at = [c \in Callers |-> NumWorkers]
  /\ offered = [c \in Callers |-> "no"]
  /\ kisChan = [w \in Workers |-> <<>>]
  /\ hl = [w \in Workers |-> {}]
  /\ handled = 0 /\ dropped = 0
  /\ rpc = "idle" /\ visit = 0
  /\ snap = [w \in Workers |-> {}]
  /\ entries = {} /\ report = {}
  /\ counted = [e \in Events |-> 0]

-----------------------------------------------------------------------------
(* HandleEvents, on the goroutine of caller c.                             *)

partitionEvents_RoundRobin(S) == [w \in Workers |-> {e \in S : e % NumWorkers = w}]

partitionEvents(S) == [w \in Workers |-> {e \in S : Slot[ItemOf[e]] = w}]

\* filter.filterEvents: the events whose key matches.
filterEvents(S) == {e \in S : ItemOf[e] \in Match}

HandleEvents(c, S) ==
  /\ at[c] = NumWorkers
  /\ S \subseteq fresh
  /\ fresh' = fresh \ S
  /\ filtered' = filtered \cup (S \ filterEvents(S))
  /\ todo' = [todo EXCEPT ![c] = partitionEvents(filterEvents(S))]
  /\ at' = [at EXCEPT ![c] = 0]
  /\ UNCHANGED <<shouldReset, offered, shed, handled, dropped, kisChan, hl, cleared, reportVars>>

\* len(events) == 0
SkipWorker(c) ==
  /\ at[c] < NumWorkers
  /\ offered[c] = "no"
  /\ todo[c][at[c]] = {}
  /\ at' = [at EXCEPT ![c] = @ + 1]
  /\ UNCHANGED <<shouldReset, fresh, filtered, todo, offered, shed, handled, dropped,
                 kisChan, hl, cleared, reportVars>>

\* worker.handleEvents: case w.kisChan <- kis
Enqueue(c) ==
  LET w == at[c] IN
  /\ w < NumWorkers
  /\ offered[c] = "no"
  /\ todo[c][w] # {}
  /\ Len(kisChan[w]) < QueueCap
  /\ kisChan' = [kisChan EXCEPT ![w] = Append(@, todo[c][w])]
  /\ offered' = [offered EXCEPT ![c] = "queued"]
  /\ UNCHANGED <<shouldReset, fresh, filtered, todo, at, shed, handled, dropped, hl, cleared,
                 reportVars>>

\* default: errQueueFull
Overload(c) ==
  LET w == at[c] IN
  /\ w < NumWorkers
  /\ offered[c] = "no"
  /\ todo[c][w] # {}
  /\ Len(kisChan[w]) >= QueueCap
  /\ shed' = shed \cup todo[c][w]
  /\ offered' = [offered EXCEPT ![c] = "full"]
  /\ UNCHANGED <<shouldReset, fresh, filtered, todo, at, handled, dropped, kisChan, hl, cleared,
                 reportVars>>

\* Forgets the continue after addDropped.
Account_Both(c) ==
  LET n == Cardinality(todo[c][at[c]]) IN
  /\ offered[c] # "no"
  /\ dropped' = IF offered[c] = "full" THEN dropped + n ELSE dropped
  /\ handled' = handled + n
  /\ offered' = [offered EXCEPT ![c] = "no"]
  /\ todo' = [todo EXCEPT ![c][at[c]] = {}]
  /\ at' = [at EXCEPT ![c] = @ + 1]
  /\ UNCHANGED <<shouldReset, fresh, filtered, shed, kisChan, hl, cleared, reportVars>>

\* stats.addHandled or stats.addDropped.
Account(c) ==
  LET n == Cardinality(todo[c][at[c]]) IN
  /\ offered[c] # "no"
  /\ handled' = IF offered[c] = "queued" THEN handled + n ELSE handled
  /\ dropped' = IF offered[c] = "full" THEN dropped + n ELSE dropped
  /\ offered' = [offered EXCEPT ![c] = "no"]
  /\ todo' = [todo EXCEPT ![c][at[c]] = {}]
  /\ at' = [at EXCEPT ![c] = @ + 1]
  /\ UNCHANGED <<shouldReset, fresh, filtered, shed, kisChan, hl, cleared, reportVars>>

-----------------------------------------------------------------------------
(* worker.loop of w, and the rendezvous of Report with it.                 *)

\* case kis := <-w.kisChan: AddWeighted for each.
Process(w) ==
  /\ kisChan[w] # <<>>
  /\ hl' = [hl EXCEPT ![w] = @ \cup Head(kisChan[w])]
  /\ kisChan' = [kisChan EXCEPT ![w] = Tail(@)]
  /\ UNCHANGED <<callVars, cleared, reportVars>>

\* hl[i]: how often item i occurs.
Count(h, i)   == Cardinality({e \in h : ItemOf[e] = i})
\* itemCount.totalWeight, TrafficEstimate
Traffic(h, i) == Weight[i] * Count(h, i)
Support(h)    == {ItemOf[e] : e \in h}

SmallerOf(m, n) == IF m <= n THEN m ELSE n

\* Sorts by count alone.
Tops_ByCount(h, k) ==
  {S \in SUBSET Support(h) :
     /\ Cardinality(S) = SmallerOf(k, Cardinality(Support(h)))
     /\ \A i \in S : \A j \in Support(h) \ S : Count(h, i) >= Count(h, j)}

\* orderedTop: the k items of largest total weight.  The sort is not stable
\* and starts from map order, so among equals any may be cut.
Tops(h, k) ==
  {S \in SUBSET Support(h) :
     /\ Cardinality(S) = SmallerOf(k, Cardinality(Support(h)))
     /\ \A i \in S : \A j \in Support(h) \ S : Traffic(h, i) >= Traffic(h, j)}

BeginReport ==
  /\ rpc = "idle"
  /\ rpc' = "top"
  /\ visit' = 0
  /\ entries' = {}
  /\ snap' = [w \in Workers |-> {}]
  /\ UNCHANGED <<callVars, kisChan, hl, cleared, report, counted>>

\* Resets in cumulative mode too.
Top_AlwaysResets ==
  /\ rpc = "top"
  /\ visit < NumWorkers
  /\ \E S \in Tops(hl[visit], ReportSize) :
       entries' = entries \cup {[item |-> i, count |-> Count(hl[visit], i)] : i \in S}
  /\ snap' = [snap EXCEPT ![visit] = hl[visit]]
  /\ rpc' = "reset"
  /\ UNCHANGED <<callVars, kisChan, hl, cleared, report, visit, counted>>

\* w.top(p.reportSize): request, hl.Top and reply.
Top ==
  /\ rpc = "top"
  /\ visit < NumWorkers
  /\ \E S \in Tops(hl[visit], ReportSize) :
       /\ entries' = entries \cup {[item |-> i, count |-> Count(hl[visit], i)] : i \in S}
       /\ counted' = [e \in Events |-> IF e \in hl[visit] /\ ItemOf[e] \in S
                                       THEN SmallerOf(2, counted[e] + 1)
                                       ELSE counted[e]]
  /\ snap' = [snap EXCEPT ![visit] = hl[visit]]
  /\ rpc' = IF shouldReset THEN "reset" ELSE "top"
  /\ visit' = IF shouldReset THEN visit ELSE visit + 1
  /\ UNCHANGED <<callVars, kisChan, hl, cleared, report>>

\* Gives up when the worker has a batch to process (a send that may not block).
ResetWorker_GivesUp ==
  LET gone == IF kisChan[visit] = <<>> THEN hl[visit] ELSE {} IN
  /\ rpc = "reset"
  /\ hl' = [hl EXCEPT ![visit] = @ \ gone]
  /\ cleared' = cleared \cup gone
  /\ rpc' = "top"
  /\ visit' = visit + 1
  /\ UNCHANGED <<callVars, kisChan, snap, entries, report, counted>>

\* w.reset()
ResetWorker ==
  /\ rpc = "reset"
  /\ hl' = [hl EXCEPT ![visit] = {}]
  /\ cleared' = cleared \cup hl[visit]
  /\ rpc' = "top"
  /\ visit' = visit + 1
  /\ UNCHANGED <<callVars, kisChan, snap, entries, report, counted>>

\* All entries are turned into key reports and sorted.
EndReport ==
  /\ rpc = "top"
  /\ visit = NumWorkers
  /\ report' = entries
  /\ rpc' = "idle"
  /\ UNCHANGED <<callVars, kisChan, hl, cleared, visit, snap, entries, counted>>

-----------------------------------------------------------------------------
Call(c) == SkipWorker(c) \/ Enqueue(c) \/ Overload(c) \/ Account(c)

Batches == {S \in SUBSET Events : S # {} /\ Cardinality(S) <= MaxBatch}

Report == Top \/ ResetWorker \/ EndReport

Next ==
  \/ \E c \in Callers : Call(c) \/ (\E S \in Batches : HandleEvents(c, S))
  \/ \E w \in Workers : Process(w)
  \/ BeginReport
  \/ Report

Spec == Init /\ [][Next]_vars

-----------------------------------------------------------------------------
(* Properties.                                                             *)

\* Where event e is, each place under a name of its own.
Homes(e) ==
  UNION {
    {<<"fresh">> : x \in {e} \cap fresh},
    {<<"filtered">> : x \in {e} \cap filtered},
    {<<"shed">> : x \in {e} \cap shed},
    {<<"cleared">> : x \in {e} \cap cleared},
    {<<"todo", p[1], p[2]>> :
       p \in {q \in Callers \X Workers :
                /\ e \in todo[q[1]][q[2]]
                /\ offered[q[1]] = "no" \/ q[2] # at[q[1]]}},
    UNION {{<<"queue", w, i>> : i \in {j \in DOMAIN kisChan[w] : e \in kisChan[w][j]}} :
             w \in Workers},
    {<<"hotlist", w>> : w \in {v \in Workers : e \in hl[v]}}}

\* Every event is in exactly one place and, once dispatched, with the worker
\* that owns its key: nothing is counted twice, nothing disappears without
\* being shed, filtered or cleared (HandleEvents, worker.loop, Report).
EventsAccounted ==
  /\ TypeOK
  /\ \A e \in Events :
       /\ Cardinality(Homes(e)) = 1
       /\ \A p \in Homes(e) : p[1] \in {"queue", "hotlist"} => p[2] = Slot[ItemOf[e]]

\* Pool.Stats: when no call is in progress, EventsHandled counts exactly the
\* events that reached a worker and EventsDropped those shed for a full queue.
StatsExact ==
  (\A c \in Callers : at[c] = NumWorkers) =>
    /\ dropped = Cardinality(shed)
    /\ handled + dropped = Cardinality(Events \ (fresh \cup filtered))

\* With resets, successive reports never count an event twice, although top
\* and reset are two exchanges with the worker and events arrive between them.
ReportedOnce == shouldReset => \A e \in Events : counted[e] <= 1

\* A finished report is exact for the moment each worker was asked: an item (a
\* key with a value size, keyInfo) is listed once, with its complete count over
\* all workers, and an item left out has at least ReportSize items of no less
\* traffic before it.
ReportExact ==
  LET seen == UNION {snap[w] : w \in Workers}
      traffic(x) == Weight[x.item] * x.count
  IN  rpc = "idle" =>
        /\ \A x, y \in report : x.item = y.item => x = y
        /\ \A x \in report : x.count = Count(seen, x.item)
        /\ \A i \in Support(seen) :
             (\A x \in report : x.item # i) =>
               Cardinality({x \in report : traffic(x) >= Traffic(seen, i)}) >= ReportSize

\* In cumulative mode (Report without reset) the count of an item never goes
\* down from one report to the next, and an item leaves the report only for
\* one of the same worker with no less traffic.
ReportsGrow ==
  [][~shouldReset => \A x \in report :
       /\ \A y \in report' : x.item = y.item => y.count >= x.count
       /\ \E y \in report' :
            /\ Slot[y.item] = Slot[x.item]
            /\ Weight[y.item] * y.count >= Weight[x.item] * x.count]_vars
=============================================================================

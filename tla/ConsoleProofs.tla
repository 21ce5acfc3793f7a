---------------------------- MODULE ConsoleProofs ----------------------------
(***************************************************************************)
(* Proofs about the loggers and the interface, for any number of logging   *)
(* goroutines, messages and keys and any capacity of msgChan.              *)
(*                                                                         *)
(* What has reached the interface is one sequence, All: what the event     *)
(* loop has received followed by what waits in msgChan.  Both the          *)
(* goroutine that writes the buffer out and the goroutines that log        *)
(* directly append to it.  That nothing is in it twice rests on a message  *)
(* going to the buffer or to the channel exactly when its goroutine        *)
(* releases the read lock (Sent), and on main switching the proxy before   *)
(* it starts to write the buffer out (Startup), so that the buffer no      *)
(* longer grows while it is forwarded in order (Forwarded).                *)
(***************************************************************************)
EXTENDS Console, TLAPS

All   == shown \o msgChan
Lines == Messages \cup {PauseNote}

\* Types: those of TypeOK, with the elements of the sequences.
Types ==
  /\ TypeOK
  /\ msgChan \in Seq(Lines) /\ shown \in Seq(Lines) /\ messages \in Seq(Lines)

\* The messages that have left the goroutine that logs them.
Sent ==
  {m \in Messages : m[2] <= logged[m[1]] /\ (m[1] \in readLocks => m[2] < logged[m[1]])}

\* A goroutine with the read lock is about to hand over a message; the buffer
\* holds each message once.
Buffered ==
  /\ \A g \in readLocks : logged[g] # 0
  /\ \A n \in 1..Len(buf) : buf[n] \in Sent
  /\ \A n, k \in 1..Len(buf) : buf[n] = buf[k] => n = k

\* Messages go to the buffer until main has switched the proxy, and nothing has
\* been forwarded by then.
Startup ==
  /\ main \in {"setCui", "setNoGui"} => Len(shown) = 0 /\ Len(msgChan) = 0
  /\ proxy = "buffered" <=> main \in {"setCui", "setNoGui"}
  /\ main \in {"setCui", "setNoGui", "spawn"} => flusher = "none"
  /\ flusher \in {"none", "lock"} => written = 0

\* The interface has each message once, and of the buffer the first ones, in
\* order.
Forwarded ==
  /\ \A i \in 1..Len(All) : All[i] \in Sent \cup {PauseNote}
  /\ \A i, j \in 1..Len(All) : i < j /\ All[i] = All[j] => All[i] = PauseNote
  /\ \A i \in 1..Len(All), n \in 1..Len(buf) : All[i] = buf[n] => n <= written
  /\ \A i, j \in 1..Len(All), n, k \in 1..Len(buf) :
       i < j /\ All[i] = buf[n] /\ All[j] = buf[k] => n < k

CInv == Types /\ Buffered /\ Startup /\ Forwarded

\* Since the analysis was reset no interval has passed but the one whose tick
\* the event loop has not taken yet, or could not report because termbox failed.
OneInterval ==
  ~Cumulative => /\ span \in 0..1 /\ prevSpan \in 0..1
                 /\ span = 1 => tick \/ Leaving

-----------------------------------------------------------------------------
(* Pausing.                                                                *)

\* Fairness plays no role in what follows.
LEMMA Unfair == Spec => Init /\ [][Next]_vars
  BY PTL DEF Spec

\* Whatever the ticker and the user do: a report is taken for every tick and
\* resets the analysis, paused or not, so that what is displayed after a pause
\* covers one interval: "so we don't get a big burst of data on unpause" (update).
THEOREM NoBurstOnUnpause == Spec => []NoBurst
<1>1. Init => OneInterval
  <2>1. Init => span = 0 /\ prevSpan = 0
    BY Zenon DEF Init
  <2> QED BY <2>1 DEF OneInterval
<1>2. OneInterval /\ [Next]_vars => OneInterval'
  <2> SUFFICES ASSUME OneInterval, [Next]_vars, ~Cumulative PROVE OneInterval'
    BY DEF OneInterval
  <2>1. span \in 0..1 /\ prevSpan \in 0..1 /\ (span = 1 => tick \/ Leaving)
    BY DEF OneInterval
  <2>2. CASE UNCHANGED <<tick, span, prevSpan>> /\ (Leaving => Leaving')
    BY <2>1, <2>2 DEF OneInterval
  \* Either the event loop leaves, or the analysis is reset.
  <2>3. ASSUME NEW next, Update(next)
        PROVE  \/ UNCHANGED <<span, prevSpan>> /\ main' = "interrupt"
               \/ span' = 0 /\ prevSpan' \in {span, prevSpan}
    BY <2>3 DEF Update, Report, Returns
  <2>4. ASSUME NEW next, Update(next) PROVE OneInterval'
    <3>1. span' \in 0..1 /\ prevSpan' \in 0..1 /\ (span' = 1 => main' = "interrupt")
      BY <2>1, <2>3, <2>4
    <3> QED BY <3>1 DEF OneInterval, Leaving
  <2>5. CASE StartUi
    BY <2>2, <2>4, <2>5 DEF StartUi, Leaving
  <2>6. CASE HandleEvent
    BY <2>2, <2>4, <2>6 DEF HandleEvent, Leaving
  <2>7. CASE Tick
    BY <2>4, <2>7 DEF Tick
  <2>8. CASE TickerFires
    <3>1. span = 0 /\ tick' = TRUE /\ prevSpan' = prevSpan
      BY <2>1, <2>8 DEF TickerFires, Leaving
    <3>2. span' = 1
      BY <2>8, <3>1, ConsoleAssumption DEF TickerFires
    <3> QED BY <2>1, <3>1, <3>2 DEF OneInterval
  <2>9. CASE Main /\ ~StartUi
    BY <2>2, <2>9 DEF Main, SetLogger, Spawn, LogPause, Interrupted, WriteToConsole, screen,
                      Leaving
  <2>10. CASE Signal \/ ReceiveMessage \/ Flusher
    BY <2>2, <2>10 DEF Signal, ReceiveMessage, Flusher, FlusherLock, FlusherSend, screen,
                       Leaving
  <2>11. CASE \E g \in Loggers : RLock(g) \/ Forward(g)
    BY <2>2, <2>11 DEF RLock, Forward, screen, Leaving
  <2>12. CASE \E e \in {"p", "q", "redraw"} : PollEvent(e)
    BY <2>2, <2>12 DEF PollEvent, screen, Leaving
  <2>13. CASE UNCHANGED vars
    BY <2>2, <2>13 DEF vars, screen, Leaving
  <2> QED BY <2>5, <2>6, <2>7, <2>8, <2>9, <2>10, <2>11, <2>12, <2>13 DEF Next
<1>3. OneInterval => NoBurst
  BY DEF OneInterval, NoBurst
<1> QED BY <1>1, <1>2, <1>3, Unfair, PTL

-----------------------------------------------------------------------------
(* Types.                                                                  *)

\* Sequences of log lines.
LEMMA SeqFacts ==
  ASSUME NEW S, NEW q \in Seq(S)
  PROVE  /\ Len(q) \in Nat
         /\ \A i \in 1..Len(q) : q[i] \in S
         /\ \A x \in S : /\ Append(q, x) \in Seq(S) /\ Len(Append(q, x)) = Len(q) + 1
                         /\ Append(q, x)[Len(q) + 1] = x
                         /\ \A i \in 1..Len(q) : Append(q, x)[i] = q[i]
         /\ q # <<>> => /\ Head(q) \in S /\ Head(q) = q[1] /\ 1 \in 1..Len(q)
                        /\ Tail(q) \in Seq(S) /\ Len(Tail(q)) = Len(q) - 1
                        /\ \A i \in 1..Len(Tail(q)) : Tail(q)[i] = q[i + 1]
  OBVIOUS

\* The elements of the buffer are messages, and what handlePause says is not.
LEMMA LineFacts ==
  /\ Messages \subseteq Lines /\ PauseNote \in Lines /\ PauseNote \notin Messages
  /\ \A m \in Messages : m[1] \in Loggers /\ m[2] \in 1..MaxLogs /\ m = <<m[1], m[2]>>
<1>1. PauseNote[2] = 0
  BY DEF PauseNote
<1> QED BY <1>1, ConsoleAssumption DEF Messages, Lines

\* The start state is well typed.
LEMMA TypesInit == Init => Types
<1> SUFFICES ASSUME Init PROVE Types
  OBVIOUS
<1>1. logged \in [Loggers -> 0..MaxLogs]
  BY ConsoleAssumption DEF Init
<1>2. /\ buf \in Seq(Messages) /\ written \in 0..Len(buf)
      /\ msgChan \in Seq(Lines) /\ shown \in Seq(Lines) /\ messages \in Seq(Lines)
      /\ Len(msgChan) <= MsgCap /\ Len(messages) <= LogLines
  BY ConsoleAssumption DEF Init
<1>3. /\ readLocks \subseteq Loggers /\ printed \subseteq Messages
      /\ span \in 0..MaxSpan /\ prevSpan \in 0..MaxSpan /\ keys \in 0..MaxKeys
  BY ConsoleAssumption DEF Init
<1>4. writer \in BOOLEAN /\ failed \in BOOLEAN /\ paused \in BOOLEAN /\ tick \in BOOLEAN
  BY Zenon DEF Init
<1>5. /\ proxy \in {"buffered", "cui", "console"} /\ bufLock \in {nobody, "flusher"}
      /\ flusher \in {"none", "lock", "send", "done"}
      /\ main \in {"setCui", "setNoGui"}
      /\ poller \in {"none", "poll", "send", "stopped"}
      /\ event \in {"none", "p", "q", "redraw"}
  BY DEF Init
<1> QED BY <1>1, <1>2, <1>3, <1>4, <1>5 DEF Types, TypeOK

\* A goroutine logs a message.
LEMMA TypesLog ==
  ASSUME Types, Buffered, NEW g \in Loggers, RLock(g) \/ Forward(g)
  PROVE  Types'
<1> USE ConsoleAssumption
<1>1. CASE RLock(g)
  <2>1. /\ readLocks' = readLocks \cup {g} /\ logged' = [logged EXCEPT ![g] = @ + 1]
        /\ logged[g] < MaxLogs
        /\ UNCHANGED <<proxy, writer, buf, bufLock, written, flusher, printed, msgChan,
                       shown, messages, paused, tick, span, prevSpan, main, failed,
                       poller, event, keys>>
    BY <1>1 DEF RLock, screen, polling
  <2>2. logged' \in [Loggers -> 0..MaxLogs]
    BY <2>1 DEF Types, TypeOK
  <2>3. readLocks' \subseteq Loggers
    BY <2>1 DEF Types, TypeOK
  <2> QED BY <2>1, <2>2, <2>3 DEF Types, TypeOK
<1>2. CASE Forward(g)
  <2> DEFINE m == <<g, logged[g]>>
  <2>1. /\ readLocks' = readLocks \ {g} /\ g \in readLocks
        /\ UNCHANGED <<proxy, writer, logged, bufLock, written, flusher,
                       shown, messages, paused, tick, span, prevSpan, main, failed,
                       poller, event, keys>>
    BY <1>2 DEF Forward, screen, polling
  <2>2. \/ buf' = Append(buf, m) /\ UNCHANGED <<msgChan, printed>>
        \/ msgChan' = Append(msgChan, m) /\ Len(msgChan) < MsgCap /\ UNCHANGED <<buf, printed>>
        \/ printed' = printed \cup {m} /\ UNCHANGED <<buf, msgChan>>
    BY <1>2 DEF Forward
  <2>3. m \in Messages /\ m \in Lines
    BY <2>1 DEF Types, TypeOK, Buffered, Messages, Lines
  <2> HIDE DEF m
  <2>4. buf' \in Seq(Messages) /\ Len(buf) <= Len(buf')
    <3>1. /\ buf \in Seq(Messages) /\ Len(buf) \in Nat
          /\ Append(buf, m) \in Seq(Messages) /\ Len(Append(buf, m)) = Len(buf) + 1
      BY <2>3, SeqFacts DEF Types, TypeOK
    <3> QED BY <2>2, <3>1
  <2>5. msgChan' \in Seq(Lines) /\ Len(msgChan') <= MsgCap
    <3>1. /\ msgChan \in Seq(Lines) /\ Len(msgChan) \in Nat /\ Len(msgChan) <= MsgCap
          /\ Append(msgChan, m) \in Seq(Lines) /\ Len(Append(msgChan, m)) = Len(msgChan) + 1
      BY <2>3, SeqFacts DEF Types, TypeOK
    <3> QED BY <2>2, <3>1, SMTT(40)
  <2>6. printed' \subseteq Messages
    BY <2>2, <2>3 DEF Types, TypeOK
  <2>7. written' \in 0..Len(buf')
    BY <2>1, <2>4, SeqFacts DEF Types, TypeOK
  <2>8. readLocks' \subseteq Loggers
    BY <2>1 DEF Types, TypeOK
  <2> QED BY <2>1, <2>4, <2>5, <2>6, <2>7, <2>8 DEF Types, TypeOK
<1> QED BY <1>1, <1>2

\* The buffer is written out.
LEMMA TypesWrite ==
  ASSUME Types, Flusher \/ (\E at, next \in {"rewrite", "exit", "writeTo", "wait"} :
                              WriteToConsole(at, next))
  PROVE  Types'
<1>1. CASE FlusherLock
  <2>1. /\ flusher' = "send" /\ bufLock' = "flusher" /\ written' = 0
        /\ UNCHANGED <<proxy, readLocks, writer, logged, buf, printed, msgChan, shown,
                       messages, paused, tick, span, prevSpan, main, failed, poller, event, keys>>
    BY <1>1 DEF FlusherLock, screen, polling
  <2>2. written' \in 0..Len(buf')
    BY <2>1, SeqFacts DEF Types, TypeOK
  <2> QED BY <2>1, <2>2 DEF Types, TypeOK
<1>2. CASE FlusherSend
  <2>1. UNCHANGED <<proxy, readLocks, writer, logged, buf, printed, shown,
                    messages, paused, tick, span, prevSpan, main, failed, poller, event, keys>>
    BY <1>2 DEF FlusherSend, screen, polling
  <2>2. CASE written = Len(buf)
    <3>1. flusher' = "done" /\ bufLock' = nobody /\ UNCHANGED <<msgChan, written>>
      BY <1>2, <2>2 DEF FlusherSend
    <3> QED BY <2>1, <3>1 DEF Types, TypeOK
  <2>3. CASE written # Len(buf)
    <3>1. /\ Len(msgChan) < MsgCap /\ msgChan' = Append(msgChan, buf[written + 1])
          /\ written' = written + 1 /\ UNCHANGED <<flusher, bufLock>>
      BY <1>2, <2>3 DEF FlusherSend
    <3>2. written + 1 \in 1..Len(buf)
      BY <2>3, SeqFacts DEF Types, TypeOK
    <3>3. buf[written + 1] \in Lines
      BY <3>2, SeqFacts, LineFacts DEF Types, TypeOK
    <3>4. msgChan' \in Seq(Lines) /\ Len(msgChan') <= MsgCap
      BY <3>1, <3>3, SeqFacts, ConsoleAssumption DEF Types
    <3>5. written' \in 0..Len(buf')
      BY <2>1, <3>1, <3>2, SeqFacts DEF Types, TypeOK
    <3> QED BY <2>1, <3>1, <3>4, <3>5 DEF Types, TypeOK
  <2> QED BY <2>2, <2>3
<1>3. ASSUME NEW at \in {"rewrite", "exit", "writeTo", "wait"},
             NEW next \in {"rewrite", "exit", "writeTo", "wait"}, WriteToConsole(at, next)
      PROVE  Types'
  <2>1. /\ printed' = printed \cup Range(buf) /\ main' = next
        /\ UNCHANGED <<proxy, readLocks, writer, logged, buf, bufLock, written, flusher,
                       msgChan, shown, messages, paused, tick, span, prevSpan, failed,
                       poller, event, keys>>
    BY <1>3 DEF WriteToConsole, screen, polling
  <2>2. printed' \subseteq Messages
    BY <2>1, SeqFacts DEF Types, TypeOK, Range
  <2> QED BY <2>1, <2>2 DEF Types, TypeOK
<1> QED BY <1>1, <1>2, <1>3 DEF Flusher

\* Where main's goroutine can be.
Places == {"setCui", "setNoGui", "writeTo", "wait", "spawn", "run", "loop", "pause",
           "interrupt", "setConsole", "rewrite", "exit"}

\* A report is taken.
LEMMA TypesUpdate ==
  ASSUME Types, NEW next \in Places, Update(next)
  PROVE  /\ span' \in 0..MaxSpan /\ prevSpan' \in 0..MaxSpan
         /\ main' \in {next, "interrupt"} /\ failed' \in BOOLEAN
<1>1. span' \in 0..MaxSpan /\ prevSpan' \in 0..MaxSpan
  <2>1. span' \in {0, span} /\ prevSpan' \in {span, prevSpan}
    BY DEF Update, Report
  <2>2. span \in 0..MaxSpan /\ prevSpan \in 0..MaxSpan
    BY DEF Types, TypeOK
  <2> QED BY <2>1, <2>2, ConsoleAssumption
<1>2. failed \in BOOLEAN
  BY Zenon DEF Types, TypeOK
<1>3. main' \in {next, "interrupt"} /\ failed' \in BOOLEAN
  BY <1>2, Zenon DEF Update, Returns
<1> QED BY <1>1, <1>3

\* The event loop and the rest of main.
LEMMA TypesMain ==
  ASSUME Types, NEW l \in {"cui", "console"}, NEW at \in Places, NEW next \in Places,
         \/ SetLogger(l, at, next) \/ Spawn \/ StartUi \/ LogPause \/ Interrupted
         \/ Signal \/ TickerFires \/ Tick \/ ReceiveMessage \/ HandleEvent
         \/ \E e \in {"p", "q", "redraw"} : PollEvent(e)
  PROVE  Types'
<1> USE ConsoleAssumption
<1>b. writer \in BOOLEAN /\ failed \in BOOLEAN /\ paused \in BOOLEAN /\ tick \in BOOLEAN
  BY Zenon DEF Types, TypeOK
<1>1. CASE SetLogger(l, at, next)
  <2>1. UNCHANGED <<readLocks, logged, buf, bufLock, written, flusher, printed, msgChan,
                    shown, messages, paused, tick, span, prevSpan, failed, poller, event, keys>>
    BY <1>1 DEF SetLogger, screen, polling
  <2>2. writer' \in BOOLEAN
    BY <1>1, Zenon DEF SetLogger
  <2>3. proxy' \in {proxy, l} /\ main' \in {main, next}
    BY <1>1 DEF SetLogger
  <2>4. proxy' \in {"buffered", "cui", "console"} /\ main' \in Places
    BY <2>3 DEF Types, TypeOK, Places
  <2> QED BY <2>1, <2>2, <2>4 DEF Types, TypeOK, Places
<1>2. CASE Spawn
  <2>1. /\ flusher' = "lock" /\ main' = "run"
        /\ UNCHANGED <<proxy, readLocks, writer, logged, buf, bufLock, written, printed,
                       msgChan, shown, messages, paused, tick, span, prevSpan, failed,
                       poller, event, keys>>
    BY <1>2 DEF Spawn, screen, polling
  <2> QED BY <2>1 DEF Types, TypeOK
<1>3. CASE StartUi
  <2>1. UNCHANGED <<proxy, readLocks, writer, logged, buf, bufLock, written, flusher,
                    printed, msgChan, shown, messages, paused, tick, event, keys>>
    BY <1>3 DEF StartUi, logging
  <2>2. \/ /\ main' = "setConsole" /\ failed' = TRUE /\ UNCHANGED <<poller, span, prevSpan>>
        \/ poller' = "poll" /\ Update("loop")
    BY <1>3 DEF StartUi
  <2>3. CASE main' = "setConsole" /\ failed' = TRUE /\ UNCHANGED <<poller, span, prevSpan>>
    BY <2>1, <2>3 DEF Types, TypeOK
  <2>4. CASE poller' = "poll" /\ Update("loop")
    BY <2>1, <2>4, TypesUpdate DEF Types, TypeOK, Places
  <2> QED BY <2>2, <2>3, <2>4
<1>4. CASE Tick
  <2>1. /\ Update("loop") /\ tick' = FALSE
        /\ UNCHANGED <<proxy, readLocks, writer, logged, buf, bufLock, written, flusher,
                       printed, msgChan, shown, messages, paused, poller, event, keys>>
    BY <1>4 DEF Tick, logging, polling
  <2>2. tick' \in BOOLEAN
    BY <2>1
  <2>3. /\ span' \in 0..MaxSpan /\ prevSpan' \in 0..MaxSpan
        /\ main' \in {"loop", "interrupt"} /\ failed' \in BOOLEAN
    BY <2>1, TypesUpdate DEF Places
  <2> QED BY <2>1, <2>2, <2>3 DEF Types, TypeOK
<1>5. CASE LogPause
  <2>1. /\ Len(msgChan) < MsgCap /\ msgChan' = Append(msgChan, PauseNote) /\ main' = "loop"
        /\ UNCHANGED <<proxy, readLocks, writer, logged, buf, bufLock, written, flusher,
                       printed, shown, messages, paused, tick, span, prevSpan, failed,
                       poller, event, keys>>
    BY <1>5 DEF LogPause, logging, screen, polling
  <2>2. /\ msgChan \in Seq(Lines) /\ Len(msgChan) \in Nat
        /\ Append(msgChan, PauseNote) \in Seq(Lines)
        /\ Len(Append(msgChan, PauseNote)) = Len(msgChan) + 1
    BY SeqFacts, LineFacts DEF Types, TypeOK
  <2>3. msgChan' \in Seq(Lines) /\ Len(msgChan') <= MsgCap
    BY <2>1, <2>2
  <2> QED BY <2>1, <2>3 DEF Types, TypeOK
<1>6. CASE Interrupted \/ Signal
  <2>1. /\ main' \in {"setConsole", "exit"} /\ poller' \in {poller, "stopped"}
        /\ UNCHANGED <<proxy, readLocks, writer, logged, buf, bufLock, written, flusher,
                       printed, msgChan, shown, messages, paused, tick, span, prevSpan, failed,
                       event, keys>>
    BY <1>6 DEF Interrupted, Signal, logging, screen, polling
  <2> QED BY <2>1 DEF Types, TypeOK
<1>7. CASE ReceiveMessage
  <2>1. /\ msgChan # <<>> /\ msgChan' = Tail(msgChan)
        /\ shown' = Append(shown, Head(msgChan))
        /\ messages' = Append(IF Len(messages) < LogLines THEN messages ELSE Tail(messages),
                              Head(msgChan))
        /\ UNCHANGED <<proxy, readLocks, writer, logged, buf, bufLock, written, flusher,
                       printed, main, failed, paused, tick, span, prevSpan, poller, event, keys>>
    BY <1>7 DEF ReceiveMessage, logging, polling
  <2>2. /\ Head(msgChan) \in Lines /\ Tail(msgChan) \in Seq(Lines)
        /\ Len(Tail(msgChan)) = Len(msgChan) - 1 /\ Len(msgChan) \in Nat
        /\ Len(msgChan) <= MsgCap
    BY <2>1, SeqFacts DEF Types, TypeOK
  <2>3. msgChan' \in Seq(Lines) /\ Len(msgChan') <= MsgCap
    BY <2>1, <2>2
  <2>4. shown' \in Seq(Lines)
    BY <2>1, <2>2, SeqFacts DEF Types
  <2>5. messages' \in Seq(Lines) /\ Len(messages') <= LogLines
    <3>1. messages \in Seq(Lines) /\ Len(messages) \in Nat /\ Len(messages) <= LogLines
      BY SeqFacts DEF Types, TypeOK
    <3>2. CASE Len(messages) < LogLines
      <4>1. messages' = Append(messages, Head(msgChan))
        BY <2>1, <3>2
      <4>2. messages' \in Seq(Lines) /\ Len(messages') = Len(messages) + 1
        BY <2>2, <3>1, <4>1, SeqFacts
      <4> QED BY <3>1, <3>2, <4>2
    <3>3. CASE Len(messages) = LogLines
      <4>1. messages # <<>> /\ messages' = Append(Tail(messages), Head(msgChan))
        BY <2>1, <3>1, <3>3
      <4>2. Tail(messages) \in Seq(Lines) /\ Len(Tail(messages)) = Len(messages) - 1
        BY <3>1, <4>1, SeqFacts
      <4>3. messages' \in Seq(Lines) /\ Len(messages') = Len(Tail(messages)) + 1
        BY <2>2, <4>1, <4>2, SeqFacts
      <4> QED BY <3>1, <3>3, <4>2, <4>3
    <3> QED BY <3>1, <3>2, <3>3
  <2> QED BY <2>1, <2>3, <2>4, <2>5 DEF Types, TypeOK
<1>8. CASE HandleEvent
  <2>1. /\ poller' = "poll" /\ event' = "none"
        /\ UNCHANGED <<proxy, readLocks, writer, logged, buf, bufLock, written, flusher,
                       printed, msgChan, shown, messages, tick, keys>>
    BY <1>8 DEF HandleEvent, logging
  <2>2. \/ /\ paused' = ~paused /\ main' = "pause" /\ UNCHANGED <<failed, span, prevSpan>>
        \/ main' = "interrupt" /\ failed' = FALSE /\ UNCHANGED <<paused, span, prevSpan>>
        \/ Update("loop") /\ UNCHANGED paused
    BY <1>8 DEF HandleEvent, Returns
  <2>3. paused' \in BOOLEAN /\ failed' \in BOOLEAN
    <3>1. Update("loop") => failed' \in BOOLEAN
      BY TypesUpdate DEF Places
    <3> QED BY <1>b, <2>2, <3>1, Zenon
  <2>4. span' \in 0..MaxSpan /\ prevSpan' \in 0..MaxSpan /\ main' \in {"pause", "interrupt", "loop"}
    <3>1. Update("loop") =>
            span' \in 0..MaxSpan /\ prevSpan' \in 0..MaxSpan /\ main' \in {"loop", "interrupt"}
      BY TypesUpdate DEF Places
    <3>2. span \in 0..MaxSpan /\ prevSpan \in 0..MaxSpan
      BY DEF Types, TypeOK
    <3> QED BY <2>2, <3>1, <3>2
  <2> QED BY <2>1, <2>3, <2>4 DEF Types, TypeOK
<1>9. ASSUME NEW e \in {"p", "q", "redraw"}, PollEvent(e) PROVE Types'
  <2>1. /\ keys < MaxKeys /\ poller' = "send" /\ event' = e /\ keys' = keys + 1
        /\ UNCHANGED <<proxy, readLocks, writer, logged, buf, bufLock, written, flusher,
                       printed, msgChan, shown, messages, paused, tick, span, prevSpan, main, failed>>
    BY <1>9 DEF PollEvent, logging, screen
  <2>2. keys' \in 0..MaxKeys
    BY <2>1 DEF Types, TypeOK
  <2> QED BY <2>1, <2>2 DEF Types, TypeOK
<1>10. CASE TickerFires
  <2>1. /\ tick' = TRUE /\ span' = (IF span < MaxSpan THEN span + 1 ELSE span)
        /\ UNCHANGED <<proxy, readLocks, writer, logged, buf, bufLock, written, flusher,
                       printed, msgChan, shown, messages, paused, prevSpan, main, failed,
                       poller, event, keys>>
    BY <1>10 DEF TickerFires, logging, polling
  <2>2. span' \in 0..MaxSpan
    BY <2>1 DEF Types, TypeOK
  <2> QED BY <2>1, <2>2 DEF Types, TypeOK
<1> QED BY <1>1, <1>2, <1>3, <1>4, <1>5, <1>6, <1>7, <1>8, <1>9, <1>10

\* Every step keeps the types.
LEMMA TypesStep == Types /\ Buffered /\ [Next]_vars => Types'
<1> SUFFICES ASSUME Types, Buffered, [Next]_vars PROVE Types'
  OBVIOUS
<1>1. CASE UNCHANGED vars
  BY <1>1 DEF vars, logging, screen, polling, Types, TypeOK
<1>2. CASE Main
  <2>1. ASSUME NEW l \in {"cui", "console"}, NEW at \in Places, NEW next \in Places,
               SetLogger(l, at, next) PROVE Types'
    BY <2>1, TypesMain
  <2>2. CASE \/ SetLogger("cui", "setCui", "spawn")
             \/ SetLogger("console", "setConsole", "rewrite")
             \/ SetLogger("console", "setNoGui", "writeTo")
    BY <2>1, <2>2 DEF Places
  <2>3. CASE WriteToConsole("rewrite", "exit") \/ WriteToConsole("writeTo", "wait")
    BY <2>3, TypesWrite
  <2>4. CASE Spawn \/ StartUi \/ LogPause \/ Interrupted
    BY <2>4, TypesMain DEF Places
  <2> QED BY <1>2, <2>2, <2>3, <2>4 DEF Main
<1>3. CASE Signal \/ TickerFires \/ Tick \/ ReceiveMessage \/ HandleEvent
           \/ \E e \in {"p", "q", "redraw"} : PollEvent(e)
  BY <1>3, TypesMain DEF Places
<1> QED BY <1>1, <1>2, <1>3, TypesLog, TypesWrite DEF Next

-----------------------------------------------------------------------------
(* What reaches the interface.                                             *)

\* A concatenation, element by element.
LEMMA ConcatFacts ==
  ASSUME NEW p \in Seq(Lines), NEW q \in Seq(Lines)
  PROVE  /\ Len(p \o q) = Len(p) + Len(q)
         /\ \A i \in 1..Len(p) : (p \o q)[i] = p[i]
         /\ \A i \in 1..Len(q) : (p \o q)[Len(p) + i] = q[i]
  OBVIOUS

\* The sequence All, element by element.
LEMMA AllFacts ==
  ASSUME Types
  PROVE  /\ All \in Seq(Lines) /\ Len(All) = Len(shown) + Len(msgChan)
         /\ \A i \in 1..Len(shown) : All[i] = shown[i]
         /\ \A i \in 1..Len(msgChan) : All[Len(shown) + i] = msgChan[i]
         /\ Len(shown) \in Nat /\ Len(msgChan) \in Nat
<1>1. shown \in Seq(Lines) /\ msgChan \in Seq(Lines)
  BY DEF Types
<1> QED BY <1>1 DEF All

\* Putting a line into msgChan adds it at the end.
LEMMA AllAppend ==
  ASSUME Types, Types', NEW x \in Lines, shown' = shown, msgChan' = Append(msgChan, x)
  PROVE  /\ Len(All') = Len(All) + 1 /\ Len(All) \in Nat
         /\ All'[Len(All) + 1] = x
         /\ \A i \in 1..Len(All) : All'[i] = All[i]
<1>1. shown \in Seq(Lines) /\ msgChan \in Seq(Lines)
  BY DEF Types
<1>2. /\ Len(msgChan') = Len(msgChan) + 1 /\ msgChan'[Len(msgChan) + 1] = x
      /\ \A i \in 1..Len(msgChan) : msgChan'[i] = msgChan[i]
  BY <1>1, SeqFacts
<1>3. /\ Len(All) = Len(shown) + Len(msgChan)
      /\ \A i \in 1..Len(shown) : All[i] = shown[i]
      /\ \A i \in 1..Len(msgChan) : All[Len(shown) + i] = msgChan[i]
      /\ Len(shown) \in Nat /\ Len(msgChan) \in Nat
  BY AllFacts
<1>4. /\ Len(All') = Len(shown) + Len(msgChan')
      /\ \A i \in 1..Len(shown) : All'[i] = shown[i]
      /\ \A i \in 1..Len(msgChan') : All'[Len(shown) + i] = msgChan'[i]
  <2>1. shown' \in Seq(Lines) /\ msgChan' \in Seq(Lines)
    BY DEF Types
  <2> QED BY <2>1 DEF All
<1>5. ASSUME NEW i \in 1..Len(All) PROVE All'[i] = All[i]
  <2>1. CASE i \in 1..Len(shown)
    BY <1>3, <1>4, <2>1
  <2>2. CASE i \notin 1..Len(shown)
    <3>1. i - Len(shown) \in 1..Len(msgChan) /\ Len(shown) + (i - Len(shown)) = i
      BY <1>3, <2>2
    <3>2. i - Len(shown) \in 1..Len(msgChan')
      BY <1>2, <1>3, <3>1
    <3> QED BY <1>2, <1>3, <1>4, <3>1, <3>2, ZenonT(40)
  <2> QED BY <2>1, <2>2
<1>6. All'[Len(All) + 1] = x
  <2>1. Len(msgChan) + 1 \in 1..Len(msgChan')
    BY <1>2, <1>3
  <2>2. Len(All) + 1 = Len(shown) + (Len(msgChan) + 1)
    BY <1>3
  <2> QED BY <1>2, <1>4, <2>1, <2>2
<1> QED BY <1>2, <1>3, <1>4, <1>5, <1>6

\* Receiving a line does not change All.
LEMMA AllReceive ==
  ASSUME Types, ReceiveMessage
  PROVE  Len(All') = Len(All) /\ \A i \in 1..Len(All) : All'[i] = All[i]
<1> DEFINE a == Len(shown)
           b == Len(msgChan)
<1>1. /\ msgChan # <<>> /\ msgChan' = Tail(msgChan) /\ shown' = Append(shown, Head(msgChan))
      /\ shown \in Seq(Lines) /\ msgChan \in Seq(Lines)
  BY DEF ReceiveMessage, Types
<1>2. /\ Head(msgChan) = msgChan[1] /\ Head(msgChan) \in Lines /\ 1 \in 1..b
      /\ msgChan' \in Seq(Lines) /\ Len(msgChan') = b - 1
      /\ \A i \in 1..(b - 1) : msgChan'[i] = msgChan[i + 1]
  BY <1>1, SeqFacts
<1>3. /\ shown' \in Seq(Lines) /\ Len(shown') = a + 1 /\ shown'[a + 1] = msgChan[1]
      /\ \A i \in 1..a : shown'[i] = shown[i]
  BY <1>1, <1>2, SeqFacts
<1>4. /\ Len(All) = a + b /\ a \in Nat /\ b \in Nat
      /\ \A i \in 1..a : All[i] = shown[i]
      /\ \A i \in 1..b : All[a + i] = msgChan[i]
  BY AllFacts
<1>5. /\ Len(All') = (a + 1) + (b - 1)
      /\ \A i \in 1..(a + 1) : All'[i] = shown'[i]
      /\ \A i \in 1..(b - 1) : All'[(a + 1) + i] = msgChan'[i]
  <2>1. /\ Len(All') = Len(shown') + Len(msgChan')
        /\ \A i \in 1..Len(shown') : All'[i] = shown'[i]
        /\ \A i \in 1..Len(msgChan') : All'[Len(shown') + i] = msgChan'[i]
    BY <1>2, <1>3, ConcatFacts DEF All
  <2> QED BY <1>2, <1>3, <2>1
<1> HIDE DEF a, b
<1>6. ASSUME NEW i \in 1..Len(All) PROVE All'[i] = All[i]
  <2>1. CASE i \in 1..a
    BY <1>3, <1>4, <1>5, <2>1
  <2>2. CASE i = a + 1
    BY <1>2, <1>3, <1>4, <1>5, <2>2
  <2>3. CASE i \notin 1..a /\ i # a + 1
    <3> DEFINE u == i - (a + 1)
    <3>1. u \in 1..(b - 1) /\ (a + 1) + u = i /\ u + 1 \in 1..b /\ a + (u + 1) = i
      BY <1>4, <2>3
    <3> HIDE DEF u
    <3>2. All'[i] = msgChan'[u] /\ msgChan'[u] = msgChan[u + 1] /\ All[i] = msgChan[u + 1]
      BY <1>2, <1>4, <1>5, <3>1
    <3> QED BY <3>2
  <2> QED BY <2>1, <2>2, <2>3
<1> QED BY <1>4, <1>5, <1>6

\* Forwarded survives what leaves All alone.
LEMMA ForwardedSame ==
  ASSUME Forwarded, Len(All') = Len(All), \A i \in 1..Len(All) : All'[i] = All[i],
         UNCHANGED <<buf, written>>, Sent \subseteq Sent'
  PROVE  Forwarded'
  BY DEF Forwarded

\* It survives a line that is new, and from the buffer only if it is the next.
LEMMA ForwardedAppend ==
  ASSUME Types, Types', Forwarded, NEW x \in Lines,
         shown' = shown, msgChan' = Append(msgChan, x), buf' = buf,
         Sent \subseteq Sent',
         written <= written',
         x # PauseNote => x \in Sent' /\ \A i \in 1..Len(All) : All[i] # x,
         \A n \in 1..Len(buf) : x = buf[n] => n = written' /\ written < n
  PROVE  Forwarded'
<1> DEFINE L == Len(All)
<1>1. /\ Len(All') = L + 1 /\ L \in Nat /\ All'[L + 1] = x
      /\ \A i \in 1..L : All'[i] = All[i]
  BY AllAppend
<1>2. written \in Nat /\ written' \in Nat /\ Len(buf) \in Nat
  BY SeqFacts DEF Types, TypeOK
<1> HIDE DEF L
<1>3. \A i \in 1..Len(All') : i \in 1..L \/ i = L + 1
  BY <1>1
<1>4. \A i, j \in 1..Len(All') : i < j => i \in 1..L
  BY <1>1
<1>5. ASSUME NEW i \in 1..Len(All')
      PROVE  All'[i] \in Sent' \cup {PauseNote}
  <2>1. CASE i \in 1..L
    BY <1>1, <2>1 DEF Forwarded, L
  <2>2. CASE i = L + 1
    BY <1>1, <2>2 DEF Lines
  <2> QED BY <1>3, <2>1, <2>2
<1>6. ASSUME NEW i \in 1..Len(All'), NEW j \in 1..Len(All'), i < j, All'[i] = All'[j]
      PROVE  All'[i] = PauseNote
  <2>1. i \in 1..L
    BY <1>4, <1>6
  <2>2. CASE j \in 1..L
    <3>1. All[i] = All[j] /\ All'[i] = All[i]
      BY <1>1, <1>6, <2>1, <2>2
    <3>2. All[i] = PauseNote
      BY <1>6, <2>1, <2>2, <3>1 DEF Forwarded, L
    <3> QED BY <3>1, <3>2
  <2>3. CASE j = L + 1
    <3>1. All'[i] = All[i] /\ All'[i] = x
      BY <1>1, <1>6, <2>1, <2>3
    <3> QED BY <2>1, <3>1 DEF L
  <2> QED BY <1>3, <2>2, <2>3
<1>7. ASSUME NEW i \in 1..Len(All'), NEW n \in 1..Len(buf), All'[i] = buf[n]
      PROVE  n <= written'
  <2>1. CASE i \in 1..L
    BY <1>1, <1>2, <1>7, <2>1 DEF Forwarded, L
  <2>2. CASE i = L + 1
    BY <1>1, <1>2, <1>7, <2>2
  <2> QED BY <1>3, <2>1, <2>2
<1>8. ASSUME NEW i \in 1..Len(All'), NEW j \in 1..Len(All'), i < j,
             NEW n \in 1..Len(buf), NEW k \in 1..Len(buf), All'[i] = buf[n], All'[j] = buf[k]
      PROVE  n < k
  <2>1. i \in 1..L
    BY <1>4, <1>8
  <2>2. CASE j \in 1..L
    BY <1>1, <1>8, <2>1, <2>2 DEF Forwarded, L
  <2>3. CASE j = L + 1
    <3>1. n <= written
      BY <1>1, <1>8, <2>1 DEF Forwarded, L
    <3>2. written < k
      BY <1>1, <1>8, <2>3
    <3> QED BY <1>2, <3>1, <3>2
  <2> QED BY <1>3, <2>2, <2>3
<1> QED BY <1>5, <1>6, <1>7, <1>8 DEF Forwarded

-----------------------------------------------------------------------------
(* The steps.                                                              *)

\* A message stays sent: goroutines log one message after the other.
LEMMA SentKept ==
  ASSUME Types,
         \/ UNCHANGED <<logged, readLocks>>
         \/ \E g \in Loggers : RLock(g) \/ Forward(g)
  PROVE  Sent \subseteq Sent'
<1> SUFFICES ASSUME NEW m \in Sent PROVE m \in Sent'
  OBVIOUS
<1> DEFINE g == m[1]
<1>0. m \in Messages
  BY DEF Sent
<1>1. g \in Loggers /\ m[2] \in Nat /\ logged[g] \in Nat
  BY <1>0, LineFacts, ConsoleAssumption DEF Types, TypeOK
<1>2. ASSUME NEW h \in Loggers, RLock(h) PROVE m \in Sent'
  <2>1. readLocks' = readLocks \cup {h} /\ logged' = [logged EXCEPT ![h] = @ + 1]
        /\ h \notin readLocks
    BY <1>2 DEF RLock
  <2>2. logged'[g] = IF g = h THEN logged[g] + 1 ELSE logged[g]
    BY <1>1, <2>1 DEF Types, TypeOK
  <2> QED BY <1>1, <2>1, <2>2 DEF Sent
<1>3. ASSUME NEW h \in Loggers, Forward(h) PROVE m \in Sent'
  <2>1. readLocks' = readLocks \ {h} /\ logged' = logged
    BY <1>3 DEF Forward
  <2> QED BY <2>1 DEF Sent
<1>4. CASE UNCHANGED <<logged, readLocks>>
  BY <1>4 DEF Sent
<1> QED BY <1>2, <1>3, <1>4

\* main switches the proxy before it has anything written out.
LEMMA StartupStep ==
  ASSUME Types, Startup, [Next]_vars
  PROVE  Startup'
<1>1. CASE UNCHANGED <<proxy, main, flusher, written, shown, msgChan>>
  BY <1>1 DEF Startup
<1>2. ASSUME NEW g \in Loggers, RLock(g) \/ Forward(g) PROVE Startup'
  <2>1. UNCHANGED <<proxy, main, flusher, written, shown>>
    BY <1>2 DEF RLock, Forward, screen
  <2>2. msgChan' = msgChan \/ proxy = "cui"
    BY <1>2 DEF RLock, Forward
  <2> QED BY <2>1, <2>2 DEF Startup
<1>3. ASSUME NEW l \in {"cui", "console"}, NEW at, NEW next, SetLogger(l, at, next),
             next \notin {"setCui", "setNoGui"}, next # "spawn" \/ at = "setCui"
      PROVE  Startup'
  <2>1. /\ UNCHANGED <<flusher, written, shown, msgChan>> /\ main = at
        /\ UNCHANGED <<proxy, main>> \/ (proxy' = l /\ main' = next)
    BY <1>3 DEF SetLogger, screen
  <2> QED BY <1>3, <2>1 DEF Startup
<1>4. CASE Spawn
  BY <1>4 DEF Spawn, Startup, screen
<1>5. CASE Flusher
  <2>1. flusher \in {"lock", "send"} /\ flusher' \in {"send", "done"} /\ UNCHANGED <<proxy, main>>
    BY <1>5 DEF Flusher, FlusherLock, FlusherSend
  <2>2. main \notin {"setCui", "setNoGui", "spawn"}
    BY <2>1 DEF Startup
  <2> QED BY <2>1, <2>2 DEF Startup
<1>6. CASE LogPause \/ ReceiveMessage
  <2>1. /\ main \in {"loop", "pause"} /\ main' = "loop"
        /\ UNCHANGED <<proxy, flusher, written>>
    BY <1>6 DEF LogPause, ReceiveMessage, logging
  <2> QED BY <2>1 DEF Startup
<1>7. CASE WriteToConsole("rewrite", "exit") \/ WriteToConsole("writeTo", "wait")
           \/ Interrupted \/ Signal
  <2>1. /\ main \in {"rewrite", "writeTo", "interrupt", "wait"}
        /\ main' \in {"exit", "wait", "setConsole"}
        /\ UNCHANGED <<proxy, flusher, written>>
    BY <1>7 DEF WriteToConsole, Interrupted, Signal, logging
  <2> QED BY <2>1 DEF Startup
<1>8. CASE StartUi \/ Tick \/ HandleEvent
  <2>1. /\ main \in {"run", "loop"} /\ UNCHANGED <<proxy, flusher, written>>
        /\ main' \in {"setConsole", "loop", "interrupt", "pause"}
    BY <1>8 DEF StartUi, Tick, HandleEvent, Update, Returns, logging
  <2> QED BY <2>1 DEF Startup
<1>9. CASE TickerFires \/ \E e \in {"p", "q", "redraw"} : PollEvent(e)
  BY <1>1, <1>9 DEF TickerFires, PollEvent, logging, screen
<1>10. CASE UNCHANGED vars
  BY <1>1, <1>10 DEF vars, logging, screen
<1>11. CASE \/ SetLogger("cui", "setCui", "spawn")
            \/ SetLogger("console", "setConsole", "rewrite")
            \/ SetLogger("console", "setNoGui", "writeTo")
  BY <1>3, <1>11
<1> QED BY <1>2, <1>4, <1>5, <1>6, <1>7, <1>8, <1>9, <1>10, <1>11 DEF Next, Main

\* Logging a message: it goes to the buffer or to the channel, once.
LEMMA LogInv ==
  ASSUME CInv, NEW g \in Loggers, RLock(g) \/ Forward(g), Types', Startup'
  PROVE  Buffered' /\ Forwarded'
<1> DEFINE m == <<g, logged[g]>>
<1>t. /\ Types /\ Buffered /\ Startup /\ Forwarded
      /\ buf \in Seq(Messages) /\ written \in Nat /\ Len(buf) \in Nat
      /\ logged \in [Loggers -> 0..MaxLogs]
  <2>1. Types /\ Buffered /\ Startup /\ Forwarded
    BY DEF CInv
  <2>2. buf \in Seq(Messages) /\ written \in 0..Len(buf) /\ logged \in [Loggers -> 0..MaxLogs]
    BY <2>1, Zenon DEF Types, TypeOK
  <2>3. Len(buf) \in Nat
    BY <2>2
  <2> QED BY <2>1, <2>2, <2>3
<1>s. Sent \subseteq Sent'
  BY <1>t, SentKept
<1>b. \A n \in 1..Len(buf) : buf[n] \in Messages /\ buf[n] \in Sent /\ buf[n] \in Sent'
  BY <1>s, <1>t, SeqFacts DEF Buffered
<1>1. CASE RLock(g)
  <2>1. /\ readLocks' = readLocks \cup {g} /\ logged' = [logged EXCEPT ![g] = @ + 1]
        /\ UNCHANGED <<buf, written, shown, msgChan>>
    BY <1>1 DEF RLock, screen
  <2>2. \A h \in readLocks' : logged'[h] # 0
    BY <1>t, <2>1, ConsoleAssumption DEF Buffered, Types, TypeOK
  <2>3. \A n \in 1..Len(buf') : buf'[n] \in Sent'
    BY <1>b, <2>1
  <2>4. Buffered'
    BY <1>t, <2>1, <2>2, <2>3 DEF Buffered
  <2>5. All' = All
    BY <2>1 DEF All
  <2>6. Forwarded'
    BY <1>s, <1>t, <2>1, <2>5, ForwardedSame
  <2> QED BY <2>4, <2>6
<1>2. CASE Forward(g)
  <2>1. /\ readLocks' = readLocks \ {g} /\ g \in readLocks
        /\ UNCHANGED <<logged, written, shown>>
    BY <1>2 DEF Forward, screen
  <2>2. m \in Messages /\ m \in Lines /\ m \notin Sent /\ m \in Sent' /\ m # PauseNote
    <3>1. m[1] = g /\ m[2] = logged[g] /\ logged[g] \in 1..MaxLogs
      BY <1>t, <2>1, ConsoleAssumption DEF Buffered
    <3>2. m \in Messages
      BY <3>1 DEF Messages
    <3>3. m \notin Sent /\ m \in Sent'
      <4>1. g \notin readLocks' /\ logged' = logged /\ g \in readLocks
        BY <2>1
      <4>2. logged[g] <= logged[g] /\ ~(logged[g] < logged[g])
        BY <3>1, ConsoleAssumption
      <4> HIDE DEF m
      <4> QED BY <3>1, <3>2, <4>1, <4>2 DEF Sent
    <3> QED BY <3>2, <3>3, LineFacts
  <2>3. \A h \in readLocks' : logged'[h] # 0
    BY <1>t, <2>1 DEF Buffered
  <2>4. \A n \in 1..Len(buf) : buf[n] # m
    BY <1>b, <2>2
  <2> HIDE DEF m
  <2>5. CASE buf' = Append(buf, m) /\ proxy = "buffered" /\ UNCHANGED msgChan
    <3>1. /\ Len(buf') = Len(buf) + 1 /\ buf'[Len(buf) + 1] = m
          /\ \A n \in 1..Len(buf) : buf'[n] = buf[n]
      BY <1>t, <2>2, <2>5, SeqFacts
    <3>2. \A n \in 1..Len(buf') : n \in 1..Len(buf) \/ n = Len(buf) + 1
      BY <1>t, <3>1
    <3>3. \A n \in 1..Len(buf') : buf'[n] \in Sent'
      BY <1>b, <2>2, <3>1, <3>2
    <3>4. \A n, k \in 1..Len(buf') : buf'[n] = buf'[k] => n = k
      BY <1>t, <2>4, <3>1, <3>2 DEF Buffered
    <3>5. Len(All') = 0
      <4>1. Len(shown') = 0 /\ Len(msgChan') = 0
        BY <1>t, <2>1, <2>5 DEF Startup
      <4>2. shown' \in Seq(Lines) /\ msgChan' \in Seq(Lines)
        BY DEF Types
      <4> QED BY <4>1, <4>2, ConcatFacts DEF All
    <3>6. Forwarded'
      BY <3>5 DEF Forwarded
    <3> QED BY <2>3, <3>3, <3>4, <3>6 DEF Buffered
  <2>6. CASE UNCHANGED buf
    <3>1. \A n \in 1..Len(buf') : buf'[n] \in Sent'
      BY <1>b, <2>6
    <3>2. Buffered'
      BY <1>t, <2>3, <2>6, <3>1 DEF Buffered
    <3>3. CASE msgChan' = Append(msgChan, m)
      <4>1. \A i \in 1..Len(All) : All[i] # m
        BY <1>t, <2>2 DEF Forwarded
      <4>2. Forwarded'
        BY <1>s, <1>t, <2>1, <2>2, <2>4, <2>6, <3>3, <4>1, ForwardedAppend
      <4> QED BY <3>2, <4>2
    <3>4. CASE msgChan' = msgChan
      <4>1. All' = All
        BY <2>1, <3>4 DEF All
      <4>2. Forwarded'
        BY <1>s, <1>t, <2>1, <2>6, <4>1, ForwardedSame
      <4> QED BY <3>2, <4>2
    <3> QED BY <1>2, <2>6, <3>3, <3>4 DEF Forward, m
  <2> QED BY <1>2, <2>5, <2>6 DEF Forward, m
<1> QED BY <1>1, <1>2

\* The flusher forwards the next message of the buffer.
LEMMA FlusherInv ==
  ASSUME CInv, Flusher, Types', Startup'
  PROVE  Buffered' /\ Forwarded'
<1>t. /\ Types /\ Buffered /\ Startup /\ Forwarded
      /\ buf \in Seq(Messages) /\ written \in 0..Len(buf) /\ Len(buf) \in Nat
  BY SeqFacts DEF CInv, Types, TypeOK
<1>1. UNCHANGED <<readLocks, logged, buf, shown>>
  BY DEF Flusher, FlusherLock, FlusherSend, screen
<1>2. Buffered'
  <2>1. \A n \in 1..Len(buf') : buf'[n] \in Sent'
    BY <1>t, <1>1 DEF Buffered, Sent
  <2> QED BY <1>t, <1>1, <2>1 DEF Buffered
<1>s. Sent \subseteq Sent'
  BY <1>1 DEF Sent
<1>3. CASE UNCHANGED <<msgChan, written>>
  <2>1. All' = All
    BY <1>1, <1>3 DEF All
  <2>2. Forwarded'
    BY <1>s, <1>t, <1>1, <1>3, <2>1, ForwardedSame
  <2> QED BY <1>2, <2>2
<1>4. CASE FlusherSend /\ written # Len(buf)
  <2> DEFINE x == buf[written + 1]
  <2>1. msgChan' = Append(msgChan, x) /\ written' = written + 1
    BY <1>4 DEF FlusherSend
  <2>2. written + 1 \in 1..Len(buf)
    BY <1>t, <1>4
  <2>3. x \in Messages /\ x \in Sent
    BY <1>t, <2>2, SeqFacts DEF Buffered
  <2>4. x \in Lines /\ x \in Sent'
    BY <1>s, <2>3, LineFacts
  <2>5. \A i \in 1..Len(All) : All[i] # x
    BY <1>t, <2>2 DEF Forwarded
  <2>6. \A n \in 1..Len(buf) : x = buf[n] => n = written + 1
    BY <1>t, <2>2 DEF Buffered
  <2> HIDE DEF x
  <2>7. written <= written' /\ \A n \in 1..Len(buf) : x = buf[n] => n = written' /\ written < n
    BY <1>t, <2>1, <2>6
  <2>8. Forwarded'
    BY <1>s, <1>t, <1>1, <2>1, <2>4, <2>5, <2>7, ForwardedAppend
  <2> QED BY <1>2, <2>8
<1>5. CASE FlusherLock
  <2>1. written' = written /\ msgChan' = msgChan
    BY <1>t, <1>5 DEF FlusherLock, Startup
  <2> QED BY <1>3, <2>1
<1> QED BY <1>3, <1>4, <1>5 DEF Flusher, FlusherSend

\* The event loop receives a message, or logs one itself.
LEMMA LoopInv ==
  ASSUME CInv, LogPause \/ ReceiveMessage, Types'
  PROVE  Buffered' /\ Forwarded'
<1>t. /\ Types /\ Buffered /\ Forwarded /\ buf \in Seq(Messages) /\ written \in Nat
  BY DEF CInv, Types, TypeOK
<1>1. UNCHANGED <<readLocks, logged, buf, written>>
  BY DEF LogPause, ReceiveMessage, logging
<1>2. Buffered'
  <2>1. \A n \in 1..Len(buf') : buf'[n] \in Sent'
    BY <1>t, <1>1 DEF Buffered, Sent
  <2> QED BY <1>t, <1>1, <2>1 DEF Buffered
<1>s. Sent \subseteq Sent'
  BY <1>1 DEF Sent
<1>3. CASE ReceiveMessage
  BY <1>s, <1>t, <1>1, <1>2, <1>3, AllReceive, ForwardedSame
<1>4. CASE LogPause
  <2>1. msgChan' = Append(msgChan, PauseNote) /\ shown' = shown
    BY <1>4 DEF LogPause, screen
  <2>2. PauseNote \in Lines /\ \A n \in 1..Len(buf) : PauseNote # buf[n]
    BY <1>t, LineFacts, SeqFacts
  <2>3. Forwarded'
    BY <1>s, <1>t, <1>1, <2>1, <2>2, ForwardedAppend
  <2> QED BY <1>2, <2>3
<1> QED BY <1>3, <1>4

\* The invariant is kept by every step.
LEMMA CInvStep == CInv /\ [Next]_vars => CInv'
<1> SUFFICES ASSUME CInv, [Next]_vars PROVE CInv'
  OBVIOUS
<1>1. Types' /\ Startup'
  BY TypesStep, StartupStep DEF CInv
<1>2. CASE UNCHANGED <<readLocks, logged, buf, written, shown, msgChan>>
  <2>1. Sent' = Sent /\ All' = All
    BY <1>2 DEF Sent, All
  <2>2. Buffered'
    BY <1>2, <2>1 DEF CInv, Buffered
  <2>3. Forwarded'
    BY <1>2, <2>1, SMTT(40) DEF CInv, Forwarded
  <2> QED BY <1>1, <2>2, <2>3 DEF CInv
<1>3. CASE Main /\ ~LogPause
  BY <1>2, <1>3 DEF Main, SetLogger, Spawn, StartUi, Interrupted, WriteToConsole,
                    logging, screen
<1>4. CASE Signal \/ TickerFires \/ Tick \/ HandleEvent
           \/ \E e \in {"p", "q", "redraw"} : PollEvent(e)
  BY <1>2, <1>4 DEF Signal, TickerFires, Tick, HandleEvent, PollEvent, logging, screen
<1>5. CASE UNCHANGED vars
  BY <1>2, <1>5 DEF vars, logging, screen
<1>6. CASE \E g \in Loggers : RLock(g) \/ Forward(g)
  BY <1>1, <1>6, LogInv DEF CInv
<1>7. CASE Flusher
  BY <1>1, <1>7, FlusherInv DEF CInv
<1>8. CASE LogPause \/ ReceiveMessage
  BY <1>1, <1>8, LoopInv DEF CInv
<1> QED BY <1>3, <1>4, <1>5, <1>6, <1>7, <1>8 DEF Next

\* The inductive invariant of the loggers: a message is with its goroutine, in
\* the buffer or with the interface, and of the buffer the interface has the
\* first written ones (ProxyLogger, BufferLogger, uiContext.Log).
THEOREM CInvInvariant == Spec => []CInv
<1>1. Init => CInv
  <2> SUFFICES ASSUME Init PROVE CInv
    OBVIOUS
  <2>1. /\ readLocks = {} /\ buf = <<>> /\ shown = <<>> /\ msgChan = <<>> /\ written = 0
        /\ proxy = "buffered" /\ flusher = "none" /\ main \in {"setCui", "setNoGui"}
    BY DEF Init
  <2>2. Buffered /\ Startup
    BY <2>1 DEF Buffered, Startup
  <2>3. Len(All) = 0
    BY <2>1, TypesInit, AllFacts
  <2>4. Forwarded
    BY <2>3 DEF Forwarded
  <2> QED BY <2>2, <2>4, TypesInit DEF CInv
<1> QED BY <1>1, CInvStep, Unfair, PTL

\* No message reaches the interface twice, from the buffer and directly, and
\* those of the buffer arrive "in order" (BufferLogger.WriteTo), whichever way
\* the goroutines that log, the flusher and the event loop interleave.
THEOREM MessagesShownOnce == Spec => []ShownOnce
<1>1. CInv => ShownOnce
  <2> DEFINE all == shown \o msgChan
             at(m) == CHOOSE i \in DOMAIN buf : buf[i] = m
  <2> SUFFICES ASSUME CInv
               PROVE  /\ TypeOK
                      /\ \A i, j \in DOMAIN all :
                           i < j => /\ all[i] = all[j] => all[i] = PauseNote
                                    /\ {all[i], all[j]} \subseteq Range(buf)
                                         => at(all[i]) < at(all[j])
    BY DEF ShownOnce
  <2>1. /\ TypeOK /\ Buffered /\ Forwarded /\ buf \in Seq(Messages) /\ all = All
        /\ DOMAIN buf = 1..Len(buf) /\ DOMAIN all = 1..Len(All)
    <3>1. all = All /\ All \in Seq(Lines)
      BY AllFacts DEF CInv, All
    <3> QED BY <3>1 DEF CInv, Types, TypeOK
  <2> HIDE DEF all
  <2>2. ASSUME NEW n \in 1..Len(buf) PROVE at(buf[n]) = n
    BY <2>1 DEF Buffered
  <2>3. ASSUME NEW i \in DOMAIN all, NEW j \in DOMAIN all, i < j
        PROVE  /\ all[i] = all[j] => all[i] = PauseNote
               /\ {all[i], all[j]} \subseteq Range(buf) => at(all[i]) < at(all[j])
    <3>1. all[i] = all[j] => all[i] = PauseNote
      BY <2>1, <2>3 DEF Forwarded
    <3>2. ASSUME {all[i], all[j]} \subseteq Range(buf) PROVE at(all[i]) < at(all[j])
      <4>1. PICK n \in 1..Len(buf), k \in 1..Len(buf) : all[i] = buf[n] /\ all[j] = buf[k]
        BY <2>1, <3>2 DEF Range
      <4>2. n < k
        BY <2>1, <2>3, <4>1 DEF Forwarded
      <4>3. at(all[i]) = n /\ at(all[j]) = k
        BY <2>2, <4>1
      <4> QED BY <4>2, <4>3
    <3> QED BY <3>1, <3>2
  <2> QED BY <2>1, <2>3
<1> QED BY <1>1, CInvInvariant, PTL
=============================================================================

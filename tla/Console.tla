------------------------------- MODULE Console -------------------------------
(***************************************************************************)
(* main, the terminal interface (presentation) and the loggers (log).      *)
(*                                                                         *)
(* Every goroutine logs through one ProxyLogger.  While main sets things   *)
(* up it forwards to a BufferLogger; then main switches it, to the         *)
(* interface or (-nogui) to the console, and has the buffer written out.   *)
(* The interface receives messages on a bounded channel in the event loop  *)
(* that main's goroutine runs; another goroutine polls the terminal and    *)
(* hands over key presses one at a time.                                   *)
(***************************************************************************)
EXTENDS Integers, Sequences, FiniteSets, SequencesExt

CONSTANTS
  Loggers,    \* goroutines that log: Run, decode and assembly workers
  MaxLogs,    \* messages each of them logs (a bound)
  MaxKeys,    \* key presses and resizes (a bound)
  MsgCap,     \* capacity of msgChan (128)
  LogLines,   \* logLines (4)
  Cumulative, \* *cumulative
  MaxSpan,    \* intervals that are told apart (a bound): this many, or more
  MayFail,    \* whether termbox may return an error
  nobody      \* no holder of the lock

ASSUME ConsoleAssumption ==
  /\ MaxLogs \in Nat /\ MaxKeys \in Nat /\ MsgCap \in Nat \ {0}
  /\ LogLines \in Nat \ {0} /\ MaxSpan \in Nat \ {0, 1}
  /\ Cumulative \in BOOLEAN /\ MayFail \in BOOLEAN
  /\ nobody \notin Loggers

VARIABLES
  proxy,     \* ProxyLogger.l: "buffered", "cui" or "console"
  readLocks, \* goroutines that hold the ProxyLogger's read lock
  writer,    \* a SetLogger waits for the write lock
  logged,    \* messages each goroutine has begun to log
  buf,       \* BufferLogger.buf
  bufLock,   \* holder of the BufferLogger's mutex
  written,   \* how much of buf the WriteTo in progress has forwarded
  flusher,   \* "none", "lock", "send" or "done": go buffered.WriteTo(cui)
  msgChan,   \* uiContext.msgChan
  shown,     \* history: what the event loop has received
  messages,  \* uiContext.messages
  printed,   \* what went to the console
  main,      \* where main's goroutine is
  failed,    \* Run returns an error
  paused,    \* uiContext.paused
  tick,      \* updateTick.C, of capacity 1, holds a tick
  span,      \* intervals since the analysis was reset
  prevSpan,  \* intervals that prevReport covers
  poller,    \* "none", "poll", "send" or "stopped": termboxEvents
  event,     \* what the poller has to hand over
  keys       \* key presses so far

logging == <<proxy, readLocks, writer, logged, buf, bufLock, written, flusher, printed>>
screen  == <<shown, messages, paused, tick, span, prevSpan>>
polling == <<poller, event, keys>>
vars == <<logging, msgChan, screen, main, failed, polling>>

Messages == Loggers \X (1..MaxLogs)
\* What handlePause says.
PauseNote == <<"ui", 0>>
\* When main returns the process is gone.
Alive == main # "exit"

Init ==
  /\ proxy = "buffered" /\ readLocks = {} /\ writer = FALSE
  /\ logged = [g \in Loggers |-> 0]
  /\ buf = <<>> /\ bufLock = nobody /\ written = 0 /\ flusher = "none"
  /\ msgChan = <<>> /\ shown = <<>> /\ messages = <<>> /\ printed = {}
  /\ main \in {"setCui", "setNoGui"} /\ failed = FALSE
  /\ paused = FALSE /\ tick = FALSE /\ span = 0 /\ prevSpan = 0
  /\ poller = "none" /\ event = "none" /\ keys = 0

-----------------------------------------------------------------------------
(* log.                                                                    *)

\* ProxyLogger.Log takes the read lock; a waiting writer keeps readers out.
RLock(g) ==
  /\ Alive
  /\ g \notin readLocks /\ ~writer
  /\ logged[g] < MaxLogs
  /\ readLocks' = readLocks \cup {g}
  /\ logged' = [logged EXCEPT ![g] = @ + 1]
  /\ UNCHANGED <<proxy, writer, buf, bufLock, written, flusher, printed,
                 msgChan, screen, main, failed, polling>>

\* It forwards the message and releases the lock.  BufferLogger.Log waits for
\* its mutex, uiContext.Log for room in msgChan, both with the lock held.
Forward(g) ==
  LET m == <<g, logged[g]>>
  IN  /\ Alive /\ g \in readLocks
      /\ \/ /\ proxy = "buffered" /\ bufLock = nobody
            /\ buf' = Append(buf, m) /\ UNCHANGED <<msgChan, printed>>
         \/ /\ proxy = "cui" /\ Len(msgChan) < MsgCap
            /\ msgChan' = Append(msgChan, m) /\ UNCHANGED <<buf, printed>>
         \/ /\ proxy = "console"
            /\ printed' = printed \cup {m} /\ UNCHANGED <<buf, msgChan>>
      /\ readLocks' = readLocks \ {g}
      /\ UNCHANGED <<proxy, writer, logged, bufLock, written, flusher,
                     screen, main, failed, polling>>

\* SetLogger by main, which then goes on to next.
SetLogger(l, at, next) ==
  /\ main = at
  /\ \/ /\ readLocks # {} /\ ~writer /\ writer' = TRUE
        /\ UNCHANGED <<proxy, main>>
     \/ /\ readLocks = {} /\ writer' = FALSE
        /\ proxy' = l /\ main' = next
  /\ UNCHANGED <<readLocks, logged, buf, bufLock, written, flusher, printed,
                 msgChan, screen, failed, polling>>

\* BufferLogger.WriteTo holds the mutex for the whole time.  The goroutine
\* that main starts forwards to the interface.
FlusherLock ==
  /\ Alive /\ flusher = "lock" /\ bufLock = nobody
  /\ flusher' = "send" /\ bufLock' = "flusher" /\ written' = 0
  /\ UNCHANGED <<proxy, readLocks, writer, logged, buf, printed,
                 msgChan, screen, main, failed, polling>>

FlusherSend_NewestFirst ==
  /\ Alive /\ flusher = "send"
  /\ IF written = Len(buf)
     THEN flusher' = "done" /\ bufLock' = nobody /\ UNCHANGED <<msgChan, written>>
     ELSE /\ Len(msgChan) < MsgCap
          /\ msgChan' = Append(msgChan, buf[Len(buf) - written]) /\ written' = written + 1
          /\ UNCHANGED <<flusher, bufLock>>
  /\ UNCHANGED <<proxy, readLocks, writer, logged, buf, printed,
                 screen, main, failed, polling>>

FlusherSend ==
  /\ Alive /\ flusher = "send"
  /\ IF written = Len(buf)
     THEN flusher' = "done" /\ bufLock' = nobody /\ UNCHANGED <<msgChan, written>>
     ELSE /\ Len(msgChan) < MsgCap
          /\ msgChan' = Append(msgChan, buf[written + 1]) /\ written' = written + 1
          /\ UNCHANGED <<flusher, bufLock>>
  /\ UNCHANGED <<proxy, readLocks, writer, logged, buf, printed,
                 screen, main, failed, polling>>

WriteToConsole_NothingLeft(at, next) ==
  /\ main = at /\ bufLock = nobody
  /\ main' = next
  /\ UNCHANGED <<logging, msgChan, screen, failed, polling>>

\* main itself forwards to the proxy, which by then is the console (as is the
\* error that main logs last).
WriteToConsole(at, next) ==
  /\ main = at /\ bufLock = nobody
  /\ printed' = printed \cup Range(buf)
  /\ main' = next
  /\ UNCHANGED <<proxy, readLocks, writer, logged, buf, bufLock, written, flusher,
                 msgChan, screen, failed, polling>>

-----------------------------------------------------------------------------
(* presentation.                                                           *)

Returns_QuitIsError(err) == main' = "interrupt" /\ failed' = TRUE

\* eventLoop returns, with an error or (quit) with nil.
Returns(err) == main' = "interrupt" /\ failed' = err

\* An interval ends (time.NewTicker).  A tick that the event loop has not taken
\* yet delays the next one: the ticker drops ticks for a slow receiver.
TickerFires ==
  /\ main \in {"loop", "pause"} /\ ~tick
  /\ tick' = TRUE
  /\ span' = IF span < MaxSpan THEN span + 1 ELSE span
  /\ UNCHANGED <<logging, msgChan, shown, messages, paused, prevSpan, main, failed, polling>>

Report_NotWhenPaused(reset) ==
  IF paused THEN UNCHANGED <<span, prevSpan>>
  ELSE span' = (IF reset THEN 0 ELSE span) /\ prevSpan' = span

\* analysis.Report: what it returns covers the time since the last reset.  A
\* report is taken, and the analysis reset, whether it is displayed or not.
Report(reset) ==
  /\ span' = IF reset THEN 0 ELSE span
  /\ prevSpan' = IF paused THEN prevSpan ELSE span

\* update: termbox may refuse to clear, before the report, or to flush.
Update(next) ==
  \/ MayFail /\ Returns(TRUE) /\ UNCHANGED <<span, prevSpan>>
  \/ /\ Report(~Cumulative)
     /\ \/ main' = next /\ UNCHANGED failed
        \/ MayFail /\ Returns(TRUE)

\* termbox.Init, then eventLoop up to its first update.
StartUi ==
  /\ main = "run"
  /\ \/ /\ MayFail /\ main' = "setConsole" /\ failed' = TRUE
        /\ UNCHANGED <<poller, span, prevSpan>>
     \/ poller' = "poll" /\ Update("loop")
  /\ UNCHANGED <<logging, msgChan, shown, messages, paused, tick, event, keys>>

Tick ==
  /\ main = "loop" /\ tick
  /\ tick' = FALSE
  /\ Update("loop")
  /\ UNCHANGED <<logging, msgChan, shown, messages, paused, polling>>

\* handleNewMessage.
ReceiveMessage ==
  /\ main = "loop" /\ msgChan # <<>>
  /\ msgChan' = Tail(msgChan)
  /\ shown' = Append(shown, Head(msgChan))
  /\ messages' = Append(IF Len(messages) < LogLines THEN messages ELSE Tail(messages),
                        Head(msgChan))
  /\ UNCHANGED <<logging, main, failed, paused, tick, span, prevSpan, polling>>

\* PollEvent returns what the user did; Interrupt is received in Interrupted.
PollEvent(e) ==
  /\ Alive /\ poller = "poll" /\ keys < MaxKeys
  /\ poller' = "send" /\ event' = e /\ keys' = keys + 1
  /\ UNCHANGED <<logging, msgChan, screen, main, failed>>

\* handleEvent: p toggles the pause and logs it, q returns, ^L and a resize
\* update.
HandleEvent ==
  /\ main = "loop" /\ poller = "send"
  /\ poller' = "poll" /\ event' = "none"
  /\ \/ /\ event = "p"
        /\ paused' = ~paused /\ main' = "pause"
        /\ UNCHANGED <<failed, span, prevSpan>>
     \/ event = "q" /\ Returns(FALSE) /\ UNCHANGED <<paused, span, prevSpan>>
     \/ event = "redraw" /\ Update("loop") /\ UNCHANGED paused
  /\ UNCHANGED <<logging, msgChan, shown, messages, tick, keys>>

\* The end of handlePause: uiContext.Log, from the goroutine that receives.
LogPause ==
  /\ main = "pause" /\ Len(msgChan) < MsgCap
  /\ msgChan' = Append(msgChan, PauseNote)
  /\ main' = "loop"
  /\ UNCHANGED <<logging, screen, failed, polling>>

\* The deferred termbox.Interrupt, which waits until PollEvent takes it, and
\* termbox.Close.
Interrupted ==
  /\ main = "interrupt" /\ poller = "poll"
  /\ poller' = "stopped"
  /\ main' = IF failed THEN "setConsole" ELSE "exit"
  /\ UNCHANGED <<logging, msgChan, screen, failed, event, keys>>

-----------------------------------------------------------------------------
(* main.                                                                   *)

Spawn_NoWriteTo ==
  /\ main = "spawn"
  /\ main' = "run"
  /\ UNCHANGED <<logging, msgChan, screen, failed, polling>>

\* go buffered.WriteTo(cui), then cui.Run.
Spawn ==
  /\ main = "spawn"
  /\ flusher' = "lock" /\ main' = "run"
  /\ UNCHANGED <<proxy, readLocks, writer, logged, buf, bufLock, written, printed,
                 msgChan, screen, failed, polling>>

\* -nogui: an interrupt or the end of the input.
Signal ==
  /\ main = "wait"
  /\ main' = "exit"
  /\ UNCHANGED <<logging, msgChan, screen, failed, polling>>

Main ==
  \/ SetLogger("cui", "setCui", "spawn") \/ Spawn
  \/ StartUi \/ LogPause \/ Interrupted
  \/ SetLogger("console", "setConsole", "rewrite") \/ WriteToConsole("rewrite", "exit")
  \/ SetLogger("console", "setNoGui", "writeTo") \/ WriteToConsole("writeTo", "wait")
Flusher == FlusherLock \/ FlusherSend

Next ==
  \/ Main \/ Signal \/ TickerFires \/ Tick \/ ReceiveMessage \/ HandleEvent
  \/ \E g \in Loggers : RLock(g) \/ Forward(g)
  \/ Flusher
  \/ \E e \in {"p", "q", "redraw"} : PollEvent(e)

\* Goroutines run; select does not neglect a channel for ever; a blocked send
\* gets its turn.  Nobody has to press a key, and nothing has to fail.
Spec ==
  /\ Init /\ [][Next]_vars
  /\ WF_vars(Main) /\ WF_vars(ReceiveMessage) /\ WF_vars(HandleEvent)
  /\ \A g \in Loggers : WF_vars(Forward(g))
  /\ WF_vars(Flusher)

-----------------------------------------------------------------------------
(* Properties.                                                             *)

TypeOK ==
  /\ proxy \in {"buffered", "cui", "console"}
  /\ readLocks \subseteq Loggers /\ writer \in BOOLEAN
  /\ logged \in [Loggers -> 0..MaxLogs]
  /\ buf \in Seq(Messages) /\ written \in 0..Len(buf)
  /\ bufLock \in {nobody, "flusher"} /\ flusher \in {"none", "lock", "send", "done"}
  /\ Len(msgChan) <= MsgCap /\ Len(messages) <= LogLines
  /\ printed \subseteq Messages
  /\ main \in {"setCui", "setNoGui", "writeTo", "wait", "spawn", "run", "loop", "pause",
               "interrupt", "setConsole", "rewrite", "exit"}
  /\ failed \in BOOLEAN /\ paused \in BOOLEAN
  /\ tick \in BOOLEAN /\ span \in 0..MaxSpan /\ prevSpan \in 0..MaxSpan
  /\ poller \in {"none", "poll", "send", "stopped"}
  /\ event \in {"none", "p", "q", "redraw"} /\ keys \in 0..MaxKeys

\* The event loop waits for room in the channel that only it empties.
Wedged == main = "pause" /\ Len(msgChan) = MsgCap
\* The poller waits for the event loop with a key typed after the last one.
StrayKey == main = "interrupt" /\ poller = "send"
Leaving  == main \in {"interrupt", "setConsole", "rewrite", "exit"}

\* A message logged while main is still setting things up, or while it
\* switches the logger, is displayed like any other: none is left in the
\* BufferLogger, none gets stuck behind the locks (ProxyLogger, WriteTo).
MessagesShown ==
  \A m \in Messages :
    logged[m[1]] >= m[2] ~> m \in Range(shown) \cup printed \/ Wedged \/ Leaving

\* No message reaches the interface twice, from the buffer and directly, and
\* "WriteTo sends recorded log messages to another Logger in order".
ShownOnce ==
  LET all == shown \o msgChan
      at(m) == CHOOSE i \in DOMAIN buf : buf[i] = m
  IN  /\ TypeOK
      /\ \A i, j \in DOMAIN all :
           i < j => /\ all[i] = all[j] => all[i] = PauseNote
                    /\ {all[i], all[j]} \subseteq Range(buf) => at(all[i]) < at(all[j])

\* "q - Exit memsniff": the event loop returns, the poller is stopped and main
\* exits, whoever is still blocked in a logger.  Two things can keep it: the
\* event loop waits for itself (handlePause), or a key typed after q keeps the
\* poller from taking the interrupt (termboxEvents, runTermbox).
QuitExits == event = "q" ~> main = "exit" \/ Wedged \/ StrayKey

\* When the interface fails main says so on the console, with what was logged
\* during the start, unless goroutines blocked on a full msgChan hold the
\* locks that SetLogger and WriteTo need.
ErrorReported ==
  failed ~> \/ main = "exit" /\ Range(buf) \subseteq printed
            \/ StrayKey \/ Len(msgChan) = MsgCap

\* "so we don't get a big burst of data on unpause": unless reports are
\* cumulative, what is displayed covers no more than one interval of the ticker,
\* however long the interface was paused and whenever the user pauses, resumes
\* or redraws (update, handlePause).
NoBurst == ~Cumulative => prevSpan <= 1
=============================================================================

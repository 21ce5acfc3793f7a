# memsniff in TLA+

memsniff watches memcached traffic and shows the busiest cache keys. Packets
flow through a chain of goroutine pools that hand buffers to each other without
locks; the modules here model that chain, TLC checks small instances, and TLAPS
proves the safety of most of it for every size.

## The system

```
 PacketSource --> decode pool --> assembly pool --> protocol consumers --> analysis pool --> UI
 (live, file,     Run + workers   HandlePackets +   one per connection,    HandleEvents +    Report
  or replayer)                    workers           over two readers       workers
```

| component | state | operations | how it interacts |
|---|---|---|---|
| capture source, `capture/capture.go` | a pcap handle | CollectPackets, DiscardPacket, Stats | called by `Pool.Run` only |
| replayer, `capture/replay.go` | own packet buffer, cursor, start, first, two counters | CollectPackets, dropExpired, fill, DiscardPacket, Stats | a PacketSource over a capture file; sleeps on the clock |
| decode pool, `decode/pool.go`, `decode/worker.go` | readyQ; per worker a PacketBuffer and the one-slot channel workReady; counters | Run, sendToWorker; work, close, loop | Run fills the worker's own buffer, a token hands it over, readyQ gives it back |
| packet decoding, `decode/decode.go` | a slice of DecodedPacket per worker, reused | decodeBatch, decode | points into the PacketBuffer (no copy) |
| assembly pool, `assembly/pool.go`, `assembly/worker.go` | wiCh per worker; a doneCh per call | HandlePackets, partition; handlePackets, loop | runs on the decode worker's goroutine and waits for the assembly workers |
| stream factory, `assembly/streamfactory.go` | halfOpen: consumers that have one direction | New | called by tcpassembly, pairs the two directions |
| stream reader, `assembly/reader` | bytes, gaps, discard debt, closed, eof, err | Reassembled, ReadN, PeekN, IndexAny, ReadLine, Discard, Truncate, Reset, Close | written by tcpassembly, read by the consumer |
| protocol consumer, `protocol` | parser state, command, arguments, event buffer | run, readCommand, readArgs, handleGet, handleSet, handleQuit, discardResponse, Close | calls HandleEvents |
| analysis pool, `analysis`, `hotlist` | kisChan and hotlist per worker, two counters, the filter | HandleEvents, Report, top, reset | fed by all assembly workers, read by the UI |
| UI and log, `presentation`, `log`, `main.go` | messages, previous report, paused | Run, update, handlePause, Log | calls Report and Stats |

What is hard here: ownership of a buffer passes through channels and nothing
else; a handler returns only when other goroutines answer; queues are bounded
and some sends give up when they are full; a read can fail half-way; a TCP
stream has holes; two exchanges that belong together (top and reset) are not
atomic; the replayer computes with a time that was not set yet. `PROJECT.json`
lists each of these at its line under "hazards".

What makes each part correct:

* decode pool: a buffer is never written while a worker reads it; no plain
  channel operation blocks for ever or panics; every packet is handled once or
  counted as dropped; the end of input ends everything.
* assembly pool: an item never outlives the batch it points into; each packet
  reaches the Assembler of its connection once, in order within a batch; every
  call returns.
* reader: whatever the calls, it behaves as a cursor in the stream that knows
  where bytes are missing.
* analysis pool: no event is lost or counted twice without being counted as
  such; a report is the exact top of what the workers held.
* replayer: packets leave once, in order, at their time; the file ends.
* stream factory: the two directions of a connection meet in one consumer; a
  pooled reader has one owner and carries nothing over to its next connection.
* protocol consumer: an event is a hit the server reported, once and in order;
  commands and replies stay in step, and come back into step after a loss;
  every run ends.
* interface and log: a message is shown once, also across the switch of the
  logger; `q` exits; an error is reported; a report covers one interval.

## Modules

| module | models | extends / uses |
|---|---|---|
| `DecodePool` | Run, sendToWorker, work, close, worker.loop; an opaque handler | |
| `DecodePoolProofs` | theorems on DecodePool | DecodePool |
| `Pipeline` | the handler as HandlePackets and the assembly workers | DecodePool, and implements it |
| `PipelineProofs` | theorems on Pipeline, and that it takes only steps of DecodePool | Pipeline, DecodePoolProofs |
| `GapStream` | abstract specification, of the reader as it is: a cursor in a TCP stream with holes | |
| `StreamReader` | Reader and Buffer | instantiates GapStream, and implements it |
| `ReaderContract` | what the comments say of the reader's errors, as history over StreamReader | StreamReader |
| `StreamReaderProofs` | theorems on StreamReader, and that it implements GapStream | StreamReader |
| `AnalysisPool` | HandleEvents, the workers, hotlist, Report | |
| `AnalysisPoolProofs` | theorems on AnalysisPool | AnalysisPool |
| `Replayer` | the replayer, the clock, a file with read errors | |
| `ReplayerProofs` | theorems on Replayer | Replayer |
| `Consumer` | the text protocol: run, its state functions, the event buffer, two readers | readers as GapStream specifies them |
| `TextGrammar` | the conversations the consumer is written for | Consumer |
| `ConsumerProofs` | theorems on Consumer | TextGrammar |
| `StreamFactory` | New and halfOpen, the pool of readers, tcpassembly's opening and completing of streams | a run of Consumer is one of the outcomes of `Run` |
| `StreamFactoryProofs` | theorems on StreamFactory | StreamFactory |
| `Console` | main, ProxyLogger, BufferLogger, the event loop, the poller | |
| `ConsoleProofs` | theorems on Console | Console |
| `MC*` | values of the constants for TLC | the module of that name |

### DecodePool

One action per channel operation or source call. `rpc` is where Run is (select,
inside CollectPackets, before work, closing, returned), `cur` the worker it
holds, `wpc[w]` where worker.loop of w is. Packets are numbers in capture order;
`fate` is history and says what became of each. CollectPackets has four
outcomes: a batch (possibly empty), a timeout, an error after some packets, and
io.EOF. DiscardPacket has one that changes state; its timeouts and errors are
stutters. Sends have the capacity of the channel in their guard, so that a send
that would block shows as a state in which the guard is false; `ChannelSafety`
says there is none.

### Pipeline

Replaces HandlerReturns by HandlePackets: partition, one offer per assembly
worker (skipped when empty, refused when the queue is full, and counted in
either case as the code does), the wait for the completions. A work item holds
indexes and the name of the decode worker; `Assemble` reads the packet out of
the decode worker's buffer as it is at that moment, as the code does. The
assembly worker's ticker flushes streams and touches nothing modelled here.

### GapStream and StreamReader

A byte is its position in the stream, and `Text` says which character is there,
so that a byte delivered in the wrong place differs from the right one. Buffer
keeps the code's representation: `buf`, `blocks` with a gap and a data length,
`len` and the debt `discard`. `ReadN`, `PeekN`, `IndexAny`, `ReadLine`,
`Discard`, `Truncate`, `Reset`, `Close`, `Reassembled` (with a loss, with an
unknown loss at the start, overflowing) and `ReassemblyComplete` are actions.
GapStream has no blocks: it has the position of the cursor, the end, and the set
of positions that are there; the mapping computes these from the blocks.
`Reader.Read` is not modelled: nothing calls it.

GapStream describes the reader as the parser meets it, not as two comments
describe it: a gap stays in place, and is reported again, until a ReadN, a
ReadLine or a Discard passes it, and a short read at the end of the stream
returns no bytes. `ReaderContract` adds two history variables that record what
the calls return and states the comments: how often ErrLostData has been
returned for a gap since the last Reset, and whether a ReadN or PeekN that met
the end has kept bytes back. The run `reader_as_documented` violates both.

### AnalysisPool

An event is one GET hit and only ever counted, so a hotlist is a set of events.
The offer to a worker and the update of the counters are two steps of the
caller. Top and reset are two steps of Report; between them workers process
batches. `Tops` leaves open which of several items of equal weight is cut: the
sort is not stable and starts from map order. `shouldReset` is chosen at the
start, as by `--cumulative`. `SetFilterPattern` and `Pool.Reset` are called by
main before any event arrives, and by nothing else, so the filter is a constant.

### Replayer

Time is in ticks with `replayerTimeout` = 2. `Tick` may happen between any two
steps, also between the reading of `elapsed` and its use. `Unset` is the zero
`time.Time`: `Since` saturates and `plus` wraps at `DurationBits` as
`time.Duration` does, because DiscardPacket can be the first call made (no
decode worker is ready yet) and then computes `time.Since` of a zero start. The
byte limit of the caller's buffer is the choice of `room`.

### Consumer

A stream is a sequence of units, each a word (or part of a line) with the
delimiter that ends it, the number it spells and the request it belongs to; the
network may cut it between any two units. Data of values is made of units too,
and reads like a command or like a VALUE line, so that a consumer that loses
its place is caught. The readers have no blocks here: they are the cursor, the
end and the lost positions of GapStream, which the theorem
`ReaderFollowsTheStream` shows the real Reader to implement. A stream that is
first seen in mid-conversation (a negative Skip) is only in StreamReader, where
it is a write without a gap; here both streams are seen from the start. `Return` and `Continue` are the two ways out of a
state function, as `run` treats them: `rs` are the readers as the state
function leaves them, to which Reset is applied on any error but a short read
or io.EOF. handleGet's loop is one action per line of the reply.

`MayCross` is the model of client and server: a server answers what it has
received, a client waits for a reply before it sends the next request
(`Outstanding` = 1). `harmed` is history: the requests that lost something.

`TextGrammar` says which conversations the state machine takes for granted, as
a predicate `Regular` on the two streams: requests come in turn, every request
is one the state machine reads to its last unit (a get or a set with its line
and its data, a word it does not know without arguments, a line that does not
start with letters), and every reply is one whose end it finds (one line, or for
a get a sequence of VALUE lines with their data and a last line). Quit and a
conversation that starts with the binary magic byte are included. An unknown
command with arguments is not: that is violation 3 below. No model uses the
predicate; the proofs do, and `ConversationsAreRegular` of MCConsumer has TLC
evaluate it on every conversation of the run, so the proofs are about at least
those.

### StreamFactory

A connection is a pair of flows, and `New(k, s)` is New with the side
IsFromServer finds. The assembler opens a direction when it sees it and
completes it at any time; `irregular` is history and marks the connections one
direction of which came back alone. What a reader holds is the set of streams
its bytes come from, with a mark whether the stream is still the same one.
`Run` leaves open how much the consumer consumes: any of the ways it treats its
readers may happen at any call. Consumers and readers are reused when the
garbage collector would free them, and sync.Pool may drop what it holds.

### Console

`main` says where main's goroutine is: setting the logger (which waits for the
readers of the RWMutex and, once it waits, stops new ones), the event loop, the
send in handlePause, the deferred Interrupt, the error path. Loggers hold the
read lock from `RLock` to `Forward`, and Forward waits for the mutex of the
buffer or for room in msgChan. The goroutine of `go buffered.WriteTo(cui)`
holds the buffer's mutex while it sends. `poller` is the goroutine of
termboxEvents; `termbox.Interrupt` is a rendezvous with its PollEvent. `TickerFires`
ends an interval: it puts a tick into the ticker's channel of one (`tick`), and
`span` counts the intervals since the analysis was last reset, up to `MaxSpan`,
which stands for that many or more. A report covers `span` intervals and, with
`--cumulative` off, sets it to 0; `prevSpan` is what the report on display
covers. So an interval in which no report is taken, paused or not, makes the
next one cover two. An interval is the time between two ticks that the ticker
delivers: it delivers none while the last one waits to be taken, as when the
loop is slow. `Update` has both places where termbox may fail, Clear before the
report and Flush after it.

## Runs

| run | checks | instance |
|---|---|---|
| `decode_pool` | TypeOK, ChannelSafety, StatsExact, Drained, BufferStable, PacketFate, CleanShutdown | 2 workers, 5 packets, batches of up to 2, 1 read error |
| `decode_read_error` | Shutdown is violated | 2 workers, 4 packets, 1 read error |
| `pipeline` | ItemsPinned, RightSlot, AssembledOnce, CompleteOnReturn, BatchOrder, ImplementsDecodePool, AcceptedCallsReturn | 2 decode and 2 assembly workers, 4 packets, queues of 1 |
| `pipeline_queue_full` | HandlerTerminates is violated | the same with queues of 1 |
| `reader_refines_stream` | Validate, ImplementsGapStream | a stream of 6 bytes with both line ends, buffer of 3 |
| `reader_as_documented` | KeepsAPromise is violated | a stream of 3 bytes, buffer of 3 |
| `analysis_pool` | EventsAccounted, StatsExact, ReportedOnce, ReportExact, ReportsGrow | 2 callers, 2 workers, 5 events of 4 items, queues of 1, top 1 |
| `replayer` | NothingLost, NeverEarly, NotStale, ReturnedInOrder, ReplayEnds | 4 packets with timestamps out of order, buffers of 3, 1 read error |
| `consumer` | NoPhantom, ResyncAfterLoss, InStep, RunReturns | 36 conversations of up to 3 requests, 1 lost packet, readers of 6 units, event buffer of 2 |
| `consumer_unknown_command` | InStep is violated | conversations with delete, no loss |
| `stream_factory` | OneOwner, PooledClean, NoCrossTalk, Paired, Returned | 2 connections, 3 consumers, 4 readers |
| `console` | ShownOnce, NoBurst, MessagesShown, QuitExits, ErrorReported | 3 loggers with 1 message each, msgChan of 1, 2 keys, 2 log lines, intervals told apart up to 2, termbox may fail |

The type invariant of a module is checked as the first conjunct of its main
invariant (AssembledOnce, Validate, EventsAccounted, NothingLost, NoPhantom,
OneOwner, ShownOnce); DecodePool's, which is also a theorem, is checked by itself.

Why the bounds are enough. Two workers are the fewest that can be confused with
one another or race, and a batch of two the smallest that has an order and can
be split; five packets let each worker be used twice and one packet be
discarded between. A queue of one makes a full queue an ordinary event. The
six-byte stream has a line ending in `\r\n`, one in `\n` and an unfinished one,
and a buffer of three overflows. The five events have a frequent light item, a
rare heavy one in the same worker (so that order by count and by weight
differ), one in the other worker and one the filter removes. The four
timestamps have one pair closer than the timeout, one further apart and one out
of order. The conversations have a hit, two hits with an empty value and one
whose data is a VALUE line, a set whose data is a command, a request that is
not letters only, an unknown command, a size that is not a number, quit and the
binary protocol; three requests are one to be damaged, one to be affected and
one that must be right again, and readers of six units overflow on the longest
reply. With two lost packets (about five minutes) the properties hold as well.
Four readers and three consumers let both connections be paired while a third
consumer waits for collection, or one connection be reopened on one side; a
reader is then always reused. With msgChan of one and three loggers a message
is in the buffer, another fills the channel, a third waits with the lock and main
wants to switch, all at once; two keys are a pause and its end, a pause and a
quit, or a quit and one more, and two intervals are one too many for a report.
`MaxLost`, `MaxLogs`, `MaxKeys`, `MaxSpan`, `MaxReadErrors`, `MaxRead`, `MaxAhead`, `MaxBatch` (of AnalysisPool),
`MaxClock` and `MaxReceived` are bounds of the models; the other constants are
parameters of the code. `MCAnalysisPool` and `MCStreamFactory`
use symmetry (of callers, of connections, consumers and readers) in runs without liveness; nothing in the code tells them apart there.

Deadlock is checked except in `decode_pool` and `decode_read_error` (a worker
lost to a read error really leaves Run waiting) and in `pipeline` and
`pipeline_queue_full` (a caller that met a full queue really waits for ever), in the consumer's runs
(a conversation ends), in `stream_factory` (all consumers of the bounded set
may be in use) and in `console` (main exits).

### Fairness

* DecodePool: weak fairness of each step of Run and each worker's loop: a
  goroutine that can run is scheduled. The handler is assumed to return;
  `pipeline` discharges that assumption for the real handler, for every worker
  that has not had an offer refused for good (ImplementsDecodePool). The source
  is given strong fairness of a batch or io.EOF: it may time out any number of
  times, not for ever, which holds for a file (the only source with an end).
* Pipeline: weak fairness of each goroutine, nothing about the handler.
* Replayer: weak fairness of a call in progress, strong fairness of calling
  CollectPackets (a decode worker becomes free again and again, by
  `AcceptedCallsReturn`). None of the clock: the sleeps move it.
* Consumer: weak fairness of the steps of run, which its caller executes to the
  end. Nothing about packets.
* Console: weak fairness of main, of every blocked logger and of the goroutine
  that writes out the buffer, and of the select cases for messages and for
  keys: a Go select chooses at random among ready cases, so none is passed over
  for ever. No key has to be pressed, no message logged, no error happen.

### What the violations show

1. `decode_read_error` (decode/pool.go:106): a read error that is neither a
   timeout nor io.EOF loses the worker and its batch; at the end of input Run
   waits for the lost worker for ever.
2. `pipeline_queue_full` (assembly/pool.go:34): a refused offer is counted as
   sent, and the caller waits for a completion nobody sends. The real queues
   hold 128 items and a decode worker has at most one item in each, so it takes
   more than 128 decode workers.
3. `consumer_unknown_command` (protocol/mctext/consumer.go:106): the arguments
   of an unknown command stay in the client's stream and are read as commands.
   From then on replies are attributed to the wrong request or thrown away,
   until a word that is not all letters forces a resynchronisation. With
   `ResyncAfterLoss` in its place TLC shows hits that are never reported.
4. `reader_as_documented` (assembly/reader/buffer.go:68 and :88): both comments
   on the reader's errors are wrong. error.go:10 says ErrLostData "is returned
   only once for each gap"; PeekN and IndexAny report a gap at every call, and in
   the trace a PeekN and a ReadN report the same one. protocol/model/consumer.go
   (50-51 and 62-63) promises that at the end of the stream "the available bytes
   are returned along with ErrUnexpectedEOF"; in the trace a ReadN of two bytes
   returns none of the one that is there. `KeepsAPromise` is the disjunction of
   the two promises, so its one trace breaks each of them. The consumer resets or
   truncates after each such error, so nothing comes of either.

Also noticed, without a run of their own:

* capture/replay.go:119: if the read of the first batch fails half-way, its
  packets are served with `first` unset and never become due; every call sleeps
  and times out for ever. The comment on `first` (capture/replay.go:18) calls it
  "the timestamp of the first packet returned from src". ReplayEnds and
  NothingLost are therefore stated for a file that is read without errors.
* presentation/termbox.go:106 and :74: `q` does not always exit. handlePause may
  wait for room in the channel it should be emptying, and a key typed after `q`
  leaves the poller in its send, where it never takes the Interrupt that main
  waits to deliver. Both are named in QuitExits (`Wedged`, `StrayKey`); without
  either disjunct TLC finds the hang.
* main.go:97: when the interface fails while loggers are blocked on a full
  msgChan, SetLogger waits for their read locks for ever and the error is not
  printed (the last disjunct of ErrorReported).
* analysis/report.go:78: the report has up to reportSize entries per worker;
  pool.go:49 says reportSize "determines the number of entries".
* assembly/streamfactory.go:84: when one direction of a connection ends and is
  opened again while the other stays open, its data goes to a new consumer that
  waits in halfOpen for ever, and the old consumer reads eofSource on that side
  (`irregular` in Paired and Returned).
* protocol/mctext/consumer.go:83: with pipelining (`Outstanding` = 2), with
  `noreply` sets, or when a reply is captured before the end of its request,
  replies are truncated and the next is taken for them: InStep, ResyncAfterLoss
  and NoPhantom all fail.
* protocol/mctext/consumer.go:126: a known command without arguments reads the
  next line as its arguments; a bare `quit` is therefore handled only when more
  data follows.
* protocol/mctext/consumer.go:83: what is reported after a loss depends on what
  the rest of the damaged request can be mistaken for. When the data of a set
  reads like two commands in a row and the first packet of that set is lost, two
  replies are awaited and there is one; discardResponse takes the VALUE line of
  the next reply for the other, handleGet starts in the data, and data that
  reads like a VALUE line is reported as a hit. InStep and ResyncAfterLoss hold
  there. The conversations of the run have no such data.
* main.go:122: PacketsPassedFilter leaves out the packets dropped for want of a
  decode worker. presentation.go:14 says Run "does not return unless an error
  occurs"; on `q` it returns nil.
* presentation/termbox.go:90: ^L and a resize take a report, and so cut the
  interval short.
* `replayer.received` counts a packet that is not yet due each time it is looked
  at (capture/replay.go:62); `handleEvents` leaves a zero keyInfo for an event other than a hit that
  precedes a hit in its batch (analysis/worker.go:62), which cannot happen while
  only hits are produced.

## Proofs

Every theorem is proved for all values of the constants that satisfy the named
assumption of its module, which TLC evaluates in the module's runs. Hardly any
of the properties is inductive: the inductive invariants are given below. Step
lemmas have one case per action.

### DecodePoolProofs

For any finite non-empty set of workers, any number of packets, any batch size
and any number of read errors (`WorkersAssumption`, `BoundsAssumption`).

| theorem | statement |
|---|---|
| `TypeCorrect` | `Spec => []TypeOK` |
| `ChannelsSafe` | `Spec => []ChannelSafety` |
| `BuffersStable` | `Spec => BufferStable` |
| `RunDrains` | `Spec => []Drained` |
| `FateIsFinal` | `Spec => PacketFate` |
| `StatsAreExact` | `Spec => []StatsExact` |

The argument has two layers. *Ownership*: a
worker is on readyQ at most once, a worker on readyQ or held by Run is idle
(waiting, no token, open), and a token is only ever with a waiting worker.
From this follow the channel properties; that readyQ always has room is the
counting lemma `QueueRoom`: a queue of distinct workers that lacks one is
shorter than their number. *Accounting*: the source is read in order, what a
buffer of an idle worker holds has been handled, a packet waiting for a handler
lies in some buffer, and nClosed counts the closed workers. Ownership is proved
first and used in every step of Accounting; together they are `IInv`. The two
counters of Stats are cardinalities of sets of fates, and each action changes
set and counter by the same number.

### PipelineProofs

For any number of assembly workers, any assignment of packets to them and any
queue capacity in addition (`AssemblyAssumption`).

| theorem | statement |
|---|---|
| `RefinesDecodePool` | `PSpec => Spec`, the safety specification of DecodePool |
| `PoolGuarantees` | `PSpec => [](ChannelSafety /\ StatsExact /\ Drained)` |
| `ItemsArePinned` | `PSpec => []ItemsPinned` |
| `PacketsMeetTheirSlot` | `PSpec => []RightSlot` |
| `PacketsAssembledOnce` | `PSpec => []AssembledOnce` (types included, and that doneCh has room) |
| `ReturnIsComplete` | `PSpec => CompleteOnReturn` |
| `BatchesInOrder` | `PSpec => BatchOrder` |

The composition takes only steps of DecodePool (the new steps of HandlePackets
and of the assembly workers stutter), so `IInv` and all that follows from it
carry over: `PoolGuarantees` needs no new argument. `PInv` adds four parts.
*Buffers*: a buffer holds packets in capture order, no packet is in two of
them, and a batch on its way is not handled yet. *WorkItems*: a queued item is a
whole part of a call in progress, an item in work the rest of one, and an
assembly worker has at most one item of each caller. *History*: what has been
assembled is handled, was assembled once and by its worker, and what can still
be read has not been assembled. *Covered*: the answers in doneCh and those still
to come, the refused offers included, are at most what the call waits for. The
last is a cardinality and is what ItemsPinned and CompleteOnReturn rest on; it
is an inequality because a refused offer is never answered (the second of the
violations above), so it holds of the code as it is.

### StreamReaderProofs

For every stream, pattern of losses, capacity and sequence of calls
(`ReaderAssumption`).

| theorem | statement |
|---|---|
| `BufferIsValid` | `Spec => []Validate` (types included) |
| `ReaderFollowsTheStream` | `Spec => ImplementsGapStream`: Reader and Buffer refine GapStream |

Buffer stores no position. `Rep(bs, b, c)` says what it stands for: the blocks
`bs` place the bytes `b` behind position `c`; `LostIn(bs, c)` are the positions
they leave out. Both are statements about partial sums over the blocks. The
lemmas on sums (`SumFacts`, `SumShift`, `SumPrefix`, `SumFind`) are proved from
the existence of a least counterexample (`Smallest`), which replaces the
induction the provers lack. On them rest the two ways a buffer changes: a
Discard cuts at the front (`CutRep`, `CutLost`), a write extends at the end
(`ExtendRep`, `ExtendLost`), possibly after paying the debt `discard`
(`WriteNumbers`). `BytesCounted` is the bijection between the bytes of buf and
the positions of the window that are not lost, which makes the capacity check of
Write the one of GapStream, and `AvailFacts` says that contiguousAvailable
finds the first loss. The invariant `SInv` is Rep at the cursor with the
lengths in agreement; one lemma per call proves that it is kept and that the
call is the corresponding one of GapStream.

### AnalysisPoolProofs

For any sets of callers and events, any number of workers, any assignment of
keys, queue capacity and report size (`AnalysisAssumption`).

| theorem | statement |
|---|---|
| `EventsAreAccounted` | `Spec => []EventsAccounted` (types included) |
| `StatsAreExact` | `Spec => []StatsExact` |
| `EventsReportedOnce` | `Spec => []ReportedOnce` |
| `ReportsAreExact` | `Spec => []ReportExact` |
| `CumulativeReportsGrow` | `Spec => ReportsGrow` |

`AInv` has four parts besides types. *Routing*: an event is only ever with the
worker of its key, and a call has nothing left for workers it has passed.
*OnePlace*: an event is somewhere and nowhere else; between an offer and its
accounting it is both in the call and where the offer put it, and this is where
the property as stated is not inductive. *Counters*: the counters count the
events of the calls that have passed them. *Reporting*: what Report has
collected is the top of a snapshot of each worker asked so far; with resets what
was counted is erased or about to be, without them hotlists contain the
snapshots.

### ReplayerProofs

For any file and timestamps, in order or not, any buffer capacity, any number of
read errors and any width of Duration (`ReplayAssumption`; that `2^(bits-1)` is
a positive integer is part of it, since the provers do not know powers).

| theorem | statement |
|---|---|
| `NothingIsLost` | `Spec => []NothingLost` (types included) |
| `PacketsInOrder` | `Spec => ReturnedInOrder` |
| `NoStalePackets` | `Spec => NotStale` |
| `NoPacketEarly` | `Spec => NeverEarly` |

`RInv` is TypeOK with *Buffering* (the buffer is a run of consecutive packets
that ends where the file has been read to), *Fates* (what lies ahead of the
cursor is neither returned nor dropped; the drop counter is a cardinality) and
*Timing* (a call works with an elapsed time that is at most the present one, and
delivers from a packet on that was not overdue). What dropExpired does in one
loop is the lemma on `Dropped`.

### StreamFactoryProofs

For any sets of connections, consumers and readers
(`FactoryAssumption`: nil and eofSource are none of them).

| theorem | statement |
|---|---|
| `ReadersOwned` | `Spec => []OneOwner` (types included) |
| `PooledReadersClean` | `Spec => []PooledClean` |
| `NoDataCrosses` | `Spec => []NoCrossTalk` |
| `DirectionsPaired` | `Spec => []Paired` |
| `ReadersReturned` | `Spec => []Returned` |

`Pooling` adds to OneOwner that a reader in use is one
that has been made, so that New cannot be handed it as a new one; the lemma
`PutBack` is the step Close and both ReassemblyComplete share. `Clean` extends
PooledClean to readers not made yet, which is what New relies on. `Bound` says
that the assembler's table, halfOpen and the consumers agree on the connection;
with it New never gives a stream to a consumer whose reader for that direction
holds something. `IInv` is their conjunction with NoCrossTalk. `Pairing`, used
for the last two, says for every ordinary connection how far it has come, and
that a consumer of it with a reader either has the stream or waits for it.

### ConsoleProofs

For any number of loggers, messages, keys and log lines and any capacity of
msgChan (`ConsoleAssumption`).

| theorem | statement |
|---|---|
| `MessagesShownOnce` | `Spec => []ShownOnce` (types included) |
| `NoBurstOnUnpause` | `Spec => []NoBurst` |

What has reached the interface is one sequence, what the loop has received
followed by what is in msgChan. `CInv`: the buffer holds each message once
(*Buffered*), nothing is forwarded before main has switched the proxy and the
buffer does not grow afterwards (*Startup*), and the interface has each message
once and of the buffer the first ones in order (*Forwarded*). NoBurst rests on
`OneInterval`: since the analysis was reset no interval has ended but the one
whose tick waits to be taken, unless the event loop is left for good. It is
inductive because the loop takes a report with every tick, paused or not, and
the ticker delivers no second tick before that.

### ConsumerProofs

For any set of conversations, any way the packets split the two streams and
interleave, any capacity of the readers and of the event buffer.

| theorem | hypotheses | statement |
|---|---|---|
| `ConsumerTypes` | conversations are made of units | `Spec => []TypeOK` |
| `EventsOnceInOrder` | the same | `Spec => []OnceInOrder`: no VALUE line is reported twice or out of order |
| `StaysInStep` | `Regular`, `Outstanding = 1` | `Spec => []InStep` |
| `LosslessNoPhantom` | the same | `Spec => [](harmed = {} => NoPhantom)` |
| `LosslessResync` | the same | `Spec => [](harmed = {} => ResyncAfterLoss)` |

The first two hold whatever is said and whatever is lost. The other three need
what the code itself relies on: a conversation in the grammar of `TextGrammar`,
and a client that waits for the reply. Without either they are false: violation
3, and the note on pipelining above. InStep speaks of conversations without loss
only. The last two state for them that every event is a hit of the server and
that every hit that has been read has been reported; overflow of a reader counts
as harm, as it does in the code.

None of the three is inductive. InStep says nothing of a consumer that waits for
a command, of what has crossed, or of why Run came back. `LInv` is the type
invariant, the grammar of the conversation, and for a conversation without harm
`Intact`. Its parts: *Clean*, the readers have no gaps and hold all that has
crossed behind their cursors; *Phase*, for each state function where in request
k and in its reply the two cursors are, and which word and arguments have been
kept; *Reported*, the events are the hits up to there; *Unread*, when Run has
come back there is no delimiter behind the cursor in what has crossed (or the
data is not all there); *Flushed*, nothing is left in eventBuf once the server
has said everything. A packet can only arrive between two runs, and then the
lemmas `ClientCrosses` and `ServerCrosses` show that it belongs to request k or
is the first of request k + 1: this is where one request at a time is used.
`Ends` relates the ends of requests and replies in the two streams. TLC checked
`harmed = {} => Intact` on the instance of the `consumer` run before it was
proved. Positions of delimiters are least elements of sets of positions, so
`Smallest` replaces induction here too.

### Model-checked only

* Everything under fairness: CleanShutdown, ReplayEnds, AcceptedCallsReturn,
  RunReturns, MessagesShown, QuitExits, ErrorReported and the fairness half of
  ImplementsDecodePool (its safety half is `RefinesDecodePool`). The provers
  have no rules for ENABLED.
* Consumer: NoPhantom and ResyncAfterLoss of a conversation that has lost
  something. They depend on what the rest of a damaged request or reply can be
  mistaken for (see the note on data that reads like two commands), so they hold
  of the conversations of the run and not of the whole grammar. What is proved of
  every conversation with losses is TypeOK and OnceInOrder.

## Not modelled

Rendering of the table, the sums of statGenerator, ContextLogger, profiling, the
version flag, opening capture handles and building the BPF filter (I/O or
formatting without state), header parsing (gopacket), and vendored code. The
offsets inside PacketBuffer are not modelled: a batch is a sequence of packets.
The unsynchronised read of decode's Stats by the interface, and layer fields
left over from an earlier packet when gopacket cannot parse a TCP header, are
listed as hazards without a property.

## Plan

1. done: DecodePool, Pipeline, StreamReader with GapStream, AnalysisPool,
   Replayer, StreamFactory, Console and Consumer, each with its proofs.
2. The consumer after a loss: a grammar of data that cannot be mistaken for more
   than one request, and with it NoPhantom and ResyncAfterLoss as theorems.
3. `PacketBuffer`: offsets and data against a sequence of packets.

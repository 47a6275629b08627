# iis-asgi-handler: a verification development

TLA+ models of iis-asgi-handler, an IIS module that hands HTTP requests and
WebSockets to an ASGI application through Redis, and of the second IIS module
beside it that keeps pools of worker processes alive. The modules are checked
with TLC on small instances, and with TLAPS for every size of them: all safety
properties and all refinements of abstract specifications are proved, for any number of
requests, connections, messages, bytes, characters, processes and applications.

`PROJECT.json` lists the runs, the source lines each definition models, the
hazards, the mutants and the theorems.

## The system

One Windows process, the IIS worker, contains everything but Redis and the
application.

| part | state | operations | who calls it |
|---|---|---|---|
| **Channel layer** `RedisChannelLayer` | named lists in Redis, whose entries name data keys that expire | `NewChannel`, `Send`, `ReceiveMany` | steps, pump; the application on the other side |
| **Response pump** `ResponsePump` | `m_callbacks` (channel to callback) under a mutex, `m_thread_stop`, a thread | `AddChannel`, `RemoveChannel`, `ThreadMain`, destructor | `WaitForResponseStep`, `WsWriter` |
| **HTTP handler** `HttpRequestHandler`, `RequestHandler` | `m_current_step`, and in the step the request message or the reply | `OnExecuteRequestHandler`, `OnAsyncCompletion`, `HandlerStateMachine`, five steps | IIS threads, through `HttpModule` |
| **WebSocket handler** `WsRequestHandler` | connect step, reader, writer | the connect pipeline, `StartReaderWriter` | IIS threads |
| **WebSocket reader** `WsReader` | receive buffer, `data_size`, `order` | `ReadAsync`, `ReadAsyncComplete`, `SendToApplication` | WebSocket module threads |
| **WebSocket writer** `WsWriter` | message in hand, `m_bytes_written` | `RegisterChannelsCallback`, `WriteAsync`, `WriteAsyncComplete` | pump tasks, WebSocket module threads |
| **Process pool** `ProcessPool` | process handles, exit event, a thread | `CreateProcess`, `ThreadMain`, `Stop` | `GlobalModule` |
| **Process pool module** `GlobalModule` | the pools | application start and stop | IIS |
| **Small parts** | handles (`ScopedResource`), a job object, an ETW logger | | everyone |

How they interact in the HTTP path, the core of the program:

1. IIS calls `OnExecuteRequestHandler`. The handler enters `ReadBodyStep`, and
   the loop `HandlerStateMachine` runs steps until one says *async pending* (IIS
   then holds the request until a completion arrives) or *finish*.
2. `SendToApplicationStep` starts a PPL task that sends the message to
   `http.request` and, in a continuation, calls `PostCompletion`, which makes
   IIS call `OnAsyncCompletion` on some thread.
3. `WaitForResponseStep` registers a callback for the reply channel with the
   pump. The pump's thread takes a message from Redis, takes the callback out
   of its map and runs it on a PPL task; the callback stores the reply in the
   step and posts a completion.
4. `WriteResponseStep` and `FlushResponseStep` give the reply to IIS and, for a
   streamed response, go back to 3.

What is hard: IIS threads, PPL tasks, the pump's thread, Redis and the
application all run at once; three of them hold raw pointers to a step that a
fourth destroys; a request that is pending has to be woken exactly once; a
message that has left Redis exists nowhere else; and every IIS call can finish
at once, later, or fail.

What makes each part correct:

- *channel layer*: FIFO per channel, a message is read once or expires, and nothing
  stays in Redis for good;
- *pump*: a registration fires at most once, is never forgotten, no message is
  lost while its registration stands, and the destructor returns;
- *HTTP handler*: exactly one wake-up for a pending request, no use of a
  destroyed step, the whole body to the application, all replies to the client
  in order, flushed before the next wait, the response closed by the final
  reply, and a request whose application answered ends;
- *WebSocket handler*: connect before the first receive, one reader and one
  writer, every byte of a message once and in its place;
- *process pool*: no process is forgotten or outlives the pool, the pool is
  refilled after deaths, and `Stop` ends the thread once processes stop dying;
- *process pool module*: pools as configured for the applications that are up, with
  the command line that was configured, and stopping returns, on the same condition.

## Modules

    AsgiResponse <--implements-- HttpRequestHandler   ResponsePumpClients   WsConnection
                                        |                    |                   |
                                        +------ EXTENDS -----+-------------------+
                                                             |
                                                       ResponsePump
                                                             | EXTENDS
                        RedisChannelLayer --implements--> ChannelLayer

    ProcessPool --implements--> PoolContract <--EXTENDS-- GlobalModule --EXTENDS--> CommandLine

    WsReader

Every `MC...` module instantiates the module it is named after for TLC, and every
`...Proofs` module extends the one it is named after with its theorems.
`SequenceLemmas` has the facts about sequence operators that several of them use: what
an append, a tail, a removal or a concatenation does to the elements of a sequence, how
a fold goes through one, and induction over numbers and sequences.

**ChannelLayer**. `sent[c]` is all that was ever sent on channel `c`, `popped[c]` the
last message `BLPOP` has taken, `expired[c]` the messages that were lost unread, with
their data key or with the list. `Send` and `Blpop` are atomic. `ReceiveMany` is spread
over the pump's actions: an entry whose data is gone is taken and answered like a
timeout, as the code does (it does not loop, RedisChannelLayer.cpp:88-92), and if all
that is left in a channel has been lost, `BLPOP` may find an entry or time out.
`ChannelSpec` is the layer on its own, with any number of messages lost at once.

**RedisChannelLayer**. The commands: `SET`, `EXPIRE`, `RPUSH` and `EXPIRE` of each
`Send`, `BLPOP` and `GET` of `ReceiveMany`, one action each, and `Tick`, by which every
key with an expiry gets a second older. A call of `Send` is its data key, so any number
of calls are under way at a time, each at its own command; one that crashes or loses its
connection takes no more steps. Redis's rules are part of the actions: a list is created
by its first entry and disappears with its last, together with its expiry. It implements
`ChannelLayer` with `popped` the last entry looked up, and `expired` the messages whose
data is gone or whose entry is neither in a list nor in the receiver's hand. One thing is
assumed: a `Send` is not held up between two commands for the 60 seconds its data lives
(guard of `Rpush`).

**ResponsePump**. The thread's program counter (`top`, `receive`, `dispatch`,
`exited`) marks where the mutex is free: `Snapshot` and `Dispatch` are the two
critical sections, and `ReceiveMessage` / `ReceiveTimeout` happen between them
without the lock, so `AddChannel` and `RemoveChannel` interleave with all of
them. A callback is the identity of the object it captured.

**ResponsePumpClients**. The pump with clients that use its whole interface at
any time and an owner that destroys it: what the pump promises by itself, beyond
what the HTTP handler happens to need.

**HttpRequestHandler**. One action per `Enter`, `OnAsyncCompletion` and
`GetNextStep` of every step. `HandlerStateMachine` is unrolled: `result[r]` is
the `StepResult` the loop is about to switch on, so between two actions of one
request anything else can happen, which allows every interleaving the code has.
A synchronous `OnAsyncCompletion` is part of the `Enter` that calls it. The PPL
tasks and pump callbacks are actions of their own (`RunSend`,
`RunSendContinuation`, `RunCallback`, `RunCallbackTail`) that carry the number of
the step they captured; using a step that is gone is undefined behaviour, and
its outcomes are a crashed worker process or nothing visible. Around it:

| action | stands for |
|---|---|
| `DeliverCompletion` | IIS: completion of the call in flight, or a posted one |
| `CleanupStoredContext` | IIS deletes the handler after *finish* |
| `AppReceive`, `AppSend` | the application: it may never answer, answer at any time, or go on after its final reply |
| `RequestExpires`, `ReplyExpires` | Redis lets a data key expire |

An entity body is the sequence of byte numbers, so that a byte put in the wrong
place is visible; a reply is the pair the handler looks at, *has content* and
`more_content`. A write of a chunk is one step because IIS takes all of it
(HttpRequestHandlerSteps.cpp:204-206). `unflushed[r]` is what of the response no flush
has taken: only a `Flush` that succeeds, at once or by its completion (`Flushed`), clears
it, and the completion of one that fails leaves it `"failed"`.

**AsgiResponse**. What an application may rely on, with no step, task or pump:
chunks appear in order and without gaps but for expired ones, the first chunk
without `more_content` closes the response, nothing else does but an I/O error.
`HttpRequestHandler` implements it under the mapping `ResponsePhase`
(`AsgiResponseRefinement`).

**WsConnection**. The WebSocket path: the connect pipeline (as above, unrolled),
`StartReaderWriter`, which `OnAsyncCompletion` calls on every completion, and then
the reader and the writer, which talk to the WebSocket module on its threads.
`starting[r]` is which of its two calls `StartReaderWriter` is in: `OnAsyncCompletion`
enters the reader's loop, which goes round on that thread for as long as `ReadFragment`
completes at once or fails, and only when one of them goes pending does `StartWriter`
start the writer and ask the step. `readers` holds every such loop with where it is:
reading, waiting, with a packed message, or in one of the two halves of `order += 1`,
each a step of its own, since no lock holds them together. `writing` and `write_io` count
the threads and calls inside the writer, so that two of them at once are visible. The
writer is the pump's second kind of client: `RunCallback` puts the message in hand
and enters the loop, `WriteAsync` is one turn of the loop and `WriteCallback` the
late completion of a write; both end in `WriteAsyncComplete`, which registers for
the next message. `Flush()` of the upgrade may
complete at once or later, and `WriteFragment()` may write less than asked, fail, or
complete later: the code has a branch for each. `upgrade`, `write_failed` and
`write_partial` remember what has happened, so that properties can say under which
of it they hold.

**WsReader**. One reader's buffer: bytes carry their message and place, so that
what is overwritten, stale or beyond the end of the buffer shows in what is sent.
A read may bring any number of bytes up to the size of the buffer, and failing
reads count what the caller passed or nothing. One that fails later may be marked final
all the same, and then what is counted is sent (`ReadFailsFinal`).

**ProcessPool**. The monitor thread step by step: `CreateSuspended`, `Assign`,
`Resume` and `Keep` or `GiveUp` for each missing process, then the wait, which
answers with the lowest terminated process or, if none, with the exit event. A
process is its handle; `open` are the handles not closed, which differs from the
vector where the move assignment of `ScopedResource` overwrites one. Processes
die at any moment and any number of times (a process that ended and is watched no more
is as good as a new one, `Forgotten`), `Stop` comes at any moment, and the worker process
may end without any of it. The size a pool is configured with is chosen in `Init`.

**PoolContract**. What a pool is to the rest: how many processes it was asked for,
which of them live, and that its end is theirs. `ProcessPool` implements it for one pool
(`PoolContractRefinement`).

**GlobalModule**. The vector of pools between the notifications of IIS and pools that
keep the contract. `LoadElement` is one turn of the loop in `LoadConfiguration`;
`LoadReturns` is possible before any of them, because a missing section, a failing call
and the end of the collection all return to IIS with what has been made so far.
`StopPool` and `PoolDestroyed` are the two halves of a pool's destructor, between which
the thread of IIS waits. A `count` is an `int` and becomes a `size_t`
(`NumProcesses`). IIS is assumed to give one notification at a time: the vector has no
lock.

**CommandLine**. `EscapeArgument`, the constructor's concatenation and the narrowing
copy, over sequences of character classes, and the reading side: the rules of
`CommandLineToArgvW` for an argument, and those for the name of the program. Only the
executable is escaped; the arguments are configured as a command line
(IntegrationTests/fixtures/iis.py, `escaped_arguments`). A character above 255 is told
apart by its low byte, which is all the copy keeps: a letter, a space, a quote, a
backslash, or a NUL, which ends the command line.

Only `Deliver` and `Close` of AsgiResponse are translated from a description of
the reply fields (AsgiHttpResponseMsg.h); the rest of that module is an abstract
specification and maps to no line.

## Runs

| run | instance | states | shows |
|---|---|---|---|
| `one_request` | 1 request, 3 replies of every kind, body of 3 bytes, fair | 156 000 | all properties of the HTTP handler and the refinement |
| `pump_clients` | 2 channels, 2 messages and 2 registrations each, fair | 793 000 | the pump's own contract |
| `ws` | 1 connection, 2 messages of 0 or 2 bytes, upgrades and writes of every outcome, fair | 373 000 | connect first, one reader, the writer holds one message or one registration, messages are taken |
| `reader` | 2 messages of up to 3 fragments, chunk of 4, threshold 1 | 1 375 000 | sizes, bounds and unfragmented messages |
| `pool` | pools of 2 and 3, up to 4 processes at a time, limit of 3 handles, fair | 205 000 | no stray process, refilling, the contract, `Stop` |
| `redis` | 3 messages on 2 lists, expiry of 2 and 3 seconds, fair clock | 403 000 | the commands implement the channel layer; lists outlive messages; Redis empties itself |
| `global` | 2 applications, up to 2 pools each of 0, 1, 2 and -1 processes; 310 command lines; fair | 359 000 | processes only as configured, command lines read back, stopping returns |

Five more runs show disagreements between the code and its comments, described
below: `callback_tail`, `ws_order`, `reader_fragments`, `pool_too_large` and
`global_lifetime`.

*Bounds.* `MaxMessages` (3): a first reply, a middle one and a final one, or a
final one and two more after it, each with its own content and expiry; every step
of the handler looks at one reply at a time, so a fourth adds no new situation.
`MaxBody` (3): a read can be split in two places, and a byte can be before,
inside and after it. `MaxRegistrations` (2): a registration and the one that
overwrites or follows it. One request is followed here; the proofs cover any number,
with any number of replies, for the wake-ups, the callbacks, the pump and the body.
Deadlock is not checked: when the application is silent or all is done, the system
rightly rests.

For WebSockets the application gets three messages at most (`MaxReceives` is 2, after the
first), which is enough for two loops of the reader to lose an increment and to send a
smaller number after a larger one. A message of two bytes can be written in two parts and one of none
in one, and two of them fill, empty and fill the writer again. The reader's chunk
of 4 and threshold of 1 keep the ratio of the code (`AsgiWsReceiveMsg.h:29-32`); a
buffer can grow twice, and the second message meets what the first has left;
`MaxBuffer` only limits how long failing reads are followed. The limit of 3 wait
handles stands for 64: the pool of two fits it with the exit event, the pool of
three exceeds it when it is full and fits while a process is missing. Four
processes at a time, any number one after the other, are enough for every place of either
pool to be refilled, again and again.

With three messages on two lists one Send can renew a list that holds the message of a
second while a third is between its RPUSH and its EXPIRE. Two seconds of expiry and three
for a list keep data and list apart by one, and let Sends start at different ages of each
other. Three pools are one fewer than two applications can have together, so an
application may also meet the pools another has left it no room for; `size_t` ends at 7,
so that -1 is more than a wait takes. Executables are all strings of up to three
characters of four classes, and of up to two with five classes of wide ones: every run of
backslashes up to two, before a quote, a space, another character and the end.

*Fairness.* IIS runs its threads and completes the calls it accepted
(`WF(Handler(r))` for each request), the PPL scheduler runs every task, and the
operating system runs the pump's thread. The application and Redis owe nothing:
expiry and replies are never forced. `BLPOP` has a timeout of one second, which is
why the pump's turn always ends (`ReceiveTimeout`). The same holds for a
WebSocket (`WF(Handler(r))`, `WF(Writer(r))`); its client and application owe
nothing, and neither does the reader, whose loop may go round for ever. For the pool only the monitor thread is fair: processes need not die and
`Stop` need not come. For Redis only the clock is: no Send need go on. IIS lets a
notification of the pool module go on (`WF(Module)`), and the join of a pool that fits
one wait returns if processes settle (`ProcessesSettle`), which is what `FittingPoolStops`
shows of such a pool.

*Premises of liveness properties.* Three things the code does not guarantee are stated in
the properties that need them. Without its premise each of these is violated on the same
instance:

- `FittingPoolStops` has `ProcessesStopDying`: the exit event is the last handle of the
  wait, and the wait answers with the first that is signalled (ProcessPool.cpp:64-82).
  An executable that ends at once can hide the event for ever;
- `StopReturns` has `ProcessesSettle`, the same of all pools, whose threads are joined;
- `EveryMessageIsTaken` has `ReaderStartReturns`: `m_writer.Start()` comes after
  `m_reader.Start()` (WsRequestHandler.cpp:57-58), and the loop of that does not end while
  `ReadFragment` fails or completes at once (WsReader.cpp:41-59). A connection that is
  broken when its reader starts spins there.

*Properties, by the hazard they are for.*

- A pending request has exactly one wake-up under way, nobody else any:
  `ExactlyOneWakeup`. The count goes over five places: a call in IIS, posted
  completions, the send task, the callback task and the pump's map.
- Captured `this`: `NoDanglingCallback`.
- The unlocked gap in the pump: `ReplyNeverDropped` for the HTTP handler,
  `DropsOnlyForRemovals`, `RegistrationFate` and `MessageFiresOnce` for anyone.
- Reads in pieces: `BodyForwardedWhole`.
- A reply hops through six places and is owned by one at a time: `NoReplyLost`,
  `FinalReplyEndsResponse`, and `AsgiResponseRefinement`, which has the order.
- Streaming: `StreamedBeforeWaiting`, which excepts a `Flush` that goes pending and then
  fails.
- Progress: `RequestReachesApplication`, `FinalReplyFinishesRequest`,
  `DestructorReturns`. The second excepts a request all of whose final replies
  expired: no timeout in the handler would wake it, and it stays pending for ever.

- The writer's two threads and its registration: `ListensOrWrites`,
  `EveryMessageIsTaken`, `WholeMessagesWithoutTrouble`.
- The connect message, the reader and the one hiredis connection of an
  `HttpModule`: `OrderCountsAfterPromptUpgrade`, `OneSenderAtATime`. They are about
  upgrades that complete at once; after one that completes later all of them fail, for
  the reason given with the first disagreement about WebSockets below.
  `EveryMessageIsTaken` holds for both.
- The reader's buffer: `UnfragmentedMessagesWhole`, `DataSizeIsTrue`,
  `BufferIsBounded`.
- A process made in three fallible steps while it may die, and an index that outlives
  its wait: `NoStrayProcess`, `TheDeadAreRemoved`; a pool and its processes as others see
  them: `PoolContractRefinement`; refilling and the end: `FullBeforeWaiting`,
  `FittingPoolStops`.
- Two keys for one message, four commands for one Send: `ChannelLayerRefinement`,
  `ListOutlivesItsMessages`, `NothingStaysForever`. The second has an exception the code
  allows: an entry pushed onto an old list can be lost, data and all, if the list runs
  out before the EXPIRE that follows the RPUSH. The third says what a broken off Send
  leaves behind for good.
- Applications that share a vector of pools, and a configuration that fails half way:
  `ProcessesOnlyAsConfigured`, `StopReturns`; backslashes and quotes:
  `CommandLineReadsBack`.

### A disagreement: the line after PostCompletion

`WaitForResponseStep`'s callback calls `PostCompletion(0)` and then logs through
`this->logger` (HttpRequestHandlerSteps.cpp:117-119). Once the completion is
posted, IIS may run `OnAsyncCompletion` and `GetNextStep` on another thread, which
destroys the step (and, after a final reply, the handler). In
`SendToApplicationStep` the order is the other way round, with the comment "The
tests rely on this being the last thing that the callback does" (line 88). The run
`callback_tail` shows the interleaving. The model keeps the two halves of the
callback apart (`RunCallback`, `RunCallbackTail`), and everything else is shown
with this behaviour included: where a property depends on it, the crash of the
worker is among the outcomes.

Plain from the source and without a run: the completion of a `Flush` that went pending
ignores its error (HttpRequestHandlerSteps.cpp:261-266), so the request goes on and waits
for the application with the data unflushed, where a `Flush` that fails at once ends it.

### Disagreements: WebSockets

- *Every completion starts the reader and the writer* (WsRequestHandler.cpp:46). If
  the upgrade completes later, its completion starts them before
  `SendConnectToApplicationStep` is entered, and the posted completion starts them
  again. `ws_order`: the application gets `order` 1 first, where
  AsgiWsReceiveMsg.h:15 has the connect message as number 0. Two loops of the reader then
  share one message, so numbers may be missing, come twice and go back.
- *Every fragment is read to the start of the buffer* (WsReader.cpp:46).
  `reader_fragments`: the second fragment overwrites the first. A read is always
  offered the whole buffer, so the count can also exceed it, and the body is then
  packed from beyond its end (`Outside` in module WsReader).

Plain from the source and without a run: the reader's loop does not end on an error, and
with it `StartReaderWriter` does not either (WsReader.cpp:49-58); a resumed write starts
over, because
WsWriter.cpp:68 passes the start of the data whatever `m_bytes_written` is (so
`WholeMessagesWithoutTrouble` excepts partial writes); a failed upgrade goes on, since the step
leaves `FAILED(hr)` to a caller that does not look at it
(WsRequestHandlerSteps.cpp:43); `m_asgi_send_msg.release()` does not delete the
message (WsWriter.cpp:107); the buffer may exceed the message by a chunk and the
threshold (`BufferIsBounded`), where the comment has a chunk
(AsgiWsReceiveMsg.h:20).

### Disagreements: process pool

- *A pool of 64 or more never stops* (`pool_too_large`): the wait fails every time,
  the failure is only logged, and the exit event is not seen
  (ProcessPool.cpp:71-96).
- *The stop of one application stops the pools of all* (`global_lifetime`):
  `OnGlobalApplicationStop` clears the one vector there is (GlobalModule.cpp:53), while
  ProcessPool/CMakeLists.txt:1 promises "a pool of processes with the same lifetime as
  the application pool". The applications that are still up get their pools back only
  when they are started again.

Plain from the source and without a run: `ScopedResource`'s move assignment does not
release what it held (ScopedResources.h:32-38), so `erase` leaks the handle of a dead
process unless it was the last one (`open` in module ProcessPool has it);
`ResumeThread` does not wait for the answer of `AssignProcessToJobObject`
(ProcessPool.cpp:128-129), so a process may run for a moment outside the job; a negative
`count` makes a pool of nearly 2^64 processes that never comes to its wait
(GlobalModule.cpp:117); the command line is cut to the low byte of each character
(ProcessPool.cpp:107-108, where the comment speaks of `CreateProcessW`); an empty
executable is not quoted and vanishes from the command line (ProcessPool.cpp:148). The
last two are in module CommandLine, and `CommandLineReadsBack` excepts them.

## Proofs

Seven components have a `...Proofs` module. Each proves `Spec => []IInv` for an inductive
invariant `IInv` (theorem `Invariance`), which TLC had confirmed on the runs' instances
first, `Spec => []TypeOK` (`TypeCorrect`), and the properties below, for every value of
the constants.

| module | theorem | statement |
|---|---|---|
| `HttpRequestHandlerProofs` | `OneWakeup` | `Spec => []ExactlyOneWakeup` |
| | `NoDangling` | `Spec => []NoDanglingCallback` |
| | `NeverDropped` | `Spec => []ReplyNeverDropped` |
| | `BodyWhole` | `Spec => []BodyForwardedWhole` |
| | `RepliesNotLost` | `Spec => []NoReplyLost` |
| | `FinalEnds` | `Spec => []FinalReplyEndsResponse` |
| | `Streamed` | `Spec => []StreamedBeforeWaiting` |
| | `NeverStuck` | `Spec => []PendingCanBeWoken`: a request whose final reply has not expired never waits with that reply behind it |
| | `KeepsResponseContract` | `Spec => AsgiResponseRefinement` |
| `ResponsePumpClientsProofs` | `Fate` | `Spec => []RegistrationFate` |
| | `FiresOnce` | `Spec => []MessageFiresOnce` |
| | `DropsPaidFor` | `Spec => []DropsOnlyForRemovals` |
| `RedisChannelLayerProofs` | `ListOutlives` | `Spec => ListOutlivesItsMessages` |
| | `ImplementsChannelLayer` | `Spec => ChannelLayerRefinement` |
| `WsConnectionProofs` | `PromptInOrder` | `Spec => []OrderCountsAfterPromptUpgrade` |
| | `PromptOneSender` | `Spec => []OneSenderAtATime` |
| | `PromptListensOrWrites` | `Spec => []ListensOrWrites` |
| | `WholeMessages` | `Spec => []WholeMessagesWithoutTrouble` |
| | `StartedAtMostTwice` | `Spec => []AtMostTwice`: however the upgrade completes, two starts of reader and writer at most and one until the connect task has posted, one loop of the reader for each, and one connect message at most |
| `WsReaderProofs` | `UnfragmentedWhole` | `Spec => []UnfragmentedMessagesWhole` |
| | `SizeIsTrue` | `Spec => []DataSizeIsTrue` |
| | `BufferBounded` | `Spec => []BufferIsBounded` |
| `ProcessPoolProofs` | `NoStray` | `Spec => []NoStrayProcess` |
| | `Full` | `Spec => []FullBeforeWaiting` |
| | `KeepsContract` | `Spec => PoolContractRefinement` |
| `GlobalModuleProofs` | `OnlyAsConfigured` | `Spec => []ProcessesOnlyAsConfigured` |
| | `ReadsBack` | `Spec => []CommandLineReadsBack` |

The refinements join the levels: `HttpRequestHandler`, `ResponsePumpClients` and
`WsConnection` are built on `ChannelLayer`, which the Redis commands are proved to
implement, and `GlobalModule` on `PoolContract`, which `ProcessPool` is proved to
implement.

### HTTP handler

*The inductive invariant.* None of the first four properties is inductive. That a
posted completion finds the step that asked for it depends on there being no
second one; that there is no second one depends on the pump erasing what it
dispatches; that the erased callback was the right one depends on the snapshot
the pump took some steps ago. `IInv` says all of it at once:

- `TypeOK`;
- `PumpOK`: whatever is in the pump's snapshot is registered still (this client
  never removes or overwrites), and a received message is one of them;
- for each request `RequestOK`, of three parts: `Wake`, that one of five
  situations holds for a pending request (IIS call out, posted completion, send
  task, callback task, callback registered), each *alone*, and for any other
  request none; `StepOK`, what each step knows of what it holds; and `BodyOK`,
  that the bytes before `m_body_bytes_read` are in place.

The counting in `ExactlyOneWakeup` is over sets of tasks; `Wake` states the same
with "the set of r's tasks is empty" and "is this singleton", which steps can be
proved about one request at a time, and a lemma goes from one to the other.

*The argument.* The frame lemmas say what a step of one request leaves alone in
another. Then there is one lemma per action (`ReadBodyEnterOK`, ...) that the
request it belongs to keeps `RequestOK`, and the steps of the pump and the
scheduler are split by the request they concern. `NextIInv` combines them.

*The replies.* A second invariant, `RInv` (theorem `ReplyInvariance`), stands on the
first one. `HistoryOK` says how far the client's copy is behind the channel: everything
up to the last reply read is written, skipped for want of content or expired, but for
the one reply in hand, and a reply before the last was never final. `StageOK` says for
each step whether its reply is still to be written, written and unflushed, or done with.
It needs the first invariant for "the one reply": that no second callback can bring
another while a step holds one. `RepliesNotLost`, `FinalEnds` and `Streamed` are read off
from it, and so is the refinement: the writes are `Deliver` and `Close` of
AsgiResponse because `HistoryOK` says what comes next, and all tasks and the pump are
stutters.

`NeverStuck` is the safety half of `FinalReplyFinishesRequest`, for any number of requests
and replies: while a request is held and a final reply of it has not expired, either a
completion or a task is under way, or its callback is registered and that reply is still
ahead of it, in the channel or in the pump's hands. That these then take their turn is fairness, and TLC's.

### Response pump

`IInv` is about one channel at a time. `RegistrationOK` shares the registrations out among
the map, the replaced, the removed and the tasks; `MessageOK` says that tasks have
messages of their own. For `DropsOnlyForRemovals` the number of dropped messages is not
enough: a removal while the pump is inside `ReceiveMany` is paid before the drop it
causes. `DropOK` therefore adds what the snapshot owes (`Owed`), one for a channel that
was polled and is not registered any more.

### Redis channel layer

`IInv` places every entry: `pushed[c]` is the messages whose Send is past its RPUSH, each
once; the list is its tail from some place on; an entry taken and not looked up is between
the last one read and that place. For expiry it compares: a list whose Sends are done
lasts at least as long as the data of each entry in it, because every Send renews it
after its push. `popped` and `expired` of the channel layer are functions of this state.
Every command but RPUSH, BLPOP, GET and Tick is a stutter of the channel layer; a Tick
is its `Expiry`, which is why that action loses any number of messages at once.

### WebSocket

`IInv` describes a connection up to its upgrade and after one that completed at once:
nothing under way (`Fresh`), the connect message on its way (`Connecting`), or one reader
and one writer at work (`Connected`), the writer in one of three states. `Connected` also
says that there is one loop and that the messages sent are counted up to where it is
(`OnlyLoop`). Of a connection whose
upgrade completed later it has only the types and `MessagesOK`, that whatever is
dispatched or in hand was sent, so that the types hold there too.

What is left after such an upgrade is a separate invariant, `StartsOK` (theorem
`StartsInvariance`). Until the connect message is on its way the upgrade's own completion
is the only one there can be (`BeforeConnect`), and the pipeline goes on only when
`StartWriter` has returned; after it only the posted one (`ConnectOnItsWay`). So there are
one and then two starts. `LoopsOK` is about the loops of the reader that come of them: one
for each start, for good, and none with the number 0, whatever two of them overwrite of
each other's `order`. Nothing more is true of the numbers: pack, Send() and the two halves
of `order += 1` interleave, and the application may see 1, 2, 1.

`SInv` (theorem `StreamInvariance`) follows the stream to the client: as long as no
write failed or wrote a part, the client has exactly the bytes of the messages read, but
for the one on its way, which is the last one read. "On its way" is in the pump, in a task
or in hand, and the pump can take the next one only when it is in none of these, because
then the writer is `Listening`.

In the reader's module the invariant adds to the three properties that a message without
a fragment has no bytes (`FirstFragment`): an unfragmented message is whole because the
count it starts from is zero, so the body packed is what its one read has put at the start
of the buffer.

### Process pool

`IInv` of the pool: a live process is in the vector, once, or in the hands of
`CreateProcess` (`WatchedOK`); it is in the job before it is in the vector (`JobOK`); and
vector, failures of this turn and processes still to make add up to the size of the pool
(`CountOK`). That the index the wait answers with is right rests on nobody but the thread
changing the vector. In `GlobalModule`, `VectorOK` says that the pools that exist are in
the vector, once, `MadeForOK` for which element each was made, and `LoadOK` that while an
application is loaded its pools are those of the elements behind `element_idx`. `LinesOK`
(theorem `Lines`) adds that a pool has the command line of its element.

*The command line.* `CommandLineReadsBack` is about executables of any length, so its
proof is an induction over the characters. The library's induction theorems cannot be
used (they take an operator as a parameter); `SequenceInduction` in SequenceLemmas is
about a set of sequences instead, and rests on the smallest element of a set of numbers
(`WFMin`). `EscapeArgument` is a fold. `FollowsFold` shows that a walk from state to state
that agrees with the fold's step at each character ends where the fold ends, and
`WalkAppend` takes a walk one character further. What is kept in step is `InQuotes`: after
any number of characters, the reader of what has been written stands where it would
after the argument itself, but for the backslashes held back, whose meaning the next
character decides. A closing quote then settles them. An executable with neither
space nor quote is written, and read, as it is.

### Assumptions

The bounds are natural numbers, the expiry and the chunk size positive ones. Sets of
channels, connections, processes, pools and applications may be infinite. `DataKeys` is
finite (`RedisAssumption`): their number is the bound on messages of the abstract channel
layer. A configuration is a sequence of elements as the schema describes them
(`GlobalAssumption`). The modules' constants carry no other assumptions; TLC evaluates
each of them in the runs.

### Only model-checked

- Liveness, which is out of the prover's reach: `RequestReachesApplication`,
  `FinalReplyFinishesRequest`, `DestructorReturns`, `EveryMessageIsTaken`,
  `TheDeadAreRemoved`, `FittingPoolStops`, `NothingStaysForever`, `StopReturns`.

## Not modelled, and why

- The conversion of headers, scheme, path and query string, and the msgpack
  layout of messages: data that no control depends on.
- Malformed replies: they throw in a PPL task whose exception nobody observes, which
  ends the process. A Redis that cannot be reached when the module starts ends it too.
- The race for the hiredis connection itself: two threads inside one context are
  undefined behaviour of any kind. `OneSenderAtATime` says where that cannot happen. The
  same goes for the message buffer that two loops of the reader share after an upgrade
  that completes later: of it only the `order` field is followed there.
- The empty keys `ReceiveMany` polls beside its channels (RedisChannelLayer.cpp:54):
  nothing of the program ever pushes to them.
- Starvation among channels: the models' sends are finite.
- `m_thread_stop`, a plain bool shared by two threads: the model reads it fresh at every
  turn; the calls inside the loop keep a compiler from caching it.
- Collisions of `NewChannel`: ten random characters; the model gives every
  request its own channel.
- Registration with IIS, the logger, the command line tool: no state of their own.
- The close of a WebSocket, which the code does not handle (WsReader.cpp:73,
  WsWriter.cpp:98), and what becomes of the connection then.
- Two notifications of IIS to `GlobalModule` at a time: its vector has no lock, so any
  overlap would be undefined behaviour.

## Plan

1. *Done*: ChannelLayer, ResponsePump, ResponsePumpClients, HttpRequestHandler,
   AsgiResponse, WsConnection, WsReader, ProcessPool, RedisChannelLayer, PoolContract,
   GlobalModule, CommandLine.
2. *Done*: the proofs above.
3. *Open*: what the client of a WebSocket gets after an upgrade that completes later,
   when two threads write from one buffer.

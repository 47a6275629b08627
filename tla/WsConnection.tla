---------------------------- MODULE WsConnection ----------------------------
(***************************************************************************)
(* A WebSocket connection (AsgiHandlerLib/WsRequestHandler.cpp and         *)
(* WsRequestHandlerSteps.cpp), with the control of its reader and writer   *)
(* (WsReader.cpp, WsWriter.cpp).  A connect pipeline of two steps accepts  *)
(* the upgrade and sends websocket.connect; the reader forwards what the   *)
(* client sends, the writer what the application sends, as the second      *)
(* client of the response pump.  What the reader does with its buffer is   *)
(* module WsReader.                                                        *)
(*                                                                         *)
(* Every connection has a channel of its own (NewChannel), so they are     *)
(* identified.  The pipeline is unrolled as in HttpRequestHandler.  Once   *)
(* connected, the request stays pending for good and its handler lives, so *)
(* the objects the callbacks captured live too.                            *)
(*                                                                         *)
(* A payload is the size of the message.  readers is a set, and writing    *)
(* and write_io are counts, because nothing keeps two threads from being   *)
(* inside the reader or the writer at once.                                *)
(***************************************************************************)
EXTENDS ResponsePump, SequencesExt

CONSTANTS
    MaxReceives      \* bound: messages to the application after the first

ASSUME WsAssumption ==
    /\ Payloads \subseteq Nat
    /\ MaxReceives \in Nat

Connections == Channels

VARIABLES
    worker,            \* the IIS worker process: "running" or "crashed"
    step,              \* [Connections -> the class of m_current_connect_step]
    result,            \* [Connections -> the StepResult in hand]
    io,                \* [Connections -> BOOLEAN] an asynchronous Flush() is out
    completions,       \* [Connections -> Nat] posted completions not yet delivered
    upgrade,           \* history: how the Flush() of the upgrade completed
    sends,             \* SendConnectToApplicationStep's PPL tasks
    starts,            \* [Connections -> Nat] calls of StartReaderWriter()
    starting,          \* [Connections -> which Start() such a call is in]
    readers,           \* each Start() of the reader, with where its loop is
    order,             \* [Connections -> Nat] m_msg.order
    to_application,    \* [Connections -> Seq(Nat)] the order field of what was sent
    writing,           \* [Connections -> Nat] threads in the loop of WriteAsync()
    write_io,          \* [Connections -> Nat] WriteFragment() calls out
    m_asgi_send_msg,   \* [Connections -> Nat] the message in hand, 0 for null
    m_bytes_written,   \* [Connections -> Nat]
    to_client,         \* [Connections -> Seq(byte)] what the client got
    write_failed,      \* history: [Connections -> BOOLEAN] a WriteFragment() failed
    write_partial      \* history: [Connections -> BOOLEAN] and one wrote a part only

connectVars == <<step, result, io, completions, upgrade, sends>>
readerVars == <<starts, starting, readers, order, to_application>>
writerVars == <<writing, write_io, m_asgi_send_msg, m_bytes_written, to_client,
                write_failed, write_partial>>
vars == <<channelVars, pumpVars, worker, connectVars, readerVars, writerVars>>

ConnectTypeOK ==
    /\ worker \in {"running", "crashed"}
    /\ step \in [Connections -> {"none", "AcceptWebSocket", "SendConnect", "destroyed"}]
    /\ result \in [Connections -> {"none", "AsyncPending", "Rerun", "GotoNext",
                                   "FinishRequest"}]
    /\ io \in [Connections -> BOOLEAN]
    /\ completions \in [Connections -> Nat]
    /\ upgrade \in [Connections -> {"none", "at_once", "later"}]
    /\ sends \subseteq [connection : Connections, pc : {"send", "post"}]

\* In ReadAsync(); with a ReadFragment() out; with a packed message; and, once that is
\* sent, before the two halves of order += 1.  order is what this loop has read of it.
ReaderLoops ==
    [connection : Connections, start : Nat, order : Nat,
     pc : {"read", "out", "send", "count", "store"}]

ReaderTypeOK ==
    /\ starts \in [Connections -> Nat]
    /\ starting \in [Connections -> {"none", "reader", "writer"}]
    /\ readers \subseteq ReaderLoops
    /\ order \in [Connections -> Nat]
    /\ to_application \in [Connections -> Seq(Nat)]

WriterTypeOK ==
    /\ writing \in [Connections -> Nat]
    /\ write_io \in [Connections -> Nat]
    /\ m_asgi_send_msg \in [Connections -> Nat]
    /\ m_bytes_written \in [Connections -> Nat]
    /\ to_client \in [Connections -> Seq((Nat \ {0}) \X (Nat \ {0}))]
    /\ write_failed \in [Connections -> BOOLEAN]
    /\ write_partial \in [Connections -> BOOLEAN]

TypeOK ==
    /\ ChannelTypeOK
    /\ PumpTypeOK
    /\ ConnectTypeOK
    /\ ReaderTypeOK
    /\ WriterTypeOK

Init ==
    /\ ChannelInit
    /\ PumpInit
    /\ worker = "running"
    /\ step = [r \in Connections |-> "none"]
    /\ result = [r \in Connections |-> "none"]
    /\ io = [r \in Connections |-> FALSE]
    /\ completions = [r \in Connections |-> 0]
    /\ upgrade = [r \in Connections |-> "none"]
    /\ sends = {}
    /\ starts = [r \in Connections |-> 0]
    /\ starting = [r \in Connections |-> "none"]
    /\ readers = {}
    /\ order = [r \in Connections |-> 1]
    /\ to_application = [r \in Connections |-> <<>>]
    /\ writing = [r \in Connections |-> 0]
    /\ write_io = [r \in Connections |-> 0]
    /\ m_asgi_send_msg = [r \in Connections |-> 0]
    /\ m_bytes_written = [r \in Connections |-> 0]
    /\ to_client = [r \in Connections |-> <<>>]
    /\ write_failed = [r \in Connections |-> FALSE]
    /\ write_partial = [r \in Connections |-> FALSE]

-----------------------------------------------------------------------------
(* The connect pipeline. *)

At(r, s, res) == worker = "running" /\ step[r] = s /\ result[r] = res

Return(r, res) == result' = [result EXCEPT ![r] = res]

Goto(r, s) == step' = [step EXCEPT ![r] = s] /\ Return(r, "Rerun")

PostCompletion(r) == completions' = [completions EXCEPT ![r] = @ + 1]

\* What the writer leaves with the pump; the object it captured is the writer.
RegisterChannelsCallback(r) == AddChannel(r, 1)

OnExecuteRequestHandler(r) ==
    /\ At(r, "none", "none")
    /\ Goto(r, "AcceptWebSocket")
    /\ UNCHANGED <<channelVars, pumpVars, worker, io, completions, upgrade, sends,
                   readerVars, writerVars>>

\* Flush() upgrades the connection: at once, later, or not at all.
AcceptWebSocketEnter(r) ==
    /\ At(r, "AcceptWebSocket", "Rerun")
    /\ \/ /\ upgrade' = [upgrade EXCEPT ![r] = "at_once"]
          /\ Return(r, "GotoNext")
          /\ UNCHANGED io
       \/ /\ upgrade' = [upgrade EXCEPT ![r] = "later"]
          /\ Return(r, "AsyncPending")
          /\ io' = [io EXCEPT ![r] = TRUE]
       \/ /\ Return(r, "FinishRequest")
          /\ UNCHANGED <<io, upgrade>>
    /\ UNCHANGED <<channelVars, pumpVars, worker, step, completions, sends, readerVars,
                   writerVars>>

AcceptWebSocketGetNextStep(r) ==
    /\ At(r, "AcceptWebSocket", "GotoNext")
    /\ Goto(r, "SendConnect")
    /\ UNCHANGED <<channelVars, pumpVars, worker, io, completions, upgrade, sends,
                   readerVars, writerVars>>

\* Mutant of SendConnectEnter: posts the completion without waiting for the task.
SendConnectEnterPosts(r) ==
    /\ At(r, "SendConnect", "Rerun")
    /\ sends' = sends \cup {[connection |-> r, pc |-> "send"]}
    /\ PostCompletion(r)
    /\ Return(r, "AsyncPending")
    /\ UNCHANGED <<channelVars, pumpVars, worker, step, io, upgrade, readerVars,
                   writerVars>>

\* create_task(Send).then(PostCompletion)
SendConnectEnter(r) ==
    /\ At(r, "SendConnect", "Rerun")
    /\ sends' = sends \cup {[connection |-> r, pc |-> "send"]}
    /\ Return(r, "AsyncPending")
    /\ UNCHANGED <<channelVars, pumpVars, worker, step, io, completions, upgrade,
                   readerVars, writerVars>>

\* The PPL task: Send("websocket.connect"), whose order field is 0.
RunSendConnect(t) ==
    /\ worker = "running"
    /\ t.pc = "send"
    /\ sends' = (sends \ {t}) \cup {[t EXCEPT !.pc = "post"]}
    /\ to_application' = [to_application EXCEPT ![t.connection] = Append(@, 0)]
    /\ UNCHANGED <<channelVars, pumpVars, worker, step, result, io, completions,
                   upgrade, starts, starting, readers, order, writerVars>>

RunSendConnectContinuation(t) ==
    /\ worker = "running"
    /\ t.pc = "post"
    /\ sends' = sends \ {t}
    /\ PostCompletion(t.connection)
    /\ UNCHANGED <<channelVars, pumpVars, worker, step, result, io, upgrade, readerVars,
                   writerVars>>

\* A completion enters StartReaderWriter(), and with it the reader's loop.
OnAsyncCompletion(r) ==
    /\ worker = "running"
    /\ result[r] = "AsyncPending"
    /\ starting[r] = "none"
    /\ starts' = [starts EXCEPT ![r] = @ + 1]
    /\ starting' = [starting EXCEPT ![r] = "reader"]
    /\ readers' = readers \cup
           {[connection |-> r, start |-> starts[r] + 1, order |-> 0, pc |-> "read"]}
    /\ \/ /\ io[r]
          /\ io' = [io EXCEPT ![r] = FALSE]
          /\ UNCHANGED completions
       \/ /\ completions[r] > 0
          /\ completions' = [completions EXCEPT ![r] = @ - 1]
          /\ UNCHANGED io
    /\ UNCHANGED <<channelVars, pumpVars, worker, step, result, upgrade, sends, order,
                   to_application, writerVars>>

\* Once m_reader.Start() is back: start the writer, and only then ask the step.  The
\* accept step goes on even when its Flush() failed, since it leaves the error to its
\* caller, which does not look at it either; the connect step keeps the request pending.
StartWriter(r) ==
    /\ worker = "running"
    /\ starting[r] = "writer"
    /\ starting' = [starting EXCEPT ![r] = "none"]
    /\ RegisterChannelsCallback(r)
    /\ Return(r, IF step[r] = "AcceptWebSocket" THEN "GotoNext" ELSE "AsyncPending")
    /\ UNCHANGED <<channelVars, worker, step, io, completions, upgrade, sends, starts,
                   readers, order, to_application, writerVars>>

\* IIS ends a request whose upgrade failed at once, and deletes the handler.
CleanupStoredContext(r) ==
    /\ worker = "running"
    /\ result[r] = "FinishRequest"
    /\ step' = [step EXCEPT ![r] = "destroyed"]
    /\ Return(r, "none")
    /\ UNCHANGED <<channelVars, pumpVars, worker, io, completions, upgrade, sends,
                   readerVars, writerVars>>

-----------------------------------------------------------------------------
(* The reader. *)

\* The loop x goes on as y.
LoopsOn(x, y) == readers' = (readers \ {x}) \cup {y}

LoopsOf(r) == {x \in readers : x.connection = r}

\* ReadFragment() brought the end of a message: pack it.
Pack(x) ==
    /\ Len(to_application[x.connection])
         + Cardinality({y \in LoopsOf(x.connection) : y.pc = "send"}) <= MaxReceives
    /\ LoopsOn(x, [x EXCEPT !.pc = "send", !.order = order[x.connection]])
    /\ UNCHANGED starting

\* One turn of ReadAsync()'s loop: ReadFragment() completes at once with the end of a
\* message, or will complete later, which ends the loop and, on the thread of the
\* completion that started it, m_reader.Start().  When it completes at once with another
\* fragment, or fails, the loop goes round and nothing here changes.
ReadAsync(x) ==
    /\ worker = "running"
    /\ x.pc = "read"
    /\ \/ Pack(x)
       \/ /\ LoopsOn(x, [x EXCEPT !.pc = "out"])
          /\ starting' = [starting EXCEPT ![x.connection] =
                             IF @ = "reader" /\ x.start = starts[x.connection]
                             THEN "writer" ELSE @]
    /\ UNCHANGED <<channelVars, pumpVars, worker, connectVars, starts, order,
                   to_application, writerVars>>

\* A ReadFragment() completes, on any thread: with the end of a message, or with another
\* fragment or an error.
ReadCallback(x) ==
    /\ worker = "running"
    /\ x.pc = "out"
    /\ \/ Pack(x)
       \/ LoopsOn(x, [x EXCEPT !.pc = "read"]) /\ UNCHANGED starting
    /\ UNCHANGED <<channelVars, pumpVars, worker, connectVars, starts, order,
                   to_application, writerVars>>

\* Send() what was packed.
ReaderSend(x) ==
    /\ worker = "running"
    /\ x.pc = "send"
    /\ LoopsOn(x, [x EXCEPT !.pc = "count"])
    /\ to_application' = [to_application EXCEPT ![x.connection] = Append(@, x.order)]
    /\ UNCHANGED <<channelVars, pumpVars, worker, connectVars, starts, starting, order,
                   writerVars>>

\* order += 1 is a read and a write, under no lock; then read on.
CountMessage(x) ==
    /\ worker = "running"
    /\ \/ /\ x.pc = "count"
          /\ LoopsOn(x, [x EXCEPT !.pc = "store", !.order = order[x.connection]])
          /\ UNCHANGED order
       \/ /\ x.pc = "store"
          /\ LoopsOn(x, [x EXCEPT !.pc = "read", !.order = 0])
          /\ order' = [order EXCEPT ![x.connection] = x.order + 1]
    /\ UNCHANGED <<channelVars, pumpVars, worker, connectVars, starts, starting,
                   to_application, writerVars>>

-----------------------------------------------------------------------------
(* The writer. *)

\* bytes.size() of the message in hand.
Size(r) == sent[r][m_asgi_send_msg[r]]

\* The num_bytes given to WriteFragment().
ToWrite(r) == Size(r) - m_bytes_written[r]

\* How many bytes WriteFragment() may report.
WriteCounts(r) ==
    IF ToWrite(r) > 0 THEN 1 .. ToWrite(r) ELSE {ToWrite(r)}

\* WriteFragment() sends the first k bytes of data().
Written(r, k) ==
    /\ to_client' = [to_client EXCEPT ![r] =
                         @ \o [p \in 1 .. k |-> <<m_asgi_send_msg[r], p>>]]
    /\ write_partial' = [write_partial EXCEPT ![r] = @ \/ k < ToWrite(r)]

\* The callback: keep the message, which deletes the one m_asgi_send_msg still owns, and
\* enter WriteAsync().
RunCallback(t) ==
    LET r == t.channel
    IN  /\ worker = "running"
        /\ TaskDone(t)
        /\ m_asgi_send_msg' = [m_asgi_send_msg EXCEPT ![r] = t.msg]
        /\ writing' = [writing EXCEPT ![r] = @ + 1]
        /\ UNCHANGED <<channelVars, worker, connectVars, readerVars, write_io,
                       m_bytes_written, to_client, write_failed, write_partial>>

\* Mutant of WriteAsyncComplete: the count of one message is kept for the next.
WriteAsyncCompleteKeepsCount(r, k, more) ==
    /\ m_bytes_written' = [m_bytes_written EXCEPT ![r] = @ + k]
    /\ IF m_bytes_written[r] + k >= Size(r)
       THEN /\ m_asgi_send_msg' = [m_asgi_send_msg EXCEPT ![r] = 0]
            /\ RegisterChannelsCallback(r)
            /\ more = 0
       ELSE /\ UNCHANGED <<m_asgi_send_msg, pumpVars>>
            /\ more = 1

\* Mutant of WriteAsyncComplete: listens again after every fragment.
WriteAsyncCompleteRegisters(r, k, more) ==
    /\ RegisterChannelsCallback(r)
    /\ IF m_bytes_written[r] + k >= Size(r)
       THEN /\ m_asgi_send_msg' = [m_asgi_send_msg EXCEPT ![r] = 0]
            /\ m_bytes_written' = [m_bytes_written EXCEPT ![r] = 0]
            /\ more = 0
       ELSE /\ m_bytes_written' = [m_bytes_written EXCEPT ![r] = @ + k]
            /\ UNCHANGED m_asgi_send_msg
            /\ more = 1

\* Mutant of WriteAsyncComplete: does not listen for the next message.
WriteAsyncCompleteForgets(r, k, more) ==
    /\ UNCHANGED pumpVars
    /\ IF m_bytes_written[r] + k >= Size(r)
       THEN /\ m_asgi_send_msg' = [m_asgi_send_msg EXCEPT ![r] = 0]
            /\ m_bytes_written' = [m_bytes_written EXCEPT ![r] = 0]
            /\ more = 0
       ELSE /\ m_bytes_written' = [m_bytes_written EXCEPT ![r] = @ + k]
            /\ UNCHANGED m_asgi_send_msg
            /\ more = 1

\* Count k bytes; when the message is done, release() it, which does not delete it, and
\* listen for the next one.
\* more is the threads that go on writing: the truth value it returns.
WriteAsyncComplete(r, k, more) ==
    IF m_bytes_written[r] + k >= Size(r)
    THEN /\ m_asgi_send_msg' = [m_asgi_send_msg EXCEPT ![r] = 0]
         /\ m_bytes_written' = [m_bytes_written EXCEPT ![r] = 0]
         /\ RegisterChannelsCallback(r)
         /\ more = 0
    ELSE /\ m_bytes_written' = [m_bytes_written EXCEPT ![r] = @ + k]
         /\ UNCHANGED <<m_asgi_send_msg, pumpVars>>
         /\ more = 1

\* The message in hand is null and is dereferenced.
NullMessage(r) ==
    /\ m_asgi_send_msg[r] = 0
    /\ worker' = "crashed"
    /\ UNCHANGED <<pumpVars, writing, write_io, m_asgi_send_msg, m_bytes_written,
                   to_client, write_failed, write_partial>>

\* One turn of WriteAsync()'s loop: WriteFragment() completes at once, or fails, which
\* is only logged and then counts as a success, or will complete later.
WriteAsync(r) ==
    /\ worker = "running"
    /\ writing[r] > 0
    /\ \/ NullMessage(r)
       \/ /\ m_asgi_send_msg[r] # 0
          /\ \/ /\ \E more \in {0, 1} :
                      /\ writing' = [writing EXCEPT ![r] = @ - 1 + more]
                      /\ \/ /\ \E k \in WriteCounts(r) :
                                  Written(r, k) /\ WriteAsyncComplete(r, k, more)
                            /\ UNCHANGED write_failed
                         \/ /\ WriteAsyncComplete(r, ToWrite(r), more)
                            /\ write_failed' = [write_failed EXCEPT ![r] = TRUE]
                            /\ UNCHANGED <<to_client, write_partial>>
                /\ UNCHANGED write_io
             \/ /\ writing' = [writing EXCEPT ![r] = @ - 1]
                /\ write_io' = [write_io EXCEPT ![r] = @ + 1]
                /\ UNCHANGED <<pumpVars, m_asgi_send_msg, m_bytes_written, to_client,
                               write_failed, write_partial>>
          /\ UNCHANGED worker
    /\ UNCHANGED <<channelVars, connectVars, readerVars>>

\* A WriteFragment() completes: with bytes, or with an error and none.
WriteCallback(r) ==
    /\ worker = "running"
    /\ write_io[r] > 0
    /\ \/ NullMessage(r)
       \/ /\ m_asgi_send_msg[r] # 0
          /\ write_io' = [write_io EXCEPT ![r] = @ - 1]
          /\ \E more \in {0, 1} :
                /\ writing' = [writing EXCEPT ![r] = @ + more]
                /\ \/ /\ \E k \in WriteCounts(r) :
                            Written(r, k) /\ WriteAsyncComplete(r, k, more)
                      /\ UNCHANGED write_failed
                   \/ /\ WriteAsyncComplete(r, 0, more)
                      /\ write_failed' = [write_failed EXCEPT ![r] = TRUE]
                      /\ UNCHANGED <<to_client, write_partial>>
          /\ UNCHANGED worker
    /\ UNCHANGED <<channelVars, connectVars, readerVars>>

-----------------------------------------------------------------------------
(* The application, which knows the channel from the first message it gets, Redis,  *)
(* and the pump.                                                                    *)

AppSend(r, m) ==
    /\ to_application[r] # <<>>
    /\ Send(r, m)
    /\ UNCHANGED <<pumpVars, worker, connectVars, readerVars, writerVars>>

ReplyExpires(r) ==
    /\ \E i \in 1 .. MaxMessages : Expire(r, i)
    /\ UNCHANGED <<pumpVars, worker, connectVars, readerVars, writerVars>>

Pump ==
    /\ worker = "running"
    /\ PumpLoop
    /\ UNCHANGED <<worker, connectVars, readerVars, writerVars>>

Handler(r) ==
    \/ AcceptWebSocketEnter(r)
    \/ AcceptWebSocketGetNextStep(r)
    \/ SendConnectEnter(r)
    \/ OnAsyncCompletion(r)
    \/ StartWriter(r)
    \/ CleanupStoredContext(r)

Scheduler ==
    \/ \E t \in sends : RunSendConnect(t)
    \/ \E t \in sends : RunSendConnectContinuation(t)
    \/ \E t \in tasks : RunCallback(t)

Reader(x) ==
    \/ ReadAsync(x)
    \/ ReadCallback(x)
    \/ ReaderSend(x)
    \/ CountMessage(x)

Writer(r) == WriteAsync(r) \/ WriteCallback(r)

Next ==
    \/ \E r \in Connections :
          \/ OnExecuteRequestHandler(r)
          \/ Handler(r)
          \/ Writer(r)
          \/ \E m \in Payloads : AppSend(r, m)
          \/ ReplyExpires(r)
    \/ \E x \in readers : Reader(x)
    \/ Scheduler
    \/ Pump

Spec == Init /\ [][Next]_vars

\* IIS and the WebSocket module complete their calls, the scheduler runs every task,
\* and the pump thread is never starved.  Neither client nor application owe anything,
\* and a reader's loop may go round for ever.
FairSpec ==
    /\ Spec
    /\ \A r \in Connections : WF_vars(Handler(r)) /\ WF_vars(Writer(r))
    /\ WF_vars(Scheduler)
    /\ WF_vars(Pump)

-----------------------------------------------------------------------------

\* The order fields the application sees count up from 0.
InOrder(r) ==
    \A k \in 1 .. Len(to_application[r]) : to_application[r][k] = k - 1

\* "`order` starts at 1 as AsgiWsConnectMsg is the 0th message"
\* (AsgiWsReceiveMsg.h:15): websocket.connect comes first and no message is repeated.
OrderCounts == \A r \in Connections : InOrder(r)

\* After an upgrade that completes at once that is so, though connect is sent by a PPL
\* task and the rest by the WebSocket module's threads.
OrderCountsAfterPromptUpgrade ==
    \A r \in Connections : upgrade[r] = "at_once" => InOrder(r)

\* After such an upgrade the reader is started once, and only when websocket.connect has
\* been sent: never are two of its threads or ReadFragment() calls at work on the one
\* message buffer and its order (WsReader.cpp:36-101 takes no lock), nor the reader and
\* the PPL task of connect, which both send through the RedisChannelLayer of the same
\* HttpModule (HttpModule.h:35) and its one hiredis connection.
OneSenderAtATime ==
    \A r \in Connections : upgrade[r] = "at_once" =>
        Cardinality(LoopsOf(r))
          + Cardinality({t \in sends : t.connection = r /\ t.pc = "send"}) <= 1

\* StartReaderWriter() has returned.
Started(r) == starts[r] > 0 /\ starting[r] = "none"

\* After such an upgrade a started writer is either listening, about to be called, or
\* busy with the one message it has, and exactly one of these, though WriteAsync() and
\* WriteCallback() run on different threads and both register for the next message.
ListensOrWrites ==
    \A r \in Connections : upgrade[r] = "at_once" =>
        /\ Cardinality({t \in tasks : t.channel = r}) + writing[r] + write_io[r]
             + (IF r \in Registered THEN 1 ELSE 0) = IF Started(r) THEN 1 ELSE 0
        /\ m_asgi_send_msg[r] # 0 <=> writing[r] + write_io[r] > 0

\* The bytes of the first n messages, without those that were lost.
BytesOf(r, n) == UNION {{i} \X (1 .. sent[r][i]) : i \in (1 .. n) \ expired[r]}

\* Byte a comes before byte b.
Before(a, b) == a[1] < b[1] \/ (a[1] = b[1] /\ a[2] < b[2])

\* The writer waits for a message and the pump has none for it.
Idle(r) == r \in Registered /\ \A d \in received : d.channel # r

\* The client gets the bytes of the messages read from r's channel in order and each
\* once, without a gap, and all of them before the writer waits for the next message.
Whole(r) ==
    /\ \A j, k \in DOMAIN to_client[r] : j < k => Before(to_client[r][j], to_client[r][k])
    /\ ToSet(to_client[r]) \subseteq BytesOf(r, popped[r])
    /\ \A b \in ToSet(to_client[r]) : \A a \in BytesOf(r, popped[r]) :
          Before(a, b) => a \in ToSet(to_client[r])
    /\ Idle(r) => ToSet(to_client[r]) = BytesOf(r, popped[r])

\* So it is as long as nothing goes wrong: a prompt upgrade, and writes that succeed
\* and write all they are given, now or later.
WholeMessagesWithoutTrouble ==
    \A r \in Connections :
        upgrade[r] = "at_once" /\ ~write_failed[r] /\ ~write_partial[r] => Whole(r)

\* The thread of a completion comes back from m_reader.Start().
ReaderStartReturns(r) == []<>(starting[r] # "reader")

\* Whatever the application sends is taken off the channel sooner or later, message
\* after message, even if reader and writer were started twice, unless writing to the
\* client fails.  The exception is a connection whose reader is never back from Start():
\* m_writer.Start() is called after it (WsRequestHandler.cpp:57-58), and its loop goes
\* round for as long as ReadFragment() fails or completes at once (WsReader.cpp:41-59).
EveryMessageIsTaken ==
    \A r \in Connections : \A i \in 1 .. MaxMessages :
        ReaderStartReturns(r) =>
            (Len(sent[r]) >= i ~>
                popped[r] >= i \/ i \in expired[r] \/ write_failed[r]
                  \/ worker = "crashed")

=============================================================================

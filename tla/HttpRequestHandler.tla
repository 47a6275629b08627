------------------------- MODULE HttpRequestHandler -------------------------
(***************************************************************************)
(* An HTTP request on its way through the module: the request handler and  *)
(* its five steps (AsgiHandlerLib/HttpRequestHandler.cpp,                  *)
(* HttpRequestHandlerSteps.cpp), the loop that drives the steps            *)
(* (RequestHandler.cpp), the PPL tasks they start, the response pump, and  *)
(* around them IIS and the application.                                    *)
(*                                                                         *)
(* Every request has a reply channel of its own (NewChannel), so a request *)
(* is identified with its reply channel.                                   *)
(*                                                                         *)
(* HandlerStateMachine is unrolled: result[r] is the StepResult it is      *)
(* about to switch on.  "Rerun" means the current step's Enter() is next,  *)
(* "GotoNext" its GetNextStep(), "AsyncPending" that IIS holds the request *)
(* until a completion, "FinishRequest" that IIS is to finish it.  IIS runs *)
(* one notification of a request at a time: a completion that arrives      *)
(* while a thread is still inside the handler waits for it to return.      *)
(*                                                                         *)
(* A lambda captures `this`, the step: step_id[r] numbers the step objects *)
(* of a request, and a task that holds another number than the current one *)
(* holds a dangling pointer.  Using one is undefined: the worker process   *)
(* may crash or get away with it.                                          *)
(***************************************************************************)
EXTENDS ResponsePump, FiniteSets

CONSTANT MaxBody      \* bound: bytes of a request's entity body

ASSUME BodyAssumption == MaxBody \in Nat

Requests == Channels

VARIABLES
    worker,               \* the IIS worker process: "running" or "crashed"
    step,                 \* [Requests -> the class of m_current_step]
    step_id,              \* [Requests -> Nat] the identity of that object
    result,               \* [Requests -> the StepResult in hand]
    remaining,            \* [Requests -> Nat] GetRemainingEntityBytes()
    m_body_bytes_read,    \* [Requests -> Nat]
    body,                 \* [Requests -> Seq(Nat)] which entity byte is where in body
    m_asgi_response_msg,  \* [Requests -> Nat] the reply in hand, 0 for null
    io,                   \* [Requests -> BOOLEAN] an asynchronous IIS call is out
    completions,          \* [Requests -> Nat] posted completions not yet delivered
    io_failed,            \* [Requests -> BOOLEAN] the handler saw a FAILED hr
    written,              \* [Requests -> Seq(Nat)] the replies given to IIS to send
    unflushed,            \* [Requests -> what of the response no flush has taken: "none",
                          \* "data" or headers, or "failed": what a failed one left]
    request,              \* [Requests -> where the http.request message is]
    sends,                \* SendToApplicationStep's PPL tasks
    tails                 \* callbacks that have called PostCompletion, not returned

bodyVars == <<remaining, m_body_bytes_read, body>>
responseVars == <<io_failed, written, unflushed>>
taskVars == <<sends, tails>>
handlerVars == <<step, step_id, result, m_asgi_response_msg>>
vars == <<channelVars, pumpVars, worker, handlerVars, bodyVars, responseVars,
          io, completions, request, taskVars>>

Steps == {"ReadBody", "SendToApplication", "WaitForResponse", "WriteResponse",
          "FlushResponse"}

HandlerTypeOK ==
    /\ worker \in {"running", "crashed"}
    /\ step \in [Requests -> Steps \cup {"none", "destroyed"}]
    /\ step_id \in [Requests -> Nat]
    /\ result \in [Requests -> {"none", "AsyncPending", "Rerun", "GotoNext",
                                "FinishRequest"}]
    /\ m_asgi_response_msg \in [Requests -> Nat]
    /\ io \in [Requests -> BOOLEAN]
    /\ completions \in [Requests -> Nat]
    /\ request \in [Requests -> {"unsent", "queued", "lost", "taken"}]

BodyTypeOK ==
    /\ remaining \in [Requests -> Nat]
    /\ m_body_bytes_read \in [Requests -> Nat]
    /\ body \in [Requests -> Seq(Nat)]

ResponseTypeOK ==
    /\ io_failed \in [Requests -> BOOLEAN]
    /\ written \in [Requests -> Seq(Nat)]
    /\ unflushed \in [Requests -> {"none", "data", "failed"}]

TaskTypeOK ==
    /\ sends \subseteq [request : Requests, step : Nat, pc : {"send", "post"}]
    /\ tails \subseteq [request : Requests, step : Nat]

TypeOK ==
    /\ ChannelTypeOK
    /\ PumpTypeOK
    /\ HandlerTypeOK
    /\ BodyTypeOK
    /\ ResponseTypeOK
    /\ TaskTypeOK

Init ==
    /\ ChannelInit
    /\ PumpInit
    /\ worker = "running"
    /\ step = [r \in Requests |-> "none"]
    /\ step_id = [r \in Requests |-> 0]
    /\ result = [r \in Requests |-> "none"]
    /\ remaining = [r \in Requests |-> 0]
    /\ m_body_bytes_read = [r \in Requests |-> 0]
    /\ body = [r \in Requests |-> <<>>]
    /\ m_asgi_response_msg = [r \in Requests |-> 0]
    /\ io = [r \in Requests |-> FALSE]
    /\ completions = [r \in Requests |-> 0]
    /\ io_failed = [r \in Requests |-> FALSE]
    /\ written = [r \in Requests |-> <<>>]
    /\ unflushed = [r \in Requests |-> "none"]
    /\ request = [r \in Requests |-> "unsent"]
    /\ sends = {}
    /\ tails = {}

-----------------------------------------------------------------------------
(* Building blocks. *)

\* The handler is at this point of the state machine, in a live process.
At(r, s, res) == worker = "running" /\ step[r] = s /\ result[r] = res

Return(r, res) == result' = [result EXCEPT ![r] = res]

\* The object a lambda captured is still m_current_step.
Live(r, id) == step[r] \in Steps /\ step_id[r] = id

\* step = step->GetNextStep(): the old object is destroyed, and Enter() is next.
Goto(r, s) ==
    /\ step' = [step EXCEPT ![r] = s]
    /\ step_id' = [step_id EXCEPT ![r] = @ + 1]
    /\ Return(r, "Rerun")

Fail(r) ==
    /\ io_failed' = [io_failed EXCEPT ![r] = TRUE]
    /\ Return(r, "FinishRequest")

PostCompletion(r) == completions' = [completions EXCEPT ![r] = @ + 1]

\* IIS delivers a completion of r: of the call in flight, or a posted one.
DeliverCompletion(r) ==
    \/ /\ io[r]
       /\ io' = [io EXCEPT ![r] = FALSE]
       /\ UNCHANGED completions
    \/ /\ completions[r] > 0
       /\ completions' = [completions EXCEPT ![r] = @ - 1]
       /\ UNCHANGED io

\* The outcomes of using a pointer to a destroyed object: a crash, or nothing.
UndefinedBehaviour == worker' \in {"running", "crashed"}

-----------------------------------------------------------------------------
(* IIS hands the request to the module and takes the finished one back. *)

\* OnExecuteRequestHandler: build the message, with a body as large as the entity,
\* and enter the first step.
OnExecuteRequestHandler(r) ==
    /\ At(r, "none", "none")
    /\ \E n \in 0 .. MaxBody :
          /\ remaining' = [remaining EXCEPT ![r] = n]
          /\ body' = [body EXCEPT ![r] = [p \in 1 .. n |-> 0]]
    /\ m_body_bytes_read' = [m_body_bytes_read EXCEPT ![r] = 0]
    /\ Goto(r, "ReadBody")
    /\ UNCHANGED <<channelVars, pumpVars, worker, m_asgi_response_msg, responseVars,
                   io, completions, request, taskVars>>

\* RQ_NOTIFICATION_FINISH_REQUEST: IIS ends the request and deletes the handler
\* with its current step.
CleanupStoredContext(r) ==
    /\ worker = "running"
    /\ result[r] = "FinishRequest"
    /\ step' = [step EXCEPT ![r] = "destroyed"]
    /\ Return(r, "none")
    /\ m_asgi_response_msg' = [m_asgi_response_msg EXCEPT ![r] = 0]
    /\ UNCHANGED <<channelVars, pumpVars, worker, step_id, bodyVars, responseVars,
                   io, completions, request, taskVars>>

-----------------------------------------------------------------------------
(* ReadBodyStep *)

\* Mutant of BodyOffset: every read starts at the front of the body.
BodyOffsetZero(r) == 0

\* Where in body.data() a read puts its bytes.
BodyOffset(r) == m_body_bytes_read[r]

\* Mutant of AfterRead: waits for a read nobody started.
AfterReadPending(r, n) == IF remaining[r] > n THEN "AsyncPending" ELSE "GotoNext"

\* OnAsyncCompletion's verdict on a read of n bytes.
AfterRead(r, n) == IF remaining[r] > n THEN "Rerun" ELSE "GotoNext"

\* IIS has put the next n bytes of the entity into the body.
ReadBytes(r, n) ==
    LET offset == BodyOffset(r)
        first == Len(body[r]) - remaining[r]
    IN  /\ body' = [body EXCEPT ![r] =
              [p \in 1 .. Len(body[r]) |->
                  IF p \in (offset + 1) .. (offset + n) THEN first + (p - offset)
                                                        ELSE body[r][p]]]
        /\ remaining' = [remaining EXCEPT ![r] = @ - n]
        /\ m_body_bytes_read' = [m_body_bytes_read EXCEPT ![r] = @ + n]
        /\ Return(r, AfterRead(r, n))

\* One turn of Enter()'s loop: nothing to read, an asynchronous read, a read that
\* completes at once, or an error.
ReadBodyEnter(r) ==
    /\ At(r, "ReadBody", "Rerun")
    /\ \/ /\ remaining[r] = 0
          /\ Return(r, "GotoNext")
          /\ UNCHANGED <<io, io_failed, bodyVars>>
       \/ /\ remaining[r] > 0
          /\ io' = [io EXCEPT ![r] = TRUE]
          /\ Return(r, "AsyncPending")
          /\ UNCHANGED <<io_failed, bodyVars>>
       \/ /\ \E n \in 1 .. remaining[r] : ReadBytes(r, n)
          /\ UNCHANGED <<io, io_failed>>
       \/ /\ remaining[r] > 0
          /\ Fail(r)
          /\ UNCHANGED <<io, bodyVars>>
    /\ UNCHANGED <<channelVars, pumpVars, worker, step, step_id, m_asgi_response_msg,
                   written, unflushed, completions, request, taskVars>>

ReadBodyOnAsyncCompletion(r) ==
    /\ At(r, "ReadBody", "AsyncPending")
    /\ DeliverCompletion(r)
    /\ \/ Fail(r) /\ UNCHANGED bodyVars
       \/ (\E n \in 1 .. remaining[r] : ReadBytes(r, n)) /\ UNCHANGED io_failed
    /\ UNCHANGED <<channelVars, pumpVars, worker, step, step_id, m_asgi_response_msg,
                   written, unflushed, request, taskVars>>

\* The request message moves on to the next step.
ReadBodyGetNextStep(r) ==
    /\ At(r, "ReadBody", "GotoNext")
    /\ Goto(r, "SendToApplication")
    /\ UNCHANGED <<channelVars, pumpVars, worker, m_asgi_response_msg, bodyVars,
                   responseVars, io, completions, request, taskVars>>

-----------------------------------------------------------------------------
(* SendToApplicationStep *)

\* create_task(Send).then(PostCompletion), both capturing this.
SendToApplicationEnter(r) ==
    /\ At(r, "SendToApplication", "Rerun")
    /\ sends' = sends \cup {[request |-> r, step |-> step_id[r], pc |-> "send"]}
    /\ Return(r, "AsyncPending")
    /\ UNCHANGED <<channelVars, pumpVars, worker, step, step_id, m_asgi_response_msg,
                   bodyVars, responseVars, io, completions, request, tails>>

SendToApplicationOnAsyncCompletion(r) ==
    /\ At(r, "SendToApplication", "AsyncPending")
    /\ DeliverCompletion(r)
    /\ Return(r, "GotoNext")
    /\ UNCHANGED <<channelVars, pumpVars, worker, step, step_id, m_asgi_response_msg,
                   bodyVars, responseVars, request, taskVars>>

SendToApplicationGetNextStep(r) ==
    /\ At(r, "SendToApplication", "GotoNext")
    /\ Goto(r, "WaitForResponse")
    /\ UNCHANGED <<channelVars, pumpVars, worker, m_asgi_response_msg, bodyVars,
                   responseVars, io, completions, request, taskVars>>

\* The PPL task: Send("http.request") of the message the step holds.
RunSend(t) ==
    /\ worker = "running"
    /\ t.pc = "send"
    /\ sends' = (sends \ {t}) \cup {[t EXCEPT !.pc = "post"]}
    /\ IF Live(t.request, t.step)
       THEN /\ request' = [request EXCEPT ![t.request] = "queued"]
            /\ UNCHANGED worker
       ELSE UndefinedBehaviour /\ UNCHANGED request
    /\ UNCHANGED <<channelVars, pumpVars, handlerVars, bodyVars, responseVars, io,
                   completions, tails>>

\* Its continuation; PostCompletion is the last thing it does.
RunSendContinuation(t) ==
    /\ worker = "running"
    /\ t.pc = "post"
    /\ sends' = sends \ {t}
    /\ IF Live(t.request, t.step)
       THEN PostCompletion(t.request) /\ UNCHANGED worker
       ELSE UndefinedBehaviour /\ UNCHANGED completions
    /\ UNCHANGED <<channelVars, pumpVars, handlerVars, bodyVars, responseVars, io,
                   request, tails>>

-----------------------------------------------------------------------------
(* WaitForResponseStep *)

WaitForResponseEnter(r) ==
    /\ At(r, "WaitForResponse", "Rerun")
    /\ AddChannel(r, step_id[r])
    /\ Return(r, "AsyncPending")
    /\ UNCHANGED <<channelVars, worker, step, step_id, m_asgi_response_msg, bodyVars,
                   responseVars, io, completions, request, taskVars>>

\* The callback, up to and including PostCompletion: it stores the message in the
\* step it captured.
RunCallback(t) ==
    LET r == t.channel
    IN  /\ worker = "running"
        /\ TaskDone(t)
        /\ IF Live(r, t.callback)
           THEN /\ m_asgi_response_msg' = [m_asgi_response_msg EXCEPT ![r] = t.msg]
                /\ PostCompletion(r)
                /\ tails' = tails \cup {[request |-> r, step |-> t.callback]}
                /\ UNCHANGED worker
           ELSE UndefinedBehaviour /\ UNCHANGED <<m_asgi_response_msg, completions, tails>>
        /\ UNCHANGED <<channelVars, step, step_id, result, bodyVars, responseVars, io,
                       request, sends>>

\* The rest of the callback: one more use of this->logger.
RunCallbackTail(t) ==
    /\ worker = "running"
    /\ tails' = tails \ {t}
    /\ IF Live(t.request, t.step) THEN UNCHANGED worker ELSE UndefinedBehaviour
    /\ UNCHANGED <<channelVars, pumpVars, handlerVars, bodyVars, responseVars, io,
                   completions, request, sends>>

\* The reply the current step holds.
Reply(r) == sent[r][m_asgi_response_msg[r]]

\* Mutant of AfterReply: a reply without content ends the response.
AfterReplyWithContent(r) == IF Reply(r).content THEN "GotoNext" ELSE "FinishRequest"

\* OnAsyncCompletion's verdict on a reply.
AfterReply(r) ==
    IF Reply(r).content \/ Reply(r).more_content THEN "GotoNext" ELSE "FinishRequest"

\* Status and headers go to IIS; an empty last message ends the request.  A null
\* m_asgi_response_msg is dereferenced.
WaitForResponseOnAsyncCompletion(r) ==
    /\ At(r, "WaitForResponse", "AsyncPending")
    /\ DeliverCompletion(r)
    /\ IF m_asgi_response_msg[r] = 0
       THEN worker' = "crashed" /\ UNCHANGED <<result, unflushed>>
       ELSE /\ unflushed' = [unflushed EXCEPT ![r] = "data"]
            /\ Return(r, AfterReply(r))
            /\ UNCHANGED worker
    /\ UNCHANGED <<channelVars, pumpVars, step, step_id, m_asgi_response_msg, bodyVars,
                   io_failed, written, request, taskVars>>

\* Mutant of HeadersOnly: forgets to look for content.
HeadersOnlyWithMore(r) == Reply(r).more_content

\* A first chunk that carries no content.
HeadersOnly(r) == ~Reply(r).content /\ Reply(r).more_content

\* A chunk without content only flushes the headers; otherwise the message moves on
\* to the step that writes it.
WaitForResponseGetNextStep(r) ==
    /\ At(r, "WaitForResponse", "GotoNext")
    /\ IF HeadersOnly(r)
       THEN /\ Goto(r, "FlushResponse")
            /\ m_asgi_response_msg' = [m_asgi_response_msg EXCEPT ![r] = 0]
       ELSE Goto(r, "WriteResponse") /\ UNCHANGED m_asgi_response_msg
    /\ UNCHANGED <<channelVars, pumpVars, worker, bodyVars, responseVars, io,
                   completions, request, taskVars>>

-----------------------------------------------------------------------------
(* WriteResponseStep *)

\* OnAsyncCompletion's verdict on a write; it looks at neither hr nor num_bytes.
AfterWrite(r) == IF Reply(r).more_content THEN "GotoNext" ELSE "FinishRequest"

\* WriteEntityChunks takes the whole chunk: now, or when its completion comes.
WriteResponseEnter(r) ==
    /\ At(r, "WriteResponse", "Rerun")
    /\ \/ /\ written' = [written EXCEPT ![r] = Append(@, m_asgi_response_msg[r])]
          /\ unflushed' = [unflushed EXCEPT ![r] = "data"]
          /\ \/ io' = [io EXCEPT ![r] = TRUE] /\ Return(r, "AsyncPending")
             \/ Return(r, AfterWrite(r)) /\ UNCHANGED io
          /\ UNCHANGED io_failed
       \/ Fail(r) /\ UNCHANGED <<written, unflushed, io>>
    /\ UNCHANGED <<channelVars, pumpVars, worker, step, step_id, m_asgi_response_msg,
                   bodyVars, completions, request, taskVars>>

WriteResponseOnAsyncCompletion(r) ==
    /\ At(r, "WriteResponse", "AsyncPending")
    /\ DeliverCompletion(r)
    /\ Return(r, AfterWrite(r))
    /\ UNCHANGED <<channelVars, pumpVars, worker, step, step_id, m_asgi_response_msg,
                   bodyVars, responseVars, request, taskVars>>

\* Mutant of WriteResponseGetNextStep: no flush between chunks.
WriteResponseGetNextStepUnflushed(r) ==
    /\ At(r, "WriteResponse", "GotoNext")
    /\ Goto(r, "WaitForResponse")
    /\ m_asgi_response_msg' = [m_asgi_response_msg EXCEPT ![r] = 0]
    /\ UNCHANGED <<channelVars, pumpVars, worker, bodyVars, responseVars, io,
                   completions, request, taskVars>>

\* Throws without more_content, which nobody catches.
WriteResponseGetNextStep(r) ==
    /\ At(r, "WriteResponse", "GotoNext")
    /\ IF Reply(r).more_content
       THEN /\ Goto(r, "FlushResponse")
            /\ m_asgi_response_msg' = [m_asgi_response_msg EXCEPT ![r] = 0]
            /\ UNCHANGED worker
       ELSE worker' = "crashed" /\ UNCHANGED handlerVars
    /\ UNCHANGED <<channelVars, pumpVars, bodyVars, responseVars, io,
                   completions, request, taskVars>>

-----------------------------------------------------------------------------
(* FlushResponseStep *)

\* IIS has flushed everything.
Flushed(r) == unflushed' = [unflushed EXCEPT ![r] = "none"]

\* Flush(fAsync) completes at once, goes pending, or fails.
FlushResponseEnter(r) ==
    /\ At(r, "FlushResponse", "Rerun")
    /\ \/ Flushed(r) /\ Return(r, "GotoNext") /\ UNCHANGED <<io, io_failed>>
       \/ /\ io' = [io EXCEPT ![r] = TRUE]
          /\ Return(r, "AsyncPending")
          /\ UNCHANGED <<unflushed, io_failed>>
       \/ Fail(r) /\ UNCHANGED <<unflushed, io>>
    /\ UNCHANGED <<channelVars, pumpVars, worker, step, step_id, m_asgi_response_msg,
                   bodyVars, written, completions, request, taskVars>>

\* The completion of a pending Flush, which may have failed: nobody looks at its hr.
FlushResponseOnAsyncCompletion(r) ==
    /\ At(r, "FlushResponse", "AsyncPending")
    /\ DeliverCompletion(r)
    /\ Flushed(r) \/ unflushed' = [unflushed EXCEPT ![r] = "failed"]
    /\ Return(r, "GotoNext")
    /\ UNCHANGED <<channelVars, pumpVars, worker, step, step_id, m_asgi_response_msg,
                   bodyVars, io_failed, written, request, taskVars>>

FlushResponseGetNextStep(r) ==
    /\ At(r, "FlushResponse", "GotoNext")
    /\ Goto(r, "WaitForResponse")
    /\ UNCHANGED <<channelVars, pumpVars, worker, m_asgi_response_msg, bodyVars,
                   responseVars, io, completions, request, taskVars>>

-----------------------------------------------------------------------------
(* The application and Redis, as the module meets them. *)

clientVars == <<handlerVars, bodyVars, responseVars, io, completions, taskVars>>

\* A worker of the application takes the request off http.request.
AppReceive(r) ==
    /\ request[r] = "queued"
    /\ request' = [request EXCEPT ![r] = "taken"]
    /\ UNCHANGED <<channelVars, pumpVars, worker, clientVars>>

\* The application sends a reply, before or after it has sent a final one.
AppSend(r, m) ==
    /\ request[r] = "taken"
    /\ Send(r, m)
    /\ UNCHANGED <<pumpVars, worker, clientVars, request>>

\* The data key of the request message expires before a worker reads it.
RequestExpires(r) ==
    /\ request[r] = "queued"
    /\ request' = [request EXCEPT ![r] = "lost"]
    /\ UNCHANGED <<channelVars, pumpVars, worker, clientVars>>

\* The data key of a reply expires before the pump reads it.
ReplyExpires(r) ==
    /\ \E i \in 1 .. MaxMessages : Expire(r, i)
    /\ UNCHANGED <<pumpVars, worker, clientVars, request>>

-----------------------------------------------------------------------------
(* The pump thread lives in the worker process; nothing in the module destroys *)
(* the pump (HttpModuleFactory::Terminate() is empty).                         *)

Pump ==
    /\ worker = "running"
    /\ PumpLoop
    /\ UNCHANGED <<worker, clientVars, request>>

\* Everything an IIS thread does for r.
Handler(r) ==
    \/ ReadBodyEnter(r)
    \/ ReadBodyOnAsyncCompletion(r)
    \/ ReadBodyGetNextStep(r)
    \/ SendToApplicationEnter(r)
    \/ SendToApplicationOnAsyncCompletion(r)
    \/ SendToApplicationGetNextStep(r)
    \/ WaitForResponseEnter(r)
    \/ WaitForResponseOnAsyncCompletion(r)
    \/ WaitForResponseGetNextStep(r)
    \/ WriteResponseEnter(r)
    \/ WriteResponseOnAsyncCompletion(r)
    \/ WriteResponseGetNextStep(r)
    \/ FlushResponseEnter(r)
    \/ FlushResponseOnAsyncCompletion(r)
    \/ FlushResponseGetNextStep(r)
    \/ CleanupStoredContext(r)

\* Everything the PPL scheduler runs.
Scheduler ==
    \/ \E t \in sends : RunSend(t)
    \/ \E t \in sends : RunSendContinuation(t)
    \/ \E t \in tasks : RunCallback(t)
    \/ \E t \in tails : RunCallbackTail(t)

Environment(r) ==
    \/ OnExecuteRequestHandler(r)
    \/ AppReceive(r)
    \/ \E m \in Payloads : AppSend(r, m)
    \/ RequestExpires(r)
    \/ ReplyExpires(r)

Next ==
    \/ \E r \in Requests : Handler(r) \/ Environment(r)
    \/ Scheduler
    \/ Pump

\* IIS completes its calls and runs its threads, the scheduler runs every task, and
\* the pump thread is never starved.  The application owes nothing.
Fairness ==
    /\ \A r \in Requests : WF_vars(Handler(r))
    /\ WF_vars(\E t \in sends : RunSend(t) \/ RunSendContinuation(t))
    /\ WF_vars(\E t \in tasks : RunCallback(t))
    /\ WF_vars(\E t \in tails : RunCallbackTail(t))
    /\ WF_vars(Pump)

Spec == Init /\ [][Next]_vars

FairSpec == Spec /\ Fairness

-----------------------------------------------------------------------------
(* Correctness. *)

\* How many things are going to wake request r up: an IIS call in flight, posted
\* completions, tasks that will post one, and the registered callback.
Wakeups(r) ==
    (IF io[r] THEN 1 ELSE 0) + completions[r]
    + Cardinality({t \in sends : t.request = r})
    + Cardinality({t \in tasks : t.channel = r})
    + (IF r \in Registered THEN 1 ELSE 0)

\* A request left pending (RQ_NOTIFICATION_PENDING, RequestHandler.cpp:71-102) has
\* exactly one thing under way that will resume it: with none it hangs for ever, with
\* two the second completion is delivered to a step that never asked for it.  And
\* nothing is under way for a request that is running, or gone.
ExactlyOneWakeup ==
    \A r \in Requests : Wakeups(r) = IF result[r] = "AsyncPending" THEN 1 ELSE 0

\* Whatever the pump or the scheduler may still run with a captured `this`
\* (HttpRequestHandlerSteps.cpp:82-90, 112-120) was captured by the step that is
\* current now, so neither uses a destroyed object up to its PostCompletion.
NoDanglingCallback ==
    /\ \A r \in Registered :
          Live(r, m_callbacks[r]) /\ step[r] = "WaitForResponse"
    /\ \A t \in tasks :
          Live(t.channel, t.callback) /\ step[t.channel] = "WaitForResponse"
    /\ \A t \in sends :
          Live(t.request, t.step) /\ step[t.request] = "SendToApplication"

\* The pump takes messages off a channel without holding its lock
\* (ResponsePump.cpp:69-76), yet for this client it always finds the callback again:
\* no reply is read from Redis and thrown away.
ReplyNeverDropped ==
    pc = "dispatch" => \A d \in received : d.channel \in Registered

\* The request the application can read carries every byte of the entity at its own
\* place, however IIS split the reads and however they completed
\* (HttpRequestHandlerSteps.cpp:16-69).
BodyForwardedWhole ==
    \A r \in Requests :
        request[r] # "unsent" => body[r] = [p \in 1 .. Len(body[r]) |-> p]

\* The replies read from r's channel that have something to send.
Owed(r) == {i \in 1 .. popped[r] : i \notin expired[r] /\ sent[r][i].content}

\* The replies on their way from the channel layer to WriteEntityChunks.
InFlight(r) ==
    {d.msg : d \in {e \in received : e.channel = r}}
    \cup {t.msg : t \in {u \in tasks : u.channel = r}}
    \cup ({m_asgi_response_msg[r]} \ {0})

\* Every reply read from the channel reaches the client or is still on its way,
\* unless IIS reported an error; and only those do.  The reply hops from Redis to the
\* pump, to a PPL task, to one step and to the next, each of which drops its copy.
NoReplyLost ==
    \A r \in Requests :
        LET sentOn == {written[r][k] : k \in 1 .. Len(written[r])}
        IN  /\ sentOn \subseteq Owed(r)
            /\ io_failed[r] \/ Owed(r) \subseteq sentOn \cup InFlight(r)

\* "If False, response will be taken as complete and closed off, and any further
\* messages on the channel will be ignored" (AsgiHttpResponseMsg.h:13-15): nothing is
\* read from the channel after a final reply.
FinalReplyEndsResponse ==
    \A r \in Requests : \A i \in 1 .. popped[r] :
        i \notin expired[r] /\ ~sent[r][i].more_content => i = popped[r]

\* While a streaming response waits for the application, everything the application
\* sent so far has been flushed to the client (HttpRequestHandlerSteps.cpp:151-156,
\* 208-213, 222-225), unless the Flush for it went pending and then failed: its
\* completion ignores the hr (HttpRequestHandlerSteps.cpp:261-266), and the request
\* waits for more with the data unflushed.
StreamedBeforeWaiting ==
    \A r \in Registered : unflushed[r] # "data"

\* No callback is past its PostCompletion with a use of `this` left to run
\* (HttpRequestHandlerSteps.cpp:117-119) when the step it captured is gone.
TailUsesLiveStep ==
    \A t \in tails : Live(t.request, t.step)

FinalReplies(r) == {i \in 1 .. Len(sent[r]) : ~sent[r][i].more_content}

\* Once the application has sent a final reply, the request ends, unless every final
\* reply expired in Redis (ReceiveMany, RedisChannelLayer.cpp:87-93) or the process
\* crashed.
FinalReplyFinishesRequest ==
    \A r \in Requests :
        FinalReplies(r) # {} ~>
            \/ step[r] = "destroyed"
            \/ FinalReplies(r) \subseteq expired[r]
            \/ worker = "crashed"

\* A request IIS handed to the module reaches the application's channel, unless its
\* body could not be read or the process crashed.
RequestReachesApplication ==
    \A r \in Requests :
        step[r] = "ReadBody" ~>
            request[r] # "unsent" \/ io_failed[r] \/ worker = "crashed"

-----------------------------------------------------------------------------
(* Refinement. *)

\* Where the response of r stands, for someone who sees only its beginning and end.
ResponsePhase(r) ==
    CASE step[r] = "none" -> "idle"
      [] step[r] \in Steps -> "open"
      [] step[r] = "destroyed" -> IF io_failed[r] THEN "aborted" ELSE "closed"

Response ==
    INSTANCE AsgiResponse
    WITH phase <- [r \in Requests |-> ResponsePhase(r)],
         output <- written

\* The five steps, the scheduler, the pump and the channel layer together implement
\* the response contract of AsgiResponse.
AsgiResponseRefinement == Response!Spec

=============================================================================

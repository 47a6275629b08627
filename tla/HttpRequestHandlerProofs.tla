---------------------- MODULE HttpRequestHandlerProofs ----------------------
(***************************************************************************)
(* Safety of HttpRequestHandler for any number of requests, replies and    *)
(* body bytes.                                                             *)
(*                                                                         *)
(* Two inductive invariants.  IInv says, step by step, what can be under   *)
(* way for a request: which of the five sources of a wakeup exists, and    *)
(* that it holds the identity of the current step object.  RInv, on top of *)
(* it, follows the reply that is on its way through the pump, a task and   *)
(* the steps: it gives the guarantees about replies and the refinement of  *)
(* AsgiResponse.                                                           *)
(***************************************************************************)
EXTENDS HttpRequestHandler, SequenceLemmas

NoSends(r) == \A t \in sends : t.request # r
NoTasks(r) == \A t \in tasks : t.channel # r

\* The five ways a pending request can be about to be resumed, each excluding the
\* others, and none of them.
Quiet(r) ==
    /\ ~io[r] /\ completions[r] = 0 /\ NoSends(r) /\ NoTasks(r)
    /\ m_callbacks[r] = NoCallback

OnlyIo(r) ==
    /\ io[r] /\ completions[r] = 0 /\ NoSends(r) /\ NoTasks(r)
    /\ m_callbacks[r] = NoCallback

OnlyPosted(r) ==
    /\ ~io[r] /\ completions[r] = 1 /\ NoSends(r) /\ NoTasks(r)
    /\ m_callbacks[r] = NoCallback

OnlySend(r) ==
    /\ ~io[r] /\ completions[r] = 0 /\ NoTasks(r)
    /\ m_callbacks[r] = NoCallback
    /\ \E t \in sends :
          /\ t.request = r /\ t.step = step_id[r]
          /\ \A u \in sends : u.request = r => u = t

OnlyTask(r) ==
    /\ ~io[r] /\ completions[r] = 0 /\ NoSends(r)
    /\ m_callbacks[r] = NoCallback
    /\ \E t \in tasks :
          /\ t.channel = r /\ t.callback = step_id[r]
          /\ \A u \in tasks : u.channel = r => u = t

OnlyCallback(r) ==
    /\ ~io[r] /\ completions[r] = 0 /\ NoSends(r) /\ NoTasks(r)
    /\ m_callbacks[r] = step_id[r]

\* What is under way, by step and StepResult.
Wake(r) ==
    /\ result[r] # "AsyncPending" => Quiet(r)
    /\ result[r] = "AsyncPending" =>
          \/ step[r] \in {"ReadBody", "WriteResponse", "FlushResponse"} /\ OnlyIo(r)
          \/ step[r] = "SendToApplication" /\ (OnlySend(r) \/ OnlyPosted(r))
          \/ /\ step[r] = "WaitForResponse"
             /\ \/ m_asgi_response_msg[r] = 0 /\ (OnlyCallback(r) \/ OnlyTask(r))
                \/ m_asgi_response_msg[r] # 0 /\ OnlyPosted(r)

\* Which combinations of step, object, StepResult and message in hand there are.
StepOK(r) ==
    /\ step[r] \in {"none", "destroyed"} <=> result[r] = "none"
    /\ step[r] \in Steps => step_id[r] # 0
    /\ m_asgi_response_msg[r] # 0 =>
          \/ step[r] = "WriteResponse"
          \/ step[r] = "WaitForResponse" /\ result[r] # "Rerun"

\* The body buffer fits the entity, what was read is in place, and the message is
\* not sent before everything was read.
BodyOK(r) ==
    /\ m_body_bytes_read[r] + remaining[r] = Len(body[r])
    /\ \A p \in 1 .. m_body_bytes_read[r] : body[r][p] = p
    /\ step[r] \notin {"none", "ReadBody", "destroyed"} => remaining[r] = 0
    /\ step[r] = "ReadBody" /\ result[r] = "GotoNext" => remaining[r] = 0
    /\ step[r] \in {"none", "ReadBody"} => request[r] = "unsent"
    /\ request[r] # "unsent" => remaining[r] = 0

\* The map never shrinks behind the pump's back.
PumpOK ==
    /\ pc = "receive" => channel_names \subseteq Registered
    /\ pc = "dispatch" => \A d \in received : d.channel \in Registered

RequestOK(r) == Wake(r) /\ StepOK(r) /\ BodyOK(r)

IInv ==
    /\ TypeOK
    /\ PumpOK
    /\ \A r \in Requests : RequestOK(r)

-----------------------------------------------------------------------------
(* What a step leaves alone. *)

\* Nothing RequestOK(q) speaks of changes.
SameRequest(q) ==
    /\ step'[q] = step[q]
    /\ step_id'[q] = step_id[q]
    /\ result'[q] = result[q]
    /\ m_asgi_response_msg'[q] = m_asgi_response_msg[q]
    /\ io'[q] = io[q]
    /\ completions'[q] = completions[q]
    /\ m_callbacks'[q] = m_callbacks[q]
    /\ remaining'[q] = remaining[q]
    /\ m_body_bytes_read'[q] = m_body_bytes_read[q]
    /\ body'[q] = body[q]
    /\ request'[q] = request[q]
    /\ \A t : t.request = q => (t \in sends' <=> t \in sends)
    /\ \A t : t.channel = q => (t \in tasks' <=> t \in tasks)

LEMMA RequestFrame ==
  ASSUME NEW q \in Requests, RequestOK(q), SameRequest(q)
  PROVE  RequestOK(q)'
<1>1. NoSends(q)' <=> NoSends(q)
  BY DEF SameRequest, NoSends
<1>2. NoTasks(q)' <=> NoTasks(q)
  BY DEF SameRequest, NoTasks
<1>3. Wake(q)'
  BY <1>1, <1>2 DEF RequestOK, Wake, SameRequest, Quiet, OnlyIo, OnlyPosted, OnlySend,
     OnlyTask, OnlyCallback
<1>4. StepOK(q)'
  BY DEF RequestOK, StepOK, SameRequest
<1>5. BodyOK(q)'
  BY DEF RequestOK, BodyOK, SameRequest
<1> QED BY <1>3, <1>4, <1>5 DEF RequestOK

LEMMA DeliverTypes ==
  ASSUME HandlerTypeOK, NEW r \in Requests, DeliverCompletion(r)
  PROVE  /\ io' \in [Requests -> BOOLEAN]
         /\ completions' \in [Requests -> Nat]
<1>1. completions[r] \in Nat
  BY DEF HandlerTypeOK
<1>2. completions[r] > 0 => completions[r] - 1 \in Nat
  BY <1>1
<1>3. CASE io' = [io EXCEPT ![r] = FALSE] /\ UNCHANGED completions
  BY <1>3 DEF HandlerTypeOK
<1>4. CASE /\ completions[r] > 0 /\ UNCHANGED io
           /\ completions' = [completions EXCEPT ![r] = completions[r] - 1]
  BY <1>2, <1>4 DEF HandlerTypeOK
<1> QED BY <1>3, <1>4 DEF DeliverCompletion

\* A completion of r is no other request's.
LEMMA DeliverFrame ==
  ASSUME HandlerTypeOK, NEW r \in Requests, NEW q \in Requests, q # r, DeliverCompletion(r)
  PROVE  io'[q] = io[q] /\ completions'[q] = completions[q]
BY DEF HandlerTypeOK, DeliverCompletion

LEMMA DeliverQuiet ==
  ASSUME HandlerTypeOK, NEW r \in Requests, Wake(r), result[r] = "AsyncPending",
         DeliverCompletion(r), UNCHANGED <<sends, tasks, m_callbacks>>
  PROVE  /\ Quiet(r)'
         /\ OnlyIo(r) \/ OnlyPosted(r)
<1>1. OnlyIo(r) \/ OnlyPosted(r)
  BY DEF Wake, DeliverCompletion, OnlyIo, OnlyPosted, OnlySend, OnlyTask, OnlyCallback
<1>2. CASE OnlyIo(r)
  BY <1>2 DEF OnlyIo, DeliverCompletion, HandlerTypeOK, Quiet, NoSends, NoTasks
<1>3. CASE OnlyPosted(r)
  BY <1>3 DEF OnlyPosted, DeliverCompletion, HandlerTypeOK, Quiet, NoSends, NoTasks
<1> QED BY <1>1, <1>2, <1>3


-----------------------------------------------------------------------------
(* What IIS's threads do for r leaves every other request alone... *)

LEMMA HandlerFrame ==
  ASSUME TypeOK, NEW r \in Requests, NEW q \in Requests, q # r, Handler(r)
  PROVE  SameRequest(q)
<1> USE DEF SameRequest, TypeOK, HandlerTypeOK, BodyTypeOK
<1>1. CASE ReadBodyEnter(r)
  BY <1>1 DEF ReadBodyEnter, Return, Fail, taskVars, pumpVars, bodyVars, ReadBytes
<1>2. CASE ReadBodyOnAsyncCompletion(r)
  <2>1. io'[q] = io[q] /\ completions'[q] = completions[q]
    BY <1>2, DeliverFrame DEF ReadBodyOnAsyncCompletion
  <2>2. /\ UNCHANGED <<step, step_id, m_asgi_response_msg, request>>
        /\ UNCHANGED m_callbacks /\ UNCHANGED sends /\ UNCHANGED tasks
    BY <1>2 DEF ReadBodyOnAsyncCompletion, pumpVars, taskVars
  <2>3. /\ result'[q] = result[q] /\ body'[q] = body[q] /\ remaining'[q] = remaining[q]
        /\ m_body_bytes_read'[q] = m_body_bytes_read[q]
    <3>1. CASE Fail(r) /\ UNCHANGED bodyVars
      BY <3>1 DEF Fail, Return, bodyVars
    <3>2. CASE \E n \in 1 .. remaining[r] : ReadBytes(r, n)
      BY <3>2 DEF ReadBytes, Return
    <3> QED BY <1>2, <3>1, <3>2 DEF ReadBodyOnAsyncCompletion
  <2> QED BY <2>1, <2>2, <2>3
<1>3. CASE ReadBodyGetNextStep(r)
  BY <1>3 DEF ReadBodyGetNextStep, Goto, Return, taskVars, pumpVars, bodyVars
<1>4. CASE SendToApplicationEnter(r)
  BY <1>4 DEF SendToApplicationEnter, Return, pumpVars, bodyVars
<1>5. CASE SendToApplicationOnAsyncCompletion(r)
  BY <1>5 DEF SendToApplicationOnAsyncCompletion, Return, taskVars, pumpVars,
     bodyVars, DeliverCompletion
<1>6. CASE SendToApplicationGetNextStep(r)
  BY <1>6 DEF SendToApplicationGetNextStep, Goto, Return, taskVars, pumpVars, bodyVars
<1>7. CASE WaitForResponseEnter(r)
  BY <1>7 DEF WaitForResponseEnter, Return, AddChannel, taskVars, bodyVars
<1>8. CASE WaitForResponseOnAsyncCompletion(r)
  BY <1>8 DEF WaitForResponseOnAsyncCompletion, Return, taskVars, pumpVars, bodyVars,
     DeliverCompletion
<1>9. CASE WaitForResponseGetNextStep(r)
  BY <1>9 DEF WaitForResponseGetNextStep, Goto, Return, taskVars, pumpVars, bodyVars
<1>10. CASE WriteResponseEnter(r)
  BY <1>10 DEF WriteResponseEnter, Return, Fail, taskVars, pumpVars, bodyVars
<1>11. CASE WriteResponseOnAsyncCompletion(r)
  BY <1>11 DEF WriteResponseOnAsyncCompletion, Return, taskVars, pumpVars, bodyVars,
     DeliverCompletion
<1>12. CASE WriteResponseGetNextStep(r)
  BY <1>12 DEF WriteResponseGetNextStep, Goto, Return, handlerVars, taskVars,
     pumpVars, bodyVars
<1>13. CASE FlushResponseEnter(r)
  BY <1>13 DEF FlushResponseEnter, Return, Fail, taskVars, pumpVars, bodyVars
<1>14. CASE FlushResponseOnAsyncCompletion(r)
  BY <1>14 DEF FlushResponseOnAsyncCompletion, Return, taskVars, pumpVars, bodyVars,
     DeliverCompletion
<1>15. CASE FlushResponseGetNextStep(r)
  BY <1>15 DEF FlushResponseGetNextStep, Goto, Return, taskVars, pumpVars, bodyVars
<1>16. CASE CleanupStoredContext(r)
  BY <1>16 DEF CleanupStoredContext, Return, taskVars, pumpVars, bodyVars
<1> QED
  BY <1>1, <1>2, <1>3, <1>4, <1>5, <1>6, <1>7, <1>8, <1>9, <1>10, <1>11, <1>12, <1>13,
     <1>14, <1>15, <1>16 DEF Handler

LEMMA ReadBytesOK ==
  ASSUME BodyTypeOK, NEW r \in Requests, BodyOK(r),
         NEW n \in 1 .. remaining[r], ReadBytes(r, n)
  PROVE  /\ BodyTypeOK'
         /\ m_body_bytes_read'[r] + remaining'[r] = Len(body'[r])
         /\ \A p \in 1 .. m_body_bytes_read'[r] : body'[r][p] = p
         /\ remaining'[r] = remaining[r] - n
         /\ result' = [result EXCEPT ![r] = AfterRead(r, n)]
<1> DEFINE len == Len(body[r])
           read == m_body_bytes_read[r]
           new == [p \in 1 .. len |->
                      IF p \in (read + 1) .. (read + n)
                      THEN (len - remaining[r]) + (p - read) ELSE body[r][p]]
<1>1. /\ len \in Nat /\ read \in Nat /\ remaining[r] \in Nat /\ n \in Nat
      /\ n <= remaining[r] /\ read + remaining[r] = len
      /\ \A p \in 1 .. len : body[r][p] \in Nat
  BY LenProperties, ElementOfSeq DEF BodyTypeOK, BodyOK
<1>2. new \in [1 .. len -> Nat]
  <2>1. ASSUME NEW p \in 1 .. len, p \in (read + 1) .. (read + n)
        PROVE  (len - remaining[r]) + (p - read) \in Nat
    BY <1>1, <2>1
  <2> HIDE DEF len, read
  <2> QED BY <1>1, <2>1
<1>3. new \in Seq(Nat) /\ Len(new) = len
  <2> HIDE DEF new, len
  <2> QED BY <1>1, <1>2, FunctionIsSequence
<1>4. /\ body' = [body EXCEPT ![r] = new]
      /\ remaining' = [remaining EXCEPT ![r] = remaining[r] - n]
      /\ m_body_bytes_read' = [m_body_bytes_read EXCEPT ![r] = read + n]
      /\ result' = [result EXCEPT ![r] = AfterRead(r, n)]
  BY DEF ReadBytes, BodyOffset, Return
<1>5. /\ body'[r] = new
      /\ remaining'[r] = remaining[r] - n
      /\ m_body_bytes_read'[r] = read + n
  BY <1>4 DEF BodyTypeOK
<1>6. BodyTypeOK'
  <2> HIDE DEF new, len, read
  <2>1. remaining[r] - n \in Nat /\ read + n \in Nat
    BY <1>1
  <2> QED BY <1>3, <1>4, <2>1 DEF BodyTypeOK
<1>7. ASSUME NEW p \in 1 .. (read + n) PROVE new[p] = p
  <2>1. p \in 1 .. len
    BY <1>1
  <2>2. CASE p <= read
    BY <1>1, <2>1, <2>2 DEF BodyOK
  <2>3. CASE p > read
    BY <1>1, <2>1, <2>3
  <2> QED BY <1>1, <2>2, <2>3
<1> HIDE DEF new, len, read
<1>8. m_body_bytes_read'[r] + remaining'[r] = Len(body'[r])
  BY <1>1, <1>3, <1>5
<1>9. \A p \in 1 .. m_body_bytes_read'[r] : body'[r][p] = p
  BY <1>5, <1>7
<1> QED BY <1>4, <1>5, <1>6, <1>8, <1>9

-----------------------------------------------------------------------------
(* ... and keeps the invariant of r: one lemma per action. *)

LEMMA ReadBodyEnterOK ==
  ASSUME TypeOK, NEW r \in Requests, RequestOK(r), ReadBodyEnter(r)
  PROVE  RequestOK(r)'
<1>1. Quiet(r)
  BY DEF ReadBodyEnter, At, RequestOK, Wake
<1>2. Wake(r)'
  BY <1>1 DEF ReadBodyEnter, At, RequestOK, Wake, Quiet, NoSends, NoTasks, TypeOK,
     HandlerTypeOK, pumpVars, taskVars, Return, Fail, ReadBytes, AfterRead, OnlyIo
<1>3. StepOK(r)'
  BY DEF ReadBodyEnter, At, RequestOK, StepOK, Steps, TypeOK, HandlerTypeOK, Return,
     Fail, ReadBytes, AfterRead
<1>4. BodyOK(r)'
  <2>1. CASE ~\E n \in 1 .. remaining[r] : ReadBytes(r, n)
    BY <2>1 DEF ReadBodyEnter, At, RequestOK, BodyOK, TypeOK, HandlerTypeOK,
       BodyTypeOK, bodyVars, Return, Fail
  <2>2. CASE \E n \in 1 .. remaining[r] : ReadBytes(r, n)
    <3>1. PICK n \in 1 .. remaining[r] : ReadBytes(r, n)
      BY <2>2
    <3>2. /\ m_body_bytes_read'[r] + remaining'[r] = Len(body'[r])
          /\ \A p \in 1 .. m_body_bytes_read'[r] : body'[r][p] = p
          /\ remaining'[r] = remaining[r] - n
          /\ result' = [result EXCEPT ![r] = AfterRead(r, n)]
      BY <3>1, ReadBytesOK DEF RequestOK, TypeOK
    <3>3. n \in Nat /\ remaining[r] \in Nat /\ n <= remaining[r]
      BY DEF TypeOK, BodyTypeOK
    <3>4. step' = step /\ request' = request /\ step[r] = "ReadBody"
      BY DEF ReadBodyEnter, At
    <3>5. result'[r] = "GotoNext" => remaining'[r] = 0
      BY <3>2, <3>3 DEF TypeOK, HandlerTypeOK, AfterRead
    <3> QED
      BY <3>2, <3>4, <3>5 DEF RequestOK, BodyOK
  <2> QED
    BY <2>1, <2>2 DEF ReadBodyEnter
<1> QED BY <1>2, <1>3, <1>4 DEF RequestOK

LEMMA ReadBodyOnAsyncCompletionOK ==
  ASSUME TypeOK, NEW r \in Requests, RequestOK(r), ReadBodyOnAsyncCompletion(r)
  PROVE  RequestOK(r)'
<1>1. UNCHANGED <<sends, tasks, m_callbacks>>
  BY DEF ReadBodyOnAsyncCompletion, pumpVars, taskVars
<1>2. Quiet(r)' /\ (OnlyIo(r) \/ OnlyPosted(r))
  BY <1>1, DeliverQuiet DEF ReadBodyOnAsyncCompletion, At, RequestOK, TypeOK
<1>3. Wake(r)'
  BY <1>2 DEF ReadBodyOnAsyncCompletion, At, RequestOK, Wake, TypeOK, HandlerTypeOK,
     Fail, Return, ReadBytes, AfterRead
<1>4. StepOK(r)'
  BY DEF ReadBodyOnAsyncCompletion, At, RequestOK, StepOK, Steps, TypeOK,
     HandlerTypeOK, Fail, Return, ReadBytes, AfterRead
<1>5. BodyOK(r)'
  <2>1. CASE ~\E n \in 1 .. remaining[r] : ReadBytes(r, n)
    BY <2>1 DEF ReadBodyOnAsyncCompletion, At, RequestOK, BodyOK, TypeOK,
       HandlerTypeOK, BodyTypeOK, bodyVars, Fail, Return
  <2>2. CASE \E n \in 1 .. remaining[r] : ReadBytes(r, n)
    <3>1. PICK n \in 1 .. remaining[r] : ReadBytes(r, n)
      BY <2>2
    <3>2. /\ m_body_bytes_read'[r] + remaining'[r] = Len(body'[r])
          /\ \A p \in 1 .. m_body_bytes_read'[r] : body'[r][p] = p
          /\ remaining'[r] = remaining[r] - n
          /\ result' = [result EXCEPT ![r] = AfterRead(r, n)]
      BY <3>1, ReadBytesOK DEF RequestOK, TypeOK
    <3>3. n \in Nat /\ remaining[r] \in Nat /\ n <= remaining[r]
      BY DEF TypeOK, BodyTypeOK
    <3>4. step' = step /\ request' = request /\ step[r] = "ReadBody"
      BY DEF ReadBodyOnAsyncCompletion, At
    <3>5. result'[r] = "GotoNext" => remaining'[r] = 0
      BY <3>2, <3>3 DEF TypeOK, HandlerTypeOK, AfterRead
    <3> QED
      BY <3>2, <3>4, <3>5 DEF RequestOK, BodyOK
  <2> QED
    BY <2>1, <2>2 DEF ReadBodyOnAsyncCompletion
<1> QED BY <1>3, <1>4, <1>5 DEF RequestOK

LEMMA ReadBodyGetNextStepOK ==
  ASSUME TypeOK, NEW r \in Requests, RequestOK(r), ReadBodyGetNextStep(r)
  PROVE  RequestOK(r)'
<1>1. Quiet(r)
  BY DEF ReadBodyGetNextStep, At, RequestOK, Wake
<1>2. Wake(r)'
  BY <1>1 DEF ReadBodyGetNextStep, At, RequestOK, Wake, Quiet, NoSends, NoTasks,
     TypeOK, HandlerTypeOK, pumpVars, taskVars, Goto, Return
<1>3. StepOK(r)'
  BY DEF ReadBodyGetNextStep, At, RequestOK, StepOK, Steps, TypeOK, HandlerTypeOK,
     Goto, Return
<1>4. BodyOK(r)'
  BY DEF ReadBodyGetNextStep, At, RequestOK, BodyOK, TypeOK, HandlerTypeOK,
     BodyTypeOK, bodyVars, Goto, Return
<1> QED BY <1>2, <1>3, <1>4 DEF RequestOK

LEMMA SendToApplicationEnterOK ==
  ASSUME TypeOK, NEW r \in Requests, RequestOK(r), SendToApplicationEnter(r)
  PROVE  RequestOK(r)'
<1>1. Quiet(r)
  BY DEF SendToApplicationEnter, At, RequestOK, Wake
<1>2. Wake(r)'
  BY <1>1 DEF SendToApplicationEnter, At, RequestOK, Wake, Quiet, NoSends, NoTasks,
     TypeOK, HandlerTypeOK, pumpVars, taskVars, Return, OnlySend
<1>3. StepOK(r)'
  BY DEF SendToApplicationEnter, At, RequestOK, StepOK, Steps, TypeOK, HandlerTypeOK,
     Return
<1>4. BodyOK(r)'
  BY DEF SendToApplicationEnter, At, RequestOK, BodyOK, TypeOK, HandlerTypeOK,
     BodyTypeOK, bodyVars, Return
<1> QED BY <1>2, <1>3, <1>4 DEF RequestOK

LEMMA SendToApplicationOnAsyncCompletionOK ==
  ASSUME TypeOK, NEW r \in Requests, RequestOK(r), SendToApplicationOnAsyncCompletion(r)
  PROVE  RequestOK(r)'
<1>1. UNCHANGED <<sends, tasks, m_callbacks>>
  BY DEF SendToApplicationOnAsyncCompletion, pumpVars, taskVars
<1>2. Quiet(r)' /\ (OnlyIo(r) \/ OnlyPosted(r))
  BY <1>1, DeliverQuiet DEF SendToApplicationOnAsyncCompletion, At, RequestOK, TypeOK
<1>3. Wake(r)'
  BY <1>2 DEF SendToApplicationOnAsyncCompletion, At, RequestOK, Wake, TypeOK,
     HandlerTypeOK, Return
<1>4. StepOK(r)'
  BY DEF SendToApplicationOnAsyncCompletion, At, RequestOK, StepOK, Steps, TypeOK,
     HandlerTypeOK, Return
<1>5. BodyOK(r)'
  BY DEF SendToApplicationOnAsyncCompletion, At, RequestOK, BodyOK, TypeOK,
     HandlerTypeOK, BodyTypeOK, bodyVars, Return
<1> QED BY <1>3, <1>4, <1>5 DEF RequestOK

LEMMA SendToApplicationGetNextStepOK ==
  ASSUME TypeOK, NEW r \in Requests, RequestOK(r), SendToApplicationGetNextStep(r)
  PROVE  RequestOK(r)'
<1>1. Quiet(r)
  BY DEF SendToApplicationGetNextStep, At, RequestOK, Wake
<1>2. Wake(r)'
  BY <1>1 DEF SendToApplicationGetNextStep, At, RequestOK, Wake, Quiet, NoSends,
     NoTasks, TypeOK, HandlerTypeOK, pumpVars, taskVars, Goto, Return
<1>3. StepOK(r)'
  BY DEF SendToApplicationGetNextStep, At, RequestOK, StepOK, Steps, TypeOK,
     HandlerTypeOK, Goto, Return
<1>4. BodyOK(r)'
  BY DEF SendToApplicationGetNextStep, At, RequestOK, BodyOK, TypeOK, HandlerTypeOK,
     BodyTypeOK, bodyVars, Goto, Return
<1> QED BY <1>2, <1>3, <1>4 DEF RequestOK

LEMMA WaitForResponseEnterOK ==
  ASSUME TypeOK, NEW r \in Requests, RequestOK(r), WaitForResponseEnter(r)
  PROVE  RequestOK(r)'
<1>1. Quiet(r)
  BY DEF WaitForResponseEnter, At, RequestOK, Wake
<1>2. Wake(r)'
  BY <1>1 DEF WaitForResponseEnter, At, RequestOK, Wake, Quiet, NoSends, NoTasks,
     TypeOK, HandlerTypeOK, pumpVars, taskVars, Return, OnlyCallback, AddChannel,
     StepOK, PumpTypeOK, Requests
<1>3. StepOK(r)'
  BY DEF WaitForResponseEnter, At, RequestOK, StepOK, Steps, TypeOK, HandlerTypeOK,
     Return
<1>4. BodyOK(r)'
  BY DEF WaitForResponseEnter, At, RequestOK, BodyOK, TypeOK, HandlerTypeOK,
     BodyTypeOK, bodyVars, Return
<1> QED BY <1>2, <1>3, <1>4 DEF RequestOK

LEMMA WaitForResponseOnAsyncCompletionOK ==
  ASSUME TypeOK, NEW r \in Requests, RequestOK(r), WaitForResponseOnAsyncCompletion(r)
  PROVE  RequestOK(r)'
<1>1. UNCHANGED <<sends, tasks, m_callbacks>>
  BY DEF WaitForResponseOnAsyncCompletion, pumpVars, taskVars
<1>2. Quiet(r)' /\ (OnlyIo(r) \/ OnlyPosted(r))
  BY <1>1, DeliverQuiet DEF WaitForResponseOnAsyncCompletion, At, RequestOK, TypeOK
<1>3. Wake(r)'
  BY <1>2 DEF WaitForResponseOnAsyncCompletion, At, RequestOK, Wake, TypeOK,
     HandlerTypeOK, Return, AfterReply, OnlyIo, OnlyPosted, OnlyCallback, OnlyTask
<1>4. StepOK(r)'
  BY DEF WaitForResponseOnAsyncCompletion, At, RequestOK, StepOK, Steps, TypeOK,
     HandlerTypeOK, Return, AfterReply
<1>5. BodyOK(r)'
  BY DEF WaitForResponseOnAsyncCompletion, At, RequestOK, BodyOK, TypeOK,
     HandlerTypeOK, BodyTypeOK, bodyVars, Return
<1> QED BY <1>3, <1>4, <1>5 DEF RequestOK

LEMMA WaitForResponseGetNextStepOK ==
  ASSUME TypeOK, NEW r \in Requests, RequestOK(r), WaitForResponseGetNextStep(r)
  PROVE  RequestOK(r)'
<1>1. Quiet(r)
  BY DEF WaitForResponseGetNextStep, At, RequestOK, Wake
<1>2. Wake(r)'
  BY <1>1 DEF WaitForResponseGetNextStep, At, RequestOK, Wake, Quiet, NoSends,
     NoTasks, TypeOK, HandlerTypeOK, pumpVars, taskVars, Goto, Return
<1>3. StepOK(r)'
  BY DEF WaitForResponseGetNextStep, At, RequestOK, StepOK, Steps, TypeOK,
     HandlerTypeOK, Goto, Return
<1>4. BodyOK(r)'
  BY DEF WaitForResponseGetNextStep, At, RequestOK, BodyOK, TypeOK, HandlerTypeOK,
     BodyTypeOK, bodyVars, Goto, Return
<1> QED BY <1>2, <1>3, <1>4 DEF RequestOK

LEMMA WriteResponseEnterOK ==
  ASSUME TypeOK, NEW r \in Requests, RequestOK(r), WriteResponseEnter(r)
  PROVE  RequestOK(r)'
<1>1. Quiet(r)
  BY DEF WriteResponseEnter, At, RequestOK, Wake
<1>2. Wake(r)'
  BY <1>1 DEF WriteResponseEnter, At, RequestOK, Wake, Quiet, NoSends, NoTasks,
     TypeOK, HandlerTypeOK, pumpVars, taskVars, Return, Fail, AfterWrite, OnlyIo
<1>3. StepOK(r)'
  BY DEF WriteResponseEnter, At, RequestOK, StepOK, Steps, TypeOK, HandlerTypeOK,
     Return, Fail, AfterWrite
<1>4. BodyOK(r)'
  BY DEF WriteResponseEnter, At, RequestOK, BodyOK, TypeOK, HandlerTypeOK, BodyTypeOK,
     bodyVars, Return, Fail
<1> QED BY <1>2, <1>3, <1>4 DEF RequestOK

LEMMA WriteResponseOnAsyncCompletionOK ==
  ASSUME TypeOK, NEW r \in Requests, RequestOK(r), WriteResponseOnAsyncCompletion(r)
  PROVE  RequestOK(r)'
<1>1. UNCHANGED <<sends, tasks, m_callbacks>>
  BY DEF WriteResponseOnAsyncCompletion, pumpVars, taskVars
<1>2. Quiet(r)' /\ (OnlyIo(r) \/ OnlyPosted(r))
  BY <1>1, DeliverQuiet DEF WriteResponseOnAsyncCompletion, At, RequestOK, TypeOK
<1>3. Wake(r)'
  BY <1>2 DEF WriteResponseOnAsyncCompletion, At, RequestOK, Wake, TypeOK,
     HandlerTypeOK, Return, AfterWrite
<1>4. StepOK(r)'
  BY DEF WriteResponseOnAsyncCompletion, At, RequestOK, StepOK, Steps, TypeOK,
     HandlerTypeOK, Return, AfterWrite
<1>5. BodyOK(r)'
  BY DEF WriteResponseOnAsyncCompletion, At, RequestOK, BodyOK, TypeOK, HandlerTypeOK,
     BodyTypeOK, bodyVars, Return
<1> QED BY <1>3, <1>4, <1>5 DEF RequestOK

LEMMA WriteResponseGetNextStepOK ==
  ASSUME TypeOK, NEW r \in Requests, RequestOK(r), WriteResponseGetNextStep(r)
  PROVE  RequestOK(r)'
<1>1. Quiet(r)
  BY DEF WriteResponseGetNextStep, At, RequestOK, Wake
<1>2. Wake(r)'
  BY <1>1 DEF WriteResponseGetNextStep, At, RequestOK, Wake, Quiet, NoSends, NoTasks,
     TypeOK, HandlerTypeOK, pumpVars, taskVars, Goto, Return, handlerVars
<1>3. StepOK(r)'
  BY DEF WriteResponseGetNextStep, At, RequestOK, StepOK, Steps, TypeOK,
     HandlerTypeOK, Goto, Return, handlerVars
<1>4. BodyOK(r)'
  BY DEF WriteResponseGetNextStep, At, RequestOK, BodyOK, TypeOK, HandlerTypeOK,
     BodyTypeOK, bodyVars, Goto, Return, handlerVars
<1> QED BY <1>2, <1>3, <1>4 DEF RequestOK

LEMMA FlushResponseEnterOK ==
  ASSUME TypeOK, NEW r \in Requests, RequestOK(r), FlushResponseEnter(r)
  PROVE  RequestOK(r)'
<1>1. Quiet(r)
  BY DEF FlushResponseEnter, At, RequestOK, Wake
<1>2. Wake(r)'
  BY <1>1 DEF FlushResponseEnter, At, RequestOK, Wake, Quiet, NoSends, NoTasks,
     TypeOK, HandlerTypeOK, pumpVars, taskVars, Return, Fail, OnlyIo
<1>3. StepOK(r)'
  BY DEF FlushResponseEnter, At, RequestOK, StepOK, Steps, TypeOK, HandlerTypeOK,
     Return, Fail
<1>4. BodyOK(r)'
  BY DEF FlushResponseEnter, At, RequestOK, BodyOK, TypeOK, HandlerTypeOK, BodyTypeOK,
     bodyVars, Return, Fail
<1> QED BY <1>2, <1>3, <1>4 DEF RequestOK

LEMMA FlushResponseOnAsyncCompletionOK ==
  ASSUME TypeOK, NEW r \in Requests, RequestOK(r), FlushResponseOnAsyncCompletion(r)
  PROVE  RequestOK(r)'
<1>1. UNCHANGED <<sends, tasks, m_callbacks>>
  BY DEF FlushResponseOnAsyncCompletion, pumpVars, taskVars
<1>2. Quiet(r)' /\ (OnlyIo(r) \/ OnlyPosted(r))
  BY <1>1, DeliverQuiet DEF FlushResponseOnAsyncCompletion, At, RequestOK, TypeOK
<1>3. Wake(r)'
  BY <1>2 DEF FlushResponseOnAsyncCompletion, At, RequestOK, Wake, TypeOK,
     HandlerTypeOK, Return
<1>4. StepOK(r)'
  BY DEF FlushResponseOnAsyncCompletion, At, RequestOK, StepOK, Steps, TypeOK,
     HandlerTypeOK, Return
<1>5. BodyOK(r)'
  BY DEF FlushResponseOnAsyncCompletion, At, RequestOK, BodyOK, TypeOK, HandlerTypeOK,
     BodyTypeOK, bodyVars, Return
<1> QED BY <1>3, <1>4, <1>5 DEF RequestOK

LEMMA FlushResponseGetNextStepOK ==
  ASSUME TypeOK, NEW r \in Requests, RequestOK(r), FlushResponseGetNextStep(r)
  PROVE  RequestOK(r)'
<1>1. Quiet(r)
  BY DEF FlushResponseGetNextStep, At, RequestOK, Wake
<1>2. Wake(r)'
  BY <1>1 DEF FlushResponseGetNextStep, At, RequestOK, Wake, Quiet, NoSends, NoTasks,
     TypeOK, HandlerTypeOK, pumpVars, taskVars, Goto, Return
<1>3. StepOK(r)'
  BY DEF FlushResponseGetNextStep, At, RequestOK, StepOK, Steps, TypeOK,
     HandlerTypeOK, Goto, Return
<1>4. BodyOK(r)'
  BY DEF FlushResponseGetNextStep, At, RequestOK, BodyOK, TypeOK, HandlerTypeOK,
     BodyTypeOK, bodyVars, Goto, Return
<1> QED BY <1>2, <1>3, <1>4 DEF RequestOK

LEMMA CleanupStoredContextOK ==
  ASSUME TypeOK, NEW r \in Requests, RequestOK(r), CleanupStoredContext(r)
  PROVE  RequestOK(r)'
<1>1. Quiet(r)
  BY DEF CleanupStoredContext, At, RequestOK, Wake
<1>2. Wake(r)'
  BY <1>1 DEF CleanupStoredContext, At, RequestOK, Wake, Quiet, NoSends, NoTasks,
     TypeOK, HandlerTypeOK, pumpVars, taskVars, Return
<1>3. StepOK(r)'
  BY DEF CleanupStoredContext, At, RequestOK, StepOK, Steps, TypeOK, HandlerTypeOK,
     Return
<1>4. BodyOK(r)'
  BY DEF CleanupStoredContext, At, RequestOK, BodyOK, TypeOK, HandlerTypeOK,
     BodyTypeOK, bodyVars, Return
<1> QED BY <1>2, <1>3, <1>4 DEF RequestOK

LEMMA HandlerRequestOK ==
  ASSUME TypeOK, NEW r \in Requests, RequestOK(r), Handler(r)
  PROVE  RequestOK(r)'
  BY ReadBodyEnterOK, ReadBodyOnAsyncCompletionOK, ReadBodyGetNextStepOK,
     SendToApplicationEnterOK, SendToApplicationOnAsyncCompletionOK,
     SendToApplicationGetNextStepOK, WaitForResponseEnterOK,
     WaitForResponseOnAsyncCompletionOK, WaitForResponseGetNextStepOK,
     WriteResponseEnterOK, WriteResponseOnAsyncCompletionOK,
     WriteResponseGetNextStepOK, FlushResponseEnterOK,
     FlushResponseOnAsyncCompletionOK, FlushResponseGetNextStepOK,
     CleanupStoredContextOK DEF Handler

-----------------------------------------------------------------------------
(* The types, through what IIS's threads do. *)

LEMMA ChannelTypeSame == ChannelTypeOK /\ UNCHANGED channelVars => ChannelTypeOK'
  BY DEF ChannelTypeOK, channelVars

LEMMA PumpTypeSame == PumpTypeOK /\ UNCHANGED pumpVars => PumpTypeOK'
  BY DEF PumpTypeOK, pumpVars

LEMMA HandlerTypeSame ==
  HandlerTypeOK /\ UNCHANGED <<worker, handlerVars, io, completions, request>>
    => HandlerTypeOK'
  BY DEF HandlerTypeOK, handlerVars

LEMMA BodyTypeSame == BodyTypeOK /\ UNCHANGED bodyVars => BodyTypeOK'
  BY DEF BodyTypeOK, bodyVars

LEMMA ResponseTypeSame == ResponseTypeOK /\ UNCHANGED responseVars => ResponseTypeOK'
  BY DEF ResponseTypeOK, responseVars

LEMMA TaskTypeSame == TaskTypeOK /\ UNCHANGED taskVars => TaskTypeOK'
  BY DEF TaskTypeOK, taskVars

LEMMA HandlerPumpTypeOK ==
  ASSUME TypeOK, NEW r \in Requests, Handler(r)
  PROVE  ChannelTypeOK' /\ PumpTypeOK'
<1>1. UNCHANGED channelVars
  BY DEF Handler, ReadBodyEnter, ReadBodyOnAsyncCompletion, ReadBodyGetNextStep,
     SendToApplicationEnter, SendToApplicationOnAsyncCompletion,
     SendToApplicationGetNextStep, WaitForResponseEnter,
     WaitForResponseOnAsyncCompletion, WaitForResponseGetNextStep, WriteResponseEnter,
     WriteResponseOnAsyncCompletion, WriteResponseGetNextStep, FlushResponseEnter,
     FlushResponseOnAsyncCompletion, FlushResponseGetNextStep, CleanupStoredContext
<1>2. ChannelTypeOK'
  BY <1>1, ChannelTypeSame DEF TypeOK
<1>3. PumpTypeOK'
  <2>1. CASE WaitForResponseEnter(r)
    BY <2>1 DEF WaitForResponseEnter, AddChannel, TypeOK, PumpTypeOK, HandlerTypeOK,
       Requests
  <2>2. CASE ~WaitForResponseEnter(r)
    <3>1. UNCHANGED pumpVars
      BY <2>2 DEF Handler, ReadBodyEnter, ReadBodyOnAsyncCompletion,
         ReadBodyGetNextStep, SendToApplicationEnter,
         SendToApplicationOnAsyncCompletion, SendToApplicationGetNextStep,
         WaitForResponseOnAsyncCompletion, WaitForResponseGetNextStep,
         WriteResponseEnter, WriteResponseOnAsyncCompletion, WriteResponseGetNextStep,
         FlushResponseEnter, FlushResponseOnAsyncCompletion, FlushResponseGetNextStep,
         CleanupStoredContext
    <3> QED BY <3>1, PumpTypeSame DEF TypeOK
  <2> QED BY <2>1, <2>2
<1> QED BY <1>2, <1>3

LEMMA HandlerHandlerTypeOK ==
  ASSUME TypeOK, NEW r \in Requests, Handler(r)
  PROVE  HandlerTypeOK'
<1> USE DEF TypeOK, HandlerTypeOK, At, Steps
<1>1. CASE ReadBodyEnter(r)
  BY <1>1 DEF ReadBodyEnter, Return, Fail, ReadBytes, AfterRead
<1>2. CASE ReadBodyOnAsyncCompletion(r)
  BY <1>2, DeliverTypes DEF ReadBodyOnAsyncCompletion, Fail, Return, ReadBytes,
     AfterRead
<1>3. CASE ReadBodyGetNextStep(r)
  BY <1>3 DEF ReadBodyGetNextStep, Goto, Return
<1>4. CASE SendToApplicationEnter(r)
  BY <1>4 DEF SendToApplicationEnter, Return
<1>5. CASE SendToApplicationOnAsyncCompletion(r)
  BY <1>5, DeliverTypes DEF SendToApplicationOnAsyncCompletion, Return
<1>6. CASE SendToApplicationGetNextStep(r)
  BY <1>6 DEF SendToApplicationGetNextStep, Goto, Return
<1>7. CASE WaitForResponseEnter(r)
  BY <1>7 DEF WaitForResponseEnter, Return
<1>8. CASE WaitForResponseOnAsyncCompletion(r)
  BY <1>8, DeliverTypes DEF WaitForResponseOnAsyncCompletion, Return, AfterReply
<1>9. CASE WaitForResponseGetNextStep(r)
  BY <1>9 DEF WaitForResponseGetNextStep, Goto, Return
<1>10. CASE WriteResponseEnter(r)
  BY <1>10 DEF WriteResponseEnter, Return, Fail, AfterWrite
<1>11. CASE WriteResponseOnAsyncCompletion(r)
  BY <1>11, DeliverTypes DEF WriteResponseOnAsyncCompletion, Return, AfterWrite
<1>12. CASE WriteResponseGetNextStep(r)
  BY <1>12 DEF WriteResponseGetNextStep, Goto, Return, handlerVars
<1>13. CASE FlushResponseEnter(r)
  BY <1>13 DEF FlushResponseEnter, Return, Fail
<1>14. CASE FlushResponseOnAsyncCompletion(r)
  BY <1>14, DeliverTypes DEF FlushResponseOnAsyncCompletion, Return
<1>15. CASE FlushResponseGetNextStep(r)
  BY <1>15 DEF FlushResponseGetNextStep, Goto, Return
<1>16. CASE CleanupStoredContext(r)
  BY <1>16 DEF CleanupStoredContext, Return
<1> QED
  BY <1>1, <1>2, <1>3, <1>4, <1>5, <1>6, <1>7, <1>8, <1>9, <1>10, <1>11, <1>12, <1>13,
     <1>14, <1>15, <1>16 DEF Handler

LEMMA HandlerDataTypeOK ==
  ASSUME TypeOK, NEW r \in Requests, RequestOK(r), Handler(r)
  PROVE  BodyTypeOK' /\ ResponseTypeOK' /\ TaskTypeOK'
<1>1. BodyTypeOK'
  <2>1. CASE \E n \in 1 .. remaining[r] : ReadBytes(r, n)
    BY <2>1, ReadBytesOK DEF RequestOK, TypeOK
  <2>2. CASE ~\E n \in 1 .. remaining[r] : ReadBytes(r, n)
    <3>1. UNCHANGED bodyVars
      BY <2>2 DEF Handler, ReadBodyEnter, ReadBodyOnAsyncCompletion,
         ReadBodyGetNextStep, SendToApplicationEnter,
         SendToApplicationOnAsyncCompletion, SendToApplicationGetNextStep,
         WaitForResponseEnter, WaitForResponseOnAsyncCompletion,
         WaitForResponseGetNextStep, WriteResponseEnter,
         WriteResponseOnAsyncCompletion, WriteResponseGetNextStep, FlushResponseEnter,
         FlushResponseOnAsyncCompletion, FlushResponseGetNextStep,
         CleanupStoredContext, bodyVars
    <3> QED BY <3>1, BodyTypeSame DEF TypeOK
  <2> QED BY <2>1, <2>2
<1>2. ResponseTypeOK'
  <2> USE DEF TypeOK, ResponseTypeOK
  <2>1. CASE ReadBodyEnter(r) \/ ReadBodyOnAsyncCompletion(r)
    BY <2>1 DEF ReadBodyEnter, ReadBodyOnAsyncCompletion, Fail
  <2>2. CASE WaitForResponseOnAsyncCompletion(r)
    BY <2>2 DEF WaitForResponseOnAsyncCompletion
  <2>3. CASE WriteResponseEnter(r)
    <3>1. m_asgi_response_msg[r] \in Nat
      BY DEF HandlerTypeOK
    <3>2. Append(written[r], m_asgi_response_msg[r]) \in Seq(Nat)
      BY <3>1
    <3> QED BY <2>3, <3>2 DEF WriteResponseEnter, Fail
  <2>4. CASE FlushResponseEnter(r) \/ FlushResponseOnAsyncCompletion(r)
    BY <2>4 DEF FlushResponseEnter, FlushResponseOnAsyncCompletion, Flushed, Fail
  <2>5. CASE UNCHANGED responseVars
    BY <2>5, ResponseTypeSame
  <2> QED
    BY <2>1, <2>2, <2>3, <2>4, <2>5 DEF Handler, ReadBodyGetNextStep,
       SendToApplicationEnter, SendToApplicationOnAsyncCompletion,
       SendToApplicationGetNextStep, WaitForResponseEnter, WaitForResponseGetNextStep,
       WriteResponseOnAsyncCompletion, WriteResponseGetNextStep,
       FlushResponseGetNextStep, CleanupStoredContext
<1>3. TaskTypeOK'
  <2>1. CASE SendToApplicationEnter(r)
    BY <2>1 DEF SendToApplicationEnter, TypeOK, TaskTypeOK, HandlerTypeOK
  <2>2. CASE ~SendToApplicationEnter(r)
    <3>1. UNCHANGED taskVars
      BY <2>2 DEF Handler, taskVars, ReadBodyEnter, ReadBodyOnAsyncCompletion,
         ReadBodyGetNextStep, SendToApplicationOnAsyncCompletion,
         SendToApplicationGetNextStep, WaitForResponseEnter,
         WaitForResponseOnAsyncCompletion, WaitForResponseGetNextStep,
         WriteResponseEnter, WriteResponseOnAsyncCompletion, WriteResponseGetNextStep,
         FlushResponseEnter, FlushResponseOnAsyncCompletion, FlushResponseGetNextStep,
         CleanupStoredContext
    <3> QED BY <3>1, TaskTypeSame DEF TypeOK
  <2> QED BY <2>1, <2>2
<1> QED BY <1>1, <1>2, <1>3

LEMMA HandlerPumpOK ==
  ASSUME TypeOK, PumpOK, NEW r \in Requests, RequestOK(r), Handler(r)
  PROVE  PumpOK'
<1>1. CASE WaitForResponseEnter(r)
  BY <1>1 DEF WaitForResponseEnter, AddChannel, At, RequestOK, StepOK, Steps, PumpOK,
     Registered, NoCallback, TypeOK, PumpTypeOK, Requests
<1>2. CASE ~WaitForResponseEnter(r)
  <2>1. UNCHANGED pumpVars
    BY <1>2 DEF Handler, ReadBodyEnter, ReadBodyOnAsyncCompletion,
       ReadBodyGetNextStep, SendToApplicationEnter,
       SendToApplicationOnAsyncCompletion, SendToApplicationGetNextStep,
       WaitForResponseOnAsyncCompletion, WaitForResponseGetNextStep,
       WriteResponseEnter, WriteResponseOnAsyncCompletion, WriteResponseGetNextStep,
       FlushResponseEnter, FlushResponseOnAsyncCompletion, FlushResponseGetNextStep,
       CleanupStoredContext
  <2> QED BY <2>1 DEF pumpVars, PumpOK, Registered
<1> QED BY <1>1, <1>2

LEMMA HandlerStep ==
  ASSUME IInv, NEW r \in Requests, Handler(r)
  PROVE  IInv'
<1>1. TypeOK'
  BY HandlerPumpTypeOK, HandlerHandlerTypeOK, HandlerDataTypeOK DEF IInv, TypeOK
<1>2. PumpOK'
  BY HandlerPumpOK DEF IInv
<1>3. ASSUME NEW q \in Requests PROVE RequestOK(q)'
  <2>1. CASE q = r
    BY <2>1, HandlerRequestOK DEF IInv
  <2>2. CASE q # r
    BY <2>2, HandlerFrame, RequestFrame DEF IInv
  <2> QED BY <2>1, <2>2
<1> QED BY <1>1, <1>2, <1>3 DEF IInv, Requests

-----------------------------------------------------------------------------
(* The PPL scheduler. *)

\* A send task belongs to the current step, which is pending and has no other wakeup.
LEMMA SendTaskLive ==
  ASSUME TypeOK, NEW t \in sends, RequestOK(t.request)
  PROVE  /\ t.request \in Requests /\ t.step \in Nat
         /\ step[t.request] = "SendToApplication"
         /\ result[t.request] = "AsyncPending"
         /\ OnlySend(t.request)
         /\ Live(t.request, t.step)
<1>1. t.request \in Requests /\ t.step \in Nat
  BY DEF TypeOK, TaskTypeOK
<1>2. ~NoSends(t.request)
  BY DEF NoSends
<1>3. /\ step[t.request] = "SendToApplication"
      /\ result[t.request] = "AsyncPending"
      /\ OnlySend(t.request)
  BY <1>2 DEF RequestOK, Wake, Quiet, OnlyIo, OnlyPosted, OnlyTask, OnlyCallback
<1>4. t.step = step_id[t.request]
  BY <1>3 DEF OnlySend
<1> QED BY <1>1, <1>3, <1>4 DEF Live, Steps

\* And so does a callback task, which finds no message in the step.
LEMMA CallbackTaskLive ==
  ASSUME TypeOK, NEW t \in tasks, RequestOK(t.channel)
  PROVE  /\ t.channel \in Requests /\ t.callback \in Nat /\ t.msg \in Nat \ {0}
         /\ step[t.channel] = "WaitForResponse"
         /\ result[t.channel] = "AsyncPending"
         /\ m_asgi_response_msg[t.channel] = 0
         /\ OnlyTask(t.channel)
         /\ Live(t.channel, t.callback)
<1>1. t.channel \in Requests /\ t.callback \in Nat /\ t.msg \in Nat \ {0}
  BY DEF TypeOK, PumpTypeOK, Requests
<1>2. ~NoTasks(t.channel)
  BY DEF NoTasks
<1>3. /\ step[t.channel] = "WaitForResponse"
      /\ result[t.channel] = "AsyncPending"
      /\ m_asgi_response_msg[t.channel] = 0
      /\ OnlyTask(t.channel)
  BY <1>2 DEF RequestOK, Wake, Quiet, OnlyIo, OnlyPosted, OnlySend, OnlyCallback
<1>4. t.callback = step_id[t.channel]
  BY <1>3 DEF OnlyTask
<1> QED BY <1>1, <1>3, <1>4 DEF Live, Steps

LEMMA RunSendStep ==
  ASSUME IInv, NEW t \in sends, RunSend(t)
  PROVE  IInv'
<1> DEFINE r == t.request
           u == [t EXCEPT !.pc = "post"]
<1>1. t \in [request : Requests, step : Nat, pc : {"send", "post"}]
  BY DEF IInv, TypeOK, TaskTypeOK
<1>2. /\ u \in [request : Requests, step : Nat, pc : {"send", "post"}]
      /\ u.request = r /\ u.step = t.step
  BY <1>1
<1>3. /\ r \in Requests /\ step[r] = "SendToApplication"
      /\ result[r] = "AsyncPending" /\ OnlySend(r) /\ Live(r, t.step)
  BY <1>1, SendTaskLive DEF IInv
<1>4. /\ sends' = (sends \ {t}) \cup {u}
      /\ request' = [request EXCEPT ![r] = "queued"]
      /\ UNCHANGED <<channelVars, pumpVars, handlerVars, bodyVars, responseVars, io,
                     completions, tails, worker>>
  BY <1>3 DEF RunSend
<1> HIDE DEF u, r
<1>5. TypeOK'
  <2>1. ChannelTypeOK' /\ PumpTypeOK' /\ BodyTypeOK' /\ ResponseTypeOK'
    BY <1>4, ChannelTypeSame, PumpTypeSame, BodyTypeSame, ResponseTypeSame DEF IInv, TypeOK
  <2>2. HandlerTypeOK'
    BY <1>3, <1>4 DEF IInv, TypeOK, HandlerTypeOK, handlerVars
  <2>3. TaskTypeOK'
    BY <1>2, <1>4 DEF IInv, TypeOK, TaskTypeOK
  <2> QED BY <2>1, <2>2, <2>3 DEF TypeOK
<1>6. PumpOK'
  BY <1>4 DEF IInv, PumpOK, pumpVars, Registered
<1>7. ASSUME NEW q \in Requests PROVE RequestOK(q)'
  <2>1. CASE q # r
    <3>1. SameRequest(q)
      BY <1>2, <1>4, <2>1 DEF SameRequest, r, handlerVars, bodyVars, pumpVars, IInv,
         TypeOK, HandlerTypeOK
    <3> QED BY <3>1, RequestFrame DEF IInv
  <2>2. CASE q = r
    <3>1. OnlySend(r)'
      <4>1. u \in sends' /\ u.request = r /\ u.step = step_id'[r]
        BY <1>2, <1>3, <1>4 DEF Live, handlerVars
      <4>2. \A v \in sends' : v.request = r => v = u
        BY <1>3, <1>4 DEF OnlySend, r
      <4>3. NoTasks(r)'
        BY <1>3, <1>4 DEF OnlySend, NoTasks, pumpVars
      <4> QED BY <1>3, <1>4, <4>1, <4>2, <4>3 DEF OnlySend, pumpVars
    <3>2. Wake(r)'
      BY <1>3, <1>4, <3>1 DEF Wake, handlerVars
    <3>3. StepOK(r)'
      BY <1>3, <1>4 DEF IInv, RequestOK, StepOK, handlerVars
    <3>4. BodyOK(r)'
      BY <1>3, <1>4 DEF IInv, RequestOK, BodyOK, handlerVars, bodyVars, TypeOK,
         HandlerTypeOK
    <3> QED BY <2>2, <3>2, <3>3, <3>4 DEF RequestOK
  <2> QED BY <2>1, <2>2
<1> QED BY <1>5, <1>6, <1>7 DEF IInv, Requests

LEMMA RunSendContinuationStep ==
  ASSUME IInv, NEW t \in sends, RunSendContinuation(t)
  PROVE  IInv'
<1> DEFINE r == t.request
<1>1. r \in Requests
  BY DEF IInv, TypeOK, TaskTypeOK
<1>2. /\ step[r] = "SendToApplication" /\ result[r] = "AsyncPending"
      /\ OnlySend(r) /\ Live(r, t.step)
  BY <1>1, SendTaskLive DEF IInv
<1>3. /\ sends' = sends \ {t}
      /\ completions' = [completions EXCEPT ![r] = @ + 1]
      /\ UNCHANGED <<channelVars, pumpVars, handlerVars, bodyVars, responseVars, io,
                     request, tails, worker>>
  BY <1>2 DEF RunSendContinuation, PostCompletion
<1>4. completions'[r] = 1
  BY <1>1, <1>2, <1>3 DEF OnlySend, IInv, TypeOK, HandlerTypeOK
<1>5. TypeOK'
  <2>1. ChannelTypeOK' /\ PumpTypeOK' /\ BodyTypeOK' /\ ResponseTypeOK'
    BY <1>3, ChannelTypeSame, PumpTypeSame, BodyTypeSame, ResponseTypeSame DEF IInv, TypeOK
  <2>2. HandlerTypeOK'
    BY <1>1, <1>3 DEF IInv, TypeOK, HandlerTypeOK, handlerVars
  <2>3. TaskTypeOK'
    BY <1>3 DEF IInv, TypeOK, TaskTypeOK
  <2> QED BY <2>1, <2>2, <2>3 DEF TypeOK
<1>6. PumpOK'
  BY <1>3 DEF IInv, PumpOK, pumpVars, Registered
<1>7. ASSUME NEW q \in Requests PROVE RequestOK(q)'
  <2>1. CASE q # r
    <3>1. SameRequest(q)
      BY <1>3, <2>1 DEF SameRequest, handlerVars, bodyVars, pumpVars, IInv, TypeOK,
         HandlerTypeOK
    <3> QED BY <3>1, RequestFrame DEF IInv
  <2>2. CASE q = r
    <3>1. NoSends(r)' /\ NoTasks(r)'
      BY <1>2, <1>3 DEF OnlySend, NoSends, NoTasks, pumpVars
    <3>2. OnlyPosted(r)'
      BY <1>2, <1>3, <1>4, <3>1 DEF OnlySend, OnlyPosted, pumpVars
    <3>3. Wake(r)'
      BY <1>2, <1>3, <3>2 DEF Wake, handlerVars
    <3>4. StepOK(r)' /\ BodyOK(r)'
      BY <1>1, <1>3 DEF IInv, RequestOK, StepOK, BodyOK, handlerVars, bodyVars
    <3> QED BY <2>2, <3>3, <3>4 DEF RequestOK
  <2> QED BY <2>1, <2>2
<1> QED BY <1>5, <1>6, <1>7 DEF IInv, Requests

LEMMA RunCallbackStep ==
  ASSUME IInv, NEW t \in tasks, RunCallback(t)
  PROVE  IInv'
<1> DEFINE r == t.channel
<1>1. r \in Requests /\ t.callback \in Nat /\ t.msg \in Nat \ {0}
  BY DEF IInv, TypeOK, PumpTypeOK, Requests
<1>2. /\ step[r] = "WaitForResponse" /\ result[r] = "AsyncPending"
      /\ OnlyTask(r) /\ Live(r, t.callback)
  BY <1>1, CallbackTaskLive DEF IInv
<1>3. /\ tasks' = tasks \ {t}
      /\ m_asgi_response_msg' = [m_asgi_response_msg EXCEPT ![r] = t.msg]
      /\ completions' = [completions EXCEPT ![r] = @ + 1]
      /\ tails' = tails \cup {[request |-> r, step |-> t.callback]}
      /\ UNCHANGED <<channelVars, m_callbacks, m_thread_stop, pc, channel_names,
                     received, step, step_id, result, bodyVars, responseVars, io,
                     request, sends, worker>>
  BY <1>2 DEF RunCallback, PostCompletion, TaskDone
<1>4. completions'[r] = 1 /\ m_asgi_response_msg'[r] = t.msg
  BY <1>1, <1>2, <1>3 DEF OnlyTask, IInv, TypeOK, HandlerTypeOK
<1>5. TypeOK'
  <2>1. ChannelTypeOK' /\ BodyTypeOK' /\ ResponseTypeOK'
    BY <1>3, ChannelTypeSame, BodyTypeSame, ResponseTypeSame DEF IInv, TypeOK
  <2>2. PumpTypeOK'
    BY <1>3 DEF IInv, TypeOK, PumpTypeOK
  <2>3. HandlerTypeOK'
    BY <1>1, <1>3 DEF IInv, TypeOK, HandlerTypeOK
  <2>4. TaskTypeOK'
    BY <1>1, <1>3 DEF IInv, TypeOK, TaskTypeOK
  <2> QED BY <2>1, <2>2, <2>3, <2>4 DEF TypeOK
<1>6. PumpOK'
  BY <1>3 DEF IInv, PumpOK, Registered
<1>7. ASSUME NEW q \in Requests PROVE RequestOK(q)'
  <2>1. CASE q # r
    <3>1. SameRequest(q)
      BY <1>3, <2>1 DEF SameRequest, bodyVars, IInv, TypeOK, HandlerTypeOK
    <3> QED BY <3>1, RequestFrame DEF IInv
  <2>2. CASE q = r
    <3>1. NoSends(r)' /\ NoTasks(r)'
      BY <1>2, <1>3 DEF OnlyTask, NoSends, NoTasks
    <3>2. OnlyPosted(r)'
      BY <1>2, <1>3, <1>4, <3>1 DEF OnlyTask, OnlyPosted
    <3>3. Wake(r)'
      BY <1>1, <1>2, <1>3, <1>4, <3>2 DEF Wake
    <3>4. StepOK(r)' /\ BodyOK(r)'
      BY <1>1, <1>2, <1>3 DEF IInv, RequestOK, StepOK, BodyOK, bodyVars
    <3> QED BY <2>2, <3>3, <3>4 DEF RequestOK
  <2> QED BY <2>1, <2>2
<1> QED BY <1>5, <1>6, <1>7 DEF IInv, Requests

LEMMA RunCallbackTailStep ==
  ASSUME IInv, NEW t \in tails, RunCallbackTail(t)
  PROVE  IInv'
<1>1. /\ tails' = tails \ {t}
      /\ worker' \in {"running", "crashed"}
      /\ UNCHANGED <<channelVars, pumpVars, handlerVars, bodyVars, responseVars, io,
                     completions, request, sends>>
  BY DEF RunCallbackTail, UndefinedBehaviour
<1>2. TypeOK'
  <2>1. ChannelTypeOK' /\ PumpTypeOK' /\ BodyTypeOK' /\ ResponseTypeOK'
    BY <1>1, ChannelTypeSame, PumpTypeSame, BodyTypeSame, ResponseTypeSame DEF IInv, TypeOK
  <2>2. HandlerTypeOK' /\ TaskTypeOK'
    BY <1>1 DEF IInv, TypeOK, HandlerTypeOK, TaskTypeOK, handlerVars
  <2> QED BY <2>1, <2>2 DEF TypeOK
<1>3. PumpOK'
  BY <1>1 DEF IInv, PumpOK, pumpVars, Registered
<1>4. ASSUME NEW q \in Requests PROVE RequestOK(q)'
  <2>1. SameRequest(q)
    BY <1>1 DEF SameRequest, handlerVars, bodyVars, pumpVars
  <2> QED BY <2>1, RequestFrame DEF IInv
<1> QED BY <1>2, <1>3, <1>4 DEF IInv, Requests

-----------------------------------------------------------------------------
(* IIS handing in a request, the application and Redis. *)

LEMMA OnExecuteStep ==
  ASSUME IInv, NEW r \in Requests, OnExecuteRequestHandler(r)
  PROVE  IInv'
<1>1. PICK n \in 0 .. MaxBody :
        /\ remaining' = [remaining EXCEPT ![r] = n]
        /\ body' = [body EXCEPT ![r] = [p \in 1 .. n |-> 0]]
  BY DEF OnExecuteRequestHandler
<1> DEFINE empty == [p \in 1 .. n |-> 0]
<1>2. n \in Nat
  BY BodyAssumption
<1>3. empty \in Seq(Nat) /\ Len(empty) = n
  <2>1. empty \in [1 .. n -> Nat]
    OBVIOUS
  <2>2. empty \in Seq(Nat)
    BY <1>2, <2>1, SeqDef
  <2>3. DOMAIN empty = 1 .. Len(empty) /\ Len(empty) \in Nat
    BY <2>2, LenProperties
  <2> QED BY <1>2, <2>2, <2>3
<1> HIDE DEF empty
<1>4. /\ step[r] = "none" /\ result[r] = "none"
      /\ step' = [step EXCEPT ![r] = "ReadBody"]
      /\ step_id' = [step_id EXCEPT ![r] = @ + 1]
      /\ result' = [result EXCEPT ![r] = "Rerun"]
      /\ m_body_bytes_read' = [m_body_bytes_read EXCEPT ![r] = 0]
      /\ body' = [body EXCEPT ![r] = empty]
      /\ UNCHANGED <<channelVars, pumpVars, worker, m_asgi_response_msg, responseVars,
                     io, completions, request, taskVars>>
  BY <1>1 DEF OnExecuteRequestHandler, At, Goto, Return, empty
<1>5. Quiet(r)
  BY <1>4 DEF IInv, RequestOK, Wake
<1>6. TypeOK'
  <2>1. ChannelTypeOK' /\ PumpTypeOK' /\ ResponseTypeOK' /\ TaskTypeOK'
    BY <1>4, ChannelTypeSame, PumpTypeSame, ResponseTypeSame, TaskTypeSame
    DEF IInv, TypeOK
  <2>2. HandlerTypeOK'
    BY <1>4 DEF IInv, TypeOK, HandlerTypeOK, Steps
  <2>3. BodyTypeOK'
    BY <1>1, <1>2, <1>3, <1>4 DEF IInv, TypeOK, BodyTypeOK
  <2> QED BY <2>1, <2>2, <2>3 DEF TypeOK
<1>7. PumpOK'
  BY <1>4 DEF IInv, PumpOK, pumpVars, Registered
<1>8. ASSUME NEW q \in Requests PROVE RequestOK(q)'
  <2>1. CASE q # r
    <3>1. SameRequest(q)
      BY <1>1, <1>4, <2>1 DEF SameRequest, pumpVars, taskVars, IInv, TypeOK,
         HandlerTypeOK, BodyTypeOK
    <3> QED BY <3>1, RequestFrame DEF IInv
  <2>2. CASE q = r
    <3>1. Quiet(r)'
      BY <1>4, <1>5 DEF Quiet, NoSends, NoTasks, pumpVars, taskVars
    <3>2. Wake(r)'
      BY <1>4, <3>1 DEF Wake, IInv, TypeOK, HandlerTypeOK
    <3>3. StepOK(r)'
      BY <1>4 DEF StepOK, Steps, IInv, RequestOK, TypeOK, HandlerTypeOK
    <3>4. BodyOK(r)'
      <4>1. body'[r] = empty /\ remaining'[r] = n /\ m_body_bytes_read'[r] = 0
        BY <1>1, <1>4 DEF IInv, TypeOK, BodyTypeOK
      <4>2. /\ step'[r] = "ReadBody" /\ result'[r] = "Rerun"
            /\ request'[r] = "unsent"
        BY <1>4 DEF IInv, RequestOK, BodyOK, TypeOK, HandlerTypeOK
      <4>3. 0 + n = Len(empty)
        BY <1>2, <1>3
      <4> QED BY <4>1, <4>2, <4>3 DEF BodyOK
    <3> QED BY <2>2, <3>2, <3>3, <3>4 DEF RequestOK
  <2> QED BY <2>1, <2>2
<1> QED BY <1>6, <1>7, <1>8 DEF IInv, Requests

\* The application and Redis touch only the channels and where http.request is.
LEMMA OutsideStep ==
  ASSUME IInv, NEW r \in Requests,
         \/ AppReceive(r) \/ RequestExpires(r) \/ ReplyExpires(r)
         \/ \E m \in Payloads : AppSend(r, m)
  PROVE  IInv'
<1>1. UNCHANGED <<pumpVars, worker, clientVars>>
  BY DEF AppReceive, RequestExpires, ReplyExpires, AppSend
<1>2. /\ request' \in [Requests -> {"unsent", "queued", "lost", "taken"}]
      /\ \A q \in Requests : request'[q] = "unsent" <=> request[q] = "unsent"
  BY DEF AppReceive, RequestExpires, ReplyExpires, AppSend, IInv, TypeOK, HandlerTypeOK
<1>3. ChannelTypeOK'
  <2>1. CASE AppReceive(r) \/ RequestExpires(r)
    BY <2>1, ChannelTypeSame DEF AppReceive, RequestExpires, IInv, TypeOK
  <2>2. CASE ReplyExpires(r)
    BY <2>2 DEF ReplyExpires, Expire, Unread, IInv, TypeOK, ChannelTypeOK, Requests
  <2>3. CASE \E m \in Payloads : AppSend(r, m)
    BY <2>3 DEF AppSend, Send, IInv, TypeOK, ChannelTypeOK, Requests
  <2> QED BY <2>1, <2>2, <2>3
<1>4. TypeOK'
  <2>1. PumpTypeOK' /\ BodyTypeOK' /\ ResponseTypeOK' /\ TaskTypeOK'
    BY <1>1, PumpTypeSame, BodyTypeSame, ResponseTypeSame, TaskTypeSame
    DEF clientVars, IInv, TypeOK
  <2>2. HandlerTypeOK'
    BY <1>1, <1>2 DEF clientVars, handlerVars, IInv, TypeOK, HandlerTypeOK
  <2> QED BY <1>3, <2>1, <2>2 DEF TypeOK
<1>5. PumpOK'
  BY <1>1 DEF IInv, PumpOK, pumpVars, Registered
<1>6. ASSUME NEW q \in Requests PROVE RequestOK(q)'
  <2>1. RequestOK(q)
    BY DEF IInv
  <2>2. NoSends(q)' = NoSends(q) /\ NoTasks(q)' = NoTasks(q)
    BY <1>1 DEF NoSends, NoTasks, clientVars, pumpVars, taskVars
  <2>3. Wake(q)'
    BY <1>1, <2>1, <2>2 DEF RequestOK, Wake, Quiet, OnlyIo, OnlyPosted, OnlySend,
       OnlyTask, OnlyCallback, clientVars, handlerVars, pumpVars, taskVars
  <2>4. StepOK(q)'
    BY <1>1, <2>1 DEF RequestOK, StepOK, clientVars, handlerVars
  <2>5. BodyOK(q)'
    BY <1>1, <1>2, <2>1 DEF RequestOK, BodyOK, clientVars, handlerVars, bodyVars
  <2> QED BY <2>3, <2>4, <2>5 DEF RequestOK
<1> QED BY <1>4, <1>5, <1>6 DEF IInv, Requests

LEMMA EnvironmentStep ==
  ASSUME IInv, NEW r \in Requests, Environment(r)
  PROVE  IInv'
  BY OnExecuteStep, OutsideStep DEF Environment

-----------------------------------------------------------------------------
(* The pump. *)

\* A registered callback is the only wakeup of its request.
LEMMA RegisteredLive ==
  ASSUME TypeOK, NEW r \in Requests, RequestOK(r), r \in Registered
  PROVE  /\ step[r] = "WaitForResponse" /\ result[r] = "AsyncPending"
         /\ m_asgi_response_msg[r] = 0
         /\ OnlyCallback(r)
         /\ Live(r, m_callbacks[r])
<1>1. m_callbacks[r] # NoCallback
  BY DEF Registered
<1>2. /\ step[r] = "WaitForResponse" /\ result[r] = "AsyncPending"
      /\ m_asgi_response_msg[r] = 0 /\ OnlyCallback(r)
  BY <1>1 DEF RequestOK, Wake, Quiet, OnlyIo, OnlyPosted, OnlySend, OnlyTask
<1> QED BY <1>2 DEF Live, Steps, OnlyCallback

LEMMA DispatchStep ==
  ASSUME IInv, Dispatch, UNCHANGED <<worker, clientVars, request>>
  PROVE  IInv'
<1>1. PICK d \in received :
        IF d.channel \in Registered
        THEN Erase(d.channel) /\ tasks' = tasks \cup {Task(d)}
        ELSE UNCHANGED <<m_callbacks, tasks>>
  BY DEF Dispatch
<1> DEFINE r == d.channel
<1>2. r \in Requests /\ d.msg \in Nat \ {0} /\ r \in Registered
  BY DEF Dispatch, IInv, PumpOK, TypeOK, PumpTypeOK, Requests
<1>3. /\ m_callbacks' = [m_callbacks EXCEPT ![r] = NoCallback]
      /\ tasks' = tasks \cup {Task(d)}
      /\ pc' = "top" /\ channel_names' = {} /\ received' = {}
      /\ UNCHANGED <<m_thread_stop, channelVars>>
  BY <1>1, <1>2 DEF Erase, Dispatch, BackToTop
<1>4. Task(d) = [channel |-> r, callback |-> m_callbacks[r], msg |-> d.msg]
  BY DEF Task
<1>5. m_callbacks[r] \in Nat \ {NoCallback}
  BY <1>2 DEF Registered, IInv, TypeOK, PumpTypeOK, Requests
<1>6. TypeOK'
  <2>1. /\ ChannelTypeOK' /\ HandlerTypeOK' /\ BodyTypeOK' /\ ResponseTypeOK'
        /\ TaskTypeOK'
    BY <1>3, ChannelTypeSame, HandlerTypeSame, BodyTypeSame, ResponseTypeSame,
       TaskTypeSame DEF clientVars, IInv, TypeOK
  <2>2. PumpTypeOK'
    BY <1>2, <1>3, <1>4, <1>5 DEF IInv, TypeOK, PumpTypeOK, Requests, NoCallback
  <2> QED BY <2>1, <2>2 DEF TypeOK
<1>7. PumpOK'
  BY <1>3 DEF PumpOK
<1>8. ASSUME NEW q \in Requests PROVE RequestOK(q)'
  <2>1. CASE q # r
    <3>1. SameRequest(q)
      BY <1>3, <1>4, <2>1 DEF SameRequest, clientVars, handlerVars, bodyVars, taskVars,
         IInv, TypeOK, PumpTypeOK, Requests
    <3> QED BY <3>1, RequestFrame DEF IInv
  <2>2. CASE q = r
    <3>1. /\ step[r] = "WaitForResponse" /\ result[r] = "AsyncPending"
          /\ m_asgi_response_msg[r] = 0 /\ OnlyCallback(r)
      BY <1>2, RegisteredLive DEF IInv
    <3>2. OnlyTask(r)'
      <4>1. NoSends(r)' /\ ~io'[r] /\ completions'[r] = 0 /\ step_id'[r] = step_id[r]
        BY <3>1 DEF OnlyCallback, NoSends, clientVars, taskVars, handlerVars
      <4>2. m_callbacks'[r] = NoCallback
        BY <1>2, <1>3 DEF IInv, TypeOK, PumpTypeOK, Requests
      <4>3. Task(d) \in tasks' /\ Task(d).channel = r /\ Task(d).callback = step_id[r]
        BY <1>3, <1>4, <3>1 DEF OnlyCallback
      <4>4. \A u \in tasks' : u.channel = r => u = Task(d)
        BY <1>3, <3>1 DEF OnlyCallback, NoTasks
      <4> QED BY <4>1, <4>2, <4>3, <4>4 DEF OnlyTask
    <3>3. Wake(r)'
      BY <3>1, <3>2 DEF Wake, clientVars, handlerVars
    <3>4. StepOK(r)' /\ BodyOK(r)'
      BY <1>2 DEF IInv, RequestOK, StepOK, BodyOK, clientVars, handlerVars, bodyVars
    <3> QED BY <2>2, <3>3, <3>4 DEF RequestOK
  <2> QED BY <2>1, <2>2
<1> QED BY <1>6, <1>7, <1>8 DEF IInv, Requests

\* The rest of ThreadMain touches nothing a request depends on.
LEMMA PollStep ==
  ASSUME IInv, UNCHANGED <<worker, clientVars, request>>,
         Snapshot \/ ReceiveTimeout \/ \E c \in Channels : ReceiveMessage(c)
  PROVE  IInv'
<1>1. UNCHANGED <<m_callbacks, m_thread_stop, tasks>>
  BY DEF Snapshot, ReceiveTimeout, ReceiveMessage
<1>2. ChannelTypeOK' /\ PumpTypeOK' /\ PumpOK'
  <2>1. CASE Snapshot
    BY <2>1, ChannelTypeSame DEF Snapshot, IInv, TypeOK, PumpTypeOK, PumpOK, Registered
  <2>2. CASE ReceiveTimeout
    BY <2>2, ChannelTypeSame DEF ReceiveTimeout, BackToTop, IInv, TypeOK, PumpTypeOK,
       PumpOK
  <2>3. ASSUME NEW c \in Channels, ReceiveMessage(c)
        PROVE  ChannelTypeOK' /\ PumpTypeOK' /\ PumpOK'
    <3>1. c \in channel_names /\ channel_names \subseteq Registered
      BY <2>3 DEF ReceiveMessage, IInv, PumpOK
    <3>2. PICK i \in 1 .. MaxMessages :
            /\ Blpop(c, i)
            /\ IF i \in expired[c]
               THEN BackToTop
               ELSE /\ pc' = "dispatch"
                    /\ received' = {[channel |-> c, msg |-> i]}
                    /\ UNCHANGED channel_names
      BY <2>3 DEF ReceiveMessage
    <3>3. i \in Nat \ {0}
      BY <3>2, ChannelLayerAssumption
    <3>4. ChannelTypeOK'
      BY <3>2, <3>3 DEF Blpop, IInv, TypeOK, ChannelTypeOK
    <3>5. CASE i \in expired[c]
      BY <1>1, <3>2, <3>4, <3>5 DEF BackToTop, IInv, TypeOK, PumpTypeOK, PumpOK
    <3>6. CASE i \notin expired[c]
      <4>1. /\ pc' = "dispatch" /\ UNCHANGED channel_names
            /\ received' = {[channel |-> c, msg |-> i]}
        BY <3>2, <3>6
      <4>2. PumpTypeOK'
        BY <1>1, <3>3, <4>1 DEF IInv, TypeOK, PumpTypeOK
      <4>3. PumpOK'
        BY <1>1, <3>1, <4>1 DEF PumpOK, Registered
      <4> QED BY <3>4, <4>2, <4>3
    <3> QED BY <3>5, <3>6
  <2> QED BY <2>1, <2>2, <2>3
<1>3. TypeOK'
  BY <1>2, HandlerTypeSame, BodyTypeSame, ResponseTypeSame, TaskTypeSame
  DEF clientVars, IInv, TypeOK
<1>4. ASSUME NEW q \in Requests PROVE RequestOK(q)'
  <2>1. SameRequest(q)
    BY <1>1 DEF SameRequest, clientVars, handlerVars, bodyVars, taskVars
  <2> QED BY <2>1, RequestFrame DEF IInv
<1> QED BY <1>2, <1>3, <1>4 DEF IInv, Requests

LEMMA PumpStep == IInv /\ Pump => IInv'
  BY DispatchStep, PollStep DEF Pump, PumpLoop

LEMMA StutterStep == IInv /\ UNCHANGED vars => IInv'
<1> SUFFICES ASSUME IInv, UNCHANGED vars PROVE IInv'
  OBVIOUS
<1>1. UNCHANGED <<channelVars, pumpVars, worker, handlerVars, bodyVars, responseVars, io,
                  completions, request, taskVars>>
  BY DEF vars
<1>2. TypeOK'
  BY <1>1, ChannelTypeSame, PumpTypeSame, HandlerTypeSame, BodyTypeSame,
     ResponseTypeSame, TaskTypeSame DEF IInv, TypeOK
<1>3. PumpOK'
  BY <1>1 DEF IInv, PumpOK, pumpVars, Registered
<1>4. ASSUME NEW q \in Requests PROVE RequestOK(q)'
  <2>1. SameRequest(q)
    BY <1>1 DEF SameRequest, handlerVars, bodyVars, pumpVars, taskVars
  <2> QED BY <2>1, RequestFrame DEF IInv
<1> QED BY <1>2, <1>3, <1>4 DEF IInv, Requests

-----------------------------------------------------------------------------
(* The invariant. *)

\* IInv holds before IIS has handed in a request.
LEMMA InitIInv == Init => IInv
<1> SUFFICES ASSUME Init PROVE IInv
  OBVIOUS
<1> USE DEF Init, ChannelInit, PumpInit
<1>1. ChannelTypeOK
  <2>1. <<>> \in Seq(Payloads)
    BY EmptySeq
  <2> QED BY <2>1 DEF ChannelTypeOK
<1>2. PumpTypeOK
  BY DEF PumpTypeOK, NoCallback
<1>3. HandlerTypeOK
  BY DEF HandlerTypeOK
<1>4. BodyTypeOK /\ ResponseTypeOK /\ TaskTypeOK
  BY EmptySeq DEF BodyTypeOK, ResponseTypeOK, TaskTypeOK
<1>5. PumpOK
  BY DEF PumpOK
<1>6. ASSUME NEW r \in Requests PROVE RequestOK(r)
  <2>1. Wake(r)
    BY DEF Wake, Quiet, NoSends, NoTasks, NoCallback, Requests
  <2>2. StepOK(r)
    BY DEF StepOK, Steps
  <2>3. Len(body[r]) = 0
    BY EmptySeq
  <2>4. BodyOK(r)
    BY <2>3 DEF BodyOK
  <2> QED BY <2>1, <2>2, <2>4 DEF RequestOK
<1> QED BY <1>1, <1>2, <1>3, <1>4, <1>5, <1>6 DEF IInv, TypeOK

\* Every action of the system preserves IInv.
LEMMA NextIInv == IInv /\ [Next]_vars => IInv'
<1> SUFFICES ASSUME IInv, [Next]_vars PROVE IInv'
  OBVIOUS
<1>1. ASSUME NEW r \in Requests, Handler(r) PROVE IInv'
  BY <1>1, HandlerStep
<1>2. ASSUME NEW r \in Requests, Environment(r) PROVE IInv'
  BY <1>2, EnvironmentStep
<1>3. CASE Scheduler
  BY <1>3, RunSendStep, RunSendContinuationStep, RunCallbackStep, RunCallbackTailStep
  DEF Scheduler
<1>4. CASE Pump
  BY <1>4, PumpStep
<1>5. CASE UNCHANGED vars
  BY <1>5, StutterStep
<1> QED BY <1>1, <1>2, <1>3, <1>4, <1>5 DEF Next

\* The invariant the theorems below are read off from.
THEOREM Invariance == Spec => []IInv
<1> QED BY InitIInv, NextIInv, PTL DEF Spec

\* Every variable keeps its type, for any number of requests, replies and bytes.
THEOREM TypeCorrect == Spec => []TypeOK
<1>1. IInv => TypeOK
  BY DEF IInv
<1> QED BY <1>1, Invariance, PTL

\* The cardinalities of Wakeups, from the five exclusive ways of IInv.
LEMMA WakeupsOfIInv ==
  ASSUME IInv, NEW r \in Requests
  PROVE  Wakeups(r) = IF result[r] = "AsyncPending" THEN 1 ELSE 0
<1> DEFINE S == {t \in sends : t.request = r}
           T == {t \in tasks : t.channel = r}
<1>1. Wake(r) /\ completions[r] \in Nat /\ io[r] \in BOOLEAN
  BY DEF IInv, RequestOK, TypeOK, HandlerTypeOK
<1>2. NoSends(r) => Cardinality(S) = 0
  <2>1. NoSends(r) => S = {}
    BY DEF NoSends
  <2> QED BY <2>1, FS_EmptySet
<1>3. NoTasks(r) => Cardinality(T) = 0
  <2>1. NoTasks(r) => T = {}
    BY DEF NoTasks
  <2> QED BY <2>1, FS_EmptySet
<1>4. OnlySend(r) => Cardinality(S) = 1
  <2>1. OnlySend(r) => \E t : S = {t}
    BY DEF OnlySend
  <2> QED BY <2>1, FS_Singleton
<1>5. OnlyTask(r) => Cardinality(T) = 1
  <2>1. OnlyTask(r) => \E t : T = {t}
    BY DEF OnlyTask
  <2> QED BY <2>1, FS_Singleton
<1>6. r \in Registered <=> m_callbacks[r] # NoCallback
  BY DEF Registered, Requests
<1>7. Wakeups(r) = (IF io[r] THEN 1 ELSE 0) + completions[r] + Cardinality(S)
                   + Cardinality(T) + (IF m_callbacks[r] # NoCallback THEN 1 ELSE 0)
  BY <1>6 DEF Wakeups
<1> HIDE DEF S, T
<1>8. CASE Quiet(r)
  <2>1. result[r] # "AsyncPending"
    BY <1>1, <1>8 DEF Wake, Quiet, OnlyIo, OnlyPosted, OnlySend, OnlyTask, OnlyCallback,
       NoSends, NoTasks, IInv, RequestOK, StepOK, Steps, NoCallback
  <2> QED BY <1>2, <1>3, <1>7, <1>8, <2>1 DEF Quiet
<1>9. CASE result[r] = "AsyncPending" /\ OnlyIo(r)
  BY <1>2, <1>3, <1>7, <1>9 DEF OnlyIo
<1>10. CASE result[r] = "AsyncPending" /\ OnlyPosted(r)
  BY <1>2, <1>3, <1>7, <1>10 DEF OnlyPosted
<1>11. CASE result[r] = "AsyncPending" /\ OnlySend(r)
  BY <1>3, <1>4, <1>7, <1>11 DEF OnlySend
<1>12. CASE result[r] = "AsyncPending" /\ OnlyTask(r)
  BY <1>2, <1>5, <1>7, <1>12 DEF OnlyTask
<1>13. CASE result[r] = "AsyncPending" /\ OnlyCallback(r) /\ step[r] = "WaitForResponse"
  <2>1. m_callbacks[r] # NoCallback
    BY <1>13 DEF OnlyCallback, IInv, RequestOK, StepOK, Steps, NoCallback
  <2> QED BY <1>2, <1>3, <1>7, <1>13, <2>1 DEF OnlyCallback
<1> QED BY <1>1, <1>8, <1>9, <1>10, <1>11, <1>12, <1>13 DEF Wake

\* A pending request has exactly one wakeup under way, any other none: no request
\* hangs for want of a completion, and no completion reaches a step it is not for.
THEOREM OneWakeup == Spec => []ExactlyOneWakeup
<1>1. IInv => ExactlyOneWakeup
  BY WakeupsOfIInv DEF ExactlyOneWakeup
<1> QED BY <1>1, Invariance, PTL

\* No registered callback, no callback task and no send task ever holds a destroyed
\* step up to its PostCompletion.
THEOREM NoDangling == Spec => []NoDanglingCallback
<1>1. ASSUME IInv PROVE NoDanglingCallback
  <2>1. ASSUME NEW r \in Registered
        PROVE  Live(r, m_callbacks[r]) /\ step[r] = "WaitForResponse"
    BY <1>1, RegisteredLive DEF IInv, Registered, Requests
  <2>2. ASSUME NEW t \in tasks
        PROVE  Live(t.channel, t.callback) /\ step[t.channel] = "WaitForResponse"
    <3>1. t.channel \in Requests
      BY <1>1 DEF IInv, TypeOK, PumpTypeOK, Requests
    <3> QED BY <1>1, <3>1, CallbackTaskLive DEF IInv
  <2>3. ASSUME NEW t \in sends
        PROVE  Live(t.request, t.step) /\ step[t.request] = "SendToApplication"
    <3>1. t.request \in Requests
      BY <1>1 DEF IInv, TypeOK, TaskTypeOK
    <3> QED BY <1>1, <3>1, SendTaskLive DEF IInv
  <2> QED BY <2>1, <2>2, <2>3 DEF NoDanglingCallback
<1>2. IInv => NoDanglingCallback
  BY <1>1
<1> QED BY <1>2, Invariance, PTL

\* The pump always finds the callback of a message it has received: the branch of
\* ThreadMain that drops a reply is dead for this client.
THEOREM NeverDropped == Spec => []ReplyNeverDropped
<1>1. IInv => ReplyNeverDropped
  BY DEF IInv, PumpOK, ReplyNeverDropped
<1> QED BY <1>1, Invariance, PTL

\* Whatever the application can read of a request is the whole entity, byte for byte.
THEOREM BodyWhole == Spec => []BodyForwardedWhole
<1>1. ASSUME IInv PROVE BodyForwardedWhole
  <2>1. ASSUME NEW r \in Requests, request[r] # "unsent"
        PROVE  body[r] = [p \in 1 .. Len(body[r]) |-> p]
    <3>1. BodyOK(r) /\ remaining[r] = 0
      BY <1>1, <2>1 DEF IInv, RequestOK, BodyOK
    <3>2. m_body_bytes_read[r] = Len(body[r])
      BY <1>1, <3>1 DEF BodyOK, IInv, TypeOK, BodyTypeOK
    <3>3. body[r] \in Seq(Nat)
      BY <1>1 DEF IInv, TypeOK, BodyTypeOK
    <3>4. body[r] \in [1 .. Len(body[r]) -> Nat]
      BY <3>3, LenProperties
    <3>5. \A p \in 1 .. Len(body[r]) : body[r][p] = p
      BY <3>1, <3>2 DEF BodyOK
    <3> QED BY <3>4, <3>5
  <2> QED BY <2>1 DEF BodyForwardedWhole
<1>2. IInv => BodyForwardedWhole
  BY <1>1
<1> QED BY <1>2, Invariance, PTL

-----------------------------------------------------------------------------
(* The way of a reply.  A second invariant follows the last message that was read    *)
(* from the channel of a request: it is on its way in one place, or was written, or   *)
(* had nothing to write.  All the earlier ones are done with.                         *)

SentOn(r) == {written[r][k] : k \in 1 .. Len(written[r])}

\* Reply j is done with, and more was announced.
Handled(r, j) ==
    \/ j \in expired[r]
    \/ sent[r][j].more_content /\ (sent[r][j].content => j \in SentOn(r))

AllHandled(r) == \A j \in 1 .. popped[r] : Handled(r, j)

\* The last reply is done with, and was final.
Complete(r) ==
    LET last == popped[r]
    IN  /\ last # 0 /\ last \notin expired[r]
        /\ ~sent[r][last].more_content
        /\ sent[r][last].content => last \in SentOn(r)

HistoryOK(r) ==
    /\ popped[r] <= Len(sent[r])
    /\ SentOn(r) \subseteq Owed(r)
    /\ InFlight(r) \subseteq {popped[r]} \ ({0} \cup expired[r])
    /\ \A j \in 1 .. popped[r] : j # popped[r] => Handled(r, j)

\* Where the last reply is, step by step, and what waits to be flushed.
StageOK(r) ==
    /\ step[r] \in {"none", "ReadBody", "SendToApplication"} =>
          /\ popped[r] = 0 /\ unflushed[r] # "data"
          /\ result[r] = "FinishRequest" => io_failed[r]
    /\ step[r] = "WaitForResponse" =>
          /\ InFlight(r) = {} => AllHandled(r)
          /\ InFlight(r) # {} => popped[r] \notin SentOn(r)
          /\ m_asgi_response_msg[r] = 0 =>
                unflushed[r] # "data" /\ result[r] \in {"Rerun", "AsyncPending"}
          /\ result[r] = "GotoNext" => Reply(r).content \/ Reply(r).more_content
          /\ result[r] = "FinishRequest" => ~(Reply(r).content \/ Reply(r).more_content)
    /\ step[r] = "WriteResponse" =>
          /\ m_asgi_response_msg[r] # 0 /\ Reply(r).content
          /\ result[r] = "Rerun" => popped[r] \notin SentOn(r)
          /\ result[r] # "Rerun" =>
                popped[r] \in SentOn(r) \/ (io_failed[r] /\ result[r] = "FinishRequest")
          /\ result[r] = "GotoNext" => Reply(r).more_content
          /\ result[r] = "FinishRequest" => io_failed[r] \/ ~Reply(r).more_content
    /\ step[r] = "FlushResponse" =>
          /\ AllHandled(r)
          /\ result[r] = "GotoNext" => unflushed[r] # "data"
          /\ result[r] = "FinishRequest" => io_failed[r]
    /\ step[r] = "destroyed" => io_failed[r] \/ Complete(r)

\* The pump holds one message at a time.
ReceivedOK ==
    /\ pc # "dispatch" => received = {}
    /\ \A d, e \in received : d = e

ReplyOK(r) == HistoryOK(r) /\ StageOK(r)

RInv ==
    /\ IInv
    /\ ReceivedOK
    /\ \A r \in Requests : ReplyOK(r)

\* What a step leaves alone that does nothing to the replies of q.
SameReply(q) ==
    /\ step'[q] = step[q]
    /\ result'[q] = result[q]
    /\ m_asgi_response_msg'[q] = m_asgi_response_msg[q]
    /\ written'[q] = written[q]
    /\ io_failed'[q] = io_failed[q]
    /\ unflushed'[q] = unflushed[q]
    /\ popped'[q] = popped[q]
    /\ popped[q] <= Len(sent'[q])
    /\ \A j \in 1 .. popped[q] : sent'[q][j] = sent[q][j] /\ (j \in expired'[q] <=> j \in expired[q])
    /\ InFlight(q)' = InFlight(q)

\* The sent and expired replies that were read do not change.
LEMMA HandledFrame ==
  ASSUME TypeOK, NEW q \in Requests, written'[q] = written[q], popped'[q] = popped[q],
         \A j \in 1 .. popped[q] : sent'[q][j] = sent[q][j] /\ (j \in expired'[q] <=> j \in expired[q])
  PROVE  /\ SentOn(q)' = SentOn(q)
         /\ \A j \in 1 .. popped[q] : Handled(q, j)' <=> Handled(q, j)
         /\ AllHandled(q)' <=> AllHandled(q)
         /\ Complete(q)' <=> Complete(q)
         /\ Owed(q)' = Owed(q)
<1>1. SentOn(q)' = SentOn(q)
  BY DEF SentOn
<1>2. \A j \in 1 .. popped[q] : Handled(q, j)' <=> Handled(q, j)
  BY <1>1 DEF Handled
<1>3. AllHandled(q)' <=> AllHandled(q)
  BY <1>2 DEF AllHandled
<1>4. popped[q] # 0 => popped[q] \in 1 .. popped[q]
  BY DEF TypeOK, ChannelTypeOK, Requests
<1>5. Complete(q)' <=> Complete(q)
  BY <1>1, <1>4 DEF Complete
<1>6. Owed(q)' = Owed(q)
  BY DEF Owed
<1> QED BY <1>1, <1>2, <1>3, <1>5, <1>6

\* The reply in hand is the last one read.
LEMMA InHand ==
  ASSUME TypeOK, NEW r \in Requests, HistoryOK(r), m_asgi_response_msg[r] # 0
  PROVE  /\ m_asgi_response_msg[r] = popped[r] /\ popped[r] \in 1 .. popped[r]
         /\ popped[r] \in 1 .. Len(sent[r]) /\ popped[r] \notin expired[r]
         /\ Reply(r) = sent[r][popped[r]]
<1>1. m_asgi_response_msg[r] \in InFlight(r)
  BY DEF InFlight
<1>2. m_asgi_response_msg[r] = popped[r] /\ popped[r] # 0 /\ popped[r] \notin expired[r]
  BY <1>1 DEF HistoryOK
<1>3. popped[r] \in Nat /\ popped[r] <= Len(sent[r]) /\ sent[r] \in Seq(Payloads)
  BY DEF TypeOK, ChannelTypeOK, HistoryOK, Requests
<1>4. Len(sent[r]) \in Nat
  BY <1>3, LenProperties
<1>5. Reply(r) = sent[r][popped[r]]
  BY <1>2 DEF Reply
<1> QED BY <1>2, <1>3, <1>4, <1>5

LEMMA ReplyFrame ==
  ASSUME TypeOK, NEW q \in Requests, ReplyOK(q), SameReply(q)
  PROVE  ReplyOK(q)'
<1>1. /\ SentOn(q)' = SentOn(q)
      /\ \A j \in 1 .. popped[q] : Handled(q, j)' <=> Handled(q, j)
      /\ AllHandled(q)' <=> AllHandled(q)
      /\ Complete(q)' <=> Complete(q)
      /\ Owed(q)' = Owed(q)
  BY HandledFrame DEF SameReply
<1>2. m_asgi_response_msg[q] # 0 => Reply(q)' = Reply(q)
  <2> SUFFICES ASSUME m_asgi_response_msg[q] # 0 PROVE Reply(q)' = Reply(q)
    OBVIOUS
  <2>1. m_asgi_response_msg[q] = popped[q] /\ popped[q] \in 1 .. popped[q]
    BY InHand DEF ReplyOK
  <2>2. m_asgi_response_msg'[q] = popped[q] /\ sent'[q][popped[q]] = sent[q][popped[q]]
    BY <2>1 DEF SameReply
  <2> QED BY <2>1, <2>2 DEF Reply
<1>3. popped[q] # 0 => (popped[q] \in expired'[q] <=> popped[q] \in expired[q])
  <2>1. popped[q] # 0 => popped[q] \in 1 .. popped[q]
    BY DEF TypeOK, ChannelTypeOK, Requests
  <2> QED BY <2>1 DEF SameReply
<1>4. HistoryOK(q)'
  BY <1>1, <1>3 DEF ReplyOK, HistoryOK, SameReply
<1>5. StageOK(q)'
  BY <1>1, <1>2 DEF ReplyOK, StageOK, SameReply
<1> QED BY <1>4, <1>5 DEF ReplyOK

-----------------------------------------------------------------------------
(* What IIS's threads do. *)

\* A handler that runs for r runs alone: nothing else carries a reply of r.
LEMMA RunsAlone ==
  ASSUME IInv, ReceivedOK, NEW r \in Requests, NoTasks(r), m_callbacks[r] = NoCallback
  PROVE  /\ \A d \in received : d.channel # r
         /\ InFlight(r) = {m_asgi_response_msg[r]} \ {0}
<1>1. \A d \in received : d.channel # r
  <2> SUFFICES ASSUME NEW d \in received, d.channel = r PROVE FALSE
    OBVIOUS
  <2>1. pc = "dispatch"
    BY DEF ReceivedOK
  <2>2. r \in Registered
    BY <2>1 DEF IInv, PumpOK
  <2> QED BY <2>2 DEF Registered
<1>2. {t.msg : t \in {u \in tasks : u.channel = r}} = {}
  BY DEF NoTasks
<1>3. {d.msg : d \in {e \in received : e.channel = r}} = {}
  BY <1>1
<1> QED BY <1>1, <1>2, <1>3 DEF InFlight

LEMMA HandlerAlone ==
  ASSUME IInv, ReceivedOK, NEW r \in Requests, Handler(r)
  PROVE  /\ NoTasks(r) /\ m_callbacks[r] = NoCallback
         /\ InFlight(r) = {m_asgi_response_msg[r]} \ {0}
         /\ UNCHANGED <<channelVars, received, tasks, pc>>
         /\ InFlight(r)' = {m_asgi_response_msg'[r]} \ {0}
<1>1. result[r] # "AsyncPending" \/ DeliverCompletion(r)
  BY DEF Handler, At, ReadBodyEnter, ReadBodyOnAsyncCompletion, ReadBodyGetNextStep,
     SendToApplicationEnter, SendToApplicationOnAsyncCompletion,
     SendToApplicationGetNextStep, WaitForResponseEnter,
     WaitForResponseOnAsyncCompletion, WaitForResponseGetNextStep, WriteResponseEnter,
     WriteResponseOnAsyncCompletion, WriteResponseGetNextStep, FlushResponseEnter,
     FlushResponseOnAsyncCompletion, FlushResponseGetNextStep, CleanupStoredContext
<1>2. Wake(r)
  BY DEF IInv, RequestOK
<1>3. NoTasks(r) /\ m_callbacks[r] = NoCallback
  BY <1>1, <1>2 DEF Wake, DeliverCompletion, Quiet, OnlyIo, OnlyPosted, OnlySend, OnlyTask,
     OnlyCallback
<1>4. /\ \A d \in received : d.channel # r
      /\ InFlight(r) = {m_asgi_response_msg[r]} \ {0}
  BY <1>3, RunsAlone
<1>5. UNCHANGED <<channelVars, received, tasks, pc>>
  BY DEF Handler, ReadBodyEnter, ReadBodyOnAsyncCompletion, ReadBodyGetNextStep,
     SendToApplicationEnter, SendToApplicationOnAsyncCompletion,
     SendToApplicationGetNextStep, WaitForResponseEnter, AddChannel, pumpVars,
     WaitForResponseOnAsyncCompletion, WaitForResponseGetNextStep, WriteResponseEnter,
     WriteResponseOnAsyncCompletion, WriteResponseGetNextStep, FlushResponseEnter,
     FlushResponseOnAsyncCompletion, FlushResponseGetNextStep, CleanupStoredContext
<1>6. InFlight(r)' = {m_asgi_response_msg'[r]} \ {0}
  <2>1. received' = received /\ tasks' = tasks
    BY <1>5
  <2>2. {t.msg : t \in {u \in tasks' : u.channel = r}} = {}
    BY <1>3, <2>1 DEF NoTasks
  <2>3. {d.msg : d \in {e \in received' : e.channel = r}} = {}
    BY <1>4, <2>1
  <2> QED BY <2>2, <2>3 DEF InFlight
<1> QED BY <1>3, <1>4, <1>5, <1>6


\* An action of the handler that writes nothing keeps the history.
LEMMA HandlerHistory ==
  ASSUME IInv, ReceivedOK, NEW r \in Requests, Handler(r), HistoryOK(r),
         written' = written, m_asgi_response_msg'[r] \in {0, m_asgi_response_msg[r]}
  PROVE  /\ HistoryOK(r)'
         /\ SentOn(r)' = SentOn(r)
         /\ AllHandled(r)' <=> AllHandled(r)
         /\ Complete(r)' <=> Complete(r)
         /\ popped' = popped /\ sent' = sent /\ expired' = expired
<1>1. UNCHANGED channelVars
  BY HandlerAlone
<1>2. popped' = popped /\ sent' = sent /\ expired' = expired
  BY <1>1 DEF channelVars
<1>3. /\ SentOn(r)' = SentOn(r)
      /\ \A j \in 1 .. popped[r] : Handled(r, j)' <=> Handled(r, j)
      /\ AllHandled(r)' <=> AllHandled(r)
      /\ Complete(r)' <=> Complete(r)
      /\ Owed(r)' = Owed(r)
  BY <1>2, HandledFrame DEF IInv
<1>4. InFlight(r)' \subseteq InFlight(r)
  BY HandlerAlone
<1>5. HistoryOK(r)'
  BY <1>2, <1>3, <1>4 DEF HistoryOK
<1> QED BY <1>2, <1>3, <1>5

LEMMA BodyReplyOK ==
  ASSUME IInv, ReceivedOK, NEW r \in Requests, ReplyOK(r), Handler(r),
         \/ ReadBodyEnter(r) \/ ReadBodyOnAsyncCompletion(r) \/ ReadBodyGetNextStep(r)
         \/ SendToApplicationEnter(r) \/ SendToApplicationOnAsyncCompletion(r)
         \/ SendToApplicationGetNextStep(r)
  PROVE  ReplyOK(r)'
<1>1. /\ written' = written /\ unflushed' = unflushed
      /\ m_asgi_response_msg' = m_asgi_response_msg
      /\ step[r] \in {"ReadBody", "SendToApplication"}
      /\ step'[r] \in {"ReadBody", "SendToApplication", "WaitForResponse"}
      /\ step'[r] = "WaitForResponse" => result'[r] = "Rerun"
      /\ result'[r] = "FinishRequest" => io_failed'[r]
  BY DEF ReadBodyEnter, ReadBodyOnAsyncCompletion, ReadBodyGetNextStep, At, Fail, Return,
     SendToApplicationEnter, SendToApplicationOnAsyncCompletion, Goto, ReadBytes,
     SendToApplicationGetNextStep, AfterRead, responseVars, IInv, TypeOK, HandlerTypeOK,
     ResponseTypeOK
<1>2. /\ HistoryOK(r)' /\ popped' = popped
      /\ AllHandled(r)' <=> AllHandled(r)
  BY <1>1, HandlerHistory DEF ReplyOK
<1>3. popped[r] = 0 /\ unflushed[r] # "data" /\ m_asgi_response_msg[r] = 0
  BY <1>1 DEF ReplyOK, StageOK, IInv, RequestOK, StepOK
<1>4. AllHandled(r)
  BY <1>3 DEF AllHandled
<1>5. InFlight(r)' = {}
  BY <1>1, <1>3, HandlerAlone
<1>6. StageOK(r)'
  BY <1>1, <1>2, <1>3, <1>4, <1>5 DEF StageOK
<1> QED BY <1>2, <1>6 DEF ReplyOK

LEMMA WaitReplyOK ==
  ASSUME IInv, ReceivedOK, NEW r \in Requests, ReplyOK(r), Handler(r),
         WaitForResponseEnter(r) \/ WaitForResponseOnAsyncCompletion(r)
  PROVE  ReplyOK(r)'
<1>1. /\ written' = written /\ step' = step /\ step[r] = "WaitForResponse"
      /\ m_asgi_response_msg' = m_asgi_response_msg
  BY DEF WaitForResponseEnter, WaitForResponseOnAsyncCompletion, At, responseVars
<1>2. /\ HistoryOK(r)' /\ popped' = popped /\ sent' = sent /\ expired' = expired
      /\ SentOn(r)' = SentOn(r)
      /\ AllHandled(r)' <=> AllHandled(r)
  BY <1>1, HandlerHistory DEF ReplyOK
<1>3. InFlight(r)' = InFlight(r)
  BY <1>1, HandlerAlone
<1>4. Reply(r)' = Reply(r)
  BY <1>1, <1>2 DEF Reply
<1>5. CASE WaitForResponseEnter(r)
  <2>1. /\ result'[r] = "AsyncPending" /\ unflushed' = unflushed
        /\ m_asgi_response_msg[r] = 0
    BY <1>5 DEF WaitForResponseEnter, At, Return, responseVars, IInv, TypeOK,
       HandlerTypeOK, RequestOK, StepOK
  <2>2. StageOK(r)'
    BY <1>1, <1>2, <1>3, <2>1 DEF ReplyOK, StageOK
  <2> QED BY <1>2, <2>2 DEF ReplyOK
<1>6. CASE WaitForResponseOnAsyncCompletion(r)
  <2>1. m_asgi_response_msg[r] # 0
    BY <1>6 DEF WaitForResponseOnAsyncCompletion, At, DeliverCompletion, IInv, RequestOK,
       Wake, OnlyCallback, OnlyTask
  <2>2. result'[r] = AfterReply(r)
    BY <1>6, <2>1 DEF WaitForResponseOnAsyncCompletion, Return, IInv, TypeOK,
       HandlerTypeOK
  <2>3. StageOK(r)'
    BY <1>1, <1>2, <1>3, <1>4, <2>1, <2>2 DEF ReplyOK, StageOK, AfterReply
  <2> QED BY <1>2, <2>3 DEF ReplyOK
<1> QED BY <1>5, <1>6

\* A chunk without content is done with, any other is yet to be written.
LEMMA WaitNextReplyOK ==
  ASSUME IInv, ReceivedOK, NEW r \in Requests, ReplyOK(r), Handler(r),
         WaitForResponseGetNextStep(r)
  PROVE  ReplyOK(r)'
<1>1. /\ written' = written /\ step[r] = "WaitForResponse" /\ result[r] = "GotoNext"
      /\ m_asgi_response_msg'[r] \in {0, m_asgi_response_msg[r]}
      /\ unflushed' = unflushed /\ result'[r] = "Rerun"
      /\ IF HeadersOnly(r)
         THEN step'[r] = "FlushResponse" /\ m_asgi_response_msg'[r] = 0
         ELSE step'[r] = "WriteResponse" /\ m_asgi_response_msg' = m_asgi_response_msg
  BY DEF WaitForResponseGetNextStep, At, Goto, Return, responseVars, IInv, TypeOK,
     HandlerTypeOK
<1>2. /\ HistoryOK(r)' /\ popped' = popped /\ sent' = sent
      /\ SentOn(r)' = SentOn(r)
      /\ AllHandled(r)' <=> AllHandled(r)
  BY <1>1, HandlerHistory DEF ReplyOK
<1>3. m_asgi_response_msg[r] # 0 /\ (Reply(r).content \/ Reply(r).more_content)
  BY <1>1 DEF ReplyOK, StageOK
<1>4. /\ m_asgi_response_msg[r] = popped[r] /\ popped[r] \in 1 .. popped[r]
      /\ Reply(r) = sent[r][popped[r]]
  BY <1>3, InHand DEF IInv, ReplyOK
<1>5. CASE HeadersOnly(r)
  <2>1. Handled(r, popped[r])
    BY <1>4, <1>5 DEF Handled, HeadersOnly
  <2>2. AllHandled(r)
    BY <2>1 DEF AllHandled, ReplyOK, HistoryOK
  <2>3. StageOK(r)'
    BY <1>1, <1>2, <1>5, <2>2 DEF StageOK
  <2> QED BY <1>2, <2>3 DEF ReplyOK
<1>6. CASE ~HeadersOnly(r)
  <2>1. Reply(r).content
    BY <1>3, <1>6 DEF HeadersOnly
  <2>2. InFlight(r) # {}
    BY <1>3 DEF InFlight
  <2>3. popped[r] \notin SentOn(r)
    BY <1>1, <2>2 DEF ReplyOK, StageOK
  <2>4. Reply(r)' = Reply(r)
    BY <1>1, <1>2, <1>6 DEF Reply
  <2>5. StageOK(r)'
    BY <1>1, <1>2, <1>3, <1>6, <2>1, <2>3, <2>4 DEF StageOK
  <2> QED BY <1>2, <2>5 DEF ReplyOK
<1> QED BY <1>5, <1>6

\* Reply m is the next to be written: everything before it is done with.
LEMMA NextToWrite ==
  ASSUME IInv, NEW r \in Requests, ReplyOK(r), step[r] = "WriteResponse",
         result[r] = "Rerun"
  PROVE  LET m == m_asgi_response_msg[r]
         IN  /\ m = popped[r] /\ m \in 1 .. popped[r] /\ m \in 1 .. Len(sent[r])
             /\ m \notin expired[r] /\ m \notin SentOn(r) /\ sent[r][m].content
             /\ m \in Owed(r)
             /\ \A j \in 1 .. (m - 1) : Handled(r, j)
<1>1. /\ m_asgi_response_msg[r] # 0 /\ Reply(r).content
      /\ popped[r] \notin SentOn(r)
  BY DEF ReplyOK, StageOK
<1>2. /\ m_asgi_response_msg[r] = popped[r] /\ popped[r] \in 1 .. popped[r]
      /\ popped[r] \in 1 .. Len(sent[r]) /\ popped[r] \notin expired[r]
      /\ Reply(r) = sent[r][popped[r]]
  BY <1>1, InHand DEF IInv, ReplyOK
<1>3. popped[r] \in Owed(r)
  BY <1>1, <1>2 DEF Owed
<1>4. \A j \in 1 .. (popped[r] - 1) : j \in 1 .. popped[r] /\ j # popped[r]
  BY DEF IInv, TypeOK, ChannelTypeOK, Requests
<1>5. \A j \in 1 .. (popped[r] - 1) : Handled(r, j)
  BY <1>4 DEF ReplyOK, HistoryOK
<1> QED BY <1>1, <1>2, <1>3, <1>5

LEMMA WriteReplyOK ==
  ASSUME IInv, ReceivedOK, NEW r \in Requests, ReplyOK(r), Handler(r),
         WriteResponseEnter(r)
  PROVE  ReplyOK(r)'
<1>1. /\ step[r] = "WriteResponse" /\ result[r] = "Rerun" /\ step' = step
      /\ m_asgi_response_msg' = m_asgi_response_msg
  BY DEF WriteResponseEnter, At
<1>2. UNCHANGED channelVars /\ popped' = popped /\ sent' = sent /\ expired' = expired
  BY HandlerAlone DEF channelVars
<1>3. InFlight(r)' = InFlight(r)
  BY <1>1, HandlerAlone
<1>4. Reply(r)' = Reply(r)
  BY <1>1, <1>2 DEF Reply
<1>5. /\ m_asgi_response_msg[r] = popped[r] /\ popped[r] \in Owed(r)
      /\ m_asgi_response_msg[r] # 0 /\ Reply(r).content
  BY <1>1, NextToWrite DEF ReplyOK, StageOK
<1>6. CASE written' = written /\ io_failed'[r] /\ result'[r] = "FinishRequest"
  <2>1. HistoryOK(r)' /\ SentOn(r)' = SentOn(r)
    BY <1>1, <1>6, HandlerHistory DEF ReplyOK
  <2>2. StageOK(r)'
    BY <1>1, <1>4, <1>5, <1>6, <2>1 DEF StageOK
  <2> QED BY <2>1, <2>2 DEF ReplyOK
<1>7. CASE /\ written' = [written EXCEPT ![r] = Append(@, m_asgi_response_msg[r])]
           /\ result'[r] \in {"AsyncPending", AfterWrite(r)}
  <2>1. written[r] \in Seq(Nat) /\ popped[r] \in Nat
    BY DEF IInv, TypeOK, ResponseTypeOK, ChannelTypeOK, Requests
  <2>2. /\ Len(Append(written[r], popped[r])) = Len(written[r]) + 1
        /\ \A k \in 1 .. Len(written[r]) : Append(written[r], popped[r])[k] = written[r][k]
        /\ Append(written[r], popped[r])[Len(written[r]) + 1] = popped[r]
        /\ Len(written[r]) \in Nat
    BY <2>1, AppendProperties, LenProperties
  <2>3. written'[r] = Append(written[r], popped[r])
    BY <1>5, <1>7 DEF IInv, TypeOK, ResponseTypeOK
  <2>4. SentOn(r)' = SentOn(r) \cup {popped[r]}
    BY <2>2, <2>3 DEF SentOn
  <2>5. Owed(r)' = Owed(r)
    BY <1>2 DEF Owed
  <2>6. \A j : Handled(r, j) => Handled(r, j)'
    BY <1>2, <2>4 DEF Handled
  <2>7. HistoryOK(r)'
    BY <1>2, <1>3, <1>5, <2>4, <2>5, <2>6 DEF ReplyOK, HistoryOK
  <2>8. StageOK(r)'
    BY <1>1, <1>2, <1>4, <1>5, <1>7, <2>4 DEF StageOK, AfterWrite
  <2> QED BY <2>7, <2>8 DEF ReplyOK
<1> QED
  BY <1>6, <1>7 DEF WriteResponseEnter, Fail, Return, IInv, TypeOK, HandlerTypeOK,
     ResponseTypeOK

LEMMA WriteNextReplyOK ==
  ASSUME IInv, ReceivedOK, NEW r \in Requests, ReplyOK(r), Handler(r),
         WriteResponseOnAsyncCompletion(r) \/ WriteResponseGetNextStep(r)
  PROVE  ReplyOK(r)'
<1>1. /\ step[r] = "WriteResponse" /\ result[r] \in {"AsyncPending", "GotoNext"}
      /\ written' = written /\ unflushed' = unflushed
  BY DEF WriteResponseOnAsyncCompletion, WriteResponseGetNextStep, At, responseVars
<1>2. /\ m_asgi_response_msg[r] # 0 /\ Reply(r).content /\ popped[r] \in SentOn(r)
      /\ result[r] = "GotoNext" => Reply(r).more_content
  BY <1>1 DEF ReplyOK, StageOK
<1>3. /\ m_asgi_response_msg[r] = popped[r] /\ popped[r] \in 1 .. popped[r]
      /\ Reply(r) = sent[r][popped[r]]
  BY <1>2, InHand DEF IInv, ReplyOK
<1>4. CASE WriteResponseOnAsyncCompletion(r)
  <2>1. /\ step' = step /\ m_asgi_response_msg' = m_asgi_response_msg
        /\ result'[r] = AfterWrite(r)
    BY <1>4 DEF WriteResponseOnAsyncCompletion, Return, IInv, TypeOK, HandlerTypeOK
  <2>2. /\ HistoryOK(r)' /\ popped' = popped /\ sent' = sent
        /\ SentOn(r)' = SentOn(r)
    BY <1>1, <2>1, HandlerHistory DEF ReplyOK
  <2>3. Reply(r)' = Reply(r)
    BY <2>1, <2>2 DEF Reply
  <2>4. StageOK(r)'
    BY <1>1, <1>2, <2>1, <2>2, <2>3 DEF StageOK, AfterWrite
  <2> QED BY <2>2, <2>4 DEF ReplyOK
<1>5. CASE WriteResponseGetNextStep(r)
  <2>1. /\ step'[r] = "FlushResponse" /\ m_asgi_response_msg'[r] = 0
        /\ result'[r] = "Rerun" /\ Reply(r).more_content
    BY <1>2, <1>5 DEF WriteResponseGetNextStep, At, Goto, Return, IInv, TypeOK,
       HandlerTypeOK
  <2>2. HistoryOK(r)' /\ (AllHandled(r)' <=> AllHandled(r))
    BY <1>1, <2>1, HandlerHistory DEF ReplyOK
  <2>3. Handled(r, popped[r])
    BY <1>2, <1>3, <2>1 DEF Handled
  <2>4. AllHandled(r)
    BY <2>3 DEF AllHandled, ReplyOK, HistoryOK
  <2>5. StageOK(r)'
    BY <2>1, <2>2, <2>4 DEF StageOK
  <2> QED BY <2>2, <2>5 DEF ReplyOK
<1> QED BY <1>4, <1>5

LEMMA FlushReplyOK ==
  ASSUME IInv, ReceivedOK, NEW r \in Requests, ReplyOK(r), Handler(r),
         \/ FlushResponseEnter(r) \/ FlushResponseOnAsyncCompletion(r)
         \/ FlushResponseGetNextStep(r)
  PROVE  ReplyOK(r)'
<1>1. /\ step[r] = "FlushResponse" /\ written' = written
      /\ m_asgi_response_msg' = m_asgi_response_msg
  BY DEF FlushResponseEnter, FlushResponseOnAsyncCompletion, FlushResponseGetNextStep,
     At, responseVars
<1>2. /\ HistoryOK(r)' /\ popped' = popped
      /\ AllHandled(r)' <=> AllHandled(r)
  BY <1>1, HandlerHistory DEF ReplyOK
<1>3. AllHandled(r) /\ m_asgi_response_msg[r] = 0
  BY <1>1 DEF ReplyOK, StageOK, IInv, RequestOK, StepOK
<1>4. InFlight(r)' = {}
  BY <1>1, <1>3, HandlerAlone
<1>5. CASE FlushResponseEnter(r) \/ FlushResponseOnAsyncCompletion(r)
  <2>1. /\ step' = step
        /\ result'[r] = "GotoNext" => unflushed'[r] # "data"
        /\ result'[r] = "FinishRequest" => io_failed'[r]
    BY <1>1, <1>5 DEF FlushResponseEnter, FlushResponseOnAsyncCompletion, Flushed, At, Return, Fail,
       responseVars, IInv, TypeOK, HandlerTypeOK, ResponseTypeOK, ReplyOK, StageOK
  <2>2. StageOK(r)'
    BY <1>1, <1>2, <1>3, <2>1 DEF StageOK
  <2> QED BY <1>2, <2>2 DEF ReplyOK
<1>6. CASE FlushResponseGetNextStep(r)
  <2>1. step'[r] = "WaitForResponse" /\ result'[r] = "Rerun" /\ unflushed'[r] # "data"
    BY <1>6 DEF FlushResponseGetNextStep, At, Goto, Return, responseVars, IInv, TypeOK,
       HandlerTypeOK, ReplyOK, StageOK
  <2>2. StageOK(r)'
    BY <1>1, <1>2, <1>3, <1>4, <2>1 DEF StageOK
  <2> QED BY <1>2, <2>2 DEF ReplyOK
<1> QED BY <1>5, <1>6

\* A request that is to be finished is complete, or saw an error.
LEMMA Finished ==
  ASSUME IInv, NEW r \in Requests, ReplyOK(r), result[r] = "FinishRequest"
  PROVE  step[r] \in Steps /\ (io_failed[r] \/ Complete(r))
<1>1. step[r] \in Steps
  BY DEF IInv, RequestOK, StepOK, TypeOK, HandlerTypeOK
<1>2. CASE step[r] = "WaitForResponse"
  <2>1. m_asgi_response_msg[r] # 0 /\ ~Reply(r).content /\ ~Reply(r).more_content
    BY <1>2 DEF ReplyOK, StageOK
  <2>2. /\ popped[r] \in 1 .. popped[r] /\ popped[r] \notin expired[r]
        /\ Reply(r) = sent[r][popped[r]]
    BY <2>1, InHand DEF IInv, ReplyOK
  <2> QED BY <1>1, <2>1, <2>2 DEF Complete
<1>3. CASE step[r] = "WriteResponse"
  <2>1. /\ m_asgi_response_msg[r] # 0
        /\ io_failed[r] \/ (popped[r] \in SentOn(r) /\ ~Reply(r).more_content)
    BY <1>3 DEF ReplyOK, StageOK
  <2>2. /\ popped[r] \in 1 .. popped[r] /\ popped[r] \notin expired[r]
        /\ Reply(r) = sent[r][popped[r]]
    BY <2>1, InHand DEF IInv, ReplyOK
  <2> QED BY <1>1, <2>1, <2>2 DEF Complete
<1>4. CASE step[r] \in {"ReadBody", "SendToApplication", "FlushResponse"}
  BY <1>1, <1>4 DEF ReplyOK, StageOK
<1> QED BY <1>1, <1>2, <1>3, <1>4 DEF Steps

LEMMA CleanupReplyOK ==
  ASSUME IInv, ReceivedOK, NEW r \in Requests, ReplyOK(r), Handler(r),
         CleanupStoredContext(r)
  PROVE  ReplyOK(r)'
<1>1. /\ written' = written /\ io_failed' = io_failed /\ m_asgi_response_msg'[r] = 0
      /\ step'[r] = "destroyed" /\ result[r] = "FinishRequest"
  BY DEF CleanupStoredContext, responseVars, IInv, TypeOK, HandlerTypeOK
<1>2. HistoryOK(r)' /\ (Complete(r)' <=> Complete(r))
  BY <1>1, HandlerHistory DEF ReplyOK
<1>3. io_failed[r] \/ Complete(r)
  BY <1>1, Finished
<1>4. StageOK(r)'
  BY <1>1, <1>2, <1>3 DEF StageOK
<1> QED BY <1>2, <1>4 DEF ReplyOK

LEMMA HandlerReplyOK ==
  ASSUME IInv, ReceivedOK, NEW r \in Requests, ReplyOK(r), Handler(r)
  PROVE  ReplyOK(r)'
  BY BodyReplyOK, WaitReplyOK, WaitNextReplyOK, WriteReplyOK, WriteNextReplyOK,
     FlushReplyOK, CleanupReplyOK DEF Handler


\* The replies of the other requests stay where they are.
LEMMA HandlerLeavesReplies ==
  ASSUME IInv, ReceivedOK, NEW r \in Requests, NEW q \in Requests, q # r, HistoryOK(q),
         Handler(r)
  PROVE  SameReply(q)
<1>1. UNCHANGED <<channelVars, received, tasks, pc>>
  BY HandlerAlone
<1>2. SameRequest(q)
  BY HandlerFrame DEF IInv
<1>3. /\ written'[q] = written[q] /\ io_failed'[q] = io_failed[q]
      /\ unflushed'[q] = unflushed[q]
  BY DEF Handler, ReadBodyEnter, ReadBodyOnAsyncCompletion, ReadBodyGetNextStep,
     SendToApplicationEnter, SendToApplicationOnAsyncCompletion,
     SendToApplicationGetNextStep, WaitForResponseEnter, Fail, responseVars,
     WaitForResponseOnAsyncCompletion, WaitForResponseGetNextStep, WriteResponseEnter,
     WriteResponseOnAsyncCompletion, WriteResponseGetNextStep, FlushResponseEnter,
     FlushResponseOnAsyncCompletion, FlushResponseGetNextStep, CleanupStoredContext,
     Flushed, IInv, TypeOK, ResponseTypeOK
<1>4. InFlight(q)' = InFlight(q)
  BY <1>1, <1>2 DEF InFlight, SameRequest
<1> QED BY <1>1, <1>2, <1>3, <1>4 DEF SameReply, SameRequest, channelVars, HistoryOK

LEMMA HandlerReplies ==
  ASSUME RInv, NEW r \in Requests, Handler(r)
  PROVE  ReceivedOK' /\ \A q \in Requests : ReplyOK(q)'
<1>1. ReceivedOK'
  BY HandlerAlone DEF RInv, ReceivedOK
<1>2. ASSUME NEW q \in Requests PROVE ReplyOK(q)'
  <2>1. CASE q = r
    BY <2>1, HandlerReplyOK DEF RInv
  <2>2. CASE q # r
    BY <2>2, HandlerLeavesReplies, ReplyFrame DEF RInv, IInv, ReplyOK
  <2> QED BY <2>1, <2>2
<1> QED BY <1>1, <1>2

-----------------------------------------------------------------------------
(* What everyone else does. *)

LEMMA OnExecuteReplies ==
  ASSUME RInv, NEW r \in Requests, OnExecuteRequestHandler(r)
  PROVE  ReceivedOK' /\ \A q \in Requests : ReplyOK(q)'
<1>1. /\ step[r] = "none" /\ step' = [step EXCEPT ![r] = "ReadBody"]
      /\ result' = [result EXCEPT ![r] = "Rerun"]
      /\ UNCHANGED <<channelVars, pumpVars, m_asgi_response_msg, responseVars>>
  BY DEF OnExecuteRequestHandler, At, Goto, Return
<1>2. ASSUME NEW q \in Requests PROVE InFlight(q)' = InFlight(q)
  BY <1>1 DEF InFlight, pumpVars
<1>3. ASSUME NEW q \in Requests PROVE ReplyOK(q)'
  <2>1. CASE q # r
    <3>1. SameReply(q)
      BY <1>1, <1>2, <2>1 DEF SameReply, channelVars, responseVars, RInv, IInv, TypeOK,
         HandlerTypeOK, ReplyOK, HistoryOK
    <3> QED BY <3>1, ReplyFrame DEF RInv, IInv
  <2>2. CASE q = r
    <3>1. HistoryOK(r)'
      <4>1. /\ popped' = popped /\ sent' = sent /\ expired' = expired
            /\ written' = written
        BY <1>1 DEF channelVars, responseVars
      <4>2. /\ SentOn(r)' = SentOn(r) /\ Owed(r)' = Owed(r)
            /\ \A j \in 1 .. popped[r] : Handled(r, j)' <=> Handled(r, j)
        BY <4>1, HandledFrame DEF RInv, IInv
      <4>3. InFlight(r)' = InFlight(r)
        BY <1>2
      <4> QED BY <4>1, <4>2, <4>3 DEF HistoryOK, ReplyOK, RInv
    <3>2. /\ popped'[r] = 0 /\ unflushed'[r] # "data" /\ step'[r] = "ReadBody"
          /\ result'[r] = "Rerun"
      BY <1>1 DEF channelVars, responseVars, RInv, ReplyOK, StageOK, IInv, TypeOK,
         HandlerTypeOK
    <3>3. StageOK(r)'
      BY <3>2 DEF StageOK
    <3> QED BY <2>2, <3>1, <3>3 DEF ReplyOK
  <2> QED BY <2>1, <2>2
<1> QED BY <1>1, <1>3 DEF RInv, ReceivedOK, pumpVars

\* A new or an expiring reply is none of those already read.
LEMMA OutsideReplies ==
  ASSUME RInv, NEW r \in Requests,
         \/ AppReceive(r) \/ RequestExpires(r) \/ ReplyExpires(r)
         \/ \E m \in Payloads : AppSend(r, m)
  PROVE  ReceivedOK' /\ \A q \in Requests : ReplyOK(q)'
<1>1. UNCHANGED <<pumpVars, clientVars>>
  BY DEF AppReceive, RequestExpires, ReplyExpires, AppSend
<1>2. ASSUME NEW q \in Requests
      PROVE  /\ popped'[q] = popped[q] /\ popped[q] <= Len(sent'[q])
             /\ \A j \in 1 .. popped[q] :
                   sent'[q][j] = sent[q][j] /\ (j \in expired'[q] <=> j \in expired[q])
  <2>1. /\ popped[q] \in Nat /\ sent[q] \in Seq(Payloads) /\ Len(sent[q]) \in Nat
        /\ popped[q] <= Len(sent[q]) /\ popped[r] \in Nat /\ r \in Channels
    BY LenProperties
    DEF RInv, IInv, TypeOK, ChannelTypeOK, Requests, ReplyOK, HistoryOK
  <2>2. CASE AppReceive(r) \/ RequestExpires(r)
    BY <2>1, <2>2 DEF AppReceive, RequestExpires, channelVars
  <2>3. CASE ReplyExpires(r)
    <3>1. PICK i \in 1 .. MaxMessages : Expire(r, i)
      BY <2>3 DEF ReplyExpires
    <3>2. /\ popped' = popped /\ sent' = sent
          /\ expired' = [expired EXCEPT ![r] = @ \cup {i}]
          /\ i > popped[r]
      BY <2>1, <3>1 DEF Expire, Unread
    <3>3. \A j \in 1 .. popped[q] : j \in expired'[q] <=> j \in expired[q]
      BY <2>1, <3>2 DEF RInv, IInv, TypeOK, ChannelTypeOK, Requests
    <3> QED BY <2>1, <3>2, <3>3
  <2>4. ASSUME NEW m \in Payloads, AppSend(r, m)
        PROVE  /\ popped' = popped /\ expired' = expired /\ popped[q] <= Len(sent'[q])
               /\ \A j \in 1 .. popped[q] : sent'[q][j] = sent[q][j]
    <3>1. /\ popped' = popped /\ expired' = expired
          /\ sent' = [sent EXCEPT ![r] = Append(@, m)]
      BY <2>4 DEF AppSend, Send
    <3>2. /\ Len(Append(sent[q], m)) = Len(sent[q]) + 1
          /\ \A j \in 1 .. Len(sent[q]) : Append(sent[q], m)[j] = sent[q][j]
      BY <2>1, AppendProperties
    <3>3. sent'[q] \in {sent[q], Append(sent[q], m)}
      BY <2>1, <3>1 DEF RInv, IInv, TypeOK, ChannelTypeOK, Requests
    <3> QED BY <2>1, <3>1, <3>2, <3>3
  <2> QED BY <2>2, <2>3, <2>4
<1>3. ASSUME NEW q \in Requests PROVE ReplyOK(q)'
  <2>1. InFlight(q)' = InFlight(q)
    BY <1>1 DEF InFlight, pumpVars, clientVars, handlerVars
  <2>2. SameReply(q)
    BY <1>1, <1>2, <2>1 DEF SameReply, clientVars, handlerVars, responseVars
  <2> QED BY <2>2, ReplyFrame DEF RInv, IInv
<1> QED BY <1>1, <1>3 DEF RInv, ReceivedOK, pumpVars

\* Only the callback of the scheduler's tasks has to do with a reply.
LEMMA TaskReplies ==
  ASSUME RInv,
         UNCHANGED <<channelVars, pumpVars, handlerVars, responseVars>>
  PROVE  ReceivedOK' /\ \A q \in Requests : ReplyOK(q)'
<1>1. ASSUME NEW q \in Requests PROVE ReplyOK(q)'
  <2>1. InFlight(q)' = InFlight(q)
    BY DEF InFlight, pumpVars, handlerVars
  <2>2. SameReply(q)
    BY <2>1 DEF SameReply, channelVars, handlerVars, responseVars, RInv, ReplyOK,
       HistoryOK
  <2> QED BY <2>2, ReplyFrame DEF RInv, IInv
<1> QED BY <1>1 DEF RInv, ReceivedOK, pumpVars

\* The reply moves from the task into the step.
LEMMA CallbackReplies ==
  ASSUME RInv, NEW t \in tasks, RunCallback(t)
  PROVE  ReceivedOK' /\ \A q \in Requests : ReplyOK(q)'
<1> DEFINE r == t.channel
<1>1. /\ r \in Requests /\ t.msg \in Nat \ {0}
      /\ step[r] = "WaitForResponse" /\ result[r] = "AsyncPending"
      /\ m_asgi_response_msg[r] = 0 /\ OnlyTask(r) /\ Live(r, t.callback)
  BY CallbackTaskLive DEF RInv, IInv, TypeOK, PumpTypeOK, Requests
<1>2. /\ tasks' = tasks \ {t}
      /\ m_asgi_response_msg' = [m_asgi_response_msg EXCEPT ![r] = t.msg]
      /\ UNCHANGED <<channelVars, pc, received, step, result, responseVars>>
  BY <1>1 DEF RunCallback, TaskDone
<1>3. ASSUME NEW q \in Requests, q # r PROVE InFlight(q)' = InFlight(q)
  <2>1. m_asgi_response_msg'[q] = m_asgi_response_msg[q]
    BY <1>2, <1>3 DEF RInv, IInv, TypeOK, HandlerTypeOK
  <2>2. {u \in tasks' : u.channel = q} = {u \in tasks : u.channel = q}
    BY <1>2, <1>3
  <2> QED BY <1>2, <2>1, <2>2 DEF InFlight
<1>4. InFlight(r)' = InFlight(r)
  <2>1. {u \in tasks : u.channel = r} = {t} /\ {u \in tasks' : u.channel = r} = {}
    BY <1>1, <1>2 DEF OnlyTask
  <2>2. m_asgi_response_msg'[r] = t.msg
    BY <1>1, <1>2 DEF RInv, IInv, TypeOK, HandlerTypeOK
  <2>3. /\ {u.msg : u \in {v \in tasks : v.channel = r}} = {t.msg}
        /\ {u.msg : u \in {v \in tasks' : v.channel = r}} = {}
    BY <2>1
  <2>4. /\ {m_asgi_response_msg'[r]} \ {0} = {t.msg}
        /\ {m_asgi_response_msg[r]} \ {0} = {}
    BY <1>1, <2>2
  <2> QED BY <1>2, <2>3, <2>4 DEF InFlight
<1>5. ReplyOK(r)'
  <2>1. /\ HistoryOK(r) /\ StageOK(r) /\ TypeOK
    BY <1>1 DEF RInv, ReplyOK, IInv
  <2>2. /\ SentOn(r)' = SentOn(r) /\ Owed(r)' = Owed(r)
        /\ (AllHandled(r)' <=> AllHandled(r))
        /\ \A j \in 1 .. popped[r] : Handled(r, j)' <=> Handled(r, j)
    BY <1>1, <1>2, <2>1, HandledFrame DEF channelVars, responseVars
  <2>3. HistoryOK(r)'
    BY <1>2, <1>4, <2>1, <2>2 DEF HistoryOK, channelVars
  <2>4. m_asgi_response_msg'[r] # 0
    BY <1>1, <1>2, <2>1 DEF TypeOK, HandlerTypeOK
  <2>5. StageOK(r)'
    BY <1>1, <1>2, <1>4, <2>1, <2>2, <2>4 DEF StageOK, channelVars
  <2> QED BY <2>3, <2>5 DEF ReplyOK
<1>6. ASSUME NEW q \in Requests, q # r PROVE ReplyOK(q)'
  <2>1. SameReply(q)
    BY <1>2, <1>3, <1>6 DEF SameReply, channelVars, responseVars, RInv, ReplyOK,
       HistoryOK, IInv, TypeOK, HandlerTypeOK
  <2> QED BY <1>6, <2>1, ReplyFrame DEF RInv, IInv
<1> QED BY <1>2, <1>5, <1>6 DEF RInv, ReceivedOK

\* The reply moves from the pump into a task.
LEMMA DispatchReplies ==
  ASSUME RInv, Dispatch, UNCHANGED <<worker, clientVars, request>>
  PROVE  ReceivedOK' /\ \A q \in Requests : ReplyOK(q)'
<1>1. PICK d \in received :
        IF d.channel \in Registered
        THEN Erase(d.channel) /\ tasks' = tasks \cup {Task(d)}
        ELSE UNCHANGED <<m_callbacks, tasks>>
  BY DEF Dispatch
<1>2. d.channel \in Registered
  BY DEF Dispatch, RInv, IInv, PumpOK
<1>3. received = {d} /\ received' = {} /\ pc' = "top"
  BY DEF Dispatch, BackToTop, RInv, ReceivedOK
<1>4. tasks' = tasks \cup {Task(d)} /\ Task(d).channel = d.channel /\ Task(d).msg = d.msg
  BY <1>1, <1>2 DEF Task
<1>5. ASSUME NEW q \in Requests PROVE InFlight(q)' = InFlight(q)
  <2>1. m_asgi_response_msg' = m_asgi_response_msg
    BY DEF clientVars, handlerVars
  <2>2. CASE q = d.channel
    <3>1. {e.msg : e \in {f \in received : f.channel = q}} = {d.msg}
      BY <1>3, <2>2
    <3>2. {u.msg : u \in {v \in tasks' : v.channel = q}}
            = {u.msg : u \in {v \in tasks : v.channel = q}} \cup {d.msg}
      BY <1>4, <2>2
    <3>3. {e.msg : e \in {f \in received' : f.channel = q}} = {}
      BY <1>3
    <3> QED BY <2>1, <3>1, <3>2, <3>3 DEF InFlight
  <2>3. CASE q # d.channel
    <3>1. /\ {e \in received : e.channel = q} = {} /\ {e \in received' : e.channel = q} = {}
          /\ {u \in tasks' : u.channel = q} = {u \in tasks : u.channel = q}
      BY <1>3, <1>4, <2>3
    <3> QED BY <2>1, <3>1 DEF InFlight
  <2> QED BY <2>2, <2>3
<1>6. ASSUME NEW q \in Requests PROVE ReplyOK(q)'
  <2>1. SameReply(q)
    BY <1>5 DEF SameReply, Dispatch, clientVars, handlerVars, responseVars, channelVars,
       RInv, ReplyOK, HistoryOK
  <2> QED BY <2>1, ReplyFrame DEF RInv, IInv
<1> QED BY <1>3, <1>6 DEF ReceivedOK

LEMMA PollReplies ==
  ASSUME RInv, Snapshot \/ ReceiveTimeout, UNCHANGED <<worker, clientVars, request>>
  PROVE  ReceivedOK' /\ \A q \in Requests : ReplyOK(q)'
<1>1. received = {} /\ received' = {} /\ tasks' = tasks /\ UNCHANGED channelVars
  BY DEF Snapshot, ReceiveTimeout, BackToTop, RInv, ReceivedOK
<1>2. ASSUME NEW q \in Requests PROVE ReplyOK(q)'
  <2>1. InFlight(q)' = InFlight(q)
    BY <1>1 DEF InFlight, clientVars, handlerVars
  <2>2. SameReply(q)
    BY <1>1, <2>1 DEF SameReply, channelVars, clientVars, handlerVars, responseVars,
       RInv, ReplyOK, HistoryOK
  <2> QED BY <2>2, ReplyFrame DEF RInv, IInv
<1> QED BY <1>1, <1>2 DEF ReceivedOK

\* The pump only reads a channel when all that was read from it is done with.
LEMMA ReceiveReplies ==
  ASSUME RInv, NEW c \in Channels, ReceiveMessage(c),
         UNCHANGED <<worker, clientVars, request>>
  PROVE  ReceivedOK' /\ \A q \in Requests : ReplyOK(q)'
<1>1. PICK i \in 1 .. MaxMessages :
        /\ Blpop(c, i)
        /\ IF i \in expired[c]
           THEN BackToTop
           ELSE /\ pc' = "dispatch"
                /\ received' = {[channel |-> c, msg |-> i]}
                /\ UNCHANGED channel_names
  BY DEF ReceiveMessage
<1>2. /\ received = {} /\ tasks' = tasks /\ m_asgi_response_msg' = m_asgi_response_msg
      /\ step' = step /\ result' = result /\ UNCHANGED responseVars
      /\ sent' = sent /\ expired' = expired /\ popped' = [popped EXCEPT ![c] = i]
  BY <1>1 DEF ReceiveMessage, RInv, ReceivedOK, clientVars, handlerVars, Blpop
<1>3. /\ c \in Requests /\ c \in Registered /\ TypeOK /\ RequestOK(c)
      /\ HistoryOK(c) /\ StageOK(c)
  BY DEF ReceiveMessage, RInv, IInv, PumpOK, Requests, ReplyOK
<1>4. /\ step[c] = "WaitForResponse" /\ result[c] = "AsyncPending"
      /\ m_asgi_response_msg[c] = 0 /\ NoTasks(c)
  BY <1>3, RegisteredLive DEF OnlyCallback
<1>5. InFlight(c) = {}
  <2>1. {u \in tasks : u.channel = c} = {} /\ {e \in received : e.channel = c} = {}
    BY <1>2, <1>4 DEF NoTasks
  <2> QED BY <1>4, <2>1 DEF InFlight
<1>6. AllHandled(c) /\ unflushed[c] # "data"
  BY <1>3, <1>4, <1>5 DEF StageOK
<1>7. /\ popped[c] \in Nat /\ Len(sent[c]) \in Nat /\ i \in Nat /\ popped[c] < i
      /\ i <= Len(sent[c]) /\ popped'[c] = i
      /\ popped[c] + 1 .. i - 1 \subseteq expired[c]
  <2>1. popped[c] \in Nat /\ sent[c] \in Seq(Payloads)
    BY <1>3 DEF TypeOK, ChannelTypeOK
  <2>2. popped'[c] = i
    BY <1>2, <1>3 DEF TypeOK, ChannelTypeOK
  <2> QED BY <1>1, <2>1, <2>2, LenProperties DEF Blpop, Unread
<1>8. ASSUME NEW j \in 1 .. i - 1 PROVE Handled(c, j)'
  <2>1. CASE j \in 1 .. popped[c]
    <3>1. Handled(c, j)
      BY <1>6, <2>1 DEF AllHandled
    <3> QED BY <1>2, <3>1 DEF Handled, SentOn, responseVars
  <2>2. CASE j \notin 1 .. popped[c]
    <3>1. j \in popped[c] + 1 .. i - 1
      BY <1>7, <2>2
    <3> QED BY <1>2, <1>7, <3>1 DEF Handled
  <2> QED BY <2>1, <2>2
<1>9. /\ SentOn(c)' = SentOn(c)
      /\ Owed(c) \subseteq Owed(c)' /\ i \notin SentOn(c)
  <2>1. SentOn(c)' = SentOn(c)
    BY <1>2 DEF SentOn, responseVars
  <2>2. Owed(c) \subseteq Owed(c)'
    BY <1>2, <1>7 DEF Owed
  <2>3. i \notin Owed(c)
    BY <1>7 DEF Owed
  <2> QED BY <1>3, <2>1, <2>2, <2>3 DEF HistoryOK
<1>10. CASE i \in expired[c]
  <2>1. received' = {} /\ pc' = "top"
    BY <1>1, <1>10 DEF BackToTop
  <2>2. ASSUME NEW q \in Requests PROVE InFlight(q)' = InFlight(q)
    BY <1>2, <2>1 DEF InFlight
  <2>3. InFlight(c)' = {}
    BY <1>3, <1>5, <2>2
  <2>4. Handled(c, i)'
    BY <1>2, <1>10 DEF Handled
  <2>5. HistoryOK(c)' /\ AllHandled(c)'
    BY <1>2, <1>3, <1>7, <1>8, <1>9, <2>3, <2>4 DEF HistoryOK, AllHandled
  <2>6. StageOK(c)'
    BY <1>2, <1>4, <1>6, <2>3, <2>5 DEF StageOK, responseVars
  <2>7. ASSUME NEW q \in Requests, q # c PROVE ReplyOK(q)'
    <3>1. SameReply(q)
      BY <1>2, <2>2, <2>7 DEF SameReply, responseVars, RInv, ReplyOK, HistoryOK, IInv,
         TypeOK, ChannelTypeOK, Requests
    <3> QED BY <2>7, <3>1, ReplyFrame DEF RInv, IInv
  <2> QED BY <2>1, <2>5, <2>6, <2>7 DEF ReceivedOK, ReplyOK
<1>11. CASE i \notin expired[c]
  <2>1. received' = {[channel |-> c, msg |-> i]} /\ pc' = "dispatch"
    BY <1>1, <1>11
  <2>2. ASSUME NEW q \in Requests, q # c PROVE InFlight(q)' = InFlight(q)
    <3>1. {e \in received' : e.channel = q} = {} /\ {e \in received : e.channel = q} = {}
      BY <1>2, <2>1, <2>2
    <3> QED BY <1>2, <3>1 DEF InFlight
  <2>3. InFlight(c)' = {i}
    <3>1. {e \in received' : e.channel = c} = {[channel |-> c, msg |-> i]}
      BY <2>1
    <3>2. {e.msg : e \in {f \in received' : f.channel = c}} = {i}
      <4>1. [channel |-> c, msg |-> i].msg = i
        OBVIOUS
      <4>2. {e.msg : e \in {[channel |-> c, msg |-> i]}} = {i}
        BY <4>1
      <4> QED BY <3>1, <4>2
    <3>3. {u.msg : u \in {v \in tasks' : v.channel = c}} = {}
      BY <1>2, <1>4 DEF NoTasks
    <3> QED BY <1>2, <1>4, <3>2, <3>3 DEF InFlight
  <2>4. HistoryOK(c)'
    BY <1>2, <1>3, <1>7, <1>8, <1>9, <1>11, <2>3 DEF HistoryOK
  <2>5. StageOK(c)'
    BY <1>2, <1>4, <1>6, <1>7, <1>9, <2>3 DEF StageOK, responseVars
  <2>6. ASSUME NEW q \in Requests, q # c PROVE ReplyOK(q)'
    <3>1. SameReply(q)
      BY <1>2, <2>2, <2>6 DEF SameReply, responseVars, RInv, ReplyOK, HistoryOK, IInv,
         TypeOK, ChannelTypeOK, Requests
    <3> QED BY <2>6, <3>1, ReplyFrame DEF RInv, IInv
  <2> QED BY <2>1, <2>4, <2>5, <2>6 DEF ReceivedOK, ReplyOK
<1> QED BY <1>10, <1>11

LEMMA InitRInv == Init => RInv
<1> SUFFICES ASSUME Init PROVE RInv
  OBVIOUS
<1> USE DEF Init, ChannelInit, PumpInit
<1>1. ASSUME NEW r \in Requests PROVE ReplyOK(r)
  <2>1. /\ popped[r] = 0 /\ sent[r] = <<>> /\ Len(sent[r]) = 0 /\ written[r] = <<>>
        /\ Len(written[r]) = 0
    BY EmptySeq DEF Requests
  <2>2. SentOn(r) = {} /\ InFlight(r) = {}
    BY <2>1 DEF SentOn, InFlight
  <2>3. HistoryOK(r)
    BY <2>1, <2>2 DEF HistoryOK
  <2>4. StageOK(r)
    BY <2>1 DEF StageOK
  <2> QED BY <2>3, <2>4 DEF ReplyOK
<1>2. ReceivedOK
  BY DEF ReceivedOK
<1> QED BY <1>1, <1>2, InitIInv DEF RInv

LEMMA NextRInv == RInv /\ [Next]_vars => RInv'
<1> SUFFICES ASSUME RInv, [Next]_vars PROVE RInv'
  OBVIOUS
<1>1. ReceivedOK' /\ \A q \in Requests : ReplyOK(q)'
  <2>1. CASE \E r \in Requests : Handler(r)
    BY <2>1, HandlerReplies
  <2>2. CASE \E r \in Requests : Environment(r)
    BY <2>2, OnExecuteReplies, OutsideReplies DEF Environment
  <2>3. CASE Scheduler
    <3>1. CASE \E t \in tasks : RunCallback(t)
      BY <3>1, CallbackReplies
    <3>2. CASE \/ \E t \in sends : RunSend(t) \/ RunSendContinuation(t)
               \/ \E t \in tails : RunCallbackTail(t)
      <4>1. UNCHANGED <<channelVars, pumpVars, handlerVars, responseVars>>
        BY <3>2 DEF RunSend, RunSendContinuation, RunCallbackTail
      <4> QED BY <4>1, TaskReplies
    <3> QED BY <2>3, <3>1, <3>2 DEF Scheduler
  <2>4. CASE Pump
    BY <2>4, DispatchReplies, PollReplies, ReceiveReplies DEF Pump, PumpLoop
  <2>5. CASE UNCHANGED vars
    BY <2>5, TaskReplies DEF vars
  <2> QED BY <2>1, <2>2, <2>3, <2>4, <2>5 DEF Next
<1>2. IInv'
  BY NextIInv DEF RInv
<1> QED BY <1>1, <1>2 DEF RInv, Requests

-----------------------------------------------------------------------------
(* What the second invariant gives. *)

\* The invariant of the replies, for any number of requests and messages.
THEOREM ReplyInvariance == Spec => []RInv
<1> QED BY InitRInv, NextRInv, PTL DEF Spec

\* A reply read from the channel is written or still on its way, unless IIS failed.
THEOREM RepliesNotLost == Spec => []NoReplyLost
<1>1. ASSUME RInv, NEW r \in Requests
      PROVE  /\ SentOn(r) \subseteq Owed(r)
             /\ io_failed[r] \/ Owed(r) \subseteq SentOn(r) \cup InFlight(r)
  <2>1. IInv /\ HistoryOK(r) /\ StageOK(r)
    BY <1>1 DEF RInv, ReplyOK
  <2>2. ASSUME ~io_failed[r], NEW i \in Owed(r) PROVE i \in SentOn(r) \cup InFlight(r)
    <3>1. i \in 1 .. popped[r] /\ i \notin expired[r] /\ sent[r][i].content
      BY DEF Owed
    <3>2. Handled(r, i) => i \in SentOn(r)
      BY <3>1 DEF Handled
    <3>3. CASE i # popped[r]
      BY <2>1, <3>1, <3>2, <3>3 DEF HistoryOK
    <3>4. CASE i = popped[r]
      <4>1. CASE AllHandled(r)
        BY <3>1, <3>2, <4>1 DEF AllHandled
      <4>2. CASE step[r] = "WaitForResponse" /\ InFlight(r) # {}
        BY <2>1, <3>4, <4>2 DEF HistoryOK
      <4>3. CASE step[r] = "WriteResponse"
        <5>1. m_asgi_response_msg[r] \in InFlight(r)
          BY <2>1, <4>3 DEF StageOK, InFlight
        <5> QED BY <2>1, <3>4, <5>1 DEF HistoryOK
      <4>4. CASE step[r] = "destroyed"
        BY <2>1, <2>2, <3>1, <3>4, <4>4 DEF StageOK, Complete
      <4>5. CASE step[r] \in {"none", "ReadBody", "SendToApplication"}
        BY <2>1, <3>1, <4>5 DEF StageOK
      <4>6. CASE step[r] \in {"WaitForResponse", "FlushResponse"} /\ ~AllHandled(r)
        BY <2>1, <4>2, <4>6 DEF StageOK
      <4> QED
        BY <2>1, <4>1, <4>3, <4>4, <4>5, <4>6 DEF IInv, TypeOK, HandlerTypeOK, Steps
    <3> QED BY <3>3, <3>4
  <2> QED BY <2>1, <2>2 DEF HistoryOK
<1>2. RInv => NoReplyLost
  BY <1>1 DEF NoReplyLost, SentOn
<1> QED BY <1>2, ReplyInvariance, PTL

\* Nothing is read from the channel of a request after a final reply.
THEOREM FinalEnds == Spec => []FinalReplyEndsResponse
<1>1. RInv => FinalReplyEndsResponse
  BY DEF RInv, ReplyOK, HistoryOK, Handled, FinalReplyEndsResponse
<1> QED BY <1>1, ReplyInvariance, PTL

\* A request that waits for the application has flushed everything, but for what a
\* Flush that went pending and then failed has left.
THEOREM Streamed == Spec => []StreamedBeforeWaiting
<1>1. ASSUME RInv, NEW r \in Registered PROVE unflushed[r] # "data"
  <2>1. r \in Requests /\ TypeOK /\ RequestOK(r) /\ StageOK(r)
    BY <1>1 DEF RInv, IInv, ReplyOK, Registered, Requests
  <2>2. step[r] = "WaitForResponse" /\ m_asgi_response_msg[r] = 0
    BY <2>1, RegisteredLive
  <2> QED BY <2>1, <2>2 DEF StageOK
<1>2. RInv => StreamedBeforeWaiting
  BY <1>1 DEF StreamedBeforeWaiting
<1> QED BY <1>2, ReplyInvariance, PTL

\* A pending request whose application has sent a final reply that Redis still owes it,
\* or has delivered, always has something left that ends the wait: a completion or task
\* under way, or its callback registered and that very reply ahead of it, in the channel
\* or in the pump's hands.  It never waits with all final replies behind it.
PendingCanBeWoken ==
    \A r \in Requests : \A k \in FinalReplies(r) \ expired[r] :
        result[r] = "AsyncPending" =>
            \/ io[r] \/ completions[r] > 0 \/ ~NoSends(r) \/ ~NoTasks(r)
            \/ /\ r \in Registered
               /\ k > popped[r] \/ [channel |-> r, msg |-> k] \in received

\* No request waits for a reply that was read already.
THEOREM NeverStuck == Spec => []PendingCanBeWoken
<1>1. ASSUME RInv, NEW r \in Requests, NEW k \in FinalReplies(r) \ expired[r],
             result[r] = "AsyncPending",
             ~io[r], completions[r] = 0, NoSends(r), NoTasks(r)
      PROVE  /\ r \in Registered
             /\ k > popped[r] \/ [channel |-> r, msg |-> k] \in received
  <2>1. TypeOK /\ Wake(r) /\ StepOK(r) /\ HistoryOK(r) /\ StageOK(r)
    BY <1>1 DEF RInv, IInv, RequestOK, ReplyOK
  <2>2. OnlyCallback(r) /\ step[r] = "WaitForResponse" /\ m_asgi_response_msg[r] = 0
    BY <1>1, <2>1 DEF Wake, OnlyIo, OnlySend, OnlyPosted, OnlyTask, NoSends, NoTasks
  <2>3. r \in Registered
    BY <2>1, <2>2 DEF OnlyCallback, StepOK, Registered, Requests, Steps, NoCallback
  <2>4. popped[r] \in Nat /\ k \in Nat \ {0} /\ ~sent[r][k].more_content /\ k \notin expired[r]
    BY <1>1, <2>1 DEF FinalReplies, TypeOK, ChannelTypeOK, Requests
  <2>5. CASE k <= popped[r]
    <3>1. ~Handled(r, k) /\ k \in 1 .. popped[r]
      BY <2>4, <2>5 DEF Handled
    <3>2. k = popped[r] /\ InFlight(r) # {}
      BY <2>1, <2>2, <3>1 DEF HistoryOK, StageOK, AllHandled
    <3>3. PICK d \in received : d.channel = r /\ d.msg = k
      BY <2>1, <2>2, <3>2 DEF HistoryOK, InFlight, OnlyCallback, NoTasks
    <3>4. d = [channel |-> r, msg |-> k]
      BY <2>1, <3>3 DEF TypeOK, PumpTypeOK
    <3> QED BY <2>3, <3>3, <3>4
  <2> QED BY <2>3, <2>4, <2>5
<1>2. RInv => PendingCanBeWoken
  <2>1. ASSUME RInv PROVE \A r \in Requests : completions[r] \in Nat
    BY <2>1 DEF RInv, IInv, TypeOK, HandlerTypeOK
  <2> QED BY <1>1, <2>1 DEF PendingCanBeWoken
<1> QED BY <1>2, ReplyInvariance, PTL

-----------------------------------------------------------------------------
(* The refinement: each step of the system is a step of the response contract, or    *)
(* one that the contract does not see.                                               *)

\* The phase of a request whose step and error flag stay, or that stays among the steps.
LEMMA PhaseFrame ==
  ASSUME NEW q \in Requests,
         \/ step'[q] = step[q] /\ io_failed'[q] = io_failed[q]
         \/ step[q] \in Steps /\ step'[q] \in Steps
  PROVE  ResponsePhase(q)' = ResponsePhase(q)
<1>1. CASE step'[q] = step[q] /\ io_failed'[q] = io_failed[q]
  BY <1>1 DEF ResponsePhase
<1>2. CASE step[q] \in Steps /\ step'[q] \in Steps
  <2>1. ResponsePhase(q) = "open" /\ ResponsePhase(q)' = "open"
    BY <1>2 DEF ResponsePhase, Steps
  <2> QED BY <2>1
<1> QED BY <1>1, <1>2

\* A request's phase changes, all the others keep theirs.
LEMMA PhaseChange ==
  ASSUME NEW r \in Requests, NEW p, ResponsePhase(r)' = p,
         \A q \in Requests : q # r => ResponsePhase(q)' = ResponsePhase(q)
  PROVE  [q \in Requests |-> ResponsePhase(q)]'
           = [[q \in Requests |-> ResponsePhase(q)] EXCEPT ![r] = p]
  BY DEF Requests

LEMMA PhasesSame ==
  ASSUME \A q \in Requests : ResponsePhase(q)' = ResponsePhase(q)
  PROVE  [q \in Requests |-> ResponsePhase(q)]' = [q \in Requests |-> ResponsePhase(q)]
  BY DEF Requests

\* The chunk that is written is the next one owed.
LEMMA WriteSeen ==
  ASSUME RInv, NEW r \in Requests, WriteResponseEnter(r)
  PROVE  Response!Next \/ UNCHANGED Response!vars
<1> DEFINE m == popped[r]
<1>1. /\ step[r] = "WriteResponse" /\ result[r] = "Rerun" /\ step' = step
      /\ sent' = sent /\ expired' = expired
  BY DEF WriteResponseEnter, At, channelVars
<1>2. \A q \in Requests : ResponsePhase(q)' = ResponsePhase(q)
  <2>1. \A q \in Requests : q # r => io_failed'[q] = io_failed[q]
    BY DEF WriteResponseEnter, Fail, RInv, IInv, TypeOK, ResponseTypeOK
  <2> QED BY <1>1, <2>1, PhaseFrame DEF Steps
<1>3. [q \in Requests |-> ResponsePhase(q)]' = [q \in Requests |-> ResponsePhase(q)]
  BY <1>2, PhasesSame
<1>4. CASE written' = written
  BY <1>1, <1>3, <1>4 DEF Response!vars
<1>5. CASE written' = [written EXCEPT ![r] = Append(@, m_asgi_response_msg[r])]
  <2>1. /\ m_asgi_response_msg[r] = m /\ m \in 1 .. Len(sent[r])
        /\ m \notin expired[r] /\ m \notin SentOn(r) /\ sent[r][m].content
        /\ \A j \in 1 .. (m - 1) : Handled(r, j)
    BY <1>1, NextToWrite DEF RInv
  <2>2. ResponsePhase(r) = "open"
    BY <1>1 DEF ResponsePhase, Steps
  <2>3. Response!DoneBefore(r, m)
    BY <2>1 DEF Response!DoneBefore, Response!Delivered, Handled, SentOn
  <2>4. Response!Deliver(r, m)
    BY <1>1, <1>3, <1>5, <2>1, <2>2, <2>3
    DEF Response!Deliver, Response!Delivered, SentOn
  <2> QED BY <2>1, <2>4 DEF Response!Next
<1> QED BY <1>4, <1>5 DEF WriteResponseEnter

\* A request is finished because its final chunk is out, or after an error.
LEMMA CleanupSeen ==
  ASSUME RInv, NEW r \in Requests, CleanupStoredContext(r)
  PROVE  Response!Next
<1>1. /\ step' = [step EXCEPT ![r] = "destroyed"] /\ result[r] = "FinishRequest"
      /\ sent' = sent /\ expired' = expired /\ written' = written
      /\ io_failed' = io_failed
  BY DEF CleanupStoredContext, channelVars, responseVars
<1>2. /\ step[r] \in Steps /\ (io_failed[r] \/ Complete(r))
      /\ TypeOK /\ HistoryOK(r)
  BY <1>1, Finished DEF RInv, IInv, ReplyOK
<1>3. \A q \in Requests : q # r => ResponsePhase(q)' = ResponsePhase(q)
  <2>1. \A q \in Requests : q # r => step'[q] = step[q]
    BY <1>1, <1>2 DEF TypeOK, HandlerTypeOK
  <2> QED BY <1>1, <2>1, PhaseFrame
<1>4. ResponsePhase(r) = "open"
  BY <1>2 DEF ResponsePhase, Steps
<1>5. step'[r] = "destroyed"
  BY <1>1, <1>2 DEF TypeOK, HandlerTypeOK
<1>6. CASE io_failed[r]
  <2>1. ResponsePhase(r)' = "aborted"
    BY <1>1, <1>5, <1>6 DEF ResponsePhase, Steps
  <2>2. [q \in Requests |-> ResponsePhase(q)]'
          = [[q \in Requests |-> ResponsePhase(q)] EXCEPT ![r] = "aborted"]
    BY <1>3, <2>1, PhaseChange
  <2>3. Response!Abort(r)
    BY <1>1, <1>4, <2>2 DEF Response!Abort
  <2> QED BY <2>3 DEF Response!Next
<1>7. CASE ~io_failed[r]
  <2>1. ResponsePhase(r)' = "closed"
    BY <1>1, <1>5, <1>7 DEF ResponsePhase, Steps
  <2>2. [q \in Requests |-> ResponsePhase(q)]'
          = [[q \in Requests |-> ResponsePhase(q)] EXCEPT ![r] = "closed"]
    BY <1>3, <2>1, PhaseChange
  <2>3. /\ popped[r] \in (1 .. Len(sent[r])) \ expired[r]
        /\ ~sent[r][popped[r]].more_content
        /\ sent[r][popped[r]].content => popped[r] \in SentOn(r)
    <3>1. popped[r] \in Nat /\ sent[r] \in Seq(Payloads)
      BY <1>2 DEF TypeOK, ChannelTypeOK, Requests
    <3> QED BY <1>2, <1>7, <3>1, LenProperties DEF Complete, HistoryOK
  <2>4. \A j \in 1 .. (popped[r] - 1) : Handled(r, j)
    <3>1. \A j \in 1 .. (popped[r] - 1) : j \in 1 .. popped[r] /\ j # popped[r]
      BY <1>2 DEF TypeOK, ChannelTypeOK, Requests
    <3> QED BY <1>2, <3>1 DEF HistoryOK
  <2>5. Response!DoneBefore(r, popped[r])
    BY <2>4 DEF Response!DoneBefore, Response!Delivered, Handled, SentOn
  <2>6. Response!Close(r)
    BY <1>1, <1>4, <2>2, <2>3, <2>5 DEF Response!Close, Response!Delivered, SentOn
  <2> QED BY <2>6 DEF Response!Next
<1> QED BY <1>6, <1>7

\* The rest of what IIS's threads do is not seen.
LEMMA HandlerSeen ==
  ASSUME RInv, NEW r \in Requests, Handler(r)
  PROVE  Response!Next \/ UNCHANGED Response!vars
<1>1. CASE ~WriteResponseEnter(r) /\ ~CleanupStoredContext(r)
  <2>1. step[r] \in Steps /\ step'[r] \in Steps /\ written' = written
    BY <1>1 DEF Handler, At, Goto, Steps, ReadBodyEnter, ReadBodyOnAsyncCompletion,
       ReadBodyGetNextStep, SendToApplicationEnter, SendToApplicationOnAsyncCompletion,
       SendToApplicationGetNextStep, WaitForResponseEnter, responseVars, handlerVars,
       WaitForResponseOnAsyncCompletion, WaitForResponseGetNextStep,
       WriteResponseOnAsyncCompletion, WriteResponseGetNextStep, FlushResponseEnter,
       FlushResponseOnAsyncCompletion, FlushResponseGetNextStep,
       RInv, IInv, TypeOK, HandlerTypeOK
  <2>2. \A q \in Requests : q # r => step'[q] = step[q] /\ io_failed'[q] = io_failed[q]
    BY HandlerLeavesReplies DEF RInv, ReplyOK, SameReply
  <2>3. \A q \in Requests : ResponsePhase(q)' = ResponsePhase(q)
    BY <2>1, <2>2, PhaseFrame
  <2>4. sent' = sent /\ expired' = expired
    BY HandlerAlone DEF RInv, channelVars
  <2> QED BY <2>1, <2>3, <2>4, PhasesSame DEF Response!vars
<1> QED BY <1>1, WriteSeen, CleanupSeen

LEMMA EnvironmentSeen ==
  ASSUME RInv, NEW r \in Requests, Environment(r)
  PROVE  Response!Next \/ UNCHANGED Response!vars
<1>1. CASE OnExecuteRequestHandler(r)
  <2>1. /\ step[r] = "none" /\ step' = [step EXCEPT ![r] = "ReadBody"]
        /\ sent' = sent /\ expired' = expired /\ written' = written
        /\ io_failed' = io_failed
    BY <1>1 DEF OnExecuteRequestHandler, At, Goto, channelVars, responseVars
  <2>2. /\ step'[r] = "ReadBody"
        /\ \A q \in Requests : q # r => step'[q] = step[q]
    BY <2>1 DEF RInv, IInv, TypeOK, HandlerTypeOK
  <2>3. ResponsePhase(r) = "idle" /\ ResponsePhase(r)' = "open"
    BY <2>1, <2>2 DEF ResponsePhase, Steps
  <2>4. \A q \in Requests : q # r => ResponsePhase(q)' = ResponsePhase(q)
    BY <2>1, <2>2, PhaseFrame
  <2>5. [q \in Requests |-> ResponsePhase(q)]'
          = [[q \in Requests |-> ResponsePhase(q)] EXCEPT ![r] = "open"]
    BY <2>3, <2>4, PhaseChange
  <2>6. Response!Open(r)
    BY <2>1, <2>3, <2>5 DEF Response!Open
  <2> QED BY <2>6 DEF Response!Next
<1>2. CASE ~OnExecuteRequestHandler(r)
  <2>1. UNCHANGED <<pumpVars, worker, clientVars>>
    BY <1>2 DEF Environment, AppReceive, RequestExpires, ReplyExpires, AppSend
  <2>2. /\ [q \in Requests |-> ResponsePhase(q)]' = [q \in Requests |-> ResponsePhase(q)]
        /\ written' = written
    <3>1. step' = step /\ io_failed' = io_failed /\ written' = written
      BY <2>1 DEF clientVars, handlerVars, responseVars
    <3> QED BY <3>1, PhaseFrame, PhasesSame
  <2>3. CASE AppReceive(r) \/ RequestExpires(r)
    BY <2>2, <2>3 DEF AppReceive, RequestExpires, channelVars, Response!vars
  <2>4. CASE ReplyExpires(r)
    <3>1. PICK i \in 1 .. MaxMessages : Expire(r, i)
      BY <2>4 DEF ReplyExpires
    <3>2. /\ sent' = sent /\ expired' = [expired EXCEPT ![r] = @ \cup {i}]
          /\ i \in popped[r] + 1 .. Len(sent[r])
      BY <3>1 DEF Expire, Unread
    <3>3. popped[r] \in Nat /\ Len(sent[r]) \in Nat
      BY LenProperties DEF RInv, IInv, TypeOK, ChannelTypeOK, Requests
    <3>4. i \in 1 .. Len(sent[r]) /\ i \notin 1 .. popped[r]
      BY <3>2, <3>3
    <3>5. i \notin SentOn(r)
      BY <3>4 DEF RInv, ReplyOK, HistoryOK, Owed
    <3>6. Response!Expires(r, i)
      BY <2>2, <3>2, <3>4, <3>5 DEF Response!Expires, Response!Delivered, SentOn
    <3> QED BY <3>4, <3>6 DEF Response!Next
  <2>5. CASE \E m \in Payloads : AppSend(r, m)
    <3>1. PICK m \in Payloads : AppSend(r, m)
      BY <2>5
    <3>2. /\ request[r] = "taken" /\ expired' = expired
          /\ sent' = [sent EXCEPT ![r] = Append(@, m)]
      BY <3>1 DEF AppSend, Send
    <3>3. step[r] # "none" /\ step[r] \in Steps \cup {"none", "destroyed"}
      BY <3>2 DEF RInv, IInv, RequestOK, BodyOK, TypeOK, HandlerTypeOK
    <3>4. ResponsePhase(r) # "idle"
      BY <3>3 DEF ResponsePhase, Steps
    <3>5. Response!AppSend(r, m)
      BY <2>2, <3>2, <3>4 DEF Response!AppSend
    <3> QED BY <3>5 DEF Response!Next
  <2> QED BY <1>2, <2>3, <2>4, <2>5 DEF Environment
<1> QED BY <1>1, <1>2

\* The scheduler and the pump move a reply on and show nothing.
LEMMA HiddenSeen ==
  ASSUME Scheduler \/ Pump \/ UNCHANGED vars
  PROVE  UNCHANGED Response!vars
<1>1. UNCHANGED <<step, io_failed, written, sent, expired>>
  BY DEF Scheduler, RunSend, RunSendContinuation, RunCallback, RunCallbackTail, Pump,
     PumpLoop, Snapshot, ReceiveMessage, Blpop, ReceiveTimeout, Dispatch, clientVars,
     channelVars, handlerVars, responseVars, vars
<1>2. \A q \in Requests : ResponsePhase(q)' = ResponsePhase(q)
  BY <1>1, PhaseFrame
<1> QED BY <1>1, <1>2, PhasesSame DEF Response!vars

\* The steps, the scheduler, the pump and the channel layer together keep the response
\* contract: each chunk once, in order and without a gap, nothing after the final one.
THEOREM KeepsResponseContract == Spec => AsgiResponseRefinement
<1>1. Init => Response!Init
  BY DEF Init, ChannelInit, Response!Init, ResponsePhase, Steps, Requests
<1>2. RInv /\ [Next]_vars => [Response!Next]_(Response!vars)
  <2> SUFFICES ASSUME RInv, [Next]_vars
               PROVE  Response!Next \/ UNCHANGED Response!vars
    OBVIOUS
  <2>1. CASE \E r \in Requests : Handler(r)
    BY <2>1, HandlerSeen
  <2>2. CASE \E r \in Requests : Environment(r)
    BY <2>2, EnvironmentSeen
  <2>3. CASE Scheduler \/ Pump \/ UNCHANGED vars
    BY <2>3, HiddenSeen
  <2> QED BY <2>1, <2>2, <2>3 DEF Next
<1> QED
  BY <1>1, <1>2, ReplyInvariance, PTL DEF Spec, AsgiResponseRefinement, Response!Spec

=============================================================================

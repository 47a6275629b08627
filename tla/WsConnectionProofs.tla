------------------------- MODULE WsConnectionProofs -------------------------
(***************************************************************************)
(* Safety of WsConnection for any number of connections and of messages in *)
(* either direction.                                                       *)
(*                                                                         *)
(* The inductive invariant says what may be under way for a connection up  *)
(* to its upgrade and after one that completed at once.  Of one that       *)
(* completed later only the types, the pump's snapshot and the range of    *)
(* the messages in hand are known: reader and writer are started twice.    *)
(* What holds of the starts, however the upgrade completes, is a last one. *)
(*                                                                         *)
(* A second invariant follows the client's stream, as long as every write  *)
(* succeeds and writes all it is given: what was read from Redis is with   *)
(* the client, but for the one message on its way.                         *)
(***************************************************************************)
EXTENDS WsConnection, SequenceLemmas

-----------------------------------------------------------------------------
(* The inductive invariant. *)

NoSends(r) == \A t \in sends : t.connection # r
NoTasks(r) == \A t \in tasks : t.channel # r
NoLoops(r) == \A x \in readers : x.connection # r

\* The one PPL task of r is at pc.
OneSend(r, at) ==
    /\ [connection |-> r, pc |-> at] \in sends
    /\ \A t \in sends : t.connection = r => t.pc = at

OneTask(r) ==
    \E t \in tasks : t.channel = r /\ \A u \in tasks : u.channel = r => u = t

\* The writer has nothing to do and does not listen.
Resting(r) ==
    /\ writing[r] = 0 /\ write_io[r] = 0 /\ m_asgi_send_msg[r] = 0
    /\ m_callbacks[r] = NoCallback /\ NoTasks(r)

\* Neither reader nor writer has been started.
NotStarted(r) ==
    /\ ~io[r]
    /\ starts[r] = 0 /\ starting[r] = "none" /\ NoLoops(r) /\ order[r] = 1
    /\ Resting(r)

\* Nothing is under way for r.
Fresh(r) ==
    NotStarted(r) /\ NoSends(r) /\ completions[r] = 0 /\ to_application[r] = <<>>

\* websocket.connect is on its way: to be sent, sent, or sent and its completion posted.
Connecting(r) ==
    /\ NotStarted(r)
    /\ \/ OneSend(r, "send") /\ completions[r] = 0 /\ to_application[r] = <<>>
       \/ OneSend(r, "post") /\ completions[r] = 0 /\ to_application[r] = <<0>>
       \/ NoSends(r) /\ completions[r] = 1 /\ to_application[r] = <<0>>

\* The three states of a writer that was started once.
Listening(r) ==
    /\ m_callbacks[r] # NoCallback /\ NoTasks(r)
    /\ writing[r] = 0 /\ write_io[r] = 0 /\ m_asgi_send_msg[r] = 0

AboutToWrite(r) ==
    /\ m_callbacks[r] = NoCallback /\ OneTask(r)
    /\ writing[r] = 0 /\ write_io[r] = 0 /\ m_asgi_send_msg[r] = 0

Writing(r) ==
    /\ m_callbacks[r] = NoCallback /\ NoTasks(r)
    /\ writing[r] + write_io[r] = 1 /\ m_asgi_send_msg[r] # 0

\* x is the only loop of r's reader, and r's messages are counted up to where it is.
OnlyLoop(r, x) ==
    /\ x \in readers /\ x.connection = r
    /\ \A y \in readers : y.connection = r => y = x
    /\ Len(to_application[r]) =
           IF x.pc \in {"count", "store"} THEN order[r] + 1 ELSE order[r]
    /\ x.pc \in {"send", "store"} => x.order = order[r]

\* One reader is at work, and one writer once it is started.
Connected(r) ==
    /\ ~io[r] /\ completions[r] = 0 /\ NoSends(r) /\ starts[r] > 0
    /\ \E x : OnlyLoop(r, x)
    /\ InOrder(r)
    /\ \/ starting[r] # "none" /\ Resting(r)
       \/ starting[r] = "none" /\ (Listening(r) \/ AboutToWrite(r) \/ Writing(r))

\* Before the upgrade, and after one that completed at once.
ConnectionOK(r) ==
    /\ step[r] = "none" \/ (step[r] = "AcceptWebSocket" /\ result[r] = "Rerun")
          => upgrade[r] = "none"
    /\ upgrade[r] = "none" =>
          /\ Fresh(r)
          /\ step[r] \in {"none", "AcceptWebSocket", "destroyed"}
          /\ result[r] \in {"none", "Rerun", "FinishRequest"}
    /\ upgrade[r] = "at_once" =>
          \/ step[r] = "AcceptWebSocket" /\ result[r] = "GotoNext" /\ Fresh(r)
          \/ step[r] = "SendConnect" /\ result[r] = "Rerun" /\ Fresh(r)
          \/ /\ step[r] = "SendConnect" /\ result[r] = "AsyncPending"
             /\ Connecting(r) \/ Connected(r)

\* Whatever the pump and the writer hold was sent.
MessagesOK ==
    /\ \A d \in received : d.msg <= Len(sent[d.channel])
    /\ \A t \in tasks : t.msg <= Len(sent[t.channel])
    /\ \A r \in Connections : m_asgi_send_msg[r] <= Len(sent[r])

\* The map never shrinks behind the pump's back, started twice or not.
PumpOK ==
    /\ pc = "receive" => channel_names \subseteq Registered
    /\ pc = "dispatch" => \A d \in received : d.channel \in Registered

IInv ==
    /\ TypeOK
    /\ PumpOK
    /\ MessagesOK
    /\ \A r \in Connections : ConnectionOK(r)

-----------------------------------------------------------------------------
(* What a step leaves alone. *)

\* Nothing ConnectionOK(q) speaks of changes.
SameConnection(q) ==
    /\ step'[q] = step[q] /\ result'[q] = result[q]
    /\ io'[q] = io[q] /\ completions'[q] = completions[q]
    /\ upgrade'[q] = upgrade[q]
    /\ starts'[q] = starts[q] /\ starting'[q] = starting[q] /\ order'[q] = order[q]
    /\ \A x : x.connection = q => (x \in readers' <=> x \in readers)
    /\ to_application'[q] = to_application[q]
    /\ writing'[q] = writing[q] /\ write_io'[q] = write_io[q]
    /\ m_asgi_send_msg'[q] = m_asgi_send_msg[q]
    /\ m_callbacks'[q] = m_callbacks[q]
    /\ \A t : t.connection = q => (t \in sends' <=> t \in sends)
    /\ \A t : t.channel = q => (t \in tasks' <=> t \in tasks)

LEMMA ConnectionFrame ==
  ASSUME NEW q \in Connections, ConnectionOK(q), SameConnection(q)
  PROVE  ConnectionOK(q)'
<1>1. NoSends(q)' <=> NoSends(q)
  BY DEF SameConnection, NoSends
<1>2. NoTasks(q)' <=> NoTasks(q)
  BY DEF SameConnection, NoTasks
<1>3. OneTask(q)' <=> OneTask(q)
  BY DEF SameConnection, OneTask
<1>4. ASSUME NEW at PROVE OneSend(q, at)' <=> OneSend(q, at)
  <2>1. [connection |-> q, pc |-> at].connection = q
    OBVIOUS
  <2> QED BY <2>1 DEF SameConnection, OneSend
<1>5. /\ NoLoops(q)' <=> NoLoops(q)
      /\ \A x : OnlyLoop(q, x)' <=> OnlyLoop(q, x)
  BY DEF SameConnection, NoLoops, OnlyLoop
<1>6. Resting(q)' <=> Resting(q)
  BY <1>2 DEF SameConnection, Resting
<1>7. NotStarted(q)' <=> NotStarted(q)
  BY <1>5, <1>6 DEF SameConnection, NotStarted
<1>8. Fresh(q)' <=> Fresh(q)
  BY <1>1, <1>7 DEF SameConnection, Fresh
<1>9. Connecting(q)' <=> Connecting(q)
  BY <1>1, <1>4, <1>7 DEF SameConnection, Connecting
<1>10. InOrder(q)' <=> InOrder(q)
  BY DEF SameConnection, InOrder
<1>11. /\ Listening(q)' <=> Listening(q)
       /\ AboutToWrite(q)' <=> AboutToWrite(q)
       /\ Writing(q)' <=> Writing(q)
  BY <1>2, <1>3 DEF SameConnection, Listening, AboutToWrite, Writing
<1>12. Connected(q)' <=> Connected(q)
  BY <1>1, <1>5, <1>6, <1>10, <1>11 DEF SameConnection, Connected
<1> QED BY <1>8, <1>9, <1>12 DEF SameConnection, ConnectionOK

\* The pump's own view stays good while callbacks are only added.
LEMMA PumpFrame ==
  ASSUME PumpOK, UNCHANGED <<pc, channel_names, received>>,
         \A q \in Connections : m_callbacks'[q] = NoCallback => m_callbacks[q] = NoCallback
  PROVE  PumpOK'
<1>1. Registered \subseteq Registered'
  BY DEF Registered, Connections
<1> QED BY <1>1 DEF PumpOK

\* Messages are only added to the channels, and only forgotten by their holders.
LEMMA MessagesFrame ==
  ASSUME TypeOK, MessagesOK, received' \subseteq received, tasks' \subseteq tasks,
         \A q \in Connections : m_asgi_send_msg'[q] \in {0, m_asgi_send_msg[q]},
         sent' \in [Channels -> Seq(Payloads)],
         \A q \in Connections : Len(sent[q]) <= Len(sent'[q])
  PROVE  MessagesOK'
<1>1. ASSUME NEW q \in Connections
      PROVE  Len(sent[q]) \in Nat /\ Len(sent'[q]) \in Nat /\ m_asgi_send_msg[q] \in Nat
  BY LenProperties DEF TypeOK, ChannelTypeOK, WriterTypeOK, Connections
<1>2. ASSUME NEW d \in received' PROVE d.msg <= Len(sent'[d.channel])
  <2>1. d \in received /\ d.channel \in Connections /\ d.msg \in Nat
    BY DEF TypeOK, PumpTypeOK, Connections
  <2> QED BY <1>1, <2>1 DEF MessagesOK
<1>3. ASSUME NEW t \in tasks' PROVE t.msg <= Len(sent'[t.channel])
  <2>1. t \in tasks /\ t.channel \in Connections /\ t.msg \in Nat
    BY DEF TypeOK, PumpTypeOK, Connections
  <2> QED BY <1>1, <2>1 DEF MessagesOK
<1>4. ASSUME NEW q \in Connections PROVE m_asgi_send_msg'[q] <= Len(sent'[q])
  BY <1>1 DEF MessagesOK
<1> QED BY <1>2, <1>3, <1>4 DEF MessagesOK, Connections

LEMMA ChannelTypeSame == ChannelTypeOK /\ UNCHANGED channelVars => ChannelTypeOK'
  BY DEF ChannelTypeOK, channelVars

LEMMA PumpTypeSame == PumpTypeOK /\ UNCHANGED pumpVars => PumpTypeOK'
  BY DEF PumpTypeOK, pumpVars

LEMMA ReaderTypeSame == ReaderTypeOK /\ UNCHANGED readerVars => ReaderTypeOK'
  BY DEF ReaderTypeOK, readerVars

LEMMA WriterTypeSame == WriterTypeOK /\ UNCHANGED writerVars => WriterTypeOK'
  BY DEF WriterTypeOK, writerVars

LEMMA ConnectTypeSame ==
  ConnectTypeOK /\ UNCHANGED <<worker, connectVars>> => ConnectTypeOK'
  BY DEF ConnectTypeOK, connectVars

\* What a step outside pump, writer and channels gets from the frame.
LEMMA QuietStep ==
  ASSUME IInv, UNCHANGED <<channelVars, pumpVars, m_asgi_send_msg>>
  PROVE  ChannelTypeOK' /\ PumpTypeOK' /\ PumpOK' /\ MessagesOK'
<1>1. ChannelTypeOK' /\ PumpTypeOK'
  BY ChannelTypeSame, PumpTypeSame DEF IInv, TypeOK
<1>2. PumpOK'
  BY PumpFrame DEF IInv, pumpVars
<1>3. MessagesOK'
  <2>1. /\ sent' = sent /\ received' = received /\ tasks' = tasks
        /\ m_asgi_send_msg' = m_asgi_send_msg
    BY DEF channelVars, pumpVars
  <2>2. \A q \in Connections : Len(sent[q]) \in Nat
    BY LenProperties DEF IInv, TypeOK, ChannelTypeOK, Connections
  <2>3. TypeOK /\ MessagesOK /\ ChannelTypeOK
    BY DEF IInv, TypeOK
  <2> QED BY <2>1, <2>2, <2>3, MessagesFrame DEF ChannelTypeOK
<1> QED BY <1>1, <1>2, <1>3

-----------------------------------------------------------------------------
(* The connect pipeline. *)

\* What all of its actions but the start of reader and writer leave alone.
LEMMA PipelineStep ==
  ASSUME IInv, NEW r \in Connections,
         \/ OnExecuteRequestHandler(r) \/ AcceptWebSocketEnter(r)
         \/ AcceptWebSocketGetNextStep(r) \/ CleanupStoredContext(r)
  PROVE  IInv'
<1>1. UNCHANGED <<channelVars, pumpVars, worker, completions, sends, readerVars, writerVars>>
  BY DEF OnExecuteRequestHandler, AcceptWebSocketEnter, AcceptWebSocketGetNextStep,
     CleanupStoredContext
<1>2. ChannelTypeOK' /\ PumpTypeOK' /\ PumpOK' /\ MessagesOK'
  BY <1>1, QuietStep DEF writerVars
<1>3. TypeOK'
  <2>1. ReaderTypeOK' /\ WriterTypeOK'
    BY <1>1, ReaderTypeSame, WriterTypeSame DEF IInv, TypeOK
  <2>2. ConnectTypeOK'
    BY <1>1 DEF IInv, TypeOK, ConnectTypeOK, OnExecuteRequestHandler,
       AcceptWebSocketEnter, Goto, AcceptWebSocketGetNextStep, CleanupStoredContext, Return
  <2> QED BY <1>2, <2>1, <2>2 DEF TypeOK
<1>4. ASSUME NEW q \in Connections, q # r PROVE ConnectionOK(q)'
  <2>1. SameConnection(q)
    BY <1>1, <1>4 DEF IInv, TypeOK, ConnectTypeOK, ReaderTypeOK, SameConnection,
       OnExecuteRequestHandler, Goto,
       AcceptWebSocketEnter, AcceptWebSocketGetNextStep, CleanupStoredContext, Return,
       readerVars, writerVars, pumpVars
  <2> QED BY <1>4, <2>1, ConnectionFrame DEF IInv
<1>5. ConnectionOK(r)'
  <2>1. Fresh(r) /\ ~io'[r] => Fresh(r)'
    BY <1>1 DEF Fresh, NotStarted, Resting, NoLoops, NoSends, NoTasks, readerVars,
       writerVars, pumpVars
  <2>2. ConnectionOK(r) /\ TypeOK
    BY DEF IInv
  <2>3. CASE OnExecuteRequestHandler(r)
    BY <2>1, <2>2, <2>3 DEF OnExecuteRequestHandler, At, Goto, Return, ConnectionOK,
       Fresh, NotStarted, Resting, NoLoops, TypeOK, ConnectTypeOK
  <2>4. CASE AcceptWebSocketEnter(r)
    BY <2>1, <2>2, <2>4 DEF AcceptWebSocketEnter, At, Return, ConnectionOK,
       Fresh, NotStarted, Resting, NoLoops, TypeOK, ConnectTypeOK
  <2>5. CASE AcceptWebSocketGetNextStep(r)
    BY <2>1, <2>2, <2>5 DEF AcceptWebSocketGetNextStep, At, Goto, Return, ConnectionOK,
       Fresh, NotStarted, Resting, NoLoops, TypeOK, ConnectTypeOK
  <2>6. CASE CleanupStoredContext(r)
    BY <2>1, <2>2, <2>6 DEF CleanupStoredContext, Return, ConnectionOK,
       Fresh, NotStarted, Resting, NoLoops, TypeOK, ConnectTypeOK
  <2> QED BY <2>3, <2>4, <2>5, <2>6
<1> QED BY <1>2, <1>3, <1>4, <1>5 DEF IInv, Connections

LEMMA SendConnectEnterStep ==
  ASSUME IInv, NEW r \in Connections, SendConnectEnter(r)
  PROVE  IInv'
<1> DEFINE t == [connection |-> r, pc |-> "send"]
<1>1. /\ UNCHANGED <<channelVars, pumpVars, worker, step, io, completions, upgrade,
                     readerVars, writerVars>>
      /\ sends' = sends \cup {t}
      /\ result' = [result EXCEPT ![r] = "AsyncPending"]
      /\ step[r] = "SendConnect" /\ result[r] = "Rerun"
  BY DEF SendConnectEnter, At, Return
<1>2. ChannelTypeOK' /\ PumpTypeOK' /\ PumpOK' /\ MessagesOK'
  BY <1>1, QuietStep DEF writerVars
<1>3. TypeOK'
  <2>1. ReaderTypeOK' /\ WriterTypeOK'
    BY <1>1, ReaderTypeSame, WriterTypeSame DEF IInv, TypeOK
  <2>2. t \in [connection : Connections, pc : {"send", "post"}]
    OBVIOUS
  <2>3. ConnectTypeOK'
    BY <1>1, <2>2 DEF IInv, TypeOK, ConnectTypeOK
  <2> QED BY <1>2, <2>1, <2>3 DEF TypeOK
<1>4. ASSUME NEW q \in Connections, q # r PROVE ConnectionOK(q)'
  <2>1. SameConnection(q)
    <3>1. t.connection # q
      BY <1>4
    <3>2. \A u : u.connection = q => (u \in sends' <=> u \in sends)
      BY <1>1, <3>1
    <3> QED BY <1>1, <1>4, <3>2 DEF IInv, TypeOK, ConnectTypeOK, SameConnection,
       readerVars, writerVars, pumpVars
  <2> QED BY <1>4, <2>1, ConnectionFrame DEF IInv
<1>5. ConnectionOK(r)'
  <2>1. ConnectionOK(r) /\ result'[r] = "AsyncPending"
    BY <1>1 DEF IInv, TypeOK, ConnectTypeOK
  <2>2. CASE upgrade[r] # "at_once"
    BY <1>1, <2>1, <2>2 DEF ConnectionOK
  <2>3. CASE upgrade[r] = "at_once"
    <3>1. Fresh(r)
      BY <1>1, <2>1, <2>3 DEF ConnectionOK
    <3>2. OneSend(r, "send")'
      BY <1>1, <3>1 DEF OneSend, Fresh, NoSends
    <3>3. Connecting(r)'
      BY <1>1, <3>1, <3>2 DEF Fresh, Connecting, NotStarted, Resting, NoLoops, NoTasks, readerVars,
         writerVars, pumpVars
    <3> QED BY <1>1, <2>1, <2>3, <3>3 DEF ConnectionOK
  <2> QED BY <2>2, <2>3
<1> QED BY <1>2, <1>3, <1>4, <1>5 DEF IInv, Connections

\* A completion enters the start of the reader.
LEMMA OnAsyncCompletionStep ==
  ASSUME IInv, NEW r \in Connections, OnAsyncCompletion(r)
  PROVE  IInv'
<1>x. PICK x : x = [connection |-> r, start |-> starts[r] + 1, order |-> 0, pc |-> "read"]
  OBVIOUS
<1>1. /\ UNCHANGED <<channelVars, pumpVars, worker, step, result, upgrade, sends, order,
                     to_application, writerVars>>
      /\ starts' = [starts EXCEPT ![r] = @ + 1]
      /\ starting' = [starting EXCEPT ![r] = "reader"]
      /\ readers' = readers \cup {x}
      /\ result[r] = "AsyncPending"
  BY <1>x DEF OnAsyncCompletion
<1>2. \/ /\ io[r] /\ io' = [io EXCEPT ![r] = FALSE] /\ completions' = completions
      \/ /\ completions[r] > 0 /\ completions' = [completions EXCEPT ![r] = @ - 1]
         /\ io' = io
  BY DEF OnAsyncCompletion
<1>3. x \in ReaderLoops /\ x.connection = r /\ x.pc = "read"
  BY <1>x DEF ReaderLoops, IInv, TypeOK, ReaderTypeOK
<1>4. ChannelTypeOK' /\ PumpTypeOK' /\ PumpOK' /\ MessagesOK'
  BY <1>1, QuietStep DEF writerVars
<1>5. TypeOK'
  <2>1. ReaderTypeOK' /\ WriterTypeOK'
    BY <1>1, <1>3, WriterTypeSame DEF IInv, TypeOK, ReaderTypeOK
  <2>2. completions' \in [Connections -> Nat] /\ io' \in [Connections -> BOOLEAN]
    <3>1. completions[r] > 0 => completions[r] - 1 \in Nat
      BY DEF IInv, TypeOK, ConnectTypeOK
    <3> QED BY <1>2, <3>1 DEF IInv, TypeOK, ConnectTypeOK
  <2>3. ConnectTypeOK'
    BY <1>1, <2>2 DEF IInv, TypeOK, ConnectTypeOK
  <2> QED BY <1>4, <2>1, <2>3 DEF TypeOK
<1>6. ASSUME NEW q \in Connections, q # r PROVE ConnectionOK(q)'
  <2>1. SameConnection(q)
    BY <1>1, <1>2, <1>3, <1>6 DEF IInv, TypeOK, ConnectTypeOK, ReaderTypeOK,
       SameConnection, pumpVars, writerVars
  <2> QED BY <1>6, <2>1, ConnectionFrame DEF IInv
<1>7. ConnectionOK(r)'
  <2>1. ConnectionOK(r)
    BY DEF IInv
  <2>2. CASE upgrade[r] # "at_once"
    BY <1>1, <2>1, <2>2 DEF ConnectionOK
  <2>3. CASE upgrade[r] = "at_once"
    <3>1. step[r] = "SendConnect" /\ (Connecting(r) \/ Connected(r))
      BY <1>1, <2>1, <2>3 DEF ConnectionOK
    <3>2. ~io[r] /\ completions[r] > 0
      BY <1>2, <3>1 DEF Connecting, NotStarted, Resting, NoLoops, Connected
    <3>3. /\ NotStarted(r) /\ NoSends(r) /\ completions[r] = 1
          /\ to_application[r] = <<0>>
      BY <3>1, <3>2 DEF Connecting, Connected
    <3>4. /\ completions'[r] = 0 /\ ~io'[r] /\ starts'[r] > 0 /\ starting'[r] = "reader"
          /\ order'[r] = 1 /\ to_application'[r] = <<0>>
      BY <1>1, <1>2, <3>2, <3>3
      DEF NotStarted, Resting, NoLoops, IInv, TypeOK, ConnectTypeOK, ReaderTypeOK
    <3>5. NoSends(r)' /\ Resting(r)'
      BY <1>1, <3>3 DEF NoSends, NoTasks, NotStarted, Resting, NoLoops, writerVars, pumpVars
    <3>6. OnlyLoop(r, x)'
      <4>1. Len(to_application'[r]) = 1
        BY <3>4
      <4> QED BY <1>1, <1>3, <3>3, <3>4, <4>1 DEF NotStarted, Resting, NoLoops, OnlyLoop
    <3>7. InOrder(r)'
      BY <3>4 DEF InOrder
    <3>8. Connected(r)'
      BY <3>4, <3>5, <3>6, <3>7 DEF Connected
    <3> QED BY <1>1, <2>3, <3>1, <3>8 DEF ConnectionOK
  <2> QED BY <2>2, <2>3
<1> QED BY <1>4, <1>5, <1>6, <1>7 DEF IInv, Connections

\* Once the reader's start is over, the writer listens.
LEMMA StartWriterStep ==
  ASSUME IInv, NEW r \in Connections, StartWriter(r)
  PROVE  IInv'
<1>1. /\ UNCHANGED <<channelVars, m_thread_stop, pc, channel_names, received, tasks,
                     worker, step, io, completions, upgrade, sends, starts, readers, order,
                     to_application, writerVars>>
      /\ starting[r] = "writer" /\ starting' = [starting EXCEPT ![r] = "none"]
      /\ m_callbacks' = [m_callbacks EXCEPT ![r] = 1]
      /\ result' = [result EXCEPT ![r] =
                       IF step[r] = "AcceptWebSocket" THEN "GotoNext" ELSE "AsyncPending"]
  BY DEF StartWriter, RegisterChannelsCallback, AddChannel, Return
<1>2. TypeOK'
  <2>1. ChannelTypeOK' /\ WriterTypeOK'
    BY <1>1, ChannelTypeSame, WriterTypeSame DEF IInv, TypeOK
  <2>2. PumpTypeOK'
    BY <1>1 DEF IInv, TypeOK, PumpTypeOK, Connections
  <2>3. ReaderTypeOK' /\ ConnectTypeOK'
    BY <1>1 DEF IInv, TypeOK, ReaderTypeOK, ConnectTypeOK
  <2> QED BY <2>1, <2>2, <2>3 DEF TypeOK
<1>3. PumpOK'
  <2>1. \A q \in Connections : m_callbacks'[q] = NoCallback => m_callbacks[q] = NoCallback
    BY <1>1 DEF IInv, TypeOK, PumpTypeOK, Connections, NoCallback
  <2> QED BY <1>1, <2>1, PumpFrame DEF IInv
<1>4. MessagesOK'
  <2>1. sent' = sent /\ received' = received /\ tasks' = tasks
        /\ m_asgi_send_msg' = m_asgi_send_msg
    BY <1>1 DEF channelVars, writerVars
  <2>2. \A q \in Connections : Len(sent[q]) \in Nat
    BY LenProperties DEF IInv, TypeOK, ChannelTypeOK, Connections
  <2>3. TypeOK /\ MessagesOK /\ ChannelTypeOK
    BY DEF IInv, TypeOK
  <2> QED BY <2>1, <2>2, <2>3, MessagesFrame DEF ChannelTypeOK
<1>5. ASSUME NEW q \in Connections, q # r PROVE ConnectionOK(q)'
  <2>1. SameConnection(q)
    BY <1>1, <1>5 DEF IInv, TypeOK, ConnectTypeOK, ReaderTypeOK, PumpTypeOK, Connections,
       SameConnection, writerVars
  <2> QED BY <1>5, <2>1, ConnectionFrame DEF IInv
<1>6. ConnectionOK(r)'
  <2>1. ConnectionOK(r) /\ ~Fresh(r) /\ ~Connecting(r)
    BY <1>1 DEF IInv, Fresh, Connecting, NotStarted, Resting, NoLoops
  <2>2. CASE upgrade[r] # "at_once"
    <3>1. upgrade[r] # "none"
      BY <2>1 DEF ConnectionOK
    <3> QED BY <1>1, <2>1, <2>2, <3>1 DEF ConnectionOK
  <2>3. CASE upgrade[r] = "at_once"
    <3>1. step[r] = "SendConnect" /\ Connected(r)
      BY <2>1, <2>3 DEF ConnectionOK
    <3>2. result'[r] = "AsyncPending" /\ starting'[r] = "none" /\ m_callbacks'[r] = 1
      BY <1>1, <3>1 DEF IInv, TypeOK, ConnectTypeOK, ReaderTypeOK, PumpTypeOK, Connections
    <3>3. NoSends(r)' /\ InOrder(r)' /\ \A x : OnlyLoop(r, x) => OnlyLoop(r, x)'
      BY <1>1, <3>1 DEF Connected, NoSends, InOrder, OnlyLoop
    <3>4. Listening(r)'
      BY <1>1, <3>1, <3>2
      DEF Connected, Resting, Listening, NoTasks, NoCallback, writerVars
    <3>5. Connected(r)'
      BY <1>1, <3>1, <3>2, <3>3, <3>4 DEF Connected
    <3> QED BY <1>1, <2>3, <3>1, <3>2, <3>5 DEF ConnectionOK
  <2> QED BY <2>2, <2>3
<1> QED BY <1>2, <1>3, <1>4, <1>5, <1>6 DEF IInv, Connections

LEMMA HandlerStep ==
  ASSUME IInv, NEW r \in Connections, Handler(r) \/ OnExecuteRequestHandler(r)
  PROVE  IInv'
  BY PipelineStep, SendConnectEnterStep, OnAsyncCompletionStep, StartWriterStep DEF Handler

-----------------------------------------------------------------------------
(* The PPL tasks of websocket.connect. *)

LEMMA RunSendConnectStep ==
  ASSUME IInv, NEW t \in sends, RunSendConnect(t)
  PROVE  IInv'
<1>1. PICK r \in Connections : r = t.connection
  BY DEF IInv, TypeOK, ConnectTypeOK
<1>2. PICK u : u = [t EXCEPT !.pc = "post"]
  OBVIOUS
<1>3. /\ t = [connection |-> r, pc |-> "send"] /\ u = [connection |-> r, pc |-> "post"]
  <2>1. t \in [connection : Connections, pc : {"send", "post"}] /\ t.pc = "send"
    BY DEF RunSendConnect, IInv, TypeOK, ConnectTypeOK
  <2> QED BY <1>1, <1>2, <2>1
<1>4. /\ sends' = (sends \ {t}) \cup {u}
      /\ to_application' = [to_application EXCEPT ![r] = Append(@, 0)]
      /\ UNCHANGED <<channelVars, pumpVars, worker, step, result, io, completions,
                     upgrade, starts, starting, readers, order, writerVars>>
  BY <1>1, <1>2 DEF RunSendConnect
<1>5. ChannelTypeOK' /\ PumpTypeOK' /\ PumpOK' /\ MessagesOK'
  BY <1>4, QuietStep DEF writerVars
<1>6. to_application[r] \in Seq(Nat) /\ Append(to_application[r], 0) \in Seq(Nat)
  <2>1. to_application[r] \in Seq(Nat)
    BY DEF IInv, TypeOK, ReaderTypeOK
  <2> QED BY <2>1, AppendProperties
<1>7. TypeOK'
  <2>1. ReaderTypeOK' /\ WriterTypeOK'
    BY <1>4, <1>6, WriterTypeSame DEF IInv, TypeOK, ReaderTypeOK
  <2>2. u \in [connection : Connections, pc : {"send", "post"}]
    BY <1>3
  <2>3. ConnectTypeOK'
    BY <1>4, <2>2 DEF IInv, TypeOK, ConnectTypeOK
  <2> QED BY <1>5, <2>1, <2>3 DEF TypeOK
<1>8. ASSUME NEW q \in Connections, q # r PROVE ConnectionOK(q)'
  <2>1. SameConnection(q)
    <3>1. t.connection # q /\ u.connection # q
      BY <1>3, <1>8
    <3>2. \A v : v.connection = q => (v \in sends' <=> v \in sends)
      BY <1>4, <3>1
    <3> QED BY <1>4, <1>8, <3>2 DEF IInv, TypeOK, ReaderTypeOK, SameConnection,
       writerVars, pumpVars
  <2> QED BY <1>8, <2>1, ConnectionFrame DEF IInv
<1>9. ConnectionOK(r)'
  <2>1. ConnectionOK(r) /\ ~NoSends(r)
    BY <1>3 DEF IInv, NoSends
  <2>2. CASE upgrade[r] # "at_once"
    BY <1>4, <2>1, <2>2 DEF ConnectionOK, Fresh
  <2>3. CASE upgrade[r] = "at_once"
    <3>1. /\ step[r] = "SendConnect" /\ result[r] = "AsyncPending"
          /\ Connecting(r)
      BY <2>1, <2>3 DEF ConnectionOK, Fresh, Connected
    <3>2. OneSend(r, "send") /\ completions[r] = 0 /\ to_application[r] = <<>>
      BY <1>3, <2>1, <3>1 DEF Connecting, OneSend
    <3>3. OneSend(r, "post")'
      BY <1>3, <1>4, <3>2 DEF OneSend, IInv, TypeOK, ConnectTypeOK
    <3>4. to_application'[r] = <<0>>
      BY <1>4, <3>2 DEF IInv, TypeOK, ReaderTypeOK
    <3>5. Connecting(r)'
      BY <1>4, <3>1, <3>2, <3>3, <3>4
      DEF Connecting, NotStarted, Resting, NoLoops, NoTasks, writerVars,
         pumpVars
    <3> QED BY <1>4, <2>3, <3>1, <3>5 DEF ConnectionOK
  <2> QED BY <2>2, <2>3
<1> QED BY <1>5, <1>7, <1>8, <1>9 DEF IInv, Connections

LEMMA RunSendConnectContinuationStep ==
  ASSUME IInv, NEW t \in sends, RunSendConnectContinuation(t)
  PROVE  IInv'
<1>1. PICK r \in Connections : r = t.connection
  BY DEF IInv, TypeOK, ConnectTypeOK
<1>2. t = [connection |-> r, pc |-> "post"]
  BY <1>1 DEF RunSendConnectContinuation, IInv, TypeOK, ConnectTypeOK
<1>3. /\ sends' = sends \ {t}
      /\ completions' = [completions EXCEPT ![r] = @ + 1]
      /\ UNCHANGED <<channelVars, pumpVars, worker, step, result, io, upgrade,
                     readerVars, writerVars>>
  BY <1>1 DEF RunSendConnectContinuation, PostCompletion
<1>4. ChannelTypeOK' /\ PumpTypeOK' /\ PumpOK' /\ MessagesOK'
  BY <1>3, QuietStep DEF writerVars
<1>5. TypeOK'
  <2>1. ReaderTypeOK' /\ WriterTypeOK'
    BY <1>3, ReaderTypeSame, WriterTypeSame DEF IInv, TypeOK
  <2>2. ConnectTypeOK'
    BY <1>3 DEF IInv, TypeOK, ConnectTypeOK
  <2> QED BY <1>4, <2>1, <2>2 DEF TypeOK
<1>6. ASSUME NEW q \in Connections, q # r PROVE ConnectionOK(q)'
  <2>1. SameConnection(q)
    <3>1. t.connection # q
      BY <1>2, <1>6
    <3>2. \A v : v.connection = q => (v \in sends' <=> v \in sends)
      BY <1>3, <3>1
    <3> QED BY <1>3, <1>6, <3>2 DEF IInv, TypeOK, ConnectTypeOK, SameConnection,
       readerVars, writerVars, pumpVars
  <2> QED BY <1>6, <2>1, ConnectionFrame DEF IInv
<1>7. ConnectionOK(r)'
  <2>1. ConnectionOK(r) /\ ~NoSends(r)
    BY <1>2 DEF IInv, NoSends
  <2>2. CASE upgrade[r] # "at_once"
    BY <1>3, <2>1, <2>2 DEF ConnectionOK, Fresh
  <2>3. CASE upgrade[r] = "at_once"
    <3>1. /\ step[r] = "SendConnect" /\ result[r] = "AsyncPending"
          /\ Connecting(r)
      BY <2>1, <2>3 DEF ConnectionOK, Fresh, Connected
    <3>2. OneSend(r, "post") /\ completions[r] = 0 /\ to_application[r] = <<0>>
      BY <1>2, <2>1, <3>1 DEF Connecting, OneSend
    <3>3. NoSends(r)'
      <4>1. \A u \in sends : u.connection = r => u = t
        BY <1>2, <3>2 DEF OneSend, IInv, TypeOK, ConnectTypeOK
      <4> QED BY <1>3, <4>1 DEF NoSends
    <3>4. completions'[r] = 1
      BY <1>3, <3>2 DEF IInv, TypeOK, ConnectTypeOK
    <3>5. Connecting(r)'
      BY <1>3, <3>1, <3>2, <3>3, <3>4
      DEF Connecting, NotStarted, Resting, NoLoops, NoTasks, readerVars,
         writerVars, pumpVars
    <3> QED BY <1>3, <2>3, <3>1, <3>5 DEF ConnectionOK
  <2> QED BY <2>2, <2>3
<1> QED BY <1>4, <1>5, <1>6, <1>7 DEF IInv, Connections

-----------------------------------------------------------------------------
(* The reader. *)

\* What a turn of the loop x does: it goes on as y, having packed a message or not, sent
\* it, or done one half of order += 1.
ReaderMoves(x, y) ==
    LET r == x.connection IN
    /\ UNCHANGED <<channelVars, pumpVars, worker, connectVars, starts, writerVars>>
    /\ y \in ReaderLoops /\ y.connection = r /\ y.start = x.start
    /\ readers' = (readers \ {x}) \cup {y}
    /\ starting' \in [Connections -> {"none", "reader", "writer"}]
    /\ \A q \in Connections : starting'[q] = "none" <=> starting[q] = "none"
    /\ \A q \in Connections : q # r => starting'[q] = starting[q]
    /\ \/ /\ x.pc \in {"read", "out"}
          /\ y.pc \in {"read", "out"} \/ (y.pc = "send" /\ y.order = order[r])
          /\ UNCHANGED <<order, to_application>>
       \/ /\ x.pc = "send" /\ y.pc = "count"
          /\ to_application' = [to_application EXCEPT ![r] = Append(@, x.order)]
          /\ UNCHANGED order
       \/ /\ x.pc = "count" /\ y.pc = "store" /\ y.order = order[r]
          /\ UNCHANGED <<order, to_application>>
       \/ /\ x.pc = "store" /\ y.pc = "read"
          /\ order' = [order EXCEPT ![r] = x.order + 1]
          /\ UNCHANGED to_application

\* Every action of the reader is such a turn.
LEMMA ReaderMovesOn ==
  ASSUME TypeOK, NEW x \in readers, Reader(x)
  PROVE  x \in ReaderLoops /\ x.connection \in Connections /\ \E y : ReaderMoves(x, y)
<1> DEFINE r == x.connection
<1>1. /\ x \in ReaderLoops /\ r \in Connections /\ order[r] \in Nat
      /\ starting \in [Connections -> {"none", "reader", "writer"}]
  BY DEF TypeOK, ReaderTypeOK, ReaderLoops
<1>2. ASSUME NEW y, NEW p \in {"read", "out", "send", "count", "store"}, NEW n \in Nat,
             y = [x EXCEPT !.pc = p] \/ y = [x EXCEPT !.pc = p, !.order = n]
      PROVE  /\ y \in ReaderLoops /\ y.pc = p /\ y.connection = r /\ y.start = x.start
             /\ y = [x EXCEPT !.pc = p, !.order = n] => y.order = n
  BY <1>1, <1>2 DEF ReaderLoops
<1>3. UNCHANGED starting =>
         /\ starting' \in [Connections -> {"none", "reader", "writer"}]
         /\ \A q \in Connections : starting'[q] = starting[q]
  BY <1>1
<1>4. ASSUME Pack(x), x.pc \in {"read", "out"},
             UNCHANGED <<channelVars, pumpVars, worker, connectVars, starts, order,
                         to_application, writerVars>>
      PROVE  \E y : ReaderMoves(x, y)
  <2>1. PICK y : y = [x EXCEPT !.pc = "send", !.order = order[r]]
    OBVIOUS
  <2>2. /\ y \in ReaderLoops /\ y.pc = "send" /\ y.connection = r /\ y.start = x.start
        /\ y.order = order[r]
    BY <1>1, <1>2, <2>1
  <2>3. readers' = (readers \ {x}) \cup {y} /\ UNCHANGED starting
    BY <1>4, <2>1 DEF Pack, LoopsOn
  <2>4. ReaderMoves(x, y)
    BY <1>3, <1>4, <2>2, <2>3 DEF ReaderMoves
  <2> QED BY <2>4
<1>5. CASE ReadAsync(x)
  <2>1. CASE Pack(x)
    BY <1>1, <1>4, <1>5, <2>1 DEF ReadAsync
  <2>2. CASE ~Pack(x)
    <3>1. PICK y : y = [x EXCEPT !.pc = "out"]
      OBVIOUS
    <3>2. /\ readers' = (readers \ {x}) \cup {y}
          /\ starting' = [starting EXCEPT ![r] =
                             IF starting[r] = "reader" /\ x.start = starts[r]
                             THEN "writer" ELSE starting[r]]
          /\ x.pc = "read"
          /\ UNCHANGED <<channelVars, pumpVars, worker, connectVars, starts, order,
                         to_application, writerVars>>
      BY <1>5, <2>2, <3>1 DEF ReadAsync, LoopsOn
    <3>3. /\ starting' \in [Connections -> {"none", "reader", "writer"}]
          /\ \A q \in Connections : starting'[q] = "none" <=> starting[q] = "none"
          /\ \A q \in Connections : q # r => starting'[q] = starting[q]
      BY <1>1, <3>2
    <3>4. y \in ReaderLoops /\ y.pc = "out" /\ y.connection = r /\ y.start = x.start
      BY <1>2, <3>1
    <3>5. ReaderMoves(x, y)
      BY <3>2, <3>3, <3>4 DEF ReaderMoves
    <3> QED BY <1>1, <3>5
  <2> QED BY <2>1, <2>2
<1>6. CASE ReadCallback(x)
  <2>1. CASE Pack(x)
    BY <1>1, <1>4, <1>6, <2>1 DEF ReadCallback
  <2>2. CASE ~Pack(x)
    <3>1. PICK y : y = [x EXCEPT !.pc = "read"]
      OBVIOUS
    <3>2. y \in ReaderLoops /\ y.pc = "read" /\ y.connection = r /\ y.start = x.start
      BY <1>2, <3>1
    <3>3. ReaderMoves(x, y)
      BY <1>3, <1>6, <2>2, <3>1, <3>2 DEF ReadCallback, LoopsOn, ReaderMoves
    <3> QED BY <1>1, <3>3
  <2> QED BY <2>1, <2>2
<1>7. CASE ReaderSend(x)
  <2>1. PICK y : y = [x EXCEPT !.pc = "count"]
    OBVIOUS
  <2>2. y \in ReaderLoops /\ y.pc = "count" /\ y.connection = r /\ y.start = x.start
    BY <1>2, <2>1
  <2>3. ReaderMoves(x, y)
    BY <1>3, <1>7, <2>1, <2>2 DEF ReaderSend, LoopsOn, ReaderMoves
  <2> QED BY <1>1, <2>3
<1>8. CASE CountMessage(x)
  <2>1. CASE x.pc = "count"
    <3>1. PICK y : y = [x EXCEPT !.pc = "store", !.order = order[r]]
      OBVIOUS
    <3>2. /\ y \in ReaderLoops /\ y.pc = "store" /\ y.connection = r /\ y.start = x.start
          /\ y.order = order[r]
      BY <1>1, <1>2, <3>1
    <3>3. ReaderMoves(x, y)
      BY <1>3, <1>8, <2>1, <3>1, <3>2 DEF CountMessage, LoopsOn, ReaderMoves
    <3> QED BY <1>1, <3>3
  <2>2. CASE x.pc # "count"
    <3>1. PICK y : y = [x EXCEPT !.pc = "read", !.order = 0]
      OBVIOUS
    <3>2. y \in ReaderLoops /\ y.pc = "read" /\ y.connection = r /\ y.start = x.start
      BY <1>2, <3>1
    <3>3. ReaderMoves(x, y)
      BY <1>3, <1>8, <2>2, <3>1, <3>2 DEF CountMessage, LoopsOn, ReaderMoves
    <3> QED BY <1>1, <3>3
  <2> QED BY <2>1, <2>2
<1> QED BY <1>1, <1>5, <1>6, <1>7, <1>8 DEF Reader

\* Such a turn keeps the types, and all that other connections have.
LEMMA ReaderMovesTypes ==
  ASSUME TypeOK, NEW x \in readers, x \in ReaderLoops, NEW y, ReaderMoves(x, y)
  PROVE  /\ ReaderTypeOK' /\ WriterTypeOK' /\ ConnectTypeOK'
         /\ \A q \in Connections : q # x.connection =>
               /\ starts'[q] = starts[q] /\ starting'[q] = starting[q]
               /\ order'[q] = order[q] /\ to_application'[q] = to_application[q]
               /\ \A z : z.connection = q => (z \in readers' <=> z \in readers)
<1> DEFINE r == x.connection
<1>1. /\ r \in Connections /\ x.order \in Nat /\ order \in [Connections -> Nat]
      /\ to_application \in [Connections -> Seq(Nat)]
  BY DEF TypeOK, ReaderTypeOK, ReaderLoops
<1>2. WriterTypeOK' /\ ConnectTypeOK'
  BY WriterTypeSame, ConnectTypeSame DEF TypeOK, ReaderMoves
<1>3. readers' \subseteq ReaderLoops
  BY DEF TypeOK, ReaderTypeOK, ReaderMoves
<1>4. Append(to_application[r], x.order) \in Seq(Nat)
  BY <1>1, AppendProperties
<1>5. order' \in [Connections -> Nat] /\ to_application' \in [Connections -> Seq(Nat)]
  <2>1. /\ order' = order \/ order' = [order EXCEPT ![r] = x.order + 1]
        /\ \/ to_application' = to_application
           \/ to_application' =
                  [to_application EXCEPT ![r] = Append(to_application[r], x.order)]
    BY DEF ReaderMoves
  <2>2. x.order + 1 \in Nat
    BY <1>1
  <2> QED BY <1>1, <1>4, <2>1, <2>2
<1>6. ReaderTypeOK'
  BY <1>3, <1>5 DEF TypeOK, ReaderTypeOK, ReaderMoves
<1>7. \A q \in Connections : q # r =>
         /\ starts'[q] = starts[q] /\ starting'[q] = starting[q]
         /\ order'[q] = order[q] /\ to_application'[q] = to_application[q]
  BY <1>1 DEF ReaderMoves
<1>8. \A q \in Connections : q # r =>
         \A z : z.connection = q => (z \in readers' <=> z \in readers)
  BY DEF ReaderMoves
<1> QED BY <1>2, <1>6, <1>7, <1>8

\* A message is packed, and then sent, with the number of the messages before it.
LEMMA ReaderStep ==
  ASSUME IInv, NEW x \in readers, Reader(x)
  PROVE  IInv'
<1>1. PICK y : ReaderMoves(x, y)
  BY ReaderMovesOn DEF IInv
<1>2. PICK r \in Connections : r = x.connection
  BY ReaderMovesOn DEF IInv
<1>3. /\ x \in ReaderLoops /\ order[r] \in Nat /\ to_application[r] \in Seq(Nat)
      /\ UNCHANGED <<channelVars, pumpVars, worker, connectVars, starts, writerVars>>
      /\ readers' = (readers \ {x}) \cup {y} /\ y.connection = r
  BY <1>1, <1>2 DEF IInv, TypeOK, ReaderTypeOK, ReaderMoves
<1>4. ChannelTypeOK' /\ PumpTypeOK' /\ PumpOK' /\ MessagesOK'
  BY <1>3, QuietStep DEF writerVars
<1>5. TypeOK'
  BY <1>1, <1>3, <1>4, ReaderMovesTypes DEF IInv, TypeOK
<1>6. ASSUME NEW q \in Connections, q # r PROVE ConnectionOK(q)'
  <2>1. SameConnection(q)
    BY <1>1, <1>2, <1>3, <1>6, ReaderMovesTypes
    DEF IInv, SameConnection, connectVars, writerVars, pumpVars
  <2> QED BY <1>6, <2>1, ConnectionFrame DEF IInv
<1>7. ConnectionOK(r)'
  <2>1. ConnectionOK(r) /\ ~NoLoops(r)
    BY <1>2 DEF IInv, NoLoops
  <2>2. CASE upgrade[r] # "at_once"
    BY <1>3, <2>1, <2>2 DEF ConnectionOK, Fresh, NotStarted, Resting, NoLoops, connectVars
  <2>3. CASE upgrade[r] = "at_once"
    <3>1. step[r] = "SendConnect" /\ result[r] = "AsyncPending" /\ Connected(r)
      BY <2>1, <2>3 DEF ConnectionOK, Fresh, Connecting, NotStarted, Resting, NoLoops
    <3>2. OnlyLoop(r, x) /\ InOrder(r)
      BY <1>2, <3>1 DEF Connected, OnlyLoop
    <3>3. OnlyLoop(r, y)' /\ InOrder(r)'
      <4>1. y \in readers' /\ \A z \in readers' : z.connection = r => z = y
        BY <1>3, <3>2 DEF OnlyLoop
      <4>2. CASE x.pc # "send"
        <5>1. to_application' = to_application /\ InOrder(r)'
          BY <1>1, <3>2, <4>2 DEF ReaderMoves, InOrder
        <5>2. /\ Len(to_application[r]) =
                   IF x.pc \in {"count", "store"} THEN order[r] + 1 ELSE order[r]
              /\ x.pc = "store" => x.order = order[r]
          BY <3>2 DEF OnlyLoop
        <5>3. CASE x.pc \in {"read", "out"}
          <6>1. order' = order /\ y.pc \notin {"count", "store"}
                /\ (y.pc = "send" => y.order = order[r])
            BY <1>1, <1>2, <5>3 DEF ReaderMoves
          <6> QED BY <1>3, <4>1, <5>1, <5>2, <5>3, <6>1 DEF OnlyLoop
        <5>4. CASE x.pc = "count"
          <6>1. order' = order /\ y.pc = "store" /\ y.order = order[r]
            BY <1>1, <1>2, <5>4 DEF ReaderMoves
          <6> QED BY <1>3, <4>1, <5>1, <5>2, <5>4, <6>1 DEF OnlyLoop
        <5>5. CASE x.pc = "store"
          <6>1. order'[r] = order[r] + 1 /\ y.pc = "read"
            BY <1>1, <1>2, <5>2, <5>5 DEF ReaderMoves, IInv, TypeOK, ReaderTypeOK
          <6> QED BY <1>3, <4>1, <5>1, <5>2, <5>5, <6>1 DEF OnlyLoop
        <5> QED BY <1>1, <4>2, <5>3, <5>4, <5>5 DEF ReaderMoves
      <4>3. CASE x.pc = "send"
        <5>1. /\ order' = order /\ y.pc = "count"
              /\ to_application'[r] = Append(to_application[r], order[r])
          BY <1>1, <1>2, <3>2, <4>3 DEF ReaderMoves, OnlyLoop, IInv, TypeOK, ReaderTypeOK
        <5>2. Len(to_application[r]) = order[r]
          BY <3>2, <4>3 DEF OnlyLoop
        <5>3. /\ Len(to_application'[r]) = order[r] + 1
              /\ to_application'[r][order[r] + 1] = order[r]
              /\ \A k \in 1 .. order[r] : to_application'[r][k] = to_application[r][k]
          BY <1>3, <5>1, <5>2, AppendProperties
        <5>4. \A k \in 1 .. order[r] : to_application[r][k] = k - 1
          BY <3>2, <5>2 DEF InOrder
        <5>5. ASSUME NEW k \in 1 .. order[r] + 1 PROVE to_application'[r][k] = k - 1
          <6>1. k \in 1 .. order[r] \/ k = order[r] + 1
            BY <1>3
          <6>2. CASE k \in 1 .. order[r]
            BY <5>3, <5>4, <6>2
          <6>3. CASE k = order[r] + 1
            BY <1>3, <5>3, <6>3
          <6> QED BY <6>1, <6>2, <6>3
        <5>6. InOrder(r)'
          BY <5>3, <5>5 DEF InOrder
        <5> QED BY <1>3, <4>1, <5>1, <5>3, <5>6 DEF OnlyLoop
      <4> QED BY <4>2, <4>3
    <3>4. /\ Listening(r)' = Listening(r) /\ AboutToWrite(r)' = AboutToWrite(r)
          /\ Writing(r)' = Writing(r) /\ NoSends(r)' = NoSends(r)
          /\ Resting(r)' = Resting(r)
      BY <1>3 DEF Listening, AboutToWrite, Writing, Resting, NoTasks, OneTask, NoSends,
         connectVars, writerVars, pumpVars
    <3>5. starting'[r] = "none" <=> starting[r] = "none"
      BY <1>1 DEF ReaderMoves
    <3>6. Connected(r)'
      BY <1>3, <3>1, <3>3, <3>4, <3>5 DEF Connected, connectVars
    <3> QED BY <1>3, <2>3, <3>1, <3>6 DEF ConnectionOK, connectVars
  <2> QED BY <2>2, <2>3
<1> QED BY <1>4, <1>5, <1>6, <1>7 DEF IInv, Connections

-----------------------------------------------------------------------------
(* The writer. *)

\* The size of the message in hand is a number, and so is what is left of it.
LEMMA SizeInHand ==
  ASSUME IInv, NEW r \in Connections, m_asgi_send_msg[r] # 0
  PROVE  /\ Size(r) \in Nat /\ m_bytes_written[r] \in Nat
         /\ ToWrite(r) = Size(r) - m_bytes_written[r]
<1>1. /\ m_asgi_send_msg[r] \in Nat /\ m_asgi_send_msg[r] <= Len(sent[r])
      /\ sent[r] \in Seq(Payloads) /\ m_bytes_written[r] \in Nat
  BY DEF IInv, TypeOK, ChannelTypeOK, WriterTypeOK, MessagesOK, Connections
<1>2. m_asgi_send_msg[r] \in 1 .. Len(sent[r])
  BY <1>1, LenProperties
<1>3. Size(r) \in Payloads
  BY <1>1, <1>2, ElementOfSeq DEF Size
<1> QED BY <1>1, <1>3, WsAssumption DEF ToWrite

\* What the client gets of a write is bytes of the message in hand.
LEMMA WrittenTypes ==
  ASSUME IInv, NEW r \in Connections, m_asgi_send_msg[r] # 0, NEW k \in Int,
         Written(r, k)
  PROVE  /\ to_client' \in [Connections -> Seq((Nat \ {0}) \X (Nat \ {0}))]
         /\ write_partial' \in [Connections -> BOOLEAN]
<1> DEFINE Bytes == (Nat \ {0}) \X (Nat \ {0})
<1>1. PICK fragment : fragment = [p \in 1 .. k |-> <<m_asgi_send_msg[r], p>>]
  OBVIOUS
<1>2. m_asgi_send_msg[r] \in Nat \ {0} /\ to_client[r] \in Seq(Bytes)
  BY DEF IInv, TypeOK, WriterTypeOK
<1>3. fragment \in Seq(Bytes)
  <2>1. PICK n \in Nat : 1 .. n = 1 .. k
    <3>1. CASE k >= 0
      BY <3>1
    <3>2. CASE k < 0
      <4>1. 1 .. 0 = 1 .. k
        BY <3>2
      <4> QED BY <4>1
    <3> QED BY <3>1, <3>2
  <2>2. \A p \in 1 .. n : <<m_asgi_send_msg[r], p>> \in Bytes
    BY <1>2, <2>1
  <2>3. fragment \in [1 .. n -> Bytes]
    BY <1>1, <2>1, <2>2
  <2> QED BY <2>3, SeqDef
<1>4. to_client[r] \o fragment \in Seq(Bytes)
  BY <1>2, <1>3, ConcatProperties
<1>5. to_client' = [to_client EXCEPT ![r] = to_client[r] \o fragment]
  BY <1>1 DEF Written
<1>6. to_client \in [Connections -> Seq(Bytes)]
  BY DEF IInv, TypeOK, WriterTypeOK
<1>7. to_client' \in [Connections -> Seq(Bytes)]
  BY <1>4, <1>5, <1>6
<1>8. write_partial' \in [Connections -> BOOLEAN]
  BY DEF Written, IInv, TypeOK, WriterTypeOK
<1> QED BY <1>7, <1>8

\* Counting k bytes ends the message and listens, or goes on writing.
LEMMA WriteAsyncCompleteOK ==
  ASSUME IInv, NEW r \in Connections, m_asgi_send_msg[r] # 0, NEW k \in Int,
         k >= 0 \/ k = ToWrite(r), NEW more \in {0, 1}, WriteAsyncComplete(r, k, more)
  PROVE  /\ m_bytes_written' \in [Connections -> Nat]
         /\ more = 0 =>
               /\ m_asgi_send_msg' = [m_asgi_send_msg EXCEPT ![r] = 0]
               /\ m_callbacks' = [m_callbacks EXCEPT ![r] = 1]
         /\ more = 1 => UNCHANGED <<m_asgi_send_msg, m_callbacks>>
         /\ UNCHANGED <<m_thread_stop, pc, channel_names, received, tasks>>
<1>1. /\ Size(r) \in Nat /\ m_bytes_written[r] \in Nat
      /\ ToWrite(r) = Size(r) - m_bytes_written[r]
  BY SizeInHand
<1>2. m_bytes_written \in [Connections -> Nat]
  BY DEF IInv, TypeOK, WriterTypeOK
<1>3. CASE m_bytes_written[r] + k >= Size(r)
  BY <1>2, <1>3 DEF WriteAsyncComplete, RegisterChannelsCallback, AddChannel
<1>4. CASE ~(m_bytes_written[r] + k >= Size(r))
  <2>1. m_bytes_written[r] + k \in Nat
    BY <1>1, <1>4
  <2> QED BY <1>2, <1>4, <2>1 DEF WriteAsyncComplete, pumpVars
<1> QED BY <1>3, <1>4

\* What WriteAsync() and WriteCallback() have in common: one thread or call less for r,
\* and either one more, or the message is done and the writer listens.
WriterMoves(r) ==
    /\ TypeOK'
    /\ UNCHANGED <<channelVars, m_thread_stop, pc, channel_names, received, tasks,
                   connectVars, readerVars>>
    /\ \A q \in Connections : q # r =>
          /\ writing'[q] = writing[q] /\ write_io'[q] = write_io[q]
          /\ m_asgi_send_msg'[q] = m_asgi_send_msg[q]
          /\ m_callbacks'[q] = m_callbacks[q]
    /\ m_asgi_send_msg'[r] \in {0, m_asgi_send_msg[r]}
    /\ writing[r] + write_io[r] > 0
    /\ \/ /\ writing'[r] + write_io'[r] = writing[r] + write_io[r]
          /\ m_asgi_send_msg'[r] = m_asgi_send_msg[r] /\ m_callbacks'[r] = m_callbacks[r]
       \/ /\ writing'[r] + write_io'[r] = writing[r] + write_io[r] - 1
          /\ m_asgi_send_msg'[r] = 0 /\ m_callbacks'[r] # NoCallback

LEMMA WriteCountsInt ==
  ASSUME IInv, NEW r \in Connections, m_asgi_send_msg[r] # 0
  PROVE  /\ ToWrite(r) \in Int
         /\ \A k \in WriteCounts(r) : k \in Int /\ (k >= 0 \/ k = ToWrite(r))
  BY SizeInHand DEF WriteCounts

LEMMA NullMessageMoves ==
  ASSUME IInv, NEW r \in Connections, NullMessage(r), writing[r] + write_io[r] > 0,
         UNCHANGED <<channelVars, connectVars, readerVars>>
  PROVE  WriterMoves(r)
<1>1. UNCHANGED <<channelVars, pumpVars, connectVars, readerVars, writerVars>>
  BY DEF NullMessage, writerVars
<1>2. worker' = "crashed"
  BY DEF NullMessage
<1>3. ConnectTypeOK'
  BY <1>1, <1>2 DEF IInv, TypeOK, ConnectTypeOK, connectVars
<1>4. TypeOK'
  BY <1>1, <1>3, ChannelTypeSame, PumpTypeSame, ReaderTypeSame, WriterTypeSame
  DEF IInv, TypeOK
<1> QED BY <1>1, <1>4 DEF WriterMoves, writerVars, pumpVars

\* A write that was counted.
LEMMA CountedMoves ==
  ASSUME IInv, NEW r \in Connections, m_asgi_send_msg[r] # 0,
         NEW k \in Int, k >= 0 \/ k = ToWrite(r), NEW more \in {0, 1},
         WriteAsyncComplete(r, k, more),
         \/ /\ writing[r] > 0 /\ writing' = [writing EXCEPT ![r] = @ - 1 + more]
            /\ UNCHANGED write_io
         \/ /\ write_io[r] > 0 /\ write_io' = [write_io EXCEPT ![r] = @ - 1]
            /\ writing' = [writing EXCEPT ![r] = @ + more],
         \/ Written(r, k) /\ UNCHANGED write_failed
         \/ /\ write_failed' = [write_failed EXCEPT ![r] = TRUE]
            /\ UNCHANGED <<to_client, write_partial>>,
         UNCHANGED <<worker, channelVars, connectVars, readerVars>>
  PROVE  WriterMoves(r)
<1>1. /\ m_bytes_written' \in [Connections -> Nat]
      /\ more = 0 =>
            /\ m_asgi_send_msg' = [m_asgi_send_msg EXCEPT ![r] = 0]
            /\ m_callbacks' = [m_callbacks EXCEPT ![r] = 1]
      /\ more = 1 => UNCHANGED <<m_asgi_send_msg, m_callbacks>>
      /\ UNCHANGED <<m_thread_stop, pc, channel_names, received, tasks>>
  BY WriteAsyncCompleteOK
<1>2. /\ writing \in [Connections -> Nat] /\ write_io \in [Connections -> Nat]
      /\ m_asgi_send_msg \in [Connections -> Nat]
      /\ m_callbacks \in [Connections -> Nat]
      /\ writing[r] \in Nat /\ write_io[r] \in Nat
  BY DEF IInv, TypeOK, WriterTypeOK, PumpTypeOK, Connections
<1>3. writing' \in [Connections -> Nat] /\ write_io' \in [Connections -> Nat]
  <2>1. /\ writing[r] > 0 => writing[r] - 1 + more \in Nat
        /\ write_io[r] > 0 => write_io[r] - 1 \in Nat
        /\ writing[r] + more \in Nat
    BY <1>2
  <2> QED BY <1>2, <2>1
<1>4. writing'[r] + write_io'[r] = writing[r] + write_io[r] - 1 + more
  BY <1>2
<1>5. m_asgi_send_msg' \in [Connections -> Nat] /\ m_callbacks' \in [Connections -> Nat]
  BY <1>1, <1>2
<1>6. WriterTypeOK'
  <2>1. /\ to_client' \in [Connections -> Seq((Nat \ {0}) \X (Nat \ {0}))]
        /\ write_partial' \in [Connections -> BOOLEAN]
    BY WrittenTypes DEF IInv, TypeOK, WriterTypeOK
  <2>2. write_failed' \in [Connections -> BOOLEAN]
    BY DEF IInv, TypeOK, WriterTypeOK
  <2> QED BY <1>1, <1>3, <1>5, <2>1, <2>2 DEF WriterTypeOK
<1>7. TypeOK'
  <2>1. PumpTypeOK'
    BY <1>1, <1>5 DEF IInv, TypeOK, PumpTypeOK, Connections
  <2> QED BY <1>6, <2>1, ChannelTypeSame, ConnectTypeSame, ReaderTypeSame DEF IInv, TypeOK
<1>8. \A q \in Connections : q # r =>
          /\ writing'[q] = writing[q] /\ write_io'[q] = write_io[q]
          /\ m_asgi_send_msg'[q] = m_asgi_send_msg[q]
          /\ m_callbacks'[q] = m_callbacks[q]
  BY <1>1, <1>2
<1>9. CASE more = 0
  <2>1. m_asgi_send_msg'[r] = 0 /\ m_callbacks'[r] # NoCallback
    BY <1>1, <1>2, <1>9 DEF NoCallback
  <2> QED BY <1>1, <1>2, <1>4, <1>7, <1>8, <1>9, <2>1 DEF WriterMoves
<1>10. CASE more = 1
  BY <1>1, <1>2, <1>4, <1>7, <1>8, <1>10 DEF WriterMoves
<1> QED BY <1>9, <1>10

LEMMA WriterMovesOn ==
  ASSUME IInv, NEW r \in Connections, Writer(r)
  PROVE  WriterMoves(r)
<1>1. writing[r] \in Nat /\ write_io[r] \in Nat
  BY DEF IInv, TypeOK, WriterTypeOK
<1>2. CASE WriteAsync(r)
  <2>1. writing[r] > 0 /\ UNCHANGED <<channelVars, connectVars, readerVars>>
    BY <1>2 DEF WriteAsync
  <2>2. CASE NullMessage(r)
    BY <1>1, <2>1, <2>2, NullMessageMoves
  <2>3. CASE /\ m_asgi_send_msg[r] # 0 /\ UNCHANGED <<worker, pumpVars>>
             /\ writing' = [writing EXCEPT ![r] = @ - 1]
             /\ write_io' = [write_io EXCEPT ![r] = @ + 1]
             /\ UNCHANGED <<m_asgi_send_msg, m_bytes_written, to_client, write_failed,
                            write_partial>>
    <3>1. writing[r] - 1 \in Nat
      BY <1>1, <2>1
    <3>2. WriterTypeOK'
      BY <1>1, <2>3, <3>1 DEF IInv, TypeOK, WriterTypeOK
    <3>3. TypeOK'
      BY <2>1, <2>3, <3>2, ChannelTypeSame, PumpTypeSame, ConnectTypeSame, ReaderTypeSame
      DEF IInv, TypeOK
    <3>4. /\ writing'[r] = writing[r] - 1 /\ write_io'[r] = write_io[r] + 1
          /\ \A q \in Connections : q # r =>
                writing'[q] = writing[q] /\ write_io'[q] = write_io[q]
      BY <2>3 DEF IInv, TypeOK, WriterTypeOK
    <3> QED BY <1>1, <2>1, <2>3, <3>3, <3>4 DEF WriterMoves, pumpVars
  <2>4. CASE /\ m_asgi_send_msg[r] # 0 /\ UNCHANGED <<worker, write_io>>
             /\ \E more \in {0, 1} :
                  /\ writing' = [writing EXCEPT ![r] = @ - 1 + more]
                  /\ \/ /\ \E k \in WriteCounts(r) :
                              Written(r, k) /\ WriteAsyncComplete(r, k, more)
                        /\ UNCHANGED write_failed
                     \/ /\ WriteAsyncComplete(r, ToWrite(r), more)
                        /\ write_failed' = [write_failed EXCEPT ![r] = TRUE]
                        /\ UNCHANGED <<to_client, write_partial>>
    BY <2>1, <2>4, WriteCountsInt, CountedMoves
  <2> QED BY <1>2, <2>2, <2>3, <2>4 DEF WriteAsync
<1>3. CASE WriteCallback(r)
  <2>1. write_io[r] > 0 /\ UNCHANGED <<channelVars, connectVars, readerVars>>
    BY <1>3 DEF WriteCallback
  <2>2. CASE NullMessage(r)
    BY <1>1, <2>1, <2>2, NullMessageMoves
  <2>3. CASE ~NullMessage(r)
    <3>1. /\ m_asgi_send_msg[r] # 0 /\ UNCHANGED worker
          /\ write_io' = [write_io EXCEPT ![r] = @ - 1]
          /\ \E more \in {0, 1} :
                /\ writing' = [writing EXCEPT ![r] = @ + more]
                /\ \/ /\ \E k \in WriteCounts(r) :
                            Written(r, k) /\ WriteAsyncComplete(r, k, more)
                      /\ UNCHANGED write_failed
                   \/ /\ WriteAsyncComplete(r, 0, more)
                      /\ write_failed' = [write_failed EXCEPT ![r] = TRUE]
                      /\ UNCHANGED <<to_client, write_partial>>
      BY <1>3, <2>3 DEF WriteCallback
    <3>2. PICK more \in {0, 1} :
            /\ writing' = [writing EXCEPT ![r] = @ + more]
            /\ \/ /\ \E k \in WriteCounts(r) :
                        Written(r, k) /\ WriteAsyncComplete(r, k, more)
                  /\ UNCHANGED write_failed
               \/ /\ WriteAsyncComplete(r, 0, more)
                  /\ write_failed' = [write_failed EXCEPT ![r] = TRUE]
                  /\ UNCHANGED <<to_client, write_partial>>
      BY <3>1
    <3>3. CASE \E k \in WriteCounts(r) :
                  /\ Written(r, k) /\ WriteAsyncComplete(r, k, more)
                  /\ UNCHANGED write_failed
      BY <2>1, <3>1, <3>2, <3>3, WriteCountsInt, CountedMoves
    <3>4. CASE /\ WriteAsyncComplete(r, 0, more)
               /\ write_failed' = [write_failed EXCEPT ![r] = TRUE]
               /\ UNCHANGED <<to_client, write_partial>>
      <4>1. 0 \in Int /\ 0 >= 0
        OBVIOUS
      <4> QED BY <2>1, <3>1, <3>2, <3>4, <4>1, CountedMoves
    <3> QED BY <3>2, <3>3, <3>4
  <2> QED BY <2>2, <2>3
<1> QED BY <1>2, <1>3 DEF Writer

\* The writer's own threads keep it in one of its three states.
LEMMA WriterStep ==
  ASSUME IInv, NEW r \in Connections, Writer(r)
  PROVE  IInv'
<1>1. WriterMoves(r)
  BY WriterMovesOn
<1>2. /\ UNCHANGED <<channelVars, pc, channel_names, received, tasks, connectVars,
                     readerVars>>
      /\ TypeOK'
  BY <1>1 DEF WriterMoves
<1>3. PumpOK'
  <2>1. \A q \in Connections : m_callbacks'[q] = NoCallback => m_callbacks[q] = NoCallback
    BY <1>1 DEF WriterMoves
  <2> QED BY <1>2, <2>1, PumpFrame DEF IInv
<1>4. MessagesOK'
  <2>1. /\ \A q \in Connections : m_asgi_send_msg'[q] \in {0, m_asgi_send_msg[q]}
        /\ sent' = sent
    BY <1>1 DEF WriterMoves, channelVars
  <2>2. \A q \in Connections : Len(sent[q]) \in Nat
    BY LenProperties DEF IInv, TypeOK, ChannelTypeOK, Connections
  <2>3. TypeOK /\ MessagesOK /\ ChannelTypeOK
    BY DEF IInv, TypeOK
  <2> QED BY <1>2, <2>1, <2>2, <2>3, MessagesFrame DEF ChannelTypeOK
<1>5. ASSUME NEW q \in Connections, q # r PROVE ConnectionOK(q)'
  <2>1. SameConnection(q)
    BY <1>1, <1>2, <1>5 DEF WriterMoves, SameConnection, connectVars, readerVars
  <2> QED BY <1>5, <2>1, ConnectionFrame DEF IInv
<1>6. ConnectionOK(r)'
  <2>1. ConnectionOK(r) /\ writing[r] + write_io[r] > 0
    BY <1>1 DEF IInv, WriterMoves
  <2>2. writing[r] \in Nat /\ write_io[r] \in Nat /\ writing'[r] \in Nat /\ write_io'[r] \in Nat
    BY <1>2 DEF IInv, TypeOK, WriterTypeOK
  <2>3. ~Fresh(r) /\ ~NotStarted(r)
    BY <2>1, <2>2 DEF Fresh, NotStarted, Resting, NoLoops
  <2>4. CASE upgrade[r] # "at_once"
    BY <1>2, <2>1, <2>3, <2>4 DEF ConnectionOK, connectVars
  <2>5. CASE upgrade[r] = "at_once"
    <3>1. step[r] = "SendConnect" /\ result[r] = "AsyncPending" /\ Connected(r)
      BY <2>1, <2>3, <2>5 DEF ConnectionOK, Connecting
    <3>2. Writing(r) /\ starting[r] = "none"
      BY <2>1, <2>2, <3>1 DEF Connected, Resting, Listening, AboutToWrite
    <3>3. NoTasks(r)'
      BY <1>2, <3>2 DEF Writing, NoTasks
    <3>4. Writing(r)' \/ Listening(r)'
      <4>1. CASE /\ writing'[r] + write_io'[r] = writing[r] + write_io[r]
                 /\ m_asgi_send_msg'[r] = m_asgi_send_msg[r]
                 /\ m_callbacks'[r] = m_callbacks[r]
        BY <3>2, <3>3, <4>1 DEF Writing
      <4>2. CASE /\ writing'[r] + write_io'[r] = writing[r] + write_io[r] - 1
                 /\ m_asgi_send_msg'[r] = 0 /\ m_callbacks'[r] # NoCallback
        <5>1. writing'[r] + write_io'[r] = 0
          BY <2>2, <3>2, <4>2 DEF Writing
        <5>2. writing'[r] = 0 /\ write_io'[r] = 0
          BY <2>2, <5>1
        <5> QED BY <3>3, <4>2, <5>2 DEF Listening
      <4> QED BY <1>1, <4>1, <4>2 DEF WriterMoves
    <3>5. NoSends(r)' /\ InOrder(r)' /\ \E x : OnlyLoop(r, x)'
      BY <1>2, <3>1 DEF Connected, NoSends, InOrder, OnlyLoop, connectVars, readerVars
    <3>6. Connected(r)'
      BY <1>2, <3>1, <3>2, <3>4, <3>5 DEF Connected, connectVars, readerVars
    <3> QED BY <1>2, <2>5, <3>1, <3>6 DEF ConnectionOK, connectVars
  <2> QED BY <2>4, <2>5
<1> QED BY <1>2, <1>3, <1>4, <1>5, <1>6 DEF IInv, Connections

\* A callback hands the writer its message.
LEMMA RunCallbackStep ==
  ASSUME IInv, NEW t \in tasks, RunCallback(t)
  PROVE  IInv'
<1> DEFINE r == t.channel
<1>1. /\ t \in [channel : Channels, callback : Nat \ {NoCallback}, msg : Nat \ {0}]
      /\ r \in Connections /\ t.msg \in Nat \ {0} /\ t.msg <= Len(sent[r])
  BY DEF IInv, TypeOK, PumpTypeOK, MessagesOK, Connections
<1>2. /\ UNCHANGED <<channelVars, m_callbacks, m_thread_stop, pc, channel_names, received,
                     worker, connectVars, readerVars, write_io, m_bytes_written,
                     to_client, write_failed, write_partial>>
      /\ tasks' = tasks \ {t}
      /\ m_asgi_send_msg' = [m_asgi_send_msg EXCEPT ![r] = t.msg]
      /\ writing' = [writing EXCEPT ![r] = @ + 1]
  BY DEF RunCallback, TaskDone
<1> HIDE DEF r
<1>3. TypeOK'
  <2>1. ChannelTypeOK' /\ ConnectTypeOK' /\ ReaderTypeOK'
    BY <1>2, ChannelTypeSame, ConnectTypeSame, ReaderTypeSame DEF IInv, TypeOK
  <2>2. PumpTypeOK'
    BY <1>2 DEF IInv, TypeOK, PumpTypeOK
  <2>3. WriterTypeOK'
    BY <1>1, <1>2 DEF IInv, TypeOK, WriterTypeOK
  <2> QED BY <2>1, <2>2, <2>3 DEF TypeOK
<1>4. PumpOK'
  BY <1>2, PumpFrame DEF IInv
<1>5. MessagesOK'
  <2>1. sent' = sent
    BY <1>2 DEF channelVars
  <2>2. m_asgi_send_msg'[r] = t.msg
        /\ \A q \in Connections : q # r => m_asgi_send_msg'[q] = m_asgi_send_msg[q]
    BY <1>1, <1>2 DEF IInv, TypeOK, WriterTypeOK
  <2>3. \A q \in Connections : m_asgi_send_msg'[q] <= Len(sent[q])
    BY <1>1, <2>2 DEF IInv, MessagesOK
  <2> QED BY <1>2, <2>1, <2>3 DEF IInv, MessagesOK
<1>6. ASSUME NEW q \in Connections, q # r PROVE ConnectionOK(q)'
  <2>1. \A u : u.channel = q => (u \in tasks' <=> u \in tasks)
    BY <1>2, <1>6 DEF r
  <2>2. SameConnection(q)
    BY <1>2, <1>6, <2>1 DEF IInv, TypeOK, WriterTypeOK, SameConnection, connectVars,
       readerVars
  <2> QED BY <1>6, <2>2, ConnectionFrame DEF IInv
<1>7. ConnectionOK(r)'
  <2>1. ConnectionOK(r) /\ ~NoTasks(r)
    BY <1>1 DEF IInv, NoTasks, r
  <2>2. CASE upgrade[r] # "at_once"
    BY <1>2, <2>1, <2>2 DEF ConnectionOK, Fresh, NotStarted, Resting, NoLoops, connectVars
  <2>3. CASE upgrade[r] = "at_once"
    <3>1. step[r] = "SendConnect" /\ result[r] = "AsyncPending" /\ Connected(r)
      BY <2>1, <2>3 DEF ConnectionOK, Fresh, Connecting, NotStarted, Resting, NoLoops
    <3>2. AboutToWrite(r) /\ starting[r] = "none"
      BY <2>1, <3>1 DEF Connected, Resting, Listening, Writing
    <3>3. NoTasks(r)'
      BY <1>2, <3>2 DEF AboutToWrite, OneTask, NoTasks, r
    <3>4. writing'[r] = 1 /\ write_io'[r] = 0 /\ m_asgi_send_msg'[r] # 0
      BY <1>1, <1>2, <3>2 DEF AboutToWrite, IInv, TypeOK, WriterTypeOK
    <3>5. Writing(r)'
      BY <1>2, <3>2, <3>3, <3>4 DEF Writing, AboutToWrite
    <3>6. NoSends(r)' /\ InOrder(r)' /\ \E x : OnlyLoop(r, x)'
      BY <1>2, <3>1 DEF Connected, NoSends, InOrder, OnlyLoop, connectVars, readerVars
    <3>7. Connected(r)'
      BY <1>2, <3>1, <3>2, <3>5, <3>6 DEF Connected, connectVars, readerVars
    <3> QED BY <1>2, <2>3, <3>1, <3>7 DEF ConnectionOK, connectVars
  <2> QED BY <2>2, <2>3
<1> QED BY <1>3, <1>4, <1>5, <1>6, <1>7 DEF IInv, Connections

-----------------------------------------------------------------------------
(* The application, Redis and the pump. *)

LEMMA OutsideStep ==
  ASSUME IInv, NEW r \in Connections,
         ReplyExpires(r) \/ \E m \in Payloads : AppSend(r, m)
  PROVE  IInv'
<1>1. /\ UNCHANGED <<pumpVars, worker, connectVars, readerVars, writerVars>>
      /\ \/ \E i \in 1 .. MaxMessages : Expire(r, i)
         \/ \E m \in Payloads : Send(r, m)
  BY DEF ReplyExpires, AppSend
<1>2. /\ ChannelTypeOK'
      /\ \A q \in Connections : Len(sent[q]) <= Len(sent'[q])
  <2>1. \A q \in Connections : Len(sent[q]) \in Nat /\ sent[q] \in Seq(Payloads)
    BY LenProperties DEF IInv, TypeOK, ChannelTypeOK, Connections
  <2>2. CASE \E i \in 1 .. MaxMessages : Expire(r, i)
    BY <2>1, <2>2 DEF Expire, IInv, TypeOK, ChannelTypeOK, Connections
  <2>3. CASE \E m \in Payloads : Send(r, m)
    <3>1. PICK m \in Payloads : Send(r, m)
      BY <2>3
    <3>2. /\ Append(sent[r], m) \in Seq(Payloads)
          /\ Len(Append(sent[r], m)) = Len(sent[r]) + 1
      BY <2>1, <3>1, AppendProperties
    <3>3. /\ sent' = [sent EXCEPT ![r] = Append(sent[r], m)]
          /\ popped' = popped /\ expired' = expired
      BY <3>1 DEF Send
    <3>4. sent \in [Connections -> Seq(Payloads)]
      BY DEF IInv, TypeOK, ChannelTypeOK, Connections
    <3>5. ChannelTypeOK'
      BY <3>2, <3>3 DEF IInv, TypeOK, ChannelTypeOK, Connections
    <3>6. \A q \in Connections : Len(sent[q]) <= Len(sent'[q])
      <4>1. sent'[r] = Append(sent[r], m)
            /\ \A q \in Connections : q # r => sent'[q] = sent[q]
        BY <3>3, <3>4
      <4> QED BY <2>1, <3>2, <4>1
    <3> QED BY <3>5, <3>6
  <2> QED BY <1>1, <2>2, <2>3
<1>3. TypeOK'
  BY <1>1, <1>2, PumpTypeSame, ConnectTypeSame, ReaderTypeSame, WriterTypeSame
  DEF IInv, TypeOK
<1>4. PumpOK'
  BY <1>1, PumpFrame DEF IInv, pumpVars
<1>5. MessagesOK'
  <2>1. received' = received /\ tasks' = tasks /\ m_asgi_send_msg' = m_asgi_send_msg
    BY <1>1 DEF pumpVars, writerVars
  <2>2. TypeOK /\ MessagesOK /\ sent' \in [Channels -> Seq(Payloads)]
    BY <1>2 DEF IInv, ChannelTypeOK
  <2> QED BY <1>2, <2>1, <2>2, MessagesFrame
<1>6. \A q \in Connections : ConnectionOK(q)'
  <2>1. \A q \in Connections : SameConnection(q)
    BY <1>1 DEF SameConnection, connectVars, readerVars, writerVars, pumpVars
  <2> QED BY <2>1, ConnectionFrame DEF IInv
<1> QED BY <1>3, <1>4, <1>5, <1>6 DEF IInv, Connections

\* The pump asks and is answered: nothing a connection sees.
LEMMA PumpAsksStep ==
  ASSUME IInv, UNCHANGED <<worker, connectVars, readerVars, writerVars>>,
         Snapshot \/ ReceiveTimeout \/ \E c \in Channels : ReceiveMessage(c)
  PROVE  IInv'
<1>1. UNCHANGED <<m_callbacks, m_thread_stop, tasks, sent, expired>>
  BY DEF Snapshot, ReceiveTimeout, ReceiveMessage, Blpop, channelVars
<1>2. /\ ChannelTypeOK'
      /\ pc' \in {"top", "receive", "dispatch"}
      /\ channel_names' \subseteq Channels
      /\ \A d \in received' : \/ d \in received
                              \/ \E c \in channel_names, i \in Nat \ {0} :
                                    d = [channel |-> c, msg |-> i] /\ i <= Len(sent[c])
      /\ pc' = "receive" => channel_names' \subseteq Registered
      /\ pc' = "dispatch" => /\ pc = "receive"
                             /\ \A d \in received' : d.channel \in channel_names
  <2>1. CASE Snapshot
    BY <2>1, ChannelTypeSame DEF Snapshot, Registered, IInv, TypeOK
  <2>2. CASE ReceiveTimeout
    BY <2>2, ChannelTypeSame DEF ReceiveTimeout, BackToTop, IInv, TypeOK
  <2>3. CASE \E c \in Channels : ReceiveMessage(c)
    <3>1. PICK c \in Channels, i \in 1 .. MaxMessages :
            /\ pc = "receive" /\ c \in channel_names
            /\ Blpop(c, i)
            /\ IF i \in expired[c]
               THEN BackToTop
               ELSE /\ pc' = "dispatch"
                    /\ received' = {[channel |-> c, msg |-> i]}
                    /\ UNCHANGED channel_names
      BY <2>3 DEF ReceiveMessage
    <3>2. i \in popped[c] + 1 .. Len(sent[c]) /\ popped' = [popped EXCEPT ![c] = i]
      BY <3>1 DEF Blpop, Unread
    <3>3. popped[c] \in Nat /\ Len(sent[c]) \in Nat
      BY LenProperties DEF IInv, TypeOK, ChannelTypeOK
    <3>4. i \in Nat \ {0} /\ i <= Len(sent[c])
      BY <3>2, <3>3
    <3>5. ChannelTypeOK'
      BY <1>1, <3>2, <3>4 DEF IInv, TypeOK, ChannelTypeOK
    <3>6. channel_names \subseteq Channels
      BY DEF IInv, TypeOK, PumpTypeOK
    <3>7. CASE i \in expired[c]
      BY <3>1, <3>5, <3>7 DEF BackToTop
    <3>8. CASE i \notin expired[c]
      BY <3>1, <3>4, <3>5, <3>6, <3>8
    <3> QED BY <3>7, <3>8
  <2> QED BY <2>1, <2>2, <2>3
<1>3. ASSUME NEW d \in received'
      PROVE  /\ d \in [channel : Channels, msg : Nat \ {0}]
             /\ d.msg <= Len(sent[d.channel])
  <2>1. CASE d \in received
    BY <2>1 DEF IInv, TypeOK, PumpTypeOK, MessagesOK
  <2>2. CASE d \notin received
    <3>1. PICK c \in channel_names, i \in Nat \ {0} :
            d = [channel |-> c, msg |-> i] /\ i <= Len(sent[c])
      BY <1>2, <2>2
    <3>2. c \in Channels
      BY DEF IInv, TypeOK, PumpTypeOK
    <3> QED BY <3>1, <3>2
  <2> QED BY <2>1, <2>2
<1>4. TypeOK'
  <2>1. PumpTypeOK'
    BY <1>1, <1>2, <1>3 DEF IInv, TypeOK, PumpTypeOK
  <2> QED BY <1>2, <2>1, ConnectTypeSame, ReaderTypeSame, WriterTypeSame DEF IInv, TypeOK
<1>5. PumpOK'
  <2>1. Registered' = Registered
    BY <1>1 DEF Registered
  <2> QED BY <1>2, <2>1 DEF IInv, PumpOK
<1>6. MessagesOK'
  BY <1>1, <1>3 DEF IInv, MessagesOK, writerVars
<1>7. \A q \in Connections : ConnectionOK(q)'
  <2>1. \A q \in Connections : SameConnection(q)
    BY <1>1 DEF SameConnection, connectVars, readerVars, writerVars
  <2> QED BY <2>1, ConnectionFrame DEF IInv
<1> QED BY <1>4, <1>5, <1>6, <1>7 DEF IInv, Connections

\* The pump trades the registration of a channel for the task of its callback.
LEMMA DispatchStep ==
  ASSUME IInv, Dispatch, UNCHANGED <<worker, connectVars, readerVars, writerVars>>
  PROVE  IInv'
<1>1. PICK d \in received :
        /\ pc = "dispatch"
        /\ IF d.channel \in Registered
           THEN Erase(d.channel) /\ tasks' = tasks \cup {Task(d)}
           ELSE UNCHANGED <<m_callbacks, tasks>>
  BY DEF Dispatch
<1>2. PICK r \in Connections : r = d.channel
  BY DEF IInv, TypeOK, PumpTypeOK, Connections
<1>3. /\ d.msg \in Nat \ {0} /\ d.msg <= Len(sent[r])
      /\ r \in Registered /\ m_callbacks[r] \in Nat \ {NoCallback}
  BY <1>1, <1>2 DEF IInv, TypeOK, PumpTypeOK, MessagesOK, PumpOK, Registered
<1>4. PICK t : t = [channel |-> r, callback |-> m_callbacks[r], msg |-> d.msg]
  OBVIOUS
<1>5. /\ m_callbacks' = [m_callbacks EXCEPT ![r] = NoCallback]
      /\ tasks' = tasks \cup {t}
      /\ pc' = "top" /\ channel_names' = {} /\ received' = {}
      /\ UNCHANGED <<m_thread_stop, channelVars, worker, connectVars, readerVars, writerVars>>
  BY <1>1, <1>2, <1>3, <1>4 DEF Dispatch, BackToTop, Erase, Task
<1>6. /\ t \in [channel : Channels, callback : Nat \ {NoCallback}, msg : Nat \ {0}]
      /\ t.channel = r /\ t.msg <= Len(sent[r])
  BY <1>3, <1>4 DEF Connections
<1>7. TypeOK'
  <2>1. PumpTypeOK'
    BY <1>5, <1>6 DEF IInv, TypeOK, PumpTypeOK, NoCallback
  <2> QED BY <1>5, <2>1, ChannelTypeSame, ConnectTypeSame, ReaderTypeSame, WriterTypeSame
      DEF IInv, TypeOK
<1>8. PumpOK'
  BY <1>5 DEF PumpOK
<1>9. MessagesOK'
  BY <1>5, <1>6 DEF IInv, MessagesOK, channelVars, writerVars
<1>10. ASSUME NEW q \in Connections, q # r PROVE ConnectionOK(q)'
  <2>1. \A u : u.channel = q => (u \in tasks' <=> u \in tasks)
    BY <1>5, <1>6, <1>10
  <2>2. SameConnection(q)
    BY <1>5, <1>10, <2>1 DEF IInv, TypeOK, PumpTypeOK, Connections, SameConnection,
       connectVars, readerVars, writerVars
  <2> QED BY <1>10, <2>2, ConnectionFrame DEF IInv
<1>11. ConnectionOK(r)'
  <2>1. ConnectionOK(r) /\ m_callbacks[r] # NoCallback
    BY <1>3 DEF IInv
  <2>2. CASE upgrade[r] # "at_once"
    BY <1>5, <2>1, <2>2 DEF ConnectionOK, Fresh, NotStarted, Resting, NoLoops, connectVars
  <2>3. CASE upgrade[r] = "at_once"
    <3>1. step[r] = "SendConnect" /\ result[r] = "AsyncPending" /\ Connected(r)
      BY <2>1, <2>3 DEF ConnectionOK, Fresh, Connecting, NotStarted, Resting, NoLoops
    <3>2. Listening(r) /\ starting[r] = "none"
      BY <2>1, <3>1 DEF Connected, Resting, AboutToWrite, Writing
    <3>3. OneTask(r)'
      BY <1>5, <1>6, <3>2 DEF Listening, NoTasks, OneTask
    <3>4. m_callbacks'[r] = NoCallback
      BY <1>5 DEF IInv, TypeOK, PumpTypeOK, Connections
    <3>5. AboutToWrite(r)'
      BY <1>5, <3>2, <3>3, <3>4 DEF AboutToWrite, Listening, writerVars
    <3>6. NoSends(r)' /\ InOrder(r)' /\ \E x : OnlyLoop(r, x)'
      BY <1>5, <3>1 DEF Connected, NoSends, InOrder, OnlyLoop, connectVars, readerVars
    <3>7. Connected(r)'
      BY <1>5, <3>1, <3>2, <3>5, <3>6 DEF Connected, connectVars, readerVars
    <3> QED BY <1>5, <2>3, <3>1, <3>7 DEF ConnectionOK, connectVars
  <2> QED BY <2>2, <2>3
<1> QED BY <1>7, <1>8, <1>9, <1>10, <1>11 DEF IInv, Connections

LEMMA StutterStep ==
  ASSUME IInv, UNCHANGED vars
  PROVE  IInv'
<1>1. UNCHANGED <<channelVars, pumpVars, worker, connectVars, readerVars, writerVars>>
  BY DEF vars
<1>2. ChannelTypeOK' /\ PumpTypeOK' /\ PumpOK' /\ MessagesOK'
  BY <1>1, QuietStep DEF writerVars
<1>3. TypeOK'
  BY <1>1, <1>2, ConnectTypeSame, ReaderTypeSame, WriterTypeSame DEF IInv, TypeOK
<1>4. \A q \in Connections : SameConnection(q)
  BY <1>1 DEF SameConnection, connectVars, readerVars, writerVars, pumpVars
<1> QED BY <1>2, <1>3, <1>4, ConnectionFrame DEF IInv, Connections

-----------------------------------------------------------------------------
(* The invariant and what follows from it. *)

LEMMA InitIInv == Init => IInv
<1> SUFFICES ASSUME Init PROVE IInv
  OBVIOUS
<1>1. ChannelTypeOK
  BY DEF Init, ChannelInit, ChannelTypeOK
<1>2. PumpTypeOK /\ PumpOK
  BY DEF Init, PumpInit, PumpTypeOK, PumpOK, NoCallback
<1>3. ConnectTypeOK /\ ReaderTypeOK /\ WriterTypeOK
  BY DEF Init, ConnectTypeOK, ReaderTypeOK, WriterTypeOK
<1>4. MessagesOK
  BY DEF Init, ChannelInit, PumpInit, MessagesOK, Connections
<1>5. \A r \in Connections : ConnectionOK(r)
  BY DEF Init, PumpInit, ConnectionOK, Fresh, NotStarted, Resting, NoLoops, NoSends,
     NoTasks, Connections
<1> QED BY <1>1, <1>2, <1>3, <1>4, <1>5 DEF IInv, TypeOK

LEMMA NextIInv == IInv /\ [Next]_vars => IInv'
<1> SUFFICES ASSUME IInv, [Next]_vars PROVE IInv'
  OBVIOUS
<1>1. CASE \E r \in Connections :
             \/ OnExecuteRequestHandler(r) \/ Handler(r)
             \/ Writer(r)
             \/ \E m \in Payloads : AppSend(r, m)
             \/ ReplyExpires(r)
  BY <1>1, HandlerStep, WriterStep, OutsideStep
<1>2. CASE Scheduler
  BY <1>2, RunSendConnectStep, RunSendConnectContinuationStep, RunCallbackStep DEF Scheduler
<1>3. CASE Pump
  BY <1>3, PumpAsksStep, DispatchStep DEF Pump, PumpLoop
<1>4. CASE \E x \in readers : Reader(x)
  BY <1>4, ReaderStep
<1>5. CASE UNCHANGED vars
  BY <1>5, StutterStep
<1> QED BY <1>1, <1>2, <1>3, <1>4, <1>5 DEF Next

\* The connect pipeline, the reader, the writer and the pump keep the invariant.
THEOREM Invariance == Spec => []IInv
  BY InitIInv, NextIInv, PTL DEF Spec

\* Every variable keeps its type.
THEOREM TypeCorrect == Spec => []TypeOK
<1>1. IInv => TypeOK
  BY DEF IInv
<1> QED BY <1>1, Invariance, PTL

\* After an upgrade that completes at once the application sees websocket.connect first
\* and then the client's messages counted from 1, however many the client sends.
THEOREM PromptInOrder == Spec => []OrderCountsAfterPromptUpgrade
<1>1. IInv => OrderCountsAfterPromptUpgrade
  <2> SUFFICES ASSUME IInv, NEW r \in Connections, upgrade[r] = "at_once"
               PROVE  InOrder(r)
    BY DEF OrderCountsAfterPromptUpgrade
  <2>1. CASE to_application[r] = <<>> \/ to_application[r] = <<0>>
    BY <2>1 DEF InOrder
  <2> QED BY <2>1 DEF IInv, ConnectionOK, Fresh, Connecting, Connected
<1> QED BY <1>1, Invariance, PTL

\* After such an upgrade only one thread or call at a time uses the reader's buffer and
\* the layer's connection to Redis: the connect task, or the reader once it is started.
THEOREM PromptOneSender == Spec => []OneSenderAtATime
<1>1. IInv => OneSenderAtATime
  <2> SUFFICES ASSUME IInv, NEW r \in Connections, upgrade[r] = "at_once"
               PROVE  Cardinality(LoopsOf(r))
                        + Cardinality({t \in sends : t.connection = r /\ t.pc = "send"}) <= 1
    BY DEF OneSenderAtATime
  <2>1. PICK Sending : Sending = {t \in sends : t.connection = r /\ t.pc = "send"}
    OBVIOUS
  <2>2. Connecting(r) \/ Fresh(r) \/ Connected(r)
    BY DEF IInv, ConnectionOK
  <2>3. NoSends(r) => Sending = {}
    BY <2>1 DEF NoSends
  <2>4. OneSend(r, "post") => Sending = {}
    BY <2>1 DEF OneSend
  <2>5. OneSend(r, "send") => Sending = {[connection |-> r, pc |-> "send"]}
    <3>1. ASSUME NEW t \in Sending PROVE t = [connection |-> r, pc |-> "send"]
      BY <2>1 DEF IInv, TypeOK, ConnectTypeOK
    <3>2. OneSend(r, "send") => [connection |-> r, pc |-> "send"] \in Sending
      BY <2>1 DEF OneSend
    <3> QED BY <3>1, <3>2
  <2>6. NoLoops(r) => LoopsOf(r) = {}
    BY DEF NoLoops, LoopsOf
  <2>7. ASSUME NEW x, OnlyLoop(r, x) PROVE LoopsOf(r) = {x}
    BY <2>7 DEF OnlyLoop, LoopsOf
  <2>8. CASE Fresh(r) \/ Connecting(r)
    <3>1. LoopsOf(r) = {} /\ (Sending = {} \/ \E t : Sending = {t})
      BY <2>3, <2>4, <2>5, <2>6, <2>8 DEF Fresh, Connecting, NotStarted
    <3>2. Cardinality(LoopsOf(r)) = 0 /\ Cardinality(Sending) \in {0, 1}
      BY <3>1, FS_EmptySet, FS_Singleton
    <3>3. Cardinality(LoopsOf(r)) + Cardinality(Sending) <= 1
      BY <3>2
    <3> QED BY <2>1, <3>3
  <2>9. CASE Connected(r)
    <3>1. Sending = {} /\ \E x : LoopsOf(r) = {x}
      BY <2>3, <2>7, <2>9 DEF Connected
    <3>2. Cardinality(Sending) = 0 /\ Cardinality(LoopsOf(r)) = 1
      BY <3>1, FS_EmptySet, FS_Singleton
    <3>3. Cardinality(LoopsOf(r)) + Cardinality(Sending) <= 1
      BY <3>2
    <3> QED BY <2>1, <3>3
  <2> QED BY <2>2, <2>8, <2>9
<1> QED BY <1>1, Invariance, PTL

\* After such an upgrade a started writer is in exactly one of its three states, and it
\* has a message in hand exactly while it writes.
THEOREM PromptListensOrWrites == Spec => []ListensOrWrites
<1>1. IInv => ListensOrWrites
  <2> SUFFICES ASSUME IInv, NEW r \in Connections, upgrade[r] = "at_once"
               PROVE  /\ Cardinality({t \in tasks : t.channel = r}) + writing[r] + write_io[r]
                           + (IF r \in Registered THEN 1 ELSE 0) = IF Started(r) THEN 1 ELSE 0
                      /\ m_asgi_send_msg[r] # 0 <=> writing[r] + write_io[r] > 0
    BY DEF ListensOrWrites
  <2>1. PICK Called : Called = {t \in tasks : t.channel = r}
    OBVIOUS
  <2>2. r \in Registered <=> m_callbacks[r] # NoCallback
    BY DEF Registered, Connections
  <2>3. writing[r] \in Nat /\ write_io[r] \in Nat
    BY DEF IInv, TypeOK, WriterTypeOK
  <2>4. NoTasks(r) => Cardinality(Called) = 0
    <3>1. NoTasks(r) => Called = {}
      BY <2>1 DEF NoTasks
    <3> QED BY <3>1, FS_EmptySet
  <2>5. OneTask(r) => Cardinality(Called) = 1
    <3>1. OneTask(r) => \E t : Called = {t}
      BY <2>1 DEF OneTask
    <3> QED BY <3>1, FS_Singleton
  <2>6. CASE Resting(r) /\ ~Started(r)
    <3>1. /\ r \notin Registered /\ Cardinality(Called) = 0
          /\ writing[r] = 0 /\ write_io[r] = 0 /\ m_asgi_send_msg[r] = 0
      BY <2>2, <2>4, <2>6 DEF Resting
    <3> QED BY <2>1, <2>6, <3>1
  <2>7. CASE Started(r)
    <3>1. Connected(r)
      BY <2>7 DEF Started, IInv, ConnectionOK, Fresh, Connecting, NotStarted
    <3>2. CASE Listening(r)
      BY <2>1, <2>2, <2>4, <2>7, <3>2 DEF Listening
    <3>3. CASE AboutToWrite(r)
      BY <2>1, <2>2, <2>5, <2>7, <3>3 DEF AboutToWrite
    <3>4. CASE Writing(r)
      BY <2>1, <2>2, <2>3, <2>4, <2>7, <3>4 DEF Writing
    <3> QED BY <2>7, <3>1, <3>2, <3>3, <3>4 DEF Connected, Started
  <2>8. Resting(r) \/ Started(r)
    <3>1. NotStarted(r) \/ Connected(r)
      BY DEF IInv, ConnectionOK, Fresh, Connecting
    <3> QED BY <3>1 DEF NotStarted, Connected, Started
  <2> QED BY <2>6, <2>7, <2>8
<1> QED BY <1>1, Invariance, PTL

-----------------------------------------------------------------------------
(* The client's stream. *)

\* A second invariant, on top of the first: how far the client's stream is.  It is about
\* connections without trouble so far.
Untroubled(r) == upgrade[r] # "later" /\ ~write_failed[r] /\ ~write_partial[r]

\* The pump has taken one message from Redis, or none.
ReceivedOK ==
    /\ pc # "dispatch" => received = {}
    /\ \A d, e \in received : d = e

\* Message i of r is on its way to the client.
InFlight(r, i) ==
    \/ \E d \in received : d.channel = r /\ d.msg = i
    \/ \E t \in tasks : t.channel = r /\ t.msg = i
    \/ m_asgi_send_msg[r] # 0 /\ m_asgi_send_msg[r] = i

Ordered(r) ==
    \A j, k \in DOMAIN to_client[r] : j < k => Before(to_client[r][j], to_client[r][k])

\* The client has all that was read, but for a message on its way: the last one.
StreamOK(r) ==
    /\ m_bytes_written[r] = 0
    /\ Ordered(r)
    /\ \A i \in Nat : InFlight(r, i) =>
          /\ i = popped[r] /\ i \notin expired[r]
          /\ ToSet(to_client[r]) = BytesOf(r, i - 1)
    /\ (\A i \in Nat : ~InFlight(r, i)) => ToSet(to_client[r]) = BytesOf(r, popped[r])

SInv ==
    /\ IInv
    /\ ReceivedOK
    /\ \A r \in Connections : popped[r] <= Len(sent[r])
    /\ \A r \in Connections : Untroubled(r) => StreamOK(r)

\* The elements of BytesOf.
LEMMA BytesMember ==
  ASSUME NEW r, NEW n, NEW b
  PROVE  b \in BytesOf(r, n) <=>
            \E i \in 1 .. n : i \notin expired[r] /\ \E p \in 1 .. sent[r][i] : b = <<i, p>>
<1>1. b \in BytesOf(r, n) <=>
         \E i \in 1 .. n : i \notin expired[r] /\ b \in {i} \X (1 .. sent[r][i])
  BY DEF BytesOf
<1>2. ASSUME NEW i, NEW S
      PROVE  b \in {i} \X S <=> \E p \in S : b = <<i, p>>
  OBVIOUS
<1> QED BY <1>1, <1>2

\* What an idle step leaves of q's stream; messages beyond the last one read may come
\* and get lost.
SameStream(q) ==
    /\ Untroubled(q)' => Untroubled(q)
    /\ m_bytes_written'[q] = m_bytes_written[q] /\ to_client'[q] = to_client[q]
    /\ popped'[q] = popped[q]
    /\ \A i \in Nat : InFlight(q, i)' <=> InFlight(q, i)
    /\ \A i \in 1 .. popped[q] : sent'[q][i] = sent[q][i]
    /\ \A i \in 0 .. popped[q] : i \in expired'[q] <=> i \in expired[q]

LEMMA StreamFrame ==
  ASSUME NEW q \in Connections, popped[q] \in Nat, SameStream(q),
         Untroubled(q) => StreamOK(q), Untroubled(q)'
  PROVE  StreamOK(q)'
<1>1. StreamOK(q)
  BY DEF SameStream
<1>2. Ordered(q)'
  BY <1>1 DEF SameStream, StreamOK, Ordered
<1>3. ASSUME NEW n \in Int, n <= popped[q] PROVE BytesOf(q, n)' = BytesOf(q, n)
  <2>1. \A i \in 1 .. n : i \in 1 .. popped[q] /\ i \in 0 .. popped[q]
    BY <1>3
  <2>2. /\ \A i \in 1 .. n : sent'[q][i] = sent[q][i]
        /\ (1 .. n) \ expired'[q] = (1 .. n) \ expired[q]
    BY <2>1 DEF SameStream
  <2> QED BY <2>2 DEF BytesOf
<1>4. ASSUME NEW i \in Nat, InFlight(q, i)'
      PROVE  /\ i = popped'[q] /\ i \notin expired'[q]
             /\ ToSet(to_client'[q]) = BytesOf(q, i - 1)'
  <2>1. /\ i = popped[q] /\ i \notin expired[q]
        /\ ToSet(to_client[q]) = BytesOf(q, i - 1)
    BY <1>1, <1>4 DEF SameStream, StreamOK
  <2>2. BytesOf(q, i - 1)' = BytesOf(q, i - 1)
    BY <1>3, <2>1
  <2>3. i \notin expired'[q]
    <3>1. i \in 0 .. popped[q]
      BY <2>1
    <3> QED BY <2>1, <3>1 DEF SameStream
  <2> QED BY <2>1, <2>2, <2>3 DEF SameStream
<1>5. (\A i \in Nat : ~InFlight(q, i)') => ToSet(to_client'[q]) = BytesOf(q, popped[q])'
  BY <1>1, <1>3 DEF SameStream, StreamOK
<1> QED BY <1>1, <1>2, <1>4, <1>5 DEF SameStream, StreamOK

\* A connection without trouble whose writer is active is in one of its three states.
LEMMA ActiveIsConnected ==
  ASSUME IInv, NEW r \in Connections, Untroubled(r),
         m_callbacks[r] # NoCallback \/ ~NoTasks(r) \/ writing[r] # 0 \/ write_io[r] # 0
  PROVE  Connected(r)
<1>1. ConnectionOK(r) /\ upgrade[r] \in {"none", "at_once"}
  BY DEF IInv, TypeOK, ConnectTypeOK, Untroubled
<1>2. ~NotStarted(r)
  BY DEF NotStarted, Resting, NoLoops
<1> QED BY <1>1, <1>2 DEF ConnectionOK, Fresh, Connecting

LEMMA PoppedType ==
  ASSUME IInv PROVE \A q \in Connections : popped[q] \in Nat /\ Len(sent[q]) \in Nat
BY LenProperties DEF IInv, TypeOK, ChannelTypeOK, Connections

\* Steps that touch neither the channels nor the pump's messages nor the writer.
LEMMA StreamQuiet ==
  ASSUME SInv, NEW r \in Connections,
         UNCHANGED <<channelVars, pc, received, tasks, writerVars>>,
         UNCHANGED upgrade \/ AcceptWebSocketEnter(r)
  PROVE  /\ ReceivedOK' /\ \A q \in Connections : popped'[q] <= Len(sent'[q])
         /\ \A q \in Connections : Untroubled(q)' => StreamOK(q)'
<1>1. ReceivedOK'
  BY DEF SInv, ReceivedOK
<1>2. \A q \in Connections : popped'[q] <= Len(sent'[q])
  BY DEF SInv, channelVars
<1>3. ASSUME NEW q \in Connections, Untroubled(q)' PROVE Untroubled(q)
  <2>1. CASE UNCHANGED upgrade
    BY <1>3, <2>1 DEF Untroubled, writerVars
  <2>2. CASE AcceptWebSocketEnter(r)
    <3>1. upgrade[r] = "none"
      BY <2>2 DEF AcceptWebSocketEnter, At, SInv, IInv, ConnectionOK
    <3>2. q # r => upgrade'[q] = upgrade[q]
      BY <2>2 DEF AcceptWebSocketEnter, SInv, IInv, TypeOK, ConnectTypeOK
    <3> QED BY <1>3, <3>1, <3>2 DEF Untroubled, writerVars
  <2> QED BY <2>1, <2>2
<1>4. ASSUME NEW q \in Connections, Untroubled(q)' PROVE StreamOK(q)'
  <2>1. SameStream(q)
    BY <1>3, <1>4 DEF SameStream, InFlight, channelVars, writerVars
  <2> QED BY <1>4, <2>1, StreamFrame, PoppedType DEF SInv
<1> QED BY <1>1, <1>2, <1>4

\* A callback moves the message on its way from the task to the writer.
LEMMA StreamRunCallback ==
  ASSUME SInv, NEW t \in tasks, RunCallback(t)
  PROVE  /\ ReceivedOK' /\ \A q \in Connections : popped'[q] <= Len(sent'[q])
         /\ \A q \in Connections : Untroubled(q)' => StreamOK(q)'
<1>1. /\ t.channel \in Connections /\ t.msg \in Nat \ {0}
      /\ m_asgi_send_msg \in [Connections -> Nat]
  BY DEF SInv, IInv, TypeOK, PumpTypeOK, WriterTypeOK, Connections
<1>2. /\ UNCHANGED <<channelVars, pc, received, upgrade, m_bytes_written, to_client,
                     write_failed, write_partial>>
      /\ tasks' = tasks \ {t}
      /\ m_asgi_send_msg' = [m_asgi_send_msg EXCEPT ![t.channel] = t.msg]
  BY DEF RunCallback, TaskDone, connectVars
<1>3. ReceivedOK'
  BY <1>2 DEF SInv, ReceivedOK
<1>4. \A q \in Connections : popped'[q] <= Len(sent'[q])
  BY <1>2 DEF SInv, channelVars
<1>5. ASSUME NEW q \in Connections, Untroubled(q)' PROVE StreamOK(q)'
  <2>1. Untroubled(q)
    BY <1>2, <1>5 DEF Untroubled
  <2>2. ASSUME NEW i \in Nat PROVE InFlight(q, i)' <=> InFlight(q, i)
    <3>1. CASE q # t.channel
      <4>1. m_asgi_send_msg'[q] = m_asgi_send_msg[q]
        BY <1>1, <1>2, <3>1
      <4> QED BY <1>2, <3>1, <4>1 DEF InFlight
    <3>2. CASE q = t.channel
      <4>1. Connected(q) /\ ~NoTasks(q)
        BY <2>1, <3>2, ActiveIsConnected DEF SInv, NoTasks
      <4>2. OneTask(q) /\ m_asgi_send_msg[q] = 0
        BY <4>1 DEF Connected, Resting, Listening, AboutToWrite, Writing
      <4>3. m_asgi_send_msg'[q] = t.msg /\ m_asgi_send_msg'[q] # 0
        BY <1>1, <1>2, <3>2
      <4>4. /\ \A u \in tasks : u.channel = q => u = t
            /\ \A u \in tasks' : u.channel # q
        BY <1>2, <3>2, <4>2 DEF OneTask
      <4> QED BY <1>2, <3>2, <4>2, <4>3, <4>4 DEF InFlight
    <3> QED BY <3>1, <3>2
  <2>3. SameStream(q)
    BY <1>2, <2>1, <2>2 DEF SameStream, channelVars
  <2> QED BY <1>5, <2>3, StreamFrame, PoppedType DEF SInv
<1> QED BY <1>3, <1>4, <1>5

\* Messages come and get lost behind the last one read.
LEMMA StreamOutside ==
  ASSUME SInv, NEW r \in Connections,
         ReplyExpires(r) \/ \E m \in Payloads : AppSend(r, m)
  PROVE  /\ ReceivedOK' /\ \A q \in Connections : popped'[q] <= Len(sent'[q])
         /\ \A q \in Connections : Untroubled(q)' => StreamOK(q)'
<1>1. /\ UNCHANGED <<pumpVars, upgrade, writerVars>>
      /\ \/ \E i \in 1 .. MaxMessages : Expire(r, i)
         \/ \E m \in Payloads : Send(r, m)
  BY DEF ReplyExpires, AppSend, connectVars
<1>2. /\ popped' = popped
      /\ \A q \in Connections :
            /\ Len(sent[q]) <= Len(sent'[q])
            /\ \A i \in 1 .. popped[q] : sent'[q][i] = sent[q][i]
            /\ \A i \in 0 .. popped[q] : i \in expired'[q] <=> i \in expired[q]
  <2>1. \A q \in Connections : /\ sent[q] \in Seq(Payloads) /\ popped[q] <= Len(sent[q])
                               /\ popped[q] \in Nat /\ Len(sent[q]) \in Nat
    BY PoppedType DEF SInv, IInv, TypeOK, ChannelTypeOK, Connections
  <2>2. CASE \E i \in 1 .. MaxMessages : Expire(r, i)
    <3>1. PICK i \in 1 .. MaxMessages : Expire(r, i)
      BY <2>2
    <3>2. /\ popped' = popped /\ sent' = sent
          /\ expired' = [expired EXCEPT ![r] = @ \cup {i}]
          /\ i \in popped[r] + 1 .. Len(sent[r])
      BY <3>1 DEF Expire, Unread
    <3>3. i \notin 0 .. popped[r]
      BY <2>1, <3>2
    <3>4. expired \in [Connections -> SUBSET Nat]
      BY DEF SInv, IInv, TypeOK, ChannelTypeOK, Connections
    <3>5. ASSUME NEW q \in Connections
          PROVE  \A k \in 0 .. popped[q] : k \in expired'[q] <=> k \in expired[q]
      BY <3>2, <3>3, <3>4
    <3> QED BY <2>1, <3>2, <3>5
  <2>3. CASE \E m \in Payloads : Send(r, m)
    <3>1. PICK m \in Payloads : Send(r, m)
      BY <2>3
    <3>2. /\ popped' = popped /\ expired' = expired
          /\ sent' = [sent EXCEPT ![r] = Append(sent[r], m)]
      BY <3>1 DEF Send
    <3>3. /\ Len(Append(sent[r], m)) = Len(sent[r]) + 1
          /\ \A i \in 1 .. Len(sent[r]) : Append(sent[r], m)[i] = sent[r][i]
      BY <2>1, AppendProperties
    <3>4. \A i \in 1 .. popped[r] : Append(sent[r], m)[i] = sent[r][i]
      BY <2>1, <3>3
    <3>5. /\ sent'[r] = Append(sent[r], m)
          /\ \A q \in Connections : q # r => sent'[q] = sent[q]
      BY <3>2 DEF SInv, IInv, TypeOK, ChannelTypeOK, Connections
    <3> QED BY <2>1, <3>2, <3>3, <3>4, <3>5
  <2> QED BY <1>1, <2>2, <2>3
<1>3. \A q \in Connections : popped'[q] <= Len(sent'[q])
  <2>1. ChannelTypeOK'
    <3>1. IInv'
      BY OutsideStep DEF SInv
    <3> QED BY <3>1 DEF IInv, TypeOK
  <2>2. \A q \in Connections : Len(sent'[q]) \in Nat
    BY <2>1, LenProperties DEF ChannelTypeOK, Connections
  <2> QED BY <1>2, <2>2, PoppedType DEF SInv
<1>4. ReceivedOK'
  BY <1>1 DEF SInv, ReceivedOK, pumpVars
<1>5. ASSUME NEW q \in Connections, Untroubled(q)' PROVE StreamOK(q)'
  <2>1. SameStream(q)
    BY <1>1, <1>2, <1>5 DEF SameStream, Untroubled, InFlight, pumpVars, writerVars
  <2> QED BY <1>5, <2>1, StreamFrame, PoppedType DEF SInv
<1> QED BY <1>3, <1>4, <1>5

\* The pump takes a message off the channel only when nothing is on its way.
LEMMA StreamPumpAsks ==
  ASSUME SInv, UNCHANGED <<worker, connectVars, readerVars, writerVars>>,
         Snapshot \/ ReceiveTimeout \/ \E c \in Channels : ReceiveMessage(c)
  PROVE  /\ ReceivedOK' /\ \A q \in Connections : popped'[q] <= Len(sent'[q])
         /\ \A q \in Connections : Untroubled(q)' => StreamOK(q)'
<1>1. UNCHANGED <<m_callbacks, tasks, sent, expired>> /\ received = {}
  BY DEF Snapshot, ReceiveTimeout, ReceiveMessage, Blpop, channelVars, SInv, ReceivedOK
<1>2. \A q \in Connections : Untroubled(q)' <=> Untroubled(q)
  BY DEF Untroubled, connectVars, writerVars
<1>3. ASSUME NEW q \in Connections, popped'[q] = popped[q], Untroubled(q)',
             \A d \in received' : d.channel # q
      PROVE  StreamOK(q)'
  <2>1. SameStream(q)
    BY <1>1, <1>2, <1>3 DEF SameStream, InFlight, writerVars
  <2> QED BY <1>3, <2>1, StreamFrame, PoppedType DEF SInv
<1>4. CASE Snapshot \/ ReceiveTimeout
  <2>1. popped' = popped /\ received' = {}
    BY <1>1, <1>4 DEF Snapshot, ReceiveTimeout, BackToTop, channelVars
  <2> QED BY <1>1, <1>3, <2>1 DEF ReceivedOK, SInv
<1>5. ASSUME NEW c \in Channels, ReceiveMessage(c)
      PROVE  /\ ReceivedOK' /\ \A q \in Connections : popped'[q] <= Len(sent'[q])
             /\ \A q \in Connections : Untroubled(q)' => StreamOK(q)'
  <2>1. PICK i \in 1 .. MaxMessages :
          /\ pc = "receive" /\ c \in channel_names
          /\ Blpop(c, i)
          /\ IF i \in expired[c]
             THEN BackToTop
             ELSE /\ pc' = "dispatch"
                  /\ received' = {[channel |-> c, msg |-> i]}
                  /\ UNCHANGED channel_names
    BY <1>5 DEF ReceiveMessage
  <2>2. /\ i \in popped[c] + 1 .. Len(sent[c])
        /\ popped[c] + 1 .. i - 1 \subseteq expired[c]
        /\ popped' = [popped EXCEPT ![c] = i]
    BY <2>1 DEF Blpop, Unread
  <2>3. popped[c] \in Nat /\ Len(sent[c]) \in Nat /\ c \in Connections
    BY PoppedType DEF SInv, Connections
  <2>4. /\ i \in Nat /\ popped[c] < i /\ i <= Len(sent[c])
        /\ popped'[c] = i /\ \A q \in Connections : q # c => popped'[q] = popped[q]
    BY <2>2, <2>3 DEF SInv, IInv, TypeOK, ChannelTypeOK, Connections
  <2>5. \A q \in Connections : popped'[q] <= Len(sent'[q])
    BY <1>1, <2>4 DEF SInv
  <2>6. ReceivedOK'
    BY <2>1 DEF ReceivedOK, BackToTop
  <2>7. ASSUME NEW q \in Connections, q # c, Untroubled(q)' PROVE StreamOK(q)'
    <3>1. \A d \in received' : d.channel # q
      BY <2>1, <2>7 DEF BackToTop
    <3> QED BY <1>3, <2>4, <2>7, <3>1
  <2>8. ASSUME Untroubled(c)' PROVE StreamOK(c)'
    <3>1. Untroubled(c) /\ StreamOK(c)
      BY <1>2, <2>3, <2>8 DEF SInv
    <3>2. m_callbacks[c] # NoCallback
      BY <2>1 DEF SInv, IInv, PumpOK, Registered
    <3>3. Connected(c)
      BY <2>3, <3>1, <3>2, ActiveIsConnected DEF SInv
    <3>4. NoTasks(c) /\ m_asgi_send_msg[c] = 0
      BY <3>2, <3>3 DEF Connected, Resting, Listening, AboutToWrite, Writing
    <3>5. ToSet(to_client[c]) = BytesOf(c, popped[c])
      BY <1>1, <3>1, <3>4 DEF StreamOK, InFlight, NoTasks
    <3>6. BytesOf(c, i - 1) = BytesOf(c, popped[c])
      <4>1. \A k : k \in (1 .. i - 1) \ expired[c] <=> k \in (1 .. popped[c]) \ expired[c]
        <5>1. ASSUME NEW k \in (1 .. i - 1) \ expired[c] PROVE k \in 1 .. popped[c]
          <6>1. k \notin popped[c] + 1 .. i - 1
            BY <2>2
          <6> QED BY <2>3, <2>4, <6>1
        <5>2. ASSUME NEW k \in 1 .. popped[c] PROVE k \in 1 .. i - 1
          BY <2>3, <2>4
        <5> QED BY <5>1, <5>2
      <4>2. (1 .. i - 1) \ expired[c] = (1 .. popped[c]) \ expired[c]
        BY <4>1
      <4> QED BY <4>2 DEF BytesOf
    <3>7. /\ \A n : BytesOf(c, n)' = BytesOf(c, n)
          /\ m_bytes_written' = m_bytes_written /\ to_client' = to_client
          /\ m_asgi_send_msg' = m_asgi_send_msg /\ expired' = expired
      BY <1>1 DEF BytesOf, writerVars
    <3>8. Ordered(c)'
      BY <3>1, <3>7 DEF StreamOK, Ordered
    <3>9. CASE i \in expired[c]
      <4>1. \A k : ~InFlight(c, k)'
        BY <1>1, <2>1, <3>4, <3>7, <3>9 DEF BackToTop, InFlight, NoTasks
      <4>2. BytesOf(c, i) = BytesOf(c, i - 1)
        <5>1. \A k \in 1 .. i : k \notin expired[c] => k \in 1 .. i - 1
          BY <2>4, <3>9
        <5>2. (1 .. i) \ expired[c] = (1 .. i - 1) \ expired[c]
          BY <2>4, <5>1
        <5> QED BY <5>2 DEF BytesOf
      <4> QED BY <2>4, <3>1, <3>5, <3>6, <3>7, <3>8, <4>1, <4>2 DEF StreamOK
    <3>10. CASE i \notin expired[c]
      <4>1. received' = {[channel |-> c, msg |-> i]}
        BY <2>1, <3>10
      <4>2. \A k : InFlight(c, k)' <=> k = i
        BY <1>1, <3>4, <3>7, <4>1 DEF InFlight, NoTasks
      <4> QED BY <2>4, <3>1, <3>5, <3>6, <3>7, <3>8, <3>10, <4>2 DEF StreamOK
    <3> QED BY <3>9, <3>10
  <2> QED BY <2>5, <2>6, <2>7, <2>8
<1> QED BY <1>4, <1>5

\* The pump moves the message on its way to a task.
LEMMA StreamDispatch ==
  ASSUME SInv, Dispatch, UNCHANGED <<worker, connectVars, readerVars, writerVars>>
  PROVE  /\ ReceivedOK' /\ \A q \in Connections : popped'[q] <= Len(sent'[q])
         /\ \A q \in Connections : Untroubled(q)' => StreamOK(q)'
<1>1. PICK d \in received :
        /\ pc = "dispatch"
        /\ IF d.channel \in Registered
           THEN Erase(d.channel) /\ tasks' = tasks \cup {Task(d)}
           ELSE UNCHANGED <<m_callbacks, tasks>>
  BY DEF Dispatch
<1>2. /\ received = {d} /\ d.channel \in Registered
      /\ received' = {} /\ UNCHANGED channelVars
      /\ tasks' = tasks \cup {Task(d)}
  BY <1>1 DEF Dispatch, BackToTop, SInv, ReceivedOK, IInv, PumpOK
<1>3. PICK t : t = Task(d)
  OBVIOUS
<1>4. t.channel = d.channel /\ t.msg = d.msg /\ tasks' = tasks \cup {t}
  BY <1>2, <1>3 DEF Task
<1>5. ASSUME NEW q \in Connections, Untroubled(q)' PROVE StreamOK(q)'
  <2>1. \A i : InFlight(q, i)' <=> InFlight(q, i)
    BY <1>2, <1>4 DEF InFlight, writerVars
  <2>2. SameStream(q)
    BY <1>2, <1>5, <2>1 DEF SameStream, Untroubled, connectVars, writerVars, channelVars
  <2> QED BY <1>5, <2>2, StreamFrame, PoppedType DEF SInv
<1> QED BY <1>2, <1>5 DEF SInv, ReceivedOK, channelVars

\* The whole message in hand is written behind all before it.
LEMMA StreamWritten ==
  ASSUME SInv, NEW r \in Connections, Untroubled(r), StreamOK(r), Writing(r),
         NEW k \in WriteCounts(r), NEW more \in {0, 1},
         Written(r, k), WriteAsyncComplete(r, k, more), ~write_partial'[r],
         UNCHANGED <<channelVars, tasks, received>>
  PROVE  StreamOK(r)'
<1> DEFINE i == m_asgi_send_msg[r]
<1>1. /\ i \in Nat \ {0} /\ i = popped[r] /\ i \notin expired[r]
      /\ ToSet(to_client[r]) = BytesOf(r, i - 1)
      /\ m_bytes_written[r] = 0 /\ Ordered(r)
  BY DEF SInv, IInv, TypeOK, WriterTypeOK, Writing, StreamOK, InFlight
<1>2. Size(r) \in Nat /\ ToWrite(r) = Size(r)
  BY <1>1, SizeInHand DEF SInv
<1>3. k = Size(r)
  <2>1. ~(k < ToWrite(r))
    BY DEF Written, SInv, IInv, TypeOK, WriterTypeOK
  <2> QED BY <1>2, <2>1 DEF WriteCounts
<1>4. PICK fragment : fragment = [p \in 1 .. k |-> <<i, p>>]
  OBVIOUS
<1>5. to_client' = [to_client EXCEPT ![r] = to_client[r] \o fragment]
  BY <1>4 DEF Written
<1>6. /\ m_asgi_send_msg' = [m_asgi_send_msg EXCEPT ![r] = 0]
      /\ m_bytes_written' = [m_bytes_written EXCEPT ![r] = 0]
  BY <1>1, <1>2, <1>3 DEF WriteAsyncComplete
<1>7. m_asgi_send_msg'[r] = 0 /\ m_bytes_written'[r] = 0
      /\ to_client'[r] = to_client[r] \o fragment
  BY <1>5, <1>6 DEF SInv, IInv, TypeOK, WriterTypeOK
<1>8. PICK S : S = (Nat \ {0}) \X (Nat \ {0})
  OBVIOUS
<1>9. to_client[r] \in Seq(S) /\ fragment \in Seq(S) /\ Len(fragment) = Size(r)
  <2>1. fragment \in [1 .. Size(r) -> S]
    BY <1>1, <1>2, <1>3, <1>4, <1>8
  <2>2. fragment \in Seq(S)
    BY <1>2, <2>1, SeqDef
  <2>3. Len(fragment) = Size(r)
    <3>1. DOMAIN fragment = 1 .. Size(r) /\ DOMAIN fragment = 1 .. Len(fragment)
          /\ Len(fragment) \in Nat
      BY <2>1, <2>2, LenProperties
    <3> QED BY <1>2, <3>1
  <2>4. to_client[r] \in Seq(S)
    BY <1>8 DEF SInv, IInv, TypeOK, WriterTypeOK
  <2> QED BY <2>2, <2>3, <2>4
<1>10. ToSet(fragment) = {<<i, p>> : p \in 1 .. Size(r)}
  BY <1>3, <1>4 DEF ToSet
<1>11. ToSet(to_client'[r]) = ToSet(to_client[r]) \cup ToSet(fragment)
  BY <1>7, <1>9, ElementsOfConcat
<1>12. BytesOf(r, i) = BytesOf(r, i - 1) \cup ({i} \X (1 .. sent[r][i]))
  <2>1. (1 .. i) \ expired[r] = ((1 .. i - 1) \ expired[r]) \cup {i}
    BY <1>1
  <2> QED BY <2>1 DEF BytesOf
<1>13. {<<i, p>> : p \in 1 .. Size(r)} = {i} \X (1 .. sent[r][i])
  BY DEF Size
<1>14. ToSet(to_client'[r]) = BytesOf(r, popped[r])'
  <2>1. BytesOf(r, popped[r])' = BytesOf(r, popped[r])
    BY DEF BytesOf, channelVars
  <2> QED BY <1>1, <1>10, <1>11, <1>12, <1>13, <2>1
<1>15. Ordered(r)'
  <2>1. /\ DOMAIN to_client'[r] = 1 .. Len(to_client[r]) + Size(r)
        /\ DOMAIN to_client[r] = 1 .. Len(to_client[r])
        /\ Len(to_client[r]) \in Nat
        /\ \A j \in 1 .. Len(to_client[r]) + Size(r) :
              to_client'[r][j] = IF j <= Len(to_client[r])
                                 THEN to_client[r][j] ELSE fragment[j - Len(to_client[r])]
    BY <1>7, <1>9, ConcatProperties, LenProperties
  <2>2. \A j \in 1 .. Len(to_client[r]) : to_client'[r][j] = to_client[r][j]
    BY <1>2, <2>1
  <2>3. \A j \in 1 .. Len(to_client[r]) + Size(r) : j > Len(to_client[r]) =>
           to_client'[r][j] = <<i, j - Len(to_client[r])>>
    <3>1. \A p \in 1 .. Size(r) : fragment[p] = <<i, p>>
      BY <1>3, <1>4
    <3>2. ASSUME NEW j \in 1 .. Len(to_client[r]) + Size(r), j > Len(to_client[r])
          PROVE  to_client'[r][j] = <<i, j - Len(to_client[r])>>
      <4>1. j - Len(to_client[r]) \in 1 .. Size(r) /\ ~(j <= Len(to_client[r]))
        BY <1>2, <2>1, <3>2
      <4>2. to_client'[r][j] = fragment[j - Len(to_client[r])]
        BY <2>1, <4>1
      <4> QED BY <3>1, <4>1, <4>2
    <3> QED BY <3>2
  <2>4. ASSUME NEW j \in 1 .. Len(to_client[r])
        PROVE  to_client[r][j][1] \in Int /\ to_client[r][j][1] < i
    <3>1. to_client[r][j] \in BytesOf(r, i - 1)
      BY <1>1, <2>1 DEF ToSet
    <3>2. PICK n \in 1 .. i - 1 : \E p : to_client[r][j] = <<n, p>>
      BY <3>1, BytesMember
    <3> QED BY <1>1, <3>2
  <2>5. ASSUME NEW j \in DOMAIN to_client'[r], NEW l \in DOMAIN to_client'[r], j < l
        PROVE  Before(to_client'[r][j], to_client'[r][l])
    <3>1. j \in 1 .. Len(to_client[r]) + Size(r) /\ l \in 1 .. Len(to_client[r]) + Size(r)
      BY <2>1, <2>5
    <3>2. CASE l <= Len(to_client[r])
      <4>1. j \in 1 .. Len(to_client[r]) /\ l \in 1 .. Len(to_client[r])
        BY <2>1, <2>5, <3>1, <3>2
      <4> QED BY <1>1, <2>1, <2>2, <2>5, <4>1 DEF Ordered
    <3>3. CASE j <= Len(to_client[r]) /\ ~(l <= Len(to_client[r]))
      <4>1. j \in 1 .. Len(to_client[r]) /\ l > Len(to_client[r])
        BY <2>1, <3>1, <3>3
      <4>2. /\ to_client'[r][j] = to_client[r][j]
            /\ to_client'[r][l] = <<i, l - Len(to_client[r])>>
        BY <2>2, <2>3, <3>1, <4>1
      <4>3. <<i, l - Len(to_client[r])>>[1] = i
        OBVIOUS
      <4> QED BY <2>4, <4>1, <4>2, <4>3 DEF Before
    <3>4. CASE ~(j <= Len(to_client[r]))
      <4>1. j > Len(to_client[r]) /\ l > Len(to_client[r])
        BY <1>2, <2>1, <2>5, <3>1, <3>4
      <4>2. /\ to_client'[r][j] = <<i, j - Len(to_client[r])>>
            /\ to_client'[r][l] = <<i, l - Len(to_client[r])>>
        BY <2>3, <3>1, <4>1
      <4>3. j - Len(to_client[r]) < l - Len(to_client[r])
        BY <1>2, <2>1, <2>5, <3>1
      <4> QED BY <4>2, <4>3 DEF Before
    <3> QED BY <1>2, <2>1, <3>1, <3>2, <3>3, <3>4
  <2> QED BY <2>5 DEF Ordered
<1>16. \A n \in Nat : ~InFlight(r, n)'
  <2>1. \A d \in received : d.channel # r
    <3>1. ASSUME NEW d \in received, d.channel = r PROVE FALSE
      <4>1. pc = "dispatch"
        BY DEF SInv, ReceivedOK
      <4>2. r \in Registered
        BY <3>1, <4>1 DEF SInv, IInv, PumpOK
      <4> QED BY <4>2 DEF Registered, Writing
    <3> QED BY <3>1
  <2> QED BY <1>7, <2>1 DEF InFlight, Writing, NoTasks
<1> QED BY <1>7, <1>14, <1>15, <1>16 DEF StreamOK

\* The writer's own steps: a call goes out, or the whole message is written, or the
\* connection is not one without trouble any more.
LEMMA StreamWriter ==
  ASSUME SInv, NEW r \in Connections, Writer(r)
  PROVE  /\ ReceivedOK' /\ \A q \in Connections : popped'[q] <= Len(sent'[q])
         /\ \A q \in Connections : Untroubled(q)' => StreamOK(q)'
<1>1. WriterMoves(r)
  BY WriterMovesOn DEF SInv
<1>2. UNCHANGED <<channelVars, pc, received, tasks, upgrade>>
  BY <1>1 DEF WriterMoves, connectVars
<1>3. /\ to_client \in [Connections -> Seq((Nat \ {0}) \X (Nat \ {0}))]
      /\ write_partial \in [Connections -> BOOLEAN]
      /\ write_failed \in [Connections -> BOOLEAN]
      /\ m_bytes_written \in [Connections -> Nat]
  BY DEF SInv, IInv, TypeOK, WriterTypeOK
<1>4. /\ ReceivedOK' /\ \A q \in Connections : popped'[q] <= Len(sent'[q])
  BY <1>2 DEF SInv, ReceivedOK, channelVars
<1>5. \/ UNCHANGED <<m_asgi_send_msg, m_bytes_written, to_client, write_failed, write_partial>>
      \/ /\ m_asgi_send_msg[r] # 0
         /\ \E k \in WriteCounts(r), more \in {0, 1} :
               Written(r, k) /\ WriteAsyncComplete(r, k, more)
         /\ UNCHANGED write_failed
      \/ /\ \E k \in Int, more \in {0, 1} : WriteAsyncComplete(r, k, more)
         /\ write_failed' = [write_failed EXCEPT ![r] = TRUE]
         /\ UNCHANGED <<to_client, write_partial>>
  <2>1. CASE NullMessage(r)
    BY <2>1 DEF NullMessage
  <2>2. CASE WriteAsync(r) /\ ~NullMessage(r)
    <3>1. m_asgi_send_msg[r] # 0 /\ ToWrite(r) \in Int
      BY <2>2, WriteCountsInt DEF WriteAsync, SInv
    <3> QED BY <2>2, <3>1 DEF WriteAsync
  <2>3. CASE WriteCallback(r) /\ ~NullMessage(r)
    <3>1. m_asgi_send_msg[r] # 0 /\ 0 \in Int
      BY <2>3 DEF WriteCallback
    <3> QED BY <2>3, <3>1 DEF WriteCallback
  <2> QED BY <2>1, <2>2, <2>3 DEF Writer
<1>6. ASSUME NEW q \in Connections, Untroubled(q)' PROVE StreamOK(q)'
  <2>1. CASE UNCHANGED <<m_asgi_send_msg, m_bytes_written, to_client, write_failed,
                         write_partial>>
    <3>1. SameStream(q)
      BY <1>2, <1>6, <2>1 DEF SameStream, Untroubled, InFlight, channelVars
    <3> QED BY <1>6, <3>1, StreamFrame, PoppedType DEF SInv
  <2>2. CASE /\ m_asgi_send_msg[r] # 0
             /\ \E k \in WriteCounts(r), more \in {0, 1} :
                   Written(r, k) /\ WriteAsyncComplete(r, k, more)
             /\ UNCHANGED write_failed
    <3>1. PICK k \in WriteCounts(r), more \in {0, 1} :
             Written(r, k) /\ WriteAsyncComplete(r, k, more)
      BY <2>2
    <3>2. CASE q = r
      <4>1. Untroubled(r) /\ ~write_partial'[r]
        BY <1>2, <1>3, <1>6, <2>2, <3>1, <3>2 DEF Untroubled, Written
      <4>2. writing[r] \in Nat /\ write_io[r] \in Nat /\ writing[r] + write_io[r] > 0
        BY <1>1 DEF WriterMoves, SInv, IInv, TypeOK, WriterTypeOK
      <4>3. Connected(r)
        BY <4>1, <4>2, ActiveIsConnected DEF SInv
      <4>4. Writing(r)
        BY <4>2, <4>3 DEF Connected, Resting, Listening, AboutToWrite
      <4> QED BY <1>2, <3>1, <3>2, <4>1, <4>4, StreamWritten DEF SInv
    <3>3. CASE q # r
      <4>1. /\ to_client'[q] = to_client[q] /\ write_partial'[q] = write_partial[q]
            /\ m_asgi_send_msg'[q] = m_asgi_send_msg[q]
        BY <1>1, <1>3, <3>1, <3>3 DEF Written, WriterMoves
      <4>2. m_bytes_written'[q] = m_bytes_written[q]
        BY <1>3, <3>1, <3>3 DEF WriteAsyncComplete
      <4>3. SameStream(q)
        BY <1>2, <1>6, <2>2, <4>1, <4>2 DEF SameStream, Untroubled, InFlight, channelVars
      <4> QED BY <1>6, <4>3, StreamFrame, PoppedType DEF SInv
    <3> QED BY <3>2, <3>3
  <2>3. CASE /\ \E k \in Int, more \in {0, 1} : WriteAsyncComplete(r, k, more)
             /\ write_failed' = [write_failed EXCEPT ![r] = TRUE]
             /\ UNCHANGED <<to_client, write_partial>>
    <3>1. q # r
      BY <1>3, <1>6, <2>3 DEF Untroubled
    <3>2. m_asgi_send_msg'[q] = m_asgi_send_msg[q] /\ write_failed'[q] = write_failed[q]
      BY <1>1, <1>3, <2>3, <3>1 DEF WriterMoves
    <3>3. m_bytes_written'[q] = m_bytes_written[q]
      BY <1>3, <2>3, <3>1 DEF WriteAsyncComplete
    <3>4. SameStream(q)
      BY <1>2, <1>6, <2>3, <3>2, <3>3 DEF SameStream, Untroubled, InFlight, channelVars
    <3> QED BY <1>6, <3>4, StreamFrame, PoppedType DEF SInv
  <2> QED BY <1>5, <2>1, <2>2, <2>3
<1> QED BY <1>4, <1>6

LEMMA InitSInv == Init => SInv
<1> SUFFICES ASSUME Init PROVE SInv
  OBVIOUS
<1>1. IInv /\ ReceivedOK
  BY InitIInv DEF Init, PumpInit, ReceivedOK
<1>2. \A r \in Connections : popped[r] <= Len(sent[r])
  <2>1. Len(<< >>) = 0 /\ 0 <= 0
    BY ElementsOfEmpty
  <2>2. \A r \in Connections : popped[r] = 0 /\ sent[r] = << >>
    BY DEF Init, ChannelInit, Connections
  <2> QED BY <2>1, <2>2
<1>3. ASSUME NEW r \in Connections PROVE StreamOK(r)
  <2>1. to_client[r] = << >> /\ m_bytes_written[r] = 0 /\ popped[r] = 0
    BY DEF Init, ChannelInit, Connections
  <2>2. \A i : ~InFlight(r, i)
    BY DEF Init, PumpInit, InFlight
  <2>3. ToSet(to_client[r]) = {} /\ DOMAIN to_client[r] = {}
    BY <2>1, ElementsOfEmpty DEF ToSet
  <2>4. BytesOf(r, popped[r]) = {}
    BY <2>1 DEF BytesOf
  <2> QED BY <2>1, <2>2, <2>3, <2>4 DEF StreamOK, Ordered
<1> QED BY <1>1, <1>2, <1>3 DEF SInv

LEMMA NextSInv == SInv /\ [Next]_vars => SInv'
<1> SUFFICES ASSUME SInv, [Next]_vars PROVE SInv'
  OBVIOUS
<1>1. IInv'
  BY NextIInv DEF SInv
<1>2. /\ ReceivedOK' /\ \A q \in Connections : popped'[q] <= Len(sent'[q])
      /\ \A q \in Connections : Untroubled(q)' => StreamOK(q)'
  <2>1. ASSUME NEW r \in Connections, OnExecuteRequestHandler(r) \/ Handler(r)
        PROVE  /\ UNCHANGED <<channelVars, pc, received, tasks, writerVars>>
               /\ UNCHANGED upgrade \/ AcceptWebSocketEnter(r)
    BY <2>1 DEF OnExecuteRequestHandler, Handler, AcceptWebSocketEnter,
       AcceptWebSocketGetNextStep, SendConnectEnter, OnAsyncCompletion, StartWriter,
       RegisterChannelsCallback, AddChannel, CleanupStoredContext, pumpVars
  <2>2. CASE \E r \in Connections : OnExecuteRequestHandler(r) \/ Handler(r)
    BY <2>1, <2>2, StreamQuiet
  <2>3. CASE \E r \in Connections : Writer(r)
    BY <2>3, StreamWriter
  <2>4. CASE \E r \in Connections : ReplyExpires(r) \/ \E m \in Payloads : AppSend(r, m)
    BY <2>4, StreamOutside
  <2>5. CASE \E t \in tasks : RunCallback(t)
    BY <2>5, StreamRunCallback
  <2>6. CASE \/ \E t \in sends : RunSendConnect(t)
             \/ \E t \in sends : RunSendConnectContinuation(t)
             \/ \E x \in readers : Reader(x)
             \/ UNCHANGED vars
    <3>1. UNCHANGED <<channelVars, pc, received, tasks, writerVars, upgrade>>
      BY <2>6 DEF RunSendConnect, RunSendConnectContinuation, Reader, ReadAsync,
         ReadCallback, ReaderSend, CountMessage, vars, connectVars, pumpVars
    <3>2. ASSUME NEW r \in Connections
          PROVE  /\ ReceivedOK' /\ \A q \in Connections : popped'[q] <= Len(sent'[q])
                 /\ \A q \in Connections : Untroubled(q)' => StreamOK(q)'
      BY <3>1, StreamQuiet
    <3>3. ReceivedOK'
      BY <3>1 DEF SInv, ReceivedOK
    <3> QED BY <3>2, <3>3
  <2>7. CASE Pump
    BY <2>7, StreamPumpAsks, StreamDispatch DEF Pump, PumpLoop
  <2> QED BY <2>2, <2>3, <2>4, <2>5, <2>6, <2>7 DEF Next, Scheduler
<1> QED BY <1>1, <1>2 DEF SInv

\* The stream keeps pace with what the pump takes from Redis.
THEOREM StreamInvariance == Spec => []SInv
  BY InitSInv, NextSInv, PTL DEF Spec

\* As long as nothing goes wrong the client gets every byte of every message once, in
\* order and without a gap, and all of them before the writer listens again, for messages
\* of any number and size.
THEOREM WholeMessages == Spec => []WholeMessagesWithoutTrouble
<1>1. SInv => WholeMessagesWithoutTrouble
  <2> SUFFICES ASSUME SInv, NEW r \in Connections,
                      upgrade[r] = "at_once" /\ ~write_failed[r] /\ ~write_partial[r]
               PROVE  Whole(r)
    BY DEF WholeMessagesWithoutTrouble
  <2>1. Untroubled(r) /\ StreamOK(r) /\ popped[r] \in Nat
    BY PoppedType DEF SInv, Untroubled
  <2>2. CASE \A i \in Nat : ~InFlight(r, i)
    <3>1. ToSet(to_client[r]) = BytesOf(r, popped[r])
      BY <2>1, <2>2 DEF StreamOK
    <3> QED BY <2>1, <3>1 DEF Whole, StreamOK, Ordered
  <2>3. CASE \E i \in Nat : InFlight(r, i)
    <3>1. PICK i \in Nat : InFlight(r, i)
      BY <2>3
    <3>2. i = popped[r] /\ ToSet(to_client[r]) = BytesOf(r, i - 1)
      BY <2>1, <3>1 DEF StreamOK
    <3>3. ToSet(to_client[r]) \subseteq BytesOf(r, popped[r])
      <4>1. (1 .. i - 1) \ expired[r] \subseteq (1 .. i) \ expired[r]
        OBVIOUS
      <4> QED BY <3>2, <4>1 DEF BytesOf
    <3>4. ASSUME NEW b \in ToSet(to_client[r]), NEW a \in BytesOf(r, popped[r]), Before(a, b)
          PROVE  a \in ToSet(to_client[r])
      <4>1. PICK n \in 1 .. i - 1 : \E p : b = <<n, p>>
        BY <3>2, BytesMember
      <4>2. PICK m \in 1 .. i :
              m \notin expired[r] /\ \E o \in 1 .. sent[r][m] : a = <<m, o>>
        BY <3>2, BytesMember
      <4>3. a[1] = m /\ b[1] = n
        BY <4>1, <4>2
      <4>4. m \in 1 .. i - 1
        BY <3>4, <4>3 DEF Before
      <4> QED BY <3>2, <4>2, <4>4, BytesMember
    <3>5. ~Idle(r)
      <4>1. SUFFICES ASSUME Idle(r) PROVE FALSE
        OBVIOUS
      <4>2. m_callbacks[r] # NoCallback /\ \A d \in received : d.channel # r
        BY <4>1 DEF Idle, Registered
      <4>3. Connected(r)
        BY <2>1, <4>2, ActiveIsConnected DEF SInv
      <4>4. NoTasks(r) /\ m_asgi_send_msg[r] = 0
        BY <4>2, <4>3 DEF Connected, Resting, Listening, AboutToWrite, Writing
      <4> QED BY <3>1, <4>2, <4>4 DEF InFlight, NoTasks
    <3> QED BY <2>1, <3>3, <3>4, <3>5 DEF Whole, StreamOK, Ordered
  <2> QED BY <2>2, <2>3
<1> QED BY <1>1, StreamInvariance, PTL

-----------------------------------------------------------------------------
(* However the upgrade completes. *)

ConnectSent(r) == \E i \in DOMAIN to_application[r] : to_application[r][i] = 0

\* Until the connect message is on its way, reader and writer are started by the
\* completion of the upgrade at most, and the pipeline goes on only once they are.
BeforeConnect(r) ==
    /\ NoSends(r) /\ completions[r] = 0 /\ ~ConnectSent(r)
    /\ ~(step[r] = "SendConnect" /\ result[r] = "AsyncPending")
    /\ io[r] => step[r] = "AcceptWebSocket" /\ result[r] = "AsyncPending"
    /\ \/ starts[r] = 0 /\ starting[r] = "none"
       \/ /\ starts[r] = 1 /\ ~io[r]
          /\ \/ step[r] = "AcceptWebSocket" /\ result[r] = "AsyncPending"
             \/ step[r] = "AcceptWebSocket" /\ result[r] = "GotoNext" /\ starting[r] = "none"
             \/ step[r] = "SendConnect" /\ result[r] = "Rerun" /\ starting[r] = "none"

\* Then its own completion starts them once more, and no other one comes.
ConnectOnItsWay(r) ==
    /\ step[r] = "SendConnect" /\ result[r] = "AsyncPending" /\ ~io[r]
    /\ \/ OneSend(r, "send") /\ completions[r] = 0 /\ starts[r] <= 1 /\ ~ConnectSent(r)
       \/ OneSend(r, "post") /\ completions[r] = 0 /\ starts[r] <= 1
       \/ NoSends(r) /\ completions[r] = 1 /\ starts[r] <= 1
       \/ NoSends(r) /\ completions[r] = 0 /\ starts[r] <= 2

\* Each start of the reader has one loop, for good, and no loop sends the number 0,
\* whatever they overwrite of each other's count.
LoopsOK(r) ==
    /\ \A x \in readers : x.connection = r => x.start \in 1 .. starts[r]
    /\ \A x, y \in readers :
          x.connection = r /\ y.connection = r /\ x.start = y.start => x = y
    /\ \A x \in readers : x.connection = r /\ x.pc = "send" => x.order > 0
    /\ order[r] > 0

\* Number 0 was sent once at most.
ConnectOnce(r) ==
    \A i, j \in DOMAIN to_application[r] :
        to_application[r][i] = 0 /\ to_application[r][j] = 0 => i = j

StartsOK(r) ==
    /\ BeforeConnect(r) \/ ConnectOnItsWay(r)
    /\ LoopsOK(r)
    /\ ConnectOnce(r)

\* What is left after an upgrade that completes later: two starts and two loops of the
\* reader at most, one of each until the connect message has been sent and its completion
\* posted, and one connect message.  The numbers of the others may repeat and go back.
AtMostTwice ==
    \A r \in Connections :
        LET s == to_application[r] IN
        /\ starts[r] <= 2
        /\ \A x, y \in LoopsOf(r) : x.start = y.start => x = y
        /\ \A x \in LoopsOf(r) : x.start \in 1 .. starts[r]
        /\ \A t \in sends : t.connection = r => starts[r] <= 1
        /\ \A i, j \in DOMAIN s : s[i] = 0 /\ s[j] = 0 => i = j

\* One more entry of a sequence of numbers.
LEMMA NumbersAppend ==
  ASSUME NEW s \in Seq(Nat), NEW n \in Nat
  PROVE  /\ Len(s) \in Nat /\ DOMAIN s = 1 .. Len(s) /\ \A i \in DOMAIN s : s[i] \in Nat
         /\ DOMAIN Append(s, n) = 1 .. Len(s) + 1
         /\ \A i \in 1 .. Len(s) : Append(s, n)[i] = s[i]
         /\ Append(s, n)[Len(s) + 1] = n
<1>1. /\ Append(s, n) \in Seq(Nat) /\ Len(Append(s, n)) = Len(s) + 1
      /\ \A i \in 1 .. Len(s) : Append(s, n)[i] = s[i]
      /\ Append(s, n)[Len(s) + 1] = n
  BY AppendProperties
<1>2. /\ Len(s) \in Nat /\ DOMAIN s = 1 .. Len(s) /\ \A i \in 1 .. Len(s) : s[i] \in Nat
  BY LenProperties, ElementOfSeq
<1>3. DOMAIN Append(s, n) = 1 .. Len(Append(s, n))
  BY <1>1, LenProperties
<1> QED BY <1>1, <1>2, <1>3

-----------------------------------------------------------------------------

\* Nothing StartsOK(q) speaks of changes.
SameStarts(q) ==
    /\ step'[q] = step[q] /\ result'[q] = result[q]
    /\ io'[q] = io[q] /\ completions'[q] = completions[q]
    /\ starts'[q] = starts[q] /\ starting'[q] = starting[q] /\ order'[q] = order[q]
    /\ \A x : x.connection = q => (x \in readers' <=> x \in readers)
    /\ to_application'[q] = to_application[q]
    /\ \A t : t.connection = q => (t \in sends' <=> t \in sends)

\* A step that leaves all of it alone keeps StartsOK(q).
LEMMA StartsFrame ==
  ASSUME NEW q \in Connections, StartsOK(q), SameStarts(q)
  PROVE  StartsOK(q)'
<1>1. NoSends(q)' <=> NoSends(q)
  BY DEF SameStarts, NoSends
<1>2. ASSUME NEW at PROVE OneSend(q, at)' <=> OneSend(q, at)
  <2>1. [connection |-> q, pc |-> at].connection = q
    OBVIOUS
  <2> QED BY <2>1 DEF SameStarts, OneSend
<1>3. (ConnectSent(q)' <=> ConnectSent(q)) /\ (ConnectOnce(q)' <=> ConnectOnce(q))
  BY DEF SameStarts, ConnectSent, ConnectOnce
<1>4. BeforeConnect(q)' <=> BeforeConnect(q)
  BY <1>1, <1>3 DEF SameStarts, BeforeConnect
<1>5. ConnectOnItsWay(q)' <=> ConnectOnItsWay(q)
  BY <1>1, <1>2, <1>3 DEF SameStarts, ConnectOnItsWay
<1>6. LoopsOK(q)' <=> LoopsOK(q)
  BY DEF SameStarts, LoopsOK
<1> QED BY <1>3, <1>4, <1>5, <1>6 DEF StartsOK

\* The steps of the pipeline that send nothing and start nothing.
LEMMA StartsPipeline ==
  ASSUME TypeOK, \A q \in Connections : StartsOK(q), NEW r \in Connections,
         \/ OnExecuteRequestHandler(r) \/ AcceptWebSocketEnter(r)
         \/ AcceptWebSocketGetNextStep(r) \/ CleanupStoredContext(r)
  PROVE  \A q \in Connections : StartsOK(q)'
<1>1. UNCHANGED <<completions, sends, readerVars>>
  BY DEF OnExecuteRequestHandler, AcceptWebSocketEnter, AcceptWebSocketGetNextStep,
     CleanupStoredContext
<1>2. ASSUME NEW q \in Connections, q # r PROVE StartsOK(q)'
  <2>1. SameStarts(q)
    BY <1>1, <1>2 DEF TypeOK, ConnectTypeOK, SameStarts, readerVars, Goto, Return,
       OnExecuteRequestHandler, AcceptWebSocketEnter, AcceptWebSocketGetNextStep,
       CleanupStoredContext
  <2> QED BY <1>2, <2>1, StartsFrame
<1>3. StartsOK(r)'
  <2>1. /\ StartsOK(r) /\ ~ConnectOnItsWay(r) /\ BeforeConnect(r)
    BY DEF OnExecuteRequestHandler, AcceptWebSocketEnter, AcceptWebSocketGetNextStep,
       CleanupStoredContext, At, StartsOK, ConnectOnItsWay
  <2>2. /\ NoSends(r)' /\ completions'[r] = 0 /\ ~ConnectSent(r)'
        /\ starts' = starts /\ starting' = starting /\ LoopsOK(r)' /\ ConnectOnce(r)'
    BY <1>1, <2>1 DEF BeforeConnect, StartsOK, NoSends, ConnectSent, LoopsOK, ConnectOnce,
       readerVars
  <2>3. CASE OnExecuteRequestHandler(r)
    BY <2>1, <2>2, <2>3 DEF OnExecuteRequestHandler, At, Goto, Return, BeforeConnect,
       StartsOK, TypeOK, ConnectTypeOK
  <2>4. CASE AcceptWebSocketEnter(r)
    BY <2>1, <2>2, <2>4 DEF AcceptWebSocketEnter, At, Return, BeforeConnect, StartsOK,
       TypeOK, ConnectTypeOK
  <2>5. CASE AcceptWebSocketGetNextStep(r)
    BY <2>1, <2>2, <2>5 DEF AcceptWebSocketGetNextStep, At, Goto, Return, BeforeConnect,
       StartsOK, TypeOK, ConnectTypeOK
  <2>6. CASE CleanupStoredContext(r)
    BY <2>1, <2>2, <2>6 DEF CleanupStoredContext, Return, BeforeConnect, StartsOK,
       TypeOK, ConnectTypeOK
  <2> QED BY <2>3, <2>4, <2>5, <2>6
<1> QED BY <1>2, <1>3

\* The connect message: its task is created.
LEMMA StartsConnect ==
  ASSUME TypeOK, \A q \in Connections : StartsOK(q), NEW r \in Connections,
         SendConnectEnter(r)
  PROVE  \A q \in Connections : StartsOK(q)'
<1> DEFINE t == [connection |-> r, pc |-> "send"]
<1>1. /\ UNCHANGED <<step, io, completions, readerVars>>
      /\ sends' = sends \cup {t}
      /\ result' = [result EXCEPT ![r] = "AsyncPending"]
      /\ step[r] = "SendConnect" /\ result[r] = "Rerun"
  BY DEF SendConnectEnter, At, Return
<1>2. ASSUME NEW q \in Connections, q # r PROVE StartsOK(q)'
  <2>1. \A u : u.connection = q => (u \in sends' <=> u \in sends)
    BY <1>1, <1>2
  <2>2. SameStarts(q)
    BY <1>1, <1>2, <2>1 DEF TypeOK, ConnectTypeOK, SameStarts, readerVars
  <2> QED BY <1>2, <2>2, StartsFrame
<1>3. StartsOK(r)'
  <2>1. StartsOK(r) /\ BeforeConnect(r) /\ result'[r] = "AsyncPending" /\ ~io[r]
    BY <1>1 DEF StartsOK, ConnectOnItsWay, BeforeConnect, TypeOK, ConnectTypeOK
  <2>2. OneSend(r, "send")'
    BY <1>1, <2>1 DEF OneSend, BeforeConnect, NoSends
  <2>3. starts'[r] <= 1 /\ ~ConnectSent(r)' /\ completions'[r] = 0
    BY <1>1, <2>1 DEF BeforeConnect, ConnectSent, readerVars
  <2>4. ConnectOnItsWay(r)'
    BY <1>1, <2>1, <2>2, <2>3 DEF ConnectOnItsWay
  <2>5. LoopsOK(r)' /\ ConnectOnce(r)'
    BY <1>1, <2>1 DEF StartsOK, LoopsOK, ConnectOnce, readerVars
  <2> QED BY <2>4, <2>5 DEF StartsOK
<1> QED BY <1>2, <1>3

\* The task's first part: the message is sent, the completion still to be posted.
LEMMA StartsRunSend ==
  ASSUME TypeOK, \A q \in Connections : StartsOK(q), NEW t \in sends, RunSendConnect(t)
  PROVE  \A q \in Connections : StartsOK(q)'
<1> DEFINE r == t.connection
           p == [connection |-> r, pc |-> "post"]
<1>1. /\ r \in Connections /\ t = [connection |-> r, pc |-> "send"]
      /\ UNCHANGED <<step, result, io, completions, starts, starting, readers, order>>
      /\ sends' = (sends \ {t}) \cup {p}
      /\ to_application' = [to_application EXCEPT ![r] = Append(@, 0)]
  BY DEF RunSendConnect, TypeOK, ConnectTypeOK
<1>2. ASSUME NEW q \in Connections, q # r PROVE StartsOK(q)'
  <2>1. \A u : u.connection = q => (u \in sends' <=> u \in sends)
    BY <1>1, <1>2
  <2>2. SameStarts(q)
    BY <1>1, <1>2, <2>1 DEF TypeOK, ReaderTypeOK, SameStarts
  <2> QED BY <1>2, <2>2, StartsFrame
<1>3. StartsOK(r)'
  <2>1. StartsOK(r) /\ ~NoSends(r) /\ ~OneSend(r, "post")
    BY <1>1 DEF NoSends, OneSend
  <2>2. /\ step[r] = "SendConnect" /\ result[r] = "AsyncPending" /\ ~io[r]
        /\ OneSend(r, "send") /\ completions[r] = 0 /\ starts[r] <= 1 /\ ~ConnectSent(r)
    BY <2>1 DEF StartsOK, BeforeConnect, ConnectOnItsWay
  <2>3. OneSend(r, "post")'
    <3>1. p \in sends' /\ p.connection = r /\ p.pc = "post"
      BY <1>1
    <3>2. ASSUME NEW u \in sends', u.connection = r PROVE u.pc = "post"
      <4>1. CASE u = p
        BY <4>1
      <4>2. CASE u # p
        <5>1. u \in sends /\ u # t /\ u.pc = "send"
          BY <1>1, <2>2, <3>2, <4>2 DEF OneSend
        <5>2. u = [connection |-> u.connection, pc |-> u.pc]
          BY <5>1 DEF TypeOK, ConnectTypeOK
        <5> QED BY <1>1, <3>2, <5>1, <5>2
      <4> QED BY <4>1, <4>2
    <3> QED BY <3>1, <3>2 DEF OneSend
  <2>4. ConnectOnItsWay(r)'
    BY <1>1, <2>2, <2>3 DEF ConnectOnItsWay
  <2>5. ConnectOnce(r)'
    <3>1. /\ to_application[r] \in Seq(Nat)
          /\ to_application'[r] = Append(to_application[r], 0)
      BY <1>1 DEF TypeOK, ReaderTypeOK
    <3>2. \A i \in DOMAIN to_application[r] : to_application[r][i] # 0
      BY <2>2 DEF ConnectSent
    <3>3. \A i \in DOMAIN to_application'[r] :
             to_application'[r][i] = 0 => i = Len(to_application[r]) + 1
      <4> DEFINE s == to_application[r]
      <4>1. /\ Len(s) \in Nat
            /\ DOMAIN s = 1 .. Len(s) /\ DOMAIN Append(s, 0) = 1 .. Len(s) + 1
            /\ \A i \in 1 .. Len(s) : Append(s, 0)[i] = s[i]
        BY <3>1, NumbersAppend
      <4>2. \A i \in 1 .. Len(s) + 1 : i \in 1 .. Len(s) \/ i = Len(s) + 1
        <5> HIDE DEF s
        <5> QED BY <4>1
      <4>3. /\ to_application'[r] = Append(s, 0)
            /\ \A i \in DOMAIN s : s[i] # 0
        BY <3>1, <3>2
      <4>4. \A i \in DOMAIN Append(s, 0) : Append(s, 0)[i] = 0 => i = Len(s) + 1
        <5> HIDE DEF s
        <5> QED BY <4>1, <4>2, <4>3
      <4> QED BY <4>3, <4>4
    <3> QED BY <3>3 DEF ConnectOnce
  <2>6. LoopsOK(r)'
    BY <1>1, <2>1 DEF StartsOK, LoopsOK
  <2> QED BY <2>4, <2>5, <2>6 DEF StartsOK
<1> QED BY <1>2, <1>3

\* Its second part: the completion is posted, and no task is left.
LEMMA StartsRunContinuation ==
  ASSUME TypeOK, \A q \in Connections : StartsOK(q), NEW t \in sends,
         RunSendConnectContinuation(t)
  PROVE  \A q \in Connections : StartsOK(q)'
<1> DEFINE r == t.connection
<1>1. /\ r \in Connections /\ t.pc = "post"
      /\ UNCHANGED <<step, result, io, readerVars>>
      /\ sends' = sends \ {t}
      /\ completions' = [completions EXCEPT ![r] = @ + 1]
  BY DEF RunSendConnectContinuation, PostCompletion, TypeOK, ConnectTypeOK
<1>2. ASSUME NEW q \in Connections, q # r PROVE StartsOK(q)'
  <2>1. \A u : u.connection = q => (u \in sends' <=> u \in sends)
    BY <1>1, <1>2
  <2>2. SameStarts(q)
    BY <1>1, <1>2, <2>1 DEF TypeOK, ConnectTypeOK, SameStarts, readerVars
  <2> QED BY <1>2, <2>2, StartsFrame
<1>3. StartsOK(r)'
  <2>1. StartsOK(r) /\ ~NoSends(r) /\ ~OneSend(r, "send")
    BY <1>1 DEF NoSends, OneSend
  <2>2. /\ step[r] = "SendConnect" /\ result[r] = "AsyncPending" /\ ~io[r]
        /\ OneSend(r, "post") /\ completions[r] = 0 /\ starts[r] <= 1
    BY <2>1 DEF StartsOK, BeforeConnect, ConnectOnItsWay
  <2>3. NoSends(r)'
    <3>1. ASSUME NEW u \in sends, u.connection = r PROVE u = t
      <4>1. u.pc = "post"
        BY <2>2, <3>1 DEF OneSend
      <4>2. u = [connection |-> u.connection, pc |-> u.pc]
            /\ t = [connection |-> t.connection, pc |-> t.pc]
        BY DEF TypeOK, ConnectTypeOK
      <4> QED BY <1>1, <3>1, <4>1, <4>2
    <3> QED BY <1>1, <3>1 DEF NoSends
  <2>4. completions'[r] = 1
    BY <1>1, <2>2 DEF TypeOK, ConnectTypeOK
  <2>5. ConnectOnItsWay(r)'
    BY <1>1, <2>2, <2>3, <2>4 DEF ConnectOnItsWay, readerVars
  <2>6. LoopsOK(r)' /\ ConnectOnce(r)'
    BY <1>1, <2>1 DEF StartsOK, LoopsOK, ConnectOnce, readerVars
  <2> QED BY <2>5, <2>6 DEF StartsOK
<1> QED BY <1>2, <1>3

\* A completion: of the upgrade, before there is a reader, or of the connect message,
\* after which there is none to come.
LEMMA StartsCompletion ==
  ASSUME TypeOK, \A q \in Connections : StartsOK(q), NEW r \in Connections,
         OnAsyncCompletion(r)
  PROVE  \A q \in Connections : StartsOK(q)'
<1> DEFINE x == [connection |-> r, start |-> starts[r] + 1, order |-> 0, pc |-> "read"]
<1>1. /\ UNCHANGED <<step, result, sends, order, to_application>>
      /\ starts' = [starts EXCEPT ![r] = @ + 1]
      /\ starting' = [starting EXCEPT ![r] = "reader"]
      /\ readers' = readers \cup {x}
      /\ result[r] = "AsyncPending"
  BY DEF OnAsyncCompletion
<1>2. \/ /\ io[r] /\ io' = [io EXCEPT ![r] = FALSE] /\ completions' = completions
      \/ /\ completions[r] > 0 /\ completions' = [completions EXCEPT ![r] = @ - 1]
         /\ io' = io
  BY DEF OnAsyncCompletion
<1>3. x.connection = r /\ x.start = starts[r] + 1 /\ x.pc = "read"
  OBVIOUS
<1> HIDE DEF x
<1>4. ASSUME NEW q \in Connections, q # r PROVE StartsOK(q)'
  <2>1. SameStarts(q)
    BY <1>1, <1>2, <1>3, <1>4 DEF TypeOK, ConnectTypeOK, ReaderTypeOK, SameStarts
  <2> QED BY <1>4, <2>1, StartsFrame
<1>5. StartsOK(r)'
  <2>1. /\ StartsOK(r) /\ starts[r] \in Nat /\ starts'[r] = starts[r] + 1
        /\ (NoSends(r)' <=> NoSends(r)) /\ (ConnectSent(r)' <=> ConnectSent(r))
    BY <1>1 DEF NoSends, ConnectSent, TypeOK, ReaderTypeOK
  <2>2. ConnectOnce(r)'
    BY <1>1, <2>1 DEF StartsOK, ConnectOnce
  <2>3. LoopsOK(r)'
    <3>1. \A y \in readers : y.connection = r => y.start # x.start
      BY <1>3, <2>1 DEF StartsOK, LoopsOK
    <3>2. \A y \in readers' : y.connection = r => y.start \in 1 .. starts[r] + 1
      BY <1>1, <1>3, <2>1 DEF StartsOK, LoopsOK
    <3> QED BY <1>1, <1>3, <2>1, <3>1, <3>2 DEF StartsOK, LoopsOK
  <2>4. CASE io[r]
    <3>1. step[r] = "AcceptWebSocket" /\ BeforeConnect(r) /\ starts[r] = 0
      BY <1>1, <2>1, <2>4 DEF StartsOK, BeforeConnect, ConnectOnItsWay
    <3>2. ~io'[r] /\ completions'[r] = 0 /\ starts'[r] = 1
      BY <1>2, <2>1, <2>4, <3>1 DEF BeforeConnect, TypeOK, ConnectTypeOK
    <3>3. BeforeConnect(r)'
      BY <1>1, <2>1, <3>1, <3>2 DEF BeforeConnect
    <3> QED BY <2>2, <2>3, <3>3 DEF StartsOK
  <2>5. CASE ~io[r]
    <3>1. step[r] = "SendConnect" /\ NoSends(r) /\ completions[r] = 1 /\ starts[r] <= 1
      BY <1>1, <1>2, <2>1, <2>5 DEF StartsOK, BeforeConnect, ConnectOnItsWay
    <3>2. ~io'[r] /\ completions'[r] = 0 /\ starts'[r] <= 2
      BY <1>1, <1>2, <2>1, <2>5, <3>1 DEF TypeOK, ConnectTypeOK
    <3>3. ConnectOnItsWay(r)'
      BY <1>1, <2>1, <3>1, <3>2 DEF ConnectOnItsWay
    <3> QED BY <2>2, <2>3, <3>3 DEF StartsOK
  <2> QED BY <2>4, <2>5
<1> QED BY <1>4, <1>5

\* The writer is started, and the pipeline goes on.
LEMMA StartsWriter ==
  ASSUME TypeOK, \A q \in Connections : StartsOK(q), NEW r \in Connections,
         StartWriter(r)
  PROVE  \A q \in Connections : StartsOK(q)'
<1>1. /\ UNCHANGED <<step, io, completions, sends, starts, readers, order, to_application>>
      /\ starting[r] = "writer" /\ starting' = [starting EXCEPT ![r] = "none"]
      /\ result' = [result EXCEPT ![r] =
                       IF step[r] = "AcceptWebSocket" THEN "GotoNext" ELSE "AsyncPending"]
  BY DEF StartWriter, Return
<1>2. ASSUME NEW q \in Connections, q # r PROVE StartsOK(q)'
  <2>1. SameStarts(q)
    BY <1>1, <1>2 DEF TypeOK, ConnectTypeOK, ReaderTypeOK, SameStarts
  <2> QED BY <1>2, <2>1, StartsFrame
<1>3. StartsOK(r)'
  <2>1. /\ StartsOK(r) /\ (NoSends(r)' <=> NoSends(r))
        /\ (ConnectSent(r)' <=> ConnectSent(r)) /\ \A at : OneSend(r, at)' <=> OneSend(r, at)
    BY <1>1 DEF NoSends, OneSend, ConnectSent
  <2>2. LoopsOK(r)' /\ ConnectOnce(r)'
    BY <1>1, <2>1 DEF StartsOK, LoopsOK, ConnectOnce
  <2>3. /\ result'[r] = IF step[r] = "AcceptWebSocket" THEN "GotoNext" ELSE "AsyncPending"
        /\ starting'[r] = "none"
    BY <1>1 DEF TypeOK, ConnectTypeOK, ReaderTypeOK
  <2>4. CASE BeforeConnect(r)
    <3>1. step[r] = "AcceptWebSocket" /\ starts[r] = 1 /\ ~io[r]
      BY <1>1, <2>4 DEF BeforeConnect
    <3>2. BeforeConnect(r)'
      BY <1>1, <2>1, <2>3, <2>4, <3>1 DEF BeforeConnect
    <3> QED BY <2>2, <3>2 DEF StartsOK
  <2>5. CASE ConnectOnItsWay(r)
    <3>1. result'[r] = "AsyncPending"
      BY <2>3, <2>5 DEF ConnectOnItsWay
    <3>2. ConnectOnItsWay(r)'
      BY <1>1, <2>1, <2>5, <3>1 DEF ConnectOnItsWay
    <3> QED BY <2>2, <3>2 DEF StartsOK
  <2> QED BY <2>1, <2>4, <2>5 DEF StartsOK
<1> QED BY <1>2, <1>3

\* The reader's loops: as many as before.
LEMMA StartsReader ==
  ASSUME TypeOK, \A q \in Connections : StartsOK(q), NEW x \in readers, Reader(x)
  PROVE  \A q \in Connections : StartsOK(q)'
<1>1. PICK y : ReaderMoves(x, y)
  BY ReaderMovesOn
<1>2. PICK r \in Connections : r = x.connection
  BY ReaderMovesOn
<1>3. /\ UNCHANGED <<step, result, io, completions, sends, starts>>
      /\ y.connection = r /\ y.start = x.start /\ readers' = (readers \ {x}) \cup {y}
      /\ starting'[r] = "none" <=> starting[r] = "none"
  BY <1>1, <1>2 DEF ReaderMoves, connectVars
<1>4. ASSUME NEW q \in Connections, q # r PROVE StartsOK(q)'
  <2>1. x \in ReaderLoops
    BY DEF TypeOK, ReaderTypeOK
  <2>2. SameStarts(q)
    BY <1>1, <1>2, <1>3, <1>4, <2>1, ReaderMovesTypes DEF SameStarts
  <2> QED BY <1>4, <2>2, StartsFrame
<1>5. /\ StartsOK(r) /\ x.order \in Nat /\ order \in [Connections -> Nat]
      /\ to_application \in [Connections -> Seq(Nat)] /\ order[r] > 0
  BY DEF TypeOK, ReaderTypeOK, ReaderLoops, StartsOK, LoopsOK
<1>6. LoopsOK(r)'
  <2>1. order'[r] > 0
    BY <1>1, <1>2, <1>5 DEF ReaderMoves
  <2>2. y.pc = "send" => y.order > 0
    BY <1>1, <1>2, <1>5 DEF ReaderMoves
  <2>3. y.start \in 1 .. starts'[r]
    BY <1>2, <1>3, <1>5 DEF StartsOK, LoopsOK
  <2>4. \A z \in readers' : z = y \/ (z \in readers /\ z # x)
    BY <1>3
  <2>5. \A z \in readers' : z.connection = r /\ z.start = x.start => z = y
    BY <1>2, <1>5, <2>4 DEF StartsOK, LoopsOK
  <2>6. \A z, w \in readers' :
           z.connection = r /\ w.connection = r /\ z.start = w.start => z = w
    BY <1>3, <1>5, <2>4, <2>5 DEF StartsOK, LoopsOK
  <2> QED BY <1>3, <1>5, <2>1, <2>2, <2>3, <2>4, <2>6 DEF StartsOK, LoopsOK
<1>7. (ConnectSent(r)' <=> ConnectSent(r)) /\ ConnectOnce(r)'
  <2> DEFINE s == to_application[r]
  <2>1. CASE to_application' = to_application
    BY <1>5, <2>1 DEF ConnectSent, ConnectOnce, StartsOK
  <2>2. CASE to_application' # to_application
    <3>1. x.pc = "send" /\ to_application'[r] = Append(s, x.order)
      BY <1>1, <1>2, <1>5, <2>2 DEF ReaderMoves
    <3>2. x.order # 0
      BY <1>2, <1>5, <3>1 DEF StartsOK, LoopsOK
    <3>3. /\ DOMAIN to_application'[r] = 1 .. Len(s) + 1 /\ DOMAIN s = 1 .. Len(s)
          /\ \A i \in 1 .. Len(s) : to_application'[r][i] = s[i]
          /\ to_application'[r][Len(s) + 1] # 0 /\ Len(s) \in Nat
      BY <1>5, <3>1, <3>2, NumbersAppend
    <3>4. /\ \A i \in DOMAIN to_application'[r] : i \in DOMAIN s \/ i = Len(s) + 1
          /\ DOMAIN s \subseteq DOMAIN to_application'[r]
      BY <3>3
    <3>5. ConnectSent(r)' <=> ConnectSent(r)
      BY <3>3, <3>4 DEF ConnectSent
    <3>6. ConnectOnce(r)'
      BY <1>5, <3>3, <3>4 DEF ConnectOnce, StartsOK
    <3> QED BY <3>5, <3>6
  <2> QED BY <2>1, <2>2
<1>8. StartsOK(r)'
  <2>1. (NoSends(r)' <=> NoSends(r)) /\ \A at : OneSend(r, at)' <=> OneSend(r, at)
    BY <1>3 DEF NoSends, OneSend
  <2>2. BeforeConnect(r)' <=> BeforeConnect(r)
    BY <1>3, <1>7, <2>1 DEF BeforeConnect
  <2>3. ConnectOnItsWay(r)' <=> ConnectOnItsWay(r)
    BY <1>3, <1>7, <2>1 DEF ConnectOnItsWay
  <2> QED BY <1>5, <1>6, <1>7, <2>2, <2>3 DEF StartsOK
<1> QED BY <1>4, <1>8

\* Writer, application, Redis and pump have no part in it.
LEMMA NextStarts ==
  ASSUME TypeOK, \A q \in Connections : StartsOK(q), [Next]_vars
  PROVE  \A q \in Connections : StartsOK(q)'
<1>1. ASSUME UNCHANGED <<connectVars, readerVars>>
      PROVE  \A q \in Connections : StartsOK(q)'
  <2>1. \A q \in Connections : SameStarts(q)
    BY <1>1 DEF SameStarts, connectVars, readerVars
  <2> QED BY <2>1, StartsFrame
<1>2. CASE UNCHANGED vars
  BY <1>1, <1>2 DEF vars
<1>3. ASSUME NEW r \in Connections, Handler(r)
      PROVE  \A q \in Connections : StartsOK(q)'
  BY <1>3, StartsPipeline, StartsConnect, StartsCompletion, StartsWriter DEF Handler
<1>4. ASSUME NEW r \in Connections, Writer(r)
      PROVE  \A q \in Connections : StartsOK(q)'
  BY <1>1, <1>4 DEF Writer, WriteAsync, WriteCallback
<1>5. ASSUME NEW r \in Connections, NEW m \in Payloads, AppSend(r, m)
      PROVE  \A q \in Connections : StartsOK(q)'
  BY <1>1, <1>5 DEF AppSend
<1>6. ASSUME NEW r \in Connections, ReplyExpires(r)
      PROVE  \A q \in Connections : StartsOK(q)'
  BY <1>1, <1>6 DEF ReplyExpires
<1>7. ASSUME NEW t \in tasks, RunCallback(t)
      PROVE  \A q \in Connections : StartsOK(q)'
  BY <1>1, <1>7 DEF RunCallback
<1>8. CASE Pump
  BY <1>1, <1>8 DEF Pump
<1>9. CASE Scheduler
  BY <1>7, <1>9, StartsRunSend, StartsRunContinuation DEF Scheduler
<1> QED BY <1>2, <1>3, <1>4, <1>5, <1>6, <1>8, <1>9, StartsPipeline, StartsReader DEF Next

\* However the upgrade completes and the loops of the reader interleave, what may be under
\* way around the connect message is as StartsOK has it.
THEOREM StartsInvariance == Spec => []\A r \in Connections : StartsOK(r)
<1>1. Init => \A r \in Connections : StartsOK(r)
  <2> SUFFICES ASSUME Init, NEW r \in Connections PROVE StartsOK(r)
    OBVIOUS
  <2>1. to_application[r] = << >> /\ DOMAIN to_application[r] = {}
    BY DEF Init
  <2>2. BeforeConnect(r)
    BY <2>1 DEF Init, BeforeConnect, NoSends, ConnectSent
  <2>3. LoopsOK(r) /\ ConnectOnce(r)
    BY <2>1 DEF Init, LoopsOK, ConnectOnce
  <2> QED BY <2>2, <2>3 DEF StartsOK
<1>2. TypeOK /\ (\A r \in Connections : StartsOK(r)) /\ [Next]_vars
        => (\A r \in Connections : StartsOK(r))'
  BY NextStarts
<1> QED BY <1>1, <1>2, TypeCorrect, PTL DEF Spec

\* Even after an upgrade that completes later StartReaderWriter() is entered no more than
\* twice, with one loop of the reader for each, and only once until the task of the connect
\* message has posted; and the application gets one message with number 0 at most, though
\* two loops pack, send and count with no lock (WsReader.cpp:94-101).
THEOREM StartedAtMostTwice == Spec => []AtMostTwice
<1>1. TypeOK /\ (\A r \in Connections : StartsOK(r)) => AtMostTwice
  <2> SUFFICES ASSUME TypeOK, NEW r \in Connections, StartsOK(r)
               PROVE  LET s == to_application[r] IN
                      /\ starts[r] <= 2
                      /\ \A x, y \in LoopsOf(r) : x.start = y.start => x = y
                      /\ \A x \in LoopsOf(r) : x.start \in 1 .. starts[r]
                      /\ \A t \in sends : t.connection = r => starts[r] <= 1
                      /\ \A i, j \in DOMAIN s : s[i] = 0 /\ s[j] = 0 => i = j
    BY DEF AtMostTwice
  <2>1. starts[r] <= 2 /\ \A t \in sends : t.connection = r => starts[r] <= 1
    BY DEF StartsOK, BeforeConnect, ConnectOnItsWay, NoSends, TypeOK, ReaderTypeOK
  <2> QED BY <2>1 DEF StartsOK, LoopsOK, ConnectOnce, LoopsOf
<1> QED BY <1>1, StartsInvariance, TypeCorrect, PTL

=============================================================================

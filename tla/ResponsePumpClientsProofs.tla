---------------------- MODULE ResponsePumpClientsProofs ----------------------
(***************************************************************************)
(* What the response pump promises its clients, for every set of channels  *)
(* and any number of messages, registrations and removals.                 *)
(*                                                                         *)
(* The inductive invariant looks at one channel at a time: its             *)
(* registrations are shared out among the map, the clients and the tasks;  *)
(* its tasks have messages of their own; and the messages thrown away are  *)
(* paid for by removals, one of which may be owed by the snapshot the      *)
(* thread is working with.                                                 *)
(***************************************************************************)
EXTENDS ResponsePumpClients, FiniteSetTheorems, TLAPS

\* The locals of the thread.
LocalsOK ==
    /\ pc \in {"top", "exited"} => channel_names = {}
    /\ pc # "dispatch" => received = {}
    /\ pc = "dispatch" => \E c \in channel_names, i \in Nat \ {0} :
                             received = {[channel |-> c, msg |-> i]}

\* Every registration is in one place.
RegistrationOK(c) ==
    /\ m_callbacks[c] \in 0 .. added[c]
    /\ replaced[c] \subseteq 1 .. added[c]
    /\ removed[c] \subseteq 1 .. added[c]
    /\ replaced[c] \cap removed[c] = {}
    /\ m_callbacks[c] \notin replaced[c] \cup removed[c]
    /\ \A t \in TasksOf(c) :
          /\ t.callback \in 1 .. added[c]
          /\ t.callback \notin replaced[c] \cup removed[c]
          /\ t.callback # m_callbacks[c]
    /\ \A id \in 1 .. added[c] :
          \/ id = m_callbacks[c]
          \/ id \in replaced[c] \cup removed[c]
          \/ \E t \in TasksOf(c) : t.callback = id
    /\ \A s, t \in TasksOf(c) : s.callback = t.callback => s = t

\* A message that is in no task, and will be in one at most.
Fresh(c, i) == \A t \in TasksOf(c) : t.msg # i

MessageOK(c) ==
    /\ \A s, t \in TasksOf(c) : s.msg = t.msg => s = t
    /\ \A t \in TasksOf(c) : t.msg \in (1 .. popped[c]) \ expired[c]
    /\ \A d \in received : d.channel = c =>
          d.msg \in (1 .. popped[c]) \ expired[c] /\ Fresh(c, d.msg)

\* The thread works with a snapshot from which c has been removed since.
Owed(c) == IF c \in channel_names /\ m_callbacks[c] = NoCallback THEN 1 ELSE 0

DropOK(c) == Cardinality(Dropped(c)) + Owed(c) <= removals[c]

ChannelOK(c) == RegistrationOK(c) /\ MessageOK(c) /\ DropOK(c)

IInv ==
    /\ TypeOK
    /\ LocalsOK
    /\ \A c \in Channels : ChannelOK(c)

-----------------------------------------------------------------------------

LEMMA DroppedFinite ==
  ASSUME TypeOK, NEW c \in Channels
  PROVE  /\ IsFiniteSet(Dropped(c)) /\ Cardinality(Dropped(c)) \in Nat
         /\ Owed(c) \in {0, 1} /\ removals[c] \in Nat /\ added[c] \in Nat /\ popped[c] \in Nat
<1>1. popped[c] \in Nat /\ removals[c] \in Nat /\ added[c] \in Nat
  BY DEF TypeOK, ChannelTypeOK
<1>2. IsFiniteSet(1 .. popped[c])
  <2>1. 1 \in Int /\ popped[c] \in Int
    BY <1>1
  <2> QED BY <2>1, FS_Interval
<1>3. Dropped(c) \in SUBSET (1 .. popped[c])
  BY DEF Dropped
<1> QED BY <1>1, <1>2, <1>3, FS_Subset, FS_CardinalityType DEF Owed

LEMMA DroppedMonotonic ==
  ASSUME TypeOK, NEW c \in Channels, NEW S, S \subseteq Dropped(c)
  PROVE  IsFiniteSet(S) /\ Cardinality(S) \in Nat /\ Cardinality(S) <= Cardinality(Dropped(c))
BY DroppedFinite, FS_Subset, FS_CardinalityType

LEMMA InitIInv == ASSUME Init PROVE IInv
<1>1. TypeOK /\ LocalsOK
  <2>1. ChannelTypeOK
    BY DEF Init, ChannelInit, ChannelTypeOK
  <2>2. PumpTypeOK
    BY DEF Init, PumpInit, PumpTypeOK, NoCallback
  <2>3. LocalsOK
    BY DEF Init, PumpInit, LocalsOK
  <2> QED BY <2>1, <2>2, <2>3 DEF Init, TypeOK
<1>2. ASSUME NEW c \in Channels PROVE ChannelOK(c)
  <2>1. TasksOf(c) = {} /\ received = {} /\ channel_names = {} /\ popped[c] = 0
        /\ m_callbacks[c] = 0 /\ added[c] = 0 /\ replaced[c] = {} /\ removed[c] = {}
        /\ removals[c] = 0
    BY DEF Init, ChannelInit, PumpInit, TasksOf, NoCallback
  <2>2. Dropped(c) = {}
    BY <2>1 DEF Dropped
  <2>3. Cardinality(Dropped(c)) = 0
    BY <2>2, FS_EmptySet
  <2> QED
    BY <2>1, <2>3 DEF ChannelOK, RegistrationOK, MessageOK, DropOK, Owed
<1> QED BY <1>1, <1>2 DEF IInv

-----------------------------------------------------------------------------
(* What a step leaves alone. *)

\* Nothing ChannelOK(c) speaks of changes, but that the thread may forget its snapshot.
SameChannel(c) ==
    /\ m_callbacks'[c] = m_callbacks[c]
    /\ added'[c] = added[c]
    /\ replaced'[c] = replaced[c]
    /\ removed'[c] = removed[c]
    /\ removals'[c] = removals[c]
    /\ popped'[c] = popped[c]
    /\ expired'[c] \cap (1 .. popped[c]) = expired[c] \cap (1 .. popped[c])
    /\ \A d : d.channel = c => (d \in received' <=> d \in received)
    /\ TasksOf(c)' = TasksOf(c)
    /\ c \in channel_names' /\ m_callbacks'[c] = NoCallback => c \in channel_names

LEMMA ChannelFrame ==
  ASSUME TypeOK, NEW c \in Channels, ChannelOK(c), SameChannel(c)
  PROVE  ChannelOK(c)'
<1>1. RegistrationOK(c)'
  BY DEF ChannelOK, RegistrationOK, SameChannel
<1>2. MessageOK(c)'
  BY DEF ChannelOK, MessageOK, SameChannel, Fresh
<1>3. Dropped(c)' \subseteq Dropped(c)
  <2> SUFFICES ASSUME NEW i \in Dropped(c)' PROVE i \in Dropped(c)
    OBVIOUS
  <2>1. i \in 1 .. popped[c] /\ i \notin expired[c] /\ \A t \in TasksOf(c) : t.msg # i
    BY DEF Dropped, SameChannel
  <2>2. ASSUME NEW d \in received PROVE <<d.channel, d.msg>> # <<c, i>>
    BY <2>2 DEF Dropped, SameChannel
  <2> QED BY <2>1, <2>2 DEF Dropped
<1>4. Owed(c)' <= Owed(c)
  BY DEF Owed, SameChannel
<1>5. DropOK(c)'
  <2>1. Cardinality(Dropped(c)') <= Cardinality(Dropped(c)) /\ Cardinality(Dropped(c)') \in Nat
    BY <1>3, DroppedMonotonic
  <2>2. Cardinality(Dropped(c)) + Owed(c) <= removals[c] /\ removals'[c] = removals[c]
    BY DEF ChannelOK, DropOK, SameChannel
  <2>3. Owed(c)' \in {0, 1}
    BY DEF Owed
  <2> QED BY <1>4, <2>1, <2>2, <2>3, DroppedFinite DEF DropOK
<1> QED BY <1>1, <1>2, <1>5 DEF ChannelOK

\* A step that leaves the locals of the thread, the tasks and the expired alone has done
\* with channel q if it does not touch its entries.
LEMMA OtherChannel ==
  ASSUME TypeOK, NEW q \in Channels,
         UNCHANGED <<received, tasks, ran, popped, expired, channel_names>>,
         m_callbacks'[q] = m_callbacks[q], added'[q] = added[q],
         replaced'[q] = replaced[q], removed'[q] = removed[q],
         removals'[q] = removals[q]
  PROVE  SameChannel(q)
BY DEF SameChannel, TasksOf

-----------------------------------------------------------------------------
(* The clients. *)

LEMMA ClientAddsOK ==
  ASSUME IInv, NEW c \in Channels, ClientAdds(c)
  PROVE  IInv'
<1>1. /\ added' = [added EXCEPT ![c] = added[c] + 1]
      /\ m_callbacks' = [m_callbacks EXCEPT ![c] = added[c] + 1]
      /\ replaced' = [replaced EXCEPT ![c] = replaced[c] \cup Current(c)]
      /\ UNCHANGED <<sent, popped, expired, m_thread_stop, pc, channel_names, received,
                     tasks, removed, removals, ran>>
  BY DEF ClientAdds, AddChannel, channelVars
<1>2. added[c] \in Nat
  BY DEF IInv, TypeOK
<1>3. TypeOK'
  <2>1. Current(c) \subseteq Nat
    BY DEF Current, IInv, TypeOK, PumpTypeOK
  <2>2. m_callbacks' \in [Channels -> Nat] /\ added' \in [Channels -> Nat]
    BY <1>1, <1>2 DEF IInv, TypeOK, PumpTypeOK
  <2>3. replaced' \in [Channels -> SUBSET Nat]
    BY <1>1, <2>1 DEF IInv, TypeOK
  <2>4. ChannelTypeOK'
    BY <1>1 DEF IInv, TypeOK, ChannelTypeOK
  <2>5. PumpTypeOK'
    BY <1>1, <2>2 DEF IInv, TypeOK, PumpTypeOK
  <2> QED BY <1>1, <2>2, <2>3, <2>4, <2>5 DEF IInv, TypeOK
<1>4. LocalsOK'
  BY <1>1 DEF IInv, LocalsOK
<1>5. ASSUME NEW q \in Channels, q # c PROVE ChannelOK(q)'
  <2>1. SameChannel(q)
    BY <1>1, <1>5, OtherChannel DEF IInv, TypeOK, PumpTypeOK
  <2> QED BY <2>1, ChannelFrame DEF IInv
<1>6. /\ m_callbacks'[c] = added[c] + 1 /\ added'[c] = added[c] + 1
      /\ replaced'[c] = replaced[c] \cup Current(c) /\ removed'[c] = removed[c]
      /\ TasksOf(c)' = TasksOf(c)
  BY <1>1 DEF IInv, TypeOK, PumpTypeOK, TasksOf
<1>7. RegistrationOK(c)'
  BY <1>2, <1>6 DEF IInv, ChannelOK, RegistrationOK, Current, NoCallback
<1>8. MessageOK(c)'
  BY <1>1, <1>6 DEF IInv, ChannelOK, MessageOK, Fresh
<1>9. DropOK(c)'
  <2>1. Dropped(c)' = Dropped(c) /\ Owed(c)' = 0 /\ removals' = removals
    BY <1>1, <1>2, <1>6 DEF Dropped, Owed, NoCallback
  <2>2. Cardinality(Dropped(c)) + Owed(c) <= removals[c]
    BY DEF IInv, ChannelOK, DropOK
  <2> QED BY <2>1, <2>2, DroppedFinite DEF IInv, DropOK
<1> QED BY <1>3, <1>4, <1>5, <1>7, <1>8, <1>9 DEF IInv, ChannelOK

LEMMA ClientRemovesOK ==
  ASSUME IInv, NEW c \in Channels, ClientRemoves(c)
  PROVE  IInv'
<1>1. /\ m_callbacks' = [m_callbacks EXCEPT ![c] = NoCallback]
      /\ removed' = [removed EXCEPT ![c] = removed[c] \cup Current(c)]
      /\ removals' = [removals EXCEPT ![c] = removals[c] + 1]
      /\ UNCHANGED <<sent, popped, expired, m_thread_stop, pc, channel_names, received,
                     tasks, added, replaced, ran>>
  BY DEF ClientRemoves, RemoveChannel, Erase, channelVars
<1>2. added[c] \in Nat /\ removals[c] \in Nat
  BY DEF IInv, TypeOK
<1>3. TypeOK'
  <2>1. Current(c) \subseteq Nat
    BY DEF Current, IInv, TypeOK, PumpTypeOK
  <2>2. ChannelTypeOK'
    BY <1>1 DEF IInv, TypeOK, ChannelTypeOK
  <2>3. PumpTypeOK'
    BY <1>1 DEF IInv, TypeOK, PumpTypeOK, NoCallback
  <2>4. /\ removed' \in [Channels -> SUBSET Nat] /\ removals' \in [Channels -> Nat]
    BY <1>1, <1>2, <2>1 DEF IInv, TypeOK
  <2> QED BY <1>1, <2>2, <2>3, <2>4 DEF IInv, TypeOK
<1>4. LocalsOK'
  BY <1>1 DEF IInv, LocalsOK
<1>5. ASSUME NEW q \in Channels, q # c PROVE ChannelOK(q)'
  <2>1. SameChannel(q)
    BY <1>1, <1>5, OtherChannel DEF IInv, TypeOK, PumpTypeOK
  <2> QED BY <2>1, ChannelFrame DEF IInv
<1>6. /\ m_callbacks'[c] = NoCallback /\ removals'[c] = removals[c] + 1
      /\ removed'[c] = removed[c] \cup Current(c) /\ replaced'[c] = replaced[c]
      /\ TasksOf(c)' = TasksOf(c)
  BY <1>1 DEF IInv, TypeOK, PumpTypeOK, TasksOf
<1>7. RegistrationOK(c)'
  BY <1>1, <1>2, <1>6 DEF IInv, ChannelOK, RegistrationOK, Current, NoCallback
<1>8. MessageOK(c)'
  BY <1>1, <1>6 DEF IInv, ChannelOK, MessageOK, Fresh
<1>9. DropOK(c)'
  <2>1. Dropped(c)' = Dropped(c) /\ Owed(c)' \in {0, 1} /\ removals'[c] = removals[c] + 1
    BY <1>1, <1>6 DEF Dropped, Owed
  <2>2. Cardinality(Dropped(c)) + Owed(c) <= removals[c]
    BY DEF IInv, ChannelOK, DropOK
  <2> QED BY <2>1, <2>2, DroppedFinite DEF IInv, DropOK
<1> QED BY <1>3, <1>4, <1>5, <1>7, <1>8, <1>9 DEF IInv, ChannelOK

LEMMA ProducerOK ==
  ASSUME IInv, NEW c \in Channels, Producer(c)
  PROVE  IInv'
<1>1. UNCHANGED <<m_callbacks, m_thread_stop, pc, channel_names, received, tasks, added,
                  replaced, removed, removals, ran, popped>>
  BY DEF Producer, Send, Expire, pumpVars, clientVars
<1>2. TypeOK'
  <2>1. ChannelTypeOK'
    <3>1. CASE \E m \in Payloads : Send(c, m)
      BY <3>1 DEF Send, IInv, TypeOK, ChannelTypeOK
    <3>2. CASE \E i \in 1 .. MaxMessages : Expire(c, i)
      BY <1>1, <3>2 DEF Expire, Unread, IInv, TypeOK, ChannelTypeOK
    <3> QED BY <3>1, <3>2 DEF Producer
  <2>2. PumpTypeOK'
    BY <1>1 DEF IInv, TypeOK, PumpTypeOK
  <2> QED BY <1>1, <2>1, <2>2 DEF IInv, TypeOK
<1>3. LocalsOK'
  BY <1>1 DEF IInv, LocalsOK
<1>4. ASSUME NEW q \in Channels PROVE ChannelOK(q)'
  <2>1. expired'[q] \cap (1 .. popped[q]) = expired[q] \cap (1 .. popped[q])
    <3>1. CASE \E m \in Payloads : Send(c, m)
      BY <3>1 DEF Send
    <3>2. CASE \E i \in 1 .. MaxMessages : Expire(c, i)
      <4>1. PICK i \in 1 .. MaxMessages : Expire(c, i)
        BY <3>2
      <4>2. i \notin 1 .. popped[c] /\ expired' = [expired EXCEPT ![c] = expired[c] \cup {i}]
        BY <4>1 DEF Expire, Unread, IInv, TypeOK, ChannelTypeOK
      <4> QED BY <4>2 DEF IInv, TypeOK, ChannelTypeOK
    <3> QED BY <3>1, <3>2 DEF Producer
  <2>2. SameChannel(q)
    BY <1>1, <2>1 DEF SameChannel, TasksOf
  <2> QED BY <2>2, ChannelFrame DEF IInv
<1> QED BY <1>2, <1>3, <1>4 DEF IInv

LEMMA RunTaskOK ==
  ASSUME IInv, NEW t \in tasks, RunTask(t)
  PROVE  IInv'
<1>1. /\ tasks' = tasks \ {t} /\ ran' = ran \cup {t}
      /\ UNCHANGED <<m_callbacks, m_thread_stop, pc, channel_names, received, added,
                     replaced, removed, removals, sent, popped, expired>>
  BY DEF RunTask, TaskDone, channelVars
<1>2. TypeOK'
  <2>1. t \in [channel : Channels, callback : Nat, msg : Nat]
    BY DEF IInv, TypeOK, PumpTypeOK
  <2> QED BY <1>1, <2>1 DEF IInv, TypeOK, ChannelTypeOK, PumpTypeOK
<1>3. LocalsOK'
  BY <1>1 DEF IInv, LocalsOK
<1>4. \A q \in Channels : SameChannel(q)
  BY <1>1 DEF SameChannel, TasksOf
<1> QED BY <1>2, <1>3, <1>4, ChannelFrame DEF IInv

-----------------------------------------------------------------------------
(* The thread. *)

LEMMA QuietStepsOK ==
  ASSUME IInv, Destroy \/ ((Snapshot \/ ReceiveTimeout \/ ThreadExit) /\ UNCHANGED clientVars)
  PROVE  IInv'
<1>1. UNCHANGED <<m_callbacks, received, tasks, added, replaced, removed, removals, ran,
                  sent, popped, expired>>
  BY DEF Destroy, StopThread, Snapshot, ReceiveTimeout, ThreadExit, BackToTop, clientVars,
     channelVars, IInv, LocalsOK
<1>2. /\ m_thread_stop' \in BOOLEAN /\ channel_names' \subseteq Channels
      /\ pc' \in {"top", "receive", "dispatch", "exited"}
  BY DEF Destroy, StopThread, Snapshot, ReceiveTimeout, ThreadExit, BackToTop, IInv, TypeOK,
     PumpTypeOK, Registered
<1>3. TypeOK'
  BY <1>1, <1>2 DEF IInv, TypeOK, ChannelTypeOK, PumpTypeOK
<1>4. LocalsOK'
  BY DEF Destroy, StopThread, Snapshot, ReceiveTimeout, ThreadExit, BackToTop, IInv, LocalsOK
<1>5. \A q \in Channels : q \in channel_names' => q \in channel_names \/ m_callbacks[q] # NoCallback
  BY DEF Destroy, StopThread, Snapshot, ReceiveTimeout, ThreadExit, BackToTop, Registered
<1>6. \A q \in Channels : SameChannel(q)
  BY <1>1, <1>5 DEF SameChannel, TasksOf
<1> QED BY <1>3, <1>4, <1>6, ChannelFrame DEF IInv

LEMMA ReceiveMessageOK ==
  ASSUME IInv, NEW c \in Channels, ReceiveMessage(c), UNCHANGED clientVars
  PROVE  IInv'
<1>1. /\ pc = "receive" /\ c \in channel_names /\ received = {}
      /\ UNCHANGED <<m_callbacks, m_thread_stop, tasks, added, replaced, removed, removals,
                     ran, sent, expired>>
  BY DEF ReceiveMessage, Blpop, clientVars, IInv, LocalsOK
<1>2. PICK i \in 1 .. MaxMessages :
          /\ Blpop(c, i)
          /\ IF i \in expired[c]
             THEN BackToTop
             ELSE /\ pc' = "dispatch"
                  /\ received' = {[channel |-> c, msg |-> i]}
                  /\ UNCHANGED channel_names
  BY DEF ReceiveMessage
<1>3. /\ popped[c] \in Nat /\ i \in Nat \ {0} /\ popped[c] < i
      /\ popped' = [popped EXCEPT ![c] = i]
      /\ popped[c] + 1 .. i - 1 \subseteq expired[c]
      /\ popped'[c] = i /\ \A q \in Channels : q # c => popped'[q] = popped[q]
  BY <1>2, ChannelLayerAssumption DEF Blpop, Unread, IInv, TypeOK, ChannelTypeOK
<1>4. TypeOK'
  BY <1>1, <1>2, <1>3 DEF BackToTop, IInv, TypeOK, ChannelTypeOK, PumpTypeOK
<1>5. LocalsOK'
  BY <1>1, <1>2, <1>3 DEF BackToTop, LocalsOK
<1>6. \A q : TasksOf(q)' = TasksOf(q)
  BY <1>1 DEF TasksOf
<1>7. channel_names' \subseteq channel_names
  BY <1>2 DEF BackToTop
<1>8. ASSUME NEW q \in Channels, q # c PROVE ChannelOK(q)'
  <2>1. \A d : d.channel = q => d \notin received'
    BY <1>2, <1>8 DEF BackToTop
  <2>2. SameChannel(q)
    BY <1>1, <1>3, <1>6, <1>7, <1>8, <2>1 DEF SameChannel
  <2> QED BY <2>2, ChannelFrame DEF IInv
<1>9. RegistrationOK(c)'
  BY <1>1, <1>6 DEF IInv, ChannelOK, RegistrationOK
<1>10. MessageOK(c)'
  <2>1. \A t \in TasksOf(c) : t.msg \in (1 .. popped[c]) \ expired[c]
    BY DEF IInv, ChannelOK, MessageOK
  <2>2. \A t \in TasksOf(c)' : t.msg \in ((1 .. popped[c]) \ expired[c])' /\ t.msg # i
    BY <1>1, <1>3, <1>6, <2>1
  <2>3. \A d \in received' : d.msg = i /\ i \notin expired[c]
    BY <1>2 DEF BackToTop
  <2>4. \A s, t \in TasksOf(c) : s.msg = t.msg => s = t
    BY DEF IInv, ChannelOK, MessageOK
  <2> QED BY <1>1, <1>3, <1>6, <2>2, <2>3, <2>4 DEF MessageOK, Fresh
<1>11. DropOK(c)'
  <2>1. Dropped(c)' \subseteq Dropped(c)
    <3> SUFFICES ASSUME NEW k \in Dropped(c)' PROVE k \in Dropped(c)
      OBVIOUS
    <3>1. /\ k \in 1 .. i /\ k \notin expired[c] /\ \A t \in TasksOf(c) : t.msg # k
          /\ \A d \in received' : <<d.channel, d.msg>> # <<c, k>>
      BY <1>1, <1>3, <1>6 DEF Dropped
    <3>2. k # i
      <4>1. CASE i \in expired[c]
        BY <3>1, <4>1
      <4>2. CASE i \notin expired[c]
        <5>1. [channel |-> c, msg |-> i] \in received'
          BY <1>2, <4>2
        <5>2. <<c, i>> # <<c, k>>
          BY <3>1, <5>1
        <5> QED BY <5>2
      <4> QED BY <4>1, <4>2
    <3>3. k \in 1 .. popped[c]
      BY <1>3, <3>1, <3>2
    <3> QED BY <1>1, <3>1, <3>3 DEF Dropped
  <2>2. Owed(c)' <= Owed(c) /\ Owed(c)' \in {0, 1}
    BY <1>1, <1>7 DEF Owed
  <2>3. Cardinality(Dropped(c)') <= Cardinality(Dropped(c)) /\ Cardinality(Dropped(c)') \in Nat
    BY <2>1, DroppedMonotonic DEF IInv
  <2>4. Cardinality(Dropped(c)) + Owed(c) <= removals[c] /\ removals' = removals
    BY <1>1 DEF IInv, ChannelOK, DropOK
  <2> QED BY <2>2, <2>3, <2>4, DroppedFinite DEF IInv, DropOK
<1> QED BY <1>4, <1>5, <1>8, <1>9, <1>10, <1>11 DEF IInv, ChannelOK

LEMMA DispatchOK ==
  ASSUME IInv, Dispatch, UNCHANGED clientVars
  PROVE  IInv'
<1>1. PICK c \in channel_names, i \in Nat \ {0} : received = {[channel |-> c, msg |-> i]}
  BY DEF Dispatch, IInv, LocalsOK
<1>2. c \in Channels
  BY DEF IInv, TypeOK, PumpTypeOK
<1> DEFINE d == [channel |-> c, msg |-> i]
           new == [channel |-> c, callback |-> m_callbacks[c], msg |-> i]
<1>3. /\ pc' = "top" /\ channel_names' = {} /\ received' = {}
      /\ UNCHANGED <<m_thread_stop, added, replaced, removed, removals, ran, sent, popped,
                     expired>>
  BY DEF Dispatch, BackToTop, clientVars, channelVars
<1>4. IF m_callbacks[c] # NoCallback
      THEN m_callbacks' = [m_callbacks EXCEPT ![c] = NoCallback] /\ tasks' = tasks \cup {new}
      ELSE UNCHANGED <<m_callbacks, tasks>>
  BY <1>1, <1>2 DEF Dispatch, Registered, Erase, Task
<1>5. /\ ChannelOK(c) /\ i \in (1 .. popped[c]) \ expired[c] /\ Fresh(c, i)
      /\ m_callbacks[c] \in Nat
  BY <1>1, <1>2 DEF IInv, ChannelOK, MessageOK, TypeOK, PumpTypeOK
<1>6. TypeOK' /\ LocalsOK'
  <2>1. m_callbacks[c] # NoCallback =>
           new \in [channel : Channels, callback : Nat \ {NoCallback}, msg : Nat \ {0}]
    BY <1>2, <1>5
  <2>2. m_callbacks' \in [Channels -> Nat]
    BY <1>4 DEF IInv, TypeOK, PumpTypeOK, NoCallback
  <2>3. tasks' \subseteq [channel : Channels, callback : Nat \ {NoCallback}, msg : Nat \ {0}]
    BY <1>4, <2>1 DEF IInv, TypeOK, PumpTypeOK
  <2>4. PumpTypeOK'
    BY <1>3, <2>2, <2>3 DEF IInv, TypeOK, PumpTypeOK
  <2>5. ChannelTypeOK'
    BY <1>3 DEF IInv, TypeOK, ChannelTypeOK
  <2>6. LocalsOK'
    BY <1>3 DEF LocalsOK
  <2> QED BY <1>3, <2>4, <2>5, <2>6 DEF IInv, TypeOK
<1>7. ASSUME NEW q \in Channels, q # c PROVE ChannelOK(q)'
  <2>1. TasksOf(q)' = TasksOf(q) /\ m_callbacks'[q] = m_callbacks[q]
    BY <1>3, <1>4, <1>7 DEF TasksOf, IInv, TypeOK, PumpTypeOK
  <2>2. SameChannel(q)
    BY <1>1, <1>3, <1>7, <2>1 DEF SameChannel
  <2> QED BY <2>2, ChannelFrame DEF IInv
<1>8. CASE m_callbacks[c] # NoCallback
  <2>1. /\ m_callbacks'[c] = NoCallback
        /\ TasksOf(c)' = TasksOf(c) \cup {new} /\ new.callback = m_callbacks[c] /\ new.msg = i
    BY <1>2, <1>3, <1>4, <1>8 DEF TasksOf, IInv, TypeOK, PumpTypeOK
  <2> HIDE DEF new
  <2>2. RegistrationOK(c)'
    <3>1. RegistrationOK(c) /\ added[c] \in Nat
      BY <1>2, <1>5 DEF ChannelOK, IInv, TypeOK
    <3> QED BY <1>3, <1>8, <2>1, <3>1 DEF RegistrationOK, NoCallback
  <2>3. MessageOK(c)'
    BY <1>3, <1>5, <2>1 DEF ChannelOK, MessageOK, Fresh
  <2>4. Dropped(c)' \subseteq Dropped(c)
    BY <1>1, <1>3, <2>1 DEF Dropped
  <2>5. Cardinality(Dropped(c)') <= Cardinality(Dropped(c)) /\ Cardinality(Dropped(c)') \in Nat
    BY <1>2, <2>4, DroppedMonotonic DEF IInv
  <2>6. Cardinality(Dropped(c)) + Owed(c) <= removals[c] /\ removals' = removals /\ Owed(c)' = 0
    BY <1>3, <1>5 DEF ChannelOK, DropOK, Owed
  <2>7. DropOK(c)'
    BY <1>2, <2>5, <2>6, DroppedFinite DEF IInv, DropOK
  <2> QED BY <1>6, <1>7, <2>2, <2>3, <2>7 DEF IInv, ChannelOK
<1>9. CASE m_callbacks[c] = NoCallback
  <2>1. m_callbacks' = m_callbacks /\ TasksOf(c)' = TasksOf(c)
    BY <1>3, <1>4, <1>9 DEF TasksOf
  <2>2. RegistrationOK(c)' /\ MessageOK(c)'
    BY <1>3, <1>5, <2>1 DEF ChannelOK, RegistrationOK, MessageOK
  <2>3. Dropped(c)' \subseteq Dropped(c) \cup {i}
    BY <1>1, <1>3, <2>1 DEF Dropped
  <2>4. Cardinality(Dropped(c)') <= Cardinality(Dropped(c)) + 1 /\ Cardinality(Dropped(c)') \in Nat
    <3>1. IsFiniteSet(Dropped(c)) /\ Cardinality(Dropped(c)) \in Nat
      BY <1>2, DroppedFinite DEF IInv
    <3>2. /\ IsFiniteSet(Dropped(c) \cup {i}) /\ Cardinality(Dropped(c) \cup {i}) \in Nat
          /\ Cardinality(Dropped(c) \cup {i}) <= Cardinality(Dropped(c)) + 1
      <4>1. /\ IsFiniteSet(Dropped(c) \cup {i})
            /\ Cardinality(Dropped(c) \cup {i})
                  = IF i \in Dropped(c) THEN Cardinality(Dropped(c))
                                        ELSE Cardinality(Dropped(c)) + 1
        BY <3>1, FS_AddElement
      <4> QED BY <3>1, <4>1
    <3>3. /\ Cardinality(Dropped(c)') <= Cardinality(Dropped(c) \cup {i})
          /\ Cardinality(Dropped(c)') \in Nat
      BY <2>3, <3>2, FS_Subset, FS_CardinalityType
    <3> QED BY <3>1, <3>2, <3>3
  <2>5. /\ Cardinality(Dropped(c)) + Owed(c) <= removals[c] /\ removals' = removals
        /\ Owed(c)' = 0 /\ Owed(c) = 1
    BY <1>3, <1>5, <1>9 DEF ChannelOK, DropOK, Owed
  <2>6. DropOK(c)'
    BY <1>2, <2>4, <2>5, DroppedFinite DEF IInv, DropOK
  <2> QED BY <1>6, <1>7, <2>2, <2>6 DEF IInv, ChannelOK
<1> QED BY <1>8, <1>9

LEMMA NextIInv == ASSUME IInv, [Next]_vars PROVE IInv'
<1>1. CASE UNCHANGED vars
  <2>1. TypeOK' /\ LocalsOK'
    BY <1>1 DEF IInv, TypeOK, ChannelTypeOK, PumpTypeOK, LocalsOK, vars, channelVars,
       pumpVars, clientVars
  <2>2. \A q \in Channels : SameChannel(q)
    BY <1>1 DEF SameChannel, TasksOf, vars, channelVars, pumpVars, clientVars
  <2> QED BY <2>1, <2>2, ChannelFrame DEF IInv
<1>2. CASE ThreadMain
  BY <1>2, QuietStepsOK, ReceiveMessageOK, DispatchOK DEF ThreadMain, PumpLoop
<1>3. CASE \E c \in Channels : ClientAdds(c) \/ ClientRemoves(c) \/ Producer(c)
  BY <1>3, ClientAddsOK, ClientRemovesOK, ProducerOK
<1>4. CASE Destroy
  <2>1. Destroy \/ ((Snapshot \/ ReceiveTimeout \/ ThreadExit) /\ UNCHANGED clientVars)
    BY <1>4
  <2> QED BY <2>1, QuietStepsOK
<1>5. CASE \E t \in tasks : RunTask(t)
  BY <1>5, RunTaskOK
<1> QED
  BY <1>1, <1>2, <1>3, <1>4, <1>5 DEF Next

\* The invariant everything else rests on.
THEOREM Invariance == Spec => []IInv
<1>1. Init => IInv
  BY InitIInv
<1>2. IInv /\ [Next]_vars => IInv'
  BY NextIInv
<1> QED BY <1>1, <1>2, PTL DEF Spec

\* The types of the pump's state and of its clients'.
THEOREM TypeCorrect == Spec => []TypeOK
<1>1. IInv => TypeOK
  BY DEF IInv
<1> QED BY <1>1, Invariance, PTL

\* No registration is forgotten, and none serves two messages.
THEOREM Fate == Spec => []RegistrationFate
<1>1. IInv => RegistrationFate
  <2> SUFFICES ASSUME IInv, NEW c \in Channels
               PROVE  /\ \A s, t \in TasksOf(c) : s.callback = t.callback => s = t
                      /\ \A id \in 1 .. added[c] : \E k \in 1 .. 4 : \A j \in 1 .. 4 :
                            id \in Fates(c)[j] <=> j = k
    BY DEF RegistrationFate
  <2>1. RegistrationOK(c) /\ added[c] \in Nat
    BY DEF IInv, ChannelOK, TypeOK
  <2>2. ASSUME NEW id \in 1 .. added[c]
        PROVE  \E k \in 1 .. 4 : \A j \in 1 .. 4 : id \in Fates(c)[j] <=> j = k
    <3> DEFINE called == {t.callback : t \in TasksOf(c)}
    <3>1. /\ Fates(c)[1] = Current(c) /\ Fates(c)[2] = replaced[c]
          /\ Fates(c)[3] = removed[c] /\ Fates(c)[4] = called
      BY DEF Fates
    <3>2. id \in Current(c) <=> id = m_callbacks[c]
      BY <2>1 DEF Current, NoCallback
    <3>3. \A j : j \in 1 .. 4 <=> j \in {1, 2, 3, 4}
      OBVIOUS
    <3>4. CASE id = m_callbacks[c]
      BY <2>1, <3>1, <3>2, <3>3, <3>4 DEF RegistrationOK
    <3>5. CASE id \in replaced[c]
      BY <2>1, <3>1, <3>2, <3>3, <3>5 DEF RegistrationOK
    <3>6. CASE id \in removed[c]
      BY <2>1, <3>1, <3>2, <3>3, <3>6 DEF RegistrationOK
    <3>7. CASE id \in called
      BY <2>1, <3>1, <3>2, <3>3, <3>7 DEF RegistrationOK
    <3> QED BY <2>1, <3>4, <3>5, <3>6, <3>7 DEF RegistrationOK
  <2> QED BY <2>1, <2>2 DEF RegistrationOK
<1> QED BY <1>1, Invariance, PTL

\* A message reaches one callback at most, and none after it has expired.
THEOREM FiresOnce == Spec => []MessageFiresOnce
<1>1. IInv => MessageFiresOnce
  BY DEF IInv, ChannelOK, MessageOK, MessageFiresOnce
<1> QED BY <1>1, Invariance, PTL

\* The pump drops no more messages of a channel than removals came for it.
THEOREM DropsPaidFor == Spec => []DropsOnlyForRemovals
<1>1. ASSUME IInv, NEW c \in Channels PROVE Cardinality(Dropped(c)) <= removals[c]
  <2>1. Cardinality(Dropped(c)) + Owed(c) <= removals[c]
    BY <1>1 DEF IInv, ChannelOK, DropOK
  <2>2. /\ Cardinality(Dropped(c)) \in Nat /\ Owed(c) \in {0, 1} /\ removals[c] \in Nat
    BY <1>1, DroppedFinite DEF IInv
  <2> QED BY <2>1, <2>2
<1>2. IInv => DropsOnlyForRemovals
  BY <1>1 DEF DropsOnlyForRemovals
<1> QED BY <1>2, Invariance, PTL

=============================================================================

---------------------------- MODULE ResponsePump ----------------------------
(***************************************************************************)
(* The response pump (AsgiHandlerLib/ResponsePump.cpp): one thread that    *)
(* polls the channel layer for every channel somebody has registered, and  *)
(* hands each message to the registered callback, once, on a task of the   *)
(* PPL scheduler.  AddChannel and RemoveChannel run on other threads and   *)
(* take m_callbacks_mutex; the pump holds it for the snapshot and for the  *)
(* lookup, but not while it is inside ReceiveMany, so the map may have     *)
(* changed in between.                                                     *)
(*                                                                         *)
(* A callback is the lambda a client passed in; what matters of it is the  *)
(* object it captured, so it is represented by that object's identity, a   *)
(* positive number chosen by the client.  NoCallback stands for "no entry".*)
(***************************************************************************)
EXTENDS ChannelLayer

VARIABLES
    m_callbacks,     \* [Channels -> Nat] the registered callback, or NoCallback
    m_thread_stop,   \* set by the destructor
    pc,              \* where the pump thread is
    channel_names,   \* the pump's snapshot of the registered channels
    received,        \* what ReceiveMany returned: empty for ("", "")
    tasks            \* callbacks handed to the PPL scheduler, not yet run

pumpVars == <<m_callbacks, m_thread_stop, pc, channel_names, received, tasks>>

NoCallback == 0

Registered == {c \in Channels : m_callbacks[c] # NoCallback}

PumpTypeOK ==
    /\ m_callbacks \in [Channels -> Nat]
    /\ m_thread_stop \in BOOLEAN
    /\ pc \in {"top", "receive", "dispatch", "exited"}
    /\ channel_names \subseteq Channels
    /\ received \subseteq [channel : Channels, msg : Nat \ {0}]
    /\ tasks \subseteq [channel : Channels, callback : Nat \ {NoCallback},
                        msg : Nat \ {0}]

PumpInit ==
    /\ m_callbacks = [c \in Channels |-> NoCallback]
    /\ m_thread_stop = FALSE
    /\ pc = "top"
    /\ channel_names = {}
    /\ received = {}
    /\ tasks = {}

-----------------------------------------------------------------------------
(* What other threads do to the pump. *)

\* AddChannel overwrites whatever was registered for the channel.
AddChannel(c, callback) ==
    /\ m_callbacks' = [m_callbacks EXCEPT ![c] = callback]
    /\ UNCHANGED <<m_thread_stop, pc, channel_names, received, tasks>>

\* Mutant of Erase: the entry stays in the map.
EraseNothing(c) == UNCHANGED m_callbacks

\* m_callbacks.erase()
Erase(c) == m_callbacks' = [m_callbacks EXCEPT ![c] = NoCallback]

RemoveChannel(c) ==
    /\ Erase(c)
    /\ UNCHANGED <<m_thread_stop, pc, channel_names, received, tasks>>

\* The destructor's first statement; the join that follows is in the caller.
StopThread ==
    /\ m_thread_stop' = TRUE
    /\ UNCHANGED <<m_callbacks, pc, channel_names, received, tasks>>

\* The scheduler is done with task t.
TaskDone(t) ==
    /\ tasks' = tasks \ {t}
    /\ UNCHANGED <<m_callbacks, m_thread_stop, pc, channel_names, received>>

-----------------------------------------------------------------------------
(* ThreadMain. *)

\* Mutant of BackToTop: polls again with the old snapshot.
BackToTopWithOldNames ==
    /\ pc' = IF channel_names = {} THEN "top" ELSE "receive"
    /\ received' = {}
    /\ UNCHANGED channel_names

\* Back to the while condition; the locals of the loop body are gone.
BackToTop ==
    /\ pc' = "top"
    /\ channel_names' = {}
    /\ received' = {}

\* Under the lock: copy the keys of m_callbacks.  With no key the thread sleeps
\* and tries again.
Snapshot ==
    /\ pc = "top"
    /\ ~m_thread_stop
    /\ channel_names' = Registered
    /\ pc' = IF Registered = {} THEN "top" ELSE "receive"
    /\ UNCHANGED <<m_callbacks, m_thread_stop, received, tasks, channelVars>>

\* ReceiveMany answers: BLPOP takes an entry of any of the channels (the names are
\* shuffled first), GET reads its data key, and an expired key is answered like a
\* timeout.
ReceiveMessage(c) ==
    /\ pc = "receive"
    /\ c \in channel_names
    /\ \E i \in 1 .. MaxMessages :
          /\ Blpop(c, i)
          /\ IF i \in expired[c]
             THEN BackToTop
             ELSE /\ pc' = "dispatch"
                  /\ received' = {[channel |-> c, msg |-> i]}
                  /\ UNCHANGED channel_names
    /\ UNCHANGED <<m_callbacks, m_thread_stop, tasks>>

\* Mutant of ReceiveTimeout: BLPOP without a timeout.
ReceiveTimeoutNever == FALSE

\* ReceiveMany answers ("", ""): nothing came within the timeout of BLPOP.
ReceiveTimeout ==
    /\ pc = "receive"
    /\ \A c \in channel_names : ~Waiting(c)
    /\ BackToTop
    /\ UNCHANGED <<m_callbacks, m_thread_stop, tasks, channelVars>>

\* Mutant of Task: reads the callback after erasing it.
TaskAfterErase(d) ==
    [channel |-> d.channel, callback |-> m_callbacks'[d.channel], msg |-> d.msg]

\* The task that will call the registered callback with the message.
Task(d) ==
    [channel |-> d.channel, callback |-> m_callbacks[d.channel], msg |-> d.msg]

\* Under the lock again: find, copy and erase the callback and create its task; a
\* message without a callback is dropped.
Dispatch ==
    /\ pc = "dispatch"
    /\ \E d \in received :
          IF d.channel \in Registered
          THEN Erase(d.channel) /\ tasks' = tasks \cup {Task(d)}
          ELSE UNCHANGED <<m_callbacks, tasks>>
    /\ BackToTop
    /\ UNCHANGED <<m_thread_stop, channelVars>>

\* The while condition fails.
ThreadExit ==
    /\ pc = "top"
    /\ m_thread_stop
    /\ pc' = "exited"
    /\ UNCHANGED <<m_callbacks, m_thread_stop, channel_names, received, tasks, channelVars>>

\* What the thread does while nobody destroys the pump.
PumpLoop ==
    \/ Snapshot
    \/ \E c \in Channels : ReceiveMessage(c)
    \/ ReceiveTimeout
    \/ Dispatch

=============================================================================

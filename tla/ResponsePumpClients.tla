------------------------ MODULE ResponsePumpClients ------------------------
(***************************************************************************)
(* The response pump among clients that use its whole interface            *)
(* (ResponsePump.h): they register, overwrite and remove callbacks at any  *)
(* time, from any thread, and the owner destroys the pump.  This is what   *)
(* the pump promises on its own, whoever uses it; HttpRequestHandler is    *)
(* the one client it really has, and the WebSocket writer the other.       *)
(*                                                                         *)
(* Registrations of a channel are numbered in the order of their           *)
(* AddChannel calls, and the number is the callback.                       *)
(***************************************************************************)
EXTENDS ResponsePump, FiniteSets

CONSTANT MaxRegistrations   \* bound: AddChannel calls per channel

ASSUME RegistrationsAssumption == MaxRegistrations \in Nat

VARIABLES
    added,      \* [Channels -> Nat] the AddChannel calls so far
    replaced,   \* [Channels -> SUBSET Nat] registrations that were overwritten
    removed,    \* [Channels -> SUBSET Nat] registrations RemoveChannel took out
    removals,   \* [Channels -> Nat] the RemoveChannel calls so far
    ran         \* the tasks the scheduler has run

clientVars == <<added, replaced, removed, removals, ran>>
vars == <<channelVars, pumpVars, clientVars>>

TypeOK ==
    /\ ChannelTypeOK
    /\ PumpTypeOK
    /\ added \in [Channels -> Nat]
    /\ replaced \in [Channels -> SUBSET Nat]
    /\ removed \in [Channels -> SUBSET Nat]
    /\ removals \in [Channels -> Nat]
    /\ ran \subseteq [channel : Channels, callback : Nat, msg : Nat]

Init ==
    /\ ChannelInit
    /\ PumpInit
    /\ added = [c \in Channels |-> 0]
    /\ replaced = [c \in Channels |-> {}]
    /\ removed = [c \in Channels |-> {}]
    /\ removals = [c \in Channels |-> 0]
    /\ ran = {}

-----------------------------------------------------------------------------

\* Nobody calls a pump that is being destroyed.
Usable == ~m_thread_stop

\* The registration c has now, as a set.
Current(c) == {m_callbacks[c]} \ {NoCallback}

ClientAdds(c) ==
    /\ Usable
    /\ added[c] < MaxRegistrations
    /\ added' = [added EXCEPT ![c] = @ + 1]
    /\ AddChannel(c, added[c] + 1)
    /\ replaced' = [replaced EXCEPT ![c] = @ \cup Current(c)]
    /\ UNCHANGED <<channelVars, removed, removals, ran>>

ClientRemoves(c) ==
    /\ Usable
    /\ removals[c] < MaxRegistrations
    /\ RemoveChannel(c)
    /\ removed' = [removed EXCEPT ![c] = @ \cup Current(c)]
    /\ removals' = [removals EXCEPT ![c] = @ + 1]
    /\ UNCHANGED <<channelVars, added, replaced, ran>>

Destroy == Usable /\ StopThread /\ UNCHANGED <<channelVars, clientVars>>

RunTask(t) ==
    /\ TaskDone(t)
    /\ ran' = ran \cup {t}
    /\ UNCHANGED <<channelVars, added, replaced, removed, removals>>

Producer(c) ==
    /\ \/ \E m \in Payloads : Send(c, m)
       \/ \E i \in 1 .. MaxMessages : Expire(c, i)
    /\ UNCHANGED <<pumpVars, clientVars>>

\* The pump thread, ThreadMain() from start to end.
ThreadMain == (PumpLoop \/ ThreadExit) /\ UNCHANGED clientVars

Next ==
    \/ \E c \in Channels : ClientAdds(c) \/ ClientRemoves(c) \/ Producer(c)
    \/ Destroy
    \/ \E t \in tasks : RunTask(t)
    \/ ThreadMain

Spec == Init /\ [][Next]_vars

\* The operating system runs the pump's thread.
FairSpec == Spec /\ WF_vars(ThreadMain)

-----------------------------------------------------------------------------

\* The tasks ever created for channel c.
TasksOf(c) == {t \in tasks \cup ran : t.channel = c}

\* What can have become of a registration of channel c.
Fates(c) == <<Current(c), replaced[c], removed[c], {t.callback : t \in TasksOf(c)}>>

\* A callback is called for one message at most (the erase next to the create_task,
\* ResponsePump.cpp:74-83), and a registration is never forgotten: it is in the map,
\* overwritten, removed, or its callback has been handed to the scheduler, and only
\* one of these, however AddChannel and RemoveChannel fall between the pump's two
\* critical sections.
RegistrationFate ==
    \A c \in Channels :
        /\ \A s, t \in TasksOf(c) : s.callback = t.callback => s = t
        /\ \A id \in 1 .. added[c] :
              \E k \in 1 .. 4 : \A j \in 1 .. 4 : id \in Fates(c)[j] <=> j = k

\* The messages of c the pump took from Redis and threw away.
Dropped(c) ==
    {i \in 1 .. popped[c] :
        /\ i \notin expired[c]
        /\ \A d \in received : <<d.channel, d.msg>> # <<c, i>>
        /\ \A t \in TasksOf(c) : t.msg # i}

\* The pump throws a message away only for a RemoveChannel that came while it was
\* inside ReceiveMany ("Assume the request has since been closed",
\* ResponsePump.cpp:75-77), at most one message each.
DropsOnlyForRemovals ==
    \A c \in Channels : Cardinality(Dropped(c)) <= removals[c]

\* No message is handed to two callbacks, and none whose data had expired to any
\* (BLPOP takes the entry, GET answers NIL, RedisChannelLayer.cpp:74-93).
MessageFiresOnce ==
    \A c \in Channels :
        /\ \A s, t \in TasksOf(c) : s.msg = t.msg => s = t
        /\ \A t \in TasksOf(c) : t.msg \in (1 .. popped[c]) \ expired[c]

\* The destructor's join returns (ResponsePump.cpp:17-24): the pump notices
\* m_thread_stop whatever it is doing, though nothing wakes it inside BLPOP.
DestructorReturns == m_thread_stop ~> pc = "exited"

=============================================================================

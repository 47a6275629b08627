-------------------------- MODULE RedisChannelLayer --------------------------
(***************************************************************************)
(* The channel layer at the commands it is made of                         *)
(* (AsgiHandlerLib/RedisChannelLayer.cpp).  Send() runs four commands, one *)
(* after the other, and looks at no reply; ReceiveMany() runs a BLPOP and  *)
(* a GET.  Redis executes single commands atomically and those of several  *)
(* threads and processes in any order; in between, keys expire.            *)
(*                                                                         *)
(* A message is known by its data key, a random name nobody else uses, so  *)
(* each key stands for one call of Send().  A call whose process ends or   *)
(* whose connection is lost executes no further command: it simply takes   *)
(* no more steps.  (With the connection lost the call returns all the same,*)
(* and so does every later one; its caller cannot tell.)                   *)
(***************************************************************************)
EXTENDS Naturals, SequencesExt

CONSTANTS
    Channels,     \* the channels, each of them a list in Redis
    DataKeys,     \* bound: the messages that are ever sent
    m_expiry,     \* seconds a message is kept (60)
    Margin        \* seconds by which a list is kept longer (10)

ASSUME RedisAssumption ==
    /\ m_expiry \in Nat \ {0}
    /\ Margin \in Nat
    /\ IsFiniteSet(DataKeys)

VARIABLES
    step,       \* [DataKeys -> the command the Send of this message runs next]
    target,     \* [DataKeys -> Channels] the channel argument of that Send
    ttl,        \* [DataKeys -> Nat] seconds left, Absent or Forever
    list,       \* [Channels -> Seq(DataKeys)] the lists
    list_ttl,   \* [Channels -> Nat] the same for the lists
    receiver,   \* where ReceiveMany is, or "crashed"
    taken,      \* the entry it took from a list and has not looked up, as a set
    pushed,     \* history: everything ever pushed to a list
    read,       \* history: [Channels -> Nat] the last entry looked up
    got         \* history: the messages ReceiveMany has returned

sendVars == <<step, target>>
receiveVars == <<receiver, taken, read, got>>
vars == <<sendVars, ttl, list, list_ttl, pushed, receiveVars>>

Absent == 0
Forever == m_expiry + Margin + 1   \* a key nobody has called EXPIRE for

TypeOK ==
    /\ step \in [DataKeys -> {"SET", "EXPIRE key", "RPUSH", "EXPIRE list", "done"}]
    /\ target \in [DataKeys -> Channels]
    /\ ttl \in [DataKeys -> 0 .. m_expiry \cup {Forever}]
    /\ list \in [Channels -> Seq(DataKeys)]
    /\ list_ttl \in [Channels -> 0 .. m_expiry + Margin \cup {Forever}]
    /\ receiver \in {"BLPOP", "GET", "crashed"}
    /\ taken \subseteq DataKeys
    /\ pushed \in [Channels -> Seq(DataKeys)]
    /\ read \in [Channels -> Nat]
    /\ got \subseteq DataKeys

Init ==
    /\ step = [k \in DataKeys |-> "SET"]
    /\ target \in [DataKeys -> Channels]
    /\ ttl = [k \in DataKeys |-> Absent]
    /\ list = [c \in Channels |-> <<>>]
    /\ list_ttl = [c \in Channels |-> Absent]
    /\ receiver = "BLPOP"
    /\ taken = {}
    /\ pushed = [c \in Channels |-> <<>>]
    /\ read = [c \in Channels |-> 0]
    /\ got = {}

-----------------------------------------------------------------------------
(* Send(). *)

\* The Send of k is at `command' and goes on to the next one.
Command(k, command, next) ==
    /\ step[k] = command
    /\ step' = [step EXCEPT ![k] = next]
    /\ UNCHANGED <<target, receiveVars>>

SetData(k) ==
    /\ Command(k, "SET", "EXPIRE key")
    /\ ttl' = [ttl EXCEPT ![k] = Forever]
    /\ UNCHANGED <<list, list_ttl, pushed>>

\* Mutant of DataTtl: the list's expiry.
DataTtlOfList == m_expiry + Margin

\* Mutant of DataTtl: no EXPIRE.
DataTtlNone == Forever

DataTtl == m_expiry

ExpireData(k) ==
    /\ Command(k, "EXPIRE key", "RPUSH")
    /\ ttl' = [ttl EXCEPT ![k] = IF @ = Absent THEN Absent ELSE DataTtl]
    /\ UNCHANGED <<list, list_ttl, pushed>>

\* Mutant of Pushed: LPUSH.
PushedLeft(entries, k) == <<k>> \o entries

Pushed(entries, k) == Append(entries, k)

\* RPUSH creates the list if there is none, without an expiry.  Environment: a Send is
\* not held up between two commands for as long as a message is kept.
Rpush(k) ==
    LET c == target[k] IN
    /\ Command(k, "RPUSH", "EXPIRE list")
    /\ ttl[k] # Absent
    /\ list' = [list EXCEPT ![c] = Pushed(@, k)]
    /\ list_ttl' = [list_ttl EXCEPT ![c] = IF @ = Absent THEN Forever ELSE @]
    /\ pushed' = [pushed EXCEPT ![c] = Append(@, k)]
    /\ UNCHANGED ttl

\* Mutant of ListTtl: only a list that has no expiry yet gets one.
ListTtlOnce(left) == IF left = Forever THEN m_expiry + Margin ELSE left

ListTtl(left) == m_expiry + Margin

\* EXPIRE on the list bumps whatever expiry it had; on a missing key it does nothing.
ExpireList(k) ==
    LET c == target[k] IN
    /\ Command(k, "EXPIRE list", "done")
    /\ list_ttl' = [list_ttl EXCEPT ![c] = IF @ = Absent THEN Absent ELSE ListTtl(@)]
    /\ UNCHANGED <<ttl, list, pushed>>

Send(k) == SetData(k) \/ ExpireData(k) \/ Rpush(k) \/ ExpireList(k)

-----------------------------------------------------------------------------
(* ReceiveMany(). *)

\* BLPOP takes the head of one of the lists; Redis drops a list with its last entry.
Blpop(c) ==
    /\ receiver = "BLPOP"
    /\ list[c] # <<>>
    /\ receiver' = "GET"
    /\ taken' = {Head(list[c])}
    /\ list' = [list EXCEPT ![c] = Tail(@)]
    /\ list_ttl' = [list_ttl EXCEPT ![c] = IF Len(list[c]) = 1 THEN Absent ELSE @]
    /\ UNCHANGED <<sendVars, ttl, pushed, read, got>>

\* GET reads the data key, which may be gone: the message, or ("", "") and no second try.
Get ==
    /\ receiver = "GET"
    /\ \E k \in taken : LET c == target[k] IN
          /\ read' = [read EXCEPT ![c] = CHOOSE i \in DOMAIN pushed[c] : pushed[c][i] = k]
          /\ got' = IF ttl[k] = Absent THEN got ELSE got \cup {k}
    /\ receiver' = "BLPOP"
    /\ taken' = {}
    /\ UNCHANGED <<sendVars, ttl, list, list_ttl, pushed>>

\* The receiver's connection is lost, at either command: the null reply is dereferenced.
ReceiverCrash ==
    /\ receiver # "crashed"
    /\ receiver' = "crashed"
    /\ taken' = {}
    /\ UNCHANGED <<sendVars, ttl, list, list_ttl, pushed, read, got>>

ReceiveMany == (\E c \in Channels : Blpop(c)) \/ Get

-----------------------------------------------------------------------------
(* Redis. *)

OneSecondLess(left) == IF left \in {Absent, Forever} THEN left ELSE left - 1

\* A second passes; what has run out is gone, a list with all its entries.
Tick ==
    /\ ttl' = [k \in DataKeys |-> OneSecondLess(ttl[k])]
    /\ list_ttl' = [c \in Channels |-> OneSecondLess(list_ttl[c])]
    /\ list' = [c \in Channels |-> IF list_ttl[c] = 1 THEN <<>> ELSE list[c]]
    /\ UNCHANGED <<sendVars, receiveVars, pushed>>

Next ==
    \/ \E k \in DataKeys : Send(k)
    \/ ReceiveMany
    \/ ReceiverCrash
    \/ Tick

Spec == Init /\ [][Next]_vars

\* Time passes.
FairSpec == Spec /\ WF_vars(Tick)

-----------------------------------------------------------------------------

\* The messages of c that are lost to its reader: not returned, and their data or their
\* entry is gone.
Lost(c) ==
    {i \in 1 .. Len(pushed[c]) :
        LET k == pushed[c][i] IN
        /\ k \notin got
        /\ ttl[k] = Absent \/ k \notin ToSet(list[c]) \cup taken}

C == INSTANCE ChannelLayer WITH
         Payloads <- DataKeys, MaxMessages <- Cardinality(DataKeys),
         sent <- pushed, popped <- read, expired <- [c \in Channels |-> Lost(c)]

\* The commands implement the channel layer that the handlers and the pump rely on: a
\* message is there from its RPUSH on, is returned once, in order, and is lost only by
\* expiry, although data and entry are two keys with an expiry each and both calls are
\* interrupted by any number of others (RedisChannelLayer.cpp:36-98).
ChannelLayerRefinement == C!ChannelSpec

\* An entry leaves a list when it is taken, or not before its data is gone: "Subsequent
\* Send()s will bump this expiry up" (RedisChannelLayer.cpp:44-46), so the list outlives
\* its messages.  The one exception is an entry pushed onto an old list that runs out
\* before its own Send has come to the EXPIRE.
ListOutlivesItsMessages ==
    [][\A c \in Channels : \A k \in ToSet(list[c]) \ ToSet(list[c])' :
          k \in taken' \/ ttl'[k] = Absent \/ step[k] = "EXPIRE list"]_vars

\* Nothing stays in Redis for good whoever reads or does not read it
\* (RedisChannelLayer.cpp:38-49), but for what a Send left behind that was cut off
\* between a SET or an RPUSH and its EXPIRE.
NothingStaysForever ==
    <>[](/\ \A k \in DataKeys : ttl[k] # Absent => step[k] = "EXPIRE key"
         /\ \A c \in Channels : list[c] # <<>> =>
               \E k \in DataKeys : target[k] = c /\ step[k] = "EXPIRE list")

=============================================================================

---------------------------- MODULE ChannelLayer ----------------------------
(***************************************************************************)
(* The channel layer: named FIFO channels kept in Redis, through which the *)
(* module hands requests to the application and the application hands its  *)
(* reply messages back (AsgiHandlerLib/ChannelLayer.h and                  *)
(* RedisChannelLayer.cpp).                                                 *)
(*                                                                         *)
(* A channel is immutable history plus a read index: sent[c] is everything *)
(* ever pushed to c, and popped[c] the last message BLPOP has taken.  What *)
(* is pushed is only the name of a data key, which expires on its own, and *)
(* the list of the channel expires too.  expired[c] has the messages that  *)
(* were lost unread either way: with the data key the entry stays, BLPOP   *)
(* takes it and GET finds nothing; with the list the entry is gone, and    *)
(* BLPOP finds a later one or none.                                        *)
(*                                                                         *)
(* RedisChannelLayer has the commands behind these operations, and is      *)
(* shown to implement ChannelSpec.                                         *)
(***************************************************************************)
EXTENDS Naturals, Sequences

CONSTANTS
    Channels,     \* the reply channels NewChannel() hands out
    Payloads,     \* what a reply message can say, as far as anyone looks
    MaxMessages   \* bound: messages ever sent on one channel

ASSUME ChannelLayerAssumption == MaxMessages \in Nat

VARIABLES
    sent,      \* [Channels -> Seq(Payloads)] everything pushed
    popped,    \* [Channels -> Nat] the last message BLPOP has taken
    expired    \* [Channels -> SUBSET Nat] messages lost before they were read

channelVars == <<sent, popped, expired>>

ChannelTypeOK ==
    /\ sent \in [Channels -> Seq(Payloads)]
    /\ popped \in [Channels -> Nat]
    /\ expired \in [Channels -> SUBSET Nat]

ChannelInit ==
    /\ sent = [c \in Channels |-> <<>>]
    /\ popped = [c \in Channels |-> 0]
    /\ expired = [c \in Channels |-> {}]

-----------------------------------------------------------------------------

\* SET, EXPIRE, RPUSH, EXPIRE: the message exists for a reader from the RPUSH on.
Send(c, m) ==
    /\ Len(sent[c]) < MaxMessages
    /\ sent' = [sent EXCEPT ![c] = Append(@, m)]
    /\ UNCHANGED <<popped, expired>>

\* The messages of c that BLPOP has not taken.
Unread(c) == popped[c] + 1 .. Len(sent[c])

\* BLPOP cannot but find an entry on c's list.
Waiting(c) == Unread(c) \ expired[c] # {}

\* Mutant of Blpop: reads the entry and leaves it there.
BlpopPeeks(c, i) == i \in Unread(c) /\ UNCHANGED channelVars

\* BLPOP takes message i of c, the head of the list: what stood before it is gone.
Blpop(c, i) ==
    /\ i \in Unread(c)
    /\ popped[c] + 1 .. i - 1 \subseteq expired[c]
    /\ popped' = [popped EXCEPT ![c] = i]
    /\ UNCHANGED <<sent, expired>>

\* Redis drops the data key of message i before anyone has read it, or the list with
\* its entry.  (Expiry after the GET changes nothing, and between BLPOP and GET it is
\* the same to the reader as just before the BLPOP.)
Expire(c, i) ==
    /\ i \in Unread(c)
    /\ i \notin expired[c]
    /\ expired' = [expired EXCEPT ![c] = @ \cup {i}]
    /\ UNCHANGED <<sent, popped>>

-----------------------------------------------------------------------------
(* The layer on its own: what its users may rely on. *)

\* Any number of messages expire in one moment, as a list does with its entries.
Expiry ==
    /\ expired' \in [Channels -> SUBSET (1 .. MaxMessages)]
    /\ \A c \in Channels :
          expired[c] \subseteq expired'[c] /\ expired'[c] \subseteq expired[c] \cup Unread(c)
    /\ UNCHANGED <<sent, popped>>

ChannelNext ==
    \/ \E c \in Channels, m \in Payloads : Send(c, m)
    \/ \E c \in Channels, i \in 1 .. MaxMessages : Blpop(c, i)
    \/ Expiry

ChannelSpec == ChannelInit /\ [][ChannelNext]_channelVars

=============================================================================

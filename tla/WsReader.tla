------------------------------ MODULE WsReader ------------------------------
(***************************************************************************)
(* The receive buffer of a WebSocket's reader (AsgiHandlerLib/WsReader.cpp *)
(* and AsgiWsReceiveMsg.h): fragments are read into it until one is the    *)
(* last of its message, which is then sent and the buffer reset.           *)
(*                                                                         *)
(* One reader at a time (module WsConnection says when that is so).  A     *)
(* ReadFragment() that completes at once and one that completes later end  *)
(* in the same ReadAsyncComplete() and the same next read, so they are one *)
(* action.  The order field is in WsConnection; utf8 and close are stored  *)
(* or ignored by the code and nothing depends on them.                     *)
(*                                                                         *)
(* Byte p of the client's message i is <<i, p>>.                           *)
(***************************************************************************)
EXTENDS Integers, Sequences

CONSTANTS
    BUFFER_CHUNK_SIZE,
    BUFFER_CHUNK_INCREASE_THRESHOLD,
    MaxMessages,    \* bound: messages of the client, and one more of a broken connection
    MaxFragments,   \* bound: fragments of a message
    MaxBuffer       \* bound: the buffer size up to which failing reads are followed

ASSUME ReaderAssumption ==
    /\ BUFFER_CHUNK_SIZE \in Nat \ {0}
    /\ BUFFER_CHUNK_INCREASE_THRESHOLD \in 0 .. BUFFER_CHUNK_SIZE
    /\ MaxMessages \in Nat
    /\ MaxFragments \in Nat
    /\ MaxBuffer \in Nat

Byte == Nat \X Nat

\* What a vector's new elements hold.
Zero == <<0, 0>>

\* What is behind the end of a vector.
Outside == <<0, 1>>

VARIABLES
    data,            \* m_msg.data
    data_size,       \* m_msg.data_size
    arrived,         \* bytes of the current message that the client's side has delivered
    fragments,       \* and in how many fragments
    client,          \* Seq([length, fragments]): the messages the client sent
    to_application,  \* Seq(Seq(Byte)): the messages sent to websocket.receive
    failed           \* whether the connection is broken: every read fails

vars == <<data, data_size, arrived, fragments, client, to_application, failed>>

ClientMessage == [length : Nat, fragments : Nat \ {0}]

TypeOK ==
    /\ data \in Seq(Byte)
    /\ Len(data) >= BUFFER_CHUNK_SIZE
    /\ data_size \in Nat
    /\ arrived \in Nat
    /\ fragments \in Nat
    /\ client \in Seq(ClientMessage)
    /\ to_application \in Seq(Seq(Byte))
    /\ failed \in BOOLEAN

\* vector::resize()
Resized(d, n) == [p \in 1 .. n |-> IF p <= Len(d) THEN d[p] ELSE Zero]

Init ==
    /\ data = Resized(<<>>, BUFFER_CHUNK_SIZE)
    /\ data_size = 0
    /\ arrived = 0
    /\ fragments = 0
    /\ client = <<>>
    /\ to_application = <<>>
    /\ failed = FALSE

\* ReadFragment() is given the start of the buffer.
Filled(n) ==
    [p \in 1 .. Len(data) |->
        IF p <= n THEN <<Len(client) + 1, arrived + p>> ELSE data[p]]

\* Mutant of NewSize: the count of the last fragment only.
NewSizeOfFragment(n) == n

NewSize(n) == data_size + n

\* Mutant of Grown: room is made in front of every read.
GrownAlways(d, size) == Resized(d, Len(d) + BUFFER_CHUNK_SIZE)

\* The buffer when size bytes of an unfinished message are counted.
Grown(d, size) ==
    IF size >= Len(d) - BUFFER_CHUNK_INCREASE_THRESHOLD
    THEN Resized(d, Len(d) + BUFFER_CHUNK_SIZE)
    ELSE d

\* The body packed: size bytes from the start of the buffer, whatever its size.  Reading
\* past the end may also end the process, and then nothing more happens.
Packed(d, size) == [p \in 1 .. size |-> IF p <= Len(d) THEN d[p] ELSE Outside]

\* Mutant of Reset: the count goes on.
ResetBufferOnly(d) ==
    /\ data' = Resized(d, BUFFER_CHUNK_SIZE)
    /\ UNCHANGED data_size

\* Mutant of Reset: the buffer is emptied.
ResetToEmpty(d) ==
    /\ data' = Resized(d, 0)
    /\ data_size' = 0

\* For the next message.
Reset(d) ==
    /\ data' = Resized(d, BUFFER_CHUNK_SIZE)
    /\ data_size' = 0

SendToApplication(d, size) ==
    /\ to_application' = Append(to_application, Packed(d, size))
    /\ Reset(d)

\* n bytes of a message that goes on.
ReadPart(n) ==
    /\ ~failed
    /\ Len(client) < MaxMessages
    /\ fragments + 1 < MaxFragments
    /\ data_size' = NewSize(n)
    /\ data' = Grown(Filled(n), NewSize(n))
    /\ arrived' = arrived + n
    /\ fragments' = fragments + 1
    /\ UNCHANGED <<client, to_application, failed>>

\* The last n bytes of a message.
ReadFinal(n) ==
    /\ ~failed
    /\ Len(client) < MaxMessages
    /\ client' = Append(client, [length |-> arrived + n, fragments |-> fragments + 1])
    /\ SendToApplication(Filled(n), NewSize(n))
    /\ arrived' = 0
    /\ fragments' = 0
    /\ UNCHANGED failed

\* A read of a broken connection: the error is logged, and n, the count the caller
\* passed or none, is counted like a fragment.
ReadFails(n) ==
    /\ Len(data) <= MaxBuffer
    /\ failed' = TRUE
    /\ data_size' = NewSize(n)
    /\ data' = Grown(data, NewSize(n))
    /\ UNCHANGED <<arrived, fragments, client, to_application>>

\* One that completes later may come with an error and yet be marked final: what is
\* counted then is sent all the same.
ReadFailsFinal(n) ==
    /\ Len(to_application) <= MaxMessages
    /\ failed' = TRUE
    /\ SendToApplication(data, NewSize(n))
    /\ UNCHANGED <<arrived, fragments, client>>

Next ==
    \/ \E n \in 0 .. Len(data) : ReadPart(n)
    \/ \E n \in 0 .. Len(data) : ReadFinal(n)
    \/ \E n \in {0, Len(data)} : ReadFails(n) \/ ReadFailsFinal(n)

Spec == Init /\ [][Next]_vars

-----------------------------------------------------------------------------

\* A message the client's side delivers in one fragment reaches the application whole,
\* whatever an earlier, longer message has left in the buffer.
UnfragmentedMessagesWhole ==
    \A i \in 1 .. Len(client) :
        client[i].fragments = 1 =>
            to_application[i] = [p \in 1 .. client[i].length |-> <<i, p>>]

\* "`data_size` contains the true size of the message" (AsgiWsReceiveMsg.h:22): it does,
\* also of the message being read unless the connection broke, and the body sent is
\* that long.  Bodies that are not a message of the client's are sent only when reads
\* fail, and after all of the client's.
DataSizeIsTrue ==
    /\ ~failed => data_size = arrived /\ Len(to_application) = Len(client)
    /\ Len(client) <= Len(to_application)
    /\ \A i \in 1 .. Len(client) : Len(to_application[i]) = client[i].length

\* However a message is cut up, and even when reads fail, the buffer is never larger
\* than what has been counted by more than a chunk and the threshold (the comment at
\* AsgiWsReceiveMsg.h:20-22 has a chunk).
BufferIsBounded ==
    Len(data) <= data_size + BUFFER_CHUNK_SIZE + BUFFER_CHUNK_INCREASE_THRESHOLD

\* websocket.receive carries what the client sent: "WsReader reads messages from a
\* WebSocket and sends them to the channels layer" (WsReader.cpp:1).
MessagesWhole ==
    \A i \in 1 .. Len(client) :
        to_application[i] = [p \in 1 .. client[i].length |-> <<i, p>>]

=============================================================================

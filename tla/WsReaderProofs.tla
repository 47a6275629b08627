--------------------------- MODULE WsReaderProofs ---------------------------
(***************************************************************************)
(* What module WsReader keeps true for every chunk size and threshold, any *)
(* number of messages, and any way of cutting them up.                     *)
(***************************************************************************)
EXTENDS WsReader, TLAPS

\* What is known of the message being read: it has no bytes before its first fragment.
FirstFragment == fragments = 0 => arrived = 0

\* The inductive invariant.
IInv ==
    /\ TypeOK
    /\ FirstFragment
    /\ DataSizeIsTrue
    /\ UnfragmentedMessagesWhole
    /\ BufferIsBounded

-----------------------------------------------------------------------------
(* The buffer. *)

\* resize() gives a buffer of that many bytes and keeps the ones it had.
LEMMA ResizedBuffer ==
    ASSUME NEW d \in Seq(Byte), NEW n \in Nat
    PROVE  /\ Resized(d, n) \in Seq(Byte)
           /\ Len(Resized(d, n)) = n
<1>1. Zero \in Byte
    BY DEF Zero, Byte
<1>2. Resized(d, n) \in [1 .. n -> Byte]
    BY <1>1 DEF Resized
<1> QED
    BY <1>2

\* Growing never shrinks the buffer, and stays within a chunk and the threshold of what
\* is counted.
LEMMA GrownBuffer ==
    ASSUME NEW d \in Seq(Byte), NEW size \in Nat,
           Len(d) <= size + BUFFER_CHUNK_SIZE + BUFFER_CHUNK_INCREASE_THRESHOLD
    PROVE  /\ Grown(d, size) \in Seq(Byte)
           /\ Len(Grown(d, size)) >= Len(d)
           /\ Len(Grown(d, size)) <=
                  size + BUFFER_CHUNK_SIZE + BUFFER_CHUNK_INCREASE_THRESHOLD
<1>1. /\ Len(d) \in Nat
      /\ BUFFER_CHUNK_SIZE \in Nat
      /\ BUFFER_CHUNK_INCREASE_THRESHOLD \in Nat
    BY ReaderAssumption
<1>2. /\ Resized(d, Len(d) + BUFFER_CHUNK_SIZE) \in Seq(Byte)
      /\ Len(Resized(d, Len(d) + BUFFER_CHUNK_SIZE)) = Len(d) + BUFFER_CHUNK_SIZE
    <2> DEFINE n == Len(d) + BUFFER_CHUNK_SIZE
    <2>1. n \in Nat
        BY <1>1
    <2> HIDE DEF n
    <2>2. Resized(d, n) \in Seq(Byte) /\ Len(Resized(d, n)) = n
        BY <2>1, ResizedBuffer
    <2> QED
        BY <2>2 DEF n
<1>3. CASE size >= Len(d) - BUFFER_CHUNK_INCREASE_THRESHOLD
    <2>1. Grown(d, size) = Resized(d, Len(d) + BUFFER_CHUNK_SIZE)
        BY <1>3 DEF Grown
    <2> QED
        BY <1>1, <1>2, <1>3, <2>1
<1>4. CASE ~(size >= Len(d) - BUFFER_CHUNK_INCREASE_THRESHOLD)
    <2>1. Grown(d, size) = d
        BY <1>4 DEF Grown
    <2> QED
        BY <1>1, <2>1
<1> QED
    BY <1>3, <1>4

\* A read changes bytes of the buffer and not its size.
LEMMA FilledBuffer ==
    ASSUME TypeOK, NEW n \in Nat
    PROVE  /\ Filled(n) \in Seq(Byte)
           /\ Len(Filled(n)) = Len(data)
<1>1. data \in [1 .. Len(data) -> Byte] /\ Len(data) \in Nat
    BY DEF TypeOK
<1>2. \A p \in 1 .. Len(data) : <<Len(client) + 1, arrived + p>> \in Byte
    BY <1>1 DEF TypeOK, Byte
<1>3. Filled(n) \in [1 .. Len(data) -> Byte]
    BY <1>1, <1>2 DEF Filled
<1> QED
    BY <1>1, <1>3

\* The body packed is as long as the count.
LEMMA PackedBody ==
    ASSUME NEW d \in Seq(Byte), NEW size \in Nat
    PROVE  /\ Packed(d, size) \in Seq(Byte)
           /\ Len(Packed(d, size)) = size
<1>1. Outside \in Byte
    BY DEF Outside, Byte
<1>2. Packed(d, size) \in [1 .. size -> Byte]
    BY <1>1 DEF Packed
<1> QED
    BY <1>2

-----------------------------------------------------------------------------
(* The invariant. *)

\* An empty buffer satisfies it.
LEMMA InitIInv == Init => IInv
<1> SUFFICES ASSUME Init PROVE IInv
    OBVIOUS
<1>1. BUFFER_CHUNK_SIZE \in Nat /\ BUFFER_CHUNK_INCREASE_THRESHOLD \in Nat
    BY ReaderAssumption
<1>2. <<>> \in Seq(Byte)
    OBVIOUS
<1>3. data \in Seq(Byte) /\ Len(data) = BUFFER_CHUNK_SIZE
    BY <1>1, <1>2, ResizedBuffer DEF Init
<1>4. TypeOK
    <2>1. <<>> \in Seq(ClientMessage) /\ <<>> \in Seq(Seq(Byte))
        OBVIOUS
    <2>2. Len(data) >= BUFFER_CHUNK_SIZE
        BY <1>1, <1>3
    <2> QED
        BY <1>3, <2>1, <2>2 DEF Init, TypeOK
<1>5. FirstFragment /\ DataSizeIsTrue /\ UnfragmentedMessagesWhole
    BY DEF Init, FirstFragment, DataSizeIsTrue, UnfragmentedMessagesWhole
<1>6. BufferIsBounded
    BY <1>1, <1>3 DEF Init, BufferIsBounded
<1> QED
    BY <1>4, <1>5, <1>6 DEF IInv

\* A fragment of a message that goes on.
LEMMA ReadPartIInv ==
    ASSUME IInv, NEW n \in 0 .. Len(data), ReadPart(n)
    PROVE  IInv'
<1>1. /\ n \in Nat /\ Len(data) \in Nat
      /\ data_size \in Nat /\ data_size + n \in Nat
      /\ BUFFER_CHUNK_SIZE \in Nat /\ BUFFER_CHUNK_INCREASE_THRESHOLD \in Nat
    BY ReaderAssumption DEF IInv, TypeOK
<1>2. Filled(n) \in Seq(Byte) /\ Len(Filled(n)) = Len(data)
    BY <1>1, FilledBuffer DEF IInv
<1>3. Len(Filled(n)) <=
          data_size + n + BUFFER_CHUNK_SIZE + BUFFER_CHUNK_INCREASE_THRESHOLD
    BY <1>1, <1>2 DEF IInv, BufferIsBounded
<1>4. data' = Grown(Filled(n), data_size + n) /\ data_size' = data_size + n
    BY DEF ReadPart, NewSize
<1>5. /\ data' \in Seq(Byte)
      /\ Len(data') >= Len(data)
      /\ Len(data') <=
             data_size + n + BUFFER_CHUNK_SIZE + BUFFER_CHUNK_INCREASE_THRESHOLD
    BY <1>1, <1>2, <1>3, <1>4, GrownBuffer
<1>6. TypeOK'
    BY <1>1, <1>4, <1>5 DEF IInv, TypeOK, ReadPart
<1>7. FirstFragment'
    BY DEF IInv, TypeOK, ReadPart, FirstFragment
<1>8. DataSizeIsTrue'
    BY <1>4 DEF IInv, TypeOK, ReadPart, DataSizeIsTrue
<1>9. UnfragmentedMessagesWhole'
    BY DEF IInv, ReadPart, UnfragmentedMessagesWhole
<1>10. BufferIsBounded'
    BY <1>4, <1>5 DEF BufferIsBounded
<1> QED
    BY <1>6, <1>7, <1>8, <1>9, <1>10 DEF IInv

\* The last fragment of a message.  A message of one fragment starts with an empty
\* count, so what is packed is what this read has put at the start of the buffer.
LEMMA ReadFinalIInv ==
    ASSUME IInv, NEW n \in 0 .. Len(data), ReadFinal(n)
    PROVE  IInv'
<1> DEFINE body == Packed(Filled(n), data_size + n)
           message == [length |-> arrived + n, fragments |-> fragments + 1]
<1>1. /\ n \in Nat /\ Len(data) \in Nat /\ n <= Len(data)
      /\ data_size \in Nat /\ data_size + n \in Nat
      /\ BUFFER_CHUNK_SIZE \in Nat /\ BUFFER_CHUNK_INCREASE_THRESHOLD \in Nat
    BY ReaderAssumption DEF IInv, TypeOK
<1>2. Filled(n) \in Seq(Byte) /\ Len(Filled(n)) = Len(data)
    BY <1>1, FilledBuffer DEF IInv
<1>3. body \in Seq(Byte) /\ Len(body) = data_size + n
    BY <1>1, <1>2, PackedBody
<1>4. /\ to_application' = Append(to_application, body)
      /\ client' = Append(client, message)
      /\ data' = Resized(Filled(n), BUFFER_CHUNK_SIZE)
      /\ data_size' = 0
    BY DEF ReadFinal, SendToApplication, NewSize, Reset
<1>5. data' \in Seq(Byte) /\ Len(data') = BUFFER_CHUNK_SIZE
    BY <1>1, <1>2, <1>4, ResizedBuffer
<1>6. message \in ClientMessage
    BY <1>1 DEF IInv, TypeOK, ClientMessage
<1>7. TypeOK'
    BY <1>1, <1>3, <1>4, <1>5, <1>6 DEF IInv, TypeOK, ReadFinal
<1>8. FirstFragment'
    BY DEF ReadFinal, FirstFragment
<1>9. /\ Len(to_application) \in Nat
      /\ Len(to_application') = Len(to_application) + 1
      /\ Len(client) = Len(to_application)
      /\ Len(client') = Len(client) + 1
      /\ \A i \in 1 .. Len(client) :
             to_application'[i] = to_application[i] /\ client'[i] = client[i]
      /\ to_application'[Len(to_application) + 1] = body
      /\ client'[Len(to_application) + 1] = message
    BY <1>3, <1>4, <1>6 DEF IInv, TypeOK, DataSizeIsTrue, ReadFinal
<1>10. \A i \in 1 .. Len(client') :
           i \in 1 .. Len(client) \/ i = Len(to_application) + 1
    BY <1>9
<1>11. data_size = arrived
    BY DEF IInv, DataSizeIsTrue, ReadFinal
<1>12. Len(body) = message.length
    BY <1>3, <1>11
<1>13. DataSizeIsTrue'
    <2>1. \A i \in 1 .. Len(client') :
              Len(to_application'[i]) = client'[i].length
        BY <1>9, <1>10, <1>12 DEF IInv, DataSizeIsTrue
    <2>2. data_size' = arrived'
        BY <1>4 DEF ReadFinal
    <2> QED
        BY <1>9, <2>1, <2>2 DEF DataSizeIsTrue
<1>14. ASSUME message.fragments = 1
       PROVE  body = [p \in 1 .. message.length |-> <<Len(to_application) + 1, p>>]
    <2>1. arrived = 0 /\ data_size = 0
        BY <1>11, <1>14 DEF IInv, TypeOK, FirstFragment
    <2>2. body = Packed(Filled(n), n) /\ message.length = n
        BY <1>1, <2>1
    <2>3. \A p \in 1 .. n : Filled(n)[p] = <<Len(to_application) + 1, p>>
        BY <1>1, <1>9, <2>1 DEF Filled
    <2> QED
        BY <1>1, <1>2, <2>2, <2>3 DEF Packed
<1>15. UnfragmentedMessagesWhole'
    <2> SUFFICES ASSUME NEW i \in 1 .. Len(client'),
                        client'[i].fragments = 1
                 PROVE  to_application'[i] = [p \in 1 .. client'[i].length |-> <<i, p>>]
        BY DEF UnfragmentedMessagesWhole
    <2>1. CASE i \in 1 .. Len(client)
        BY <1>9, <2>1 DEF IInv, UnfragmentedMessagesWhole
    <2>2. CASE i = Len(to_application) + 1
        BY <1>9, <1>14, <2>2
    <2> QED
        BY <1>10, <2>1, <2>2
<1>16. BufferIsBounded'
    BY <1>1, <1>4, <1>5 DEF BufferIsBounded
<1> QED
    BY <1>7, <1>8, <1>13, <1>15, <1>16 DEF IInv

\* A read that fails.
LEMMA ReadFailsIInv ==
    ASSUME IInv, NEW n \in {0, Len(data)}, ReadFails(n)
    PROVE  IInv'
<1>1. /\ n \in Nat /\ data \in Seq(Byte) /\ Len(data) \in Nat
      /\ data_size \in Nat /\ data_size + n \in Nat
      /\ BUFFER_CHUNK_SIZE \in Nat /\ BUFFER_CHUNK_INCREASE_THRESHOLD \in Nat
    BY ReaderAssumption DEF IInv, TypeOK
<1>2. Len(data) <=
          data_size + n + BUFFER_CHUNK_SIZE + BUFFER_CHUNK_INCREASE_THRESHOLD
    BY <1>1 DEF IInv, BufferIsBounded
<1>3. data' = Grown(data, data_size + n) /\ data_size' = data_size + n
    BY DEF ReadFails, NewSize
<1>4. /\ data' \in Seq(Byte)
      /\ Len(data') >= Len(data)
      /\ Len(data') <=
             data_size + n + BUFFER_CHUNK_SIZE + BUFFER_CHUNK_INCREASE_THRESHOLD
    BY <1>1, <1>2, <1>3, GrownBuffer
<1>5. TypeOK'
    BY <1>1, <1>3, <1>4 DEF IInv, TypeOK, ReadFails
<1>6. FirstFragment' /\ DataSizeIsTrue' /\ UnfragmentedMessagesWhole'
    BY DEF IInv, ReadFails, FirstFragment, DataSizeIsTrue, UnfragmentedMessagesWhole
<1>7. BufferIsBounded'
    BY <1>3, <1>4 DEF BufferIsBounded
<1> QED
    BY <1>5, <1>6, <1>7 DEF IInv

\* A read that fails and is marked final: one body more, behind all that were sent.
LEMMA ReadFailsFinalIInv ==
    ASSUME IInv, NEW n \in {0, Len(data)}, ReadFailsFinal(n)
    PROVE  IInv'
<1> DEFINE body == Packed(data, data_size + n)
<1>1. /\ n \in Nat /\ data \in Seq(Byte) /\ Len(data) \in Nat
      /\ data_size \in Nat /\ data_size + n \in Nat
      /\ BUFFER_CHUNK_SIZE \in Nat /\ BUFFER_CHUNK_INCREASE_THRESHOLD \in Nat
    BY ReaderAssumption DEF IInv, TypeOK
<1>2. body \in Seq(Byte)
    BY <1>1, PackedBody
<1>3. /\ to_application' = Append(to_application, body)
      /\ client' = client /\ failed' = TRUE
      /\ data' = Resized(data, BUFFER_CHUNK_SIZE)
      /\ data_size' = 0
    BY DEF ReadFailsFinal, SendToApplication, NewSize, Reset
<1>4. data' \in Seq(Byte) /\ Len(data') = BUFFER_CHUNK_SIZE
    BY <1>1, <1>3, ResizedBuffer
<1>5. TypeOK'
    BY <1>1, <1>2, <1>3, <1>4 DEF IInv, TypeOK, ReadFailsFinal
<1>6. FirstFragment'
    BY DEF IInv, ReadFailsFinal, FirstFragment
<1>7. /\ Len(client) \in Nat /\ Len(client) <= Len(to_application)
      /\ Len(to_application') = Len(to_application) + 1
      /\ \A i \in 1 .. Len(client) : to_application'[i] = to_application[i]
    BY <1>2, <1>3 DEF IInv, TypeOK, DataSizeIsTrue
<1>8. DataSizeIsTrue'
    BY <1>3, <1>7 DEF IInv, TypeOK, DataSizeIsTrue
<1>9. UnfragmentedMessagesWhole'
    BY <1>3, <1>7 DEF IInv, UnfragmentedMessagesWhole
<1>10. BufferIsBounded'
    BY <1>1, <1>3, <1>4 DEF BufferIsBounded
<1> QED
    BY <1>5, <1>6, <1>8, <1>9, <1>10 DEF IInv

\* Every step keeps the invariant.
LEMMA NextIInv == IInv /\ [Next]_vars => IInv'
<1> SUFFICES ASSUME IInv, [Next]_vars PROVE IInv'
    OBVIOUS
<1>1. CASE \E n \in 0 .. Len(data) : ReadPart(n)
    BY <1>1, ReadPartIInv
<1>2. CASE \E n \in 0 .. Len(data) : ReadFinal(n)
    BY <1>2, ReadFinalIInv
<1>3. CASE \E n \in {0, Len(data)} : ReadFails(n) \/ ReadFailsFinal(n)
    BY <1>3, ReadFailsIInv, ReadFailsFinalIInv
<1>4. CASE UNCHANGED vars
    BY <1>4 DEF vars, IInv, TypeOK, FirstFragment, DataSizeIsTrue,
                UnfragmentedMessagesWhole, BufferIsBounded
<1> QED
    BY <1>1, <1>2, <1>3, <1>4 DEF Next

\* The reader's invariant: types, the count of the message being read, and what has
\* been sent.
THEOREM Invariance == Spec => []IInv
    BY InitIInv, NextIInv, PTL DEF Spec

\* The buffer is never smaller than a chunk and every variable keeps its type.
THEOREM TypeCorrect == Spec => []TypeOK
<1>1. IInv => TypeOK
    BY DEF IInv
<1> QED
    BY Invariance, <1>1, PTL

\* A message that arrives in one fragment is sent whole (WsReader.cpp:65-88).
THEOREM UnfragmentedWhole == Spec => []UnfragmentedMessagesWhole
<1>1. IInv => UnfragmentedMessagesWhole
    BY DEF IInv
<1> QED
    BY Invariance, <1>1, PTL

\* data_size is the true size of the message (AsgiWsReceiveMsg.h:22).
THEOREM SizeIsTrue == Spec => []DataSizeIsTrue
<1>1. IInv => DataSizeIsTrue
    BY DEF IInv
<1> QED
    BY Invariance, <1>1, PTL

\* The growth rule keeps the buffer within a chunk and the threshold of what is counted
\* (WsReader.cpp:84-86).
THEOREM BufferBounded == Spec => []BufferIsBounded
<1>1. IInv => BufferIsBounded
    BY DEF IInv
<1> QED
    BY Invariance, <1>1, PTL

=============================================================================

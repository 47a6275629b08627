----------------------- MODULE RedisChannelLayerProofs -----------------------
(***************************************************************************)
(* The Redis channel layer implements the abstract one, for every set of   *)
(* channels, any number of messages and every expiry.                      *)
(*                                                                         *)
(* The inductive invariant places the entries: what has been pushed to a   *)
(* channel is the messages whose Send is past its RPUSH, each once; the    *)
(* list is what is left of that at its end; the entry that was taken and   *)
(* not looked up lies between the last one read and the list.  And it      *)
(* compares the expiries: that of a list whose Send is done is never less  *)
(* than that of a message it holds.                                        *)
(***************************************************************************)
EXTENDS RedisChannelLayer, SequenceLemmas

\* A Send past its RPUSH.
Past == {"EXPIRE list", "done"}

\* Data has no expiry only between its SET and its EXPIRE.
DataOK(k) ==
    /\ step[k] = "SET" => ttl[k] = Absent
    /\ step[k] # "EXPIRE key" => ttl[k] # Forever

\* How many entries have left the list of c.
Behind(c) == Len(pushed[c]) - Len(list[c])

\* The list is the end of what was pushed.
QueueOK(c) ==
    /\ IsInjective(pushed[c])
    /\ ToSet(pushed[c]) = {k \in DataKeys : target[k] = c /\ step[k] \in Past}
    /\ Behind(c) \in Nat
    /\ \A i \in 1 .. Len(list[c]) : list[c][i] = pushed[c][Behind(c) + i]

\* The receiver works between what it has read and the list.
ReadOK(c) ==
    /\ read[c] <= Behind(c)
    /\ \A k \in taken : target[k] = c =>
          \E p \in read[c] + 1 .. Behind(c) : pushed[c][p] = k
    /\ \A p \in read[c] + 1 .. Len(pushed[c]) : pushed[c][p] \notin got

\* It holds one entry at a time, and only entries that were pushed.
ReceiverOK ==
    /\ receiver # "GET" => taken = {}
    /\ receiver = "GET" => \E k \in DataKeys : taken = {k} /\ step[k] \in Past
    /\ \A k \in got : step[k] \in Past

\* A list is kept as long as the messages in it, once their Send is done.
ListTtlOK(c) ==
    /\ list_ttl[c] = Absent <=> list[c] = <<>>
    /\ \A k \in ToSet(list[c]) : step[k] = "done" => ttl[k] <= list_ttl[c]

ChannelOK(c) == QueueOK(c) /\ ReadOK(c) /\ ListTtlOK(c)

IInv ==
    /\ TypeOK
    /\ ReceiverOK
    /\ \A k \in DataKeys : DataOK(k)
    /\ \A c \in Channels : ChannelOK(c)

-----------------------------------------------------------------------------

\* Indices of a list of length b that is the end of one of length n = a + b.
LEMMA EndOfSum ==
  ASSUME NEW a \in Nat, NEW b \in Nat, NEW n \in Nat, a + b = n, NEW i \in 1 .. b + 1
  PROVE  IF i = b + 1 THEN a + i = n + 1 ELSE i \in 1 .. b /\ a + i \in 1 .. n
OBVIOUS

LEMMA StartOfSum ==
  ASSUME NEW a \in Nat, NEW b \in Nat, NEW i \in 1 .. b - 1
  PROVE  i + 1 \in 1 .. b /\ a + (i + 1) = a + 1 + i
OBVIOUS

\* What IInv says about the sequences of a channel.
LEMMA ChannelFacts ==
  ASSUME IInv, NEW c \in Channels
  PROVE  /\ pushed[c] \in Seq(DataKeys) /\ list[c] \in Seq(DataKeys)
         /\ Len(pushed[c]) \in Nat /\ Len(list[c]) \in Nat /\ read[c] \in Nat
         /\ Behind(c) \in Nat /\ Behind(c) + Len(list[c]) = Len(pushed[c])
         /\ DOMAIN pushed[c] = 1 .. Len(pushed[c])
         /\ \A p \in 1 .. Len(pushed[c]) :
               /\ pushed[c][p] \in DataKeys
               /\ target[pushed[c][p]] = c /\ step[pushed[c][p]] \in Past
         /\ \A p, r \in 1 .. Len(pushed[c]) : pushed[c][p] = pushed[c][r] => p = r
         /\ ToSet(list[c]) = {list[c][i] : i \in 1 .. Len(list[c])}
         /\ ToSet(pushed[c]) = {pushed[c][i] : i \in 1 .. Len(pushed[c])}
<1>1. /\ pushed[c] \in Seq(DataKeys) /\ list[c] \in Seq(DataKeys) /\ read[c] \in Nat
      /\ QueueOK(c)
  BY DEF IInv, TypeOK, ChannelOK
<1>2. Len(pushed[c]) \in Nat /\ Len(list[c]) \in Nat
  BY <1>1, LenProperties
<1>3. /\ DOMAIN pushed[c] = 1 .. Len(pushed[c])
      /\ ToSet(pushed[c]) = {pushed[c][i] : i \in 1 .. Len(pushed[c])}
      /\ ToSet(list[c]) = {list[c][i] : i \in 1 .. Len(list[c])}
  BY <1>1, ElementsOf
<1>4. \A p \in 1 .. Len(pushed[c]) : pushed[c][p] \in {k \in DataKeys : target[k] = c /\ step[k] \in Past}
  BY <1>1, <1>3 DEF QueueOK
<1>5. \A p, r \in 1 .. Len(pushed[c]) : pushed[c][p] = pushed[c][r] => p = r
  BY <1>1, <1>3 DEF QueueOK, IsInjective
<1>6. Behind(c) \in Nat /\ Behind(c) + Len(list[c]) = Len(pushed[c])
  BY <1>1, <1>2 DEF QueueOK, Behind
<1> QED BY <1>1, <1>2, <1>3, <1>4, <1>5, <1>6

\* What is in the list of c was pushed to c and not read.
LEMMA ListFacts ==
  ASSUME IInv, NEW c \in Channels, NEW k \in ToSet(list[c])
  PROVE  /\ k \in DataKeys /\ target[k] = c /\ step[k] \in Past
         /\ \A p \in 1 .. Len(pushed[c]) : pushed[c][p] = k => p > Behind(c)
         /\ list[c] # << >>
<1>1. ToSet(list[c]) = {list[c][i] : i \in 1 .. Len(list[c])}
  BY ChannelFacts
<1>2. PICK i \in 1 .. Len(list[c]) : k = list[c][i]
  BY <1>1
<1>3. \A j \in 1 .. Len(list[c]) : list[c][j] = pushed[c][Behind(c) + j]
  BY DEF IInv, ChannelOK, QueueOK
<1>4. Behind(c) + i \in 1 .. Len(pushed[c]) /\ Behind(c) + i > Behind(c)
  BY ChannelFacts
<1>5. k = pushed[c][Behind(c) + i]
  BY <1>2, <1>3
<1>6. list[c] # << >>
  BY ElementsOfEmpty
<1> QED BY <1>4, <1>5, <1>6, ChannelFacts

LEMMA InitIInv == ASSUME Init PROVE IInv
<1>1. \A c \in Channels : pushed[c] = << >> /\ list[c] = << >> /\ list_ttl[c] = Absent
                          /\ read[c] = 0
  BY DEF Init
<1>2. TypeOK
  <2>1. << >> \in Seq(DataKeys)
    BY ElementsOfEmpty
  <2>2. 0 \in 0 .. m_expiry /\ 0 \in 0 .. m_expiry + Margin
    BY RedisAssumption
  <2> QED BY <2>1, <2>2 DEF Init, TypeOK, Absent
<1>3. ReceiverOK
  BY DEF Init, ReceiverOK
<1>4. \A k \in DataKeys : DataOK(k)
  BY RedisAssumption DEF Init, DataOK, Absent, Forever
<1>5. ASSUME NEW c \in Channels PROVE ChannelOK(c)
  <2>1. Behind(c) = 0
    BY <1>1, ElementsOfEmpty DEF Behind
  <2>2. QueueOK(c)
    <3>1. {k \in DataKeys : target[k] = c /\ step[k] \in Past} = {}
      BY DEF Init, Past
    <3>2. ToSet(pushed[c]) = {} /\ IsInjective(pushed[c]) /\ Len(list[c]) = 0
      BY <1>1, ElementsOfEmpty
    <3>3. 1 .. Len(list[c]) = {}
      BY <3>2
    <3> QED BY <2>1, <3>1, <3>2, <3>3 DEF QueueOK
  <2>3. ReadOK(c)
    BY <1>1, <2>1, ElementsOfEmpty DEF ReadOK, Init
  <2>4. ListTtlOK(c)
    BY <1>1, ElementsOfEmpty DEF ListTtlOK
  <2> QED BY <2>2, <2>3, <2>4 DEF ChannelOK
<1> QED BY <1>2, <1>3, <1>4, <1>5 DEF IInv

-----------------------------------------------------------------------------
(* Send(). *)

\* What a step leaves alone that does not touch the entries of channel c.
LEMMA EntriesFrame ==
  ASSUME NEW c \in Channels, QueueOK(c), ReadOK(c), UNCHANGED target,
         pushed'[c] = pushed[c], list'[c] = list[c], read'[c] = read[c],
         \A k \in DataKeys : target[k] = c => (step'[k] \in Past <=> step[k] \in Past),
         \A k \in taken' : target[k] = c => k \in taken,
         \A p \in 1 .. Len(pushed[c]) : pushed[c][p] \in got' => pushed[c][p] \in got,
         read[c] \in Nat
  PROVE  QueueOK(c)' /\ ReadOK(c)'
<1>1. Behind(c)' = Behind(c)
  BY DEF Behind
<1>2. QueueOK(c)'
  BY <1>1 DEF QueueOK
<1>3. ReadOK(c)'
  BY <1>1 DEF ReadOK
<1> QED BY <1>2, <1>3

\* The commands that push nothing.
LEMMA QuietCommandOK ==
  ASSUME IInv, NEW k \in DataKeys, SetData(k) \/ ExpireData(k) \/ ExpireList(k)
  PROVE  IInv'
<1> DEFINE c == target[k]
<1>1. /\ UNCHANGED <<target, list, pushed, receiver, taken, read, got>>
      /\ step[k] \in {"SET", "EXPIRE key", "EXPIRE list"}
      /\ step' = [step EXCEPT ![k] = CASE step[k] = "SET" -> "EXPIRE key"
                                       [] step[k] = "EXPIRE key" -> "RPUSH"
                                       [] OTHER -> "done"]
  BY DEF SetData, ExpireData, ExpireList, Command, receiveVars
<1>2. c \in Channels
  BY DEF IInv, TypeOK
<1>3. /\ \A j \in DataKeys : step'[j] \in Past <=> step[j] \in Past
      /\ \A j \in DataKeys : j # k => step'[j] = step[j]
      /\ step' \in [DataKeys -> {"SET", "EXPIRE key", "RPUSH", "EXPIRE list", "done"}]
  BY <1>1 DEF Past, IInv, TypeOK
<1>4. /\ ttl' \in [DataKeys -> 0 .. m_expiry \cup {Forever}]
      /\ \A j \in DataKeys : j # k => ttl'[j] = ttl[j]
      /\ DataOK(k)'
  <2>1. CASE SetData(k)
    BY <2>1 DEF SetData, Command, DataOK, IInv, TypeOK
  <2>2. CASE ExpireData(k)
    <3>1. ttl' = [ttl EXCEPT ![k] = IF ttl[k] = Absent THEN Absent ELSE m_expiry]
      BY <2>2 DEF ExpireData, DataTtl
    <3>2. m_expiry # Forever /\ Absent # Forever /\ {m_expiry, Absent} \subseteq 0 .. m_expiry
      BY RedisAssumption DEF Forever, Absent
    <3>3. step'[k] = "RPUSH"
      BY <2>2 DEF ExpireData, Command, IInv, TypeOK
    <3>4. ttl'[k] \in {m_expiry, Absent}
      BY <3>1 DEF IInv, TypeOK
    <3>5. DataOK(k)'
      BY <3>2, <3>3, <3>4 DEF DataOK
    <3> QED BY <3>1, <3>2, <3>5 DEF IInv, TypeOK
  <2>3. CASE ExpireList(k)
    BY <2>3 DEF ExpireList, Command, DataOK, IInv, TypeOK
  <2> QED BY <2>1, <2>2, <2>3
<1>5. /\ list_ttl' \in [Channels -> 0 .. m_expiry + Margin \cup {Forever}]
      /\ \A q \in Channels : list_ttl'[q] = list_ttl[q] \/
            /\ q = c /\ step[k] = "EXPIRE list" /\ list_ttl[q] # Absent
            /\ list_ttl'[q] = m_expiry + Margin
  <2>1. CASE SetData(k) \/ ExpireData(k)
    BY <2>1 DEF SetData, ExpireData, IInv, TypeOK
  <2>2. CASE ExpireList(k)
    <3>1. /\ list_ttl' = [list_ttl EXCEPT ![c] = IF list_ttl[c] = Absent THEN Absent
                                                 ELSE m_expiry + Margin]
          /\ step[k] = "EXPIRE list"
      BY <2>2 DEF ExpireList, Command, ListTtl
    <3>2. Absent \in 0 .. m_expiry + Margin /\ m_expiry + Margin \in 0 .. m_expiry + Margin
      BY RedisAssumption DEF Absent
    <3> QED BY <1>2, <3>1, <3>2 DEF IInv, TypeOK
  <2> QED BY <2>1, <2>2
<1>6. TypeOK'
  BY <1>1, <1>3, <1>4, <1>5 DEF IInv, TypeOK, Forever
<1>7. ReceiverOK'
  BY <1>1, <1>3 DEF IInv, TypeOK, ReceiverOK
<1>8. \A j \in DataKeys : DataOK(j)'
  BY <1>3, <1>4 DEF IInv, DataOK, Forever
<1>9. ASSUME NEW q \in Channels PROVE ChannelOK(q)'
  <2>1. QueueOK(q)' /\ ReadOK(q)'
    BY <1>1, <1>3, EntriesFrame DEF IInv, ChannelOK, TypeOK
  <2>2. ListTtlOK(q)'
    <3>1. list_ttl'[q] = Absent <=> list'[q] = <<>>
      <4>1. list_ttl[q] = Absent <=> list[q] = <<>>
        BY DEF IInv, ChannelOK, ListTtlOK
      <4>2. list'[q] = list[q]
        BY <1>1
      <4>3. m_expiry + Margin # Absent
        BY RedisAssumption DEF Absent
      <4> QED BY <1>5, <4>1, <4>2, <4>3
    <3>2. ASSUME NEW j \in ToSet(list[q]), step'[j] = "done" PROVE ttl'[j] <= list_ttl'[q]
      <4>1. j \in DataKeys
        BY ElementsOf, ChannelFacts
      <4>2. step[j] = "done" \/ (j = k /\ step[k] = "EXPIRE list")
        BY <1>1, <1>3, <3>2, <4>1 DEF IInv, TypeOK
      <4>3. ttl'[j] = ttl[j] /\ ttl[j] \in 0 .. m_expiry
        <5>1. ttl'[j] = ttl[j]
          <6>1. CASE j # k
            BY <1>4, <4>1, <6>1
          <6>2. CASE j = k
            BY <4>2, <6>2 DEF SetData, ExpireData, ExpireList, Command
          <6> QED BY <6>1, <6>2
        <5>2. step[j] # "EXPIRE key"
          BY <4>2
        <5> QED BY <4>1, <5>1, <5>2 DEF IInv, TypeOK, DataOK
      <4>4. list_ttl'[q] = m_expiry + Margin \/ (list_ttl'[q] = list_ttl[q] /\ step[j] = "done")
        <5>1. ASSUME j = k, step[k] = "EXPIRE list" PROVE list_ttl'[q] = m_expiry + Margin
          <6>1. q = c
            BY <5>1, ListFacts
          <6>2. list_ttl[q] # Absent
            <7>1. list[q] # <<>>
              BY ElementsOfEmpty
            <7> QED BY <7>1 DEF IInv, ChannelOK, ListTtlOK
          <6>3. ExpireList(k)
            BY <5>1 DEF SetData, ExpireData, Command
          <6> QED
            BY <1>2, <6>1, <6>2, <6>3 DEF ExpireList, ListTtl, IInv, TypeOK
        <5> QED BY <1>5, <4>2, <5>1
      <4> QED
        BY <4>3, <4>4, RedisAssumption DEF IInv, ChannelOK, ListTtlOK
    <3> QED BY <1>1, <3>1, <3>2 DEF ListTtlOK
  <2> QED BY <2>1, <2>2 DEF ChannelOK
<1> QED BY <1>6, <1>7, <1>8, <1>9 DEF IInv

LEMMA RpushOK ==
  ASSUME IInv, NEW k \in DataKeys, Rpush(k)
  PROVE  IInv'
<1>2. PICK c \in Channels : c = target[k]
  BY DEF IInv, TypeOK
<1>1. /\ UNCHANGED <<target, ttl, receiver, taken, read, got>>
      /\ step[k] = "RPUSH" /\ step' = [step EXCEPT ![k] = "EXPIRE list"]
      /\ list' = [list EXCEPT ![c] = Append(list[c], k)]
      /\ list_ttl' = [list_ttl EXCEPT ![c] = IF list_ttl[c] = Absent THEN Forever
                                                                   ELSE list_ttl[c]]
      /\ pushed' = [pushed EXCEPT ![c] = Append(pushed[c], k)]
  BY <1>2 DEF Rpush, Command, receiveVars, Pushed
<1>3. /\ \A j \in DataKeys : step'[j] \in Past <=> step[j] \in Past \/ j = k
      /\ \A j \in DataKeys : step'[j] = "done" <=> step[j] = "done"
      /\ step[k] \notin Past
      /\ step' \in [DataKeys -> {"SET", "EXPIRE key", "RPUSH", "EXPIRE list", "done"}]
  BY <1>1 DEF Past, IInv, TypeOK
<1>4. /\ pushed[c] \in Seq(DataKeys) /\ list[c] \in Seq(DataKeys)
      /\ Len(pushed[c]) \in Nat /\ Len(list[c]) \in Nat /\ Behind(c) \in Nat
      /\ Behind(c) + Len(list[c]) = Len(pushed[c]) /\ read[c] \in Nat
  BY <1>2, ChannelFacts
<1>5. /\ pushed'[c] = Append(pushed[c], k) /\ list'[c] = Append(list[c], k)
      /\ \A q \in Channels : q # c => pushed'[q] = pushed[q] /\ list'[q] = list[q]
      /\ \A q \in Channels : q # c => list_ttl'[q] = list_ttl[q]
      /\ list_ttl'[c] = IF list_ttl[c] = Absent THEN Forever ELSE list_ttl[c]
  BY <1>1, <1>2 DEF IInv, TypeOK
<1>6. k \notin ToSet(pushed[c]) /\ QueueOK(c) /\ ReadOK(c) /\ ListTtlOK(c)
  BY <1>2, <1>3 DEF IInv, ChannelOK, QueueOK
<1>7. /\ pushed'[c] \in Seq(DataKeys) /\ Len(pushed'[c]) = Len(pushed[c]) + 1
      /\ ToSet(pushed'[c]) = ToSet(pushed[c]) \cup {k} /\ IsInjective(pushed'[c])
      /\ \A i \in 1 .. Len(pushed[c]) : pushed'[c][i] = pushed[c][i]
      /\ pushed'[c][Len(pushed[c]) + 1] = k
  BY <1>4, <1>5, <1>6, ElementsOfAppend, AppendProperties DEF QueueOK
<1>8. /\ list'[c] \in Seq(DataKeys) /\ Len(list'[c]) = Len(list[c]) + 1 /\ list'[c] # << >>
      /\ ToSet(list'[c]) = ToSet(list[c]) \cup {k}
      /\ \A i \in 1 .. Len(list[c]) : list'[c][i] = list[c][i]
      /\ list'[c][Len(list[c]) + 1] = k
  <2>1. /\ Append(list[c], k) \in Seq(DataKeys)
        /\ Len(Append(list[c], k)) = Len(list[c]) + 1 /\ Append(list[c], k) # << >>
        /\ \A i \in 1 .. Len(list[c]) : Append(list[c], k)[i] = list[c][i]
        /\ Append(list[c], k)[Len(list[c]) + 1] = k
    BY <1>4, AppendProperties
  <2>2. ToSet(Append(list[c], k)) = ToSet(list[c]) \cup {k}
    BY <1>4, ElementsOfAppend
  <2> QED BY <1>5, <2>1, <2>2
<1>9. TypeOK'
  <2>1. pushed' \in [Channels -> Seq(DataKeys)] /\ list' \in [Channels -> Seq(DataKeys)]
    BY <1>1, <1>2, <1>5, <1>7, <1>8 DEF IInv, TypeOK
  <2>2. list_ttl' \in [Channels -> 0 .. m_expiry + Margin \cup {Forever}]
    BY <1>1, <1>2 DEF IInv, TypeOK
  <2> QED BY <1>1, <1>3, <2>1, <2>2 DEF IInv, TypeOK
<1>10. ReceiverOK'
  BY <1>1, <1>3 DEF IInv, TypeOK, ReceiverOK
<1>11. \A j \in DataKeys : DataOK(j)'
  BY <1>1 DEF IInv, TypeOK, DataOK, Forever
<1>12. QueueOK(c)' /\ Behind(c)' = Behind(c)
  <2>1. Behind(c)' = Behind(c)
    <3>1. Len(pushed'[c]) = Len(pushed[c]) + 1 /\ Len(list'[c]) = Len(list[c]) + 1
      BY <1>7, <1>8
    <3> QED BY <1>4, <3>1 DEF Behind
  <2>2. ToSet(pushed'[c]) = {j \in DataKeys : target[j] = c /\ step'[j] \in Past}
    BY <1>2, <1>3, <1>6, <1>7 DEF QueueOK
  <2>3. ASSUME NEW i \in 1 .. Len(list[c]) + 1 PROVE list'[c][i] = pushed'[c][Behind(c) + i]
    <3>1. CASE i = Len(list[c]) + 1
      <4>1. Behind(c) + i = Len(pushed[c]) + 1
        BY <1>4, <3>1, EndOfSum
      <4> QED BY <1>7, <1>8, <3>1, <4>1
    <3>2. CASE i # Len(list[c]) + 1
      <4>1. i \in 1 .. Len(list[c]) /\ Behind(c) + i \in 1 .. Len(pushed[c])
        BY <1>4, <3>2, EndOfSum
      <4>2. list[c][i] = pushed[c][Behind(c) + i]
        BY <1>6, <4>1 DEF QueueOK
      <4> QED BY <1>7, <1>8, <4>1, <4>2
    <3> QED BY <3>1, <3>2
  <2> QED BY <1>1, <1>4, <1>7, <1>8, <2>1, <2>2, <2>3 DEF QueueOK
<1>13. ReadOK(c)'
  <2>1. ASSUME NEW j \in taken, target[j] = c
        PROVE  \E p \in read[c] + 1 .. Behind(c) : pushed'[c][p] = j
    <3>1. PICK p \in read[c] + 1 .. Behind(c) : pushed[c][p] = j
      BY <1>6, <2>1 DEF ReadOK
    <3>2. p \in 1 .. Len(pushed[c])
      BY <1>4
    <3> QED BY <1>7, <3>1, <3>2
  <2>2. ASSUME NEW p \in read[c] + 1 .. Len(pushed[c]) + 1 PROVE pushed'[c][p] \notin got
    <3>1. CASE p = Len(pushed[c]) + 1
      BY <1>3, <1>7, <3>1 DEF IInv, ReceiverOK
    <3>2. CASE p # Len(pushed[c]) + 1
      <4>1. p \in 1 .. Len(pushed[c]) /\ p \in read[c] + 1 .. Len(pushed[c])
        BY <1>4, <3>2
      <4> QED BY <1>6, <1>7, <4>1 DEF ReadOK
    <3> QED BY <3>1, <3>2
  <2>3. Len(pushed'[c]) = Len(pushed[c]) + 1 /\ read[c] <= Behind(c)
    BY <1>6, <1>7 DEF ReadOK
  <2>4. UNCHANGED <<target, taken, read, got>> /\ Behind(c)' = Behind(c)
    BY <1>1, <1>12
  <2> QED BY <2>1, <2>2, <2>3, <2>4 DEF ReadOK
<1>14. ListTtlOK(c)'
  <2>1. list_ttl'[c] # Absent
    BY <1>5, RedisAssumption DEF Absent, Forever
  <2>2. ASSUME NEW j \in ToSet(list[c]), step[j] = "done" PROVE ttl[j] <= list_ttl'[c]
    BY <1>2, <1>5, <1>6, <2>2, ListFacts DEF ListTtlOK
  <2>3. \A j \in ToSet(list'[c]) : step'[j] = "done" => j \in ToSet(list[c]) /\ step[j] = "done"
    BY <1>2, <1>3, <1>8, ListFacts DEF Past
  <2> QED BY <1>1, <1>8, <2>1, <2>2, <2>3 DEF ListTtlOK
<1>15. ASSUME NEW q \in Channels, q # c PROVE ChannelOK(q)'
  <2>1. \A j \in DataKeys : target[j] = q => (step'[j] \in Past <=> step[j] \in Past)
    BY <1>2, <1>3, <1>15
  <2>2. QueueOK(q)' /\ ReadOK(q)'
    BY <1>1, <1>5, <1>15, <2>1, EntriesFrame DEF IInv, ChannelOK, TypeOK
  <2>3. ListTtlOK(q)'
    <3>1. ListTtlOK(q) /\ \A j \in ToSet(list[q]) : j \in DataKeys
      BY ListFacts DEF IInv, ChannelOK
    <3> QED BY <1>1, <1>3, <1>5, <1>15, <3>1 DEF ListTtlOK
  <2> QED BY <2>2, <2>3 DEF ChannelOK
<1> QED BY <1>2, <1>9, <1>10, <1>11, <1>12, <1>13, <1>14, <1>15 DEF IInv, ChannelOK

-----------------------------------------------------------------------------
(* ReceiveMany(). *)

LEMMA BlpopOK ==
  ASSUME IInv, NEW c \in Channels, Blpop(c)
  PROVE  IInv'
<1> DEFINE k == Head(list[c])
<1>1. /\ UNCHANGED <<step, target, ttl, pushed, read, got>>
      /\ receiver = "BLPOP" /\ receiver' = "GET" /\ list[c] # << >> /\ taken' = {k}
      /\ list' = [list EXCEPT ![c] = Tail(list[c])]
      /\ list_ttl' = [list_ttl EXCEPT ![c] = IF Len(list[c]) = 1 THEN Absent ELSE list_ttl[c]]
  BY DEF Blpop, sendVars
<1>2. /\ pushed[c] \in Seq(DataKeys) /\ list[c] \in Seq(DataKeys)
      /\ Len(pushed[c]) \in Nat /\ Len(list[c]) \in Nat /\ Behind(c) \in Nat
      /\ Behind(c) + Len(list[c]) = Len(pushed[c]) /\ read[c] \in Nat
  BY ChannelFacts
<1>3. /\ list'[c] = Tail(list[c])
      /\ \A q \in Channels : q # c => list'[q] = list[q] /\ list_ttl'[q] = list_ttl[q]
      /\ list_ttl'[c] = IF Len(list[c]) = 1 THEN Absent ELSE list_ttl[c]
  BY <1>1 DEF IInv, TypeOK
<1>4. /\ list'[c] \in Seq(DataKeys) /\ Len(list[c]) > 0 /\ Len(list'[c]) = Len(list[c]) - 1
      /\ \A i \in 1 .. Len(list[c]) - 1 : list'[c][i] = list[c][i + 1]
      /\ k = list[c][1] /\ k \in ToSet(list[c])
      /\ ToSet(list'[c]) \subseteq ToSet(list[c])
  <2>1. /\ Tail(list[c]) \in Seq(DataKeys) /\ Len(list[c]) \in Nat \ {0}
        /\ Len(Tail(list[c])) = Len(list[c]) - 1
        /\ \A i \in 1 .. Len(list[c]) - 1 : Tail(list[c])[i] = list[c][i + 1]
        /\ k = list[c][1] /\ k \in ToSet(list[c])
        /\ ToSet(list[c]) = ToSet(Tail(list[c])) \cup {k}
    BY <1>1, <1>2, ElementsOfTail
  <2> HIDE DEF k
  <2> QED BY <1>3, <2>1
<1> HIDE DEF k
<1>5. k \in DataKeys /\ target[k] = c /\ step[k] \in Past
  BY <1>4, ListFacts
<1>6. QueueOK(c) /\ ReadOK(c) /\ ListTtlOK(c)
  BY DEF IInv, ChannelOK
<1>7. Behind(c)' = Behind(c) + 1
  <2>1. Len(pushed'[c]) = Len(pushed[c]) /\ Len(list'[c]) = Len(list[c]) - 1
    BY <1>1, <1>4
  <2> QED BY <1>2, <2>1 DEF Behind
<1>8. TypeOK'
  <2>1. list' \in [Channels -> Seq(DataKeys)]
    BY <1>1, <1>3, <1>4 DEF IInv, TypeOK
  <2>2. list_ttl' \in [Channels -> 0 .. m_expiry + Margin \cup {Forever}]
    <3>1. Absent \in 0 .. m_expiry + Margin
      BY RedisAssumption DEF Absent
    <3> QED BY <1>1, <3>1 DEF IInv, TypeOK
  <2> QED BY <1>1, <1>5, <2>1, <2>2 DEF IInv, TypeOK
<1>9. ReceiverOK' /\ \A j \in DataKeys : DataOK(j)'
  BY <1>1, <1>5 DEF IInv, ReceiverOK, DataOK, Forever
<1>10. QueueOK(c)'
  <2>1. ASSUME NEW i \in 1 .. Len(list[c]) - 1
        PROVE  list'[c][i] = pushed[c][Behind(c) + 1 + i]
    <3>1. i + 1 \in 1 .. Len(list[c]) /\ Behind(c) + (i + 1) = Behind(c) + 1 + i
      BY <1>2, StartOfSum
    <3>2. list[c][i + 1] = pushed[c][Behind(c) + (i + 1)]
      BY <1>6, <3>1 DEF QueueOK
    <3> QED BY <1>4, <3>1, <3>2
  <2>2. Behind(c)' \in Nat
    BY <1>2, <1>7
  <2> QED BY <1>1, <1>4, <1>6, <1>7, <2>1, <2>2 DEF QueueOK
<1>11. ReadOK(c)'
  <2>1. k = pushed[c][Behind(c) + 1]
    <3>1. 1 \in 1 .. Len(list[c])
      BY <1>2, <1>4
    <3> QED BY <1>4, <1>6, <3>1 DEF QueueOK
  <2>2. Behind(c) + 1 \in read[c] + 1 .. Behind(c) + 1
    BY <1>2, <1>6 DEF ReadOK
  <2>3. read[c] <= Behind(c) + 1
    BY <1>2, <1>6 DEF ReadOK
  <2> QED BY <1>1, <1>6, <1>7, <2>1, <2>2, <2>3 DEF ReadOK
<1>12. ListTtlOK(c)'
  <2>1. list'[c] = << >> <=> Len(list[c]) = 1
    <3>1. list'[c] = << >> <=> Len(list'[c]) = 0
      BY <1>4, EmptySeq
    <3> QED BY <1>2, <1>4, <3>1
  <2>2. list_ttl[c] # Absent
    BY <1>1, <1>6 DEF ListTtlOK
  <2>3. CASE Len(list[c]) = 1
    BY <1>3, <2>1, <2>3, ElementsOfEmpty DEF ListTtlOK
  <2>4. CASE Len(list[c]) # 1
    BY <1>1, <1>3, <1>4, <1>6, <2>1, <2>2, <2>4 DEF ListTtlOK
  <2> QED BY <2>3, <2>4
<1>13. ASSUME NEW q \in Channels, q # c PROVE ChannelOK(q)'
  <2>1. \A j \in taken' : target[j] = q => j \in taken
    BY <1>1, <1>5, <1>13
  <2>2. QueueOK(q)' /\ ReadOK(q)'
    BY <1>1, <1>3, <1>13, <2>1, EntriesFrame DEF IInv, ChannelOK, TypeOK
  <2>3. ListTtlOK(q)'
    BY <1>1, <1>3, <1>13 DEF ListTtlOK, IInv, ChannelOK
  <2> QED BY <2>2, <2>3 DEF ChannelOK
<1> QED BY <1>8, <1>9, <1>10, <1>11, <1>12, <1>13 DEF IInv, ChannelOK

\* The place of the entry that was taken, which is the one GET marks as read.
LEMMA TakenFacts ==
  ASSUME IInv, NEW k \in taken
  PROVE  /\ k \in DataKeys /\ target[k] \in Channels /\ taken = {k} /\ receiver = "GET"
         /\ LET c == target[k]
                p == CHOOSE i \in DOMAIN pushed[c] : pushed[c][i] = k
            IN  p \in read[c] + 1 .. Behind(c) /\ p \in 1 .. Len(pushed[c]) /\ pushed[c][p] = k
<1>1. k \in DataKeys /\ taken = {k} /\ receiver = "GET"
  BY DEF IInv, TypeOK, ReceiverOK
<1>2. PICK c \in Channels : c = target[k]
  BY <1>1 DEF IInv, TypeOK
<1>3. PICK p \in read[c] + 1 .. Behind(c) : pushed[c][p] = k
  BY <1>2 DEF IInv, ChannelOK, ReadOK
<1>4. /\ p \in 1 .. Len(pushed[c]) /\ DOMAIN pushed[c] = 1 .. Len(pushed[c])
      /\ \A i \in 1 .. Len(pushed[c]) : pushed[c][i] = pushed[c][p] => i = p
  BY ChannelFacts
<1>5. p = CHOOSE i \in DOMAIN pushed[c] : pushed[c][i] = k
  BY <1>3, <1>4
<1> QED BY <1>1, <1>2, <1>3, <1>4, <1>5

LEMMA GetOK ==
  ASSUME IInv, Get
  PROVE  IInv'
<1>1. PICK k \in taken :
          /\ read' = [read EXCEPT ![target[k]] =
                         CHOOSE i \in DOMAIN pushed[target[k]] : pushed[target[k]][i] = k]
          /\ got' \subseteq got \cup {k}
  BY DEF Get
<1>2. UNCHANGED <<step, target, ttl, list, list_ttl, pushed>> /\ receiver' = "BLPOP" /\ taken' = {}
  BY DEF Get, sendVars
<1>3. PICK c \in Channels : c = target[k]
  BY TakenFacts
<1>4. PICK p \in 1 .. Len(pushed[c]) :
          /\ p \in read[c] + 1 .. Behind(c) /\ pushed[c][p] = k
          /\ read' = [read EXCEPT ![c] = p]
  BY <1>1, <1>3, TakenFacts
<1>5. /\ k \in DataKeys /\ step[k] \in Past
      /\ Len(pushed[c]) \in Nat /\ read[c] \in Nat /\ Behind(c) \in Nat /\ p \in Nat
      /\ read[c] < p /\ p <= Behind(c)
      /\ \A r \in 1 .. Len(pushed[c]) : pushed[c][r] = k => r = p
  <2>1. /\ Len(pushed[c]) \in Nat /\ read[c] \in Nat /\ Behind(c) \in Nat
        /\ pushed[c][p] \in DataKeys /\ step[pushed[c][p]] \in Past
        /\ \A r \in 1 .. Len(pushed[c]) : pushed[c][r] = pushed[c][p] => r = p
    BY ChannelFacts
  <2> QED BY <1>4, <2>1
<1>6. read'[c] = p /\ \A q \in Channels : q # c => read'[q] = read[q]
  BY <1>4 DEF IInv, TypeOK
<1>7. TypeOK'
  <2>1. read' \in [Channels -> Nat]
    BY <1>4, <1>5 DEF IInv, TypeOK
  <2>2. got' \subseteq DataKeys
    BY <1>1, <1>5 DEF IInv, TypeOK
  <2> QED BY <1>2, <2>1, <2>2 DEF IInv, TypeOK
<1>8. ReceiverOK' /\ \A j \in DataKeys : DataOK(j)'
  BY <1>1, <1>2, <1>5 DEF IInv, ReceiverOK, DataOK, Forever
<1>9. ReadOK(c)'
  <2>1. Behind(c)' = Behind(c)
    BY <1>2 DEF Behind
  <2>2. ASSUME NEW r \in p + 1 .. Len(pushed[c]) PROVE pushed[c][r] \notin got'
    <3>1. r \in 1 .. Len(pushed[c]) /\ r \in read[c] + 1 .. Len(pushed[c]) /\ r # p
      BY <1>5
    <3>2. pushed[c][r] # k
      BY <1>5, <3>1
    <3>3. pushed[c][r] \notin got
      BY <3>1 DEF IInv, ChannelOK, ReadOK
    <3> QED BY <1>1, <3>2, <3>3
  <2> QED BY <1>2, <1>5, <1>6, <2>1, <2>2 DEF ReadOK
<1>10. ASSUME NEW q \in Channels PROVE QueueOK(q)' /\ ListTtlOK(q)'
  BY <1>2 DEF IInv, ChannelOK, QueueOK, ListTtlOK, Behind
<1>11. ASSUME NEW q \in Channels, q # c PROVE ReadOK(q)'
  <2>1. \A r \in 1 .. Len(pushed[q]) : pushed[q][r] # k
    BY <1>3, <1>11, ChannelFacts
  <2>2. \A r \in 1 .. Len(pushed[q]) : pushed[q][r] \in got' => pushed[q][r] \in got
    BY <1>1, <2>1
  <2> QED BY <1>2, <1>6, <1>11, <2>2, EntriesFrame DEF IInv, ChannelOK, TypeOK
<1> QED BY <1>7, <1>8, <1>9, <1>10, <1>11 DEF IInv, ChannelOK

LEMMA ReceiverCrashOK ==
  ASSUME IInv, ReceiverCrash
  PROVE  IInv'
<1>1. /\ UNCHANGED <<step, target, ttl, list, list_ttl, pushed, read, got>>
      /\ receiver' = "crashed" /\ taken' = {}
  BY DEF ReceiverCrash, sendVars
<1>2. TypeOK' /\ ReceiverOK' /\ \A j \in DataKeys : DataOK(j)'
  BY <1>1 DEF IInv, TypeOK, ReceiverOK, DataOK, Forever
<1>3. ASSUME NEW q \in Channels PROVE ChannelOK(q)'
  <2>1. QueueOK(q)' /\ ReadOK(q)'
    BY <1>1, EntriesFrame DEF IInv, ChannelOK, TypeOK
  <2>2. ListTtlOK(q)'
    BY <1>1 DEF IInv, ChannelOK, ListTtlOK
  <2> QED BY <2>1, <2>2 DEF ChannelOK
<1> QED BY <1>2, <1>3 DEF IInv

-----------------------------------------------------------------------------
(* Redis. *)

LEMMA OneSecondLessFacts ==
  ASSUME NEW n \in Nat, NEW left \in 0 .. n \cup {Forever}, n < Forever
  PROVE  /\ OneSecondLess(left) \in 0 .. n \cup {Forever}
         /\ OneSecondLess(left) = Forever <=> left = Forever
         /\ OneSecondLess(left) = Absent <=> left \in {Absent, 1}
         /\ OneSecondLess(left) <= left
         /\ left \notin {Absent, Forever} => OneSecondLess(left) = left - 1
<1>1. Forever \in Nat \ {0, 1}
  BY RedisAssumption DEF Forever
<1> HIDE DEF Forever
<1> QED BY <1>1 DEF OneSecondLess, Absent

LEMMA TickOK ==
  ASSUME IInv, Tick
  PROVE  IInv'
<1>1. UNCHANGED <<step, target, pushed, receiver, taken, read, got>>
  BY DEF Tick, sendVars, receiveVars
<1>2. /\ m_expiry \in Nat /\ m_expiry < Forever
      /\ m_expiry + Margin \in Nat /\ m_expiry + Margin < Forever
      /\ Forever \in Nat \ {0, 1} /\ Absent = 0
  BY RedisAssumption DEF Forever, Absent
<1>3. ASSUME NEW k \in DataKeys
      PROVE  /\ ttl[k] \in 0 .. m_expiry \cup {Forever}
             /\ ttl'[k] = OneSecondLess(ttl[k])
             /\ ttl'[k] \in 0 .. m_expiry \cup {Forever}
             /\ ttl'[k] = Forever <=> ttl[k] = Forever
             /\ ttl[k] = Absent => ttl'[k] = Absent
             /\ ttl'[k] <= ttl[k]
             /\ ttl[k] \notin {Absent, Forever} => ttl'[k] = ttl[k] - 1
  <2>1. ttl[k] \in 0 .. m_expiry \cup {Forever} /\ ttl'[k] = OneSecondLess(ttl[k])
    BY DEF Tick, IInv, TypeOK
  <2> QED BY <1>2, <2>1, OneSecondLessFacts
<1>4. ASSUME NEW c \in Channels
      PROVE  /\ list_ttl[c] \in 0 .. m_expiry + Margin \cup {Forever}
             /\ list_ttl'[c] = OneSecondLess(list_ttl[c])
             /\ list_ttl'[c] \in 0 .. m_expiry + Margin \cup {Forever}
             /\ list_ttl'[c] = Absent <=> list_ttl[c] \in {Absent, 1}
             /\ list_ttl[c] \notin {Absent, Forever} => list_ttl'[c] = list_ttl[c] - 1
             /\ list_ttl[c] = Forever => list_ttl'[c] = Forever
             /\ list'[c] = IF list_ttl[c] = 1 THEN << >> ELSE list[c]
  <2>1. /\ list_ttl[c] \in 0 .. m_expiry + Margin \cup {Forever}
        /\ list_ttl'[c] = OneSecondLess(list_ttl[c])
        /\ list'[c] = IF list_ttl[c] = 1 THEN << >> ELSE list[c]
    BY DEF Tick, IInv, TypeOK
  <2> QED BY <1>2, <2>1, OneSecondLessFacts
<1>5. TypeOK'
  <2>1. ttl' \in [DataKeys -> 0 .. m_expiry \cup {Forever}]
    BY <1>3 DEF Tick
  <2>2. list_ttl' \in [Channels -> 0 .. m_expiry + Margin \cup {Forever}]
    BY <1>4 DEF Tick
  <2>3. list' \in [Channels -> Seq(DataKeys)]
    BY ElementsOfEmpty DEF Tick, IInv, TypeOK
  <2> QED BY <1>1, <2>1, <2>2, <2>3 DEF IInv, TypeOK, Forever
<1>6. ReceiverOK'
  BY <1>1 DEF IInv, ReceiverOK
<1>7. \A k \in DataKeys : DataOK(k)'
  <2> SUFFICES ASSUME NEW k \in DataKeys PROVE DataOK(k)'
    OBVIOUS
  <2>1. DataOK(k) /\ step'[k] = step[k] /\ Forever' = Forever
    BY <1>1 DEF IInv, Forever
  <2> QED BY <1>3, <2>1 DEF DataOK
<1>8. ASSUME NEW c \in Channels PROVE ChannelOK(c)'
  <2>1. QueueOK(c) /\ ReadOK(c) /\ ListTtlOK(c)
    BY DEF IInv, ChannelOK
  <2>2. CASE list_ttl[c] = 1
    <3>1. list'[c] = << >> /\ Len(list'[c]) = 0 /\ ToSet(list'[c]) = {}
      BY <1>4, <2>2, ElementsOfEmpty
    <3>2. Behind(c)' = Len(pushed[c]) /\ Behind(c) <= Behind(c)' /\ Behind(c)' \in Nat
      BY <1>1, <3>1, ChannelFacts DEF Behind
    <3>3. QueueOK(c)'
      BY <1>1, <2>1, <3>1, <3>2 DEF QueueOK
    <3>4. ReadOK(c)'
      <4>1. read[c] \in Nat /\ Behind(c) \in Nat
        BY ChannelFacts
      <4>2. \A p \in read[c] + 1 .. Behind(c) : p \in read[c] + 1 .. Behind(c)'
        BY <3>2, <4>1
      <4>3. read[c] <= Behind(c)'
        BY <2>1, <3>2, <4>1 DEF ReadOK
      <4> QED BY <1>1, <2>1, <4>2, <4>3 DEF ReadOK
    <3>5. ListTtlOK(c)'
      BY <1>4, <2>2, <3>1 DEF ListTtlOK
    <3> QED BY <3>3, <3>4, <3>5 DEF ChannelOK
  <2>3. CASE list_ttl[c] # 1
    <3>1. list'[c] = list[c]
      BY <1>4, <2>3
    <3>2. QueueOK(c)' /\ ReadOK(c)'
      BY <1>1, <2>1, <3>1, EntriesFrame DEF IInv, TypeOK
    <3>3. ASSUME NEW k \in ToSet(list[c]), step[k] = "done" PROVE ttl'[k] <= list_ttl'[c]
      <4>1. k \in DataKeys
        BY ListFacts
      <4>2. ttl[k] \in 0 .. m_expiry /\ ttl[k] <= list_ttl[c]
        BY <1>3, <2>1, <3>3, <4>1 DEF IInv, DataOK, ListTtlOK
      <4>3. list_ttl[c] # Absent
        BY <2>1, ElementsOfEmpty DEF ListTtlOK
      <4>4. CASE list_ttl[c] = Forever
        BY <1>2, <1>3, <1>4, <4>1, <4>2, <4>4
      <4>5. CASE list_ttl[c] # Forever
        <5>1. list_ttl'[c] = list_ttl[c] - 1 /\ list_ttl[c] \in 1 .. m_expiry + Margin
          BY <1>2, <1>4, <4>3, <4>5
        <5>2. ttl'[k] = IF ttl[k] = 0 THEN 0 ELSE ttl[k] - 1
          BY <1>2, <1>3, <4>1, <4>2
        <5> QED BY <1>2, <4>2, <5>1, <5>2
      <4> QED BY <4>4, <4>5
    <3>4. ListTtlOK(c)'
      BY <1>1, <1>4, <2>1, <2>3, <3>1, <3>3 DEF ListTtlOK
    <3> QED BY <3>2, <3>4 DEF ChannelOK
  <2> QED BY <2>2, <2>3
<1> QED BY <1>5, <1>6, <1>7, <1>8 DEF IInv

-----------------------------------------------------------------------------

LEMMA NextIInv == ASSUME IInv, [Next]_vars PROVE IInv'
<1>1. CASE UNCHANGED vars
  <2>1. TypeOK' /\ ReceiverOK' /\ \A k \in DataKeys : DataOK(k)'
    BY <1>1 DEF vars, sendVars, receiveVars, IInv, TypeOK, ReceiverOK, DataOK, Forever
  <2>2. \A c \in Channels : ChannelOK(c)'
    <3>1. UNCHANGED <<step, target, ttl, list, list_ttl, pushed, taken, read, got>>
      BY <1>1 DEF vars, sendVars, receiveVars
    <3>2. ASSUME NEW c \in Channels PROVE QueueOK(c)' /\ ReadOK(c)'
      BY <3>1, EntriesFrame DEF IInv, ChannelOK, TypeOK
    <3>3. ASSUME NEW c \in Channels PROVE ListTtlOK(c)'
      BY <3>1 DEF IInv, ChannelOK, ListTtlOK
    <3> QED BY <3>2, <3>3 DEF ChannelOK
  <2> QED BY <2>1, <2>2 DEF IInv
<1>2. CASE \E k \in DataKeys : Send(k)
  BY <1>2, QuietCommandOK, RpushOK DEF Send
<1>3. CASE ReceiveMany
  BY <1>3, BlpopOK, GetOK DEF ReceiveMany
<1> QED
  BY <1>1, <1>2, <1>3, ReceiverCrashOK, TickOK DEF Next

\* The invariant everything else rests on.
THEOREM Invariance == Spec => []IInv
<1>1. Init => IInv
  BY InitIInv
<1>2. IInv /\ [Next]_vars => IInv'
  BY NextIInv
<1> QED BY <1>1, <1>2, PTL DEF Spec

\* The types of what is in Redis and of where the calls are.
THEOREM TypeCorrect == Spec => []TypeOK
<1>1. IInv => TypeOK
  BY DEF IInv
<1> QED BY <1>1, Invariance, PTL

-----------------------------------------------------------------------------
(* What leaves a list. *)

LEMMA LeavesList ==
  ASSUME IInv, Next, NEW c \in Channels, NEW k \in ToSet(list[c]), k \notin ToSet(list'[c])
  PROVE  k \in taken' \/ ttl'[k] = Absent \/ step[k] = "EXPIRE list"
<1>1. k \in DataKeys /\ step[k] \in Past /\ ListTtlOK(c) /\ list[c] \in Seq(DataKeys)
  BY ListFacts, ChannelFacts DEF IInv, ChannelOK
<1>2. CASE \E j \in DataKeys : Send(j)
  <2>1. PICK j \in DataKeys : Send(j)
    BY <1>2
  <2>2. Rpush(j)
    BY <2>1 DEF Send, SetData, ExpireData, ExpireList
  <2>3. list'[c] = list[c] \/ list'[c] = Append(list[c], j)
    BY <2>2 DEF Rpush, Pushed, IInv, TypeOK
  <2>4. ToSet(Append(list[c], j)) = ToSet(list[c]) \cup {j}
    BY <1>1, ElementsOfAppend
  <2> QED BY <2>3, <2>4
<1>3. CASE \E q \in Channels : Blpop(q)
  <2>1. PICK q \in Channels : Blpop(q)
    BY <1>3
  <2>2. q = c
    BY <2>1 DEF Blpop, IInv, TypeOK
  <2>3. list'[c] = Tail(list[c]) /\ taken' = {Head(list[c])} /\ list[c] # << >>
    BY <2>1, <2>2 DEF Blpop, IInv, TypeOK
  <2>4. ToSet(list[c]) = ToSet(Tail(list[c])) \cup {Head(list[c])}
    BY <1>1, <2>3, ElementsOfTail
  <2> QED BY <2>3, <2>4
<1>4. CASE Get \/ ReceiverCrash
  BY <1>4 DEF Get, ReceiverCrash
<1>5. CASE Tick
  <2>1. list_ttl[c] = 1 /\ ttl'[k] = OneSecondLess(ttl[k])
    BY <1>1, <1>5 DEF Tick
  <2>2. CASE step[k] = "done"
    <3>1. ttl[k] \in 0 .. m_expiry /\ ttl[k] <= 1
      BY <1>1, <2>1, <2>2 DEF ListTtlOK, IInv, TypeOK, DataOK
    <3>2. ttl[k] \in {0, 1}
      BY <3>1, RedisAssumption
    <3>3. Forever \notin {0, 1} /\ Absent = 0
      BY RedisAssumption DEF Absent, Forever
    <3>4. OneSecondLess(0) = 0 /\ OneSecondLess(1) = 0
      BY <3>3 DEF OneSecondLess
    <3> QED BY <2>1, <3>2, <3>3, <3>4
  <2> QED BY <1>1, <2>2 DEF Past
<1> QED BY <1>2, <1>3, <1>4, <1>5 DEF Next, ReceiveMany

\* Redis drops no list before the data of its messages, but for one whose Send has not come
\* to its last EXPIRE.
THEOREM ListOutlives == Spec => ListOutlivesItsMessages
<1>1. IInv /\ [Next]_vars =>
        [\A c \in Channels : \A k \in ToSet(list[c]) \ ToSet(list[c])' :
            k \in taken' \/ ttl'[k] = Absent \/ step[k] = "EXPIRE list"]_vars
  BY LeavesList
<1> QED BY <1>1, Invariance, PTL DEF Spec, ListOutlivesItsMessages

-----------------------------------------------------------------------------
(* The abstract channel layer. *)

\* No channel ever has more entries than there are messages.
LEMMA RoomForMessages ==
  ASSUME IInv, NEW c \in Channels
  PROVE  /\ Cardinality(DataKeys) \in Nat /\ Len(pushed[c]) <= Cardinality(DataKeys)
         /\ \A k \in DataKeys : k \notin ToSet(pushed[c]) => Len(pushed[c]) < Cardinality(DataKeys)
<1>1. pushed[c] \in Seq(DataKeys) /\ IsInjective(pushed[c]) /\ ToSet(pushed[c]) \in SUBSET DataKeys
  BY ChannelFacts, ElementsOf DEF IInv, ChannelOK, QueueOK
<1>2. Cardinality(ToSet(pushed[c])) = Len(pushed[c]) /\ Len(pushed[c]) \in Nat
  BY <1>1, CardinalityOfElements, ChannelFacts
<1>3. Cardinality(DataKeys) \in Nat
  BY RedisAssumption, FS_CardinalityType
<1>4. /\ Cardinality(ToSet(pushed[c])) <= Cardinality(DataKeys)
      /\ Cardinality(DataKeys) = Cardinality(ToSet(pushed[c])) => DataKeys = ToSet(pushed[c])
  BY <1>1, RedisAssumption, FS_Subset
<1> QED BY <1>2, <1>3, <1>4

\* The i-th entry of c is lost.
LostAt(c, i) ==
    /\ pushed[c][i] \notin got
    /\ ttl[pushed[c][i]] = Absent \/ pushed[c][i] \notin ToSet(list[c]) \cup taken

LEMMA LostFacts ==
  \A c \in Channels : /\ Lost(c) = {i \in 1 .. Len(pushed[c]) : LostAt(c, i)}
                      /\ Lost(c)' = {i \in 1 .. Len(pushed'[c]) : LostAt(c, i)'}
BY DEF Lost, LostAt

\* What the layer sees of a step that loses nothing and finds nothing.
LEMMA LostFrame ==
  ASSUME IInv, NEW c \in Channels, pushed'[c] = pushed[c],
         \A i \in 1 .. Len(pushed[c]) : LostAt(c, i)' <=> LostAt(c, i)
  PROVE  Lost(c)' = Lost(c)
BY LostFacts

LEMMA QuietCommandSeen ==
  ASSUME IInv, NEW k \in DataKeys, SetData(k) \/ ExpireData(k) \/ ExpireList(k)
  PROVE  UNCHANGED C!channelVars
<1>1. UNCHANGED <<pushed, read, got, taken, list>>
  BY DEF SetData, ExpireData, ExpireList, Command, receiveVars
<1>2. step[k] \notin Past \/ UNCHANGED ttl
  BY DEF SetData, ExpireData, ExpireList, Command, Past
<1>3. \A j \in DataKeys : j # k => ttl'[j] = ttl[j]
  BY DEF SetData, ExpireData, ExpireList, IInv, TypeOK
<1>4. ASSUME NEW c \in Channels, NEW i \in 1 .. Len(pushed[c])
      PROVE  LostAt(c, i)' <=> LostAt(c, i)
  <2>1. pushed[c][i] \in DataKeys /\ step[pushed[c][i]] \in Past
    BY ChannelFacts
  <2>2. ttl'[pushed[c][i]] = ttl[pushed[c][i]]
    BY <1>2, <1>3, <2>1
  <2> QED BY <1>1, <2>2 DEF LostAt
<1>5. \A c \in Channels : Lost(c)' = Lost(c)
  BY <1>1, <1>4, LostFrame
<1> QED BY <1>1, <1>5 DEF C!channelVars

\* RPUSH is the moment the message is there.
LEMMA RpushSeen ==
  ASSUME IInv, NEW k \in DataKeys, Rpush(k)
  PROVE  \E c \in Channels, m \in DataKeys : C!Send(c, m)
<1>1. PICK c \in Channels : c = target[k]
  BY DEF IInv, TypeOK
<1>2. /\ UNCHANGED <<ttl, taken, read, got>> /\ step[k] = "RPUSH" /\ ttl[k] # Absent
      /\ list' = [list EXCEPT ![c] = Append(list[c], k)]
      /\ pushed' = [pushed EXCEPT ![c] = Append(pushed[c], k)]
  BY <1>1 DEF Rpush, Command, receiveVars, Pushed
<1>3. /\ pushed'[c] = Append(pushed[c], k) /\ list'[c] = Append(list[c], k)
      /\ \A q \in Channels : q # c => pushed'[q] = pushed[q] /\ list'[q] = list[q]
  BY <1>2 DEF IInv, TypeOK
<1>4. /\ pushed[c] \in Seq(DataKeys) /\ list[c] \in Seq(DataKeys) /\ Len(pushed[c]) \in Nat
      /\ k \notin ToSet(pushed[c])
  <2>1. ToSet(pushed[c]) = {j \in DataKeys : target[j] = c /\ step[j] \in Past}
    BY DEF IInv, ChannelOK, QueueOK
  <2>2. k \notin ToSet(pushed[c])
    BY <1>2, <2>1 DEF Past
  <2> QED BY <2>2, ChannelFacts
<1>5. ToSet(list'[c]) = ToSet(list[c]) \cup {k}
  BY <1>3, <1>4, ElementsOfAppend
<1>6. /\ Len(pushed'[c]) = Len(pushed[c]) + 1 /\ pushed'[c][Len(pushed[c]) + 1] = k
      /\ \A i \in 1 .. Len(pushed[c]) : pushed'[c][i] = pushed[c][i]
  BY <1>3, <1>4, AppendProperties
<1>7. Lost(c)' = Lost(c)
  <2>0. PICK n \in Nat : n = Len(pushed[c])
    BY <1>4
  <2>1. Lost(c)' = {i \in 1 .. n + 1 : LostAt(c, i)'} /\ Lost(c) = {i \in 1 .. n : LostAt(c, i)}
    BY <1>6, <2>0, LostFacts
  <2>2. ~LostAt(c, n + 1)'
    BY <1>2, <1>5, <1>6, <2>0 DEF LostAt
  <2>3. ASSUME NEW i \in 1 .. n PROVE LostAt(c, i)' <=> LostAt(c, i)
    <3>1. ToSet(pushed[c]) = {pushed[c][r] : r \in 1 .. n}
      BY <2>0, ChannelFacts
    <3>2. pushed[c][i] # k
      BY <1>4, <3>1
    <3> QED BY <1>2, <1>5, <1>6, <2>0, <3>2 DEF LostAt
  <2>4. \A i : i \in 1 .. n + 1 <=> i \in 1 .. n \/ i = n + 1
    OBVIOUS
  <2> QED BY <2>1, <2>2, <2>3, <2>4
<1>8. ASSUME NEW q \in Channels PROVE Lost(q)' = Lost(q)
  <2>1. CASE q # c
    BY <1>2, <1>3, <2>1, LostFrame DEF LostAt
  <2> QED BY <1>7, <2>1
<1>9. Len(pushed[c]) < Cardinality(DataKeys)
  BY <1>4, RoomForMessages
<1> QED BY <1>2, <1>8, <1>9 DEF C!Send

\* The layer sees nothing of BLPOP,
LEMMA BlpopSeen ==
  ASSUME IInv, NEW c \in Channels, Blpop(c)
  PROVE  UNCHANGED C!channelVars
<1> DEFINE k == Head(list[c])
<1>1. /\ UNCHANGED <<ttl, pushed, read, got>> /\ receiver = "BLPOP" /\ taken' = {k}
      /\ list[c] # << >> /\ list' = [list EXCEPT ![c] = Tail(list[c])]
  BY DEF Blpop, sendVars
<1>2. taken = {}
  BY <1>1 DEF IInv, ReceiverOK
<1>3. ToSet(list[c]) = ToSet(Tail(list[c])) \cup {k} /\ k \in ToSet(list[c])
  BY <1>1, ChannelFacts, ElementsOfTail
<1> HIDE DEF k
<1>4. /\ list'[c] = Tail(list[c]) /\ \A q \in Channels : q # c => list'[q] = list[q]
      /\ target[k] = c
  BY <1>1, <1>3, ListFacts DEF IInv, TypeOK
<1>5. ASSUME NEW q \in Channels, NEW i \in 1 .. Len(pushed[q])
      PROVE  LostAt(q, i)' <=> LostAt(q, i)
  <2>1. CASE q = c
    BY <1>1, <1>2, <1>3, <1>4, <2>1 DEF LostAt
  <2>2. CASE q # c
    <3>1. target[pushed[q][i]] = q
      BY ChannelFacts, Zenon
    <3>2. pushed[q][i] # k
      BY <1>4, <2>2, <3>1
    <3> QED BY <1>1, <1>2, <1>4, <2>2, <3>2 DEF LostAt
  <2> QED BY <2>1, <2>2
<1>6. \A q \in Channels : Lost(q)' = Lost(q)
  BY <1>1, <1>5, LostFrame
<1> QED BY <1>1, <1>6 DEF C!channelVars

\* for it is GET that gives the message or loses it.
LEMMA GetSeen ==
  ASSUME IInv, Get
  PROVE  \E c \in Channels, i \in 1 .. Cardinality(DataKeys) : C!Blpop(c, i)
<1>1. PICK k \in taken :
          /\ read' = [read EXCEPT ![target[k]] =
                         CHOOSE i \in DOMAIN pushed[target[k]] : pushed[target[k]][i] = k]
          /\ got' = IF ttl[k] = Absent THEN got ELSE got \cup {k}
  BY DEF Get
<1>2. UNCHANGED <<ttl, list, pushed>> /\ taken' = {} /\ taken = {k}
  BY TakenFacts DEF Get
<1>3. PICK c \in Channels : c = target[k]
  BY TakenFacts
<1>4. PICK p \in 1 .. Len(pushed[c]) :
          /\ p \in read[c] + 1 .. Behind(c) /\ pushed[c][p] = k
          /\ read' = [read EXCEPT ![c] = p]
  BY <1>1, <1>3, TakenFacts
<1>5. /\ Len(pushed[c]) \in Nat /\ read[c] \in Nat /\ Behind(c) \in Nat
      /\ \A r \in 1 .. Len(pushed[c]) : pushed[c][r] = k => r = p
  <2>1. /\ Len(pushed[c]) \in Nat /\ read[c] \in Nat /\ Behind(c) \in Nat
        /\ \A r \in 1 .. Len(pushed[c]) : pushed[c][r] = pushed[c][p] => r = p
    BY ChannelFacts
  <2> QED BY <1>4, <2>1
<1>6. k \notin ToSet(list[c]) /\ k \notin got
  <2>1. k \notin ToSet(list[c])
    <3>1. ~(p > Behind(c))
      BY <1>4, <1>5
    <3> QED BY <1>4, <3>1, ListFacts
  <2>2. p \in read[c] + 1 .. Len(pushed[c])
    BY <1>4, <1>5
  <2>3. k \notin got
    BY <1>4, <2>2 DEF IInv, ChannelOK, ReadOK
  <2> QED BY <2>1, <2>3
<1>7. ASSUME NEW q \in Channels, NEW i \in 1 .. Len(pushed[q])
      PROVE  LostAt(q, i)' <=> LostAt(q, i)
  <2>1. CASE pushed[q][i] = k
    <3>1. q = c
      BY <1>3, <2>1, ChannelFacts
    <3> QED BY <1>1, <1>2, <1>6, <2>1, <3>1 DEF LostAt
  <2>2. CASE pushed[q][i] # k
    BY <1>1, <1>2, <2>2 DEF LostAt
  <2> QED BY <2>1, <2>2
<1>8. \A q \in Channels : Lost(q)' = Lost(q)
  BY <1>2, <1>7, LostFrame
<1>9. ASSUME NEW i \in read[c] + 1 .. p - 1 PROVE i \in Lost(c)
  <2>1. /\ i \in 1 .. Len(pushed[c]) /\ i \in read[c] + 1 .. Len(pushed[c]) /\ i # p
        /\ ~(i > Behind(c))
    BY <1>4, <1>5
  <2>2. pushed[c][i] \notin got
    BY <2>1 DEF IInv, ChannelOK, ReadOK
  <2>3. pushed[c][i] \notin ToSet(list[c])
    BY <2>1, ListFacts
  <2>4. pushed[c][i] # k
    BY <1>5, <2>1
  <2> QED BY <1>2, <2>1, <2>2, <2>3, <2>4, LostFacts DEF LostAt
<1>10. p \in 1 .. Cardinality(DataKeys) /\ p \in read[c] + 1 .. Len(pushed[c])
  BY <1>4, <1>5, RoomForMessages
<1>11. C!Blpop(c, p)
  BY <1>2, <1>4, <1>8, <1>9, <1>10 DEF C!Blpop, C!Unread
<1> QED BY <1>10, <1>11

\* Time and a crash lose only what has not been read.
LEMMA LossSeen ==
  ASSUME IInv, ReceiverCrash \/ Tick
  PROVE  C!Expiry
<1>1. UNCHANGED <<pushed, read, got>> /\ taken' \subseteq taken
  BY DEF ReceiverCrash, Tick, receiveVars
<1>2. \A c \in Channels : ToSet(list'[c]) \subseteq ToSet(list[c])
  BY ElementsOfEmpty DEF ReceiverCrash, Tick
<1>3. \A k \in DataKeys : ttl[k] = Absent => ttl'[k] = Absent
  BY DEF ReceiverCrash, Tick, OneSecondLess
<1>4. ASSUME NEW c \in Channels, NEW i \in 1 .. Len(pushed[c])
      PROVE  /\ LostAt(c, i) => LostAt(c, i)'
             /\ LostAt(c, i)' => LostAt(c, i) \/ i \in read[c] + 1 .. Len(pushed[c])
  <2>1. pushed[c][i] \in DataKeys /\ target[pushed[c][i]] = c
    BY ChannelFacts
  <2>2. LostAt(c, i) => LostAt(c, i)'
    BY <1>1, <1>2, <1>3, <2>1 DEF LostAt
  <2>3. ASSUME pushed[c][i] \in ToSet(list[c]) PROVE i \in read[c] + 1 .. Len(pushed[c])
    <3>1. i > Behind(c)
      BY <2>3, ListFacts
    <3>2. /\ read[c] <= Behind(c) /\ read[c] \in Nat /\ Behind(c) \in Nat
          /\ Len(pushed[c]) \in Nat
      BY ChannelFacts DEF IInv, ChannelOK, ReadOK
    <3> QED BY <3>1, <3>2
  <2>4. ASSUME pushed[c][i] \in taken PROVE i \in read[c] + 1 .. Len(pushed[c])
    <3>1. PICK p \in read[c] + 1 .. Behind(c) : pushed[c][p] = pushed[c][i]
      BY <2>1, <2>4 DEF IInv, ChannelOK, ReadOK
    <3>2. /\ read[c] \in Nat /\ Behind(c) \in Nat /\ Len(pushed[c]) \in Nat
          /\ Behind(c) <= Len(pushed[c])
      <4>1. /\ read[c] \in Nat /\ Behind(c) \in Nat /\ Len(pushed[c]) \in Nat
            /\ Len(list[c]) \in Nat /\ Behind(c) + Len(list[c]) = Len(pushed[c])
        BY ChannelFacts
      <4> QED BY <4>1
    <3>3. p \in 1 .. Len(pushed[c])
      BY <3>2
    <3>4. p = i
      BY <3>1, <3>3, ChannelFacts
    <3> QED BY <3>2, <3>4
  <2>5. LostAt(c, i)' => LostAt(c, i) \/ pushed[c][i] \in ToSet(list[c]) \cup taken
    BY <1>1 DEF LostAt
  <2> QED BY <2>2, <2>3, <2>4, <2>5
<1>5. \A c \in Channels : Lost(c)' = {i \in 1 .. Len(pushed[c]) : LostAt(c, i)'}
  BY <1>1 DEF Lost, LostAt
<1>6. ASSUME NEW c \in Channels
      PROVE  /\ Lost(c)' \in SUBSET (1 .. Cardinality(DataKeys))
             /\ Lost(c) \subseteq Lost(c)'
             /\ Lost(c)' \subseteq Lost(c) \cup (read[c] + 1 .. Len(pushed[c]))
  <2>1. \A i \in 1 .. Len(pushed[c]) : i \in 1 .. Cardinality(DataKeys)
    BY RoomForMessages, ChannelFacts
  <2> QED BY <1>4, <1>5, <2>1, LostFacts
<1> QED BY <1>1, <1>6 DEF C!Expiry, C!Unread

\* The four commands of a Send and the two of a ReceiveMany, among those of any number of
\* others and with keys that expire, do what the abstract channel layer does.
THEOREM ImplementsChannelLayer == Spec => ChannelLayerRefinement
<1>1. Init => C!ChannelInit
  <2> SUFFICES ASSUME Init PROVE C!ChannelInit
    OBVIOUS
  <2>1. \A c \in Channels : Lost(c) = {}
    <3>1. \A c \in Channels : 1 .. Len(pushed[c]) = {}
      BY ElementsOfEmpty DEF Init
    <3> QED BY <3>1 DEF Lost
  <2> QED BY <2>1 DEF Init, C!ChannelInit
<1>2. IInv /\ [Next]_vars => [C!ChannelNext]_(C!channelVars)
  <2> SUFFICES ASSUME IInv, [Next]_vars
               PROVE  C!ChannelNext \/ UNCHANGED C!channelVars
    OBVIOUS
  <2>1. CASE UNCHANGED vars
    BY <2>1 DEF vars, sendVars, receiveVars, C!channelVars, Lost
  <2>2. CASE \E k \in DataKeys : Send(k)
    BY <2>2, QuietCommandSeen, RpushSeen DEF Send, C!ChannelNext
  <2>3. CASE ReceiveMany
    BY <2>3, BlpopSeen, GetSeen DEF ReceiveMany, C!ChannelNext
  <2>4. CASE ReceiverCrash \/ Tick
    BY <2>4, LossSeen DEF C!ChannelNext
  <2> QED BY <2>1, <2>2, <2>3, <2>4 DEF Next
<1> QED
  BY <1>1, <1>2, Invariance, PTL DEF Spec, ChannelLayerRefinement, C!ChannelSpec

=============================================================================

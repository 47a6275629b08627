--------------------------- MODULE SequenceLemmas ---------------------------
(***************************************************************************)
(* What the sequence operators of the models do to the elements of a       *)
(* sequence and to their number, for sequences without repetition: the     *)
(* vectors and the lists of this system hold everything once.  Then        *)
(* induction over numbers and sequences, and what a fold computes.         *)
(***************************************************************************)
EXTENDS SequencesExt, SequenceTheorems, FiniteSetTheorems, WellFoundedInduction, TLAPS

\* The elements are those at the places 1 to Len(s).
LEMMA ElementsOf ==
  ASSUME NEW S, NEW s \in Seq(S)
  PROVE  /\ DOMAIN s = 1 .. Len(s)
         /\ ToSet(s) = {s[i] : i \in 1 .. Len(s)}
         /\ ToSet(s) \subseteq S
<1>1. Len(s) \in Nat /\ DOMAIN s = 1 .. Len(s) /\ s \in [1 .. Len(s) -> S]
  BY LenProperties
<1> QED BY <1>1 DEF ToSet

\* A function on an initial segment of the naturals is a sequence as long.
LEMMA FunctionIsSequence ==
  ASSUME NEW S, NEW n \in Nat, NEW f \in [1 .. n -> S]
  PROVE  f \in Seq(S) /\ Len(f) = n
<1>1. f \in Seq(S)
  BY SeqDef
<1>2. DOMAIN f = 1 .. Len(f) /\ Len(f) \in Nat
  BY <1>1, LenProperties
<1> QED BY <1>1, <1>2

LEMMA ElementsOfEmpty ==
  ToSet(<< >>) = {} /\ IsInjective(<< >>) /\ Len(<< >>) = 0 /\ \A S : << >> \in Seq(S)
<1>1. Len(<< >>) = 0 /\ \A S : << >> \in Seq(S)
  BY EmptySeq
<1>2. DOMAIN << >> = {}
  <2>1. DOMAIN << >> = 1 .. Len(<< >>)
    BY <1>1, LenProperties
  <2> QED BY <1>1, <2>1
<1> QED BY <1>1, <1>2 DEF ToSet, IsInjective

\* An append adds one element, and no repetition unless it was there.
LEMMA ElementsOfAppend ==
  ASSUME NEW S, NEW s \in Seq(S), NEW e \in S
  PROVE  /\ Append(s, e) \in Seq(S)
         /\ Len(Append(s, e)) = Len(s) + 1
         /\ ToSet(Append(s, e)) = ToSet(s) \cup {e}
         /\ IsInjective(s) /\ e \notin ToSet(s) => IsInjective(Append(s, e))
<1> DEFINE t == Append(s, e)
<1>1. /\ t \in Seq(S) /\ Len(s) \in Nat /\ Len(t) = Len(s) + 1
      /\ \A i \in 1 .. Len(s) : t[i] = s[i]
      /\ t[Len(s) + 1] = e
  BY AppendProperties, LenProperties
<1> HIDE DEF t
<1>2. /\ DOMAIN s = 1 .. Len(s) /\ ToSet(s) = {s[i] : i \in 1 .. Len(s)}
      /\ DOMAIN t = 1 .. Len(t) /\ ToSet(t) = {t[i] : i \in 1 .. Len(t)}
  BY <1>1, ElementsOf
<1>3. ToSet(t) = ToSet(s) \cup {e}
  <2>1. ASSUME NEW x \in ToSet(t) PROVE x \in ToSet(s) \cup {e}
    <3>1. PICK i \in 1 .. Len(t) : x = t[i]
      BY <1>2, <2>1
    <3>2. i \in 1 .. Len(s) \/ i = Len(s) + 1
      BY <1>1
    <3> QED BY <1>1, <1>2, <3>1, <3>2
  <2>2. ASSUME NEW x \in ToSet(s) PROVE x \in ToSet(t)
    <3>1. PICK i \in 1 .. Len(s) : x = s[i]
      BY <1>2, <2>2
    <3>2. i \in 1 .. Len(t) /\ t[i] = x
      BY <1>1, <3>1
    <3> QED BY <1>2, <3>2
  <2>3. e \in ToSet(t)
    BY <1>1, <1>2
  <2> QED BY <2>1, <2>2, <2>3
<1>4. ASSUME IsInjective(s), e \notin ToSet(s) PROVE IsInjective(t)
  <2> SUFFICES ASSUME NEW a \in 1 .. Len(t), NEW b \in 1 .. Len(t), t[a] = t[b]
               PROVE  a = b
    BY <1>2 DEF IsInjective
  <2>1. CASE a \in 1 .. Len(s) /\ b \in 1 .. Len(s)
    BY <1>1, <1>2, <1>4, <2>1 DEF IsInjective
  <2>2. CASE a = Len(s) + 1 \/ b = Len(s) + 1
    <3>1. \A i \in 1 .. Len(s) : t[i] # e
      BY <1>1, <1>2, <1>4
    <3> QED BY <1>1, <2>2, <3>1
  <2> QED BY <1>1, <2>1, <2>2
<1> QED BY <1>1, <1>3, <1>4 DEF t

\* Erasing place k takes that element out, and nothing else moves in.
LEMMA ElementsOfRemoveAt ==
  ASSUME NEW S, NEW s \in Seq(S), IsInjective(s), NEW k \in 1 .. Len(s)
  PROVE  /\ RemoveAt(s, k) \in Seq(S)
         /\ Len(RemoveAt(s, k)) = Len(s) - 1
         /\ ToSet(RemoveAt(s, k)) = ToSet(s) \ {s[k]}
         /\ IsInjective(RemoveAt(s, k))
<1> DEFINE len == Len(s)
           front == SubSeq(s, 1, k - 1)
           back == SubSeq(s, k + 1, len)
           t == RemoveAt(s, k)
<1>1. /\ len \in Nat /\ k \in Nat /\ k <= len /\ 1 <= k
      /\ \A i \in 1 .. len : s[i] \in S
      /\ DOMAIN s = 1 .. len /\ ToSet(s) = {s[i] : i \in 1 .. len}
  BY LenProperties, ElementOfSeq, ElementsOf
<1>2. len \in Nat /\ k \in Nat /\ k <= len /\ 1 <= k
  BY <1>1
<1>3. /\ front \in Seq(S) /\ Len(front) = k - 1
      /\ \A i \in 1 .. k - 1 : front[i] = s[i]
  <2>1. \A i \in 1 .. k - 1 : s[i] \in S
    BY <1>1
  <2>2. 1 \in Int /\ k - 1 \in Int
    BY <1>1
  <2>3. /\ front \in Seq(S)
        /\ Len(front) = IF 1 <= k - 1 THEN (k - 1) - 1 + 1 ELSE 0
        /\ \A i \in 1 .. (k - 1) - 1 + 1 : front[i] = s[1 + i - 1]
    BY <2>1, <2>2, SubSeqProperties
  <2> QED BY <1>1, <2>3
<1>4. /\ back \in Seq(S) /\ Len(back) = len - k
      /\ \A i \in 1 .. len - k : back[i] = s[k + i]
  <2>1. \A i \in k + 1 .. len : s[i] \in S
    BY <1>1
  <2>2. k + 1 \in Int /\ len \in Int
    BY <1>1
  <2>3. /\ back \in Seq(S)
        /\ Len(back) = IF k + 1 <= len THEN len - (k + 1) + 1 ELSE 0
        /\ \A i \in 1 .. len - (k + 1) + 1 : back[i] = s[(k + 1) + i - 1]
    BY <2>1, <2>2, SubSeqProperties
  <2> HIDE DEF back
  <2>4. Len(back) = len - k
    <3>1. Len(back) = IF k + 1 <= len THEN len - (k + 1) + 1 ELSE 0
      BY <2>3
    <3> HIDE DEF len
    <3> QED BY <1>2, <3>1
  <2>5. ASSUME NEW i \in 1 .. len - k PROVE back[i] = s[k + i]
    <3>1. i \in 1 .. len - (k + 1) + 1 /\ (k + 1) + i - 1 = k + i
      BY <1>1
    <3> QED BY <2>3, <3>1
  <2> QED BY <2>3, <2>4, <2>5
<1> HIDE DEF front, back, t
<1>5. /\ t \in Seq(S) /\ Len(t) = len - 1
      /\ \A i \in 1 .. len - 1 : t[i] = IF i < k THEN s[i] ELSE s[i + 1]
  <2>1. t = front \o back
    BY DEF t, RemoveAt, front, back
  <2>2. /\ t \in Seq(S) /\ Len(t) = Len(front) + Len(back)
        /\ \A i \in 1 .. Len(front) + Len(back) :
              t[i] = IF i <= Len(front) THEN front[i] ELSE back[i - Len(front)]
    BY <1>3, <1>4, <2>1, ConcatProperties
  <2>3. Len(front) = k - 1 /\ Len(back) = len - k
    BY <1>3, <1>4
  <2>4. ASSUME NEW i \in 1 .. len - 1
        PROVE  t[i] = IF i < k THEN s[i] ELSE s[i + 1]
    <3>1. CASE i < k
      <4>1. i \in 1 .. Len(front) + Len(back) /\ i <= Len(front) /\ i \in 1 .. k - 1
        BY <1>2, <1>3, <1>4, <2>3, <3>1
      <4> QED BY <1>3, <2>2, <3>1, <4>1
    <3>2. CASE ~(i < k)
      <4>1. i - (k - 1) \in 1 .. len - k /\ k + (i - (k - 1)) = i + 1
        BY <1>1, <3>2
      <4>2. /\ i \in 1 .. Len(front) + Len(back) /\ ~(i <= Len(front))
            /\ i - Len(front) = i - (k - 1)
        BY <1>2, <1>3, <1>4, <2>3, <3>2
      <4>3. t[i] = back[i - (k - 1)]
        BY <2>2, <4>2
      <4> QED BY <1>4, <3>2, <4>1, <4>3
    <3> QED BY <3>1, <3>2
  <2> QED BY <1>2, <1>3, <1>4, <2>2, <2>3, <2>4
<1>6. DOMAIN t = 1 .. len - 1 /\ ToSet(t) = {t[i] : i \in 1 .. len - 1}
  BY <1>5, ElementsOf
<1>7. ToSet(t) = ToSet(s) \ {s[k]}
  <2>1. ASSUME NEW x \in ToSet(t) PROVE x \in ToSet(s) /\ x # s[k]
    <3>1. PICK i \in 1 .. len - 1 : x = t[i]
      BY <1>6, <2>1
    <3>2. PICK j \in 1 .. len : j # k /\ x = s[j]
      BY <1>1, <1>5, <3>1
    <3> QED BY <1>1, <3>2 DEF IsInjective
  <2>2. ASSUME NEW x \in ToSet(s), x # s[k] PROVE x \in ToSet(t)
    <3>1. PICK j \in 1 .. len : x = s[j]
      BY <1>1, <2>2
    <3>2. CASE j < k
      BY <1>1, <1>5, <1>6, <3>1, <3>2
    <3>3. CASE j > k
      <4>1. j - 1 \in 1 .. len - 1 /\ ~(j - 1 < k) /\ (j - 1) + 1 = j
        BY <1>1, <3>3
      <4>2. t[j - 1] = s[j]
        BY <1>5, <4>1
      <4> QED BY <1>6, <3>1, <4>1, <4>2
    <3> QED BY <1>1, <2>2, <3>1, <3>2, <3>3
  <2> QED BY <2>1, <2>2
<1>8. IsInjective(t)
  <2> SUFFICES ASSUME NEW a \in 1 .. len - 1, NEW b \in 1 .. len - 1, t[a] = t[b]
               PROVE  a = b
    BY <1>6 DEF IsInjective
  <2> DEFINE at(i) == IF i < k THEN i ELSE i + 1
  <2>1. at(a) \in 1 .. len /\ at(b) \in 1 .. len
    BY <1>1
  <2>2. s[at(a)] = s[at(b)]
    BY <1>5
  <2>3. at(a) = at(b)
    BY <1>1, <2>1, <2>2 DEF IsInjective
  <2> QED BY <1>1, <2>3
<1> QED BY <1>5, <1>7, <1>8 DEF t

\* Taking the head leaves the other elements.
LEMMA ElementsOfTail ==
  ASSUME NEW S, NEW s \in Seq(S), s # << >>
  PROVE  /\ Tail(s) \in Seq(S)
         /\ Len(s) \in Nat \ {0}
         /\ Len(Tail(s)) = Len(s) - 1
         /\ \A i \in 1 .. Len(s) - 1 : Tail(s)[i] = s[i + 1]
         /\ Head(s) = s[1] /\ Head(s) \in ToSet(s)
         /\ ToSet(s) = ToSet(Tail(s)) \cup {Head(s)}
         /\ IsInjective(s) => IsInjective(Tail(s)) /\ Head(s) \notin ToSet(Tail(s))
<1> DEFINE t == Tail(s)
<1>1. /\ Len(s) \in Nat \ {0} /\ t \in Seq(S) /\ Len(t) = Len(s) - 1
      /\ \A i \in 1 .. Len(s) - 1 : t[i] = s[i + 1]
      /\ Head(s) = s[1]
  BY EmptySeq, HeadTailProperties
<1> HIDE DEF t
<1>2. /\ DOMAIN s = 1 .. Len(s) /\ ToSet(s) = {s[i] : i \in 1 .. Len(s)}
      /\ DOMAIN t = 1 .. Len(s) - 1 /\ ToSet(t) = {t[i] : i \in 1 .. Len(s) - 1}
  BY <1>1, ElementsOf
<1>3. ToSet(s) = ToSet(t) \cup {s[1]}
  <2>1. ASSUME NEW x \in ToSet(s) PROVE x \in ToSet(t) \cup {s[1]}
    <3>1. PICK i \in 1 .. Len(s) : x = s[i]
      BY <1>2, <2>1
    <3>2. CASE i # 1
      <4>1. i - 1 \in 1 .. Len(s) - 1 /\ (i - 1) + 1 = i
        BY <1>1, <3>2
      <4>2. t[i - 1] = s[i]
        BY <1>1, <4>1
      <4> QED BY <1>2, <3>1, <4>1, <4>2
    <3> QED BY <3>1, <3>2
  <2>2. ToSet(t) \subseteq ToSet(s)
    <3> SUFFICES ASSUME NEW i \in 1 .. Len(s) - 1 PROVE t[i] \in ToSet(s)
      BY <1>2
    <3>1. i + 1 \in 1 .. Len(s) /\ t[i] = s[i + 1]
      BY <1>1
    <3> QED BY <1>2, <3>1
  <2>3. s[1] \in ToSet(s)
    BY <1>1, <1>2
  <2> QED BY <2>1, <2>2, <2>3
<1>4. ASSUME IsInjective(s) PROVE IsInjective(t) /\ s[1] \notin ToSet(t)
  <2>1. \A i \in 1 .. Len(s) - 1 : i + 1 \in 1 .. Len(s) /\ i + 1 # 1 /\ t[i] = s[i + 1]
    BY <1>1
  <2>2. 1 \in 1 .. Len(s)
    BY <1>1
  <2>3. ASSUME NEW i \in 1 .. Len(s) - 1 PROVE t[i] # s[1]
    BY <1>2, <1>4, <2>1, <2>2 DEF IsInjective
  <2>4. ASSUME NEW a \in 1 .. Len(s) - 1, NEW b \in 1 .. Len(s) - 1, t[a] = t[b]
        PROVE  a = b
    <3>1. s[a + 1] = s[b + 1]
      BY <2>1, <2>4
    <3>2. a + 1 = b + 1
      BY <1>2, <1>4, <2>1, <3>1 DEF IsInjective
    <3> QED BY <3>2
  <2> QED BY <1>2, <2>3, <2>4 DEF IsInjective
<1> QED BY <1>1, <1>2, <1>3, <1>4 DEF t

\* Without repetition there are as many elements as places.
LEMMA CardinalityOfElements ==
  ASSUME NEW S, NEW s \in Seq(S), IsInjective(s)
  PROVE  IsFiniteSet(ToSet(s)) /\ Cardinality(ToSet(s)) = Len(s)
<1>1. /\ Len(s) \in Nat /\ DOMAIN s = 1 .. Len(s)
      /\ ToSet(s) = {s[i] : i \in 1 .. Len(s)} /\ s \in [1 .. Len(s) -> S]
  BY LenProperties, ElementsOf
<1>2. s \in [1 .. Len(s) -> ToSet(s)]
  BY <1>1
<1>3. s \in Bijection(1 .. Len(s), ToSet(s))
  BY <1>1, <1>2 DEF Bijection, Injection, Surjection, IsInjective
<1>4. ExistsBijection(1 .. Len(s), ToSet(s))
  BY <1>3 DEF ExistsBijection
<1>5. IsFiniteSet(ToSet(s))
  BY <1>1, <1>4, FS_NatBijection
<1> QED BY <1>1, <1>4, <1>5, FS_CountingElements

\* A concatenation has the elements of both.
LEMMA ElementsOfConcat ==
  ASSUME NEW S, NEW s \in Seq(S), NEW t \in Seq(S)
  PROVE  ToSet(s \o t) = ToSet(s) \cup ToSet(t)
<1>1. /\ s \o t \in Seq(S) /\ Len(s) \in Nat /\ Len(t) \in Nat
      /\ Len(s \o t) = Len(s) + Len(t)
      /\ \A i \in 1 .. Len(s) + Len(t) :
            (s \o t)[i] = IF i <= Len(s) THEN s[i] ELSE t[i - Len(s)]
  BY ConcatProperties, LenProperties
<1>2. PICK u \in Seq(S) : u = s \o t
  BY <1>1
<1>3. /\ Len(u) = Len(s) + Len(t)
      /\ \A i \in 1 .. Len(s) : u[i] = s[i]
      /\ \A i \in 1 .. Len(t) : u[i + Len(s)] = t[i]
      /\ \A i \in 1 .. Len(u) : i > Len(s) => i - Len(s) \in 1 .. Len(t) /\ u[i] = t[i - Len(s)]
  BY <1>1, <1>2
<1>4. /\ ToSet(s) = {s[i] : i \in 1 .. Len(s)} /\ ToSet(t) = {t[i] : i \in 1 .. Len(t)}
      /\ ToSet(u) = {u[i] : i \in 1 .. Len(u)}
  BY ElementsOf
<1>5. \A i \in 1 .. Len(s) : i \in 1 .. Len(u)
  BY <1>1, <1>3
<1>6. \A i \in 1 .. Len(t) : i + Len(s) \in 1 .. Len(u)
  BY <1>1, <1>3
<1>7. \A i \in 1 .. Len(u) : i \in 1 .. Len(s) \/ i > Len(s)
  BY <1>1, <1>3
<1>8. ToSet(s) \subseteq ToSet(u)
  BY <1>3, <1>4, <1>5
<1>9. ToSet(t) \subseteq ToSet(u)
  BY <1>3, <1>4, <1>6
<1>10. ToSet(u) \subseteq ToSet(s) \cup ToSet(t)
  BY <1>3, <1>4, <1>7
<1> QED BY <1>2, <1>8, <1>9, <1>10

-----------------------------------------------------------------------------
(* Induction.  The theorems of the library take the property to prove as   *)
(* an operator, which no prover at hand instantiates; that a well-founded  *)
(* relation has minimal elements (WFMin) is a statement about sets, and    *)
(* induction over the set where the property holds follows from it.        *)

\* A set of numbers has a smallest one.
LEMMA Smallest ==
  ASSUME NEW T \in SUBSET Nat, T # {}
  PROVE  \E x \in T : \A y \in T : x <= y
<1> DEFINE less == {ss \in Nat \X Nat : ss[1] < ss[2]}
<1>1. IsWellFoundedOn(less, Nat)
  <2>1. less = OpToRel(<, Nat)
    BY DEF OpToRel
  <2> QED BY <2>1, NatLessThanWellFounded, Zenon
<1> HIDE DEF less
<1>2. PICK x \in T : \A y \in T : ~ (<<y, x>> \in less)
  BY <1>1, WFMin
<1>3. \A y \in T : ~(y < x)
  BY <1>2 DEF less
<1> QED BY <1>3

\* What holds of 0 and passes from every number to the next one holds up to n.
LEMMA InductionTo ==
  ASSUME NEW n \in Nat, NEW T, 0 \in T, \A k \in 0 .. n - 1 : k \in T => k + 1 \in T
  PROVE  0 .. n \subseteq T
<1> SUFFICES ASSUME ~(0 .. n \subseteq T) PROVE FALSE
  OBVIOUS
<1> DEFINE U == (0 .. n) \ T
<1>1. PICK x \in U : \A y \in U : x <= y
  <2>1. U \in SUBSET Nat /\ U # {}
    OBVIOUS
  <2> HIDE DEF U
  <2> QED BY <2>1, Smallest
<1>2. x # 0 /\ x - 1 \in 0 .. n - 1 /\ x - 1 \in 0 .. n /\ ~(x <= x - 1)
  BY <1>1
<1>3. x - 1 \in T
  BY <1>1, <1>2
<1>4. x - 1 + 1 = x
  BY <1>1
<1> QED BY <1>1, <1>2, <1>3, <1>4

\* What holds of the empty sequence and of every longer one holds of all.
LEMMA SequenceInduction ==
  ASSUME NEW S, NEW T, << >> \in T,
         \A s \in Seq(S), e \in S : s \in T => Append(s, e) \in T
  PROVE  Seq(S) \subseteq T
<1> SUFFICES ASSUME NEW t \in Seq(S) PROVE t \in T
  OBVIOUS
<1> DEFINE Good == {k \in 0 .. Len(t) : \A s \in Seq(S) : Len(s) = k => s \in T}
<1>1. Len(t) \in Nat
  BY LenProperties
<1>2. 0 \in Good
  <2>1. ASSUME NEW s \in Seq(S), Len(s) = 0 PROVE s \in T
    <3>1. s = << >>
      BY <2>1, EmptySeq
    <3> QED BY <3>1
  <2> QED BY <1>1, <2>1
<1>3. ASSUME NEW k \in 0 .. Len(t) - 1, k \in Good PROVE k + 1 \in Good
  <2>1. k + 1 \in 0 .. Len(t) /\ k \in Nat
    BY <1>1
  <2>2. ASSUME NEW s \in Seq(S), Len(s) = k + 1 PROVE s \in T
    <3>1. s # << >>
      BY <2>1, <2>2, EmptySeq
    <3>2. PICK r \in Seq(S), e \in S : s = Append(r, e)
      BY <3>1, SequenceEmptyOrAppend
    <3>3. Len(r) = k
      <4>1. Len(s) = Len(r) + 1 /\ Len(r) \in Nat
        BY <3>2, AppendProperties, LenProperties
      <4> QED BY <2>1, <2>2, <4>1
    <3> QED BY <1>3, <3>2, <3>3
  <2> QED BY <2>1, <2>2
<1>4. 0 .. Len(t) \subseteq Good
  <2> HIDE DEF Good
  <2> QED BY <1>1, <1>2, <1>3, InductionTo
<1>5. Len(t) \in Good
  <2> HIDE DEF Good
  <2> QED BY <1>1, <1>4
<1> QED BY <1>5

\* A number below all others of a set is its minimum.
LEMMA MinIs ==
  ASSUME NEW T \in SUBSET Nat, NEW m \in T, \A x \in T : m <= x
  PROVE  Min(T) = m
<1>1. m \in T /\ \A y \in T : m <= y
  OBVIOUS
<1>2. ASSUME NEW x \in T, \A y \in T : x <= y PROVE x = m
  BY <1>2
<1> QED BY <1>1, <1>2 DEF Min

\* The places of a concatenation.
LEMMA ConcatElements ==
  ASSUME NEW S, NEW s \in Seq(S), NEW t \in Seq(S)
  PROVE  /\ s \o t \in Seq(S) /\ Len(s \o t) = Len(s) + Len(t)
         /\ \A i \in 1 .. Len(s) : (s \o t)[i] = s[i]
         /\ \A i \in 1 .. Len(t) : (s \o t)[Len(s) + i] = t[i]
<1>1. Len(s) \in Nat /\ Len(t) \in Nat
  BY LenProperties
<1>2. /\ s \o t \in Seq(S) /\ Len(s \o t) = Len(s) + Len(t)
      /\ \A i \in 1 .. Len(s) + Len(t) :
            (s \o t)[i] = IF i <= Len(s) THEN s[i] ELSE t[i - Len(s)]
  BY ConcatProperties
<1>3. PICK u : u = s \o t
  OBVIOUS
<1>4. \A i \in 1 .. Len(s) : u[i] = s[i]
  BY <1>1, <1>2, <1>3
<1>5. \A i \in 1 .. Len(t) : u[Len(s) + i] = t[i]
  <2>1. ASSUME NEW i \in 1 .. Len(t) PROVE u[Len(s) + i] = t[i]
    <3>1. Len(s) + i \in 1 .. Len(s) + Len(t) /\ ~(Len(s) + i <= Len(s))
          /\ Len(s) + i - Len(s) = i
      BY <1>1
    <3> QED BY <1>2, <1>3, <3>1
  <2> QED BY <2>1
<1> QED BY <1>2, <1>3, <1>4, <1>5

\* Concatenation takes a sequence that grows at its end.
LEMMA ConcatAppend ==
  ASSUME NEW S, NEW a \in Seq(S), NEW b \in Seq(S), NEW e \in S
  PROVE  a \o Append(b, e) = Append(a \o b, e)
<1>1. Append(b, e) = b \o <<e>> /\ <<e>> \in Seq(S) /\ a \o b \in Seq(S)
  BY AppendIsConcat, ConcatProperties
<1>2. Append(a \o b, e) = (a \o b) \o <<e>>
  BY <1>1, AppendIsConcat
<1> QED BY <1>1, <1>2, ConcatAssociative

-----------------------------------------------------------------------------
(* Folds.  FoldLeft is MapThenFoldSet over the indices of a sequence,      *)
(* which is a recursive function over the sets of indices, chosen by       *)
(* CHOOSE: one exists, and it visits the states of a walk along the        *)
(* sequence.                                                               *)

\* A number above all others of a set is its maximum.
LEMMA MaxIs ==
  ASSUME NEW T \in SUBSET Nat, NEW m \in T, \A x \in T : x <= m
  PROVE  Max(T) = m
<1>1. m \in T /\ \A y \in T : m >= y
  OBVIOUS
<1>2. ASSUME NEW x \in T, \A y \in T : x >= y PROVE x = m
  BY <1>2
<1> QED BY <1>1, <1>2 DEF Max

\* Initial segments lose their last element.
LEMMA SegmentLessMax ==
  ASSUME NEW k \in Nat, k > 0
  PROVE  Max(1 .. k) = k /\ (1 .. k) \ {k} = 1 .. k - 1 /\ 1 .. k # {}
<1>1. Max(1 .. k) = k
  BY MaxIs
<1>2. (1 .. k) \ {k} = 1 .. k - 1 /\ 1 .. k # {}
  OBVIOUS
<1> QED BY <1>1, <1>2

\* A part of an initial segment has a maximum.
LEMMA MaxWithin ==
  ASSUME NEW n \in Nat, NEW T \in SUBSET (1 .. n), T # {}
  PROVE  Max(T) \in T
<1>1. PICK m \in T : \A y \in T : y <= m
  <2> DEFINE U == {n - y : y \in T}
  <2>1. U \in SUBSET Nat
    OBVIOUS
  <2>5. U # {}
    OBVIOUS
  <2>2. PICK u \in U : \A y \in U : u <= y
    BY <2>1, <2>5, Smallest
  <2>3. PICK m \in T : u = n - m
    BY <2>2
  <2>4. \A y \in T : u <= n - y
    BY <2>2
  <2> QED BY <2>3, <2>4
<1>2. T \in SUBSET Nat
  OBVIOUS
<1> QED BY <1>1, <1>2, MaxIs

\* g computes the fold of each part of 1 .. k.
IsFoldOf(g, step, start, s, k) ==
    \A T \in SUBSET (1 .. k) :
        g[T] = IF T = {} THEN start ELSE step[<<g[T \ {Max(T)}], s[Max(T)]>>]

\* MapThenFoldSet is defined by a recursive function, and there is one.
LEMMA FoldExists ==
  ASSUME NEW S, NEW E, NEW step \in [S \X E -> S], NEW start \in S, NEW s \in Seq(E)
  PROVE  \E g \in [SUBSET (1 .. Len(s)) -> S] : IsFoldOf(g, step, start, s, Len(s))
<1> DEFINE Good == {k \in 0 .. Len(s) :
                      \E g \in [SUBSET (1 .. k) -> S] : IsFoldOf(g, step, start, s, k)}
<1>1. Len(s) \in Nat
  BY LenProperties
<1>2. 0 \in Good
  <2> DEFINE g == [T \in SUBSET (1 .. 0) |-> start]
  <2>1. 1 .. 0 = {}
    OBVIOUS
  <2>2. g \in [SUBSET (1 .. 0) -> S] /\ IsFoldOf(g, step, start, s, 0)
    BY <2>1 DEF IsFoldOf
  <2>3. 0 \in 0 .. Len(s)
    BY <1>1
  <2> QED BY <2>2, <2>3
<1>3. ASSUME NEW k \in 0 .. Len(s) - 1, k \in Good PROVE k + 1 \in Good
  <2>1. k \in Nat /\ k + 1 \in 0 .. Len(s) /\ k + 1 \in 1 .. k + 1 /\ k + 1 \in 1 .. Len(s)
    BY <1>1
  <2>2. PICK g \in [SUBSET (1 .. k) -> S] : IsFoldOf(g, step, start, s, k)
    BY <1>3
  <2> DEFINE h == [T \in SUBSET (1 .. k + 1) |->
                     IF k + 1 \in T THEN step[<<g[T \ {k + 1}], s[k + 1]>>] ELSE g[T]]
  <2>3. s[k + 1] \in E
    BY <2>1, ElementOfSeq
  <2>4. ASSUME NEW T \in SUBSET (1 .. k + 1)
        PROVE  T \ {k + 1} \in SUBSET (1 .. k)
    BY <2>1
  <2>5. h \in [SUBSET (1 .. k + 1) -> S]
    <3>1. ASSUME NEW T \in SUBSET (1 .. k + 1), k + 1 \in T
          PROVE  step[<<g[T \ {k + 1}], s[k + 1]>>] \in S
      <4>1. g[T \ {k + 1}] \in S
        BY <2>4
      <4> QED BY <2>3, <4>1
    <3>2. ASSUME NEW T \in SUBSET (1 .. k + 1), k + 1 \notin T
          PROVE  g[T] \in S
      <4>1. T = T \ {k + 1}
        BY <3>2
      <4> QED BY <2>4, <4>1
    <3> QED BY <3>1, <3>2
  <2>6. ASSUME NEW T \in SUBSET (1 .. k + 1)
        PROVE  h[T] = IF T = {} THEN start ELSE step[<<h[T \ {Max(T)}], s[Max(T)]>>]
    <3>1. CASE k + 1 \in T
      <4>1. Max(T) = k + 1
        <5>1. T \in SUBSET Nat /\ \A x \in T : x <= k + 1
          BY <2>1
        <5> QED BY <3>1, <5>1, MaxIs
      <4>2. h[T \ {k + 1}] = g[T \ {k + 1}]
        <5>1. T \ {k + 1} \in SUBSET (1 .. k + 1) /\ k + 1 \notin T \ {k + 1}
          OBVIOUS
        <5> QED BY <5>1
      <4> QED BY <3>1, <4>1, <4>2
    <3>2. CASE k + 1 \notin T
      <4>1. T \in SUBSET (1 .. k) /\ h[T] = g[T]
        <5>1. T = T \ {k + 1}
          BY <3>2
        <5> QED BY <2>4, <3>2, <5>1
      <4>2. h[T \ {Max(T)}] = g[T \ {Max(T)}]
        <5>1. T \ {Max(T)} \in SUBSET (1 .. k + 1) /\ k + 1 \notin T \ {Max(T)}
          BY <3>2
        <5> QED BY <5>1
      <4> QED BY <2>2, <4>1, <4>2 DEF IsFoldOf
    <3> QED BY <3>1, <3>2
  <2> HIDE DEF h
  <2>7. IsFoldOf(h, step, start, s, k + 1)
    BY <2>6 DEF IsFoldOf
  <2> QED BY <2>1, <2>5, <2>7
<1>4. 0 .. Len(s) \subseteq Good
  <2> HIDE DEF Good
  <2> QED BY <1>1, <1>2, <1>3, InductionTo
<1>5. Len(s) \in Good
  <2> HIDE DEF Good
  <2> QED BY <1>1, <1>4
<1> QED BY <1>5

\* g follows the fold as long as it stays within the states S.
FollowsFold(g, S, E, step, start, s) ==
    /\ step \in [S \X E -> S] /\ start \in S /\ s \in Seq(E)
    /\ g[{}] = start
    /\ \A T \in SUBSET (1 .. Len(s)) : T # {} /\ g[T \ {Max(T)}] \in S =>
          g[T] = step[<<g[T \ {Max(T)}], s[Max(T)]>>]

\* w is the states from start along s.
IsWalk(w, step, start, s) ==
    /\ w[0] = start
    /\ \A k \in 1 .. Len(s) : w[k] = step[<<w[k - 1], s[k]>>]

\* A fold visits its states in order.
LEMMA WalkOfFold ==
  ASSUME NEW S, NEW E, NEW step, NEW start, NEW s, NEW g, FollowsFold(g, S, E, step, start, s)
  PROVE  \E w \in [0 .. Len(s) -> S] :
            IsWalk(w, step, start, s) /\ w[Len(s)] = g[1 .. Len(s)]
<1> DEFINE w == [k \in 0 .. Len(s) |-> g[1 .. k]]
           Good == {k \in 0 .. Len(s) : g[1 .. k] \in S}
<1>0. step \in [S \X E -> S] /\ start \in S /\ s \in Seq(E)
  BY DEF FollowsFold
<1>1. Len(s) \in Nat
  BY <1>0, LenProperties
<1>2. g[1 .. 0] = start
  <2>1. 1 .. 0 = {}
    OBVIOUS
  <2> QED BY <2>1 DEF FollowsFold
<1>3. ASSUME NEW k \in 1 .. Len(s), g[1 .. k - 1] \in S
      PROVE  g[1 .. k] = step[<<g[1 .. k - 1], s[k]>>] /\ g[1 .. k] \in S
  <2>1. k \in Nat /\ k > 0 /\ 1 .. k \in SUBSET (1 .. Len(s))
    BY <1>1
  <2>2. g[1 .. k] = step[<<g[1 .. k - 1], s[k]>>]
    BY <1>3, <2>1, SegmentLessMax DEF FollowsFold
  <2>3. s[k] \in E
    BY <1>0, ElementOfSeq
  <2> QED BY <1>0, <1>3, <2>2, <2>3
<1>4. 0 .. Len(s) \subseteq Good
  <2>1. 0 \in Good
    BY <1>0, <1>1, <1>2
  <2>2. ASSUME NEW k \in 0 .. Len(s) - 1, k \in Good PROVE k + 1 \in Good
    <3>1. k + 1 \in 1 .. Len(s) /\ k + 1 \in 0 .. Len(s) /\ (k + 1) - 1 = k
      BY <1>1
    <3> QED BY <1>3, <2>2, <3>1
  <2> HIDE DEF Good
  <2> QED BY <1>1, <2>1, <2>2, InductionTo
<1>5. w \in [0 .. Len(s) -> S]
  BY <1>4
<1>6. ASSUME NEW k \in 1 .. Len(s) PROVE w[k] = step[<<w[k - 1], s[k]>>]
  <2>1. k \in 0 .. Len(s) /\ k - 1 \in 0 .. Len(s)
    BY <1>1
  <2>2. g[1 .. k - 1] \in S
    BY <1>4, <2>1
  <2> QED BY <1>3, <2>1, <2>2
<1>7. w[0] = start /\ w[Len(s)] = g[1 .. Len(s)]
  <2>1. 0 \in 0 .. Len(s) /\ Len(s) \in 0 .. Len(s)
    BY <1>1
  <2> QED BY <1>2, <2>1
<1> HIDE DEF w
<1> QED BY <1>5, <1>6, <1>7 DEF IsWalk

\* A walk along a longer sequence starts as the walk along the shorter one.
LEMMA WalkAppend ==
  ASSUME NEW S, NEW E, NEW step, NEW start, NEW s \in Seq(E), NEW e \in E, NEW w, NEW x,
         IsWalk(w, step, start, s), IsWalk(x, step, start, Append(s, e))
  PROVE  x[Len(Append(s, e))] = step[<<w[Len(s)], e>>]
<1> DEFINE Good == {k \in 0 .. Len(s) : x[k] = w[k]}
<1>1. Len(s) \in Nat
  BY LenProperties
<1>2. /\ Len(Append(s, e)) = Len(s) + 1 /\ Append(s, e)[Len(s) + 1] = e
      /\ \A i \in 1 .. Len(s) : Append(s, e)[i] = s[i]
  BY AppendProperties
<1>3. 0 \in Good
  BY <1>1 DEF IsWalk
<1>4. ASSUME NEW k \in 0 .. Len(s) - 1, k \in Good PROVE k + 1 \in Good
  <2>1. /\ k + 1 \in 1 .. Len(s) /\ k + 1 \in 0 .. Len(s) /\ (k + 1) - 1 = k
        /\ k + 1 \in 1 .. Len(s) + 1
    BY <1>1
  <2>2. x[k + 1] = step[<<x[k], s[k + 1]>>] /\ w[k + 1] = step[<<w[k], s[k + 1]>>]
    BY <1>2, <2>1 DEF IsWalk
  <2> QED BY <1>4, <2>1, <2>2
<1>5. x[Len(s)] = w[Len(s)]
  <2>1. 0 .. Len(s) \subseteq Good
    <3> HIDE DEF Good
    <3> QED BY <1>1, <1>3, <1>4, InductionTo
  <2>2. Len(s) \in 0 .. Len(s)
    BY <1>1
  <2> QED BY <2>1, <2>2
<1>6. x[Len(s) + 1] = step[<<x[Len(s)], e>>]
  <2>1. Len(s) + 1 \in 1 .. Len(s) + 1 /\ (Len(s) + 1) - 1 = Len(s)
    BY <1>1
  <2> QED BY <1>2, <2>1 DEF IsWalk
<1> QED BY <1>2, <1>5, <1>6

=============================================================================

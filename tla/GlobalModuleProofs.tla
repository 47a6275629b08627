------------------------- MODULE GlobalModuleProofs -------------------------
(***************************************************************************)
(* Safety of GlobalModule for every set of applications and pools and      *)
(* every configuration of them.                                            *)
(*                                                                         *)
(* The inductive invariant says what m_pools is between two notifications  *)
(* and within one: which pools exist, for which application each was made, *)
(* and how far the one being loaded has come.  What a pool's processes do  *)
(* meanwhile is the contract's.  The second half is about the command      *)
(* lines: EscapeArgument and the rules of Windows undo each other on every *)
(* string, by induction along it.                                          *)
(***************************************************************************)
EXTENDS GlobalModule, SequenceLemmas

\* Whatever exists is in the vector, once, and has no life outside of it.
VectorOK ==
    /\ IsInjective(m_pools)
    /\ {p \in Pools : Exists(p)} = ToSet(m_pools)
    /\ \A p \in Pools : alive[p] # {} => Exists(p)

\* A pool was made for an application that is up, and no two for one element.
MadeForOK ==
    /\ \A p \in Pools : Exists(p) => made_for[p] # NoElement
    /\ \A p \in Pools : Exists(p) => application[made_for[p][1]] # "stopped"
    /\ \A p, q \in Pools : Exists(p) /\ Exists(q) /\ made_for[p] = made_for[q] => p = q

\* While an application is loaded, its pools are those of the elements behind.
LoadOK ==
    pc = "load" =>
        /\ \A a \in serving : application[a] = "starting"
        /\ \A p \in Pools : Exists(p) /\ made_for[p][1] \in serving =>
              made_for[p][2] <= element_idx

ModuleOK == VectorOK /\ MadeForOK /\ LoadOK

IInv ==
    /\ ModuleTypeOK
    /\ pc # "crashed" => ModuleOK
    /\ pc = "join" => m_pools # << >>

\* The size_t of a pool.
LEMMA NumProcessesType == ASSUME NEW n \in Int PROVE NumProcesses(n) \in Nat
BY GlobalAssumption DEF NumProcesses

\* An element that a pool was made for.
LEMMA MadeForType ==
  ASSUME ModuleTypeOK, NEW p \in Pools, made_for[p] # NoElement
  PROVE  /\ made_for[p] \in Applications \X Nat
         /\ made_for[p][1] \in Applications /\ made_for[p][2] \in Nat
BY DEF ModuleTypeOK

LEMMA InitIInv == ASSUME Init PROVE IInv
<1>1. IsInjective(m_pools) /\ ToSet(m_pools) = {} /\ m_pools \in Seq(Pools)
  BY ElementsOfEmpty DEF Init
<1>2. ModuleTypeOK
  BY <1>1, GlobalAssumption DEF Init, ModuleTypeOK, ContractTypeOK
<1>3. \A p \in Pools : ~Exists(p) /\ alive[p] = {}
  BY DEF Init, Exists
<1> QED
  BY <1>1, <1>2, <1>3 DEF Init, IInv, ModuleOK, VectorOK, MadeForOK, LoadOK

-----------------------------------------------------------------------------
(* Nothing changes what exists and what it is for. *)

LEMMA SamePools ==
  ASSUME ModuleOK, UNCHANGED <<m_pools, made_for, application>>,
         \A p \in Pools : Exists(p)' <=> Exists(p),
         \A p \in Pools : alive'[p] # {} => Exists(p)
  PROVE  VectorOK' /\ MadeForOK'
BY DEF ModuleOK, VectorOK, MadeForOK

LEMMA StartOK ==
  ASSUME IInv, NEW a \in Applications, OnGlobalApplicationStart(a)
  PROVE  IInv'
<1>1. /\ pc = "idle" /\ pc' = "load" /\ serving' = {a} /\ application[a] = "stopped"
      /\ application' = [application EXCEPT ![a] = "starting"]
      /\ UNCHANGED <<m_pools, made_for, phase, alive>>
      /\ ModuleOK
  BY DEF OnGlobalApplicationStart, IInv, contractVars
<1>2. ModuleTypeOK'
  BY <1>1 DEF OnGlobalApplicationStart, IInv, ModuleTypeOK, ContractTypeOK, contractVars
<1>3. \A p \in Pools : Exists(p)' <=> Exists(p)
  BY <1>1 DEF Exists
<1>4. \A p \in Pools : Exists(p) => made_for[p][1] \in Applications /\ made_for[p][1] # a
  BY <1>1, MadeForType DEF IInv, ModuleOK, MadeForOK
<1>5. VectorOK'
  BY <1>1, <1>3 DEF ModuleOK, VectorOK
<1>6. MadeForOK'
  BY <1>1, <1>3, <1>4 DEF ModuleOK, MadeForOK, IInv, ModuleTypeOK
<1>7. LoadOK'
  BY <1>1, <1>3, <1>4 DEF LoadOK, IInv, ModuleTypeOK
<1> QED BY <1>1, <1>2, <1>5, <1>6, <1>7 DEF IInv, ModuleOK

LEMMA LoadElementOK ==
  ASSUME IInv, NEW a \in Applications, LoadElement(a)
  PROVE  IInv'
<1>1. /\ pc = "load" /\ pc' = "load" /\ a \in serving /\ serving' = serving
      /\ element_idx < Len(config[a]) /\ element_idx' = element_idx + 1
      /\ UNCHANGED <<config, application>> /\ element_idx \in Nat
      /\ ModuleOK /\ application[a] = "starting"
  BY DEF LoadElement, NextElement, IInv, ModuleOK, LoadOK, ModuleTypeOK
<1> DEFINE element == config[a][element_idx + 1]
<1>2. PICK p \in Pools :
          /\ Create(p, NumProcesses(element.count))
          /\ m_pools' = Append(m_pools, p)
          /\ made_for' = [made_for EXCEPT ![p] = <<a, element_idx + 1>>]
  BY DEF LoadElement
<1>3. NumProcesses(element.count) \in Nat
  <2>1. config[a] \in Seq(Elements) /\ element_idx + 1 \in 1 .. Len(config[a])
    BY <1>1, LenProperties DEF IInv, ModuleTypeOK
  <2>2. element \in Elements
    BY <2>1, ElementOfSeq
  <2> QED BY <2>2, NumProcessesType DEF Elements
<1>4. /\ ~Exists(p) /\ alive' = alive /\ \A q \in Pools : Exists(q)' <=> Exists(q) \/ q = p
      /\ p \notin ToSet(m_pools) /\ phase' = [phase EXCEPT ![p] = "running"]
      /\ size' = [size EXCEPT ![p] = NumProcesses(element.count)]
  BY <1>1, <1>2 DEF Create, Exists, ModuleOK, VectorOK, IInv, ModuleTypeOK, ContractTypeOK
<1> HIDE DEF element
<1>5. /\ m_pools' \in Seq(Pools) /\ ToSet(m_pools') = ToSet(m_pools) \cup {p}
      /\ IsInjective(m_pools')
  BY <1>1, <1>2, <1>4, ElementsOfAppend DEF ModuleOK, VectorOK, IInv, ModuleTypeOK
<1>6. element_idx + 1 \in Nat /\ <<a, element_idx + 1>> \in Applications \X Nat
  BY <1>1
<1>7. ModuleTypeOK'
  BY <1>1, <1>2, <1>3, <1>4, <1>5, <1>6 DEF IInv, ModuleTypeOK, ContractTypeOK
<1>8. VectorOK'
  BY <1>1, <1>4, <1>5 DEF ModuleOK, VectorOK
<1>9. made_for'[p] = <<a, element_idx + 1>> /\ made_for'[p] # NoElement
      /\ \A q \in Pools : q # p => made_for'[q] = made_for[q]
  BY <1>2 DEF IInv, ModuleTypeOK, NoElement
<1>10. ASSUME NEW q \in Pools, Exists(q) PROVE made_for[q] # <<a, element_idx + 1>>
  BY <1>1, <1>10, MadeForType DEF ModuleOK, MadeForOK, LoadOK, IInv
<1>11. MadeForOK'
  <2>1. ASSUME NEW q \in Pools, Exists(q)'
        PROVE  made_for'[q] # NoElement /\ application'[made_for'[q][1]] # "stopped"
    <3>1. CASE q = p
      <4>1. made_for'[q][1] = a
        BY <1>9, <3>1
      <4> QED BY <1>1, <1>9, <3>1, <4>1
    <3>2. CASE q # p
      BY <1>1, <1>4, <1>9, <2>1, <3>2 DEF ModuleOK, MadeForOK
    <3> QED BY <3>1, <3>2
  <2>2. ASSUME NEW q \in Pools, NEW s \in Pools, Exists(q)', Exists(s)',
               made_for'[q] = made_for'[s]
        PROVE  q = s
    BY <1>1, <1>4, <1>9, <1>10, <2>2 DEF ModuleOK, MadeForOK
  <2> QED BY <2>1, <2>2 DEF MadeForOK
<1>12. LoadOK'
  <2>1. ASSUME NEW q \in Pools, Exists(q)', made_for'[q][1] \in serving
        PROVE  made_for'[q][2] <= element_idx + 1
    <3>1. CASE q = p
      BY <1>1, <1>9, <3>1
    <3>2. CASE q # p
      <4>1. made_for[q][2] <= element_idx /\ made_for[q][2] \in Nat
        BY <1>1, <1>4, <1>9, <2>1, <3>2, MadeForType
           DEF IInv, ModuleOK, MadeForOK, LoadOK
      <4> QED BY <1>1, <1>9, <3>2, <4>1
    <3> QED BY <3>1, <3>2
  <2> QED BY <1>1, <2>1 DEF LoadOK, ModuleOK
<1> QED BY <1>1, <1>7, <1>8, <1>11, <1>12 DEF IInv, ModuleOK

\* The notification returns: the application is up, or nothing exists any more.
LEMMA ReturnOK ==
  ASSUME IInv, pc # "crashed", NEW outcome \in {"started", "stopped"}, Return(outcome),
         outcome = "started" \/ m_pools = << >>
  PROVE  IInv'
<1>1. /\ ModuleOK /\ pc' = "idle"
      /\ \A p \in Pools : Exists(p)' <=> Exists(p)
      /\ UNCHANGED <<m_pools, made_for, alive>>
  BY DEF Return, IInv, contractVars, Exists
<1>2. ModuleTypeOK'
  BY DEF Return, IInv, ModuleTypeOK, ContractTypeOK, contractVars
<1>3. VectorOK'
  BY <1>1 DEF ModuleOK, VectorOK
<1>4. MadeForOK'
  <2>1. CASE outcome = "started"
    <3>1. \A b \in Applications : application[b] # "stopped" => application'[b] # "stopped"
      BY <2>1 DEF Return
    <3>2. \A p \in Pools : Exists(p) => made_for[p][1] \in Applications
      BY <1>1, MadeForType DEF IInv, ModuleOK, MadeForOK
    <3> QED BY <1>1, <3>1, <3>2 DEF ModuleOK, MadeForOK
  <2>2. CASE m_pools = << >>
    <3>1. \A p \in Pools : ~Exists(p)
      BY <1>1, <2>2, ElementsOfEmpty DEF ModuleOK, VectorOK
    <3> QED BY <1>1, <3>1 DEF MadeForOK
  <2> QED BY <2>1, <2>2
<1> QED BY <1>1, <1>2, <1>3, <1>4 DEF IInv, ModuleOK, LoadOK

\* The vector destroys its first pool, in two halves.
LEMMA StopPoolOK == ASSUME IInv, StopPool PROVE IInv'
<1>1. /\ pc = "clear" /\ pc' = "join" /\ m_pools # << >> /\ ModuleOK
      /\ UNCHANGED <<config, application, serving, element_idx, m_pools, made_for,
                     size, alive>>
      /\ phase[Head(m_pools)] = "running"
      /\ phase' = [phase EXCEPT ![Head(m_pools)] = "stopping"]
  BY DEF StopPool, Stopped, IInv
<1>2. ModuleTypeOK'
  BY <1>1 DEF IInv, ModuleTypeOK, ContractTypeOK
<1>3. \A p \in Pools : Exists(p)' <=> Exists(p)
  BY <1>1 DEF Exists, IInv, ModuleTypeOK, ContractTypeOK
<1>4. VectorOK' /\ MadeForOK'
  BY <1>1, <1>3, SamePools DEF ModuleOK, VectorOK
<1> QED BY <1>1, <1>2, <1>4 DEF IInv, ModuleOK, LoadOK

LEMMA PoolDestroyedOK == ASSUME IInv, PoolDestroyed PROVE IInv'
<1>1. /\ pc = "join" /\ pc' = "clear" /\ m_pools # << >> /\ ModuleOK
      /\ UNCHANGED <<config, application, serving, element_idx, made_for, size>>
      /\ m_pools' = Tail(m_pools) /\ m_pools \in Seq(Pools)
      /\ phase' = [phase EXCEPT ![Head(m_pools)] = "none"]
      /\ alive' = [alive EXCEPT ![Head(m_pools)] = {}]
  BY DEF PoolDestroyed, Destroyed, IInv, ModuleTypeOK
<1> DEFINE h == Head(m_pools)
<1>2. /\ m_pools' \in Seq(Pools) /\ ToSet(m_pools) = ToSet(m_pools') \cup {h}
      /\ h \in ToSet(m_pools) /\ IsInjective(m_pools') /\ h \notin ToSet(m_pools')
      /\ h \in Pools
  BY <1>1, ElementsOfTail, ElementsOf DEF ModuleOK, VectorOK
<1> HIDE DEF h
<1>3. ModuleTypeOK'
  BY <1>1, <1>2 DEF IInv, ModuleTypeOK, ContractTypeOK, h
<1>4. /\ \A p \in Pools : Exists(p)' <=> Exists(p) /\ p # h
      /\ \A p \in Pools : p # h => alive'[p] = alive[p]
      /\ alive'[h] = {}
  BY <1>1, <1>2 DEF Exists, IInv, ModuleTypeOK, ContractTypeOK, h
<1>5. VectorOK'
  BY <1>1, <1>2, <1>4 DEF ModuleOK, VectorOK
<1>6. MadeForOK'
  BY <1>1, <1>4 DEF ModuleOK, MadeForOK
<1> QED BY <1>1, <1>3, <1>5, <1>6 DEF IInv, ModuleOK, LoadOK

LEMMA StopNotificationOK ==
  ASSUME IInv, NEW a \in Applications, OnGlobalApplicationStop(a)
  PROVE  IInv'
<1>1. /\ pc = "idle" /\ pc' = "clear" /\ ModuleOK
      /\ application' = [application EXCEPT ![a] = "stopping"]
      /\ UNCHANGED <<m_pools, made_for, phase, alive>>
  BY DEF OnGlobalApplicationStop, IInv, contractVars
<1>2. ModuleTypeOK'
  BY DEF OnGlobalApplicationStop, IInv, ModuleTypeOK, ContractTypeOK, contractVars
<1>3. VectorOK'
  BY <1>1 DEF ModuleOK, VectorOK, Exists
<1>4. MadeForOK'
  BY <1>1 DEF ModuleOK, MadeForOK, Exists, IInv, ModuleTypeOK
<1> QED BY <1>1, <1>2, <1>3, <1>4 DEF IInv, ModuleOK, LoadOK

LEMMA TerminateOK == ASSUME IInv, Terminate \/ TerminateReturn PROVE IInv'
<1>1. /\ pc \in {"idle", "clear"} /\ pc' \in {"clear", "terminated"} /\ ModuleOK
      /\ UNCHANGED <<config, application, serving, element_idx, m_pools, made_for,
                     phase, size, alive>>
  BY DEF Terminate, TerminateReturn, IInv, contractVars
<1>2. ModuleTypeOK'
  BY <1>1 DEF IInv, ModuleTypeOK, ContractTypeOK
<1>3. VectorOK' /\ MadeForOK'
  BY <1>1 DEF ModuleOK, VectorOK, MadeForOK, Exists
<1> QED BY <1>1, <1>2, <1>3 DEF IInv, ModuleOK, LoadOK

\* A process starts or ends.
LEMMA PoolStepOK ==
  ASSUME IInv, NEW p \in Pools, PoolStep(p), UNCHANGED <<config, moduleVars>>
  PROVE  IInv'
<1>1. /\ UNCHANGED <<config, application, pc, serving, element_idx, m_pools, made_for,
                     phase, size>>
      /\ \A q \in Pools : Exists(q)' <=> Exists(q)
  BY DEF PoolStep, Spawn, Ends, moduleVars, Exists
<1>2. /\ alive' \in [Pools -> SUBSET Processes]
      /\ \A q \in Pools : alive'[q] # {} => alive[q] # {} \/ Exists(q)
  <2>1. alive \in [Pools -> SUBSET Processes]
    BY DEF IInv, ModuleTypeOK, ContractTypeOK
  <2>2. ASSUME NEW x \in Processes, Spawn(p, x)
        PROVE  /\ alive' \in [Pools -> SUBSET Processes]
               /\ \A q \in Pools : alive'[q] # {} => alive[q] # {} \/ Exists(q)
    BY <2>1, <2>2 DEF Spawn
  <2>3. ASSUME NEW x \in Processes, Ends(p, x)
        PROVE  /\ alive' \in [Pools -> SUBSET Processes]
               /\ \A q \in Pools : alive'[q] # {} => alive[q] # {} \/ Exists(q)
    BY <2>1, <2>3 DEF Ends
  <2> QED BY <2>2, <2>3 DEF PoolStep
<1>3. ModuleTypeOK'
  BY <1>1, <1>2 DEF IInv, ModuleTypeOK, ContractTypeOK
<1>4. ASSUME ModuleOK PROVE ModuleOK'
  <2>1. VectorOK' /\ MadeForOK'
    BY <1>1, <1>2, <1>4, SamePools DEF ModuleOK, VectorOK
  <2> QED BY <1>1, <1>4, <2>1 DEF ModuleOK, LoadOK
<1> QED BY <1>1, <1>3, <1>4 DEF IInv

LEMMA WorkerCrashOK == ASSUME IInv, WorkerCrash PROVE IInv'
<1>1. pc' = "crashed" /\ UNCHANGED <<config, application, serving, element_idx, m_pools,
                                     made_for, size>>
  BY DEF WorkerCrash, Crash
<1>2. phase' \in [Pools -> {"none", "running", "stopping", "crashed"}]
  BY DEF WorkerCrash, Crash, IInv, ModuleTypeOK, ContractTypeOK
<1>3. alive' \in [Pools -> SUBSET Processes]
  BY DEF WorkerCrash, Crash, IInv, ModuleTypeOK, ContractTypeOK
<1> QED BY <1>1, <1>2, <1>3 DEF IInv, ModuleTypeOK, ContractTypeOK

LEMMA NextIInv == ASSUME IInv, [Next]_vars PROVE IInv'
<1>1. CASE UNCHANGED vars
  BY <1>1 DEF IInv, ModuleTypeOK, ContractTypeOK, ModuleOK, VectorOK, MadeForOK, LoadOK,
     Exists, vars, moduleVars, contractVars
<1>2. CASE Module
  <2>1. CASE LoadReturns
    BY <2>1, ReturnOK DEF LoadReturns
  <2>2. CASE StopReturn
    BY <2>2, ReturnOK DEF StopReturn, Cleared
  <2> QED BY <1>2, <2>1, <2>2, LoadElementOK, StopPoolOK, TerminateOK DEF Module
<1> QED
  BY <1>1, <1>2, StartOK, StopNotificationOK, TerminateOK, PoolDestroyedOK, PoolStepOK,
     WorkerCrashOK DEF Next

\* The invariant everything else rests on.
THEOREM Invariance == Spec => []IInv
<1>1. Init => IInv
  BY InitIInv
<1>2. IInv /\ [Next]_vars => IInv'
  BY NextIInv
<1> QED BY <1>1, <1>2, PTL DEF Spec

\* Processes run for an application that is up, as configured, and whatever exists is
\* where the next stop finds it.
THEOREM OnlyAsConfigured == Spec => []ProcessesOnlyAsConfigured
<1>1. IInv => ProcessesOnlyAsConfigured
  <2> SUFFICES ASSUME IInv, pc # "crashed"
               PROVE  /\ \A p \in Pools : alive[p] # {} => \E a \in Applications :
                            p \in PoolsOf(a) /\ application[a] # "stopped"
                      /\ \A p, q \in Pools :
                            Exists(p) /\ Exists(q) /\ made_for[p] = made_for[q] => p = q
                      /\ {p \in Pools : Exists(p)} = ToSet(m_pools)
    BY DEF ProcessesOnlyAsConfigured
  <2>1. VectorOK /\ MadeForOK
    BY DEF IInv, ModuleOK
  <2>2. ASSUME NEW p \in Pools, alive[p] # {}
        PROVE  \E a \in Applications : p \in PoolsOf(a) /\ application[a] # "stopped"
    <3>1. Exists(p) /\ made_for[p] # NoElement /\ application[made_for[p][1]] # "stopped"
      BY <2>1, <2>2 DEF VectorOK, MadeForOK
    <3>2. made_for[p][1] \in Applications
      BY <3>1, MadeForType DEF IInv
    <3> QED BY <3>1, <3>2 DEF PoolsOf
  <2> QED BY <2>1, <2>2 DEF VectorOK, MadeForOK
<1> QED BY <1>1, Invariance, PTL

-----------------------------------------------------------------------------
(* The command line: writing and reading are walks along the characters.   *)

\* Where the two loops start, and the states they are in after some characters.
EscapeStart == [escaped |-> <<"quote">>, num_backslashes |-> 0]
EscapeStates == [escaped : Seq(Characters), num_backslashes : Nat]

ReadStart == [argument |-> <<>>, backslashes |-> 0, quoted |-> FALSE, ended |-> FALSE,
              rest |-> <<>>]
ReadStates == [argument : Seq(Characters), backslashes : Nat, quoted : BOOLEAN,
               ended : BOOLEAN, rest : Seq(Characters)]

\* A run of backslashes.
LEMMA BackslashesType ==
  ASSUME NEW n \in Nat
  PROVE  /\ Backslashes(n) \in Seq(Characters) /\ Len(Backslashes(n)) = n
         /\ \A i \in 1 .. n : Backslashes(n)[i] = "backslash"
<1>1. Backslashes(n) \in [1 .. n -> Characters]
  BY DEF Backslashes, Characters
<1> QED BY <1>1, FunctionIsSequence DEF Backslashes

\* The states of the walk that writes are closed under its turns,
LEMMA EscapeNextType ==
  ASSUME NEW w \in EscapeStates, NEW ch \in Characters
  PROVE  EscapeNext(w, ch) \in EscapeStates
<1>1. w.escaped \in Seq(Characters) /\ w.num_backslashes \in Nat
  BY DEF EscapeStates
<1>2. CASE ch = "backslash"
  BY <1>1, <1>2 DEF EscapeNext, EscapeStates
<1>3. CASE ch # "backslash"
  <2>1. Escapes(ch, w.num_backslashes) \in Nat
    BY <1>1 DEF Escapes
  <2>2. <<ch>> \in Seq(Characters)
    OBVIOUS
  <2>3. w.escaped \o Backslashes(Escapes(ch, w.num_backslashes)) \o <<ch>>
          \in Seq(Characters)
    BY <1>1, <2>1, <2>2, BackslashesType, ConcatProperties
  <2> QED BY <1>3, <2>3 DEF EscapeNext, EscapeStates
<1> QED BY <1>2, <1>3

\* ... and so are those of the walk that reads.
LEMMA ReadNextType ==
  ASSUME NEW r \in ReadStates, NEW ch \in Characters
  PROVE  ReadNext(r, ch) \in ReadStates
<1>1. /\ r.argument \in Seq(Characters) /\ r.backslashes \in Nat /\ r.quoted \in BOOLEAN
      /\ r.ended \in BOOLEAN /\ r.rest \in Seq(Characters)
  BY DEF ReadStates
<1>2. r.backslashes \div 2 \in Nat
  BY <1>1
<1>3. /\ r.argument \o Backslashes(r.backslashes) \in Seq(Characters)
      /\ r.argument \o Backslashes(r.backslashes \div 2) \in Seq(Characters)
  BY <1>1, <1>2, BackslashesType, ConcatProperties
<1>4. /\ Append(r.rest, ch) \in Seq(Characters)
      /\ Append(r.argument \o Backslashes(r.backslashes), ch) \in Seq(Characters)
      /\ Append(r.argument \o Backslashes(r.backslashes \div 2), ch) \in Seq(Characters)
  BY <1>1, <1>3, AppendProperties
<1>5. CASE r.ended
  BY <1>4, <1>5 DEF ReadNext, ReadStates
<1>6. CASE ~r.ended
  <2>1. CASE ch = "backslash"
    BY <1>1, <1>6, <2>1 DEF ReadNext, ReadStates
  <2>2. CASE ch = "quote"
    <3>1. CASE r.backslashes % 2 = 1
      BY <1>4, <1>6, <2>2, <3>1 DEF ReadNext, ReadStates
    <3>2. CASE r.backslashes % 2 # 1
      BY <1>3, <1>6, <2>2, <3>2 DEF ReadNext, ReadStates
    <3> QED BY <3>1, <3>2
  <2>3. CASE ch = "space" /\ ~r.quoted
    BY <1>3, <1>6, <2>3 DEF ReadNext, ReadStates
  <2>4. CASE ch # "backslash" /\ ch # "quote" /\ ~(ch = "space" /\ ~r.quoted)
    BY <1>4, <1>6, <2>4 DEF ReadNext, ReadStates
  <2> QED BY <2>1, <2>2, <2>3, <2>4
<1> QED BY <1>5, <1>6

\* Both start in one of their states.
LEMMA EscapeStartType == EscapeStart \in EscapeStates
<1>1. <<"quote">> \in Seq(Characters)
  BY DEF Characters
<1> QED BY <1>1 DEF EscapeStart, EscapeStates

\* ... where nothing has been read.
LEMMA ReadStartType == ReadStart \in ReadStates
<1>1. << >> \in Seq(Characters)
  BY EmptySeq
<1> QED BY <1>1 DEF ReadStart, ReadStates

\* The steps as functions, which the lemmas on folds take.
EscapeStep == [x \in EscapeStates \X Characters |-> EscapeNext(x[1], x[2])]
ReadStep == [x \in ReadStates \X Characters |-> ReadNext(x[1], x[2])]

\* The right-hand side of the recursive function that each fold is: g at a set T of indices.
EscapeTurn(g, T, s) == IF T = {} THEN EscapeStart ELSE EscapeNext(g[T \ {Max(T)}], s[Max(T)])
ReadTurn(g, T, r, s) == IF T = {} THEN r ELSE ReadNext(g[T \ {Max(T)}], s[Max(T)])

\* What the loops have made of s.
Escaped(s) == FoldLeft(EscapeNext, EscapeStart, s)
Reads(r, s) == FoldLeft(ReadNext, r, s)

\* A fold visits the states w, one after every character.
LEMMA EscapeWalk ==
  ASSUME NEW s \in Seq(Characters)
  PROVE  \E w \in [0 .. Len(s) -> EscapeStates] :
            IsWalk(w, EscapeStep, EscapeStart, s) /\ Escaped(s) = w[Len(s)]
<1> DEFINE g == CHOOSE g : g = [T \in SUBSET (1 .. Len(s)) |-> EscapeTurn(g, T, s)]
<1>1. Len(s) \in Nat /\ DOMAIN s = 1 .. Len(s)
  BY LenProperties
<1>2. EscapeStep \in [EscapeStates \X Characters -> EscapeStates]
  BY EscapeNextType DEF EscapeStep
<1>3. ASSUME NEW T \in SUBSET (1 .. Len(s)), T # {} PROVE s[Max(T)] \in Characters
  <2>1. Max(T) \in 1 .. Len(s)
    BY <1>1, <1>3, MaxWithin
  <2> QED BY <2>1, ElementOfSeq
<1>4. \A q \in EscapeStates, ch \in Characters : EscapeStep[<<q, ch>>] = EscapeNext(q, ch)
  BY DEF EscapeStep
<1>5. g = [T \in SUBSET (1 .. Len(s)) |-> EscapeTurn(g, T, s)]
  <2>1. PICK h \in [SUBSET (1 .. Len(s)) -> EscapeStates] :
                IsFoldOf(h, EscapeStep, EscapeStart, s, Len(s))
    BY <1>2, EscapeStartType, FoldExists
  <2>2. ASSUME NEW T \in SUBSET (1 .. Len(s)) PROVE h[T] = EscapeTurn(h, T, s)
    BY <1>3, <1>4, <2>1 DEF IsFoldOf, EscapeTurn
  <2>3. h = [T \in SUBSET (1 .. Len(s)) |-> EscapeTurn(h, T, s)]
    BY <2>2
  <2> QED BY <2>3
<1>6. Escaped(s) = g[1 .. Len(s)]
  BY <1>1 DEF Escaped, FoldLeft, MapThenFoldSet, EscapeTurn
<1> HIDE DEF g
<1>7. FollowsFold(g, EscapeStates, Characters, EscapeStep, EscapeStart, s)
  <2>1. g[{}] = EscapeStart
    BY <1>5 DEF EscapeTurn
  <2>2. ASSUME NEW T \in SUBSET (1 .. Len(s)), T # {}, g[T \ {Max(T)}] \in EscapeStates
        PROVE  g[T] = EscapeStep[<<g[T \ {Max(T)}], s[Max(T)]>>]
    BY <1>3, <1>4, <1>5, <2>2 DEF EscapeTurn
  <2> QED BY <1>2, <2>1, <2>2, EscapeStartType DEF FollowsFold
<1> QED BY <1>6, <1>7, WalkOfFold

\* ... and so does the reading.
LEMMA ReadWalk ==
  ASSUME NEW r \in ReadStates, NEW s \in Seq(Characters)
  PROVE  \E w \in [0 .. Len(s) -> ReadStates] :
            IsWalk(w, ReadStep, r, s) /\ Reads(r, s) = w[Len(s)]
<1> DEFINE g == CHOOSE g : g = [T \in SUBSET (1 .. Len(s)) |-> ReadTurn(g, T, r, s)]
<1>1. Len(s) \in Nat /\ DOMAIN s = 1 .. Len(s)
  BY LenProperties
<1>2. ReadStep \in [ReadStates \X Characters -> ReadStates]
  BY ReadNextType DEF ReadStep
<1>3. ASSUME NEW T \in SUBSET (1 .. Len(s)), T # {} PROVE s[Max(T)] \in Characters
  <2>1. Max(T) \in 1 .. Len(s)
    BY <1>1, <1>3, MaxWithin
  <2> QED BY <2>1, ElementOfSeq
<1>4. \A q \in ReadStates, ch \in Characters : ReadStep[<<q, ch>>] = ReadNext(q, ch)
  BY DEF ReadStep
<1>5. g = [T \in SUBSET (1 .. Len(s)) |-> ReadTurn(g, T, r, s)]
  <2>1. PICK h \in [SUBSET (1 .. Len(s)) -> ReadStates] :
                IsFoldOf(h, ReadStep, r, s, Len(s))
    BY <1>2, FoldExists
  <2>2. ASSUME NEW T \in SUBSET (1 .. Len(s)) PROVE h[T] = ReadTurn(h, T, r, s)
    BY <1>3, <1>4, <2>1 DEF IsFoldOf, ReadTurn
  <2>3. h = [T \in SUBSET (1 .. Len(s)) |-> ReadTurn(h, T, r, s)]
    BY <2>2
  <2> QED BY <2>3
<1>6. Reads(r, s) = g[1 .. Len(s)]
  BY <1>1 DEF Reads, FoldLeft, MapThenFoldSet, ReadTurn
<1> HIDE DEF g
<1>7. FollowsFold(g, ReadStates, Characters, ReadStep, r, s)
  <2>1. g[{}] = r
    BY <1>5 DEF ReadTurn
  <2>2. ASSUME NEW T \in SUBSET (1 .. Len(s)), T # {}, g[T \ {Max(T)}] \in ReadStates
        PROVE  g[T] = ReadStep[<<g[T \ {Max(T)}], s[Max(T)]>>]
    BY <1>3, <1>4, <1>5, <2>2 DEF ReadTurn
  <2> QED BY <1>2, <2>1, <2>2 DEF FollowsFold
<1> QED BY <1>6, <1>7, WalkOfFold

\* So a fold can be taken character by character.
LEMMA EscapedFacts ==
  /\ Escaped(<< >>) = EscapeStart
  /\ \A s \in Seq(Characters) : Escaped(s) \in EscapeStates
  /\ \A s \in Seq(Characters), ch \in Characters :
        Escaped(Append(s, ch)) = EscapeNext(Escaped(s), ch)
<1>1. Escaped(<< >>) = EscapeStart
  <2>1. << >> \in Seq(Characters) /\ Len(<< >>) = 0
    BY EmptySeq
  <2> QED BY <2>1, EscapeWalk DEF IsWalk
<1>2. ASSUME NEW s \in Seq(Characters) PROVE Escaped(s) \in EscapeStates
  <2>1. Len(s) \in 0 .. Len(s)
    BY LenProperties
  <2> QED BY <2>1, EscapeWalk
<1>3. ASSUME NEW s \in Seq(Characters), NEW ch \in Characters
      PROVE  Escaped(Append(s, ch)) = EscapeNext(Escaped(s), ch)
  <2>1. PICK w : IsWalk(w, EscapeStep, EscapeStart, s) /\ Escaped(s) = w[Len(s)]
    BY EscapeWalk
  <2>2. Append(s, ch) \in Seq(Characters)
    BY AppendProperties
  <2>3. PICK x : /\ IsWalk(x, EscapeStep, EscapeStart, Append(s, ch))
                 /\ Escaped(Append(s, ch)) = x[Len(Append(s, ch))]
    BY <2>2, EscapeWalk
  <2>4. Escaped(Append(s, ch)) = EscapeStep[<<Escaped(s), ch>>]
    BY <2>1, <2>3, WalkAppend
  <2> QED BY <1>2, <2>4 DEF EscapeStep
<1> QED BY <1>1, <1>2, <1>3

\* The same of the reading.
LEMMA ReadsFacts ==
  ASSUME NEW r \in ReadStates
  PROVE  /\ Reads(r, << >>) = r
         /\ \A s \in Seq(Characters) : Reads(r, s) \in ReadStates
         /\ \A s \in Seq(Characters), ch \in Characters :
               Reads(r, Append(s, ch)) = ReadNext(Reads(r, s), ch)
<1>1. Reads(r, << >>) = r
  <2>1. << >> \in Seq(Characters) /\ Len(<< >>) = 0
    BY EmptySeq
  <2>2. PICK w : IsWalk(w, ReadStep, r, << >>) /\ Reads(r, << >>) = w[Len(<< >>)]
    BY <2>1, ReadWalk
  <2> QED BY <2>1, <2>2 DEF IsWalk
<1>2. ASSUME NEW s \in Seq(Characters) PROVE Reads(r, s) \in ReadStates
  <2>1. Len(s) \in 0 .. Len(s)
    BY LenProperties
  <2> QED BY <2>1, ReadWalk
<1>3. ASSUME NEW s \in Seq(Characters), NEW ch \in Characters
      PROVE  Reads(r, Append(s, ch)) = ReadNext(Reads(r, s), ch)
  <2>1. PICK w : IsWalk(w, ReadStep, r, s) /\ Reads(r, s) = w[Len(s)]
    BY ReadWalk
  <2>2. Append(s, ch) \in Seq(Characters)
    BY AppendProperties
  <2>3. PICK x : /\ IsWalk(x, ReadStep, r, Append(s, ch))
                 /\ Reads(r, Append(s, ch)) = x[Len(Append(s, ch))]
    BY <2>2, ReadWalk
  <2>4. Reads(r, Append(s, ch)) = ReadStep[<<Reads(r, s), ch>>]
    BY <2>1, <2>3, WalkAppend
  <2> QED BY <1>2, <2>4 DEF ReadStep
<1> QED BY <1>1, <1>2, <1>3

\* The parts of these facts that are used one at a time.
LEMMA EscapedType ==
  ASSUME NEW s \in Seq(Characters)
  PROVE  Escaped(s).escaped \in Seq(Characters) /\ Escaped(s).num_backslashes \in Nat
<1>1. Escaped(s) \in EscapeStates
  BY EscapedFacts
<1> QED BY <1>1 DEF EscapeStates

\* Writing one more character.
LEMMA EscapedAppend ==
  ASSUME NEW s \in Seq(Characters), NEW ch \in Characters
  PROVE  Escaped(Append(s, ch)) = EscapeNext(Escaped(s), ch)
BY EscapedFacts

\* Reading nothing.
LEMMA ReadsEmpty ==
  ASSUME NEW r \in ReadStates
  PROVE  Reads(r, << >>) = r
BY ReadsFacts

\* Reading ends in a state.
LEMMA ReadsType ==
  ASSUME NEW r \in ReadStates, NEW s \in Seq(Characters)
  PROVE  Reads(r, s) \in ReadStates
BY ReadsFacts

\* Reading one more character.
LEMMA ReadsAppend ==
  ASSUME NEW r \in ReadStates, NEW s \in Seq(Characters), NEW ch \in Characters
  PROVE  Reads(r, Append(s, ch)) = ReadNext(Reads(r, s), ch)
BY ReadsFacts

\* Half of an even and of an odd number.
LEMMA HalfOf ==
  ASSUME NEW n \in Nat
  PROVE  /\ (2 * n) % 2 = 0 /\ (2 * n) \div 2 = n
         /\ (2 * n + 1) % 2 = 1 /\ (2 * n + 1) \div 2 = n
OBVIOUS

-----------------------------------------------------------------------------
(* Reading what was written. *)

\* One more backslash.
LEMMA BackslashesAppend ==
  ASSUME NEW n \in Nat
  PROVE  Backslashes(n + 1) = Append(Backslashes(n), "backslash")
<1>1. /\ Backslashes(n) \in Seq(Characters) /\ Len(Backslashes(n)) = n
      /\ \A i \in 1 .. n : Backslashes(n)[i] = "backslash"
  BY BackslashesType
<1>2. /\ Backslashes(n + 1) \in Seq(Characters) /\ Len(Backslashes(n + 1)) = n + 1
      /\ \A i \in 1 .. n + 1 : Backslashes(n + 1)[i] = "backslash"
  BY BackslashesType
<1>3. "backslash" \in Characters
  BY DEF Characters
<1> DEFINE s == Append(Backslashes(n), "backslash")
<1>4. /\ s \in Seq(Characters) /\ Len(s) = n + 1 /\ s[n + 1] = "backslash"
      /\ \A i \in 1 .. n : s[i] = Backslashes(n)[i]
  BY <1>1, <1>3, AppendProperties
<1> HIDE DEF s
<1>5. \A i \in 1 .. n + 1 : Backslashes(n + 1)[i] = s[i]
  BY <1>1, <1>2, <1>4
<1>6. Backslashes(n + 1) = s
  BY <1>2, <1>4, <1>5, SeqEqual
<1> QED BY <1>6 DEF s

\* What follows is read from where the reading stands.
LEMMA ReadsConcat ==
  ASSUME NEW r \in ReadStates, NEW a \in Seq(Characters), NEW b \in Seq(Characters)
  PROVE  Reads(r, a \o b) = Reads(Reads(r, a), b)
<1> DEFINE Good == {s \in Seq(Characters) : Reads(r, a \o s) = Reads(Reads(r, a), s)}
<1>1. Reads(r, a) \in ReadStates
  BY ReadsType
<1>2. << >> \in Good
  BY <1>1, ReadsEmpty, EmptySeq, ConcatEmptySeq
<1>3. ASSUME NEW s \in Seq(Characters), NEW ch \in Characters, s \in Good
      PROVE  Append(s, ch) \in Good
  <2>1. a \o Append(s, ch) = Append(a \o s, ch) /\ a \o s \in Seq(Characters)
        /\ Append(s, ch) \in Seq(Characters)
    BY ConcatAppend, ConcatProperties, AppendProperties
  <2>2. Reads(r, Append(a \o s, ch)) = ReadNext(Reads(r, a \o s), ch)
    BY <2>1, ReadsAppend
  <2>3. Reads(Reads(r, a), Append(s, ch)) = ReadNext(Reads(Reads(r, a), s), ch)
    BY <1>1, ReadsAppend
  <2> QED BY <1>3, <2>1, <2>2, <2>3
<1> HIDE DEF Good
<1>4. b \in Good
  BY <1>2, <1>3, SequenceInduction
<1> QED BY <1>4 DEF Good

\* A parse in the middle of an argument or after it.
Parse(argument, backslashes, quoted, ended, rest) ==
    [argument |-> argument, backslashes |-> backslashes, quoted |-> quoted, ended |-> ended,
     rest |-> rest]

\* A parse is a state of the reading.
LEMMA ParseType ==
  ASSUME NEW p \in Seq(Characters), NEW n \in Nat, NEW q \in BOOLEAN, NEW e \in BOOLEAN,
         NEW t \in Seq(Characters)
  PROVE  Parse(p, n, q, e, t) \in ReadStates
BY DEF Parse, ReadStates

\* Backslashes are counted,
LEMMA ReadsBackslashes ==
  ASSUME NEW p \in Seq(Characters), NEW q \in BOOLEAN, NEW n \in Nat
  PROVE  Reads(Parse(p, 0, q, FALSE, << >>), Backslashes(n)) = Parse(p, n, q, FALSE, << >>)
<1> DEFINE r == Parse(p, 0, q, FALSE, << >>)
           Good == {i \in 0 .. n : Reads(r, Backslashes(i)) = Parse(p, i, q, FALSE, << >>)}
<1>1. r \in ReadStates
  BY EmptySeq, ParseType
<1> HIDE DEF r
<1>2. 0 \in Good
  <2>1. Backslashes(0) = << >>
    BY BackslashesType, EmptySeq
  <2>2. Reads(r, << >>) = r
    BY <1>1, ReadsEmpty
  <2>3. 0 \in 0 .. n
    OBVIOUS
  <2> QED BY <2>1, <2>2, <2>3 DEF r
<1>3. ASSUME NEW i \in 0 .. n - 1, i \in Good PROVE i + 1 \in Good
  <2>1. i \in Nat /\ i + 1 \in 0 .. n
    OBVIOUS
  <2>2. "backslash" \in Characters
    BY DEF Characters
  <2>3. Backslashes(i) \in Seq(Characters)
    BY <2>1, BackslashesType
  <2>4. Reads(r, Append(Backslashes(i), "backslash"))
          = ReadNext(Reads(r, Backslashes(i)), "backslash")
    BY <1>1, <2>2, <2>3, ReadsAppend
  <2>5. Backslashes(i + 1) = Append(Backslashes(i), "backslash")
    BY <2>1, BackslashesAppend
  <2>6. ReadNext(Parse(p, i, q, FALSE, << >>), "backslash") = Parse(p, i + 1, q, FALSE, << >>)
    BY DEF ReadNext, Parse
  <2> QED BY <1>3, <2>1, <2>4, <2>5, <2>6
<1> HIDE DEF Good
<1>4. 0 .. n \subseteq Good
  BY <1>2, <1>3, InductionTo
<1>5. n \in Good
  BY <1>4
<1> QED BY <1>5 DEF Good, r

\* ... and after the argument everything is kept.
LEMMA ReadsRest ==
  ASSUME NEW p \in Seq(Characters), NEW q \in BOOLEAN, NEW t \in Seq(Characters)
  PROVE  Reads(Parse(p, 0, q, TRUE, << >>), t) = Parse(p, 0, q, TRUE, t)
<1> DEFINE r == Parse(p, 0, q, TRUE, << >>)
           Good == {s \in Seq(Characters) : Reads(r, s) = Parse(p, 0, q, TRUE, s)}
<1>1. r \in ReadStates
  BY EmptySeq, ParseType
<1> HIDE DEF r
<1>2. << >> \in Good
  BY <1>1, EmptySeq, ReadsEmpty DEF r
<1>3. ASSUME NEW s \in Seq(Characters), NEW ch \in Characters, s \in Good
      PROVE  Append(s, ch) \in Good
  <2>1. ReadNext(Parse(p, 0, q, TRUE, s), ch) = Parse(p, 0, q, TRUE, Append(s, ch))
    BY DEF ReadNext, Parse
  <2>2. Reads(r, Append(s, ch)) = ReadNext(Reads(r, s), ch)
    BY <1>1, ReadsAppend
  <2>3. Append(s, ch) \in Seq(Characters)
    BY AppendProperties
  <2> QED BY <1>3, <2>1, <2>2, <2>3
<1> HIDE DEF Good
<1>4. t \in Good
  BY <1>2, <1>3, SequenceInduction
<1> QED BY <1>4 DEF Good, r

\* Within quotes, the argument is read up to the backslashes that are held back.
InQuotes(s) ==
    \E p \in Seq(Characters) :
        /\ s = p \o Backslashes(Escaped(s).num_backslashes)
        /\ Reads(ReadStart, Escaped(s).escaped) = Parse(p, 0, TRUE, FALSE, << >>)

\* What a quote, and any other character, does to the backslashes written before it.
LEMMA ReadsEscapes ==
  ASSUME NEW p \in Seq(Characters), NEW n \in Nat, NEW ch \in Characters, ch # "backslash"
  PROVE  ReadNext(Parse(p, Escapes(ch, n), TRUE, FALSE, << >>), ch)
            = Parse(Append(p \o Backslashes(n), ch), 0, TRUE, FALSE, << >>)
<1>1. CASE ch = "quote"
  <2>1. Escapes(ch, n) = 2 * n + 1
    BY <1>1 DEF Escapes
  <2> DEFINE m == 2 * n + 1
  <2>2. m % 2 = 1 /\ m \div 2 = n
    BY HalfOf
  <2> HIDE DEF m
  <2>3. ReadNext(Parse(p, m, TRUE, FALSE, << >>), ch)
          = Parse(Append(p \o Backslashes(n), ch), 0, TRUE, FALSE, << >>)
    BY <1>1, <2>2 DEF ReadNext, Parse
  <2> QED BY <2>1, <2>3 DEF m
<1>2. CASE ch # "quote"
  <2>1. Escapes(ch, n) = n
    BY <1>2 DEF Escapes
  <2> QED BY <1>2, <2>1 DEF ReadNext, Parse
<1> QED BY <1>1, <1>2

\* ... for every argument.
LEMMA ReadsInQuotes ==
  ASSUME NEW s \in Seq(Characters)
  PROVE  InQuotes(s)
<1> DEFINE Good == {t \in Seq(Characters) : InQuotes(t)}
<1>1. << >> \in Good
  <2> DEFINE o == << >>
  <2>1. o \in Seq(Characters) /\ "quote" \in Characters
    BY EmptySeq DEF Characters
  <2>2. Backslashes(0) = o /\ o \o o = o
    BY <2>1, BackslashesType, EmptySeq, ConcatEmptySeq
  <2>3. Append(o, "quote") = <<"quote">>
    OBVIOUS
  <2>4. /\ Escaped(o).escaped = Append(o, "quote")
        /\ Escaped(o).num_backslashes = 0
    BY <2>3, EscapedFacts DEF EscapeStart
  <2>5. ReadStart = Parse(o, 0, FALSE, FALSE, o)
    BY DEF ReadStart, Parse
  <2> HIDE DEF o
  <2>6. Reads(ReadStart, Append(o, "quote")) = ReadNext(Reads(ReadStart, o), "quote")
    BY <2>1, ReadsAppend, ReadStartType
  <2>7. Reads(ReadStart, o) = ReadStart
    BY ReadsEmpty, ReadStartType DEF o
  <2>8. ReadNext(Parse(o, 0, FALSE, FALSE, o), "quote") = Parse(o, 0, TRUE, FALSE, o)
    <3>1. 0 % 2 # 1 /\ 0 \div 2 = 0
      OBVIOUS
    <3> QED BY <2>2, <3>1 DEF ReadNext, Parse
  <2>9. InQuotes(o)
    <3>1. Reads(ReadStart, Escaped(o).escaped) = Parse(o, 0, TRUE, FALSE, << >>)
      BY <2>4, <2>5, <2>6, <2>7, <2>8 DEF o
    <3> QED BY <2>1, <2>2, <2>4, <3>1 DEF InQuotes
  <2> QED BY <2>1, <2>9 DEF o
<1>2. ASSUME NEW t \in Seq(Characters), NEW ch \in Characters, t \in Good
      PROVE  Append(t, ch) \in Good
  <2> DEFINE n == Escaped(t).num_backslashes
             e == Escaped(t).escaped
             u == Escaped(Append(t, ch))
  <2>1. n \in Nat /\ e \in Seq(Characters)
    BY EscapedType
  <2>2. PICK p \in Seq(Characters) :
           /\ t = p \o Backslashes(n)
           /\ Reads(ReadStart, e) = Parse(p, 0, TRUE, FALSE, << >>)
    BY <1>2 DEF InQuotes
  <2>3. u = EscapeNext(Escaped(t), ch) /\ Escaped(t) \in EscapeStates
    BY EscapedAppend, EscapedFacts
  <2>4. Append(t, ch) \in Seq(Characters)
    BY AppendProperties
  <2>5. CASE ch = "backslash"
    <3>1. u.escaped = e /\ u.num_backslashes = n + 1
      BY <2>3, <2>5 DEF EscapeNext, EscapeStates
    <3>2. Append(t, ch) = p \o Backslashes(n + 1)
      <4> HIDE DEF n
      <4>1. Backslashes(n) \in Seq(Characters)
        BY <2>1, BackslashesType
      <4>2. p \o Append(Backslashes(n), ch) = Append(p \o Backslashes(n), ch)
        BY <4>1, ConcatAppend
      <4>3. Backslashes(n + 1) = Append(Backslashes(n), ch)
        BY <2>1, <2>5, BackslashesAppend
      <4> QED BY <2>2, <4>2, <4>3
    <3> QED BY <2>2, <2>4, <3>1, <3>2 DEF InQuotes
  <2>6. CASE ch # "backslash"
    <3> DEFINE m == Escapes(ch, n)
               f == e \o Backslashes(m)
               r == Parse(p, 0, TRUE, FALSE, << >>)
    <3>1. u.escaped = f \o <<ch>> /\ u.num_backslashes = 0
      <4> DEFINE g == f \o <<ch>>
      <4>1. u = [escaped |-> g, num_backslashes |-> 0]
        BY <2>3, <2>6 DEF EscapeNext
      <4> HIDE DEF g
      <4>2. u.escaped = g /\ u.num_backslashes = 0
        BY <4>1
      <4> QED BY <4>2 DEF g
    <3>2. m \in Nat
      BY <2>1 DEF Escapes
    <3>3. r \in ReadStates
      BY EmptySeq, ParseType
    <3>4. Reads(r, Backslashes(m)) = Parse(p, m, TRUE, FALSE, << >>)
      <4> HIDE DEF m
      <4> QED BY <3>2, ReadsBackslashes
    <3>5. ReadNext(Parse(p, m, TRUE, FALSE, << >>), ch)
            = Parse(Append(p \o Backslashes(n), ch), 0, TRUE, FALSE, << >>)
      <4> HIDE DEF n
      <4> QED BY <2>1, <2>6, ReadsEscapes
    <3> HIDE DEF r, m, e
    <3>6. Backslashes(m) \in Seq(Characters) /\ f \in Seq(Characters)
      <4>1. Backslashes(m) \in Seq(Characters)
        BY <3>2, BackslashesType
      <4> QED BY <2>1, <4>1, ConcatProperties
    <3>7. Reads(ReadStart, f) = Reads(Reads(ReadStart, e), Backslashes(m))
      BY <2>1, <3>6, ReadsConcat, ReadStartType
    <3> HIDE DEF f
    <3>8. Reads(ReadStart, f) = Parse(p, m, TRUE, FALSE, << >>)
      BY <2>2, <3>4, <3>7 DEF r
    <3>9. f \o <<ch>> = Append(f, ch)
      BY <3>6, AppendIsConcat
    <3>10. Reads(ReadStart, Append(f, ch)) = ReadNext(Reads(ReadStart, f), ch)
      BY <3>6, ReadsAppend, ReadStartType
    <3>11. Reads(ReadStart, u.escaped) = Parse(Append(t, ch), 0, TRUE, FALSE, << >>)
      BY <2>2, <3>1, <3>5, <3>8, <3>9, <3>10
    <3>12. Append(t, ch) = Append(t, ch) \o Backslashes(u.num_backslashes)
      <4>1. Backslashes(0) = << >>
        BY BackslashesType, EmptySeq
      <4> QED BY <2>4, <3>1, <4>1, ConcatEmptySeq
    <3> QED BY <2>4, <3>11, <3>12 DEF InQuotes
  <2> QED BY <2>5, <2>6
<1> HIDE DEF Good
<1>3. s \in Good
  BY <1>1, <1>2, SequenceInduction
<1> QED BY <1>3 DEF Good

\* What an argument between quotes is made of.
LEMMA QuotedType ==
  ASSUME NEW s \in Seq(Characters)
  PROVE  /\ Quoted(s) = Append(Escaped(s).escaped
                                 \o Backslashes(2 * Escaped(s).num_backslashes), "quote")
         /\ Escaped(s).escaped \o Backslashes(2 * Escaped(s).num_backslashes)
               \in Seq(Characters)
         /\ Quoted(s) \in Seq(Characters)
<1> DEFINE b == Escaped(s).escaped \o Backslashes(2 * Escaped(s).num_backslashes)
<1>1. Escaped(s).escaped \in Seq(Characters) /\ 2 * Escaped(s).num_backslashes \in Nat
  BY EscapedType
<1>2. b \in Seq(Characters)
  BY <1>1, BackslashesType, ConcatProperties
<1>3. Quoted(s) = b \o <<"quote">>
  BY DEF Quoted, Escaped, EscapeStart
<1> HIDE DEF b
<1>4. "quote" \in Characters
  BY DEF Characters
<1>5. Quoted(s) = Append(b, "quote") /\ Append(b, "quote") \in Seq(Characters)
  BY <1>2, <1>3, <1>4, AppendIsConcat, AppendProperties
<1> QED BY <1>2, <1>5 DEF b

\* ... and between quotes it is read back whole,
LEMMA ReadsQuoted ==
  ASSUME NEW s \in Seq(Characters)
  PROVE  Reads(ReadStart, Quoted(s)) = Parse(s, 0, FALSE, FALSE, << >>)
<1> DEFINE n == Escaped(s).num_backslashes
           e == Escaped(s).escaped
           m == 2 * n
           b == e \o Backslashes(m)
<1>1. n \in Nat /\ e \in Seq(Characters)
  BY EscapedType
<1>2. b \in Seq(Characters) /\ Quoted(s) = Append(b, "quote") /\ "quote" \in Characters
  BY QuotedType DEF Characters
<1>3. PICK p \in Seq(Characters) :
         /\ s = p \o Backslashes(n)
         /\ Reads(ReadStart, e) = Parse(p, 0, TRUE, FALSE, << >>)
  BY ReadsInQuotes DEF InQuotes
<1> HIDE DEF n, e
<1>4. m \in Nat /\ m % 2 # 1 /\ m \div 2 = n
  BY <1>1, HalfOf
<1> HIDE DEF m
<1>5. Backslashes(m) \in Seq(Characters)
  BY <1>4, BackslashesType
<1>6. Reads(ReadStart, b) = Reads(Reads(ReadStart, e), Backslashes(m))
  BY <1>1, <1>5, ReadsConcat, ReadStartType
<1>7. Reads(Parse(p, 0, TRUE, FALSE, << >>), Backslashes(m))
        = Parse(p, m, TRUE, FALSE, << >>)
  BY <1>4, ReadsBackslashes
<1> HIDE DEF b
<1>8. Reads(ReadStart, Quoted(s)) = ReadNext(Reads(ReadStart, b), "quote")
  BY <1>2, ReadsAppend, ReadStartType
<1>9. ReadNext(Parse(p, m, TRUE, FALSE, << >>), "quote")
        = Parse(p \o Backslashes(n), 0, FALSE, FALSE, << >>)
  BY <1>4 DEF ReadNext, Parse
<1> QED BY <1>3, <1>6, <1>7, <1>8, <1>9

\* ... as is one that needs no quotes, up to the backslashes at its end.
InPlain(s) ==
    \E p \in Seq(Characters), n \in Nat :
        /\ s = p \o Backslashes(n)
        /\ Reads(ReadStart, s) = Parse(p, n, FALSE, FALSE, << >>)

\* ... for every one of them.
LEMMA ReadsPlain ==
  ASSUME NEW s \in Seq(Characters), ToSet(s) \cap {"space", "quote"} = {}
  PROVE  InPlain(s)
<1> DEFINE Good == {t \in Seq(Characters) : ToSet(t) \cap {"space", "quote"} = {} => InPlain(t)}
<1>1. << >> \in Good
  <2> DEFINE o == << >>
  <2>1. o \in Seq(Characters) /\ ReadStart = Parse(o, 0, FALSE, FALSE, << >>)
    BY EmptySeq DEF ReadStart, Parse
  <2>2. Reads(ReadStart, o) = ReadStart
    BY ReadsEmpty, ReadStartType
  <2>3. o = o \o Backslashes(0)
    BY BackslashesType, EmptySeq, ConcatEmptySeq
  <2> HIDE DEF o
  <2>4. InPlain(o)
    BY <2>1, <2>2, <2>3 DEF InPlain
  <2> QED BY <2>1, <2>4 DEF o
<1>2. ASSUME NEW t \in Seq(Characters), NEW ch \in Characters, t \in Good
      PROVE  Append(t, ch) \in Good
  <2>1. Append(t, ch) \in Seq(Characters) /\ ToSet(Append(t, ch)) = ToSet(t) \cup {ch}
    BY ElementsOfAppend
  <2>2. SUFFICES ASSUME ToSet(Append(t, ch)) \cap {"space", "quote"} = {}
                 PROVE  InPlain(Append(t, ch))
    BY <2>1
  <2>3. ch # "space" /\ ch # "quote"
    BY <2>1, <2>2
  <2>4. PICK p \in Seq(Characters), n \in Nat :
           /\ t = p \o Backslashes(n)
           /\ Reads(ReadStart, t) = Parse(p, n, FALSE, FALSE, << >>)
    BY <1>2, <2>1, <2>2 DEF InPlain
  <2>5. Reads(ReadStart, Append(t, ch)) = ReadNext(Reads(ReadStart, t), ch)
    BY ReadsAppend, ReadStartType
  <2>6. CASE ch = "backslash"
    <3>1. ReadNext(Parse(p, n, FALSE, FALSE, << >>), ch) = Parse(p, n + 1, FALSE, FALSE, << >>)
      BY <2>6 DEF ReadNext, Parse
    <3>2. Append(t, ch) = p \o Backslashes(n + 1)
      <4>1. Backslashes(n) \in Seq(Characters)
        BY BackslashesType
      <4>2. p \o Append(Backslashes(n), ch) = Append(p \o Backslashes(n), ch)
        BY <4>1, ConcatAppend
      <4>3. Backslashes(n + 1) = Append(Backslashes(n), ch)
        BY <2>6, BackslashesAppend
      <4> QED BY <2>4, <4>2, <4>3
    <3>3. n + 1 \in Nat
      OBVIOUS
    <3> QED BY <2>4, <2>5, <3>1, <3>2, <3>3 DEF InPlain
  <2>7. CASE ch # "backslash"
    <3>1. ReadNext(Parse(p, n, FALSE, FALSE, << >>), ch)
            = Parse(Append(p \o Backslashes(n), ch), 0, FALSE, FALSE, << >>)
      BY <2>3, <2>7 DEF ReadNext, Parse
    <3>2. Append(t, ch) = Append(t, ch) \o Backslashes(0)
      <4>1. Backslashes(0) = << >>
        BY BackslashesType, EmptySeq
      <4> QED BY <2>1, <4>1, ConcatEmptySeq
    <3>3. Reads(ReadStart, Append(t, ch)) = Parse(Append(t, ch), 0, FALSE, FALSE, << >>)
      BY <2>4, <2>5, <3>1
    <3> QED BY <2>1, <3>2, <3>3 DEF InPlain
  <2> QED BY <2>6, <2>7
<1> HIDE DEF Good
<1>3. s \in Good
  BY <1>1, <1>2, SequenceInduction
<1> QED BY <1>3 DEF Good

\* An escaped argument is a string,
LEMMA EscapeArgumentType ==
  ASSUME NEW s \in Seq(Characters)
  PROVE  EscapeArgument(s) \in Seq(Characters)
BY QuotedType DEF EscapeArgument

\* A space ends the argument, which has been read as it was written, and the rest of the
\* line follows.
LEMMA ReadsLine ==
  ASSUME NEW s \in Seq(Characters), NEW t \in Seq(Characters)
  PROVE  FirstArgument(EscapeArgument(s) \o <<"space">> \o t)
            = Parse(s, 0, FALSE, TRUE, t)
<1> DEFINE a == EscapeArgument(s)
           b == Append(a, "space")
<1>1. a \in Seq(Characters) /\ "space" \in Characters
  BY EscapeArgumentType DEF Characters
<1>2. PICK p \in Seq(Characters), n \in Nat :
         /\ s = p \o Backslashes(n)
         /\ Reads(ReadStart, a) = Parse(p, n, FALSE, FALSE, << >>)
  <2>1. CASE ToSet(s) \cap {"space", "quote"} = {}
    BY <2>1, ReadsPlain DEF InPlain, EscapeArgument
  <2>2. CASE ToSet(s) \cap {"space", "quote"} # {}
    <3>1. Reads(ReadStart, a) = Parse(s, 0, FALSE, FALSE, << >>)
      BY <2>2, ReadsQuoted DEF EscapeArgument
    <3>2. s = s \o Backslashes(0)
      BY BackslashesType, EmptySeq, ConcatEmptySeq
    <3> QED BY <3>1, <3>2
  <2> QED BY <2>1, <2>2
<1> HIDE DEF a
<1>3. b \in Seq(Characters) /\ a \o <<"space">> = b
  BY <1>1, AppendIsConcat, AppendProperties
<1>4. Reads(ReadStart, b) = ReadNext(Reads(ReadStart, a), "space")
  BY <1>1, ReadsAppend, ReadStartType
<1>5. ReadNext(Parse(p, n, FALSE, FALSE, << >>), "space")
        = Parse(p \o Backslashes(n), 0, FALSE, TRUE, << >>)
  BY DEF ReadNext, Parse
<1> HIDE DEF b
<1>6. Reads(ReadStart, b \o t) = Reads(Reads(ReadStart, b), t)
  BY <1>3, ReadsConcat, ReadStartType
<1>7. Reads(ReadStart, b \o t) = Parse(s, 0, FALSE, TRUE, t)
  <2>1. Reads(ReadStart, b) = Parse(s, 0, FALSE, TRUE, << >>)
    BY <1>2, <1>4, <1>5
  <2>2. Reads(Parse(s, 0, FALSE, TRUE, << >>), t) = Parse(s, 0, FALSE, TRUE, t)
    BY ReadsRest
  <2> QED BY <1>6, <2>1, <2>2
<1>8. FirstArgument(b \o t) = Reads(ReadStart, b \o t)
  BY DEF FirstArgument, Reads, ReadStart
<1> QED BY <1>3, <1>7, <1>8 DEF a

-----------------------------------------------------------------------------
(* The copy into chars, and the types. *)

\* Narrowing touches nothing but wide characters.
LEMMA NarrowType ==
  ASSUME NEW s \in Seq(Characters)
  PROVE  /\ Narrow(s) \in Seq(Characters)
         /\ ToSet(s) \cap Wide = {} => Narrow(s) = s
<1> DEFINE Bytes == Characters \cup {"nul"}
           bytes == [i \in DOMAIN s |-> LowByte(s[i])]
           nuls  == {i \in DOMAIN s : LowByte(s[i]) = "nul"}
           last  == IF nuls = {} THEN Len(s) ELSE Min(nuls) - 1
<1>1. /\ Len(s) \in Nat /\ DOMAIN s = 1 .. Len(s) /\ s \in [1 .. Len(s) -> Characters]
      /\ ToSet(s) = {s[i] : i \in 1 .. Len(s)}
  BY LenProperties, ElementsOf
<1>2. Narrow(s) = SubSeq(bytes, 1, last)
  BY DEF Narrow
<1>3. /\ \A ch \in Characters : LowByte(ch) \in Bytes
      /\ \A ch \in Characters \ Wide : LowByte(ch) = ch
      /\ "nul" \notin Characters
  BY DEF LowByte, Characters, Wide
<1> HIDE DEF nuls, last
<1>4. last \in 0 .. Len(s) /\ \A i \in 1 .. last : LowByte(s[i]) # "nul"
  <2>1. CASE nuls = {}
    <3>1. last = Len(s)
      BY <2>1 DEF last
    <3>2. \A i \in DOMAIN s : LowByte(s[i]) # "nul"
      BY <2>1, Zenon DEF nuls
    <3> QED BY <1>1, <3>1, <3>2
  <2>2. CASE nuls # {}
    <3>0. nuls \subseteq 1 .. Len(s)
      BY <1>1 DEF nuls
    <3>1. PICK m \in nuls : \A i \in nuls : m <= i
      BY <1>1, <2>2, <3>0, Smallest
    <3>2. Min(nuls) = m /\ m \in 1 .. Len(s)
      BY <1>1, <3>0, <3>1, MinIs
    <3>3. \A i \in 1 .. m - 1 : i \in DOMAIN s /\ ~(m <= i)
      BY <1>1, <3>2
    <3>4. \A i \in DOMAIN s : i \notin nuls => LowByte(s[i]) # "nul"
      BY Zenon DEF nuls
    <3>5. \A i \in 1 .. m - 1 : LowByte(s[i]) # "nul"
      BY <3>1, <3>3, <3>4
    <3>6. last = m - 1
      BY <2>2, <3>2 DEF last
    <3> QED BY <1>1, <3>2, <3>5, <3>6
  <2> QED BY <2>1, <2>2
<1>5. bytes \in Seq(Bytes) /\ Len(bytes) = Len(s) /\ DOMAIN bytes = 1 .. Len(s)
      /\ \A i \in 1 .. Len(s) : bytes[i] = LowByte(s[i])
  <2>1. bytes \in [1 .. Len(s) -> Bytes]
    BY <1>1, <1>3
  <2> HIDE DEF Bytes
  <2>2. bytes \in Seq(Bytes) /\ Len(bytes) = Len(s)
    BY <1>1, <2>1, FunctionIsSequence
  <2> QED BY <1>1, <2>2
<1> HIDE DEF Bytes, bytes
<1>6. /\ Narrow(s) \in Seq(Bytes) /\ Len(Narrow(s)) = last
      /\ \A i \in 1 .. last : Narrow(s)[i] = bytes[i]
  BY <1>2, <1>4, <1>5, SubSeqProperties
<1>7. Narrow(s) \in Seq(Characters)
  <2>1. \A i \in 1 .. last : Narrow(s)[i] \in Characters
    BY <1>1, <1>3, <1>4, <1>5, <1>6 DEF Bytes
  <2>2. Narrow(s) \in [1 .. last -> Characters]
    BY <1>6, <2>1, LenProperties
  <2> QED BY <1>4, <2>2, FunctionIsSequence
<1>8. ASSUME ToSet(s) \cap Wide = {} PROVE Narrow(s) = s
  <2>1. \A i \in 1 .. Len(s) : s[i] \in Characters \ Wide
    BY <1>1, <1>8
  <2>2. \A i \in 1 .. Len(s) : LowByte(s[i]) = s[i] /\ LowByte(s[i]) # "nul"
    BY <1>3, <2>1
  <2>3. last = Len(s)
    <3>1. nuls = {}
      BY <1>1, <2>2 DEF nuls
    <3> QED BY <3>1 DEF last
  <2>4. Len(Narrow(s)) = Len(s) /\ \A i \in 1 .. Len(s) : Narrow(s)[i] = s[i]
    BY <1>5, <1>6, <2>2, <2>3
  <2> QED BY <1>6, <2>4, SeqEqual
<1> QED BY <1>7, <1>8

\* ... and so is the command line.
LEMMA CommandLineType ==
  ASSUME NEW s \in Seq(Characters), NEW t \in Seq(Characters)
  PROVE  /\ EscapeArgument(s) \o <<"space">> \o t \in Seq(Characters)
         /\ CommandLine(s, t) \in Seq(Characters)
<1>1. <<"space">> \in Seq(Characters)
  BY DEF Characters
<1>2. EscapeArgument(s) \o <<"space">> \o t \in Seq(Characters)
  BY <1>1, EscapeArgumentType, ConcatProperties
<1> QED BY <1>2, NarrowType DEF CommandLine

\* A run of backslashes holds nothing else.
LEMMA BackslashesElements ==
  ASSUME NEW n \in Nat
  PROVE  ToSet(Backslashes(n)) \subseteq {"backslash"}
BY BackslashesType, ElementsOf

\* Escaping adds quotes and backslashes only.
LEMMA EscapedElements ==
  ASSUME NEW s \in Seq(Characters)
  PROVE  ToSet(Escaped(s).escaped) \subseteq ToSet(s) \cup {"quote", "backslash"}
<1> DEFINE Good == {t \in Seq(Characters) :
                      ToSet(Escaped(t).escaped) \subseteq ToSet(t) \cup {"quote", "backslash"}}
<1>1. << >> \in Good
  <2> DEFINE o == << >>
  <2>1. <<"quote">> = Append(o, "quote")
    OBVIOUS
  <2>2. o \in Seq(Characters) /\ "quote" \in Characters /\ ToSet(o) = {}
    BY ElementsOfEmpty DEF Characters
  <2>3. Escaped(o).escaped = <<"quote">>
    BY EscapedFacts DEF EscapeStart
  <2> HIDE DEF o
  <2>4. ToSet(Append(o, "quote")) = ToSet(o) \cup {"quote"}
    BY <2>2, ElementsOfAppend
  <2>5. o \in Good
    BY <2>1, <2>2, <2>3, <2>4
  <2> QED BY <2>5 DEF o
<1>2. ASSUME NEW t \in Seq(Characters), NEW ch \in Characters, t \in Good
      PROVE  Append(t, ch) \in Good
  <2>1. Append(t, ch) \in Seq(Characters) /\ ToSet(Append(t, ch)) = ToSet(t) \cup {ch}
    BY ElementsOfAppend
  <2> DEFINE n == Escaped(t).num_backslashes
             e == Escaped(t).escaped
             u == Escaped(Append(t, ch))
  <2>2. n \in Nat /\ e \in Seq(Characters)
    BY EscapedType
  <2>3. u = EscapeNext(Escaped(t), ch) /\ Escaped(t) \in EscapeStates
    BY EscapedAppend, EscapedFacts
  <2>4. CASE ch = "backslash"
    <3>1. u.escaped = e
      BY <2>3, <2>4 DEF EscapeNext, EscapeStates
    <3> QED BY <1>2, <2>1, <3>1
  <2>5. CASE ch # "backslash"
    <3> DEFINE m == Escapes(ch, n)
               f == e \o Backslashes(m)
               g == f \o <<ch>>
    <3>1. u.escaped = g
      <4>1. u = [escaped |-> g, num_backslashes |-> 0]
        BY <2>3, <2>5 DEF EscapeNext
      <4> HIDE DEF g
      <4> QED BY <4>1
    <3>2. m \in Nat
      BY <2>2 DEF Escapes
    <3> HIDE DEF m, e
    <3>3. /\ Backslashes(m) \in Seq(Characters) /\ f \in Seq(Characters)
          /\ ToSet(f) = ToSet(e) \cup ToSet(Backslashes(m))
      <4>1. Backslashes(m) \in Seq(Characters)
        BY <3>2, BackslashesType
      <4> QED BY <2>2, <4>1, ConcatProperties, ElementsOfConcat
    <3>4. ToSet(Backslashes(m)) \subseteq {"backslash"}
      BY <3>2, BackslashesElements
    <3> HIDE DEF f
    <3>5. g = Append(f, ch)
      BY <3>3, AppendIsConcat
    <3> HIDE DEF g
    <3>6. ToSet(g) = ToSet(f) \cup {ch}
      BY <3>3, <3>5, ElementsOfAppend
    <3> QED BY <1>2, <2>1, <3>1, <3>3, <3>4, <3>6 DEF e
  <2> QED BY <2>4, <2>5
<1> HIDE DEF Good
<1>3. s \in Good
  BY <1>1, <1>2, SequenceInduction
<1> QED BY <1>3 DEF Good

\* ... of any argument, quoted or not.
LEMMA EscapeArgumentElements ==
  ASSUME NEW s \in Seq(Characters)
  PROVE  ToSet(EscapeArgument(s)) \subseteq ToSet(s) \cup {"quote", "backslash"}
<1>1. CASE ToSet(s) \cap {"space", "quote"} = {}
  BY <1>1 DEF EscapeArgument
<1>2. CASE ToSet(s) \cap {"space", "quote"} # {}
  <2> DEFINE e == Escaped(s).escaped
             m == 2 * Escaped(s).num_backslashes
             b == e \o Backslashes(m)
  <2>1. EscapeArgument(s) = Append(b, "quote") /\ b \in Seq(Characters)
    BY <1>2, QuotedType DEF EscapeArgument
  <2>2. e \in Seq(Characters) /\ m \in Nat
    BY EscapedType
  <2>3. ToSet(e) \subseteq ToSet(s) \cup {"quote", "backslash"}
    BY EscapedElements
  <2> HIDE DEF m, e
  <2>4. Backslashes(m) \in Seq(Characters) /\ ToSet(Backslashes(m)) \subseteq {"backslash"}
    BY <2>2, BackslashesType, BackslashesElements
  <2>5. ToSet(b) = ToSet(e) \cup ToSet(Backslashes(m))
    BY <2>2, <2>4, ElementsOfConcat
  <2> HIDE DEF b
  <2>6. ToSet(Append(b, "quote")) = ToSet(b) \cup {"quote"}
    BY <2>1, ElementsOfAppend DEF Characters
  <2> QED BY <2>1, <2>3, <2>4, <2>5, <2>6
<1> QED BY <1>1, <1>2

\* Without wide characters, the line is what was written.
LEMMA NarrowLine ==
  ASSUME NEW s \in Seq(Characters), NEW t \in Seq(Characters),
         ToSet(s \o t) \cap Wide = {}
  PROVE  CommandLine(s, t) = EscapeArgument(s) \o <<"space">> \o t
<1> DEFINE a == EscapeArgument(s)
           b == Append(a, "space")
<1>1. a \in Seq(Characters) /\ ToSet(a) \subseteq ToSet(s) \cup {"quote", "backslash"}
      /\ "space" \in Characters
  BY EscapeArgumentType, EscapeArgumentElements DEF Characters
<1> HIDE DEF a
<1>2. b \in Seq(Characters) /\ a \o <<"space">> = b /\ ToSet(b) = ToSet(a) \cup {"space"}
  BY <1>1, AppendIsConcat, ElementsOfAppend
<1> HIDE DEF b
<1>3. b \o t \in Seq(Characters) /\ ToSet(b \o t) = ToSet(b) \cup ToSet(t)
      /\ ToSet(s \o t) = ToSet(s) \cup ToSet(t)
  BY <1>2, ConcatProperties, ElementsOfConcat
<1>4. ToSet(b \o t) \cap Wide = {}
  BY <1>1, <1>2, <1>3 DEF Wide
<1>5. Narrow(b \o t) = b \o t
  BY <1>3, <1>4, NarrowType
<1> QED BY <1>2, <1>5 DEF CommandLine, a

-----------------------------------------------------------------------------
(* The name of the program. *)

\* The name ends at the first quote or the first space.
LEMMA NameIs ==
  ASSUME NEW line, NEW from, NEW stop,
         from = (IF line[1] = "quote" THEN 2 ELSE 1),
         stop = (IF line[1] = "quote" THEN "quote" ELSE "space")
  PROVE  LET I == {i \in from .. Len(line) : line[i] = stop}
         IN  ProgramName(line)
                = SubSeq(line, from, (IF I # {} THEN Min(I) ELSE 0) - 1)
BY Zenon DEF ProgramName, SelectInSubSeq

\* What of a line precedes the first character that ends the name is the name.
LEMMA NameUpTo ==
  ASSUME NEW line \in Seq(Characters), NEW name \in Seq(Characters), NEW from \in {1, 2},
         NEW stop \in Characters, stop \notin ToSet(name),
         from + Len(name) <= Len(line), line[from + Len(name)] = stop,
         \A i \in 1 .. Len(name) : line[from + i - 1] = name[i]
  PROVE  LET I == {i \in from .. Len(line) : line[i] = stop}
         IN  SubSeq(line, from, (IF I # {} THEN Min(I) ELSE 0) - 1) = name
<1> DEFINE I == {i \in from .. Len(line) : line[i] = stop}
           m == from + Len(name)
<1>1. Len(line) \in Nat /\ Len(name) \in Nat /\ ToSet(name) = {name[i] : i \in 1 .. Len(name)}
  BY LenProperties, ElementsOf
<1>2. m \in I /\ I \in SUBSET Nat
  BY <1>1
<1>3. ASSUME NEW i \in I PROVE m <= i
  <2>1. SUFFICES ASSUME i < m PROVE FALSE
    BY <1>1
  <2> DEFINE j == i - from + 1
  <2>2. j \in 1 .. Len(name) /\ from + j - 1 = i
    BY <1>1, <2>1
  <2> HIDE DEF j
  <2>3. line[i] = name[j]
    BY <2>2
  <2> QED BY <1>1, <1>3, <2>2, <2>3
<1>4. (IF I # {} THEN Min(I) ELSE 0) = m
  <2> HIDE DEF I, m
  <2>1. Min(I) = m
    BY <1>2, <1>3, MinIs
  <2> QED BY <1>2, <2>1
<1> DEFINE sub == SubSeq(line, from, m - 1)
<1>5. sub = name
  <2>1. /\ m - 1 \in Int /\ from \in 1 .. Len(line) + 1 /\ m - 1 \in from - 1 .. Len(line)
        /\ m - 1 - from + 1 = Len(name)
    BY <1>1
  <2>2. /\ sub \in Seq(Characters) /\ Len(sub) = Len(name)
        /\ \A i \in 1 .. Len(name) : sub[i] = line[from + i - 1]
    BY <1>1, <2>1, SubSeqProperties
  <2> HIDE DEF sub
  <2> QED BY <2>2, SeqEqual
<1> QED BY <1>4, <1>5

\* A sequence without a quote is written as it is, up to the backslashes held back.
LEMMA EscapedWithoutQuotes ==
  ASSUME NEW s \in Seq(Characters), "quote" \notin ToSet(s)
  PROVE  Escaped(s).escaped \o Backslashes(Escaped(s).num_backslashes) = <<"quote">> \o s
<1> DEFINE whole(t) == Escaped(t).escaped \o Backslashes(Escaped(t).num_backslashes)
           Good == {t \in Seq(Characters) : "quote" \notin ToSet(t) => whole(t) = <<"quote">> \o t}
<1>0. <<"quote">> \in Seq(Characters)
  BY DEF Characters
<1>1. << >> \in Good
  <2>1. << >> \in Seq(Characters) /\ <<"quote">> \o << >> = <<"quote">>
    BY <1>0, EmptySeq, ConcatEmptySeq
  <2>2. Escaped(<< >>).escaped = <<"quote">> /\ Escaped(<< >>).num_backslashes = 0
    BY EscapedFacts DEF EscapeStart
  <2>3. Backslashes(0) = << >>
    BY BackslashesType, EmptySeq
  <2> QED BY <2>1, <2>2, <2>3
<1>2. ASSUME NEW t \in Seq(Characters), NEW ch \in Characters, t \in Good
      PROVE  Append(t, ch) \in Good
  <2>1. Append(t, ch) \in Seq(Characters) /\ ToSet(Append(t, ch)) = ToSet(t) \cup {ch}
    BY ElementsOfAppend
  <2> DEFINE n == Escaped(t).num_backslashes
             e == Escaped(t).escaped
             u == Escaped(Append(t, ch))
             b == Backslashes(n)
             q == <<"quote">>
             f == e \o b
  <2>2. n \in Nat /\ e \in Seq(Characters)
    BY EscapedType
  <2>3. u = EscapeNext(Escaped(t), ch) /\ Escaped(t) \in EscapeStates
    BY EscapedAppend, EscapedFacts
  <2>4. SUFFICES ASSUME "quote" \notin ToSet(Append(t, ch))
                 PROVE  whole(Append(t, ch)) = q \o Append(t, ch)
    BY <2>1
  <2>5. ch # "quote" /\ f = q \o t
    BY <1>2, <2>1, <2>4
  <2>6. q \o Append(t, ch) = Append(q \o t, ch)
    BY <1>0, ConcatAppend
  <2>7. b \in Seq(Characters)
    <3> HIDE DEF n
    <3> QED BY <2>2, BackslashesType
  <2>8. CASE ch = "backslash"
    <3>1. u.escaped = e /\ u.num_backslashes = n + 1
      BY <2>3, <2>8 DEF EscapeNext, EscapeStates
    <3> HIDE DEF n, e
    <3>2. Backslashes(n + 1) = Append(b, ch)
      BY <2>2, <2>8, BackslashesAppend
    <3> HIDE DEF b, q
    <3>3. e \o Append(b, ch) = Append(e \o b, ch)
      BY <2>2, <2>7, ConcatAppend
    <3> QED BY <2>5, <2>6, <3>1, <3>2, <3>3
  <2>9. CASE ch # "backslash"
    <3> DEFINE g == f \o <<ch>>
    <3>1. u.escaped = g /\ u.num_backslashes = 0
      <4>1. Escapes(ch, n) = n
        BY <2>5 DEF Escapes
      <4>2. u = [escaped |-> g, num_backslashes |-> 0]
        BY <2>3, <2>9, <4>1 DEF EscapeNext
      <4> HIDE DEF g
      <4> QED BY <4>2
    <3> HIDE DEF e, b
    <3>2. f \in Seq(Characters)
      BY <2>2, <2>7, ConcatProperties
    <3> HIDE DEF f
    <3>3. g = Append(f, ch) /\ g \in Seq(Characters)
      BY <3>2, AppendIsConcat, AppendProperties
    <3> HIDE DEF g
    <3>4. g \o Backslashes(0) = g
      <4>1. Backslashes(0) = << >>
        BY BackslashesType, EmptySeq
      <4> QED BY <3>3, <4>1, ConcatEmptySeq
    <3> QED BY <2>5, <2>6, <3>1, <3>3, <3>4
  <2> QED BY <2>8, <2>9
<1> HIDE DEF Good
<1>3. s \in Good
  BY <1>1, <1>2, SequenceInduction
<1> QED BY <1>3 DEF Good

\* ... of which there are none when it ends in something else.
LEMMA EscapedPath ==
  ASSUME NEW s \in Seq(Characters), s # << >>, "quote" \notin ToSet(s), Last(s) # "backslash"
  PROVE  Escaped(s).escaped = <<"quote">> \o s /\ Escaped(s).num_backslashes = 0
<1>1. PICK t \in Seq(Characters), ch \in Characters : s = Append(t, ch)
  BY SequenceEmptyOrAppend
<1>2. ch # "backslash"
  <2>1. Last(s) = s[Len(s)] /\ Len(s) = Len(t) + 1 /\ s[Len(t) + 1] = ch
    BY <1>1, AppendProperties DEF Last
  <2> QED BY <2>1
<1>3. Escaped(s) = EscapeNext(Escaped(t), ch)
  BY <1>1, EscapedAppend
<1>4. Escaped(s).num_backslashes = 0
  BY <1>2, <1>3 DEF EscapeNext
<1> DEFINE e == Escaped(s).escaped
<1>5. e \o Backslashes(0) = <<"quote">> \o s
  BY <1>4, EscapedWithoutQuotes
<1>6. e \o Backslashes(0) = e
  <2>1. Backslashes(0) = << >> /\ e \in Seq(Characters)
    BY BackslashesType, EmptySeq, EscapedType
  <2> QED BY <2>1, ConcatEmptySeq
<1> QED BY <1>4, <1>5, <1>6

\* The path of a program is the name of the program.
LEMMA ProgramOfLine ==
  ASSUME NEW s \in Seq(Characters), NEW t \in Seq(Characters), s # << >>,
         "quote" \notin ToSet(s), Last(s) # "backslash"
  PROVE  ProgramName(EscapeArgument(s) \o <<"space">> \o t) = s
<1> DEFINE a == EscapeArgument(s)
           line == a \o <<"space">> \o t
           n == Len(s)
<1>1. /\ a \in Seq(Characters) /\ line \in Seq(Characters) /\ n \in Nat /\ n > 0
      /\ Len(a) \in Nat /\ Len(line) = Len(a) + 1 + Len(t) /\ Len(t) \in Nat
      /\ \A i \in 1 .. Len(a) : line[i] = a[i]
      /\ line[Len(a) + 1] = "space"
      /\ \A i \in 1 .. n : s[i] \in ToSet(s)
  <2> DEFINE b == Append(a, "space")
  <2>1. a \in Seq(Characters) /\ "space" \in Characters /\ Len(t) \in Nat
    BY EscapeArgumentType, LenProperties DEF Characters
  <2>2. n \in Nat /\ n > 0 /\ \A i \in 1 .. n : s[i] \in ToSet(s)
    BY LenProperties, EmptySeq, ElementsOf
  <2> HIDE DEF a
  <2>3. /\ b \in Seq(Characters) /\ a \o <<"space">> = b /\ Len(b) = Len(a) + 1
        /\ \A i \in 1 .. Len(a) : b[i] = a[i]
        /\ b[Len(a) + 1] = "space"
        /\ Len(a) \in Nat
    BY <2>1, AppendIsConcat, AppendProperties, LenProperties
  <2> HIDE DEF b
  <2>4. /\ b \o t \in Seq(Characters) /\ Len(b \o t) = Len(b) + Len(t)
        /\ \A i \in 1 .. Len(b) : (b \o t)[i] = b[i]
    <3>1. b \in Seq(Characters)
      BY <2>3
    <3> QED BY <3>1, ConcatElements
  <2>5. line = b \o t
    BY <2>3
  <2> HIDE DEF line, n
  <2>6. /\ line \in Seq(Characters) /\ Len(line) = Len(a) + 1 + Len(t)
        /\ \A i \in 1 .. Len(a) : line[i] = a[i]
        /\ line[Len(a) + 1] = "space"
    BY <2>1, <2>3, <2>4, <2>5
  <2> QED BY <2>1, <2>2, <2>3, <2>6 DEF a
<1>2. CASE ToSet(s) \cap {"space", "quote"} = {}
  <2>1. a = s
    BY <1>2 DEF EscapeArgument
  <2> HIDE DEF a, line
  <2>2. line[1] # "quote"
    <3>1. line[1] = s[1] /\ s[1] \in ToSet(s)
      BY <1>1, <2>1
    <3> QED BY <3>1
  <2>3. \A i \in 1 .. Len(s) : line[1 + i - 1] = s[i]
    BY <1>1, <2>1
  <2>4. "space" \in Characters /\ "space" \notin ToSet(s)
        /\ 1 + Len(s) <= Len(line) /\ line[1 + Len(s)] = "space"
    BY <1>1, <1>2, <2>1 DEF Characters
  <2> DEFINE I == {i \in 1 .. Len(line) : line[i] = "space"}
             stop == (IF I # {} THEN Min(I) ELSE 0) - 1
  <2>5. SubSeq(line, 1, stop) = s
    <3>1. line \in Seq(Characters) /\ 1 \in {1, 2}
      BY <1>1
    <3> QED BY <2>3, <2>4, <3>1, NameUpTo
  <2>6. ProgramName(line) = SubSeq(line, 1, stop)
    <3>1. 1 = (IF line[1] = "quote" THEN 2 ELSE 1)
          /\ "space" = (IF line[1] = "quote" THEN "quote" ELSE "space")
      BY <2>2
    <3> QED BY <3>1, NameIs
  <2> HIDE DEF stop
  <2>7. ProgramName(line) = s
    BY <2>5, <2>6
  <2> QED BY <2>7 DEF line, a
<1>3. CASE ToSet(s) \cap {"space", "quote"} # {}
  <2> DEFINE q == <<"quote">>
             e == q \o s
  <2>1. a = Append(e, "quote") /\ e \in Seq(Characters)
    <3>1. a = Quoted(s) /\ Escaped(s).escaped = e /\ Escaped(s).num_backslashes = 0
      BY <1>3, EscapedPath DEF EscapeArgument
    <3>2. e \in Seq(Characters)
      BY <3>1, EscapedType
    <3>3. e \o Backslashes(2 * 0) = e
      <4>1. Backslashes(2 * 0) = << >>
        BY BackslashesType, EmptySeq
      <4> HIDE DEF e
      <4> QED BY <3>2, <4>1, ConcatEmptySeq
    <3> HIDE DEF e
    <3> QED BY <3>1, <3>2, <3>3, QuotedType
  <2>2. Len(e) = n + 1 /\ e[1] = "quote" /\ \A i \in 1 .. n : e[i + 1] = s[i]
    <3>1. q \in Seq(Characters) /\ Len(q) = 1 /\ q[1] = "quote"
      BY DEF Characters
    <3> HIDE DEF q
    <3>2. /\ Len(e) = Len(q) + n /\ \A i \in 1 .. Len(q) : e[i] = q[i]
          /\ \A i \in 1 .. n : e[Len(q) + i] = s[i]
      <4>1. q \in Seq(Characters)
        BY <3>1
      <4> QED BY <4>1, ConcatElements
    <3> HIDE DEF e, n
    <3> QED BY <1>1, <3>1, <3>2
  <2>3. "quote" \in Characters
    BY DEF Characters
  <2> HIDE DEF e
  <2>4. /\ Len(a) = n + 2 /\ a[1] = "quote" /\ a[n + 2] = "quote"
        /\ \A i \in 1 .. n : a[i + 1] = s[i]
    <3>1. /\ Len(a) = Len(e) + 1 /\ a[Len(e) + 1] = "quote"
          /\ \A i \in 1 .. Len(e) : a[i] = e[i]
      BY <2>1, <2>3, AppendProperties
    <3> HIDE DEF a, n
    <3> QED BY <1>1, <2>2, <3>1
  <2> HIDE DEF a, line, n
  <2>5. line[1] = "quote" /\ line[n + 2] = "quote" /\ \A i \in 1 .. n : line[2 + i - 1] = s[i]
    BY <1>1, <2>4
  <2>6. /\ 2 + Len(s) <= Len(line) /\ line[2 + Len(s)] = "quote"
        /\ \A i \in 1 .. Len(s) : line[2 + i - 1] = s[i]
    BY <1>1, <2>4, <2>5 DEF n
  <2> DEFINE I == {i \in 2 .. Len(line) : line[i] = "quote"}
             stop == (IF I # {} THEN Min(I) ELSE 0) - 1
  <2>7. SubSeq(line, 2, stop) = s
    <3>1. line \in Seq(Characters) /\ 2 \in {1, 2} /\ "quote" \in Characters
      BY <1>1, <2>3
    <3> QED BY <2>6, <3>1, NameUpTo
  <2>8. ProgramName(line) = SubSeq(line, 2, stop)
    <3>1. 2 = (IF line[1] = "quote" THEN 2 ELSE 1)
          /\ "quote" = (IF line[1] = "quote" THEN "quote" ELSE "space")
      BY <2>5
    <3> QED BY <3>1, NameIs
  <2> HIDE DEF stop
  <2>9. ProgramName(line) = s
    BY <2>7, <2>8
  <2> QED BY <2>9 DEF line, a
<1> QED BY <1>2, <1>3

\* What is written is read back: the argument, whatever it holds, by the rules for an
\* argument, and a path by those for the name of the program.
LEMMA LineReadsBack ==
  ASSUME NEW s \in Seq(Characters), NEW t \in Seq(Characters), s # << >>,
         ToSet(s \o t) \cap Wide = {}
  PROVE  LET parse == FirstArgument(CommandLine(s, t)) IN
         /\ parse.argument = s
         /\ parse.rest = t
         /\ "quote" \notin ToSet(s) /\ Last(s) # "backslash" =>
               ProgramName(CommandLine(s, t)) = s
<1> DEFINE line == CommandLine(s, t)
<1>1. line = EscapeArgument(s) \o <<"space">> \o t
  BY NarrowLine
<1> HIDE DEF line
<1>2. FirstArgument(line) = Parse(s, 0, FALSE, TRUE, t)
  BY <1>1, ReadsLine
<1>3. FirstArgument(line).argument = s /\ FirstArgument(line).rest = t
  BY <1>2 DEF Parse
<1>4. ASSUME "quote" \notin ToSet(s), Last(s) # "backslash" PROVE ProgramName(line) = s
  BY <1>1, <1>4, ProgramOfLine
<1> QED BY <1>3, <1>4 DEF line

-----------------------------------------------------------------------------
(* The command lines of the pools. *)

\* A pool that was ever made has the command line of the element it was last made for,
\* which the configuration still has.
LinesOK ==
    /\ DOMAIN command_line = Pools
    /\ \A p \in Pools : command_line[p] \in Seq(Characters)
    /\ \A p \in Pools : made_for[p] # NoElement =>
          /\ made_for[p][2] \in 1 .. Len(config[made_for[p][1]])
          /\ LET element == config[made_for[p][1]][made_for[p][2]]
             IN  command_line[p] = CommandLine(element.executable, element.arguments)

\* An element of a configuration is what the schema says.
LEMMA ElementType ==
  ASSUME ModuleTypeOK, NEW a \in Applications, NEW i \in 1 .. Len(config[a])
  PROVE  config[a][i] \in Elements /\ config[a][i].executable \in Seq(Characters)
         /\ config[a][i].arguments \in Seq(Characters)
<1>1. config[a] \in Seq(Elements)
  BY DEF ModuleTypeOK
<1>2. config[a][i] \in Elements
  BY <1>1, ElementOfSeq
<1> QED BY <1>2 DEF Elements

\* LoadConfiguration() is the only one that writes a command line.
LEMMA LoadElementLines ==
  ASSUME IInv, LinesOK, NEW a \in Applications, LoadElement(a)
  PROVE  LinesOK'
<1> DEFINE i == element_idx + 1
           element == config[a][i]
           line == CommandLine(element.executable, element.arguments)
<1>1. element_idx < Len(config[a]) /\ config' = config /\ ModuleTypeOK
  BY DEF LoadElement, IInv
<1>2. i \in 1 .. Len(config[a])
  <2>1. element_idx \in Nat /\ config[a] \in Seq(Elements)
    BY <1>1 DEF ModuleTypeOK
  <2> QED BY <1>1, <2>1, LenProperties
<1>3. line \in Seq(Characters)
  <2>1. element.executable \in Seq(Characters) /\ element.arguments \in Seq(Characters)
    BY <1>1, <1>2, ElementType
  <2> HIDE DEF element
  <2> QED BY <2>1, CommandLineType
<1>4. PICK p \in Pools :
          /\ command_line' = [command_line EXCEPT ![p] = line]
          /\ made_for' = [made_for EXCEPT ![p] = <<a, i>>]
  BY DEF LoadElement
<1> HIDE DEF line
<1>5. /\ DOMAIN command_line = Pools /\ DOMAIN made_for = Pools
  BY <1>1 DEF LinesOK, ModuleTypeOK
<1>6. /\ DOMAIN command_line' = Pools
      /\ \A q \in Pools : q # p => command_line'[q] = command_line[q] /\ made_for'[q] = made_for[q]
      /\ command_line'[p] = line /\ made_for'[p] = <<a, i>>
  BY <1>4, <1>5
<1>7. \A q \in Pools : command_line'[q] \in Seq(Characters)
  BY <1>3, <1>6 DEF LinesOK
<1>8. ASSUME NEW q \in Pools, made_for'[q] # NoElement
      PROVE  /\ made_for'[q][2] \in 1 .. Len(config'[made_for'[q][1]])
             /\ LET e == config'[made_for'[q][1]][made_for'[q][2]]
                IN  command_line'[q] = CommandLine(e.executable, e.arguments)
  <2>1. CASE q = p
    <3>1. made_for'[q][1] = a /\ made_for'[q][2] = i
      BY <1>6, <2>1
    <3> QED BY <1>1, <1>2, <1>6, <2>1, <3>1 DEF line
  <2>2. CASE q # p
    BY <1>1, <1>6, <1>8, <2>2 DEF LinesOK
  <2> QED BY <2>1, <2>2
<1> QED BY <1>6, <1>7, <1>8 DEF LinesOK

\* Every other step leaves them alone.
LEMMA NextLines == ASSUME IInv, LinesOK, [Next]_vars PROVE LinesOK'
<1>1. ASSUME UNCHANGED <<config, command_line, made_for>> PROVE LinesOK'
  BY <1>1 DEF LinesOK
<1>2. CASE UNCHANGED vars
  BY <1>1, <1>2 DEF vars, moduleVars
<1>3. ASSUME NEW a \in Applications,
             OnGlobalApplicationStart(a) \/ OnGlobalApplicationStop(a)
      PROVE  LinesOK'
  BY <1>1, <1>3 DEF OnGlobalApplicationStart, OnGlobalApplicationStop
<1>4. CASE Terminate
  BY <1>1, <1>4 DEF Terminate
<1>5. CASE Module
  <2>1. CASE LoadReturns \/ StopReturn
    BY <1>1, <2>1 DEF LoadReturns, StopReturn, Return
  <2>2. CASE StopPool \/ TerminateReturn
    BY <1>1, <2>2 DEF StopPool, TerminateReturn
  <2> QED BY <1>5, <2>1, <2>2, LoadElementLines DEF Module
<1>6. CASE PoolDestroyed
  BY <1>1, <1>6 DEF PoolDestroyed
<1>7. CASE \E p \in Pools : PoolStep(p) /\ UNCHANGED <<config, moduleVars>>
  BY <1>1, <1>7 DEF moduleVars
<1>8. CASE WorkerCrash
  BY <1>1, <1>8 DEF WorkerCrash
<1> QED BY <1>2, <1>3, <1>4, <1>5, <1>6, <1>7, <1>8 DEF Next

\* The command line of a pool is that of its element.
THEOREM Lines == Spec => []LinesOK
<1>1. Init => LinesOK
  BY EmptySeq DEF Init, LinesOK
<1>2. IInv /\ LinesOK /\ [Next]_vars => LinesOK'
  BY NextLines
<1> QED BY <1>1, <1>2, Invariance, PTL DEF Spec

\* The types of the module's state, command lines included.
THEOREM TypeCorrect == Spec => []TypeOK
<1>1. IInv /\ LinesOK => TypeOK
  BY DEF IInv, LinesOK, TypeOK
<1> QED BY <1>1, Invariance, Lines, PTL

\* However many backslashes and quotes an executable holds, and wherever, a process is
\* started with that executable and the arguments of the configuration.
THEOREM ReadsBack == Spec => []CommandLineReadsBack
<1>1. IInv /\ LinesOK => CommandLineReadsBack
  <2> SUFFICES ASSUME IInv, LinesOK, NEW p \in Pools, made_for[p] # NoElement
               PROVE  LET element    == config[made_for[p][1]][made_for[p][2]]
                          executable == element.executable
                          parse      == FirstArgument(command_line[p])
                      IN  executable # << >>
                          /\ ToSet(executable \o element.arguments) \cap Wide = {} =>
                            /\ parse.argument = executable
                            /\ parse.rest = element.arguments
                            /\ "quote" \notin ToSet(executable)
                               /\ Last(executable) # "backslash" =>
                                  ProgramName(command_line[p]) = executable
    BY DEF CommandLineReadsBack
  <2> DEFINE element == config[made_for[p][1]][made_for[p][2]]
             s == element.executable
             t == element.arguments
  <2>1. command_line[p] = CommandLine(s, t)
    BY DEF LinesOK
  <2>2. s \in Seq(Characters) /\ t \in Seq(Characters)
    <3>1. made_for[p][1] \in Applications
      BY MadeForType DEF IInv
    <3> QED BY <3>1, ElementType DEF IInv, LinesOK
  <2> HIDE DEF s, t
  <2>3. ASSUME s # << >>, ToSet(s \o t) \cap Wide = {}
        PROVE  /\ FirstArgument(command_line[p]).argument = s
               /\ FirstArgument(command_line[p]).rest = t
               /\ "quote" \notin ToSet(s) /\ Last(s) # "backslash" =>
                     ProgramName(command_line[p]) = s
    BY <2>1, <2>2, <2>3, LineReadsBack
  <2> QED BY <2>3 DEF s, t
<1> QED BY <1>1, Invariance, Lines, PTL

=============================================================================

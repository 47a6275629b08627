------------------------- MODULE ProcessPoolProofs -------------------------
(***************************************************************************)
(* Safety of ProcessPool for every set of processes, every size and every  *)
(* limit of the wait, and that it implements PoolContract.                 *)
(*                                                                         *)
(* The inductive invariant follows one process through CreateProcess():    *)
(* it is in the local `current', then in the vector, in the job before it  *)
(* is in the vector, and the places of the vector, the creations that      *)
(* failed and those still to do add up to the size of the pool.            *)
(***************************************************************************)
EXTENDS ProcessPool, SequenceLemmas

InVector == ToSet(m_processes)

\* CreateProcess() is between its first call and its return.
Creating == pc \in {"assign", "resume", "check"}

\* A live process is in the vector, once, or in CreateProcess()'s hands, with an open
\* handle.
WatchedOK ==
    /\ IsInjective(m_processes)
    /\ InVector \cap current = {}
    /\ InVector \cup current \subseteq open
    /\ \A p \in Processes : Alive(p) => p \in InVector \cup current
    /\ IF Creating THEN \E p \in Processes : current = {p} ELSE current = {}

\* A process is in the job before it is in the vector.
JobOK ==
    /\ InVector \subseteq m_job
    /\ pc \in {"resume", "check"} /\ assigned => current \subseteq m_job

\* Nothing is created beyond the size of the pool.
CountOK ==
    /\ pc = "loop" => Len(m_processes) <= m_num_processes
    /\ pc \in {"create", "wait"} => Len(m_processes) + failures + todo = m_num_processes
    /\ Creating => Len(m_processes) + failures + todo + 1 = m_num_processes
    /\ pc = "wait" => todo = 0

IInv ==
    /\ TypeOK
    /\ ~Ended => WatchedOK /\ JobOK /\ CountOK
    /\ pc = "exited" => exit_event
    /\ pc = "destroyed" => \A p \in Processes : ~Alive(p)

LEMMA Sizes ==
  ASSUME IInv
  PROVE  /\ m_num_processes \in Nat /\ Len(m_processes) \in Nat /\ todo \in Nat
         /\ failures \in Nat
         /\ InVector \subseteq Processes
BY PoolAssumption, LenProperties, ElementsOf DEF IInv, TypeOK, InVector

LEMMA InitIInv == ASSUME Init PROVE IInv
<1>1. m_processes \in Seq(Processes) /\ Len(m_processes) = 0
      /\ InVector = {} /\ IsInjective(m_processes)
  BY ElementsOfEmpty DEF Init, InVector
<1>2. TypeOK
  BY <1>1 DEF Init, TypeOK
<1>3. WatchedOK /\ JobOK
  BY <1>1 DEF Init, WatchedOK, JobOK, Creating, Alive
<1>4. CountOK
  BY <1>1, PoolAssumption DEF Init, CountOK, Creating
<1> QED BY <1>2, <1>3, <1>4 DEF Init, IInv

-----------------------------------------------------------------------------
(* One lemma per action of the thread. *)

LEMMA StartMissingOK == ASSUME IInv, StartMissing PROVE IInv'
<1>1. pc = "loop" /\ ~Ended /\ Len(m_processes) <= m_num_processes
  BY DEF StartMissing, Ended, IInv, CountOK
<1>2. Missing \in Nat /\ Len(m_processes) + 0 + Missing = m_num_processes
  BY <1>1, Sizes DEF Missing
<1>3. TypeOK' /\ CountOK'
  BY <1>2 DEF StartMissing, IInv, TypeOK, CountOK, Creating, osVars
<1>4. WatchedOK' /\ JobOK'
  BY <1>1 DEF StartMissing, IInv, WatchedOK, JobOK, Creating, InVector, Alive, osVars
<1> QED BY <1>3, <1>4 DEF StartMissing, IInv

LEMMA CreateSuspendedOK == ASSUME IInv, CreateSuspended PROVE IInv'
<1>1. /\ pc = "create" /\ ~Ended /\ todo > 0 /\ todo' = todo - 1
      /\ UNCHANGED <<exit_event, m_num_processes, m_processes, assigned, resumed>>
      /\ WatchedOK /\ JobOK /\ CountOK /\ InVector' = InVector /\ current = {}
  BY DEF CreateSuspended, Ended, IInv, InVector, WatchedOK, Creating
<1>2. todo - 1 \in Nat /\ failures + 1 \in Nat
      /\ Len(m_processes) + failures + todo = m_num_processes
  BY <1>1, Sizes DEF CountOK
<1>3. CASE \E p \in Processes :
             /\ Forgotten(p)
             /\ os' = [os EXCEPT ![p] = "suspended"]
             /\ m_job' = m_job \ {p}
             /\ open' = open \cup {p}
             /\ current' = {p}
             /\ pc' = "assign"
             /\ UNCHANGED failures
  <2>1. PICK p \in Processes :
             /\ Forgotten(p)
             /\ os' = [os EXCEPT ![p] = "suspended"]
             /\ m_job' = m_job \ {p}
             /\ open' = open \cup {p}
             /\ current' = {p}
             /\ pc' = "assign"
             /\ UNCHANGED failures
    BY <1>3
  <2>2. TypeOK' /\ p \notin InVector
    BY <1>1, <1>2, <2>1 DEF IInv, TypeOK, Forgotten, InVector
  <2>3. WatchedOK'
    BY <1>1, <2>1, <2>2, Sizes DEF WatchedOK, Creating, Alive, IInv, TypeOK
  <2>4. JobOK' /\ CountOK'
    BY <1>1, <1>2, <2>1, <2>2, Sizes DEF JobOK, CountOK, Creating
  <2> QED BY <1>1, <2>1, <2>2, <2>3, <2>4 DEF IInv
<1>4. CASE failures' = failures + 1 /\ UNCHANGED <<osVars, open, current, pc>>
  <2>1. TypeOK'
    BY <1>1, <1>2, <1>4 DEF IInv, TypeOK, osVars
  <2>2. WatchedOK' /\ JobOK'
    BY <1>1, <1>4 DEF WatchedOK, JobOK, Creating, Alive, osVars
  <2>3. CountOK'
    <3>1. /\ pc' = "create" /\ todo' = todo - 1 /\ failures' = failures + 1
          /\ m_processes' = m_processes /\ m_num_processes' = m_num_processes
      BY <1>1, <1>4
    <3>2. Len(m_processes) + (failures + 1) + (todo - 1) = m_num_processes
      BY <1>2, Sizes
    <3> QED BY <3>1, <3>2 DEF CountOK, Creating
  <2> QED BY <1>1, <1>4, <2>1, <2>2, <2>3 DEF IInv
<1> QED BY <1>3, <1>4 DEF CreateSuspended

LEMMA AssignOK == ASSUME IInv, Assign PROVE IInv'
<1>1. pc = "assign" /\ pc' = "resume" /\ ~Ended /\ InVector' = InVector
  BY DEF Assign, Ended, InVector
<1>2. TypeOK'
  BY DEF Assign, IInv, TypeOK
<1>3. WatchedOK'
  BY <1>1 DEF Assign, IInv, WatchedOK, Creating, Alive
<1>4. JobOK'
  BY <1>1 DEF Assign, IInv, JobOK
<1>5. CountOK'
  BY <1>1 DEF Assign, IInv, CountOK, Creating
<1> QED BY <1>1, <1>2, <1>3, <1>4, <1>5 DEF IInv

LEMMA ResumeOK == ASSUME IInv, Resume PROVE IInv'
<1>1. pc = "resume" /\ pc' = "check" /\ ~Ended /\ InVector' = InVector
  BY DEF Resume, Ended, InVector
<1>2. TypeOK' /\ \A p \in Processes : Alive(p)' <=> Alive(p)
  BY DEF Resume, IInv, TypeOK, Alive
<1>3. WatchedOK'
  BY <1>1, <1>2 DEF Resume, IInv, WatchedOK, Creating
<1>4. JobOK'
  BY <1>1 DEF Resume, IInv, JobOK
<1>5. CountOK'
  BY <1>1 DEF Resume, IInv, CountOK, Creating
<1> QED BY <1>1, <1>2, <1>3, <1>4, <1>5 DEF IInv

LEMMA KeepOK == ASSUME IInv, Keep PROVE IInv'
<1>1. /\ pc = "check" /\ pc' = "create" /\ ~Ended /\ assigned /\ current' = {}
      /\ UNCHANGED <<os, m_job, open, exit_event, m_num_processes, todo, failures>>
      /\ WatchedOK /\ JobOK /\ CountOK
  BY DEF Keep, Ended, IInv, osVars
<1>2. PICK p \in Processes : current = {p} /\ m_processes' = Append(m_processes, p)
  BY <1>1 DEF Keep, WatchedOK, Creating
<1>3. /\ m_processes' \in Seq(Processes) /\ Len(m_processes') = Len(m_processes) + 1
      /\ InVector' = InVector \cup {p} /\ IsInjective(m_processes')
  BY <1>1, <1>2, ElementsOfAppend DEF IInv, TypeOK, WatchedOK, InVector
<1>4. TypeOK'
  BY <1>1, <1>3 DEF Keep, IInv, TypeOK
<1>5. WatchedOK'
  BY <1>1, <1>2, <1>3 DEF WatchedOK, Creating, Alive
<1>6. JobOK' /\ CountOK'
  BY <1>1, <1>2, <1>3, Sizes DEF JobOK, CountOK, Creating
<1> QED BY <1>1, <1>4, <1>5, <1>6 DEF IInv

LEMMA GiveUpOK == ASSUME IInv, GiveUp PROVE IInv'
<1>1. /\ pc = "check" /\ pc' = "create" /\ ~Ended /\ InVector' = InVector
      /\ WatchedOK /\ JobOK /\ CountOK
  BY DEF GiveUp, Ended, IInv, InVector
<1>2. TypeOK'
  BY Sizes DEF GiveUp, IInv, TypeOK
<1>3. WatchedOK'
  <2>1. \A p \in Processes : Alive(p)' => Alive(p) /\ p \notin current
    BY DEF GiveUp, Alive
  <2>2. IsInjective(m_processes') /\ InVector' \subseteq open' /\ current' = {}
    BY <1>1 DEF GiveUp, WatchedOK
  <2> QED BY <1>1, <2>1, <2>2 DEF WatchedOK, Creating
<1>4. JobOK' /\ CountOK'
  BY <1>1, Sizes DEF GiveUp, JobOK, CountOK, Creating
<1> QED BY <1>1, <1>2, <1>3, <1>4 DEF IInv

LEMMA ProcessTerminatedOK == ASSUME IInv, ProcessTerminated PROVE IInv'
<1>1. /\ pc = "wait" /\ pc' = "loop" /\ ~Ended /\ current = {} /\ current' = {}
      /\ UNCHANGED <<os, m_job, exit_event, m_num_processes, todo, failures>>
      /\ WatchedOK /\ JobOK /\ CountOK
  BY DEF ProcessTerminated, Ended, IInv, osVars, WatchedOK, Creating
<1>2. PICK k \in Signalled :
             /\ m_processes' = RemoveAt(m_processes, k)
             /\ open' = IF k = Len(m_processes) THEN open \ {m_processes[k]} ELSE open
  BY DEF ProcessTerminated
<1>3. k \in 1 .. Len(m_processes) /\ os[m_processes[k]] = "dead"
  BY <1>2 DEF Signalled
<1>4. /\ m_processes' \in Seq(Processes) /\ Len(m_processes') = Len(m_processes) - 1
      /\ InVector' = InVector \ {m_processes[k]} /\ IsInjective(m_processes')
  BY <1>1, <1>2, <1>3, ElementsOfRemoveAt DEF IInv, TypeOK, WatchedOK, InVector
<1>5. TypeOK'
  BY <1>1, <1>2, <1>4 DEF ProcessTerminated, IInv, TypeOK
<1>6. WatchedOK'
  <2>1. InVector' \subseteq open'
    BY <1>1, <1>2, <1>4 DEF WatchedOK
  <2>2. \A p \in Processes : Alive(p)' => p \in InVector'
    BY <1>1, <1>3, <1>4 DEF WatchedOK, Alive
  <2> QED BY <1>1, <1>4, <2>1, <2>2 DEF WatchedOK, Creating
<1>7. JobOK' /\ CountOK'
  BY <1>1, <1>4, Sizes DEF JobOK, CountOK, Creating
<1> QED BY <1>1, <1>5, <1>6, <1>7 DEF IInv

LEMMA OtherStepsOK ==
  ASSUME IInv, NothingMissing \/ ExitSignalled \/ WaitFailed
  PROVE  IInv'
<1>1. /\ pc \in {"create", "wait"} /\ pc' \in {"wait", "exited", "loop"} /\ ~Ended
      /\ pc' = "exited" => exit_event'
      /\ pc' = "wait" => pc = "create" /\ todo = 0
      /\ pc' = "loop" => pc = "wait"
      /\ UNCHANGED <<os, m_job, open, exit_event, m_num_processes, m_processes, todo,
                     current, assigned, resumed, failures>>
      /\ InVector' = InVector
  BY DEF NothingMissing, ExitSignalled, WaitFailed, Ended, osVars, InVector
<1>2. TypeOK'
  BY <1>1 DEF IInv, TypeOK
<1>3. WatchedOK' /\ JobOK'
  BY <1>1 DEF IInv, WatchedOK, JobOK, Creating, Alive
<1>4. CountOK'
  BY <1>1, Sizes DEF IInv, CountOK, Creating
<1> QED BY <1>1, <1>2, <1>3, <1>4 DEF IInv

-----------------------------------------------------------------------------
(* The rest of the world. *)

LEMMA WorldOK ==
  ASSUME IInv, Stop \/ Destroy \/ WorkerCrash \/ \E p \in Processes : Dies(p)
  PROVE  IInv'
<1>1. CASE Stop
  <2>1. TypeOK' /\ (~Ended => WatchedOK /\ JobOK /\ CountOK)'
    BY <1>1 DEF Stop, IInv, TypeOK, WatchedOK, JobOK, CountOK, Creating, Alive, Ended,
       InVector, osVars, threadVars
  <2> QED BY <1>1, <2>1 DEF Stop, IInv, threadVars, Ended
<1>2. CASE Destroy
  <2>1. TypeOK'
    BY <1>2, EmptySeq DEF Destroy, IInv, TypeOK, CloseJob
  <2>2. \A p \in Processes : ~Alive(p)'
    BY <1>2 DEF Destroy, CloseJob, IInv, Ended, WatchedOK, JobOK, Creating, Alive
  <2> QED BY <1>2, <2>1, <2>2 DEF Destroy, IInv, Ended
<1>3. CASE WorkerCrash
  <2>1. TypeOK'
    BY <1>3 DEF WorkerCrash, IInv, TypeOK, CloseJob
  <2> QED BY <1>3, <2>1 DEF WorkerCrash, IInv, Ended
<1>4. CASE \E p \in Processes : Dies(p)
  <2>1. PICK p \in Processes : Dies(p)
    BY <1>4
  <2>2. /\ TypeOK' /\ InVector' = InVector
        /\ \A q \in Processes : Alive(q)' => Alive(q)
    BY <2>1 DEF Dies, Alive, IInv, TypeOK, threadVars, InVector
  <2>3. (~Ended => WatchedOK /\ JobOK /\ CountOK)'
    BY <2>1, <2>2 DEF Dies, IInv, WatchedOK, JobOK, CountOK, Creating, Ended, threadVars
  <2> QED BY <2>1, <2>2, <2>3 DEF Dies, IInv, threadVars
<1> QED BY <1>1, <1>2, <1>3, <1>4

LEMMA NextIInv == ASSUME IInv, [Next]_vars PROVE IInv'
<1>1. CASE UNCHANGED vars
  BY <1>1 DEF IInv, TypeOK, WatchedOK, JobOK, CountOK, Creating, Ended, Alive, InVector,
     vars, osVars, threadVars
<1>2. CASE ThreadMain
  BY <1>2, StartMissingOK, CreateSuspendedOK, AssignOK, ResumeOK, KeepOK, GiveUpOK,
     ProcessTerminatedOK, OtherStepsOK DEF ThreadMain
<1> QED BY <1>1, <1>2, WorldOK DEF Next

\* The invariant everything else rests on.
THEOREM Invariance == Spec => []IInv
<1>1. Init => IInv
  BY InitIInv
<1>2. IInv /\ [Next]_vars => IInv'
  BY NextIInv
<1> QED BY <1>1, <1>2, PTL DEF Spec

\* The types of the pool's state, for pools of every size.
THEOREM TypeCorrect == Spec => []TypeOK
<1>1. IInv => TypeOK
  BY DEF IInv
<1> QED BY <1>1, Invariance, PTL

\* Every live process is watched, once, and ends with the job, whatever creation failed
\* half way and whichever process died when.
THEOREM NoStray == Spec => []NoStrayProcess
<1>1. IInv => NoStrayProcess
  <2> SUFFICES ASSUME IInv, ~Ended PROVE NoStrayProcess
    BY DEF NoStrayProcess
  <2>1. WatchedOK /\ JobOK
    BY DEF IInv
  <2>2. IsFiniteSet(InVector) /\ Cardinality(InVector) = Len(m_processes)
    BY <2>1, CardinalityOfElements DEF IInv, TypeOK, WatchedOK, InVector
  <2>3. IsFiniteSet(current)
    <3>1. current = {} \/ \E p \in Processes : current = {p}
      BY <2>1, Zenon DEF WatchedOK
    <3>2. CASE current = {}
      BY <3>2, FS_EmptySet, Zenon
    <3>3. CASE \E p \in Processes : current = {p}
      BY <3>3, FS_Singleton, Zenon
    <3> QED BY <3>1, <3>2, <3>3
  <2>4. /\ Cardinality(InVector \cup current)
           = Cardinality(InVector) + Cardinality(current) - Cardinality(InVector \cap current)
        /\ Cardinality(InVector \cap current) = 0
    BY <2>1, <2>2, <2>3, FS_Union, FS_EmptySet DEF WatchedOK
  <2>5. Cardinality(current) \in Nat /\ Len(m_processes) \in Nat
    BY <2>3, Sizes, FS_CardinalityType
  <2>6. Cardinality(InVector \cup current) = Len(m_processes) + Cardinality(current)
    BY <2>2, <2>4, <2>5
  <2> QED BY <2>1, <2>6 DEF NoStrayProcess, WatchedOK, JobOK, InVector
<1> QED BY <1>1, Invariance, PTL

\* When the thread goes to wait nothing is missing but what failed in this very turn.
THEOREM Full == Spec => []FullBeforeWaiting
<1>1. IInv => FullBeforeWaiting
  <2> SUFFICES ASSUME IInv, pc = "wait" PROVE Len(m_processes) + failures = m_num_processes
    BY DEF FullBeforeWaiting
  <2>1. CountOK
    BY DEF IInv, Ended
  <2> QED BY <2>1, Sizes DEF CountOK
<1> QED BY <1>1, Invariance, PTL

-----------------------------------------------------------------------------
(* The pool implements PoolContract: every step is one of the contract or   *)
(* leaves what the contract speaks of alone.                                *)

Living == {x \in Processes : Alive(x)}

\* The contract's module has a Cardinality of its own, with the same definition.
LEMMA SameCardinality == \A S : P!Cardinality(S) = Cardinality(S)
BY DEF P!Cardinality, Cardinality

\* What the contract sees.
LEMMA Seen ==
  /\ P!Exists(1) <=> ~Ended
  /\ [p \in {1} |-> Phase][1] = Phase
  /\ Phase \in {"none", "crashed"} <=> Ended
BY DEF P!Exists, Phase, Ended

\* As long as nothing lives or dies, and neither the event nor the end comes.
LEMMA NothingSeen ==
  ASSUME UNCHANGED <<m_num_processes, exit_event>>, ~Ended, ~Ended',
         \A x \in Processes : Alive(x)' <=> Alive(x)
  PROVE  UNCHANGED P!contractVars
<1>1. Phase' = Phase
  BY DEF Phase, Ended
<1>2. {x \in Processes : Alive(x)}' = {x \in Processes : Alive(x)}
  OBVIOUS
<1> QED BY <1>1, <1>2 DEF P!contractVars

LEMMA EndSeen ==
  ASSUME UNCHANGED <<m_num_processes, exit_event, pc>>, NEW x \in Processes, Alive(x),
         Living' = Living \ {x}
  PROVE  P!Ends(1, x)
<1>1. Phase' = Phase
  BY DEF Phase
<1> QED BY <1>1 DEF P!Ends, Living

LEMMA SpawnSeen ==
  ASSUME IInv, CreateSuspended
  PROVE  P!ContractNext \/ UNCHANGED P!contractVars
<1>1. pc = "create" /\ todo > 0 /\ UNCHANGED <<exit_event, m_num_processes>> /\ ~Ended
      /\ WatchedOK /\ CountOK /\ current = {} /\ ~Ended'
  BY DEF CreateSuspended, IInv, Ended, WatchedOK, Creating
<1>2. CASE UNCHANGED os
  BY <1>1, <1>2, NothingSeen DEF Alive
<1>3. CASE ~UNCHANGED os
  <2>1. PICK x \in Processes : ~Alive(x) /\ os' = [os EXCEPT ![x] = "suspended"]
    BY <1>3 DEF CreateSuspended, Forgotten, osVars
  <2>2. Living' = Living \cup {x} /\ x \notin Living
    BY <2>1 DEF Living, Alive, IInv, TypeOK
  <2>3. Cardinality(Living) < m_num_processes
    <3>1. Living \subseteq InVector
      BY <1>1 DEF WatchedOK, Living
    <3>2. IsFiniteSet(InVector) /\ Cardinality(InVector) = Len(m_processes)
      BY <1>1, CardinalityOfElements DEF IInv, TypeOK, WatchedOK, InVector
    <3>3. Cardinality(Living) <= Len(m_processes) /\ Cardinality(Living) \in Nat
      BY <3>1, <3>2, FS_Subset, FS_CardinalityType
    <3>4. Len(m_processes) + failures + todo = m_num_processes
      BY <1>1 DEF CountOK
    <3> QED BY <1>1, <3>3, <3>4, Sizes
  <2>4. Phase' = Phase
    BY <1>1 DEF Phase, Ended
  <2>5. P!Spawn(1, x)
    BY <1>1, <2>2, <2>3, <2>4, Seen, SameCardinality DEF P!Spawn, Living
  <2> QED BY <2>5 DEF P!ContractNext, P!PoolStep
<1> QED BY <1>2, <1>3

LEMMA GiveUpSeen ==
  ASSUME IInv, GiveUp
  PROVE  P!ContractNext \/ UNCHANGED P!contractVars
<1>1. pc = "check" /\ UNCHANGED <<exit_event, m_num_processes>> /\ ~Ended /\ ~Ended'
      /\ Phase' = Phase
  BY DEF GiveUp, Ended, Phase
<1>2. PICK x \in Processes : current = {x}
  BY <1>1 DEF IInv, WatchedOK, Creating
<1>3. Living' = Living \ {x}
  BY <1>2 DEF GiveUp, Living, Alive, IInv, TypeOK
<1>4. CASE Alive(x)
  <2>1. P!Ends(1, x)
    BY <1>1, <1>3, <1>4 DEF P!Ends, Living
  <2> QED BY <2>1 DEF P!ContractNext, P!PoolStep
<1>5. CASE ~Alive(x)
  <2>1. Living' = Living
    BY <1>3, <1>5 DEF Living
  <2> QED BY <1>1, <2>1 DEF P!contractVars, Living
<1> QED BY <1>4, <1>5

LEMMA ThreadSeen ==
  ASSUME IInv, ThreadMain
  PROVE  P!ContractNext \/ UNCHANGED P!contractVars
<1>1. CASE CreateSuspended
  BY <1>1, SpawnSeen
<1>2. CASE GiveUp
  BY <1>2, GiveUpSeen
<1>3. CASE StartMissing \/ Assign \/ Keep \/ NothingMissing \/ ProcessTerminated
           \/ ExitSignalled \/ WaitFailed
  <2>1. ~Ended /\ ~Ended' /\ UNCHANGED <<m_num_processes, exit_event, os>>
    BY <1>3 DEF StartMissing, Assign, Keep, NothingMissing, ProcessTerminated,
       ExitSignalled, WaitFailed, Ended, osVars
  <2> QED BY <2>1, NothingSeen DEF Alive
<1>4. CASE Resume
  <2>1. ~Ended /\ ~Ended' /\ UNCHANGED <<m_num_processes, exit_event>>
        /\ \A x \in Processes : Alive(x)' <=> Alive(x)
    BY <1>4 DEF Resume, Ended, Alive, IInv, TypeOK
  <2> QED BY <2>1, NothingSeen
<1> QED BY <1>1, <1>2, <1>3, <1>4 DEF ThreadMain

\* What survives a crash of the worker process is not in the job: the process whose
\* creation was under way, if any.
LEMMA CrashSeen == ASSUME IInv, WorkerCrash PROVE P!Crash
<1>1. ~Ended /\ WatchedOK /\ JobOK /\ Phase' = "crashed" /\ UNCHANGED m_num_processes
  BY DEF WorkerCrash, IInv, Phase, Ended
<1>2. Living' = Living \ m_job
  BY DEF WorkerCrash, CloseJob, Living, Alive, IInv, TypeOK
<1>3. Living' \subseteq current
  BY <1>1, <1>2 DEF WatchedOK, JobOK, Living
<1>4. IsFiniteSet(current) /\ Cardinality(current) <= 1
  <2>1. CASE Creating
    <3>1. PICK p \in Processes : current = {p}
      BY <1>1, <2>1 DEF WatchedOK
    <3> QED BY <3>1, FS_Singleton
  <2>2. CASE ~Creating
    BY <1>1, <2>2, FS_EmptySet DEF WatchedOK
  <2> QED BY <2>1, <2>2
<1>5. IsFiniteSet(Living') /\ Cardinality(Living') <= 1
  <2>1. /\ IsFiniteSet(Living') /\ Cardinality(Living') <= Cardinality(current)
        /\ Cardinality(Living') \in Nat /\ Cardinality(current) \in Nat
    BY <1>3, <1>4, FS_Subset, FS_CardinalityType
  <2> QED BY <1>4, <2>1
<1>6. Living' \cap Living = Living'
  BY <1>2
<1> DEFINE survivors == Living'
<1>7. survivors \in SUBSET UNION {[q \in {1} |-> Living][p] : p \in {1}}
  BY <1>2
<1>8. /\ \A p \in {1} : Cardinality(survivors \cap [q \in {1} |-> Living][p]) <= 1
      /\ [p \in {1} |-> Living'] = [p \in {1} |-> survivors \cap [q \in {1} |-> Living][p]]
  BY <1>5, <1>6
<1>9. \E s \in SUBSET UNION {[q \in {1} |-> Living][p] : p \in {1}} :
        /\ \A p \in {1} : Cardinality(s \cap [q \in {1} |-> Living][p]) <= 1
        /\ [p \in {1} |-> Living'] = [p \in {1} |-> s \cap [q \in {1} |-> Living][p]]
  BY <1>7, <1>8
<1>10. [p \in {1} |-> Phase]' = [p \in {1} |-> IF P!Exists(p) THEN "crashed"
                                               ELSE [q \in {1} |-> Phase][p]]
  BY <1>1, Seen
<1> QED BY <1>1, <1>9, <1>10, SameCardinality DEF P!Crash, Living

LEMMA WorldSeen ==
  ASSUME IInv, Stop \/ Destroy \/ WorkerCrash \/ \E x \in Processes : Dies(x)
  PROVE  P!ContractNext
<1>1. CASE Stop
  <2>1. /\ Phase = "running" /\ Phase' = "stopping"
        /\ UNCHANGED <<m_num_processes, os>>
    BY <1>1 DEF Stop, Phase, Ended, osVars, threadVars
  <2>2. P!Stopped(1)
    BY <2>1 DEF P!Stopped, Alive
  <2> QED BY <2>2 DEF P!ContractNext
<1>2. CASE Destroy
  <2>1. Phase = "stopping" /\ Phase' = "none" /\ UNCHANGED m_num_processes
    BY <1>2 DEF Destroy, Phase, IInv
  <2>2. IInv' /\ pc' = "destroyed"
    BY <1>2, WorldOK DEF Destroy
  <2>3. Living' = {}
    BY <2>2 DEF IInv, Living
  <2>4. P!Destroyed(1)
    BY <2>1, <2>3 DEF P!Destroyed, Living
  <2> QED BY <2>4 DEF P!ContractNext
<1>3. CASE WorkerCrash
  BY <1>3, CrashSeen DEF P!ContractNext
<1>4. CASE \E x \in Processes : Dies(x)
  <2>1. PICK x \in Processes : Dies(x)
    BY <1>4
  <2>2. /\ UNCHANGED <<m_num_processes, exit_event, pc>> /\ Alive(x)
        /\ Living' = Living \ {x}
    BY <2>1 DEF Dies, threadVars, Living, Alive, IInv, TypeOK
  <2>3. P!Ends(1, x)
    BY <2>2, EndSeen
  <2> QED BY <2>3 DEF P!ContractNext, P!PoolStep
<1> QED BY <1>1, <1>2, <1>3, <1>4

\* A pool keeps the contract that GlobalModule builds on: never more processes than it was
\* asked for, all of them gone with its destructor, one survivor of a crash at most.
THEOREM KeepsContract == Spec => PoolContractRefinement
<1>1. Init => P!ContractInit
  <2> SUFFICES ASSUME Init PROVE P!ContractInit
    OBVIOUS
  <2>1. Phase = "running" /\ m_num_processes \in Nat /\ Living = {}
    BY PoolAssumption DEF Init, Phase, Living, Alive
  <2> QED BY <2>1 DEF P!ContractInit, Living
<1>2. IInv /\ [Next]_vars => [P!ContractNext]_(P!contractVars)
  <2> SUFFICES ASSUME IInv, [Next]_vars
               PROVE  P!ContractNext \/ UNCHANGED P!contractVars
    OBVIOUS
  <2>1. CASE UNCHANGED vars
    BY <2>1 DEF vars, osVars, threadVars, P!contractVars, Phase, Alive
  <2>2. CASE ThreadMain
    BY <2>2, ThreadSeen
  <2>3. CASE Stop \/ Destroy \/ WorkerCrash \/ \E x \in Processes : Dies(x)
    BY <2>3, WorldSeen
  <2> QED BY <2>1, <2>2, <2>3 DEF Next
<1> QED
  BY <1>1, <1>2, Invariance, PTL DEF Spec, PoolContractRefinement, P!ContractSpec

=============================================================================

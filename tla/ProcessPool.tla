----------------------------- MODULE ProcessPool -----------------------------
(***************************************************************************)
(* A process pool (ProcessPoolLib/ProcessPool.cpp, JobObject.cpp and the   *)
(* handle wrapper of SharedUtils/ScopedResources.h): one monitor thread    *)
(* that keeps m_num_processes processes alive, replaces those that die,    *)
(* and stops when the exit event is set; around it the operating system.   *)
(*                                                                         *)
(* A process is identified with the handle the pool has for it; one that   *)
(* is dead and that nobody watches is forgotten, and its name may come     *)
(* back as that of a new process, so that any number of processes may die. *)
(* The thread creates a process suspended, puts it into the job, resumes   *)
(* it and only then remembers it; `current` is the local of                *)
(* CreateProcess() that holds it meanwhile. The worker process of IIS, in  *)
(* which all of this runs, may end at any moment: the system then closes   *)
(* its handles, the one of the job included.                               *)
(***************************************************************************)
EXTENDS Integers, SequencesExt

CONSTANTS
    Processes,             \* bound: the processes that live or are watched at one time
    PoolSizes,             \* the sizes a pool may be configured with
    MAXIMUM_WAIT_OBJECTS   \* how many handles one wait can take (64 in Windows)

ASSUME PoolAssumption ==
    PoolSizes \subseteq Nat /\ MAXIMUM_WAIT_OBJECTS \in Nat \ {0}

VARIABLES
    os,            \* [Processes -> the state of the process in the system]
    m_job,         \* the processes assigned to the job object
    open,          \* the process handles that are open
    m_processes,   \* Seq(Processes): the vector of the pool
    m_num_processes,  \* the size the constructor was given
    exit_event,    \* m_thread_exit_event is signalled
    pc,            \* where the monitor thread is
    todo,          \* CreateProcess() calls left in this turn of the loop
    current,       \* the process being created, as a set
    assigned,      \* result of AssignProcessToJobObject
    resumed,       \* result of ResumeThread
    failures       \* history: CreateProcess() calls of this turn that failed

osVars == <<os, m_job>>
threadVars == <<m_processes, pc, todo, current, assigned, resumed, failures>>
vars == <<osVars, open, exit_event, m_num_processes, threadVars>>

TypeOK ==
    /\ os \in [Processes -> {"none", "suspended", "running", "dead"}]
    /\ m_job \subseteq Processes
    /\ open \subseteq Processes
    /\ m_processes \in Seq(Processes)
    /\ m_num_processes \in PoolSizes
    /\ exit_event \in BOOLEAN
    /\ pc \in {"loop", "create", "assign", "resume", "check", "wait", "exited",
               "destroyed", "crashed"}
    /\ todo \in Nat
    /\ current \subseteq Processes
    /\ assigned \in BOOLEAN
    /\ resumed \in BOOLEAN
    /\ failures \in Nat

\* The constructor: the event is reset and the thread starts.
Init ==
    /\ os = [p \in Processes |-> "none"]
    /\ m_job = {}
    /\ open = {}
    /\ m_processes = <<>>
    /\ m_num_processes \in PoolSizes
    /\ exit_event = FALSE
    /\ pc = "loop"
    /\ todo = 0
    /\ current = {}
    /\ assigned = FALSE
    /\ resumed = FALSE
    /\ failures = 0

Alive(p) == os[p] \in {"suspended", "running"}

-----------------------------------------------------------------------------
(* CreateProcess(), once for each missing process. *)

\* Mutant of Missing: the loop runs once too often.
MissingAndOneMore == m_num_processes + 1 - Len(m_processes)

\* Mutant of Missing: the operands swapped.
MissingSwapped == Len(m_processes) - m_num_processes

\* The processes that are missing from the pool.
Missing == m_num_processes - Len(m_processes)

\* The head of the for loop.
StartMissing ==
    /\ pc = "loop"
    /\ todo' = Missing
    /\ failures' = 0
    /\ pc' = "create"
    /\ UNCHANGED <<osVars, open, exit_event, m_num_processes, m_processes, current,
                   assigned, resumed>>

\* Nobody watches p any more, or yet.
Forgotten(p) == ~Alive(p) /\ p \notin ToSet(m_processes) \cup current

\* ::CreateProcess() with CREATE_SUSPENDED; if it fails, CreateProcess() returns.
CreateSuspended ==
    /\ pc = "create"
    /\ todo > 0
    /\ todo' = todo - 1
    /\ \/ \E p \in Processes :
             /\ Forgotten(p)
             /\ os' = [os EXCEPT ![p] = "suspended"]
             /\ m_job' = m_job \ {p}
             /\ open' = open \cup {p}
             /\ current' = {p}
             /\ pc' = "assign"
             /\ UNCHANGED failures
       \/ /\ failures' = failures + 1
          /\ UNCHANGED <<osVars, open, current, pc>>
    /\ UNCHANGED <<exit_event, m_num_processes, m_processes, assigned, resumed>>

\* AssignProcessToJobObject() fails for a dead process and may fail for a live one.
Assign ==
    /\ pc = "assign"
    /\ \/ /\ \A p \in current : Alive(p)
          /\ m_job' = m_job \cup current
          /\ assigned' = TRUE
       \/ assigned' = FALSE /\ UNCHANGED m_job
    /\ pc' = "resume"
    /\ UNCHANGED <<os, open, exit_event, m_num_processes, m_processes, todo, current,
                   resumed, failures>>

\* ResumeThread(), whether the process is in the job or not.
Resume ==
    /\ pc = "resume"
    /\ \/ /\ os' = [p \in Processes |->
                      IF p \in current /\ os[p] = "suspended" THEN "running" ELSE os[p]]
          /\ resumed' = TRUE
       \/ resumed' = FALSE /\ UNCHANGED os
    /\ pc' = "check"
    /\ UNCHANGED <<m_job, open, exit_event, m_num_processes, m_processes, todo, current,
                   assigned, failures>>

\* Both succeeded: the process joins the vector.
Keep ==
    /\ pc = "check"
    /\ assigned /\ resumed
    /\ \E p \in current : m_processes' = Append(m_processes, p)
    /\ current' = {}
    /\ pc' = "create"
    /\ UNCHANGED <<osVars, open, exit_event, m_num_processes, todo, assigned, resumed,
                   failures>>

\* Mutant of GiveUp: the process is left alone.
GiveUpOnly ==
    /\ pc = "check"
    /\ ~(assigned /\ resumed)
    /\ open' = open \ current
    /\ current' = {}
    /\ failures' = failures + 1
    /\ pc' = "create"
    /\ UNCHANGED <<osVars, exit_event, m_num_processes, m_processes, todo, assigned,
                   resumed>>

\* One of them failed: terminate the process; its handle closes with the local.
GiveUp ==
    /\ pc = "check"
    /\ ~(assigned /\ resumed)
    /\ os' = [p \in Processes |-> IF p \in current THEN "dead" ELSE os[p]]
    /\ open' = open \ current
    /\ current' = {}
    /\ failures' = failures + 1
    /\ pc' = "create"
    /\ UNCHANGED <<m_job, exit_event, m_num_processes, m_processes, todo, assigned,
                   resumed>>

-----------------------------------------------------------------------------
(* ::WaitForMultipleObjects() on the processes and, after them, the event. *)

NothingMissing ==
    /\ pc = "create"
    /\ todo = 0
    /\ pc' = "wait"
    /\ UNCHANGED <<osVars, open, exit_event, m_num_processes, m_processes, todo,
                   current, assigned, resumed, failures>>

\* Mutant of Waitable: off by one.
WaitableWithRoom == Len(m_processes) + 1 < MAXIMUM_WAIT_OBJECTS

\* The wait accepts the handles.
Waitable == Len(m_processes) + 1 <= MAXIMUM_WAIT_OBJECTS

\* Mutant of Signalled: counts from the wrong end of the vector.
SignalledFromTheEnd ==
    {k \in 1 .. Len(m_processes) : os[m_processes[Len(m_processes) + 1 - k]] = "dead"}

\* The places of the vector whose process has terminated.
Signalled == {k \in 1 .. Len(m_processes) : os[m_processes[k]] = "dead"}

\* The wait answers with the first handle that is signalled: a process.  Erasing it
\* moves the later handles one place down over it with ScopedResource's move
\* assignment, which does not close what it overwrites; only a handle erased from the
\* end is closed.
ProcessTerminated ==
    /\ pc = "wait"
    /\ Waitable
    /\ \E k \in Signalled :
          /\ \A j \in Signalled : k <= j
          /\ m_processes' = RemoveAt(m_processes, k)
          /\ open' = IF k = Len(m_processes) THEN open \ {m_processes[k]} ELSE open
    /\ pc' = "loop"
    /\ UNCHANGED <<osVars, exit_event, m_num_processes, todo, current, assigned,
                   resumed, failures>>

\* The wait answers with the event, which stands last.
ExitSignalled ==
    /\ pc = "wait"
    /\ Waitable
    /\ Signalled = {}
    /\ exit_event
    /\ pc' = "exited"
    /\ UNCHANGED <<osVars, open, exit_event, m_num_processes, m_processes, todo,
                   current, assigned, resumed, failures>>

\* WAIT_FAILED: log and go round again.
WaitFailed ==
    /\ pc = "wait"
    /\ ~Waitable
    /\ pc' = "loop"
    /\ UNCHANGED <<osVars, open, exit_event, m_num_processes, m_processes, todo,
                   current, assigned, resumed, failures>>

ThreadMain ==
    \/ StartMissing
    \/ CreateSuspended
    \/ Assign
    \/ Resume
    \/ Keep
    \/ GiveUp
    \/ NothingMissing
    \/ ProcessTerminated
    \/ ExitSignalled
    \/ WaitFailed

-----------------------------------------------------------------------------
(* The rest of the world. *)

\* Mutant of CloseJob: the limit is not set.
CloseJobOnly == UNCHANGED os

\* The last handle of the job closes: JOB_OBJECT_LIMIT_KILL_ON_JOB_CLOSE.
CloseJob == os' = [p \in Processes |-> IF p \in m_job /\ Alive(p) THEN "dead" ELSE os[p]]

Ended == pc \in {"destroyed", "crashed"}

\* Stop(), by anyone or by the destructor, which then joins the thread.
Stop ==
    /\ ~Ended
    /\ ~exit_event
    /\ exit_event' = TRUE
    /\ UNCHANGED <<osVars, open, m_num_processes, threadVars>>

\* The join of the destructor returns; the members are destroyed, the job last.
Destroy ==
    /\ pc = "exited"
    /\ pc' = "destroyed"
    /\ open' = open \ ToSet(m_processes)
    /\ m_processes' = <<>>
    /\ CloseJob
    /\ UNCHANGED <<m_job, exit_event, m_num_processes, todo, current, assigned, resumed,
                   failures>>

\* The worker process of IIS ends without any of this.
WorkerCrash ==
    /\ ~Ended
    /\ pc' = "crashed"
    /\ open' = {}
    /\ CloseJob
    /\ UNCHANGED <<m_job, exit_event, m_num_processes, m_processes, todo, current,
                   assigned, resumed, failures>>

\* A process exits or is killed.
Dies(p) ==
    /\ Alive(p)
    /\ os' = [os EXCEPT ![p] = "dead"]
    /\ UNCHANGED <<m_job, open, exit_event, m_num_processes, threadVars>>

Next ==
    \/ ThreadMain
    \/ Stop
    \/ Destroy
    \/ WorkerCrash
    \/ \E p \in Processes : Dies(p)

Spec == Init /\ [][Next]_vars

\* The operating system runs the monitor thread.
FairSpec == Spec /\ WF_vars(ThreadMain)

-----------------------------------------------------------------------------

\* While the pool exists, every process it created and that still lives is in the
\* vector or in CreateProcess()'s hands: none runs that the pool no longer watches.
\* Those in the vector are there once, with a handle the wait can use, and in the job,
\* so that they end with it.
NoStrayProcess ==
    ~Ended =>
        /\ \A p \in Processes : Alive(p) => p \in ToSet(m_processes) \cup current
        /\ Cardinality(ToSet(m_processes) \cup current) = Len(m_processes) + Cardinality(current)
        /\ ToSet(m_processes) \cup current \subseteq open
        /\ ToSet(m_processes) \subseteq m_job

Phase ==
    CASE pc = "destroyed" -> "none"
      [] pc = "crashed"   -> "crashed"
      [] OTHER            -> IF exit_event THEN "stopping" ELSE "running"

P == INSTANCE PoolContract WITH
         Pools <- {1},
         phase <- [p \in {1} |-> Phase],
         size  <- [p \in {1} |-> m_num_processes],
         alive <- [p \in {1} |-> {x \in Processes : Alive(x)}]

\* The pool keeps the contract: never more processes than it was asked for, none after
\* the destructor ("they will terminate when our job object is destructed",
\* ProcessPool.cpp:34-35), and at most one survives a crash of the worker process; also
\* when creations fail half way and processes die at any moment.
PoolContractRefinement == P!ContractSpec

\* When the thread goes to wait, the pool is full but for the creations that failed
\* in this very turn (ProcessPool.cpp:53-59).
FullBeforeWaiting ==
    pc = "wait" => Len(m_processes) + failures = m_num_processes

\* A full pool and the exit event fit one wait.
FitsOneWait == m_num_processes < MAXIMUM_WAIT_OBJECTS

\* In a pool that fits, a process that terminates is noticed and removed, to be replaced
\* in the next turn, unless the pool ends.
TheDeadAreRemoved ==
    \A p \in Processes :
        FitsOneWait /\ p \in ToSet(m_processes) /\ os[p] = "dead" ~>
            p \notin ToSet(m_processes) \/ pc \in {"exited", "destroyed", "crashed"}

\* From some moment on no process dies by itself.  Until then the exit event may be hidden
\* for ever: it is the last handle of the wait, which answers with the first that is
\* signalled, so a process that died meanwhile always wins (ProcessPool.cpp:64-82).
ProcessesStopDying == <>[][\A p \in Processes : ~Dies(p)]_vars

\* A pool that fits ends its thread once it is stopped and its processes stop dying,
\* whatever died before, whatever creation fails and whatever the thread was about
\* (ProcessPool.cpp:77-89).
FittingPoolStops ==
    ProcessesStopDying =>
        (FitsOneWait /\ exit_event ~> pc \in {"exited", "destroyed", "crashed"})

\* "Stop the monitoring thread and wait for it to join" (ProcessPool.cpp:33): once the
\* exit event is set and the processes stop dying, the thread ends.
StopEndsThread ==
    ProcessesStopDying => (exit_event ~> pc \in {"exited", "destroyed", "crashed"})

=============================================================================

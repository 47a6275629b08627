---------------------------- MODULE GlobalModule ----------------------------
(***************************************************************************)
(* The IIS module that starts and stops the process pools                  *)
(* (ProcessPoolLib/GlobalModule.cpp).  One GlobalModule serves all the     *)
(* applications of a worker process: it reads a list of pools from the     *)
(* configuration of each application that starts, and keeps them all in    *)
(* one vector.  A pool is what PoolContract promises of it; processes come *)
(* and go while the module is at work.                                     *)
(*                                                                         *)
(* Environment: IIS makes one notification at a time (m_pools has no lock),*)
(* starts an application that is stopped and stops one that has started,   *)
(* and terminates the module when it is idle.  The configuration has the   *)
(* types of process-pool-iis-schema.xml, so that count is a number.        *)
(***************************************************************************)
EXTENDS PoolContract, CommandLine

CONSTANTS
    Applications,     \* the applications of the worker process
    Configurations,   \* what may be configured: functions from Applications to
                      \* sequences of [executable, arguments, count]
    SIZE_MAX          \* the largest size_t

\* The attributes of process-pool-iis-schema.xml.
Elements == [executable : Seq(Characters), arguments : Seq(Characters), count : Int]

ASSUME GlobalAssumption ==
    /\ SIZE_MAX \in Nat /\ MAXIMUM_WAIT_OBJECTS \in Nat
    /\ Configurations \subseteq [Applications -> Seq(Elements)]

VARIABLES
    config,         \* the configuration, of which a restart would read a new one
    application,    \* [Applications -> what has become of it]
    pc,             \* what the module is doing
    serving,        \* the application it is doing that for, as a set
    element_idx,    \* the next element of the collection
    m_pools,        \* Seq(Pools): the vector
    command_line,   \* [Pools -> the command line of its processes]
    made_for        \* history: [Pools -> the element a pool was last made for]

moduleVars == <<application, pc, serving, element_idx, m_pools, command_line, made_for>>
vars == <<config, moduleVars, contractVars>>

NoElement == <<>>

ModuleTypeOK ==
    /\ ContractTypeOK
    /\ config \in [Applications -> Seq(Elements)]
    /\ application \in [Applications -> {"stopped", "starting", "started", "stopping"}]
    /\ pc \in {"idle", "load", "clear", "join", "terminated", "crashed"}
    /\ serving \subseteq Applications
    /\ element_idx \in Nat
    /\ m_pools \in Seq(Pools)
    /\ made_for \in [Pools -> {NoElement} \cup (Applications \X Nat)]

TypeOK ==
    /\ ModuleTypeOK
    /\ DOMAIN command_line = Pools
    /\ \A p \in Pools : command_line[p] \in Seq(Characters)

\* RegisterModule() has created the module.
Init ==
    /\ config \in Configurations
    /\ application = [a \in Applications |-> "stopped"]
    /\ pc = "idle"
    /\ serving = {}
    /\ element_idx = 0
    /\ m_pools = <<>>
    /\ command_line = [p \in Pools |-> <<>>]
    /\ made_for = [p \in Pools |-> NoElement]
    /\ phase = [p \in Pools |-> "none"]
    /\ size = [p \in Pools |-> 0]
    /\ alive = [p \in Pools |-> {}]

-----------------------------------------------------------------------------
(* OnGlobalApplicationStart. *)

OnGlobalApplicationStart(a) ==
    /\ pc = "idle"
    /\ application[a] = "stopped"
    /\ application' = [application EXCEPT ![a] = "starting"]
    /\ serving' = {a}
    /\ element_idx' = 0
    /\ pc' = "load"
    /\ UNCHANGED <<config, m_pools, command_line, made_for, contractVars>>

\* Mutant of NumProcesses: the number as it is.
NumProcessesSigned(count) == count

\* The int of the configuration becomes the size_t of the constructor.
NumProcesses(count) == count % (SIZE_MAX + 1)

\* ++element_idx
NextElement == element_idx' = element_idx + 1

\* LoadConfiguration() reads an element and makes a pool of it.
LoadElement(a) ==
    /\ pc = "load"
    /\ a \in serving
    /\ element_idx < Len(config[a])
    /\ LET element == config[a][element_idx + 1] IN
       \E p \in Pools :
          /\ Create(p, NumProcesses(element.count))
          /\ m_pools' = Append(m_pools, p)
          /\ command_line' = [command_line EXCEPT
                ![p] = CommandLine(element.executable, element.arguments)]
          /\ made_for' = [made_for EXCEPT ![p] = <<a, element_idx + 1>>]
    /\ NextElement
    /\ UNCHANGED <<config, application, pc, serving>>

\* The notification returns to IIS.
Return(outcome) ==
    /\ application' = [b \in Applications |-> IF b \in serving THEN outcome ELSE application[b]]
    /\ serving' = {}
    /\ pc' = "idle"
    /\ UNCHANGED <<config, element_idx, m_pools, command_line, made_for, contractVars>>

\* The collection is at its end; or the section is missing, or a call fails, whose
\* exception is caught: the pools made so far stay and the application starts.
LoadReturns ==
    /\ pc = "load"
    /\ Return("started")

-----------------------------------------------------------------------------
(* OnGlobalApplicationStop and Terminate: the vector destroys its pools. *)

OnGlobalApplicationStop(a) ==
    /\ pc = "idle"
    /\ application[a] = "started"
    /\ application' = [application EXCEPT ![a] = "stopping"]
    /\ serving' = {a}
    /\ pc' = "clear"
    /\ UNCHANGED <<config, element_idx, m_pools, command_line, made_for, contractVars>>

\* `delete this'; nobody is served.
Terminate ==
    /\ pc = "idle"
    /\ pc' = "clear"
    /\ UNCHANGED <<config, application, serving, element_idx, m_pools, command_line,
                   made_for, contractVars>>

\* Mutant of StopPool: joins without setting the event.
StopPoolJoins ==
    /\ pc = "clear"
    /\ m_pools # <<>>
    /\ pc' = "join"
    /\ UNCHANGED <<config, application, serving, element_idx, m_pools, command_line, made_for,
                   contractVars>>

\* ~ProcessPool() of the next pool: Stop() ...
StopPool ==
    /\ pc = "clear"
    /\ m_pools # <<>>
    /\ Stopped(Head(m_pools))
    /\ pc' = "join"
    /\ UNCHANGED <<config, application, serving, element_idx, m_pools, command_line, made_for>>

\* ... the join, and the end of the members.
PoolDestroyed ==
    /\ pc = "join"
    /\ Destroyed(Head(m_pools))
    /\ m_pools' = Tail(m_pools)
    /\ pc' = "clear"
    /\ UNCHANGED <<config, application, serving, element_idx, command_line, made_for>>

\* Mutant of Cleared: returns with pools it has not destroyed.
ClearedOfStopped == \A p \in ToSet(m_pools) : phase[p] = "running"

\* All are destroyed.
Cleared == m_pools = <<>>

StopReturn ==
    /\ pc = "clear"
    /\ serving # {}
    /\ Cleared
    /\ Return("stopped")

TerminateReturn ==
    /\ pc = "clear"
    /\ serving = {}
    /\ Cleared
    /\ pc' = "terminated"
    /\ UNCHANGED <<config, application, serving, element_idx, m_pools, command_line,
                   made_for, contractVars>>

-----------------------------------------------------------------------------

\* The module's own steps, but for the join.
Module ==
    \/ \E a \in Applications : LoadElement(a)
    \/ LoadReturns
    \/ StopPool
    \/ StopReturn
    \/ TerminateReturn

WorkerCrash ==
    /\ pc \notin {"terminated", "crashed"}
    /\ Crash
    /\ pc' = "crashed"
    /\ UNCHANGED <<config, application, serving, element_idx, m_pools, command_line, made_for>>

Next ==
    \/ \E a \in Applications : OnGlobalApplicationStart(a) \/ OnGlobalApplicationStop(a)
    \/ Terminate
    \/ Module
    \/ PoolDestroyed
    \/ \E p \in Pools : PoolStep(p) /\ UNCHANGED <<config, moduleVars>>
    \/ WorkerCrash

Spec == Init /\ [][Next]_vars

\* From some moment on no process ends by itself.
ProcessesSettle == <>[][\A p \in Pools, x \in Processes : ~Ends(p, x)]_vars

\* IIS lets a notification finish.  The join of a pool returns for certain only if its
\* handles fit one wait and its processes do not keep dying (FittingPoolStops of
\* ProcessPool).
FairSpec ==
    /\ Spec
    /\ WF_vars(Module)
    /\ ProcessesSettle => WF_vars(PoolDestroyed /\ Fits(Head(m_pools)))

-----------------------------------------------------------------------------

\* The pools made for application a that still exist.
PoolsOf(a) == {p \in Pools : Exists(p) /\ made_for[p] # NoElement /\ made_for[p][1] = a}

\* A process of a pool is alive only on behalf of an application that has been started
\* and not stopped, and an element of its configuration has at most one pool, however
\* often and in whatever order applications start, fail to load, and stop
\* (GlobalModule.cpp:25-58, 102-121).  Whatever exists is in m_pools, so that the next
\* stop finds it.
ProcessesOnlyAsConfigured ==
    pc # "crashed" =>
        /\ \A p \in Pools : alive[p] # {} => \E a \in Applications :
              p \in PoolsOf(a) /\ application[a] # "stopped"
        /\ \A p, q \in Pools : Exists(p) /\ Exists(q) /\ made_for[p] = made_for[q] => p = q
        /\ {p \in Pools : Exists(p)} = ToSet(m_pools)

\* Windows takes the executable for the program to start and leaves the arguments as
\* they were written; and by the rules for any other argument the executable is read
\* back as it was, quotes and backslashes included ("Everyone quotes command line
\* arguments the wrong way", ProcessPool.cpp:141-183); but for characters above 255, whose
\* low bytes may read as quotes or spaces (ProcessPool.cpp:107-108).  The program name has rules of its
\* own, under which a quote ends it and a doubled backslash stays doubled; a path has no
\* quote and does not end in a backslash.
CommandLineReadsBack ==
    \A p \in Pools : made_for[p] # NoElement =>
        LET element    == config[made_for[p][1]][made_for[p][2]]
            executable == element.executable
            parse      == FirstArgument(command_line[p])
        IN  executable # <<>> /\ ToSet(executable \o element.arguments) \cap Wide = {} =>
              /\ parse.argument = executable
              /\ parse.rest = element.arguments
              /\ "quote" \notin ToSet(executable) /\ Last(executable) # "backslash" =>
                    ProgramName(command_line[p]) = executable

\* "Destroy all our pools" (GlobalModule.cpp:51): a stop, or the end of the module,
\* returns when every pool fits one wait, provided that processes stop dying: while they
\* go on, the join may wait for ever (ProcessPool.cpp:64-82).
StopReturns ==
    ProcessesSettle =>
        (pc = "clear" /\ (\A p \in Pools : Exists(p) => Fits(p)) ~>
            pc \in {"idle", "terminated", "crashed"})

\* "a pool of processes with the same lifetime as the application pool"
\* (ProcessPool/CMakeLists.txt:1): while an application of the worker process has
\* started and has not been stopped, the pools that were made for it are there.
PoolsLiveWithTheirApplication ==
    [][\A p \in Pools : Exists(p) /\ ~Exists(p)' =>
          \A a \in Applications : p \in PoolsOf(a) =>
              application[a] = "stopping" \/ serving = {} \/ pc' = "crashed"]_vars

=============================================================================

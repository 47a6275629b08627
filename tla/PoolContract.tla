---------------------------- MODULE PoolContract ----------------------------
(***************************************************************************)
(* What process pools promise, whatever their monitor threads do: a pool   *)
(* never has more processes alive than it was asked for, starts none after *)
(* its destructor has returned, and takes all of them with it.  Only a     *)
(* crash of the worker process can leave one behind, the one whose         *)
(* creation it interrupted.                                                *)
(*                                                                         *)
(* ProcessPool is shown to implement this for one pool, and GlobalModule   *)
(* is built on it for many.                                                *)
(***************************************************************************)
EXTENDS Integers, FiniteSets

CONSTANTS
    Pools,                 \* the ProcessPool objects there can be at one time
    Processes,             \* bound: the processes that can be alive at one time
    MAXIMUM_WAIT_OBJECTS   \* how many handles one wait can take (64 in Windows)

VARIABLES
    phase,   \* [Pools -> what has become of the object]
    size,    \* [Pools -> Nat] the num_processes of its constructor
    alive    \* [Pools -> SUBSET Processes] its processes that live

contractVars == <<phase, size, alive>>

ContractTypeOK ==
    /\ phase \in [Pools -> {"none", "running", "stopping", "crashed"}]
    /\ size \in [Pools -> Nat]
    /\ alive \in [Pools -> SUBSET Processes]

\* Pools may exist from the start, but have no process yet.
ContractInit ==
    /\ phase \in [Pools -> {"none", "running"}]
    /\ size \in [Pools -> Nat]
    /\ alive = [p \in Pools |-> {}]

Exists(p) == phase[p] \in {"running", "stopping"}

\* The handles of a full pool and its exit event fit one wait: only then the end of the
\* monitor thread, and of the destructor that joins it, is certain.
Fits(p) == size[p] < MAXIMUM_WAIT_OBJECTS

Create(p, num_processes) ==
    /\ phase[p] = "none"
    /\ phase' = [phase EXCEPT ![p] = "running"]
    /\ size' = [size EXCEPT ![p] = num_processes]
    /\ UNCHANGED alive

\* The monitor thread starts a process.
Spawn(p, x) ==
    /\ Exists(p)
    /\ \A q \in Pools : x \notin alive[q]
    /\ Cardinality(alive[p]) < size[p]
    /\ alive' = [alive EXCEPT ![p] = @ \cup {x}]
    /\ UNCHANGED <<phase, size>>

\* A process ends, by itself or not.
Ends(p, x) ==
    /\ x \in alive[p]
    /\ alive' = [alive EXCEPT ![p] = @ \ {x}]
    /\ UNCHANGED <<phase, size>>

\* The destructor has set the exit event.
Stopped(p) ==
    /\ phase[p] = "running"
    /\ phase' = [phase EXCEPT ![p] = "stopping"]
    /\ UNCHANGED <<size, alive>>

\* The destructor has joined the thread and closed the job.
Destroyed(p) ==
    /\ phase[p] = "stopping"
    /\ phase' = [phase EXCEPT ![p] = "none"]
    /\ alive' = [alive EXCEPT ![p] = {}]
    /\ UNCHANGED size

\* The worker process ends and with it every job.
Crash ==
    /\ phase' = [p \in Pools |-> IF Exists(p) THEN "crashed" ELSE phase[p]]
    /\ \E survivors \in SUBSET UNION {alive[p] : p \in Pools} :
          /\ \A p \in Pools : Cardinality(survivors \cap alive[p]) <= 1
          /\ alive' = [p \in Pools |-> survivors \cap alive[p]]
    /\ UNCHANGED size

PoolStep(p) ==
    \/ \E x \in Processes : Spawn(p, x)
    \/ \E x \in Processes : Ends(p, x)

ContractNext ==
    \/ \E p \in Pools :
          \/ PoolStep(p)
          \/ Stopped(p)
          \/ Destroyed(p)
          \/ size'[p] \in Nat /\ Create(p, size'[p])
    \/ Crash

ContractSpec == ContractInit /\ [][ContractNext]_contractVars

=============================================================================

------------------------------ MODULE MutexMgr ------------------------------
(***************************************************************************)
(* The mutex manager object (coreinit/mutex_mgr.c) and its one client, the *)
(* hardware mutex of coreinit.c: the boot core creates a mutex, the other  *)
(* cores learn its id from the discovery record, and each core configures  *)
(* the shared interrupt hardware once between hw_mutex_lock and            *)
(* hw_mutex_unlock (job_timer_bringup).                                    *)
(*                                                                         *)
(* Cores run the handler at the same time.  A step is one atomic operation *)
(* on a word of the manager's tables.  A core that finds the mutex taken   *)
(* stops until its next interrupt.                                         *)
(***************************************************************************)
EXTENDS Integers

CONSTANTS
    Cores,
    Creators,     \* the cores that call create_mutex
    MaxMutexes,   \* MAX_MUTEXES
    InterruptsOn  \* the cores that take interrupts before irq_core_init

VARIABLES
    used,    \* g_mutex_used
    locked,  \* g_mutexes
    ids,     \* the ids that create_mutex has returned
    doing,   \* what each core is doing
    id       \* each core's hw_mutex_id, or its place in create_mutex's scan

mutexVars == <<used, locked, ids, doing, id>>

MutexIds == 1 .. MaxMutexes

ASSUME MutexAssumption ==
    /\ MaxMutexes \in Nat
    /\ Creators \subseteq Cores /\ InterruptsOn \subseteq Cores

(* mutex_manager_init_schema.                                              *)
MutexInit ==
    /\ used = [i \in MutexIds |-> FALSE] /\ locked = [i \in MutexIds |-> FALSE]
    /\ ids = {}
    /\ doing = [c \in Cores |-> "boot"] /\ id = [c \in Cores |-> 0]

Now(c, label) == doing' = [doing EXCEPT ![c] = label]
-----------------------------------------------------------------------------
CreateMutex(c) ==
    /\ doing[c] = "boot" /\ c \in Creators
    /\ Now(c, "create") /\ id' = [id EXCEPT ![c] = 1]
    /\ UNCHANGED <<used, locked, ids>>

CreateScanUntested(c) ==
    /\ doing[c] = "create" /\ id[c] \in MutexIds
    /\ used' = [used EXCEPT ![id[c]] = TRUE] /\ ids' = ids \cup {id[c]} /\ Now(c, "ready")
    /\ UNCHANGED <<locked, id>>

(* METHOD_CREATE: compare-and-swap the used flag of one slot after another.*)
CreateScan(c) ==
    /\ doing[c] = "create" /\ id[c] \in MutexIds
    /\ \/ /\ ~ used[id[c]]
          /\ used' = [used EXCEPT ![id[c]] = TRUE]
          /\ ids' = ids \cup {id[c]} /\ Now(c, "ready")
          /\ UNCHANGED id
       \/ /\ used[id[c]]
          /\ id' = [id EXCEPT ![c] = @ + 1]
          /\ UNCHANGED <<used, ids, doing>>
    /\ UNCHANGED locked

(* The discovery record tells the other cores the id.                      *)
DiscoverMutex(c, i) ==
    /\ doing[c] = "boot" /\ c \notin Creators /\ i \in ids
    /\ Now(c, "ready") /\ id' = [id EXCEPT ![c] = i]
    /\ UNCHANGED <<used, locked, ids>>

LockUntested(c) ==
    /\ doing[c] = "ready" /\ used[id[c]]
    /\ locked' = [locked EXCEPT ![id[c]] = TRUE]
    /\ Now(c, "critical")
    /\ UNCHANGED <<used, ids, id>>

(* hw_mutex_lock through METHOD_LOCK: one test-and-set.  The call answers  *)
(* at once; a core that lost waits for an interrupt before it tries again. *)
Lock(c) ==
    /\ doing[c] = "ready" /\ used[id[c]]
    /\ locked' = [locked EXCEPT ![id[c]] = TRUE]
    /\ Now(c, IF locked[id[c]] THEN "asleep" ELSE "critical")
    /\ UNCHANGED <<used, ids, id>>

(* A maskable interrupt ends the wait of a core that takes interrupts.     *)
Interrupt(c) ==
    /\ doing[c] = "asleep" /\ c \in InterruptsOn
    /\ Now(c, "ready")
    /\ UNCHANGED <<used, locked, ids, id>>

UnlockForgotten(c) ==
    /\ doing[c] = "critical" /\ Now(c, "done")
    /\ UNCHANGED <<used, locked, ids, id>>

(* irq_core_init is done: hw_mutex_unlock through METHOD_UNLOCK.           *)
Unlock(c) ==
    /\ doing[c] = "critical" /\ Now(c, "done")
    /\ locked' = [locked EXCEPT ![id[c]] = FALSE]
    /\ UNCHANGED <<used, ids, id>>

MutexNext ==
    \E c \in Cores :
        \/ CreateMutex(c) \/ CreateScan(c) \/ (\E i \in MutexIds : DiscoverMutex(c, i))
        \/ Lock(c) \/ Interrupt(c) \/ Unlock(c)

MutexSpec == MutexInit /\ [][MutexNext]_mutexVars

(* Every core keeps executing, and a core that takes interrupts gets one.  *)
MutexFairSpec ==
    /\ MutexSpec
    /\ \A c \in Cores : WF_mutexVars(\/ CreateMutex(c) \/ CreateScan(c) \/ (\E i \in MutexIds : DiscoverMutex(c, i))
                                     \/ Lock(c) \/ Interrupt(c) \/ Unlock(c))
-----------------------------------------------------------------------------
MutexType ==
    /\ used \in [MutexIds -> BOOLEAN] /\ locked \in [MutexIds -> BOOLEAN]
    /\ ids \subseteq MutexIds
    /\ doing \in [Cores -> {"boot", "create", "ready", "asleep", "critical", "done"}]
    /\ id \in [Cores -> 0 .. MaxMutexes + 1]

(* No two cores configure the shared hardware at the same time under the   *)
(* same mutex.                                                             *)
MutualExclusion ==
    \A c, d \in Cores : doing[c] = "critical" /\ doing[d] = "critical" /\ id[c] = id[d] => c = d

Created(c) == c \in Creators /\ doing[c] \notin {"boot", "create"}

(* Two create_mutex calls that race never get the same mutex.              *)
CreatesDistinct ==
    \A c, d \in Cores : Created(c) /\ Created(d) /\ id[c] = id[d] => c = d

(* The inductive invariant: the lock word of a mutex is set exactly while  *)
(* one core is inside, and cores only use mutexes that were created.       *)
MutexInv ==
    /\ MutexType /\ MutualExclusion /\ CreatesDistinct
    /\ \A c \in Cores : doing[c] \notin {"boot", "create"} => id[c] \in ids
    /\ \A i \in ids : used[i]
    /\ \A c \in Cores : doing[c] = "create" => id[c] >= 1
    /\ \A i \in MutexIds : locked[i] <=> \E c \in Cores : doing[c] = "critical" /\ id[c] = i

(* hw_mutex_lock's comment: contention is handled by "actually yielding    *)
(* the core (arch_cpu_wait_for_interrupt, woken by the next interrupt)     *)
(* between attempts": every core that takes interrupts gets its turn, also *)
(* next to a core that loses the mutex and then sleeps for ever.           *)
EveryCoreGetsIn == \A c \in InterruptsOn : doing[c] = "ready" ~> doing[c] = "done"

(* The manager implements the abstract mutexes of MutexService.            *)
Service == INSTANCE MutexService WITH
    Mutexes <- MutexIds, inside <- [i \in MutexIds |-> {c \in Cores : doing[c] = "critical" /\ id[c] = i}]

ServiceSpec == Service!ServiceSpec
=============================================================================

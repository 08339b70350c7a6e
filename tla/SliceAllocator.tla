--------------------------- MODULE SliceAllocator ---------------------------
(***************************************************************************)
(* Memory slices for jobs: job_memory.c takes the allocator mutex of the   *)
(* cluster scheduler, the scheduler's slice handlers call the memory       *)
(* manager and keep one resource object per slice, and the mutex is given  *)
(* back.  This module composes MemMgr with the scheduler's mutex object    *)
(* and resource objects, for jobs that run on different cores.             *)
(*                                                                         *)
(* A memory manager call is atomic (it has its own lock).  A step of a     *)
(* mutex object's handler is one access to the object: the handler has no  *)
(* lock and no compare-and-swap.  The discovery index, priorities and      *)
(* node attribution are in ClusterScheduler.                               *)
(***************************************************************************)
EXTENDS MemMgr

CONSTANTS
    Jobs,      \* jobs, each on a core of its own
    NoJob,     \* holder_job_id and reserved_by when there is no job
    ResPool    \* RESOURCE_POOL_SIZE

VARIABLES
    locked, holder,    \* mutex_data_t of ALLOCATOR_MUTEX_ID
    res,               \* resource objects of kind MEMORY, by handle
    made,              \* g_resource_storage_next
    pc, me             \* what each job is doing, and its local variables

mutexVars == <<locked, holder>>
resVars == <<res, made>>
vars == <<memVars, mutexVars, resVars, pc, me>>

Handles == 1 .. ResPool

ASSUME SliceAssumption == ResPool \in Nat /\ NoJob \notin Jobs

(* what is wanted once the mutex is held, and the region or the handle at  *)
(* hand.                                                                   *)
Local == [want : {"none", "slice", "release"}, base : 0 .. AddrSpace - 1,
          size : Nat, r : 0 .. ResPool]

Idle == [want |-> "none", base |-> 0, size |-> 0, r |-> 0]

Dead == [live |-> FALSE, base |-> 0, size |-> 0, by |-> NoJob]

Init ==
    /\ MemInit
    /\ locked = FALSE /\ holder = NoJob
    /\ res = [r \in Handles |-> Dead] /\ made = 0
    /\ pc = [j \in Jobs |-> "idle"] /\ me = [j \in Jobs |-> Idle]

Boot == Reserve /\ UNCHANGED <<mutexVars, resVars, pc, me>>

Started == reserved = Len(Reserved)
Goto(j, label) == pc' = [pc EXCEPT ![j] = label]
Set(j, r) == me' = [me EXCEPT ![j] = r]
-----------------------------------------------------------------------------
(* scheduler_mutex_try_lock through mutex_handler: read locked, set it,    *)
(* record the holder.  A job that loses returns JOB_BLOCKED_ON_MUTEX and   *)
(* is run again later.                                                     *)
TryLock(j, want, r) ==
    /\ pc[j] = "idle" /\ Started
    /\ ~ locked
    /\ Goto(j, "set") /\ Set(j, [Idle EXCEPT !.want = want, !.r = r])
    /\ UNCHANGED <<memVars, mutexVars, resVars>>

TryLockSet(j) ==
    /\ pc[j] = "set" /\ Goto(j, "hold")
    /\ locked' = TRUE
    /\ UNCHANGED <<memVars, holder, resVars, me>>

TryLockHold(j) ==
    /\ pc[j] = "hold" /\ Goto(j, me[j].want)
    /\ holder' = j
    /\ UNCHANGED <<memVars, locked, resVars, me>>

UnlockForgotten(j) ==
    /\ pc[j] = "unlock"
    /\ Goto(j, "idle") /\ Set(j, Idle)
    /\ UNCHANGED <<memVars, mutexVars, resVars>>

(* scheduler_mutex_unlock: test locked and holder, then clear locked.      *)
Unlock(j) ==
    /\ pc[j] = "unlock"
    /\ Goto(j, IF locked /\ holder = j THEN "clear" ELSE "idle") /\ Set(j, Idle)
    /\ UNCHANGED <<memVars, mutexVars, resVars>>

UnlockClear(j) ==
    /\ pc[j] = "clear" /\ Goto(j, "idle")
    /\ locked' = FALSE
    /\ UNCHANGED <<memVars, holder, resVars, me>>
-----------------------------------------------------------------------------
(* handle_allocate_slice: the memory manager picks the region, then a      *)
(* resource object reserved by the job is made for it.                     *)
AllocateSlice(j, size) ==
    /\ pc[j] = "slice"
    /\ \E base \in Least(Starts(claims, size)) :
         /\ MethodAlloc(size)
         /\ Goto(j, "create") /\ Set(j, [me[j] EXCEPT !.base = base, !.size = size])
    /\ UNCHANGED <<mutexVars, resVars>>

AllocateSliceRejected(j, size) ==
    /\ pc[j] = "slice"
    /\ MethodAllocRejected(size)
    /\ Goto(j, "unlock")
    /\ UNCHANGED <<mutexVars, resVars, me>>

(* handle_request_allocation, which takes no mutex: a region of the        *)
(* caller's choice, whose resource object no job reserves.                 *)
RequestAllocation(j, base, size) ==
    /\ pc[j] = "idle"
    /\ ~ ClaimRefused(claims, base, size)
    /\ MethodClaim(base, size)
    /\ Goto(j, "create") /\ Set(j, [Idle EXCEPT !.base = base, !.size = size])
    /\ UNCHANGED <<mutexVars, resVars>>

(* create_resource_object: storage is never reused, and an exhausted pool  *)
(* leaves the region claimed with no object for it.                        *)
CreateResource(j) ==
    /\ pc[j] = "create"
    /\ IF made < ResPool
       THEN /\ made' = made + 1
            /\ res' = [res EXCEPT ![made + 1] =
                          [live |-> TRUE, base |-> me[j].base, size |-> me[j].size,
                           by |-> IF me[j].want = "slice" THEN j ELSE NoJob]]
       ELSE UNCHANGED resVars
    /\ Goto(j, IF me[j].want = "slice" THEN "unlock" ELSE "idle")
    /\ Set(j, IF me[j].want = "slice" THEN me[j] ELSE Idle)
    /\ UNCHANGED <<memVars, mutexVars>>
-----------------------------------------------------------------------------
ReleaseCheckLiveOnly(j) ==
    /\ pc[j] = "release"
    /\ Goto(j, IF res[me[j].r].live THEN "free" ELSE "unlock")
    /\ Set(j, [me[j] EXCEPT !.base = res[me[j].r].base])
    /\ UNCHANGED <<memVars, mutexVars, resVars>>

(* handle_release_slice: check who reserved the resource, free the region, *)
(* destroy the object.  Destroying it makes every later use of the handle  *)
(* fail.                                                                   *)
ReleaseCheck(j) ==
    /\ pc[j] = "release"
    /\ Goto(j, IF res[me[j].r].live /\ res[me[j].r].by = j THEN "free" ELSE "unlock")
    /\ Set(j, [me[j] EXCEPT !.base = res[me[j].r].base])
    /\ UNCHANGED <<memVars, mutexVars, resVars>>

ReleaseFreeOnly(j) ==
    /\ pc[j] = "free"
    /\ \/ MethodFree(me[j].base) /\ Goto(j, "unlock")
       \/ MethodFreeRejected(me[j].base) /\ Goto(j, "unlock")
    /\ UNCHANGED <<mutexVars, resVars, me>>

ReleaseFree(j) ==
    /\ pc[j] = "free"
    /\ \/ MethodFree(me[j].base) /\ Goto(j, "destroy")
       \/ MethodFreeRejected(me[j].base) /\ Goto(j, "unlock")
    /\ UNCHANGED <<mutexVars, resVars, me>>

ReleaseDestroy(j) ==
    /\ pc[j] = "destroy" /\ Goto(j, "unlock")
    /\ res' = [res EXCEPT ![me[j].r] = Dead]
    /\ UNCHANGED <<memVars, mutexVars, made, me>>

JobStep(j) ==
    \/ TryLockSet(j) \/ TryLockHold(j) \/ Unlock(j) \/ UnlockClear(j)
    \/ \E s \in Sizes : AllocateSlice(j, s) \/ AllocateSliceRejected(j, s)
    \/ CreateResource(j) \/ ReleaseCheck(j) \/ ReleaseFree(j) \/ ReleaseDestroy(j)

Next ==
    \/ Boot
    \/ \E j \in Jobs : JobStep(j) \/ TryLock(j, "slice", 0)
    \/ \E j \in Jobs, r \in Handles : r <= made /\ TryLock(j, "release", r)
    \/ \E j \in Jobs, a \in ClaimArgs : RequestAllocation(j, a[1], a[2])

Spec == Init /\ [][Next]_vars

(* A handler that has started runs to its end.                             *)
FairSpec == Spec /\ \A j \in Jobs : WF_vars(JobStep(j))
-----------------------------------------------------------------------------
BeingDestroyed(r) == \E j \in Jobs : pc[j] = "destroy" /\ me[j].r = r

(* Every slice that somebody may still use is backed by its own claim in   *)
(* the memory manager's ledger, and so no two slices share memory: whether *)
(* or not the allocator mutex keeps the handlers apart, and although       *)
(* request_allocation never takes it.                                      *)
SlicesBacked ==
    \A r \in Handles : res[r].live /\ ~ BeingDestroyed(r) =>
        /\ \E i \in DOMAIN claims : /\ claims[i].used /\ claims[i].base = res[r].base
                                    /\ claims[i].size = res[r].size
        /\ \A q \in Handles \ {r} : res[q].live /\ ~ BeingDestroyed(q) =>
             Cells(res[r]) \cap Cells(res[q]) = {}

(* A slice is taken back only by the job that reserved it (the check of    *)
(* handle_release_slice is made before the steps it protects).             *)
ReleasedByReserver ==
    [][\A r \in Handles : res[r].live /\ ~ res'[r].live =>
          \E j \in Jobs : pc[j] = "destroy" /\ me[j].r = r /\ res[r].by = j]_vars

(* The allocator mutex is never left locked for good, in whatever order    *)
(* the unsynchronised accesses of the mutex handlers interleave.           *)
MutexIsFreed == locked ~> ~ locked
=============================================================================

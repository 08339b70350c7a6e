---------------------------- MODULE JobDispatch ----------------------------
(***************************************************************************)
(* The job slots of coreinit/cluster_scheduler.c when several cores of one *)
(* machine run its handlers at the same time.  There is no lock around     *)
(* create_job_object, destroy_job_object, pick_next_for_node and the sweep *)
(* of handle_leave_node: they synchronise by compare-and-swap on           *)
(* g_job_storage_used and on dispatched.  g_storage_lock serialises only   *)
(* the handlers that look a job up and then use what they found.           *)
(*                                                                         *)
(* A step is one access to a word that other cores write, or a run of      *)
(* accesses to words of which only the first can change under the core's   *)
(* feet.  Priorities and blocking are left to ClusterScheduler: here a scan*)
(* may keep either of two candidates.  There is one resource, and a job    *)
(* either requires it or requires nothing.                                 *)
(***************************************************************************)
EXTENDS Integers, Sequences

CONSTANTS
    Cores,       \* the cores, which are also the node ids
    ANY,         \* NODE_AFFINITY_ANY
    JobPool,     \* JOB_POOL_SIZE
    MaxJobs,     \* bound: jobs submitted in all
    Machines     \* the machines to look at

Slots == 1 .. JobPool
Handles == 1 .. MaxJobs
JobSpec == [affinity : Cores \cup {ANY}, needs : BOOLEAN]

(* job_data_t.  The field job stands for type, arg0 and arg1: it names the *)
(* submission that these fields describe, by the handle it is to have.     *)
JobData == [job : 0 .. MaxJobs, spec : JobSpec, assigned : Cores \cup {ANY},
            bound : BOOLEAN, dispatched : BOOLEAN]

NoSpec == [affinity |-> ANY, needs |-> FALSE]

(* A machine: the cores that run, the submissions completed before a       *)
(* second core starts, the later ones and the cores that make them,        *)
(* whether the kernel's factory may refuse to make an object, and the      *)
(* nodes that some core takes out of the cluster.                          *)
Machine == [cores : SUBSET Cores, preload : Seq(JobSpec), later : SUBSET JobSpec,
            submitters : SUBSET Cores, factoryFails : BOOLEAN, leavers : SUBSET Cores]

ASSUME DispatchAssumption ==
    /\ ANY \notin Cores
    /\ JobPool \in Nat /\ MaxJobs \in Nat
    /\ \A m \in Machines : /\ m \in Machine /\ m.submitters \subseteq m.cores
                           /\ Len(m.preload) <= JobPool /\ Len(m.preload) <= MaxJobs

VARIABLES
    machine,   \* the machine at hand; never changes
    used,      \* g_job_storage_used
    handle,    \* g_job_handles; keeps the last handle of a free slot
    data,      \* g_job_storage
    reserved,  \* reserved_by of the resource, 0 when free
    lock,      \* the holder of g_storage_lock, or ANY
    done,      \* handles with a recorded completion
    made,      \* submissions so far
    joined,    \* nodes in g_node_index
    pc,        \* what each core is doing
    me         \* each core's local variables

vars == <<machine, used, handle, data, reserved, lock, done, made, joined, pc, me>>

(* slot and h: the slot at hand and the handle read from it; best and      *)
(* bestH: the scan's candidate; id and work: the job being run, as the     *)
(* handle the core was given and the submission whose arguments it got;    *)
(* bound: bound_resource_id as read; gone: the node being removed, whose   *)
(* sweep keeps its place in best.                                          *)
Local == [slot : 0 .. JobPool + 1, h : 0 .. MaxJobs, best : 0 .. JobPool + 1, bestH : 0 .. MaxJobs,
          id : 0 .. MaxJobs, work : 0 .. MaxJobs, bound : BOOLEAN, gone : Cores \cup {ANY}]

Idle == [slot |-> 0, h |-> 0, best |-> 0, bestH |-> 0, id |-> 0, work |-> 0,
         bound |-> FALSE, gone |-> ANY]

fresh(h, spec) == [job |-> h, spec |-> spec, assigned |-> ANY, bound |-> FALSE, dispatched |-> FALSE]

Preload == machine.preload

Init ==
    /\ machine \in Machines
    /\ used = [s \in Slots |-> s <= Len(Preload)]
    /\ handle = [s \in Slots |-> IF s <= Len(Preload) THEN s ELSE 0]
    /\ data = [s \in Slots |-> IF s <= Len(Preload) THEN fresh(s, Preload[s]) ELSE fresh(0, NoSpec)]
    /\ reserved = 0 /\ lock = ANY /\ done = {} /\ made = Len(Preload) /\ joined = machine.cores
    /\ pc = [c \in Cores |-> "idle"] /\ me = [c \in Cores |-> Idle]

slotVars == <<used, handle, data>>
Goto(c, label) == pc' = [pc EXCEPT ![c] = label]
Set(c, r) == me' = [me EXCEPT ![c] = r]
-----------------------------------------------------------------------------
(* create_job_object: win a slot, fill it, then publish the handle that    *)
(* the kernel's factory made, or give the slot back if it made none.       *)
SubmitClaim(c, s) ==
    /\ pc[c] = "idle" /\ c \in machine.submitters /\ made < MaxJobs
    /\ ~ used[s]
    /\ used' = [used EXCEPT ![s] = TRUE]
    /\ made' = made + 1
    /\ Goto(c, "fill") /\ Set(c, [Idle EXCEPT !.slot = s, !.h = made + 1])
    /\ UNCHANGED <<handle, data, reserved, lock, done, joined, machine>>

SubmitFill(c, spec) ==
    /\ pc[c] = "fill"
    /\ data' = [data EXCEPT ![me[c].slot] = fresh(me[c].h, spec)]
    /\ Goto(c, "publish")
    /\ UNCHANGED <<used, handle, reserved, lock, done, made, joined, me, machine>>

SubmitPublish(c) ==
    /\ pc[c] = "publish"
    /\ \/ handle' = [handle EXCEPT ![me[c].slot] = me[c].h] /\ UNCHANGED used
       \/ machine.factoryFails /\ used' = [used EXCEPT ![me[c].slot] = FALSE] /\ UNCHANGED handle
    /\ Goto(c, "idle") /\ Set(c, Idle)
    /\ UNCHANGED <<data, reserved, lock, done, made, joined, machine>>
-----------------------------------------------------------------------------
(* pick_next_for_node: one pass over the slots without a lock.             *)
StartScan(c) ==
    /\ pc[c] = "idle" /\ c \in machine.cores
    /\ Goto(c, "scan") /\ Set(c, [Idle EXCEPT !.slot = 1])
    /\ UNCHANGED <<slotVars, reserved, lock, done, made, joined, machine>>

(* Read g_job_storage_used and g_job_handles of the next slot.             *)
ScanSlot(c) ==
    /\ pc[c] = "scan" /\ me[c].slot \in Slots
    /\ IF used[me[c].slot]
       THEN Goto(c, "read") /\ Set(c, [me[c] EXCEPT !.h = handle[me[c].slot]])
       ELSE UNCHANGED pc /\ Set(c, [me[c] EXCEPT !.slot = @ + 1])
    /\ UNCHANGED <<slotVars, reserved, lock, done, made, joined, machine>>

resource_ok_for_Unchecked(h, j) == TRUE

resource_ok_for(h, j) ==
    IF j.bound THEN reserved \in {0, h} ELSE j.spec.needs => reserved = 0

Eligible(c, h, j) ==
    /\ ~ j.dispatched
    /\ j.assigned = c \/ (j.assigned = ANY /\ j.spec.affinity \in {c, ANY})
    /\ resource_ok_for(h, j)

(* Then its job_data_t.                                                    *)
ScanJob(c) ==
    /\ pc[c] = "read" /\ Goto(c, "scan")
    /\ LET j == data[me[c].slot]
           next == [me[c] EXCEPT !.slot = @ + 1]
       IN  \/ /\ ~ Eligible(c, me[c].h, j) \/ me[c].best # 0
              /\ Set(c, next)
           \/ /\ Eligible(c, me[c].h, j)
              /\ Set(c, [next EXCEPT !.best = me[c].slot, !.bestH = me[c].h])
    /\ UNCHANGED <<slotVars, reserved, lock, done, made, joined, machine>>

ScanClaimPlainStore(c) ==
    /\ pc[c] = "scan" /\ me[c].slot \notin Slots
    /\ IF me[c].best = 0
       THEN Goto(c, "idle") /\ Set(c, Idle) /\ UNCHANGED data
       ELSE /\ data' = [data EXCEPT ![me[c].best].dispatched = TRUE]
            /\ Goto(c, "assign") /\ UNCHANGED me
    /\ UNCHANGED <<used, handle, reserved, lock, done, made, joined, machine>>

(* The compare-and-swap on dispatched, after the last slot.                *)
ScanClaim(c) ==
    /\ pc[c] = "scan" /\ me[c].slot \notin Slots
    /\ IF me[c].best = 0 \/ data[me[c].best].dispatched
       THEN Goto(c, "idle") /\ Set(c, Idle) /\ UNCHANGED data
       ELSE /\ data' = [data EXCEPT ![me[c].best].dispatched = TRUE]
            /\ Goto(c, "assign") /\ UNCHANGED me
    /\ UNCHANGED <<used, handle, reserved, lock, done, made, joined, machine>>

Assign(c) ==
    /\ pc[c] = "assign" /\ Goto(c, "bind")
    /\ data' = [data EXCEPT ![me[c].best].assigned = IF @ = ANY THEN c ELSE @]
    /\ UNCHANGED <<used, handle, reserved, lock, done, made, joined, me, machine>>

(* bind_resource_for: reserving may fail, and the job is handed out anyway.*)
Bind(c) ==
    /\ pc[c] = "bind" /\ Goto(c, "deliver")
    /\ LET j == data[me[c].best]
       IN  IF ~ j.bound /\ j.spec.needs /\ reserved \in {0, me[c].bestH}
           THEN reserved' = me[c].bestH /\ data' = [data EXCEPT ![me[c].best].bound = TRUE]
           ELSE UNCHANGED <<reserved, data>>
    /\ UNCHANGED <<used, handle, lock, done, made, joined, me, machine>>

(* handle_get_next_job answers with the handle and the arguments; a handle *)
(* of 0 reads as "nothing found".                                          *)
Deliver(c) ==
    /\ pc[c] = "deliver"
    /\ IF me[c].bestH = 0 THEN Goto(c, "idle") /\ Set(c, Idle)
       ELSE Goto(c, "run") /\ Set(c, [Idle EXCEPT !.id = me[c].bestH, !.work = data[me[c].best].job])
    /\ UNCHANGED <<slotVars, reserved, lock, done, made, joined, machine>>
-----------------------------------------------------------------------------
(* job_data_for_handle_locked.                                             *)
Found(h) == {s \in Slots : used[s] /\ handle[s] = h}

(* handle_report_job_result, JOB_FINISHED: look up under the lock, release *)
(* the reservation, record the completion under the lock, destroy.         *)
FinishLookup(c) ==
    /\ pc[c] = "run" /\ lock = ANY
    /\ \/ Found(me[c].id) = {} /\ Goto(c, "idle") /\ Set(c, Idle)
       \/ \E s \in Found(me[c].id) :
            Goto(c, "release") /\ Set(c, [me[c] EXCEPT !.bound = data[s].bound])
    /\ UNCHANGED <<slotVars, reserved, lock, done, made, joined, machine>>

FinishReleaseThenDestroy(c) ==
    /\ pc[c] = "release"
    /\ reserved' = IF me[c].bound /\ reserved = me[c].id THEN 0 ELSE reserved
    /\ Goto(c, "destroy") /\ Set(c, [me[c] EXCEPT !.slot = 1, !.h = me[c].id])
    /\ UNCHANGED <<slotVars, lock, done, made, joined, machine>>

FinishRelease(c) ==
    /\ pc[c] = "release" /\ Goto(c, "record")
    /\ reserved' = IF me[c].bound /\ reserved = me[c].id THEN 0 ELSE reserved
    /\ UNCHANGED <<slotVars, lock, done, made, joined, me, machine>>

FinishRecord(c) ==
    /\ pc[c] = "record" /\ lock = ANY
    /\ done' = done \cup {me[c].id}
    /\ Goto(c, "destroy") /\ Set(c, [me[c] EXCEPT !.slot = 1, !.h = me[c].id])
    /\ UNCHANGED <<slotVars, reserved, lock, made, joined, machine>>

(* destroy_job_object returns to the report or to the sweep.               *)
DestroyReturn(c) ==
    IF me[c].gone = ANY THEN Goto(c, "idle") /\ Set(c, Idle)
    ELSE Goto(c, "sweep") /\ Set(c, [me[c] EXCEPT !.slot = 0, !.h = 0, !.bound = FALSE, !.best = @ + 1])

DestroyFind(c) ==
    /\ pc[c] = "destroy"
    /\ IF me[c].slot \notin Slots THEN DestroyReturn(c)
       ELSE IF me[c].slot \in Found(me[c].h) THEN Goto(c, "cas") /\ UNCHANGED me
       ELSE Set(c, [me[c] EXCEPT !.slot = @ + 1]) /\ UNCHANGED pc
    /\ UNCHANGED <<slotVars, reserved, lock, done, made, joined, machine>>

DestroyCasResetting(c) ==
    /\ pc[c] = "cas"
    /\ IF used[me[c].slot]
       THEN /\ used' = [used EXCEPT ![me[c].slot] = FALSE] /\ DestroyReturn(c)
            /\ data' = [data EXCEPT ![me[c].slot].dispatched = FALSE]
       ELSE Goto(c, "destroy") /\ Set(c, [me[c] EXCEPT !.slot = @ + 1]) /\ UNCHANGED <<used, data>>
    /\ UNCHANGED <<handle, reserved, lock, done, made, joined, machine>>

(* The compare-and-swap that frees the slot; its handle and data stay.     *)
DestroyCas(c) ==
    /\ pc[c] = "cas"
    /\ IF used[me[c].slot]
       THEN used' = [used EXCEPT ![me[c].slot] = FALSE] /\ DestroyReturn(c)
       ELSE Goto(c, "destroy") /\ Set(c, [me[c] EXCEPT !.slot = @ + 1]) /\ UNCHANGED used
    /\ UNCHANGED <<handle, data, reserved, lock, done, made, joined, machine>>

(* JOB_RUNNING: look up and clear dispatched, both under the lock.         *)
ReportLookup(c) ==
    /\ pc[c] = "run" /\ lock = ANY
    /\ \/ Found(me[c].id) = {} /\ Goto(c, "idle") /\ Set(c, Idle) /\ UNCHANGED lock
       \/ \E s \in Found(me[c].id) :
            lock' = c /\ Goto(c, "apply") /\ Set(c, [me[c] EXCEPT !.slot = s])
    /\ UNCHANGED <<slotVars, reserved, done, made, joined, machine>>

ReportApplyStillClaimed(c) ==
    /\ pc[c] = "apply"
    /\ lock' = ANY /\ Goto(c, "idle") /\ Set(c, Idle)
    /\ UNCHANGED <<slotVars, reserved, done, made, joined, machine>>

ReportApply(c) ==
    /\ pc[c] = "apply"
    /\ data' = [data EXCEPT ![me[c].slot].dispatched = FALSE]
    /\ lock' = ANY /\ Goto(c, "idle") /\ Set(c, Idle)
    /\ UNCHANGED <<used, handle, reserved, done, made, joined, machine>>
-----------------------------------------------------------------------------
(* handle_leave_node, run by core c for node n: the sweep over the jobs.   *)
LeaveNode(c, n) ==
    /\ pc[c] = "idle" /\ c \in machine.cores /\ n \in joined
    /\ joined' = joined \ {n}
    /\ Goto(c, "sweep") /\ Set(c, [Idle EXCEPT !.gone = n, !.best = 1])
    /\ UNCHANGED <<slotVars, reserved, lock, done, made, machine>>

Touches(n, j) == j.assigned = n \/ (j.assigned = ANY /\ j.spec.affinity = n)

SweepSlot(c) ==
    /\ pc[c] = "sweep"
    /\ LET i == me[c].best
       IN  IF i \notin Slots THEN Goto(c, "idle") /\ Set(c, Idle)
           ELSE IF ~ used[i] \/ ~ Touches(me[c].gone, data[i])
           THEN UNCHANGED pc /\ Set(c, [me[c] EXCEPT !.best = i + 1])
           ELSE /\ Goto(c, IF data[i].spec.affinity = me[c].gone THEN "cancel" ELSE "unassign")
                /\ Set(c, [me[c] EXCEPT !.h = handle[i], !.bound = data[i].bound])
    /\ UNCHANGED <<slotVars, reserved, lock, done, made, joined, machine>>

SweepCancel(c) ==
    /\ pc[c] = "cancel" /\ Goto(c, "destroy") /\ Set(c, [me[c] EXCEPT !.slot = 1])
    /\ reserved' = IF me[c].bound /\ reserved = me[c].h THEN 0 ELSE reserved
    /\ UNCHANGED <<slotVars, lock, done, made, joined, machine>>

SweepUnassign(c) ==
    /\ pc[c] = "unassign" /\ Goto(c, "sweep")
    /\ data' = [data EXCEPT ![me[c].best].assigned = ANY]
    /\ Set(c, [me[c] EXCEPT !.best = @ + 1, !.h = 0, !.bound = FALSE])
    /\ UNCHANGED <<used, handle, reserved, lock, done, made, joined, machine>>
-----------------------------------------------------------------------------
GetNextJob(c) ==
    \/ StartScan(c) \/ ScanSlot(c) \/ ScanJob(c) \/ ScanClaim(c)
    \/ Assign(c) \/ Bind(c) \/ Deliver(c)

Finish(c) == FinishLookup(c) \/ FinishRelease(c) \/ FinishRecord(c) \/ DestroyFind(c) \/ DestroyCas(c)

Submit(c) ==
    (\E s \in Slots : SubmitClaim(c, s)) \/ (\E spec \in machine.later : SubmitFill(c, spec)) \/ SubmitPublish(c)

Leave(c) == (\E n \in machine.leavers : LeaveNode(c, n)) \/ SweepSlot(c) \/ SweepCancel(c) \/ SweepUnassign(c)

Next ==
    \E c \in Cores :
        GetNextJob(c) \/ Finish(c) \/ ReportLookup(c) \/ ReportApply(c) \/ Submit(c) \/ Leave(c)

Spec == Init /\ [][Next]_vars

(* Cores keep executing; a job that is run again and again finishes.       *)
Fairness ==
    /\ \A c \in Cores : WF_vars(GetNextJob(c) \/ ReportApply(c) \/ FinishRelease(c)
                               \/ FinishRecord(c) \/ DestroyFind(c) \/ DestroyCas(c))
    /\ \A c \in Cores : WF_vars((\E spec \in machine.later : SubmitFill(c, spec)) \/ SubmitPublish(c))
    /\ \A c \in Cores : WF_vars(FinishLookup(c) \/ ReportLookup(c))
    /\ \A h \in Handles : SF_vars(\E c \in Cores : me[c].work = h /\ FinishLookup(c))

FairSpec == Spec /\ Fairness
-----------------------------------------------------------------------------
(* No submission runs on two cores at once: what pick_next_for_node's      *)
(* comment says the compare-and-swap on dispatched enforces.               *)
DispatchExclusive ==
    \A c, d \in Cores : c # d /\ me[c].work # 0 => me[c].work # me[d].work

(* A job that has finished is never run again, even by a core whose scan   *)
(* saw it before it finished (dispatched stays set in the freed slot).     *)
FinishedIsNotRun == \A c \in Cores : pc[c] = "run" => me[c].work \notin done

Claims(c, s) == pc[c] \in {"assign", "bind", "deliver"} /\ me[c].best = s

(* pick_next_for_node's lock-free scan "only risks picking a marginally-   *)
(* non-optimal candidate, never anything unsafe": a live job that is       *)
(* marked dispatched has a core that will run it and report on it.         *)
NoLostJob ==
    \A s \in Slots : used[s] /\ data[s].dispatched =>
        \E c \in Cores : \/ Claims(c, s)
                         \/ me[c].id = handle[s] /\ me[c].work = handle[s]
                         \/ pc[c] \in {"fill", "publish"} /\ me[c].slot = s

(* cluster_scheduler.h: "node affinity's own ANY-then-pinned behavior": a  *)
(* job runs on the node it was first dispatched to.                        *)
RunsWherePinned ==
    \A c \in Cores, s \in Slots :
        pc[c] = "run" /\ data[s].job = me[c].work => data[s].assigned = c

(* cluster_scheduler.h: get_next_job "reserves the matched resource to     *)
(* this job's id": a running job has what it requires.                     *)
HoldsItsResource ==
    \A c \in Cores, s \in Slots :
        pc[c] = "run" /\ data[s].job = me[c].work /\ data[s].spec.needs => reserved = me[c].id

(* What concurrency breaks holds as long as one core calls the handlers:   *)
(* no job is lost between its claim and its report, it runs where it was   *)
(* pinned and with the resource that was reserved for it, through refused  *)
(* submissions and the sweep of a leaving node.                            *)
SafeOnOneCore ==
    (\E c \in Cores : machine.cores = {c}) => NoLostJob /\ RunsWherePinned /\ HoldsItsResource

(* scheduler.h: a finished job leaves "a retained scalar completion": no   *)
(* job is gone before its completion is there to be read, unless the node  *)
(* it was tied to left.                                                    *)
CompletionKept ==
    \A h \in 1 .. Len(Preload) :
        Found(h) = {} => h \in done \/ Preload[h].affinity \notin joined \cup {ANY}

(* Every job submitted before the other cores start is run to its end, if  *)
(* no node leaves.                                                         *)
EveryJobEnds ==
    machine.leavers = {} => \A h \in Handles : <>(h <= Len(Preload) => h \in done)
=============================================================================

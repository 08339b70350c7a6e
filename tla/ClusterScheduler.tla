-------------------------- MODULE ClusterScheduler --------------------------
(***************************************************************************)
(* The cluster scheduler object (coreinit/cluster_scheduler.c) with the    *)
(* worker loop of every node that pulls jobs from it (scheduler_run in     *)
(* coreinit/scheduler.c).                                                  *)
(*                                                                         *)
(* Here each handler is one action: the granularity of a cluster whose     *)
(* requests are served one at a time, by the network service loop of the   *)
(* machine that hosts the object.  JobDispatch models the lock-free code   *)
(* of the same handlers when several cores of one machine run them at once.*)
(*                                                                         *)
(* A job's type and arguments, a resource's descriptor and a completion's  *)
(* value are opaque to the scheduler and left out.  Handlers that refuse a *)
(* request change nothing, which is a stuttering step.                     *)
(***************************************************************************)
EXTENDS Integers, Sequences

CONSTANTS
    Nodes,      \* node ids
    BSP,        \* node 0, which hosts the object and owns the memory pool
    ANY,        \* NODE_AFFINITY_ANY
    Kinds,      \* RESOURCE_KIND_*: must contain "MEMORY"
    NoKind,     \* RESOURCE_KIND_NONE
    MutexIds,   \* positive numbers, one per mutex object
    JobPool,    \* JOB_POOL_SIZE, also the size of the completion ring
    ResPool,    \* RESOURCE_POOL_SIZE, also the size of the discovery index
    NodePool,   \* MAX_NODES
    Free,       \* marks an unused job slot
    JobSpecs,   \* the submissions clients make
    ResSpecs,   \* the resources clients declare
    MaxJobs,    \* bound: job handles the kernel's factory gives out
    Waits,      \* pairs <<h, k>> of handles: job h may wait for job k
    Leavers,    \* nodes for which leave_node is called
    Removable   \* nodes that are unplugged once they have left

Slots == 1 .. JobPool
ResIds == 1 .. ResPool
Handles == 1 .. MaxJobs

JobSpec == [affinity : Nodes \cup {ANY}, priority : Int,
            resource : 0 .. ResPool, kind : Kinds \cup {NoKind}, min : Nat]

ResSpec == [kind : Kinds, capacity : Nat, shared : BOOLEAN]

(* job_data_t; blocked and block_kind are one field, and 0 is no handle.   *)
Job == [id : Handles, spec : JobSpec, priority : Int,
        assigned : Nodes \cup {ANY}, bound : 0 .. ResPool,
        block : {"none", "mutex", "job"}, on : Nat, dispatched : BOOLEAN]

(* resource_data_t of a live or destroyed resource object.                 *)
Resource == [live : BOOLEAN, kind : Kinds \cup {NoKind}, capacity : Nat,
             owner : Nodes, reserved : 0 .. MaxJobs]

ASSUME ClusterAssumption ==
    /\ BSP \in Nodes /\ ANY \notin Nodes /\ NoKind \notin Kinds
    /\ {"MEMORY", "MMU"} \subseteq Kinds
    /\ MutexIds \subseteq Nat \ {0}
    /\ JobPool \in Nat /\ ResPool \in Nat \ {0} /\ NodePool \in Nat
    /\ MaxJobs \in Nat /\ Waits \subseteq Handles \X Handles
    /\ Free \notin Job
    /\ JobSpecs \subseteq JobSpec /\ ResSpecs \subseteq ResSpec
    /\ Leavers \subseteq Nodes /\ Removable \subseteq Leavers

VARIABLES
    joined,       \* ids with a used entry in g_node_index
    nodesMade,    \* g_node_storage_next
    res,          \* resource objects by handle, in storage order
    resMade,      \* g_resource_storage_next
    index,        \* g_resource_index: handle per entry, 0 when unused
    job,          \* g_job_storage with g_job_storage_used and g_job_handles
    jobsMade,     \* job handles the factory has given out
    completions,  \* handles in the completion ring, oldest first
    holder,       \* the job that holds each mutex, 0 when unlocked
    up,           \* nodes whose scheduler_run loop is running
    running,      \* per node, the job it got and has not reported on, or 0
    lost          \* per node, the mutex its job just failed to take, or 0

nodeVars == <<joined, nodesMade>>
resVars == <<res, resMade, index>>
jobVars == <<job, jobsMade, completions>>
loopVars == <<up, running, lost>>
vars == <<nodeVars, resVars, jobVars, holder, loopVars>>
-----------------------------------------------------------------------------
Least(S) == {m \in S : \A x \in S : m <= x}

Used == {s \in Slots : job[s] # Free}

SlotOf(h) == {s \in Used : job[s].id = h}

LiveIds == {job[s].id : s \in Used}

Dead == [live |-> FALSE, kind |-> NoKind, capacity |-> 0, owner |-> BSP, reserved |-> 0]
-----------------------------------------------------------------------------
(* cluster_scheduler_init_schema declares the memory pool, owned by node 0.*)
Init ==
    /\ joined = {} /\ nodesMade = 0
    /\ res = [r \in ResIds |->
                 IF r = 1 THEN [Dead EXCEPT !.live = TRUE, !.kind = "MEMORY", !.capacity = 1]
                 ELSE Dead]
    /\ resMade = 1
    /\ index = [i \in ResIds |-> IF i = 1 THEN 1 ELSE 0]
    /\ job = [s \in Slots |-> Free] /\ jobsMade = 0 /\ completions = << >>
    /\ holder = [m \in MutexIds |-> 0]
    /\ up = {} /\ running = [n \in Nodes |-> 0] /\ lost = [n \in Nodes |-> 0]

(* handle_join_node, then the node enters scheduler_run; the BSP joins     *)
(* first, before it starts or announces itself to another node.  Node      *)
(* storage is never given back: the pool admits NodePool joins in all.     *)
JoinNode(n) ==
    /\ n \notin joined /\ n \notin up /\ (n = BSP \/ nodesMade > 0)
    /\ nodesMade < NodePool
    /\ joined' = joined \cup {n} /\ nodesMade' = nodesMade + 1
    /\ up' = up \cup {n}
    /\ UNCHANGED <<resVars, jobVars, holder, running, lost>>

node_has_mmu(n) ==
    \E i \in ResIds : index[i] # 0 /\ res[index[i]].kind = "MMU" /\ res[index[i]].owner = n

(* handle_declare_resource and create_resource_object.                     *)
DeclareResource(n, spec) ==
    /\ n \in up
    /\ spec.shared => node_has_mmu(n)
    /\ resMade < ResPool
    /\ resMade' = resMade + 1
    /\ res' = [res EXCEPT ![resMade + 1] =
                  [live |-> TRUE, kind |-> spec.kind, capacity |-> spec.capacity,
                   owner |-> n, reserved |-> 0]]
    /\ \E i \in Least({j \in ResIds : index[j] = 0}) : index' = [index EXCEPT ![i] = resMade + 1]
    /\ UNCHANGED <<nodeVars, jobVars, holder, loopVars>>

(* handle_reassign_resource.                                               *)
ReassignResource(r, n) ==
    /\ res[r].live /\ res[r].reserved = 0 /\ n \in joined
    /\ res' = [res EXCEPT ![r].owner = n]
    /\ UNCHANGED <<nodeVars, resMade, index, jobVars, holder, loopVars>>

(* handle_submit_job and create_job_object: the first unused slot.         *)
SubmitJob(spec) ==
    /\ jobsMade < MaxJobs
    /\ jobsMade' = jobsMade + 1
    /\ \E s \in Least(Slots \ Used) :
         job' = [job EXCEPT ![s] =
                    [id |-> jobsMade + 1, spec |-> spec, priority |-> spec.priority,
                     assigned |-> ANY, bound |-> 0, block |-> "none", on |-> 0,
                     dispatched |-> FALSE]]
    /\ UNCHANGED <<nodeVars, resVars, completions, holder, loopVars>>
-----------------------------------------------------------------------------
(* The resources that meet a kind requirement right now, by index entry.   *)
Matching(j) ==
    {i \in ResIds : /\ index[i] # 0 /\ res[index[i]].kind = j.spec.kind
                    /\ res[index[i]].reserved = 0
                    /\ res[index[i]].capacity >= j.spec.min}

resource_ok_for(j) ==
    IF j.bound # 0 THEN res[j.bound].live /\ res[j.bound].reserved \in {0, j.id}
    ELSE IF j.spec.resource # 0 THEN res[j.spec.resource].live /\ res[j.spec.resource].reserved = 0
    ELSE j.spec.kind # NoKind => Matching(j) # {}

(* bind_resource_for: a bound resource sticks; a kind requirement takes    *)
(* the last matching entry of the index.                                   *)
BindTo(j) ==
    IF j.bound # 0 THEN j.bound
    ELSE IF j.spec.resource # 0 THEN j.spec.resource
    ELSE IF j.spec.kind = NoKind \/ Matching(j) = {} THEN 0
    ELSE index[CHOOSE i \in Matching(j) : \A k \in Matching(j) : k <= i]

EligibleUnpinned(n) ==
    {s \in Used : /\ ~ job[s].dispatched
                  /\ job[s].spec.affinity \in {n, ANY}
                  /\ resource_ok_for(job[s])}

Eligible(n) ==
    {s \in Used : /\ ~ job[s].dispatched
                  /\ \/ job[s].assigned = n
                     \/ job[s].assigned = ANY /\ job[s].spec.affinity \in {n, ANY}
                  /\ resource_ok_for(job[s])}

UnblockedByReportOnly(s) == job[s].block = "none"

(* A job waiting for a job that no longer exists is unblocked by the scan. *)
Unblocked(s) == job[s].block = "none" \/ (job[s].block = "job" /\ job[s].on \notin LiveIds)

AfterScan(n) ==
    [s \in Slots |-> IF s \in Eligible(n) /\ Unblocked(s)
                     THEN [job[s] EXCEPT !.block = "none"] ELSE job[s]]

(* pick_next_for_node prefers ready jobs, else retries a mutex waiter; the *)
(* highest effective priority wins and the lowest slot breaks a tie.       *)
Candidates(n) ==
    LET ready == {s \in Eligible(n) : Unblocked(s)}
    IN  IF ready # {} THEN ready ELSE {s \in Eligible(n) : job[s].block = "mutex"}

Best(S) == {s \in S : \A t \in S : \/ job[t].priority < job[s].priority
                                   \/ job[t].priority = job[s].priority /\ s <= t}

(* handle_get_next_job, called by the worker loop of node n.               *)
GetNextJob(n) ==
    /\ n \in up /\ running[n] = 0
    /\ \E s \in Best(Candidates(n)) :
         LET j == job[s]
             r == BindTo(j)
         IN  /\ job' = [AfterScan(n) EXCEPT
                           ![s].dispatched = TRUE,
                           ![s].assigned = IF j.assigned = ANY THEN n ELSE j.assigned,
                           ![s].bound = r]
             /\ res' = IF j.bound = 0 /\ r # 0 THEN [res EXCEPT ![r].reserved = j.id] ELSE res
             /\ running' = [running EXCEPT ![n] = j.id]
    /\ UNCHANGED <<nodeVars, resMade, index, jobsMade, completions, holder, up, lost>>
-----------------------------------------------------------------------------
ReleasedNot(j) == res

(* release_job_resource: give back the job's reservation, if it has one.   *)
Released(j) ==
    IF j.bound # 0 /\ res[j.bound].reserved = j.id
    THEN [res EXCEPT ![j.bound].reserved = 0] ELSE res

LastN(seq, n) == IF Len(seq) <= n THEN seq ELSE SubSeq(seq, Len(seq) - n + 1, Len(seq))

Holding(h) == {m \in MutexIds : holder[m] = h}

(* The worker loop reports what the job's function returned.               *)
Reporting(n) ==
    /\ running[n] # 0
    /\ running' = [running EXCEPT ![n] = 0]
    /\ lost' = [lost EXCEPT ![n] = 0]
    /\ UNCHANGED <<nodeVars, resMade, index, jobsMade, holder, up>>

ReportFinishedHolding(n) ==
    /\ Reporting(n)
    /\ lost[n] = 0
    /\ \/ /\ SlotOf(running[n]) = {}
          /\ UNCHANGED <<res, job, completions>>
       \/ \E s \in SlotOf(running[n]) :
            /\ res' = Released(job[s])
            /\ completions' = LastN(Append(completions, running[n]), JobPool)
            /\ job' = [job EXCEPT ![s] = Free]

(* JOB_FINISHED: release the bound resource, keep the completion, destroy. *)
(* A job that was cancelled meanwhile is not found and nothing is recorded.*)
ReportFinished(n) ==
    /\ Reporting(n)
    /\ lost[n] = 0 /\ Holding(running[n]) = {}
    /\ \/ /\ SlotOf(running[n]) = {}
          /\ UNCHANGED <<res, job, completions>>
       \/ \E s \in SlotOf(running[n]) :
            /\ res' = Released(job[s])
            /\ completions' = LastN(Append(completions, running[n]), JobPool)
            /\ job' = [job EXCEPT ![s] = Free]

Undispatched(n, block, on) ==
    [s \in Slots |->
        IF s \in SlotOf(running[n])
        THEN [job[s] EXCEPT !.dispatched = FALSE, !.block = block, !.on = on]
        ELSE job[s]]

(* JOB_RUNNING leaves blocked, block_kind and block_id as they were.       *)
ReportRunning(n) ==
    /\ Reporting(n)
    /\ lost[n] = 0
    /\ job' = [s \in Slots |-> IF s \in SlotOf(running[n])
                              THEN [job[s] EXCEPT !.dispatched = FALSE] ELSE job[s]]
    /\ UNCHANGED <<res, completions>>

ReportBlockedOnMutex(n) ==
    /\ Reporting(n)
    /\ lost[n] # 0
    /\ job' = Undispatched(n, "mutex", lost[n])
    /\ UNCHANGED <<res, completions>>

(* A job waits for another one whose id it was handed.  The jobs of the    *)
(* tree give their mutexes back before they wait or finish.                *)
ReportBlockedOnJob(n, h) ==
    /\ Reporting(n)
    /\ lost[n] = 0 /\ Holding(running[n]) = {} /\ <<running[n], h>> \in Waits
    /\ job' = Undispatched(n, "job", h)
    /\ UNCHANGED <<res, completions>>
-----------------------------------------------------------------------------
(* handle_mutex_try_lock, called by the job that node n is running.        *)
MutexTryLock(n, m) ==
    /\ running[n] # 0 /\ lost[n] = 0
    /\ holder[m] = 0
    /\ holder' = [holder EXCEPT ![m] = running[n]]
    /\ UNCHANGED <<nodeVars, resVars, jobVars, loopVars>>

(* The losing call lends its effective priority to the holder, if both     *)
(* jobs still exist.  A job that locks twice loses to itself.              *)
Boosted(self, h) ==
    [s \in Slots |->
        IF s \in SlotOf(h) /\ \E t \in SlotOf(self) : job[t].priority > job[s].priority
        THEN [job[s] EXCEPT !.priority = job[CHOOSE t \in SlotOf(self) : TRUE].priority]
        ELSE job[s]]

MutexTryLockLost(n, m) ==
    /\ running[n] # 0 /\ lost[n] = 0
    /\ holder[m] # 0
    /\ lost' = [lost EXCEPT ![n] = m]
    /\ job' = Boosted(running[n], holder[m])
    /\ UNCHANGED <<nodeVars, resVars, jobsMade, completions, holder, up, running>>

MutexUnlockBoosted(n, m) ==
    /\ running[n] # 0 /\ holder[m] = running[n]
    /\ holder' = [holder EXCEPT ![m] = 0]
    /\ UNCHANGED <<nodeVars, resVars, jobVars, loopVars>>

(* handle_mutex_unlock: the base priority comes back whatever else is held.*)
MutexUnlock(n, m) ==
    /\ running[n] # 0 /\ holder[m] = running[n]
    /\ holder' = [holder EXCEPT ![m] = 0]
    /\ job' = [s \in Slots |-> IF s \in SlotOf(running[n])
                              THEN [job[s] EXCEPT !.priority = job[s].spec.priority]
                              ELSE job[s]]
    /\ UNCHANGED <<nodeVars, resVars, jobsMade, completions, loopVars>>
-----------------------------------------------------------------------------
Owned(n) == {r \in ResIds : res[r].live /\ res[r].owner = n}

Touches(n, j) == j.assigned = n \/ (j.assigned = ANY /\ j.spec.affinity = n)

Cancelled(n) == {s \in Used : Touches(n, job[s]) /\ job[s].spec.affinity = n}

(* handle_leave_node: the node's resources are destroyed, reserved or not; *)
(* jobs that required the node are cancelled, other jobs assigned to it    *)
(* are released.  The released jobs keep dispatched and bound.             *)
LeaveNode(n) ==
    /\ n \in joined
    /\ joined' = joined \ {n}
    /\ res' = [r \in ResIds |->
                  IF r \in Owned(n) THEN Dead
                  ELSE IF \E s \in Cancelled(n) : job[s].bound = r /\ job[s].id = res[r].reserved
                       THEN [res[r] EXCEPT !.reserved = 0]
                  ELSE res[r]]
    /\ index' = [i \in ResIds |-> IF index[i] \in Owned(n) THEN 0 ELSE index[i]]
    /\ job' = [s \in Slots |->
                  IF s \in Cancelled(n) THEN Free
                  ELSE IF s \in Used /\ Touches(n, job[s])
                       THEN [job[s] EXCEPT !.assigned = ANY]
                  ELSE job[s]]
    /\ UNCHANGED <<nodesMade, resMade, jobsMade, completions, holder, loopVars>>

(* A node that has left is unplugged; whatever it was running is gone.     *)
RemoveNode(n) ==
    /\ n \in up \ joined
    /\ up' = up \ {n}
    /\ running' = [running EXCEPT ![n] = 0]
    /\ lost' = [lost EXCEPT ![n] = 0]
    /\ UNCHANGED <<nodeVars, resVars, jobVars, holder>>

Slice(n) ==
    \/ ReportFinished(n) \/ ReportRunning(n) \/ ReportBlockedOnMutex(n)
    \/ \E h \in Handles : ReportBlockedOnJob(n, h)
    \/ \E m \in MutexIds : MutexTryLock(n, m) \/ MutexTryLockLost(n, m) \/ MutexUnlock(n, m)

Next ==
    \/ \E n \in Nodes : JoinNode(n) \/ GetNextJob(n) \/ Slice(n)
    \/ \E n \in Nodes, spec \in ResSpecs : DeclareResource(n, spec)
    \/ \E r \in ResIds, n \in Nodes : ReassignResource(r, n)
    \/ \E spec \in JobSpecs : SubmitJob(spec)
    \/ \E n \in Leavers : LeaveNode(n)
    \/ \E n \in Removable : RemoveNode(n)

Spec == Init /\ [][Next]_vars

(* What happens to job h while some node runs it.                          *)
Finishes(h) == \E n \in Nodes : running[n] = h /\ ReportFinished(n)
Unlocks(h) == \E n \in Nodes, m \in MutexIds : running[n] = h /\ MutexUnlock(n, m)

(* Worker loops poll forever and job functions return; a job that is run   *)
(* again and again gives its mutexes back and finishes.                    *)
Fairness ==
    /\ WF_vars(JoinNode(BSP))
    /\ \A n \in Nodes : WF_vars(GetNextJob(n))
    /\ \A n \in Nodes : WF_vars(ReportRunning(n) \/ ReportFinished(n) \/ ReportBlockedOnMutex(n))
    /\ \A h \in Handles : SF_vars(Finishes(h)) /\ SF_vars(Unlocks(h))

FairSpec == Spec /\ Fairness
-----------------------------------------------------------------------------
TypeOK ==
    /\ joined \subseteq Nodes /\ nodesMade \in 0 .. NodePool
    /\ res \in [ResIds -> Resource] /\ resMade \in 1 .. ResPool
    /\ index \in [ResIds -> 0 .. ResPool]
    /\ job \in [Slots -> Job \cup {Free}] /\ jobsMade \in 0 .. MaxJobs
    /\ completions \in Seq(Handles)
    /\ holder \in [MutexIds -> 0 .. MaxJobs]
    /\ up \subseteq Nodes
    /\ running \in [Nodes -> 0 .. MaxJobs]
    /\ lost \in [Nodes -> MutexIds \cup {0}]

(* No job is in the hands of two nodes at once, through leaves, cancelled  *)
(* jobs, late reports and reused slots (the dispatched claim).             *)
DispatchExclusive ==
    \A m, n \in Nodes : m # n /\ running[m] # 0 => running[m] # running[n]

(* A job runs only where its affinity allows and where it was pinned; only *)
(* the node's departure unpins it (scheduler_submit's pointer argument is  *)
(* safe because of this).                                                  *)
RunsWhereAssigned ==
    \A n \in Nodes : \A s \in SlotOf(running[n]) :
        /\ job[s].spec.affinity \in {n, ANY}
        /\ job[s].assigned = n \/ (job[s].assigned = ANY /\ n \notin joined)

(* A live resource is reserved exactly by the job bound to it: no          *)
(* reservation outlives its job, and no two jobs share a resource.         *)
ReservationsMatchBindings ==
    \A r \in ResIds : res[r].live =>
        /\ \A s \in Used : job[s].bound = r => res[r].reserved = job[s].id
        /\ res[r].reserved # 0 => \E s \in SlotOf(res[r].reserved) : job[s].bound = r

Requires(j) == j.spec.resource # 0 \/ j.spec.kind # NoKind

(* get_next_job hands out a job with a requirement only together with a    *)
(* resource, and the job keeps that resource between its slices.           *)
StartedJobsAreBound ==
    \A s \in Used : Requires(job[s]) /\ (job[s].dispatched \/ job[s].block # "none")
                    => job[s].bound # 0

(* What a node has been handed is sound: the job is in no other node's     *)
(* hands, runs where it is allowed to, and with what it requires.          *)
RunningJobsSound ==
    TypeOK /\ DispatchExclusive /\ RunsWhereAssigned /\ StartedJobsAreBound

(* A priority above the submitted one is a loan from a waiter, and only a  *)
(* job that holds a mutex has one (handle_mutex_try_lock / _unlock).       *)
BoostOnlyWhileHolding ==
    \A s \in Used : /\ job[s].priority >= job[s].spec.priority
                    /\ job[s].priority > job[s].spec.priority => Holding(job[s].id) # {}

(* scheduler.h: try_lock returns "0 if already held by a different job     *)
(* anywhere in the cluster": a taken mutex has a job that can release it.  *)
HeldByAJob ==
    \A m \in MutexIds : holder[m] # 0 =>
        holder[m] \in LiveIds \/ \E n \in Nodes : running[n] = holder[m]

(* Every submitted job is eventually run to its end, or cancelled: no job  *)
(* that waits for a resource, a mutex or another job is forgotten, and     *)
(* leave_node releases jobs "back to the pool" (cluster_scheduler.h).      *)
EveryJobEnds == \A h \in Handles : (h \in LiveIds) ~> (h \notin LiveIds)
=============================================================================

------------------------------ MODULE JobExec ------------------------------
(***************************************************************************)
(* The per-core job table and its wait/wake primitives (coreinit/          *)
(* job_exec.c): cooperative contexts of one core, each with a priority,    *)
(* switched by job_exec_wait, job_exec_wake and job_exec_run.              *)
(*                                                                         *)
(* A stack pointer is modelled by the context whose registers it leads to: *)
(* a job's slot number, or 0 for the code that is not a job and starts     *)
(* the first one (the driver).                                             *)
(***************************************************************************)
EXTENDS Integers

CONSTANTS
    MaxResident,  \* JOB_EXEC_MAX_RESIDENT
    Priorities,   \* the priorities jobs are spawned with
    Queues,       \* job_wait_queue_t instances
    Park,         \* a queue that nobody wakes, where a job stops for good
    None,         \* no queue: waiting_on of a job that is not blocked
    DriverWakes   \* whether the driver itself calls job_exec_wake

Residents == 1 .. MaxResident
Driver == 0
Contexts == Residents \cup {Driver}

ASSUME ExecAssumption ==
    /\ MaxResident \in Nat /\ Priorities \subseteq Int
    /\ None \notin Queues /\ Park \notin Queues /\ Park # None /\ DriverWakes \in BOOLEAN

VARIABLES
    state,    \* state of each slot of job_table
    prio,     \* its priority
    waiting,  \* its waiting_on
    rsp,      \* the context its saved_rsp leads to
    stack,    \* the stack it was spawned on, 0 once the driver has freed it
    stacks,   \* job_stack_used: the stacks in use
    current,  \* current_job, 0 for -1
    cpu,      \* the context that is executing
    halted    \* job_exec_wait found nothing to run and stopped the core

table == <<state, prio, waiting, rsp>>
execVars == <<table, stack, stacks, current, cpu, halted>>

With(s) == {i \in Residents : state[i] = s}

(* The highest priority wins and the lowest slot breaks a tie.             *)
HighestPriority(S) == {i \in S : \A k \in S : prio[k] < prio[i] \/ (prio[k] = prio[i] /\ i <= k)}

ExecInit ==
    /\ state = [i \in Residents |-> "UNUSED"] /\ prio = [i \in Residents |-> 0]
    /\ waiting = [i \in Residents |-> None] /\ rsp = [i \in Residents |-> i]
    /\ stack = [i \in Residents |-> 0] /\ stacks = {}
    /\ current = 0 /\ cpu = Driver /\ halted = FALSE

Lowest(S) == {i \in S : \A k \in S : i <= k}

(* job_exec_alloc_stack, job_exec_init and job_exec_spawn: the driver makes*)
(* a new job READY in the first unused slot, with a frame that starts it   *)
(* at its entry.  No slot of the table is ever UNUSED again.               *)
Spawn(p) ==
    /\ cpu = Driver
    /\ \E i \in Lowest(With("UNUSED")), k \in Lowest(Residents \ stacks) :
         /\ stack' = [stack EXCEPT ![i] = k] /\ stacks' = stacks \cup {k}
         /\ state' = [state EXCEPT ![i] = "READY"]
         /\ prio' = [prio EXCEPT ![i] = p]
         /\ waiting' = [waiting EXCEPT ![i] = None]
         /\ rsp' = [rsp EXCEPT ![i] = i]
    /\ UNCHANGED <<current, cpu, halted>>

(* job_exec_run: the driver starts the highest-priority job it spawned.    *)
Run(i) ==
    /\ cpu = Driver
    /\ i \in HighestPriority(With("READY"))
    /\ state' = [state EXCEPT ![i] = "RUNNING"]
    /\ current' = i /\ cpu' = rsp[i]
    /\ UNCHANGED <<prio, waiting, rsp, stack, stacks, halted>>

(* job_exec_switch: save the executing context in slot from, resume the    *)
(* one saved in slot to.                                                   *)
Switch(from, to) == rsp' = [rsp EXCEPT ![from] = cpu] /\ cpu' = rsp[to]

(* job_exec_wait, called by the running job.                               *)
Wait(q) ==
    /\ cpu # Driver /\ ~ halted
    /\ waiting' = [waiting EXCEPT ![current] = q]
    /\ LET blocked == [state EXCEPT ![current] = "BLOCKED"]
       IN  \/ /\ With("READY") = {}
              /\ state' = blocked /\ halted' = TRUE
              /\ UNCHANGED <<prio, rsp, current, cpu>>
           \/ \E n \in HighestPriority(With("READY")) :
                /\ state' = [blocked EXCEPT ![n] = "RUNNING"]
                /\ current' = n /\ Switch(current, n)
                /\ UNCHANGED <<prio, halted>>
    /\ UNCHANGED <<stack, stacks>>

Waiters(q) == {i \in With("BLOCKED") : waiting[i] = q}

PreemptsNever(w) == FALSE

(* Whether job_exec_wake switches to the woken job at once.                *)
Preempts(w) == current # 0 /\ prio[w] > prio[current]

(* job_exec_wake with somebody waiting on q; it does nothing otherwise.    *)
Wake(q) ==
    /\ (cpu # Driver \/ DriverWakes) /\ ~ halted
    /\ \E w \in HighestPriority(Waiters(q)) :
         /\ waiting' = [waiting EXCEPT ![w] = None]
         /\ \/ /\ Preempts(w)
               /\ state' = [state EXCEPT ![current] = "READY", ![w] = "RUNNING"]
               /\ current' = w /\ Switch(current, w)
            \/ /\ ~ Preempts(w)
               /\ state' = [state EXCEPT ![w] = "READY"]
               /\ UNCHANGED <<rsp, current, cpu>>
    /\ UNCHANGED <<prio, stack, stacks, halted>>

(* A job hands the core back with job_exec_switch(                         *)
(* job_exec_current_rsp_slot(), ...): the table is left as it was.         *)
ReturnToDriver ==
    /\ cpu # Driver /\ ~ halted
    /\ rsp' = [rsp EXCEPT ![current] = cpu] /\ cpu' = Driver
    /\ UNCHANGED <<state, prio, waiting, stack, stacks, current, halted>>

(* job_exec_free_stack, called by the driver for a job that has parked or  *)
(* that has handed the core back.                                          *)
FreeStack(i) ==
    /\ cpu = Driver /\ stack[i] # 0
    /\ state[i] = "RUNNING" \/ waiting[i] = Park
    /\ stacks' = stacks \ {stack[i]} /\ stack' = [stack EXCEPT ![i] = 0]
    /\ UNCHANGED <<table, current, cpu, halted>>

ExecNext ==
    \/ \E p \in Priorities : Spawn(p)
    \/ \E i \in Residents : Run(i) \/ FreeStack(i)
    \/ \E q \in Queues \cup {Park} : Wait(q)
    \/ \E q \in Queues : Wake(q)
    \/ ReturnToDriver

ExecSpec == ExecInit /\ [][ExecNext]_execVars
-----------------------------------------------------------------------------
ExecType ==
    /\ state \in [Residents -> {"UNUSED", "READY", "RUNNING", "BLOCKED"}]
    /\ prio \in [Residents -> Int]
    /\ waiting \in [Residents -> Queues \cup {Park, None}]
    /\ rsp \in [Residents -> Contexts]
    /\ stack \in [Residents -> Contexts] /\ stacks \subseteq Residents
    /\ current \in Contexts /\ cpu \in Contexts /\ halted \in BOOLEAN

(* While a job executes, current_job names it and its slot says RUNNING,   *)
(* through every chain of waits and preemptions (job_exec.h on job_exec_run*)
(* says what a wrong current_job would corrupt).                           *)
RunningIsCurrent ==
    cpu # Driver => cpu = current /\ state[cpu] = IF halted THEN "BLOCKED" ELSE "RUNNING"

(* job_exec.h, job_exec_wait: the caller resumes with its "own stack,      *)
(* locals, and position in its own code": a job's saved stack pointer      *)
(* always leads to that job.                                               *)
ContextsOwn == \A i \in Residents : state[i] # "UNUSED" => rsp[i] = i

(* Strict priority on a core: no READY job outranks the executing one.     *)
RunningIsHighest ==
    cpu # Driver /\ ~ halted => \A i \in With("READY") : prio[i] <= prio[cpu]

(* The jobs that can still execute.                                        *)
CanRun(i) == \/ state[i] = "READY" \/ (state[i] = "BLOCKED" /\ waiting[i] # Park) \/ cpu = i

(* Two jobs that can still execute never share a stack, and none of them   *)
(* sits on a stack that job_exec_alloc_stack could hand out again.         *)
StacksDisjoint ==
    \A i \in Residents : CanRun(i) =>
        /\ stack[i] \in stacks
        /\ \A k \in Residents \ {i} : CanRun(k) => stack[k] # stack[i]

(* The inductive invariant.  Beyond the properties above: a free slot has  *)
(* no stack, a parked job stays BLOCKED, only a job halts the core, and    *)
(* the stacks that have not been freed are all different, whatever state   *)
(* their jobs are in.                                                      *)
ExecInv ==
    /\ ExecType /\ RunningIsCurrent /\ RunningIsHighest
    /\ \A i \in Residents : rsp[i] = i
    /\ halted => cpu # Driver
    /\ \A i \in Residents : waiting[i] = Park => state[i] = "BLOCKED"
    /\ \A i \in Residents : state[i] = "UNUSED" => stack[i] = 0 /\ cpu # i
    /\ \A i \in Residents : CanRun(i) => stack[i] # 0
    /\ \A i \in Residents : stack[i] # 0 => stack[i] \in stacks
    /\ \A i, k \in Residents : i # k /\ stack[i] # 0 => stack[i] # stack[k]
=============================================================================

----------------------------- MODULE Securinit -----------------------------
(***************************************************************************)
(* The second stage: coreinit's job_securinit_boot, which claims memory,   *)
(* loads the image and starts it; securinit_main with its Status, Gate,    *)
(* Admin and WrapperFactory objects; and the wrapper, which runs a guest   *)
(* at EL0 or ring 3 behind its own page tables, once with the Gate open    *)
(* and once with it closed.                                                *)
(*                                                                         *)
(* The kernel is external: its factory makes env.room more objects, and    *)
(* from run env.since on an invocation of env.dead is refused.  A cached   *)
(* translation is a view, the contents of the entries the wrapper changes; *)
(* a write leaves both views possible until the flush.                     *)
(***************************************************************************)
EXTENDS StageLoader, Functions

CONSTANTS
    Setups,          \* the images and environments Init chooses from
    MaxOthers,       \* bound: how often another job takes the allocator mutex
    UserBase,        \* user_region_base
    UserSize,        \* user_region_size
    AdminAddr,       \* the address of Admin's record
    IpcMaxBytes      \* WRAPPER_IPC_MAX_BYTES

VARIABLES
    env,
    pc,              \* the step of the job
    holder,          \* of the allocator mutex
    others,
    claims,          \* the regions the job has claimed
    objects,         \* the objects the factory has made for the stage
    gate,            \* g_allowed, g_denied and g_forwarded
    sink,            \* the markers securinit_status_sink was handed
    map,             \* the page-table entries on the way to the user region
    tlb,             \* the views the TLB may hold
    hook,            \* whether the wrapper's callback is bound
    wrap,            \* the wrapper's counters and what the guest got
    guest,           \* the guest's next instruction, 0 before and after a run
    run,             \* which of the two runs is on
    failures         \* g_probe_failures

stage == <<env, pc, holder, others, claims, objects, gate, sink, map, tlb, hook, wrap, guest, run,
           failures>>
vars == <<loaderVars, stage>>

Arm == image.arm
Levels == IF Arm THEN <<"l1">> ELSE <<"pml4", "pdpt", "pd">>
Kernels == [l \in Range(Levels) |-> "kernel"]
Users == [l \in Range(Levels) |-> "user"]
NoWrap == [access |-> 0, exits |-> 0, denied |-> 0, forwarded |-> 0, results |-> << >>, word |-> 0]

Init ==
    /\ LoadInit
    /\ \E s \in Setups : image = s.image /\ env = s.env
    /\ pc = "lock" /\ holder = "none" /\ others = 0 /\ claims = {} /\ objects = {}
    /\ gate = [allowed |-> FALSE, denied |-> 0, forwarded |-> 0] /\ sink = << >>
    /\ map = Kernels /\ tlb = {Kernels} /\ hook = FALSE
    /\ wrap = NoWrap /\ guest = 0 /\ run = 0 /\ failures = 0

Goto(label) == pc' = label
Alive(obj) == env.dead # obj \/ run < env.since
-----------------------------------------------------------------------------
(* coreinit's job.  The allocator mutex is also taken by jobs of other     *)
(* cores; a failed try_lock blocks the job until the holder unlocks.       *)
OtherLocks ==
    /\ holder = "none" /\ others < MaxOthers
    /\ holder' = "other" /\ others' = others + 1
    /\ UNCHANGED <<loaderVars, env, pc, claims, objects, gate, sink, map, tlb, hook, wrap, guest, run, failures>>

OtherUnlocks ==
    /\ holder = "other" /\ holder' = "none"
    /\ UNCHANGED <<loaderVars, env, pc, others, claims, objects, gate, sink, map, tlb, hook, wrap, guest, run,
                   failures>>

TryLock ==
    /\ pc = "lock" /\ holder = "none"
    /\ holder' = "job" /\ Goto("claim")
    /\ UNCHANGED <<loaderVars, env, others, claims, objects, gate, sink, map, tlb, hook, wrap, guest, run,
                   failures>>

(* The image's slice, then the user region if there was one; the mutex is  *)
(* given back before the results are looked at.                            *)
ClaimRegions ==
    /\ pc = "claim" /\ holder' = "none"
    /\ claims' = env.grants
    /\ Goto(IF env.grants = {"image", "user"} THEN "load" ELSE "end")
    /\ UNCHANGED <<loaderVars, env, others, objects, gate, sink, map, tlb, hook, wrap, guest, run, failures>>

Load == pc = "load" /\ LoadNext /\ UNCHANGED stage

LoadReturns ==
    /\ pc = "load" /\ result # Untouched
    /\ Goto(IF result = 0 THEN "end" ELSE "handoff")
    /\ UNCHANGED <<loaderVars, env, holder, others, claims, objects, gate, sink, map, tlb, hook, wrap, guest, run,
                   failures>>

(* Objects the factory makes in this order while it has room.              *)
Made(names) == objects \cup {names[i] : i \in {j \in DOMAIN names : Cardinality(objects) + j <= env.room}}
Create(names, next) ==
    /\ objects' = Made(names)
    /\ Goto(IF Range(names) \subseteq objects' THEN next ELSE "end")
    /\ UNCHANGED <<loaderVars, env, holder, others, claims, gate, sink, map, tlb, hook, wrap, guest, run, failures>>

Handoff == pc = "handoff" /\ Create(<<"sink", "router">>, "main")
-----------------------------------------------------------------------------
(* status_handler passes a report to the sink and ignores how that goes.   *)
Status(marker) == sink' = IF Alive("sink") THEN Append(sink, marker) ELSE sink

(* gate_handler: what counts as forwarded is what Status took.             *)
GateOk == gate.allowed /\ Alive("status")

GateCountsAllowed(marker) ==
    IF gate.allowed
    THEN gate' = [gate EXCEPT !.forwarded = @ + 1] /\ (IF GateOk THEN Status(marker) ELSE UNCHANGED sink)
    ELSE gate' = [gate EXCEPT !.denied = @ + 1] /\ UNCHANGED sink

Gate(marker) ==
    IF GateOk
    THEN gate' = [gate EXCEPT !.forwarded = @ + 1] /\ Status(marker)
    ELSE gate' = [gate EXCEPT !.denied = @ + 1] /\ UNCHANGED sink

(* securinit_main: the four objects are asked for before any is checked.   *)
SecurinitMain == pc = "main" /\ Create(<<"status", "gate", "admin", "factory">>, "closed")

(* The Gate is asked while closed, and again once Admin has opened it; an  *)
(* answer other than the one expected ends the stage.                      *)
AskGate ==
    /\ pc \in {"closed", "open"}
    /\ IF Alive("gate")
       THEN Gate("boot") /\ Goto(IF GateOk # (pc = "open") THEN "end"
                                 ELSE IF pc = "closed" THEN "allow" ELSE "wrap")
       ELSE Goto("end") /\ UNCHANGED <<gate, sink>>
    /\ UNCHANGED <<loaderVars, env, holder, others, claims, objects, map, tlb, hook, wrap, guest, run, failures>>

Admin ==
    /\ pc \in {"allow", "revoke"}
    /\ IF Alive("admin")
       THEN gate' = [gate EXCEPT !.allowed = pc = "allow"] /\ Goto(IF pc = "allow" THEN "open" ELSE "run")
       ELSE Goto("end") /\ UNCHANGED gate
    /\ UNCHANGED <<loaderVars, env, holder, others, claims, objects, sink, map, tlb, hook, wrap, guest, run,
                   failures>>

(* The WrapperFactory makes the wrapped object.                            *)
WrapperCreate == pc = "wrap" /\ Create(IF Alive("factory") THEN <<"wrapped">> ELSE <<"nothing">>, "run")
-----------------------------------------------------------------------------
(* The wrapped object's run method, up to the first write of a table: the  *)
(* map must be known, have the shape the wrapper replaces, and on x86_64   *)
(* grant nothing else to user mode.                                        *)
Refused == ~ env.root \/ ~ env.shape \/ (~ Arm /\ env.user)

ProbeStart ==
    /\ pc = "run"
    /\ run' = run + 1
    /\ IF Refused
       THEN wrap' = NoWrap /\ failures' = failures + 1 /\ Goto("end")
       ELSE wrap' = NoWrap /\ Goto("map") /\ UNCHANGED failures
    /\ UNCHANGED <<loaderVars, env, holder, others, claims, objects, gate, sink, map, tlb, hook, guest>>

(* The entries are replaced from the root down and put back from the leaf  *)
(* up, one write at a time.                                                *)
Write(l, to) == map' = [map EXCEPT ![l] = to] /\ tlb' = tlb \cup {map'}
Pending(order, to) == SelectSeq(order, LAMBDA l : map[l] # to)
Deepest(order) == order[Len(order)]

MapUser ==
    /\ pc = "map"
    /\ IF map # Users THEN Write(Head(Pending(Levels, "user")), "user") /\ UNCHANGED pc
       ELSE tlb' = {map} /\ Goto("bind") /\ UNCHANGED map
    /\ UNCHANGED <<loaderVars, env, holder, others, claims, objects, gate, sink, hook, wrap, guest, run, failures>>

(* The router installs the wrapper's callback, on x86_64 with its gates    *)
(* and its ring-0 stack; a refusal undoes the map as a return does.        *)
BindHook ==
    /\ pc = "bind"
    /\ IF Alive("router") THEN hook' = TRUE /\ guest' = 1 /\ Goto("guest")
       ELSE Goto("unmap") /\ UNCHANGED <<hook, guest>>
    /\ UNCHANGED <<loaderVars, env, holder, others, claims, objects, gate, sink, map, tlb, wrap, run, failures>>

UnmapUserUnflushed ==
    /\ pc = "unmap"
    /\ IF map # Kernels THEN Write(Deepest(Pending(Levels, "kernel")), "kernel") /\ UNCHANGED pc
       ELSE Goto("verify") /\ UNCHANGED <<map, tlb>>
    /\ UNCHANGED <<loaderVars, env, holder, others, claims, objects, gate, sink, hook, wrap, guest, run, failures>>

UnmapUser ==
    /\ pc = "unmap"
    /\ IF map # Kernels THEN Write(Deepest(Pending(Levels, "kernel")), "kernel") /\ UNCHANGED pc
       ELSE tlb' = {map} /\ Goto("verify") /\ UNCHANGED map
    /\ UNCHANGED <<loaderVars, env, holder, others, claims, objects, gate, sink, hook, wrap, guest, run, failures>>
-----------------------------------------------------------------------------
(* The guest: one forbidden load, calls, and the exit.                     *)
Program == IF Arm THEN <<"load", "ungranted", "stray", "granted", "exit">>
           ELSE <<"load", "ungranted", "granted", "exit">>
Instr == Program[guest]

(* The descriptors the wrapper prepared for the calls.                     *)
Call(name) == [addr     |-> UserBase + 2, version |-> 1, method |-> "invoke",
               endpoint |-> IF name = "ungranted" THEN 2 ELSE 1,
               request  |-> IF name = "stray" THEN AdminAddr ELSE UserBase + 3, length |-> 1,
               response |-> UserBase + 4, capacity |-> 1]

WithinUser(addr, len) == addr >= UserBase /\ len <= UserSize /\ addr - UserBase <= UserSize - len

BoundsOk(call) ==
    /\ call.length <= IpcMaxBytes /\ call.capacity <= IpcMaxBytes
    /\ WithinUser(call.request, call.length) /\ WithinUser(call.response, call.capacity)

(* wrapper_dispatch_guest_call, up to the invocation of the Gate.          *)
CheckCall(call) ==
    IF ~ WithinUser(call.addr, 1) \/ call.version # 1 THEN "bad_descriptor"
    ELSE IF call.endpoint # 1 \/ call.method # "invoke" THEN "bad_endpoint"
    ELSE IF ~ BoundsOk(call) THEN "bounds"
    ELSE IF Alive("gate") THEN "ok" ELSE "rejected"

(* What the guest does needs its own map and the wrapper's callback: an    *)
(* exception without them halts the core, which takes no further step.     *)
Runs == pc = "guest" /\ hook /\ tlb = {Users}

(* The permission fault of the load: counted and stepped over.             *)
GuestLoad ==
    /\ Runs /\ Instr = "load"
    /\ wrap' = [wrap EXCEPT !.access = @ + 1] /\ guest' = guest + 1
    /\ UNCHANGED <<loaderVars, env, pc, holder, others, claims, objects, gate, sink, map, tlb, hook, run, failures>>

GuestCall ==
    /\ Runs /\ Instr \in {"ungranted", "stray", "granted"}
    /\ guest' = guest + 1
    /\ LET status == CheckCall(Call(Instr))
           after  == [wrap EXCEPT !.results = Append(@, status)]
       IN  IF status = "ok"
           THEN /\ Gate("ipc")
                /\ wrap' = [after EXCEPT !.forwarded = @ + 1, !.word = IF GateOk THEN 1 ELSE 0]
           ELSE wrap' = [after EXCEPT !.denied = @ + 1] /\ UNCHANGED <<gate, sink>>
    /\ UNCHANGED <<loaderVars, env, pc, holder, others, claims, objects, map, tlb, hook, run, failures>>

GuestExit ==
    /\ Runs /\ Instr = "exit"
    /\ wrap' = [wrap EXCEPT !.exits = @ + 1] /\ guest' = 0 /\ Goto("unmap")
    /\ UNCHANGED <<loaderVars, env, holder, others, claims, objects, gate, sink, map, tlb, hook, run, failures>>

(* The end of the probe and of wrapped_handler: a run that went as it must *)
(* is reported to Status directly.  securinit_main expects the granted run *)
(* to have got through and the revoked one not to have.                    *)
Valid == /\ wrap.access = 1 /\ wrap.exits = 1
         /\ wrap.forwarded = 1 /\ wrap.denied = IF Arm THEN 2 ELSE 1
         /\ wrap.results = IF Arm THEN <<"bad_endpoint", "bounds", "ok">> ELSE <<"bad_endpoint", "ok">>

Verify ==
    /\ pc = "verify"
    /\ IF Valid /\ Alive("status") THEN Status("denied") /\ UNCHANGED failures
       ELSE failures' = failures + 1 /\ UNCHANGED sink
    /\ LET word == IF Valid THEN wrap.word ELSE 0
       IN  Goto(CASE run = 1 -> IF word = 1 THEN "revoke" ELSE "end"
                  [] run = 2 -> IF word = 0 /\ failures' = 0 THEN "stats" ELSE "end")
    /\ UNCHANGED <<loaderVars, env, holder, others, claims, objects, gate, map, tlb, hook, wrap, guest, run>>

(* coreinit asks the Gate for its counters.                                *)
Stats ==
    /\ pc = "stats" /\ Goto("started")
    /\ UNCHANGED <<loaderVars, env, holder, others, claims, objects, gate, sink, map, tlb, hook, wrap, guest, run,
                   failures>>

Job ==
    \/ TryLock \/ ClaimRegions \/ Load \/ LoadReturns \/ Handoff \/ SecurinitMain \/ AskGate \/ Admin
    \/ WrapperCreate \/ ProbeStart \/ MapUser \/ BindHook \/ UnmapUser \/ GuestLoad
    \/ GuestCall \/ GuestExit \/ Verify \/ Stats

Next == Job \/ OtherLocks \/ OtherUnlocks

Spec == Init /\ [][Next]_vars
FairSpec == Spec /\ WF_vars(Job) /\ WF_vars(OtherUnlocks)
-----------------------------------------------------------------------------
(* The kernel's tables, and a TLB that knows no others, are back whenever  *)
(* no guest can run, on the paths where the router refuses too; and the    *)
(* guest runs only behind its own tables and the wrapper's callback        *)
(* (securinit_arm_isolation_probe, securinit_x86_isolation_probe).         *)
MapRestored ==
    /\ pc \notin {"map", "bind", "guest", "unmap"} => map = Kernels /\ tlb = {Kernels}
    /\ pc = "guest" => hook /\ tlb = {Users}

(* The Gate's counters tell what reached coreinit's sink, whether a guest  *)
(* or the stage asked and whichever object the kernel refuses to invoke,   *)
(* the sink itself excepted: status_handler ignores its refusal.  And a    *)
(* stage that starts has been denied twice and forwarded twice, once       *)
(* before and once from the guest, with both runs reported (gate_handler,  *)
(* securinit_main, wrapped_handler).                                       *)
StatsTellTruth ==
    env.dead # "sink" =>
        /\ gate.forwarded = Cardinality({i \in DOMAIN sink : sink[i] # "denied"})
        /\ pc = "started" => /\ gate.denied = 2 /\ gate.forwarded = 2
                             /\ sink = <<"boot", "ipc", "denied", "denied">>

(* job_securinit_boot ends, the stage started or not, beside a job that    *)
(* takes the allocator mutex from it.                                      *)
JobEnds == <>(pc \in {"end", "started"})
=============================================================================

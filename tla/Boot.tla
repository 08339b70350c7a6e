-------------------------------- MODULE Boot --------------------------------
(***************************************************************************)
(* A machine comes up: coreinit_main on the boot core and on every core it *)
(* starts, the timer, SMP bring-up and greeting jobs of coreinit.c, and    *)
(* smp_bring_up_all of both architectures.  It composes Interrupts with    *)
(* the hardware mutex (as MutexService promises it), the proxy objects of  *)
(* proxy.c, the handoff to the application processors (the trampoline's    *)
(* parameter block or PSCI CPU_ON), and the statics that the cores of a    *)
(* shared image have in common.                                            *)
(*                                                                         *)
(* A step of a core is one access to something another core or an          *)
(* interrupt handler can see.  The other jobs of a core are one job,       *)
(* "rest": they are modelled in the scheduler's modules.                   *)
(***************************************************************************)
EXTENDS Interrupts, Sequences

CONSTANTS
    Aps,          \* the other cores
    MaxProxies,   \* MAX_PROXIES, 16 in the code
    Machines      \* the machines of interest, see MachineType

VARIABLES
    image,    \* per image: topo.count and g_proxies
    smp,      \* smp_bring_up_all's variables, the boot heap, spare slices
    record,   \* per region or handoff: what the boot core wrote for a core
    params,   \* the trampoline's parameter block
    jobs,     \* per core: the jobs the cluster scheduler holds for it
    inside    \* the cores inside the hardware mutex

bootVars == <<image, smp, record, params, jobs, inside>>
vars == <<irqVars, pc, me, bootVars>>

HwMutex == "hw"
Mutex == INSTANCE MutexService WITH Mutexes <- {HwMutex}

Slots == 1 .. MaxProxies
NoRecord == [owner |-> Bsp, services |-> FALSE, cal |-> FALSE, state |-> FALSE]

(* order: the enabled and disabled cores as discovery lists them, found:   *)
(* whether it finds anything; image: how kernel and init reach an AP;      *)
(* refused: core regions the memory manager denies; fits: the image fits a *)
(* core region; psci: CPU_ON usable; denied: cores that CPU_ON rejects;    *)
(* heap, slices: contexts the boot allocator and the slice allocator still *)
(* have; net: a second machine, whose scheduler is remote.  gic, redist,   *)
(* far and gsKept belong to Interrupts.                                    *)
MachineType ==
    [arch : {"x86", "arm"}, image : {"copied", "shared", "none"},
     order : Seq([core : Cores, enabled : BOOLEAN]), found : BOOLEAN,
     refused : SUBSET (1 .. Cardinality(Aps)), fits : BOOLEAN,
     psci : BOOLEAN, denied : SUBSET Aps, heap : Nat, slices : Nat, net : BOOLEAN,
     gic : {"v2", "v3", "none"}, redist : SUBSET Cores, far : SUBSET Cores, gsKept : BOOLEAN]

ASSUME BootAssumption ==
    /\ Cores = Aps \cup {Bsp} /\ Bsp \notin Aps
    /\ CalTicks \in Nat /\ MaxSpins \in Nat \ {0} /\ MaxProxies \in Nat
    /\ Machines \subseteq MachineType
    /\ \A m \in Machines : m.arch = "x86" => m.image # "shared"

Fresh == [ret |-> "none", spins |-> 0, cal |-> FALSE, verdict |-> "none", greeted |-> FALSE,
          region |-> 0, stack |-> 0, handle |-> [s \in {"mutex", "sched", "serial"} |-> 0]]

Init ==
    /\ hw \in Machines
    /\ cpu = [c \in Cores |-> Reset] /\ table = [c \in Cores |-> {}]
    /\ router = FALSE /\ icr = [c \in Cores |-> Idle]
    /\ pc = [c \in Cores |-> IF c = Bsp THEN "start" ELSE "off"]
    /\ me = [c \in Cores |-> Fresh]
    /\ image = [c \in Cores |-> [count |-> 0, slot |-> [s \in Slots |-> <<"none", "none">>], used |-> {}]]
    /\ smp = [next |-> 1, region |-> 0, heap |-> hw.heap, slices |-> hw.slices]
    /\ record = [r \in 0 .. Len(hw.order) |-> NoRecord]
    /\ params = [stack |-> 0, region |-> 0]
    /\ jobs = [c \in Cores |-> {}]
    /\ inside = [m \in {HwMutex} |-> {}]
-----------------------------------------------------------------------------
(* core_state_alloc_ap: what the boot core left in the discovery record or *)
(* the handoff.  An x86_64 record has none, and brings no boot allocator.  *)
ApState(a) == record[me[a].region].state

(* coreinit_main: the boot core's static core_state or the AP's.           *)
CoreState(c) ==
    /\ At(c, "start")
    /\ Cpu(c, [cpu[c] EXCEPT !.state = c = Bsp \/ ApState(c)])
    /\ Goto(c, IF X86 THEN "proxies" ELSE "topo")
    /\ UNCHANGED <<hw, table, router, icr, me, bootVars>>

(* topology_discover starts by emptying the list; topo is a static.        *)
TopoClear(c) ==
    /\ At(c, "topo") /\ Goto(c, "topo.fill")
    /\ image' = [image EXCEPT ![Image(c)].count = 0]
    /\ UNCHANGED <<irqVars, me, smp, record, params, jobs, inside>>

TopoFill(c) ==
    /\ At(c, "topo.fill") /\ Goto(c, IF X86 THEN "join" ELSE "proxies")
    /\ image' = [image EXCEPT ![Image(c)].count = IF hw.found THEN Len(hw.order) ELSE 0]
    /\ UNCHANGED <<irqVars, me, smp, record, params, jobs, inside>>

(* proxy_init.                                                             *)
ProxyInit(c) ==
    /\ At(c, "proxies") /\ Goto(c, "services")
    /\ image' = [image EXCEPT ![Image(c)].used = {}]
    /\ UNCHANGED <<irqVars, me, smp, record, params, jobs, inside>>

Free(i) == Slots \ image[i].used

(* The boot core makes proxies for another machine's objects, the other    *)
(* cores for the boot core's.                                              *)
Target(c, service) == <<IF c = Bsp THEN "routed" ELSE "local", service>>

CreateProxyLast(c, service) ==
    LET i == Image(c)
        s == MaxProxies
    IN  /\ image' = [image EXCEPT ![i].slot[s] = Target(c, service), ![i].used = @ \cup {s}]
        /\ Set(c, [me[c] EXCEPT !.handle[service] = s])

(* create_proxy_common: the first unused slot; none when the table is full.*)
CreateProxy(c, service) ==
    LET i == Image(c) IN
    \E s \in Slots \cup {0} :
       /\ IF s = 0 THEN Free(i) = {} ELSE s \in Free(i) /\ \A x \in Free(i) : s <= x
       /\ image' = IF s = 0 THEN image
                   ELSE [image EXCEPT ![i].slot[s] = Target(c, service), ![i].used = @ \cup {s}]
       /\ Set(c, [me[c] EXCEPT !.handle[service] = s])

(* The mutex and memory managers: made by the boot core, reached through a *)
(* proxy by the others.                                                    *)
Services(c) ==
    /\ At(c, "services") /\ Goto(c, "scheduler")
    /\ IF c = Bsp THEN UNCHANGED <<image, me>> ELSE CreateProxy(c, "mutex")
    /\ UNCHANGED <<irqVars, smp, record, params, jobs, inside>>

(* The cluster scheduler: local, of another machine, or the boot core's.   *)
(* The boot core then configures its interrupts a first time.              *)
Scheduler(c) ==
    /\ At(c, "scheduler")
    /\ IF c # Bsp THEN CreateProxy(c, "sched") /\ Goto(c, IF X86 THEN "topo" ELSE "join")
       ELSE /\ Goto(c, "early")
            /\ IF hw.net THEN CreateProxy(c, "sched") ELSE UNCHANGED <<image, me>>
    /\ UNCHANGED <<irqVars, smp, record, params, jobs, inside>>

Early(c) ==
    /\ At(c, "early") /\ Goto(c, "irq.clear")
    /\ Set(c, [me[c] EXCEPT !.ret = IF X86 THEN "topo" ELSE "join"])
    /\ UNCHANGED <<irqVars, bootVars>>

(* Join the cluster, find the serial resource, submit this core's jobs.    *)
Join(c) ==
    /\ At(c, "join") /\ Goto(c, "run")
    /\ IF c = Bsp /\ ~ hw.net THEN UNCHANGED <<image, me>>
       ELSE CreateProxy(c, "serial")
    /\ jobs' = [jobs EXCEPT ![c] = @ \cup IF hw.found THEN {"timer", "smp", "rest"} ELSE {"rest"}]
    /\ UNCHANGED <<irqVars, smp, record, params, inside>>
-----------------------------------------------------------------------------
(* The priorities 100, 95, 90 and the rest of the jobs.                    *)
First(S) == IF "timer" \in S THEN "timer" ELSE IF "greet" \in S THEN "greet"
            ELSE IF "smp" \in S THEN "smp" ELSE "rest"

(* scheduler_run: the highest job of this core, or wait.                   *)
RunJob(c) ==
    /\ At(c, "run") /\ jobs[c] # {}
    /\ LET j == First(jobs[c])
       IN  /\ jobs' = [jobs EXCEPT ![c] = @ \ {j}]
           /\ Goto(c, IF j = "timer" THEN "timer.lock"
                      ELSE IF j = "smp" /\ c = Bsp THEN "smp" ELSE "run")
           /\ Set(c, IF j = "greet" THEN [me[c] EXCEPT !.greeted = TRUE] ELSE me[c])
    /\ UNCHANGED <<irqVars, image, smp, record, params, inside>>

Wait(c) ==
    /\ At(c, "run") /\ jobs[c] = {} /\ Goto(c, "idle")
    /\ UNCHANGED <<irqVars, me, bootVars>>

LockUntested(c) ==
    /\ At(c, "timer.lock")
    /\ inside' = [inside EXCEPT ![HwMutex] = @ \cup {c}] /\ Goto(c, "irq.clear")
    /\ Set(c, [me[c] EXCEPT !.ret = IF c # Bsp THEN "unlock" ELSE IF X86 THEN "cal" ELSE "timer"])
    /\ UNCHANGED <<irqVars, image, smp, record, params, jobs>>

(* job_timer_bringup takes the hardware mutex: hw_mutex_lock panics        *)
(* without a core_state, and waits for an interrupt when the mutex is      *)
(* taken.                                                                  *)
Lock(c) ==
    /\ At(c, "timer.lock")
    /\ \/ ~ cpu[c].state /\ Goto(c, "panic") /\ UNCHANGED <<me, inside>>
       \/ cpu[c].state /\ inside[HwMutex] # {} /\ Goto(c, "lock.wfi") /\ UNCHANGED <<me, inside>>
       \/ /\ cpu[c].state /\ Mutex!Enter(c, HwMutex) /\ Goto(c, "irq.clear")
          /\ Set(c, [me[c] EXCEPT !.ret = IF c # Bsp THEN "unlock"
                                          ELSE IF X86 THEN "cal" ELSE "timer"])
    /\ UNCHANGED <<irqVars, image, smp, record, params, jobs>>

UnlockForgotten(c) ==
    /\ At(c, "unlock") /\ Goto(c, IF c = Bsp THEN "signal" ELSE "timer")
    /\ UNCHANGED <<irqVars, me, bootVars>>

(* The boot core starts its timer inside, the others outside.              *)
Unlock(c) ==
    /\ At(c, "unlock") /\ Mutex!Leave(c, HwMutex)
    /\ Goto(c, IF c = Bsp THEN "signal" ELSE "timer")
    /\ UNCHANGED <<irqVars, me, image, smp, record, params, jobs>>
-----------------------------------------------------------------------------
(* smp_bring_up_all gives up: no image to start a core with; on aarch64    *)
(* also no boot allocator for a shared image, or no usable PSCI.           *)
SmpGivesUp ==
    \/ hw.image = "none"
    \/ ~ X86 /\ (~ hw.psci \/ (hw.image = "shared" /\ hw.heap = 0))

SmpStart ==
    /\ At(Bsp, "smp") /\ Goto(Bsp, IF SmpGivesUp THEN "run" ELSE "smp.next")
    /\ UNCHANGED <<irqVars, me, bootVars>>

Entry == hw.order[smp.next]
Count == image[Image(Bsp)].count
Wanted == smp.next <= Count /\ Entry.enabled /\ Entry.core # Bsp

SmpDone ==
    /\ At(Bsp, "smp.next") /\ smp.next > Count /\ Goto(Bsp, "run")
    /\ UNCHANGED <<irqVars, me, bootVars>>

SmpSkip ==
    /\ At(Bsp, "smp.next") /\ smp.next <= Count /\ ~ Wanted
    /\ smp' = [smp EXCEPT !.next = @ + 1]
    /\ UNCHANGED <<irqVars, pc, me, image, record, params, jobs, inside>>

(* The context for one core is complete, or the core is passed over; what  *)
(* was taken for it is not given back.                                     *)
Prepared(ok, heap, slices) ==
    /\ At(Bsp, "smp.next") /\ Wanted
    /\ smp' = [next |-> IF ok THEN smp.next ELSE smp.next + 1, region |-> smp.region + 1,
               heap |-> heap, slices |-> slices]
    /\ Goto(Bsp, IF ok THEN "smp.record" ELSE "smp.next")
    /\ UNCHANGED <<irqVars, me, image, record, params, jobs, inside>>

Claimed == smp.region + 1 \notin hw.refused

(* x86_64: a fixed region, claimed, and an image that fits it.             *)
SmpContextX86 == X86 /\ Prepared(Claimed /\ hw.fits, smp.heap, smp.slices)

(* aarch64, copied image: a region, then a core_state from the boot heap   *)
(* or else from a slice, and an image that fits.                           *)
SmpContextArm ==
    /\ ~ X86 /\ hw.image = "copied"
    /\ \/ ~ Claimed /\ Prepared(FALSE, smp.heap, smp.slices)
       \/ Claimed /\ smp.heap > 0 /\ Prepared(hw.fits, smp.heap - 1, smp.slices)
       \/ Claimed /\ smp.heap = 0 /\ smp.slices > 0 /\ Prepared(hw.fits, 0, smp.slices - 1)
       \/ Claimed /\ smp.heap = 0 /\ smp.slices = 0 /\ Prepared(FALSE, 0, 0)

(* Shared image: a handoff, a stack and a core_state from the boot heap.   *)
SmpContextShared ==
    /\ hw.image = "shared"
    /\ Prepared(smp.heap >= 3, IF smp.heap >= 3 THEN smp.heap - 3 ELSE 0, smp.slices)

Record(next, cal, state) ==
    /\ At(Bsp, "smp.record") /\ Goto(Bsp, next)
    /\ record' = [record EXCEPT ![smp.region] =
                     [owner |-> Entry.core, services |-> TRUE, cal |-> cal, state |-> state]]
    /\ UNCHANGED <<irqVars, me, image, smp, params, jobs, inside>>

(* The kernel's copy and the discovery record; only aarch64 leaves a       *)
(* core_state in it.                                                       *)
SmpRecordX86 == X86 /\ Record("smp.params", me[Bsp].cal, FALSE)

SmpRecordArm == ~ X86 /\ hw.image = "copied" /\ Record("smp.greet", me[Bsp].cal, TRUE)

(* The handoff of a shared image.                                          *)
SmpHandoff == hw.image = "shared" /\ Record("smp.greet", me[Bsp].cal, TRUE)

SmpParamsAtOnce ==
    /\ At(Bsp, "smp.params") /\ Goto(Bsp, "smp.greet")
    /\ params' = [stack |-> smp.region, region |-> smp.region]
    /\ UNCHANGED <<irqVars, me, image, smp, record, jobs, inside>>

(* One parameter block serves all cores: the delays of send_init_sipi_sipi *)
(* are what lets a core leave the trampoline before the block is written   *)
(* for the next one.                                                       *)
SmpParams ==
    /\ At(Bsp, "smp.params") /\ Goto(Bsp, "smp.greet")
    /\ \A a \in Aps : pc[a] \notin {"reset", "trampoline", "trampoline.jump"}
    /\ params' = [stack |-> smp.region, region |-> smp.region]
    /\ UNCHANGED <<irqVars, me, image, smp, record, jobs, inside>>

(* The greeting is queued before the core can look for it.                 *)
SmpGreet ==
    /\ At(Bsp, "smp.greet") /\ Goto(Bsp, IF X86 THEN "smp.init" ELSE "smp.on")
    /\ jobs' = [jobs EXCEPT ![Entry.core] = @ \cup {"greet"}]
    /\ UNCHANGED <<irqVars, me, image, smp, record, params, inside>>

(* PSCI CPU_ON, with the region or the handoff as its context.             *)
SmpCpuOn ==
    /\ At(Bsp, "smp.on")
    /\ IF Entry.core \in hw.denied THEN Goto(Bsp, "smp.next") /\ UNCHANGED me
       ELSE /\ pc' = [pc EXCEPT ![Bsp] = "smp.next", ![Entry.core] = "start"]
            /\ Set(Entry.core, [me[Entry.core] EXCEPT !.region = smp.region, !.stack = smp.region])
    /\ smp' = [smp EXCEPT !.next = @ + 1]
    /\ UNCHANGED <<irqVars, image, record, params, jobs, inside>>

Send(kind) == icr' = [icr EXCEPT ![Bsp] = [kind |-> kind, to |-> Entry.core]]

(* send_init_sipi_sipi: each message after the one before it is gone.      *)
SmpIpi(at, kind, next) ==
    /\ At(Bsp, at) /\ icr[Bsp] = Idle /\ Send(kind) /\ Goto(Bsp, next)
    /\ smp' = IF kind = "sipi2" THEN [smp EXCEPT !.next = @ + 1] ELSE smp
    /\ UNCHANGED <<hw, cpu, table, router, me, image, record, params, jobs, inside>>

(* The Local APIC delivers its message.  A core may miss the first SIPI.   *)
IcrDelivered(c) ==
    /\ icr[c] # Idle /\ icr' = [icr EXCEPT ![c] = Idle]
    /\ LET m == icr[c]
       IN  \/ m.kind = "signal" /\ Cpu(c, [cpu[c] EXCEPT !.signal = TRUE]) /\ UNCHANGED pc
           \/ m.kind = "init" /\ Goto(m.to, "reset") /\ Cpu(m.to, Reset)
           \/ /\ m.kind \in {"sipi1", "sipi2"} /\ pc[m.to] = "reset"
              /\ Goto(m.to, "trampoline") /\ UNCHANGED cpu
           \/ m.kind = "sipi1" /\ UNCHANGED <<pc, cpu>>
           \/ m.kind = "sipi2" /\ pc[m.to] # "reset" /\ UNCHANGED <<pc, cpu>>
    /\ UNCHANGED <<hw, table, router, me, bootVars>>

(* ap_trampoline: to long mode, the stack, then the entry and the region.  *)
Trampoline(c) ==
    /\ pc[c] = "trampoline" /\ Goto(c, "trampoline.jump")
    /\ Set(c, [me[c] EXCEPT !.stack = params.stack])
    /\ UNCHANGED <<irqVars, bootVars>>

TrampolineJump(c) ==
    /\ pc[c] = "trampoline.jump" /\ Goto(c, "start")
    /\ Set(c, [me[c] EXCEPT !.region = params.region])
    /\ UNCHANGED <<irqVars, bootVars>>
-----------------------------------------------------------------------------
SmpStep ==
    \/ SmpStart \/ SmpDone \/ SmpSkip \/ SmpContextX86 \/ SmpContextArm \/ SmpContextShared
    \/ SmpRecordX86 \/ SmpRecordArm \/ SmpHandoff \/ SmpParams \/ SmpGreet \/ SmpCpuOn
    \/ SmpIpi("smp.init", "init", "smp.sipi") \/ SmpIpi("smp.sipi", "sipi1", "smp.sipi2")
    \/ SmpIpi("smp.sipi2", "sipi2", "smp.next")

CoreStep(c) ==
    \/ CoreState(c) \/ TopoClear(c) \/ TopoFill(c) \/ ProxyInit(c) \/ Services(c) \/ Scheduler(c)
    \/ Early(c) \/ Join(c) \/ RunJob(c) \/ Wait(c) \/ Lock(c) \/ Unlock(c)
    \/ Trampoline(c) \/ TrampolineJump(c)
    \/ IrqStep(c) /\ UNCHANGED bootVars

Hardware(c) == (TimerTick(c) \/ SignalTaken(c)) /\ UNCHANGED bootVars

Pit == PitTick /\ UNCHANGED bootVars

Next ==
    \/ SmpStep \/ Pit
    \/ \E c \in Cores : CoreStep(c) \/ Hardware(c) \/ IcrDelivered(c)

Spec == Init /\ [][Next]_vars

(* A core executes, its timer and the PIT tick, and a Local APIC sends.    *)
FairSpec ==
    /\ Spec /\ WF_vars(SmpStep) /\ WF_vars(Pit)
    /\ \A c \in Cores : /\ WF_vars(CoreStep(c)) /\ WF_vars(IcrDelivered(c))
                        /\ WF_vars(TimerTick(c) /\ UNCHANGED bootVars)
                        /\ WF_vars(SignalTaken(c) /\ UNCHANGED bootVars)
-----------------------------------------------------------------------------
Running(c) == pc[c] \notin {"off", "reset", "trampoline", "trampoline.jump"}

(* An AP enters coreinit_main on its own stack, with its own region and a  *)
(* complete discovery record of its own (services, calibration on x86_64,  *)
(* core_state on aarch64): one trampoline parameter block, one region      *)
(* counter and one boot heap serve all of them (smp_bring_up_all).         *)
HandoffIntact ==
    \A a \in Aps : Running(a) =>
        /\ me[a].stack = me[a].region
        /\ record[me[a].region] = [owner |-> a, services |-> TRUE, cal |-> X86, state |-> ~ X86]

(* proxy.h: a proxy is an object "whose handler just forwards whatever it  *)
(* receives to the real remote target".  No later proxy_init or            *)
(* create_proxy, of any core, makes a handle forward to something else.    *)
ProxiesForward ==
    \A c \in Cores : \A s \in DOMAIN me[c].handle :
        me[c].handle[s] # 0 => image[Image(c)].slot[me[c].handle[s]] = Target(c, s)

(* The mutex keeps the cores' configurations of the PIC and the PIT, or of *)
(* the GIC distributor, apart, and no core is inside while another one     *)
(* configures outside, as the boot core's first irq_core_init does.        *)
Configures(c) == pc[c] \in {"irq.clear", "irq.load", "irq.mask", "irq.unmask", "irq.route", "irq.redist",
                           "irq.enable", "cal"}

ConfiguresAlone ==
    \A c, d \in Cores : c # d /\ Configures(c) => ~ Configures(d) /\ d \notin inside[HwMutex]

(* The ways for a core to stop: an x86_64 core has lost its core_state or  *)
(* never had one; IRQ0 met an empty gate in the boot core's second         *)
(* irq_core_init; a core that takes no interrupts yet lost the mutex and   *)
(* sleeps on after it is free, or waits for a signal although              *)
(* irq_core_init found no GIC for it.                                      *)
Stuck(c) ==
    \/ pc[c] = "panic" /\ X86 /\ (c = Bsp => ~ hw.gsKept)
    \/ pc[c] = "fault" /\ X86 /\ c = Bsp /\ ~ cpu[c].armed
    \/ pc[c] = "lock.wfi" /\ c # Bsp /\ ~ cpu[c].on /\ inside[HwMutex] = {}
    \/ pc[c] = "test.wfi" /\ ~ cpu[c].ready /\ (hw.gic = "none" \/ c \notin hw.redist)

Listed(a) == \E i \in DOMAIN hw.order : hw.order[i] = [core |-> a, enabled |-> TRUE]

(* What keeps smp_bring_up_all from starting a core it found.              *)
Hindered(a) ==
    \/ ~ hw.found \/ SmpGivesUp \/ a \in hw.denied \/ Stuck(Bsp)
    \/ hw.image = "shared" /\ hw.heap < 3 * Cardinality({x \in Aps : Listed(x)})
    \/ hw.image = "copied" /\ (hw.refused # {} \/ ~ hw.fits)
    \/ hw.image = "copied" /\ ~ X86 /\ hw.heap + hw.slices < Cardinality({x \in Aps : Listed(x)})

Done(c) ==
    /\ pc[c] \in {"run", "idle"} /\ jobs[c] = {} /\ (c # Bsp => me[c].greeted)
    /\ hw.found => me[c].verdict = IF c \in hw.far THEN "fail" ELSE "pass"

(* Every core that discovery lists is brought up, runs all its boot jobs,  *)
(* the boot core's greeting among them, and passes the signal's self-test  *)
(* if the GIC can address it, or it stops in one of the ways of Stuck.     *)
BootEnds ==
    /\ <>(Done(Bsp) \/ Stuck(Bsp))
    /\ \A a \in Aps : <>(Done(a) \/ Stuck(a) \/ Hindered(a) \/ ~ Listed(a))

(* irq_aarch64.c: "A pending level IRQ without a handler otherwise         *)
(* livelocks this core immediately on EOI".  A core whose handler table is *)
(* emptied under it by another core's irq_core_init gets out again.        *)
TimerServed == \A c \in Cores : cpu[c].storm /\ ~ X86 ~> ~ cpu[c].storm
=============================================================================

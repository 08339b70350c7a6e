----------------------------- MODULE Interrupts -----------------------------
(***************************************************************************)
(* A core's interrupts: irq_core_init, the timer and the cross-core        *)
(* signal, for x86_64 (IDT gates, the 8259 PIC and the PIT, the Local      *)
(* APIC) and aarch64 (the EL1 vector's handler table, GICv2 or GICv3, the  *)
(* generic timer).  Boot composes it with what coreinit_main does around   *)
(* it.                                                                     *)
(*                                                                         *)
(* hw is the machine.  cpu holds what belongs to one core, in its          *)
(* registers or in its struct core_state.  The handler table belongs to an *)
(* image: on aarch64 g_irq_handlers is a static, so the cores of a shared  *)
(* image have one table; on x86_64 the gates are in core_state.  router is *)
(* the hardware all cores share: IRQ0 unmasked at the PIC, or the GIC      *)
(* distributor forwarding.                                                 *)
(*                                                                         *)
(* An interrupt that can be delivered is taken before the next instruction *)
(* of its core (CanRun).  A timer tick whose handler runs only wakes the   *)
(* core, so it is a step only then; storm records a tick that found no     *)
(* handler.                                                                *)
(***************************************************************************)
EXTENDS Integers, FiniteSets

CONSTANTS
    Cores, Bsp,
    CalTicks,    \* PIT ticks of lapic_timer_calibrate, 5 in the code
    MaxSpins     \* waits of the signal's self-test, 1000 in the code

VARIABLES
    hw,      \* the machine, chosen at the start
    cpu,     \* per core: registers and core_state
    table,   \* per image: the lines that have a handler
    router,
    icr,     \* per core: the message its Local APIC is sending
    pc, me   \* what each core is doing, and its local variables

irqVars == <<hw, cpu, table, router, icr>>

X86 == hw.arch = "x86"

(* The image whose statics a core uses.                                    *)
Image(c) == IF hw.image = "shared" THEN Bsp ELSE c

Reset == [state |-> FALSE, on |-> FALSE, ready |-> FALSE, enabled |-> {},
          armed |-> FALSE, storm |-> FALSE, signal |-> FALSE, seen |-> FALSE]

Idle == [kind |-> "idle"]

Goto(c, label) == pc' = [pc EXCEPT ![c] = label]
Set(c, r) == me' = [me EXCEPT ![c] = r]
Cpu(c, r) == cpu' = [cpu EXCEPT ![c] = r]
Install(c, line) == table' = [table EXCEPT ![Image(c)] = @ \cup {line}]
-----------------------------------------------------------------------------
(* Whether a line reaches its core: through an enabled Local APIC, or      *)
(* through the distributor, the core's enable bit and its CPU interface.   *)
Reaches(c, line) ==
    /\ cpu[c].on /\ cpu[c].ready
    /\ X86 \/ (router /\ line \in cpu[c].enabled)

Handled(c, line) == line \in table[Image(c)]

CanRun(c) == ~ (Reaches(c, "timer") /\ cpu[c].storm) /\ ~ (Reaches(c, "signal") /\ cpu[c].signal)

At(c, label) == pc[c] = label /\ CanRun(c)

(* hlt and wfi end with the interrupt; the panic loops wait again.         *)
Woken(label) == CASE label = "lock.wfi" -> "timer.lock"
                  [] label = "test.wfi" -> "test"
                  [] label = "idle" -> "run"
                  [] OTHER -> label

Wake(c) == Goto(c, Woken(pc[c]))
-----------------------------------------------------------------------------
(* isr_irq0: IRQ0 of the PIC is wired to the boot core.  A tick that finds *)
(* no gate raises an exception that has no gate either.  Ticks count while *)
(* the boot core calibrates.                                               *)
PitTick ==
    /\ X86 /\ router /\ cpu[Bsp].on
    /\ \/ /\ Handled(Bsp, "pit")
          /\ Wake(Bsp)
          /\ Set(Bsp, IF pc[Bsp] = "cal" /\ me[Bsp].spins <= CalTicks
                      THEN [me[Bsp] EXCEPT !.spins = @ + 1] ELSE me[Bsp])
       \/ /\ ~ Handled(Bsp, "pit") /\ Goto(Bsp, "fault") /\ UNCHANGED me
    /\ UNCHANGED irqVars

(* isr_lapic_timer.  A Local APIC sends its message in far less than a     *)
(* timer period.                                                           *)
LapicTick(c) ==
    /\ X86 /\ cpu[c].armed /\ Reaches(c, "timer") /\ icr[c] = Idle
    /\ IF Handled(c, "timer") THEN Wake(c) ELSE Goto(c, "fault")
    /\ UNCHANGED <<irqVars, me>>

(* isr_arm_timer re-arms the timer.                                        *)
ArmTick(c) ==
    /\ ~ X86 /\ cpu[c].armed /\ Reaches(c, "timer") /\ Handled(c, "timer")
    /\ Wake(c) /\ Cpu(c, [cpu[c] EXCEPT !.storm = FALSE])
    /\ UNCHANGED <<hw, table, router, icr, me>>

(* irq_aarch64_dispatch finds no handler: the level stays, and asserts     *)
(* again as soon as the interrupt is ended.                                *)
ArmTickUnhandled(c) ==
    /\ ~ X86 /\ cpu[c].armed /\ Reaches(c, "timer") /\ ~ Handled(c, "timer")
    /\ Wake(c) /\ Cpu(c, [cpu[c] EXCEPT !.storm = TRUE])
    /\ UNCHANGED <<hw, table, router, icr, me>>

(* cross_core_signal_test_handler.                                         *)
Seen(c) == Cpu(c, [cpu[c] EXCEPT !.signal = FALSE,
                                 !.seen = @ \/ (Handled(c, "signal") /\ cpu[c].state)])

(* isr_cross_core_signal.                                                  *)
IpiTaken(c) ==
    /\ X86 /\ cpu[c].signal /\ Reaches(c, "signal")
    /\ Seen(c) /\ IF Handled(c, "signal") THEN Wake(c) ELSE Goto(c, "fault")
    /\ UNCHANGED <<hw, table, router, icr, me>>

(* irq_aarch64_dispatch ends an SGI whether or not it has a handler.       *)
SgiTaken(c) ==
    /\ ~ X86 /\ cpu[c].signal /\ Reaches(c, "signal")
    /\ Seen(c) /\ Wake(c)
    /\ UNCHANGED <<hw, table, router, icr, me>>
-----------------------------------------------------------------------------
(* irq_core_init on x86_64.  It empties the IDT, which may be in use.      *)
IdtClear(c) ==
    /\ X86 /\ At(c, "irq.clear") /\ Goto(c, "irq.load")
    /\ table' = [table EXCEPT ![Image(c)] = {}]
    /\ UNCHANGED <<hw, cpu, router, icr, me>>

(* The gates of IRQ0 and IRQ1, lidt, and setup_tss_and_ist, which loads    *)
(* every data segment register: a load of %gs writes IA32_GS_BASE, where   *)
(* core_state_set keeps the core's pointer.                                *)
IdtLoad(c) ==
    /\ X86 /\ At(c, "irq.load") /\ Goto(c, "irq.mask")
    /\ Install(c, "pit")
    /\ Cpu(c, [cpu[c] EXCEPT !.state = @ /\ hw.gsKept])
    /\ UNCHANGED <<hw, router, icr, me>>

(* pic_remap masks every line.                                             *)
PicRemap(c) ==
    /\ At(c, "irq.mask") /\ Goto(c, "irq.unmask")
    /\ router' = FALSE
    /\ UNCHANGED <<hw, cpu, table, icr, me>>

(* pit_init, IRQ0 unmasked, sti.                                           *)
PicUnmask(c) ==
    /\ At(c, "irq.unmask") /\ Goto(c, me[c].ret)
    /\ router' = TRUE /\ Cpu(c, [cpu[c] EXCEPT !.on = TRUE])
    /\ UNCHANGED <<hw, table, icr, me>>

(* irq_core_init on aarch64.  It empties the image's handler table, and    *)
(* stops there without a GIC or a core_state.                              *)
HandlersClear(c) ==
    /\ ~ X86 /\ At(c, "irq.clear")
    /\ table' = [table EXCEPT ![Image(c)] = {}]
    /\ Goto(c, IF hw.gic = "none" \/ ~ cpu[c].state THEN me[c].ret ELSE "irq.load")
    /\ UNCHANGED <<hw, cpu, router, icr, me>>

(* The vector base; gic_distributor_init turns the distributor off and     *)
(* clears the enables, of which GICv2 keeps a bank for this core.          *)
DistributorOff(c) ==
    /\ ~ X86 /\ At(c, "irq.load") /\ Goto(c, "irq.route")
    /\ router' = FALSE
    /\ Cpu(c, [cpu[c] EXCEPT !.enabled = IF hw.gic = "v2" THEN {} ELSE @])
    /\ UNCHANGED <<hw, table, icr, me>>

(* Groups, priorities, and the distributor on.                             *)
DistributorOn(c) ==
    /\ At(c, "irq.route") /\ Goto(c, IF hw.gic = "v3" THEN "irq.redist" ELSE "irq.enable")
    /\ router' = TRUE
    /\ UNCHANGED <<hw, cpu, table, icr, me>>

(* GICv3: the redistributor of this affinity.  Without one that wakes up,  *)
(* irq_core_init ends with interrupts masked.                              *)
Redistributor(c) ==
    /\ At(c, "irq.redist")
    /\ \/ c \in hw.redist /\ Goto(c, "irq.enable") /\ Cpu(c, [cpu[c] EXCEPT !.enabled = {}])
       \/ c \notin hw.redist /\ Goto(c, me[c].ret) /\ UNCHANGED cpu
    /\ UNCHANGED <<hw, table, router, icr, me>>

(* gic_cpu_interface_init, and DAIF.                                       *)
CpuInterface(c) ==
    /\ At(c, "irq.enable") /\ Goto(c, me[c].ret)
    /\ Cpu(c, [cpu[c] EXCEPT !.on = TRUE, !.ready = TRUE])
    /\ UNCHANGED <<hw, table, router, icr, me>>
-----------------------------------------------------------------------------
(* lapic_timer_calibrate: one tick to synchronise, CalTicks to measure,    *)
(* then IRQ0 is masked.                                                    *)
Calibrate(c) ==
    /\ At(c, "cal") /\ me[c].spins > CalTicks
    /\ Goto(c, "timer") /\ Set(c, [me[c] EXCEPT !.spins = 0, !.cal = TRUE])
    /\ router' = FALSE
    /\ UNCHANGED <<hw, cpu, table, icr>>

AfterTimer(c) == IF c = Bsp THEN "unlock" ELSE "signal"

(* lapic_timer_start: the gate, then the Local APIC and its timer, and sti.*)
LapicInstall(c) ==
    /\ X86 /\ At(c, "timer") /\ Goto(c, "timer.arm")
    /\ Install(c, "timer")
    /\ UNCHANGED <<hw, cpu, router, icr, me>>

LapicArm(c) ==
    /\ X86 /\ At(c, "timer.arm") /\ Goto(c, AfterTimer(c))
    /\ Cpu(c, [cpu[c] EXCEPT !.armed = TRUE, !.ready = TRUE, !.on = TRUE])
    /\ UNCHANGED <<hw, table, router, icr, me>>

(* irq_install_handler on aarch64: the image's table, and the core's       *)
(* enable bit, in its redistributor or in the distributor.                 *)
GicInstall(c, line) ==
    /\ Install(c, line)
    /\ Cpu(c, [cpu[c] EXCEPT !.enabled = IF hw.gic = "none" THEN @ ELSE @ \cup {line}])

ArmInstallBootOnly(c) ==
    /\ ~ X86 /\ At(c, "timer")
    /\ IF ~ cpu[c].state THEN Goto(c, "panic") /\ UNCHANGED <<table, cpu>>
       ELSE /\ Goto(c, "timer.arm")
            /\ IF c = Bsp THEN GicInstall(c, "timer")
               ELSE Cpu(c, [cpu[c] EXCEPT !.enabled = @ \cup {"timer"}]) /\ UNCHANGED table
    /\ UNCHANGED <<hw, router, icr, me>>

(* timer_core_init on aarch64: panic without a core_state, the handler,    *)
(* then CNTP_CTL.                                                          *)
ArmInstall(c) ==
    /\ ~ X86 /\ At(c, "timer")
    /\ IF ~ cpu[c].state THEN Goto(c, "panic") /\ UNCHANGED <<table, cpu>>
       ELSE Goto(c, "timer.arm") /\ GicInstall(c, "timer")
    /\ UNCHANGED <<hw, router, icr, me>>

ArmArm(c) ==
    /\ ~ X86 /\ At(c, "timer.arm") /\ Goto(c, AfterTimer(c))
    /\ Cpu(c, [cpu[c] EXCEPT !.armed = TRUE])
    /\ UNCHANGED <<hw, table, router, icr, me>>
-----------------------------------------------------------------------------
(* cross_core_signal_install_handler.                                      *)
IpiInstall(c) ==
    /\ X86 /\ At(c, "signal") /\ Goto(c, "send")
    /\ Install(c, "signal")
    /\ UNCHANGED <<hw, cpu, router, icr, me>>

SgiInstall(c) ==
    /\ ~ X86 /\ At(c, "signal") /\ Goto(c, "send")
    /\ GicInstall(c, "signal")
    /\ UNCHANGED <<hw, router, icr, me>>

(* The self-test forgets an earlier signal and sends one to this core      *)
(* (cross_core_signal_send): an x86_64 core waits until its ICR is idle,   *)
(* an aarch64 core cannot address one beyond the target list.              *)
IpiSend(c) ==
    /\ X86 /\ At(c, "send") /\ icr[c] = Idle /\ Goto(c, "test")
    /\ icr' = [icr EXCEPT ![c] = [kind |-> "signal", to |-> c]]
    /\ Cpu(c, [cpu[c] EXCEPT !.seen = FALSE])
    /\ UNCHANGED <<hw, table, router, me>>

SgiSend(c) ==
    /\ ~ X86 /\ At(c, "send") /\ Goto(c, "test")
    /\ Cpu(c, [cpu[c] EXCEPT !.seen = FALSE, !.signal = hw.gic # "none" /\ c \notin hw.far])
    /\ UNCHANGED <<hw, table, router, icr, me>>

(* Wait for an interrupt and look again, MaxSpins times; then the irq      *)
(* manager and tick counter objects are made and the timer is bound.       *)
SignalTest(c) ==
    /\ At(c, "test")
    /\ \/ /\ ~ cpu[c].seen /\ me[c].spins < MaxSpins
          /\ Goto(c, "test.wfi") /\ Set(c, [me[c] EXCEPT !.spins = @ + 1])
       \/ /\ cpu[c].seen \/ me[c].spins = MaxSpins
          /\ Goto(c, "run")
          /\ Set(c, [me[c] EXCEPT !.verdict = IF cpu[c].seen THEN "pass" ELSE "fail"])
    /\ UNCHANGED irqVars

IrqStep(c) ==
    \/ IdtClear(c) \/ IdtLoad(c) \/ PicRemap(c) \/ PicUnmask(c)
    \/ HandlersClear(c) \/ DistributorOff(c) \/ DistributorOn(c) \/ Redistributor(c) \/ CpuInterface(c)
    \/ Calibrate(c) \/ LapicInstall(c) \/ LapicArm(c) \/ ArmInstall(c) \/ ArmArm(c)
    \/ IpiInstall(c) \/ SgiInstall(c) \/ IpiSend(c) \/ SgiSend(c) \/ SignalTest(c)

TimerTick(c) == LapicTick(c) \/ ArmTick(c) \/ ArmTickUnhandled(c)

SignalTaken(c) == IpiTaken(c) \/ SgiTaken(c)
=============================================================================

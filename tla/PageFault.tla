----------------------------- MODULE PageFault -----------------------------
(***************************************************************************)
(* Fault-driven STREAM and COW memory (job_memory.c and the two backends   *)
(* pagefault_x86_64.c and pagefault_aarch64.c).  A core that acquires a    *)
(* slice another core owns splits the 2 MiB region around it into pages in *)
(* its OWN page tables and marks the slice's pages absent (STREAM) or      *)
(* read-only (COW); the first access that the entry forbids traps, the     *)
(* handler repairs the entry, and the instruction is retried.              *)
(*                                                                         *)
(* A page is its number; a frame is Shared(p), the memory at p's own       *)
(* address, or <<core, i>>, the i-th page of a core's copy pool. Each core *)
(* has ONE page table for split regions, which is what the source has      *)
(* (pf_split_pt, pf_l3).  Both backends are explored: the architecture is  *)
(* chosen, with the slices that exist, in the initial state.               *)
(***************************************************************************)
EXTENDS Integers, Sequences, SequencesExt

CONSTANTS
    Cores,          \* cores, each with its own page tables
    PagesPerRegion, \* 512 in the source
    Pages,          \* the page numbers there are
    Machines,       \* the architectures with the slices that exist there
    MaxStreamed,    \* MAX_STREAMED_PAGES
    MaxCow,         \* MAX_COW_PAGES
    CowPool,        \* COW_POOL_SIZE
    Values,         \* what may be written to a page
    Blank,          \* what it contains before
    None

VARIABLES
    arch,     \* "x86_64" or "aarch64"
    slices,   \* the resources: [first, pages, sync, owner]
    pf,       \* per core: struct core_state's pf_ fields
    mem,      \* contents of every frame
    acquired, \* per core: slices job_memory_acquire_resource returned 1 for
    access,   \* per core: the instruction being executed, or None
    halted,   \* per core: stopped by an unhandled fault
    wrote     \* per core: the value it last wrote to a COW page of another core

vars == <<arch, slices, pf, mem, acquired, access, halted, wrote>>

X86 == arch = "x86_64"
Shared(p) == <<None, p>>
Copies(c) == {c} \X (1 .. CowPool)
Frames == {Shared(p) : p \in Pages} \union UNION {Copies(c) : c \in Cores}
Region(p) == p \div PagesPerRegion
Index(p) == p % PagesPerRegion
SlicePages(s) == s.first .. s.first + s.pages - 1

Entry(f) == [frame |-> f, present |-> TRUE, writable |-> TRUE]
Identity(r) == [i \in 0 .. PagesPerRegion - 1 |-> Entry(Shared(r * PagesPerRegion + i))]

(* What core c's tables say of page p: an unsplit region is one large,     *)
(* writable identity mapping.                                              *)
Walk(c, p) ==
    IF Region(p) \in pf[c].split THEN pf[c].pt[Index(p)] ELSE Entry(Shared(p))

-----------------------------------------------------------------------------
(* The registers of streamed and of COW pages.  x86 appends every time     *)
(* there is room, and marks the page even when there is not; ARM keeps     *)
(* each page once and refuses a page it has no room for.                   *)

Register(list, p, max) ==
    IF list.count < max /\ (X86 \/ p \notin list.pages)
    THEN [pages |-> list.pages \union {p}, count |-> list.count + 1]
    ELSE list

Full(list, p, max) == ~X86 /\ p \notin list.pages /\ list.count = max

Failed(s) == [s EXCEPT !.ok = FALSE]

pagefault_mark_absent(s, p) ==
    IF ~X86 /\ (~s.pt[Index(p)].present \/ Full(s.streamed, p, MaxStreamed))
    THEN Failed(s)
    ELSE [s EXCEPT !.pt[Index(p)].present = FALSE,
                   !.streamed = Register(@, p, MaxStreamed)]

pagefault_mark_cow(s, p) ==
    IF ~s.pt[Index(p)].present \/ Full(s.cow, p, MaxCow)
    THEN Failed(s)
    ELSE [s EXCEPT !.pt[Index(p)].writable = FALSE,
                   !.cow = Register(@, p, MaxCow)]

(* Mutant: without the test for a large page a region is split again.      *)
CanSplitAgain(s, r) == X86 \/ s.split = {}

(* x86 splits any region that is still one large page; ARM splits one      *)
(* region per core and no other.                                           *)
CanSplit(s, r) == IF X86 THEN r \notin s.split ELSE s.split = {}

pagefault_split_region(s, r) ==
    [s EXCEPT !.split = @ \union {r}, !.pt = Identity(r)]

(* One round of job_memory_acquire_resource's loop over regions: split it  *)
(* now, or find it already split, or give up.                              *)
SplitStep(s, r) ==
    CASE ~s.ok            -> s
      [] CanSplit(s, r)   -> pagefault_split_region(s, r)
      [] r \in s.split    -> s
      [] OTHER            -> Failed(s)

MarkStep(s, p, sync) ==
    CASE ~s.ok            -> s
      [] sync = "STREAM"  -> pagefault_mark_absent(s, p)
      [] OTHER            -> pagefault_mark_cow(s, p)

Ascending(a, b) == [i \in 1 .. b - a + 1 |-> a + i - 1]

(* What acquiring slice sl does to a core's fault state: both loops run in *)
(* ascending order and stop at the first failure, undoing nothing.         *)
Prepare(s, sl) ==
    LET last == sl.first + sl.pages - 1
        cut == FoldLeft(SplitStep, [s EXCEPT !.ok = TRUE],
                        Ascending(Region(sl.first), Region(last)))
    IN  FoldLeft(LAMBDA t, p : MarkStep(t, p, sl.sync), cut, Ascending(sl.first, last))

-----------------------------------------------------------------------------
Init ==
    /\ \E m \in Machines : arch = m.arch /\ slices = m.slices
    /\ pf = [c \in Cores |->
               [split |-> {}, pt |-> Identity(0), used |-> 0, ok |-> TRUE,
                streamed |-> [pages |-> {}, count |-> 0],
                cow |-> [pages |-> {}, count |-> 0]]]
    /\ mem = [f \in Frames |-> Blank]
    /\ acquired = [c \in Cores |-> {}]
    /\ access = [c \in Cores |-> None]
    /\ halted = [c \in Cores |-> FALSE]
    /\ wrote = [c \in Cores |-> [p \in Pages |-> None]]

Idle(c) == access[c] = None /\ ~halted[c]

(* job_memory_acquire_resource.  The owner, and only the owner of a        *)
(* TRANSFER slice, uses it as it is.                                       *)
AcquireOwned(c, sl) ==
    /\ Idle(c)
    /\ sl.owner = c
    /\ acquired' = [acquired EXCEPT ![c] = @ \union {sl}]
    /\ UNCHANGED <<arch, slices, pf, mem, access, halted, wrote>>

AcquireRemote(c, sl) ==
    /\ Idle(c)
    /\ sl.owner # c
    /\ sl.sync \in {"STREAM", "COW"}
    /\ LET s == Prepare(pf[c], sl)
       IN  /\ pf' = [pf EXCEPT ![c] = [s EXCEPT !.ok = TRUE]]
           /\ acquired' = IF s.ok THEN [acquired EXCEPT ![c] = @ \union {sl}] ELSE acquired
    /\ UNCHANGED <<arch, slices, mem, access, halted, wrote>>

(* A job on core c reads, or writes v to, page p of a slice it acquired.   *)
Touch(c, sl, p, op, v) ==
    /\ Idle(c)
    /\ sl \in acquired[c]
    /\ access' = [access EXCEPT ![c] = [slice |-> sl, page |-> p, op |-> op, value |-> v]]
    /\ UNCHANGED <<arch, slices, pf, mem, acquired, halted, wrote>>

Permitted(e, op) == e.present /\ (op = "read" \/ e.writable)

(* The access goes through (hardware).                                     *)
Perform(c) ==
    /\ access[c] # None
    /\ ~halted[c]
    /\ LET a == access[c]
           e == Walk(c, a.page)
       IN  /\ Permitted(e, a.op)
           /\ IF a.op = "read"
              THEN UNCHANGED <<mem, wrote>>
              ELSE /\ mem' = [mem EXCEPT ![e.frame] = a.value]
                   /\ wrote' = IF a.slice.sync = "COW" /\ a.slice.owner # c
                               THEN [wrote EXCEPT ![c][a.page] = a.value]
                               ELSE wrote
    /\ access' = [access EXCEPT ![c] = None]
    /\ UNCHANGED <<arch, slices, pf, acquired, halted>>

(* Mutant: leaves the entry absent.                                        *)
ResolveStreamedUnset(c, p) ==
    /\ ~Walk(c, p).present
    /\ p \in pf[c].streamed.pages
    /\ UNCHANGED <<pf, mem, halted>>

(* resolve_streamed: the data is there, only the entry was missing.        *)
ResolveStreamed(c, p) ==
    /\ ~Walk(c, p).present
    /\ p \in pf[c].streamed.pages
    /\ pf' = [pf EXCEPT ![c].pt[Index(p)].present = TRUE]
    /\ UNCHANGED <<mem, halted>>

CowFault(c, p, op) ==
    LET e == Walk(c, p)
    IN  e.present /\ op = "write" /\ ~e.writable /\ p \in pf[c].cow.pages

(* Mutant: one pool for all cores, with a count per core.                  *)
ResolveCowWriteOnePool(c, p, op) ==
    /\ CowFault(c, p, op)
    /\ pf[c].used < CowPool
    /\ LET copy == <<CHOOSE d \in Cores : TRUE, pf[c].used + 1>>
       IN  /\ mem' = [mem EXCEPT ![copy] = mem[Walk(c, p).frame]]
           /\ pf' = [pf EXCEPT ![c].used = @ + 1, ![c].pt[Index(p)] = Entry(copy)]
    /\ UNCHANGED halted

(* resolve_cow_write: copy whatever the entry maps to the next page of the *)
(* core's pool, and map that page writable.                                *)
ResolveCowWrite(c, p, op) ==
    /\ CowFault(c, p, op)
    /\ pf[c].used < CowPool
    /\ LET copy == <<c, pf[c].used + 1>>
       IN  /\ mem' = [mem EXCEPT ![copy] = mem[Walk(c, p).frame]]
           /\ pf' = [pf EXCEPT ![c].used = @ + 1, ![c].pt[Index(p)] = Entry(copy)]
    /\ UNCHANGED halted

(* Mutant: with no copy left, lets the core write the shared page.         *)
CowExhaustedInPlace(c, p, op) ==
    /\ CowFault(c, p, op)
    /\ pf[c].used = CowPool
    /\ pf' = [pf EXCEPT ![c].pt[Index(p)].writable = TRUE]
    /\ UNCHANGED <<mem, halted>>

(* The pool is used up: x86 returns to the faulting instruction, which     *)
(* faults again; ARM treats the fault as unhandled.                        *)
CowExhausted(c, p, op) ==
    /\ CowFault(c, p, op)
    /\ pf[c].used = CowPool
    /\ halted' = [halted EXCEPT ![c] = ~X86]
    /\ UNCHANGED <<pf, mem>>

Unhandled(c, p, op) ==
    /\ ~CowFault(c, p, op)
    /\ Walk(c, p).present \/ p \notin pf[c].streamed.pages
    /\ halted' = [halted EXCEPT ![c] = TRUE]
    /\ UNCHANGED <<pf, mem>>

(* isr_page_fault and pagefault_aarch64_handle: the handler returns to the *)
(* instruction, which is still pending.                                    *)
Fault(c) ==
    /\ access[c] # None
    /\ ~halted[c]
    /\ LET a == access[c]
       IN  /\ ~Permitted(Walk(c, a.page), a.op)
           /\ \/ ResolveStreamed(c, a.page)
              \/ ResolveCowWrite(c, a.page, a.op)
              \/ CowExhausted(c, a.page, a.op)
              \/ Unhandled(c, a.page, a.op)
    /\ UNCHANGED <<arch, slices, acquired, access, wrote>>

Next ==
    \E c \in Cores :
        \/ \E sl \in slices :
              \/ AcquireOwned(c, sl)
              \/ AcquireRemote(c, sl)
              \/ \E p \in SlicePages(sl) :
                    \/ \E v \in Values : Touch(c, sl, p, "write", v)
                    \/ Touch(c, sl, p, "read", None)
        \/ Perform(c)
        \/ Fault(c)

Spec == Init /\ [][Next]_vars

(* A core keeps executing the instruction it is at, and the trap returns   *)
(* to it; nothing obliges a job to touch memory.                           *)
Fairness == \A c \in Cores : WF_vars(Perform(c)) /\ WF_vars(Fault(c))
FairSpec == Spec /\ Fairness

-----------------------------------------------------------------------------
(* No two pages share a frame: on every core a page is mapped to its own   *)
(* memory or to a private copy, and a private copy serves one page of one  *)
(* core.  pagefault_split_region and the copy pool must both keep it.      *)
NoAliasing ==
    \A c, d \in Cores : \A p, q \in Pages :
        Walk(c, p).frame = Walk(d, q).frame =>
            /\ p = q
            /\ c = d \/ Walk(c, p).frame = Shared(p)

(* pagefault.h's "every other node still sharing the original page is      *)
(* completely unaffected": a write to a COW slice by a core that does not  *)
(* own it never changes the shared page, nor another core's copy.          *)
CowIsolates ==
    [][\A c \in Cores :
         /\ access[c] # None
         /\ access'[c] = None
         /\ access[c].slice.sync = "COW"
         /\ access[c].slice.owner # c
         => \A f \in Frames : mem'[f] # mem[f] => f \in Copies(c)]_vars

(* What a core wrote to a COW page is what it reads there from then on,    *)
(* whatever the owner writes and however often the slice is acquired       *)
(* again: pagefault.h promises it its own private, writable copy.          *)
OwnWritesKept ==
    \A c \in Cores : \A p \in Pages :
        wrote[c][p] # None => mem[Walk(c, p).frame] = wrote[c][p]

(* A fault that cannot be resolved: a core is stopped by a fault on a page *)
(* it acquired only when one of the fixed arrays is used up, which is the  *)
(* copy pool on ARM and a page register on x86; the x86 handler with no    *)
(* copy left to give returns to the same fault.                            *)
Exhausted(c) ==
    IF X86 THEN \/ halted[c] /\ pf[c].streamed.count = MaxStreamed
                \/ halted[c] /\ pf[c].cow.count = MaxCow
                \/ pf[c].used = CowPool
    ELSE halted[c] /\ pf[c].used = CowPool

(* An access that traps is transparently retried until it goes through,    *)
(* unless a fixed array is used up.                                        *)
AccessEnds ==
    \A c \in Cores : access[c] # None ~> access[c] = None \/ Exhausted(c)
=============================================================================

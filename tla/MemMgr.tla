------------------------------- MODULE MemMgr -------------------------------
(***************************************************************************)
(* The memory manager object (coreinit/mem_mgr.c): a ledger of claimed     *)
(* physical regions with three methods, claim (a fixed base), alloc        *)
(* (first fit inside the allocatable window) and free (by base).           *)
(*                                                                         *)
(* Every method takes g_lock, does all its work and releases g_lock, so    *)
(* each is one action here.  A claim's kind is stored and never read, so   *)
(* it is left out.  Addresses are words of an AddrSpace-sized type (2^64   *)
(* in the code) and additions wrap.                                        *)
(***************************************************************************)
EXTENDS Integers, Sequences

CONSTANTS AddrSpace,    \* number of addresses, 2^64 in the code
          MaxClaims,    \* MAX_CLAIMS: entries of the ledger
          AllocMin, AllocMax,   \* the allocatable window, smp_layout.h
          Reserved,     \* sequence of <<base, size>> claimed at start-up
          ClaimArgs,    \* the <<base, size>> pairs clients claim
          Sizes         \* the sizes clients allocate

VARIABLES claims,       \* g_claims[0 .. g_claim_count - 1]
          reserved      \* how many start-up reservations were tried

memVars == <<claims, reserved>>

Addr == 0 .. (AddrSpace - 1)

Claim == [base : Addr, size : Nat \ {0}, used : BOOLEAN]

(* No caller asks for an empty region, and no fixed region (a core region  *)
(* of smp.c, a start-up reservation) reaches the end of the address space. *)
RegionArgs == {r \in Addr \X (Nat \ {0}) : r[1] + r[2] < AddrSpace}

ASSUME MemMgrAssumption ==
    /\ AddrSpace \in Nat /\ MaxClaims \in Nat
    /\ AllocMin \in Addr /\ AllocMax \in Addr /\ AllocMin <= AllocMax
    /\ Reserved \in Seq(RegionArgs)
    /\ ClaimArgs \subseteq RegionArgs
    /\ Sizes \subseteq Addr \ {0}
-----------------------------------------------------------------------------
(* uint64_t addition of two words.                                         *)
Wrap(n) == IF n < AddrSpace THEN n ELSE n - AddrSpace

End(c) == Wrap(c.base + c.size)

(* The overlap test of claim_locked and alloc_locked on [start, end).      *)
Overlaps(start, end, c) == start < End(c) /\ c.base < end

Clear(led, start, end) ==
    \A i \in DOMAIN led : led[i].used => ~ Overlaps(start, end, led[i])

(* claim_locked: the ledger after the call, unchanged when it is refused.  *)
ClaimRefused(led, base, size) ==
    ~ Clear(led, base, Wrap(base + size)) \/ Len(led) >= MaxClaims

claim_locked(led, base, size) ==
    IF ClaimRefused(led, base, size) THEN led
    ELSE Append(led, [base |-> base, size |-> size, used |-> TRUE])

CandidatesEndsOnly(led) ==
    {End(led[i]) : i \in {j \in DOMAIN led : led[j].used}}

(* alloc_locked tries ALLOC_MIN and the end of every used claim, lowest    *)
(* first, each raised to ALLOC_MIN; the first that fits is the least one.  *)
Candidates(led) ==
    {AllocMin} \cup
    { IF End(led[i]) < AllocMin THEN AllocMin ELSE End(led[i]) :
          i \in {j \in DOMAIN led : led[j].used} }

Fits(led, start, size) ==
    LET end == Wrap(start + size)
    IN  /\ end <= AllocMax /\ end >= start
        /\ Clear(led, start, end)
        /\ ~ ClaimRefused(led, start, size)

Starts(led, size) == {start \in Candidates(led) : Fits(led, start, size)}

Least(S) == {m \in S : \A x \in S : m <= x}

(* free_locked clears the first used claim with exactly this base.         *)
BasedAt(led, base) == {i \in DOMAIN led : led[i].used /\ led[i].base = base}

FreeByTruncating(led, i) == SubSeq(led, 1, i - 1)

free_locked(led, i) == [led EXCEPT ![i].used = FALSE]
-----------------------------------------------------------------------------
MemInit == claims = << >> /\ reserved = 0

(* memory_manager_init_schema runs claim_locked over the reserved regions  *)
(* in order and ignores what it returns; the object is published after it. *)
Reserve ==
    /\ reserved < Len(Reserved)
    /\ reserved' = reserved + 1
    /\ LET r == Reserved[reserved + 1]
       IN  claims' = claim_locked(claims, r[1], r[2])

Ready == reserved = Len(Reserved) /\ UNCHANGED reserved

MethodClaim(base, size) ==
    Ready /\ claims' = claim_locked(claims, base, size)

MethodAlloc(size) ==
    /\ Ready
    /\ \E base \in Least(Starts(claims, size)) :
           claims' = claim_locked(claims, base, size)

MethodAllocRejected(size) ==
    /\ Ready
    /\ Starts(claims, size) = {}
    /\ UNCHANGED claims

MethodFree(base) ==
    /\ Ready
    /\ \E i \in Least(BasedAt(claims, base)) : claims' = free_locked(claims, i)

MethodFreeRejected(base) ==
    /\ Ready
    /\ BasedAt(claims, base) = {}
    /\ UNCHANGED claims

MemNext ==
    \/ Reserve
    \/ \E r \in ClaimArgs : MethodClaim(r[1], r[2])
    \/ \E s \in Sizes : MethodAlloc(s)
    \/ \E s \in Sizes : MethodAllocRejected(s)
    \/ \E b \in Addr : MethodFree(b)
    \/ \E b \in Addr : MethodFreeRejected(b)

MemSpec == MemInit /\ [][MemNext]_memVars
-----------------------------------------------------------------------------
TypeOK == /\ claims \in Seq(Claim)
          /\ Len(claims) <= MaxClaims
          /\ reserved \in 0 .. Len(Reserved)

Cells(c) == c.base .. (c.base + c.size - 1)

Used(i) == i \in DOMAIN claims /\ claims[i].used

(* No two live claims share an address, whatever mix of fixed claims,      *)
(* first-fit allocations and frees led here (claim_locked's overlap test). *)
NoOverlap ==
    \A i, j \in DOMAIN claims :
        i # j /\ Used(i) /\ Used(j) => Cells(claims[i]) \cap Cells(claims[j]) = {}

(* The reference for alloc: the addresses of the window at which `size'    *)
(* bytes meet no live claim.                                               *)
Gaps(size) ==
    {b \in AllocMin .. (AllocMax - size) :
        \A i \in DOMAIN claims :
            Used(i) => (b .. (b + size - 1)) \cap Cells(claims[i]) = {}}

(* alloc_locked's candidate list is enough: as long as the ledger has room *)
(* it finds a place exactly when some gap exists, and the place it takes   *)
(* is the lowest gap of the window.                                        *)
AllocFirstFit ==
    Len(claims) < MaxClaims =>
        \A s \in Sizes : Least(Starts(claims, s)) = Least(Gaps(s))

(* The ledger implements the pool of addresses: every grant takes only     *)
(* free addresses, and a free gives back exactly one whole region.         *)
Taken == UNION {Cells(claims[i]) : i \in {j \in DOMAIN claims : claims[j].used}}

Pool == INSTANCE MemPool WITH taken <- Taken

PoolSpec == Pool!PoolSpec
=============================================================================

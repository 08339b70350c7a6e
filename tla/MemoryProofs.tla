---------------------------- MODULE MemoryProofs ----------------------------
(***************************************************************************)
(* Proofs about the memory manager for every address space, window, ledger *)
(* size and mix of requests, and about the slice handlers on top of it for *)
(* every number of jobs, every ledger and every pool of resource objects,  *)
(* with the allocator mutex as racy as mutex_handler makes it.  The second *)
(* part rests on the first one's ledger invariant.                         *)
(***************************************************************************)
EXTENDS SliceAllocator, TLAPS

(* The strengthening that makes NoOverlap inductive: no recorded claim     *)
(* reaches the end of the address space, so the wrapping End is exact.     *)
NoWrap == \A i \in DOMAIN claims : claims[i].base + claims[i].size < AddrSpace

LedgerInv == TypeOK /\ NoWrap /\ NoOverlap

-----------------------------------------------------------------------------
(* What claim_locked does to a ledger of claims that do not wrap: the new  *)
(* entry, if any, is the requested region, and it meets no live claim.     *)
LEMMA ClaimLocked ==
    ASSUME TypeOK, NoWrap, NEW b \in Addr, NEW s \in Nat \ {0}, b + s < AddrSpace,
           NEW led, led = claim_locked(claims, b, s), led # claims
    PROVE  LET c == [base |-> b, size |-> s, used |-> TRUE]
           IN  /\ led = Append(claims, c)
               /\ Len(claims) < MaxClaims
               /\ \A i \in DOMAIN claims :
                    claims[i].used => Cells(claims[i]) \cap Cells(c) = {}
<1> DEFINE c == [base |-> b, size |-> s, used |-> TRUE]
<1> USE MemMgrAssumption
<1>1. ~ ClaimRefused(claims, b, s)
  BY Zenon DEF claim_locked
<1>2. led = Append(claims, c)
  BY <1>1, Zenon DEF claim_locked
<1>3. Len(claims) < MaxClaims
  BY <1>1 DEF ClaimRefused, TypeOK
<1>4. ASSUME NEW i \in DOMAIN claims, claims[i].used
      PROVE  Cells(claims[i]) \cap Cells(c) = {}
  <2>1. claims[i] \in Claim
    BY DEF TypeOK
  <2>2. End(claims[i]) = claims[i].base + claims[i].size
    BY <2>1, Zenon DEF NoWrap, End, Wrap
  <2>3. ~ (b < claims[i].base + claims[i].size /\ claims[i].base < b + s)
    BY <1>1, <1>4, <2>2, Zenon DEF ClaimRefused, Clear, Overlaps, Wrap
  <2>4. QED
    BY <2>1, <2>3 DEF Cells, Claim, Addr
<1>5. QED
  BY <1>2, <1>3, <1>4, Zenon

(* Every region a method hands to claim_locked lies below the end of the   *)
(* address space: alloc's own wrap test (end < start) sees to it.          *)
LEMMA FitsNoWrap ==
    ASSUME NEW start \in Addr, NEW s \in Addr, Fits(claims, start, s)
    PROVE  start + s < AddrSpace
BY MemMgrAssumption DEF Fits, Wrap, Addr

(* The ends of recorded claims, which alloc tries as starts, are addresses.*)
LEMMA CandidatesAreAddr == ASSUME TypeOK, NoWrap PROVE Candidates(claims) \subseteq Addr
<1>1. AllocMin \in Addr
  BY MemMgrAssumption, Zenon
<1>2. ASSUME NEW i \in DOMAIN claims
      PROVE  End(claims[i]) \in Addr
  <2>1. claims[i] \in Claim
    BY DEF TypeOK
  <2>2. QED
    BY <2>1, MemMgrAssumption DEF Claim, NoWrap, End, Wrap, Addr
<1>3. QED
  BY <1>1, <1>2, Zenon DEF Candidates

(* One claim_locked call keeps the ledger's invariant.                     *)
LEMMA ClaimKeepsInv ==
    ASSUME LedgerInv, NEW b \in Addr, NEW s \in Nat \ {0}, b + s < AddrSpace,
           claims' = claim_locked(claims, b, s),
           reserved' \in 0 .. Len(Reserved)
    PROVE  LedgerInv'
<1>1. CASE claims' = claims
  BY <1>1, Zenon DEF LedgerInv, TypeOK, NoWrap, NoOverlap, Used
<1>2. CASE claims' # claims
  <2> DEFINE c == [base |-> b, size |-> s, used |-> TRUE]
  <2>1. /\ claims' = Append(claims, c)
        /\ Len(claims) < MaxClaims
        /\ \A i \in DOMAIN claims :
             claims[i].used => Cells(claims[i]) \cap Cells(c) = {}
    BY <1>2, ClaimLocked DEF LedgerInv
  <2> HIDE DEF c
  <2>2. c \in Claim /\ c.base + c.size < AddrSpace
    BY Zenon DEF c, Claim
  <2>3. /\ claims \in Seq(Claim)
        /\ claims' \in Seq(Claim)
        /\ Len(claims') = Len(claims) + 1
        /\ claims'[Len(claims')] = c
        /\ \A i \in DOMAIN claims : claims'[i] = claims[i]
        /\ DOMAIN claims' = DOMAIN claims \cup {Len(claims')}
    BY <2>1, <2>2 DEF LedgerInv, TypeOK
  <2>4. TypeOK'
    BY <2>1, <2>3, MemMgrAssumption DEF LedgerInv, TypeOK
  <2>5. NoWrap'
    BY <2>2, <2>3, Zenon DEF LedgerInv, NoWrap
  <2>6. NoOverlap'
    <3> SUFFICES ASSUME NEW i \in DOMAIN claims', NEW j \in DOMAIN claims',
                        i # j, claims'[i].used, claims'[j].used
                 PROVE  Cells(claims'[i]) \cap Cells(claims'[j]) = {}
      BY Zenon DEF NoOverlap, Used
    <3>1. CASE i \in DOMAIN claims /\ j \in DOMAIN claims
      BY <3>1, <2>3, Zenon DEF LedgerInv, NoOverlap, Used
    <3>2. CASE i = Len(claims') /\ j \in DOMAIN claims
      BY <3>2, <2>1, <2>3, Zenon
    <3>3. CASE j = Len(claims') /\ i \in DOMAIN claims
      BY <3>3, <2>1, <2>3
    <3>4. QED
      BY <2>3, <3>1, <3>2, <3>3, Zenon
  <2>7. QED
    BY <2>4, <2>5, <2>6, Zenon DEF LedgerInv
<1>3. QED
  BY <1>1, <1>2, Zenon

(* A free clears the used mark of one claim and touches nothing else.      *)
LEMMA FreeLocked ==
    ASSUME TypeOK, NEW b \in Addr, NEW k \in Least(BasedAt(claims, b)),
           claims' = free_locked(claims, k)
    PROVE  /\ k \in DOMAIN claims /\ claims[k].used
           /\ claims' \in Seq(Claim)
           /\ Len(claims') = Len(claims) /\ DOMAIN claims' = DOMAIN claims
           /\ ~ claims'[k].used
           /\ \A i \in DOMAIN claims :
                /\ claims'[i].base = claims[i].base
                /\ claims'[i].size = claims[i].size
                /\ i # k => claims'[i].used = claims[i].used
<1>1. k \in DOMAIN claims /\ claims[k].used
  BY Zenon DEF Least, BasedAt
<1>2. \A i \in DOMAIN claims : claims[i] \in Claim
  BY DEF TypeOK
<1>3. claims' = [claims EXCEPT ![k] = [claims[k] EXCEPT !.used = FALSE]]
  BY Zenon DEF free_locked
<1>4. [claims[k] EXCEPT !.used = FALSE] \in Claim
  BY <1>1, <1>2, Zenon DEF Claim
<1>5. claims' \in Seq(Claim) /\ Len(claims') = Len(claims)
  BY <1>1, <1>3, <1>4 DEF TypeOK
<1>6. \A i \in DOMAIN claims : i # k => claims'[i] = claims[i]
  BY <1>3, Zenon
<1>7. claims'[k] = [claims[k] EXCEPT !.used = FALSE]
  BY <1>1, <1>3, Zenon
<1>8. /\ claims'[k].base = claims[k].base
      /\ claims'[k].size = claims[k].size
      /\ ~ claims'[k].used
  BY <1>1, <1>2, <1>7, Zenon DEF Claim
<1>9. QED
  BY <1>1, <1>3, <1>5, <1>6, <1>8, Zenon

(* The empty ledger of memory_manager_init_schema satisfies LedgerInv.    *)
LEMMA LedgerInvInit == MemInit => LedgerInv
BY MemMgrAssumption DEF MemInit, LedgerInv, TypeOK, NoWrap, NoOverlap, Used

(* Every reservation at boot and every method call keeps LedgerInv.        *)
LEMMA LedgerInvNext == LedgerInv /\ [MemNext]_memVars => LedgerInv'
<1> SUFFICES ASSUME LedgerInv, [MemNext]_memVars PROVE LedgerInv'
  BY Zenon
<1>1. CASE Reserve
  <2> DEFINE r == Reserved[reserved + 1]
  <2>1. r \in RegionArgs /\ reserved' \in 0 .. Len(Reserved)
    BY <1>1, MemMgrAssumption DEF Reserve, LedgerInv, TypeOK
  <2>2. claims' = claim_locked(claims, r[1], r[2])
    BY <1>1, Zenon DEF Reserve
  <2>3. r[1] \in Addr /\ r[2] \in Nat \ {0} /\ r[1] + r[2] < AddrSpace
    BY <2>1, Zenon DEF RegionArgs
  <2>4. QED
    BY <2>1, <2>2, <2>3, ClaimKeepsInv, Zenon
<1>2. ASSUME NEW r \in ClaimArgs, MethodClaim(r[1], r[2])
      PROVE  LedgerInv'
  <2>1. r[1] \in Addr /\ r[2] \in Nat \ {0} /\ r[1] + r[2] < AddrSpace
    BY MemMgrAssumption, Zenon DEF RegionArgs
  <2>2. QED
    BY <1>2, <2>1, ClaimKeepsInv, Zenon DEF MethodClaim, Ready, LedgerInv, TypeOK
<1>3. ASSUME NEW s \in Sizes, MethodAlloc(s)
      PROVE  LedgerInv'
  <2>1. PICK b \in Least(Starts(claims, s)) : claims' = claim_locked(claims, b, s)
    BY <1>3, Zenon DEF MethodAlloc
  <2>2. b \in Addr /\ Fits(claims, b, s)
    BY CandidatesAreAddr, Zenon DEF Least, Starts, LedgerInv
  <2>3. s \in Addr /\ s \in Nat \ {0}
    BY MemMgrAssumption DEF Addr
  <2>4. b + s < AddrSpace
    BY <2>2, <2>3, FitsNoWrap, Zenon
  <2>5. QED
    BY <1>3, <2>1, <2>2, <2>3, <2>4, ClaimKeepsInv, Zenon
       DEF MethodAlloc, Ready, LedgerInv, TypeOK
<1>4. ASSUME NEW b \in Addr, MethodFree(b)
      PROVE  LedgerInv'
  <2>1. PICK k \in Least(BasedAt(claims, b)) : claims' = free_locked(claims, k)
    BY <1>4, Zenon DEF MethodFree
  <2>2. /\ claims' \in Seq(Claim)
        /\ Len(claims') = Len(claims) /\ DOMAIN claims' = DOMAIN claims
        /\ ~ claims'[k].used
        /\ \A i \in DOMAIN claims :
             /\ claims'[i].base = claims[i].base
             /\ claims'[i].size = claims[i].size
             /\ i # k => claims'[i].used = claims[i].used
    BY <2>1, FreeLocked DEF LedgerInv
  <2>3. TypeOK'
    BY <1>4, <2>2, Zenon DEF LedgerInv, TypeOK, MethodFree, Ready
  <2>4. NoWrap'
    BY <2>2, Zenon DEF LedgerInv, NoWrap
  <2>5. NoOverlap'
    BY <2>2 DEF LedgerInv, NoOverlap, Used, Cells
  <2>6. QED
    BY <2>3, <2>4, <2>5, Zenon DEF LedgerInv
<1>5. CASE UNCHANGED memVars
  BY <1>5, Zenon DEF LedgerInv, TypeOK, NoWrap, NoOverlap, Used, memVars
<1>6. CASE \/ \E s \in Sizes : MethodAllocRejected(s)
           \/ \E b \in Addr : MethodFreeRejected(b)
  BY <1>5, <1>6, Zenon DEF MethodAllocRejected, MethodFreeRejected, Ready, memVars
<1>7. QED
  BY <1>1, <1>2, <1>3, <1>4, <1>5, <1>6, Zenon DEF MemNext

(* The ledger's invariant holds in every reachable state.                  *)
THEOREM LedgerInvariant == MemSpec => []LedgerInv
BY LedgerInvInit, LedgerInvNext, PTL DEF MemSpec

(* The memory manager never records two live claims that share an address, *)
(* for every window, ledger size and sequence of claims, allocs and frees. *)
THEOREM NoOverlapAlways == MemSpec => []NoOverlap
<1>1. LedgerInv => NoOverlap
  BY Zenon DEF LedgerInv
<1>2. QED
  BY <1>1, LedgerInvariant, PTL
-----------------------------------------------------------------------------
(* The two-comparison overlap test is exact for non-empty regions.         *)
LEMMA OverlapIsShared ==
    ASSUME NEW b \in Nat, NEW s \in Nat \ {0}, NEW x \in Nat, NEW t \in Nat \ {0}
    PROVE  (b < x + t /\ x < b + s) <=> (b .. (b + s - 1)) \cap (x .. (x + t - 1)) # {}
<1>1. ASSUME b < x + t, x < b + s
      PROVE  (b .. (b + s - 1)) \cap (x .. (x + t - 1)) # {}
  <2>1. CASE b <= x
    <3>1. x \in b .. (b + s - 1) /\ x \in x .. (x + t - 1)
      BY <1>1, <2>1
    <3>2. QED
      BY <3>1, Zenon
  <2>2. CASE x < b
    <3>1. b \in b .. (b + s - 1) /\ b \in x .. (x + t - 1)
      BY <1>1, <2>2
    <3>2. QED
      BY <3>1, Zenon
  <2>3. QED
    BY <2>1, <2>2
<1>2. ASSUME (b .. (b + s - 1)) \cap (x .. (x + t - 1)) # {}
      PROVE  b < x + t /\ x < b + s
  <2>1. PICK y \in b .. (b + s - 1) : y \in x .. (x + t - 1)
    BY <1>2, Zenon
  <2>2. QED
    BY <2>1
<1>3. QED
  BY <1>1, <1>2, Zenon

(* The address just outside an interval, above an address inside it, is    *)
(* where a claim ends: the start alloc derives from that claim.            *)
LEMMA PastTheEnd ==
    ASSUME NEW x \in Nat, NEW n \in Nat, NEW b \in Int,
           b - 1 \in x .. (x + n - 1), b \notin x .. (x + n - 1)
    PROVE  x + n = b
OBVIOUS

(* alloc's list of candidate starts is exhaustive: the lowest gap of the   *)
(* window is the window's start or the end of a live claim.                *)
LEMMA StartsAmongGaps ==
    ASSUME LedgerInv, Len(claims) < MaxClaims, NEW s \in Sizes
    PROVE  Starts(claims, s) \subseteq Gaps(s) /\ Least(Gaps(s)) \subseteq Starts(claims, s)
<1> USE MemMgrAssumption
<1>1. s \in Nat /\ s > 0 /\ s \in Addr
  BY DEF Addr
<1>2. \A i \in DOMAIN claims : /\ claims[i] \in Claim
                               /\ End(claims[i]) = claims[i].base + claims[i].size
  <2> TAKE i \in DOMAIN claims
  <2>1. claims[i] \in Claim
    BY DEF LedgerInv, TypeOK
  <2>2. QED
    BY <2>1, Zenon DEF LedgerInv, NoWrap, End, Wrap
<1>3. ASSUME NEW b \in Addr, b >= AllocMin
      PROVE  Fits(claims, b, s) <=> b \in Gaps(s)
  <2>1. ASSUME NEW i \in DOMAIN claims
        PROVE  ~ Overlaps(b, b + s, claims[i]) <=> (b .. (b + s - 1)) \cap Cells(claims[i]) = {}
    <3>1. b \in Nat /\ claims[i].base \in Nat /\ claims[i].size \in Nat \ {0}
      BY <1>2 DEF Claim, Addr
    <3>2. End(claims[i]) = claims[i].base + claims[i].size
      BY <1>2, Zenon
    <3>3. s \in Nat \ {0}
      BY <1>1, Zenon
    <3> DEFINE x == claims[i].base  t == claims[i].size
    <3>4. (b < x + t /\ x < b + s) <=> (b .. (b + s - 1)) \cap (x .. (x + t - 1)) # {}
      <4> HIDE DEF x, t
      <4> QED BY <3>1, <3>3, OverlapIsShared, Zenon DEF x, t
    <3> QED
      BY <3>2, <3>4, Zenon DEF Overlaps, Cells
  <2>2. CASE b + s <= AllocMax
    <3>1. Wrap(b + s) = b + s
      BY <2>2, <1>1 DEF Wrap, Addr
    <3>2. Fits(claims, b, s) <=> Clear(claims, b, b + s)
      <4>1. b + s >= b
        BY <1>1 DEF Addr
      <4>2. ~ (Len(claims) >= MaxClaims)
        BY DEF LedgerInv, TypeOK
      <4>3. QED
        BY <2>2, <3>1, <4>1, <4>2, Zenon DEF Fits, ClaimRefused
    <3>3. b \in AllocMin .. (AllocMax - s)
      BY <1>1, <1>3, <2>2 DEF Addr
    <3>4. QED
      BY <2>1, <3>2, <3>3, Zenon DEF Gaps, Clear, Used
  <2>3. CASE ~ (b + s <= AllocMax)
    BY <1>1, <2>3 DEF Fits, Gaps, Wrap, Addr
  <2>4. QED
    BY <2>2, <2>3, Zenon
<1>4. Starts(claims, s) \subseteq Gaps(s)
  <2>1. \A b \in Candidates(claims) : b \in Addr /\ b >= AllocMin
    <3>1. Candidates(claims) \subseteq Addr
      BY CandidatesAreAddr, Zenon DEF LedgerInv
    <3>2. AllocMin \in Int /\ \A i \in DOMAIN claims : End(claims[i]) \in Int
      BY <1>2 DEF Claim, Addr
    <3>3. \A i \in DOMAIN claims : (IF End(claims[i]) < AllocMin THEN AllocMin ELSE End(claims[i])) >= AllocMin
      BY <3>2
    <3>4. \A b \in Candidates(claims) : b >= AllocMin
      BY <3>2, <3>3 DEF Candidates
    <3>5. QED
      BY <3>1, <3>4, Zenon
  <2>2. QED
    BY <1>3, <2>1, Zenon DEF Starts
<1>5. Least(Gaps(s)) \subseteq Starts(claims, s)
  <2> SUFFICES ASSUME NEW b \in Gaps(s), \A x \in Gaps(s) : b <= x
               PROVE  b \in Starts(claims, s)
    BY Zenon DEF Least
  <2>1. b \in Addr /\ b >= AllocMin /\ b + s <= AllocMax
    BY <1>1 DEF Gaps, Addr
  <2>2. b \in Candidates(claims)
    <3>1. CASE b = AllocMin
      BY <3>1, Zenon DEF Candidates
    <3>2. CASE b # AllocMin
      <4>1. b - 1 \notin Gaps(s)
        BY <2>1 DEF Addr
      <4>2. PICK i \in DOMAIN claims :
                 /\ claims[i].used
                 /\ ((b - 1) .. (b - 1 + s - 1)) \cap Cells(claims[i]) # {}
        BY <1>1, <2>1, <3>2, <4>1 DEF Gaps, Used, Addr
      <4>3. (b .. (b + s - 1)) \cap Cells(claims[i]) = {}
        BY <4>2, Zenon DEF Gaps, Used
      <4>4. claims[i].base \in Nat /\ claims[i].size \in Nat
        BY <1>2 DEF Claim, Addr
      <4>5. b - 1 \in Cells(claims[i]) /\ b \notin Cells(claims[i])
        BY <1>1, <2>1, <4>2, <4>3 DEF Addr
      <4>6. End(claims[i]) = b
        <5>1. End(claims[i]) = claims[i].base + claims[i].size
          BY <1>2, Zenon
        <5>2. b \in Int
          BY <2>1 DEF Addr
        <5>3. claims[i].base + claims[i].size = b
          BY <4>4, <4>5, <5>2, PastTheEnd, Zenon DEF Cells
        <5>4. QED
          BY <5>1, <5>3, Zenon
      <4>7. b = IF End(claims[i]) < AllocMin THEN AllocMin ELSE End(claims[i])
        BY <2>1, <4>6 DEF Addr
      <4>8. QED
        BY <4>2, <4>7, Zenon DEF Candidates
    <3>3. QED
      BY <3>1, <3>2, Zenon
  <2>3. QED
    BY <1>3, <2>1, <2>2, Zenon DEF Starts
<1> QED
  BY <1>4, <1>5, Zenon
-----------------------------------------------------------------------------
LiveIdx == {j \in DOMAIN claims : claims[j].used}

(* A claim_locked call takes free addresses or changes nothing.            *)
LEMMA ClaimGrants ==
    ASSUME LedgerInv, NEW b \in Addr, NEW s \in Nat \ {0}, b + s < AddrSpace,
           claims' = claim_locked(claims, b, s)
    PROVE  Pool!Grant \/ Taken' = Taken
<1>1. CASE claims' = claims
  BY <1>1, Zenon DEF Taken
<1>2. CASE claims' # claims
  <2> DEFINE c == [base |-> b, size |-> s, used |-> TRUE]
  <2>1. /\ claims' = Append(claims, c)
        /\ \A i \in DOMAIN claims :
             claims[i].used => Cells(claims[i]) \cap Cells(c) = {}
    BY <1>2, ClaimLocked, Zenon DEF LedgerInv
  <2>2. Cells(c) = b .. (b + s - 1)
    BY Zenon DEF Cells
  <2>3. c.used
    BY Zenon
  <2> HIDE DEF c
  <2>4. /\ claims \in Seq(Claim)
        /\ claims'[Len(claims) + 1] = c
        /\ \A i \in DOMAIN claims : claims'[i] = claims[i]
        /\ DOMAIN claims' = DOMAIN claims \cup {Len(claims) + 1}
    BY <2>1 DEF LedgerInv, TypeOK
  <2>5. LiveIdx' = LiveIdx \cup {Len(claims) + 1}
    BY <2>3, <2>4, Zenon DEF LiveIdx
  <2>6. \A i \in LiveIdx : claims'[i] = claims[i] /\ Cells(claims[i]) \cap Cells(c) = {}
    BY <2>1, <2>4, Zenon DEF LiveIdx
  <2>7. Taken' = Taken \cup Cells(c)
    <3>1. Taken = UNION {Cells(claims[i]) : i \in LiveIdx}
      BY Zenon DEF Taken, LiveIdx
    <3>2. Taken' = UNION {Cells(claims'[i]) : i \in LiveIdx'}
      BY Zenon DEF Taken, LiveIdx, Cells
    <3>3. QED
      BY <2>4, <2>5, <2>6, <3>1, <3>2
  <2>8. Taken \cap Cells(c) = {}
    BY <2>6, Zenon DEF Taken, LiveIdx
  <2>9. b + s - 1 \in Addr
    BY MemMgrAssumption DEF Addr
  <2>10. QED
    BY <2>2, <2>7, <2>8, <2>9, Zenon DEF Pool!Grant
<1>3. QED
  BY <1>1, <1>2, Zenon

(* The last address of a claim that ends below the end of the address      *)
(* space is an address.                                                    *)
LEMMA LastInside ==
    ASSUME NEW x \in Addr, NEW n \in Nat \ {0}, x + n < AddrSpace
    PROVE  x + n - 1 \in Addr
BY MemMgrAssumption DEF Addr

(* A free gives back the addresses of one claim, all of them, since no     *)
(* other live claim shares any.                                            *)
LEMMA FreeReleases ==
    ASSUME LedgerInv, NEW b \in Addr, NEW k \in Least(BasedAt(claims, b)),
           claims' = free_locked(claims, k)
    PROVE  Pool!Release
<1>1. /\ k \in DOMAIN claims /\ claims[k].used
      /\ DOMAIN claims' = DOMAIN claims
      /\ ~ claims'[k].used
      /\ \A i \in DOMAIN claims :
           /\ claims'[i].base = claims[i].base
           /\ claims'[i].size = claims[i].size
           /\ i # k => claims'[i].used = claims[i].used
  BY FreeLocked DEF LedgerInv
<1>2. LiveIdx' = LiveIdx \ {k} /\ k \in LiveIdx
  BY <1>1, Zenon DEF LiveIdx
<1>3. \A i \in DOMAIN claims : Cells(claims'[i]) = Cells(claims[i])
  BY <1>1, Zenon DEF Cells
<1>4. \A i \in LiveIdx \ {k} : i \in DOMAIN claims /\ Cells(claims[i]) \cap Cells(claims[k]) = {}
  BY <1>1, Zenon DEF LedgerInv, NoOverlap, Used, LiveIdx
<1>5. Taken = UNION {Cells(claims[i]) : i \in LiveIdx}
  BY Zenon DEF Taken, LiveIdx
<1>6. Taken' = UNION {Cells(claims'[i]) : i \in LiveIdx'}
  BY Zenon DEF Taken, LiveIdx, Cells
<1>7. Taken' = UNION {Cells(claims[i]) : i \in LiveIdx \ {k}}
  BY <1>2, <1>3, <1>4, <1>6
<1>8. Taken' = Taken \ Cells(claims[k]) /\ Cells(claims[k]) \subseteq Taken
  BY <1>2, <1>4, <1>5, <1>7, Zenon
<1>9. claims[k] \in Claim /\ claims[k].base + claims[k].size < AddrSpace
  BY <1>1 DEF LedgerInv, TypeOK, NoWrap
<1>10. claims[k].base \in Addr /\ claims[k].base + claims[k].size - 1 \in Addr
  <2>1. claims[k].base \in Addr /\ claims[k].size \in Nat \ {0}
    BY <1>9 DEF Claim
  <2>2. QED
    BY <1>9, <2>1, LastInside, Zenon
<1>11. QED
  BY <1>8, <1>10, Zenon DEF Pool!Release, Cells

(* The ledger implements the pool of addresses: grants take only free      *)
(* addresses and a free gives back one whole region.                       *)
THEOREM LedgerImplementsPool == MemSpec => PoolSpec
<1>1. MemInit => Pool!PoolInit
  BY DEF MemInit, Pool!PoolInit, Taken
<1>2. LedgerInv /\ [MemNext]_memVars => [Pool!Grant \/ Pool!Release]_Taken
  <2> SUFFICES ASSUME LedgerInv, [MemNext]_memVars
               PROVE  Pool!Grant \/ Pool!Release \/ Taken' = Taken
    BY Zenon
  <2>1. CASE Reserve
    <3> DEFINE r == Reserved[reserved + 1]
    <3>1. r \in RegionArgs
      BY <2>1, MemMgrAssumption DEF Reserve, LedgerInv, TypeOK
    <3>2. claims' = claim_locked(claims, r[1], r[2])
      BY <2>1, Zenon DEF Reserve
    <3>3. r[1] \in Addr /\ r[2] \in Nat \ {0} /\ r[1] + r[2] < AddrSpace
      BY <3>1, Zenon DEF RegionArgs
    <3>4. QED
      BY <3>2, <3>3, ClaimGrants, Zenon
  <2>2. ASSUME NEW r \in ClaimArgs, MethodClaim(r[1], r[2])
        PROVE  Pool!Grant \/ Taken' = Taken
    <3>1. r[1] \in Addr /\ r[2] \in Nat \ {0} /\ r[1] + r[2] < AddrSpace
      BY MemMgrAssumption, Zenon DEF RegionArgs
    <3>2. QED
      BY <2>2, <3>1, ClaimGrants, Zenon DEF MethodClaim
  <2>3. ASSUME NEW s \in Sizes, MethodAlloc(s)
        PROVE  Pool!Grant \/ Taken' = Taken
    <3>1. PICK b \in Least(Starts(claims, s)) : claims' = claim_locked(claims, b, s)
      BY <2>3, Zenon DEF MethodAlloc
    <3>2. b \in Addr /\ Fits(claims, b, s)
      BY CandidatesAreAddr, Zenon DEF Least, Starts, LedgerInv
    <3>3. s \in Addr /\ s \in Nat \ {0}
      BY MemMgrAssumption DEF Addr
    <3>4. b + s < AddrSpace
      BY <3>2, <3>3, FitsNoWrap, Zenon
    <3>5. QED
      BY <3>1, <3>2, <3>3, <3>4, ClaimGrants
  <2>4. ASSUME NEW b \in Addr, MethodFree(b)
        PROVE  Pool!Release
    BY <2>4, FreeReleases, Zenon DEF MethodFree
  <2>5. CASE \/ \E s \in Sizes : MethodAllocRejected(s)
             \/ \E b \in Addr : MethodFreeRejected(b)
             \/ UNCHANGED memVars
    BY <2>5, Zenon DEF MethodAllocRejected, MethodFreeRejected, Taken, memVars
  <2>6. QED
    BY <2>1, <2>2, <2>3, <2>4, <2>5, Zenon DEF MemNext
<1>3. QED
  BY <1>1, <1>2, LedgerInvariant, PTL DEF MemSpec, PoolSpec, Pool!PoolSpec

-----------------------------------------------------------------------------
Labels == {"idle", "set", "hold", "slice", "create", "release", "free", "destroy", "unlock", "clear"}

Object == [live : BOOLEAN, base : Addr, size : Nat, by : Jobs \cup {NoJob}]

SliceType ==
    /\ res \in [Handles -> Object]
    /\ made \in 0 .. ResPool
    /\ pc \in [Jobs -> Labels] /\ me \in [Jobs -> Local]

(* What a job between two steps of a handler relies on: a job on its way   *)
(* to a slice or a release wants just that, and between the check of       *)
(* handle_release_slice and the end of it the object stays the job's own,  *)
(* because no other job passes the check.                                  *)
Phases ==
    /\ \A r \in Handles : r > made => ~ res[r].live
    /\ \A j \in Jobs :
         /\ pc[j] \in {"set", "hold"} => me[j].want \in {"slice", "release"}
         /\ pc[j] \in {"set", "hold"} /\ me[j].want = "release" => me[j].r \in Handles
         /\ pc[j] = "release" => me[j].r \in Handles
         /\ pc[j] \in {"free", "destroy"} =>
              /\ me[j].r \in Handles /\ res[me[j].r].live
              /\ res[me[j].r].by = j /\ res[me[j].r].base = me[j].base

BackedIn(led, b, s) == \E i \in DOMAIN led : led[i].used /\ led[i].base = b /\ led[i].size = s

InUse(r) == res[r].live /\ ~ BeingDestroyed(r)
Creating(j) == pc[j] = "create"

(* The regions of resource objects, and of jobs that are about to make an  *)
(* object, are live claims, and no two of them begin at the same address.  *)
Owned ==
    /\ \A r \in Handles : InUse(r) => BackedIn(claims, res[r].base, res[r].size)
    /\ \A j \in Jobs : Creating(j) => BackedIn(claims, me[j].base, me[j].size)
    /\ \A r, q \in Handles : r # q /\ InUse(r) /\ InUse(q) => res[r].base # res[q].base
    /\ \A j, k \in Jobs : j # k /\ Creating(j) /\ Creating(k) => me[j].base # me[k].base
    /\ \A r \in Handles, j \in Jobs : InUse(r) /\ Creating(j) => res[r].base # me[j].base

SliceInv == LedgerInv /\ SliceType /\ Phases /\ Owned
-----------------------------------------------------------------------------
(* A set of numbers has one least element: the slot create takes is fixed. *)
LEMMA LeastUnique ==
    ASSUME NEW S \in SUBSET Nat, NEW m \in Least(S), NEW n \in Least(S)
    PROVE  m = n
BY DEF Least

(* A granted region begins where no live claim does.                       *)
LEMMA GrantBacks ==
    ASSUME LedgerInv, NEW b \in Addr, NEW s \in Nat \ {0}, b + s < AddrSpace,
           ~ ClaimRefused(claims, b, s), claims' = claim_locked(claims, b, s)
    PROVE  /\ BackedIn(claims', b, s)
           /\ \A x, t : BackedIn(claims, x, t) => BackedIn(claims', x, t) /\ x # b
<1> DEFINE c == [base |-> b, size |-> s, used |-> TRUE]
<1>1. claims' = Append(claims, c)
  BY Zenon DEF claim_locked
<1>2. claims \in Seq(Claim) /\ Len(claims) \in Nat /\ DOMAIN claims = 1 .. Len(claims)
  BY DEF LedgerInv, TypeOK
<1>3. claims' # claims
  <2>1. c \in Claim
    BY Zenon DEF Claim
  <2>2. Len(claims') = Len(claims) + 1
    BY <1>1, <1>2, <2>1
  <2>3. QED
    BY <1>2, <2>2
<1>4. \A i \in DOMAIN claims : claims[i].used => Cells(claims[i]) \cap Cells(c) = {}
  BY <1>3, ClaimLocked, Zenon DEF LedgerInv
<1>5. /\ DOMAIN claims' = 1 .. Len(claims) + 1
      /\ \A i \in DOMAIN claims : i \in DOMAIN claims' /\ claims'[i] = claims[i]
      /\ claims'[Len(claims) + 1] = c
  BY <1>1, <1>2
<1>6. BackedIn(claims', b, s)
  BY <1>2, <1>5 DEF BackedIn
<1>7. ASSUME NEW x, NEW t, BackedIn(claims, x, t)
      PROVE  BackedIn(claims', x, t) /\ x # b
  <2>1. PICK i \in DOMAIN claims : claims[i].used /\ claims[i].base = x /\ claims[i].size = t
    BY <1>7, Zenon DEF BackedIn
  <2>2. BackedIn(claims', x, t)
    BY <1>5, <2>1, Zenon DEF BackedIn
  <2>3. x \in Nat /\ t \in Nat \ {0} /\ b \in Nat
    <3>1. claims[i] \in Claim
      BY <1>2, <2>1
    <3>2. QED
      BY <2>1, <3>1 DEF Claim, Addr
  <2>4. (x .. x + t - 1) \cap (b .. b + s - 1) = {}
    BY <1>4, <2>1, Zenon DEF Cells
  <2>5. x # b
    BY <2>3, <2>4
  <2>6. QED
    BY <2>2, <2>5, Zenon
<1>8. QED
  BY <1>6, <1>7, Zenon

(* Freeing a claim leaves the claims that begin elsewhere.                 *)
LEMMA FreeBacks ==
    ASSUME LedgerInv, NEW b \in Addr, MethodFree(b)
    PROVE  \A x, t : x # b /\ BackedIn(claims, x, t) => BackedIn(claims', x, t)
<1>1. PICK k \in Least(BasedAt(claims, b)) : claims' = free_locked(claims, k)
  BY Zenon DEF MethodFree
<1>2. /\ DOMAIN claims' = DOMAIN claims
      /\ \A i \in DOMAIN claims :
           /\ claims'[i].base = claims[i].base
           /\ claims'[i].size = claims[i].size
           /\ i # k => claims'[i].used = claims[i].used
  BY <1>1, FreeLocked DEF LedgerInv
<1>3. claims[k].base = b
  BY <1>1, Zenon DEF Least, BasedAt
<1>4. QED
  BY <1>2, <1>3, Zenon DEF BackedIn

(* An allocated region is a legal argument of claim_locked and is granted. *)
LEMMA AllocGrants ==
    ASSUME LedgerInv, NEW s \in Sizes, NEW b \in Least(Starts(claims, s)), MethodAlloc(s)
    PROVE  /\ b \in Addr /\ s \in Nat \ {0} /\ b + s < AddrSpace
           /\ ~ ClaimRefused(claims, b, s) /\ claims' = claim_locked(claims, b, s)
<1>1. Starts(claims, s) \subseteq Addr /\ Addr \subseteq Nat
  BY CandidatesAreAddr DEF Starts, LedgerInv, Addr
<1>2. b \in Addr /\ Fits(claims, b, s)
  BY <1>1, Zenon DEF Least, Starts
<1>3. s \in Addr /\ s \in Nat \ {0}
  BY MemMgrAssumption DEF Addr
<1>4. b + s < AddrSpace
  BY <1>2, <1>3, FitsNoWrap, Zenon
<1>5. PICK a \in Least(Starts(claims, s)) : claims' = claim_locked(claims, a, s)
  BY Zenon DEF MethodAlloc
<1>6. Starts(claims, s) \in SUBSET Nat
  BY <1>1, Zenon
<1>7. a = b
  BY <1>6, LeastUnique, Zenon
<1>8. QED
  BY <1>2, <1>3, <1>4, <1>5, <1>7 DEF Fits
-----------------------------------------------------------------------------
(* Whatever the handlers do to the ledger is a method call of the memory   *)
(* manager, so its guarantees carry over.                                  *)
LEMMA LedgerStep == SliceType /\ [Next]_vars => [MemNext]_memVars
<1> SUFFICES ASSUME SliceType, [Next]_vars PROVE [MemNext]_memVars
  BY Zenon
<1>1. CASE Boot
  BY <1>1, Zenon DEF Boot, MemNext
<1>2. ASSUME NEW j \in Jobs, JobStep(j) PROVE [MemNext]_memVars
  <2>1. ASSUME NEW s \in Sizes, AllocateSlice(j, s) \/ AllocateSliceRejected(j, s)
        PROVE  MemNext
    BY <2>1, Zenon DEF AllocateSlice, AllocateSliceRejected, MemNext
  <2>2. CASE ReleaseFree(j)
    <3>1. me[j].base \in Addr
      BY Zenon DEF SliceType, Local, Addr
    <3>2. QED
      BY <2>2, <3>1, Zenon DEF ReleaseFree, MemNext
  <2>3. CASE \/ TryLockSet(j) \/ TryLockHold(j) \/ Unlock(j) \/ UnlockClear(j)
             \/ CreateResource(j) \/ ReleaseCheck(j) \/ ReleaseDestroy(j)
    BY <2>3, Zenon DEF TryLockSet, TryLockHold, Unlock, UnlockClear, CreateResource, ReleaseCheck, ReleaseDestroy
  <2>4. QED
    BY <1>2, <2>1, <2>2, <2>3, Zenon DEF JobStep
<1>3. ASSUME NEW j \in Jobs, NEW w, NEW r, TryLock(j, w, r) PROVE [MemNext]_memVars
  BY <1>3, Zenon DEF TryLock
<1>4. ASSUME NEW j \in Jobs, NEW a \in ClaimArgs, RequestAllocation(j, a[1], a[2])
      PROVE  [MemNext]_memVars
  BY <1>4, Zenon DEF RequestAllocation, MemNext
<1>5. CASE UNCHANGED vars
  BY <1>5, Zenon DEF vars, memVars
<1>6. QED
  BY <1>1, <1>2, <1>3, <1>4, <1>5, Zenon DEF Next

(* Types, without the ledger's.                                            *)
LEMMA TypeStep == LedgerInv /\ SliceType /\ Phases /\ [Next]_vars => SliceType'
<1> SUFFICES ASSUME LedgerInv, SliceType, Phases, [Next]_vars PROVE SliceType'
  BY Zenon
<1> USE SliceAssumption DEF SliceType, Labels, Local, Goto, Set
<1>0. Idle \in Local
  BY MemMgrAssumption DEF Idle, Addr
<1>1. CASE Boot \/ UNCHANGED vars
  BY <1>1, Zenon DEF Boot, vars, resVars
<1>2. ASSUME NEW j \in Jobs, JobStep(j) PROVE SliceType'
  <2>1. ASSUME NEW s \in Sizes, AllocateSlice(j, s) PROVE SliceType'
    <3>1. PICK b \in Least(Starts(claims, s)) :
            /\ MethodAlloc(s) /\ Goto(j, "create") /\ Set(j, [me[j] EXCEPT !.base = b, !.size = s])
      BY <2>1, Zenon DEF AllocateSlice
    <3>2. b \in Addr /\ s \in Nat
      BY <3>1, AllocGrants, Zenon
    <3>3. [me[j] EXCEPT !.base = b, !.size = s] \in Local
      BY <3>2, Zenon DEF Addr
    <3>4. me' \in [Jobs -> Local] /\ pc' \in [Jobs -> Labels]
      BY <3>1, <3>3, Zenon
    <3>5. res' = res /\ made' = made
      BY <2>1, Zenon DEF AllocateSlice, resVars
    <3>6. QED
      BY <3>4, <3>5, Zenon
  <2>2. ASSUME NEW s \in Sizes, AllocateSliceRejected(j, s) PROVE SliceType'
    BY <2>2, Zenon DEF AllocateSliceRejected, resVars
  <2>3. CASE TryLockSet(j) \/ UnlockClear(j)
    BY <2>3, Zenon DEF TryLockSet, UnlockClear, resVars
  <2>4. CASE TryLockHold(j)
    BY <2>4, Zenon DEF TryLockHold, resVars, Phases
  <2>5. CASE Unlock(j)
    BY <2>5, <1>0, Zenon DEF Unlock, resVars
  <2>6. CASE CreateResource(j)
    <3>1. me[j] \in Local /\ me[j].base \in Addr /\ me[j].size \in Nat
      BY Zenon DEF Addr
    <3>2. made < ResPool => made + 1 \in Handles /\ made + 1 \in 0 .. ResPool
      BY DEF Handles
    <3> DEFINE object == [live |-> TRUE, base |-> me[j].base, size |-> me[j].size,
                          by |-> IF me[j].want = "slice" THEN j ELSE NoJob]
    <3>a. object \in Object
      BY <3>1, Zenon DEF Object
    <3>b. \/ made < ResPool /\ made' = made + 1 /\ res' = [res EXCEPT ![made + 1] = object]
          \/ made' = made /\ res' = res
      BY <2>6, Zenon DEF CreateResource, resVars
    <3> HIDE DEF object
    <3>3. res' \in [Handles -> Object] /\ made' \in 0 .. ResPool
      BY <3>a, <3>b, <3>2, Zenon
    <3>4. pc' \in [Jobs -> Labels] /\ me' \in [Jobs -> Local]
      BY <2>6, <1>0, <3>1, Zenon DEF CreateResource
    <3>5. QED
      BY <3>3, <3>4, Zenon
  <2>7. CASE ReleaseCheck(j)
    <3>1. me[j].r \in Handles /\ res[me[j].r].base \in Addr
      BY <2>7 DEF ReleaseCheck, Phases, Object
    <3>2. QED
      BY <2>7, <3>1 DEF ReleaseCheck, resVars, Addr
  <2>8. CASE ReleaseFree(j)
    BY <2>8, Zenon DEF ReleaseFree, resVars
  <2>9. CASE ReleaseDestroy(j)
    <3>1. Dead \in Object
      BY MemMgrAssumption DEF Dead, Object, Addr
    <3>2. QED
      BY <2>9, <3>1, Zenon DEF ReleaseDestroy
  <2>10. QED
    BY <1>2, <2>1, <2>2, <2>3, <2>4, <2>5, <2>6, <2>7, <2>8, <2>9, Zenon DEF JobStep
<1>3. ASSUME NEW j \in Jobs, NEW w \in {"slice", "release"}, NEW r \in 0 .. ResPool, TryLock(j, w, r)
      PROVE  SliceType'
  BY <1>3, <1>0, Zenon DEF TryLock, resVars, Idle
<1>4. ASSUME NEW j \in Jobs, NEW a \in ClaimArgs, RequestAllocation(j, a[1], a[2])
      PROVE  SliceType'
  <2>1. a[1] \in Addr /\ a[2] \in Nat
    BY MemMgrAssumption, Zenon DEF RegionArgs
  <2>2. QED
    BY <1>4, <1>0, <2>1, Zenon DEF RequestAllocation, resVars, Idle, Addr
<1>5. 0 \in 0 .. ResPool /\ Handles \subseteq 0 .. ResPool
  BY DEF Handles
<1>6. QED
  <2> HIDE DEF SliceType
  <2>1. QED
    BY <1>1, <1>2, <1>3, <1>4, <1>5, Zenon DEF Next

(* A job that passed the check of handle_release_slice keeps its object.   *)
LEMMA PhasesStep == SliceType /\ Phases /\ [Next]_vars => Phases'
<1> SUFFICES ASSUME SliceType, Phases, [Next]_vars PROVE Phases'
  BY Zenon
<1> USE SliceAssumption DEF Goto, Set
<1>0. /\ pc \in [Jobs -> Labels] /\ me \in [Jobs -> Local]
      /\ res \in [Handles -> Object] /\ made \in 0 .. ResPool
  BY Zenon DEF SliceType
<1>1. CASE Boot \/ UNCHANGED vars
  BY <1>1 DEF Boot, vars, resVars, Phases
<1>2. ASSUME NEW j \in Jobs, JobStep(j) PROVE Phases'
  <2>1. ASSUME NEW s \in Sizes, AllocateSlice(j, s) \/ AllocateSliceRejected(j, s) PROVE Phases'
    <3>1. pc'[j] \in {"create", "unlock"} /\ \A k \in Jobs \ {j} : pc'[k] = pc[k] /\ me'[k] = me[k]
      BY <2>1, <1>0, Zenon DEF AllocateSlice, AllocateSliceRejected
    <3>2. res' = res /\ made' = made
      BY <2>1, Zenon DEF AllocateSlice, AllocateSliceRejected, resVars
    <3>3. QED
      BY <3>1, <3>2 DEF Phases
  <2>2. CASE TryLockSet(j) \/ UnlockClear(j)
    BY <2>2, <1>0 DEF TryLockSet, UnlockClear, resVars, Phases
  <2>3. CASE TryLockHold(j)
    BY <2>3, <1>0 DEF TryLockHold, resVars, Phases
  <2>4. CASE Unlock(j)
    BY <2>4, <1>0 DEF Unlock, resVars, Phases
  <2>5. CASE CreateResource(j)
    <3>1. pc'[j] \in {"unlock", "idle"} /\ \A k \in Jobs \ {j} : pc'[k] = pc[k] /\ me'[k] = me[k]
      BY <2>5, <1>0, Zenon DEF CreateResource
    <3>2. /\ made' \in {made, made + 1}
          /\ made' = made => res' = res
          /\ \A r \in Handles : r # made + 1 => res'[r] = res[r]
      BY <2>5, <1>0 DEF CreateResource, resVars
    <3>3. \A r \in Handles : res[r].live => r # made + 1
      BY <1>0 DEF Phases, Handles
    <3>4. \A r \in Handles : r > made' => ~ res'[r].live
      BY <3>2, <1>0 DEF Phases, Handles
    <3>5. QED
      BY <3>1, <3>2, <3>3, <3>4 DEF Phases
  <2>6. CASE ReleaseCheck(j)
    <3>1. res' = res /\ made' = made /\ me[j].r \in Handles
      BY <2>6, Zenon DEF ReleaseCheck, resVars, Phases
    <3>2. /\ me'[j].r = me[j].r /\ me'[j].base = res[me[j].r].base
          /\ pc'[j] = IF res[me[j].r].live /\ res[me[j].r].by = j THEN "free" ELSE "unlock"
          /\ \A k \in Jobs \ {j} : pc'[k] = pc[k] /\ me'[k] = me[k]
      BY <2>6, <1>0, ZenonT(60) DEF ReleaseCheck, Local
    <3>3. ASSUME NEW k \in Jobs \ {j}, pc'[k] \in {"free", "destroy"}
          PROVE  /\ me'[k].r \in Handles /\ res'[me'[k].r].live
                 /\ res'[me'[k].r].by = k /\ res'[me'[k].r].base = me'[k].base
      <4>1. pc[k] \in {"free", "destroy"} /\ me'[k] = me[k] /\ res' = res
        BY <3>1, <3>2, <3>3, Zenon
      <4>2. QED
        BY <4>1 DEF Phases
    <3>4. pc'[j] \in {"free", "unlock"} /\ (pc'[j] = "free" =>
            /\ me'[j].r \in Handles /\ res'[me'[j].r].live
            /\ res'[me'[j].r].by = j /\ res'[me'[j].r].base = me'[j].base)
      BY <3>1, <3>2
    <3>5. \A r \in Handles : r > made' => ~ res'[r].live
      BY <3>1, Zenon DEF Phases
    <3>6. QED
      BY <3>2, <3>3, <3>4, <3>5 DEF Phases
  <2>7. CASE ReleaseFree(j)
    BY <2>7, <1>0 DEF ReleaseFree, resVars, Phases
  <2>8. CASE ReleaseDestroy(j)
    <3>1. /\ me' = me /\ made' = made /\ me[j].r \in Handles /\ res[me[j].r].by = j
          /\ pc'[j] = "unlock" /\ \A k \in Jobs \ {j} : pc'[k] = pc[k]
      BY <2>8, <1>0 DEF ReleaseDestroy, Phases
    <3>2. /\ ~ res'[me[j].r].live
          /\ \A r \in Handles : r # me[j].r => res'[r] = res[r]
      BY <2>8, <1>0, <3>1, Zenon DEF ReleaseDestroy, Dead
    <3>3. \A k \in Jobs \ {j} : pc[k] \in {"free", "destroy"} => me[k].r # me[j].r
      BY <3>1 DEF Phases
    <3>4. QED
      BY <3>1, <3>2, <3>3 DEF Phases
  <2>9. QED
    BY <1>2, <2>1, <2>2, <2>3, <2>4, <2>5, <2>6, <2>7, <2>8, Zenon DEF JobStep
<1>3. ASSUME NEW j \in Jobs, NEW w, NEW r, TryLock(j, w, r),
             w = "slice" \/ (w = "release" /\ r \in Handles)
      PROVE  Phases'
  <2>1. /\ pc'[j] = "set" /\ me'[j].want = w /\ me'[j].r = r
        /\ \A k \in Jobs \ {j} : pc'[k] = pc[k] /\ me'[k] = me[k]
    BY <1>3, <1>0, Zenon DEF TryLock, Idle
  <2>2. res' = res /\ made' = made
    BY <1>3, Zenon DEF TryLock, resVars
  <2>3. QED
    BY <1>3, <2>1, <2>2 DEF Phases
<1>4. ASSUME NEW j \in Jobs, NEW a \in ClaimArgs, RequestAllocation(j, a[1], a[2]) PROVE Phases'
  BY <1>4, <1>0 DEF RequestAllocation, resVars, Phases
<1>5. QED
  BY <1>1, <1>2, <1>3, <1>4, Zenon DEF Next

(* A step that makes no region's owner and ends none keeps Owned.          *)
LEMMA OwnedFrame ==
    ASSUME Owned, res' = res,
           \A x, t : BackedIn(claims, x, t) => BackedIn(claims', x, t),
           \A k \in Jobs : /\ (pc'[k] = "create") = (pc[k] = "create")
                           /\ (pc'[k] = "destroy") = (pc[k] = "destroy")
                           /\ pc[k] \in {"create", "destroy"} => me'[k] = me[k]
    PROVE  Owned'
<1>1. \A r \in Handles : InUse(r)' = InUse(r)
  BY DEF InUse, BeingDestroyed
<1>2. \A k \in Jobs : Creating(k)' = Creating(k) /\ (Creating(k) => me'[k] = me[k])
  BY Zenon DEF Creating
<1>3. QED
  BY <1>1, <1>2 DEF Owned

(* A step after which the owners are some of those before, with their      *)
(* claims, keeps Owned.                                                    *)
LEMMA OwnedEnds ==
    ASSUME Owned,
           \A r \in Handles : InUse(r)' => InUse(r) /\ res'[r] = res[r] /\ BackedIn(claims', res[r].base, res[r].size),
           \A k \in Jobs : Creating(k)' => Creating(k) /\ me'[k] = me[k] /\ BackedIn(claims', me[k].base, me[k].size)
    PROVE  Owned'
<1>1. \A r \in Handles : InUse(r)' => BackedIn(claims', res'[r].base, res'[r].size)
  BY Zenon
<1>2. \A k \in Jobs : Creating(k)' => BackedIn(claims', me'[k].base, me'[k].size)
  BY Zenon
<1>3. \A r, q \in Handles : r # q /\ InUse(r)' /\ InUse(q)' => res'[r].base # res'[q].base
  BY DEF Owned
<1>4. \A j, k \in Jobs : j # k /\ Creating(j)' /\ Creating(k)' => me'[j].base # me'[k].base
  BY DEF Owned
<1>5. \A r \in Handles, j \in Jobs : InUse(r)' /\ Creating(j)' => res'[r].base # me'[j].base
  BY DEF Owned
<1>6. QED
  BY <1>1, <1>2, <1>3, <1>4, <1>5, Zenon DEF Owned

(* A region granted to job j begins where no other owner's does.           *)
LEMMA OwnedGrant ==
    ASSUME LedgerInv, Owned, res' = res, NEW j \in Jobs,
           NEW b \in Addr, NEW s \in Nat \ {0}, b + s < AddrSpace,
           ~ ClaimRefused(claims, b, s), claims' = claim_locked(claims, b, s),
           pc[j] \notin {"create", "destroy"}, pc'[j] = "create",
           me'[j].base = b, me'[j].size = s,
           \A k \in Jobs \ {j} : pc'[k] = pc[k] /\ me'[k] = me[k]
    PROVE  Owned'
<1>1. /\ BackedIn(claims', b, s)
      /\ \A x, t : BackedIn(claims, x, t) => BackedIn(claims', x, t) /\ x # b
  BY GrantBacks, Zenon
<1>2. \A r \in Handles : InUse(r)' = InUse(r)
  BY DEF InUse, BeingDestroyed
<1>3. \A k \in Jobs \ {j} : Creating(k)' = Creating(k)
  BY Zenon DEF Creating
<1>4. \A r \in Handles : InUse(r) => BackedIn(claims', res[r].base, res[r].size) /\ res[r].base # b
  BY <1>1, Zenon DEF Owned
<1>5. \A k \in Jobs \ {j} : Creating(k) => BackedIn(claims', me[k].base, me[k].size) /\ me[k].base # b
  BY <1>1, Zenon DEF Owned
<1>6. QED
  BY <1>1, <1>2, <1>3, <1>4, <1>5 DEF Owned

(* Every step of a handler keeps what it hands on and what others hold.    *)
LEMMA OwnedStep == SliceInv /\ [Next]_vars => Owned'
<1> SUFFICES ASSUME LedgerInv, SliceType, Phases, Owned, [Next]_vars PROVE Owned'
  BY Zenon DEF SliceInv
<1> USE SliceAssumption DEF Goto, Set
<1>0. /\ pc \in [Jobs -> Labels] /\ me \in [Jobs -> Local]
      /\ res \in [Handles -> Object] /\ made \in 0 .. ResPool
  BY Zenon DEF SliceType
<1>1. CASE Boot
  <2>1. PICK c : claims' = claims \/ claims' = Append(claims, c)
    BY <1>1, Zenon DEF Boot, Reserve, claim_locked
  <2>2. claims \in Seq(Claim)
    BY Zenon DEF LedgerInv, TypeOK
  <2>3. \A x, t : BackedIn(claims, x, t) => BackedIn(claims', x, t)
    BY <2>1, <2>2 DEF BackedIn
  <2>4. res' = res /\ pc' = pc /\ me' = me
    BY <1>1, Zenon DEF Boot, resVars
  <2>5. QED
    BY <2>3, <2>4, OwnedFrame, Zenon
<1>2. ASSUME NEW j \in Jobs, JobStep(j) PROVE Owned'
  <2>1. ASSUME NEW s \in Sizes, AllocateSlice(j, s) PROVE Owned'
    <3>1. PICK b \in Least(Starts(claims, s)) :
            /\ MethodAlloc(s) /\ Goto(j, "create") /\ Set(j, [me[j] EXCEPT !.base = b, !.size = s])
      BY <2>1, Zenon DEF AllocateSlice
    <3>2. /\ b \in Addr /\ s \in Nat \ {0} /\ b + s < AddrSpace
          /\ ~ ClaimRefused(claims, b, s) /\ claims' = claim_locked(claims, b, s)
      BY <3>1, AllocGrants, Zenon
    <3> DEFINE new == [me[j] EXCEPT !.base = b, !.size = s]
    <3>a. new.base = b /\ new.size = s
      BY <1>0, Zenon DEF Local
    <3> HIDE DEF new
    <3>b. pc' = [pc EXCEPT ![j] = "create"] /\ me' = [me EXCEPT ![j] = new]
      BY <3>1, Zenon DEF new
    <3>3. /\ pc[j] = "slice" /\ pc'[j] = "create" /\ me'[j].base = b /\ me'[j].size = s
          /\ \A k \in Jobs \ {j} : pc'[k] = pc[k] /\ me'[k] = me[k]
      BY <2>1, <3>a, <3>b, <1>0, Zenon DEF AllocateSlice
    <3>4. res' = res
      BY <2>1, Zenon DEF AllocateSlice, resVars
    <3>5. QED
      BY <3>2, <3>3, <3>4, OwnedGrant, Zenon
  <2>2. CASE \/ \E s \in Sizes : AllocateSliceRejected(j, s)
             \/ TryLockSet(j) \/ TryLockHold(j) \/ Unlock(j) \/ UnlockClear(j) \/ ReleaseCheck(j)
    <3>1. claims' = claims /\ res' = res
      BY <2>2, Zenon DEF AllocateSliceRejected, MethodAllocRejected, TryLockSet, TryLockHold, Unlock, UnlockClear,
                  ReleaseCheck, resVars, memVars
    <3>2. /\ pc[j] \notin {"create", "destroy"} /\ pc'[j] \notin {"create", "destroy"}
          /\ \A k \in Jobs \ {j} : pc'[k] = pc[k] /\ me'[k] = me[k]
      BY <2>2, <1>0 DEF AllocateSliceRejected, TryLockSet, TryLockHold, Unlock, UnlockClear, ReleaseCheck, Phases
    <3>3. QED
      BY <3>1, <3>2, OwnedFrame, Zenon
  <2>3. CASE CreateResource(j)
    <3>1. /\ pc[j] = "create" /\ pc'[j] \in {"unlock", "idle"} /\ claims' = claims
          /\ \A k \in Jobs \ {j} : pc'[k] = pc[k] /\ me'[k] = me[k]
      BY <2>3, <1>0, Zenon DEF CreateResource, memVars
    <3>2. /\ ~ Creating(j)' /\ Creating(j)
          /\ \A k \in Jobs \ {j} : Creating(k)' = Creating(k)
      BY <3>1, ZenonT(60) DEF Creating
    <3>3. CASE res' = res
      <4>1. \A r \in Handles : InUse(r)' = InUse(r)
        BY <3>1, <3>3, ZenonT(60) DEF InUse, BeingDestroyed
      <4>2. QED
        BY <3>1, <3>2, <3>3, <4>1 DEF Owned
    <3>4. CASE res' # res
      <4> DEFINE n == made + 1
      <4>1. /\ n \in Handles
            /\ \A r \in Handles \ {n} : res'[r] = res[r]
            /\ res'[n].base = me[j].base /\ res'[n].size = me[j].size
        BY <2>3, <3>4, <1>0 DEF CreateResource, resVars, Handles
      <4>2. \A k \in Jobs : pc[k] = "destroy" => me[k].r # n
        BY <1>0, <4>1 DEF Phases
      <4>3. \A r \in Handles \ {n} : InUse(r)' = InUse(r)
        BY <3>1, <4>1 DEF InUse, BeingDestroyed
      <4>4. \A r \in Handles \ {n} : InUse(r) => res[r].base # me[j].base
        BY <3>2, Zenon DEF Owned
      <4>5. \A k \in Jobs \ {j} : Creating(k) => me[k].base # me[j].base
        BY <3>2, Zenon DEF Owned
      <4>6. BackedIn(claims', me[j].base, me[j].size)
        BY <3>1, <3>2, Zenon DEF Owned
      <4> HIDE DEF n
      <4>7. \A r \in Handles : InUse(r)' => BackedIn(claims', res'[r].base, res'[r].size)
        BY <3>1, <4>1, <4>3, <4>6, Zenon DEF Owned
      <4>8. \A k \in Jobs : Creating(k)' => BackedIn(claims', me'[k].base, me'[k].size)
        BY <3>1, <3>2, ZenonT(60) DEF Owned
      <4>9. \A r, q \in Handles : r # q /\ InUse(r)' /\ InUse(q)' => res'[r].base # res'[q].base
        BY <4>1, <4>3, <4>4 DEF Owned
      <4>10. \A i, k \in Jobs : i # k /\ Creating(i)' /\ Creating(k)' => me'[i].base # me'[k].base
        BY <3>1, <3>2 DEF Owned
      <4>11. \A r \in Handles, k \in Jobs : InUse(r)' /\ Creating(k)' => res'[r].base # me'[k].base
        BY <3>1, <3>2, <4>1, <4>3, <4>5 DEF Owned
      <4>12. QED
        BY <4>7, <4>8, <4>9, <4>10, <4>11, Zenon DEF Owned
    <3>5. QED
      BY <3>3, <3>4, Zenon
  <2>4. CASE ReleaseFree(j)
    <3>m. PICK m \in Handles : m = me[j].r
      BY <2>4, Zenon DEF ReleaseFree, Phases
    <3>1. /\ pc[j] = "free" /\ m \in Handles /\ res[m].live /\ res[m].by = j /\ res[m].base = me[j].base
      BY <2>4, <3>m, Zenon DEF ReleaseFree, Phases
    <3>2. me' = me /\ res' = res /\ \A k \in Jobs \ {j} : pc'[k] = pc[k]
      BY <2>4, <1>0, ZenonT(60) DEF ReleaseFree, resVars
    <3>3. CASE MethodFree(me[j].base) /\ Goto(j, "destroy")
      <4>1. pc'[j] = "destroy"
        BY <3>3, <1>0, Zenon
      <4>2. me[j].base \in Addr
        BY <1>0, Zenon DEF Local, Addr
      <4>3. \A x, t : x # me[j].base /\ BackedIn(claims, x, t) => BackedIn(claims', x, t)
        BY <3>3, <4>2, FreeBacks
      <4>4. InUse(m)
        BY <3>m, <3>1 DEF InUse, BeingDestroyed, Phases
      <4>5. ~ InUse(m)' /\ \A r \in Handles \ {m} : InUse(r)' = InUse(r)
        BY <3>m, <3>1, <3>2, <4>1 DEF InUse, BeingDestroyed
      <4>6. \A k \in Jobs : Creating(k)' = Creating(k)
        BY <3>1, <3>2, <4>1, Zenon DEF Creating
      <4>7. \A r \in Handles \ {m} : InUse(r) => res[r].base # me[j].base
        BY <3>1, <4>4, Zenon DEF Owned
      <4>8. \A k \in Jobs : Creating(k) => me[k].base # me[j].base
        BY <3>1, <4>4 DEF Owned
      <4>9. ASSUME NEW r \in Handles, InUse(r)'
            PROVE  InUse(r) /\ BackedIn(claims', res[r].base, res[r].size)
        <5>1. r \in Handles \ {m} /\ InUse(r)
          BY <4>5, <4>9, Zenon
        <5>2. BackedIn(claims, res[r].base, res[r].size)
          BY <5>1, Zenon DEF Owned
        <5>3. res[r].base # me[j].base
          BY <4>7, <5>1, Zenon
        <5>4. QED
          BY <4>3, <5>1, <5>2, <5>3
      <4>10. \A k \in Jobs : Creating(k) => BackedIn(claims', me[k].base, me[k].size)
        BY <4>3, <4>8, Zenon DEF Owned
      <4>11. QED
        BY <3>2, <4>6, <4>9, <4>10, OwnedEnds
    <3>4. CASE MethodFreeRejected(me[j].base) /\ Goto(j, "unlock")
      <4>1. claims' = claims /\ pc'[j] = "unlock"
        BY <3>4, <1>0, Zenon DEF MethodFreeRejected
      <4>2. QED
        BY <3>1, <3>2, <4>1, OwnedFrame
    <3>5. QED
      BY <2>4, <3>3, <3>4, Zenon DEF ReleaseFree
  <2>5. CASE ReleaseDestroy(j)
    <3>m. PICK m \in Handles : m = me[j].r
      BY <2>5, Zenon DEF ReleaseDestroy, Phases
    <3>1. /\ pc[j] = "destroy" /\ m \in Handles /\ pc'[j] = "unlock" /\ me' = me /\ claims' = claims
          /\ \A k \in Jobs \ {j} : pc'[k] = pc[k]
      BY <2>5, <1>0 DEF ReleaseDestroy, Phases, memVars
    <3>2. ~ res'[m].live /\ \A r \in Handles \ {m} : res'[r] = res[r]
      BY <2>5, <3>m, <3>1, <1>0, Zenon DEF ReleaseDestroy, Dead
    <3>3. ~ InUse(m)' /\ \A r \in Handles \ {m} : InUse(r)' = InUse(r)
      BY <3>m, <3>1, <3>2 DEF InUse, BeingDestroyed
    <3>4. \A k \in Jobs : Creating(k)' = Creating(k)
      BY <3>1, Zenon DEF Creating
    <3>5. ASSUME NEW r \in Handles, InUse(r)'
          PROVE  InUse(r) /\ res'[r] = res[r] /\ BackedIn(claims', res[r].base, res[r].size)
      <4>1. r \in Handles \ {m} /\ InUse(r)
        BY <3>3, <3>5, Zenon
      <4>2. BackedIn(claims, res[r].base, res[r].size)
        BY <4>1, Zenon DEF Owned
      <4>3. QED
        BY <3>1, <3>2, <4>1, <4>2, Zenon
    <3>6. \A k \in Jobs : Creating(k) => BackedIn(claims', me[k].base, me[k].size)
      BY <3>1, Zenon DEF Owned
    <3>7. QED
      BY <3>1, <3>4, <3>5, <3>6, OwnedEnds
  <2>6. QED
    BY <1>2, <2>1, <2>2, <2>3, <2>4, <2>5 DEF JobStep
<1>3. ASSUME NEW j \in Jobs, NEW w, NEW r, TryLock(j, w, r) PROVE Owned'
  <2>1. /\ pc[j] = "idle" /\ pc'[j] = "set" /\ claims' = claims /\ res' = res
        /\ \A k \in Jobs \ {j} : pc'[k] = pc[k] /\ me'[k] = me[k]
    BY <1>3, <1>0, Zenon DEF TryLock, memVars, resVars
  <2>2. QED
    BY <2>1, OwnedFrame, Zenon
<1>4. ASSUME NEW j \in Jobs, NEW a \in ClaimArgs, RequestAllocation(j, a[1], a[2]) PROVE Owned'
  <2>1. a[1] \in Addr /\ a[2] \in Nat \ {0} /\ a[1] + a[2] < AddrSpace
    BY MemMgrAssumption, Zenon DEF RegionArgs
  <2>2. ~ ClaimRefused(claims, a[1], a[2]) /\ claims' = claim_locked(claims, a[1], a[2])
    BY <1>4, Zenon DEF RequestAllocation, MethodClaim
  <2>3. /\ pc[j] = "idle" /\ pc'[j] = "create" /\ me'[j].base = a[1] /\ me'[j].size = a[2]
        /\ \A k \in Jobs \ {j} : pc'[k] = pc[k] /\ me'[k] = me[k]
    BY <1>4, <1>0, Zenon DEF RequestAllocation, Idle
  <2>4. res' = res
    BY <1>4, Zenon DEF RequestAllocation, resVars
  <2>5. QED
    BY <2>1, <2>2, <2>3, <2>4, OwnedGrant
<1>5. CASE UNCHANGED vars
  BY <1>5, OwnedFrame, Zenon DEF vars, memVars, resVars
<1>6. QED
  BY <1>1, <1>2, <1>3, <1>4, <1>5 DEF Next
-----------------------------------------------------------------------------
(* Before the first call there are no objects and no jobs under way.       *)
LEMMA SliceInvInit == Init => SliceInv
<1> SUFFICES ASSUME Init PROVE SliceInv
  BY Zenon
<1>1. LedgerInv
  BY LedgerInvInit, Zenon DEF Init
<1>2. SliceType
  BY SliceAssumption, MemMgrAssumption
     DEF Init, SliceType, Object, Labels, Local, Idle, Dead, Addr
<1>3. (\A r \in Handles : ~ res[r].live) /\ (\A j \in Jobs : pc[j] = "idle")
  BY Zenon DEF Init, Dead
<1>4. Phases /\ Owned
  BY <1>3, Zenon DEF Phases, Owned, InUse, Creating
<1>5. QED
  BY <1>1, <1>2, <1>4, Zenon DEF SliceInv

(* The invariant of the slice handlers: the ledger's own, the job's hold   *)
(* on the object it releases, and regions with different beginnings.       *)
THEOREM SliceInvariant == Spec => []SliceInv
<1>1. SliceInv /\ [Next]_vars => SliceInv'
  BY LedgerStep, LedgerInvNext, TypeStep, PhasesStep, OwnedStep DEF SliceInv
<1>2. QED
  BY <1>1, SliceInvInit, PTL DEF Spec

(* No two live slices share memory and each has its own claim, for any     *)
(* number of jobs on any cores, although mutex_handler may let two of them *)
(* in and request_allocation asks for no mutex (handle_allocate_slice,     *)
(* handle_release_slice).                                                  *)
THEOREM SlicesBackedAlways == Spec => []SlicesBacked
<1>1. SliceInv => SlicesBacked
  <2> SUFFICES ASSUME SliceInv, NEW r \in Handles, InUse(r)
               PROVE  /\ \E i \in DOMAIN claims : /\ claims[i].used /\ claims[i].base = res[r].base
                                                  /\ claims[i].size = res[r].size
                      /\ \A q \in Handles \ {r} : InUse(q) => Cells(res[r]) \cap Cells(res[q]) = {}
    BY Zenon DEF SlicesBacked, InUse
  <2>1. PICK i \in DOMAIN claims : claims[i].used /\ claims[i].base = res[r].base /\ claims[i].size = res[r].size
    BY Zenon DEF SliceInv, Owned, BackedIn
  <2>2. ASSUME NEW q \in Handles \ {r}, InUse(q)
        PROVE  Cells(res[r]) \cap Cells(res[q]) = {}
    <3>1. PICK k \in DOMAIN claims : claims[k].used /\ claims[k].base = res[q].base /\ claims[k].size = res[q].size
      BY <2>2, Zenon DEF SliceInv, Owned, BackedIn
    <3>2. i # k
      BY <2>1, <2>2, <3>1, Zenon DEF SliceInv, Owned
    <3>3. Cells(claims[i]) \cap Cells(claims[k]) = {}
      BY <2>1, <3>1, <3>2, Zenon DEF SliceInv, LedgerInv, NoOverlap, Used
    <3>4. QED
      BY <2>1, <3>1, <3>3, Zenon DEF Cells
  <2>3. QED
    BY <2>1, <2>2, Zenon
<1>2. QED
  BY <1>1, SliceInvariant, PTL

(* Only the job that reserved a slice takes it back, whoever else holds    *)
(* the allocator mutex meanwhile (handle_release_slice's check is still    *)
(* true when the object is destroyed).                                     *)
THEOREM ReleasedByReserverAlways == Spec => ReleasedByReserver
<1> DEFINE P == \A r \in Handles : res[r].live /\ ~ res'[r].live =>
                   \E j \in Jobs : pc[j] = "destroy" /\ me[j].r = r /\ res[r].by = j
<1>1. SliceInv /\ [Next]_vars => [P]_vars
  <2> SUFFICES ASSUME SliceInv, Next, NEW r \in Handles, res[r].live, ~ res'[r].live
               PROVE  \E j \in Jobs : pc[j] = "destroy" /\ me[j].r = r /\ res[r].by = j
    BY Zenon
  <2>1. res' # res
    BY Zenon
  <2>2. PICK j \in Jobs : CreateResource(j) \/ ReleaseDestroy(j)
    BY <2>1, Zenon DEF Next, JobStep, Boot, TryLock, TryLockSet, TryLockHold, Unlock, UnlockClear, AllocateSlice,
                AllocateSliceRejected, RequestAllocation, ReleaseCheck, ReleaseFree, resVars
  <2>3. res \in [Handles -> Object]
    BY Zenon DEF SliceInv, SliceType
  <2>4. ~ CreateResource(j)
    BY <2>3 DEF CreateResource, resVars
  <2>5. pc[j] = "destroy" /\ me[j].r \in Handles /\ res[me[j].r].by = j
    BY <2>2, <2>4, Zenon DEF ReleaseDestroy, SliceInv, Phases
  <2>6. me[j].r = r
    BY <2>2, <2>3, <2>4, <2>5, Zenon DEF ReleaseDestroy
  <2>7. QED
    BY <2>5, <2>6, Zenon
<1>2. QED
  BY <1>1, SliceInvariant, PTL DEF Spec, ReleasedByReserver

-----------------------------------------------------------------------------
(* First fit rests on the least element of a set of addresses, so on the   *)
(* library's induction theorems, which nothing above needs.                *)
LOCAL INSTANCE WellFoundedInduction

(* Every non-empty set of naturals has a least element.                    *)
LEMMA LeastExists == ASSUME NEW S \in SUBSET Nat, S # {}
                     PROVE  Least(S) # {}
<1>1. PICK x \in S : \A y \in S : ~ (<<y, x>> \in OpToRel(<, Nat))
  BY WFMin, NatLessThanWellFounded, Zenon
<1>2. \A y \in S : ~ (y < x)
  <2>1. OpToRel(<, Nat) = {ss \in Nat \X Nat : ss[1] < ss[2]}
    BY Zenon DEF OpToRel
  <2>2. QED
    BY <1>1, <2>1, Zenon
<1>3. QED
  BY <1>2 DEF Least

(* While the ledger has room, alloc takes the lowest gap there is.         *)
LEMMA FirstFitStep == LedgerInv => AllocFirstFit
<1> SUFFICES ASSUME LedgerInv, Len(claims) < MaxClaims, NEW s \in Sizes
             PROVE  Least(Starts(claims, s)) = Least(Gaps(s))
  BY Zenon DEF AllocFirstFit
<1>1. Starts(claims, s) \subseteq Gaps(s)
  BY StartsAmongGaps, Zenon
<1>2. Least(Gaps(s)) \subseteq Starts(claims, s)
  BY StartsAmongGaps, Zenon
<1>3. Gaps(s) \subseteq Nat
  BY MemMgrAssumption DEF Gaps, Addr
<1>4. Least(Gaps(s)) \subseteq Least(Starts(claims, s))
  BY <1>1, <1>2, Zenon DEF Least
<1>5. Least(Starts(claims, s)) \subseteq Least(Gaps(s))
  <2> SUFFICES ASSUME NEW m \in Least(Starts(claims, s)) PROVE m \in Least(Gaps(s))
    BY Zenon
  <2>1. m \in Gaps(s)
    BY <1>1, Zenon DEF Least
  <2>2. PICK g \in Least(Gaps(s)) : TRUE
    BY <1>3, <2>1, LeastExists, Zenon
  <2>3. m <= g
    BY <1>2, Zenon DEF Least
  <2>4. QED
    BY <1>3, <2>1, <2>3 DEF Least
<1>6. QED
  BY <1>4, <1>5, Zenon

(* First fit is correct for every ledger the manager can reach: while the  *)
(* ledger has room, alloc succeeds exactly when the window has a gap and   *)
(* takes the lowest one.                                                   *)
THEOREM AllocFirstFitAlways == MemSpec => []AllocFirstFit
BY FirstFitStep, LedgerInvariant, PTL

(* The cluster scheduler uses the memory manager as its object prescribes, *)
(* so the ledger still implements the pool and still allocates first fit.  *)
THEOREM SlicesKeepPool == Spec => PoolSpec /\ []AllocFirstFit
<1>1. Init => MemInit
  BY Zenon DEF Init
<1>2. SliceInv => SliceType
  BY Zenon DEF SliceInv
<1>3. Spec => MemSpec
  BY <1>1, <1>2, LedgerStep, SliceInvariant, PTL DEF Spec, MemSpec
<1>4. QED
  BY <1>3, LedgerImplementsPool, AllocFirstFitAlways, PTL
=============================================================================

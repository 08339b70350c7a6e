--------------------------- MODULE BringupProofs ----------------------------
(***************************************************************************)
(* Proofs about what brings a core and its first job up: the stage loader  *)
(* and the hardware mutex.  The two share no state.                        *)
(*                                                                         *)
(* StageLoader, for every image, region and memory: the loader stays       *)
(* inside its region and loads an image exactly.  The second pass repeats  *)
(* none of the bounds checks, so the invariant remembers which commands    *)
(* the first pass has let through, what it has copied and what it knows    *)
(* of the entry.                                                           *)
(*                                                                         *)
(* MutexMgr, for any number of cores and mutexes: the lock word of a mutex *)
(* is set exactly while one core is inside, so the manager excludes, and   *)
(* it implements MutexService.                                             *)
(***************************************************************************)
EXTENDS StageLoader, MutexMgr, TLAPS

Checked(n) == \A i \in DOMAIN image.cmds :
                i < n /\ Loaded(image.cmds[i]) => InBounds(image.cmds[i])

LoadType ==
    /\ image \in ImageType
    /\ pass \in 0 .. 2 /\ at \in Nat \ {0} /\ have \in BOOLEAN
    /\ entryoff \in Nat /\ mem \in [Ram -> Int]

LoadInv ==
    /\ LoadType /\ StaysInside
    /\ entry \in Region \cup {0}
    /\ pass = 1 => Checked(at)
    /\ pass = 2 => Checked(Len(image.cmds) + 1)

(* The command at hand is one, and has numbers in its fields.              *)
LEMMA CmdType ==
    ASSUME image \in ImageType, at \in Nat \ {0}, at <= Len(image.cmds)
    PROVE  at \in DOMAIN image.cmds /\ Cmd \in Commands
<1>1. image.cmds \in Seq(Commands)
  BY Zenon DEF ImageType
<1>2. at \in 1 .. Len(image.cmds)
  BY <1>1
<1> QED
  BY <1>1, <1>2 DEF Cmd

(* A file offset that a checked segment holds maps into the region.        *)
LEMMA HeldInside ==
    ASSUME NEW c \in Commands, NEW off \in Nat, image \in ImageType, InBounds(c), Holds(c, off)
    PROVE  AddressOf(c, off) \in Region
<1>1. c.vmaddr \in Nat /\ c.vmsize \in Nat /\ c.fileoff \in Nat /\ c.filesize \in Nat
  BY Zenon DEF Commands
<1>2. off >= c.fileoff /\ off - c.fileoff < c.filesize
  BY Zenon DEF Holds
<1>3. c.vmsize <= ReservedSize - c.vmaddr /\ c.filesize <= c.vmsize
  BY Zenon DEF InBounds
<1> QED
  BY <1>1, <1>2, <1>3, LoaderAssumption DEF AddressOf, Region

(* Copying a checked segment leaves everything outside the region alone.   *)
LEMMA CopyInside ==
    ASSUME NEW c \in Commands, InBounds(c), mem \in [Ram -> Int], NEW a \in Ram \ Region
    PROVE  Copied(c)[a] = mem[a]
<1>1. c.vmaddr \in Nat /\ c.vmsize \in Nat /\ c.filesize \in Nat
  BY Zenon DEF Commands
<1>2. c.vmaddr <= ReservedSize /\ c.vmsize <= ReservedSize - c.vmaddr
  BY Zenon DEF InBounds
<1>3. a \in Nat /\ (a < TargetBase \/ a >= TargetBase + ReservedSize)
  BY LoaderAssumption DEF Region
<1>4. a < TargetBase + c.vmaddr \/ a >= TargetBase + c.vmaddr + c.vmsize
  BY <1>1, <1>2, <1>3, LoaderAssumption
<1> QED
  BY <1>4, Zenon DEF Copied

(* A copy writes bytes of the file and zeroes.                             *)
LEMMA CopyType ==
    ASSUME NEW c \in Commands, mem \in [Ram -> Int]
    PROVE  Copied(c) \in [Ram -> Int]
<1>1. c.vmaddr \in Nat /\ c.fileoff \in Nat
  BY Zenon DEF Commands
<1> QED
  BY <1>1, LoaderAssumption DEF Copied, Fetched

(* stage_load_macho begins with nothing written and no entry.              *)
LEMMA LoadInitInv == LoadInit => LoadInv
<1> SUFFICES ASSUME LoadInit PROVE LoadInv
  BY Zenon
<1>1. image \in ImageType
  BY LoaderAssumption, Zenon DEF LoadInit
<1>2. LoadType
  <2>1. have \in BOOLEAN
    BY Zenon DEF LoadInit
  <2>2. mem \in [Ram -> Int]
    BY DEF LoadInit, Untouched
  <2>3. pass \in 0 .. 2 /\ at \in Nat \ {0} /\ entryoff \in Nat
    BY DEF LoadInit
  <2> QED
    BY <1>1, <2>1, <2>2, <2>3, Zenon DEF LoadType
<1>3. StaysInside
  BY Zenon DEF LoadInit, StaysInside
<1>4. Checked(at)
  <2>1. image.cmds \in Seq(Commands)
    BY <1>1, Zenon DEF ImageType
  <2> QED
    BY <2>1 DEF LoadInit, Checked
<1> QED
  BY <1>2, <1>3, <1>4 DEF LoadInit, LoadInv

(* Each command's handling, in either pass, keeps the invariant.           *)
LEMMA LoadNextInv == LoadInv /\ [LoadNext]_loaderVars => LoadInv'
<1> SUFFICES ASSUME LoadInv, [LoadNext]_loaderVars PROVE LoadInv'
  BY Zenon
<1> USE DEF LoadInv, LoadType
<1>0. image.cmds \in Seq(Commands) /\ Len(image.cmds) \in Nat
  BY DEF ImageType
<1>1. CASE LoadRefuse
  BY <1>1 DEF LoadRefuse, Returns, StaysInside, Checked, InBounds
<1>2. CASE LoadSegment
  <2>1. /\ pass = 1 /\ at <= Len(image.cmds) /\ at' = at + 1 /\ InBounds(Cmd)
        /\ UNCHANGED <<image, pass, have, entryoff, result>>
    BY <1>2, Zenon DEF LoadSegment, Reads
  <2>2. at \in DOMAIN image.cmds /\ Cmd \in Commands
    BY <2>1, CmdType, Zenon
  <2>3. mem' = Copied(Cmd)
    BY <1>2, Zenon DEF LoadSegment
  <2>4. mem' \in [Ram -> Int] /\ \A a \in Ram \ Region : mem'[a] = Untouched
    BY <2>1, <2>2, <2>3, CopyType, CopyInside, Zenon DEF StaysInside
  <2>5. entry' \in Region \cup {0}
    BY <1>2, <2>1, <2>2, HeldInside, Zenon DEF LoadSegment
  <2>6. Checked(at)'
    <3> SUFFICES ASSUME NEW i \in DOMAIN image.cmds, i < at + 1, Loaded(image.cmds[i])
                 PROVE  InBounds(image.cmds[i])
      BY <2>1, Zenon DEF Checked, InBounds
    <3>1. CASE i = at
      BY <3>1, <2>1, Zenon DEF Cmd
    <3>2. CASE i < at
      BY <3>2, <2>1, Zenon DEF Checked
    <3> QED
      BY <3>1, <3>2, <1>0
  <2> QED
    BY <2>1, <2>4, <2>5, <2>6 DEF StaysInside
<1>3. ASSUME LoadMain \/ LoadSkip PROVE LoadInv'
  <2>1. /\ pass = 1 /\ at <= Len(image.cmds) /\ at' = at + 1 /\ ~ Loaded(Cmd)
        /\ UNCHANGED <<image, pass, entry, mem, result>>
    BY <1>3, Zenon DEF LoadMain, LoadSkip, Reads, Loaded
  <2>2. at \in DOMAIN image.cmds /\ Cmd \in Commands
    BY <2>1, CmdType, Zenon
  <2>3. have' \in BOOLEAN /\ entryoff' \in Nat
    BY <1>3, <2>2, Zenon DEF LoadMain, LoadSkip, Commands
  <2>4. Checked(at)'
    <3> SUFFICES ASSUME NEW i \in DOMAIN image.cmds, i < at + 1, Loaded(image.cmds[i])
                 PROVE  InBounds(image.cmds[i])
      BY <2>1, Zenon DEF Checked, InBounds
    <3>1. i < at
      BY <2>1, <1>0 DEF Cmd
    <3> QED
      BY <3>1, <2>1, Zenon DEF Checked
  <2> QED
    BY <2>1, <2>3, <2>4 DEF StaysInside
<1>4. CASE LoadFirstPassEnds
  <2>1. /\ pass = 1 /\ at > Len(image.cmds) /\ UNCHANGED <<image, have, entryoff, entry, mem>>
        /\ \/ pass' = 2 /\ at' = 1 /\ result' = result
           \/ pass' = 0 /\ result' = entry /\ at' = at
    BY <1>4, Zenon DEF LoadFirstPassEnds, Returns
  <2>2. Checked(Len(image.cmds) + 1)'
    <3> SUFFICES ASSUME NEW i \in DOMAIN image.cmds, Loaded(image.cmds[i])
                 PROVE  InBounds(image.cmds[i])
      BY <2>1, Zenon DEF Checked, InBounds
    <3>1. i < at
      BY <2>1, <1>0
    <3> QED
      BY <3>1, <2>1, Zenon DEF Checked
  <2> QED
    BY <2>1, <2>2 DEF StaysInside
<1>5. CASE LoadLookUp
  <2>1. pass = 2 /\ UNCHANGED <<image, have, entryoff, mem>>
    BY <1>5, Zenon DEF LoadLookUp
  <2>2. Checked(Len(image.cmds) + 1)'
    BY <2>1, Zenon DEF Checked, InBounds
  <2>3. CASE at > Len(image.cmds)
    BY <1>5, <2>1, <2>2, <2>3 DEF LoadLookUp, Returns, StaysInside
  <2>4. CASE at <= Len(image.cmds) /\ Holds(Cmd, entryoff)
    <3>1. at \in DOMAIN image.cmds /\ Cmd \in Commands
      BY <2>4, CmdType, Zenon
    <3>2. InBounds(Cmd)
      BY <2>1, <2>4, <3>1, <1>0 DEF Checked, Holds, Cmd
    <3>3. AddressOf(Cmd, entryoff) \in Region
      BY <2>4, <3>1, <3>2, HeldInside, Zenon
    <3>4. entry' = AddressOf(Cmd, entryoff) /\ pass' = 0 /\ result' = entry' /\ at' = at
      BY <1>5, <2>4, <1>0 DEF LoadLookUp, Returns
    <3> QED
      BY <2>1, <3>3, <3>4 DEF StaysInside
  <2>5. CASE at <= Len(image.cmds) /\ ~ Holds(Cmd, entryoff)
    <3>1. at' = at + 1 /\ UNCHANGED <<pass, entry, result>>
      BY <1>5, <2>5, <1>0 DEF LoadLookUp
    <3> QED
      BY <2>1, <2>2, <3>1 DEF StaysInside
  <2> QED
    BY <2>3, <2>4, <2>5, <1>0
<1>6. CASE UNCHANGED loaderVars
  BY <1>6 DEF loaderVars, StaysInside, Checked, InBounds
<1> QED
  BY <1>1, <1>2, <1>3, <1>4, <1>5, <1>6, Zenon DEF LoadNext

(* stage_load_macho writes only to the region claimed for the stage and    *)
(* returns an entry in it or none, for every image and every region.       *)
THEOREM LoaderStaysInside == LoadSpec => []StaysInside
<1>1. LoadInv => StaysInside
  BY Zenon DEF LoadInv
<1> QED
  BY <1>1, LoadInitInv, LoadNextInv, PTL DEF LoadSpec

-----------------------------------------------------------------------------
(* LoadedExact's parts, by name: the segments, what it means for one to be *)
(* in place, and which images are to be accepted.                          *)
Segs == {i \in DOMAIN image.cmds : Loaded(image.cmds[i])}

Placed(c, arm, m, range) ==
    \A n \in 0 .. ReservedSize :
        LET a == TargetBase + c.vmaddr + n IN
        /\ n < c.filesize => m[a] = Fetched(c.fileoff + n)
        /\ n >= c.filesize /\ n < c.vmsize => m[a] = 0
        /\ arm /\ c.exec /\ n < c.filesize => range.start <= a /\ a < range.end

InPlace(c) == Placed(c, image.arm, mem, code)

Acceptable ==
    /\ image.header /\ \A i \in DOMAIN image.cmds : image.cmds[i].fits
    /\ \A i \in Segs : InBounds(image.cmds[i])
    /\ \E m \in DOMAIN image.cmds :
          image.cmds[m].cmd = "main" /\ \E i \in Segs : Holds(image.cmds[i], image.cmds[m].entryoff)

Outcome ==
    /\ result # 0 <=> Acceptable
    /\ result # 0 => mem[result] = Fetched(entryoff) /\ \A i \in Segs : InPlace(image.cmds[i])

(* What the first pass knows of the commands before the n-th: they passed  *)
(* the checks and are in place; have_entry and entryoff are of the LC_MAIN *)
(* among them; an entry was computed from a segment that holds it.         *)
CheckedTo(n) ==
    \A i \in DOMAIN image.cmds : i < n =>
        /\ image.header /\ image.cmds[i].fits
        /\ Loaded(image.cmds[i]) => InBounds(image.cmds[i]) /\ InPlace(image.cmds[i])

MainTo(n) ==
    IF have
    THEN \E m \in DOMAIN image.cmds :
            m < n /\ image.cmds[m].cmd = "main" /\ entryoff = image.cmds[m].entryoff
    ELSE \A m \in DOMAIN image.cmds : m < n => image.cmds[m].cmd # "main"

EntryTo(n) ==
    entry # 0 =>
        /\ have
        /\ \E i \in DOMAIN image.cmds :
              i < n /\ Holds(image.cmds[i], entryoff) /\ entry = AddressOf(image.cmds[i], entryoff)

ScanInv == CheckedTo(at) /\ MainTo(at) /\ EntryTo(at)

(* The second pass has the first one's result and no entry yet.            *)
LookInv ==
    /\ image.header /\ have /\ entry = 0
    /\ CheckedTo(Len(image.cmds) + 1) /\ MainTo(Len(image.cmds) + 1)
    /\ \A i \in DOMAIN image.cmds : i < at => ~ Holds(image.cmds[i], entryoff)

ExactInv ==
    WellFormed =>
        /\ code \in [start : Int, end : Int]
        /\ pass = 1 => ScanInv
        /\ pass = 2 => LookInv
        /\ pass = 0 => Outcome

(* A well-formed image has one LC_MAIN.                                    *)
LEMMA OneMain ==
    ASSUME image \in ImageType, WellFormed,
           NEW i \in DOMAIN image.cmds, NEW j \in DOMAIN image.cmds,
           image.cmds[i].cmd = "main", image.cmds[j].cmd = "main"
    PROVE  i = j
BY Zenon DEF WellFormed

(* Two segments of a well-formed image share no address.                   *)
LEMMA Disjoint ==
    ASSUME WellFormed, NEW i \in Segs, NEW j \in Segs, i # j
    PROVE  \/ image.cmds[i].vmaddr + image.cmds[i].vmsize <= image.cmds[j].vmaddr
           \/ image.cmds[j].vmaddr + image.cmds[j].vmsize <= image.cmds[i].vmaddr
BY Zenon DEF WellFormed, Segs

(* Copying a segment puts it in place.                                     *)
LEMMA PlacedNew ==
    ASSUME NEW c \in Commands, image \in ImageType, InBounds(c), mem \in [Ram -> Int],
           code \in [start : Int, end : Int],
           mem' = Copied(c), code' = CodeRange(c)
    PROVE  Placed(c, image.arm, mem', code') /\ code' \in [start : Int, end : Int]
<1>1. c.vmaddr \in Nat /\ c.vmsize \in Nat /\ c.fileoff \in Nat /\ c.filesize \in Nat /\ c.exec \in BOOLEAN
  BY Zenon DEF Commands
<1>2. c.vmaddr <= ReservedSize /\ c.vmsize <= ReservedSize - c.vmaddr /\ c.filesize <= c.vmsize
  BY Zenon DEF InBounds
<1>3. TargetBase \in Nat /\ ReservedSize \in Nat /\ Ram \subseteq Nat
      /\ TargetBase .. TargetBase + ReservedSize - 1 \subseteq Ram
  BY LoaderAssumption, Zenon
<1>4. code.start \in Int /\ code.end \in Int
  BY Zenon
<1>5. code' \in [start : Int, end : Int]
      /\ (image.arm /\ c.exec => code'.start <= TargetBase + c.vmaddr
                                 /\ code'.end >= TargetBase + c.vmaddr + c.filesize)
  BY <1>1, <1>3, <1>4 DEF CodeRange
<1>6. code'.start \in Int /\ code'.end \in Int
  BY <1>5, Zenon
<1>7. ASSUME NEW n \in 0 .. ReservedSize, NEW a, a = TargetBase + c.vmaddr + n
      PROVE  /\ n < c.filesize => mem'[a] = Fetched(c.fileoff + n)
             /\ n >= c.filesize /\ n < c.vmsize => mem'[a] = 0
             /\ image.arm /\ c.exec /\ n < c.filesize => code'.start <= a /\ a < code'.end
  <2>1. n < c.vmsize => a \in Ram
    BY <1>1, <1>2, <1>3, <1>7
  <2>2. a \in Nat /\ a - (TargetBase + c.vmaddr) = n /\ a >= TargetBase + c.vmaddr
    BY <1>1, <1>3, <1>7
  <2>3. ASSUME n < c.filesize PROVE mem'[a] = Fetched(c.fileoff + n)
    <3>1. a \in Ram /\ a < TargetBase + c.vmaddr + c.filesize /\ a < TargetBase + c.vmaddr + c.vmsize
      BY <1>1, <1>2, <1>3, <1>7, <2>1, <2>3
    <3> QED
      BY <1>1, <1>3, <2>2, <3>1 DEF Copied
  <2>4. ASSUME n >= c.filesize, n < c.vmsize PROVE mem'[a] = 0
    <3>1. a \in Ram /\ ~ a < TargetBase + c.vmaddr + c.filesize /\ a < TargetBase + c.vmaddr + c.vmsize
      BY <1>1, <1>2, <1>3, <1>7, <2>1, <2>4
    <3> QED
      BY <1>1, <1>3, <2>2, <3>1 DEF Copied
  <2>5. image.arm /\ c.exec /\ n < c.filesize => code'.start <= a /\ a < code'.end
    BY <1>1, <1>3, <1>5, <1>6, <1>7
  <2> QED
    BY <2>3, <2>4, <2>5, Zenon
<1> QED
  BY <1>5, <1>7, Zenon DEF Placed

(* Copying another segment leaves it there.                                *)
LEMMA PlacedOther ==
    ASSUME NEW c \in Commands, NEW d \in Commands, image \in ImageType, InBounds(c), InBounds(d),
           c.vmaddr + c.vmsize <= d.vmaddr \/ d.vmaddr + d.vmsize <= c.vmaddr,
           mem \in [Ram -> Int], code \in [start : Int, end : Int], Placed(c, image.arm, mem, code),
           mem' = Copied(d), code' = CodeRange(d)
    PROVE  Placed(c, image.arm, mem', code')
<1>1. c.vmaddr \in Nat /\ c.vmsize \in Nat /\ c.fileoff \in Nat /\ c.filesize \in Nat
  BY Zenon DEF Commands
<1>2. d.vmaddr \in Nat /\ d.vmsize \in Nat /\ d.fileoff \in Nat /\ d.filesize \in Nat
  BY Zenon DEF Commands
<1>3. c.vmaddr <= ReservedSize /\ c.vmsize <= ReservedSize - c.vmaddr /\ c.filesize <= c.vmsize
  BY Zenon DEF InBounds
<1>4. TargetBase \in Nat /\ ReservedSize \in Nat /\ Ram \subseteq Nat
      /\ TargetBase .. TargetBase + ReservedSize - 1 \subseteq Ram
  BY LoaderAssumption, Zenon
<1>5. code.start \in Int /\ code.end \in Int
  BY Zenon
<1>6. code' \in [start : Int, end : Int] /\ code'.start <= code.start /\ code.end <= code'.end
  BY <1>2, <1>4, <1>5 DEF CodeRange
<1>7. code'.start \in Int /\ code'.end \in Int
  BY <1>6, Zenon
<1>8. ASSUME NEW n \in 0 .. ReservedSize, NEW a, a = TargetBase + c.vmaddr + n
      PROVE  /\ n < c.filesize => mem'[a] = Fetched(c.fileoff + n)
             /\ n >= c.filesize /\ n < c.vmsize => mem'[a] = 0
             /\ image.arm /\ c.exec /\ n < c.filesize => code'.start <= a /\ a < code'.end
  <2>1. ASSUME n < c.vmsize PROVE mem'[a] = mem[a]
    <3>1. a \in Ram /\ (a < TargetBase + d.vmaddr \/ a >= TargetBase + d.vmaddr + d.vmsize)
      BY <1>1, <1>2, <1>3, <1>4, <1>8, <2>1
    <3> QED
      BY <3>1, Zenon DEF Copied
  <2>2. /\ n < c.filesize => mem[a] = Fetched(c.fileoff + n)
        /\ n >= c.filesize /\ n < c.vmsize => mem[a] = 0
        /\ image.arm /\ c.exec /\ n < c.filesize => code.start <= a /\ a < code.end
    BY <1>8, Zenon DEF Placed
  <2>3. n < c.filesize => n < c.vmsize
    BY <1>1, <1>3
  <2>4. a \in Int
    BY <1>1, <1>4, <1>8
  <2>5. code.start <= a /\ a < code.end => code'.start <= a /\ a < code'.end
    BY <2>4, <1>5, <1>6, <1>7
  <2> QED
    BY <2>1, <2>2, <2>3, <2>5, Zenon
<1> QED
  BY <1>8, Zenon DEF Placed

(* The byte at the address of a file offset that a segment in place holds. *)
LEMMA EntryByte ==
    ASSUME NEW c \in Commands, NEW off \in Nat, image \in ImageType, InBounds(c), Placed(c, image.arm, mem, code), Holds(c, off)
    PROVE  mem[AddressOf(c, off)] = Fetched(off) /\ AddressOf(c, off) # 0
<1>1. c.vmaddr \in Nat /\ c.vmsize \in Nat /\ c.fileoff \in Nat /\ c.filesize \in Nat
  BY Zenon DEF Commands
<1>2. off >= c.fileoff /\ off - c.fileoff < c.filesize
  BY Zenon DEF Holds
<1>3. c.vmaddr <= ReservedSize /\ c.vmsize <= ReservedSize - c.vmaddr /\ c.filesize <= c.vmsize
  BY Zenon DEF InBounds
<1>4. TargetBase \in Nat \ {0} /\ ReservedSize \in Nat
  BY LoaderAssumption, Zenon
<1> DEFINE n == off - c.fileoff
<1>5. n \in 0 .. ReservedSize /\ n < c.filesize /\ c.fileoff + n = off
      /\ TargetBase + c.vmaddr + n = AddressOf(c, off) /\ AddressOf(c, off) # 0
  BY <1>1, <1>2, <1>3, <1>4 DEF AddressOf
<1>6. mem[TargetBase + c.vmaddr + n] = Fetched(c.fileoff + n)
  <2> HIDE DEF n
  <2> QED
    BY <1>5, Zenon DEF Placed
<1> QED
  BY <1>5, <1>6, Zenon

(* A refusal is of an image that fails a check.                            *)
LEMMA RefuseExact ==
    ASSUME LoadInv, WellFormed, LoadRefuse
    PROVE  Outcome'
<1>1. image \in ImageType /\ at \in Nat \ {0}
  BY Zenon DEF LoadInv, LoadType
<1>2. result' = 0 /\ image' = image
  BY Zenon DEF LoadRefuse, Returns
<1>3. ~ Acceptable
  <2>1. CASE ~ image.header
    BY <2>1, Zenon DEF Acceptable
  <2>2. CASE at <= Len(image.cmds) /\ (~ Cmd.fits \/ (Loaded(Cmd) /\ ~ InBounds(Cmd)))
    <3>1. at \in DOMAIN image.cmds
      BY <1>1, <2>2, CmdType, Zenon
    <3> QED
      BY <2>2, <3>1, Zenon DEF Acceptable, Segs, Cmd
  <2> QED
    BY <2>1, <2>2, Zenon DEF LoadRefuse
<1>4. Acceptable' = Acceptable
  BY <1>2 DEF Acceptable, Segs, InBounds
<1> QED
  BY <1>2, <1>3, <1>4, Zenon DEF Outcome

(* Copying the segment at hand extends what the first pass knows.          *)
LEMMA SegmentExact ==
    ASSUME LoadInv, WellFormed, code \in [start : Int, end : Int], ScanInv, LoadSegment
    PROVE  code' \in [start : Int, end : Int] /\ ScanInv'
<1>1. image \in ImageType /\ at \in Nat \ {0} /\ mem \in [Ram -> Int]
  BY Zenon DEF LoadInv, LoadType
<1>2. /\ at <= Len(image.cmds) /\ at' = at + 1 /\ image.header /\ Cmd.fits /\ Loaded(Cmd) /\ InBounds(Cmd)
      /\ image' = image /\ have' = have /\ entryoff' = entryoff
      /\ mem' = Copied(Cmd) /\ code' = CodeRange(Cmd)
  BY Zenon DEF LoadSegment, Reads
<1>3. at \in DOMAIN image.cmds /\ Cmd \in Commands /\ Cmd = image.cmds[at]
  BY <1>1, <1>2, CmdType, Zenon DEF Cmd
<1>4. image.cmds \in Seq(Commands) /\ DOMAIN image.cmds \subseteq Nat
  BY <1>1 DEF ImageType
<1>5. Placed(Cmd, image.arm, mem', code') /\ code' \in [start : Int, end : Int]
  BY <1>1, <1>2, <1>3, PlacedNew, Zenon
<1>6. ASSUME NEW i \in DOMAIN image.cmds, i < at'
      PROVE  /\ image.cmds[i].fits
             /\ Loaded(image.cmds[i]) => /\ InBounds(image.cmds[i])
                                         /\ Placed(image.cmds[i], image.arm, mem', code')
  <2>1. CASE i = at
    BY <1>2, <1>3, <1>5, <2>1, Zenon
  <2>2. CASE i < at
    <3>1. image.cmds[i].fits /\ image.cmds[i] \in Commands
      BY <1>4, <2>2 DEF ScanInv, CheckedTo
    <3>2. ASSUME Loaded(image.cmds[i])
          PROVE  InBounds(image.cmds[i]) /\ Placed(image.cmds[i], image.arm, mem', code')
      <4>1. InBounds(image.cmds[i]) /\ Placed(image.cmds[i], image.arm, mem, code)
        BY <2>2, <3>2, Zenon DEF ScanInv, CheckedTo, InPlace
      <4>2. i \in Segs /\ at \in Segs /\ i # at
        BY <1>1, <1>2, <1>3, <1>4, <2>2, <3>2 DEF Segs
      <4>3. \/ image.cmds[i].vmaddr + image.cmds[i].vmsize <= Cmd.vmaddr
            \/ Cmd.vmaddr + Cmd.vmsize <= image.cmds[i].vmaddr
        BY <1>3, <4>2, Disjoint, Zenon
      <4> QED
        BY <1>1, <1>2, <1>3, <3>1, <4>1, <4>3, PlacedOther, Zenon
    <3> QED
      BY <3>1, <3>2, Zenon
  <2> QED
    BY <1>1, <1>2, <1>4, <1>6, <2>1, <2>2
<1>7. CheckedTo(at)'
  BY <1>2, <1>6 DEF CheckedTo, InPlace, InBounds
<1>8. MainTo(at)'
  <2>1. Cmd.cmd # "main"
    BY <1>2, Zenon DEF Loaded
  <2>2. CASE have
    BY <1>1, <1>2, <1>4, <2>2 DEF ScanInv, MainTo
  <2>3. CASE ~ have
    <3>1. ASSUME NEW m \in DOMAIN image.cmds, m < at + 1 PROVE image.cmds[m].cmd # "main"
      BY <1>1, <1>3, <1>4, <2>1, <2>3, <3>1 DEF ScanInv, MainTo
    <3> QED
      BY <1>2, <2>3, <3>1, Zenon DEF MainTo
  <2> QED
    BY <2>2, <2>3, Zenon
<1>9. EntryTo(at)'
  <2>1. entry' = IF have /\ Holds(Cmd, entryoff) THEN AddressOf(Cmd, entryoff) ELSE entry
    BY Zenon DEF LoadSegment
  <2>2. CASE have /\ Holds(Cmd, entryoff)
    BY <1>1, <1>2, <1>3, <2>1, <2>2 DEF EntryTo
  <2>3. CASE ~ (have /\ Holds(Cmd, entryoff))
    BY <1>1, <1>2, <1>4, <2>1, <2>3 DEF ScanInv, EntryTo
  <2> QED
    BY <2>2, <2>3, Zenon
<1> QED
  BY <1>5, <1>7, <1>8, <1>9, Zenon DEF ScanInv

(* LC_MAIN is met once, before any entry was computed; other commands are  *)
(* passed over.                                                            *)
LEMMA MainExact ==
    ASSUME LoadInv, WellFormed, ScanInv, LoadMain \/ LoadSkip
    PROVE  ScanInv'
<1>1. image \in ImageType /\ at \in Nat \ {0} /\ mem \in [Ram -> Int]
  BY Zenon DEF LoadInv, LoadType
<1>2. /\ at <= Len(image.cmds) /\ at' = at + 1 /\ image.header /\ Cmd.fits /\ ~ Loaded(Cmd)
      /\ image' = image /\ mem' = mem /\ code' = code /\ entry' = entry
  BY Zenon DEF LoadMain, LoadSkip, Reads, Loaded
<1>3. at \in DOMAIN image.cmds /\ Cmd \in Commands /\ Cmd = image.cmds[at]
  BY <1>1, <1>2, CmdType, Zenon DEF Cmd
<1>4. image.cmds \in Seq(Commands) /\ DOMAIN image.cmds \subseteq Nat
  BY <1>1 DEF ImageType
<1>5. ASSUME NEW i \in DOMAIN image.cmds, i < at + 1 PROVE i = at \/ i < at
  BY <1>1, <1>4, <1>5
<1>6. CheckedTo(at)'
  <2>1. ASSUME NEW i \in DOMAIN image.cmds, i < at'
        PROVE  /\ image.cmds[i].fits
               /\ Loaded(image.cmds[i]) => InBounds(image.cmds[i]) /\ Placed(image.cmds[i], image.arm, mem, code)
    BY <1>2, <1>3, <1>5, <2>1, Zenon DEF ScanInv, CheckedTo, InPlace
  <2> QED
    BY <1>2, <2>1, Zenon DEF CheckedTo, InPlace, InBounds
<1>7. CASE LoadMain
  <2>1. Cmd.cmd = "main" /\ have' = TRUE /\ entryoff' = Cmd.entryoff
    BY <1>7, Zenon DEF LoadMain
  <2>2. ~ have
    <3>1. SUFFICES ASSUME have PROVE FALSE
      BY Zenon
    <3>2. PICK m \in DOMAIN image.cmds : m < at /\ image.cmds[m].cmd = "main"
      BY <3>1, Zenon DEF ScanInv, MainTo
    <3>3. m = at
      BY <1>1, <1>3, <2>1, <3>2, OneMain, Zenon
    <3> QED
      BY <1>1, <3>2, <3>3
  <2>3. entry = 0
    BY <2>2, Zenon DEF ScanInv, EntryTo
  <2>4. MainTo(at)'
    BY <1>1, <1>2, <1>3, <2>1 DEF MainTo
  <2> QED
    BY <1>2, <1>6, <2>3, <2>4, Zenon DEF ScanInv, EntryTo
<1>8. CASE LoadSkip
  <2>1. Cmd.cmd # "main" /\ have' = have /\ entryoff' = entryoff
    BY <1>8, Zenon DEF LoadSkip
  <2>2. MainTo(at)'
    <3>1. CASE have
      BY <1>1, <1>2, <1>4, <2>1, <3>1 DEF ScanInv, MainTo
    <3>2. CASE ~ have
      BY <1>2, <1>3, <1>5, <2>1, <3>2, Zenon DEF ScanInv, MainTo
    <3> QED
      BY <3>1, <3>2, Zenon
  <2>3. EntryTo(at)'
    BY <1>1, <1>2, <1>4, <2>1 DEF ScanInv, EntryTo
  <2> QED
    BY <1>6, <2>2, <2>3, Zenon DEF ScanInv
<1> QED
  BY <1>7, <1>8, Zenon

(* Returning an entry that a segment in place holds is right.              *)
LEMMA ReturnsFound ==
    ASSUME image \in ImageType, entryoff \in Nat, image.header, CheckedTo(Len(image.cmds) + 1),
           MainTo(Len(image.cmds) + 1), have,
           NEW i \in DOMAIN image.cmds, Holds(image.cmds[i], entryoff),
           result' = AddressOf(image.cmds[i], entryoff), UNCHANGED <<image, entryoff, mem, code>>
    PROVE  Outcome'
<1>1. image.cmds \in Seq(Commands) /\ \A j \in DOMAIN image.cmds : j < Len(image.cmds) + 1
  BY DEF ImageType
<1>2. /\ \A j \in DOMAIN image.cmds : image.cmds[j].fits
      /\ \A j \in Segs : InBounds(image.cmds[j]) /\ InPlace(image.cmds[j])
  BY <1>1, Zenon DEF CheckedTo, Segs
<1>3. i \in Segs /\ image.cmds[i] \in Commands
  BY <1>1 DEF Segs, Holds
<1>4. mem[result'] = Fetched(entryoff) /\ result' # 0
  BY <1>2, <1>3, EntryByte, Zenon DEF InPlace
<1>5. Acceptable
  <2>1. PICK m \in DOMAIN image.cmds : image.cmds[m].cmd = "main" /\ entryoff = image.cmds[m].entryoff
    BY Zenon DEF MainTo
  <2> QED
    BY <1>2, <1>3, <2>1, Zenon DEF Acceptable
<1>6. Acceptable' = Acceptable /\ Segs' = Segs
  BY Zenon DEF Acceptable, Segs, InBounds
<1>7. \A j \in Segs : InPlace(image.cmds[j])'
  BY <1>2, Zenon DEF InPlace
<1> QED
  BY <1>4, <1>5, <1>6, <1>7, Zenon DEF Outcome

(* So is returning 0 when there is no LC_MAIN or no segment holds its      *)
(* offset.                                                                 *)
LEMMA ReturnsNone ==
    ASSUME image \in ImageType, WellFormed, MainTo(Len(image.cmds) + 1),
           have => \A i \in DOMAIN image.cmds : ~ Holds(image.cmds[i], entryoff),
           result' = 0, image' = image
    PROVE  Outcome'
<1>1. \A j \in DOMAIN image.cmds : j < Len(image.cmds) + 1
  BY DEF ImageType
<1>2. ~ Acceptable
  <2>1. SUFFICES ASSUME NEW m \in DOMAIN image.cmds, image.cmds[m].cmd = "main",
                        NEW i \in Segs, Holds(image.cmds[i], image.cmds[m].entryoff)
                 PROVE  FALSE
    BY Zenon DEF Acceptable
  <2>2. have
    BY <1>1, <2>1, Zenon DEF MainTo
  <2>3. PICK k \in DOMAIN image.cmds : image.cmds[k].cmd = "main" /\ entryoff = image.cmds[k].entryoff
    BY <2>2, Zenon DEF MainTo
  <2>4. k = m
    BY <2>1, <2>3, OneMain, Zenon
  <2> QED
    BY <2>1, <2>2, <2>3, <2>4, Zenon DEF Segs
<1>3. Acceptable' = Acceptable
  BY DEF Acceptable, Segs, InBounds
<1> QED
  BY <1>2, <1>3, Zenon DEF Outcome

(* The end of the first pass returns an entry or the lack of an LC_MAIN,   *)
(* or leaves the search to the second pass.                                *)
LEMMA FirstPassExact ==
    ASSUME LoadInv, WellFormed, ScanInv, LoadFirstPassEnds
    PROVE  (pass' = 2 /\ LookInv') \/ (pass' = 0 /\ Outcome')
<1>1. image \in ImageType /\ at \in Nat \ {0} /\ entryoff \in Nat
  BY Zenon DEF LoadInv, LoadType
<1>2. at > Len(image.cmds) /\ image.header /\ UNCHANGED <<image, have, entryoff, entry, code, mem>>
  BY Zenon DEF LoadFirstPassEnds
<1>3. Len(image.cmds) \in Nat /\ DOMAIN image.cmds = 1 .. Len(image.cmds)
  BY <1>1 DEF ImageType
<1>4. CheckedTo(Len(image.cmds) + 1) /\ MainTo(Len(image.cmds) + 1)
  <2>1. \A i \in DOMAIN image.cmds : i < at /\ i < Len(image.cmds) + 1
    BY <1>1, <1>2, <1>3
  <2>2. CheckedTo(Len(image.cmds) + 1)
    BY <2>1, Zenon DEF ScanInv, CheckedTo
  <2>3. MainTo(Len(image.cmds) + 1)
    BY <2>1, Zenon DEF ScanInv, MainTo
  <2> QED
    BY <2>2, <2>3, Zenon
<1>5. CASE have /\ entry = 0
  <2>1. pass' = 2 /\ at' = 1
    BY <1>5, ZenonT(60) DEF LoadFirstPassEnds
  <2>2. CheckedTo(Len(image.cmds) + 1)' /\ MainTo(Len(image.cmds) + 1)'
    BY <1>2, <1>4 DEF CheckedTo, MainTo, InPlace, InBounds
  <2> QED
    BY <1>2, <1>3, <1>5, <2>1, <2>2 DEF LookInv
<1>6. CASE entry # 0
  <2>1. pass' = 0 /\ result' = entry
    BY <1>6, Zenon DEF LoadFirstPassEnds, Returns
  <2>2. have
    BY <1>6, Zenon DEF ScanInv, EntryTo
  <2>3. PICK i \in DOMAIN image.cmds : Holds(image.cmds[i], entryoff) /\ entry = AddressOf(image.cmds[i], entryoff)
    BY <1>6, Zenon DEF ScanInv, EntryTo
  <2>4. Outcome'
    BY <1>1, <1>2, <1>4, <2>1, <2>2, <2>3, ReturnsFound, Zenon
  <2> QED
    BY <2>1, <2>4, Zenon
<1>7. CASE ~ have /\ entry = 0
  <2>1. pass' = 0 /\ result' = 0
    BY <1>7, Zenon DEF LoadFirstPassEnds, Returns
  <2>2. Outcome'
    BY <1>1, <1>2, <1>4, <1>7, <2>1, ReturnsNone, Zenon
  <2> QED
    BY <2>1, <2>2, Zenon
<1> QED
  BY <1>5, <1>6, <1>7, Zenon

(* The second pass ends at a segment that holds the entry, or at none.     *)
LEMMA LookUpExact ==
    ASSUME LoadInv, WellFormed, LookInv, LoadLookUp
    PROVE  (pass' = 2 /\ LookInv') \/ (pass' = 0 /\ Outcome')
<1>1. image \in ImageType /\ at \in Nat \ {0} /\ entryoff \in Nat
  BY Zenon DEF LoadInv, LoadType
<1>2. pass = 2 /\ UNCHANGED <<image, have, entryoff, code, mem>>
  BY Zenon DEF LoadLookUp
<1>3. Len(image.cmds) \in Nat /\ DOMAIN image.cmds = 1 .. Len(image.cmds)
  BY <1>1 DEF ImageType
<1>4. image.header /\ have /\ entry = 0 /\ CheckedTo(Len(image.cmds) + 1) /\ MainTo(Len(image.cmds) + 1)
  BY Zenon DEF LookInv
<1>5. CASE at > Len(image.cmds)
  <2>1. pass' = 0 /\ result' = 0
    BY <1>4, <1>5, Zenon DEF LoadLookUp, Returns
  <2>2. \A i \in DOMAIN image.cmds : ~ Holds(image.cmds[i], entryoff)
    BY <1>1, <1>3, <1>5 DEF LookInv
  <2>3. Outcome'
    BY <1>1, <1>2, <1>4, <2>1, <2>2, ReturnsNone, Zenon
  <2> QED
    BY <2>1, <2>3, Zenon
<1>6. CASE at <= Len(image.cmds) /\ Holds(Cmd, entryoff)
  <2>1. at \in DOMAIN image.cmds /\ Cmd = image.cmds[at]
    BY <1>1, <1>6, CmdType, Zenon DEF Cmd
  <2>2. pass' = 0 /\ result' = AddressOf(image.cmds[at], entryoff)
    BY <1>1, <1>3, <1>6, <2>1 DEF LoadLookUp, Returns
  <2>3. Outcome'
    BY <1>1, <1>2, <1>4, <1>6, <2>1, <2>2, ReturnsFound, Zenon
  <2> QED
    BY <2>2, <2>3, Zenon
<1>7. CASE at <= Len(image.cmds) /\ ~ Holds(Cmd, entryoff)
  <2>1. at' = at + 1 /\ pass' = 2 /\ entry' = entry
    BY <1>1, <1>2, <1>3, <1>7 DEF LoadLookUp
  <2>2. CheckedTo(Len(image.cmds) + 1)' /\ MainTo(Len(image.cmds) + 1)'
    BY <1>2, <1>4, Zenon DEF CheckedTo, MainTo, InPlace, InBounds
  <2>3. \A i \in DOMAIN image.cmds : i < at + 1 => ~ Holds(image.cmds[i], entryoff)
    <3>1. \A i \in DOMAIN image.cmds : i < at + 1 => i < at \/ i = at
      BY <1>1, <1>3
    <3> QED
      BY <1>7, <3>1, Zenon DEF LookInv, Cmd
  <2> QED
    BY <1>2, <1>4, <2>1, <2>2, <2>3, Zenon DEF LookInv
<1> QED
  BY <1>1, <1>3, <1>5, <1>6, <1>7

(* Every step of stage_load_macho keeps what is known of its outcome.      *)
LEMMA ExactStep == LoadInv /\ ExactInv /\ [LoadNext]_loaderVars => ExactInv'
<1> SUFFICES ASSUME LoadInv, ExactInv, [LoadNext]_loaderVars, WellFormed' PROVE ExactInv'
  BY Zenon DEF ExactInv
<1>1. image' = image
  BY Zenon DEF LoadNext, LoadRefuse, LoadSegment, LoadMain, LoadSkip, LoadFirstPassEnds, LoadLookUp, loaderVars
<1>2. WellFormed
  BY <1>1, Zenon DEF WellFormed
<1>3. /\ code \in [start : Int, end : Int]
      /\ pass = 1 => ScanInv
      /\ pass = 2 => LookInv
      /\ pass = 0 => Outcome
  BY <1>2, Zenon DEF ExactInv
<1>4. CASE LoadRefuse
  <2>1. pass' = 0 /\ code' = code
    BY <1>4, Zenon DEF LoadRefuse, Returns
  <2> QED
    BY <1>2, <1>3, <1>4, <2>1, RefuseExact DEF ExactInv
<1>5. CASE LoadSegment
  <2>1. pass = 1 /\ pass' = 1
    BY <1>5, Zenon DEF LoadSegment, Reads
  <2> QED
    BY <1>2, <1>3, <1>5, <2>1, SegmentExact DEF ExactInv
<1>6. CASE LoadMain \/ LoadSkip
  <2>1. pass = 1 /\ pass' = 1 /\ code' = code
    BY <1>6, Zenon DEF LoadMain, LoadSkip, Reads
  <2> QED
    BY <1>2, <1>3, <1>6, <2>1, MainExact DEF ExactInv
<1>7. CASE LoadFirstPassEnds
  <2>1. pass = 1 /\ code' = code
    BY <1>7, Zenon DEF LoadFirstPassEnds
  <2> QED
    BY <1>2, <1>3, <1>7, <2>1, FirstPassExact DEF ExactInv
<1>8. CASE LoadLookUp
  <2>1. pass = 2 /\ code' = code
    BY <1>8, Zenon DEF LoadLookUp
  <2> QED
    BY <1>2, <1>3, <1>8, <2>1, LookUpExact DEF ExactInv
<1>9. CASE UNCHANGED loaderVars
  <2>1. UNCHANGED <<image, pass, at, have, entryoff, entry, code, mem, result>>
    BY <1>9, Zenon DEF loaderVars
  <2>2. ScanInv' = ScanInv
    BY <2>1 DEF ScanInv, CheckedTo, MainTo, EntryTo, InPlace, InBounds
  <2>3. LookInv' = LookInv
    BY <2>1 DEF LookInv, CheckedTo, MainTo, InPlace, InBounds
  <2>4. Outcome' = Outcome
    BY <2>1, Zenon DEF Outcome, Acceptable, Segs, InPlace, InBounds
  <2> QED
    BY <1>3, <2>1, <2>2, <2>3, <2>4, Zenon DEF ExactInv
<1> QED
  BY <1>4, <1>5, <1>6, <1>7, <1>8, <1>9, Zenon DEF LoadNext

(* stage_load_macho accepts a well-formed image exactly when every check   *)
(* passes and a segment holds its entry, in whichever order the commands   *)
(* come, and then all of it is where the image says, for every image,      *)
(* region and memory.                                                      *)
THEOREM LoaderExact == LoadSpec => []LoadedExact
<1>1. LoadInit => ExactInv
  <2> SUFFICES ASSUME LoadInit PROVE ExactInv
    BY Zenon
  <2>1. image \in ImageType
    BY LoaderAssumption, Zenon DEF LoadInit
  <2>2. DOMAIN image.cmds = 1 .. Len(image.cmds) /\ Len(image.cmds) \in Nat
    BY <2>1 DEF ImageType
  <2>3. \A i \in DOMAIN image.cmds : ~ i < 1
    BY <2>2
  <2>4. pass = 1 /\ at = 1 /\ have = FALSE /\ entry = 0 /\ code = [start |-> NoAddress, end |-> 0]
    BY Zenon DEF LoadInit
  <2>5. ScanInv
    BY <2>3, <2>4, Zenon DEF ScanInv, CheckedTo, MainTo, EntryTo
  <2>6. code \in [start : Int, end : Int]
    BY <2>4, LoaderAssumption DEF NoAddress
  <2> QED
    BY <2>4, <2>5, <2>6 DEF ExactInv
<1>2. ExactInv => LoadedExact
  <2> SUFFICES ASSUME ExactInv, pass = 0, WellFormed PROVE LoadedExact
    BY Zenon DEF LoadedExact
  <2>1. Outcome
    BY Zenon DEF ExactInv
  <2>2. (result # 0) = Acceptable
    BY <2>1, Zenon DEF Outcome, Acceptable
  <2>3. result # 0 => mem[result] = Fetched(entryoff) /\ \A i \in Segs : InPlace(image.cmds[i])
    BY <2>1, Zenon DEF Outcome
  <2> QED
    BY <2>2, <2>3, Zenon DEF LoadedExact, Acceptable, Segs, InPlace, Placed
<1> QED
  BY <1>1, <1>2, LoadInitInv, LoadNextInv, ExactStep, PTL DEF LoadSpec
-----------------------------------------------------------------------------
(* The tables that mutex_manager_init_schema sets up satisfy MutexInv.     *)
LEMMA InitMutexInv == MutexInit => MutexInv
BY MutexAssumption DEF MutexInit, MutexInv, MutexType, MutualExclusion, CreatesDistinct, Created, MutexIds

(* Every atomic operation of the handler and of its clients keeps MutexInv.*)
LEMMA NextMutexInv == MutexInv /\ [MutexNext]_mutexVars => MutexInv'
<1> SUFFICES ASSUME MutexInv, [MutexNext]_mutexVars PROVE MutexInv'
    BY Zenon
<1> USE MutexAssumption DEF MutexIds
<1>1. ASSUME NEW c \in Cores, CreateMutex(c) PROVE MutexInv'
    BY <1>1 DEF CreateMutex, Now, MutexInv, MutexType, MutualExclusion, CreatesDistinct, Created
<1>2. ASSUME NEW c \in Cores, CreateScan(c) PROVE MutexInv'
    <2>1. CASE used[id[c]]
        <3> /\ doing' = doing /\ id' = [id EXCEPT ![c] = id[c] + 1] /\ UNCHANGED <<used, locked, ids>>
            /\ id[c] \in MutexIds /\ doing[c] = "create"
            BY <1>2, <2>1, Zenon DEF CreateScan
        <3>1. id[c] + 1 \in 0 .. MaxMutexes + 1 /\ id[c] + 1 >= 1
            OBVIOUS
        <3>2. MutexType'
            BY <3>1, Zenon DEF MutexInv, MutexType
        <3>3. MutualExclusion' /\ (\A i \in MutexIds : locked[i] <=> \E d \in Cores : doing[d] = "critical" /\ id[d] = i)'
            BY DEF MutexInv, MutexType, MutualExclusion
        <3>4. CreatesDistinct'
            BY DEF MutexInv, MutexType, CreatesDistinct, Created
        <3>5. QED
            BY <3>1, <3>2, <3>3, <3>4 DEF MutexInv, MutexType
    <2>2. CASE ~ used[id[c]]
        <3> id[c] \notin ids /\ doing' = [doing EXCEPT ![c] = "ready"] /\ id' = id /\ locked' = locked
            /\ used' = [used EXCEPT ![id[c]] = TRUE] /\ ids' = ids \cup {id[c]} /\ doing[c] = "create"
            /\ id[c] \in MutexIds
            BY <1>2, <2>2, Zenon DEF CreateScan, Now, MutexInv, MutexType
        <3>1. MutexType'
            BY Zenon DEF MutexInv, MutexType
        <3>2. MutualExclusion' /\ (\A i \in MutexIds : locked[i] <=> \E d \in Cores : doing[d] = "critical" /\ id[d] = i)'
            BY DEF MutexInv, MutexType, MutualExclusion
        <3>3. CreatesDistinct'
            BY DEF MutexInv, MutexType, CreatesDistinct, Created
        <3>4. QED
            BY <3>1, <3>2, <3>3 DEF MutexInv, MutexType
    <2>3. QED
        BY <2>1, <2>2, Zenon
<1>3. ASSUME NEW c \in Cores, NEW i \in MutexIds, DiscoverMutex(c, i) PROVE MutexInv'
    BY <1>3 DEF DiscoverMutex, Now, MutexInv, MutexType, MutualExclusion, CreatesDistinct, Created
<1>4. ASSUME NEW c \in Cores, Lock(c) PROVE MutexInv'
    <2> id[c] \in MutexIds /\ id[c] \in ids /\ doing[c] = "ready"
        BY <1>4, Zenon DEF Lock, MutexInv, MutexType
    <2>1. CASE locked[id[c]]
        <3> locked' = locked /\ doing' = [doing EXCEPT ![c] = "asleep"] /\ UNCHANGED <<used, ids, id>>
            BY <1>4, <2>1 DEF Lock, Now, MutexInv, MutexType
        <3> QED
            BY DEF MutexInv, MutexType, MutualExclusion, CreatesDistinct, Created
    <2>2. CASE ~ locked[id[c]]
        <3> /\ locked' = [locked EXCEPT ![id[c]] = TRUE] /\ doing' = [doing EXCEPT ![c] = "critical"]
            /\ UNCHANGED <<used, ids, id>>
            BY <1>4, <2>2, Zenon DEF Lock, Now, MutexInv, MutexType
        <3>1. \A d \in Cores : ~ (doing[d] = "critical" /\ id[d] = id[c])
            BY <2>2, Zenon DEF MutexInv
        <3>2. MutexType'
            BY Zenon DEF MutexInv, MutexType
        <3>3. MutualExclusion'
            BY <3>1 DEF MutexInv, MutexType, MutualExclusion
        <3>4. CreatesDistinct'
            BY DEF MutexInv, MutexType, CreatesDistinct, Created
        <3>5. (\A i \in MutexIds : locked[i] <=> \E d \in Cores : doing[d] = "critical" /\ id[d] = i)'
            BY <3>1 DEF MutexInv, MutexType
        <3>6. QED
            BY <3>2, <3>3, <3>4, <3>5 DEF MutexInv, MutexType
    <2>3. QED
        BY <2>1, <2>2, Zenon
<1>5. ASSUME NEW c \in Cores, Interrupt(c) PROVE MutexInv'
    BY <1>5 DEF Interrupt, Now, MutexInv, MutexType, MutualExclusion, CreatesDistinct, Created
<1>6. ASSUME NEW c \in Cores, Unlock(c) PROVE MutexInv'
    <2> /\ locked' = [locked EXCEPT ![id[c]] = FALSE] /\ doing' = [doing EXCEPT ![c] = "done"]
        /\ UNCHANGED <<used, ids, id>> /\ doing[c] = "critical" /\ id[c] \in MutexIds
        BY <1>6, Zenon DEF Unlock, Now, MutexInv, MutexType
    <2>1. \A d \in Cores : doing[d] = "critical" /\ id[d] = id[c] => d = c
        BY Zenon DEF MutexInv, MutualExclusion
    <2>2. MutexType' /\ MutualExclusion' /\ CreatesDistinct'
        BY DEF MutexInv, MutexType, MutualExclusion, CreatesDistinct, Created
    <2>3. (\A i \in MutexIds : locked[i] <=> \E d \in Cores : doing[d] = "critical" /\ id[d] = i)'
        BY <2>1 DEF MutexInv, MutexType
    <2>4. QED
        BY <2>2, <2>3 DEF MutexInv, MutexType
<1>7. CASE UNCHANGED mutexVars
    BY <1>7, Zenon DEF mutexVars, MutexInv, MutexType, MutualExclusion, CreatesDistinct, Created
<1>8. QED
    BY <1>1, <1>2, <1>3, <1>4, <1>5, <1>6, <1>7, Zenon DEF MutexNext

(* MutexInv holds in every state the manager and its clients reach.        *)
THEOREM MutexInvariant == MutexSpec => []MutexInv
BY InitMutexInv, NextMutexInv, PTL DEF MutexSpec

(* At most one core at a time is between hw_mutex_lock and hw_mutex_unlock *)
(* of a mutex, for any number of cores (METHOD_LOCK's test-and-set).       *)
THEOREM MutualExclusionAlways == MutexSpec => []MutualExclusion
<1>1. MutexInv => MutualExclusion
    BY Zenon DEF MutexInv
<1>2. QED
    BY <1>1, MutexInvariant, PTL

(* Racing create_mutex calls never return the same id (METHOD_CREATE's     *)
(* compare-and-swap on the used flags).                                    *)
THEOREM CreatesDistinctAlways == MutexSpec => []CreatesDistinct
<1>1. MutexInv => CreatesDistinct
    BY Zenon DEF MutexInv
<1>2. QED
    BY <1>1, MutexInvariant, PTL
-----------------------------------------------------------------------------
Inside == [i \in MutexIds |-> {c \in Cores : doing[c] = "critical" /\ id[c] = i}]

(* Every step of the manager is an Enter or a Leave of MutexService, or    *)
(* changes nothing there: only Lock and Unlock move a core in or out.      *)
LEMMA StepsOfService ==
    MutexInv /\ [MutexNext]_mutexVars =>
        \/ UNCHANGED Inside
        \/ \E c \in Cores, m \in MutexIds : Service!Enter(c, m) \/ Service!Leave(c, m)
<1> SUFFICES ASSUME MutexInv, [MutexNext]_mutexVars
             PROVE  \/ UNCHANGED Inside
                    \/ \E c \in Cores, m \in MutexIds : Service!Enter(c, m) \/ Service!Leave(c, m)
    BY Zenon
<1>1. ASSUME NEW c \in Cores, CreateMutex(c) PROVE UNCHANGED Inside
    BY <1>1 DEF CreateMutex, Now, MutexInv, MutexType, Inside
<1>2. ASSUME NEW c \in Cores, CreateScan(c) PROVE UNCHANGED Inside
    BY <1>2 DEF CreateScan, Now, MutexInv, MutexType, Inside
<1>3. ASSUME NEW c \in Cores, NEW i \in MutexIds, DiscoverMutex(c, i) PROVE UNCHANGED Inside
    BY <1>3 DEF DiscoverMutex, Now, MutexInv, MutexType, Inside
<1>4. ASSUME NEW c \in Cores, Lock(c)
      PROVE  UNCHANGED Inside \/ \E m \in MutexIds : Service!Enter(c, m)
    <2> id[c] \in MutexIds /\ doing[c] = "ready" /\ id' = id
        BY <1>4, Zenon DEF Lock, MutexInv, MutexType
    <2>1. CASE locked[id[c]]
        BY <1>4, <2>1 DEF Lock, Now, MutexInv, MutexType, Inside
    <2>2. CASE ~ locked[id[c]]
        <3> doing' = [doing EXCEPT ![c] = "critical"]
            BY <1>4, <2>2, Zenon DEF Lock, Now
        <3>1. PICK m \in MutexIds : m = id[c]
            BY Zenon
        <3>2. Inside[m] = {}
            BY <2>2, <3>1 DEF MutexInv, Inside
        <3>3. \A i \in MutexIds : {d \in Cores : doing'[d] = "critical" /\ id'[d] = i}
                            = IF i = m THEN {c} ELSE Inside[i]
            BY <3>1, <3>2 DEF MutexInv, MutexType, Inside
        <3>4. Inside' = [Inside EXCEPT ![m] = {c}]
            BY <3>3, Zenon DEF Inside
        <3>5. Service!Enter(c, m)
            BY <3>2, <3>4, Zenon DEF Service!Enter, Inside
        <3>6. QED
            BY <3>5, Zenon
    <2>3. QED
        BY <2>1, <2>2, Zenon
<1>5. ASSUME NEW c \in Cores, Interrupt(c) PROVE UNCHANGED Inside
    BY <1>5 DEF Interrupt, Now, MutexInv, MutexType, Inside
<1>6. ASSUME NEW c \in Cores, Unlock(c) PROVE \E m \in MutexIds : Service!Leave(c, m)
    <2> /\ id[c] \in MutexIds /\ doing[c] = "critical" /\ id' = id
        /\ doing' = [doing EXCEPT ![c] = "done"]
        BY <1>6, Zenon DEF Unlock, Now, MutexInv, MutexType
    <2>1. PICK m \in MutexIds : m = id[c]
        BY Zenon
    <2>2. Inside[m] = {c}
        BY <2>1 DEF MutexInv, MutualExclusion, Inside
    <2>3. \A i \in MutexIds : {d \in Cores : doing'[d] = "critical" /\ id'[d] = i}
                        = IF i = m THEN {} ELSE Inside[i]
        BY <2>1, <2>2 DEF MutexInv, MutexType, Inside
    <2>4. Inside' = [Inside EXCEPT ![m] = {}]
        BY <2>3, Zenon DEF Inside
    <2>5. Service!Leave(c, m)
        BY <2>2, <2>4, Zenon DEF Service!Leave, Inside
    <2>6. QED
        BY <2>5, Zenon
<1>7. CASE UNCHANGED mutexVars
    BY <1>7, Zenon DEF mutexVars, Inside
<1>8. QED
    BY <1>1, <1>2, <1>3, <1>4, <1>5, <1>6, <1>7, Zenon DEF MutexNext

(* The mutex manager with its clients implements the abstract mutexes.     *)
THEOREM ManagerImplementsService == MutexSpec => ServiceSpec
<1>1. MutexInit => Service!ServiceInit
    BY Zenon DEF MutexInit, Service!ServiceInit
<1>2. MutexInv /\ [MutexNext]_mutexVars =>
          [\E c \in Cores, m \in MutexIds : Service!Enter(c, m) \/ Service!Leave(c, m)]_Inside
    BY StepsOfService, Zenon
<1>3. QED
    BY <1>1, <1>2, MutexInvariant, PTL DEF MutexSpec, ServiceSpec, Service!ServiceSpec, Inside
=============================================================================

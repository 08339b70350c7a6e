---------------------------- MODULE StageLoader ----------------------------
(***************************************************************************)
(* stage_load_macho, coreinit/stage_loader.c: the second stage's image is  *)
(* copied command by command into the region claimed for it, and its entry *)
(* point, an offset in the file, becomes an address.                       *)
(*                                                                         *)
(* A command is a record of the fields the loader reads; fits says that    *)
(* its header and its kind's structure lie inside the commands' bytes.  A  *)
(* byte of the file is known by its offset plus one, 0 is a cleared byte.  *)
(***************************************************************************)
EXTENDS Integers, Sequences, FiniteSets

CONSTANTS
    Images,          \* the images a build may link in
    Ram,             \* the addresses around and in the region
    TargetBase,      \* target_base
    ReservedSize     \* reserved_size

Commands == [cmd : {"segment", "main", "other"}, fits : BOOLEAN, pagezero : BOOLEAN,
             exec : BOOLEAN, vmaddr : Nat, vmsize : Nat, fileoff : Nat, filesize : Nat,
             entryoff : Nat]
ImageType == [header : BOOLEAN, arm : BOOLEAN, len : Nat, cmds : Seq(Commands)]

ASSUME LoaderAssumption ==
    /\ Images \subseteq ImageType
    /\ Ram \subseteq Nat /\ TargetBase \in Nat \ {0} /\ ReservedSize \in Nat
    /\ TargetBase .. TargetBase + ReservedSize - 1 \subseteq Ram

VARIABLES
    image,           \* the image linked into coreinit
    pass,            \* which pass over the commands runs: 1, 2, or 0 when none does
    at,              \* the command at hand
    have,            \* have_entry
    entryoff,
    entry,
    code,            \* code_start and code_end
    mem,             \* what each address holds
    result           \* what stage_load_macho returned

loaderVars == <<image, pass, at, have, entryoff, entry, code, mem, result>>

Untouched == -1
NoAddress == TargetBase + ReservedSize + 1      \* above every address, as UINT64_MAX
Region == TargetBase .. TargetBase + ReservedSize - 1
Cmd == image.cmds[at]
Fetched(off) == off + 1

LoadInit ==
    /\ image \in Images
    /\ pass = 1 /\ at = 1 /\ have = FALSE /\ entryoff = 0 /\ entry = 0
    /\ code = [start |-> NoAddress, end |-> 0] /\ result = Untouched
    /\ mem = [a \in Ram |-> Untouched]

Loaded(c) == c.cmd = "segment" /\ ~ c.pagezero
Holds(c, off) == Loaded(c) /\ off >= c.fileoff /\ off - c.fileoff < c.filesize
AddressOf(c, off) == TargetBase + c.vmaddr + off - c.fileoff

InBoundsUnsized(c) ==
    /\ c.vmaddr <= ReservedSize
    /\ c.filesize <= c.vmsize
    /\ c.fileoff <= image.len /\ c.filesize <= image.len - c.fileoff

InBounds(c) ==
    /\ c.vmaddr <= ReservedSize /\ c.vmsize <= ReservedSize - c.vmaddr
    /\ c.filesize <= c.vmsize
    /\ c.fileoff <= image.len /\ c.filesize <= image.len - c.fileoff

(* Any check that fails returns 0, whatever was copied so far.             *)
Returns(r) == pass' = 0 /\ result' = r

LoadRefuse ==
    /\ pass = 1 /\ result = Untouched
    /\ \/ ~ image.header
       \/ at <= Len(image.cmds) /\ (~ Cmd.fits \/ (Loaded(Cmd) /\ ~ InBounds(Cmd)))
    /\ Returns(0)
    /\ UNCHANGED <<image, at, have, entryoff, entry, code, mem>>

Reads == pass = 1 /\ image.header /\ at <= Len(image.cmds) /\ Cmd.fits /\ at' = at + 1

(* The file's bytes, then zeroes; the code range on aarch64; the entry if  *)
(* LC_MAIN has been met.                                                   *)
Copied(c) ==
    LET dest == TargetBase + c.vmaddr
    IN  [a \in Ram |-> IF a < dest \/ a >= dest + c.vmsize THEN mem[a]
                       ELSE IF a < dest + c.filesize THEN Fetched(c.fileoff + (a - dest)) ELSE 0]

CodeRange(c) ==
    LET start == TargetBase + c.vmaddr
    IN  IF ~ (image.arm /\ c.exec) THEN code
        ELSE [start |-> IF start < code.start THEN start ELSE code.start,
              end   |-> IF start + c.filesize > code.end THEN start + c.filesize ELSE code.end]

LoadSegment ==
    /\ Reads /\ Loaded(Cmd) /\ InBounds(Cmd)
    /\ mem' = Copied(Cmd)
    /\ code' = CodeRange(Cmd)
    /\ entry' = IF have /\ Holds(Cmd, entryoff) THEN AddressOf(Cmd, entryoff) ELSE entry
    /\ UNCHANGED <<image, pass, have, entryoff, result>>

LoadMain ==
    /\ Reads /\ Cmd.cmd = "main"
    /\ entryoff' = Cmd.entryoff /\ have' = TRUE
    /\ UNCHANGED <<image, pass, entry, code, mem, result>>

LoadSkip ==
    /\ Reads /\ Cmd.cmd # "main" /\ ~ Loaded(Cmd)
    /\ UNCHANGED <<image, pass, have, entryoff, entry, code, mem, result>>

(* After the first pass: a second one for an LC_MAIN that came after its   *)
(* segment, or the end; the end makes the code range visible to fetches.   *)
LoadOnePass ==
    /\ pass = 1 /\ image.header /\ at > Len(image.cmds)
    /\ Returns(entry)
    /\ UNCHANGED <<image, at, have, entryoff, entry, code, mem>>

LoadFirstPassEnds ==
    /\ pass = 1 /\ image.header /\ at > Len(image.cmds)
    /\ IF have /\ entry = 0
       THEN pass' = 2 /\ at' = 1 /\ UNCHANGED result
       ELSE Returns(entry) /\ UNCHANGED at
    /\ UNCHANGED <<image, have, entryoff, entry, code, mem>>

LoadLookUpStays ==
    /\ pass = 2
    /\ IF at > Len(image.cmds) THEN Returns(entry) /\ UNCHANGED <<at, entry>>
       ELSE IF Holds(Cmd, entryoff)
            THEN entry' = AddressOf(Cmd, entryoff) /\ Returns(entry') /\ UNCHANGED at
       ELSE UNCHANGED <<at, pass, entry, result>>
    /\ UNCHANGED <<image, have, entryoff, code, mem>>

LoadLookUp ==
    /\ pass = 2
    /\ IF at > Len(image.cmds) THEN Returns(entry) /\ UNCHANGED <<at, entry>>
       ELSE IF Holds(Cmd, entryoff)
            THEN entry' = AddressOf(Cmd, entryoff) /\ Returns(entry') /\ UNCHANGED at
       ELSE at' = at + 1 /\ UNCHANGED <<pass, entry, result>>
    /\ UNCHANGED <<image, have, entryoff, code, mem>>

LoadNext ==
    LoadRefuse \/ LoadSegment \/ LoadMain \/ LoadSkip \/ LoadFirstPassEnds \/ LoadLookUp

LoadSpec == LoadInit /\ [][LoadNext]_loaderVars
-----------------------------------------------------------------------------
(* However its commands are laid out, an image is copied only into the     *)
(* region reserved for it, and the entry coreinit jumps to is an address   *)
(* of the region (the bounds checks of stage_load_macho and its second     *)
(* pass, which repeats none of them).                                      *)
StaysInside ==
    /\ \A a \in Ram \ Region : mem[a] = Untouched
    /\ result \in Region \cup {0, Untouched}

(* Segments that do not overlap in memory, and one LC_MAIN at most.        *)
WellFormed ==
    LET cs == image.cmds
        segs == {i \in DOMAIN cs : Loaded(cs[i])}
    IN  /\ \A i, j \in segs : i # j => \/ cs[i].vmaddr + cs[i].vmsize <= cs[j].vmaddr
                                       \/ cs[j].vmaddr + cs[j].vmsize <= cs[i].vmaddr
        /\ \A i, j \in DOMAIN cs : cs[i].cmd = "main" /\ cs[j].cmd = "main" => i = j

(* A well-formed image is accepted exactly when every check passes and     *)
(* some segment holds the entry's file offset, in whichever order LC_MAIN  *)
(* and the segments come; then the entry's address holds that byte of the  *)
(* file, every segment its bytes, and on aarch64 the range made visible to *)
(* instruction fetches covers all the code (stage_load_macho).             *)
LoadedExact ==
    LET cs   == image.cmds
        segs == {i \in DOMAIN cs : Loaded(cs[i])}
        Good == /\ image.header /\ \A i \in DOMAIN cs : cs[i].fits
                /\ \A i \in segs : InBounds(cs[i])
                /\ \E m \in DOMAIN cs : cs[m].cmd = "main" /\ \E i \in segs : Holds(cs[i], cs[m].entryoff)
    IN  pass = 0 /\ WellFormed =>
            /\ (result # 0) = Good
            /\ result # 0 =>
                 /\ mem[result] = Fetched(entryoff)
                 /\ \A i \in segs, n \in 0 .. ReservedSize :
                      LET a == TargetBase + cs[i].vmaddr + n IN
                      /\ n < cs[i].filesize => mem[a] = Fetched(cs[i].fileoff + n)
                      /\ n >= cs[i].filesize /\ n < cs[i].vmsize => mem[a] = 0
                      /\ image.arm /\ cs[i].exec /\ n < cs[i].filesize =>
                            code.start <= a /\ a < code.end
=============================================================================

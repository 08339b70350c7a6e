---------------------------- MODULE MCSecurinit ----------------------------
(***************************************************************************)
(* Every image of up to three commands out of nine, in a plain             *)
(* environment; and two good images, one per architecture, in every        *)
(* environment: memory that is not granted, a factory that runs out, an    *)
(* object the kernel refuses from either run on, an unexpected map.        *)
(***************************************************************************)
EXTENDS Securinit

Base == [cmd |-> "segment", fits |-> TRUE, pagezero |-> FALSE, exec |-> FALSE, vmaddr |-> 0, vmsize |-> 0,
         fileoff |-> 0, filesize |-> 0, entryoff |-> 0]
Text == [Base EXCEPT !.exec = TRUE, !.vmsize = 2, !.filesize = 2]
Data == [Base EXCEPT !.vmaddr = 2, !.vmsize = 2, !.fileoff = 2, !.filesize = 1, !.exec = TRUE]
Large == [Base EXCEPT !.vmaddr = 2, !.vmsize = 4, !.filesize = 2]
Again == [Base EXCEPT !.vmaddr = 1, !.vmsize = 2, !.fileoff = 1, !.filesize = 1]
Beyond == [Base EXCEPT !.vmsize = 3, !.fileoff = 2, !.filesize = 3]
PageZero == [Base EXCEPT !.pagezero = TRUE, !.vmsize = 9, !.filesize = 4]
Main(off) == [Base EXCEPT !.cmd = "main", !.entryoff = off]
Broken == [Base EXCEPT !.cmd = "other", !.fits = FALSE]

Cmds == {Text, Data, Large, Again, Beyond, PageZero, Main(1), Main(3), Broken}
Image(arm, header, cmds) == [header |-> header, arm |-> arm, len |-> 4, cmds |-> cmds]

Good(arm) == Image(arm, TRUE, <<[Base EXCEPT !.cmd = "other"], Text, Main(1)>>)
MCImages ==
    {Image(arm, TRUE, cmds) : arm \in BOOLEAN, cmds \in UNION {[1 .. n -> Cmds] : n \in 0 .. 3}}
    \cup {Image(TRUE, FALSE, <<Text>>), Good(TRUE), Good(FALSE)}

Plain == [room |-> 7, dead |-> "none", since |-> 0, grants |-> {"image", "user"}, root |-> TRUE,
          shape |-> TRUE, user |-> FALSE]
Envs == {Plain} \cup {[Plain EXCEPT !.room = r] : r \in 0 .. 6}
        \cup {[Plain EXCEPT !.grants = g] : g \in {{}, {"image"}}}
        \cup {[Plain EXCEPT !.dead = d, !.since = n] :
                d \in {"sink", "router", "status", "gate", "admin", "factory"}, n \in 0 .. 2}
        \cup {[Plain EXCEPT !.root = FALSE], [Plain EXCEPT !.shape = FALSE], [Plain EXCEPT !.user = TRUE]}

MCSetups == {[image |-> i, env |-> Plain] : i \in MCImages}
            \cup {[image |-> Good(arm), env |-> e] : arm \in BOOLEAN, e \in Envs}
MCRam == 0 .. 9
=============================================================================

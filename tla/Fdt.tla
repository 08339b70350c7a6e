-------------------------------- MODULE Fdt --------------------------------
(***************************************************************************)
(* The device-tree reader, lib/fdt.c.                                      *)
(*                                                                         *)
(* The structure block is a sequence of tokens and an offset is a position *)
(* in it: a name, a length or the padding of a token has no offset of its  *)
(* own, and a read outside the block is the token "out".  A property's     *)
(* value is a sequence of cells or of strings, so the byte order of a cell *)
(* and the terminator of a string are gone with it.  A property found is   *)
(* the offset of its token, as it is a pointer in the code.                *)
(***************************************************************************)
LOCAL INSTANCE Integers
LOCAL INSTANCE Sequences
LOCAL INSTANCE FiniteSets
LOCAL INSTANCE FiniteSetsExt

CONSTANTS
    MaxDepth,        \* FDT_MAX_DEPTH
    Word             \* what one cell counts to

Err == -1
Root == 1
Open == 0         \* no result yet

Tok(b, p) == IF p \in DOMAIN b THEN b[p].t ELSE "out"

(* The walk over one node, to the offset past its end.                     *)
SkipNode(b, node) ==
    LET skip[p \in Nat, depth \in Nat] ==
            CASE Tok(b, p) = "begin"           -> skip[p + 1, depth + 1]
              [] Tok(b, p) = "end"             -> IF depth <= 1 THEN p + 1 ELSE skip[p + 1, depth - 1]
              [] Tok(b, p) \in {"prop", "nop"} -> skip[p + 1, depth]
              [] OTHER                         -> Err
    IN  skip[node, 0]

AfterName(b, node) == IF Tok(b, node) = "begin" THEN node + 1 ELSE Err

FirstChild(b, node) ==
    LET child[p \in Nat] ==
            CASE Tok(b, p) = "begin"           -> p
              [] Tok(b, p) \in {"prop", "nop"} -> child[p + 1]
              [] OTHER                         -> Err
    IN  IF AfterName(b, node) = Err THEN Err ELSE child[AfterName(b, node)]

(* The last node seen at each depth on the way from the root to the node.  *)
ParentOffset(b, node) ==
    LET walk[p \in Nat, depth \in Int, stack \in [0 .. MaxDepth - 1 -> Int]] ==
            CASE Tok(b, p) = "begin" /\ p = node ->
                    IF depth < 0 \/ depth >= MaxDepth THEN Err ELSE stack[depth]
              [] Tok(b, p) = "begin" /\ p # node ->
                    walk[p + 1, depth + 1,
                         IF depth + 1 < MaxDepth THEN [stack EXCEPT ![depth + 1] = p] ELSE stack]
              [] Tok(b, p) = "end" -> IF depth = 0 THEN Err ELSE walk[p + 1, depth - 1, stack]
              [] Tok(b, p) \in {"prop", "nop"} -> walk[p + 1, depth, stack]
              [] OTHER -> Err
    IN  walk[Root, -1, [d \in 0 .. MaxDepth - 1 |-> Err]]

(* The sibling without the check that both have the same parent and with   *)
(* the end of the node taken for the first end token.                      *)
NextSiblingShallow(b, parent, prev) ==
    LET sibling[p \in Nat] ==
            CASE Tok(b, p) = "begin" -> p
              [] Tok(b, p) = "nop"   -> sibling[p + 1]
              [] OTHER               -> Err
    IN  sibling[1 + Min({p \in prev .. Len(b) : Tok(b, p) = "end"})]

NextSibling(b, parent, prev) ==
    LET sibling[p \in Nat] ==
            CASE Tok(b, p) = "begin" -> p
              [] Tok(b, p) = "nop"   -> sibling[p + 1]
              [] OTHER               -> Err
    IN  IF ParentOffset(b, prev) # parent \/ SkipNode(b, prev) = Err THEN Err
        ELSE sibling[SkipNode(b, prev)]

GetProp(b, node, name) ==
    LET prop[p \in Nat] ==
            CASE Tok(b, p) = "prop" -> IF b[p].name = name THEN p ELSE prop[p + 1]
              [] Tok(b, p) = "nop"  -> prop[p + 1]
              [] OTHER              -> Err
    IN  IF AfterName(b, node) = Err THEN Err ELSE prop[AfterName(b, node)]

(* One component of a path at a time, by name among the children.          *)
PathOffset(b, path) ==
    LET Child(parent, name) ==
            LET named[c \in Int] == IF c = Err THEN Err
                                    ELSE IF b[c].name = name THEN c
                                    ELSE named[NextSibling(b, parent, c)]
            IN  named[FirstChild(b, parent)]
        at[i \in Nat] == IF i = 0 THEN Root
                         ELSE IF at[i - 1] = Err THEN Err ELSE Child(at[i - 1], path[i])
    IN  IF Tok(b, Root) = "begin" THEN at[Len(path)] ELSE Err

CompatibleMatch(b, node, want) ==
    LET p == GetProp(b, node, "compatible")
    IN  p # Err /\ \E i \in DOMAIN b[p].val : b[p].val[i] = want
-----------------------------------------------------------------------------
(* fdt_next_node_by_compatible_offset is a loop over a stack of nodes; a   *)
(* search is [stack, depth, found] and goes on while found is Open.        *)
Start == [stack |-> [d \in 0 .. MaxDepth - 1 |-> Root], depth |-> 0, found |-> Open]

(* No children: the next sibling of the node or of the nearest node above  *)
(* that has one.                                                           *)
Climb(b, s) ==
    LET climb[d \in Nat] ==
            IF d = 0 THEN [s EXCEPT !.found = Err, !.depth = 0]
            ELSE LET sib == NextSibling(b, s.stack[d - 1], s.stack[d])
                 IN  IF sib # Err THEN [s EXCEPT !.stack[d] = sib, !.depth = d] ELSE climb[d - 1]
    IN  climb[s.depth]

(* The search that forgets to climb more than one level.                   *)
SearchOneUp(b, s, want, prev) ==
    LET cur == s.stack[s.depth]
        ch  == FirstChild(b, cur)
        sib == IF s.depth = 0 THEN Err ELSE NextSibling(b, s.stack[s.depth - 1], cur)
    IN  IF cur > prev /\ CompatibleMatch(b, cur, want) THEN [s EXCEPT !.found = cur]
        ELSE IF ch # Err THEN [s EXCEPT !.depth = @ + 1, !.stack[s.depth + 1] = ch]
        ELSE IF sib = Err THEN [s EXCEPT !.found = Err]
        ELSE [s EXCEPT !.stack[s.depth] = sib]

(* One round of the loop.  A node too deep to descend into makes the       *)
(* search go back to its parent, which it then visits again.               *)
Search(b, s, want, prev) ==
    LET cur == s.stack[s.depth]
        ch  == FirstChild(b, cur)
    IN  IF cur > prev /\ CompatibleMatch(b, cur, want) THEN [s EXCEPT !.found = cur]
        ELSE IF ch = Err THEN Climb(b, s)
        ELSE IF s.depth + 1 < MaxDepth
             THEN [s EXCEPT !.depth = @ + 1, !.stack[s.depth + 1] = ch]
        ELSE IF s.depth = 0 THEN [s EXCEPT !.found = Err]
        ELSE [s EXCEPT !.depth = @ - 1]
-----------------------------------------------------------------------------
RdCells(val, at, cells) ==
    IF cells = 1 THEN val[at] ELSE val[at] * Word + val[at + 1]

OwnCells(b, node, name) ==
    LET p == GetProp(b, node, name)
    IN  IF p = Err \/ b[p].val = << >> THEN Err ELSE b[p].val[1]

(* The nearest ancestor's declaration; two cells when there is none.       *)
ParentCells(b, node, name) ==
    LET cells[cur \in Int] == IF cur = Err THEN 2
                              ELSE IF OwnCells(b, cur, name) # Err THEN OwnCells(b, cur, name)
                              ELSE cells[ParentOffset(b, cur)]
    IN  cells[ParentOffset(b, node)]

(* A bus's windows, child address, parent address and length, and the      *)
(* first of them the address lies in.                                      *)
Hits(w, base) == base >= w.child /\ base < w.child + w.size

Window(val, base, oa, pa, os) ==
    LET n == oa + pa + os
        w == [i \in 1 .. Len(val) \div n |->
                [child  |-> RdCells(val, (i - 1) * n + 1, oa),
                 parent |-> RdCells(val, (i - 1) * n + oa + 1, pa),
                 size   |-> RdCells(val, (i - 1) * n + oa + pa + 1, os)]]
        hits == {i \in DOMAIN w : Hits(w[i], base)}
    IN  IF hits = {} THEN Err ELSE w[Min(hits)].parent + (base - w[Min(hits)].child)

(* One node's ranges: none or an empty one passes the address on, and no   *)
(* window that holds it fails.                                             *)
Or2(n) == IF n \in {Err, 0} THEN 2 ELSE n

Through(b, node, ranges, base) ==
    IF ranges = Err THEN base
    ELSE IF b[ranges].val = << >> THEN base
    ELSE Window(b[ranges].val, base, Or2(OwnCells(b, node, "#address-cells")),
                Or2(ParentCells(b, node, "#address-cells")),
                Or2(OwnCells(b, node, "#size-cells")))

(* The walk to the root, through the ranges of every node on the way.      *)
Translate(b, node, addr) ==
    LET via[cur \in Int, base \in Int] ==
            IF base = Err \/ ParentOffset(b, cur) = Err THEN base
            ELSE via[ParentOffset(b, cur), Through(b, cur, GetProp(b, cur, "ranges"), base)]
    IN  via[node, addr]

(* The address cells of one entry of a reg property.                       *)
Entry(b, reg, ac, sc, index) ==
    IF reg = Err \/ ac = 0 THEN Err
    ELSE IF (index + 1) * (ac + sc) > Len(b[reg].val) THEN Err
    ELSE RdCells(b[reg].val, index * (ac + sc) + 1, ac)

(* The translation that stops at the first bus.                            *)
RegOneBus(b, node, index) ==
    Entry(b, GetProp(b, node, "reg"), ParentCells(b, node, "#address-cells"),
          ParentCells(b, node, "#size-cells"), index)

RegToCpuAddr(b, node, index) ==
    Translate(b, node,
        Entry(b, GetProp(b, node, "reg"), ParentCells(b, node, "#address-cells"),
              ParentCells(b, node, "#size-cells"), index))

(* fdt_is_enabled: an absent or empty status is enabled.                   *)
IsEnabled(b, node) ==
    LET p == GetProp(b, node, "status")
    IN  p = Err \/ (p # Err /\ (b[p].val = << >> \/ b[p].val[1] \in {"okay", "ok"}))
=============================================================================

------------------------------ MODULE DirRelink ------------------------------
(***************************************************************************)
(* What the raw-page patcher of modules/mcsp promises about a memory card, *)
(* with no flash, buffers or scanning: a card is blocks of pages, a page   *)
(* may hold one directory entry, and the only thing that ever happens is   *)
(* that ONE entry, whose name was asked for, is relinked -- a normal file  *)
(* becomes a link to the hacked OSD file, or such a link becomes a file    *)
(* again.  A fault may cost the contents of one block, never of block 0,   *)
(* which holds the superblock.                                             *)
(***************************************************************************)
EXTENDS Integers

CONSTANTS
  Blocks,         \* block numbers of the card, 0 among them
  Offsets,        \* page numbers inside a block
  Links,          \* what an entry points at: <<size, first cluster>>
  OsdLink,        \* size and first cluster of the hacked OSD file
  Unset,          \* a link nobody has recorded
  Wanted,         \* names of the dummy files
  Erased,         \* an erased page
  Layouts         \* contents a card may start with

VARIABLES
  dir,            \* dir[b][o]: the page at offset o of block b
  torn            \* blocks whose contents a fault has cost

vars == <<dir, torn>>

Init == dir \in Layouts /\ torn = {}

(* Patch: a wanted file entry starts to point at the OSD file.             *)
Link(b, o) ==
  /\ dir[b][o].name \in Wanted
  /\ dir[b][o].attr = "file"
  /\ dir' = [dir EXCEPT ![b][o].attr = "linked", ![b][o].link = OsdLink]
  /\ UNCHANGED torn

(* UnPatch: a wanted entry that points at the OSD file is pointed back at  *)
(* what was recorded for it.                                               *)
Unlink(b, o, l) ==
  /\ dir[b][o].name \in Wanted
  /\ dir[b][o].attr = "linked"
  /\ dir[b][o].link = OsdLink
  /\ dir' = [dir EXCEPT ![b][o].attr = IF l = Unset THEN "other" ELSE "file",
                        ![b][o].link = l]
  /\ UNCHANGED torn

(* A failed erase or write, or the power going, in the middle of a block.  *)
LoseBlock(b) ==
  /\ torn = {}
  /\ torn' = {b}
  /\ \E lost \in SUBSET Offsets :
       dir' = [dir EXCEPT ![b] =
                 [o \in Offsets |-> IF o \in lost THEN Erased ELSE dir[b][o]]]

Next ==
  \E b \in Blocks \ {0} :
    \/ LoseBlock(b)
    \/ \E o \in Offsets :
         \/ Link(b, o)
         \/ \E l \in Links \cup {Unset} : Unlink(b, o, l)

Spec == Init /\ [][Next]_vars
==============================================================================

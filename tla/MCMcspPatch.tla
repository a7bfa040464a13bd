----------------------------- MODULE MCMcspPatch -----------------------------
(***************************************************************************)
(* McspPatch on a card of four blocks of two pages: the superblock, two    *)
(* blocks of directory, and the backup block of the file system, which may *)
(* hold an old copy of a directory page.  Three dummies are asked for, so  *)
(* that the directory blocks can come up as b1, b2, b1 in eraseblocks.     *)
(***************************************************************************)
EXTENDS McspPatch

CONSTANTS d1, d2, d3, other

MCReq   == <<d1, d2, d3>>
MCNames == {d1, d2, d3, other, NoName}
Dummies == {d1, d2, d3}

Backup == {NumBlocks - 1}
DirBlocks == 1 .. NumBlocks - 2
Slots == DirBlocks \X Offsets

(* Every dummy starts with a cluster of its own.                           *)
MCLinks == {d1, d2, d3, OsdLink, other}

Sys    == [name |-> NoName, attr |-> "other", link |-> other]
Other  == [name |-> other, attr |-> "file", link |-> other]
File(n, l) == [name |-> n, attr |-> "file", link |-> l]

(* What is left in the directory of a file that was deleted.               *)
Gone(n) == [name |-> n, attr |-> "other", link |-> other]

(* place[s]: the dummy in slot s, or other; no dummy is in two slots.      *)
Placements == {p \in [Slots -> Dummies \cup {other}] :
                 \A s, t \in Slots : p[s] = p[t] => s = t \/ p[s] = other}

Card(place, rest, stale) ==
  [b \in Blocks |-> [o \in Offsets |->
     CASE b = 0 -> Sys
       [] b \in DirBlocks -> LET n == place[<<b, o>>]
                             IN  IF n = other THEN rest ELSE File(n, n)
       [] OTHER -> IF o = 0 THEN stale ELSE Other]]

AllPlaced(p) == \A n \in Dummies : \E s \in Slots : p[s] = n

(* Cards as Install_Hack leaves them: all dummies there, perhaps an entry  *)
(* of the same name that was deleted, and perhaps an old copy of one of    *)
(* their pages in the backup block.                                        *)
Fresh == {Card(p, r, s) : p \in {q \in Placements : AllPlaced(q)},
                          r \in {Other, Gone(d1)},
                          s \in {Other} \cup {File(n, other) : n \in Dummies}}

(* Cards on which a dummy is missing, as after its file could be deleted.  *)
Holed == {Card(p, Other, Other) : p \in {q \in Placements : ~AllPlaced(q)}}

(* Pages that an earlier patch, cut short, has already linked.             *)
Linked(n) == [name |-> n, attr |-> "linked", link |-> OsdLink]
Mixed == {[c EXCEPT ![1][0] = Linked(n)] : c \in {Card(p, Other, Other) : p \in
             {q \in Placements : q[<<1, 0>>] = other}}, n \in Dummies}

(* .page fields of a request are never set: below, on and beyond the card. *)
MCJunk == {-1, 0, 1, 9}

MCFresh == Fresh
ASSUME FreshIsPrepared == \A card \in MCFresh : Prepared(card)

MCAll == Fresh \cup Holed \cup Mixed
==============================================================================

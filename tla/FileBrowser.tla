----------------------------- MODULE FileBrowser -----------------------------
(***************************************************************************)
(* The file browser of the configurator (getFilePath of filer.c, as called *)
(* with cnfmode TRUE: it returns the path of one file).  A folder is the   *)
(* sequence of names on the way to it, <<>> the list of the devices.       *)
(*                                                                         *)
(* An entry carries the rank of its name in the order of upper-case        *)
(* letters and whether it ends in ".ELF".  A folder whose device is out,   *)
(* or that is not there, is listed empty.                                  *)
(***************************************************************************)
EXTENDS Integers, SequencesExt

CONSTANTS Tree,     \* [folder -> its entries, in the order the device gives them]
          PageRows  \* lines of the list on the screen

VARIABLES browse,   \* the browser: open, folder, selection, first line, filter, list
          lastDir,  \* LastDir
          usb       \* have_usbd and have_usb_mass: the drivers of the stick are loaded

browserVars == <<browse, lastDir, usb>>

Folder(name) == [name |-> name, dir |-> TRUE, elf |-> FALSE, rank |-> 0]
Devices == <<Folder("mc0:"), Folder("mc1:"), Folder("mass:")>>
UpEntry == Folder("..")
Entry == {UpEntry} \cup Range(Devices) \cup UNION {Range(Tree[p]) : p \in DOMAIN Tree}
Path == Seq({e.name : e \in Entry})
Closed == [open |-> FALSE, path |-> <<>>, sel |-> 0, top |-> 0, all |-> FALSE, list |-> <<>>]

\* The folder above a folder is there.
ASSUME BrowserAssumption ==
    /\ PageRows \in Nat \ {0}
    /\ \A p \in DOMAIN Tree :
         /\ p \in Path /\ p # <<>> /\ Front(p) \in {<<>>} \cup DOMAIN Tree
         /\ Tree[p] \in Seq(Entry)
         /\ \A e \in Range(Tree[p]) : e.dir \in BOOLEAN /\ e.elf \in BOOLEAN /\ e.rank \in Int

OnStick(path) == path # <<>> /\ Head(path) = "mass:"

BrowserTypeOK ==
    /\ browse \in [open : BOOLEAN, path : Path, sel : Int, top : Int, all : BOOLEAN, list : Seq(Entry)]
    /\ browse.path = <<>> \/ Front(browse.path) \in {<<>>} \cup DOMAIN Tree
    /\ lastDir = <<>> \/ lastDir \in DOMAIN Tree
    /\ usb \in BOOLEAN

BrowserInit ==
    /\ browse = Closed
    /\ lastDir = <<>>
    /\ usb = FALSE

(***************************************************************************)
(* The list: sort() is a quicksort around the first entry, cmpFile() puts  *)
(* folders before files, programs before other files, then goes by name.   *)
(***************************************************************************)

Before(a, b) ==
    IF a.dir # b.dir THEN a.dir
    ELSE IF ~a.dir /\ a.elf # b.elf THEN a.elf
    ELSE a.rank < b.rank

Swap(a, i, j) == [a EXCEPT ![i] = a[j], ![j] = a[i]]

\* One entry after the other is compared with the first; the smaller ones
\* come to lie at 2..p.
Partition_Last(a) ==
    LET scan[k \in 1..Len(a)] ==
          IF k = 1 THEN [p |-> 1, a |-> a]
          ELSE LET s == scan[k - 1]
               IN IF Before(s.a[k], a[1]) THEN [p |-> s.p + 1, a |-> Swap(s.a, s.p + 1, k)] ELSE s
    IN scan[Len(a) - 1]
Partition(a) ==
    LET scan[k \in 1..Len(a)] ==
          IF k = 1 THEN [p |-> 1, a |-> a]
          ELSE LET s == scan[k - 1]
               IN IF Before(s.a[k], a[1]) THEN [p |-> s.p + 1, a |-> Swap(s.a, s.p + 1, k)] ELSE s
    IN scan[Len(a)]

Sorted[a \in Seq(Entry)] ==
    IF Len(a) <= 1 THEN a
    ELSE LET s == Partition(a)
             b == Swap(s.a, 1, s.p)
         IN Sorted[SubSeq(b, 1, s.p - 1)] \o <<b[s.p]>> \o Sorted[SubSeq(b, s.p + 1, Len(b))]

\* Without the filter every entry passes, with it folders and programs.
Passes(e, all) == all \/ e.dir \/ e.elf
Passing(a, all) ==
    LET kept[k \in 0..Len(a)] ==
          IF k = 0 THEN <<>> ELSE IF Passes(a[k], all) THEN Append(kept[k - 1], a[k]) ELSE kept[k - 1]
    IN kept[Len(a)]

Contents(path) == IF path \in DOMAIN Tree THEN Tree[path] ELSE <<>>
Listing(path, all, found) ==
    IF path = <<>> THEN Devices
    ELSE <<UpEntry>> \o Sorted[Passing(IF found THEN Contents(path) ELSE <<>>, all)]

(***************************************************************************)
(* One turn of the loop: the list if the folder changed, then the clamps.  *)
(***************************************************************************)

AtMost(a, b) == IF a > b THEN b ELSE a
AtLeast(a, b) == IF a < b THEN b ELSE a

Clamped_SelectionOnly(b) ==
    LET sel == AtLeast(AtMost(b.sel, Len(b.list) - 1), 0)
    IN [b EXCEPT !.sel = sel, !.top = AtMost(AtLeast(b.top, sel - PageRows + 1), sel)]
Clamped(b) ==
    LET sel == AtLeast(AtMost(b.sel, Len(b.list) - 1), 0)
        top == AtLeast(AtMost(b.top, Len(b.list) - PageRows), 0)
    IN [b EXCEPT !.sel = sel, !.top = AtMost(AtLeast(top, sel - PageRows + 1), sel)]

\* The selection goes to the entry named (browser_repos), else to the first.
Placed(b, entry) ==
    LET at == SelectInSeq(b.list, LAMBDA e : e.name = entry)
    IN Clamped(IF at = 0 THEN [b EXCEPT !.sel = 0, !.top = 0] ELSE [b EXCEPT !.sel = at - 1, !.top = at - 4])

\* readMASS loads the drivers; without them the stick has no entries.
Show(b, entry) ==
    /\ \E found \in BOOLEAN :
         /\ usb' \in (IF OnStick(b.path) THEN {usb, TRUE} ELSE {usb})
         /\ found /\ OnStick(b.path) => usb'
         /\ browse' = Placed([b EXCEPT !.list = Listing(b.path, b.all, found)], entry)

OpenBrowser ==
    /\ Show([Closed EXCEPT !.open = TRUE, !.path = lastDir], "")
    /\ UNCHANGED lastDir

Selected == browse.list[browse.sel + 1]

MoveSelection ==
    /\ browse.open
    /\ \E d \in {-1, 1, -(PageRows \div 2), PageRows \div 2} :
         browse' = Clamped([browse EXCEPT !.sel = @ + d])
    /\ UNCHANGED <<lastDir, usb>>

GoUp ==
    /\ browse.open
    /\ IF browse.path = <<>> THEN Show(browse, "")
       ELSE Show([browse EXCEPT !.path = Front(@)], Last(browse.path))
    /\ UNCHANGED lastDir

Enter ==
    /\ browse.open /\ Selected.dir
    /\ IF Selected.name = ".." THEN GoUp
       ELSE Show([browse EXCEPT !.path = Append(@, Selected.name)], "") /\ UNCHANGED lastDir

\* Square: the extension asked for, or any.
ToggleFilter ==
    /\ browse.open
    /\ Show([browse EXCEPT !.all = ~@], "")
    /\ UNCHANGED lastDir

\* A file is chosen: its path is written to out.
Choose ==
    /\ browse.open /\ ~Selected.dir
    /\ browse' = Closed /\ lastDir' = browse.path
    /\ UNCHANGED usb
Chosen == Append(browse.path, Selected.name)

Cancel ==
    /\ browse.open
    /\ browse' = Closed
    /\ UNCHANGED <<lastDir, usb>>

Walk == MoveSelection \/ GoUp \/ Enter \/ ToggleFilter

(***************************************************************************)
(* Properties                                                              *)
(***************************************************************************)

\* The selected line exists and is on the screen, and the page is filled
\* when there are entries enough, whatever moves, lists and filters came
\* before (the clamps of getFilePath, 3496-3501).
CursorShown ==
    browse.open =>
        LET n == Len(browse.list)
        IN /\ browse.sel \in 0..(n - 1)
           /\ browse.top >= 0
           /\ browse.sel \in browse.top..(browse.top + PageRows - 1)
           /\ browse.top + PageRows <= AtLeast(n, PageRows)

\* The list is the folder's entries that pass the filter, each once, folders
\* first, then programs, then other files, each in the order of their names.
\* A folder that cannot be read gives ".." alone (setFileList, sort, cmpFile).
ListInOrder ==
    browse.open /\ browse.path # <<>> =>
        LET l == Tail(browse.list)
            all == Contents(browse.path)
            passed == {i \in DOMAIN all : Passes(all[i], browse.all)}
        IN /\ Head(browse.list) = UpEntry
           /\ l # <<>> => Range(l) = {all[i] : i \in passed} /\ Len(l) = Cardinality(passed)
           /\ \A i, j \in DOMAIN l : i < j => ~Before(l[j], l[i])
==============================================================================

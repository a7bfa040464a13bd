---------------------------- MODULE Configurator ----------------------------
(***************************************************************************)
(* The configurator of Free McBoot (FMCB_Configurator: Config_fmcb and its *)
(* editors in config.c, the start in main.c).  The settings are a block of *)
(* the heap that the global fmcb points to.  An editor copies the block on *)
(* entry, works on the copy, and frees both on the way out: from then on   *)
(* fmcb points to memory that is free, and the settings live there until   *)
(* something else is allocated.                                            *)
(*                                                                         *)
(* The heap gives the first free block, keeps what a freed block held, and *)
(* does nothing when a block that is free is freed again (the allocator of *)
(* the PS2 SDK).  The dialogs for text wait for the user and are outcomes  *)
(* of the step that opens them; a program that is started ends the session.*)
(***************************************************************************)
EXTENDS CnfFile, FileBrowser, OsdGrid, FiniteSets

CONSTANTS NumItems,     \* 100 in the code
          HeapSize,     \* bound: blocks of settings that fit in memory
          MaxEdits, MaxResets, MaxSaves, MaxActs,   \* bounds: what the user does
          Used,         \* bound: the devices the user loads from and saves to
          TornAt,       \* bound: the lines of FileOrder a write can end in
          Columns,      \* bound: columns of buttons a driver's file covers
          OptionValues, \* the values an option is set to
          TypedNames,   \* what the user types
          InitFiles     \* the files at the start

ASSUME ConfiguratorAssumption ==
    /\ {HeapSize, MaxEdits, MaxResets, MaxSaves, MaxActs} \subseteq Nat /\ NumItems \in Nat \ {0}
    /\ Used \subseteq Port /\ TornAt \subseteq DOMAIN FileOrder /\ Columns \subseteq 1..3
    /\ OptionValues \cup TypedNames \subseteq Value
    /\ \A f \in InitFiles : f = [p \in Port |-> f[p]] /\ \A p \in Port : IsFile(f[p])
    /\ Items = 1..NumItems
    /\ {"OSDSYS", "FASTBOOT", "OSDMENU", "mc?:", "B?DATA-SYSTEM"} \subseteq Name
    /\ {e.name : e \in Entry} \subseteq Name

VARIABLES ui,       \* the screen, and its column of buttons
          heap,     \* the pointers fmcb and tmpfmcb, and the blocks allocated
          mem,      \* [block -> settings]; block 0 is what NULL points to
          osd_item, \* the item chosen on the screen of OSDSYS options
          clip,     \* tempitem: the item copied
          file,     \* FREEMCB.CNF of each device
          left      \* history, for the bounds: resets, edits and saves made

confVars == <<ui, heap, mem, osd_item, clip, file, left>>
vars == <<browserVars, confVars>>

Block == 1..HeapSize
Item == 0..(NumItems - 1)
Null == 0
ItemClip == [0..3 -> Value]
Screens == {"start", "menu", "keys", "esr", "osd", "item", "scroll"}

TypeOK ==
    /\ BrowserTypeOK
    /\ ui \in [at : Screens, col : 0..3]
    /\ heap \in [fmcb : {Null} \cup Block, tmpfmcb : {Null} \cup Block, live : SUBSET Block]
    /\ mem \in [{Null} \cup Block -> Cfg]
    /\ osd_item \in Item
    /\ clip \in ItemClip
    /\ file = [p \in Port |-> file[p]] /\ \A p \in Port : IsFile(file[p])
    /\ left \in [edits : Nat, resets : Nat, saves : Nat]

Current == mem[heap.fmcb]
JunkCfg == [n \in Setting |-> Junk]
JunkItem == [f \in 0..3 |-> Junk]

Init ==
    /\ BrowserInit
    /\ ui = [at |-> "start", col |-> 0]
    /\ heap = [fmcb |-> Null, tmpfmcb |-> Null, live |-> {}]
    /\ mem = [b \in {Null} \cup Block |-> JunkCfg]
    /\ osd_item = 0
    /\ clip = JunkItem
    /\ file \in InitFiles
    /\ left = [edits |-> 0, resets |-> 0, saves |-> 0]

Permitted(what, bound) == left[what] < bound /\ left.edits + left.resets + left.saves < MaxActs
Did(what, bound) == Permitted(what, bound) /\ left' = [left EXCEPT ![what] = @ + 1]

(***************************************************************************)
(* Memory.                                                                 *)
(***************************************************************************)

FirstFree(live) == CHOOSE b \in Block \ live : \A c \in Block \ live : b <= c

\* The drivers of the stick: loaded already, loaded now, or not found.
\* A file that is loaded is read into the first free memory and freed: it
\* takes the options and some columns of the buttons of what lay there.
Overwritten(c, k) == [n \in Setting |-> IF n \in Option \/ (n \in Key /\ n[3] <= k) THEN Junk ELSE c[n]]
LoadedOver(m, live) ==
    {m} \cup (IF Block \subseteq live THEN {}
              ELSE {[m EXCEPT ![FirstFree(live)] = Overwritten(@, k)] : k \in Columns})
loadUsbModules(m, live) ==
    IF usb THEN mem' = m /\ usb' = usb
    ELSE usb' \in BOOLEAN /\ mem' \in LoadedOver(m, live)

\* free(fmcb); fmcb = malloc(...), and what is then stored there
Renewed(h) ==
    LET live == h.live \ {h.fmcb}
    IN [h EXCEPT !.fmcb = FirstFree(live), !.live = live \cup {FirstFree(live)}]

\* tmpfmcb = fmcb; fmcb = malloc(...); *fmcb = *tmpfmcb
CopySettings ==
    /\ ~(Block \subseteq heap.live)
    /\ LET b == FirstFree(heap.live)
       IN /\ heap' = [fmcb |-> b, tmpfmcb |-> heap.fmcb, live |-> heap.live \cup {b}]
          /\ mem' = [mem EXCEPT ![b] = Current]

FreeSettings_Copy == heap' = [heap EXCEPT !.live = @ \ {heap.fmcb}] /\ UNCHANGED mem
FreeSettings_Back ==
    /\ heap' = [heap EXCEPT !.fmcb = heap.tmpfmcb, !.live = @ \ {heap.tmpfmcb, heap.fmcb}]
    /\ UNCHANGED mem
\* free(tmpfmcb); free(fmcb)
FreeSettings == heap' = [heap EXCEPT !.live = @ \ {heap.tmpfmcb, heap.fmcb}] /\ UNCHANGED mem

Set(n, v) == mem' = [mem EXCEPT ![heap.fmcb][n] = v]

(***************************************************************************)
(* Loading, defaults and saving.                                           *)
(***************************************************************************)

\* A file that is there and begins with its version is read; a read that
\* fails leaves no line in the buffer.
loadSucceeds(p) ==
    /\ file[p].there /\ file[p].headed
    /\ ~(Block \subseteq heap.live \ {heap.fmcb})
    /\ heap' = Renewed(heap)
    /\ \E lines \in {file[p].lines, NoFile.lines} :
         LET m == [mem EXCEPT ![heap'.fmcb] = Read(lines, @)]
         IN IF p = "mass" THEN loadUsbModules(m, heap'.live) /\ usb' ELSE mem' = m /\ usb' = usb

\* It is not there, it does not begin with its version, or memory is short:
\* the settings are the defaults.
loadFails(p) ==
    /\ ~(Block \subseteq heap.live \ {heap.fmcb})
    /\ heap' = Renewed(heap)
    /\ LET m == [mem EXCEPT ![heap'.fmcb] = Defaults]
       IN IF p = "mass" THEN loadUsbModules(m, heap'.live) ELSE mem' = m /\ usb' = usb

\* "Saved" is shown whether the write was complete or not (2293-2300); the
\* file stays as it was when it cannot be opened.
saveFmcbCNF(p) ==
    /\ IF p = "mass" THEN loadUsbModules(mem, heap.live) ELSE UNCHANGED <<mem, usb>>
    /\ \/ UNCHANGED file
       \/ /\ p = "mass" => usb'
          /\ \E lines \in {Stored(Current)} \cup UNION {Torn(Current, k) : k \in TornAt} :
               file' = [file EXCEPT ![p] = [there |-> TRUE, headed |-> TRUE, lines |-> lines]]

\* The start: the stick, then the cards, until one of them loads.
Start ==
    /\ ui.at = "start"
    /\ LET p == <<"mass", "mc0", "mc1">>[ui.col + 1]
       IN \/ loadSucceeds(p) /\ ui' = [at |-> "menu", col |-> 0]
          \/ loadFails(p) /\ ui' = IF ui.col = 2 THEN [at |-> "menu", col |-> 0] ELSE [ui EXCEPT !.col = @ + 1]
    /\ UNCHANGED <<osd_item, clip, file, left, browse, lastDir>>

LoadCnf ==
    /\ ui.at = "menu" /\ Did("resets", MaxResets)
    /\ \E p \in Used : loadSucceeds(p) \/ loadFails(p)
    /\ UNCHANGED <<ui, osd_item, clip, file, browse, lastDir>>

SetAllDefault ==
    /\ ui.at = "menu" /\ Did("resets", MaxResets)
    /\ ~(Block \subseteq heap.live \ {heap.fmcb})
    /\ heap' = Renewed(heap)
    /\ mem' = [mem EXCEPT ![heap'.fmcb] = Defaults]
    /\ UNCHANGED <<ui, osd_item, browserVars, clip, file>>

SaveCnf ==
    /\ ui.at = "menu" /\ Did("saves", MaxSaves)
    /\ \E p \in Used : saveFmcbCNF(p)
    /\ UNCHANGED <<ui, heap, osd_item, clip, browse, lastDir>>

(***************************************************************************)
(* The menu and the way in and out of the editors.                         *)
(***************************************************************************)

Edited == Did("edits", MaxEdits)
Quiet == UNCHANGED <<browserVars, osd_item, clip, file>>
Unmoved == UNCHANGED <<ui, heap>> /\ Quiet

ChangeOption(screen, options) ==
    /\ ui.at = screen /\ Edited
    /\ \E o \in options, v \in OptionValues : Set(<<"option", o>>, v)
    /\ Unmoved

\* FastBoot, Debug Screen and Pad Delay
ChangeMenuOption == ChangeOption("menu", MenuOptions)

EnterEditor ==
    /\ ui.at = "menu" /\ CopySettings
    /\ \/ \E e \in 1..3 : ui' = [at |-> "keys", col |-> e] /\ UNCHANGED <<osd_item, clip>>
       \/ ui' = [ui EXCEPT !.at = "esr"] /\ UNCHANGED <<osd_item, clip>>
       \/ ui' = [ui EXCEPT !.at = "osd"] /\ osd_item' = 0 /\ clip' = JunkItem
    /\ UNCHANGED <<browserVars, file, left>>

\* From the options of OSDSYS, row 1 leads to an item and row 2 to the scroll
\* menu; the cursor gets to any row (RowsReachable).
EnterNested ==
    /\ ui.at = "osd" /\ CopySettings
    /\ \E s \in {"item", "scroll"} : ui' = [ui EXCEPT !.at = s]
    /\ UNCHANGED left /\ Quiet

\* Triangle on any row, or "Return".
LeaveEditor ==
    /\ ui.at \in {"keys", "esr", "osd", "item", "scroll"} /\ ~browse.open
    /\ FreeSettings
    /\ ui' = [at |-> IF ui.at \in {"item", "scroll"} THEN "osd" ELSE "menu", col |-> 0]
    /\ osd_item' = IF ui.at = "osd" THEN 0 ELSE osd_item
    /\ clip' = IF ui.at = "osd" THEN JunkItem ELSE clip
    /\ UNCHANGED <<browserVars, file, left>>

(***************************************************************************)
(* Editing.                                                                *)
(***************************************************************************)

\* The paths an editor shows, and the first row past the buttons: the array
\* of one column is followed by that of the next, and by the items' names.
Slots ==
    CASE ui.at = "keys" -> {<<"key", b, ui.col>> : b \in Buttons}
      [] ui.at = "esr"  -> Esr
      [] ui.at = "item" -> {<<"item", osd_item + 1, f>> : f \in 1..3}
      [] OTHER -> {}
PastButtons == IF ui.col < 3 THEN <<"key", 1, ui.col + 1>> ELSE <<"item", 1, 0>>
NameSlot == <<"item", osd_item + 1, 0>>

ClearPath ==
    /\ ~browse.open /\ Edited
    /\ \E n \in Slots \cup (IF ui.at = "item" THEN {NameSlot} ELSE {}) : Set(n, Empty)
    /\ Unmoved

Special(v) ==
    CASE v = <<"OSDSYS">> -> <<"FASTBOOT">>
      [] v = <<"FASTBOOT">> /\ ui.at = "keys" -> <<"OSDMENU">>
      [] OTHER -> <<"OSDSYS">>

\* SELECT, on the row "Return" of the buttons too (2845-2868)
SetSpecial ==
    /\ ~browse.open /\ ui.at \in {"keys", "item"} /\ Edited
    /\ \E n \in Slots \cup (IF ui.at = "keys" THEN {PastButtons} ELSE {}) : Set(n, Special(Current[n]))
    /\ Unmoved

TypeName ==
    /\ ui.at = "item" /\ ~browse.open /\ Edited
    /\ \E v \in TypedNames : Set(NameSlot, v)
    /\ Unmoved

ChangeScrollOption == ChangeOption("scroll", ScrollOptions)
ChangeOsdOption == ChangeOption("osd", OsdOptions)

Wrapped_Not(i) == i
\* The item before or after, round the end; `osd_item = osd_item --' leaves
\* open whether it moves at all.
Wrapped(i) == IF i < 0 THEN NumItems - 1 ELSE IF i >= NumItems THEN 0 ELSE i
ChooseItem ==
    /\ ui.at = "osd"
    /\ \E d \in {-1, 1} : osd_item' \in {osd_item, Wrapped(osd_item + d)}
    /\ UNCHANGED <<ui, heap, mem, clip, file, left, browserVars>>

ItemOf(c, i) == [f \in 0..3 |-> c[<<"item", i, f>>]]
SetItem(i, fields) ==
    mem' = [mem EXCEPT ![heap.fmcb] = [n \in Setting |-> IF n \in ItemLine /\ n[2] = i THEN fields[n[3]] ELSE @[n]]]

\* Cross, L2 and R2 on row 1: clear, copy and paste the item.  A paste over an
\* item that is not empty asks first.
ClearItem ==
    /\ ui.at = "osd" /\ Edited
    /\ SetItem(osd_item + 1, [f \in 0..3 |-> Empty])
    /\ Unmoved
CopyItem ==
    /\ ui.at = "osd"
    /\ clip' = ItemOf(Current, osd_item + 1)
    /\ UNCHANGED <<ui, heap, mem, left, browserVars, osd_item, file>>
PasteItem ==
    /\ ui.at = "osd" /\ Edited
    /\ SetItem(osd_item + 1, clip)
    /\ Unmoved

(***************************************************************************)
(* Browsing for a path.                                                    *)
(***************************************************************************)

Browse ==
    /\ ui.at \in {"keys", "esr", "item"} /\ ~browse.open
    /\ Permitted("edits", MaxEdits)
    /\ OpenBrowser
    /\ mem' \in (IF OnStick(lastDir) /\ ~usb THEN LoadedOver(mem, heap.live) ELSE {mem})
    /\ UNCHANGED <<ui, heap, clip, file, left, osd_item>>

WalkFolders ==
    /\ Walk
    /\ mem' \in (IF OnStick(browse'.path) /\ ~usb THEN LoadedOver(mem, heap.live) ELSE {mem})
    /\ UNCHANGED <<ui, heap, clip, file, left, osd_item>>

OnCard(v) == v # Empty /\ Head(v) \in {"mc0:", "mc1:", "mc?:"}
DataFolder == {"BIDATA-SYSTEM", "BADATA-SYSTEM", "BEDATA-SYSTEM", "BCDATA-SYSTEM"}
\* The data folder of any region, and with Square any card; also when nothing
\* was chosen (setLK, setOSD, Config_ESR_path).
Normalised(v, any) ==
    IF ~OnCard(v) THEN v
    ELSE [i \in DOMAIN v |-> IF i = 1 /\ any THEN "mc?:"
                             ELSE IF i = 2 /\ v[i] \in DataFolder THEN "B?DATA-SYSTEM" ELSE v[i]]

\* Back from the browser: the row was chosen before it opened, and Circle or
\* Square; neither matters until now.
Browsed(n, v) ==
    /\ \E any \in BOOLEAN : Set(n, Normalised(v, any))
    /\ Edited
    /\ UNCHANGED <<ui, heap, clip, file, osd_item>>
ChooseFile == Choose /\ \E n \in Slots : Browsed(n, Chosen)
CancelBrowse == Cancel /\ \E n \in Slots : Browsed(n, Current[n])

Next ==
    \/ Start \/ LoadCnf \/ SetAllDefault \/ SaveCnf
    \/ ChangeMenuOption \/ EnterEditor \/ EnterNested \/ LeaveEditor
    \/ ClearPath \/ SetSpecial \/ TypeName \/ ChangeScrollOption \/ ChangeOsdOption
    \/ ChooseItem \/ ClearItem \/ CopyItem \/ PasteItem
    \/ Browse \/ WalkFolders \/ ChooseFile \/ CancelBrowse

Spec == Init /\ [][Next]_vars

(***************************************************************************)
(* Properties                                                              *)
(***************************************************************************)

\* Behind the blocks that are copied, freed and used after they are freed
\* there is one set of settings: every screen shows, edits, loads and saves
\* it, no way in or out of an editor loses an edit, and the files change by
\* saves alone, to what the settings are then.
S == INSTANCE Settings WITH cfg <- Current, edits <- left.edits
ImplementsSettings == S!Spec

\* Memory lost: at most one block for each time the settings were loaded or
\* reset, however often editors are entered (the block on entry of
\* Config_fmcb_OSDSYS is lost when an item is visited).
Editors == CASE ui.at \in {"keys", "esr", "osd"} -> 1 [] ui.at \in {"item", "scroll"} -> 2 [] OTHER -> 0
LeakPerLoad == Cardinality(heap.live) <= 1 + left.resets + Editors

\* No row of the screen of OSDSYS options is out of the cursor's reach,
\* "Return" included, and none is a dead end: every option can be set (the
\* navigation of Config_fmcb_OSDSYS, 3558-3670).
RowsReachable == ui.at = "osd" => AllReached

\* "storeFmcbCNF will save Free McBoot settings" (2057): a path of a button
\* that is set is read back from a file that was written whole.
SavedIsKept ==
    [][\A p \in Port : left'.saves # left.saves /\ file'[p] # file[p] =>
         \A n \in Key : Current[n] # Empty => Read(file'[p].lines, JunkCfg)[n] = Current[n]]_vars
==============================================================================

------------------------- MODULE ConfiguratorProofs -------------------------
(***************************************************************************)
(* For any buttons, items, files and memory, and any folders: however the  *)
(* configurator copies, frees and reuses its blocks of settings, it        *)
(* implements Settings, in which there is one set of settings; the list of *)
(* its browser is the folder's, in order, and the line selected is shown.  *)
(***************************************************************************)
EXTENDS Configurator, FiniteSetTheorems, Recursion, TLAPS

------------------------------------------------------------------------------
(* The allocator: malloc finds a block that is free when there is one.     *)
LEMMA FirstFreeIsFree ==
  ASSUME NEW live, ~(Block \subseteq live)
  PROVE  FirstFree(live) \in Block \ live
<1>1. Block \ live \subseteq Nat /\ Block \ live # {}
  BY ConfiguratorAssumption DEF Block
<1> DEFINE L == OpToRel(<, Nat)
<1>2. IsWellFoundedOn(L, Nat)
  BY NatLessThanWellFounded, Zenon
<1>3. \A b, c \in Nat : <<c, b>> \notin L => b <= c
  BY DEF OpToRel
<1> HIDE DEF L
<1>4. \E b \in Block \ live : \A c \in Block \ live : <<c, b>> \notin L
  BY <1>1, <1>2, WFMin, Zenon
<1>5. \E b \in Block \ live : \A c \in Block \ live : b <= c
  BY <1>1, <1>3, <1>4
<1> QED
  BY <1>5 DEF FirstFree

(* Settings speaks of the same lines of a file.                            *)
LEMMA SameSettings ==
  /\ S!Setting = Setting
  /\ S!Port = Port
  /\ S!NoFile = NoFile
  /\ S!Junk = Junk
  /\ \A f : S!IsFile(f) <=> IsFile(f)
  /\ \A lines, old : S!Read(lines, old) = Read(lines, old)
  /\ \A c, n : S!Written(c, n) <=> Written(c, n)
<1>1. /\ S!Option = Option /\ S!Esr = Esr /\ S!Key = Key /\ S!ItemLine = ItemLine
      /\ S!Empty = Empty /\ S!Port = Port /\ S!Junk = Junk /\ S!Value = Value
  BY SMT DEF S!Option, Option, S!Esr, Esr, S!Key, Key, S!ItemLine, ItemLine,
    S!Empty, Empty, S!Port, Port, S!Junk, Junk, S!Value, Value
<1>2. S!Setting = Setting
  BY <1>1, Zenon DEF S!Setting, Setting
<1>3. S!NoFile = NoFile
  BY <1>1, Zenon DEF S!NoFile, NoFile
<1>4. ASSUME NEW f PROVE S!IsFile(f) <=> IsFile(f)
  BY <1>1, <1>2, Zenon DEF S!IsFile, IsFile
<1>5. ASSUME NEW v PROVE S!Trimmed(v) = Trimmed(v)
  BY <1>1, Zenon DEF S!Trimmed, Trimmed
<1>6. ASSUME NEW lines, NEW old PROVE S!Read(lines, old) = Read(lines, old)
  BY <1>1, <1>2, <1>5 DEF S!Read, Read
<1>7. ASSUME NEW c, NEW n PROVE S!Written(c, n) <=> Written(c, n)
  BY <1>1, Zenon DEF S!Written, Written
<1> QED
  BY <1>1, <1>2, <1>3, <1>4, <1>6, <1>7, Zenon

------------------------------------------------------------------------------
(* The invariant: the blocks hold settings, and what is edited with the    *)
(* browser is a block that is allocated, so that the drivers of the stick  *)
(* are not loaded over it.                                                 *)
IsMem(m) ==
  /\ m = [b \in {Null} \cup Block |-> m[b]]
  /\ \A b \in {Null} \cup Block : m[b] = [n \in Setting |-> m[b][n]]

Browsing == {"keys", "esr", "item"}

Types ==
  /\ ui \in [at : Screens, col : 0..3]
  /\ ui.at = "start" => ui.col \in 0..2
  /\ heap \in [fmcb : {Null} \cup Block, tmpfmcb : {Null} \cup Block, live : SUBSET Block]
  /\ IsMem(mem)
  /\ osd_item \in Item
  /\ file = [p \in Port |-> file[p]]
  /\ left \in [edits : Nat, resets : Nat, saves : Nat]

Held ==
  /\ browse.open => ui.at \in Browsing
  /\ ui.at \in Browsing => heap.fmcb \in heap.live

IInv == Types /\ Held

------------------------------------------------------------------------------
(* Memory                                                                  *)

LEMMA SomeSetting == <<"item", 1, 0>> \in Setting
BY ConfiguratorAssumption DEF Setting, ItemLine

LEMMA LoadedOverKeeps ==
  ASSUME NEW m, IsMem(m), NEW live, NEW m2 \in LoadedOver(m, live)
  PROVE  /\ IsMem(m2)
         /\ \A b \in live \cap Block : m2[b] = m[b]
         /\ \A b \in {Null} \cup Block : \A n \in Esr \cup ItemLine : m2[b][n] = m[b][n]
<1>1. CASE m2 = m
  BY <1>1
<1>2. ASSUME ~(Block \subseteq live), NEW k \in Columns,
             m2 = [m EXCEPT ![FirstFree(live)] = Overwritten(@, k)]
      PROVE  /\ IsMem(m2)
             /\ \A b \in live \cap Block : m2[b] = m[b]
             /\ \A b \in {Null} \cup Block : \A n \in Esr \cup ItemLine : m2[b][n] = m[b][n]
  <2> DEFINE f == FirstFree(live)
  <2>1. f \in Block \ live
    BY <1>2, FirstFreeIsFree
  <2> HIDE DEF f
  <2>2. \A b \in {Null} \cup Block : m2[b] = IF b = f THEN Overwritten(m[b], k) ELSE m[b]
    BY <1>2, <2>1 DEF IsMem, f
  <2>3. ASSUME NEW c
        PROVE  /\ Overwritten(c, k) = [n \in Setting |-> Overwritten(c, k)[n]]
               /\ \A n \in Esr \cup ItemLine : Overwritten(c, k)[n] = c[n]
    <3>1. \A n \in Esr \cup ItemLine : n \in Setting /\ n \notin Option \cup Key
      BY DEF Setting, Option, Key, Esr, ItemLine
    <3> QED
      BY <3>1, Zenon DEF Overwritten
  <2>4. m2 = [b \in {Null} \cup Block |-> m2[b]]
    BY <1>2 DEF IsMem, f
  <2> QED
    <3>1. \A b \in {Null} \cup Block : m2[b] = [n \in Setting |-> m2[b][n]]
      BY <2>2, <2>3, Zenon DEF IsMem
    <3>2. \A b \in live \cap Block : m2[b] = m[b]
      BY <2>1, <2>2
    <3>3. \A b \in {Null} \cup Block : \A n \in Esr \cup ItemLine : m2[b][n] = m[b][n]
      BY <2>2, <2>3, Zenon
    <3> QED
      BY <2>4, <3>1, <3>2, <3>3 DEF IsMem
<1> QED
  BY <1>1, <1>2 DEF LoadedOver

(* A block freed and another allocated: settings that are held.            *)
LEMMA RenewedHolds ==
  ASSUME Types, ~(Block \subseteq heap.live \ {heap.fmcb})
  PROVE  /\ Renewed(heap) \in [fmcb : Block, tmpfmcb : {Null} \cup Block, live : SUBSET Block]
         /\ Renewed(heap).fmcb \in Renewed(heap).live
<1> DEFINE live == heap.live \ {heap.fmcb}
<1>1. FirstFree(live) \in Block
  BY FirstFreeIsFree
<1>2. Renewed(heap) = [heap EXCEPT !.fmcb = FirstFree(live), !.live = live \cup {FirstFree(live)}]
  BY DEF Renewed
<1> HIDE DEF live
<1>3. live \subseteq Block
  BY DEF live, Types
<1> QED
  BY <1>1, <1>2, <1>3 DEF Types

------------------------------------------------------------------------------
(* Loading and saving                                                      *)

(* The block just allocated is filled, and the drivers land elsewhere.     *)
LEMMA FilledIsCurrent ==
  ASSUME Types, ~(Block \subseteq heap.live \ {heap.fmcb}), heap' = Renewed(heap),
         NEW c, c = [n \in Setting |-> c[n]],
         NEW filled \in {[mem EXCEPT ![heap'.fmcb] = c]},
         mem' = filled \/ mem' \in LoadedOver(filled, heap'.live)
  PROVE  Current' = c /\ IsMem(mem')
<1>1. heap'.fmcb \in heap'.live \cap Block
  BY RenewedHolds
<1>2. IsMem(filled) /\ filled[heap'.fmcb] = c
  BY <1>1 DEF Types, IsMem
<1>3. CASE mem' = filled
  BY <1>2, <1>3 DEF Current
<1>4. CASE mem' \in LoadedOver(filled, heap'.live)
  <2>1. IsMem(mem') /\ mem'[heap'.fmcb] = filled[heap'.fmcb]
    BY <1>1, <1>2, <1>4, LoadedOverKeeps
  <2> QED
    BY <1>2, <2>1 DEF Current
<1> QED
  BY <1>3, <1>4

LEMMA LoadMaps ==
  ASSUME Types, NEW p \in Port, loadSucceeds(p) \/ loadFails(p), UNCHANGED <<file, left.edits>>
  PROVE  /\ S!Next
         /\ heap' \in [fmcb : {Null} \cup Block, tmpfmcb : {Null} \cup Block, live : SUBSET Block]
         /\ IsMem(mem')
<1>1. CASE loadSucceeds(p)
  <2>1. PICK lines \in {file[p].lines, NoFile.lines} :
          LET m == [mem EXCEPT ![heap'.fmcb] = Read(lines, @)]
          IN  mem' = m \/ mem' \in LoadedOver(m, heap'.live)
    BY <1>1 DEF loadSucceeds, loadUsbModules
  <2> DEFINE c == Read(lines, mem[heap'.fmcb])
  <2>2. /\ ~(Block \subseteq heap.live \ {heap.fmcb}) /\ heap' = Renewed(heap)
        /\ file[p].there
    BY <1>1 DEF loadSucceeds
  <2>3. c = [n \in Setting |-> c[n]] /\ c = Read(lines, c)
    BY DEF Read
  <2> HIDE DEF c
  <2>4. heap' \in [fmcb : Block, tmpfmcb : {Null} \cup Block, live : SUBSET Block]
    BY <2>2, RenewedHolds
  <2>5. [mem EXCEPT ![heap'.fmcb] = Read(lines, @)] = [mem EXCEPT ![heap'.fmcb] = c]
    BY <2>4 DEF c, Types, IsMem
  <2>6. Current' = c /\ IsMem(mem')
    BY <2>1, <2>2, <2>3, <2>5, FilledIsCurrent
  <2>7. S!Loads(p)
    BY <2>1, <2>2, <2>3, <2>6, SameSettings DEF S!Loads
  <2> QED
    BY <2>4, <2>6, <2>7, SameSettings DEF S!Next
<1>2. CASE loadFails(p)
  <2> DEFINE m == [mem EXCEPT ![heap'.fmcb] = Defaults]
  <2>1. ~(Block \subseteq heap.live \ {heap.fmcb}) /\ heap' = Renewed(heap)
    BY <1>2 DEF loadFails
  <2>2. mem' = m \/ mem' \in LoadedOver(m, heap'.live)
    BY <1>2 DEF loadFails, loadUsbModules
  <2>3. Defaults = [n \in Setting |-> Defaults[n]]
    BY CnfAssumption DEF Cfg
  <2> HIDE DEF m
  <2>4. Current' = Defaults /\ IsMem(mem')
    BY <2>1, <2>2, <2>3, FilledIsCurrent DEF m
  <2>5. heap' \in [fmcb : Block, tmpfmcb : {Null} \cup Block, live : SUBSET Block]
    BY <2>1, RenewedHolds
  <2>6. S!Resets
    BY <2>4 DEF S!Resets
  <2> QED
    BY <2>4, <2>5, <2>6 DEF S!Next
<1> QED
  BY <1>1, <1>2

(* A line is cut at a setting, and what is before it is what was set.      *)
LEMMA TornAgrees ==
  ASSUME NEW c, NEW k \in TornAt, NEW lines \in Torn(c, k)
  PROVE  \E cut \in Setting : \A n \in DOMAIN lines :
            Written(c, n) /\ (n # cut => lines[n] = c[n])
<1> DEFINE s == Stored(c)
           d == {m \in Setting : Written(c, m)}
           cut == FileOrder[k]
           whole == {FileOrder[i] : i \in 1..(k - 1)} \cap DOMAIN s
           last == {cut} \cap DOMAIN s
<1>1. cut \in Setting
  BY ConfiguratorAssumption, CnfAssumption
<1>2. DOMAIN s = d /\ \A n \in d : s[n] = c[n]
  BY DEF Stored
<1>3. CASE lines = [n \in whole |-> c[n]]
  BY <1>1, <1>2, <1>3
<1>4. CASE lines = [n \in whole \cup last |-> IF n \in last THEN Cut ELSE c[n]]
  BY <1>1, <1>2, <1>4
<1> QED
  BY <1>3, <1>4 DEF Torn

LEMMA SaveMaps ==
  ASSUME IInv, NEW p \in Port, saveFmcbCNF(p), UNCHANGED <<heap, left.edits>>
  PROVE  S!Next /\ IsMem(mem') /\ file' = [q \in Port |-> file'[q]]
<1>1. /\ IsMem(mem')
      /\ \/ Current' = Current
         \/ p = "mass" /\ \A n \in Esr \cup ItemLine : Current'[n] = Current[n]
  <2>1. CASE mem' = mem
    BY <2>1 DEF IInv, Types, Current
  <2>2. CASE p = "mass" /\ mem' \in LoadedOver(mem, heap.live)
    BY <2>2, LoadedOverKeeps DEF IInv, Types, Current
  <2> QED
    BY <2>1, <2>2 DEF saveFmcbCNF, loadUsbModules
<1>2. CASE UNCHANGED file
  <2>1. S!Saves(p)
    BY <1>1, <1>2, SameSettings DEF S!Saves, S!Esr, Esr, S!ItemLine, ItemLine
  <2> QED
    BY <1>1, <1>2, <2>1, SameSettings DEF S!Next, IInv, Types
<1>3. ASSUME NEW lines \in {Stored(Current)} \cup UNION {Torn(Current, k) : k \in TornAt},
             file' = [file EXCEPT ![p] = [there |-> TRUE, headed |-> TRUE, lines |-> lines]]
      PROVE  S!Next /\ file' = [q \in Port |-> file'[q]]
  <2>1. /\ file' = [q \in Port |-> file'[q]]
        /\ \A q \in Port \ {p} : file'[q] = file[q]
        /\ file'[p].there /\ file'[p].lines = lines
    BY <1>3 DEF IInv, Types
  <2>2. PICK cut \in Setting : \A n \in DOMAIN lines :
          Written(Current, n) /\ (n # cut => lines[n] = Current[n])
    <3>1. CASE lines = Stored(Current)
      BY <3>1, SomeSetting DEF Stored
    <3>2. CASE \E k \in TornAt : lines \in Torn(Current, k)
      BY <3>2, TornAgrees
    <3> QED
      BY <1>3, <3>1, <3>2
  <2>3. S!Saves(p)
    BY <1>1, <2>1, <2>2, SameSettings DEF S!Saves, S!Esr, Esr, S!ItemLine, ItemLine
  <2> QED
    BY <2>1, <2>3, SameSettings DEF S!Next
<1> QED
  BY <1>1, <1>2, <1>3 DEF saveFmcbCNF, IInv, Types

------------------------------------------------------------------------------
(* Editing                                                                 *)

Unopened == browse'.open => browse.open

LEMMA EditedCounts ==
  ASSUME Types, Edited
  PROVE  left'.edits = left.edits + 1 /\ left' \in [edits : Nat, resets : Nat, saves : Nat]
BY DEF Types, Edited, Did

(* Whatever changes one line of the settings on the screen is an edit.     *)
LEMMA LineEdited ==
  ASSUME IInv, NEW n, NEW v, Set(n, v), Edited, UNCHANGED <<ui, heap, osd_item, file>>, Unopened
  PROVE  S!Next /\ IInv'
<1>1. /\ IsMem(mem')
      /\ \A m \in Setting \ {n} : Current'[m] = Current[m]
  BY DEF IInv, Types, IsMem, Set, Current
<1>2. \E k \in Setting : \A m \in Setting \ {k} : Current'[m] = Current[m]
  <2>1. CASE n \in Setting
    BY <1>1, <2>1
  <2>2. CASE n \notin Setting
    BY <1>1, <2>2, SomeSetting
  <2> QED
    BY <2>1, <2>2
<1>3. left'.edits = left.edits + 1 /\ left' \in [edits : Nat, resets : Nat, saves : Nat]
  BY EditedCounts DEF IInv
<1>4. S!Edits
  BY <1>2, <1>3, SameSettings DEF S!Edits
<1> QED
  BY <1>1, <1>3, <1>4 DEF S!Next, IInv, Types, Held, Unopened

(* So is what replaces an item.                                            *)
LEMMA ItemEdited ==
  ASSUME IInv, NEW fields, SetItem(osd_item + 1, fields), Edited,
         UNCHANGED <<ui, heap, osd_item, file>>, Unopened
  PROVE  S!Next /\ IInv'
<1> DEFINE i == osd_item + 1
<1>1. i \in Items
  BY ConfiguratorAssumption DEF IInv, Types, Item
<1> HIDE DEF i
<1>2. SetItem(i, fields)
  BY DEF i
<1>3. \A n \in Setting \ {<<"item", i, f>> : f \in 0..3} : ~(n \in ItemLine /\ n[2] = i)
  BY DEF ItemLine
<1>4. /\ IsMem(mem')
      /\ \A m \in Setting \ {<<"item", i, f>> : f \in 0..3} : Current'[m] = Current[m]
  <2> DEFINE new == [n \in Setting |-> IF n \in ItemLine /\ n[2] = i THEN fields[n[3]] ELSE mem[heap.fmcb][n]]
  <2>1. mem' = [mem EXCEPT ![heap.fmcb] = new]
    BY <1>2 DEF SetItem, IInv, Types, IsMem
  <2>2. \A m \in Setting \ {<<"item", i, f>> : f \in 0..3} : new[m] = mem[heap.fmcb][m]
    BY <1>3
  <2>3. new = [n \in Setting |-> new[n]]
    OBVIOUS
  <2> HIDE DEF new
  <2>4. IsMem(mem') /\ mem'[heap.fmcb] = new
    BY <2>1, <2>3 DEF IInv, Types, IsMem
  <2> QED
    BY <2>2, <2>4 DEF Current
<1>5. left'.edits = left.edits + 1 /\ left' \in [edits : Nat, resets : Nat, saves : Nat]
  BY EditedCounts DEF IInv
<1>6. S!Edits
  BY <1>1, <1>4, <1>5, SameSettings DEF S!Edits
<1> QED
  BY <1>4, <1>5, <1>6 DEF S!Next, IInv, Types, Held, Unopened

------------------------------------------------------------------------------
(* Every step                                                              *)

Still == UNCHANGED <<Current, file, left.edits>>

LEMMA InitImplies ==
  ASSUME Init
  PROVE  IInv /\ S!Init
<1>1. /\ heap.fmcb = Null /\ file \in InitFiles /\ left.edits = 0
      /\ mem = [b \in {Null} \cup Block |-> JunkCfg]
  BY DEF Init
<1>2. file = [p \in Port |-> file[p]] /\ \A p \in Port : IsFile(file[p])
  BY <1>1, ConfiguratorAssumption
<1>3. Current = [n \in Setting |-> Junk]
  BY <1>1 DEF Current, JunkCfg
<1>4. S!Init
  BY <1>1, <1>2, <1>3, SameSettings DEF S!Init
<1>5. IsMem(mem)
  BY <1>1 DEF IsMem, JunkCfg
<1>6. ~browse.open /\ ui = [at |-> "start", col |-> 0]
  BY DEF Init, BrowserInit, Closed
<1>7. osd_item \in Item
  BY ConfiguratorAssumption DEF Init, Item
<1> QED
  BY <1>1, <1>2, <1>4, <1>5, <1>6, <1>7 DEF Init, IInv, Types, Held, Screens, Browsing, Null

LEMMA LoadingSteps ==
  ASSUME IInv, Start \/ LoadCnf \/ SetAllDefault \/ SaveCnf
  PROVE  S!Next /\ IInv'
<1>1. CASE Start
  <2> DEFINE p == <<"mass", "mc0", "mc1">>[ui.col + 1]
  <2>1. p \in Port /\ ui.at = "start" /\ ui.col \in 0..2
    BY <1>1 DEF Start, IInv, Types, Port
  <2>2. loadSucceeds(p) \/ loadFails(p)
    BY <1>1 DEF Start
  <2>3. /\ ui' = [at |-> "menu", col |-> 0] \/ (ui.col # 2 /\ ui' = [ui EXCEPT !.col = @ + 1])
        /\ UNCHANGED <<osd_item, file, left, browse>>
    BY <1>1 DEF Start
  <2> HIDE DEF p
  <2>4. ui' \in [at : Screens, col : 0..3] /\ (ui'.at = "start" => ui'.col \in 0..2) /\ ui'.at \notin Browsing
    <3>1. CASE ui' = [at |-> "menu", col |-> 0]
      BY <3>1 DEF IInv, Screens, Browsing
    <3>2. CASE ui.col # 2 /\ ui' = [ui EXCEPT !.col = @ + 1]
      BY <2>1, <3>2 DEF IInv, Types, Screens, Browsing
    <3> QED
      BY <2>3, <3>1, <3>2
  <2>5. ~browse.open
    BY <2>1 DEF IInv, Held, Browsing
  <2> QED
    BY <2>1, <2>2, <2>3, <2>4, <2>5, LoadMaps DEF IInv, Types, Held
<1>2. CASE LoadCnf
  <2>1. PICK p \in Port : loadSucceeds(p) \/ loadFails(p)
    BY <1>2, ConfiguratorAssumption DEF LoadCnf
  <2>2. /\ ui.at = "menu" /\ UNCHANGED <<ui, osd_item, file, browse>>
        /\ left'.edits = left.edits /\ left' \in [edits : Nat, resets : Nat, saves : Nat]
    BY <1>2 DEF LoadCnf, Did, IInv, Types
  <2> QED
    BY <2>1, <2>2, LoadMaps DEF IInv, Types, Held, Browsing
<1>3. CASE SetAllDefault
  <2>1. /\ ui.at = "menu" /\ UNCHANGED <<ui, osd_item, file, browse>>
        /\ left'.edits = left.edits /\ left' \in [edits : Nat, resets : Nat, saves : Nat]
    BY <1>3 DEF SetAllDefault, browserVars, Did, IInv, Types
  <2>2. /\ ~(Block \subseteq heap.live \ {heap.fmcb}) /\ heap' = Renewed(heap)
        /\ mem' \in {[mem EXCEPT ![heap'.fmcb] = Defaults]}
    BY <1>3 DEF SetAllDefault
  <2>3. Defaults = [n \in Setting |-> Defaults[n]]
    BY CnfAssumption DEF Cfg
  <2>4. Current' = Defaults /\ IsMem(mem')
    BY <2>2, <2>3, FilledIsCurrent DEF IInv
  <2>5. heap' \in [fmcb : Block, tmpfmcb : {Null} \cup Block, live : SUBSET Block]
    BY <2>2, RenewedHolds DEF IInv
  <2> QED
    BY <2>1, <2>4, <2>5 DEF S!Next, S!Resets, IInv, Types, Held, Browsing
<1>4. CASE SaveCnf
  <2>1. PICK p \in Port : saveFmcbCNF(p)
    BY <1>4, ConfiguratorAssumption DEF SaveCnf
  <2>2. /\ ui.at = "menu" /\ UNCHANGED <<ui, heap, osd_item, browse>>
        /\ left'.edits = left.edits /\ left' \in [edits : Nat, resets : Nat, saves : Nat]
    BY <1>4 DEF SaveCnf, Did, IInv, Types
  <2> QED
    BY <2>1, <2>2, SaveMaps DEF IInv, Types, Held, Browsing
<1> QED
  BY <1>1, <1>2, <1>3, <1>4

(* The way in copies what is shown, the way out leaves it where it was.    *)
LEMMA MovingSteps ==
  ASSUME IInv, EnterEditor \/ EnterNested \/ LeaveEditor \/ ChooseItem \/ CopyItem
  PROVE  Still /\ IInv'
<1>1. ASSUME CopySettings
      PROVE  /\ Current' = Current /\ IsMem(mem') /\ heap'.fmcb \in heap'.live
             /\ heap' \in [fmcb : {Null} \cup Block, tmpfmcb : {Null} \cup Block, live : SUBSET Block]
  <2> DEFINE b == FirstFree(heap.live)
  <2>1. b \in Block
    BY <1>1, FirstFreeIsFree DEF CopySettings
  <2>2. /\ heap' = [fmcb |-> b, tmpfmcb |-> heap.fmcb, live |-> heap.live \cup {b}]
        /\ mem' = [mem EXCEPT ![b] = Current]
    BY <1>1 DEF CopySettings
  <2> HIDE DEF b
  <2> QED
    BY <2>1, <2>2 DEF IInv, Types, IsMem, Current
<1>2. CASE EnterEditor
  <2>1. /\ ui' \in [at : Screens, col : 0..3] /\ ui'.at # "start"
        /\ osd_item' \in Item /\ UNCHANGED <<browse, file, left>> /\ ~browse.open
    <3>1. ui.at = "menu" /\ UNCHANGED <<browse, file, left>>
      BY <1>2 DEF EnterEditor, browserVars
    <3>2. ~browse.open
      BY <3>1 DEF IInv, Held, Browsing
    <3>3. \/ \E e \in 1..3 : ui' = [at |-> "keys", col |-> e]
          \/ ui' = [ui EXCEPT !.at = "esr"]
          \/ ui' = [ui EXCEPT !.at = "osd"]
      BY <1>2 DEF EnterEditor
    <3>4. ui' \in [at : Screens, col : 0..3] /\ ui'.at # "start"
      BY <3>3 DEF IInv, Types, Screens
    <3>5. osd_item' \in Item
      BY <1>2, ConfiguratorAssumption DEF EnterEditor, IInv, Types, Item
    <3> QED
      BY <3>1, <3>2, <3>4, <3>5
  <2> QED
    BY <1>1, <1>2, <2>1 DEF EnterEditor, Still, IInv, Types, Held
<1>3. CASE EnterNested
  <2>1. /\ ui' \in [at : Screens, col : 0..3] /\ ui'.at # "start"
        /\ UNCHANGED <<browse, osd_item, file, left>> /\ ~browse.open
    BY <1>3 DEF EnterNested, Quiet, browserVars, IInv, Types, Held, Screens, Browsing
  <2> QED
    BY <1>1, <1>3, <2>1 DEF EnterNested, Still, IInv, Types, Held
<1>4. CASE LeaveEditor
  <2>1. /\ ui' \in [at : Screens, col : 0..3] /\ ui'.at \in {"osd", "menu"}
        /\ osd_item' \in Item /\ UNCHANGED <<browse, file, left, mem>> /\ ~browse.open
    <3>1. /\ UNCHANGED <<browse, file, left, mem>> /\ ~browse.open
          /\ \E s \in {"osd", "menu"} : ui' = [at |-> s, col |-> 0]
      BY <1>4 DEF LeaveEditor, FreeSettings, browserVars
    <3>2. osd_item' \in Item
      BY <1>4, ConfiguratorAssumption DEF LeaveEditor, IInv, Types, Item
    <3>3. ui' \in [at : Screens, col : 0..3] /\ ui'.at \in {"osd", "menu"}
      BY <3>1 DEF IInv, Types, Screens
    <3> QED
      BY <3>1, <3>2, <3>3
  <2>2. /\ heap'.fmcb = heap.fmcb
        /\ heap' \in [fmcb : {Null} \cup Block, tmpfmcb : {Null} \cup Block, live : SUBSET Block]
    BY <1>4 DEF LeaveEditor, FreeSettings, IInv, Types
  <2> QED
    BY <2>1, <2>2 DEF Still, Current, IInv, Types, Held, IsMem, Browsing
<1>5. CASE ChooseItem
  <2>1. osd_item' \in Item /\ UNCHANGED <<ui, heap, mem, file, left, browse>>
    BY <1>5, ConfiguratorAssumption DEF ChooseItem, Wrapped, Item, browserVars, IInv, Types
  <2> QED
    BY <2>1 DEF Still, Current, IInv, Types, Held, IsMem
<1>6. CASE CopyItem
  <2>1. UNCHANGED <<ui, heap, mem, left, browse, osd_item, file>>
    BY <1>6 DEF CopyItem, browserVars
  <2> QED
    BY <2>1 DEF Still, Current, IInv, Types, Held, IsMem
<1> QED
  BY <1>2, <1>3, <1>4, <1>5, <1>6

LEMMA EditingSteps ==
  ASSUME IInv,
         \/ ChangeMenuOption \/ ClearPath \/ SetSpecial \/ TypeName \/ ChangeScrollOption
         \/ ChangeOsdOption \/ ClearItem \/ PasteItem \/ ChooseFile \/ CancelBrowse
  PROVE  S!Next /\ IInv'
<1>1. ASSUME Unmoved
      PROVE  UNCHANGED <<ui, heap, osd_item, file>> /\ Unopened
  BY <1>1 DEF Unmoved, Quiet, browserVars, Unopened
<1>2. CASE ChangeMenuOption \/ ChangeScrollOption \/ ChangeOsdOption
  <2>1. Edited /\ Unmoved /\ \E n, v : Set(n, v)
    BY <1>2 DEF ChangeMenuOption, ChangeScrollOption, ChangeOsdOption, ChangeOption
  <2> QED
    BY <2>1, <1>1, LineEdited
<1>3. CASE ClearPath \/ SetSpecial \/ TypeName
  <2>1. Edited /\ Unmoved /\ \E n, v : Set(n, v)
    BY <1>3 DEF ClearPath, SetSpecial, TypeName
  <2> QED
    BY <2>1, <1>1, LineEdited
<1>4. CASE ClearItem \/ PasteItem
  <2>1. Edited /\ Unmoved /\ \E fields : SetItem(osd_item + 1, fields)
    BY <1>4 DEF ClearItem, PasteItem
  <2> QED
    BY <2>1, <1>1, ItemEdited
<1>5. CASE ChooseFile \/ CancelBrowse
  <2>1. Edited /\ UNCHANGED <<ui, heap, osd_item, file>> /\ \E n, v : Set(n, v)
    BY <1>5 DEF ChooseFile, CancelBrowse, Browsed
  <2>2. Unopened
    BY <1>5 DEF ChooseFile, CancelBrowse, Choose, Cancel, Closed, Unopened
  <2> QED
    BY <2>1, <2>2, LineEdited
<1> QED
  BY <1>2, <1>3, <1>4, <1>5

(* The drivers may be loaded while an editor browses; its block is held.   *)
LEMMA BrowsingSteps ==
  ASSUME IInv, Browse \/ WalkFolders
  PROVE  Still /\ IInv'
<1>1. /\ UNCHANGED <<ui, heap, file, left, osd_item>>
      /\ mem' = mem \/ mem' \in LoadedOver(mem, heap.live)
  BY DEF Browse, WalkFolders
<1>2. ui.at \in Browsing
  <2>1. CASE Browse
    BY <2>1 DEF Browse, Browsing
  <2>2. CASE WalkFolders
    <3>1. browse.open
      BY <2>2 DEF WalkFolders, Walk, MoveSelection, GoUp, Enter, ToggleFilter
    <3> QED
      BY <3>1 DEF IInv, Held
  <2> QED
    BY <2>1, <2>2
<1>3. heap.fmcb \in heap.live \cap Block
  BY <1>2 DEF IInv, Held, Types
<1>4. IsMem(mem') /\ mem'[heap.fmcb] = mem[heap.fmcb]
  <2>1. CASE mem' = mem
    BY <2>1 DEF IInv, Types
  <2>2. CASE mem' \in LoadedOver(mem, heap.live)
    BY <1>3, <2>2, LoadedOverKeeps DEF IInv, Types
  <2> QED
    BY <1>1, <2>1, <2>2
<1> QED
  BY <1>1, <1>2, <1>3, <1>4 DEF Still, Current, IInv, Types, Held

LEMMA StepImplies ==
  ASSUME IInv, [Next]_vars
  PROVE  IInv' /\ (S!Next \/ Still)
<1>1. CASE Start \/ LoadCnf \/ SetAllDefault \/ SaveCnf
  BY <1>1, LoadingSteps
<1>2. CASE EnterEditor \/ EnterNested \/ LeaveEditor \/ ChooseItem \/ CopyItem
  BY <1>2, MovingSteps
<1>3. CASE \/ ChangeMenuOption \/ ClearPath \/ SetSpecial \/ TypeName \/ ChangeScrollOption
           \/ ChangeOsdOption \/ ClearItem \/ PasteItem \/ ChooseFile \/ CancelBrowse
  BY <1>3, EditingSteps
<1>4. CASE Browse \/ WalkFolders
  BY <1>4, BrowsingSteps
<1>5. CASE UNCHANGED vars
  BY <1>5 DEF vars, confVars, browserVars, Still, Current, IInv, Types, Held, IsMem
<1> QED
  BY <1>1, <1>2, <1>3, <1>4, <1>5 DEF Next

(* An edit is never lost to memory that was freed: whatever the editors,   *)
(* the drivers and the files do, the settings behave as one set of         *)
(* settings (ImplementsSettings; config.c's fmcb and tmpfmcb).             *)
THEOREM SettingsImplemented == Spec => ImplementsSettings
<1>1. Init => IInv /\ S!Init
  BY InitImplies
<1>2. IInv /\ [Next]_vars => IInv' /\ [S!Next]_<<Current, file, left.edits>>
  BY StepImplies DEF Still
<1> QED
  BY <1>1, <1>2, PTL DEF Spec, ImplementsSettings, S!Spec

------------------------------------------------------------------------------
(* The blocks that are lost                                                *)

(* What the way out of the editors that are open will still free.          *)
Owed ==
  CASE ui.at \in {"keys", "esr"} -> 1
    [] ui.at = "osd" -> IF heap.fmcb \in heap.live THEN 1 ELSE 0
    [] ui.at \in {"item", "scroll"} -> IF heap.tmpfmcb \in heap.live \ {heap.fmcb} THEN 2 ELSE 1
    [] OTHER -> 0

Lost ==
  /\ ui.at = "start" => heap.live \subseteq {heap.fmcb}
  /\ ui.at \in Browsing \cup {"scroll"} => heap.fmcb \in heap.live
  /\ Cardinality(heap.live) <= 1 + left.resets + Owed

LEMMA Counts ==
  ASSUME NEW L, L \subseteq Block, NEW b
  PROVE  /\ Cardinality(L) \in Nat
         /\ Cardinality(L \ {b}) = IF b \in L THEN Cardinality(L) - 1 ELSE Cardinality(L)
         /\ Cardinality(L \cup {b}) = IF b \in L THEN Cardinality(L) ELSE Cardinality(L) + 1
<1>1. IsFiniteSet(L)
  <2>1. IsFiniteSet(Block)
    <3>1. 1 \in Int /\ HeapSize \in Int
      BY ConfiguratorAssumption
    <3> QED
      BY <3>1, FS_Interval, Zenon DEF Block
  <2> QED
    BY <2>1, FS_Subset
<1>2. Cardinality(L) \in Nat
  BY <1>1, FS_CardinalityType
<1>3. CASE b \in L
  <2>1. L \cup {b} = L
    BY <1>3
  <2> QED
    <3>1. Cardinality(L \ {b}) = Cardinality(L) - 1
      BY <1>1, <1>3, FS_RemoveElement, Zenon
    <3> QED
      BY <1>2, <1>3, <2>1, <3>1
<1>4. CASE b \notin L
  <2>1. L \ {b} = L
    BY <1>4
  <2> QED
    <3>1. Cardinality(L \cup {b}) = Cardinality(L) + 1
      BY <1>1, <1>4, FS_AddElement, Zenon
    <3> QED
      BY <1>2, <1>4, <2>1, <3>1
<1> QED
  BY <1>2, <1>3, <1>4

(* A block renewed costs one at most, and none when fmcb was the only one. *)
LEMMA RenewedCounts ==
  ASSUME Types, ~(Block \subseteq heap.live \ {heap.fmcb})
  PROVE  /\ Cardinality(Renewed(heap).live) <= Cardinality(heap.live) + 1
         /\ heap.live \subseteq {heap.fmcb} => Renewed(heap).live = {Renewed(heap).fmcb}
<1> DEFINE live == heap.live \ {heap.fmcb}
           b == FirstFree(live)
<1>1. b \in Block \ live
  BY FirstFreeIsFree
<1>2. Renewed(heap).live = live \cup {b} /\ Renewed(heap).fmcb = b
  BY DEF Renewed, Types
<1> HIDE DEF b
<1>3. heap.live \subseteq Block /\ live \subseteq Block
  BY DEF Types
<1>4. /\ Cardinality(heap.live) \in Nat /\ Cardinality(live) \in Nat
      /\ Cardinality(live) <= Cardinality(heap.live)
  <2>1. /\ Cardinality(heap.live) \in Nat
        /\ Cardinality(live) = IF heap.fmcb \in heap.live THEN Cardinality(heap.live) - 1 ELSE Cardinality(heap.live)
    BY <1>3, Counts
  <2>2. Cardinality(live) \in Nat
    BY <1>3, Counts
  <2> QED
    BY <2>1, <2>2
<1>5. heap.live \subseteq {heap.fmcb} => live = {}
  OBVIOUS
<1> HIDE DEF live
<1>6. Cardinality(live \cup {b}) = IF b \in live THEN Cardinality(live) ELSE Cardinality(live) + 1
  BY <1>3, Counts
<1> QED
  BY <1>2, <1>4, <1>5, <1>6

LEMMA LostAtInit ==
  ASSUME Init
  PROVE  Lost
<1>1. heap.live = {} /\ ui.at = "start" /\ left.resets = 0
  BY DEF Init
<1>2. Cardinality({}) = 0
  BY FS_EmptySet
<1> QED
  BY <1>1, <1>2 DEF Lost, Owed, Browsing

(* Loading and resetting lose a block, unless there is none but fmcb's.    *)
LEMMA LostByLoading ==
  ASSUME IInv, Lost, Start \/ LoadCnf \/ SetAllDefault
  PROVE  Lost'
<1> DEFINE new == Renewed(heap)
<1>1. ~(Block \subseteq heap.live \ {heap.fmcb}) /\ heap' = new
  BY DEF Start, LoadCnf, SetAllDefault, loadSucceeds, loadFails
<1>2. /\ Cardinality(new.live) <= Cardinality(heap.live) + 1
      /\ heap.live \subseteq {heap.fmcb} => new.live = {new.fmcb}
  BY <1>1, RenewedCounts DEF IInv
<1>3. heap.live \subseteq Block /\ new.live \subseteq Block
  BY <1>1, RenewedHolds DEF IInv, Types
<1>4. Cardinality(heap.live) \in Nat /\ Cardinality(new.live) \in Nat
  BY <1>3, Counts
<1>5. left.resets \in Nat
  BY DEF IInv, Types
<1> HIDE DEF new
<1>6. CASE Start
  <2>1. /\ ui.at = "start" /\ ui'.at \in {"start", "menu"} /\ left' = left
    BY <1>6 DEF Start, IInv, Types
  <2>2. Cardinality({new.fmcb}) = 1
    BY FS_Singleton
  <2> QED
    <3>1. heap'.live = {new.fmcb} /\ heap'.fmcb = new.fmcb
      BY <1>1, <1>2, <2>1 DEF Lost
    <3>2. Cardinality(heap'.live) = 1
      BY <2>2, <3>1
    <3>3. Owed' = 0
      BY <2>1 DEF Owed
    <3> QED
      BY <1>5, <2>1, <3>1, <3>2, <3>3 DEF Lost, Browsing
<1>7. CASE LoadCnf \/ SetAllDefault
  <2>1. ui.at = "menu" /\ ui' = ui /\ left'.resets = left.resets + 1
    BY <1>7 DEF LoadCnf, SetAllDefault, Did, IInv, Types
  <2>2. Cardinality(heap.live) <= 1 + left.resets
    BY <2>1, <1>4, <1>5 DEF Lost, Owed
  <2> QED
    BY <1>1, <1>2, <1>4, <1>5, <2>1, <2>2 DEF Lost, Owed, Browsing
<1> QED
  BY <1>6, <1>7

(* A block for each editor that is entered.                                *)
LEMMA OwedOnEntry ==
  ASSUME IInv, Lost, EnterEditor \/ EnterNested
  PROVE  Lost'
<1> DEFINE b == FirstFree(heap.live)
           n == Cardinality(heap.live)
<1>1. /\ ~(Block \subseteq heap.live)
      /\ heap' = [fmcb |-> b, tmpfmcb |-> heap.fmcb, live |-> heap.live \cup {b}]
  BY DEF EnterEditor, EnterNested, CopySettings
<1>2. b \in Block \ heap.live
  BY <1>1, FirstFreeIsFree
<1>3. heap.live \subseteq Block /\ left.resets \in Nat /\ left' = left
  BY DEF IInv, Types, EnterEditor, EnterNested
<1> HIDE DEF b
<1>4. n \in Nat /\ Cardinality(heap.live \cup {b}) = n + 1
  BY <1>2, <1>3, Counts
<1>5. CASE EnterEditor
  <2>1. ui.at = "menu" /\ ui'.at \in {"keys", "esr", "osd"}
    BY <1>5 DEF EnterEditor, IInv, Types
  <2>2. n <= 1 + left.resets
    BY <2>1, <1>3, <1>4 DEF Lost, Owed
  <2> HIDE DEF n
  <2>3. b \in heap'.live /\ heap'.fmcb = b /\ Cardinality(heap'.live) = n + 1
    BY <1>1, <1>4
  <2>4. Owed' = 1
    BY <2>1, <2>3 DEF Owed
  <2> QED
    BY <1>3, <1>4, <2>1, <2>2, <2>3, <2>4 DEF Lost, Browsing
<1>6. CASE EnterNested
  <2>1. ui.at = "osd" /\ ui'.at \in {"item", "scroll"}
    BY <1>6 DEF EnterNested, IInv, Types
  <2>2. n <= 1 + left.resets + IF heap.fmcb \in heap.live THEN 1 ELSE 0
    BY <2>1, <1>3, <1>4 DEF Lost, Owed
  <2> HIDE DEF n
  <2>3. b \in heap'.live /\ heap'.fmcb = b /\ Cardinality(heap'.live) = n + 1
    BY <1>1, <1>4
  <2>4. heap.fmcb \in heap.live => heap'.tmpfmcb \in heap'.live \ {heap'.fmcb}
    BY <1>1, <1>2
  <2>5. Owed' = IF heap'.tmpfmcb \in heap'.live \ {heap'.fmcb} THEN 2 ELSE 1
    BY <2>1 DEF Owed
  <2> QED
    BY <1>3, <1>4, <2>1, <2>2, <2>3, <2>4, <2>5 DEF Lost, Browsing
<1> QED
  BY <1>5, <1>6

(* The way out frees what is owed; freeing a block twice frees nothing.    *)
LEMMA FreedOnExit ==
  ASSUME IInv, Lost, LeaveEditor
  PROVE  Lost'
<1> DEFINE less == heap.live \ {heap.tmpfmcb}
           n == Cardinality(heap.live)
<1>1. /\ heap' = [heap EXCEPT !.live = @ \ {heap.tmpfmcb, heap.fmcb}]
      /\ left' = left /\ ui.at \in {"keys", "esr", "osd", "item", "scroll"}
      /\ ui'.at = IF ui.at \in {"item", "scroll"} THEN "osd" ELSE "menu"
  BY DEF LeaveEditor, FreeSettings
<1>2. /\ heap.live \subseteq Block /\ left.resets \in Nat /\ less \subseteq Block
      /\ heap'.live = less \ {heap.fmcb} /\ heap'.fmcb \notin heap'.live
  BY <1>1 DEF IInv, Types
<1>3. n \in Nat /\ Cardinality(less) = IF heap.tmpfmcb \in heap.live THEN n - 1 ELSE n
  BY <1>2, Counts
<1>4. heap.fmcb \in less <=> heap.fmcb \in heap.live /\ heap.fmcb # heap.tmpfmcb
  OBVIOUS
<1> HIDE DEF less
<1>5. /\ Cardinality(less) \in Nat /\ Cardinality(less \ {heap.fmcb}) \in Nat
      /\ Cardinality(less \ {heap.fmcb}) = IF heap.fmcb \in less THEN Cardinality(less) - 1 ELSE Cardinality(less)
  <2>1. less \ {heap.fmcb} \subseteq Block
    BY <1>2
  <2> QED
    BY <1>2, <2>1, Counts
<1>6. n <= 1 + left.resets + Owed
  BY DEF Lost
<1> HIDE DEF n
<1>7. ui'.at \in {"osd", "menu"}
  BY <1>1
<1>8. Owed' = 0
  BY <1>2, <1>7 DEF Owed
<1>9. CASE ui.at \in {"item", "scroll"}
  <2>1. Owed = IF heap.tmpfmcb \in heap.live \ {heap.fmcb} THEN 2 ELSE 1
    BY <1>9 DEF Owed
  <2>2. heap.fmcb \in heap.live
    BY <1>9 DEF Lost, Browsing
  <2>3. Cardinality(heap'.live) <= 1 + left.resets
    BY <1>2, <1>3, <1>4, <1>5, <1>6, <2>1, <2>2
  <2> QED
    BY <1>1, <1>2, <1>7, <1>8, <2>3 DEF Lost, Browsing
<1>10. CASE ui.at \in {"keys", "esr", "osd"}
  <2>1. Owed = IF heap.fmcb \in heap.live THEN 1 ELSE 0
    BY <1>10 DEF Owed, Lost, Browsing
  <2>2. Cardinality(heap'.live) <= 1 + left.resets
    BY <1>2, <1>3, <1>4, <1>5, <1>6, <2>1
  <2> QED
    BY <1>1, <1>2, <1>7, <1>8, <2>2 DEF Lost, Browsing
<1> QED
  BY <1>1, <1>9, <1>10

(* The rest leaves the memory, the screen and the loads as they are.       *)
LEMMA LostElsewhere ==
  ASSUME IInv, Lost, UNCHANGED <<ui, heap>>, left'.resets = left.resets
  PROVE  Lost'
BY DEF Lost, Owed

LEMMA LostByStep ==
  ASSUME IInv, Lost, [Next]_vars
  PROVE  Lost'
<1>1. CASE Start \/ LoadCnf \/ SetAllDefault
  BY <1>1, LostByLoading
<1>2. CASE EnterEditor \/ EnterNested
  BY <1>2, OwedOnEntry
<1>3. CASE LeaveEditor
  BY <1>3, FreedOnExit
<1>4. CASE SaveCnf
  BY <1>4, LostElsewhere DEF SaveCnf, Did, IInv, Types
<1>5. CASE \/ ChangeMenuOption \/ ClearPath \/ SetSpecial \/ TypeName \/ ChangeScrollOption
           \/ ChangeOsdOption \/ ClearItem \/ PasteItem \/ ChooseFile \/ CancelBrowse
  <2>1. Edited
    BY <1>5 DEF ChangeMenuOption, ClearPath, SetSpecial, TypeName, ChangeScrollOption,
      ChangeOsdOption, ChangeOption, ClearItem, PasteItem, ChooseFile, CancelBrowse, Browsed
  <2>2. UNCHANGED <<ui, heap>>
    BY <1>5 DEF ChangeMenuOption, ClearPath, SetSpecial, TypeName, ChangeScrollOption,
      ChangeOsdOption, ChangeOption, ClearItem, PasteItem, ChooseFile, CancelBrowse, Browsed, Unmoved
  <2>3. left'.resets = left.resets
    BY <2>1 DEF Edited, Did, IInv, Types
  <2> QED
    BY <2>2, <2>3, LostElsewhere
<1>6. CASE ChooseItem \/ CopyItem \/ Browse \/ WalkFolders \/ UNCHANGED vars
  <2>1. UNCHANGED <<ui, heap, left>>
    BY <1>6 DEF ChooseItem, CopyItem, Browse, WalkFolders, vars, confVars
  <2> QED
    BY <2>1, LostElsewhere
<1> QED
  BY <1>1, <1>2, <1>3, <1>4, <1>5, <1>6 DEF Next

(* However often editors are entered and left, and in whatever order, at   *)
(* most one block is lost for each time the settings were loaded or reset  *)
(* (LeakPerLoad; the malloc and free calls of config.c).                   *)
THEOREM LeakBounded == Spec => []LeakPerLoad
<1>1. Init => IInv /\ Lost
  BY InitImplies, LostAtInit
<1>2. IInv /\ Lost /\ [Next]_vars => IInv' /\ Lost'
  BY StepImplies, LostByStep
<1>3. IInv /\ Lost => LeakPerLoad
  <2> SUFFICES ASSUME IInv, Lost
               PROVE  LeakPerLoad
    OBVIOUS
  <2>1. /\ Cardinality(heap.live) \in Nat /\ left.resets \in Nat
        /\ Cardinality(heap.live) <= 1 + left.resets + Owed
    BY Counts DEF IInv, Types, Lost
  <2>2. Owed \in Nat /\ Editors \in Nat /\ Owed <= Editors
    BY DEF Owed, Editors
  <2> QED
    BY <2>1, <2>2 DEF LeakPerLoad
<1> QED
  BY <1>1, <1>2, <1>3, PTL DEF Spec

------------------------------------------------------------------------------
(* The list of the browser (sort, cmpFile and setFileList of filer.c)       *)

LEMMA EntriesTyped ==
  \A e \in Entry : e.dir \in BOOLEAN /\ e.elf \in BOOLEAN /\ e.rank \in Int
<1> SUFFICES ASSUME NEW e \in Entry PROVE e.dir \in BOOLEAN /\ e.elf \in BOOLEAN /\ e.rank \in Int
  OBVIOUS
<1>1. CASE e \in {UpEntry} \cup Range(Devices)
  <2>1. \A i \in 1..3 : Devices[i] \in {Folder("mc0:"), Folder("mc1:"), Folder("mass:")}
    BY DEF Devices
  <2>2. DOMAIN Devices = 1..3
    BY DEF Devices
  <2>3. \E n : e = Folder(n)
    <3>1. CASE e = UpEntry
      BY <3>1 DEF UpEntry
    <3>2. CASE e \in Range(Devices)
      <4>1. PICK i \in 1..3 : e = Devices[i]
        BY <2>2, <3>2, Zenon DEF Range
      <4> QED
        BY <2>1, <4>1
    <3> QED
      BY <1>1, <3>1, <3>2
  <2> QED
    BY <2>3 DEF Folder
<1>2. CASE \E p \in DOMAIN Tree : e \in Range(Tree[p])
  BY <1>2, BrowserAssumption DEF Range
<1> QED
  BY <1>1, <1>2 DEF Entry

(* A swap permutes.                                                         *)
LEMMA SwapKeeps ==
  ASSUME NEW a \in Seq(Entry), NEW i \in 1..Len(a), NEW j \in 1..Len(a)
  PROVE  /\ Swap(a, i, j) \in Seq(Entry) /\ Len(Swap(a, i, j)) = Len(a)
         /\ Swap(a, i, j)[i] = a[j] /\ Swap(a, i, j)[j] = a[i]
         /\ \A k \in (1..Len(a)) \ {i, j} : Swap(a, i, j)[k] = a[k]
         /\ Range(Swap(a, i, j)) = Range(a)
<1> DEFINE b == Swap(a, i, j)
<1>1. b \in Seq(Entry) /\ Len(b) = Len(a)
  BY DEF Swap
<1>2. b[i] = a[j] /\ b[j] = a[i] /\ \A k \in (1..Len(a)) \ {i, j} : b[k] = a[k]
  BY DEF Swap
<1> HIDE DEF b
<1>3. DOMAIN a = 1..Len(a) /\ DOMAIN b = 1..Len(a)
  BY <1>1
<1>4. Range(b) = Range(a)
  BY <1>2, <1>3 DEF Range
<1> QED
  BY <1>1, <1>2, <1>4 DEF b

(* One turn of the loop of sort, and what holds before the next: 2..p are   *)
(* the entries that come before the first one, the others seen do not.      *)
ScanStep(a, k, s) == IF Before(s.a[k], a[1]) THEN [p |-> s.p + 1, a |-> Swap(s.a, s.p + 1, k)] ELSE s

Scanned(a, k, s) ==
  /\ s = [p |-> s.p, a |-> s.a] /\ s.p \in 1..k
  /\ s.a \in Seq(Entry) /\ Len(s.a) = Len(a) /\ Range(s.a) = Range(a)
  /\ s.a[1] = a[1]
  /\ \A i \in 2..s.p : Before(s.a[i], a[1])
  /\ \A i \in (s.p + 1)..k : ~Before(s.a[i], a[1])

LEMMA ScanStepKeeps ==
  ASSUME NEW a \in Seq(Entry), NEW k \in 2..Len(a), NEW s, Scanned(a, k - 1, s)
  PROVE  Scanned(a, k, ScanStep(a, k, s))
<1>1. k - 1 \in Nat /\ s.p \in 1..(k - 1) /\ Len(a) \in Nat /\ s.p + 1 \in 1..k
  BY DEF Scanned
<1>2. CASE ~Before(s.a[k], a[1])
  BY <1>1, <1>2 DEF ScanStep, Scanned
<1>3. CASE Before(s.a[k], a[1])
  <2> DEFINE b == Swap(s.a, s.p + 1, k)
  <2>1. s.a \in Seq(Entry) /\ s.p + 1 \in 1..Len(s.a) /\ k \in 1..Len(s.a)
    BY <1>1 DEF Scanned
  <2>2. /\ b \in Seq(Entry) /\ Len(b) = Len(a) /\ Range(b) = Range(a)
        /\ b[s.p + 1] = s.a[k] /\ b[k] = s.a[s.p + 1]
        /\ \A i \in (1..Len(a)) \ {s.p + 1, k} : b[i] = s.a[i]
    <3>1. /\ b \in Seq(Entry) /\ Len(b) = Len(s.a) /\ Range(b) = Range(s.a)
          /\ b[s.p + 1] = s.a[k] /\ b[k] = s.a[s.p + 1]
          /\ \A i \in (1..Len(s.a)) \ {s.p + 1, k} : b[i] = s.a[i]
      <4> DEFINE c == s.a
                 q == s.p + 1
      <4>1. c \in Seq(Entry) /\ q \in 1..Len(c) /\ k \in 1..Len(c)
        BY <2>1
      <4> HIDE DEF c, q
      <4>2. /\ Swap(c, q, k) \in Seq(Entry) /\ Len(Swap(c, q, k)) = Len(c) /\ Range(Swap(c, q, k)) = Range(c)
            /\ Swap(c, q, k)[q] = c[k] /\ Swap(c, q, k)[k] = c[q]
            /\ \A i \in (1..Len(c)) \ {q, k} : Swap(c, q, k)[i] = c[i]
        BY <4>1, SwapKeeps
      <4> QED
        BY <4>2 DEF c, q
    <3> HIDE DEF b
    <3> QED
      BY <3>1 DEF Scanned
  <2> HIDE DEF b
  <2>3. b[1] = a[1]
    <3>1. 1 \in (1..Len(a)) \ {s.p + 1, k}
      BY <1>1
    <3> QED
      BY <2>2, <3>1 DEF Scanned
  <2>4. \A i \in 2..(s.p + 1) : Before(b[i], a[1])
    <3>1. \A i \in 2..s.p : i \in (1..Len(a)) \ {s.p + 1, k}
      BY <1>1
    <3>2. \A i \in 2..(s.p + 1) : i = s.p + 1 \/ i \in 2..s.p
      BY <1>1
    <3> QED
      BY <1>3, <2>2, <3>1, <3>2 DEF Scanned
  <2>5. \A i \in (s.p + 2)..k : ~Before(b[i], a[1])
    <3>1. \A i \in (s.p + 2)..k : i = k \/ (i \in (1..Len(a)) \ {s.p + 1, k} /\ i \in (s.p + 1)..(k - 1))
      BY <1>1
    <3>2. s.p + 2 <= k => s.p + 1 \in (s.p + 1)..(k - 1)
      BY <1>1
    <3>3. \A i \in (s.p + 2)..k : s.p + 2 <= k
      BY <1>1
    <3> QED
      BY <2>2, <3>1, <3>2, <3>3 DEF Scanned
  <2>6. ScanStep(a, k, s) = [p |-> s.p + 1, a |-> b]
    BY <1>3 DEF ScanStep, b
  <2> QED
    BY <1>1, <2>2, <2>3, <2>4, <2>5, <2>6 DEF Scanned
<1> QED
  BY <1>2, <1>3

(* The loop goes through the whole list.                                    *)
LEMMA PartitionScans ==
  ASSUME NEW a \in Seq(Entry), Len(a) >= 1
  PROVE  Scanned(a, Len(a), Partition(a))
<1> DEFINE n == Len(a)
           D == 1..n
           m == [k \in D |-> k]
           T == [k \in D |-> {s \in [p : 1..k, a : Seq(Entry)] : Len(s.a) = n}]
           first == [p |-> 1, a |-> a]
           H == [x \in D \X Family(D, T) |-> IF x[1] = 1 THEN first ELSE ScanStep(a, x[1], x[2][x[1] - 1])]
           Scans(f) == f = [k \in D |-> IF k = 1 THEN first ELSE ScanStep(a, k, f[k - 1])]
<1>1. n \in Nat /\ n >= 1 /\ \A k \in D : k \in Nat /\ (k # 1 => k - 1 \in D)
  OBVIOUS
<1>2. Scanned(a, 1, first)
  BY DEF Scanned
<1>3. \A f : Scans(f) => \A k \in D : Scanned(a, k, f[k])
  <2> SUFFICES ASSUME NEW f, Scans(f) PROVE \A k \in D : Scanned(a, k, f[k])
    OBVIOUS
  <2> DEFINE B == {k \in D : ~Scanned(a, k, f[k])}
  <2>1. \A k \in D : f[k] = IF k = 1 THEN first ELSE ScanStep(a, k, f[k - 1])
    <3> HIDE DEF D, first
    <3> QED
      OBVIOUS
  <2> HIDE DEF first, Scans
  <2>2. \A k \in B : \E e \in B : m[e] < m[k]
    <3> SUFFICES ASSUME NEW k \in B, k - 1 \notin B PROVE FALSE
      <4>1. \A k \in B : k \in D /\ (k - 1 \in B => k - 1 \in D)
        OBVIOUS
      <4>2. \A k \in B : k - 1 \in B => m[k - 1] < m[k]
        BY <1>1, <4>1
      <4> HIDE DEF B
      <4> QED
        BY <4>2
    <3>1. k \in D /\ ~Scanned(a, k, f[k])
      OBVIOUS
    <3>2. k # 1
      BY <1>2, <2>1, <3>1
    <3>3. k - 1 \in D /\ k \in 2..n
      BY <1>1, <3>1, <3>2
    <3>4. Scanned(a, k - 1, f[k - 1])
      BY <3>3
    <3>5. Scanned(a, k, ScanStep(a, k, f[k - 1]))
      <4> DEFINE s == f[k - 1]
      <4> HIDE DEF s
      <4>1. Scanned(a, k - 1, s)
        BY <3>4 DEF s
      <4> QED
        BY <3>3, <4>1, ScanStepKeeps DEF s
    <3> QED
      BY <2>1, <3>1, <3>2, <3>5
  <2>3. B = {}
    <3>1. m \in [D -> Nat] /\ B \subseteq D
      BY <1>1
    <3> HIDE DEF B, D, m
    <3> QED
      BY <2>2, <3>1, NoFirstFailure
  <2> QED
    BY <2>3
<1>4. \E f : Scans(f)
  <2> HIDE DEF Scans
  <2>1. \A k \in D : \A s : s \in T[k] <=> /\ s = [p |-> s.p, a |-> s.a] /\ s.p \in 1..k
                                           /\ s.a \in Seq(Entry) /\ Len(s.a) = n
    <3> HIDE DEF D
    <3> QED
      OBVIOUS
  <2>2. \A k \in D : first \in T[k]
    BY <2>1
  <2>3. ASSUME NEW k \in D, k # 1, NEW s, s \in T[k - 1] PROVE ScanStep(a, k, s) \in T[k]
    <3>1. k - 1 \in D /\ s.p + 1 \in 1..k /\ k \in 1..Len(s.a) /\ s.p \in 1..k
      BY <1>1, <2>1, <2>3
    <3>2. s.a \in Seq(Entry) /\ Len(s.a) = n /\ s = [p |-> s.p, a |-> s.a]
      BY <2>1, <2>3, <3>1
    <3> DEFINE c == s.a
               q == s.p + 1
    <3>3. c \in Seq(Entry) /\ q \in 1..Len(c) /\ k \in 1..Len(c)
      BY <3>1, <3>2
    <3> HIDE DEF c, q
    <3>4. Swap(c, q, k) \in Seq(Entry) /\ Len(Swap(c, q, k)) = Len(c)
      BY <3>3, SwapKeeps
    <3> HIDE DEF T, D
    <3>5. CASE Before(s.a[k], a[1])
      <4>1. ScanStep(a, k, s) = [p |-> q, a |-> Swap(c, q, k)]
        BY <3>5 DEF ScanStep, c, q
      <4>2. q \in 1..k /\ Len(Swap(c, q, k)) = n
        BY <3>1, <3>2, <3>4 DEF c, q
      <4> QED
        BY <2>1, <3>4, <4>1, <4>2
    <3>6. CASE ~Before(s.a[k], a[1])
      BY <2>1, <3>1, <3>2, <3>6 DEF ScanStep
    <3> QED
      BY <3>5, <3>6
  <2>4. \A k \in D : \A g \in Family(D, T) :
          H[<<k, g>>] = IF k = 1 THEN first ELSE ScanStep(a, k, g[k - 1])
    <3> HIDE DEF D, T, first
    <3> QED
      OBVIOUS
  <2>5. \A g \in Family(D, T) : g = [k \in D |-> g[k]] /\ \A k \in D : g[k] \in T[k]
    <3> HIDE DEF D, T
    <3> QED
      BY OfFamily
  <2>6. m \in [D -> Nat] /\ (\A k \in D : m[k] = k) /\ \A k \in D : k # 1 => k - 1 \in D /\ k - 1 < k
    BY <1>1
  <2> HIDE DEF D, T, H, m, first
  <2>7. RecursionOn(D, m, T, H)
    <3>1. \A k \in D : \A g \in Family(D, T) : H[<<k, g>>] \in T[k]
      <4> TAKE k \in D
      <4> TAKE g \in Family(D, T)
      <4>1. k = 1 \/ (k - 1 \in D /\ g[k - 1] \in T[k - 1])
        BY <2>5, <2>6
      <4>2. k # 1 => ScanStep(a, k, g[k - 1]) \in T[k]
        BY <2>3, <4>1
      <4>3. H[<<k, g>>] = IF k = 1 THEN first ELSE ScanStep(a, k, g[k - 1])
        BY <2>4
      <4> QED
        BY <2>2, <4>2, <4>3
    <3>2. \A k \in D : \A g, h \in Family(D, T) : Agree(D, m, k, g, h) => H[<<k, g>>] = H[<<k, h>>]
      BY <2>4, <2>6 DEF Agree
    <3> QED
      BY <2>2, <2>6, <3>1, <3>2 DEF RecursionOn
  <2>8. PICK g \in Family(D, T) : SolvedBy(D, H, g)
    BY <2>7, RecursiveFunction, Zenon
  <2>9. g = [k \in D |-> IF k = 1 THEN first ELSE ScanStep(a, k, g[k - 1])]
    <3>1. \A k \in D : g[k] = IF k = 1 THEN first ELSE ScanStep(a, k, g[k - 1])
      BY <2>4, <2>8 DEF SolvedBy
    <3>2. g = [k \in D |-> g[k]]
      BY <2>5
    <3> QED
      BY <3>1, <3>2
  <2> QED
    BY <2>9 DEF Scans, D, first
<1>5. Partition(a) = (CHOOSE f : Scans(f))[n]
  BY Zenon DEF Partition, ScanStep
<1> QED
  <2>1. Scans(CHOOSE f : Scans(f))
    BY <1>4
  <2> HIDE DEF Scans
  <2> QED
    BY <1>1, <1>3, <1>5, <2>1

(* No entry comes before one that stands in front of it.                    *)
InOrder(a) == \A i, j \in DOMAIN a : i < j => ~Before(a[j], a[i])

(* cmpFile orders the entries: nothing comes before what comes before it,   *)
(* and what is not before the pivot is not before what is.                  *)
LEMMA BeforeOrders ==
  ASSUME NEW x \in Entry, NEW y \in Entry, NEW z \in Entry
  PROVE  /\ Before(x, y) => ~Before(y, x)
         /\ Before(x, y) /\ ~Before(z, y) => ~Before(z, x)
BY EntriesTyped DEF Before

Divides(e, l, r) ==
  /\ \A x \in Range(l) : Before(x, e)
  /\ \A x \in Range(r) : ~Before(x, e)

(* Two lists in order around the entry that divides them.                   *)
LEMMA JoinedInOrder ==
  ASSUME NEW l \in Seq(Entry), NEW e \in Entry, NEW r \in Seq(Entry), InOrder(l), InOrder(r),
         Divides(e, l, r)
  PROVE  /\ l \o <<e>> \o r \in Seq(Entry) /\ Len(l \o <<e>> \o r) = Len(l) + 1 + Len(r)
         /\ Range(l \o <<e>> \o r) = Range(l) \cup {e} \cup Range(r)
         /\ InOrder(l \o <<e>> \o r)
<1> DEFINE a == l \o <<e>> \o r
           p == Len(l) + 1
           n == Len(l) + 1 + Len(r)
<1>1. a \in Seq(Entry) /\ Len(a) = n /\ DOMAIN a = 1..n
  OBVIOUS
<1>2. \A i \in 1..n : a[i] = IF i < p THEN l[i] ELSE IF i = p THEN e ELSE r[i - p]
  OBVIOUS
<1>3. /\ p \in Nat /\ n \in Nat /\ DOMAIN l = 1..(p - 1) /\ DOMAIN r = 1..(n - p) /\ p <= n
      /\ p - 1 \in Nat /\ n - p \in Nat
  OBVIOUS
<1>4. /\ \A i \in 1..(p - 1) : l[i] \in Entry /\ l[i] \in Range(l)
      /\ \A i \in 1..(n - p) : r[i] \in Entry /\ r[i] \in Range(r)
  BY <1>3 DEF Range
<1> HIDE DEF a, p, n
<1>5. Range(a) = Range(l) \cup {e} \cup Range(r)
  <2>1. \A x \in Range(a) : x \in Range(l) \cup {e} \cup Range(r)
    <3> SUFFICES ASSUME NEW i \in 1..n PROVE a[i] \in Range(l) \cup {e} \cup Range(r)
      BY <1>1 DEF Range
    <3>1. i < p => i \in 1..(p - 1)
      BY <1>3
    <3>2. i > p => i - p \in 1..(n - p)
      BY <1>3
    <3>3. i < p \/ i = p \/ i > p
      BY <1>3
    <3> QED
      BY <1>2, <1>4, <3>1, <3>2, <3>3
  <2>2. \A i \in 1..(p - 1) : i \in 1..n /\ a[i] = l[i]
    BY <1>2, <1>3
  <2>3. p \in 1..n /\ a[p] = e
    BY <1>2, <1>3
  <2>4. \A i \in 1..(n - p) : i + p \in 1..n /\ a[i + p] = r[i]
    BY <1>2, <1>3
  <2>5. \A i \in 1..n : a[i] \in Range(a)
    BY <1>1 DEF Range
  <2>6. \A x \in Range(l) : \E i \in 1..(p - 1) : x = l[i]
    BY <1>3 DEF Range
  <2>7. \A x \in Range(r) : \E i \in 1..(n - p) : x = r[i]
    BY <1>3 DEF Range
  <2> QED
    BY <2>1, <2>2, <2>3, <2>4, <2>5, <2>6, <2>7
<1>6. InOrder(a)
  <2> SUFFICES ASSUME NEW i \in 1..n, NEW j \in 1..n, i < j PROVE ~Before(a[j], a[i])
    BY <1>1 DEF InOrder
  <2>1. CASE j < p
    <3>1. i \in DOMAIN l /\ j \in DOMAIN l
      BY <1>3, <2>1
    <3> QED
      BY <1>2, <1>3, <2>1, <3>1 DEF InOrder
  <2>2. CASE i > p
    <3>1. i - p \in DOMAIN r /\ j - p \in DOMAIN r /\ i - p < j - p
      BY <1>3, <2>2
    <3>2. a[i] = r[i - p] /\ a[j] = r[j - p]
      BY <1>2, <1>3, <2>2
    <3> QED
      BY <3>1, <3>2 DEF InOrder
  <2>3. CASE i <= p /\ j >= p
    <3>1. /\ i < p => i \in 1..(p - 1) /\ a[i] = l[i]
          /\ j > p => j - p \in 1..(n - p) /\ a[j] = r[j - p]
          /\ i = p => a[i] = e
          /\ j = p => a[j] = e
      BY <1>2, <1>3, <2>3
    <3>2. a[i] \in Entry /\ a[j] \in Entry
      BY <1>1
    <3>3. i < p => Before(a[i], e)
      BY <1>4, <3>1 DEF Divides
    <3>4. j > p => ~Before(a[j], e)
      BY <1>4, <3>1 DEF Divides
    <3>5. (i < p \/ i = p) /\ (j > p \/ j = p) /\ ~(i = p /\ j = p)
      BY <1>3, <2>3
    <3>6. CASE i < p /\ j > p
      BY <3>2, <3>3, <3>4, <3>6, BeforeOrders
    <3>7. CASE i < p /\ j = p
      BY <3>1, <3>2, <3>3, <3>7, BeforeOrders
    <3>8. CASE i = p /\ j > p
      BY <3>1, <3>4, <3>8
    <3> QED
      BY <3>5, <3>6, <3>7, <3>8
  <2> QED
    BY <1>3, <2>1, <2>2, <2>3
<1> QED
  BY <1>1, <1>5, <1>6 DEF a, p, n

(* The result of sort from those of its two calls.                          *)
Joined(a, sorted) ==
  LET s == Partition(a)
      b == Swap(s.a, 1, s.p)
  IN sorted[SubSeq(b, 1, s.p - 1)] \o <<b[s.p]>> \o sorted[SubSeq(b, s.p + 1, Len(b))]

Sorts(sorted) == sorted = [a \in Seq(Entry) |-> IF Len(a) <= 1 THEN a ELSE Joined(a, sorted)]

AreHalves(a, l, r) ==
  /\ Len(l) < Len(a) /\ Len(r) < Len(a) /\ Len(l) + 1 + Len(r) = Len(a)
  /\ Range(l) \cup {a[1]} \cup Range(r) = Range(a)
  /\ Divides(a[1], l, r)
  /\ \A sorted : Joined(a, sorted) = sorted[l] \o <<a[1]>> \o sorted[r]

(* The two calls get shorter lists, divided by the first entry.             *)
LEMMA Halves ==
  ASSUME NEW a \in Seq(Entry), Len(a) > 1
  PROVE  \E l, r \in Seq(Entry) : AreHalves(a, l, r)
<1> DEFINE n == Len(a)
           s == Partition(a)
           c == s.a
           p == s.p
           b == Swap(c, 1, p)
           l == SubSeq(b, 1, p - 1)
           r == SubSeq(b, p + 1, Len(b))
<1>1. n \in Nat /\ n > 1 /\ DOMAIN a = 1..n
  OBVIOUS
<1>2. Scanned(a, n, s)
  BY PartitionScans
<1> HIDE DEF n, s
<1>3. /\ p \in 1..n /\ c \in Seq(Entry) /\ Len(c) = n /\ Range(c) = Range(a) /\ c[1] = a[1]
      /\ \A i \in 2..p : Before(c[i], a[1])
      /\ \A i \in (p + 1)..n : ~Before(c[i], a[1])
  BY <1>2 DEF Scanned, n
<1> HIDE DEF c, p
<1>4. /\ b \in Seq(Entry) /\ Len(b) = n /\ Range(b) = Range(c)
      /\ b[1] = c[p] /\ b[p] = c[1] /\ \A i \in (1..n) \ {1, p} : b[i] = c[i]
  <2>1. 1 \in 1..Len(c) /\ p \in 1..Len(c)
    BY <1>1, <1>3
  <2>2. /\ b \in Seq(Entry) /\ Len(b) = Len(c) /\ Range(b) = Range(c)
        /\ b[1] = c[p] /\ b[p] = c[1]
        /\ \A i \in (1..Len(c)) \ {1, p} : b[i] = c[i]
    <3>1. c \in Seq(Entry)
      BY <1>3
    <3> QED
      BY <2>1, <3>1, SwapKeeps
  <2> HIDE DEF b
  <2> QED
    BY <1>3, <2>2
<1>5. \A sorted : Joined(a, sorted) = sorted[l] \o <<b[p]>> \o sorted[r]
  BY Zenon DEF Joined, s, c, p
<1> HIDE DEF b
<1>6. /\ l \in Seq(Entry) /\ Len(l) = p - 1 /\ \A i \in 1..(p - 1) : l[i] = b[i]
      /\ r \in Seq(Entry) /\ Len(r) = n - p /\ \A i \in 1..(n - p) : r[i] = b[i + p]
  BY <1>1, <1>3, <1>4
<1> HIDE DEF l, r
<1>7. DOMAIN l = 1..(p - 1) /\ DOMAIN r = 1..(n - p) /\ DOMAIN b = 1..n
  BY <1>4, <1>6
<1>8. \A i \in 1..(p - 1) : Before(l[i], a[1])
  <2> TAKE i \in 1..(p - 1)
  <2>1. p \in 2..p /\ l[i] = b[i]
    BY <1>1, <1>3, <1>6
  <2>2. i # 1 => i \in 2..p /\ i \in (1..n) \ {1, p}
    BY <1>1, <1>3
  <2> QED
    BY <1>3, <1>4, <2>1, <2>2
<1>9. \A i \in 1..(n - p) : ~Before(r[i], a[1])
  <2> TAKE i \in 1..(n - p)
  <2>1. i + p \in (p + 1)..n /\ i + p \in (1..n) \ {1, p}
    BY <1>1, <1>3
  <2> QED
    BY <1>3, <1>4, <1>6, <2>1
<1>10. Range(l) \cup {a[1]} \cup Range(r) = Range(a)
  <2>1. \A i \in 1..n : i \in 1..(p - 1) \/ i = p \/ (i - p \in 1..(n - p) /\ i - p + p = i)
    BY <1>1, <1>3
  <2>2. \A i \in 1..n : b[i] \in Range(l) \cup {a[1]} \cup Range(r)
    <3>1. \A i \in 1..(p - 1) : b[i] \in Range(l)
      BY <1>6, <1>7 DEF Range
    <3>2. \A i \in 1..n : i - p \in 1..(n - p) => b[i] \in Range(r)
      <4> TAKE i \in 1..n
      <4> HAVE i - p \in 1..(n - p)
      <4>1. r[i - p] = b[i - p + p] /\ i - p + p = i
        BY <1>1, <1>3, <1>6
      <4> QED
        BY <1>7, <4>1 DEF Range
    <3> QED
      BY <1>3, <1>4, <2>1, <3>1, <3>2
  <2>3. \A i \in 1..(p - 1) : i \in 1..n /\ l[i] = b[i]
    BY <1>1, <1>3, <1>6
  <2>4. \A i \in 1..(n - p) : i + p \in 1..n /\ r[i] = b[i + p]
    BY <1>1, <1>3, <1>6
  <2>5. p \in 1..n /\ b[p] = a[1]
    BY <1>3, <1>4
  <2> QED
    <3>1. Range(b) = Range(a)
      BY <1>3, <1>4
    <3>2. \A x \in Range(b) : x \in Range(l) \cup {a[1]} \cup Range(r)
      BY <1>7, <2>2 DEF Range
    <3>3. \A i \in 1..n : b[i] \in Range(b)
      BY <1>7 DEF Range
    <3>4. \A x \in Range(l) \cup Range(r) : x \in Range(b)
      <4>1. \A x \in Range(l) : \E i \in 1..(p - 1) : x = l[i]
        BY <1>7 DEF Range
      <4>2. \A x \in Range(r) : \E i \in 1..(n - p) : x = r[i]
        BY <1>7 DEF Range
      <4> QED
        BY <2>3, <2>4, <3>3, <4>1, <4>2
    <3> QED
      BY <2>5, <3>1, <3>2, <3>3, <3>4
<1>11. /\ Len(l) < n /\ Len(r) < n /\ Len(l) + 1 + Len(r) = n
       /\ Divides(a[1], l, r)
  BY <1>1, <1>3, <1>6, <1>7, <1>8, <1>9 DEF Range, Divides
<1>12. \A sorted : Joined(a, sorted) = sorted[l] \o <<a[1]>> \o sorted[r]
  BY <1>3, <1>4, <1>5
<1>13. l \in Seq(Entry) /\ r \in Seq(Entry)
  BY <1>6
<1> QED
  BY <1>10, <1>11, <1>12, <1>13, Zenon DEF n, AreHalves

(* sort comes to an end: a function that calls itself on shorter lists is   *)
(* there.                                                                   *)
LEMMA SortIsDefined == Sorts(Sorted)
<1> DEFINE D == Seq(Entry)
           m == [a \in D |-> Len(a)]
           T == [a \in D |-> D]
           H == [x \in D \X Family(D, T) |-> IF Len(x[1]) <= 1 THEN x[1] ELSE Joined(x[1], x[2])]
<1>1. \A a \in D : \A g \in Family(D, T) : H[<<a, g>>] = IF Len(a) <= 1 THEN a ELSE Joined(a, g)
  <2> HIDE DEF D, T
  <2> QED
    OBVIOUS
<1>2. \A g \in Family(D, T) : g = [a \in D |-> g[a]] /\ \A a \in D : g[a] \in D
  <2>1. \A a \in D : T[a] = D
    OBVIOUS
  <2> HIDE DEF D, T
  <2> QED
    BY <2>1, OfFamily
<1>3. m \in [D -> Nat] /\ (\A a \in D : m[a] = Len(a) /\ T[a] = D) /\ D # {}
  <2>1. <<>> \in D
    OBVIOUS
  <2>2. \A a \in D : Len(a) \in Nat
    OBVIOUS
  <2> HIDE DEF D
  <2> QED
    BY <2>1, <2>2
<1> HIDE DEF H, T, m
<1>4. \A a \in D : ~(Len(a) <= 1) => Len(a) > 1
  OBVIOUS
<1>5. \A a \in D : \A g \in Family(D, T) : H[<<a, g>>] \in T[a]
  <2> TAKE a \in D
  <2> TAKE g \in Family(D, T)
  <2>1. CASE Len(a) <= 1
    BY <1>1, <1>3, <2>1
  <2>2. CASE ~(Len(a) <= 1)
    <3>1. PICK l, r \in Seq(Entry) : AreHalves(a, l, r)
      BY <1>4, <2>2, Halves
    <3>2. a[1] \in Entry /\ g[l] \in Seq(Entry) /\ g[r] \in Seq(Entry)
      BY <1>2, <2>2
    <3>3. Joined(a, g) \in D
      <4>1. \A x, y \in Seq(Entry) : \A e \in Entry : x \o <<e>> \o y \in Seq(Entry)
        OBVIOUS
      <4>2. Joined(a, g) = g[l] \o <<a[1]>> \o g[r]
        BY <3>1 DEF AreHalves
      <4> QED
        BY <3>2, <4>1, <4>2
    <3> QED
      BY <1>1, <1>3, <2>2, <3>3
  <2> QED
    BY <2>1, <2>2
<1>6. \A a \in D : \A g, h \in Family(D, T) : Agree(D, m, a, g, h) => H[<<a, g>>] = H[<<a, h>>]
  <2> TAKE a \in D
  <2> TAKE g, h \in Family(D, T)
  <2> HAVE Agree(D, m, a, g, h)
  <2>1. CASE Len(a) <= 1
    BY <1>1, <2>1
  <2>2. CASE ~(Len(a) <= 1)
    <3>1. PICK l, r \in Seq(Entry) : AreHalves(a, l, r)
      BY <1>4, <2>2, Halves
    <3>2. g[l] = h[l] /\ g[r] = h[r]
      BY <1>3, <3>1 DEF Agree, AreHalves
    <3>3. Joined(a, g) = Joined(a, h)
      BY <3>1, <3>2 DEF AreHalves
    <3> QED
      BY <1>1, <2>2, <3>3
  <2> QED
    BY <2>1, <2>2
<1>7. \E g : Sorts(g)
  <2> HIDE DEF D
  <2>1. RecursionOn(D, m, T, H)
    BY <1>3, <1>5, <1>6 DEF RecursionOn
  <2>2. PICK g \in Family(D, T) : SolvedBy(D, H, g)
    BY <2>1, RecursiveFunction, Zenon
  <2>3. \A a \in D : g[a] = IF Len(a) <= 1 THEN a ELSE Joined(a, g)
    BY <1>1, <2>2 DEF SolvedBy
  <2>4. g = [a \in D |-> g[a]]
    BY <1>2
  <2>5. g = [a \in D |-> IF Len(a) <= 1 THEN a ELSE Joined(a, g)]
    BY <2>3, <2>4
  <2> QED
    BY <2>5 DEF Sorts, D
<1>8. Sorted = CHOOSE g : Sorts(g)
  BY Zenon DEF Sorted, Sorts, Joined
<1> QED
  BY <1>7, <1>8

(* sort loses no entry, adds none and puts them in order.                   *)
LEMMA SortedInOrder ==
  ASSUME NEW a \in Seq(Entry)
  PROVE  /\ Sorted[a] \in Seq(Entry) /\ Len(Sorted[a]) = Len(a)
         /\ Range(Sorted[a]) = Range(a) /\ InOrder(Sorted[a])
<1> DEFINE D == Seq(Entry)
           m == [b \in D |-> Len(b)]
           Right(b) == /\ Sorted[b] \in Seq(Entry) /\ Len(Sorted[b]) = Len(b)
                       /\ Range(Sorted[b]) = Range(b) /\ InOrder(Sorted[b])
           B == {b \in D : ~Right(b)}
<1>1. \A b \in D : Sorted[b] = IF Len(b) <= 1 THEN b ELSE Joined(b, Sorted)
  BY SortIsDefined DEF Sorts
<1>2. ASSUME NEW b \in D, \A e \in B : ~(m[e] < m[b]) PROVE Right(b)
  <2>1. CASE Len(b) <= 1
    <3>1. Sorted[b] = b
      BY <1>1, <2>1
    <3>2. InOrder(b)
      BY <2>1 DEF InOrder
    <3> QED
      BY <3>1, <3>2
  <2>2. CASE Len(b) > 1
    <3>1. PICK l, r \in Seq(Entry) : AreHalves(b, l, r)
      BY <2>2, Halves
    <3>2. Right(l) /\ Right(r)
      <4>1. l \in D /\ r \in D /\ m[l] < m[b] /\ m[r] < m[b]
        BY <3>1 DEF AreHalves
      <4> HIDE DEF Right, D, m
      <4> QED
        BY <1>2, <4>1
    <3> DEFINE ll == Sorted[l]
               rr == Sorted[r]
    <3>3. /\ ll \in Seq(Entry) /\ Len(ll) = Len(l) /\ Range(ll) = Range(l) /\ InOrder(ll)
          /\ rr \in Seq(Entry) /\ Len(rr) = Len(r) /\ Range(rr) = Range(r) /\ InOrder(rr)
      BY <3>2
    <3>4. Sorted[b] = ll \o <<b[1]>> \o rr
      <4>1. ~(Len(b) <= 1)
        BY <2>2
      <4> QED
        BY <1>1, <3>1, <4>1 DEF AreHalves
    <3>5. b[1] \in Entry
      BY <2>2
    <3> HIDE DEF ll, rr
    <3>6. /\ ll \o <<b[1]>> \o rr \in Seq(Entry)
          /\ Len(ll \o <<b[1]>> \o rr) = Len(ll) + 1 + Len(rr)
          /\ Range(ll \o <<b[1]>> \o rr) = Range(ll) \cup {b[1]} \cup Range(rr)
          /\ InOrder(ll \o <<b[1]>> \o rr)
      <4> DEFINE e == b[1]
      <4>1. e \in Entry /\ Divides(e, ll, rr)
        BY <3>1, <3>3, <3>5 DEF AreHalves, Divides
      <4> HIDE DEF e
      <4>2. /\ ll \o <<e>> \o rr \in Seq(Entry)
            /\ Len(ll \o <<e>> \o rr) = Len(ll) + 1 + Len(rr)
            /\ Range(ll \o <<e>> \o rr) = Range(ll) \cup {e} \cup Range(rr)
            /\ InOrder(ll \o <<e>> \o rr)
        <5>1. ll \in Seq(Entry) /\ rr \in Seq(Entry) /\ InOrder(ll) /\ InOrder(rr)
          BY <3>3
        <5> HIDE DEF D
        <5> QED
          BY <4>1, <5>1, JoinedInOrder
      <4> QED
        BY <4>2 DEF e
    <3> QED
      BY <3>1, <3>3, <3>4, <3>6 DEF AreHalves
  <2> QED
    BY <2>1, <2>2
<1>3. B = {}
  <2>1. \A b \in B : \E e \in B : m[e] < m[b]
    <3>1. \A b \in B : b \in D /\ ~Right(b)
      OBVIOUS
    <3> HIDE DEF B, Right, D, m
    <3> QED
      BY <1>2, <3>1
  <2>2. m \in [D -> Nat] /\ B \subseteq D
    OBVIOUS
  <2> HIDE DEF B, D, m
  <2> QED
    BY <2>1, <2>2, NoFirstFailure
<1> QED
  BY <1>3

(* The filter of setFileList: what is kept of the first k entries.          *)
Passed(a, all, k) == {i \in 1..k : Passes(a[i], all)}
KeepStep(a, all, k, s) == IF Passes(a[k], all) THEN Append(s, a[k]) ELSE s

Kept(a, all, k, s) ==
  /\ s \in Seq(Entry) /\ Len(s) = Cardinality(Passed(a, all, k))
  /\ Range(s) = {a[i] : i \in Passed(a, all, k)}

LEMMA KeepStepKeeps ==
  ASSUME NEW a \in Seq(Entry), NEW all, NEW k \in 1..Len(a), NEW s, Kept(a, all, k - 1, s)
  PROVE  Kept(a, all, k, KeepStep(a, all, k, s))
<1> DEFINE P == Passed(a, all, k - 1)
           Q == Passed(a, all, k)
<1>1. k \in Nat /\ k - 1 \in Nat /\ k \notin P /\ a[k] \in Entry
  BY DEF Passed
<1>2. Q = IF Passes(a[k], all) THEN P \cup {k} ELSE P
  <2>1. \A i : i \in 1..k <=> i \in 1..(k - 1) \/ i = k
    OBVIOUS
  <2>2. \A i : i \in Q <=> (i \in 1..(k - 1) \/ i = k) /\ Passes(a[i], all)
    BY <2>1 DEF Passed
  <2>3. \A i : i \in P <=> i \in 1..(k - 1) /\ Passes(a[i], all)
    BY DEF Passed
  <2> HIDE DEF P, Q
  <2>4. CASE Passes(a[k], all)
    <3>1. \A i : i \in Q <=> i \in P \cup {k}
      BY <2>2, <2>3, <2>4
    <3> QED
      BY <2>4, <3>1
  <2>5. CASE ~Passes(a[k], all)
    <3>1. \A i : i \in Q <=> i \in P
      BY <2>2, <2>3, <2>5
    <3> QED
      BY <2>5, <3>1
  <2> QED
    BY <2>4, <2>5
<1>3. IsFiniteSet(P)
  <2>1. P \subseteq 1..(k - 1)
    BY DEF Passed
  <2> HIDE DEF P
  <2> QED
    <3>1. 1 \in Int /\ k - 1 \in Int
      BY <1>1
    <3>2. IsFiniteSet(1..(k - 1))
      BY <3>1, FS_Interval
    <3> QED
      BY <2>1, <3>2, FS_Subset
<1>4. Cardinality(P \cup {k}) = Cardinality(P) + 1
  <2> HIDE DEF P
  <2> QED
    BY <1>1, <1>3, FS_AddElement
<1>5. s \in Seq(Entry) /\ Len(s) = Cardinality(P) /\ Range(s) = {a[i] : i \in P}
  BY DEF Kept
<1> HIDE DEF P, Q
<1>6. CASE Passes(a[k], all)
  <2> DEFINE e == a[k]
             b == Append(s, e)
  <2>1. b \in Seq(Entry) /\ Len(b) = Len(s) + 1 /\ DOMAIN b = 1..(Len(s) + 1)
    BY <1>1, <1>5
  <2>2. b[Len(s) + 1] = e /\ \A i \in 1..Len(s) : b[i] = s[i]
    BY <1>1, <1>5
  <2>3. DOMAIN s = 1..Len(s) /\ Len(s) \in Nat
    BY <1>5
  <2> HIDE DEF e, b
  <2>4. \A i : i \in 1..(Len(s) + 1) <=> i \in 1..Len(s) \/ i = Len(s) + 1
    BY <2>3
  <2>5. Range(b) = Range(s) \cup {e}
    BY <2>1, <2>2, <2>3, <2>4 DEF Range
  <2>6. Range(b) = {a[i] : i \in P \cup {k}}
    BY <1>5, <2>5 DEF e
  <2>7. KeepStep(a, all, k, s) = b
    BY <1>6 DEF KeepStep, b, e
  <2> QED
    BY <1>2, <1>4, <1>5, <1>6, <2>1, <2>6, <2>7 DEF Kept, Q
<1>7. CASE ~Passes(a[k], all)
  BY <1>2, <1>5, <1>7 DEF Kept, KeepStep, Q
<1> QED
  BY <1>6, <1>7

(* The filter keeps what passes, each entry once.                           *)
LEMMA PassingKeeps ==
  ASSUME NEW a \in Seq(Entry), NEW all
  PROVE  Kept(a, all, Len(a), Passing(a, all))
<1> DEFINE n == Len(a)
           D == 0..n
           m == [k \in D |-> k]
           T == [k \in D |-> Seq(Entry)]
           H == [x \in D \X Family(D, T) |-> IF x[1] = 0 THEN <<>> ELSE KeepStep(a, all, x[1], x[2][x[1] - 1])]
           Keeps(f) == f = [k \in D |-> IF k = 0 THEN <<>> ELSE KeepStep(a, all, k, f[k - 1])]
<1>1. n \in Nat /\ \A k \in D : k \in Nat /\ (k # 0 => k - 1 \in D /\ k - 1 < k /\ k \in 1..n)
  OBVIOUS
<1>2. m \in [D -> Nat] /\ \A k \in D : m[k] = k
  BY <1>1
<1>3. \A f : Keeps(f) => \A k \in D : f[k] = IF k = 0 THEN <<>> ELSE KeepStep(a, all, k, f[k - 1])
  <2> HIDE DEF D
  <2> QED
    OBVIOUS
<1>4. Kept(a, all, 0, <<>>)
  <2>1. Passed(a, all, 0) = {}
    BY DEF Passed
  <2>2. Cardinality({}) = 0
    BY FS_EmptySet
  <2>3. Range(<<>>) = {}
    BY DEF Range
  <2>4. <<>> \in Seq(Entry) /\ Len(<<>>) = 0 /\ {a[i] : i \in {}} = {}
    OBVIOUS
  <2> QED
    BY <2>1, <2>2, <2>3, <2>4, Zenon DEF Kept
<1>5. Passing(a, all) = (CHOOSE f : Keeps(f))[n]
  BY Zenon DEF Passing, KeepStep
<1>6. n \in D
  BY <1>1
<1>7. \A k \in D : \A g \in Family(D, T) :
         H[<<k, g>>] = IF k = 0 THEN <<>> ELSE KeepStep(a, all, k, g[k - 1])
  <2> HIDE DEF D, T
  <2> QED
    OBVIOUS
<1>8. \A g \in Family(D, T) : g = [k \in D |-> g[k]] /\ \A k \in D : g[k] \in Seq(Entry)
  <2>1. \A k \in D : T[k] = Seq(Entry)
    OBVIOUS
  <2> HIDE DEF D, T
  <2> QED
    BY <2>1, OfFamily
<1>9. \A k \in D : T[k] = Seq(Entry) /\ <<>> \in T[k]
  OBVIOUS
<1>10. \A k \in 1..n : \A s \in Seq(Entry) : KeepStep(a, all, k, s) \in Seq(Entry)
  <2>1. \A k \in 1..n : a[k] \in Entry
    OBVIOUS
  <2> QED
    BY <2>1 DEF KeepStep
<1> HIDE DEF n, D, m, T, H, Keeps
<1>11. \A f : Keeps(f) => \A k \in D : Kept(a, all, k, f[k])
  <2> SUFFICES ASSUME NEW f, Keeps(f) PROVE \A k \in D : Kept(a, all, k, f[k])
    OBVIOUS
  <2> DEFINE B == {k \in D : ~Kept(a, all, k, f[k])}
  <2>1. \A k \in B : \E e \in B : m[e] < m[k]
    <3> SUFFICES ASSUME NEW k \in B, k - 1 \notin B PROVE FALSE
      BY <1>1, <1>2
    <3>1. k \in D /\ ~Kept(a, all, k, f[k])
      OBVIOUS
    <3>2. k # 0
      BY <1>3, <1>4, <3>1
    <3>3. k - 1 \in D /\ k \in 1..Len(a) /\ Kept(a, all, k - 1, f[k - 1])
      BY <1>1, <3>1, <3>2 DEF n
    <3> DEFINE s == f[k - 1]
    <3>4. Kept(a, all, k - 1, s)
      BY <3>3
    <3> HIDE DEF s, B
    <3>5. Kept(a, all, k, KeepStep(a, all, k, s))
      BY <3>3, <3>4, KeepStepKeeps
    <3> QED
      BY <1>3, <3>1, <3>2, <3>5 DEF s
  <2>2. B = {}
    <3>1. B \subseteq D
      OBVIOUS
    <3> HIDE DEF B
    <3> QED
      BY <1>2, <2>1, <3>1, NoFirstFailure
  <2> QED
    BY <2>2
<1>12. \E f : Keeps(f)
  <2>1. RecursionOn(D, m, T, H)
    <3>1. \A k \in D : \A g \in Family(D, T) : H[<<k, g>>] \in T[k]
      <4> TAKE k \in D
      <4> TAKE g \in Family(D, T)
      <4>1. k = 0 \/ (k \in 1..n /\ g[k - 1] \in Seq(Entry))
        BY <1>1, <1>8
      <4> QED
        BY <1>7, <1>9, <1>10, <4>1
    <3>2. \A k \in D : \A g, h \in Family(D, T) : Agree(D, m, k, g, h) => H[<<k, g>>] = H[<<k, h>>]
      BY <1>1, <1>2, <1>7 DEF Agree
    <3> QED
      BY <1>2, <1>9, <3>1, <3>2 DEF RecursionOn
  <2>2. PICK g \in Family(D, T) : SolvedBy(D, H, g)
    BY <2>1, RecursiveFunction, Zenon
  <2>3. \A k \in D : g[k] = IF k = 0 THEN <<>> ELSE KeepStep(a, all, k, g[k - 1])
    BY <1>7, <2>2 DEF SolvedBy
  <2>4. g = [k \in D |-> g[k]]
    BY <1>8
  <2>5. g = [k \in D |-> IF k = 0 THEN <<>> ELSE KeepStep(a, all, k, g[k - 1])]
    BY <2>3, <2>4
  <2> QED
    BY <2>5 DEF Keeps
<1>13. Keeps(CHOOSE f : Keeps(f))
  BY <1>12
<1> QED
  BY <1>5, <1>6, <1>11, <1>13 DEF n

------------------------------------------------------------------------------
(* The browser (getFilePath of filer.c)                                     *)

(* The folder above is there.                                               *)
Home(path) == path = <<>> \/ Front(path) \in {<<>>} \cup DOMAIN Tree

LEMMA ContentsTyped ==
  ASSUME NEW path
  PROVE  Contents(path) \in Seq(Entry) /\ (Contents(path) # <<>> => path \in DOMAIN Tree)
BY BrowserAssumption DEF Contents

(* A folder that cannot be read leaves nothing to sort.                     *)
LEMMA NothingPasses ==
  ASSUME NEW all
  PROVE  Passing(<<>>, all) = <<>> /\ Sorted[<<>>] = <<>>
<1>1. <<>> \in Seq(Entry) /\ Len(<<>>) = 0 /\ \A s \in Seq(Entry) : Len(s) = 0 => s = <<>>
  OBVIOUS
<1>2. Kept(<<>>, all, 0, Passing(<<>>, all))
  BY <1>1, PassingKeeps
<1>3. Passed(<<>>, all, 0) = {}
  BY DEF Passed
<1>4. Len(Passing(<<>>, all)) = 0
  BY <1>2, <1>3, FS_EmptySet DEF Kept
<1>5. Sorted[<<>>] \in Seq(Entry) /\ Len(Sorted[<<>>]) = 0
  BY <1>1, SortedInOrder
<1> QED
  BY <1>1, <1>2, <1>4, <1>5 DEF Kept

(* What setFileList makes of a folder: the devices, or ".." and the entries *)
(* that pass.                                                               *)
IsListing(path, all, list) ==
  /\ list \in Seq(Entry) /\ Len(list) >= 1
  /\ path = <<>> => \A i \in 1..Len(list) : list[i].dir /\ list[i].name # ".."
  /\ path # <<>> =>
       /\ Head(list) = UpEntry
       /\ Tail(list) # <<>> => /\ path \in DOMAIN Tree
                               /\ Range(Tail(list)) = {Contents(path)[i] : i \in Passed(Contents(path), all, Len(Contents(path)))}
                               /\ Len(Tail(list)) = Cardinality(Passed(Contents(path), all, Len(Contents(path))))
       /\ InOrder(Tail(list))

LEMMA ListingIsListing ==
  ASSUME NEW path, NEW all, NEW found \in BOOLEAN
  PROVE  IsListing(path, all, Listing(path, all, found))
<1>1. CASE path = <<>>
  <2>1. /\ Devices \in Seq(Entry) /\ Len(Devices) = 3
        /\ \A i \in 1..3 : Devices[i] \in {Folder("mc0:"), Folder("mc1:"), Folder("mass:")}
    <3>1. Devices = <<Folder("mc0:"), Folder("mc1:"), Folder("mass:")>>
      BY DEF Devices
    <3>2. DOMAIN Devices = 1..3 /\ Len(Devices) = 3
      BY <3>1
    <3>3. \A i \in 1..3 : Devices[i] \in Range(Devices)
      BY <3>2 DEF Range
    <3>4. Devices[1] \in Entry /\ Devices[2] \in Entry /\ Devices[3] \in Entry
      BY <3>3 DEF Entry
    <3> QED
      BY <3>1, <3>4
  <2>2. \A d \in {Folder("mc0:"), Folder("mc1:"), Folder("mass:")} : d.dir /\ d.name # ".."
    BY DEF Folder
  <2>3. Listing(path, all, found) = Devices
    BY <1>1 DEF Listing
  <2>4. \A i \in 1..Len(Devices) : Devices[i].dir /\ Devices[i].name # ".."
    BY <2>1, <2>2
  <2>5. Len(Devices) >= 1
    BY <2>1
  <2> QED
    BY <1>1, <2>1, <2>3, <2>4, <2>5, Zenon DEF IsListing
<1>2. CASE path # <<>>
  <2> DEFINE a == Contents(path)
             c == IF found THEN a ELSE <<>>
             t == Sorted[Passing(c, all)]
             list == <<UpEntry>> \o t
  <2>1. Listing(path, all, found) = list
    BY <1>2 DEF Listing
  <2>2. UpEntry \in Entry
    BY DEF Entry
  <2>3. a \in Seq(Entry) /\ (a # <<>> => path \in DOMAIN Tree)
    BY ContentsTyped
  <2>4. c \in Seq(Entry) /\ (c = a \/ c = <<>>)
    BY <2>3
  <2> HIDE DEF a, c
  <2>5. Kept(c, all, Len(c), Passing(c, all))
    BY <2>4, PassingKeeps
  <2>6. Passing(c, all) \in Seq(Entry)
    BY <2>5 DEF Kept
  <2>7. /\ t \in Seq(Entry) /\ Len(t) = Len(Passing(c, all))
        /\ Range(t) = Range(Passing(c, all)) /\ InOrder(t)
    BY <2>6, SortedInOrder
  <2>8. t # <<>> => c = a /\ a # <<>>
    BY <2>4, NothingPasses
  <2> HIDE DEF t
  <2>9. list \in Seq(Entry) /\ Len(list) >= 1 /\ Head(list) = UpEntry /\ Tail(list) = t
    BY <2>2, <2>7
  <2>10. t # <<>> => /\ path \in DOMAIN Tree
                     /\ Range(t) = {a[i] : i \in Passed(a, all, Len(a))}
                     /\ Len(t) = Cardinality(Passed(a, all, Len(a)))
    BY <2>3, <2>5, <2>7, <2>8 DEF Kept
  <2> HIDE DEF list
  <2> QED
    BY <1>2, <2>1, <2>7, <2>9, <2>10 DEF IsListing, a
<1> QED
  BY <1>1, <1>2

(* The way down to an entry and the way up.                                 *)
LEMMA PathsTyped ==
  /\ \A p \in DOMAIN Tree : p \in Path /\ p # <<>> /\ Home(p)
  /\ \A p \in Path : \A e \in Entry : p \in {<<>>} \cup DOMAIN Tree =>
        Append(p, e.name) \in Path /\ Home(Append(p, e.name))
  /\ \A p \in Path : p # <<>> /\ Home(p) => Front(p) \in Path /\ Home(Front(p))
  /\ <<>> \in Path /\ Home(<<>>)
<1>1. \A p \in DOMAIN Tree : p \in Path /\ p # <<>> /\ Home(p)
  BY BrowserAssumption DEF Home
<1>2. ASSUME NEW p \in Path, NEW e \in Entry, p \in {<<>>} \cup DOMAIN Tree
      PROVE  Append(p, e.name) \in Path /\ Home(Append(p, e.name))
  <2>1. Append(p, e.name) \in Path
    BY DEF Path
  <2>2. Front(Append(p, e.name)) = p
    BY DEF Path, Front
  <2> QED
    BY <1>2, <2>1, <2>2 DEF Home
<1>3. <<>> \in Path /\ Home(<<>>)
  BY DEF Path, Home
<1>4. \A p \in Path : p # <<>> /\ Home(p) => Front(p) \in Path /\ Home(Front(p))
  BY <1>1, <1>3 DEF Home
<1> QED
  BY <1>1, <1>2, <1>3, <1>4

CursorIn(b) ==
  LET n == Len(b.list)
  IN /\ b.sel \in 0..(n - 1)
     /\ b.top >= 0
     /\ b.sel \in b.top..(b.top + PageRows - 1)
     /\ b.top + PageRows <= AtLeast(n, PageRows)

Browser == [open : BOOLEAN, path : Path, sel : Int, top : Int, all : BOOLEAN, list : Seq(Entry)]

(* The clamps of getFilePath (3496-3501) put the cursor on the screen from  *)
(* anywhere.                                                                *)
LEMMA ClampShows ==
  ASSUME NEW b \in Browser, Len(b.list) >= 1
  PROVE  /\ Clamped(b) \in Browser /\ CursorIn(Clamped(b))
         /\ Clamped(b).open = b.open /\ Clamped(b).path = b.path
         /\ Clamped(b).all = b.all /\ Clamped(b).list = b.list
<1> DEFINE n == Len(b.list)
           sel == AtLeast(AtMost(b.sel, n - 1), 0)
           top == AtLeast(AtMost(b.top, n - PageRows), 0)
           shown == AtMost(AtLeast(top, sel - PageRows + 1), sel)
<1>1. n \in Nat /\ n >= 1 /\ b.sel \in Int /\ b.top \in Int /\ PageRows \in Nat /\ PageRows >= 1
  BY BrowserAssumption DEF Browser
<1>2. Clamped(b) = [b EXCEPT !.sel = sel, !.top = shown]
  BY DEF Clamped
<1> HIDE DEF n
<1>3. sel \in 0..(n - 1) /\ sel \in Int
  BY <1>1 DEF AtMost, AtLeast
<1>4. top \in Int /\ top >= 0 /\ top + PageRows <= AtLeast(n, PageRows)
  BY <1>1 DEF AtMost, AtLeast
<1> HIDE DEF sel, top
<1>5. shown \in Int /\ shown >= 0 /\ sel \in shown..(shown + PageRows - 1) /\ shown + PageRows <= AtLeast(n, PageRows)
  BY <1>1, <1>3, <1>4 DEF AtMost, AtLeast
<1> HIDE DEF shown
<1>6. /\ Clamped(b) \in Browser /\ Clamped(b).sel = sel /\ Clamped(b).top = shown
      /\ Clamped(b).open = b.open /\ Clamped(b).path = b.path
      /\ Clamped(b).all = b.all /\ Clamped(b).list = b.list
  BY <1>2, <1>3, <1>5 DEF Browser
<1> QED
  BY <1>3, <1>5, <1>6 DEF CursorIn, n

LEMMA PlacedShows ==
  ASSUME NEW b \in Browser, Len(b.list) >= 1, NEW entry
  PROVE  /\ Placed(b, entry) \in Browser /\ CursorIn(Placed(b, entry))
         /\ Placed(b, entry).open = b.open /\ Placed(b, entry).path = b.path
         /\ Placed(b, entry).all = b.all /\ Placed(b, entry).list = b.list
<1> DEFINE I == {i \in 1..Len(b.list) : b.list[i].name = entry}
           From(at) == IF at = 0 THEN [b EXCEPT !.sel = 0, !.top = 0] ELSE [b EXCEPT !.sel = at - 1, !.top = at - 4]
           first == IF I # {} THEN Min(I) ELSE 0
<1>1. Placed(b, entry) = Clamped(From(first))
  BY Zenon DEF Placed, SelectInSeq
<1>2. first \in Int
  <2>1. I \subseteq Nat
    OBVIOUS
  <2> HIDE DEF I
  <2>2. I # {} => \E i \in I : \A j \in I : i <= j
    BY <2>1, LeastNumber
  <2>3. I # {} => Min(I) \in I
    BY <2>2 DEF Min
  <2>4. 0 \in Int /\ I \subseteq Int
    BY <2>1
  <2> QED
    BY <2>3, <2>4, Zenon
<1>3. PICK at \in Int : Placed(b, entry) = Clamped(From(at))
  BY <1>1, <1>2, Zenon
<1> HIDE DEF first
<1> DEFINE c == From(at)
<1>5. c \in Browser /\ c.open = b.open /\ c.path = b.path /\ c.all = b.all /\ c.list = b.list
  <2>1. CASE at = 0
    <3>1. c = [b EXCEPT !.sel = 0, !.top = 0]
      BY <2>1
    <3>2. 0 \in Int
      OBVIOUS
    <3> HIDE DEF c
    <3>3. /\ c.open = b.open /\ c.path = b.path /\ c.all = b.all /\ c.list = b.list
          /\ c.sel = 0 /\ c.top = 0
          /\ c = [open |-> c.open, path |-> c.path, sel |-> c.sel, top |-> c.top, all |-> c.all, list |-> c.list]
      BY <3>1 DEF Browser
    <3> QED
      BY <3>2, <3>3 DEF Browser
  <2>2. CASE at # 0
    <3>1. c = [b EXCEPT !.sel = at - 1, !.top = at - 4]
      BY <2>2
    <3>2. at - 1 \in Int /\ at - 4 \in Int
      OBVIOUS
    <3> HIDE DEF c
    <3> QED
      BY <3>1, <3>2 DEF Browser
  <2> QED
    BY <2>1, <2>2
<1> HIDE DEF c
<1>6. Len(c.list) >= 1
  BY <1>5
<1>7. Placed(b, entry) = Clamped(c)
  BY <1>3 DEF c
<1> HIDE DEF From
<1> QED
  BY <1>5, <1>6, <1>7, ClampShows

(* The invariant: the list is that of the folder and the filter.            *)
BrowserInv ==
  /\ browse \in Browser /\ Home(browse.path)
  /\ browse.open => IsListing(browse.path, browse.all, browse.list) /\ CursorIn(browse)
  /\ lastDir = <<>> \/ lastDir \in DOMAIN Tree
  /\ usb \in BOOLEAN

LEMMA ShowKeeps ==
  ASSUME BrowserInv, NEW b, NEW entry, Show(b, entry), b.open, UNCHANGED lastDir,
         b = [open |-> b.open, path |-> b.path, sel |-> b.sel, top |-> b.top, all |-> b.all, list |-> b.list],
         b.open \in BOOLEAN, b.path \in Path, Home(b.path), b.sel \in Int, b.top \in Int, b.all \in BOOLEAN
  PROVE  BrowserInv'
<1>1. PICK found \in BOOLEAN :
         /\ usb' \in (IF OnStick(b.path) THEN {usb, TRUE} ELSE {usb})
         /\ browse' = Placed([b EXCEPT !.list = Listing(b.path, b.all, found)], entry)
  BY Zenon DEF Show
<1> DEFINE l == Listing(b.path, b.all, found)
           c == [b EXCEPT !.list = l]
<1>2. IsListing(b.path, b.all, l)
  BY ListingIsListing
<1>3. l \in Seq(Entry) /\ Len(l) >= 1
  BY <1>2 DEF IsListing
<1>4. browse' = Placed(c, entry)
  BY <1>1
<1> HIDE DEF l
<1>5. c \in Browser /\ c.open = b.open /\ c.path = b.path /\ c.all = b.all /\ c.list = l
  BY <1>3 DEF Browser
<1> HIDE DEF c
<1>6. /\ browse' \in Browser /\ CursorIn(browse')
      /\ browse'.path = b.path /\ browse'.all = b.all /\ browse'.list = l
  BY <1>3, <1>4, <1>5, PlacedShows
<1>7. usb' \in BOOLEAN
  BY <1>1, Zenon DEF BrowserInv
<1> QED
  BY <1>2, <1>6, <1>7 DEF BrowserInv

(* What is selected other than ".." is in a folder that is there.           *)
LEMMA SelectedIsListed ==
  ASSUME BrowserInv, browse.open
  PROVE  /\ Selected \in Entry
         /\ browse.path = <<>> => Selected.dir /\ Selected.name # ".."
         /\ Selected # UpEntry => browse.path \in {<<>>} \cup DOMAIN Tree
<1> DEFINE l == browse.list
           i == browse.sel + 1
<1>1. /\ l \in Seq(Entry) /\ i \in 1..Len(l) /\ Selected = l[i]
      /\ IsListing(browse.path, browse.all, l)
  BY DEF BrowserInv, CursorIn, Browser, Selected
<1>2. ASSUME browse.path # <<>>, Selected # UpEntry PROVE Tail(l) # <<>>
  <2>1. Head(l) = UpEntry
    BY <1>1, <1>2 DEF IsListing
  <2>2. i # 1
    BY <1>1, <1>2, <2>1
  <2>3. Len(l) \in Nat /\ Len(l) >= 2
    BY <1>1, <2>2
  <2>4. Len(Tail(l)) >= 1
    BY <1>1, <2>3
  <2>5. ~(Len(<<>>) >= 1)
    OBVIOUS
  <2> QED
    BY <2>4, <2>5
<1> HIDE DEF l, i
<1> QED
  BY <1>1, <1>2 DEF IsListing

LEMMA WalkKeeps ==
  ASSUME BrowserInv, Walk
  PROVE  BrowserInv'
<1> USE PathsTyped
<1>1. browse \in Browser /\ browse.open /\ Home(browse.path) /\ Len(browse.list) >= 1
  BY DEF BrowserInv, IsListing, Walk, MoveSelection, GoUp, Enter, ToggleFilter
<1>2. ASSUME MoveSelection PROVE BrowserInv'
  <2>1. PICK d \in {-1, 1, -(PageRows \div 2), PageRows \div 2} : browse' = Clamped([browse EXCEPT !.sel = @ + d])
    BY <1>2 DEF MoveSelection
  <2> DEFINE c == [browse EXCEPT !.sel = @ + d]
  <2>2. d \in Int
    BY BrowserAssumption
  <2>3. c \in Browser /\ c.path = browse.path /\ c.all = browse.all /\ c.list = browse.list /\ c.open
    BY <1>1, <2>2 DEF Browser
  <2>4. browse' = Clamped(c)
    BY <2>1
  <2> HIDE DEF c
  <2>5. /\ browse' \in Browser /\ CursorIn(browse')
        /\ browse'.path = browse.path /\ browse'.all = browse.all /\ browse'.list = browse.list
    BY <1>1, <2>3, <2>4, ClampShows
  <2>6. UNCHANGED <<lastDir, usb>>
    BY <1>2 DEF MoveSelection
  <2> QED
    BY <1>1, <2>5, <2>6 DEF BrowserInv
<1>3. ASSUME GoUp PROVE BrowserInv'
  <2>1. CASE browse.path = <<>>
    <3>1. Show(browse, "") /\ UNCHANGED lastDir
      BY <1>3, <2>1 DEF GoUp
    <3> QED
      BY <1>1, <3>1, ShowKeeps DEF Browser
  <2>2. CASE browse.path # <<>>
    <3> DEFINE c == [browse EXCEPT !.path = Front(@)]
    <3>1. Show(c, Last(browse.path)) /\ UNCHANGED lastDir
      BY <1>3, <2>2 DEF GoUp
    <3>2. Front(browse.path) \in Path /\ Home(Front(browse.path))
      BY <1>1, <2>2 DEF Browser
    <3>3. c \in Browser /\ Home(c.path) /\ c.open
      BY <1>1, <3>2 DEF Browser
    <3> HIDE DEF c
    <3> QED
      BY <3>1, <3>3, ShowKeeps DEF Browser
  <2> QED
    BY <2>1, <2>2
<1>4. ASSUME Enter PROVE BrowserInv'
  <2>1. CASE Selected.name = ".."
    BY <1>3, <1>4, <2>1 DEF Enter
  <2>2. CASE Selected.name # ".."
    <3> DEFINE c == [browse EXCEPT !.path = Append(@, Selected.name)]
    <3>1. Show(c, "") /\ UNCHANGED lastDir
      BY <1>4, <2>2 DEF Enter
    <3>2. Selected # UpEntry
      BY <2>2 DEF UpEntry, Folder
    <3>3. Selected \in Entry /\ browse.path \in {<<>>} \cup DOMAIN Tree
      BY <1>1, <3>2, SelectedIsListed
    <3>4. Append(browse.path, Selected.name) \in Path /\ Home(Append(browse.path, Selected.name))
      BY <1>1, <3>3 DEF Browser
    <3>5. c \in Browser /\ Home(c.path) /\ c.open
      BY <1>1, <3>4 DEF Browser
    <3> HIDE DEF c
    <3> QED
      BY <3>1, <3>5, ShowKeeps DEF Browser
  <2> QED
    BY <2>1, <2>2
<1>5. ASSUME ToggleFilter PROVE BrowserInv'
  <2> DEFINE c == [browse EXCEPT !.all = ~@]
  <2>1. Show(c, "") /\ UNCHANGED lastDir
    BY <1>5 DEF ToggleFilter
  <2>2. c \in Browser /\ Home(c.path) /\ c.open
    BY <1>1 DEF Browser
  <2> HIDE DEF c
  <2> QED
    BY <2>1, <2>2, ShowKeeps DEF Browser
<1> QED
  BY <1>2, <1>3, <1>4, <1>5 DEF Walk

LEMMA ClosedIsBrowser == Closed \in Browser /\ Home(Closed.path) /\ ~Closed.open
BY PathsTyped DEF Closed, Browser

LEMMA OpenKeeps ==
  ASSUME BrowserInv, OpenBrowser
  PROVE  BrowserInv'
<1> DEFINE c == [Closed EXCEPT !.open = TRUE, !.path = lastDir]
<1>1. Show(c, "") /\ UNCHANGED lastDir
  BY DEF OpenBrowser
<1>2. lastDir \in Path /\ Home(lastDir)
  BY PathsTyped DEF BrowserInv
<1>3. c \in Browser /\ Home(c.path) /\ c.open
  BY <1>2, ClosedIsBrowser DEF Browser
<1> HIDE DEF c
<1> QED
  BY <1>1, <1>3, ShowKeeps DEF Browser

LEMMA ChooseKeeps ==
  ASSUME BrowserInv, Choose
  PROVE  BrowserInv' /\ Chosen \in Path
<1>1. browse.open /\ ~Selected.dir /\ browse' = Closed /\ lastDir' = browse.path /\ usb' = usb
  BY DEF Choose
<1>2. Selected # UpEntry
  BY <1>1 DEF UpEntry, Folder
<1>3. browse.path \in DOMAIN Tree /\ Selected \in Entry
  BY <1>1, <1>2, SelectedIsListed
<1>4. Chosen \in Path
  BY <1>3, PathsTyped DEF Chosen
<1> QED
  BY <1>1, <1>3, <1>4, ClosedIsBrowser DEF BrowserInv

LEMMA CancelKeeps ==
  ASSUME BrowserInv, Cancel
  PROVE  BrowserInv'
<1>1. browse' = Closed /\ UNCHANGED <<lastDir, usb>>
  BY DEF Cancel
<1> QED
  BY <1>1, ClosedIsBrowser DEF BrowserInv

LEMMA BrowserInvImplies ==
  ASSUME BrowserInv
  PROVE  BrowserTypeOK /\ CursorShown /\ ListInOrder
<1>1. BrowserTypeOK
  BY DEF BrowserInv, BrowserTypeOK, Browser, Home
<1>2. CursorShown
  BY DEF BrowserInv, CursorShown, CursorIn
<1>3. ListInOrder
  <2> SUFFICES ASSUME browse.open, browse.path # <<>>
               PROVE  LET l == Tail(browse.list)
                          all == Contents(browse.path)
                          passed == {i \in DOMAIN all : Passes(all[i], browse.all)}
                      IN /\ Head(browse.list) = UpEntry
                         /\ l # <<>> => Range(l) = {all[i] : i \in passed} /\ Len(l) = Cardinality(passed)
                         /\ \A i, j \in DOMAIN l : i < j => ~Before(l[j], l[i])
    BY Zenon DEF ListInOrder
  <2> DEFINE all == Contents(browse.path)
             passed == {i \in DOMAIN all : Passes(all[i], browse.all)}
  <2>1. passed = Passed(all, browse.all, Len(all))
    <3>1. DOMAIN all = 1..Len(all)
      BY ContentsTyped
    <3> QED
      BY <3>1, Zenon DEF Passed
  <2> HIDE DEF passed, all
  <2> QED
    BY <2>1, Zenon DEF BrowserInv, IsListing, InOrder, passed, all
<1> QED
  BY <1>1, <1>2, <1>3

------------------------------------------------------------------------------
(* The types of the settings, the items copied and the files                *)

Mem == [{Null} \cup Block -> Cfg]
IsLines(lines) == DOMAIN lines \subseteq Setting /\ lines \in [DOMAIN lines -> Value]

(* The invariant: every block holds settings, allocated or not, and so do   *)
(* the files and the item copied.                                           *)
DataInv ==
  /\ mem \in Mem
  /\ clip \in ItemClip
  /\ \A p \in Port : IsFile(file[p])

(* What the code itself stores is a value.                                  *)
LEMMA Words ==
  /\ {Empty, Junk, Cut, <<"OSDSYS">>, <<"FASTBOOT">>, <<"OSDMENU">>} \subseteq Value
  /\ {"mc?:", "B?DATA-SYSTEM"} \subseteq Name
BY CnfAssumption, ConfiguratorAssumption DEF Value, Empty, Junk, Cut

LEMMA ReadTyped ==
  ASSUME NEW lines, IsLines(lines), NEW old \in Cfg
  PROVE  Read(lines, old) \in Cfg
<1>1. ASSUME NEW v \in Value PROVE Trimmed(v) \in Value
  <2>1. CASE v # Empty /\ Head(v) = " "
    <3>1. Trimmed(v) = Tail(v)
      BY <2>1, Zenon DEF Trimmed
    <3>2. v \in Seq(Name) /\ v # <<>>
      BY <2>1 DEF Value, Empty
    <3>3. Tail(v) \in Seq(Name)
      BY <3>2
    <3> QED
      BY <3>1, <3>3 DEF Value
  <2>2. CASE ~(v # Empty /\ Head(v) = " ")
    BY <2>2, Zenon DEF Trimmed
  <2> QED
    BY <2>1, <2>2
<1>2. Defaults \in Cfg /\ Empty \in Value
  BY CnfAssumption, Words
<1> DEFINE r(n) == IF n \in DOMAIN lines THEN Trimmed(lines[n])
                   ELSE IF n \in Key THEN old[n]
                   ELSE IF n \in ItemLine THEN Empty ELSE Defaults[n]
<1>3. \A n \in Setting : r(n) \in Value
  BY <1>1, <1>2 DEF IsLines, Cfg
<1>4. Read(lines, old) = [n \in Setting |-> r(n)]
  BY DEF Read
<1> HIDE DEF r
<1> QED
  BY <1>3, <1>4 DEF Cfg

LEMMA BlockSet ==
  ASSUME NEW m \in Mem, NEW b, NEW c \in Cfg
  PROVE  [m EXCEPT ![b] = c] \in Mem
BY DEF Mem

LEMMA LoadedOverTyped ==
  ASSUME NEW m \in Mem, NEW live, NEW m2 \in LoadedOver(m, live)
  PROVE  m2 \in Mem
<1>1. CASE m2 = m
  BY <1>1
<1>2. ASSUME ~(Block \subseteq live), NEW k \in Columns,
             m2 = [m EXCEPT ![FirstFree(live)] = Overwritten(@, k)]
      PROVE  m2 \in Mem
  <2> DEFINE f == FirstFree(live)
             c == m[f]
  <2>1. f \in Block
    BY <1>2, FirstFreeIsFree
  <2> HIDE DEF f
  <2>2. c \in Cfg
    BY <2>1 DEF Mem
  <2>3. m2 = [m EXCEPT ![f] = Overwritten(c, k)]
    BY <1>2, <2>1 DEF Mem, f
  <2> HIDE DEF c
  <2>4. Overwritten(c, k) \in Cfg
    BY <2>2, Words DEF Overwritten, Cfg
  <2> QED
    BY <2>3, <2>4, BlockSet
<1> QED
  BY <1>1, <1>2 DEF LoadedOver

(* A line set beyond the buttons sets nothing that is not a value.          *)
LEMMA LineTyped ==
  ASSUME mem \in Mem, NEW n, NEW v, n \in Setting => v \in Value, Set(n, v)
  PROVE  mem' \in Mem
<1> DEFINE b == heap.fmcb
           c == [mem[b] EXCEPT ![n] = v]
<1>1. mem' = [mem EXCEPT ![b] = c]
  BY DEF Set
<1>2. CASE b \in {Null} \cup Block
  <2>1. mem[b] \in Cfg
    BY <1>2 DEF Mem
  <2>2. c \in Cfg
    BY <2>1 DEF Cfg
  <2> HIDE DEF b, c
  <2> QED
    BY <1>1, <2>2, BlockSet
<1>3. CASE b \notin {Null} \cup Block
  BY <1>1, <1>3 DEF Mem
<1> QED
  BY <1>2, <1>3

LEMMA ItemTyped ==
  ASSUME mem \in Mem, heap.fmcb \in {Null} \cup Block, NEW i, NEW fields \in ItemClip, SetItem(i, fields)
  PROVE  mem' \in Mem
<1> DEFINE b == heap.fmcb
           old == mem[b]
           c == [n \in Setting |-> IF n \in ItemLine /\ n[2] = i THEN fields[n[3]] ELSE old[n]]
<1>1. mem' = [mem EXCEPT ![b] = c]
  BY DEF SetItem, Mem
<1>2. old \in Cfg
  BY DEF Mem
<1> HIDE DEF old
<1>3. \A n \in ItemLine : n[3] \in 0..3
  BY DEF ItemLine
<1>4. c \in Cfg
  BY <1>2, <1>3 DEF Cfg, ItemClip
<1> HIDE DEF b, c
<1> QED
  BY <1>1, <1>4, BlockSet

LEMMA CurrentTyped ==
  ASSUME mem \in Mem, heap.fmcb \in {Null} \cup Block
  PROVE  Current \in Cfg
BY DEF Mem, Current

LEMMA SavedTyped ==
  ASSUME NEW c \in Cfg, NEW lines \in {Stored(c)} \cup UNION {Torn(c, k) : k \in TornAt}
  PROVE  IsLines(lines)
<1>1. DOMAIN Stored(c) \subseteq Setting /\ IsLines(Stored(c))
  <2> DEFINE W == {m \in Setting : Written(c, m)}
  <2>1. W \subseteq Setting
    OBVIOUS
  <2>2. Stored(c) = [n \in W |-> c[n]]
    BY DEF Stored
  <2> HIDE DEF W
  <2> QED
    BY <2>1, <2>2 DEF IsLines, Cfg
<1>2. ASSUME NEW k \in TornAt, lines \in Torn(c, k) PROVE IsLines(lines)
  <2> DEFINE whole == {FileOrder[i] : i \in 1..(k - 1)} \cap DOMAIN Stored(c)
             cut == {FileOrder[k]} \cap DOMAIN Stored(c)
  <2>1. whole \subseteq Setting /\ cut \subseteq Setting
    BY <1>1
  <2>2. lines \in {[n \in whole |-> c[n]], [n \in whole \cup cut |-> IF n \in cut THEN Cut ELSE c[n]]}
    BY <1>2 DEF Torn
  <2> HIDE DEF whole, cut
  <2>3. CASE lines = [n \in whole |-> c[n]]
    BY <2>1, <2>3 DEF IsLines, Cfg
  <2>4. CASE lines = [n \in whole \cup cut |-> IF n \in cut THEN Cut ELSE c[n]]
    <3>1. Cut \in Value
      BY Words
    <3> QED
      BY <2>1, <2>4, <3>1 DEF IsLines, Cfg
  <2> QED
    BY <2>2, <2>3, <2>4
<1> QED
  BY <1>1, <1>2


(* What loading leaves in memory, and the drivers.                         *)
LEMMA DriversLoaded ==
  ASSUME usb \in BOOLEAN, NEW m \in Mem, NEW live, loadUsbModules(m, live)
  PROVE  usb' \in BOOLEAN /\ mem' \in Mem
BY LoadedOverTyped DEF loadUsbModules

LEMMA LoadTyped ==
  ASSUME Types, BrowserInv, DataInv, NEW p \in Port, loadSucceeds(p) \/ loadFails(p)
  PROVE  usb' \in BOOLEAN /\ mem' \in Mem
<1>1. mem \in Mem /\ usb \in BOOLEAN /\ IsFile(file[p])
  BY DEF DataInv, BrowserInv
<1> DEFINE b == heap'.fmcb
<1>2. ~(Block \subseteq heap.live \ {heap.fmcb}) /\ heap' = Renewed(heap)
  BY DEF loadSucceeds, loadFails
<1>3. b \in Block
  BY <1>2, RenewedHolds
<1>4. CASE loadSucceeds(p)
  <2>1. PICK lines \in {file[p].lines, NoFile.lines} :
           LET m == [mem EXCEPT ![b] = Read(lines, @)]
           IN IF p = "mass" THEN loadUsbModules(m, heap'.live) /\ usb' ELSE mem' = m /\ usb' = usb
    BY <1>4, Zenon DEF loadSucceeds
  <2>2. IsLines(file[p].lines)
    BY <1>1 DEF IsFile, IsLines
  <2>3. IsLines(NoFile.lines)
    BY DEF NoFile, IsLines
  <2>4. mem[b] \in Cfg
    BY <1>1, <1>3 DEF Mem
  <2> DEFINE c == Read(lines, mem[b])
             m == [mem EXCEPT ![b] = c]
  <2>5. c \in Cfg
    BY <2>1, <2>2, <2>3, <2>4, ReadTyped
  <2>6. m \in Mem
    <3> HIDE DEF c, b
    <3> QED
      BY <1>1, <2>5, BlockSet
  <2>7. IF p = "mass" THEN loadUsbModules(m, heap'.live) ELSE mem' = m /\ usb' = usb
    BY <1>1, <1>3, <2>1 DEF Mem
  <2> HIDE DEF m
  <2> QED
    BY <1>1, <2>6, <2>7, DriversLoaded
<1>5. CASE loadFails(p)
  <2> DEFINE m == [mem EXCEPT ![b] = Defaults]
  <2>1. IF p = "mass" THEN loadUsbModules(m, heap'.live) ELSE mem' = m /\ usb' = usb
    BY <1>5 DEF loadFails
  <2>2. m \in Mem
    BY <1>1, BlockSet, CnfAssumption
  <2> HIDE DEF m
  <2> QED
    BY <1>1, <2>1, <2>2, DriversLoaded
<1> QED
  BY <1>4, <1>5

LEMMA SaveTyped ==
  ASSUME Types, BrowserInv, DataInv, NEW p \in Port, saveFmcbCNF(p)
  PROVE  usb' \in BOOLEAN /\ mem' \in Mem /\ \A q \in Port : IsFile(file'[q])
<1>1. mem \in Mem /\ usb \in BOOLEAN /\ (\A q \in Port : IsFile(file[q])) /\ file = [q \in Port |-> file[q]]
  BY DEF DataInv, BrowserInv, Types
<1>2. usb' \in BOOLEAN /\ mem' \in Mem
  <2>1. IF p = "mass" THEN loadUsbModules(mem, heap.live) ELSE UNCHANGED <<mem, usb>>
    BY DEF saveFmcbCNF
  <2> QED
    BY <1>1, <2>1, DriversLoaded
<1>3. CASE file' = file
  BY <1>1, <1>2, <1>3
<1>4. ASSUME NEW lines \in {Stored(Current)} \cup UNION {Torn(Current, k) : k \in TornAt},
             file' = [file EXCEPT ![p] = [there |-> TRUE, headed |-> TRUE, lines |-> lines]]
      PROVE  \A q \in Port : IsFile(file'[q])
  <2> DEFINE f == [there |-> TRUE, headed |-> TRUE, lines |-> lines]
  <2>1. heap.fmcb \in {Null} \cup Block
    BY DEF Types
  <2>2. IsLines(lines)
    BY <1>1, <1>4, <2>1, CurrentTyped, SavedTyped
  <2>3. IsFile(f)
    BY <2>2 DEF IsFile, IsLines
  <2> HIDE DEF f
  <2>4. \A q \in Port : file'[q] = IF q = p THEN f ELSE file[q]
    BY <1>1, <1>4 DEF f
  <2> QED
    BY <1>1, <2>3, <2>4
<1>5. \/ file' = file
      \/ \E lines \in {Stored(Current)} \cup UNION {Torn(Current, k) : k \in TornAt} :
           file' = [file EXCEPT ![p] = [there |-> TRUE, headed |-> TRUE, lines |-> lines]]
  BY Zenon DEF saveFmcbCNF
<1> QED
  BY <1>2, <1>3, <1>4, <1>5

LEMMA NormalisedTyped ==
  ASSUME NEW v \in Value, NEW any \in BOOLEAN
  PROVE  Normalised(v, any) \in Value
<1> DEFINE w == [i \in DOMAIN v |-> IF i = 1 /\ any THEN "mc?:"
                             ELSE IF i = 2 /\ v[i] \in DataFolder THEN "B?DATA-SYSTEM" ELSE v[i]]
<1>1. {"mc?:", "B?DATA-SYSTEM"} \subseteq Name
  BY Words
<1>2. Normalised(v, any) \in {v, w}
  BY DEF Normalised
<1>3. w \in Value
  <2>1. \A i \in DOMAIN v : v[i] \in Name
    BY DEF Value
  <2>2. \A i \in DOMAIN v : w[i] \in Name
    BY <1>1, <2>1
  <2>3. DOMAIN v = 1..Len(v) /\ Len(v) \in Nat
    BY DEF Value
  <2>4. DOMAIN w = DOMAIN v /\ w = [i \in DOMAIN w |-> w[i]]
    OBVIOUS
  <2> HIDE DEF w
  <2>5. w \in [1..Len(v) -> Name]
    BY <2>2, <2>3, <2>4
  <2> QED
    BY <2>3, <2>5 DEF Value
<1> HIDE DEF w
<1> QED
  BY <1>2, <1>3

TypedInv == IInv /\ BrowserInv /\ DataInv
BrowserKept == browse' = browse /\ lastDir' = lastDir /\ usb' \in BOOLEAN

LEMMA BrowserStays ==
  ASSUME BrowserInv, BrowserKept
  PROVE  BrowserInv'
BY DEF BrowserInv, BrowserKept, CursorIn

LEMMA LoadingTyped ==
  ASSUME TypedInv, Start \/ LoadCnf \/ SetAllDefault \/ SaveCnf
  PROVE  BrowserInv' /\ DataInv'
<1>1. /\ mem \in Mem /\ clip \in ItemClip /\ (\A p \in Port : IsFile(file[p]))
      /\ usb \in BOOLEAN /\ Types /\ BrowserInv /\ DataInv
  BY DEF TypedInv, BrowserInv, DataInv, IInv
<1>2. CASE Start
  <2> DEFINE p == <<"mass", "mc0", "mc1">>[ui.col + 1]
  <2>1. loadSucceeds(p) \/ loadFails(p)
    BY <1>2 DEF Start
  <2>2. p \in Port
    <3>1. ui.at = "start" /\ ui.col \in 0..2
      BY <1>1, <1>2 DEF Start, Types
    <3> QED
      BY <3>1 DEF Port
  <2> HIDE DEF p
  <2>3. usb' \in BOOLEAN /\ mem' \in Mem
    BY <1>1, <2>1, <2>2, LoadTyped
  <2>4. UNCHANGED <<clip, file, browse, lastDir>>
    BY <1>2 DEF Start
  <2> QED
    BY <1>1, <2>3, <2>4, BrowserStays DEF BrowserKept, DataInv
<1>3. CASE LoadCnf
  <2>1. PICK p \in Used : loadSucceeds(p) \/ loadFails(p)
    BY <1>3 DEF LoadCnf
  <2>2. usb' \in BOOLEAN /\ mem' \in Mem
    BY <1>1, <2>1, LoadTyped, ConfiguratorAssumption
  <2>3. UNCHANGED <<clip, file, browse, lastDir>>
    BY <1>3 DEF LoadCnf
  <2> QED
    BY <1>1, <2>2, <2>3, BrowserStays DEF BrowserKept, DataInv
<1>4. CASE SetAllDefault
  <2>1. /\ mem' = [mem EXCEPT ![heap'.fmcb] = Defaults]
        /\ UNCHANGED <<clip, file, browse, lastDir, usb>>
    BY <1>4 DEF SetAllDefault, browserVars
  <2>2. mem' \in Mem
    BY <1>1, <2>1, BlockSet, CnfAssumption
  <2> QED
    BY <1>1, <2>1, <2>2, BrowserStays DEF BrowserKept, DataInv
<1>5. CASE SaveCnf
  <2>1. PICK p \in Used : saveFmcbCNF(p)
    BY <1>5 DEF SaveCnf
  <2>2. usb' \in BOOLEAN /\ mem' \in Mem /\ \A q \in Port : IsFile(file'[q])
    BY <1>1, <2>1, SaveTyped, ConfiguratorAssumption
  <2>3. UNCHANGED <<clip, browse, lastDir>>
    BY <1>5 DEF SaveCnf
  <2> QED
    BY <1>1, <2>2, <2>3, BrowserStays DEF BrowserKept, DataInv
<1> QED
  BY <1>2, <1>3, <1>4, <1>5

LEMMA ItemOfTyped ==
  ASSUME NEW c \in Cfg, NEW i \in Items
  PROVE  ItemOf(c, i) \in ItemClip
<1>1. \A f \in 0..3 : <<"item", i, f>> \in Setting
  BY DEF Setting, ItemLine
<1>2. \A f \in 0..3 : c[<<"item", i, f>>] \in Value
  BY <1>1 DEF Cfg
<1> QED
  BY <1>2 DEF ItemOf, ItemClip

LEMMA ClipTyped == JunkItem \in ItemClip /\ [f \in 0..3 |-> Empty] \in ItemClip
BY Words DEF JunkItem, ItemClip

LEMMA MovingTyped ==
  ASSUME TypedInv, EnterEditor \/ EnterNested \/ LeaveEditor \/ ChooseItem \/ CopyItem
  PROVE  BrowserInv' /\ DataInv'
<1>1. /\ mem \in Mem /\ clip \in ItemClip /\ (\A p \in Port : IsFile(file[p]))
      /\ usb \in BOOLEAN /\ BrowserInv /\ heap.fmcb \in {Null} \cup Block /\ osd_item \in Item
  BY DEF TypedInv, BrowserInv, DataInv, IInv, Types
<1>2. UNCHANGED <<browse, lastDir, usb, file>>
  BY DEF EnterEditor, EnterNested, LeaveEditor, ChooseItem, CopyItem, Quiet, browserVars
<1>3. BrowserInv'
  BY <1>1, <1>2, BrowserStays DEF BrowserKept
<1>4. Current \in Cfg
  BY <1>1, CurrentTyped
<1>5. mem' \in Mem
  <2>1. ASSUME CopySettings PROVE mem' \in Mem
    <3>1. PICK b : mem' = [mem EXCEPT ![b] = Current]
      BY <2>1 DEF CopySettings
    <3> QED
      BY <1>1, <1>4, <3>1, BlockSet
  <2>2. CASE EnterEditor \/ EnterNested
    BY <2>1, <2>2 DEF EnterEditor, EnterNested
  <2>3. CASE LeaveEditor \/ ChooseItem \/ CopyItem
    <3>1. mem' = mem
      BY <2>3 DEF LeaveEditor, FreeSettings, ChooseItem, CopyItem
    <3> QED
      BY <1>1, <3>1
  <2> QED
    BY <2>2, <2>3
<1>6. clip' \in ItemClip
  <2>1. osd_item + 1 \in Items
    BY <1>1, ConfiguratorAssumption DEF Item
  <2>2. ItemOf(Current, osd_item + 1) \in ItemClip
    BY <1>4, <2>1, ItemOfTyped
  <2>3. clip' \in {clip, JunkItem, ItemOf(Current, osd_item + 1)}
    <3>1. CASE EnterEditor
      BY <3>1 DEF EnterEditor
    <3>2. CASE EnterNested
      BY <3>2 DEF EnterNested, Quiet
    <3>3. CASE LeaveEditor
      BY <3>3 DEF LeaveEditor
    <3>4. CASE ChooseItem \/ CopyItem
      BY <3>4 DEF ChooseItem, CopyItem
    <3> QED
      BY <3>1, <3>2, <3>3, <3>4
  <2> QED
    BY <1>1, <2>2, <2>3, ClipTyped
<1> QED
  BY <1>1, <1>2, <1>3, <1>5, <1>6 DEF DataInv

LEMMA EditingTyped ==
  ASSUME TypedInv,
         \/ ChangeMenuOption \/ ClearPath \/ SetSpecial \/ TypeName \/ ChangeScrollOption
         \/ ChangeOsdOption \/ ClearItem \/ PasteItem
  PROVE  BrowserInv' /\ DataInv'
<1>1. /\ mem \in Mem /\ clip \in ItemClip /\ (\A p \in Port : IsFile(file[p]))
      /\ usb \in BOOLEAN /\ BrowserInv /\ heap.fmcb \in {Null} \cup Block
  BY DEF TypedInv, BrowserInv, DataInv, IInv, Types
<1>2. UNCHANGED <<browse, lastDir, usb, file, clip>>
  BY DEF ChangeMenuOption, ClearPath, SetSpecial, TypeName, ChangeScrollOption, ChangeOsdOption,
    ChangeOption, ClearItem, PasteItem, Unmoved, Quiet, browserVars
<1>3. BrowserInv'
  BY <1>1, <1>2, BrowserStays DEF BrowserKept
<1>4. mem' \in Mem
  <2>1. CASE ClearItem \/ PasteItem
    <3>1. \E fields \in ItemClip : SetItem(osd_item + 1, fields)
      BY <1>1, <2>1, ClipTyped DEF ClearItem, PasteItem
    <3> QED
      BY <1>1, <3>1, ItemTyped
  <2>2. CASE ClearPath \/ TypeName \/ ChangeMenuOption \/ ChangeScrollOption \/ ChangeOsdOption
    <3>1. \E n, v : v \in Value /\ Set(n, v)
      BY <2>2, Words, ConfiguratorAssumption
        DEF ClearPath, TypeName, ChangeMenuOption, ChangeScrollOption, ChangeOsdOption, ChangeOption
    <3> QED
      BY <1>1, <3>1, LineTyped
  <2>3. CASE SetSpecial
    <3>1. PICK n : Set(n, Special(Current[n]))
      BY <2>3 DEF SetSpecial
    <3>2. Special(Current[n]) \in Value
      BY Words DEF Special
    <3> QED
      BY <1>1, <3>1, <3>2, LineTyped
  <2> QED
    BY <2>1, <2>2, <2>3
<1> QED
  BY <1>1, <1>2, <1>3, <1>4 DEF DataInv

LEMMA BrowsingTyped ==
  ASSUME TypedInv, Browse \/ WalkFolders \/ ChooseFile \/ CancelBrowse
  PROVE  BrowserInv' /\ DataInv'
<1>1. /\ mem \in Mem /\ clip \in ItemClip /\ (\A p \in Port : IsFile(file[p]))
      /\ BrowserInv /\ heap.fmcb \in {Null} \cup Block
  BY DEF TypedInv, DataInv, IInv, Types
<1>2. UNCHANGED <<clip, file>>
  BY DEF Browse, WalkFolders, ChooseFile, CancelBrowse, Browsed
<1>3. ASSUME NEW n, NEW v, n \in Setting => v \in Value, Browsed(n, v) PROVE mem' \in Mem
  <2>1. PICK any \in BOOLEAN : Set(n, Normalised(v, any))
    BY <1>3 DEF Browsed
  <2>2. n \in Setting => Normalised(v, any) \in Value
    BY <1>3, NormalisedTyped
  <2> QED
    BY <1>1, <2>1, <2>2, LineTyped
<1>4. CASE Browse \/ WalkFolders
  <2>1. BrowserInv'
    BY <1>1, <1>4, OpenKeeps, WalkKeeps DEF Browse, WalkFolders
  <2>2. mem' \in LoadedOver(mem, heap.live) \cup {mem}
    BY <1>4 DEF Browse, WalkFolders
  <2>3. mem' \in Mem
    BY <1>1, <2>2, LoadedOverTyped
  <2> QED
    BY <1>1, <1>2, <2>1, <2>3 DEF DataInv
<1>5. CASE ChooseFile
  <2>1. PICK n \in Slots : Choose /\ Browsed(n, Chosen)
    BY <1>5 DEF ChooseFile
  <2>2. BrowserInv' /\ Chosen \in Path
    BY <1>1, <2>1, ChooseKeeps
  <2>3. Chosen \in Value
    BY <2>2, ConfiguratorAssumption DEF Path, Value
  <2>4. mem' \in Mem
    BY <1>3, <2>1, <2>3
  <2> QED
    BY <1>1, <1>2, <2>2, <2>4 DEF DataInv
<1>6. CASE CancelBrowse
  <2>1. PICK n \in Slots : Cancel /\ Browsed(n, Current[n])
    BY <1>6 DEF CancelBrowse
  <2>2. BrowserInv'
    BY <1>1, <2>1, CancelKeeps
  <2>3. n \in Setting => Current[n] \in Value
    BY <1>1, CurrentTyped DEF Cfg
  <2>4. mem' \in Mem
    BY <1>3, <2>1, <2>3
  <2> QED
    BY <1>1, <1>2, <2>2, <2>4 DEF DataInv
<1> QED
  BY <1>4, <1>5, <1>6

LEMMA TypedAtInit ==
  ASSUME Init
  PROVE  TypedInv
<1>1. IInv
  BY InitImplies
<1>2. BrowserInv
  <2>1. browse = Closed /\ lastDir = <<>> /\ usb = FALSE
    BY DEF Init, BrowserInit
  <2> QED
    BY <2>1, ClosedIsBrowser DEF BrowserInv
<1>3. DataInv
  <2>1. JunkCfg \in Cfg
    BY Words DEF JunkCfg, Cfg
  <2>2. mem \in Mem
    BY <2>1 DEF Init, Mem
  <2>3. clip \in ItemClip
    BY ClipTyped DEF Init
  <2>4. \A p \in Port : IsFile(file[p])
    BY ConfiguratorAssumption DEF Init
  <2> QED
    BY <2>2, <2>3, <2>4 DEF DataInv
<1> QED
  BY <1>1, <1>2, <1>3 DEF TypedInv

LEMMA TypedStep ==
  ASSUME TypedInv, [Next]_vars
  PROVE  TypedInv'
<1>1. IInv'
  BY StepImplies DEF TypedInv
<1>2. CASE Start \/ LoadCnf \/ SetAllDefault \/ SaveCnf
  BY <1>1, <1>2, LoadingTyped DEF TypedInv
<1>3. CASE EnterEditor \/ EnterNested \/ LeaveEditor \/ ChooseItem \/ CopyItem
  BY <1>1, <1>3, MovingTyped DEF TypedInv
<1>4. CASE \/ ChangeMenuOption \/ ClearPath \/ SetSpecial \/ TypeName \/ ChangeScrollOption
           \/ ChangeOsdOption \/ ClearItem \/ PasteItem
  BY <1>1, <1>4, EditingTyped DEF TypedInv
<1>5. CASE Browse \/ WalkFolders \/ ChooseFile \/ CancelBrowse
  BY <1>1, <1>5, BrowsingTyped DEF TypedInv
<1>6. CASE UNCHANGED vars
  <2>1. UNCHANGED <<browse, lastDir, usb, mem, clip, file>>
    BY <1>6 DEF vars, browserVars, confVars
  <2>2. BrowserInv'
    BY <2>1, BrowserStays DEF TypedInv, BrowserKept, BrowserInv
  <2>3. DataInv'
    BY <2>1 DEF TypedInv, DataInv
  <2> QED
    BY <1>1, <2>2, <2>3 DEF TypedInv
<1> QED
  BY <1>2, <1>3, <1>4, <1>5, <1>6 DEF Next

LEMMA TypedImplies ==
  ASSUME TypedInv
  PROVE  TypeOK /\ CursorShown /\ ListInOrder
<1>1. BrowserTypeOK /\ CursorShown /\ ListInOrder
  BY BrowserInvImplies DEF TypedInv
<1>2. TypeOK
  BY <1>1 DEF TypeOK, TypedInv, IInv, Types, DataInv, Mem
<1> QED
  BY <1>1, <1>2

LEMMA TypedAlways == Spec => []TypedInv
<1>1. Init => TypedInv
  BY TypedAtInit
<1>2. TypedInv /\ [Next]_vars => TypedInv'
  BY TypedStep
<1> QED
  BY <1>1, <1>2, PTL DEF Spec

(* Every block of memory holds settings, whatever was freed, loaded over or *)
(* pasted, every file what a parser can read, and the browser a folder that *)
(* is there or stands in one (TypeOK; config.c, filer.c).                   *)
THEOREM TypeCorrect == Spec => []TypeOK
BY TypedAlways, TypedImplies, PTL

(* The selected line exists and is on a page that is as full as it can be   *)
(* (CursorShown; the clamps of getFilePath), for any folders and page.      *)
THEOREM CursorStays == Spec => []CursorShown
BY TypedAlways, TypedImplies, PTL

(* The list is the folder with its filter, complete and in order (ListInOrder;*)
(* setFileList and sort), however many entries it has.                      *)
THEOREM ListsInOrder == Spec => []ListInOrder
BY TypedAlways, TypedImplies, PTL

------------------------------------------------------------------------------
(* The grid of the screen of OSDSYS options: where the cursor goes from    *)
(* each row, and how soon it gets anywhere.                                *)

LEMMA GridIs ==
  /\ MAX_S = 26 /\ Row = 0..26
  /\ Sel = {9, 10, 11, 12, 13} /\ Unsel = {14, 15, 16, 17, 18}
  /\ Enters = {20, 21, 22} /\ Versions = {23, 24, 25}
BY DEF MAX_S, Row, SEL_COL, UNSEL_COL, ENTER, VERSION, Sel, Unsel, Enters, Versions

LEMMA GroupIs ==
  ASSUME NEW g \in Groups, NEW s \in g
  PROVE  (CHOOSE h \in Groups : s \in h) = g /\ (\E h \in Groups : s \in h)
<1>1. \A h \in Groups : s \in h => h = g
  <2>1. g \in {Sel, Unsel, Enters, Versions}
    BY DEF Groups
  <2> QED
    BY <2>1, GridIs DEF Groups
<1> QED
  BY <1>1

LEMMA EndsOfGroups ==
  /\ First(Sel) = 9 /\ First(Unsel) = 14 /\ First(Enters) = 20 /\ First(Versions) = 23
  /\ Final(Sel) = 13 /\ Final(Unsel) = 18 /\ Final(Enters) = 22 /\ Final(Versions) = 25
<1>1. First(Sel) = 9 /\ Final(Sel) = 13
  BY GridIs DEF First, Final
<1>2. First(Unsel) = 14 /\ Final(Unsel) = 18
  BY GridIs DEF First, Final
<1>3. First(Enters) = 20 /\ Final(Enters) = 22
  BY GridIs DEF First, Final
<1>4. First(Versions) = 23 /\ Final(Versions) = 25
  BY GridIs DEF First, Final
<1> QED
  BY <1>1, <1>2, <1>3, <1>4

LEMMA DownIs ==
  ASSUME NEW s \in Row
  PROVE  DownFrom(s) = IF s \in Sel THEN 14 ELSE IF s \in Unsel THEN 19 ELSE IF s \in Enters THEN 23
                       ELSE IF s \in Versions THEN 26 ELSE IF s = 26 THEN 0 ELSE s + 1
<1>1. ASSUME NEW g \in Groups, s \in g PROVE DownFrom(s) = 1 + Final(g)
  BY <1>1, GroupIs DEF DownFrom
<1>2. CASE \E g \in Groups : s \in g
  <2>1. PICK g \in Groups : s \in g
    BY <1>2
  <2>2. DownFrom(s) = 1 + Final(g)
    BY <1>1, <2>1
  <2>3. g \in {Sel, Unsel, Enters, Versions}
    BY DEF Groups
  <2> QED
    BY <2>1, <2>2, <2>3, GridIs, EndsOfGroups
<1>3. CASE ~\E g \in Groups : s \in g
  <2>1. s \notin Sel /\ s \notin Unsel /\ s \notin Enters /\ s \notin Versions
    BY <1>3 DEF Groups
  <2> QED
    BY <1>3, <2>1, GridIs DEF DownFrom
<1> QED
  BY <1>2, <1>3

LEMMA RightIs ==
  ASSUME NEW s \in Row
  PROVE  /\ s \in {9, 10, 11, 12, 14, 15, 16, 17, 20, 21, 23, 24} => RightFrom(s) = s + 1
         /\ RightFrom(s) \in Row
<1>1. ASSUME NEW g \in Groups, s \in g PROVE RightFrom(s) = IF s = Final(g) THEN s ELSE s + 1
  BY <1>1, GroupIs DEF RightFrom
<1>2. CASE \E g \in Groups : s \in g
  <2>1. PICK g \in Groups : s \in g
    BY <1>2
  <2>2. RightFrom(s) = IF s = Final(g) THEN s ELSE s + 1
    BY <1>1, <2>1
  <2>3. g \in {Sel, Unsel, Enters, Versions}
    BY DEF Groups
  <2> QED
    BY <2>1, <2>2, <2>3, GridIs, EndsOfGroups
<1>3. CASE ~\E g \in Groups : s \in g
  <2>1. s \notin Sel /\ s \notin Unsel /\ s \notin Enters /\ s \notin Versions
    BY <1>3 DEF Groups
  <2>2. RightFrom(s) \in {s + 5, UNSEL_COL, UNSEL_COL + 5, VERSION, VERSION + 3, MAX_S}
        /\ (RightFrom(s) = s + 5 => s + 5 \in Row)
    BY <1>3, GridIs DEF RightFrom, UNSEL_COL, VERSION
  <2> QED
    BY <2>1, <2>2, GridIs DEF UNSEL_COL, VERSION
<1> QED
  BY <1>2, <1>3

LEMMA UpIs ==
  ASSUME NEW s \in Row
  PROVE  /\ UpFrom(s) \in Row
         /\ UpFrom(0) = 26 /\ UpFrom(26) = 23 /\ UpFrom(23) = 20
         /\ UpFrom(20) = 19 /\ UpFrom(19) = 14 /\ UpFrom(14) = 9
BY GridIs DEF UpFrom, SEL_COL, UNSEL_COL, ENTER, VERSION

LEMMA LeftOnGrid ==
  ASSUME NEW s \in Row
  PROVE  LeftFrom(s) \in Row
<1>1. CASE \E g \in Groups : s \in g /\ s # First(g)
  <2>1. LeftFrom(s) = s - 1 /\ s # 0
    <3>1. PICK g \in Groups : s \in g /\ s # First(g)
      BY <1>1
    <3>2. g \in {Sel, Unsel, Enters, Versions}
      BY DEF Groups
    <3> QED
      BY <1>1, <3>1, <3>2, GridIs DEF LeftFrom
  <2> QED
    BY <2>1, GridIs
<1>2. CASE ~\E g \in Groups : s \in g /\ s # First(g)
  <2> DEFINE t == s - 5
  <2>1. CASE s \in {SEL_COL, UNSEL_COL, ENTER - 1, ENTER, VERSION}
    BY <1>2, <2>1, GridIs DEF LeftFrom, SEL_COL, UNSEL_COL, ENTER, VERSION
  <2>2. CASE s \notin {SEL_COL, UNSEL_COL, ENTER - 1, ENTER, VERSION}
    <3>1. LeftFrom(s) \in {7, 5, AtLeastZero(s - 5)}
      BY <1>2, <2>2 DEF LeftFrom
    <3> QED
      BY <3>1, GridIs DEF AtLeastZero
  <2> QED
    BY <2>1, <2>2
<1> QED
  BY <1>1, <1>2

LEMMA MovesAre ==
  ASSUME NEW s \in Row
  PROVE  /\ Moves(s) \subseteq Row
         /\ UpFrom(s) \in Moves(s) /\ DownFrom(s) \in Moves(s)
         /\ s # 1 => RightFrom(s) \in Moves(s)
<1>1. UpFrom(s) \in Row /\ LeftFrom(s) \in Row /\ RightFrom(s) \in Row
  BY UpIs, LeftOnGrid, RightIs
<1>2. DownFrom(s) \in Row
  BY DownIs, GridIs
<1> QED
  BY <1>1, <1>2 DEF Moves

(* The recursion of Reached, solved.                                       *)
LEMMA ReachedIs ==
  \A s \in Row :
    /\ Reached[0][s] = {s}
    /\ \A n \in 0..25 : Reached[n + 1][s] = Further(Reached[n][s])
<1> DEFINE D == 0..MAX_S
           Steps(f) == f = [n \in D |-> [s \in Row |-> IF n = 0 THEN {s} ELSE Further(f[n - 1][s])]]
           m == [n \in D |-> n]
           T == [n \in D |-> [Row -> SUBSET Row]]
           H == [x \in D \X Family(D, T) |->
                   [s \in Row |-> IF x[1] = 0 THEN {s} ELSE Further(x[2][x[1] - 1][s])]]
<1>1. D \subseteq Nat /\ 0 \in D /\ (\A n \in D : n # 0 => n - 1 \in D /\ n - 1 < n)
      /\ (\A n \in 0..25 : n \in D /\ n + 1 \in D /\ n + 1 # 0 /\ (n + 1) - 1 = n)
  BY GridIs
<1>2. \A R \in SUBSET Row : Further(R) \in SUBSET Row
  BY MovesAre DEF Further
<1>3. \A n \in D : \A g \in Family(D, T) :
        H[<<n, g>>] = [s \in Row |-> IF n = 0 THEN {s} ELSE Further(g[n - 1][s])]
  <2> HIDE DEF D, T
  <2> QED
    OBVIOUS
<1>4. \A g \in Family(D, T) : g = [n \in D |-> g[n]] /\ \A n \in D : g[n] \in [Row -> SUBSET Row]
  <2>1. \A n \in D : T[n] = [Row -> SUBSET Row]
    OBVIOUS
  <2> HIDE DEF D, T
  <2> QED
    BY <2>1, OfFamily
<1>5. m \in [D -> Nat] /\ (\A n \in D : m[n] = n) /\ \A n \in D : T[n] = [Row -> SUBSET Row]
  BY <1>1
<1> HIDE DEF D, m, T, H
<1>6. RecursionOn(D, m, T, H)
  <2>1. \A n \in D : \A g \in Family(D, T) : H[<<n, g>>] \in T[n]
    <3> SUFFICES ASSUME NEW n \in D, NEW g \in Family(D, T) PROVE H[<<n, g>>] \in [Row -> SUBSET Row]
      BY <1>5
    <3>1. \A s \in Row : (IF n = 0 THEN {s} ELSE Further(g[n - 1][s])) \in SUBSET Row
      BY <1>1, <1>2, <1>4
    <3>2. H[<<n, g>>] = [s \in Row |-> IF n = 0 THEN {s} ELSE Further(g[n - 1][s])]
      BY <1>3
    <3> QED
      BY <3>1, <3>2
  <2>2. \A n \in D : \A g, h \in Family(D, T) : Agree(D, m, n, g, h) => H[<<n, g>>] = H[<<n, h>>]
    <3> SUFFICES ASSUME NEW n \in D, NEW g \in Family(D, T), NEW h \in Family(D, T), Agree(D, m, n, g, h)
                 PROVE  H[<<n, g>>] = H[<<n, h>>]
      OBVIOUS
    <3>1. n # 0 => g[n - 1] = h[n - 1]
      BY <1>1, <1>5 DEF Agree
    <3>2. /\ H[<<n, g>>] = [s \in Row |-> IF n = 0 THEN {s} ELSE Further(g[n - 1][s])]
          /\ H[<<n, h>>] = [s \in Row |-> IF n = 0 THEN {s} ELSE Further(h[n - 1][s])]
      BY <1>3
    <3> QED
      BY <3>1, <3>2
  <2>3. \A n \in D : T[n] # {}
    <3>1. [s \in Row |-> {}] \in [Row -> SUBSET Row]
      OBVIOUS
    <3> QED
      BY <1>5, <3>1
  <2> QED
    BY <1>5, <2>1, <2>2, <2>3 DEF RecursionOn
<1>7. \E f : Steps(f)
  <2>1. PICK g \in Family(D, T) : SolvedBy(D, H, g)
    BY <1>6, RecursiveFunction, Zenon
  <2>2. \A n \in D : g[n] = [s \in Row |-> IF n = 0 THEN {s} ELSE Further(g[n - 1][s])]
    BY <1>3, <2>1 DEF SolvedBy
  <2>3. g = [n \in D |-> g[n]]
    BY <1>4
  <2>4. g = [n \in D |-> [s \in Row |-> IF n = 0 THEN {s} ELSE Further(g[n - 1][s])]]
    BY <2>2, <2>3
  <2> QED
    BY <2>4
<1>8. Reached = CHOOSE f : Steps(f)
  BY Zenon DEF Reached, D
<1>9. Steps(Reached)
  BY <1>7, <1>8
<1>10. \A n \in D : Reached[n] = [s \in Row |-> IF n = 0 THEN {s} ELSE Further(Reached[n - 1][s])]
  BY <1>9
<1> HIDE DEF Steps
<1>11. SUFFICES ASSUME NEW s \in Row
                PROVE  /\ Reached[0][s] = {s}
                       /\ \A n \in 0..25 : Reached[n + 1][s] = Further(Reached[n][s])
  OBVIOUS
<1>12. \A n \in D : Reached[n][s] = IF n = 0 THEN {s} ELSE Further(Reached[n - 1][s])
  BY <1>10
<1>13. ASSUME NEW n \in 0..25 PROVE Reached[n + 1][s] = Further(Reached[n][s])
  <2>1. n + 1 \in D /\ n + 1 # 0 /\ (n + 1) - 1 = n
    BY <1>1
  <2> QED
    BY <1>12, <2>1
<1> QED
  BY <1>1, <1>12, <1>13

LEMMA ReachedOnGrid ==
  ASSUME NEW s \in Row, NEW n \in 0..26
  PROVE  Reached[n][s] \subseteq Row
<1> DEFINE P == {k \in 0..26 : Reached[k][s] \subseteq Row}
<1>1. 0 \in P
  BY ReachedIs
<1>2. \A k \in 0..(26 - 1) : k \in P => k + 1 \in P
  <2> SUFFICES ASSUME NEW k \in 0..25, k \in P PROVE k + 1 \in P
    OBVIOUS
  <2>1. Reached[k + 1][s] = Further(Reached[k][s])
    BY ReachedIs
  <2> QED
    BY <2>1, MovesAre DEF Further
<1>3. \A k \in 0..26 : k \in P
  <2> HIDE DEF P
  <2> QED
    BY <1>1, <1>2, CountsUp
<1> QED
  BY <1>3

(* A move further, and what was reached stays so.                          *)
LEMMA OneMove ==
  ASSUME NEW s \in Row, NEW n \in 0..25
  PROVE  /\ Reached[n][s] \subseteq Reached[n + 1][s]
         /\ \A r \in Reached[n][s] : Moves(r) \subseteq Reached[n + 1][s]
<1>1. Reached[n + 1][s] = Further(Reached[n][s])
  BY ReachedIs
<1>2. Reached[n][s] \subseteq Row
  BY ReachedOnGrid
<1> QED
  BY <1>1, <1>2 DEF Further

(* How many moves down it is from a row to row 0, and a way of at most ten *)
(* moves from row 0 to it: up over the groups, then right or down.         *)
MovesDown(s) ==
  IF s = 0 THEN 0 ELSE IF s = 26 THEN 1 ELSE IF s \in Versions THEN 2 ELSE IF s \in Enters THEN 3
  ELSE IF s = 19 THEN 4 ELSE IF s \in Unsel THEN 5 ELSE IF s \in Sel THEN 6 ELSE 15 - s
MovesFromTop(s) ==
  IF s <= 8 THEN s ELSE IF s \in Sel THEN s - 3 ELSE IF s \in Unsel THEN s - 9 ELSE IF s = 19 THEN 4
  ELSE IF s \in Enters THEN s - 17 ELSE IF s \in Versions THEN s - 21 ELSE 1

LEMMA DownIsShorter ==
  ASSUME NEW s \in Row
  PROVE  /\ MovesDown(s) \in 0..14
         /\ s # 0 => MovesDown(DownFrom(s)) = MovesDown(s) - 1
         /\ s = 0 <=> MovesDown(s) = 0
<1>1. s \in 0..26 /\ DownFrom(s) \in 0..26
  BY DownIs, GridIs
<1> QED
  BY <1>1, DownIs, GridIs DEF MovesDown

LEMMA RowBefore ==
  ASSUME NEW s \in Row, s # 0
  PROVE  \E r \in Row : MovesFromTop(r) = MovesFromTop(s) - 1 /\ s \in Moves(r)
<1>1. CASE s \in 1..8
  <2>1. s - 1 \in Row /\ DownFrom(s - 1) = s /\ MovesFromTop(s - 1) = MovesFromTop(s) - 1
    BY <1>1, DownIs, GridIs DEF MovesFromTop
  <2> QED
    BY <2>1, MovesAre
<1>2. CASE s \in {10, 11, 12, 13, 15, 16, 17, 18, 21, 22, 24, 25}
  <2>1. s - 1 \in Row /\ s - 1 # 1 /\ RightFrom(s - 1) = s /\ MovesFromTop(s - 1) = MovesFromTop(s) - 1
    BY <1>2, RightIs, GridIs DEF MovesFromTop
  <2> QED
    BY <2>1, MovesAre
<1>3. CASE s \in {9, 14, 19, 20, 23, 26}
  <2>1. PICK r \in {14, 19, 20, 23, 26, 0} : UpFrom(r) = s /\ MovesFromTop(r) = MovesFromTop(s) - 1
    BY <1>3, UpIs, GridIs DEF MovesFromTop
  <2> QED
    BY <2>1, MovesAre, GridIs
<1> QED
  BY <1>1, <1>2, <1>3, GridIs

(* From any row down to row 0 in 14 moves.                                 *)
LEMMA ToTop ==
  ASSUME NEW s \in Row
  PROVE  0 \in Reached[14][s]
<1> DEFINE P == {k \in 0..14 : \E r \in Reached[k][s] : MovesDown(r) <= 14 - k}
<1>1. 0 \in P
  BY ReachedIs, DownIsShorter
<1>2. ASSUME NEW k \in 0..(14 - 1), k \in P PROVE k + 1 \in P
  <2>1. k \in 0..25 /\ k \in 0..26 /\ k + 1 \in 0..14 /\ 14 - (k + 1) = (14 - k) - 1 /\ 14 - k \in 1..14
    OBVIOUS
  <2>2. PICK r \in Reached[k][s] : MovesDown(r) <= 14 - k
    BY <1>2
  <2>3. r \in Row /\ r \in Reached[k + 1][s] /\ DownFrom(r) \in Reached[k + 1][s]
    BY <2>1, OneMove, ReachedOnGrid, MovesAre
  <2>4. MovesDown(r) \in 0..14 /\ (r # 0 => MovesDown(DownFrom(r)) = MovesDown(r) - 1) /\ (r = 0 => MovesDown(r) = 0)
    BY <2>3, DownIsShorter
  <2>5. \E q \in Reached[k + 1][s] : MovesDown(q) <= (14 - k) - 1
    BY <2>1, <2>2, <2>3, <2>4
  <2> QED
    BY <2>1, <2>5
<1>3. \A k \in 0..14 : k \in P
  <2> HIDE DEF P
  <2> QED
    BY <1>1, <1>2, CountsUp
<1>4. PICK r \in Reached[14][s] : MovesDown(r) <= 14 - 14
  BY <1>3
<1>5. r \in Row
  BY ReachedOnGrid
<1> QED
  BY <1>4, <1>5, DownIsShorter

(* From row 0 to any row in ten moves more.                                *)
LEMMA FromTop ==
  ASSUME NEW s \in Row
  PROVE  Row \subseteq Reached[24][s]
<1> DEFINE P == {k \in 0..10 : \A r \in Row : MovesFromTop(r) <= k => r \in Reached[14 + k][s]}
<1>1. 0 \in P
  <2>1. \A r \in Row : MovesFromTop(r) <= 0 => r = 0
    BY GridIs DEF MovesFromTop
  <2> QED
    BY <2>1, ToTop
<1>2. ASSUME NEW k \in 0..(10 - 1), k \in P PROVE k + 1 \in P
  <2> SUFFICES ASSUME NEW r \in Row, MovesFromTop(r) <= k + 1 PROVE r \in Reached[14 + (k + 1)][s]
    OBVIOUS
  <2> DEFINE n == 14 + k
  <2>1. n \in 0..25 /\ 14 + (k + 1) = n + 1
    OBVIOUS
  <2>2. \A q \in Row : MovesFromTop(q) <= k => q \in Reached[n][s]
    BY <1>2
  <2> HIDE DEF n
  <2>3. r \in Reached[n + 1][s]
    <3>1. CASE r = 0
      <4>1. MovesFromTop(r) <= k
        BY <3>1 DEF MovesFromTop
      <4> QED
        BY <2>1, <2>2, <4>1, OneMove
    <3>2. CASE r # 0
      <4>1. PICK q \in Row : MovesFromTop(q) = MovesFromTop(r) - 1 /\ r \in Moves(q)
        BY <3>2, RowBefore
      <4>2. MovesFromTop(r) \in Int
        BY GridIs DEF MovesFromTop
      <4>3. q \in Reached[n][s]
        BY <2>2, <4>1, <4>2
      <4> QED
        BY <2>1, <4>1, <4>3, OneMove
    <3> QED
      BY <3>1, <3>2
  <2> QED
    BY <2>1, <2>3
<1>3. \A k \in 0..10 : k \in P
  <2> HIDE DEF P
  <2> QED
    BY <1>1, <1>2, CountsUp
<1>4. \A r \in Row : MovesFromTop(r) <= 10
  BY GridIs DEF MovesFromTop
<1>5. \A r \in Row : r \in Reached[14 + 10][s]
  BY <1>3, <1>4
<1> QED
  BY <1>5

LEMMA GridIsConnected == AllReached
<1> SUFFICES ASSUME NEW s \in Row PROVE Reached[26][s] = Row
  BY GridIs DEF AllReached
<1>1. \A n \in 0..25 : \A k \in 0..26 : k = n + 1 => Reached[n][s] \subseteq Reached[k][s]
  BY OneMove
<1>2. Reached[24][s] \subseteq Reached[25][s]
  BY <1>1
<1>3. Reached[25][s] \subseteq Reached[26][s]
  BY <1>1
<1>4. Row \subseteq Reached[24][s]
  BY FromTop
<1>5. Reached[26][s] \subseteq Row
  BY ReachedOnGrid
<1> QED
  BY <1>2, <1>3, <1>4, <1>5

(* RowsReachable: the cursor of the OSDSYS options gets from every row to  *)
(* every row, whatever is shown (Config_fmcb_OSDSYS, 3558-3670).           *)
THEOREM NoRowOutOfReach == Spec => []RowsReachable
<1>1. RowsReachable
  BY GridIsConnected DEF RowsReachable
<1> QED
  BY <1>1, PTL
=============================================================================

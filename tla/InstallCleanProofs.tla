------------------------- MODULE InstallCleanProofs -------------------------
(***************************************************************************)
(* With nothing failing, and for any dummies, consoles and chains: no file *)
(* frees the clusters of another, none are lost, and what the success      *)
(* dialogs of an installation and an uninstallation say is true (Install). *)
(*                                                                         *)
(* The invariant gives every file a chain of its own, a linked dummy the   *)
(* one it gets back, and says what the card is like at each step.          *)
(***************************************************************************)
EXTENDS InstallProofs

(* The chain that is a file's own: for a linked dummy the one it gets back. *)
Own == [f \in OsdFiles |->
          IF entry[f].kind # "linked" THEN entry[f].to
          ELSE IF pc = "record" THEN local.saved[f] ELSE record.to[f]]

(* No two files own the same chain, and what is owned is what is allocated. *)
Exact(own, ch) ==
  /\ \A f \in OsdFiles : own[f] # Null => ch[own[f]] # "free"
  /\ \A f, g \in OsdFiles : own[f] = own[g] /\ own[f] # Null => f = g
  /\ \A c \in Chains : ch[c] # "free" => \E f \in OsdFiles : own[f] = c

(* A card without links; a multi-version card.                             *)
Bare == Linked = {} /\ record = NoRecord
Shared == /\ Good(OsdMain)
          /\ \A d \in Dummies : /\ entry[d].kind = "linked" /\ entry[d].to = entry[OsdMain].to
                                /\ Own[d] # Null
Full == /\ Shared /\ record.state = "full"
        /\ \A d \in Dummies : record.link = entry[d].to
Done == IF job = "multi" THEN Full ELSE Bare /\ Good(console)

(* What the card is like at each step.                                     *)
Unlinked == Filling \cup {"delosd", "osd", "readosd", "dropmain", "rewrite"}
Before ==
  /\ pc \in {"menu", "prepare", "unpatch"} => Bare \/ Full
  /\ pc = "call" => Full
  /\ pc = "deldummies" => Linked = {} /\ Good(OsdMain)
  /\ pc \in Unlinked => Bare
  /\ pc \in {"readosd"} => Good(OsdMain)
  /\ pc \in {"dropmain", "rewrite"} => local.osd_elf = "osd"
Writing ==
  /\ pc = "osd" => local.k = 1
  /\ pc \in {"dummies", "scan", "patch"} => job = "multi"
  /\ pc \in Filling => Good(IF job = "multi" THEN OsdMain ELSE console)
  /\ pc = "dummies" => \A i \in 1 .. local.k - 1 : entry[DummyTab[i]].kind = "file"
  /\ pc \in Filling \ {"dummies"} /\ job = "multi" => \A d \in Dummies : entry[d].kind = "file"
  /\ pc = "patch" => local.linking = entry[OsdMain].to
  /\ pc = "record" => /\ job = "multi" /\ Shared /\ record = NoRecord
                      /\ local.linking = entry[OsdMain].to
  /\ pc = "installed" => Done
Told ==
  /\ pc # "menu" => shown \notin {"installed", "reverted"}
  /\ shown = "installed" => Done
  /\ shown = "reverted" => Bare /\ Good(console)

Sound == pc # "hung" /\ Exact(Own, chain) /\ Before /\ Writing /\ Told
IInv == TypeOK /\ Sound

------------------------------------------------------------------------------
(* Chains                                                                  *)

LEMMA OwnWithoutLinks ==
  ASSUME OsdsOK, Linked = {}
  PROVE  Own = [f \in OsdFiles |-> entry[f].to]
<1>1. \A f \in OsdFiles : entry[f].kind # "linked"
  BY DEF OsdsOK, Linked
<1> QED
  BY <1>1 DEF Own

LEMMA FreedIs ==
  ASSUME OsdsOK, NEW f \in OsdFiles, NEW c \in Chains
  PROVE  Freed(f)[c] = IF c = entry[f].to THEN "free" ELSE chain[c]
BY InstallAssumption DEF Freed, OsdsOK

(* A file of its own is deleted or stored: the others keep theirs.         *)
LEMMA DeleteApart ==
  ASSUME OsdsOK, Linked = {}, Exact(Own, chain), NEW f \in OsdFiles, Delete(f)
  PROVE  /\ OsdsOK' /\ Linked' = {} /\ Exact(Own, chain)'
         /\ \A g \in OsdFiles \ {f} : entry'[g] = entry[g] /\ (Good(g) => Good(g)')
<1>1. OsdsOK' /\ chain' = Freed(f) /\ entry' = [entry EXCEPT ![f] = NoEntry]
  BY DeleteOK DEF Delete
<1>2. \A g \in OsdFiles : entry'[g] = IF g = f THEN NoEntry ELSE entry[g]
  BY <1>1 DEF OsdsOK
<1>3. Linked' = {}
  BY <1>2, TabOK DEF Linked, NoEntry
<1>4. Own = [g \in OsdFiles |-> entry[g].to] /\ Own' = [g \in OsdFiles |-> entry'[g].to]
  <2>1. \A g \in OsdFiles : entry'[g].kind # "linked"
    BY <1>1, <1>3 DEF OsdsOK, Linked
  <2> QED
    BY <2>1, OwnWithoutLinks DEF Own
<1>5. \A g \in OsdFiles : Own'[g] = IF g = f THEN Null ELSE Own[g]
  BY <1>2, <1>4 DEF NoEntry
<1>6. \A g \in OsdFiles : Own[g] \in Chains \cup {Null}
  BY <1>4 DEF OsdsOK, Entry
<1>7. \A c \in Chains : chain'[c] = IF c = Own[f] THEN "free" ELSE chain[c]
  BY <1>1, <1>4, FreedIs
<1>8. Exact(Own, chain)'
  BY <1>5, <1>6, <1>7 DEF Exact
<1>9. ASSUME NEW g \in OsdFiles \ {f} PROVE entry'[g] = entry[g] /\ (Good(g) => Good(g)')
  <2>1. entry'[g] = entry[g]
    BY <1>2
  <2>2. ASSUME Good(g) PROVE Good(g)'
    <3>1. entry[g].to = Own[g] /\ Own[g] # Null /\ Own[g] \in Chains
      BY <1>4, <1>6, <2>2 DEF Good, OsdsOK
    <3>2. Own[g] # Own[f]
      BY <3>1 DEF Exact
    <3> QED
      BY <1>7, <2>1, <2>2, <3>1, <3>2 DEF Good
  <2> QED
    BY <2>1, <2>2
<1> QED
  BY <1>1, <1>3, <1>8, <1>9

LEMMA StoreApart ==
  ASSUME OsdsOK, Linked = {}, Exact(Own, chain), NEW f \in OsdFiles,
         NEW what \in ChainValues, what # "free", Store(f, what)
  PROVE  /\ OsdsOK' /\ Linked' = {} /\ Exact(Own, chain)'
         /\ entry'[f].kind = "file" /\ chain'[entry'[f].to] = what
         /\ \A g \in OsdFiles \ {f} : entry'[g] = entry[g] /\ (Good(g) => Good(g)')
<1>1. PICK c \in FreeChains(Freed(f)) :
        /\ chain' = [Freed(f) EXCEPT ![c] = what]
        /\ entry' = [entry EXCEPT ![f] = [kind |-> "file", to |-> c]]
  BY DEF Store
<1>2. OsdsOK'
  BY StoreOK
<1>3. c \in Chains /\ c # Null /\ Freed(f)[c] = "free"
  BY InstallAssumption DEF FreeChains
<1>4. \A g \in OsdFiles : entry'[g] = IF g = f THEN [kind |-> "file", to |-> c] ELSE entry[g]
  BY <1>1 DEF OsdsOK
<1>5. Linked' = {}
  BY <1>4, TabOK DEF Linked
<1>6. Own = [g \in OsdFiles |-> entry[g].to] /\ Own' = [g \in OsdFiles |-> entry'[g].to]
  <2>1. \A g \in OsdFiles : entry'[g].kind # "linked"
    BY <1>2, <1>5 DEF OsdsOK, Linked
  <2> QED
    BY <2>1, OwnWithoutLinks DEF Own
<1>7. \A g \in OsdFiles : Own'[g] = IF g = f THEN c ELSE Own[g]
  BY <1>4, <1>6
<1>8. \A g \in OsdFiles : Own[g] \in Chains \cup {Null}
  BY <1>6 DEF OsdsOK, Entry
<1>9. \A d \in Chains : Freed(f)[d] = IF d = Own[f] THEN "free" ELSE chain[d]
  BY <1>6, FreedIs
<1>10. Freed(f) \in [Chains -> ChainValues]
  BY FreedType
<1>11. \A d \in Chains : chain'[d] = IF d = c THEN what ELSE IF d = Own[f] THEN "free" ELSE chain[d]
  BY <1>1, <1>3, <1>9, <1>10
<1>12. \A g \in OsdFiles \ {f} : Own[g] # Null => Own[g] # c /\ Own[g] # Own[f]
  BY <1>3, <1>8, <1>9 DEF Exact
<1>13. Exact(Own, chain)'
  <2>1. ASSUME NEW g \in OsdFiles, Own'[g] # Null PROVE chain'[Own'[g]] # "free"
    BY <1>3, <1>7, <1>8, <1>11, <1>12, <2>1 DEF Exact
  <2>2. ASSUME NEW g \in OsdFiles, NEW h \in OsdFiles, Own'[g] = Own'[h], Own'[g] # Null PROVE g = h
    BY <1>7, <1>12, <2>2 DEF Exact
  <2>3. ASSUME NEW d \in Chains, chain'[d] # "free" PROVE \E g \in OsdFiles : Own'[g] = d
    <3>1. CASE d = c
      BY <1>7, <3>1
    <3>2. CASE d # c
      <4>1. d # Own[f] /\ chain[d] # "free"
        BY <1>11, <2>3, <3>2
      <4>2. PICK g \in OsdFiles : Own[g] = d
        BY <4>1 DEF Exact
      <4> QED
        BY <1>7, <4>1, <4>2
    <3> QED
      BY <3>1, <3>2
  <2> QED
    BY <2>1, <2>2, <2>3 DEF Exact
<1>14. ASSUME NEW g \in OsdFiles \ {f} PROVE entry'[g] = entry[g] /\ (Good(g) => Good(g)')
  <2>1. entry'[g] = entry[g]
    BY <1>4
  <2>2. ASSUME Good(g) PROVE Good(g)'
    <3>1. entry[g].to = Own[g] /\ Own[g] # Null /\ Own[g] \in Chains
      BY <1>6, <1>8, <2>2 DEF Good, OsdsOK
    <3>2. Own[g] # Own[f] /\ Own[g] # c
      BY <1>12, <3>1
    <3> QED
      BY <1>11, <2>1, <2>2, <3>1, <3>2 DEF Good
  <2> QED
    BY <2>1, <2>2
<1>15. entry'[f].kind = "file" /\ entry'[f].to = c
  <2>1. entry'[f] = [kind |-> "file", to |-> c]
    BY <1>4
  <2> QED
    BY <2>1
<1> QED
  BY <1>2, <1>3, <1>5, <1>11, <1>13, <1>14, <1>15

(* Create_File with nothing failing; it fails for want of a chain only.    *)
LEMMA CreateApart ==
  ASSUME Faults = {}, OsdsOK, Linked = {}, Exact(Own, chain), NEW f \in OsdFiles,
         NEW what \in ChainValues, what # "free", Create(f, what) \/ CreateFails(f)
  PROVE  /\ OsdsOK' /\ Linked' = {} /\ Exact(Own, chain)'
         /\ Create(f, what) => entry'[f].kind = "file" /\ chain'[entry'[f].to] = what
         /\ \A g \in OsdFiles \ {f} : entry'[g] = entry[g] /\ (Good(g) => Good(g)')
<1>1. Create(f, what) => Store(f, what)
  BY DEF Create, Hit
<1>2. CreateFails(f) => Delete(f)
  BY DEF CreateFails, Hit
<1>3. CASE Store(f, what)
  BY <1>3, StoreApart
<1>4. CASE ~Store(f, what)
  BY <1>1, <1>2, <1>4, DeleteApart
<1> QED
  BY <1>3, <1>4

(* The owners of the chains are the same as long as neither the entries    *)
(* nor the place from which a linked dummy gets its chain back change.     *)
LEMMA SameOwn ==
  ASSUME OsdsOK, UNCHANGED <<entry, record>>, pc # "record", pc' # "record"
  PROVE  Own' = Own
BY DEF Own

LEMMA SameGood ==
  ASSUME NEW f, UNCHANGED osds
  PROVE  Good(f)' <=> Good(f)
BY DEF Good, osds

------------------------------------------------------------------------------
(* The steps that leave the OSD files and the record alone                 *)

LEMMA SameCard ==
  ASSUME TypeOK, Exact(Own, chain), UNCHANGED <<osds, record>>, pc # "record", pc' # "record"
  PROVE  /\ Exact(Own, chain)' /\ Linked' = Linked
         /\ Bare' <=> Bare
         /\ Full' <=> Full
         /\ \A f : Good(f)' <=> Good(f)
<1>1. Own' = Own /\ chain' = chain /\ entry' = entry /\ record' = record
  BY SameOwn DEF TypeOK, osds
<1>2. \A f : Good(f)' <=> Good(f)
  BY <1>1 DEF Good
<1>3. Exact(Own, chain)'
  BY <1>1 DEF Exact
<1>4. Linked' = Linked
  BY <1>1 DEF Linked
<1> QED
  BY <1>1, <1>2, <1>3, <1>4 DEF Bare, Full, Shared

LEMMA DoneSame ==
  ASSUME Bare' <=> Bare, Full' <=> Full, \A f : Good(f)' <=> Good(f), UNCHANGED <<job, console>>
  PROVE  Done' <=> Done
<1>1. Good(console)' <=> Good(console)
  BY DEF Good
<1> QED
  BY <1>1 DEF Done

LEMMA MenuSteps ==
  ASSUME IInv, NewSession \/ StartInstall \/ StartUninstall
  PROVE  Sound'
<1>1. /\ UNCHANGED <<osds, record>> /\ pc = "menu" /\ pc' \in {"menu", "prepare", "unpatch"}
      /\ shown' = "none"
  BY DEF NewSession, StartInstall, StartUninstall, Begin, End, card, osds, IInv, Sound
<1>2. Exact(Own, chain)' /\ (Bare' <=> Bare) /\ (Full' <=> Full)
  BY <1>1, SameCard DEF IInv, Sound
<1>3. Before' /\ Writing' /\ Told'
  BY <1>1, <1>2 DEF IInv, Sound, Before, Writing, Told, Unlinked, Filling, ExtraFiles
<1> QED
  BY <1>1, <1>2, <1>3 DEF Sound

LEMMA ReadSteps ==
  ASSUME Faults = {}, IInv, Prepare \/ NoUninstallFile \/ ReadUninstallFile
  PROVE  Sound'
<1>1. /\ UNCHANGED <<osds, record>> /\ pc \in {"prepare", "unpatch"} /\ (Bare \/ Full)
      /\ shown \notin {"installed", "reverted"}
  BY DEF Prepare, NoUninstallFile, ReadUninstallFile, card, osds, IInv, Sound, Before, Told
<1>2. \/ pc' \in {"unpatch", "menu"} /\ shown' \notin {"installed", "reverted"}
      \/ pc' = "call" /\ record.state # "none" /\ shown' = shown
      \/ pc' = "delosd" /\ record.state = "none" /\ shown' = shown
  BY <1>1 DEF Prepare, NoUninstallFile, ReadUninstallFile, Unpatched, Goto, End, Hit
<1>3. Exact(Own, chain)' /\ (Bare' <=> Bare) /\ (Full' <=> Full)
  BY <1>1, <1>2, SameCard DEF IInv, Sound
<1>4. (record.state # "none" => Full) /\ (record.state = "none" => Bare)
  BY <1>1 DEF Bare, Full, NoRecord
<1>5. Before' /\ Writing' /\ Told'
  BY <1>1, <1>2, <1>3, <1>4 DEF Before, Writing, Told, Unlinked, Filling, ExtraFiles
<1> QED
  BY <1>2, <1>3, <1>5 DEF Sound

LEMMA ExtraSteps ==
  ASSUME Faults = {}, IInv, WriteIcons \/ WriteCnf \/ WriteUsbd \/ WriteElf
  PROVE  Sound'
<1>1. /\ UNCHANGED <<osds, record, session, shown>> /\ pc \in ExtraFiles
      /\ pc' \in ExtraFiles \/ pc' = AfterElf
  BY DEF WriteIcons, WriteCnf, WriteUsbd, WriteElf, ExtraStep, WriteExtra, SkipExtra, Goto, Hit, ExtraFiles
<1>2. pc' \in ExtraFiles \/ (pc' = "scan" /\ job = "multi") \/ (pc' = "installed" /\ job # "multi")
  BY <1>1 DEF AfterElf
<1>3. pc # "record" /\ pc' # "record" /\ pc # "menu" /\ pc' # "menu" /\ pc # "dummies" /\ pc' # "dummies"
  BY <1>1, <1>2 DEF ExtraFiles
<1>4. /\ Exact(Own, chain)' /\ (Bare' <=> Bare) /\ (Full' <=> Full)
      /\ \A f : Good(f)' <=> Good(f)
  BY <1>1, <1>3, SameCard DEF IInv, Sound
<1>5. /\ Bare /\ shown \notin {"installed", "reverted"}
      /\ Good(IF job = "multi" THEN OsdMain ELSE console)
      /\ job = "multi" => \A d \in Dummies : entry[d].kind = "file"
  BY <1>1, <1>3 DEF IInv, Sound, Before, Writing, Told, Unlinked, Filling, ExtraFiles
<1>6. /\ job' = job /\ console' = console /\ entry' = entry /\ shown' = shown
      /\ Good(IF job = "multi" THEN OsdMain ELSE console)'
  BY <1>1, <1>4, <1>5 DEF session, osds, Good
<1>7. Before'
  BY <1>2, <1>4, <1>5 DEF Before, Unlinked, Filling, ExtraFiles
<1>8. Writing'
  BY <1>2, <1>3, <1>4, <1>5, <1>6 DEF Writing, Filling, ExtraFiles, Done
<1>9. Told'
  BY <1>3, <1>5, <1>6 DEF Told
<1> QED
  BY <1>2, <1>4, <1>7, <1>8, <1>9 DEF Sound, ExtraFiles

LEMMA OtherSteps ==
  ASSUME Faults = {}, IInv, DummiesWritten \/ ScanOsd \/ Installed \/ ReadOsd
  PROVE  Sound'
<1>1. /\ UNCHANGED <<osds, record, session>> /\ pc \in {"dummies", "scan", "installed", "readosd"}
      /\ pc' \in {"icon", "patch", "menu", "dropmain"}
  BY DEF DummiesWritten, ScanOsd, Installed, ReadOsd, End, Goto, card, osds, Hit
<1>2. /\ Exact(Own, chain)' /\ (Bare' <=> Bare) /\ (Full' <=> Full)
      /\ \A f : Good(f)' <=> Good(f)
  BY <1>1, SameCard DEF IInv, Sound
<1>3. /\ job' = job /\ console' = console /\ entry' = entry /\ (Done' <=> Done)
      /\ Good(IF job = "multi" THEN OsdMain ELSE console)' <=> Good(IF job = "multi" THEN OsdMain ELSE console)
  BY <1>1, <1>2, DoneSame DEF session, osds, Good
<1>4. shown \notin {"installed", "reverted"}
  BY <1>1 DEF IInv, Sound, Told
<1>5. CASE DummiesWritten
  <2>1. pc = "dummies" /\ pc' = "icon" /\ local.k > NumDummies /\ shown' = shown
    BY <1>5 DEF DummiesWritten, Goto
  <2>2. \A i \in 1 .. NumDummies : entry[DummyTab[i]].kind = "file"
    BY <2>1, TabOK DEF IInv, Sound, Writing, TypeOK, Local
  <2>3. \A d \in Dummies : entry'[d].kind = "file"
    BY <1>3, <2>2 DEF Dummies
  <2>4. Bare /\ job = "multi" /\ Good(OsdMain)
    BY <2>1 DEF IInv, Sound, Before, Writing, Unlinked, Filling
  <2>5. Before' /\ Writing' /\ Told'
    BY <1>2, <1>3, <1>4, <2>1, <2>3, <2>4 DEF Before, Writing, Told, Unlinked, Filling, ExtraFiles
  <2> QED
    BY <1>2, <2>1, <2>5 DEF Sound
<1>6. CASE ScanOsd
  <2>1. /\ pc = "scan" /\ pc' = "patch" /\ shown' = shown
        /\ local' = [local EXCEPT !.linking = entry[OsdMain].to]
    BY <1>6 DEF ScanOsd, Goto, Set, Hit
  <2>2. local'.linking = entry'[OsdMain].to
    BY <1>3, <2>1 DEF IInv, TypeOK, Local
  <2>3. Bare /\ job = "multi" /\ Good(OsdMain) /\ \A d \in Dummies : entry[d].kind = "file"
    BY <2>1 DEF IInv, Sound, Before, Writing, Unlinked, Filling
  <2>4. Before' /\ Writing' /\ Told'
    BY <1>2, <1>3, <1>4, <2>1, <2>2, <2>3 DEF Before, Writing, Told, Unlinked, Filling, ExtraFiles
  <2> QED
    BY <1>2, <2>1, <2>4 DEF Sound
<1>7. CASE Installed
  <2>1. pc = "installed" /\ pc' = "menu" /\ shown' = "installed"
    BY <1>7 DEF Installed, End
  <2>2. Done /\ (Bare \/ Full)
    BY <2>1 DEF IInv, Sound, Writing, Done
  <2>3. Before' /\ Writing' /\ Told'
    BY <1>2, <1>3, <2>1, <2>2 DEF Before, Writing, Told, Unlinked, Filling, ExtraFiles
  <2> QED
    BY <1>2, <2>1, <2>3 DEF Sound
<1>8. CASE ReadOsd
  <2>1. pc = "readosd" /\ pc' = "dropmain" /\ shown' = shown
    BY <1>8 DEF ReadOsd, Goto
  <2>2. Bare /\ Good(OsdMain)
    BY <2>1 DEF IInv, Sound, Before, Unlinked
  <2>3. local' = [local EXCEPT !.osd_elf = "osd"]
    BY <1>8, <2>2 DEF ReadOsd, Set, Hit, Good
  <2>4. local'.osd_elf = "osd"
    BY <2>3 DEF IInv, TypeOK, Local
  <2>5. Before' /\ Writing' /\ Told'
    BY <1>2, <1>4, <2>1, <2>2, <2>4 DEF Before, Writing, Told, Unlinked, Filling, ExtraFiles
  <2> QED
    BY <1>2, <2>1, <2>5 DEF Sound
<1> QED
  BY <1>5, <1>6, <1>7, <1>8

------------------------------------------------------------------------------
(* The steps that delete or write an OSD file                              *)

LEMMA DeleteSteps ==
  ASSUME Faults = {}, IInv, DeleteDummy \/ DeleteOsd \/ DropOsdMain
  PROVE  Sound'
<1> USE TabOK DEF Goto, Hit
<1>a. OsdsOK /\ Exact(Own, chain) /\ shown \notin {"installed", "reverted"}
  BY DEF IInv, TypeOK, Sound, Told, DeleteDummy, DeleteOsd, DropOsdMain
<1>1. CASE DeleteDummy
  <2>1. /\ pc = "deldummies" /\ pc' = pc /\ shown' = shown
        /\ DummyTab[local.k] \in Dummies /\ Delete(DummyTab[local.k])
    BY <1>1 DEF DeleteDummy, IInv, TypeOK, Local
  <2>2. Linked = {} /\ Good(OsdMain) /\ OsdMain # DummyTab[local.k]
    BY <2>1, InstallAssumption DEF IInv, Sound, Before
  <2>3. Linked' = {} /\ Exact(Own, chain)' /\ Good(OsdMain)'
    BY <1>a, <2>1, <2>2, DeleteApart
  <2>4. Before' /\ Writing' /\ Told'
    BY <1>a, <2>1, <2>3 DEF Before, Writing, Told, Unlinked, Filling, ExtraFiles
  <2> QED
    BY <2>1, <2>3, <2>4 DEF Sound
<1>2. CASE DeleteOsd
  <2>1. /\ pc = "delosd" /\ pc' = "osd" /\ shown' = shown /\ record' = record
        /\ local' = NoLocals /\ Delete(OsdMain)
    BY <1>2 DEF DeleteOsd
  <2>2. Linked = {} /\ record = NoRecord
    BY <2>1 DEF IInv, Sound, Before, Unlinked, Bare
  <2>3. Exact(Own, chain)' /\ Bare'
    BY <1>a, <2>1, <2>2, DeleteApart DEF Bare
  <2>4. Before' /\ Writing' /\ Told'
    BY <1>a, <2>1, <2>3 DEF Before, Writing, Told, Unlinked, Filling, ExtraFiles, NoLocals
  <2> QED
    BY <2>1, <2>3, <2>4 DEF Sound
<1>3. CASE DropOsdMain
  <2>1. /\ pc = "dropmain" /\ pc' = "rewrite" /\ shown' = shown /\ record' = record
        /\ local' = local /\ Delete(OsdMain)
    BY <1>3 DEF DropOsdMain
  <2>2. Linked = {} /\ record = NoRecord /\ local.osd_elf = "osd"
    BY <2>1 DEF IInv, Sound, Before, Unlinked, Bare
  <2>3. Exact(Own, chain)' /\ Bare'
    BY <1>a, <2>1, <2>2, DeleteApart DEF Bare
  <2>4. Before' /\ Writing' /\ Told'
    BY <1>a, <2>1, <2>2, <2>3 DEF Before, Writing, Told, Unlinked, Filling, ExtraFiles
  <2> QED
    BY <2>1, <2>3, <2>4 DEF Sound
<1> QED
  BY <1>1, <1>2, <1>3

(* A write that fails leaves a card without links, at the menu.            *)
LEMMA ErrorSound ==
  ASSUME Exact(Own, chain)', Bare', pc' = "menu", shown' \in {"error", "uninstall error"}
  PROVE  Sound'
<1>1. Before' /\ Writing' /\ Told'
  BY DEF Before, Writing, Told, Unlinked, Filling, ExtraFiles
<1> QED
  BY <1>1 DEF Sound

LEMMA WriteOsdStep ==
  ASSUME Faults = {}, IInv, WriteOsd
  PROVE  Sound'
<1>1. /\ pc = "osd" /\ UNCHANGED <<record, job, console>> /\ OsdsOK /\ Exact(Own, chain)
      /\ Linked = {} /\ record = NoRecord /\ local.k = 1 /\ shown \notin {"installed", "reverted"}
  BY DEF WriteOsd, session, IInv, TypeOK, Sound, Before, Writing, Told, Unlinked, Bare
<1>2. OsdPath \in OsdFiles /\ OsdPath = IF job = "multi" THEN OsdMain ELSE console
  BY TabOK DEF OsdPath, IInv, TypeOK
<1>3. "osd" \in ChainValues /\ "osd" # "free"
  BY DEF ChainValues
<1> DEFINE f == OsdPath
<1>4. Create(f, "osd") \/ CreateFails(f)
  BY DEF WriteOsd
<1>5. /\ Linked' = {} /\ Exact(Own, chain)'
      /\ Create(f, "osd") => entry'[f].kind = "file" /\ chain'[entry'[f].to] = "osd"
  <2> HIDE DEF f
  <2>1. f \in OsdFiles
    BY <1>2 DEF f
  <2> QED
    BY <1>1, <1>3, <1>4, <2>1, CreateApart
<1>6. Bare'
  BY <1>1, <1>5 DEF Bare
<1>7. CASE /\ Create(f, "osd") /\ UNCHANGED local
           /\ Goto(IF job = "multi" THEN "dummies" ELSE "icon")
  <2>1. shown' = shown /\ pc' = IF job = "multi" THEN "dummies" ELSE "icon"
    BY <1>7 DEF Goto
  <2>2. entry'[OsdPath].kind = "file" /\ chain'[entry'[OsdPath].to] = "osd"
    BY <1>5, <1>7
  <2>3. Good(IF job = "multi" THEN OsdMain ELSE console)'
    BY <1>1, <1>2, <2>2 DEF Good
  <2>4. Before' /\ Told'
    BY <1>1, <1>6, <2>1 DEF Before, Told, Unlinked, Filling, ExtraFiles
  <2>5. Writing'
    BY <1>1, <1>7, <2>1, <2>3 DEF Writing, Filling, ExtraFiles
  <2> QED
    BY <1>5, <2>1, <2>4, <2>5 DEF Sound
<1>8. CASE End("error")
  BY <1>5, <1>6, <1>8, ErrorSound DEF End
<1> QED
  BY <1>7, <1>8 DEF WriteOsd

LEMMA WriteDummyStep ==
  ASSUME Faults = {}, IInv, WriteDummy
  PROVE  Sound'
<1> DEFINE f == DummyTab[local.k]
<1>1. /\ pc = "dummies" /\ UNCHANGED <<record, job, console>> /\ OsdsOK /\ Exact(Own, chain)
      /\ Linked = {} /\ record = NoRecord /\ job = "multi" /\ Good(OsdMain)
      /\ shown \notin {"installed", "reverted"} /\ local.k \in 1 .. NumDummies
      /\ \A i \in 1 .. local.k - 1 : entry[DummyTab[i]].kind = "file"
  BY TabOK DEF WriteDummy, session, IInv, TypeOK, Sound, Before, Writing, Told, Unlinked,
               Filling, Bare, Local
<1>2. f \in OsdFiles /\ f # OsdMain
  BY <1>1, TabOK, InstallAssumption
<1>3. "dummy" \in ChainValues /\ "dummy" # "free"
  BY DEF ChainValues
<1>4. Create(f, "dummy") \/ CreateFails(f)
  BY DEF WriteDummy
<1>5. /\ Linked' = {} /\ Exact(Own, chain)'
      /\ Create(f, "dummy") => entry'[f].kind = "file"
      /\ \A g \in OsdFiles \ {f} : entry'[g] = entry[g] /\ (Good(g) => Good(g)')
  <2> HIDE DEF f
  <2> QED
    BY <1>1, <1>2, <1>3, <1>4, CreateApart
<1>6. Bare' /\ Good(OsdMain)'
  BY <1>1, <1>2, <1>5, TabOK DEF Bare
<1>7. CASE Create(f, "dummy") /\ NextDummy /\ Goto("dummies")
  <2>1. /\ shown' = shown /\ pc' = "dummies" /\ local' = [local EXCEPT !.k = local.k + 1]
    BY <1>7 DEF NextDummy, Set, Goto
  <2>2. local'.k = local.k + 1
    BY <2>1 DEF IInv, TypeOK, Local
  <2>3. ASSUME NEW i \in 1 .. local.k PROVE entry'[DummyTab[i]].kind = "file"
    <3>1. CASE i = local.k
      BY <1>5, <1>7, <3>1
    <3>2. CASE i # local.k
      <4>1. i \in 1 .. local.k - 1 /\ i \in 1 .. NumDummies
        BY <1>1, <3>2, TabOK
      <4>2. DummyTab[i] \in OsdFiles \ {f}
        BY <1>1, <3>2, <4>1, TabOK, InstallAssumption
      <4> QED
        BY <1>1, <1>5, <4>1, <4>2
    <3> QED
      BY <3>1, <3>2
  <2>4. \A i \in 1 .. local'.k - 1 : entry'[DummyTab[i]].kind = "file"
    BY <1>1, <2>2, <2>3
  <2>5. Before' /\ Writing' /\ Told'
    BY <1>1, <1>6, <2>1, <2>4 DEF Before, Writing, Told, Unlinked, Filling, ExtraFiles
  <2> QED
    BY <1>5, <2>1, <2>5 DEF Sound
<1>8. CASE End("error")
  BY <1>5, <1>6, <1>8, ErrorSound DEF End
<1> QED
  BY <1>7, <1>8 DEF WriteDummy

LEMMA RewriteStep ==
  ASSUME Faults = {}, IInv, RewriteOsd
  PROVE  Sound'
<1>1. /\ pc = "rewrite" /\ UNCHANGED <<record, job, console>> /\ OsdsOK /\ Exact(Own, chain)
      /\ Linked = {} /\ record = NoRecord /\ local.osd_elf = "osd" /\ console \in OsdFiles
  BY TabOK DEF RewriteOsd, session, IInv, TypeOK, Sound, Before, Unlinked, Bare
<1>2. "osd" \in ChainValues /\ "osd" # "free"
  BY DEF ChainValues
<1>3. Create(console, "osd") \/ CreateFails(console)
  BY <1>1 DEF RewriteOsd
<1> DEFINE f == console
<1>4. /\ Linked' = {} /\ Exact(Own, chain)'
      /\ Create(f, "osd") => entry'[f].kind = "file" /\ chain'[entry'[f].to] = "osd"
  <2>1. f \in OsdFiles /\ (Create(f, "osd") \/ CreateFails(f))
    BY <1>1, <1>3
  <2> HIDE DEF f
  <2> QED
    BY <1>1, <1>2, <2>1, CreateApart
<1>5. Bare'
  BY <1>1, <1>4 DEF Bare
<1>6. pc' = "menu"
  BY DEF RewriteOsd, End
<1>7. CASE shown' = "reverted"
  <2>1. Create(console, "osd")
    BY <1>1, <1>7 DEF RewriteOsd, End
  <2>2. Good(console)'
    BY <1>1, <1>4, <2>1 DEF Good
  <2>3. Before' /\ Writing' /\ Told'
    BY <1>5, <1>6, <1>7, <2>2 DEF Before, Writing, Told, Unlinked, Filling, ExtraFiles
  <2> QED
    BY <1>4, <1>6, <2>3 DEF Sound
<1>8. CASE shown' = "uninstall error"
  BY <1>4, <1>5, <1>6, <1>8, ErrorSound
<1> QED
  BY <1>7, <1>8 DEF RewriteOsd, End

------------------------------------------------------------------------------
(* The steps that link and unlink the dummies, and write the record        *)

(* On a multi-version card every dummy is found by the unpatch.            *)
LEMMA UnPatchStep ==
  ASSUME Faults = {}, IInv, CallUnPatch
  PROVE  Sound'
<1>1. /\ pc = "call" /\ Full /\ OsdsOK /\ Exact(Own, chain)
      /\ shown \notin {"installed", "reverted"}
  BY DEF CallUnPatch, IInv, TypeOK, Sound, Before, Told
<1>2. \A d \in Dummies : /\ entry[d].kind = "linked" /\ record.link = entry[d].to
                         /\ Own[d] = record.to[d] /\ Own[d] # Null
  BY <1>1, TabOK DEF Full, Shared, Own
<1>3. Matched = Dummies
  BY <1>2 DEF Matched, Linked
<1>4. /\ entry' = Restored(Dummies) /\ chain' = chain
      /\ pc' = "deldummies" /\ shown' = shown
  BY <1>3 DEF CallUnPatch, Goto, Hit
<1>5. \A f \in OsdFiles :
        entry'[f] = IF f \in Dummies THEN [kind |-> "file", to |-> record.to[f]] ELSE entry[f]
  BY <1>4 DEF Restored
<1>6. \A f \in OsdFiles : /\ entry'[f].kind # "linked" /\ entry'[f].to = Own[f]
                          /\ f \notin Dummies => entry'[f] = entry[f]
  <2> SUFFICES ASSUME NEW f \in OsdFiles
               PROVE  /\ entry'[f].kind # "linked" /\ entry'[f].to = Own[f]
                      /\ f \notin Dummies => entry'[f] = entry[f]
    OBVIOUS
  <2>1. CASE f \in Dummies
    <3>1. entry'[f] = [kind |-> "file", to |-> record.to[f]]
      BY <1>5, <2>1
    <3> QED
      BY <1>2, <2>1, <3>1
  <2>2. CASE f \notin Dummies
    BY <1>1, <1>5, <2>2 DEF OsdsOK, Own
  <2> QED
    BY <2>1, <2>2
<1>7. Own' = Own
  BY <1>6 DEF Own
<1>8. Exact(Own, chain)'
  BY <1>1, <1>4, <1>7 DEF Exact
<1>9. Linked' = {} /\ Good(OsdMain)'
  BY <1>1, <1>4, <1>6, TabOK, InstallAssumption DEF Linked, Full, Shared, Good
<1>10. Before' /\ Writing' /\ Told'
  BY <1>1, <1>4, <1>9 DEF Before, Writing, Told, Unlinked, Filling, ExtraFiles
<1> QED
  BY <1>4, <1>8, <1>10 DEF Sound

LEMMA DeleteRecordStep ==
  ASSUME Faults = {}, IInv, DeleteUninstallFile
  PROVE  Sound'
<1>1. /\ pc = "deldummies" /\ Linked = {} /\ Good(OsdMain) /\ Exact(Own, chain)
      /\ shown \notin {"installed", "reverted"} /\ UNCHANGED <<osds, job>> /\ record' = NoRecord
  BY DEF DeleteUninstallFile, session, Hit, IInv, Sound, Before, Told
<1>2. pc' \in {"delosd", "readosd"} /\ shown' = shown
  BY DEF DeleteUninstallFile, Unpatched, Goto
<1>3. Linked' = {} /\ Bare' /\ Good(OsdMain)'
  BY <1>1 DEF Linked, Bare, Good, osds
<1>4. \A f \in OsdFiles : entry[f].kind # "linked"
  BY <1>1 DEF IInv, TypeOK, OsdsOK, Linked
<1>5. Own' = Own
  BY <1>1, <1>4 DEF Own, osds
<1>6. Exact(Own, chain)'
  BY <1>1, <1>5 DEF Exact, osds
<1>7. Before' /\ Writing' /\ Told'
  BY <1>1, <1>2, <1>3 DEF Before, Writing, Told, Unlinked, Filling, ExtraFiles
<1> QED
  BY <1>2, <1>6, <1>7 DEF Sound

LEMMA PatchStep ==
  ASSUME Faults = {}, IInv, PatchDummies
  PROVE  Sound'
<1>1. /\ pc = "patch" /\ OsdsOK /\ Exact(Own, chain) /\ job = "multi" /\ Good(OsdMain)
      /\ Linked = {} /\ record = NoRecord /\ local.linking = entry[OsdMain].to
      /\ shown \notin {"installed", "reverted"}
      /\ \A d \in Dummies : entry[d].kind = "file"
  BY DEF PatchDummies, IInv, TypeOK, Sound, Before, Writing, Told, Unlinked, Filling, Bare
<1>2. Patchable = Dummies
  BY <1>1 DEF Patchable
<1>3. /\ entry' = Patched(Dummies) /\ UNCHANGED <<chain, record, job, console, shown>>
      /\ local' = [local EXCEPT !.saved = [d \in Dummies |-> entry[d].to]] /\ pc' = "record"
  BY <1>2 DEF PatchDummies, Set, Goto, Hit, session
<1>4. local'.linking = local.linking /\ local'.saved = [d \in Dummies |-> entry[d].to]
  BY <1>3 DEF IInv, TypeOK, Local
<1>5. \A f \in OsdFiles :
        entry'[f] = IF f \in Dummies THEN [kind |-> "linked", to |-> local.linking] ELSE entry[f]
  BY <1>3 DEF Patched
<1>6. \A d \in Dummies : /\ entry'[d].kind = "linked" /\ entry'[d].to = local.linking
  <2> SUFFICES ASSUME NEW d \in Dummies
               PROVE  entry'[d].kind = "linked" /\ entry'[d].to = local.linking
    OBVIOUS
  <2>1. entry'[d] = [kind |-> "linked", to |-> local.linking]
    BY <1>5, TabOK
  <2> QED
    BY <2>1
<1>7. \A f \in OsdFiles : f \notin Dummies => entry'[f] = entry[f] /\ entry[f].kind # "linked"
  BY <1>1, <1>5 DEF OsdsOK
<1>8. Own = [f \in OsdFiles |-> entry[f].to]
  BY <1>1, OwnWithoutLinks
<1>9. \A f \in OsdFiles : Own'[f] = entry[f].to
  BY <1>3, <1>4, <1>6, <1>7 DEF Own
<1>10. Exact(Own, chain)'
  BY <1>1, <1>3, <1>8, <1>9 DEF Exact
<1>11. Shared'
  <2>1. entry'[OsdMain] = entry[OsdMain] /\ Good(OsdMain)'
    BY <1>1, <1>3, <1>7, TabOK, InstallAssumption DEF Good
  <2>2. \A d \in Dummies : Own'[d] # Null
    BY <1>1, <1>9, TabOK DEF OsdsOK
  <2> QED
    BY <1>1, <1>6, <2>1, <2>2 DEF Shared
<1>12. local'.linking = entry'[OsdMain].to
  BY <1>1, <1>4, <1>7, TabOK, InstallAssumption
<1>13. Before' /\ Writing' /\ Told'
  BY <1>1, <1>3, <1>11, <1>12 DEF Before, Writing, Told, Unlinked, Filling, ExtraFiles
<1> QED
  BY <1>3, <1>10, <1>13 DEF Sound

LEMMA WriteRecordStep ==
  ASSUME Faults = {}, IInv, WriteUninstallFile
  PROVE  Sound'
<1>1. /\ pc = "record" /\ OsdsOK /\ Exact(Own, chain) /\ job = "multi" /\ Shared
      /\ local.linking = entry[OsdMain].to /\ shown \notin {"installed", "reverted"}
  BY DEF WriteUninstallFile, IInv, TypeOK, Sound, Writing, Told
<1>2. /\ record' = RecordUpTo(NumDummies) /\ pc' = "installed"
      /\ UNCHANGED <<entry, chain, job, console, shown>>
  BY DEF WriteUninstallFile, Goto, Hit, osds, session
<1>3. record'.state = "full" /\ \A d \in Dummies : record'.to[d] = local.saved[d]
  BY <1>2 DEF RecordUpTo, Dummies
<1>4. \A d \in Dummies : record'.link = local.linking
  <2> SUFFICES ASSUME NEW d \in Dummies PROVE record'.link = local.linking
    OBVIOUS
  <2>1. NumDummies # 0
    BY TabOK DEF Dummies
  <2> QED
    BY <1>2, <2>1 DEF RecordUpTo
<1>5. \A f \in OsdFiles : Own'[f] = Own[f]
  BY <1>1, <1>2, <1>3 DEF Own, OsdsOK
<1>6. Exact(Own, chain)'
  BY <1>1, <1>2, <1>5 DEF Exact
<1>7. Shared'
  BY <1>1, <1>2, <1>5, TabOK DEF Shared, Good
<1>8. Full'
  BY <1>1, <1>2, <1>3, <1>4, <1>7 DEF Full, Shared
<1>9. Before' /\ Writing' /\ Told'
  BY <1>1, <1>2, <1>8 DEF Before, Writing, Told, Done, Unlinked, Filling, ExtraFiles
<1> QED
  BY <1>2, <1>6, <1>9 DEF Sound

LEMMA FormatStep ==
  ASSUME IInv, Format
  PROVE  Sound'
<1>1. pc' = "menu" /\ shown' = "formatted" /\ record' = NoRecord
  BY DEF Format
<1>2. \A f \in OsdFiles : entry'[f].kind = "none" /\ entry'[f].to = Null
  BY DEF Format, NoEntry
<1>3. \A c \in Chains : chain'[c] = "free"
  BY DEF Format
<1>4. \A f \in OsdFiles : Own'[f] = Null
  BY <1>2 DEF Own
<1>5. Exact(Own, chain)' /\ Bare'
  BY <1>1, <1>2, <1>3, <1>4, TabOK DEF Exact, Bare, Linked
<1>6. Before' /\ Writing' /\ Told'
  BY <1>1, <1>5 DEF Before, Writing, Told, Unlinked, Filling, ExtraFiles
<1> QED
  BY <1>1, <1>5, <1>6 DEF Sound

------------------------------------------------------------------------------
(* The invariant                                                           *)

LEMMA InitSound == Init => IInv
<1> SUFFICES ASSUME Init PROVE Sound
  BY InitType DEF IInv
<1>1. pc = "menu" /\ shown = "none" /\ record = NoRecord
  BY DEF Init
<1>2. \A f \in OsdFiles : entry[f].kind = "none" /\ entry[f].to = Null
  BY DEF Init, NoEntry
<1>3. \A c \in Chains : chain[c] = "free"
  BY DEF Init
<1>4. \A f \in OsdFiles : Own[f] = Null
  BY <1>2 DEF Own
<1>5. Exact(Own, chain) /\ Bare
  BY <1>1, <1>2, <1>3, <1>4, TabOK DEF Exact, Bare, Linked
<1>6. Before /\ Writing /\ Told
  BY <1>1, <1>5 DEF Before, Writing, Told, Unlinked, Filling, ExtraFiles
<1> QED
  BY <1>1, <1>5, <1>6 DEF Sound

(* Nothing else can happen with nothing failing: the power stays on, and   *)
(* the record is never without its header.                                 *)
LEMMA NoAccident ==
  ASSUME Faults = {}, IInv
  PROVE  ~PowerOff /\ ~WildRecord
<1>1. ~PowerOff
  BY DEF PowerOff, Hit
<1>2. pc = "unpatch" => record.state # "torn"
  BY DEF IInv, Sound, Before, Bare, Full, NoRecord
<1> QED
  BY <1>1, <1>2 DEF WildRecord

LEMMA NextSound ==
  ASSUME Faults = {}, IInv, [Next]_vars
  PROVE  IInv'
<1>1. TypeOK'
  BY NextType DEF IInv
<1>2. Sound'
  <2>1. CASE UNCHANGED vars
    <3>1. UNCHANGED <<entry, chain, record, console, job, pc, local, shown>>
      BY <2>1 DEF vars, card, session
    <3>2. /\ Own' = Own /\ Linked' = Linked
          /\ \A f : Good(f)' <=> Good(f)
      BY <3>1 DEF Own, Linked, Good
    <3>3. Exact(Own, chain)' = Exact(Own, chain) /\ Bare' = Bare /\ Shared' = Shared
      BY <3>1, <3>2 DEF Exact, Bare, Shared
    <3>4. Full' = Full /\ Done' = Done
      BY <3>1, <3>2, <3>3 DEF Full, Done
    <3> QED
      BY <3>1, <3>2, <3>3, <3>4 DEF IInv, Sound, Before, Writing, Told
  <2>2. CASE NewSession \/ StartInstall \/ StartUninstall
    BY <2>2, MenuSteps
  <2>3. CASE Prepare \/ NoUninstallFile \/ ReadUninstallFile
    BY <2>3, ReadSteps
  <2>4. CASE WriteIcons \/ WriteCnf \/ WriteUsbd \/ WriteElf
    BY <2>4, ExtraSteps
  <2>5. CASE DummiesWritten \/ ScanOsd \/ Installed \/ ReadOsd
    BY <2>5, OtherSteps
  <2>6. CASE DeleteDummy \/ DeleteOsd \/ DropOsdMain
    BY <2>6, DeleteSteps
  <2> QED
    BY <2>1, <2>2, <2>3, <2>4, <2>5, <2>6, WriteOsdStep, WriteDummyStep, RewriteStep,
       UnPatchStep, DeleteRecordStep, PatchStep, WriteRecordStep, FormatStep, NoAccident
       DEF Next, JobStep
<1> QED
  BY <1>1, <1>2 DEF IInv

------------------------------------------------------------------------------
(* What it means for the card                                              *)

(* Dummies are linked on a multi-version card only, or on one about to be. *)
LEMMA LinksShared ==
  ASSUME IInv, Linked # {}
  PROVE  Shared /\ (pc = "record" => record = NoRecord)
BY DEF IInv, TypeOK, Sound, Before, Writing, Unlinked, Filling, ExtraFiles, Steps, Done, Bare, Full

(* What an entry points at.                                                *)
LEMMA PointsAt ==
  ASSUME IInv, NEW f \in Present
  PROVE  /\ entry[f].to # Null /\ entry[f].to \in Chains
         /\ f \notin Linked => entry[f].to = Own[f]
         /\ f \in Linked => /\ entry[f].to = Own[OsdMain] /\ Own[f] # Null
                            /\ Own[f] = IF pc = "record" THEN local.saved[f] ELSE record.to[f]
<1>1. f \in OsdFiles /\ OsdMain \in OsdFiles /\ OsdsOK /\ entry[f].kind \in {"file", "linked"}
  BY TabOK DEF Present, IInv, TypeOK, OsdsOK, Entry
<1>2. CASE entry[f].kind = "linked"
  <2>1. f \in Linked /\ f \in Dummies
    BY <1>1, <1>2 DEF OsdsOK, Linked
  <2>2. /\ entry[f].to = entry[OsdMain].to /\ Own[f] # Null
        /\ entry[OsdMain].kind = "file"
    BY <2>1, LinksShared DEF Shared, Good
  <2>3. entry[OsdMain].to = Own[OsdMain] /\ entry[OsdMain].to # Null
    BY <1>1, <2>2 DEF Own, OsdsOK
  <2>4. Own[f] = IF pc = "record" THEN local.saved[f] ELSE record.to[f]
    BY <1>1, <1>2 DEF Own
  <2> QED
    BY <1>1, <2>1, <2>2, <2>3, <2>4 DEF OsdsOK, Entry
<1>3. CASE entry[f].kind # "linked"
  BY <1>1, <1>3 DEF Own, OsdsOK, Entry, Linked
<1> QED
  BY <1>2, <1>3

LEMMA SoundChains ==
  ASSUME IInv
  PROVE  ChainsSound
<1>1. /\ Exact(Own, chain) /\ Present \subseteq OsdFiles /\ OsdMain \in OsdFiles
      /\ Linked \subseteq Present \ {OsdMain}
  BY TabOK, InstallAssumption DEF IInv, Sound, Present, Linked
<1>2. ASSUME NEW f \in Present PROVE entry[f].to \in Chains /\ chain[entry[f].to] # "free"
  <2>1. \E g \in OsdFiles : entry[f].to = Own[g]
    BY <1>1, PointsAt
  <2> QED
    BY <2>1, PointsAt, <1>1 DEF Exact
<1>3. ASSUME NEW f \in Present, NEW g \in Present, entry[f].to = entry[g].to
      PROVE  f = g \/ {f, g} \subseteq {OsdMain} \cup Linked
  <2> DEFINE owner(h) == IF h \in Linked THEN OsdMain ELSE h
  <2>1. Own[owner(f)] = entry[f].to /\ Own[owner(g)] = entry[g].to /\ entry[f].to # Null
    BY PointsAt
  <2>2. owner(f) = owner(g)
    BY <1>1, <1>3, <2>1 DEF Exact
  <2> QED
    BY <2>2
<1>4. ASSUME NEW d \in Linked, NEW f \in Present, record.to[d] # Null
      PROVE  entry[f].to # record.to[d]
  <2>1. record # NoRecord
    BY <1>4 DEF NoRecord, NoSave, Linked
  <2>2. pc # "record"
    BY <2>1, LinksShared
  <2>3. Own[d] = record.to[d] /\ d \in OsdFiles /\ d # OsdMain
    BY <1>1, <2>2, PointsAt
  <2>4. CASE f \in Linked
    BY <1>1, <1>4, <2>3, <2>4, PointsAt DEF Exact
  <2>5. CASE f \notin Linked
    BY <1>1, <1>4, <2>3, <2>5, PointsAt DEF Exact
  <2> QED
    BY <2>4, <2>5
<1> QED
  BY <1>2, <1>3, <1>4 DEF ChainsSound

LEMMA SoundNoLeak ==
  ASSUME IInv
  PROVE  NoLeak
<1> SUFFICES ASSUME NEW c \in Chains, chain[c] # "free" PROVE c \in Owned
  BY DEF NoLeak
<1>1. PICK f \in OsdFiles : Own[f] = c
  BY DEF IInv, Sound, Exact
<1>2. CASE entry[f].kind = "linked"
  <2>1. f \in Linked
    BY <1>2 DEF IInv, TypeOK, OsdsOK, Linked
  <2>2. f \in Dummies /\ c = IF pc = "record" THEN local.saved[f] ELSE record.to[f]
    BY <1>1, <1>2, <2>1 DEF Own, Linked
  <2> QED
    BY <2>1, <2>2 DEF Owned
<1>3. CASE entry[f].kind # "linked"
  <2>1. entry[f].to = c /\ c # Null
    BY <1>1, <1>3, InstallAssumption DEF Own
  <2>2. f \in Present
    BY <2>1 DEF Present, IInv, TypeOK, OsdsOK
  <2> QED
    BY <2>1, <2>2 DEF Owned
<1> QED
  BY <1>2, <1>3

LEMMA SoundBoots ==
  ASSUME IInv, shown = "installed"
  PROVE  Boots /\ Covered
<1>1. Done /\ pc = "menu" /\ OsdsOK
  BY DEF IInv, TypeOK, Sound, Told
<1>2. \A f \in OsdFiles : Good(f) => entry[f].kind = "file" /\ IsOsd(f)
  BY <1>1 DEF Good, IsOsd, OsdsOK
<1>3. CASE job = "multi"
  <2>1. Shared /\ \A d \in Dummies : record.link = entry[d].to
    BY <1>1, <1>3 DEF Done, Full
  <2>2. entry[OsdMain].kind = "file" /\ IsOsd(OsdMain)
    BY <1>2, <2>1, TabOK DEF Shared
  <2>3. \A d \in Dummies : entry[d].kind = "linked" /\ IsOsd(d)
    BY <2>1, <2>2 DEF Shared, IsOsd
  <2>4. \A d \in Dummies : record.to[d] # Null
    BY <1>1, <2>1, TabOK DEF Shared, Own
  <2> QED
    BY <1>3, <2>1, <2>2, <2>3, <2>4 DEF Boots, Covered, Linked
<1>4. CASE job # "multi"
  <2>1. Linked = {} /\ Good(console) /\ console \in OsdFiles
    BY <1>1, <1>4, TabOK DEF Done, Bare, IInv, TypeOK
  <2> QED
    BY <1>2, <1>4, <2>1, NothingLinked DEF Boots
<1> QED
  BY <1>3, <1>4

LEMMA SoundReverted ==
  ASSUME IInv
  PROVE  Reverted
<1> SUFFICES ASSUME shown = "reverted"
             PROVE  /\ entry[console].kind = "file" /\ IsOsd(console)
                    /\ Linked = {} /\ record.state = "none"
  BY DEF Reverted
<1>1. Bare /\ Good(console) /\ console \in OsdFiles /\ OsdsOK
  BY TabOK DEF IInv, TypeOK, Sound, Told
<1> QED
  BY <1>1 DEF Bare, Good, IsOsd, OsdsOK, NoRecord

LEMMA SoundForever ==
  ASSUME Faults = {}
  PROVE  Spec => []IInv
<1>1. IInv /\ [Next]_vars => IInv'
  BY NextSound
<1> QED
  BY <1>1, InitSound, PTL DEF Spec

(* With nothing failing, whatever is installed, uninstalled and formatted, *)
(* in whatever order and on whatever consoles: every entry points at       *)
(* allocated clusters, which it shares as a linked dummy only, and those a *)
(* linked dummy gets back are its own (main.c:1465, 1482, 1528, 1578).     *)
THEOREM ChainsStaySound ==
  ASSUME Faults = {}
  PROVE  Spec => []ChainsSound
<1>1. IInv => ChainsSound
  BY SoundChains
<1> QED
  BY <1>1, SoundForever, PTL

(* No clusters stay allocated which no entry points at and no linked dummy *)
(* gets back (the same deletions and patches).                             *)
THEOREM NothingLeaks ==
  ASSUME Faults = {}
  PROVE  Spec => []NoLeak
<1>1. IInv => NoLeak
  BY SoundNoLeak
<1> QED
  BY <1>1, SoundForever, PTL

(* When an installation says it was successful (main.c:2731), every name   *)
(* of dummies_tab and osdmain.elf, after a normal one the console's own    *)
(* name, is the complete OSD, and the record can undo it.                  *)
THEOREM SuccessBoots ==
  ASSUME Faults = {}
  PROVE  Spec => []InstalledBoots
<1>1. IInv => InstalledBoots
  BY SoundBoots DEF InstalledBoots
<1> QED
  BY <1>1, SoundForever, PTL

(* When an uninstallation says the card is reverted (main.c:2957), it has  *)
(* the OSD of this console, no linked dummy and no uninstall file.         *)
THEOREM RevertedIs ==
  ASSUME Faults = {}
  PROVE  Spec => []Reverted
<1>1. IInv => Reverted
  BY SoundReverted
<1> QED
  BY <1>1, SoundForever, PTL

==============================================================================

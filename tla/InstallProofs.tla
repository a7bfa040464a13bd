---------------------------- MODULE InstallProofs ----------------------------
(***************************************************************************)
(* Proofs about Install, for any dummies, consoles, chains and faults: its *)
(* types, and that only the patch and the writing of uninstall.dat after   *)
(* it can leave a linked dummy without a record, provided that a call of   *)
(* the patcher gets through, and that the last dialog of an installation   *)
(* that began on a card in order is true of the OSD files.                 *)
(*                                                                         *)
(* What the second needs is that no dummy of the record is still linked by *)
(* the time the record is deleted (Spent), and the third, what each step   *)
(* of an installation leaves to the next (FromClean).                      *)
(***************************************************************************)
EXTENDS Install, TLAPS

(* No linked dummy is one the record could unlink, from the unpatch to the *)
(* deletion of the record.                                                 *)
Spent == pc = "deldummies" => Matched = {}

------------------------------------------------------------------------------
(* The card                                                                *)

LEMMA TabOK ==
  /\ NumDummies \in Nat
  /\ \A i \in 1 .. NumDummies : DummyTab[i] \in Dummies
  /\ Dummies \subseteq OsdFiles /\ OsdMain \in OsdFiles /\ OsdNames \subseteq OsdFiles
<1>1. NumDummies \in Nat
  BY InstallAssumption DEF NumDummies
<1> QED
  BY <1>1 DEF Dummies, OsdFiles

(* A file that is deleted or stored leaves well-formed entries and chains. *)
LEMMA FreedType ==
  ASSUME OsdsOK, NEW f \in OsdFiles
  PROVE  Freed(f) \in [Chains -> ChainValues]
  BY DEF OsdsOK, Freed, ChainValues, Entry

LEMMA DeleteOK ==
  ASSUME OsdsOK, NEW f \in OsdFiles, Delete(f)
  PROVE  /\ OsdsOK'
         /\ \A d \in Dummies : entry'[d] = entry[d] \/ entry'[d].kind # "linked"
<1>1. entry' = [entry EXCEPT ![f] = NoEntry] /\ chain' = Freed(f)
  BY DEF Delete
<1>2. NoEntry \in Entry /\ NoEntry.kind = "none" /\ NoEntry.to = Null
  BY DEF NoEntry, Entry
<1>3. entry' \in [OsdFiles -> Entry] /\ chain' \in [Chains -> ChainValues]
  BY <1>1, <1>2, FreedType DEF OsdsOK
<1>4. \A g \in OsdFiles : entry'[g] = (IF g = f THEN NoEntry ELSE entry[g])
  BY <1>1 DEF OsdsOK
<1> QED
  BY <1>2, <1>3, <1>4, TabOK DEF OsdsOK

LEMMA StoreOK ==
  ASSUME OsdsOK, NEW f \in OsdFiles, NEW what \in ChainValues, Store(f, what)
  PROVE  /\ OsdsOK'
         /\ \A d \in Dummies : entry'[d] = entry[d] \/ entry'[d].kind # "linked"
<1>1. PICK c \in FreeChains(Freed(f)) :
        /\ chain' = [Freed(f) EXCEPT ![c] = what]
        /\ entry' = [entry EXCEPT ![f] = [kind |-> "file", to |-> c]]
  BY DEF Store
<1>2. c \in Chains /\ c # Null
  BY InstallAssumption DEF FreeChains
<1> DEFINE e == [kind |-> "file", to |-> c]
<1>3. e \in Entry /\ e.kind = "file" /\ e.to # Null
  BY <1>2 DEF Entry
<1>4. entry' \in [OsdFiles -> Entry] /\ chain' \in [Chains -> ChainValues]
  BY <1>1, <1>2, <1>3, FreedType DEF OsdsOK
<1>5. \A g \in OsdFiles : entry'[g] = (IF g = f THEN e ELSE entry[g])
  BY <1>1 DEF OsdsOK
<1> QED
  BY <1>3, <1>4, <1>5, TabOK DEF OsdsOK

(* Whatever becomes of Create_File.                                        *)
LEMMA CreateOK ==
  ASSUME OsdsOK, NEW f \in OsdFiles, NEW what \in ChainValues,
         Create(f, what) \/ CreateFails(f)
  PROVE  /\ OsdsOK'
         /\ \A d \in Dummies : entry'[d] = entry[d] \/ entry'[d].kind # "linked"
<1>1. "torn" \in ChainValues
  BY DEF ChainValues
<1>2. CASE Store(f, what)
  BY <1>2, StoreOK
<1>3. CASE Store(f, "torn")
  BY <1>1, <1>3, StoreOK
<1>4. CASE Delete(f)
  BY <1>4, DeleteOK
<1>5. CASE UNCHANGED <<entry, chain>>
  BY <1>5 DEF OsdsOK
<1> QED
  BY <1>2, <1>3, <1>4, <1>5 DEF Create, CreateFails

(* Linking or unlinking some of the dummies.                               *)
LEMMA RestoredOK ==
  ASSUME OsdsOK, record \in Record, NEW S \in SUBSET Matched,
         entry' = Restored(S), UNCHANGED chain
  PROVE  OsdsOK'
<1>1. \A f \in S : f \in OsdFiles /\ record.to[f] \in Chains /\ record.to[f] # Null
  BY TabOK DEF Matched, Linked, Record
<1>2. \A f \in OsdFiles :
        entry'[f] = IF f \in S THEN [kind |-> "file", to |-> record.to[f]] ELSE entry[f]
  BY DEF Restored
<1>3. entry' \in [OsdFiles -> Entry]
  BY <1>1 DEF Restored, OsdsOK, Entry
<1> QED
  BY <1>1, <1>2, <1>3 DEF OsdsOK

LEMMA PatchedOK ==
  ASSUME OsdsOK, local \in Local, NEW S \in SUBSET Patchable,
         entry' = Patched(S), UNCHANGED chain
  PROVE  OsdsOK'
<1>1. \A f \in S : f \in Dummies /\ f \in OsdFiles
  BY TabOK DEF Patchable
<1>2. \A f \in OsdFiles :
        entry'[f] = IF f \in S THEN [kind |-> "linked", to |-> local.linking] ELSE entry[f]
  BY DEF Patched
<1>3. entry' \in [OsdFiles -> Entry]
  BY <1>1 DEF Patched, OsdsOK, Entry, Local
<1> QED
  BY <1>1, <1>2, <1>3 DEF OsdsOK

------------------------------------------------------------------------------
(* Types                                                                   *)

LEMMA NoneOK ==
  /\ NoSave \in [Dummies -> Chains \cup {Null}]
  /\ NoRecord \in Record
  /\ NoLocals \in Local
<1>1. NoSave \in [Dummies -> Chains \cup {Null}]
  BY DEF NoSave
<1>2. NoRecord \in Record
  BY <1>1 DEF NoRecord, Record
<1>3. 1 \in 1 .. NumDummies + 1
  BY TabOK
<1> QED
  BY <1>1, <1>2, <1>3 DEF NoLocals, Local, ChainValues

LEMMA RecordOK ==
  ASSUME local \in Local, NEW n
  PROVE  RecordUpTo(n) \in Record
  BY DEF RecordUpTo, Record, Local

LEMMA UnpatchedOK ==
  ASSUME NEW r \in -1 .. 1, Unpatched(r), pc \in Steps
  PROVE  local' \in Local /\ pc' \in Steps /\ clean' \in BOOLEAN
<1>1. [NoLocals EXCEPT !.unpatched = r] \in Local
  BY NoneOK DEF Local
<1>2. local' \in Local
  BY <1>1, NoneOK DEF Unpatched, End
<1>3. pc' \in Steps
  BY DEF Unpatched, End, Goto, Steps
<1>4. clean' \in BOOLEAN
  BY DEF Unpatched, Separate
<1> QED
  BY <1>2, <1>3, <1>4

LEMMA InitType == Init => TypeOK
<1> SUFFICES ASSUME Init PROVE TypeOK
  OBVIOUS
<1>1. OsdsOK
  BY DEF Init, OsdsOK, NoEntry, Entry, ChainValues
<1> QED
  BY <1>1, NoneOK DEF Init, TypeOK, Modes, Steps

LEMMA NextType == TypeOK /\ [Next]_vars => TypeOK'
<1> SUFFICES ASSUME TypeOK, [Next]_vars PROVE TypeOK'
  OBVIOUS
<1> USE NoneOK, TabOK DEF TypeOK, card, osds, session, Goto, End, Set
<1>a. OsdsOK /\ record \in Record /\ local \in Local /\ console \in OsdFiles
  BY TabOK
<1>b. /\ {"osd", "dummy", "torn"} \subseteq ChainValues
      /\ local.osd_elf \in ChainValues /\ local.k \in 1 .. NumDummies + 1
  BY DEF ChainValues, Local
<1>c. ASSUME UNCHANGED osds PROVE OsdsOK'
  BY <1>c DEF OsdsOK
<1>1. CASE NewSession
  <2>1. OsdsOK'
    BY <1>1, <1>c DEF NewSession
  <2> QED
    BY <1>1, <2>1 DEF NewSession, Steps, Modes
<1>2. CASE Format
  <2>1. OsdsOK'
    BY <1>2 DEF Format, OsdsOK, NoEntry, Entry, ChainValues
  <2> QED
    BY <1>2, <2>1 DEF Format, Steps
<1>3. CASE StartInstall
  <2>1. OsdsOK'
    BY <1>3, <1>c DEF StartInstall, Begin
  <2> QED
    BY <1>3, <2>1 DEF StartInstall, Begin, Steps, Modes
<1>4. CASE StartUninstall
  <2>1. OsdsOK'
    BY <1>4, <1>c DEF StartUninstall, Begin
  <2> QED
    BY <1>4, <2>1 DEF StartUninstall, Begin, Steps, Modes
<1>5. CASE Prepare
  <2>1. OsdsOK'
    BY <1>5, <1>c DEF Prepare
  <2> QED
    BY <1>5, <2>1 DEF Prepare, Steps, Modes
<1>6. CASE NoUninstallFile
  <2>1. OsdsOK'
    BY <1>6, <1>c DEF NoUninstallFile, Unpatched
  <2>2. local' \in Local /\ pc' \in Steps /\ clean' \in BOOLEAN
    BY <1>6, <1>a, UnpatchedOK DEF NoUninstallFile, Steps
  <2> QED
    BY <1>6, <2>1, <2>2 DEF NoUninstallFile, Unpatched
<1>7. CASE ReadUninstallFile
  <2>1. OsdsOK'
    BY <1>7, <1>c DEF ReadUninstallFile, Unpatched
  <2>2. local' \in Local /\ pc' \in Steps /\ clean' \in BOOLEAN
    BY <1>7, <1>a, UnpatchedOK DEF ReadUninstallFile, Steps
  <2> QED
    BY <1>7, <2>1, <2>2 DEF ReadUninstallFile, Unpatched
<1>8. CASE CallUnPatch
  <2>1. OsdsOK'
    BY <1>8, <1>a, <1>c, RestoredOK DEF CallUnPatch, Unpatched
  <2>2. local' \in Local /\ pc' \in Steps /\ clean' \in BOOLEAN
    BY <1>8, <1>a, UnpatchedOK DEF CallUnPatch, Steps
  <2> QED
    BY <1>8, <2>1, <2>2 DEF CallUnPatch, Unpatched
<1>9. CASE DeleteDummy
  <2>1. OsdsOK'
    BY <1>9, <1>a, <1>b, <1>c, DeleteOK DEF DeleteDummy
  <2> QED
    BY <1>9, <2>1 DEF DeleteDummy, NextDummy, Local
<1>10. CASE DeleteUninstallFile
  <2>1. OsdsOK'
    BY <1>10, <1>c DEF DeleteUninstallFile, Unpatched
  <2>2. local' \in Local /\ pc' \in Steps /\ clean' \in BOOLEAN
    BY <1>10, <1>a, UnpatchedOK DEF DeleteUninstallFile, Steps
  <2> QED
    BY <1>10, <2>1, <2>2 DEF DeleteUninstallFile, Unpatched
<1>11. CASE DeleteOsd
  <2>1. OsdsOK'
    BY <1>11, <1>a, <1>c, DeleteOK DEF DeleteOsd
  <2> QED
    BY <1>11, <2>1 DEF DeleteOsd, Steps
<1>12. CASE WriteOsd
  <2>1. OsdsOK'
    BY <1>12, <1>a, <1>b, CreateOK DEF WriteOsd, OsdPath
  <2> QED
    BY <1>12, <2>1 DEF WriteOsd, Steps, ExtraFiles
<1>13. CASE WriteDummy
  <2>1. OsdsOK'
    BY <1>13, <1>a, <1>b, CreateOK DEF WriteDummy
  <2>2. local' \in Local
    BY <1>13, <1>a DEF WriteDummy, NextDummy, Local
  <2> QED
    BY <1>13, <2>1, <2>2 DEF WriteDummy, Steps
<1>14. CASE DummiesWritten
  <2>1. OsdsOK'
    BY <1>14, <1>c DEF DummiesWritten
  <2> QED
    BY <1>14, <2>1 DEF DummiesWritten, Steps, ExtraFiles
<1>15. CASE WriteIcons
  <2>1. OsdsOK'
    BY <1>15, <1>c DEF WriteIcons, ExtraStep
  <2>2. file' \in [ExtraFiles -> {"none", "torn", "good"}]
    BY <1>15 DEF WriteIcons, ExtraStep, WriteExtra, SkipExtra, Put
  <2> QED
    BY <1>15, <2>1, <2>2 DEF WriteIcons, ExtraStep, WriteExtra, SkipExtra, Steps, ExtraFiles
<1>16. CASE WriteCnf
  <2>1. OsdsOK'
    BY <1>16, <1>c DEF WriteCnf, ExtraStep
  <2>2. file' \in [ExtraFiles -> {"none", "torn", "good"}]
    BY <1>16 DEF WriteCnf, ExtraStep, WriteExtra, SkipExtra, Put
  <2> QED
    BY <1>16, <2>1, <2>2 DEF WriteCnf, ExtraStep, WriteExtra, SkipExtra, Steps, ExtraFiles
<1>17. CASE WriteUsbd
  <2>1. OsdsOK'
    BY <1>17, <1>c DEF WriteUsbd, ExtraStep
  <2>2. file' \in [ExtraFiles -> {"none", "torn", "good"}]
    BY <1>17 DEF WriteUsbd, ExtraStep, WriteExtra, SkipExtra, Put
  <2> QED
    BY <1>17, <2>1, <2>2 DEF WriteUsbd, ExtraStep, WriteExtra, SkipExtra, Steps, ExtraFiles
<1>18. CASE WriteElf
  <2>1. OsdsOK'
    BY <1>18, <1>c DEF WriteElf
  <2>2. file' \in [ExtraFiles -> {"none", "torn", "good"}]
    BY <1>18 DEF WriteElf, WriteExtra, SkipExtra, Put
  <2> QED
    BY <1>18, <2>1, <2>2 DEF WriteElf, WriteExtra, SkipExtra, AfterElf, Steps
<1>19. CASE ScanOsd
  <2>1. OsdsOK'
    BY <1>19, <1>c DEF ScanOsd
  <2>2. local' \in Local
    BY <1>19, <1>a DEF ScanOsd, OsdsOK, Entry, Local
  <2> QED
    BY <1>19, <2>1, <2>2 DEF ScanOsd, Steps
<1>20. CASE PatchDummies
  <2>1. OsdsOK'
    BY <1>20, <1>a, <1>c, PatchedOK DEF PatchDummies
  <2>2. local' \in Local
    <3> DEFINE saved == [d \in Dummies |-> IF d \in Patchable THEN entry[d].to ELSE Null]
    <3>1. saved \in [Dummies -> Chains \cup {Null}]
      BY <1>a, TabOK DEF OsdsOK, Entry
    <3>2. \/ local' = [local EXCEPT !["saved"] = saved]
          \/ local' = NoLocals \/ local' = local
      BY <1>20 DEF PatchDummies, Set, End
    <3> HIDE DEF saved
    <3>3. [local EXCEPT !["saved"] = saved] \in Local
      BY <1>a, <3>1 DEF Local
    <3> QED
      BY <1>a, <3>2, <3>3, NoneOK
  <2> QED
    BY <1>20, <2>1, <2>2 DEF PatchDummies, Steps
<1>21. CASE WriteUninstallFile
  <2>1. OsdsOK'
    BY <1>21, <1>c DEF WriteUninstallFile
  <2>2. record' \in Record
    BY <1>21, <1>a, RecordOK DEF WriteUninstallFile, RecordTorn
  <2> QED
    BY <1>21, <2>1, <2>2 DEF WriteUninstallFile, Steps
<1>22. CASE Installed
  <2>1. OsdsOK'
    BY <1>22, <1>c DEF Installed
  <2> QED
    BY <1>22, <2>1 DEF Installed, Steps, Modes
<1>23. CASE ReadOsd
  <2>1. OsdsOK'
    BY <1>23, <1>c DEF ReadOsd
  <2>2. local' \in Local
    BY <1>23, <1>a DEF ReadOsd, OsdsOK, Entry, Local
  <2> QED
    BY <1>23, <2>1, <2>2 DEF ReadOsd, Steps
<1>24. CASE DropOsdMain
  <2>1. OsdsOK'
    BY <1>24, <1>a, <1>c, DeleteOK DEF DropOsdMain
  <2> QED
    BY <1>24, <2>1 DEF DropOsdMain, Steps
<1>25. CASE RewriteOsd
  <2>1. OsdsOK'
    BY <1>25, <1>a, <1>b, CreateOK DEF RewriteOsd
  <2> QED
    BY <1>25, <2>1 DEF RewriteOsd, Steps
<1>26. CASE PowerOff
  <2>1. OsdsOK'
    BY <1>26, <1>a, <1>b, <1>c, StoreOK, RestoredOK, PatchedOK DEF PowerOff, CutOsd, OsdPath
  <2>2. record' \in Record
    BY <1>26, <1>a, RecordOK DEF PowerOff, CutOsd, RecordTorn
  <2>3. file' \in [ExtraFiles -> {"none", "torn", "good"}]
    BY <1>26 DEF PowerOff, CutOsd, Put
  <2> QED
    BY <1>26, <2>1, <2>2, <2>3 DEF PowerOff, Steps
<1>27. CASE WildRecord
  <2>1. OsdsOK'
    BY <1>27, <1>c DEF WildRecord
  <2> QED
    BY <1>27, <2>1 DEF WildRecord, Steps, Modes
<1>28. CASE UNCHANGED vars
  BY <1>28, <1>c DEF vars
<1> QED
  BY <1>1, <1>2, <1>3, <1>4, <1>5, <1>6, <1>7, <1>8, <1>9, <1>10, <1>11,
     <1>12, <1>13, <1>14, <1>15, <1>16, <1>17, <1>18, <1>19, <1>20, <1>21,
     <1>22, <1>23, <1>24, <1>25, <1>26, <1>27, <1>28 DEF Next, JobStep

(* The types of all variables.                                             *)
THEOREM TypeCorrect == Spec => []TypeOK
  BY InitType, NextType, PTL DEF Spec

------------------------------------------------------------------------------
(* Covered                                                                 *)

(* Entries that become or stay what they were, or are linked no more, add  *)
(* nothing to Linked or Matched as long as the record is the same.         *)
LEMMA FewerLinks ==
  ASSUME UNCHANGED record,
         \A d \in Dummies : entry'[d] = entry[d] \/ entry'[d].kind # "linked"
  PROVE  /\ Covered => Covered'
         /\ Matched = {} => Matched' = {}
<1>1. \A d \in Linked' : d \in Linked /\ entry'[d] = entry[d]
  BY DEF Linked
<1> QED
  BY <1>1 DEF Covered, Matched

(* The entries that are not restored stay as they were.                    *)
LEMMA RestoreOnlyUnlinks ==
  ASSUME NEW S, S \subseteq Matched, entry' = Restored(S)
  PROVE  /\ \A d \in Dummies : entry'[d] = entry[d] \/ entry'[d].kind # "linked"
         /\ \A d \in S : entry'[d].kind # "linked"
<1>1. \A d \in Dummies :
        entry'[d] = IF d \in S THEN [kind |-> "file", to |-> record.to[d]] ELSE entry[d]
  BY TabOK DEF Restored
<1>2. S \subseteq Dummies
  BY DEF Matched, Linked
<1>3. ASSUME NEW d \in S PROVE entry'[d].kind = "file"
  <2>1. entry'[d] = [kind |-> "file", to |-> record.to[d]]
    BY <1>1, <1>2
  <2> QED
    BY <2>1
<1>4. ASSUME NEW d \in Dummies, d \notin S PROVE entry'[d] = entry[d]
  BY <1>1, <1>4
<1>5. "file" # "linked"
  OBVIOUS
<1> QED
  BY <1>3, <1>4, <1>5

(* A card without a linked dummy is covered by any record.                 *)
LEMMA NothingLinked ==
  (Linked = {} => Covered) /\ (Covered /\ Matched = {} => Linked = {})
  BY DEF Covered, Matched, Linked

(* Files other than OSDs, dialogs and locals do not matter.                *)
LEMMA SameLinks ==
  ASSUME UNCHANGED <<entry, record>>
  PROVE  (Covered' <=> Covered) /\ Matched' = Matched
  BY DEF Covered, Matched, Linked

(* One step, all actions: Spent is kept, and Covered is lost in the patch  *)
(* and before the record only.                                             *)
LEMMA NextSpent ==
  ASSUME "rpc" \notin Faults, TypeOK, Spent, [Next]_vars
  PROVE  /\ Spent'
         /\ Covered => Covered' \/ pc \in {"patch", "record"}
<1> USE TabOK DEF card, osds, session, Goto, End
<1>a. OsdsOK /\ record \in Record /\ local \in Local /\ console \in OsdFiles
  BY DEF TypeOK
<1>b. /\ {"osd", "dummy", "torn"} \subseteq ChainValues
      /\ local.osd_elf \in ChainValues /\ local.k \in 1 .. NumDummies + 1
  BY <1>a DEF ChainValues, Local
<1>1. CASE NewSession
  <2>1. UNCHANGED <<entry, record>> /\ (pc' = "deldummies" => pc = "deldummies")
    BY <1>1 DEF NewSession
  <2> QED
    BY <2>1, SameLinks DEF Spent
<1>2. CASE Format
  <2>1. \A d \in Dummies : entry'[d].kind = "none"
    BY <1>2 DEF Format, NoEntry
  <2>2. Linked' = {} /\ pc' = "menu"
    BY <1>2, <2>1 DEF Format, Linked
  <2> QED
    BY <2>2 DEF Spent, Covered
<1>3. CASE StartInstall
  <2>1. UNCHANGED <<entry, record>> /\ (pc' = "deldummies" => pc = "deldummies")
    BY <1>3 DEF StartInstall, Begin
  <2> QED
    BY <2>1, SameLinks DEF Spent
<1>4. CASE StartUninstall
  <2>1. UNCHANGED <<entry, record>> /\ (pc' = "deldummies" => pc = "deldummies")
    BY <1>4 DEF StartUninstall, Begin
  <2> QED
    BY <2>1, SameLinks DEF Spent
<1>5. CASE Prepare
  <2>1. UNCHANGED <<entry, record>> /\ (pc' = "deldummies" => pc = "deldummies")
    BY <1>5 DEF Prepare
  <2> QED
    BY <2>1, SameLinks DEF Spent
<1>6. CASE NoUninstallFile
  <2>1. UNCHANGED <<entry, record>> /\ (pc' = "deldummies" => pc = "deldummies")
    BY <1>6 DEF NoUninstallFile, Unpatched
  <2> QED
    BY <2>1, SameLinks DEF Spent
<1>7. CASE ReadUninstallFile
  <2>1. UNCHANGED <<entry, record>> /\ (pc' = "deldummies" => pc = "deldummies")
    BY <1>7 DEF ReadUninstallFile, Unpatched
  <2> QED
    BY <2>1, SameLinks DEF Spent
<1>8. CASE CallUnPatch
  <2>1. UNCHANGED record
    BY <1>8 DEF CallUnPatch
  <2>2. CASE entry' = Restored(Matched)
    <3>1. /\ \A d \in Dummies : entry'[d] = entry[d] \/ entry'[d].kind # "linked"
          /\ \A d \in Matched : entry'[d].kind # "linked"
      BY <2>2, RestoreOnlyUnlinks
    <3>2. Matched' = {}
      BY <2>1, <3>1 DEF Matched, Linked
    <3> QED
      BY <2>1, <3>1, <3>2, FewerLinks DEF Spent
  <2>3. CASE \E S \in SUBSET Matched : entry' = Restored(S) /\ Unpatched(0)
    <3>1. pc' # "deldummies"
      BY <2>3 DEF Unpatched
    <3>2. \A d \in Dummies : entry'[d] = entry[d] \/ entry'[d].kind # "linked"
      <4>1. PICK S \in SUBSET Matched : entry' = Restored(S)
        BY <2>3
      <4> QED
        BY <4>1, RestoreOnlyUnlinks
    <3> QED
      BY <2>1, <3>1, <3>2, FewerLinks DEF Spent
  <2> QED
    BY <1>8, <2>2, <2>3 DEF CallUnPatch, Hit
<1>9. CASE DeleteDummy
  <2>1. \A d \in Dummies : entry'[d] = entry[d] \/ entry'[d].kind # "linked"
    BY <1>9, <1>a, <1>b, DeleteOK DEF DeleteDummy
  <2>2. UNCHANGED record /\ (pc' = "deldummies" => pc = "deldummies")
    BY <1>9 DEF DeleteDummy
  <2> QED
    BY <2>1, <2>2, FewerLinks DEF Spent
<1>10. CASE DeleteUninstallFile
  <2>1. Linked' = Linked /\ Matched = {} /\ pc' # "deldummies"
    BY <1>10 DEF DeleteUninstallFile, Unpatched, Linked, Spent
  <2>2. Covered => Linked' = {}
    BY <2>1, NothingLinked
  <2> QED
    BY <2>1, <2>2 DEF Spent, Covered
<1>11. CASE DeleteOsd
  <2>1. \A d \in Dummies : entry'[d] = entry[d] \/ entry'[d].kind # "linked"
    BY <1>11, <1>a, <1>b, DeleteOK DEF DeleteOsd
  <2>2. UNCHANGED record /\ (pc' = "deldummies" => pc = "deldummies")
    BY <1>11 DEF DeleteOsd
  <2> QED
    BY <2>1, <2>2, FewerLinks DEF Spent
<1>12. CASE WriteOsd
  <2>1. \A d \in Dummies : entry'[d] = entry[d] \/ entry'[d].kind # "linked"
    BY <1>12, <1>a, <1>b, CreateOK DEF WriteOsd, OsdPath
  <2>2. UNCHANGED record /\ (pc' = "deldummies" => pc = "deldummies")
    BY <1>12 DEF WriteOsd
  <2> QED
    BY <2>1, <2>2, FewerLinks DEF Spent
<1>13. CASE WriteDummy
  <2>1. \A d \in Dummies : entry'[d] = entry[d] \/ entry'[d].kind # "linked"
    BY <1>13, <1>a, <1>b, CreateOK DEF WriteDummy
  <2>2. UNCHANGED record /\ (pc' = "deldummies" => pc = "deldummies")
    BY <1>13 DEF WriteDummy
  <2> QED
    BY <2>1, <2>2, FewerLinks DEF Spent
<1>14. CASE DummiesWritten
  <2>1. UNCHANGED <<entry, record>> /\ (pc' = "deldummies" => pc = "deldummies")
    BY <1>14 DEF DummiesWritten
  <2> QED
    BY <2>1, SameLinks DEF Spent
<1>15. CASE WriteIcons
  <2>1. UNCHANGED <<entry, record>> /\ (pc' = "deldummies" => pc = "deldummies")
    BY <1>15 DEF WriteIcons, ExtraStep, WriteExtra, SkipExtra
  <2> QED
    BY <2>1, SameLinks DEF Spent
<1>16. CASE WriteCnf
  <2>1. UNCHANGED <<entry, record>> /\ (pc' = "deldummies" => pc = "deldummies")
    BY <1>16 DEF WriteCnf, ExtraStep, WriteExtra, SkipExtra
  <2> QED
    BY <2>1, SameLinks DEF Spent
<1>17. CASE WriteUsbd
  <2>1. UNCHANGED <<entry, record>> /\ (pc' = "deldummies" => pc = "deldummies")
    BY <1>17 DEF WriteUsbd, ExtraStep, WriteExtra, SkipExtra
  <2> QED
    BY <2>1, SameLinks DEF Spent
<1>18. CASE WriteElf
  <2>1. UNCHANGED <<entry, record>> /\ (pc' = "deldummies" => pc = "deldummies")
    BY <1>18 DEF WriteElf, WriteExtra, SkipExtra, AfterElf
  <2> QED
    BY <2>1, SameLinks DEF Spent
<1>19. CASE ScanOsd
  <2>1. UNCHANGED <<entry, record>> /\ (pc' = "deldummies" => pc = "deldummies")
    BY <1>19 DEF ScanOsd
  <2> QED
    BY <2>1, SameLinks DEF Spent
<1>20. CASE PatchDummies
  BY <1>20 DEF PatchDummies, Spent
<1>21. CASE WriteUninstallFile
  BY <1>21 DEF WriteUninstallFile, Spent
<1>22. CASE Installed
  <2>1. UNCHANGED <<entry, record>> /\ (pc' = "deldummies" => pc = "deldummies")
    BY <1>22 DEF Installed
  <2> QED
    BY <2>1, SameLinks DEF Spent
<1>23. CASE ReadOsd
  <2>1. UNCHANGED <<entry, record>> /\ (pc' = "deldummies" => pc = "deldummies")
    BY <1>23 DEF ReadOsd
  <2> QED
    BY <2>1, SameLinks DEF Spent
<1>24. CASE DropOsdMain
  <2>1. \A d \in Dummies : entry'[d] = entry[d] \/ entry'[d].kind # "linked"
    BY <1>24, <1>a, <1>b, DeleteOK DEF DropOsdMain
  <2>2. UNCHANGED record /\ (pc' = "deldummies" => pc = "deldummies")
    BY <1>24 DEF DropOsdMain
  <2> QED
    BY <2>1, <2>2, FewerLinks DEF Spent
<1>25. CASE RewriteOsd
  <2>1. \A d \in Dummies : entry'[d] = entry[d] \/ entry'[d].kind # "linked"
    BY <1>25, <1>a, <1>b, CreateOK DEF RewriteOsd
  <2>2. UNCHANGED record /\ (pc' = "deldummies" => pc = "deldummies")
    BY <1>25 DEF RewriteOsd
  <2> QED
    BY <2>1, <2>2, FewerLinks DEF Spent
<1>26. CASE PowerOff
  <2>1. pc' = "menu"
    BY <1>26 DEF PowerOff
  <2>2. CASE UNCHANGED <<entry, record>>
    BY <2>1, <2>2, SameLinks DEF Spent
  <2>3. CASE \E f \in OsdFiles : Store(f, "torn") /\ UNCHANGED record
    BY <1>a, <1>b, <2>1, <2>3, StoreOK, FewerLinks DEF Spent
  <2>4. CASE (\E S \in SUBSET Matched : entry' = Restored(S)) /\ UNCHANGED record
    <3>1. PICK S \in SUBSET Matched : entry' = Restored(S)
      BY <2>4
    <3>2. \A d \in Dummies : entry'[d] = entry[d] \/ entry'[d].kind # "linked"
      BY <3>1, RestoreOnlyUnlinks
    <3> QED
      BY <2>1, <2>4, <3>2, FewerLinks DEF Spent
  <2>5. CASE pc \in {"patch", "record"}
    BY <2>1, <2>5 DEF Spent
  <2> QED
    BY <1>26, <1>a, <1>b, <2>2, <2>3, <2>4, <2>5 DEF PowerOff, CutOsd, OsdPath
<1>27. CASE WildRecord
  <2>1. UNCHANGED <<entry, record>> /\ (pc' = "deldummies" => pc = "deldummies")
    BY <1>27 DEF WildRecord
  <2> QED
    BY <2>1, SameLinks DEF Spent
<1>28. CASE UNCHANGED vars
  BY <1>28, SameLinks DEF vars, Spent
<1> QED
  BY <1>1, <1>2, <1>3, <1>4, <1>5, <1>6, <1>7, <1>8, <1>9, <1>10, <1>11,
     <1>12, <1>13, <1>14, <1>15, <1>16, <1>17, <1>18, <1>19, <1>20, <1>21,
     <1>22, <1>23, <1>24, <1>25, <1>26, <1>27, <1>28 DEF Next, JobStep

(* As long as the calls of the patcher get through, and whatever else      *)
(* fails, only the patch and the writing of uninstall.dat after it can     *)
(* leave a linked dummy that no record covers (main.c:2156-2186).          *)
THEOREM PatchUncovers ==
  ASSUME "rpc" \notin Faults
  PROVE  Spec => OnlyPatchUncovers
<1>1. Init => TypeOK /\ Spent
  BY InitType DEF Init, Spent
<1>2. TypeOK /\ Spent /\ [Next]_vars => TypeOK' /\ Spent'
  BY NextType, NextSpent
<1>3. TypeOK /\ Spent /\ [Next]_vars =>
        [Covered => Covered' \/ pc \in {"patch", "record"}]_vars
  BY NextSpent
<1> QED
  BY <1>1, <1>2, <1>3, PTL DEF Spec, OnlyPatchUncovers

------------------------------------------------------------------------------
(* An installation on a card on which every file had its own chain         *)

(* The OSD under one name; what an installation has got done so far, if    *)
(* the card was Separate when unpatch_dummies returned.                    *)
Good(f) == entry[f].kind = "file" /\ chain[entry[f].to] = "osd"
Filling == {"dummies", "scan", "patch"} \cup ExtraFiles
Relinked == /\ Good(OsdMain)
            /\ \A d \in Dummies : entry[d].kind = "linked" /\ entry[d].to = entry[OsdMain].to
Progress ==
  /\ pc \in {"delosd", "osd"} \cup Filling => Separate
  /\ pc \in Filling => Good(OsdPath)
  /\ pc = "dummies" => \A i \in 1 .. local.k - 1 : entry[DummyTab[i]].kind = "file"
  /\ pc \in Filling \ {"dummies"} /\ job = "multi" => \A d \in Dummies : entry[d].kind = "file"
  /\ pc = "record" => Relinked
  /\ pc = "installed" \/ shown = "installed" => Boots
FromClean ==
  /\ pc = "osd" => local.k = 1
  /\ pc \in {"dummies", "scan", "patch", "record"} => job = "multi"
  /\ pc = "patch" => local.linking = entry[OsdMain].to
  /\ pc # "menu" => shown # "installed"
  /\ clean => Progress


LEMMA SeparateDelete ==
  ASSUME OsdsOK, Separate, NEW f \in OsdFiles, Delete(f)
  PROVE  Separate' /\ \A g \in OsdFiles \ {f} : entry'[g] = entry[g] /\ (Good(g) => Good(g)')
<1>1. \A g \in OsdFiles : entry'[g] = IF g = f THEN NoEntry ELSE entry[g]
  BY DEF Delete, OsdsOK
<1>2. NoEntry.kind = "none" /\ NoEntry.to = Null
  BY DEF NoEntry
<1>3. \A c \in Chains : chain'[c] = IF c = entry[f].to THEN "free" ELSE chain[c]
  BY InstallAssumption DEF Delete, Freed, OsdsOK
<1>4. \A g \in OsdFiles : entry[g].to \in Chains \cup {Null} /\ (entry[g].kind = "file" => entry[g].to # Null)
  BY DEF OsdsOK, Entry
<1>5. Linked' = {}
  BY <1>1, <1>2, TabOK DEF Separate, Linked
<1>6. \A g, h \in OsdFiles : entry'[g].to = entry'[h].to => g = h \/ entry'[g].to = Null
  BY <1>1, <1>2 DEF Separate
<1>7. \A g \in OsdFiles : entry'[g].to = Null \/ chain'[entry'[g].to] # "free"
  BY <1>1, <1>2, <1>3, <1>4 DEF Separate
<1>8. ASSUME NEW g \in OsdFiles \ {f}, Good(g) PROVE Good(g)'
  <2>1. entry'[g] = entry[g] /\ entry[g].to # Null /\ entry[g].to \in Chains
    BY <1>1, <1>4, <1>8 DEF Good
  <2>2. entry[g].to # entry[f].to
    BY <2>1 DEF Separate
  <2> QED
    BY <1>3, <1>8, <2>1, <2>2 DEF Good
<1> QED
  BY <1>1, <1>5, <1>6, <1>7, <1>8 DEF Separate

LEMMA SeparateStore ==
  ASSUME OsdsOK, Separate, NEW f \in OsdFiles, NEW what \in ChainValues, what # "free",
         Store(f, what)
  PROVE  /\ Separate' /\ entry'[f].kind = "file" /\ chain'[entry'[f].to] = what
         /\ \A g \in OsdFiles \ {f} : entry'[g] = entry[g] /\ (Good(g) => Good(g)')
<1>1. PICK c \in FreeChains(Freed(f)) :
        /\ chain' = [Freed(f) EXCEPT ![c] = what]
        /\ entry' = [entry EXCEPT ![f] = [kind |-> "file", to |-> c]]
  BY DEF Store
<1> DEFINE e == [kind |-> "file", to |-> c]
<1>2. e.kind = "file" /\ e.to = c /\ c \in Chains /\ c # Null /\ Freed(f)[c] = "free"
  BY InstallAssumption DEF FreeChains
<1>3. \A g \in OsdFiles : entry'[g] = IF g = f THEN e ELSE entry[g]
  BY <1>1 DEF OsdsOK
<1> HIDE DEF e
<1>4. \A g \in OsdFiles : entry[g].to \in Chains \cup {Null} /\ (entry[g].kind = "file" => entry[g].to # Null)
  BY DEF OsdsOK, Entry
<1>5. \A d \in Chains : Freed(f)[d] = IF d = entry[f].to THEN "free" ELSE chain[d]
  BY InstallAssumption DEF Freed, OsdsOK
<1>6. Freed(f) \in [Chains -> ChainValues]
  BY FreedType
<1>7. \A d \in Chains : chain'[d] = IF d = c THEN what ELSE IF d = entry[f].to THEN "free" ELSE chain[d]
  BY <1>1, <1>2, <1>5, <1>6
<1>8. \A g \in OsdFiles \ {f} : entry[g].to # Null => entry[g].to # c /\ entry[g].to # entry[f].to
  BY <1>2, <1>4, <1>5 DEF Separate
<1>9. Linked' = {}
  BY <1>2, <1>3, TabOK DEF Separate, Linked
<1>10. \A g, h \in OsdFiles : entry'[g].to = entry'[h].to => g = h \/ entry'[g].to = Null
  BY <1>2, <1>3, <1>8 DEF Separate
<1>11. \A g \in OsdFiles : entry'[g].to = Null \/ chain'[entry'[g].to] # "free"
  BY <1>2, <1>3, <1>4, <1>7, <1>8 DEF Separate
<1>12. ASSUME NEW g \in OsdFiles \ {f}, Good(g) PROVE Good(g)'
  BY <1>3, <1>4, <1>7, <1>8, <1>12 DEF Good
<1> QED
  BY <1>2, <1>3, <1>7, <1>9, <1>10, <1>11, <1>12 DEF Separate

(* Create_File, whatever becomes of it, as long as a write that is short   *)
(* says so.                                                                *)
LEMMA SeparateCreate ==
  ASSUME "short" \notin Faults, OsdsOK, Separate, NEW f \in OsdFiles, NEW what \in ChainValues,
         what # "free", Create(f, what) \/ CreateFails(f)
  PROVE  /\ Separate'
         /\ Create(f, what) => entry'[f].kind = "file" /\ chain'[entry'[f].to] = what
         /\ \A g \in OsdFiles \ {f} : entry'[g] = entry[g] /\ (Good(g) => Good(g)')
<1>1. Create(f, what) => Store(f, what)
  BY DEF Create, Hit
<1>2. "torn" \in ChainValues /\ "torn" # "free"
  BY DEF ChainValues
<1>3. CASE Store(f, what)
  BY <1>3, SeparateStore
<1>4. CASE ~Create(f, what) /\ Store(f, "torn")
  BY <1>2, <1>4, SeparateStore
<1>5. CASE ~Create(f, what) /\ Delete(f)
  BY <1>5, SeparateDelete
<1>6. CASE ~Create(f, what) /\ UNCHANGED <<entry, chain>>
  BY <1>6 DEF Separate, Linked, Good
<1> QED
  BY <1>1, <1>3, <1>4, <1>5, <1>6 DEF CreateFails

(* The steps that are not part of an installation, and those that end one. *)
LEMMA Elsewhere ==
  ASSUME pc' \notin {"delosd", "osd", "record", "installed"} \cup Filling, shown' # "installed"
  PROVE  FromClean'
BY DEF FromClean, Progress, Filling

LEMMA OutsideSteps ==
  ASSUME FromClean,
         \/ NewSession \/ Format \/ StartInstall \/ StartUninstall \/ Prepare \/ DeleteDummy
         \/ ReadOsd \/ DropOsdMain \/ RewriteOsd \/ PowerOff \/ WildRecord
  PROVE  FromClean'
<1>1. pc' \notin {"delosd", "osd", "record", "installed"} \cup Filling
  BY DEF NewSession, Format, StartInstall, StartUninstall, Begin, Prepare, DeleteDummy, ReadOsd,
         DropOsdMain, RewriteOsd, PowerOff, WildRecord, End, Goto, Filling, ExtraFiles
<1>2. shown' # "installed"
  BY DEF NewSession, Format, StartInstall, StartUninstall, Begin, Prepare, DeleteDummy, ReadOsd,
         DropOsdMain, RewriteOsd, PowerOff, WildRecord, End, Goto, FromClean
<1> QED
  BY <1>1, <1>2, Elsewhere

LEMMA UnpatchSteps ==
  ASSUME FromClean, NoUninstallFile \/ ReadUninstallFile \/ CallUnPatch \/ DeleteUninstallFile
  PROVE  FromClean'
<1>1. shown # "installed"
  BY DEF NoUninstallFile, ReadUninstallFile, CallUnPatch, DeleteUninstallFile, FromClean
<1>2. CASE \E r \in {-1, 0, 1} : Unpatched(r)
  <2>1. /\ clean' = Separate' /\ shown' # "installed"
        /\ pc' \in {"delosd", "osd", "readosd", "menu"}
    BY <1>1, <1>2 DEF Unpatched, Goto, End
  <2>2. pc' = "osd" => local'.k = 1
    BY <1>2 DEF Unpatched, Goto, End, NoLocals
  <2> QED
    BY <2>1, <2>2 DEF FromClean, Progress, Filling, ExtraFiles
<1>3. CASE pc' \in {"call", "deldummies"} /\ shown' = shown
  <2>1. pc' \notin {"delosd", "osd", "record", "installed"} \cup Filling
    BY <1>3 DEF Filling, ExtraFiles
  <2> QED
    BY <1>1, <1>3, <2>1, Elsewhere
<1> QED
  BY <1>2, <1>3 DEF NoUninstallFile, ReadUninstallFile, CallUnPatch, DeleteUninstallFile, Goto

(* The steps of an installation.                                           *)
LEMMA DeleteOsdClean ==
  ASSUME TypeOK, FromClean, DeleteOsd
  PROVE  FromClean'
<1>1. /\ pc = "delosd" /\ pc' = "osd" /\ shown' = shown /\ clean' = clean /\ local' = NoLocals
      /\ Delete(OsdMain) \/ UNCHANGED <<entry, chain>>
  BY DEF DeleteOsd, Goto, osds
<1>2. Separate => Separate'
  <2>1. CASE Delete(OsdMain)
    BY <2>1, SeparateDelete, TabOK DEF TypeOK
  <2>2. CASE UNCHANGED <<entry, chain>>
    BY <2>2 DEF Separate, Linked
  <2> QED
    BY <1>1, <2>1, <2>2
<1> QED
  BY <1>1, <1>2 DEF FromClean, Progress, Filling, ExtraFiles, NoLocals

LEMMA WriteOsdClean ==
  ASSUME "short" \notin Faults, TypeOK, FromClean, WriteOsd
  PROVE  FromClean'
<1>1. CASE End("error")
  BY <1>1, Elsewhere DEF End, Filling, ExtraFiles
<1>2. CASE /\ Create(OsdPath, "osd") /\ UNCHANGED local
           /\ Goto(IF job = "multi" THEN "dummies" ELSE "icon")
  <2>1. /\ pc = "osd" /\ pc' = (IF job = "multi" THEN "dummies" ELSE "icon") /\ shown' = shown
        /\ UNCHANGED <<clean, job, console, local>> /\ shown # "installed" /\ local.k = 1
        /\ clean => Separate
    BY <1>2 DEF WriteOsd, Goto, session, FromClean, Progress
  <2>2. OsdPath \in OsdFiles /\ "osd" \in ChainValues
    BY TabOK DEF OsdPath, TypeOK, ChainValues
  <2>3. Separate => /\ Separate' /\ entry'[OsdPath].kind = "file"
                    /\ chain'[entry'[OsdPath].to] = "osd"
    <3> DEFINE f == OsdPath
    <3>1. f \in OsdFiles /\ Create(f, "osd")
      BY <1>2, <2>2
    <3> HIDE DEF f
    <3>2. Separate => /\ Separate' /\ entry'[f].kind = "file" /\ chain'[entry'[f].to] = "osd"
      BY <2>2, <3>1, SeparateCreate DEF TypeOK
    <3> QED
      BY <3>2 DEF f
  <2>4. OsdPath' = OsdPath
    BY <2>1 DEF OsdPath
  <2>5. Separate => Separate' /\ Good(OsdPath)'
    BY <2>3, <2>4 DEF Good
  <2> QED
    BY <2>1, <2>5 DEF FromClean, Progress, Filling, ExtraFiles
<1> QED
  BY <1>1, <1>2 DEF WriteOsd

LEMMA WriteDummyClean ==
  ASSUME "short" \notin Faults, TypeOK, FromClean, WriteDummy
  PROVE  FromClean'
<1>1. CASE End("error")
  BY <1>1, Elsewhere DEF End, Filling, ExtraFiles
<1>2. CASE Create(DummyTab[local.k], "dummy") /\ NextDummy /\ Goto("dummies")
  <2> DEFINE f == DummyTab[local.k]
  <2>1. /\ pc = "dummies" /\ pc' = pc /\ shown' = shown /\ shown # "installed" /\ job = "multi"
        /\ UNCHANGED <<clean, job, console>> /\ local.k \in 1 .. NumDummies
    <3>1. local.k \in Nat /\ local.k >= 1 /\ local.k <= NumDummies
      BY TabOK DEF WriteDummy, TypeOK, Local
    <3> QED
      BY <1>2, <3>1, TabOK DEF WriteDummy, Goto, session, FromClean
  <2>2. local'.k = local.k + 1
    <3>1. local' = [local EXCEPT !.k = local.k + 1]
      BY <1>2 DEF NextDummy, Set
    <3> QED
      BY <3>1 DEF TypeOK, Local
  <2>3. f \in OsdFiles /\ f # OsdMain /\ "dummy" \in ChainValues /\ OsdPath = OsdMain /\ OsdPath' = OsdMain
    BY <2>1, TabOK, InstallAssumption DEF ChainValues, OsdPath
  <2>4. Separate => /\ Separate' /\ entry'[f].kind = "file"
                    /\ \A g \in OsdFiles \ {f} : entry'[g] = entry[g] /\ (Good(g) => Good(g)')
    <3>1. Create(f, "dummy")
      BY <1>2
    <3> HIDE DEF f
    <3> QED
      BY <2>3, <3>1, SeparateCreate DEF TypeOK
  <2>5. ASSUME clean PROVE Progress'
    <3>1. Separate /\ Good(OsdMain) /\ \A i \in 1 .. local.k - 1 : entry[DummyTab[i]].kind = "file"
      BY <2>1, <2>3, <2>5 DEF FromClean, Progress, Filling
    <3>2. Separate' /\ Good(OsdMain)'
      BY <2>3, <2>4, <3>1, TabOK
    <3>3. ASSUME NEW i \in 1 .. local.k PROVE entry'[DummyTab[i]].kind = "file"
      <4>1. CASE i = local.k
        BY <2>4, <3>1, <4>1
      <4>2. CASE i # local.k
        <5>1. i \in 1 .. local.k - 1 /\ i \in 1 .. NumDummies
          BY <2>1, <4>2, TabOK
        <5>2. DummyTab[i] \in OsdFiles \ {f}
          BY <2>1, <4>2, <5>1, TabOK, InstallAssumption
        <5> QED
          BY <2>4, <3>1, <5>1, <5>2
      <4> QED
        BY <4>1, <4>2
    <3>4. \A i \in 1 .. local'.k - 1 : entry'[DummyTab[i]].kind = "file"
      BY <2>1, <2>2, <3>3
    <3>5. Good(OsdPath)'
      BY <2>3, <3>2 DEF Good
    <3> QED
      BY <2>1, <3>2, <3>4, <3>5 DEF Progress, Filling, ExtraFiles
  <2> QED
    BY <2>1, <2>5 DEF FromClean
<1> QED
  BY <1>1, <1>2 DEF WriteDummy

LEMMA DummiesWrittenClean ==
  ASSUME TypeOK, FromClean, DummiesWritten
  PROVE  FromClean'
<1>1. /\ pc = "dummies" /\ pc' = "icon" /\ shown' = shown /\ shown # "installed"
      /\ job = "multi" /\ UNCHANGED <<entry, chain, job, console, clean>>
  BY DEF DummiesWritten, Goto, card, session, FromClean
<1>2. ASSUME clean PROVE Progress'
  <2>1. local.k - 1 = NumDummies
    BY TabOK DEF DummiesWritten, TypeOK, Local
  <2>2. Separate /\ Good(OsdPath) /\ \A d \in Dummies : entry[d].kind = "file"
    BY <1>1, <1>2, <2>1 DEF FromClean, Progress, Filling, Dummies
  <2>3. Separate' /\ Good(OsdPath)' /\ \A d \in Dummies : entry'[d].kind = "file"
    BY <1>1, <2>2 DEF Separate, Linked, Good, OsdPath
  <2> QED
    BY <1>1, <2>3 DEF Progress, Filling, ExtraFiles
<1> QED
  BY <1>1, <1>2 DEF FromClean

LEMMA ExtraClean ==
  ASSUME TypeOK, FromClean, WriteIcons \/ WriteCnf \/ WriteUsbd \/ WriteElf
  PROVE  FromClean'
<1>1. UNCHANGED <<entry, chain, job, console, clean>> /\ pc \in ExtraFiles
  BY DEF WriteIcons, WriteCnf, WriteUsbd, WriteElf, ExtraStep, osds, session, ExtraFiles
<1>2. \/ pc' = "menu" /\ shown' = "error"
      \/ shown' = shown /\ (pc' \in ExtraFiles \/ pc' = AfterElf)
  BY DEF WriteIcons, WriteCnf, WriteUsbd, WriteElf, ExtraStep, WriteExtra, SkipExtra, Goto, End,
         ExtraFiles
<1>3. CASE pc' = "menu" /\ shown' = "error"
  BY <1>3, Elsewhere DEF Filling, ExtraFiles
<1>4. CASE shown' = shown /\ (pc' \in ExtraFiles \/ pc' = AfterElf)
  <2>1. /\ shown # "installed"
        /\ pc' \in ExtraFiles \/ (pc' = "scan" /\ job = "multi") \/ (pc' = "installed" /\ job # "multi")
    BY <1>1, <1>4 DEF AfterElf, FromClean, ExtraFiles
  <2>2. ASSUME clean PROVE Progress'
    <3>1. /\ Separate /\ Good(OsdPath)
          /\ job = "multi" => \A d \in Dummies : entry[d].kind = "file"
      BY <1>1, <2>2 DEF FromClean, Progress, Filling, ExtraFiles
    <3>2. /\ Separate' /\ Good(OsdPath)'
          /\ job = "multi" => \A d \in Dummies : entry'[d].kind = "file"
      BY <1>1, <3>1 DEF Separate, Linked, Good, OsdPath
    <3>3. job # "multi" => Boots'
      <4>1. console \in OsdFiles /\ entry[console] \in Entry
        BY TabOK DEF TypeOK, OsdsOK
      <4> QED
        BY <1>1, <3>1, <4>1 DEF Good, Boots, IsOsd, OsdPath, TypeOK, OsdsOK
    <3> QED
      BY <1>1, <1>4, <2>1, <3>2, <3>3 DEF Progress, Filling, ExtraFiles
  <2> QED
    BY <1>1, <1>4, <2>1, <2>2 DEF FromClean, ExtraFiles
<1> QED
  BY <1>2, <1>3, <1>4

LEMMA ScanOsdClean ==
  ASSUME "rpc" \notin Faults, TypeOK, FromClean, ScanOsd
  PROVE  FromClean'
<1>1. CASE End("error")
  BY <1>1, Elsewhere DEF End, Filling, ExtraFiles
<1>2. CASE Set("linking", entry[OsdMain].to) /\ Goto("patch")
  <2>1. /\ pc = "scan" /\ pc' = "patch" /\ shown' = shown /\ shown # "installed"
        /\ job = "multi" /\ UNCHANGED <<entry, chain, job, console, clean>>
    BY <1>2 DEF ScanOsd, Goto, card, session, FromClean
  <2>2. local'.linking = entry'[OsdMain].to
    BY <1>2, <2>1 DEF Set, TypeOK, Local
  <2>3. ASSUME clean PROVE Progress'
    <3>1. Separate /\ Good(OsdPath) /\ \A d \in Dummies : entry[d].kind = "file"
      BY <2>1, <2>3 DEF FromClean, Progress, Filling
    <3>2. Separate' /\ Good(OsdPath)' /\ \A d \in Dummies : entry'[d].kind = "file"
      BY <2>1, <3>1 DEF Separate, Linked, Good, OsdPath
    <3> QED
      BY <2>1, <3>2 DEF Progress, Filling, ExtraFiles
  <2> QED
    BY <2>1, <2>2, <2>3 DEF FromClean
<1> QED
  BY <1>1, <1>2 DEF ScanOsd, Hit

LEMMA PatchDummiesClean ==
  ASSUME "rpc" \notin Faults, TypeOK, FromClean, PatchDummies
  PROVE  FromClean'
<1>1. CASE End("error")
  BY <1>1, Elsewhere DEF End, Filling, ExtraFiles
<1>2. CASE entry' = Patched(Patchable) /\ Goto("record")
  <2>1. /\ pc = "patch" /\ pc' = "record" /\ shown' = shown /\ shown # "installed"
        /\ job = "multi" /\ UNCHANGED <<chain, job, console, clean>>
        /\ local.linking = entry[OsdMain].to
    BY <1>2 DEF PatchDummies, Goto, session, FromClean
  <2>2. ASSUME clean PROVE Relinked'
    <3>1. Good(OsdMain) /\ \A d \in Dummies : entry[d].kind = "file"
      BY <2>1, <2>2 DEF FromClean, Progress, Filling, OsdPath
    <3>2. \A f \in OsdFiles : entry'[f] = IF f \in Dummies
                                          THEN [kind |-> "linked", to |-> local.linking]
                                          ELSE entry[f]
      BY <1>2, <3>1, TabOK DEF Patched, Patchable
    <3>3. OsdMain \notin Dummies /\ OsdMain \in OsdFiles /\ Dummies \subseteq OsdFiles
      BY TabOK, InstallAssumption
    <3>4. entry'[OsdMain] = entry[OsdMain]
      BY <3>2, <3>3
    <3>5. ASSUME NEW d \in Dummies
          PROVE  entry'[d].kind = "linked" /\ entry'[d].to = entry[OsdMain].to
      <4>1. entry'[d] = [kind |-> "linked", to |-> local.linking]
        BY <3>2, <3>3
      <4> QED
        BY <2>1, <4>1
    <3> QED
      BY <2>1, <3>1, <3>4, <3>5 DEF Relinked, Good
  <2> QED
    BY <2>1, <2>2 DEF FromClean, Progress, Filling, ExtraFiles
<1> QED
  BY <1>1, <1>2 DEF PatchDummies, Hit

LEMMA WriteRecordClean ==
  ASSUME TypeOK, FromClean, WriteUninstallFile
  PROVE  FromClean'
<1>1. CASE End("error")
  BY <1>1, Elsewhere DEF End, Filling, ExtraFiles
<1>2. CASE Goto("installed")
  <2>1. /\ pc = "record" /\ pc' = "installed" /\ shown' = shown /\ shown # "installed"
        /\ job = "multi" /\ UNCHANGED <<entry, chain, job, console, clean>>
    BY <1>2 DEF WriteUninstallFile, Goto, osds, session, FromClean
  <2>2. Relinked => Boots'
    <3>1. OsdMain \in OsdFiles /\ entry[OsdMain].kind = "file" => entry[OsdMain].to # Null
      BY TabOK DEF TypeOK, OsdsOK
    <3> QED
      BY <2>1, <3>1, TabOK DEF Relinked, Good, Boots, IsOsd
  <2> QED
    BY <2>1, <2>2 DEF FromClean, Progress, Filling, ExtraFiles
<1> QED
  BY <1>1, <1>2 DEF WriteUninstallFile

LEMMA InstalledClean ==
  ASSUME FromClean, Installed
  PROVE  FromClean'
<1>1. pc = "installed" /\ pc' = "menu" /\ UNCHANGED <<entry, chain, job, console, clean>>
  BY DEF Installed, End, card, session
<1>2. Boots' = Boots
  BY <1>1 DEF Boots, IsOsd
<1> QED
  BY <1>1, <1>2 DEF FromClean, Progress, Filling, ExtraFiles

LEMMA SameClean ==
  ASSUME FromClean, UNCHANGED vars
  PROVE  FromClean'
<1>1. /\ UNCHANGED <<entry, chain, pc, local, shown, clean, job, console>>
  BY DEF vars, card, session
<1>2. Separate' = Separate /\ Good(OsdPath)' = Good(OsdPath) /\ Boots' = Boots /\ Relinked' = Relinked
  BY <1>1 DEF Separate, Linked, Good, OsdPath, Boots, IsOsd, Relinked
<1>3. Progress' = Progress
  BY <1>1, <1>2 DEF Progress
<1> QED
  BY <1>1, <1>3 DEF FromClean

LEMMA InitClean == Init => FromClean
  BY DEF Init, FromClean, Progress, Filling, ExtraFiles

LEMMA NextClean ==
  ASSUME {"short", "rpc"} \cap Faults = {}, TypeOK, FromClean, [Next]_vars
  PROVE  FromClean'
<1>1. "short" \notin Faults /\ "rpc" \notin Faults
  OBVIOUS
<1> QED
  BY <1>1, OutsideSteps, UnpatchSteps, DeleteOsdClean, WriteOsdClean, WriteDummyClean,
     DummiesWrittenClean, ExtraClean, ScanOsdClean, PatchDummiesClean, WriteRecordClean,
     InstalledClean, SameClean
  DEF Next, JobStep

(* Whatever else has failed, in this job or before it, as long as a write  *)
(* that is short fails and a call of the patcher gets through: an          *)
(* installation that began on a card on which every file had its own chain *)
(* shows its last dialog only of a card that has the complete OSD under    *)
(* every name of dummies_tab and as osdmain.elf, after a normal one under  *)
(* the name of the console (main.c:2088-2190, 2731).                       *)
THEOREM CleanInstallBoots ==
  ASSUME {"short", "rpc"} \cap Faults = {}
  PROVE  Spec => []InstalledFromClean
<1>1. Init => TypeOK /\ FromClean
  BY InitType, InitClean
<1>2. TypeOK /\ FromClean /\ [Next]_vars => TypeOK' /\ FromClean'
  BY NextType, NextClean
<1>3. FromClean => InstalledFromClean
  BY DEF FromClean, Progress, InstalledFromClean
<1> QED
  BY <1>1, <1>2, <1>3, PTL DEF Spec

==============================================================================

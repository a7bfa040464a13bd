------------------------------- MODULE Install -------------------------------
(***************************************************************************)
(* What the installer does to one memory card: main.c, Run_Hack and        *)
(* Install_Hack (normal and multi-version installation), unpatch_dummies,  *)
(* multiversion_uninstall and MemoryCard_Format, as the user picks them    *)
(* from the menu, again and again, on one console or several.              *)
(*                                                                         *)
(* A multi-version installation writes the hacked OSD as osdmain.elf and a *)
(* dummy file for every name of dummies_tab, then has the mcsp             *)
(* module point the directory entries of the dummies at the clusters of    *)
(* osdmain.elf.  What they pointed at is kept in uninstall.dat (record).   *)
(* From then on several entries share one chain of clusters, which the     *)
(* file system knows nothing about: deleting or replacing one of them      *)
(* frees the chain under all the others.                                   *)
(*                                                                         *)
(* OSD files are kept down to the chain; of the other files one stands for *)
(* each way the code treats them: icon (written if absent), cnf (asked),   *)
(* usbd (if absent, copied), elf (always, copied in a loop).               *)
(***************************************************************************)
EXTENDS Integers, Sequences, FiniteSets

CONSTANTS
  OsdMain,        \* osdmain.elf
  DummyTab,       \* dummies_tab, as a sequence of file names
  OsdNames,       \* the names Get_OSD_Name finds on the consoles in use
  Chains,         \* cluster chains the card has room for
  Null,           \* no chain
  Extras,         \* the other files an installation writes
  Faults          \* what may go wrong, see FaultKinds

NumDummies == Len(DummyTab)
Dummies  == {DummyTab[i] : i \in 1 .. NumDummies}
OsdFiles == Dummies \cup {OsdMain} \cup OsdNames
ExtraFiles == {"icon", "cnf", "usbd", "elf"}

(* open, write, read, delete: that file operation fails                    *)
(* short: a write stores less than asked and says so, which is not looked at *)
(* unpatch, patch: the call of the mcsp module fails half way              *)
(* rpc: the call does not get to the module, SifCallRpc fails              *)
(* power: the console is switched off                                      *)
FaultKinds == {"open", "write", "read", "delete", "short", "unpatch", "patch",
               "rpc", "power"}

Modes == {"normal", "multi", "uninstall"}

ASSUME InstallAssumption ==
  /\ DummyTab \in Seq(Dummies)
  /\ \A i, j \in 1 .. NumDummies : DummyTab[i] = DummyTab[j] => i = j
  /\ OsdMain \notin Dummies
  /\ OsdNames # {}
  /\ IsFiniteSet(Chains)
  /\ Null \notin Chains
  /\ Extras \subseteq ExtraFiles
  /\ Faults \subseteq FaultKinds

VARIABLES
  entry,          \* entry[f]: directory entry of an OSD file
  chain,          \* chain[c]: what the clusters of a chain hold
  file,           \* file[x]: the other files
  record,         \* uninstall.dat
  console,        \* OSD name of the console the card is in
  cnf_overwrite,  \* the global of that name: 1 at start-up
  job,            \* what was picked from the menu
  pc,             \* the step it is at
  local,          \* local variables of the functions a job runs through
  shown,          \* the last dialog
  clean           \* history: was Separate when unpatch_dummies returned

card    == <<entry, chain, file, record>>
osds    == <<entry, chain>>
session == <<console, cnf_overwrite, job>>
vars    == <<card, session, pc, local, shown, clean>>

NoEntry == [kind |-> "none", to |-> Null]
NoSave  == [d \in Dummies |-> Null]
NoRecord == [state |-> "none", to |-> NoSave, link |-> Null]

(* k: loop counter of the dummies; unpatched: what unpatch_dummies returned; *)
(* linking: linking_cluster; saved: return_entry[]; osd_elf, file_error: of  *)
(* multiversion_uninstall.  No job is left with a value of the one before.   *)
NoLocals == [k |-> 1, unpatched |-> 0, linking |-> Null, saved |-> NoSave,
             osd_elf |-> "torn", file_error |-> FALSE]

Init ==
  /\ entry = [f \in OsdFiles |-> NoEntry]
  /\ chain = [c \in Chains |-> "free"]
  /\ file = [x \in ExtraFiles |-> "none"]
  /\ record = NoRecord
  /\ console \in OsdNames
  /\ cnf_overwrite = TRUE
  /\ job = "normal"
  /\ pc = "menu"
  /\ local = NoLocals
  /\ shown = "none"
  /\ clean = TRUE

------------------------------------------------------------------------------
(* The card                                                                *)

Linked == {d \in Dummies : entry[d].kind = "linked"}

(* Every linked dummy is in the uninstall record, as linked where it is.   *)
Covered == \A d \in Linked : record.to[d] # Null /\ record.link = entry[d].to

(* No dummy is linked, and every file has a chain of clusters of its own.  *)
Separate ==
  /\ Linked = {}
  /\ \A f \in OsdFiles : entry[f].to = Null \/ chain[entry[f].to] # "free"
  /\ \A f, g \in OsdFiles : entry[f].to = entry[g].to => f = g \/ entry[f].to = Null

FreeChains(ch) == {c \in Chains : ch[c] = "free"}

(* chain once the entry of f is gone: whatever it points at is freed       *)
Freed(f) ==
  IF entry[f].to = Null THEN chain ELSE [chain EXCEPT ![entry[f].to] = "free"]

Delete(f) ==
  /\ entry' = [entry EXCEPT ![f] = NoEntry]
  /\ chain' = Freed(f)

(* fioOpen(O_CREAT) of a file that exists replaces it                      *)
Store(f, what) ==
  \E c \in FreeChains(Freed(f)) :
    /\ chain' = [Freed(f) EXCEPT ![c] = what]
    /\ entry' = [entry EXCEPT ![f] = [kind |-> "file", to |-> c]]

Hit(kind) == kind \in Faults

(* Create_File returned 1                                                  *)
Create(f, what) ==
  \/ Store(f, what)
  \/ Hit("short") /\ Store(f, "torn")

(* Create_File returned 0                                                  *)
CreateFails(f) ==
  \/ Hit("open") /\ UNCHANGED <<entry, chain>>
  \/ Hit("write") /\ Store(f, "torn")
  \/ /\ FreeChains(Freed(f)) = {}
     /\ Delete(f)

Put(x, what) == file' = [file EXCEPT ![x] = what]

------------------------------------------------------------------------------
(* The menu                                                                *)

Goto(step)  == pc' = step /\ UNCHANGED shown
Set(field, value) == local' = [local EXCEPT ![field] = value]
NextDummy   == Set("k", local.k + 1)
End(dialog) == pc' = "menu" /\ shown' = dialog /\ local' = NoLocals

(* The card is put in another console, or the installer started again.     *)
NewSession ==
  /\ pc \in {"menu", "hung"}
  /\ End("none")
  /\ console' \in OsdNames
  /\ cnf_overwrite' = TRUE
  /\ UNCHANGED <<card, job, clean>>

Format ==
  /\ pc = "menu"
  /\ entry' = [f \in OsdFiles |-> NoEntry]
  /\ chain' = [c \in Chains |-> "free"]
  /\ file' = [x \in ExtraFiles |-> "none"]
  /\ record' = NoRecord
  /\ shown' = "formatted"
  /\ UNCHANGED <<session, pc, local, clean>>

Begin(mode, step) ==
  /\ pc = "menu"
  /\ job' = mode
  /\ pc' = step
  /\ shown' = "none"
  /\ UNCHANGED <<card, console, local, clean>>

(* Run_Hack: the question about the configuration file, asked if there is one *)
StartInstall ==
  /\ \E mode \in {"normal", "multi"} : Begin(mode, "prepare")
  /\ \/ cnf_overwrite' = cnf_overwrite /\ file["cnf"] = "none"
     \/ cnf_overwrite' \in BOOLEAN /\ file["cnf"] # "none"

StartUninstall == Begin("uninstall", "unpatch") /\ UNCHANGED cnf_overwrite

(* The rest of Run_Hack reads, decrypts, signs and builds the OSD in memory *)
Prepare ==
  /\ pc = "prepare"
  /\ \/ Goto("unpatch") /\ UNCHANGED local
     \/ \E d \in {"error", "unchanged"} : End(d)
  /\ UNCHANGED <<card, session, clean>>

------------------------------------------------------------------------------
(* unpatch_dummies                                                         *)

Unpatched(r) ==
  /\ clean' = Separate'
  /\ \/ /\ job # "uninstall"
        /\ Goto(IF r # 0 THEN "delosd" ELSE "osd")
        /\ local' = [NoLocals EXCEPT !.unpatched = r]
     \/ /\ job = "uninstall" /\ r = 1
        /\ Goto("readosd")
        /\ local' = [NoLocals EXCEPT !.unpatched = r]
     \/ job = "uninstall" /\ r = -1 /\ End("notfound")
     \/ job = "uninstall" /\ r = 0  /\ End("uninstall error")

NoUninstallFile ==
  /\ pc = "unpatch"
  /\ record.state = "none" \/ Hit("open")
  /\ UNCHANGED <<card, session>>
  /\ Unpatched(-1)

(* Mutant: uninstall.dat is removed as soon as it is read.                 *)
ReadUninstallFile_Removes ==
  /\ pc = "unpatch"
  /\ record.state # "none"
  /\ record' = NoRecord
  /\ Goto("call")
  /\ UNCHANGED <<osds, file, session, local, clean>>

ReadUninstallFile ==
  /\ pc = "unpatch"
  /\ record.state # "none"
  /\ UNCHANGED <<card, session>>
  /\ \/ Goto("call") /\ UNCHANGED <<local, clean>>
     \/ Hit("read") /\ Unpatched(0)

(* entries that MC_Dummies_UnPatch finds on the card                       *)
Matched == {d \in Linked : record.to[d] # Null /\ record.link = entry[d].to}

Restored(S) == [f \in OsdFiles |-> IF f \in S
                                   THEN [kind |-> "file", to |-> record.to[f]]
                                   ELSE entry[f]]

(* Mutant: the dummies are deleted without being unpatched.                *)
CallUnPatch_Skipped ==
  /\ pc = "call"
  /\ Goto("deldummies")
  /\ UNCHANGED <<card, session, local, clean>>

(* When not every name is found, the uninitialised .page of the others may *)
(* fail the call as well.                                                  *)
CallUnPatch ==
  /\ pc = "call"
  /\ UNCHANGED <<chain, file, record, session>>
  /\ \/ /\ entry' = Restored(Matched)
        /\ Goto("deldummies")
        /\ UNCHANGED <<local, clean>>
     \/ /\ Hit("unpatch") \/ Matched # Dummies
        /\ \E S \in SUBSET Matched : entry' = Restored(S)
        /\ Unpatched(0)
     \/ /\ Hit("rpc")               \* -1 passes for success
        /\ Goto("deldummies")
        /\ UNCHANGED <<entry, local, clean>>

DeleteDummy ==
  /\ pc = "deldummies"
  /\ local.k <= NumDummies
  /\ NextDummy
  /\ \/ Delete(DummyTab[local.k])
     \/ Hit("delete") /\ UNCHANGED osds
  /\ UNCHANGED <<file, record, session, pc, shown, clean>>

DeleteUninstallFile ==
  /\ pc = "deldummies"
  /\ local.k > NumDummies
  /\ \/ record' = NoRecord
     \/ Hit("delete") /\ UNCHANGED record
  /\ UNCHANGED <<osds, file, session>>
  /\ Unpatched(1)

------------------------------------------------------------------------------
(* Install_Hack                                                            *)

DeleteOsd ==
  /\ pc = "delosd"
  /\ \/ Delete(OsdMain)
     \/ Hit("delete") /\ UNCHANGED osds
  /\ Goto("osd")
  /\ local' = NoLocals
  /\ UNCHANGED <<file, record, session, clean>>

OsdPath == IF job = "multi" THEN OsdMain ELSE console

WriteOsd ==
  /\ pc = "osd"
  /\ \/ /\ Create(OsdPath, "osd")
        /\ Goto(IF job = "multi" THEN "dummies" ELSE "icon")
        /\ UNCHANGED local
     \/ CreateFails(OsdPath) /\ End("error")
  /\ UNCHANGED <<file, record, session, clean>>

(* Mutants: the result of Create_File is not looked at; the loop does not  *)
(* move on.                                                                *)
WriteDummy_Unchecked ==
  /\ pc = "dummies"
  /\ local.k <= NumDummies
  /\ Create(DummyTab[local.k], "dummy") \/ CreateFails(DummyTab[local.k])
  /\ NextDummy /\ Goto("dummies")
  /\ UNCHANGED <<file, record, session, clean>>

WriteDummy_NoAdvance ==
  /\ pc = "dummies"
  /\ local.k <= NumDummies
  /\ \/ Create(DummyTab[local.k], "dummy") /\ Goto("dummies") /\ UNCHANGED local
     \/ CreateFails(DummyTab[local.k]) /\ End("error")
  /\ UNCHANGED <<file, record, session, clean>>

WriteDummy ==
  /\ pc = "dummies"
  /\ local.k <= NumDummies
  /\ \/ Create(DummyTab[local.k], "dummy") /\ NextDummy /\ Goto("dummies")
     \/ CreateFails(DummyTab[local.k]) /\ End("error")
  /\ UNCHANGED <<file, record, session, clean>>

DummiesWritten ==
  /\ pc = "dummies"
  /\ local.k > NumDummies
  /\ Goto("icon")
  /\ local' = NoLocals
  /\ UNCHANGED <<card, session, clean>>

(* whether an installation writes file x of the others                     *)
Writes(x) ==
  /\ x \in Extras
  /\ CASE x = "cnf" -> cnf_overwrite
       [] x = "elf" -> TRUE
       [] OTHER     -> file[x] = "none"

(* A file of the others is written: well, or short, or not to the end.     *)
WriteExtra(x, next) ==
  /\ Writes(x)
  /\ \/ Put(x, "good") /\ Goto(next) /\ UNCHANGED local
     \/ Hit("short") /\ Put(x, "torn") /\ Goto(next) /\ UNCHANGED local
     \/ Hit("write") /\ Put(x, "torn") /\ End("error")

SkipExtra(next) == Goto(next) /\ UNCHANGED <<file, local>>

(* The steps of a file whose loss ends the installation.                   *)
ExtraStep(x, next) ==
  /\ pc = x
  /\ \/ WriteExtra(x, next)
     \/ Writes(x) /\ Hit("open") /\ End("error") /\ UNCHANGED file
     \/ ~Writes(x) /\ SkipExtra(next)
  /\ UNCHANGED <<osds, record, session, clean>>

WriteIcons == ExtraStep("icon", "cnf")
WriteCnf   == ExtraStep("cnf", "usbd")
WriteUsbd  == ExtraStep("usbd", "elf")

(* Mutant: a multi-version installation ends without scan and patch.       *)
AfterElf_NoPatch == "installed"

(* A file of INSTALL or APPS that cannot be opened is passed over.         *)
AfterElf == IF job = "multi" THEN "scan" ELSE "installed"

WriteElf ==
  /\ pc = "elf"
  /\ \/ WriteExtra("elf", AfterElf)
     \/ (~Writes("elf") \/ Hit("open")) /\ SkipExtra(AfterElf)
  /\ UNCHANGED <<osds, record, session, clean>>

ScanOsd ==
  /\ pc = "scan"
  /\ \/ /\ entry[OsdMain].kind = "file"
        /\ Set("linking", entry[OsdMain].to)
        /\ Goto("patch")
     \/ Hit("rpc") /\ Goto("patch") /\ UNCHANGED local   \* linked to -1
     \/ Hit("read") /\ End("error")
  /\ UNCHANGED <<card, session, clean>>

Patched(S) == [f \in OsdFiles |-> IF f \in S
                                  THEN [kind |-> "linked", to |-> local.linking]
                                  ELSE entry[f]]

(* Mutant: the names are compared without their last part.                 *)
Patchable_AnyOsd == {f \in OsdFiles : entry[f].kind = "file"}

Patchable == {d \in Dummies : entry[d].kind = "file"}

PatchDummies ==
  /\ pc = "patch"
  /\ \/ /\ entry' = Patched(Patchable)
        /\ Set("saved", [d \in Dummies |-> IF d \in Patchable THEN entry[d].to ELSE Null])
        /\ Goto("record")
     \/ /\ Hit("patch")
        /\ \E S \in SUBSET Patchable : entry' = Patched(S)
        /\ End("error")
     \/ /\ Hit("rpc")               \* -1 passes for success
        /\ Goto("record")
        /\ UNCHANGED <<entry, local>>
  /\ UNCHANGED <<chain, file, record, session, clean>>

(* Mutant: the loop writes one entry less than the header says.            *)
RecordUpTo_Short(n) ==
  [state |-> IF n = NumDummies THEN "full" ELSE "torn",
   to    |-> [d \in Dummies |-> IF \E i \in 1 .. n - 1 : DummyTab[i] = d
                                THEN local.saved[d] ELSE Null],
   link  |-> IF n = 0 THEN Null ELSE local.linking]

(* uninstall.dat up to its nth entry, or with n = 0 not even its header    *)
RecordUpTo(n) ==
  [state |-> IF n = NumDummies THEN "full" ELSE "torn",
   to    |-> [d \in Dummies |-> IF \E i \in 1 .. n : DummyTab[i] = d
                                THEN local.saved[d] ELSE Null],
   link  |-> IF n = 0 THEN Null ELSE local.linking]

RecordTorn == \E n \in 0 .. NumDummies - 1 : record' = RecordUpTo(n)

WriteUninstallFile ==
  /\ pc = "record"
  /\ \/ /\ \/ record' = RecordUpTo(NumDummies)
           \/ (Hit("write") \/ Hit("short")) /\ RecordTorn  \* result not used
        /\ Goto("installed")
        /\ local' = NoLocals
     \/ Hit("open") /\ End("error") /\ UNCHANGED record
  /\ UNCHANGED <<osds, file, session, clean>>

Installed ==
  /\ pc = "installed"
  /\ End("installed")
  /\ UNCHANGED <<card, session, clean>>

------------------------------------------------------------------------------
(* multiversion_uninstall, once unpatch_dummies returned 1                 *)

(* A failure is remembered, and what the buffer holds written all the same. *)
ReadOsd ==
  /\ pc = "readosd"
  /\ \/ /\ entry[OsdMain].kind = "file"
        /\ Set("osd_elf", chain[entry[OsdMain].to])
     \/ /\ Hit("open") \/ Hit("read") \/ entry[OsdMain].kind = "none"
        /\ Set("file_error", TRUE)
  /\ Goto("dropmain")
  /\ UNCHANGED <<card, session, clean>>

DropOsdMain ==
  /\ pc = "dropmain"
  /\ \/ Delete(OsdMain)
     \/ Hit("delete") /\ UNCHANGED osds
  /\ Goto("rewrite")
  /\ UNCHANGED <<file, record, session, local, clean>>

(* Mutant: the OSD goes back to osdmain.elf whatever the console looks for. *)
RewriteOsd_Main ==
  /\ pc = "rewrite"
  /\ \/ /\ Create(OsdMain, local.osd_elf)
        /\ End(IF local.file_error THEN "uninstall error" ELSE "reverted")
     \/ CreateFails(OsdMain) /\ End("uninstall error")
  /\ UNCHANGED <<file, record, session, clean>>

RewriteOsd ==
  /\ pc = "rewrite"
  /\ \/ /\ Create(console, local.osd_elf)
        /\ End(IF local.file_error THEN "uninstall error" ELSE "reverted")
     \/ CreateFails(console) /\ End("uninstall error")
  /\ UNCHANGED <<file, record, session, clean>>

------------------------------------------------------------------------------
(* The power goes: the file being written is torn, the patch half done.    *)
CutOsd(f, step) == pc = step /\ Store(f, "torn") /\ UNCHANGED <<file, record>>

PowerOff ==
  /\ pc \notin {"menu", "hung"}
  /\ Hit("power")
  /\ End("none")
  /\ cnf_overwrite' = TRUE
  /\ \/ UNCHANGED card
     \/ CutOsd(OsdPath, "osd")
     \/ local.k <= NumDummies /\ CutOsd(DummyTab[local.k], "dummies")
     \/ CutOsd(console, "rewrite")
     \/ /\ pc \in ExtraFiles /\ Writes(pc) /\ Put(pc, "torn")
        /\ UNCHANGED <<osds, record>>
     \/ /\ \/ pc = "call" /\ \E S \in SUBSET Matched : entry' = Restored(S)
           \/ pc = "patch" /\ \E S \in SUBSET Patchable : entry' = Patched(S)
        /\ UNCHANGED <<chain, file, record>>
     \/ pc = "record" /\ RecordTorn /\ UNCHANGED <<osds, file>>
  /\ UNCHANGED <<console, job, clean>>

(* An uninstall.dat without its header: num_entries is what the stack held, *)
(* and the loop that reads that many entries runs off uninstall_entry[42].  *)
WildRecord ==
  /\ pc = "unpatch"
  /\ record.state = "torn" /\ record.link = Null
  /\ Goto("hung")
  /\ UNCHANGED <<card, session, local, clean>>

------------------------------------------------------------------------------
JobStep ==
  \/ Prepare \/ NoUninstallFile \/ ReadUninstallFile \/ CallUnPatch
  \/ DeleteDummy \/ DeleteUninstallFile \/ DeleteOsd \/ WriteOsd \/ WriteDummy
  \/ DummiesWritten \/ WriteIcons \/ WriteCnf \/ WriteUsbd \/ WriteElf
  \/ ScanOsd \/ PatchDummies \/ WriteUninstallFile \/ Installed
  \/ ReadOsd \/ DropOsdMain \/ RewriteOsd

Next == NewSession \/ Format \/ StartInstall \/ StartUninstall \/ JobStep
        \/ PowerOff \/ WildRecord

Spec == Init /\ [][Next]_vars

(* The installer is one thread, which waits for the user in dialogs only.  *)
FairSpec == Spec /\ WF_vars(JobStep)
------------------------------------------------------------------------------
(* Properties                                                              *)

Entry == [kind : {"none", "file", "linked"}, to : Chains \cup {Null}]
Record == [state : {"none", "torn", "full"},
           to : [Dummies -> Chains \cup {Null}], link : Chains \cup {Null}]

ChainValues == {"free", "osd", "dummy", "torn"}

Local == [k : 1 .. NumDummies + 1, unpatched : -1 .. 1,
          linking : Chains \cup {Null}, saved : [Dummies -> Chains \cup {Null}],
          osd_elf : ChainValues, file_error : BOOLEAN]

Steps == {"menu", "hung", "prepare", "unpatch", "call", "deldummies", "delosd", "osd",
          "dummies", "scan", "patch", "record", "installed", "readosd",
          "dropmain", "rewrite"} \cup ExtraFiles

OsdsOK ==
  /\ entry \in [OsdFiles -> Entry]
  /\ chain \in [Chains -> ChainValues]
  /\ \A f \in OsdFiles : entry[f].kind = "none" => entry[f].to = Null
  /\ \A f \in OsdFiles : entry[f].kind = "file" => entry[f].to # Null
  /\ \A f \in OsdFiles : entry[f].kind = "linked" => f \in Dummies

TypeOK ==
  /\ OsdsOK
  /\ file \in [ExtraFiles -> {"none", "torn", "good"}]
  /\ record \in Record
  /\ console \in OsdNames
  /\ cnf_overwrite \in BOOLEAN
  /\ job \in Modes
  /\ pc \in Steps
  /\ local \in Local
  /\ clean \in BOOLEAN

(* With nothing going wrong, no file ever loses its clusters to another:   *)
(* every entry points at an allocated chain, which it shares only as a     *)
(* linked dummy with osdmain.elf, and the chains the linked dummies will   *)
(* get back are theirs alone.  (Order of main.c:1465, 1482, 1528, 1578.)   *)
Present == {f \in OsdFiles : entry[f].kind # "none"}

ChainsSound ==
  /\ \A f \in Present : entry[f].to \in Chains /\ chain[entry[f].to] # "free"
  /\ \A f, g \in Present : entry[f].to = entry[g].to =>
       f = g \/ {f, g} \subseteq {OsdMain} \cup Linked
  /\ \A d \in Linked, f \in Present :
       record.to[d] # Null => entry[f].to # record.to[d]

(* With nothing going wrong, no chain is leaked: what is allocated belongs *)
(* to an entry or is what a linked dummy will get back.                    *)
Owned == {entry[f].to : f \in Present}
         \cup (IF pc = "record" THEN {local.saved[d] : d \in Dummies}
                                ELSE {record.to[d] : d \in Linked})

NoLeak == \A c \in Chains : chain[c] # "free" => c \in Owned

(* Whatever fails, only the patch and the writing of uninstall.dat after   *)
(* it can leave a dummy linked of which no record tells where it pointed   *)
(* (main.c:2156-2186).                                                     *)
OnlyPatchUncovers == [][Covered => Covered' \/ pc \in {"patch", "record"}]_vars

IsOsd(f) == entry[f].to # Null /\ chain[entry[f].to] = "osd"

(* What an installation is for: the OSD under every name of dummies_tab and *)
(* as osdmain.elf, or under the name of this console.  Nothing is promised *)
(* to a console whose name is none of these in multi mode (osdmain.sys,    *)
(* osd###.sys, osdname.c:95-100), and it gets nothing.                     *)
Boots ==
  IF job = "multi"
  THEN \A f \in Dummies \cup {OsdMain} : entry[f].kind # "none" /\ IsOsd(f)
  ELSE entry[console].kind = "file" /\ IsOsd(console)

(* "FreeMcBoot installed successfully" is shown of a card that has the     *)
(* complete OSD under every name of dummies_tab and as osdmain.elf, after  *)
(* a normal installation under the name of this console, and which the     *)
(* record can take back to what it was (main.c:2731).                      *)
InstalledBoots == shown = "installed" => Boots /\ Covered

(* The same of the OSD files alone, whatever has failed before.            *)
InstalledOsd == shown = "installed" => Boots

(* The same of the OSD files after any failures, in this job and before it, *)
(* as long as every file had its own chain when unpatch_dummies was done.  *)
InstalledFromClean == (shown = "installed" /\ clean) => Boots

(* "FreeMcBoot reverted back to normal install" is shown of a card that    *)
(* has the OSD this console looks for, no linked dummy and no uninstall    *)
(* file (main.c:2957).                                                     *)
Reverted ==
  shown = "reverted" =>
    entry[console].kind = "file" /\ IsOsd(console) /\ Linked = {} /\ record.state = "none"

(* Whatever was picked and whatever fails, the menu comes back, unless the *)
(* record had lost its header (main.c:1415-1422).                         *)
JobEnds == pc # "menu" ~> pc \in {"menu", "hung"}
==============================================================================

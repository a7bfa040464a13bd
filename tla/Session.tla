------------------------------- MODULE Session -------------------------------
(***************************************************************************)
(* A session of the installer: the menu of main() (main.c 3316-3665), the  *)
(* check of the card (CardCheck), the question before a job, and the job   *)
(* itself as far as its log, its buffers and its space go (Run_Hack,       *)
(* Install_Hack, unpatch_dummies, multiversion_uninstall).  What the job   *)
(* does to the files of the card is in Install.                            *)
(*                                                                         *)
(* The heap gives the first free address to malloc, so that a pointer that *)
(* is freed twice would free the next buffer; freeing NULL or an address   *)
(* that is free does nothing.  Modal dialogs wait for the user and are the *)
(* outcome of the step that opens them.                                    *)
(***************************************************************************)
EXTENDS CardCheck, CardSpace

CONSTANTS HeapSize,     \* bound: buffers that fit in memory at once
          MaxLogLines,  \* MAX_LOG_LINES
          MaxFiles,     \* bound: files in INSTALL/, and in INSTALL/APPS/
          Contents      \* [card, stick, osd, last, root]: contents of card and INSTALL folder

ASSUME SessionAssumption == {HeapSize, MaxLogLines, MaxFiles} \subseteq Nat
ASSUME ContentsAssumption ==
    \A c \in Contents :
        /\ IsFiniteSet(DOMAIN c.card) /\ c.card \in [DOMAIN c.card -> Nat]
        /\ IsFiniteSet(DOMAIN c.stick) /\ c.stick \in [DOMAIN c.stick -> Nat]
        /\ \A f \in DOMAIN c.stick : f \in Drivers \cup {Cnf, Configurator} \/ f.dir \in {"boot", "apps"}
        /\ c.osd.dir = "exec" /\ c.osd \notin Icons
        /\ c.last = {} \/ \E f \in Dummies \cap DOMAIN c.card : c.last = {f}
        /\ c.root \in Nat

VARIABLES ui,       \* the screen: what is shown, the button selected, the last dialog
          job,      \* the job: its step and its log
          heap      \* the buffers of Run_Hack and Install_Hack

vars == <<cardVars, ui, job, heap>>

Buffer == {"orig", "decr", "bootelf", "injected", "hacked", "boot", "cnf", "osd"}
Null == 0
Step == {"idle", "open", "space", "reading", "decrypting", "signing", "embedding", "injecting",
         "verifying", "building", "unpatching", "deleting", "writingOsd", "writingDummies",
         "execIcons", "bootIcons", "config", "usbd", "usbhdfsd", "configurator", "elf", "apps",
         "scanning", "patching", "modifying"}
\* what the next line of the log is about
JobButtons == {"install", "multi", "uninstall"}
Buttons == <<"install", "multi", "launch", "configurator", "format", "uninstall">>
Idle == [step |-> "idle", lines |-> 0, failed |-> {}, left |-> 0, short |-> 0, slack |-> 0]
NoBuffers == [b \in Buffer |-> Null]

TypeOK ==
    /\ CardTypeOK
    /\ ui \in [at : {"menu", "check", "confirm", "work", "launched"}, button : DOMAIN Buttons,
               log : BOOLEAN, logo : BOOLEAN, port : Port, said : {"none", "installed", "error", "aborted"}]
    /\ job \in [step : Step, lines : Nat, failed : SUBSET Step, left : 0..MaxFiles,
                short : Nat, slack : Nat]
    /\ heap \in [ptr : [Buffer -> 0..HeapSize], used : SUBSET (1..HeapSize), leaked : SUBSET (1..HeapSize)]

Init ==
    /\ CardInit
    /\ ui = [at |-> "menu", button |-> 1, log |-> FALSE, logo |-> TRUE, port |-> 0, said |-> "none"]
    /\ job = Idle
    /\ heap = [ptr |-> NoBuffers, used |-> {}, leaked |-> {}]

Button == Buttons[ui.button]
Multi == Button = "multi"

(***************************************************************************)
(* The heap, the log and the end of a job.                                 *)
(***************************************************************************)

FreeAddresses(h) == 1..HeapSize \ h.used
CanAlloc(h) == FreeAddresses(h) # {}
Alloc(h, b) ==
    LET a == Min(FreeAddresses(h)) IN [h EXCEPT !.ptr[b] = a, !.used = @ \cup {a}]
Free(h, B) == [h EXCEPT !.used = @ \ {h.ptr[b] : b \in B}]

\* One more line in the log, the step's mark and the step after it.
Logged(next, failed) ==
    [job EXCEPT !.lines = @ + 1, !.step = next, !.failed = IF failed THEN @ \cup {job.step} ELSE @,
                !.left = 0, !.short = 0, !.slack = 0]
Advance(next) == job' = Logged(next, FALSE)
PassOver(next) == job' = [job EXCEPT !.step = next, !.left = 0]

\* The screen when a handler is done: -1 and a refusal hide the log (3373-3394).
Screen(hide) ==
    IF Button \in JobButtons
    THEN IF hide THEN [ui EXCEPT !.at = "menu", !.log = FALSE, !.logo = TRUE] ELSE [ui EXCEPT !.at = "menu"]
    ELSE [ui EXCEPT !.at = "menu", !.logo = TRUE]
Return(said, hide) == ui' = [Screen(hide) EXCEPT !.said = said]

\* The job ends: its locals go, what was not freed stays allocated.
EndJob(said, hide, log, h) ==
    /\ Return(said, hide)
    /\ job' = [log EXCEPT !.step = "idle"]
    /\ heap' = [h EXCEPT !.ptr = NoBuffers]
    /\ UNCHANGED cardVars
\* err_out of Run_Hack, after what this exit frees
Fail(h) == EndJob("error", FALSE, Logged("idle", TRUE), h)
\* return 0 of Install_Hack: Run_Hack frees the OSD it built (2722-2726)
FailInstall(h) == Fail(Free(h, {"hacked"}))

(***************************************************************************)
(* The menu.                                                               *)
(***************************************************************************)

MoveButton_NoWrap ==
    /\ ui.at = "menu"
    /\ \E b \in {ui.button - 1, ui.button + 1} :
         ui' = [ui EXCEPT !.button = b, !.logo = TRUE, !.log = FALSE, !.said = "none"]
    /\ job' = Idle
    /\ UNCHANGED <<cardVars, heap>>
\* A log that is hidden here is not shown again before it is cleared.
MoveButton ==
    /\ ui.at = "menu"
    /\ \E b \in {IF ui.button = 1 THEN 6 ELSE ui.button - 1, IF ui.button = 6 THEN 1 ELSE ui.button + 1} :
         ui' = [ui EXCEPT !.button = b, !.logo = TRUE, !.log = FALSE, !.said = "none"]
    /\ job' = Idle
    /\ UNCHANGED <<cardVars, heap>>

\* A job clears the log; launch and format only hide the logo.
Press ==
    /\ ui.at = "menu" /\ Button # "configurator"
    /\ ui' = [ui EXCEPT !.at = "check", !.logo = FALSE, !.said = "none",
                        !.log = @ \/ Button \in JobButtons]
    /\ job' = IF Button \in JobButtons THEN Idle ELSE job
    /\ StartCheck
    /\ UNCHANGED heap

PressConfigurator ==
    /\ ui.at = "menu" /\ Button = "configurator"
    /\ \/ ui' = [ui EXCEPT !.at = "launched"]
       \/ Return("error", FALSE)
    /\ UNCHANGED <<cardVars, job, heap>>

ShowCredits ==
    /\ ui.at = "menu"
    /\ ui' = [ui EXCEPT !.logo = TRUE]
    /\ UNCHANGED <<cardVars, job, heap>>

CheckPort ==
    /\ ui.at = "check"
    /\ \/ Check /\ UNCHANGED ui
       \/ AbortCheck /\ Return("none", TRUE)
       \/ /\ CheckEnds
          /\ IF CheckFails THEN Return("error", TRUE)
             ELSE ui' = [ui EXCEPT !.at = "confirm", !.port = check.port]
    /\ UNCHANGED <<job, heap>>

Confirm ==
    /\ ui.at = "confirm"
    /\ \/ /\ Button \in JobButtons
          /\ ui' = [ui EXCEPT !.at = "work"]
          /\ job' = [Idle EXCEPT !.step = IF Button = "uninstall" THEN "unpatching" ELSE "open"]
       \/ /\ Button \in JobButtons
          /\ Return("none", TRUE) /\ UNCHANGED job
       \* check_FMCB_exists and launch_FMCB, MemoryCard_Format
       \/ /\ Button \in {"launch", "format"}
          /\ Return("none", FALSE) \/ (Button = "launch" /\ ui' = [ui EXCEPT !.at = "launched"])
          /\ UNCHANGED job
    /\ UNCHANGED <<cardVars, heap>>

(***************************************************************************)
(* Run_Hack: from the questions to the OSD.                                *)
(***************************************************************************)

At(s) == ui.at = "work" /\ job.step = s
Continue == UNCHANGED <<cardVars, ui>>

\* 2223-2260, 2326-2340: the user goes back at a question; no DVDELF opens
OpenDvdelf ==
    /\ At("open")
    /\ \/ PassOver("space") /\ UNCHANGED heap /\ Continue
       \/ EndJob("aborted", TRUE, job, heap)
       \/ EndJob("error", FALSE, [job EXCEPT !.lines = @ + 1], heap)

\* 2381-2409: two lines, then the figures are compared.  keep is cnf_overwrite,
\* answered for this card (2265-2269) or left by one before.  Bound: the card is
\* full, or its free space on either side of what is asked for.
CheckSpace ==
    /\ At("space")
    /\ \E c \in Contents, keep \in BOOLEAN :
       LET needed == Needed(c.card, c.stick, Multi, c.last)
           osd == IF Multi THEN OsdMain ELSE c.osd
           log == [job EXCEPT !.lines = @ + 2] IN
       \E free \in {0, needed, needed + 1} \cap Nat :
         IF needed >= free
         THEN EndJob("error", TRUE, log, heap)
         ELSE /\ job' = [log EXCEPT !.step = "reading",
                           !.short = Max({0, Taken(c.card, c.stick, Multi, osd, keep, c.root) - free}),
                           !.slack = Overlooked(c.card, c.stick, Multi, osd, keep, c.last)]
              /\ UNCHANGED heap /\ Continue

\* What each step of 2412-2716 allocates; what it frees when that fails, when
\* the work fails, and when it is done.
Work == [reading    |-> [next |-> "decrypting", gets |-> {"orig"}, noMem |-> {}, err |-> {}, ok |-> {}],
         decrypting |-> [next |-> "signing", gets |-> {"decr"}, noMem |-> {"orig"},
                         err |-> {"orig", "decr"}, ok |-> {}],
         signing    |-> [next |-> "embedding", gets |-> {}, noMem |-> {}, err |-> {"orig", "decr"}, ok |-> {}],
         embedding  |-> [next |-> "injecting", gets |-> {"bootelf"}, noMem |-> {"orig", "decr"},
                         err |-> {}, ok |-> {}],
         injecting  |-> [next |-> "verifying", gets |-> {"injected"}, noMem |-> {"orig", "decr", "bootelf"},
                         err |-> {"orig", "decr", "injected", "bootelf"}, ok |-> {"bootelf"}],
         verifying  |-> [next |-> "building", gets |-> {}, noMem |-> {},
                         err |-> {"orig", "injected", "decr"}, ok |-> {"decr"}],
         building   |-> [next |-> "unpatching", gets |-> {"hacked"}, noMem |-> {"orig", "injected"},
                         err |-> {"orig", "injected", "hacked"}, ok |-> {"injected", "orig"}]]
Got(s) == IF Work[s].gets = {} THEN heap ELSE Alloc(heap, CHOOSE b \in Work[s].gets : TRUE)

\* A malloc fails, or what comes before it: DVDELF or EMBED.ELF cannot be opened.
NoMemory(s) ==
    /\ At(s) /\ Work[s].gets # {}
    /\ IF s = "decrypting" \* 2464: a line without a mark
       THEN EndJob("error", FALSE, [job EXCEPT !.lines = @ + 1], Free(heap, Work[s].noMem))
       ELSE Fail(Free(heap, Work[s].noMem))
WorkFails(s) ==
    /\ At(s) /\ Work[s].err # {} /\ (Work[s].gets # {} => CanAlloc(heap))
    /\ Fail(Free(Got(s), Work[s].err))
WorkDone_FreesOriginal(s) ==
    /\ At(s) /\ s \notin {"injecting", "signing"} /\ (Work[s].gets # {} => CanAlloc(heap))
    /\ heap' = Free(Got(s), Work[s].ok \cup {"orig"})
    /\ Advance(Work[s].next) /\ Continue
WorkDone(s) ==
    /\ At(s) /\ s \notin {"injecting", "signing"} /\ (Work[s].gets # {} => CanAlloc(heap))
    /\ heap' = Free(Got(s), Work[s].ok)
    /\ Advance(Work[s].next) /\ Continue

\* 2497-2525: Card_Auth has passed, the card is looked at again, the answer is not
Sign ==
    /\ At("signing")
    /\ mc' = slot[ui.port] /\ fresh' = fresh \ {ui.port}
    /\ Advance("embedding") /\ UNCHANGED <<heap, ui, slot, call, info, check, still>>
\* 2537: no EMBED.ELF
NoEmbed == At("embedding") /\ PassOver("injecting") /\ UNCHANGED heap /\ Continue

\* 2580-2639: a big DVDELF takes a second copy of the launcher
InjectLauncher ==
    /\ At("injecting") /\ CanAlloc(heap)
    /\ LET h == Got("injecting") IN
       \/ heap' = Free(h, Work["injecting"].ok) /\ Advance("verifying") /\ Continue
       \/ /\ heap.ptr["bootelf"] = Null /\ CanAlloc(h)
          /\ heap' = Free(Alloc(h, "bootelf"), Work["injecting"].ok) /\ Advance("verifying") /\ Continue
       \* 2603-2613: that malloc fails and injected_dvdelf is not freed.  Bound: once.
       \/ /\ heap.ptr["bootelf"] = Null /\ heap.leaked = {}
          /\ Fail([Free(h, {"orig", "decr"}) EXCEPT !.leaked = @ \cup {h.ptr["injected"]}])

(***************************************************************************)
(* unpatch_dummies, Install_Hack, multiversion_uninstall.                  *)
(***************************************************************************)

\* 1400-1475; without an uninstall file an installation goes on, an uninstallation is refused
Unpatch ==
    /\ At("unpatching")
    /\ \/ Advance("deleting") /\ UNCHANGED heap /\ Continue
       \/ IF Button = "uninstall"
          THEN EndJob("error", TRUE, job, heap) \/ Fail(heap)
          ELSE /\ PassOver("writingOsd") \/ job' = Logged("writingOsd", TRUE)
               /\ UNCHANGED heap /\ Continue

DeleteDummies ==
    /\ At("deleting")
    /\ Advance(IF Button = "uninstall" THEN "modifying" ELSE "writingOsd")
    /\ UNCHANGED heap /\ Continue

\* 2909-2958; free(osd_elf) takes NULL when it could not be read
ModifyOsd ==
    /\ At("modifying")
    /\ \/ CanAlloc(heap) /\ EndJob("installed", FALSE, Logged("idle", FALSE), Free(Alloc(heap, "osd"), {"osd"}))
       \/ Fail(Free(heap, {"osd"}))

After == [s \in {"writingOsd", "writingDummies", "execIcons", "bootIcons", "scanning"} |->
            CASE s = "writingOsd" -> "writingDummies"
              [] s = "writingDummies" -> "execIcons"
              [] s = "execIcons" -> "bootIcons"
              [] s = "bootIcons" -> "config"
              [] s = "scanning" -> "patching"]
OnlyMulti == {"writingDummies", "scanning"}

WriteFiles_GoesOn(s) ==
    /\ At(s) /\ (s \in OnlyMulti => Multi)
    /\ \E failed \in BOOLEAN : job' = Logged(After[s], failed)
    /\ UNCHANGED heap /\ Continue
\* 1571-1675, 2117-2137: steps that write without a buffer
WriteFiles(s) ==
    /\ At(s) /\ (s \in OnlyMulti => Multi)
    /\ \/ Advance(After[s]) /\ UNCHANGED heap /\ Continue
       \/ FailInstall(heap)
\* the icons are there, or a normal installation
SkipFiles(s) ==
    /\ At(s) /\ (s \in OnlyMulti => ~Multi) /\ s # "writingOsd"
    /\ IF s = "scanning"
       THEN EndJob("installed", FALSE, job, Free(heap, {"hacked"}))
       ELSE PassOver(After[s]) /\ UNCHANGED heap /\ Continue

WriteConfig_Leaks ==
    /\ At("config")
    /\ \E h \in {heap} \cup (IF CanAlloc(heap) THEN {Alloc(heap, "cnf")} ELSE {}) :
         \/ heap' = Free(h, {"cnf"}) /\ Advance("usbd") /\ Continue
         \/ FailInstall(h)
\* 1692-1762: the user's CNF is read to a buffer, which every exit frees
WriteConfig ==
    /\ At("config")
    /\ \E h \in {heap} \cup (IF CanAlloc(heap) THEN {Alloc(heap, "cnf")} ELSE {}) :
         \/ heap' = Free(h, {"cnf"}) /\ Advance("usbd") /\ Continue
         \/ FailInstall(Free(h, {"cnf"}))

CopyNext == [usbd |-> "usbhdfsd", usbhdfsd |-> "configurator", configurator |-> "elf"]

\* 1789-1935: a file with a line of its own; boot_file is freed whether it was copied or not
CopyFile(s) ==
    /\ At(s)
    /\ \/ PassOver(CopyNext[s]) /\ heap' = Free(heap, {"boot"}) /\ Continue
       \/ /\ CanAlloc(heap)
          /\ \/ heap' = Free(Alloc(heap, "boot"), {"boot"}) /\ Advance(CopyNext[s]) /\ Continue
             \/ FailInstall(Free(Alloc(heap, "boot"), {"boot"}))
       \/ FailInstall(Free(heap, {"boot"}))

LoopNext == [elf |-> "apps", apps |-> "scanning"]
StartLoop(s) ==
    /\ At(s) /\ job.left = 0
    /\ \/ PassOver(LoopNext[s]) /\ heap' = Free(heap, {"boot"}) /\ Continue
       \/ /\ \E n \in 1..MaxFiles : job' = [job EXCEPT !.left = n]
          /\ UNCHANGED heap /\ Continue
       \/ s = "apps" /\ FailInstall(heap)       \* 2045-2062: the icons
CopyNextFile_LinePerFile(s) ==
    /\ At(s) /\ job.left > 0
    /\ job' = [Logged(IF job.left > 1 THEN s ELSE LoopNext[s], FALSE) EXCEPT !.left = job.left - 1]
    /\ heap' = Free(heap, {"boot"}) /\ Continue
\* 1966-2012, 2066-2112: boot_file is freed after each file and after the last
CopyNextFile(s) ==
    /\ At(s) /\ job.left > 0
    /\ \/ \* copied, or passed over because one of the two does not open
          \E h \in {Free(heap, {"boot"})} \cup
                   (IF CanAlloc(heap) THEN {Free(Alloc(heap, "boot"), {"boot"})} ELSE {}) :
             IF job.left > 1
             THEN heap' = h /\ job' = [job EXCEPT !.left = @ - 1] /\ Continue
             ELSE heap' = Free(h, {"boot"}) /\ Advance(LoopNext[s]) /\ Continue
       \/ FailInstall(heap)
       \/ CanAlloc(heap) /\ FailInstall(Free(Alloc(heap, "boot"), {"boot"}))

\* 2148-2184, 2730-2757
PatchDummies ==
    /\ At("patching")
    /\ \/ EndJob("installed", FALSE, Logged("idle", FALSE), Free(heap, {"hacked"}))
       \/ FailInstall(heap)
       \* 2163-2167: no uninstall file can be written; the line is left without a mark
       \/ EndJob("error", FALSE, job, Free(heap, {"hacked"}))

Job ==
    \/ OpenDvdelf \/ CheckSpace \/ Sign \/ NoEmbed \/ InjectLauncher
    \/ \E s \in DOMAIN Work : NoMemory(s) \/ WorkFails(s) \/ WorkDone(s)
    \/ Unpatch \/ DeleteDummies \/ ModifyOsd \/ WriteConfig \/ PatchDummies
    \/ \E s \in DOMAIN After : WriteFiles(s) \/ SkipFiles(s)
    \/ \E s \in DOMAIN CopyNext : CopyFile(s)
    \/ \E s \in DOMAIN LoopNext : StartLoop(s) \/ CopyNextFile(s)

\* Bound: the user leaves the cards alone during a job, but for the signing, and
\* while its log is shown.
User ==
    /\ (ui.at # "work" /\ (ui.at = "menu" => ~ui.log)) \/ At("signing")
    /\ \E p \in Port : ChangeCard(p)
    /\ UNCHANGED <<ui, job, heap>>
Libmc == AnswerCall /\ UNCHANGED <<ui, job, heap>>

Next == MoveButton \/ Press \/ PressConfigurator \/ ShowCredits \/ CheckPort \/ Confirm \/ Job \/ User \/ Libmc
Spec == Init /\ [][Next]_vars
\* The IOP answers every call and the check looks for the answer in a loop.
FairSpec == Spec /\ WF_vars(Libmc) /\ WF_vars(CheckPort)

(***************************************************************************)
(* Properties.                                                             *)
(***************************************************************************)

\* The buffers a step still reads.
Held ==
    CASE job.step = "decrypting" -> {"orig"}
      [] job.step \in {"signing", "embedding"} -> {"orig", "decr"}
      [] job.step = "injecting" -> {"orig", "decr"} \cup (IF heap.ptr["bootelf"] = Null THEN {} ELSE {"bootelf"})
      [] job.step = "verifying" -> {"orig", "decr", "injected"}
      [] job.step = "building" -> {"orig", "injected"}
      [] job.step \in {"idle", "open", "space", "reading", "modifying"} \/ Button = "uninstall" -> {}
      [] OTHER -> {"hacked"}

\* No free, also none of the repeated free(boot_file) of Install_Hack (1827-2105),
\* releases a buffer that is still to be read, and no two share an address.
BuffersHeld ==
    /\ \A b \in Held : heap.ptr[b] \in heap.used
    /\ \A b, c \in Held : heap.ptr[b] = heap.ptr[c] => b = c

\* Every exit of a job frees what it allocated, but for the one after the second
\* malloc of the launcher failed (2603-2613).
OnlyInjectedLeaks == job.step = "idle" => heap.used = heap.leaked

\* log_index has no bound (1461-2730): a normal job fits the log, a
\* multi-install may write one line past it.
LogFits == job.lines <= MaxLogLines + (IF Multi THEN 1 ELSE 0)

\* "installed successfully" is only said when no line is marked as failed, but
\* for the unpatching of dummies, whose failure does not stop an installation (1525).
SuccessUnmarked == ui.said = "installed" => job.failed \subseteq {"unpatching"}

\* FMCB_Needed_Space falls short of what Install_Hack takes only by what
\* Overlooked lists, whatever is on the card and in the INSTALL folder and
\* whether the user keeps the CNF of the card: files counted as freed that are
\* not, or freed twice, and the rounding of files and folders (1083-1377,
\* 1502-2190).
ShortByRounding == job.short <= job.slack

\* "Calculate Amount of needed space for complete install" (1083): a card that
\* passes the check has room for all that is written.
SpaceEnough == job.short = 0
==============================================================================

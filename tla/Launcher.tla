------------------------------ MODULE Launcher ------------------------------
(***************************************************************************)
(* The loader that a memory card boots (src/launcher2/launcher2.c, with    *)
(* its ELF loader and the ESR disc check): what it decides to run, from    *)
(* the configuration file, the pads, the disc and the files on the cards,  *)
(* and what it does when the OSDSYS it patched calls it back.              *)
(*                                                                         *)
(* A path is a pair <<device, name>>; Null is the null pointer and Nowhere *)
(* the empty string.  OSDSYS, FASTBOOT and OSDMENU are paths of device      *)
(* "special".  Left out: pictures, video modes, the patches that change    *)
(* the looks of OSDSYS, the lengths of the two delays.                     *)
(***************************************************************************)
EXTENDS Integers, Sequences, FiniteSets, SequencesExt, FiniteSetsExt

CONSTANTS
  Name,            \* names of files, and of what a special path stands for
  Media,           \* contents of a card or stick: [files : SUBSET Names, cnf : Cnf]
  Fits,            \* which of them may be in "mass", "mc0" and "mc1", or NoMedium
  Discs,           \* what may lie in the tray
  Consoles,        \* [early : isEarlyJap, menu : patch_menu finds its patterns]
  SwapAt,          \* places at which the user changes cards, stick or disc
  CnfButtons,      \* LK_ID without Auto: buttons in the order of their libpad bits
  DefaultButtons,  \* those looked at without a configuration file (L2 R2 L1 R1)
  DefaultNames,    \* default_path: <<name in BOOT, name in B?DATA-SYSTEM>> per index
  NewItems,        \* NEWITEMS, the menu items a configuration may name
  MaxLetter        \* bound on the port letter of the USB drivers' path

Slot == {"mass", "mc0", "mc1"}
NoFile == <<<<>>>>
NoMedium == [files |-> {}, cnf |-> NoFile]

ASSUME LauncherAssumption == NewItems \in Nat /\ MaxLetter \in Nat \ {0, 1}
ASSUME SlotAssumption == Fits \in [Slot -> SUBSET (Media \cup {NoMedium})]
ASSUME ConsoleAssumption == \A c \in Consoles : c.menu \in BOOLEAN
ASSUME NameAssumption == {"", "RESCUE.ELF", "ESR", "SYS-ESR"} \subseteq Name
ASSUME ButtonAssumption ==
  /\ {CnfButtons, DefaultButtons} \subseteq Seq(ToSet(CnfButtons))
  /\ Len(DefaultButtons) <= Len(CnfButtons)
  /\ DefaultNames \in Seq(Name \X Name)
  /\ Len(DefaultNames) = Len(DefaultButtons) + 1

VARIABLES
  slots,      \* what is plugged in: "mass", "mc0", "mc1" -> Media or NoMedium
  disc,       \* the tray
  swapped,    \* history: media were changed since power on
  console,    \* one of Consoles
  bootMc,     \* boot_from_mc
  at,         \* where the program is
  j,          \* loop index of check_ESR_paths and check_exec_paths
  button,     \* index of the paths in p_pad_ExecPath, 0 for Auto
  settings,   \* OSDSYS and FMCB
  loaded,     \* config_loaded
  buffer,     \* CNF_RAM_p: "null", "live" or "freed"
  esrPath,    \* esr_path
  validEsr,   \* the path valid_ESR_path points at, an index of esrPath, or 0
  menu,       \* the entries of menuitem_path, each an index <<item, path>>
  patched,    \* OSDSYS runs with the menu of patch_menu
  usb,        \* [port : usbd_irx_path[2], up : the drivers are loaded]
  reloading,  \* in reload_osdsys
  outcome     \* what the boot ended in

media == <<slots, disc, swapped>>
vars == <<media, console, bootMc, at, j, button, settings, loaded, buffer, esrPath,
          validEsr, menu, patched, usb, reloading, outcome>>

Null == <<>>
Nowhere == <<"", "">>
Device == {"", "special", "mc?"} \cup Slot
Path == {Null} \cup (Device \X Name)
Special(p) == p[1] = "special"
RescuePath == <<"mass", "RESCUE.ELF">>
DefaultEsr == <<<<"mass", "ESR">>, <<"mc?", "ESR">>, <<"mc?", "SYS-ESR">>>>
DefaultLk(k) ==
  LET n == DefaultNames[k + 1]
  IN  <<<<"mass", n[1]>>, <<"mc?", n[1]>>, <<"mc?", n[2]>>>>

\* file_exists: a stick can be read only while the USB drivers are loaded.
ExistsWith(p, u) ==
  /\ p # Null
  /\ p[1] \in Slot
  /\ p[2] \in slots[p[1]].files
  /\ p[1] = "mass" => u.up
Exists(p) == ExistsWith(p, usb)

Resolved_Untested(p) == IF p = Null \/ p[1] # "mc?" THEN p ELSE <<"mc0", p[2]>>
\* "mc?:" becomes "mc0:" if the file is there and "mc1:" if not, in place.
Resolved(p) ==
  IF p = Null \/ p[1] # "mc?" THEN p
  ELSE IF Exists(<<"mc0", p[2]>>) THEN <<"mc0", p[2]>> ELSE <<"mc1", p[2]>>

----------------------------------------------------------------------------
(* The configuration file *)

\* The variables a file may set: flags, ESR paths, menu items, paths of the buttons.
Flags == {"hack", "debug", "fastboot", "skipMc"}
Names == {<<"name", i>> : i \in 1..NewItems}
ItemPaths == {<<"path", i, k>> : i \in 1..NewItems, k \in 1..3}
EsrPaths == {<<"esr", k>> : k \in 1..3}
ButtonPaths == {<<"lk", b, k>> : b \in 0..Len(CnfButtons), k \in 1..3}
Pointers == ItemPaths \cup EsrPaths \cup ButtonPaths
Variables == {<<f>> : f \in Flags} \cup Names \cup Pointers

\* A line sets a variable, identifies the file or cannot be read.
Line == ((Variables \ Pointers) \X BOOLEAN) \cup (Pointers \X Path)
        \cup ({<<"version">>} \X Nat) \cup ({<<"syntax">>} \X {0})
ASSUME FileAssumption == \A m \in Media : m.cnf \in Seq(Line)

Defaults == [v \in Variables |-> IF v \in Pointers THEN Null ELSE FALSE]

\* A line that get_CNF_string cannot read ends the file, a variable that comes
\* before a CNF_version other than 0 refuses it; what was read until then stays.
Unread(lines) == {n \in DOMAIN lines : lines[n][1] = <<"syntax">>}
Unidentified(lines) ==
  {n \in DOMAIN lines :
     /\ lines[n][1] # <<"version">>
     /\ LET before == {m \in 1..(n - 1) : lines[m][1] = <<"version">>}
        IN  before = {} \/ lines[Max(before)][2] = 0}
LinesRead(lines) == 1..(Min(Unread(lines) \cup Unidentified(lines) \cup {Len(lines) + 1}) - 1)
Refused(lines) ==
  \E n \in Unidentified(lines) : n = Cardinality(LinesRead(lines)) + 1 /\ n \notin Unread(lines)
\* What the file of a medium says: the last line on each variable counts.
Says == [m \in Media |->
  LET at_(v) == {n \in LinesRead(m.cnf) : m.cnf[n][1] = v}
  IN  [v \in {w \in Variables : at_(w) # {}} |-> m.cnf[Max(at_(v))][2]]]
\* The variables after a file that says so much was read.
Read(says, old) == [v \in Variables |-> IF v \in DOMAIN says THEN says[v] ELSE old[v]]
RefusedMedia == {m \in Media : Refused(m.cnf)}

\* The file is looked for on the stick, the card booted from, the other card.
CnfPlaces ==
  IF bootMc = "mc1" THEN <<"mass", "mc1", "mc0">> ELSE <<"mass", "mc0", "mc1">>
HasCnf(k) == slots[CnfPlaces[k]].cnf # NoFile /\ (CnfPlaces[k] = "mass" => usb.up)
CnfFound == \E k \in 1..3 : HasCnf(k)
CnfMedium == slots[CnfPlaces[Min({k \in 1..3 : HasCnf(k)})]]

\* free(CNF_RAM_p) is called if the pointer is not null, which it stays.
DoubleFree == buffer = "freed"
Freed == IF buffer = "null" THEN "null" ELSE "freed"

----------------------------------------------------------------------------
(* Drivers of the USB stick, whose path is adjusted in place *)

DriverAt(n) == \/ n = 0 /\ "USBD" \in slots["mc0"].files
               \/ n = 1 /\ "USBD" \in slots["mc1"].files
LoadModules_OneTry(u) ==
  [port |-> IF DriverAt(u.port) \/ u.port >= MaxLetter THEN u.port ELSE u.port + 1,
   up   |-> DriverAt(u.port)]
LoadModules(u) ==
  IF DriverAt(u.port) THEN [u EXCEPT !.up = TRUE]
  ELSE [port |-> IF u.port < MaxLetter THEN u.port + 1 ELSE u.port,
        up   |-> DriverAt(u.port + 1)]

\* load_elf resets the IOP and loads the drivers anew if OSDSYS called (OSDSYS_CleanUp).
FromOsdsys == reloading \/ at = "osdsys"
Cleaned(u) == IF FromOsdsys THEN LoadModules(u) ELSE u

----------------------------------------------------------------------------
(* Ways the boot ends *)

Keep == UNCHANGED <<media, console, bootMc, j, button, settings, loaded, esrPath,
                    validEsr, menu, patched, reloading>>

End(o) == at' = "ended" /\ outcome' = o /\ Keep

\* The program is handed over, its buffer freed.
HandOver(o) ==
  /\ buffer' = Freed
  /\ End(IF DoubleFree THEN <<"double free">> ELSE o)

\* execute_elf: the embedded loader opens the file anew, or calls the OSDSYS of the ROM.
ExecuteElf(p, u) ==
  /\ usb' = u
  /\ HandOver(IF ExistsWith(p, u) THEN <<"elf", p>> ELSE <<"rom OSDSYS", p>>)

\* The answers of Check_ESR_Disc: 1, 0, or -1 for a disc that could not be read.
EsrAnswers == {-1, IF disc.esr THEN 1 ELSE 0}

DvdUpdate == \E s \in {"mc0", "mc1"} : "DVDPLAYER" \in slots[s].files

\* load_elf("DVDV_CHECK"): the player for a DVD video, ESR for anything else.
DvdvCheck(u) ==
  \E answer \in EsrAnswers :
    \/ /\ answer = 0
       /\ usb' = u
       /\ HandOver(IF (~settings[<<"skipMc">>] \/ console.early) /\ DvdUpdate
                   THEN <<"dvd update">> ELSE <<"dvd player">>)
    \/ answer # 0 /\ validEsr # 0 /\ ExecuteElf(esrPath[validEsr], u)
    \/ answer # 0 /\ validEsr = 0 /\ usb' = u /\ UNCHANGED buffer /\ End(<<"null esr">>)

\* Read_SYSTEM_CNF: 2 for a PS2 disc, 1 for a PS1 disc, 0 for neither; a disc
\* without the file may be one of the PS1 games known by another file.
DiscType ==
  CASE "BOOT2" \in disc.cnf -> 2
    [] "BOOT2" \notin disc.cnf /\ "BOOT" \in disc.cnf -> 1
    [] disc.cnf = {} /\ disc.ps1 -> 1
    [] OTHER -> 0

Launch(u) == at' = "launch" /\ usb' = u /\ Keep /\ UNCHANGED <<buffer, outcome>>

\* FastBoot_Disc; "no" is what the caller does when it returns -1.
FastBootDisc(no, u) ==
  \/ disc.type \in {"open", "none", "other"} /\ no
  \/ /\ disc.type \in {"ps1", "ps2"}
     /\ LET type == IF disc.type = "ps1" THEN 1 ELSE 2
        IN  \/ DiscType = type /\ usb' = u /\ HandOver(<<"disc", type>>)
            \/ DiscType # type /\ Launch(u)
  \/ disc.type = "dvdv" /\ DvdvCheck(Cleaned(u))

----------------------------------------------------------------------------
(* main, from power on to the path that is run *)

Idle == UNCHANGED <<media, console, bootMc, settings, loaded, buffer, menu, patched, usb,
                    reloading, outcome>>

PowerOn ==
  /\ at \in {"off", "ended", "osdsys"}
  /\ at' = "rescue"
  /\ swapped' = FALSE
  /\ console' \in Consoles
  /\ bootMc' \in {"mc0", "mc1"}
  /\ usb' = LoadModules([port |-> 0, up |-> FALSE])
  /\ settings' = Defaults
  /\ esrPath' = DefaultEsr
  /\ buffer' = "null"
  /\ j' = 1 /\ button' = 0 /\ validEsr' = 0 /\ menu' = {} /\ outcome' = Null
  /\ loaded' = FALSE /\ patched' = FALSE /\ reloading' = FALSE
  /\ UNCHANGED <<slots, disc>>

TestRescue ==
  /\ at = "rescue"
  /\ \/ Exists(RescuePath) /\ ExecuteElf(RescuePath, usb)
     \/ ~Exists(RescuePath) /\ at' = "config" /\ Idle /\ UNCHANGED <<j, button, esrPath, validEsr>>

NewBuffer_Reused == IF CnfFound /\ buffer = "null" THEN "live" ELSE buffer
\* CNF_RAM_p is assigned only once a file was opened.
NewBuffer == IF CnfFound THEN "live" ELSE buffer

\* The copy of the ESR paths reads through a null pointer if the file names none.
LoadConfig ==
  LET ok == CnfFound /\ CnfMedium \notin RefusedMedia
      new == IF CnfFound THEN Read(Says[CnfMedium], settings) ELSE settings
      esr == [k \in 1..3 |-> new[<<"esr", k>>]]
  IN
  /\ at = "config"
  /\ buffer' = NewBuffer
  /\ loaded' = ok
  /\ settings' = IF ok \/ reloading THEN new
                 ELSE [v \in Variables |-> IF v \in ButtonPaths /\ v[2] < Len(DefaultNames)
                                           THEN DefaultLk(v[2])[v[3]] ELSE new[v]]
  /\ IF ok /\ Null \in {esr[k] : k \in 1..3}
     THEN at' = "ended" /\ outcome' = <<"null config">> /\ UNCHANGED esrPath
     ELSE /\ at' = "esr" /\ UNCHANGED outcome
          /\ esrPath' = IF ok THEN esr ELSE esrPath
  /\ j' = 1
  /\ UNCHANGED <<media, console, bootMc, button, validEsr, menu, patched, usb, reloading>>

AfterEsr == at' = IF reloading THEN "launch" ELSE "pad1"

NextEsr_PastEnd ==
  IF j <= 3 THEN at' = at /\ j' = j + 1 /\ UNCHANGED validEsr
  ELSE AfterEsr /\ j' = 1 /\ validEsr' = 0
NextEsr_Same ==
  IF j < 3 THEN at' = at /\ UNCHANGED <<j, validEsr>>
  ELSE AfterEsr /\ j' = 1 /\ validEsr' = 0
NextEsr ==
  IF j < 3 THEN at' = at /\ j' = j + 1 /\ UNCHANGED validEsr
  ELSE AfterEsr /\ j' = 1 /\ validEsr' = 0

\* A path of ESR may itself boot the disc or OSDSYS; a FASTBOOT without a disc
\* is no file, and the next path is looked at.
CheckEsrPath ==
  LET path == esrPath[j]
      p == Resolved(path)
  IN
  /\ at = "esr"
  /\ \/ /\ path = <<"special", "FASTBOOT">>
        /\ FastBootDisc(NextEsr /\ Idle /\ UNCHANGED <<button, esrPath>>, usb)
     \/ path \in {<<"special", "OSDSYS">>, <<"special", "OSDMENU">>} /\ Launch(usb)
     \/ /\ path # Null /\ ~Special(path)
        /\ esrPath' = [esrPath EXCEPT ![j] = p]
        /\ IF Exists(p) THEN AfterEsr /\ j' = 1 /\ validEsr' = j ELSE NextEsr
        /\ Idle /\ UNCHANGED button

PadOrder == IF loaded THEN CnfButtons ELSE DefaultButtons

\* The first button in the order of the bits counts; others are passed over.
Press(next) ==
  \E pressed \in SUBSET ToSet(CnfButtons) :
    LET hits == {k \in DOMAIN PadOrder : PadOrder[k] \in pressed} IN
    /\ hits # {}
    /\ button' = Min(hits)
    /\ at' = next
    /\ Idle /\ UNCHANGED <<j, esrPath, validEsr>>

PressInFirstLoop == at = "pad1" /\ Press("exec")
PressInSecondLoop == at = "pad2" /\ Press("exec")
EndOfFirstLoop ==
  /\ at = "pad1"
  /\ at' = IF settings[<<"fastboot">>] \/ console.early THEN "fastboot" ELSE "pad2"
  /\ Idle /\ UNCHANGED <<j, button, esrPath, validEsr>>
EndOfSecondLoop ==
  at = "pad2" /\ at' = "exec" /\ Idle /\ UNCHANGED <<j, button, esrPath, validEsr>>

FastBoot ==
  /\ at = "fastboot"
  /\ FastBootDisc(at' = "pad2" /\ Idle /\ UNCHANGED <<j, button, esrPath, validEsr>>, usb)

\* check_exec_paths, one path at a time.
PathTaken == settings[<<"lk", button, j>>]
SkipPath ==
  /\ IF j < 3 THEN j' = j + 1 /\ at' = at /\ UNCHANGED outcome
     ELSE /\ j' = 1
          /\ IF settings[<<"debug">>] THEN at' = "ended" /\ outcome' = <<"green">>
             ELSE at' = "launch" /\ UNCHANGED outcome
  /\ UNCHANGED <<media, console, bootMc, button, loaded, buffer, esrPath, validEsr, menu,
                 patched, usb, reloading>>

CheckExecPath ==
  LET p == Resolved(PathTaken) IN
  /\ at = "exec"
  /\ \/ PathTaken = Null /\ SkipPath /\ UNCHANGED settings
     \/ /\ PathTaken = <<"special", "FASTBOOT">>
        /\ FastBootDisc(SkipPath /\ UNCHANGED settings, usb)
     \/ PathTaken \in {<<"special", "OSDSYS">>, <<"special", "OSDMENU">>} /\ Launch(usb)
     \/ /\ PathTaken # Null /\ ~Special(PathTaken)
        /\ \/ Exists(p) /\ ExecuteElf(p, usb)
           \/ ~Exists(p) /\ SkipPath /\ settings' = [settings EXCEPT ![<<"lk", button, j>>] = p]

----------------------------------------------------------------------------
(* OSDSYS and what it calls back *)

\* launch_osdsys looks at the paths of an item up to the first it can list.
Listable(i, k) ==
  LET p == settings[<<"path", i, k>>] IN
  /\ settings[<<"name", i>>] /\ p # Null /\ p # Nowhere
  /\ \/ p \in {<<"special", "OSDSYS">>, <<"special", "FASTBOOT">>}
     \/ Exists(Resolved(p))
Listed(i) == {k \in 1..3 : Listable(i, k)}
LookedAt(i, k) == settings[<<"name", i>>] /\ (Listed(i) = {} \/ k <= Min(Listed(i)))
NewMenu == {<<i, Min(Listed(i))>> : i \in {i \in 1..NewItems : Listed(i) # {}}}

\* patch_menu hooks the menu if it finds its patterns in this OSDSYS.
PatchMenu == patched' = console.menu

LaunchOsdsys ==
  /\ at = "launch"
  /\ at' = "osdsys"
  /\ IF settings[<<"hack">>]
     THEN /\ menu' = NewMenu
          /\ settings' = [v \in Variables |->
               IF v \in ItemPaths /\ LookedAt(v[2], v[3]) THEN Resolved(settings[v]) ELSE settings[v]]
          /\ PatchMenu
     ELSE patched' = FALSE /\ UNCHANGED <<menu, settings>>
  /\ usb' = LoadModules(usb)
  /\ reloading' = FALSE
  /\ UNCHANGED <<media, console, bootMc, j, button, loaded, buffer, esrPath, validEsr, outcome>>

Reset_Flags == [v \in Variables |-> IF v \in Pointers THEN settings[v] ELSE FALSE]
\* Set_Default_Settings
Reset == Defaults

\* reload_osdsys frees the buffer first; every pointer into it is reset.
Reload(u) ==
  /\ usb' = u
  /\ settings' = Reset
  /\ IF DoubleFree
     THEN at' = "ended" /\ outcome' = <<"double free">> /\ UNCHANGED <<buffer, reloading>>
     ELSE at' = "config" /\ buffer' = Freed /\ reloading' = TRUE /\ UNCHANGED outcome
  /\ UNCHANGED <<media, console, bootMc, j, button, loaded, esrPath, validEsr, menu, patched>>

SelectItem ==
  /\ at = "osdsys" /\ patched
  /\ \E item \in menu :
       LET p == settings[<<"path", item[1], item[2]>>]
           u == LoadModules(usb)
       IN  \/ p = <<"special", "OSDSYS">> /\ Reload(u)
           \/ p = <<"special", "FASTBOOT">> /\ FastBootDisc(Reload(u), u)
           \/ ~Special(p) /\ ExecuteElf(p, u)

\* deviated_exec_dvdv and deviated_exec_ps2dvd; load_elf("PS2DVD") starts the
\* game with whatever path Read_SYSTEM_CNF left.
PlayDvd == at = "osdsys" /\ disc.type = "dvdv" /\ DvdvCheck(LoadModules(usb))
PlayPs2Dvd ==
  /\ at = "osdsys" /\ disc.type = "ps2"
  /\ usb' = LoadModules(usb)
  /\ HandOver(<<"disc", 2>>)

----------------------------------------------------------------------------
(* The user changes cards, stick or disc *)

Swap ==
  /\ at \in SwapAt
  /\ \/ \E s \in Slot : \E m \in Fits[s] :
           slots' = [slots EXCEPT ![s] = m] /\ UNCHANGED disc
     \/ disc' \in Discs /\ UNCHANGED slots
  /\ swapped' = TRUE
  /\ UNCHANGED <<console, bootMc, at, j, button, settings, loaded, buffer, esrPath,
                 validEsr, menu, patched, usb, reloading, outcome>>

Init ==
  /\ slots \in [Slot -> Media \cup {NoMedium}]
  /\ \A s \in Slot : slots[s] \in Fits[s]
  /\ disc \in Discs
  /\ swapped = FALSE
  /\ console \in Consoles
  /\ bootMc = "mc0" /\ at = "off" /\ j = 1 /\ button = 0
  /\ settings = Defaults /\ loaded = FALSE /\ buffer = "null"
  /\ esrPath = DefaultEsr /\ validEsr = 0
  /\ menu = {} /\ patched = FALSE
  /\ usb = [port |-> 0, up |-> FALSE]
  /\ reloading = FALSE /\ outcome = Null

\* Steps the program takes by itself; pads and OSDSYS wait for the user.
Program ==
  \/ TestRescue \/ LoadConfig \/ CheckEsrPath
  \/ EndOfFirstLoop \/ FastBoot \/ EndOfSecondLoop
  \/ CheckExecPath \/ LaunchOsdsys
User ==
  \/ PowerOn \/ PressInFirstLoop \/ PressInSecondLoop
  \/ SelectItem \/ PlayDvd \/ PlayPs2Dvd \/ Swap
Next == Program \/ User
Spec == Init /\ [][Next]_vars /\ WF_vars(Program)

----------------------------------------------------------------------------
(* Properties *)

Places == {"off", "rescue", "config", "esr", "pad1", "fastboot", "pad2", "exec", "launch",
           "osdsys", "ended"}

\* The variables have their types; an item is in the menu once.
TypeOK ==
  /\ at \in Places /\ j \in 1..3 /\ button \in 0..Len(CnfButtons)
  /\ slots \in [Slot -> Media \cup {NoMedium}] /\ \A s \in Slot : slots[s] \in Fits[s]
  /\ disc \in Discs /\ console \in Consoles
  /\ buffer \in {"null", "live", "freed"} /\ bootMc \in {"mc0", "mc1"}
  /\ usb \in [port : 0..MaxLetter, up : BOOLEAN]
  /\ {swapped, loaded, patched, reloading} \subseteq BOOLEAN
  /\ settings = [v \in Variables |-> settings[v]]
  /\ \A v \in Pointers : settings[v] \in Path
  /\ \A v \in Variables \ Pointers : settings[v] \in BOOLEAN
  /\ esrPath \in [1..3 -> Path] /\ validEsr \in 0..3
  /\ menu \subseteq (1..NewItems) \X (1..3)
  /\ \A e, f \in menu : e[1] = f[1] => e = f

\* The paths the user may expect of a button.
Wanted(b, k) ==
  LET v == <<"lk", b, k>> IN
  IF ~loaded THEN DefaultLk(b)[k]
  ELSE IF v \in DOMAIN Says[CnfMedium] THEN Says[CnfMedium][v] ELSE Null
Bootable(d) == d.type \in {"ps1", "ps2", "dvdv"}
Places_of(p) ==
  {q \in {<<s, p[2]>> : s \in IF p[1] = "mc?" THEN {"mc0", "mc1"} ELSE {p[1]}} : Exists(q)}
Usable(p) ==
  /\ p # Null
  /\ \/ Special(p) /\ (p[2] = "FASTBOOT" => Bootable(disc))
     \/ ~Special(p) /\ Places_of(p) # {}

\* What is run is what the configuration asks for the button that was pressed:
\* the first usable of its three paths, the first card before the second; with
\* none usable OSDSYS, or the green screen if that was asked for.  FASTBOOT
\* stands for the disc.  (Media changed meanwhile excepted.)
AsConfigured ==
  LET usable == {k \in 1..3 : Usable(Wanted(button, k))}
      p == Wanted(button, Min(usable))
      first == IF <<"mc0", p[2]>> \in Places_of(p) THEN <<"mc0", p[2]>>
               ELSE CHOOSE q \in Places_of(p) : TRUE
  IN
  CASE usable = {} -> IF settings[<<"debug">>] THEN outcome' = <<"green">> ELSE at' = "launch"
    [] usable # {} /\ Special(p) ->
         IF p[2] # "FASTBOOT" THEN at' = "launch"
         ELSE CASE disc.type = "ps1" /\ DiscType = 1 -> outcome' = <<"disc", 1>>
                [] disc.type = "ps2" /\ DiscType = 2 -> outcome' = <<"disc", 2>>
                [] disc.type = "dvdv" -> at' = "ended"
                [] OTHER -> at' = "launch"
    [] OTHER -> outcome' = <<"elf", first>>
BootsAsConfigured ==
  [][at = "exec" /\ at' \in {"ended", "launch"} /\ ~swapped => AsConfigured]_vars

\* Of the former configuration a reload leaves no setting: flags, menu items and
\* paths are what the file now found says, over the defaults (a refused file may
\* have said nothing).  The paths of ESR are those of the file if it is usable;
\* if none is, the former ones stay (launcher2.c:2018-2031).
UsableFile == CnfFound /\ CnfMedium \notin RefusedMedia
ReloadIsFresh ==
  [][at = "config" /\ at' # at /\ reloading =>
       LET fresh == IF CnfFound THEN Read(Says[CnfMedium], Defaults) ELSE Defaults
       IN  /\ settings' = fresh
           /\ at' = "esr" =>
                esrPath' = IF UsableFile THEN [k \in 1..3 |-> fresh[<<"esr", k>>]]
                           ELSE esrPath]_vars

\* The configuration buffer is freed twice only if the file last looked for gave
\* no configuration: a reload frees the buffer and leaves the pointer as it was
\* (launcher2.c:2014-2015), and only a file that is opened gives it a new one.
FreedOnce == outcome = <<"double free">> => ~loaded

\* While nothing is unplugged, the drivers of the stick are loaded exactly if
\* one of the cards holds them, however often the IOP was reset and whatever
\* became of the port letter of their path.
UsbWhilePresent ==
  at # "off" /\ ~swapped =>
    (usb.up <=> \E s \in {"mc0", "mc1"} : "USBD" \in slots[s].files)

\* Power on leads to OSDSYS or to an end of the boot, and so does a reload.
BootEnds == at \in {"rescue", "config"} ~> at \in {"osdsys", "ended"}
=============================================================================

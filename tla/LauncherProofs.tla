--------------------------- MODULE LauncherProofs ---------------------------
(***************************************************************************)
(* For any cards, sticks, discs, consoles, buttons and configurations, and *)
(* whatever the user changes meanwhile: the buffer of the configuration,   *)
(* the drivers of the stick, the settings after a reload, the types of the *)
(* variables, and what is run in the end (Launcher).                       *)
(***************************************************************************)
EXTENDS Launcher, FiniteSetTheorems, TLAPS

(* A buffer that is freed was freed by a reload, which goes on to look for *)
(* a file; only if it finds none does the pointer stay as it was.          *)
BufferInv ==
  /\ (outcome = <<"double free">> => at = "ended")
  /\ (buffer = "freed" /\ at \notin {"ended", "config"}) => ~loaded
  /\ FreedOnce

(* The letter of the drivers' path goes up by one each time they are not   *)
(* found, and stays past the second card.                                  *)
PortOK(u) ==
  /\ u = [port |-> u.port, up |-> u.up]
  /\ u.port \in 0..MaxLetter
  /\ u.port = 0 => DriverAt(0)
  /\ u.port > 0 => ~DriverAt(0)
  /\ u.port > 1 => ~DriverAt(1)
  /\ u.up <=> DriverAt(0) \/ DriverAt(1)
UsbInv == at # "off" /\ ~swapped => PortOK(usb)

(* A reload starts from the defaults and stays where it was until it has   *)
(* looked for the file.                                                    *)
FreshInv ==
  /\ at = "config" /\ reloading => settings = Defaults
  /\ at = "rescue" => ~reloading

IInv == BufferInv /\ UsbInv /\ FreshInv

------------------------------------------------------------------------------
(* The drivers                                                             *)

LEMMA NoThirdCard == \A n \in Nat : n > 1 => ~DriverAt(n)
BY DEF DriverAt

LEMMA LoadAgain ==
  ASSUME NEW u, PortOK(u) \/ u = [port |-> 0, up |-> FALSE]
  PROVE  PortOK(LoadModules(u))
<1>1. /\ u = [port |-> u.port, up |-> u.up] /\ u.port \in 0..MaxLetter
      /\ u.port > 0 => ~DriverAt(0)
      /\ u.port > 1 => ~DriverAt(1)
  BY LauncherAssumption DEF PortOK
<1>2. MaxLetter \in Nat /\ MaxLetter > 1
  BY LauncherAssumption
<1>3. CASE DriverAt(u.port)
  <2>1. LoadModules(u) = [port |-> u.port, up |-> TRUE]
    BY <1>1, <1>3 DEF LoadModules
  <2>2. u.port = 0 \/ u.port = 1
    BY <1>1, <1>2, <1>3, NoThirdCard
  <2> QED
    BY <1>1, <1>3, <2>1, <2>2 DEF PortOK
<1>4. CASE ~DriverAt(u.port)
  <2> DEFINE n == IF u.port < MaxLetter THEN u.port + 1 ELSE u.port
  <2>1. LoadModules(u) = [port |-> n, up |-> DriverAt(u.port + 1)]
    BY <1>4 DEF LoadModules
  <2>2. n \in 0..MaxLetter /\ n > 0 /\ (n = 1 => u.port = 0) /\ (n > 1 => u.port > 0)
    BY <1>1, <1>2
  <2>3. ~DriverAt(0) /\ (u.port > 0 => ~DriverAt(1))
    <3>1. CASE u.port = 0
      BY <1>4, <3>1
    <3>2. CASE u.port = 1
      BY <1>1, <1>4, <3>2
    <3>3. CASE u.port > 1
      BY <1>1, <3>3
    <3> QED
      BY <1>1, <1>2, <3>1, <3>2, <3>3
  <2>4. DriverAt(u.port + 1) <=> DriverAt(0) \/ DriverAt(1)
    <3>1. CASE u.port = 0
      BY <2>3, <3>1
    <3>2. CASE u.port > 0
      BY <1>1, <2>3, <3>2, NoThirdCard
    <3> QED
      BY <1>1, <1>2, <3>1, <3>2
  <2> HIDE DEF n
  <2> QED
    BY <2>1, <2>2, <2>3, <2>4 DEF PortOK
<1> QED
  BY <1>3, <1>4

------------------------------------------------------------------------------
(* What the steps have in common                                           *)

Drivers == {usb, LoadModules(usb), LoadModules(LoadModules(usb))}
SamePlugs == usb' \in Drivers /\ UNCHANGED media

(* The program goes on, or ends without handing over.                      *)
LEMMA GoesOn ==
  ASSUME IInv, UNCHANGED <<buffer, loaded, reloading>>,
         at \notin {"config", "ended"}, at' \notin {"config", "rescue"},
         outcome' = outcome \/ (at' = "ended" /\ outcome' # <<"double free">>)
  PROVE  BufferInv' /\ FreshInv'
BY DEF IInv, BufferInv, FreshInv, FreedOnce

(* The program hands over; the buffer may have been freed before.          *)
LEMMA HandsOver ==
  ASSUME IInv, NEW o, o # <<"double free">>, HandOver(o), at \notin {"config", "ended"}
  PROVE  BufferInv' /\ FreshInv' /\ UNCHANGED media /\ at' = "ended"
<1>1. /\ buffer' \in {"null", "freed"} /\ at' = "ended"
      /\ outcome' = IF buffer = "freed" THEN <<"double free">> ELSE o
      /\ loaded' = loaded /\ UNCHANGED media
  BY DEF HandOver, End, Keep, Freed, DoubleFree
<1>2. buffer = "freed" => ~loaded
  BY DEF IInv, BufferInv
<1> QED
  BY <1>1, <1>2 DEF BufferInv, FreshInv, FreedOnce

LEMMA Executes ==
  ASSUME IInv, NEW p, NEW u, ExecuteElf(p, u), at \notin {"config", "ended"}
  PROVE  BufferInv' /\ FreshInv' /\ UNCHANGED media /\ usb' = u /\ at' = "ended"
<1> DEFINE o == IF ExistsWith(p, u) THEN <<"elf", p>> ELSE <<"rom OSDSYS", p>>
<1>1. o # <<"double free">>
  OBVIOUS
<1>2. HandOver(o) /\ usb' = u
  BY DEF ExecuteElf
<1> HIDE DEF o
<1> QED
  BY <1>1, <1>2, HandsOver

LEMMA ChecksDvd ==
  ASSUME IInv, NEW u, DvdvCheck(u), at \notin {"config", "ended"}
  PROVE  BufferInv' /\ FreshInv' /\ UNCHANGED media /\ usb' = u /\ at' = "ended"
<1>1. CASE /\ usb' = u
           /\ HandOver(<<"dvd update">>) \/ HandOver(<<"dvd player">>)
  <2>1. <<"dvd update">> # <<"double free">> /\ <<"dvd player">> # <<"double free">>
    OBVIOUS
  <2> QED
    BY <1>1, <2>1, HandsOver
<1>2. CASE ExecuteElf(esrPath[validEsr], u)
  BY <1>2, Executes
<1>3. CASE usb' = u /\ UNCHANGED buffer /\ End(<<"null esr">>)
  BY <1>3, GoesOn DEF End, Keep
<1> QED
  BY <1>1, <1>2, <1>3 DEF DvdvCheck

BootsDisc(u) == FastBootDisc(FALSE, u)

LEMMA DiscBoots ==
  ASSUME IInv, NEW u, BootsDisc(u), at \notin {"config", "ended"}
  PROVE  /\ BufferInv' /\ FreshInv' /\ UNCHANGED media
         /\ usb' = u \/ usb' = Cleaned(u)
         /\ at' \in {"ended", "launch"}
<1>1. CASE \E type \in {1, 2} : usb' = u /\ HandOver(<<"disc", type>>)
  <2>1. \A type : <<"disc", type>> # <<"double free">>
    OBVIOUS
  <2> QED
    BY <1>1, <2>1, HandsOver
<1>2. CASE Launch(u)
  BY <1>2, GoesOn DEF Launch, Keep
<1>3. CASE DvdvCheck(Cleaned(u))
  BY <1>3, ChecksDvd
<1> QED
  BY <1>1, <1>2, <1>3 DEF BootsDisc, FastBootDisc

LEMMA Reloads ==
  ASSUME IInv, NEW u, Reload(u), at = "osdsys"
  PROVE  BufferInv' /\ FreshInv' /\ UNCHANGED media /\ usb' = u
BY DEF Reload, Reset, DoubleFree, Freed, IInv, BufferInv, FreshInv, FreedOnce

------------------------------------------------------------------------------
(* The steps                                                               *)

Safe == BufferInv' /\ FreshInv' /\ SamePlugs /\ at # "off" /\ at # "config"

LEMMA PathSteps ==
  ASSUME IInv,
         \/ TestRescue \/ CheckEsrPath \/ PressInFirstLoop \/ PressInSecondLoop
         \/ EndOfFirstLoop \/ EndOfSecondLoop \/ FastBoot \/ CheckExecPath
  PROVE  Safe
<1>1. CASE TestRescue
  <2>1. CASE ExecuteElf(RescuePath, usb) /\ at = "rescue"
    BY <2>1, Executes DEF Safe, SamePlugs, Drivers
  <2>2. CASE at = "rescue" /\ at' = "config" /\ Idle
    BY <2>2 DEF Idle, Safe, SamePlugs, Drivers, IInv, BufferInv, FreshInv, FreedOnce
  <2> QED
    BY <1>1, <2>1, <2>2 DEF TestRescue
<1>2. CASE EndOfFirstLoop \/ EndOfSecondLoop
  <2>1. Idle /\ at \in {"pad1", "pad2"} /\ at' \in {"fastboot", "pad2", "exec"}
    BY <1>2 DEF EndOfFirstLoop, EndOfSecondLoop
  <2> QED
    BY <2>1, GoesOn DEF Idle, Safe, SamePlugs, Drivers
<1>3. CASE PressInFirstLoop \/ PressInSecondLoop
  <2>1. Idle /\ at \in {"pad1", "pad2"} /\ at' = "exec"
    BY <1>3 DEF PressInFirstLoop, PressInSecondLoop, Press
  <2> QED
    BY <2>1, GoesOn DEF Idle, Safe, SamePlugs, Drivers
<1>4. CASE FastBoot
  <2>1. at = "fastboot" /\ (BootsDisc(usb) \/ (at' = "pad2" /\ Idle))
    BY <1>4 DEF FastBoot, FastBootDisc, BootsDisc
  <2>2. CASE BootsDisc(usb)
    BY <2>1, <2>2, DiscBoots DEF Cleaned, Safe, SamePlugs, Drivers
  <2>3. CASE at' = "pad2" /\ Idle
    BY <2>1, <2>3, GoesOn DEF Idle, Safe, SamePlugs, Drivers
  <2> QED
    BY <2>1, <2>2, <2>3
<1>5. CASE CheckExecPath
  <2>1. at = "exec" /\ (SkipPath \/ BootsDisc(usb) \/ Launch(usb) \/ \E q : ExecuteElf(q, usb))
    BY <1>5 DEF CheckExecPath, FastBootDisc, BootsDisc
  <2>2. CASE SkipPath
    <3>1. <<"green">> # <<"double free">>
      OBVIOUS
    <3>2. /\ UNCHANGED <<media, buffer, loaded, reloading, usb>> /\ at' \notin {"config", "rescue"}
          /\ outcome' = outcome \/ (at' = "ended" /\ outcome' = <<"green">>)
      BY <2>1, <2>2 DEF SkipPath
    <3> QED
      BY <2>1, <3>1, <3>2, GoesOn DEF Safe, SamePlugs, Drivers
  <2>3. CASE BootsDisc(usb)
    BY <2>1, <2>3, DiscBoots DEF Cleaned, Safe, SamePlugs, Drivers
  <2>4. CASE Launch(usb)
    BY <2>1, <2>4, GoesOn DEF Launch, Keep, Safe, SamePlugs, Drivers
  <2>5. CASE \E q : ExecuteElf(q, usb)
    BY <2>1, <2>5, Executes DEF Safe, SamePlugs, Drivers
  <2> QED
    BY <2>1, <2>2, <2>3, <2>4, <2>5
<1>6. CASE CheckEsrPath
  <2>1. /\ at = "esr"
        /\ BootsDisc(usb) \/ Launch(usb) \/ (Idle /\ at' \in {"esr", "launch", "pad1"})
    BY <1>6 DEF CheckEsrPath, FastBootDisc, BootsDisc, AfterEsr, NextEsr
  <2>2. CASE BootsDisc(usb)
    BY <2>1, <2>2, DiscBoots DEF Cleaned, Safe, SamePlugs, Drivers
  <2>3. CASE Launch(usb)
    BY <2>1, <2>3, GoesOn DEF Launch, Keep, Safe, SamePlugs, Drivers
  <2>4. CASE Idle /\ at' \in {"esr", "launch", "pad1"}
    BY <2>1, <2>4, GoesOn DEF Idle, Safe, SamePlugs, Drivers
  <2> QED
    BY <2>1, <2>2, <2>3, <2>4
<1> QED
  BY <1>1, <1>2, <1>3, <1>4, <1>5, <1>6

LEMMA OsdsysSteps ==
  ASSUME IInv, LaunchOsdsys \/ SelectItem \/ PlayDvd \/ PlayPs2Dvd
  PROVE  Safe
<1>1. CASE LaunchOsdsys
  <2>1. /\ at = "launch" /\ at' = "osdsys" /\ usb' = LoadModules(usb) /\ reloading' = FALSE
        /\ UNCHANGED <<media, loaded, buffer, outcome>>
    BY <1>1 DEF LaunchOsdsys
  <2> QED
    BY <2>1 DEF Safe, SamePlugs, Drivers, IInv, BufferInv, FreshInv, FreedOnce
<1>2. CASE SelectItem
  <2> DEFINE u == LoadModules(usb)
  <2>1. at = "osdsys" /\ (Reload(u) \/ BootsDisc(u) \/ \E q : ExecuteElf(q, u))
    BY <1>2 DEF SelectItem, FastBootDisc, BootsDisc
  <2> HIDE DEF u
  <2>2. CASE Reload(u)
    BY <2>1, <2>2, Reloads DEF u, Safe, SamePlugs, Drivers
  <2>3. CASE BootsDisc(u)
    <3>1. BufferInv' /\ FreshInv' /\ UNCHANGED media /\ (usb' = u \/ usb' = Cleaned(u))
      BY <2>1, <2>3, DiscBoots
    <3> QED
      BY <2>1, <3>1 DEF u, Cleaned, Safe, SamePlugs, Drivers
  <2>4. CASE \E q : ExecuteElf(q, u)
    BY <2>1, <2>4, Executes DEF u, Safe, SamePlugs, Drivers
  <2> QED
    BY <2>1, <2>2, <2>3, <2>4
<1>3. CASE PlayDvd
  BY <1>3, ChecksDvd DEF PlayDvd, Safe, SamePlugs, Drivers
<1>4. CASE PlayPs2Dvd
  <2>1. <<"disc", 2>> # <<"double free">>
    OBVIOUS
  <2> QED
    BY <1>4, <2>1, HandsOver DEF PlayPs2Dvd, Safe, SamePlugs, Drivers
<1> QED
  BY <1>1, <1>2, <1>3, <1>4

Fresh == IF CnfFound THEN Read(Says[CnfMedium], Defaults) ELSE Defaults
FreshEsr == IF UsableFile THEN [k \in 1..3 |-> Fresh[<<"esr", k>>]] ELSE esrPath

LEMMA ConfigStep ==
  ASSUME IInv, LoadConfig
  PROVE  /\ BufferInv' /\ FreshInv' /\ SamePlugs /\ at # "off"
         /\ reloading => settings' = Fresh /\ (at' = "esr" => esrPath' = FreshEsr)
<1>1. /\ at = "config" /\ at' \in {"esr", "ended"} /\ UNCHANGED <<media, usb, reloading>>
      /\ buffer' = IF CnfFound THEN "live" ELSE buffer
      /\ loaded' = (CnfFound /\ CnfMedium \notin RefusedMedia)
      /\ outcome' = outcome \/ outcome' = <<"null config">>
  BY DEF LoadConfig, NewBuffer
<1>2. outcome # <<"double free">> /\ <<"null config">> # <<"double free">>
  BY <1>1 DEF IInv, BufferInv
<1>3. BufferInv'
  BY <1>1, <1>2 DEF BufferInv, FreedOnce
<1>4. reloading => settings' = Fresh
  BY <1>1 DEF LoadConfig, Fresh, IInv, FreshInv
<1>5. ASSUME reloading, at' = "esr" PROVE esrPath' = FreshEsr
  <2> DEFINE new == IF CnfFound THEN Read(Says[CnfMedium], settings) ELSE settings
  <2>1. new = Fresh
    BY <1>1, <1>5 DEF Fresh, IInv, FreshInv
  <2>2. esrPath' = IF UsableFile THEN [k \in 1..3 |-> new[<<"esr", k>>]] ELSE esrPath
    BY <1>5 DEF LoadConfig, UsableFile
  <2> QED
    BY <2>1, <2>2 DEF FreshEsr
<1> QED
  BY <1>1, <1>3, <1>4, <1>5 DEF FreshInv, SamePlugs, Drivers

LEMMA UsbStep ==
  ASSUME IInv, SamePlugs, at # "off"
  PROVE  UsbInv'
<1>1. PortOK(usb) => PortOK(LoadModules(usb)) /\ PortOK(LoadModules(LoadModules(usb)))
  BY LoadAgain
<1>2. swapped' = swapped /\ \A u : PortOK(u)' <=> PortOK(u)
  BY DEF SamePlugs, media, PortOK, DriverAt
<1>3. usb' \in Drivers
  BY DEF SamePlugs
<1> QED
  BY <1>1, <1>2, <1>3 DEF UsbInv, IInv, Drivers

LEMMA PoweredOn ==
  ASSUME PowerOn
  PROVE  IInv' /\ at # "config"
<1>1. /\ at' = "rescue" /\ outcome' = Null /\ buffer' = "null"
      /\ loaded' = FALSE /\ reloading' = FALSE /\ at # "config"
  BY DEF PowerOn
<1>2. BufferInv' /\ FreshInv'
  <2>1. Null # <<"double free">>
    BY DEF Null
  <2> QED
    BY <1>1, <2>1 DEF BufferInv, FreshInv, FreedOnce
<1>3. UsbInv'
  <2> DEFINE none == [port |-> 0, up |-> FALSE]
  <2>1. PortOK(LoadModules(none))
    BY LoadAgain
  <2>2. usb' = LoadModules(none) /\ \A u : PortOK(u)' <=> PortOK(u)
    BY DEF PowerOn, PortOK, DriverAt
  <2> HIDE DEF none
  <2> QED
    BY <2>1, <2>2 DEF UsbInv
<1> QED
  BY <1>1, <1>2, <1>3 DEF IInv

LEMMA UserSwaps ==
  ASSUME IInv, Swap
  PROVE  IInv' /\ at' = at
<1>1. swapped' = TRUE /\ UNCHANGED <<at, settings, loaded, buffer, reloading, outcome>>
  BY DEF Swap
<1> QED
  BY <1>1 DEF IInv, BufferInv, UsbInv, FreshInv, FreedOnce

LEMMA Starts == Init => IInv
<1> SUFFICES ASSUME Init PROVE IInv
  OBVIOUS
<1>1. at = "off" /\ outcome = Null /\ buffer = "null" /\ Null # <<"double free">>
  BY DEF Init, Null
<1> QED
  BY <1>1 DEF IInv, BufferInv, UsbInv, FreshInv, FreedOnce

LEMMA SafeSteps ==
  ASSUME IInv, Safe
  PROVE  IInv' /\ at # "config"
BY UsbStep DEF Safe, IInv

(* Every step keeps the invariant, and a reload that has looked for its    *)
(* file leaves what the file says over the defaults, and its paths of ESR  *)
(* or, if the file cannot be used, the ones of before.                     *)
FreshStep ==
  at = "config" /\ at' # at /\ reloading =>
    settings' = Fresh /\ (at' = "esr" => esrPath' = FreshEsr)

LEMMA StepLemma == IInv /\ [Next]_vars => IInv' /\ FreshStep
<1> SUFFICES ASSUME IInv, [Next]_vars PROVE IInv' /\ FreshStep
  OBVIOUS
<1>1. CASE \/ TestRescue \/ CheckEsrPath \/ PressInFirstLoop \/ PressInSecondLoop
           \/ EndOfFirstLoop \/ EndOfSecondLoop \/ FastBoot \/ CheckExecPath
  BY <1>1, PathSteps, SafeSteps DEF FreshStep
<1>2. CASE LaunchOsdsys \/ SelectItem \/ PlayDvd \/ PlayPs2Dvd
  BY <1>2, OsdsysSteps, SafeSteps DEF FreshStep
<1>3. CASE LoadConfig
  BY <1>3, ConfigStep, UsbStep DEF FreshStep, IInv
<1>4. CASE PowerOn
  BY <1>4, PoweredOn DEF FreshStep
<1>5. CASE Swap
  BY <1>5, UserSwaps DEF FreshStep
<1>6. CASE UNCHANGED vars
  <2>1. UNCHANGED <<slots, swapped, at, settings, loaded, buffer, usb, reloading, outcome>>
    BY <1>6 DEF vars, media
  <2> QED
    BY <2>1 DEF FreshStep, IInv, BufferInv, UsbInv, PortOK, DriverAt, FreshInv, FreedOnce
<1> QED
  BY <1>1, <1>2, <1>3, <1>4, <1>5, <1>6 DEF Next, Program, User

THEOREM InvariantHolds == Spec => []IInv
<1>1. Init => IInv
  BY Starts
<1>2. IInv /\ [Next]_vars => IInv'
  BY StepLemma
<1> QED
  BY <1>1, <1>2, PTL DEF Spec

(* reload_osdsys and load_elf: the buffer of the configuration is freed a  *)
(* second time only if the reload that freed it found no usable file.      *)
THEOREM BufferFreedOnce == Spec => []FreedOnce
<1>1. IInv => FreedOnce
  BY DEF IInv, BufferInv
<1> QED
  BY <1>1, InvariantHolds, PTL

(* load_usb_modules: while nothing is unplugged, the drivers are loaded    *)
(* exactly if a card holds them, after any number of resets of the IOP.    *)
THEOREM DriversStay == Spec => []UsbWhilePresent
<1>1. UsbInv => UsbWhilePresent
  <2>1. (DriverAt(0) \/ DriverAt(1)) <=> \E s \in {"mc0", "mc1"} : "USBD" \in slots[s].files
    BY DEF DriverAt
  <2> QED
    BY <2>1 DEF UsbInv, UsbWhilePresent, PortOK
<1>2. IInv => UsbInv
  BY DEF IInv
<1> QED
  BY <1>1, <1>2, InvariantHolds, PTL

(* reload_osdsys and loadConfig: no setting of the former configuration    *)
(* outlives a reload; its paths of ESR do exactly if no usable file is     *)
(* found (launcher2.c:2018-2031).                                          *)
THEOREM ReloadFresh == Spec => ReloadIsFresh
<1> DEFINE A == at = "config" /\ at' # at /\ reloading =>
       LET fresh == IF CnfFound THEN Read(Says[CnfMedium], Defaults) ELSE Defaults
       IN  /\ settings' = fresh
           /\ at' = "esr" =>
                esrPath' = IF UsableFile THEN [k \in 1..3 |-> fresh[<<"esr", k>>]]
                           ELSE esrPath
<1>1. IInv /\ [Next]_vars => FreshStep
  BY StepLemma
<1>2. FreshStep => A
  BY DEF FreshStep, Fresh, FreshEsr
<1>3. IInv /\ [Next]_vars => [A]_vars
  BY <1>1, <1>2
<1>4. [][A]_vars <=> ReloadIsFresh
  BY DEF ReloadIsFresh
<1> HIDE DEF A
<1> QED
  BY <1>3, <1>4, InvariantHolds, PTL DEF Spec

------------------------------------------------------------------------------
(* Lemmas about the operators                                              *)

(* The first of some indices, and the last.                                *)
LEMMA FirstOf ==
  ASSUME NEW S, S \subseteq Nat, S # {}
  PROVE  Min(S) \in S /\ \A n \in S : Min(S) <= n
<1> DEFINE L == OpToRel(<, Nat)
<1>1. IsWellFoundedOn(L, Nat)
  BY NatLessThanWellFounded, Zenon
<1>2. \A m, n \in Nat : <<n, m>> \notin L => m <= n
  BY DEF OpToRel
<1> HIDE DEF L
<1>3. \E m \in S : \A n \in S : <<n, m>> \notin L
  BY <1>1, WFMin, Zenon
<1>4. \E m \in S : \A n \in S : m <= n
  BY <1>2, <1>3
<1> QED
  BY <1>4 DEF Min

LEMMA LastOf ==
  ASSUME NEW N \in Nat, NEW S, S \subseteq 1..N, S # {}
  PROVE  Max(S) \in S
<1> DEFINE T == {n \in 0..N : N - n \in S}
<1>1. T \subseteq Nat /\ T # {}
  <2>1. PICK n : n \in S
    OBVIOUS
  <2>2. N - n \in T
    BY <2>1
  <2> QED
    BY <2>2
<1>2. Min(T) \in T /\ \A n \in T : Min(T) <= n
  BY <1>1, FirstOf
<1>3. \A s \in S : N - s \in T
  OBVIOUS
<1>4. N - Min(T) \in S /\ \A s \in S : N - Min(T) >= s
  BY <1>2, <1>3
<1> QED
  BY <1>4 DEF Max

(* What a line may say.                                                    *)
LEMMA PointerKinds ==
  \A v \in Pointers : v \in Variables /\ v # <<"version">> /\ v # <<"syntax">>
BY DEF Pointers, ItemPaths, EsrPaths, ButtonPaths, Variables

LEMMA FlagKinds ==
  \A v \in Variables \ Pointers : v # <<"version">> /\ v # <<"syntax">>
BY DEF Variables, Flags, Names

LEMMA LineValue ==
  ASSUME NEW l \in Line, l[1] \in Variables
  PROVE  IF l[1] \in Pointers THEN l[2] \in Path ELSE l[2] \in BOOLEAN
BY PointerKinds, FlagKinds DEF Line

LEMMA ReadLines ==
  ASSUME NEW lines \in Seq(Line)
  PROVE  LinesRead(lines) \subseteq DOMAIN lines
<1> DEFINE S == Unread(lines) \cup Unidentified(lines) \cup {Len(lines) + 1}
<1>1. S \subseteq Nat /\ Len(lines) + 1 \in S /\ Len(lines) \in Nat /\ DOMAIN lines = 1..Len(lines)
  BY DEF Unread, Unidentified
<1> HIDE DEF S
<1>2. Min(S) \in Nat /\ Min(S) <= Len(lines) + 1
  BY <1>1, FirstOf
<1>3. LinesRead(lines) = 1..(Min(S) - 1)
  BY DEF LinesRead, S
<1> QED
  BY <1>1, <1>2, <1>3

Values(f) ==
  /\ \A v \in DOMAIN f \cap Pointers : f[v] \in Path
  /\ \A v \in DOMAIN f \ Pointers : f[v] \in BOOLEAN

LEMMA SaysValues ==
  ASSUME NEW m \in Media
  PROVE  DOMAIN Says[m] \subseteq Variables /\ Values(Says[m])
<1> DEFINE On(v) == {n \in LinesRead(m.cnf) : m.cnf[n][1] = v}
<1>1. Says[m] = [v \in {w \in Variables : On(w) # {}} |-> m.cnf[Max(On(v))][2]]
  BY DEF Says
<1>2. m.cnf \in Seq(Line)
  BY FileAssumption
<1>3. ASSUME NEW v \in Variables, On(v) # {}
      PROVE  IF v \in Pointers THEN m.cnf[Max(On(v))][2] \in Path
                               ELSE m.cnf[Max(On(v))][2] \in BOOLEAN
  <2>1. On(v) \subseteq DOMAIN m.cnf /\ DOMAIN m.cnf = 1..Len(m.cnf) /\ Len(m.cnf) \in Nat
    BY <1>2, ReadLines
  <2> DEFINE n == Max(On(v))
  <2>2. n \in On(v)
    BY <1>3, <2>1, LastOf
  <2>3. n \in DOMAIN m.cnf /\ m.cnf[n][1] = v
    BY <2>1, <2>2
  <2> HIDE DEF n, On
  <2>4. IF v \in Pointers THEN m.cnf[n][2] \in Path ELSE m.cnf[n][2] \in BOOLEAN
    <3>1. m.cnf[n] \in Line
      BY <1>2, <2>1, <2>3
    <3> QED
      BY <2>3, <3>1, LineValue
  <2> QED
    BY <2>4 DEF n
<1> HIDE DEF On
<1> QED
  BY <1>1, <1>3 DEF Values

------------------------------------------------------------------------------
(* Types                                                                   *)

LEMMA Buttons ==
  /\ Len(CnfButtons) \in Nat /\ DOMAIN CnfButtons = 1..Len(CnfButtons)
  /\ Len(DefaultButtons) \in Nat /\ DOMAIN DefaultButtons = 1..Len(DefaultButtons)
  /\ Len(DefaultButtons) <= Len(CnfButtons) /\ Len(DefaultNames) = Len(DefaultButtons) + 1
<1>1. \A S : \A s \in Seq(S) : Len(s) \in Nat /\ DOMAIN s = 1..Len(s)
  OBVIOUS
<1>2. CnfButtons \in Seq(ToSet(CnfButtons)) /\ DefaultButtons \in Seq(ToSet(CnfButtons))
  BY ButtonAssumption, Zenon
<1>3. Len(DefaultButtons) <= Len(CnfButtons) /\ Len(DefaultNames) = Len(DefaultButtons) + 1
  BY ButtonAssumption, Zenon
<1> QED
  BY <1>1, <1>2, <1>3, Zenon

LEMMA Pairs ==
  /\ Null \in Path
  /\ \A d \in Device, n \in Name : <<d, n>> \in Path
  /\ \A p, q, r \in Path : <<p, q, r>> \in [1..3 -> Path]
<1>1. Null \in Path
  BY DEF Path
<1>2. ASSUME NEW d \in Device, NEW n \in Name PROVE <<d, n>> \in Path
  BY DEF Path
<1>3. ASSUME NEW p \in Path, NEW q \in Path, NEW r \in Path
      PROVE  <<p, q, r>> \in [1..3 -> Path]
  OBVIOUS
<1> QED
  BY <1>1, <1>2, <1>3

LEMMA PathTypes ==
  /\ RescuePath \in Path /\ DefaultEsr \in [1..3 -> Path]
  /\ \A b \in 0..Len(DefaultButtons) : DefaultLk(b) \in [1..3 -> Path]
  /\ \A p \in Path : Resolved(p) \in Path
<1>1. RescuePath \in Path
  BY Pairs, NameAssumption DEF RescuePath, Device, Slot
<1>2. DefaultEsr \in [1..3 -> Path]
  BY Pairs, NameAssumption DEF DefaultEsr, Device, Slot
<1>3. ASSUME NEW b \in 0..Len(DefaultButtons) PROVE DefaultLk(b) \in [1..3 -> Path]
  <2> DEFINE n == DefaultNames[b + 1]
  <2>1. n \in Name \X Name
    <3>1. b + 1 \in 1..Len(DefaultNames)
      BY Buttons
    <3>2. DefaultNames \in Seq(Name \X Name)
      BY ButtonAssumption, Zenon
    <3> QED
      BY <3>1, <3>2
  <2>2. DefaultLk(b) = <<<<"mass", n[1]>>, <<"mc?", n[1]>>, <<"mc?", n[2]>>>>
    BY DEF DefaultLk
  <2>3. n[1] \in Name /\ n[2] \in Name
    BY <2>1
  <2> HIDE DEF n
  <2>4. <<"mass", n[1]>> \in Path /\ <<"mc?", n[1]>> \in Path /\ <<"mc?", n[2]>> \in Path
    BY <2>3, Pairs DEF Device, Slot
  <2> QED
    BY <2>2, <2>4, Pairs
<1>4. ASSUME NEW p \in Path PROVE Resolved(p) \in Path
  <2>1. CASE p # Null
    <3>1. p[2] \in Name
      BY <2>1 DEF Path
    <3> QED
      BY <3>1, Pairs DEF Resolved, Device, Slot
  <2> QED
    BY <2>1 DEF Resolved
<1> QED
  BY <1>1, <1>2, <1>3, <1>4

IsSettings(s) ==
  /\ s = [v \in Variables |-> s[v]]
  /\ \A v \in Pointers : s[v] \in Path
  /\ \A v \in Variables \ Pointers : s[v] \in BOOLEAN

LEMMA DefaultsTyped == IsSettings(Defaults)
BY PointerKinds, Pairs DEF IsSettings, Defaults

LEMMA ReadTyped ==
  ASSUME NEW m \in Media, NEW old, IsSettings(old)
  PROVE  IsSettings(Read(Says[m], old))
<1> DEFINE says == Says[m]
<1>1. DOMAIN says \subseteq Variables /\ Values(says)
  BY SaysValues
<1> HIDE DEF says
<1>2. Read(says, old) = [v \in Variables |-> IF v \in DOMAIN says THEN says[v] ELSE old[v]]
  BY DEF Read
<1>3. IsSettings(Read(says, old))
  BY <1>1, <1>2, PointerKinds DEF IsSettings, Values
<1> QED
  BY <1>3 DEF says

Usb == [port : 0..MaxLetter, up : BOOLEAN]

LEMMA DriversTyped ==
  ASSUME NEW u \in Usb
  PROVE  LoadModules(u) \in Usb /\ Cleaned(u) \in Usb
<1>1. LoadModules(u) \in Usb
  <2>1. u = [port |-> u.port, up |-> u.up] /\ u.port \in 0..MaxLetter /\ MaxLetter \in Nat
    BY LauncherAssumption DEF Usb
  <2>2. CASE DriverAt(u.port)
    <3>1. LoadModules(u) = [port |-> u.port, up |-> TRUE]
      BY <2>1, <2>2 DEF LoadModules
    <3> QED
      BY <2>1, <3>1 DEF Usb
  <2>3. CASE ~DriverAt(u.port)
    <3> DEFINE n == IF u.port < MaxLetter THEN u.port + 1 ELSE u.port
               up == DriverAt(u.port + 1)
    <3>1. LoadModules(u) = [port |-> n, up |-> up]
      BY <2>3 DEF LoadModules
    <3>2. n \in 0..MaxLetter
      BY <2>1
    <3>3. up \in BOOLEAN
      BY DEF DriverAt
    <3> HIDE DEF n, up
    <3> QED
      BY <3>1, <3>2, <3>3 DEF Usb
  <2> QED
    BY <2>2, <2>3
<1> QED
  BY <1>1 DEF Cleaned

LEMMA Stays ==
  ASSUME TypeOK, Keep, at' \in Places, buffer' \in {"null", "live", "freed"}, usb' \in Usb
  PROVE  TypeOK'
<1>1. /\ UNCHANGED <<slots, disc, swapped, console, bootMc, j, button, settings>>
      /\ UNCHANGED <<loaded, esrPath, validEsr, menu, patched, reloading>>
  BY DEF Keep, media
<1> QED
  BY <1>1 DEF TypeOK, Usb

LEMMA HandOverTyped ==
  ASSUME TypeOK, NEW o, HandOver(o), usb' \in Usb
  PROVE  TypeOK'
<1>1. Keep /\ at' \in Places /\ buffer' \in {"null", "live", "freed"}
  BY DEF HandOver, End, Freed, Places
<1> QED
  BY <1>1, Stays

LEMMA ElfTyped ==
  ASSUME TypeOK, NEW p, NEW u \in Usb, ExecuteElf(p, u)
  PROVE  TypeOK'
BY HandOverTyped DEF ExecuteElf

LEMMA DvdTyped ==
  ASSUME TypeOK, NEW u \in Usb, DvdvCheck(u)
  PROVE  TypeOK'
<1>1. CASE usb' = u /\ \E o : HandOver(o)
  BY <1>1, HandOverTyped
<1>2. CASE ExecuteElf(esrPath[validEsr], u)
  BY <1>2, ElfTyped
<1>3. CASE usb' = u /\ UNCHANGED buffer /\ End(<<"null esr">>)
  <2>1. Keep /\ at' \in Places /\ buffer' \in {"null", "live", "freed"}
    BY <1>3 DEF End, Places, TypeOK
  <2> QED
    BY <1>3, <2>1, Stays
<1> QED
  BY <1>1, <1>2, <1>3 DEF DvdvCheck

LEMMA LaunchTyped ==
  ASSUME TypeOK, NEW u \in Usb, Launch(u)
  PROVE  TypeOK'
<1>1. Keep /\ at' \in Places /\ buffer' \in {"null", "live", "freed"} /\ usb' = u
  BY DEF Launch, Places, TypeOK
<1> QED
  BY <1>1, Stays

LEMMA DiscTyped ==
  ASSUME TypeOK, NEW u \in Usb, BootsDisc(u)
  PROVE  TypeOK'
<1>1. CASE \E o : usb' = u /\ HandOver(o)
  BY <1>1, HandOverTyped
<1>2. CASE Launch(u)
  BY <1>2, LaunchTyped
<1>3. CASE DvdvCheck(Cleaned(u))
  BY <1>3, DvdTyped, DriversTyped
<1> QED
  BY <1>1, <1>2, <1>3 DEF BootsDisc, FastBootDisc

(* A step of the program that looks for a path.                            *)
LEMMA IdleTyped ==
  ASSUME TypeOK, Idle, at' \in Places, j' \in 1..3, button' \in 0..Len(CnfButtons),
         esrPath' \in [1..3 -> Path], validEsr' \in 0..3
  PROVE  TypeOK'
<1>1. /\ UNCHANGED <<slots, disc, swapped, console, bootMc, settings>>
      /\ UNCHANGED <<loaded, buffer, menu, patched, usb, reloading>>
  BY DEF Idle, media
<1> QED
  BY <1>1 DEF TypeOK

LEMMA InitTyped == Init => TypeOK
<1> SUFFICES ASSUME Init PROVE TypeOK
  OBVIOUS
<1>1. IsSettings(settings)
  BY DefaultsTyped DEF Init
<1>2. /\ at \in Places /\ j \in 1..3 /\ button \in 0..Len(CnfButtons)
      /\ esrPath \in [1..3 -> Path] /\ validEsr \in 0..3 /\ menu = {}
      /\ usb \in [port : 0..MaxLetter, up : BOOLEAN]
  <2>1. button \in 0..Len(CnfButtons)
    BY Buttons DEF Init
  <2>2. esrPath \in [1..3 -> Path] /\ validEsr \in 0..3
    BY PathTypes, Pairs DEF Init
  <2>3. 0 \in 0..MaxLetter
    BY LauncherAssumption
  <2>4. usb \in [port : 0..MaxLetter, up : BOOLEAN]
    BY <2>3 DEF Init
  <2> QED
    BY <2>1, <2>2, <2>4 DEF Init, Places
<1> QED
  BY <1>1, <1>2 DEF Init, TypeOK, IsSettings

LEMMA PowerOnTyped ==
  ASSUME TypeOK, PowerOn
  PROVE  TypeOK'
<1>1. IsSettings(settings)'
  <2>1. settings' = Defaults
    BY DEF PowerOn
  <2> QED
    BY <2>1, DefaultsTyped DEF IsSettings
<1>2. /\ at' \in Places /\ j' \in 1..3 /\ button' \in 0..Len(CnfButtons)
      /\ esrPath' \in [1..3 -> Path] /\ validEsr' \in 0..3 /\ menu' = {}
  BY Buttons, PathTypes, Pairs DEF PowerOn, Places
<1>3. usb' \in Usb
  <2>1. [port |-> 0, up |-> FALSE] \in Usb
    BY LauncherAssumption DEF Usb
  <2> QED
    BY <2>1, DriversTyped DEF PowerOn
<1> QED
  BY <1>1, <1>2, <1>3 DEF PowerOn, TypeOK, IsSettings, Usb

LEMMA CnfMediumTyped ==
  ASSUME TypeOK, CnfFound
  PROVE  CnfMedium \in Media
<1> DEFINE K == {k \in 1..3 : HasCnf(k)}
<1>1. K \subseteq Nat /\ K # {}
  BY DEF CnfFound
<1>2. Min(K) \in K
  BY <1>1, FirstOf
<1>3. CnfMedium = slots[CnfPlaces[Min(K)]]
  BY DEF CnfMedium
<1> HIDE DEF K
<1> DEFINE m == slots[CnfPlaces[Min(K)]]
<1>4. m.cnf # NoFile /\ Min(K) \in 1..3
  BY <1>2 DEF K, HasCnf
<1>5. CnfPlaces[Min(K)] \in Slot
  BY <1>4 DEF CnfPlaces, Slot
<1>6. m \in Media \cup {NoMedium}
  BY <1>5 DEF TypeOK
<1> HIDE DEF m
<1>7. m # NoMedium
  BY <1>4 DEF NoMedium
<1> QED
  BY <1>3, <1>6, <1>7 DEF m

LEMMA LoadConfigTyped ==
  ASSUME TypeOK, LoadConfig
  PROVE  TypeOK'
<1> DEFINE ok == CnfFound /\ CnfMedium \notin RefusedMedia
           new == IF CnfFound THEN Read(Says[CnfMedium], settings) ELSE settings
           esr == [k \in 1..3 |-> new[<<"esr", k>>]]
<1>1. IsSettings(settings)
  BY DEF TypeOK, IsSettings
<1>2. IsSettings(new)
  BY <1>1, CnfMediumTyped, ReadTyped
<1>3. esr \in [1..3 -> Path]
  <2>1. \A k \in 1..3 : <<"esr", k>> \in Pointers
    BY DEF Pointers, EsrPaths
  <2> HIDE DEF new
  <2> QED
    BY <1>2, <2>1 DEF IsSettings
<1>4. /\ settings' = IF ok \/ reloading THEN new
                     ELSE [v \in Variables |-> IF v \in ButtonPaths /\ v[2] < Len(DefaultNames)
                                               THEN DefaultLk(v[2])[v[3]] ELSE new[v]]
      /\ at' \in {"ended", "esr"} /\ esrPath' \in {esr, esrPath}
      /\ loaded' = ok /\ j' = 1 /\ buffer' = NewBuffer
      /\ UNCHANGED <<media, console, bootMc, button, validEsr, menu, patched, usb, reloading>>
  BY DEF LoadConfig
<1>5. ok \in BOOLEAN
  BY DEF CnfFound, HasCnf
<1> HIDE DEF ok, new, esr
<1>6. IsSettings(settings)'
  <2>1. CASE settings' = new
    BY <1>2, <2>1 DEF IsSettings
  <2>2. CASE settings' = [v \in Variables |-> IF v \in ButtonPaths /\ v[2] < Len(DefaultNames)
                                              THEN DefaultLk(v[2])[v[3]] ELSE new[v]]
    <3>1. ASSUME NEW v \in ButtonPaths, v[2] < Len(DefaultNames)
          PROVE  DefaultLk(v[2])[v[3]] \in Path
      <4>1. v[2] \in 0..Len(CnfButtons) /\ v[3] \in 1..3
        BY DEF ButtonPaths
      <4>2. v[2] \in 0..Len(DefaultButtons)
        BY <3>1, <4>1, Buttons
      <4> QED
        BY <4>1, <4>2, PathTypes
    <3>2. ButtonPaths \subseteq Pointers /\ Pointers \subseteq Variables
      BY DEF Pointers, Variables
    <3> QED
      BY <1>2, <2>2, <3>1, <3>2 DEF IsSettings
  <2> QED
    BY <1>4, <2>1, <2>2
<1>7. buffer' \in {"null", "live", "freed"}
  BY <1>4 DEF NewBuffer, TypeOK
<1>8. esrPath' \in [1..3 -> Path]
  BY <1>3, <1>4 DEF TypeOK
<1>9. /\ UNCHANGED <<slots, disc, swapped, console, bootMc, button>>
      /\ UNCHANGED <<validEsr, menu, patched, usb, reloading>>
      /\ at' \in Places /\ j' \in 1..3 /\ loaded' \in BOOLEAN
  BY <1>4, <1>5 DEF media, Places
<1> QED
  BY <1>6, <1>7, <1>8, <1>9 DEF TypeOK, IsSettings

LEMMA PathStepsTyped ==
  ASSUME TypeOK,
         \/ TestRescue \/ CheckEsrPath \/ PressInFirstLoop \/ PressInSecondLoop
         \/ EndOfFirstLoop \/ EndOfSecondLoop \/ FastBoot \/ CheckExecPath
  PROVE  TypeOK'
<1> USE DEF Usb
<1>1. /\ usb \in Usb /\ at \in Places /\ j \in 1..3 /\ button \in 0..Len(CnfButtons)
      /\ esrPath \in [1..3 -> Path] /\ validEsr \in 0..3
  BY DEF TypeOK
<1>2. CASE TestRescue
  <2>1. CASE ExecuteElf(RescuePath, usb)
    BY <1>1, <2>1, ElfTyped
  <2>2. CASE at' = "config" /\ Idle /\ UNCHANGED <<j, button, esrPath, validEsr>>
    BY <1>1, <2>2, IdleTyped DEF Places
  <2> QED
    BY <1>2, <2>1, <2>2 DEF TestRescue
<1>3. CASE CheckEsrPath
  <2> DEFINE p == Resolved(esrPath[j])
  <2>1. p \in Path
    BY <1>1, PathTypes
  <2>2. \/ BootsDisc(usb) \/ Launch(usb)
        \/ /\ esrPath' \in {esrPath, [esrPath EXCEPT ![j] = p]} /\ Idle /\ UNCHANGED button
           /\ at' \in {at, "launch", "pad1"} /\ j' \in 1..3
           /\ validEsr' \in {validEsr, j, 0}
    BY <1>1, <1>3 DEF CheckEsrPath, FastBootDisc, BootsDisc, NextEsr, AfterEsr
  <2> HIDE DEF p
  <2>3. CASE /\ esrPath' \in {esrPath, [esrPath EXCEPT ![j] = p]} /\ Idle /\ UNCHANGED button
             /\ at' \in {at, "launch", "pad1"} /\ j' \in 1..3
             /\ validEsr' \in {validEsr, j, 0}
    <3>1. esrPath' \in [1..3 -> Path] /\ validEsr' \in 0..3
      BY <1>1, <2>1, <2>3
    <3> QED
      BY <1>1, <2>3, <3>1, IdleTyped DEF Places
  <2> QED
    BY <1>1, <2>2, <2>3, DiscTyped, LaunchTyped
<1>4. CASE PressInFirstLoop \/ PressInSecondLoop
  <2>1. /\ Idle /\ at' = "exec" /\ UNCHANGED <<j, esrPath, validEsr>>
        /\ \E hits : hits \subseteq DOMAIN PadOrder /\ hits # {} /\ button' = Min(hits)
    BY <1>4 DEF PressInFirstLoop, PressInSecondLoop, Press
  <2>2. DOMAIN PadOrder \subseteq 1..Len(CnfButtons)
    BY Buttons DEF PadOrder
  <2>3. button' \in 0..Len(CnfButtons)
    <3>1. PICK hits : hits \subseteq DOMAIN PadOrder /\ hits # {} /\ button' = Min(hits)
      BY <2>1
    <3>2. hits \subseteq Nat
      BY <2>2, <3>1, Buttons
    <3>3. Min(hits) \in hits
      BY <3>1, <3>2, FirstOf
    <3> QED
      BY <2>2, <3>1, <3>3, Buttons
  <2> QED
    BY <1>1, <2>1, <2>3, IdleTyped DEF Places
<1>5. CASE EndOfFirstLoop \/ EndOfSecondLoop
  <2>1. Idle /\ at' \in Places /\ UNCHANGED <<j, button, esrPath, validEsr>>
    BY <1>5 DEF EndOfFirstLoop, EndOfSecondLoop, Places
  <2> QED
    BY <1>1, <2>1, IdleTyped
<1>6. CASE FastBoot
  <2>1. \/ BootsDisc(usb)
        \/ at' = "pad2" /\ Idle /\ UNCHANGED <<j, button, esrPath, validEsr>>
    BY <1>6 DEF FastBoot, FastBootDisc, BootsDisc
  <2> QED
    BY <1>1, <2>1, DiscTyped, IdleTyped DEF Places
<1>7. CASE CheckExecPath
  <2>1. \/ BootsDisc(usb) \/ Launch(usb) \/ \E q : ExecuteElf(q, usb)
        \/ SkipPath /\ settings' \in {settings,
             [settings EXCEPT ![<<"lk", button, j>>] = Resolved(PathTaken)]}
    BY <1>7 DEF CheckExecPath, FastBootDisc, BootsDisc
  <2>2. CASE /\ SkipPath
             /\ settings' \in {settings, [settings EXCEPT ![<<"lk", button, j>>] = Resolved(PathTaken)]}
    <3>1. <<"lk", button, j>> \in Pointers /\ Pointers \subseteq Variables
      BY <1>1 DEF Pointers, ButtonPaths, Variables
    <3>2. Resolved(PathTaken) \in Path
      BY <3>1, PathTypes DEF PathTaken, TypeOK
    <3>3. IsSettings(settings)'
      BY <2>2, <3>1, <3>2 DEF IsSettings, TypeOK
    <3>4. /\ at' \in {at, "ended", "launch"} /\ j' \in 1..3
          /\ UNCHANGED <<slots, disc, swapped, console, bootMc, button>>
          /\ UNCHANGED <<loaded, buffer, esrPath, validEsr, menu, patched, usb, reloading>>
      BY <1>1, <2>2 DEF SkipPath, media
    <3> QED
      BY <1>1, <3>3, <3>4 DEF TypeOK, IsSettings, Places
  <2> QED
    BY <1>1, <2>1, <2>2, DiscTyped, LaunchTyped, ElfTyped
<1> QED
  BY <1>2, <1>3, <1>4, <1>5, <1>6, <1>7

LEMMA MenuTyped ==
  /\ NewMenu \subseteq (1..NewItems) \X (1..3)
  /\ \A e, f \in NewMenu : e[1] = f[1] => e = f
<1>1. ASSUME NEW i, Listed(i) # {} PROVE Min(Listed(i)) \in 1..3
  BY <1>1, FirstOf DEF Listed
<1> QED
  BY <1>1 DEF NewMenu

LEMMA OsdsysStepsTyped ==
  ASSUME TypeOK, LaunchOsdsys \/ SelectItem \/ PlayDvd \/ PlayPs2Dvd
  PROVE  TypeOK'
<1>1. usb \in Usb /\ LoadModules(usb) \in Usb
  <2>1. usb \in Usb
    BY DEF TypeOK, Usb
  <2> QED
    BY <2>1, DriversTyped
<1>2. CASE LaunchOsdsys
  <2> DEFINE new == [v \in Variables |->
               IF v \in ItemPaths /\ LookedAt(v[2], v[3]) THEN Resolved(settings[v]) ELSE settings[v]]
  <2>1. /\ at' = "osdsys" /\ usb' = LoadModules(usb) /\ reloading' = FALSE
        /\ menu' \in {menu, NewMenu} /\ settings' \in {settings, new}
        /\ patched' \in {FALSE, console.menu}
        /\ UNCHANGED <<slots, disc, swapped, console, bootMc, j, button>>
        /\ UNCHANGED <<loaded, buffer, esrPath, validEsr>>
    BY <1>2 DEF LaunchOsdsys, PatchMenu, media
  <2>2. IsSettings(new)
    <3>1. ItemPaths \subseteq Pointers /\ Pointers \subseteq Variables
      BY DEF Pointers, Variables
    <3> QED
      BY <3>1, PathTypes DEF IsSettings, TypeOK
  <2> HIDE DEF new
  <2>3. IsSettings(settings)'
    BY <2>1, <2>2 DEF IsSettings, TypeOK
  <2>4. patched' \in BOOLEAN
    BY <2>1, ConsoleAssumption DEF TypeOK
  <2>5. menu' \subseteq (1..NewItems) \X (1..3) /\ \A e, f \in menu' : e[1] = f[1] => e = f
    BY <2>1, MenuTyped DEF TypeOK
  <2> QED
    BY <1>1, <2>1, <2>3, <2>4, <2>5 DEF TypeOK, IsSettings, Places, Usb
<1>3. ASSUME NEW u \in Usb, Reload(u) PROVE TypeOK'
  <2>1. /\ usb' = u /\ settings' = Defaults /\ at' \in {"ended", "config"}
        /\ buffer' \in {buffer, "null", "freed"} /\ reloading' \in {reloading, TRUE}
        /\ UNCHANGED <<slots, disc, swapped, console, bootMc, j, button>>
        /\ UNCHANGED <<loaded, esrPath, validEsr, menu, patched>>
    BY <1>3 DEF Reload, Reset, Freed, media
  <2> QED
    BY <1>3, <2>1, DefaultsTyped DEF TypeOK, IsSettings, Places, Usb
<1>4. CASE SelectItem
  <2>1. Reload(LoadModules(usb)) \/ BootsDisc(LoadModules(usb)) \/ \E q : ExecuteElf(q, LoadModules(usb))
    BY <1>4 DEF SelectItem, FastBootDisc, BootsDisc
  <2> QED
    BY <1>1, <1>3, <2>1, DiscTyped, ElfTyped
<1>5. CASE PlayDvd
  BY <1>1, <1>5, DvdTyped DEF PlayDvd
<1>6. CASE PlayPs2Dvd
  BY <1>1, <1>6, HandOverTyped DEF PlayPs2Dvd
<1> QED
  BY <1>2, <1>4, <1>5, <1>6

LEMMA SwapTyped ==
  ASSUME TypeOK, Swap
  PROVE  TypeOK'
<1>1. /\ swapped' = TRUE
      /\ UNCHANGED <<console, bootMc, at, j, button, settings, loaded, buffer>>
      /\ UNCHANGED <<esrPath, validEsr, menu, patched, usb, reloading>>
  BY DEF Swap
<1>2. \/ disc' \in Discs /\ UNCHANGED slots
      \/ \E s \in Slot : \E m \in Fits[s] : slots' = [slots EXCEPT ![s] = m] /\ UNCHANGED disc
  BY DEF Swap
<1>3. ASSUME NEW s \in Slot, NEW m \in Fits[s] PROVE m \in Media \cup {NoMedium}
  BY <1>3, SlotAssumption
<1>4. disc' \in Discs /\ slots' \in [Slot -> Media \cup {NoMedium}] /\ \A s \in Slot : slots'[s] \in Fits[s]
  BY <1>2, <1>3 DEF TypeOK
<1> QED
  BY <1>1, <1>4 DEF TypeOK

(* The variables of the loader keep their types, whatever the files of     *)
(* configuration say, and the menu lists an item once.                     *)
THEOREM TypeCorrect == Spec => []TypeOK
<1>1. Init => TypeOK
  BY InitTyped
<1>2. TypeOK /\ [Next]_vars => TypeOK'
  <2> SUFFICES ASSUME TypeOK, [Next]_vars PROVE TypeOK'
    OBVIOUS
  <2>1. CASE UNCHANGED vars
    <3>1. /\ UNCHANGED <<slots, disc, swapped, console, bootMc, at, j, button, settings>>
          /\ UNCHANGED <<loaded, buffer, esrPath, validEsr, menu, patched, usb, reloading>>
      BY <2>1 DEF vars, media
    <3> QED
      BY <3>1 DEF TypeOK
  <2> QED
    BY <2>1, PathStepsTyped, OsdsysStepsTyped, SwapTyped, LoadConfigTyped, PowerOnTyped
       DEF Next, Program, User
<1> QED
  BY <1>1, <1>2, PTL DEF Spec

------------------------------------------------------------------------------
(* What is run is what was asked for.  From power on to the paths of the   *)
(* button the program does not reload and the buffer is not freed, and     *)
(* once the file was read the paths of every button are those wanted.  Of  *)
(* the button's paths those before j were not usable, and the others are   *)
(* as they were: check_path changes a path only when it is its turn.       *)
Booting == {"rescue", "config", "esr", "pad1", "fastboot", "pad2", "exec"}
Choosing == {"pad1", "fastboot", "pad2"}
Link(b, k) == settings[<<"lk", b, k>>]

Offered ==
  \A b \in 0..Len(CnfButtons), k \in 1..3 :
    loaded \/ b <= Len(DefaultButtons) => Link(b, k) = Wanted(b, k)
Tried ==
  \A k \in 1..3 : IF k < j THEN ~Usable(Wanted(button, k))
                  ELSE Link(button, k) = Wanted(button, k)

RunInv ==
  /\ reloading => at \in {"config", "esr", "launch", "ended"}
  /\ at \in Booting /\ ~reloading => buffer # "freed"
  /\ at \in Booting \ {"exec"} /\ ~reloading => button = 0
  /\ at \in {"rescue", "config"} /\ ~reloading => settings = Defaults
  /\ at \in Choosing => j = 1
  /\ at \in {"esr"} \cup Choosing /\ ~reloading /\ ~swapped => Offered
  /\ at = "exec" /\ ~swapped => Tried

LEMMA WantedSame ==
  ASSUME UNCHANGED <<slots, bootMc, usb, loaded>>
  PROVE  \A b, k : Wanted(b, k)' = Wanted(b, k)
<1>1. CnfPlaces' = CnfPlaces
  BY DEF CnfPlaces
<1>2. \A k : HasCnf(k)' <=> HasCnf(k)
  BY <1>1 DEF HasCnf
<1>3. {k \in 1..3 : HasCnf(k)}' = {k \in 1..3 : HasCnf(k)}
  BY <1>2
<1>4. CnfMedium' = CnfMedium
  BY <1>1, <1>3 DEF CnfMedium
<1> QED
  BY <1>4 DEF Wanted

LEMMA UsableSame ==
  ASSUME UNCHANGED <<slots, disc, usb>>
  PROVE  \A p : Usable(p)' <=> Usable(p)
<1>1. \A p : Exists(p)' <=> Exists(p)
  BY DEF Exists, ExistsWith
<1>2. \A p : Places_of(p)' = Places_of(p)
  BY <1>1 DEF Places_of
<1> QED
  BY <1>2 DEF Usable, Bootable

(* Nothing is claimed of OSDSYS and of the end.                            *)
LEMMA Leaves ==
  ASSUME at' \in {"ended", "launch"}
  PROVE  RunInv'
BY DEF RunInv, Booting, Choosing

LEMMA DiscLeaves ==
  ASSUME NEW u, BootsDisc(u)
  PROVE  at' \in {"ended", "launch"}
BY DEF BootsDisc, FastBootDisc, Launch, DvdvCheck, HandOver, ExecuteElf, End

LEMMA ElfLeaves ==
  ASSUME NEW p, NEW u, ExecuteElf(p, u)
  PROVE  at' = "ended"
BY DEF ExecuteElf, HandOver, End

LEMMA ConfigRuns ==
  ASSUME TypeOK, RunInv, LoadConfig
  PROVE  RunInv'
<1> DEFINE ok == CnfFound /\ CnfMedium \notin RefusedMedia
           new == IF CnfFound THEN Read(Says[CnfMedium], settings) ELSE settings
           dflt == [v \in Variables |-> IF v \in ButtonPaths /\ v[2] < Len(DefaultNames)
                                        THEN DefaultLk(v[2])[v[3]] ELSE new[v]]
<1>1. /\ at = "config" /\ at' \in {"esr", "ended"}
      /\ buffer' = NewBuffer /\ loaded' = ok
      /\ settings' = IF ok \/ reloading THEN new ELSE dflt
      /\ UNCHANGED <<slots, swapped, bootMc, button, usb, reloading>>
  BY DEF LoadConfig, media
<1>2. CASE reloading \/ at' = "ended"
  BY <1>1, <1>2 DEF RunInv, Booting, Choosing
<1>3. CASE ~reloading /\ at' = "esr"
  <2>1. settings = Defaults /\ button = 0 /\ buffer' # "freed"
    BY <1>1, <1>3 DEF RunInv, Booting, NewBuffer
  <2>2. CnfMedium' = CnfMedium
    <3>1. CnfPlaces' = CnfPlaces
      BY <1>1 DEF CnfPlaces
    <3>2. \A k : HasCnf(k)' <=> HasCnf(k)
      BY <1>1, <3>1 DEF HasCnf
    <3>3. {k \in 1..3 : HasCnf(k)}' = {k \in 1..3 : HasCnf(k)}
      BY <3>2
    <3> QED
      BY <1>1, <3>1, <3>3 DEF CnfMedium
  <2>3. ASSUME NEW b \in 0..Len(CnfButtons), NEW k \in 1..3, ok \/ b <= Len(DefaultButtons)
        PROVE  settings'[<<"lk", b, k>>] = Wanted(b, k)'
    <3> DEFINE v == <<"lk", b, k>>
    <3>1. v \in ButtonPaths /\ v \in Pointers /\ v \in Variables /\ v[2] = b /\ v[3] = k
      BY DEF ButtonPaths, Pointers, Variables
    <3>2. Wanted(b, k)' = IF ~ok THEN DefaultLk(b)[k]
                          ELSE IF v \in DOMAIN Says[CnfMedium] THEN Says[CnfMedium][v] ELSE Null
      BY <1>1, <2>2 DEF Wanted
    <3> HIDE DEF v
    <3>3. CASE ok
      <4>1. settings' = Read(Says[CnfMedium], Defaults)
        BY <1>1, <2>1, <3>3
      <4>2. Defaults[v] = Null
        BY <3>1 DEF Defaults
      <4>3. settings'[v] = IF v \in DOMAIN Says[CnfMedium] THEN Says[CnfMedium][v] ELSE Null
        BY <3>1, <4>1, <4>2 DEF Read
      <4> QED
        BY <3>2, <3>3, <4>3 DEF v
    <3>4. CASE ~ok
      <4>1. v[2] < Len(DefaultNames)
        BY <2>3, <3>1, <3>4, Buttons
      <4>2. settings' = dflt
        BY <1>1, <1>3, <3>4
      <4>3. settings'[v] = DefaultLk(b)[k]
        BY <3>1, <4>1, <4>2
      <4> QED
        BY <3>2, <3>4, <4>3 DEF v
    <3> QED
      BY <3>3, <3>4
  <2> HIDE DEF ok, new, dflt
  <2>4. Offered'
    BY <1>1, <2>3 DEF Offered, Link
  <2> QED
    BY <1>1, <1>3, <2>1, <2>4 DEF RunInv, Booting, Choosing
<1> QED
  BY <1>1, <1>2, <1>3

(* A step that only looks for a path leaves the paths as they were.        *)
LEMMA OfferedSame ==
  ASSUME UNCHANGED <<slots, bootMc, usb, loaded, settings>>
  PROVE  Offered' <=> Offered
BY WantedSame DEF Offered, Link

LEMMA IdleRuns ==
  ASSUME RunInv, Idle,
         \/ at = "rescue" /\ at' = "config" /\ UNCHANGED button
         \/ at = "esr" /\ at' = "esr" /\ UNCHANGED button
         \/ at = "esr" /\ AfterEsr /\ j' = 1 /\ UNCHANGED button
         \/ at \in Choosing /\ at' \in Choosing /\ UNCHANGED <<j, button>>
  PROVE  RunInv'
<1>1. /\ UNCHANGED <<slots, disc, swapped, bootMc, settings, loaded, buffer, usb, reloading>>
  BY DEF Idle, media
<1>2. Offered' <=> Offered
  BY <1>1, OfferedSame
<1>3. CASE at = "rescue" /\ at' = "config" /\ UNCHANGED button
  BY <1>1, <1>3 DEF RunInv, Booting, Choosing
<1>4. CASE at = "esr" /\ at' = "esr" /\ UNCHANGED button
  BY <1>1, <1>2, <1>4 DEF RunInv, Booting, Choosing
<1>5. CASE at = "esr" /\ ~reloading /\ at' = "pad1" /\ j' = 1 /\ UNCHANGED button
  BY <1>1, <1>2, <1>5 DEF RunInv, Booting, Choosing
<1>6. CASE at = "esr" /\ reloading /\ at' = "launch"
  BY <1>6, Leaves
<1>7. CASE at \in Choosing /\ at' \in Choosing /\ UNCHANGED <<j, button>>
  BY <1>1, <1>2, <1>7 DEF RunInv, Booting, Choosing
<1> QED
  BY <1>3, <1>4, <1>5, <1>6, <1>7 DEF AfterEsr

LEMMA ButtonRuns ==
  ASSUME TypeOK, RunInv, at \in Choosing, at' = "exec", Idle, UNCHANGED j,
         button' \in 0..Len(CnfButtons), loaded \/ button' <= Len(DefaultButtons)
  PROVE  RunInv'
<1>1. /\ UNCHANGED <<slots, disc, swapped, bootMc, settings, loaded, buffer, usb, reloading>>
  BY DEF Idle, media
<1>2. j' = 1 /\ ~reloading
  BY DEF RunInv, Choosing
<1>3. ASSUME ~swapped PROVE Tried'
  <2>1. Offered
    BY <1>2, <1>3 DEF RunInv
  <2>2. \A b, k : Wanted(b, k)' = Wanted(b, k)
    BY <1>1, WantedSame
  <2>3. \A k \in 1..3 : settings[<<"lk", button', k>>] = Wanted(button', k)
    BY <2>1 DEF Offered, Link
  <2>4. \A k \in 1..3 : Wanted(button, k)' = Wanted(button', k)
    BY <1>1, <2>2 DEF Wanted, CnfMedium, CnfPlaces, HasCnf
  <2> QED
    BY <1>1, <1>2, <2>3, <2>4 DEF Tried, Link
<1> QED
  BY <1>1, <1>2, <1>3 DEF RunInv, Booting, Choosing

LEMMA PressRuns ==
  ASSUME TypeOK, RunInv, PressInFirstLoop \/ PressInSecondLoop
  PROVE  RunInv'
<1>1. /\ Idle /\ at \in Choosing /\ at' = "exec" /\ UNCHANGED j
      /\ \E hits : hits \subseteq DOMAIN PadOrder /\ hits # {} /\ button' = Min(hits)
  BY DEF PressInFirstLoop, PressInSecondLoop, Press, Choosing
<1>2. PICK hits : hits \subseteq DOMAIN PadOrder /\ hits # {} /\ button' = Min(hits)
  BY <1>1
<1>3. DOMAIN PadOrder = IF loaded THEN 1..Len(CnfButtons) ELSE 1..Len(DefaultButtons)
  BY Buttons DEF PadOrder
<1>4. button' \in DOMAIN PadOrder
  BY <1>2, <1>3, Buttons, FirstOf
<1>5. button' \in 0..Len(CnfButtons) /\ (loaded \/ button' <= Len(DefaultButtons))
  BY <1>3, <1>4, Buttons
<1> QED
  BY <1>1, <1>5, ButtonRuns

(* check_path tries the first card before the second.                      *)
LEMMA ResolvedFirst ==
  ASSUME NEW p \in Path, p # Null
  PROVE  /\ Places_of(p) # {} <=> Exists(Resolved(p))
         /\ Exists(Resolved(p)) =>
              Resolved(p) = IF <<"mc0", p[2]>> \in Places_of(p) THEN <<"mc0", p[2]>>
                            ELSE CHOOSE q \in Places_of(p) : TRUE
<1>1. p = <<p[1], p[2]>>
  BY DEF Path
<1>2. CASE p[1] = "mc?"
  <2> DEFINE q0 == <<"mc0", p[2]>>
             q1 == <<"mc1", p[2]>>
  <2>1. Places_of(p) = {q \in {q0, q1} : Exists(q)}
    BY <1>2 DEF Places_of
  <2>2. Resolved(p) = IF Exists(q0) THEN q0 ELSE q1
    BY <1>2 DEF Resolved
  <2> HIDE DEF q0, q1
  <2>3. CASE Exists(q0)
    BY <2>1, <2>2, <2>3 DEF q0
  <2>4. CASE ~Exists(q0)
    <3>1. Places_of(p) = IF Exists(q1) THEN {q1} ELSE {}
      BY <2>1, <2>4
    <3>2. q0 \notin Places_of(p)
      BY <2>1, <2>4
    <3> QED
      BY <2>2, <2>4, <3>1, <3>2 DEF q0
  <2> QED
    BY <2>3, <2>4
<1>3. CASE p[1] # "mc?"
  <2>1. Resolved(p) = p
    BY <1>3 DEF Resolved
  <2>2. Places_of(p) = {q \in {p} : Exists(q)}
    BY <1>1, <1>3 DEF Places_of
  <2>3. Places_of(p) = IF Exists(p) THEN {p} ELSE {}
    BY <2>2
  <2>4. <<"mc0", p[2]>> \in Places_of(p) => <<"mc0", p[2]>> = p
    BY <2>2
  <2> QED
    BY <2>1, <2>3, <2>4
<1> QED
  BY <1>2, <1>3

(* The path whose turn it is is the first usable one, or not usable.       *)
LEMMA FirstUsable ==
  ASSUME Tried, j \in 1..3, Usable(Wanted(button, j))
  PROVE  LET usable == {k \in 1..3 : Usable(Wanted(button, k))}
         IN  usable # {} /\ Min(usable) = j
<1> DEFINE usable == {k \in 1..3 : Usable(Wanted(button, k))}
<1>1. j \in usable /\ \A k \in usable : j <= k
  BY DEF Tried
<1>2. usable \subseteq Nat /\ j \in Nat
  OBVIOUS
<1> HIDE DEF usable
<1>3. Min(usable) \in usable /\ \A k \in usable : Min(usable) <= k
  BY <1>1, <1>2, FirstOf
<1>4. Min(usable) = j
  <2>1. Min(usable) \in Nat /\ Min(usable) <= j /\ j <= Min(usable)
    BY <1>1, <1>2, <1>3
  <2> QED
    BY <1>2, <2>1
<1> QED
  BY <1>1, <1>4 DEF usable

RanAsConfigured == at' \in {"ended", "launch"} => AsConfigured

(* A path that stands for nothing is passed over, the last one to OSDSYS   *)
(* or the green screen.                                                    *)
LEMMA SkipRuns ==
  ASSUME TypeOK, RunInv, at = "exec", SkipPath, ~swapped => ~Usable(Wanted(button, j)),
         \/ UNCHANGED settings
         \/ \E p : settings' = [settings EXCEPT ![<<"lk", button, j>>] = p]
  PROVE  RunInv' /\ (~swapped => RanAsConfigured)
<1>1. /\ UNCHANGED <<slots, disc, swapped, bootMc, button, loaded, buffer, usb, reloading>>
      /\ j \in 1..3 /\ button \in 0..Len(CnfButtons)
  BY DEF SkipPath, media, TypeOK
<1>2. CASE j < 3
  <2>1. at' = "exec" /\ j' = j + 1
    BY <1>2 DEF SkipPath
  <2>2. ASSUME ~swapped PROVE Tried'
    <3>1. Tried
      BY <2>2 DEF RunInv
    <3>2. /\ \A b, k : Wanted(b, k)' = Wanted(b, k)
          /\ \A p : Usable(p)' <=> Usable(p)
      BY <1>1, WantedSame, UsableSame
    <3>3. ASSUME NEW k \in 1..3, k > j PROVE settings'[<<"lk", button, k>>] = Link(button, k)
      <4>1. <<"lk", button, k>> # <<"lk", button, j>> /\ <<"lk", button, k>> \in Variables
        BY <1>1, <3>3 DEF Variables, Pointers, ButtonPaths
      <4> QED
        BY <4>1 DEF Link, TypeOK
    <3>4. \A k \in 1..3 : k < j + 1 => k < j \/ k = j
      BY <1>1
    <3>5. ASSUME NEW k \in 1..3, k < j' PROVE ~Usable(Wanted(button, k))'
      <4>1. ~Usable(Wanted(button, k))
        BY <2>1, <2>2, <3>1, <3>4, <3>5 DEF Tried
      <4>2. Wanted(button, k)' = Wanted(button, k)
        BY <1>1, <3>2 DEF Wanted, CnfMedium, CnfPlaces, HasCnf
      <4> DEFINE w == Wanted(button, k)
      <4>3. ~Usable(w)
        BY <4>1
      <4>4. w' = w
        BY <4>2
      <4> HIDE DEF w
      <4>5. Usable(w)' <=> Usable(w)
        BY <1>1, <4>4, UsableSame DEF Usable, Places_of, Exists, ExistsWith
      <4> QED
        BY <4>3, <4>5 DEF w
    <3>6. ASSUME NEW k \in 1..3, k >= j' PROVE settings'[<<"lk", button, k>>] = Wanted(button, k)'
      <4>1. k > j
        BY <1>1, <2>1, <3>6
      <4>2. Link(button, k) = Wanted(button, k)
        BY <1>1, <3>1, <4>1 DEF Tried
      <4>3. Wanted(button, k)' = Wanted(button, k)
        BY <1>1, <3>2 DEF Wanted, CnfMedium, CnfPlaces, HasCnf
      <4> QED
        BY <3>3, <4>1, <4>2, <4>3
    <3> QED
      BY <1>1, <2>1, <3>5, <3>6 DEF Tried, Link
  <2> QED
    BY <1>1, <2>1, <2>2 DEF RunInv, Booting, Choosing, RanAsConfigured
<1>3. CASE j = 3
  <2>1. at' \in {"ended", "launch"}
        /\ IF settings[<<"debug">>] THEN outcome' = <<"green">> ELSE at' = "launch"
    BY <1>3 DEF SkipPath
  <2>2. ASSUME ~swapped PROVE AsConfigured
    <3>1. \A k \in 1..3 : ~Usable(Wanted(button, k))
      BY <1>3, <2>2 DEF RunInv, Tried
    <3>2. {k \in 1..3 : Usable(Wanted(button, k))} = {}
      BY <3>1
    <3> QED
      BY <2>1, <3>2 DEF AsConfigured
  <2> QED
    BY <2>1, <2>2, Leaves DEF RanAsConfigured
<1> QED
  BY <1>1, <1>2, <1>3

LEMMA ExecRuns ==
  ASSUME TypeOK, RunInv, CheckExecPath
  PROVE  RunInv' /\ (~swapped => RanAsConfigured)
<1> DEFINE p == PathTaken
<1>1. /\ at = "exec" /\ j \in 1..3 /\ buffer # "freed" /\ ~reloading
      /\ p \in Path
  <2>1. at = "exec" /\ j \in 1..3 /\ button \in 0..Len(CnfButtons)
    BY DEF CheckExecPath, TypeOK
  <2>2. <<"lk", button, j>> \in Pointers
    BY <2>1 DEF Pointers, ButtonPaths
  <2> QED
    BY <2>1, <2>2 DEF RunInv, Booting, PathTaken, TypeOK
<1>2. ~swapped => Tried /\ Wanted(button, j) = p
  BY <1>1 DEF RunInv, Tried, Link, PathTaken
<1>3. ASSUME ~swapped, Usable(p)
      PROVE  LET usable == {k \in 1..3 : Usable(Wanted(button, k))}
             IN  usable # {} /\ Wanted(button, Min(usable)) = p
  BY <1>1, <1>2, <1>3, FirstUsable
<1>4. ASSUME NEW o, HandOver(o) PROVE outcome' = o /\ at' = "ended"
  BY <1>1, <1>4 DEF HandOver, End, DoubleFree
<1>5. CASE p = Null /\ SkipPath /\ UNCHANGED settings
  <2>1. ~Usable(p)
    BY <1>5 DEF Usable
  <2> QED
    BY <1>1, <1>2, <1>5, <2>1, SkipRuns
<1>6. CASE /\ p = <<"special", "FASTBOOT">>
           /\ FastBootDisc(SkipPath /\ UNCHANGED settings, usb)
  <2>1. p # Null /\ Special(p) /\ p[2] = "FASTBOOT"
    BY <1>6 DEF Special, Null
  <2>2. CASE disc.type \in {"open", "none", "other"}
    <3>1. ~Usable(p)
      BY <2>1, <2>2 DEF Usable, Bootable
    <3>2. SkipPath /\ UNCHANGED settings
      BY <1>6, <2>2 DEF FastBootDisc
    <3> QED
      BY <1>1, <1>2, <3>1, <3>2, SkipRuns
  <2>3. CASE disc.type \in {"ps1", "ps2", "dvdv"}
    <3>1. Usable(p)
      BY <2>1, <2>3 DEF Usable, Bootable
    <3>2. BootsDisc(usb)
      BY <1>6, <2>3 DEF FastBootDisc, BootsDisc
    <3>3. at' \in {"ended", "launch"}
      BY <3>2, DiscLeaves
    <3>4. CASE disc.type \in {"ps1", "ps2"}
      <4> DEFINE type == IF disc.type = "ps1" THEN 1 ELSE 2
      <4>1. IF DiscType = type THEN HandOver(<<"disc", type>>) ELSE Launch(usb)
        BY <1>6, <3>4 DEF FastBootDisc
      <4>2. IF DiscType = type THEN outcome' = <<"disc", type>> ELSE at' = "launch"
        BY <1>4, <4>1 DEF Launch
      <4>3. ~swapped => AsConfigured
        BY <1>3, <2>1, <3>1, <3>4, <4>2 DEF AsConfigured
      <4> QED
        BY <3>3, <4>3, Leaves DEF RanAsConfigured
    <3>5. CASE disc.type = "dvdv"
      <4>1. DvdvCheck(Cleaned(usb))
        BY <1>6, <3>5 DEF FastBootDisc
      <4>2. at' = "ended"
        BY <4>1 DEF DvdvCheck, HandOver, ExecuteElf, End
      <4>3. ~swapped => AsConfigured
        BY <1>3, <2>1, <3>1, <3>5, <4>2 DEF AsConfigured
      <4> QED
        BY <3>3, <4>3, Leaves DEF RanAsConfigured
    <3> QED
      BY <2>3, <3>4, <3>5
  <2> QED
    BY <1>6, <2>2, <2>3 DEF FastBootDisc
<1>7. CASE p \in {<<"special", "OSDSYS">>, <<"special", "OSDMENU">>} /\ Launch(usb)
  <2>1. p # Null /\ Special(p) /\ p[2] # "FASTBOOT"
    BY <1>7 DEF Special, Null
  <2>2. Usable(p) /\ at' = "launch"
    BY <1>7, <2>1 DEF Usable, Launch
  <2>3. ~swapped => AsConfigured
    BY <1>3, <2>1, <2>2 DEF AsConfigured
  <2> QED
    BY <2>2, <2>3, Leaves DEF RanAsConfigured
<1>8. CASE /\ p # Null /\ ~Special(p)
           /\ \/ Exists(Resolved(p)) /\ ExecuteElf(Resolved(p), usb)
              \/ ~Exists(Resolved(p)) /\ SkipPath
                 /\ settings' = [settings EXCEPT ![<<"lk", button, j>>] = Resolved(p)]
  <2> HIDE DEF p
  <2>1. Usable(p) <=> Exists(Resolved(p))
    BY <1>1, <1>8, ResolvedFirst DEF Usable
  <2>2. CASE Exists(Resolved(p)) /\ ExecuteElf(Resolved(p), usb)
    <3>1. HandOver(<<"elf", Resolved(p)>>)
      BY <2>2 DEF ExecuteElf, Exists
    <3>2. outcome' = <<"elf", Resolved(p)>> /\ at' = "ended"
      BY <1>4, <3>1
    <3>3. Resolved(p) = IF <<"mc0", p[2]>> \in Places_of(p) THEN <<"mc0", p[2]>>
                        ELSE CHOOSE q \in Places_of(p) : TRUE
      BY <1>1, <1>8, <2>2, ResolvedFirst
    <3>4. ~swapped => AsConfigured
      BY <1>3, <1>8, <2>1, <2>2, <3>2, <3>3 DEF AsConfigured
    <3> QED
      BY <3>2, <3>4, Leaves DEF RanAsConfigured
  <2>3. CASE /\ ~Exists(Resolved(p)) /\ SkipPath
             /\ settings' = [settings EXCEPT ![<<"lk", button, j>>] = Resolved(p)]
    BY <1>1, <1>2, <2>1, <2>3, SkipRuns
  <2> QED
    BY <1>8, <2>2, <2>3
<1> QED
  BY <1>5, <1>6, <1>7, <1>8 DEF CheckExecPath

LEMMA RunSteps == TypeOK /\ RunInv /\ [Next]_vars =>
  RunInv' /\ (at = "exec" /\ at' \in {"ended", "launch"} /\ ~swapped => AsConfigured)
<1> SUFFICES ASSUME TypeOK, RunInv, [Next]_vars
             PROVE  /\ RunInv'
                    /\ at = "exec" /\ at' \in {"ended", "launch"} /\ ~swapped => AsConfigured
  OBVIOUS
<1>1. CASE CheckExecPath
  BY <1>1, ExecRuns DEF RanAsConfigured
<1>2. CASE TestRescue
  <2>1. CASE ExecuteElf(RescuePath, usb)
    BY <1>2, <2>1, ElfLeaves, Leaves DEF TestRescue
  <2>2. CASE at = "rescue" /\ at' = "config" /\ Idle /\ UNCHANGED button
    BY <2>2, IdleRuns
  <2> QED
    BY <1>2, <2>1, <2>2 DEF TestRescue
<1>3. CASE CheckEsrPath
  <2>1. \/ BootsDisc(usb) \/ Launch(usb)
        \/ /\ at = "esr" /\ Idle /\ UNCHANGED button
           /\ at' = "esr" \/ (AfterEsr /\ j' = 1)
    BY <1>3 DEF CheckEsrPath, FastBootDisc, BootsDisc, NextEsr
  <2>2. Launch(usb) => at' = "launch"
    BY DEF Launch
  <2> QED
    BY <1>3, <2>1, <2>2, IdleRuns, DiscLeaves, Leaves DEF CheckEsrPath
<1>4. CASE PressInFirstLoop \/ PressInSecondLoop
  BY <1>4, PressRuns DEF PressInFirstLoop, PressInSecondLoop
<1>5. CASE EndOfFirstLoop
  BY <1>5, IdleRuns DEF EndOfFirstLoop, Choosing
<1>6. CASE EndOfSecondLoop
  <2>1. at = "pad2" /\ at' = "exec" /\ Idle /\ UNCHANGED <<j, button>>
    BY <1>6 DEF EndOfSecondLoop
  <2>2. at \in Choosing /\ button = 0
    BY <2>1 DEF RunInv, Booting, Choosing
  <2> QED
    BY <2>1, <2>2, Buttons, ButtonRuns
<1>7. CASE FastBoot
  <2>1. \/ BootsDisc(usb)
        \/ at' = "pad2" /\ Idle /\ UNCHANGED <<j, button>>
    BY <1>7 DEF FastBoot, FastBootDisc, BootsDisc
  <2> QED
    BY <1>7, <2>1, DiscLeaves, Leaves, IdleRuns DEF FastBoot, Choosing
<1>8. CASE LoadConfig
  BY <1>8, ConfigRuns DEF LoadConfig
<1>9. CASE LaunchOsdsys
  BY <1>9 DEF LaunchOsdsys, RunInv, Booting, Choosing
<1>10. CASE SelectItem
  <2>1. /\ at = "osdsys"
        /\ \E u : Reload(u) \/ BootsDisc(u) \/ \E q : ExecuteElf(q, u)
    BY <1>10 DEF SelectItem, FastBootDisc, BootsDisc
  <2>2. ASSUME NEW u, Reload(u) PROVE RunInv'
    BY <2>1, <2>2 DEF Reload, Reset, RunInv, Booting, Choosing
  <2> QED
    BY <2>1, <2>2, DiscLeaves, ElfLeaves, Leaves
<1>11. CASE PlayDvd \/ PlayPs2Dvd
  <2>1. at = "osdsys" /\ at' = "ended"
    BY <1>11 DEF PlayDvd, PlayPs2Dvd, DvdvCheck, HandOver, ExecuteElf, End
  <2> QED
    BY <2>1, Leaves
<1>12. CASE PowerOn
  BY <1>12 DEF PowerOn, RunInv, Booting, Choosing
<1>13. CASE Swap
  <2>1. swapped' = TRUE /\ UNCHANGED <<at, j, button, settings, buffer, reloading>>
    BY <1>13 DEF Swap
  <2> QED
    BY <2>1 DEF RunInv, Booting, Choosing
<1>14. CASE UNCHANGED vars
  <2>1. UNCHANGED <<slots, disc, swapped, bootMc, at, j, button, settings, loaded, buffer, usb, reloading>>
    BY <1>14 DEF vars, media
  <2>2. /\ \A b, k : Wanted(b, k)' = Wanted(b, k)
        /\ Offered' <=> Offered
    BY <2>1, WantedSame, OfferedSame
  <2>3. Tried' <=> Tried
    BY <2>1 DEF Tried, Link, Wanted, CnfMedium, CnfPlaces, HasCnf, Usable, Bootable,
       Places_of, Exists, ExistsWith
  <2> QED
    BY <2>1, <2>2, <2>3 DEF RunInv, Booting, Choosing
<1> QED
  BY <1>1, <1>2, <1>3, <1>4, <1>5, <1>6, <1>7, <1>8, <1>9, <1>10, <1>11, <1>12, <1>13, <1>14
     DEF Next, Program, User

(* main, check_exec_paths and load_elf: for any configuration and any      *)
(* media that are left in place, what is run is the first usable path of   *)
(* the button that was pressed, on the first card that has it.             *)
THEOREM RunsAsConfigured == Spec => BootsAsConfigured
<1>1. Init => RunInv
  BY DEF Init, RunInv, Booting, Choosing
<1>2. TypeOK /\ RunInv /\ [Next]_vars => RunInv'
  BY RunSteps
<1>3. TypeOK /\ RunInv /\ [Next]_vars =>
        (at = "exec" /\ at' \in {"ended", "launch"} /\ ~swapped => AsConfigured)
  BY RunSteps
<1> QED
  BY <1>1, <1>2, <1>3, TypeCorrect, PTL DEF Spec, BootsAsConfigured
=============================================================================

------------------------------ MODULE MCSession ------------------------------
(***************************************************************************)
(* Session with one PS2 card and one of another kind, a heap of five      *)
(* buffers and a log of 22 lines as in the code.  Files take up to two     *)
(* clusters of four bytes, the OSD three.                                  *)
(***************************************************************************)
EXTENDS Session

Sized(S, n) == [f \in S |-> n]
Old == File("exec", "osd130.elf")
Elf == File("boot", "launch.elf")
App == File("apps", "ule.elf")
Usbd == File("sysconf", "usbd")
MCDummies == {"osd130.elf", "osd140.elf"}

\* formatted; with saves of the user; an earlier installation of this console or of
\* another one, a multi-version one; with some files of INSTALL already there; a
\* record left by an uninstallation that was not finished
MCCards == {{}, {File("exec", "save"), File("boot", "save")}, {Old, File("exec", "icon.sys"), File("exec", "icon.icn"), Cnf},
            Dummies \cup {OsdMain, UninstallFile, Cnf} \cup Icons, {Elf, Usbd, Configurator, Cnf}, {Usbd, Cnf},
            {File("exec", "osd140.elf"), UninstallFile, Cnf, Configurator}}
MCSticks == {{}, {App}, {Usbd, Cnf}, {Usbd, Configurator, Elf}, {Elf, App}}
ListedLast(S) == IF S \cap Dummies = {} THEN {{}} ELSE {{f} : f \in S \cap Dummies}
MCVarious ==
    UNION {{[card |-> Sized(S, n), stick |-> Sized(T, 5), osd |-> o, last |-> l, root |-> r] :
            n \in {7, 8}, o \in {Old, File("exec", "osd140.elf"), OsdMain}, l \in ListedLast(S), r \in {2, 3}} :
           S \in MCCards, T \in MCSticks}
\* A CNF of the user that takes more clusters than the new one.
MCLargeCnf ==
    {[card |-> [f \in S |-> IF f = Cnf THEN 41 ELSE 7], stick |-> Sized(T, 5), osd |-> Old, last |-> {}, root |-> 2] :
     S \in {{Cnf}, {Cnf, Configurator, Elf} \cup Icons}, T \in MCSticks}
MCContents == MCVarious \cup MCLargeCnf
\* The OSD of another console, and everything else in place: no folder grows.
MCOtherConsole ==
    {[card |-> Sized({Old, Cnf, Configurator, Elf} \cup Icons, 7), stick |-> Sized({Elf, Configurator}, 7),
      osd |-> File("exec", "osd140.elf"), last |-> {Old}, root |-> 4]}
==============================================================================

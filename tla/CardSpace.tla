------------------------------ MODULE CardSpace ------------------------------
(***************************************************************************)
(* FMCB_Needed_Space (main.c 1081-1379): the kilobytes an installation is  *)
(* said to take, from what is on the card and what is in the INSTALL       *)
(* folder, beside the clusters Install_Hack really takes.                  *)
(*                                                                         *)
(* A file is a record [dir, name]; a card and an INSTALL folder are        *)
(* functions from the files they hold to sizes.  Cluster stands for 1024   *)
(* bytes; a directory entry takes half of one.                             *)
(***************************************************************************)
EXTENDS Integers, FiniteSets, FiniteSetsExt

CONSTANTS Cluster,      \* bytes of a cluster, even (1024)
          DummyNames,   \* the names of dummies_tab
          OsdSize,      \* filesize: the OSD to be written
          IconSize,     \* size of each of the icon files
          CnfSize       \* size_freemcb_cnf

ASSUME SpaceAssumption ==
    /\ Cluster \in Nat \ {0} /\ Cluster % 2 = 0
    /\ {OsdSize, IconSize, CnfSize} \subseteq Nat \ {0}
    /\ IsFiniteSet(DummyNames)
    /\ DummyNames \cap {"osdmain.elf", "icon.sys", "icon.icn"} = {}

Entry == Cluster \div 2
Dirs == {"exec", "sysconf", "boot", "apps"}
File(d, n) == [dir |-> d, name |-> n]
\* install_tab: two icon files in each folder, and what goes to SYS-CONF
Icons == {File(d, n) : d \in Dirs, n \in {"icon.sys", "icon.icn"}}
Drivers == {File("sysconf", "usbd"), File("sysconf", "usbhdfsd")}
Cnf == File("sysconf", "cnf")
Configurator == File("sysconf", "configurator")
UninstallFile == File("sysconf", "uninstall")
Dummies == {File("exec", n) : n \in DummyNames}
OsdMain == File("exec", "osdmain.elf")

Sum(sizes) == MapThenSumSet(LAMBDA f : sizes[f], DOMAIN sizes)

\* The rounding of every size: a multiple of the cluster gains a cluster.
Rounded(n) == (n + Cluster) - (n % Cluster)
\* The division of C truncates towards zero.
Truncated(n) == IF n >= 0 THEN n \div Cluster ELSE -((0 - n) \div Cluster)

\* The files copied from INSTALL/ and INSTALL/APPS/.
Copies(stick) == {f \in DOMAIN stick : f.dir \in {"boot", "apps"}}
Holds(files, d) == \E f \in files : f.dir = d
SizeOf(stick, f) == IF f \in DOMAIN stick THEN stick[f] ELSE CnfSize

\* Files whose sizes are added beside the icons: drivers the card lacks, what
\* FMCB_CFG/ holds, the CNF of the program if there is none, the copies.
Added(card, stick) ==
    {Cnf} \cup Copies(stick) \cup (((Drivers \ DOMAIN card) \cup {Configurator}) \cap DOMAIN stick)
\* Files whose sizes are subtracted, as if all were replaced or deleted.
Subtracted(card, stick) ==
    DOMAIN card \cap ({Cnf, Configurator, UninstallFile} \cup Copies(stick))

Needed_NoFolders(card, stick, multi, last) ==
    LET added == Sum([f \in Added(card, stick) |-> Rounded(SizeOf(stick, f))])
        removed == Sum([f \in Subtracted(card, stick) |-> Rounded(card[f])])
    IN  Truncated(Cardinality(Icons \ DOMAIN card) * Rounded(IconSize) + added - removed + Rounded(OsdSize)
                  + (IF multi THEN (Cardinality(DummyNames) + 1) * Cluster ELSE 0))
\* FMCB_Needed_Space; last is the dummy the listing shows last, if any.
Needed(card, stick, multi, last) ==
    LET added == Sum([f \in Added(card, stick) |-> Rounded(SizeOf(stick, f))])
        removed == Sum([f \in Subtracted(card, stick) |-> Rounded(card[f])])
        newIcons == Cardinality(Icons \ DOMAIN card)
        oldOsd == IF last = {} THEN 0 ELSE card[CHOOSE f \in last : TRUE]
        uninstall == UninstallFile \in DOMAIN card
        dummies == Cardinality(DummyNames)
        bytes == newIcons * Rounded(IconSize) + added - removed + Rounded(OsdSize) - Rounded(oldOsd)
                 - (IF uninstall THEN dummies * Cluster ELSE 0)
                 + (IF multi THEN (dummies + 1) * Cluster ELSE 0)
        files == newIcons + Cardinality(Added(card, stick)) - Cardinality(Subtracted(card, stick))
                 - Cardinality(Dummies \cap DOMAIN card) + 1
                 - (IF uninstall THEN 1 ELSE 0) + (IF multi THEN dummies + 1 ELSE 0)
        folders == Cardinality({d \in Dirs : ~Holds(DOMAIN card, d)})
    IN  Truncated(bytes + files * Entry + folders * 3 * Entry)

(***************************************************************************)
(* What an installation really takes.                                      *)
(***************************************************************************)

CeilDiv(n, m) == (n + m - 1) \div m
\* unpatch_dummies; osdmain.elf, also when there was nothing to unpatch, which
\* returns -1 (1526); the configurator if INSTALL has none
Deleted(card, stick) ==
    DOMAIN card \cap ((IF UninstallFile \in DOMAIN card THEN Dummies \cup {UninstallFile} ELSE {})
                      \cup {OsdMain} \cup ({Configurator} \ DOMAIN stick))
\* A dummy that was linked has one cluster of its own.
Occupies(card, f) == IF f \in Dummies /\ UninstallFile \in DOMAIN card THEN 1 ELSE CeilDiv(card[f], Cluster)

\* Install_Hack: the files it writes; osd is the file of the OSD.  With keep,
\* cnf_overwrite not 1, no CNF is written, also where the card has none (1710-1731).
Written(card, stick, multi, osd, keep) ==
    ({osd} \cup Added(card, stick) \cup (IF multi THEN Dummies \cup {UninstallFile} ELSE {})
     \cup {f \in Icons \ DOMAIN card : f.dir = "apps" => Holds(DOMAIN stick, "apps")})
    \ (IF keep THEN {Cnf} ELSE {})
WrittenSize(stick, osd, f) ==
    IF f = osd THEN OsdSize
    ELSE IF f = Cnf \/ f \in DOMAIN stick THEN SizeOf(stick, f)
    ELSE IF f \in Icons THEN IconSize ELSE 1

\* Entries of a folder of n files, with . and ..
FolderClusters(n) == CeilDiv((n + 2) * Entry, Cluster)
InDir(files, d) == Cardinality({f \in files : f.dir = d})

\* Clusters taken less clusters freed; root is the number of entries of the root.
Taken(card, stick, multi, osd, keep, root) ==
    LET written == Written(card, stick, multi, osd, keep)
        deleted == Deleted(card, stick)
        after == (DOMAIN card \ deleted) \cup written
        sizes == Sum([f \in written |-> CeilDiv(WrittenSize(stick, osd, f), Cluster)])
        freed == Sum([f \in deleted \cup (written \cap DOMAIN card) |-> Occupies(card, f)])
        new == {d \in Dirs : Holds(after, d) /\ ~Holds(DOMAIN card, d)}
        grown == Sum([d \in {e \in Dirs : Holds(DOMAIN card, e)} |->
                         Max({0, FolderClusters(InDir(after, d)) - FolderClusters(InDir(DOMAIN card, d))})])
        created == Sum([d \in new |-> FolderClusters(InDir(after, d))])
    IN  sizes - freed + grown + created
        + FolderClusters(root + Cardinality(new)) - FolderClusters(root)

(***************************************************************************)
(* What Needed leaves out, in clusters.                                    *)
(***************************************************************************)

\* The old OSD whose size is subtracted (1356), but which stays on the card, or
\* is a linked dummy that is said to be larger than osdmain.elf.
Kept(card, multi, osd, last) ==
    IF UninstallFile \in DOMAIN card
    THEN {f \in last : OsdMain \notin DOMAIN card \/ card[f] > card[OsdMain]}
    ELSE IF multi THEN {} ELSE last \ {osd}
\* By how much the CNF kept, which is subtracted (1245-1251), is larger than the
\* one that is not written, which is added (1177-1194).
LargerCnf(card, stick, keep) ==
    IF keep /\ Cnf \in DOMAIN card
    THEN Max({0, CeilDiv(card[Cnf], Cluster) - CeilDiv(SizeOf(stick, Cnf), Cluster)})
    ELSE 0

\* One cluster for an OSD that is not there (1356), one for each file subtracted
\* that fills its last cluster, one for each dummy that is missing beside a
\* record (1359), those of the OSD kept, those a CNF kept has more than the new
\* one; for rounding two and a half, half a one for each dummy whose entry is
\* counted as freed though a folder does not shrink (1226), two halves for the
\* record's, which is counted twice (1251, 1360).
Overlooked(card, stick, multi, osd, keep, last) ==
    LET uninstall == UninstallFile \in DOMAIN card
        full == {f \in Subtracted(card, stick) \cup last : card[f] % Cluster = 0}
        missing == IF uninstall THEN Dummies \ DOMAIN card ELSE {}
        kept == Sum([f \in Kept(card, multi, osd, last) |-> CeilDiv(card[f], Cluster)])
        entries == IF multi THEN {} ELSE (Dummies \cap DOMAIN card) \ {osd}
    IN  1 + Cardinality(full) + Cardinality(missing) + kept + LargerCnf(card, stick, keep)
        + (5 + Cardinality(entries) + (IF uninstall THEN 2 ELSE 0)) \div 2
==============================================================================

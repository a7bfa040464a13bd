------------------------------ MODULE Settings ------------------------------
(***************************************************************************)
(* What the configurator promises of the settings, without its buffers and *)
(* screens: there is one set of settings.  An editor or the menu changes a *)
(* line of it, a file replaces it, "Set all default" resets it, and it can *)
(* be saved.  Nothing else touches the settings or a file.                 *)
(***************************************************************************)
EXTENDS CnfFile

VARIABLES cfg,  \* the settings on the screen
          file, \* [device -> FREEMCB.CNF of the device]
          edits \* the number of edits the user has made

Init ==
    /\ cfg = [n \in Setting |-> Junk]
    /\ file = [p \in Port |-> file[p]] /\ \A p \in Port : IsFile(file[p])
    /\ edits = 0

\* The file is read; a button it does not name may get anything.  A file
\* that is cut off, or that could not be read, gives what its lines give.
Loads(p) ==
    /\ file[p].there
    /\ \E lines \in {file[p].lines, NoFile.lines} : cfg' = Read(lines, cfg')
    /\ UNCHANGED <<file, edits>>

\* On request, and when a file is not there or has no version.
Resets == cfg' = Defaults /\ UNCHANGED <<file, edits>>

\* A save writes lines that agree with the settings but for a last one that
\* is cut short, or leaves the file.  It leaves the settings alone, unless it
\* is the save that loads the drivers of the stick: those may land on the
\* options and the buttons.
Saves(p) ==
    /\ \/ cfg' = cfg
       \/ p = "mass" /\ \A n \in Esr \cup ItemLine : cfg'[n] = cfg[n]
    /\ \/ UNCHANGED file
       \/ /\ \A q \in Port \ {p} : file'[q] = file[q]
          /\ file'[p].there
          /\ \E cut \in Setting : \A n \in DOMAIN file'[p].lines :
               Written(cfg, n) /\ (n # cut => file'[p].lines[n] = cfg[n])
    /\ UNCHANGED edits

\* One line is edited, or a whole item is cleared or pasted.
Edits ==
    /\ \/ \E n \in Setting : \A m \in Setting \ {n} : cfg'[m] = cfg[m]
       \/ \E i \in Items : \A m \in Setting \ {<<"item", i, f>> : f \in 0..3} : cfg'[m] = cfg[m]
    /\ edits' = edits + 1
    /\ UNCHANGED file

Next == (\E p \in Port : Loads(p) \/ Saves(p)) \/ Resets \/ Edits

Spec == Init /\ [][Next]_<<cfg, file, edits>>
==============================================================================

------------------------------- MODULE CnfFile -------------------------------
(***************************************************************************)
(* The settings of Free McBoot and the lines of FREEMCB.CNF (storeFmcbCNF  *)
(* and loadConfig_fmcb of the configurator).  A setting is one line of the *)
(* file: an option, a path of ESR, one of the three paths of a button, the *)
(* name of an item of the menu or one of its paths.  A value is a path as  *)
(* a sequence of names, a word, a number, or nothing.                      *)
(*                                                                         *)
(* The colours are left out: the array their digits are read into is not   *)
(* terminated.                                                             *)
(***************************************************************************)
EXTENDS Integers, Sequences

CONSTANTS Name,         \* what values are made of: names of files, words, digits
          MenuOptions, OsdOptions, ScrollOptions,  \* the options, by the screen that changes them
          EsrPaths,     \* 1..3 in the code
          Buttons,      \* 1..17 in the code, the order of LK_ID_fmcb
          Items,        \* 1..100 in the code
          FileOrder,    \* the settings in the order storeFmcbCNF writes them
          Defaults      \* [setting -> value], initConfig_fmcb(0)

Port == {"mass", "mc0", "mc1"}
Empty == <<>>
Junk == <<"junk">>      \* what was never set, or was written over
Cut == <<"cut">>        \* a value of which the end is missing

Option == {<<"option", o>> : o \in MenuOptions \cup OsdOptions \cup ScrollOptions}
Esr == {<<"esr", i>> : i \in EsrPaths}
Key == {<<"key", b, e>> : b \in Buttons, e \in 1..3}
\* Field 0 is the name, 1..3 are path1..path3.
ItemLine == {<<"item", i, f>> : i \in Items, f \in 0..3}
Setting == Option \cup Esr \cup Key \cup ItemLine
Value == Seq(Name)
Cfg == [Setting -> Value]

\* headed: the version comes before the first variable.
IsFile(f) ==
    /\ f = [there |-> f.there, headed |-> f.headed, lines |-> f.lines]
    /\ f.there \in BOOLEAN /\ f.headed \in BOOLEAN
    /\ DOMAIN f.lines \subseteq Setting
    /\ f.lines \in [DOMAIN f.lines -> Value]
NoFile == [there |-> FALSE, headed |-> FALSE, lines |-> [n \in {} |-> Empty]]

ASSUME CnfAssumption ==
    /\ {"junk", "cut"} \subseteq Name
    /\ Defaults \in Cfg
    /\ FileOrder \in Seq(Setting) /\ {FileOrder[i] : i \in DOMAIN FileOrder} = Setting

\* The parser skips the blanks before a value (get_CNF_string, 107-110).
Trimmed(v) == IF v # Empty /\ Head(v) = " " THEN Tail(v) ELSE v

\* What is written: options and ESR always, the rest if it is set, but the
\* third path of a button if its second one is set (2112).
Written(c, n) ==
    \/ n \in Option \cup Esr
    \/ n \in Key /\ n[3] = 3 /\ c[<<"key", n[2], 2>>] # Empty
    \/ n \in Key /\ n[3] # 3 /\ c[n] # Empty
    \/ n \in ItemLine /\ c[n] # Empty

Stored(c) == [n \in {m \in Setting : Written(c, m)} |-> c[n]]

\* The lines on the card when the write ends early, in line k of FileOrder.
Torn(c, k) ==
    LET whole == {FileOrder[i] : i \in 1..(k - 1)} \cap DOMAIN Stored(c)
        cut == {FileOrder[k]} \cap DOMAIN Stored(c)
    IN {[n \in whole |-> c[n]], [n \in whole \cup cut |-> IF n \in cut THEN Cut ELSE c[n]]}

\* What is read from lines into settings that were old: what is absent is
\* the default or no item, a button keeps what the memory held.
Read(lines, old) ==
    [n \in Setting |-> IF n \in DOMAIN lines THEN Trimmed(lines[n])
                       ELSE IF n \in Key THEN old[n]
                       ELSE IF n \in ItemLine THEN Empty ELSE Defaults[n]]
==============================================================================

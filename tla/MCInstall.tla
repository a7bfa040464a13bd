------------------------------ MODULE MCInstall ------------------------------
(***************************************************************************)
(* Install with two dummies and three consoles: one that looks for a file  *)
(* the dummies stand for, one that looks for osdmain.elf, and one for a    *)
(* name that is in no table (osd###.sys).  Chains only differ by name.     *)
(***************************************************************************)
EXTENDS Install, TLC

CONSTANTS osdmain, osd1, osd2, sys, c1, c2, c3, c4, c5

MCDummyTab == <<osd1, osd2>>
MCOneDummy == <<osd1>>
MCSymmetry == Permutations(Chains)
==============================================================================

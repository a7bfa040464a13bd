--------------------------- MODULE MCConfigurator ---------------------------
(***************************************************************************)
(* Configurator with one button, one item, one path of ESR and one option  *)
(* of each screen; a card with a data folder, a program and a text, and a  *)
(* stick with a program.                                                   *)
(***************************************************************************)
EXTENDS Configurator, TLC

MCName == {"junk", "cut", "OSDSYS", "FASTBOOT", "OSDMENU", "mc?:", "B?DATA-SYSTEM", "0", "1", " ", "uLE",
           "uLaunchELF", "SMS", "ESR.ELF", "..", "mc0:", "mc1:", "mass:", "BIDATA-SYSTEM", "A.TXT", "ULE.ELF"}
MCBit == {<<"0">>}
MCNames == {<<" ", "uLE">>}
MCOrder == <<<<"option", "FastBoot">>, <<"esr", 1>>, <<"key", 1, 1>>, <<"key", 1, 2>>, <<"key", 1, 3>>,
             <<"option", "hacked_OSDSYS">>, <<"option", "OSDSYS_scroll_menu">>,
             <<"item", 1, 0>>, <<"item", 1, 1>>, <<"item", 1, 2>>, <<"item", 1, 3>>>>

Elf == <<"mc?:", "B?DATA-SYSTEM", "ESR.ELF">>
MCDefaults ==
    [n \in Setting |-> CASE n \in Option -> <<"1">>
                         [] n \in Esr \/ n = <<"item", 1, 1>> -> Elf
                         [] n \in Key -> <<"OSDSYS">>
                         [] n = <<"item", 1, 0>> -> <<"uLaunchELF">>
                         [] OTHER -> Empty]

\* A file that names an option, the second path of the button and an item,
\* and on the stick one that does not begin with its version.
Some == [there |-> TRUE, headed |-> TRUE,
         lines |-> (<<"option", "FastBoot">> :> <<"0">>) @@ (<<"key", 1, 2>> :> <<"FASTBOOT">>) @@ (<<"item", 1, 0>> :> <<"SMS">>)]
Foreign == [Some EXCEPT !.headed = FALSE]
MCFiles == {[p \in Port |-> CASE p = "mc0" -> Some [] p = "mass" -> Foreign [] OTHER -> NoFile]}

Program(name, rank) == [name |-> name, dir |-> FALSE, elf |-> TRUE, rank |-> rank]
Text(name, rank) == [name |-> name, dir |-> FALSE, elf |-> FALSE, rank |-> rank]
Data == [name |-> "BIDATA-SYSTEM", dir |-> TRUE, elf |-> FALSE, rank |-> 1]
MCTree == (<<"mc0:">> :> <<Text("A.TXT", 0), Program("ULE.ELF", 2), Data>>)
       @@ (<<"mc0:", "BIDATA-SYSTEM">> :> <<Program("ESR.ELF", 1)>>)
       @@ (<<"mass:">> :> <<Program("ESR.ELF", 1)>>)
==============================================================================

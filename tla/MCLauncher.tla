----------------------------- MODULE MCLauncher -----------------------------
(* Small instances of Launcher: five kinds of media, six kinds of disc. *)
EXTENDS Launcher

MCButtons == <<"select", "l2">>
MCDefaultButtons == <<"l2">>
MCDefaultNames == <<<<"BOOT", "SYS-BOOT">>, <<"BOOT4", "SYS-BOOT4">>>>

\* A configured card: Auto tries the disc and then an ELF, a button an ELF and
\* the menu; the OSDSYS menu has a reload and an application, on a stick perhaps.
FullCnf == <<
  <<<<"version">>, 1>>, <<<<"hack">>, TRUE>>, <<<<"debug">>, TRUE>>,
  <<<<"esr", 1>>, Nowhere>>, <<<<"esr", 2>>, <<"mc?", "ESR">>>>, <<<<"esr", 3>>, Nowhere>>,
  <<<<"name", 1>>, TRUE>>, <<<<"path", 1, 1>>, <<"special", "OSDSYS">>>>,
  <<<<"name", 2>>, TRUE>>, <<<<"path", 2, 1>>, <<"mass", "APP">>>>,
  <<<<"path", 2, 2>>, <<"mc?", "APP">>>>,
  <<<<"lk", 0, 1>>, <<"special", "FASTBOOT">>>>, <<<<"lk", 0, 2>>, <<"mc?", "APP">>>>,
  <<<<"lk", 1, 1>>, Nowhere>>, <<<<"lk", 1, 3>>, <<"special", "OSDSYS">>>>,
  <<<<"lk", 2, 2>>, <<"mass", "APP">>>>>>
PlainCnf == <<
  <<<<"version">>, 1>>, <<<<"fastboot">>, TRUE>>, <<<<"hack">>, TRUE>>, <<<<"skipMc">>, TRUE>>,
  <<<<"esr", 1>>, Nowhere>>, <<<<"esr", 2>>, Nowhere>>, <<<<"esr", 3>>, Nowhere>>,
  <<<<"name", 1>>, TRUE>>, <<<<"path", 1, 2>>, <<"special", "FASTBOOT">>>>,
  <<<<"lk", 0, 1>>, <<"mc?", "BOOT">>>>, <<<<"syntax">>, 0>>, <<<<"lk", 1, 1>>, <<"mc?", "BOOT">>>>>>
\* Paths of ESR that boot the disc, or OSDSYS, before any pad is read.
EsrCnf == <<
  <<<<"version">>, 1>>, <<<<"hack">>, TRUE>>, <<<<"esr", 1>>, <<"special", "FASTBOOT">>>>,
  <<<<"esr", 2>>, <<"mc?", "BOOT">>>>, <<<<"esr", 3>>, <<"special", "OSDMENU">>>>,
  <<<<"name", 1>>, TRUE>>, <<<<"path", 1, 1>>, <<"special", "OSDSYS">>>>,
  <<<<"lk", 0, 3>>, <<"mc?", "APP">>>>>>
UnversionedCnf == <<<<<<"hack">>, TRUE>>, <<<<"version">>, 1>>>>

UsbCard == [files |-> {"USBD", "APP", "ESR", "BOOT4"}, cnf |-> FullCnf]
PlainCard == [files |-> {"APP", "BOOT", "DVDPLAYER"}, cnf |-> PlainCnf]
OddStick == [files |-> {"RESCUE.ELF", "SYS-BOOT", "USBD"}, cnf |-> UnversionedCnf]
EsrCard == [files |-> {"USBD", "APP"}, cnf |-> EsrCnf]
EmptyCnf == [files |-> {"APP"}, cnf |-> <<>>]
MCName == {"", "OSDSYS", "FASTBOOT", "OSDMENU", "RESCUE.ELF", "ESR", "SYS-ESR", "BOOT", "SYS-BOOT",
           "BOOT4", "SYS-BOOT4", "APP"}
MCMedia == {UsbCard, PlainCard, OddStick, EmptyCnf, EsrCard}
MCFits == [mass |-> {PlainCard, OddStick, NoMedium}, mc0 |-> {UsbCard, PlainCard, NoMedium},
           mc1 |-> {UsbCard, EmptyCnf, EsrCard, NoMedium}]
Disc(t, c, p, e) == [type |-> t, cnf |-> c, ps1 |-> p, esr |-> e]
MCDiscs == {
  Disc("none", {}, FALSE, FALSE), Disc("ps1", {}, TRUE, FALSE),
  Disc("ps2", {"BOOT", "BOOT2"}, FALSE, FALSE), Disc("ps2", {"VER"}, FALSE, FALSE),
  Disc("dvdv", {"BOOT2"}, FALSE, TRUE), Disc("dvdv", {}, FALSE, FALSE)}
MCConsoles == {[early |-> FALSE, menu |-> TRUE], [early |-> TRUE, menu |-> FALSE]}
MCSwapAt == {"osdsys", "exec"}
=============================================================================

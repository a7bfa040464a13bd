# FreeMcBoot: a verification project

FreeMcBoot (FMCB) installs a replacement of the PlayStation 2's system update
("OSD") on a memory card, so that the console boots its own loader.  The
repository holds the installer (EE program `src/main.c`), the IOP modules it
drives, the loader that ends up on the card (`src/launcher2`) and a
configurator (`src/FMCB_Configurator`).  What can go wrong is mostly what
happens to a memory card: files that share clusters behind the file system's
back, blocks that are erased before they are written again, jobs that fail half
way and are tried again.

## 1. Inventory

| Component | State it keeps | Operations | Talks to | What makes it correct | Here |
|---|---|---|---|---|---|
| Memory card patcher, `modules/mcsp/mcsp.c` | the card's pages; a list of blocks to rewrite; a block buffer; the reply packet | `MC_OSD_Scan_Thread`, `MC_Dummies_Patch_Thread`, `MC_Dummies_UnPatch_Thread` | mcman (page reads, erases, writes), its own server thread | only the directory entries asked for change; the superblock is never touched; a fault tears one block at most; patch then unpatch is the identity | `McspPatch`, `DirRelink` |
| Installer jobs, `main.c` | the files of the card, `cnf_overwrite`, `install_with_dummies`; the buffers, the log | `Run_Hack`, `Install_Hack`, `unpatch_dummies`, `multiversion_uninstall`, `MemoryCard_Format` | file system calls, the patcher through `mcsp_rpc.c`, the user through dialogs | no file frees the clusters of another, none are leaked, the dialogs tell the truth, every job ends, no buffer is released while it is read | `Install` (the card), `Session` (the memory, the log, the dialogs) |
| RPC server and client, `modules/mcsp/main.c`, `mcsp.c:96-119, 324-348, 665-689`, `mcsp_rpc.c` | the flag `done`, the worker thread, `MCSP_Inited`, the bound client | bind, call, create worker, poll, delete worker | EE, IOP kernel, patcher | every call is answered, one worker at a time, no thread and no memory is lost | `McspRpc` |
| Card check and space check, `main.c:874-1379` | card type, free clusters, format; the pending call of libmc | `MemoryCard_Check`, `FMCB_Needed_Space` | libmc, file system | enough space is found enough, the card checked is the one written | `CardCheck`, `CardSpace`, composed in `Session` |
| Menu, dialogs, log, `main.c:2980-3677`, `gui.c` | menu selection, what is shown, `log_index` | `main` loop, `Modal_Dialog`, `NonModal_Dialog` | pad, drawing | the log stays within its 22 lines, success is said of a success | `Session` |
| Loader, `launcher2/launcher2.c` | settings, pad, configuration buffer, drivers' path, menu of OSDSYS | read the configuration, choose and run a path, launch OSDSYS and be called back | file system, pad, disc check, OSDSYS | what runs is what was configured, some end is always reached, a reload starts afresh, but for the ESR paths | `Launcher` |
| Disc check, `launcher2/chkesr*` | a status word | one RPC | libcdvd | an answer is given | its answers, in `Launcher` |
| Configurator, `FMCB_Configurator/config.c`, `filer.c` | the settings and their copies; the list, selection and page of the browser | load, save, reset, edit, browse | file system, pad | what is shown, edited and saved is one set of settings; the cursor stays on the screen; every row can be reached | `Configurator`, `CnfFile`, `Settings`, `FileBrowser`, `OsdGrid` |
| OSD construction, `embed.c`, `build_osd.c`, `osdname.c` | buffers | inject, build KELF, unpack and search OSDSYS | memory only | sizes and headers agree, the name found is what the console looks for | outcomes and buffers only |
| Card security, `modules/mcsio2`, `mcid.c`; Mechacon start, `launcher2/init` | Mechacon session | authenticate, decrypt, sign, encrypt; handshake | Mechacon registers | sequences in order | not modelled |
| Sound, ELF loaders, fonts, images, vendored code | - | - | - | - | not modelled |

How they interact: the installer asks which card to use, how much space the
installation takes, and then does a sequence of file operations on the card and,
for a multi-version installation, of three RPC calls to the mcsp module, each of
which runs a worker thread that reads the raw card page by page and rewrites
blocks.  The only things that outlive a job are the card and a few globals of
the installer (`cnf_overwrite`, the log).  The console then boots the loader
from the card; the loader reads the FREEMCB.CNF that the configurator writes.
Installer, loader and configurator are programs of their own: they share the
card and that file, no memory.

What is hard: the raw rewriting (erase, then write, with the buffer as the only
copy); the sharing of clusters by linked dummies, which makes the order of
deletions matter; failures of single file operations, whose results the code
checks, ignores or misreads (-1 taken for success); the power button between any
two steps; what one job leaves for the next, perhaps on another console; cards
that are changed while calls to libmc are pending; buffers with a dozen exits
each; in the configurator, settings that are edited in memory that was freed;
in the loader, pointers that survive from one reading of the configuration to
the next.  Concurrency proper is confined to the server and its worker on the
IOP and to the calls of libmc that are answered later.  `PROJECT.json` lists the
hazards line by line with the properties that cover each.

## 2. Plan

The most important behaviour came first:

1. `McspPatch`: the raw patcher, its abstract specification `DirRelink`,
   the refinement between the two, and its proofs.  Done.
2. `Install`: the jobs on one card, across consoles, faults and power loss.  It
   takes the patcher at the contract that `McspPatch` shows.  Done.
3. `McspRpc`: server, worker, `done`, `DeleteThread`, binding, IOP memory.  Done.
4. `CardCheck` and `CardSpace`, composed with the menu, the log and the buffers
   of a job in `Session`.  Done, with proofs.
5. `Launcher`: configuration, boot decision, OSDSYS and its reload.  Done, with
   proofs.
6. `Configurator`: its memory against the abstract `Settings`, its file, its
   browser and its largest screen.  Done, with the refinement and the browser
   proved.

Left: the program's session across installer, loader and configurator, which
today meet only in the contents of the card each run starts from.

Which composes which: `Session` extends `CardCheck` and `CardSpace` and adds the
menu and the job; `Configurator` extends `CnfFile`, `FileBrowser` and `OsdGrid`
and is shown to implement `Settings`; `McspPatch` implements `DirRelink`.
`Install` and `Session` are two views of one job: the first sees the card and
not the memory, the second the memory, the log and the outcome and not the card.
`Install` uses the patcher as `DirRelink` promises it and the RPC client as
`McspRpc` shows it (an answer of the right worker, or -1).  `Recursion` holds no
model: it states what proofs about recursive functions need, and
`SessionProofs` and `ConfiguratorProofs` use it.

## 3. What is modelled

### McspPatch, DirRelink

`page` is the card: every directory page of a dummy, its pages of data, and the
superblock pages below `SysPages`; contents are abstracted to what the patcher
compares and writes (name and attribute match, cluster, size).  Actions follow
the thread: `StartThread`, `ScanBlock`/`EndOfScan` (find the entries),
`CollectBlock`/`EndOfCollect` (build `eraseblocks`, in which only adjacent
duplicates are dropped), then per block `ReadBlock`, `EraseBlock`, `WritePage`
(with the fields replaced), and `Finish`.  `ReadFails`, `EraseFails` and
`WriteFails` are the error exits; `PowerOff` may come between any two page
writes.  Constants say which dummies are on the card, what the uninitialised
`.page` fields of entries that were not found hold, and how large card and
blocks are.

`DirRelink` is what the patcher promises: entries are relinked or unlinked one
at a time, and at most one block of pages is lost when something fails.
`Relinks` states the refinement; the mapping hides buffer, list and loops.

### Install

One card (`entry`, `chain`, `file`, `record`), carried between consoles.  An OSD
file is an entry that points at a chain of clusters; a linked dummy points at
the chain of `osdmain.elf` and `record` (uninstall.dat) remembers its own.
Deleting or replacing a file frees whatever its entry points at: this is the
file system (external), and it is what makes a linked dummy dangerous.  Each
action is one operation of `unpatch_dummies`, `Install_Hack` or
`multiversion_uninstall` with every outcome the code distinguishes; `Faults`
chooses which kinds of failure a run admits.  `local` holds the local variables
that later steps read; `clean` is a history variable that only the properties
read.

`Boots` says what an installation is for: the OSD under every name of
`dummies_tab` and as `osdmain.elf` in multi mode, under the name of the console in
normal mode.  A console whose name is in neither (osdmain.sys, osd###.sys,
`osdname.c:95-100`; the third console of the runs) gets nothing from a multi-version
installation that reports success, and a normal installation deletes the
`osdmain.elf` another console may start from (main.c:1526-1530): both are in the
model, and neither contradicts what the code or its texts promise.

Abstractions: of the files other than OSDs one stands for each way the code
treats them (`icon` is written if absent, `cnf` is asked about, `usbd` is copied
if absent, `elf` is copied in a loop that passes over files that do not open);
FMCB-CNF's copy of uninstall.dat, the region letter in the paths, and the
preparation of the OSD in memory (`Prepare`, which writes nothing to the card)
are folded.  The calls of the patcher are single actions that restore or link
any subset of the entries when they fail: `Relinks` and `OneBlockTorn` are what
justifies this, the loss of a whole block being left to `McspPatch`.

### McspRpc

One EE client, the server thread, the worker thread of the call at hand, and the
IOP memory in areas of one size.  Priorities are modelled as the IOP kernel has
them: a step of the worker needs the server asleep, and `Wake` may come between
any two of them, also between `SetDone` and `ExitThread`, in which case
`DeleteThread` fails and the stack is lost (`stray`).  `server = "absent"` is a
module whose `_start` could not create the server thread, which the installer
does not notice.  The three worker functions differ here in the buffers they
allocate and free (`Needed`, `Returned`), and in that a scan may read the whole
card without meeting its file: it then frees its buffers and returns 0
(`WentThrough`).  `out` records how the worker of the last call ended, for
`OwnAnswer` to compare with what the call returned; a call that `SifCallRpc`
itself refuses (`SifCallRpcFails`) has no worker, and returns -1.

### CardCheck, CardSpace, Session

`CardCheck` is `MemoryCard_Check` beside libmc and the user.  libmc takes one
call at a time: `GetInfo` hands it over (and is refused while one is pending),
`AnswerCall` is the IOP, which looks at the slot some time later and writes type,
free clusters and format where the call said, `FirstSync`, `SecondSync` and
`PollSync` take the answer.  `ChangeCard` may come between any two of them.  A
check that is left with CROSS leaves its call pending, and the next check starts
with it.  The three figures are abstracted to the card they are of, which is what
`InfoOfPort` compares; `still` remembers which cards nobody touched.

`CardSpace` is arithmetic: `Needed` adds up what `FMCB_Needed_Space` adds up, in
bytes that are rounded, multiplied and divided as the code does it, for any
contents of card and INSTALL folder; `Taken` is the reference, the clusters that
the files written by `Install_Hack` take, less those of the files deleted or
replaced, with the clusters the folders and the root grow by.  `keep` is the
user's answer to "Overwrite it ?", or one left in `cnf_overwrite` by an earlier
card: with it no CNF is written, and the one on the card, which `Needed`
subtracts, stays.  `Overlooked` lists
what the computation leaves out: the old OSD that is subtracted though it stays,
the clusters by which a CNF that is kept is larger than the new one, a
file that is replaced and fills its last cluster (it is counted with a cluster too
many), the dummies of a record that are gone, the entries counted as freed in a
folder that does not shrink, and rounding.  What a constant `Contents` may hold is
said in `ContentsAssumption`: finite folders of files with sizes, INSTALL files
that have a place on the card, an OSD of the executables' folder.

`Session` is the loop of `main()`: `MoveButton`, `Press`, the check, `Confirm`,
and the job step by step, each with its line of the log, what it allocates and
what every exit frees.  `heap` is the allocator: the first free address, so that
a pointer freed twice releases the next buffer.  The table `Work` holds, for each
of the steps that build the OSD, the buffers it gets and those freed when there
is no memory, when the work fails, and when it is done.  Failing calls are
nondeterministic outcomes.  What the job does to the card is in `Install`.

Abstractions: a modal dialog is the outcome of the step that opens it.  During a
job the user changes cards only before the signing (the model follows the
figures no further), and not while the log of the last job is shown.  The buffer
that is leaked when the second `malloc` of `Run_Hack` fails is leaked once.

### Launcher

From `PowerOn` through the rescue file, the configuration (`LoadConfig`), the
ESR paths (`CheckEsrPath`, one path a step), the two loops that read the pad,
FASTBOOT and the paths of the button (`CheckExecPath`, one path a step), to a
program that is handed over, or to OSDSYS (`LaunchOsdsys`) and what it calls
back: an item of the patched menu, a DVD, a game, or a reload, which frees the
buffer, resets the settings and goes through configuration and ESR again; the
paths copied to `esr_path` are overwritten only by a file that can be used.  An
ESR path is tried as the button's paths are: FASTBOOT may boot the disc, OSDSYS
and OSDMENU launch OSDSYS there and then.  `validEsr` is an index into `esrPath`,
since `valid_ESR_path` points into that array.

A file is a sequence of lines, read with the parser's rules: the last line on a
variable counts, a line that cannot be read ends the file, a variable before the version
refuses it and what was read until then stays.  `buffer` follows `CNF_RAM_p`,
`usb` the drivers and the letter in their path, which is changed in place by
every try.  Existence of a file is asked of the slots at that moment; `Swap`
changes cards, stick or disc at the places of `SwapAt`.

Left out: the patches that change the looks of OSDSYS, video modes, the two
delays.  The OSDSYS of the ROM is taken to load.

### Configurator, CnfFile, Settings, FileBrowser, OsdGrid

The configurator keeps its settings in a block that `fmcb` points to.  An editor
copies the block when it is entered and frees both blocks when it is left,
`fmcb` still pointing at the copy: from then on the program reads and writes
memory that is free.  `Configurator` models the blocks, the two pointers and the
allocator (external: the first free block, whose contents stay until they are
written; freeing a free block does nothing), and says which step allocates,
copies and frees.  `Settings` is the program as its user sees it, with one set of
settings, and `ImplementsSettings` is the refinement from one to the other.
Loading the drivers of a USB stick allocates and fills a buffer, which may lie on
the block in use: `Settings` admits that damage in the one step where it happens.

`CnfFile` is the file: which settings `storeFmcbCNF` writes, in which order, what
a write that ends early leaves, and what `loadConfig_fmcb` makes of it.
`FileBrowser` is `getFilePath`: the list with its filter and its quicksort, the
selection and the page with their clamps; it keeps the entries that pass the
filter in the order of the folder and partitions in place, position by position,
as the code does.  What a folder may hold (`BrowserAssumption`) is entries with a
name, whose upper folder is there.  `OsdGrid` is the navigation of the
screen of OSDSYS options, 27 rows with four jump tables.

Abstractions: the cursor of the screen of OSDSYS options is left free in
`Configurator`, which `RowsReachable` justifies; the row of an editor that
browses, and the button that ends browsing, are chosen when browsing ends, since
nothing reads them before; a program that is started ends the session; the
message after a save, "Saved" also for a write that came short, is not modelled;
the colours are left out, the array their digits are read into being
unterminated; the buffer leaked with a file that is refused is not modelled.

## 4. Runs

| Run | Shows | Instance |
|---|---|---|
| `McspPatch_fresh` | on a card as an installation prepares it, success means every dummy is linked, unpatch is the inverse of patch, faults tear one block, every call ends | 4 blocks of 2 pages (the superblock's, two of directories, one that may hold a stale copy), 3 dummies |
| `McspPatch_any` | on any card, with dummies missing or linked already and junk in the `.page` fields, the patcher refines `DirRelink` and spares the superblock | as above, plus junk values below, in and above the system area |
| `Install_clean` | with nothing failing, the cluster accounting is exact and both success dialogs are true | 2 dummies, 3 kinds of console, 5 chains, all other files |
| `Install_faults` | what can leave a linked dummy without record; that success from a sane card is real | 2 dummies, 2 consoles, 4 chains, 7 kinds of fault in any number |
| `Install_ends` | every job comes back to the menu, whatever fails | 1 dummy, 2 chains, all 9 kinds of fault |
| `Install_window` | a disagreement (section 7) | 2 dummies, 1 console, power loss only |
| `McspRpc_calls` | answers belong to their calls, memory is lost in three ways only, a call comes back unless no thread could be made for it | 10 areas, 4 calls, 2 tries |
| `Session_menu` | the check returns the figures of the card in its port and ends when a card stays; no buffer in use is released and one exit leaks; the log overflows by one line at most; success is said of a success; the space computed is short by no more than `Overlooked` lists | 1 PS2 card, 1 other card, 5 buffers, 2 files per loop, 22 lines, cards of 0 to 13 files, INSTALL folders of 0 to 3, a CNF that is replaced or kept, of up to 11 clusters |
| `Session_space` | a disagreement (section 7) | the card of another console |
| `Launcher_boot` | what runs is what is configured; a reload leaves nothing of the former configuration, but the ESR paths if it finds no file it can use; drivers are there when a card has them; the buffer is freed once; every boot ends | 5 media in 3 slots, 6 discs, 2 consoles, 2 buttons and Auto, 2 menu items |
| `Config_edit` | the copies of the settings implement one set of settings; memory is lost only with a load; the browser's cursor and list; the grid | 1 button, 1 item, 1 ESR path, 1 option per screen, 4 blocks, 2 acts of the user |
| `Config_reload` | a disagreement (section 7) | as above, no torn files |

Bounds. The patcher treats the entries independently except where two share a
block or where a block comes up again in `eraseblocks`, in which only adjacent
duplicates are dropped. Three dummies over two directory blocks are the
smallest instance in which the list can be b1, b2, b1; all placements are
enumerated. Two dummies suffice for `Install` because what distinguishes them
is whether they were reached by a loop that stopped half way. Chains:
`osdmain.elf`, two dummies, one OSD of a console outside the table and one to
spare, so that allocation can and cannot succeed; chains are interchangeable,
hence the symmetry, used in no run with a temporal property other than an
action property. The number of jobs, sessions, faults and power losses is not
bounded. `McspRpc` has 10 areas and 4 calls (`MaxCalls` bounds them): three
failing calls use the memory up, so that the hang is reached with calls to
spare. Its configurations turn the deadlock check off because a hung server, an
absent one and the last call really stop.

A job of `Session_menu` holds at most four buffers at once, five with the leaked
one, so that memory is short exactly where the model lets `malloc` fail.  Two files are the least for which a
loop goes round, and a pointer is freed in the loop and after it.  The contents
of card and folder are chosen by case of the computation: formatted, in use,
installed by this console, by another one, multi-version, half installed, an
uninstallation that was not finished; sizes (7 and 8 bytes
of a cluster of 4) are such that rounding up and the extra cluster of an exact
multiple both occur.
The free space tried is `Needed` and `Needed + 1`, the two sides of the
comparison, and none, which passes where the result is negative.  `Launcher_boot`: media differ in the file they hold and in what a
configuration may do (special paths, empty paths, paths left out, a syntax error,
a missing version, an empty file), and the user changes them before a path is run
and while OSDSYS is up (`MCSwapAt`), where the loader uses what it checked
before; `MaxLetter` is 3, one past the last letter that may name a card; the
number of boots and reloads is not bounded.  `Config_edit`: the blocks are the
subject, hence one value of everything else, and 4 blocks: the settings, the copies
of two nested editors and one that was lost; the user does two acts
that change settings or files (`MaxActs`), at most one edit, one reset or load
and one save, and moves through screens and folders without bound.  It loads
from and saves to the stick and one card (`Used`), a torn write ends in the fifth
line, the third path of the button (`TornAt`), a driver's file covers two columns
of buttons (`Columns`), and the page of the browser has three rows.

Fairness.  `McspPatch` assumes weak fairness of the worker thread's steps: it is
the only runnable work of the module while the server sleeps.  `FairSpec` of
`Install` assumes it of `JobStep`: the installer is one thread that waits for
the user only in dialogs, that is in `menu`.  `McspRpc` assumes weak fairness of
the server, whose priority is the highest of the module, and strong fairness of
the worker, which the server leaves the IOP to for 100 ms at a time, again and
again.  `FairSpec` of `Session` assumes weak fairness of `Libmc` (the IOP answers
every call) and of `CheckPort` (the check asks for the answer in a loop); not of
the user, who may leave every question open.  `Launcher` assumes it of `Program`,
the steps between two inputs of the user, which are those of one thread.
`Configurator` states no fairness: it waits for the user everywhere.  No module
assumes that a fault does not happen.  `JobEnds` excepts the record without a
header, where the loop bound is an uninitialised local.

Deadlock is checked where the system cannot stop.  It is not in `McspPatch_*`,
where a call that failed or lost power is over, nor in `McspRpc_calls`, where a
hung server, an absent one and the last call really stop.

## 5. What is proved

Each proof module proves, with TLAPS, for every value of the constants that the
named assumptions of the module allow.

`McspPatchProofs` (any card size, block size, set of dummies and junk value:
`McspAssumption`): `TypeCorrect`, `PatcherRelinks` (the refinement of
`DirRelink`), `SystemAreaSafe`, `NoPageLost` and `TornOnce`.  The argument is one
inductive invariant that relates the buffer to the card: between the erase of a
block and the last page written back the buffer holds what the pages held,
rewritten, and every block in the list has the form that reading it in again
leaves unchanged.  Without the second half the repeated blocks of the list could
not be shown harmless.  `PatchDone` (`PatchComplete`) and `UnPatchUndoes`
(`RoundTrip`) hold for cards that are `Prepared`, as `Install_Hack` leaves them
for the patch: each name asked for is one file in the directory, none linked yet;
the theorems assume it of every card in `Layouts`, as it is in the instance of
`McspPatch_fresh`.  A copy of a directory page in `BackupBlocks` may say
anything: those are the blocks mcman keeps at the end of the card (external,
`BackupAssumption`), which the scan comes to after it has found the entries.  The
proof follows a call: the scan finds each name at home, so that the list has
every block that holds one, and each block written back leaves its entries linked
and `saved` with what they pointed at; the unpatch finds the same entries and
puts that back.

`McspRpcProofs` (any memory, tries and calls): `TypeCorrect`, `AnswerIsOwn`,
`MemoryAccounted` and `HangsForMemory`.  The invariant says which worker there
can be at each step of the server, what `done` and `ret` then say of it, and
where every area of memory is.

`InstallProofs` (any dummies, consoles, chains and faults): `TypeCorrect`, and
`PatchUncovers` for any faults but `rpc`.  The latter needs `Spent`: from the
unpatch to the deletion of uninstall.dat no dummy of the record is linked any
more, which a call that did not get through, taken for success, would break.
`CleanInstallBoots` (`InstalledFromClean`) admits every fault but a write that is
short unnoticed (`short`) and a call that does not get through (`rpc`), both of
which the code takes for success.  The invariant `FromClean` says what each step
of an installation leaves to the next: which of the files promised are there,
each with a chain of its own, from the unpatch over the OSD and the dummies to
the links.

`InstallCleanProofs` (any dummies, consoles and chains, `Faults = {}`):
`ChainsStaySound`, `NothingLeaks`, `SuccessBoots` and `RevertedIs`, over any
sequence of installations, uninstallations and formats.  None of the four is
inductive.  The invariant gives each file a chain of its own, `Own`: for a linked
dummy the one it gets back, from `return_entry` or from uninstall.dat.  A patch,
an unpatch and the writing of the record then leave `Own` as it is, and deleting
or writing a file, which the code does while no dummy is linked only, moves the
chain of that file alone (`DeleteApart`, `StoreApart`).  At the menu a card is
either without links and record (`Bare`) or has every dummy linked and recorded
(`Full`), so that an unpatch finds them all.

`SessionProofs` (any heap, contents, files and cards): `HeldBuffersStay`,
`NothingElseLeaks`, `LogBounded` (for a log of 22 lines or more),
`SuccessIsUnmarked` and `FiguresOfPort`.  The invariant has a table of the
buffers that are live at each step, `Live`, and says that they have addresses of
their own, that these and the leaked one are all that is allocated, and that the
pointers that a later `free` may see again point to nothing allocated, the heart
of the repeated frees of `boot_file`.  `Before` is a table of the lines a job can
have written when it comes to a step, and `failed` holds nothing but the
unpatching.  `CheckInv`, for the card, says that the pending call is that of the
port and figures asked for, except in the first wait of a check, whose call may
be one that an earlier check left behind: the second
question to each port is what makes it harmless.  `TypeCorrect` holds for any
`Contents` as `ContentsAssumption` says: that the space needed and the space taken
are integers is `SumIsInt`, by `Recursion`, since the sums are folds.

`ShortfallListed` (`ShortByRounding`), for any sizes of cluster, OSD, icons and
files and any dummies: what `FMCB_Needed_Space` computes, and `CheckSpace` compares
with the free clusters, falls short of what `Install_Hack` takes by no more than
`Overlooked` lists.  The argument follows the two halves of the computation.  The
bytes: each file written takes no more clusters than its rounded size
(`WrittenBound`), and each file subtracted frees at least what it was counted with
but for one cluster if it is full, all of them if it is kept (`FreedBound`); a
CNF on the card that is kept takes its own clusters instead of those of the new
one and nothing else differs (`KeptCnf`), which carries the bound over.  The
entries: a folder with k more files grows by no more than half a cluster for each
and half a cluster of rounding, a new one by that of three more (`FolderBound`),
and the files added and subtracted are those by which the four folders differ
(`EntryBound`).  Then `Needed` is the quotient of one sum (`NeededIs`), and the
division that rounds towards zero costs less than one cluster more.  The bound is
that of each summand, so that a bug in one of them, a folder not counted or a
file subtracted twice, breaks the proof.  It is not the claim of the comment at line
1083 that the space is enough, which is false (section 7).

`LauncherProofs` (any media, discs, consoles, configurations, places of change):
`BufferFreedOnce`, `DriversStay` and `ReloadFresh`.  A buffer that is freed is
followed by a reload, and it stays freed only if that finds no file
(`BufferInv`); the port letter goes up only past cards without drivers
(`UsbInv`); while a reload looks for its file the settings are the defaults
(`FreshInv`); the step that ends the search sets them and the ESR paths.  `TypeCorrect` needs the files to be sequences of lines and the
default paths to be names (`FileAssumption`, `NameAssumption`,
`ButtonAssumption`); its point is that no line of a file can put anything but a
path into a pointer or an item twice into the menu.  `RunsAsConfigured`
(`BootsAsConfigured`) follows one boot while nothing is swapped (`RunInv`): until
a button is chosen every pointer is what the file, or for lack of one the
default, says of it (`Offered`), and then the paths passed over could not be run
while those to come are still what they were (`Tried`).

`ConfiguratorProofs` (any buttons, items, files, folders and memory):
`SettingsImplemented` and `LeakBounded`.  The refinement needs that every block,
free or not, holds settings, and that the block of an editor that browses is
allocated, so that a driver is not loaded over it; `Settings` would not allow
that.  `LeakBounded` counts the blocks that the way out of the open editors will
still free (`Owed`), which is fewer than the editors once a visit has left
`fmcb` on a free block.  `TypeCorrect` says that every block, freed, reused or
loaded over, holds settings, and every file lines that can be read (`DataInv`).
`CursorStays` (`CursorShown`) and `ListsInOrder` (`ListInOrder`) are about the
browser and any folders.  Filter, partition and quicksort are recursive
functions: that the sort is defined, permutes and orders is shown by recursion
over the length of the list (`SortIsDefined`, `SortedInOrder`), from what one
partition does (`PartitionScans`, `Halves`); that the clamps leave the selected
line on a page as full as it can be is `ClampShows`.  `NoRowOutOfReach`
(`RowsReachable`) goes through the four jump tables: down from any row the cursor
comes to row 0 in 14 moves (`ToTop`), and from there, up over the groups and right
or down in them, to any row in ten (`FromTop`); no table leads off the grid
(`MovesAre`).

`Recursion` has the lemmas on which the proofs about recursive functions and
folds rest.  The theorems of the library take an operator as a parameter, which
none of the provers can instantiate; here recursion over a measure is about sets
and functions instead (`NoFirstFailure`: what fails nowhere for the first time
never fails; `CountsUp`: what passes from each number to the next; `RecursiveFunction`:
a function that is given at each argument by its values at smaller ones exists).
From them follows what the sum is that `MapThenSumSet` folds: `TotalIs` and
`TotalUnion`, an element or a disjoint part more; `TotalMonotone`, `TotalPart`,
`TotalCover`, `TotalCount` and the others are what the space bound needs of it.

What stays with TLC: liveness (`CallEnds`, `JobEnds`, `CallReturns`, `CardFound`,
`BootEnds`), which is out of TLAPS's reach.  Every invariant and action property
that a passing run checks is a theorem, some of them for the constants their
theorem names.

## 6. Not modelled, and why

- FAT and ECC pages of the patched blocks are carried along unchanged, their
  computation is not modelled.
- `mcid.c`, `mcsio2` and `launcher2/init`: straight-line exchanges with the
  Mechacon.  The repository has one side of them; a model would check its own
  guess of the other.  Their success or failure is `Prepare` of `Install` and the
  steps of `Work` of `Session`.
- `embed.c`, `build_osd.c`, `osdname.c`: functions from buffers to buffers with
  no branching but on the contents, among them a decompressor.  Their buffers and
  outcomes are in `Session`, the name they find is the console of `Install`.
- The patches of the OSDSYS image in the loader (search and replacement of
  machine code), the pad's protocol, drawing, the ELF loaders, `launcher1`,
  sound: I/O, or steps that copy and jump.
- In the configurator: the colours, the on-screen keyboard, the file manager,
  whose operations are commented out, and the files under `notused`.
- Fonts, icons and images.  More than 41,000 of the lines of the implementation
  are the pixels of three pictures (`_splash.h`, `splash.h`, `loading.h`), which
  bounds from above what share of the lines any model can stand for.

## 7. Findings

Each is a run of expectation `violation`; `PROJECT.json` quotes the lines.

- `Install_window`: power lost between patch and record; the next installation
  deletes and replaces linked dummies, frees the clusters of what it writes, and
  reports success.
- `Session_space`: the OSD of another console is subtracted from the space
  needed, though it stays; the check passes and the card fills up.
- `Config_reload`: the third path of a button is written to the file if the
  second one is set, so that it is lost if that is empty.

Read in the code and in the model, without a run of their own:

- the -1 of "no uninstall file" is true in C, so that `osdmain.elf`, possibly
  another console's, is deleted by any installation (src/main.c:1526);
- a No to one configuration file is remembered for other cards (src/main.c:2269);
- files written only if absent stay torn after a retry (src/main.c:1618), and the
  copy loops pass over a file that cannot be opened (src/main.c:1978);
- the -1 of a call that did not reach the module is taken for success
  (src/main.c:2156);
- neither a failing bind nor tries running out keep the installer from its menu
  (src/mcsp_rpc.c:124).

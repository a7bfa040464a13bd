------------------------------ MODULE McspPatch ------------------------------
(***************************************************************************)
(* The worker threads MC_Dummies_Patch_Thread and MC_Dummies_UnPatch_Thread *)
(* of modules/mcsp/mcsp.c, which relink directory entries of a memory card *)
(* by rewriting its flash behind the back of the file system.              *)
(*                                                                         *)
(* A PS2 directory entry fills a page.  Flash is erased by the block and   *)
(* written by the page, so a thread scans the card for the wanted entries, *)
(* lists the blocks they are in, and then takes each block into a buffer,  *)
(* erases it and writes it back with the entries changed.  Between the     *)
(* erase and the last write the buffer is the only copy of the block.      *)
(*                                                                         *)
(* The two threads differ in which entries they match, what they put       *)
(* there, and in patch remembering what it replaced.  A page is kept as    *)
(* its name, its attribute word and its <<size, entry_cluster>> (link).    *)
(* Page numbers are kept as block and offset, and of Packet->file_entry[]  *)
(* .page only the block, which is all that the threads use of it.          *)
(***************************************************************************)
EXTENDS Integers, Sequences, FiniteSets

CONSTANTS
  NumBlocks,      \* blocks = cardsize / blocksize
  BlockSize,      \* blocksize, pages in a block: 16 on every PS2 card
  SysPages,       \* pages that are never written: 16 in the code
  Names,          \* names a page can have
  NoName,         \* the "name" of a page that is no directory entry
  Links,          \* values of <<size, entry_cluster>>
  OsdLink,        \* <<filesize, linking_cluster>> of the request
  Unset,          \* what an uninitialised save_entry_* holds
  Req,            \* names asked for, in order: Packet->file_entry[].name
  Junk,           \* page / blocksize of an uninitialised .page field
  BackupBlocks,   \* where the file system puts a block it is rewriting: the last
  Layouts         \* contents the card may have when the first call is made

NumEntries == Len(Req)
Entries == 1 .. NumEntries
Blocks  == 0 .. NumBlocks - 1
Offsets == 0 .. BlockSize - 1

(* attr is "file" for 0x8497, "linked" for 0x8417 and "other" for the rest *)
Content == [name : Names, attr : {"file", "linked", "other", "erased"},
            link : Links \cup {Unset}]

Erased == [name |-> NoName, attr |-> "erased", link |-> Unset]

ASSUME SizeAssumption ==
  /\ NumBlocks \in Nat \ {0}
  /\ BlockSize \in Nat \ {0}
  /\ SysPages = BlockSize

ASSUME DataAssumption ==
  /\ NoName \in Names
  /\ OsdLink \in Links
  /\ Unset \notin Links
  /\ Req \in Seq(Names \ {NoName})
  /\ Req # <<>>
  /\ \A c, d \in Entries : Req[c] = Req[d] => c = d
  /\ Junk \subseteq Int
  /\ Layouts \subseteq [Blocks -> [Offsets -> Content]]

ASSUME BackupAssumption ==
  /\ BackupBlocks \subseteq Blocks
  /\ \A a \in BackupBlocks, b \in Blocks \ BackupBlocks : b < a

VARIABLES
  flash,          \* flash[b][o]: the card
  pc,             \* where the current call is
  op,             \* "patch" or "unpatch"
  where,          \* where[c]: block of file_entry[c].page
  found,          \* found
  i,              \* loop counter: the block scanned, or the entry collected
  eraseblocks,    \* eraseblocks[0 .. j-1]
  z,              \* next page of the current block to write back
  buffer,         \* blockbuffer
  saved,          \* save_entry_size, save_entry_cluster
  ret,            \* Packet->ret
  record,         \* the uninstall entries the EE holds: <<>> when it has none
  orig,           \* history: the card when patch was called
  torn            \* history: blocks that a fault left half written

threadvars == <<where, found, i, eraseblocks, z, buffer, saved>>
vars == <<flash, pc, op, threadvars, ret, record, orig, torn>>

EmptyBuffer == [o \in Offsets |-> Erased]

Init ==
  /\ flash \in Layouts
  /\ orig = flash
  /\ pc = "idle"
  /\ op = "patch"
  /\ where = [c \in Entries |-> 0]
  /\ found = 0
  /\ i = 0
  /\ eraseblocks = <<>>
  /\ z = 0
  /\ buffer = EmptyBuffer
  /\ saved = [c \in Entries |-> Unset]
  /\ ret = 0
  /\ record = <<>>
  /\ torn = {}

------------------------------------------------------------------------------
(* Matching and rewriting one directory entry                              *)

Matches(e, c) ==
  /\ e.name = Req[c]
  /\ IF op = "patch" THEN e.attr = "file"
                     ELSE e.attr = "linked" /\ e.link = OsdLink

Hits(e) == {c \in Entries : Matches(e, c)}

FirstHit(e) == CHOOSE c \in Hits(e) : \A d \in Hits(e) : c <= d

(* Faulty variants, here and below, are named <definition>_<what is wrong>. *)
Rewritten_LinkOnly(e) ==           \* the attribute word is left alone
  IF Hits(e) = {} THEN e
  ELSE [e EXCEPT !.link = IF op = "patch" THEN OsdLink ELSE record[FirstHit(e)]]

Rewritten_LastRecord(e) ==         \* restores what was saved last
  IF Hits(e) = {} THEN e
  ELSE IF op = "patch"
       THEN [e EXCEPT !.attr = "linked", !.link = OsdLink]
       ELSE [e EXCEPT !.attr = "file", !.link = record[NumEntries]]

Rewritten(e) ==
  IF Hits(e) = {} THEN e
  ELSE IF op = "patch"
       THEN [e EXCEPT !.attr = "linked", !.link = OsdLink]
       ELSE LET l == record[FirstHit(e)]
            IN  [e EXCEPT !.attr = IF l = Unset THEN "other" ELSE "file",
                          !.link = l]

PageNo(b, o) == b * BlockSize + o

Cur == Head(eraseblocks)     \* eraseblocks[i]: the block being rewritten

------------------------------------------------------------------------------
(* The calls of the EE                                                     *)

StartThread ==
  /\ ret' = 0
  /\ pc' = "scan"
  /\ found' = 0
  /\ i' = 0
  /\ where' \in [Entries -> Junk]     \* .page is not initialised
  /\ saved' = [c \in Entries |-> Unset]
  /\ eraseblocks' = <<>>
  /\ UNCHANGED <<flash, z, buffer, torn>>

CallPatch ==
  /\ pc = "idle" /\ record = <<>>
  /\ op' = "patch"
  /\ orig' = flash
  /\ StartThread
  /\ UNCHANGED record

CallUnPatch ==
  /\ pc = "idle" /\ record # <<>>
  /\ op' = "unpatch"
  /\ StartThread
  /\ UNCHANGED <<record, orig>>

(* The reply of a call that returned 1: what patch saved is kept by the EE *)
(* (in uninstall.dat), and dropped once unpatch has used it.               *)
Reply ==
  /\ pc = "done"
  /\ pc' = "idle"
  /\ record' = IF op = "patch" THEN saved ELSE <<>>
  /\ UNCHANGED <<flash, op, threadvars, ret, orig, torn>>

------------------------------------------------------------------------------
(* Scanning: the pages of a block, then the test whether all were found    *)

HitOffsets(b) == {o \in Offsets : Hits(flash[b][o]) # {}}

ScanBlock ==
  LET hits == {FirstHit(flash[i][o]) : o \in HitOffsets(i)} IN
  /\ pc = "scan"
  /\ i \in Blocks
  /\ where' = [c \in Entries |-> IF c \in hits THEN i ELSE where[c]]
  /\ found' = found + Cardinality(HitOffsets(i))
  /\ \/ /\ found' = NumEntries
        /\ pc' = "collect" /\ i' = 1
     \/ /\ found' # NumEntries
        /\ i' = i + 1
        /\ UNCHANGED pc
  /\ UNCHANGED <<flash, op, eraseblocks, z, buffer, saved, ret, record, orig, torn>>

EndOfScan ==
  /\ pc = "scan"
  /\ i \notin Blocks
  /\ pc' = "collect" /\ i' = 1
  /\ UNCHANGED <<flash, op, where, found, eraseblocks, z, buffer, saved, ret,
                 record, orig, torn>>

CollectBlock_Ascending ==          \* takes the blocks to come in order
  /\ pc = "collect"
  /\ i \in Entries
  /\ i' = i + 1
  /\ eraseblocks' =
       IF eraseblocks # <<>> /\ eraseblocks[Len(eraseblocks)] >= where[i]
       THEN eraseblocks
       ELSE Append(eraseblocks, where[i])
  /\ UNCHANGED <<flash, pc, op, where, found, z, buffer, saved, ret, record, orig, torn>>

CollectBlock_NoAdvance ==          \* a duplicate does not advance the loop
  /\ pc = "collect"
  /\ i \in Entries
  /\ IF eraseblocks # <<>> /\ eraseblocks[Len(eraseblocks)] = where[i]
     THEN UNCHANGED <<i, eraseblocks>>
     ELSE /\ i' = i + 1
          /\ eraseblocks' = Append(eraseblocks, where[i])
  /\ UNCHANGED <<flash, pc, op, where, found, z, buffer, saved, ret, record, orig, torn>>

(* Listing the blocks: only adjacent duplicates are left out               *)
CollectBlock ==
  /\ pc = "collect"
  /\ i \in Entries
  /\ i' = i + 1
  /\ eraseblocks' =
       IF eraseblocks # <<>> /\ eraseblocks[Len(eraseblocks)] = where[i]
       THEN eraseblocks
       ELSE Append(eraseblocks, where[i])
  /\ UNCHANGED <<flash, pc, op, where, found, z, buffer, saved, ret, record, orig, torn>>

EndOfCollect ==
  /\ pc = "collect"
  /\ i \notin Entries
  /\ pc' = "read"
  /\ UNCHANGED <<flash, op, threadvars, ret, record, orig, torn>>

------------------------------------------------------------------------------
(* Rewriting a block                                                       *)

ReadBlock_Once ==                  \* keeps the first block in the buffer
  /\ pc = "read"
  /\ eraseblocks # <<>>
  /\ Cur \in Blocks
  /\ buffer' = IF buffer = EmptyBuffer THEN flash[Cur] ELSE buffer
  /\ pc' = "erase"
  /\ UNCHANGED <<flash, op, where, found, i, eraseblocks, z, saved, ret, record, orig, torn>>

ReadBlock ==
  /\ pc = "read"
  /\ eraseblocks # <<>>
  /\ Cur \in Blocks
  /\ buffer' = flash[Cur]
  /\ pc' = "erase"
  /\ UNCHANGED <<flash, op, where, found, i, eraseblocks, z, saved, ret, record, orig, torn>>

EraseBlock_Unguarded ==            \* erases the superblock like any other
  /\ pc = "erase"
  /\ flash' = [flash EXCEPT ![Cur] = EmptyBuffer]
  /\ z' = 0
  /\ pc' = "write"
  /\ UNCHANGED <<op, where, found, i, eraseblocks, buffer, saved, ret, record, orig, torn>>

EraseBlock ==
  /\ pc = "erase"
  /\ flash' = IF Cur # 0 THEN [flash EXCEPT ![Cur] = EmptyBuffer] ELSE flash
  /\ z' = 0
  /\ pc' = "write"
  /\ UNCHANGED <<op, where, found, i, eraseblocks, buffer, saved, ret, record, orig, torn>>

(* One turn of the last loop: change the entry in the buffer, write it     *)
WritePage ==
  LET e == buffer[z] IN
  /\ pc = "write"
  /\ buffer' = [buffer EXCEPT ![z] = Rewritten(e)]
  /\ saved' = IF op = "patch" /\ Hits(e) # {}
              THEN [saved EXCEPT ![FirstHit(e)] = e.link]
              ELSE saved
  /\ flash' = IF PageNo(Cur, z) >= SysPages
              THEN [flash EXCEPT ![Cur][z] = Rewritten(e)]
              ELSE flash
  /\ \/ /\ z + 1 \in Offsets
        /\ z' = z + 1
        /\ UNCHANGED <<pc, eraseblocks>>
     \/ /\ z + 1 \notin Offsets
        /\ pc' = "read"
        /\ eraseblocks' = Tail(eraseblocks)
        /\ UNCHANGED z
  /\ UNCHANGED <<op, where, found, i, ret, record, orig, torn>>

Finish_Count ==                    \* returns how many were found
  /\ pc = "read"
  /\ eraseblocks = <<>>
  /\ ret' = found
  /\ pc' = "done"
  /\ UNCHANGED <<flash, op, threadvars, record, orig, torn>>

Finish ==
  /\ pc = "read"
  /\ eraseblocks = <<>>
  /\ ret' = 1
  /\ pc' = "done"
  /\ UNCHANGED <<flash, op, threadvars, record, orig, torn>>

------------------------------------------------------------------------------
(* Faults.  Every "goto end" leaves ret at 0 and drops the buffer.         *)

Stop(where_to) ==
  /\ pc' = where_to
  /\ UNCHANGED <<op, threadvars, ret, record, orig>>

ReadFails ==
  /\ pc \in {"scan", "read"}
  /\ pc = "scan" => i \in Blocks
  /\ pc = "read" => eraseblocks # <<>>
  /\ Stop("failed")
  /\ UNCHANGED <<flash, torn>>

EraseFails ==     \* the block may be as it was, or erased
  /\ pc = "erase"
  /\ Cur # 0
  /\ Stop("failed")
  /\ torn' = {Cur}
  /\ flash' \in {flash, [flash EXCEPT ![Cur] = EmptyBuffer]}

WriteFails_Ignored ==              \* goes on with the next block
  /\ pc = "write"
  /\ PageNo(Cur, z) >= SysPages
  /\ pc' = "read"
  /\ eraseblocks' = Tail(eraseblocks)
  /\ torn' = torn \cup {Cur}
  /\ UNCHANGED <<flash, op, where, found, i, z, buffer, saved, ret, record, orig>>

WriteFails ==     \* the page stays erased
  /\ pc = "write"
  /\ PageNo(Cur, z) >= SysPages
  /\ Stop("failed")
  /\ torn' = {Cur}
  /\ UNCHANGED flash

PowerOff ==       \* or the card is pulled out
  /\ pc \notin {"failed", "off"}
  /\ Stop("off")
  /\ torn' = IF pc = "write" /\ Cur # 0 THEN {Cur} ELSE torn
  /\ UNCHANGED flash

------------------------------------------------------------------------------
ThreadStep == \/ ScanBlock \/ EndOfScan \/ CollectBlock \/ EndOfCollect
              \/ ReadBlock \/ EraseBlock \/ WritePage \/ Finish

Fault == ReadFails \/ EraseFails \/ WriteFails \/ PowerOff

Next == CallPatch \/ CallUnPatch \/ Reply \/ ThreadStep \/ Fault

Spec == Init /\ [][Next]_vars

(* The thread has no wait in it, so it runs on; the scan of an absent page *)
(* and every other error is the way out of ReadBlock.                      *)
FairSpec == Spec /\ WF_vars(ThreadStep \/ ReadFails)

------------------------------------------------------------------------------
(* Properties                                                              *)

TypeOK ==
  /\ flash \in [Blocks -> [Offsets -> Content]]
  /\ orig \in [Blocks -> [Offsets -> Content]]
  /\ pc \in {"idle", "scan", "collect", "read", "erase", "write", "done",
             "failed", "off"}
  /\ op \in {"patch", "unpatch"}
  /\ where \in [Entries -> Int]
  /\ found \in Nat
  /\ i \in Nat
  /\ eraseblocks \in Seq(Int)
  /\ z \in Offsets
  /\ buffer \in [Offsets -> Content]
  /\ saved \in [Entries -> Links \cup {Unset}]
  /\ ret \in {0, 1}
  /\ record = <<>> \/ record \in [Entries -> Links \cup {Unset}]
  /\ torn \in SUBSET Blocks

(* A page that is in the buffer and not, or no longer, on the card         *)
Held(b, o) ==
  /\ pc = "write"
  /\ b = Cur
  /\ b # 0
  /\ o >= z

(* The card as it will be read back once the block in hand is written.     *)
Logical ==
  [b \in Blocks |-> [o \in Offsets |-> IF Held(b, o) THEN buffer[o]
                                                     ELSE flash[b][o]]]

Abs == INSTANCE DirRelink WITH
         dir <- Logical,
         Wanted <- {Req[c] : c \in Entries}

(* The patcher implements DirRelink: nothing but relinking of one wanted   *)
(* entry at a time can be seen on the card, and a fault costs no more than *)
(* the block in hand (mcsp.c:583-635 and 934-978).                         *)
Relinks == Abs!Spec

(* Whatever is called and however it ends, the pages below SysPages, the   *)
(* superblock of the card, keep their contents (mcsp.c:597, 627).          *)
SystemAreaIntact == flash[0] = orig[0]

(* A page of a block that no fault has torn is what it was when patch was  *)
(* called or that same entry relinked; the rest of the buffer's contents   *)
(* always gets back to the card.                                           *)
SamePage(e, e0) ==
  \/ e = e0
  \/ /\ e.name = e0.name
     /\ e0.attr \in {"file", "linked"}
     /\ \E c \in Entries : e0.name = Req[c]

NothingLost ==
  \A b \in Blocks \ torn, o \in Offsets : SamePage(Logical[b][o], orig[b][o])

(* The directory entry asked for as Req[c] is this page of the card.       *)
IsHome(card, b, o, c) ==
  /\ b \in Blocks \ BackupBlocks
  /\ card[b][o].name = Req[c]
  /\ card[b][o].attr = "file"

(* A card as Install_Hack leaves it for the patch (main.c:2088-2139): each *)
(* name asked for is one file in the directory, and none of them is linked *)
(* to the OSD.  The backup blocks may hold anything.                       *)
Prepared(card) ==
  /\ \A c \in Entries : \E b \in Blocks \ {0}, o \in Offsets :
       IsHome(card, b, o, c) /\ card[b][o].link \in Links
  /\ \A c \in Entries, a, b \in Blocks, o, p \in Offsets :
       IsHome(card, a, o, c) /\ IsHome(card, b, p, c) => a = b /\ o = p
  /\ \A b \in Blocks \ BackupBlocks, o \in Offsets, c \in Entries :
       LET e == card[b][o]
       IN  ~(e.name = Req[c] /\ e.attr = "linked" /\ e.link = OsdLink)

(* Reply 1 to a patch means that every wanted entry of the directory, that *)
(* is outside BackupBlocks, points at the OSD file, and that what saved    *)
(* holds for it is what it pointed at before (mcsp.c:613-615, 641-650).    *)
PatchComplete ==
  (pc = "done" /\ op = "patch") =>
    \A b \in Blocks, o \in Offsets, c \in Entries :
      IsHome(orig, b, o, c) =>
        /\ flash[b][o] = [orig[b][o] EXCEPT !.attr = "linked", !.link = OsdLink]
        /\ saved[c] = orig[b][o].link

(* Reply 1 to an unpatch that was given what the patch returned means that *)
(* the card is, page for page, what it was before the patch.               *)
RoundTrip == (pc = "done" /\ op = "unpatch") => flash = orig

(* A fault tears at most one block, and a call that returns 1 tore none.   *)
OneBlockTorn ==
  /\ \A b, c \in torn : b = c
  /\ pc = "done" => torn = {}

(* Every call comes to an end.                                             *)
CallEnds == pc = "scan" ~> pc \in {"done", "failed", "off"}
==============================================================================

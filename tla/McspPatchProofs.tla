--------------------------- MODULE McspPatchProofs ---------------------------
(***************************************************************************)
(* For a card of any size, any list of dummies and any contents: the       *)
(* patcher of McspPatch keeps its types, implements DirRelink, leaves the  *)
(* superblock alone and loses no page outside a block torn by a fault.     *)
(* On cards that are Prepared, a patch that returns 1 is complete and an   *)
(* unpatch undoes it: the scan stops at the last of the wanted entries, so *)
(* that each has one place (HB, HO), and every page on the way is as the   *)
(* call found it or as it will leave it (Orderly).                         *)
(***************************************************************************)
EXTENDS McspPatch, FiniteSetTheorems, TLAPS

Running == {"scan", "collect", "read", "erase", "write", "done"}

(* What ties the buffer to the card while a block is being rewritten.      *)
Rewriting ==
  /\ pc \in {"erase", "write"} => eraseblocks # <<>> /\ Cur \in Blocks
  /\ pc = "erase" => buffer = flash[Cur]
  /\ (pc = "write" /\ Cur # 0) =>
        \A o \in Offsets : o >= z => flash[Cur][o] = Erased
  /\ (pc \in Running /\ op = "unpatch") => record # <<>>
  /\ torn # {} => pc \in {"failed", "off"}

IInv == TypeOK /\ Rewriting

------------------------------------------------------------------------------
(* The operators                                                           *)

LEMMA ConstantsOK ==
  /\ Erased \in Content
  /\ EmptyBuffer \in [Offsets -> Content]
  /\ 0 \in Blocks
  /\ 0 \in Offsets
  /\ NumEntries \in Nat
  /\ Entries \subseteq Nat
  /\ Offsets \subseteq Nat
  /\ Blocks \subseteq Nat
BY SizeAssumption, DataAssumption
   DEF Erased, Content, EmptyBuffer, Blocks, Offsets, NumEntries, Entries

(* The names asked for are distinct, so an entry has one hit at most.      *)
LEMMA HitIsUnique ==
  ASSUME NEW e, Hits(e) # {}
  PROVE  FirstHit(e) \in Hits(e)
<1>1. PICK c \in Entries : Matches(e, c)
  BY DEF Hits
<1>2. \A d \in Hits(e) : d = c
  BY <1>1, DataAssumption DEF Hits, Matches
<1>3. c \in Hits(e)
  BY <1>1 DEF Hits
<1>4. \A d \in Hits(e) : c <= d
  <2>1. c \in Nat
    BY <1>1, ConstantsOK
  <2> QED
    BY <1>2, <2>1
<1> QED
  BY <1>3, <1>4 DEF FirstHit

(* Only pages of block 0 lie below SysPages.                               *)
LEMMA SystemPages ==
  ASSUME NEW b \in Blocks, NEW o \in Offsets
  PROVE  PageNo(b, o) >= SysPages <=> b # 0
<1>1. b \in Nat /\ o \in Nat /\ BlockSize \in Nat /\ o < BlockSize
  BY SizeAssumption DEF Blocks, Offsets
<1>2. CASE b = 0
  BY <1>1, <1>2, SizeAssumption DEF PageNo
<1>3. CASE b # 0
  <2>1. b * BlockSize >= BlockSize
    BY <1>1, <1>3
  <2> QED
    BY <2>1, <1>1, <1>3, SizeAssumption DEF PageNo
<1> QED
  BY <1>2, <1>3

(* Rewriting leaves an entry alone, links it, or points it back.           *)
LinkedEntry(e) == [e EXCEPT !.attr = "linked", !.link = OsdLink]
FileEntry(e, l) ==
  [e EXCEPT !.attr = IF l = Unset THEN "other" ELSE "file", !.link = l]

LEMMA RewrittenCases ==
  ASSUME NEW e \in Content, op \in {"patch", "unpatch"},
         op = "unpatch" => record \in [Entries -> Links \cup {Unset}]
  PROVE  /\ Rewritten(e) \in Content
         /\ \/ Rewritten(e) = e
            \/ /\ \E c \in Entries : e.name = Req[c]
               /\ e.attr = "file"
               /\ Rewritten(e) = LinkedEntry(e)
            \/ /\ \E c \in Entries : e.name = Req[c]
               /\ e.attr = "linked" /\ e.link = OsdLink
               /\ \E l \in Links \cup {Unset} : Rewritten(e) = FileEntry(e, l)
<1>1. CASE Hits(e) = {}
  BY <1>1 DEF Rewritten
<1>2. CASE Hits(e) # {} /\ op = "patch"
  <2>1. Rewritten(e) = LinkedEntry(e)
    BY <1>2 DEF Rewritten, LinkedEntry
  <2>2. LinkedEntry(e) \in Content
    BY DataAssumption DEF LinkedEntry, Content
  <2> QED
    BY <2>1, <2>2, <1>2 DEF Hits, Matches
<1>3. CASE Hits(e) # {} /\ op = "unpatch"
  <2>1. FirstHit(e) \in Entries
    BY <1>3, HitIsUnique DEF Hits
  <2>2. record[FirstHit(e)] \in Links \cup {Unset}
    BY <1>3, <2>1
  <2>3. Rewritten(e) = FileEntry(e, record[FirstHit(e)])
    BY <1>3 DEF Rewritten, FileEntry
  <2>4. FileEntry(e, record[FirstHit(e)]) \in Content
    BY <2>2 DEF FileEntry, Content
  <2> QED
    BY <2>2, <2>3, <2>4, <1>3 DEF Hits, Matches
<1> QED
  BY <1>1, <1>2, <1>3

LEMMA HitCount ==
  ASSUME NEW b
  PROVE  Cardinality(HitOffsets(b)) \in Nat
<1>1. IsFiniteSet(Offsets)
  BY SizeAssumption, FS_Interval DEF Offsets
<1>2. IsFiniteSet(HitOffsets(b))
  BY <1>1, FS_Subset DEF HitOffsets
<1> QED
  BY <1>2, FS_CardinalityType

------------------------------------------------------------------------------
(* The strengthened type invariant is inductive                            *)

LEMMA InitInv == Init => IInv
<1> SUFFICES ASSUME Init PROVE IInv
  OBVIOUS
<1>1. TypeOK
  BY ConstantsOK, DataAssumption DEF Init, TypeOK
<1>2. Rewriting
  BY DEF Init, Rewriting, Running
<1> QED
  BY <1>1, <1>2 DEF IInv

LEMMA NextInv == IInv /\ [Next]_vars => IInv'
<1> SUFFICES ASSUME IInv, [Next]_vars PROVE IInv'
  OBVIOUS
<1> USE ConstantsOK DEF IInv, TypeOK, Rewriting, Running
<1>0. StartThread => where' \in [Entries -> Int]
  <2>1. Junk \subseteq Int
    BY DataAssumption
  <2> QED
    BY <2>1 DEF StartThread
<1>1. CASE CallPatch
  <2>1. StartThread /\ pc = "idle" /\ op' = "patch" /\ orig' = flash /\ record' = record
    BY <1>1 DEF CallPatch
  <2>2. where' \in [Entries -> Int]
    BY <2>1, <1>0
  <2>3. TypeOK'
    BY <2>1, <2>2 DEF StartThread
  <2> QED
    BY <2>1, <2>3 DEF StartThread
<1>2. CASE CallUnPatch
  <2>1. /\ StartThread /\ pc = "idle" /\ op' = "unpatch" /\ orig' = orig
        /\ record' = record /\ record # <<>>
    BY <1>2 DEF CallUnPatch
  <2>2. where' \in [Entries -> Int]
    BY <2>1, <1>0
  <2>3. TypeOK'
    BY <2>1, <2>2 DEF StartThread
  <2> QED
    BY <2>1, <2>3 DEF StartThread
<1>3. CASE Reply
  BY <1>3 DEF Reply, threadvars
<1>4. CASE ScanBlock
  BY <1>4, HitCount DEF ScanBlock
<1>5. CASE EndOfScan
  BY <1>5 DEF EndOfScan
<1>6. CASE CollectBlock
  BY <1>6 DEF CollectBlock
<1>7. CASE EndOfCollect
  BY <1>7 DEF EndOfCollect, threadvars
<1>8. CASE ReadBlock
  BY <1>8 DEF ReadBlock, Cur
<1>9. CASE EraseBlock
  BY <1>9 DEF EraseBlock, Cur, EmptyBuffer
<1>10. CASE WritePage
  <2> DEFINE e == buffer[z]
  <2>1. e \in Content /\ Cur \in Blocks /\ eraseblocks # <<>> /\ pc = "write"
    BY <1>10 DEF WritePage
  <2>2. Rewritten(e) \in Content
    BY <2>1, RewrittenCases
  <2>3. /\ buffer' \in [Offsets -> Content]
        /\ flash' \in [Blocks -> [Offsets -> Content]]
    BY <1>10, <2>1, <2>2 DEF WritePage
  <2>4. saved' \in [Entries -> Links \cup {Unset}]
    BY <1>10, <2>1 DEF WritePage, Content
  <2>5. /\ eraseblocks' \in Seq(Int) /\ z' \in Offsets /\ pc' \in {"write", "read"}
        /\ pc' = "write" => eraseblocks' = eraseblocks /\ z' = z + 1
        /\ UNCHANGED <<op, where, found, i, ret, record, orig, torn>>
    <3>1. CASE z + 1 \in Offsets
      <4>1. /\ z' = z + 1 /\ pc' = pc /\ eraseblocks' = eraseblocks
            /\ UNCHANGED <<op, where, found, i, ret, record, orig, torn>>
        BY <1>10, <3>1 DEF WritePage
      <4> QED
        BY <4>1, <2>1, <3>1
    <3>2. CASE z + 1 \notin Offsets
      <4>1. /\ z' = z /\ pc' = "read" /\ eraseblocks' = Tail(eraseblocks)
            /\ UNCHANGED <<op, where, found, i, ret, record, orig, torn>>
        BY <1>10, <3>2 DEF WritePage
      <4>2. Tail(eraseblocks) \in Seq(Int)
        BY <2>1
      <4> QED
        BY <4>1, <4>2
    <3> QED
      BY <3>1, <3>2
  <2>6. TypeOK'
    BY <2>3, <2>4, <2>5
  <2>7. (pc' = "write" /\ Cur' # 0) =>
           \A o \in Offsets : o >= z' => flash'[Cur'][o] = Erased
    <3> SUFFICES ASSUME pc' = "write", Cur' # 0, NEW o \in Offsets, o >= z'
                 PROVE  flash'[Cur'][o] = Erased
      OBVIOUS
    <3>1. Cur' = Cur /\ o >= z + 1 /\ o # z /\ o >= z
      BY <2>5 DEF Cur
    <3>2. flash[Cur][o] = Erased
      BY <3>1, <2>1
    <3>3. flash'[Cur][o] = flash[Cur][o]
      BY <1>10, <2>1, <3>1 DEF WritePage
    <3> QED
      BY <3>1, <3>2, <3>3
  <2>8. Rewriting'
    BY <2>1, <2>5, <2>7 DEF Cur
  <2> QED
    BY <2>6, <2>8
<1>11. CASE Finish
  BY <1>11 DEF Finish, threadvars
<1>12. CASE Fault
  BY <1>12 DEF Fault, ReadFails, EraseFails, WriteFails, PowerOff, Stop, threadvars, Cur
<1>13. CASE UNCHANGED vars
  BY <1>13 DEF vars, threadvars, Cur
<1> QED
  BY <1>1, <1>2, <1>3, <1>4, <1>5, <1>6, <1>7, <1>8, <1>9, <1>10, <1>11, <1>12,
     <1>13 DEF Next, ThreadStep

(* The types of McspPatch are kept by every step.                          *)
THEOREM TypeCorrect == Spec => []TypeOK
<1>1. IInv => TypeOK
  BY DEF IInv
<1> QED
  BY InitInv, NextInv, <1>1, PTL DEF Spec

------------------------------------------------------------------------------
(* Steps of the patcher are steps of DirRelink                             *)

(* Except while a block other than 0 is being written back, the card reads *)
(* back as what is on its flash.                                           *)
LEMMA LogicalIsFlash ==
  ASSUME TypeOK, pc # "write" \/ Cur = 0
  PROVE  Logical = flash
BY DEF TypeOK, Logical, Held

LEMMA LogicalType == IInv => Logical \in [Blocks -> [Offsets -> Content]]
BY DEF IInv, TypeOK, Logical

(* Writing back one page shows as rewriting one entry.                     *)
LEMMA WriteIsRewrite ==
  ASSUME IInv, IInv', WritePage, Cur # 0
  PROVE  /\ Logical[Cur][z] = buffer[z]
         /\ Logical' = [Logical EXCEPT ![Cur][z] = Rewritten(buffer[z])]
<1> USE DEF IInv, TypeOK, Rewriting
<1> DEFINE e == buffer[z]
<1>1. pc = "write" /\ Cur \in Blocks /\ z \in Offsets /\ z \in Nat
  BY ConstantsOK DEF WritePage
<1>2. Logical[Cur][z] = e
  BY <1>1 DEF Logical, Held
<1>3. flash' = [flash EXCEPT ![Cur][z] = Rewritten(e)]
  BY <1>1, SystemPages DEF WritePage
<1>4. buffer' = [buffer EXCEPT ![z] = Rewritten(e)]
  BY DEF WritePage
<1>5. \A b \in Blocks, o \in Offsets :
         Logical'[b][o] = IF b = Cur /\ o = z THEN Rewritten(e) ELSE Logical[b][o]
  <2> SUFFICES ASSUME NEW b \in Blocks, NEW o \in Offsets
               PROVE  Logical'[b][o] = IF b = Cur /\ o = z THEN Rewritten(e)
                                                          ELSE Logical[b][o]
    OBVIOUS
  <2>1. Logical'[b][o] = IF Held(b, o)' THEN buffer'[o] ELSE flash'[b][o]
    BY DEF Logical
  <2>2. Logical[b][o] = IF Held(b, o) THEN buffer[o] ELSE flash[b][o]
    BY DEF Logical
  <2>3. o \in Nat
    BY ConstantsOK
  <2>4. Held(b, o)' <=> b = Cur /\ o > z
    <3>1. CASE z + 1 \in Offsets
      <4>1. z' = z + 1 /\ pc' = "write" /\ Cur' = Cur
        BY <1>1, <3>1 DEF WritePage, Cur
      <4> QED
        BY <4>1, <1>1, <2>3 DEF Held
    <3>2. CASE z + 1 \notin Offsets
      <4>1. pc' = "read"
        BY <3>2 DEF WritePage
      <4>2. ~(o > z)
        BY <3>2, <1>1, <2>3, SizeAssumption DEF Offsets
      <4> QED
        BY <4>1, <4>2 DEF Held
    <3> QED
      BY <3>1, <3>2
  <2>5. Held(b, o) <=> b = Cur /\ o >= z
    BY <1>1 DEF Held
  <2> QED
    BY <2>1, <2>2, <2>3, <2>4, <2>5, <1>1, <1>3, <1>4
<1>6. Logical \in [Blocks -> [Offsets -> Content]] /\ Logical' \in [Blocks -> [Offsets -> Content]]
  BY LogicalType, ConstantsOK DEF Logical
<1> DEFINE G == [Logical EXCEPT ![Cur][z] = Rewritten(e)]
<1>7. \A b \in Blocks : Logical'[b] = G[b]
  <2> SUFFICES ASSUME NEW b \in Blocks PROVE Logical'[b] = G[b]
    OBVIOUS
  <2>1. Logical[b] \in [Offsets -> Content] /\ Logical'[b] \in [Offsets -> Content]
    BY <1>6
  <2>2. CASE b = Cur
    <3>1. G[b] = [Logical[b] EXCEPT ![z] = Rewritten(e)]
      BY <1>1, <1>6, <2>2
    <3>2. \A o \in Offsets : Logical'[b][o] = G[b][o]
      BY <1>1, <1>5, <2>1, <2>2, <3>1
    <3>3. G[b] = [o \in Offsets |-> G[b][o]]
      BY <2>1, <3>1
    <3>4. Logical'[b] = [o \in Offsets |-> Logical'[b][o]]
      BY <2>1
    <3> QED
      BY <3>2, <3>3, <3>4
  <2>3. CASE b # Cur
    <3>1. G[b] = Logical[b]
      BY <1>1, <1>6, <2>3
    <3>2. \A o \in Offsets : Logical'[b][o] = Logical[b][o]
      BY <1>5, <2>3
    <3> QED
      BY <2>1, <3>1, <3>2
  <2> QED
    BY <2>2, <2>3
<1>8. Logical' = G
  <2>1. G = [b \in Blocks |-> G[b]] /\ Logical' = [b \in Blocks |-> Logical'[b]]
    BY <1>6
  <2> QED
    BY <1>7, <2>1
<1> QED
  BY <1>2, <1>8

(* What is in the buffer alone when a fault comes is lost, and no more.    *)
LEMMA FaultLosesBlock ==
  ASSUME IInv, pc = "write", Cur # 0, flash' = flash, pc' # "write", torn' = {Cur}
  PROVE  Abs!LoseBlock(Cur)
<1> USE DEF IInv, TypeOK, Rewriting
<1> DEFINE lost == {o \in Offsets : o >= z}
<1>1. Cur \in Blocks /\ torn = {}
  OBVIOUS
<1>2. Logical' = flash
  BY DEF Logical, Held
<1>3. \A b \in Blocks, o \in Offsets :
         flash[b][o] = IF b = Cur /\ o \in lost THEN Erased ELSE Logical[b][o]
  BY <1>1 DEF Logical, Held
<1>4. Logical \in [Blocks -> [Offsets -> Content]]
  BY LogicalType
<1>5. flash = [Logical EXCEPT ![Cur] = [o \in Offsets |->
                 IF o \in lost THEN Erased ELSE Logical[Cur][o]]]
  BY <1>1, <1>3, <1>4
<1> QED
  BY <1>1, <1>2, <1>5 DEF Abs!LoseBlock

(* The steps that cannot be seen on the card.                              *)
LEMMA SilentSteps ==
  ASSUME IInv, IInv',
         \/ CallPatch \/ CallUnPatch \/ Reply
         \/ ScanBlock \/ EndOfScan \/ CollectBlock \/ EndOfCollect \/ ReadBlock \/ EraseBlock
         \/ Finish \/ UNCHANGED vars
  PROVE  Logical' = Logical /\ torn' = torn
<1> USE DEF IInv
<1>1. CASE CallPatch \/ CallUnPatch \/ Reply
  <2>1. flash' = flash /\ torn' = torn /\ pc # "write" /\ pc' # "write"
    BY <1>1 DEF CallPatch, CallUnPatch, StartThread, Reply
  <2> QED
    BY <2>1, LogicalIsFlash DEF TypeOK, Logical, Held
<1>2. CASE ScanBlock \/ EndOfScan \/ CollectBlock \/ EndOfCollect \/ ReadBlock \/ Finish
  <2>1. flash' = flash /\ torn' = torn /\ pc # "write" /\ pc' # "write"
    BY <1>2 DEF ScanBlock, EndOfScan, CollectBlock, EndOfCollect, ReadBlock, Finish
  <2> QED
    BY <2>1 DEF TypeOK, Logical, Held
<1>3. CASE EraseBlock
  <2>1. /\ pc = "erase" /\ pc' = "write" /\ z' = 0 /\ torn' = torn /\ Cur' = Cur
        /\ buffer' = buffer /\ buffer = flash[Cur] /\ Cur \in Blocks
        /\ flash' = IF Cur # 0 THEN [flash EXCEPT ![Cur] = EmptyBuffer] ELSE flash
    BY <1>3 DEF EraseBlock, Rewriting, Cur
  <2>2. \A b \in Blocks, o \in Offsets : Logical'[b][o] = flash[b][o]
    <3> SUFFICES ASSUME NEW b \in Blocks, NEW o \in Offsets
                 PROVE  Logical'[b][o] = flash[b][o]
      OBVIOUS
    <3>1. Logical'[b][o] = IF Held(b, o)' THEN buffer'[o] ELSE flash'[b][o]
      BY DEF Logical
    <3>2. Held(b, o)' <=> b = Cur /\ b # 0
      BY <2>1, ConstantsOK DEF Held
    <3> QED
      BY <2>1, <3>1, <3>2 DEF TypeOK
  <2>3. Logical = flash
    BY <2>1, LogicalIsFlash
  <2>4. Logical' = Logical
    BY <2>2, <2>3 DEF Logical
  <2> QED
    BY <2>1, <2>4
<1>4. CASE UNCHANGED vars
  <2>1. flash' = flash /\ torn' = torn /\ pc' = pc /\ z' = z /\ buffer' = buffer /\ Cur' = Cur
    BY <1>4 DEF vars, threadvars, Cur
  <2> QED
    BY <2>1 DEF Logical, Held
<1> QED
  BY <1>1, <1>2, <1>3, <1>4

LEMMA StepSimulation ==
  ASSUME IInv, IInv', [Next]_vars
  PROVE  [Abs!Next]_<<Logical, torn>>
<1> USE DEF IInv
<1>1. CASE \/ CallPatch \/ CallUnPatch \/ Reply
           \/ ScanBlock \/ EndOfScan \/ CollectBlock \/ EndOfCollect \/ ReadBlock \/ EraseBlock
           \/ Finish \/ UNCHANGED vars
  BY <1>1, SilentSteps
<1>2. CASE WritePage /\ Cur = 0
  <2>1. /\ flash' = flash /\ torn' = torn
        /\ pc' # "write" \/ Cur' = 0
    BY <1>2, SystemPages DEF WritePage, Rewriting, TypeOK, Cur
  <2>2. Logical = flash
    BY <1>2, LogicalIsFlash
  <2>3. Logical' = flash'
    BY <2>1 DEF TypeOK, Logical, Held
  <2> QED
    BY <2>1, <2>2, <2>3
<1>3. CASE WritePage /\ Cur # 0
  <2> DEFINE e == buffer[z]
  <2>1. /\ pc = "write" /\ Cur \in Blocks \ {0} /\ z \in Offsets /\ e \in Content
        /\ op \in {"patch", "unpatch"}
        /\ op = "unpatch" => record \in [Entries -> Links \cup {Unset}]
    BY <1>3 DEF WritePage, Rewriting, TypeOK, Running
  <2>2. torn' = torn
    BY <1>3 DEF WritePage
  <2>3. /\ Logical[Cur][z] = e
        /\ Logical' = [Logical EXCEPT ![Cur][z] = Rewritten(e)]
    BY <1>3, WriteIsRewrite
  <2>4. Logical \in [Blocks -> [Offsets -> Content]]
    BY LogicalType
  <2>5. CASE Rewritten(e) = e
    BY <2>1, <2>2, <2>3, <2>4, <2>5
  <2>6. CASE /\ \E c \in Entries : e.name = Req[c]
             /\ e.attr = "file"
             /\ Rewritten(e) = LinkedEntry(e)
    <3>1. Abs!Link(Cur, z)
      BY <2>1, <2>2, <2>3, <2>4, <2>6 DEF Abs!Link, LinkedEntry
    <3> QED
      BY <3>1, <2>1 DEF Abs!Next
  <2>7. CASE /\ \E c \in Entries : e.name = Req[c]
             /\ e.attr = "linked" /\ e.link = OsdLink
             /\ \E l \in Links \cup {Unset} : Rewritten(e) = FileEntry(e, l)
    <3>1. PICK l \in Links \cup {Unset} : Rewritten(e) = FileEntry(e, l)
      BY <2>7
    <3>2. Abs!Unlink(Cur, z, l)
      <4> DEFINE a == IF l = Unset THEN "other" ELSE "file"
      <4>1. FileEntry(e, l) = [e EXCEPT !.attr = a, !.link = l]
        BY DEF FileEntry
      <4> HIDE DEF a
      <4>2. Logical' = [Logical EXCEPT ![Cur][z].attr = a, ![Cur][z].link = l]
        BY <2>1, <2>3, <2>4, <3>1, <4>1
      <4>3. Logical' = [Logical EXCEPT
                          ![Cur][z].attr = IF l = Unset THEN "other" ELSE "file",
                          ![Cur][z].link = l]
        BY <4>2 DEF a
      <4> QED
        BY <2>2, <2>3, <2>7, <4>3 DEF Abs!Unlink
    <3> QED
      BY <3>1, <3>2, <2>1 DEF Abs!Next
  <2> QED
    BY <2>1, <2>5, <2>6, <2>7, RewrittenCases
<1>4. CASE ReadFails
  <2>1. flash' = flash /\ torn' = torn /\ pc # "write" /\ pc' # "write"
    BY <1>4 DEF ReadFails, Stop
  <2> QED
    BY <2>1 DEF TypeOK, Logical, Held
<1>5. CASE EraseFails
  <2>1. /\ pc = "erase" /\ pc' = "failed" /\ Cur \in Blocks \ {0}
        /\ torn = {} /\ torn' = {Cur}
        /\ flash' \in {flash, [flash EXCEPT ![Cur] = EmptyBuffer]}
    BY <1>5 DEF EraseFails, Stop, Rewriting
  <2>2. Logical = flash /\ Logical' = flash'
    BY <2>1 DEF TypeOK, Logical, Held
  <2>3. PICK lost \in {{}, Offsets} :
           flash' = [flash EXCEPT ![Cur] =
                       [o \in Offsets |-> IF o \in lost THEN Erased ELSE flash[Cur][o]]]
    <3>1. CASE flash' = flash
      <4>1. flash[Cur] = [o \in Offsets |-> IF o \in {} THEN Erased ELSE flash[Cur][o]]
        BY <2>1 DEF TypeOK
      <4> QED
        BY <3>1, <4>1, <2>1 DEF TypeOK
    <3>2. CASE flash' = [flash EXCEPT ![Cur] = EmptyBuffer]
      <4>1. EmptyBuffer = [o \in Offsets |-> IF o \in Offsets THEN Erased ELSE flash[Cur][o]]
        BY DEF EmptyBuffer
      <4> QED
        BY <3>2, <4>1
    <3> QED
      BY <2>1, <3>1, <3>2
  <2>4. Abs!LoseBlock(Cur)
    BY <2>1, <2>2, <2>3 DEF Abs!LoseBlock
  <2> QED
    BY <2>1, <2>4 DEF Abs!Next
<1>6. CASE WriteFails \/ (PowerOff /\ pc = "write" /\ Cur # 0)
  <2>1. /\ pc = "write" /\ flash' = flash /\ pc' # "write" /\ torn' = {Cur}
        /\ Cur \in Blocks \ {0}
    BY <1>6, SystemPages DEF WriteFails, PowerOff, Stop, Rewriting, TypeOK
  <2>2. Abs!LoseBlock(Cur)
    BY <2>1, FaultLosesBlock
  <2> QED
    BY <2>1, <2>2 DEF Abs!Next
<1>7. CASE PowerOff /\ ~(pc = "write" /\ Cur # 0)
  <2>1. flash' = flash /\ torn' = torn /\ pc' # "write"
    BY <1>7 DEF PowerOff, Stop
  <2>2. Logical = flash
    BY <1>7, LogicalIsFlash
  <2>3. Logical' = flash'
    BY <2>1 DEF TypeOK, Logical, Held
  <2> QED
    BY <2>1, <2>2, <2>3
<1> QED
  BY <1>1, <1>2, <1>3, <1>4, <1>5, <1>6, <1>7
     DEF Next, ThreadStep, Fault

(* The patcher implements its abstract specification: what it does to the  *)
(* flash shows as relinking one wanted entry at a time, and a fault costs  *)
(* the block in hand and nothing else.                                     *)
THEOREM PatcherRelinks == Spec => Relinks
<1>1. Init => Abs!Init
  <2> SUFFICES ASSUME Init PROVE Abs!Init
    OBVIOUS
  <2>1. Logical = flash
    BY InitInv, LogicalIsFlash DEF IInv, Init
  <2> QED
    BY <2>1 DEF Init, Abs!Init
<1> QED
  BY <1>1, InitInv, NextInv, StepSimulation, PTL DEF Spec, Relinks, Abs!Spec, Abs!vars

------------------------------------------------------------------------------
(* No step changes block 0 of the flash                                    *)

LEMMA BlockZeroKept == IInv /\ [Next]_vars => flash'[0] = flash[0]
<1> SUFFICES ASSUME IInv, [Next]_vars PROVE flash'[0] = flash[0]
  OBVIOUS
<1> USE ConstantsOK DEF IInv, TypeOK, Rewriting
<1>1. CASE EraseBlock
  BY <1>1 DEF EraseBlock
<1>2. CASE WritePage
  BY <1>2, SystemPages DEF WritePage
<1>3. CASE EraseFails
  BY <1>3 DEF EraseFails
<1>4. CASE ~(EraseBlock \/ WritePage \/ EraseFails)
  <2>1. flash' = flash
    BY <1>4 DEF Next, ThreadStep, Fault, CallPatch, CallUnPatch, StartThread, Reply,
       ScanBlock, EndOfScan, CollectBlock, EndOfCollect, ReadBlock, Finish,
       ReadFails, WriteFails, PowerOff, vars
  <2> QED
    BY <2>1
<1> QED
  BY <1>1, <1>2, <1>3, <1>4

LEMMA OrigKept == [Next]_vars => \/ orig' = orig
                                 \/ orig' = flash /\ CallPatch
BY DEF Next, ThreadStep, Fault, CallPatch, CallUnPatch, StartThread, Reply,
       ScanBlock, EndOfScan, CollectBlock, EndOfCollect, ReadBlock, EraseBlock,
       WritePage, Finish, ReadFails, EraseFails, WriteFails, PowerOff, Stop, vars

(* The superblock of the card keeps its contents, in the middle of a call, *)
(* after a fault, and whatever the junk .page fields pointed at.           *)
THEOREM SystemAreaSafe == Spec => []SystemAreaIntact
<1>1. Init => SystemAreaIntact
  BY DEF Init, SystemAreaIntact
<1>2. IInv /\ SystemAreaIntact /\ [Next]_vars => SystemAreaIntact'
  <2> SUFFICES ASSUME IInv, SystemAreaIntact, [Next]_vars PROVE SystemAreaIntact'
    OBVIOUS
  <2>1. flash'[0] = flash[0]
    BY BlockZeroKept
  <2>2. CASE orig' = orig
    BY <2>1, <2>2 DEF SystemAreaIntact
  <2>3. CASE orig' = flash
    BY <2>1, <2>3 DEF SystemAreaIntact
  <2> QED
    BY <2>2, <2>3, OrigKept
<1> QED
  BY <1>1, <1>2, InitInv, NextInv, PTL DEF Spec

------------------------------------------------------------------------------
(* An untorn page only ever gets relinked                                  *)

(* What a step of DirRelink can do to one page.                            *)
LEMMA AbstractStepOnPage ==
  ASSUME NEW b \in Blocks, NEW o \in Offsets,
         Logical \in [Blocks -> [Offsets -> Content]],
         [Abs!Next]_<<Logical, torn>>
  PROVE  \/ Logical'[b][o] = Logical[b][o]
         \/ b \in torn'
         \/ /\ \E c \in Entries : Logical[b][o].name = Req[c]
            /\ Logical[b][o].attr \in {"file", "linked"}
            /\ Logical'[b][o].name = Logical[b][o].name
<1>1. CASE UNCHANGED <<Logical, torn>>
  BY <1>1
<1>2. CASE \E k \in Blocks \ {0} : Abs!LoseBlock(k)
  BY <1>2 DEF Abs!LoseBlock
<1>3. CASE \E k \in Blocks \ {0}, p \in Offsets : Abs!Link(k, p)
  BY <1>3 DEF Abs!Link, Content
<1>4. CASE \E k \in Blocks \ {0}, p \in Offsets, l \in Links \cup {Unset} :
             Abs!Unlink(k, p, l)
  BY <1>4 DEF Abs!Unlink, Content
<1> QED
  BY <1>1, <1>2, <1>3, <1>4 DEF Abs!Next

LEMMA TornGrows == IInv /\ [Next]_vars => torn \subseteq torn'
BY DEF IInv, Rewriting, Next, ThreadStep, Fault, CallPatch, CallUnPatch, StartThread,
       Reply, ScanBlock, EndOfScan, CollectBlock, EndOfCollect, ReadBlock,
       EraseBlock, WritePage, Finish, ReadFails, EraseFails, WriteFails, PowerOff,
       Stop, vars

(* Outside the block that a fault has torn no page is lost or altered,     *)
(* but for the entries asked for, and those keep their names.              *)
THEOREM NoPageLost == Spec => []NothingLost
<1>1. Init => NothingLost
  <2> SUFFICES ASSUME Init PROVE NothingLost
    OBVIOUS
  <2>1. Logical = flash
    BY InitInv, LogicalIsFlash DEF IInv, Init
  <2> QED
    BY <2>1 DEF Init, NothingLost, SamePage
<1>2. IInv /\ IInv' /\ NothingLost /\ [Next]_vars => NothingLost'
  <2> SUFFICES ASSUME IInv, IInv', NothingLost, [Next]_vars,
                      NEW b \in Blocks \ torn', NEW o \in Offsets
               PROVE  SamePage(Logical'[b][o], orig'[b][o])
    BY DEF NothingLost
  <2>1. Logical \in [Blocks -> [Offsets -> Content]]
    BY LogicalType
  <2>2. CASE orig' = flash /\ CallPatch
    <3>1. Logical' = flash /\ orig' = flash
      BY <2>2 DEF CallPatch, StartThread, Logical, Held, IInv, TypeOK
    <3> QED
      BY <3>1 DEF SamePage
  <2>3. CASE orig' = orig
    <3>1. SamePage(Logical[b][o], orig[b][o])
      BY TornGrows DEF NothingLost
    <3>2. [Abs!Next]_<<Logical, torn>>
      BY StepSimulation
    <3>3. \/ Logical'[b][o] = Logical[b][o]
          \/ /\ \E c \in Entries : Logical[b][o].name = Req[c]
             /\ Logical[b][o].attr \in {"file", "linked"}
             /\ Logical'[b][o].name = Logical[b][o].name
      BY <2>1, <3>2, AbstractStepOnPage
    <3> QED
      BY <2>3, <3>1, <3>3 DEF SamePage
  <2> QED
    BY <2>2, <2>3, OrigKept
<1> QED
  BY <1>1, <1>2, InitInv, NextInv, PTL DEF Spec

(* A fault tears one block at most, and a call that succeeds tore none.    *)
THEOREM TornOnce == Spec => []OneBlockTorn
<1>1. Init => OneBlockTorn
  BY DEF Init, OneBlockTorn
<1>2. IInv /\ IInv' /\ OneBlockTorn /\ [Next]_vars => OneBlockTorn'
  <2> SUFFICES ASSUME IInv, IInv', OneBlockTorn, [Next]_vars PROVE OneBlockTorn'
    OBVIOUS
  <2>1. torn' = torn \/ torn' = {Cur}
    BY DEF Next, ThreadStep, Fault, CallPatch, CallUnPatch, StartThread, Reply,
       ScanBlock, EndOfScan, CollectBlock, EndOfCollect, ReadBlock, EraseBlock,
       WritePage, Finish, ReadFails, EraseFails, WriteFails, PowerOff, Stop, vars
  <2>2. pc' = "done" => torn' = {}
    BY DEF IInv, Rewriting
  <2> QED
    BY <2>1, <2>2 DEF OneBlockTorn
<1> QED
  BY <1>1, <1>2, InitInv, NextInv, PTL DEF Spec

------------------------------------------------------------------------------
(* Calls on a card that is Prepared                                        *)

(* Where the entry asked for as Req[c] is, what it pointed at, and the card *)
(* with all of them linked; what a call starts from and leads to.          *)
HB(c) == CHOOSE b \in Blocks : \E o \in Offsets : IsHome(orig, b, o, c)
HO(c) == CHOOSE o \in Offsets : IsHome(orig, HB(c), o, c)
OrigLink(c) == orig[HB(c)][HO(c)].link
LinkedPage(b, o) == IF \E c \in Entries : IsHome(orig, b, o, c)
                    THEN LinkedEntry(orig[b][o]) ELSE orig[b][o]
LinkedCard == [b \in Blocks |-> [o \in Offsets |-> LinkedPage(b, o)]]
BeforeCall == IF op = "patch" THEN orig ELSE LinkedCard
AfterCall  == IF op = "patch" THEN LinkedCard ELSE orig

(* The record a call works from, the entries scanned, the blocks listed,   *)
(* and the pages rewritten so far.                                         *)
Given ==
  /\ pc = "idle" => flash = IF record = <<>> THEN orig ELSE LinkedCard
  /\ (pc = "idle" /\ record # <<>>) \/ (pc \in Running /\ op = "unpatch") =>
       \A c \in Entries : record[c] = OrigLink(c)
Below(n) == {c \in Entries : HB(c) < n}
Scanned ==
  /\ pc \in {"scan", "collect"} => flash = BeforeCall
  /\ pc = "scan" => /\ eraseblocks = <<>>
                    /\ \E c \in Entries : HB(c) >= i
                    /\ found = Cardinality(Below(i))
                    /\ \A c \in Below(i) : where[c] = HB(c)
Collected ==
  /\ pc = "collect" => /\ i >= 1
                       /\ \A c \in Entries : where[c] = HB(c)
                       /\ \A c \in Entries : c < i =>
                            \E k \in 1 .. Len(eraseblocks) : eraseblocks[k] = HB(c)
  /\ pc \in {"collect", "read", "erase", "write"} =>
       \A k \in 1 .. Len(eraseblocks) : \E c \in Entries : eraseblocks[k] = HB(c)
Pending(b, o) == \E k \in 1 .. Len(eraseblocks) :
                   eraseblocks[k] = b /\ (k = 1 /\ pc = "write" => o >= z)
Rewrites ==
  /\ pc \in {"read", "erase", "write", "done"} =>
       /\ \A b \in Blocks, o \in Offsets : Logical[b][o] \in {BeforeCall[b][o], AfterCall[b][o]}
       /\ \A c \in Entries : \/ Logical[HB(c)][HO(c)] = AfterCall[HB(c)][HO(c)]
                             \/ Pending(HB(c), HO(c))
       /\ op = "patch" => \A c \in Entries : \/ Logical[HB(c)][HO(c)] = orig[HB(c)][HO(c)]
                                             \/ saved[c] = OrigLink(c)
  /\ pc = "done" => eraseblocks = <<>>
Orderly == Given /\ Scanned /\ Collected /\ Rewrites
Faithful == Prepared(orig) /\ (pc \notin {"failed", "off"} => Orderly)

LEMMA HomeFacts ==
  ASSUME Prepared(orig), NEW c \in Entries
  PROVE  /\ HB(c) \in Blocks /\ HB(c) # 0 /\ HB(c) \notin BackupBlocks /\ HO(c) \in Offsets
         /\ IsHome(orig, HB(c), HO(c), c)
         /\ OrigLink(c) \in Links
         /\ \A b \in Blocks, o \in Offsets : IsHome(orig, b, o, c) => b = HB(c) /\ o = HO(c)
<1>1. PICK b \in Blocks \ {0}, o \in Offsets :
        IsHome(orig, b, o, c) /\ orig[b][o].link \in Links
  BY DEF Prepared
<1>2. \A a \in Blocks, p \in Offsets : IsHome(orig, a, p, c) => a = b /\ p = o
  BY <1>1 DEF Prepared
<1>3. HB(c) = b
  BY <1>1, <1>2 DEF HB
<1>4. HO(c) = o
  BY <1>1, <1>2, <1>3 DEF HO
<1> QED
  BY <1>1, <1>2, <1>3, <1>4 DEF OrigLink, IsHome

(* No two names have the same entry.                                       *)
LEMMA HomesApart ==
  ASSUME Prepared(orig), NEW c \in Entries, NEW d \in Entries, HB(c) = HB(d), HO(c) = HO(d)
  PROVE  c = d
BY HomeFacts, DataAssumption DEF IsHome

(* Which pages a call matches and what it makes of them.                   *)
LEMMA LinkedCardPage ==
  ASSUME NEW b \in Blocks, NEW o \in Offsets
  PROVE  LinkedCard[b][o] = LinkedPage(b, o)
BY DEF LinkedCard

LEMMA LinkedCardType ==
  ASSUME TypeOK
  PROVE  LinkedCard \in [Blocks -> [Offsets -> Content]]
<1>1. ASSUME NEW b \in Blocks, NEW o \in Offsets PROVE LinkedPage(b, o) \in Content
  <2>1. orig[b][o] \in Content
    BY DEF TypeOK
  <2>2. LinkedEntry(orig[b][o]) \in Content
    BY <2>1, DataAssumption DEF LinkedEntry, Content
  <2> QED
    BY <2>1, <2>2 DEF LinkedPage
<1> QED
  BY <1>1 DEF LinkedCard

LEMMA PatchPage ==
  ASSUME TypeOK, op = "patch", NEW b \in Blocks \ BackupBlocks, NEW o \in Offsets
  PROVE  /\ \A c \in Entries : c \in Hits(orig[b][o]) <=> IsHome(orig, b, o, c)
         /\ Hits(LinkedPage(b, o)) = {}
         /\ Rewritten(orig[b][o]) = LinkedPage(b, o)
<1> DEFINE e == orig[b][o]
<1>1. e \in Content
  BY DEF TypeOK
<1>2. \A c \in Entries : c \in Hits(e) <=> IsHome(orig, b, o, c)
  BY DEF Hits, Matches, IsHome
<1>3. LinkedEntry(e).attr = "linked"
  BY <1>1 DEF LinkedEntry, Content
<1>4. Hits(LinkedEntry(e)) = {}
  BY <1>3 DEF Hits, Matches
<1>5. Hits(LinkedPage(b, o)) = {}
  <2>1. CASE \E c \in Entries : IsHome(orig, b, o, c)
    BY <2>1, <1>4 DEF LinkedPage
  <2>2. CASE ~\E c \in Entries : IsHome(orig, b, o, c)
    <3>1. LinkedPage(b, o) = e
      BY <2>2 DEF LinkedPage
    <3>2. Hits(e) = {}
      BY <2>2, <1>2 DEF Hits
    <3> QED
      BY <3>1, <3>2
  <2> QED
    BY <2>1, <2>2
<1>6. Rewritten(e) = LinkedPage(b, o)
  <2>1. Hits(e) = {} <=> ~\E c \in Entries : IsHome(orig, b, o, c)
    BY <1>2 DEF Hits
  <2> QED
    BY <2>1 DEF Rewritten, LinkedPage, LinkedEntry
<1> QED
  BY <1>2, <1>5, <1>6

LEMMA UnPatchPage ==
  ASSUME TypeOK, Prepared(orig), op = "unpatch", \A c \in Entries : record[c] = OrigLink(c),
         NEW b \in Blocks \ BackupBlocks, NEW o \in Offsets
  PROVE  /\ \A c \in Entries : c \in Hits(LinkedPage(b, o)) <=> IsHome(orig, b, o, c)
         /\ Hits(orig[b][o]) = {}
         /\ Rewritten(LinkedPage(b, o)) = orig[b][o]
<1> DEFINE e == orig[b][o]
<1>1. e \in Content
  BY DEF TypeOK
<1>2. \A c \in Entries : ~(e.name = Req[c] /\ e.attr = "linked" /\ e.link = OsdLink)
  BY DEF Prepared
<1>3. Hits(e) = {}
  BY <1>2 DEF Hits, Matches
<1>4. CASE \E c \in Entries : IsHome(orig, b, o, c)
  <2> DEFINE l == LinkedEntry(e)
  <2>1. LinkedPage(b, o) = l
    BY <1>4 DEF LinkedPage
  <2>2. l.name = e.name /\ l.attr = "linked" /\ l.link = OsdLink /\ e.attr = "file"
    BY <1>1, <1>4 DEF LinkedEntry, Content, IsHome
  <2>3. \A c \in Entries : c \in Hits(l) <=> IsHome(orig, b, o, c)
    BY <2>2 DEF Hits, Matches, IsHome
  <2>4. Hits(l) # {} /\ FirstHit(l) \in Entries /\ IsHome(orig, b, o, FirstHit(l))
    BY <1>4, <2>3, HitIsUnique DEF Hits
  <2> DEFINE d == FirstHit(l)
  <2> HIDE DEF d
  <2>5. record[d] = e.link /\ e.link \in Links
    <3>1. d \in Entries /\ IsHome(orig, b, o, d)
      BY <2>4 DEF d
    <3>2. b = HB(d) /\ o = HO(d) /\ OrigLink(d) \in Links
      BY <3>1, HomeFacts
    <3> QED
      BY <3>1, <3>2 DEF OrigLink
  <2>6. Rewritten(l) = FileEntry(l, record[d])
    BY <2>4 DEF Rewritten, FileEntry, d
  <2>7. e.link # Unset
    BY <2>5, DataAssumption
  <2>8. FileEntry(l, e.link) = e
    BY <1>1, <2>2, <2>7 DEF FileEntry, LinkedEntry, Content
  <2> QED
    BY <1>3, <2>1, <2>3, <2>5, <2>6, <2>8
<1>5. CASE ~\E c \in Entries : IsHome(orig, b, o, c)
  <2>1. LinkedPage(b, o) = e
    BY <1>5 DEF LinkedPage
  <2> QED
    BY <1>3, <1>5, <2>1 DEF Rewritten
<1> QED
  BY <1>4, <1>5

(* Both at once: before the call, a page is hit if it is a home; rewriting *)
(* takes it to where the call leads, and there it is hit no more.          *)
LEMMA CallPage ==
  ASSUME TypeOK, Prepared(orig), op = "unpatch" => \A c \in Entries : record[c] = OrigLink(c),
         NEW b \in Blocks \ BackupBlocks, NEW o \in Offsets
  PROVE  /\ \A c \in Entries : c \in Hits(BeforeCall[b][o]) <=> IsHome(orig, b, o, c)
         /\ Hits(AfterCall[b][o]) = {}
         /\ Rewritten(BeforeCall[b][o]) = AfterCall[b][o]
         /\ Rewritten(AfterCall[b][o]) = AfterCall[b][o]
<1>1. /\ \A c \in Entries : c \in Hits(BeforeCall[b][o]) <=> IsHome(orig, b, o, c)
      /\ Hits(AfterCall[b][o]) = {}
      /\ Rewritten(BeforeCall[b][o]) = AfterCall[b][o]
  <2>1. CASE op = "patch"
    BY <2>1, PatchPage, LinkedCardPage DEF BeforeCall, AfterCall
  <2>2. CASE op = "unpatch"
    BY <2>2, UnPatchPage, LinkedCardPage DEF BeforeCall, AfterCall
  <2> QED
    BY <2>1, <2>2 DEF TypeOK
<1> QED
  BY <1>1 DEF Rewritten

(* orig stays what it is, and all that is defined from it.                 *)
LEMMA SameHomes ==
  ASSUME orig' = orig
  PROVE  /\ Prepared(orig)' = Prepared(orig)
         /\ \A c : HB(c)' = HB(c) /\ HO(c)' = HO(c) /\ OrigLink(c)' = OrigLink(c)
         /\ LinkedCard' = LinkedCard
<1>1. \A b, o, c : IsHome(orig, b, o, c)' = IsHome(orig, b, o, c)
  BY DEF IsHome
<1>2. \A c : HB(c)' = HB(c)
  BY <1>1 DEF HB
<1>3. \A c : HO(c)' = HO(c)
  BY <1>1, <1>2 DEF HO
<1>4. \A b, o : LinkedPage(b, o)' = LinkedPage(b, o)
  BY <1>1 DEF LinkedPage
<1>5. LinkedCard' = LinkedCard
  BY <1>4 DEF LinkedCard
<1> QED
  BY <1>1, <1>2, <1>3, <1>5 DEF Prepared, OrigLink

LEMMA OrigFrozen ==
  ASSUME Faithful, [Next]_vars
  PROVE  orig' = orig
<1>1. CallPatch => flash = orig
  BY DEF CallPatch, Faithful, Orderly, Given
<1> QED
  BY <1>1, OrigKept

(* A call that is over has made of the card what it should.                *)
LEMMA DoneIsAfter ==
  ASSUME TypeOK, Faithful, pc = "done"
  PROVE  flash = AfterCall
<1>1. Orderly /\ Prepared(orig) /\ eraseblocks = <<>>
  BY DEF Faithful, Orderly, Rewrites
<1>2. Logical = flash
  BY LogicalIsFlash
<1>3. ASSUME NEW b \in Blocks, NEW o \in Offsets PROVE flash[b][o] = AfterCall[b][o]
  <2>1. CASE \E c \in Entries : IsHome(orig, b, o, c)
    <3>1. PICK c \in Entries : IsHome(orig, b, o, c)
      BY <2>1
    <3>2. b = HB(c) /\ o = HO(c)
      BY <1>1, <3>1, HomeFacts
    <3>3. ~Pending(HB(c), HO(c))
      BY <1>1 DEF Pending
    <3> QED
      BY <1>1, <1>2, <3>2, <3>3 DEF Orderly, Rewrites
  <2>2. CASE ~\E c \in Entries : IsHome(orig, b, o, c)
    <3>1. LinkedCard[b][o] = orig[b][o]
      BY <2>2, LinkedCardPage DEF LinkedPage
    <3> QED
      BY <1>1, <1>2, <3>1 DEF Orderly, Rewrites, BeforeCall, AfterCall
  <2> QED
    BY <2>1, <2>2
<1>4. AfterCall \in [Blocks -> [Offsets -> Content]]
  BY LinkedCardType DEF AfterCall, TypeOK
<1> QED
  BY <1>3, <1>4 DEF TypeOK

LEMMA DoneSaved ==
  ASSUME TypeOK, Faithful, pc = "done", op = "patch", NEW c \in Entries
  PROVE  saved[c] = OrigLink(c)
<1>1. Prepared(orig) /\ (Logical[HB(c)][HO(c)] = orig[HB(c)][HO(c)] \/ saved[c] = OrigLink(c))
  BY DEF Faithful, Orderly, Rewrites
<1>2. HB(c) \in Blocks /\ HO(c) \in Offsets /\ IsHome(orig, HB(c), HO(c), c)
  BY <1>1, HomeFacts
<1>3. Logical[HB(c)][HO(c)] = LinkedEntry(orig[HB(c)][HO(c)])
  BY <1>2, DoneIsAfter, LogicalIsFlash, LinkedCardPage DEF AfterCall, LinkedPage
<1>4. LinkedEntry(orig[HB(c)][HO(c)]) # orig[HB(c)][HO(c)]
  <2> DEFINE e == orig[HB(c)][HO(c)]
  <2>1. e \in Content /\ e.attr = "file"
    BY <1>2 DEF TypeOK, IsHome
  <2>2. LinkedEntry(e).attr = "linked"
    BY <2>1 DEF LinkedEntry, Content
  <2> QED
    BY <2>1, <2>2
<1> QED
  BY <1>1, <1>3, <1>4

(* The steps between two calls.                                            *)
LEMMA CallSteps ==
  ASSUME TypeOK, Faithful, orig' = orig, CallPatch \/ CallUnPatch
  PROVE  Faithful'
<1>1. /\ Prepared(orig) /\ Given /\ pc = "idle" /\ pc' = "scan" /\ found' = 0 /\ i' = 0
      /\ eraseblocks' = <<>> /\ flash' = flash /\ record' = record
      /\ op' = IF record = <<>> THEN "patch" ELSE "unpatch"
  BY DEF Faithful, Orderly, CallPatch, CallUnPatch, StartThread
<1>2. flash' = BeforeCall'
  BY <1>1, SameHomes DEF Given, BeforeCall
<1>3. Given'
  BY <1>1, SameHomes DEF Given, Running
<1>4. Scanned'
  <2>1. 1 \in Entries
    BY DataAssumption DEF Entries, NumEntries
  <2>2. \A c \in Entries : HB(c) \in Nat
    BY <1>1, HomeFacts, ConstantsOK
  <2>3. Below(0)' = {}
    BY <2>2, SameHomes DEF Below
  <2>4. Cardinality(Below(i)') = 0
    BY <1>1, <2>3, FS_EmptySet DEF Below
  <2>5. Below(i)' = {}
    BY <1>1, <2>3 DEF Below
  <2> QED
    BY <1>1, <1>2, <2>1, <2>2, <2>4, <2>5, SameHomes DEF Scanned
<1> QED
  BY <1>1, <1>3, <1>4, SameHomes DEF Faithful, Orderly, Collected, Rewrites

LEMMA ReplyStep ==
  ASSUME TypeOK, Faithful, orig' = orig, Reply
  PROVE  Faithful'
<1>1. /\ Prepared(orig) /\ pc = "done" /\ pc' = "idle" /\ flash' = flash
      /\ record' = IF op = "patch" THEN saved ELSE <<>>
  BY DEF Faithful, Reply
<1>2. flash = AfterCall
  BY <1>1, DoneIsAfter
<1>3. Given'
  <2>1. CASE op = "patch"
    <3>1. 1 \in DOMAIN saved
      BY DataAssumption DEF TypeOK, Entries, NumEntries
    <3>2. saved # <<>>
      BY <3>1
    <3>3. \A c \in Entries : saved[c] = OrigLink(c)
      BY <1>1, <2>1, DoneSaved
    <3> QED
      BY <1>1, <1>2, <2>1, <3>2, <3>3, SameHomes DEF Given, AfterCall, Running
  <2>2. CASE op = "unpatch"
    BY <1>1, <1>2, <2>2, SameHomes DEF Given, AfterCall, Running
  <2> QED
    BY <2>1, <2>2 DEF TypeOK
<1> QED
  BY <1>1, <1>3, SameHomes DEF Faithful, Orderly, Scanned, Collected, Rewrites

(* The pages of a block that are hit are the homes in it, as many as there *)
(* are names at home there.                                                *)
LEMMA ScanCount ==
  ASSUME TypeOK, Prepared(orig), op = "unpatch" => \A c \in Entries : record[c] = OrigLink(c),
         flash = BeforeCall, NEW b \in Blocks \ BackupBlocks
  PROVE  LET here == {c \in Entries : HB(c) = b}
         IN  /\ {FirstHit(flash[b][o]) : o \in HitOffsets(b)} = here
             /\ Cardinality(HitOffsets(b)) = Cardinality(here)
             /\ IsFiniteSet(here)
<1> DEFINE here == {c \in Entries : HB(c) = b}
           hit  == [o \in HitOffsets(b) |-> FirstHit(flash[b][o])]
<1>1. ASSUME NEW o \in HitOffsets(b)
      PROVE  hit[o] \in here /\ HO(hit[o]) = o /\ o \in Offsets
  <2>1. o \in Offsets /\ Hits(flash[b][o]) # {}
    BY DEF HitOffsets
  <2>2. FirstHit(flash[b][o]) \in Hits(flash[b][o])
    BY <2>1, HitIsUnique
  <2>3. IsHome(orig, b, o, FirstHit(flash[b][o])) /\ FirstHit(flash[b][o]) \in Entries
    BY <2>1, <2>2, CallPage DEF Hits
  <2> QED
    BY <2>1, <2>3, HomeFacts
<1>2. ASSUME NEW c \in here PROVE HO(c) \in HitOffsets(b) /\ hit[HO(c)] = c
  <2>1. c \in Entries /\ HB(c) = b /\ HO(c) \in Offsets /\ IsHome(orig, b, HO(c), c)
    BY HomeFacts
  <2>2. c \in Hits(flash[b][HO(c)])
    BY <2>1, CallPage
  <2>3. HO(c) \in HitOffsets(b)
    BY <2>1, <2>2 DEF HitOffsets
  <2>4. hit[HO(c)] \in here /\ HO(hit[HO(c)]) = HO(c)
    BY <1>1, <2>3
  <2> QED
    BY <2>1, <2>3, <2>4, HomesApart
<1>3. hit \in Bijection(HitOffsets(b), here)
  <2>1. hit \in [HitOffsets(b) -> here]
    BY <1>1
  <2>2. \A o, p \in HitOffsets(b) : hit[o] = hit[p] => o = p
    BY <1>1
  <2>3. \A c \in here : \E o \in HitOffsets(b) : hit[o] = c
    BY <1>2
  <2> HIDE DEF hit, here
  <2> QED
    BY <2>1, <2>2, <2>3 DEF Bijection, Injection, Surjection, IsInjective
<1>4. IsFiniteSet(HitOffsets(b))
  <2>1. IsFiniteSet(Offsets)
    BY SizeAssumption, FS_Interval DEF Offsets
  <2> QED
    BY <2>1, FS_Subset DEF HitOffsets
<1>5. IsFiniteSet(here) /\ Cardinality(here) = Cardinality(HitOffsets(b))
  <2> HIDE DEF here
  <2>1. ExistsBijection(HitOffsets(b), here)
    BY <1>3 DEF ExistsBijection
  <2> QED
    BY <1>4, <2>1, FS_Bijection
<1>6. {FirstHit(flash[b][o]) : o \in HitOffsets(b)} = here
  BY <1>1, <1>2
<1> QED
  BY <1>5, <1>6

(* The block that the scan has reached is not beyond all homes, so not in  *)
(* the backup, and the one after the last home is not reached.             *)
LEMMA ScanSteps ==
  ASSUME TypeOK, Faithful, orig' = orig, ScanBlock \/ EndOfScan
  PROVE  Faithful'
<1>1. /\ Prepared(orig) /\ Given /\ pc = "scan" /\ flash = BeforeCall /\ eraseblocks = <<>>
      /\ found = Cardinality(Below(i)) /\ \A c \in Below(i) : where[c] = HB(c)
  BY DEF Faithful, Orderly, Scanned, ScanBlock, EndOfScan
<1>2. \A c \in Entries : HB(c) \in Nat
  BY <1>1, HomeFacts, ConstantsOK
<1>3. i \in Blocks \ BackupBlocks
  <2>1. PICK c \in Entries : HB(c) >= i
    BY <1>1 DEF Faithful, Orderly, Scanned
  <2>2. HB(c) \in Blocks \ BackupBlocks
    BY <1>1, HomeFacts
  <2>3. i \in Nat /\ NumBlocks \in Nat
    BY SizeAssumption DEF TypeOK
  <2>4. i \in Blocks
    BY <2>1, <2>2, <2>3 DEF Blocks
  <2>5. i \notin BackupBlocks
    BY <2>1, <2>2, <2>3, <1>2, BackupAssumption
  <2> QED
    BY <2>4, <2>5
<1> DEFINE here == {c \in Entries : HB(c) = i}
<1>4. /\ ScanBlock
      /\ where' = [c \in Entries |-> IF c \in here THEN i ELSE where[c]]
      /\ found' = found + Cardinality(here)
      /\ flash' = flash /\ op' = op /\ eraseblocks' = eraseblocks /\ record' = record
      /\ IsFiniteSet(here)
  <2>1. ScanBlock
    BY <1>3 DEF EndOfScan
  <2>2. op = "unpatch" => \A c \in Entries : record[c] = OrigLink(c)
    BY <1>1 DEF Given, Running
  <2>3. /\ {FirstHit(flash[i][o]) : o \in HitOffsets(i)} = here
        /\ Cardinality(HitOffsets(i)) = Cardinality(here)
        /\ IsFiniteSet(here)
    BY <1>1, <1>3, <2>2, ScanCount
  <2> QED
    BY <2>1, <2>3 DEF ScanBlock
<1>5. Below(i + 1) = Below(i) \cup here /\ Below(i) \cap here = {}
  <2>1. i \in Nat
    BY DEF TypeOK
  <2>2. \A c \in Entries : /\ HB(c) < i + 1 <=> HB(c) < i \/ HB(c) = i
                          /\ ~(HB(c) < i /\ HB(c) = i)
    BY <1>2, <2>1
  <2> QED
    BY <2>2 DEF Below
<1>6. /\ IsFiniteSet(Entries) /\ Cardinality(Entries) = NumEntries
      /\ \A n : Below(n) \subseteq Entries
  BY ConstantsOK, FS_Interval DEF Entries, Below
<1>7. found' = Cardinality(Below(i + 1))
  <2>1. IsFiniteSet(Below(i))
    BY <1>6, FS_Subset
  <2> HIDE DEF here
  <2>2. Cardinality(Below(i) \cup here) = Cardinality(Below(i)) + Cardinality(here) - Cardinality({})
    BY <1>4, <1>5, <2>1, FS_Union
  <2>3. Cardinality(Below(i)) \in Nat /\ Cardinality(here) \in Nat /\ Cardinality({}) = 0
    BY <1>4, <2>1, FS_CardinalityType, FS_EmptySet
  <2>4. found = Cardinality(Below(i)) /\ found' = found + Cardinality(here)
    BY <1>1, <1>4
  <2>5. Cardinality(Below(i + 1)) = Cardinality(Below(i) \cup here)
    BY <1>5
  <2> QED
    BY <2>2, <2>3, <2>4, <2>5
<1>8. \A c \in Below(i + 1) : where'[c] = HB(c)
  BY <1>1, <1>4, <1>5, <1>6 DEF Below
<1>9. BeforeCall' = BeforeCall
  BY <1>4, SameHomes DEF BeforeCall
<1>10. CASE found' = NumEntries
  <2>1. pc' = "collect" /\ i' = 1
    BY <1>4, <1>10 DEF ScanBlock
  <2>2. Below(i + 1) = Entries
    BY <1>6, <1>7, <1>10, FS_Subset
  <2>3. Entries \subseteq Nat /\ \A c \in Entries : ~(c < 1)
    BY ConstantsOK DEF Entries
  <2>4. Collected'
    BY <1>1, <1>4, <1>8, <2>1, <2>2, <2>3, SameHomes DEF Collected
  <2> QED
    BY <1>1, <1>4, <1>9, <2>1, <2>4, SameHomes
       DEF Faithful, Orderly, Given, Scanned, Rewrites, Running
<1>11. CASE found' # NumEntries
  <2>1. pc' = "scan" /\ i' = i + 1
    BY <1>1, <1>4, <1>11 DEF ScanBlock
  <2>2. Below(i + 1) # Entries
    BY <1>6, <1>7, <1>11
  <2>3. \E c \in Entries : HB(c) >= i + 1
    <3>1. PICK c \in Entries : ~(HB(c) < i + 1)
      BY <2>2 DEF Below
    <3>2. HB(c) \in Nat /\ i \in Nat
      BY <1>2 DEF TypeOK
    <3>3. HB(c) >= i + 1
      BY <3>1, <3>2
    <3> QED
      BY <3>3
  <2>4. Below(i)' = Below(i + 1)
    BY <2>1, SameHomes DEF Below
  <2>5. Scanned'
    BY <1>1, <1>4, <1>7, <1>8, <1>9, <2>1, <2>3, <2>4, SameHomes DEF Scanned
  <2> QED
    BY <1>1, <1>4, <2>1, <2>5, SameHomes
       DEF Faithful, Orderly, Given, Collected, Rewrites, Running
<1> QED
  BY <1>10, <1>11

LEMMA CollectStep ==
  ASSUME TypeOK, Faithful, orig' = orig, CollectBlock
  PROVE  Faithful'
<1>1. /\ Prepared(orig) /\ Given /\ Scanned /\ Collected /\ pc = "collect" /\ pc' = "collect"
      /\ i \in Entries /\ i \in Nat /\ i' = i + 1 /\ where[i] = HB(i)
      /\ UNCHANGED <<flash, op, record, where>>
  BY ConstantsOK DEF Faithful, Orderly, Collected, CollectBlock
<1> DEFINE es == eraseblocks
           last == es # <<>> /\ es[Len(es)] = where[i]
<1>2. es \in Seq(Int) /\ where[i] \in Int
  BY <1>1 DEF TypeOK
<1>3. /\ eraseblocks' \in Seq(Int) /\ Len(eraseblocks') \in Nat
      /\ \A k \in 1 .. Len(es) : k \in 1 .. Len(eraseblocks') /\ eraseblocks'[k] = es[k]
      /\ \A k \in 1 .. Len(eraseblocks') : k \in 1 .. Len(es) \/ eraseblocks'[k] = where[i]
      /\ \E k \in 1 .. Len(eraseblocks') : eraseblocks'[k] = where[i]
  <2>1. CASE last
    BY <1>2, <2>1 DEF CollectBlock
  <2>2. CASE ~last
    <3>1. eraseblocks' = Append(es, where[i])
      BY <2>2 DEF CollectBlock
    <3> QED
      BY <1>2, <3>1
  <2> QED
    BY <2>1, <2>2
<1>4. \A c \in Entries : c < i + 1 => \E k \in 1 .. Len(eraseblocks') : eraseblocks'[k] = HB(c)
  <2> SUFFICES ASSUME NEW c \in Entries, c < i + 1
               PROVE  \E k \in 1 .. Len(eraseblocks') : eraseblocks'[k] = HB(c)
    OBVIOUS
  <2>1. CASE c = i
    BY <1>1, <1>3, <2>1
  <2>2. CASE c # i
    <3>1. c < i
      BY <1>1, <2>2, ConstantsOK
    <3>2. PICK k \in 1 .. Len(es) : es[k] = HB(c)
      BY <1>1, <3>1 DEF Collected
    <3> QED
      BY <1>3, <3>2
  <2> QED
    BY <2>1, <2>2
<1>5. \A k \in 1 .. Len(eraseblocks') : \E c \in Entries : eraseblocks'[k] = HB(c)
  BY <1>1, <1>3 DEF Collected
<1>6. Collected'
  <2>1. \A c \in Entries : where'[c] = HB(c)
    BY <1>1 DEF Collected
  <2>2. i' >= 1 /\ pc' = "collect"
    BY <1>1
  <2>3. \A c \in Entries : c < i' => \E k \in 1 .. Len(eraseblocks') : eraseblocks'[k] = HB(c)
    BY <1>1, <1>4
  <2> QED
    BY <1>5, <2>1, <2>2, <2>3, SameHomes DEF Collected
<1> QED
  BY <1>1, <1>6, SameHomes DEF Faithful, Orderly, Given, Scanned, Rewrites, Running, BeforeCall

LEMMA EndOfCollectStep ==
  ASSUME IInv, IInv', Faithful, orig' = orig, EndOfCollect
  PROVE  Faithful'
<1>1. /\ Prepared(orig) /\ Given /\ Scanned /\ Collected /\ pc = "collect" /\ pc' = "read"
      /\ i \notin Entries /\ i \in Nat /\ i >= 1
      /\ UNCHANGED <<flash, op, record, eraseblocks, saved>>
  BY DEF Faithful, Orderly, Collected, EndOfCollect, threadvars, IInv, TypeOK
<1>2. \A c \in Entries : c < i
  BY <1>1, ConstantsOK DEF Entries
<1>3. Logical' = BeforeCall /\ BeforeCall' = BeforeCall /\ AfterCall' = AfterCall
  BY <1>1, SilentSteps, LogicalIsFlash, SameHomes
     DEF Scanned, BeforeCall, AfterCall, IInv
<1>4. \A c \in Entries : Pending(HB(c), HO(c))'
  BY <1>1, <1>2, SameHomes DEF Collected, Pending
<1>5. Rewrites'
  BY <1>1, <1>3, <1>4, SameHomes DEF Rewrites, BeforeCall
<1> QED
  BY <1>1, <1>5, SameHomes DEF Faithful, Orderly, Given, Scanned, Collected, Running

(* The steps of the rewriting that show nothing.                           *)
LEMMA QuietSteps ==
  ASSUME IInv, IInv', Faithful, orig' = orig, ReadBlock \/ EraseBlock \/ Finish
  PROVE  Faithful'
<1>1. /\ Prepared(orig) /\ Given /\ Collected /\ Rewrites /\ pc \in {"read", "erase"}
      /\ pc' \in {"erase", "write", "done"} /\ (pc' = "done" => eraseblocks = <<>>)
      /\ UNCHANGED <<op, record, eraseblocks, saved>>
  BY DEF Faithful, Orderly, ReadBlock, EraseBlock, Finish, threadvars
<1>2. Logical' = Logical /\ BeforeCall' = BeforeCall /\ AfterCall' = AfterCall
  BY <1>1, SilentSteps, SameHomes DEF BeforeCall, AfterCall
<1>3. ASSUME NEW b, NEW o \in Offsets, Pending(b, o) PROVE Pending(b, o)'
  <2>1. pc' = "write" => z' = 0
    BY <1>1 DEF ReadBlock, EraseBlock, Finish
  <2>2. o \in Nat
    BY ConstantsOK
  <2> QED
    BY <1>1, <1>3, <2>1, <2>2 DEF Pending
<1>4. Rewrites'
  <2>1. \A c \in Entries : \/ Logical'[HB(c)][HO(c)] = AfterCall'[HB(c)][HO(c)]
                           \/ Pending(HB(c), HO(c))'
    <3> SUFFICES ASSUME NEW c \in Entries, Pending(HB(c), HO(c))
                 PROVE  Pending(HB(c), HO(c))'
      BY <1>1, <1>2, SameHomes DEF Rewrites
    <3>1. HO(c) \in Offsets
      BY <1>1, HomeFacts
    <3>2. HB(c)' = HB(c) /\ HO(c)' = HO(c)
      BY SameHomes
    <3> QED
      BY <1>3, <3>1, <3>2
  <2> QED
    BY <1>1, <1>2, <2>1, SameHomes DEF Rewrites
<1> QED
  BY <1>1, <1>4, SameHomes DEF Faithful, Orderly, Given, Scanned, Collected, Running

(* Writing a page takes it to where the call leads.                        *)
LEMMA WriteStep ==
  ASSUME IInv, IInv', Faithful, orig' = orig, WritePage
  PROVE  Faithful'
<1> DEFINE e == buffer[z]
           b0 == Cur
<1>1. /\ Prepared(orig) /\ Given /\ Collected /\ Rewrites /\ pc = "write"
      /\ UNCHANGED <<op, record>> /\ TypeOK
  BY DEF Faithful, Orderly, WritePage, IInv
<1>2. /\ eraseblocks # <<>> /\ eraseblocks \in Seq(Int) /\ Cur = eraseblocks[1]
      /\ z \in Offsets /\ z \in Nat
  BY <1>1, ConstantsOK DEF IInv, Rewriting, TypeOK, Cur
<1>3. Cur \in Blocks /\ Cur # 0 /\ Cur \notin BackupBlocks
  <2>1. PICK c \in Entries : eraseblocks[1] = HB(c)
    BY <1>1, <1>2 DEF Collected
  <2> QED
    BY <1>1, <1>2, <2>1, HomeFacts
<1>4. op = "unpatch" => \A c \in Entries : record[c] = OrigLink(c)
  BY <1>1 DEF Given, Running
<1>5. /\ Logical[Cur][z] = e
      /\ Logical' = [Logical EXCEPT ![Cur][z] = Rewritten(e)]
      /\ Logical \in [Blocks -> [Offsets -> Content]]
  BY <1>3, WriteIsRewrite, LogicalType
<1>6. /\ e \in {BeforeCall[Cur][z], AfterCall[Cur][z]}
      /\ Rewritten(e) = AfterCall[Cur][z]
      /\ \A c \in Entries : c \in Hits(BeforeCall[Cur][z]) <=> IsHome(orig, Cur, z, c)
      /\ Hits(AfterCall[Cur][z]) = {}
  <2>1. e \in {BeforeCall[Cur][z], AfterCall[Cur][z]}
    BY <1>1, <1>2, <1>3, <1>5 DEF Rewrites
  <2>2. Cur \in Blocks \ BackupBlocks /\ z \in Offsets /\ TypeOK /\ Prepared(orig)
    BY <1>1, <1>2, <1>3
  <2>3. /\ \A c \in Entries : c \in Hits(BeforeCall[Cur][z]) <=> IsHome(orig, Cur, z, c)
        /\ Hits(AfterCall[Cur][z]) = {}
        /\ Rewritten(BeforeCall[Cur][z]) = AfterCall[Cur][z]
        /\ Rewritten(AfterCall[Cur][z]) = AfterCall[Cur][z]
    BY <1>4, <2>2, CallPage
  <2> QED
    BY <2>1, <2>3
<1> HIDE DEF e
<1>7. \A b \in Blocks, o \in Offsets :
        Logical'[b][o] = IF b = Cur /\ o = z THEN AfterCall[Cur][z] ELSE Logical[b][o]
  BY <1>2, <1>3, <1>5, <1>6
<1>8. BeforeCall' = BeforeCall /\ AfterCall' = AfterCall
  BY <1>1, SameHomes DEF BeforeCall, AfterCall
<1>9. /\ pc' = "write" => eraseblocks' = eraseblocks /\ z' = z + 1
      /\ pc' # "write" => /\ pc' = "read" /\ eraseblocks' = Tail(eraseblocks)
                          /\ \A o \in Offsets : o >= z => o = z
  <2>1. CASE z + 1 \in Offsets
    BY <1>1, <2>1 DEF WritePage
  <2>2. CASE z + 1 \notin Offsets
    <3>1. \A o \in Offsets : o >= z => o = z
      BY <1>2, <2>2, ConstantsOK, SizeAssumption DEF Offsets
    <3>2. pc' = "read" /\ eraseblocks' = Tail(eraseblocks)
      BY <2>2 DEF WritePage
    <3> QED
      BY <3>1, <3>2
  <2> QED
    BY <2>1, <2>2
<1>10. ASSUME NEW b, NEW o \in Offsets, Pending(b, o), ~(b = Cur /\ o = z)
       PROVE  Pending(b, o)'
  <2>1. PICK k \in 1 .. Len(eraseblocks) : eraseblocks[k] = b /\ (k = 1 => o >= z)
    BY <1>1, <1>10 DEF Pending
  <2>2. o \in Nat
    BY ConstantsOK
  <2>3. CASE pc' = "write"
    <3>1. k = 1 => o >= z + 1
      BY <1>2, <1>10, <2>1, <2>2
    <3> QED
      BY <1>9, <2>1, <2>3, <3>1 DEF Pending
  <2>4. CASE pc' # "write"
    <3>1. k # 1
      BY <1>2, <1>9, <1>10, <2>1, <2>4
    <3>2. eraseblocks' = Tail(eraseblocks) /\ eraseblocks \in Seq(Int) /\ eraseblocks # <<>>
      BY <1>2, <1>9, <2>4
    <3>3. k - 1 \in 1 .. Len(eraseblocks') /\ eraseblocks'[k - 1] = b
      BY <2>1, <3>1, <3>2
    <3> QED
      BY <1>9, <2>4, <3>3 DEF Pending
  <2> QED
    BY <2>3, <2>4
<1>11. Collected'
  <2>1. \A k \in 1 .. Len(eraseblocks') :
          \E j \in 1 .. Len(eraseblocks) : eraseblocks'[k] = eraseblocks[j]
    <3>1. CASE pc' = "write"
      BY <1>9, <3>1
    <3>2. CASE pc' # "write"
      <4>1. eraseblocks' = Tail(eraseblocks) /\ eraseblocks \in Seq(Int) /\ eraseblocks # <<>>
        BY <1>2, <1>9, <3>2
      <4>2. \A k \in 1 .. Len(eraseblocks') :
              k + 1 \in 1 .. Len(eraseblocks) /\ eraseblocks'[k] = eraseblocks[k + 1]
        BY <4>1
      <4> QED
        BY <4>2
    <3> QED
      BY <3>1, <3>2
  <2>2. \A k \in 1 .. Len(eraseblocks') : \E c \in Entries : eraseblocks'[k] = HB(c)
    BY <1>1, <2>1 DEF Collected
  <2> QED
    BY <1>9, <2>2, SameHomes DEF Collected
<1>12. \A b \in Blocks, o \in Offsets : Logical'[b][o] \in {BeforeCall[b][o], AfterCall[b][o]}
  BY <1>1, <1>7 DEF Rewrites
<1>13. ASSUME NEW c \in Entries
       PROVE  Logical'[HB(c)][HO(c)] = AfterCall[HB(c)][HO(c)] \/ Pending(HB(c), HO(c))'
  <2>1. HB(c) \in Blocks /\ HO(c) \in Offsets
    BY <1>1, HomeFacts
  <2>2. CASE HB(c) = Cur /\ HO(c) = z
    BY <1>7, <2>1, <2>2
  <2>3. CASE ~(HB(c) = Cur /\ HO(c) = z) /\ Pending(HB(c), HO(c))
    <3>1. HB(c)' = HB(c) /\ HO(c)' = HO(c)
      BY SameHomes
    <3> QED
      BY <1>10, <2>1, <2>3, <3>1
  <2>4. CASE ~(HB(c) = Cur /\ HO(c) = z) /\ ~Pending(HB(c), HO(c))
    BY <1>1, <1>7, <2>1, <2>4 DEF Rewrites
  <2> QED
    BY <2>2, <2>3, <2>4
<1>14. ASSUME op = "patch", NEW c \in Entries
       PROVE  Logical'[HB(c)][HO(c)] = orig[HB(c)][HO(c)] \/ saved'[c] = OrigLink(c)
  <2>1. /\ HB(c) \in Blocks /\ HO(c) \in Offsets /\ IsHome(orig, HB(c), HO(c), c)
        /\ Logical[HB(c)][HO(c)] = orig[HB(c)][HO(c)] \/ saved[c] = OrigLink(c)
    BY <1>1, <1>14, HomeFacts DEF Rewrites
  <2>2. BeforeCall = orig
    BY <1>14 DEF BeforeCall
  <2>3. CASE Hits(e) # {}
    <3> DEFINE d == FirstHit(e)
    <3>1. saved' = [saved EXCEPT ![d] = e.link]
      BY <1>14, <2>3 DEF WritePage, e
    <3>2. d \in Hits(e) /\ e = orig[Cur][z]
      BY <1>6, <2>2, <2>3, HitIsUnique
    <3>3. d \in Entries /\ IsHome(orig, Cur, z, d)
      BY <1>6, <2>2, <3>2 DEF Hits
    <3>4. Cur = HB(d) /\ z = HO(d)
      BY <1>1, <1>2, <1>3, <3>3, HomeFacts
    <3> HIDE DEF d
    <3>5. CASE c = d
      BY <1>1, <3>1, <3>2, <3>3, <3>4, <3>5 DEF OrigLink, TypeOK
    <3>6. CASE c # d
      <4>1. ~(HB(c) = Cur /\ HO(c) = z)
        BY <1>1, <3>3, <3>4, <3>6, HomesApart
      <4>2. saved'[c] = saved[c]
        BY <1>1, <3>1, <3>6 DEF TypeOK
      <4> QED
        BY <1>7, <2>1, <4>1, <4>2
    <3> QED
      BY <3>5, <3>6
  <2>4. CASE Hits(e) = {}
    <3>1. saved' = saved
      BY <2>4 DEF WritePage, e
    <3>2. CASE HB(c) = Cur /\ HO(c) = z
      <4>1. e # orig[Cur][z]
        BY <1>6, <2>1, <2>2, <2>4, <3>2
      <4> QED
        BY <1>5, <2>1, <3>1, <3>2, <4>1
    <3>3. CASE ~(HB(c) = Cur /\ HO(c) = z)
      BY <1>7, <2>1, <3>1, <3>3
    <3> QED
      BY <3>2, <3>3
  <2> QED
    BY <2>3, <2>4
<1>15. Rewrites'
  <2>1. \A c \in Entries : \/ Logical'[HB(c)][HO(c)] = AfterCall'[HB(c)][HO(c)]
                           \/ Pending(HB(c), HO(c))'
    BY <1>8, <1>13
  <2>2. pc' # "done"
    BY <1>9
  <2>3. op' = "patch" => \A c \in Entries : \/ Logical'[HB(c)][HO(c)] = orig'[HB(c)][HO(c)]
                                            \/ saved'[c] = OrigLink(c)
    BY <1>1, <1>14
  <2> QED
    BY <1>8, <1>12, <2>1, <2>2, <2>3, SameHomes DEF Rewrites
<1>16. Given' /\ Scanned'
  BY <1>1, <1>4, <1>9, SameHomes DEF Given, Scanned, Running
<1> QED
  BY <1>1, <1>11, <1>15, <1>16, SameHomes DEF Faithful, Orderly

LEMMA SameFaithful ==
  ASSUME IInv, IInv', Faithful, UNCHANGED vars
  PROVE  Faithful'
<1>1. UNCHANGED <<flash, pc, op, where, found, i, eraseblocks, z, saved, record, orig>>
  BY DEF vars, threadvars
<1>2. Logical' = Logical
  BY SilentSteps
<1>3. /\ BeforeCall' = BeforeCall /\ AfterCall' = AfterCall
      /\ \A b, o : Pending(b, o)' <=> Pending(b, o)
      /\ \A n : Below(n)' = Below(n)
  BY <1>1, SameHomes DEF BeforeCall, AfterCall, Pending, Below
<1>4. Given' = Given /\ Scanned' = Scanned /\ Collected' = Collected
  BY <1>1, <1>3, SameHomes DEF Given, Scanned, Collected, Running, Below
<1>5. Rewrites' = Rewrites
  BY <1>1, <1>2, <1>3, SameHomes DEF Rewrites, Pending
<1> QED
  BY <1>1, <1>4, <1>5, SameHomes DEF Faithful, Orderly

LEMMA NextFaithful ==
  ASSUME IInv, IInv', Faithful, [Next]_vars
  PROVE  Faithful'
<1>1. orig' = orig /\ TypeOK
  BY OrigFrozen DEF IInv
<1>2. CASE Fault
  <2>1. pc' \in {"failed", "off"}
    BY <1>2 DEF Fault, ReadFails, EraseFails, WriteFails, PowerOff, Stop
  <2> QED
    BY <1>1, <2>1, SameHomes DEF Faithful
<1> QED
  BY <1>1, <1>2, CallSteps, ReplyStep, ScanSteps, CollectStep, EndOfCollectStep, QuietSteps,
     WriteStep, SameFaithful DEF Next, ThreadStep

LEMMA InitFaithful ==
  ASSUME \A card \in Layouts : Prepared(card), Init
  PROVE  Faithful
BY DEF Init, Faithful, Orderly, Given, Scanned, Collected, Rewrites, Running

(* On cards as Install_Hack leaves them, of any size and with any list of  *)
(* names, and however the calls before it ended: when a patch returns 1,   *)
(* every entry asked for is linked and what it pointed at is saved         *)
(* (mcsp.c:613-615, 641-650).                                              *)
THEOREM PatchDone ==
  ASSUME \A card \in Layouts : Prepared(card)
  PROVE  Spec => []PatchComplete
<1>1. Init => IInv /\ Faithful
  BY InitInv, InitFaithful
<1>2. IInv /\ Faithful /\ [Next]_vars => IInv' /\ Faithful'
  BY NextInv, NextFaithful
<1>3. IInv /\ Faithful => PatchComplete
  <2> SUFFICES ASSUME IInv, Faithful, pc = "done", op = "patch",
                      NEW b \in Blocks, NEW o \in Offsets, NEW c \in Entries,
                      IsHome(orig, b, o, c)
               PROVE  /\ flash[b][o] = [orig[b][o] EXCEPT !.attr = "linked", !.link = OsdLink]
                      /\ saved[c] = orig[b][o].link
    BY DEF PatchComplete
  <2>1. flash[b][o] = LinkedPage(b, o)
    BY DoneIsAfter, LinkedCardPage DEF AfterCall, IInv
  <2>2. b = HB(c) /\ o = HO(c) /\ saved[c] = OrigLink(c)
    BY HomeFacts, DoneSaved DEF Faithful, IInv
  <2> QED
    BY <2>1, <2>2 DEF LinkedPage, LinkedEntry, OrigLink
<1> QED
  BY <1>1, <1>2, <1>3, PTL DEF Spec

(* On the same cards, over any number of patches and unpatches: when an    *)
(* unpatch returns 1, the card is page for page what it was before the     *)
(* first patch (mcsp.c:957-967, main.c:1424-1478).                         *)
THEOREM UnPatchUndoes ==
  ASSUME \A card \in Layouts : Prepared(card)
  PROVE  Spec => []RoundTrip
<1>1. Init => IInv /\ Faithful
  BY InitInv, InitFaithful
<1>2. IInv /\ Faithful /\ [Next]_vars => IInv' /\ Faithful'
  BY NextInv, NextFaithful
<1>3. IInv /\ Faithful => RoundTrip
  BY DoneIsAfter DEF RoundTrip, AfterCall, IInv
<1> QED
  BY <1>1, <1>2, <1>3, PTL DEF Spec

==============================================================================

---------------------------- MODULE SessionProofs ----------------------------
(***************************************************************************)
(* For any heap, log and contents of card and stick, and however the cards *)
(* are changed: the buffers, the log and the outcome of a job (Session),   *)
(* the card whose figures it goes by (CardCheck), and by how much the      *)
(* space it is said to take falls short of what it takes (CardSpace).      *)
(***************************************************************************)
EXTENDS Session, Recursion

------------------------------------------------------------------------------
(* malloc and free                                                         *)

LEMMA AddressIsFree ==
  ASSUME NEW h, CanAlloc(h)
  PROVE  Min(FreeAddresses(h)) \in FreeAddresses(h)
<1>1. FreeAddresses(h) \subseteq Nat /\ FreeAddresses(h) # {}
  BY SessionAssumption DEF FreeAddresses, CanAlloc
<1> DEFINE L == OpToRel(<, Nat)
<1>2. IsWellFoundedOn(L, Nat)
  BY NatLessThanWellFounded, Zenon
<1>3. \A b, c \in Nat : <<c, b>> \notin L => b <= c
  BY DEF OpToRel
<1> HIDE DEF L
<1>4. \E b \in FreeAddresses(h) : \A c \in FreeAddresses(h) : <<c, b>> \notin L
  BY <1>1, <1>2, WFMin, Zenon
<1>5. \E b \in FreeAddresses(h) : \A c \in FreeAddresses(h) : b <= c
  BY <1>1, <1>3, <1>4
<1> QED
  BY <1>5 DEF Min

IsHeap(h) ==
  /\ h = [ptr |-> h.ptr, used |-> h.used, leaked |-> h.leaked]
  /\ h.ptr \in [Buffer -> 0..HeapSize]
  /\ h.used \subseteq 1..HeapSize

(* The buffers of B are allocated, at addresses of their own, and nothing  *)
(* else is but what was leaked.                                            *)
HeapHolds(h, B) ==
  /\ IsHeap(h)
  /\ B \subseteq Buffer
  /\ \A b \in B : h.ptr[b] \in h.used /\ h.ptr[b] \notin h.leaked
  /\ \A b, c \in B : h.ptr[b] = h.ptr[c] => b = c
  /\ h.used = {h.ptr[b] : b \in B} \cup h.leaked

LEMMA AllocFields ==
  ASSUME NEW h, IsHeap(h), NEW b \in Buffer, CanAlloc(h)
  PROVE  \E a \in (1..HeapSize) \ h.used :
           /\ IsHeap(Alloc(h, b))
           /\ Alloc(h, b).ptr = [h.ptr EXCEPT ![b] = a]
           /\ Alloc(h, b).used = h.used \cup {a}
           /\ Alloc(h, b).leaked = h.leaked
<1> DEFINE a == Min(FreeAddresses(h))
<1>1. a \in (1..HeapSize) \ h.used
  BY AddressIsFree DEF FreeAddresses
<1>2. Alloc(h, b) = [h EXCEPT !.ptr[b] = a, !.used = @ \cup {a}]
  BY DEF Alloc
<1> HIDE DEF a
<1>3. Alloc(h, b) = [ptr |-> [h.ptr EXCEPT ![b] = a], used |-> h.used \cup {a}, leaked |-> h.leaked]
  BY <1>2 DEF IsHeap
<1>4. [h.ptr EXCEPT ![b] = a] \in [Buffer -> 0..HeapSize] /\ h.used \cup {a} \subseteq 1..HeapSize
  BY <1>1 DEF IsHeap
<1> QED
  BY <1>1, <1>3, <1>4 DEF IsHeap

LEMMA FreeFields ==
  ASSUME NEW h, IsHeap(h), NEW B
  PROVE  /\ IsHeap(Free(h, B))
         /\ Free(h, B).ptr = h.ptr
         /\ Free(h, B).used = h.used \ {h.ptr[b] : b \in B}
         /\ Free(h, B).leaked = h.leaked
<1>1. Free(h, B) = [ptr |-> h.ptr, used |-> h.used \ {h.ptr[b] : b \in B}, leaked |-> h.leaked]
  BY DEF Free, IsHeap
<1> QED
  BY <1>1 DEF IsHeap

LEMMA AllocHolds ==
  ASSUME NEW h, NEW B, HeapHolds(h, B), NEW b \in Buffer \ B, CanAlloc(h)
  PROVE  /\ HeapHolds(Alloc(h, b), B \cup {b})
         /\ \A c \in Buffer \ {b} : Alloc(h, b).ptr[c] = h.ptr[c]
         /\ Alloc(h, b).leaked = h.leaked
<1>1. PICK a \in (1..HeapSize) \ h.used :
           /\ IsHeap(Alloc(h, b))
           /\ Alloc(h, b).ptr = [h.ptr EXCEPT ![b] = a]
           /\ Alloc(h, b).used = h.used \cup {a}
           /\ Alloc(h, b).leaked = h.leaked
  BY AllocFields DEF HeapHolds
<1> DEFINE g == Alloc(h, b)
<1> HIDE DEF g
<1>2. \A c \in Buffer : g.ptr[c] = IF c = b THEN a ELSE h.ptr[c]
  BY <1>1 DEF g, HeapHolds, IsHeap
<1>3. \A c \in B : c # b /\ c \in Buffer /\ h.ptr[c] # a
  BY <1>1 DEF HeapHolds
<1>4. {g.ptr[c] : c \in B \cup {b}} = {h.ptr[c] : c \in B} \cup {a}
  BY <1>2, <1>3
<1> QED
  BY <1>1, <1>2, <1>3, <1>4 DEF g, HeapHolds

LEMMA FreeHolds ==
  ASSUME NEW h, NEW B, HeapHolds(h, B), NEW F,
         \A b \in F : b \in B \/ h.ptr[b] \notin h.used
  PROVE  /\ HeapHolds(Free(h, F), B \ F)
         /\ Free(h, F).ptr = h.ptr
         /\ Free(h, F).leaked = h.leaked
<1>1. \A b \in B \ F, c \in F : h.ptr[b] # h.ptr[c]
  BY DEF HeapHolds
<1>2. \A c \in F : h.ptr[c] \notin h.leaked
  BY DEF HeapHolds
<1>3. h.used \ {h.ptr[b] : b \in F} = {h.ptr[b] : b \in B \ F} \cup h.leaked
  BY <1>1, <1>2 DEF HeapHolds
<1>4. /\ IsHeap(Free(h, F)) /\ Free(h, F).ptr = h.ptr
      /\ Free(h, F).used = h.used \ {h.ptr[b] : b \in F} /\ Free(h, F).leaked = h.leaked
  BY FreeFields DEF HeapHolds
<1> QED
  BY <1>1, <1>2, <1>3, <1>4 DEF HeapHolds

(* A buffer allocated and freed again leaves no trace but its pointer.     *)
LEMMA AllocFree ==
  ASSUME NEW h, NEW B, HeapHolds(h, B), NEW b \in Buffer \ B, CanAlloc(h)
  PROVE  LET g == Free(Alloc(h, b), {b}) IN
         /\ HeapHolds(g, B)
         /\ \A c \in Buffer \ {b} : g.ptr[c] = h.ptr[c]
         /\ g.ptr[b] \notin h.used
         /\ g.leaked = h.leaked
         /\ g.used = h.used
<1>1. PICK a \in (1..HeapSize) \ h.used :
           /\ Alloc(h, b).ptr = [h.ptr EXCEPT ![b] = a]
           /\ Alloc(h, b).used = h.used \cup {a}
  BY AllocFields DEF HeapHolds
<1>2. HeapHolds(Alloc(h, b), B \cup {b}) /\ Alloc(h, b).leaked = h.leaked
      /\ \A c \in Buffer \ {b} : Alloc(h, b).ptr[c] = h.ptr[c]
  BY AllocHolds
<1> DEFINE k == Alloc(h, b)
           g == Free(k, {b})
<1> HIDE DEF k
<1>3. HeapHolds(g, (B \cup {b}) \ {b}) /\ g.ptr = k.ptr /\ g.leaked = k.leaked
  <2>1. HeapHolds(k, B \cup {b}) /\ \A c \in {b} : c \in B \cup {b}
    BY <1>2 DEF k
  <2> QED
    BY <2>1, FreeHolds
<1>4. g.used = k.used \ {k.ptr[b]}
  <2>1. g.used = k.used \ {k.ptr[c] : c \in {b}}
    BY <1>2, FreeFields DEF HeapHolds, k
  <2> QED
    BY <2>1
<1>5. (B \cup {b}) \ {b} = B
  OBVIOUS
<1>6. k.ptr[b] = a
  BY <1>1 DEF k, HeapHolds, IsHeap
<1> QED
  BY <1>1, <1>2, <1>3, <1>4, <1>5, <1>6 DEF k

LEMMA ForgetHolds ==
  ASSUME NEW h, HeapHolds(h, {})
  PROVE  LET g == [h EXCEPT !.ptr = NoBuffers] IN
         HeapHolds(g, {}) /\ g.ptr = NoBuffers /\ g.leaked = h.leaked
<1>1. [h EXCEPT !.ptr = NoBuffers] = [ptr |-> NoBuffers, used |-> h.used, leaked |-> h.leaked]
  BY DEF HeapHolds, IsHeap
<1>2. NoBuffers \in [Buffer -> 0..HeapSize]
  BY SessionAssumption DEF NoBuffers, Null
<1> QED
  BY <1>1, <1>2 DEF HeapHolds, IsHeap

------------------------------------------------------------------------------
(* The invariant                                                           *)

Early == {"idle", "open", "space", "reading", "decrypting", "signing", "embedding", "injecting",
          "verifying", "building"}
Unopened == {"idle", "open", "space", "reading"}
Late == {"unpatching", "deleting", "writingOsd", "writingDummies", "execIcons", "bootIcons",
         "config", "usbd", "usbhdfsd", "configurator", "elf", "apps", "scanning", "patching"}
Spare == {"boot", "cnf", "osd"}

(* What is allocated at step s of the job of button b: the buffers a step  *)
(* still reads, and no other.                                              *)
Live(s, b, h) ==
  CASE s = "decrypting" -> {"orig"}
    [] s \in {"signing", "embedding"} -> {"orig", "decr"}
    [] s = "injecting" ->
         {"orig", "decr"} \cup (IF h.ptr["bootelf"] = Null THEN {} ELSE {"bootelf"})
    [] s = "verifying" -> {"orig", "decr", "injected"}
    [] s = "building" -> {"orig", "injected"}
    [] s \in Late -> IF b = "uninstall" THEN {} ELSE {"hacked"}
    [] OTHER -> {}

(* The pointers Install_Hack frees once too often point to nothing that is *)
(* allocated; that of the launcher is null until it is read.               *)
HeapAt(s, b, h) ==
  /\ HeapHolds(h, Live(s, b, h))
  /\ \A c \in Spare : h.ptr[c] \notin h.used /\ (s \in Early => h.ptr[c] = Null)
  /\ s \in Unopened \cup {"decrypting", "signing", "embedding"} => h.ptr["bootelf"] = Null

Uninstalling == {"unpatching", "deleting", "modifying"}
Fits(s, b) == /\ s \in Early \cup Late \cup {"modifying"}
              /\ s # "idle"
              /\ b \in JobButtons
              /\ b = "uninstall" => s \in Uninstalling
              /\ s = "modifying" => b = "uninstall"

(* Lines of the log before step s.                                         *)
Before(s, b) ==
  LET m == IF b = "multi" THEN 1 ELSE 0 IN
  CASE s \in {"open", "space"} -> 0
    [] s = "reading" -> 2      [] s = "decrypting" -> 3   [] s = "signing" -> 4
    [] s = "embedding" -> 5    [] s = "injecting" -> 6    [] s = "verifying" -> 7
    [] s = "building" -> 8     [] s = "unpatching" -> 9   [] s = "deleting" -> 10
    [] s \in {"writingOsd", "modifying"} -> 11           [] s = "writingDummies" -> 12
    [] s = "execIcons" -> 12 + m   [] s = "bootIcons" -> 13 + m
    [] s = "config" -> 14 + m       [] s = "usbd" -> 15 + m
    [] s = "usbhdfsd" -> 16 + m     [] s = "configurator" -> 17 + m
    [] s = "elf" -> 18 + m          [] s = "apps" -> 19 + m
    [] s = "scanning" -> 20 + m     [] s = "patching" -> 21 + m
    [] OTHER -> 0

IsUi == ui = [at |-> ui.at, button |-> ui.button, log |-> ui.log, logo |-> ui.logo,
              port |-> ui.port, said |-> ui.said]
IsJob == /\ job = [step |-> job.step, lines |-> job.lines, failed |-> job.failed,
                   left |-> job.left, short |-> job.short, slack |-> job.slack]
         /\ job.lines \in Nat

Working ==
  /\ Fits(job.step, Button)
  /\ job.lines <= Before(job.step, Button)
  /\ job.failed \subseteq {"unpatching"}
Waiting ==
  /\ job.step = "idle"
  /\ job.lines <= 22 + (IF Multi THEN 1 ELSE 0)
  /\ SuccessUnmarked

IInv ==
  /\ IsUi /\ IsJob
  /\ IF ui.at = "work" THEN Working ELSE Waiting
  /\ HeapAt(job.step, Button, heap)

(* A step of a job that goes on, and one that ends it.                     *)
Goes(n, d, h) ==
  /\ UNCHANGED ui
  /\ IsJob' /\ job'.step = n /\ job'.lines = job.lines + d
  /\ job'.failed \subseteq job.failed \cup {"unpatching"}
  /\ heap' = h
Finishes(d, h) ==
  /\ IsUi' /\ ui'.at = "menu" /\ ui'.button = ui.button
  /\ IsJob' /\ job'.step = "idle" /\ job'.lines = job.lines + d
  /\ ui'.said = "installed" => job'.failed = job.failed
  /\ heap' = [h EXCEPT !.ptr = NoBuffers]

LEMMA GoesOn ==
  ASSUME IInv, ui.at = "work", NEW n, NEW d \in Nat, NEW h, Goes(n, d, h),
         Fits(n, Button), job.lines + d <= Before(n, Button), HeapAt(n, Button, h)
  PROVE  IInv'
<1>1. Button' = Button /\ ui' = ui /\ IsUi'
  BY DEF Goes, Button, IInv, IsUi
<1>2. HeapAt(job.step, Button, heap)'
  BY <1>1 DEF Goes, HeapAt, HeapHolds, IsHeap, Live
<1>3. Working'
  BY <1>1 DEF Goes, Working, Fits, Before, IInv
<1> QED
  BY <1>1, <1>2, <1>3 DEF Goes, IInv

LEMMA Ends ==
  ASSUME IInv, ui.at = "work", NEW d \in Nat, NEW h, Finishes(d, h),
         job.lines + d <= 22 + (IF Multi THEN 1 ELSE 0), HeapHolds(h, {})
  PROVE  IInv'
<1>1. Button' = Button /\ (Multi' <=> Multi)
  BY DEF Finishes, Button, Multi
<1>2. HeapAt("idle", Button, heap)'
  <2>1. HeapHolds(heap', {}) /\ heap'.ptr = NoBuffers
    BY ForgetHolds DEF Finishes
  <2>2. heap'.used \subseteq 1..HeapSize /\ \A c \in Buffer : heap'.ptr[c] = Null
    BY <2>1 DEF NoBuffers, HeapHolds, IsHeap
  <2>3. Live("idle", Button', heap') = {}
    BY DEF Live, Late
  <2> QED
    BY <2>1, <2>2, <2>3 DEF HeapAt, Spare, Buffer, Null, HeapHolds, IsHeap
<1>3. Waiting'
  BY <1>1 DEF Finishes, Waiting, SuccessUnmarked, IInv, Working
<1> QED
  BY <1>2, <1>3 DEF Finishes, IInv

------------------------------------------------------------------------------
(* The log and the end of a job, by the fields they change                 *)

Rec(s, n, f, l, k, g) ==
  [step |-> s, lines |-> n, failed |-> f, left |-> l, short |-> k, slack |-> g]
JobWith(s, n, f, l) == Rec(s, n, f, l, job.short, job.slack)
Line(n, failed) == Rec(n, job.lines + 1, failed, 0, 0, 0)

LEMMA JobFields ==
  ASSUME IsJob
  PROVE  job = JobWith(job.step, job.lines, job.failed, job.left)
BY DEF IsJob, JobWith, Rec

LEMMA LineFields ==
  ASSUME IsJob, NEW n, NEW b
  PROVE  [job EXCEPT !.lines = @ + 1, !.step = n, !.failed = b,
                     !.left = 0, !.short = 0, !.slack = 0] = Rec(n, job.lines + 1, b, 0, 0, 0)
<1> DEFINE r1 == [job EXCEPT !.lines = @ + 1]
           r2 == [r1 EXCEPT !.step = n]
           r3 == [r2 EXCEPT !.failed = b]
           r4 == [r3 EXCEPT !.left = 0]
           r5 == [r4 EXCEPT !.short = 0]
           r6 == [r5 EXCEPT !.slack = 0]
<1>1. r6 = [job EXCEPT !.lines = @ + 1, !.step = n, !.failed = b,
                       !.left = 0, !.short = 0, !.slack = 0]
  OBVIOUS
<1>2. r1 = Rec(job.step, job.lines + 1, job.failed, job.left, job.short, job.slack)
  BY DEF IsJob, Rec
<1> HIDE DEF r1
<1>3. r2 = Rec(n, job.lines + 1, job.failed, job.left, job.short, job.slack)
  BY <1>2 DEF Rec
<1> HIDE DEF r2
<1>4. r3 = Rec(n, job.lines + 1, b, job.left, job.short, job.slack)
  BY <1>3 DEF Rec
<1> HIDE DEF r3
<1>5. r4 = Rec(n, job.lines + 1, b, 0, job.short, job.slack)
  BY <1>4 DEF Rec
<1> HIDE DEF r4
<1>6. r5 = Rec(n, job.lines + 1, b, 0, 0, job.slack)
  BY <1>5 DEF Rec
<1> HIDE DEF r5
<1>7. r6 = Rec(n, job.lines + 1, b, 0, 0, 0)
  BY <1>6 DEF Rec
<1> HIDE DEF r6
<1> QED
  BY <1>1, <1>7

LEMMA LoggedFields ==
  ASSUME IsJob, NEW n
  PROVE  /\ Logged(n, FALSE) = Line(n, job.failed)
         /\ Logged(n, TRUE) = Line(n, job.failed \cup {job.step})
<1>1. Logged(n, FALSE) = [job EXCEPT !.lines = @ + 1, !.step = n, !.failed = job.failed,
                            !.left = 0, !.short = 0, !.slack = 0]
  BY DEF Logged
<1>2. Logged(n, TRUE) = [job EXCEPT !.lines = @ + 1, !.step = n, !.failed = job.failed \cup {job.step},
                           !.left = 0, !.short = 0, !.slack = 0]
  BY DEF Logged
<1>3. \A b : [job EXCEPT !.lines = @ + 1, !.step = n, !.failed = b,
                         !.left = 0, !.short = 0, !.slack = 0]
                = Rec(n, job.lines + 1, b, 0, 0, 0)
  BY LineFields
<1> QED
  BY <1>1, <1>2, <1>3, Zenon DEF Line

LEMMA PassFields ==
  ASSUME IsJob, NEW n
  PROVE  [job EXCEPT !.step = n, !.left = 0] = JobWith(n, job.lines, job.failed, 0)
<1> DEFINE r1 == [job EXCEPT !.step = n]
           r2 == [r1 EXCEPT !.left = 0]
<1>1. r2 = [job EXCEPT !.step = n, !.left = 0]
  OBVIOUS
<1>2. r1 = JobWith(n, job.lines, job.failed, job.left)
  BY DEF IsJob, Rec, JobWith
<1> HIDE DEF r1
<1>3. r2 = JobWith(n, job.lines, job.failed, 0)
  BY <1>2 DEF Rec, JobWith
<1> QED
  BY <1>1, <1>3

(* A record with the fields of a job, and its fields.                      *)
LEMMA RecFields ==
  ASSUME NEW r, NEW s, NEW n \in Nat, NEW f, NEW l, NEW k, NEW g, r = Rec(s, n, f, l, k, g)
  PROVE  /\ r = [step |-> r.step, lines |-> r.lines, failed |-> r.failed,
                 left |-> r.left, short |-> r.short, slack |-> r.slack]
         /\ r.step = s /\ r.lines = n /\ r.failed = f
BY DEF Rec

LEMMA GoesTo ==
  ASSUME NEW s, NEW d \in Nat, NEW f, NEW l, NEW k, NEW g,
         job' = Rec(s, job.lines + d, f, l, k, g), UNCHANGED ui, IsJob,
         f \subseteq job.failed \cup {"unpatching"}
  PROVE  Goes(s, d, heap')
<1>1. job.lines + d \in Nat
  BY DEF IsJob
<1> QED
  BY <1>1, RecFields DEF Goes, IsJob

LEMMA Advances ==
  ASSUME IsJob, NEW n, Advance(n), UNCHANGED ui
  PROVE  Goes(n, 1, heap')
<1>1. job' = Line(n, job.failed)
  BY LoggedFields DEF Advance
<1> QED
  BY <1>1, GoesTo DEF Line

LEMMA PassesOver ==
  ASSUME IsJob, NEW n, PassOver(n), UNCHANGED ui
  PROVE  Goes(n, 0, heap')
<1>1. job' = JobWith(n, job.lines, job.failed, 0)
  BY PassFields DEF PassOver
<1>2. job.lines + 0 = job.lines
  BY DEF IsJob
<1> QED
  BY <1>1, <1>2, GoesTo DEF JobWith

LEMMA Returns ==
  ASSUME IsUi, NEW said, NEW hide, Return(said, hide)
  PROVE  IsUi' /\ ui'.at = "menu" /\ ui'.button = ui.button /\ ui'.said = said
<1>1. \/ Screen(hide) = [ui EXCEPT !.at = "menu", !.log = FALSE, !.logo = TRUE]
      \/ Screen(hide) = [ui EXCEPT !.at = "menu"]
      \/ Screen(hide) = [ui EXCEPT !.at = "menu", !.logo = TRUE]
  BY DEF Screen
<1>2. ui' = [Screen(hide) EXCEPT !.said = said]
  BY DEF Return
<1> QED
  BY <1>1, <1>2 DEF IsUi


LEMMA JobEnds ==
  ASSUME IsUi, IsJob, NEW said, NEW hide, NEW h, NEW log, NEW d \in Nat,
         NEW f, NEW l, NEW k, NEW g, NEW s, log = Rec(s, job.lines + d, f, l, k, g),
         said = "installed" => f = job.failed,
         EndJob(said, hide, log, h)
  PROVE  Finishes(d, h)
<1>1. Return(said, hide) /\ job' = [log EXCEPT !.step = "idle"] /\ heap' = [h EXCEPT !.ptr = NoBuffers]
  BY DEF EndJob
<1>2. IsUi' /\ ui'.at = "menu" /\ ui'.button = ui.button /\ ui'.said = said
  BY <1>1, Returns
<1>3. job' = Rec("idle", job.lines + d, f, l, k, g)
  BY <1>1 DEF Rec
<1>4. job.lines + d \in Nat
  BY DEF IsJob
<1> QED
  BY <1>1, <1>2, <1>3, <1>4, RecFields DEF Finishes, IsJob

------------------------------------------------------------------------------
(* Run_Hack: what each step gets and frees                                 *)

WorkSteps == {"reading", "decrypting", "signing", "embedding", "injecting", "verifying", "building"}

LEMMA WorkDomain == DOMAIN Work = WorkSteps
BY DEF Work, WorkSteps

(* The exits free what is live, and at most a pointer that is null.        *)
Frees(h, F, B) == B \subseteq F /\ \A b \in F : b \in B \/ h.ptr[b] = Null

LEMMA FreesAll ==
  ASSUME NEW h, NEW B, NEW F, HeapHolds(h, B), Frees(h, F, B)
  PROVE  HeapHolds(Free(h, F), {})
<1>1. Null \notin h.used
  BY DEF HeapHolds, IsHeap, Null
<1>2. \A b \in F : b \in B \/ h.ptr[b] \notin h.used
  BY <1>1 DEF Frees
<1>3. B \ F = {}
  BY DEF Frees
<1> QED
  BY <1>2, <1>3, FreeHolds

LEMMA LiveTable ==
  ASSUME NEW b, NEW h
  PROVE  /\ \A s \in Unopened \cup {"modifying"} : Live(s, b, h) = {}
         /\ Live("decrypting", b, h) = {"orig"}
         /\ Live("signing", b, h) = {"orig", "decr"}
         /\ Live("embedding", b, h) = {"orig", "decr"}
         /\ Live("injecting", b, h) =
              {"orig", "decr"} \cup (IF h.ptr["bootelf"] = Null THEN {} ELSE {"bootelf"})
         /\ Live("verifying", b, h) = {"orig", "decr", "injected"}
         /\ Live("building", b, h) = {"orig", "injected"}
         /\ \A s \in Late : Live(s, b, h) = IF b = "uninstall" THEN {} ELSE {"hacked"}
BY DEF Live, Late, Unopened

LEMMA WorkTable ==
  /\ Work["reading"] = [next |-> "decrypting", gets |-> {"orig"}, noMem |-> {}, err |-> {}, ok |-> {}]
  /\ Work["decrypting"] = [next |-> "signing", gets |-> {"decr"}, noMem |-> {"orig"},
                           err |-> {"orig", "decr"}, ok |-> {}]
  /\ Work["signing"] = [next |-> "embedding", gets |-> {}, noMem |-> {}, err |-> {"orig", "decr"}, ok |-> {}]
  /\ Work["embedding"] = [next |-> "injecting", gets |-> {"bootelf"}, noMem |-> {"orig", "decr"},
                          err |-> {}, ok |-> {}]
  /\ Work["injecting"] = [next |-> "verifying", gets |-> {"injected"}, noMem |-> {"orig", "decr", "bootelf"},
                          err |-> {"orig", "decr", "injected", "bootelf"}, ok |-> {"bootelf"}]
  /\ Work["verifying"] = [next |-> "building", gets |-> {}, noMem |-> {},
                          err |-> {"orig", "injected", "decr"}, ok |-> {"decr"}]
  /\ Work["building"] = [next |-> "unpatching", gets |-> {"hacked"}, noMem |-> {"orig", "injected"},
                         err |-> {"orig", "injected", "hacked"}, ok |-> {"injected", "orig"}]
BY DEF Work

LEMMA GetsOf ==
  ASSUME NEW s \in WorkSteps
  PROVE  \/ Work[s].gets = {}
         \/ s = "reading" /\ Work[s].gets = {"orig"}
         \/ s = "decrypting" /\ Work[s].gets = {"decr"}
         \/ s = "embedding" /\ Work[s].gets = {"bootelf"}
         \/ s = "injecting" /\ Work[s].gets = {"injected"}
         \/ s = "building" /\ Work[s].gets = {"hacked"}
BY WorkTable DEF WorkSteps

LEMMA NoMemOf ==
  ASSUME NEW s \in WorkSteps, Work[s].gets # {}, HeapAt(s, Button, heap)
  PROVE  Frees(heap, Work[s].noMem, Live(s, Button, heap))
<1>1. CASE s = "reading"
  BY <1>1 DEF Work, WorkSteps, Live, Late, Frees, HeapAt, Unopened
<1>2. CASE s = "decrypting"
  BY <1>2 DEF Work, WorkSteps, Live, Late, Frees, HeapAt, Unopened
<1>3. CASE s = "embedding"
  BY <1>3 DEF Work, WorkSteps, Live, Late, Frees, HeapAt, Unopened
<1>4. CASE s = "injecting"
  BY <1>4 DEF Work, WorkSteps, Live, Late, Frees, HeapAt, Unopened
<1>5. CASE s = "building"
  BY <1>5 DEF Work, WorkSteps, Live, Late, Frees, HeapAt, Unopened
<1>6. CASE s \in {"signing", "verifying"}
  BY <1>6 DEF Work
<1> QED
  BY <1>1, <1>2, <1>3, <1>4, <1>5, <1>6 DEF WorkSteps

LEMMA ErrOf ==
  ASSUME NEW s \in WorkSteps, Work[s].err # {}
  PROVE  /\ Live(s, Button, heap) \subseteq Work[s].err
         /\ Work[s].gets \subseteq Work[s].err
         /\ \A b \in Work[s].err : \/ b \in Live(s, Button, heap) \cup Work[s].gets
                                   \/ b = "bootelf" /\ heap.ptr[b] = Null
<1>1. CASE s \in {"reading", "embedding"}
  BY <1>1, WorkTable
<1>2. CASE s = "decrypting"
  <2>1. Live("decrypting", Button, heap) = {"orig"}
    BY LiveTable
  <2>2. Work["decrypting"].gets = {"decr"} /\ Work["decrypting"].err = {"orig", "decr"}
    BY WorkTable
  <2> QED
    BY <1>2, <2>1, <2>2
<1>3. CASE s = "signing"
  <2>1. Live("signing", Button, heap) = {"orig", "decr"}
    BY LiveTable
  <2>2. Work["signing"].gets = {} /\ Work["signing"].err = {"orig", "decr"}
    BY WorkTable
  <2> QED
    BY <1>3, <2>1, <2>2
<1>4. CASE s = "injecting"
  <2>1. Live("injecting", Button, heap) = {"orig", "decr"} \cup (IF heap.ptr["bootelf"] = Null THEN {} ELSE {"bootelf"})
    BY LiveTable
  <2>2. Work["injecting"].gets = {"injected"} /\ Work["injecting"].err = {"orig", "decr", "injected", "bootelf"}
    BY WorkTable
  <2> QED
    BY <1>4, <2>1, <2>2
<1>5. CASE s = "verifying"
  <2>1. Live("verifying", Button, heap) = {"orig", "decr", "injected"}
    BY LiveTable
  <2>2. Work["verifying"].gets = {} /\ Work["verifying"].err = {"orig", "injected", "decr"}
    BY WorkTable
  <2> QED
    BY <1>5, <2>1, <2>2
<1>6. CASE s = "building"
  <2>1. Live("building", Button, heap) = {"orig", "injected"}
    BY LiveTable
  <2>2. Work["building"].gets = {"hacked"} /\ Work["building"].err = {"orig", "injected", "hacked"}
    BY WorkTable
  <2> QED
    BY <1>6, <2>1, <2>2
<1> QED
  BY <1>1, <1>2, <1>3, <1>4, <1>5, <1>6 DEF WorkSteps

(* What a step leaves live is what the next one reads.                     *)
LEMMA OkOf ==
  ASSUME NEW s \in WorkSteps \ {"injecting", "signing"}, HeapAt(s, Button, heap), Button # "uninstall",
         NEW h, s = "embedding" => h.ptr["bootelf"] # Null
  PROVE  LET B == Live(s, Button, heap) \cup Work[s].gets
         IN  Work[s].ok \subseteq B /\ B \ Work[s].ok = Live(Work[s].next, Button, h)
<1>1. CASE s = "reading"
  BY <1>1 DEF Work, Live, Late
<1>2. CASE s = "decrypting"
  BY <1>2 DEF Work, Live, Late
<1>3. CASE s = "embedding"
  BY <1>3 DEF Work, Live, Late
<1>4. CASE s = "verifying"
  BY <1>4 DEF Work, Live, Late
<1>5. CASE s = "building"
  BY <1>5 DEF Work, Live, Late
<1> QED
  BY <1>1, <1>2, <1>3, <1>4, <1>5 DEF WorkSteps

(* What a step gets is a buffer that is not live, at an address of its own.*)
LEMMA GotHolds ==
  ASSUME NEW s \in WorkSteps, HeapAt(s, Button, heap), s = "injecting" => Button # "uninstall",
         Work[s].gets # {} => CanAlloc(heap)
  PROVE  /\ HeapHolds(Got(s), Live(s, Button, heap) \cup Work[s].gets)
         /\ \A c \in Buffer \ Work[s].gets : Got(s).ptr[c] = heap.ptr[c]
         /\ Got(s).leaked = heap.leaked
<1> DEFINE B == Live(s, Button, heap)
<1>1. CASE Work[s].gets = {}
  <2>1. Got(s) = heap /\ B \cup Work[s].gets = B
    BY <1>1 DEF Got
  <2> QED
    BY <2>1 DEF HeapAt
<1>2. CASE Work[s].gets # {}
  <2>1. PICK b \in Buffer \ B : Work[s].gets = {b}
    <3>1. PICK b \in Buffer : /\ Work[s].gets = {b}
                              /\ <<s, b>> \in {<<"reading", "orig">>, <<"decrypting", "decr">>,
                                    <<"embedding", "bootelf">>, <<"injecting", "injected">>,
                                    <<"building", "hacked">>}
      BY <1>2, GetsOf DEF Buffer, WorkSteps
    <3>2. b \notin B
      BY <3>1 DEF Live, Late
    <3> QED
      BY <3>1, <3>2
  <2>2. Got(s) = Alloc(heap, b)
    BY <2>1 DEF Got
  <2> QED
    BY <1>2, <2>1, <2>2, AllocHolds DEF HeapAt
<1> QED
  BY <1>1, <1>2

------------------------------------------------------------------------------
(* The steps of Run_Hack                                                   *)

Room(d) == job.lines + d <= 22 + (IF Multi THEN 1 ELSE 0)

(* An exit without a mark, with a mark, and the last line of all.          *)
LEMMA Exits ==
  ASSUME IInv, ui.at = "work", NEW said, NEW hide, NEW h, HeapHolds(h, {}),
         \/ EndJob(said, hide, job, h) /\ Room(0)
         \/ EndJob(said, hide, [job EXCEPT !.lines = @ + 1], h) /\ Room(1)
         \/ EndJob(said, hide, [job EXCEPT !.lines = @ + 2], h) /\ Room(2)
         \/ EndJob(said, hide, Logged("idle", FALSE), h) /\ Room(1)
         \/ EndJob(said, hide, Logged("idle", TRUE), h) /\ Room(1) /\ said # "installed"
  PROVE  IInv'
<1> USE DEF Room
<1>1. IsUi /\ IsJob
  BY DEF IInv
<1> DEFINE R(d) == Rec(job.step, job.lines + d, job.failed, job.left, job.short, job.slack)
<1>2. /\ job = R(0)
      /\ [job EXCEPT !.lines = @ + 1] = R(1)
      /\ [job EXCEPT !.lines = @ + 2] = R(2)
  BY <1>1 DEF IsJob, Rec
<1>3. CASE EndJob(said, hide, job, h) /\ Room(0)
  BY <1>1, <1>2, <1>3, JobEnds, Ends
<1>4. CASE EndJob(said, hide, [job EXCEPT !.lines = @ + 1], h) /\ Room(1)
  BY <1>1, <1>2, <1>4, JobEnds, Ends
<1>5. CASE EndJob(said, hide, [job EXCEPT !.lines = @ + 2], h) /\ Room(2)
  BY <1>1, <1>2, <1>5, JobEnds, Ends
<1>6. CASE EndJob(said, hide, Logged("idle", FALSE), h) /\ Room(1)
  BY <1>1, <1>6, LoggedFields, JobEnds, Ends DEF Line
<1>7. CASE EndJob(said, hide, Logged("idle", TRUE), h) /\ Room(1) /\ said # "installed"
  BY <1>1, <1>7, LoggedFields, JobEnds, Ends DEF Line
<1> QED
  BY <1>3, <1>4, <1>5, <1>6, <1>7

LEMMA Fails ==
  ASSUME IInv, ui.at = "work", NEW h, HeapHolds(h, {}), Fail(h), Room(1)
  PROVE  IInv'
BY Exits DEF Fail

LEMMA BeforeTable ==
  ASSUME NEW b
  PROVE  /\ Before("open", b) = 0 /\ Before("space", b) = 0 /\ Before("reading", b) = 2
         /\ Before("decrypting", b) = 3 /\ Before("signing", b) = 4 /\ Before("embedding", b) = 5
         /\ Before("injecting", b) = 6 /\ Before("verifying", b) = 7 /\ Before("building", b) = 8
         /\ Before("unpatching", b) = 9 /\ Before("deleting", b) = 10
         /\ Before("writingOsd", b) = 11 /\ Before("modifying", b) = 11
         /\ Before("writingDummies", b) = 12
         /\ b = "multi" =>
              /\ Before("execIcons", b) = 13 /\ Before("bootIcons", b) = 14 /\ Before("config", b) = 15
              /\ Before("usbd", b) = 16 /\ Before("usbhdfsd", b) = 17 /\ Before("configurator", b) = 18
              /\ Before("elf", b) = 19 /\ Before("apps", b) = 20 /\ Before("scanning", b) = 21
              /\ Before("patching", b) = 22
         /\ b # "multi" =>
              /\ Before("execIcons", b) = 12 /\ Before("bootIcons", b) = 13 /\ Before("config", b) = 14
              /\ Before("usbd", b) = 15 /\ Before("usbhdfsd", b) = 16 /\ Before("configurator", b) = 17
              /\ Before("elf", b) = 18 /\ Before("apps", b) = 19 /\ Before("scanning", b) = 20
              /\ Before("patching", b) = 21
BY DEF Before

LEMMA Started ==
  ASSUME IInv, NEW s, At(s)
  PROVE  /\ ui.at = "work" /\ IsUi /\ IsJob /\ Fits(s, Button)
         /\ job.lines \in Nat /\ job.lines <= Before(s, Button)
         /\ HeapAt(s, Button, heap) /\ HeapHolds(heap, Live(s, Button, heap))
         /\ (Multi <=> Button = "multi")
BY DEF IInv, At, Working, IsJob, HeapAt, Multi

LEMMA InHack ==
  ASSUME IInv, NEW s \in WorkSteps, At(s)
  PROVE  Button \in {"install", "multi"} /\ job.lines <= 8 /\ Room(1)
<1>1. Button \in JobButtons /\ (Button = "uninstall" => s \in Uninstalling) /\ job.lines <= Before(s, Button)
      /\ job.lines \in Nat
  BY Started DEF Fits
<1>2. Before(s, Button) \in 0..8
  <2>1. /\ Before("reading", Button) = 2 /\ Before("decrypting", Button) = 3
        /\ Before("signing", Button) = 4 /\ Before("embedding", Button) = 5
        /\ Before("injecting", Button) = 6 /\ Before("verifying", Button) = 7
        /\ Before("building", Button) = 8
    BY BeforeTable
  <2> QED
    BY <2>1 DEF WorkSteps
<1> QED
  BY <1>1, <1>2 DEF JobButtons, Uninstalling, WorkSteps, Room

LEMMA NoMemorySteps ==
  ASSUME IInv, NEW s \in WorkSteps, NoMemory(s)
  PROVE  IInv'
<1>1. At(s) /\ Work[s].gets # {}
  BY DEF NoMemory
<1>2. ui.at = "work" /\ Room(1)
  BY <1>1, InHack, Started
<1> DEFINE h == Free(heap, Work[s].noMem)
<1>3. HeapHolds(h, {})
  BY <1>1, Started, NoMemOf, FreesAll
<1>4. EndJob("error", FALSE, [job EXCEPT !.lines = @ + 1], h) \/ Fail(h)
  BY DEF NoMemory
<1> HIDE DEF h
<1> QED
  BY <1>2, <1>3, <1>4, Exits, Fails

LEMMA WorkFailsSteps ==
  ASSUME IInv, NEW s \in WorkSteps, WorkFails(s)
  PROVE  IInv'
<1>1. At(s) /\ Work[s].err # {} /\ (Work[s].gets # {} => CanAlloc(heap)) /\ Fail(Free(Got(s), Work[s].err))
  BY DEF WorkFails
<1>2. /\ ui.at = "work" /\ Room(1) /\ Button # "uninstall"
      /\ HeapAt(s, Button, heap)
  BY <1>1, InHack, Started
<1> DEFINE B == Live(s, Button, heap) \cup Work[s].gets
<1>3. HeapHolds(Got(s), B) /\ \A c \in Buffer \ Work[s].gets : Got(s).ptr[c] = heap.ptr[c]
  BY <1>1, <1>2, GotHolds
<1>4. Frees(Got(s), Work[s].err, B)
  <2>1. /\ B \subseteq Work[s].err
        /\ \A b \in Work[s].err : b \in B \/ (b = "bootelf" /\ heap.ptr[b] = Null)
    <3>1. /\ Live(s, Button, heap) \subseteq Work[s].err
          /\ Work[s].gets \subseteq Work[s].err
          /\ \A b \in Work[s].err : \/ b \in Live(s, Button, heap) \cup Work[s].gets
                                    \/ b = "bootelf" /\ heap.ptr[b] = Null
      BY <1>1, ErrOf
    <3> QED
      BY <3>1
  <2>2. "bootelf" \in B \/ Got(s).ptr["bootelf"] = heap.ptr["bootelf"]
    BY <1>3 DEF Buffer
  <2> QED
    BY <2>1, <2>2 DEF Frees
<1>5. HeapHolds(Free(Got(s), Work[s].err), {})
  <2> HIDE DEF B
  <2> QED
    BY <1>3, <1>4, FreesAll
<1> QED
  BY <1>1, <1>2, <1>5, Fails

(* The next step, its line of the log and its button.                      *)
LEMMA NextOf ==
  ASSUME NEW s \in WorkSteps, Button \in {"install", "multi"}
  PROVE  LET n == Work[s].next
         IN  /\ Fits(n, Button) /\ Before(n, Button) = Before(s, Button) + 1 /\ Before(s, Button) \in Nat
             /\ n \in {"decrypting", "signing", "embedding", "injecting", "verifying", "building", "unpatching"}
             /\ (s = "embedding" <=> n = "injecting") /\ (s = "injecting" <=> n = "verifying")
             /\ (s = "building" <=> n = "unpatching") /\ (s = "verifying" <=> n = "building")
             /\ (n \in {"decrypting", "signing", "embedding"} <=> s \in {"reading", "decrypting", "signing"})
<1>1. /\ Before("reading", Button) = 2 /\ Before("decrypting", Button) = 3
      /\ Before("signing", Button) = 4 /\ Before("embedding", Button) = 5
      /\ Before("injecting", Button) = 6 /\ Before("verifying", Button) = 7
      /\ Before("building", Button) = 8 /\ Before("unpatching", Button) = 9
  BY BeforeTable
<1>2. /\ Work["reading"].next = "decrypting" /\ Work["decrypting"].next = "signing"
      /\ Work["signing"].next = "embedding" /\ Work["embedding"].next = "injecting"
      /\ Work["injecting"].next = "verifying" /\ Work["verifying"].next = "building"
      /\ Work["building"].next = "unpatching"
  BY WorkTable
<1>3. Button \in JobButtons /\ Button # "uninstall"
  BY DEF JobButtons
<1>4. /\ Before(Work[s].next, Button) = Before(s, Button) + 1 /\ Before(s, Button) \in Nat
      /\ Work[s].next \in {"decrypting", "signing", "embedding", "injecting", "verifying", "building", "unpatching"}
  BY <1>1, <1>2 DEF WorkSteps
<1>5. /\ (s = "embedding" <=> Work[s].next = "injecting") /\ (s = "injecting" <=> Work[s].next = "verifying")
      /\ (s = "building" <=> Work[s].next = "unpatching") /\ (s = "verifying" <=> Work[s].next = "building")
      /\ (Work[s].next \in {"decrypting", "signing", "embedding"} <=> s \in {"reading", "decrypting", "signing"})
  BY <1>2 DEF WorkSteps
<1> QED
  BY <1>3, <1>4, <1>5 DEF Fits, Early, Late

LEMMA ToNext ==
  ASSUME IInv, NEW s \in WorkSteps, At(s), NEW h,
         HeapHolds(h, Live(Work[s].next, Button, h)),
         \A c \in Spare : h.ptr[c] = Null,
         s \in {"reading", "decrypting", "signing"} => h.ptr["bootelf"] = Null,
         Goes(Work[s].next, 1, h) \/ (s = "embedding" /\ Goes("injecting", 0, h))
  PROVE  IInv'
<1> DEFINE n == Work[s].next
<1>1. /\ ui.at = "work" /\ Button \in {"install", "multi"} /\ job.lines \in Nat
      /\ job.lines <= Before(s, Button)
  BY InHack, Started
<1>2. /\ Fits(n, Button) /\ Before(n, Button) = Before(s, Button) + 1
      /\ n \in {"decrypting", "signing", "embedding", "injecting", "verifying", "building", "unpatching"}
      /\ (s = "embedding" => n = "injecting")
      /\ (n \in {"decrypting", "signing", "embedding"} <=> s \in {"reading", "decrypting", "signing"})
  BY <1>1, NextOf
<1>3. Null \notin h.used
  BY DEF HeapHolds, IsHeap, Null
<1>4. HeapAt(n, Button, h)
  BY <1>2, <1>3 DEF HeapAt, Unopened
<1>5. Before(s, Button) \in Nat
  BY <1>1, NextOf
<1>6. job.lines + 1 <= Before(n, Button) /\ job.lines + 0 <= Before(n, Button)
  BY <1>1, <1>2, <1>5
<1> HIDE DEF n
<1>7. CASE Goes(n, 1, h)
  BY <1>1, <1>2, <1>4, <1>6, <1>7, GoesOn
<1>8. CASE n = "injecting" /\ Goes("injecting", 0, h)
  BY <1>1, <1>2, <1>4, <1>6, <1>8, GoesOn
<1> QED
  BY <1>2, <1>7, <1>8 DEF n

LEMMA EarlySpare ==
  ASSUME IInv, NEW s \in WorkSteps, At(s)
  PROVE  /\ \A c \in Spare : heap.ptr[c] = Null
         /\ s \in {"reading", "decrypting", "signing", "embedding"} => heap.ptr["bootelf"] = Null
<1>1. s \in Early
  BY DEF Early, WorkSteps
<1> QED
  BY <1>1, Started DEF HeapAt, Unopened

LEMMA WorkDoneSteps ==
  ASSUME IInv, NEW s \in WorkSteps, WorkDone(s)
  PROVE  IInv'
<1> DEFINE h == Free(Got(s), Work[s].ok)
           B == Live(s, Button, heap) \cup Work[s].gets
<1>1. /\ At(s) /\ s \notin {"injecting", "signing"} /\ (Work[s].gets # {} => CanAlloc(heap))
      /\ heap' = h /\ Advance(Work[s].next) /\ UNCHANGED ui
  BY DEF WorkDone, Continue
<1>2. IsJob /\ HeapAt(s, Button, heap) /\ Button # "uninstall"
  BY <1>1, InHack, Started
<1>3. /\ HeapHolds(Got(s), B)
      /\ \A c \in Buffer \ Work[s].gets : Got(s).ptr[c] = heap.ptr[c]
  BY <1>1, <1>2, GotHolds
<1>4. s = "embedding" => Got(s).ptr["bootelf"] # Null
  <2>1. s = "embedding" => "bootelf" \in B
    BY WorkTable
  <2> HIDE DEF B
  <2> QED
    BY <1>3, <2>1 DEF HeapHolds, IsHeap, Null
<1>5. Work[s].ok \subseteq B /\ B \ Work[s].ok = Live(Work[s].next, Button, Got(s))
  BY <1>1, <1>2, <1>4, OkOf
<1>6. HeapHolds(h, B \ Work[s].ok) /\ h.ptr = Got(s).ptr
  <2> HIDE DEF B
  <2> QED
    BY <1>3, <1>5, FreeHolds
<1>7. Live(Work[s].next, Button, h) = Live(Work[s].next, Button, Got(s))
  BY <1>6 DEF Live
<1>8. /\ \A c \in Spare : c \in Buffer \ Work[s].gets
      /\ s \in {"reading", "decrypting", "signing"} => "bootelf" \in Buffer \ Work[s].gets
  BY GetsOf DEF Spare, Buffer, WorkSteps
<1>9. /\ \A c \in Spare : h.ptr[c] = Null
      /\ s \in {"reading", "decrypting", "signing"} => h.ptr["bootelf"] = Null
  BY <1>1, <1>3, <1>6, <1>8, EarlySpare
<1>10. Goes(Work[s].next, 1, h)
  BY <1>1, <1>2, Advances
<1> HIDE DEF h, B
<1> QED
  BY <1>1, <1>5, <1>6, <1>7, <1>9, <1>10, ToNext

LEMMA FreesNull ==
  ASSUME NEW h, NEW B, HeapHolds(h, B), NEW b \in Buffer \ B, h.ptr[b] \notin h.used
  PROVE  HeapHolds(Free(h, {b}), B) /\ Free(h, {b}).ptr = h.ptr /\ Free(h, {b}).used = h.used
<1>1. B \ {b} = B
  OBVIOUS
<1>2. HeapHolds(Free(h, {b}), B \ {b}) /\ Free(h, {b}).ptr = h.ptr
  BY FreeHolds
<1>3. Free(h, {b}).used = h.used \ {h.ptr[c] : c \in {b}}
  BY FreeFields DEF HeapHolds
<1> QED
  BY <1>1, <1>2, <1>3

LEMMA InjectSteps ==
  ASSUME IInv, InjectLauncher
  PROVE  IInv'
<1> DEFINE h == Got("injecting")
           L == Live("injecting", Button, heap)
           k == Alloc(h, "bootelf")
<1>1. /\ At("injecting") /\ CanAlloc(heap) /\ Work["injecting"].ok = {"bootelf"}
      /\ Work["injecting"].gets = {"injected"} /\ Work["injecting"].next = "verifying"
  BY WorkTable DEF InjectLauncher
<1>2. /\ ui.at = "work" /\ Room(1) /\ Button # "uninstall" /\ IsJob
      /\ HeapAt("injecting", Button, heap)
  BY <1>1, InHack, Started DEF WorkSteps
<1>3. L = {"orig", "decr"} \cup (IF heap.ptr["bootelf"] = Null THEN {} ELSE {"bootelf"})
  BY LiveTable
<1>4. /\ HeapHolds(h, L \cup {"injected"})
      /\ \A c \in Buffer \ {"injected"} : h.ptr[c] = heap.ptr[c]
      /\ h.leaked = heap.leaked
  BY <1>1, <1>2, GotHolds DEF WorkSteps
<1>5. \A c \in Spare : c \in Buffer \ {"injected", "bootelf"} /\ h.ptr[c] = Null
  BY <1>1, <1>4, EarlySpare DEF Spare, Buffer, WorkSteps
<1>6. h.ptr["bootelf"] = heap.ptr["bootelf"] /\ Null \notin h.used
  BY <1>4 DEF Buffer, HeapHolds, IsHeap, Null
<1>7. \A g : Live("verifying", Button, g) = {"orig", "decr", "injected"}
  BY LiveTable
<1>8. \A c \in {"orig", "decr", "injected", "bootelf"} : c \in Buffer
  BY DEF Buffer
<1> HIDE DEF h, L
<1>9. CASE heap' = Free(h, {"bootelf"}) /\ Advance("verifying") /\ Continue
  <2>1. HeapHolds(Free(h, {"bootelf"}), {"orig", "decr", "injected"}) /\ Free(h, {"bootelf"}).ptr = h.ptr
    <3>1. (L \cup {"injected"}) \ {"bootelf"} = {"orig", "decr", "injected"}
      BY <1>3
    <3>2. "bootelf" \in L \cup {"injected"} \/ h.ptr["bootelf"] \notin h.used
      BY <1>3, <1>6
    <3> QED
      BY <1>4, <3>1, <3>2, FreeHolds
  <2>2. Goes("verifying", 1, Free(h, {"bootelf"}))
    BY <1>2, <1>9, Advances DEF Continue
  <2> QED
    BY <1>1, <1>5, <1>7, <2>1, <2>2, ToNext DEF WorkSteps
<1>10. CASE /\ heap.ptr["bootelf"] = Null /\ CanAlloc(h)
            /\ heap' = Free(k, {"bootelf"}) /\ Advance("verifying") /\ Continue
  <2>1. L \cup {"injected"} = {"orig", "decr", "injected"}
    BY <1>3, <1>10
  <2>2. HeapHolds(Free(k, {"bootelf"}), {"orig", "decr", "injected"})
        /\ \A c \in Buffer \ {"bootelf"} : Free(k, {"bootelf"}).ptr[c] = h.ptr[c]
    <3>1. /\ HeapHolds(h, {"orig", "decr", "injected"}) /\ CanAlloc(h)
          /\ "bootelf" \in Buffer \ {"orig", "decr", "injected"}
      BY <1>4, <1>8, <1>10, <2>1
    <3> QED
      BY <3>1, AllocFree
  <2>3. Goes("verifying", 1, Free(k, {"bootelf"}))
    BY <1>2, <1>10, Advances DEF Continue
  <2> HIDE DEF k
  <2> QED
    BY <1>1, <1>5, <1>7, <2>2, <2>3, ToNext DEF WorkSteps
<1>11. CASE /\ heap.ptr["bootelf"] = Null
            /\ Fail([Free(h, {"orig", "decr"}) EXCEPT !.leaked = @ \cup {h.ptr["injected"]}])
  <2> DEFINE f == Free(h, {"orig", "decr"})
             g == [f EXCEPT !.leaked = @ \cup {h.ptr["injected"]}]
  <2>1. L \cup {"injected"} = {"orig", "decr", "injected"}
    BY <1>3, <1>11
  <2>2. HeapHolds(f, {"injected"}) /\ f.ptr = h.ptr
    <3>1. {"orig", "decr", "injected"} \ {"orig", "decr"} = {"injected"}
      OBVIOUS
    <3> QED
      BY <1>4, <2>1, <3>1, FreeHolds
  <2> HIDE DEF f
  <2>3. g = [ptr |-> f.ptr, used |-> f.used, leaked |-> f.leaked \cup {h.ptr["injected"]}]
    BY <2>2 DEF HeapHolds, IsHeap
  <2>4. f.used = {f.ptr["injected"]} \cup f.leaked
    BY <2>2 DEF HeapHolds
  <2>5. HeapHolds(g, {})
    BY <2>2, <2>3, <2>4 DEF HeapHolds, IsHeap
  <2> HIDE DEF g
  <2> QED
    BY <1>2, <1>11, <2>5, Fails DEF f, g
<1> QED
  BY <1>1, <1>9, <1>10, <1>11 DEF InjectLauncher, h

LEMMA NothingLive ==
  ASSUME IInv, NEW s, At(s), s \in Unopened \cup {"modifying"}
  PROVE  HeapHolds(heap, {})
<1>1. HeapHolds(heap, Live(s, Button, heap))
  BY Started
<1>2. Live(s, Button, heap) = {}
  BY LiveTable
<1> QED
  BY <1>1, <1>2

LEMMA OpenSteps ==
  ASSUME IInv, OpenDvdelf
  PROVE  IInv'
<1>1. /\ ui.at = "work" /\ IsJob /\ Fits("open", Button) /\ HeapHolds(heap, {})
      /\ HeapAt("open", Button, heap) /\ job.lines \in Nat /\ job.lines <= 0
      /\ Button \in {"install", "multi"}
  <2>1. At("open")
    BY DEF OpenDvdelf
  <2>2. Before("open", Button) = 0
    BY BeforeTable
  <2> QED
    BY <2>1, <2>2, Started, NothingLive DEF Unopened, Fits, JobButtons, Uninstalling
<1>2. Room(0) /\ Room(1)
  BY <1>1 DEF Room
<1>3. CASE EndJob("aborted", TRUE, job, heap) \/ EndJob("error", FALSE, [job EXCEPT !.lines = @ + 1], heap)
  BY <1>1, <1>2, <1>3, Exits
<1>4. CASE PassOver("space") /\ UNCHANGED heap /\ Continue
  <2>1. Goes("space", 0, heap)
    BY <1>1, <1>4, PassesOver DEF Continue
  <2>2. Fits("space", Button) /\ Before("space", Button) = 0
    BY <1>1, BeforeTable DEF Fits, Early, Uninstalling
  <2>3. HeapAt("space", Button, heap)
    BY <1>1, LiveTable DEF HeapAt, Early, Unopened
  <2> QED
    BY <1>1, <2>1, <2>2, <2>3, GoesOn
<1> QED
  BY <1>3, <1>4 DEF OpenDvdelf

LEMMA SpaceSteps ==
  ASSUME IInv, CheckSpace
  PROVE  IInv'
<1>1. /\ ui.at = "work" /\ IsJob /\ HeapHolds(heap, {})
      /\ HeapAt("space", Button, heap) /\ job.lines \in Nat /\ job.lines <= 0
      /\ Button \in {"install", "multi"}
  <2>1. At("space")
    BY DEF CheckSpace
  <2>2. Before("space", Button) = 0
    BY BeforeTable
  <2> QED
    BY <2>1, <2>2, Started, NothingLive DEF Unopened, Fits, JobButtons, Uninstalling
<1> DEFINE log == [job EXCEPT !.lines = @ + 2]
<1>2. \/ EndJob("error", TRUE, log, heap)
      \/ \E x, y : job' = [log EXCEPT !.step = "reading", !.short = x, !.slack = y]
                   /\ UNCHANGED <<heap, ui>>
  BY DEF CheckSpace, Continue
<1>3. Room(2)
  BY <1>1 DEF Room
<1>4. CASE EndJob("error", TRUE, log, heap)
  BY <1>1, <1>3, <1>4, Exits
<1>5. CASE \E x, y : job' = [log EXCEPT !.step = "reading", !.short = x, !.slack = y]
                     /\ UNCHANGED <<heap, ui>>
  <2>1. PICK x, y : job' = [log EXCEPT !.step = "reading", !.short = x, !.slack = y]
                    /\ UNCHANGED <<heap, ui>>
    BY <1>5
  <2> DEFINE r1 == [log EXCEPT !.step = "reading"]
             r2 == [r1 EXCEPT !.short = x]
             r3 == [r2 EXCEPT !.slack = y]
  <2>2. job' = r3
    BY <2>1
  <2>3. log = Rec(job.step, job.lines + 2, job.failed, job.left, job.short, job.slack)
    BY <1>1 DEF IsJob, Rec
  <2> HIDE DEF log
  <2>4. r1 = Rec("reading", job.lines + 2, job.failed, job.left, job.short, job.slack)
    BY <2>3 DEF Rec
  <2> HIDE DEF r1
  <2>5. r2 = Rec("reading", job.lines + 2, job.failed, job.left, x, job.slack)
    BY <2>4 DEF Rec
  <2> HIDE DEF r2
  <2>6. r3 = Rec("reading", job.lines + 2, job.failed, job.left, x, y)
    BY <2>5 DEF Rec
  <2>7. Goes("reading", 2, heap)
    <3>1. job' = Rec("reading", job.lines + 2, job.failed, job.left, x, y)
      BY <2>2, <2>6
    <3>2. Goes("reading", 2, heap')
      BY <1>1, <2>1, <3>1, GoesTo
    <3> QED
      BY <2>1, <3>2
  <2>8. Fits("reading", Button) /\ Before("reading", Button) = 2
    BY <1>1, BeforeTable DEF Fits, Early, Uninstalling, JobButtons
  <2>9. HeapAt("reading", Button, heap)
    BY <1>1, LiveTable DEF HeapAt, Early, Unopened
  <2> QED
    BY <1>1, <2>7, <2>8, <2>9, GoesOn
<1> QED
  BY <1>2, <1>4, <1>5

LEMMA SignSteps ==
  ASSUME IInv, Sign \/ NoEmbed
  PROVE  IInv'
<1>1. CASE Sign
  <2>1. At("signing") /\ Advance("embedding") /\ heap' = heap /\ ui' = ui
    BY <1>1 DEF Sign
  <2>2. IsJob /\ HeapHolds(heap, Live("embedding", Button, heap)) /\ Work["signing"].next = "embedding"
    <3>1. Live("embedding", Button, heap) = Live("signing", Button, heap)
      BY LiveTable
    <3> QED
      BY <2>1, <3>1, Started, WorkTable
  <2>3. Goes("embedding", 1, heap)
    BY <2>1, <2>2, Advances
  <2> QED
    BY <2>1, <2>2, <2>3, EarlySpare, ToNext DEF WorkSteps
<1>2. CASE NoEmbed
  <2>1. At("embedding") /\ PassOver("injecting") /\ heap' = heap /\ ui' = ui
    BY <1>2 DEF NoEmbed, Continue
  <2>2. heap.ptr["bootelf"] = Null /\ \A c \in Spare : heap.ptr[c] = Null
    BY <2>1, EarlySpare DEF WorkSteps
  <2>3. IsJob /\ HeapHolds(heap, Live("injecting", Button, heap)) /\ Work["embedding"].next = "injecting"
    <3>1. Live("injecting", Button, heap) = {"orig", "decr"}
      BY <2>2, LiveTable
    <3>2. Live("embedding", Button, heap) = {"orig", "decr"}
      BY LiveTable
    <3> QED
      BY <2>1, <3>1, <3>2, Started, WorkTable
  <2>4. Goes("injecting", 0, heap)
    BY <2>1, <2>3, PassesOver
  <2> QED
    BY <2>1, <2>2, <2>3, <2>4, ToNext DEF WorkSteps
<1> QED
  BY <1>1, <1>2

------------------------------------------------------------------------------
(* The steps of Install_Hack and of the others that follow the OSD         *)

Rest == IF Button = "uninstall" THEN {} ELSE {"hacked"}

(* Between two steps only the OSD is allocated, and the spare pointers     *)
(* point to nothing that is.                                               *)
Resting(h) ==
  /\ HeapHolds(h, Rest)
  /\ \A c \in Spare : h.ptr[c] \notin h.used

LEMMA InRest ==
  ASSUME IInv, NEW s \in Late, At(s)
  PROVE  Resting(heap)
<1>1. HeapAt(s, Button, heap)
  BY Started
<1>2. Live(s, Button, heap) = Rest
  BY LiveTable DEF Rest
<1> QED
  BY <1>1, <1>2 DEF HeapAt, Resting

LEMMA RestsAt ==
  ASSUME NEW n \in Late, NEW h, Resting(h)
  PROVE  HeapAt(n, Button, h)
<1>1. Live(n, Button, h) = Rest
  <2>1. \A s \in Late : Live(s, Button, h) = IF Button = "uninstall" THEN {} ELSE {"hacked"}
    BY LiveTable
  <2> QED
    BY <2>1 DEF Rest
<1>2. n \notin Early /\ n \notin Unopened
  BY DEF Late, Early, Unopened
<1>3. n \notin {"decrypting", "signing", "embedding"}
  BY DEF Late
<1> QED
  BY <1>1, <1>2, <1>3 DEF HeapAt, Resting

LEMMA RestSpare ==
  ASSUME NEW b \in Spare
  PROVE  b \in Buffer \ Rest
BY DEF Spare, Buffer, Rest

LEMMA RestFrees ==
  ASSUME NEW h, Resting(h), NEW b \in Spare
  PROVE  Resting(Free(h, {b}))
<1>1. b \in Buffer \ Rest /\ h.ptr[b] \notin h.used
  BY RestSpare DEF Resting
<1>2. HeapHolds(Free(h, {b}), Rest) /\ Free(h, {b}).ptr = h.ptr /\ Free(h, {b}).used = h.used
  BY <1>1, FreesNull DEF Resting
<1> QED
  BY <1>2 DEF Resting

LEMMA RestAllocFrees ==
  ASSUME NEW h, Resting(h), NEW b \in Spare, CanAlloc(h)
  PROVE  Resting(Free(Alloc(h, b), {b}))
<1> DEFINE g == Free(Alloc(h, b), {b})
<1>1. b \in Buffer \ Rest /\ \A c \in Spare : c \in Buffer
  BY RestSpare
<1>2. /\ HeapHolds(g, Rest) /\ g.used = h.used /\ g.ptr[b] \notin h.used
      /\ \A c \in Buffer \ {b} : g.ptr[c] = h.ptr[c]
  BY <1>1, AllocFree DEF Resting
<1> HIDE DEF g
<1>3. \A c \in Spare : g.ptr[c] \notin g.used
  BY <1>1, <1>2 DEF Resting
<1> QED
  BY <1>2, <1>3 DEF Resting, g

LEMMA RestEnds ==
  ASSUME NEW h, Resting(h)
  PROVE  /\ HeapHolds(Free(h, {"hacked"}), {}) \/ Button = "uninstall"
         /\ Button = "uninstall" => HeapHolds(h, {})
<1>1. CASE Button # "uninstall"
  <2>1. Rest \ {"hacked"} = {} /\ \A b \in {"hacked"} : b \in Rest
    BY <1>1 DEF Rest
  <2> QED
    BY <1>1, <2>1, FreeHolds DEF Resting
<1>2. CASE Button = "uninstall"
  BY <1>2 DEF Rest, Resting
<1> QED
  BY <1>1, <1>2

(* A step of Late goes on with its successor, or fails and frees the OSD.  *)
LEMMA RestGoes ==
  ASSUME IInv, NEW s \in Late, At(s), NEW n \in Late, NEW d \in {0, 1}, NEW h, Resting(h),
         Goes(n, d, h), Fits(n, Button), Before(s, Button) + d <= Before(n, Button),
         Before(s, Button) \in Nat, Before(n, Button) \in Nat
  PROVE  IInv'
<1>1. /\ ui.at = "work" /\ job.lines \in Nat /\ job.lines <= Before(s, Button)
  BY Started
<1>2. HeapAt(n, Button, h)
  BY RestsAt
<1>3. job.lines + d <= Before(n, Button)
  BY <1>1
<1> QED
  BY <1>1, <1>2, <1>3, GoesOn

LEMMA FailsInstall ==
  ASSUME IInv, ui.at = "work", Room(1), Button # "uninstall", NEW h, Resting(h), FailInstall(h)
  PROVE  IInv'
BY RestEnds, Fails DEF FailInstall

LEMMA LateBefore ==
  ASSUME NEW b, NEW s \in Late
  PROVE  /\ Before(s, b) \in Nat
         /\ b = "multi" => Before(s, b) <= 22
         /\ b # "multi" => Before(s, b) <= 21
BY DEF Before, Late

(* Lines of the log before a step after the OSD, by kind of installation.  *)
LEMMA LateRoom ==
  ASSUME IInv, NEW s \in Late, At(s)
  PROVE  Room(1) /\ Before(s, Button) \in Nat
<1>1. /\ job.lines \in Nat /\ job.lines <= Before(s, Button) /\ (Multi <=> Button = "multi")
  BY Started
<1>2. Before(s, Button) \in Nat
  BY LateBefore
<1>3. Button = "multi" => Before(s, Button) <= 22
  BY LateBefore
<1>4. Button # "multi" => Before(s, Button) <= 21
  BY LateBefore
<1> QED
  BY <1>1, <1>2, <1>3, <1>4 DEF Room

(* The steps after the OSD, in their order.                                *)
Succ == {<<"unpatching", "deleting">>, <<"unpatching", "writingOsd">>,
         <<"deleting", "writingOsd">>, <<"writingOsd", "writingDummies">>,
         <<"writingDummies", "execIcons">>, <<"execIcons", "bootIcons">>,
         <<"bootIcons", "config">>, <<"config", "usbd">>,
         <<"usbd", "usbhdfsd">>, <<"usbhdfsd", "configurator">>,
         <<"configurator", "elf">>, <<"elf", "apps">>,
         <<"apps", "scanning">>, <<"scanning", "patching">>}

LEMMA Order ==
  ASSUME NEW b, NEW s, NEW n, <<s, n>> \in Succ
  PROVE  /\ Before(s, b) <= Before(n, b)
         /\ s # "writingDummies" \/ b = "multi" => Before(s, b) + 1 <= Before(n, b)
BY DEF Before, Succ

LEMMA SuccLate ==
  ASSUME NEW s, NEW n, <<s, n>> \in Succ
  PROVE  s \in Late /\ n \in Late
BY DEF Succ, Late

LEMMA LateStep ==
  ASSUME IInv, NEW s, NEW n, <<s, n>> \in Succ, At(s), Button # "uninstall",
         Resting(heap'), UNCHANGED ui,
         \/ PassOver(n)
         \/ (Advance(n) \/ (s = "unpatching" /\ job' = Logged(n, TRUE))) /\ (s # "writingDummies" \/ Multi)
  PROVE  IInv'
<1>1. s \in Late /\ n \in Late /\ Before(s, Button) <= Before(n, Button)
      /\ (s # "writingDummies" \/ Button = "multi" => Before(s, Button) + 1 <= Before(n, Button))
  BY Order, SuccLate
<1>2. Before(s, Button) \in Nat /\ Before(n, Button) \in Nat
  BY <1>1, LateBefore
<1>3. IsJob /\ (Multi <=> Button = "multi") /\ Fits(n, Button) /\ job.step = s
  <2>1. n \notin {"idle", "modifying"}
    BY <1>1 DEF Late
  <2> QED
    BY <1>1, <2>1, Started DEF Fits, At
<1>4. CASE PassOver(n)
  <2>1. Goes(n, 0, heap')
    BY <1>3, <1>4, PassesOver
  <2>2. Before(s, Button) + 0 <= Before(n, Button)
    <3>1. Before(s, Button) <= Before(n, Button)
      BY <1>1
    <3> QED
      BY <1>2, <3>1
  <2> QED
    BY <1>1, <1>2, <1>3, <2>1, <2>2, RestGoes
<1>5. CASE (Advance(n) \/ (s = "unpatching" /\ job' = Logged(n, TRUE))) /\ (s # "writingDummies" \/ Multi)
  <2>1. Goes(n, 1, heap')
    <3>1. CASE Advance(n)
      BY <1>3, <3>1, Advances
    <3>2. CASE s = "unpatching" /\ job' = Logged(n, TRUE)
      <4>1. job' = Line(n, job.failed \cup {"unpatching"})
        BY <1>3, <3>2, LoggedFields
      <4> QED
        BY <1>3, <4>1, GoesTo DEF Line
    <3> QED
      BY <1>5, <3>1, <3>2
  <2>2. Before(s, Button) + 1 <= Before(n, Button)
    BY <1>1, <1>3, <1>5
  <2> QED
    BY <1>1, <1>2, <1>3, <2>1, <2>2, RestGoes
<1> QED
  BY <1>4, <1>5

LEMMA UnpatchSteps ==
  ASSUME IInv, Unpatch
  PROVE  IInv'
<1>1. At("unpatching") /\ "unpatching" \in Late
  BY DEF Unpatch, Late
<1>2. Resting(heap) /\ Room(1) /\ Room(0) /\ ui.at = "work"
  BY <1>1, InRest, LateRoom, Started DEF Room
<1>3. CASE Button = "uninstall"
  <2>1. CASE Advance("deleting") /\ UNCHANGED heap /\ Continue
    <3>1. IsJob /\ Goes("deleting", 1, heap)
      BY <1>1, <2>1, Advances, Started DEF Continue
    <3>2. /\ "deleting" \in Late /\ Fits("deleting", Button)
          /\ Before("unpatching", Button) = 9 /\ Before("deleting", Button) = 10
      BY <1>3, BeforeTable DEF Late, Fits, Uninstalling, JobButtons
    <3> QED
      BY <1>1, <1>2, <3>1, <3>2, RestGoes
  <2>2. CASE EndJob("error", TRUE, job, heap) \/ Fail(heap)
    BY <1>2, <1>3, <2>2, RestEnds, Exits, Fails
  <2> QED
    BY <1>3, <2>1, <2>2 DEF Unpatch
<1>4. CASE Button # "uninstall"
  <2>1. /\ UNCHANGED <<heap, ui>>
        /\ \/ Advance("deleting")
           \/ PassOver("writingOsd") \/ job' = Logged("writingOsd", TRUE)
    BY <1>4 DEF Unpatch, Continue
  <2>2. <<"unpatching", "deleting">> \in Succ /\ <<"unpatching", "writingOsd">> \in Succ
    BY DEF Succ
  <2> QED
    BY <1>1, <1>2, <1>4, <2>1, <2>2, LateStep
<1> QED
  BY <1>3, <1>4

LEMMA DeleteSteps ==
  ASSUME IInv, DeleteDummies
  PROVE  IInv'
<1>1. /\ At("deleting") /\ "deleting" \in Late /\ UNCHANGED <<heap, ui>>
      /\ Advance(IF Button = "uninstall" THEN "modifying" ELSE "writingOsd")
  BY DEF DeleteDummies, Late, Continue
<1>2. Resting(heap) /\ ui.at = "work" /\ IsJob /\ job.lines \in Nat /\ job.lines <= Before("deleting", Button)
  BY <1>1, InRest, Started
<1>3. CASE Button = "uninstall"
  <2>1. Goes("modifying", 1, heap)
    BY <1>1, <1>2, <1>3, Advances
  <2>2. Fits("modifying", Button) /\ Before("deleting", Button) = 10 /\ Before("modifying", Button) = 11
    BY <1>3, BeforeTable DEF Fits, Uninstalling, JobButtons
  <2>3. HeapAt("modifying", Button, heap)
    <3>1. Live("modifying", Button, heap) = Rest
      BY <1>3, LiveTable DEF Rest
    <3> QED
      BY <1>2, <3>1 DEF HeapAt, Resting, Early, Unopened
  <2> QED
    BY <1>2, <2>1, <2>2, <2>3, GoesOn
<1>4. CASE Button # "uninstall"
  <2>1. <<"deleting", "writingOsd">> \in Succ
    BY DEF Succ
  <2> QED
    BY <1>1, <1>2, <1>4, <2>1, LateStep
<1> QED
  BY <1>3, <1>4

LEMMA ModifySteps ==
  ASSUME IInv, ModifyOsd
  PROVE  IInv'
<1>1. At("modifying")
  BY DEF ModifyOsd
<1>2. /\ ui.at = "work" /\ Button = "uninstall" /\ HeapAt("modifying", Button, heap)
      /\ job.lines \in Nat /\ job.lines <= 11
  BY <1>1, Started, BeforeTable DEF Fits, Early, Late, Uninstalling
<1>3. Resting(heap) /\ Rest = {}
  BY <1>2, LiveTable DEF Rest, HeapAt, Resting
<1>4. Room(1)
  BY <1>2 DEF Room
<1>5. HeapHolds(Free(heap, {"osd"}), {})
  BY <1>3, RestFrees DEF Spare, Resting
<1>6. CanAlloc(heap) => HeapHolds(Free(Alloc(heap, "osd"), {"osd"}), {})
  BY <1>3, RestAllocFrees DEF Spare, Resting
<1> QED
  BY <1>2, <1>4, <1>5, <1>6, Exits, Fails DEF ModifyOsd

LEMMA Installing ==
  ASSUME IInv, NEW s \in Late \ {"unpatching", "deleting"}, At(s)
  PROVE  /\ ui.at = "work" /\ Button # "uninstall" /\ Resting(heap) /\ Room(0) /\ Room(1)
         /\ Rest = {"hacked"}
<1>1. s \in Late /\ s \notin Uninstalling
  BY DEF Late, Uninstalling
<1>2. Fits(s, Button) /\ ui.at = "work" /\ job.lines \in Nat /\ Room(1) /\ Resting(heap)
  BY <1>1, Started, LateRoom, InRest
<1> QED
  BY <1>1, <1>2 DEF Fits, Rest, Room

LEMMA AfterSucc ==
  ASSUME NEW s \in DOMAIN After
  PROVE  <<s, After[s]>> \in Succ /\ s \in Late \ {"unpatching", "deleting"}
         /\ (s = "writingDummies" => s \in OnlyMulti)
BY DEF After, Succ, Late, OnlyMulti

LEMMA WriteSteps ==
  ASSUME IInv, NEW s \in DOMAIN After, WriteFiles(s) \/ SkipFiles(s)
  PROVE  IInv'
<1>1. <<s, After[s]>> \in Succ /\ s \in Late \ {"unpatching", "deleting"}
      /\ (s = "writingDummies" => s \in OnlyMulti)
  BY AfterSucc
<1>2. At(s)
  BY DEF WriteFiles, SkipFiles
<1>3. ui.at = "work" /\ Button # "uninstall" /\ Resting(heap) /\ Room(0) /\ Room(1) /\ Rest = {"hacked"}
  BY <1>1, <1>2, Installing
<1>4. CASE WriteFiles(s)
  <2>1. \/ Advance(After[s]) /\ UNCHANGED <<heap, ui>>
        \/ FailInstall(heap)
    BY <1>4 DEF WriteFiles, Continue
  <2>2. s # "writingDummies" \/ Multi
    BY <1>1, <1>4 DEF WriteFiles
  <2> QED
    BY <1>1, <1>2, <1>3, <2>1, <2>2, LateStep, FailsInstall
<1>5. CASE SkipFiles(s)
  <2>1. \/ EndJob("installed", FALSE, job, Free(heap, {"hacked"}))
        \/ PassOver(After[s]) /\ UNCHANGED <<heap, ui>>
    BY <1>5 DEF SkipFiles, Continue
  <2>2. CASE EndJob("installed", FALSE, job, Free(heap, {"hacked"}))
    BY <1>3, <2>2, RestEnds, Exits
  <2> QED
    BY <1>1, <1>2, <1>3, <2>1, <2>2, LateStep
<1> QED
  BY <1>4, <1>5

LEMMA ConfigSteps ==
  ASSUME IInv, WriteConfig
  PROVE  IInv'
<1>1. /\ At("config") /\ "config" \in Late \ {"unpatching", "deleting"} /\ <<"config", "usbd">> \in Succ
      /\ "cnf" \in Spare
  BY DEF WriteConfig, Late, Succ, Spare
<1>2. ui.at = "work" /\ Button # "uninstall" /\ Resting(heap) /\ Room(1)
  BY <1>1, Installing
<1>3. PICK h \in {heap} \cup (IF CanAlloc(heap) THEN {Alloc(heap, "cnf")} ELSE {}) :
        \/ heap' = Free(h, {"cnf"}) /\ Advance("usbd") /\ UNCHANGED ui
        \/ FailInstall(Free(h, {"cnf"}))
  BY DEF WriteConfig, Continue
<1>4. Resting(Free(h, {"cnf"}))
  <2>1. CASE h = heap
    BY <1>1, <1>2, <2>1, RestFrees
  <2>2. CASE CanAlloc(heap) /\ h = Alloc(heap, "cnf")
    BY <1>1, <1>2, <2>2, RestAllocFrees
  <2> QED
    BY <2>1, <2>2
<1> QED
  BY <1>1, <1>2, <1>3, <1>4, LateStep, FailsInstall

LEMMA CopySteps ==
  ASSUME IInv, NEW s \in DOMAIN CopyNext, CopyFile(s)
  PROVE  IInv'
<1>1. /\ At(s) /\ s \in Late \ {"unpatching", "deleting"} /\ <<s, CopyNext[s]>> \in Succ
      /\ "boot" \in Spare /\ s # "writingDummies"
  BY DEF CopyFile, CopyNext, Late, Succ, Spare
<1>2. ui.at = "work" /\ Button # "uninstall" /\ Resting(heap) /\ Room(1)
  BY <1>1, Installing
<1>3. Resting(Free(heap, {"boot"})) /\ (CanAlloc(heap) => Resting(Free(Alloc(heap, "boot"), {"boot"})))
  BY <1>1, <1>2, RestFrees, RestAllocFrees
<1>4. \/ PassOver(CopyNext[s]) /\ heap' = Free(heap, {"boot"}) /\ UNCHANGED ui
      \/ /\ CanAlloc(heap) /\ heap' = Free(Alloc(heap, "boot"), {"boot"})
         /\ Advance(CopyNext[s]) /\ UNCHANGED ui
      \/ CanAlloc(heap) /\ FailInstall(Free(Alloc(heap, "boot"), {"boot"}))
      \/ FailInstall(Free(heap, {"boot"}))
  BY DEF CopyFile, Continue
<1> QED
  BY <1>1, <1>2, <1>3, <1>4, LateStep, FailsInstall

(* The step stays, with another number of files left.                      *)
LEMMA StaysInLoop ==
  ASSUME IInv, NEW s \in DOMAIN LoopNext, At(s), Resting(heap'), UNCHANGED ui,
         NEW n, job' = [job EXCEPT !.left = n]
  PROVE  IInv'
<1>1. s \in Late
  BY DEF LoopNext, Late
<1>2. IsJob /\ Fits(s, Button) /\ job.step = s /\ job.lines \in Nat
  BY Started DEF At
<1>3. job' = Rec(s, job.lines + 0, job.failed, n, job.short, job.slack)
  BY <1>2 DEF IsJob, Rec
<1>4. Goes(s, 0, heap')
  BY <1>2, <1>3, GoesTo
<1>5. Before(s, Button) \in Nat
  BY <1>1, LateBefore
<1> QED
  BY <1>1, <1>2, <1>4, <1>5, RestGoes

LEMMA LoopSteps ==
  ASSUME IInv, NEW s \in DOMAIN LoopNext, StartLoop(s) \/ CopyNextFile(s)
  PROVE  IInv'
<1>1. /\ At(s) /\ s \in Late \ {"unpatching", "deleting"} /\ <<s, LoopNext[s]>> \in Succ
      /\ "boot" \in Spare /\ s # "writingDummies"
  BY DEF StartLoop, CopyNextFile, LoopNext, Late, Succ, Spare
<1>2. ui.at = "work" /\ Button # "uninstall" /\ Resting(heap) /\ Room(1)
  BY <1>1, Installing
<1>3. Resting(Free(heap, {"boot"})) /\ (CanAlloc(heap) => Resting(Free(Alloc(heap, "boot"), {"boot"})))
  BY <1>1, <1>2, RestFrees, RestAllocFrees
<1>4. CASE StartLoop(s)
  <2>1. \/ PassOver(LoopNext[s]) /\ heap' = Free(heap, {"boot"}) /\ UNCHANGED ui
        \/ \E n : job' = [job EXCEPT !.left = n] /\ UNCHANGED <<heap, ui>>
        \/ FailInstall(heap)
    BY <1>4 DEF StartLoop, Continue
  <2> QED
    BY <1>1, <1>2, <1>3, <2>1, LateStep, StaysInLoop, FailsInstall
<1>5. CASE CopyNextFile(s)
  <2>1. \/ \E h : /\ h = Free(heap, {"boot"}) \/ (CanAlloc(heap) /\ h = Free(Alloc(heap, "boot"), {"boot"}))
                  /\ \/ heap' = h /\ job' = [job EXCEPT !.left = job.left - 1] /\ UNCHANGED ui
                     \/ heap' = Free(h, {"boot"}) /\ Advance(LoopNext[s]) /\ UNCHANGED ui
        \/ FailInstall(heap)
        \/ CanAlloc(heap) /\ FailInstall(Free(Alloc(heap, "boot"), {"boot"}))
    BY <1>5 DEF CopyNextFile, Continue
  <2>2. CASE FailInstall(heap) \/ (CanAlloc(heap) /\ FailInstall(Free(Alloc(heap, "boot"), {"boot"})))
    BY <1>2, <1>3, <2>2, FailsInstall
  <2>3. ASSUME NEW h, h = Free(heap, {"boot"}) \/ (CanAlloc(heap) /\ h = Free(Alloc(heap, "boot"), {"boot"})),
               \/ heap' = h /\ job' = [job EXCEPT !.left = job.left - 1] /\ UNCHANGED ui
               \/ heap' = Free(h, {"boot"}) /\ Advance(LoopNext[s]) /\ UNCHANGED ui
        PROVE  IInv'
    <3>1. Resting(h) /\ Resting(Free(h, {"boot"}))
      BY <1>1, <1>3, <2>3, RestFrees
    <3> QED
      BY <1>1, <1>2, <2>3, <3>1, LateStep, StaysInLoop
  <2> QED
    BY <2>1, <2>2, <2>3
<1> QED
  BY <1>4, <1>5

LEMMA PatchSteps ==
  ASSUME IInv, PatchDummies
  PROVE  IInv'
<1>1. At("patching") /\ "patching" \in Late \ {"unpatching", "deleting"}
  BY DEF PatchDummies, Late
<1>2. ui.at = "work" /\ Button # "uninstall" /\ Resting(heap) /\ Room(0) /\ Room(1)
  BY <1>1, Installing
<1>3. HeapHolds(Free(heap, {"hacked"}), {})
  BY <1>2, RestEnds
<1> QED
  BY <1>2, <1>3, Exits, FailsInstall DEF PatchDummies

------------------------------------------------------------------------------
(* The menu                                                                *)

LEMMA IdleFields ==
  /\ Idle = Rec("idle", 0, {}, 0, 0, 0)
  /\ \A s : [Idle EXCEPT !.step = s] = Rec(s, 0, {}, 0, 0, 0)
<1>1. Idle = Rec("idle", 0, {}, 0, 0, 0)
  BY DEF Idle, Rec
<1>2. \A r, s : r = Rec("idle", 0, {}, 0, 0, 0) => [r EXCEPT !.step = s] = Rec(s, 0, {}, 0, 0, 0)
  BY DEF Rec
<1> QED
  BY <1>1, <1>2

LEMMA IdleHeap ==
  ASSUME NEW b, NEW c, NEW h, HeapAt("idle", b, h)
  PROVE  HeapAt("idle", c, h)
<1>1. Live("idle", b, h) = {} /\ Live("idle", c, h) = {}
  BY LiveTable DEF Unopened
<1> QED
  BY <1>1 DEF HeapAt

LEMMA StaysWaiting ==
  ASSUME IInv, ui.at # "work", ui'.at # "work", IsUi', UNCHANGED heap,
         \/ job' = job /\ ui'.button = ui.button /\ ui'.said \in {ui.said, "none", "error"}
         \/ job' = Idle /\ ui'.said = "none"
  PROVE  IInv'
<1>1. IsJob /\ Waiting /\ job.step = "idle" /\ HeapAt("idle", Button, heap)
  BY DEF IInv, Waiting
<1>2. HeapAt("idle", Button, heap)'
  BY <1>1, IdleHeap
<1>3. CASE job' = job /\ ui'.button = ui.button /\ ui'.said \in {ui.said, "none", "error"}
  <2>1. (Multi' <=> Multi) /\ IsJob' /\ job'.step = "idle"
    BY <1>1, <1>3 DEF Multi, Button, IsJob
  <2>2. Waiting'
    BY <1>1, <1>3, <2>1 DEF Waiting, SuccessUnmarked
  <2> QED
    BY <1>2, <2>1, <2>2 DEF IInv
<1>4. CASE job' = Idle /\ ui'.said = "none"
  <2>1. \E g : job' = Rec("idle", 0, {}, 0, 0, g)
    BY <1>4, IdleFields
  <2>2. IsJob' /\ job'.step = "idle" /\ job'.lines = 0
    BY <2>1, RecFields DEF IsJob
  <2>3. Waiting'
    BY <1>4, <2>2 DEF Waiting, SuccessUnmarked
  <2> QED
    BY <1>2, <2>2, <2>3 DEF IInv
<1> QED
  BY <1>3, <1>4

LEMMA MenuSteps ==
  ASSUME IInv, MoveButton \/ Press \/ PressConfigurator \/ ShowCredits
  PROVE  IInv'
<1>1. IsUi
  BY DEF IInv
<1>2. CASE MoveButton
  <2>1. PICK b : ui' = [ui EXCEPT !.button = b, !.logo = TRUE, !.log = FALSE, !.said = "none"]
    BY <1>2 DEF MoveButton
  <2>2. IsUi' /\ ui'.at = ui.at /\ ui'.said = "none"
    BY <1>1, <2>1 DEF IsUi
  <2> QED
    BY <1>2, <2>2, StaysWaiting DEF MoveButton
<1>3. CASE Press
  <2>1. ui.at = "menu" /\ heap' = heap /\ job' \in {job, Idle}
    BY <1>3 DEF Press
  <2>2. ui' = [ui EXCEPT !.at = "check", !.logo = FALSE, !.said = "none",
                         !.log = @ \/ Button \in JobButtons]
    BY <1>3 DEF Press
  <2>3. IsUi' /\ ui'.at = "check" /\ ui'.button = ui.button /\ ui'.said = "none"
    BY <1>1, <2>2 DEF IsUi
  <2> QED
    BY <2>1, <2>3, StaysWaiting
<1>4. CASE PressConfigurator
  <2>1. ui.at = "menu" /\ job' = job /\ heap' = heap
        /\ (ui' = [ui EXCEPT !.at = "launched"] \/ Return("error", FALSE))
    BY <1>4 DEF PressConfigurator
  <2>2. CASE ui' = [ui EXCEPT !.at = "launched"]
    <3>1. IsUi' /\ ui'.at = "launched" /\ ui'.button = ui.button /\ ui'.said = ui.said
      BY <1>1, <2>2 DEF IsUi
    <3> QED
      BY <2>1, <3>1, StaysWaiting
  <2>3. CASE Return("error", FALSE)
    BY <1>1, <2>1, <2>3, Returns, StaysWaiting
  <2> QED
    BY <2>1, <2>2, <2>3
<1>5. CASE ShowCredits
  <2>1. ui.at = "menu" /\ job' = job /\ heap' = heap /\ ui' = [ui EXCEPT !.logo = TRUE]
    BY <1>5 DEF ShowCredits
  <2>2. IsUi' /\ ui'.at = "menu" /\ ui'.button = ui.button /\ ui'.said = ui.said
    BY <1>1, <2>1 DEF IsUi
  <2> QED
    BY <2>1, <2>2, StaysWaiting
<1> QED
  BY <1>2, <1>3, <1>4, <1>5

LEMMA CheckSteps ==
  ASSUME IInv, CheckPort
  PROVE  IInv'
<1>1. IsUi
  BY DEF IInv
<1>2. /\ ui.at = "check" /\ job' = job /\ heap' = heap
      /\ \/ UNCHANGED ui
         \/ Return("none", TRUE)
         \/ Return("error", TRUE)
         \/ ui' = [ui EXCEPT !.at = "confirm", !.port = check.port]
  BY DEF CheckPort
<1>3. CASE UNCHANGED ui
  BY <1>1, <1>2, <1>3, StaysWaiting DEF IsUi
<1>4. CASE Return("none", TRUE) \/ Return("error", TRUE)
  BY <1>1, <1>2, <1>4, Returns, StaysWaiting
<1>5. CASE ui' = [ui EXCEPT !.at = "confirm", !.port = check.port]
  <2>1. IsUi' /\ ui'.at = "confirm" /\ ui'.button = ui.button /\ ui'.said = ui.said
    BY <1>1, <1>5 DEF IsUi
  <2> QED
    BY <1>2, <2>1, StaysWaiting
<1> QED
  BY <1>2, <1>3, <1>4, <1>5

LEMMA ConfirmSteps ==
  ASSUME IInv, Confirm
  PROVE  IInv'
<1>1. IsUi /\ ui.at = "confirm" /\ heap' = heap /\ HeapAt("idle", Button, heap)
  BY DEF Confirm, IInv, Waiting
<1> DEFINE first == IF Button = "uninstall" THEN "unpatching" ELSE "open"
<1>2. \/ Button \in JobButtons /\ ui' = [ui EXCEPT !.at = "work"] /\ job' = [Idle EXCEPT !.step = first]
      \/ job' = job /\ (Return("none", TRUE) \/ Return("none", FALSE) \/ ui' = [ui EXCEPT !.at = "launched"])
  BY DEF Confirm
<1> HIDE DEF first
<1>3. CASE Button \in JobButtons /\ ui' = [ui EXCEPT !.at = "work"] /\ job' = [Idle EXCEPT !.step = first]
  <2>1. IsUi' /\ ui'.at = "work" /\ ui'.button = ui.button
    BY <1>1, <1>3 DEF IsUi
  <2>2. Button' = Button
    BY <2>1 DEF Button
  <2>3. \E g : job' = Rec(first, 0, {}, 0, 0, g)
    BY <1>3, IdleFields
  <2>4. IsJob' /\ job'.step = first /\ job'.lines = 0 /\ job'.failed = {}
    BY <2>3, RecFields DEF IsJob
  <2>5. Fits(first, Button)
    BY <1>3 DEF first, Fits, Early, Late, Uninstalling
  <2>6. 0 <= Before(first, Button)
    BY DEF first, Before
  <2>7. HeapAt(first, Button, heap)
    <3>1. Live(first, Button, heap) = {} /\ Live("idle", Button, heap) = {}
      BY LiveTable DEF first, Unopened, Late
    <3> QED
      BY <1>1, <3>1 DEF HeapAt, first, Early, Unopened
  <2> QED
    BY <1>1, <2>1, <2>2, <2>4, <2>5, <2>6, <2>7 DEF IInv, Working
<1>4. CASE job' = job /\ (Return("none", TRUE) \/ Return("none", FALSE))
  BY <1>1, <1>4, Returns, StaysWaiting
<1>5. CASE job' = job /\ ui' = [ui EXCEPT !.at = "launched"]
  <2>1. IsUi' /\ ui'.at = "launched" /\ ui'.button = ui.button /\ ui'.said = ui.said
    BY <1>1, <1>5 DEF IsUi
  <2> QED
    BY <1>1, <1>5, <2>1, StaysWaiting
<1> QED
  BY <1>2, <1>3, <1>4, <1>5

------------------------------------------------------------------------------
(* The invariant holds                                                     *)

LEMMA Starts == Init => IInv
<1> SUFFICES ASSUME Init PROVE IInv
  OBVIOUS
<1>1. /\ ui = [at |-> "menu", button |-> 1, log |-> FALSE, logo |-> TRUE, port |-> 0, said |-> "none"]
      /\ job = Idle
      /\ heap = [ptr |-> NoBuffers, used |-> {}, leaked |-> {}]
  BY DEF Init
<1>2. IsUi /\ ui.at = "menu" /\ ui.said = "none"
  BY <1>1 DEF IsUi
<1>3. PICK g : job = Rec("idle", 0, {}, 0, 0, g)
  BY <1>1, IdleFields
<1>4. IsJob /\ Waiting /\ job.step = "idle"
  BY <1>2, <1>3, RecFields DEF IsJob, Waiting, SuccessUnmarked
<1>5. HeapAt("idle", Button, heap)
  <2>1. Live("idle", Button, heap) = {}
    BY LiveTable DEF Unopened
  <2>2. /\ heap.ptr = NoBuffers /\ heap.used = {} /\ heap.leaked = {}
        /\ heap = [ptr |-> heap.ptr, used |-> heap.used, leaked |-> heap.leaked]
    BY <1>1
  <2>3. NoBuffers \in [Buffer -> 0..HeapSize] /\ \A c \in Buffer : NoBuffers[c] = Null
    BY SessionAssumption DEF NoBuffers, Null
  <2> QED
    BY <2>1, <2>2, <2>3 DEF HeapAt, HeapHolds, IsHeap, Spare, Buffer
<1> QED
  BY <1>2, <1>4, <1>5 DEF IInv

LEMMA StepLemma == IInv /\ [Next]_vars => IInv'
<1> SUFFICES ASSUME IInv, [Next]_vars PROVE IInv'
  OBVIOUS
<1>1. CASE MoveButton \/ Press \/ PressConfigurator \/ ShowCredits
  BY <1>1, MenuSteps
<1>2. CASE CheckPort
  BY <1>2, CheckSteps
<1>3. CASE Confirm
  BY <1>3, ConfirmSteps
<1>4. CASE Job
  <2>1. CASE OpenDvdelf \/ CheckSpace \/ Sign \/ NoEmbed \/ InjectLauncher
    BY <2>1, OpenSteps, SpaceSteps, SignSteps, InjectSteps
  <2>2. CASE \E s \in DOMAIN Work : NoMemory(s) \/ WorkFails(s) \/ WorkDone(s)
    BY <2>2, WorkDomain, NoMemorySteps, WorkFailsSteps, WorkDoneSteps
  <2>3. CASE Unpatch \/ DeleteDummies \/ ModifyOsd \/ WriteConfig \/ PatchDummies
    BY <2>3, UnpatchSteps, DeleteSteps, ModifySteps, ConfigSteps, PatchSteps
  <2>4. CASE \E s \in DOMAIN After : WriteFiles(s) \/ SkipFiles(s)
    BY <2>4, WriteSteps
  <2>5. CASE \E s \in DOMAIN CopyNext : CopyFile(s)
    BY <2>5, CopySteps
  <2>6. CASE \E s \in DOMAIN LoopNext : StartLoop(s) \/ CopyNextFile(s)
    BY <2>6, LoopSteps
  <2> QED
    BY <1>4, <2>1, <2>2, <2>3, <2>4, <2>5, <2>6 DEF Job
<1>5. CASE User \/ Libmc \/ UNCHANGED vars
  <2>1. UNCHANGED <<ui, job, heap>>
    BY <1>5 DEF User, Libmc, vars
  <2> QED
    BY <2>1 DEF IInv, IsUi, IsJob, Working, Waiting, SuccessUnmarked, Multi, Button
<1> QED
  BY <1>1, <1>2, <1>3, <1>4, <1>5 DEF Next

THEOREM InvariantHolds == FairSpec => []IInv
<1>1. Init => IInv
  BY Starts
<1>2. IInv /\ [Next]_vars => IInv'
  BY StepLemma
<1> QED
  BY <1>1, <1>2, PTL DEF FairSpec, Spec

(* The frees of Run_Hack and Install_Hack, the repeated ones of boot_file  *)
(* among them: what a step still reads is allocated, at its own address.   *)
THEOREM HeldBuffersStay == FairSpec => []BuffersHeld
<1>1. IInv => BuffersHeld
  <2> SUFFICES ASSUME IInv PROVE BuffersHeld
    OBVIOUS
  <2> DEFINE L == Live(job.step, Button, heap)
  <2>1. HeapHolds(heap, L)
    BY DEF IInv, HeapAt
  <2>2. Held \subseteq L
    <3>1. CASE ui.at = "work"
      BY <3>1 DEF IInv, Working, Fits, Held, Live, Early, Late, Uninstalling
    <3>2. CASE ui.at # "work"
      BY <3>2 DEF IInv, Waiting, Held
    <3> QED
      BY <3>1, <3>2
  <2> HIDE DEF L
  <2> QED
    BY <2>1, <2>2 DEF BuffersHeld, HeapHolds
<1> QED
  BY <1>1, InvariantHolds, PTL

(* Every exit of a job: nothing stays allocated but injected_dvdelf after  *)
(* the second malloc of the launcher failed.                               *)
THEOREM NothingElseLeaks == FairSpec => []OnlyInjectedLeaks
<1>1. IInv => OnlyInjectedLeaks
  <2> SUFFICES ASSUME IInv, job.step = "idle" PROVE heap.used = heap.leaked
    BY DEF OnlyInjectedLeaks
  <2>1. Live("idle", Button, heap) = {}
    BY LiveTable DEF Unopened
  <2> QED
    BY <2>1 DEF IInv, HeapAt, HeapHolds
<1> QED
  BY <1>1, InvariantHolds, PTL

(* The log of 22 lines: only a multi-install can write a line more.        *)
THEOREM LogBounded == MaxLogLines >= 22 => (FairSpec => []LogFits)
<1> SUFFICES ASSUME MaxLogLines >= 22 PROVE FairSpec => []LogFits
  OBVIOUS
<1>1. IInv => LogFits
  <2> SUFFICES ASSUME IInv PROVE LogFits
    OBVIOUS
  <2>1. MaxLogLines \in Nat /\ job.lines \in Nat
    BY SessionAssumption DEF IInv, IsJob
  <2>2. job.lines <= 22 + (IF Multi THEN 1 ELSE 0)
    <3>1. CASE ui.at = "work"
      <4>1. job.lines <= Before(job.step, Button) /\ job.step # "idle" /\ job.step \in Early \cup Late \cup {"modifying"}
        BY <3>1 DEF IInv, Working, Fits
      <4>2. Before(job.step, Button) \in Nat /\ Before(job.step, Button) <= 22
        BY <4>1 DEF Before, Early, Late
      <4> QED
        BY <2>1, <4>1, <4>2
    <3>2. CASE ui.at # "work"
      BY <3>2 DEF IInv, Waiting
    <3> QED
      BY <3>1, <3>2
  <2> QED
    BY <2>1, <2>2 DEF LogFits
<1> QED
  BY <1>1, InvariantHolds, PTL

(* "installed successfully" is said of no job with a line marked as failed *)
(* but that of the dummies.                                                *)
THEOREM SuccessIsUnmarked == FairSpec => []SuccessUnmarked
<1>1. IInv => SuccessUnmarked
  BY DEF IInv, Working, Waiting, SuccessUnmarked
<1> QED
  BY <1>1, InvariantHolds, PTL

------------------------------------------------------------------------------
(* The card check: whose figures it takes                                  *)

Is(p, card) == p \in still => card = slot[p]
PendingFor(p, to) == call # NoCall => call.port = p /\ call.to = to
Answered == call # NoCall /\ call.done

(* The call that is pending is that of the port and the figures being      *)
(* asked for, except for one an earlier check left behind (895); once a    *)
(* port was answered its figures are those of the card that stayed.        *)
IsCheck(c) ==
  /\ c = [at |-> c.at, port |-> c.port, ret |-> c.ret, cnt |-> c.cnt]
  /\ c.port \in Port
CardTypes ==
  /\ slot = [p \in Port |-> slot[p]] /\ info = [p \in Port |-> info[p]]
  /\ still \subseteq Port
  /\ call # NoCall =>
       /\ call = [port |-> call.port, to |-> call.to, done |-> call.done, ret |-> call.ret]
       /\ call.port \in Port /\ call.to \in {"mc", "info"}
  /\ IsCheck(check)
FirstPhase ==
  /\ check.at = "first" /\ check.port = 1 => PendingFor(1, "info")
  /\ check.at = "second" =>
       /\ PendingFor(check.port, "info")
       /\ Answered => Is(check.port, info[check.port])
  /\ check.at \in {"first", "second"} /\ check.port = 1 => Is(0, info[0])
  /\ check.at = "ask" => call = NoCall /\ Is(0, info[0]) /\ Is(1, info[1])
LastPhase ==
  /\ check.at = "poll" =>
       /\ PendingFor(check.port, "mc")
       /\ Answered => Is(check.port, mc)
  /\ check.at = "found" => call = NoCall /\ Is(check.port, mc)
CardInv == CardTypes /\ FirstPhase /\ LastPhase

LEMMA OffHolds ==
  ASSUME CardTypes', check'.at \in {"off"}
  PROVE  CardInv'
BY DEF CardInv, FirstPhase, LastPhase

LEMMA NewCall ==
  ASSUME NEW p \in Port, NEW to \in {"mc", "info"}, GetInfo(NoCall, p, to)
  PROVE  /\ call' # NoCall =>
              /\ call' = [port |-> call'.port, to |-> call'.to, done |-> call'.done, ret |-> call'.ret]
              /\ call'.port \in Port /\ call'.to \in {"mc", "info"}
         /\ PendingFor(p, to)' /\ ~Answered'
BY DEF GetInfo, PendingFor, Answered

LEMMA Polls ==
  ASSUME CardInv, PollSync
  PROVE  CardInv'
<1>1. /\ check.at = "poll" /\ Answered /\ UNCHANGED <<slot, fresh, mc, info, still>>
      /\ PendingFor(check.port, "mc") /\ Is(check.port, mc) /\ IsCheck(check)
  BY DEF PollSync, CardInv, LastPhase, Answered, CardTypes
<1>2. CASE check' = [check EXCEPT !.at = "found", !.cnt = 0] /\ call' = NoCall
  <2>1. IsCheck(check') /\ check'.at = "found" /\ check'.port = check.port
    BY <1>1, <1>2 DEF IsCheck
  <2>2. CardTypes'
    BY <1>1, <1>2, <2>1 DEF CardInv, CardTypes
  <2> QED
    BY <1>1, <1>2, <2>1, <2>2 DEF CardInv, FirstPhase, LastPhase, Is
<1> DEFINE AsksAgain(p, n) ==
      /\ check' = [check EXCEPT !.cnt = n] \/ check' = [check EXCEPT !.cnt = n, !.port = p]
      /\ p = check'.port /\ GetInfo(NoCall, p, "mc")
<1>3. CASE \E p \in Port : \E n \in {0, 1} : AsksAgain(p, n)
  <2>1. PICK p \in Port, n \in {0, 1} : AsksAgain(p, n)
    BY <1>3
  <2>2. IsCheck(check') /\ check'.at = "poll" /\ check'.port = p
    BY <1>1, <2>1 DEF IsCheck
  <2>3. /\ call' # NoCall =>
             /\ call' = [port |-> call'.port, to |-> call'.to, done |-> call'.done, ret |-> call'.ret]
             /\ call'.port \in Port /\ call'.to \in {"mc", "info"}
        /\ PendingFor(p, "mc")' /\ ~Answered'
    BY <2>1, NewCall
  <2>4. CardTypes'
    BY <1>1, <2>2, <2>3 DEF CardInv, CardTypes
  <2> QED
    BY <2>2, <2>3, <2>4 DEF CardInv, FirstPhase, LastPhase
<1>4. \/ check' = [check EXCEPT !.at = "found", !.cnt = 0] /\ call' = NoCall
      \/ check' = [check EXCEPT !.cnt = 1] /\ GetInfo(NoCall, check.port, "mc")
      \/ check' = [check EXCEPT !.cnt = 0, !.port = 1 - check.port] /\ GetInfo(NoCall, 1 - check.port, "mc")
  BY DEF PollSync
<1>5. check.port \in Port /\ 1 - check.port \in Port
  BY <1>1 DEF IsCheck, Port
<1>6. CASE check' = [check EXCEPT !.cnt = 1] /\ GetInfo(NoCall, check.port, "mc")
  <2>1. check'.port = check.port
    BY <1>1, <1>6 DEF IsCheck
  <2> QED
    BY <1>3, <1>5, <1>6, <2>1
<1>7. CASE check' = [check EXCEPT !.cnt = 0, !.port = 1 - check.port] /\ GetInfo(NoCall, 1 - check.port, "mc")
  <2>1. check'.port = 1 - check.port
    BY <1>1, <1>7 DEF IsCheck
  <2> QED
    BY <1>3, <1>5, <1>7, <2>1
<1> QED
  BY <1>2, <1>4, <1>6, <1>7

CallIs(c) ==
  c # NoCall =>
    /\ c = [port |-> c.port, to |-> c.to, done |-> c.done, ret |-> c.ret]
    /\ c.port \in Port /\ c.to \in {"mc", "info"}

LEMMA FirstSyncs ==
  ASSUME CardInv, FirstSync
  PROVE  CardInv'
<1>1. /\ check.at = "first" /\ UNCHANGED <<slot, fresh, mc, info, still>>
      /\ check' = [check EXCEPT !.at = "second"] /\ GetInfo(NoCall, check.port, "info")
      /\ IsCheck(check) /\ check.port \in Port
  BY DEF FirstSync, CardInv, CardTypes, IsCheck
<1>2. IsCheck(check') /\ check'.at = "second" /\ check'.port = check.port
  BY <1>1 DEF IsCheck
<1>3. CallIs(call') /\ PendingFor(check.port, "info")' /\ ~Answered'
  BY <1>1, NewCall DEF CallIs, PendingFor
<1>4. CardTypes'
  BY <1>1, <1>2, <1>3 DEF CardInv, CardTypes, CallIs
<1>5. check'.port = 1 => Is(0, info[0])'
  BY <1>1, <1>2 DEF CardInv, FirstPhase, Is
<1> QED
  BY <1>2, <1>3, <1>4, <1>5 DEF CardInv, FirstPhase, LastPhase, PendingFor

LEMMA SecondSyncs ==
  ASSUME CardInv, SecondSync
  PROVE  CardInv'
<1>1. /\ check.at = "second" /\ Answered /\ UNCHANGED <<slot, fresh, info, still>>
      /\ IsCheck(check) /\ check.port \in Port
      /\ Is(check.port, info[check.port]) /\ (check.port = 1 => Is(0, info[0]))
  BY DEF SecondSync, Answered, CardInv, CardTypes, FirstPhase, IsCheck
<1> DEFINE ret == [check.ret EXCEPT ![check.port] = call.ret]
<1>2. \/ /\ check.port = 0
         /\ check' = [check EXCEPT !.at = "first", !.port = 1, !.ret = ret]
         /\ GetInfo(NoCall, 1, "info") /\ UNCHANGED mc
      \/ check.port = 1 /\ Decide(ret)
  BY <1>1 DEF SecondSync, Port
<1> HIDE DEF ret
<1>3. CASE /\ check.port = 0
           /\ check' = [check EXCEPT !.at = "first", !.port = 1, !.ret = ret]
           /\ GetInfo(NoCall, 1, "info")
  <2>1. IsCheck(check') /\ check'.at = "first" /\ check'.port = 1
    BY <1>1, <1>3 DEF IsCheck, Port
  <2>2. CallIs(call') /\ PendingFor(1, "info")'
    BY <1>3, NewCall DEF CallIs, Port, PendingFor
  <2>3. CardTypes'
    BY <1>1, <2>1, <2>2 DEF CardInv, CardTypes, CallIs
  <2>4. Is(0, info[0])'
    BY <1>1, <1>3 DEF Is
  <2> QED
    BY <2>1, <2>2, <2>3, <2>4 DEF CardInv, FirstPhase, LastPhase
<1>4. CASE check.port = 1 /\ Decide(ret)
  <2>1. Is(0, info[0]) /\ Is(1, info[1])
    BY <1>1, <1>4
  <2>2. CASE check' = [check EXCEPT !.at = "ask", !.ret = ret] /\ call' = NoCall
    <3>1. IsCheck(check') /\ check'.at = "ask"
      BY <1>1, <2>2 DEF IsCheck
    <3>2. CardTypes'
      BY <1>1, <2>2, <3>1 DEF CardInv, CardTypes
    <3>3. Is(0, info[0])' /\ Is(1, info[1])'
      BY <1>1, <2>1 DEF Is
    <3> QED
      BY <2>2, <3>1, <3>2, <3>3 DEF CardInv, FirstPhase, LastPhase
  <2>3. CASE \E p \in Port : /\ check' = [check EXCEPT !.at = "found", !.port = p, !.ret = ret]
                             /\ call' = NoCall /\ mc' = info[p]
    <3>1. PICK p \in Port : /\ check' = [check EXCEPT !.at = "found", !.port = p, !.ret = ret]
                            /\ call' = NoCall /\ mc' = info[p]
      BY <2>3
    <3>2. IsCheck(check') /\ check'.at = "found" /\ check'.port = p
      BY <1>1, <3>1 DEF IsCheck
    <3>3. CardTypes'
      BY <1>1, <3>1, <3>2 DEF CardInv, CardTypes
    <3>4. Is(p, mc)'
      BY <1>1, <2>1, <3>1 DEF Is, Port
    <3>5. Is(check.port, mc)'
      BY <3>2, <3>4 DEF Is
    <3> QED
      BY <3>1, <3>2, <3>3, <3>5 DEF CardInv, FirstPhase, LastPhase, Is
  <2>4. CASE check' = [Off EXCEPT !.at = "poll", !.ret = ret] /\ GetInfo(NoCall, 0, "mc")
    <3>1. IsCheck(check') /\ check'.at = "poll" /\ check'.port = 0
      BY <2>4 DEF IsCheck, Off, Port
    <3>2. CallIs(call') /\ PendingFor(0, "mc")' /\ ~Answered'
      BY <2>4, NewCall DEF CallIs, Port, PendingFor
    <3>3. CardTypes'
      BY <1>1, <3>1, <3>2 DEF CardInv, CardTypes, CallIs
    <3> QED
      BY <3>1, <3>2, <3>3 DEF CardInv, FirstPhase, LastPhase, PendingFor
  <2> QED
    BY <1>4, <2>2, <2>3, <2>4 DEF Decide
<1> QED
  BY <1>2, <1>3, <1>4

LEMMA Chooses ==
  ASSUME CardInv, NEW p \in Port, ChoosePort(p)
  PROVE  CardInv'
<1>1. /\ check.at = "ask" /\ UNCHANGED <<slot, fresh, call, info, still>>
      /\ check' = [check EXCEPT !.at = "found", !.port = p] /\ mc' = info[p]
      /\ IsCheck(check) /\ call = NoCall /\ Is(0, info[0]) /\ Is(1, info[1])
  BY DEF ChoosePort, CardInv, CardTypes, FirstPhase
<1>2. IsCheck(check') /\ check'.at = "found" /\ check'.port = p
  BY <1>1 DEF IsCheck
<1>3. CardTypes'
  BY <1>1, <1>2 DEF CardInv, CardTypes
<1>4. Is(p, mc)'
  BY <1>1 DEF Is, Port
<1> QED
  BY <1>1, <1>2, <1>3, <1>4 DEF CardInv, FirstPhase, LastPhase, Is

LEMMA StartsCheck ==
  ASSUME CardInv, StartCheck
  PROVE  CardInv'
<1>1. /\ check' = [Off EXCEPT !.at = "first"] /\ GetInfo(call, 0, "info")
      /\ still' = {p \in Port : slot[p] # NoCard} /\ UNCHANGED <<slot, fresh, mc, info>>
  BY DEF StartCheck
<1>2. IsCheck(check') /\ check'.at = "first" /\ check'.port = 0
  BY <1>1 DEF IsCheck, Off, Port
<1>3. CallIs(call')
  <2>1. CASE call = NoCall
    BY <1>1, <2>1, NewCall DEF CallIs, Port
  <2>2. CASE call # NoCall
    BY <1>1, <2>2 DEF GetInfo, CallIs, CardInv, CardTypes
  <2> QED
    BY <2>1, <2>2
<1>4. CardTypes'
  BY <1>1, <1>2, <1>3 DEF CardInv, CardTypes, CallIs
<1> QED
  BY <1>2, <1>4 DEF CardInv, FirstPhase, LastPhase

LEMMA Leaves ==
  ASSUME CardInv, Leave
  PROVE  CardInv' /\ check'.at = "off"
<1>1. check' = Off /\ info' = [p \in Port |-> NoCard] /\ still' = {} /\ UNCHANGED <<slot, call>>
  BY DEF Leave
<1>2. IsCheck(check') /\ check'.at = "off"
  BY <1>1 DEF IsCheck, Off, Port
<1>3. CardTypes'
  BY <1>1, <1>2 DEF CardInv, CardTypes
<1> QED
  BY <1>2, <1>3 DEF CardInv, FirstPhase, LastPhase

LEMMA Answers ==
  ASSUME CardInv, AnswerCall
  PROVE  CardInv' /\ check' = check
<1> DEFINE q == call.port
<1>1. /\ call # NoCall /\ ~call.done /\ UNCHANGED <<slot, check, still>>
      /\ call' = [call EXCEPT !.done = TRUE,
                    !.ret = IF slot[q] = NoCard THEN "none" ELSE IF q \in fresh THEN "new" ELSE "same"]
      /\ \/ call.to = "mc" /\ mc' = slot[q] /\ UNCHANGED info
         \/ call.to # "mc" /\ info' = [info EXCEPT ![q] = slot[q]] /\ UNCHANGED mc
  BY DEF AnswerCall
<1>2. CardTypes /\ FirstPhase /\ LastPhase
  BY DEF CardInv
<1>3. /\ call = [port |-> call.port, to |-> call.to, done |-> call.done, ret |-> call.ret]
      /\ q \in Port /\ call.to \in {"mc", "info"}
  BY <1>1, <1>2 DEF CardTypes
<1>4. /\ call' = [port |-> call'.port, to |-> call'.to, done |-> call'.done, ret |-> call'.ret]
      /\ call'.port = q /\ call'.to = call.to
  BY <1>1, <1>3
<1>5. info' = [p \in Port |-> info'[p]]
  BY <1>1, <1>2, <1>3 DEF CardTypes
<1>6. CardTypes'
  BY <1>1, <1>2, <1>3, <1>4, <1>5 DEF CardTypes
<1>7. \A p, to : PendingFor(p, to) => PendingFor(p, to)'
  BY <1>1, <1>4 DEF PendingFor
<1>8. call.to = "info" => Is(q, info[q])' /\ \A p \in Port : p # q => info'[p] = info[p]
  BY <1>1, <1>2, <1>3 DEF Is, CardTypes
<1>9. call.to = "mc" => Is(q, mc)' /\ info' = info
  BY <1>1 DEF Is
<1>10. check.at \notin {"ask", "found"}
  BY <1>1, <1>2 DEF FirstPhase, LastPhase
<1>11. check.at \in {"first", "second"} /\ check.port = 1 => Is(0, info[0])'
  <2>1. SUFFICES ASSUME check.at \in {"first", "second"}, check.port = 1
                 PROVE  info'[0] = info[0]
    BY <1>1, <1>2 DEF FirstPhase, Is
  <2>2. PendingFor(1, "info")
    BY <1>2, <2>1 DEF FirstPhase, PendingFor
  <2>3. q = 1 /\ call.to = "info"
    BY <1>1, <2>2 DEF PendingFor
  <2> QED
    BY <1>8, <2>3 DEF Port
<1>12. check.at = "second" => Is(check.port, info[check.port])'
  <2>1. SUFFICES ASSUME check.at = "second" PROVE Is(check.port, info[check.port])'
    OBVIOUS
  <2>2. q = check.port /\ call.to = "info"
    BY <1>1, <1>2, <2>1 DEF FirstPhase, PendingFor
  <2> QED
    BY <1>1, <1>8, <2>2 DEF Is
<1>13. check.at = "poll" => Is(check.port, mc)'
  <2>1. SUFFICES ASSUME check.at = "poll" PROVE Is(check.port, mc)'
    OBVIOUS
  <2>2. q = check.port /\ call.to = "mc"
    BY <1>1, <1>2, <2>1 DEF LastPhase, PendingFor
  <2> QED
    BY <1>1, <1>9, <2>2 DEF Is
<1>14. FirstPhase'
  BY <1>1, <1>2, <1>7, <1>10, <1>11, <1>12 DEF FirstPhase, PendingFor
<1>15. LastPhase'
  BY <1>1, <1>2, <1>7, <1>10, <1>13 DEF LastPhase, PendingFor
<1> QED
  BY <1>1, <1>6, <1>14, <1>15 DEF CardInv

LEMMA Changes ==
  ASSUME CardInv, NEW p \in Port, ChangeCard(p)
  PROVE  CardInv' /\ check' = check
<1>1. /\ \E c : slot' = [slot EXCEPT ![p] = c]
      /\ still' = still \ {p} /\ UNCHANGED <<call, mc, info, check>>
  BY DEF ChangeCard
<1>2. CardTypes /\ FirstPhase /\ LastPhase
  BY DEF CardInv
<1>3. PICK c : slot' = [slot EXCEPT ![p] = c]
  BY <1>1
<1>4. slot' = [r \in Port |-> slot'[r]] /\ \A r \in Port : r # p => slot'[r] = slot[r]
  BY <1>2, <1>3 DEF CardTypes
<1>5. CardTypes'
  BY <1>1, <1>2, <1>4 DEF CardTypes
<1>6. \A r \in Port : r \in still' => r \in still /\ slot'[r] = slot[r]
  BY <1>1, <1>4
<1>7. check.port \in Port /\ 0 \in Port /\ 1 \in Port
  BY <1>2 DEF CardTypes, IsCheck, Port
<1>8. /\ Is(0, info[0]) => Is(0, info[0])'
      /\ Is(1, info[1]) => Is(1, info[1])'
      /\ Is(check.port, info[check.port]) => Is(check.port, info[check.port])'
      /\ Is(check.port, mc) => Is(check.port, mc)'
  BY <1>1, <1>6, <1>7 DEF Is
<1>9. FirstPhase'
  BY <1>1, <1>2, <1>8 DEF FirstPhase, PendingFor, Answered
<1>10. LastPhase'
  BY <1>1, <1>2, <1>8 DEF LastPhase, PendingFor, Answered
<1> QED
  BY <1>1, <1>5, <1>9, <1>10 DEF CardInv

(* The check runs on its own screen and leaves no trace of itself behind.  *)
CheckInv == CardInv /\ (ui.at # "check" => check.at = "off")

LEMMA CardStarts == Init => CheckInv
<1> SUFFICES ASSUME Init PROVE CheckInv
  OBVIOUS
<1>1. /\ slot \in [Port -> Cards \cup {NoCard}] /\ call = NoCall
      /\ info = [p \in Port |-> NoCard] /\ check = Off /\ still = {}
  BY DEF Init, CardInit
<1>2. IsCheck(check) /\ check.at = "off"
  BY <1>1 DEF IsCheck, Off, Port
<1>3. CardTypes
  BY <1>1, <1>2 DEF CardTypes
<1> QED
  BY <1>2, <1>3 DEF CheckInv, CardInv, FirstPhase, LastPhase

LEMMA CardStays ==
  ASSUME CheckInv, UNCHANGED <<slot, call, mc, info, check, still>>
  PROVE  CardInv'
BY DEF CheckInv, CardInv, CardTypes, FirstPhase, LastPhase, Is, PendingFor, Answered

(* Outside the check only the figures are touched, while the card is signed *)
LEMMA CardIdle ==
  ASSUME CheckInv, ui.at \in {"menu", "confirm", "work"},
         UNCHANGED <<slot, call, info, check, still>>
  PROVE  CheckInv'
<1>1. check.at = "off" /\ check'.at = "off"
  BY DEF CheckInv
<1>2. CardTypes'
  BY DEF CheckInv, CardInv, CardTypes
<1> QED
  BY <1>1, <1>2, OffHolds DEF CheckInv

LEMMA JobScreen ==
  ASSUME Job
  PROVE  ui.at = "work" /\ UNCHANGED <<slot, call, info, check, still>>
<1>1. CASE OpenDvdelf \/ CheckSpace \/ Sign \/ NoEmbed \/ InjectLauncher
  BY <1>1 DEF OpenDvdelf, CheckSpace, Sign, NoEmbed, InjectLauncher, At, Continue, EndJob, Fail, cardVars
<1>2. CASE \E s \in DOMAIN Work : NoMemory(s) \/ WorkFails(s) \/ WorkDone(s)
  BY <1>2 DEF NoMemory, WorkFails, WorkDone, At, Continue, EndJob, Fail, cardVars
<1>3. CASE Unpatch \/ DeleteDummies \/ ModifyOsd \/ WriteConfig \/ PatchDummies
  BY <1>3 DEF Unpatch, DeleteDummies, ModifyOsd, WriteConfig, PatchDummies, At, Continue, EndJob,
              Fail, FailInstall, cardVars
<1>4. CASE \E s \in DOMAIN After : WriteFiles(s) \/ SkipFiles(s)
  BY <1>4 DEF WriteFiles, SkipFiles, At, Continue, EndJob, Fail, FailInstall, cardVars
<1>5. CASE \E s \in DOMAIN CopyNext : CopyFile(s)
  BY <1>5 DEF CopyFile, At, Continue, EndJob, Fail, FailInstall, cardVars
<1>6. CASE \E s \in DOMAIN LoopNext : StartLoop(s) \/ CopyNextFile(s)
  BY <1>6 DEF StartLoop, CopyNextFile, At, Continue, EndJob, Fail, FailInstall, cardVars
<1> QED
  BY <1>1, <1>2, <1>3, <1>4, <1>5, <1>6 DEF Job

LEMMA CheckStep == IInv /\ CheckInv /\ [Next]_vars => CheckInv'
<1> SUFFICES ASSUME IInv, CheckInv, [Next]_vars PROVE CheckInv'
  OBVIOUS
<1>1. CardInv /\ IsUi
  BY DEF CheckInv, IInv
<1>2. CASE MoveButton \/ PressConfigurator \/ ShowCredits
  <2>1. ui.at = "menu" /\ UNCHANGED cardVars
    BY <1>2 DEF MoveButton, PressConfigurator, ShowCredits
  <2> QED
    BY <2>1, CardIdle DEF cardVars
<1>3. CASE Press
  <2>1. CardInv'
    BY <1>1, <1>3, StartsCheck DEF Press
  <2>2. ui'.at = "check"
    BY <1>1, <1>3 DEF Press, IsUi
  <2> QED
    BY <2>1, <2>2 DEF CheckInv
<1>4. CASE CheckPort
  <2>1. CASE Check /\ UNCHANGED ui
    <3>1. CardInv'
      BY <1>1, <2>1, FirstSyncs, SecondSyncs, Polls, Chooses DEF Check
    <3> QED
      BY <1>4, <2>1, <3>1 DEF CheckInv, CheckPort
  <2>2. CASE Leave
    BY <1>1, <2>2, Leaves DEF CheckInv
  <2> QED
    BY <1>4, <2>1, <2>2 DEF CheckPort, AbortCheck, CheckEnds
<1>5. CASE Confirm
  <2>1. ui.at = "confirm" /\ UNCHANGED cardVars
    BY <1>5 DEF Confirm
  <2> QED
    BY <2>1, CardIdle DEF cardVars
<1>6. CASE Job
  BY <1>6, JobScreen, CardIdle
<1>7. CASE User
  BY <1>1, <1>7, Changes DEF User, CheckInv
<1>8. CASE Libmc
  BY <1>1, <1>8, Answers DEF Libmc, CheckInv
<1>9. CASE UNCHANGED vars
  BY <1>9, CardStays DEF vars, cardVars, CheckInv
<1> QED
  BY <1>2, <1>3, <1>4, <1>5, <1>6, <1>7, <1>8, <1>9 DEF Next

(* InfoOfPort: the figures the check of the card returns are those of the  *)
(* card in the port it returns, if that card stayed in place, whatever     *)
(* the other port went through and whatever call an earlier check left     *)
(* behind (main.c 910-1000).                                               *)
THEOREM FiguresOfPort == FairSpec => []InfoOfPort
<1>1. Init => CheckInv
  BY CardStarts
<1>2. IInv /\ CheckInv /\ [Next]_vars => CheckInv'
  BY CheckStep
<1>3. CheckInv => InfoOfPort
  BY DEF CheckInv, CardInv, LastPhase, Is, InfoOfPort
<1> QED
  BY <1>1, <1>2, <1>3, InvariantHolds, PTL DEF FairSpec, Spec

------------------------------------------------------------------------------
(* The space an installation takes                                         *)

(* A sum of whole numbers is one.                                          *)
LEMMA SumIsInt ==
  ASSUME NEW S, IsFiniteSet(S), NEW F \in [S -> Int]
  PROVE  Sum(F) \in Int
<1>1. [x \in S |-> F[x]] = F /\ Sum(F) = Total(F)
  BY DEF Sum, Total
<1>2. TotalOver(F, S) \in Int
  BY TotalType
<1> QED
  BY <1>1, <1>2 DEF TotalOver

LEMMA SumOfFunction ==
  ASSUME NEW S, NEW F, F = [x \in S |-> F[x]]
  PROVE  Sum(F) = TotalOver(F, S)
<1>1. Sum(F) = Total(F)
  BY DEF Sum, Total
<1> QED
  BY <1>1 DEF TotalOver

(* What the installation takes is a whole number of clusters.              *)
LEMMA CeilIsInt ==
  ASSUME NEW n \in Int
  PROVE  CeilDiv(n, Cluster) \in Int
BY SpaceAssumption DEF CeilDiv

LEMMA FolderIsInt ==
  ASSUME NEW n \in Int
  PROVE  FolderClusters(n) \in Int
<1>1. Entry \in Int
  BY SpaceAssumption DEF Entry
<1>2. (n + 2) * Entry \in Int
  BY <1>1
<1> QED
  BY <1>2, CeilIsInt DEF FolderClusters

LEMMA AtLeastNothing ==
  ASSUME NEW x \in Int
  PROVE  Max({0, x}) = (IF x >= 0 THEN x ELSE 0) /\ Max({0, x}) \in Nat
<1>1. CASE x >= 0
  <2>1. \A y \in {0, x} : (\A z \in {0, x} : y >= z) <=> y = x
    BY <1>1
  <2> QED
    BY <1>1, <2>1 DEF Max
<1>2. CASE ~(x >= 0)
  <2>1. \A y \in {0, x} : (\A z \in {0, x} : y >= z) <=> y = 0
    BY <1>2
  <2> QED
    BY <1>2, <2>1 DEF Max
<1> QED
  BY <1>1, <1>2

(* The clusters of n bytes as rounded by Needed; the half clusters of a    *)
(* folder.                                                                 *)
RoundedUp(n) == n \div Cluster + 1

LEMMA EntryIsHalf ==
  Entry \in Nat /\ Entry >= 1 /\ Cluster = 2 * Entry
BY SpaceAssumption DEF Entry

LEMMA Quotient ==
  ASSUME NEW a \in Nat, NEW c \in Nat, c >= 1
  PROVE  \E q \in Int, r \in 0..(c - 1) : a \div c = q /\ a % c = r /\ a = c * q + r
OBVIOUS

LEMMA Multiple ==
  ASSUME NEW c \in Nat, NEW p \in Int, NEW q \in Int, p + 1 <= q
  PROVE  c * p + c <= c * q
<1> DEFINE k == q - (p + 1)
<1>1. k \in Nat /\ q = p + 1 + k
  OBVIOUS
<1> HIDE DEF k
<1>2. c * q = c * (p + 1 + k)
  BY <1>1
<1>3. c * (p + 1 + k) = c * p + c + c * k
  BY <1>1
<1>4. c * k \in Nat /\ c * p \in Int /\ c * q \in Int
  BY <1>1
<1> QED
  BY <1>2, <1>3, <1>4

LEMMA Division ==
  ASSUME NEW a \in Nat, NEW c \in Nat, c >= 1, NEW q \in Int, NEW r \in Int,
         a = c * q + r, 0 <= r, r < c
  PROVE  a \div c = q
<1>1. PICK p \in Int, s \in 0..(c - 1) : a \div c = p /\ a = c * p + s
  BY Quotient
<1>2. c * p \in Int /\ c * q \in Int
  BY <1>1
<1>3. CASE p + 1 <= q
  <2>1. c * p + c <= c * q
    BY <1>1, <1>3, Multiple
  <2> QED
    BY <1>1, <1>2, <2>1
<1>4. CASE q + 1 <= p
  <2>1. c * q + c <= c * p
    BY <1>1, <1>4, Multiple
  <2> QED
    BY <1>1, <1>2, <2>1
<1>5. p = q
  BY <1>1, <1>3, <1>4
<1> QED
  BY <1>1, <1>5

LEMMA RoundedSize ==
  ASSUME NEW n \in Nat
  PROVE  /\ RoundedUp(n) \in Nat /\ CeilDiv(n, Cluster) \in Nat
         /\ Rounded(n) = Cluster * RoundedUp(n)
         /\ RoundedUp(n) = CeilDiv(n, Cluster) + (IF n % Cluster = 0 THEN 1 ELSE 0)
<1> DEFINE c == Cluster
           q == n \div c
           r == n % c
<1>1. c \in Nat /\ c >= 1
  BY SpaceAssumption
<1> HIDE DEF c
<1>2. q \in Int /\ r \in 0..(c - 1) /\ n = c * q + r
  BY <1>1
<1> HIDE DEF q, r
<1>3. q >= 0
  <2>1. CASE q <= -1
    <3>1. c * q <= -c
      BY <1>1, <1>2, <2>1
    <3> QED
      BY <1>1, <1>2, <3>1
  <2> QED
    BY <1>2, <2>1
<1>4. Rounded(n) = c * (q + 1)
  <2>1. Rounded(n) = (n + c) - r
    BY DEF Rounded, r, c
  <2>2. c * (q + 1) = c * q + c
    BY <1>1, <1>2
  <2>3. c * q \in Int
    BY <1>1, <1>2
  <2> HIDE DEF c
  <2> QED
    BY <1>1, <1>2, <2>1, <2>2, <2>3
<1>5. CeilDiv(n, c) = IF r = 0 THEN q ELSE q + 1
  <2> DEFINE a == n + c - 1
             cq == c * q
  <2>1. a \in Nat /\ cq \in Int /\ c * (q + 1) = cq + c /\ n = cq + r
    BY <1>1, <1>2
  <2>3. CASE r = 0
    <3>1. a = c * q + (c - 1)
      BY <1>1, <2>1, <2>3
    <3> HIDE DEF a
    <3>2. a \div c = q
      BY <1>1, <1>2, <2>1, <3>1, Division
    <3> QED
      BY <2>3, <3>2 DEF CeilDiv, a
  <2>4. CASE r # 0
    <3> DEFINE t == q + 1
    <3>1. a = c * t + (r - 1) /\ r - 1 \in Int /\ 0 <= r - 1 /\ r - 1 < c /\ t \in Int
      BY <1>1, <1>2, <2>1, <2>4
    <3> HIDE DEF a, t
    <3>2. a \div c = t
      BY <1>1, <2>1, <3>1, Division
    <3> QED
      BY <2>4, <3>2 DEF CeilDiv, a, t
  <2> QED
    BY <2>3, <2>4
<1> QED
  BY <1>2, <1>3, <1>4, <1>5 DEF RoundedUp, c, q, r

LEMMA CeilMonotone ==
  ASSUME NEW a \in Nat, NEW b \in Nat, a <= b
  PROVE  CeilDiv(a, Cluster) <= CeilDiv(b, Cluster)
<1> DEFINE c == Cluster
           x == a + c - 1
           y == b + c - 1
<1>1. c \in Nat /\ c >= 1
  BY SpaceAssumption
<1> HIDE DEF c
<1>2. x \in Nat /\ y \in Nat /\ x <= y
  BY <1>1
<1> HIDE DEF x, y
<1>3. PICK p \in Int, r \in 0..(c - 1) : x \div c = p /\ x = c * p + r
  BY <1>1, <1>2, Quotient
<1>4. PICK q \in Int, s \in 0..(c - 1) : y \div c = q /\ y = c * q + s
  BY <1>1, <1>2, Quotient
<1>5. CASE q + 1 <= p
  <2>1. c * q + c <= c * p
    BY <1>1, <1>5, Multiple
  <2> DEFINE u == c * q
             v == c * p
  <2>2. u \in Int /\ v \in Int /\ x = v + r /\ y = u + s /\ u + c <= v
    BY <1>1, <1>3, <1>4, <2>1
  <2> HIDE DEF u, v
  <2>3. FALSE
    BY <1>1, <1>2, <2>2
  <2> QED
    BY <2>3
<1>6. CASE p <= q
  BY <1>3, <1>4, <1>6 DEF CeilDiv, x, y, c
<1> QED
  BY <1>3, <1>4, <1>5, <1>6

LEMMA CeilOne ==
  CeilDiv(1, Cluster) = 1
<1> DEFINE c == Cluster
           a == 1 + c - 1
<1>1. c \in Nat /\ c >= 1
  BY SpaceAssumption
<1> HIDE DEF c
<1>2. a \in Nat /\ a = c * 1 + 0
  BY <1>1
<1> HIDE DEF a
<1>3. a \div c = 1
  BY <1>1, <1>2, Division
<1> QED
  BY <1>3 DEF CeilDiv, a, c

(* A folder of n files has n + 2 entries of half a cluster.                *)
LEMMA FolderSize ==
  ASSUME NEW n \in Nat
  PROVE  /\ FolderClusters(n) \in Nat
         /\ n + 2 <= 2 * FolderClusters(n) /\ 2 * FolderClusters(n) <= n + 3
<1> DEFINE e == Entry
           h == (n + 3) \div 2
           s == (n + 3) % 2
           a == (n + 2) * e + 2 * e - 1
<1>1. e \in Nat /\ e >= 1 /\ Cluster = 2 * e
  BY EntryIsHalf
<1> HIDE DEF e
<1>2. h \in Nat /\ s \in 0..1 /\ n + 3 = 2 * h + s
  OBVIOUS
<1> HIDE DEF h, s
<1>3. a \in Int /\ a = (2 * e) * h + (e * s + e - 1)
  <2>1. n + 2 = 2 * h + s - 1
    BY <1>2
  <2>2. (n + 2) * e = (2 * h + s - 1) * e
    BY <2>1
  <2>3. (2 * h + s - 1) * e = (2 * e) * h + e * s - e
    BY <1>1, <1>2
  <2>4. (2 * e) * h \in Int /\ e * s \in Int /\ (n + 2) * e \in Int
    BY <1>1, <1>2
  <2> QED
    BY <1>1, <2>2, <2>3, <2>4
<1>4. e * s + e - 1 \in Int /\ 0 <= e * s + e - 1 /\ e * s + e - 1 < 2 * e
  <2>1. e * s = 0 \/ e * s = e
    <3>1. s = 0 \/ s = 1
      BY <1>2
    <3> QED
      BY <1>1, <3>1
  <2> QED
    BY <1>1, <2>1
<1> DEFINE r == e * s + e - 1
           d == 2 * e
<1>5. a \in Nat /\ d \in Nat /\ d >= 1 /\ h \in Int /\ r \in Int /\ a = d * h + r /\ 0 <= r /\ r < d
  BY <1>1, <1>2, <1>3, <1>4
<1>6. a \div d = h
  <2> HIDE DEF a, d, r
  <2> QED
    BY <1>5, Division
<1>7. FolderClusters(n) = h
  BY <1>1, <1>6 DEF FolderClusters, CeilDiv, e
<1> QED
  BY <1>2, <1>7

LEMMA TruncatedHalf ==
  ASSUME NEW z \in Int
  PROVE  Truncated(Entry * z) \in Int /\ 2 * Truncated(Entry * z) >= z - 1
<1> DEFINE e == Entry
           d == 2 * e
<1>1. e \in Nat /\ e >= 1 /\ d = Cluster /\ d \in Nat /\ d >= 1
  BY EntryIsHalf
<1> HIDE DEF e
<1>2. \A y \in Nat : (e * y) \in Nat /\ (e * y) \div d \in Int
                     /\ 2 * ((e * y) \div d) <= y /\ y - 1 <= 2 * ((e * y) \div d)
  <2> TAKE y \in Nat
  <2> DEFINE h == y \div 2
             s == y % 2
             a == e * y
             r == e * s
  <2>1. h \in Int /\ s \in 0..1 /\ y = 2 * h + s
    OBVIOUS
  <2> HIDE DEF h, s
  <2>2. r = 0 \/ r = e
    <3>1. s = 0 \/ s = 1
      BY <2>1
    <3> QED
      BY <1>1, <3>1
  <2>3. a \in Nat /\ a = d * h + r
    <3>1. e * y = e * (2 * h + s)
      BY <2>1
    <3>2. e * (2 * h + s) = (2 * e) * h + e * s
      BY <1>1, <2>1
    <3> QED
      BY <1>1, <3>1, <3>2
  <2>4. r \in Int /\ 0 <= r /\ r < d
    BY <1>1, <2>2
  <2> HIDE DEF a, r, d
  <2>5. a \div d = h
    BY <1>1, <2>1, <2>3, <2>4, Division
  <2> QED
    BY <2>1, <2>3, <2>5 DEF a
<1> HIDE DEF d
<1>3. CASE z >= 0
  <2>1. z \in Nat /\ e * z >= 0
    BY <1>1, <1>2, <1>3
  <2>2. Truncated(e * z) = (e * z) \div d
    BY <1>1, <2>1 DEF Truncated
  <2> QED
    BY <1>2, <2>1, <2>2 DEF e
<1>4. CASE z < 0
  <2> DEFINE y == 0 - z
             a == e * z
             b == e * y
  <2>1. y \in Nat /\ y >= 1
    BY <1>4
  <2>2. a = 0 - b /\ b >= 1
    BY <1>1, <2>1
  <2>3. b \in Nat /\ 2 * (b \div d) <= y /\ b \div d \in Int
    BY <1>2, <2>1
  <2> HIDE DEF a, b
  <2>4. 0 - a = b /\ ~(a >= 0)
    BY <2>2, <2>3
  <2>5. Truncated(a) = -(b \div d)
    BY <1>1, <2>4 DEF Truncated
  <2> DEFINE t == b \div d
  <2> HIDE DEF t
  <2>6. Truncated(a) \in Int /\ 2 * Truncated(a) >= z - 1
    BY <2>3, <2>5 DEF t
  <2> QED
    BY <2>6 DEF a, e
<1> QED
  BY <1>3, <1>4

LEMMA SpaceFinite ==
  /\ IsFiniteSet(Dirs) /\ IsFiniteSet(Icons) /\ IsFiniteSet(Dummies)
  /\ \A x : IsFiniteSet({x})
<1>1. \A x : IsFiniteSet({x})
  BY FS_Singleton
<1>2. IsFiniteSet(Dirs)
  <2>1. Dirs = (({"exec"} \cup {"sysconf"}) \cup {"boot"}) \cup {"apps"}
    BY DEF Dirs
  <2>2. IsFiniteSet({"exec"} \cup {"sysconf"})
    BY <1>1, FS_AddElement
  <2>3. IsFiniteSet(({"exec"} \cup {"sysconf"}) \cup {"boot"})
    BY <2>2, FS_AddElement
  <2>4. IsFiniteSet((({"exec"} \cup {"sysconf"}) \cup {"boot"}) \cup {"apps"})
    BY <2>3, FS_AddElement
  <2> QED
    BY <2>1, <2>4
<1>3. IsFiniteSet(Icons)
  <2> DEFINE I(n) == {File(d, n) : d \in Dirs}
  <2>1. \A n : IsFiniteSet(I(n))
    <3> TAKE n
    <3> DEFINE f == [d \in Dirs |-> File(d, n)]
    <3>1. f \in Surjection(Dirs, I(n))
      BY DEF Surjection
    <3> QED
      BY <1>2, <3>1, FS_Surjection
  <2>2. Icons = I("icon.sys") \cup I("icon.icn")
    BY DEF Icons
  <2> HIDE DEF I
  <2> QED
    BY <2>1, <2>2, FS_Union
<1>4. IsFiniteSet(Dummies)
  <2> DEFINE f == [n \in DummyNames |-> File("exec", n)]
  <2>1. f \in Surjection(DummyNames, Dummies)
    BY DEF Surjection, Dummies
  <2> QED
    BY <2>1, FS_Surjection, SpaceAssumption
<1> QED
  BY <1>1, <1>2, <1>3, <1>4

(* What is found on the card and in INSTALL: the OSD to be written goes to *)
(* the folder of the dummies, nothing of INSTALL does.                     *)
Found(card, stick, multi, osd, last) ==
  /\ IsFiniteSet(DOMAIN card) /\ card \in [DOMAIN card -> Nat]
  /\ IsFiniteSet(DOMAIN stick) /\ stick \in [DOMAIN stick -> Nat]
  /\ \A f \in DOMAIN stick : f \in Drivers \cup {Cnf, Configurator} \/ f.dir \in {"boot", "apps"}
  /\ osd.dir = "exec" /\ osd \notin Icons /\ (multi => osd = OsdMain)
  /\ last = {} \/ \E f \in Dummies \cap DOMAIN card : last = {f}

LEMMA Places ==
  /\ \A f \in Dummies : f.dir = "exec" /\ f \notin Icons /\ f # OsdMain
  /\ \A f \in Drivers \cup {Cnf, Configurator, UninstallFile} : f.dir = "sysconf" /\ f \notin Icons
  /\ OsdMain.dir = "exec" /\ OsdMain \notin Icons /\ Cnf # UninstallFile /\ Configurator # UninstallFile /\ Cnf # Configurator
  /\ UninstallFile \notin Drivers /\ Cnf \notin Drivers /\ Configurator \notin Drivers
  /\ \A f \in Icons : f.dir \in Dirs
<1>1. \A d, n, e, k : /\ File(d, n).dir = d /\ File(d, n).name = n
                      /\ File(d, n) = File(e, k) => d = e /\ n = k
  BY DEF File
<1>2. \A f \in Icons : f.dir \in Dirs /\ f.name \in {"icon.sys", "icon.icn"}
  BY <1>1 DEF Icons
<1>3. \A f \in Dummies : f.dir = "exec" /\ f.name \in DummyNames
  BY <1>1 DEF Dummies
<1>4. OsdMain.dir = "exec" /\ OsdMain.name = "osdmain.elf"
  BY <1>1 DEF OsdMain
<1>5. /\ Cnf.dir = "sysconf" /\ Cnf.name = "cnf"
      /\ Configurator.dir = "sysconf" /\ Configurator.name = "configurator"
      /\ UninstallFile.dir = "sysconf" /\ UninstallFile.name = "uninstall"
  BY <1>1 DEF Cnf, Configurator, UninstallFile
<1>6. \A f \in Drivers : f.dir = "sysconf" /\ f.name \in {"usbd", "usbhdfsd"}
  BY <1>1 DEF Drivers
<1> QED
  BY <1>2, <1>3, <1>4, <1>5, <1>6, SpaceAssumption

LEMMA DummyCount ==
  IsFiniteSet(Dummies) /\ Cardinality(Dummies) = Cardinality(DummyNames) /\ Cardinality(Dummies) \in Nat
<1> DEFINE f == [n \in DummyNames |-> File("exec", n)]
<1>1. f \in Surjection(DummyNames, Dummies)
  BY DEF Surjection, Dummies
<1>2. f \in Injection(DummyNames, Dummies)
  <2>1. \A n, k : File("exec", n) = File("exec", k) => n = k
    BY DEF File
  <2>2. f \in [DummyNames -> Dummies] /\ \A n \in DummyNames : f[n] = File("exec", n)
    BY DEF Dummies
  <2> HIDE DEF f
  <2> QED
    BY <2>1, <2>2 DEF Injection, IsInjective
<1>3. IsFiniteSet(DummyNames)
  BY SpaceAssumption
<1> HIDE DEF f
<1> QED
  BY <1>1, <1>2, <1>3, FS_Surjection, FS_CardinalityType

LEMMA AddedFinite ==
  ASSUME NEW card, NEW stick, IsFiniteSet(DOMAIN stick), stick \in [DOMAIN stick -> Nat]
  PROVE  /\ IsFiniteSet(Added(card, stick))
         /\ \A f : SizeOf(stick, f) \in Nat
<1>1. Copies(stick) \subseteq DOMAIN stick
  BY DEF Copies
<1>2. IsFiniteSet(DOMAIN stick \cup {Cnf})
  BY SpaceFinite, FS_AddElement
<1>3. Added(card, stick) \subseteq DOMAIN stick \cup {Cnf}
  BY <1>1 DEF Added
<1>4. CnfSize \in Nat
  BY SpaceAssumption
<1> QED
  BY <1>2, <1>3, <1>4, FS_Subset DEF SizeOf

(* An installation writes the OSD, what is added, the dummies and their    *)
(* record, and icons the card lacks.                                       *)
Extra(multi) == IF multi THEN Dummies \cup {UninstallFile} ELSE {}
NewIcons(card) == Icons \ DOMAIN card

LEMMA WrittenParts ==
  ASSUME NEW card, NEW stick, NEW multi, NEW osd, NEW last,
         Found(card, stick, multi, osd, last)
  PROVE  /\ \A keep : Written(card, stick, multi, osd, keep)
                        \subseteq {osd} \cup Added(card, stick) \cup Extra(multi) \cup NewIcons(card)
         /\ osd \notin Added(card, stick) /\ osd \notin Extra(multi) /\ osd \notin NewIcons(card)
         /\ Added(card, stick) \cap Extra(multi) = {} /\ Extra(multi) \cap NewIcons(card) = {}
         /\ Cnf # osd /\ Cnf \notin Extra(multi) /\ Cnf \notin NewIcons(card)
<1>1. \A f \in Added(card, stick) : f = Cnf \/ f.dir \in {"boot", "apps"} \/ f \in Drivers \cup {Configurator}
  BY DEF Added, Copies
<1>2. osd.dir = "exec" /\ osd \notin Icons /\ (multi => osd = OsdMain)
  BY DEF Found
<1>3. \A keep : Written(card, stick, multi, osd, keep)
              \subseteq {osd} \cup Added(card, stick) \cup Extra(multi) \cup NewIcons(card)
  BY DEF Written, Extra, NewIcons
<1>4. Cnf # osd /\ Cnf \notin Extra(multi) /\ Cnf \notin NewIcons(card)
  BY <1>2, Places DEF Extra, NewIcons
<1>5. osd \notin Added(card, stick) /\ osd \notin NewIcons(card)
  BY <1>1, <1>2, Places DEF NewIcons
<1>6. osd \notin Extra(multi)
  BY <1>2, Places DEF Extra
<1>7. Added(card, stick) \cap Extra(multi) = {} /\ Extra(multi) \cap NewIcons(card) = {}
  BY <1>1, Places DEF Extra, NewIcons
<1> QED
  BY <1>3, <1>4, <1>5, <1>6, <1>7

LEMMA WrittenSizes ==
  ASSUME NEW card, NEW stick, NEW multi, NEW osd, NEW last,
         Found(card, stick, multi, osd, last)
  PROVE  /\ WrittenSize(stick, osd, osd) = OsdSize
         /\ \A f \in Added(card, stick) : WrittenSize(stick, osd, f) = SizeOf(stick, f)
         /\ \A f \in Extra(multi) : WrittenSize(stick, osd, f) = 1
         /\ \A f \in NewIcons(card) \ Added(card, stick) : WrittenSize(stick, osd, f) = IconSize
<1>1. WrittenSize(stick, osd, osd) = OsdSize
  BY DEF WrittenSize
<1>2. \A f \in Added(card, stick) : f # osd /\ (f = Cnf \/ f \in DOMAIN stick)
  <2>1. osd \notin Added(card, stick)
    BY WrittenParts
  <2>2. \A f \in Added(card, stick) : f = Cnf \/ f \in DOMAIN stick
    BY DEF Added, Copies
  <2> QED
    BY <2>1, <2>2
<1>3. \A f \in Added(card, stick) : WrittenSize(stick, osd, f) = SizeOf(stick, f)
  BY <1>2 DEF WrittenSize
<1>4. \A f \in DOMAIN stick : f \in Drivers \cup {Cnf, Configurator} \/ f \in Copies(stick)
  BY DEF Found, Copies
<1>5. \A f \in Extra(multi) : f # osd /\ f # Cnf /\ f \notin DOMAIN stick /\ f \notin Icons
  <2>1. \A f \in Extra(multi) : f # osd
    BY WrittenParts
  <2>2. \A f \in Extra(multi) : f # Cnf /\ f \notin Icons
    BY Places DEF Extra
  <2>3. \A f \in Extra(multi) : f \notin DOMAIN stick
    BY <1>4, Places DEF Extra, Copies
  <2> QED
    BY <2>1, <2>2, <2>3
<1>6. \A f \in Extra(multi) : WrittenSize(stick, osd, f) = 1
  BY <1>5 DEF WrittenSize
<1>7. \A f \in NewIcons(card) \ Added(card, stick) : f # osd /\ f # Cnf /\ f \notin DOMAIN stick /\ f \in Icons
  <2>1. \A f \in NewIcons(card) : f # osd /\ f \in Icons
    BY WrittenParts DEF NewIcons
  <2>2. Copies(stick) \subseteq Added(card, stick)
    BY DEF Added
  <2> QED
    BY <1>4, <2>1, <2>2, Places
<1>8. \A f \in NewIcons(card) \ Added(card, stick) : WrittenSize(stick, osd, f) = IconSize
  BY <1>7 DEF WrittenSize
<1> QED
  BY <1>1, <1>3, <1>6, <1>8

(* What Needed adds and subtracts, in clusters.                            *)
AddedUp(card, stick) == Sum([f \in Added(card, stick) |-> RoundedUp(SizeOf(stick, f))])
SubtractedUp(card, stick) == Sum([f \in Subtracted(card, stick) |-> RoundedUp(card[f])])

LEMMA WrittenBound ==
  ASSUME NEW card, NEW stick, NEW multi, NEW osd, NEW keep, NEW last, Found(card, stick, multi, osd, last)
  PROVE  Sum([f \in Written(card, stick, multi, osd, keep) |-> CeilDiv(WrittenSize(stick, osd, f), Cluster)])
           <= RoundedUp(OsdSize) + AddedUp(card, stick) + Cardinality(Extra(multi))
              + RoundedUp(IconSize) * Cardinality(NewIcons(card))
<1> DEFINE A == Added(card, stick)
           X == Extra(multi)
           Y == NewIcons(card) \ A
           W == Written(card, stick, multi, osd, keep)
           U == {osd} \cup A \cup X \cup Y
           ws(f) == WrittenSize(stick, osd, f)
           ru(f) == RoundedUp(SizeOf(stick, f))
           G == [f \in U |-> CeilDiv(ws(f), Cluster)]
           H == [f \in U |-> IF f \in A THEN ru(f) ELSE IF f = osd THEN RoundedUp(OsdSize)
                             ELSE IF f \in X THEN 1 ELSE RoundedUp(IconSize)]
<1>1. /\ IsFiniteSet(A) /\ IsFiniteSet(X) /\ IsFiniteSet(Y) /\ IsFiniteSet(U) /\ IsFiniteSet(NewIcons(card))
      /\ Cardinality(Y) \in Nat /\ Cardinality(NewIcons(card)) \in Nat /\ Cardinality(X) \in Nat
      /\ Cardinality(Y) <= Cardinality(NewIcons(card))
  <2>1. IsFiniteSet(A)
    BY AddedFinite DEF Found
  <2>2. IsFiniteSet(X)
    BY SpaceFinite, FS_AddElement, FS_EmptySet DEF Extra
  <2>3. IsFiniteSet(NewIcons(card))
    BY SpaceFinite, FS_Subset DEF NewIcons
  <2>4. Y \in SUBSET NewIcons(card)
    OBVIOUS
  <2> HIDE DEF A, X, Y
  <2>5. IsFiniteSet(Y) /\ Cardinality(Y) <= Cardinality(NewIcons(card))
    BY <2>3, <2>4, FS_Subset
  <2>6. IsFiniteSet({osd} \cup A)
    BY <2>1, SpaceFinite, FS_Union
  <2>7. IsFiniteSet(({osd} \cup A) \cup X)
    BY <2>2, <2>6, FS_Union
  <2>8. IsFiniteSet((({osd} \cup A) \cup X) \cup Y)
    BY <2>5, <2>7, FS_Union
  <2> QED
    BY <2>1, <2>2, <2>3, <2>5, <2>8, FS_CardinalityType
<1>2. /\ W \subseteq U /\ osd \notin A /\ osd \notin X /\ osd \notin Y
      /\ A \cap X = {} /\ A \cap Y = {} /\ X \cap Y = {}
  BY WrittenParts
<1>3. /\ ws(osd) = OsdSize
      /\ \A f \in A : ws(f) = SizeOf(stick, f)
      /\ \A f \in X : ws(f) = 1
      /\ \A f \in Y : ws(f) = IconSize
  BY WrittenSizes
<1>4. \A f : SizeOf(stick, f) \in Nat
  BY AddedFinite DEF Found
<1>5. OsdSize \in Nat /\ IconSize \in Nat
  BY SpaceAssumption
<1> HIDE DEF A, X, Y, W
<1>6. \A n \in Nat : RoundedUp(n) \in Nat /\ CeilDiv(n, Cluster) \in Nat /\ CeilDiv(n, Cluster) <= RoundedUp(n)
  BY RoundedSize
<1>7. /\ \A f \in A : ru(f) \in Nat /\ CeilDiv(ws(f), Cluster) \in Nat /\ CeilDiv(ws(f), Cluster) <= ru(f)
      /\ CeilDiv(ws(osd), Cluster) \in Nat /\ CeilDiv(ws(osd), Cluster) <= RoundedUp(OsdSize)
      /\ \A f \in X : CeilDiv(ws(f), Cluster) = 1
      /\ \A f \in Y : CeilDiv(ws(f), Cluster) \in Nat /\ CeilDiv(ws(f), Cluster) <= RoundedUp(IconSize)
      /\ RoundedUp(OsdSize) \in Nat /\ RoundedUp(IconSize) \in Nat
  BY <1>3, <1>4, <1>5, <1>6, CeilOne
<1> HIDE DEF ws, ru
<1>8. G \in [U -> Int] /\ H \in [U -> Int] /\ \A f \in U : G[f] <= H[f] /\ H[f] >= 0
  <2>1. \A f \in U : /\ G[f] = CeilDiv(ws(f), Cluster) /\ G[f] \in Int
                     /\ H[f] \in Int /\ G[f] <= H[f] /\ H[f] >= 0
    <3> SUFFICES ASSUME NEW f \in U
                 PROVE  /\ G[f] = CeilDiv(ws(f), Cluster) /\ G[f] \in Int
                        /\ H[f] \in Int /\ G[f] <= H[f] /\ H[f] >= 0
      OBVIOUS
    <3>1. G[f] = CeilDiv(ws(f), Cluster)
      OBVIOUS
    <3>2. CASE f \in A
      BY <1>7, <3>1, <3>2
    <3>3. CASE f = osd
      BY <1>2, <1>7, <3>1, <3>3
    <3>4. CASE f \in X
      BY <1>2, <1>7, <3>1, <3>4
    <3>5. CASE f \in Y
      BY <1>2, <1>7, <3>1, <3>5
    <3> QED
      BY <3>2, <3>3, <3>4, <3>5
  <2> QED
    BY <2>1
<1>9. TotalOver(G, W) <= TotalOver(H, W) /\ TotalOver(H, W) <= TotalOver(H, U)
  <2>1. U \in SUBSET U /\ W \in SUBSET U
    BY <1>2
  <2> HIDE DEF U, G, H
  <2> QED
    BY <1>1, <1>8, <2>1, TotalMonotone, TotalPart
<1>10. TotalOver(H, U) = RoundedUp(OsdSize) + TotalOver(H, A) + TotalOver(H, X) + TotalOver(H, Y)
  <2> DEFINE O == {osd}
             V == O \cup A
             Z == V \cup X
  <2>1. /\ O \in SUBSET U /\ A \in SUBSET U /\ V \in SUBSET U /\ X \in SUBSET U /\ Z \in SUBSET U /\ Y \in SUBSET U
        /\ O \cap A = {} /\ V \cap X = {} /\ Z \cap Y = {} /\ U = Z \cup Y /\ osd \in U
    BY <1>2
  <2>2. H[osd] = RoundedUp(OsdSize)
    BY <1>2
  <2> HIDE DEF U, G, H
  <2>3. TotalOver(H, O) = H[osd]
    BY <1>1, <1>8, <2>1, TotalSingle
  <2> HIDE DEF O
  <2>4. TotalOver(H, V) = TotalOver(H, O) + TotalOver(H, A)
    BY <1>1, <1>8, <2>1, TotalUnion
  <2> HIDE DEF V
  <2>5. TotalOver(H, Z) = TotalOver(H, V) + TotalOver(H, X)
    BY <1>1, <1>8, <2>1, TotalUnion
  <2> HIDE DEF Z
  <2>6. TotalOver(H, U) = TotalOver(H, Z) + TotalOver(H, Y)
    BY <1>1, <1>8, <2>1, TotalUnion
  <2> QED
    BY <2>2, <2>3, <2>4, <2>5, <2>6
<1>11. TotalOver(H, A) = AddedUp(card, stick)
  <2> DEFINE F == [f \in A |-> ru(f)]
  <2>1. [f \in A |-> H[f]] = F
    OBVIOUS
  <2>2. Sum(F) = TotalOver(F, A) /\ [f \in A |-> F[f]] = F
    BY SumOfFunction
  <2>3. TotalOver(H, A) = Sum(F)
    BY <2>1, <2>2 DEF TotalOver
  <2> QED
    BY <2>3 DEF AddedUp, A, ru
<1>12. TotalOver(H, X) = 1 * Cardinality(X) /\ 1 * Cardinality(X) = Cardinality(X)
  <2>1. X \in SUBSET U /\ \A f \in X : H[f] = 1
    BY <1>2
  <2> HIDE DEF U, H
  <2> QED
    BY <1>1, <1>8, <2>1, TotalConstant
<1>13. TotalOver(H, Y) = RoundedUp(IconSize) * Cardinality(Y)
  <2>1. Y \in SUBSET U /\ \A f \in Y : H[f] = RoundedUp(IconSize)
    BY <1>2
  <2> HIDE DEF U, H
  <2> QED
    BY <1>1, <1>7, <1>8, <2>1, TotalConstant
<1>14. RoundedUp(IconSize) * Cardinality(Y) <= RoundedUp(IconSize) * Cardinality(NewIcons(card))
  <2> DEFINE p == Cardinality(Y)
             q == Cardinality(NewIcons(card))
             c == RoundedUp(IconSize)
  <2>1. p \in Nat /\ q \in Nat /\ p <= q /\ c \in Nat
    BY <1>1, <1>7
  <2> HIDE DEF p, q, c
  <2>2. c * p <= c * q
    <3>1. PICK k \in Nat : q = p + k
      BY <2>1
    <3>2. c * q = c * p + c * k /\ c * k \in Nat /\ c * p \in Nat
      BY <2>1, <3>1
    <3> QED
      BY <3>2
  <2> QED
    BY <2>2 DEF p, q, c
<1>15. Sum([f \in W |-> CeilDiv(ws(f), Cluster)]) = TotalOver(G, W)
  <2> DEFINE F == [f \in W |-> CeilDiv(ws(f), Cluster)]
  <2>1. [f \in W |-> G[f]] = F
    BY <1>2
  <2>2. Sum(F) = TotalOver(F, W) /\ [f \in W |-> F[f]] = F
    BY SumOfFunction
  <2> QED
    BY <2>1, <2>2 DEF TotalOver
<1>16. /\ TotalOver(G, W) \in Int /\ TotalOver(H, W) \in Int /\ TotalOver(H, A) \in Int
       /\ RoundedUp(IconSize) * Cardinality(Y) \in Int
       /\ RoundedUp(IconSize) * Cardinality(NewIcons(card)) \in Int
  <2>1. W \in SUBSET U /\ A \in SUBSET U
    BY <1>2
  <2> HIDE DEF U, G, H
  <2> QED
    BY <1>1, <1>7, <1>8, <2>1, TotalType
<1> HIDE DEF G, H, U
<1>17. TotalOver(G, W) <= RoundedUp(OsdSize) + AddedUp(card, stick) + Cardinality(X)
                          + RoundedUp(IconSize) * Cardinality(NewIcons(card))
  BY <1>1, <1>7, <1>9, <1>10, <1>11, <1>12, <1>13, <1>14, <1>16
<1> QED
  BY <1>15, <1>17 DEF W, X, ws

Gone(card, stick, multi, osd, keep) == Deleted(card, stick) \cup (Written(card, stick, multi, osd, keep) \cap DOMAIN card)
Freed(card, stick, multi, osd, keep) == Sum([f \in Gone(card, stick, multi, osd, keep) |-> Occupies(card, f)])
OldOsd(card, last) == IF last = {} THEN 0 ELSE card[CHOOSE f \in last : TRUE]
Full(card, stick, last) == {f \in Subtracted(card, stick) \cup last : card[f] % Cluster = 0}
Missing(card) == IF UninstallFile \in DOMAIN card THEN Dummies \ DOMAIN card ELSE {}
KeptClusters(card, multi, osd, last) ==
  Sum([f \in Kept(card, multi, osd, last) |-> CeilDiv(card[f], Cluster)])

LEMMA OldOsdSize ==
  ASSUME NEW card, NEW stick, NEW multi, NEW osd, NEW last, Found(card, stick, multi, osd, last)
  PROVE  /\ last \subseteq Dummies \cap DOMAIN card
         /\ last = {} => OldOsd(card, last) = 0
         /\ last # {} => \E f : last = {f} /\ OldOsd(card, last) = card[f]
         /\ OldOsd(card, last) \in Nat
<1>1. last = {} \/ \E f \in Dummies \cap DOMAIN card : last = {f}
  BY DEF Found
<1>2. card \in [DOMAIN card -> Nat]
  BY DEF Found
<1>3. CASE last = {}
  BY <1>3 DEF OldOsd
<1>4. ASSUME NEW f \in Dummies \cap DOMAIN card, last = {f}
      PROVE  OldOsd(card, last) = card[f] /\ card[f] \in Nat
  BY <1>2, <1>4 DEF OldOsd
<1> QED
  BY <1>1, <1>3, <1>4

LEMMA SubtractedGone ==
  ASSUME NEW card, NEW stick, NEW multi, NEW osd, NEW keep, NEW last, Found(card, stick, multi, osd, last)
  PROVE  /\ (keep => Cnf \notin DOMAIN card) => Subtracted(card, stick) \subseteq Gone(card, stick, multi, osd, keep)
         /\ Gone(card, stick, multi, osd, keep) \subseteq DOMAIN card
         /\ \A f \in Subtracted(card, stick) : f \notin Dummies /\ f # OsdMain
<1>1. (keep => Cnf \notin DOMAIN card) =>
        DOMAIN card \cap ({Cnf} \cup Copies(stick) \cup ({Configurator} \cap DOMAIN stick))
          \subseteq Written(card, stick, multi, osd, keep)
  BY DEF Written, Added
<1>2. DOMAIN card \cap (({UninstallFile} \cap DOMAIN card) \cup ({Configurator} \ DOMAIN stick)) \subseteq Deleted(card, stick)
  BY DEF Deleted
<1>3. (keep => Cnf \notin DOMAIN card) => Subtracted(card, stick) \subseteq Gone(card, stick, multi, osd, keep)
  BY <1>1, <1>2 DEF Subtracted, Gone
<1>4. Gone(card, stick, multi, osd, keep) \subseteq DOMAIN card
  BY DEF Gone, Deleted
<1>5. \A f \in Subtracted(card, stick) : f.dir # "exec"
  BY Places DEF Subtracted, Copies
<1> QED
  BY <1>3, <1>4, <1>5, Places

LEMMA FreedBound ==
  ASSUME NEW card, NEW stick, NEW multi, NEW osd, NEW keep, NEW last, Found(card, stick, multi, osd, last),
         keep => Cnf \notin DOMAIN card
  PROVE  SubtractedUp(card, stick) + RoundedUp(OldOsd(card, last))
         + (IF UninstallFile \in DOMAIN card THEN Cardinality(Dummies) ELSE 0)
           <= Freed(card, stick, multi, osd, keep) + 1 + Cardinality(Full(card, stick, last))
              + Cardinality(Missing(card)) + KeptClusters(card, multi, osd, last)
<1> DEFINE K == DOMAIN card
           u == UninstallFile \in K
           B == Subtracted(card, stick)
           full == Full(card, stick, last)
           gone == Gone(card, stick, multi, osd, keep)
           kept == Kept(card, multi, osd, last)
           X == IF u THEN Dummies \cap K ELSE {}
           Y == IF kept = last THEN {} ELSE IF u THEN {OsdMain} ELSE last
           g == [f \in K |-> Occupies(card, f)]
           c == [f \in K |-> CeilDiv(card[f], Cluster)]
           r == [f \in K |-> RoundedUp(card[f])]
           one == [f \in K |-> IF f \in full THEN 1 ELSE 0]
           more == [f \in K |-> IF card[f] % Cluster = 0 THEN 1 ELSE 0]
<1>1. IsFiniteSet(K) /\ \A f \in K : card[f] \in Nat
  BY DEF Found
<1>2. /\ last \subseteq Dummies \cap K
      /\ last = {} \/ \E f : last = {f} /\ OldOsd(card, last) = card[f]
      /\ last = {} => OldOsd(card, last) = 0
  BY OldOsdSize
<1>3. B \subseteq gone /\ gone \subseteq K /\ \A f \in B : f \notin Dummies /\ f # OsdMain
  BY SubtractedGone
<1>4. kept = {} \/ kept = last
  BY <1>2 DEF Kept
<1>5. X \subseteq gone /\ Y \subseteq gone /\ (Y # {} /\ u => \A f \in last : card[f] <= card[OsdMain])
  <2>1. X \subseteq gone
    BY DEF Gone, Deleted
  <2>2. CASE kept = last
    BY <2>1, <2>2
  <2>3. CASE kept # last /\ u
    <3>1. kept = {} /\ last # {}
      BY <1>4, <2>3
    <3>2. \A f \in last : OsdMain \in K /\ ~(card[f] > card[OsdMain])
      BY <2>3, <3>1 DEF Kept
    <3>3. OsdMain \in K
      BY <3>1, <3>2
    <3>4. \A f \in last : card[f] <= card[OsdMain]
      BY <1>1, <1>2, <3>2, <3>3
    <3>5. OsdMain \in gone
      BY <3>3 DEF Gone, Deleted
    <3> QED
      BY <2>1, <2>3, <3>4, <3>5
  <2>4. CASE kept # last /\ ~u
    <3>1. kept = {}
      BY <1>4, <2>4
    <3>2. last \subseteq Dummies /\ (multi \/ last \subseteq {osd})
      BY <1>2, <2>4, <3>1 DEF Kept
    <3>3. last \subseteq Written(card, stick, multi, osd, keep)
      <4>1. \A f \in last : f # Cnf
        BY <3>2, Places
      <4> QED
        BY <3>2, <4>1 DEF Written
    <3> QED
      BY <1>2, <2>1, <2>4, <3>3 DEF Gone
  <2> QED
    BY <2>2, <2>3, <2>4
<1>6. B \cap X = {} /\ (B \cup X) \cap Y = {} /\ B \cap last = {}
  BY <1>2, <1>3, Places
<1>7. full \subseteq B \cup last /\ \A f \in B \cup last : f \in full <=> card[f] % Cluster = 0
  BY DEF Full
<1> HIDE DEF B, gone, kept, full
<1>8. \A n \in Nat : /\ RoundedUp(n) \in Nat /\ CeilDiv(n, Cluster) \in Nat
                     /\ RoundedUp(n) = CeilDiv(n, Cluster) + (IF n % Cluster = 0 THEN 1 ELSE 0)
  BY RoundedSize
<1>9. /\ c \in [K -> Int] /\ r \in [K -> Int] /\ one \in [K -> Int] /\ more \in [K -> Int] /\ g \in [K -> Int]
      /\ \A f \in K : /\ c[f] >= 0 /\ g[f] >= 0 /\ r[f] = c[f] + more[f] /\ one[f] >= 0
                      /\ (f \notin Dummies => g[f] = c[f])
  <2>1. \A f \in K : RoundedUp(card[f]) \in Nat /\ CeilDiv(card[f], Cluster) \in Nat
    BY <1>1, <1>8
  <2>2. \A f \in K : /\ Occupies(card, f) \in Nat
                     /\ (f \notin Dummies => Occupies(card, f) = CeilDiv(card[f], Cluster))
    BY <2>1 DEF Occupies
  <2>3. \A f \in K : RoundedUp(card[f]) = CeilDiv(card[f], Cluster) + (IF card[f] % Cluster = 0 THEN 1 ELSE 0)
    BY <1>1, <1>8
  <2> HIDE DEF K
  <2> QED
    BY <2>1, <2>2, <2>3
<1>10. \A f \in K \cap Dummies : g[f] = IF u THEN 1 ELSE c[f]
  BY DEF Occupies
<1> DEFINE T == B \cup last
           V == B \cup X
           Z == V \cup Y
<1>11. /\ B \in SUBSET K /\ last \in SUBSET K /\ T \in SUBSET K /\ full \in SUBSET K
       /\ X \in SUBSET K /\ V \in SUBSET K /\ Y \in SUBSET K /\ Z \in SUBSET gone /\ gone \in SUBSET K
       /\ kept \in SUBSET K
  BY <1>2, <1>3, <1>4, <1>5, <1>7
<1>12. /\ \A f \in X : u /\ g[f] = 1
       /\ \A f \in B : g[f] = c[f]
       /\ \A f \in T : more[f] = one[f]
       /\ \A f \in last : Y # {} /\ ~u => g[f] = c[f]
  BY <1>2, <1>3, <1>7, <1>9, <1>10, <1>11
<1>13. TotalOver(c, last) <= TotalOver(g, Y) + TotalOver(c, kept)
  <2>1. TotalOver(c, kept) \in Int /\ TotalOver(g, Y) \in Int /\ 0 <= TotalOver(g, Y) /\ 0 <= TotalOver(c, kept)
    <3> HIDE DEF c, g, Y, K
    <3> QED
      BY <1>1, <1>9, <1>11, TotalType, TotalPart
  <2>2. CASE kept = last
    <3> HIDE DEF c, g, Y, K
    <3> QED
      BY <2>1, <2>2
  <2>3. CASE kept # last
    <3>1. last # {}
      BY <1>4, <2>3
    <3>2. PICK f : last = {f}
      BY <1>2, <3>1
    <3>3. f \in K /\ TotalOver(c, last) = c[f]
      <4>1. f \in K
        BY <1>2, <3>2
      <4> HIDE DEF c, K
      <4> QED
        BY <1>1, <1>9, <3>2, <4>1, TotalSingle
    <3>4. CASE u
      <4>1. Y = {OsdMain} /\ OsdMain \in K /\ card[f] <= card[OsdMain]
        BY <1>5, <1>11, <2>3, <3>2, <3>4
      <4>2. g[OsdMain] = CeilDiv(card[OsdMain], Cluster) /\ c[f] = CeilDiv(card[f], Cluster)
        BY <1>9, <3>3, <4>1, Places
      <4>3. c[f] <= g[OsdMain] /\ c[f] \in Int
        BY <1>1, <1>9, <3>3, <4>1, <4>2, CeilMonotone
      <4>4. TotalOver(g, Y) = g[OsdMain]
        <5> HIDE DEF g, K, Y
        <5> QED
          BY <1>1, <1>9, <4>1, TotalSingle
      <4> HIDE DEF c, g, K, Y
      <4> QED
        BY <1>9, <2>1, <3>3, <4>1, <4>3, <4>4
    <3>5. CASE ~u
      <4>1. Y = last /\ g[f] = c[f]
        BY <1>12, <2>3, <3>1, <3>2, <3>5
      <4> HIDE DEF c, g, K, Y
      <4>2. TotalOver(g, Y) = g[f]
        BY <1>1, <1>9, <3>2, <3>3, <4>1, TotalSingle
      <4> QED
        BY <1>9, <2>1, <3>3, <4>1, <4>2
    <3> QED
      BY <3>4, <3>5
  <2> QED
    BY <2>2, <2>3
<1>14. IsFiniteSet(X) /\ (IF u THEN Cardinality(Dummies) ELSE 0) = Cardinality(X) + Cardinality(Missing(card))
       /\ Cardinality(Missing(card)) \in Nat
  <2>1. IsFiniteSet(Dummies)
    BY SpaceFinite
  <2>2. CASE u
    <3> DEFINE P == Dummies \cap K
               Q == Dummies \ K
    <3>1. P \in SUBSET Dummies /\ Q \in SUBSET Dummies /\ Dummies = P \cup Q /\ P \cap Q = {}
      OBVIOUS
    <3> HIDE DEF P, Q
    <3>2. IsFiniteSet(P) /\ IsFiniteSet(Q)
      BY <2>1, <3>1, FS_Subset
    <3>3. Cardinality(Dummies) = Cardinality(P) + Cardinality(Q) - Cardinality({})
      BY <3>1, <3>2, FS_Union
    <3>4. Cardinality({}) = 0 /\ Cardinality(P) \in Nat /\ Cardinality(Q) \in Nat
      BY <3>2, FS_EmptySet, FS_CardinalityType
    <3>5. Cardinality(Dummies) = Cardinality(P) + Cardinality(Q)
      BY <3>3, <3>4
    <3> QED
      BY <2>2, <3>2, <3>4, <3>5 DEF Missing, P, Q
  <2>3. CASE ~u
    <3>1. X = {} /\ Missing(card) = {}
      BY <2>3 DEF Missing
    <3> QED
      BY <2>3, <3>1, FS_EmptySet
  <2> QED
    BY <2>2, <2>3
<1>15. RoundedUp(OldOsd(card, last)) <= TotalOver(r, last) + 1
       /\ RoundedUp(OldOsd(card, last)) \in Int
  <2>1. CASE last = {}
    <3>1. TotalOver(r, {}) = 0
      <4> HIDE DEF r, K
      <4> QED
        BY <1>1, <1>9, TotalEmpty
    <3>2. RoundedUp(0) = 1
      BY SpaceAssumption DEF RoundedUp
    <3> HIDE DEF r, K
    <3> QED
      BY <1>2, <2>1, <3>1, <3>2
  <2>2. CASE last # {}
    <3>1. PICK f : last = {f} /\ OldOsd(card, last) = card[f]
      BY <1>2, <2>2
    <3>2. f \in K /\ r[f] = RoundedUp(card[f]) /\ r[f] \in Int
      BY <1>2, <1>9, <3>1
    <3>3. TotalOver(r, last) = r[f]
      <4> HIDE DEF r, K
      <4> QED
        BY <1>1, <1>9, <3>1, <3>2, TotalSingle
    <3> QED
      BY <3>1, <3>2, <3>3
  <2> QED
    BY <2>1, <2>2
<1>16. /\ SubtractedUp(card, stick) = TotalOver(r, B)
       /\ Freed(card, stick, multi, osd, keep) = TotalOver(g, gone)
       /\ KeptClusters(card, multi, osd, last) = TotalOver(c, kept)
  <2>1. [f \in B |-> r[f]] = [f \in B |-> RoundedUp(card[f])]
    BY <1>11
  <2>2. [f \in gone |-> g[f]] = [f \in gone |-> Occupies(card, f)]
    BY <1>11
  <2>3. [f \in kept |-> c[f]] = [f \in kept |-> CeilDiv(card[f], Cluster)]
    BY <1>11
  <2>4. \A F : Sum(F) = Total(F)
    BY DEF Sum, Total
  <2>5. SubtractedUp(card, stick) = TotalOver(r, B)
    BY <2>1, <2>4 DEF SubtractedUp, TotalOver, B
  <2>6. Freed(card, stick, multi, osd, keep) = TotalOver(g, gone)
    BY <2>2, <2>4 DEF Freed, TotalOver, gone
  <2>7. KeptClusters(card, multi, osd, last) = TotalOver(c, kept)
    BY <2>3, <2>4 DEF KeptClusters, TotalOver, kept
  <2> QED
    BY <2>5, <2>6, <2>7
<1>17. Cardinality(full) = TotalOver(one, K) /\ TotalOver(one, T) <= TotalOver(one, K)
  <2>1. Cardinality(full) = TotalOver(one, K)
    <3> HIDE DEF K
    <3> QED
      BY <1>1, <1>11, TotalCount
  <2>2. K \in SUBSET K
    OBVIOUS
  <2> HIDE DEF K, one, T
  <2> QED
    BY <1>1, <1>9, <1>11, <2>1, <2>2, TotalPart
<1> HIDE DEF K, c, g, r, one, more, X, Y
<1>18. /\ TotalOver(r, T) = TotalOver(r, B) + TotalOver(r, last)
       /\ TotalOver(c, T) = TotalOver(c, B) + TotalOver(c, last)
  <2>1. IsFiniteSet(K) /\ r \in [K -> Int] /\ c \in [K -> Int]
    BY <1>1, <1>9
  <2>2. B \in SUBSET K /\ last \in SUBSET K /\ B \cap last = {}
    BY <1>6, <1>11
  <2> QED
    BY <2>1, <2>2, TotalUnion
<1> HIDE DEF T
<1>19. TotalOver(r, T) = TotalOver(c, T) + TotalOver(one, T)
  <2>1. /\ IsFiniteSet(K) /\ T \in SUBSET K
        /\ r \in [K -> Int] /\ c \in [K -> Int] /\ more \in [K -> Int] /\ one \in [K -> Int]
        /\ \A f \in K : r[f] = c[f] + more[f]
        /\ \A f \in T : more[f] = one[f]
    BY <1>1, <1>9, <1>11, <1>12
  <2>2. \A f \in T : r[f] = c[f] + more[f]
    BY <2>1
  <2>3. TotalOver(r, T) = TotalOver(c, T) + TotalOver(more, T)
    BY <2>1, <2>2, TotalAdded
  <2>4. TotalOver(more, T) = TotalOver(one, T)
    BY <2>1, TotalSame
  <2> QED
    BY <2>3, <2>4
<1>20. TotalOver(g, V) = TotalOver(g, B) + TotalOver(g, X)
  <2>1. IsFiniteSet(K) /\ g \in [K -> Int]
    BY <1>1, <1>9
  <2>2. B \in SUBSET K /\ X \in SUBSET K /\ B \cap X = {}
    BY <1>6, <1>11
  <2> QED
    BY <2>1, <2>2, TotalUnion
<1>21. TotalOver(g, Z) = TotalOver(g, V) + TotalOver(g, Y)
  <2>1. IsFiniteSet(K) /\ g \in [K -> Int]
    BY <1>1, <1>9
  <2>2. V \in SUBSET K /\ Y \in SUBSET K /\ V \cap Y = {}
    BY <1>6, <1>11
  <2> HIDE DEF V
  <2> QED
    BY <2>1, <2>2, TotalUnion
<1>22. TotalOver(g, B) = TotalOver(c, B)
  BY <1>1, <1>9, <1>11, <1>12, TotalSame
<1>23. TotalOver(g, X) = Cardinality(X)
  <2>1. TotalOver(g, X) = 1 * Cardinality(X)
    BY <1>1, <1>9, <1>11, <1>12, TotalConstant
  <2>2. Cardinality(X) \in Nat
    BY <1>14, FS_CardinalityType
  <2> QED
    BY <2>1, <2>2
<1> HIDE DEF Z, V
<1>24. TotalOver(g, Z) <= TotalOver(g, gone)
  <2>1. \A f \in gone : g[f] >= 0
    BY <1>9, <1>11
  <2> QED
    BY <1>1, <1>9, <1>11, <2>1, TotalPart
<1>25. /\ TotalOver(r, B) \in Int /\ TotalOver(r, last) \in Int /\ TotalOver(c, B) \in Int
       /\ TotalOver(c, last) \in Int /\ TotalOver(one, T) \in Int /\ TotalOver(one, K) \in Int
       /\ TotalOver(g, X) \in Int /\ TotalOver(g, Y) \in Int
       /\ TotalOver(g, gone) \in Int /\ TotalOver(c, kept) \in Int
  <2>1. K \in SUBSET K
    OBVIOUS
  <2> QED
    BY <1>1, <1>9, <1>11, <2>1, TotalType
<1> DEFINE ud == IF u THEN Cardinality(Dummies) ELSE 0
<1>26. ud = Cardinality(X) + Cardinality(Missing(card)) /\ Cardinality(Missing(card)) \in Int
  BY <1>14
<1> HIDE DEF ud
<1>27. TotalOver(r, B) + RoundedUp(OldOsd(card, last)) + ud
         <= TotalOver(g, gone) + 1 + Cardinality(full) + Cardinality(Missing(card)) + TotalOver(c, kept)
  BY <1>13, <1>15, <1>17, <1>18, <1>19, <1>20, <1>21, <1>22, <1>23, <1>24, <1>25, <1>26
<1> QED
  BY <1>16, <1>27 DEF ud, full, K

FilesAfter(card, stick, multi, osd, keep) == (DOMAIN card \ Deleted(card, stick)) \cup Written(card, stick, multi, osd, keep)
NewFiles(card, stick, multi, osd, keep) == Written(card, stick, multi, osd, keep) \ DOMAIN card
NoConfigurator(card, stick) == IF Configurator \in DOMAIN card \ DOMAIN stick THEN 1 ELSE 0

LEMMA FourDirs ==
  ASSUME NEW F \in [Dirs -> Int]
  PROVE  TotalOver(F, Dirs) = F["exec"] + F["sysconf"] + F["boot"] + F["apps"]
<1> DEFINE e == {"exec"}
           s == {"sysconf"}
           b == {"boot"}
           a == {"apps"}
           es == e \cup s
           esb == es \cup b
<1>1. /\ e \in SUBSET Dirs /\ s \in SUBSET Dirs /\ b \in SUBSET Dirs /\ a \in SUBSET Dirs
      /\ es \in SUBSET Dirs /\ esb \in SUBSET Dirs
      /\ e \cap s = {} /\ es \cap b = {} /\ esb \cap a = {} /\ Dirs = esb \cup a
      /\ "exec" \in Dirs /\ "sysconf" \in Dirs /\ "boot" \in Dirs /\ "apps" \in Dirs
  BY DEF Dirs
<1>2. IsFiniteSet(Dirs)
  BY SpaceFinite
<1>3. TotalOver(F, e) = F["exec"] /\ TotalOver(F, s) = F["sysconf"] /\ TotalOver(F, b) = F["boot"] /\ TotalOver(F, a) = F["apps"]
  BY <1>1, <1>2, TotalSingle
<1> HIDE DEF e, s, b, a
<1>4. TotalOver(F, es) = TotalOver(F, e) + TotalOver(F, s)
  BY <1>1, <1>2, TotalUnion
<1> HIDE DEF es
<1>5. TotalOver(F, esb) = TotalOver(F, es) + TotalOver(F, b)
  BY <1>1, <1>2, TotalUnion
<1> HIDE DEF esb
<1>6. TotalOver(F, Dirs) = TotalOver(F, esb) + TotalOver(F, a)
  BY <1>1, <1>2, TotalUnion
<1> QED
  BY <1>3, <1>4, <1>5, <1>6

LEMMA InFourDirs ==
  ASSUME NEW N, IsFiniteSet(N)
  PROVE  /\ \A d : InDir(N, d) \in Nat /\ (~Holds(N, d) => InDir(N, d) = 0)
         /\ InDir(N, "exec") + InDir(N, "sysconf") + InDir(N, "boot") + InDir(N, "apps") <= Cardinality(N)
<1> DEFINE P(d) == {f \in N : f.dir = d}
<1>1. \A d : P(d) \in SUBSET N /\ (~Holds(N, d) => P(d) = {})
  BY DEF Holds
<1>2. \A d : IsFiniteSet(P(d)) /\ InDir(N, d) = Cardinality(P(d)) /\ InDir(N, d) \in Nat
  BY <1>1, FS_Subset, FS_CardinalityType DEF InDir
<1>3. \A d, e : d # e => P(d) \cap P(e) = {}
  OBVIOUS
<1> DEFINE e == P("exec")
           s == P("sysconf")
           b == P("boot")
           a == P("apps")
           es == e \cup s
           esb == es \cup b
           all == esb \cup a
<1>4. e \cap s = {} /\ es \cap b = {} /\ esb \cap a = {} /\ all \in SUBSET N
  BY <1>1, <1>3
<1>5. IsFiniteSet(e) /\ IsFiniteSet(s) /\ IsFiniteSet(b) /\ IsFiniteSet(a)
  BY <1>2
<1> HIDE DEF e, s, b, a
<1>6. /\ IsFiniteSet(es) /\ Cardinality(es) = Cardinality(e) + Cardinality(s) - Cardinality({})
  BY <1>4, <1>5, FS_Union
<1> HIDE DEF es
<1>7. /\ IsFiniteSet(esb) /\ Cardinality(esb) = Cardinality(es) + Cardinality(b) - Cardinality({})
  BY <1>4, <1>5, <1>6, FS_Union
<1> HIDE DEF esb
<1>8. /\ IsFiniteSet(all) /\ Cardinality(all) = Cardinality(esb) + Cardinality(a) - Cardinality({})
  BY <1>4, <1>5, <1>7, FS_Union
<1> HIDE DEF all
<1>9. Cardinality(all) <= Cardinality(N) /\ Cardinality({}) = 0
  BY <1>4, FS_Subset, FS_EmptySet
<1>10. /\ InDir(N, "exec") = Cardinality(e) /\ InDir(N, "sysconf") = Cardinality(s)
       /\ InDir(N, "boot") = Cardinality(b) /\ InDir(N, "apps") = Cardinality(a)
  BY <1>2 DEF e, s, b, a
<1>11. /\ Cardinality(e) \in Nat /\ Cardinality(s) \in Nat /\ Cardinality(b) \in Nat /\ Cardinality(a) \in Nat
       /\ Cardinality(all) \in Nat /\ Cardinality(N) \in Nat
  BY <1>5, <1>8, FS_CardinalityType
<1>12. InDir(N, "exec") + InDir(N, "sysconf") + InDir(N, "boot") + InDir(N, "apps") <= Cardinality(N)
  BY <1>6, <1>7, <1>8, <1>9, <1>10, <1>11
<1>13. \A d : ~Holds(N, d) => InDir(N, d) = 0
  BY <1>1, <1>2, FS_EmptySet
<1> QED
  BY <1>2, <1>12, <1>13

LEMMA WrittenFinite ==
  ASSUME NEW card, NEW stick, NEW multi, NEW osd, NEW last, Found(card, stick, multi, osd, last)
  PROVE  /\ IsFiniteSet(DOMAIN card)
         /\ \A keep : /\ IsFiniteSet(Written(card, stick, multi, osd, keep))
                       /\ IsFiniteSet(FilesAfter(card, stick, multi, osd, keep))
                       /\ IsFiniteSet(NewFiles(card, stick, multi, osd, keep))
         /\ IsFiniteSet(Added(card, stick)) /\ IsFiniteSet(Extra(multi)) /\ IsFiniteSet(NewIcons(card))
<1>1. IsFiniteSet(DOMAIN card)
  BY DEF Found
<1>2. IsFiniteSet(Added(card, stick))
  BY AddedFinite DEF Found
<1>3. IsFiniteSet(Extra(multi))
  BY SpaceFinite, FS_AddElement, FS_EmptySet DEF Extra
<1>4. IsFiniteSet(NewIcons(card))
  BY SpaceFinite, FS_Subset DEF NewIcons
<1>5. IsFiniteSet({osd} \cup Added(card, stick))
  BY <1>2, SpaceFinite, FS_Union
<1>6. IsFiniteSet(({osd} \cup Added(card, stick)) \cup Extra(multi))
  BY <1>3, <1>5, FS_Union
<1>7. IsFiniteSet((({osd} \cup Added(card, stick)) \cup Extra(multi)) \cup NewIcons(card))
  BY <1>4, <1>6, FS_Union
<1>8. \A keep : Written(card, stick, multi, osd, keep) \in SUBSET ((({osd} \cup Added(card, stick)) \cup Extra(multi)) \cup NewIcons(card))
  BY WrittenParts
<1>9. \A keep : IsFiniteSet(Written(card, stick, multi, osd, keep))
  BY <1>7, <1>8, FS_Subset
<1>10. IsFiniteSet(DOMAIN card \ Deleted(card, stick))
  BY <1>1, FS_Subset
<1>11. \A keep : IsFiniteSet(FilesAfter(card, stick, multi, osd, keep))
  BY <1>9, <1>10, FS_Union DEF FilesAfter
<1>12. \A keep : IsFiniteSet(NewFiles(card, stick, multi, osd, keep))
  BY <1>9, FS_Subset DEF NewFiles
<1> QED
  BY <1>1, <1>2, <1>3, <1>4, <1>9, <1>11, <1>12

(* What is in a folder afterwards was there or is new; the configurator is *)
(* not, when INSTALL has none.                                             *)
LEMMA FolderAfter ==
  ASSUME NEW card, NEW stick, NEW multi, NEW osd, NEW keep, NEW last, Found(card, stick, multi, osd, last), NEW d
  PROVE  InDir(FilesAfter(card, stick, multi, osd, keep), d)
           <= InDir(DOMAIN card, d) + InDir(NewFiles(card, stick, multi, osd, keep), d)
              - (IF d = "sysconf" THEN NoConfigurator(card, stick) ELSE 0)
<1> DEFINE K == DOMAIN card
           a == {f \in FilesAfter(card, stick, multi, osd, keep) : f.dir = d}
           k == {f \in K : f.dir = d}
           n == {f \in NewFiles(card, stick, multi, osd, keep) : f.dir = d}
           gone == IF d = "sysconf" /\ Configurator \in K \ DOMAIN stick THEN {Configurator} ELSE {}
           rest == k \ gone
<1>1. IsFiniteSet(k) /\ IsFiniteSet(n) /\ IsFiniteSet(a)
  BY WrittenFinite, FS_Subset
<1>2. Configurator \in K \ DOMAIN stick => Configurator \notin FilesAfter(card, stick, multi, osd, keep) /\ Configurator.dir = "sysconf"
  <2>1. Configurator \notin DOMAIN stick => Configurator \notin Added(card, stick)
    BY Places DEF Added, Copies
  <2>2. osd.dir = "exec"
    BY DEF Found
  <2>3. Configurator \notin Extra(multi) /\ Configurator \notin NewIcons(card) /\ Configurator.dir = "sysconf"
    BY Places DEF Extra, NewIcons
  <2>4. Configurator \notin DOMAIN stick => Configurator \notin Written(card, stick, multi, osd, keep)
    BY <2>1, <2>2, <2>3, WrittenParts
  <2>5. Configurator \in K \ DOMAIN stick => Configurator \in Deleted(card, stick)
    BY DEF Deleted
  <2> QED
    BY <2>3, <2>4, <2>5 DEF FilesAfter
<1>3. a \in SUBSET (rest \cup n) /\ rest \in SUBSET k /\ gone \subseteq k
  BY <1>2 DEF FilesAfter, NewFiles
<1> DEFINE c == IF d = "sysconf" THEN NoConfigurator(card, stick) ELSE 0
<1>4. IsFiniteSet(rest) /\ Cardinality(rest) = Cardinality(k) - c
  <2>1. CASE d = "sysconf" /\ Configurator \in K \ DOMAIN stick
    <3>1. gone = {Configurator} /\ c = 1 /\ Configurator \in k
      BY <1>2, <2>1 DEF NoConfigurator
    <3> HIDE DEF gone, c, k
    <3> QED
      BY <1>1, <3>1, FS_RemoveElement
  <2>2. CASE ~(d = "sysconf" /\ Configurator \in K \ DOMAIN stick)
    <3>1. gone = {} /\ c = 0 /\ rest = k
      BY <2>2 DEF NoConfigurator
    <3>2. Cardinality(k) \in Nat
      BY <1>1, FS_CardinalityType
    <3> HIDE DEF gone, c, k, rest
    <3> QED
      BY <1>1, <3>1, <3>2
  <2> QED
    BY <2>1, <2>2
<1>5. c \in {0, 1}
  BY DEF NoConfigurator
<1>6. /\ InDir(FilesAfter(card, stick, multi, osd, keep), d) = Cardinality(a) /\ InDir(K, d) = Cardinality(k)
      /\ InDir(NewFiles(card, stick, multi, osd, keep), d) = Cardinality(n)
  BY DEF InDir
<1> HIDE DEF a, k, n, rest, c
<1>7. IsFiniteSet(rest \cup n) /\ Cardinality(rest \cup n) = Cardinality(rest) + Cardinality(n) - Cardinality(rest \cap n)
  BY <1>1, <1>4, FS_Union
<1>8. IsFiniteSet(rest \cap n)
  BY <1>1, FS_Subset
<1>9. Cardinality(a) <= Cardinality(rest \cup n)
  BY <1>3, <1>7, FS_Subset
<1>10. /\ Cardinality(a) \in Nat /\ Cardinality(k) \in Nat /\ Cardinality(n) \in Nat /\ Cardinality(rest) \in Nat
       /\ Cardinality(rest \cap n) \in Nat
  BY <1>1, <1>4, <1>8, FS_CardinalityType
<1>11. Cardinality(a) <= Cardinality(k) + Cardinality(n) - c
  BY <1>4, <1>5, <1>7, <1>9, <1>10
<1> QED
  BY <1>6, <1>11 DEF c

OldDirs(card) == {d \in Dirs : Holds(DOMAIN card, d)}
NewDirs(card, stick, multi, osd, keep) ==
  {d \in Dirs : Holds(FilesAfter(card, stick, multi, osd, keep), d) /\ ~Holds(DOMAIN card, d)}
NoDirs(card) == {d \in Dirs : ~Holds(DOMAIN card, d)}
Grown(card, stick, multi, osd, keep) ==
  Sum([d \in OldDirs(card) |->
         Max({0, FolderClusters(InDir(FilesAfter(card, stick, multi, osd, keep), d)) - FolderClusters(InDir(DOMAIN card, d))})])
Created(card, stick, multi, osd, keep) ==
  Sum([d \in NewDirs(card, stick, multi, osd, keep) |-> FolderClusters(InDir(FilesAfter(card, stick, multi, osd, keep), d))])

(* In half clusters: a folder that is there rounds by one, a folder that   *)
(* is created has two entries more and rounds by one, and the root has an  *)
(* entry more.                                                             *)
LEMMA FolderBound ==
  ASSUME NEW card, NEW stick, NEW multi, NEW osd, NEW keep, NEW last, Found(card, stick, multi, osd, last), NEW root \in Nat
  PROVE  2 * (Grown(card, stick, multi, osd, keep) + Created(card, stick, multi, osd, keep)
              + FolderClusters(root + Cardinality(NewDirs(card, stick, multi, osd, keep))) - FolderClusters(root))
           <= Cardinality(NewFiles(card, stick, multi, osd, keep)) - NoConfigurator(card, stick)
              + 5 + 3 * Cardinality(NoDirs(card))
<1> DEFINE K == DOMAIN card
           after == FilesAfter(card, stick, multi, osd, keep)
           N == NewFiles(card, stick, multi, osd, keep)
           old == OldDirs(card)
           new == NewDirs(card, stick, multi, osd, keep)
           no == NoDirs(card)
           c == NoConfigurator(card, stick)
           cd(d) == IF d = "sysconf" THEN c ELSE 0
           a(d) == InDir(after, d)
           k(d) == InDir(K, d)
           p(d) == InDir(N, d)
           F == [d \in old |-> Max({0, FolderClusters(a(d)) - FolderClusters(k(d))})]
           G == [d \in new |-> FolderClusters(a(d))]
           f == [d \in Dirs |-> IF d \in old THEN F[d] ELSE 0]
           g == [d \in Dirs |-> IF d \in new THEN G[d] ELSE 0]
           n == [d \in Dirs |-> IF d \in new THEN 1 ELSE 0]
           o == [d \in Dirs |-> IF d \in no THEN 1 ELSE 0]
<1>1. /\ IsFiniteSet(K) /\ IsFiniteSet(after) /\ IsFiniteSet(N) /\ IsFiniteSet(Dirs)
  BY WrittenFinite, SpaceFinite
<1>2. /\ old \in SUBSET Dirs /\ new \in SUBSET Dirs /\ no \in SUBSET Dirs
      /\ \A d \in Dirs : /\ d \in old \/ d \in no
                         /\ d \in no => d \notin old /\ ~Holds(K, d)
                         /\ d \in new => d \in no
  BY DEF OldDirs, NewDirs, NoDirs
<1>3. \A d : a(d) \in Nat /\ k(d) \in Nat /\ p(d) \in Nat /\ (~Holds(K, d) => k(d) = 0)
  BY <1>1, InFourDirs
<1>4. \A d : a(d) <= k(d) + p(d) - cd(d)
  BY FolderAfter
<1>5. c \in {0, 1} /\ (c = 1 => Holds(K, "sysconf"))
  <2>1. Configurator.dir = "sysconf"
    BY Places
  <2> QED
    BY <2>1 DEF NoConfigurator, Holds
<1>6. p("exec") + p("sysconf") + p("boot") + p("apps") <= Cardinality(N) /\ Cardinality(N) \in Nat
  BY <1>1, InFourDirs, FS_CardinalityType
<1> HIDE DEF old, new, no, a, k, p, c
<1>7. \A d : /\ FolderClusters(a(d)) \in Nat /\ FolderClusters(k(d)) \in Nat
             /\ 2 * FolderClusters(a(d)) <= a(d) + 3 /\ k(d) + 2 <= 2 * FolderClusters(k(d))
  BY <1>3, FolderSize
<1>8. F \in [old -> Int] /\ G \in [new -> Int]
  <2>1. \A d : Max({0, FolderClusters(a(d)) - FolderClusters(k(d))}) \in Int
    BY <1>7, AtLeastNothing
  <2> QED
    BY <1>7, <2>1
<1>9. \A d \in Dirs : /\ f[d] \in Int /\ g[d] \in Int /\ n[d] \in Int /\ o[d] \in Int
                      /\ 2 * (f[d] + g[d]) + n[d] <= p(d) - cd(d) + 1 + 3 * o[d]
  <2> SUFFICES ASSUME NEW d \in Dirs
               PROVE  /\ f[d] \in Int /\ g[d] \in Int /\ n[d] \in Int /\ o[d] \in Int
                      /\ 2 * (f[d] + g[d]) + n[d] <= p(d) - cd(d) + 1 + 3 * o[d]
    OBVIOUS
  <2> DEFINE x == FolderClusters(a(d))
             y == FolderClusters(k(d))
             q == cd(d)
  <2>1. /\ x \in Nat /\ y \in Nat /\ 2 * x <= a(d) + 3 /\ k(d) + 2 <= 2 * y
        /\ a(d) \in Nat /\ k(d) \in Nat /\ p(d) \in Nat /\ a(d) <= k(d) + p(d) - q /\ q \in {0, 1}
    BY <1>3, <1>4, <1>5, <1>7
  <2>2. d \in no => q = 0 /\ k(d) = 0
    BY <1>2, <1>3, <1>5
  <2>3. CASE d \in old
    <3>1. f[d] = Max({0, x - y}) /\ g[d] = 0 /\ n[d] = 0 /\ o[d] = 0
      BY <1>2, <2>3
    <3>2. Max({0, x - y}) = IF x - y >= 0 THEN x - y ELSE 0
      BY <2>1, AtLeastNothing
    <3> HIDE DEF f, g, n, o, x, y, q
    <3>3. 2 * f[d] <= p(d) - q + 1 /\ f[d] \in Int
      BY <2>1, <3>1, <3>2
    <3> QED
      BY <2>1, <3>1, <3>3 DEF q
  <2>4. CASE d \in new
    <3>1. f[d] = 0 /\ g[d] = x /\ n[d] = 1 /\ o[d] = 1 /\ q = 0 /\ k(d) = 0
      BY <1>2, <2>2, <2>4
    <3> HIDE DEF f, g, n, o, x, y, q
    <3> QED
      BY <2>1, <3>1 DEF q
  <2>5. CASE d \notin old /\ d \notin new
    <3>1. f[d] = 0 /\ g[d] = 0 /\ n[d] = 0 /\ o[d] = 1 /\ q = 0
      BY <1>2, <2>2, <2>5
    <3> HIDE DEF f, g, n, o, x, y, q
    <3> QED
      BY <2>1, <3>1 DEF q
  <2> QED
    BY <2>3, <2>4, <2>5
<1>10. Sum(F) = TotalOver(f, Dirs) /\ Sum(G) = TotalOver(g, Dirs)
  <2>1. Sum(F) = Total(F) /\ Sum(G) = Total(G)
    BY DEF Sum, Total
  <2> HIDE DEF F, G
  <2> QED
    BY <1>1, <1>2, <1>8, <2>1, TotalRestricted
<1>11. Cardinality(new) = TotalOver(n, Dirs) /\ Cardinality(no) = TotalOver(o, Dirs)
  BY <1>1, <1>2, TotalCount
<1>12. Grown(card, stick, multi, osd, keep) = Sum(F) /\ Created(card, stick, multi, osd, keep) = Sum(G)
  BY DEF Grown, Created, old, new, a, k
<1>13. f \in [Dirs -> Int] /\ g \in [Dirs -> Int] /\ n \in [Dirs -> Int] /\ o \in [Dirs -> Int]
  <2>1. \A d \in Dirs : f[d] \in Int /\ g[d] \in Int /\ n[d] \in Int /\ o[d] \in Int
    BY <1>9
  <2> HIDE DEF F, G
  <2> QED
    BY <2>1
<1> HIDE DEF f, g, n, o, F, G
<1>14. /\ TotalOver(f, Dirs) = f["exec"] + f["sysconf"] + f["boot"] + f["apps"]
       /\ TotalOver(g, Dirs) = g["exec"] + g["sysconf"] + g["boot"] + g["apps"]
       /\ TotalOver(n, Dirs) = n["exec"] + n["sysconf"] + n["boot"] + n["apps"]
       /\ TotalOver(o, Dirs) = o["exec"] + o["sysconf"] + o["boot"] + o["apps"]
  BY <1>13, FourDirs
<1>15. \A d \in {"exec", "sysconf", "boot", "apps"} :
          /\ f[d] \in Int /\ g[d] \in Int /\ n[d] \in Int /\ o[d] \in Int /\ p(d) \in Int
          /\ 2 * (f[d] + g[d]) + n[d] <= p(d) - cd(d) + 1 + 3 * o[d]
  BY <1>3, <1>9 DEF Dirs
<1>16. cd("exec") = 0 /\ cd("sysconf") = c /\ cd("boot") = 0 /\ cd("apps") = 0
  OBVIOUS
<1> HIDE DEF cd
<1> DEFINE Sf == TotalOver(f, Dirs)
           Sg == TotalOver(g, Dirs)
           Sn == TotalOver(n, Dirs)
           So == TotalOver(o, Dirs)
<1>17. /\ Sf \in Int /\ Sg \in Int /\ Sn \in Int /\ So \in Int
       /\ 2 * (Sf + Sg) + Sn <= Cardinality(N) - c + 4 + 3 * So
  BY <1>5, <1>6, <1>14, <1>15, <1>16
<1> HIDE DEF Sf, Sg, Sn, So
<1>18. Sn = Cardinality(new) /\ So = Cardinality(no) /\ Sn \in Nat
  <2>1. IsFiniteSet(new)
    BY <1>1, <1>2, FS_Subset
  <2> QED
    BY <1>11, <2>1, FS_CardinalityType DEF Sn, So
<1> DEFINE R == FolderClusters(root + Sn)
           r == FolderClusters(root)
<1>19. R \in Int /\ r \in Int /\ 2 * R <= root + Sn + 3 /\ root + 2 <= 2 * r
  BY <1>18, FolderSize
<1> HIDE DEF R, r
<1>20. 2 * (Sf + Sg + R - r) <= Cardinality(N) - c + 5 + 3 * So
  BY <1>5, <1>6, <1>17, <1>18, <1>19
<1> QED
  BY <1>10, <1>12, <1>18, <1>20 DEF Sf, Sg, R, r, new, no, c

(* Needed's count of entries is short by what it counts as freed and is    *)
(* not.                                                                    *)
CountedFiles(card, stick, multi) ==
  Cardinality(NewIcons(card)) + Cardinality(Added(card, stick)) - Cardinality(Subtracted(card, stick))
  - Cardinality(Dummies \cap DOMAIN card) + 1
  - (IF UninstallFile \in DOMAIN card THEN 1 ELSE 0) + (IF multi THEN Cardinality(DummyNames) + 1 ELSE 0)
Reused(card, multi, osd) == IF multi THEN {} ELSE (Dummies \cap DOMAIN card) \ {osd}

LEMMA EntryBound ==
  ASSUME NEW card, NEW stick, NEW multi, NEW osd, NEW keep, NEW last, Found(card, stick, multi, osd, last)
  PROVE  Cardinality(NewFiles(card, stick, multi, osd, keep)) - NoConfigurator(card, stick)
           <= CountedFiles(card, stick, multi) + Cardinality(Reused(card, multi, osd))
              + (IF UninstallFile \in DOMAIN card THEN 2 ELSE 0)
<1> DEFINE K == DOMAIN card
           A == Added(card, stick)
           B == Subtracted(card, stick)
           X == Extra(multi)
           I == NewIcons(card)
           N == NewFiles(card, stick, multi, osd, keep)
           D == Dummies \cap K
           M == Dummies \ K
           AK == A \cap K
           An == A \ K
           Xn == X \ K
           On == {osd} \ K
           UK == {UninstallFile} \cap K
           CK == {Configurator} \cap (K \ DOMAIN stick)
           E == Reused(card, multi, osd)
<1>1. IsFiniteSet(K) /\ IsFiniteSet(A) /\ IsFiniteSet(X) /\ IsFiniteSet(I) /\ IsFiniteSet(N) /\ IsFiniteSet(Dummies)
  BY WrittenFinite, SpaceFinite
<1>2. N \in SUBSET (((On \cup An) \cup Xn) \cup I)
  BY WrittenParts DEF NewFiles
<1>3. B \in SUBSET ((AK \cup UK) \cup CK)
  BY DEF Subtracted, Added
<1>4. /\ An \in SUBSET A /\ AK \in SUBSET A /\ Xn \in SUBSET X /\ On \in SUBSET {osd} /\ D \in SUBSET Dummies /\ M \in SUBSET Dummies
      /\ A = AK \cup An /\ AK \cap An = {} /\ Dummies = D \cup M /\ D \cap M = {}
  OBVIOUS
<1>5. Xn = IF multi THEN M \cup ({UninstallFile} \ K) ELSE {}
  BY DEF Extra
<1>6. E = IF multi THEN {} ELSE D \ {osd}
  BY DEF Reused
<1>7. /\ UK = (IF UninstallFile \in K THEN {UninstallFile} ELSE {})
      /\ CK = (IF Configurator \in K \ DOMAIN stick THEN {Configurator} ELSE {})
      /\ On = (IF osd \in K THEN {} ELSE {osd})
      /\ osd \notin K => osd \notin D
  OBVIOUS
<1> DEFINE u == IF UninstallFile \in K THEN 1 ELSE 0
           c == NoConfigurator(card, stick)
           x == IF osd \in K THEN 0 ELSE 1
<1>8. /\ IsFiniteSet(UK) /\ Cardinality(UK) = u
      /\ IsFiniteSet(CK) /\ Cardinality(CK) = c
      /\ IsFiniteSet(On) /\ Cardinality(On) = x
  <2> HIDE DEF UK, CK, On
  <2> QED
    BY <1>7, FS_Singleton, FS_EmptySet DEF NoConfigurator
<1>9. u \in {0, 1} /\ c \in {0, 1} /\ x \in {0, 1}
  BY DEF NoConfigurator
<1> HIDE DEF A, B, X, I, N, D, M, AK, An, Xn, On, UK, CK, E
<1>10. /\ IsFiniteSet(An) /\ IsFiniteSet(AK) /\ IsFiniteSet(Xn) /\ IsFiniteSet(D) /\ IsFiniteSet(M)
       /\ Cardinality({}) = 0 /\ \A y : IsFiniteSet({y}) /\ Cardinality({y}) = 1
  BY <1>1, <1>4, FS_Subset, FS_EmptySet, FS_Singleton
<1>11. \A S, T : IsFiniteSet(S) /\ IsFiniteSet(T) =>
         /\ IsFiniteSet(S \cup T) /\ Cardinality(S) \in Nat /\ Cardinality(T) \in Nat /\ Cardinality(S \cup T) \in Nat
         /\ Cardinality(S \cup T) <= Cardinality(S) + Cardinality(T)
         /\ S \cap T = {} => Cardinality(S \cup T) = Cardinality(S) + Cardinality(T)
  <2> TAKE S, T
  <2> HAVE IsFiniteSet(S) /\ IsFiniteSet(T)
  <2>1. IsFiniteSet(S \cup T) /\ Cardinality(S \cup T) = Cardinality(S) + Cardinality(T) - Cardinality(S \cap T)
    BY FS_Union
  <2>2. IsFiniteSet(S \cap T)
    BY FS_Subset
  <2>3. Cardinality(S) \in Nat /\ Cardinality(T) \in Nat /\ Cardinality(S \cap T) \in Nat /\ Cardinality(S \cup T) \in Nat
    BY <2>1, <2>2, FS_CardinalityType
  <2>4. S \cap T = {} => Cardinality(S \cap T) = 0
    BY FS_EmptySet
  <2> QED
    BY <2>1, <2>3, <2>4
<1>12. Cardinality(N) <= x + Cardinality(An) + Cardinality(Xn) + Cardinality(I)
       /\ Cardinality(N) \in Nat /\ Cardinality(An) \in Nat /\ Cardinality(Xn) \in Nat /\ Cardinality(I) \in Nat
  <2> DEFINE V == On \cup An
             W == V \cup Xn
             Z == W \cup I
  <2>1. IsFiniteSet(V) /\ Cardinality(V) \in Nat /\ Cardinality(V) <= x + Cardinality(An) /\ Cardinality(An) \in Nat
    BY <1>8, <1>10, <1>11
  <2> HIDE DEF V
  <2>2. IsFiniteSet(W) /\ Cardinality(W) \in Nat /\ Cardinality(W) <= Cardinality(V) + Cardinality(Xn) /\ Cardinality(Xn) \in Nat
    BY <1>10, <1>11, <2>1
  <2> HIDE DEF W
  <2>3. IsFiniteSet(Z) /\ Cardinality(Z) \in Nat /\ Cardinality(Z) <= Cardinality(W) + Cardinality(I) /\ Cardinality(I) \in Nat
    BY <1>1, <1>11, <2>2
  <2>4. Cardinality(N) <= Cardinality(Z) /\ Cardinality(N) \in Nat
    <3>1. N \in SUBSET Z
      BY <1>2 DEF W, V
    <3> HIDE DEF Z
    <3> QED
      BY <1>1, <2>3, <3>1, FS_Subset, FS_CardinalityType
  <2> HIDE DEF Z
  <2> QED
    BY <1>9, <2>1, <2>2, <2>3, <2>4
<1>13. Cardinality(B) <= Cardinality(AK) + u + c /\ Cardinality(B) \in Nat /\ Cardinality(AK) \in Nat
  <2> DEFINE V == AK \cup UK
             W == V \cup CK
  <2>1. IsFiniteSet(V) /\ Cardinality(V) \in Nat /\ Cardinality(V) <= Cardinality(AK) + u /\ Cardinality(AK) \in Nat
    BY <1>8, <1>10, <1>11
  <2> HIDE DEF V
  <2>2. IsFiniteSet(W) /\ Cardinality(W) \in Nat /\ Cardinality(W) <= Cardinality(V) + c
    BY <1>8, <1>11, <2>1
  <2>3. Cardinality(B) <= Cardinality(W) /\ Cardinality(B) \in Nat
    <3>1. B \in SUBSET W
      BY <1>3 DEF V
    <3> HIDE DEF W
    <3> QED
      BY <2>2, <3>1, FS_Subset, FS_CardinalityType
  <2> HIDE DEF W
  <2> QED
    BY <1>9, <2>1, <2>2, <2>3
<1>14. Cardinality(A) = Cardinality(AK) + Cardinality(An)
  BY <1>4, <1>10, <1>11
<1>15. Cardinality(Dummies) = Cardinality(D) + Cardinality(M) /\ Cardinality(D) \in Nat /\ Cardinality(M) \in Nat
  BY <1>4, <1>10, <1>11
<1> DEFINE m == IF multi THEN Cardinality(DummyNames) + 1 ELSE 0
<1>16. x + Cardinality(Xn) <= 1 - Cardinality(D) + m + Cardinality(E)
       /\ Cardinality(E) \in Nat /\ m \in Nat
  <2>1. CASE multi
    <3> DEFINE Q == {UninstallFile} \ K
    <3>1. Q = IF UninstallFile \in K THEN {} ELSE {UninstallFile}
      OBVIOUS
    <3> HIDE DEF Q
    <3>2. IsFiniteSet(Q) /\ Cardinality(Q) = 1 - u
      <4>1. CASE UninstallFile \in K
        <5>1. Q = {} /\ u = 1
          BY <3>1, <4>1
        <5> QED
          BY <5>1, FS_EmptySet
      <4>2. CASE UninstallFile \notin K
        <5>1. Q = {UninstallFile} /\ u = 0
          BY <3>1, <4>2
        <5> QED
          BY <5>1, FS_Singleton
      <4> QED
        BY <4>1, <4>2
    <3>3. Cardinality(Xn) <= Cardinality(M) + (1 - u) /\ Cardinality(Xn) \in Nat
      BY <1>5, <1>10, <1>11, <2>1, <3>2 DEF Q
    <3>4. E = {} /\ m = Cardinality(DummyNames) + 1 /\ Cardinality(DummyNames) = Cardinality(Dummies)
      BY <1>6, <2>1, DummyCount
    <3> HIDE DEF m, x, u
    <3> QED
      BY <1>9, <1>10, <1>15, <3>3, <3>4
  <2>2. CASE ~multi
    <3>1. Xn = {} /\ E = D \ {osd} /\ m = 0
      BY <1>5, <1>6, <2>2
    <3>2. Cardinality(E) = (IF osd \in D THEN Cardinality(D) - 1 ELSE Cardinality(D)) /\ IsFiniteSet(E)
      BY <1>10, <3>1, FS_RemoveElement
    <3>3. Cardinality(E) \in Nat
      BY <3>2, FS_CardinalityType
    <3>4. osd \in D => x = 0
      BY <1>7
    <3>5. Cardinality(Xn) = 0 /\ m = 0 /\ x \in {0, 1} /\ Cardinality(D) \in Nat
      BY <1>9, <1>10, <1>15, <3>1
    <3> HIDE DEF m, x, u
    <3>6. CASE osd \in D
      BY <3>2, <3>3, <3>4, <3>5, <3>6
    <3>7. CASE osd \notin D
      BY <3>2, <3>3, <3>5, <3>7
    <3> QED
      BY <3>6, <3>7
  <2> QED
    BY <2>1, <2>2
<1>17. /\ CountedFiles(card, stick, multi) = Cardinality(I) + Cardinality(A) - Cardinality(B) - Cardinality(D) + 1 - u + m
       /\ (IF UninstallFile \in K THEN 2 ELSE 0) = 2 * u
  BY DEF CountedFiles, I, A, B, D
<1> HIDE DEF u, c, x, m
<1>18. Cardinality(N) - c <= Cardinality(I) + Cardinality(A) - Cardinality(B) - Cardinality(D) + 1 - u + m + Cardinality(E) + 2 * u
  BY <1>9, <1>12, <1>13, <1>14, <1>15, <1>16
<1> QED
  BY <1>17, <1>18 DEF N, E, c

OfUninstall(card, n) == IF UninstallFile \in DOMAIN card THEN n ELSE 0
OfMulti(multi, n) == IF multi THEN n ELSE 0
(* Needed's figure for the files, in clusters; all of it in half clusters. *)
CountedClusters(card, stick, multi, last) ==
  RoundedUp(IconSize) * Cardinality(NewIcons(card)) + AddedUp(card, stick) - SubtractedUp(card, stick)
  + RoundedUp(OsdSize) - RoundedUp(OldOsd(card, last)) - OfUninstall(card, Cardinality(Dummies))
  + OfMulti(multi, Cardinality(Dummies) + 1)
Counted(card, stick, multi, last) ==
  2 * CountedClusters(card, stick, multi, last) + CountedFiles(card, stick, multi) + 3 * Cardinality(NoDirs(card))

LEMMA RoundedSums ==
  ASSUME NEW card, NEW stick, NEW multi, NEW osd, NEW last, Found(card, stick, multi, osd, last)
  PROVE  /\ AddedUp(card, stick) \in Int /\ SubtractedUp(card, stick) \in Int
         /\ Sum([f \in Added(card, stick) |-> Rounded(SizeOf(stick, f))]) = Cluster * AddedUp(card, stick)
         /\ Sum([f \in Subtracted(card, stick) |-> Rounded(card[f])]) = Cluster * SubtractedUp(card, stick)
<1> DEFINE A == Added(card, stick)
           B == Subtracted(card, stick)
           Fa == [f \in A |-> RoundedUp(SizeOf(stick, f))]
           Ga == [f \in A |-> Rounded(SizeOf(stick, f))]
           Fb == [f \in B |-> RoundedUp(card[f])]
           Gb == [f \in B |-> Rounded(card[f])]
<1>1. IsFiniteSet(A) /\ IsFiniteSet(B) /\ \A f : SizeOf(stick, f) \in Nat
  BY WrittenFinite, AddedFinite, FS_Subset DEF Found, Subtracted
<1>2. \A f \in B : card[f] \in Nat
  BY DEF Subtracted, Found
<1>3. Cluster \in Int
  BY SpaceAssumption
<1>4. \A n \in Nat : RoundedUp(n) \in Nat /\ Rounded(n) = Cluster * RoundedUp(n) /\ Cluster * RoundedUp(n) \in Int
  BY <1>3, RoundedSize
<1> HIDE DEF A, B
<1>5. /\ Fa \in [A -> Int] /\ Ga \in [A -> Int] /\ \A f \in A : Ga[f] = Cluster * Fa[f]
      /\ Fb \in [B -> Int] /\ Gb \in [B -> Int] /\ \A f \in B : Gb[f] = Cluster * Fb[f]
  <2>1. \A f \in A : RoundedUp(SizeOf(stick, f)) \in Int /\ Rounded(SizeOf(stick, f)) \in Int
                     /\ Rounded(SizeOf(stick, f)) = Cluster * RoundedUp(SizeOf(stick, f))
    BY <1>1, <1>4
  <2>2. \A f \in B : RoundedUp(card[f]) \in Int /\ Rounded(card[f]) \in Int
                     /\ Rounded(card[f]) = Cluster * RoundedUp(card[f])
    BY <1>2, <1>4
  <2> QED
    BY <2>1, <2>2
<1>6. Sum(Fa) = TotalOver(Fa, A) /\ Sum(Ga) = TotalOver(Ga, A) /\ Sum(Fb) = TotalOver(Fb, B) /\ Sum(Gb) = TotalOver(Gb, B)
  <2>1. Fa = [f \in A |-> Fa[f]] /\ Ga = [f \in A |-> Ga[f]] /\ Fb = [f \in B |-> Fb[f]] /\ Gb = [f \in B |-> Gb[f]]
    OBVIOUS
  <2> HIDE DEF Fa, Ga, Fb, Gb
  <2> QED
    BY <2>1, SumOfFunction
<1>7. AddedUp(card, stick) = Sum(Fa) /\ SubtractedUp(card, stick) = Sum(Fb)
  BY DEF AddedUp, SubtractedUp, A, B
<1>8. /\ Sum(Ga) = Cluster * Sum(Fa) /\ Sum(Gb) = Cluster * Sum(Fb)
      /\ Sum(Fa) \in Int /\ Sum(Fb) \in Int
  <2>1. A \in SUBSET A /\ B \in SUBSET B
    OBVIOUS
  <2> HIDE DEF Fa, Ga, Fb, Gb
  <2>2. TotalOver(Ga, A) = Cluster * TotalOver(Fa, A) /\ TotalOver(Fa, A) \in Int
    BY <1>1, <1>3, <1>5, <2>1, TotalScaled, TotalType
  <2>3. TotalOver(Gb, B) = Cluster * TotalOver(Fb, B) /\ TotalOver(Fb, B) \in Int
    BY <1>1, <1>3, <1>5, <2>1, TotalScaled, TotalType
  <2> QED
    BY <1>6, <2>2, <2>3
<1> QED
  BY <1>7, <1>8 DEF A, B

LEMMA CountsType ==
  ASSUME NEW card, NEW stick, NEW multi, NEW osd, NEW last, Found(card, stick, multi, osd, last)
  PROVE  /\ Cardinality(NewIcons(card)) \in Nat /\ Cardinality(NoDirs(card)) \in Nat
         /\ Cardinality(Dummies) \in Nat /\ Cardinality(DummyNames) = Cardinality(Dummies)
         /\ Cardinality(Extra(multi)) = OfMulti(multi, Cardinality(Dummies) + 1)
         /\ CountedFiles(card, stick, multi) \in Int
         /\ CountedClusters(card, stick, multi, last) \in Int
<1>1. Cardinality(NewIcons(card)) \in Nat /\ Cardinality(Added(card, stick)) \in Nat
  BY WrittenFinite, FS_CardinalityType
<1>2. Cardinality(NoDirs(card)) \in Nat
  BY SpaceFinite, FS_Subset, FS_CardinalityType DEF NoDirs
<1>3. Cardinality(Dummies) \in Nat /\ Cardinality(DummyNames) = Cardinality(Dummies) /\ IsFiniteSet(Dummies)
  BY DummyCount
<1>4. Cardinality(Dummies \cap DOMAIN card) \in Nat
  BY <1>3, FS_Subset, FS_CardinalityType
<1>5. Cardinality(Subtracted(card, stick)) \in Nat
  <2>1. IsFiniteSet(DOMAIN card)
    BY DEF Found
  <2> QED
    BY <2>1, FS_Subset, FS_CardinalityType DEF Subtracted
<1>6. Cardinality(Extra(multi)) = OfMulti(multi, Cardinality(Dummies) + 1)
  <2>1. UninstallFile \notin Dummies
    BY Places
  <2> QED
    BY <1>3, <2>1, FS_AddElement, FS_EmptySet DEF Extra, OfMulti
<1>7. CountedFiles(card, stick, multi) \in Int
  BY <1>1, <1>3, <1>4, <1>5 DEF CountedFiles
<1>8. RoundedUp(IconSize) \in Nat /\ RoundedUp(OsdSize) \in Nat /\ RoundedUp(OldOsd(card, last)) \in Nat
  BY SpaceAssumption, RoundedSize, OldOsdSize
<1>9. RoundedUp(IconSize) * Cardinality(NewIcons(card)) \in Int
  BY <1>1, <1>8
<1>10. OfUninstall(card, Cardinality(Dummies)) \in Int /\ OfMulti(multi, Cardinality(Dummies) + 1) \in Int
  BY <1>3 DEF OfUninstall, OfMulti
<1>11. AddedUp(card, stick) \in Int /\ SubtractedUp(card, stick) \in Int
  BY RoundedSums
<1>12. CountedClusters(card, stick, multi, last) \in Int
  BY <1>8, <1>9, <1>10, <1>11 DEF CountedClusters
<1> QED
  BY <1>1, <1>2, <1>3, <1>6, <1>7, <1>12

LEMMA NeededIs ==
  ASSUME NEW card, NEW stick, NEW multi, NEW osd, NEW last, Found(card, stick, multi, osd, last)
  PROVE  Needed(card, stick, multi, last) = Truncated(Entry * Counted(card, stick, multi, last))
<1> DEFINE c == Cluster
           e == Entry
           i == Cardinality(NewIcons(card))
           d == Cardinality(Dummies)
           ri == RoundedUp(IconSize)
           ro == RoundedUp(OsdSize)
           rl == RoundedUp(OldOsd(card, last))
           a == AddedUp(card, stick)
           b == SubtractedUp(card, stick)
           files == CountedFiles(card, stick, multi)
           folders == Cardinality(NoDirs(card))
           ud == OfUninstall(card, d)
           md == OfMulti(multi, d + 1)
<1>1. /\ i \in Nat /\ d \in Nat /\ folders \in Nat /\ files \in Int /\ Cardinality(DummyNames) = d
  BY CountsType
<1>2. /\ ri \in Int /\ ro \in Int /\ rl \in Int
      /\ Rounded(IconSize) = c * ri /\ Rounded(OsdSize) = c * ro /\ Rounded(OldOsd(card, last)) = c * rl
  BY SpaceAssumption, RoundedSize, OldOsdSize
<1>3. /\ a \in Int /\ b \in Int
      /\ Sum([f \in Added(card, stick) |-> Rounded(SizeOf(stick, f))]) = c * a
      /\ Sum([f \in Subtracted(card, stick) |-> Rounded(card[f])]) = c * b
  BY RoundedSums
<1>4. e \in Nat /\ c = 2 * e
  BY EntryIsHalf
<1> DEFINE ub == IF UninstallFile \in DOMAIN card THEN Cardinality(DummyNames) * Cluster ELSE 0
           mb == IF multi THEN (Cardinality(DummyNames) + 1) * Cluster ELSE 0
           bytes == i * Rounded(IconSize) + Sum([f \in Added(card, stick) |-> Rounded(SizeOf(stick, f))])
                    - Sum([f \in Subtracted(card, stick) |-> Rounded(card[f])])
                    + Rounded(OsdSize) - Rounded(OldOsd(card, last)) - ub + mb
<1>5. Needed(card, stick, multi, last) = Truncated(bytes + files * Entry + folders * 3 * Entry)
  BY Zenon DEF Needed, NewIcons, OldOsd, CountedFiles, NoDirs
<1>6. ud \in Int /\ md \in Int /\ ub = c * ud /\ mb = c * md
  <2>1. d * c = c * d /\ (d + 1) * c = c * (d + 1) /\ c * 0 = 0
    BY <1>1, <1>4
  <2> HIDE DEF d, c
  <2> QED
    BY <1>1, <2>1 DEF OfUninstall, OfMulti, c
<1>7. bytes = i * (c * ri) + c * a - c * b + c * ro - c * rl - c * ud + c * md
  BY <1>2, <1>3, <1>6
<1> HIDE DEF c, e, i, d, ri, ro, rl, a, b, files, folders, ud, md, ub, mb, bytes
<1> DEFINE z == 2 * (ri * i + a - b + ro - rl - ud + md) + files + 3 * folders
<1>8. bytes + files * e + folders * 3 * e = e * z
  <2>1. i * (c * ri) = e * (2 * (ri * i))
    BY <1>1, <1>2, <1>4
  <2>2. /\ c * a = e * (2 * a) /\ c * b = e * (2 * b) /\ c * ro = e * (2 * ro) /\ c * rl = e * (2 * rl)
        /\ c * ud = e * (2 * ud) /\ c * md = e * (2 * md)
        /\ files * e = e * files /\ folders * 3 * e = e * (3 * folders)
    BY <1>1, <1>2, <1>3, <1>4, <1>6
  <2> DEFINE p == ri * i
  <2>3. p \in Int
    BY <1>1, <1>2
  <2> HIDE DEF p
  <2>4. \A x, y \in Int : e * (x + y) = e * x + e * y /\ e * (x - y) = e * x - e * y /\ e * x \in Int
    BY <1>4
  <2>5. e * z = e * (2 * p) + e * (2 * a) - e * (2 * b) + e * (2 * ro) - e * (2 * rl) - e * (2 * ud) + e * (2 * md)
                + e * files + e * (3 * folders)
    <3>1. z = 2 * p + 2 * a - 2 * b + 2 * ro - 2 * rl - 2 * ud + 2 * md + files + 3 * folders
      BY <1>1, <1>2, <1>3, <1>6, <2>3 DEF p
    <3> HIDE DEF z
    <3> QED
      BY <1>1, <1>2, <1>3, <1>4, <1>6, <2>3, <3>1
  <2> QED
    BY <1>7, <2>1, <2>2, <2>5 DEF p
<1>9. z = Counted(card, stick, multi, last)
  BY DEF Counted, CountedClusters, i, d, ri, ro, rl, a, b, files, folders, ud, md
<1> QED
  BY <1>5, <1>8, <1>9 DEF e, files, folders

LEMMA OverlookedIs ==
  ASSUME NEW card, NEW stick, NEW multi, NEW osd, NEW keep, NEW last, Found(card, stick, multi, osd, last)
  PROVE  /\ Overlooked(card, stick, multi, osd, keep, last) \in Nat
         /\ 2 * Overlooked(card, stick, multi, osd, keep, last)
              >= 6 + 2 * Cardinality(Full(card, stick, last)) + 2 * Cardinality(Missing(card))
                 + 2 * KeptClusters(card, multi, osd, last) + 2 * LargerCnf(card, stick, keep)
                 + Cardinality(Reused(card, multi, osd)) + (IF UninstallFile \in DOMAIN card THEN 2 ELSE 0)
         /\ Cardinality(Full(card, stick, last)) \in Nat /\ Cardinality(Missing(card)) \in Nat
         /\ KeptClusters(card, multi, osd, last) \in Nat /\ LargerCnf(card, stick, keep) \in Nat
         /\ Cardinality(Reused(card, multi, osd)) \in Nat
<1> DEFINE K == DOMAIN card
           full == Full(card, stick, last)
           kept == Kept(card, multi, osd, last)
           F == [f \in kept |-> CeilDiv(card[f], Cluster)]
<1>1. IsFiniteSet(K) /\ \A f \in K : card[f] \in Nat
  BY DEF Found
<1>2. full \in SUBSET K /\ kept \in SUBSET K
  BY OldOsdSize DEF Full, Kept, Subtracted
<1> HIDE DEF K, full, kept
<1>3. Cardinality(full) \in Nat /\ IsFiniteSet(kept)
  BY <1>1, <1>2, FS_Subset, FS_CardinalityType
<1>4. Cardinality(Missing(card)) \in Nat /\ Cardinality(Reused(card, multi, osd)) \in Nat
  <2>1. Missing(card) \in SUBSET Dummies /\ Reused(card, multi, osd) \in SUBSET Dummies
    BY DEF Missing, Reused
  <2> QED
    BY <2>1, SpaceFinite, FS_Subset, FS_CardinalityType
<1>5. KeptClusters(card, multi, osd, last) \in Nat
  <2>1. \A f \in kept : CeilDiv(card[f], Cluster) \in Nat
    BY <1>1, <1>2, RoundedSize
  <2>2. F \in [kept -> Int] /\ F = [f \in kept |-> F[f]] /\ \A f \in kept : F[f] >= 0
    BY <2>1
  <2>3. KeptClusters(card, multi, osd, last) = Sum(F)
    BY DEF KeptClusters, kept
  <2>4. kept \in SUBSET kept
    OBVIOUS
  <2> HIDE DEF F
  <2>5. Sum(F) = TotalOver(F, kept) /\ TotalOver(F, kept) \in Int /\ 0 <= TotalOver(F, kept)
    BY <1>3, <2>2, <2>4, SumOfFunction, TotalType, TotalPart
  <2> QED
    BY <2>3, <2>5
<1>10. LargerCnf(card, stick, keep) \in Nat
  <2>1. CASE keep /\ Cnf \in DOMAIN card
    <3> DEFINE n == CeilDiv(card[Cnf], Cluster) - CeilDiv(SizeOf(stick, Cnf), Cluster)
    <3>1. card[Cnf] \in Nat /\ SizeOf(stick, Cnf) \in Nat
      BY <2>1, AddedFinite DEF Found
    <3>2. n \in Int
      BY <3>1, RoundedSize
    <3>3. LargerCnf(card, stick, keep) = Max({0, n})
      BY <2>1 DEF LargerCnf
    <3> HIDE DEF n
    <3> QED
      BY <3>2, <3>3, AtLeastNothing
  <2>2. CASE ~(keep /\ Cnf \in DOMAIN card)
    BY <2>2 DEF LargerCnf
  <2> QED
    BY <2>1, <2>2
<1> DEFINE x == KeptClusters(card, multi, osd, last)
           l == LargerCnf(card, stick, keep)
           y == Cardinality(Reused(card, multi, osd))
           u == IF UninstallFile \in DOMAIN card THEN 2 ELSE 0
           h == (5 + y + u) \div 2
<1>6. Overlooked(card, stick, multi, osd, keep, last) = 1 + Cardinality(full) + Cardinality(Missing(card)) + x + l + h
  BY Zenon DEF Overlooked, Full, Missing, KeptClusters, Reused, full
<1>7. y \in Nat /\ u \in Nat /\ x \in Nat /\ l \in Nat
  BY <1>4, <1>5, <1>10
<1> HIDE DEF x, y, u, l
<1>8. h \in Nat /\ 2 * h >= 4 + y + u
  BY <1>7
<1> HIDE DEF h
<1>9. /\ 1 + Cardinality(full) + Cardinality(Missing(card)) + x + l + h \in Nat
      /\ 2 * (1 + Cardinality(full) + Cardinality(Missing(card)) + x + l + h)
           >= 6 + 2 * Cardinality(full) + 2 * Cardinality(Missing(card)) + 2 * x + 2 * l + y + u
  BY <1>3, <1>4, <1>7, <1>8
<1> QED
  BY <1>3, <1>4, <1>5, <1>6, <1>9, <1>10 DEF full, x, y, u, l

LEMMA SumsAreInt ==
  ASSUME NEW card, NEW stick, NEW multi, NEW osd, NEW keep, NEW last, Found(card, stick, multi, osd, last)
  PROVE  /\ Sum([f \in Written(card, stick, multi, osd, keep) |-> CeilDiv(WrittenSize(stick, osd, f), Cluster)]) \in Int
         /\ Freed(card, stick, multi, osd, keep) \in Int
         /\ Grown(card, stick, multi, osd, keep) \in Int
         /\ Created(card, stick, multi, osd, keep) \in Int
<1> DEFINE W == Written(card, stick, multi, osd, keep)
           G == Gone(card, stick, multi, osd, keep)
           sizes == [f \in W |-> CeilDiv(WrittenSize(stick, osd, f), Cluster)]
           freed == [f \in G |-> Occupies(card, f)]
<1>1. IsFiniteSet(W) /\ IsFiniteSet(G) /\ G \subseteq DOMAIN card
  <2>1. G \in SUBSET DOMAIN card
    BY SubtractedGone
  <2> QED
    BY <2>1, WrittenFinite, FS_Subset
<1>2. Sum(sizes) \in Int
  <2>1. \A f : WrittenSize(stick, osd, f) \in Int
    <3>1. OsdSize \in Int /\ IconSize \in Int
      BY SpaceAssumption
    <3>2. \A f : SizeOf(stick, f) \in Nat
      BY AddedFinite DEF Found
    <3> QED
      BY <3>1, <3>2 DEF WrittenSize
  <2>2. sizes \in [W -> Int]
    BY <2>1, CeilIsInt
  <2> HIDE DEF sizes, W
  <2> QED
    BY <1>1, <2>2, SumIsInt
<1>3. Sum(freed) \in Int
  <2>1. \A f \in DOMAIN card : card[f] \in Int
    BY DEF Found
  <2>2. \A f \in DOMAIN card : Occupies(card, f) \in Int
    BY <2>1, CeilIsInt DEF Occupies
  <2>3. freed \in [G -> Int]
    BY <1>1, <2>2
  <2> HIDE DEF freed, G
  <2> QED
    BY <1>1, <2>3, SumIsInt
<1> DEFINE old == OldDirs(card)
           new == NewDirs(card, stick, multi, osd, keep)
           a(d) == FolderClusters(InDir(FilesAfter(card, stick, multi, osd, keep), d))
           k(d) == FolderClusters(InDir(DOMAIN card, d))
           grown == [d \in old |-> Max({0, a(d) - k(d)})]
           created == [d \in new |-> a(d)]
<1>4. IsFiniteSet(old) /\ IsFiniteSet(new)
  BY SpaceFinite, FS_Subset DEF OldDirs, NewDirs
<1>5. \A d : a(d) \in Int /\ k(d) \in Int /\ Max({0, a(d) - k(d)}) \in Int
  <2>1. \A d : InDir(FilesAfter(card, stick, multi, osd, keep), d) \in Nat /\ InDir(DOMAIN card, d) \in Nat
    BY WrittenFinite, InFourDirs
  <2>2. \A d : a(d) \in Int /\ k(d) \in Int
    BY <2>1, FolderIsInt
  <2> HIDE DEF a, k
  <2> QED
    BY <2>2, AtLeastNothing
<1> HIDE DEF a, k
<1>6. Sum(grown) \in Int
  <2>1. grown \in [old -> Int]
    BY <1>5
  <2> HIDE DEF grown, old
  <2> QED
    BY <1>4, <2>1, SumIsInt
<1>7. Sum(created) \in Int
  <2>1. created \in [new -> Int]
    BY <1>5
  <2> HIDE DEF created, new
  <2> QED
    BY <1>4, <2>1, SumIsInt
<1> QED
  BY <1>2, <1>3, <1>6, <1>7 DEF Freed, Grown, Created, a, k

(* Folders that grow, that are created, and the root.                      *)
ForFolders(card, stick, multi, osd, keep, root) ==
  Grown(card, stick, multi, osd, keep) + Created(card, stick, multi, osd, keep)
  + FolderClusters(root + Cardinality(NewDirs(card, stick, multi, osd, keep))) - FolderClusters(root)

LEMMA TakenParts ==
  ASSUME NEW card, NEW stick, NEW multi, NEW osd, NEW keep, NEW last, Found(card, stick, multi, osd, last), NEW root \in Nat
  PROVE  LET sizes == Sum([f \in Written(card, stick, multi, osd, keep) |-> CeilDiv(WrittenSize(stick, osd, f), Cluster)])
             freed == Freed(card, stick, multi, osd, keep)
             folders == ForFolders(card, stick, multi, osd, keep, root)
             taken == Taken(card, stick, multi, osd, keep, root)
         IN  /\ taken \in Int /\ sizes \in Int /\ freed \in Int /\ folders \in Int
             /\ taken = sizes - freed + folders
<1> DEFINE sizes == Sum([f \in Written(card, stick, multi, osd, keep) |-> CeilDiv(WrittenSize(stick, osd, f), Cluster)])
           freed == Freed(card, stick, multi, osd, keep)
           grown == Grown(card, stick, multi, osd, keep)
           created == Created(card, stick, multi, osd, keep)
           R == FolderClusters(root + Cardinality(NewDirs(card, stick, multi, osd, keep)))
           r == FolderClusters(root)
           folders == ForFolders(card, stick, multi, osd, keep, root)
           taken == Taken(card, stick, multi, osd, keep, root)
<1>1. taken = sizes - freed + grown + created + R - r
  BY Zenon DEF Taken, Freed, Gone, Grown, Created, OldDirs, NewDirs, FilesAfter
<1>2. sizes \in Int /\ freed \in Int /\ grown \in Int /\ created \in Int
  BY SumsAreInt
<1>3. R \in Int /\ r \in Int
  <2>1. Cardinality(NewDirs(card, stick, multi, osd, keep)) \in Nat
    BY SpaceFinite, FS_Subset, FS_CardinalityType DEF NewDirs
  <2> QED
    BY <2>1, FolderIsInt
<1>4. folders = grown + created + R - r
  BY DEF ForFolders
<1> HIDE DEF taken, sizes, freed, grown, created, R, r, folders
<1>5. /\ taken \in Int /\ sizes \in Int /\ freed \in Int /\ folders \in Int
      /\ taken = sizes - freed + folders
  BY <1>1, <1>2, <1>3, <1>4
<1> QED
  BY <1>5 DEF taken, sizes, freed, folders

(* What an installation takes beyond the free space of a card that passed  *)
(* the check is overlooked by Needed, if no CNF on the card is kept.       *)
LEMMA ShortfallOfReplaced ==
  ASSUME NEW card, NEW stick, NEW multi, NEW osd, NEW keep, NEW last, Found(card, stick, multi, osd, last),
         keep => Cnf \notin DOMAIN card,
         NEW root \in Nat, NEW free \in Nat, ~(Needed(card, stick, multi, last) >= free)
  PROVE  Max({0, Taken(card, stick, multi, osd, keep, root) - free}) <= Overlooked(card, stick, multi, osd, keep, last)
<1> DEFINE W == Written(card, stick, multi, osd, keep)
           sizes == Sum([f \in W |-> CeilDiv(WrittenSize(stick, osd, f), Cluster)])
           freed == Freed(card, stick, multi, osd, keep)
           folders == ForFolders(card, stick, multi, osd, keep, root)
           taken == Taken(card, stick, multi, osd, keep, root)
           needed == Needed(card, stick, multi, last)
           z == Counted(card, stick, multi, last)
           clusters == CountedClusters(card, stick, multi, last)
           files == CountedFiles(card, stick, multi)
           no == Cardinality(NoDirs(card))
           full == Cardinality(Full(card, stick, last))
           missing == Cardinality(Missing(card))
           kept == KeptClusters(card, multi, osd, last)
           reused == Cardinality(Reused(card, multi, osd))
           u == IF UninstallFile \in DOMAIN card THEN 2 ELSE 0
           over == Overlooked(card, stick, multi, osd, keep, last)
           new == Cardinality(NewFiles(card, stick, multi, osd, keep))
           c == NoConfigurator(card, stick)
<1>1. /\ clusters \in Int /\ files \in Int /\ no \in Nat /\ z = 2 * clusters + files + 3 * no /\ z \in Int
  BY CountsType DEF Counted
<1>2. needed \in Int /\ 2 * needed >= z - 1
  BY <1>1, NeededIs, TruncatedHalf
<1>3. /\ taken \in Int /\ sizes \in Int /\ freed \in Int /\ folders \in Int
      /\ taken = sizes - freed + folders
  BY TakenParts
<1>4. sizes - freed <= clusters + 1 + full + missing + kept
  <2> DEFINE d == Cardinality(Dummies)
             ro == RoundedUp(OsdSize)
             rl == RoundedUp(OldOsd(card, last))
             i == RoundedUp(IconSize) * Cardinality(NewIcons(card))
             a == AddedUp(card, stick)
             b == SubtractedUp(card, stick)
             ud == OfUninstall(card, d)
             md == OfMulti(multi, d + 1)
  <2>1. sizes <= ro + a + md + i
    BY WrittenBound, CountsType
  <2>2. b + rl + ud <= freed + 1 + full + missing + kept
    BY FreedBound DEF OfUninstall
  <2>3. clusters = i + a - b + ro - rl - ud + md
    BY DEF CountedClusters
  <2>4. /\ ro \in Int /\ rl \in Int /\ i \in Int /\ a \in Int /\ b \in Int /\ ud \in Int /\ md \in Int
    <3>1. RoundedUp(IconSize) \in Nat /\ ro \in Nat /\ rl \in Nat
      BY SpaceAssumption, RoundedSize, OldOsdSize
    <3>2. d \in Nat /\ Cardinality(NewIcons(card)) \in Nat
      BY CountsType
    <3>3. ud \in Int /\ md \in Int
      BY <3>2 DEF OfUninstall, OfMulti
    <3>4. i \in Int
      BY <3>1, <3>2
    <3>5. a \in Int /\ b \in Int
      BY RoundedSums
    <3> HIDE DEF i, ro, rl, a, b, ud, md
    <3> QED
      BY <3>1, <3>3, <3>4, <3>5
  <2>5. full \in Nat /\ missing \in Nat /\ kept \in Nat
    BY OverlookedIs
  <2> HIDE DEF d, ro, rl, i, a, b, ud, md, sizes, freed, clusters, full, missing, kept
  <2> QED
    BY <1>1, <1>3, <2>1, <2>2, <2>3, <2>4, <2>5
<1>5. 2 * folders <= new - c + 5 + 3 * no
  BY FolderBound DEF ForFolders
<1>6. new - c <= files + reused + u
  BY EntryBound
<1>7. new \in Nat /\ c \in Int
  BY WrittenFinite, FS_CardinalityType DEF NoConfigurator
<1>8. /\ over \in Nat /\ 2 * over >= 6 + 2 * full + 2 * missing + 2 * kept + reused + u
      /\ full \in Nat /\ missing \in Nat /\ kept \in Nat /\ reused \in Nat /\ u \in Nat
  <2>1. LargerCnf(card, stick, keep) \in Nat
    BY OverlookedIs
  <2> QED
    BY <2>1, OverlookedIs
<1>9. needed + 1 <= free
  BY <1>2
<1> HIDE DEF sizes, freed, folders, taken, needed, z, clusters, files, no, full, missing, kept, reused, u, over, new, c
<1>10. 2 * (taken - free) <= 2 * over
  BY <1>1, <1>2, <1>3, <1>4, <1>5, <1>6, <1>7, <1>8, <1>9
<1>11. taken - free \in Int /\ taken - free <= over
  BY <1>3, <1>8, <1>10
<1>12. Max({0, taken - free}) = IF taken - free >= 0 THEN taken - free ELSE 0
  BY <1>11, AtLeastNothing
<1>13. Max({0, taken - free}) <= over
  BY <1>8, <1>11, <1>12
<1> QED
  BY <1>13 DEF taken, over

LEMMA OneApart ==
  ASSUME NEW S, IsFiniteSet(S), NEW F \in [S -> Int], NEW x \in S
  PROVE  /\ TotalOver(F, S) = TotalOver(F, S \ {x}) + F[x]
         /\ TotalOver(F, S \ {x}) \in Int /\ F[x] \in Int
<1> DEFINE R == S \ {x}
           One == {x}
<1>1. R \in SUBSET S /\ One \in SUBSET S /\ R \cap One = {} /\ R \cup One = S
  OBVIOUS
<1>2. TotalOver(F, One) = F[x]
  BY TotalSingle
<1> HIDE DEF R, One
<1>3. TotalOver(F, R \cup One) = TotalOver(F, R) + TotalOver(F, One)
  BY <1>1, TotalUnion
<1>4. TotalOver(F, R) \in Int
  BY <1>1, TotalType
<1> QED
  BY <1>1, <1>2, <1>3, <1>4 DEF R

(* A CNF that is kept leaves its clusters taken, and those of the new one  *)
(* free; the folders are the same.                                         *)
LEMMA KeptCnf ==
  ASSUME NEW card, NEW stick, NEW multi, NEW osd, NEW keep, NEW last, Found(card, stick, multi, osd, last),
         NEW root \in Nat, keep, Cnf \in DOMAIN card
  PROVE  Taken(card, stick, multi, osd, keep, root)
           = Taken(card, stick, multi, osd, FALSE, root) + CeilDiv(card[Cnf], Cluster) - CeilDiv(SizeOf(stick, Cnf), Cluster)
<1> DEFINE W == Written(card, stick, multi, osd, FALSE)
           V == Written(card, stick, multi, osd, keep)
           G == Gone(card, stick, multi, osd, FALSE)
           H == Gone(card, stick, multi, osd, keep)
           ws == [f \in W |-> CeilDiv(WrittenSize(stick, osd, f), Cluster)]
           oc == [f \in G |-> Occupies(card, f)]
<1>1. /\ Cnf # osd /\ Cnf \notin Dummies /\ Cnf \notin Deleted(card, stick)
      /\ Cnf \in W /\ V = W \ {Cnf} /\ Cnf \in G /\ H = G \ {Cnf}
  <2>1. Cnf # osd /\ Cnf \notin Dummies /\ Cnf # OsdMain
    BY Places DEF Found
  <2>2. Cnf \notin Deleted(card, stick)
    BY <2>1, Places DEF Deleted
  <2>3. Cnf \in W /\ V = W \ {Cnf}
    BY DEF Written, Added
  <2> HIDE DEF W, V
  <2>4. Cnf \in G /\ H = G \ {Cnf}
    BY <2>2, <2>3 DEF Gone, W, V
  <2> QED
    BY <2>1, <2>2, <2>3, <2>4
<1>2. FilesAfter(card, stick, multi, osd, keep) = FilesAfter(card, stick, multi, osd, FALSE)
  BY <1>1 DEF FilesAfter
<1>3. ForFolders(card, stick, multi, osd, keep, root) = ForFolders(card, stick, multi, osd, FALSE, root)
  BY <1>2, Zenon DEF ForFolders, Grown, Created, NewDirs
<1>4. IsFiniteSet(W) /\ IsFiniteSet(G) /\ G \subseteq DOMAIN card
  <2>1. IsFiniteSet(W) /\ IsFiniteSet(DOMAIN card)
    BY WrittenFinite
  <2>2. G \in SUBSET DOMAIN card
    BY SubtractedGone
  <2> QED
    BY <2>1, <2>2, FS_Subset
<1> HIDE DEF W, V, G, H
<1>5. ws \in [W -> Int] /\ oc \in [G -> Int]
  <2>1. OsdSize \in Int /\ IconSize \in Int /\ \A f : SizeOf(stick, f) \in Nat
    BY SpaceAssumption, AddedFinite DEF Found
  <2>2. \A f : CeilDiv(WrittenSize(stick, osd, f), Cluster) \in Int
    BY <2>1, CeilIsInt DEF WrittenSize
  <2>3. \A f \in DOMAIN card : card[f] \in Int
    BY DEF Found
  <2>4. \A f \in G : Occupies(card, f) \in Int
    BY <1>4, <2>3, CeilIsInt DEF Occupies
  <2> QED
    BY <2>2, <2>4
<1>6. /\ ws[Cnf] = CeilDiv(SizeOf(stick, Cnf), Cluster)
      /\ oc[Cnf] = CeilDiv(card[Cnf], Cluster)
  BY <1>1 DEF WrittenSize, Occupies
<1>7. /\ Sum([f \in W |-> CeilDiv(WrittenSize(stick, osd, f), Cluster)]) = TotalOver(ws, W)
      /\ Sum([f \in V |-> CeilDiv(WrittenSize(stick, osd, f), Cluster)]) = TotalOver(ws, V)
      /\ Freed(card, stick, multi, osd, FALSE) = TotalOver(oc, G)
      /\ Freed(card, stick, multi, osd, keep) = TotalOver(oc, H)
  <2>1. V \subseteq W /\ H \subseteq G
    BY <1>1
  <2>2. /\ [f \in W |-> ws[f]] = [f \in W |-> CeilDiv(WrittenSize(stick, osd, f), Cluster)]
        /\ [f \in V |-> ws[f]] = [f \in V |-> CeilDiv(WrittenSize(stick, osd, f), Cluster)]
        /\ [f \in G |-> oc[f]] = [f \in G |-> Occupies(card, f)]
        /\ [f \in H |-> oc[f]] = [f \in H |-> Occupies(card, f)]
    BY <2>1
  <2>3. \A F : Sum(F) = Total(F)
    BY DEF Sum, Total
  <2> HIDE DEF ws, oc
  <2> QED
    BY <2>2, <2>3 DEF Freed, TotalOver, G, H
<1> HIDE DEF ws, oc
<1>8. /\ TotalOver(ws, W) = TotalOver(ws, V) + ws[Cnf] /\ TotalOver(ws, V) \in Int /\ ws[Cnf] \in Int
      /\ TotalOver(oc, G) = TotalOver(oc, H) + oc[Cnf] /\ TotalOver(oc, H) \in Int /\ oc[Cnf] \in Int
  BY <1>1, <1>4, <1>5, OneApart
<1> DEFINE t == Taken(card, stick, multi, osd, keep, root)
           b == Taken(card, stick, multi, osd, FALSE, root)
           x == ForFolders(card, stick, multi, osd, FALSE, root)
<1>9. x \in Int /\ t = TotalOver(ws, V) - TotalOver(oc, H) + x /\ b = TotalOver(ws, W) - TotalOver(oc, G) + x
  <2>1. x \in Int /\ b = TotalOver(ws, W) - TotalOver(oc, G) + x
    BY <1>7, TakenParts DEF W
  <2>2. t = TotalOver(ws, V) - TotalOver(oc, H) + x
    BY <1>3, <1>7, TakenParts DEF V
  <2> QED
    BY <2>1, <2>2
<1> DEFINE k == CeilDiv(card[Cnf], Cluster)
           n == CeilDiv(SizeOf(stick, Cnf), Cluster)
<1> HIDE DEF t, b, x, k, n
<1>10. t = b + k - n
  BY <1>6, <1>8, <1>9 DEF k, n
<1> QED
  BY <1>10, Zenon DEF t, b, k, n

LEMMA OverlookedOfKept ==
  ASSUME NEW card, NEW stick, NEW multi, NEW osd, NEW keep, NEW last, Found(card, stick, multi, osd, last)
  PROVE  Overlooked(card, stick, multi, osd, keep, last)
           = Overlooked(card, stick, multi, osd, FALSE, last) + LargerCnf(card, stick, keep)
<1> DEFINE u == UninstallFile \in DOMAIN card
           full == Cardinality(Full(card, stick, last))
           missing == Cardinality(Missing(card))
           kept == KeptClusters(card, multi, osd, last)
           y == Cardinality(Reused(card, multi, osd))
           h == (5 + y + (IF u THEN 2 ELSE 0)) \div 2
           l == LargerCnf(card, stick, keep)
           none == LargerCnf(card, stick, FALSE)
           o == Overlooked(card, stick, multi, osd, keep, last)
           p == Overlooked(card, stick, multi, osd, FALSE, last)
<1>1. /\ o = 1 + full + missing + kept + l + h
      /\ p = 1 + full + missing + kept + none + h
  BY Zenon DEF Overlooked, Full, Missing, KeptClusters, Reused
<1>2. full \in Nat /\ missing \in Nat /\ kept \in Nat /\ y \in Nat /\ l \in Nat
  BY OverlookedIs
<1>3. h \in Int
  <2> HIDE DEF y
  <2> QED
    BY <1>2
<1>4. none = 0
  BY DEF LargerCnf
<1> HIDE DEF full, missing, kept, h, l, none, o, p
<1>5. o = p + l
  BY <1>1, <1>2, <1>3, <1>4
<1> QED
  BY <1>5 DEF o, p, l

LEMMA ShortfallIsOverlooked ==
  ASSUME NEW card, NEW stick, NEW multi, NEW osd, NEW keep, NEW last, Found(card, stick, multi, osd, last),
         NEW root \in Nat, NEW free \in Nat, ~(Needed(card, stick, multi, last) >= free)
  PROVE  Max({0, Taken(card, stick, multi, osd, keep, root) - free}) <= Overlooked(card, stick, multi, osd, keep, last)
<1>1. CASE keep => Cnf \notin DOMAIN card
  BY <1>1, ShortfallOfReplaced
<1>2. CASE keep /\ Cnf \in DOMAIN card
  <2> DEFINE t == Taken(card, stick, multi, osd, keep, root)
             b == Taken(card, stick, multi, osd, FALSE, root)
             o == Overlooked(card, stick, multi, osd, keep, last)
             p == Overlooked(card, stick, multi, osd, FALSE, last)
             l == LargerCnf(card, stick, keep)
             n == CeilDiv(card[Cnf], Cluster) - CeilDiv(SizeOf(stick, Cnf), Cluster)
  <2>1. Max({0, b - free}) <= p
    BY ShortfallOfReplaced
  <2>2. t = b + n /\ n \in Int
    <3>1. card[Cnf] \in Nat /\ SizeOf(stick, Cnf) \in Nat
      BY <1>2, AddedFinite DEF Found
    <3>2. CeilDiv(card[Cnf], Cluster) \in Int /\ CeilDiv(SizeOf(stick, Cnf), Cluster) \in Int
      BY <3>1, RoundedSize
    <3>3. t = b + CeilDiv(card[Cnf], Cluster) - CeilDiv(SizeOf(stick, Cnf), Cluster) /\ b \in Int
      BY <1>2, KeptCnf, TakenParts
    <3> HIDE DEF t, b
    <3> QED
      BY <3>2, <3>3
  <2>3. o = p + l /\ l \in Nat /\ p \in Nat
    BY OverlookedOfKept, OverlookedIs
  <2>4. l = Max({0, n})
    BY <1>2 DEF LargerCnf
  <2>5. b \in Int
    BY TakenParts
  <2> HIDE DEF t, b, o, p, l, n
  <2>6. n <= l /\ b - free <= p
    <3>1. Max({0, n}) = (IF n >= 0 THEN n ELSE 0)
      BY <2>2, AtLeastNothing
    <3>2. b - free \in Int
      BY <2>5
    <3>3. Max({0, b - free}) = (IF b - free >= 0 THEN b - free ELSE 0)
      BY <3>2, AtLeastNothing
    <3> QED
      BY <2>1, <2>2, <2>3, <2>4, <2>5, <3>1, <3>3
  <2>7. t - free \in Int /\ t - free <= o /\ o \in Nat
    BY <2>2, <2>3, <2>5, <2>6
  <2>8. Max({0, t - free}) = (IF t - free >= 0 THEN t - free ELSE 0)
    BY <2>7, AtLeastNothing
  <2> QED
    BY <2>7, <2>8 DEF t, o
<1> QED
  BY <1>1, <1>2

------------------------------------------------------------------------------
(* The types                                                               *)

(* The job falls short by no more than was overlooked.                     *)
JobType == {j \in [step : Step, lines : Nat, failed : SUBSET Step, left : 0..MaxFiles,
                   short : Nat, slack : Nat] : j.short <= j.slack}
UiType == [at : {"menu", "check", "confirm", "work", "launched"}, button : DOMAIN Buttons,
           log : BOOLEAN, logo : BOOLEAN, port : Port, said : {"none", "installed", "error", "aborted"}]

LEMMA RecTyped ==
  ASSUME NEW s \in Step, NEW n \in Nat, NEW f \in SUBSET Step, NEW l \in 0..MaxFiles,
         NEW k \in Nat, NEW g \in Nat, k <= g
  PROVE  Rec(s, n, f, l, k, g) \in JobType
BY DEF Rec, JobType

LEMMA JobTyped ==
  ASSUME job \in JobType
  PROVE  /\ IsJob
         /\ job.step \in Step /\ job.lines \in Nat /\ job.failed \in SUBSET Step
         /\ job.left \in 0..MaxFiles /\ job.short \in Nat /\ job.slack \in Nat /\ job.short <= job.slack
         /\ 0 \in 0..MaxFiles /\ \A d \in Nat : job.lines + d \in Nat
BY SessionAssumption DEF JobType, IsJob

(* What a step may leave of the job.                                       *)
LEMMA LoggedTyped ==
  ASSUME job \in JobType, NEW n \in Step, NEW b \in BOOLEAN
  PROVE  Logged(n, b) \in JobType
<1>1. Logged(n, b) \in {Line(n, job.failed), Line(n, job.failed \cup {job.step})}
  BY JobTyped, LoggedFields
<1>2. /\ job.failed \in SUBSET Step /\ job.failed \cup {job.step} \in SUBSET Step
      /\ 0 \in 0..MaxFiles /\ job.lines + 1 \in Nat
  BY JobTyped
<1> QED
  BY <1>1, <1>2, RecTyped DEF Line

LEMMA PassTyped ==
  ASSUME job \in JobType, NEW n \in Step, PassOver(n)
  PROVE  job' \in JobType
<1>1. job' = JobWith(n, job.lines, job.failed, 0)
  BY JobTyped, PassFields DEF PassOver
<1> QED
  BY <1>1, JobTyped, RecTyped DEF JobWith

LEMMA LeftTyped ==
  ASSUME job \in JobType, NEW l \in 0..MaxFiles
  PROVE  [job EXCEPT !.left = l] \in JobType
BY DEF JobType

LEMMA LinesTyped ==
  ASSUME job \in JobType, NEW d \in Nat
  PROVE  [job EXCEPT !.lines = @ + d] \in JobType
BY DEF JobType

LEMMA ReturnTyped ==
  ASSUME ui \in UiType, NEW said \in {"none", "installed", "error", "aborted"}, NEW hide,
         Return(said, hide)
  PROVE  ui' \in UiType
<1>1. \/ Screen(hide) = [ui EXCEPT !.at = "menu", !.log = FALSE, !.logo = TRUE]
      \/ Screen(hide) = [ui EXCEPT !.at = "menu"]
      \/ Screen(hide) = [ui EXCEPT !.at = "menu", !.logo = TRUE]
  BY DEF Screen
<1>2. Screen(hide) \in UiType
  BY <1>1 DEF UiType
<1> QED
  BY <1>2 DEF Return, UiType

LEMMA EndTyped ==
  ASSUME ui \in UiType, NEW said \in {"none", "installed", "error", "aborted"}, NEW hide, NEW h,
         NEW log \in JobType, EndJob(said, hide, log, h)
  PROVE  ui' \in UiType /\ job' \in JobType
<1>1. Return(said, hide) /\ job' = [log EXCEPT !.step = "idle"]
  BY DEF EndJob
<1>2. "idle" \in Step
  BY DEF Step
<1> QED
  BY <1>1, <1>2, ReturnTyped DEF JobType

(* The screen and the job after a step of the job.                         *)
Typed == ui' \in UiType /\ job' \in JobType

LEMMA StepNames ==
  /\ "idle" \in Step /\ Late \subseteq Step /\ Early \subseteq Step /\ "modifying" \in Step
  /\ \A s \in WorkSteps : Work[s].next \in Step
  /\ \A s \in DOMAIN After : After[s] \in Step
  /\ \A s \in DOMAIN CopyNext : CopyNext[s] \in Step
  /\ \A s \in DOMAIN LoopNext : s \in Step /\ LoopNext[s] \in Step
<1>1. "idle" \in Step /\ Late \subseteq Step /\ Early \subseteq Step /\ "modifying" \in Step
  BY DEF Step, Late, Early
<1>2. \A s \in WorkSteps : Work[s].next \in Step
  BY WorkTable DEF WorkSteps, Step
<1>3. \A s \in DOMAIN After : After[s] \in Step
  BY DEF After, Step
<1>4. \A s \in DOMAIN CopyNext : CopyNext[s] \in Step
  BY DEF CopyNext, Step
<1>5. \A s \in DOMAIN LoopNext : s \in Step /\ LoopNext[s] \in Step
  BY DEF LoopNext, Step
<1> QED
  BY <1>1, <1>2, <1>3, <1>4, <1>5

LEMMA FailTyped ==
  ASSUME ui \in UiType, job \in JobType, NEW h, Fail(h)
  PROVE  Typed
<1>1. Logged("idle", TRUE) \in JobType
  BY LoggedTyped, StepNames
<1> QED
  BY <1>1, EndTyped DEF Fail, Typed

LEMMA FailInstallTyped ==
  ASSUME ui \in UiType, job \in JobType, NEW h, FailInstall(h)
  PROVE  Typed
BY FailTyped DEF FailInstall

LEMMA AdvanceTyped ==
  ASSUME ui \in UiType, job \in JobType, NEW n \in Step, Advance(n), Continue
  PROVE  Typed
BY LoggedTyped DEF Advance, Continue, Typed

LEMMA PassOverTyped ==
  ASSUME ui \in UiType, job \in JobType, NEW n \in Step, PassOver(n), Continue
  PROVE  Typed
BY PassTyped DEF Continue, Typed

LEMMA ContentsFound ==
  ASSUME NEW c \in Contents, NEW multi
  PROVE  Found(c.card, c.stick, multi, IF multi THEN OsdMain ELSE c.osd, c.last) /\ c.root \in Nat
<1>1. OsdMain.dir = "exec" /\ OsdMain \notin Icons
  BY Places
<1> QED
  BY <1>1, ContentsAssumption DEF Found

LEMMA SpaceTyped ==
  ASSUME ui \in UiType, job \in JobType, CheckSpace
  PROVE  Typed
<1>1. PICK c \in Contents, keep \in BOOLEAN :
        LET needed == Needed(c.card, c.stick, Multi, c.last)
            osd == IF Multi THEN OsdMain ELSE c.osd
            log == [job EXCEPT !.lines = @ + 2] IN
        \E free \in {0, needed, needed + 1} \cap Nat :
          IF needed >= free
          THEN EndJob("error", TRUE, log, heap)
          ELSE /\ job' = [log EXCEPT !.step = "reading",
                            !.short = Max({0, Taken(c.card, c.stick, Multi, osd, keep, c.root) - free}),
                            !.slack = Overlooked(c.card, c.stick, Multi, osd, keep, c.last)]
               /\ UNCHANGED heap /\ Continue
  BY Zenon DEF CheckSpace
<1> DEFINE osd == IF Multi THEN OsdMain ELSE c.osd
           log == [job EXCEPT !.lines = @ + 2]
           taken == Taken(c.card, c.stick, Multi, osd, keep, c.root)
           slack == Overlooked(c.card, c.stick, Multi, osd, keep, c.last)
<1>2. log \in JobType
  BY LinesTyped
<1>3. Found(c.card, c.stick, Multi, osd, c.last) /\ c.root \in Nat
  BY ContentsFound
<1>4. taken \in Int /\ slack \in Nat
  BY <1>3, TakenParts, OverlookedIs
<1>5. PICK free \in Nat :
        \/ EndJob("error", TRUE, log, heap)
        \/ /\ ~(Needed(c.card, c.stick, Multi, c.last) >= free)
           /\ job' = [log EXCEPT !.step = "reading", !.short = Max({0, taken - free}), !.slack = slack]
           /\ Continue
  BY <1>1, Zenon
<1>6. ~(Needed(c.card, c.stick, Multi, c.last) >= free) => Max({0, taken - free}) <= slack
  BY <1>3, ShortfallIsOverlooked
<1> HIDE DEF log, taken, slack
<1>7. CASE EndJob("error", TRUE, log, heap)
  BY <1>2, <1>7, EndTyped DEF Typed
<1>8. CASE /\ ~(Needed(c.card, c.stick, Multi, c.last) >= free)
           /\ job' = [log EXCEPT !.step = "reading", !.short = Max({0, taken - free}), !.slack = slack]
           /\ Continue
  <2>1. Max({0, taken - free}) \in Nat /\ Max({0, taken - free}) <= slack
    BY <1>4, <1>6, <1>8, AtLeastNothing
  <2>2. "reading" \in Step
    BY DEF Step
  <2>3. job' \in JobType
    BY <1>2, <1>4, <1>8, <2>1, <2>2 DEF JobType
  <2> QED
    BY <1>8, <2>3 DEF Typed, Continue
<1> QED
  BY <1>5, <1>7, <1>8

LEMMA HackTyped ==
  ASSUME ui \in UiType, job \in JobType,
         \/ OpenDvdelf \/ Sign \/ NoEmbed \/ InjectLauncher
         \/ \E s \in DOMAIN Work : NoMemory(s) \/ WorkFails(s) \/ WorkDone(s)
  PROVE  Typed
<1>1. {"open", "space", "embedding", "injecting", "verifying"} \subseteq Step
  BY DEF Step
<1>2. [job EXCEPT !.lines = @ + 1] \in JobType
  BY LinesTyped
<1>3. CASE OpenDvdelf
  <2>1. \/ PassOver("space") /\ Continue
        \/ EndJob("aborted", TRUE, job, heap)
        \/ EndJob("error", FALSE, [job EXCEPT !.lines = @ + 1], heap)
    BY <1>3 DEF OpenDvdelf
  <2> QED
    BY <1>1, <1>2, <2>1, PassOverTyped, EndTyped DEF Typed
<1>4. CASE Sign
  <2>1. Advance("embedding") /\ UNCHANGED ui
    BY <1>4 DEF Sign
  <2>2. Logged("embedding", FALSE) \in JobType
    BY <1>1, LoggedTyped
  <2> QED
    BY <2>1, <2>2 DEF Advance, Typed
<1>5. CASE NoEmbed
  BY <1>1, <1>5, PassOverTyped DEF NoEmbed
<1>6. CASE InjectLauncher
  <2>1. (Advance("verifying") /\ Continue) \/ \E h : Fail(h)
    BY <1>6 DEF InjectLauncher
  <2> QED
    BY <1>1, <2>1, AdvanceTyped, FailTyped
<1>7. CASE \E s \in DOMAIN Work : NoMemory(s) \/ WorkFails(s) \/ WorkDone(s)
  <2>1. PICK s \in WorkSteps : NoMemory(s) \/ WorkFails(s) \/ WorkDone(s)
    BY <1>7, WorkDomain
  <2>2. \/ EndJob("error", FALSE, [job EXCEPT !.lines = @ + 1], Free(heap, Work[s].noMem))
        \/ \E h : Fail(h)
        \/ Advance(Work[s].next) /\ Continue
    BY <2>1 DEF NoMemory, WorkFails, WorkDone
  <2>3. Work[s].next \in Step
    BY StepNames
  <2> QED
    BY <1>2, <2>2, <2>3, EndTyped, FailTyped, AdvanceTyped DEF Typed
<1> QED
  BY <1>3, <1>4, <1>5, <1>6, <1>7

LEMMA RestTyped ==
  ASSUME ui \in UiType, job \in JobType,
         \/ Unpatch \/ DeleteDummies \/ ModifyOsd \/ WriteConfig \/ PatchDummies
         \/ \E s \in DOMAIN After : WriteFiles(s) \/ SkipFiles(s)
         \/ \E s \in DOMAIN CopyNext : CopyFile(s)
         \/ \E s \in DOMAIN LoopNext : StartLoop(s) \/ CopyNextFile(s)
  PROVE  Typed
<1>1. {"deleting", "writingOsd", "modifying", "usbd", "idle"} \subseteq Step
  BY DEF Step
<1>2. CASE Unpatch
  <2>1. \/ Advance("deleting") /\ Continue
        \/ EndJob("error", TRUE, job, heap) \/ Fail(heap)
        \/ PassOver("writingOsd") /\ Continue
        \/ job' = Logged("writingOsd", TRUE) /\ Continue
    BY <1>2, Zenon DEF Unpatch
  <2>2. Logged("writingOsd", TRUE) \in JobType
    BY <1>1, LoggedTyped
  <2> QED
    BY <1>1, <2>1, <2>2, AdvanceTyped, EndTyped, FailTyped, PassOverTyped DEF Typed, Continue
<1>3. CASE DeleteDummies
  <2>1. \E n \in {"modifying", "writingOsd"} : Advance(n) /\ Continue
    BY <1>3 DEF DeleteDummies
  <2> QED
    BY <1>1, <2>1, AdvanceTyped
<1>4. CASE ModifyOsd
  <2>1. (\E h : EndJob("installed", FALSE, Logged("idle", FALSE), h)) \/ \E h : Fail(h)
    BY <1>4, Zenon DEF ModifyOsd
  <2>2. Logged("idle", FALSE) \in JobType
    BY <1>1, LoggedTyped
  <2> QED
    BY <2>1, <2>2, EndTyped, FailTyped DEF Typed
<1>5. CASE WriteConfig
  <2>1. (Advance("usbd") /\ Continue) \/ \E h : FailInstall(h)
    BY <1>5 DEF WriteConfig
  <2> QED
    BY <1>1, <2>1, AdvanceTyped, FailInstallTyped
<1>6. CASE PatchDummies
  <2>1. \/ \E h : EndJob("installed", FALSE, Logged("idle", FALSE), h)
        \/ FailInstall(heap)
        \/ \E h : EndJob("error", FALSE, job, h)
    BY <1>6, Zenon DEF PatchDummies
  <2>2. Logged("idle", FALSE) \in JobType
    BY <1>1, LoggedTyped
  <2> QED
    BY <2>1, <2>2, EndTyped, FailInstallTyped DEF Typed
<1>7. CASE \E s \in DOMAIN After : WriteFiles(s) \/ SkipFiles(s)
  <2>1. PICK s \in DOMAIN After : WriteFiles(s) \/ SkipFiles(s)
    BY <1>7
  <2>2. \/ Advance(After[s]) /\ Continue
        \/ FailInstall(heap)
        \/ \E h : EndJob("installed", FALSE, job, h)
        \/ PassOver(After[s]) /\ Continue
    BY <2>1, Zenon DEF WriteFiles, SkipFiles
  <2>3. After[s] \in Step
    BY StepNames
  <2> QED
    BY <2>2, <2>3, AdvanceTyped, FailInstallTyped, EndTyped, PassOverTyped DEF Typed
<1>8. CASE \E s \in DOMAIN CopyNext : CopyFile(s)
  <2>1. PICK s \in DOMAIN CopyNext : CopyFile(s)
    BY <1>8
  <2>2. \/ PassOver(CopyNext[s]) /\ Continue
        \/ Advance(CopyNext[s]) /\ Continue
        \/ \E h : FailInstall(h)
    BY <2>1, Zenon DEF CopyFile
  <2>3. CopyNext[s] \in Step
    BY StepNames
  <2> QED
    BY <2>2, <2>3, AdvanceTyped, FailInstallTyped, PassOverTyped
<1>9. CASE \E s \in DOMAIN LoopNext : StartLoop(s) \/ CopyNextFile(s)
  <2>1. PICK s \in DOMAIN LoopNext : StartLoop(s) \/ CopyNextFile(s)
    BY <1>9
  <2>2. LoopNext[s] \in Step /\ job.left \in 0..MaxFiles
    BY StepNames, JobTyped
  <2>3. CASE StartLoop(s)
    <3>1. \/ PassOver(LoopNext[s]) /\ Continue
          \/ (\E n \in 1..MaxFiles : job' = [job EXCEPT !.left = n]) /\ Continue
          \/ FailInstall(heap)
      BY <2>3, Zenon DEF StartLoop
    <3>2. \A n \in 1..MaxFiles : n \in 0..MaxFiles
      OBVIOUS
    <3> QED
      BY <2>2, <3>1, <3>2, PassOverTyped, FailInstallTyped, LeftTyped DEF Typed, Continue
  <2>4. CASE CopyNextFile(s)
    <3>1. \/ job.left > 1 /\ job' = [job EXCEPT !.left = job.left - 1] /\ Continue
          \/ Advance(LoopNext[s]) /\ Continue
          \/ \E h : FailInstall(h)
      BY <2>4 DEF CopyNextFile
    <3>2. job.left > 1 => job.left - 1 \in 0..MaxFiles
      BY <2>2, SessionAssumption
    <3> QED
      BY <2>2, <3>1, <3>2, AdvanceTyped, FailInstallTyped, LeftTyped DEF Typed, Continue
  <2> QED
    BY <2>1, <2>3, <2>4
<1> QED
  BY <1>2, <1>3, <1>4, <1>5, <1>6, <1>7, <1>8, <1>9

LEMMA MenuTyped ==
  ASSUME ui \in UiType, job \in JobType,
         MoveButton \/ Press \/ PressConfigurator \/ ShowCredits \/ CheckPort \/ Confirm,
         check.at = "found" => check.port \in Port
  PROVE  Typed
<1>1. Idle \in JobType /\ \A s \in {"unpatching", "open"} : [Idle EXCEPT !.step = s] \in JobType
  <2>1. Idle \in JobType
    BY SessionAssumption DEF Idle, JobType, Step
  <2>2. {"unpatching", "open"} \subseteq Step
    BY DEF Step
  <2> QED
    BY <2>1, <2>2 DEF JobType
<1>2. CASE MoveButton
  <2>1. PICK b \in {IF ui.button = 1 THEN 6 ELSE ui.button - 1, IF ui.button = 6 THEN 1 ELSE ui.button + 1} :
           ui' = [ui EXCEPT !.button = b, !.logo = TRUE, !.log = FALSE, !.said = "none"] /\ job' = Idle
    BY <1>2 DEF MoveButton
  <2>2. DOMAIN Buttons = 1..6
    BY DEF Buttons
  <2>3. ui.button \in 1..6
    BY <2>2 DEF UiType
  <2>4. b \in DOMAIN Buttons
    BY <2>1, <2>2, <2>3
  <2>5. ui' \in UiType
    BY <2>1, <2>4 DEF UiType
  <2> QED
    BY <1>1, <2>1, <2>5 DEF Typed
<1>3. CASE Press
  <2>1. /\ ui' = [ui EXCEPT !.at = "check", !.logo = FALSE, !.said = "none", !.log = @ \/ Button \in JobButtons]
        /\ job' = Idle \/ job' = job
    BY <1>3 DEF Press
  <2>2. (ui.log \/ Button \in JobButtons) \in BOOLEAN
    OBVIOUS
  <2>3. ui' \in UiType
    BY <2>1, <2>2 DEF UiType
  <2> QED
    BY <1>1, <2>1, <2>3 DEF Typed
<1>4. CASE PressConfigurator
  <2>1. (ui' = [ui EXCEPT !.at = "launched"] \/ Return("error", FALSE)) /\ job' = job
    BY <1>4 DEF PressConfigurator
  <2>2. [ui EXCEPT !.at = "launched"] \in UiType
    BY DEF UiType
  <2> QED
    BY <2>1, <2>2, ReturnTyped DEF Typed
<1>5. CASE ShowCredits
  BY <1>5 DEF ShowCredits, UiType, Typed
<1>6. CASE CheckPort
  <2>1. /\ \/ UNCHANGED ui
           \/ Return("none", TRUE)
           \/ Return("error", TRUE)
           \/ check.at = "found" /\ ui' = [ui EXCEPT !.at = "confirm", !.port = check.port]
        /\ job' = job
    BY <1>6 DEF CheckPort, CheckEnds
  <2>2. check.at = "found" => [ui EXCEPT !.at = "confirm", !.port = check.port] \in UiType
    BY DEF UiType
  <2> QED
    BY <2>1, <2>2, ReturnTyped DEF Typed
<1>7. CASE Confirm
  <2>1. \/ /\ ui' = [ui EXCEPT !.at = "work"]
           /\ \E s \in {"unpatching", "open"} : job' = [Idle EXCEPT !.step = s]
        \/ (\E hide : Return("none", hide)) /\ job' = job
        \/ ui' = [ui EXCEPT !.at = "launched"] /\ job' = job
    BY <1>7, Zenon DEF Confirm
  <2>2. [ui EXCEPT !.at = "work"] \in UiType /\ [ui EXCEPT !.at = "launched"] \in UiType
    BY DEF UiType
  <2> QED
    BY <1>1, <2>1, <2>2, ReturnTyped DEF Typed
<1> QED
  BY <1>2, <1>3, <1>4, <1>5, <1>6, <1>7

CallType == [port : Port, to : {"mc", "info"}, done : BOOLEAN, ret : Answer]
CheckType == [at : {"off", "first", "second", "ask", "poll", "found"}, port : Port,
              ret : [Port -> Answer], cnt : 0..1]

LEMMA AskedTyped ==
  ASSUME NEW p \in Port, NEW to \in {"mc", "info"}, NEW pending,
         pending = NoCall \/ pending \in CallType, GetInfo(pending, p, to)
  PROVE  call' = NoCall \/ call' \in CallType
BY DEF GetInfo, CallType, Answer

LEMMA CheckTyped ==
  ASSUME CardTypeOK, StartCheck \/ Check \/ Leave
  PROVE  CardTypeOK'
<1> USE DEF CardTypeOK
<1>1. /\ check \in CheckType /\ (call = NoCall \/ call \in CallType)
      /\ 0 \in Port /\ 1 \in Port /\ check.port \in Port /\ 1 - check.port \in Port
      /\ Off \in CheckType /\ {0, 1} \subseteq 0..1
  <2>1. check \in CheckType /\ (call = NoCall \/ call \in CallType)
    BY DEF CheckType, CallType
  <2>2. 0 \in Port /\ 1 \in Port /\ check.port \in Port /\ 1 - check.port \in Port
    BY DEF Port
  <2>3. NoRet \in [Port -> Answer]
    BY DEF NoRet, Answer
  <2>4. Off \in CheckType
    BY <2>3 DEF Off, CheckType, Port
  <2> QED
    BY <2>1, <2>2, <2>4
<1>2. CASE StartCheck
  <2>1. /\ check' = [Off EXCEPT !.at = "first"] /\ GetInfo(call, 0, "info")
        /\ still' = {p \in Port : slot[p] # NoCard} /\ UNCHANGED <<slot, fresh, mc, info>>
    BY <1>2 DEF StartCheck
  <2>2. check' \in CheckType
    BY <1>1, <2>1 DEF CheckType
  <2>3. call' = NoCall \/ call' \in CallType
    BY <1>1, <2>1, AskedTyped
  <2> QED
    BY <2>1, <2>2, <2>3 DEF CheckType, CallType
<1>3. CASE FirstSync
  <2>1. /\ check' = [check EXCEPT !.at = "second"] /\ GetInfo(NoCall, check.port, "info")
        /\ UNCHANGED <<slot, fresh, mc, info, still>>
    BY <1>3 DEF FirstSync
  <2>2. check' \in CheckType
    BY <1>1, <2>1 DEF CheckType
  <2>3. call' = NoCall \/ call' \in CallType
    BY <1>1, <2>1, AskedTyped
  <2> QED
    BY <2>1, <2>2, <2>3 DEF CheckType, CallType
<1>4. CASE SecondSync
  <2> DEFINE ret == [check.ret EXCEPT ![check.port] = call.ret]
  <2>1. /\ call # NoCall /\ UNCHANGED <<slot, fresh, info, still>>
        /\ \/ /\ check' = [check EXCEPT !.at = "first", !.port = 1, !.ret = ret]
              /\ GetInfo(NoCall, 1, "info") /\ UNCHANGED mc
           \/ Decide(ret)
    BY <1>4 DEF SecondSync
  <2>2. ret \in [Port -> Answer]
    BY <1>1, <2>1 DEF CheckType, CallType
  <2> HIDE DEF ret
  <2>3. CASE /\ check' = [check EXCEPT !.at = "first", !.port = 1, !.ret = ret]
             /\ GetInfo(NoCall, 1, "info") /\ UNCHANGED mc
    <3>1. check' \in CheckType
      BY <1>1, <2>2, <2>3 DEF CheckType
    <3>2. call' = NoCall \/ call' \in CallType
      BY <1>1, <2>3, AskedTyped
    <3> QED
      BY <2>1, <2>3, <3>1, <3>2 DEF CheckType, CallType
  <2>4. CASE check' = [check EXCEPT !.at = "ask", !.ret = ret] /\ call' = NoCall /\ UNCHANGED mc
    <3>1. check' \in CheckType
      BY <1>1, <2>2, <2>4 DEF CheckType
    <3> QED
      BY <2>1, <2>4, <3>1 DEF CheckType
  <2>5. CASE \E p \in Port : /\ check' = [check EXCEPT !.at = "found", !.port = p, !.ret = ret]
                             /\ call' = NoCall /\ mc' = info[p]
    <3>1. check' \in CheckType
      BY <1>1, <2>2, <2>5 DEF CheckType
    <3> QED
      BY <2>1, <2>5, <3>1 DEF CheckType
  <2>6. CASE check' = [Off EXCEPT !.at = "poll", !.ret = ret] /\ GetInfo(NoCall, 0, "mc") /\ UNCHANGED mc
    <3>1. check' \in CheckType
      BY <1>1, <2>2, <2>6 DEF CheckType
    <3>2. call' = NoCall \/ call' \in CallType
      BY <1>1, <2>6, AskedTyped
    <3> QED
      BY <2>1, <2>6, <3>1, <3>2 DEF CheckType, CallType
  <2> QED
    BY <2>1, <2>3, <2>4, <2>5, <2>6 DEF Decide
<1>5. CASE PollSync
  <2>1. /\ UNCHANGED <<slot, fresh, mc, info, still>>
        /\ \/ check' = [check EXCEPT !.at = "found", !.cnt = 0] /\ call' = NoCall
           \/ check' = [check EXCEPT !.cnt = 1] /\ GetInfo(NoCall, check.port, "mc")
           \/ check' = [check EXCEPT !.cnt = 0, !.port = 1 - check.port] /\ GetInfo(NoCall, 1 - check.port, "mc")
    BY <1>5 DEF PollSync
  <2>2. check' \in CheckType
    BY <1>1, <2>1 DEF CheckType
  <2>3. call' = NoCall \/ call' \in CallType
    BY <1>1, <2>1, AskedTyped
  <2> QED
    BY <2>1, <2>2, <2>3 DEF CheckType, CallType
<1>6. CASE \E p \in Port : ChoosePort(p)
  <2>1. /\ \E p \in Port : check' = [check EXCEPT !.at = "found", !.port = p] /\ mc' = info[p]
        /\ UNCHANGED <<slot, fresh, call, info, still>>
    BY <1>6 DEF ChoosePort
  <2>2. check' \in CheckType
    BY <1>1, <2>1 DEF CheckType
  <2> QED
    BY <2>1, <2>2 DEF CheckType
<1>7. CASE Leave
  BY <1>1, <1>7 DEF Leave, CheckType
<1> QED
  BY <1>2, <1>3, <1>4, <1>5, <1>6, <1>7 DEF Check

LEMMA CardsTyped ==
  ASSUME CardTypeOK, AnswerCall \/ \E p \in Port : ChangeCard(p)
  PROVE  CardTypeOK'
<1> USE DEF CardTypeOK
<1>1. CASE AnswerCall
  <2> DEFINE q == call.port
             r == IF slot[q] = NoCard THEN "none" ELSE IF q \in fresh THEN "new" ELSE "same"
  <2>1. /\ call # NoCall /\ call' = [call EXCEPT !.done = TRUE, !.ret = r]
        /\ fresh' = fresh \ {q} /\ UNCHANGED <<slot, check, still>>
        /\ \/ mc' = slot[q] /\ UNCHANGED info
           \/ info' = [info EXCEPT ![q] = slot[q]] /\ UNCHANGED mc
    BY <1>1 DEF AnswerCall
  <2>2. r \in Answer
    BY DEF Answer
  <2> HIDE DEF r
  <2>3. call' \in CallType /\ q \in Port
    BY <2>1, <2>2 DEF CallType
  <2>4. mc' \in Cards \cup {NoCard} /\ info' \in [Port -> Cards \cup {NoCard}]
    BY <2>1, <2>3
  <2> QED
    BY <2>1, <2>3, <2>4 DEF CallType
<1>2. ASSUME NEW p \in Port, ChangeCard(p) PROVE CardTypeOK'
  <2>1. /\ \E c \in Cards \cup {NoCard} : slot' = [slot EXCEPT ![p] = c]
        /\ fresh' \in {fresh, fresh \cup {p}} /\ still' = still \ {p}
        /\ UNCHANGED <<call, mc, info, check>>
    BY <1>2 DEF ChangeCard
  <2> QED
    BY <2>1
<1> QED
  BY <1>1, <1>2

LEMMA CardTypesStay ==
  ASSUME CardTypeOK, UNCHANGED <<slot, call, info, check, still>>,
         fresh' \subseteq fresh, mc' \in Cards \cup {NoCard}
  PROVE  CardTypeOK'
BY DEF CardTypeOK

TypeInv == CardTypeOK /\ ui \in UiType /\ job \in JobType

LEMMA TypesStart == Init => TypeInv
<1> SUFFICES ASSUME Init PROVE TypeInv
  OBVIOUS
<1>1. CardTypeOK
  <2>1. NoRet \in [Port -> Answer]
    BY DEF NoRet, Answer
  <2> QED
    BY <2>1 DEF Init, CardInit, CardTypeOK, Off, Port
<1>2. ui \in UiType
  BY DEF Init, UiType, Buttons, Port
<1>3. job \in JobType
  BY SessionAssumption DEF Init, Idle, JobType, Step
<1> QED
  BY <1>1, <1>2, <1>3 DEF TypeInv

LEMMA JobCard ==
  ASSUME TypeInv, Job
  PROVE  CardTypeOK'
<1>1. CASE Sign
  <2>1. mc' = slot[ui.port] /\ fresh' \subseteq fresh /\ UNCHANGED <<slot, call, info, check, still>>
    BY <1>1 DEF Sign
  <2>2. ui.port \in Port /\ slot \in [Port -> Cards \cup {NoCard}]
    BY DEF TypeInv, UiType, CardTypeOK
  <2> QED
    BY <2>1, <2>2, CardTypesStay DEF TypeInv
<1>2. CASE ~Sign
  <2>1. UNCHANGED cardVars
    <3>1. CASE OpenDvdelf \/ CheckSpace \/ NoEmbed \/ InjectLauncher
      BY <3>1 DEF OpenDvdelf, CheckSpace, NoEmbed, InjectLauncher, Continue, EndJob, Fail
    <3>2. CASE \E s \in DOMAIN Work : NoMemory(s) \/ WorkFails(s) \/ WorkDone(s)
      BY <3>2 DEF NoMemory, WorkFails, WorkDone, Continue, EndJob, Fail
    <3>3. CASE Unpatch \/ DeleteDummies \/ ModifyOsd \/ WriteConfig \/ PatchDummies
      BY <3>3 DEF Unpatch, DeleteDummies, ModifyOsd, WriteConfig, PatchDummies, Continue, EndJob,
                  Fail, FailInstall
    <3>4. CASE \E s \in DOMAIN After : WriteFiles(s) \/ SkipFiles(s)
      BY <3>4 DEF WriteFiles, SkipFiles, Continue, EndJob, Fail, FailInstall
    <3>5. CASE \E s \in DOMAIN CopyNext : CopyFile(s)
      BY <3>5 DEF CopyFile, Continue, EndJob, Fail, FailInstall
    <3>6. CASE \E s \in DOMAIN LoopNext : StartLoop(s) \/ CopyNextFile(s)
      BY <3>6 DEF StartLoop, CopyNextFile, Continue, EndJob, Fail, FailInstall
    <3> QED
      BY <1>2, <3>1, <3>2, <3>3, <3>4, <3>5, <3>6 DEF Job
  <2>2. mc \in Cards \cup {NoCard} /\ CardTypeOK
    BY DEF TypeInv, CardTypeOK
  <2> QED
    BY <2>1, <2>2, CardTypesStay DEF cardVars
<1> QED
  BY <1>1, <1>2

LEMMA TypesStay == TypeInv /\ [Next]_vars => TypeInv'
<1> SUFFICES ASSUME TypeInv, [Next]_vars PROVE TypeInv'
  OBVIOUS
<1>1. /\ CardTypeOK /\ ui \in UiType /\ job \in JobType
      /\ mc \in Cards \cup {NoCard} /\ check.port \in Port
  BY DEF TypeInv, CardTypeOK
<1>2. CASE MoveButton \/ Press \/ PressConfigurator \/ ShowCredits \/ CheckPort \/ Confirm
  <2>1. Typed
    BY <1>1, <1>2, MenuTyped
  <2>2. UNCHANGED cardVars \/ StartCheck \/ Check \/ Leave
    BY <1>2 DEF MoveButton, Press, PressConfigurator, ShowCredits, CheckPort, Confirm, AbortCheck, CheckEnds
  <2>3. CardTypeOK'
    BY <1>1, <2>2, CheckTyped, CardTypesStay DEF cardVars
  <2> QED
    BY <2>1, <2>3 DEF TypeInv, Typed
<1>3. CASE Job
  <2>1. Typed
    BY <1>1, <1>3, SpaceTyped, HackTyped, RestTyped DEF Job
  <2> QED
    BY <1>3, <2>1, JobCard DEF TypeInv, Typed
<1>4. CASE User \/ Libmc
  <2>1. UNCHANGED <<ui, job>> /\ (AnswerCall \/ \E p \in Port : ChangeCard(p))
    BY <1>4 DEF User, Libmc
  <2>2. CardTypeOK'
    BY <1>1, <2>1, CardsTyped
  <2> QED
    BY <1>1, <2>1, <2>2 DEF TypeInv
<1>5. CASE UNCHANGED vars
  BY <1>1, <1>5, CardTypesStay DEF vars, cardVars, TypeInv
<1> QED
  BY <1>2, <1>3, <1>4, <1>5 DEF Next

(* TypeOK: the screen, the job, the card check and the heap keep their     *)
(* types; what an installation is short of is a number of clusters for any *)
(* card and stick, and a loop has no more files than the folder (main.c    *)
(* 874-1053, 2223-2757).                                                   *)
THEOREM TypeCorrect == FairSpec => []TypeOK
<1>1. Init => TypeInv
  BY TypesStart
<1>2. TypeInv /\ [Next]_vars => TypeInv'
  BY TypesStay
<1>3. IInv /\ TypeInv => TypeOK
  <2> SUFFICES ASSUME IInv, TypeInv PROVE TypeOK
    OBVIOUS
  <2>1. HeapHolds(heap, Live(job.step, Button, heap))
    BY DEF IInv, HeapAt
  <2>2. heap \in [ptr : [Buffer -> 0..HeapSize], used : SUBSET (1..HeapSize), leaked : SUBSET (1..HeapSize)]
    BY <2>1 DEF HeapHolds, IsHeap
  <2> QED
    BY <2>2 DEF TypeInv, TypeOK, UiType, JobType
<1> QED
  BY <1>1, <1>2, <1>3, InvariantHolds, PTL DEF FairSpec, Spec

(* ShortByRounding: for any card and INSTALL folder, FMCB_Needed_Space     *)
(* (main.c 1081-1379) falls short of the clusters Install_Hack takes       *)
(* (1502-2190, 2381-2409) by no more than Overlooked lists for them, also  *)
(* where the CNF of the card is kept (1728-1731).                          *)
THEOREM ShortfallListed == FairSpec => []ShortByRounding
<1>1. Init => TypeInv
  BY TypesStart
<1>2. TypeInv /\ [Next]_vars => TypeInv'
  BY TypesStay
<1>3. TypeInv => ShortByRounding
  BY JobTyped DEF TypeInv, ShortByRounding
<1> QED
  BY <1>1, <1>2, <1>3, PTL DEF FairSpec, Spec
=============================================================================

------------------------------- MODULE McspRpc -------------------------------
(***************************************************************************)
(* How a call of the installer gets to the mcsp module on the IOP and back: *)
(* the binding in mcsp_rpc.c, the server thread of modules/mcsp/main.c, and *)
(* the worker thread that MC_OSD_Scan, MC_Dummies_Patch and                *)
(* MC_Dummies_UnPatch of mcsp.c create for each call, wait for by polling  *)
(* the global done, and delete.                                            *)
(*                                                                         *)
(* The server has priority 40, the worker 0x4f: the worker only runs while *)
(* the server sleeps, and is preempted wherever it is, also between its    *)
(* last assignment and its end.  A thread that has not ended is not        *)
(* deleted, and its stack is lost.  So are buffers of a worker that leaves *)
(* by goto end, and the fourth buffer of every unpatch.                    *)
(*                                                                         *)
(* IOP memory is counted in areas, one for a stack or a buffer.  What the  *)
(* worker does to the card is in McspPatch.                                *)
(***************************************************************************)
EXTENDS Integers

CONSTANTS
  Heap,           \* areas that AllocSysMemory has to give
  Tries,          \* retryCount of mcspBindRpc: 0x1000
  MaxCalls        \* bound on the number of calls, for TLC

ASSUME RpcAssumption == Heap \in Nat /\ Tries \in Nat \ {0} /\ MaxCalls \in Nat

Ops == {"scan", "patch", "unpatch"}

(* buffers a worker allocates, and of those the ones it frees at its end   *)
Needed(op) == CASE op = "scan" -> 2 [] op = "patch" -> 3 [] OTHER -> 4
Returned_All(op) == IF op = "scan" THEN 2 ELSE 4    \* mutant: one too many
Returned(op) == IF op = "scan" THEN 2 ELSE 3
MostNeeded == 4

(* How a worker ends: it left by goto end, it read the card and missed the *)
(* file, or it did what was asked; "none" when none ended in this call.    *)
Ends == {"none", "left", "missed", "did"}

VARIABLES
  ee,             \* the installer: "init", "menu" or "waiting" in SifCallRpc
  tries,          \* retryCount
  MCSP_Inited,
  bound,          \* mcsp.server # 0
  call,           \* command of the last call
  result,         \* what the last call returned
  server,         \* the server thread
  worker,         \* the worker thread of the call
  done,
  ret,            \* Packet->ret
  heap,           \* areas left
  held,           \* areas the worker has allocated and still needs
  calls,          \* calls that got to the server
  stray, failed, undone,   \* history: threads not deleted, workers that left
                           \* by goto end, unpatches that went through
  out             \* history: how the worker of the last call ended

eevars   == <<ee, tries, MCSP_Inited, bound, call, result, calls>>
counters == <<stray, failed, undone>>
vars == <<eevars, server, worker, done, ret, heap, held, counters, out>>

Init ==
  /\ ee = "init" /\ tries = Tries /\ MCSP_Inited = FALSE /\ bound = FALSE
  /\ call = "scan" /\ result = -1
  /\ server \in {"started", "absent"}   \* absent: _start could not create it
  /\ worker = "none"
  /\ done = FALSE /\ ret = 0
  /\ heap = Heap /\ held = 0
  /\ calls = 0 /\ stray = 0 /\ failed = 0 /\ undone = 0
  /\ out = "none"

------------------------------------------------------------------------------
(* Registration and binding                                                *)

SifRegisterRpc ==
  /\ server = "started"
  /\ server' = "rest"
  /\ UNCHANGED <<eevars, worker, done, ret, heap, held, counters, out>>

Registered == server \notin {"started", "absent"}

(* SifBindRpc returns an error: -1 for mcsp_rpc_Init, and !(-1) goes on.   *)
BindError ==
  /\ ee = "init"
  /\ ee' = "menu"
  /\ UNCHANGED <<tries, MCSP_Inited, bound, call, result, calls>>
  /\ UNCHANGED <<server, worker, done, ret, heap, held, counters, out>>

Bind ==
  /\ ee = "init"
  /\ \/ /\ Registered
        /\ bound' = TRUE /\ MCSP_Inited' = TRUE /\ ee' = "menu"
        /\ UNCHANGED tries
     \/ /\ ~Registered /\ tries > 0
        /\ tries' = tries - 1
        /\ UNCHANGED <<bound, MCSP_Inited, ee>>
     \/ /\ ~Registered /\ tries = 0
        /\ MCSP_Inited' = TRUE /\ ee' = "menu"
        /\ UNCHANGED <<tries, bound>>
  /\ UNCHANGED <<call, result, calls>>
  /\ UNCHANGED <<server, worker, done, ret, heap, held, counters, out>>

------------------------------------------------------------------------------
(* MC_OSD_Scan, MC_Dummies_Patch, MC_Dummies_UnPatch of mcsp_rpc.c         *)

CallNotInited ==
  /\ ee = "menu" /\ ~MCSP_Inited
  /\ result' = -1 /\ out' = "none"
  /\ UNCHANGED <<ee, tries, MCSP_Inited, bound, call, calls>>
  /\ UNCHANGED <<server, worker, done, ret, heap, held, counters>>

(* SifCallRpc returns an error, and the server never hears of the call.    *)
SifCallRpcFails ==
  /\ ee = "menu" /\ MCSP_Inited
  /\ call' \in Ops
  /\ result' = -1 /\ out' = "none"
  /\ UNCHANGED <<ee, tries, MCSP_Inited, bound, calls>>
  /\ UNCHANGED <<server, worker, done, ret, heap, held, counters>>

(* A call to a client that was never bound is answered by nobody.          *)
CallRpc ==
  /\ ee = "menu" /\ MCSP_Inited
  /\ calls < MaxCalls
  /\ calls' = calls + 1
  /\ call' \in Ops
  /\ ee' = "waiting"
  /\ server' = IF bound THEN "create" ELSE server
  /\ out' = "none"
  /\ UNCHANGED <<tries, MCSP_Inited, bound, result>>
  /\ UNCHANGED <<worker, done, ret, heap, held, counters>>

------------------------------------------------------------------------------
(* The server thread                                                       *)

Thread(areas) ==
  \/ /\ areas > 0
     /\ worker' = "check"
     /\ heap' = heap - 1
  \/ /\ areas = 0             \* thid < 0, which is not looked at
     /\ worker' = "none"
     /\ UNCHANGED heap

(* Mutant: done is not cleared for the next call.                          *)
CreateThread_Stale ==
  /\ server = "create"
  /\ Thread(heap)
  /\ server' = "poll"
  /\ UNCHANGED <<eevars, done, ret, held, counters, out>>

CreateThread ==
  /\ server = "create"
  /\ done' = FALSE
  /\ Thread(heap)
  /\ server' = "poll"
  /\ UNCHANGED <<eevars, ret, held, counters, out>>

Poll ==
  /\ server = "poll"
  /\ server' = IF done THEN "delete" ELSE "asleep"
  /\ UNCHANGED <<eevars, worker, done, ret, heap, held, counters, out>>

(* the alarm of DelayThread(100*1000)                                      *)
Wake ==
  /\ server = "asleep"
  /\ server' = "poll"
  /\ UNCHANGED <<eevars, worker, done, ret, heap, held, counters, out>>

DeleteThread ==
  /\ server = "delete"
  /\ \/ worker = "dormant" /\ heap' = heap + 1 /\ UNCHANGED stray
     \/ worker # "dormant" /\ stray' = stray + 1 /\ UNCHANGED heap
  /\ worker' = "none"
  /\ server' = "reply"
  /\ UNCHANGED <<eevars, done, ret, held, failed, undone, out>>

Reply ==
  /\ server = "reply"
  /\ server' = "rest"
  /\ ee' = "menu"
  /\ result' = ret
  /\ UNCHANGED <<tries, MCSP_Inited, bound, call, calls>>
  /\ UNCHANGED <<worker, done, ret, heap, held, counters, out>>

------------------------------------------------------------------------------
(* The worker thread; it runs while the server sleeps                      *)

Step(from, to) ==
  /\ server = "asleep"
  /\ worker = from
  /\ worker' = to
  /\ UNCHANGED <<eevars, server>>

(* Mutant: an error exit returns instead of going to end.                  *)
GotoEnd_Returns(from) ==
  /\ Step(from, "dormant")
  /\ failed' = failed + 1
  /\ ret' = 0 /\ out' = "left"
  /\ UNCHANGED <<done, stray, undone>>

(* goto end: what is allocated stays so                                    *)
GotoEnd(from) ==
  /\ Step(from, "end")
  /\ failed' = failed + 1
  /\ ret' = 0 /\ out' = "left"
  /\ UNCHANGED <<done, stray, undone>>

(* parameters, entries of mcman, card detection and specification          *)
CheckFails == GotoEnd("check") /\ UNCHANGED <<heap, held>>

Allocate ==
  /\ Step("check", "work")
  /\ heap >= Needed(call)
  /\ held' = Needed(call)
  /\ heap' = heap - held'
  /\ ret' = 0
  /\ UNCHANGED <<done, counters, out>>

AllocateFails ==
  /\ GotoEnd("check")
  /\ heap < Needed(call)
  /\ heap' = 0
  /\ UNCHANGED held

WorkFails == GotoEnd("work") /\ held' = 0 /\ UNCHANGED heap

(* The worker went through.  A scan that did may not have met the file:    *)
(* then ret stays as it was set at the start.                              *)
WentThrough ==
  \/ ret' = 1 /\ out' = "did"
  \/ call = "scan" /\ out' = "missed" /\ UNCHANGED ret

(* Mutant: the block buffer is not freed.                                  *)
Work_KeepsBlock ==
  /\ Step("work", "end")
  /\ heap' = heap + 2
  /\ held' = 0
  /\ WentThrough
  /\ undone' = undone + (IF call = "unpatch" THEN 1 ELSE 0)
  /\ UNCHANGED <<done, stray, failed>>

Work ==
  /\ Step("work", "end")
  /\ heap' = heap + Returned(call)
  /\ held' = 0
  /\ WentThrough
  /\ undone' = undone + (IF call = "unpatch" THEN 1 ELSE 0)
  /\ UNCHANGED <<done, stray, failed>>

SetDone ==
  /\ Step("end", "leaving")
  /\ done' = TRUE
  /\ UNCHANGED <<ret, heap, held, counters, out>>

ExitThread ==
  /\ Step("leaving", "dormant")
  /\ UNCHANGED <<done, ret, heap, held, counters, out>>

------------------------------------------------------------------------------
ServerStep == CreateThread \/ Poll \/ Wake \/ DeleteThread \/ Reply
WorkerStep == CheckFails \/ Allocate \/ AllocateFails \/ WorkFails \/ Work
              \/ SetDone \/ ExitThread

Next == SifRegisterRpc \/ BindError \/ Bind \/ CallNotInited \/ CallRpc
        \/ SifCallRpcFails \/ ServerStep \/ WorkerStep

Spec == Init /\ [][Next]_vars

(* The server is the only ready thread of its priority.  It leaves the IOP *)
(* to the worker for 100 ms at a time, which is as good as for ever again. *)
FairSpec == Spec /\ WF_vars(ServerStep) /\ SF_vars(WorkerStep) /\ WF_vars(Bind)

------------------------------------------------------------------------------
(* Properties                                                              *)

TypeOK ==
  /\ ee \in {"init", "menu", "waiting"}
  /\ tries \in 0 .. Tries
  /\ MCSP_Inited \in BOOLEAN
  /\ bound \in BOOLEAN
  /\ call \in Ops
  /\ result \in -1 .. 1
  /\ server \in {"absent", "started", "rest", "create", "poll", "asleep",
                 "delete", "reply"}
  /\ worker \in {"none", "check", "work", "end", "leaving", "dormant"}
  /\ done \in BOOLEAN
  /\ ret \in {0, 1}
  /\ heap \in 0 .. Heap
  /\ held \in 0 .. MostNeeded
  /\ calls \in 0 .. MaxCalls
  /\ stray \in Nat /\ failed \in Nat /\ undone \in Nat
  /\ out \in Ends

(* A call is answered by the worker made for it, after its last access to  *)
(* the packet, and none is at work once the server rests.  1 is returned   *)
(* only of a worker that did what was asked; 0 of one that left by goto    *)
(* end, or of a scan that read the whole card without meeting the file; -1 *)
(* only when the call got to no worker (mcsp.c:101, 111-118, 282-319,      *)
(* mcsp_rpc.c:145-163).                                                    *)
OwnAnswer ==
  /\ server = "rest" => worker = "none" /\ held = 0
  /\ ee # "waiting" =>
       /\ result = 1 <=> out = "did"
       /\ result = 0 <=> out = "left" \/ (out = "missed" /\ call = "scan")
       /\ result = -1 <=> out = "none"

(* The memory an idle server has lost is at most four areas for each worker *)
(* that left by goto end, one for each unpatch, and one for each worker    *)
(* that was deleted while it was still leaving (mcsp.c:855-866, 983-985).  *)
MemoryLost ==
  server = "rest" => heap + MostNeeded * failed + undone + stray >= Heap

(* A server that waits for a worker that does not exist waits for ever.    *)
Hung == server \in {"poll", "asleep"} /\ worker = "none"

(* It comes to that only when calls before have used the memory up: the    *)
(* thread id is not looked at (mcsp.c:108-114).                            *)
HungForMemory == Hung => MostNeeded * failed + undone + stray >= Heap

(* A call to a bound server comes back, unless the server hangs.           *)
CallReturns == (ee = "waiting" /\ bound) ~> (ee = "menu" \/ Hung)
==============================================================================

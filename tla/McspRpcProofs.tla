---------------------------- MODULE McspRpcProofs ----------------------------
(***************************************************************************)
(* Proofs about McspRpc: for every amount of memory, number of tries and   *)
(* number of calls, an answer is that of the worker made for the call, and *)
(* memory is lost in no other way than the three MemoryLost names.         *)
(*                                                                         *)
(* The inductive invariant says which worker there can be at each step of  *)
(* the server, what done and ret then say of it, and where every area of   *)
(* the memory is.                                                          *)
(***************************************************************************)
EXTENDS McspRpc, TLAPS

Idle == {"rest", "started", "absent"}

(* A call is under way only for a client that waits and is bound.          *)
Phases ==
  /\ ee \in {"init", "menu"} => server \in Idle
  /\ bound => Registered
  /\ server \notin Idle => bound
  /\ server \in Idle \cup {"create", "reply"} => worker = "none"
  /\ server = "delete" => worker \in {"leaving", "dormant"}

(* done is set by the worker of this call, ret tells how it ended, and     *)
(* result is what ret said.                                                *)
Answers ==
  /\ (server \in {"poll", "asleep"} /\ done) => worker \in {"leaving", "dormant"}
  /\ worker = "work" => ret = 0
  /\ (server = "reply" \/ worker \in {"end", "leaving", "dormant"}) =>
       out # "none" /\ (ret = 1 <=> out = "did")
  /\ out = "missed" => call = "scan"
  /\ ee # "waiting" =>
       result = (IF out = "did" THEN 1 ELSE IF out = "none" THEN -1 ELSE 0)

Stack == IF worker = "none" THEN 0 ELSE 1

Memory ==
  /\ held = (IF worker = "work" THEN Needed(call) ELSE 0)
  /\ heap + held + Stack <= Heap
  /\ heap + held + Stack + MostNeeded * failed + undone + stray >= Heap
  /\ Hung => MostNeeded * failed + undone + stray >= Heap

IInv == TypeOK /\ Phases /\ Answers /\ Memory

LEMMA InitIInv == Init => IInv
<1> SUFFICES ASSUME Init PROVE IInv
  OBVIOUS
<1> USE RpcAssumption DEF RpcAssumption, Init
<1>1. TypeOK
  <2>1. ee \in {"init", "menu", "waiting"} /\ tries \in 0 .. Tries
    BY DEF Ops, MostNeeded
  <2>2. MCSP_Inited \in BOOLEAN /\ bound \in BOOLEAN /\ call \in Ops
    BY DEF Ops, MostNeeded
  <2>3. result \in -1 .. 1 /\ ret \in {0, 1}
    BY DEF Ops, MostNeeded
  <2>4. heap \in 0 .. Heap /\ held \in 0 .. MostNeeded /\ calls \in 0 .. MaxCalls
    BY DEF Ops, MostNeeded
  <2>5. stray \in Nat /\ failed \in Nat /\ undone \in Nat
    BY DEF Ops, MostNeeded
  <2>6. server \in {"absent", "started", "rest"} /\ worker = "none" /\ out \in Ends
    BY DEF Ends
  <2> QED
    BY <2>1, <2>2, <2>3, <2>4, <2>5, <2>6 DEF TypeOK
<1>2. Phases
  BY DEF Phases, Idle, Registered
<1>3. Answers
  BY DEF Answers
<1>4. Memory
  BY DEF Memory, Stack, Hung, MostNeeded
<1> QED
  BY <1>1, <1>2, <1>3, <1>4 DEF IInv

LEMMA NextIInv == IInv /\ [Next]_vars => IInv'
<1> SUFFICES ASSUME IInv, [Next]_vars PROVE IInv'
  OBVIOUS
<1> USE RpcAssumption DEF IInv, TypeOK, Phases, Answers, Memory, Stack, Idle, Needed,
       MostNeeded, Hung, Registered, Ends, eevars, counters
<1>1. CASE SifRegisterRpc
  BY <1>1 DEF SifRegisterRpc
<1>2. CASE BindError
  BY <1>2 DEF BindError
<1>3. CASE Bind
  <2>1. TypeOK'
    <3>1. MCSP_Inited' \in BOOLEAN /\ bound' \in BOOLEAN
      BY <1>3 DEF Bind
    <3>2. done' \in BOOLEAN /\ out' \in Ends
      BY <1>3 DEF Bind
    <3>3. tries' \in 0 .. Tries /\ heap' \in 0 .. Heap /\ calls' \in 0 .. MaxCalls
      BY <1>3 DEF Bind
    <3> QED
      BY <1>3, <3>1, <3>2, <3>3 DEF Bind
  <2>2. Phases'
    BY <1>3 DEF Bind
  <2>3. Answers'
    BY <1>3 DEF Bind
  <2>4. Memory'
    BY <1>3 DEF Bind
  <2> QED
    BY <2>1, <2>2, <2>3, <2>4
<1>4. CASE CallNotInited
  <2>1. TypeOK'
    BY <1>4 DEF CallNotInited
  <2>2. Phases'
    BY <1>4 DEF CallNotInited
  <2>3. Answers'
    BY <1>4 DEF CallNotInited
  <2>4. Memory'
    BY <1>4 DEF CallNotInited
  <2> QED
    BY <2>1, <2>2, <2>3, <2>4
<1>5. CASE CallRpc
  <2>1. TypeOK'
    <3>1. MCSP_Inited' \in BOOLEAN /\ bound' \in BOOLEAN
      BY <1>5 DEF CallRpc, Ops
    <3>2. done' \in BOOLEAN /\ out' \in Ends
      BY <1>5 DEF CallRpc, Ops
    <3>3. tries' \in 0 .. Tries /\ heap' \in 0 .. Heap /\ calls' \in 0 .. MaxCalls
      BY <1>5 DEF CallRpc, Ops
    <3> QED
      BY <1>5, <3>1, <3>2, <3>3 DEF CallRpc, Ops
  <2>2. Phases'
    BY <1>5 DEF CallRpc, Ops
  <2>3. Answers'
    BY <1>5 DEF CallRpc, Ops
  <2>4. Memory'
    BY <1>5 DEF CallRpc, Ops
  <2> QED
    BY <2>1, <2>2, <2>3, <2>4
<1>6. CASE CreateThread
  <2>1. TypeOK'
    <3>1. MCSP_Inited' \in BOOLEAN /\ bound' \in BOOLEAN
      BY <1>6 DEF CreateThread, Thread
    <3>2. done' \in BOOLEAN /\ out' \in Ends
      BY <1>6 DEF CreateThread, Thread
    <3>3. tries' \in 0 .. Tries /\ heap' \in 0 .. Heap /\ calls' \in 0 .. MaxCalls
      BY <1>6 DEF CreateThread, Thread
    <3> QED
      BY <1>6, <3>1, <3>2, <3>3 DEF CreateThread, Thread
  <2>2. Phases'
    BY <1>6 DEF CreateThread, Thread
  <2>3. Answers'
    BY <1>6 DEF CreateThread, Thread
  <2>4. Memory'
    BY <1>6 DEF CreateThread, Thread
  <2> QED
    BY <2>1, <2>2, <2>3, <2>4
<1>7. CASE Poll
  BY <1>7 DEF Poll
<1>8. CASE Wake
  BY <1>8 DEF Wake
<1>9. CASE DeleteThread
  BY <1>9 DEF DeleteThread
<1>10. CASE Reply
  BY <1>10 DEF Reply
<1>11. CASE CheckFails
  BY <1>11 DEF CheckFails, GotoEnd, Step
<1>12. CASE Allocate
  BY <1>12 DEF Allocate, Step, Ops
<1>13. CASE AllocateFails
  BY <1>13 DEF AllocateFails, GotoEnd, Step, Ops
<1>14. CASE WorkFails
  BY <1>14 DEF WorkFails, GotoEnd, Step, Ops
<1>15. CASE Work
  BY <1>15 DEF Work, WentThrough, Step, Returned, Ops
<1>16. CASE SetDone
  BY <1>16 DEF SetDone, Step
<1>17. CASE ExitThread
  BY <1>17 DEF ExitThread, Step
<1>18. CASE SifCallRpcFails
  BY <1>18 DEF SifCallRpcFails, Ops
<1>19. CASE UNCHANGED vars
  BY <1>19 DEF vars
<1> QED
  BY <1>1, <1>2, <1>3, <1>4, <1>5, <1>6, <1>7, <1>8, <1>9, <1>10, <1>11, <1>12,
     <1>13, <1>14, <1>15, <1>16, <1>17, <1>18, <1>19 DEF Next, ServerStep, WorkerStep

THEOREM Inductive == Spec => []IInv
  BY InitIInv, NextIInv, PTL DEF Spec

(* The types of all variables.                                             *)
THEOREM TypeCorrect == Spec => []TypeOK
<1>1. IInv => TypeOK
  BY DEF IInv
<1> QED
  BY <1>1, Inductive, PTL

(* A reply is that of the worker of the call, which is past its last step  *)
(* on the packet: 1 of one that did what was asked, 0 of one that left by  *)
(* goto end and of a scan that missed its file, -1 when the call got to no *)
(* worker (mcsp.c:101, 111-118, 282-319, mcsp_rpc.c:145-163).              *)
THEOREM AnswerIsOwn == Spec => []OwnAnswer
<1>1. IInv => OwnAnswer
  BY DEF IInv, TypeOK, Phases, Answers, Memory, OwnAnswer, Idle, Ends
<1> QED
  BY <1>1, Inductive, PTL

(* An idle server has lost no more than the leaving, failing and unpatching *)
(* workers before cost (mcsp.c:855-866, 983-985).                          *)
THEOREM MemoryAccounted == Spec => []MemoryLost
<1>1. IInv => MemoryLost
  BY RpcAssumption DEF IInv, TypeOK, Phases, Memory, MemoryLost, Idle, Stack, MostNeeded
<1> QED
  BY <1>1, Inductive, PTL

(* The server waits for a worker that could not be created only when such  *)
(* losses have used up the memory (mcsp.c:108-114).                        *)
THEOREM HangsForMemory == Spec => []HungForMemory
<1>1. IInv => HungForMemory
  BY DEF IInv, Memory, HungForMemory
<1> QED
  BY <1>1, Inductive, PTL
==============================================================================

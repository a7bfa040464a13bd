------------------------------ MODULE CardCheck ------------------------------
(***************************************************************************)
(* MemoryCard_Check (main.c 874-1053): which memory card is to be used.    *)
(*                                                                         *)
(* libmc answers one call at a time.  mcGetInfo hands the call to the IOP  *)
(* and returns; the IOP looks at the slot some time later and writes type, *)
(* free clusters and format where the call said; mcSync waits for that, or *)
(* only asks.  mcGetInfo while a call is pending is refused.  The user may *)
(* change the cards between any two of these steps.                        *)
(*                                                                         *)
(* Type, free clusters and format are abstracted to the card they belong   *)
(* to.                                                                     *)
(***************************************************************************)
EXTENDS Integers, FiniteSets

CONSTANTS Ps2Cards,     \* cards of type 2
          OtherCards,   \* cards of another type
          NoCard,       \* an empty slot
          NoCall        \* no call of libmc pending

ASSUME CardAssumption ==
    /\ Ps2Cards \cap OtherCards = {}
    /\ NoCard \notin Ps2Cards \cup OtherCards

Port == {0, 1}
Cards == Ps2Cards \cup OtherCards

VARIABLES slot,         \* the card in each port
          fresh,        \* ports whose card was changed since the last mcGetInfo
          call,         \* the pending call, answered or not
          mc,           \* mc_Type, mc_Free, mc_Format: the card they are of
          info,         \* mc0type... and mc1type...: likewise
          check,        \* where MemoryCard_Check is, and its locals
          still         \* history: ports whose card stayed in place during the check

cardVars == <<slot, fresh, call, mc, info, check, still>>

Answer == {"same", "new", "none"}
NoRet == [p \in Port |-> "none"]
Off == [at |-> "off", port |-> 0, ret |-> NoRet, cnt |-> 0]

CardTypeOK ==
    /\ slot \in [Port -> Cards \cup {NoCard}]
    /\ fresh \subseteq Port
    /\ call = NoCall \/ call \in [port : Port, to : {"mc", "info"}, done : BOOLEAN, ret : Answer]
    /\ mc \in Cards \cup {NoCard}
    /\ info \in [Port -> Cards \cup {NoCard}]
    /\ check \in [at : {"off", "first", "second", "ask", "poll", "found"}, port : Port,
                  ret : [Port -> Answer], cnt : 0..1]
    /\ still \subseteq Port

CardInit ==
    /\ slot \in [Port -> Cards \cup {NoCard}]
    /\ slot[0] = slot[1] => slot[0] = NoCard
    /\ fresh = {p \in Port : slot[p] # NoCard}
    /\ call = NoCall /\ mc = NoCard /\ info = [p \in Port |-> NoCard]
    /\ check = Off /\ still = {}

(***************************************************************************)
(* The user and the IOP.                                                   *)
(***************************************************************************)

\* A card is pulled out or pushed in.
ChangeCard(p) ==
    /\ \E c \in IF slot[p] = NoCard THEN Cards \ {slot[1 - p]} ELSE {NoCard} :
         slot' = [slot EXCEPT ![p] = c]
    /\ fresh' = IF slot[p] = NoCard THEN fresh \cup {p} ELSE fresh
    /\ still' = still \ {p}
    /\ UNCHANGED <<call, mc, info, check>>

\* The IOP carries the pending call out: 0 for the card it knows, -1 for a new
\* one, less without a card; the figures go where the call said.
AnswerCall ==
    /\ call # NoCall /\ ~call.done
    /\ LET p == call.port IN
       /\ call' = [call EXCEPT !.done = TRUE,
                     !.ret = IF slot[p] = NoCard THEN "none" ELSE IF p \in fresh THEN "new" ELSE "same"]
       /\ fresh' = fresh \ {p}
       /\ IF call.to = "mc"
          THEN mc' = slot[p] /\ UNCHANGED info
          ELSE info' = [info EXCEPT ![p] = slot[p]] /\ UNCHANGED mc
    /\ UNCHANGED <<slot, check, still>>

(***************************************************************************)
(* MemoryCard_Check.                                                       *)
(***************************************************************************)

\* mcGetInfo when pending is the call that has not been taken with mcSync yet
GetInfo(pending, p, to) ==
    call' = IF pending = NoCall THEN [port |-> p, to |-> to, done |-> FALSE, ret |-> "none"] ELSE pending

\* 895: the first call; refused when an earlier check left one behind
StartCheck ==
    /\ check.at = "off"
    /\ check' = [Off EXCEPT !.at = "first"]
    /\ GetInfo(call, 0, "info")
    /\ still' = {p \in Port : slot[p] # NoCard}
    /\ UNCHANGED <<slot, fresh, mc, info>>

\* 894-906: each port is asked twice, only the second answer counts
FirstSync ==
    /\ check.at = "first" /\ call # NoCall /\ call.done
    /\ check' = [check EXCEPT !.at = "second"]
    /\ GetInfo(NoCall, check.port, "info")
    /\ UNCHANGED <<slot, fresh, mc, info, still>>

\* 910-962: what the answers of both ports lead to; mcN go to the globals
Decide(ret) ==
    LET present == {p \in Port : ret[p] = "same"} IN
    \/ /\ present = Port
       /\ check' = [check EXCEPT !.at = "ask", !.ret = ret] /\ call' = NoCall /\ UNCHANGED mc
    \/ \E p \in Port :
       /\ present = {p}
       /\ check' = [check EXCEPT !.at = "found", !.port = p, !.ret = ret] /\ call' = NoCall
       /\ mc' = info[p]
    \/ /\ present = {}
       /\ check' = [Off EXCEPT !.at = "poll", !.ret = ret] /\ GetInfo(NoCall, 0, "mc") /\ UNCHANGED mc

SecondSync ==
    /\ check.at = "second" /\ call # NoCall /\ call.done
    /\ LET ret == [check.ret EXCEPT ![check.port] = call.ret] IN
       IF check.port = 0
       THEN /\ check' = [check EXCEPT !.at = "first", !.port = 1, !.ret = ret]
            /\ GetInfo(NoCall, 1, "info") /\ UNCHANGED mc
       ELSE Decide(ret)
    /\ UNCHANGED <<slot, fresh, info, still>>

ChoosePort_OtherFigures(p) ==
    /\ check.at = "ask"
    /\ check' = [check EXCEPT !.at = "found", !.port = p]
    /\ mc' = info[1 - p]
    /\ UNCHANGED <<slot, fresh, call, info, still>>
\* 910-929: two cards, the user says which
ChoosePort(p) ==
    /\ check.at = "ask"
    /\ check' = [check EXCEPT !.at = "found", !.port = p]
    /\ mc' = info[p]
    /\ UNCHANGED <<slot, fresh, call, info, still>>

PollSync_StaysAtOne ==
    /\ check.at = "poll" /\ call # NoCall /\ call.done
    /\ \/ /\ check.cnt = 0
          /\ check' = [check EXCEPT !.cnt = 1] /\ GetInfo(NoCall, check.port, "mc")
       \/ /\ check.cnt = 1 /\ call.ret = "same"
          /\ check' = [check EXCEPT !.at = "found", !.cnt = 0] /\ call' = NoCall
       \/ /\ check.cnt = 1 /\ call.ret # "same"
          /\ check' = [check EXCEPT !.cnt = 0, !.port = 1] /\ GetInfo(NoCall, 1, "mc")
    /\ UNCHANGED <<slot, fresh, mc, info, still>>
\* 962-1000: every second answer of a port counts; without a card, the other port
PollSync ==
    /\ check.at = "poll" /\ call # NoCall /\ call.done
    /\ \/ /\ check.cnt = 0
          /\ check' = [check EXCEPT !.cnt = 1] /\ GetInfo(NoCall, check.port, "mc")
       \/ /\ check.cnt = 1 /\ call.ret = "same"
          /\ check' = [check EXCEPT !.at = "found", !.cnt = 0] /\ call' = NoCall
       \/ /\ check.cnt = 1 /\ call.ret # "same"
          /\ check' = [check EXCEPT !.cnt = 0, !.port = 1 - check.port]
          /\ GetInfo(NoCall, 1 - check.port, "mc")
    /\ UNCHANGED <<slot, fresh, mc, info, still>>

\* 1002-1024: CROSS while polling; the locals go, the call stays pending
Leave ==
    /\ check' = Off /\ info' = [p \in Port |-> NoCard]
    /\ still' = {}
    /\ UNCHANGED <<slot, fresh, call, mc>>
AbortCheck == check.at = "poll" /\ Leave

\* 1045-1051: the port, or -1 for a card that is not a PS2 one
CheckFails == check.at = "found" /\ mc \notin Ps2Cards
CheckEnds == check.at = "found" /\ Leave

Check == FirstSync \/ SecondSync \/ PollSync \/ \E p \in Port : ChoosePort(p)

(***************************************************************************)
(* Properties.                                                             *)
(***************************************************************************)

\* The figures the installation goes by are those of a card that was in the
\* port the check returns (911-955, 972-1000), of the one still there if nobody
\* touched it.
InfoOfPort ==
    check.at = "found" /\ check.port \in still => mc = slot[check.port]

\* A card pushed in while the check waits for one, and left there, is found
\* (962-1000).
CardFound ==
    \A p \in Port : check.at = "poll" /\ slot[p] # NoCard ~> check.at # "poll" \/ slot[p] = NoCard
==============================================================================

----------------------------- MODULE TcpipThread -----------------------------
(***************************************************************************)
(* The tcpip thread: its mailbox (sys_arch.c), the loop that serves the    *)
(* mailbox and the timers (tcpip.c, timers.c), and the callers that post   *)
(* to it and wait for their answer.                                        *)
(*                                                                         *)
(* The timers are a list of differences; the thread's only clock is the    *)
(* time sys_arch_mbox_fetch says it has waited, so what passes while a     *)
(* message is handled is not counted.  Time is a Tick of the kernel (1 ms, *)
(* configTICK_RATE_HZ); waited and age are ticks since the thread began to *)
(* wait and since a timer was set, not counted beyond Longest.             *)
(*                                                                         *)
(* Abstracted: TCP is what the timer's bookkeeping and the callers see of  *)
(* it, a control block per caller and a number of control blocks without   *)
(* one (closing, in TIME-WAIT; MaxOrphans stands for that many and more).  *)
(* A sys_timeout that finds no memory returns with no timer set: its       *)
(* assertion is compiled out (LWIP_NOASSERT), and no caller is told.  The  *)
(* timer is lost for good: a cyclic one is set again only by itself, and   *)
(* the TCP timer's flag says that it is on.                                *)
(*                                                                         *)
(* Left out: other failed allocations, each of which is an error at once;  *)
(* sys_untimeout, which nothing in this build calls.                       *)
(***************************************************************************)
EXTENDS Integers, Sequences, SequencesExt, FiniteSetsExt

CONSTANTS
  Callers,      \* application tasks
  Cyclic,       \* the timers sys_timeouts_init sets, in its order
  Period,       \* msecs of each timer, the TCP timer's included
  MboxSize,     \* TCPIP_MBOX_SIZE
  MaxTries,     \* runs of the TCP timer before a connection attempt ends
  MaxOrphans,   \* control blocks without a caller (bound)
  MayFail       \* the timers for which there may be no memory

Tcp == "tcp"
Timers == ToSet(Cyclic) \cup {Tcp}

ASSUME ThreadAssumption ==
  /\ IsFiniteSet(Callers)
  /\ Cyclic \in Seq(ToSet(Cyclic)) /\ IsInjective(Cyclic)
  /\ Period \in [Timers -> Nat \ {0}] /\ Tcp \notin ToSet(Cyclic)
  /\ MboxSize \in Nat \ {0} /\ MaxTries \in Nat \ {0} /\ MaxOrphans \in Nat
  /\ MayFail \subseteq Timers

VARIABLES
  mbox,         \* messages in the mailbox
  thr,          \* where the thread is
  msg,          \* the message, or the timer, at hand
  waited,       \* ticks since sys_arch_mbox_fetch read xStartTime
  list,         \* next_timeout: timer, time after the one before, age
  active,       \* tcpip_tcp_timer_active
  pcb, tries,   \* the caller's control block, and how often TCP has tried
  orphans,      \* control blocks no caller has
  app, sem,     \* what each caller is doing; its op_completed semaphore
  lost          \* history: the timers for which there was no memory

vars == <<mbox, thr, msg, waited, list, active, pcb, tries, orphans, app, sem, lost>>
callers == <<app, sem>>
tcp == <<active, pcb, tries, orphans>>

Longest == Max({Period[h] : h \in Timers})
NoMsg == [type |-> "none"]
Ops == {"connect", "write", "close", "other"}

-----------------------------------------------------------------------------
(* The list of timers.                                                     *)

(* When the k-th timer of l is due, from now.                              *)
Due(l, k) ==
  LET due[i \in 0..Len(l)] == IF i = 0 THEN 0 ELSE due[i - 1] + l[i].time
  IN due[k]

(* sys_timeout: the new timer comes after all that are due no later, and   *)
(* the one behind it counts from it.                                       *)
SysTimeout(l, h) ==
  LET k == Min({i \in 0..Len(l) : i = Len(l) \/ Due(l, i + 1) > Period[h]})
      shorter == IF k = Len(l) THEN l
                 ELSE [l EXCEPT ![k + 1].time = Due(l, k + 1) - Period[h]]
  IN InsertAt(shorter, k + 1, [timer |-> h, time |-> Period[h] - Due(l, k), age |-> 0])

(* sys_timeout may find no memory: then there is no timer.                 *)
SetTimer(h) == \/ list' = SysTimeout(list, h) /\ UNCHANGED lost
               \/ h \in MayFail /\ lost' = lost \cup {h} /\ UNCHANGED list

(* sys_timeouts_init sets the timers of Cyclic one after the other, those  *)
(* in none without success.                                                *)
SysTimeoutsInit(none) ==
  LET set[i \in 0..Len(Cyclic)] == IF i = 0 THEN <<>>
                                   ELSE IF Cyclic[i] \in none THEN set[i - 1]
                                   ELSE SysTimeout(set[i - 1], Cyclic[i])
  IN set[Len(Cyclic)]

(* tcp_timer_needed, on the registration of a control block.               *)
TcpTimerNeeded ==
  /\ active' = TRUE
  /\ IF active THEN UNCHANGED <<list, lost>> ELSE SetTimer(Tcp)

-----------------------------------------------------------------------------
(* The thread.                                                             *)

Pop == /\ msg' = [type |-> "timer", timer |-> Head(list).timer]
       /\ list' = Tail(list) /\ thr' = "fire"

(* sys_timeouts_mbox_fetch: a timer that is due goes off with no look at   *)
(* the mailbox; otherwise the thread waits until the first is due.         *)
Fetch ==
  /\ thr = "fetch"
  /\ IF list # <<>> /\ Head(list).time = 0
     THEN Pop /\ UNCHANGED waited
     ELSE thr' = "wait" /\ waited' = 0 /\ UNCHANGED <<msg, list>>
  /\ UNCHANGED <<mbox, lost, tcp, callers>>

(* xQueueReceive looks for a message before it looks at the time.          *)
Receive ==
  /\ thr = "wait" /\ mbox # <<>>
  /\ msg' = Head(mbox) /\ mbox' = Tail(mbox) /\ thr' = "got"
  /\ UNCHANGED <<waited, list, lost, tcp, callers>>

TimedOut ==
  /\ thr = "wait" /\ mbox = <<>> /\ list # <<>> /\ waited >= Head(list).time
  /\ Pop /\ UNCHANGED <<mbox, waited, lost, tcp, callers>>

Count_AtLeastOne ==     \* a fault: a wait of no tick counts as one here too
  /\ thr = "got" /\ thr' = "run"
  /\ list' = IF list = <<>> THEN list
             ELSE [list EXCEPT ![1].time = Max({@ - Max({waited, 1}), 0})]
  /\ UNCHANGED <<mbox, msg, waited, lost, tcp, callers>>
Count_Wraps ==          \* a fault: unsigned, what is less than nothing is a lot
  /\ thr = "got" /\ thr' = "run"
  /\ list' = IF list = <<>> THEN list
             ELSE [list EXCEPT ![1].time = IF @ < waited THEN Longest ELSE @ - waited]
  /\ UNCHANGED <<mbox, msg, waited, lost, tcp, callers>>
Count_NotAtAll ==       \* a fault: the wait is not taken off
  thr = "got" /\ thr' = "run" /\ UNCHANGED <<mbox, msg, waited, list, lost, tcp, callers>>
(* The time waited comes off the first timer.                              *)
Count ==
  /\ thr = "got" /\ thr' = "run"
  /\ list' = IF list = <<>> THEN list ELSE [list EXCEPT ![1].time = Max({@ - waited, 0})]
  /\ UNCHANGED <<mbox, msg, waited, lost, tcp, callers>>

Signal(S) == sem' = [t \in Callers |-> IF t \in S THEN 1 ELSE sem[t]]

(* A netconn function whose answer comes later leaves its control block in *)
(* one of these states; with the answer it goes to the state behind.  In   *)
(* "zero" the peer's window is shut and TCP probes it, with no limit; in   *)
(* the others it tries again, and counts.                                  *)
Pending == {"syn", "write", "zero", "fin"}
Done(state) == IF state = "fin" THEN "none" ELSE "open"
Wait(t, state) == /\ pcb' = [pcb EXCEPT ![t] = state] /\ tries' = [tries EXCEPT ![t] = 0]
                  /\ UNCHANGED <<orphans, sem>>

(* TCPIP_MSG_API: the netconn functions of api_msg.c.  A connect answers   *)
(* when it is connected or has failed, a write or a close at once or when  *)
(* TCP has had room for its data or for its FIN, the others at once.       *)
DoConnect_AckAtOnce(t) ==       \* a fault: answers before the connection is there
  /\ pcb' = [pcb EXCEPT ![t] = "syn"] /\ tries' = [tries EXCEPT ![t] = 0]
  /\ TcpTimerNeeded /\ Signal({t}) /\ UNCHANGED orphans
DoConnect(t) == \/ Wait(t, "syn") /\ TcpTimerNeeded
                \/ Signal({t}) /\ UNCHANGED <<list, lost, tcp>>
DoWrite(t) == \/ /\ pcb[t] = "open" /\ UNCHANGED <<active, list, lost>>
                 /\ Wait(t, "write") \/ Wait(t, "zero")
              \/ Signal({t}) /\ UNCHANGED <<list, lost, tcp>>
DoClose(t) ==
  /\ UNCHANGED <<active, list, lost>>
  /\ \/ pcb[t] = "open" /\ Wait(t, "fin")
     \/ /\ pcb[t] = "open" /\ pcb' = [pcb EXCEPT ![t] = "none"] /\ UNCHANGED tries
        /\ orphans' = Min({orphans + 1, MaxOrphans}) /\ Signal({t})
     \/ pcb[t] = "none" /\ Signal({t}) /\ UNCHANGED <<pcb, tries, orphans>>
DoOther(t) == Signal({t}) /\ UNCHANGED <<list, lost, tcp>>

(* TCPIP_MSG_INPKT: what a segment may do to the control blocks: nothing;  *)
(* the answer to a pending function; a reset; the window shut or open; the *)
(* end of one that has no caller, or a new one for a listening port.       *)
Answered(t) ==
  /\ pcb[t] \in Pending /\ Signal({t}) /\ pcb' = [pcb EXCEPT ![t] = Done(@)]
  /\ orphans' = IF pcb[t] = "fin" THEN Min({orphans + 1, MaxOrphans}) ELSE orphans
Reset(t) ==
  /\ pcb[t] # "none" /\ pcb' = [pcb EXCEPT ![t] = "none"] /\ UNCHANGED orphans
  /\ IF pcb[t] \in Pending THEN Signal({t}) ELSE UNCHANGED sem
Window(t) ==
  /\ pcb[t] \in {"write", "zero"} /\ UNCHANGED <<orphans, sem>>
  /\ pcb' = [pcb EXCEPT ![t] = IF @ = "write" THEN "zero" ELSE "write"]
Input ==
  /\ UNCHANGED tries
  /\ \/ UNCHANGED <<pcb, orphans, sem, list, lost, active>>
     \/ (\E t \in Callers : Answered(t) \/ Reset(t) \/ Window(t)) /\ UNCHANGED <<list, lost, active>>
     \/ orphans > 0 /\ orphans' = orphans - 1 /\ UNCHANGED <<pcb, sem, list, lost, active>>
     \/ /\ orphans < MaxOrphans /\ orphans' = orphans + 1 /\ TcpTimerNeeded
        /\ UNCHANGED <<pcb, sem>>

Handle ==
  /\ thr = "run" /\ thr' = "fetch" /\ msg' = NoMsg
  /\ CASE msg.type = "connect" -> DoConnect(msg.from)
       [] msg.type = "write" -> DoWrite(msg.from)
       [] msg.type = "close" -> DoClose(msg.from)
       [] msg.type = "other" -> DoOther(msg.from)
       [] msg.type = "packet" -> Input
       [] msg.type = "callback" -> UNCHANGED <<list, lost, tcp, sem>>
  /\ UNCHANGED <<mbox, waited, app>>

(* tcp_tmr: a pending function ends when TCP has tried often enough, a     *)
(* connection may be given up, control blocks without a caller end when    *)
(* they have waited long enough; and poll_tcp may find the room that a     *)
(* write or a close waits for.  What is left without a caller is chosen.   *)
Trying == {t \in Callers : pcb[t] \in Pending \ {"zero"}}
Over == {t \in Trying : tries[t] + 1 = MaxTries}
Polled == SUBSET {t \in Callers : pcb[t] \in {"write", "zero", "fin"}}
GivenUp == SUBSET {t \in Callers : pcb[t] = "open"}
Left(polled) == 0..Min({MaxOrphans, orphans + Cardinality({t \in polled : pcb[t] = "fin"})})
TcpTmr_Silent(gone, polled, left) ==    \* a fault: ends a function and does not tell
  /\ tries' = [t \in Callers |-> IF t \in Trying THEN (tries[t] + 1) % MaxTries ELSE tries[t]]
  /\ pcb' = [t \in Callers |-> IF t \in polled THEN Done(pcb[t])
                                ELSE IF t \in gone \cup Over THEN "none" ELSE pcb[t]]
  /\ Signal(polled) /\ orphans' = left
TcpTmr(gone, polled, left) ==
  /\ tries' = [t \in Callers |-> IF t \in Trying THEN (tries[t] + 1) % MaxTries ELSE tries[t]]
  /\ pcb' = [t \in Callers |-> IF t \in polled THEN Done(pcb[t])
                                ELSE IF t \in gone \cup Over THEN "none" ELSE pcb[t]]
  /\ Signal(Over \cup polled) /\ orphans' = left

TcpTimer_FlagKept ==    \* a fault: the flag stays when the timer goes
  \E gone \in GivenUp, polled \in Polled : \E left \in Left(polled) :
    /\ TcpTmr(gone, polled, left) /\ UNCHANGED active
    /\ IF left > 0 \/ \E t \in Callers : pcb'[t] # "none"
       THEN SetTimer(Tcp) ELSE UNCHANGED <<list, lost>>
(* tcpip_tcp_timer sets itself again while there are control blocks.       *)
TcpTimer ==
  \E gone \in GivenUp, polled \in Polled : \E left \in Left(polled) :
    /\ TcpTmr(gone, polled, left)
    /\ IF left > 0 \/ \E t \in Callers : pcb'[t] # "none"
       THEN SetTimer(Tcp) /\ UNCHANGED active
       ELSE active' = FALSE /\ UNCHANGED <<list, lost>>

(* arp_timer, dhcp_timer_coarse, dhcp_timer_fine, igmp_timer.              *)
CyclicTimer == SetTimer(msg.timer) /\ UNCHANGED <<tcp, sem>>

RunTimer ==
  /\ thr = "fire" /\ thr' = "fetch" /\ msg' = NoMsg
  /\ IF msg.timer = Tcp THEN TcpTimer ELSE CyclicTimer
  /\ UNCHANGED <<mbox, waited, app>>

Thread == Fetch \/ Receive \/ TimedOut \/ Count \/ Handle \/ RunTimer

-----------------------------------------------------------------------------
(* The callers.                                                            *)

(* netconn functions: one at a time in each task.                          *)
Begin(t, o) ==
  /\ app[t] = "idle"
  /\ o = "connect" => pcb[t] = "none"
  /\ o \in {"write", "close"} => pcb[t] = "open"
  /\ app' = [app EXCEPT ![t] = o]
  /\ UNCHANGED <<mbox, thr, msg, waited, list, lost, tcp, sem>>

(* sys_mbox_post waits for room in the mailbox; then tcpip_send_msg_wait_  *)
(* sem waits for the semaphore.  tcpip_callback waits for nothing more.    *)
Post(t) ==
  /\ app[t] \in Ops \cup {"callback"} /\ Len(mbox) < MboxSize
  /\ mbox' = Append(mbox, [type |-> app[t], from |-> t])
  /\ app' = [app EXCEPT ![t] = IF @ = "callback" THEN "idle" ELSE "wait"]
  /\ UNCHANGED <<thr, msg, waited, list, lost, tcp, sem>>

Return(t) ==
  /\ app[t] = "wait" /\ sem[t] = 1
  /\ app' = [app EXCEPT ![t] = "idle"] /\ sem' = [sem EXCEPT ![t] = 0]
  /\ UNCHANGED <<mbox, thr, msg, waited, list, lost, tcp>>

(* tcpip_input from the receive task: sys_mbox_trypost, and a frame for    *)
(* which there is no room is dropped.                                      *)
Packet ==
  /\ Len(mbox) < MboxSize /\ mbox' = Append(mbox, [type |-> "packet"])
  /\ UNCHANGED <<thr, msg, waited, list, lost, tcp, callers>>

Tick ==
  /\ waited' = IF thr \in {"wait", "got"} THEN Min({waited + 1, Longest}) ELSE waited
  /\ list' = [i \in 1..Len(list) |-> [list[i] EXCEPT !.age = Min({@ + 1, Longest})]]
  /\ UNCHANGED <<mbox, thr, msg, lost, tcp, callers>>

-----------------------------------------------------------------------------
Init ==
  /\ mbox = <<>> /\ thr = "fetch" /\ msg = NoMsg /\ waited = 0
  /\ lost \in SUBSET (MayFail \cap ToSet(Cyclic)) /\ list = SysTimeoutsInit(lost)
  /\ active = FALSE /\ orphans = 0
  /\ pcb = [t \in Callers |-> "none"] /\ tries = [t \in Callers |-> 0]
  /\ app = [t \in Callers |-> "idle"] /\ sem = [t \in Callers |-> 0]

Next == \/ Thread \/ Packet \/ Tick
        \/ \E t \in Callers : Post(t) \/ Return(t)
        \/ \E t \in Callers, o \in Ops \cup {"callback"} : Begin(t, o)

(* The thread has the highest priority.  The kernel wakes a task that      *)
(* waits for room when there is room (Post).  And it is assumed that the   *)
(* thread is not so busy that from some time on every wait is over before  *)
(* the next tick: the timers' clock, which is the time waited, would stand *)
(* still.                                                                  *)
Spec == /\ Init /\ [][Next]_vars
        /\ WF_vars(Thread) /\ SF_vars(thr = "wait" /\ Tick)
        /\ \A t \in Callers : SF_vars(Post(t)) /\ WF_vars(Return(t))

-----------------------------------------------------------------------------
(* Properties.                                                             *)

(* The differences of the list are unsigned: none may go below 0.          *)
TypeOK ==
  /\ Len(mbox) <= MboxSize
  /\ thr \in {"fetch", "wait", "got", "run", "fire"} /\ waited \in 0..Longest
  /\ \A i \in 1..Len(list) : /\ list[i].timer \in Timers /\ list[i].time \in 0..Longest
                             /\ list[i].age \in 0..Longest
  /\ active \in BOOLEAN /\ orphans \in 0..MaxOrphans /\ lost \subseteq Timers
  /\ \A t \in Callers : /\ pcb[t] \in Pending \cup {"none", "open"} /\ tries[t] \in 0..MaxTries - 1
                        /\ app[t] \in Ops \cup {"idle", "callback", "wait"} /\ sem[t] \in {0, 1}

(* The TCP timer is in the list, once, or about to be set again, exactly   *)
(* when its flag says so, as long as there was memory for it; and the flag *)
(* is up whenever there is a control block that needs the timer.  It goes  *)
(* up and down in different handlers.  Without memory once, the flag stays *)
(* up for ever, and there is no timer.                                     *)
TcpTimerOn ==
  LET set == {i \in 1..Len(list) : list[i].timer = Tcp}
      now == thr = "fire" /\ msg.timer = Tcp
  IN /\ active => IF now \/ Tcp \in lost THEN set = {} ELSE \E i \in set : set = {i}
     /\ ~active => set = {} /\ ~now /\ orphans = 0 /\ \A t \in Callers : pcb[t] = "none"
     /\ Tcp \in lost => active /\ ~now

(* A semaphore that is up belongs to the call its task is waiting in, and  *)
(* that call is over: no signal is left over for the next call, which      *)
(* would return before its function has run.                               *)
SignalsMatch ==
  \A t \in Callers : sem[t] = 1 =>
    /\ app[t] = "wait" /\ pcb[t] \notin Pending
    /\ \A i \in 1..Len(mbox) : mbox[i].type \in Ops => mbox[i].from # t
    /\ thr \in {"got", "run"} /\ msg.type \in Ops => msg.from # t

(* No timer goes off before its time, in ticks of the kernel.              *)
NeverEarly == [][Len(list') < Len(list) => Head(list).age >= Period[Head(list).timer]]_vars

(* The list of differences keeps the promise of the timers.                *)
Remains(h) == LET set == {i \in 1..Len(list) : list[i].timer = h}
              IN IF set = {} THEN -1 ELSE Due(list, Min(set))
Queue == INSTANCE TimerQueue WITH rem <- [h \in Timers |-> Remains(h)], AtStart <- ToSet(Cyclic)
KeepsTime == Queue!Spec

(* Every call of a netconn function returns: by its own answer, a segment  *)
(* from the peer, or a TCP timer that still runs.  A peer with its window  *)
(* shut can hold a call, a write, for as long as it likes; and a TCP timer *)
(* that is lost leaves a call whose answer comes later waiting for its     *)
(* peer.                                                                   *)
CallsReturn ==
  \A t \in Callers : app[t] \in Ops ~>
    app[t] = "idle" \/ pcb[t] = "zero" \/ (Tcp \in lost /\ pcb[t] \in Pending)

(* Messages never keep the periodic timers from going off, as long as the  *)
(* thread has to wait over a tick again and again; only a timer for which  *)
(* there was no memory when it was to be set again stops.                  *)
TimersGoOn == \A h \in ToSet(Cyclic) : []<>((thr = "fire" /\ msg.timer = h) \/ h \in lost)
=============================================================================

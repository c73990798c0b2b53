-------------------------- MODULE TcpipThreadProofs --------------------------
(***************************************************************************)
(* Proofs about TcpipThread, for every number of callers, every mailbox    *)
(* and every set of timers.                                                *)
(*                                                                         *)
(* The calls: the signals of the netconn functions match their calls       *)
(* (SignalsMatch).  It is not inductive: it says nothing of a call that    *)
(* has not been answered yet.  CallInv does: a call that waits is in one   *)
(* place, a message in the mailbox, the message at hand, a control block   *)
(* with its answer pending, or the semaphore; and a task that does not     *)
(* wait has nothing in any of them.                                        *)
(*                                                                         *)
(* The timers: the TCP timer is on when it must be (TcpTimerOn), no timer  *)
(* goes off early (NeverEarly), and the list of differences implements a   *)
(* queue in which every timer has its own time (KeepsTime).  TimerInv is   *)
(* the invariant: no timer is in the list twice, nor in it while it goes   *)
(* off; and each is at least as old as its period, less what remains of    *)
(* it, plus what the thread has waited and not yet taken off.  When a      *)
(* timer is due is a sum over the list (Due), so the lemmas about the list *)
(* rest on induction over its length, from the well-foundedness of the     *)
(* natural numbers.                                                        *)
(***************************************************************************)
EXTENDS TcpipThread, SequenceTheorems, FiniteSetTheorems, WellFoundedInduction, TLAPS

-----------------------------------------------------------------------------
(* The calls.                                                              *)
Messages == [type : Ops \cup {"callback"}, from : Callers] \cup [type : {"packet"}]

Types ==
  /\ mbox \in Seq(Messages)
  /\ thr \in {"fetch", "wait", "got", "run", "fire"}
  /\ thr \in {"got", "run"} => msg \in Messages
  /\ pcb \in [Callers -> Pending \cup {"none", "open"}]
  /\ app \in [Callers -> Ops \cup {"idle", "callback", "wait"}]
  /\ sem \in [Callers -> {0, 1}]

IsCall(m, t) == m.type \in Ops /\ m.from = t
InHand(t) == thr \in {"got", "run"} /\ IsCall(msg, t)
InTcp(t) == pcb[t] \in Pending

(* At most one message of the mailbox is t's call, and then it is nowhere  *)
(* else.                                                                   *)
Posted(t) ==
  \A i \in 1..Len(mbox) : IsCall(mbox[i], t) =>
    /\ app[t] = "wait" /\ sem[t] = 0 /\ ~InHand(t) /\ ~InTcp(t)
    /\ \A j \in 1..Len(mbox) : IsCall(mbox[j], t) => i = j
Taken(t) == InHand(t) => app[t] = "wait" /\ sem[t] = 0 /\ ~InTcp(t)
Waiting(t) == InTcp(t) => app[t] = "wait" /\ sem[t] = 0
Signalled(t) == sem[t] = 1 => app[t] = "wait"

Calls(t) == Posted(t) /\ Taken(t) /\ Waiting(t) /\ Signalled(t)
CallInv == Types /\ \A t \in Callers : Calls(t)

-----------------------------------------------------------------------------
(* CallInv holds at the start: nobody calls.                               *)
LEMMA CallInit == Init => CallInv
<1> SUFFICES ASSUME Init PROVE CallInv
  OBVIOUS
<1>1. Types
  <2>1. mbox \in Seq(Messages)
    BY EmptySeq DEF Init
  <2> QED BY <2>1 DEF Init, Types
<1>2. \A t \in Callers : Calls(t)
  BY DEF Init, Calls, Posted, Taken, Waiting, Signalled, InHand, InTcp, Pending
<1> QED BY <1>1, <1>2 DEF CallInv

(* A step that leaves the mailbox alone and the message at hand, or drops  *)
(* it, and a task's own variables, leaves its call where it is.            *)
LEMMA Undisturbed ==
  ASSUME NEW t \in Callers, Calls(t), mbox' = mbox,
         thr' \in {"got", "run"} => thr \in {"got", "run"} /\ msg' = msg,
         pcb'[t] = pcb[t], app'[t] = app[t], sem'[t] = sem[t]
  PROVE  Calls(t)'
BY DEF Calls, Posted, Taken, Waiting, Signalled, InHand, InTcp, IsCall

(* A task whose call is nowhere but in the semaphore, or has just gone     *)
(* back to TCP, is settled.                                                *)
LEMMA Settled ==
  ASSUME NEW t \in Callers, Types',
         \A i \in 1..Len(mbox') : ~IsCall(mbox'[i], t),
         ~InHand(t)', InTcp(t)' => app'[t] = "wait" /\ sem'[t] = 0,
         sem'[t] = 1 => app'[t] = "wait"
  PROVE  Calls(t)'
BY DEF Calls, Posted, Taken, Waiting, Signalled

-----------------------------------------------------------------------------
(* The thread's steps that only move a message or a timer.                 *)
LEMMA ReceiveStep == CallInv /\ Receive => CallInv'
<1> SUFFICES ASSUME CallInv, Receive PROVE CallInv'
  OBVIOUS
<1> USE DEF CallInv
<1>1. /\ mbox \in Seq(Messages) /\ mbox # <<>>
      /\ thr = "wait" /\ thr' = "got" /\ msg' = Head(mbox) /\ mbox' = Tail(mbox)
      /\ UNCHANGED <<pcb, app, sem>>
  BY DEF Receive, Types, tcp, callers
<1>2. PICK n \in Nat : Len(mbox) = n + 1
  <2>1. Len(mbox) \in Nat /\ Len(mbox) # 0
    BY <1>1, EmptySeq
  <2> QED BY <2>1
<1>3. /\ msg' = mbox[1] /\ msg' \in Messages /\ mbox' \in Seq(Messages) /\ Len(mbox') = n
      /\ \A i \in 1..n : mbox'[i] = mbox[i + 1]
  BY <1>1, <1>2
<1>4. Types'
  BY <1>1, <1>3 DEF Types
<1>5. ASSUME NEW t \in Callers PROVE Calls(t)'
  <2>1. Posted(t) /\ Taken(t) /\ Waiting(t) /\ Signalled(t)
    BY DEF Calls
  <2>2. Taken(t)'
    BY <2>1, <1>1, <1>2, <1>3 DEF Taken, Posted, InHand, InTcp, IsCall
  <2>3. Posted(t)'
    <3> SUFFICES ASSUME NEW i \in 1..n, IsCall(mbox'[i], t)
                 PROVE  /\ app'[t] = "wait" /\ sem'[t] = 0 /\ ~InHand(t)' /\ ~InTcp(t)'
                        /\ \A j \in 1..n : IsCall(mbox'[j], t) => i = j
      BY <1>3 DEF Posted
    <3>1. i + 1 \in 1..Len(mbox) /\ IsCall(mbox[i + 1], t) /\ 1 \in 1..Len(mbox)
      BY <1>2, <1>3
    <3>2. ~IsCall(msg', t)
      BY <3>1, <2>1, <1>3 DEF Posted
    <3>3. \A j \in 1..n : IsCall(mbox'[j], t) => i = j
      <4> SUFFICES ASSUME NEW j \in 1..n, IsCall(mbox'[j], t) PROVE i = j
        OBVIOUS
      <4>1. j + 1 \in 1..Len(mbox) /\ IsCall(mbox[j + 1], t)
        BY <1>2, <1>3
      <4>2. i + 1 = j + 1
        BY <4>1, <3>1, <2>1 DEF Posted
      <4> QED BY <4>2
    <3>4. app'[t] = "wait" /\ sem'[t] = 0 /\ ~InTcp(t)'
      BY <3>1, <2>1, <1>1 DEF Posted, InTcp
    <3> QED BY <3>2, <3>3, <3>4 DEF InHand, IsCall
  <2>4. Waiting(t)' /\ Signalled(t)'
    BY <2>1, <1>1 DEF Waiting, Signalled, InTcp
  <2> QED BY <2>2, <2>3, <2>4 DEF Calls
<1> QED BY <1>4, <1>5
(* The steps of the thread that leave mailbox, control blocks and tasks    *)
(* alone: the message at hand stays at hand, or there is none.             *)
LEMMA QuietStep ==
  ASSUME CallInv, mbox' = mbox, UNCHANGED <<pcb, app, sem>>,
         thr' \in {"fetch", "wait", "got", "run", "fire"},
         thr' \in {"got", "run"} => thr \in {"got", "run"} /\ msg' = msg
  PROVE  CallInv'
<1>1. Types'
  BY DEF CallInv, Types
<1>2. ASSUME NEW t \in Callers PROVE Calls(t)'
  <2>1. Calls(t)
    BY DEF CallInv
  <2> QED BY <2>1, Undisturbed
<1> QED BY <1>1, <1>2 DEF CallInv

(* A step of the thread that ends with nothing at hand and changes control *)
(* blocks and semaphores only: it is enough to look at one caller at a     *)
(* time, who is either left alone or settled.                              *)
LEMMA HandledStep ==
  ASSUME CallInv, mbox' = mbox, app' = app, thr' = "fetch", Types',
         \A t \in Callers : \/ pcb'[t] = pcb[t] /\ sem'[t] = sem[t]
                            \/ /\ InHand(t) \/ pcb[t] \in Pending
                               /\ pcb'[t] \in Pending => sem'[t] = 0
                            \/ pcb'[t] \notin Pending /\ sem'[t] = sem[t]
  PROVE  CallInv'
<1>1. ASSUME NEW t \in Callers PROVE Calls(t)'
  <2>1. /\ Calls(t) /\ Posted(t) /\ Taken(t) /\ Waiting(t) /\ Signalled(t)
    BY DEF CallInv, Calls
  <2>2. ~InHand(t)'
    BY DEF InHand
  <2>3. CASE pcb'[t] = pcb[t] /\ sem'[t] = sem[t]
    BY <2>1, <2>3, Undisturbed
  <2>4. CASE (InHand(t) \/ pcb[t] \in Pending) /\ (pcb'[t] \in Pending => sem'[t] = 0)
    <3>1. app[t] = "wait"
      BY <2>1, <2>4 DEF Taken, Waiting, InTcp
    <3>2. \A i \in 1..Len(mbox) : ~IsCall(mbox[i], t)
      BY <2>1, <2>4 DEF Posted, InTcp
    <3>3. \A i \in 1..Len(mbox') : ~IsCall(mbox'[i], t)
      BY <3>2
    <3>4. app'[t] = "wait"
      BY <3>1
    <3> QED BY <2>2, <2>4, <3>3, <3>4, Settled DEF InTcp
  <2>5. CASE pcb'[t] \notin Pending /\ sem'[t] = sem[t]
    <3>1. Posted(t)' /\ Taken(t)' /\ Waiting(t)' /\ Signalled(t)'
      BY <2>1, <2>2, <2>5 DEF Posted, Taken, Waiting, Signalled, IsCall, InTcp
    <3> QED BY <3>1 DEF Calls
  <2> QED BY <2>3, <2>4, <2>5
<1> QED BY <1>1 DEF CallInv

-----------------------------------------------------------------------------
(* The netconn functions.                                                  *)
LEMMA PendingStates == /\ "none" \notin Pending /\ "open" \notin Pending
                       /\ {"syn", "write", "zero", "fin"} = Pending
                       /\ \A s : Done(s) \in {"none", "open"}
BY DEF Pending, Done

(* What the function of a call at hand may do: answer, or leave the answer *)
(* to TCP.                                                                 *)
LEMMA CallHandled ==
  ASSUME CallInv, NEW t \in Callers, InHand(t),
         \/ DoConnect(t) \/ DoWrite(t) \/ DoClose(t) \/ DoOther(t)
  PROVE  /\ pcb' \in [Callers -> Pending \cup {"none", "open"}]
         /\ sem' \in [Callers -> {0, 1}]
         /\ pcb'[t] \in Pending => sem'[t] = 0
         /\ \A u \in Callers \ {t} : pcb'[u] = pcb[u] /\ sem'[u] = sem[u]
<1>1. /\ pcb \in [Callers -> Pending \cup {"none", "open"}] /\ sem \in [Callers -> {0, 1}]
      /\ sem[t] = 0 /\ pcb[t] \notin Pending
  BY DEF CallInv, Types, Calls, Taken, InTcp
<1>2. ASSUME NEW s \in Pending, Wait(t, s)
      PROVE  /\ sem' = sem /\ pcb' \in [Callers -> Pending \cup {"none", "open"}]
             /\ \A u \in Callers \ {t} : pcb'[u] = pcb[u]
  BY <1>1, <1>2 DEF Wait
<1>3. ASSUME Signal({t})
      PROVE  sem' \in [Callers -> {0, 1}] /\ \A u \in Callers \ {t} : sem'[u] = sem[u]
  BY <1>1, <1>3 DEF Signal
<1>4. CASE \E s \in Pending : Wait(t, s)
  BY <1>1, <1>2, <1>4
<1>5. CASE Signal({t}) /\ pcb' = pcb
  BY <1>1, <1>3, <1>5
<1>6. CASE Signal({t}) /\ pcb' = [pcb EXCEPT ![t] = "none"]
  BY <1>1, <1>3, <1>6, PendingStates
<1>7. CASE DoConnect(t)
  BY <1>4, <1>5, <1>7, PendingStates DEF DoConnect, tcp
<1>8. CASE DoWrite(t)
  BY <1>4, <1>5, <1>8, PendingStates DEF DoWrite, tcp
<1>9. CASE DoClose(t)
  BY <1>4, <1>5, <1>6, <1>9, PendingStates DEF DoClose
<1>10. CASE DoOther(t)
  BY <1>5, <1>10 DEF DoOther, tcp
<1> QED BY <1>7, <1>8, <1>9, <1>10
(* What a segment may do.                                                  *)
LEMMA InputHandled ==
  ASSUME CallInv, Input
  PROVE  /\ pcb' \in [Callers -> Pending \cup {"none", "open"}]
         /\ sem' \in [Callers -> {0, 1}]
         /\ \A t \in Callers : \/ pcb'[t] = pcb[t] /\ sem'[t] = sem[t]
                               \/ pcb[t] \in Pending /\ (pcb'[t] \in Pending => sem'[t] = 0)
                               \/ pcb'[t] \notin Pending /\ sem'[t] = sem[t]
<1> DEFINE Fine == /\ pcb' \in [Callers -> Pending \cup {"none", "open"}]
                   /\ sem' \in [Callers -> {0, 1}]
                   /\ \A t \in Callers : \/ pcb'[t] = pcb[t] /\ sem'[t] = sem[t]
                                         \/ pcb[t] \in Pending /\ (pcb'[t] \in Pending => sem'[t] = 0)
                                         \/ pcb'[t] \notin Pending /\ sem'[t] = sem[t]
<1>1. /\ pcb \in [Callers -> Pending \cup {"none", "open"}] /\ sem \in [Callers -> {0, 1}]
      /\ \A t \in Callers : pcb[t] \in Pending => sem[t] = 0
  BY DEF CallInv, Types, Calls, Waiting, InTcp
<1>2. ASSUME UNCHANGED <<pcb, sem>> PROVE Fine
  BY <1>1, <1>2
<1>3. ASSUME NEW t \in Callers, Answered(t) PROVE Fine
  <2>1. /\ sem' = [u \in Callers |-> IF u \in {t} THEN 1 ELSE sem[u]]
        /\ pcb' = [pcb EXCEPT ![t] = Done(pcb[t])] /\ pcb[t] \in Pending
    BY <1>1, <1>3 DEF Answered, Signal
  <2>2. Done(pcb[t]) \in {"none", "open"}
    BY DEF Done
  <2>3. /\ pcb' \in [Callers -> Pending \cup {"none", "open"}] /\ sem' \in [Callers -> {0, 1}]
        /\ pcb'[t] \notin Pending
        /\ \A u \in Callers \ {t} : pcb'[u] = pcb[u] /\ sem'[u] = sem[u]
    BY <1>1, <2>1, <2>2, PendingStates
  <2> QED BY <2>1, <2>3
<1>4. ASSUME NEW t \in Callers, Reset(t) PROVE Fine
  <2>1. CASE pcb[t] \in Pending
    <3>1. /\ sem' = [u \in Callers |-> IF u \in {t} THEN 1 ELSE sem[u]]
          /\ pcb' = [pcb EXCEPT ![t] = "none"]
      BY <1>1, <1>4, <2>1 DEF Reset, Signal
    <3>2. /\ pcb' \in [Callers -> Pending \cup {"none", "open"}] /\ sem' \in [Callers -> {0, 1}]
          /\ pcb'[t] \notin Pending
          /\ \A u \in Callers \ {t} : pcb'[u] = pcb[u] /\ sem'[u] = sem[u]
      BY <1>1, <3>1, PendingStates
    <3> QED BY <2>1, <3>2
  <2>2. CASE pcb[t] \notin Pending
    BY <1>1, <1>4, <2>2, PendingStates DEF Reset
  <2> QED BY <2>1, <2>2
<1>5. ASSUME NEW t \in Callers, Window(t) PROVE Fine
  BY <1>1, <1>5, PendingStates DEF Window
<1>6. \/ UNCHANGED <<pcb, sem>> \/ \E t \in Callers : Answered(t) \/ Reset(t) \/ Window(t)
  BY DEF Input
<1> QED BY <1>2, <1>3, <1>4, <1>5, <1>6

(* What the TCP timer may do.                                              *)
LEMMA TmrHandled ==
  ASSUME CallInv, NEW gone \in GivenUp, NEW polled \in Polled, NEW left, TcpTmr(gone, polled, left)
  PROVE  /\ pcb' \in [Callers -> Pending \cup {"none", "open"}]
         /\ sem' \in [Callers -> {0, 1}]
         /\ \A t \in Callers : \/ pcb'[t] = pcb[t] /\ sem'[t] = sem[t]
                               \/ pcb[t] \in Pending /\ (pcb'[t] \in Pending => sem'[t] = 0)
                               \/ pcb'[t] \notin Pending /\ sem'[t] = sem[t]
<1>1. /\ pcb \in [Callers -> Pending \cup {"none", "open"}] /\ sem \in [Callers -> {0, 1}]
  BY DEF CallInv, Types
<1>2. /\ pcb' = [t \in Callers |-> IF t \in polled THEN Done(pcb[t])
                                   ELSE IF t \in gone \cup Over THEN "none" ELSE pcb[t]]
      /\ sem' = [t \in Callers |-> IF t \in Over \cup polled THEN 1 ELSE sem[t]]
  BY DEF TcpTmr, Signal
<1>3. \A t \in polled \cup Over : pcb[t] \in Pending
  BY PendingStates DEF Polled, Over, Trying
<1>4. pcb' \in [Callers -> Pending \cup {"none", "open"}] /\ sem' \in [Callers -> {0, 1}]
  BY <1>1, <1>2, PendingStates
<1>5. ASSUME NEW t \in Callers
      PROVE  \/ pcb'[t] = pcb[t] /\ sem'[t] = sem[t]
             \/ pcb[t] \in Pending /\ (pcb'[t] \in Pending => sem'[t] = 0)
             \/ pcb'[t] \notin Pending /\ sem'[t] = sem[t]
  <2>1. CASE t \in polled \cup Over
    BY <1>2, <1>3, <2>1, PendingStates
  <2>2. CASE t \in gone \ (polled \cup Over)
    BY <1>2, <2>2, PendingStates
  <2>3. CASE t \notin gone \cup polled \cup Over
    BY <1>2, <2>3
  <2> QED BY <2>1, <2>2, <2>3
<1> QED BY <1>4, <1>5

-----------------------------------------------------------------------------
(* A message is handled.                                                   *)
LEMMA HandleStep == CallInv /\ Handle => CallInv'
<1> SUFFICES ASSUME CallInv, Handle PROVE CallInv'
  OBVIOUS
<1>1. /\ mbox' = mbox /\ app' = app /\ thr' = "fetch" /\ thr = "run"
      /\ mbox \in Seq(Messages) /\ msg \in Messages
      /\ app \in [Callers -> Ops \cup {"idle", "callback", "wait"}]
      /\ pcb \in [Callers -> Pending \cup {"none", "open"}] /\ sem \in [Callers -> {0, 1}]
  BY DEF Handle, CallInv, Types
<1>2. CASE msg.type \in Ops
  <2>1. msg.from \in Callers /\ InHand(msg.from)
    BY <1>1, <1>2 DEF Messages, InHand, IsCall, Ops
  <2>2. \/ DoConnect(msg.from) \/ DoWrite(msg.from) \/ DoClose(msg.from) \/ DoOther(msg.from)
    BY <1>2 DEF Handle, Ops
  <2>3. PICK t \in Callers : t = msg.from
    BY <2>1
  <2>4. /\ pcb' \in [Callers -> Pending \cup {"none", "open"}]
        /\ sem' \in [Callers -> {0, 1}]
        /\ pcb'[t] \in Pending => sem'[t] = 0
        /\ \A u \in Callers \ {t} : pcb'[u] = pcb[u] /\ sem'[u] = sem[u]
    BY <2>1, <2>2, <2>3, CallHandled
  <2>5. Types'
    BY <1>1, <2>4 DEF Types
  <2>6. ASSUME NEW u \in Callers
        PROVE  \/ pcb'[u] = pcb[u] /\ sem'[u] = sem[u]
               \/ (InHand(u) \/ pcb[u] \in Pending) /\ (pcb'[u] \in Pending => sem'[u] = 0)
    BY <2>1, <2>3, <2>4
  <2> QED BY <1>1, <2>5, <2>6, HandledStep
<1>3. CASE msg.type = "packet"
  <2>1. Input
    BY <1>3 DEF Handle
  <2>2. Types'
    BY <1>1, <2>1, InputHandled DEF Types
  <2> QED BY <1>1, <2>1, <2>2, InputHandled, HandledStep
<1>4. CASE msg.type = "callback"
  <2>1. pcb' = pcb /\ sem' = sem
    BY <1>4 DEF Handle, tcp
  <2> QED BY <1>1, <2>1, QuietStep
<1> QED BY <1>1, <1>2, <1>3, <1>4 DEF Messages

(* A timer goes off.                                                       *)
LEMMA RunTimerStep == CallInv /\ RunTimer => CallInv'
<1> SUFFICES ASSUME CallInv, RunTimer PROVE CallInv'
  OBVIOUS
<1>1. /\ mbox' = mbox /\ app' = app /\ thr' = "fetch"
      /\ mbox \in Seq(Messages) /\ app \in [Callers -> Ops \cup {"idle", "callback", "wait"}]
  BY DEF RunTimer, CallInv, Types
<1>2. CASE CyclicTimer
  BY <1>1, <1>2, QuietStep DEF CyclicTimer, tcp
<1>3. CASE TcpTimer
  <2>1. PICK gone \in GivenUp, polled \in Polled : \E left : TcpTmr(gone, polled, left)
    BY <1>3 DEF TcpTimer
  <2>2. Types'
    BY <1>1, <2>1, TmrHandled DEF Types
  <2> QED BY <1>1, <2>1, <2>2, TmrHandled, HandledStep
<1> QED BY <1>2, <1>3 DEF RunTimer
(* The thread.                                                             *)
LEMMA ThreadStep == CallInv /\ Thread => CallInv'
<1> SUFFICES ASSUME CallInv, Thread PROVE CallInv'
  OBVIOUS
<1>1. CASE Fetch
  <2>1. CASE Pop /\ UNCHANGED waited
    BY <1>1, <2>1, QuietStep DEF Fetch, Pop, tcp, callers
  <2>2. CASE thr' = "wait"
    BY <1>1, <2>2, QuietStep DEF Fetch, tcp, callers
  <2> QED BY <1>1, <2>1, <2>2 DEF Fetch
<1>2. CASE Receive
  BY <1>2, ReceiveStep
<1>3. CASE TimedOut
  BY <1>3, QuietStep DEF TimedOut, Pop, tcp, callers
<1>4. CASE Count
  BY <1>4, QuietStep DEF Count, tcp, callers
<1>5. CASE Handle
  BY <1>5, HandleStep
<1>6. CASE RunTimer
  BY <1>6, RunTimerStep
<1> QED BY <1>1, <1>2, <1>3, <1>4, <1>5, <1>6 DEF Thread

-----------------------------------------------------------------------------
(* The other tasks and the clock.                                          *)

(* A message that is nobody's call changes nothing for any call.           *)
LEMMA AppendStep ==
  ASSUME CallInv, NEW m \in Messages, m.type \notin Ops, mbox' = Append(mbox, m),
         UNCHANGED <<thr, msg, pcb, sem>>,
         app' \in [Callers -> Ops \cup {"idle", "callback", "wait"}],
         \A t \in Callers : app[t] = "wait" <=> app'[t] = "wait"
  PROVE  CallInv'
<1>1. mbox \in Seq(Messages)
  BY DEF CallInv, Types
<1>2. PICK n \in Nat : Len(mbox) = n
  BY <1>1
<1>3. /\ mbox' \in Seq(Messages) /\ Len(mbox') = n + 1 /\ mbox'[n + 1] = m
      /\ \A i \in 1..n : mbox'[i] = mbox[i]
  BY <1>1, <1>2
<1>4. Types'
  BY <1>3 DEF CallInv, Types
<1>5. ASSUME NEW t \in Callers PROVE Calls(t)'
  <2>1. Posted(t) /\ Taken(t) /\ Waiting(t) /\ Signalled(t)
    BY DEF CallInv, Calls
  <2>2. \A i \in 1..Len(mbox') : IsCall(mbox'[i], t) => i \in 1..Len(mbox) /\ IsCall(mbox[i], t)
    BY <1>2, <1>3 DEF IsCall
  <2>3. Posted(t)'
    BY <2>1, <2>2 DEF Posted, InHand, InTcp, IsCall
  <2>4. Taken(t)' /\ Waiting(t)' /\ Signalled(t)'
    BY <2>1 DEF Taken, Waiting, Signalled, InHand, InTcp, IsCall
  <2> QED BY <2>3, <2>4 DEF Calls
<1> QED BY <1>4, <1>5 DEF CallInv

LEMMA PacketStep == CallInv /\ Packet => CallInv'
<1> SUFFICES ASSUME CallInv, Packet PROVE CallInv'
  OBVIOUS
<1>1. [type |-> "packet"] \in Messages /\ "packet" \notin Ops
  BY DEF Messages, Ops
<1>2. app \in [Callers -> Ops \cup {"idle", "callback", "wait"}]
  BY DEF CallInv, Types
<1> QED BY <1>1, <1>2, AppendStep DEF Packet, tcp, callers

(* A call is posted: its task has not waited, so nothing of it is anywhere.*)
LEMMA PostStep == ASSUME NEW t \in Callers PROVE CallInv /\ Post(t) => CallInv'
<1> SUFFICES ASSUME CallInv, Post(t) PROVE CallInv'
  OBVIOUS
<1>1. /\ mbox \in Seq(Messages) /\ app[t] \in Ops \cup {"callback"}
      /\ app \in [Callers -> Ops \cup {"idle", "callback", "wait"}]
      /\ mbox' = Append(mbox, [type |-> app[t], from |-> t])
      /\ UNCHANGED <<thr, msg, pcb, sem>>
  BY DEF CallInv, Types, Post, tcp
<1>2. [type |-> app[t], from |-> t] \in Messages /\ "wait" \notin Ops /\ "callback" \notin Ops
  BY <1>1 DEF Messages, Ops
<1>3. CASE app[t] = "callback"
  <2>1. app' = [app EXCEPT ![t] = "idle"]
    BY <1>3 DEF Post
  <2> QED BY <1>1, <1>2, <1>3, <2>1, AppendStep
<1>4. CASE app[t] \in Ops
  <2>1. app' = [app EXCEPT ![t] = "wait"] /\ app[t] # "wait"
    BY <1>2, <1>4 DEF Post
  <2>2. PICK n \in Nat : Len(mbox) = n
    BY <1>1
  <2>3. /\ mbox' \in Seq(Messages) /\ Len(mbox') = n + 1
        /\ mbox'[n + 1] = [type |-> app[t], from |-> t] /\ \A i \in 1..n : mbox'[i] = mbox[i]
    BY <1>1, <1>2, <2>2
  <2>4. Types'
    BY <1>1, <2>1, <2>3 DEF CallInv, Types
  <2>5. sem \in [Callers -> {0, 1}]
    BY DEF CallInv, Types
  <2>6. Posted(t) /\ Taken(t) /\ Waiting(t) /\ Signalled(t)
    BY DEF CallInv, Calls
  <2>7. /\ ~InHand(t) /\ ~InTcp(t) /\ sem[t] = 0 /\ \A i \in 1..n : ~IsCall(mbox[i], t)
    BY <2>1, <2>2, <2>5, <2>6 DEF Posted, Taken, Waiting, Signalled
  <2>8. app'[t] = "wait" /\ sem'[t] = 0 /\ ~InHand(t)' /\ ~InTcp(t)'
    BY <1>1, <2>1, <2>7 DEF InHand, InTcp, IsCall
  <2>9. \A i \in 1..n + 1 : IsCall(mbox'[i], t) => i = n + 1
    BY <2>3, <2>7
  <2>10. Calls(t)'
    BY <2>3, <2>8, <2>9 DEF Calls, Posted, Taken, Waiting, Signalled
  <2>11. ASSUME NEW u \in Callers \ {t} PROVE Calls(u)'
    <3>1. Posted(u) /\ Taken(u) /\ Waiting(u) /\ Signalled(u)
      BY DEF CallInv, Calls
    <3>2. app'[u] = app[u]
      BY <1>1, <2>1
    <3>3. \A i \in 1..Len(mbox') : IsCall(mbox'[i], u) => i \in 1..Len(mbox) /\ IsCall(mbox[i], u)
      BY <2>2, <2>3 DEF IsCall
    <3>4. Posted(u)'
      BY <1>1, <3>1, <3>2, <3>3 DEF Posted, InHand, InTcp, IsCall
    <3>5. Taken(u)' /\ Waiting(u)' /\ Signalled(u)'
      BY <1>1, <3>1, <3>2 DEF Taken, Waiting, Signalled, InHand, InTcp, IsCall
    <3> QED BY <3>4, <3>5 DEF Calls
  <2> QED BY <2>4, <2>10, <2>11 DEF CallInv
<1> QED BY <1>1, <1>3, <1>4

(* A task that begins a call, and one whose call returns, have nothing     *)
(* anywhere before and after.                                              *)
LEMMA BeginStep ==
  ASSUME NEW t \in Callers, NEW o \in Ops \cup {"callback"} PROVE CallInv /\ Begin(t, o) => CallInv'
<1> SUFFICES ASSUME CallInv, Begin(t, o) PROVE CallInv'
  OBVIOUS
<1>1. /\ app[t] = "idle" /\ app' = [app EXCEPT ![t] = o] /\ UNCHANGED <<mbox, thr, msg, pcb, sem>>
      /\ app \in [Callers -> Ops \cup {"idle", "callback", "wait"}]
  BY DEF CallInv, Types, Begin, tcp
<1>2. Types'
  BY <1>1 DEF CallInv, Types
<1>3. ASSUME NEW u \in Callers PROVE Calls(u)'
  <2>1. Posted(u) /\ Taken(u) /\ Waiting(u) /\ Signalled(u)
    BY DEF CallInv, Calls
  <2>2. app[u] = "wait" => app'[u] = "wait"
    BY <1>1
  <2>3. Posted(u)'
    BY <1>1, <2>1, <2>2 DEF Posted, InHand, InTcp, IsCall
  <2>4. Taken(u)' /\ Waiting(u)' /\ Signalled(u)'
    BY <1>1, <2>1, <2>2 DEF Taken, Waiting, Signalled, InHand, InTcp, IsCall
  <2> QED BY <2>3, <2>4 DEF Calls
<1> QED BY <1>2, <1>3 DEF CallInv

LEMMA ReturnStep == ASSUME NEW t \in Callers PROVE CallInv /\ Return(t) => CallInv'
<1> SUFFICES ASSUME CallInv, Return(t) PROVE CallInv'
  OBVIOUS
<1>1. /\ sem[t] = 1 /\ app' = [app EXCEPT ![t] = "idle"] /\ sem' = [sem EXCEPT ![t] = 0]
      /\ UNCHANGED <<mbox, thr, msg, pcb>> /\ sem \in [Callers -> {0, 1}]
      /\ app \in [Callers -> Ops \cup {"idle", "callback", "wait"}]
  BY DEF CallInv, Types, Return, tcp
<1>2. Types'
  BY <1>1 DEF CallInv, Types
<1>3. Posted(t) /\ Taken(t) /\ Waiting(t)
  BY DEF CallInv, Calls
<1>4. ~InHand(t)' /\ ~InTcp(t)' /\ sem'[t] = 0 /\ \A i \in 1..Len(mbox') : ~IsCall(mbox'[i], t)
  BY <1>1, <1>3 DEF Posted, Taken, Waiting, InHand, InTcp, IsCall
<1>5. Calls(t)'
  BY <1>2, <1>4, Settled
<1>6. ASSUME NEW u \in Callers \ {t} PROVE Calls(u)'
  <2>1. Calls(u) /\ app'[u] = app[u] /\ sem'[u] = sem[u]
    BY <1>1 DEF CallInv
  <2> QED BY <1>1, <2>1, Undisturbed
<1> QED BY <1>2, <1>5, <1>6 DEF CallInv

LEMMA TickStep == CallInv /\ Tick => CallInv'
<1> SUFFICES ASSUME CallInv, Tick PROVE CallInv'
  OBVIOUS
<1>1. UNCHANGED <<mbox, thr, msg, pcb, app, sem>>
  BY DEF Tick, tcp, callers
<1>2. thr \in {"fetch", "wait", "got", "run", "fire"}
  BY DEF CallInv, Types
<1> QED BY <1>1, <1>2, QuietStep

-----------------------------------------------------------------------------
(* Every step keeps the invariant.                                         *)
LEMMA CallNext == CallInv /\ [Next]_vars => CallInv'
<1> SUFFICES ASSUME CallInv, [Next]_vars PROVE CallInv'
  OBVIOUS
<1>1. CASE Thread
  BY <1>1, ThreadStep
<1>2. CASE Packet
  BY <1>2, PacketStep
<1>3. CASE Tick
  BY <1>3, TickStep
<1>4. ASSUME NEW t \in Callers, Post(t) PROVE CallInv'
  BY <1>4, PostStep
<1>5. ASSUME NEW t \in Callers, Return(t) PROVE CallInv'
  BY <1>5, ReturnStep
<1>6. ASSUME NEW t \in Callers, NEW o \in Ops \cup {"callback"}, Begin(t, o) PROVE CallInv'
  BY <1>6, BeginStep
<1>7. CASE UNCHANGED vars
  <2>1. UNCHANGED <<mbox, thr, msg, pcb, app, sem>>
    BY <1>7 DEF vars
  <2>2. thr \in {"fetch", "wait", "got", "run", "fire"}
    BY DEF CallInv, Types
  <2> QED BY <2>1, <2>2, QuietStep
<1> QED BY <1>1, <1>2, <1>3, <1>4, <1>5, <1>6, <1>7 DEF Next

(* The semaphore of a netconn is never up for a call that is not over, nor *)
(* for a task that is not waiting: every call returns with its own answer. *)
THEOREM SignalsMatchTheorem == Spec => []SignalsMatch
<1>1. CallInv => SignalsMatch
  BY DEF CallInv, Calls, Posted, Taken, Waiting, Signalled, SignalsMatch, IsCall, InHand, InTcp
<1> QED BY <1>1, CallInit, CallNext, PTL DEF Spec

-----------------------------------------------------------------------------
(* Induction.  The natural numbers are well-founded, so that the smallest  *)
(* number for which a fact fails can be considered.                        *)
LEMMA LeastNat ==
  ASSUME NEW T \in SUBSET Nat, T # {}
  PROVE  \E n \in T : \A m \in T : n <= m
<1> DEFINE R == OpToRel(<, Nat)
<1>1. IsWellFoundedOn(R, Nat)
  BY NatLessThanWellFounded
<1>2. \A x, y \in Nat : x < y => <<x, y>> \in R
  BY DEF OpToRel
<1> HIDE DEF R
<1>3. PICK n \in T : \A m \in T : ~(<<m, n>> \in R)
  BY <1>1, WFMin
<1>4. ASSUME NEW m \in T PROVE n <= m
  <2>1. m \in Nat /\ n \in Nat /\ ~(m < n)
    BY <1>2, <1>3
  <2> QED BY <2>1
<1> QED BY <1>4

(* Induction over a beginning of the natural numbers, for a set.           *)
LEMMA Induction ==
  ASSUME NEW n \in Nat, NEW T, 0 \in T, \A i \in 0..n - 1 : i \in T => i + 1 \in T
  PROVE  \A i \in 0..n : i \in T
<1> SUFFICES ASSUME {i \in 0..n : i \notin T} # {} PROVE FALSE
  OBVIOUS
<1> DEFINE U == {i \in 0..n : i \notin T}
<1>1. U \in SUBSET Nat /\ U # {}
  OBVIOUS
<1>2. PICK m \in U : \A k \in U : m <= k
  <2> HIDE DEF U
  <2> QED BY <1>1, LeastNat
<1>3. m \in 0..n /\ m \notin T /\ m # 0
  OBVIOUS
<1>4. m - 1 \in 0..n - 1 /\ m - 1 \in 0..n /\ ~(m <= m - 1) /\ (m - 1) + 1 = m
  BY <1>3
<1>5. m - 1 \in T
  BY <1>2, <1>4
<1> QED BY <1>3, <1>4, <1>5

(* A function can be defined by recursion over 0..n.                       *)
Recursive(f, n, S, c, step) ==
  f \in [0..n -> S] /\ f[0] = c /\ \A i \in 1..n : f[i] = step[i][f[i - 1]]

LEMMA Recursion ==
  ASSUME NEW n \in Nat, NEW S, NEW c \in S, NEW step \in [1..n -> [S -> S]]
  PROVE  \E f : Recursive(f, n, S, c, step)
<1> DEFINE Upto(m) == {f \in [0..m -> S] : f[0] = c /\ \A i \in 1..m : f[i] = step[i][f[i - 1]]}
           T == {m \in 0..n : Upto(m) # {}}
<1>1. 0 \in T
  <2>1. [i \in 0..0 |-> c] \in Upto(0)
    OBVIOUS
  <2> QED BY <2>1
<1>2. ASSUME NEW m \in 0..n - 1, m \in T PROVE m + 1 \in T
  <2>1. PICK f \in [0..m -> S] : f[0] = c /\ \A i \in 1..m : f[i] = step[i][f[i - 1]]
    BY <1>2
  <2> DEFINE g == [i \in 0..m + 1 |-> IF i = m + 1 THEN step[m + 1][f[m]] ELSE f[i]]
  <2>2. m \in 0..m /\ m + 1 \in 1..n /\ m + 1 \in 0..n /\ f[m] \in S
    OBVIOUS
  <2>3. step[m + 1][f[m]] \in S
    BY <2>2
  <2>4. g \in [0..m + 1 -> S]
    BY <2>3
  <2>5. ASSUME NEW i \in 1..m + 1 PROVE g[i] = step[i][g[i - 1]]
    BY <2>1, <2>5
  <2>6. g[0] = c
    BY <2>1
  <2>7. g \in Upto(m + 1)
    BY <2>4, <2>5, <2>6
  <2> QED BY <2>2, <2>7
<1>3. n \in T
  <2> HIDE DEF T
  <2>1. \A i \in 0..n : i \in T
    BY <1>1, <1>2, Induction
  <2> QED BY <2>1
<1> QED BY <1>3 DEF Recursive

-----------------------------------------------------------------------------
(* When the timers of a list are due.                                      *)
LEMMA MaxTwo == \A a, b \in Int : Max({a, b}) = IF a >= b THEN a ELSE b
<1> SUFFICES ASSUME NEW a \in Int, NEW b \in Int PROVE Max({a, b}) = IF a >= b THEN a ELSE b
  OBVIOUS
<1> DEFINE m == IF a >= b THEN a ELSE b
<1>1. m \in {a, b} /\ \A y \in {a, b} : m >= y
  OBVIOUS
<1>2. \A x \in {a, b} : (\A y \in {a, b} : x >= y) => x = m
  OBVIOUS
<1> QED BY <1>1, <1>2 DEF Max

LEMMA MinTwo == \A a, b \in Int : Min({a, b}) = IF a <= b THEN a ELSE b
<1> SUFFICES ASSUME NEW a \in Int, NEW b \in Int PROVE Min({a, b}) = IF a <= b THEN a ELSE b
  OBVIOUS
<1> DEFINE m == IF a <= b THEN a ELSE b
<1>1. m \in {a, b} /\ \A y \in {a, b} : m <= y
  OBVIOUS
<1>2. \A x \in {a, b} : (\A y \in {a, b} : x <= y) => x = m
  OBVIOUS
<1> QED BY <1>1, <1>2 DEF Min

(* There are finitely many timers, and so a longest period.                *)
LEMMA LongestPeriod == Longest \in Nat /\ \A h \in Timers : Period[h] \in 1..Longest
<1> DEFINE n == Len(Cyclic)
           AtLeast(h, i) == /\ Period[Tcp] <= Period[h]
                            /\ \A j \in 1..i : Period[Cyclic[j]] <= Period[h]
           T == {i \in 0..n : \E h \in Timers : AtLeast(h, i)}
<1>1. n \in Nat /\ Timers = {Cyclic[j] : j \in 1..n} \cup {Tcp}
  BY ThreadAssumption DEF Timers, ToSet
<1>2. \A h \in Timers : Period[h] \in Nat \ {0}
  BY ThreadAssumption
<1>3. Tcp \in Timers /\ \A j \in 1..n : Cyclic[j] \in Timers
  BY <1>1
<1>4. 0 \in T
  BY <1>1, <1>2, <1>3
<1>5. ASSUME NEW i \in 0..n - 1, i \in T PROVE i + 1 \in T
  <2>1. PICK h \in Timers : AtLeast(h, i)
    BY <1>5
  <2>2. /\ i + 1 \in 1..n /\ i + 1 \in 0..n /\ Cyclic[i + 1] \in Timers
        /\ \A j \in 1..i + 1 : j \in 1..i \/ j = i + 1
    BY <1>1, <1>3
  <2>3. CASE Period[Cyclic[i + 1]] <= Period[h]
    <3>1. AtLeast(h, i + 1)
      BY <2>1, <2>2, <2>3
    <3> QED BY <2>2, <3>1
  <2>4. CASE ~(Period[Cyclic[i + 1]] <= Period[h])
    <3> DEFINE g == Cyclic[i + 1]
    <3>1. Period[h] <= Period[g] /\ Period[Tcp] <= Period[g] /\ Period[g] <= Period[g]
      BY <1>2, <1>3, <2>1, <2>2, <2>4
    <3>2. \A j \in 1..i : Period[Cyclic[j]] <= Period[g]
      <4> SUFFICES ASSUME NEW j \in 1..i PROVE Period[Cyclic[j]] <= Period[g]
        OBVIOUS
      <4>1. j \in 1..n /\ Period[Cyclic[j]] <= Period[h]
        BY <1>1, <2>1
      <4> QED BY <1>2, <1>3, <2>2, <3>1, <4>1
    <3>3. AtLeast(g, i + 1)
      BY <2>2, <3>1, <3>2
    <3> QED BY <2>2, <3>3
  <2> QED BY <2>3, <2>4
<1>6. n \in T
  <2>1. \A i \in 0..n : i \in T
    <3> HIDE DEF T, n
    <3> QED BY <1>1, <1>4, <1>5, Induction
  <2> QED BY <1>1, <2>1
<1>7. PICK h \in Timers : \A g \in Timers : Period[g] <= Period[h]
  BY <1>1, <1>6
<1> DEFINE P == {Period[g] : g \in Timers}
<1>8. Period[h] \in P /\ \A y \in P : Period[h] >= y
  BY <1>2, <1>7
<1>9. Longest \in P /\ \A y \in P : Longest >= y
  <2> HIDE DEF P
  <2>1. Max(P) \in P /\ \A y \in P : Max(P) >= y
    BY <1>8 DEF Max
  <2> QED BY <2>1 DEF Longest, P
<1> QED BY <1>2, <1>9

Entry == [timer : Timers, time : 0..Longest, age : 0..Longest]

LEMMA EntryOf ==
  ASSUME NEW l \in Seq(Entry), NEW i \in 1..Len(l)
  PROVE  /\ l[i] \in Entry /\ l[i].timer \in Timers /\ l[i].time \in 0..Longest /\ l[i].age \in 0..Longest
         /\ l[i].time \in Nat /\ l[i].age \in Nat
<1>1. l[i] \in Entry
  OBVIOUS
<1> QED BY <1>1, LongestPeriod DEF Entry

(* Due(l, k) is the sum of the first k differences.                        *)
LEMMA DueDef ==
  ASSUME NEW l \in Seq(Entry)
  PROVE  /\ Due(l, 0) = 0
         /\ \A k \in 1..Len(l) : Due(l, k) = Due(l, k - 1) + l[k].time
         /\ \A k \in 0..Len(l) : Due(l, k) \in Nat
<1> DEFINE n == Len(l)
           step == [i \in 1..n |-> [x \in Nat |-> x + l[i].time]]
           IsDue(f) == f = [i \in 0..n |-> IF i = 0 THEN 0 ELSE f[i - 1] + l[i].time]
           due == CHOOSE f : IsDue(f)
<1>1. n \in Nat /\ \A i \in 1..n : l[i].time \in Nat
  BY EntryOf
<1>2. step \in [1..n -> [Nat -> Nat]]
  BY <1>1
<1>3. PICK f \in [0..n -> Nat] : f[0] = 0 /\ \A i \in 1..n : f[i] = step[i][f[i - 1]]
  <2>1. 0 \in Nat
    OBVIOUS
  <2>2. \E f : Recursive(f, n, Nat, 0, step)
    <3> HIDE DEF step, n
    <3> QED BY <1>1, <1>2, <2>1, Recursion
  <2> QED BY <2>2 DEF Recursive
<1>4. \A i \in 1..n : f[i] = f[i - 1] + l[i].time
  BY <1>1, <1>3
<1>5. IsDue(f)
  BY <1>3, <1>4
<1>6. IsDue(due)
  <2> HIDE DEF IsDue
  <2> QED BY <1>5
<1>7. \A k : Due(l, k) = due[k]
  BY DEF Due
<1> HIDE DEF due
<1>8. due[0] = 0 /\ \A i \in 1..n : due[i] = due[i - 1] + l[i].time
  BY <1>1, <1>6
<1> DEFINE T == {i \in 0..n : due[i] \in Nat}
<1>9. 0 \in T /\ \A i \in 0..n - 1 : i \in T => i + 1 \in T
  BY <1>1, <1>8
<1>10. \A i \in 0..n : i \in T
  <2> HIDE DEF T, n
  <2> QED BY <1>1, <1>9, Induction
<1> QED BY <1>7, <1>8, <1>10

(* The differences between the dates of two lists are the same as far as   *)
(* their entries are.                                                      *)
Alike(l, a, m, b, n) ==
  \A j \in 0..n : Due(l, a + j) - Due(l, a) = Due(m, b + j) - Due(m, b)

LEMMA DueShift ==
  ASSUME NEW l \in Seq(Entry), NEW m \in Seq(Entry), NEW n \in Nat, NEW a \in Nat, NEW b \in Nat,
         a + n <= Len(l), b + n <= Len(m), \A j \in 1..n : l[a + j].time = m[b + j].time
  PROVE  Alike(l, a, m, b, n)
<1> DEFINE T == {j \in 0..n : Due(l, a + j) - Due(l, a) = Due(m, b + j) - Due(m, b)}
<1>0. Len(l) \in Nat /\ Len(m) \in Nat
  OBVIOUS
<1>1. a + 0 = a /\ b + 0 = b /\ Due(l, a) \in Nat /\ Due(m, b) \in Nat
  BY <1>0, DueDef
<1>2. 0 \in T
  BY <1>1
<1>3. ASSUME NEW j \in 0..n - 1, j \in T PROVE j + 1 \in T
  <2> DEFINE x == a + j
             y == b + j
  <2>1. /\ x + 1 \in 1..Len(l) /\ y + 1 \in 1..Len(m) /\ x \in 0..Len(l) /\ y \in 0..Len(m)
        /\ a + (j + 1) = x + 1 /\ b + (j + 1) = y + 1 /\ j + 1 \in 1..n /\ j + 1 \in 0..n
        /\ (x + 1) - 1 = x /\ (y + 1) - 1 = y
    BY <1>0
  <2>2. Due(l, x) - Due(l, a) = Due(m, y) - Due(m, b)
    BY <1>3
  <2>3. l[x + 1].time = m[y + 1].time
    BY <2>1
  <2> HIDE DEF x, y
  <2>4. Due(l, x + 1) = Due(l, x) + l[x + 1].time /\ Due(m, y + 1) = Due(m, y) + m[y + 1].time
        /\ Due(l, x) \in Nat /\ Due(m, y) \in Nat
    BY <2>1, DueDef
  <2>5. l[x + 1].time \in Nat /\ m[y + 1].time \in Nat
    BY <2>1, EntryOf
  <2>6. Due(l, x + 1) - Due(l, a) = Due(m, y + 1) - Due(m, b)
    <3>1. Due(l, x + 1) - Due(l, a) = Due(l, x) - Due(l, a) + l[x + 1].time
      BY <1>1, <2>4, <2>5, SMTT(30)
    <3>2. Due(m, y + 1) - Due(m, b) = Due(m, y) - Due(m, b) + m[y + 1].time
      BY <1>1, <2>4, <2>5, SMTT(30)
    <3> QED BY <3>1, <3>2, <2>2, <2>3, SMTT(30)
  <2> QED BY <2>1, <2>6
<1>4. \A i \in 0..n : i \in T
  <2> HIDE DEF T
  <2> QED BY <1>2, <1>3, Induction
<1> QED BY <1>4 DEF Alike

(* What comes later in the list is due no sooner.                          *)
LEMMA DueMonotone ==
  ASSUME NEW l \in Seq(Entry), NEW i \in 0..Len(l), NEW j \in i..Len(l)
  PROVE  Due(l, i) <= Due(l, j)
<1> DEFINE n == Len(l) - i
           T == {k \in 0..n : Due(l, i) <= Due(l, i + k)}
<1>1. n \in Nat /\ j - i \in 0..n /\ i + (j - i) = j /\ i + 0 = i /\ Due(l, i) \in Nat
  BY DueDef
<1>2. 0 \in T
  BY <1>1
<1>3. ASSUME NEW k \in 0..n - 1, k \in T PROVE k + 1 \in T
  <2>1. /\ i + k \in 0..Len(l) /\ i + (k + 1) \in 1..Len(l) /\ (i + (k + 1)) - 1 = i + k /\ k + 1 \in 0..n
    OBVIOUS
  <2>5. l[i + (k + 1)].time \in Nat
    BY <2>1, EntryOf
  <2>2. Due(l, i + (k + 1)) = Due(l, i + k) + l[i + (k + 1)].time /\ Due(l, i + k) \in Nat
    BY <2>1, DueDef
  <2>3. Due(l, i) <= Due(l, i + k)
    BY <1>3
  <2>4. Due(l, i) <= Due(l, i + (k + 1))
    BY <1>1, <2>5, <2>2, <2>3, SMTT(30)
  <2> QED BY <2>1, <2>4
<1>4. \A k \in 0..n : k \in T
  <2> HIDE DEF T, n
  <2> QED BY <1>1, <1>2, <1>3, Induction
<1> QED BY <1>1, <1>4

(* What is put into a list moves what is behind it by one place.           *)
LEMMA InsertAtIs ==
  ASSUME NEW S, NEW s \in Seq(S), NEW e \in S, NEW i \in 1..Len(s) + 1
  PROVE  /\ InsertAt(s, i, e) \in Seq(S) /\ Len(InsertAt(s, i, e)) = Len(s) + 1
         /\ \A j \in 1..i - 1 : InsertAt(s, i, e)[j] = s[j]
         /\ InsertAt(s, i, e)[i] = e
         /\ \A j \in i..Len(s) : InsertAt(s, i, e)[j + 1] = s[j]
<1> DEFINE n == Len(s)
           a == SubSeq(s, 1, i - 1)
           b == SubSeq(s, i, n)
           c == a \o <<e>>
<1>1. n \in Nat /\ i \in Int /\ i - 1 \in Int /\ i - 1 \in Nat /\ i <= n + 1
  OBVIOUS
<1>2. a \in Seq(S) /\ Len(a) = i - 1 /\ \A j \in 1..i - 1 : a[j] = s[j]
  <2>1. \A j \in 1..i - 1 : s[j] \in S
    BY <1>1
  <2>2. /\ a \in Seq(S) /\ Len(a) = IF 1 <= i - 1 THEN (i - 1) - 1 + 1 ELSE 0
        /\ \A j \in 1..(i - 1) - 1 + 1 : a[j] = s[1 + j - 1]
    BY <1>1, <2>1, SubSeqProperties
  <2> QED BY <1>1, <2>2
<1>3. b \in Seq(S) /\ Len(b) = n - i + 1 /\ \A j \in 1..n - i + 1 : b[j] = s[i + j - 1]
  <2>1. \A j \in i..n : s[j] \in S
    BY <1>1
  <2>2. /\ b \in Seq(S) /\ Len(b) = IF i <= n THEN n - i + 1 ELSE 0
        /\ \A j \in 1..n - i + 1 : b[j] = s[i + j - 1]
    BY <1>1, <2>1, SubSeqProperties
  <2> QED BY <1>1, <2>2
<1> HIDE DEF a, b
<1>4. c \in Seq(S) /\ Len(c) = i /\ c[i] = e /\ \A j \in 1..i - 1 : c[j] = s[j]
  BY <1>1, <1>2
<1> HIDE DEF c
<1>5. /\ c \o b \in Seq(S) /\ Len(c \o b) = n + 1
      /\ \A j \in 1..i : (c \o b)[j] = c[j]
      /\ \A j \in 1..n - i + 1 : (c \o b)[i + j] = b[j]
  BY <1>1, <1>3, <1>4
<1>6. ASSUME NEW j \in i..n PROVE (c \o b)[j + 1] = s[j]
  <2>1. j - i + 1 \in 1..n - i + 1 /\ i + (j - i + 1) = j + 1 /\ i + (j - i + 1) - 1 = j
    BY <1>1
  <2>2. (c \o b)[i + (j - i + 1)] = b[j - i + 1] /\ b[j - i + 1] = s[i + (j - i + 1) - 1]
    BY <1>3, <1>5, <2>1
  <2> QED BY <2>1, <2>2
<1>7. InsertAt(s, i, e) = c \o b
  BY DEF InsertAt, a, b, c
<1>8. \A j \in 1..i - 1 : j \in 1..i
  BY <1>1
<1> QED BY <1>1, <1>4, <1>5, <1>6, <1>7, <1>8

(* sys_timeout: there is a place k for the new timer, such that all before *)
(* it and behind it stay when and what they are, and it is due when its    *)
(* period is over.                                                         *)
Placed(l, h, n, k) ==
  /\ n \in Seq(Entry) /\ Len(n) = Len(l) + 1
  /\ \A j \in 1..k : n[j] = l[j]
  /\ n[k + 1].timer = h /\ n[k + 1].age = 0
  /\ \A j \in k + 1..Len(l) : n[j + 1].timer = l[j].timer /\ n[j + 1].age = l[j].age
  /\ \A j \in 0..k : Due(n, j) = Due(l, j)
  /\ Due(n, k + 1) = Period[h]
  /\ \A j \in k + 1..Len(l) : Due(n, j + 1) = Due(l, j)

LEMMA SysTimeoutIs ==
  ASSUME NEW l \in Seq(Entry), NEW h \in Timers
  PROVE  \E k \in 0..Len(l) : Placed(l, h, SysTimeout(l, h), k)
<1> DEFINE len == Len(l)
           p == Period[h]
           K == {i \in 0..len : i = len \/ Due(l, i + 1) > p}
           k == Min(K)
<1>1. len \in Nat /\ p \in 1..Longest /\ p \in Nat /\ Longest \in Nat
  BY LongestPeriod
<1>2. k \in K /\ \A i \in K : k <= i
  <2>1. len \in K /\ K \in SUBSET Nat
    BY <1>1
  <2> HIDE DEF K
  <2>2. PICK i \in K : \A j \in K : i <= j
    BY <2>1, LeastNat
  <2> QED BY <2>2 DEF Min
<1>3. k \in 0..len /\ (k = len \/ Due(l, k + 1) > p)
  BY <1>2
<1>4. Due(l, k) \in Nat /\ Due(l, k) <= p
  <2>1. Due(l, 0) = 0 /\ \A i \in 0..len : Due(l, i) \in Nat
    BY DueDef
  <2>2. CASE k = 0
    BY <1>1, <2>1, <2>2
  <2>3. CASE k # 0
    <3>1. k - 1 \in 0..len /\ k - 1 # len /\ ~(k <= k - 1) /\ (k - 1) + 1 = k
      BY <1>1, <1>3, <2>3
    <3>2. ~(Due(l, k) > p)
      BY <1>2, <3>1
    <3>3. Due(l, k) \in Nat
      BY <1>3, <2>1
    <3> QED BY <1>1, <3>2, <3>3
  <2> QED BY <2>2, <2>3
<1> DEFINE shorter == IF k = len THEN l ELSE [l EXCEPT ![k + 1].time = Due(l, k + 1) - p]
           e == [timer |-> h, time |-> p - Due(l, k), age |-> 0]
           n == InsertAt(shorter, k + 1, e)
<1>5. n = SysTimeout(l, h)
  BY DEF SysTimeout
<1> HIDE DEF k, K
<1>6. e \in Entry
  BY <1>1, <1>4 DEF Entry
<1>7. k # len => k + 1 \in 1..len /\ Due(l, k + 1) = Due(l, k) + l[k + 1].time /\ l[k + 1] \in Entry
                 /\ Due(l, k + 1) > p /\ Due(l, k + 1) - p \in 0..Longest
  <2> SUFFICES ASSUME k # len PROVE k + 1 \in 1..len /\ Due(l, k + 1) = Due(l, k) + l[k + 1].time
                 /\ l[k + 1] \in Entry /\ Due(l, k + 1) > p /\ Due(l, k + 1) - p \in 0..Longest
    OBVIOUS
  <2>1. k + 1 \in 1..len /\ (k + 1) - 1 = k /\ Due(l, k + 1) > p
    BY <1>1, <1>3
  <2>2. l[k + 1] \in Entry /\ l[k + 1].time \in 0..Longest
    BY <2>1, EntryOf
  <2>3. Due(l, k + 1) = Due(l, k) + l[k + 1].time
    BY <2>1, DueDef
  <2>4. Due(l, k + 1) - p \in 0..Longest
    BY <1>1, <1>4, <2>1, <2>2, <2>3
  <2> QED BY <2>1, <2>2, <2>3, <2>4
<1>8. /\ shorter \in Seq(Entry) /\ Len(shorter) = len
      /\ \A j \in 1..len : /\ shorter[j].timer = l[j].timer /\ shorter[j].age = l[j].age
                           /\ j # k + 1 => shorter[j] = l[j]
                           /\ j = k + 1 => shorter[j].time = Due(l, k + 1) - p
  <2>1. CASE k = len
    BY <1>1, <2>1
  <2>2. CASE k # len
    <3> DEFINE x == [l[k + 1] EXCEPT !.time = Due(l, k + 1) - p]
    <3>1. /\ x \in Entry /\ x.time = Due(l, k + 1) - p
          /\ x.timer = l[k + 1].timer /\ x.age = l[k + 1].age
      BY <1>7, <2>2 DEF Entry
    <3>2. shorter = [l EXCEPT ![k + 1] = x]
      BY <2>2
    <3> HIDE DEF x, shorter
    <3>3. k + 1 \in 1..len
      BY <1>7, <2>2
    <3> QED BY <1>1, <3>1, <3>2, <3>3
  <2> QED BY <2>1, <2>2
<1> HIDE DEF shorter, e
<1>9. /\ n \in Seq(Entry) /\ Len(n) = len + 1
      /\ \A j \in 1..k : n[j] = shorter[j]
      /\ n[k + 1] = e
      /\ \A j \in k + 1..len : n[j + 1] = shorter[j]
  <2>1. k + 1 \in 1..Len(shorter) + 1 /\ (k + 1) - 1 = k
    BY <1>1, <1>3, <1>8
  <2> HIDE DEF n
  <2>2. /\ InsertAt(shorter, k + 1, e) \in Seq(Entry) /\ Len(InsertAt(shorter, k + 1, e)) = Len(shorter) + 1
        /\ \A j \in 1..(k + 1) - 1 : InsertAt(shorter, k + 1, e)[j] = shorter[j]
        /\ InsertAt(shorter, k + 1, e)[k + 1] = e
        /\ \A j \in k + 1..Len(shorter) : InsertAt(shorter, k + 1, e)[j + 1] = shorter[j]
    <3> DEFINE i == k + 1
    <3> HIDE DEF i
    <3>1. i \in 1..Len(shorter) + 1 /\ shorter \in Seq(Entry) /\ e \in Entry
      BY <1>6, <1>8, <2>1 DEF i
    <3>2. /\ InsertAt(shorter, i, e) \in Seq(Entry) /\ Len(InsertAt(shorter, i, e)) = Len(shorter) + 1
          /\ \A j \in 1..i - 1 : InsertAt(shorter, i, e)[j] = shorter[j]
          /\ InsertAt(shorter, i, e)[i] = e
          /\ \A j \in i..Len(shorter) : InsertAt(shorter, i, e)[j + 1] = shorter[j]
      BY <3>1, InsertAtIs
    <3> QED BY <3>2 DEF i
  <2> QED BY <1>8, <2>1, <2>2 DEF n
<1> HIDE DEF n
<1>10. \A j \in 1..k : n[j] = l[j]
  BY <1>1, <1>3, <1>8, <1>9
<1>11. \A j \in k + 1..len : n[j + 1].timer = l[j].timer /\ n[j + 1].age = l[j].age
  BY <1>1, <1>3, <1>8, <1>9
<1>12. n[k + 1].timer = h /\ n[k + 1].age = 0 /\ n[k + 1].time = p - Due(l, k)
  BY <1>9 DEF e
<1>13. /\ Due(n, 0) = 0 /\ Due(l, 0) = 0
       /\ \A j \in 0..len + 1 : Due(n, j) \in Nat
       /\ \A j \in 1..len + 1 : Due(n, j) = Due(n, j - 1) + n[j].time
  BY <1>9, DueDef
<1>14. \A j \in 0..k : Due(n, j) = Due(l, j)
  <2>1. \A j \in 0..k : Due(n, 0 + j) - Due(n, 0) = Due(l, 0 + j) - Due(l, 0)
    <3>1. k \in Nat /\ 0 \in Nat /\ 0 + k <= Len(n) /\ 0 + k <= Len(l)
          /\ \A j \in 1..k : n[0 + j].time = l[0 + j].time
      BY <1>1, <1>3, <1>9, <1>10
    <3>2. Alike(n, 0, l, 0, k)
      BY <1>9, <3>1, DueShift
    <3> QED BY <3>2 DEF Alike
  <2>2. \A j \in 0..len : Due(l, j) \in Nat
    BY DueDef
  <2> SUFFICES ASSUME NEW j \in 0..k PROVE Due(n, j) = Due(l, j)
    OBVIOUS
  <2>3. 0 + j = j /\ j \in 0..len /\ j \in 0..len + 1
    BY <1>1, <1>3
  <2> QED BY <2>1, <2>2, <2>3, <1>13
<1>15. Due(n, k + 1) = p
  <2>1. k + 1 \in 1..len + 1 /\ (k + 1) - 1 = k /\ k \in 0..k
    BY <1>1, <1>3
  <2>2. Due(n, k + 1) = Due(l, k) + (p - Due(l, k))
    BY <1>12, <1>13, <1>14, <2>1
  <2> QED BY <1>1, <1>4, <2>2
<1>16. ASSUME NEW j \in k + 1..len PROVE Due(n, j + 1) = Due(l, j)
  <2>1. k # len /\ k + 1 \in 1..len /\ k + 2 \in 1..len + 1 /\ (k + 2) - 1 = k + 1 /\ k + 1 \in k + 1..len
        /\ (k + 1) + 1 = k + 2
    BY <1>1, <1>3
  <2>2. n[k + 2].time = Due(l, k + 1) - p
    BY <1>8, <1>9, <2>1
  <2>3. Due(n, k + 2) = p + (Due(l, k + 1) - p)
    BY <1>13, <1>15, <2>1, <2>2
  <2>4. \A i \in 0..len : Due(l, i) \in Nat
    BY DueDef
  <2>5. Due(n, k + 2) = Due(l, k + 1)
    BY <1>1, <2>1, <2>3, <2>4
  <2>6. \A i \in 0..len - (k + 1) : Due(n, (k + 2) + i) - Due(n, k + 2) = Due(l, (k + 1) + i) - Due(l, k + 1)
    <3>1. /\ k + 2 \in Nat /\ k + 1 \in Nat /\ len - (k + 1) \in Nat
          /\ (k + 2) + (len - (k + 1)) <= Len(n) /\ (k + 1) + (len - (k + 1)) <= Len(l)
      BY <1>1, <1>3, <1>9, <2>1
    <3>2. ASSUME NEW i \in 1..len - (k + 1) PROVE n[(k + 2) + i].time = l[(k + 1) + i].time
      <4>1. (k + 1) + i \in k + 1..len /\ (k + 1) + i \in 1..len /\ (k + 1) + i # k + 1
            /\ ((k + 1) + i) + 1 = (k + 2) + i
        BY <1>1, <1>3, <2>1
      <4>2. n[((k + 1) + i) + 1] = l[(k + 1) + i]
        BY <1>8, <1>9, <4>1
      <4> QED BY <4>1, <4>2
    <3> DEFINE c == len - (k + 1)
               a == k + 2
               b == k + 1
    <3> HIDE DEF a, b, c, len
    <3>3. \A i \in 0..c : Due(n, a + i) - Due(n, a) = Due(l, b + i) - Due(l, b)
      <4>1. a \in Nat /\ b \in Nat /\ c \in Nat /\ a + c <= Len(n) /\ b + c <= Len(l)
            /\ \A i \in 1..c : n[a + i].time = l[b + i].time
        BY <3>1, <3>2 DEF a, b, c
      <4>2. Alike(n, a, l, b, c)
        BY <1>9, <4>1, DueShift
      <4> QED BY <4>2 DEF Alike
    <3> QED BY <3>3 DEF a, b, c
  <2>7. /\ j - (k + 1) \in 0..len - (k + 1) /\ (k + 2) + (j - (k + 1)) = j + 1
        /\ (k + 1) + (j - (k + 1)) = j /\ j \in 0..len /\ j + 1 \in 0..len + 1
    BY <1>1, <1>3
  <2>8. Due(n, j + 1) - Due(n, k + 2) = Due(l, j) - Due(l, k + 1)
    BY <2>6, <2>7
  <2>9. Due(n, j + 1) \in Nat
    BY <1>13, <2>7
  <2>10. Due(l, j) \in Nat /\ Due(l, k + 1) \in Nat
    <3>1. k + 1 \in 0..len
      BY <1>1, <2>1
    <3> QED BY <2>4, <2>7, <3>1
  <2> QED BY <2>5, <2>8, <2>9, <2>10
<1>17. Placed(l, h, n, k)
  BY <1>9, <1>10, <1>11, <1>12, <1>14, <1>15, <1>16 DEF Placed
<1> QED BY <1>3, <1>5, <1>17

-----------------------------------------------------------------------------
(* What the steps do to the list of timers.                                *)
InList(l, h) == \E i \in 1..Len(l) : l[i].timer = h
RemainsIn(l, h) == LET set == {i \in 1..Len(l) : l[i].timer = h}
                   IN IF set = {} THEN -1 ELSE Due(l, Min(set))

(* No timer is in the list twice; and a timer is at least as old as it has *)
(* come closer to its date, and as the thread has waited since (p).        *)
Once(l) == \A i, j \in 1..Len(l) : l[i].timer = l[j].timer => i = j
Aged(l, p) == \A k \in 1..Len(l) : \/ l[k].age = Longest
                                   \/ Period[l[k].timer] - Due(l, k) + p <= l[k].age
InTime(l, p) == l \in Seq(Entry) /\ Once(l) /\ Aged(l, p)

LEMMA RemainsIs ==
  ASSUME NEW l \in Seq(Entry), Once(l), NEW i \in 1..Len(l)
  PROVE  RemainsIn(l, l[i].timer) = Due(l, i)
<1>1. {j \in 1..Len(l) : l[j].timer = l[i].timer} = {i}
  BY DEF Once
<1>2. Min({i}) = i
  <2>1. \A x \in {i} : x = i /\ \A y \in {i} : x <= y
    OBVIOUS
  <2> QED BY <2>1 DEF Min
<1> QED BY <1>1, <1>2 DEF RemainsIn

LEMMA RemainsNot == \A l, h : ~InList(l, h) => RemainsIn(l, h) = -1
BY DEF InList, RemainsIn

(* When what is in two lists is due at dates that differ by d, their       *)
(* timers remain for times that differ by d.                               *)
LEMMA RemainsLess ==
  ASSUME NEW l \in Seq(Entry), Once(l), NEW n \in Seq(Entry), Once(n), NEW d \in Int,
         NEW i \in 1..Len(l), NEW j \in 1..Len(n), l[i].timer = n[j].timer,
         Due(n, j) = Due(l, i) - d
  PROVE  RemainsIn(n, l[i].timer) = RemainsIn(l, l[i].timer) - d
BY RemainsIs

(* A timer is set.                                                         *)
LEMMA SetIt ==
  ASSUME NEW l, InTime(l, 0), NEW h \in Timers, ~InList(l, h), NEW n, n = SysTimeout(l, h)
  PROVE  /\ InTime(n, 0) /\ Len(n) = Len(l) + 1
         /\ \A g : InList(n, g) <=> InList(l, g) \/ g = h
         /\ RemainsIn(n, h) = Period[h]
         /\ \A g : g # h => RemainsIn(n, g) = RemainsIn(l, g)
<1> DEFINE len == Len(l)
<1>1. l \in Seq(Entry) /\ Once(l) /\ Aged(l, 0) /\ len \in Nat
  BY DEF InTime
<1>2. PICK k \in 0..len : Placed(l, h, n, k)
  BY <1>1, SysTimeoutIs
<1>3. /\ n \in Seq(Entry) /\ Len(n) = len + 1 /\ k + 1 \in 1..len + 1
      /\ n[k + 1].timer = h /\ n[k + 1].age = 0 /\ Due(n, k + 1) = Period[h]
  BY <1>1, <1>2 DEF Placed
<1> DEFINE Pos(j) == IF j <= k THEN j ELSE j + 1
<1>4. ASSUME NEW j \in 1..len
      PROVE  /\ Pos(j) \in 1..len + 1 /\ Pos(j) # k + 1
             /\ n[Pos(j)].timer = l[j].timer /\ n[Pos(j)].age = l[j].age
             /\ Due(n, Pos(j)) = Due(l, j)
  <2>1. CASE j <= k
    <3>1. j \in 1..k /\ j \in 0..k /\ Pos(j) = j /\ j \in 1..len + 1 /\ j # k + 1
      BY <1>1, <2>1
    <3> QED BY <1>2, <3>1 DEF Placed
  <2>2. CASE ~(j <= k)
    <3>1. j \in k + 1..len /\ Pos(j) = j + 1 /\ j + 1 \in 1..len + 1 /\ j + 1 # k + 1
      BY <1>1, <2>2
    <3> QED BY <1>2, <3>1 DEF Placed
  <2> QED BY <2>1, <2>2
<1>5. ASSUME NEW i \in 1..len + 1, i # k + 1 PROVE \E j \in 1..len : i = Pos(j)
  <2>1. CASE i <= k
    BY <1>1, <2>1
  <2>2. CASE ~(i <= k)
    <3>1. i - 1 \in 1..len /\ ~(i - 1 <= k) /\ (i - 1) + 1 = i
      BY <1>1, <1>5, <2>2
    <3> QED BY <3>1
  <2> QED BY <2>1, <2>2
<1> HIDE DEF Pos
<1>6. \A j \in 1..len : l[j].timer # h
  BY DEF InList
<1>7. Once(n)
  <2> SUFFICES ASSUME NEW i \in 1..len + 1, NEW j \in 1..len + 1, n[i].timer = n[j].timer PROVE i = j
    BY <1>3 DEF Once
  <2>1. CASE i = k + 1 /\ j = k + 1
    BY <2>1
  <2>2. CASE i # k + 1 /\ j # k + 1
    <3>1. PICK a \in 1..len, b \in 1..len : i = Pos(a) /\ j = Pos(b)
      BY <1>5, <2>2
    <3>2. l[a].timer = l[b].timer
      BY <1>4, <3>1
    <3> QED BY <1>1, <3>1, <3>2 DEF Once
  <2>3. CASE i = k + 1 /\ j # k + 1
    <3>1. PICK b \in 1..len : j = Pos(b)
      BY <1>5, <2>3
    <3> QED BY <1>3, <1>4, <1>6, <2>3, <3>1
  <2>4. CASE i # k + 1 /\ j = k + 1
    <3>1. PICK a \in 1..len : i = Pos(a)
      BY <1>5, <2>4
    <3> QED BY <1>3, <1>4, <1>6, <2>4, <3>1
  <2> QED BY <2>1, <2>2, <2>3, <2>4
<1>8. Aged(n, 0)
  <2> SUFFICES ASSUME NEW i \in 1..len + 1
               PROVE  n[i].age = Longest \/ Period[n[i].timer] - Due(n, i) + 0 <= n[i].age
    BY <1>3 DEF Aged
  <2>1. CASE i = k + 1
    <3>1. Period[h] \in Nat
      BY LongestPeriod
    <3> QED BY <1>3, <2>1, <3>1
  <2>2. CASE i # k + 1
    <3>1. PICK j \in 1..len : i = Pos(j)
      BY <1>5, <2>2
    <3>2. l[j].age = Longest \/ Period[l[j].timer] - Due(l, j) + 0 <= l[j].age
      BY <1>1 DEF Aged
    <3> QED BY <1>4, <3>1, <3>2
  <2> QED BY <2>1, <2>2
<1>9. ASSUME NEW g PROVE InList(n, g) <=> InList(l, g) \/ g = h
  <2>1. ASSUME InList(n, g), g # h PROVE InList(l, g)
    <3>1. PICK i \in 1..len + 1 : n[i].timer = g
      BY <1>3, <2>1 DEF InList
    <3>2. PICK j \in 1..len : i = Pos(j)
      BY <1>3, <1>5, <2>1, <3>1
    <3> QED BY <1>4, <3>1, <3>2 DEF InList
  <2>2. ASSUME InList(l, g) PROVE InList(n, g)
    <3>1. PICK j \in 1..len : l[j].timer = g
      BY <2>2 DEF InList
    <3> QED BY <1>3, <1>4, <3>1 DEF InList
  <2>3. InList(n, h)
    BY <1>3 DEF InList
  <2> QED BY <2>1, <2>2, <2>3
<1>10. RemainsIn(n, h) = Period[h]
  <2>1. k + 1 \in 1..Len(n)
    BY <1>3
  <2> QED BY <1>3, <1>7, <2>1, RemainsIs
<1>11. ASSUME NEW g, g # h PROVE RemainsIn(n, g) = RemainsIn(l, g)
  <2>1. CASE InList(l, g)
    <3>1. PICK j \in 1..len : l[j].timer = g
      BY <2>1 DEF InList
    <3>2. RemainsIn(l, g) = Due(l, j)
      BY <1>1, <3>1, RemainsIs
    <3>3. Pos(j) \in 1..Len(n) /\ n[Pos(j)].timer = g /\ Due(n, Pos(j)) = Due(l, j)
      BY <1>3, <1>4, <3>1
    <3>4. RemainsIn(n, n[Pos(j)].timer) = Due(n, Pos(j))
      BY <1>3, <1>7, <3>3, RemainsIs
    <3> QED BY <3>2, <3>3, <3>4
  <2>2. CASE ~InList(l, g)
    BY <1>9, <1>11, <2>2, RemainsNot
  <2> QED BY <2>1, <2>2
<1> QED BY <1>3, <1>7, <1>8, <1>9, <1>10, <1>11 DEF InTime

(* The first timer goes off.  When the thread has waited for its time, it  *)
(* is as old as its period, and the rest is due that much sooner.          *)
LEMMA PopIt ==
  ASSUME NEW l, NEW p \in Nat, InTime(l, p), l # <<>>, Head(l).time <= p, NEW n, n = Tail(l)
  PROVE  /\ InTime(n, 0) /\ Len(n) = Len(l) - 1
         /\ Head(l).timer \in Timers /\ Head(l).time \in Nat
         /\ \A g : InList(n, g) <=> InList(l, g) /\ g # Head(l).timer
         /\ Head(l).age >= Period[Head(l).timer]
         /\ InList(l, Head(l).timer) /\ RemainsIn(l, Head(l).timer) = Head(l).time
         /\ \A g : InList(l, g) => RemainsIn(l, g) \in Nat /\ Head(l).time <= RemainsIn(l, g)
         /\ \A g : InList(n, g) => RemainsIn(n, g) = RemainsIn(l, g) - Head(l).time
<1> DEFINE e == Head(l)
<1>1. l \in Seq(Entry) /\ Once(l) /\ Aged(l, p) /\ Longest \in Nat
  BY LongestPeriod DEF InTime
<1>2. PICK len \in Nat : Len(l) = len + 1
  <2>1. Len(l) \in Nat /\ Len(l) # 0
    BY <1>1, EmptySeq
  <2> QED BY <2>1
<1>3. n \in Seq(Entry) /\ Len(n) = len /\ \A j \in 1..len : n[j] = l[j + 1]
  BY <1>1, <1>2
<1>4. e = l[1] /\ e.timer \in Timers /\ e.time \in Nat /\ e.age \in 0..Longest /\ 1 \in 1..Len(l)
  <2>1. 1 \in 1..Len(l) /\ e = l[1]
    BY <1>1, <1>2
  <2> QED BY <1>1, <2>1, EntryOf
<1>5. /\ Due(l, 0) = 0 /\ Due(l, 1) = e.time /\ \A j \in 0..len + 1 : Due(l, j) \in Nat
      /\ Due(n, 0) = 0 /\ \A j \in 0..len : Due(n, j) \in Nat
  <2>1. Due(l, 1) = Due(l, 0) + e.time /\ Due(l, 0) = 0 /\ \A j \in 0..len + 1 : Due(l, j) \in Nat
    <3>1. Due(l, 1) = Due(l, 1 - 1) + l[1].time
      BY <1>1, <1>4, DueDef
    <3>2. 1 - 1 = 0
      OBVIOUS
    <3>3. Due(l, 0) = 0 /\ \A j \in 0..Len(l) : Due(l, j) \in Nat
      BY <1>1, DueDef
    <3> QED BY <1>2, <1>4, <3>1, <3>2, <3>3
  <2>2. Due(n, 0) = 0 /\ \A j \in 0..len : Due(n, j) \in Nat
    BY <1>3, DueDef
  <2> QED BY <1>4, <2>1, <2>2
<1> HIDE DEF e
<1>6. \A j \in 1..len : Due(n, j) = Due(l, j + 1) - e.time
  <2>1. Alike(l, 1, n, 0, len)
    <3>1. 1 + len <= Len(l) /\ 0 + len <= Len(n) /\ \A j \in 1..len : l[1 + j].time = n[0 + j].time
      BY <1>2, <1>3
    <3> QED BY <1>1, <1>3, <3>1, DueShift
  <2> SUFFICES ASSUME NEW j \in 1..len PROVE Due(n, j) = Due(l, j + 1) - e.time
    OBVIOUS
  <2>2. j \in 0..len /\ 1 + j = j + 1 /\ 0 + j = j /\ j + 1 \in 0..len + 1
    OBVIOUS
  <2>3. Due(l, j + 1) - Due(l, 1) = Due(n, j) - Due(n, 0)
    BY <2>1, <2>2 DEF Alike
  <2> QED BY <1>4, <1>5, <2>2, <2>3
<1>7. Once(n)
  <2> SUFFICES ASSUME NEW i \in 1..len, NEW j \in 1..len, n[i].timer = n[j].timer PROVE i = j
    BY <1>3 DEF Once
  <2>1. i + 1 \in 1..Len(l) /\ j + 1 \in 1..Len(l) /\ l[i + 1].timer = l[j + 1].timer
    BY <1>2, <1>3
  <2>2. i + 1 = j + 1
    BY <1>1, <2>1 DEF Once
  <2> QED BY <2>2
<1>8. \A k \in 1..len + 1 : l[k].age = Longest \/ Period[l[k].timer] - Due(l, k) + p <= l[k].age
  BY <1>1, <1>2 DEF Aged
<1>9. Aged(n, 0)
  <2> SUFFICES ASSUME NEW j \in 1..len
               PROVE  n[j].age = Longest \/ Period[n[j].timer] - Due(n, j) + 0 <= n[j].age
    BY <1>3 DEF Aged
  <2>1. j + 1 \in 1..len + 1 /\ j + 1 \in 1..Len(l) /\ j + 1 \in 0..len + 1
    BY <1>2
  <2>2. l[j + 1].age = Longest \/ Period[l[j + 1].timer] - Due(l, j + 1) + p <= l[j + 1].age
    BY <1>8, <2>1
  <2>3. n[j] = l[j + 1] /\ Due(n, j) = Due(l, j + 1) - e.time
    BY <1>3, <1>6
  <2>4. Period[l[j + 1].timer] \in Nat /\ l[j + 1].age \in Nat /\ Due(l, j + 1) \in Nat /\ e.time <= p
    <3>1. l[j + 1].timer \in Timers /\ l[j + 1].age \in Nat
      BY <1>1, <2>1, EntryOf
    <3> QED BY <1>5, <2>1, <3>1, LongestPeriod DEF e
  <2>5. CASE l[j + 1].age = Longest
    BY <2>3, <2>5
  <2>6. CASE Period[l[j + 1].timer] - Due(l, j + 1) + p <= l[j + 1].age
    <3>1. Period[l[j + 1].timer] - (Due(l, j + 1) - e.time) + 0 <= l[j + 1].age
      BY <1>4, <2>4, <2>6
    <3> QED BY <2>3, <3>1
  <2> QED BY <2>2, <2>5, <2>6
<1>10. e.age >= Period[e.timer]
  <2>1. e.age = Longest \/ Period[e.timer] - e.time + p <= e.age
    BY <1>2, <1>4, <1>5, <1>8
  <2>2. Period[e.timer] \in 1..Longest /\ e.time <= p
    BY <1>4, LongestPeriod DEF e
  <2> QED BY <1>1, <1>4, <2>1, <2>2
<1>11. ASSUME NEW g PROVE InList(n, g) <=> InList(l, g) /\ g # e.timer
  <2>1. ASSUME InList(n, g) PROVE InList(l, g) /\ g # e.timer
    <3>1. PICK j \in 1..len : n[j].timer = g
      BY <1>3, <2>1 DEF InList
    <3>2. j + 1 \in 1..Len(l) /\ l[j + 1].timer = g /\ j + 1 # 1
      BY <1>2, <1>3, <3>1
    <3> QED BY <1>1, <1>4, <3>2 DEF InList, Once
  <2>2. ASSUME InList(l, g), g # e.timer PROVE InList(n, g)
    <3>1. PICK i \in 1..Len(l) : l[i].timer = g
      BY <2>2 DEF InList
    <3>2. i # 1
      BY <1>4, <2>2, <3>1
    <3>3. i - 1 \in 1..len /\ (i - 1) + 1 = i
      BY <1>2, <3>2
    <3>4. n[i - 1] = l[(i - 1) + 1]
      BY <1>3, <3>3
    <3>5. n[i - 1].timer = g
      BY <3>1, <3>3, <3>4
    <3> QED BY <1>3, <3>3, <3>5 DEF InList
  <2> QED BY <2>1, <2>2
<1>12. InList(l, e.timer) /\ RemainsIn(l, e.timer) = e.time
  BY <1>1, <1>4, <1>5, RemainsIs DEF InList
<1>13. ASSUME NEW g, InList(l, g) PROVE RemainsIn(l, g) \in Nat /\ e.time <= RemainsIn(l, g)
  <2>1. PICK i \in 1..Len(l) : l[i].timer = g
    BY <1>13 DEF InList
  <2>2. RemainsIn(l, g) = Due(l, i)
    BY <1>1, <2>1, RemainsIs
  <2>3. 1 \in 0..Len(l) /\ i \in 1..Len(l) /\ i \in 0..len + 1
    BY <1>2, <2>1
  <2>4. Due(l, 1) <= Due(l, i)
    BY <1>1, <2>3, DueMonotone
  <2> QED BY <1>5, <2>2, <2>3, <2>4
<1>14. ASSUME NEW g, InList(n, g) PROVE RemainsIn(n, g) = RemainsIn(l, g) - e.time
  <2>1. PICK j \in 1..len : n[j].timer = g
    BY <1>3, <1>14 DEF InList
  <2>2. j + 1 \in 1..Len(l) /\ l[j + 1].timer = g /\ j \in 1..Len(n)
    BY <1>2, <1>3, <2>1
  <2>3. RemainsIn(l, g) = Due(l, j + 1)
    BY <1>1, <2>2, RemainsIs
  <2>4. RemainsIn(n, g) = Due(n, j)
    BY <1>3, <1>7, <2>1, <2>2, RemainsIs
  <2> QED BY <1>6, <2>3, <2>4
<1>15. Len(n) = Len(l) - 1
  BY <1>2, <1>3
<1> QED BY <1>3, <1>4, <1>7, <1>9, <1>10, <1>11, <1>12, <1>13, <1>14, <1>15 DEF InTime, e

(* A wait is taken off the first timer, and so off all of them, but for    *)
(* what it was too long.                                                   *)
Counted(l, w) == [l EXCEPT ![1].time = Max({l[1].time - w, 0})]

LEMMA CountIt ==
  ASSUME NEW l, NEW w \in Nat, InTime(l, w), l # <<>>,
         NEW n, n = Counted(l, w)
  PROVE  /\ InTime(n, 0) /\ Len(n) = Len(l) /\ \A g : InList(n, g) <=> InList(l, g)
         /\ Head(l).timer \in Timers /\ InList(l, Head(l).timer)
         /\ \A g : InList(l, g) => /\ RemainsIn(l, g) \in Nat
                                   /\ RemainsIn(l, Head(l).timer) <= RemainsIn(l, g)
         /\ \E d \in 0..RemainsIn(l, Head(l).timer) :
              \A g : InList(l, g) => RemainsIn(n, g) = RemainsIn(l, g) - d
<1> DEFINE t == l[1].time
           d == IF w <= t THEN w ELSE t
           e == [l[1] EXCEPT !.time = t - d]
<1>1. l \in Seq(Entry) /\ Once(l) /\ Aged(l, w) /\ Longest \in Nat
  BY LongestPeriod DEF InTime
<1>2. PICK len \in Nat : Len(l) = len + 1
  <2>1. Len(l) \in Nat /\ Len(l) # 0
    BY <1>1, EmptySeq
  <2>2. Len(l) - 1 \in Nat /\ Len(l) = (Len(l) - 1) + 1
    BY <2>1
  <2> QED BY <2>2
<1>3. Head(l) = l[1] /\ l[1] \in Entry /\ l[1].timer \in Timers /\ t \in 0..Longest /\ t \in Nat /\ 1 \in 1..Len(l)
  <2>1. 1 \in 1..Len(l) /\ Head(l) = l[1]
    BY <1>1, <1>2
  <2> QED BY <1>1, <2>1, EntryOf
<1>4. d \in 0..t /\ d <= w /\ d \in Nat /\ t - d \in 0..Longest /\ t - d \in Nat
  BY <1>1, <1>3
<1>5. Max({t - w, 0}) = t - d
  <2>1. t - w \in Int /\ 0 \in Int
    BY <1>3
  <2>2. Max({t - w, 0}) = IF t - w >= 0 THEN t - w ELSE 0
    BY <2>1, MaxTwo
  <2> QED BY <1>3, <2>2
<1>6. e \in Entry /\ e.timer = l[1].timer /\ e.age = l[1].age /\ e.time = t - d
  BY <1>3, <1>4 DEF Entry
<1>7. n = [l EXCEPT ![1] = e]
  BY <1>5 DEF Counted
<1> HIDE DEF t, d, e
<1>8. n \in Seq(Entry) /\ Len(n) = len + 1 /\ n[1] = e /\ \A j \in 2..len + 1 : n[j] = l[j]
  BY <1>1, <1>2, <1>3, <1>6, <1>7
<1>9. \A j \in 1..len + 1 : n[j].timer = l[j].timer /\ n[j].age = l[j].age
  <2> SUFFICES ASSUME NEW j \in 1..len + 1 PROVE n[j].timer = l[j].timer /\ n[j].age = l[j].age
    OBVIOUS
  <2>1. j = 1 \/ j \in 2..len + 1
    OBVIOUS
  <2> QED BY <1>6, <1>8, <2>1
<1>10. /\ Due(l, 1) = t /\ Due(n, 1) = t - d /\ \A j \in 0..len + 1 : Due(l, j) \in Nat /\ Due(n, j) \in Nat
  <2>1. Due(l, 1) = Due(l, 1 - 1) + l[1].time /\ Due(n, 1) = Due(n, 1 - 1) + n[1].time
    BY <1>1, <1>2, <1>3, <1>8, DueDef
  <2>2. 1 - 1 = 0
    OBVIOUS
  <2>3. Due(l, 0) = 0 /\ Due(n, 0) = 0 /\ \A j \in 0..len + 1 : Due(l, j) \in Nat /\ Due(n, j) \in Nat
    BY <1>1, <1>2, <1>8, DueDef
  <2>4. Due(l, 1) = t /\ Due(n, 1) = 0 + (t - d)
    BY <1>3, <1>6, <1>8, <2>1, <2>2, <2>3 DEF t
  <2> QED BY <1>4, <2>3, <2>4
<1>11. \A j \in 1..len + 1 : Due(n, j) = Due(l, j) - d
  <2>1. Alike(l, 1, n, 1, len)
    <3>1. 1 + len <= Len(l) /\ 1 + len <= Len(n) /\ \A j \in 1..len : l[1 + j].time = n[1 + j].time
      BY <1>2, <1>8
    <3> QED BY <1>1, <1>8, <3>1, DueShift
  <2> SUFFICES ASSUME NEW j \in 1..len + 1 PROVE Due(n, j) = Due(l, j) - d
    OBVIOUS
  <2>2. j - 1 \in 0..len /\ 1 + (j - 1) = j /\ j \in 0..len + 1
    OBVIOUS
  <2>3. Due(l, j) - Due(l, 1) = Due(n, j) - Due(n, 1)
    BY <2>1, <2>2 DEF Alike
  <2>4. Due(l, j) \in Nat /\ Due(n, j) \in Nat
    BY <1>10, <2>2
  <2>5. Due(l, 1) = t /\ Due(n, 1) = t - d
    BY <1>10
  <2> QED BY <1>3, <1>4, <2>3, <2>4, <2>5
<1>12. Once(n)
  BY <1>1, <1>2, <1>8, <1>9 DEF Once
<1>13. Aged(n, 0)
  <2> SUFFICES ASSUME NEW j \in 1..len + 1
               PROVE  n[j].age = Longest \/ Period[n[j].timer] - Due(n, j) + 0 <= n[j].age
    BY <1>8 DEF Aged
  <2>1. l[j].age = Longest \/ Period[l[j].timer] - Due(l, j) + w <= l[j].age
    BY <1>1, <1>2 DEF Aged
  <2>2. n[j].timer = l[j].timer /\ n[j].age = l[j].age /\ Due(n, j) = Due(l, j) - d
    BY <1>9, <1>11
  <2>3. Period[l[j].timer] \in Nat /\ l[j].age \in Nat /\ Due(l, j) \in Nat
    <3>1. l[j].timer \in Timers /\ l[j].age \in Nat
      BY <1>1, <1>2, EntryOf
    <3> QED BY <1>10, <3>1, LongestPeriod
  <2>4. CASE l[j].age = Longest
    BY <2>2, <2>4
  <2>5. CASE Period[l[j].timer] - Due(l, j) + w <= l[j].age
    <3>1. Period[l[j].timer] - (Due(l, j) - d) + 0 <= l[j].age
      BY <1>4, <2>3, <2>5
    <3> QED BY <2>2, <3>1
  <2> QED BY <2>1, <2>4, <2>5
<1>14. \A g : InList(n, g) <=> InList(l, g)
  BY <1>2, <1>8, <1>9 DEF InList
<1>15. InList(l, Head(l).timer) /\ RemainsIn(l, Head(l).timer) = t
  <2>1. RemainsIn(l, l[1].timer) = Due(l, 1)
    BY <1>1, <1>3, RemainsIs
  <2> QED BY <1>3, <1>10, <2>1 DEF InList
<1>16. ASSUME NEW g, InList(l, g)
       PROVE  RemainsIn(l, g) \in Nat /\ t <= RemainsIn(l, g) /\ RemainsIn(n, g) = RemainsIn(l, g) - d
  <2>1. PICK i \in 1..len + 1 : l[i].timer = g
    BY <1>2, <1>16 DEF InList
  <2>2. RemainsIn(l, g) = Due(l, i)
    BY <1>1, <1>2, <2>1, RemainsIs
  <2>3. RemainsIn(n, n[i].timer) = Due(n, i)
    BY <1>8, <1>12, RemainsIs
  <2>4. RemainsIn(n, g) = Due(n, i)
    BY <1>9, <2>1, <2>3
  <2>5. 1 \in 0..Len(l) /\ i \in 1..Len(l) /\ i \in 0..len + 1
    BY <1>2, <2>1
  <2>6. Due(l, 1) <= Due(l, i)
    BY <1>1, <2>5, DueMonotone
  <2>7. Due(l, i) \in Nat /\ Due(n, i) = Due(l, i) - d
    BY <1>10, <1>11, <2>5
  <2> QED BY <1>10, <2>2, <2>4, <2>6, <2>7
<1> QED BY <1>2, <1>3, <1>4, <1>8, <1>12, <1>13, <1>14, <1>15, <1>16 DEF InTime

(* A tick passes.                                                          *)
Older(l) == [i \in 1..Len(l) |-> [l[i] EXCEPT !.age = Min({l[i].age + 1, Longest})]]

LEMMA OlderIt ==
  ASSUME NEW l, NEW p \in Nat, InTime(l, p), NEW q \in Nat, q <= p + 1,
         NEW n, n = Older(l)
  PROVE  /\ InTime(n, q) /\ Len(n) = Len(l)
         /\ \A g : (InList(n, g) <=> InList(l, g)) /\ RemainsIn(n, g) = RemainsIn(l, g)
<1>1. l \in Seq(Entry) /\ Once(l) /\ Aged(l, p) /\ Longest \in Nat
  BY LongestPeriod DEF InTime
<1>2. PICK len \in Nat : Len(l) = len
  BY <1>1
<1>3. ASSUME NEW i \in 1..len
      PROVE  /\ n[i] \in Entry /\ n[i].timer = l[i].timer /\ n[i].time = l[i].time
             /\ n[i].age = IF l[i].age + 1 <= Longest THEN l[i].age + 1 ELSE Longest
             /\ l[i].age \in 0..Longest /\ l[i].timer \in Timers
  <2>1. l[i] \in Entry /\ l[i].age \in 0..Longest /\ l[i].timer \in Timers
    BY <1>1, <1>2, EntryOf
  <2> DEFINE a == Min({l[i].age + 1, Longest})
  <2>2. a = IF l[i].age + 1 <= Longest THEN l[i].age + 1 ELSE Longest
    <3>1. l[i].age + 1 \in Int /\ Longest \in Int
      BY <1>1, <2>1
    <3> QED BY <3>1, MinTwo
  <2>3. a \in 0..Longest
    BY <1>1, <2>1, <2>2
  <2>4. n[i] = [l[i] EXCEPT !.age = a]
    BY <1>2 DEF Older
  <2> HIDE DEF a
  <2> QED BY <2>1, <2>2, <2>3, <2>4 DEF Entry
<1>4. n \in Seq(Entry) /\ Len(n) = len
  <2>1. n \in [1..len -> Entry]
    BY <1>2, <1>3 DEF Older
  <2> QED BY <1>2, <2>1
<1>5. Once(n)
  BY <1>1, <1>2, <1>3, <1>4 DEF Once
<1>6. \A j \in 0..len : Due(n, j) = Due(l, j)
  <2>1. Alike(l, 0, n, 0, len)
    <3>1. 0 + len <= Len(l) /\ 0 + len <= Len(n) /\ \A j \in 1..len : l[0 + j].time = n[0 + j].time
      BY <1>2, <1>3, <1>4
    <3> QED BY <1>1, <1>4, <3>1, DueShift
  <2> SUFFICES ASSUME NEW j \in 0..len PROVE Due(n, j) = Due(l, j)
    OBVIOUS
  <2>2. 0 + j = j
    OBVIOUS
  <2>3. Due(l, j) - Due(l, 0) = Due(n, j) - Due(n, 0)
    BY <2>1, <2>2 DEF Alike
  <2>4. Due(l, 0) = 0 /\ Due(n, 0) = 0 /\ Due(l, j) \in Nat /\ Due(n, j) \in Nat
    BY <1>1, <1>2, <1>4, DueDef
  <2> QED BY <2>3, <2>4
<1>7. Aged(n, q)
  <2> SUFFICES ASSUME NEW j \in 1..len
               PROVE  n[j].age = Longest \/ Period[n[j].timer] - Due(n, j) + q <= n[j].age
    BY <1>4 DEF Aged
  <2>1. l[j].age = Longest \/ Period[l[j].timer] - Due(l, j) + p <= l[j].age
    BY <1>1, <1>2 DEF Aged
  <2>2. Period[l[j].timer] \in Nat /\ Due(l, j) \in Nat /\ j \in 0..len
    <3>1. Period[l[j].timer] \in Nat
      BY <1>3, LongestPeriod
    <3>2. j \in 0..len
      OBVIOUS
    <3> QED BY <1>1, <1>2, <3>1, <3>2, DueDef
  <2>5. l[j].age \in 0..Longest /\ n[j].timer = l[j].timer /\ Due(n, j) = Due(l, j)
        /\ n[j].age = IF l[j].age + 1 <= Longest THEN l[j].age + 1 ELSE Longest
    BY <1>3, <1>6, <2>2
  <2>3. CASE l[j].age + 1 <= Longest
    <3>1. l[j].age # Longest
      BY <1>1, <2>3, <2>5
    <3>2. Period[l[j].timer] - Due(l, j) + q <= l[j].age + 1
      BY <2>1, <2>2, <2>5, <3>1
    <3> QED BY <2>3, <2>5, <3>2
  <2>4. CASE ~(l[j].age + 1 <= Longest)
    BY <1>3, <2>4
  <2> QED BY <2>3, <2>4
<1>8. \A g : InList(n, g) <=> InList(l, g)
  BY <1>2, <1>3, <1>4 DEF InList
<1>9. ASSUME NEW g PROVE RemainsIn(n, g) = RemainsIn(l, g)
  <2>1. CASE InList(l, g)
    <3>1. PICK j \in 1..len : l[j].timer = g
      BY <1>2, <2>1 DEF InList
    <3>2. RemainsIn(l, g) = Due(l, j)
      BY <1>1, <1>2, <3>1, RemainsIs
    <3>3. RemainsIn(n, n[j].timer) = Due(n, j)
      BY <1>4, <1>5, RemainsIs
    <3>4. Due(n, j) = Due(l, j)
      <4>1. j \in 0..len
        OBVIOUS
      <4> QED BY <1>6, <4>1
    <3> QED BY <1>3, <3>1, <3>2, <3>3, <3>4
  <2>2. CASE ~InList(l, g)
    BY <1>8, <2>2, RemainsNot
  <2> QED BY <2>1, <2>2
<1> QED BY <1>2, <1>4, <1>5, <1>7, <1>8, <1>9 DEF InTime

(* Nothing changes but that the thread has waited for less.                *)
LEMMA InTimeSooner ==
  ASSUME NEW l, NEW p \in Nat, InTime(l, p), NEW q \in Nat, q <= p
  PROVE  InTime(l, q)
<1>1. l \in Seq(Entry) /\ Aged(l, p)
  BY DEF InTime
<1>2. Aged(l, q)
  <2> SUFFICES ASSUME NEW k \in 1..Len(l)
               PROVE  l[k].age = Longest \/ Period[l[k].timer] - Due(l, k) + q <= l[k].age
    BY DEF Aged
  <2>1. l[k].age = Longest \/ Period[l[k].timer] - Due(l, k) + p <= l[k].age
    BY <1>1 DEF Aged
  <2>2. Period[l[k].timer] \in Nat /\ Due(l, k) \in Nat /\ l[k].age \in Nat
    <3>1. k \in 0..Len(l) /\ l[k].timer \in Timers /\ l[k].age \in Nat
      BY <1>1, EntryOf
    <3> QED BY <1>1, <3>1, LongestPeriod, DueDef
  <2> QED BY <2>1, <2>2
<1> QED BY <1>2 DEF InTime

(* The timers that are set at the start, one after the other.              *)
LEMMA InitIt ==
  ASSUME NEW none
  PROVE  /\ InTime(SysTimeoutsInit(none), 0)
         /\ \A g : InList(SysTimeoutsInit(none), g) <=> g \in ToSet(Cyclic) \ none
         /\ \A g \in ToSet(Cyclic) \ none : RemainsIn(SysTimeoutsInit(none), g) = Period[g]
<1> DEFINE n == Len(Cyclic)
           Step(l, i) == IF Cyclic[i] \in none THEN l ELSE SysTimeout(l, Cyclic[i])
           step == [i \in 1..n |-> [l \in Seq(Entry) |-> Step(l, i)]]
           IsSet(f) == f = [i \in 0..n |-> IF i = 0 THEN <<>>
                                           ELSE IF Cyclic[i] \in none THEN f[i - 1]
                                           ELSE SysTimeout(f[i - 1], Cyclic[i])]
           set == CHOOSE f : IsSet(f)
<1>1. /\ n \in Nat /\ ToSet(Cyclic) = {Cyclic[j] : j \in 1..n}
      /\ \A j \in 1..n : Cyclic[j] \in Timers
      /\ \A i, j \in 1..n : Cyclic[i] = Cyclic[j] => i = j
  <2>1. Cyclic \in Seq(ToSet(Cyclic)) /\ IsInjective(Cyclic)
    BY ThreadAssumption
  <2>2. n \in Nat /\ DOMAIN Cyclic = 1..n
    BY <2>1, LenProperties
  <2> QED BY <2>1, <2>2 DEF ToSet, Timers, IsInjective
<1>2. <<>> \in Seq(Entry)
  BY EmptySeq
<1>3. \A l \in Seq(Entry), h \in Timers : SysTimeout(l, h) \in Seq(Entry)
  BY SysTimeoutIs DEF Placed
<1>4. step \in [1..n -> [Seq(Entry) -> Seq(Entry)]]
  BY <1>1, <1>3
<1>5. PICK f \in [0..n -> Seq(Entry)] : f[0] = <<>> /\ \A i \in 1..n : f[i] = step[i][f[i - 1]]
  <2>1. \E f : Recursive(f, n, Seq(Entry), <<>>, step)
    <3> HIDE DEF step, n
    <3> QED BY <1>1, <1>2, <1>4, Recursion
  <2> QED BY <2>1 DEF Recursive
<1>6. \A i \in 1..n : f[i] = Step(f[i - 1], i)
  <2> SUFFICES ASSUME NEW i \in 1..n PROVE f[i] = Step(f[i - 1], i)
    OBVIOUS
  <2>1. i - 1 \in 0..n
    BY <1>1
  <2>2. f[i - 1] \in Seq(Entry)
    BY <1>5, <2>1
  <2> QED BY <1>5, <2>2
<1>7. IsSet(f)
  BY <1>5, <1>6
<1>8. IsSet(set)
  <2> HIDE DEF IsSet
  <2> QED BY <1>7
<1>9. SysTimeoutsInit(none) = set[n]
  BY DEF SysTimeoutsInit
<1>10. set[0] = <<>> /\ \A i \in 1..n : set[i] = Step(set[i - 1], i)
  <2> HIDE DEF set
  <2> QED BY <1>1, <1>8
<1> HIDE DEF set, step, IsSet
<1> DEFINE IsOn(i) == /\ InTime(set[i], 0)
                      /\ \A g : InList(set[i], g) <=> g \notin none /\ \E j \in 1..i : g = Cyclic[j]
                      /\ \A j \in 1..i : Cyclic[j] \notin none
                           => RemainsIn(set[i], Cyclic[j]) = Period[Cyclic[j]]
           T == {i \in 0..n : IsOn(i)}
<1>11. 0 \in T
  <2>1. Len(set[0]) = 0
    BY <1>10, EmptySeq
  <2>2. InTime(set[0], 0)
    BY <1>2, <1>10, <2>1 DEF InTime, Once, Aged
  <2>3. \A g : ~InList(set[0], g)
    BY <2>1 DEF InList
  <2> QED BY <1>1, <2>2, <2>3
<1>12. ASSUME NEW i \in 0..n - 1, i \in T PROVE i + 1 \in T
  <2> DEFINE c == Cyclic[i + 1]
             l == set[i]
             m == set[i + 1]
  <2>1. /\ i + 1 \in 1..n /\ i + 1 \in 0..n /\ (i + 1) - 1 = i /\ c \in Timers
        /\ \A j \in 1..i : j \in 1..n /\ j # i + 1
        /\ \A j \in 1..i + 1 : j \in 1..i \/ j = i + 1
        /\ \A j \in 1..i : j \in 1..i + 1
    BY <1>1
  <2>2. IsOn(i)
    BY <1>12
  <2>3. \A j \in 1..i : Cyclic[j] # c
    BY <1>1, <2>1
  <2>4. ~InList(l, c)
    BY <2>2, <2>3
  <2>5. m = IF c \in none THEN l ELSE SysTimeout(l, c)
    BY <1>10, <2>1
  <2>6. InTime(l, 0)
    BY <2>2
  <2> HIDE DEF c, l, m
  <2>7. /\ InTime(m, 0) /\ \A g : InList(m, g) <=> InList(l, g) \/ (g = c /\ c \notin none)
        /\ c \notin none => RemainsIn(m, c) = Period[c]
        /\ \A g : g # c => RemainsIn(m, g) = RemainsIn(l, g)
    <3>1. CASE c \in none
      BY <2>5, <2>6, <3>1
    <3>2. CASE c \notin none
      BY <2>1, <2>4, <2>5, <2>6, <3>2, SetIt
    <3> QED BY <3>1, <3>2
  <2>8. \A g : InList(m, g) <=> g \notin none /\ \E j \in 1..i + 1 : g = Cyclic[j]
    <3>1. \A g : InList(l, g) <=> g \notin none /\ \E j \in 1..i : g = Cyclic[j]
      BY <2>2 DEF l
    <3>2. \A g : (\E j \in 1..i + 1 : g = Cyclic[j]) <=> (\E j \in 1..i : g = Cyclic[j]) \/ g = Cyclic[i + 1]
      <4>1. i + 1 \in 1..i + 1
        OBVIOUS
      <4> QED BY <2>1, <4>1
    <3> QED BY <2>7, <3>1, <3>2 DEF c
  <2>9. \A j \in 1..i + 1 : Cyclic[j] \notin none => RemainsIn(m, Cyclic[j]) = Period[Cyclic[j]]
    <3> SUFFICES ASSUME NEW j \in 1..i + 1, Cyclic[j] \notin none
                 PROVE  RemainsIn(m, Cyclic[j]) = Period[Cyclic[j]]
      OBVIOUS
    <3>1. CASE j = i + 1
      BY <2>7, <3>1 DEF c
    <3>2. CASE j \in 1..i
      <4>1. RemainsIn(l, Cyclic[j]) = Period[Cyclic[j]]
        BY <2>2, <3>2 DEF l
      <4> QED BY <2>3, <2>7, <3>2, <4>1
    <3> QED BY <2>1, <3>1, <3>2
  <2>10. IsOn(i + 1)
    BY <2>7, <2>8, <2>9 DEF m
  <2> QED BY <2>1, <2>10
<1>13. IsOn(n)
  <2>1. \A i \in 0..n : i \in T
    <3> HIDE DEF T, n
    <3> QED BY <1>1, <1>11, <1>12, Induction
  <2>2. n \in 0..n
    BY <1>1
  <2>3. n \in T
    BY <2>1, <2>2
  <2> QED BY <2>3
<1> QED BY <1>1, <1>9, <1>13

-----------------------------------------------------------------------------
(* The thread and its timers.                                              *)
Passing == IF thr \in {"wait", "got"} THEN waited ELSE 0
Now == thr = "fire" /\ msg.timer = Tcp

(* A timer that goes off is out of the list; the TCP timer is on as its    *)
(* flag says, unless there was no memory for it.                           *)
Firing == thr = "fire" => msg.timer \in Timers /\ ~InList(list, msg.timer)
Flag == /\ active \in BOOLEAN /\ lost \subseteq Timers
        /\ active => Now \/ InList(list, Tcp) \/ Tcp \in lost
        /\ Tcp \in lost => active /\ ~InList(list, Tcp) /\ ~Now
        /\ ~active => /\ ~InList(list, Tcp) /\ ~Now
                      /\ orphans = 0 /\ \A t \in Callers : pcb[t] = "none"
Limits == /\ Len(mbox) <= MboxSize /\ orphans \in 0..MaxOrphans
          /\ tries \in [Callers -> 0..MaxTries - 1]

ListInv == InTime(list, Passing) /\ waited \in 0..Longest /\ Firing /\ Flag
TimerInv == CallInv /\ ListInv /\ Limits

(* What a step may do to the list.                                         *)
Same == list' = list /\ Passing' <= Passing
Sets == \E h \in Timers : ~InList(list, h) /\ list' = SysTimeout(list, h) /\ Passing = 0 /\ Passing' = 0
Pops == list # <<>> /\ Head(list).time <= Passing /\ list' = Tail(list) /\ Passing' = 0
Counts == list # <<>> /\ Passing' = 0 /\ list' = Counted(list, Passing)
Ages == Passing' <= Passing + 1 /\ list' = Older(list)
Changed == Same \/ Sets \/ Pops \/ Counts \/ Ages

LEMMA PassingType == ListInv => Passing \in Nat /\ Longest \in Nat /\ waited \in Nat
BY LongestPeriod DEF ListInv, Passing

(* With the wait counted in the right place, every change keeps the list   *)
(* in time.                                                                *)
LEMMA InTimeNext ==
  ASSUME ListInv, Changed, waited' \in 0..Longest
  PROVE  InTime(list, Passing)'
<1>1. /\ InTime(list, Passing) /\ Passing \in Nat /\ Passing' \in Nat
  BY PassingType DEF ListInv, Passing
<1>2. CASE Same
  <2>1. InTime(list, Passing')
    BY <1>1, <1>2, InTimeSooner DEF Same
  <2> QED BY <1>2, <2>1 DEF Same
<1>3. CASE Sets
  <2>1. PICK h \in Timers : ~InList(list, h) /\ list' = SysTimeout(list, h) /\ Passing = 0 /\ Passing' = 0
    BY <1>3 DEF Sets
  <2>2. InTime(list', 0)
    BY <1>1, <2>1, SetIt
  <2> QED BY <2>1, <2>2
<1>4. CASE Pops
  <2>1. InTime(list', 0)
    BY <1>1, <1>4, PopIt DEF Pops
  <2> QED BY <1>4, <2>1 DEF Pops
<1>5. CASE Counts
  <2>1. InTime(list', 0)
    BY <1>1, <1>5, CountIt DEF Counts
  <2> QED BY <1>5, <2>1 DEF Counts
<1>6. CASE Ages
  <2>1. InTime(list', Passing')
    BY <1>1, <1>6, OlderIt DEF Ages
  <2> QED BY <2>1
<1> QED BY <1>2, <1>3, <1>4, <1>5, <1>6 DEF Changed

-----------------------------------------------------------------------------
(* The steps of the thread that move the list.                             *)
LEMMA ListInit == Init => ListInv /\ Limits
<1> SUFFICES ASSUME Init PROVE ListInv /\ Limits
  OBVIOUS
<1>1. list = SysTimeoutsInit(lost) /\ lost \subseteq ToSet(Cyclic) /\ thr = "fetch" /\ waited = 0 /\ active = FALSE /\ Passing = 0
  BY DEF Init, Passing
<1>2. InTime(list, Passing)
  BY <1>1, InitIt
<1>3. ~InList(list, Tcp)
  BY <1>1, InitIt, ThreadAssumption
<1>4. Flag
  BY <1>1, <1>3, ThreadAssumption DEF Init, Flag, Now, Timers
<1>5. Limits
  <2>1. Len(mbox) = 0
    BY EmptySeq DEF Init
  <2> QED BY <2>1, ThreadAssumption DEF Init, Limits
<1> QED BY <1>1, <1>2, <1>4, <1>5, LongestPeriod DEF ListInv, Firing

(* The first timer goes off: it is out of the list.                        *)
LEMMA PopStep ==
  ASSUME ListInv, Pop, list # <<>>, Head(list).time <= Passing, UNCHANGED <<active, orphans, pcb, lost>>, ~Now
  PROVE  Pops /\ Firing' /\ Flag'
<1>1. /\ InTime(list, Passing) /\ Passing \in Nat /\ Flag
  BY PassingType DEF ListInv
<1>2. /\ msg' = [type |-> "timer", timer |-> Head(list).timer] /\ list' = Tail(list) /\ thr' = "fire"
  BY DEF Pop
<1>3. /\ Head(list).timer \in Timers
      /\ \A g : InList(list', g) <=> InList(list, g) /\ g # Head(list).timer
      /\ InList(list, Head(list).timer)
  BY <1>1, <1>2, PopIt
<1>4. Firing'
  BY <1>2, <1>3 DEF Firing
<1>5. Flag'
  <2>1. msg'.timer = Head(list).timer
    BY <1>2
  <2>2. CASE active
    <3>1. InList(list, Tcp) \/ Tcp \in lost
      BY <1>1, <2>2 DEF Flag
    <3>2. Now' \/ InList(list', Tcp) \/ Tcp \in lost
      BY <1>2, <1>3, <2>1, <3>1 DEF Now
    <3>3. Tcp \in lost => ~InList(list', Tcp) /\ ~Now'
      BY <1>1, <1>2, <1>3, <2>1 DEF Now, Flag
    <3> QED BY <1>1, <2>2, <3>2, <3>3 DEF Flag
  <2>3. CASE ~active
    <3>1. ~InList(list, Tcp)
      BY <1>1, <2>3 DEF Flag
    <3>2. ~Now' /\ ~InList(list', Tcp)
      BY <1>2, <1>3, <2>1, <3>1 DEF Now
    <3> QED BY <1>1, <2>3, <3>2 DEF Flag
  <2> QED BY <1>1, <2>2, <2>3 DEF Flag
<1> QED BY <1>2, <1>4, <1>5 DEF Pops, Passing

(* A step that leaves the flag alone and what is in the list, and does not *)
(* begin or end a timer, leaves both right.                                *)
LEMMA FlagSame ==
  ASSUME ListInv, UNCHANGED <<active, orphans, pcb, lost>>, thr' = "fire" => thr = "fire" /\ msg' = msg,
         thr = "fire" => thr' = "fire", \A g : InList(list', g) <=> InList(list, g)
  PROVE  Firing' /\ Flag'
BY DEF ListInv, Firing, Flag, Now

LEMMA FetchList == ListInv /\ Fetch => Changed /\ waited' \in 0..Longest /\ Firing' /\ Flag'
<1> SUFFICES ASSUME ListInv, Fetch PROVE Changed /\ waited' \in 0..Longest /\ Firing' /\ Flag'
  OBVIOUS
<1>1. /\ thr = "fetch" /\ ~Now /\ Passing = 0 /\ UNCHANGED <<active, orphans, pcb, lost>>
      /\ Passing \in Nat /\ Longest \in Nat
  BY PassingType DEF Fetch, tcp, Now, Passing
<1>2. CASE list # <<>> /\ Head(list).time = 0
  <2>1. Pop /\ waited' = waited /\ Head(list).time <= Passing
    BY <1>1, <1>2 DEF Fetch
  <2> QED BY <1>1, <1>2, <2>1, PopStep DEF Changed, ListInv
<1>3. CASE ~(list # <<>> /\ Head(list).time = 0)
  <2>1. thr' = "wait" /\ waited' = 0 /\ list' = list /\ Passing' = 0
    BY <1>3 DEF Fetch, Passing
  <2>2. Same
    BY <1>1, <2>1 DEF Same
  <2>3. Firing' /\ Flag'
    BY <1>1, <2>1, FlagSame
  <2> QED BY <1>1, <2>1, <2>2, <2>3 DEF Changed
<1> QED BY <1>2, <1>3

LEMMA ReceiveList == ListInv /\ Receive => Changed /\ waited' \in 0..Longest /\ Firing' /\ Flag'
<1> SUFFICES ASSUME ListInv, Receive PROVE Changed /\ waited' \in 0..Longest /\ Firing' /\ Flag'
  OBVIOUS
<1>1. /\ thr = "wait" /\ thr' = "got" /\ UNCHANGED <<waited, list, lost, active, orphans, pcb>>
  BY DEF Receive, tcp
<1>2. Passing' = Passing /\ Passing \in Nat
  BY <1>1, PassingType DEF Passing
<1>3. Firing' /\ Flag'
  BY <1>1, FlagSame
<1> QED BY <1>1, <1>2, <1>3 DEF Changed, Same, ListInv

LEMMA TimedOutList == ListInv /\ TimedOut => Changed /\ waited' \in 0..Longest /\ Firing' /\ Flag'
<1> SUFFICES ASSUME ListInv, TimedOut PROVE Changed /\ waited' \in 0..Longest /\ Firing' /\ Flag'
  OBVIOUS
<1>1. /\ thr = "wait" /\ ~Now /\ Passing = waited /\ UNCHANGED <<active, orphans, pcb, lost>>
      /\ Pop /\ waited' = waited /\ list # <<>> /\ waited >= Head(list).time
  BY DEF TimedOut, tcp, Now, Passing
<1>2. Head(list).time \in Nat /\ waited \in Nat
  <2>1. list \in Seq(Entry)
    BY DEF ListInv, InTime
  <2>2. Len(list) # 0 /\ Len(list) \in Nat
    BY <1>1, <2>1, EmptySeq
  <2>3. 1 \in 1..Len(list) /\ Head(list) = list[1]
    BY <1>1, <2>1, <2>2
  <2> QED BY <2>1, <2>3, EntryOf, PassingType
<1>3. Head(list).time <= Passing
  BY <1>1, <1>2
<1> QED BY <1>1, <1>3, PopStep DEF Changed, ListInv

LEMMA CountList == ListInv /\ Count => Changed /\ waited' \in 0..Longest /\ Firing' /\ Flag'
<1> SUFFICES ASSUME ListInv, Count PROVE Changed /\ waited' \in 0..Longest /\ Firing' /\ Flag'
  OBVIOUS
<1>1. /\ thr = "got" /\ thr' = "run" /\ Passing = waited /\ Passing' = 0
      /\ UNCHANGED <<waited, active, orphans, pcb, lost>> /\ Passing \in Nat
  BY PassingType DEF Count, tcp, Passing
<1>2. CASE list = <<>>
  <2>1. list' = list
    BY <1>2 DEF Count
  <2>2. Firing' /\ Flag'
    BY <1>1, <2>1, FlagSame
  <2> QED BY <1>1, <2>1, <2>2 DEF Changed, Same, ListInv
<1>3. CASE list # <<>>
  <2>1. list' = Counted(list, Passing)
    BY <1>1, <1>3 DEF Count, Counted
  <2>2. \A g : InList(list', g) <=> InList(list, g)
    <3>1. InTime(list, Passing)
      BY DEF ListInv
    <3> QED BY <1>1, <1>3, <2>1, <3>1, CountIt
  <2>3. Firing' /\ Flag'
    BY <1>1, <2>2, FlagSame
  <2> QED BY <1>1, <1>3, <2>1, <2>3 DEF Changed, Counts, ListInv
<1> QED BY <1>2, <1>3

LEMMA TickList == ListInv /\ Tick => Changed /\ waited' \in 0..Longest /\ Firing' /\ Flag'
<1> SUFFICES ASSUME ListInv, Tick PROVE Changed /\ waited' \in 0..Longest /\ Firing' /\ Flag'
  OBVIOUS
<1>1. /\ UNCHANGED <<thr, msg, active, orphans, pcb, lost>> /\ Passing \in Nat /\ Longest \in Nat
      /\ waited \in 0..Longest /\ InTime(list, Passing)
      /\ list' = Older(list)
  BY PassingType DEF Tick, tcp, ListInv, Older
<1>2. waited' \in 0..Longest /\ waited' <= waited + 1
  <2>1. CASE thr \in {"wait", "got"}
    <3>1. waited' = Min({waited + 1, Longest})
      BY <2>1 DEF Tick
    <3>2. waited + 1 \in Int /\ Longest \in Int
      BY <1>1
    <3>3. waited' = IF waited + 1 <= Longest THEN waited + 1 ELSE Longest
      BY <3>1, <3>2, MinTwo
    <3> QED BY <1>1, <3>3
  <2>2. CASE thr \notin {"wait", "got"}
    BY <1>1, <2>2 DEF Tick
  <2> QED BY <2>1, <2>2
<1>3. Passing' <= Passing + 1
  BY <1>1, <1>2 DEF Passing
<1>4. \A g : InList(list', g) <=> InList(list, g)
  <2>1. Passing \in Nat /\ Passing <= Passing + 1
    BY <1>1
  <2> QED BY <1>1, <2>1, OlderIt
<1>5. Firing' /\ Flag'
  BY <1>1, <1>4, FlagSame
<1> QED BY <1>1, <1>2, <1>3, <1>5 DEF Changed, Ages

-----------------------------------------------------------------------------
(* The steps that set timers.                                              *)

(* tcp_timer_needed: whoever calls it has the timer afterwards.            *)
LEMMA NeededStep ==
  ASSUME ListInv, TcpTimerNeeded, Passing = 0, Passing' = 0, ~Now, thr' = "fetch"
  PROVE  Changed /\ Flag'
<1>1. InTime(list, 0) /\ Flag /\ active' = TRUE /\ Tcp \in Timers
  BY DEF ListInv, TcpTimerNeeded, Timers
<1>2. CASE active
  BY <1>1, <1>2 DEF TcpTimerNeeded, Changed, Same, Flag, Now
<1>3. CASE ~active
  <2>1. ~InList(list, Tcp) /\ SetTimer(Tcp)
    BY <1>1, <1>3 DEF TcpTimerNeeded, Flag
  <2>2. CASE list' = SysTimeout(list, Tcp) /\ UNCHANGED lost
    <3>1. InList(list', Tcp)
      BY <1>1, <2>1, <2>2, SetIt
    <3>2. Flag'
      BY <1>1, <1>3, <2>2, <3>1 DEF Flag
    <3> QED BY <1>1, <2>1, <2>2, <3>2 DEF Changed, Sets
  <2>3. CASE lost' = lost \cup {Tcp} /\ UNCHANGED list
    BY <1>1, <2>1, <2>3 DEF Changed, Same, Flag, Now
  <2> QED BY <2>1, <2>2, <2>3 DEF SetTimer
<1> QED BY <1>2, <1>3

(* What leaves the list and the flag alone must not begin a control block  *)
(* where there is none.                                                    *)
LEMMA UnneededStep ==
  ASSUME ListInv, UNCHANGED <<active, list, lost>>, Passing = 0, Passing' = 0, ~Now, thr' = "fetch",
         orphans = 0 /\ (\A t \in Callers : pcb[t] = "none")
           => orphans' = 0 /\ \A t \in Callers : pcb'[t] = "none"
  PROVE  Changed /\ Flag'
BY DEF ListInv, Flag, Now, Changed, Same

LEMMA CallList ==
  ASSUME CallInv, ListInv, NEW t \in Callers, DoConnect(t) \/ DoWrite(t) \/ DoClose(t) \/ DoOther(t),
         Passing = 0, Passing' = 0, ~Now, thr' = "fetch"
  PROVE  Changed /\ Flag'
<1>1. CASE TcpTimerNeeded
  BY <1>1, NeededStep
<1>2. CASE UNCHANGED <<list, lost, tcp>>
  BY <1>2, UnneededStep DEF tcp
<1>3. CASE pcb[t] = "open" /\ UNCHANGED <<active, list, lost>>
  BY <1>3, UnneededStep
<1>4. CASE DoConnect(t)
  BY <1>1, <1>2, <1>4 DEF DoConnect
<1>5. CASE DoWrite(t)
  BY <1>2, <1>3, <1>5 DEF DoWrite
<1>6. CASE DoClose(t)
  <2>1. CASE pcb[t] = "open"
    BY <1>3, <1>6, <2>1 DEF DoClose
  <2>2. CASE pcb[t] # "open"
    BY <1>2, <1>6, <2>2 DEF DoClose, tcp
  <2> QED BY <2>1, <2>2
<1>7. CASE DoOther(t)
  BY <1>2, <1>7 DEF DoOther
<1> QED BY <1>4, <1>5, <1>6, <1>7

LEMMA InputList ==
  ASSUME CallInv, ListInv, Input, Limits, Passing = 0, Passing' = 0, ~Now, thr' = "fetch"
  PROVE  Changed /\ Flag'
<1>1. CASE TcpTimerNeeded
  BY <1>1, NeededStep
<1>2. CASE UNCHANGED <<pcb, orphans, sem, list, lost, active>>
  BY <1>2, UnneededStep
<1>3. ASSUME NEW t \in Callers, Answered(t) \/ Reset(t) \/ Window(t), UNCHANGED <<list, lost, active>>
      PROVE  Changed /\ Flag'
  <2>1. pcb[t] # "none"
    BY <1>3, PendingStates DEF Answered, Reset, Window
  <2> QED BY <1>3, <2>1, UnneededStep
<1>4. CASE orphans > 0 /\ UNCHANGED <<list, lost, active>>
  BY <1>4, UnneededStep DEF Limits
<1> QED BY <1>1, <1>2, <1>3, <1>4 DEF Input

LEMMA HandleList ==
  ASSUME CallInv, ListInv, Limits, Handle
  PROVE  Changed /\ waited' \in 0..Longest /\ Firing' /\ Flag'
<1>1. /\ thr = "run" /\ thr' = "fetch" /\ waited' = waited /\ ~Now /\ Passing = 0 /\ Passing' = 0
      /\ Firing' /\ waited' \in 0..Longest /\ msg \in Messages
  BY DEF Handle, Now, Passing, Firing, ListInv, CallInv, Types
<1>2. CASE msg.type \in Ops
  <2>1. msg.from \in Callers
    BY <1>1, <1>2 DEF Messages, Ops
  <2>2. DoConnect(msg.from) \/ DoWrite(msg.from) \/ DoClose(msg.from) \/ DoOther(msg.from)
    BY <1>2 DEF Handle, Ops
  <2> QED BY <1>1, <2>1, <2>2, CallList
<1>3. CASE msg.type = "packet"
  <2>1. Input
    BY <1>3 DEF Handle
  <2> QED BY <1>1, <2>1, InputList
<1>4. CASE msg.type = "callback"
  <2>1. UNCHANGED <<list, lost, tcp>>
    BY <1>4 DEF Handle
  <2> QED BY <1>1, <2>1, UnneededStep DEF tcp
<1> QED BY <1>1, <1>2, <1>3, <1>4 DEF Messages

(* A timer's handler sets it again; the TCP timer's not when TCP has       *)
(* nothing left to do.                                                     *)
LEMMA RunTimerList ==
  ASSUME CallInv, ListInv, RunTimer
  PROVE  Changed /\ waited' \in 0..Longest /\ Firing' /\ Flag'
<1>1. /\ thr = "fire" /\ thr' = "fetch" /\ waited' = waited /\ Passing = 0 /\ Passing' = 0
      /\ Firing' /\ waited' \in 0..Longest /\ ~Now'
      /\ msg.timer \in Timers /\ ~InList(list, msg.timer) /\ InTime(list, 0) /\ Flag
  BY DEF RunTimer, Now, Passing, Firing, ListInv
<1>2. CASE msg.timer = Tcp
  <2>1. Now /\ active = TRUE /\ ~InList(list, Tcp)
    BY <1>1, <1>2 DEF Now, Flag
  <2>2. PICK gone \in GivenUp, polled \in Polled : \E left \in Left(polled) :
          /\ TcpTmr(gone, polled, left)
          /\ IF left > 0 \/ \E t \in Callers : pcb'[t] # "none"
             THEN SetTimer(Tcp) /\ UNCHANGED active
             ELSE active' = FALSE /\ UNCHANGED <<list, lost>>
    BY <1>2 DEF RunTimer, TcpTimer
  <2>3. PICK left \in Left(polled) :
          /\ TcpTmr(gone, polled, left)
          /\ IF left > 0 \/ \E t \in Callers : pcb'[t] # "none"
             THEN SetTimer(Tcp) /\ UNCHANGED active
             ELSE active' = FALSE /\ UNCHANGED <<list, lost>>
    BY <2>2
  <2>4. left \in Int /\ left >= 0 /\ orphans' = left
    BY <2>3 DEF Left, TcpTmr
  <2>5. CASE left > 0 \/ \E t \in Callers : pcb'[t] # "none"
    <3>1. SetTimer(Tcp) /\ active' = TRUE /\ lost \subseteq Timers /\ Tcp \notin lost
      BY <1>1, <2>1, <2>3, <2>5 DEF Flag
    <3>2. CASE list' = SysTimeout(list, Tcp) /\ UNCHANGED lost
      <4>1. InList(list', Tcp)
        BY <1>1, <1>2, <3>2, SetIt
      <4>2. Flag'
        BY <3>1, <3>2, <4>1 DEF Flag
      <4> QED BY <1>1, <1>2, <3>2, <4>2 DEF Changed, Sets
    <3>3. CASE lost' = lost \cup {Tcp} /\ UNCHANGED list
      <4>1. Flag'
        BY <1>1, <1>2, <2>1, <3>1, <3>3 DEF Flag
      <4> QED BY <1>1, <3>3, <4>1 DEF Changed, Same
    <3> QED BY <3>1, <3>2, <3>3 DEF SetTimer
  <2>6. CASE ~(left > 0 \/ \E t \in Callers : pcb'[t] # "none")
    <3>1. /\ list' = list /\ active' = FALSE /\ lost' = lost
          /\ orphans' = 0 /\ \A t \in Callers : pcb'[t] = "none"
      BY <2>3, <2>4, <2>6
    <3>2. Flag'
      BY <1>1, <2>1, <3>1 DEF Flag
    <3> QED BY <1>1, <3>1, <3>2 DEF Changed, Same
  <2> QED BY <2>5, <2>6
<1>3. CASE msg.timer # Tcp
  <2>1. SetTimer(msg.timer) /\ UNCHANGED <<active, orphans, pcb>> /\ ~Now
    BY <1>3 DEF RunTimer, CyclicTimer, tcp, Now
  <2>2. PICK h \in Timers : h = msg.timer
    BY <1>1
  <2>3. CASE list' = SysTimeout(list, msg.timer) /\ UNCHANGED lost
    <3>1. InList(list', Tcp) <=> InList(list, Tcp)
      BY <1>1, <1>3, <2>2, <2>3, SetIt
    <3>2. Flag'
      BY <1>1, <2>1, <2>3, <3>1 DEF Flag
    <3> QED BY <1>1, <2>3, <3>2 DEF Changed, Sets
  <2>4. CASE lost' = lost \cup {msg.timer} /\ UNCHANGED list
    <3>1. Flag'
      BY <1>1, <1>3, <2>1, <2>4 DEF Flag
    <3> QED BY <1>1, <2>4, <3>1 DEF Changed, Same
  <2> QED BY <2>1, <2>3, <2>4 DEF SetTimer
<1> QED BY <1>2, <1>3

-----------------------------------------------------------------------------
(* The bounds.                                                             *)
LEMMA NextTry == \A i \in Int : (i + 1) % MaxTries \in 0..MaxTries - 1
BY ThreadAssumption

LEMMA LeftIs ==
  ASSUME NEW polled \in Polled, NEW left \in Left(polled), Limits
  PROVE  left \in 0..MaxOrphans
<1> DEFINE S == {t \in polled : pcb[t] = "fin"}
<1>1. IsFiniteSet(S)
  <2>1. S \subseteq Callers /\ IsFiniteSet(Callers)
    BY ThreadAssumption DEF Polled
  <2> QED BY <2>1, FS_Subset
<1>2. Cardinality(S) \in Nat
  BY <1>1, FS_CardinalityType
<1>3. orphans + Cardinality(S) \in Int /\ MaxOrphans \in Int
  BY <1>2, ThreadAssumption DEF Limits
<1>4. Min({MaxOrphans, orphans + Cardinality(S)}) = IF MaxOrphans <= orphans + Cardinality(S)
                                                    THEN MaxOrphans ELSE orphans + Cardinality(S)
  <2> HIDE DEF S
  <2> QED BY <1>3, MinTwo
<1> QED BY <1>3, <1>4 DEF Left

LEMMA OneMore ==
  ASSUME Limits
  PROVE  Min({orphans + 1, MaxOrphans}) \in 0..MaxOrphans
<1>1. orphans + 1 \in Int /\ MaxOrphans \in Int /\ orphans \in 0..MaxOrphans
  BY ThreadAssumption DEF Limits
<1>2. Min({orphans + 1, MaxOrphans}) = IF orphans + 1 <= MaxOrphans THEN orphans + 1 ELSE MaxOrphans
  BY <1>1, MinTwo
<1> QED BY <1>1, <1>2

LEMMA CallLimits ==
  ASSUME Limits, NEW t \in Callers, DoConnect(t) \/ DoWrite(t) \/ DoClose(t) \/ DoOther(t)
  PROVE  orphans' \in 0..MaxOrphans /\ tries' \in [Callers -> 0..MaxTries - 1]
<1>1. /\ orphans \in 0..MaxOrphans /\ tries \in [Callers -> 0..MaxTries - 1]
      /\ 0 \in 0..MaxTries - 1
  BY ThreadAssumption DEF Limits
<1>2. ASSUME NEW s, Wait(t, s) PROVE orphans' \in 0..MaxOrphans /\ tries' \in [Callers -> 0..MaxTries - 1]
  BY <1>1, <1>2 DEF Wait
<1>3. CASE DoConnect(t)
  BY <1>1, <1>2, <1>3 DEF DoConnect, tcp
<1>4. CASE DoWrite(t)
  BY <1>1, <1>2, <1>4 DEF DoWrite, tcp
<1>5. CASE DoClose(t)
  BY <1>1, <1>2, <1>5, OneMore DEF DoClose
<1>6. CASE DoOther(t)
  BY <1>1, <1>6 DEF DoOther, tcp
<1> QED BY <1>3, <1>4, <1>5, <1>6

LEMMA InputLimits ==
  ASSUME Limits, Input
  PROVE  orphans' \in 0..MaxOrphans /\ tries' \in [Callers -> 0..MaxTries - 1]
<1>1. orphans \in 0..MaxOrphans /\ tries' \in [Callers -> 0..MaxTries - 1] /\ MaxOrphans \in Nat
  BY ThreadAssumption DEF Limits, Input
<1>2. CASE UNCHANGED orphans
  BY <1>1, <1>2
<1>3. ASSUME NEW t \in Callers, Answered(t) \/ Reset(t) \/ Window(t) PROVE orphans' \in 0..MaxOrphans
  BY <1>1, <1>3, OneMore DEF Answered, Reset, Window
<1>4. CASE orphans > 0 /\ orphans' = orphans - 1
  BY <1>1, <1>4
<1>5. CASE orphans < MaxOrphans /\ orphans' = orphans + 1
  BY <1>1, <1>5
<1> QED BY <1>1, <1>2, <1>3, <1>4, <1>5 DEF Input

LEMMA LimitsNext == CallInv /\ Limits /\ [Next]_vars => Limits'
<1> SUFFICES ASSUME CallInv, Limits, [Next]_vars PROVE Limits'
  OBVIOUS
<1>1. /\ mbox \in Seq(Messages) /\ Len(mbox) \in Nat /\ Len(mbox) <= MboxSize /\ MboxSize \in Nat
      /\ orphans \in 0..MaxOrphans /\ tries \in [Callers -> 0..MaxTries - 1]
  BY ThreadAssumption DEF CallInv, Types, Limits
<1>2. CASE UNCHANGED <<mbox, orphans, tries>>
  BY <1>1, <1>2 DEF Limits
<1>3. CASE UNCHANGED <<orphans, tries>> /\ Len(mbox') <= MboxSize
  BY <1>1, <1>3 DEF Limits
<1>4. CASE Receive
  <2>1. Len(mbox') = Len(mbox) - 1
    BY <1>1, <1>4 DEF Receive
  <2> QED BY <1>1, <1>3, <1>4, <2>1 DEF Receive, tcp
<1>5. CASE Handle
  <2>1. msg \in Messages /\ UNCHANGED mbox
    BY <1>5 DEF Handle, CallInv, Types
  <2>2. CASE msg.type \in Ops
    <3>1. msg.from \in Callers
      BY <2>1, <2>2 DEF Messages, Ops
    <3>2. DoConnect(msg.from) \/ DoWrite(msg.from) \/ DoClose(msg.from) \/ DoOther(msg.from)
      BY <1>5, <2>2 DEF Handle, Ops
    <3> QED BY <1>1, <2>1, <3>1, <3>2, CallLimits DEF Limits
  <2>3. CASE msg.type = "packet"
    <3>1. Input
      BY <1>5, <2>3 DEF Handle
    <3> QED BY <1>1, <2>1, <3>1, InputLimits DEF Limits
  <2>4. CASE msg.type = "callback"
    BY <1>2, <1>5, <2>1, <2>4 DEF Handle, tcp
  <2> QED BY <2>1, <2>2, <2>3, <2>4 DEF Messages
<1>6. CASE RunTimer
  <2>1. CASE TcpTimer
    <3>1. PICK gone \in GivenUp, polled \in Polled : \E left \in Left(polled) : TcpTmr(gone, polled, left)
      BY <2>1 DEF TcpTimer
    <3>2. PICK left \in Left(polled) : TcpTmr(gone, polled, left)
      BY <3>1
    <3>3. orphans' \in 0..MaxOrphans
      BY <3>2, LeftIs DEF TcpTmr
    <3>4. tries' \in [Callers -> 0..MaxTries - 1]
      <4>1. tries' = [t \in Callers |-> IF t \in Trying THEN (tries[t] + 1) % MaxTries ELSE tries[t]]
        BY <3>2 DEF TcpTmr
      <4>2. ASSUME NEW t \in Callers PROVE (tries[t] + 1) % MaxTries \in 0..MaxTries - 1
        BY <1>1, NextTry
      <4> QED BY <1>1, <4>1, <4>2
    <3> QED BY <1>1, <1>6, <3>3, <3>4 DEF RunTimer, Limits
  <2>2. CASE CyclicTimer
    BY <1>2, <1>6, <2>2 DEF RunTimer, CyclicTimer, tcp
  <2> QED BY <1>6, <2>1, <2>2 DEF RunTimer
<1>7. CASE Packet
  <2>1. Len(mbox') = Len(mbox) + 1 /\ Len(mbox) < MboxSize
    BY <1>1, <1>7 DEF Packet
  <2> QED BY <1>1, <1>3, <1>7, <2>1 DEF Packet, tcp
<1>8. ASSUME NEW t \in Callers, Post(t) PROVE Limits'
  <2>1. Len(mbox') = Len(mbox) + 1 /\ Len(mbox) < MboxSize
    BY <1>1, <1>8 DEF Post
  <2> QED BY <1>1, <1>3, <1>8, <2>1 DEF Post, tcp
<1>9. CASE Fetch \/ TimedOut \/ Count \/ Tick \/ UNCHANGED vars
  BY <1>2, <1>9 DEF Fetch, TimedOut, Count, Tick, vars, tcp
<1>10. ASSUME NEW t \in Callers, Return(t) \/ \E o \in Ops \cup {"callback"} : Begin(t, o) PROVE Limits'
  BY <1>2, <1>10 DEF Return, Begin, tcp
<1> QED BY <1>4, <1>5, <1>6, <1>7, <1>8, <1>9, <1>10 DEF Next, Thread

-----------------------------------------------------------------------------
(* Every step keeps the timers' invariant.                                 *)
LEMMA ListNext ==
  ASSUME TimerInv, [Next]_vars
  PROVE  Changed /\ waited' \in 0..Longest /\ Firing' /\ Flag'
<1>1. CallInv /\ ListInv /\ Limits /\ Passing \in Nat
  BY PassingType DEF TimerInv
<1>2. CASE Thread
  BY <1>1, <1>2, FetchList, ReceiveList, TimedOutList, CountList, HandleList, RunTimerList DEF Thread
<1>3. CASE Tick
  BY <1>1, <1>3, TickList
<1>4. CASE UNCHANGED <<thr, msg, waited, list, active, orphans, pcb, lost>>
  <2>1. Same
    BY <1>1, <1>4 DEF Same, Passing
  <2>2. Firing' /\ Flag'
    BY <1>1, <1>4, FlagSame
  <2> QED BY <1>1, <1>4, <2>1, <2>2 DEF Changed, ListInv
<1>5. CASE Packet
  BY <1>4, <1>5 DEF Packet, tcp
<1>6. ASSUME NEW t \in Callers, Post(t) \/ Return(t)
      PROVE  Changed /\ waited' \in 0..Longest /\ Firing' /\ Flag'
  BY <1>4, <1>6 DEF Post, Return, tcp
<1>7. ASSUME NEW t \in Callers, NEW o \in Ops \cup {"callback"}, Begin(t, o)
      PROVE  Changed /\ waited' \in 0..Longest /\ Firing' /\ Flag'
  BY <1>4, <1>7 DEF Begin, tcp
<1>8. CASE UNCHANGED vars
  BY <1>4, <1>8 DEF vars, tcp
<1> QED BY <1>2, <1>3, <1>5, <1>6, <1>7, <1>8 DEF Next

LEMMA TimerInit == Init => TimerInv
BY CallInit, ListInit DEF TimerInv

LEMMA TimerNext == TimerInv /\ [Next]_vars => TimerInv'
<1> SUFFICES ASSUME TimerInv, [Next]_vars PROVE TimerInv'
  OBVIOUS
<1>1. CallInv' /\ Limits'
  BY CallNext, LimitsNext DEF TimerInv
<1>2. Changed /\ waited' \in 0..Longest /\ Firing' /\ Flag'
  BY ListNext
<1>3. InTime(list, Passing)'
  BY <1>2, InTimeNext DEF TimerInv
<1> QED BY <1>1, <1>2, <1>3 DEF TimerInv, ListInv

LEMMA TimerInvariant == Spec => []TimerInv
BY TimerInit, TimerNext, PTL DEF Spec

(* The differences of the list, which the code keeps in unsigned numbers,  *)
(* never go below 0, and every variable keeps its type.                    *)
THEOREM TypeOKTheorem == Spec => []TypeOK
<1>1. TimerInv => TypeOK
  <2> SUFFICES ASSUME TimerInv PROVE TypeOK
    OBVIOUS
  <2>1. Types /\ Limits /\ ListInv /\ list \in Seq(Entry)
    BY DEF TimerInv, CallInv, ListInv, InTime
  <2>2. \A i \in 1..Len(list) : /\ list[i].timer \in Timers /\ list[i].time \in 0..Longest
                                /\ list[i].age \in 0..Longest
    BY <2>1, EntryOf
  <2>3. active \in BOOLEAN /\ waited \in 0..Longest /\ lost \subseteq Timers
    BY <2>1 DEF ListInv, Flag
  <2> QED BY <2>1, <2>2, <2>3 DEF TypeOK, Types, Limits
<1> QED BY <1>1, TimerInvariant, PTL

(* The TCP timer is on whenever TCP has a control block that needs it, and *)
(* never twice, as long as there was memory each time it was to be set;    *)
(* when there was none, its flag says for ever that it is on, and it is    *)
(* not.                                                                    *)
THEOREM TcpTimerOnTheorem == Spec => []TcpTimerOn
<1>1. TimerInv => TcpTimerOn
  <2> SUFFICES ASSUME TimerInv PROVE TcpTimerOn
    OBVIOUS
  <2> DEFINE set == {i \in 1..Len(list) : list[i].timer = Tcp}
  <2>1. Once(list) /\ Firing /\ Flag
    BY DEF TimerInv, ListInv, InTime
  <2>2. InList(list, Tcp) => \E i \in set : set = {i}
    BY <2>1 DEF InList, Once
  <2>3. ~InList(list, Tcp) => set = {}
    BY DEF InList
  <2>4. Now => ~InList(list, Tcp)
    BY <2>1 DEF Now, Firing
  <2> HIDE DEF set
  <2>5. active => IF Now \/ Tcp \in lost THEN set = {} ELSE \E i \in set : set = {i}
    BY <2>1, <2>2, <2>3, <2>4 DEF Flag
  <2>6. ~active => set = {} /\ ~Now /\ orphans = 0 /\ \A t \in Callers : pcb[t] = "none"
    BY <2>1, <2>3 DEF Flag
  <2>7. Tcp \in lost => active /\ ~Now
    BY <2>1 DEF Flag
  <2> QED BY <2>5, <2>6, <2>7 DEF TcpTimerOn, Now, set
<1> QED BY <1>1, TimerInvariant, PTL

(* No timer goes off before its period is over.                            *)
LEMMA Length ==
  ASSUME ListInv, Changed
  PROVE  Len(list') < Len(list) => Pops
<1>1. InTime(list, Passing) /\ Passing \in Nat /\ Len(list) \in Nat
  BY PassingType DEF ListInv, InTime
<1>2. CASE Same
  BY <1>1, <1>2 DEF Same
<1>3. CASE Sets
  <2>1. PICK h \in Timers : ~InList(list, h) /\ list' = SysTimeout(list, h) /\ Passing = 0
    BY <1>3 DEF Sets
  <2>2. Len(list') = Len(list) + 1
    BY <1>1, <2>1, SetIt
  <2> QED BY <1>1, <2>2
<1>4. CASE Counts
  <2>1. Len(list') = Len(list)
    BY <1>1, <1>4, CountIt DEF Counts
  <2> QED BY <1>1, <2>1
<1>5. CASE Ages
  <2>1. Passing \in Nat /\ Passing <= Passing + 1
    BY <1>1
  <2>2. Len(list') = Len(list)
    BY <1>1, <1>5, <2>1, OlderIt DEF Ages
  <2> QED BY <1>1, <2>2
<1> QED BY <1>2, <1>3, <1>4, <1>5 DEF Changed

THEOREM NeverEarlyTheorem == Spec => NeverEarly
<1>1. TimerInv /\ [Next]_vars => [Len(list') < Len(list) => Head(list).age >= Period[Head(list).timer]]_vars
  <2> SUFFICES ASSUME TimerInv, [Next]_vars, Len(list') < Len(list)
               PROVE  Head(list).age >= Period[Head(list).timer]
    OBVIOUS
  <2>1. ListInv /\ Changed
    BY ListNext DEF TimerInv
  <2>2. Pops
    BY <2>1, Length
  <2>3. InTime(list, Passing) /\ Passing \in Nat
    BY <2>1, PassingType DEF ListInv
  <2> QED BY <2>2, <2>3, PopIt DEF Pops
<1> QED BY <1>1, TimerInvariant, PTL DEF Spec, NeverEarly

-----------------------------------------------------------------------------
(* The list of differences implements the queue of timers.                 *)
Rem == [h \in Timers |-> Remains(h)]

LEMMA RemIs == Rem = [h \in Timers |-> RemainsIn(list, h)]
BY DEF Rem, Remains, RemainsIn

LEMMA RemIsNext == Rem' = [h \in Timers |-> RemainsIn(list', h)]
BY DEF Rem, Remains, RemainsIn

(* A timer is on in the queue when it is in the list.                      *)
LEMMA OnIs ==
  ASSUME ListInv
  PROVE  \A h \in Timers : /\ InList(list, h) => Rem[h] = RemainsIn(list, h) /\ Rem[h] \in Nat
                           /\ ~InList(list, h) => Rem[h] = -1
<1>1. list \in Seq(Entry) /\ Once(list)
  BY DEF ListInv, InTime
<1>2. ASSUME NEW h \in Timers, InList(list, h) PROVE RemainsIn(list, h) \in Nat
  <2>1. PICK i \in 1..Len(list) : list[i].timer = h
    BY <1>2 DEF InList
  <2>2. RemainsIn(list, h) = Due(list, i)
    BY <1>1, <2>1, RemainsIs
  <2>3. i \in 0..Len(list)
    OBVIOUS
  <2> QED BY <1>1, <2>2, <2>3, DueDef
<1>3. \A h \in Timers : Rem[h] = RemainsIn(list, h)
  BY RemIs
<1> QED BY <1>2, <1>3, RemainsNot

LEMMA QueueInit == Init => Queue!Init
<1> SUFFICES ASSUME Init PROVE Queue!Init
  OBVIOUS
<1> DEFINE set == ToSet(Cyclic) \ lost
<1>1. list = SysTimeoutsInit(lost)
  BY DEF Init
<1>2. \A h \in Timers : RemainsIn(list, h) = IF h \in set THEN Period[h] ELSE -1
  BY <1>1, InitIt, RemainsNot
<1>3. Rem = [h \in Timers |-> IF h \in set THEN Period[h] ELSE -1]
  BY <1>2, RemIs
<1>4. set \in SUBSET ToSet(Cyclic)
  OBVIOUS
<1> HIDE DEF set
<1> QED BY <1>3, <1>4 DEF Queue!Init, Queue!Off, Rem

LEMMA QueueNext == TimerInv /\ [Next]_vars => [Queue!Next]_Rem
<1> SUFFICES ASSUME TimerInv, [Next]_vars PROVE [Queue!Next]_Rem
  OBVIOUS
<1>1. /\ ListInv /\ Changed /\ InTime(list, Passing) /\ Passing \in Nat
  BY ListNext, PassingType DEF TimerInv, ListInv
<1>2. \A h \in Timers : /\ InList(list, h) => Rem[h] = RemainsIn(list, h) /\ Rem[h] \in Nat
                        /\ ~InList(list, h) => Rem[h] = -1
  BY <1>1, OnIs
<1>3. \A h : h \in Queue!On <=> h \in Timers /\ InList(list, h)
  BY <1>2 DEF Queue!On, Queue!Off, Rem
<1>4. CASE Same
  BY <1>4, RemIs, RemIsNext DEF Same
<1>5. CASE Ages
  <2>1. \A g : RemainsIn(list', g) = RemainsIn(list, g)
    <3>1. Passing \in Nat /\ Passing <= Passing + 1
      BY <1>1
    <3> QED BY <1>1, <1>5, <3>1, OlderIt DEF Ages
  <2> QED BY <2>1, RemIs, RemIsNext
<1>6. CASE Sets
  <2>1. PICK h \in Timers : ~InList(list, h) /\ list' = SysTimeout(list, h) /\ Passing = 0
    BY <1>6 DEF Sets
  <2>2. RemainsIn(list', h) = Period[h] /\ \A g : g # h => RemainsIn(list', g) = RemainsIn(list, g)
    BY <1>1, <2>1, SetIt
  <2>3. Rem' = [Rem EXCEPT ![h] = Period[h]]
    BY <2>2, RemIs, RemIsNext
  <2>4. Queue!Set(h)
    BY <1>3, <2>1, <2>3 DEF Queue!Set, Rem
  <2> QED BY <2>4 DEF Queue!Next
<1>7. CASE Pops
  <2> DEFINE h == Head(list).timer
             t == Head(list).time
  <2>1. /\ h \in Timers /\ t \in Nat
        /\ \A g : InList(list', g) <=> InList(list, g) /\ g # h
        /\ InList(list, h) /\ RemainsIn(list, h) = t
        /\ \A g : InList(list, g) => RemainsIn(list, g) \in Nat /\ t <= RemainsIn(list, g)
        /\ \A g : InList(list', g) => RemainsIn(list', g) = RemainsIn(list, g) - t
    BY <1>1, <1>7, PopIt DEF Pops
  <2> HIDE DEF h, t
  <2>2. Rem[h] = t /\ h \in Queue!On /\ \A g \in Queue!On : Rem[h] <= Rem[g]
    BY <1>2, <1>3, <2>1
  <2>3. Queue!Soonest(h)
    BY <2>2 DEF Queue!Soonest, Rem
  <2>4. \A g \in Timers : RemainsIn(list', g) = IF g = h THEN -1 ELSE IF g \in Queue!On THEN Rem[g] - t ELSE -1
    BY <1>2, <1>3, <2>1, RemainsNot
  <2>5. Rem' = [g \in Timers |-> IF g = h THEN -1 ELSE IF g \in Queue!On THEN Rem[g] - Rem[h] ELSE -1]
    BY <2>2, <2>4, RemIsNext
  <2>6. Queue!GoOff(h)
    BY <2>3, <2>5 DEF Queue!GoOff, Queue!Less, Queue!Off, Rem
  <2> QED BY <2>1, <2>6 DEF Queue!Next
<1>8. CASE Counts
  <2> DEFINE h == Head(list).timer
  <2>1. /\ h \in Timers /\ InList(list, h) /\ \A g : InList(list', g) <=> InList(list, g)
        /\ \A g : InList(list, g) => RemainsIn(list, g) \in Nat /\ RemainsIn(list, h) <= RemainsIn(list, g)
        /\ \E d \in 0..RemainsIn(list, h) :
              \A g : InList(list, g) => RemainsIn(list', g) = RemainsIn(list, g) - d
    BY <1>1, <1>8, CountIt DEF Counts
  <2> HIDE DEF h
  <2>2. PICK d \in 0..RemainsIn(list, h) :
              \A g : InList(list, g) => RemainsIn(list', g) = RemainsIn(list, g) - d
    BY <2>1
  <2>3. Rem[h] = RemainsIn(list, h) /\ h \in Queue!On /\ \A g \in Queue!On : Rem[h] <= Rem[g]
    BY <1>2, <1>3, <2>1
  <2>4. Queue!Soonest(h)
    BY <2>3 DEF Queue!Soonest, Rem
  <2>5. \A g \in Timers : RemainsIn(list', g) = IF g \in Queue!On THEN Rem[g] - d ELSE -1
    BY <1>2, <1>3, <2>1, <2>2, RemainsNot
  <2>6. Rem' = [g \in Timers |-> IF g \in Queue!On THEN Rem[g] - d ELSE -1]
    BY <2>5, RemIsNext
  <2>7. d \in 0..Rem[h]
    BY <2>3
  <2>8. Queue!Pass
    BY <2>3, <2>4, <2>6, <2>7 DEF Queue!Pass, Queue!Less, Queue!Off, Rem
  <2> QED BY <2>8 DEF Queue!Next
<1> QED BY <1>1, <1>4, <1>5, <1>6, <1>7, <1>8 DEF Changed

THEOREM KeepsTimeTheorem == Spec => KeepsTime
<1>1. TimerInv /\ [Next]_vars => [Queue!Next]_[h \in Timers |-> Remains(h)]
  BY QueueNext DEF Rem
<1> QED BY <1>1, QueueInit, TimerInvariant, PTL DEF Spec, KeepsTime, Queue!Spec
=============================================================================

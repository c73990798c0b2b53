----------------------------- MODULE KernelProofs -----------------------------
(***************************************************************************)
(* Proofs about Kernel, for any tasks, priorities, queues, mutexes and     *)
(* interrupts: the lists of the scheduler and of the queues agree, no      *)
(* wake-up is lost, the highest ready task runs and a mutex lends its      *)
(* holder the priority of those who wait.                                  *)
(***************************************************************************)
EXTENDS Kernel, FiniteSetTheorems, TLAPS

Ops == {"none", "send", "recv", "delay", "suspend"}
Pcs == {"user", "top", "suspendAll", "lock", "check", "test", "inherit",
        "place", "unlock", "resumeAll", "yield", "leave"}

\* Where the running task has suspended the scheduler, and where it has locked
\* its queue.
Held == {"lock", "check", "test", "inherit", "place", "unlock", "resumeAll"}
Locking == {"check", "test", "inherit", "place", "unlock"}

\* Which call a task makes where.
CallAt(p, op) ==
    /\ p = "user" <=> op = "none"
    /\ p \in {"top", "lock", "check", "test", "inherit", "unlock"} => op \in {"send", "recv"}
    /\ p \in {"suspendAll", "place", "resumeAll"} => op \in {"send", "recv", "delay"}
    /\ p = "leave" => op = "suspend"

\* The scheduler is suspended exactly while the running task is in such a
\* stretch; a task in a queue's list is on its way to a switch or waits for
\* one; a task that is in no ready list and in no event list has put itself
\* there; and the running task is ready unless a switch is near.
Control ==
    /\ suspended <=> pc[current] \in Held
    /\ \A t \in Tasks : t # current => pc[t] \notin Held
    /\ \A t \in Tasks : CallAt(pc[t], call[t].op)
    /\ \A t \in Tasks : evt[t] = "wait" => /\ pc[t] \in {"top", "yield", "unlock", "resumeAll"}
                                           /\ call[t].op \in {"send", "recv"}
    /\ \A t \in Tasks : evt[t] = "none" /\ place[t] # "ready"
                          => call[t].op \in {"suspend", "delay", "none"}
    /\ (suspended \/ ~pendSV) /\ pc[current] \notin {"unlock", "resumeAll", "yield"}
          => place[current] = "ready"
    /\ pc[current] = "resumeAll" /\ call[current].op = "delay" => place[current] # "ready"

\* A queue is locked exactly by the running task's call.
Locks ==
    \A q \in Objects :
        txLock[q] # Unlocked <=> /\ pc[current] \in Locking
                                 /\ call[current].op # "delay"
                                 /\ call[current].q = q

\* A mutex is available exactly when nobody holds it; a task holds one at most,
\* gives back only what it holds and holds none when it asks for something.
Owns ==
    /\ \A m \in Mutexes : count[m] = 1 <=> holder[m] = None
    /\ \A t \in Tasks, m \in Mutexes : holder[m] = t => held[t] = 1
    /\ \A m, n \in Mutexes : holder[m] = holder[n] /\ holder[m] # None => m = n
    /\ \A t \in Tasks : held[t] <= 1
    /\ \A t \in Tasks : call[t].op = "recv" => held[t] = 0
    /\ \A t \in Tasks : call[t].op = "send" /\ call[t].q \in Mutexes
                            => holder[call[t].q] = t

ListInv == TypeOK /\ Control /\ Locks /\ ListsAgree /\ Owns

-------------------------------------------------------------------------------
(* Calls and objects. *)

\* A call on a queue names one of the queues.
LEMMA CallsLemma ==
    ASSUME NEW x \in Calls
    PROVE  /\ x.op \in Ops
           /\ x.op \in {"send", "recv"} => x.q \in Objects /\ x.wait \in {"zero", "timed", "forever"}
           /\ x.op = "none" => x = NoCall
BY DEF Calls, NoCall, Ops

\* The calls the actions make are calls.
LEMMA MakeCalls ==
    /\ NoCall \in Calls /\ NoCall.op = "none"
    /\ [NoCall EXCEPT !.op = "delay"] \in Calls /\ [NoCall EXCEPT !.op = "delay"].op = "delay"
    /\ [NoCall EXCEPT !.op = "suspend"] \in Calls
    /\ [NoCall EXCEPT !.op = "suspend"].op = "suspend"
    /\ \A op \in {"send", "recv"}, q \in Objects, w \in {"zero", "timed", "forever"} :
         LET x == [op |-> op, q |-> q, wait |-> w] IN
           x \in Calls /\ x.op = op /\ x.q = q /\ x.wait = w
BY DEF Calls, NoCall

\* Every queue has room for an item.
LEMMA SizeNat == \A q \in Objects : Size(q) \in Nat \ {0}
BY QueueAssumption, LengthAssumption DEF Size, Objects

-------------------------------------------------------------------------------
(* The lists and the locks. *)

\* A call begins.
LEMMA EnterList ==
    ASSUME ListInv, NEW x \in Calls, NEW l, Enter(x, l),
           CallAt(l, x.op), l \in {"top", "suspendAll", "leave"},
           x.op = "recv" => held[current] = 0,
           x.op = "send" /\ x.q \in Mutexes => holder[x.q] = current
    PROVE  ListInv'
<1>1. TypeOK'
  BY DEF ListInv, TypeOK, Enter, Goto, Runs, schedVars, listVars, prioVars, queueVars
<1>2. Control'
  BY DEF ListInv, TypeOK, Enter, Goto, Runs, schedVars, listVars, prioVars, queueVars, Control,
         ListsAgree, Held, CallAt
<1>3. Locks'
  BY DEF ListInv, TypeOK, Enter, Goto, Runs, schedVars, queueVars, Locks, Locking
<1>4. ListsAgree'
  BY DEF ListInv, TypeOK, Enter, schedVars, listVars, ListsAgree
<1>5. Owns'
  BY MakeCalls DEF ListInv, TypeOK, Owns, Objects, Enter, Goto, Runs, schedVars, listVars, prioVars, queueVars
<1> QED
  BY <1>1, <1>2, <1>3, <1>4, <1>5 DEF ListInv

\* vTaskResume.
LEMMA ResumeList == ASSUME ListInv, NEW t \in Tasks, Resume(t) PROVE ListInv'
<1>1. TypeOK'
  BY MakeCalls, CallsLemma, SizeNat DEF ListInv, TypeOK, Control, Resume, Goto, Runs, schedVars, listVars, prioVars, queueVars, callVars
<1>2. Control'
  BY MakeCalls, CallsLemma DEF ListInv, TypeOK, ListsAgree, Control, Held, CallAt, Resume, Goto, Runs, schedVars, listVars, prioVars, queueVars, callVars
<1>3. Locks'
  BY MakeCalls, CallsLemma DEF ListInv, TypeOK, Control, Held, Locks, Locking, CallAt, Unlocked, Resume, Goto, Runs, schedVars, listVars, prioVars, queueVars, callVars
<1>4. ListsAgree'
  BY DEF ListInv, TypeOK, Control, Held, ListsAgree, Resume, Goto, Runs, schedVars, listVars, prioVars, queueVars, callVars
<1>5. Owns'
  BY MakeCalls DEF ListInv, TypeOK, Owns, Objects, Resume, Goto, Runs, schedVars, listVars, prioVars, queueVars, callVars
<1> QED
  BY <1>1, <1>2, <1>3, <1>4, <1>5 DEF ListInv

\* The call fails or is going to block.
LEMMA FindNothingList == ASSUME ListInv, FindNothing PROVE ListInv'
<1>1. TypeOK'
  BY MakeCalls, CallsLemma, SizeNat DEF ListInv, TypeOK, Control, FindNothing, Leave, Here, Blocks, Goto, Runs, schedVars, listVars, prioVars, queueVars, callVars
<1>2. Control'
  <2>1. /\ UNCHANGED <<schedVars, listVars>> /\ pc[current] = "top" /\ ~suspended
        /\ place[current] = "ready" /\ evt[current] # "wait" /\ call[current].op \in {"send", "recv"}
    BY DEF ListInv, TypeOK, ListsAgree, Control, Held, CallAt, FindNothing, Runs
  <2>2. \/ pc' = [pc EXCEPT ![current] = "user"] /\ call' = [call EXCEPT ![current] = NoCall]
        \/ pc' = [pc EXCEPT ![current] = "suspendAll"] /\ call' = call
    BY DEF FindNothing, Leave, Goto
  <2>3. current \in Tasks /\ UNCHANGED <<current, suspended, pendSV, place, evt>>
    BY <2>1 DEF ListInv, TypeOK, schedVars, listVars
  <2>4. CASE call' = call
    BY <2>1, <2>2, <2>3, <2>4, MakeCalls DEF ListInv, TypeOK, Control, Held, CallAt
  <2>5. CASE call' # call
    <3>1. /\ pc' = [pc EXCEPT ![current] = "user"]
          /\ call' = [call EXCEPT ![current] = NoCall]
      BY <2>2, <2>5
    <3>2. \A t \in Tasks : CallAt(pc'[t], call'[t].op)
      BY <2>3, <3>1, MakeCalls DEF ListInv, TypeOK, Control, CallAt
    <3> QED
      BY <2>1, <2>3, <3>1, <3>2, MakeCalls DEF ListInv, TypeOK, Control, Held
  <2> QED
    BY <2>4, <2>5
<1>3. Locks'
  BY MakeCalls, CallsLemma DEF ListInv, TypeOK, Control, Held, Locks, Locking, CallAt, Unlocked, FindNothing, Leave, Here, Blocks, Goto, Runs, schedVars, listVars, prioVars, queueVars, callVars
<1>4. ListsAgree'
  BY DEF ListInv, TypeOK, Control, Held, ListsAgree, FindNothing, Leave, Here, Blocks, Goto, Runs, schedVars, listVars, prioVars, queueVars, callVars
<1>5. Owns'
  BY MakeCalls DEF ListInv, TypeOK, Owns, Objects, FindNothing, Leave, Here, Blocks, Goto, Runs, schedVars, listVars, prioVars, queueVars, callVars
<1> QED
  BY <1>1, <1>2, <1>3, <1>4, <1>5 DEF ListInv

\* vTaskSuspendAll.
LEMMA SuspendAllList == ASSUME ListInv, SuspendAll PROVE ListInv'
<1>1. TypeOK'
  BY MakeCalls, CallsLemma, SizeNat DEF ListInv, TypeOK, Control, SuspendAll, Here, Goto, Runs, schedVars, listVars, prioVars, queueVars, callVars
<1>2. Control'
  BY MakeCalls, CallsLemma DEF ListInv, TypeOK, ListsAgree, Control, Held, CallAt, SuspendAll, Here, Goto, Runs, schedVars, listVars, prioVars, queueVars, callVars
<1>3. Locks'
  BY MakeCalls, CallsLemma DEF ListInv, TypeOK, Control, Held, Locks, Locking, CallAt, Unlocked, SuspendAll, Here, Goto, Runs, schedVars, listVars, prioVars, queueVars, callVars
<1>4. ListsAgree'
  BY DEF ListInv, TypeOK, Control, Held, ListsAgree, SuspendAll, Here, Goto, Runs, schedVars, listVars, prioVars, queueVars, callVars
<1>5. Owns'
  BY MakeCalls DEF ListInv, TypeOK, Owns, Objects, SuspendAll, Here, Goto, Runs, schedVars, listVars, prioVars, queueVars, callVars
<1> QED
  BY <1>1, <1>2, <1>3, <1>4, <1>5 DEF ListInv

\* prvLockQueue.
LEMMA LockQueueList == ASSUME ListInv, LockQueue PROVE ListInv'
<1>1. TypeOK'
  BY MakeCalls, CallsLemma, SizeNat DEF ListInv, TypeOK, Control, LockQueue, Here, Goto, Runs, schedVars, listVars, prioVars, queueVars, callVars
<1>2. Control'
  BY MakeCalls, CallsLemma DEF ListInv, TypeOK, ListsAgree, Control, Held, CallAt, LockQueue, Here, Goto, Runs, schedVars, listVars, prioVars, queueVars, callVars
<1>3. Locks'
  BY MakeCalls, CallsLemma DEF ListInv, TypeOK, Control, Held, Locks, Locking, CallAt, Unlocked, LockQueue, Here, Goto, Runs, schedVars, listVars, prioVars, queueVars, callVars
<1>4. ListsAgree'
  BY DEF ListInv, TypeOK, Control, Held, ListsAgree, LockQueue, Here, Goto, Runs, schedVars, listVars, prioVars, queueVars, callVars
<1>5. Owns'
  BY MakeCalls DEF ListInv, TypeOK, Owns, Objects, LockQueue, Here, Goto, Runs, schedVars, listVars, prioVars, queueVars, callVars
<1> QED
  BY <1>1, <1>2, <1>3, <1>4, <1>5 DEF ListInv

\* xTaskCheckForTimeOut.
LEMMA CheckList == ASSUME ListInv, CheckForTimeOut PROVE ListInv'
<1>1. TypeOK'
  BY MakeCalls, CallsLemma, SizeNat DEF ListInv, TypeOK, Control, CheckForTimeOut, Here, Goto, Runs, schedVars, listVars, prioVars, queueVars, callVars
<1>2. Control'
  BY MakeCalls, CallsLemma DEF ListInv, TypeOK, ListsAgree, Control, Held, CallAt, CheckForTimeOut, Here, Goto, Runs, schedVars, listVars, prioVars, queueVars, callVars
<1>3. Locks'
  BY MakeCalls, CallsLemma DEF ListInv, TypeOK, Control, Held, Locks, Locking, CallAt, Unlocked, CheckForTimeOut, Here, Goto, Runs, schedVars, listVars, prioVars, queueVars, callVars
<1>4. ListsAgree'
  BY DEF ListInv, TypeOK, Control, Held, ListsAgree, CheckForTimeOut, Here, Goto, Runs, schedVars, listVars, prioVars, queueVars, callVars
<1>5. Owns'
  BY MakeCalls DEF ListInv, TypeOK, Owns, Objects, CheckForTimeOut, Here, Goto, Runs, schedVars, listVars, prioVars, queueVars, callVars
<1> QED
  BY <1>1, <1>2, <1>3, <1>4, <1>5 DEF ListInv

\* The second test of the queue.
LEMMA TestList == ASSUME ListInv, TestAgain PROVE ListInv'
<1>1. TypeOK'
  BY MakeCalls, CallsLemma, SizeNat DEF ListInv, TypeOK, Control, TestAgain, Here, Goto, Runs, schedVars, listVars, prioVars, queueVars, callVars
<1>2. Control'
  BY MakeCalls, CallsLemma DEF ListInv, TypeOK, ListsAgree, Control, Held, CallAt, TestAgain, Here, Goto, Runs, schedVars, listVars, prioVars, queueVars, callVars
<1>3. Locks'
  BY MakeCalls, CallsLemma DEF ListInv, TypeOK, Control, Held, Locks, Locking, CallAt, Unlocked, TestAgain, Here, Goto, Runs, schedVars, listVars, prioVars, queueVars, callVars
<1>4. ListsAgree'
  BY DEF ListInv, TypeOK, Control, Held, ListsAgree, TestAgain, Here, Goto, Runs, schedVars, listVars, prioVars, queueVars, callVars
<1>5. Owns'
  BY MakeCalls DEF ListInv, TypeOK, Owns, Objects, TestAgain, Here, Goto, Runs, schedVars, listVars, prioVars, queueVars, callVars
<1> QED
  BY <1>1, <1>2, <1>3, <1>4, <1>5 DEF ListInv

\* vTaskPriorityInherit.
LEMMA InheritList == ASSUME ListInv, InheritPriority PROVE ListInv'
<1>1. TypeOK'
  BY MakeCalls, CallsLemma, SizeNat DEF ListInv, TypeOK, Control, InheritPriority, Inherit, Here, Goto, Runs, schedVars, listVars, prioVars, queueVars, callVars
<1>2. Control'
  BY MakeCalls, CallsLemma DEF ListInv, TypeOK, ListsAgree, Control, Held, CallAt, InheritPriority, Inherit, Here, Goto, Runs, schedVars, listVars, prioVars, queueVars, callVars
<1>3. Locks'
  BY MakeCalls, CallsLemma DEF ListInv, TypeOK, Control, Held, Locks, Locking, CallAt, Unlocked, InheritPriority, Inherit, Here, Goto, Runs, schedVars, listVars, prioVars, queueVars, callVars
<1>4. ListsAgree'
  BY DEF ListInv, TypeOK, Control, Held, ListsAgree, InheritPriority, Inherit, Here, Goto, Runs, schedVars, listVars, prioVars, queueVars, callVars
<1>5. Owns'
  BY MakeCalls DEF ListInv, TypeOK, Owns, Objects, InheritPriority, Inherit, Here, Goto, Runs, schedVars, listVars, prioVars, queueVars, callVars
<1> QED
  BY <1>1, <1>2, <1>3, <1>4, <1>5 DEF ListInv

\* vTaskPlaceOnEventList.
LEMMA PlaceList == ASSUME ListInv, PlaceOnEventList PROVE ListInv'
<1>1. TypeOK'
  BY MakeCalls, CallsLemma, SizeNat DEF ListInv, TypeOK, Control, PlaceOnEventList, Here, Goto, Runs, schedVars, listVars, prioVars, queueVars, callVars
<1>2. Control'
  BY MakeCalls, CallsLemma DEF ListInv, TypeOK, ListsAgree, Control, Held, CallAt, PlaceOnEventList, Here, Goto, Runs, schedVars, listVars, prioVars, queueVars, callVars
<1>3. Locks'
  BY MakeCalls, CallsLemma DEF ListInv, TypeOK, Control, Held, Locks, Locking, CallAt, Unlocked, PlaceOnEventList, Here, Goto, Runs, schedVars, listVars, prioVars, queueVars, callVars
<1>4. ListsAgree'
  BY DEF ListInv, TypeOK, Control, Held, ListsAgree, PlaceOnEventList, Here, Goto, Runs, schedVars, listVars, prioVars, queueVars, callVars
<1>5. Owns'
  BY MakeCalls DEF ListInv, TypeOK, Owns, Objects, PlaceOnEventList, Here, Goto, Runs, schedVars, listVars, prioVars, queueVars, callVars
<1> QED
  BY <1>1, <1>2, <1>3, <1>4, <1>5 DEF ListInv

\* portYIELD_WITHIN_API.
LEMMA YieldList == ASSUME ListInv, Yield PROVE ListInv'
<1>1. TypeOK'
  BY MakeCalls DEF ListInv, TypeOK, Yield, Leave, Goto, listVars, prioVars, queueVars
<1>2. Control'
  <2>1. /\ UNCHANGED <<current, suspended, place, evt>> /\ pendSV' /\ ~pendSV
        /\ pc[current] = "yield" /\ ~suspended
    BY DEF ListInv, Control, Held, Yield, Runs, listVars
  <2>2. CASE Here.op \in {"delay", "suspend"}
    <3>1. evt[current] # "wait"
      BY <2>2 DEF ListInv, TypeOK, Control, Here
    <3> QED
      BY <2>1, <2>2, <3>1, MakeCalls DEF ListInv, TypeOK, Control, Held, CallAt, Yield, Leave, Here
  <2>3. CASE Here.op \notin {"delay", "suspend"}
    <3>1. call[current].op \in {"send", "recv"}
      BY <2>1, <2>3, CallsLemma DEF ListInv, TypeOK, Control, CallAt, Here, Ops
    <3> QED
      BY <2>1, <2>3, <3>1 DEF ListInv, TypeOK, Control, Held, CallAt, Yield, Goto, Here
  <2> QED
    BY <2>2, <2>3
<1>3. Locks'
  BY MakeCalls, CallsLemma DEF ListInv, TypeOK, Control, Held, Locks, Locking, CallAt, Unlocked, Yield, Leave, Here, Goto, Runs, schedVars, listVars, prioVars, queueVars, callVars
<1>4. ListsAgree'
  BY DEF ListInv, TypeOK, Control, Held, ListsAgree, Yield, Leave, Here, Goto, Runs, schedVars, listVars, prioVars, queueVars, callVars
<1>5. Owns'
  BY MakeCalls DEF ListInv, TypeOK, Owns, Objects, Yield, Leave, Here, Goto, Runs, schedVars, listVars, prioVars, queueVars, callVars
<1> QED
  BY <1>1, <1>2, <1>3, <1>4, <1>5 DEF ListInv

\* vTaskSuspend.
LEMMA LeaveList == ASSUME ListInv, LeaveReadyList PROVE ListInv'
<1>1. TypeOK'
  BY MakeCalls, CallsLemma, SizeNat DEF ListInv, TypeOK, Control, LeaveReadyList, Here, Goto, Runs, schedVars, listVars, prioVars, queueVars, callVars
<1>2. Control'
  BY MakeCalls, CallsLemma DEF ListInv, TypeOK, ListsAgree, Control, Held, CallAt, LeaveReadyList, Here, Goto, Runs, schedVars, listVars, prioVars, queueVars, callVars
<1>3. Locks'
  BY MakeCalls, CallsLemma DEF ListInv, TypeOK, Control, Held, Locks, Locking, CallAt, Unlocked, LeaveReadyList, Here, Goto, Runs, schedVars, listVars, prioVars, queueVars, callVars
<1>4. ListsAgree'
  BY DEF ListInv, TypeOK, Control, Held, ListsAgree, LeaveReadyList, Here, Goto, Runs, schedVars, listVars, prioVars, queueVars, callVars
<1>5. Owns'
  BY MakeCalls DEF ListInv, TypeOK, Owns, Objects, LeaveReadyList, Here, Goto, Runs, schedVars, listVars, prioVars, queueVars, callVars
<1> QED
  BY <1>1, <1>2, <1>3, <1>4, <1>5 DEF ListInv

\* vTaskSwitchContext.
LEMMA SwitchList == ASSUME ListInv, SwitchContext PROVE ListInv'
<1>1. TypeOK'
  <2>1. current' \in Tasks /\ late' \subseteq Tasks
    BY DEF ListInv, TypeOK, SwitchContext, Ready
  <2>2. pendSV' \in BOOLEAN /\ yieldPending' \in BOOLEAN /\ suspended' \in BOOLEAN
    BY Zenon DEF ListInv, TypeOK, SwitchContext
  <2> QED
    BY <2>1, <2>2 DEF ListInv, TypeOK, SwitchContext, listVars, prioVars, queueVars, callVars
<1>2. Control'
  BY MakeCalls, CallsLemma DEF ListInv, TypeOK, ListsAgree, Control, Held, CallAt, SwitchContext, Ready, Goto, Runs, schedVars, listVars, prioVars, queueVars, callVars
<1>3. Locks'
  BY MakeCalls, CallsLemma DEF ListInv, TypeOK, Control, Held, Locks, Locking, CallAt, Unlocked, SwitchContext, Ready, Goto, Runs, schedVars, listVars, prioVars, queueVars, callVars
<1>4. ListsAgree'
  BY DEF ListInv, TypeOK, Control, Held, ListsAgree, SwitchContext, Ready, Goto, Runs, schedVars, listVars, prioVars, queueVars, callVars
<1>5. Owns'
  BY MakeCalls DEF ListInv, TypeOK, Owns, Objects, SwitchContext, Ready, Goto, Runs, schedVars, listVars, prioVars, queueVars, callVars
<1> QED
  BY <1>1, <1>2, <1>3, <1>4, <1>5 DEF ListInv

\* SysTick_Handler.
LEMMA TickList == ASSUME ListInv, NEW S \in SUBSET Tasks, Tick(S) PROVE ListInv'
<1>1. TypeOK'
  <2>1. pendSV' \in BOOLEAN /\ pendedTicks' \in BOOLEAN
    BY Zenon DEF ListInv, TypeOK, Tick
  <2> HIDE DEF TickSwitches
  <2> QED
    BY <2>1 DEF ListInv, TypeOK, Tick, Expire, listVars, prioVars, queueVars, callVars
<1>2. Control'
  BY MakeCalls, CallsLemma DEF ListInv, TypeOK, ListsAgree, Control, Held, CallAt, Tick, Expire, Goto, Runs, schedVars, listVars, prioVars, queueVars, callVars
<1>3. Locks'
  BY MakeCalls, CallsLemma DEF ListInv, TypeOK, Control, Held, Locks, Locking, CallAt, Unlocked, Tick, Expire, Goto, Runs, schedVars, listVars, prioVars, queueVars, callVars
<1>4. ListsAgree'
  BY DEF ListInv, TypeOK, Control, Held, ListsAgree, Tick, Expire, Goto, Runs, schedVars, listVars, prioVars, queueVars, callVars
<1>5. Owns'
  BY MakeCalls DEF ListInv, TypeOK, Owns, Objects, Tick, Expire, Goto, Runs, schedVars, listVars, prioVars, queueVars, callVars
<1> QED
  BY <1>1, <1>2, <1>3, <1>4, <1>5 DEF ListInv

\* xTaskResumeFromISR.
LEMMA ResumeISRList == ASSUME ListInv, NEW t \in Tasks, ResumeFromISR(t) PROVE ListInv'
<1>1. TypeOK'
  BY MakeCalls, CallsLemma, SizeNat DEF ListInv, TypeOK, Control, ResumeFromISR, Goto, Runs, schedVars, listVars, prioVars, queueVars, callVars
<1>2. Control'
  BY MakeCalls, CallsLemma DEF ListInv, TypeOK, ListsAgree, Control, Held, CallAt, ResumeFromISR, Goto, Runs, schedVars, listVars, prioVars, queueVars, callVars
<1>3. Locks'
  BY MakeCalls, CallsLemma DEF ListInv, TypeOK, Control, Held, Locks, Locking, CallAt, Unlocked, ResumeFromISR, Goto, Runs, schedVars, listVars, prioVars, queueVars, callVars
<1>4. ListsAgree'
  BY DEF ListInv, TypeOK, Control, Held, ListsAgree, ResumeFromISR, Goto, Runs, schedVars, listVars, prioVars, queueVars, callVars
<1>5. Owns'
  BY MakeCalls DEF ListInv, TypeOK, Owns, Objects, ResumeFromISR, Goto, Runs, schedVars, listVars, prioVars, queueVars, callVars
<1> QED
  BY <1>1, <1>2, <1>3, <1>4, <1>5 DEF ListInv

\* What taking tasks out of a queue's list does to the lists.
LEMMA RemoveLemma ==
    ASSUME ListInv, NEW W \in SUBSET Tasks, \A t \in W : evt[t] = "wait",
           RemoveFromEventList(W)
    PROVE  /\ evt' \in [Tasks -> {"none", "wait", "pending"}]
           /\ place' \in [Tasks -> {"ready", "delayed", "suspended"}]
           /\ \A t \in Tasks : t \notin W => evt'[t] = evt[t] /\ place'[t] = place[t]
           /\ \A t \in W : ~suspended => evt'[t] = "none" /\ place'[t] = "ready"
           /\ \A t \in W : suspended => /\ evt'[t] = "pending"
                                        /\ place'[t] = place[t] /\ place[t] # "ready"
BY DEF ListInv, TypeOK, ListsAgree, RemoveFromEventList

\* One task, from the head of a list.
LEMMA HeadLemma ==
    ASSUME ListInv, NEW op, NEW q, NEW t \in Heads(op, q)
    PROVE  /\ t \in Tasks /\ {t} \in SUBSET Tasks /\ \A u \in {t} : evt[u] = "wait"
           /\ call[t].op = op /\ call[t].q = q
BY DEF Heads, Waiters, InCall

\* What TakeItem, PutItem and a post from an interrupt do to the lists.
Woken(op, q) ==
    \/ Waiters(op, q) = {} /\ UNCHANGED listVars
    \/ \E t \in Heads(op, q) : RemoveFromEventList({t})

LEMMA WokenLemma ==
    ASSUME ListInv, NEW op, NEW q, Woken(op, q)
    PROVE  /\ evt' \in [Tasks -> {"none", "wait", "pending"}]
           /\ place' \in [Tasks -> {"ready", "delayed", "suspended"}]
           /\ \A t \in Tasks : \/ evt'[t] = evt[t] /\ place'[t] = place[t]
                               \/ /\ evt[t] = "wait" /\ ~suspended
                                  /\ evt'[t] = "none" /\ place'[t] = "ready"
                               \/ /\ evt[t] = "wait" /\ suspended
                                  /\ evt'[t] = "pending"
                                  /\ place'[t] = place[t] /\ place[t] # "ready"
<1>1. CASE Waiters(op, q) = {} /\ UNCHANGED listVars
  BY <1>1 DEF ListInv, TypeOK, listVars
<1>2. ASSUME NEW h \in Heads(op, q), RemoveFromEventList({h})
      PROVE  /\ evt' \in [Tasks -> {"none", "wait", "pending"}]
             /\ place' \in [Tasks -> {"ready", "delayed", "suspended"}]
             /\ \A t \in Tasks : \/ evt'[t] = evt[t] /\ place'[t] = place[t]
                                 \/ /\ evt[t] = "wait" /\ ~suspended
                                    /\ evt'[t] = "none" /\ place'[t] = "ready"
                                 \/ /\ evt[t] = "wait" /\ suspended
                                    /\ evt'[t] = "pending"
                                    /\ place'[t] = place[t] /\ place[t] # "ready"
  BY <1>2, HeadLemma, RemoveLemma
<1> QED
  BY <1>1, <1>2 DEF Woken

\* The running task takes an item or puts one, and its call ends.
LEMMA ItemList ==
    ASSUME ListInv, NEW op, NEW q, Woken(op, q), Runs("top"), Leave,
           UNCHANGED <<current, suspended, txLock>>
    PROVE  Control' /\ Locks' /\ ListsAgree'
<1>1. ~suspended /\ place[current] = "ready" /\ evt[current] # "wait"
  BY DEF ListInv, TypeOK, Control, Held, ListsAgree, Runs
<1>2. Control'
  BY <1>1, WokenLemma, MakeCalls DEF ListInv, TypeOK, Control, Held, CallAt, Leave, Runs
<1>3. Locks'
  BY MakeCalls DEF ListInv, TypeOK, Locks, Locking, Runs, Leave
<1>4. ListsAgree'
  BY <1>1, WokenLemma DEF ListInv, TypeOK, ListsAgree
<1> QED
  BY <1>2, <1>3, <1>4

\* There is something to receive.
LEMMA TakeList == ASSUME ListInv, TakeItem PROVE ListInv'
<1> DEFINE q == Here.q
<1>1. q \in Objects /\ count[q] \in Nat /\ count[q] > 0 /\ held[current] \in Nat /\ current \in Tasks
  BY CallsLemma DEF ListInv, TypeOK, TakeItem, Here, Runs
<1>2. Woken("send", q) /\ Runs("top") /\ Leave /\ UNCHANGED <<current, suspended, txLock>>
  BY DEF TakeItem, Woken
<1>3. TypeOK'
  <2>1. pendSV' \in BOOLEAN /\ yieldPending' \in BOOLEAN
    <3>1. CASE Waiters("send", q) = {}
      BY <3>1 DEF TakeItem, ListInv, TypeOK
    <3>2. CASE Waiters("send", q) # {}
      BY <3>2, Zenon DEF TakeItem, ListInv, TypeOK, Outranks
    <3> QED
      BY <3>1, <3>2
  <2>2. /\ count' \in [Objects -> Nat] /\ \A r \in Objects : count'[r] <= Size(r)
    BY <1>1, SizeNat DEF TakeItem, ListInv, TypeOK
  <2>3. holder' \in [Mutexes -> Tasks \cup {None}] /\ held' \in [Tasks -> Nat]
    BY <1>1 DEF TakeItem, ListInv, TypeOK
  <2>4. pc' \in [Tasks -> Pcs] /\ call' \in [Tasks -> Calls]
    BY <1>2, MakeCalls DEF ListInv, TypeOK, Leave, Pcs
  <2> QED
    BY <1>2, <2>1, <2>2, <2>3, <2>4, WokenLemma DEF TakeItem, ListInv, TypeOK, Pcs
<1>4. Owns'
  <2>1. CASE q \in Mutexes
    <3>1. holder[q] = None /\ count[q] = 1 /\ held[current] = 0 /\ count[q] <= 1
      <4>1. call[current].op = "recv" /\ count[q] <= Size(q) /\ Size(q) = 1
        BY <1>1, <2>1 DEF ListInv, TypeOK, TakeItem, Here, Size
      <4> QED
        BY <1>1, <2>1, <4>1 DEF ListInv, Owns
    <3>2. /\ count' = [count EXCEPT ![q] = 0] /\ holder' = [holder EXCEPT ![q] = current]
          /\ held' = [held EXCEPT ![current] = 1]
      BY <2>1, <3>1 DEF TakeItem
    <3>3. current # None /\ \A m \in Mutexes : holder[m] # current
      BY <1>1, <3>1, TaskAssumption DEF ListInv, Owns
    <3>4. \A m \in Mutexes : count'[m] = 1 <=> holder'[m] = None
      BY <2>1, <3>1, <3>2, <3>3 DEF ListInv, TypeOK, Owns, Objects
    <3>5. \A t \in Tasks, m \in Mutexes : holder'[m] = t => held'[t] = 1
      BY <1>1, <2>1, <3>1, <3>2, <3>3 DEF ListInv, TypeOK, Owns
    <3>6. \A m, n \in Mutexes : holder'[m] = holder'[n] /\ holder'[m] # None => m = n
      BY <2>1, <3>2, <3>3 DEF ListInv, TypeOK, Owns
    <3>7. call' = [call EXCEPT ![current] = NoCall]
      BY DEF TakeItem, Leave
    <3>8. \A t \in Tasks : call'[t].op = "recv" => held'[t] = 0
      BY <1>1, <3>2, <3>7, MakeCalls DEF ListInv, TypeOK, Owns
    <3>9. \A t \in Tasks : call'[t].op = "send" /\ call'[t].q \in Mutexes => holder'[call'[t].q] = t
      BY <1>1, <2>1, <3>1, <3>2, <3>7, MakeCalls, TaskAssumption DEF ListInv, TypeOK, Owns
    <3>10. \A t \in Tasks : held'[t] <= 1
      BY <1>1, <3>2 DEF ListInv, TypeOK, Owns
    <3> QED
      BY <3>4, <3>5, <3>6, <3>8, <3>9, <3>10 DEF Owns
  <2>2. CASE q \notin Mutexes
    <3>1. UNCHANGED <<holder, held>> /\ \A m \in Mutexes : count'[m] = count[m]
      BY <1>1, <2>2 DEF TakeItem, ListInv, TypeOK, Objects
    <3> QED
      BY <1>1, <1>2, <3>1, MakeCalls DEF ListInv, TypeOK, Owns, Leave
  <2> QED
    BY <2>1, <2>2
<1> QED
  BY <1>2, <1>3, <1>4, ItemList DEF ListInv

\* There is room to send.
LEMMA PutList == ASSUME ListInv, PutItem PROVE ListInv'
<1> DEFINE q == Here.q
           p == IF q \in Mutexes THEN Disinherited ELSE prio[current]
<1>1. /\ q \in Objects /\ count[q] \in Nat /\ count[q] < Size(q) /\ Size(q) \in Nat
      /\ current \in Tasks /\ held[current] \in Nat /\ Here.op = "send"
  BY CallsLemma, SizeNat DEF ListInv, TypeOK, PutItem, Here, Runs
<1>2. Woken("recv", q) /\ Runs("top") /\ Leave /\ UNCHANGED <<current, suspended, txLock>>
  BY DEF PutItem, Woken
<1>3. q \in Mutexes => holder[q] = current /\ held[current] = 1 /\ count[q] = 0 /\ current # None
  BY <1>1, TaskAssumption DEF ListInv, TypeOK, Owns, Here, Size
<1>4. TypeOK'
  <2>1. pendSV' \in BOOLEAN /\ yieldPending' \in BOOLEAN
    <3>1. CASE Waiters("recv", q) = {}
      BY <3>1, Zenon DEF PutItem, ListInv, TypeOK
    <3>2. CASE Waiters("recv", q) # {}
      BY <3>2, Zenon DEF PutItem, ListInv, TypeOK, Outranks
    <3> QED
      BY <3>1, <3>2
  <2>2. /\ count' \in [Objects -> Nat] /\ \A r \in Objects : count'[r] <= Size(r)
    BY <1>1, SizeNat DEF PutItem, ListInv, TypeOK
  <2>3. holder' \in [Mutexes -> Tasks \cup {None}] /\ held' \in [Tasks -> Nat]
    BY <1>1, <1>3 DEF PutItem, ListInv, TypeOK
  <2>4. pc' \in [Tasks -> Pcs] /\ call' \in [Tasks -> Calls]
    BY <1>2, MakeCalls DEF ListInv, TypeOK, Leave, Pcs
  <2>5. prio' \in [Tasks -> Nat]
    <3>1. p \in Nat
      BY <1>1, BaseAssumption DEF ListInv, TypeOK, Disinherited
    <3> QED
      BY <1>1, <3>1 DEF PutItem, ListInv, TypeOK
  <2> QED
    BY <1>2, <2>1, <2>2, <2>3, <2>4, <2>5, WokenLemma DEF PutItem, ListInv, TypeOK, Pcs
<1>5. Owns'
  <2>1. CASE q \in Mutexes
    <3>1. /\ count' = [count EXCEPT ![q] = 1] /\ holder' = [holder EXCEPT ![q] = None]
          /\ held' = [held EXCEPT ![current] = 0]
      <4>1. /\ count' = [count EXCEPT ![q] = count[q] + 1] /\ holder' = [holder EXCEPT ![q] = None]
            /\ held' = [held EXCEPT ![current] = held[current] - 1]
        BY <2>1 DEF PutItem
      <4>2. count[q] + 1 = 1 /\ held[current] - 1 = 0
        BY <1>3, <2>1
      <4> QED
        BY <4>1, <4>2, Zenon
    <3>4. \A m \in Mutexes : count'[m] = 1 <=> holder'[m] = None
      BY <2>1, <3>1 DEF ListInv, TypeOK, Owns, Objects
    <3>5. \A t \in Tasks, m \in Mutexes : holder'[m] = t => held'[t] = 1
      BY <1>1, <1>3, <2>1, <3>1, TaskAssumption DEF ListInv, TypeOK, Owns
    <3>6. \A m, n \in Mutexes : holder'[m] = holder'[n] /\ holder'[m] # None => m = n
      BY <2>1, <3>1 DEF ListInv, TypeOK, Owns
    <3>7. call' = [call EXCEPT ![current] = NoCall]
      BY DEF PutItem, Leave
    <3>8. \A t \in Tasks : call'[t].op = "recv" => held'[t] = 0
      BY <1>1, <3>1, <3>7, MakeCalls DEF ListInv, TypeOK, Owns
    <3>9. \A t \in Tasks : call'[t].op = "send" /\ call'[t].q \in Mutexes => holder'[call'[t].q] = t
      BY <1>1, <1>3, <2>1, <3>1, <3>7, MakeCalls DEF ListInv, TypeOK, Owns
    <3>10. \A t \in Tasks : held'[t] <= 1
      BY <1>1, <3>1 DEF ListInv, TypeOK, Owns
    <3> QED
      BY <3>4, <3>5, <3>6, <3>8, <3>9, <3>10 DEF Owns
  <2>2. CASE q \notin Mutexes
    <3>1. UNCHANGED <<holder, held>> /\ \A m \in Mutexes : count'[m] = count[m]
      BY <1>1, <2>2 DEF PutItem, ListInv, TypeOK, Objects
    <3> QED
      BY <1>1, <1>2, <3>1, MakeCalls DEF ListInv, TypeOK, Owns, Leave
  <2> QED
    BY <2>1, <2>2
<1> QED
  BY <1>2, <1>4, <1>5, ItemList DEF ListInv

\* prvUnlockQueue.
LEMMA UnlockList == ASSUME ListInv, UnlockQueue PROVE ListInv'
<1> DEFINE q == Here.q
<1>1. /\ pc[current] = "unlock" /\ suspended /\ current \in Tasks /\ q \in Objects
      /\ pc' = [pc EXCEPT ![current] = "resumeAll"] /\ call[current].op \in {"send", "recv"}
      /\ txLock' = [txLock EXCEPT ![q] = Unlocked]
  BY CallsLemma DEF ListInv, TypeOK, Control, CallAt, Held, UnlockQueue, Here, Runs, Goto
<1>2. PICK W \in SUBSET Waiters("recv", q) :
        RemoveFromEventList(W) /\ yieldPending' = (yieldPending \/ Outranks(W, prio[current]))
  BY DEF UnlockQueue
<1>3. W \in SUBSET Tasks /\ \A t \in W : evt[t] = "wait"
  BY <1>2 DEF Waiters
<1>4. TypeOK'
  <2>1. yieldPending' \in BOOLEAN
    BY <1>2, Zenon DEF ListInv, TypeOK, Outranks
  <2> QED
    BY <1>1, <1>2, <1>3, <2>1, RemoveLemma
       DEF ListInv, TypeOK, UnlockQueue, prioVars, Unlocked
<1>5. Control'
  BY <1>1, <1>2, <1>3, RemoveLemma DEF ListInv, TypeOK, Control, Held, CallAt, UnlockQueue
<1>6. Locks'
  BY <1>1 DEF ListInv, TypeOK, Locks, Locking, UnlockQueue, Here
<1>7. ListsAgree'
  BY <1>1, <1>2, <1>3, RemoveLemma DEF ListInv, TypeOK, ListsAgree, UnlockQueue
<1>8. Owns'
  BY DEF ListInv, Owns, UnlockQueue, prioVars
<1> QED
  BY <1>4, <1>5, <1>6, <1>7, <1>8 DEF ListInv

\* A post from an interrupt.
LEMMA SendISRList == ASSUME ListInv, NEW q \in IsrQueues, SendFromISR(q) PROVE ListInv'
<1>1. /\ q \in Objects /\ q \notin Mutexes /\ count[q] \in Nat /\ count[q] < Size(q)
      /\ Size(q) \in Nat /\ count' = [count EXCEPT ![q] = @ + 1]
  BY QueueAssumption, SizeNat DEF ListInv, TypeOK, SendFromISR, Objects
<1>2. \A r \in Objects : txLock'[r] # Unlocked <=> txLock[r] # Unlocked
  BY <1>1 DEF ListInv, TypeOK, SendFromISR, Unlocked
<1>3. Woken("recv", q) \/ UNCHANGED listVars
  BY DEF SendFromISR, Woken
<1>4. /\ evt' \in [Tasks -> {"none", "wait", "pending"}]
      /\ place' \in [Tasks -> {"ready", "delayed", "suspended"}]
      /\ \A t \in Tasks : \/ evt'[t] = evt[t] /\ place'[t] = place[t]
                          \/ /\ evt[t] = "wait" /\ ~suspended
                             /\ evt'[t] = "none" /\ place'[t] = "ready"
                          \/ /\ evt[t] = "wait" /\ suspended
                             /\ evt'[t] = "pending"
                             /\ place'[t] = place[t] /\ place[t] # "ready"
  BY <1>3, WokenLemma DEF ListInv, TypeOK, listVars
<1>5. TypeOK'
  <2>1. yieldPending' \in BOOLEAN /\ pendSV' \in BOOLEAN
    <3>1. CASE txLock[q] # Unlocked \/ Waiters("recv", q) = {}
      BY <3>1, Zenon DEF SendFromISR, ListInv, TypeOK
    <3>2. CASE txLock[q] = Unlocked /\ Waiters("recv", q) # {}
      BY <3>2, Zenon DEF SendFromISR, ListInv, TypeOK, Outranks
    <3> QED
      BY <3>1, <3>2
  <2>2. count' \in [Objects -> Nat] /\ \A r \in Objects : count'[r] <= Size(r)
    BY <1>1, SizeNat DEF ListInv, TypeOK
  <2>3. txLock' \in [Objects -> Nat \cup {Unlocked}]
    BY <1>1 DEF ListInv, TypeOK, SendFromISR, Unlocked
  <2> QED
    BY <1>4, <2>1, <2>2, <2>3 DEF SendFromISR, ListInv, TypeOK, prioVars, callVars
<1>6. Control'
  <2>1. UNCHANGED <<current, suspended, callVars>> /\ (~pendSV' => ~pendSV)
    BY Zenon DEF SendFromISR
  <2> QED
    BY <1>4, <2>1 DEF ListInv, TypeOK, Control, callVars
<1>7. Locks'
  BY <1>2 DEF ListInv, Locks, SendFromISR, callVars
<1>8. ListsAgree'
  BY <1>4 DEF ListInv, TypeOK, ListsAgree, SendFromISR
<1>9. Owns'
  BY <1>1 DEF ListInv, TypeOK, Owns, SendFromISR, prioVars, callVars
<1> QED
  BY <1>5, <1>6, <1>7, <1>8, <1>9 DEF ListInv

\* xTaskResumeAll.
LEMMA ResumeAllList == ASSUME ListInv, NEW S \in SUBSET Tasks, ResumeAll(S) PROVE ListInv'
<1> DEFINE P == PendingReady
           yields == \/ yieldPending
                     \/ \E t \in P : prio[t] >= prio[current]
                     \/ pendedTicks /\ TickSwitches(S, P)
<1>1. /\ pc[current] = "resumeAll" /\ suspended /\ current \in Tasks
      /\ call[current].op \in {"send", "recv", "delay"}
      /\ suspended' = FALSE /\ pendSV' = yields /\ current' = current
  BY DEF ListInv, TypeOK, Control, CallAt, Held, ResumeAll, Runs
<1>2. \/ pc' = [pc EXCEPT ![current] = "yield"] /\ call' = call /\ place[current] # "ready"
      \/ /\ pc' = [pc EXCEPT ![current] = "user"] /\ call' = [call EXCEPT ![current] = NoCall]
         /\ place[current] # "ready" => Here.op = "delay"
      \/ pc' = [pc EXCEPT ![current] = "top"] /\ call' = call
         /\ (place[current] # "ready" => yields)
  BY Zenon DEF ResumeAll, Goto, Leave
<1>3. \A t \in Tasks : \/ evt'[t] = evt[t] /\ place'[t] = place[t] /\ evt[t] # "pending"
                       \/ evt'[t] = "none" /\ place'[t] = "ready"
  BY DEF ListInv, TypeOK, ResumeAll, Expire, PendingReady
<1>4. place[current] # "ready" /\ place'[current] # "ready" /\ pc'[current] # "yield" => pendSV'
  <2>1. place[current] # "ready" => pc'[current] = "yield" \/ yields
    BY <1>1, Zenon DEF ListInv, TypeOK, ResumeAll, Goto
  <2> QED
    BY <1>1, <2>1
<1>5. TypeOK'
  <2>1. /\ pc' \in [Tasks -> Pcs] /\ call' \in [Tasks -> Calls]
    BY <1>1, <1>2, MakeCalls DEF ListInv, TypeOK, Pcs
  <2>2. pendSV' \in BOOLEAN /\ yieldPending' \in BOOLEAN
    BY <1>1, Zenon DEF ListInv, TypeOK, ResumeAll
  <2>3. /\ place' \in [Tasks -> {"ready", "delayed", "suspended"}]
        /\ evt' \in [Tasks -> {"none", "wait", "pending"}]
        /\ timer' \in [Tasks -> {"off", "on", "expired"}]
    BY DEF ListInv, TypeOK, ResumeAll, Expire
  <2>4. suspended' \in BOOLEAN /\ pendedTicks' \in BOOLEAN
    BY DEF ResumeAll
  <2> QED
    BY <2>1, <2>2, <2>3, <2>4 DEF ListInv, TypeOK, ResumeAll, prioVars, queueVars, Pcs
<1>6. Control'
  <2>1. pc'[current] \in {"yield", "user", "top"} /\ \A t \in Tasks : t # current => pc'[t] = pc[t]
    BY <1>1, <1>2 DEF ListInv, TypeOK
  <2>2. \A t \in Tasks : pc'[t] \notin Held
    BY <2>1 DEF ListInv, Control, Held
  <2>3. \A t \in Tasks : CallAt(pc'[t], call'[t].op)
    <3>1. \A t \in Tasks : t # current => CallAt(pc'[t], call'[t].op)
      BY <1>2 DEF ListInv, TypeOK, Control
    <3>2. pc'[current] = "top" => call[current].op # "delay" /\ call' = call
      BY <1>1, <1>2 DEF ListInv, TypeOK, Control, ResumeAll, Here, Goto, Leave
    <3>3. \/ pc'[current] = "user" /\ call'[current].op = "none"
          \/ pc'[current] \in {"top", "yield"} /\ call'[current] = call[current]
      BY <1>1, <1>2, MakeCalls DEF ListInv, TypeOK
    <3>4. CallAt(pc'[current], call'[current].op)
      BY <1>1, <3>2, <3>3 DEF CallAt
    <3> QED
      BY <3>1, <3>4
  <2>4. ASSUME NEW t \in Tasks, evt'[t] = "wait"
        PROVE  /\ pc'[t] \in {"top", "yield", "unlock", "resumeAll"}
               /\ call'[t].op \in {"send", "recv"}
    <3>1. evt[t] = "wait" /\ place[t] # "ready"
      BY <1>3, <2>4 DEF ListInv, ListsAgree
    <3>2. CASE t # current
      BY <1>2, <2>1, <3>1, <3>2 DEF ListInv, TypeOK, Control
    <3>3. CASE t = current
      <4>1. Here.op # "delay"
        BY <3>1, <3>3 DEF ListInv, Control, Here
      <4> QED
        BY <1>1, <1>2, <3>1, <3>3, <4>1 DEF ListInv, TypeOK, Control
    <3> QED
      BY <3>2, <3>3
  <2>5. ASSUME NEW t \in Tasks, evt'[t] = "none", place'[t] # "ready"
        PROVE  call'[t].op \in {"suspend", "delay", "none"}
    BY <1>1, <1>2, <1>3, <2>5, MakeCalls DEF ListInv, TypeOK, Control
  <2>6. ~pendSV' /\ pc'[current] # "yield" => place'[current] = "ready"
    BY <1>1, <1>3, <1>4
  <2>7. pc'[current] # "resumeAll"
    BY <2>1
  <2> QED
    BY <1>1, <2>2, <2>3, <2>4, <2>5, <2>6, <2>7 DEF Control
<1>7. Locks'
  BY <1>1, <1>2, MakeCalls DEF ListInv, TypeOK, Locks, Locking, ResumeAll, queueVars
<1>8. ListsAgree'
  BY <1>3 DEF ListInv, ListsAgree
<1>9. Owns'
  BY <1>1, <1>2, MakeCalls DEF ListInv, TypeOK, Owns, ResumeAll, queueVars, prioVars
<1> QED
  BY <1>5, <1>6, <1>7, <1>8, <1>9 DEF ListInv

-------------------------------------------------------------------------------
LEMMA ListInit == Init => ListInv
<1> SUFFICES ASSUME Init PROVE ListInv
  OBVIOUS
<1>1. TypeOK
  <2>1. count \in [Objects -> Nat] /\ \A q \in Objects : count[q] <= Size(q)
    BY SizeNat DEF Init, Size
  <2>2. prio \in [Tasks -> Nat] /\ held \in [Tasks -> Nat]
    BY BaseAssumption DEF Init
  <2>3. call \in [Tasks -> Calls] /\ txLock \in [Objects -> Nat \cup {Unlocked}]
    BY MakeCalls DEF Init
  <2> QED
    BY <2>1, <2>2, <2>3 DEF Init, TypeOK
<1>2. Control
  BY MakeCalls DEF Init, Control, CallAt, Held
<1>3. Locks /\ ListsAgree
  BY DEF Init, Locks, ListsAgree, Locking
<1>4. Owns
  BY MakeCalls, TaskAssumption DEF Init, Owns, Objects
<1> QED
  BY <1>1, <1>2, <1>3, <1>4 DEF ListInv

LEMMA CallList == ASSUME ListInv, CallStep PROVE ListInv'
<1>1. ASSUME NEW q \in Objects, NEW wait \in {"zero", "timed", "forever"}, Receive(q, wait)
      PROVE  ListInv'
  <2> DEFINE x == [op |-> "recv", q |-> q, wait |-> wait]
  <2>1. x \in Calls /\ x.op = "recv" /\ CallAt("top", x.op)
    BY MakeCalls DEF CallAt
  <2>2. Enter(x, "top") /\ held[current] = 0
    BY <1>1 DEF Receive
  <2> HIDE DEF x
  <2> QED
    BY <2>1, <2>2, EnterList
<1>2. ASSUME NEW q \in Objects, NEW wait \in {"zero", "timed", "forever"}, Send(q, wait)
      PROVE  ListInv'
  <2> DEFINE x == [op |-> "send", q |-> q, wait |-> wait]
  <2>1. x \in Calls /\ x.op = "send" /\ x.q = q /\ CallAt("top", x.op)
    BY MakeCalls DEF CallAt
  <2>2. Enter(x, "top") /\ q \notin Mutexes
    BY <1>2, QueueAssumption DEF Send
  <2> HIDE DEF x
  <2> QED
    BY <2>1, <2>2, EnterList
<1>3. ASSUME NEW m \in Mutexes, GiveMutex(m) PROVE ListInv'
  <2> DEFINE x == [op |-> "send", q |-> m, wait |-> "zero"]
  <2>1. x \in Calls /\ x.op = "send" /\ x.q = m /\ CallAt("top", x.op)
    BY MakeCalls DEF CallAt, Objects
  <2>2. Enter(x, "top") /\ holder[m] = current
    BY <1>3 DEF GiveMutex
  <2> HIDE DEF x
  <2> QED
    BY <2>1, <2>2, EnterList
<1>4. CASE Delay
  <2> DEFINE x == [NoCall EXCEPT !.op = "delay"]
  <2>1. x \in Calls /\ x.op = "delay" /\ CallAt("suspendAll", x.op)
    BY MakeCalls DEF CallAt
  <2>2. Enter(x, "suspendAll")
    BY <1>4 DEF Delay
  <2> HIDE DEF x
  <2> QED
    BY <2>1, <2>2, EnterList
<1>5. CASE Suspend
  <2> DEFINE x == [NoCall EXCEPT !.op = "suspend"]
  <2>1. x \in Calls /\ x.op = "suspend" /\ CallAt("leave", x.op)
    BY MakeCalls DEF CallAt
  <2>2. Enter(x, "leave")
    BY <1>5 DEF Suspend
  <2> HIDE DEF x
  <2> QED
    BY <2>1, <2>2, EnterList
<1>6. ASSUME NEW t \in Sleepers, Resume(t) PROVE ListInv'
  BY <1>6, ResumeList, SleeperAssumption
<1> QED
  BY <1>1, <1>2, <1>3, <1>4, <1>5, <1>6 DEF CallStep

LEMMA ListStep == ListInv /\ [Next]_vars => ListInv'
<1> SUFFICES ASSUME ListInv, [Next]_vars PROVE ListInv'
  OBVIOUS
<1>1. CASE CallStep
  BY <1>1, CallList
<1>2. CASE KernelStep
  BY <1>2, TakeList, PutList, FindNothingList, SuspendAllList, LockQueueList, CheckList, TestList,
     InheritList, PlaceList, UnlockList, ResumeAllList, YieldList, LeaveList DEF KernelStep
<1>3. CASE SwitchContext
  BY <1>3, SwitchList
<1>4. CASE Interrupt
  BY <1>4, TickList, SendISRList, ResumeISRList, SleeperAssumption DEF Interrupt
<1>5. CASE UNCHANGED vars
  BY <1>5 DEF ListInv, TypeOK, Control, Locks, ListsAgree, Owns, vars, schedVars, listVars,
              prioVars, queueVars, callVars
<1> QED
  BY <1>1, <1>2, <1>3, <1>4, <1>5 DEF Next

\* A task waits in a queue's list only out of the ready lists, and the pending
\* ready list is empty whenever the scheduler is not suspended
\* (vTaskPlaceOnEventList, xTaskRemoveFromEventList and xTaskResumeAll).
THEOREM ListsTheorem == Spec => []ListsAgree
<1>1. ListInv => ListsAgree
  BY DEF ListInv
<1> QED
  BY <1>1, ListInit, ListStep, PTL DEF Spec

-------------------------------------------------------------------------------
(* Sets of tasks. *)

LEMMA CardMore ==
    ASSUME NEW A \in SUBSET Tasks, NEW B \in SUBSET Tasks, A \subseteq B
    PROVE  Cardinality(A) \in Nat /\ Cardinality(B) \in Nat /\ Cardinality(A) <= Cardinality(B)
<1>1. IsFiniteSet(B)
  BY TaskAssumption, FS_Subset
<1>2. IsFiniteSet(A) /\ Cardinality(A) <= Cardinality(B)
  BY <1>1, FS_Subset
<1> QED
  BY <1>1, <1>2, FS_CardinalityType

\* One task more, one task less.
LEMMA CardOneMore ==
    ASSUME NEW A \in SUBSET Tasks, NEW B \in SUBSET Tasks, NEW t \in Tasks, t \notin A,
           A \cup {t} \subseteq B
    PROVE  /\ Cardinality(A) \in Nat /\ Cardinality(B) \in Nat
           /\ Cardinality(A) + 1 <= Cardinality(B)
<1>1. IsFiniteSet(A)
  BY TaskAssumption, FS_Subset
<1>2. Cardinality(A \cup {t}) = Cardinality(A) + 1
  BY <1>1, FS_AddElement
<1>3. Cardinality(A \cup {t}) <= Cardinality(B) /\ Cardinality(B) \in Nat
  BY CardMore
<1>4. Cardinality(A) \in Nat
  BY <1>1, FS_CardinalityType
<1> QED
  BY <1>2, <1>3, <1>4

LEMMA CardOneLess ==
    ASSUME NEW A \in SUBSET Tasks, NEW B \in SUBSET Tasks, NEW t \in Tasks, A \ {t} \subseteq B
    PROVE  /\ Cardinality(A) \in Nat /\ Cardinality(B) \in Nat
           /\ Cardinality(A) <= Cardinality(B) + 1
<1>1. IsFiniteSet(A)
  BY TaskAssumption, FS_Subset
<1>2. Cardinality(A \ {t}) \in {Cardinality(A), Cardinality(A) - 1}
  BY <1>1, FS_RemoveElement
<1>3. Cardinality(A \ {t}) <= Cardinality(B) /\ Cardinality(B) \in Nat
  BY CardMore
<1>4. Cardinality(A) \in Nat
  BY <1>1, FS_CardinalityType
<1> QED
  BY <1>2, <1>3, <1>4

LEMMA CardManyMore ==
    ASSUME NEW A \in SUBSET Tasks, NEW W \in SUBSET Tasks, NEW B \in SUBSET Tasks,
           A \cap W = {}, A \cup W \subseteq B
    PROVE  /\ Cardinality(A) \in Nat /\ Cardinality(W) \in Nat /\ Cardinality(B) \in Nat
           /\ Cardinality(A) + Cardinality(W) <= Cardinality(B)
<1>1. IsFiniteSet(A) /\ IsFiniteSet(W)
  BY TaskAssumption, FS_Subset
<1>2. Cardinality(A \cup W) = Cardinality(A) + Cardinality(W) - Cardinality(A \cap W)
  BY <1>1, FS_Union
<1>3. Cardinality(A \cap W) = 0
  BY FS_EmptySet
<1>4. Cardinality(A \cup W) <= Cardinality(B) /\ Cardinality(B) \in Nat
  BY CardMore
<1>5. Cardinality(A) \in Nat /\ Cardinality(W) \in Nat
  BY <1>1, FS_CardinalityType
<1> QED
  BY <1>2, <1>3, <1>4, <1>5

-------------------------------------------------------------------------------
(* No wake-up is lost. *)

Posts(q) == IF txLock[q] = Unlocked THEN 0 ELSE txLock[q]

ItemsCovered(q) == Waiters("recv", q) # {} => count[q] <= Cardinality(Retrying("recv", q)) + Posts(q)
RoomCovered(q) == Waiters("send", q) # {} => Size(q) - count[q] <= Cardinality(Retrying("send", q))

\* From the second test of the queue until the task is in the list, what has
\* come meanwhile has been counted by the lock.
Certain ==
    pc[current] \in {"inherit", "place"} =>
        /\ call[current].op = "recv" => count[call[current].q] <= Posts(call[current].q)
        /\ call[current].op = "send" => count[call[current].q] = Size(call[current].q)

WakeInv == NoLostWakeup /\ Certain

LEMMA WakeParts == NoLostWakeup <=> \A q \in Objects : ItemsCovered(q) /\ RoomCovered(q)
BY DEF NoLostWakeup, ItemsCovered, RoomCovered, Posts

LEMMA WakePartsNext == NoLostWakeup' <=> \A q \in Objects : ItemsCovered(q)' /\ RoomCovered(q)'
BY DEF NoLostWakeup, ItemsCovered, RoomCovered, Posts

LEMMA PostsNat == TypeOK => \A q \in Objects : Posts(q) \in Nat
BY DEF TypeOK, Posts, Unlocked

LEMMA TaskSets ==
    ASSUME NEW op, NEW q
    PROVE  /\ Waiters(op, q) \in SUBSET Tasks /\ Retrying(op, q) \in SUBSET Tasks
           /\ Waiters(op, q)' \in SUBSET Tasks /\ Retrying(op, q)' \in SUBSET Tasks
           /\ Waiters(op, q) \cap Retrying(op, q) = {}
BY DEF Waiters, Retrying

\* A step that leaves the items and the locks alone, and neither makes a task
\* wait nor keeps one from looking again.
LEMMA QuietWake ==
    ASSUME ListInv, NoLostWakeup, ListInv',
           \A q \in Objects : count'[q] = count[q] /\ Posts(q)' = Posts(q),
           \A op \in {"send", "recv"}, q \in Objects : Waiters(op, q)' \subseteq Waiters(op, q),
           \A op \in {"send", "recv"}, q \in Objects : Retrying(op, q) \subseteq Retrying(op, q)'
    PROVE  NoLostWakeup'
<1> SUFFICES ASSUME NEW q \in Objects PROVE ItemsCovered(q)' /\ RoomCovered(q)'
  BY WakePartsNext
<1>1. count[q] \in Nat /\ Size(q) \in Nat /\ Posts(q) \in Nat
  BY SizeNat, PostsNat DEF ListInv, TypeOK
<1>2. ItemsCovered(q) /\ RoomCovered(q)
  BY WakeParts
<1>3. ItemsCovered(q)'
  <2> SUFFICES ASSUME Waiters("recv", q)' # {}
               PROVE  count'[q] <= Cardinality(Retrying("recv", q)') + Posts(q)'
    BY DEF ItemsCovered
  <2> DEFINE A == Retrying("recv", q)
             B == Retrying("recv", q)'
  <2>1. count[q] <= Cardinality(A) + Posts(q)
    BY <1>2 DEF ItemsCovered
  <2>2. A \in SUBSET Tasks /\ B \in SUBSET Tasks /\ A \subseteq B
    BY TaskSets
  <2> HIDE DEF A, B
  <2>3. Cardinality(A) \in Nat /\ Cardinality(B) \in Nat /\ Cardinality(A) <= Cardinality(B)
    BY <2>2, CardMore
  <2>4. count'[q] = count[q] /\ Posts(q)' = Posts(q)
    OBVIOUS
  <2>5. count'[q] <= Cardinality(B) + Posts(q)'
    BY <1>1, <2>1, <2>3, <2>4
  <2> QED
    BY <2>5 DEF B
<1>4. RoomCovered(q)'
  <2> SUFFICES ASSUME Waiters("send", q)' # {}
               PROVE  Size(q) - count'[q] <= Cardinality(Retrying("send", q)')
    BY DEF RoomCovered, Size
  <2> DEFINE A == Retrying("send", q)
             B == Retrying("send", q)'
  <2>1. Size(q) - count[q] <= Cardinality(A)
    BY <1>2 DEF RoomCovered
  <2>2. A \in SUBSET Tasks /\ B \in SUBSET Tasks /\ A \subseteq B
    BY TaskSets
  <2> HIDE DEF A, B
  <2>3. Cardinality(A) \in Nat /\ Cardinality(B) \in Nat /\ Cardinality(A) <= Cardinality(B)
    BY <2>2, CardMore
  <2>4. count'[q] = count[q]
    OBVIOUS
  <2>5. Size(q) - count'[q] <= Cardinality(B)
    BY <1>1, <2>1, <2>3, <2>4
  <2> QED
    BY <2>5 DEF B
<1> QED
  BY <1>3, <1>4

\* Away from the second test nothing has to be certain.
LEMMA NotThere ==
    ASSUME pc'[current'] \notin {"inherit", "place"} \/ call'[current'].op \notin {"send", "recv"}
    PROVE  Certain'
BY DEF Certain

\* A task that is not in a queue's list and will look at its queue again.
Back(t) ==
    /\ evt[t] # "wait"
    /\ \/ pc[t] \in {"top", "yield"}
       \/ pc[t] \in {"unlock", "resumeAll"} /\ place[t] # "ready"

\* The same, task by task.
LEMMA QuietTasks ==
    ASSUME ListInv, NoLostWakeup, ListInv',
           \A q \in Objects : count'[q] = count[q] /\ Posts(q)' = Posts(q),
           \A t \in Tasks : evt'[t] = "wait" => evt[t] = "wait" /\ call'[t] = call[t],
           \A t \in Tasks : call[t].op \in {"send", "recv"} /\ Back(t)
                              => call'[t] = call[t] /\ Back(t)'
    PROVE  NoLostWakeup'
<1>1. \A op \in {"send", "recv"}, q \in Objects : Waiters(op, q)' \subseteq Waiters(op, q)
  BY DEF Waiters, InCall
<1>2. \A op \in {"send", "recv"}, q \in Objects : Retrying(op, q) \subseteq Retrying(op, q)'
  BY DEF Retrying, InCall, Back
<1> QED
  BY <1>1, <1>2, QuietWake

LEMMA EnterWake ==
    ASSUME ListInv, ListInv', WakeInv, NEW x \in Calls, NEW l \in {"top", "suspendAll", "leave"},
           Enter(x, l)
    PROVE  WakeInv'
<1>1. call[current].op = "none" /\ current \in Tasks
  BY DEF ListInv, TypeOK, Control, CallAt, Enter, Runs
<1>2. NoLostWakeup'
  <2>1. \A t \in Tasks : t # current => call'[t] = call[t] /\ pc'[t] = pc[t]
    BY DEF Enter, Goto, ListInv, TypeOK
  <2>2. evt[current] # "wait"
    BY <1>1 DEF ListInv, Control
  <2> QED
    BY <1>1, <2>1, <2>2, QuietTasks DEF WakeInv, Enter, queueVars, listVars, Posts, Back
<1>3. Certain'
  BY <1>1 DEF Certain, Enter, Goto, schedVars, ListInv, TypeOK
<1> QED
  BY <1>2, <1>3 DEF WakeInv

LEMMA ResumeWake ==
    ASSUME ListInv, ListInv', WakeInv, NEW s \in Tasks, Resume(s) PROVE WakeInv'
<1>1. call[s].op \notin {"send", "recv"}
  BY DEF ListInv, Control, Resume
<1>2. NoLostWakeup'
  BY <1>1, QuietTasks DEF WakeInv, Resume, queueVars, callVars, Posts, Back, ListInv, TypeOK
<1>3. Certain'
  BY DEF WakeInv, Certain, Resume, queueVars, callVars, Posts, Size
<1> QED
  BY <1>2, <1>3 DEF WakeInv

\* The call fails or is going to block: it has found nothing.
LEMMA FindNothingWake ==
    ASSUME ListInv, ListInv', WakeInv, FindNothing PROVE WakeInv'
<1>1. /\ pc[current] = "top" /\ current \in Tasks /\ call[current].op \in {"send", "recv"}
      /\ evt[current] # "wait" /\ ~suspended /\ current' = current
  BY DEF ListInv, TypeOK, Control, CallAt, Held, ListsAgree, FindNothing, Runs, schedVars
<1>2. \A t \in Tasks : t # current => call'[t] = call[t] /\ pc'[t] = pc[t]
  BY <1>1 DEF FindNothing, Goto, Leave, ListInv, TypeOK
<1>3. pc'[current] \in {"user", "suspendAll"}
  BY <1>1 DEF FindNothing, Goto, Leave, ListInv, TypeOK
<1>4. NoLostWakeup'
  <2> SUFFICES ASSUME NEW q \in Objects PROVE ItemsCovered(q)' /\ RoomCovered(q)'
    BY WakePartsNext
  <2>1. count[q] \in Nat /\ Size(q) \in Nat /\ Posts(q) \in Nat /\ count'[q] = count[q]
        /\ Posts(q)' = Posts(q)
    BY SizeNat, PostsNat DEF ListInv, TypeOK, FindNothing, queueVars, Posts
  <2>2. \A op \in {"send", "recv"} : Waiters(op, q)' \subseteq Waiters(op, q)
    BY <1>1, <1>2, <1>3 DEF Waiters, InCall, FindNothing, listVars
  <2>3. \A op \in {"send", "recv"} : ~InCall(current, op, q)
          => Retrying(op, q) \subseteq Retrying(op, q)'
    BY <1>1, <1>2 DEF Retrying, InCall, FindNothing, listVars
  <2>4. InCall(current, "recv", q) => count[q] = 0
    BY DEF InCall, FindNothing, Blocks, Here
  <2>5. InCall(current, "send", q) => count[q] = Size(q)
    BY DEF InCall, FindNothing, Blocks, Here
  <2>6. ItemsCovered(q) /\ RoomCovered(q)
    BY WakeParts DEF WakeInv
  <2>7. /\ Cardinality(Retrying("recv", q)') \in Nat /\ Cardinality(Retrying("send", q)') \in Nat
    BY TaskSets, CardMore
  <2>8. ItemsCovered(q)'
    <3>1. CASE InCall(current, "recv", q)
      BY <2>1, <2>4, <2>7, <3>1 DEF ItemsCovered
    <3>2. CASE ~InCall(current, "recv", q)
      <4>1. /\ Cardinality(Retrying("recv", q)) \in Nat
            /\ Cardinality(Retrying("recv", q)) <= Cardinality(Retrying("recv", q)')
        BY <2>3, <3>2, TaskSets, CardMore
      <4> QED
        BY <2>1, <2>2, <2>6, <2>7, <4>1 DEF ItemsCovered
    <3> QED
      BY <3>1, <3>2
  <2>9. RoomCovered(q)'
    <3>1. CASE InCall(current, "send", q)
      BY <2>1, <2>5, <2>7, <3>1 DEF RoomCovered, Size
    <3>2. CASE ~InCall(current, "send", q)
      <4>1. /\ Cardinality(Retrying("send", q)) \in Nat
            /\ Cardinality(Retrying("send", q)) <= Cardinality(Retrying("send", q)')
        BY <2>3, <3>2, TaskSets, CardMore
      <4> QED
        BY <2>1, <2>2, <2>6, <2>7, <4>1 DEF RoomCovered, Size
    <3> QED
      BY <3>1, <3>2
  <2> QED
    BY <2>8, <2>9
<1> QED
  BY <1>1, <1>3, <1>4, NotThere DEF WakeInv

\* Steps of a call that change nothing of the lists, and the yield.
LEMMA WayWake ==
    ASSUME ListInv, ListInv', WakeInv,
           SuspendAll \/ LockQueue \/ CheckForTimeOut \/ TestAgain \/ InheritPriority
           \/ Yield \/ LeaveReadyList
    PROVE  WakeInv'
<1>1. current \in Tasks /\ current' = current /\ ~pendSV
  BY DEF ListInv, TypeOK, SuspendAll, LockQueue, CheckForTimeOut, TestAgain, InheritPriority,
         Yield, LeaveReadyList, Runs, schedVars
<1>2. NoLostWakeup'
  <2>1. \A q \in Objects : count'[q] = count[q] /\ Posts(q)' = Posts(q)
    <3>1. CASE LockQueue
      <4>1. \A q \in Objects : txLock[q] = Unlocked
        BY <3>1 DEF ListInv, Locks, Locking, LockQueue, Runs
      <4>2. count' = count /\ txLock' = [txLock EXCEPT ![Here.q] = 0]
        BY <3>1 DEF LockQueue
      <4> QED
        BY <4>1, <4>2 DEF ListInv, TypeOK, Posts, Unlocked
    <3>2. CASE ~LockQueue
      BY <3>2 DEF SuspendAll, CheckForTimeOut, TestAgain, InheritPriority, Yield, LeaveReadyList,
                  queueVars, Posts
    <3> QED
      BY <3>1, <3>2
  <2>2. \A t \in Tasks : evt'[t] = evt[t] /\ (t # current => /\ pc'[t] = pc[t] /\ call'[t] = call[t]
                                                             /\ place'[t] = place[t])
    BY <1>1 DEF ListInv, TypeOK, SuspendAll, LockQueue, CheckForTimeOut, TestAgain,
                InheritPriority, Yield, LeaveReadyList, Goto, Leave, listVars
  <2>3. CASE Yield
    <3>1. pc[current] = "yield" /\ UNCHANGED <<place, evt>>
      BY <2>3 DEF Yield, Runs, listVars
    <3>2. \/ pc'[current] = "top" /\ call'[current] = call[current]
          \/ call[current].op \notin {"send", "recv"} /\ evt[current] # "wait"
      BY <1>1, <2>3, <3>1 DEF Yield, Leave, Goto, Here, ListInv, TypeOK, Control
    <3> QED
      BY <2>1, <2>2, <3>1, <3>2, QuietTasks DEF WakeInv, Back
  <2>4. CASE ~Yield
    <3>1. pc[current] \notin {"top", "yield", "unlock", "resumeAll"} /\ evt[current] # "wait"
      BY <2>4 DEF SuspendAll, LockQueue, CheckForTimeOut, TestAgain, InheritPriority,
                  LeaveReadyList, Runs, ListInv, TypeOK, Control
    <3>2. call' = call
      BY <2>4 DEF SuspendAll, LockQueue, CheckForTimeOut, TestAgain, InheritPriority,
                  LeaveReadyList, callVars
    <3> QED
      BY <2>1, <2>2, <3>1, <3>2, QuietTasks DEF WakeInv, Back
  <2> QED
    BY <2>3, <2>4
<1>3. Certain'
  <2>1. CASE TestAgain
    <3> DEFINE q == Here.q
    <3>1. /\ pc[current] = "test" /\ q \in Objects /\ call' = call /\ count' = count
          /\ txLock' = txLock
      BY <2>1, CallsLemma DEF TestAgain, Runs, ListInv, TypeOK, Control, CallAt, queueVars, Here
    <3>2. Posts(q) \in Nat
      BY <3>1, PostsNat DEF ListInv
    <3>3. CASE Blocks
      BY <1>1, <3>1, <3>2, <3>3 DEF Certain, Blocks, Here, Posts, Size
    <3>4. CASE ~Blocks
      BY <1>1, <2>1, <3>4, NotThere DEF TestAgain, StillBlocks, Goto, ListInv, TypeOK
    <3> QED
      BY <3>3, <3>4
  <2>2. CASE InheritPriority
    <3>1. UNCHANGED <<count, txLock, call>> /\ pc[current] = "inherit"
      BY <2>2 DEF InheritPriority, queueVars, Runs
    <3> QED
      BY <1>1, <3>1 DEF WakeInv, Certain, Posts, Size
  <2>3. CASE SuspendAll
    <3>1. pc'[current] = "place" => call'[current].op = "delay"
      BY <1>1, <2>3 DEF SuspendAll, Goto, Here, ListInv, TypeOK
    <3>2. pc'[current] # "inherit"
      BY <1>1, <2>3 DEF SuspendAll, Goto, ListInv, TypeOK
    <3> QED
      BY <1>1, <3>1, <3>2 DEF Certain
  <2>4. CASE LockQueue \/ CheckForTimeOut \/ Yield \/ LeaveReadyList
    BY <1>1, <2>4, NotThere
       DEF LockQueue, CheckForTimeOut, Yield, LeaveReadyList, Goto, Leave, ListInv, TypeOK
  <2> QED
    BY <2>1, <2>2, <2>3, <2>4
<1> QED
  BY <1>2, <1>3 DEF WakeInv

\* The task goes into the list: it is certain that there is nothing for it.
LEMMA PlaceWake == ASSUME ListInv, ListInv', WakeInv, PlaceOnEventList PROVE WakeInv'
<1>1. /\ pc[current] = "place" /\ current \in Tasks /\ evt[current] # "wait" /\ current' = current
      /\ call' = call
      /\ pc' = [pc EXCEPT ![current] = IF Here.op = "delay" THEN "resumeAll" ELSE "unlock"]
  BY DEF ListInv, TypeOK, Control, PlaceOnEventList, Runs, schedVars, Goto
<1>2. \A t \in Tasks : t # current => /\ pc'[t] = pc[t] /\ evt'[t] = evt[t] /\ place'[t] = place[t]
  BY <1>1 DEF PlaceOnEventList, ListInv, TypeOK
<1>3. NoLostWakeup'
  <2> SUFFICES ASSUME NEW q \in Objects PROVE ItemsCovered(q)' /\ RoomCovered(q)'
    BY WakePartsNext
  <2>1. count[q] \in Nat /\ Size(q) \in Nat /\ Posts(q) \in Nat /\ count'[q] = count[q]
        /\ Posts(q)' = Posts(q)
    BY SizeNat, PostsNat DEF ListInv, TypeOK, PlaceOnEventList, queueVars, Posts
  <2>2. \A op \in {"send", "recv"} :
          ~InCall(current, op, q) => Waiters(op, q)' \subseteq Waiters(op, q)
    BY <1>1, <1>2 DEF Waiters, InCall
  <2>3. \A op \in {"send", "recv"} : Retrying(op, q) \subseteq Retrying(op, q)'
    BY <1>1, <1>2 DEF Retrying, InCall
  <2>4. InCall(current, "recv", q) => count[q] <= Posts(q)
    BY <1>1 DEF InCall, WakeInv, Certain
  <2>5. InCall(current, "send", q) => count[q] = Size(q)
    BY <1>1 DEF InCall, WakeInv, Certain
  <2>6. ItemsCovered(q) /\ RoomCovered(q)
    BY WakeParts DEF WakeInv
  <2>7. /\ Cardinality(Retrying("recv", q)') \in Nat /\ Cardinality(Retrying("send", q)') \in Nat
        /\ Cardinality(Retrying("recv", q)) \in Nat /\ Cardinality(Retrying("send", q)) \in Nat
        /\ Cardinality(Retrying("recv", q)) <= Cardinality(Retrying("recv", q)')
        /\ Cardinality(Retrying("send", q)) <= Cardinality(Retrying("send", q)')
    BY <2>3, TaskSets, CardMore
  <2>8. ItemsCovered(q)'
    BY <2>1, <2>2, <2>4, <2>6, <2>7 DEF ItemsCovered
  <2>9. RoomCovered(q)'
    BY <2>1, <2>2, <2>5, <2>6, <2>7 DEF RoomCovered, Size
  <2> QED
    BY <2>8, <2>9
<1> QED
  BY <1>1, <1>3, NotThere DEF WakeInv, ListInv, TypeOK

\* The lock counted W posts, and wakes as many tasks, or all there are.
LEMMA UnlockWake == ASSUME ListInv, ListInv', WakeInv, UnlockQueue PROVE WakeInv'
<1> DEFINE r == Here.q
<1>1. /\ pc[current] = "unlock" /\ suspended /\ current \in Tasks /\ r \in Objects
      /\ pc' = [pc EXCEPT ![current] = "resumeAll"] /\ call' = call /\ current' = current
      /\ txLock' = [txLock EXCEPT ![r] = Unlocked] /\ count' = count
      /\ call[current].op # "delay" /\ call[current].q = r
  BY CallsLemma DEF ListInv, TypeOK, Control, CallAt, Held, UnlockQueue, Here, Runs, Goto
<1>2. PICK W \in SUBSET Waiters("recv", r) :
        /\ \/ Cardinality(W) = txLock[r]
           \/ W = Waiters("recv", r)
        /\ RemoveFromEventList(W)
  BY DEF UnlockQueue, LockedPosts
<1>3. /\ W \in SUBSET Tasks /\ \A t \in W : evt[t] = "wait" /\ InCall(t, "recv", r)
  BY <1>2 DEF Waiters
<1>4. \A t \in Tasks : /\ t \in W => evt'[t] = "pending" /\ place'[t] # "ready"
                       /\ t \notin W => evt'[t] = evt[t] /\ place'[t] = place[t]
  BY <1>1, <1>2, <1>3, RemoveLemma
<1>5. txLock[r] \in Nat
  BY <1>1 DEF ListInv, TypeOK, Locks, Locking
<1>6. ASSUME NEW t \in W PROVE pc'[t] \in {"top", "yield", "resumeAll"}
  BY <1>1, <1>3, <1>6 DEF ListInv, TypeOK, Control, Held
<1>7. NoLostWakeup'
  <2> SUFFICES ASSUME NEW q \in Objects PROVE ItemsCovered(q)' /\ RoomCovered(q)'
    BY WakePartsNext
  <2>1. count[q] \in Nat /\ Size(q) \in Nat /\ Posts(q) \in Nat /\ count'[q] = count[q]
    BY <1>1, SizeNat, PostsNat DEF ListInv, TypeOK
  <2>2. \A op \in {"send", "recv"} : Waiters(op, q)' \subseteq Waiters(op, q)
    BY <1>1, <1>4 DEF Waiters, InCall
  <2>3. \A op \in {"send", "recv"} : Retrying(op, q) \subseteq Retrying(op, q)'
    BY <1>1, <1>3, <1>4 DEF Retrying, InCall, ListInv, TypeOK
  <2>4. ItemsCovered(q) /\ RoomCovered(q)
    BY WakeParts DEF WakeInv
  <2>5. /\ Cardinality(Retrying("recv", q)') \in Nat /\ Cardinality(Retrying("send", q)') \in Nat
        /\ Cardinality(Retrying("recv", q)) \in Nat /\ Cardinality(Retrying("send", q)) \in Nat
        /\ Cardinality(Retrying("recv", q)) <= Cardinality(Retrying("recv", q)')
        /\ Cardinality(Retrying("send", q)) <= Cardinality(Retrying("send", q)')
    BY <2>3, TaskSets, CardMore
  <2>6. ItemsCovered(q)'
    <3>1. CASE q # r
      <4>1. Posts(q)' = Posts(q)
        BY <1>1, <3>1 DEF Posts, ListInv, TypeOK
      <4> QED
        BY <2>1, <2>2, <2>4, <2>5, <4>1 DEF ItemsCovered
    <3>2. CASE q = r /\ W = Waiters("recv", r)
      <4>1. Waiters("recv", q)' = {}
        BY <1>1, <1>3, <1>4, <3>2 DEF Waiters, InCall
      <4> QED
        BY <4>1 DEF ItemsCovered
    <3>3. CASE q = r /\ W # Waiters("recv", r)
      <4>1. Cardinality(W) = txLock[q] /\ Posts(q) = txLock[q] /\ Posts(q)' = 0
        BY <1>1, <1>2, <1>5, <3>3 DEF Posts, Unlocked, ListInv, TypeOK
      <4>2. Waiters("recv", q) # {}
        BY <1>2, <3>3
      <4>3. Retrying("recv", q) \cap W = {}
        BY <1>3 DEF Retrying
      <4>4. W \subseteq Retrying("recv", q)'
        BY <1>1, <1>3, <1>4, <1>6, <3>3 DEF Retrying, InCall
      <4>5. Retrying("recv", q) \cup W \subseteq Retrying("recv", q)'
        BY <2>3, <4>4
      <4>6. Cardinality(Retrying("recv", q)) + Cardinality(W) <= Cardinality(Retrying("recv", q)')
        BY <1>3, <4>3, <4>5, TaskSets, CardManyMore
      <4> QED
        BY <2>1, <2>4, <2>5, <4>1, <4>2, <4>6 DEF ItemsCovered
    <3> QED
      BY <3>1, <3>2, <3>3
  <2>7. RoomCovered(q)'
    BY <2>1, <2>2, <2>4, <2>5 DEF RoomCovered, Size
  <2> QED
    BY <2>6, <2>7
<1> QED
  BY <1>1, <1>7, NotThere DEF WakeInv, ListInv, TypeOK

LEMMA ResumeAllWake ==
    ASSUME ListInv, ListInv', WakeInv, NEW S \in SUBSET Tasks, ResumeAll(S) PROVE WakeInv'
<1>1. /\ pc[current] = "resumeAll" /\ current \in Tasks /\ current' = current
      /\ UNCHANGED queueVars
  BY DEF ListInv, TypeOK, ResumeAll, Runs
<1>2. /\ \A t \in Tasks : evt'[t] = "wait" => evt[t] = "wait"
      /\ \A t \in Tasks : evt[t] # "wait" => evt'[t] # "wait"
      /\ \A t \in Tasks : t # current => pc'[t] = pc[t] /\ call'[t] = call[t]
      /\ pc'[current] \in {"yield", "user", "top"}
  BY <1>1 DEF ListInv, TypeOK, ResumeAll, Expire, Goto, Leave
<1>3. place[current] # "ready" /\ Here.op # "delay"
        => pc'[current] \in {"yield", "top"} /\ call'[current] = call[current]
  BY <1>1 DEF ListInv, TypeOK, ResumeAll, Goto, Leave
<1>4. evt[current] = "wait" => place[current] # "ready" /\ call[current].op \in {"send", "recv"}
  BY <1>1 DEF ListInv, ListsAgree, Control
<1>5. \A t \in Tasks : t # current => pc[t] \notin {"unlock", "resumeAll"}
  BY DEF ListInv, Control, Held
<1>6. NoLostWakeup'
  <2>1. ASSUME NEW t \in Tasks, evt'[t] = "wait" PROVE evt[t] = "wait" /\ call'[t] = call[t]
    BY <1>2, <1>3, <1>4, <2>1 DEF Here
  <2>2. ASSUME NEW t \in Tasks, call[t].op \in {"send", "recv"}, Back(t)
        PROVE  call'[t] = call[t] /\ Back(t)'
    <3>1. CASE t = current
      BY <1>1, <1>2, <1>3, <2>2, <3>1 DEF Back, Here
    <3>2. CASE t # current
      BY <1>2, <1>5, <2>2, <3>2 DEF Back
    <3> QED
      BY <3>1, <3>2
  <2> QED
    BY <1>1, <2>1, <2>2, QuietTasks DEF WakeInv, queueVars, Posts
<1> QED
  BY <1>1, <1>2, <1>6, NotThere DEF WakeInv

LEMMA InterruptWake ==
    ASSUME ListInv, ListInv', WakeInv,
           SwitchContext \/ (\E S \in SUBSET Tasks : Tick(S)) \/ (\E t \in Tasks : ResumeFromISR(t))
    PROVE  WakeInv'
<1>1. UNCHANGED <<queueVars, callVars>>
  BY DEF SwitchContext, Tick, ResumeFromISR
<1>2. ASSUME NEW t \in Tasks
      PROVE  /\ evt'[t] = "wait" => evt[t] = "wait"
             /\ call[t].op \in {"send", "recv"} /\ evt[t] # "wait" =>
                  /\ evt'[t] # "wait"
                  /\ pc[t] \in {"unlock", "resumeAll"} => place'[t] = place[t]
  <2>1. CASE SwitchContext
    BY <2>1 DEF SwitchContext, listVars
  <2>2. ASSUME NEW S \in SUBSET Tasks, Tick(S) PROVE <1>2!2
    <3>1. CASE suspended
      BY <2>2, <3>1 DEF Tick, listVars
    <3>2. CASE ~suspended
      <4>1. \A u \in Tasks : pc[u] \notin {"unlock", "resumeAll"}
        BY <3>2 DEF ListInv, Control, Held
      <4> QED
        BY <2>2, <3>2, <4>1 DEF Tick, Expire
    <3> QED
      BY <3>1, <3>2
  <2>3. ASSUME NEW s \in Tasks, ResumeFromISR(s) PROVE <1>2!2
    <3>1. call[s].op \notin {"send", "recv"} /\ evt[s] = "none" /\ place[s] = "suspended"
      BY <2>3 DEF ResumeFromISR, ListInv, Control
    <3> QED
      BY <2>3, <3>1 DEF ResumeFromISR, ListInv, TypeOK
  <2> QED
    BY <2>1, <2>2, <2>3
<1>3. NoLostWakeup'
  <2>1. ASSUME NEW t \in Tasks, call[t].op \in {"send", "recv"}, Back(t)
        PROVE  call'[t] = call[t] /\ Back(t)'
    BY <1>1, <1>2, <2>1 DEF Back, callVars
  <2> QED
    BY <1>1, <1>2, <2>1, QuietTasks DEF WakeInv, queueVars, callVars, Posts
<1>4. Certain'
  <2>1. current' = current \/ ~suspended
    BY DEF SwitchContext, Tick, ResumeFromISR, schedVars
  <2>2. ~suspended => pc'[current'] \notin {"inherit", "place"}
    BY <1>1 DEF ListInv, TypeOK, Control, Held, callVars, SwitchContext, Tick, ResumeFromISR, schedVars
  <2>3. CASE suspended
    BY <1>1, <2>1, <2>3 DEF WakeInv, Certain, Posts, Size, queueVars, callVars
  <2>4. CASE ~suspended
    BY <2>2, <2>4, NotThere
  <2> QED
    BY <2>3, <2>4
<1> QED
  BY <1>3, <1>4 DEF WakeInv

\* Woken takes one task out of the list if there is one.
LEMMA WokenTask ==
    ASSUME ListInv, NEW op, NEW q, Woken(op, q), Waiters(op, q) # {}
    PROVE  \E t \in Waiters(op, q) :
              /\ evt'[t] # "wait" /\ (suspended => place'[t] # "ready")
              /\ \A u \in Tasks : u # t => evt'[u] = evt[u] /\ place'[u] = place[u]
<1>1. PICK t \in Heads(op, q) : RemoveFromEventList({t})
  BY DEF Woken
<1>2. t \in Waiters(op, q)
  BY DEF Heads
<1>3. evt'[t] # "wait" /\ (suspended => place'[t] # "ready")
  BY <1>1, HeadLemma, RemoveLemma
<1>4. \A u \in Tasks : u # t => evt'[u] = evt[u] /\ place'[u] = place[u]
  BY <1>1, HeadLemma, RemoveLemma
<1> QED
  BY <1>2, <1>3, <1>4

\* Where the tasks are after an item has been taken or put by the running task.
LEMMA ItemTasks ==
    ASSUME ListInv, NEW op, NEW r, Woken(op, r), Runs("top"), Leave, current' = current
    PROVE  /\ \A o, q : Waiters(o, q)' \subseteq Waiters(o, q)
           /\ \A o \in {"send", "recv"} : \A q : Retrying(o, q) \ {current} \subseteq Retrying(o, q)'
           /\ \A o \in {"send", "recv"} : \A q :
                ~InCall(current, o, q) => Retrying(o, q) \subseteq Retrying(o, q)'
           /\ Waiters(op, r) # {} /\ ~InCall(current, op, r) =>
                \E t \in Tasks : t \notin Retrying(op, r) /\ t \in Retrying(op, r)'
<1>1. /\ ~suspended /\ evt[current] # "wait" /\ current \in Tasks /\ pc[current] = "top"
      /\ \A t \in Tasks : pc[t] \notin {"unlock", "resumeAll"}
  BY DEF ListInv, TypeOK, Control, Held, ListsAgree, Runs
<1>2. \A t \in Tasks : t # current => call'[t] = call[t] /\ pc'[t] = pc[t]
  BY <1>1 DEF Leave, ListInv, TypeOK
<1>3. \A t \in Tasks : evt'[t] = "wait" => evt[t] = "wait" /\ t # current
  BY <1>1, WokenLemma
<1>4. \A t \in Tasks : evt[t] # "wait" => evt'[t] # "wait"
  BY WokenLemma
<1>5. \A o, q : Waiters(o, q)' \subseteq Waiters(o, q)
  BY <1>2, <1>3 DEF Waiters, InCall
<1>6. \A o, q : Retrying(o, q) \ {current} \subseteq Retrying(o, q)'
  BY <1>1, <1>2, <1>4 DEF Retrying, InCall
<1>7. \A o, q : ~InCall(current, o, q) => current \notin Retrying(o, q)
  BY DEF Retrying
<1>8. ASSUME Waiters(op, r) # {} PROVE \E t \in Tasks : t \notin Retrying(op, r) /\ t \in Retrying(op, r)'
  <2>1. PICK t \in Waiters(op, r) : evt'[t] # "wait"
    BY <1>8, WokenTask
  <2>2. t \in Tasks /\ evt[t] = "wait" /\ InCall(t, op, r) /\ t # current
    BY <1>1 DEF Waiters
  <2>3. pc[t] \in {"top", "yield"}
    BY <1>1, <2>2 DEF ListInv, Control
  <2> QED
    BY <1>2, <2>1, <2>2, <2>3 DEF Retrying, InCall
<1> QED
  BY <1>5, <1>6, <1>7, <1>8

LEMMA TakeWake == ASSUME ListInv, ListInv', WakeInv, TakeItem PROVE WakeInv'
<1>0. PICK r \in Objects : r = Here.q
  <2>1. Here \in Calls /\ Here.op = "recv"
    BY DEF ListInv, TypeOK, TakeItem, Here
  <2> QED
    BY <2>1, CallsLemma
<1>1. /\ r \in Objects /\ current \in Tasks /\ InCall(current, "recv", r) /\ current' = current
      /\ count' = [count EXCEPT ![r] = @ - 1] /\ count[r] > 0 /\ txLock' = txLock
      /\ Woken("send", r) /\ Runs("top") /\ Leave /\ pc'[current] = "user"
  <2>1. current \in Tasks /\ InCall(current, "recv", r)
    BY <1>0 DEF ListInv, TypeOK, TakeItem, Here, InCall
  <2>2. /\ count' = [count EXCEPT ![r] = @ - 1] /\ count[r] > 0 /\ txLock' = txLock
        /\ current' = current /\ Runs("top") /\ Leave
    BY <1>0 DEF TakeItem
  <2>3. Woken("send", r)
    BY <1>0 DEF TakeItem, Woken
  <2>4. pc'[current] = "user"
    BY <2>1, <2>2 DEF ListInv, TypeOK, Leave
  <2> QED
    BY <2>1, <2>2, <2>3, <2>4
<1>2. /\ \A o, q : Waiters(o, q)' \subseteq Waiters(o, q)
      /\ \A o \in {"send", "recv"} : \A q : Retrying(o, q) \ {current} \subseteq Retrying(o, q)'
      /\ \A o \in {"send", "recv"} : \A q :
           ~InCall(current, o, q) => Retrying(o, q) \subseteq Retrying(o, q)'
  BY <1>1, ItemTasks
<1>3. Waiters("send", r) # {} =>
        \E t \in Tasks : t \notin Retrying("send", r) /\ t \in Retrying("send", r)'
  <2>1. ~InCall(current, "send", r)
    BY <1>1 DEF InCall
  <2>2. /\ Woken("send", r) /\ Runs("top") /\ Leave /\ current' = current
    BY <1>1
  <2> QED
    BY <2>1, <2>2, ItemTasks
<1>4. NoLostWakeup'
  <2> SUFFICES ASSUME NEW q \in Objects PROVE ItemsCovered(q)' /\ RoomCovered(q)'
    BY WakePartsNext
  <2>1. /\ count[q] \in Nat /\ Size(q) \in Nat /\ Posts(q) \in Nat /\ Posts(q)' = Posts(q)
        /\ count'[q] = IF q = r THEN count[q] - 1 ELSE count[q]
    BY <1>1, SizeNat, PostsNat DEF ListInv, TypeOK, Posts
  <2>2. ItemsCovered(q) /\ RoomCovered(q)
    BY WakeParts DEF WakeInv
  <2>3. ItemsCovered(q)'
    <3>1. CASE q = r
      <4>1. /\ Cardinality(Retrying("recv", q)) \in Nat /\ Cardinality(Retrying("recv", q)') \in Nat
            /\ Cardinality(Retrying("recv", q)) <= Cardinality(Retrying("recv", q)') + 1
        BY <1>1, <1>2, TaskSets, CardOneLess
      <4> QED
        BY <1>2, <2>1, <2>2, <3>1, <4>1 DEF ItemsCovered
    <3>2. CASE q # r
      <4>1. Retrying("recv", q) \subseteq Retrying("recv", q)'
        BY <1>1, <1>2, <3>2 DEF InCall
      <4>2. /\ Cardinality(Retrying("recv", q)) \in Nat /\ Cardinality(Retrying("recv", q)') \in Nat
            /\ Cardinality(Retrying("recv", q)) <= Cardinality(Retrying("recv", q)')
        BY <4>1, TaskSets, CardMore
      <4> QED
        BY <1>2, <2>1, <2>2, <3>2, <4>2 DEF ItemsCovered
    <3> QED
      BY <3>1, <3>2
  <2>4. RoomCovered(q)'
    <3>1. Retrying("send", q) \subseteq Retrying("send", q)'
      BY <1>1, <1>2 DEF InCall
    <3>2. CASE q = r /\ Waiters("send", q) # {}
      <4>1. PICK t \in Tasks : t \notin Retrying("send", q) /\ t \in Retrying("send", q)'
        BY <1>3, <3>2
      <4>2. Retrying("send", q) \cup {t} \subseteq Retrying("send", q)'
        BY <3>1, <4>1
      <4>3. /\ Cardinality(Retrying("send", q)) \in Nat /\ Cardinality(Retrying("send", q)') \in Nat
            /\ Cardinality(Retrying("send", q)) + 1 <= Cardinality(Retrying("send", q)')
        BY <4>1, <4>2, TaskSets, CardOneMore
      <4> QED
        BY <2>1, <2>2, <3>2, <4>3 DEF RoomCovered, Size
    <3>3. CASE Waiters("send", q) = {}
      BY <1>2, <3>3 DEF RoomCovered
    <3>4. CASE q # r
      <4>1. /\ Cardinality(Retrying("send", q)) \in Nat /\ Cardinality(Retrying("send", q)') \in Nat
            /\ Cardinality(Retrying("send", q)) <= Cardinality(Retrying("send", q)')
        BY <3>1, TaskSets, CardMore
      <4> QED
        BY <1>2, <2>1, <2>2, <3>4, <4>1 DEF RoomCovered, Size
    <3> QED
      BY <3>2, <3>3, <3>4
  <2> QED
    BY <2>3, <2>4
<1> QED
  BY <1>1, <1>4, NotThere DEF WakeInv

LEMMA PutWake == ASSUME ListInv, ListInv', WakeInv, PutItem PROVE WakeInv'
<1>0. PICK r \in Objects : r = Here.q
  <2>1. Here \in Calls /\ Here.op = "send"
    BY DEF ListInv, TypeOK, PutItem, Here
  <2> QED
    BY <2>1, CallsLemma
<1>1. /\ r \in Objects /\ current \in Tasks /\ InCall(current, "send", r) /\ current' = current
      /\ count' = [count EXCEPT ![r] = @ + 1] /\ txLock' = txLock
      /\ Woken("recv", r) /\ Runs("top") /\ Leave /\ pc'[current] = "user"
  <2>1. current \in Tasks /\ InCall(current, "send", r)
    BY <1>0 DEF ListInv, TypeOK, PutItem, Here, InCall
  <2>2. /\ count' = [count EXCEPT ![r] = @ + 1] /\ txLock' = txLock
        /\ current' = current /\ Runs("top") /\ Leave
    BY <1>0 DEF PutItem
  <2>3. Woken("recv", r)
    BY <1>0 DEF PutItem, Woken
  <2>4. pc'[current] = "user"
    BY <2>1, <2>2 DEF ListInv, TypeOK, Leave
  <2> QED
    BY <2>1, <2>2, <2>3, <2>4
<1>2. /\ \A o, q : Waiters(o, q)' \subseteq Waiters(o, q)
      /\ \A o \in {"send", "recv"} : \A q : Retrying(o, q) \ {current} \subseteq Retrying(o, q)'
      /\ \A o \in {"send", "recv"} : \A q :
           ~InCall(current, o, q) => Retrying(o, q) \subseteq Retrying(o, q)'
  BY <1>1, ItemTasks
<1>3. Waiters("recv", r) # {} =>
        \E t \in Tasks : t \notin Retrying("recv", r) /\ t \in Retrying("recv", r)'
  <2>1. ~InCall(current, "recv", r)
    BY <1>1 DEF InCall
  <2>2. /\ Woken("recv", r) /\ Runs("top") /\ Leave /\ current' = current
    BY <1>1
  <2> QED
    BY <2>1, <2>2, ItemTasks
<1>4. NoLostWakeup'
  <2> SUFFICES ASSUME NEW q \in Objects PROVE ItemsCovered(q)' /\ RoomCovered(q)'
    BY WakePartsNext
  <2>1. /\ count[q] \in Nat /\ Size(q) \in Nat /\ Posts(q) \in Nat /\ Posts(q)' = Posts(q)
        /\ count'[q] = IF q = r THEN count[q] + 1 ELSE count[q]
    BY <1>1, SizeNat, PostsNat DEF ListInv, TypeOK, Posts
  <2>2. ItemsCovered(q) /\ RoomCovered(q)
    BY WakeParts DEF WakeInv
  <2>3. RoomCovered(q)'
    <3>1. CASE q = r
      <4>1. /\ Cardinality(Retrying("send", q)) \in Nat /\ Cardinality(Retrying("send", q)') \in Nat
            /\ Cardinality(Retrying("send", q)) <= Cardinality(Retrying("send", q)') + 1
        BY <1>1, <1>2, TaskSets, CardOneLess
      <4> QED
        BY <1>2, <2>1, <2>2, <3>1, <4>1 DEF RoomCovered, Size
    <3>2. CASE q # r
      <4>1. Retrying("send", q) \subseteq Retrying("send", q)'
        BY <1>1, <1>2, <3>2 DEF InCall
      <4>2. /\ Cardinality(Retrying("send", q)) \in Nat /\ Cardinality(Retrying("send", q)') \in Nat
            /\ Cardinality(Retrying("send", q)) <= Cardinality(Retrying("send", q)')
        BY <4>1, TaskSets, CardMore
      <4> QED
        BY <1>2, <2>1, <2>2, <3>2, <4>2 DEF RoomCovered, Size
    <3> QED
      BY <3>1, <3>2
  <2>4. ItemsCovered(q)'
    <3>1. Retrying("recv", q) \subseteq Retrying("recv", q)'
      BY <1>1, <1>2 DEF InCall
    <3>2. CASE q = r /\ Waiters("recv", q) # {}
      <4>1. PICK t \in Tasks : t \notin Retrying("recv", q) /\ t \in Retrying("recv", q)'
        BY <1>3, <3>2
      <4>2. Retrying("recv", q) \cup {t} \subseteq Retrying("recv", q)'
        BY <3>1, <4>1
      <4>3. /\ Cardinality(Retrying("recv", q)) \in Nat /\ Cardinality(Retrying("recv", q)') \in Nat
            /\ Cardinality(Retrying("recv", q)) + 1 <= Cardinality(Retrying("recv", q)')
        BY <4>1, <4>2, TaskSets, CardOneMore
      <4> QED
        BY <2>1, <2>2, <3>2, <4>3 DEF ItemsCovered
    <3>3. CASE Waiters("recv", q) = {}
      BY <1>2, <3>3 DEF ItemsCovered
    <3>4. CASE q # r
      <4>1. /\ Cardinality(Retrying("recv", q)) \in Nat /\ Cardinality(Retrying("recv", q)') \in Nat
            /\ Cardinality(Retrying("recv", q)) <= Cardinality(Retrying("recv", q)')
        BY <3>1, TaskSets, CardMore
      <4> QED
        BY <1>2, <2>1, <2>2, <3>4, <4>1 DEF ItemsCovered
    <3> QED
      BY <3>2, <3>3, <3>4
  <2> QED
    BY <2>3, <2>4
<1> QED
  BY <1>1, <1>4, NotThere DEF WakeInv

\* An interrupt posts: to a locked queue it adds an item and a post, otherwise
\* an item and a task that will look again.
LEMMA SendISRWake ==
    ASSUME ListInv, ListInv', WakeInv, NEW r \in IsrQueues, SendFromISR(r) PROVE WakeInv'
<1>1. /\ r \in Objects /\ count' = [count EXCEPT ![r] = @ + 1] /\ count[r] < Size(r)
      /\ UNCHANGED <<callVars, current>>
  BY QueueAssumption DEF SendFromISR, Objects
<1>2. Woken("recv", r) \/ UNCHANGED listVars
  BY DEF SendFromISR, Woken
<1>3. \A t \in Tasks : \/ evt'[t] = evt[t] /\ place'[t] = place[t]
                       \/ evt[t] = "wait" /\ evt'[t] # "wait"
  BY <1>2, WokenLemma DEF listVars
<1>4. /\ \A o, q : Waiters(o, q)' \subseteq Waiters(o, q)
      /\ \A o, q : Retrying(o, q) \subseteq Retrying(o, q)'
  BY <1>1, <1>3 DEF Waiters, Retrying, InCall, callVars
<1>5. CASE txLock[r] # Unlocked
  <2>1. txLock' = [txLock EXCEPT ![r] = @ + 1] /\ txLock[r] \in Nat
    BY <1>1, <1>5 DEF SendFromISR, ListInv, TypeOK
  <2>2. \A q \in Objects : /\ count[q] \in Nat /\ Size(q) \in Nat /\ Posts(q) \in Nat
                           /\ Posts(q)' = IF q = r THEN Posts(q) + 1 ELSE Posts(q)
                           /\ count'[q] = IF q = r THEN count[q] + 1 ELSE count[q]
    BY <1>1, <1>5, <2>1, SizeNat, PostsNat DEF ListInv, TypeOK, Posts, Unlocked
  <2>3. NoLostWakeup'
    <3> SUFFICES ASSUME NEW q \in Objects PROVE ItemsCovered(q)' /\ RoomCovered(q)'
      BY WakePartsNext
    <3>1. ItemsCovered(q) /\ RoomCovered(q)
      BY WakeParts DEF WakeInv
    <3>2. /\ Cardinality(Retrying("recv", q)) \in Nat /\ Cardinality(Retrying("recv", q)') \in Nat
          /\ Cardinality(Retrying("recv", q)) <= Cardinality(Retrying("recv", q)')
          /\ Cardinality(Retrying("send", q)) \in Nat /\ Cardinality(Retrying("send", q)') \in Nat
          /\ Cardinality(Retrying("send", q)) <= Cardinality(Retrying("send", q)')
      BY <1>4, TaskSets, CardMore
    <3>3. ItemsCovered(q)'
      BY <1>4, <2>2, <3>1, <3>2 DEF ItemsCovered
    <3>4. RoomCovered(q)'
      BY <1>4, <2>2, <3>1, <3>2 DEF RoomCovered, Size
    <3> QED
      BY <3>3, <3>4
  <2>4. Certain'
    <3> SUFFICES ASSUME pc[current] \in {"inherit", "place"}, call[current].op \in {"send", "recv"}
                 PROVE  /\ call[current].op = "recv"
                             => count'[call[current].q] <= Posts(call[current].q)'
                        /\ call[current].op = "send"
                             => count'[call[current].q] = Size(call[current].q)
      BY <1>1 DEF Certain, callVars, Size
    <3>1. PICK q \in Objects : q = call[current].q
      BY CallsLemma DEF ListInv, TypeOK
    <3>2. /\ call[current].op = "recv" => count[q] <= Posts(q)
          /\ call[current].op = "send" => count[q] = Size(q)
      BY <3>1 DEF WakeInv, Certain
    <3>3. call[current].op = "recv" => count'[q] <= Posts(q)'
      BY <2>2, <3>1, <3>2
    <3>4. call[current].op = "send" => count'[q] = Size(q)
      BY <1>1, <2>2, <3>1, <3>2
    <3>5. Posts(call[current].q)' = Posts(q)'
      BY <1>1, <3>1 DEF Posts, callVars
    <3> QED
      BY <3>1, <3>3, <3>4, <3>5
  <2> QED
    BY <2>3, <2>4 DEF WakeInv
<1>6. CASE txLock[r] = Unlocked
  <2>1. txLock' = txLock /\ Woken("recv", r)
    BY <1>6 DEF SendFromISR, Woken
  <2>2. \A q \in Objects : /\ count[q] \in Nat /\ Size(q) \in Nat /\ Posts(q) \in Nat
                           /\ Posts(q)' = Posts(q)
                           /\ count'[q] = IF q = r THEN count[q] + 1 ELSE count[q]
    BY <1>1, <2>1, SizeNat, PostsNat DEF ListInv, TypeOK, Posts
  <2>3. Waiters("recv", r) # {} =>
          \E t \in Tasks : t \notin Retrying("recv", r) /\ t \in Retrying("recv", r)'
    <3> SUFFICES ASSUME Waiters("recv", r) # {}
                 PROVE  \E t \in Tasks : t \notin Retrying("recv", r) /\ t \in Retrying("recv", r)'
      OBVIOUS
    <3>1. PICK t \in Waiters("recv", r) : evt'[t] # "wait" /\ (suspended => place'[t] # "ready")
      BY <2>1, WokenTask
    <3>2. t \in Tasks /\ evt[t] = "wait" /\ InCall(t, "recv", r)
      BY DEF Waiters
    <3>3. pc[t] \in {"top", "yield"} \/ (pc[t] \in {"unlock", "resumeAll"} /\ suspended)
      BY <3>2 DEF ListInv, Control, Held
    <3> QED
      BY <1>1, <3>1, <3>2, <3>3 DEF Retrying, InCall, callVars
  <2>4. NoLostWakeup'
    <3> SUFFICES ASSUME NEW q \in Objects PROVE ItemsCovered(q)' /\ RoomCovered(q)'
      BY WakePartsNext
    <3>1. ItemsCovered(q) /\ RoomCovered(q)
      BY WakeParts DEF WakeInv
    <3>2. /\ Cardinality(Retrying("recv", q)) \in Nat /\ Cardinality(Retrying("recv", q)') \in Nat
          /\ Cardinality(Retrying("recv", q)) <= Cardinality(Retrying("recv", q)')
          /\ Cardinality(Retrying("send", q)) \in Nat /\ Cardinality(Retrying("send", q)') \in Nat
          /\ Cardinality(Retrying("send", q)) <= Cardinality(Retrying("send", q)')
      BY <1>4, TaskSets, CardMore
    <3>3. RoomCovered(q)'
      BY <1>4, <2>2, <3>1, <3>2 DEF RoomCovered, Size
    <3>4. CASE q = r /\ Waiters("recv", q) # {}
      <4>1. PICK t \in Tasks : t \notin Retrying("recv", q) /\ t \in Retrying("recv", q)'
        BY <2>3, <3>4
      <4>2. Retrying("recv", q) \cup {t} \subseteq Retrying("recv", q)'
        BY <1>4, <4>1
      <4>3. Cardinality(Retrying("recv", q)) + 1 <= Cardinality(Retrying("recv", q)')
        BY <4>1, <4>2, TaskSets, CardOneMore
      <4> QED
        BY <2>2, <3>1, <3>2, <3>3, <3>4, <4>3 DEF ItemsCovered
    <3>5. CASE Waiters("recv", q) = {}
      BY <1>4, <3>3, <3>5 DEF ItemsCovered
    <3>6. CASE q # r
      BY <1>4, <2>2, <3>1, <3>2, <3>3, <3>6 DEF ItemsCovered
    <3> QED
      BY <3>4, <3>5, <3>6
  <2>5. Certain'
    <3> SUFFICES ASSUME pc[current] \in {"inherit", "place"}, call[current].op \in {"send", "recv"}
                 PROVE  /\ call[current].op = "recv"
                             => count'[call[current].q] <= Posts(call[current].q)'
                        /\ call[current].op = "send"
                             => count'[call[current].q] = Size(call[current].q)
      BY <1>1 DEF Certain, callVars, Size
    <3>1. PICK q \in Objects : q = call[current].q
      BY CallsLemma DEF ListInv, TypeOK
    <3>2. q # r
      BY <1>6, <3>1 DEF ListInv, TypeOK, Locks, Locking
    <3>3. /\ call[current].op = "recv" => count[q] <= Posts(q)
          /\ call[current].op = "send" => count[q] = Size(q)
      BY <3>1 DEF WakeInv, Certain
    <3>4. Posts(call[current].q)' = Posts(q)'
      BY <1>1, <3>1 DEF Posts, callVars
    <3> QED
      BY <2>2, <3>1, <3>2, <3>3, <3>4
  <2> QED
    BY <2>4, <2>5 DEF WakeInv
<1> QED
  BY <1>5, <1>6

-------------------------------------------------------------------------------
KernelInv == ListInv /\ WakeInv

LEMMA WakeInit == Init => KernelInv
<1> SUFFICES ASSUME Init PROVE WakeInv
  BY ListInit DEF KernelInv
<1>1. NoLostWakeup
  BY DEF Init, NoLostWakeup, Waiters
<1>2. Certain
  BY ListInit DEF Init, Certain, ListInv, TypeOK
<1> QED
  BY <1>1, <1>2 DEF WakeInv

LEMMA CallWake == ASSUME ListInv, ListInv', WakeInv, CallStep PROVE WakeInv'
<1>1. ASSUME NEW x \in Calls, NEW l \in {"top", "suspendAll", "leave"}, Enter(x, l) PROVE WakeInv'
  BY <1>1, EnterWake
<1>2. ASSUME NEW q \in Objects, NEW wait \in {"zero", "timed", "forever"},
             Receive(q, wait) \/ Send(q, wait)
      PROVE  WakeInv'
  BY <1>1, <1>2, MakeCalls DEF Receive, Send
<1>3. ASSUME NEW m \in Mutexes, GiveMutex(m) PROVE WakeInv'
  BY <1>1, <1>3, MakeCalls DEF GiveMutex, Objects
<1>4. CASE Delay \/ Suspend
  BY <1>1, <1>4, MakeCalls DEF Delay, Suspend
<1>5. ASSUME NEW t \in Sleepers, Resume(t) PROVE WakeInv'
  BY <1>5, ResumeWake, SleeperAssumption
<1> QED
  BY <1>2, <1>3, <1>4, <1>5 DEF CallStep

LEMMA WakeStep == KernelInv /\ [Next]_vars => KernelInv'
<1> SUFFICES ASSUME ListInv, WakeInv, [Next]_vars PROVE KernelInv'
  BY DEF KernelInv
<1>1. ListInv'
  BY ListStep
<1>2. CASE CallStep
  BY <1>1, <1>2, CallWake DEF KernelInv
<1>3. CASE KernelStep
  <2>1. CASE SuspendAll \/ LockQueue \/ CheckForTimeOut \/ TestAgain \/ InheritPriority
             \/ Yield \/ LeaveReadyList
    BY <1>1, <2>1, WayWake DEF KernelInv
  <2> QED
    BY <1>1, <1>3, <2>1, TakeWake, PutWake, FindNothingWake, PlaceWake, UnlockWake, ResumeAllWake
       DEF KernelStep, KernelInv
<1>4. CASE SwitchContext
  BY <1>1, <1>4, InterruptWake DEF KernelInv
<1>5. CASE Interrupt
  <2>1. ASSUME NEW q \in IsrQueues, SendFromISR(q) PROVE WakeInv'
    BY <1>1, <2>1, SendISRWake
  <2> QED
    BY <1>1, <1>5, <2>1, InterruptWake, SleeperAssumption DEF Interrupt, KernelInv
<1>6. CASE UNCHANGED vars
  <2>1. NoLostWakeup'
    BY <1>6 DEF WakeInv, NoLostWakeup, Waiters, Retrying, InCall, Size, vars, listVars, queueVars,
                callVars
  <2>2. Certain'
    BY <1>6 DEF WakeInv, Certain, Posts, Size, vars, schedVars, queueVars, callVars
  <2> QED
    BY <1>1, <2>1, <2>2 DEF KernelInv, WakeInv
<1> QED
  BY <1>2, <1>3, <1>4, <1>5, <1>6 DEF Next

\* No wake-up is lost: whatever interrupts post between the test of a queue in
\* xQueueGenericReceive or xQueueGenericSend and the place in its list, the
\* items of a queue in which tasks wait are covered by tasks that look again
\* and by posts that prvUnlockQueue still has to make good.
THEOREM WakeupTheorem == Spec => []NoLostWakeup
<1>1. KernelInv => NoLostWakeup
  BY DEF KernelInv, WakeInv
<1> QED
  BY <1>1, WakeInit, WakeStep, PTL DEF Spec

-------------------------------------------------------------------------------
(***************************************************************************)
(* Priorities: the highest ready task runs, and a mutex holder runs at     *)
(* least at the priority of everyone who waits for it, when nobody waits   *)
(* for a mutex with a time-out.  The two need each other: the mutex is     *)
(* free for a moment between being given back and being taken, and         *)
(* whoever takes it then must not be outranked by those who still wait.    *)
(***************************************************************************)

\* Nobody waits for a mutex with a time-out, a queue's list holds a delayed task
\* only for its time-out, and no interrupt gives a mutex back.
Waits ==
    /\ \A t \in Tasks : call[t].op = "recv" /\ call[t].q \in Mutexes => call[t].wait # "timed"
    /\ \A t \in Tasks : evt[t] = "wait" /\ place[t] = "delayed" => call[t].wait = "timed"
    /\ \A m \in Mutexes : txLock[m] \in {Unlocked, 0}

\* The priority of a mutex holder is what a receiver raises.
Borrows == pc[current] = "inherit" => call[current].op = "recv" /\ call[current].q \in Mutexes

\* A task an alarm has resumed is in no call of a queue, and the running task is
\* such a task only when a switch is near.
Alarms ==
    /\ \A t \in late : call[t].op \notin {"send", "recv"}
    /\ current \in late => ~suspended /\ (pendSV \/ pc[current] = "yield")

\* A ready task outranks the running one only when a switch is pending.
Due == pendSV \/ (suspended /\ yieldPending)
Highest == Due \/ \A t \in Ready \ late : prio[t] <= prio[current]

\* The running task about to enter the list of a mutex.
Coming(m) == IF pc[current] = "place" /\ InCall(current, "recv", m) THEN {current} ELSE {}
Wanting(m) == Waiters("recv", m) \cup Coming(m)

\* A task that holds no mutex has its own priority; one that has another holds a
\* mutex that a task of that priority wants; and nobody who wants a mutex has a
\* higher priority than its holder.
Own == \A t \in Tasks : held[t] = 0 => prio[t] = Base[t]
Lent ==
    \A t \in Tasks : prio[t] # Base[t] =>
        \E m \in Mutexes : holder[m] = t /\ \E u \in Wanting(m) : prio[u] >= prio[t]
Pays ==
    \A m \in Mutexes : holder[m] # None => \A t \in Wanting(m) : prio[t] <= prio[holder[m]]

\* A free mutex that tasks wait for is about to be taken by one that they do not
\* outrank.
Taker(m, t) ==
    t \in Retrying("recv", m) /\ place[t] = "ready" /\ \A u \in Waiters("recv", m) : prio[u] <= prio[t]
Free ==
    \A m \in Mutexes : holder[m] = None /\ Waiters("recv", m) # {} => \E t \in Tasks : Taker(m, t)

Debts == Own /\ Lent /\ Pays /\ Free
PriorityInv == Waits /\ Borrows /\ Alarms /\ Highest /\ Debts

-------------------------------------------------------------------------------
(* Steps that leave the priorities and the mutexes alone. *)

LEMMA Nums == ListInv => \A t \in Tasks : prio[t] \in Nat /\ Base[t] \in Nat
BY BaseAssumption DEF ListInv, TypeOK

\* A call that goes on or ends, and lists that nobody enters.
LEMMA WaitsKept ==
    ASSUME Waits,
           \A t \in Tasks : call'[t] = call[t] \/ (call'[t].op = "none" /\ evt'[t] # "wait"),
           \A t \in Tasks : evt'[t] = "wait" => evt[t] = "wait" /\ place'[t] = place[t],
           \A m \in Mutexes : txLock'[m] \in {Unlocked, 0}
    PROVE  Waits'
BY DEF Waits

\* The running task goes on, and who becomes ready is outranked or a switch is due.
LEMMA HighestKept ==
    ASSUME Highest, prio' = prio, current' = current, Due => Due',
           \A t \in Ready' \ late' : Due' \/ t \in Ready \ late \/ prio[t] <= prio[current]
    PROVE  Highest'
BY DEF Highest

\* Mutexes and those who want them stay as they are, and so does who will take a
\* free one.
LEMMA DebtsKept ==
    ASSUME Debts, UNCHANGED <<prioVars, holder>>,
           \A m \in Mutexes : Waiters("recv", m)' = Waiters("recv", m),
           \A m \in Mutexes : Coming(m)' = Coming(m),
           \A m \in Mutexes, t \in Tasks :
             holder[m] = None /\ t \in Retrying("recv", m) /\ place[t] = "ready" =>
               t \in Retrying("recv", m)' /\ place'[t] = "ready"
    PROVE  Debts'
<1>1. UNCHANGED <<prio, held, holder>>
  BY DEF prioVars
<1>2. \A m \in Mutexes : Wanting(m)' = Wanting(m)
  BY DEF Wanting
<1>3. Own'
  BY <1>1 DEF Debts, Own
<1>4. Lent'
  BY <1>1, <1>2 DEF Debts, Lent
<1>5. Pays'
  BY <1>1, <1>2 DEF Debts, Pays
<1>6. Free'
  <2> SUFFICES ASSUME NEW m \in Mutexes, holder[m] = None, Waiters("recv", m) # {}
               PROVE  \E t \in Tasks : Taker(m, t)'
    BY <1>1 DEF Free
  <2>1. PICK t \in Tasks : Taker(m, t)
    BY DEF Debts, Free
  <2>2. Taker(m, t)'
    BY <1>1, <2>1 DEF Taker
  <2> QED
    BY <2>2
<1> QED
  BY <1>3, <1>4, <1>5, <1>6 DEF Debts

\* A call begins.
LEMMA EnterPriority ==
    ASSUME ListInv, PriorityInv, NEW x \in Calls, NEW l \in {"top", "suspendAll", "leave"}, Enter(x, l),
           x.op = "recv" /\ x.q \in Mutexes => x.wait # "timed"
    PROVE  PriorityInv'
<1>1. /\ pc[current] = "user" /\ ~pendSV /\ current \in Tasks /\ ~suspended
      /\ call[current].op = "none" /\ evt[current] # "wait" /\ current \notin late
  BY DEF ListInv, TypeOK, Control, CallAt, Held, ListsAgree, PriorityInv, Alarms, Enter, Runs
<1>2. /\ UNCHANGED <<schedVars, listVars, prioVars, queueVars, late>>
      /\ call' = [call EXCEPT ![current] = x] /\ pc' = [pc EXCEPT ![current] = l]
  BY DEF Enter, Goto
<1>3. /\ UNCHANGED <<current, suspended, yieldPending, pendSV, place, evt, prio, held, holder, txLock>>
      /\ \A t \in Tasks : t # current => call'[t] = call[t] /\ pc'[t] = pc[t]
      /\ call'[current] = x /\ pc'[current] = l
  BY <1>1, <1>2 DEF schedVars, listVars, prioVars, queueVars, ListInv, TypeOK
<1>4. Waits'
  BY <1>1, <1>3 DEF PriorityInv, Waits
<1>5. Alarms'
  BY <1>1, <1>2, <1>3 DEF ListInv, TypeOK, PriorityInv, Alarms
<1>6. Highest'
  BY <1>2, <1>3, HighestKept DEF PriorityInv, Due, Ready
<1>7. Debts'
  <2>1. \A m \in Mutexes : Waiters("recv", m)' = Waiters("recv", m)
    BY <1>1, <1>3 DEF Waiters, InCall
  <2>2. \A m \in Mutexes : Coming(m)' = Coming(m)
    BY <1>1, <1>3 DEF Coming
  <2>3. \A m, t : t \in Retrying("recv", m) => t \in Retrying("recv", m)'
    BY <1>1, <1>3 DEF Retrying, InCall
  <2> QED
    BY <1>2, <1>3, <2>1, <2>2, <2>3, DebtsKept DEF PriorityInv
<1>8. Borrows'
  BY <1>3 DEF Borrows
<1> QED
  BY <1>4, <1>5, <1>6, <1>7, <1>8 DEF PriorityInv

\* vTaskResume.
LEMMA ResumePriority ==
    ASSUME ListInv, PriorityInv, NEW t \in Tasks, Resume(t) PROVE PriorityInv'
<1>1. /\ UNCHANGED <<current, suspended, yieldPending, evt, prioVars, queueVars, callVars, late>>
      /\ place' = [place EXCEPT ![t] = "ready"] /\ pendSV' = (prio[t] >= prio[current])
      /\ ~pendSV /\ pc[current] = "user" /\ evt[t] = "none" /\ current \in Tasks
  BY DEF Resume, Runs, ListInv, TypeOK
<1>2. UNCHANGED <<prio, held, holder, txLock, pc, call>>
  BY <1>1 DEF prioVars, queueVars, callVars
<1>3. Waits'
  BY <1>1, <1>2, WaitsKept DEF PriorityInv, ListInv, TypeOK, Waits
<1>4. Alarms'
  BY <1>1, <1>2 DEF PriorityInv, Alarms
<1>5. Highest'
  <2>1. \A u \in Ready' \ late' : Due' \/ u \in Ready \ late \/ prio[u] <= prio[current]
    <3>1. pendSV' \/ prio[t] <= prio[current]
      <4>1. CASE prio[t] >= prio[current]
        BY <1>1, <4>1, Zenon
      <4>2. CASE ~(prio[t] >= prio[current])
        BY <1>1, <4>2, Nums
      <4> QED
        BY <4>1, <4>2
    <3>2. \A u \in Ready' \ late' : u = t \/ u \in Ready \ late
      BY <1>1 DEF Ready, ListInv, TypeOK
    <3> QED
      BY <3>1, <3>2 DEF Due
  <2>2. Due => Due'
    BY <1>1 DEF Due, ListInv, Held, Control
  <2> QED
    BY <1>1, <1>2, <2>1, <2>2, HighestKept DEF PriorityInv
<1>6. Debts'
  <2>1. \A m : Waiters("recv", m)' = Waiters("recv", m) /\ Coming(m)' = Coming(m)
    BY <1>1, <1>2 DEF Waiters, Coming, InCall
  <2>2. \A m, u : u \in Retrying("recv", m) /\ place[u] = "ready" =>
                    u \in Retrying("recv", m)' /\ place'[u] = "ready"
    BY <1>1, <1>2 DEF Retrying, InCall, ListInv, TypeOK
  <2> QED
    BY <1>1, <1>2, <2>1, <2>2, DebtsKept DEF PriorityInv
<1>7. Borrows'
  BY <1>1, <1>2 DEF PriorityInv, Borrows
<1> QED
  BY <1>3, <1>4, <1>5, <1>6, <1>7 DEF PriorityInv

\* Steps of a call that change neither lists nor priorities: the call gives up,
\* suspends the scheduler, locks its queue, and tests time and queue again.
LEMMA WayPriority ==
    ASSUME ListInv, PriorityInv,
           FindNothing \/ SuspendAll \/ LockQueue \/ CheckForTimeOut \/ TestAgain
    PROVE  PriorityInv'
<1>1. /\ ~pendSV /\ current \in Tasks /\ pc[current] \in {"top", "suspendAll", "lock", "check", "test"}
      /\ UNCHANGED <<current, yieldPending, pendSV, listVars, prioVars, count, holder, late>>
      /\ suspended => suspended'
  <2>1. UNCHANGED <<current, yieldPending, pendSV, listVars, prioVars, count, holder, late>>
    BY DEF FindNothing, SuspendAll, LockQueue, CheckForTimeOut, TestAgain, schedVars, queueVars
  <2>2. suspended => suspended'
    BY DEF FindNothing, SuspendAll, LockQueue, CheckForTimeOut, TestAgain, schedVars
  <2> QED
    BY <2>1, <2>2 DEF FindNothing, SuspendAll, LockQueue, CheckForTimeOut, TestAgain, Runs, ListInv, TypeOK
<1>2. /\ \A t \in Tasks : t # current => call'[t] = call[t] /\ pc'[t] = pc[t]
      /\ call'[current] = call[current] \/ call'[current] = NoCall
  BY <1>1 DEF FindNothing, SuspendAll, LockQueue, CheckForTimeOut, TestAgain, Leave, Goto,
              ListInv, TypeOK
<1>3. /\ UNCHANGED <<place, evt, prio, held, holder>> /\ current \notin late
      /\ evt[current] # "wait"
  BY <1>1 DEF listVars, prioVars, PriorityInv, Alarms, ListInv, Control, ListsAgree
<1>4. Waits'
  <2>1. \A m \in Mutexes : txLock'[m] \in {Unlocked, 0}
    BY <1>1, CallsLemma DEF PriorityInv, Waits, FindNothing, SuspendAll, LockQueue, CheckForTimeOut, TestAgain, queueVars,
              ListInv, TypeOK, Objects
  <2> QED
    BY <1>2, <1>3, <2>1, WaitsKept, MakeCalls DEF PriorityInv
<1>5. Alarms'
  <2>1. \A t \in late : t \in Tasks /\ t # current
    BY <1>3 DEF ListInv, TypeOK
  <2> QED
    BY <1>1, <1>2, <2>1 DEF PriorityInv, Alarms
<1>6. Highest'
  <2>1. Due => Due'
    BY <1>1 DEF Due
  <2>2. Ready' \ late' = Ready \ late
    BY <1>1, <1>3 DEF Ready
  <2> QED
    BY <1>1, <1>3, <2>1, <2>2, HighestKept DEF PriorityInv
<1>7. Debts'
  <2>1. \A m \in Mutexes : Waiters("recv", m)' = Waiters("recv", m)
    BY <1>2, <1>3 DEF Waiters, InCall
  <2>2. \A m \in Mutexes : Coming(m)' = Coming(m)
    <3>1. \A m \in Mutexes : Coming(m) = {}
      BY <1>1 DEF Coming
    <3>2. pc'[current] = "place" => call[current].op # "recv" \/ call[current].q \notin Mutexes
      BY <1>1 DEF FindNothing, SuspendAll, LockQueue, CheckForTimeOut, TestAgain, Leave, Goto, Here,
                  ListInv, TypeOK
    <3> QED
      BY <1>1, <1>2, <3>1, <3>2, MakeCalls DEF Coming, InCall
  <2>3. \A m \in Mutexes, t \in Tasks : holder[m] = None /\ t \in Retrying("recv", m) =>
                                            t \in Retrying("recv", m)'
    <3> SUFFICES ASSUME NEW m \in Mutexes, NEW t \in Tasks, holder[m] = None, t \in Retrying("recv", m)
                 PROVE  t \in Retrying("recv", m)'
      OBVIOUS
    <3>1. CASE t # current
      BY <1>2, <1>3, <3>1 DEF Retrying, InCall
    <3>2. CASE t = current
      <4>1. count[m] = 1 /\ call[current].op = "recv" /\ call[current].q = m /\ pc[current] = "top"
        BY <1>1, <3>2 DEF Retrying, InCall, ListInv, Owns
      <4>2. FALSE
        BY <4>1 DEF FindNothing, SuspendAll, LockQueue, CheckForTimeOut, TestAgain, Runs, Blocks, Here
      <4> QED
        BY <4>2
    <3> QED
      BY <3>1, <3>2
  <2> QED
    BY <1>1, <1>3, <2>1, <2>2, <2>3, DebtsKept DEF PriorityInv
<1>8. Borrows'
  BY <1>1 DEF Borrows, FindNothing, SuspendAll, LockQueue, CheckForTimeOut, TestAgain, Leave, Goto, Here,
              ListInv, TypeOK
<1> QED
  BY <1>4, <1>5, <1>6, <1>7, <1>8 DEF PriorityInv

\* The task gives the processor away, or has left the ready list to suspend itself.
LEMMA YieldPriority == ASSUME ListInv, PriorityInv, Yield \/ LeaveReadyList PROVE PriorityInv'
<1>1. /\ ~pendSV /\ current \in Tasks /\ pc[current] \in {"yield", "leave"} /\ ~suspended
      /\ UNCHANGED <<current, suspended, yieldPending, evt, prioVars, queueVars, late>>
  <2>1. UNCHANGED <<current, suspended, yieldPending, evt, prioVars, queueVars, late>>
    BY DEF Yield, LeaveReadyList, schedVars, listVars
  <2>2. ~pendSV /\ current \in Tasks /\ pc[current] \in {"yield", "leave"}
    BY DEF Yield, LeaveReadyList, Runs, ListInv, TypeOK
  <2>3. ~suspended
    BY <2>2 DEF ListInv, Control, Held
  <2> QED
    BY <2>1, <2>2, <2>3
<1>2. /\ \A t \in Tasks : t # current => call'[t] = call[t] /\ pc'[t] = pc[t] /\ place'[t] = place[t]
      /\ \A t \in Tasks : place'[t] = place[t] \/ (place'[t] # "ready" /\ t = current /\ pc[t] = "leave")
      /\ \/ call'[current] = call[current] /\ pc'[current] \in {"top", "yield"}
         \/ call'[current] = NoCall /\ call[current].op \in {"delay", "suspend"}
  BY <1>1 DEF Yield, LeaveReadyList, Runs, Leave, Goto, Here, listVars, ListInv, TypeOK
<1>3. /\ UNCHANGED <<prio, held, holder, txLock>>
      /\ pc[current] = "leave" => evt[current] # "wait" /\ call[current].op = "suspend"
      /\ call'[current] = NoCall => evt[current] # "wait"
      /\ pendSV' \/ pc'[current] = "yield"
  <2>1. UNCHANGED <<prio, held, holder, txLock>>
    BY <1>1 DEF prioVars, queueVars
  <2>2. pc[current] = "leave" => evt[current] # "wait" /\ call[current].op = "suspend"
    BY <1>1 DEF ListInv, Control, CallAt
  <2>3. call'[current] = NoCall => evt[current] # "wait"
    BY <1>1, <1>2, MakeCalls DEF ListInv, Control
  <2>4. pendSV' \/ pc'[current] = "yield"
    BY <1>1 DEF Yield, LeaveReadyList, Goto, ListInv, TypeOK
  <2> QED
    BY <2>1, <2>2, <2>3, <2>4
<1>4. Waits'
  <2>1. \A t \in Tasks : call'[t] = call[t] \/ (call'[t].op = "none" /\ evt'[t] # "wait")
    BY <1>1, <1>2, <1>3, MakeCalls
  <2>2. \A t \in Tasks : evt'[t] = "wait" => evt[t] = "wait" /\ place'[t] = place[t]
    BY <1>1, <1>2, <1>3
  <2> QED
    BY <1>3, <2>1, <2>2, WaitsKept DEF PriorityInv, Waits
<1>5. Alarms'
  BY <1>1, <1>2, <1>3, MakeCalls DEF PriorityInv, Alarms, ListInv, TypeOK
<1>6. Highest'
  <2>1. Due => Due'
    BY <1>1 DEF Due
  <2>2. Ready' \subseteq Ready /\ late' = late
    BY <1>1, <1>2 DEF Ready
  <2> QED
    BY <1>1, <1>3, <2>1, <2>2, HighestKept DEF PriorityInv
<1>7. Debts'
  <2>1. \A m \in Mutexes : Waiters("recv", m)' = Waiters("recv", m)
    BY <1>1, <1>2, <1>3, MakeCalls DEF Waiters, InCall
  <2>2. pc'[current] # "place"
    BY <1>1 DEF Yield, LeaveReadyList, Leave, Goto, ListInv, TypeOK
  <2>3. \A m \in Mutexes : Coming(m)' = Coming(m)
    BY <1>1, <2>2 DEF Coming
  <2>4. \A m \in Mutexes, t \in Tasks : t \in Retrying("recv", m) /\ place[t] = "ready" =>
          t \in Retrying("recv", m)' /\ place'[t] = "ready"
    <3> SUFFICES ASSUME NEW m \in Mutexes, NEW t \in Tasks, t \in Retrying("recv", m), place[t] = "ready"
                 PROVE  t \in Retrying("recv", m)' /\ place'[t] = "ready"
      OBVIOUS
    <3>1. CASE t # current
      BY <1>1, <1>2, <3>1 DEF Retrying, InCall
    <3>2. CASE t = current
      <4>1. call[current].op = "recv" /\ pc[current] = "yield"
        BY <1>1, <1>3, <3>2 DEF Retrying, InCall
      <4>2. place'[current] = place[current] /\ call'[current] = call[current]
            /\ pc'[current] \in {"top", "yield"}
        BY <1>1, <1>2, <4>1
      <4> QED
        BY <1>1, <3>2, <4>1, <4>2 DEF Retrying, InCall
    <3> QED
      BY <3>1, <3>2
  <2> QED
    BY <1>1, <1>3, <2>1, <2>3, <2>4, DebtsKept DEF PriorityInv
<1>8. Borrows'
  BY <1>1 DEF Borrows, Yield, LeaveReadyList, Leave, Goto, ListInv, TypeOK
<1> QED
  BY <1>4, <1>5, <1>6, <1>7, <1>8 DEF PriorityInv

-------------------------------------------------------------------------------
(* Into the list of a mutex. *)

\* A task that wants a mutex on its way into the list wants one that is held, by
\* another task.
LEMMA HeldByAnother ==
    ASSUME KernelInv, PriorityInv, NEW m \in Mutexes, InCall(current, "recv", m),
           pc[current] \in {"inherit", "place"}
    PROVE  holder[m] \in Tasks /\ holder[m] # current
<1>1. current \in Tasks /\ m \in Objects /\ count[m] \in Nat /\ Posts(m) \in Nat
  BY PostsNat DEF KernelInv, ListInv, TypeOK, Objects
<1>2. count[m] <= Posts(m)
  BY DEF KernelInv, WakeInv, Certain, InCall
<1>3. Posts(m) = 0
  BY DEF PriorityInv, Waits, Posts
<1>4. count[m] = 0
  BY <1>1, <1>2, <1>3
<1>5. holder[m] \in Tasks
  BY <1>4 DEF KernelInv, ListInv, TypeOK, Owns
<1>6. held[current] = 0
  BY <1>1 DEF KernelInv, ListInv, Owns, InCall
<1> QED
  BY <1>1, <1>5, <1>6 DEF KernelInv, ListInv, Owns

\* Who waits for a mutex holds none.
LEMMA WaitersHoldNone ==
    ASSUME ListInv, NEW m, NEW t \in Wanting(m)
    PROVE  t \in Tasks /\ held[t] = 0 /\ \A n \in Mutexes : holder[n] # t
BY DEF Wanting, Waiters, Coming, InCall, ListInv, TypeOK, Owns

\* vTaskPriorityInherit.
LEMMA InheritStep ==
    ASSUME KernelInv, PriorityInv, InheritPriority PROVE PriorityInv'
<1>0. ListInv
  BY DEF KernelInv
<1>q. PICK q \in Mutexes : q = call[current].q
  BY DEF InheritPriority, Runs, PriorityInv, Borrows
<1>1. /\ pc[current] = "inherit" /\ current \in Tasks /\ q \in Mutexes /\ InCall(current, "recv", q)
      /\ ~pendSV /\ suspended /\ current \notin late
  BY <1>0, <1>q DEF InheritPriority, Runs, PriorityInv, Borrows, Alarms, InCall, ListInv, TypeOK, Control, Held
<1>2. PICK h \in Tasks : h = holder[q] /\ h # current /\ held[h] = 1
  BY <1>0, <1>1, HeldByAnother DEF ListInv, Owns
<1>3. /\ UNCHANGED <<schedVars, listVars, held, queueVars, call, late>>
      /\ pc' = [pc EXCEPT ![current] = "place"]
      /\ \/ prio[h] < prio[current] /\ prio' = [prio EXCEPT ![h] = prio[current]]
         \/ ~(prio[h] < prio[current]) /\ prio' = prio
  BY <1>q, <1>2, TaskAssumption DEF InheritPriority, Goto, Inherit, Here
<1>4. /\ UNCHANGED <<current, suspended, pendSV, yieldPending, place, evt, holder, txLock>>
      /\ pc'[current] = "place" /\ \A t \in Tasks : t # current => pc'[t] = pc[t]
  BY <1>1, <1>3 DEF schedVars, listVars, queueVars, ListInv, KernelInv, TypeOK
<1>5. /\ \A t \in Tasks : prio[t] \in Nat /\ prio'[t] \in Nat /\ prio'[t] >= prio[t]
      /\ \A t \in Tasks : t # h => prio'[t] = prio[t]
      /\ prio'[h] >= prio[current] /\ prio'[current] = prio[current]
      /\ prio'[h] = prio[h] \/ prio'[h] = prio[current]
  BY <1>0, <1>1, <1>2, <1>3 DEF ListInv, TypeOK
<1>6. /\ \A m : Waiters("recv", m)' = Waiters("recv", m)
      /\ \A m : Coming(m) = {}
      /\ Coming(q)' = {current} /\ \A m : m # q => Coming(m)' = {}
  BY <1>1, <1>3, <1>4 DEF Waiters, Coming, InCall
<1>7. Waits' /\ Borrows' /\ Alarms'
  BY <1>1, <1>3, <1>4 DEF PriorityInv, Waits, Borrows, Alarms, ListInv, KernelInv, TypeOK
<1>8. Highest'
  <2>1. Due' <=> Due
    BY <1>4 DEF Due
  <2>2. \A t \in Ready \ late : Due \/ prio[t] <= prio[current]
    BY DEF PriorityInv, Highest
  <2>3. Ready' \ late' = Ready \ late
    BY <1>3, <1>4 DEF Ready
  <2>4. \A t \in Ready \ late : Due \/ prio'[t] <= prio'[current]
    BY <1>1, <1>5, <2>2 DEF Ready
  <2> QED
    BY <1>4, <2>1, <2>3, <2>4 DEF Highest
<1>9. Own'
  BY <1>2, <1>3, <1>5 DEF PriorityInv, Debts, Own
<1>10. Lent'
  <2> SUFFICES ASSUME NEW t \in Tasks, prio'[t] # Base[t]
               PROVE  \E m \in Mutexes : holder[m] = t /\ \E u \in Wanting(m)' : prio'[u] >= prio'[t]
    BY <1>4 DEF Lent
  <2>1. CASE prio'[t] = prio[t]
    <3>1. PICK m \in Mutexes : holder[m] = t /\ \E u \in Wanting(m) : prio[u] >= prio[t]
      BY <2>1 DEF PriorityInv, Debts, Lent
    <3>2. PICK u \in Wanting(m) : prio[u] >= prio[t]
      BY <3>1
    <3>3. u \in Wanting(m)'
      BY <1>6 DEF Wanting
    <3>4. u \in Tasks
      BY <1>0, WaitersHoldNone
    <3>5. prio'[u] >= prio'[t]
      BY <1>5, <2>1, <3>2, <3>4
    <3> QED
      BY <3>1, <3>3, <3>5
  <2>2. CASE prio'[t] # prio[t]
    <3>1. t = h /\ prio'[t] = prio[current]
      BY <1>5, <2>2
    <3>2. current \in Wanting(q)'
      BY <1>6 DEF Wanting
    <3>3. prio'[current] >= prio'[t]
      BY <1>1, <1>5, <3>1
    <3>4. \E u \in Wanting(q)' : prio'[u] >= prio'[t]
      BY <3>2, <3>3
    <3>5. q \in Mutexes /\ holder[q] = t
      BY <1>1, <1>2, <3>1
    <3> QED
      BY <3>4, <3>5
  <2> QED
    BY <2>1, <2>2
<1>11. Pays'
  <2> SUFFICES ASSUME NEW m \in Mutexes, holder[m] # None, NEW t \in Wanting(m)'
               PROVE  prio'[t] <= prio'[holder[m]]
    BY <1>4 DEF Pays
  <2>1. holder[m] \in Tasks
    BY <1>0 DEF ListInv, TypeOK
  <2>2. CASE t \in Waiters("recv", m)
    <3>1. t \in Tasks /\ t # h
      BY <1>0, <1>1, <1>2, <2>2, WaitersHoldNone DEF Wanting
    <3>2. prio[t] <= prio[holder[m]]
      BY <2>2 DEF PriorityInv, Debts, Pays, Wanting
    <3> QED
      BY <1>5, <2>1, <3>1, <3>2
  <2>3. CASE t \notin Waiters("recv", m)
    <3>1. m = q /\ t = current
      BY <1>6, <2>3 DEF Wanting
    <3> QED
      BY <1>1, <1>2, <1>5, <3>1
  <2> QED
    BY <2>2, <2>3
<1>12. Free'
  <2> SUFFICES ASSUME NEW m \in Mutexes, holder[m] = None, Waiters("recv", m) # {}
               PROVE  \E t \in Tasks : Taker(m, t)'
    BY <1>4, <1>6 DEF Free
  <2>1. PICK t \in Tasks : Taker(m, t)
    BY DEF PriorityInv, Debts, Free
  <2>2. t \in Retrying("recv", m)' /\ place'[t] = "ready"
    BY <1>1, <1>3, <1>4, <2>1 DEF Taker, Retrying, InCall
  <2>3. \A u \in Waiters("recv", m) : prio'[u] <= prio'[t]
    <3> TAKE u \in Waiters("recv", m)
    <3>1. u \in Tasks /\ u # h
      BY <1>0, <1>1, <1>2, WaitersHoldNone DEF Wanting
    <3> QED
      BY <1>5, <2>1, <3>1 DEF Taker
  <2>4. Taker(m, t)'
    BY <1>6, <2>2, <2>3 DEF Taker
  <2> QED
    BY <2>4
<1> QED
  BY <1>7, <1>8, <1>9, <1>10, <1>11, <1>12 DEF PriorityInv, Debts

\* vTaskPlaceOnEventList, or the body of vTaskDelay.
LEMMA PlacePriority ==
    ASSUME KernelInv, PriorityInv, PlaceOnEventList PROVE PriorityInv'
<1>0. ListInv
  BY DEF KernelInv
<1>1. /\ pc[current] = "place" /\ current \in Tasks /\ current \notin late
      /\ UNCHANGED <<schedVars, prioVars, queueVars, call, late>>
  BY <1>0 DEF PlaceOnEventList, Runs, PriorityInv, Alarms, ListInv, TypeOK, Control, Held
<1>2. /\ UNCHANGED <<current, suspended, pendSV, yieldPending, prio, held, holder, txLock>>
      /\ \A t \in Tasks : t # current => evt'[t] = evt[t] /\ place'[t] = place[t] /\ pc'[t] = pc[t]
      /\ place'[current] # "ready" /\ pc'[current] \in {"unlock", "resumeAll"}
      /\ evt[current] # "wait"
      /\ evt'[current] = IF call[current].op = "delay" THEN evt[current] ELSE "wait"
      /\ place'[current] = "delayed" => call[current].op = "delay" \/ call[current].wait = "timed"
  <2>1. UNCHANGED <<current, suspended, pendSV, yieldPending, prio, held, holder, txLock>>
    BY <1>1 DEF schedVars, prioVars, queueVars
  <2>2. evt[current] # "wait"
    BY <1>0, <1>1 DEF ListInv, Control
  <2> QED
    BY <1>0, <1>1, <2>1, <2>2 DEF PlaceOnEventList, Goto, Here, ListInv, TypeOK
<1>3. Waits'
  BY <1>1, <1>2 DEF PriorityInv, Waits
<1>4. Alarms' /\ Borrows'
  BY <1>1, <1>2 DEF PriorityInv, Alarms, Borrows
<1>5. Highest'
  <2>1. Ready' \subseteq Ready
    BY <1>2 DEF Ready
  <2>2. Due' <=> Due
    BY <1>2 DEF Due
  <2> QED
    BY <1>1, <1>2, <2>1, <2>2, HighestKept DEF PriorityInv
<1>6. \A m \in Mutexes : Wanting(m)' = Wanting(m)
  BY <1>0, <1>1, <1>2 DEF Wanting, Waiters, Coming, InCall
<1>7. Own' /\ Lent' /\ Pays'
  BY <1>2, <1>6 DEF PriorityInv, Debts, Own, Lent, Pays
<1>8. Free'
  <2> SUFFICES ASSUME NEW m \in Mutexes, holder[m] = None, Waiters("recv", m)' # {}
               PROVE  \E t \in Tasks : Taker(m, t)'
    BY <1>2 DEF Free
  <2>1. ~InCall(current, "recv", m)
    BY <1>1, HeldByAnother, TaskAssumption
  <2>2. Waiters("recv", m)' = Waiters("recv", m)
    BY <1>1, <1>2, <2>1 DEF Waiters, InCall
  <2>3. PICK t \in Tasks : Taker(m, t)
    BY <2>2 DEF PriorityInv, Debts, Free
  <2>4. Taker(m, t)'
    BY <1>1, <1>2, <2>1, <2>2, <2>3 DEF Taker, Retrying, InCall
  <2> QED
    BY <2>4
<1> QED
  BY <1>3, <1>4, <1>5, <1>7, <1>8 DEF PriorityInv, Debts

-------------------------------------------------------------------------------
(* Tasks become ready. *)

\* Timers expire and pending tasks become ready.
LEMMA ExpirePriority ==
    ASSUME ListInv, PriorityInv, NEW S \in SUBSET Tasks, NEW P \in SUBSET Tasks,
           \A t \in P : evt[t] = "pending", Expire(S, P)
    PROVE  /\ \A t \in Tasks : evt'[t] = "wait" => evt[t] = "wait" /\ place'[t] = place[t]
           /\ \A m \in Mutexes, t \in Tasks :
                InCall(t, "recv", m) => (evt'[t] = "wait" <=> evt[t] = "wait")
           /\ \A t \in Tasks : place[t] = "ready" => place'[t] = "ready"
           /\ \A t \in Tasks : evt[t] # "wait" => evt'[t] # "wait"
           /\ \A t \in Tasks : place'[t] = "ready" =>
                \/ place[t] = "ready" \/ t \in P
                \/ t \in S /\ t \notin P /\ place[t] = "delayed"
<1>1. \A m \in Mutexes, t \in Tasks :
        InCall(t, "recv", m) /\ evt[t] = "wait" => place[t] # "delayed" /\ t \notin P
  BY DEF PriorityInv, Waits, InCall
<1> QED
  BY <1>1 DEF Expire, ListInv, TypeOK

\* prvUnlockQueue wakes nobody who waits for a mutex.
LEMMA UnlockPriority == ASSUME ListInv, PriorityInv, UnlockQueue PROVE PriorityInv'
<1> DEFINE q == Here.q
<1>1. /\ pc[current] = "unlock" /\ suspended /\ current \in Tasks /\ ~pendSV /\ current \notin late
      /\ pc' = [pc EXCEPT ![current] = "resumeAll"] /\ q \in Objects
      /\ txLock' = [txLock EXCEPT ![q] = Unlocked]
      /\ UNCHANGED <<current, suspended, pendSV, prioVars, holder, call, late>>
  <2>1. Here \in Calls /\ Here.op \in {"send", "recv"}
    BY DEF UnlockQueue, Runs, ListInv, TypeOK, Control, CallAt, Here
  <2> QED
    BY <2>1, CallsLemma DEF UnlockQueue, Runs, PriorityInv, Alarms, ListInv, TypeOK, Control, Held, Goto, Here
<1>2. PICK W \in SUBSET Waiters("recv", q) :
        /\ RemoveFromEventList(W) /\ yieldPending' = (yieldPending \/ Outranks(W, prio[current]))
        /\ Cardinality(W) = LockedPosts(q) \/ (W = Waiters("recv", q) /\ Cardinality(W) < LockedPosts(q))
  BY DEF UnlockQueue
<1>3. /\ W \in SUBSET Tasks /\ \A t \in W : evt[t] = "wait" /\ InCall(t, "recv", q)
      /\ IsFiniteSet(W) /\ Cardinality(W) \in Nat
  <2>1. W \in SUBSET Tasks /\ \A t \in W : evt[t] = "wait" /\ InCall(t, "recv", q)
    BY <1>2 DEF Waiters
  <2> QED
    BY <2>1, TaskAssumption, FS_Subset, FS_CardinalityType
<1>4. q \in Mutexes => W = {}
  <2> SUFFICES ASSUME q \in Mutexes PROVE W = {}
    OBVIOUS
  <2>1. LockedPosts(q) = 0
    BY <1>1 DEF PriorityInv, Waits, LockedPosts, ListInv, Locks, Locking, TypeOK, Here, Control, CallAt
  <2>2. Cardinality(W) = 0
    BY <1>2, <1>3, <2>1
  <2> QED
    BY <1>3, <2>2, FS_EmptySet
<1>5. \A t \in Tasks : /\ place'[t] = place[t]
                       /\ t \notin W => evt'[t] = evt[t]
                       /\ evt'[t] = "wait" => evt[t] = "wait"
  BY <1>1, <1>2, <1>3, RemoveLemma
<1>6. UNCHANGED <<prio, held>> /\ \A t \in Tasks : t # current => pc'[t] = pc[t]
  BY <1>1 DEF prioVars, ListInv, TypeOK
<1>7. Waits'
  <2>1. \A m \in Mutexes : txLock'[m] \in {Unlocked, 0}
    BY <1>1 DEF PriorityInv, Waits, ListInv, TypeOK
  <2> QED
    BY <1>1, <1>5, <2>1, WaitsKept DEF PriorityInv
<1>8. Alarms' /\ Borrows'
  BY <1>1, <1>6 DEF PriorityInv, Alarms, Borrows, ListInv, TypeOK
<1>9. Highest'
  <2>1. Due => Due'
    BY <1>1, <1>2, Zenon DEF Due
  <2>2. Ready' \ late' = Ready \ late
    BY <1>1, <1>5 DEF Ready
  <2> QED
    BY <1>1, <1>6, <2>1, <2>2, HighestKept DEF PriorityInv
<1>10. Debts'
  <2>1. \A m \in Mutexes : Waiters("recv", m)' = Waiters("recv", m)
    <3>1. \A m \in Mutexes, t \in W : ~InCall(t, "recv", m)
      BY <1>3, <1>4 DEF InCall
    <3> QED
      BY <1>1, <1>5, <3>1 DEF Waiters, InCall
  <2>2. \A m \in Mutexes : Coming(m)' = Coming(m)
    BY <1>1 DEF Coming, ListInv, TypeOK
  <2>3. \A m \in Mutexes, t \in Tasks : t \in Retrying("recv", m) /\ place[t] = "ready" =>
          t \in Retrying("recv", m)' /\ place'[t] = "ready"
    BY <1>1, <1>5, <1>6 DEF Retrying, InCall
  <2> QED
    BY <1>1, <1>6, <2>1, <2>2, <2>3, DebtsKept DEF PriorityInv
<1> QED
  BY <1>7, <1>8, <1>9, <1>10 DEF PriorityInv

\* xTaskResumeAll.
LEMMA ResumeAllPriority ==
    ASSUME ListInv, PriorityInv, NEW S \in SUBSET Tasks, ResumeAll(S) PROVE PriorityInv'
<1> DEFINE P == PendingReady
           yields == \/ yieldPending
                     \/ \E t \in P : prio[t] >= prio[current]
                     \/ pendedTicks /\ TickSwitches(S, P)
<1>1. /\ pc[current] = "resumeAll" /\ suspended /\ current \in Tasks /\ ~pendSV /\ current \notin late
      /\ suspended' = FALSE /\ pendSV' = yields /\ current' = current
      /\ UNCHANGED <<prioVars, queueVars, late>> /\ Expire(S, P) /\ (~pendedTicks => S = {})
  BY DEF ListInv, TypeOK, Control, Held, ResumeAll, Runs, PriorityInv, Alarms
<1>2. /\ pc'[current] \in {"yield", "user", "top"}
      /\ \A t \in Tasks : t # current => pc'[t] = pc[t] /\ call'[t] = call[t]
      /\ \/ call'[current] = call[current]
         \/ call'[current] = NoCall /\ (place[current] # "ready" => call[current].op = "delay")
  <2>1. \/ pc' = [pc EXCEPT ![current] = "yield"] /\ call' = call
        \/ /\ pc' = [pc EXCEPT ![current] = "user"] /\ call' = [call EXCEPT ![current] = NoCall]
           /\ place[current] # "ready" => Here.op = "delay"
        \/ pc' = [pc EXCEPT ![current] = "top"] /\ call' = call
    BY Zenon DEF ResumeAll, Goto, Leave
  <2> QED
    BY <1>1, <2>1 DEF ListInv, TypeOK, Here
<1>3. P \in SUBSET Tasks /\ \A t \in P : evt[t] = "pending"
  BY DEF PendingReady
<1>4. /\ \A t \in Tasks : evt'[t] = "wait" => evt[t] = "wait" /\ place'[t] = place[t]
      /\ \A m \in Mutexes, t \in Tasks :
           InCall(t, "recv", m) => (evt'[t] = "wait" <=> evt[t] = "wait")
      /\ \A t \in Tasks : place[t] = "ready" => place'[t] = "ready"
      /\ \A t \in Tasks : evt[t] # "wait" => evt'[t] # "wait"
      /\ \A t \in Tasks : place'[t] = "ready" =>
           \/ place[t] = "ready" \/ t \in P
           \/ t \in S /\ t \notin P /\ place[t] = "delayed"
  BY <1>1, <1>3, ExpirePriority
<1>5. UNCHANGED <<prio, held, holder, txLock>>
  BY <1>1 DEF prioVars, queueVars
<1>6. call'[current] = NoCall => evt[current] # "wait"
  BY <1>1, <1>2, MakeCalls DEF ListInv, Control, ListsAgree
<1>7. Waits'
  <2>1. \A t \in Tasks : call'[t] = call[t] \/ (call'[t].op = "none" /\ evt'[t] # "wait")
    BY <1>2, <1>4, <1>6, MakeCalls
  <2> QED
    BY <1>4, <1>5, <2>1, WaitsKept DEF PriorityInv, Waits
<1>8. Alarms' /\ Borrows'
  <2>1. \A t \in late : t \in Tasks /\ t # current
    BY <1>1 DEF ListInv, TypeOK
  <2> QED
    BY <1>1, <1>2, <2>1 DEF PriorityInv, Alarms, Borrows
<1>9. Highest'
  <2>1. \A t \in Tasks : prio[t] \in Nat
    BY Nums
  <2>2. Due => Due'
    <3>1. yieldPending => pendSV'
      BY <1>1, Zenon
    <3> QED
      BY <1>1, <3>1 DEF Due
  <2>3. ASSUME NEW t \in Tasks, place'[t] = "ready" PROVE pendSV' \/ place[t] = "ready" \/ prio[t] <= prio[current]
    <3>1. CASE t \in P
      <4>1. prio[t] >= prio[current] => pendSV'
        BY <1>1, <3>1, Zenon
      <4> QED
        BY <1>1, <2>1, <4>1
    <3>2. CASE t \in S /\ t \notin P /\ place[t] = "delayed"
      <4>1. prio[t] >= prio[current] => TickSwitches(S, P)
        BY <3>2 DEF TickSwitches
      <4>2. pendedTicks
        BY <1>1, <3>2
      <4>3. prio[t] >= prio[current] => pendSV'
        BY <1>1, <4>1, <4>2, Zenon
      <4> QED
        BY <1>1, <2>1, <4>3
    <3> QED
      BY <1>4, <2>3, <3>1, <3>2
  <2>4. \A t \in Ready' \ late' : Due' \/ t \in Ready \ late \/ prio[t] <= prio[current]
    BY <1>1, <2>3 DEF Ready, Due
  <2> QED
    BY <1>1, <1>5, <2>2, <2>4, HighestKept DEF PriorityInv
<1>10. Debts'
  <2>1. \A m \in Mutexes : Waiters("recv", m)' = Waiters("recv", m)
    <3>1. \A m \in Mutexes, t \in Tasks :
            evt'[t] = "wait" /\ InCall(t, "recv", m)' <=> evt[t] = "wait" /\ InCall(t, "recv", m)
      <4> SUFFICES ASSUME NEW m \in Mutexes, NEW t \in Tasks
                   PROVE  evt'[t] = "wait" /\ InCall(t, "recv", m)' <=> evt[t] = "wait" /\ InCall(t, "recv", m)
        OBVIOUS
      <4>1. CASE call'[t] = call[t]
        BY <1>4, <4>1 DEF InCall
      <4>2. CASE call'[t] # call[t]
        BY <1>2, <1>4, <1>6, <4>2
      <4> QED
        BY <4>1, <4>2
    <3> QED
      BY <3>1 DEF Waiters
  <2>2. \A m \in Mutexes : Coming(m)' = Coming(m)
    BY <1>1, <1>2 DEF Coming
  <2>3. \A m \in Mutexes, t \in Tasks : t \in Retrying("recv", m) /\ place[t] = "ready" =>
          t \in Retrying("recv", m)' /\ place'[t] = "ready"
    BY <1>1, <1>2, <1>4 DEF Retrying, InCall
  <2> QED
    BY <1>1, <1>5, <2>1, <2>2, <2>3, DebtsKept DEF PriorityInv
<1> QED
  BY <1>7, <1>8, <1>9, <1>10 DEF PriorityInv

-------------------------------------------------------------------------------
(* Interrupts. *)

\* vTaskSwitchContext.
LEMMA SwitchPriority == ASSUME ListInv, PriorityInv, SwitchContext PROVE PriorityInv'
<1>1. /\ pendSV /\ pendSV' = FALSE /\ yieldPending' = suspended /\ suspended' = suspended
      /\ UNCHANGED <<listVars, prioVars, queueVars, callVars>>
      /\ UNCHANGED <<place, evt, prio, held, holder, txLock, pc, call>>
  BY DEF SwitchContext, listVars, prioVars, queueVars, callVars
<1>2. \/ suspended /\ UNCHANGED <<current, late>>
      \/ /\ ~suspended /\ late' = {} /\ current' \in Ready
         /\ \A u \in Ready : prio[u] <= prio[current']
  BY DEF SwitchContext
<1>3. Waits'
  BY <1>1 DEF PriorityInv, Waits
<1>4. Alarms'
  BY <1>1, <1>2 DEF PriorityInv, Alarms
<1>5. ~suspended => \A t \in Tasks : pc[t] \notin Held
  BY DEF ListInv, Control
<1>6. Borrows'
  BY <1>1, <1>2, <1>5 DEF PriorityInv, Borrows, Ready, Held
<1>7. Highest'
  <2>1. CASE suspended
    BY <1>1, <2>1 DEF Highest, Due
  <2>2. CASE ~suspended
    BY <1>1, <1>2, <2>2 DEF Highest, Ready
  <2> QED
    BY <2>1, <2>2
<1>8. Debts'
  <2>1. \A m \in Mutexes : Waiters("recv", m)' = Waiters("recv", m)
    BY <1>1 DEF Waiters, InCall
  <2>2. \A m \in Mutexes : Coming(m)' = Coming(m)
    <3>1. CASE suspended
      BY <1>1, <1>2, <3>1 DEF Coming, InCall
    <3>2. CASE ~suspended
      <4>1. current \in Tasks /\ current' \in Tasks
        BY <1>2, <3>2 DEF ListInv, TypeOK, Ready
      <4>2. pc[current] # "place" /\ pc'[current'] # "place"
        BY <1>1, <1>5, <3>2, <4>1 DEF Held
      <4> QED
        BY <4>2 DEF Coming
    <3> QED
      BY <3>1, <3>2
  <2>3. \A m \in Mutexes, t \in Tasks : t \in Retrying("recv", m) /\ place[t] = "ready" =>
          t \in Retrying("recv", m)' /\ place'[t] = "ready"
    BY <1>1 DEF Retrying, InCall
  <2> QED
    BY <1>1, <2>1, <2>2, <2>3, DebtsKept DEF PriorityInv
<1> QED
  BY <1>3, <1>4, <1>6, <1>7, <1>8 DEF PriorityInv

\* SysTick_Handler.
LEMMA TickPriority ==
    ASSUME ListInv, PriorityInv, NEW S \in SUBSET Tasks, Tick(S) PROVE PriorityInv'
<1>1. /\ UNCHANGED <<current, suspended, yieldPending, prioVars, queueVars, callVars, late>>
      /\ UNCHANGED <<prio, held, holder, txLock, pc, call>>
  BY DEF Tick, prioVars, queueVars, callVars
<1>2. pendSV => pendSV'
  BY Zenon DEF Tick
<1>3. /\ \A t \in Tasks : evt'[t] = "wait" => evt[t] = "wait" /\ place'[t] = place[t]
      /\ \A m \in Mutexes, t \in Tasks :
           InCall(t, "recv", m) => (evt'[t] = "wait" <=> evt[t] = "wait")
      /\ \A t \in Tasks : place[t] = "ready" => place'[t] = "ready"
      /\ \A t \in Tasks : evt[t] # "wait" => evt'[t] # "wait"
  <2>1. CASE suspended
    BY <2>1 DEF Tick, listVars
  <2>2. CASE ~suspended
    BY <2>2, ExpirePriority DEF Tick
  <2> QED
    BY <2>1, <2>2
<1>4. Waits'
  BY <1>1, <1>3, WaitsKept DEF PriorityInv, Waits
<1>5. Alarms' /\ Borrows'
  BY <1>1, <1>2 DEF PriorityInv, Alarms, Borrows
<1>6. Highest'
  <2>1. ASSUME NEW t \in Tasks, place'[t] = "ready" PROVE pendSV' \/ place[t] = "ready" \/ prio[t] <= prio[current]
    <3>1. CASE suspended
      BY <2>1, <3>1 DEF Tick, listVars
    <3>2. CASE ~suspended /\ place[t] # "ready"
      <4>1. Expire(S, {}) /\ t \in S /\ place[t] = "delayed"
        BY <2>1, <3>2 DEF Tick, Expire, ListInv, TypeOK
      <4>2. prio[t] >= prio[current] => TickSwitches(S, {})
        BY <4>1 DEF TickSwitches
      <4>3. TickSwitches(S, {}) => pendSV'
        BY <3>2, Zenon DEF Tick
      <4>4. current \in Tasks
        BY DEF ListInv, TypeOK
      <4> QED
        BY <4>2, <4>3, <4>4, Nums
    <3> QED
      BY <3>1, <3>2
  <2>2. \A t \in Ready' \ late' : Due' \/ t \in Ready \ late \/ prio[t] <= prio[current]
    BY <1>1, <2>1 DEF Ready, Due
  <2>3. Due => Due'
    BY <1>1, <1>2 DEF Due
  <2> QED
    BY <1>1, <2>2, <2>3, HighestKept DEF PriorityInv
<1>7. Debts'
  <2>1. \A m \in Mutexes : Waiters("recv", m)' = Waiters("recv", m)
    <3>1. \A m \in Mutexes, t \in Tasks :
            evt'[t] = "wait" /\ InCall(t, "recv", m)' <=> evt[t] = "wait" /\ InCall(t, "recv", m)
      BY <1>1, <1>3 DEF InCall
    <3> QED
      BY <3>1 DEF Waiters
  <2>2. \A m \in Mutexes : Coming(m)' = Coming(m)
    BY <1>1 DEF Coming, InCall
  <2>3. \A m \in Mutexes, t \in Tasks : t \in Retrying("recv", m) /\ place[t] = "ready" =>
          t \in Retrying("recv", m)' /\ place'[t] = "ready"
    BY <1>1, <1>3 DEF Retrying, InCall
  <2> QED
    BY <1>1, <2>1, <2>2, <2>3, DebtsKept DEF PriorityInv
<1> QED
  BY <1>4, <1>5, <1>6, <1>7 DEF PriorityInv

\* A post from an interrupt wakes nobody who waits for a mutex.
LEMMA SendISRPriority ==
    ASSUME ListInv, PriorityInv, NEW q \in IsrQueues, SendFromISR(q) PROVE PriorityInv'
<1>1. /\ UNCHANGED <<current, suspended, prioVars, callVars, late, holder>>
      /\ UNCHANGED <<prio, held, pc, call>> /\ q \in Objects /\ q \notin Mutexes
      /\ \A m \in Mutexes : txLock'[m] = txLock[m]
  BY QueueAssumption DEF SendFromISR, prioVars, callVars, Objects, ListInv, TypeOK
<1>2. (pendSV => pendSV') /\ (yieldPending => yieldPending')
  BY Zenon DEF SendFromISR
<1>3. Woken("recv", q) \/ UNCHANGED listVars
  BY DEF SendFromISR, Woken
<1>4. /\ \A t \in Tasks : evt'[t] = "wait" => evt[t] = "wait" /\ place'[t] = place[t]
      /\ \A t \in Tasks : place[t] = "ready" => place'[t] = "ready"
      /\ \A t \in Tasks : evt[t] # "wait" => evt'[t] # "wait"
  BY <1>3, WokenLemma DEF listVars
<1>5. \A t \in Tasks : evt'[t] # evt[t] => InCall(t, "recv", q)
  <2>1. ASSUME NEW t \in Heads("recv", q), RemoveFromEventList({t})
        PROVE  \A u \in Tasks : evt'[u] # evt[u] => InCall(u, "recv", q)
    BY <2>1, HeadLemma, RemoveLemma DEF InCall
  <2> QED
    BY <1>3, <2>1 DEF Woken, listVars
<1>6. Waits'
  BY <1>1, <1>4, WaitsKept DEF PriorityInv, Waits
<1>7. Alarms' /\ Borrows'
  BY <1>1, <1>2 DEF PriorityInv, Alarms, Borrows
<1>8. Highest'
  <2>1. ASSUME NEW t \in Tasks, place'[t] = "ready" PROVE pendSV' \/ place[t] = "ready" \/ prio[t] <= prio[current]
    <3>1. CASE place[t] # "ready"
      <4>1. listVars' # listVars
        BY <2>1, <3>1 DEF listVars
      <4>2. PICK h \in Heads("recv", q) :
              /\ RemoveFromEventList({h}) /\ pendSV' = (pendSV \/ Outranks({h}, prio[current]))
        BY <4>1 DEF SendFromISR
      <4>3. t = h
        BY <2>1, <3>1, <4>2, HeadLemma, RemoveLemma
      <4>4. prio[t] > prio[current] => pendSV'
        BY <4>2, <4>3, Zenon DEF Outranks
      <4>5. current \in Tasks
        BY DEF ListInv, TypeOK
      <4> QED
        BY <4>4, <4>5, Nums
    <3> QED
      BY <3>1
  <2>2. \A t \in Ready' \ late' : Due' \/ t \in Ready \ late \/ prio[t] <= prio[current]
    BY <1>1, <2>1 DEF Ready, Due
  <2>3. Due => Due'
    BY <1>1, <1>2 DEF Due
  <2> QED
    BY <1>1, <2>2, <2>3, HighestKept DEF PriorityInv
<1>9. Debts'
  <2>1. \A m \in Mutexes : Waiters("recv", m)' = Waiters("recv", m)
    <3>1. \A m \in Mutexes, t \in Tasks : InCall(t, "recv", m) => evt'[t] = evt[t]
      BY <1>1, <1>5 DEF InCall
    <3>2. \A m, t : InCall(t, "recv", m)' <=> InCall(t, "recv", m)
      BY <1>1 DEF InCall
    <3> QED
      BY <3>1, <3>2 DEF Waiters
  <2>2. \A m \in Mutexes : Coming(m)' = Coming(m)
    BY <1>1 DEF Coming, InCall
  <2>3. \A m \in Mutexes, t \in Tasks : t \in Retrying("recv", m) /\ place[t] = "ready" =>
          t \in Retrying("recv", m)' /\ place'[t] = "ready"
    BY <1>1, <1>4 DEF Retrying, InCall
  <2> QED
    BY <1>1, <2>1, <2>2, <2>3, DebtsKept DEF PriorityInv
<1> QED
  BY <1>6, <1>7, <1>8, <1>9 DEF PriorityInv

\* xTaskResumeFromISR in the alarm's handler.
LEMMA ResumeISRPriority ==
    ASSUME ListInv, PriorityInv, NEW t \in Tasks, ResumeFromISR(t) PROVE PriorityInv'
<1>1. /\ UNCHANGED <<schedVars, prioVars, queueVars, callVars>>
      /\ UNCHANGED <<current, suspended, yieldPending, pendSV, prio, held, holder, txLock, pc, call>>
      /\ place[t] = "suspended" /\ evt[t] = "none"
      /\ \A u \in Tasks : u # t => place'[u] = place[u] /\ evt'[u] = evt[u]
      /\ evt'[t] # "wait"
  BY DEF ResumeFromISR, schedVars, prioVars, queueVars, callVars, ListInv, TypeOK
<1>2. \/ suspended /\ UNCHANGED <<place, late>>
      \/ ~suspended /\ late' = late \cup {t}
  BY DEF ResumeFromISR
<1>3. Waits'
  BY <1>1, WaitsKept DEF PriorityInv, Waits
<1>4. Alarms' /\ Borrows'
  <2>1. call[t].op \notin {"send", "recv"}
    BY <1>1 DEF ListInv, Control
  <2>2. ~suspended /\ t = current => pendSV \/ pc[current] = "yield"
    BY <1>1 DEF ListInv, Control, Held
  <2> QED
    BY <1>1, <1>2, <2>1, <2>2 DEF PriorityInv, Alarms, Borrows
<1>5. Highest'
  BY <1>1, <1>2, HighestKept DEF PriorityInv, Due, Ready
<1>6. Debts'
  <2>1. \A m \in Mutexes : Waiters("recv", m)' = Waiters("recv", m) /\ Coming(m)' = Coming(m)
    BY <1>1 DEF Waiters, Coming, InCall
  <2>2. \A m \in Mutexes, u \in Tasks : u \in Retrying("recv", m) /\ place[u] = "ready" =>
          u \in Retrying("recv", m)' /\ place'[u] = "ready"
    BY <1>1 DEF Retrying, InCall
  <2> QED
    BY <1>1, <2>1, <2>2, DebtsKept DEF PriorityInv
<1> QED
  BY <1>3, <1>4, <1>5, <1>6 DEF PriorityInv

-------------------------------------------------------------------------------
(* Items are taken and put. *)

\* What the step does but for the mutex and the priorities: the call ends, and
\* the head of one list may have become ready.
LEMMA ItemFrame ==
    ASSUME ListInv, PriorityInv, NEW op, NEW r, Woken(op, r), Runs("top"), Leave,
           UNCHANGED <<current, suspended, txLock, late>>
    PROVE  /\ current \in Tasks /\ current \notin late /\ ~suspended /\ ~pendSV
           /\ evt[current] # "wait" /\ place[current] = "ready" /\ ~Due
           /\ Waits' /\ Alarms' /\ Borrows'
           /\ \A m : Coming(m) = {} /\ Coming(m)' = {}
           /\ \A m : op # "recv" \/ m # r => Waiters("recv", m)' = Waiters("recv", m)
           /\ \A m, t : t # current /\ t \in Retrying("recv", m) /\ place[t] = "ready" =>
                t \in Retrying("recv", m)' /\ place'[t] = "ready"
<1>1. /\ ~suspended /\ evt[current] # "wait" /\ current \in Tasks /\ pc[current] = "top"
      /\ place[current] = "ready" /\ ~pendSV
      /\ \A t \in Tasks : pc[t] \notin {"unlock", "resumeAll"}
  BY DEF ListInv, TypeOK, Control, Held, ListsAgree, Runs
<1>2. current \notin late /\ ~Due
  BY <1>1 DEF PriorityInv, Alarms, Due
<1>3. /\ \A t \in Tasks : t # current => call'[t] = call[t] /\ pc'[t] = pc[t]
      /\ call'[current] = NoCall /\ pc'[current] = "user"
  BY <1>1 DEF Leave, ListInv, TypeOK
<1>4. \A t \in Tasks : /\ evt'[t] = "wait" => evt[t] = "wait" /\ place'[t] = place[t]
                       /\ evt[t] # "wait" => evt'[t] = evt[t] /\ place'[t] = place[t]
  BY WokenLemma
<1>5. \A t \in Tasks : evt'[t] # evt[t] => InCall(t, op, r)
  <2>1. ASSUME NEW h \in Heads(op, r), RemoveFromEventList({h})
        PROVE  \A u \in Tasks : evt'[u] # evt[u] => InCall(u, op, r)
    BY <2>1, HeadLemma, RemoveLemma DEF InCall
  <2> QED
    BY <2>1 DEF Woken, listVars
<1>6. Waits'
  <2>1. \A t \in Tasks : call'[t] = call[t] \/ (call'[t].op = "none" /\ evt'[t] # "wait")
    BY <1>1, <1>3, <1>4, MakeCalls
  <2>2. \A m \in Mutexes : txLock'[m] \in {Unlocked, 0}
    BY DEF PriorityInv, Waits
  <2> QED
    BY <1>4, <2>1, <2>2, WaitsKept DEF PriorityInv
<1>7. Alarms' /\ Borrows'
  <2>1. \A t \in late : t \in Tasks /\ t # current
    BY <1>2 DEF ListInv, TypeOK
  <2> QED
    BY <1>2, <1>3, <2>1 DEF PriorityInv, Alarms, Borrows
<1>8. \A m : Coming(m) = {} /\ Coming(m)' = {}
  BY <1>1, <1>3 DEF Coming
<1>9. \A m : op # "recv" \/ m # r => Waiters("recv", m)' = Waiters("recv", m)
  <2>1. \A m, t : t \in Tasks /\ (op # "recv" \/ m # r) =>
          (evt'[t] = "wait" /\ InCall(t, "recv", m)' <=> evt[t] = "wait" /\ InCall(t, "recv", m))
    BY <1>1, <1>3, <1>4, <1>5 DEF InCall
  <2> QED
    BY <2>1 DEF Waiters
<1>10. \A m, t : t # current /\ t \in Retrying("recv", m) /\ place[t] = "ready" =>
         t \in Retrying("recv", m)' /\ place'[t] = "ready"
  BY <1>3, <1>4 DEF Retrying, InCall
<1> QED
  BY <1>1, <1>2, <1>6, <1>7, <1>8, <1>9, <1>10

\* xQueueGenericReceive takes an item; a mutex goes to a task that no other one
\* that waits for it outranks.
LEMMA TakePriority == ASSUME KernelInv, PriorityInv, TakeItem PROVE PriorityInv'
<1>0. ListInv
  BY DEF KernelInv
<1>q. PICK r \in Objects : r = Here.q
  <2>1. Here \in Calls /\ Here.op = "recv"
    BY <1>0 DEF ListInv, TypeOK, TakeItem, Here
  <2> QED
    BY <2>1, CallsLemma
<1>1. /\ InCall(current, "recv", r) /\ UNCHANGED <<current, suspended, txLock, late, prio>>
      /\ count[r] > 0 /\ Woken("send", r) /\ Runs("top") /\ Leave
      /\ \/ r \in Mutexes /\ holder' = [holder EXCEPT ![r] = current]
                          /\ held' = [held EXCEPT ![current] = @ + 1]
         \/ r \notin Mutexes /\ UNCHANGED <<holder, held>>
  <2>1. InCall(current, "recv", r)
    BY <1>q DEF TakeItem, Here, InCall
  <2>2. Woken("send", r)
    BY <1>q DEF TakeItem, Woken
  <2> QED
    BY <1>q, <2>1, <2>2 DEF TakeItem
<1>2. /\ current \in Tasks /\ current \notin late /\ ~suspended /\ ~pendSV
      /\ evt[current] # "wait" /\ place[current] = "ready" /\ ~Due
      /\ Waits' /\ Alarms' /\ Borrows'
      /\ \A m : Coming(m) = {} /\ Coming(m)' = {}
      /\ \A m : Waiters("recv", m)' = Waiters("recv", m)
      /\ \A m, t : t # current /\ t \in Retrying("recv", m) /\ place[t] = "ready" =>
           t \in Retrying("recv", m)' /\ place'[t] = "ready"
  BY <1>0, <1>1, ItemFrame
<1>3. Highest'
  <2>1. ASSUME NEW t \in Tasks, place'[t] = "ready"
        PROVE  pendSV' \/ place[t] = "ready" \/ prio[t] <= prio[current]
    <3>1. CASE place[t] # "ready"
      <4>1. PICK h \in Heads("send", r) :
              RemoveFromEventList({h}) /\ pendSV' = Outranks({h}, prio[current])
        BY <1>q, <2>1, <3>1 DEF TakeItem, listVars
      <4>2. t = h
        BY <1>0, <2>1, <3>1, <4>1, HeadLemma, RemoveLemma
      <4>3. prio[t] > prio[current] => pendSV'
        BY <4>1, <4>2, Zenon DEF Outranks
      <4> QED
        BY <1>0, <1>2, <4>3, Nums
    <3> QED
      BY <3>1
  <2>2. \A t \in Ready' \ late' : Due' \/ t \in Ready \ late \/ prio[t] <= prio[current]
    BY <1>1, <2>1 DEF Ready, Due
  <2> QED
    BY <1>1, <1>2, <2>2, HighestKept DEF PriorityInv
<1>4. CASE r \notin Mutexes
  <2>1. UNCHANGED <<prioVars, holder>>
    BY <1>1, <1>4 DEF prioVars
  <2>2. \A m \in Mutexes : current \notin Retrying("recv", m)
    BY <1>1, <1>4 DEF Retrying, InCall
  <2>3. Debts'
    BY <1>2, <2>1, <2>2, DebtsKept DEF PriorityInv
  <2> QED
    BY <1>2, <1>3, <2>3 DEF PriorityInv
<1>5. CASE r \in Mutexes
  <2>1. holder[r] = None /\ held[current] = 0 /\ current # None
    <3>1. count[r] \in Nat /\ count[r] <= 1 /\ call[current].op = "recv"
      BY <1>0, <1>1, <1>5 DEF ListInv, TypeOK, Size, InCall
    <3> QED
      BY <1>0, <1>1, <1>2, <1>5, <3>1, TaskAssumption DEF ListInv, Owns
  <2>2. /\ holder'[r] = current /\ \A m \in Mutexes : m # r => holder'[m] = holder[m]
        /\ held'[current] = 1 /\ \A t \in Tasks : t # current => held'[t] = held[t]
    BY <1>0, <1>1, <1>2, <1>5, <2>1 DEF ListInv, TypeOK
  <2>3. \A m \in Mutexes : Wanting(m)' = Waiters("recv", m) /\ Wanting(m) = Waiters("recv", m)
    BY <1>2 DEF Wanting
  <2>4. Own'
    BY <1>1, <1>2, <2>2 DEF PriorityInv, Debts, Own
  <2>5. Lent'
    <3> SUFFICES ASSUME NEW t \in Tasks, prio[t] # Base[t]
                 PROVE  \E m \in Mutexes : holder'[m] = t /\ \E u \in Wanting(m)' : prio[u] >= prio[t]
      BY <1>1 DEF Lent
    <3>1. PICK m \in Mutexes : holder[m] = t /\ \E u \in Wanting(m) : prio[u] >= prio[t]
      BY DEF PriorityInv, Debts, Lent
    <3>2. m # r
      BY <2>1, <3>1, TaskAssumption
    <3> QED
      BY <2>2, <2>3, <3>1, <3>2
  <2>6. Pays'
    <3> SUFFICES ASSUME NEW m \in Mutexes, holder'[m] # None, NEW t \in Waiters("recv", m)
                 PROVE  prio[t] <= prio[holder'[m]]
      BY <1>1, <2>3 DEF Pays
    <3>1. CASE m # r
      BY <2>2, <2>3, <3>1 DEF PriorityInv, Debts, Pays
    <3>2. CASE m = r
      <4>1. PICK w \in Tasks : Taker(r, w)
        BY <2>1, <3>2 DEF PriorityInv, Debts, Free
      <4>2. w \in Ready \ late
        BY <4>1 DEF Taker, Retrying, InCall, Ready, PriorityInv, Alarms
      <4>3. prio[w] <= prio[current]
        BY <1>2, <4>2 DEF PriorityInv, Highest
      <4>4. prio[t] <= prio[w] /\ t \in Tasks
        BY <3>2, <4>1 DEF Taker, Waiters
      <4> QED
        BY <1>0, <1>2, <2>2, <3>2, <4>3, <4>4, Nums
    <3> QED
      BY <3>1, <3>2
  <2>7. Free'
    <3> SUFFICES ASSUME NEW m \in Mutexes, holder'[m] = None, Waiters("recv", m) # {}
                 PROVE  \E t \in Tasks : Taker(m, t)'
      BY <1>2 DEF Free
    <3>1. m # r /\ holder[m] = None
      BY <2>1, <2>2
    <3>2. PICK t \in Tasks : Taker(m, t)
      BY <3>1 DEF PriorityInv, Debts, Free
    <3>3. t # current
      BY <1>1, <3>1, <3>2 DEF Taker, Retrying, InCall
    <3>4. Taker(m, t)'
      BY <1>1, <1>2, <3>2, <3>3 DEF Taker
    <3> QED
      BY <3>4
  <2> QED
    BY <1>2, <1>3, <2>4, <2>5, <2>6, <2>7 DEF PriorityInv, Debts
<1> QED
  BY <1>4, <1>5

\* xQueueGenericSend puts an item; who gives a mutex back has its own priority
\* again, and the head of those who wait for it becomes ready and takes it.
LEMMA PutPriority == ASSUME KernelInv, PriorityInv, PutItem PROVE PriorityInv'
<1>0. ListInv
  BY DEF KernelInv
<1>q. PICK r \in Objects : r = Here.q
  <2>1. Here \in Calls /\ Here.op = "send"
    BY <1>0 DEF ListInv, TypeOK, PutItem, Here
  <2> QED
    BY <2>1, CallsLemma
<1> DEFINE p == IF r \in Mutexes THEN Disinherited ELSE prio[current]
<1>1. /\ InCall(current, "send", r) /\ UNCHANGED <<current, suspended, txLock, late>>
      /\ count[r] < Size(r) /\ Woken("recv", r) /\ Runs("top") /\ Leave
      /\ prio' = [prio EXCEPT ![current] = p]
      /\ \/ r \in Mutexes /\ holder' = [holder EXCEPT ![r] = None]
                          /\ held' = [held EXCEPT ![current] = @ - 1]
         \/ r \notin Mutexes /\ UNCHANGED <<holder, held>>
  <2>1. InCall(current, "send", r)
    BY <1>q DEF PutItem, Here, InCall
  <2>2. Woken("recv", r)
    BY <1>q DEF PutItem, Woken
  <2> QED
    BY <1>q, <2>1, <2>2 DEF PutItem
<1>2. /\ current \in Tasks /\ current \notin late /\ ~suspended /\ ~pendSV
      /\ evt[current] # "wait" /\ place[current] = "ready" /\ ~Due
      /\ Waits' /\ Alarms' /\ Borrows'
      /\ \A m : Coming(m) = {} /\ Coming(m)' = {}
      /\ \A m : m # r => Waiters("recv", m)' = Waiters("recv", m)
      /\ \A m, t : t # current /\ t \in Retrying("recv", m) /\ place[t] = "ready" =>
           t \in Retrying("recv", m)' /\ place'[t] = "ready"
  BY <1>0, <1>1, ItemFrame
<1>3. /\ \A t \in Tasks : t # current => prio'[t] = prio[t]
      /\ prio'[current] = p /\ p \in Nat
      /\ \A t \in Tasks : prio[t] \in Nat /\ prio'[t] \in Nat
  BY <1>0, <1>1, <1>2, Nums DEF ListInv, TypeOK, Disinherited
<1>4. /\ \A t \in Tasks : place'[t] = "ready" /\ place[t] # "ready" /\ prio[t] > p => pendSV'
      /\ p # prio[current] =>
           \/ pendSV'
           \/ \E h \in Heads("recv", r) : prio[h] > p => pendSV'
  <2>1. ASSUME NEW h \in Heads("recv", r), RemoveFromEventList({h}), pendSV' = Outranks({h}, p)
        PROVE  /\ \A t \in Tasks : place'[t] = "ready" /\ place[t] # "ready" /\ prio[t] > p => pendSV'
               /\ \E i \in Heads("recv", r) : prio[i] > p => pendSV'
    <3>1. prio[h] > p => pendSV'
      BY <2>1, Zenon DEF Outranks
    <3>2. \A t \in Tasks : place'[t] = "ready" /\ place[t] # "ready" => t = h
      BY <1>0, <2>1, HeadLemma, RemoveLemma
    <3> QED
      BY <3>1, <3>2
  <2>2. CASE Waiters("recv", r) = {}
    <3>1. pendSV' = (p # prio[current]) /\ place' = place
      BY <1>q, <2>2 DEF PutItem, listVars
    <3> QED
      BY <3>1, Zenon
  <2>3. CASE Waiters("recv", r) # {}
    BY <1>q, <2>1, <2>3 DEF PutItem
  <2> QED
    BY <2>2, <2>3
<1>5. CASE r \notin Mutexes
  <2>1. p = prio[current] /\ prio' = prio
    BY <1>0, <1>1, <1>5 DEF ListInv, TypeOK
  <2>2. Highest'
    <3>1. \A t \in Ready' \ late' : Due' \/ t \in Ready \ late \/ prio[t] <= prio[current]
      BY <1>1, <1>2, <1>3, <1>4, <2>1 DEF Ready, Due
    <3> QED
      BY <1>1, <1>2, <2>1, <3>1, HighestKept DEF PriorityInv
  <2>3. \A m \in Mutexes : Waiters("recv", m)' = Waiters("recv", m) /\ current \notin Retrying("recv", m)
    BY <1>1, <1>2, <1>5 DEF Retrying, InCall
  <2>4. UNCHANGED <<prioVars, holder>>
    BY <1>1, <1>5, <2>1 DEF prioVars
  <2>5. Debts'
    BY <1>2, <2>3, <2>4, DebtsKept DEF PriorityInv
  <2> QED
    BY <1>2, <2>2, <2>5 DEF PriorityInv
<1>6. CASE r \in Mutexes
  <2>1. holder[r] = current /\ held[current] = 1 /\ current # None
    BY <1>0, <1>1, <1>2, <1>6, TaskAssumption DEF ListInv, Owns, InCall
  <2>2. /\ p = Base[current]
        /\ holder'[r] = None /\ \A m \in Mutexes : m # r => holder'[m] = holder[m]
        /\ \A m \in Mutexes : holder[m] = current => m = r
        /\ \A t \in Tasks : t # current => held'[t] = held[t]
    BY <1>0, <1>1, <1>2, <1>6, <2>1 DEF ListInv, TypeOK, Owns, Disinherited
  <2>3. \A m : /\ Wanting(m) = Waiters("recv", m) /\ Wanting(m)' = Waiters("recv", m)'
               /\ \A t \in Waiters("recv", m) : t \in Tasks /\ t # current
    BY <1>2 DEF Wanting, Waiters
  <2>4. Highest'
    <3> SUFFICES ASSUME NEW t \in Tasks, place'[t] = "ready", t \notin late, ~pendSV'
                 PROVE  prio'[t] <= p
      BY <1>1, <1>3 DEF Highest, Ready, Due
    <3>1. CASE t = current
      BY <1>3, <3>1
    <3>2. CASE t # current /\ place[t] # "ready"
      BY <1>3, <1>4, <3>2
    <3>3. CASE t # current /\ place[t] = "ready"
      <4>1. prio[t] <= prio[current]
        BY <1>2, <3>3 DEF PriorityInv, Highest, Ready
      <4>2. prio[current] <= p
        <5>1. CASE p = prio[current]
          BY <1>2, <1>3, <5>1
        <5>2. CASE p # prio[current]
          <6>1. PICK h \in Heads("recv", r) : ~(prio[h] > p)
            BY <1>4, <5>2
          <6>2. PICK m \in Mutexes : holder[m] = current /\ \E u \in Wanting(m) : prio[u] >= prio[current]
            BY <1>2, <2>2, <5>2 DEF PriorityInv, Debts, Lent
          <6>3. PICK u \in Waiters("recv", r) : prio[u] >= prio[current]
            BY <2>2, <2>3, <6>2
          <6>4. prio[u] <= prio[h] /\ h \in Tasks /\ u \in Tasks
            BY <6>1, <6>3 DEF Heads, Waiters
          <6> QED
            BY <1>2, <1>3, <6>1, <6>3, <6>4
        <5> QED
          BY <5>1, <5>2
      <4> QED
        BY <1>2, <1>3, <3>3, <4>1, <4>2
    <3> QED
      BY <3>1, <3>2, <3>3
  <2>5. Own'
    BY <1>3, <2>2 DEF PriorityInv, Debts, Own
  <2>6. Lent'
    <3> SUFFICES ASSUME NEW t \in Tasks, prio'[t] # Base[t]
                 PROVE  \E m \in Mutexes : holder'[m] = t /\ \E u \in Wanting(m)' : prio'[u] >= prio'[t]
      BY DEF Lent
    <3>1. t # current /\ prio'[t] = prio[t]
      BY <1>3, <2>2
    <3>2. PICK m \in Mutexes : holder[m] = t /\ \E u \in Wanting(m) : prio[u] >= prio[t]
      BY <3>1 DEF PriorityInv, Debts, Lent
    <3>3. PICK u \in Waiters("recv", m) : prio[u] >= prio[t]
      BY <2>3, <3>2
    <3>4. m # r
      BY <2>1, <3>1, <3>2
    <3>5. u \in Wanting(m)' /\ prio'[u] = prio[u]
      BY <1>2, <1>3, <2>3, <3>3, <3>4
    <3> QED
      BY <2>2, <3>1, <3>2, <3>3, <3>4, <3>5
  <2>7. Pays'
    <3> SUFFICES ASSUME NEW m \in Mutexes, holder'[m] # None, NEW t \in Waiters("recv", m)'
                 PROVE  prio'[t] <= prio'[holder'[m]]
      BY <2>3 DEF Pays
    <3>1. m # r /\ holder'[m] = holder[m] /\ holder[m] # current
      BY <2>2
    <3>2. t \in Waiters("recv", m) /\ t \in Tasks /\ t # current
      BY <1>2, <2>3, <3>1
    <3>3. prio[t] <= prio[holder[m]] /\ holder[m] \in Tasks
      BY <1>0, <2>3, <3>1, <3>2 DEF PriorityInv, Debts, Pays, ListInv, TypeOK
    <3> QED
      BY <1>3, <3>1, <3>2, <3>3
  <2>8. Free'
    <3> SUFFICES ASSUME NEW m \in Mutexes, holder'[m] = None, Waiters("recv", m)' # {}
                 PROVE  \E t \in Tasks : Taker(m, t)'
      BY DEF Free
    <3>1. CASE m # r
      <4>1. PICK t \in Tasks : Taker(m, t)
        BY <1>2, <2>2, <3>1 DEF PriorityInv, Debts, Free
      <4>2. t # current
        BY <1>1, <4>1 DEF Taker, Retrying, InCall
      <4>3. \A u \in Waiters("recv", m) : prio'[u] = prio[u] /\ prio'[t] = prio[t]
        BY <1>3, <2>3, <4>2
      <4>4. Taker(m, t)'
        BY <1>2, <3>1, <4>1, <4>2, <4>3 DEF Taker
      <4> QED
        BY <4>4
    <3>2. CASE m = r
      <4>1. \A u \in Waiters("recv", r)' : u \in Waiters("recv", r)
        BY <1>0, <1>1, ItemTasks
      <4>2. PICK h \in Heads("recv", r) : RemoveFromEventList({h})
        BY <1>1, <3>2, <4>1 DEF Woken
      <4>3. /\ h \in Tasks /\ h # current /\ evt[h] = "wait" /\ InCall(h, "recv", r)
            /\ \A u \in Waiters("recv", r) : prio[u] <= prio[h]
        BY <1>2, <4>2 DEF Heads, Waiters
      <4>4. evt'[h] = "none" /\ place'[h] = "ready"
        BY <1>0, <1>2, <4>2, HeadLemma, RemoveLemma
      <4>5. pc[h] \in {"top", "yield"} /\ pc'[h] = pc[h] /\ InCall(h, "recv", r)'
        BY <1>0, <1>1, <1>2, <4>3 DEF ListInv, TypeOK, Control, Held, Leave, InCall
      <4>6. \A u \in Waiters("recv", r)' : prio'[u] <= prio'[h]
        BY <1>3, <2>3, <4>1, <4>3
      <4>7. Taker(r, h)'
        BY <4>3, <4>4, <4>5, <4>6 DEF Taker, Retrying, InCall
      <4> QED
        BY <3>2, <4>3, <4>7
    <3> QED
      BY <3>1, <3>2
  <2> QED
    BY <1>2, <2>4, <2>5, <2>6, <2>7, <2>8 DEF PriorityInv, Debts
<1> QED
  BY <1>5, <1>6

-------------------------------------------------------------------------------
(* All steps. *)

LEMMA PriorityInit == Init => PriorityInv
<1> SUFFICES ASSUME Init PROVE PriorityInv
  OBVIOUS
<1>1. \A m : Waiters("recv", m) = {}
  BY DEF Init, Waiters
<1>2. current \in Tasks /\ pc[current] = "user"
  BY DEF Init
<1>3. Waits /\ Borrows /\ Alarms
  BY <1>2, MakeCalls, QueueAssumption DEF Init, Waits, Borrows, Alarms, Objects
<1>4. Highest
  BY DEF Init, Highest, Ready
<1>5. Debts
  BY <1>1, <1>2 DEF Init, Debts, Own, Lent, Pays, Free, Wanting, Coming
<1> QED
  BY <1>3, <1>4, <1>5 DEF PriorityInv

LEMMA CallPriority == ASSUME ListInv, PriorityInv, CallStep PROVE PriorityInv'
<1>1. ASSUME NEW q \in Objects, NEW wait \in {"zero", "timed", "forever"}, Receive(q, wait)
      PROVE  PriorityInv'
  <2> DEFINE x == [op |-> "recv", q |-> q, wait |-> wait]
  <2>1. x \in Calls /\ (x.q \in Mutexes => x.wait # "timed")
    BY <1>1, MakeCalls, WaitAssumption DEF Receive
  <2>2. Enter(x, "top")
    BY <1>1 DEF Receive
  <2> HIDE DEF x
  <2> QED
    BY <2>1, <2>2, EnterPriority
<1>2. ASSUME NEW x \in Calls, NEW l \in {"top", "suspendAll", "leave"}, x.op # "recv", Enter(x, l)
      PROVE  PriorityInv'
  BY <1>2, EnterPriority
<1>3. ASSUME NEW q \in Objects, NEW wait \in {"zero", "timed", "forever"}, Send(q, wait)
      PROVE  PriorityInv'
  BY <1>2, <1>3, MakeCalls DEF Send
<1>4. ASSUME NEW m \in Mutexes, GiveMutex(m) PROVE PriorityInv'
  BY <1>2, <1>4, MakeCalls DEF GiveMutex, Objects
<1>5. CASE Delay \/ Suspend
  BY <1>2, <1>5, MakeCalls DEF Delay, Suspend
<1>6. ASSUME NEW t \in Sleepers, Resume(t) PROVE PriorityInv'
  BY <1>6, ResumePriority, SleeperAssumption
<1> QED
  BY <1>1, <1>3, <1>4, <1>5, <1>6 DEF CallStep

LEMMA PriorityStep == KernelInv /\ PriorityInv /\ [Next]_vars => PriorityInv'
<1> SUFFICES ASSUME KernelInv, PriorityInv, [Next]_vars PROVE PriorityInv'
  OBVIOUS
<1>0. ListInv
  BY DEF KernelInv
<1>1. CASE CallStep
  BY <1>0, <1>1, CallPriority
<1>2. CASE KernelStep
  <2>1. CASE FindNothing \/ SuspendAll \/ LockQueue \/ CheckForTimeOut \/ TestAgain
    BY <1>0, <2>1, WayPriority
  <2>2. CASE Yield \/ LeaveReadyList
    BY <1>0, <2>2, YieldPriority
  <2> QED
    BY <1>0, <1>2, <2>1, <2>2, TakePriority, PutPriority, InheritStep, PlacePriority,
       UnlockPriority, ResumeAllPriority DEF KernelStep
<1>3. CASE SwitchContext
  BY <1>0, <1>3, SwitchPriority
<1>4. CASE Interrupt
  BY <1>0, <1>4, TickPriority, SendISRPriority, ResumeISRPriority, SleeperAssumption DEF Interrupt
<1>5. CASE UNCHANGED vars
  <2>1. UNCHANGED <<current, suspended, yieldPending, pendSV, place, evt, prio, held, holder, txLock,
                    pc, call, late>>
    BY <1>5 DEF vars, schedVars, listVars, prioVars, queueVars, callVars
  <2>2. \A m : Waiters("recv", m)' = Waiters("recv", m) /\ Coming(m)' = Coming(m)
    BY <2>1 DEF Waiters, Coming, InCall
  <2>3. \A m, t : t \in Retrying("recv", m) => t \in Retrying("recv", m)'
    BY <2>1 DEF Retrying, InCall
  <2>4. Debts'
    BY <2>1, <2>2, <2>3, DebtsKept DEF PriorityInv, prioVars
  <2>5. Waits' /\ Borrows' /\ Alarms' /\ Highest'
    BY <2>1 DEF PriorityInv, Waits, Borrows, Alarms, Highest, Due, Ready
  <2> QED
    BY <2>4, <2>5 DEF PriorityInv
<1> QED
  BY <1>1, <1>2, <1>3, <1>4, <1>5 DEF Next

\* Whenever the scheduler is not held back and no switch is about to be made,
\* the running task is ready and outranked by no ready task, those an alarm has
\* just resumed excepted (vTaskSwitchContext, xTaskResumeAll,
\* xTaskIncrementTick and the yields of the queues).
THEOREM HighestTheorem == Spec => []RunsHighest
<1>1. ListInv /\ PriorityInv => RunsHighest
  BY DEF ListInv, TypeOK, Control, Held, PriorityInv, Highest, Due, RunsHighest
<1>2. KernelInv => ListInv
  BY DEF KernelInv
<1> QED
  BY <1>1, <1>2, WakeInit, WakeStep, PriorityInit, PriorityStep, PTL DEF Spec

\* A mutex is available exactly when nobody holds it, its holder runs at least
\* at the priority of everyone who waits for it, and a task that holds none has
\* its own priority again (vTaskPriorityInherit and xTaskPriorityDisinherit).
THEOREM InheritTheorem == Spec => []MutexInherits
<1>1. ListInv /\ PriorityInv => MutexInherits
  BY DEF ListInv, Owns, PriorityInv, Debts, Own, Pays, Wanting, MutexInherits
<1>2. KernelInv => ListInv
  BY DEF KernelInv
<1> QED
  BY <1>1, <1>2, WakeInit, WakeStep, PriorityInit, PriorityStep, PTL DEF Spec

===============================================================================

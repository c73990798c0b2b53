-------------------------------- MODULE Kernel --------------------------------
(***************************************************************************)
(* The blocking calls of the FreeRTOS kernel the firmware runs on: queues, *)
(* semaphores and mutexes (queue.c) over the scheduler (tasks.c), on one   *)
(* processor.                                                              *)
(*                                                                         *)
(* A step is one critical section, or one stretch of code that runs with   *)
(* the scheduler suspended; between two steps of the running task an       *)
(* interrupt may post to a queue, resume a task or count a tick.  Posting  *)
(* from an interrupt while a task is on its way into a queue's list of     *)
(* waiting tasks is what the queue's lock counter, the list of pending     *)
(* ready tasks and the pending yield are for.                              *)
(*                                                                         *)
(* Three things are abstracted: tasks of one priority are taken in any     *)
(* order, the items of a queue are counted, and time passes by letting any *)
(* running timer expire at a tick.  As in this firmware, a task that holds *)
(* a mutex does not block, and interrupts never receive.                   *)
(***************************************************************************)
EXTENDS Integers, FiniteSets

CONSTANTS
    Tasks,         \* the tasks, Idle included
    Idle,          \* prvIdleTask
    Base,          \* uxBasePriority of each task
    Queues,        \* queues and semaphores
    Mutexes,       \* mutexes (sys_mutex_new)
    Length,        \* uxLength of each queue
    IsrQueues,     \* the queues an interrupt posts to
    Sleepers,      \* the tasks that suspend themselves and are resumed by an alarm
    MutexWaits,    \* how long a task may wait for a mutex: sys_mutex_lock has no time-out
    None           \* no task

ASSUME TaskAssumption == Idle \in Tasks /\ None \notin Tasks /\ IsFiniteSet(Tasks)
ASSUME BaseAssumption ==
    /\ Base \in [Tasks -> Nat]
    /\ \A t \in Tasks \ {Idle} : Base[t] > Base[Idle]
ASSUME QueueAssumption == Queues \cap Mutexes = {} /\ IsrQueues \subseteq Queues
ASSUME LengthAssumption == Length \in [Queues -> Nat \ {0}]
ASSUME SleeperAssumption == Sleepers \subseteq Tasks \ {Idle}
ASSUME WaitAssumption == MutexWaits \subseteq {"zero", "forever"}

VARIABLES
    \* the scheduler (tasks.c)
    current,       \* pxCurrentTCB
    suspended,     \* uxSchedulerSuspended
    yieldPending,  \* xYieldPending
    pendSV,        \* the PendSV interrupt is pending
    pendedTicks,   \* uxPendedTicks is not 0
    place,         \* the list a task's xGenericListItem is in
    evt,           \* the list its xEventListItem is in
    prio,          \* uxPriority
    held,          \* uxMutexesHeld
    timer,         \* its TimeOut_t, or its wake time in the delayed list
    \* the queues (queue.c)
    count,         \* uxMessagesWaiting
    holder,        \* pxMutexHolder
    txLock,        \* xTxLock
    \* the tasks
    pc,            \* where in its kernel call a task is
    call,          \* the call it makes
    \* history
    late           \* the tasks an alarm resumed since the last switch

schedVars == <<current, suspended, yieldPending, pendSV, pendedTicks>>
listVars  == <<place, evt>>
prioVars  == <<prio, held>>
queueVars == <<count, holder, txLock>>
callVars  == <<pc, call>>
vars == <<schedVars, listVars, prioVars, timer, queueVars, callVars, late>>

Objects == Queues \cup Mutexes
Size(q) == IF q \in Mutexes THEN 1 ELSE Length[q]

Unlocked == -1
NoCall == [op |-> "none", q |-> None, wait |-> "zero"]
Calls == [op : {"send", "recv"}, q : Objects, wait : {"zero", "timed", "forever"}]
           \cup {NoCall, [NoCall EXCEPT !.op = "delay"], [NoCall EXCEPT !.op = "suspend"]}

InCall(t, op, q) == call[t].op = op /\ call[t].q = q

\* xTasksWaitingToReceive, xTasksWaitingToSend, and the tasks at their head:
\* vListInsert keeps the lists in the order of the priorities.
Waiters(op, q) == {t \in Tasks : evt[t] = "wait" /\ InCall(t, op, q)}
Heads(op, q) == {t \in Waiters(op, q) : \A u \in Waiters(op, q) : prio[u] <= prio[t]}
Ready == {t \in Tasks : place[t] = "ready"}

-------------------------------------------------------------------------------
(* Helpers of tasks.c. *)

\* xTaskRemoveFromEventList of the tasks W: to the ready lists, or to the
\* pending ready list while the scheduler is suspended.
RemoveFromEventList(W) ==
    /\ evt' = [t \in Tasks |-> IF t \notin W THEN evt[t]
                               ELSE IF suspended THEN "pending" ELSE "none"]
    /\ place' = [t \in Tasks |-> IF t \in W /\ ~suspended THEN "ready" ELSE place[t]]

\* Its result, with the running task at priority p.
Outranks_Never(W, p) == FALSE
Outranks(W, p) == \E t \in W : prio[t] > p

\* The priority the running task has once it has given back its last mutex, and
\* the one a mutex holder has while the running task waits (vTaskPriorityInherit).
Disinherited_Never == prio[current]
Disinherited == IF held[current] = 1 THEN Base[current] ELSE prio[current]
Inherit_Never(h) == prio
Inherit(h) ==
    IF h # None /\ prio[h] < prio[current]
    THEN [prio EXCEPT ![h] = prio[current]] ELSE prio

\* xTaskIncrementTick once the timers S have expired, after the tasks P have
\* been moved to the ready lists: a task in the delayed list leaves it, and the
\* event list with it.
Expire(S, P) ==
    /\ S \subseteq {t \in Tasks : timer[t] = "on"}
    /\ timer' = [t \in Tasks |-> IF t \in S THEN "expired" ELSE timer[t]]
    /\ place' = [t \in Tasks |->
                   IF t \in P \/ (t \in S /\ place[t] = "delayed") THEN "ready" ELSE place[t]]
    /\ evt' = [t \in Tasks |->
                 IF t \in P \/ (t \in S /\ place[t] = "delayed") THEN "none" ELSE evt[t]]

\* Its result: a task of the running task's priority or more has been woken, or
\* another one of its priority is ready (time slicing).
TickSwitches(S, P) ==
    LET ready == {t \in Tasks : place'[t] = "ready" /\ prio[t] = prio[current]}
    IN  \/ \E t \in S : t \notin P /\ place[t] = "delayed" /\ prio[t] >= prio[current]
        \/ \E t \in ready : \E u \in ready : t # u

-------------------------------------------------------------------------------
Init ==
    /\ current \in {t \in Tasks : \A u \in Tasks : Base[u] <= Base[t]}
    /\ suspended = FALSE /\ yieldPending = FALSE /\ pendSV = FALSE /\ pendedTicks = FALSE
    /\ place = [t \in Tasks |-> "ready"] /\ evt = [t \in Tasks |-> "none"]
    /\ prio = Base /\ held = [t \in Tasks |-> 0]
    /\ timer = [t \in Tasks |-> "off"]
    /\ count = [q \in Objects |-> IF q \in Mutexes THEN 1 ELSE 0]
    /\ holder = [q \in Mutexes |-> None]
    /\ txLock = [q \in Objects |-> Unlocked]
    /\ pc = [t \in Tasks |-> "user"] /\ call = [t \in Tasks |-> NoCall]
    /\ late = {}

\* The running task executes its next instruction: nothing is pending.
Runs(at) == ~pendSV /\ pc[current] = at
Goto(l) == pc' = [pc EXCEPT ![current] = l]
Here == call[current]

-------------------------------------------------------------------------------
(* Application code: a task makes a call. *)

Enter(c, l) ==
    /\ Runs("user")
    /\ current # Idle
    /\ call' = [call EXCEPT ![current] = c]
    /\ timer' = [timer EXCEPT ![current] = "off"]
    /\ Goto(l)
    /\ UNCHANGED <<schedVars, listVars, prioVars, queueVars, late>>

\* xQueueGenericReceive: a queue, a semaphore, or a mutex it does not hold.
Receive(q, wait) ==
    /\ held[current] = 0
    /\ q \in Mutexes => wait \in MutexWaits
    /\ Enter([op |-> "recv", q |-> q, wait |-> wait], "top")

\* xQueueGenericSend, without a wait while the task holds a mutex.
Send(q, wait) ==
    /\ q \in Queues
    /\ held[current] > 0 => wait = "zero"
    /\ Enter([op |-> "send", q |-> q, wait |-> wait], "top")

\* xSemaphoreGive of the mutex the task holds.
GiveMutex(m) ==
    /\ holder[m] = current
    /\ Enter([op |-> "send", q |-> m, wait |-> "zero"], "top")

\* vTaskDelay.
Delay ==
    /\ held[current] = 0
    /\ Enter([NoCall EXCEPT !.op = "delay"], "suspendAll")

\* vTaskSuspend of the task itself.
Suspend ==
    /\ current \in Sleepers /\ held[current] = 0
    /\ Enter([NoCall EXCEPT !.op = "suspend"], "leave")

\* vTaskResume of a task that has suspended itself.
Resume(t) ==
    /\ Runs("user") /\ current # Idle
    /\ place[t] = "suspended" /\ evt[t] = "none"
    /\ place' = [place EXCEPT ![t] = "ready"]
    /\ pendSV' = (prio[t] >= prio[current])
    /\ UNCHANGED <<current, suspended, yieldPending, pendedTicks, evt, prioVars, timer,
                   queueVars, callVars, late>>

-------------------------------------------------------------------------------
(* The loop of xQueueGenericSend and xQueueGenericReceive. *)

\* The call returns.
Leave ==
    /\ pc' = [pc EXCEPT ![current] = "user"]
    /\ call' = [call EXCEPT ![current] = NoCall]

\* There is something to receive: take it, and wake a task that waits to send.
TakeItem ==
    LET q == Here.q IN
    /\ Runs("top") /\ Here.op = "recv"
    /\ count[q] > 0
    /\ count' = [count EXCEPT ![q] = @ - 1]
    /\ IF q \in Mutexes
       THEN /\ holder' = [holder EXCEPT ![q] = current]
            /\ held' = [held EXCEPT ![current] = @ + 1]
       ELSE UNCHANGED <<holder, held>>
    /\ IF Waiters("send", q) = {}
       THEN UNCHANGED <<listVars, yieldPending, pendSV>>
       ELSE \E t \in Heads("send", q) :
              /\ RemoveFromEventList({t})
              /\ yieldPending' = (yieldPending \/ Outranks({t}, prio[current]))
              /\ pendSV' = Outranks({t}, prio[current])
    /\ timer' = [timer EXCEPT ![current] = "off"]
    /\ Leave
    /\ UNCHANGED <<current, suspended, pendedTicks, prio, txLock, late>>

\* There is room to send: a mutex holder loses what it inherited, and a task
\* that waits to receive is woken.
PutItem ==
    LET q == Here.q
        p == IF q \in Mutexes THEN Disinherited ELSE prio[current] IN
    /\ Runs("top") /\ Here.op = "send"
    /\ count[q] < Size(q)
    /\ count' = [count EXCEPT ![q] = @ + 1]
    /\ prio' = [prio EXCEPT ![current] = p]
    /\ IF q \in Mutexes
       THEN /\ holder' = [holder EXCEPT ![q] = None]
            /\ held' = [held EXCEPT ![current] = @ - 1]
       ELSE UNCHANGED <<holder, held>>
    /\ IF Waiters("recv", q) = {}
       THEN /\ UNCHANGED <<listVars, yieldPending>>
            /\ pendSV' = (p # prio[current])
       ELSE \E t \in Heads("recv", q) :
              /\ RemoveFromEventList({t})
              /\ yieldPending' = (yieldPending \/ Outranks({t}, p))
              /\ pendSV' = Outranks({t}, p)
    /\ timer' = [timer EXCEPT ![current] = "off"]
    /\ Leave
    /\ UNCHANGED <<current, suspended, pendedTicks, txLock, late>>

Blocks == IF Here.op = "recv" THEN count[Here.q] = 0 ELSE count[Here.q] = Size(Here.q)

\* Nothing to receive or no room: without a wait the call fails, otherwise the
\* time of entry is set once and the task is going to block.
FindNothing ==
    /\ Runs("top")
    /\ Blocks
    /\ IF Here.wait = "zero"
       THEN Leave /\ UNCHANGED timer
       ELSE /\ Goto("suspendAll") /\ UNCHANGED call
            /\ timer' = IF Here.wait = "timed" /\ timer[current] = "off"
                        THEN [timer EXCEPT ![current] = "on"] ELSE timer
    /\ UNCHANGED <<schedVars, listVars, prioVars, queueVars, late>>

\* vTaskSuspendAll.
SuspendAll ==
    /\ Runs("suspendAll")
    /\ suspended' = TRUE
    /\ Goto(IF Here.op = "delay" THEN "place" ELSE "lock")
    /\ UNCHANGED <<current, yieldPending, pendSV, pendedTicks, listVars, prioVars, timer,
                   queueVars, call, late>>

\* prvLockQueue.
LockQueue ==
    /\ Runs("lock")
    /\ txLock' = [txLock EXCEPT ![Here.q] = 0]
    /\ Goto("check")
    /\ UNCHANGED <<schedVars, listVars, prioVars, timer, count, holder, call, late>>

\* xTaskCheckForTimeOut.
TimedOut_Never == FALSE
TimedOut == timer[current] = "expired"
CheckForTimeOut ==
    /\ Runs("check")
    /\ Goto(IF TimedOut THEN "unlock" ELSE "test")
    /\ UNCHANGED <<schedVars, listVars, prioVars, timer, queueVars, call, late>>

\* prvIsQueueEmpty or prvIsQueueFull: an interrupt may have posted meanwhile.
StillBlocks_NoTest == TRUE
StillBlocks == Blocks
TestAgain ==
    /\ Runs("test")
    /\ Goto(IF ~StillBlocks THEN "unlock"
            ELSE IF Here.op = "recv" /\ Here.q \in Mutexes THEN "inherit" ELSE "place")
    /\ UNCHANGED <<schedVars, listVars, prioVars, timer, queueVars, call, late>>

\* vTaskPriorityInherit.
InheritPriority ==
    /\ Runs("inherit")
    /\ prio' = Inherit(holder[Here.q])
    /\ Goto("place")
    /\ UNCHANGED <<schedVars, listVars, held, timer, queueVars, call, late>>

\* vTaskPlaceOnEventList, or the body of vTaskDelay.
PlaceOnEventList ==
    /\ Runs("place")
    /\ evt' = IF Here.op = "delay" THEN evt ELSE [evt EXCEPT ![current] = "wait"]
    /\ place' = [place EXCEPT ![current] =
                   IF Here.op = "delay" \/ Here.wait = "timed" THEN "delayed" ELSE "suspended"]
    /\ timer' = IF Here.op = "delay" THEN [timer EXCEPT ![current] = "on"] ELSE timer
    /\ Goto(IF Here.op = "delay" THEN "resumeAll" ELSE "unlock")
    /\ UNCHANGED <<schedVars, prioVars, queueVars, call, late>>

\* prvUnlockQueue: for every post counted while the queue was locked, wake a
\* waiting task, those of the highest priority first.
LockedPosts_Forgotten(q) == 0
LockedPosts(q) == txLock[q]
UnlockQueue ==
    LET q == Here.q
        waiting == Waiters("recv", q) IN
    /\ Runs("unlock")
    /\ \E W \in SUBSET waiting :
         /\ \A t \in W, u \in waiting \ W : prio[u] <= prio[t]
         /\ \/ Cardinality(W) = LockedPosts(q)
            \/ W = waiting /\ Cardinality(W) < LockedPosts(q)
         /\ RemoveFromEventList(W)
         /\ yieldPending' = (yieldPending \/ Outranks(W, prio[current]))
    /\ txLock' = [txLock EXCEPT ![q] = Unlocked]
    /\ Goto("resumeAll")
    /\ UNCHANGED <<current, suspended, pendSV, pendedTicks, prioVars, timer, count, holder,
                   call, late>>

\* xTaskResumeAll: the pending tasks become ready, the ticks that were held
\* back are counted, and the pending yield is made.  The task then yields
\* itself if it has put itself to sleep, tries again, or gives up.
PendingReady_Forgotten == {}
PendingReady == {t \in Tasks : evt[t] = "pending"}
ResumeAll(S) ==
    LET P == PendingReady IN
    /\ Runs("resumeAll")
    /\ ~pendedTicks => S = {}
    /\ Expire(S, P)
    /\ LET yields == \/ yieldPending
                     \/ \E t \in P : prio[t] >= prio[current]
                     \/ pendedTicks /\ TickSwitches(S, P)
           slept  == place[current] # "ready" IN
       /\ yieldPending' = yields
       /\ pendSV' = yields
       /\ IF slept /\ ~yields THEN Goto("yield") /\ UNCHANGED call
          ELSE IF IF slept THEN Here.op = "delay" ELSE timer[current] = "expired"
          THEN Leave
          ELSE Goto("top") /\ UNCHANGED call
    /\ suspended' = FALSE /\ pendedTicks' = FALSE
    /\ UNCHANGED <<current, prioVars, queueVars, late>>

\* portYIELD_WITHIN_API.
Yield ==
    /\ Runs("yield")
    /\ pendSV' = TRUE
    /\ IF Here.op \in {"delay", "suspend"} THEN Leave ELSE Goto("top") /\ UNCHANGED call
    /\ UNCHANGED <<current, suspended, yieldPending, pendedTicks, listVars, prioVars, timer,
                   queueVars, late>>

\* vTaskSuspend: out of the ready list.
LeaveReadyList ==
    /\ Runs("leave")
    /\ place' = [place EXCEPT ![current] = "suspended"]
    /\ Goto("yield")
    /\ UNCHANGED <<schedVars, evt, prioVars, timer, queueVars, call, late>>

-------------------------------------------------------------------------------
(* Interrupts. *)

\* vTaskSwitchContext, in the PendSV handler.
SwitchContext ==
    /\ pendSV
    /\ pendSV' = FALSE
    /\ yieldPending' = suspended
    /\ IF suspended
       THEN UNCHANGED <<current, late>>
       ELSE /\ \E t \in Ready : (\A u \in Ready : prio[u] <= prio[t]) /\ current' = t
            /\ late' = {}
    /\ UNCHANGED <<suspended, pendedTicks, listVars, prioVars, timer, queueVars, callVars>>

\* SysTick_Handler.
Tick(S) ==
    /\ IF suspended
       THEN /\ S = {}
            /\ pendedTicks' = TRUE
            /\ pendSV' = (pendSV \/ yieldPending)
            /\ UNCHANGED <<listVars, timer>>
       ELSE /\ Expire(S, {})
            /\ pendSV' = (pendSV \/ yieldPending \/ TickSwitches(S, {}))
            /\ UNCHANGED pendedTicks
    /\ UNCHANGED <<current, suspended, yieldPending, prioVars, queueVars, callVars, late>>

\* xQueueGenericSendFromISR and xQueueGiveFromISR, and portYIELD_FROM_ISR: the
\* lists of a locked queue are left alone and the post is counted.
SendFromISR(q) ==
    /\ count[q] < Size(q)
    /\ count' = [count EXCEPT ![q] = @ + 1]
    /\ IF txLock[q] # Unlocked
       THEN txLock' = [txLock EXCEPT ![q] = @ + 1] /\ UNCHANGED <<listVars, yieldPending, pendSV>>
       ELSE /\ UNCHANGED txLock
            /\ IF Waiters("recv", q) = {} THEN UNCHANGED <<listVars, yieldPending, pendSV>>
               ELSE \E t \in Heads("recv", q) :
                      /\ RemoveFromEventList({t})
                      /\ yieldPending' = (yieldPending \/ Outranks({t}, prio[current]))
                      /\ pendSV' = (pendSV \/ Outranks({t}, prio[current]))
    /\ UNCHANGED <<current, suspended, pendedTicks, prioVars, timer, holder, callVars, late>>

\* xTaskResumeFromISR in the handler of the clock's alarm, which ignores the
\* result: no switch is asked for.  A task that has not suspended itself, or is
\* blocked in a call, is left alone.
ResumeFromISR(t) ==
    /\ place[t] = "suspended" /\ evt[t] = "none"
    /\ IF suspended
       THEN evt' = [evt EXCEPT ![t] = "pending"] /\ UNCHANGED <<place, late>>
       ELSE /\ place' = [place EXCEPT ![t] = "ready"] /\ UNCHANGED evt
            /\ late' = late \cup {t}
    /\ UNCHANGED <<schedVars, prioVars, timer, queueVars, callVars>>

-------------------------------------------------------------------------------
CallStep == \/ \E q \in Objects, wait \in {"zero", "timed", "forever"} : Receive(q, wait) \/ Send(q, wait)
            \/ \E m \in Mutexes : GiveMutex(m)
            \/ Delay \/ Suspend \/ \E t \in Sleepers : Resume(t)
KernelStep == \/ TakeItem \/ PutItem \/ FindNothing \/ SuspendAll \/ LockQueue
              \/ CheckForTimeOut \/ TestAgain \/ InheritPriority \/ PlaceOnEventList
              \/ UnlockQueue \/ (\E S \in SUBSET Tasks : ResumeAll(S)) \/ Yield
              \/ LeaveReadyList
Interrupt == \/ \E S \in SUBSET Tasks : Tick(S)
             \/ \E q \in IsrQueues : SendFromISR(q)
             \/ \E t \in Sleepers : ResumeFromISR(t)

Next == CallStep \/ KernelStep \/ SwitchContext \/ Interrupt

Spec == Init /\ [][Next]_vars

\* The tasks no other one of their priority competes with, nor a higher one.
Top == {t \in Tasks : \A u \in Tasks \ {t} : Base[u] < Base[t]}

\* Between interrupts the processor gets on with a kernel call, a pending switch
\* is made, time passes, and a task does not keep a mutex for ever.
Fairness ==
    /\ SF_vars(KernelStep)
    /\ SF_vars(\E m \in Mutexes : GiveMutex(m))
    /\ WF_vars(SwitchContext)
    /\ SF_vars(~suspended /\ \E S \in SUBSET Tasks : Top \subseteq S /\ Tick(S))

FairSpec == Spec /\ Fairness

-------------------------------------------------------------------------------
(* Properties. *)

\* Every variable stays in its type.
TypeOK ==
    /\ current \in Tasks
    /\ suspended \in BOOLEAN /\ yieldPending \in BOOLEAN
    /\ pendSV \in BOOLEAN /\ pendedTicks \in BOOLEAN
    /\ place \in [Tasks -> {"ready", "delayed", "suspended"}]
    /\ evt \in [Tasks -> {"none", "wait", "pending"}]
    /\ prio \in [Tasks -> Nat] /\ held \in [Tasks -> Nat]
    /\ timer \in [Tasks -> {"off", "on", "expired"}]
    /\ count \in [Objects -> Nat] /\ \A q \in Objects : count[q] <= Size(q)
    /\ holder \in [Mutexes -> Tasks \cup {None}]
    /\ txLock \in [Objects -> Nat \cup {Unlocked}]
    /\ pc \in [Tasks -> {"user", "top", "suspendAll", "lock", "check", "test", "inherit",
                          "place", "unlock", "resumeAll", "yield", "leave"}]
    /\ call \in [Tasks -> Calls]
    /\ late \subseteq Tasks

\* The tasks that are on their way to look at a queue again.
Retrying(op, q) ==
    {t \in Tasks : /\ InCall(t, op, q) /\ evt[t] # "wait"
                   /\ \/ pc[t] \in {"top", "yield"}
                      \/ pc[t] \in {"unlock", "resumeAll"} /\ place[t] # "ready"}

\* No wake-up is lost: while tasks are blocked in a receive, every item of the
\* queue is covered by a task that is about to look again, or by a post the
\* locked queue still remembers; and every free place is covered in the same
\* way while tasks are blocked in a send.  Posts from interrupts between the
\* test of the queue and the wait are covered by this.
NoLostWakeup ==
    \A q \in Objects :
        /\ Waiters("recv", q) # {} =>
              count[q] <= Cardinality(Retrying("recv", q))
                          + (IF txLock[q] = Unlocked THEN 0 ELSE txLock[q])
        /\ Waiters("send", q) # {} =>
              Size(q) - count[q] <= Cardinality(Retrying("send", q))

\* Whenever the scheduler is not held back and no switch is about to be made,
\* the running task is ready and no other ready task has a higher priority,
\* those an alarm has just resumed excepted.
RunsHighest ==
    ~suspended /\ ~pendSV /\ pc[current] # "yield" =>
        /\ place[current] = "ready"
        /\ \A t \in Ready \ late : prio[t] <= prio[current]

\* A task waits in a queue's list only out of the ready lists, and the pending
\* ready list is empty once the scheduler is resumed.
ListsAgree ==
    \A t \in Tasks :
        /\ evt[t] # "none" => place[t] # "ready"
        /\ evt[t] = "pending" => suspended

\* A mutex is available exactly when nobody holds it, its holder runs at least
\* at the priority of everyone who waits for it, and a task that holds none has
\* its own priority again.
MutexInherits ==
    /\ \A m \in Mutexes :
         /\ count[m] = 1 <=> holder[m] = None
         /\ \A t \in Waiters("recv", m) : holder[m] # None => prio[t] <= prio[holder[m]]
    /\ \A t \in Tasks : held[t] = 0 => prio[t] = Base[t]

\* Priority inversion is bounded: a task of the highest priority that waits for
\* a mutex gets it, although tasks of a middle priority may run for ever.
NoInversion ==
    \A t \in Top, m \in Mutexes :
        InCall(t, "recv", m) /\ call[t].wait = "forever" ~> holder[m] = t

\* A call of such a task that has a time-out returns.
TimedReturns ==
    \A t \in Top : call[t].wait = "timed" ~> pc[t] = "user"

===============================================================================

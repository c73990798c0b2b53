-------------------------------- MODULE Syslog --------------------------------
(***************************************************************************)
(* The syslog client, syslog.c: syslogSend links a message to a list that  *)
(* syslogTask empties.  Neither takes a lock, so that every access to the  *)
(* list (first, curwp, message, the _next fields) is a step of its own.    *)
(* Between two calls the compiler keeps what it has read of a static       *)
(* variable in a register, as the build's -Os allows.                      *)
(*                                                                         *)
(* A message is its number; its text lives and dies with its structure.    *)
(***************************************************************************)
EXTENDS Naturals, Sequences

CONSTANTS
    Senders,     \* the tasks that call syslogSend
    Blocks,      \* the memory for syslogmsg_t
    NULL,        \* the NULL pointer
    Junk,        \* a pointer that is neither NULL nor a message
    MaxMsgs,     \* bound: how many times syslogSend is called
    OtherUsers   \* whether other tasks use the same memory

ASSUME SyslogPointers == NULL \notin Blocks /\ Junk \notin Blocks /\ NULL # Junk
ASSUME SyslogBounds == MaxMsgs \in Nat /\ OtherUsers \in BOOLEAN

VARIABLES
    \* the static variables
    message, curwp, first,
    handle,      \* syslogHandle # NULL
    \* memory
    use,         \* what a block is used for
    next,        \* its _next field
    text,        \* the message it holds
    \* syslogSend, one per sender
    sendPc, num, \* where it is, and the number of its message
    sendMsg, sendCur,   \* its registers with message and curwp
    sendCalls,
    \* syslogTask
    taskPc, tmp,
    nx,          \* its register with first->_next
    sentMsgs     \* the messages sent, in order

memVars  == <<use, next, text>>
sendVars == <<sendPc, num, sendMsg, sendCur, sendCalls>>
taskVars == <<taskPc, tmp, nx, sentMsgs>>
syslogVars == <<message, curwp, first, handle, memVars, sendVars, taskVars>>

SyslogInit ==
    /\ message = NULL /\ curwp = NULL /\ first = NULL /\ handle = FALSE
    /\ use = [b \in Blocks |-> "free"] /\ next = [b \in Blocks |-> Junk] /\ text = [b \in Blocks |-> 0]
    /\ sendPc = [s \in Senders |-> "idle"] /\ num = [s \in Senders |-> 0]
    /\ sendMsg = [s \in Senders |-> NULL] /\ sendCur = [s \in Senders |-> NULL]
    /\ sendCalls = 0
    /\ taskPc = "none" /\ tmp = NULL /\ nx = NULL /\ sentMsgs = <<>>

-------------------------------------------------------------------------------
(* syslogInit: sys_thread_new creates the task, which may run at once, and   *)
(* then the handle is stored.                                                *)
CreateTask ==
    /\ taskPc = "none"
    /\ taskPc' = "start"
    /\ UNCHANGED <<message, curwp, first, handle, memVars, sendVars, tmp, nx, sentMsgs>>
StoreHandle ==
    /\ taskPc # "none" /\ ~handle
    /\ handle' = TRUE
    /\ UNCHANGED <<message, curwp, first, memVars, sendVars, taskVars>>

-------------------------------------------------------------------------------
(* syslogSend. *)

Moves(s, from, to) == sendPc[s] = from /\ sendPc' = [sendPc EXCEPT ![s] = to]

\* Allocate the message.  Without a handle nothing happens; without memory for
\* the message the task is resumed all the same.
SendBegin(s) ==
    /\ sendCalls < MaxMsgs
    /\ sendCalls' = sendCalls + 1
    /\ num' = [num EXCEPT ![s] = sendCalls']
    /\ \/ /\ ~handle
          /\ UNCHANGED <<sendPc, message, use>> /\ sendPc[s] = "idle"
       \/ \E b \in Blocks :
             /\ handle /\ use[b] = "free"
             /\ Moves(s, "idle", "fill")
             /\ message' = b /\ use' = [use EXCEPT ![b] = "message"]
       \/ /\ handle /\ \A b \in Blocks : use[b] # "free"
          /\ Moves(s, "idle", "resume")
          /\ message' = NULL
          /\ UNCHANGED use
    /\ UNCHANGED <<curwp, first, handle, next, text, sendMsg, sendCur, taskVars>>

\* Fill in the message that `message` names by now: _next, text and size.
SendFill(s) ==
    /\ Moves(s, "fill", IF message = NULL THEN "fault" ELSE "link")
    /\ IF message = NULL
       THEN UNCHANGED <<next, text>>
       ELSE /\ next' = [next EXCEPT ![message] = NULL]
            /\ text' = [text EXCEPT ![message] = num[s]]
    /\ UNCHANGED <<message, curwp, first, handle, use, num, sendMsg, sendCur, sendCalls, taskVars>>

\* if(curwp != NULL)
SendLink(s) ==
    /\ Moves(s, "link", IF curwp # NULL THEN "append" ELSE "first")
    /\ sendMsg' = [sendMsg EXCEPT ![s] = message] /\ sendCur' = [sendCur EXCEPT ![s] = curwp]
    /\ UNCHANGED <<message, curwp, first, handle, memVars, num, sendCalls, taskVars>>

\* curwp->_next = message, wherever curwp pointed.
SendAppend(s) ==
    /\ Moves(s, "append", "advance")
    /\ next' = [next EXCEPT ![sendCur[s]] = sendMsg[s]]
    /\ UNCHANGED <<message, curwp, first, handle, use, text, num, sendMsg, sendCur, sendCalls, taskVars>>

\* curwp = message; curwp->_next = NULL
SendAdvance(s) ==
    /\ Moves(s, "advance", "resume")
    /\ curwp' = sendMsg[s]
    /\ next' = [next EXCEPT ![sendMsg[s]] = NULL]
    /\ UNCHANGED <<message, first, handle, use, text, num, sendMsg, sendCur, sendCalls, taskVars>>

\* first = message, then curwp = first
SendFirst(s) ==
    /\ Moves(s, "first", "current")
    /\ first' = sendMsg[s]
    /\ UNCHANGED <<message, curwp, handle, memVars, num, sendMsg, sendCur, sendCalls, taskVars>>
SendCurrent(s) ==
    /\ Moves(s, "current", "resume")
    /\ curwp' = sendMsg[s]
    /\ UNCHANGED <<message, first, handle, memVars, num, sendMsg, sendCur, sendCalls, taskVars>>

\* vTaskResume: no effect on a task that is not suspended.
SendResume(s) ==
    /\ Moves(s, "resume", "idle")
    /\ taskPc' = IF taskPc = "suspended" THEN "test" ELSE taskPc
    /\ UNCHANGED <<message, curwp, first, handle, memVars, num, sendMsg, sendCur, sendCalls, tmp, nx, sentMsgs>>

Send(s) == \/ SendFill(s) \/ SendLink(s) \/ SendAppend(s) \/ SendAdvance(s)
           \/ SendFirst(s) \/ SendCurrent(s) \/ SendResume(s)

-------------------------------------------------------------------------------
(* syslogTask. *)

Goes(from, to) == taskPc = from /\ taskPc' = to

TaskStart ==
    /\ Goes("start", "test")
    /\ first' = NULL /\ curwp' = NULL
    /\ UNCHANGED <<message, handle, memVars, sendVars, tmp, nx, sentMsgs>>

TaskTest ==
    /\ Goes("test", IF first # NULL THEN "take" ELSE "suspend")
    /\ UNCHANGED <<message, curwp, first, handle, memVars, sendVars, tmp, nx, sentMsgs>>

\* tmp = first, and the test of first->text: a bad pointer is a fault.
TaskTake ==
    /\ Goes("take", IF first \in Blocks THEN "send" ELSE "fault")
    /\ tmp' = first
    /\ UNCHANGED <<message, curwp, first, handle, memVars, sendVars, nx, sentMsgs>>

\* Open a connection and send the text, or fail to; free the text.
TaskSend ==
    /\ Goes("send", "read")
    /\ \/ sentMsgs' = Append(sentMsgs, text[first])
       \/ sentMsgs' = sentMsgs
    /\ UNCHANGED <<message, curwp, first, handle, memVars, sendVars, tmp, nx>>

\* first = first->_next: the read, then the write.
TaskRead ==
    /\ Goes("read", "write")
    /\ nx' = next[first]
    /\ UNCHANGED <<message, curwp, first, handle, memVars, sendVars, tmp, sentMsgs>>
TaskWrite_Forgotten ==
    /\ Goes("write", "free")
    /\ first' = IF nx # NULL THEN first ELSE nx
    /\ UNCHANGED <<message, curwp, handle, memVars, sendVars, tmp, nx, sentMsgs>>
TaskWrite ==
    /\ Goes("write", "free")
    /\ first' = nx
    /\ UNCHANGED <<message, curwp, handle, memVars, sendVars, tmp, nx, sentMsgs>>

\* mem_free(tmp)
TaskFree_NewHead ==
    /\ Goes("free", "clear")
    /\ use' = IF first = NULL THEN use ELSE [use EXCEPT ![first] = "free"]
    /\ UNCHANGED <<message, curwp, first, handle, next, text, sendVars, tmp, nx, sentMsgs>>
TaskFree ==
    /\ Goes("free", "clear")
    /\ use' = [use EXCEPT ![tmp] = "free"]
    /\ UNCHANGED <<message, curwp, first, handle, next, text, sendVars, tmp, nx, sentMsgs>>

\* if(first == NULL) curwp = NULL, and vTaskDelay
TaskClear ==
    /\ Goes("clear", "again")
    /\ curwp' = IF first = NULL THEN NULL ELSE curwp
    /\ UNCHANGED <<message, first, handle, memVars, sendVars, tmp, nx, sentMsgs>>

\* while(tmp->_next != NULL): of the structure it has just freed
TaskAgain ==
    /\ Goes("again", IF next[tmp] # NULL THEN "take" ELSE "suspend")
    /\ UNCHANGED <<message, curwp, first, handle, memVars, sendVars, tmp, nx, sentMsgs>>

TaskSuspend ==
    /\ Goes("suspend", "suspended")
    /\ UNCHANGED <<message, curwp, first, handle, memVars, sendVars, tmp, nx, sentMsgs>>

Task == \/ TaskStart \/ TaskTest \/ TaskTake \/ TaskSend \/ TaskRead \/ TaskWrite
        \/ TaskFree \/ TaskClear \/ TaskAgain \/ TaskSuspend

-------------------------------------------------------------------------------
\* Another user of the heap gets a block and writes to it, or gives it back.
OtherTakes(b, v) ==
    /\ OtherUsers /\ use[b] = "free"
    /\ use' = [use EXCEPT ![b] = "other"] /\ next' = [next EXCEPT ![b] = v]
    /\ UNCHANGED <<message, curwp, first, handle, text, sendVars, taskVars>>
OtherFrees(b) ==
    /\ use[b] = "other"
    /\ use' = [use EXCEPT ![b] = "free"]
    /\ UNCHANGED <<message, curwp, first, handle, next, text, sendVars, taskVars>>

SyslogNext == \/ CreateTask \/ StoreHandle
        \/ \E s \in Senders : SendBegin(s) \/ Send(s)
        \/ Task
        \/ \E b \in Blocks : OtherFrees(b) \/ \E v \in {NULL, Junk} : OtherTakes(b, v)

SyslogSpec == SyslogInit /\ [][SyslogNext]_syslogVars

-------------------------------------------------------------------------------
(* Properties. *)

\* With one sender, whatever the unlocked list goes through, messages are sent
\* in the order of the calls and none is sent twice.
SentInOrder == \A i, j \in 1 .. Len(sentMsgs) : i < j => sentMsgs[i] < sentMsgs[j]

\* With one sender, the task frees only messages, each once: what it frees is
\* not free and does not belong to another task.
FreesItsOwn == taskPc = "free" => use[tmp] = "message"
===============================================================================

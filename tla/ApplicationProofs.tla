--------------------------- MODULE ApplicationProofs ---------------------------
(***************************************************************************)
(* Proofs about the two clients among the applications.                    *)
(*                                                                         *)
(* The first part is about Syslog with one sender, for any memory, any     *)
(* number of calls and whatever other tasks do with freed blocks.  The     *)
(* list as a whole can be broken: its tail may name a freed block, a       *)
(* message appended there is lost, and the sender may write to what it no  *)
(* longer owns.  What survives is local: _next of a message leads to a     *)
(* later message or nowhere, and no two lead to the same one, so that what *)
(* the task takes from the head comes in order and is led to by no other.  *)
(*                                                                         *)
(* The second part is about FtpClient, for any number of calls and however *)
(* the server spreads its replies over segments: a client that moves a     *)
(* file has been told to, in a session it is logged in to, and ftp_put     *)
(* that has sent its data returns ERR_OK only for a file that is stored;   *)
(* unless a digit in mid-line, where TCP has cut a reply, was read as      *)
(* consent.  A client that is not misled may be behind in the dialogue,    *)
(* never ahead of it: replies wait in the order of the commands they       *)
(* answer (Fifo), and each test on the way can be passed only by the reply *)
(* it is meant for, or by one that came of it (Login, File).               *)
(***************************************************************************)
EXTENDS Syslog, FtpClient, SequenceTheorems, TLAPS

-------------------------------------------------------------------------------
(* Syslog. *)

SendPcs == {"idle", "fill", "link", "append", "advance", "first", "current", "resume", "fault"}

\* The blocks that hold a message, and those of them whose _next field is good:
\* not the one the sender is about to fill, and not the one it has linked to
\* itself, which happens when curwp names a block that was freed and allocated
\* again, and lasts until the next statement.
Live == {b \in Blocks : use[b] = "message"}
Exempt(s) ==
    {b \in Live : \/ sendPc[s] = "fill" /\ b = message
                  \/ sendPc[s] = "advance" /\ b = sendMsg[s] /\ next[b] = b}
Linked(s) == Live \ Exempt(s)

\* The sender has a filled message that is not in the list.
InHand(s) == sendPc[s] \in {"link", "append", "first"}
Hand(s) == {b \in {message} : InHand(s)}

SyslogTypes ==
    /\ message \in Blocks \cup {NULL} /\ curwp \in Blocks \cup {NULL} /\ first \in Blocks \cup {NULL}
    /\ next \in [Blocks -> Blocks \cup {NULL, Junk}] /\ text \in [Blocks -> Nat]
    /\ use \in [Blocks -> {"free", "message", "other"}]
    /\ sendPc \in [Senders -> SendPcs]
    /\ sendMsg \in [Senders -> Blocks \cup {NULL}] /\ sendCur \in [Senders -> Blocks \cup {NULL}]
    /\ num \in [Senders -> Nat] /\ sendCalls \in Nat /\ sentMsgs \in Seq(Nat)

\* What the sender holds in its registers.
Registers(s) ==
    /\ sendPc[s] \in {"fill", "link", "append", "first"} => message \in Live
    /\ sendPc[s] \in {"append", "first", "advance", "current"} => sendMsg[s] = message /\ message \in Blocks
    /\ sendPc[s] = "append" => sendCur[s] \in Blocks
    /\ sendPc[s] = "first" => curwp = NULL

\* The list: _next leads to a later message, by one way only.
Later(s) ==
    \A b \in Linked(s) :
        next[b] # NULL => next[b] \in Linked(s) \ Hand(s) /\ text[b] < text[next[b]]
OneWay(s) == \A a, b \in Linked(s) : next[a] = next[b] /\ next[a] # NULL => a = b

\* The message in hand is the latest of all.
Latest(s) ==
    /\ num[s] <= sendCalls
    /\ \A b \in Live : ~(sendPc[s] = "fill" /\ b = message) => text[b] <= sendCalls
    /\ \A i \in 1 .. Len(sentMsgs) : sentMsgs[i] <= sendCalls
    /\ sendPc[s] = "fill" => /\ \A b \in Live \ {message} : text[b] < num[s]
                             /\ \A i \in 1 .. Len(sentMsgs) : sentMsgs[i] < num[s]
    /\ InHand(s) => /\ text[message] = num[s] /\ next[message] = NULL
                    /\ \A b \in Live \ {message} : text[b] < num[s]
                    /\ \A i \in 1 .. Len(sentMsgs) : sentMsgs[i] < num[s]

\* The list's head: nothing leads to it but the message the task is about to free.
Front(s) ==
    /\ first # NULL => first \in Linked(s) \ Hand(s)
    /\ first # NULL => \A b \in Linked(s) : next[b] = first => taskPc = "free" /\ b = tmp
    /\ curwp = NULL /\ first # NULL => sendPc[s] = "current"

\* What the task holds.
Holds(s) ==
    /\ taskPc \in {"send", "read", "write"} => tmp = first /\ first # NULL
    /\ taskPc = "write" /\ nx # NULL =>
          /\ nx \in Linked(s) \ Hand(s) /\ text[tmp] < text[nx]
          /\ \A b \in Linked(s) : next[b] = nx => b = tmp
    /\ taskPc = "free" =>
          /\ tmp \in Linked(s) \ Hand(s) /\ tmp # first
          /\ \A b \in Linked(s) : next[b] # tmp

\* What was sent comes before what is in the list.
Past ==
    /\ SentInOrder
    /\ taskPc \in {"read", "write"} => \A i \in 1 .. Len(sentMsgs) : sentMsgs[i] <= text[tmp]
    /\ taskPc \notin {"read", "write"} /\ first # NULL =>
           \A i \in 1 .. Len(sentMsgs) : sentMsgs[i] < text[first]

SyslogInv(s) ==
    SyslogTypes /\ Registers(s) /\ Later(s) /\ OneWay(s) /\ Latest(s) /\ Front(s) /\ Holds(s) /\ Past

-------------------------------------------------------------------------------
(* One lemma for each action. *)

LEMMA CreateTaskKeeps ==
  ASSUME NEW s, Senders = {s}, SyslogInv(s), CreateTask
  PROVE  SyslogInv(s)'
  <1>1. SyslogTypes'
    BY DEF SyslogInv, SyslogTypes, SendPcs, CreateTask, memVars, sendVars
  <1>2. Registers(s)'
    BY DEF SyslogInv, Registers, Live, CreateTask, memVars, sendVars
  <1>3. Later(s)'
    BY DEF SyslogInv, Later, Live, Exempt, Linked, InHand, Hand, CreateTask, memVars, sendVars
  <1>4. OneWay(s)'
    BY DEF SyslogInv, OneWay, Live, Exempt, Linked, CreateTask, memVars, sendVars
  <1>5. Latest(s)'
    BY DEF SyslogInv, Latest, Live, InHand, CreateTask, memVars, sendVars
  <1>6. Front(s)'
    BY DEF SyslogInv, Front, Live, Exempt, Linked, InHand, Hand, CreateTask, memVars, sendVars
  <1>7. Holds(s)'
    BY DEF SyslogInv, Holds, CreateTask, memVars, sendVars
  <1>8. Past'
    BY DEF SyslogInv, Past, SentInOrder, CreateTask, memVars, sendVars
  <1> QED
    BY <1>1, <1>2, <1>3, <1>4, <1>5, <1>6, <1>7, <1>8 DEF SyslogInv

LEMMA StoreHandleKeeps ==
  ASSUME NEW s, Senders = {s}, SyslogInv(s), StoreHandle
  PROVE  SyslogInv(s)'
  <1>1. SyslogTypes'
    BY DEF SyslogInv, SyslogTypes, SendPcs, StoreHandle, memVars, sendVars, taskVars
  <1>2. Registers(s)'
    BY DEF SyslogInv, Registers, Live, StoreHandle, memVars, sendVars, taskVars
  <1>3. Later(s)'
    BY DEF SyslogInv, Later, Live, Exempt, Linked, InHand, Hand, StoreHandle, memVars, sendVars, taskVars
  <1>4. OneWay(s)'
    BY DEF SyslogInv, OneWay, Live, Exempt, Linked, StoreHandle, memVars, sendVars, taskVars
  <1>5. Latest(s)'
    BY DEF SyslogInv, Latest, Live, InHand, StoreHandle, memVars, sendVars, taskVars
  <1>6. Front(s)'
    BY DEF SyslogInv, Front, Live, Exempt, Linked, InHand, Hand, StoreHandle, memVars, sendVars, taskVars
  <1>7. Holds(s)'
    BY DEF SyslogInv, Holds, Live, Exempt, Linked, InHand, Hand, StoreHandle, memVars, sendVars, taskVars
  <1>8. Past'
    BY DEF SyslogInv, Past, SentInOrder, StoreHandle, memVars, sendVars, taskVars
  <1> QED
    BY <1>1, <1>2, <1>3, <1>4, <1>5, <1>6, <1>7, <1>8 DEF SyslogInv

\* The message in hand gets a number above all others.
LEMMA SendBeginKeeps ==
  ASSUME NEW s, Senders = {s}, SyslogInv(s), SendBegin(s)
  PROVE  SyslogInv(s)'
  <1>1. SyslogTypes'
    <2>1. sendCalls' \in Nat /\ sendCalls' = sendCalls + 1
      BY DEF SendBegin, SyslogInv, SyslogTypes
    <2>2. num' \in [Senders -> Nat]
      BY <2>1 DEF SendBegin, SyslogInv, SyslogTypes
    <2>3. /\ message' \in Blocks \cup {NULL} /\ use' \in [Blocks -> {"free", "message", "other"}]
          /\ sendPc' \in [Senders -> SendPcs]
      BY DEF SendBegin, Moves, SyslogInv, SyslogTypes, SendPcs
    <2> QED
      BY <2>1, <2>2, <2>3 DEF SendBegin, SyslogInv, SyslogTypes, taskVars
  <1>2. Registers(s)'
    BY DEF SyslogInv, SyslogTypes, Registers, Live, SendBegin, Moves, taskVars
  <1>3. Later(s)'
    BY DEF SyslogInv, SyslogTypes, Later, Live, Exempt, Linked, InHand, Hand, SendBegin, Moves, taskVars
  <1>4. OneWay(s)'
    BY DEF SyslogInv, SyslogTypes, OneWay, Live, Exempt, Linked, SendBegin, Moves, taskVars
  <1>5. Latest(s)'
    BY SMTT(60) DEF SyslogInv, SyslogTypes, Latest, Live, InHand, SendBegin, Moves, taskVars
  <1>6. Front(s)'
    BY DEF SyslogInv, SyslogTypes, Front, Live, Exempt, Linked, InHand, Hand, SendBegin, Moves, taskVars
  <1>7. Holds(s)'
    BY DEF SyslogInv, SyslogTypes, Holds, Live, Exempt, Linked, InHand, Hand, SendBegin, Moves, taskVars
  <1>8. Past'
    BY DEF SyslogInv, Past, SentInOrder, SendBegin, Moves, taskVars
  <1> QED
    BY <1>1, <1>2, <1>3, <1>4, <1>5, <1>6, <1>7, <1>8 DEF SyslogInv

LEMMA SendFillKeeps ==
  ASSUME NEW s, Senders = {s}, SyslogInv(s), SendFill(s)
  PROVE  SyslogInv(s)'
  <1>1. /\ sendPc[s] = "fill" /\ message \in Live /\ message \in Blocks /\ message # NULL /\ num[s] \in Nat
        /\ s \in Senders
    BY SyslogPointers DEF SyslogInv, SyslogTypes, Registers, Live, SendFill, Moves
  <1>2. /\ sendPc' = [sendPc EXCEPT ![s] = "link"]
        /\ next' = [next EXCEPT ![message] = NULL] /\ text' = [text EXCEPT ![message] = num[s]]
        /\ UNCHANGED <<message, curwp, first, handle, use, num, sendMsg, sendCur, sendCalls>>
        /\ UNCHANGED <<taskPc, tmp, nx, sentMsgs>>
    BY <1>1 DEF SendFill, Moves, taskVars
  <1>3. SyslogTypes'
    <2>1. next' \in [Blocks -> Blocks \cup {NULL, Junk}] /\ text' \in [Blocks -> Nat]
      BY <1>1, <1>2 DEF SyslogInv, SyslogTypes
    <2>2. sendPc' \in [Senders -> SendPcs]
      BY <1>1, <1>2 DEF SyslogInv, SyslogTypes, SendPcs
    <2> QED
      BY <1>2, <2>1, <2>2 DEF SyslogInv, SyslogTypes
  <1>4. /\ sendPc'[s] = "link" /\ next'[message] = NULL /\ text'[message] = num[s]
        /\ \A b \in Blocks \ {message} : next'[b] = next[b] /\ text'[b] = text[b]
    BY <1>1, <1>2 DEF SyslogInv, SyslogTypes
  <1>5. /\ Live' = Live /\ Live \subseteq Blocks
        /\ Linked(s) = Live \ {message} /\ Linked(s)' = Live
        /\ Hand(s) = {} /\ Hand(s)' = {message}
    BY <1>1, <1>2, <1>4 DEF Live, Linked, Exempt, Hand, InHand
  <1>6. Registers(s)'
    BY <1>1, <1>2, <1>4, <1>5 DEF SyslogInv, Registers
  <1>7. Later(s)' /\ OneWay(s)'
    BY <1>1, <1>2, <1>4, <1>5 DEF SyslogInv, Later, OneWay
  <1>8. Latest(s)'
    BY <1>1, <1>2, <1>4, <1>5 DEF SyslogInv, Latest, InHand, SyslogTypes
  <1>9. Front(s)'
    BY <1>1, <1>2, <1>4, <1>5 DEF SyslogInv, Front
  <1>10. Holds(s)'
    BY <1>1, <1>2, <1>4, <1>5, SyslogPointers DEF SyslogInv, Holds, Front
  <1>11. Past'
    BY <1>1, <1>2, <1>4, <1>5 DEF SyslogInv, Past, SentInOrder, Front, Holds
  <1> QED
    BY <1>3, <1>6, <1>7, <1>8, <1>9, <1>10, <1>11 DEF SyslogInv

LEMMA SendLinkKeeps ==
  ASSUME NEW s, Senders = {s}, SyslogInv(s), SendLink(s)
  PROVE  SyslogInv(s)'
  <1>1. SyslogTypes'
    BY DEF SyslogInv, SyslogTypes, SendPcs, SendLink, Moves, memVars, taskVars
  <1>2. Registers(s)'
    BY DEF SyslogInv, SyslogTypes, Registers, Live, SendLink, Moves, memVars, taskVars
  <1>3. Later(s)'
    BY DEF SyslogInv, Later, Live, Exempt, Linked, InHand, Hand, SendLink, Moves, memVars, taskVars
  <1>4. OneWay(s)'
    BY DEF SyslogInv, OneWay, Live, Exempt, Linked, SendLink, Moves, memVars, taskVars
  <1>5. Latest(s)'
    BY DEF SyslogInv, Latest, Live, InHand, SendLink, Moves, memVars, taskVars
  <1>6. Front(s)'
    BY DEF SyslogInv, Front, Live, Exempt, Linked, InHand, Hand, SendLink, Moves, memVars, taskVars
  <1>7. Holds(s)'
    BY DEF SyslogInv, Holds, Live, Exempt, Linked, InHand, Hand, SendLink, Moves, memVars, taskVars
  <1>8. Past'
    BY DEF SyslogInv, Past, SentInOrder, SendLink, Moves, memVars, taskVars
  <1> QED
    BY <1>1, <1>2, <1>3, <1>4, <1>5, <1>6, <1>7, <1>8 DEF SyslogInv

\* Whatever curwp named then: a block of the list, a freed one, or the message itself.
LEMMA SendAppendKeeps ==
  ASSUME NEW s, Senders = {s}, SyslogInv(s), SendAppend(s)
  PROVE  SyslogInv(s)'
  <1>1. SyslogTypes'
    BY DEF SyslogInv, SyslogTypes, SendPcs, Registers, SendAppend, Moves, taskVars
  <1>2. Registers(s)'
    BY DEF SyslogInv, SyslogTypes, Registers, SendAppend, Moves, taskVars
  <1>3. Later(s)'
    BY DEF SyslogInv, SyslogTypes, Registers, Later, Latest, Live, Exempt, Linked, InHand, Hand, SendAppend,
       Moves, taskVars
  <1>4. OneWay(s)'
    BY DEF SyslogInv, Registers, Later, OneWay, Live, Exempt, Linked, InHand, Hand, SendAppend, Moves,
       taskVars
  <1>5. Latest(s)'
    BY DEF SyslogInv, SyslogTypes, Latest, Live, InHand, SendAppend, Moves, taskVars
  <1>6. Front(s)'
    BY DEF SyslogInv, Registers, Front, Live, Exempt, Linked, InHand, Hand, SendAppend, Moves, taskVars
  <1>7. Holds(s)'
    BY DEF SyslogInv, Registers, Holds, Live, Exempt, Linked, InHand, Hand, SendAppend, Moves, taskVars
  <1>8. Past'
    BY DEF SyslogInv, Past, SentInOrder, SendAppend, Moves, taskVars
  <1> QED
    BY <1>1, <1>2, <1>3, <1>4, <1>5, <1>6, <1>7, <1>8 DEF SyslogInv

\* A message linked to itself ends here.
LEMMA SendAdvanceKeeps ==
  ASSUME NEW s, Senders = {s}, SyslogInv(s), SendAdvance(s)
  PROVE  SyslogInv(s)'
  <1>1. SyslogTypes'
    BY DEF SyslogInv, SyslogTypes, SendPcs, Registers, SendAdvance, Moves, taskVars
  <1>2. Registers(s)'
    BY DEF SyslogInv, Registers, SendAdvance, Moves, taskVars
  <1>3. Later(s)'
    BY DEF SyslogInv, SyslogTypes, Later, Live, Exempt, Linked, InHand, Hand, SendAdvance, Moves, taskVars
  <1>4. OneWay(s)'
    BY DEF SyslogInv, SyslogTypes, OneWay, Live, Exempt, Linked, SendAdvance, Moves, taskVars
  <1>5. Latest(s)'
    BY DEF SyslogInv, Latest, Live, InHand, SendAdvance, Moves, taskVars
  <1>6. Front(s)'
    BY SyslogPointers DEF SyslogInv, Registers, Front, Live, Exempt, Linked, InHand, Hand, SendAdvance,
       Moves, taskVars
  <1>7. Holds(s)'
    BY SyslogPointers DEF SyslogInv, Holds, Live, Exempt, Linked, InHand, Hand, SendAdvance, Moves,
       taskVars
  <1>8. Past'
    BY DEF SyslogInv, Past, SentInOrder, SendAdvance, Moves, taskVars
  <1> QED
    BY <1>1, <1>2, <1>3, <1>4, <1>5, <1>6, <1>7, <1>8 DEF SyslogInv

\* The list is empty, and the message is its head.
LEMMA SendFirstKeeps ==
  ASSUME NEW s, Senders = {s}, SyslogInv(s), SendFirst(s)
  PROVE  SyslogInv(s)'
  <1>1. SyslogTypes'
    BY DEF SyslogInv, SyslogTypes, SendPcs, SendFirst, Moves, memVars, taskVars
  <1>2. Registers(s)'
    BY DEF SyslogInv, SyslogTypes, Registers, SendFirst, Moves, memVars, taskVars
  <1>3. Later(s)'
    BY DEF SyslogInv, Later, Live, Exempt, Linked, InHand, Hand, SendFirst, Moves, memVars, taskVars
  <1>4. OneWay(s)'
    BY DEF SyslogInv, OneWay, Live, Exempt, Linked, SendFirst, Moves, memVars, taskVars
  <1>5. Latest(s)'
    BY DEF SyslogInv, Latest, Live, InHand, SendFirst, Moves, memVars, taskVars
  <1>6. Front(s)'
    BY DEF SyslogInv, SyslogTypes, Registers, Later, Front, Live, Exempt, Linked, InHand, Hand, SendFirst,
       Moves, memVars, taskVars
  <1>7. Holds(s)'
    BY DEF SyslogInv, Registers, Front, Holds, Live, Exempt, Linked, InHand, Hand, SendFirst, Moves,
       memVars, taskVars
  <1>8. Past'
    BY DEF SyslogInv, Registers, Latest, Past, SentInOrder, InHand, SendFirst, Moves, memVars, taskVars
  <1> QED
    BY <1>1, <1>2, <1>3, <1>4, <1>5, <1>6, <1>7, <1>8 DEF SyslogInv

LEMMA SendCurrentKeeps ==
  ASSUME NEW s, Senders = {s}, SyslogInv(s), SendCurrent(s)
  PROVE  SyslogInv(s)'
  <1>1. SyslogTypes'
    BY DEF SyslogInv, SyslogTypes, SendPcs, SendCurrent, Moves, memVars, taskVars
  <1>2. Registers(s)'
    BY DEF SyslogInv, Registers, SendCurrent, Moves, memVars, taskVars
  <1>3. Later(s)'
    BY DEF SyslogInv, Later, Live, Exempt, Linked, InHand, Hand, SendCurrent, Moves, memVars, taskVars
  <1>4. OneWay(s)'
    BY DEF SyslogInv, OneWay, Live, Exempt, Linked, SendCurrent, Moves, memVars, taskVars
  <1>5. Latest(s)'
    BY DEF SyslogInv, Latest, Live, InHand, SendCurrent, Moves, memVars, taskVars
  <1>6. Front(s)'
    BY SyslogPointers DEF SyslogInv, Registers, Front, Live, Exempt, Linked, InHand, Hand, SendCurrent,
       Moves, memVars, taskVars
  <1>7. Holds(s)'
    BY DEF SyslogInv, Holds, Live, Exempt, Linked, InHand, Hand, SendCurrent, Moves, memVars, taskVars
  <1>8. Past'
    BY DEF SyslogInv, Past, SentInOrder, SendCurrent, Moves, memVars, taskVars
  <1> QED
    BY <1>1, <1>2, <1>3, <1>4, <1>5, <1>6, <1>7, <1>8 DEF SyslogInv

LEMMA SendResumeKeeps ==
  ASSUME NEW s, Senders = {s}, SyslogInv(s), SendResume(s)
  PROVE  SyslogInv(s)'
  <1>1. SyslogTypes'
    BY DEF SyslogInv, SyslogTypes, SendPcs, SendResume, Moves, memVars
  <1>2. Registers(s)'
    BY DEF SyslogInv, Registers, SendResume, Moves, memVars
  <1>3. Later(s)'
    BY DEF SyslogInv, Later, Live, Exempt, Linked, InHand, Hand, SendResume, Moves, memVars
  <1>4. OneWay(s)'
    BY DEF SyslogInv, OneWay, Live, Exempt, Linked, SendResume, Moves, memVars
  <1>5. Latest(s)'
    BY DEF SyslogInv, Latest, Live, InHand, SendResume, Moves, memVars
  <1>6. Front(s)'
    BY DEF SyslogInv, Front, Live, Exempt, Linked, InHand, Hand, SendResume, Moves, memVars
  <1>7. Holds(s)'
    BY DEF SyslogInv, Holds, Live, Exempt, Linked, InHand, Hand, SendResume, Moves, memVars
  <1>8. Past'
    BY DEF SyslogInv, Past, SentInOrder, SendResume, Moves, memVars
  <1> QED
    BY <1>1, <1>2, <1>3, <1>4, <1>5, <1>6, <1>7, <1>8 DEF SyslogInv

LEMMA TaskStartKeeps ==
  ASSUME NEW s, Senders = {s}, SyslogInv(s), TaskStart
  PROVE  SyslogInv(s)'
  <1>1. SyslogTypes'
    BY DEF SyslogInv, SyslogTypes, SendPcs, TaskStart, Goes, memVars, sendVars
  <1>2. Registers(s)'
    BY DEF SyslogInv, Registers, Live, TaskStart, Goes, memVars, sendVars
  <1>3. Later(s)'
    BY DEF SyslogInv, Later, Live, Exempt, Linked, InHand, Hand, TaskStart, Goes, memVars, sendVars
  <1>4. OneWay(s)'
    BY DEF SyslogInv, OneWay, Live, Exempt, Linked, TaskStart, Goes, memVars, sendVars
  <1>5. Latest(s)'
    BY DEF SyslogInv, Latest, Live, InHand, TaskStart, Goes, memVars, sendVars
  <1>6. Front(s)'
    BY DEF SyslogInv, Front, TaskStart, Goes, memVars, sendVars
  <1>7. Holds(s)'
    BY DEF SyslogInv, Holds, TaskStart, Goes, memVars, sendVars
  <1>8. Past'
    BY DEF SyslogInv, Past, SentInOrder, TaskStart, Goes, memVars, sendVars
  <1> QED
    BY <1>1, <1>2, <1>3, <1>4, <1>5, <1>6, <1>7, <1>8 DEF SyslogInv

LEMMA TaskTestKeeps ==
  ASSUME NEW s, Senders = {s}, SyslogInv(s), TaskTest
  PROVE  SyslogInv(s)'
  <1>1. SyslogTypes'
    BY DEF SyslogInv, SyslogTypes, SendPcs, TaskTest, Goes, memVars, sendVars
  <1>2. Registers(s)'
    BY DEF SyslogInv, Registers, Live, TaskTest, Goes, memVars, sendVars
  <1>3. Later(s)'
    BY DEF SyslogInv, Later, Live, Exempt, Linked, InHand, Hand, TaskTest, Goes, memVars, sendVars
  <1>4. OneWay(s)'
    BY DEF SyslogInv, OneWay, Live, Exempt, Linked, TaskTest, Goes, memVars, sendVars
  <1>5. Latest(s)'
    BY DEF SyslogInv, Latest, Live, InHand, TaskTest, Goes, memVars, sendVars
  <1>6. Front(s)'
    BY DEF SyslogInv, Front, Live, Exempt, Linked, InHand, Hand, TaskTest, Goes, memVars, sendVars
  <1>7. Holds(s)'
    BY DEF SyslogInv, Holds, TaskTest, Goes, memVars, sendVars
  <1>8. Past'
    BY DEF SyslogInv, Past, SentInOrder, TaskTest, Goes, memVars, sendVars
  <1> QED
    BY <1>1, <1>2, <1>3, <1>4, <1>5, <1>6, <1>7, <1>8 DEF SyslogInv

LEMMA TaskTakeKeeps ==
  ASSUME NEW s, Senders = {s}, SyslogInv(s), TaskTake
  PROVE  SyslogInv(s)'
  <1>1. SyslogTypes'
    BY DEF SyslogInv, SyslogTypes, SendPcs, TaskTake, Goes, memVars, sendVars
  <1>2. Registers(s)'
    BY DEF SyslogInv, Registers, Live, TaskTake, Goes, memVars, sendVars
  <1>3. Later(s)'
    BY DEF SyslogInv, Later, Live, Exempt, Linked, InHand, Hand, TaskTake, Goes, memVars, sendVars
  <1>4. OneWay(s)'
    BY DEF SyslogInv, OneWay, Live, Exempt, Linked, TaskTake, Goes, memVars, sendVars
  <1>5. Latest(s)'
    BY DEF SyslogInv, Latest, Live, InHand, TaskTake, Goes, memVars, sendVars
  <1>6. Front(s)'
    BY DEF SyslogInv, Front, Live, Exempt, Linked, InHand, Hand, TaskTake, Goes, memVars, sendVars
  <1>7. Holds(s)'
    BY SyslogPointers DEF SyslogInv, Holds, TaskTake, Goes, memVars, sendVars
  <1>8. Past'
    BY DEF SyslogInv, Past, SentInOrder, TaskTake, Goes, memVars, sendVars
  <1> QED
    BY <1>1, <1>2, <1>3, <1>4, <1>5, <1>6, <1>7, <1>8 DEF SyslogInv

LEMMA TaskSendKeeps ==
  ASSUME NEW s, Senders = {s}, SyslogInv(s), TaskSend
  PROVE  SyslogInv(s)'
  <1>1. /\ taskPc = "send" /\ taskPc' = "read" /\ tmp = first /\ first \in Blocks /\ first \in Live
        /\ ~(sendPc[s] = "fill" /\ first = message) /\ first \notin Hand(s)
        /\ UNCHANGED <<message, curwp, first, use, next, text, sendPc, num, sendMsg, sendCur, sendCalls>>
        /\ UNCHANGED <<tmp, nx>>
    BY DEF TaskSend, Goes, SyslogInv, Holds, Front, Linked, Live, Exempt, memVars, sendVars
  <1>2. text[first] \in Nat /\ sentMsgs \in Seq(Nat) /\ first # NULL
    BY <1>1, SyslogPointers DEF SyslogInv, SyslogTypes
  <1>3. /\ sentMsgs' \in Seq(Nat)
        /\ \A i \in 1 .. Len(sentMsgs') : \/ i \in 1 .. Len(sentMsgs) /\ sentMsgs'[i] = sentMsgs[i]
                                      \/ /\ i = Len(sentMsgs') /\ sentMsgs'[i] = text[first]
                                         /\ Len(sentMsgs') = Len(sentMsgs) + 1
    <2>1. CASE sentMsgs' = sentMsgs
      BY <1>2, <2>1
    <2>2. CASE sentMsgs' = Append(sentMsgs, text[first])
      BY <1>2, <2>2
    <2> QED
      BY <2>1, <2>2 DEF TaskSend
  <1>4. SyslogTypes' /\ Registers(s)' /\ Later(s)' /\ OneWay(s)' /\ Front(s)' /\ Holds(s)'
    BY <1>1, <1>3
       DEF SyslogInv, SyslogTypes, Registers, Later, OneWay, Front, Holds, Live, Linked, Exempt, Hand, InHand
  <1>5. \A i \in 1 .. Len(sentMsgs) : sentMsgs[i] \in Nat /\ sentMsgs[i] < text[first]
    BY <1>1, <1>2 DEF SyslogInv, Past
  <1>6. Latest(s)'
    <2>1. text[first] <= sendCalls /\ sendCalls \in Nat /\ num[s] \in Nat
      BY <1>1 DEF SyslogInv, Latest, SyslogTypes
    <2>2. \A i \in 1 .. Len(sentMsgs') : sentMsgs'[i] <= sendCalls
      BY <1>1, <1>3, <2>1 DEF SyslogInv, Latest
    <2>3. sendPc[s] = "fill" \/ InHand(s) => text[first] < num[s]
      BY <1>1 DEF SyslogInv, Latest, Hand
    <2> QED
      BY <1>1, <1>3, <2>1, <2>2, <2>3 DEF SyslogInv, Latest, Live, InHand
  <1>7. Past'
    <2>1. \A i, j \in 1 .. Len(sentMsgs') : i < j => sentMsgs'[i] < sentMsgs'[j]
      BY <1>2, <1>3, <1>5 DEF SyslogInv, Past, SentInOrder
    <2>2. \A i \in 1 .. Len(sentMsgs') : sentMsgs'[i] <= text[first]
      BY <1>2, <1>3, <1>5
    <2> QED
      BY <1>1, <2>1, <2>2 DEF Past, SentInOrder
  <1> QED
    BY <1>4, <1>6, <1>7 DEF SyslogInv

LEMMA TaskReadKeeps ==
  ASSUME NEW s, Senders = {s}, SyslogInv(s), TaskRead
  PROVE  SyslogInv(s)'
  <1>1. SyslogTypes'
    BY DEF SyslogInv, SyslogTypes, SendPcs, TaskRead, Goes, memVars, sendVars
  <1>2. Registers(s)'
    BY DEF SyslogInv, Registers, Live, TaskRead, Goes, memVars, sendVars
  <1>3. Later(s)'
    BY DEF SyslogInv, Later, Live, Exempt, Linked, InHand, Hand, TaskRead, Goes, memVars, sendVars
  <1>4. OneWay(s)'
    BY DEF SyslogInv, OneWay, Live, Exempt, Linked, TaskRead, Goes, memVars, sendVars
  <1>5. Latest(s)'
    BY DEF SyslogInv, Latest, Live, InHand, TaskRead, Goes, memVars, sendVars
  <1>6. Front(s)'
    BY DEF SyslogInv, Front, Live, Exempt, Linked, InHand, Hand, TaskRead, Goes, memVars, sendVars
  <1>7. Holds(s)'
    BY DEF SyslogInv, Later, OneWay, Front, Holds, Live, Exempt, Linked, InHand, Hand, TaskRead, Goes,
       memVars, sendVars
  <1>8. Past'
    BY DEF SyslogInv, Past, SentInOrder, TaskRead, Goes, memVars, sendVars
  <1> QED
    BY <1>1, <1>2, <1>3, <1>4, <1>5, <1>6, <1>7, <1>8 DEF SyslogInv

\* The head goes to a later message that nothing leads to any more.
LEMMA TaskWriteKeeps ==
  ASSUME NEW s, Senders = {s}, SyslogInv(s), TaskWrite
  PROVE  SyslogInv(s)'
  <1>1. SyslogTypes'
    BY DEF SyslogInv, SyslogTypes, SendPcs, Holds, Live, Exempt, Linked, TaskWrite, Goes, memVars, sendVars
  <1>2. Registers(s)'
    BY DEF SyslogInv, Registers, Live, TaskWrite, Goes, memVars, sendVars
  <1>3. Later(s)'
    BY DEF SyslogInv, Later, Live, Exempt, Linked, InHand, Hand, TaskWrite, Goes, memVars, sendVars
  <1>4. OneWay(s)'
    BY DEF SyslogInv, OneWay, Live, Exempt, Linked, TaskWrite, Goes, memVars, sendVars
  <1>5. Latest(s)'
    BY DEF SyslogInv, Latest, Live, InHand, TaskWrite, Goes, memVars, sendVars
  <1>6. Front(s)'
    BY DEF SyslogInv, Front, Holds, Live, Exempt, Linked, InHand, Hand, TaskWrite, Goes, memVars, sendVars
  <1>7. Holds(s)'
    BY DEF SyslogInv, SyslogTypes, Front, Holds, Live, Exempt, Linked, InHand, Hand, TaskWrite, Goes, memVars,
       sendVars
  <1>8. Past'
    BY DEF SyslogInv, SyslogTypes, Holds, Past, SentInOrder, Live, Exempt, Linked, TaskWrite, Goes, memVars,
       sendVars
  <1> QED
    BY <1>1, <1>2, <1>3, <1>4, <1>5, <1>6, <1>7, <1>8 DEF SyslogInv

\* What is freed is neither the head nor led to.
LEMMA TaskFreeKeeps ==
  ASSUME NEW s, Senders = {s}, SyslogInv(s), TaskFree
  PROVE  SyslogInv(s)'
  <1>1. SyslogTypes'
    BY DEF SyslogInv, SyslogTypes, SendPcs, Holds, Live, Exempt, Linked, TaskFree, Goes, sendVars
  <1>2. Registers(s)'
    BY DEF SyslogInv, Registers, Holds, Live, Exempt, Linked, InHand, Hand, TaskFree, Goes, sendVars
  <1>3. Later(s)'
    BY DEF SyslogInv, Later, Holds, Live, Exempt, Linked, InHand, Hand, TaskFree, Goes, sendVars
  <1>4. OneWay(s)'
    BY DEF SyslogInv, OneWay, Live, Exempt, Linked, TaskFree, Goes, sendVars
  <1>5. Latest(s)'
    BY DEF SyslogInv, Latest, Live, InHand, TaskFree, Goes, sendVars
  <1>6. Front(s)'
    BY DEF SyslogInv, SyslogTypes, Front, Holds, Live, Exempt, Linked, InHand, Hand, TaskFree, Goes, sendVars
  <1>7. Holds(s)'
    BY DEF SyslogInv, Holds, TaskFree, Goes, sendVars
  <1>8. Past'
    BY DEF SyslogInv, Past, SentInOrder, TaskFree, Goes, sendVars
  <1> QED
    BY <1>1, <1>2, <1>3, <1>4, <1>5, <1>6, <1>7, <1>8 DEF SyslogInv

LEMMA TaskClearKeeps ==
  ASSUME NEW s, Senders = {s}, SyslogInv(s), TaskClear
  PROVE  SyslogInv(s)'
  <1>1. SyslogTypes'
    BY DEF SyslogInv, SyslogTypes, SendPcs, TaskClear, Goes, memVars, sendVars
  <1>2. Registers(s)'
    BY DEF SyslogInv, Registers, Live, TaskClear, Goes, memVars, sendVars
  <1>3. Later(s)'
    BY DEF SyslogInv, Later, Live, Exempt, Linked, InHand, Hand, TaskClear, Goes, memVars, sendVars
  <1>4. OneWay(s)'
    BY DEF SyslogInv, OneWay, Live, Exempt, Linked, TaskClear, Goes, memVars, sendVars
  <1>5. Latest(s)'
    BY DEF SyslogInv, Latest, Live, InHand, TaskClear, Goes, memVars, sendVars
  <1>6. Front(s)'
    BY DEF SyslogInv, Front, Live, Exempt, Linked, InHand, Hand, TaskClear, Goes, memVars, sendVars
  <1>7. Holds(s)'
    BY DEF SyslogInv, Holds, TaskClear, Goes, memVars, sendVars
  <1>8. Past'
    BY DEF SyslogInv, Past, SentInOrder, TaskClear, Goes, memVars, sendVars
  <1> QED
    BY <1>1, <1>2, <1>3, <1>4, <1>5, <1>6, <1>7, <1>8 DEF SyslogInv

LEMMA TaskAgainKeeps ==
  ASSUME NEW s, Senders = {s}, SyslogInv(s), TaskAgain
  PROVE  SyslogInv(s)'
  <1>1. SyslogTypes'
    BY DEF SyslogInv, SyslogTypes, SendPcs, TaskAgain, Goes, memVars, sendVars
  <1>2. Registers(s)'
    BY DEF SyslogInv, Registers, Live, TaskAgain, Goes, memVars, sendVars
  <1>3. Later(s)'
    BY DEF SyslogInv, Later, Live, Exempt, Linked, InHand, Hand, TaskAgain, Goes, memVars, sendVars
  <1>4. OneWay(s)'
    BY DEF SyslogInv, OneWay, Live, Exempt, Linked, TaskAgain, Goes, memVars, sendVars
  <1>5. Latest(s)'
    BY DEF SyslogInv, Latest, Live, InHand, TaskAgain, Goes, memVars, sendVars
  <1>6. Front(s)'
    BY DEF SyslogInv, Front, Live, Exempt, Linked, InHand, Hand, TaskAgain, Goes, memVars, sendVars
  <1>7. Holds(s)'
    BY DEF SyslogInv, Holds, TaskAgain, Goes, memVars, sendVars
  <1>8. Past'
    BY DEF SyslogInv, Past, SentInOrder, TaskAgain, Goes, memVars, sendVars
  <1> QED
    BY <1>1, <1>2, <1>3, <1>4, <1>5, <1>6, <1>7, <1>8 DEF SyslogInv

LEMMA TaskSuspendKeeps ==
  ASSUME NEW s, Senders = {s}, SyslogInv(s), TaskSuspend
  PROVE  SyslogInv(s)'
  <1>1. SyslogTypes'
    BY DEF SyslogInv, SyslogTypes, SendPcs, TaskSuspend, Goes, memVars, sendVars
  <1>2. Registers(s)'
    BY DEF SyslogInv, Registers, Live, TaskSuspend, Goes, memVars, sendVars
  <1>3. Later(s)'
    BY DEF SyslogInv, Later, Live, Exempt, Linked, InHand, Hand, TaskSuspend, Goes, memVars, sendVars
  <1>4. OneWay(s)'
    BY DEF SyslogInv, OneWay, Live, Exempt, Linked, TaskSuspend, Goes, memVars, sendVars
  <1>5. Latest(s)'
    BY DEF SyslogInv, Latest, Live, InHand, TaskSuspend, Goes, memVars, sendVars
  <1>6. Front(s)'
    BY DEF SyslogInv, Front, Live, Exempt, Linked, InHand, Hand, TaskSuspend, Goes, memVars, sendVars
  <1>7. Holds(s)'
    BY DEF SyslogInv, Holds, TaskSuspend, Goes, memVars, sendVars
  <1>8. Past'
    BY DEF SyslogInv, Past, SentInOrder, TaskSuspend, Goes, memVars, sendVars
  <1> QED
    BY <1>1, <1>2, <1>3, <1>4, <1>5, <1>6, <1>7, <1>8 DEF SyslogInv

\* Other users of the heap touch no message.
LEMMA OtherFreesKeeps ==
  ASSUME NEW s, Senders = {s}, SyslogInv(s), NEW bb \in Blocks, OtherFrees(bb)
  PROVE  SyslogInv(s)'
  <1>1. SyslogTypes'
    BY DEF SyslogInv, SyslogTypes, SendPcs, OtherFrees, sendVars, taskVars
  <1>2. Registers(s)'
    BY DEF SyslogInv, Registers, Live, OtherFrees, sendVars, taskVars
  <1>3. Later(s)'
    BY DEF SyslogInv, Later, Live, Exempt, Linked, InHand, Hand, OtherFrees, sendVars, taskVars
  <1>4. OneWay(s)'
    BY DEF SyslogInv, OneWay, Live, Exempt, Linked, OtherFrees, sendVars, taskVars
  <1>5. Latest(s)'
    BY DEF SyslogInv, Latest, Live, InHand, OtherFrees, sendVars, taskVars
  <1>6. Front(s)'
    BY DEF SyslogInv, Front, Live, Exempt, Linked, InHand, Hand, OtherFrees, sendVars, taskVars
  <1>7. Holds(s)'
    BY DEF SyslogInv, Holds, Live, Exempt, Linked, InHand, Hand, OtherFrees, sendVars, taskVars
  <1>8. Past'
    BY DEF SyslogInv, Past, SentInOrder, OtherFrees, sendVars, taskVars
  <1> QED
    BY <1>1, <1>2, <1>3, <1>4, <1>5, <1>6, <1>7, <1>8 DEF SyslogInv

LEMMA OtherTakesKeeps ==
  ASSUME NEW s, Senders = {s}, SyslogInv(s), NEW bb \in Blocks, NEW v \in {NULL, Junk}, OtherTakes(bb, v)
  PROVE  SyslogInv(s)'
  <1>1. SyslogTypes'
    BY DEF SyslogInv, SyslogTypes, SendPcs, OtherTakes, sendVars, taskVars
  <1>2. Registers(s)'
    BY DEF SyslogInv, Registers, Live, OtherTakes, sendVars, taskVars
  <1>3. Later(s)'
    BY DEF SyslogInv, Later, Live, Exempt, Linked, InHand, Hand, OtherTakes, sendVars, taskVars
  <1>4. OneWay(s)'
    BY DEF SyslogInv, OneWay, Live, Exempt, Linked, OtherTakes, sendVars, taskVars
  <1>5. Latest(s)'
    BY DEF SyslogInv, Registers, Latest, Live, InHand, OtherTakes, sendVars, taskVars
  <1>6. Front(s)'
    BY DEF SyslogInv, Front, Live, Exempt, Linked, InHand, Hand, OtherTakes, sendVars, taskVars
  <1>7. Holds(s)'
    BY DEF SyslogInv, Holds, Live, Exempt, Linked, InHand, Hand, OtherTakes, sendVars, taskVars
  <1>8. Past'
    BY DEF SyslogInv, Past, SentInOrder, OtherTakes, sendVars, taskVars
  <1> QED
    BY <1>1, <1>2, <1>3, <1>4, <1>5, <1>6, <1>7, <1>8 DEF SyslogInv

-------------------------------------------------------------------------------
LEMMA InvInit ==
  ASSUME NEW s, Senders = {s}, SyslogInit
  PROVE  SyslogInv(s)
  <1>1. SyslogTypes
    BY DEF SyslogInit, SyslogTypes, SendPcs
  <1>2. Live = {} /\ Linked(s) = {} /\ sendPc[s] = "idle"
    BY DEF SyslogInit, Live, Exempt, Linked
  <1>3. Registers(s) /\ Later(s) /\ OneWay(s) /\ Front(s) /\ Holds(s)
    BY <1>2 DEF SyslogInit, Registers, Later, OneWay, Front, Holds
  <1>4. Latest(s) /\ Past
    BY <1>2 DEF SyslogInit, Latest, InHand, Past, SentInOrder
  <1> QED
    BY <1>1, <1>3, <1>4 DEF SyslogInv

LEMMA InvNext ==
  ASSUME NEW s, Senders = {s}, SyslogInv(s), [SyslogNext]_syslogVars
  PROVE  SyslogInv(s)'
  <1>1. CASE CreateTask \/ StoreHandle
    BY <1>1, CreateTaskKeeps, StoreHandleKeeps
  <1>2. CASE \E t \in Senders : SendBegin(t) \/ Send(t)
    <2>1. SendBegin(s) \/ Send(s)
      BY <1>2
    <2> QED
      BY <2>1, SendBeginKeeps, SendFillKeeps, SendLinkKeeps, SendAppendKeeps, SendAdvanceKeeps,
         SendFirstKeeps, SendCurrentKeeps, SendResumeKeeps DEF Send
  <1>3. CASE Task
    BY <1>3, TaskStartKeeps, TaskTestKeeps, TaskTakeKeeps, TaskSendKeeps, TaskReadKeeps,
       TaskWriteKeeps, TaskFreeKeeps, TaskClearKeeps, TaskAgainKeeps, TaskSuspendKeeps DEF Task
  <1>4. CASE \E b \in Blocks : OtherFrees(b) \/ \E v \in {NULL, Junk} : OtherTakes(b, v)
    BY <1>4, OtherFreesKeeps, OtherTakesKeeps
  <1>5. CASE UNCHANGED syslogVars
    BY <1>5 DEF syslogVars, memVars, sendVars, taskVars, SyslogInv, SyslogTypes, Registers, Later, OneWay, Latest,
       Front, Holds, Past, SentInOrder, Live, Exempt, Linked, InHand, Hand
  <1> QED
    BY <1>1, <1>2, <1>3, <1>4, <1>5 DEF SyslogNext

\* The inductive invariant holds throughout.
THEOREM SyslogInvariant ==
  ASSUME NEW s, Senders = {s}
  PROVE  SyslogSpec => []SyslogInv(s)
  <1>1. SyslogInit => SyslogInv(s)
    BY InvInit
  <1>2. SyslogInv(s) /\ [SyslogNext]_syslogVars => SyslogInv(s)'
    BY InvNext
  <1> QED
    BY <1>1, <1>2, PTL DEF SyslogSpec

\* With one sender, whatever the unlocked list goes through, the task sends the
\* messages in the order of the calls of syslogSend, and none twice.
THEOREM SentInOrderTheorem ==
  ASSUME NEW s, Senders = {s}
  PROVE  SyslogSpec => []SentInOrder
  <1>1. SyslogInv(s) => SentInOrder
    BY DEF SyslogInv, Past
  <1> QED
    BY <1>1, SyslogInvariant, PTL

\* With one sender, mem_free of the task is of a message, which is not free and
\* not another task's.
THEOREM FreesItsOwnTheorem ==
  ASSUME NEW s, Senders = {s}
  PROVE  SyslogSpec => []FreesItsOwn
  <1>1. SyslogInv(s) => FreesItsOwn
    BY DEF SyslogInv, Holds, Linked, Live, FreesItsOwn
  <1> QED
    BY <1>1, SyslogInvariant, PTL

-------------------------------------------------------------------------------
(* FtpClient. *)

(* The dialogue.  Rank is the place of a command in it, and of what answers *)
(* it; the server's word about the file comes after the answer to RETR or   *)
(* STOR and before the one to QUIT.                                         *)
Asks == Commands \cup {"welcome"}
Rank == [c \in Asks \cup {"file"} |->
           CASE c = "welcome" -> 0 [] c = "USER" -> 1 [] c = "PASS" -> 2 [] c = "TYPE" -> 3
             [] c = "PASV" -> 4 [] c = "SIZE" -> 5 [] c \in {"RETR", "STOR"} -> 6
             [] c = "file" -> 7 [] c = "QUIT" -> 8]

(* What the server can answer to each, and what can follow: the same code,  *)
(* a text, or a digit in mid-line.                                          *)
CodesOf(c) ==
  CASE c = "welcome" -> {220} [] c = "USER" -> {331, 230, 530} [] c = "PASS" -> {230, 530}
    [] c = "TYPE" -> {200, 530} [] c = "PASV" -> {227, 502, 530} [] c = "SIZE" -> {213, 550, 530}
    [] c \in {"RETR", "STOR"} -> {550, 150, 425, 530} [] c = "file" -> {226, 426} [] c = "QUIT" -> {221}
Pieces(c) == {c, Blank, Letter} \cup Torn
Answers == {r \in Replies : r.code \in CodesOf(r.cmd) \cup {Blank, Letter} \cup Torn}

(* The replies that wait, in q, and the commands that do.                   *)
Waiting(q) == {r \in Replies : \E i \in 1..Len(q) : \E j \in 1..Len(q[i]) : q[i][j] = r}
Asked == {c \in Asks : \E i \in 1..Len(srv.inq) : srv.inq[i] = c}

(* Pbufs hold replies of one rank after those of another.                   *)
InTurn(q) == \A i, j \in 1..Len(q) : i < j =>
               \A x \in 1..Len(q[i]), y \in 1..Len(q[j]) : Rank[q[i][x].cmd] <= Rank[q[j][y].cmd]

States == {"idle", "open", "return", "welcome", "newdata", "dial", "receive", "send", "confirm"} \cup Commands

SrvType ==
  [login : {"none", "user", "in"}, inq : Seq(Asks), port : BOOLEAN, link : BOOLEAN, eof : BOOLEAN,
   file : {"none", "get", "put", "sent", "stored", "failed"}, left : Int, spare : Int]

Types ==
  /\ pc \in States /\ op \in {"get", "put"} /\ sent \in BOOLEAN /\ up \in BOOLEAN
  /\ sent => pc \in Commands
  /\ keep \in {None, FTP_BAD}
  /\ cin \in Seq(Seq(Answers)) /\ \A i \in 1..Len(cin) : cin[i] # <<>>
  /\ srv \in SrvType

(* The call has no session yet, or none any more.                           *)
Apart == pc \in {"idle", "open", "return"}

(* How far the dialogue can be.                                             *)
Limit ==
  CASE pc = "welcome" -> 0
    [] pc = "newdata" -> 3 [] pc = "dial" -> 4
    [] pc \in {"USER", "PASS", "TYPE", "PASV", "SIZE"} -> IF sent THEN Rank[pc] ELSE Rank[pc] - 1
    [] pc \in {"RETR", "STOR"} -> IF sent THEN 7 ELSE 5
    [] pc \in {"receive", "send", "confirm"} -> 7
    [] pc = "QUIT" -> IF sent THEN 8 ELSE 7
    [] OTHER -> 8

(* Replies and commands are in order, and within the limit.                 *)
Fifo ==
  /\ InTurn(cin)
  /\ \A r \in Waiting(cin) : Rank[r.cmd] <= Limit
  /\ up => /\ \A i, j \in 1..Len(srv.inq) : i < j => Rank[srv.inq[i]] < Rank[srv.inq[j]]
           /\ \A a \in Asked : Rank[a] <= Limit
           /\ \A r \in Waiting(cin), a \in Asked : Rank[r.cmd] < Rank[a]
           /\ \A r \in Waiting(cin) : r.cmd # "QUIT"

(* What the client knows of its login.                                      *)
Login ==
  /\ pc = "USER" => \A r \in Waiting(cin) : /\ r.code = 331 => srv.login = "user"
                                            /\ r.code = 230 => srv.login = "in"
  /\ pc = "PASS" => /\ \A r \in Waiting(cin) : /\ Rank[r.cmd] >= 1
                                               /\ r.code = 230 => r.cmd = "PASS" /\ srv.login = "in"
                    /\ up => "USER" \notin Asked /\ "welcome" \notin Asked
  /\ pc \in {"TYPE", "newdata", "PASV", "dial", "SIZE", "RETR", "STOR", "receive", "send", "confirm"} =>
       Logged /\ (up => \A a \in Asked : Rank[a] >= 3)

(* What it knows of the file.                                               *)
Moved == srv.file # "none"
File ==
  /\ \A r \in Waiting(cin) : /\ r.code = 150 => Moved
                             /\ r.code = 226 => srv.file \in {"sent", "stored"}
                             /\ r.cmd = "file" => Moved
  /\ Moved => Limit >= 7
  /\ Moved /\ up => \A a \in Asked : Rank[a] > 6
  /\ pc \in {"receive", "send", "confirm"} => Moved /\ \A r \in Waiting(cin) : Rank[r.cmd] >= 6
  /\ ~Apart => /\ srv.file \in IF op = "get" THEN {"none", "get", "sent", "failed"}
                                             ELSE {"none", "put", "stored", "failed"}
               /\ "RETR" \in Asked => op = "get"
               /\ "STOR" \in Asked => op = "put"
  /\ pc \in {"RETR", "receive"} => op = "get"
  /\ pc \in {"STOR", "send", "confirm"} => op = "put"
  /\ srv.eof => pc \in {"confirm", "QUIT"} \/ Apart
  /\ pc = "QUIT" /\ keep = None /\ op = "put" /\ srv.eof => srv.file = "stored"

(* The client knows where it is in the dialogue, unless a digit in mid-line *)
(* has misled it.                                                           *)
Sound == Types /\ Fifo /\ Login /\ File /\ OkMeansStored
IInv == Types /\ (misled \/ Sound)

-----------------------------------------------------------------------------
LEMMA RankIs ==
  /\ Rank["welcome"] = 0 /\ Rank["USER"] = 1 /\ Rank["PASS"] = 2 /\ Rank["TYPE"] = 3 /\ Rank["PASV"] = 4
  /\ Rank["SIZE"] = 5 /\ Rank["RETR"] = 6 /\ Rank["STOR"] = 6 /\ Rank["file"] = 7 /\ Rank["QUIT"] = 8
  /\ \A c \in Asks \cup {"file"} : Rank[c] \in 0..8
  BY DEF Rank, Asks, Commands

LEMMA AnswerIs ==
  ASSUME NEW r \in Answers
  PROVE  /\ r \in Replies /\ r.cmd \in Asks \cup {"file"} /\ Rank[r.cmd] \in 0..8
         /\ DigitOf(r.code) = 3 => r.code \in {331, 3}
         /\ DigitOf(r.code) = 1 => r.code \in {150, 1}
         /\ r.code = 331 => r.cmd = "USER"
         /\ r.code = 150 => r.cmd \in {"RETR", "STOR"}
         /\ r.code = 230 => r.cmd \in {"USER", "PASS"}
         /\ r.code = 226 => r.cmd = "file"
         /\ DigitOf(r.code) = 2 => \/ r.cmd = "welcome" \/ r.code = 230 \/ r.cmd = "TYPE" \/ r.cmd = "PASV"
                                   \/ r.cmd = "SIZE" \/ r.code = 226 \/ r.cmd = "QUIT" \/ r.code = 2
  <1>1. r \in Replies /\ r.code \in CodesOf(r.cmd) \cup {Blank, Letter} \cup Torn
    BY DEF Answers
  <1>2. r.cmd \in Asks \cup {"file"} /\ r.code \in Int
    BY <1>1 DEF Replies, Asks, Blank, Letter, Torn
  <1>3. Rank[r.cmd] \in 0..8
    BY <1>2, RankIs
  <1>4. /\ DigitOf(Blank) = -16 /\ DigitOf(Letter) = 21
        /\ DigitOf(1) = 1 /\ DigitOf(2) = 2 /\ DigitOf(3) = 3
        /\ DigitOf(220) = 2 /\ DigitOf(331) = 3 /\ DigitOf(230) = 2
        /\ DigitOf(530) = 5 /\ DigitOf(200) = 2 /\ DigitOf(227) = 2 /\ DigitOf(502) = 5 /\ DigitOf(213) = 2
        /\ DigitOf(550) = 5 /\ DigitOf(150) = 1 /\ DigitOf(425) = 4 /\ DigitOf(226) = 2 /\ DigitOf(426) = 4
        /\ DigitOf(221) = 2
    BY DEF DigitOf, Blank, Letter, Torn
  <1>5. r.code \in CodesOf(r.cmd) \/ r.code \in {-16, 21, 1, 2, 3}
    BY <1>1 DEF Blank, Letter, Torn
  <1>6. CASE r.cmd \in {"welcome", "USER", "PASS", "TYPE", "PASV"}
    BY <1>1, <1>2, <1>3, <1>4, <1>5, <1>6 DEF CodesOf, Blank, Letter
  <1>7. CASE r.cmd \in {"SIZE", "RETR", "STOR", "file", "QUIT"}
    BY <1>1, <1>2, <1>3, <1>4, <1>5, <1>7 DEF CodesOf, Blank, Letter
  <1> QED
    BY <1>2, <1>6, <1>7 DEF Asks, Commands

-----------------------------------------------------------------------------
(* What happens to the pbufs.                                              *)

Pbufs(q) == q \in Seq(Seq(Answers)) /\ \A i \in 1..Len(q) : q[i] # <<>>

(* Every reply in a pbuf is an answer, and waits.                          *)
LEMMA Waits ==
  ASSUME NEW q, Pbufs(q)
  PROVE  /\ Waiting(q) \subseteq Answers
         /\ \A i \in 1..Len(q) : /\ q[i] \in Seq(Answers) /\ Len(q[i]) \in Nat /\ Len(q[i]) > 0
                                 /\ \A j \in 1..Len(q[i]) : q[i][j] \in Waiting(q)
  <1>1. Len(q) \in Nat /\ \A i \in 1..Len(q) : q[i] \in Seq(Answers) /\ Len(q[i]) \in Nat /\ Len(q[i]) > 0
    BY DEF Pbufs
  <1>2. \A i \in 1..Len(q) : \A j \in 1..Len(q[i]) : q[i][j] \in Answers
    BY <1>1
  <1> QED
    BY <1>1, <1>2 DEF Waiting, Answers

(* get_line takes the first pbuf.                                           *)
LEMMA TakesFirst ==
  ASSUME NEW q, Pbufs(q), q # <<>>
  PROVE  /\ Pbufs(Tail(q)) /\ Waiting(Tail(q)) \subseteq Waiting(q)
         /\ Head(q) # <<>> /\ Head(q)[1] \in Waiting(q)
         /\ InTurn(q) => /\ InTurn(Tail(q))
                         /\ \A r \in Waiting(Tail(q)) : Rank[Head(q)[1].cmd] <= Rank[r.cmd]
  <1>1. /\ Len(q) \in Nat /\ Len(q) > 0 /\ Head(q) = q[1] /\ Tail(q) \in Seq(Seq(Answers))
        /\ Len(Tail(q)) = Len(q) - 1 /\ \A i \in 1..Len(Tail(q)) : Tail(q)[i] = q[i + 1] /\ i + 1 \in 1..Len(q)
    BY DEF Pbufs
  <1>2. \A i \in 1..Len(Tail(q)) : Tail(q)[i] # <<>>
    BY <1>1 DEF Pbufs
  <1>3. Waiting(Tail(q)) \subseteq Waiting(q)
    BY <1>1 DEF Waiting
  <1>4. Head(q) # <<>> /\ Len(q[1]) \in Nat /\ Len(q[1]) > 0 /\ Head(q)[1] \in Waiting(q)
    BY <1>1, Waits DEF Pbufs
  <1>5. ASSUME InTurn(q) PROVE InTurn(Tail(q))
    <2> SUFFICES ASSUME NEW i \in 1..Len(Tail(q)), NEW j \in 1..Len(Tail(q)), i < j,
                         NEW x \in 1..Len(Tail(q)[i]), NEW y \in 1..Len(Tail(q)[j])
                  PROVE  Rank[Tail(q)[i][x].cmd] <= Rank[Tail(q)[j][y].cmd]
      BY DEF InTurn
    <2>2. i + 1 \in 1..Len(q) /\ j + 1 \in 1..Len(q) /\ i + 1 < j + 1
      BY <1>1
    <2>3. Tail(q)[i] = q[i + 1] /\ Tail(q)[j] = q[j + 1]
      BY <1>1
    <2> QED
      BY <1>5, <2>2, <2>3 DEF InTurn
  <1>6. ASSUME InTurn(q), NEW r \in Waiting(Tail(q)) PROVE Rank[Head(q)[1].cmd] <= Rank[r.cmd]
    <2>1. PICK i \in 1..Len(Tail(q)) : \E j \in 1..Len(Tail(q)[i]) : Tail(q)[i][j] = r
      BY DEF Waiting
    <2>2. PICK j \in 1..Len(Tail(q)[i]) : Tail(q)[i][j] = r
      BY <2>1
    <2>3. i + 1 \in 1..Len(q) /\ 1 < i + 1 /\ 1 \in 1..Len(q) /\ 1 \in 1..Len(q[1]) /\ Tail(q)[i] = q[i + 1]
      BY <1>1, <1>4
    <2> QED
      BY <1>1, <1>6, <2>2, <2>3 DEF InTurn
  <1> QED
    BY <1>1, <1>2, <1>3, <1>4, <1>5, <1>6 DEF Pbufs

(* A reply of the server comes last.                                       *)
LEMMA SaysLast ==
  ASSUME Pbufs(cin), NEW cmd \in Asks \cup {"file"}, NEW c \in CodesOf(cmd), NEW n \in Nat, Says(cmd, c, n),
         c \in {220, 421, 331, 230, 530, 200, 227, 502, 213, 550, 150, 425, 226, 426, 221}
  PROVE  /\ Pbufs(cin')
         /\ \A r \in Waiting(cin') : r \in Waiting(cin) \/ (r.cmd = cmd /\ r.code \in Pieces(c))
         /\ InTurn(cin) /\ (\A r \in Waiting(cin) : Rank[r.cmd] <= Rank[cmd]) => InTurn(cin')
  <1>1. PICK t \in [1..n + 1 -> Pieces(c)] :
          cin' = cin \o [i \in 1..n + 1 |-> <<[code |-> t[i], cmd |-> cmd]>>]
    BY DEF Says, Pieces
  <1> DEFINE rep(i) == [code |-> t[i], cmd |-> cmd]
  <1> DEFINE tail == [i \in 1..n + 1 |-> <<rep(i)>>]
  <1>2. \A i \in 1..n + 1 : rep(i) \in Answers /\ rep(i).cmd = cmd /\ rep(i).code \in Pieces(c)
    <2>1. \A i \in 1..n + 1 : t[i] \in Pieces(c)
      BY <1>1
    <2> QED
      BY <2>1 DEF Answers, Replies, Asks, Pieces
  <1> HIDE DEF rep
  <1>3. /\ tail \in Seq(Seq(Answers)) /\ Len(tail) = n + 1
        /\ \A i \in 1..n + 1 : tail[i] = <<rep(i)>> /\ tail[i] # <<>> /\ Len(tail[i]) = 1 /\ tail[i][1] = rep(i)
    BY <1>2
  <1>4. cin' = cin \o tail
    BY <1>1 DEF rep
  <1> HIDE DEF tail
  <1>5. /\ cin \in Seq(Seq(Answers)) /\ cin' \in Seq(Seq(Answers))
        /\ Len(cin) \in Nat /\ Len(tail) \in Nat /\ Len(cin') = Len(cin) + Len(tail)
    BY <1>3, <1>4 DEF Pbufs
  <1>6. \A i \in 1..Len(cin') : \/ i \in 1..Len(cin) /\ cin'[i] = cin[i]
                                \/ /\ i > Len(cin) /\ Len(cin'[i]) = 1 /\ cin'[i] # <<>>
                                   /\ \E k \in 1..n + 1 : cin'[i][1] = rep(k)
    <2>1. \A i \in 1..Len(cin) + Len(tail) : cin'[i] = IF i <= Len(cin) THEN cin[i] ELSE tail[i - Len(cin)]
      BY <1>3, <1>4, <1>5, ConcatProperties
    <2> SUFFICES ASSUME NEW i \in 1..Len(cin'), i \notin 1..Len(cin)
                 PROVE  /\ i > Len(cin) /\ Len(cin'[i]) = 1 /\ cin'[i] # <<>>
                        /\ \E k \in 1..n + 1 : cin'[i][1] = rep(k)
      BY <1>5, <2>1
    <2> DEFINE k == i - Len(cin)
    <2>2. i > Len(cin) /\ k \in 1..n + 1
      BY <1>3, <1>5
    <2>3. cin'[i] = tail[k]
      BY <1>5, <2>1, <2>2
    <2> HIDE DEF k
    <2> QED
      BY <1>3, <2>2, <2>3
  <1>7. Pbufs(cin')
    <2>1. ASSUME NEW i \in 1..Len(cin') PROVE cin'[i] # <<>>
      <3>1. CASE i \in 1..Len(cin) /\ cin'[i] = cin[i]
        BY <3>1 DEF Pbufs
      <3> QED
        BY <1>6, <3>1
    <2> QED
      BY <1>5, <2>1 DEF Pbufs
  <1>8. ASSUME NEW r \in Waiting(cin')
        PROVE  r \in Waiting(cin) \/ (r.cmd = cmd /\ r.code \in Pieces(c))
    <2>1. PICK i \in 1..Len(cin') : \E j \in 1..Len(cin'[i]) : cin'[i][j] = r
      BY <1>8 DEF Waiting
    <2>2. r \in Replies
      BY <1>8 DEF Waiting
    <2>3. CASE i \in 1..Len(cin) /\ cin'[i] = cin[i]
      BY <2>1, <2>2, <2>3 DEF Waiting
    <2>4. CASE Len(cin'[i]) = 1 /\ \E k \in 1..n + 1 : cin'[i][1] = rep(k)
      <3>1. \E k \in 1..n + 1 : r = rep(k)
        BY <2>1, <2>4
      <3> QED
        BY <1>2, <3>1
    <2> QED
      BY <1>6, <2>3, <2>4
  <1>9. ASSUME InTurn(cin), \A r \in Waiting(cin) : Rank[r.cmd] <= Rank[cmd] PROVE InTurn(cin')
    <2> SUFFICES ASSUME NEW i \in 1..Len(cin'), NEW j \in 1..Len(cin'), i < j,
                        NEW x \in 1..Len(cin'[i]), NEW y \in 1..Len(cin'[j])
                 PROVE  Rank[cin'[i][x].cmd] <= Rank[cin'[j][y].cmd]
      BY SMTT(30) DEF InTurn
    <2>1. CASE j \in 1..Len(cin) /\ cin'[j] = cin[j]
      <3>1. i \in 1..Len(cin) /\ ~(i > Len(cin))
        BY SMTT(60), <1>5, <2>1
      <3>2. cin'[i] = cin[i]
        BY <1>6, <3>1
      <3> QED
        BY <1>9, <2>1, <3>1, <3>2 DEF InTurn
    <2>2. CASE j > Len(cin) /\ Len(cin'[j]) = 1 /\ \E k \in 1..n + 1 : cin'[j][1] = rep(k)
      <3>1. cin'[j][y].cmd = cmd
        BY <1>2, <2>2
      <3>2. Rank[cin'[i][x].cmd] <= Rank[cmd]
        <4>1. CASE i \in 1..Len(cin) /\ cin'[i] = cin[i]
          <5>1. cin'[i][x] \in Waiting(cin)
            BY <4>1, Waits
          <5> QED
            BY <1>9, <5>1
        <4>2. CASE Len(cin'[i]) = 1 /\ \E k \in 1..n + 1 : cin'[i][1] = rep(k)
          <5>1. cin'[i][x].cmd = cmd
            BY <1>2, <4>2
          <5>2. Rank[cmd] \in 0..8
            BY RankIs
          <5> QED
            BY SMTT(60), <5>1, <5>2
        <4> QED
          BY <1>6, <4>1, <4>2
      <3> QED
        BY <3>1, <3>2
    <2> QED
      BY <1>6, <2>1, <2>2
  <1> QED
    BY <1>7, <1>8, <1>9

(* A sequence with the i-th and the next element replaced by one.          *)
Splice(q, i, b) == SubSeq(q, 1, i - 1) \o <<b>> \o SubSeq(q, i + 2, Len(q))
Spliced(q, i, b, z) ==
  /\ Len(z) = Len(q) - 1
  /\ \A k \in 1..Len(q) - 1 : z[k] = IF k < i THEN q[k] ELSE IF k = i THEN b ELSE q[k + 1]

LEMMA SpliceIs ==
  ASSUME NEW S, NEW q \in Seq(S), NEW i \in 1..Len(q) - 1, NEW b \in S
  PROVE  Splice(q, i, b) \in Seq(S) /\ Spliced(q, i, b, Splice(q, i, b))
  <1> DEFINE a == SubSeq(q, 1, i - 1)
             d == SubSeq(q, i + 2, Len(q))
             ab == a \o <<b>>
             z == ab \o d
  <1>1. Len(q) \in Nat /\ i \in Nat /\ i - 1 \in Int /\ i + 2 \in Int /\ Len(q) \in Int /\ 1 \in Int
    BY LenProperties
  <1>2. a \in Seq(S) /\ Len(a) = i - 1 /\ \A k \in 1..i - 1 : a[k] = q[k]
    <2>1. \A k \in 1..i - 1 : q[k] \in S
      BY <1>1, ElementOfSeq
    <2>2. /\ a \in Seq(S) /\ Len(a) = IF 1 <= i - 1 THEN i - 1 - 1 + 1 ELSE 0
          /\ \A k \in 1..i - 1 - 1 + 1 : a[k] = q[1 + k - 1]
      BY <1>1, <2>1, SubSeqProperties
    <2> HIDE DEF a
    <2>3. \A k \in 1..i - 1 : 1 + k - 1 = k /\ k \in 1..i - 1 - 1 + 1
      BY <1>1
    <2> QED
      BY <1>1, <2>2, <2>3
  <1>3. /\ d \in Seq(S) /\ Len(d) = Len(q) - i - 1
        /\ \A k \in 1..Len(q) - i - 1 : d[k] = q[i + 1 + k]
    <2>1. \A k \in i + 2..Len(q) : q[k] \in S
      BY <1>1, ElementOfSeq
    <2>2. /\ d \in Seq(S) /\ Len(d) = IF i + 2 <= Len(q) THEN Len(q) - (i + 2) + 1 ELSE 0
          /\ \A k \in 1..Len(q) - (i + 2) + 1 : d[k] = q[i + 2 + k - 1]
      BY <1>1, <2>1, SubSeqProperties
    <2> HIDE DEF d
    <2>3. \A k \in 1..Len(q) - i - 1 : i + 2 + k - 1 = i + 1 + k /\ k \in 1..Len(q) - (i + 2) + 1
      BY <1>1
    <2> QED
      BY <1>1, <2>2, <2>3
  <1>4. /\ ab \in Seq(S) /\ Len(ab) = i
        /\ \A k \in 1..i : ab[k] = IF k < i THEN q[k] ELSE b
    <2> HIDE DEF a
    <2>1. <<b>> \in Seq(S) /\ Len(<<b>>) = 1 /\ <<b>>[1] = b
      OBVIOUS
    <2>2. /\ ab \in Seq(S) /\ Len(ab) = Len(a) + 1
          /\ \A k \in 1..Len(a) + 1 : ab[k] = IF k <= Len(a) THEN a[k] ELSE <<b>>[k - Len(a)]
      BY <1>2, <2>1, ConcatProperties
    <2> HIDE DEF ab
    <2>3. ab[i] = b
      <3>1. i \in 1..Len(a) + 1 /\ ~(i <= Len(a)) /\ i - Len(a) = 1
        BY <1>1, <1>2
      <3> QED
        BY <2>1, <2>2, <3>1
    <2>4. \A k \in 1..i : k < i => ab[k] = q[k]
      BY <1>1, <1>2, <2>2
    <2> QED
      BY <1>1, <1>2, <2>2, <2>3, <2>4
  <1>5. /\ z \in Seq(S) /\ Len(z) = Len(ab) + Len(d)
        /\ \A k \in 1..Len(ab) + Len(d) : z[k] = IF k <= Len(ab) THEN ab[k] ELSE d[k - Len(ab)]
    <2> HIDE DEF ab, d
    <2> QED
      BY <1>3, <1>4, ConcatProperties
  <1> HIDE DEF a, d, ab, z
  <1>6. \A k \in 1..Len(q) - 1 : z[k] = IF k < i THEN q[k] ELSE IF k = i THEN b ELSE q[k + 1]
    <2> SUFFICES ASSUME NEW k \in 1..Len(q) - 1
                 PROVE  z[k] = IF k < i THEN q[k] ELSE IF k = i THEN b ELSE q[k + 1]
      OBVIOUS
    <2>1. k \in 1..Len(ab) + Len(d)
      BY <1>1, <1>3, <1>4
    <2>2. CASE k <= i
      BY <1>1, <1>4, <1>5, <2>1, <2>2
    <2>3. CASE k > i
      <3>1. k - i \in 1..Len(q) - i - 1 /\ i + 1 + (k - i) = k + 1
        BY <1>1, <2>3
      <3>2. z[k] = d[k - i]
        BY <1>1, <1>4, <1>5, <2>1, <2>3
      <3>3. d[k - i] = q[k + 1]
        BY <1>3, <3>1
      <3> QED
        BY <1>1, <2>3, <3>2, <3>3
    <2> QED
      BY <1>1, <2>2, <2>3
  <1>7. z \in Seq(S) /\ Len(z) = Len(q) - 1
    BY <1>1, <1>3, <1>4, <1>5
  <1>8. Splice(q, i, b) = z
    BY DEF Splice, z, ab, a, d
  <1> QED
    BY <1>6, <1>7, <1>8 DEF Spliced

(* Two pbufs become one, whose replies keep their turn with all others'.   *)
Joined(q, i, b) ==
  /\ Len(q) \in Nat /\ i \in 1..Len(q) - 1 /\ b = q[i] \o q[i + 1]

LEMMA JoinsTwo ==
  ASSUME NEW q, Pbufs(q), NEW z, NEW b, NEW i, Joined(q, i, b), z \in Seq(Seq(Answers)), Spliced(q, i, b, z)
  PROVE  Pbufs(z) /\ Waiting(z) \subseteq Waiting(q) /\ (InTurn(q) => InTurn(z))
  <1>1. /\ q \in Seq(Seq(Answers)) /\ Len(q) \in Nat /\ i \in Nat /\ i + 1 \in 1..Len(q) /\ i \in 1..Len(q)
        /\ q[i] \in Seq(Answers) /\ q[i + 1] \in Seq(Answers) /\ q[i] # <<>>
    BY DEF Pbufs, Joined
  <1> DEFINE u == q[i]
             v == q[i + 1]
             lu == Len(u)
             lv == Len(v)
  <1>2. /\ b \in Seq(Answers) /\ Len(b) = lu + lv /\ lu \in Nat /\ lu > 0 /\ lv \in Nat
        /\ \A j \in 1..lu + lv : b[j] = IF j <= lu THEN u[j] ELSE v[j - lu]
    <2>1. u \in Seq(Answers) /\ v \in Seq(Answers) /\ u # <<>> /\ b = u \o v
      BY <1>1 DEF Joined
    <2> HIDE DEF u, v
    <2>2. lu \in Nat /\ lu > 0 /\ lv \in Nat
      BY <2>1
    <2> QED
      BY <2>1, <2>2, ConcatProperties
  <1> HIDE DEF lu, lv
  <1>3. Len(z) = Len(q) - 1
    BY DEF Spliced
  <1>4. \A k \in 1..Len(z) : z[k] = IF k < i THEN q[k] ELSE IF k = i THEN b ELSE q[k + 1]
    BY <1>3 DEF Spliced
  (* Every reply was in the pbuf, or in one of the two.                    *)
  <1> DEFINE From(k, p) == (k < i /\ p = k) \/ (k > i /\ p = k + 1) \/ (k = i /\ p \in {i, i + 1})
             In(r, p) == \E w \in 1..Len(q[p]) : r = q[p][w]
  <1>5. \A k \in 1..Len(z) : \A j \in 1..Len(z[k]) : \E p \in 1..Len(q) : From(k, p) /\ In(z[k][j], p)
    <2> SUFFICES ASSUME NEW k \in 1..Len(z), NEW j \in 1..Len(z[k])
                 PROVE  \E p \in 1..Len(q) : From(k, p) /\ In(z[k][j], p)
      OBVIOUS
    <2>1. CASE k = i
      <3>1. z[k] = b
        BY <1>1, <1>4, <2>1
      <3>2. j \in 1..lu + lv /\ z[k][j] = b[j]
        BY <1>2, <3>1
      <3>3. CASE j <= lu
        <4>1. j \in 1..lu /\ b[j] = u[j]
          BY <1>2, <3>2, <3>3
        <4> QED
          BY <1>1, <2>1, <3>2, <4>1 DEF lu
      <3>4. CASE ~(j <= lu)
        <4> DEFINE d == j - lu
        <4>1. d \in 1..lv
          BY <1>2, <3>2, <3>4
        <4>2. b[j] = v[d]
          BY <1>2, <3>2, <3>4
        <4> HIDE DEF d
        <4>3. In(z[k][j], i + 1)
          BY <3>2, <4>1, <4>2 DEF lv
        <4> QED
          BY <1>1, <2>1, <4>3
      <3> QED
        BY <3>3, <3>4
    <2>2. CASE k < i
      <3>1. k \in 1..Len(q) /\ k \in 1..Len(z)
        BY <1>1, <1>3, <2>2
      <3>2. z[k] = q[k]
        BY <1>4, <2>2, <3>1
      <3> QED
        BY <2>2, <3>1, <3>2
    <2>3. CASE k > i
      <3>1. z[k] = q[k + 1] /\ k + 1 \in 1..Len(q)
        BY <1>1, <1>3, <1>4, <2>3
      <3>2. In(z[k][j], k + 1)
        BY <3>1
      <3> QED
        BY <2>3, <3>1, <3>2
    <2> QED
      BY <1>1, <2>1, <2>2, <2>3
  <1>6. Pbufs(z)
    <2> SUFFICES ASSUME NEW k \in 1..Len(z) PROVE z[k] # <<>>
      BY DEF Pbufs
    <2>1. \A p \in 1..Len(q) : q[p] # <<>>
      BY DEF Pbufs
    <2>2. b # <<>>
      <3>1. Len(b) # 0
        BY <1>2
      <3>2. Len(<<>>) = 0
        OBVIOUS
      <3> QED
        BY <3>1, <3>2
    <2>3. k < i => k \in 1..Len(q)
      BY <1>1, <1>3
    <2>4. k > i => k + 1 \in 1..Len(q)
      BY <1>1, <1>3
    <2>5. k < i \/ k = i \/ k > i
      BY <1>1, <1>3
    <2> QED
      BY <1>1, <1>4, <2>1, <2>2, <2>3, <2>4, <2>5
  <1>7. Waiting(z) \subseteq Waiting(q)
    <2> SUFFICES ASSUME NEW r \in Waiting(z) PROVE r \in Waiting(q)
      OBVIOUS
    <2>1. PICK k \in 1..Len(z) : \E j \in 1..Len(z[k]) : z[k][j] = r
      BY DEF Waiting
    <2>2. PICK j \in 1..Len(z[k]) : z[k][j] = r
      BY <2>1
    <2>3. PICK p \in 1..Len(q) : In(z[k][j], p)
      BY <1>5
    <2> QED
      BY <2>2, <2>3 DEF Waiting
  <1>8. ASSUME InTurn(q) PROVE InTurn(z)
    <2> SUFFICES ASSUME NEW k \in 1..Len(z), NEW l \in 1..Len(z), k < l,
                        NEW x \in 1..Len(z[k]), NEW y \in 1..Len(z[l])
                 PROVE  Rank[z[k][x].cmd] <= Rank[z[l][y].cmd]
      BY DEF InTurn
    <2>1. PICK p \in 1..Len(q) : From(k, p) /\ In(z[k][x], p)
      BY <1>5
    <2>2. PICK r \in 1..Len(q) : From(l, r) /\ In(z[l][y], r)
      BY <1>5
    <2>3. p < r
      <3>1. From(k, p) /\ From(l, r)
        BY <2>1, <2>2
      <3>2. i \in Int /\ k \in Int /\ l \in Int
        BY <1>1, <1>3
      <3> HIDE DEF In
      <3> QED
        BY <3>1, <3>2
    <2> QED
      BY <1>8, <2>1, <2>2, <2>3 DEF InTurn
  <1> QED
    BY <1>6, <1>7, <1>8

-----------------------------------------------------------------------------
(* The client.                                                             *)

LEMMA LimitIs ==
  /\ Types => Limit \in {0, 1, 2, 3, 4, 5, 7, 8}
  /\ Types' => Limit' \in {0, 1, 2, 3, 4, 5, 7, 8}
  BY RankIs DEF Limit, Types, States, Commands

(* The limit at each place; Unsent is its value before a command is sent.  *)
Unsent(p) == CASE p \in {"welcome", "USER"} -> 0 [] p = "PASS" -> 1 [] p = "TYPE" -> 2
               [] p \in {"newdata", "PASV"} -> 3 [] p \in {"dial", "SIZE"} -> 4 [] p \in {"RETR", "STOR"} -> 5
               [] p \in {"receive", "send", "confirm", "QUIT"} -> 7 [] OTHER -> 8
Sent(p) == CASE p = "USER" -> 1 [] p = "PASS" -> 2 [] p = "TYPE" -> 3 [] p = "PASV" -> 4 [] p = "SIZE" -> 5
             [] p \in {"RETR", "STOR"} -> 7 [] p = "QUIT" -> 8 [] OTHER -> Unsent(p)
LEMMA LimitAt ==
  /\ Types => Limit = IF sent THEN Sent(pc) ELSE Unsent(pc)
  /\ Types' => Limit' = IF sent' THEN Sent(pc') ELSE Unsent(pc')
  <1>1. ASSUME Types PROVE Limit = IF sent THEN Sent(pc) ELSE Unsent(pc)
    <2>1. CASE pc \in {"USER", "PASS", "TYPE", "PASV", "SIZE"}
      BY <1>1, <2>1, RankIs DEF Types, Limit, Sent, Unsent
    <2>2. CASE pc \notin {"USER", "PASS", "TYPE", "PASV", "SIZE"}
      BY <1>1, <2>2 DEF Types, Limit, Sent, Unsent
    <2> QED
      BY <2>1, <2>2
  <1>2. ASSUME Types' PROVE Limit' = IF sent' THEN Sent(pc') ELSE Unsent(pc')
    <2>1. CASE pc' \in {"USER", "PASS", "TYPE", "PASV", "SIZE"}
      BY <1>2, <2>1, RankIs DEF Types, Limit, Sent, Unsent
    <2>2. CASE pc' \notin {"USER", "PASS", "TYPE", "PASV", "SIZE"}
      BY <1>2, <2>2 DEF Types, Limit, Sent, Unsent
    <2> QED
      BY <2>1, <2>2
  <1> QED
    BY <1>1, <1>2

LEMMA AskedIs == Types => Asked \subseteq Asks /\ \A a \in Asked : Rank[a] \in 0..8 /\ Rank[a] # 7
  BY RankIs DEF Asked, Asks, Commands

LEMMA WaitingIs ==
  ASSUME Types
  PROVE  Pbufs(cin) /\ Waiting(cin) \subseteq Answers /\ \A r \in Waiting(cin) : Rank[r.cmd] \in 0..8
  <1>1. Pbufs(cin)
    BY DEF Types, Pbufs
  <1>2. Waiting(cin) \subseteq Answers
    BY <1>1, Waits
  <1> QED
    BY <1>1, <1>2, AnswerIs

(* The client takes a pbuf or leaves it, sends nothing and does not go back. *)
Takes == cin' = cin \/ (cin # <<>> /\ cin' = Tail(cin))

LEMMA TakesLess ==
  ASSUME Types, Fifo, Takes
  PROVE  Pbufs(cin') /\ Waiting(cin') \subseteq Waiting(cin) /\ InTurn(cin')
  BY WaitingIs, TakesFirst DEF Takes, Fifo

LEMMA ClientFifo ==
  ASSUME Types, Types', Fifo, Takes, srv'.inq = srv.inq, up' = up, Limit <= Limit'
  PROVE  Fifo'
  <1>1. Asked' = Asked
    BY DEF Asked
  <1>2. Waiting(cin') \subseteq Waiting(cin) /\ InTurn(cin')
    BY TakesLess
  <1>3. Limit \in Int /\ Limit' \in Int
    BY LimitIs
  <1>4. \A r \in Waiting(cin) : Rank[r.cmd] <= Limit /\ Rank[r.cmd] \in Int
    BY WaitingIs DEF Fifo
  <1>5. up => \A a \in Asked : Rank[a] <= Limit /\ Rank[a] \in Int
    BY AskedIs DEF Fifo
  <1> QED
    BY <1>1, <1>2, <1>3, <1>4, <1>5 DEF Fifo

(* A command's result: of the reply in the first pbuf, or an error.        *)
Reads(r, e) ==
  \/ e = <<>> /\ cin' = cin /\ r \in {FTP_BAD, FTP_TOOBIG, FTP_TIMEDOUT}
  \/ cin # <<>> /\ e = Head(cin) /\ cin' = Tail(cin) /\ r = DigitOf(Head(cin)[1].code)

(* The reply h, whose answer the client looks at, waits no later than those *)
(* it leaves and than those to come.                                       *)
Reply(h) ==
  /\ h \in Waiting(cin) /\ h \in Answers /\ Rank[h.cmd] \in 0..Limit
  /\ \A x \in Waiting(cin') : Rank[h.cmd] <= Rank[x.cmd]
  /\ up => \A a \in Asked : Rank[h.cmd] < Rank[a]

LEMMA ReadsTypes ==
  ASSUME Types, NEW r, NEW e, Reads(r, e)
  PROVE  r \in Int /\ Takes /\ Pbufs(cin')
  <1>1. CASE e = <<>> /\ cin' = cin /\ r \in {FTP_BAD, FTP_TOOBIG, FTP_TIMEDOUT}
    BY <1>1, WaitingIs DEF FTP_BAD, FTP_TOOBIG, FTP_TIMEDOUT, Takes
  <1>2. CASE cin # <<>> /\ e = Head(cin) /\ cin' = Tail(cin) /\ r = DigitOf(Head(cin)[1].code)
    <2> DEFINE h == Head(cin)[1]
    <2>1. h \in Answers /\ Pbufs(cin')
      BY <1>2, TakesFirst, WaitingIs
    <2> HIDE DEF h
    <2>2. h.code \in Int /\ DigitOf(h.code) \in Int
      BY <2>1 DEF Answers, Replies, DigitOf, Blank, Letter, Torn
    <2> QED
      BY <1>2, <2>1, <2>2 DEF h, Takes
  <1> QED
    BY <1>1, <1>2 DEF Reads

LEMMA ReadsReply ==
  ASSUME Sound, NEW r, NEW e, Reads(r, e)
  PROVE  /\ r >= 0 => /\ cin # <<>> /\ Reply(Head(cin)[1]) /\ r = DigitOf(Head(cin)[1].code)
         /\ e # <<>> => Reply(Head(cin)[1]) /\ e[1] = Head(cin)[1]
  <1>1. CASE e = <<>> /\ cin' = cin /\ r \in {FTP_BAD, FTP_TOOBIG, FTP_TIMEDOUT}
    BY <1>1 DEF FTP_BAD, FTP_TOOBIG, FTP_TIMEDOUT
  <1>2. CASE cin # <<>> /\ e = Head(cin) /\ cin' = Tail(cin) /\ r = DigitOf(Head(cin)[1].code)
    <2> DEFINE h == Head(cin)[1]
    <2>1. /\ h \in Waiting(cin) /\ h \in Answers
          /\ Rank[h.cmd] \in 0..8 /\ Rank[h.cmd] <= Limit /\ Limit \in Int
          /\ \A x \in Waiting(cin') : Rank[h.cmd] <= Rank[x.cmd]
          /\ up => \A a \in Asked : Rank[h.cmd] < Rank[a]
      BY <1>2, TakesFirst, WaitingIs, LimitIs DEF Sound, Fifo
    <2> HIDE DEF h
    <2>2. Reply(h)
      BY <2>1 DEF Reply
    <2> QED
      BY <1>2, <2>2 DEF h
  <1> QED
    BY <1>1, <1>2 DEF Reads

(* Where the result of a command leads.                                    *)
Outcome(r, e) ==
  /\ sent' = FALSE /\ keep' \in {None, FTP_BAD}
  /\ pc = "welcome" => pc' \in {"USER", "return"}
  /\ pc = "USER" => \/ pc' = "TYPE" /\ e # <<>> /\ e[1].code \in {230, 2}
                    \/ pc' = "PASS" /\ r = 3
                    \/ pc' = "return"
  /\ pc = "PASS" => (pc' = "TYPE" /\ r = 2) \/ pc' = "return"
  /\ pc = "TYPE" => pc' \in {"newdata", "return"}
  /\ pc = "PASV" => pc' \in {"dial", "QUIT", "return"}
  /\ pc = "SIZE" => (op = "get" /\ pc' = "RETR") \/ (op = "put" /\ pc' = "STOR")
  /\ pc = "RETR" => (pc' = "receive" /\ r = 1) \/ pc' = "return"
  /\ pc = "STOR" => (pc' = "send" /\ r = 1) \/ pc' = "QUIT"
  /\ pc = "confirm" => pc' = "QUIT" /\ (keep' = None => r = 2)
  /\ pc = "QUIT" => pc' = "return"
  /\ pc' = "return" /\ ret' = ERR_OK => pc = "QUIT" /\ keep = None
  /\ pc \in {"welcome", "USER", "PASS", "TYPE", "PASV", "SIZE", "RETR", "STOR", "confirm", "QUIT"}

LEMMA Leads ==
  ASSUME Types, NEW r \in Int, NEW e, Answer(r, e)
  PROVE  Outcome(r, e)
  <1>1. /\ keep \in {None, FTP_BAD} /\ op \in {"get", "put"}
        /\ FTP_BAD = -2 /\ FTP_TIMEDOUT = -8 /\ FTP_BADFILENAME = -6
        /\ ERR_OK = 0 /\ None = 1
    BY DEF Types, FTP_BAD, FTP_TIMEDOUT, FTP_BADFILENAME, ERR_OK, None
  <1>2. CASE pc \in {"welcome", "USER", "PASS", "TYPE"}
    BY <1>1, <1>2 DEF Answer, AfterWelcome, AfterUser, AfterPass, AfterType, GoTo, Return, Outcome
  <1>3. CASE pc \in {"PASV", "SIZE"}
    BY <1>1, <1>3 DEF Answer, AfterPasv, OpenDataFailed, GoTo, Return, Quit, Outcome
  <1>4. CASE pc \in {"RETR", "STOR", "confirm", "QUIT"}
    BY <1>1, <1>4 DEF Answer, AfterRetr, AfterStor, AfterSent, AfterQuit, GoTo, Return, Quit, Outcome
  <1> QED
    BY <1>2, <1>3, <1>4 DEF Answer

LEMMA AnswerTypes ==
  ASSUME Types, NEW r, NEW e, Reads(r, e), Answer(r, e), UNCHANGED <<op, up, srv>>
  PROVE  Types' /\ Outcome(r, e)
  <1>1. r \in Int /\ Pbufs(cin')
    BY ReadsTypes
  <1>2. Outcome(r, e)
    BY <1>1, Leads
  <1>3. pc' \in States
    BY <1>2 DEF States, Commands, Outcome
  <1>4. sent' = FALSE /\ keep' \in {None, FTP_BAD}
    BY <1>2 DEF Outcome
  <1> QED
    BY <1>1, <1>2, <1>3, <1>4 DEF Types, Pbufs

(* The client is not misled by the pbuf e: no digit in mid-line passes for  *)
(* consent.                                                                 *)
Honest(e) == e # <<>> => e[1].code \notin Torn \cap Consent

LEMMA AnswerKeeps ==
  ASSUME Sound, NEW r, NEW e, Reads(r, e), Answer(r, e), Honest(e), UNCHANGED <<op, up, srv>>
  PROVE  Sound'
  <1>1. /\ r \in Int /\ Takes
        /\ r >= 0 => /\ cin # <<>> /\ Reply(Head(cin)[1]) /\ r = DigitOf(Head(cin)[1].code)
                     /\ Head(cin)[1].code \notin Torn \cap Consent
        /\ e # <<>> => Reply(Head(cin)[1]) /\ e[1] = Head(cin)[1]
    <2>1. r \in Int /\ Takes
      BY ReadsTypes DEF Sound
    <2>2. r >= 0 => e = Head(cin) /\ e # <<>>
      <3>1. cin # <<>> => Head(cin) # <<>>
        BY TakesFirst, WaitingIs DEF Sound
      <3>2. r \in {FTP_BAD, FTP_TOOBIG, FTP_TIMEDOUT} => ~(r >= 0)
        BY DEF FTP_BAD, FTP_TOOBIG, FTP_TIMEDOUT
      <3> QED
        BY <3>1, <3>2 DEF Reads
    <2> QED
      BY <2>1, <2>2, ReadsReply DEF Honest
  <1>1a. Types' /\ Outcome(r, e)
    BY AnswerTypes DEF Sound
  <1> DEFINE h == Head(cin)[1]
  <1>2. Asked' = Asked /\ Logged' = Logged /\ Moved' = Moved /\ Types
    BY DEF Asked, Logged, Moved, Sound
  <1>3. Pbufs(cin') /\ Waiting(cin') \subseteq Waiting(cin) /\ Waiting(cin) \subseteq Answers
    BY <1>1, TakesLess, WaitingIs DEF Sound
  <1>4. Types'
    BY <1>1a
  <1>5. Limit <= Limit'
    <2>1. Limit' = Unsent(pc')
      BY <1>1, <1>1a, <1>4, LimitAt DEF Outcome
    <2>2. Limit = Sent(pc) \/ Limit = Unsent(pc)
      BY <1>2, LimitAt
    <2>3. CASE pc \in {"welcome", "USER", "PASS", "TYPE", "PASV"}
      BY <1>1, <1>1a, <2>1, <2>2, <2>3 DEF Sent, Unsent, Outcome
    <2>4. CASE pc \in {"SIZE", "RETR", "STOR", "confirm", "QUIT"}
      BY <1>1, <1>1a, <2>1, <2>2, <2>4 DEF Sent, Unsent, Outcome
    <2> QED
      BY <1>1, <1>1a, <2>3, <2>4 DEF Outcome
  <1>6. Fifo'
    BY <1>1, <1>2, <1>4, <1>5, ClientFifo DEF Sound
  <1>7. Login'
    <2>1. ASSUME pc' = "USER", NEW x \in Waiting(cin') PROVE x.code # 331 /\ x.code # 230
      <3>1. pc = "welcome" /\ Limit = 0
        BY <1>1, <1>1a, <2>1 DEF Limit, Outcome
      <3>2. x \in Answers /\ Rank[x.cmd] <= 0
        BY <1>3, <3>1 DEF Sound, Fifo
      <3> QED
        BY <3>2, AnswerIs, RankIs
    <2>2. ASSUME pc' = "PASS"
          PROVE  /\ \A x \in Waiting(cin') : Rank[x.cmd] >= 1 /\ x.code # 230
                 /\ up => "USER" \notin Asked /\ "welcome" \notin Asked
      <3>1. pc = "USER" /\ r = 3
        BY <1>1, <1>1a, <2>2 DEF Outcome
      <3>2. Reply(h) /\ DigitOf(h.code) = 3 /\ h.code # 3
        BY <1>1, <3>1 DEF Torn, Consent
      <3> HIDE DEF h
      <3>3. Rank[h.cmd] = 1 /\ h.code = 331
        BY <3>2, AnswerIs, RankIs DEF Reply
      <3>4. srv.login = "user"
        BY <3>1, <3>2, <3>3 DEF Reply, Sound, Login
      <3>5. \A x \in Waiting(cin') : x.code # 230
        BY <1>3, <3>1, <3>4 DEF Sound, Login
      <3> QED
        BY <3>2, <3>3, <3>5, RankIs DEF Reply
    <2>3. ASSUME pc' = "TYPE" PROVE Logged /\ (up => Asked = {})
      <3>1. CASE pc = "USER"
        <4>0. e # <<>> /\ e[1].code = 230
          BY <1>1, <1>1a, <2>3, <3>1 DEF Outcome, Honest, Torn, Consent
        <4>1. Reply(h) /\ h.code = 230
          BY <1>1, <4>0
        <4> HIDE DEF h
        <4>2. Logged
          BY <3>1, <4>1 DEF Reply, Sound, Login, Logged
        <4>3. Rank[h.cmd] >= 1
          BY <4>1, AnswerIs, RankIs DEF Reply
        <4>4. Limit <= 1
          BY <3>1, RankIs DEF Limit
        <4>5. up => \A a \in Asked : Rank[a] <= Limit /\ Rank[h.cmd] < Rank[a] /\ Rank[a] \in Int
          BY <1>2, <4>1, AskedIs DEF Reply, Sound, Fifo
        <4> QED
          BY <1>2, <4>1, <4>2, <4>3, <4>4, <4>5, LimitIs DEF Reply
      <3>2. CASE pc = "PASS"
        <4>0. r = 2
          BY <1>1, <1>1a, <2>3, <3>2 DEF Outcome
        <4>1. Reply(h) /\ DigitOf(h.code) = 2 /\ h.code # 2
          BY <1>1, <3>2, <4>0 DEF Torn, Consent
        <4> HIDE DEF h
        <4>2. Limit <= 2 /\ Limit \in Int
          BY <1>2, <3>2, RankIs, LimitIs DEF Limit
        <4>3. Rank[h.cmd] \in 1..2
          BY <3>2, <4>1, <4>2 DEF Reply, Sound, Login
        <4>4. h.code = 230
          BY <4>1, <4>3, AnswerIs, RankIs DEF Reply
        <4>5. h.cmd = "PASS" /\ Logged
          BY <3>2, <4>1, <4>4 DEF Reply, Sound, Login, Logged
        <4>6. up => \A a \in Asked : Rank[a] <= Limit /\ Rank[h.cmd] < Rank[a] /\ Rank[a] \in Int
          BY <1>2, <4>1, AskedIs DEF Reply, Sound, Fifo
        <4> QED
          BY <4>2, <4>5, <4>6, RankIs
      <3> QED
        BY <1>1, <1>1a, <2>3, <3>1, <3>2 DEF Outcome
    <2>4. ASSUME pc' \in {"newdata", "PASV", "dial", "SIZE", "RETR", "STOR", "receive", "send", "confirm"}
          PROVE  Logged /\ (up => \A a \in Asked : Rank[a] >= 3)
      <3>1. pc \in {"TYPE", "PASV", "SIZE", "RETR", "STOR"}
        BY <1>1, <1>1a, <2>4 DEF Outcome
      <3> QED
        BY <3>1 DEF Sound, Login
    <2> QED
      BY <1>2, <2>1, <2>2, <2>3, <2>4 DEF Login
  <1>8. File' /\ OkMeansStored'
    <2>1. pc' \in {"receive", "send", "confirm"} => Moved /\ \A x \in Waiting(cin') : Rank[x.cmd] >= 6
      <3> SUFFICES ASSUME pc' \in {"receive", "send", "confirm"}
                   PROVE  Moved /\ \A x \in Waiting(cin') : Rank[x.cmd] >= 6
        OBVIOUS
      <3>0. r = 1 /\ pc \in {"RETR", "STOR"}
        BY <1>1, <1>1a DEF Outcome
      <3>1. Reply(h) /\ DigitOf(h.code) = 1 /\ h.code # 1
        BY <1>1, <3>0 DEF Torn, Consent
      <3> HIDE DEF h
      <3>2. h.code = 150 /\ Rank[h.cmd] = 6
        BY <3>1, AnswerIs, RankIs DEF Reply
      <3> QED
        BY <3>1, <3>2 DEF Reply, Sound, File
    <2>2. pc' \in {"RETR", "receive"} => op = "get"
      BY <1>1, <1>1a DEF Sound, File, Outcome
    <2>3. pc' \in {"STOR", "send", "confirm"} => op = "put"
      BY <1>1, <1>1a DEF Sound, File, Outcome
    <2>4. srv.eof => (pc = "confirm" /\ pc' = "QUIT") \/ (pc = "QUIT" /\ pc' = "return")
      BY <1>1, <1>1a DEF Sound, File, Apart, Outcome
    <2>5. pc' = "QUIT" /\ keep' = None /\ op = "put" /\ srv.eof => srv.file = "stored"
      <3> SUFFICES ASSUME pc' = "QUIT", keep' = None, op = "put", srv.eof PROVE srv.file = "stored"
        OBVIOUS
      <3>1. pc = "confirm" /\ r = 2
        BY <1>1, <1>1a, <2>4 DEF Outcome
      <3>2. Reply(h) /\ DigitOf(h.code) = 2 /\ h.code # 2
        BY <1>1, <3>1 DEF Torn, Consent
      <3> HIDE DEF h
      <3>3. Rank[h.cmd] >= 6 /\ Limit = 7
        BY <3>1, <3>2 DEF Reply, Sound, File, Limit
      <3>4. h.code = 226
        BY <3>2, <3>3, AnswerIs, RankIs DEF Reply
      <3>5. srv.file \in {"sent", "stored"} /\ srv.file \in {"none", "put", "stored", "failed"}
        BY <3>1, <3>2, <3>4 DEF Reply, Sound, File, Apart
      <3> QED
        BY <3>5
    <2>6. OkMeansStored'
      <3>1. ASSUME pc' = "return", ret' = ERR_OK, op = "put", srv.eof PROVE srv.file = "stored"
        <4>1. pc = "QUIT" /\ keep = None
          BY <1>1, <1>1a, <3>1 DEF Outcome
        <4> QED
          BY <3>1, <4>1 DEF Sound, File
      <3> QED
        BY <3>1 DEF OkMeansStored
    <2>7. Moved => Limit' >= 7
      BY <1>2, <1>4, <1>5, LimitIs DEF Sound, File
    <2>8. ~Apart
      BY <1>1, <1>1a DEF Apart, Outcome
    <2> QED
      BY <1>2, <1>3, <2>1, <2>2, <2>3, <2>4, <2>5, <2>6, <2>7, <2>8 DEF Sound, File, Apart
  <1> QED
    BY <1>4, <1>6, <1>7, <1>8 DEF Sound

(* What the client knows it keeps knowing, or it is misled for the rest of  *)
(* the session.                                                             *)
LEMMA Keep ==
  ASSUME IInv, Types', misled' = misled, Sound => Sound'
  PROVE  IInv'
  BY DEF IInv

LEMMA GetReplyKeeps == IInv /\ GetReply => IInv'
  <1> SUFFICES ASSUME IInv, GetReply PROVE IInv'
    OBVIOUS
  <1>0. Types
    BY DEF IInv
  <1>1. CASE TakePbuf
    <2> DEFINE e == Head(cin)
               r == DigitOf(Head(cin)[1].code)
    <2>1. Answer(r, e) /\ Reads(r, e) /\ UNCHANGED <<op, up, srv>>
      BY <1>1 DEF GetReply, TakePbuf, Reads
    <2>2. misled' = (misled \/ e[1].code \in Torn \cap Consent)
      BY <1>1 DEF TakePbuf
    <2> HIDE DEF e, r
    <2>3. Types'
      BY <1>0, <2>1, AnswerTypes
    <2>4. CASE misled \/ e[1].code \in Torn \cap Consent
      BY <2>2, <2>3, <2>4 DEF IInv
    <2>5. CASE ~(misled \/ e[1].code \in Torn \cap Consent)
      <3>1. Sound /\ Honest(e)
        BY <2>5 DEF IInv, Honest
      <3>2. Sound'
        BY <2>1, <3>1, AnswerKeeps
      <3> QED
        BY <2>3, <3>2 DEF IInv
    <2> QED
      BY <2>4, <2>5
  <1>2. CASE cin = <<>> /\ Answer(FTP_TIMEDOUT, <<>>) /\ UNCHANGED <<cin, misled>>
    <2>1. Answer(FTP_TIMEDOUT, <<>>) /\ Reads(FTP_TIMEDOUT, <<>>) /\ UNCHANGED <<op, up, srv>>
      BY <1>2 DEF GetReply, Reads
    <2>2. Types' /\ (Sound => Sound')
      BY <1>0, <2>1, AnswerTypes, AnswerKeeps DEF Honest
    <2> QED
      BY <1>2, <2>2, Keep
  <1> QED
    BY <1>1, <1>2 DEF GetReply

(* A command is on its way: it is later than all others.                   *)
Written == /\ up /\ pc \in Commands /\ ~sent /\ sent' = TRUE /\ srv' = [srv EXCEPT !.inq = Append(@, pc)]
           /\ UNCHANGED <<pc, keep, op, cin, up, ret>>

LEMMA CommandTypes ==
  ASSUME Types, Written
  PROVE  Types'
  <1>1. srv.inq \in Seq(Asks) /\ pc \in Asks
    BY DEF Types, SrvType, Asks, Written
  <1>2. Append(srv.inq, pc) \in Seq(Asks)
    BY <1>1
  <1>3. srv' \in SrvType
    BY <1>1, <1>2 DEF Types, SrvType, Written
  <1> QED
    BY <1>1, <1>3 DEF Types, Written

LEMMA CommandKeeps ==
  ASSUME Sound, Written
  PROVE  Sound'
  <1>0. /\ up /\ pc \in Commands /\ ~sent /\ sent' = TRUE /\ srv' = [srv EXCEPT !.inq = Append(@, pc)]
        /\ UNCHANGED <<pc, keep, op, cin, up, ret>>
    BY DEF Written
  <1>1. Types /\ srv.inq \in Seq(Asks) /\ pc \in Asks
    BY <1>0 DEF Sound, Types, SrvType, Asks
  <1>2. Types'
    BY <1>1, CommandTypes
  <1>3. /\ srv'.inq = Append(srv.inq, pc)
        /\ srv'.login = srv.login /\ srv'.file = srv.file /\ srv'.eof = srv.eof
    BY <1>0, <1>1 DEF Types, SrvType
  <1> DEFINE n == Len(srv.inq)
  <1>4. /\ n \in Nat /\ Len(srv'.inq) = n + 1 /\ srv'.inq[n + 1] = pc
        /\ \A i \in 1..n : srv'.inq[i] = srv.inq[i] /\ srv.inq[i] \in Asks
    BY <1>0, <1>1, <1>3
  <1>5. Asked' = Asked \cup {pc}
    BY <1>0, <1>1, <1>4 DEF Asked
  <1>6. /\ Limit \in 0..8 /\ Limit' \in 0..8 /\ Limit < Rank[pc] /\ Rank[pc] <= Limit' /\ Limit <= Limit'
        /\ Rank[pc] \in 0..8
    <2>1. Limit = Unsent(pc) /\ Limit' = Sent(pc)
      BY <1>0, <1>1, <1>2, LimitAt
    <2> QED
      BY <1>0, <2>1, RankIs DEF Unsent, Sent, Commands
  <1>7. (\A r \in Waiting(cin) : Rank[r.cmd] < Rank[pc]) /\ (\A a \in Asked : Rank[a] < Rank[pc])
    <2>1. \A r \in Waiting(cin) : Rank[r.cmd] \in Int /\ Rank[r.cmd] <= Limit
      BY <1>0, <1>1, WaitingIs DEF Sound, Fifo
    <2>2. \A a \in Asked : Rank[a] \in Int /\ Rank[a] <= Limit
      BY <1>0, <1>1, AskedIs DEF Sound, Fifo
    <2> QED
      BY <1>0, <1>6, <2>1, <2>2
  <1>8. Fifo'
    <2>1. \A i, j \in 1..n + 1 : i < j => Rank[srv'.inq[i]] < Rank[srv'.inq[j]]
      <3> SUFFICES ASSUME NEW i \in 1..n + 1, NEW j \in 1..n + 1, i < j
                   PROVE  Rank[srv'.inq[i]] < Rank[srv'.inq[j]]
        OBVIOUS
      <3>1. i \in 1..n /\ srv'.inq[i] = srv.inq[i] /\ srv.inq[i] \in Asked
        BY <1>0, <1>4 DEF Asked
      <3>2. CASE j = n + 1
        BY <1>0, <1>4, <1>7, <3>1, <3>2
      <3>3. CASE j \in 1..n
        BY <1>0, <1>4, <3>1, <3>3 DEF Sound, Fifo
      <3> QED
        BY <1>0, <1>4, <3>2, <3>3
    <2>2. \A r \in Waiting(cin) : Rank[r.cmd] \in Int /\ Rank[r.cmd] <= Limit'
      BY <1>0, <1>1, <1>6, WaitingIs DEF Sound, Fifo
    <2>3. \A a \in Asked' : Rank[a] <= Limit'
      <3>1. \A a \in Asked : Rank[a] \in Int /\ Rank[a] <= Limit
        BY <1>0, <1>1, AskedIs DEF Sound, Fifo
      <3> QED
        BY <1>0, <1>5, <1>6, <3>1
    <2>4. \A r \in Waiting(cin), a \in Asked' : Rank[r.cmd] < Rank[a]
      BY <1>0, <1>5, <1>7 DEF Sound, Fifo
    <2> QED
      BY <1>0, <1>4, <2>1, <2>2, <2>3, <2>4 DEF Sound, Fifo
  <1>9. Login'
    <2>1. pc \in {"TYPE", "PASV", "SIZE", "RETR", "STOR"} => Rank[pc] >= 3
      BY <1>0, RankIs
    <2> QED
      BY <1>0, <1>3, <1>5, <2>1 DEF Sound, Login, Logged, Commands
  <1>10. File' /\ OkMeansStored'
    <2>1. Moved' = Moved /\ Apart' = Apart
      BY <1>0, <1>3 DEF Moved, Apart
    <2>2. Moved => Rank[pc] > 6 /\ Limit' >= 7
      BY <1>0, <1>6 DEF Sound, File
    <2>3. (pc = "RETR" => op = "get") /\ (pc = "STOR" => op = "put")
      BY <1>0 DEF Sound, File
    <2>4. File'
      BY <1>0, <1>3, <1>5, <2>1, <2>2, <2>3 DEF Sound, File
    <2>5. OkMeansStored'
      BY <1>0, <1>3 DEF Sound, OkMeansStored, Commands
    <2> QED
      BY <1>0, <2>4, <2>5
  <1> QED
    BY <1>0, <1>2, <1>8, <1>9, <1>10 DEF Sound

LEMMA SendCommandKeeps == IInv /\ SendCommand => IInv'
  <1> SUFFICES ASSUME IInv, SendCommand PROVE IInv'
    OBVIOUS
  <1>0. Types /\ misled' = misled
    BY DEF IInv, SendCommand
  <1>1. ASSUME NEW v \in {FTP_TOOBIG, FTP_BAD}, Answer(v, <<>>), UNCHANGED srv
        PROVE  IInv'
    <2>1. Reads(v, <<>>) /\ UNCHANGED <<op, up, srv>>
      BY <1>1 DEF SendCommand, Reads
    <2>2. Types' /\ (Sound => Sound')
      BY <1>0, <1>1, <2>1, AnswerTypes, AnswerKeeps DEF Honest
    <2> QED
      BY <1>0, <2>2, Keep
  <1>2. CASE up /\ sent' = TRUE /\ srv' = [srv EXCEPT !.inq = Append(@, pc)] /\ UNCHANGED <<pc, keep, ret>>
    <2>1. Written
      BY <1>2 DEF SendCommand, Written
    <2>2. Types' /\ (Sound => Sound')
      BY <1>0, <2>1, CommandTypes, CommandKeeps
    <2> QED
      BY <1>0, <2>2, Keep
  <1> QED
    BY <1>1, <1>2 DEF SendCommand

(* A step of the client that takes no reply and changes of the server no   *)
(* more than its data connection.                                          *)
Onward == /\ sent' = FALSE /\ keep' \in {None, FTP_BAD} /\ UNCHANGED <<op, cin, up>>
          /\ srv'.inq = srv.inq /\ srv'.login = srv.login /\ srv'.file = srv.file

LEMMA OnwardKeeps ==
  ASSUME Sound, Types', Onward, Limit <= Limit', ~Apart,
         pc \in {"newdata", "dial", "receive", "send"},
         pc' \in {"PASV", "SIZE", "QUIT", "return"} \/ (pc = "send" /\ pc' = "confirm"),
         srv'.eof = srv.eof \/ pc' = "confirm", ret' # ERR_OK \/ pc' # "return"
  PROVE  Sound'
  <1>1. Asked' = Asked /\ Logged' = Logged /\ Moved' = Moved /\ Waiting(cin') = Waiting(cin)
    BY DEF Onward, Asked, Logged, Moved
  <1>2. Fifo'
    BY ClientFifo DEF Sound, Onward, Takes
  <1>3. Login'
    BY <1>1 DEF Sound, Login, Onward
  <1>4. Moved => Limit' >= 7
    BY LimitIs DEF Sound, File
  <1>5. ~srv.eof
    BY DEF Sound, File, Apart
  <1>6. File'
    BY <1>1, <1>4, <1>5 DEF Sound, File, Onward, Apart
  <1>7. OkMeansStored'
    BY DEF OkMeansStored
  <1> QED
    BY <1>2, <1>3, <1>6, <1>7 DEF Sound

LEMMA DataKeeps == IInv /\ (OpenData \/ Dial \/ ReceiveData \/ SendFile) => IInv'
  <1> SUFFICES ASSUME IInv, OpenData \/ Dial \/ ReceiveData \/ SendFile PROVE IInv'
    OBVIOUS
  <1>1. Types /\ FTP_BAD # ERR_OK /\ misled' = misled
    BY DEF IInv, FTP_BAD, ERR_OK, OpenData, Dial, ReceiveData, SendFile
  <1>2. \/ pc = "newdata" /\ pc' \in {"PASV", "QUIT"}
        \/ pc = "dial" /\ pc' \in {"SIZE", "QUIT", "return"} /\ (pc' = "return" => ret' = FTP_BAD)
        \/ pc = "receive" /\ pc' = "QUIT"
        \/ pc = "send" /\ pc' = "confirm"
    BY DEF OpenData, Dial, ReceiveData, SendFile, OpenDataFailed, Quit, GoTo, Return
  <1>3. Onward /\ (srv'.eof = srv.eof \/ pc' = "confirm")
    BY <1>1 DEF OpenData, Dial, ReceiveData, SendFile, OpenDataFailed, Quit, GoTo, Return, Onward,
           Types, SrvType
  <1>4. Types'
    <2>1. srv' = srv \/ srv' = [srv EXCEPT !.link = TRUE]
          \/ \E written \in 0..1 : srv' = [srv EXCEPT !.link = FALSE, !.eof = TRUE, !.left = written]
      BY DEF OpenData, Dial, ReceiveData, SendFile
    <2>2. srv \in SrvType
      BY <1>1 DEF Types
    <2>3. [srv EXCEPT !.link = TRUE] \in SrvType
      BY <2>2 DEF SrvType
    <2>4. ASSUME NEW written \in 0..1
          PROVE  [srv EXCEPT !.link = FALSE, !.eof = TRUE, !.left = written] \in SrvType
      <3> DEFINE a == [srv EXCEPT !.link = FALSE]
                 b == [a EXCEPT !.eof = TRUE]
      <3>1. a \in SrvType
        BY <2>2 DEF SrvType
      <3> HIDE DEF a
      <3>2. b \in SrvType
        BY <3>1 DEF SrvType
      <3> HIDE DEF b
      <3>3. [b EXCEPT !.left = written] \in SrvType
        BY <3>2, <2>4 DEF SrvType
      <3> QED
        BY <3>3 DEF a, b
    <2>5. srv' \in SrvType
      BY <2>1, <2>2, <2>3, <2>4
    <2> QED
      BY <1>1, <1>2, <1>3, <2>5 DEF Types, Onward, States, Commands
  <1>5. Limit <= Limit'
    <2>1. Limit' = Unsent(pc') /\ Limit = Unsent(pc)
      BY <1>1, <1>2, <1>3, <1>4, LimitAt DEF Onward, Types, Commands
    <2> QED
      BY <1>2, <2>1 DEF Unsent
  <1>6. Sound => Sound'
    BY <1>1, <1>2, <1>3, <1>4, <1>5, OnwardKeeps DEF Apart
  <1> QED
    BY <1>1, <1>4, <1>6, Keep

(* The client has no session.                                              *)
LEMMA CallKeeps == ASSUME IInv, NEW o \in {"get", "put"}, Call(o) PROVE IInv'
  <1>0. Types /\ misled' = misled
    BY DEF IInv, Call
  <1>1. Types' /\ Apart'
    BY <1>0 DEF Types, Call, States, Apart, Commands
  <1>2. Asked' = Asked /\ Moved' = Moved /\ Limit' = 8 /\ pc' = "open" /\ Limit = 8 /\ cin' = cin
    BY <1>0, <1>1, LimitAt DEF Call, Asked, Moved, Types, Commands, Unsent
  <1>3. Sound => Fifo'
    BY <1>1, <1>2, ClientFifo DEF Call, Sound, Takes
  <1>4. Sound => Sound'
    BY <1>1, <1>2, <1>3 DEF Sound, Call, Login, File, OkMeansStored, Apart
  <1> QED
    BY <1>0, <1>1, <1>4, Keep

LEMMA LeaveKeeps == IInv /\ Leave => IInv'
  <1> SUFFICES ASSUME IInv, Leave PROVE IInv'
    OBVIOUS
  <1>0. Types /\ misled' = misled
    BY DEF IInv, Leave
  <1>1. Types' /\ Apart'
    BY <1>0 DEF Types, Leave, States, Apart, Commands
  <1>2. Asked' = Asked /\ Moved' = Moved /\ Limit' = 8 /\ pc' = "idle" /\ Limit = 8 /\ cin' = cin
    BY <1>0, <1>1, LimitAt DEF Leave, Asked, Moved, Types, Commands, Unsent
  <1>3. Sound => Fifo'
    BY <1>1, <1>2, ClientFifo DEF Leave, Sound, Takes
  <1>4. Sound => Sound'
    BY <1>1, <1>2, <1>3 DEF Sound, Leave, Login, File, OkMeansStored, Apart
  <1> QED
    BY <1>0, <1>1, <1>4, Keep

LEMMA OpenControlKeeps == IInv /\ OpenControl => IInv'
  <1> SUFFICES ASSUME IInv, OpenControl PROVE IInv'
    OBVIOUS
  <1>0. Types /\ pc = "open" /\ sent' = FALSE /\ keep' = keep
    BY DEF IInv, OpenControl, Return, GoTo
  <1>1. CASE pc' = "return" /\ ret' \in {FTP_BAD, ERR_CONN} /\ UNCHANGED <<op, cin, up, srv, misled>>
    <2>0. Apart' /\ ret' # ERR_OK
      BY <1>1 DEF Apart, FTP_BAD, ERR_CONN, ERR_OK
    <2>1. Types'
      BY <1>0, <1>1 DEF Types, States
    <2>2. Asked' = Asked /\ Moved' = Moved /\ Limit' = 8 /\ Limit = 8
      BY <1>0, <1>1, <2>1, LimitAt DEF Asked, Moved, Types, Commands, Unsent
    <2>3. Sound => Fifo'
      BY <1>1, <2>1, <2>2, ClientFifo DEF Sound, Takes
    <2>4. Sound => Sound'
      BY <1>1, <2>0, <2>1, <2>2, <2>3 DEF Sound, Login, File, OkMeansStored, Apart
    <2> QED
      BY <1>1, <2>1, <2>4, Keep
  <1>2. CASE /\ pc' = "welcome" /\ op' = op /\ cin' = <<>> /\ up' = TRUE
             /\ srv' = [login |-> "none", inq |-> <<"welcome">>, port |-> FALSE, link |-> FALSE, eof |-> FALSE,
                        file |-> "none", left |-> 0, spare |-> MoreSegs]
    <2>1. <<"welcome">> \in Seq(Asks) /\ MoreSegs \in Int /\ cin' \in Seq(Seq(Answers)) /\ Len(cin') = 0
      BY <1>2, FtpAssumption DEF Asks
    <2>2. Types'
      <3>1. srv' \in SrvType
        BY <1>2, <2>1 DEF SrvType
      <3>2. \A i \in 1..Len(cin') : cin'[i] # <<>>
        BY <2>1
      <3>3. pc' \in States /\ op' \in {"get", "put"} /\ sent' = FALSE /\ keep' \in {None, FTP_BAD}
        BY <1>0, <1>2 DEF Types, States
      <3>4. up' \in BOOLEAN
        BY <1>2
      <3> QED
        BY <2>1, <3>1, <3>2, <3>3, <3>4 DEF Types
    <2>3. Waiting(cin') = {} /\ InTurn(cin')
      BY <2>1 DEF Waiting, InTurn
    <2>4. Asked' = {"welcome"} /\ Len(srv'.inq) = 1
      BY <1>2 DEF Asked, Asks
    <2>5. Limit' = 0
      BY <1>0, <1>2, <2>2, LimitAt DEF Unsent
    <2>6. Fifo'
      BY <2>3, <2>4, <2>5, RankIs DEF Fifo
    <2>7. Sound'
      BY <1>2, <2>2, <2>3, <2>4, <2>6 DEF Sound, Login, File, OkMeansStored, Apart, Moved
    <2> QED
      BY <2>2, <2>7 DEF IInv
  <1> QED
    BY <1>1, <1>2 DEF OpenControl, Return, GoTo

-----------------------------------------------------------------------------
(* The server.                                                             *)

(* A reply of n + 1 segments, in turn when it is later than all others.    *)
LEMMA SaysKeeps ==
  ASSUME Types, NEW cmd \in Asks \cup {"file"}, NEW c \in CodesOf(cmd), NEW n \in Nat, Says(cmd, c, n)
  PROVE  /\ Pbufs(cin')
         /\ InTurn(cin) /\ (\A r \in Waiting(cin) : Rank[r.cmd] <= Rank[cmd]) => InTurn(cin')
         /\ \A r \in Waiting(cin') : r \in Waiting(cin) \/ (r.cmd = cmd /\ r.code \in Pieces(c))
  <1>1. c \in {220, 421, 331, 230, 530, 200, 227, 502, 213, 550, 150, 425, 226, 426, 221}
    <2>1. CASE cmd \in {"welcome", "USER", "PASS", "TYPE", "PASV"}
      BY <2>1 DEF CodesOf
    <2>2. CASE cmd \in {"SIZE", "RETR", "STOR", "file", "QUIT"}
      BY <2>2 DEF CodesOf
    <2> QED
      BY <2>1, <2>2 DEF Asks, Commands
  <1> QED
    BY <1>1, WaitingIs, SaysLast

(* What the server answers, and what it then does.                         *)
Effect(cmd, c) ==
  /\ srv'.login = CASE c = 331 -> "user" [] c = 230 -> "in" [] c = 530 -> "none" [] OTHER -> srv.login
  /\ srv'.file = IF c = 150 THEN (IF cmd = "RETR" THEN "get" ELSE "put") ELSE srv.file
  /\ srv'.inq = Tail(srv.inq) /\ srv'.eof = srv.eof

LEMMA CodesAre ==
  ASSUME NEW cmd \in Asks, NEW c \in Codes(cmd)
  PROVE  /\ c \in CodesOf(cmd)
         /\ c = 331 => cmd = "USER"
         /\ c = 230 => cmd \in {"USER", "PASS"}
         /\ c = 150 => cmd \in {"RETR", "STOR"}
         /\ c # 226
         /\ Logged /\ cmd \notin {"welcome", "USER", "PASS"} => c # 530
  <1>1. CASE cmd \in {"welcome", "USER", "PASS", "TYPE", "PASV"}
    BY <1>1 DEF Codes, CodesOf
  <1>2. CASE cmd \in {"SIZE", "RETR", "STOR", "QUIT"}
    BY <1>2 DEF Codes, CodesOf
  <1> QED
    BY <1>1, <1>2 DEF Asks, Commands

(* What the server has done after a command cmd it has answered with c.    *)
Served(cmd, c) ==
  /\ up /\ srv.inq # <<>> /\ cmd = Head(srv.inq) /\ cmd \in Asks /\ c \in Codes(cmd) /\ up' = (cmd # "QUIT")
  /\ srv.inq \in Seq(Asks) /\ \E n \in Nat : Says(cmd, c, n)
  /\ Effect(cmd, c) /\ UNCHANGED <<op, pc, sent, keep, ret, misled>>

LEMMA ServeTypes ==
  ASSUME Types, Serve
  PROVE  Types' /\ misled' = misled /\ \E cmd, c : Served(cmd, c)
  <1>1. /\ up /\ srv.inq # <<>> /\ srv.file \notin {"get", "put"} /\ Types /\ srv \in SrvType
        /\ srv.inq \in Seq(Asks) /\ srv.spare \in Int
        /\ UNCHANGED <<op, pc, sent, fits, keep, ret, calls, used, misled>>
    BY DEF Serve, Types, SrvType, client
  <1> DEFINE cmd == Head(srv.inq)
  <1>2. PICK c \in Codes(cmd), n \in 0..srv.spare :
          /\ Says(cmd, c, n)
          /\ up' = (cmd # "QUIT")
          /\ srv' = [srv EXCEPT
               !.inq = Tail(@), !.spare = @ - n,
               !.login = CASE c = 331 -> "user" [] c = 230 -> "in" [] c = 530 -> "none" [] OTHER -> @,
               !.port = @ \/ c = 227,
               !.file = IF c = 150 THEN (IF cmd = "RETR" THEN "get" ELSE "put") ELSE @,
               !.left = IF c = 150 /\ cmd = "RETR" THEN FileSegs ELSE @]
    BY DEF Serve
  <1>3. Effect(cmd, c)
    BY <1>1, <1>2 DEF Effect, SrvType
  <1>4. n \in Nat
    BY <1>1
  <1>5. srv' \in SrvType
    <2> DEFINE login == CASE c = 331 -> "user" [] c = 230 -> "in" [] c = 530 -> "none" [] OTHER -> srv.login
               port == srv.port \/ c = 227
               file == IF c = 150 THEN (IF cmd = "RETR" THEN "get" ELSE "put") ELSE srv.file
               left == IF c = 150 /\ cmd = "RETR" THEN FileSegs ELSE srv.left
               rest == Tail(srv.inq)
               spare == srv.spare - n
    <2>1. /\ rest \in Seq(Asks) /\ spare \in Int /\ left \in Int /\ port \in BOOLEAN
          /\ login \in {"none", "user", "in"} /\ file \in {"none", "get", "put", "sent", "stored", "failed"}
      BY <1>1, <1>4, FtpAssumption DEF SrvType
    <2>2. srv' = [srv EXCEPT !.inq = rest, !.spare = spare, !.login = login, !.port = port,
                             !.file = file, !.left = left]
      BY <1>1, <1>2 DEF SrvType
    <2> HIDE DEF login, port, file, left, rest, spare
    <2>3. srv' = [login |-> login, inq |-> rest, port |-> port, link |-> srv.link, eof |-> srv.eof,
                  file |-> file, left |-> left, spare |-> spare]
      BY <1>1, <2>2 DEF SrvType
    <2> QED
      BY <1>1, <2>1, <2>3 DEF SrvType
  <1>6. /\ cmd \in Asks /\ misled' = misled
    BY <1>1 DEF Serve, client
  <1> HIDE DEF cmd
  <1>7. Pbufs(cin')
    <2>1. c \in CodesOf(cmd) /\ cmd \in Asks \cup {"file"}
      BY <1>6, CodesAre
    <2> QED
      BY <1>1, <1>2, <1>4, <2>1, SaysKeeps
  <1>8. Types'
    BY <1>1, <1>2, <1>5, <1>7 DEF Types, Pbufs
  <1>9. Served(cmd, c)
    BY <1>1, <1>2, <1>3, <1>4, <1>6 DEF Served, cmd
  <1> QED
    BY <1>6, <1>8, <1>9

LEMMA ServeSound ==
  ASSUME Sound, Types', NEW cmd, NEW c, Served(cmd, c)
  PROVE  Sound'
  <1>1. /\ up /\ srv.inq # <<>> /\ cmd = Head(srv.inq) /\ Types /\ srv \in SrvType
        /\ srv.inq \in Seq(Asks) /\ UNCHANGED <<op, pc, sent, keep, ret, misled>>
    BY DEF Served, Sound, Types
  <1>2. c \in Codes(cmd) /\ up' = (cmd # "QUIT") /\ cmd \in Asks
    BY DEF Served
  <1>3. Effect(cmd, c)
    BY DEF Served
  <1>4. PICK n \in Nat : Says(cmd, c, n)
    BY DEF Served
  (* The command is the first of those that wait.                          *)
  <1>6. /\ cmd \in Asked /\ cmd \in Asks /\ Asked' \subseteq Asked /\ \A a \in Asked' : Rank[cmd] < Rank[a]
        /\ \A i, j \in 1..Len(srv'.inq) : i < j => Rank[srv'.inq[i]] < Rank[srv'.inq[j]]
    <2> DEFINE q == srv.inq
               t == Tail(srv.inq)
    <2>1. /\ Len(q) \in Nat /\ Len(q) > 0 /\ cmd = q[1] /\ Len(t) = Len(q) - 1
          /\ \A i \in 1..Len(t) : t[i] = q[i + 1] /\ i + 1 \in 1..Len(q)
      BY <1>1
    <2>2. srv'.inq = t
      BY <1>3 DEF Effect
    <2>3. \A i, j \in 1..Len(q) : i < j => Rank[q[i]] < Rank[q[j]]
      BY <1>1 DEF Sound, Fifo
    <2>4. cmd \in Asked /\ cmd \in Asks
      BY <1>1, <2>1 DEF Asked
    <2>5. Asked' = {a \in Asks : \E i \in 1..Len(t) : t[i] = a}
      BY <2>2 DEF Asked
    <2> HIDE DEF t
    <2>6. ASSUME NEW a \in Asked' PROVE a \in Asked /\ Rank[cmd] < Rank[a]
      <3>1. a \in Asks
        BY <2>5
      <3>2. PICK i \in 1..Len(t) : t[i] = a
        BY <2>5
      <3>3. i + 1 \in 1..Len(q) /\ q[i + 1] = a /\ 1 \in 1..Len(q) /\ 1 < i + 1
        BY <2>1, <3>2
      <3>4. Rank[q[1]] < Rank[q[i + 1]]
        BY <2>3, <3>3
      <3> QED
        BY <2>1, <3>1, <3>3, <3>4 DEF Asked
    <2>7. ASSUME NEW i \in 1..Len(t), NEW j \in 1..Len(t), i < j PROVE Rank[t[i]] < Rank[t[j]]
      <3>1. i + 1 \in 1..Len(q) /\ j + 1 \in 1..Len(q) /\ i + 1 < j + 1 /\ t[i] = q[i + 1] /\ t[j] = q[j + 1]
        BY <2>1, <2>7
      <3> QED
        BY <2>3, <3>1
    <2> QED
      BY <2>2, <2>4, <2>6, <2>7
  <1>7. /\ c \in CodesOf(cmd) /\ (c = 331 => cmd = "USER") /\ (c = 230 => cmd \in {"USER", "PASS"})
        /\ (c = 150 => cmd \in {"RETR", "STOR"}) /\ c # 226
        /\ (Logged /\ cmd \notin {"welcome", "USER", "PASS"} => c # 530)
    BY <1>2, CodesAre
  <1>8. \A r \in Waiting(cin) : Rank[r.cmd] < Rank[cmd]
    BY <1>1, <1>6 DEF Sound, Fifo
  <1>9. \A r \in Waiting(cin) : r \in Answers /\ Rank[r.cmd] \in 0..8
    BY <1>1, WaitingIs
  <1>10. Rank[cmd] \in 0..8 /\ Rank[cmd] # 7 /\ Rank[cmd] <= Limit /\ Limit \in Int
    BY <1>1, <1>6, AskedIs, LimitIs DEF Sound, Fifo
  <1>11. /\ Pbufs(cin') /\ InTurn(cin')
         /\ \A r \in Waiting(cin') : r \in Waiting(cin) \/ (r.cmd = cmd /\ r.code \in Pieces(c))
    <2>1. \A r \in Waiting(cin) : Rank[r.cmd] <= Rank[cmd]
      BY <1>8, <1>9, <1>10
    <2> QED
      BY <1>1, <1>2, <1>4, <1>6, <1>7, <2>1, SaysKeeps DEF Sound, Fifo
  <1>12. Types'
    OBVIOUS
  <1>13. Limit' = Limit
    BY <1>1, <1>12, LimitAt
  <1>14. Fifo'
    <2>1. \A r \in Waiting(cin') : Rank[r.cmd] <= Limit /\ Rank[r.cmd] <= Rank[cmd]
      BY <1>8, <1>9, <1>10, <1>11
    <2>2. \A r \in Waiting(cin'), a \in Asked' : Rank[r.cmd] < Rank[a]
      <3>1. \A a \in Asked' : Rank[cmd] < Rank[a] /\ Rank[a] \in Int
        BY <1>1, <1>6, AskedIs
      <3>2. \A r \in Waiting(cin') : Rank[r.cmd] <= Rank[cmd] /\ Rank[r.cmd] \in Int
        BY <1>9, <1>10, <1>11, <2>1
      <3> QED
        BY <1>10, <3>1, <3>2
    <2>3. up' => \A r \in Waiting(cin') : r.cmd # "QUIT"
      BY <1>1, <1>2, <1>11 DEF Sound, Fifo
    <2>4. \A a \in Asked' : Rank[a] <= Limit
      BY <1>1, <1>6 DEF Sound, Fifo
    <2> QED
      BY <1>6, <1>11, <1>13, <2>1, <2>2, <2>3, <2>4 DEF Fifo
  (* What waits and matters to the login or to the file came of an earlier *)
  (* command.                                                              *)
  <1>15. ASSUME NEW r \in Waiting(cin)
         PROVE  /\ r.code = 331 => Rank[cmd] > 1
                /\ r.code = 230 /\ r.cmd = "PASS" => Rank[cmd] > 2
                /\ r.code = 230 => Rank[cmd] > 1
    <2>1. (r.code = 331 => r.cmd = "USER") /\ (r.code = 230 => r.cmd \in {"USER", "PASS"})
      BY <1>9, AnswerIs
    <2> QED
      BY <1>8, <1>10, <2>1, RankIs
  <1>16. Login'
    <2>1. ASSUME pc = "USER", NEW r \in Waiting(cin')
          PROVE  (r.code = 331 => srv'.login = "user") /\ (r.code = 230 => srv'.login = "in")
      <3>1. Rank[cmd] <= 1
        BY <1>1, <1>10, <2>1, LimitAt DEF Sent, Unsent
      <3>2. CASE r \in Waiting(cin)
        BY <1>10, <1>15, <3>1, <3>2
      <3>3. CASE r.code \in Pieces(c)
        BY <1>3, <3>3 DEF Effect, Pieces, Torn, Blank, Letter
      <3> QED
        BY <1>11, <3>2, <3>3
    <2>2. ASSUME pc = "PASS"
          PROVE  /\ \A r \in Waiting(cin') :
                      Rank[r.cmd] >= 1 /\ (r.code = 230 => r.cmd = "PASS" /\ srv'.login = "in")
                 /\ up' => "USER" \notin Asked' /\ "welcome" \notin Asked'
      <3>1. Rank[cmd] <= 2
        BY <1>1, <1>10, <2>2, LimitAt DEF Sent, Unsent
      <3>2. cmd # "welcome" /\ cmd # "USER" /\ "USER" \notin Asked' /\ "welcome" \notin Asked'
        BY <1>1, <1>6, <2>2 DEF Sound, Login
      <3>3. ASSUME NEW r \in Waiting(cin) PROVE Rank[r.cmd] >= 1 /\ r.code # 230
        <4>1. r.code = 230 => r.cmd = "PASS"
          BY <2>2 DEF Sound, Login
        <4> QED
          BY <1>10, <1>15, <2>2, <3>1, <4>1 DEF Sound, Login
      <3>4. Rank[cmd] >= 1
        BY <1>6, <3>2, RankIs DEF Asks, Commands
      <3>5. ASSUME NEW r \in Waiting(cin'), r.cmd = cmd, r.code \in Pieces(c)
            PROVE  Rank[r.cmd] >= 1 /\ (r.code = 230 => r.cmd = "PASS" /\ srv'.login = "in")
        BY <1>3, <1>7, <3>2, <3>4, <3>5 DEF Effect, Pieces, Torn, Blank, Letter
      <3> QED
        BY <1>11, <3>2, <3>3, <3>5
    <2>3. ASSUME pc \in {"TYPE", "newdata", "PASV", "dial", "SIZE", "RETR", "STOR",
                         "receive", "send", "confirm"}
          PROVE  Logged' /\ \A a \in Asked' : Rank[a] >= 3
      <3>1. Logged /\ \A a \in Asked : Rank[a] >= 3
        BY <1>1, <2>3 DEF Sound, Login
      <3>2. cmd \notin {"welcome", "USER", "PASS"}
        BY <1>6, <3>1, RankIs
      <3> QED
        BY <1>3, <1>6, <1>7, <3>1, <3>2 DEF Effect, Logged
    <2> QED
      BY <1>1, <2>1, <2>2, <2>3 DEF Login
  <1>17. Moved => Rank[cmd] > 6
    BY <1>1, <1>6 DEF Sound, File
  <1>18. Moved => srv'.file = srv.file
    BY <1>3, <1>7, <1>17, RankIs DEF Effect
  <1>19. Moved' => Moved \/ (c = 150 /\ Rank[cmd] = 6)
    BY <1>3, <1>7, RankIs DEF Effect, Moved
  <1>20. File' /\ OkMeansStored'
    <2>1. \A r \in Waiting(cin') : /\ r.code = 150 => Moved'
                                   /\ r.code = 226 => srv'.file \in {"sent", "stored"}
                                   /\ r.cmd = "file" => Moved'
      <3> SUFFICES ASSUME NEW r \in Waiting(cin')
                   PROVE  /\ r.code = 150 => Moved'
                          /\ r.code = 226 => srv'.file \in {"sent", "stored"}
                          /\ r.cmd = "file" => Moved'
        OBVIOUS
      <3>1. CASE r \in Waiting(cin)
        BY <1>18, <3>1 DEF Sound, File, Moved
      <3>2. CASE r.cmd = cmd /\ r.code \in Pieces(c)
        BY <1>3, <1>6, <1>7, <3>2 DEF Effect, Moved, Pieces, Torn, Blank, Letter, Asks, Commands
      <3> QED
        BY <1>11, <3>1, <3>2
    <2>2. Moved' => Limit' >= 7
      BY <1>1, <1>10, <1>13, <1>19, LimitIs DEF Sound, File
    <2>3. Moved' /\ up' => \A a \in Asked' : Rank[a] > 6
      <3>1. \A a \in Asked' : Rank[a] \in Int
        BY <1>1, <1>6, AskedIs
      <3> QED
        BY <1>6, <1>10, <1>17, <1>19, <3>1
    <2>4. pc \in {"receive", "send", "confirm"} => Moved' /\ \A r \in Waiting(cin') : Rank[r.cmd] >= 6
      <3>1. ASSUME pc \in {"receive", "send", "confirm"} PROVE Moved /\ \A r \in Waiting(cin) : Rank[r.cmd] >= 6
        BY <3>1 DEF Sound, File
      <3> QED
        BY <1>10, <1>11, <1>17, <1>18, <3>1 DEF Moved
    <2>5. ~Apart => srv'.file \in IF op = "get" THEN {"none", "get", "sent", "failed"}
                                              ELSE {"none", "put", "stored", "failed"}
      <3>1. ~Apart /\ cmd = "RETR" => op = "get"
        BY <1>6 DEF Sound, File
      <3>2. ~Apart /\ cmd = "STOR" => op = "put"
        BY <1>6 DEF Sound, File
      <3> QED
        BY <1>3, <1>7, <3>1, <3>2 DEF Effect, Sound, File
    <2>6. srv'.eof = srv.eof /\ Apart' = Apart
      BY <1>1, <1>3 DEF Effect, Apart
    <2>7. srv.file = "stored" => srv'.file = "stored"
      BY <1>18 DEF Moved
    <2> QED
      BY <1>1, <1>6, <2>1, <2>2, <2>3, <2>4, <2>5, <2>6, <2>7 DEF Sound, File, OkMeansStored
  <1> QED
    BY <1>12, <1>14, <1>16, <1>20 DEF Sound

LEMMA ServeKeeps == IInv /\ Serve => IInv'
  <1> SUFFICES ASSUME IInv, Serve PROVE IInv'
    OBVIOUS
  <1>1. Types' /\ misled' = misled
    BY ServeTypes DEF IInv
  <1>2. PICK cmd, c : Served(cmd, c)
    BY ServeTypes DEF IInv
  <1>3. Sound => Sound'
    BY <1>1, <1>2, ServeSound
  <1> QED
    BY <1>1, <1>3, Keep

(* What the server changes without a word to the client.                   *)
LEMMA QuietKeeps ==
  ASSUME Sound, Types', UNCHANGED <<op, pc, sent, keep, ret, cin, misled>>, up' => up,
         srv'.inq = srv.inq, srv'.login = srv.login, srv'.file = srv.file, srv'.eof = srv.eof
  PROVE  Sound'
  <1>1. /\ Asked' = Asked /\ Moved' = Moved /\ Logged' = Logged /\ Apart' = Apart /\ Limit' = Limit
    BY LimitAt DEF Asked, Moved, Logged, Apart, Sound
  <1>2. Fifo'
    BY <1>1 DEF Sound, Fifo
  <1>3. Login' /\ File' /\ OkMeansStored'
    BY <1>1 DEF Sound, Login, File, OkMeansStored
  <1> QED
    BY <1>2, <1>3 DEF Sound

LEMMA ServeSegmentKeeps == IInv /\ ServeSegment => IInv'
  <1> SUFFICES ASSUME IInv, ServeSegment PROVE IInv'
    OBVIOUS
  <1>1. /\ srv \in SrvType /\ srv' = [srv EXCEPT !.left = @ - 1]
        /\ UNCHANGED <<op, pc, sent, keep, ret, cin, up, misled>>
    BY DEF IInv, Types, ServeSegment, client
  <1>2. /\ srv' \in SrvType /\ srv'.inq = srv.inq /\ srv'.login = srv.login /\ srv'.file = srv.file
        /\ srv'.eof = srv.eof
    BY <1>1 DEF SrvType
  <1>3. Types'
    BY <1>1, <1>2 DEF IInv, Types
  <1> QED
    BY <1>1, <1>2, <1>3, QuietKeeps, Keep

LEMMA DropKeeps == IInv /\ Drop => IInv'
  <1> SUFFICES ASSUME IInv, Drop PROVE IInv'
    OBVIOUS
  <1>1. /\ srv \in SrvType /\ srv' = [srv EXCEPT !.link = FALSE, !.port = FALSE]
        /\ UNCHANGED <<op, pc, sent, keep, ret, cin, misled>> /\ up' = FALSE
    BY DEF IInv, Types, Drop, client
  <1>2. /\ srv' \in SrvType /\ srv'.inq = srv.inq /\ srv'.login = srv.login /\ srv'.file = srv.file
        /\ srv'.eof = srv.eof
    BY <1>1 DEF SrvType
  <1>3. Types'
    BY <1>1, <1>2 DEF IInv, Types
  <1> QED
    BY <1>1, <1>2, <1>3, QuietKeeps, Keep

LEMMA CoalesceKeeps == IInv /\ Coalesce => IInv'
  <1> SUFFICES ASSUME IInv, Coalesce PROVE IInv'
    OBVIOUS
  <1>1. Types /\ Pbufs(cin) /\ UNCHANGED <<op, pc, sent, keep, ret, up, srv, misled>>
    BY WaitingIs DEF IInv, Coalesce, client
  <1>2. PICK i \in 1..Len(cin) - 1 :
          cin' = SubSeq(cin, 1, i - 1) \o <<cin[i] \o cin[i + 1]>> \o SubSeq(cin, i + 2, Len(cin))
    BY DEF Coalesce
  <1> DEFINE b == cin[i] \o cin[i + 1]
  <1>3. Joined(cin, i, b) /\ b \in Seq(Answers) /\ cin \in Seq(Seq(Answers))
    <2>1. cin \in Seq(Seq(Answers)) /\ Len(cin) \in Nat
      BY <1>1 DEF Pbufs
    <2>2. i \in 1..Len(cin) /\ i + 1 \in 1..Len(cin)
      BY <2>1
    <2>3. cin[i] \in Seq(Answers) /\ cin[i + 1] \in Seq(Answers)
      BY <2>1, <2>2
    <2> QED
      BY <2>1, <2>3 DEF Joined
  <1>4. cin' = SubSeq(cin, 1, i - 1) \o <<b>> \o SubSeq(cin, i + 2, Len(cin))
    BY <1>2
  <1> HIDE DEF b
  <1>5. cin' \in Seq(Seq(Answers)) /\ Spliced(cin, i, b, cin')
    <2>1. cin' = Splice(cin, i, b)
      BY <1>4 DEF Splice
    <2>2. i \in 1..Len(cin) - 1
      BY <1>2
    <2> QED
      BY <1>3, <2>1, <2>2, SpliceIs
  <1>6. Pbufs(cin') /\ Waiting(cin') \subseteq Waiting(cin) /\ (InTurn(cin) => InTurn(cin'))
    BY <1>1, <1>3, <1>5, JoinsTwo
  <1>7. Types'
    BY <1>1, <1>6 DEF Types, Pbufs
  <1>8. Asked' = Asked /\ Moved' = Moved /\ Logged' = Logged /\ Apart' = Apart /\ Limit' = Limit
    BY <1>1, <1>7, LimitAt DEF Asked, Moved, Logged, Apart
  <1>9. Sound => Fifo'
    BY <1>1, <1>6, <1>8 DEF Sound, Fifo
  <1>10. Sound => Login' /\ File' /\ OkMeansStored'
    BY <1>1, <1>6, <1>8 DEF Sound, Login, File, OkMeansStored
  <1> QED
    BY <1>1, <1>7, <1>9, <1>10, Keep DEF Sound

(* The server's word about the file.                                       *)
LEMMA ServeEndKeeps ==
  ASSUME IInv, srv.file \in {"get", "put"}, NEW done, NEW code, ServeEnd(done, code),
         \/ done = "failed" /\ code = 426
         \/ code = 226 /\ done = IF srv.file = "get" THEN "sent" ELSE "stored"
  PROVE  IInv'
  <1>1. /\ up /\ Types /\ srv \in SrvType /\ srv.spare \in Int
        /\ UNCHANGED <<op, pc, sent, fits, keep, ret, up, misled>>
    BY DEF ServeEnd, IInv, Types, SrvType, client
  <1>2. PICK n \in 0..srv.spare :
          Says("file", code, n) /\ srv' = [srv EXCEPT !.spare = @ - n, !.file = done, !.link = FALSE]
    BY DEF ServeEnd
  <1>3. n \in Nat
    BY <1>1
  <1>4. /\ srv' \in SrvType /\ srv'.inq = srv.inq /\ srv'.login = srv.login /\ srv'.file = done
        /\ srv'.eof = srv.eof
    <2> DEFINE spare == srv.spare - n
    <2>1. spare \in Int /\ done \in {"none", "get", "put", "sent", "stored", "failed"}
      BY <1>1, <1>3
    <2>2. srv' = [srv EXCEPT !.spare = spare, !.file = done, !.link = FALSE]
      BY <1>1, <1>2 DEF SrvType
    <2> HIDE DEF spare
    <2>3. srv' = [login |-> srv.login, inq |-> srv.inq, port |-> srv.port, link |-> FALSE, eof |-> srv.eof,
                  file |-> done, left |-> srv.left, spare |-> spare]
      BY <1>1, <2>2 DEF SrvType
    <2> QED
      BY <1>1, <2>1, <2>3 DEF SrvType
  <1>5. Moved /\ Moved' /\ Asked' = Asked /\ Logged' = Logged /\ Apart' = Apart
    BY <1>1, <1>4 DEF Moved, Asked, Logged, Apart
  <1>6. /\ Pbufs(cin')
        /\ InTurn(cin) /\ (\A r \in Waiting(cin) : Rank[r.cmd] <= Rank["file"]) => InTurn(cin')
        /\ \A r \in Waiting(cin') : r \in Waiting(cin) \/ (r.cmd = "file" /\ r.code \in Pieces(code))
    <2>1. "file" \in Asks \cup {"file"} /\ code \in CodesOf("file")
      BY DEF CodesOf
    <2> QED
      BY <1>1, <1>2, <1>3, <2>1, SaysKeeps
  <1>7. Types'
    BY <1>1, <1>4, <1>6 DEF Types, Pbufs
  <1>8. ASSUME Sound PROVE Sound'
    <2>1. \A a \in Asked : Rank[a] \in 0..8 /\ Rank[a] > 7
      BY <1>1, <1>5, <1>8, AskedIs DEF Sound, File
    <2>2. \A r \in Waiting(cin) : r \in Answers /\ Rank[r.cmd] \in 0..8 /\ Rank[r.cmd] <= 7
      <3>1. \A r \in Waiting(cin) : /\ r \in Answers /\ Rank[r.cmd] \in 0..8
                                     /\ r.cmd # "QUIT" /\ r.cmd \in Asks \cup {"file"}
        BY <1>1, <1>8, WaitingIs, AnswerIs DEF Sound, Fifo
      <3> QED
        BY <3>1, RankIs DEF Asks, Commands
    <2>3. /\ InTurn(cin')
          /\ \A r \in Waiting(cin') : r \in Waiting(cin) \/ (r.cmd = "file" /\ r.code \in Pieces(code))
      <3>1. \A r \in Waiting(cin) : Rank[r.cmd] <= Rank["file"]
        BY <2>2, RankIs
      <3> QED
        BY <1>6, <1>8, <3>1 DEF Sound, Fifo
    <2>4. Types'
      BY <1>7
    <2>5. Limit' = Limit /\ Limit \in Int /\ Limit >= 7
      BY <1>1, <1>5, <1>8, <2>4, LimitAt, LimitIs DEF Sound, File
    <2>6. \A r \in Waiting(cin') : Rank[r.cmd] \in 0..7
      BY <2>2, <2>3, RankIs
    <2>7. Fifo'
      <3>1. \A r \in Waiting(cin') : r.cmd # "QUIT"
        BY <1>1, <1>8, <2>3 DEF Sound, Fifo
      <3> QED
        BY SMTT(60), <1>1, <1>4, <1>5, <1>8, <2>1, <2>3, <2>5, <2>6, <3>1 DEF Sound, Fifo
    <2>8. Login'
      <3>1. pc \notin {"USER", "PASS"}
        BY <1>1, <2>5, LimitAt DEF Sent, Unsent
      <3> QED
        BY <1>1, <1>5, <1>8, <3>1 DEF Sound, Login
    <2>9. File' /\ OkMeansStored'
      <3>1. \A r \in Waiting(cin) : r.code # 226
        BY <1>8 DEF Sound, File
      <3>2. \A r \in Waiting(cin') : r.code = 226 => done \in {"sent", "stored"}
        BY <2>3, <3>1 DEF Pieces, Torn, Blank, Letter
      <3>3. pc \in {"receive", "send", "confirm"} => \A r \in Waiting(cin') : Rank[r.cmd] >= 6
        BY <1>8, <2>3, RankIs DEF Sound, File
      <3>4. ~Apart => done \in IF op = "get" THEN {"none", "get", "sent", "failed"}
                                             ELSE {"none", "put", "stored", "failed"}
        BY <1>8 DEF Sound, File
      <3>5. ~(pc = "QUIT" /\ keep = None /\ op = "put" /\ srv.eof)
        BY <1>8 DEF Sound, File
      <3>6. ~(pc = "return" /\ op = "put" /\ ret = ERR_OK /\ srv.eof /\ ~misled)
        BY <1>8 DEF Sound, OkMeansStored
      <3> QED
        BY <1>1, <1>4, <1>5, <1>8, <2>1, <2>5, <3>2, <3>3, <3>4, <3>5, <3>6 DEF Sound, File, OkMeansStored
    <2> QED
      BY <1>8, <2>4, <2>7, <2>8, <2>9 DEF Sound
  <1> QED
    BY <1>1, <1>7, <1>8, Keep

LEMMA ServeDoneKeeps == IInv /\ (ServeDone \/ ServeFail) => IInv'
  <1> SUFFICES ASSUME IInv, ServeDone \/ ServeFail PROVE IInv'
    OBVIOUS
  <1>1. CASE srv.file = "get" /\ ServeEnd("sent", 226)
    BY <1>1, ServeEndKeeps
  <1>2. CASE srv.file = "put" /\ ServeEnd("stored", 226)
    BY <1>2, ServeEndKeeps
  <1>3. CASE srv.file \in {"get", "put"} /\ ServeEnd("failed", 426)
    BY <1>3, ServeEndKeeps
  <1> QED
    BY <1>1, <1>2, <1>3 DEF ServeDone, ServeFail

-----------------------------------------------------------------------------
LEMMA IInvInit == Init => IInv
  <1> SUFFICES ASSUME Init PROVE IInv
    OBVIOUS
  <1>1. /\ pc = "idle" /\ op = "get" /\ sent = FALSE /\ up = FALSE /\ cin = <<>> /\ keep = None
        /\ srv = [login |-> "none", inq |-> <<>>, port |-> FALSE, link |-> FALSE,
                  eof |-> FALSE, file |-> "none", left |-> 0, spare |-> MoreSegs]
    BY DEF Init
  <1>2. srv \in SrvType
    BY <1>1, FtpAssumption DEF SrvType
  <1>3. cin \in Seq(Seq(Answers)) /\ Len(cin) = 0
    BY <1>1
  <1>4. Types
    <2>1. \A i \in 1..Len(cin) : cin[i] # <<>>
      BY <1>3
    <2>2. pc \in States
      BY <1>1 DEF States
    <2> QED
      BY <1>1, <1>2, <1>3, <2>1, <2>2 DEF Types
  <1>5. Waiting(cin) = {} /\ InTurn(cin)
    BY <1>3 DEF Waiting, InTurn
  <1>6. Limit = 8
    BY <1>1, <1>4, LimitAt DEF Unsent
  <1>7. Fifo /\ Login
    BY <1>1, <1>5 DEF Fifo, Login
  <1>8. File /\ OkMeansStored
    BY <1>1, <1>5 DEF File, OkMeansStored, Moved, Apart
  <1> QED
    BY <1>4, <1>7, <1>8 DEF IInv, Sound

LEMMA IInvNext == IInv /\ [Next]_vars => IInv'
  <1> SUFFICES ASSUME IInv, [Next]_vars PROVE IInv'
    OBVIOUS
  <1>1. CASE \E o \in {"get", "put"} : Call(o)
    BY <1>1, CallKeeps
  <1>2. CASE Client
    BY <1>2, OpenControlKeeps, DataKeeps, SendCommandKeeps, GetReplyKeeps, LeaveKeeps DEF Client
  <1>3. CASE Server \/ ServeFail
    BY <1>3, ServeKeeps, ServeSegmentKeeps, ServeDoneKeeps DEF Server
  <1>4. CASE Drop \/ Coalesce
    BY <1>4, DropKeeps, CoalesceKeeps
  <1>5. CASE UNCHANGED vars
    <2>1. Types'
      BY <1>5 DEF IInv, Types, vars
    <2>2. Sound => Sound'
      BY <1>5, <2>1, QuietKeeps DEF vars
    <2> QED
      BY <1>5, <2>1, <2>2, Keep DEF vars
  <1> QED
    BY <1>1, <1>2, <1>3, <1>4, <1>5 DEF Next

(* The inductive invariant holds throughout.                               *)
THEOREM Dialogue == Spec => []IInv
  BY IInvInit, IInvNext, PTL DEF Spec

(* However the server spreads its replies over segments and TCP joins      *)
(* them, a client that asks for a data connection is logged in, and it     *)
(* moves a file only when the server has answered this RETR or STOR with   *)
(* 150; unless, in this session, it has taken a digit in mid-line for the  *)
(* server's consent.                                                       *)
THEOREM InStepTheorem == Spec => []InStep
  <1>1. IInv => InStep
    BY DEF IInv, Sound, InStep, LoggedIn, Login, File, Moved, Apart
  <1> QED
    BY <1>1, Dialogue, PTL

(* ftp_put, when it has got as far as sending its data and no digit in     *)
(* mid-line has misled it, returns ERR_OK only when the server has said    *)
(* that it stored the file.                                                *)
THEOREM OkMeansStoredTheorem == Spec => []OkMeansStored
  <1>1. IInv => OkMeansStored
    BY DEF IInv, Sound, OkMeansStored
  <1> QED
    BY <1>1, Dialogue, PTL
================================================================================

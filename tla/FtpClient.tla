------------------------------ MODULE FtpClient ------------------------------
(***************************************************************************)
(* The FTP client (lwip_apps/ftpclient/ftpclient.c): ftp_get and ftp_put   *)
(* over a control and a data netconn, against any FTP server.              *)
(*                                                                         *)
(* The client takes ONE pbuf of the control connection for the reply to a  *)
(* command (get_reply has no loop), and a server may spread a reply over   *)
(* several segments, or TCP may hand two replies over in one pbuf: the     *)
(* client's place in the dialogue and the server's can come apart.  cin is *)
(* the receive mailbox of the control connection, one entry per pbuf, each *)
(* the replies that pbuf holds.  TCP may cut a reply anywhere, in its      *)
(* first number, its address or its text, so that a pbuf may begin with    *)
(* any character: a digit in mid-line passes for a reply's first digit     *)
(* ("213 " and "12345" are read as 2 and as 1), and misled remembers that  *)
(* one was taken for the server's consent.                                 *)
(*                                                                         *)
(* Abstracted: the text of commands and replies (a command is its name, a  *)
(* reply its code and the command it answers), the address in PASV's       *)
(* answer, the bytes of a file (FileSegs segments).  Left out is memory: a *)
(* failed netbuf_alloc in send_data, which writes through a null pointer;  *)
(* the netbuf itself that send_data hands to TCP in place of its data,     *)
(* without a copy (631), and deletes at once (633); and the 0 that         *)
(* get_line writes where the reply ends (515), which for a reply longer    *)
(* than the buffer (five characters at 393) is behind it.                  *)
(***************************************************************************)
EXTENDS Integers, Sequences

CONSTANTS MaxCalls,     \* calls of ftp_get and ftp_put (bound)
          Pool,         \* netconns in the pool
          MoreSegs,     \* segments beyond one per reply, in a session (bound)
          FileSegs,     \* segments of a file on the server
          Window        \* segments the data connection takes unread

ASSUME FtpAssumption == /\ MaxCalls \in Nat /\ Pool \in Nat
                        /\ MoreSegs \in Nat /\ FileSegs \in Nat /\ Window \in Nat

VARIABLES
  op, pc,       \* the function called, and where it is: mostly the command at hand
  sent,         \* the command at hand is written, its reply is awaited
  fits,         \* the file's name fits the 60 bytes of controlbuf
  keep,         \* what to return after QUIT whatever QUIT gives, or None
  ret,          \* the result
  calls, used,  \* calls made, netconns in use (some by others)
  cin,          \* pbufs waiting in the control connection
  up,           \* the server has the control connection open
  srv,          \* the server: login, transfer, commands not yet answered
  dq,           \* segments of the file waiting in the data connection
  misled        \* history: a digit in mid-line was read as consent, in this session

vars == <<op, pc, sent, fits, keep, ret, calls, used, cin, up, srv, dq, misled>>
client == <<op, pc, sent, fits, keep, ret, calls, used, misled>>

ERR_OK == 0
FTP_BAD == -2
FTP_TOOBIG == -5
FTP_BADFILENAME == -6
FTP_TIMEDOUT == -8
ERR_CONN == -11         \* whatever netconn_connect returns
None == 1

Commands == {"USER", "PASS", "TYPE", "PASV", "SIZE", "RETR", "STOR", "QUIT"}
Blank == -16            \* a line of text that starts with a blank, less '0'
Letter == 21            \* one that starts with a letter, or a digit no test is for
Torn == {1, 2, 3}       \* one that starts with this digit, in mid-line
Replies == [code : {Blank, Letter, 220, 421, 331, 230, 530, 200, 227, 502, 213, 550, 150,
                    425, 226, 426, 221} \cup Torn, cmd : Commands \cup {"welcome", "file"}]
Results == {ERR_OK, FTP_BAD, FTP_TOOBIG, FTP_BADFILENAME, FTP_TIMEDOUT, ERR_CONN, Blank}

-----------------------------------------------------------------------------
(* The client.                                                             *)

Return(v) == pc' = "return" /\ ret' = v /\ sent' = FALSE /\ UNCHANGED keep
GoTo(p) == pc' = p /\ sent' = FALSE /\ UNCHANGED <<keep, ret>>
(* ftpclientCloseSession, whose result is the call's unless v is.          *)
Quit(v) == pc' = "QUIT" /\ keep' = v /\ sent' = FALSE /\ UNCHANGED ret

Call(o) ==
  /\ pc = "idle" /\ calls < MaxCalls
  /\ op' = o /\ pc' = "open" /\ calls' = calls + 1
  /\ fits' \in BOOLEAN
  /\ UNCHANGED <<sent, keep, ret, used, cin, up, srv, dq, misled>>

(* netconn_new and netconn_connect: of the control connection (233-243).   *)
OpenControl ==
  /\ pc = "open"
  /\ \/ used = Pool /\ Return(FTP_BAD) /\ UNCHANGED <<used, cin, up, srv, dq, misled>>
     \/ /\ used < Pool /\ Return(ERR_CONN) /\ used' = used + 1
        /\ UNCHANGED <<cin, up, srv, dq, misled>>
     \/ /\ used < Pool /\ GoTo("welcome") /\ used' = used + 1
        /\ cin' = <<>> /\ up' = TRUE /\ dq' = 0 /\ misled' = FALSE
        /\ srv' = [login |-> "none", inq |-> <<"welcome">>, port |-> FALSE,
                   link |-> FALSE, eof |-> FALSE,
                   file |-> "none", left |-> 0, spare |-> MoreSegs]
  /\ UNCHANGED <<op, fits, calls>>

(* netconn_new of the data connection (250-257).                           *)
OpenData ==
  /\ pc = "newdata"
  /\ \/ used = Pool /\ Quit(FTP_BAD) /\ UNCHANGED used
     \/ used < Pool /\ GoTo("PASV") /\ used' = used + 1
  /\ UNCHANGED <<op, fits, calls, cin, up, srv, dq, misled>>

OpenDataFailed(v) == IF op = "get" THEN Return(v) ELSE Quit(None)

(* netconn_connect to the port PASV named (128): it is refused when nobody *)
(* listens there.                                                          *)
Dial ==
  /\ pc = "dial"
  /\ \/ srv.port /\ GoTo("SIZE") /\ srv' = [srv EXCEPT !.link = TRUE]
     \/ OpenDataFailed(FTP_BAD) /\ UNCHANGED srv
  /\ UNCHANGED <<op, fits, calls, used, cin, up, dq, misled>>

(* What is done with the result r of each command; e is the pbuf its reply *)
(* was read from, empty when there was none.                               *)
Has(e, c) == \E i \in 1..Len(e) : e[i].code = c

AfterWelcome(r) ==
  \/ r = 2 /\ GoTo("USER")
  \/ r = FTP_TIMEDOUT /\ Return(FTP_TIMEDOUT)
  \/ r = FTP_TIMEDOUT /\ GoTo("USER")     \* 220 in a buffer never written (157)
  \/ r \notin {2, FTP_TIMEDOUT} /\ Return(FTP_BAD)

(* "230" is looked for; a pbuf that begins with 2 may hold it or less.     *)
AfterUser(r, e) == \/ e # <<>> /\ e[1].code \in {230, 2} /\ GoTo("TYPE")
                   \/ r = 3 /\ GoTo("PASS")
                   \/ r # 3 /\ Return(FTP_BAD)
AfterPass(r) == IF r = 2 THEN GoTo("TYPE") ELSE Return(FTP_BAD)
AfterType(r) == IF r = 2 THEN GoTo("newdata") ELSE Return(FTP_BAD)

(* GetDynPort looks for the address in the whole buffer, as far as that    *)
(* holds what came after the first reply of the pbuf, and may find it cut  *)
(* off.                                                                    *)
AfterPasv(r, e) ==
  \/ r < 0 /\ OpenDataFailed(r)
  \/ r >= 0 /\ r # 2 /\ OpenDataFailed(FTP_BAD)
  \/ r = 2 /\ Has(e, 227) /\ GoTo("dial")
  \/ r = 2 /\ OpenDataFailed(FTP_BAD)

AfterRetr(r) == IF r < 0 THEN Return(r)
                ELSE IF r = 1 THEN GoTo("receive") ELSE Return(FTP_BADFILENAME)
AfterStor_NotNegative(r) == IF r < 0 THEN Quit(None) ELSE GoTo("send")      \* a fault
AfterStor(r) == IF r = 1 THEN GoTo("send") ELSE Quit(None)
AfterSent_Unread(r) == Quit(None)       \* a fault: the reply is not looked at
AfterSent(r) == Quit(IF r = 2 THEN None ELSE FTP_BAD)
AfterQuit(r) == Return(IF keep # None THEN keep
                       ELSE IF r = 2 THEN ERR_OK ELSE IF r < 0 THEN r ELSE FTP_BAD)

Answer(r, e) == \/ pc = "welcome" /\ AfterWelcome(r)
                \/ pc = "USER" /\ AfterUser(r, e)
                \/ pc = "PASS" /\ AfterPass(r)
                \/ pc = "TYPE" /\ AfterType(r)
                \/ pc = "PASV" /\ AfterPasv(r, e)
                \/ pc = "SIZE" /\ GoTo(IF op = "get" THEN "RETR" ELSE "STOR")
                \/ pc = "RETR" /\ AfterRetr(r)
                \/ pc = "STOR" /\ AfterStor(r)
                \/ pc = "confirm" /\ AfterSent(r)
                \/ pc = "QUIT" /\ AfterQuit(r)

(* command() up to netconn_write: the command is too long for the buffer,  *)
(* the connection is gone, or it is on its way.                            *)
SendCommand ==
  /\ pc \in Commands /\ ~sent
  /\ IF pc \in {"SIZE", "RETR", "STOR"} /\ ~fits
     THEN Answer(FTP_TOOBIG, <<>>) /\ UNCHANGED srv
     ELSE \/ ~up /\ Answer(FTP_BAD, <<>>) /\ UNCHANGED srv
          \/ /\ up /\ sent' = TRUE /\ srv' = [srv EXCEPT !.inq = Append(@, pc)]
             /\ UNCHANGED <<pc, keep, ret>>
  /\ UNCHANGED <<op, fits, calls, used, cin, up, dq, misled>>

DigitOf(c) == IF c \in {Blank, Letter} \cup Torn THEN c ELSE c \div 100

(* The digits that the test on the reply at hand takes for consent.        *)
Consent == CASE pc = "USER" -> {2, 3}
             [] pc \in {"PASS", "TYPE", "PASV", "confirm"} -> {2}
             [] pc \in {"RETR", "STOR"} -> {1}
             [] OTHER -> {}

(* One pbuf is taken, and its first character read.                        *)
TakePbuf ==
  /\ cin # <<>> /\ Answer(DigitOf(Head(cin)[1].code), Head(cin)) /\ cin' = Tail(cin)
  /\ misled' = (misled \/ Head(cin)[1].code \in Torn \cap Consent)

GetReply_Insists ==     \* a fault: get_line is tried again when it fails
  /\ sent \/ pc \in {"welcome", "confirm"}
  /\ TakePbuf
  /\ UNCHANGED <<op, fits, calls, used, up, srv, dq>>
(* get_reply: one pbuf, its first character; FTP_TIMEDOUT when the         *)
(* connection has ended (there is no time-out: recv_timeout is 0).         *)
GetReply ==
  /\ sent \/ pc \in {"welcome", "confirm"}
  /\ \/ TakePbuf
     \/ cin = <<>> /\ ~up /\ Answer(FTP_TIMEDOUT, <<>>) /\ UNCHANGED <<cin, misled>>
  /\ UNCHANGED <<op, fits, calls, used, up, srv, dq>>

(* ftpclientReceivedData: one pbuf of the file, or the end of the data     *)
(* connection; ftp_get overwrites the result by CloseSession's (285, 317). *)
ReceiveData ==
  /\ pc = "receive"
  /\ \/ dq > 0 /\ dq' = dq - 1
     \/ dq = 0 /\ ~srv.link /\ UNCHANGED dq
  /\ Quit(None)
  /\ UNCHANGED <<op, fits, calls, used, cin, up, srv, misled>>

(* send_file: one netconn_write and netconn_close.  Its error would be     *)
(* negative, but bytes is unsigned (383): both ways lead to get_reply.     *)
SendFile ==
  /\ pc = "send" /\ GoTo("confirm")
  /\ \E written \in 0..1 :
       /\ written = 1 => srv.link
       /\ srv' = [srv EXCEPT !.link = FALSE, !.eof = TRUE, !.left = written]
  /\ UNCHANGED <<op, fits, calls, used, cin, up, dq, misled>>

(* Back to the caller.  No path deletes or closes the two netconns.        *)
Leave ==
  /\ pc = "return" /\ pc' = "idle" /\ keep' = None
  /\ UNCHANGED <<op, sent, fits, ret, calls, used, cin, up, srv, dq, misled>>

Client == \/ OpenControl \/ OpenData \/ Dial \/ SendCommand \/ GetReply
          \/ ReceiveData \/ SendFile \/ Leave

-----------------------------------------------------------------------------
(* The server and the network (external).                                  *)

(* A reply, followed by n more segments of it: lines with the same code,   *)
(* lines of text, or what follows a cut anywhere in a line.                *)
Says(cmd, c, n) ==
  \E t \in [1..n + 1 -> {c, Blank, Letter} \cup Torn] :
    /\ t[1] = c
    /\ cin' = cin \o [i \in 1..n + 1 |-> <<[code |-> t[i], cmd |-> cmd]>>]

Logged == srv.login = "in"
Codes(cmd) ==
  CASE cmd = "welcome" -> {220}
    [] cmd = "USER" -> {331, 230, 530}
    [] cmd = "PASS" -> IF srv.login = "user" THEN {230, 530} ELSE {530}
    [] cmd = "TYPE" -> IF Logged THEN {200} ELSE {530}
    [] cmd = "PASV" -> IF Logged THEN {227, 502} ELSE {530}
    [] cmd = "SIZE" -> IF Logged THEN {213, 550} ELSE {530}
    [] cmd \in {"RETR", "STOR"} -> IF ~Logged THEN {530} ELSE {550}
                                     \cup (IF srv.link \/ srv.eof THEN {150} ELSE {})
                                     \cup (IF srv.link THEN {} ELSE {425})
    [] cmd = "QUIT" -> {221}

(* The server takes a command when it is not moving a file.                *)
Serve ==
  /\ up /\ srv.inq # <<>> /\ srv.file \notin {"get", "put"}
  /\ LET cmd == Head(srv.inq) IN
     \E c \in Codes(cmd), n \in 0..srv.spare :
       /\ Says(cmd, c, n)
       /\ up' = (cmd # "QUIT")
       /\ srv' = [srv EXCEPT
            !.inq = Tail(@), !.spare = @ - n,
            !.login = CASE c = 331 -> "user" [] c = 230 -> "in" [] c = 530 -> "none" [] OTHER -> @,
            !.port = @ \/ c = 227,
            !.file = IF c = 150 THEN (IF cmd = "RETR" THEN "get" ELSE "put") ELSE @,
            !.left = IF c = 150 /\ cmd = "RETR" THEN FileSegs ELSE @]
  /\ UNCHANGED <<client, dq>>

(* One segment of the file, as far as the client's window goes.            *)
ServeSegment ==
  /\ srv.file = "get" /\ srv.link /\ srv.left > 0 /\ dq < Window
  /\ dq' = dq + 1 /\ srv' = [srv EXCEPT !.left = @ - 1]
  /\ UNCHANGED <<client, cin, up>>

ServeEnd(done, code) ==
  /\ up
  /\ \E n \in 0..srv.spare :
       Says("file", code, n) /\ srv' = [srv EXCEPT !.spare = @ - n, !.file = done, !.link = FALSE]
  /\ UNCHANGED <<client, up, dq>>

ServeDone == \/ srv.file = "get" /\ srv.left = 0 /\ ServeEnd("sent", 226)
             \/ srv.file = "put" /\ srv.eof /\ srv.left = 1 /\ ServeEnd("stored", 226)
             \/ srv.file = "put" /\ ~srv.link /\ ServeEnd("failed", 426)
ServeFail == srv.file \in {"get", "put"} /\ ServeEnd("failed", 426)

(* The server, or the network, ends the session.                           *)
Drop == /\ up /\ up' = FALSE
        /\ srv' = [srv EXCEPT !.link = FALSE, !.port = FALSE]
        /\ UNCHANGED <<client, cin, dq>>

(* Two replies reach the client in one pbuf.                               *)
Coalesce ==
  /\ Len(cin) > 1
  /\ \E i \in 1..Len(cin) - 1 :
       cin' = SubSeq(cin, 1, i - 1) \o <<cin[i] \o cin[i + 1]>> \o SubSeq(cin, i + 2, Len(cin))
  /\ UNCHANGED <<client, up, srv, dq>>

-----------------------------------------------------------------------------
Init ==
  /\ op = "get" /\ pc = "idle" /\ sent = FALSE /\ fits = TRUE /\ keep = None /\ ret = ERR_OK
  /\ misled = FALSE
  /\ calls = 0 /\ used \in 0..Pool /\ cin = <<>> /\ up = FALSE /\ dq = 0
  /\ srv = [login |-> "none", inq |-> <<>>, port |-> FALSE, link |-> FALSE,
            eof |-> FALSE, file |-> "none", left |-> 0, spare |-> MoreSegs]

Server == Serve \/ ServeSegment \/ ServeDone
Next == \/ \E o \in {"get", "put"} : Call(o)
        \/ Client \/ Server \/ ServeFail \/ Drop \/ Coalesce

(* The client's task runs, the server answers what it can answer, gives up *)
(* a transfer that does not move and closes a session nobody uses, as      *)
(* servers' time-outs do.  The client relies on them, it has none: ftp_get *)
(* takes one segment of the file and then waits for a reply that comes     *)
(* only when the whole file is taken; a client that has fallen behind      *)
(* takes STOR for refused and waits for QUIT's reply while the server      *)
(* waits for the file; 426 in the same pbuf as 150 is never seen.          *)
IdleOut == srv.inq = <<>> /\ srv.file \notin {"get", "put"} /\ Drop
Spec == /\ Init /\ [][Next]_vars
        /\ WF_vars(Client) /\ WF_vars(Server) /\ WF_vars(ServeFail) /\ WF_vars(IdleOut)

-----------------------------------------------------------------------------
(* Properties.                                                             *)

(* A client that thinks it is logged in (it asks for a data connection) is *)
(* logged in: no left-over of an earlier reply passes for the server's     *)
(* consent to USER or PASS.                                                *)
LoggedIn == pc \in {"newdata", "PASV", "dial", "SIZE", "RETR", "STOR", "receive", "send", "confirm"}
              => Logged

(* However the server spreads its replies and TCP joins them, the client   *)
(* moves a file only when the server has answered this very RETR or STOR   *)
(* with 150, in a session it is logged in to: a client that has fallen     *)
(* behind in the dialogue is stopped by one of the tests on the way.  The  *)
(* exception is a reply that TCP cuts where a 1, 2 or 3 follows, when one  *)
(* of these tests takes that digit for the server's consent (578).         *)
InStep == \/ misled
          \/ /\ LoggedIn
             /\ pc = "receive" => srv.file \in {"get", "sent", "failed"}
             /\ pc \in {"send", "confirm"} => srv.file \in {"put", "stored", "failed"}

(* A put that has got as far as sending its data returns ERR_OK only when  *)
(* the server said that it stored the file (226), with QUIT's reply coming *)
(* one place late or not; unless a digit in mid-line has misled it before. *)
OkMeansStored ==
  pc = "return" /\ op = "put" /\ ret = ERR_OK /\ srv.eof /\ ~misled => srv.file = "stored"

(* A call returns, misled or not: the client never waits for a reply that  *)
(* is not to come, because it took it for another one's or the session has *)
(* ended.                                                                  *)
CallReturns == pc = "open" ~> pc = "idle"
=============================================================================

---------------------------------- MODULE Tcp ----------------------------------
(***************************************************************************)
(* A TCP connection between two hosts that both run this stack: tcp_in.c,  *)
(* tcp_out.c and tcp.c, and the netconn above them (api_msg.c, api_lib.c). *)
(* The client connects, writes all it has in one netconn_write and deletes *)
(* the connection; the server reads until the end of the stream, writes    *)
(* what it has and deletes its side, as FTP's two ends do.                 *)
(*                                                                         *)
(* All of tcp_*.c runs in the tcpip thread of its host: one segment, one   *)
(* timer or one API message at a time.  The application runs between them. *)
(* Each handler is a function from the host before it to the host after.   *)
(*                                                                         *)
(* Data is counted in units; a unit of the stream is its position in it,   *)
(* and a full segment holds Mss of them.  Sequence numbers do not wrap.    *)
(* Time-outs longer than a round trip happen when nothing is under way;    *)
(* otherwise, like losses, they count as trouble.  TCP_SND_QUEUELEN is not *)
(* reached, there is no keepalive, and memory for segments never runs out. *)
(***************************************************************************)
EXTENDS Integers, Sequences, SequencesExt

CONSTANTS
    ToWrite,      \* what each end writes, in units: a function on Ends
    Mss,          \* TCP_MSS
    Wnd,          \* TCP_WND
    Mbox,         \* DEFAULT_TCP_RECVMBOX_SIZE
    MaxRtx,       \* TCP_MAXRTX and TCP_SYNMAXRTX
    MaxTroubles   \* bound: losses, failures and time-outs that come too early

Ends == {"client", "server"}
Peer(e) == IF e = "client" THEN "server" ELSE "client"

U16 == 65536    \* how many values a u16_t has

ASSUME SizeAssumption ==
    /\ Mss \in Nat \ {0} /\ Wnd \in Nat /\ Wnd >= 2 * Mss /\ Wnd < U16
    /\ Mbox \in Nat \ {0} /\ MaxRtx \in Nat \ {0} /\ MaxTroubles \in Nat
ASSUME DataAssumption == ToWrite \in [Ends -> Nat]

VARIABLES
    host,      \* for each end its tcp_pcb, its netconn and its application
    net,       \* for each end the segments under way to it
    troubles,  \* how much has gone wrong
    overtaken  \* history: the ends of which a segment to be sent again once waited behind
               \* later ones, because the driver had refused it (see Overtaken)

vars == <<host, net, troubles, overtaken>>

SndBuf == 2 * Mss   \* TCP_SND_BUF
\* TCP_WND_UPDATE_THRESHOLD.
UpdateThreshold == Min({Wnd \div 4, 4 * Mss})

Active == {"SYN_SENT", "SYN_RCVD", "ESTABLISHED", "FIN_WAIT_1", "FIN_WAIT_2",
           "CLOSE_WAIT", "CLOSING", "LAST_ACK"}

-------------------------------------------------------------------------------
(* Segments, queued and on the wire.                                         *)

TcpLen(s) == Len(s.data) + (IF s.syn \/ s.fin THEN 1 ELSE 0)   \* TCP_TCPLEN
DataEnd(s) == s.seq + Len(s.data)
SegEnd(s) == s.seq + TcpLen(s)
Trim(s, n) == [s EXCEPT !.data = SubSeq(s.data, 1, n)]    \* pbuf_realloc

Segment(seq, data, syn, fin) == [seq |-> seq, data |-> data, syn |-> syn, fin |-> fin]

\* What goes out: a queued segment with the acknowledgement of the moment.
Wire(d, s) ==
    [seq |-> s.seq, data |-> s.data, syn |-> s.syn, fin |-> s.fin, rst |-> FALSE,
     ack |-> d.state # "SYN_SENT", ackno |-> d.rcv_nxt, wnd |-> d.rcv_ann_wnd]

Reset(seq, ackno) ==
    [seq |-> seq, data |-> <<>>, syn |-> FALSE, fin |-> FALSE, rst |-> TRUE,
     ack |-> TRUE, ackno |-> ackno, wnd |-> Wnd]
\* tcp_rst in answer to m.
ResetFor(m) == Reset(m.ackno, SegEnd(m))

\* The loops that walk a queue as long as a test holds: how far they get, when the test
\* holds at the places in S; and what the queue is up to there and behind.
Run(q, S) == CHOOSE n \in 0 .. Len(q) : 1 .. n \subseteq S /\ n + 1 \notin S
UpTo(q, n) == SubSeq(q, 1, n)
Behind(q, n) == SubSeq(q, n + 1, Len(q))

\* A segment into a queue that is ordered by sequence number.
InOrder(q, s) == LET n == Run(q, {i \in DOMAIN q : q[i].seq < s.seq})
                 IN  UpTo(q, n) \o <<s>> \o Behind(q, n)

Between(x, a, b) == a <= x /\ x <= b    \* TCP_SEQ_BETWEEN

-------------------------------------------------------------------------------
(* A host.                                                                   *)

NoPcb ==
    [state |-> "CLOSED", flags |-> {}, rcv_nxt |-> 0, rcv_wnd |-> Wnd, rcv_ann_wnd |-> Wnd,
     rcv_ann_right_edge |-> 0, rtime |-> FALSE, nrtx |-> 0, dupacks |-> 0, lastack |-> 0,
     cwnd |-> 1, snd_nxt |-> 0, snd_wl1 |-> 0, snd_wl2 |-> 0, snd_lbb |-> 0, snd_wnd |-> Wnd,
     snd_buf |-> SndBuf, acked |-> 0, unsent |-> <<>>, unacked |-> <<>>, ooseq |-> <<>>,
     refused_data |-> <<>>, refused_fin |-> FALSE, persist |-> FALSE]

\* What only lasts for one handler: tcp_input_pcb, recv_data, recv_flags, what is sent and
\* what the driver makes of it: sent at once, not at all, or with the buffer kept a while.
Handler ==
    [input |-> FALSE, recv_data |-> <<>>, recv_flags |-> {}, out |-> <<>>, driver |-> "sends"]
AtEnd(d) ==
    [d EXCEPT !.input = FALSE, !.recv_data = <<>>, !.recv_flags = {}, !.out = <<>>,
              !.driver = "sends"]

\* The netconn and the application: how far it is, what is left to write, recvmbox (the
\* end of the stream is an empty entry), what was read and how much of it tcp_recved does
\* not know yet; how the pcb ended, and which of the segments sent the driver still holds.
NewConn(e) ==
    [app |-> IF e = "client" THEN "start" ELSE "accept", left |-> ToWrite[e],
     recvmbox |-> <<>>, rcvopen |-> TRUE, took |-> 0, got |-> <<>>, eof |-> FALSE,
     ended |-> "no", held |-> {}]

Set(d, f) == [d EXCEPT !.flags = @ \cup f]
Clear(d, f) == [d EXCEPT !.flags = @ \ f]

\* The fields of f take the place of those of d.
With(d, f) == [x \in DOMAIN d \cup DOMAIN f |-> IF x \in DOMAIN f THEN f[x] ELSE d[x]]

\* The pcb is removed and freed; a listener goes on listening.
Gone(d, how) ==
    With([d EXCEPT !.ended = how, !.held = {}],
         [NoPcb EXCEPT !.state = IF d.app = "accept" THEN "LISTEN" ELSE "CLOSED"])

\* err_tcp: a waiting close is done, anything else fails.
ErrTcp(d) ==
    IF d.app \in {"start", "accept", "done", "failed"} THEN d
    ELSE [d EXCEPT !.app = IF @ = "close" THEN "done" ELSE "failed",
                   !.recvmbox = <<>>, !.took = 0]

Purge(d) ==
    [d EXCEPT !.refused_data = <<>>, !.refused_fin = FALSE, !.ooseq = <<>>, !.rtime = FALSE,
              !.unsent = <<>>, !.unacked = <<>>]
TimeWait(d) == [Purge(d) EXCEPT !.state = "TIME_WAIT"]

Emit(d, m) == IF d.driver = "fails" THEN d ELSE [d EXCEPT !.out = Append(@, m)]


-------------------------------------------------------------------------------
(* tcp_out.c                                                                 *)

Announce(d) == [d EXCEPT !.rcv_ann_right_edge = d.rcv_nxt + d.rcv_ann_wnd]

\* tcp_send_empty_ack.
SendEmptyAck(d) ==
    LET a == Emit(Announce(d), Wire(d, Segment(d.snd_nxt, <<>>, FALSE, FALSE)))
    IN  IF d.driver = "fails" THEN Set(a, {"ACK_DELAY", "ACK_NOW"})
        ELSE [Clear(a, {"ACK_DELAY", "ACK_NOW"}) EXCEPT !.out[Len(a.out)].ack = TRUE]

\* tcp_output_segment: nothing at all for a segment the driver still holds.
\* Bug: the retransmission timer is left as it is.
OutputSegment_NoTimer(d, s) ==
    IF s.seq \in d.held THEN d
    ELSE [Emit(Announce(d), Wire(d, s)) EXCEPT
             !.held = IF d.driver = "holds" THEN @ \cup {s.seq} ELSE @]
OutputSegment(d, s) ==
    IF s.seq \in d.held THEN d
    ELSE [Emit(Announce(d), Wire(d, s)) EXCEPT
             !.rtime = TRUE,
             !.held = IF d.driver = "holds" THEN @ \cup {s.seq} ELSE @]
OutputFails(d, s) == d.driver = "fails" /\ s.seq \notin d.held

\* The comparison is of unsigned numbers.
Fits(d, s) == Between(DataEnd(s) - d.lastack, 0, Min({d.snd_wnd, d.cwnd}))

\* tcp_do_output_nagle.
NagleAllows(d) ==
    \/ d.unacked = <<>> \/ "INFR" \in d.flags
    \/ Len(d.unsent) > 1 \/ Len(Head(d.unsent).data) >= Mss
    \/ d.snd_buf = 0

\* The loop of tcp_output: when it ends, what ends it early, and a turn of it.
Stops(d) ==
    \/ d.unsent = <<>> \/ ~Fits(d, Head(d.unsent))
    \/ ~NagleAllows(d) /\ d.flags \cap {"NAGLEMEMERR", "FIN"} = {}
Refused(d) == OutputFails(d, Head(d.unsent))
SendNext(d) ==
    IF Stops(d) \/ Refused(d) THEN d
    ELSE LET s == Head(d.unsent)
             acked == IF d.state = "SYN_SENT" THEN {} ELSE {"ACK_DELAY", "ACK_NOW"}
         IN  [Clear(OutputSegment(d, s), acked) EXCEPT
                 !.unsent = Tail(@),
                 !.snd_nxt = Max({@, SegEnd(s)}),
                 !.unacked = InOrder(@, s)]
SendUnsent(d) ==
    LET turn[n \in 0 .. Len(d.unsent)] == IF n = 0 THEN d ELSE SendNext(turn[n - 1])
        last == turn[Len(d.unsent)]
    IN  IF Stops(last) THEN Clear(last, {"NAGLEMEMERR"})
        ELSE Set(OutputSegment(last, Head(last.unsent)), {"NAGLEMEMERR"})

\* tcp_output.
Output(d) ==
    IF d.input THEN d
    ELSE IF "ACK_NOW" \in d.flags /\ (d.unsent = <<>> \/ ~Fits(d, Head(d.unsent)))
         THEN SendEmptyAck(d)
         ELSE SendUnsent(d)

\* The data of a tcp_write cut into new segments.
Cut(seq, data) ==
    [i \in 1 .. (Len(data) + Mss - 1) \div Mss |->
        Segment(seq + (i - 1) * Mss, SubSeq(data, (i - 1) * Mss + 1, Min({i * Mss, Len(data)})),
                FALSE, FALSE)]

\* tcp_write: the last unsent segment is filled before new ones are made.
Write(d, data) ==
    LET last == Last(d.unsent)
        room == IF d.unsent = <<>> \/ Len(last.data) = 0 THEN 0 ELSE Mss - Len(last.data)
        n == Min({room, Len(data)})
        rest == Cut(d.snd_lbb + n, SubSeq(data, n + 1, Len(data)))
    IN  [d EXCEPT !.unsent = (IF n = 0 THEN @
                              ELSE Front(@) \o <<[last EXCEPT !.data = @ \o SubSeq(data, 1, n)]>>)
                             \o rest,
                  !.snd_lbb = @ + Len(data), !.snd_buf = @ - Len(data)]

\* tcp_enqueue_flags.
EnqueueFlags(d, syn, fin) ==
    [Set(d, IF fin THEN {"FIN"} ELSE {}) EXCEPT
        !.unsent = Append(@, Segment(d.snd_lbb, <<>>, syn, fin)),
        !.snd_lbb = @ + 1, !.snd_buf = @ - 1]

\* tcp_send_fin, and when it succeeds: with the last unsent segment, or, as long as there
\* is room in the send buffer, in one of its own.
JoinsLast(d) == d.unsent # <<>> /\ ~Last(d.unsent).syn /\ ~Last(d.unsent).fin
CanSendFin(d) == JoinsLast(d) \/ d.snd_buf > 0
SendFin(d) ==
    IF JoinsLast(d)
    THEN Set([d EXCEPT !.unsent[Len(d.unsent)].fin = TRUE], {"FIN"})
    ELSE EnqueueFlags(d, FALSE, TRUE)

\* tcp_rexmit: the first unacknowledged segment goes back to the unsent ones.
Rexmit(d) ==
    IF d.unacked = <<>> THEN d
    ELSE [d EXCEPT !.unsent = InOrder(@, Head(d.unacked)), !.unacked = Tail(@), !.nrtx = @ + 1]

\* tcp_rexmit_fast.  The window it sets is at least that of the send buffer.
RexmitFast(d) ==
    IF d.unacked = <<>> \/ "INFR" \in d.flags THEN d
    ELSE [Set(Rexmit(d), {"INFR"}) EXCEPT !.cwnd = SndBuf, !.rtime = TRUE]

\* tcp_rexmit_rto, as tcp_slowtmr calls it.
\* Bug: the unsent segments are not linked behind those that go back.
RexmitRto_Unlinked(d) ==
    Output([d EXCEPT !.cwnd = Mss, !.unsent = d.unacked, !.unacked = <<>>, !.nrtx = @ + 1])
RexmitRto(d) ==
    Output([d EXCEPT !.cwnd = Mss, !.unsent = d.unacked \o @, !.unacked = <<>>, !.nrtx = @ + 1])

\* tcp_zero_window_probe: one unit, or the FIN, of the first segment there is.
ZeroWindowProbe(d) ==
    IF d.unacked \o d.unsent = <<>> THEN d
    ELSE LET s == Head(d.unacked \o d.unsent)
             fin == s.fin /\ s.data = <<>>
         IN  Emit(Announce(d), Wire(d, Segment(s.seq, SubSeq(s.data, 1, Min({1, Len(s.data)})), FALSE, fin)))

-------------------------------------------------------------------------------
(* tcp.c                                                                     *)

\* tcp_update_rcv_ann_wnd: the new window is only announced when it has moved by a
\* segment; and what it then returns.
CanAnnounce(d) ==
    d.rcv_nxt + d.rcv_wnd >= d.rcv_ann_right_edge + Min({Wnd \div 2, Mss})
UpdateAnnWnd(d) ==
    [d EXCEPT !.rcv_ann_wnd = IF CanAnnounce(d) THEN d.rcv_wnd
                              ELSE Max({0, d.rcv_ann_right_edge - d.rcv_nxt})]
Inflation(d) ==
    IF CanAnnounce(d) THEN d.rcv_nxt + d.rcv_wnd - d.rcv_ann_right_edge ELSE 0

Wrap(x) == x % U16    \* rcv_wnd has 16 bits

\* tcp_recved.
Recved(d, n) ==
    LET full == Wrap(d.rcv_wnd + n) = 0 /\ d.state \in {"CLOSE_WAIT", "LAST_ACK"}
        w == [d EXCEPT !.rcv_wnd = IF full THEN Wnd ELSE Min({Wrap(@ + n), Wnd})]
    IN  IF Inflation(w) >= UpdateThreshold THEN Output(Set(UpdateAnnWnd(w), {"ACK_NOW"}))
        ELSE UpdateAnnWnd(w)

\* tcp_abort.  One in TIME_WAIT is only freed; a delayed acknowledgement goes out first.
Abort(d) ==
    LET p == Purge(d)
        a == IF "ACK_DELAY" \in d.flags THEN Output(Set(p, {"ACK_NOW"})) ELSE p
    IN  IF d.state = "TIME_WAIT" THEN Gone(d, "aborted")
        ELSE ErrTcp(Gone(Emit(a, Reset(d.snd_nxt, d.rcv_nxt)), "aborted"))

\* tcp_close, for a connection that is or was established, and whether it succeeds.
Unread(d) == d.refused_data # <<>> \/ d.rcv_wnd # Wnd
CanClose(d) == Unread(d) \/ CanSendFin(d)
TcpClose(d) ==
    LET c == Set(d, {"RXCLOSED"})
        reset == Purge(Emit(c, Reset(c.snd_nxt, c.rcv_nxt)))
    IN  CASE Unread(c) /\ c.state = "ESTABLISHED" -> TimeWait(reset)
          [] Unread(c) /\ c.state = "CLOSE_WAIT" ->
                IF c.input THEN [reset EXCEPT !.recv_flags = @ \cup {"CLOSED"}]
                ELSE Gone(reset, "aborted")
          [] ~Unread(c) /\ CanSendFin(c) ->
                Output([SendFin(c) EXCEPT
                           !.state = IF @ = "ESTABLISHED" THEN "FIN_WAIT_1" ELSE "LAST_ACK"])
          [] OTHER -> c

-------------------------------------------------------------------------------
(* The netconn: api_msg.c.                                                   *)

\* lwip_netconn_do_writemore.
WriteMore(d) ==
    LET n == Min({d.left, d.snd_buf})
        units == [i \in 1 .. n |-> d.snd_lbb + i - 1]
    IN  Output([Write(d, units) EXCEPT !.left = @ - n,
                                       !.app = IF d.left = n THEN "written" ELSE "write"])

\* lwip_netconn_do_close_internal.
CloseInternal(d) == [TcpClose(d) EXCEPT !.app = IF CanClose(d) THEN "done" ELSE "close"]

\* sent_tcp and poll_tcp.
Sent(d) == CASE d.app = "write" -> WriteMore(d)
             [] d.app = "close" -> CloseInternal(d)
             [] OTHER -> d

\* netconn_drain.
Drain(d) ==
    LET Read(x, p) == IF p = <<>> THEN x ELSE Recved(x, Len(p))
        read[n \in 0 .. Len(d.recvmbox)] == IF n = 0 THEN d ELSE Read(read[n - 1], d.recvmbox[n])
    IN  [read[Len(d.recvmbox)] EXCEPT !.recvmbox = <<>>, !.rcvopen = FALSE]

\* recv_tcp, and whether it takes what it is given; without a mailbox data is dropped.
Takes(d) == d.rcvopen => Len(d.recvmbox) < Mbox
RecvTcp(d, p) ==
    CASE d.rcvopen /\ Takes(d) -> [d EXCEPT !.recvmbox = Append(@, p)]
      [] ~d.rcvopen /\ p # <<>> -> Recved(d, Len(p))
      [] OTHER -> d

\* The end of the stream is passed on, whether it is taken or not.
EndOfStream(d) ==
    RecvTcp([d EXCEPT !.rcv_wnd = IF @ = Wnd THEN @ ELSE Wrap(@ + 1)], <<>>)

\* tcp_process_refused_data.
ProcessRefused(d) ==
    LET p == RecvTcp([d EXCEPT !.refused_data = <<>>, !.refused_fin = FALSE], d.refused_data)
    IN  IF d.refused_data = <<>> \/ ~Takes(d) THEN d
        ELSE IF d.refused_fin THEN EndOfStream(p) ELSE p

-------------------------------------------------------------------------------
(* tcp_in.c: tcp_receive.                                                    *)

\* The segments at the head of a queue that an acknowledgement covers leave it; that of a FIN is not
\* part of what the application is told.
Acknowledge(d, queue, ackno) ==
    LET n == Run(d[queue], {i \in DOMAIN d[queue] : SegEnd(d[queue][i]) <= ackno})
        fin == \E i \in 1 .. n : d[queue][i].fin
    IN  [d EXCEPT ![queue] = Behind(@, n),
                  !.acked = IF fin THEN Max({0, @ - 1}) ELSE @]

\* Bug: an old segment updates the window too.
WindowUpdate_Old(d, m) ==
    [d EXCEPT !.snd_wnd = m.wnd, !.snd_wl1 = m.seq, !.snd_wl2 = m.ackno, !.persist = (m.wnd = 0)]
WindowUpdate(d, m) ==
    IF \/ d.snd_wl1 < m.seq
       \/ d.snd_wl1 = m.seq /\ d.snd_wl2 < m.ackno
       \/ d.snd_wl2 = m.ackno /\ m.wnd > d.snd_wnd
    THEN [d EXCEPT !.snd_wnd = m.wnd, !.snd_wl1 = m.seq, !.snd_wl2 = m.ackno,
                   !.persist = (m.wnd = 0)]
    ELSE d

\* An acknowledgement seen before; moved says that it moved the window.  From the third
\* duplicate on it does not matter how many.
OldAck(d, m, moved) ==
    LET duplicate == TcpLen(m) = 0 /\ ~moved /\ d.rtime /\ d.lastack = m.ackno
        a == [d EXCEPT !.acked = 0, !.dupacks = IF duplicate THEN Min({@ + 1, 4}) ELSE 0]
    IN  CASE duplicate /\ a.dupacks = 3 -> RexmitFast(a)
          [] duplicate /\ a.dupacks > 3 -> [a EXCEPT !.cwnd = Min({@ + Mss, SndBuf})]
          [] OTHER -> a

NewAck(d, m) ==
    LET n == m.ackno - d.lastack
        a == Acknowledge([Clear(d, {"INFR"}) EXCEPT !.acked = n], "unacked", m.ackno)
    IN  [a EXCEPT !.cwnd = SndBuf, !.nrtx = 0, !.snd_buf = @ + n, !.dupacks = 0,
                  !.lastack = m.ackno, !.rtime = (a.unacked # <<>>)]

\* The acknowledgement part of tcp_receive.
Ack(d, m) ==
    LET w == WindowUpdate(d, m)
        moved == w.snd_wl2 + w.snd_wnd # d.snd_wl2 + d.snd_wnd
        a == CASE m.ackno <= d.lastack -> OldAck(w, m, moved)
               [] Between(m.ackno, d.lastack + 1, d.snd_nxt) -> NewAck(w, m)
               [] OTHER -> SendEmptyAck([w EXCEPT !.acked = 0])
    IN  IF m.ackno <= a.snd_nxt THEN Acknowledge(a, "unsent", m.ackno) ELSE a

\* Queued segments that a new one with this end covers, and the others.  If one of those
\* it covers has a FIN then it gets it, otherwise it ends where the first other one begins.
Merge(s, queue) ==
    LET n == Run(queue, {i \in DOMAIN queue : DataEnd(s) >= DataEnd(queue[i])})
        rest == Behind(queue, n)
        fin == \E i \in 1 .. n : queue[i].fin
    IN  IF s.fin THEN <<s>>
        ELSE <<IF rest # <<>> /\ DataEnd(s) > Head(rest).seq
               THEN Trim(s, Head(rest).seq - s.seq) ELSE [s EXCEPT !.fin = fin]>> \o rest

\* What does not fit in the window is cut off, with the FIN.
FitWindow(d, s) ==
    IF SegEnd(s) > d.rcv_nxt + d.rcv_wnd
    THEN [Trim(s, d.rcv_nxt + d.rcv_wnd - s.seq) EXCEPT !.fin = FALSE] ELSE s

\* A segment is received in sequence.
Accept(d, s) ==
    UpdateAnnWnd([d EXCEPT !.rcv_nxt = SegEnd(s), !.rcv_wnd = Wrap(@ - TcpLen(s)),
                           !.recv_data = @ \o s.data,
                           !.recv_flags = @ \cup (IF s.fin THEN {"GOT_FIN"} ELSE {})])

\* Then the queued ones that follow it.
DequeueNext(d) ==
    IF d.ooseq = <<>> \/ Head(d.ooseq).seq # d.rcv_nxt THEN d
    ELSE LET s == Head(d.ooseq)
         IN  [Accept(d, s) EXCEPT
                 !.ooseq = Tail(@),
                 !.state = IF s.fin /\ @ = "ESTABLISHED" THEN "CLOSE_WAIT" ELSE @]
Dequeue(d) ==
    LET turn[n \in 0 .. Len(d.ooseq)] == IF n = 0 THEN d ELSE DequeueNext(turn[n - 1])
    IN  turn[Len(d.ooseq)]

\* tcp_ack: every other segment is acknowledged at once.
AckSegment(d) ==
    IF "ACK_DELAY" \in d.flags THEN Set(Clear(d, {"ACK_DELAY"}), {"ACK_NOW"})
    ELSE Set(d, {"ACK_DELAY"})

InSequence(d, s) ==
    LET q == Merge(FitWindow(d, s), d.ooseq)
    IN  AckSegment(Dequeue(Accept([d EXCEPT !.ooseq = Tail(q)], Head(q))))

\* A segment out of sequence is queued; only one that comes last is cut to the window.
Queue(d, s) ==
    LET n == Run(d.ooseq, {i \in DOMAIN d.ooseq : d.ooseq[i].seq < s.seq})
        before == UpTo(d.ooseq, n)
        after == Behind(d.ooseq, n)
        last == Last(before)
        trimmed == IF before = <<>> THEN <<>>
                   ELSE Front(before) \o
                        <<IF DataEnd(last) > s.seq THEN Trim(last, s.seq - last.seq) ELSE last>>
    IN  IF \/ after # <<>> /\ Head(after).seq = s.seq /\ Len(s.data) <= Len(Head(after).data)
           \/ before # <<>> /\ after = <<>> /\ last.fin
        THEN d
        ELSE [d EXCEPT !.ooseq = trimmed \o (IF before # <<>> /\ after = <<>>
                                             THEN <<FitWindow(d, s)>> ELSE Merge(s, after))]

\* Bug: of a segment that was received in part all is taken.
Data_Whole(d, m) ==
    LET covers == Between(d.rcv_nxt, m.seq + 1, SegEnd(m) - 1)
        s == Segment(IF covers THEN d.rcv_nxt ELSE m.seq, m.data, m.syn, m.fin)
        a == IF s.seq < d.rcv_nxt THEN Set(d, {"ACK_NOW"}) ELSE d
    IN  IF ~Between(s.seq, d.rcv_nxt, d.rcv_nxt + d.rcv_wnd - 1) THEN SendEmptyAck(a)
        ELSE IF s.seq = d.rcv_nxt THEN InSequence(a, s)
        ELSE Queue(SendEmptyAck(a), s)
\* The data part of tcp_receive.
Data(d, m) ==
    LET covers == Between(d.rcv_nxt, m.seq + 1, SegEnd(m) - 1)
        s == IF covers
             THEN Segment(d.rcv_nxt, SubSeq(m.data, d.rcv_nxt - m.seq + 1, Len(m.data)), m.syn, m.fin)
             ELSE Segment(m.seq, m.data, m.syn, m.fin)
        a == IF s.seq < d.rcv_nxt THEN Set(d, {"ACK_NOW"}) ELSE d
    IN  IF ~Between(s.seq, d.rcv_nxt, d.rcv_nxt + d.rcv_wnd - 1) THEN SendEmptyAck(a)
        ELSE IF s.seq = d.rcv_nxt THEN InSequence(a, s)
        ELSE Queue(SendEmptyAck(a), s)

\* tcp_receive.
Receive(d, m) ==
    LET a == IF m.ack THEN Ack(d, m) ELSE d
    IN  IF TcpLen(m) > 0 /\ a.state \in {"ESTABLISHED", "FIN_WAIT_1", "FIN_WAIT_2"} THEN Data(a, m)
        ELSE IF Between(m.seq, a.rcv_nxt, a.rcv_nxt + a.rcv_wnd - 1) THEN a
        ELSE Set(a, {"ACK_NOW"})

-------------------------------------------------------------------------------
(* tcp_in.c: tcp_process and tcp_input.                                      *)

ProcessReset(d, m) ==
    IF \/ d.state = "SYN_SENT" /\ m.ackno = d.snd_nxt
       \/ d.state # "SYN_SENT" /\ Between(m.seq, d.rcv_nxt, d.rcv_nxt + d.rcv_wnd)
    THEN [Clear(d, {"ACK_DELAY"}) EXCEPT !.recv_flags = @ \cup {"RESET"}] ELSE d

\* The SYN|ACK is compared with the first segment of unacked, if there is one or not.
ProcessSynSent(d, m) ==
    CASE m.syn /\ m.ack /\ d.unacked = <<>> -> [d EXCEPT !.state = "FAULT"]
      [] m.syn /\ m.ack /\ d.unacked # <<>> /\ m.ackno = Head(d.unacked).seq + 1 ->
            Set([d EXCEPT !.snd_buf = @ + 1, !.rcv_nxt = m.seq + 1,
                          !.rcv_ann_right_edge = m.seq + 1, !.lastack = m.ackno,
                          !.snd_wnd = m.wnd, !.snd_wl1 = m.seq - 1, !.state = "ESTABLISHED",
                          !.cwnd = SndBuf, !.unacked = Tail(@), !.rtime = Len(d.unacked) > 1,
                          !.nrtx = IF Len(d.unacked) > 1 THEN 0 ELSE @, !.app = "open"],
                {"ACK_NOW"})
      [] m.ack /\ ~m.syn -> Emit(d, ResetFor(m))
      [] m.ack /\ m.syn /\ d.unacked # <<>> /\ m.ackno # Head(d.unacked).seq + 1 ->
            Emit(d, ResetFor(m))
      [] OTHER -> d

PassiveClose(d) ==
    IF "GOT_FIN" \in d.recv_flags THEN [Set(d, {"ACK_NOW"}) EXCEPT !.state = "CLOSE_WAIT"] ELSE d

ProcessSynRcvd(d, m) ==
    LET r == Receive([d EXCEPT !.state = "ESTABLISHED", !.app = "open"], m)
    IN  CASE m.ack /\ Between(m.ackno, d.lastack + 1, d.snd_nxt) ->
                PassiveClose([r EXCEPT !.acked = Max({0, @ - 1}), !.cwnd = SndBuf])
          [] m.ack /\ ~Between(m.ackno, d.lastack + 1, d.snd_nxt) -> Emit(d, ResetFor(m))
          [] ~m.ack /\ m.syn /\ m.seq = d.rcv_nxt - 1 -> Rexmit(d)
          [] OTHER -> d

\* The states that follow the FIN: one that acknowledges snd_nxt is taken to acknowledge it.
ProcessClosing(d, m) ==
    LET r == Receive(d, m)
        fin == "GOT_FIN" \in r.recv_flags
        acked == m.ack /\ m.ackno = r.snd_nxt
        now == IF fin THEN Set(r, {"ACK_NOW"}) ELSE r
    IN  CASE d.state = "FIN_WAIT_1" /\ fin /\ acked -> TimeWait(now)
          [] d.state = "FIN_WAIT_1" /\ fin /\ ~acked -> [now EXCEPT !.state = "CLOSING"]
          [] d.state = "FIN_WAIT_1" /\ ~fin /\ acked -> [r EXCEPT !.state = "FIN_WAIT_2"]
          [] d.state = "FIN_WAIT_2" /\ fin -> TimeWait(now)
          [] d.state = "CLOSING" /\ acked -> TimeWait(r)
          [] d.state = "LAST_ACK" /\ acked -> [r EXCEPT !.recv_flags = @ \cup {"CLOSED"}]
          [] OTHER -> r

\* tcp_process.
Process(d, m) ==
    CASE m.rst -> ProcessReset(d, m)
      [] ~m.rst /\ m.syn /\ d.state \notin {"SYN_SENT", "SYN_RCVD"} -> Set(d, {"ACK_NOW"})
      [] ~m.rst /\ d.state = "SYN_SENT" -> ProcessSynSent(d, m)
      [] ~m.rst /\ d.state = "SYN_RCVD" -> ProcessSynRcvd(d, m)
      [] ~m.rst /\ ~m.syn /\ d.state \in {"ESTABLISHED", "CLOSE_WAIT"} -> PassiveClose(Receive(d, m))
      [] OTHER -> ProcessClosing(d, m)

\* What tcp_input does with recv_data, and then with the end of the stream.
GiveData(d) ==
    IF d.recv_data = <<>> THEN d
    ELSE IF Takes(d) THEN RecvTcp(d, d.recv_data) ELSE [d EXCEPT !.refused_data = d.recv_data]
GiveFin(d) ==
    CASE "GOT_FIN" \notin d.recv_flags -> d
      [] "GOT_FIN" \in d.recv_flags /\ d.refused_data # <<>> -> [d EXCEPT !.refused_fin = TRUE]
      [] OTHER -> EndOfStream(d)

\* tcp_input after tcp_process; a pcb that ends here has been deleted by its netconn, or
\* its netconn is told.
Conclude(d) ==
    LET s == IF d.acked > 0 THEN Sent(d) ELSE d
    IN  IF d.state = "FAULT" THEN d
        ELSE IF "RESET" \in d.recv_flags THEN Gone(ErrTcp(d), "reset")
        ELSE IF "CLOSED" \in s.recv_flags
             THEN Gone(s, IF s.state = "LAST_ACK" THEN "closed" ELSE "aborted")
        ELSE IF s.recv_data # <<>> /\ "RXCLOSED" \in s.flags THEN Abort(s)
        ELSE Output([GiveFin(GiveData(s)) EXCEPT !.input = FALSE])

\* tcp_listen_input.
ListenInput(d, m) ==
    LET new == With(d, [NoPcb EXCEPT !.state = "SYN_RCVD", !.rcv_nxt = m.seq + 1,
                                     !.rcv_ann_right_edge = m.seq + 1, !.snd_wl1 = m.seq - 1,
                                     !.snd_wnd = m.wnd, !.snd_wl2 = 1, !.snd_nxt = 1,
                                     !.lastack = 1, !.snd_lbb = 1])
    IN  CASE ~m.rst /\ m.ack -> Emit(d, ResetFor(m))
          [] ~m.rst /\ ~m.ack /\ m.syn -> Output(EnqueueFlags(new, TRUE, FALSE))
          [] OTHER -> d

\* tcp_timewait_input.
TimeWaitInput(d, m) ==
    CASE ~m.rst /\ m.syn /\ Between(m.seq, d.rcv_nxt, d.rcv_nxt + d.rcv_wnd) -> Emit(d, ResetFor(m))
      [] ~m.rst /\ TcpLen(m) > 0 /\ ~(m.syn /\ Between(m.seq, d.rcv_nxt, d.rcv_nxt + d.rcv_wnd)) ->
            Output(Set(d, {"ACK_NOW"}))
      [] OTHER -> d

\* tcp_input: data is dropped as long as there is data that was refused.
Input(d, m) ==
    LET r == ProcessRefused(d)
    IN  CASE d.state = "CLOSED" -> IF m.rst THEN d ELSE Emit(d, ResetFor(m))
          [] d.state = "LISTEN" -> ListenInput(d, m)
          [] d.state = "TIME_WAIT" -> TimeWaitInput(d, m)
          [] d.state \in Active /\ r.refused_data # <<>> /\ TcpLen(m) > 0 -> r
          [] OTHER -> Conclude(Process([r EXCEPT !.input = TRUE], m))

-------------------------------------------------------------------------------
(* The steps: each is a handler of one host, with what it sends.              *)

Init ==
    /\ host = [e \in Ends |-> With(With(NewConn(e), Handler),
                [NoPcb EXCEPT !.state = IF e = "server" THEN "LISTEN" ELSE "CLOSED"])]
    /\ net = [e \in Ends |-> <<>>]
    /\ troubles = 0 /\ overtaken = {}

\* A step costs a trouble or it does not.
Costs(n) == troubles' = troubles + n /\ troubles' <= MaxTroubles

\* Bound: how many segments are under way to one end.
NetBound == 12

\* A segment to be sent again is on unsent, and later ones are on unacked.
Overtaken(d) ==
    \E i \in DOMAIN d.unsent, j \in DOMAIN d.unacked : d.unsent[i].seq < d.unacked[j].seq

\* What becomes of e, when a handler has made d of it and m of the segments for it have
\* been taken off the network.
Result(e, d, m) ==
    /\ host' = [host EXCEPT ![e] = AtEnd(d)]
    /\ net' = [x \in Ends |-> IF x = e THEN SubSeq(net[x], m + 1, Len(net[x]))
                             ELSE net[x] \o d.out]
    /\ Len(net'[Peer(e)]) <= NetBound
    /\ overtaken' = overtaken \cup {x \in {e} : Overtaken(d)}

\* The step of e with this handler: what it sends the driver may drop, or keep for a while.
Handle(e, Step(_), m, cost) ==
    \E driver \in {"sends", "fails", "holds"} :
        /\ Costs(cost + (IF driver = "sends" THEN 0 ELSE 1))
        /\ driver # "sends" => Step(host[e]).out # <<>>
        /\ \E d \in {Step(h) : h \in {[host[e] EXCEPT !.driver = driver]}} : Result(e, d, m)

\* netconn_connect.
Opening(d) ==
    Output(EnqueueFlags(With([d EXCEPT !.app = "connect"],
                             [NoPcb EXCEPT !.state = "SYN_SENT", !.snd_nxt = 2, !.lastack = 1,
                                           !.snd_lbb = 1]),
                        TRUE, FALSE))
Connect(e) == host[e].app = "start" /\ Handle(e, Opening, 0, 0)

Deliver(e) ==
    LET Step(d) == Input(d, Head(net[e]))
    IN  net[e] # <<>> /\ host[e].state # "FAULT" /\ Handle(e, Step, 1, 0)

\* The network.
Lose(e) ==
    /\ net[e] # <<>> /\ Costs(1)
    /\ net' = [net EXCEPT ![e] = Tail(@)] /\ UNCHANGED <<host, overtaken>>
Duplicate(e) ==
    /\ net[e] # <<>> /\ Costs(1)
    /\ net' = [net EXCEPT ![e] = Append(@, Head(@))] /\ UNCHANGED <<host, overtaken>>
Reorder(e) ==
    /\ Len(net[e]) > 1 /\ Costs(1)
    /\ net' = [net EXCEPT ![e] = <<@[2], @[1]>> \o SubSeq(@, 3, Len(@))]
    /\ UNCHANGED <<host, overtaken>>

\* The driver is done with a buffer it kept.
Release(e) ==
    /\ host[e].held # {}
    /\ host' = [host EXCEPT ![e].held = {}] /\ UNCHANGED <<net, troubles, overtaken>>

(* The application, by way of netconn calls.                                  *)

\* netconn_write: the client when it is connected, the server after the client's end.
MayWrite(e) == host[e].app = (IF e = "client" THEN "open" ELSE "shut")
Writing(d) == WriteMore([d EXCEPT !.app = "write"])
WriteCall(e) == MayWrite(e) /\ host[e].left > 0 /\ Handle(e, Writing, 0, 0)

\* netconn_recv: an entry of recvmbox, ...
Fetch(e) ==
    LET p == Head(host[e].recvmbox)
    IN  /\ e = "server" /\ host[e].app = "open" /\ host[e].recvmbox # <<>>
        /\ host' = [host EXCEPT ![e].recvmbox = Tail(@), ![e].app = "took",
                                ![e].took = IF p = <<>> THEN 1 ELSE Len(p),
                                ![e].got = @ \o p, ![e].eof = (p = <<>>)]
        /\ UNCHANGED <<net, troubles, overtaken>>

\* ... its length to the stack, ...
Taking(d) == [Recved(d, d.took) EXCEPT !.took = 0, !.app = IF d.eof THEN "eof" ELSE "open"]
TakeCall(e) == host[e].app = "took" /\ Handle(e, Taking, 0, 0)

\* ... and at the end of the stream the receiving side is shut down.
Shutting(d) ==
    [Set(Drain(d), {"RXCLOSED"}) EXCEPT !.refused_data = <<>>, !.refused_fin = FALSE, !.app = "shut"]
ShutCall(e) == host[e].app = "eof" /\ Handle(e, Shutting, 0, 0)

\* netconn_delete, when all is written; or the server gives up in the middle of it.
Closing(d) == CloseInternal(Drain(d))
CloseCall(e) ==
    LET done == host[e].app = "written" \/ (MayWrite(e) /\ host[e].left = 0)
    IN  /\ done \/ (e = "server" /\ host[e].app = "open")
        /\ Handle(e, Closing, 0, IF done THEN 0 ELSE 1)

\* One of these is the application's next step, unless it waits.
MayCall(e) ==
    \/ host[e].app \in {"start", "took", "eof", "written"} \/ MayWrite(e)
    \/ e = "server" /\ host[e].app = "open" /\ host[e].recvmbox # <<>>

(* The timers.  They need no trouble when nothing else is going on.           *)

Quiet(e) ==
    \A x \in Ends :
        /\ net[x] = <<>> /\ host[x].held = {}
        /\ x = e \/ host[x].state \notin Active \/ "ACK_DELAY" \notin host[x].flags
Early(e) == IF Quiet(e) THEN 0 ELSE 1

MayFastTmr(e) ==
    /\ host[e].state \in Active
    /\ "ACK_DELAY" \in host[e].flags \/ (host[e].refused_data # <<>> /\ Takes(host[e]))
FastTimer(d) ==
    ProcessRefused(IF "ACK_DELAY" \in d.flags
                   THEN Clear(Output(Set(d, {"ACK_NOW"})), {"ACK_DELAY", "ACK_NOW"}) ELSE d)
FastTmr(e) == MayFastTmr(e) /\ Handle(e, FastTimer, 0, 0)

\* tcp_slowtmr: poll_tcp, and what may be sent; a close that has waited long enough is
\* an abort.
PollSends(d) == LET s == Sent(d) IN IF s.state \in Active THEN Output(s) ELSE s
MayPoll(e) == host[e].state \in Active /\ AtEnd(PollSends(host[e])) # host[e]
Poll(e) == MayPoll(e) /\ Handle(e, PollSends, 0, 0)
PollEnds(d) == LET c == CloseInternal(d) IN IF CanClose(d) THEN c ELSE Abort(c)
PollExpires(e) ==
    host[e].state \in Active /\ host[e].app = "close" /\ Handle(e, PollEnds, 0, 1)

\* The retransmission timer, or the persist timer in its place.  Bound: a count that has
\* got past MaxRtx stops nothing any more, but here it goes no further than this.
RtxBound == MaxRtx + 2
MayRto(e) ==
    /\ host[e].state \in Active /\ host[e].unacked # <<>> /\ host[e].rtime
    /\ ~host[e].persist /\ host[e].nrtx # MaxRtx /\ host[e].nrtx < RtxBound
Rto(e) == MayRto(e) /\ Handle(e, RexmitRto, 0, Early(e))
MayPersist(e) == host[e].state \in Active /\ host[e].persist /\ host[e].nrtx # MaxRtx
Persist(e) == MayPersist(e) /\ Handle(e, ZeroWindowProbe, 0, Early(e))

\* A pcb is removed by tcp_slowtmr and its netconn is told.
Removing(d) == ErrTcp(Gone(Purge(d), "timeout"))
Removed(e, cost) == Handle(e, Removing, 0, cost)
MayGiveUp(e) == host[e].state \in Active /\ host[e].nrtx = MaxRtx
GiveUp(e) == MayGiveUp(e) /\ Removed(e, Early(e))
SynRcvdTimeout(e) == host[e].state = "SYN_RCVD" /\ Removed(e, 1)
LastAckTimeout(e) == host[e].state = "LAST_ACK" /\ Removed(e, 1)
MayFinWait2Timeout(e) == host[e].state = "FIN_WAIT_2" /\ "RXCLOSED" \in host[e].flags
PeerIsGone(e) == host[Peer(e)].state \notin Active /\ Quiet(e)
FinWait2Timeout(e) == MayFinWait2Timeout(e) /\ Removed(e, IF PeerIsGone(e) THEN 0 ELSE 1)
DropOoseq(e) ==
    /\ host[e].state \in Active /\ host[e].ooseq # <<>> /\ Costs(1)
    /\ host' = [host EXCEPT ![e].ooseq = <<>>] /\ UNCHANGED <<net, overtaken>>

\* 2 MSL later no retransmission comes any more.
MayTimeWaitExpire(e) ==
    host[e].state = "TIME_WAIT" /\ Quiet(e) /\ host[Peer(e)].unacked = <<>>
Expiring(d) == Gone(d, IF d.ended = "no" THEN "closed" ELSE d.ended)
TimeWaitExpiry(e) == MayTimeWaitExpire(e) /\ Handle(e, Expiring, 0, 0)

Calls(e) == Connect(e) \/ WriteCall(e) \/ Fetch(e) \/ TakeCall(e) \/ ShutCall(e)
Timers(e) == FastTmr(e) \/ Poll(e) \/ Rto(e) \/ Persist(e) \/ GiveUp(e) \/ TimeWaitExpiry(e)
Network(e) == Lose(e) \/ Duplicate(e) \/ Reorder(e)
TimeOuts(e) ==
    \/ PollExpires(e) \/ SynRcvdTimeout(e) \/ LastAckTimeout(e)
    \/ FinWait2Timeout(e) \/ DropOoseq(e)

Next ==
    \E e \in Ends :
        \/ Calls(e) \/ CloseCall(e) \/ Deliver(e) \/ Release(e)
        \/ Timers(e) \/ Network(e) \/ TimeOuts(e)

Spec == Init /\ [][Next]_vars

-------------------------------------------------------------------------------
(* What the runs check.                                                       *)

\* What is not acknowledged is on the two queues, unacked before unsent, in order and
\* without a gap, and up to all that was written: tcp_write, tcp_output, the three kinds of
\* retransmission and tcp_receive move segments between them and lose none.  This ends when
\* the driver refuses a fast retransmission: the segment waits at the end of unsent, where
\* tcp_write takes it for the last one written and tcp_send_fin adds the FIN to it.
QueuesCover ==
    \A e \in Ends \ overtaken :
        LET d == host[e]
            queued == d.unacked \o d.unsent
        IN  d.state \in Active =>
                /\ queued = <<>> => d.lastack >= d.snd_lbb
                /\ queued # <<>> =>
                       /\ Head(queued).seq <= d.lastack /\ d.lastack < SegEnd(Head(queued))
                       /\ Between(SegEnd(Last(queued)), d.snd_lbb, d.snd_lbb + 1)
                /\ \A i \in 1 .. Len(queued) - 1 : SegEnd(queued[i]) = queued[i + 1].seq

\* No data is sent that the receiver has not announced room for, but for the one unit of
\* a zero-window probe: what tcp_output takes for the window is never more than it is.
WithinWindow ==
    \A e \in Ends : \A i \in DOMAIN net[e] :
        LET m == net[e][i] IN
        m.data # <<>> /\ host[e].state \in Active =>
            DataEnd(m) <= host[e].rcv_ann_right_edge + (IF Len(m.data) = 1 THEN 1 ELSE 0)

\* What the applications see is a pipe from the client to the server, unless the client's
\* FIN or data may have got where it does not belong (see QueuesCover).
ClientClosed == host["client"].app \in {"close", "done", "failed"}
Pipe == INSTANCE TcpPipe WITH
            written <- [i \in 1 .. ToWrite["client"] - host["client"].left |-> i + 1],
            closed <- ClientClosed, got <- host["server"].got, eof <- host["server"].eof
PipeSpec == Pipe!Init /\ [][Pipe!Next \/ "client" \in overtaken]_Pipe!vars

\* Weak fairness of what costs no trouble, for the application of each host and for its
\* tcpip thread.  It is written with the guards: they are when these steps are enabled.
MayRun(e) ==
    \/ net[e] # <<>> /\ host[e].state # "FAULT"
    \/ host[e].held # {} \/ MayFastTmr(e) \/ MayPoll(e) \/ MayTimeWaitExpire(e)
    \/ Quiet(e) /\ (MayRto(e) \/ MayPersist(e) \/ MayGiveUp(e))
    \/ PeerIsGone(e) /\ MayFinWait2Timeout(e)
AppRuns(e) == (Calls(e) \/ CloseCall(e)) /\ troubles' = troubles
ThreadRuns(e) ==
    /\ Deliver(e) \/ Release(e) \/ Timers(e) \/ FinWait2Timeout(e)
    /\ troubles' = troubles
Fairness ==
    \A e \in Ends :
        /\ []<>~MayCall(e) \/ []<><<AppRuns(e)>>_vars
        /\ []<>~MayRun(e) \/ []<><<ThreadRuns(e)>>_vars
FairSpec == Spec /\ Fairness

\* Both ends come to rest, ...
AtRest ==
    \A e \in Ends : host[e].app \in {"accept", "done", "failed"} /\ host[e].state \in {"CLOSED", "LISTEN"}
Arrived == host["server"].eof /\ Len(host["server"].got) = ToWrite["client"]
GaveUp == host["server"].app = "done" /\ ~host["server"].eof
\* ... or one of them has broken the connection off, ...
BrokenOff == \E e \in Ends : host[e].ended \in {"reset", "aborted", "timeout"}
\* ... or the mailbox was full when the end of the stream came: recv_tcp says so, tcp_input
\* does not listen, and the reader waits for it for ever.
EndLost ==
    LET d == host["server"]
    IN  d.app = "open" /\ d.state = "CLOSE_WAIT" /\ d.recvmbox = <<>> /\ d.refused_data = <<>>

\* With one trouble at most a transfer always ends: it has arrived, or the server did not
\* want it all, or it was broken off, or its end was lost.  No loss, no window that stays
\* shut, no segment the driver refuses and no close that has to wait leaves an end hanging.
AlwaysEnds == <>(troubles > 1 \/ BrokenOff \/ EndLost \/ (AtRest /\ (Arrived \/ GaveUp)))
===============================================================================

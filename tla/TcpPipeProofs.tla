----------------------------- MODULE TcpPipeProofs -----------------------------
(***************************************************************************)
(* Proofs about Tcp: that it implements TcpPipe, what the applications are *)
(* promised.                                                               *)
(*                                                                         *)
(* A unit of the stream is its position in it, so that a segment with the  *)
(* right data is one whose data starts at its own sequence number (From).  *)
(* Good(n, f) are such segments of the first units, up to n, with the FIN  *)
(* behind the last of them if f holds.  The client (Writer) queues and     *)
(* sends nothing else, where n is how far the application has written and  *)
(* f whether it has closed: that holds whatever order its queues are in,   *)
(* but what is written next gets the right number only as long as they     *)
(* are covered (QueuesCover).  The network makes nothing of these segments *)
(* but others of the same kind.  The server (Reader) has what it received  *)
(* in one run of units: those read, the entries of recvmbox, the data that *)
(* recv_tcp refused and, in a handler, the data not yet passed on, up to   *)
(* rcv_nxt (Flow); what it takes in is a part of a Good segment, cut off   *)
(* at rcv_nxt, so the run goes on; and it is told of the end only behind   *)
(* unit n.                                                                 *)
(*                                                                         *)
(* As in TcpProofs each function of the stack has its lemma: what it does  *)
(* to what is sent (Ships), to the client (Keeps, or Level if it writes    *)
(* and closes nothing) and to the server (Served).                         *)
(***************************************************************************)
EXTENDS TcpProofs

-----------------------------------------------------------------------------
(* What an end sends.  S is a set of segments, A one of flags: the segments *)
(* that d has queued and what it sends are of S, its flags of A.            *)
From(p, a) == \A i \in 1 .. Len(p) : p[i] = a + i - 1
Bare(m) == m.data = <<>> /\ ~m.syn /\ ~m.fin
AsSeg(m) == Segment(m.seq, m.data, m.syn, m.fin)
OnWire(S) == {m \in Messages : Bare(m) \/ AsSeg(m) \in S}
Plain == Flags \ {"RXCLOSED"}
Kind(S) == S \subseteq Segs /\ \A s \in S : Probe(s) \in S
Ships(d, S, A) ==
  /\ Typed(d) /\ Kind(S) /\ Plain \subseteq A
  /\ d.unsent \in Seq(S) /\ d.unacked \in Seq(S) /\ d.out \in Seq(OnWire(S))
  /\ d.flags \subseteq A
ShipFields == {"unsent", "unacked", "out", "flags"}

LEMMA ShipFieldsAreFields == ShipFields \subseteq Fields
  BY DEF ShipFields, Fields, PcbFields, HandlerFields

LEMMA ShipsFrame ==
  ASSUME NEW d, NEW r, NEW S, NEW A, NEW T, Ships(d, S, A), Typed(r), Same(d, r, T),
         T \cap ShipFields = {}
  PROVE  Ships(r, S, A)
<1>1. \A x \in ShipFields : r[x] = d[x]
  BY ShipFieldsAreFields DEF Same
<1>2. r.unsent = d.unsent /\ r.unacked = d.unacked /\ r.out = d.out /\ r.flags = d.flags
  BY <1>1 DEF ShipFields
<1> QED BY <1>2 DEF Ships

LEMMA ShipsFlags ==
  ASSUME NEW d, NEW S, NEW A, NEW f \in SUBSET Flags, Ships(d, S, A)
  PROVE  Ships(Clear(d, f), S, A) /\ (f \subseteq A => Ships(Set(d, f), S, A))
<1>1. /\ Typed(Set(d, f)) /\ Same(d, Set(d, f), {"flags"})
      /\ Typed(Clear(d, f)) /\ Same(d, Clear(d, f), {"flags"})
  BY FlagsKeep DEF Ships
<1>2. Clear(d, f).flags = d.flags \ f /\ Set(d, f).flags = d.flags \cup f
  BY DEF Clear, Set, Ships, Typed, Fields, PcbFields
<1>3. "unsent" \in Fields \ {"flags"} /\ "unacked" \in Fields \ {"flags"} /\ "out" \in Fields \ {"flags"}
  BY DEF Fields, PcbFields, HandlerFields
<1>4. Clear(d, f).unsent = d.unsent /\ Clear(d, f).unacked = d.unacked /\ Clear(d, f).out = d.out
  BY <1>1, <1>3 DEF Same
<1>5. Set(d, f).unsent = d.unsent /\ Set(d, f).unacked = d.unacked /\ Set(d, f).out = d.out
  BY <1>1, <1>3 DEF Same
<1> QED BY <1>1, <1>2, <1>4, <1>5 DEF Ships

LEMMA PlainFlags ==
  ASSUME NEW d, NEW S, NEW A, Ships(d, S, A)
  PROVE  /\ {"ACK_NOW"} \in SUBSET Flags /\ {"ACK_NOW"} \subseteq A
         /\ {"ACK_DELAY"} \in SUBSET Flags /\ {"ACK_DELAY"} \subseteq A
         /\ {"ACK_DELAY", "ACK_NOW"} \in SUBSET Flags /\ {"ACK_DELAY", "ACK_NOW"} \subseteq A
         /\ {"NAGLEMEMERR"} \in SUBSET Flags /\ {"NAGLEMEMERR"} \subseteq A
         /\ {"INFR"} \in SUBSET Flags /\ {"INFR"} \subseteq A
         /\ {"FIN"} \in SUBSET Flags /\ {"FIN"} \subseteq A
         /\ {} \in SUBSET Flags
  BY DEF Ships, Plain, Flags

LEMMA ShipsEmit ==
  ASSUME NEW d, NEW S, NEW A, NEW m \in OnWire(S), Ships(d, S, A)
  PROVE  /\ Ships(Emit(d, m), S, A)
         /\ d.driver # "fails" => /\ Emit(d, m).out # <<>>
                                  /\ Emit(d, m).out[Len(Emit(d, m).out)] = m
<1>1. m \in Messages
  BY DEF OnWire
<1>2. Typed(Emit(d, m)) /\ Same(d, Emit(d, m), {"out"})
  BY <1>1, EmitKeeps DEF Ships
<1>3. Emit(d, m).out = IF d.driver = "fails" THEN d.out ELSE Append(d.out, m)
  BY DEF Emit, Ships, Typed, Fields, HandlerFields
<1>4. /\ Append(d.out, m) \in Seq(OnWire(S)) /\ Append(d.out, m) # <<>>
      /\ Append(d.out, m)[Len(Append(d.out, m))] = m
  BY AppendProperties, LenProperties DEF Ships
<1>5. "unsent" \in Fields \ {"out"} /\ "unacked" \in Fields \ {"out"} /\ "flags" \in Fields \ {"out"}
  BY DEF Fields, PcbFields, HandlerFields
<1>6. Emit(d, m).unsent = d.unsent /\ Emit(d, m).unacked = d.unacked /\ Emit(d, m).flags = d.flags
  BY <1>2, <1>5 DEF Same
<1>7. Emit(d, m).out \in Seq(OnWire(S))
  BY <1>3, <1>4 DEF Ships
<1> QED BY <1>2, <1>3, <1>4, <1>6, <1>7 DEF Ships

LEMMA BareShips ==
  ASSUME NEW m \in Messages, Bare(m), NEW S
  PROVE  m \in OnWire(S)
  BY DEF OnWire

LEMMA ResetShips ==
  ASSUME NEW S, NEW seq \in Int, NEW ackno \in Int
  PROVE  Reset(seq, ackno) \in OnWire(S)
<1>1. Bare(Reset(seq, ackno))
  BY DEF Bare, Reset
<1> QED BY <1>1, ResetType, BareShips

LEMMA WireShips ==
  ASSUME NEW d, NEW S, NEW A, NEW s \in S, Ships(d, S, A)
  PROVE  Wire(d, s) \in OnWire(S) /\ Wire(Announce(d), s) = Wire(d, s)
<1>1. s \in Segs
  BY DEF Ships, Kind
<1>2. Wire(d, s) \in Messages
  BY <1>1, WireType DEF Ships
<1>3. AsSeg(Wire(d, s)) = s
  BY <1>1 DEF AsSeg, Wire, Segment, Segs
<1>4. Wire(Announce(d), s) = Wire(d, s)
  BY DEF Wire, Announce, Ships, Typed, Fields, PcbFields
<1> QED BY <1>2, <1>3, <1>4 DEF OnWire

LEMMA AnnounceShips ==
  ASSUME NEW d, NEW S, NEW A, Ships(d, S, A)
  PROVE  Ships(Announce(d), S, A) /\ Announce(d).driver = d.driver
<1>1. Typed(Announce(d)) /\ Same(d, Announce(d), {"rcv_ann_right_edge"})
  BY AnnounceKeeps DEF Ships
<1>2. {"rcv_ann_right_edge"} \cap ShipFields = {} /\ "driver" \in Fields \ {"rcv_ann_right_edge"}
  BY DEF ShipFields, Fields, HandlerFields
<1> QED BY <1>1, <1>2, ShipsFrame DEF Same

LEMMA ShipsEmpty ==
  ASSUME NEW d, NEW S, NEW A, Ships(d, S, A)
  PROVE  Ships(SendEmptyAck(d), S, A)
<1> DEFINE b == Announce(d)
           s == Segment(d.snd_nxt, <<>>, FALSE, FALSE)
           m == Wire(d, s)
           a == Emit(b, m)
           f == {"ACK_DELAY", "ACK_NOW"}
           c == Clear(a, f)
<1>1. m \in OnWire(S) /\ Wire(b, s) = m
  <2>1. <<>> \in Payload /\ d.snd_nxt \in Int
    BY PayloadFacts DEF Ships, Typed, PcbTyped
  <2>2. s \in Segs
    BY <2>1, SegmentType
  <2>3. m \in Messages
    BY <2>2, WireType DEF Ships
  <2>4. Bare(m)
    BY DEF Bare, Wire, Segment
  <2>5. Wire(b, s) = m
    BY DEF Wire, Announce, Ships, Typed, Fields, PcbFields
  <2> QED BY <2>3, <2>4, <2>5, BareShips
<1>2. Ships(b, S, A) /\ b.driver = d.driver
  BY AnnounceShips
<1>3. /\ Ships(a, S, A)
      /\ d.driver # "fails" => a.out # <<>> /\ a.out[Len(a.out)] = m
  <2> HIDE DEF b, m
  <2> QED BY <1>1, <1>2, ShipsEmit
<1>4. f \in SUBSET Flags /\ f \subseteq A
  BY PlainFlags
<1> HIDE DEF a, f
<1>5. Ships(Set(a, f), S, A) /\ Ships(c, S, A)
  BY <1>3, <1>4, ShipsFlags
<1>6. CASE d.driver = "fails"
  BY <1>5, <1>6 DEF SendEmptyAck, a, f
<1>7. CASE d.driver # "fails"
  <2>1. c.out = a.out
    BY <1>3 DEF Clear, Ships, Typed, Fields, HandlerFields, PcbFields
  <2>2. c.out \in Seq(OnWire(S)) /\ c.out # <<>> /\ c.out[Len(c.out)] = m
    BY <1>3, <1>5, <1>7, <2>1 DEF Ships
  <2> DEFINE l == Len(c.out)
             n == [m EXCEPT !.ack = TRUE]
             o == [c.out EXCEPT ![l] = n]
             r == [c EXCEPT !.out = o]
  <2>3. l \in 1 .. l /\ l \in Nat
    BY <2>2, LenProperties, EmptySeq
  <2>4. n \in OnWire(S)
    <3>1. m \in Messages /\ (Bare(m) \/ AsSeg(m) \in S)
      BY <1>1 DEF OnWire
    <3>2. n \in Messages
      BY <3>1 DEF Messages
    <3>3. n.seq = m.seq /\ n.data = m.data /\ n.syn = m.syn /\ n.fin = m.fin
      BY <3>1 DEF Messages
    <3>4. Bare(m) <=> Bare(n)
      BY <3>3 DEF Bare
    <3>5. AsSeg(n) = AsSeg(m)
      BY <3>3 DEF AsSeg
    <3> QED BY <3>1, <3>2, <3>4, <3>5 DEF OnWire
  <2>5. o \in Seq(OnWire(S))
    <3> HIDE DEF n
    <3> QED BY <2>2, <2>3, <2>4, ExceptSeq
  <2>6. SendEmptyAck(d) = r
    <3>1. SendEmptyAck(d) = [c EXCEPT !.out[Len(a.out)].ack = TRUE]
      BY <1>7 DEF SendEmptyAck, a, b, m, s, f, c
    <3> QED BY <3>1, <2>1, <2>2
  <2>7. Typed(SendEmptyAck(d))
    BY EmptyAckKeeps DEF Ships
  <2>8. r.unsent = c.unsent /\ r.unacked = c.unacked /\ r.flags = c.flags /\ r.out = o
    BY <1>5 DEF Ships, Typed, Fields, HandlerFields
  <2> HIDE DEF c, o, r
  <2> QED BY <1>5, <2>5, <2>6, <2>7, <2>8 DEF Ships
<1> QED BY <1>6, <1>7

LEMMA ShipsSegment ==
  ASSUME NEW d, NEW S, NEW A, NEW s \in S, Ships(d, S, A)
  PROVE  Ships(OutputSegment(d, s), S, A)
<1> DEFINE b == Announce(d)
           m == Wire(d, s)
           a == Emit(b, m)
           r == [a EXCEPT !.rtime = TRUE, !.held = IF d.driver = "holds" THEN @ \cup {s.seq} ELSE @]
<1>1. s \in Segs
  BY DEF Ships, Kind
<1>2. Ships(b, S, A)
  BY AnnounceShips
<1>3. m \in OnWire(S)
  BY WireShips
<1>4. Ships(a, S, A)
  <2> HIDE DEF b, m
  <2> QED BY <1>2, <1>3, ShipsEmit
<1>5. CASE s.seq \in d.held
  BY <1>5 DEF OutputSegment
<1>6. CASE s.seq \notin d.held
  <2>1. OutputSegment(d, s) = r
    BY <1>6 DEF OutputSegment
  <2>2. Typed(r)
    BY <1>1, <2>1, OutputSegmentKeeps DEF Ships
  <2> HIDE DEF a
  <2>3. Same(a, r, {"rtime", "held"})
    BY <1>4 DEF Same, Ships, Typed
  <2>4. {"rtime", "held"} \cap ShipFields = {}
    BY DEF ShipFields
  <2> QED BY <1>4, <2>1, <2>2, <2>3, <2>4, ShipsFrame
<1> QED BY <1>5, <1>6

LEMMA InOrderIn ==
  ASSUME NEW T, NEW q \in Seq(T), NEW s \in T
  PROVE  InOrder(q, s) \in Seq(T)
<1> DEFINE n == Run(q, {i \in DOMAIN q : q[i].seq < s.seq})
<1>1. Len(q) \in Nat /\ DOMAIN q = 1 .. Len(q)
  BY LenProperties
<1>2. n \in 0 .. Len(q)
  BY <1>1, RunFacts
<1> HIDE DEF n
<1>3. UpTo(q, n) \in Seq(T) /\ Behind(q, n) \in Seq(T) /\ <<s>> \in Seq(T)
  BY <1>2, UpToFacts, BehindFacts
<1>4. UpTo(q, n) \o <<s>> \in Seq(T)
  BY <1>3, ConcatProperties
<1>5. UpTo(q, n) \o <<s>> \o Behind(q, n) \in Seq(T)
  BY <1>3, <1>4, ConcatProperties
<1> QED BY <1>5 DEF InOrder, n

LEMMA ShipsHead ==
  ASSUME NEW T, NEW q \in Seq(T), q # <<>>
  PROVE  Head(q) \in T /\ Tail(q) \in Seq(T)
  BY HeadTailProperties

LEMMA ShipsNext ==
  ASSUME NEW d, NEW S, NEW A, Ships(d, S, A)
  PROVE  Ships(SendNext(d), S, A)
<1>1. CASE Stops(d) \/ Refused(d)
  BY <1>1, SendNextKeeps DEF Ships
<1>2. CASE ~Stops(d) /\ ~Refused(d)
  <2> DEFINE s == Head(d.unsent)
             acked == IF d.state = "SYN_SENT" THEN {} ELSE {"ACK_DELAY", "ACK_NOW"}
             a == OutputSegment(d, s)
             c == Clear(a, acked)
             r == [c EXCEPT !.unsent = Tail(@), !.snd_nxt = Max({@, SegEnd(s)}),
                            !.unacked = InOrder(@, s)]
  <2>1. d.unsent \in Seq(S) /\ d.unsent # <<>>
    BY <1>2 DEF Stops, Ships
  <2>2. s \in S /\ Tail(d.unsent) \in Seq(S)
    BY <2>1, ShipsHead
  <2>3. Ships(a, S, A)
    <3> HIDE DEF s
    <3> QED BY <2>2, ShipsSegment
  <2>4. acked \in SUBSET Flags
    BY PlainFlags
  <2>5. Ships(c, S, A)
    <3> HIDE DEF a, acked
    <3> QED BY <2>3, <2>4, ShipsFlags
  <2>6. Typed(SendNext(d)) /\ SentOne(d, SendNext(d))
    BY <1>2, SendNextKeeps DEF Ships
  <2>7. SendNext(d) = r
    BY <1>2 DEF SendNext
  <2> HIDE DEF c
  <2>8. r.out = c.out /\ r.flags = c.flags
    BY <2>5 DEF Ships, Typed, Fields, HandlerFields
  <2>9. InOrder(d.unacked, s) \in Seq(S)
    <3> HIDE DEF s
    <3> QED BY <2>2, InOrderIn DEF Ships
  <2>10. r.unsent \in Seq(S) /\ r.unacked \in Seq(S)
    BY <2>2, <2>6, <2>7, <2>9 DEF SentOne
  <2> HIDE DEF r
  <2> QED BY <2>5, <2>6, <2>7, <2>8, <2>10 DEF Ships
<1> QED BY <1>1, <1>2

LEMMA ShipsEndTurns ==
  ASSUME NEW d, NEW S, NEW A, Ships(d, S, A)
  PROVE  Ships(EndTurns(d), S, A)
<1> DEFINE f == {"NAGLEMEMERR"}
           a == OutputSegment(d, Head(d.unsent))
<1>1. f \in SUBSET Flags /\ f \subseteq A
  BY PlainFlags
<1> HIDE DEF f
<1>2. Ships(Clear(d, f), S, A)
  BY <1>1, ShipsFlags
<1>3. ASSUME ~Stops(d) PROVE Ships(Set(a, f), S, A)
  <2>1. d.unsent \in Seq(S) /\ d.unsent # <<>>
    BY <1>3 DEF Stops, Ships
  <2>2. Ships(a, S, A)
    BY <2>1, ShipsHead, ShipsSegment
  <2> HIDE DEF a
  <2> QED BY <1>1, <2>2, ShipsFlags
<1> QED BY <1>2, <1>3 DEF EndTurns, f

LEMMA ShipsUnsent ==
  ASSUME NEW d, NEW S, NEW A, Ships(d, S, A)
  PROVE  Ships(SendUnsent(d), S, A)
<1> DEFINE k == Len(d.unsent)
<1>1. k \in Nat /\ Typed(d)
  BY LenProperties DEF Ships, Typed, PcbTyped
<1>2. PICK turn :
        /\ turn[0] = d
        /\ \A n \in 1 .. k : turn[n] = SendNext(turn[n - 1])
        /\ SendUnsent(d) = EndTurns(turn[k])
  BY <1>1, SendTurns
<1> HIDE DEF k
<1> DEFINE T == {n \in 0 .. k : Ships(turn[n], S, A)}
<1>3. 0 \in T
  BY <1>1, <1>2
<1>4. ASSUME NEW n \in 0 .. k - 1, n \in T PROVE n + 1 \in T
  <2>1. n + 1 \in 1 .. k /\ n + 1 \in 0 .. k /\ (n + 1) - 1 = n
    BY <1>1
  <2>2. turn[n + 1] = SendNext(turn[n])
    BY <1>2, <2>1
  <2>3. Ships(turn[n + 1], S, A)
    BY <1>4, <2>2, ShipsNext
  <2> QED BY <2>1, <2>3
<1> HIDE DEF T
<1>5. \A n \in 0 .. k : n \in T
  BY <1>1, <1>3, <1>4, Induction
<1>6. Ships(turn[k], S, A)
  BY <1>1, <1>5 DEF T
<1> QED BY <1>2, <1>6, ShipsEndTurns

LEMMA ShipsOutput ==
  ASSUME NEW d, NEW S, NEW A, Ships(d, S, A)
  PROVE  Ships(Output(d), S, A)
  BY ShipsEmpty, ShipsUnsent DEF Output

LEMMA ShipsField ==
  ASSUME NEW d, NEW r, NEW S, NEW A, NEW x, Ships(d, S, A), Same(d, r, {x}), x \notin ShipFields,
         IsTyped(x, r[x])
  PROVE  Ships(r, S, A)
<1>1. Typed(r)
  BY OneFieldTyped DEF Ships
<1>2. {x} \cap ShipFields = {}
  OBVIOUS
<1> QED BY <1>1, <1>2, ShipsFrame

\* In a handler the acknowledgement of what was read waits until its end.
LEMMA ShipsRecved ==
  ASSUME NEW d, NEW n \in Nat, NEW S, NEW A, Ships(d, S, A)
  PROVE  Ships(Recved(d, n), S, A)
<1> DEFINE c == Credited(d, n)
           u == UpdateAnnWnd(c)
           s == Set(u, {"ACK_NOW"})
<1>1. /\ Typed(c) /\ Same(d, c, {"rcv_wnd"})
      /\ Recved(d, n) = IF Inflation(c) >= UpdateThreshold THEN Output(s) ELSE u
  BY CreditedKeeps DEF Ships
<1>2. {"rcv_wnd"} \cap ShipFields = {} /\ {"rcv_ann_wnd"} \cap ShipFields = {}
  BY DEF ShipFields
<1> HIDE DEF c
<1>3. Ships(c, S, A)
  BY <1>1, <1>2, ShipsFrame
<1>4. Typed(u) /\ Same(c, u, {"rcv_ann_wnd"})
  BY <1>1, UpdateAnnWndKeeps
<1> HIDE DEF u
<1>5. Ships(u, S, A)
  BY <1>2, <1>3, <1>4, ShipsFrame
<1>6. Ships(s, S, A)
  BY <1>5, PlainFlags, ShipsFlags
<1> HIDE DEF s
<1>7. Ships(Output(s), S, A)
  BY <1>6, ShipsOutput
<1> QED BY <1>1, <1>5, <1>7

LEMMA ShipsRecvTcp ==
  ASSUME NEW d, NEW p \in Seq(Int), NEW S, NEW A, Ships(d, S, A)
  PROVE  Ships(RecvTcp(d, p), S, A)
<1> DEFINE r == [d EXCEPT !.recvmbox = Append(@, p)]
<1>1. d.rcvopen \in BOOLEAN /\ DOMAIN d = Fields /\ Typed(RecvTcp(d, p)) /\ Len(p) \in Nat
  BY RecvTcpKeeps, LenProperties DEF Ships, Typed, ConnTyped
<1>2. Ships(Recved(d, Len(p)), S, A)
  BY <1>1, ShipsRecved
<1>3. Same(d, r, {"recvmbox"})
  BY <1>1 DEF Same
<1>4. {"recvmbox"} \cap ShipFields = {}
  BY DEF ShipFields
<1>5. RecvTcp(d, p) \in {r, Recved(d, Len(p)), d}
  BY <1>1 DEF RecvTcp
<1> HIDE DEF r
<1>6. CASE RecvTcp(d, p) = r
  BY <1>1, <1>3, <1>4, <1>6, ShipsFrame
<1> QED BY <1>2, <1>5, <1>6

LEMMA ShipsEndOfStream ==
  ASSUME NEW d, NEW S, NEW A, Ships(d, S, A)
  PROVE  Ships(EndOfStream(d), S, A)
<1> DEFINE a == [d EXCEPT !.rcv_wnd = IF @ = Wnd THEN @ ELSE Wrap(@ + 1)]
<1>1. Same(d, a, {"rcv_wnd"})
  BY DEF Same, Ships, Typed
<1>2. a.rcv_wnd \in Int
  <2>1. d.rcv_wnd \in Int /\ a.rcv_wnd = IF d.rcv_wnd = Wnd THEN d.rcv_wnd ELSE Wrap(d.rcv_wnd + 1)
    BY DEF Ships, Typed, PcbTyped, Fields, PcbFields
  <2>2. d.rcv_wnd + 1 \in Int
    BY <2>1
  <2> QED BY <2>1, <2>2, WrapType
<1>3. EndOfStream(d) = RecvTcp(a, <<>>) /\ <<>> \in Seq(Int)
  BY DEF EndOfStream
<1> HIDE DEF a
<1>4. IsTyped("rcv_wnd", a["rcv_wnd"]) /\ "rcv_wnd" \notin ShipFields
  BY <1>2 DEF IsTyped, ShipFields
<1>5. Ships(a, S, A)
  BY <1>1, <1>4, ShipsField
<1> QED BY <1>3, <1>5, ShipsRecvTcp

LEMMA ShipsRefused ==
  ASSUME NEW d, NEW S, NEW A, Ships(d, S, A)
  PROVE  Ships(ProcessRefused(d), S, A)
<1> DEFINE a == [d EXCEPT !.refused_data = <<>>, !.refused_fin = FALSE]
           p == RecvTcp(a, d.refused_data)
           T == {"refused_data", "refused_fin"}
<1>1. Same(d, a, T)
  BY DEF Same, Ships, Typed
<1>2. a.refused_data = <<>> /\ a.refused_fin = FALSE /\ d.refused_data \in Seq(Int)
  BY DEF Ships, Typed, PcbTyped, Fields, PcbFields
<1>3. ProcessRefused(d) = IF d.refused_data = <<>> \/ ~Takes(d) THEN d
                          ELSE IF d.refused_fin THEN EndOfStream(p) ELSE p
  BY DEF ProcessRefused
<1> HIDE DEF a
<1>4. Typed(a)
  <2>1. <<>> \in Seq(Int)
    OBVIOUS
  <2>2. \A x \in T : IsTyped(x, a[x])
    BY <1>2, <2>1 DEF IsTyped
  <2> QED BY <1>1, <2>2, Retyped DEF Ships
<1>5. T \cap ShipFields = {}
  BY DEF ShipFields
<1> HIDE DEF T
<1>6. Ships(a, S, A)
  BY <1>1, <1>4, <1>5, ShipsFrame
<1>7. Ships(p, S, A)
  BY <1>2, <1>6, ShipsRecvTcp
<1> HIDE DEF p
<1>8. Ships(EndOfStream(p), S, A)
  BY <1>7, ShipsEndOfStream
<1> QED BY <1>3, <1>7, <1>8

LEMMA ShipsDrain ==
  ASSUME NEW d, NEW S, NEW A, Ships(d, S, A)
  PROVE  Ships(Drain(d), S, A)
<1> DEFINE k == Len(d.recvmbox)
<1>1. k \in Nat /\ d.recvmbox \in Seq(Seq(Int))
  BY LenProperties DEF Ships, Typed, ConnTyped
<1>2. PICK read :
        /\ read[0] = d
        /\ \A n \in 1 .. k : read[n] = ReadOne(read[n - 1], d.recvmbox[n])
        /\ Drain(d) = Drained(read[k])
  BY DrainReads DEF Ships
<1>3. \A n \in 1 .. k : d.recvmbox[n] \in Seq(Int)
  BY <1>1, ElementOfSeq
<1> HIDE DEF k
<1> DEFINE T == {n \in 0 .. k : Ships(read[n], S, A)}
<1>4. 0 \in T
  BY <1>1, <1>2
<1>5. ASSUME NEW n \in 0 .. k - 1, n \in T PROVE n + 1 \in T
  <2> DEFINE x == read[n]
             p == d.recvmbox[n + 1]
  <2>1. Ships(x, S, A)
    BY <1>5
  <2>2. n + 1 \in 1 .. k /\ n + 1 \in 0 .. k /\ (n + 1) - 1 = n
    BY <1>1
  <2>3. read[n + 1] = ReadOne(x, p) /\ p \in Seq(Int)
    BY <1>2, <1>3, <2>2
  <2>4. Len(p) \in Nat
    BY <2>3, LenProperties
  <2> HIDE DEF x, p
  <2>5. Ships(Recved(x, Len(p)), S, A)
    BY <2>1, <2>4, ShipsRecved
  <2> QED BY <2>1, <2>2, <2>3, <2>5 DEF ReadOne
<1> HIDE DEF T
<1>6. \A n \in 0 .. k : n \in T
  BY <1>1, <1>4, <1>5, Induction
<1> DEFINE z == read[k]
<1>7. Ships(z, S, A) /\ Drain(d) = Drained(z) /\ Typed(Drain(d))
  BY <1>1, <1>2, <1>6, DrainKeeps DEF T, Ships
<1> HIDE DEF z
<1>8. Same(z, Drained(z), {"recvmbox", "rcvopen"})
  BY <1>7 DEF Drained, Same, Ships, Typed
<1>9. {"recvmbox", "rcvopen"} \cap ShipFields = {}
  BY DEF ShipFields
<1> QED BY <1>7, <1>8, <1>9, ShipsFrame

\* What goes back to unsent was on unacked.
LEMMA ShipsRexmit ==
  ASSUME NEW d, NEW r, NEW T, NEW S, NEW A, Ships(d, S, A), Typed(r), Same(d, r, T),
         T \cap {"out", "flags"} = {}, d.unacked # <<>>,
         r.unsent = InOrder(d.unsent, Head(d.unacked)), r.unacked = Tail(d.unacked)
  PROVE  Ships(r, S, A)
<1>1. Head(d.unacked) \in S /\ Tail(d.unacked) \in Seq(S)
  BY ShipsHead DEF Ships
<1>2. InOrder(d.unsent, Head(d.unacked)) \in Seq(S)
  BY <1>1, InOrderIn DEF Ships
<1>3. "out" \in Fields \ T /\ "flags" \in Fields \ T
  BY DEF Fields, PcbFields, HandlerFields
<1>4. r.out = d.out /\ r.flags = d.flags
  BY <1>3 DEF Same
<1> QED BY <1>1, <1>2, <1>4 DEF Ships

LEMMA ShipsRexmitFast ==
  ASSUME NEW d, NEW S, NEW A, Ships(d, S, A)
  PROVE  Ships(RexmitFast(d), S, A)
<1> DEFINE a == Rexmit(d)
           b == Set(a, {"INFR"})
           r == [b EXCEPT !.cwnd = SndBuf, !.rtime = TRUE]
<1>1. CASE d.unacked = <<>> \/ "INFR" \in d.flags
  BY <1>1 DEF RexmitFast
<1>2. CASE ~(d.unacked = <<>> \/ "INFR" \in d.flags)
  <2>1. /\ Typed(a) /\ Same(d, a, {"unsent", "unacked", "nrtx"})
        /\ a.unsent = InOrder(d.unsent, Head(d.unacked)) /\ a.unacked = Tail(d.unacked)
    BY <1>2, RexmitKeeps DEF Ships
  <2>2. {"unsent", "unacked", "nrtx"} \cap {"out", "flags"} = {}
    OBVIOUS
  <2>3. RexmitFast(d) = r /\ Typed(RexmitFast(d))
    BY <1>2, RexmitFastKeeps DEF RexmitFast, Ships
  <2> HIDE DEF a
  <2>4. Ships(a, S, A)
    BY <1>2, <2>1, <2>2, ShipsRexmit
  <2>5. Ships(b, S, A)
    BY <2>4, PlainFlags, ShipsFlags
  <2> HIDE DEF b
  <2>6. Same(b, r, {"cwnd", "rtime"})
    BY <2>5 DEF Same, Ships, Typed
  <2>7. {"cwnd", "rtime"} \cap ShipFields = {}
    BY DEF ShipFields
  <2> HIDE DEF r
  <2> QED BY <2>3, <2>5, <2>6, <2>7, ShipsFrame
<1> QED BY <1>1, <1>2

LEMMA ShipsRto ==
  ASSUME NEW d, NEW S, NEW A, Ships(d, S, A)
  PROVE  Ships(RexmitRto(d), S, A)
<1> DEFINE r == Requeued(d)
<1>1. /\ Typed(r) /\ Same(d, r, {"cwnd", "unsent", "unacked", "nrtx"})
      /\ r.unsent = d.unacked \o d.unsent /\ r.unacked = <<>> /\ RexmitRto(d) = Output(r)
  BY RequeuedKeeps DEF Ships
<1>2. d.unacked \o d.unsent \in Seq(S) /\ <<>> \in Seq(S)
  BY ConcatProperties, EmptySeq DEF Ships
<1> HIDE DEF r
<1>3. r.out = d.out /\ r.flags = d.flags
  BY <1>1 DEF Same, Fields, PcbFields, HandlerFields
<1>4. Ships(r, S, A)
  BY <1>1, <1>2, <1>3 DEF Ships
<1> QED BY <1>1, <1>4, ShipsOutput

LEMMA ShipsProbe ==
  ASSUME NEW d, NEW S, NEW A, Ships(d, S, A)
  PROVE  Ships(ZeroWindowProbe(d), S, A)
<1> DEFINE q == d.unacked \o d.unsent
           s == Head(q)
<1>1. CASE q = <<>>
  BY <1>1 DEF ZeroWindowProbe
<1>2. CASE q # <<>>
  <2>1. q \in Seq(S)
    BY ConcatProperties DEF Ships
  <2>2. s \in S
    <3> HIDE DEF q
    <3> QED BY <1>2, <2>1, ShipsHead
  <2>3. ZeroWindowProbe(d) = Emit(Announce(d), Wire(d, Probe(s)))
    BY <1>2 DEF ZeroWindowProbe, Probe
  <2> HIDE DEF s
  <2>4. Probe(s) \in S
    BY <2>2 DEF Ships, Kind
  <2>5. Wire(d, Probe(s)) \in OnWire(S)
    BY <2>4, WireShips
  <2> QED BY <2>3, <2>5, AnnounceShips, ShipsEmit
<1> QED BY <1>1, <1>2

LEMMA ShipsLess ==
  ASSUME NEW d, NEW r, NEW T, NEW S, NEW A, Ships(d, S, A), Typed(r), Same(d, r, T), "out" \notin T,
         r.unsent \in Seq(S), r.unacked \in Seq(S), r.flags \subseteq A
  PROVE  Ships(r, S, A)
<1>1. r.out = d.out
  BY DEF Same, Fields, HandlerFields
<1> QED BY <1>1 DEF Ships

LEMMA ShipsPurge ==
  ASSUME NEW d, NEW S, NEW A, Ships(d, S, A)
  PROVE  Ships(Purge(d), S, A) /\ Ships(TimeWait(d), S, A)
<1> DEFINE p == Purge(d)
           t == TimeWait(d)
<1>1. Typed(p) /\ Same(d, p, PurgedFields) /\ Typed(t) /\ Same(d, t, PurgedFields \cup {"state"})
  BY PurgeKeeps DEF Ships
<1>2. p.unsent = <<>> /\ p.unacked = <<>> /\ t.unsent = p.unsent /\ t.unacked = p.unacked
  BY DEF Purge, TimeWait, Ships, Typed, Fields, PcbFields
<1> HIDE DEF p, t
<1>3. p.flags = d.flags /\ t.flags = d.flags
  BY <1>1 DEF Same, Fields, PcbFields, PurgedFields
<1>4. "out" \notin PurgedFields /\ "out" \notin PurgedFields \cup {"state"}
  BY DEF PurgedFields
<1>5. <<>> \in Seq(S) /\ d.flags \subseteq A
  BY EmptySeq DEF Ships
<1>6. Ships(p, S, A)
  BY <1>1, <1>2, <1>3, <1>4, <1>5, ShipsLess
<1>7. Ships(t, S, A)
  BY <1>1, <1>2, <1>3, <1>4, <1>5, ShipsLess
<1> QED BY <1>6, <1>7 DEF p, t

LEMMA ShipsGone ==
  ASSUME NEW d, NEW how \in Endings, NEW S, NEW A, Ships(d, S, A)
  PROVE  Ships(Gone(d, how), S, A) /\ Ships(ErrTcp(d), S, A)
<1> DEFINE g == Gone(d, how)
           r == ErrTcp(d)
           T == PcbFields \cup {"ended", "held"}
<1>1. /\ Typed(g) /\ GoneAs(d, how, g) /\ Same(d, g, T) /\ g.unsent = <<>> /\ g.unacked = <<>>
      /\ Typed(r) /\ Same(d, r, {"app", "recvmbox", "took"})
  BY GoneKeeps, GoneSame, ErrTcpKeeps DEF Ships
<1> HIDE DEF g, r
<1>2. g.flags = {}
  BY <1>1 DEF GoneAs, NoPcb, PcbFields
<1>3. "out" \notin T /\ {"app", "recvmbox", "took"} \cap ShipFields = {}
  BY DEF PcbFields, ShipFields
<1>4. <<>> \in Seq(S) /\ {} \subseteq A
  BY EmptySeq
<1> HIDE DEF T
<1>5. Ships(g, S, A)
  BY <1>1, <1>2, <1>3, <1>4, ShipsLess
<1>6. Ships(r, S, A)
  BY <1>1, <1>3, ShipsFrame
<1> QED BY <1>5, <1>6 DEF g, r

LEMMA ShipsAbort ==
  ASSUME NEW d, NEW S, NEW A, Ships(d, S, A)
  PROVE  Ships(Abort(d), S, A)
<1> DEFINE p == Purge(d)
           q == Set(p, {"ACK_NOW"})
           a == IF "ACK_DELAY" \in d.flags THEN Output(q) ELSE p
           m == Reset(d.snd_nxt, d.rcv_nxt)
           g == Gone(Emit(a, m), "aborted")
<1>1. Ships(p, S, A)
  BY ShipsPurge
<1>2. Ships(q, S, A)
  <2> HIDE DEF p
  <2> QED BY <1>1, PlainFlags, ShipsFlags
<1>3. Ships(Output(q), S, A)
  <2> HIDE DEF q
  <2> QED BY <1>2, ShipsOutput
<1>4. Ships(a, S, A)
  BY <1>1, <1>3
<1>5. m \in OnWire(S) /\ "aborted" \in Endings
  <2>1. d.snd_nxt \in Int /\ d.rcv_nxt \in Int
    BY DEF Ships, Typed, PcbTyped
  <2> QED BY <2>1, ResetShips DEF Endings
<1>6. Abort(d) = IF d.state = "TIME_WAIT" THEN Gone(d, "aborted") ELSE ErrTcp(g)
  BY DEF Abort
<1> HIDE DEF a, m
<1>7. Ships(Emit(a, m), S, A)
  BY <1>4, <1>5, ShipsEmit
<1>8. Ships(g, S, A)
  BY <1>5, <1>7, ShipsGone
<1> HIDE DEF g
<1> QED BY <1>5, <1>6, <1>8, ShipsGone

LEMMA DroppedIn ==
  ASSUME NEW T, NEW q \in Seq(T), NEW x, NEW p, Dropped(q, x, p)
  PROVE  p \in Seq(T)
  BY BehindFacts DEF Dropped

LEMMA ShipsAcknowledge ==
  ASSUME NEW d, NEW queue \in {"unacked", "unsent"}, NEW ackno \in Int, NEW S, NEW A, Ships(d, S, A)
  PROVE  Ships(Acknowledge(d, queue, ackno), S, A)
<1> DEFINE r == Acknowledge(d, queue, ackno)
<1>1. Typed(r) /\ Same(d, r, {queue, "acked"}) /\ Dropped(d[queue], ackno, r[queue])
  BY AcknowledgeKeeps DEF Ships
<1> HIDE DEF r
<1>2. d[queue] \in Seq(S) /\ "out" \notin {queue, "acked"}
  BY DEF Ships
<1>3. r[queue] \in Seq(S)
  BY <1>1, <1>2, DroppedIn
<1>4. \A x \in {"unsent", "unacked"} : r[x] \in Seq(S)
  BY <1>1, <1>3 DEF Same, Ships, Fields, PcbFields
<1>5. r.flags \subseteq A
  BY <1>1 DEF Same, Ships, Fields, PcbFields
<1> QED BY <1>1, <1>2, <1>4, <1>5, ShipsLess DEF r

LEMMA ShipsOldAck ==
  ASSUME NEW d, NEW m, NEW moved, NEW S, NEW A, Ships(d, S, A)
  PROVE  Ships(OldAck(d, m, moved), S, A)
<1> DEFINE duplicate == TcpLen(m) = 0 /\ ~moved /\ d.rtime /\ d.lastack = m.ackno
           a == [d EXCEPT !.acked = 0, !.dupacks = IF duplicate THEN Min({@ + 1, 4}) ELSE 0]
           c == [a EXCEPT !.cwnd = Min({@ + Mss, SndBuf})]
           r == OldAck(d, m, moved)
<1>1. r \in {RexmitFast(a), c, a} /\ Typed(r)
  BY ZenonT(30), OldAckKeeps DEF OldAck, Ships
<1>2. Same(d, a, {"acked", "dupacks"}) /\ Same(a, c, {"cwnd"})
  BY DEF Same, Ships, Typed
<1>3. a.acked = 0 /\ a.dupacks = IF duplicate THEN Min({d.dupacks + 1, 4}) ELSE 0
  BY DEF Ships, Typed, Fields, PcbFields
<1>4. c.cwnd = Min({a.cwnd + Mss, SndBuf}) /\ a.cwnd = d.cwnd
  BY DEF Ships, Typed, Fields, PcbFields
<1> HIDE DEF duplicate, a, c
<1>5. d.dupacks \in Int /\ d.cwnd \in Int /\ 4 \in Int /\ 0 \in Int /\ Mss \in Int /\ SndBuf \in Int
  BY Constants DEF Ships, Typed, PcbTyped
<1>6. d.dupacks + 1 \in Int /\ d.cwnd + Mss \in Int
  BY <1>5
<1>7. a.dupacks \in Int /\ c.cwnd \in Int
  BY <1>3, <1>4, <1>5, <1>6, MinOf
<1>8. Typed(a)
  <2>1. IsTyped("acked", a["acked"]) /\ IsTyped("dupacks", a["dupacks"])
    BY <1>3, <1>5, <1>7 DEF IsTyped
  <2> QED BY <1>2, <2>1, Retyped DEF Ships
<1>9. {"acked", "dupacks"} \cap ShipFields = {} /\ "cwnd" \notin ShipFields
  BY DEF ShipFields
<1>10. Ships(a, S, A)
  BY <1>2, <1>8, <1>9, ShipsFrame
<1>11. Ships(c, S, A)
  <2>1. IsTyped("cwnd", c["cwnd"])
    BY <1>7 DEF IsTyped
  <2> QED BY <1>2, <1>9, <1>10, <2>1, ShipsField
<1> QED BY <1>1, <1>10, <1>11, ShipsRexmitFast

LEMMA ShipsNewAck ==
  ASSUME NEW d, NEW m \in Messages, NEW S, NEW A, Ships(d, S, A), m.ackno > d.lastack
  PROVE  Ships(NewAck(d, m), S, A)
<1> DEFINE r == NewAck(d, m)
           c == Clear(d, {"INFR"})
           k == [c EXCEPT !.acked = m.ackno - d.lastack]
           a == Acknowledge(k, "unacked", m.ackno)
<1>1. Typed(r) /\ Same(d, r, NewAckFields) /\ Dropped(d.unacked, m.ackno, r.unacked)
  BY NewAckKeeps DEF Ships
<1>2. r.flags = d.flags \ {"INFR"}
  <2>1. DOMAIN k = Fields /\ k.flags = d.flags \ {"INFR"}
    BY DEF Clear, Ships, Typed, Fields, PcbFields
  <2> HIDE DEF k
  <2>2. DOMAIN a = Fields /\ a.flags = k.flags
    BY <2>1 DEF Acknowledge, Fields, PcbFields
  <2>3. r = [a EXCEPT !.cwnd = SndBuf, !.nrtx = 0, !.snd_buf = @ + (m.ackno - d.lastack), !.dupacks = 0,
                      !.lastack = m.ackno, !.rtime = (a.unacked # <<>>)]
    BY DEF NewAck, k
  <2> HIDE DEF a, r
  <2> QED BY <2>1, <2>2, <2>3 DEF Fields, PcbFields
<1> HIDE DEF r
<1>3. r.unacked \in Seq(S)
  BY <1>1, DroppedIn DEF Ships
<1>4. r.unsent = d.unsent /\ "out" \notin NewAckFields
  BY <1>1 DEF Same, Fields, PcbFields, NewAckFields
<1>5. r.flags \subseteq A /\ r.unsent \in Seq(S)
  BY <1>2, <1>4 DEF Ships
<1> QED BY <1>1, <1>3, <1>4, <1>5, ShipsLess DEF r

LEMMA ShipsAck ==
  ASSUME NEW d, NEW m \in Messages, NEW S, NEW A, Ships(d, S, A)
  PROVE  Ships(Ack(d, m), S, A)
<1> DEFINE w == WindowUpdate(d, m)
           moved == w.snd_wl2 + w.snd_wnd # d.snd_wl2 + d.snd_wnd
           z == [w EXCEPT !.acked = 0]
           a == CASE m.ackno <= d.lastack -> OldAck(w, m, moved)
                  [] Between(m.ackno, d.lastack + 1, d.snd_nxt) -> NewAck(w, m)
                  [] OTHER -> SendEmptyAck(z)
<1>1. /\ Typed(w) /\ Same(d, w, {"snd_wnd", "snd_wl1", "snd_wl2", "persist"})
      /\ m.ackno \in Int /\ d.lastack \in Int /\ d.snd_nxt \in Int
  BY WindowUpdateKeeps, MessageFacts DEF Ships, Typed, PcbTyped
<1>2. Ack(d, m) = IF m.ackno <= a.snd_nxt THEN Acknowledge(a, "unsent", m.ackno) ELSE a
  BY DEF Ack
<1> HIDE DEF w, moved
<1>3. Ships(w, S, A)
  <2>1. {"snd_wnd", "snd_wl1", "snd_wl2", "persist"} \cap ShipFields = {}
    BY DEF ShipFields
  <2> QED BY <1>1, <2>1, ShipsFrame
<1>4. w.lastack = d.lastack
  BY <1>1 DEF Same, Fields, PcbFields
<1>5. Same(w, z, {"acked"}) /\ z.acked = 0
  BY <1>3 DEF Same, Ships, Typed, Fields, PcbFields
<1> HIDE DEF z
<1>8. IsTyped("acked", z["acked"]) /\ "acked" \notin ShipFields
  BY <1>5 DEF IsTyped, ShipFields
<1>9. Ships(z, S, A)
  BY <1>3, <1>5, <1>8, ShipsField
<1>6. CASE m.ackno <= d.lastack
  <2>1. a = OldAck(w, m, moved)
    BY <1>1, <1>6 DEF Between
  <2>2. Ships(a, S, A)
    BY <1>3, <2>1, ShipsOldAck
  <2> HIDE DEF a
  <2> QED BY <1>1, <1>2, <2>2, ShipsAcknowledge
<1>7. CASE ~(m.ackno <= d.lastack)
  <2>1. m.ackno > w.lastack
    BY <1>1, <1>4, <1>7
  <2>2. a \in {NewAck(w, m), SendEmptyAck(z)}
    BY <1>7
  <2>3. Ships(a, S, A)
    BY <1>3, <1>9, <2>1, <2>2, ShipsNewAck, ShipsEmpty
  <2> HIDE DEF a
  <2> QED BY <1>1, <1>2, <2>3, ShipsAcknowledge
<1> QED BY <1>6, <1>7

(* The parts of a segment taken in sequence.                                *)
Ready(d, s) == Merge(FitWindow(d, s), d.ooseq)
Taken(d, s) == [d EXCEPT !.ooseq = Tail(Ready(d, s))]

LEMMA InSequenceParts ==
  ASSUME NEW d, NEW s \in Segs, Typed(d)
  PROVE  /\ Ready(d, s) \in Seq(Segs) /\ Ready(d, s) # <<>> /\ Head(Ready(d, s)) \in Segs
         /\ Typed(Taken(d, s)) /\ Same(d, Taken(d, s), {"ooseq"}) /\ Taken(d, s).ooseq = Tail(Ready(d, s))
         /\ InSequence(d, s) = AckSegment(Dequeue(Accept(Taken(d, s), Head(Ready(d, s)))))
<1> DEFINE q == Ready(d, s)
           a == Taken(d, s)
<1>1. DOMAIN d = Fields /\ d.ooseq \in Seq(Segs)
  BY DEF Typed, PcbTyped
<1>2. q \in Seq(Segs) /\ q # <<>>
  BY <1>1, FitWindowType, MergeType DEF Ready
<1>3. Head(q) \in Segs /\ Tail(q) \in Seq(Segs)
  BY <1>2, HeadTailProperties
<1>4. Same(d, a, {"ooseq"}) /\ a.ooseq = Tail(q)
  BY <1>1 DEF Same, Fields, PcbFields, Taken
<1>5. IsTyped("ooseq", a["ooseq"])
  BY <1>3, <1>4 DEF IsTyped
<1>6. Typed(a)
  BY <1>4, <1>5, OneFieldTyped
<1>7. InSequence(d, s) = AckSegment(Dequeue(Accept(a, Head(q))))
  BY DEF InSequence, Ready, Taken
<1> QED BY <1>2, <1>3, <1>4, <1>6, <1>7

LEMMA ShipsAckSegment ==
  ASSUME NEW d, NEW S, NEW A, Ships(d, S, A)
  PROVE  Ships(AckSegment(d), S, A)
<1> DEFINE c == Clear(d, {"ACK_DELAY"})
<1>1. Ships(c, S, A) /\ Ships(Set(d, {"ACK_DELAY"}), S, A)
  BY PlainFlags, ShipsFlags
<1>2. AckSegment(d) \in {Set(c, {"ACK_NOW"}), Set(d, {"ACK_DELAY"})}
  BY DEF AckSegment
<1> HIDE DEF c
<1>3. Ships(Set(c, {"ACK_NOW"}), S, A)
  BY <1>1, PlainFlags, ShipsFlags
<1> QED BY <1>1, <1>2, <1>3

LEMMA ShipsInSequence ==
  ASSUME NEW d, NEW s \in Segs, NEW S, NEW A, Ships(d, S, A)
  PROVE  Ships(InSequence(d, s), S, A)
<1> DEFINE h == Head(Ready(d, s))
           a == Taken(d, s)
           b == Accept(a, h)
           c == Dequeue(b)
<1>1. Typed(a) /\ Same(d, a, {"ooseq"}) /\ h \in Segs /\ InSequence(d, s) = AckSegment(c)
  BY InSequenceParts DEF Ships
<1> HIDE DEF a, h
<1>2. Typed(b) /\ Same(a, b, AcceptFields)
  BY <1>1, AcceptKeeps
<1> HIDE DEF b
<1>3. Typed(c) /\ Same(b, c, AcceptFields \cup {"ooseq", "state"})
  BY <1>2, DequeueKeeps
<1> HIDE DEF c
<1>4. /\ {"ooseq"} \cap ShipFields = {} /\ AcceptFields \cap ShipFields = {}
      /\ (AcceptFields \cup {"ooseq", "state"}) \cap ShipFields = {}
  BY DEF ShipFields, AcceptFields
<1>5. Ships(a, S, A)
  BY <1>1, <1>4, ShipsFrame
<1>6. Ships(b, S, A)
  BY <1>2, <1>4, <1>5, ShipsFrame
<1>7. Ships(c, S, A)
  BY <1>3, <1>4, <1>6, ShipsFrame
<1> QED BY <1>1, <1>7, ShipsAckSegment

\* tcp_receive's data part: its steps.
Late(d, m) == IF New(d, m).seq < d.rcv_nxt THEN Set(d, {"ACK_NOW"}) ELSE d

LEMMA DataSteps ==
  ASSUME NEW d, NEW m
  PROVE  Data(d, m) =
           IF ~Between(New(d, m).seq, d.rcv_nxt, d.rcv_nxt + d.rcv_wnd - 1) THEN SendEmptyAck(Late(d, m))
           ELSE IF New(d, m).seq = d.rcv_nxt THEN InSequence(Late(d, m), New(d, m))
           ELSE Queue(SendEmptyAck(Late(d, m)), New(d, m))
  BY DEF Data, New, Covers, Late

LEMMA ShipsReceive ==
  ASSUME NEW d, NEW m \in Messages, NEW S, NEW A, Ships(d, S, A)
  PROVE  Ships(Receive(d, m), S, A)
<1>1. ASSUME NEW a, Ships(a, S, A) PROVE Ships(Data(a, m), S, A)
  <2> DEFINE l == Late(a, m)
             s == New(a, m)
             e == SendEmptyAck(l)
             q == Queue(e, s)
  <2>1. s \in Segs
    BY <1>1, NewFacts DEF Ships
  <2>2. Ships(l, S, A)
    BY <1>1, PlainFlags, ShipsFlags DEF Late
  <2>3. Data(a, m) \in {e, InSequence(l, s), q}
    BY DataSteps
  <2> HIDE DEF l, s
  <2>4. Ships(e, S, A) /\ Ships(InSequence(l, s), S, A)
    BY <2>1, <2>2, ShipsEmpty, ShipsInSequence
  <2> HIDE DEF e
  <2>5. Typed(q) /\ Same(e, q, {"ooseq"}) /\ {"ooseq"} \cap ShipFields = {}
    BY <2>1, <2>4, QueueKeeps DEF Ships, ShipFields
  <2>6. Ships(q, S, A)
    BY <2>4, <2>5, ShipsFrame
  <2> QED BY <2>3, <2>4, <2>6
<1> DEFINE a == IF m.ack THEN Ack(d, m) ELSE d
<1>2. Ships(a, S, A)
  BY ShipsAck
<1>3. Receive(d, m) \in {Data(a, m), a, Set(a, {"ACK_NOW"})}
  BY DEF Receive
<1> HIDE DEF a
<1>4. Ships(Data(a, m), S, A)
  BY <1>1, <1>2
<1>5. Ships(Set(a, {"ACK_NOW"}), S, A)
  BY <1>2, PlainFlags, ShipsFlags
<1> QED BY <1>2, <1>3, <1>4, <1>5

\* Another state or other recv_flags.
LEMMA ShipsState ==
  ASSUME NEW d, NEW S, NEW A, Ships(d, S, A)
  PROVE  /\ \A state \in States : Ships([d EXCEPT !.state = state], S, A)
         /\ \A f \in SUBSET RecvFlags : Ships([d EXCEPT !.recv_flags = f], S, A)
         /\ \A b \in BOOLEAN : Ships([d EXCEPT !.input = b], S, A)
<1> {"state", "recv_flags", "input"} \cap ShipFields = {}
  BY DEF ShipFields
<1>1. ASSUME NEW v \in States PROVE Ships([d EXCEPT !.state = v], S, A)
  <2> DEFINE r == [d EXCEPT !.state = v]
  <2>1. Same(d, r, {"state"}) /\ r.state = v
    BY DEF Same, Ships, Typed, Fields, PcbFields
  <2> HIDE DEF r
  <2>2. IsTyped("state", r["state"]) /\ "state" \notin ShipFields
    BY <2>1 DEF IsTyped
  <2> QED BY <2>1, <2>2, ShipsField DEF r
<1>2. ASSUME NEW v \in SUBSET RecvFlags PROVE Ships([d EXCEPT !.recv_flags = v], S, A)
  <2> DEFINE r == [d EXCEPT !.recv_flags = v]
  <2>1. Same(d, r, {"recv_flags"}) /\ r.recv_flags = v
    BY DEF Same, Ships, Typed, Fields, HandlerFields
  <2> HIDE DEF r
  <2>2. IsTyped("recv_flags", r["recv_flags"]) /\ "recv_flags" \notin ShipFields
    BY <2>1 DEF IsTyped
  <2> QED BY <2>1, <2>2, ShipsField DEF r
<1>3. ASSUME NEW v \in BOOLEAN PROVE Ships([d EXCEPT !.input = v], S, A)
  <2> DEFINE r == [d EXCEPT !.input = v]
  <2>1. Same(d, r, {"input"}) /\ r.input = v
    BY DEF Same, Ships, Typed, Fields, HandlerFields
  <2> HIDE DEF r
  <2>2. IsTyped("input", r["input"]) /\ "input" \notin ShipFields
    BY <2>1 DEF IsTyped
  <2> QED BY <2>1, <2>2, ShipsField DEF r
<1> QED BY <1>1, <1>2, <1>3

LEMMA ShipsSynSent ==
  ASSUME NEW d, NEW m \in Messages, NEW S, NEW A, Ships(d, S, A)
  PROVE  Ships(ProcessSynSent(d, m), S, A)
<1> DEFINE f == [d EXCEPT !.state = "FAULT"]
           a == SynTaken(d, m)
           s == Set(a, {"ACK_NOW"})
           e == Emit(d, ResetFor(m))
<1>1. ProcessSynSent(d, m) \in {f, e, d} \/ (d.unacked # <<>> /\ ProcessSynSent(d, m) = s)
  <2>1. m.syn \in BOOLEAN /\ m.ack \in BOOLEAN
    BY DEF Messages
  <2> QED BY <2>1 DEF ProcessSynSent, SynTaken
<1>2. Ships(f, S, A)
  BY ShipsState DEF States
<1>3. ResetFor(m) \in OnWire(S)
  BY MessageFacts, ResetShips DEF ResetFor
<1>4. Ships(e, S, A)
  BY <1>3, ShipsEmit
<1>5. ASSUME d.unacked # <<>> PROVE Ships(s, S, A)
  <2>1. Typed(a) /\ Same(d, a, SynFields) /\ a.unacked = Tail(d.unacked)
    BY <1>5, SynTakenKeeps DEF Ships
  <2> HIDE DEF a
  <2>2. a.unsent = d.unsent /\ a.flags = d.flags /\ "out" \notin SynFields
    BY <2>1 DEF Same, SynFields, Fields, PcbFields
  <2>3. Tail(d.unacked) \in Seq(S) /\ d.unsent \in Seq(S) /\ d.flags \subseteq A
    BY <1>5, ShipsHead DEF Ships
  <2>4. Ships(a, S, A)
    BY <2>1, <2>2, <2>3, ShipsLess
  <2> QED BY <2>4, PlainFlags, ShipsFlags
<1> QED BY <1>1, <1>2, <1>4, <1>5

\* What tcp_process comes to.
Closes(r) == [r EXCEPT !.recv_flags = r.recv_flags \cup {"CLOSED"}]
Resets(d) ==
  LET c == Clear(d, {"ACK_DELAY"})
  IN  [c EXCEPT !.recv_flags = c.recv_flags \cup {"RESET"}]
In(d, state) == [d EXCEPT !.state = state]
Now(d) == Set(d, {"ACK_NOW"})

LEMMA ProcessForms ==
  ASSUME NEW d, NEW m \in Messages, d.state # "SYN_RCVD"
  PROVE  LET r == Receive(d, m)  P == Process(d, m)
         IN  \/ P \in {d, Resets(d), Now(d), r, Closes(r)}
             \/ d.state = "SYN_SENT" /\ P = ProcessSynSent(d, m)
             \/ d.state \in {"ESTABLISHED", "CLOSE_WAIT"} /\ P = In(Now(r), "CLOSE_WAIT")
             \/ \E x \in {r, Now(r)} : P \in {In(x, "CLOSING"), In(x, "FIN_WAIT_2"), TimeWait(x)}
<1> DEFINE r == Receive(d, m)
           P == Process(d, m)
<1>1. m.syn \in BOOLEAN /\ m.rst \in BOOLEAN
  BY DEF Messages
<1> HIDE DEF r
<1>2. ProcessClosing(d, m) \in {r, Closes(r)} \/
      \E x \in {r, Now(r)} : ProcessClosing(d, m) \in {In(x, "CLOSING"), In(x, "FIN_WAIT_2"), TimeWait(x)}
  BY DEF ProcessClosing, r, Closes, In, Now
<1>3. PassiveClose(r) \in {r, In(Now(r), "CLOSE_WAIT")}
  BY DEF PassiveClose, In, Now
<1>4. ProcessReset(d, m) \in {d, Resets(d)}
  BY DEF ProcessReset, Resets
<1>5. \/ P \in {ProcessReset(d, m), Now(d), ProcessClosing(d, m)}
      \/ d.state = "SYN_SENT" /\ P = ProcessSynSent(d, m)
      \/ d.state \in {"ESTABLISHED", "CLOSE_WAIT"} /\ P = PassiveClose(r)
  BY <1>1 DEF Process, r, Now
<1> QED BY <1>2, <1>3, <1>4, <1>5 DEF r

LEMMA ShipsProcess ==
  ASSUME NEW d, NEW m \in Messages, NEW S, NEW A, Ships(d, S, A), d.state # "SYN_RCVD"
  PROVE  Ships(Process(d, m), S, A)
<1> DEFINE r == Receive(d, m)
           z == Clear(d, {"ACK_DELAY"})
<1>1. Ships(r, S, A) /\ Ships(z, S, A) /\ Ships(Now(d), S, A)
  BY ShipsReceive, PlainFlags, ShipsFlags DEF Now
<1>2. Ships(Resets(d), S, A)
  <2> HIDE DEF z
  <2>1. z.recv_flags \cup {"RESET"} \in SUBSET RecvFlags
    BY <1>1 DEF Ships, Typed, HandlerTyped, RecvFlags
  <2> QED BY <1>1, <2>1, ShipsState DEF Resets, z
<1> HIDE DEF r
<1>3. Ships(Now(r), S, A) /\ Ships(Closes(r), S, A)
  <2>1. r.recv_flags \cup {"CLOSED"} \in SUBSET RecvFlags
    BY <1>1 DEF Ships, Typed, HandlerTyped, RecvFlags
  <2> QED BY <1>1, <2>1, ShipsState, PlainFlags, ShipsFlags DEF Now, Closes
<1>4. ASSUME NEW x, Ships(x, S, A)
      PROVE  /\ Ships(TimeWait(x), S, A)
             /\ \A state \in {"CLOSE_WAIT", "CLOSING", "FIN_WAIT_2"} : Ships(In(x, state), S, A)
  BY <1>4, ShipsPurge, ShipsState DEF States, Active, In
<1>5. \A x \in {r, Now(r)} : Ships(x, S, A)
  BY <1>1, <1>3
<1>6. Ships(ProcessSynSent(d, m), S, A)
  BY ShipsSynSent
<1> QED BY <1>1, <1>2, <1>3, <1>4, <1>5, <1>6, ProcessForms DEF r

\* Where the state of a pcb goes in tcp_process.
Moved(a, b) ==
  b = a \/ (a = "ESTABLISHED" /\ b = "CLOSE_WAIT") \/ b \notin Opens \cup {"LISTEN", "CLOSED"}
ProcessFields == ReceiveFields \cup PurgedFields \cup SynFields \cup {"app"}

LEMMA ProcessKeeps ==
  ASSUME NEW d, NEW m \in Messages, Typed(d), d.state # "SYN_RCVD"
  PROVE  /\ Same(d, Process(d, m), ProcessFields)
         /\ \/ Process(d, m).app = d.app /\ Moved(d.state, Process(d, m).state)
            \/ /\ d.state = "SYN_SENT" /\ Process(d, m).app = "open"
               /\ Process(d, m).state = "ESTABLISHED"
<1> DEFINE r == Receive(d, m)
           P == Process(d, m)
           Fine(x) == Same(d, x, ProcessFields) /\ x.app = d.app /\ Moved(d.state, x.state)
<1>1. Typed(r) /\ Same(d, r, ReceiveFields) /\ Moves(d, r)
  BY ReceiveKeeps
<1>2. "app" \in Fields \ ReceiveFields /\ "app" \in Fields
  BY DEF Fields, ConnFields, ReceiveFields, AckFields, OldAckFields, NewAckFields, DataFields, AcceptFields
<1>3. ASSUME NEW q, NEW x, NEW T, Fine(q), Same(q, x, T), T \subseteq ProcessFields, "app" \notin T,
             x.state = q.state \/ Moved(d.state, x.state)
      PROVE  Fine(x)
  <2>1. x.app = q.app
    BY <1>2, <1>3 DEF Same
  <2>2. Same(d, x, ProcessFields)
    BY <1>3 DEF Same
  <2> QED BY <1>3, <2>1, <2>2
<1>4. /\ {"flags"} \subseteq ProcessFields /\ {"state"} \subseteq ProcessFields
      /\ {"flags", "recv_flags"} \subseteq ProcessFields /\ {"recv_flags"} \subseteq ProcessFields
      /\ {"out"} \subseteq ProcessFields /\ ReceiveFields \subseteq ProcessFields
      /\ PurgedFields \cup {"state"} \subseteq ProcessFields
  BY DEF ProcessFields, ReceiveFields, DataFields, AcceptFields
<1>5. Fine(d)
  BY DEF Same, Typed, Moved
<1>6. Fine(r)
  <2>1. Same(d, r, ProcessFields)
    BY <1>1, <1>4, SameMore
  <2> HIDE DEF r
  <2>2. r.app = d.app /\ Moved(d.state, r.state)
    BY <1>1, <1>2 DEF Same, Moves, Moved
  <2> QED BY <2>1, <2>2
<1>7. ASSUME NEW q, Fine(q), Typed(q) PROVE Fine(Now(q)) /\ Typed(Now(q))
  <2> DEFINE x == Now(q)
  <2>1. Typed(x) /\ Same(q, x, {"flags"})
    BY <1>7, FlagsKeep DEF Now, Flags
  <2> HIDE DEF x, Fine
  <2>2. x.state = q.state
    BY <2>1 DEF Same, Fields, PcbFields
  <2>3. Fine(x)
    BY <1>3, <1>4, <1>7, <2>1, <2>2
  <2> QED BY <2>1, <2>3 DEF x
<1>8. ASSUME NEW q, Fine(q), Typed(q)
      PROVE  /\ Fine(Resets(q)) /\ Fine(Closes(q))
             /\ \A s \in {"CLOSING", "FIN_WAIT_2"} : Fine(In(q, s))
             /\ Fine(TimeWait(q))
             /\ d.state \in {"ESTABLISHED", "CLOSE_WAIT"} => Fine(In(q, "CLOSE_WAIT"))
  <2>1. /\ Same(q, Resets(q), {"flags", "recv_flags"}) /\ Resets(q).state = q.state
        /\ Same(q, Closes(q), {"recv_flags"}) /\ Closes(q).state = q.state
    BY <1>7, <1>8 DEF Same, Resets, Closes, Clear, Typed, Fields, PcbFields
  <2>2. \A s : Same(q, In(q, s), {"state"}) /\ In(q, s).state = s
    BY <1>8 DEF Same, In, Typed, Fields, PcbFields
  <2>3. Same(q, TimeWait(q), PurgedFields \cup {"state"}) /\ TimeWait(q).state = "TIME_WAIT"
    BY <1>8, PurgeKeeps
  <2>4. \A s \in {"CLOSING", "FIN_WAIT_2", "TIME_WAIT"} : Moved(d.state, s)
    BY DEF Moved, Opens
  <2>5. d.state \in {"ESTABLISHED", "CLOSE_WAIT"} => Moved(d.state, "CLOSE_WAIT")
    BY DEF Moved
  <2>6. "app" \notin PurgedFields \cup {"state"}
    BY DEF PurgedFields
  <2> HIDE DEF Fine
  <2>7. Fine(Resets(q)) /\ Fine(Closes(q))
    BY <1>3, <1>4, <1>8, <2>1
  <2>8. ASSUME NEW s, Moved(d.state, s) PROVE Fine(In(q, s))
    <3> DEFINE x == In(q, s)
    <3>1. Same(q, x, {"state"}) /\ Moved(d.state, x.state)
      BY <2>2, <2>8
    <3> HIDE DEF x
    <3> QED BY <1>3, <1>4, <1>8, <3>1 DEF x
  <2>9. Fine(TimeWait(q))
    BY <1>3, <1>4, <1>8, <2>3, <2>4, <2>6
  <2> QED BY <2>4, <2>5, <2>7, <2>8, <2>9
<1>9. ASSUME d.state = "SYN_SENT", P = ProcessSynSent(d, m)
      PROVE  Fine(P) \/ (Same(d, P, ProcessFields) /\ P.app = "open" /\ P.state = "ESTABLISHED")
  <2> DEFINE a == SynTaken(d, m)
             s == Set(a, {"ACK_NOW"})
             e == Emit(d, ResetFor(m))
             f == In(d, "FAULT")
  <2>1. P \in {f, e, d} \/ (d.unacked # <<>> /\ P = s)
    <3>1. m.syn \in BOOLEAN /\ m.ack \in BOOLEAN
      BY DEF Messages
    <3> HIDE DEF P
    <3> QED BY <1>9, <3>1 DEF ProcessSynSent, SynTaken, In
  <2>2. Fine(f)
    <3>1. Same(d, f, {"state"}) /\ f.state = "FAULT" /\ Moved(d.state, "FAULT")
      BY DEF Same, In, Typed, Fields, PcbFields, Moved, Opens
    <3> HIDE DEF f, Fine
    <3> QED BY <1>3, <1>4, <1>5, <3>1
  <2>3. Fine(e)
    <3>1. ResetFor(m) \in Messages
      BY MessageFacts, ResetType DEF ResetFor
    <3>2. Same(d, e, {"out"}) /\ Typed(e)
      BY <3>1, EmitKeeps
    <3>3. e.state = d.state
      BY <3>2 DEF Same, Fields, PcbFields
    <3> HIDE DEF e, Fine
    <3> QED BY <1>3, <1>4, <1>5, <3>2, <3>3
  <2>4. ASSUME d.unacked # <<>>
        PROVE  Same(d, s, ProcessFields) /\ s.app = "open" /\ s.state = "ESTABLISHED"
    <3>1. Typed(a) /\ Same(d, a, SynFields) /\ a.state = "ESTABLISHED" /\ a.app = "open"
      BY <2>4, SynTakenKeeps
    <3> HIDE DEF a
    <3>2. Same(a, s, {"flags"})
      BY <3>1, FlagsKeep DEF Flags
    <3> HIDE DEF s
    <3>3. Same(d, s, SynFields \cup {"flags"}) /\ SynFields \cup {"flags"} \subseteq ProcessFields
      BY <1>4, <3>1, <3>2, SameTwice DEF ProcessFields
    <3>4. s.app = a.app /\ s.state = a.state
      BY <3>2 DEF Same, Fields, PcbFields, ConnFields
    <3> QED BY <3>1, <3>3, <3>4, SameMore
  <2> HIDE DEF f, e, s, Fine
  <2> QED BY <1>5, <2>1, <2>2, <2>3, <2>4
<1>10. /\ P \in {d, Resets(d), Now(d), r, Closes(r)} => Fine(P)
       /\ d.state \in {"ESTABLISHED", "CLOSE_WAIT"} /\ P = In(Now(r), "CLOSE_WAIT") => Fine(P)
       /\ \A x \in {r, Now(r)} : P \in {In(x, "CLOSING"), In(x, "FIN_WAIT_2"), TimeWait(x)} => Fine(P)
  <2> HIDE DEF Fine, r, P
  <2>1. Fine(Now(r)) /\ Typed(Now(r)) /\ Fine(Now(d))
    BY <1>1, <1>5, <1>6, <1>7
  <2> QED BY <1>1, <1>5, <1>6, <1>8, <2>1
<1> HIDE DEF r
<1>11. Fine(P) \/ (d.state = "SYN_SENT" /\ Same(d, P, ProcessFields) /\ P.app = "open"
                   /\ P.state = "ESTABLISHED")
  <2> HIDE DEF Fine
  <2> QED BY <1>9, <1>10, ProcessForms DEF r
<1> QED BY <1>11

LEMMA ShipsGive ==
  ASSUME NEW d, NEW S, NEW A, Ships(d, S, A)
  PROVE  Ships(GiveFin(GiveData(d)), S, A)
<1> DEFINE w == [d EXCEPT !.refused_data = d.recv_data]
           a == GiveData(d)
           z == [a EXCEPT !.refused_fin = TRUE]
<1>1. d.recv_data \in Seq(Int) /\ a \in {d, RecvTcp(d, d.recv_data), w}
  BY DEF Ships, Typed, HandlerTyped, GiveData
<1>2. Same(d, w, {"refused_data"}) /\ w.refused_data = d.recv_data
  BY DEF Same, Ships, Typed, Fields, PcbFields
<1> HIDE DEF w
<1>3. IsTyped("refused_data", w["refused_data"]) /\ "refused_data" \notin ShipFields
  BY <1>1, <1>2 DEF IsTyped, ShipFields
<1>4. Ships(w, S, A)
  BY <1>2, <1>3, ShipsField
<1>5. Ships(a, S, A)
  <2> HIDE DEF a
  <2> QED BY <1>1, <1>4, ShipsRecvTcp
<1> HIDE DEF a
<1>6. Same(a, z, {"refused_fin"}) /\ z.refused_fin = TRUE
  BY <1>5 DEF Same, Ships, Typed, Fields, PcbFields
<1>7. GiveFin(a) \in {a, z, EndOfStream(a)}
  BY DEF GiveFin
<1> HIDE DEF z
<1>8. IsTyped("refused_fin", z["refused_fin"]) /\ "refused_fin" \notin ShipFields
  BY <1>6 DEF IsTyped, ShipFields
<1>9. Ships(z, S, A)
  BY <1>5, <1>6, <1>8, ShipsField
<1> QED BY <1>5, <1>7, <1>9, ShipsEndOfStream DEF a

-----------------------------------------------------------------------------
(* What the client's segments hold: a unit of the stream is its position in *)
(* it.  Good(n, f): segments of the first units, up to n, with the FIN      *)
(* behind the last of them if f holds.                                      *)
Good(n, f) ==
  {s \in Segs :
     /\ From(s.data, s.seq)
     /\ s.data # <<>> \/ s.fin => DataEnd(s) <= n
     /\ s.fin => f /\ DataEnd(s) = n /\ ~s.syn
     /\ s.syn => s.seq = 1 /\ s.data = <<>>}

LEMMA EachIn ==
  ASSUME NEW T, NEW S, NEW q \in Seq(T), \A i \in 1 .. Len(q) : q[i] \in S
  PROVE  q \in Seq(S)
<1>1. Len(q) \in Nat /\ q \in [1 .. Len(q) -> S]
  BY LenProperties
<1> QED BY <1>1, SeqDef

LEMMA FromCat ==
  ASSUME NEW p \in Seq(Int), NEW q \in Seq(Int), NEW a \in Int, From(p, a), From(q, a + Len(p))
  PROVE  From(p \o q, a)
<1>1. /\ Len(p) \in Nat /\ Len(q) \in Nat /\ Len(p \o q) = Len(p) + Len(q)
      /\ \A i \in 1 .. Len(p) + Len(q) : (p \o q)[i] = IF i <= Len(p) THEN p[i] ELSE q[i - Len(p)]
  BY LenProperties, ConcatProperties
<1>2. ASSUME NEW i \in 1 .. Len(p) + Len(q) PROVE (p \o q)[i] = a + i - 1
  <2>1. CASE i <= Len(p)
    BY <1>1, <2>1 DEF From
  <2>2. CASE ~(i <= Len(p))
    <3>1. i - Len(p) \in 1 .. Len(q)
      BY <1>1, <2>2
    <3> QED BY <1>1, <2>2, <3>1 DEF From
  <2> QED BY <2>1, <2>2
<1> QED BY <1>1, <1>2 DEF From

LEMMA KindGood ==
  ASSUME NEW n \in Int, NEW f
  PROVE  Kind(Good(n, f))
<1>1. ASSUME NEW s \in Good(n, f) PROVE Probe(s) \in Good(n, f)
  <2> DEFINE k == Min({1, Len(s.data)})
             p == Probe(s)
  <2>1. s \in Segs /\ From(s.data, s.seq)
    BY DEF Good
  <2>2. /\ s.seq \in Int /\ s.data \in Seq(Int) /\ Len(s.data) \in Nat /\ DataEnd(s) = s.seq + Len(s.data)
        /\ p \in Segs
    BY <2>1, SegmentFacts, ProbeType
  <2>3. k \in Int /\ k <= 1 /\ k <= Len(s.data) /\ k >= 0
    BY <2>2, MinOf
  <2>4. p.seq = s.seq /\ p.data = SubSeq(s.data, 1, k) /\ ~p.syn /\ (p.fin => s.fin /\ s.data = <<>>)
    BY DEF Probe, Segment
  <2> HIDE DEF k, p
  <2>5. /\ Len(p.data) = k
        /\ \A i \in 1 .. k : p.data[i] = s.data[i]
    <3>1. k \in 0 .. Len(s.data)
      BY <2>2, <2>3
    <3> QED BY <2>2, <2>4, <3>1, PieceFacts
  <2>6. From(p.data, p.seq)
    <3>1. \A i \in 1 .. k : i \in 1 .. Len(s.data)
      BY <2>2, <2>3
    <3> QED BY <2>1, <2>4, <2>5, <3>1 DEF From
  <2>7. DataEnd(p) = s.seq + k
    BY <2>4, <2>5 DEF DataEnd
  <2>8. ASSUME p.data # <<>> PROVE DataEnd(p) <= n
    <3>1. s.data # <<>>
      <4>1. SUFFICES ASSUME s.data = <<>> PROVE FALSE
        OBVIOUS
      <4>2. p.data \in Seq(Int) /\ Len(p.data) = 0
        BY <4>1, <2>2, <2>3, <2>5, EmptySeq, SegmentFacts
      <4> QED BY <2>8, <4>2, EmptySeq
    <3> QED BY <2>2, <2>3, <2>7, <3>1 DEF Good
  <2>9. ASSUME p.fin PROVE f /\ DataEnd(p) = n
    <3>1. s.fin /\ s.data = <<>> /\ Len(s.data) = 0
      BY <2>4, <2>9
    <3>2. k = 0
      BY <2>3, <3>1
    <3> QED BY <2>2, <2>7, <3>1, <3>2 DEF Good
  <2>10. p \in Segs /\ ~p.syn /\ (p.data # <<>> \/ p.fin => DataEnd(p) <= n)
    BY <2>2, <2>4, <2>8, <2>9
  <2> QED BY <2>6, <2>9, <2>10 DEF Good, p
<1> QED BY <1>1 DEF Kind, Good

LEMMA GoodGrows ==
  ASSUME NEW n \in Int, NEW k \in Int, n <= k, NEW f
  PROVE  Good(n, FALSE) \subseteq Good(k, f)
<1>1. ASSUME NEW s \in Good(n, FALSE) PROVE s \in Good(k, f)
  <2>1. DataEnd(s) \in Int
    BY SegmentFacts DEF Good
  <2> QED BY <2>1 DEF Good
<1> QED BY <1>1

LEMMA ShipsMore ==
  ASSUME NEW d, NEW S, NEW A, NEW T, NEW B, Ships(d, S, A), S \subseteq T, Kind(T), A \subseteq B
  PROVE  Ships(d, T, B)
<1>1. OnWire(S) \subseteq OnWire(T)
  BY DEF OnWire
<1> QED BY <1>1, SeqMonotonic DEF Ships

\* What tcp_write cuts, and what it fills the last segment with.
LEMMA CutGood ==
  ASSUME NEW seq \in Int, NEW data \in Seq(Int), From(data, seq), NEW n \in Int, seq + Len(data) <= n
  PROVE  Cut(seq, data) \in Seq(Good(n, FALSE))
<1> DEFINE c == Cut(seq, data)
<1>1. CutAs(seq, data, c) /\ Len(data) \in Nat
  BY CutFacts, LenProperties
<1> HIDE DEF c
<1>2. c \in Seq(Segs) /\ Len(c) = Places(Len(data))
  BY <1>1 DEF CutAs
<1>3. ASSUME NEW i \in 1 .. Len(c) PROVE c[i] \in Good(n, FALSE)
  <2> DEFINE b == (i - 1) * Mss
             e == PlaceEnd(i, Len(data))
             m == i * Mss
  <2>1. /\ c[i] \in Segs /\ ~c[i].syn /\ ~c[i].fin /\ c[i].seq = seq + b
        /\ Len(c[i].data) = e - b /\ DataEnd(c[i]) = seq + e
        /\ \A j \in 1 .. Len(c[i].data) : c[i].data[j] = data[b + j]
    <3>1. c[i] \in Segs
      BY <1>2, ElementOfSeq
    <3> QED BY <1>1, <3>1 DEF CutAs
  <2>2. b \in Nat
    BY <1>1, <1>2, PlacesFacts
  <2>3. m \in Int
    BY <1>2, Constants, LenProperties
  <2>4. e = IF m <= Len(data) THEN m ELSE Len(data)
    BY DEF PlaceEnd
  <2> HIDE DEF b, e, m
  <2>5. e \in Int /\ e <= Len(data)
    BY <1>1, <2>3, <2>4
  <2>6. ASSUME NEW j \in 1 .. Len(c[i].data) PROVE c[i].data[j] = c[i].seq + j - 1
    <3>1. b + j \in 1 .. Len(data)
      BY <1>1, <2>1, <2>2, <2>5
    <3>2. data[b + j] = seq + (b + j) - 1
      BY <3>1 DEF From
    <3> QED BY <2>1, <2>2, <3>2
  <2>7. DataEnd(c[i]) <= n
    BY <1>1, <2>1, <2>5
  <2>8. From(c[i].data, c[i].seq)
    BY <2>6 DEF From
  <2> QED BY <2>1, <2>7, <2>8 DEF Good
<1> QED BY <1>2, <1>3, EachIn DEF c

LEMMA FilledGood ==
  ASSUME NEW s, NEW n \in Int, s \in Good(n, FALSE), s.data # <<>>,
         NEW data \in Seq(Int), NEW k \in 0 .. Len(data), Len(s.data) + k <= Mss,
         From(data, DataEnd(s)), NEW t \in Int, DataEnd(s) + k <= t
  PROVE  Filled(s, data, k) \in Good(t, FALSE)
<1> DEFINE r == Filled(s, data, k)
           p == SubSeq(data, 1, k)
<1>1. s \in Segs /\ From(s.data, s.seq) /\ ~s.fin /\ ~s.syn
  BY DEF Good
<1>2. /\ r \in Segs /\ r.seq = s.seq /\ r.syn = s.syn /\ r.fin = s.fin /\ r.data = s.data \o p
      /\ DataEnd(r) = DataEnd(s) + k
  BY <1>1, FilledFacts
<1>3. p \in Seq(Int) /\ Len(p) = k /\ \A i \in 1 .. k : p[i] = data[i]
  BY PieceFacts
<1>4. /\ s.data \in Seq(Int) /\ s.seq \in Int /\ DataEnd(s) = s.seq + Len(s.data) /\ Len(data) \in Nat
  BY <1>1, SegmentFacts, LenProperties
<1> HIDE DEF r, p
<1>5. From(p, s.seq + Len(s.data))
  <2>1. ASSUME NEW i \in 1 .. k PROVE p[i] = (s.seq + Len(s.data)) + i - 1
    <3>1. i \in 1 .. Len(data)
      BY <1>4
    <3>2. data[i] = DataEnd(s) + i - 1
      BY <3>1 DEF From
    <3> QED BY <1>3, <1>4, <3>2
  <2> QED BY <1>3, <2>1 DEF From
<1>6. From(r.data, r.seq)
  BY <1>1, <1>2, <1>3, <1>4, <1>5, FromCat
<1> QED BY <1>1, <1>2, <1>6 DEF Good, r

-----------------------------------------------------------------------------
(* How far a netconn and its pcb are.  A handler keeps the application      *)
(* where it is, or tells it that the connection is over, or a netconn_write *)
(* is done; a pcb goes on to the state of a connection that is ending.      *)
Further(a, b) == b = a \/ (a = "ESTABLISHED" /\ b = "CLOSE_WAIT") \/ b \notin Opens \cup {"LISTEN"}
Later(d, r) ==
  /\ r.app \in {d.app, ToldApp(d.app)} \/ (d.app = "write" /\ r.app = "written")
  /\ IF d.app = "accept" THEN r.state \in {d.state, "LISTEN"} ELSE Further(d.state, r.state)
  /\ d.app = "connect" /\ r.state = "SYN_SENT" => r.app = "connect"

LEMMA LaterTwice ==
  ASSUME NEW d, NEW r, NEW q, Later(d, r), Later(r, q)
  PROVE  Later(d, q)
<1>1. CASE d.app = "accept"
  <2>1. r.app = "accept"
    BY <1>1 DEF Later, ToldApp
  <2>2. q.app = "accept"
    BY <2>1 DEF Later, ToldApp
  <2> QED BY <1>1, <2>1, <2>2 DEF Later
<1>2. CASE d.app # "accept"
  <2>1. r.app # "accept"
    BY <1>2 DEF Later, ToldApp
  <2>2. q.app \in {d.app, ToldApp(d.app)} \/ (d.app = "write" /\ q.app = "written")
    BY DEF Later, ToldApp
  <2>3. Further(d.state, q.state) /\ (q.state = "SYN_SENT" => r.state = "SYN_SENT")
    BY <1>2, <2>1 DEF Later, Further, Opens
  <2> QED BY <1>2, <2>2, <2>3 DEF Later
<1> QED BY <1>1, <1>2

LEMMA LaterFrame ==
  ASSUME NEW d, NEW r, NEW T, Same(d, r, T), T \cap {"app", "state"} = {}
  PROVE  Later(d, r) /\ r.app = d.app /\ r.state = d.state
<1>1. r.app = d.app /\ r.state = d.state
  BY DEF Same, Fields, PcbFields, ConnFields
<1> QED BY <1>1 DEF Later, Further

LEMMA LaterGone ==
  ASSUME NEW d, NEW how \in Endings, Typed(d)
  PROVE  /\ Later(d, Gone(d, how)) /\ Gone(d, how).app = d.app
         /\ Later(d, Gone(ErrTcp(d), how)) /\ Later(d, ErrTcp(Gone(d, how))) /\ Later(d, Abort(d))
         /\ Same(d, Gone(d, how), EndedFields) /\ Same(d, Gone(ErrTcp(d), how), EndedFields)
         /\ Same(d, ErrTcp(Gone(d, how)), EndedFields)
<1> DEFINE F == PcbFields \cup {"ended", "held"}
           g == Gone(d, how)
           x == ErrTcp(d)
           y == Gone(x, how)
           z == ErrTcp(g)
<1>1. "app" \in Fields \ F /\ "state" \in Fields \ {"app", "recvmbox", "took"} /\ F \subseteq EndedFields
  BY FieldsApart DEF Fields, PcbFields, ConnFields, EndedFields
<1>2. ASSUME NEW q, Typed(q) PROVE Same(q, Gone(q, how), F) /\ Typed(Gone(q, how))
                                   /\ Gone(q, how).state = Freed(q) /\ Gone(q, how).app = q.app
  <2> DEFINE p == Gone(q, how)
  <2>1. Typed(p) /\ Same(q, p, F) /\ p.state = Freed(q)
    BY <1>2, GoneKeeps, GoneSame
  <2> HIDE DEF p, F
  <2>2. p.app = q.app
    BY <1>1, <2>1 DEF Same
  <2> QED BY <2>1, <2>2 DEF p
<1>3. /\ Typed(x) /\ Same(d, x, {"app", "recvmbox", "took"}) /\ x.app = ToldApp(d.app)
  BY ErrTcpKeeps
<1> HIDE DEF x, F
<1>4. Same(x, y, F) /\ y.state = Freed(x) /\ y.app = x.app
  BY <1>2, <1>3
<1>5. Typed(g) /\ Same(d, g, F) /\ g.state = Freed(d) /\ g.app = d.app
  BY <1>2
<1> HIDE DEF g, y
<1>6. Same(g, z, {"app", "recvmbox", "took"}) /\ z.app = ToldApp(g.app)
  BY <1>5, ErrTcpKeeps
<1> HIDE DEF z
<1>7. z.state = g.state
  BY <1>1, <1>6 DEF Same
<1>8. /\ Same(d, g, EndedFields) /\ Same(d, y, EndedFields) /\ Same(d, z, EndedFields)
  BY <1>1, <1>3, <1>4, <1>5, <1>6 DEF Same, EndedFields
<1>9. ASSUME NEW r, r.app \in {d.app, ToldApp(d.app)}, r.state = Freed(d)
      PROVE  Later(d, r)
  BY <1>9 DEF Later, Further, Freed, Opens
<1>10. Freed(x) = Freed(d)
  BY <1>3 DEF Freed, ToldApp
<1>11. Later(d, Abort(d))
  <2>1. Abort(d).app \in {d.app, ToldApp(d.app)} /\ Abort(d).state = Freed(d)
    BY AbortKeeps
  <2> QED BY <1>9, <2>1
<1> QED BY <1>3, <1>4, <1>5, <1>6, <1>7, <1>8, <1>9, <1>10, <1>11 DEF g, y, z, x

\* What tcp_close and the netconn above it come to.
LEMMA CloseFurther ==
  ASSUME NEW d, Typed(d), d.app # "accept"
  PROVE  /\ Further(d.state, CloseInternal(d).state)
         /\ CloseInternal(d).app = IF CanClose(d) THEN "done" ELSE "close"
         /\ ~CanClose(d) => Same(d, CloseInternal(d), {"flags", "app"})
<1> DEFINE c == TcpClose(d)
           r == CloseInternal(d)
<1>1. Typed(c) /\ CloseAs(d, c)
  BY TcpCloseKeeps
<1>2. Same(c, r, {"app"}) /\ r.app = IF CanClose(d) THEN "done" ELSE "close"
  BY CloseInternalKeeps
<1> HIDE DEF c, r
<1>3. r.state = c.state
  BY <1>2 DEF Same, Fields, PcbFields
<1>4. ASSUME CanSendFin(d), c = Output(Closed(d)) PROVE c.state \in {"FIN_WAIT_1", "LAST_ACK"}
  <2>1. Typed(Closed(d)) /\ Closed(d).state \in {"FIN_WAIT_1", "LAST_ACK"}
    BY <1>4, ClosedKeeps
  <2>2. Same(Closed(d), c, OutputFields) /\ "state" \in Fields \ OutputFields
    BY <1>4, <2>1, OutputKeeps DEF OutputFields, Fields, PcbFields
  <2> QED BY <2>1, <2>2 DEF Same
<1>5. Typed(Set(d, {"RXCLOSED"})) /\ Same(d, Set(d, {"RXCLOSED"}), {"flags"})
  BY MarkedKeeps
<1>6. Further(d.state, c.state)
  <2>1. c = Set(d, {"RXCLOSED"}) => c.state = d.state
    BY <1>5 DEF Same, Fields, PcbFields
  <2> QED BY <1>1, <1>4, <2>1 DEF CloseAs, Further, Freed, Opens
<1>7. ASSUME ~CanClose(d) PROVE Same(d, r, {"flags", "app"})
  <2>1. c = Set(d, {"RXCLOSED"})
    BY <1>1, <1>7 DEF CloseAs, CanClose
  <2> QED BY <1>2, <1>5, <2>1 DEF Same
<1> QED BY <1>2, <1>3, <1>6, <1>7 DEF r

LEMMA LaterSent ==
  ASSUME NEW d, Typed(d)
  PROVE  Later(d, Sent(d))
<1>1. CASE d.app = "write"
  <2> DEFINE w == Written(d)
             r == WriteMore(d)
  <2>1. /\ Typed(w) /\ Same(d, w, {"unsent", "snd_lbb", "snd_buf", "left", "app"}) /\ r = Output(w)
        /\ w.app \in {"write", "written"}
    BY WrittenKeeps
  <2> HIDE DEF w
  <2>2. Same(w, r, OutputFields) /\ OutputFields \cap {"app", "state"} = {}
    BY <2>1, OutputKeeps DEF OutputFields
  <2> HIDE DEF r
  <2>3. r.app = w.app /\ r.state = w.state
    BY <2>2, LaterFrame
  <2>4. w.state = d.state
    BY <2>1 DEF Same, Fields, PcbFields
  <2>5. Later(d, r)
    BY <1>1, <2>1, <2>3, <2>4 DEF Later, Further
  <2> QED BY <1>1, <2>5 DEF Sent, r
<1>2. CASE d.app = "close"
  <2>1. Sent(d) = CloseInternal(d)
    BY <1>2 DEF Sent
  <2> QED BY <1>2, <2>1, CloseFurther DEF Later, ToldApp
<1>3. CASE d.app \notin {"write", "close"}
  <2>1. Sent(d) = d
    BY <1>3 DEF Sent
  <2> QED BY <2>1 DEF Later, Further
<1> QED BY <1>1, <1>2, <1>3

\* The end of tcp_input.
Acks(d) == IF d.acked > 0 THEN Sent(d) ELSE d
Quits(s) == Output([GiveFin(GiveData(s)) EXCEPT !.input = FALSE])

LEMMA ConcludeForms ==
  ASSUME NEW d
  PROVE  LET s == Acks(d)  r == Conclude(d)
         IN  \/ r = d \/ r = Gone(ErrTcp(d), "reset")
             \/ \E how \in Endings : r = Gone(s, how)
             \/ s.recv_data # <<>> /\ "RXCLOSED" \in s.flags /\ r = Abort(s)
             \/ d.state # "FAULT" /\ r = Quits(s)
  BY DEF Conclude, Acks, Quits, Endings

QuitFields == GivenFields \cup {"refused_data", "refused_fin", "input"} \cup OutputFields

LEMMA QuitsKeeps ==
  ASSUME NEW s, Typed(s), s.input = TRUE
  PROVE  Typed(Quits(s)) /\ Same(s, Quits(s), QuitFields)
<1> DEFINE G == GivenFields \cup {"refused_data", "refused_fin"}
           g == GiveFin(GiveData(s))
           h == [g EXCEPT !.input = FALSE]
           r == Output(h)
<1>1. Typed(g) /\ Same(s, g, G)
  BY GiveWorks
<1> HIDE DEF g
<1>2. Same(g, h, {"input"}) /\ h.input = FALSE
  BY <1>1 DEF Same, Typed, Fields, HandlerFields
<1> HIDE DEF h
<1>3. IsTyped("input", h["input"])
  BY <1>2 DEF IsTyped
<1>4. Typed(h)
  BY <1>1, <1>2, <1>3, OneFieldTyped
<1>5. Typed(r) /\ Same(h, r, OutputFields)
  BY <1>4, OutputKeeps
<1> HIDE DEF r, G
<1>6. Same(s, h, G \cup {"input"})
  BY <1>1, <1>2, SameTwice
<1>7. Same(s, r, (G \cup {"input"}) \cup OutputFields)
  BY <1>5, <1>6, SameTwice
<1>8. (G \cup {"input"}) \cup OutputFields \subseteq QuitFields
  BY DEF G, QuitFields
<1>9. Same(s, r, QuitFields)
  BY <1>7, <1>8, SameMore
<1> QED BY <1>5, <1>9 DEF r, g, h, Quits

LEMMA LaterConclude ==
  ASSUME NEW d, Typed(d), d.input = TRUE
  PROVE  /\ Later(d, Conclude(d))
         /\ Typed(Acks(d)) /\ Same(d, Acks(d), SentFields) /\ Later(d, Acks(d)) /\ Acks(d).input = TRUE
<1> DEFINE s == Acks(d)
<1>1. Typed(s) /\ Same(d, s, SentFields) /\ Later(d, s)
  <2>1. Same(d, d, SentFields) /\ Later(d, d)
    BY DEF Same, Typed, Later, Further
  <2> QED BY <2>1, SentKeeps, LaterSent DEF Acks
<1> HIDE DEF s
<1>2. s.input = TRUE
  <2>1. "input" \in Fields \ SentFields
    BY FieldsApart DEF SentFields, CloseFields, EndedFields, Fields, PcbFields, HandlerFields
  <2> QED BY <1>1, <2>1 DEF Same
<1>3. Later(s, Quits(s))
  <2>1. Same(s, Quits(s), QuitFields)
    BY <1>1, <1>2, QuitsKeeps
  <2>2. QuitFields \cap {"app", "state"} = {}
    BY DEF QuitFields, GivenFields, OutputFields
  <2> QED BY <2>1, <2>2, LaterFrame
<1>4. /\ Later(s, Abort(s)) /\ \A how \in Endings : Later(s, Gone(s, how))
      /\ Later(d, d) /\ Later(d, Gone(ErrTcp(d), "reset"))
  BY <1>1, LaterGone DEF Later, Further, Endings
<1>5. Later(d, Conclude(d))
  BY <1>1, <1>3, <1>4, LaterTwice, ConcludeForms DEF s
<1> QED BY <1>1, <1>2, <1>5 DEF s

-----------------------------------------------------------------------------
(* The client: the units it has handed over so far end at Upto, and nothing *)
(* it has queued or sent goes further; a FIN is at their end, and there is  *)
(* none before the netconn is being deleted.                                *)
ClientApps == Apps \ {"accept", "took", "eof", "shut"}
Upto(d) == 2 + ToWrite["client"] - d.left
Shut(d) == d.app \in {"close", "done", "failed"}
Marks(f) == IF f THEN Flags ELSE Plain
Counts == {"SYN_SENT", "ESTABLISHED", "CLOSE_WAIT"}
Wrote(d, n, f) == Ships(d, Good(n, f), Marks(f))
Writer(d) ==
  /\ Wrote(d, Upto(d), Shut(d))
  /\ d.app \in ClientApps /\ d.left <= ToWrite["client"]
  /\ d.state \notin {"LISTEN", "SYN_RCVD"}
  /\ d.state = "SYN_SENT" => d.app = "connect"
  /\ d.app = "start" => d.left = ToWrite["client"]
  /\ d.state \in Counts /\ d.app \notin {"done", "failed"} => d.snd_lbb = Upto(d)
\* What a handler may do to what the writer has done.
Advances(d, r) ==
  r.left <= d.left /\ (Shut(d) => Shut(r)) /\ (r.left # d.left => ~Shut(r))

LEMMA PlainEnd ==
  ASSUME NEW s \in Segs, ~s.syn
  PROVE  SegEnd(s) = IF s.fin THEN DataEnd(s) + 1 ELSE DataEnd(s)
<1> DEFINE flag == IF s.syn \/ s.fin THEN 1 ELSE 0
<1>1. TcpLen(s) = Len(s.data) + flag
  BY DEF TcpLen
<1>2. s.fin => flag = 1
  BY Zenon
<1>3. ~s.fin => flag = 0
  BY Zenon
<1> HIDE DEF flag
<1>4. flag = 0 => SegEnd(s) = DataEnd(s)
  BY <1>1, SegmentFacts
<1>5. flag = 1 => SegEnd(s) = DataEnd(s) + 1
  BY <1>1, SegmentFacts
<1> QED BY <1>2, <1>3, <1>4, <1>5, Zenon

LEMMA UptoType ==
  ASSUME NEW d, Typed(d)
  PROVE  Upto(d) \in Int /\ Shut(d) \in BOOLEAN /\ d.left \in Nat /\ ToWrite["client"] \in Nat
<1>1. ToWrite["client"] \in Nat
  BY DataAssumption DEF Ends
<1> QED BY <1>1 DEF Upto, Shut, Typed, ConnTyped

LEMMA WroteMore ==
  ASSUME NEW d, NEW n \in Int, NEW k \in Int, n <= k, NEW f \in BOOLEAN, Wrote(d, n, FALSE)
  PROVE  Wrote(d, k, f)
<1>1. Good(n, FALSE) \subseteq Good(k, f) /\ Kind(Good(k, f))
  BY GoodGrows, KindGood
<1>2. Marks(FALSE) \subseteq Marks(f)
  BY DEF Marks, Plain
<1> QED BY <1>1, <1>2, ShipsMore DEF Wrote

LEMMA WriterStays ==
  ASSUME NEW d, NEW r, Writer(d), Later(d, r), Wrote(r, Upto(d), Shut(d)), r.left = d.left,
         r.snd_lbb = d.snd_lbb \/ r.state \notin Counts \/ r.app \in {"done", "failed"}
  PROVE  Writer(r) /\ Advances(d, r)
<1>1. Typed(d) /\ Typed(r)
  BY DEF Writer, Wrote, Ships
<1>2. Upto(r) = Upto(d) /\ Upto(d) \in Int /\ Shut(r) \in BOOLEAN /\ r.left \in Nat
  BY <1>1, UptoType DEF Upto
<1>3. Shut(d) => Shut(r)
  BY DEF Later, Shut, ToldApp
<1>4. Wrote(r, Upto(r), Shut(r))
  <2>1. CASE Shut(r) = Shut(d)
    BY <1>2, <2>1
  <2>2. CASE Shut(r) # Shut(d)
    <3>1. Shut(d) \in BOOLEAN
      BY <1>1, UptoType
    <3>2. Shut(d) = FALSE
      BY <1>2, <1>3, <2>2, <3>1, Zenon
    <3>3. Wrote(r, Upto(d), FALSE)
      BY <3>2, Zenon
    <3>4. Upto(d) <= Upto(d)
      BY <1>2
    <3>5. Wrote(r, Upto(d), Shut(r))
      BY <1>2, <3>3, <3>4, WroteMore, Zenon
    <3> QED BY <1>2, <3>5
  <2> QED BY <2>1, <2>2
<1>5. r.app \in ClientApps /\ d.app # "accept"
  BY <1>1 DEF Writer, Later, ClientApps, ToldApp, Apps
<1>6. Further(d.state, r.state)
  BY <1>5 DEF Later
<1>7. r.state \in Counts => d.state \in Counts
  BY <1>6 DEF Further, Counts, Opens
<1>8. r.app \notin {"done", "failed"} => d.app \notin {"done", "failed"}
  BY DEF Later, ToldApp
<1>9. r.state \in Counts /\ r.app \notin {"done", "failed"} => r.snd_lbb = Upto(r)
  BY <1>2, <1>7, <1>8 DEF Writer
<1>10. r.state \notin {"LISTEN", "SYN_RCVD"} /\ (r.state = "SYN_SENT" => r.app = "connect")
  BY <1>6 DEF Writer, Further, Opens, Later
<1>11. r.app = "start" => d.app = "start"
  BY DEF Later, ToldApp
<1> QED BY <1>2, <1>3, <1>4, <1>5, <1>9, <1>10, <1>11 DEF Writer, Advances

\* What a handler that leaves these alone keeps.
WriterFields == {"app", "state", "left", "snd_lbb"}

LEMMA WriterFrame ==
  ASSUME NEW d, NEW r, NEW T, Writer(d), Same(d, r, T), T \cap WriterFields = {},
         Wrote(r, Upto(d), Shut(d))
  PROVE  Writer(r) /\ Advances(d, r) /\ r.app = d.app /\ r.left = d.left
<1>1. Later(d, r) /\ r.app = d.app
  <2>1. T \cap {"app", "state"} = {}
    BY DEF WriterFields
  <2> QED BY <2>1, LaterFrame
<1>2. r.left = d.left /\ r.snd_lbb = d.snd_lbb
  BY DEF Same, WriterFields, Fields, PcbFields, ConnFields
<1> QED BY <1>1, <1>2, WriterStays

\* tcp_write and what follows: more units, in sequence.
LEMMA WrittenGood ==
  ASSUME NEW d, Writer(d), Ordered(d), d.state \in {"ESTABLISHED", "CLOSE_WAIT"}, ~Shut(d)
  PROVE  Writer(Written(d)) /\ Advances(d, Written(d)) /\ ~Shut(Written(d))
<1> DEFINE u == Units(d)
           w == Written(d)
           o == Offer(d)
           n == Upto(d)
           t == Upto(w)
           G == Good(t, FALSE)
<1>1. /\ Typed(d) /\ Wrote(d, n, FALSE) /\ d.snd_lbb = n /\ n \in Int /\ d.left \in Nat
      /\ ToWrite["client"] \in Nat
  <2>1. Typed(d)
    BY DEF Writer, Wrote, Ships
  <2>2. Shut(d) = FALSE /\ d.app \notin {"done", "failed"} /\ d.state \in Counts
    BY <2>1, UptoType DEF Shut, Counts
  <2> QED BY <2>1, <2>2, UptoType DEF Writer
<1>2. o \in Nat /\ o <= d.left /\ u \in Seq(Int) /\ Len(u) = o /\ \A i \in 1 .. o : u[i] = n + i - 1
  BY <1>1, UnitsFacts
<1>3. /\ Typed(w) /\ Same(d, w, {"unsent", "snd_lbb", "snd_buf", "left", "app"})
      /\ w.app \in {"write", "written"} /\ w.left = d.left - o
      /\ \E k : WrittenAs(d, u, k, w)
  BY <1>1, WrittenKeeps
<1> HIDE DEF o, u, w, n
<1>4. t = n + o /\ t \in Int
  BY <1>1, <1>2, <1>3 DEF Upto, n
<1> HIDE DEF t
<1>5. Wrote(d, t, FALSE)
  <2>1. n <= t /\ FALSE \in BOOLEAN
    BY <1>1, <1>2, <1>4
  <2> QED BY <1>1, <1>4, <2>1, WroteMore
<1>6. PICK k : WrittenAs(d, u, k, w)
  BY <1>3
<1> DEFINE v == SubSeq(u, k + 1, Len(u))
           c == Cut(d.snd_lbb + k, v)
           p == IF k = 0 THEN d.unsent ELSE Front(d.unsent) \o <<Filled(Last(d.unsent), u, k)>>
<1>7. /\ k \in 0 .. o /\ w.unsent = p \o c /\ w.snd_lbb = t
      /\ k # 0 => d.unsent # <<>> /\ Len(Last(d.unsent).data) # 0 /\ Len(Last(d.unsent).data) + k <= Mss
  BY <1>1, <1>2, <1>4, <1>6 DEF WrittenAs
<1>8. From(u, n)
  BY <1>2 DEF From
<1>9. c \in Seq(G)
  <2>1. v \in Seq(Int) /\ Len(v) = o - k /\ \A i \in 1 .. o - k : v[i] = u[k + i]
    BY <1>2, <1>7, PieceFacts
  <2> HIDE DEF v
  <2>2. ASSUME NEW i \in 1 .. Len(v) PROVE v[i] = (n + k) + i - 1
    BY <1>1, <1>2, <1>7, <2>1, <2>2
  <2>3. From(v, n + k)
    BY <2>2 DEF From
  <2>4. (n + k) + Len(v) <= t /\ n + k \in Int
    BY <1>1, <1>2, <1>4, <1>7, <2>1
  <2> QED BY <1>1, <1>4, <2>1, <2>3, <2>4, CutGood
<1> HIDE DEF v, c
<1>10. d.unsent \in Seq(G) /\ d.unsent \in Seq(Good(n, FALSE)) /\ d.unacked \in Seq(G)
       /\ d.flags \subseteq Plain /\ d.out \in Seq(OnWire(G)) /\ Kind(G)
  BY <1>1, <1>5 DEF Wrote, Ships, Marks
<1>11. ASSUME k # 0 PROVE p \in Seq(G)
  <2> DEFINE q == d.unsent
             s == Last(q)
             g == Filled(s, u, k)
  <2>1. PICK b, m, x : Queues(d, b, m, x)
    BY DEF Ordered
  <2>2. Line(q, m, x) /\ x = n
    BY <1>1, <2>1 DEF Queues, Limits, Opens
  <2>3. q # <<>> /\ Len(s.data) # 0 /\ Len(s.data) + k <= Mss
    BY <1>7, <1>11
  <2>4. SegEnd(s) = n
    BY <2>2, <2>3, LineLast
  <2>5. s \in Good(n, FALSE) /\ Front(q) \in Seq(G)
    BY <1>10, <2>3, LastFacts
  <2> HIDE DEF q, s
  <2>6. ~s.syn /\ ~s.fin /\ s.data # <<>> /\ s \in Segs
    <3>1. s.data # <<>>
      BY <2>3
    <3> QED BY <2>5, <3>1 DEF Good
  <2>7. DataEnd(s) = n
    BY <2>4, <2>6, PlainEnd
  <2>8. g \in G
    <3>1. DataEnd(s) + k <= t /\ From(u, DataEnd(s)) /\ k \in 0 .. Len(u)
      BY <1>1, <1>2, <1>4, <1>7, <1>8, <2>7
    <3> QED BY <1>1, <1>2, <1>4, <2>3, <2>5, <2>6, <3>1, FilledGood
  <2> HIDE DEF g, G
  <2>9. <<g>> \in Seq(G)
    BY <2>8, OneSeq
  <2>10. p = Front(q) \o <<g>>
    BY <1>11 DEF q, s, g
  <2> QED BY <2>5, <2>9, <2>10, ConcatProperties
<1>12. p \in Seq(G)
  BY <1>10, <1>11
<1> HIDE DEF p, G
<1>13. w.unsent \in Seq(G)
  BY <1>7, <1>9, <1>12, ConcatProperties
<1>14. /\ w.state = d.state /\ w.unacked = d.unacked /\ w.out = d.out /\ w.flags = d.flags
  BY <1>3 DEF Same, Fields, PcbFields, HandlerFields
<1>15. ~Shut(w) /\ Shut(w) = FALSE
  BY <1>3 DEF Shut
<1>16. Wrote(w, t, FALSE)
  <2>1. Marks(FALSE) = Plain
    BY DEF Marks
  <2>2. Ships(w, G, Plain)
    BY <1>3, <1>10, <1>13, <1>14 DEF Ships
  <2> QED BY <2>1, <2>2 DEF Wrote, G
<1>17. Writer(w)
  <2>1. Wrote(w, Upto(w), Shut(w))
    BY <1>15, <1>16, Zenon DEF t
  <2>2. w.app \in ClientApps /\ w.app \notin {"start", "connect"} /\ w.left <= ToWrite["client"]
    BY <1>1, <1>2, <1>3 DEF Writer, ClientApps, Apps
  <2> QED BY <1>7, <1>14, <2>1, <2>2 DEF Writer, t
<1>18. Advances(d, w)
  BY <1>1, <1>2, <1>3, <1>15 DEF Advances
<1> QED BY <1>15, <1>17, <1>18 DEF w

\* tcp_close: what it sends besides what was queued is a reset, or a FIN.
LEMMA ShipsClose ==
  ASSUME NEW d, NEW S, Ships(d, S, Flags),
         CanSendFin(d) => SendFin(Set(d, {"RXCLOSED"})).unsent \in Seq(S)
  PROVE  Ships(CloseInternal(d), S, Flags)
<1> DEFINE c == Set(d, {"RXCLOSED"})
           b == Emit(c, Reset(c.snd_nxt, c.rcv_nxt))
           p == Purge(b)
           x == [p EXCEPT !.recv_flags = p.recv_flags \cup {"CLOSED"}]
           k == SendFin(c)
           z == Closed(d)
           t == TcpClose(d)
           r == CloseInternal(d)
<1>1. TcpClose(d) \in {c, TimeWait(p), x, Gone(p, "aborted")} \/ (CanSendFin(d) /\ TcpClose(d) = Output(z))
  <2>1. c.unsent = d.unsent /\ c.snd_buf = d.snd_buf
    BY DEF Set, Ships, Typed, Fields, PcbFields
  <2>2. CanSendFin(c) = CanSendFin(d)
    BY <2>1 DEF CanSendFin, JoinsLast
  <2> QED BY <2>2 DEF TcpClose, Closed
<1>2. Ships(c, S, Flags)
  BY ShipsFlags DEF Flags
<1> HIDE DEF c
<1>3. Ships(b, S, Flags)
  <2>1. Reset(c.snd_nxt, c.rcv_nxt) \in OnWire(S)
    BY <1>2, ResetShips DEF Ships, Typed, PcbTyped
  <2> QED BY <1>2, <2>1, ShipsEmit
<1> HIDE DEF b
<1>4. Ships(p, S, Flags)
  BY <1>3, ShipsPurge
<1> HIDE DEF p
<1>5. Ships(TimeWait(p), S, Flags) /\ Ships(Gone(p, "aborted"), S, Flags)
  BY <1>4, ShipsPurge, ShipsGone DEF Endings
<1>6. Ships(x, S, Flags)
  <2>1. p.recv_flags \cup {"CLOSED"} \in SUBSET RecvFlags
    BY <1>4 DEF Ships, Typed, HandlerTyped, RecvFlags
  <2> QED BY <1>4, <2>1, ShipsState
<1>7. ASSUME CanSendFin(d) PROVE Ships(z, S, Flags)
  <2>1. Typed(d) /\ Typed(c)
    BY <1>2 DEF Ships
  <2>2. Typed(z) /\ Same(k, z, {"state"}) /\ k.unsent \in Seq(S)
    BY <1>7, <2>1, ClosedKeeps DEF c
  <2>3. CanSendFin(c)
    <3>1. c.unsent = d.unsent /\ c.snd_buf = d.snd_buf
      BY <2>1 DEF c, Set, Typed, Fields, PcbFields
    <3> QED BY <1>7, <3>1 DEF CanSendFin, JoinsLast
  <2>4. Typed(k) /\ Same(c, k, {"flags", "unsent", "snd_lbb", "snd_buf"})
    BY <2>1, <2>3, SendFinKeeps
  <2> HIDE DEF k, z
  <2>5. k.unacked = c.unacked
    BY <2>4 DEF Same, Fields, PcbFields
  <2>6. k.flags \subseteq Flags /\ "out" \notin {"flags", "unsent", "snd_lbb", "snd_buf"}
    BY <2>4 DEF Typed, PcbTyped
  <2>7. Ships(k, S, Flags)
    BY ZenonT(30), <1>2, <2>2, <2>4, <2>5, <2>6, ShipsLess DEF Ships
  <2>8. {"state"} \cap ShipFields = {}
    BY DEF ShipFields
  <2> QED BY <2>2, <2>7, <2>8, ShipsFrame
<1> HIDE DEF x, z
<1>8. Ships(t, S, Flags)
  <2>1. CanSendFin(d) => Ships(Output(z), S, Flags)
    BY <1>7, ShipsOutput
  <2> HIDE DEF t
  <2> QED BY <1>1, <1>2, <1>5, <1>6, <2>1 DEF t
<1>9. Typed(r) /\ Same(t, r, {"app"})
  BY CloseInternalKeeps DEF Ships
<1> HIDE DEF t, r
<1>10. {"app"} \cap ShipFields = {}
  BY DEF ShipFields
<1>11. Ships(r, S, Flags)
  BY <1>8, <1>9, <1>10, ShipsFrame
<1> QED BY <1>11 DEF r

\* tcp_send_fin: the FIN is behind the last unit.
LEMMA FinGood ==
  ASSUME NEW d, NEW n \in Int, NEW f, Ships(d, Good(n, TRUE), Flags), Ordered(d), CanSendFin(d),
         d.state \in {"ESTABLISHED", "CLOSE_WAIT"}, d.snd_lbb = n
  PROVE  SendFin(d).unsent \in Seq(Good(n, TRUE))
<1> DEFINE G == Good(n, TRUE)
           q == d.unsent
           s == Last(q)
           z == [s EXCEPT !.fin = TRUE]
           y == Segment(n, <<>>, FALSE, TRUE)
           u == SendFin(d).unsent
<1>1. Typed(d) /\ q \in Seq(G)
  BY DEF Ships
<1>2. CASE JoinsLast(d)
  <2>1. u = [q EXCEPT ![Len(q)] = z] /\ q # <<>> /\ ~s.syn /\ ~s.fin
    BY <1>1, <1>2, SendFinKeeps DEF JoinsLast
  <2>2. PICK b, m, x : Queues(d, b, m, x)
    BY DEF Ordered
  <2>3. Line(q, m, x) /\ x = n
    BY <2>2 DEF Queues, Limits, Opens
  <2>4. SegEnd(s) = n
    BY <2>1, <2>3, LineLast
  <2>5. s \in G /\ s = q[Len(q)] /\ Len(q) \in Nat \ {0}
    BY <1>1, <2>1, LastFacts
  <2>6. s \in Segs /\ From(s.data, s.seq)
    BY <2>5 DEF Good
  <2>7. DataEnd(s) = n
    BY <2>1, <2>4, <2>6, PlainEnd
  <2> HIDE DEF u, q, s
  <2>8. z \in Segs /\ z.data = s.data /\ z.seq = s.seq /\ z.syn = s.syn
    BY <2>6 DEF Segs
  <2>9. DataEnd(z) = n /\ From(z.data, z.seq)
    <3> HIDE DEF z
    <3> QED BY <2>6, <2>7, <2>8 DEF DataEnd
  <2>10. z \in G
    <3>1. ~z.syn
      BY <2>1, <2>8
    <3> HIDE DEF z
    <3> QED BY <2>8, <2>9, <3>1 DEF Good
  <2> HIDE DEF z, G
  <2>11. u \in Seq(G)
    <3>1. q \in [1 .. Len(q) -> G] /\ Len(q) \in 1 .. Len(q)
      BY <1>1, <2>5, LenProperties
    <3>2. u \in [1 .. Len(q) -> G]
      BY <2>1, <2>10, <3>1
    <3> QED BY <2>5, <3>2, SeqDef
  <2> QED BY <2>11 DEF u, G
<1>3. CASE ~JoinsLast(d)
  <2>1. u = Append(q, y)
    BY <1>1, <1>3, SendFinKeeps
  <2>2. y \in Segs /\ y.seq = n /\ y.data = <<>> /\ y.fin /\ ~y.syn
    BY PayloadFacts, SegmentType DEF Segment
  <2>3. Len(y.data) = 0
    BY <2>2, EmptySeq
  <2>4. y \in G
    <3> HIDE DEF y
    <3>1. DataEnd(y) = n /\ From(y.data, y.seq)
      BY <2>2, <2>3 DEF DataEnd, From
    <3> QED BY <2>2, <3>1 DEF Good
  <2> HIDE DEF G, y, q
  <2>5. Append(q, y) \in Seq(G)
    BY <1>1, <2>4, AppendProperties
  <2> QED BY <2>1, <2>5 DEF G
<1> QED BY <1>2, <1>3

LEMMA CloseGood ==
  ASSUME NEW d, Writer(d), Ordered(d), d.state \in {"ESTABLISHED", "CLOSE_WAIT"},
         d.app \notin {"done", "failed"}
  PROVE  Writer(CloseInternal(d)) /\ Advances(d, CloseInternal(d))
<1> DEFINE n == Upto(d)
           G == Good(n, TRUE)
           c == Set(d, {"RXCLOSED"})
           r == CloseInternal(d)
<1>1. Typed(d) /\ n \in Int /\ d.snd_lbb = n /\ d.app # "accept" /\ Shut(d) \in BOOLEAN
  <2>1. Typed(d)
    BY DEF Writer, Wrote, Ships
  <2> QED BY <2>1, UptoType DEF Writer, Counts, ClientApps
<1>2. Ships(d, G, Flags)
  <2>1. Wrote(d, n, Shut(d)) /\ n <= n
    BY <1>1 DEF Writer
  <2>2. CASE Shut(d) = TRUE
    <3>1. Wrote(d, n, TRUE)
      BY <2>1, <2>2, Zenon
    <3> QED BY <3>1 DEF Wrote, Marks
  <2>3. CASE Shut(d) = FALSE
    <3>1. Wrote(d, n, FALSE)
      BY <2>1, <2>3, Zenon
    <3>2. Wrote(d, n, TRUE)
      BY <1>1, <2>1, <3>1, WroteMore
    <3> QED BY <3>2 DEF Wrote, Marks
  <2> QED BY <1>1, <2>2, <2>3
<1>3. Ships(c, G, Flags) /\ Same(d, c, {"flags"})
  BY <1>1, <1>2, ShipsFlags, MarkedKeeps DEF Flags
<1> HIDE DEF c, n, G
<1>4. /\ c.unsent = d.unsent /\ c.snd_buf = d.snd_buf /\ c.snd_lbb = n /\ c.state = d.state
  BY <1>1, <1>3 DEF Same, Fields, PcbFields
<1>5. Ordered(c)
  <2>1. {"flags"} \cap (SenderFields \cup {"state"}) = {}
    BY DEF SenderFields
  <2> QED BY <1>3, <2>1, FramedSame
<1>6. CanSendFin(d) => SendFin(c).unsent \in Seq(G)
  <2>1. CanSendFin(d) = CanSendFin(c)
    BY <1>4 DEF CanSendFin, JoinsLast
  <2> QED BY <1>1, <1>3, <1>4, <1>5, <2>1, FinGood DEF G
<1>7. Ships(r, G, Flags)
  BY <1>2, <1>6, ShipsClose DEF c
<1>8. /\ Same(d, r, CloseFields) /\ Further(d.state, r.state)
      /\ r.app = IF CanClose(d) THEN "done" ELSE "close"
      /\ ~CanClose(d) => Same(d, r, {"flags", "app"})
  BY <1>1, CloseInternalKeeps, CloseFurther
<1> HIDE DEF r
<1>9. r.left = d.left
  <2>1. "left" \in Fields \ CloseFields
    BY FieldsApart DEF CloseFields, EndedFields, Fields, PcbFields, ConnFields
  <2> QED BY <1>8, <2>1 DEF Same
<1>10. ~CanClose(d) => r.snd_lbb = d.snd_lbb
  BY <1>8 DEF Same, Fields, PcbFields
<1>11. Shut(r) /\ Shut(r) = TRUE
  BY <1>8 DEF Shut
<1>12. Upto(r) = n
  BY <1>9 DEF Upto, n
<1>13. Wrote(r, Upto(r), Shut(r))
  <2>1. Wrote(r, n, TRUE)
    BY <1>7 DEF Wrote, Marks, G
  <2> QED BY <1>11, <1>12, <2>1, Zenon
<1>14. r.state \notin {"LISTEN", "SYN_RCVD", "SYN_SENT"} /\ r.app \in {"done", "close"}
  BY <1>8 DEF Further, Opens
<1>15. Writer(r)
  BY <1>1, <1>8, <1>9, <1>10, <1>12, <1>13, <1>14 DEF Writer, ClientApps, Apps
<1>16. d.left \in Nat
  BY <1>1, UptoType
<1> QED BY <1>9, <1>11, <1>15, <1>16 DEF Advances, r

(* What the client's handlers do.                                           *)
Keeps(d, r) == Writer(r) /\ Advances(d, r)
\* One that writes nothing and does not end the connection.
Level(d, r) == Keeps(d, r) /\ r.left = d.left /\ (Shut(r) => Shut(d))

LEMMA WriterTyped ==
  ASSUME NEW d, Writer(d)
  PROVE  /\ Typed(d) /\ Upto(d) \in Int /\ Shut(d) \in BOOLEAN /\ d.left \in Nat
         /\ d.app # "accept" /\ d.state \notin {"LISTEN", "SYN_RCVD"}
         /\ Keeps(d, d) /\ Wrote(d, Upto(d), Shut(d))
<1>1. Typed(d)
  BY DEF Writer, Wrote, Ships
<1>2. Upto(d) \in Int /\ Shut(d) \in BOOLEAN /\ d.left \in Nat
  BY <1>1, UptoType
<1>3. Advances(d, d)
  BY <1>2 DEF Advances
<1> QED BY <1>1, <1>2, <1>3 DEF Writer, ClientApps, Keeps
\* Two handlers in one: what is written is not followed by the end of the connection.
LEMMA KeepsTwice ==
  ASSUME NEW d, NEW r, NEW q, Typed(d), Keeps(d, r), Keeps(r, q),
         (Shut(q) => Shut(r)) \/ r.left = d.left
  PROVE  Keeps(d, q)
<1>1. d.left \in Nat /\ r.left \in Nat /\ q.left \in Nat
  BY WriterTyped DEF Keeps, Typed, ConnTyped
<1> QED BY <1>1 DEF Keeps, Advances

LEMMA LevelThen ==
  ASSUME NEW d, NEW r, NEW q, Typed(d), Level(d, r), Keeps(r, q)
  PROVE  Keeps(d, q) /\ (Level(r, q) => Level(d, q))
BY KeepsTwice DEF Level

LEMMA LevelFrame ==
  ASSUME NEW d, NEW r, NEW T, Writer(d), Same(d, r, T), T \cap WriterFields = {},
         Wrote(r, Upto(d), Shut(d))
  PROVE  Level(d, r)
BY WriterFrame DEF Level, Keeps, Shut

LEMMA WriterOutput ==
  ASSUME NEW d, Writer(d)
  PROVE  Level(d, Output(d))
<1> DEFINE r == Output(d)
<1>1. Same(d, r, OutputFields)
  BY WriterTyped, OutputKeeps
<1>2. Wrote(r, Upto(d), Shut(d))
  BY WriterTyped, ShipsOutput DEF Wrote
<1> HIDE DEF r
<1>3. OutputFields \cap WriterFields = {}
  BY DEF OutputFields, WriterFields
<1>4. Level(d, r)
  BY <1>1, <1>2, <1>3, LevelFrame
<1> QED BY <1>4 DEF r
\* The pcb is gone.
LEMMA WriterGone ==
  ASSUME NEW d, NEW how \in Endings, Writer(d)
  PROVE  /\ Keeps(d, Gone(d, how)) /\ Gone(d, how).app = d.app
         /\ Keeps(d, Gone(ErrTcp(d), how)) /\ Keeps(d, ErrTcp(Gone(d, how))) /\ Keeps(d, Abort(d))
<1> DEFINE n == Upto(d)
           f == Shut(d)
           g == Gone(d, how)
           x == ErrTcp(d)
           y == Gone(x, how)
           z == ErrTcp(g)
           a == Abort(d)
<1>1. Typed(d) /\ Wrote(d, n, f)
  BY WriterTyped
<1>2. Wrote(g, n, f) /\ Wrote(x, n, f) /\ Wrote(a, n, f)
  BY <1>1, ShipsGone, ShipsAbort DEF Wrote
<1>3. Wrote(y, n, f) /\ Wrote(z, n, f)
  BY <1>2, ShipsGone DEF Wrote
<1>4. /\ Later(d, g) /\ g.app = d.app /\ Later(d, y) /\ Later(d, z) /\ Later(d, a)
      /\ Same(d, g, EndedFields) /\ Same(d, y, EndedFields) /\ Same(d, z, EndedFields)
      /\ Same(d, a, EndedFields)
  BY <1>1, LaterGone, AbortKeeps
<1>5. /\ g.state \in {"CLOSED", "LISTEN"} /\ y.state \in {"CLOSED", "LISTEN"}
      /\ a.state \in {"CLOSED", "LISTEN"} /\ Typed(g)
  BY <1>1, <1>2, GoneSame, AbortKeeps DEF Wrote, Ships
<1>6. z.state = g.state
  <2>1. Same(g, z, {"app", "recvmbox", "took"})
    BY <1>5, ErrTcpKeeps
  <2> QED BY <2>1 DEF Same, Fields, PcbFields
<1> HIDE DEF n, f, g, x, y, z, a
<1>7. g.left = d.left /\ y.left = d.left /\ z.left = d.left /\ a.left = d.left
  BY <1>4 DEF Same, EndedFields, Fields, PcbFields, ConnFields
<1>8. {"CLOSED", "LISTEN"} \cap Counts = {}
  BY DEF Counts
<1>9. Keeps(d, g) /\ Keeps(d, y) /\ Keeps(d, z) /\ Keeps(d, a)
  BY <1>2, <1>3, <1>4, <1>5, <1>6, <1>7, <1>8, WriterStays DEF Keeps, n, f
<1> QED BY <1>4, <1>9 DEF g, x, y, z, a

LEMMA WriterSent ==
  ASSUME NEW d, Writer(d), AppOk(d), d.app \in {"write", "close"} => Ordered(d)
  PROVE  Keeps(d, Sent(d)) /\ (Shut(Sent(d)) <=> Shut(d))
<1>1. CASE d.app = "write"
  <2> DEFINE w == Written(d)
             o == Output(w)
  <2>1. Sent(d) = o
    BY <1>1, WriterTyped, WrittenKeeps DEF Sent
  <2>2. d.state \in {"ESTABLISHED", "CLOSE_WAIT"} /\ ~Shut(d)
    BY <1>1 DEF AppOk, AppOpen, Shut
  <2>3. Writer(w) /\ Advances(d, w) /\ ~Shut(w)
    BY <1>1, <2>2, WrittenGood
  <2> HIDE DEF w
  <2>4. Level(w, o)
    BY <2>3, WriterOutput
  <2> HIDE DEF o
  <2>5. ~Shut(o)
    BY <2>3, <2>4 DEF Level
  <2>6. Keeps(d, o)
    BY <2>3, <2>4, <2>5, WriterTyped, KeepsTwice DEF Keeps, Level
  <2> QED BY <2>1, <2>2, <2>5, <2>6
<1>2. CASE d.app = "close"
  <2> DEFINE c == CloseInternal(d)
  <2>1. Sent(d) = c
    BY <1>2 DEF Sent
  <2>2. d.state \in {"ESTABLISHED", "CLOSE_WAIT"} /\ Shut(d) /\ d.app \notin {"done", "failed"}
    BY <1>2 DEF AppOk, AppOpen, Shut
  <2>3. Writer(c) /\ Advances(d, c)
    BY <1>2, <2>2, CloseGood
  <2> HIDE DEF c
  <2> QED BY <2>1, <2>2, <2>3 DEF Keeps, Advances
<1>3. CASE d.app \notin {"write", "close"}
  <2>1. Sent(d) = d
    BY <1>3 DEF Sent
  <2> QED BY <2>1, WriterTyped
<1> QED BY <1>1, <1>2, <1>3

LEMMA WriterQuits ==
  ASSUME NEW s, Writer(s), s.input = TRUE
  PROVE  Level(s, Quits(s))
<1> DEFINE g == GiveFin(GiveData(s))
           i == [g EXCEPT !.input = FALSE]
           q == Quits(s)
<1>1. Wrote(g, Upto(s), Shut(s))
  BY WriterTyped, ShipsGive DEF Wrote
<1> HIDE DEF g
<1>2. Wrote(i, Upto(s), Shut(s))
  BY <1>1, ShipsState DEF Wrote
<1>3. q = Output(i)
  BY DEF Quits, g
<1> HIDE DEF i
<1>4. Wrote(q, Upto(s), Shut(s))
  BY <1>2, <1>3, ShipsOutput DEF Wrote
<1>5. Same(s, q, QuitFields)
  BY WriterTyped, QuitsKeeps
<1> HIDE DEF q
<1>6. QuitFields \cap WriterFields = {}
  BY DEF QuitFields, GivenFields, OutputFields, WriterFields
<1>7. Level(s, q)
  BY <1>4, <1>5, <1>6, LevelFrame
<1> QED BY <1>7 DEF q

LEMMA WriterConclude ==
  ASSUME NEW d, Writer(d), d.input = TRUE, AppOk(d), Works(d)
  PROVE  Keeps(d, Conclude(d))
<1> DEFINE s == Acks(d)
           r == Conclude(d)
<1>1. Keeps(d, s) /\ (Shut(s) <=> Shut(d)) /\ s.input = TRUE /\ Typed(d)
  <2>1. Typed(d) /\ s.input = TRUE
    BY WriterTyped, LaterConclude
  <2>2. CASE d.acked > 0
    <3>1. d.app \in {"write", "close"} => Ordered(d)
      <4>1. d.acked # 0
        BY <2>1, <2>2 DEF Typed, PcbTyped
      <4> QED BY <4>1 DEF AppOk, AppOpen, Works, Going, Active
    <3>2. s = Sent(d)
      BY <2>2 DEF Acks
    <3> QED BY <2>1, <3>1, <3>2, WriterSent
  <2>3. CASE ~(d.acked > 0)
    <3>1. s = d
      BY <2>3 DEF Acks
    <3> QED BY <2>1, <3>1, WriterTyped
  <2> QED BY <2>2, <2>3
<1>2. \/ r = d \/ r = Gone(ErrTcp(d), "reset")
      \/ \E how \in Endings : r = Gone(s, how)
      \/ s.recv_data # <<>> /\ "RXCLOSED" \in s.flags /\ r = Abort(s)
      \/ d.state # "FAULT" /\ r = Quits(s)
  BY ConcludeForms
<1> HIDE DEF s, r
<1>3. CASE r = d
  BY <1>3, WriterTyped DEF r
<1>4. CASE r = Gone(ErrTcp(d), "reset")
  <2>1. "reset" \in Endings
    BY DEF Endings
  <2> QED BY <1>4, <2>1, WriterGone DEF r
<1>5. ASSUME NEW how \in Endings, r = Gone(s, how)
      PROVE  Keeps(d, r)
  <2>1. Keeps(s, r) /\ r.app = s.app
    BY <1>1, <1>5, WriterGone DEF Keeps
  <2>2. Shut(r) => Shut(s)
    BY <2>1 DEF Shut
  <2> QED BY <1>1, <2>1, <2>2, KeepsTwice
<1>6. CASE "RXCLOSED" \in s.flags /\ r = Abort(s)
  <2> DEFINE what == "aborted"
  <2>1. what \in Endings
    BY DEF Endings
  <2> HIDE DEF what
  <2>2. Keeps(s, r)
    BY <1>1, <1>6, <2>1, WriterGone DEF Keeps
  <2>3. Shut(s)
    <3>1. SUFFICES ASSUME ~Shut(s) PROVE FALSE
      OBVIOUS
    <3>2. Shut(s) = FALSE /\ Wrote(s, Upto(s), Shut(s))
      BY <1>1, <3>1, WriterTyped DEF Keeps
    <3>3. Wrote(s, Upto(s), FALSE)
      BY <3>2, Zenon
    <3>4. s.flags \subseteq Plain
      BY <3>3 DEF Wrote, Ships, Marks
    <3> QED BY <1>6, <3>4 DEF Plain
  <2>4. s.left = d.left
    BY <1>1, <2>3 DEF Keeps, Advances
  <2> QED BY <1>1, <2>2, <2>4, KeepsTwice DEF r
<1>7. CASE r = Quits(s)
  <2>1. Keeps(s, r)
    BY <1>1, <1>7, WriterQuits DEF Keeps, Level
  <2>2. Shut(r) => Shut(s)
    BY <1>1, <1>7, WriterQuits DEF Keeps, Level
  <2> QED BY <1>1, <2>1, <2>2, KeepsTwice DEF r
<1> QED BY <1>2, <1>3, <1>4, <1>5, <1>6, <1>7 DEF r

LEMMA WriterProcess ==
  ASSUME NEW d, NEW m \in Messages, Writer(d)
  PROVE  Level(d, Process(d, m))
<1> DEFINE r == Process(d, m)
<1>1. Typed(d) /\ d.state # "SYN_RCVD" /\ Upto(d) \in Int
  BY WriterTyped
<1>2. Wrote(r, Upto(d), Shut(d))
  BY <1>1, WriterTyped, ShipsProcess DEF Wrote
<1>3. /\ Same(d, r, ProcessFields)
      /\ \/ r.app = d.app /\ Moved(d.state, r.state)
         \/ d.state = "SYN_SENT" /\ r.app = "open" /\ r.state = "ESTABLISHED"
  BY <1>1, ProcessKeeps
<1> HIDE DEF r
<1>4. r.left = d.left /\ r.snd_lbb = d.snd_lbb
  <2>1. {"left", "snd_lbb"} \subseteq Fields \ ProcessFields
    BY DEF ProcessFields, ReceiveFields, AckFields, OldAckFields, NewAckFields, DataFields, AcceptFields,
           PurgedFields, SynFields, Fields, PcbFields, ConnFields
  <2> QED BY <1>3, <2>1 DEF Same
<1>5. CASE r.app = d.app /\ Moved(d.state, r.state)
  <2>1. Later(d, r)
    BY <1>1, <1>5, WriterTyped DEF Later, Moved, Further
  <2>2. Shut(r) => Shut(d)
    BY <1>5 DEF Shut
  <2> QED BY <1>2, <1>4, <2>1, <2>2, WriterStays DEF r, Keeps, Level
<1>6. CASE d.state = "SYN_SENT" /\ r.app = "open" /\ r.state = "ESTABLISHED"
  <2>1. d.app = "connect" /\ d.snd_lbb = Upto(d) /\ d.left <= ToWrite["client"]
    BY <1>6 DEF Writer, Counts
  <2>2. Upto(r) = Upto(d)
    BY <1>4 DEF Upto
  <2>3. ~Shut(r) /\ ~Shut(d)
    BY <1>6, <2>1 DEF Shut
  <2>4. Shut(r) = FALSE /\ Shut(d) = FALSE
    BY <2>3 DEF Shut
  <2>5. Wrote(r, Upto(r), Shut(r))
    <3>1. Wrote(r, Upto(d), FALSE)
      BY <1>2, <2>4, Zenon
    <3> QED BY <2>2, <2>4, <3>1, Zenon
  <2>6. r.app \in ClientApps
    BY <1>6 DEF ClientApps, Apps
  <2>7. Writer(r)
    BY <1>4, <1>6, <2>1, <2>2, <2>5, <2>6 DEF Writer
  <2>8. Advances(d, r)
    BY <1>1, <1>4, <2>3, UptoType DEF Advances
  <2> QED BY <1>4, <2>3, <2>7, <2>8 DEF Keeps, Level, r
<1> QED BY <1>3, <1>5, <1>6

LEMMA WriterFlags ==
  ASSUME NEW d, NEW f \in SUBSET Flags, f \subseteq Plain, Writer(d)
  PROVE  Level(d, Set(d, f)) /\ Level(d, Clear(d, f))
<1> DEFINE s == Set(d, f)
           c == Clear(d, f)
<1>1. f \subseteq Marks(Shut(d))
  BY DEF Marks, Plain
<1>2. Wrote(s, Upto(d), Shut(d)) /\ Wrote(c, Upto(d), Shut(d))
  BY <1>1, WriterTyped, ShipsFlags DEF Wrote
<1>3. Same(d, s, {"flags"}) /\ Same(d, c, {"flags"})
  BY WriterTyped, FlagsKeep
<1> HIDE DEF s, c
<1>4. {"flags"} \cap WriterFields = {}
  BY DEF WriterFields
<1>5. Level(d, s) /\ Level(d, c)
  BY <1>2, <1>3, <1>4, LevelFrame
<1> QED BY <1>5 DEF s, c

LEMMA AckFlags ==
  /\ {"ACK_NOW"} \in SUBSET Flags /\ {"ACK_NOW"} \subseteq Plain
  /\ {"ACK_DELAY", "ACK_NOW"} \in SUBSET Flags /\ {"ACK_DELAY", "ACK_NOW"} \subseteq Plain
BY DEF Flags, Plain

LEMMA WriterEmit ==
  ASSUME NEW d, NEW m \in Messages, Writer(d)
  PROVE  Level(d, Emit(d, ResetFor(m)))
<1> DEFINE x == ResetFor(m)
           r == Emit(d, x)
<1>1. x \in OnWire(Good(Upto(d), Shut(d)))
  BY MessageFacts, ResetShips DEF ResetFor
<1> HIDE DEF x
<1>2. Wrote(r, Upto(d), Shut(d)) /\ x \in Messages
  BY <1>1, WriterTyped, ShipsEmit DEF Wrote, OnWire
<1>3. Same(d, r, {"out"})
  BY <1>2, WriterTyped, EmitKeeps
<1> HIDE DEF r
<1>4. {"out"} \cap WriterFields = {}
  BY DEF WriterFields
<1>5. Level(d, r)
  BY <1>2, <1>3, <1>4, LevelFrame
<1> QED BY <1>5 DEF r, x

LEMMA WriterRefused ==
  ASSUME NEW d, Writer(d)
  PROVE  Level(d, ProcessRefused(d))
<1> DEFINE r == ProcessRefused(d)
           T == RecvedFields \cup {"recvmbox", "refused_data", "refused_fin"}
<1>1. Wrote(r, Upto(d), Shut(d)) /\ Same(d, r, T)
  BY WriterTyped, ShipsRefused, ProcessRefusedKeeps DEF Wrote
<1> HIDE DEF r
<1>2. T \cap WriterFields = {}
  BY DEF WriterFields, RecvedFields, OutputFields
<1> HIDE DEF T
<1>3. Level(d, r)
  BY <1>1, <1>2, LevelFrame
<1> QED BY <1>3 DEF r
\* tcp_input.
LEMMA WriterInput ==
  ASSUME NEW d, NEW m \in Messages, HostOk(d), Sorted(d), Writer(d), d.state # "FAULT"
  PROVE  Keeps(d, Input(d, m))
<1> DEFINE N == {"ACK_NOW"}
           e == Emit(d, ResetFor(m))
           s == Set(d, N)
           o == Output(s)
           r == ProcessRefused(d)
           i == [r EXCEPT !.input = TRUE]
           p == Process(i, m)
           S == RecvedFields \cup {"recvmbox", "refused_data", "refused_fin"}
<1>1. \/ Input(d, m) \in {d, e, o, r}
      \/ d.state \in Active /\ Input(d, m) = Conclude(p)
  <2>1. Typed(d) /\ d.state \in {"CLOSED", "TIME_WAIT"} \cup Active
    <3>1. Typed(d) /\ d.state \in States /\ d.state \notin {"LISTEN", "FAULT"}
      BY WriterTyped DEF Typed, PcbTyped
    <3> QED BY <3>1 DEF States
  <2> HIDE DEF r, i, p, e
  <2>2. CASE d.state = "CLOSED"
    <3>1. Input(d, m) = d \/ Input(d, m) = e
      BY <2>2 DEF Input, Active, e
    <3> QED BY <3>1
  <2>3. CASE d.state = "TIME_WAIT"
    <3>1. Input(d, m) = TimeWaitInput(d, m)
      BY <2>3 DEF Input, Active
    <3>2. TimeWaitInput(d, m) = d \/ TimeWaitInput(d, m) = e \/ TimeWaitInput(d, m) = o
      BY DEF TimeWaitInput, e
    <3> QED BY <3>1, <3>2
  <2>4. CASE d.state \in Active
    <3>1. Input(d, m) = r \/ Input(d, m) = Conclude(p)
      BY <2>4 DEF Input, Active, r, i, p
    <3> QED BY <2>4, <3>1
  <2> QED BY <2>1, <2>2, <2>3, <2>4
<1>2. Keeps(d, d) /\ Typed(d)
  BY WriterTyped
<1>3. Keeps(d, e)
  BY WriterEmit DEF Level
<1>4. Keeps(d, o)
  <2>1. Level(d, s)
    BY WriterFlags, AckFlags
  <2> HIDE DEF s
  <2>2. Level(s, o)
    BY <2>1, WriterOutput DEF Level, Keeps
  <2> HIDE DEF o
  <2> QED BY <1>2, <2>1, <2>2, LevelThen DEF Level
<1>5. Level(d, r) /\ Typed(r) /\ Same(d, r, S)
  BY <1>2, WriterRefused, ProcessRefusedKeeps
<1>6. CASE d.state \in Active /\ Input(d, m) = Conclude(p)
  <2>1. Ordered(d) => Ordered(r)
    BY <1>2, ProcessRefusedOrdered
  <2> HIDE DEF r
  <2>2. Same(r, i, {"input"}) /\ i.input = TRUE
    BY <1>5 DEF Same, Typed, Fields, HandlerFields
  <2>3. Level(r, i)
    <3>1. Wrote(i, Upto(r), Shut(r))
      BY <1>5, WriterTyped, ShipsState DEF Wrote, Level, Keeps
    <3> HIDE DEF i
    <3>2. {"input"} \cap WriterFields = {}
      BY DEF WriterFields
    <3> QED BY <1>5, <2>2, <3>1, <3>2, LevelFrame DEF Level, Keeps
  <2> HIDE DEF i
  <2>4. Ordered(r) => Ordered(i)
    <3>1. {"input"} \cap (SenderFields \cup {"state"}) = {}
      BY DEF SenderFields
    <3> QED BY <2>2, <3>1, FramedSame
  <2>5. r.state = d.state /\ r.app = d.app /\ r.recv_flags = d.recv_flags
    BY <1>5 DEF Same, RecvedFields, OutputFields, Fields, PcbFields, HandlerFields, ConnFields
  <2>6. i.state = d.state /\ i.app = d.app /\ i.recv_flags = {}
    BY <2>2, <2>5 DEF Same, Fields, PcbFields, HandlerFields, ConnFields, HostOk
  <2>7. AppOk(i)
    BY <2>6 DEF HostOk, Open, AppOk
  <2>8. Typed(i) /\ Writer(i)
    BY <2>3, WriterTyped DEF Level, Keeps
  <2>9. Processed(i, p)
    BY <1>6, <2>6, <2>7, <2>8, ProcessWorks
  <2>10. Level(i, p)
    BY <2>8, WriterProcess
  <2> HIDE DEF p
  <2>11. p.input = TRUE /\ AppOk(p) /\ Works(p)
    BY <1>6, <2>1, <2>2, <2>4, <2>9 DEF Processed, Sorted
  <2>12. Keeps(p, Conclude(p))
    BY <2>10, <2>11, WriterConclude DEF Level, Keeps
  <2>13. Keeps(r, Conclude(p))
    BY <1>5, <2>3, <2>8, <2>10, <2>12, LevelThen
  <2>14. Keeps(d, Conclude(p))
    BY <1>2, <1>5, <2>13, LevelThen
  <2> QED BY <1>6, <2>14
<1> HIDE DEF e, o, r, p
<1>7. Keeps(d, r)
  BY <1>5 DEF Level
<1> QED BY <1>1, <1>2, <1>3, <1>4, <1>6, <1>7

\* The other handlers of the client.
LEMMA WriterApp ==
  ASSUME NEW d, Writer(d), NEW app \in {"connect", "write"}, ~Shut(d), d.state = "SYN_SENT" => app = "connect"
  PROVE  Level(d, [d EXCEPT !.app = app])
<1> DEFINE r == [d EXCEPT !.app = app]
<1>1. Typed(d) /\ Upto(d) \in Int /\ app \in Apps
  BY WriterTyped DEF Apps
<1>2. Same(d, r, {"app"}) /\ r.app = app
  BY <1>1 DEF Same, Typed, Fields, ConnFields
<1> HIDE DEF r
<1>3. r.left = d.left /\ r.state = d.state /\ r.snd_lbb = d.snd_lbb
  BY <1>2 DEF Same, Fields, PcbFields, ConnFields
<1>4. Upto(r) = Upto(d) /\ Shut(r) = Shut(d)
  BY <1>2, <1>3 DEF Upto, Shut
<1>5. Wrote(r, Upto(r), Shut(r))
  <2>1. IsTyped("app", r["app"]) /\ "app" \notin ShipFields
    BY <1>1, <1>2 DEF IsTyped, ShipFields
  <2>2. Wrote(r, Upto(d), Shut(d))
    BY <1>2, <2>1, WriterTyped, ShipsField DEF Wrote
  <2> QED BY <1>4, <2>2, Zenon
<1>6. r.app \in ClientApps /\ r.app \notin {"start", "done", "failed"}
      /\ d.app \notin {"done", "failed"}
  BY <1>2 DEF ClientApps, Apps, Shut
<1>7. Writer(r)
  BY <1>2, <1>3, <1>4, <1>5, <1>6 DEF Writer
<1>8. Advances(d, r)
  BY <1>3, <1>4, WriterTyped DEF Advances
<1> QED BY <1>3, <1>4, <1>7, <1>8 DEF Keeps, Level, r

LEMMA WriterOpening ==
  ASSUME NEW d, Writer(d), d.app = "start"
  PROVE  Keeps(d, Opening(d))
<1> DEFINE a == [d EXCEPT !.app = "connect"]
           N == NoPcb
           f == [N EXCEPT !.state = "SYN_SENT", !.snd_nxt = 2, !.lastack = 1, !.snd_lbb = 1]
           w == With(a, f)
           b == EnqueueFlags(w, TRUE, FALSE)
           y == Segment(1, <<>>, TRUE, FALSE)
           G == Good(2, FALSE)
<1>1. Opening(d) = Output(b)
  BY DEF Opening
<1>2. Level(d, a) /\ a.app = "connect" /\ Typed(a)
  <2>1. "connect" \in {"connect", "write"} /\ ~Shut(d)
    BY DEF Shut
  <2>2. Level(d, a)
    BY <2>1, WriterApp
  <2>3. a.app = "connect"
    BY WriterTyped DEF Typed, Fields, ConnFields
  <2> QED BY <2>2, <2>3, WriterTyped DEF Level, Keeps
<1>3. a.left = ToWrite["client"]
  BY <1>2 DEF Level, Writer
<1> HIDE DEF a
<1>4. DOMAIN N = PcbFields /\ PcbTyped(N)
  BY NoPcbTyped
<1>5. N.unsent = <<>> /\ N.unacked = <<>> /\ N.snd_buf = SndBuf /\ N.flags = {}
  BY DEF NoPcb
<1> HIDE DEF N
<1>6. /\ DOMAIN f = PcbFields
      /\ \A x \in PcbFields \ {"state", "snd_nxt", "lastack", "snd_lbb"} : f[x] = N[x]
      /\ f.state = "SYN_SENT" /\ f.snd_nxt = 2 /\ f.lastack = 1 /\ f.snd_lbb = 1
  BY <1>4 DEF PcbFields
<1> HIDE DEF f
<1>7. PcbTyped(f)
  <2>1. f.state \in States /\ f.snd_nxt \in Int /\ f.lastack \in Int /\ f.snd_lbb \in Int
    BY <1>6 DEF States, Active
  <2> QED BY <1>4, <1>6, <2>1 DEF PcbTyped, PcbFields
<1>8. /\ Typed(w) /\ \A x \in PcbFields : w[x] = f[x]
      /\ \A x \in HandlerFields \cup ConnFields : w[x] = a[x]
  BY <1>2, <1>6, <1>7, WithTyped
<1> HIDE DEF w
<1>9. /\ w.unsent = <<>> /\ w.unacked = <<>> /\ w.flags = {} /\ w.snd_buf = SndBuf /\ w.snd_lbb = 1
      /\ w.state = "SYN_SENT" /\ w.app = "connect" /\ w.out = a.out /\ w.left = a.left
  BY <1>2, <1>5, <1>6, <1>8 DEF PcbFields, HandlerFields, ConnFields
<1>10. w.snd_buf > 0
  BY <1>9, Constants DEF SndBuf
<1>11. /\ Typed(b) /\ Same(w, b, {"flags", "unsent", "snd_lbb", "snd_buf"})
       /\ b.unsent = Append(<<>>, y) /\ b.snd_lbb = 2 /\ y \in Segs
  <2>1. TRUE \in BOOLEAN /\ FALSE \in BOOLEAN
    OBVIOUS
  <2>2. /\ Typed(b) /\ Same(w, b, {"flags", "unsent", "snd_lbb", "snd_buf"})
        /\ b.unsent = Append(w.unsent, Segment(w.snd_lbb, <<>>, TRUE, FALSE))
        /\ b.snd_lbb = w.snd_lbb + 1 /\ Segment(w.snd_lbb, <<>>, TRUE, FALSE) \in Segs
    BY <1>8, <1>10, <2>1, EnqueueKeeps
  <2> HIDE DEF b
  <2>3. b.unsent = Append(<<>>, y) /\ y \in Segs
    BY <1>9, <2>2, Zenon
  <2>4. b.snd_lbb = 2
    BY <1>9, <2>2
  <2> QED BY <2>2, <2>3, <2>4
<1>12. b.flags = {}
  <2>1. b.flags = w.flags \cup {}
    <3>1. w.flags = w.flags \cup {}
      OBVIOUS
    <3> QED BY <1>8, <3>1 DEF EnqueueFlags, Set, Typed, Fields, PcbFields
  <2> QED BY <1>9, <2>1
<1> HIDE DEF b
<1>13. /\ b.unacked = <<>> /\ b.out = a.out /\ b.state = "SYN_SENT" /\ b.app = "connect"
       /\ b.left = ToWrite["client"]
  BY <1>3, <1>9, <1>11 DEF Same, Fields, PcbFields, HandlerFields, ConnFields
<1>14. Upto(b) = 2 /\ ~Shut(b) /\ Upto(a) = 2 /\ ~Shut(a) /\ Shut(b) = FALSE /\ Shut(a) = FALSE
  BY <1>2, <1>3, <1>13, DataAssumption DEF Upto, Shut, Ends
<1>15. Wrote(b, 2, FALSE)
  <2>1. y \in G
    <3>1. y.seq = 1 /\ y.data = <<>> /\ y.syn = TRUE /\ y.fin = FALSE
      BY DEF Segment
    <3> HIDE DEF y
    <3>2. From(y.data, y.seq)
      BY <3>1 DEF From
    <3> QED BY <1>11, <3>1, <3>2 DEF Good
  <2>2. Wrote(a, Upto(a), Shut(a))
    BY <1>2, WriterTyped DEF Level, Keeps
  <2>3. Wrote(a, Upto(a), FALSE)
    BY <1>14, <2>2, Zenon
  <2>4. Wrote(a, 2, FALSE)
    BY <1>14, <2>3, Zenon
  <2>5. a.out \in Seq(OnWire(G)) /\ Kind(G) /\ Plain \subseteq Marks(FALSE)
    BY <2>4 DEF Wrote, Ships
  <2> HIDE DEF G, y
  <2>6. Append(<<>>, y) \in Seq(G) /\ <<>> \in Seq(G)
    <3>1. <<>> \in Seq(G)
      BY EmptySeq
    <3> QED BY <2>1, <3>1, AppendProperties
  <2>7. Ships(b, G, Marks(FALSE))
    BY <1>11, <1>12, <1>13, <2>5, <2>6 DEF Ships
  <2> QED BY <2>7 DEF Wrote, G
<1>16. Wrote(b, Upto(b), Shut(b))
  <2>1. Wrote(b, Upto(b), FALSE)
    BY <1>14, <1>15, Zenon
  <2> QED BY <1>14, <2>1, Zenon
<1>17. b.app \in ClientApps
  BY <1>13 DEF ClientApps, Apps
<1>18. ToWrite["client"] <= ToWrite["client"]
  BY DataAssumption DEF Ends
<1>19. Writer(b)
  BY <1>11, <1>13, <1>14, <1>16, <1>17, <1>18 DEF Writer
<1>20. Keeps(a, b)
  BY <1>3, <1>13, <1>14, <1>18, <1>19 DEF Keeps, Advances
<1>21. Keeps(d, b) /\ Keeps(b, Output(b)) /\ (Shut(Output(b)) => Shut(b))
  BY <1>2, <1>19, <1>20, WriterOutput, WriterTyped, LevelThen DEF Level
<1> QED BY <1>1, <1>21, WriterTyped, KeepsTwice

LEMMA WriterWriting ==
  ASSUME NEW d, HostOk(d), Sorted(d), Writer(d), d.app = "open"
  PROVE  Keeps(d, Writing(d))
<1> DEFINE a == [d EXCEPT !.app = "write"]
<1>1. d.state \in {"ESTABLISHED", "CLOSE_WAIT"} /\ ~Shut(d) /\ Ordered(d) /\ d.recv_flags = {}
  BY DEF HostOk, Open, AppOpen, Shut, Sorted, Active
<1>2. Level(d, a)
  <2>1. "write" \in {"connect", "write"}
    OBVIOUS
  <2> QED BY <1>1, <2>1, WriterApp
<1>3. Same(d, a, {"app"}) /\ a.app = "write"
  BY DEF Same, HostOk, Typed, Fields, ConnFields
<1>4. Writing(d) = Sent(a)
  BY <1>3 DEF Writing, Sent
<1> HIDE DEF a
<1>5. Ordered(a) /\ a.state = d.state /\ a.recv_flags = {}
  <2>1. {"app"} \cap (SenderFields \cup {"state"}) = {}
    BY DEF SenderFields
  <2>2. a.recv_flags = {}
    BY <1>1, <1>3 DEF Same, Fields, HandlerFields
  <2> QED BY <1>1, <1>3, <2>1, <2>2, FramedSame
<1>6. AppOk(a)
  BY <1>1, <1>5 DEF AppOk
<1>7. Keeps(a, Sent(a))
  BY <1>2, <1>5, <1>6, WriterSent DEF Level, Keeps
<1> QED BY <1>2, <1>4, <1>7, WriterTyped, LevelThen

LEMMA WriterClosing ==
  ASSUME NEW d, HostOk(d), Sorted(d), Writer(d), d.app \in {"open", "written"}
  PROVE  Keeps(d, Closing(d))
<1> DEFINE a == Drain(d)
           T == RecvedFields \cup {"recvmbox", "rcvopen"}
<1>1. Closing(d) = CloseInternal(a)
  BY DEF Closing
<1>2. Typed(d) /\ Ordered(d) /\ d.state \in {"ESTABLISHED", "CLOSE_WAIT"}
  BY DEF HostOk, Open, AppOpen, Sorted, Active
<1>3. Same(d, a, T) /\ Ordered(a) /\ Wrote(a, Upto(d), Shut(d))
  BY <1>2, DrainKeeps, DrainOrdered, WriterTyped, ShipsDrain DEF Wrote
<1> HIDE DEF a
<1>4. T \cap (WriterFields \cup {"state", "app"}) = {}
  BY DEF WriterFields, RecvedFields, OutputFields
<1>5. Level(d, a)
  BY <1>3, <1>4, LevelFrame
<1>6. a.state = d.state /\ a.app = d.app
  BY <1>3, <1>4, LaterFrame
<1>7. Keeps(a, CloseInternal(a))
  BY <1>2, <1>3, <1>5, <1>6, CloseGood DEF Level, Keeps
<1> QED BY <1>1, <1>2, <1>5, <1>7, LevelThen

LEMMA WriterFastTimer ==
  ASSUME NEW d, Writer(d)
  PROVE  Keeps(d, FastTimer(d))
<1> DEFINE N == {"ACK_NOW"}
           B == {"ACK_DELAY", "ACK_NOW"}
           s == Set(d, N)
           o == Output(s)
           c == Clear(o, B)
           f == IF "ACK_DELAY" \in d.flags THEN c ELSE d
           r == ProcessRefused(f)
<1>1. FastTimer(d) = r
  BY DEF FastTimer
<1>2. N \in SUBSET Flags /\ N \subseteq Plain /\ B \in SUBSET Flags /\ B \subseteq Plain
  BY AckFlags
<1> HIDE DEF N, B
<1>3. Level(d, s) /\ Typed(d)
  BY <1>2, WriterFlags, WriterTyped
<1> HIDE DEF s
<1>4. Level(s, o)
  BY <1>3, WriterOutput DEF Level, Keeps
<1> HIDE DEF o
<1>5. Level(o, c) /\ Typed(s)
  BY <1>2, <1>3, <1>4, WriterFlags, WriterTyped DEF Level, Keeps
<1> HIDE DEF c
<1>6. Level(d, c)
  <2>1. Level(s, c)
    BY <1>4, <1>5, LevelThen DEF Level
  <2> QED BY <1>3, <2>1, LevelThen DEF Level
<1>7. Level(d, d)
  BY WriterTyped DEF Level
<1>8. Level(d, f)
  BY <1>6, <1>7
<1> HIDE DEF f
<1>9. Level(f, r)
  BY <1>8, WriterRefused DEF Level, Keeps
<1> HIDE DEF r
<1> QED BY <1>1, <1>3, <1>8, <1>9, LevelThen DEF Level

LEMMA WriterPollSends ==
  ASSUME NEW d, HostOk(d), Sorted(d), Writer(d)
  PROVE  Keeps(d, PollSends(d))
<1> DEFINE s == Sent(d)
           o == Output(s)
<1>1. PollSends(d) \in {s, o}
  BY DEF PollSends
<1>2. Keeps(d, s)
  <2>1. AppOk(d)
    BY DEF HostOk, Open, AppOk
  <2>2. d.app \in {"write", "close"} => Ordered(d)
    BY DEF HostOk, Open, AppOpen, Sorted, Active
  <2> QED BY <2>1, <2>2, WriterSent
<1> HIDE DEF s
<1>3. Level(s, o)
  BY <1>2, WriterOutput DEF Keeps
<1> HIDE DEF o
<1>4. Keeps(d, o)
  BY <1>2, <1>3, WriterTyped, KeepsTwice DEF Level
<1> QED BY <1>1, <1>2, <1>4

LEMMA WriterPollEnds ==
  ASSUME NEW d, HostOk(d), Sorted(d), Writer(d), d.app = "close", d.state \in Active
  PROVE  Keeps(d, PollEnds(d))
<1> DEFINE c == CloseInternal(d)
           how == "aborted"
<1>1. PollEnds(d) \in {c, Abort(c)}
  BY DEF PollEnds
<1>2. how \in Endings
  BY DEF Endings
<1> HIDE DEF how
<1>3. Ordered(d) /\ d.state \in {"ESTABLISHED", "CLOSE_WAIT"} /\ Shut(d)
  BY DEF HostOk, Open, AppOpen, Sorted, Shut
<1>4. Keeps(d, c) /\ c.left = d.left
  <2>1. Keeps(d, c)
    BY <1>3, CloseGood DEF Keeps
  <2> HIDE DEF c
  <2> QED BY <1>3, <2>1 DEF Keeps, Advances
<1> HIDE DEF c
<1>5. Keeps(c, Abort(c))
  BY <1>2, <1>4, WriterGone DEF Keeps
<1>6. Keeps(d, Abort(c))
  BY <1>4, <1>5, WriterTyped, KeepsTwice
<1> QED BY <1>1, <1>4, <1>6

LEMMA WriterRto ==
  ASSUME NEW d, Writer(d)
  PROVE  Keeps(d, RexmitRto(d)) /\ Keeps(d, ZeroWindowProbe(d))
<1> DEFINE q == Requeued(d)
           r == RexmitRto(d)
           p == ZeroWindowProbe(d)
           T == {"cwnd", "unsent", "unacked", "nrtx"}
           P == {"out", "rcv_ann_right_edge"}
<1>1. Wrote(r, Upto(d), Shut(d)) /\ Wrote(p, Upto(d), Shut(d)) /\ Typed(d)
  BY WriterTyped, ShipsRto, ShipsProbe DEF Wrote
<1>2. Typed(q) /\ Same(d, q, T) /\ r = Output(q) /\ Same(d, p, P)
  BY <1>1, RequeuedKeeps, ProbeKeeps
<1> HIDE DEF q, p, T, P
<1>3. Same(q, r, OutputFields)
  BY <1>2, OutputKeeps
<1> HIDE DEF r
<1>4. Same(d, r, T \cup OutputFields)
  BY <1>2, <1>3, SameTwice
<1>5. (T \cup OutputFields) \cap WriterFields = {} /\ P \cap WriterFields = {}
  BY DEF T, P, OutputFields, WriterFields
<1>6. Level(d, r) /\ Level(d, p)
  BY <1>1, <1>2, <1>4, <1>5, LevelFrame
<1> QED BY <1>6 DEF Level, r, p

LEMMA WriterEnds ==
  ASSUME NEW d, Writer(d)
  PROVE  Keeps(d, Removing(d)) /\ Keeps(d, Expiring(d))
<1> DEFINE p == Purge(d)
           how == IF d.ended = "no" THEN "closed" ELSE d.ended
           late == "timeout"
           r == ErrTcp(Gone(p, late))
           x == Gone(d, how)
<1>1. Removing(d) = r /\ Expiring(d) = x
  BY DEF Removing, Expiring
<1>2. late \in Endings /\ how \in Endings /\ Typed(d)
  <2>1. Typed(d)
    BY WriterTyped
  <2> QED BY <2>1 DEF Typed, ConnTyped, Endings
<1>3. Same(d, p, PurgedFields) /\ Wrote(p, Upto(d), Shut(d))
  BY <1>2, PurgeKeeps, WriterTyped, ShipsPurge DEF Wrote
<1> HIDE DEF p, how, late
<1>4. PurgedFields \cap WriterFields = {}
  BY DEF PurgedFields, WriterFields
<1>5. Level(d, p)
  BY <1>3, <1>4, LevelFrame
<1>6. Keeps(p, r) /\ Keeps(d, x)
  BY <1>2, <1>5, WriterGone DEF Level, Keeps
<1> HIDE DEF r, x
<1> QED BY <1>1, <1>2, <1>5, <1>6, LevelThen

-----------------------------------------------------------------------------
(* The server: segments that it holds for later are ones the client sent,   *)
(* and only the last of them has the FIN.                                   *)
Held(n, f) ==
  {s \in Segs : /\ From(s.data, s.seq) /\ DataEnd(s) <= n /\ ~s.syn
                /\ s.fin => f /\ DataEnd(s) = n}
Pending(q, n, f) ==
  \A i \in 1 .. Len(q) : q[i] \in Held(n, f) /\ (q[i].fin => i = Len(q))
Solid(q, n, f) == \A i \in 1 .. Len(q) : q[i] \in Held(n, f) /\ ~q[i].fin

LEMMA HeldFacts ==
  ASSUME NEW n \in Int, NEW f, NEW s \in Held(n, f)
  PROVE  /\ s \in Segs /\ s.seq \in Int /\ Len(s.data) \in Nat /\ DataEnd(s) = s.seq + Len(s.data)
         /\ s.seq <= n /\ DataEnd(s) <= n /\ ~s.syn /\ From(s.data, s.seq)
         /\ s.fin => f /\ DataEnd(s) = n
         /\ SegEnd(s) = IF s.fin THEN DataEnd(s) + 1 ELSE DataEnd(s)
<1>1. s \in Segs /\ DataEnd(s) <= n /\ ~s.syn /\ From(s.data, s.seq) /\ (s.fin => f /\ DataEnd(s) = n)
  BY DEF Held
<1>2. s.seq \in Int /\ Len(s.data) \in Nat /\ DataEnd(s) = s.seq + Len(s.data)
  BY <1>1, SegmentFacts
<1>3. s.seq <= n
  BY <1>1, <1>2
<1>4. SegEnd(s) = IF s.fin THEN DataEnd(s) + 1 ELSE DataEnd(s)
  BY <1>1, PlainEnd
<1> QED BY <1>1, <1>2, <1>3, <1>4
\* The beginning of a segment, without the FIN.
LEMMA HeldCut ==
  ASSUME NEW n \in Int, NEW f, NEW s \in Held(n, f), NEW k \in Int, k <= Len(s.data),
         NEW r \in Segs, r.seq = s.seq, ~r.syn, ~r.fin, Len(r.data) = IF k > 0 THEN k ELSE 0,
         \A i \in 1 .. Len(r.data) : r.data[i] = s.data[i]
  PROVE  r \in Held(n, f)
<1>1. /\ s.seq \in Int /\ Len(s.data) \in Nat /\ DataEnd(s) = s.seq + Len(s.data)
      /\ s.seq <= n /\ DataEnd(s) <= n /\ From(s.data, s.seq)
  BY HeldFacts
<1>2. Len(r.data) \in Nat /\ Len(r.data) <= Len(s.data) /\ DataEnd(r) = r.seq + Len(r.data)
  BY <1>1, SegmentFacts
<1>3. DataEnd(r) <= n
  BY <1>1, <1>2
<1>4. From(r.data, r.seq)
  BY <1>1, <1>2 DEF From
<1> QED BY <1>3, <1>4 DEF Held

LEMMA HeldTrim ==
  ASSUME NEW n \in Int, NEW f, NEW s \in Held(n, f), ~s.fin, NEW k \in Int, k <= Len(s.data)
  PROVE  Trim(s, k) \in Held(n, f) /\ ~Trim(s, k).fin /\ Trim(s, k).seq = s.seq
<1> DEFINE r == Trim(s, k)
<1>1. s \in Segs /\ ~s.syn
  BY HeldFacts
<1>2. /\ r \in Segs /\ r.seq = s.seq /\ r.syn = s.syn /\ r.fin = s.fin
      /\ Len(r.data) = IF k > 0 THEN k ELSE 0
      /\ \A i \in 1 .. Len(r.data) : r.data[i] = s.data[i]
  BY <1>1, TrimFacts
<1> HIDE DEF r
<1>3. ~r.syn /\ ~r.fin
  BY <1>1, <1>2
<1>4. r \in Held(n, f)
  BY <1>2, <1>3, HeldCut
<1> QED BY <1>2, <1>3, <1>4 DEF r

LEMMA HeldFit ==
  ASSUME NEW d, Typed(d), NEW n \in Int, NEW f, NEW s \in Held(n, f)
  PROVE  FitWindow(d, s) \in Held(n, f) /\ FitWindow(d, s).seq = s.seq
<1> DEFINE k == d.rcv_nxt + d.rcv_wnd - s.seq
           t == Trim(s, k)
           r == [t EXCEPT !.fin = FALSE]
<1>1. CASE ~(SegEnd(s) > d.rcv_nxt + d.rcv_wnd)
  BY <1>1 DEF FitWindow
<1>2. CASE SegEnd(s) > d.rcv_nxt + d.rcv_wnd
  <2>1. /\ s \in Segs /\ s.seq \in Int /\ Len(s.data) \in Nat /\ DataEnd(s) = s.seq + Len(s.data) /\ ~s.syn
        /\ SegEnd(s) \in {DataEnd(s), DataEnd(s) + 1}
    BY HeldFacts
  <2>2. d.rcv_nxt \in Int /\ d.rcv_wnd \in Int
    BY DEF Typed, PcbTyped
  <2>3. k \in Int /\ k <= Len(s.data)
    BY <1>2, <2>1, <2>2
  <2>4. FitWindow(d, s) = r
    BY <1>2 DEF FitWindow
  <2> HIDE DEF k
  <2>5. /\ t \in Segs /\ t.seq = s.seq /\ t.syn = s.syn
        /\ Len(t.data) = IF k > 0 THEN k ELSE 0
        /\ \A i \in 1 .. Len(t.data) : t.data[i] = s.data[i]
    BY <2>1, <2>3, TrimFacts
  <2> HIDE DEF t
  <2>6. r \in Segs /\ r.seq = t.seq /\ r.syn = t.syn /\ r.data = t.data /\ r.fin = FALSE
    BY <2>5 DEF Segs
  <2> HIDE DEF r
  <2>7. ~r.syn /\ ~r.fin
    BY <2>1, <2>5, <2>6
  <2>8. r \in Held(n, f)
    BY <2>3, <2>5, <2>6, <2>7, HeldCut
  <2> QED BY <2>4, <2>5, <2>6, <2>8
<1> QED BY <1>1, <1>2
\* Such a queue, its parts, and what is in front of it.
LEMMA PendingParts ==
  ASSUME NEW q \in Seq(Segs), NEW n, NEW f, Pending(q, n, f), NEW k \in 0 .. Len(q)
  PROVE  /\ Pending(Behind(q, k), n, f)
         /\ k < Len(q) => Solid(UpTo(q, k), n, f)
         /\ \A i \in 1 .. k : q[i] \in Held(n, f) /\ (q[i].fin => k = Len(q))
<1>1. Len(q) \in Nat
  BY LenProperties
<1>2. /\ Len(UpTo(q, k)) = k /\ \A i \in 1 .. k : UpTo(q, k)[i] = q[i]
      /\ Len(Behind(q, k)) = Len(q) - k /\ \A i \in 1 .. Len(q) - k : Behind(q, k)[i] = q[k + i]
  BY UpToFacts, BehindFacts
<1>3. Pending(Behind(q, k), n, f)
  <2> SUFFICES ASSUME NEW i \in 1 .. Len(q) - k
               PROVE  q[k + i] \in Held(n, f) /\ (q[k + i].fin => i = Len(q) - k)
    BY <1>2 DEF Pending
  <2>1. k + i \in 1 .. Len(q)
    BY <1>1
  <2>2. q[k + i] \in Held(n, f) /\ (q[k + i].fin => k + i = Len(q))
    BY <2>1 DEF Pending
  <2>3. k + i = Len(q) => i = Len(q) - k
    BY <1>1
  <2> QED BY <2>2, <2>3
<1>4. \A i \in 1 .. k : q[i] \in Held(n, f) /\ (q[i].fin => k = Len(q))
  <2> SUFFICES ASSUME NEW i \in 1 .. k
               PROVE  q[i] \in Held(n, f) /\ (q[i].fin => k = Len(q))
    OBVIOUS
  <2>1. i \in 1 .. Len(q) /\ (i = Len(q) => k = Len(q))
    BY <1>1
  <2> QED BY <2>1 DEF Pending
<1>5. k < Len(q) => Solid(UpTo(q, k), n, f)
  BY <1>1, <1>2, <1>4 DEF Solid
<1> QED BY <1>3, <1>4, <1>5

LEMMA PendingCat ==
  ASSUME NEW p \in Seq(Segs), NEW q \in Seq(Segs), NEW n, NEW f, Solid(p, n, f), Pending(q, n, f)
  PROVE  Pending(p \o q, n, f)
<1>1. /\ Len(p) \in Nat /\ Len(q) \in Nat /\ Len(p \o q) = Len(p) + Len(q)
      /\ \A i \in 1 .. Len(p) + Len(q) : (p \o q)[i] = IF i <= Len(p) THEN p[i] ELSE q[i - Len(p)]
  BY LenProperties, ConcatProperties
<1> SUFFICES ASSUME NEW i \in 1 .. Len(p) + Len(q)
             PROVE  (p \o q)[i] \in Held(n, f) /\ ((p \o q)[i].fin => i = Len(p) + Len(q))
  BY <1>1 DEF Pending
<1>2. CASE i <= Len(p)
  <2>1. i \in 1 .. Len(p) /\ (p \o q)[i] = p[i]
    BY <1>1, <1>2
  <2> QED BY <2>1 DEF Solid
<1>3. CASE ~(i <= Len(p))
  <2>1. i - Len(p) \in 1 .. Len(q) /\ (p \o q)[i] = q[i - Len(p)]
    BY <1>1, <1>3
  <2>2. i - Len(p) = Len(q) => i = Len(p) + Len(q)
    BY <1>1
  <2> QED BY <2>1, <2>2 DEF Pending
<1> QED BY <1>2, <1>3

LEMMA PendingOne ==
  ASSUME NEW n \in Int, NEW f, NEW s \in Held(n, f)
  PROVE  /\ <<s>> \in Seq(Segs) /\ Pending(<<s>>, n, f) /\ (~s.fin => Solid(<<s>>, n, f))
         /\ Pending(<<>>, n, f) /\ Solid(<<>>, n, f)
<1>1. s \in Segs
  BY HeldFacts
<1>2. <<s>> \in Seq(Segs) /\ Len(<<s>>) = 1 /\ <<s>>[1] = s
  BY <1>1, OneSeq
<1>3. \A i \in 1 .. 1 : i = 1
  OBVIOUS
<1>4. \A i \in 1 .. Len(<<>>) : FALSE
  BY EmptySeq
<1> QED BY <1>2, <1>3, <1>4 DEF Pending, Solid

LEMMA MergePending ==
  ASSUME NEW n \in Int, NEW f, NEW s \in Held(n, f), NEW q \in Seq(Segs), Pending(q, n, f)
  PROVE  /\ Merge(s, q) \in Seq(Segs) /\ Merge(s, q) # <<>> /\ Pending(Merge(s, q), n, f)
         /\ Head(Merge(s, q)).seq = s.seq
<1> DEFINE S == {i \in DOMAIN q : DataEnd(s) >= DataEnd(q[i])}
           k == Run(q, S)
           rest == Behind(q, k)
           fin == \E i \in 1 .. k : q[i].fin
           t == Trim(s, Head(rest).seq - s.seq)
           y == [s EXCEPT !.fin = fin]
           x == IF rest # <<>> /\ DataEnd(s) > Head(rest).seq THEN t ELSE y
<1>1. Len(q) \in Nat /\ DOMAIN q = 1 .. Len(q)
  BY LenProperties
<1>2. k \in 0 .. Len(q) /\ \A i \in 1 .. k : i \in S
  BY <1>1, RunFacts
<1> HIDE DEF k
<1>3. /\ rest \in Seq(Segs) /\ Len(rest) = Len(q) - k /\ Pending(rest, n, f)
      /\ \A i \in 1 .. k : q[i] \in Held(n, f) /\ (q[i].fin => k = Len(q))
  BY <1>2, BehindFacts, PendingParts
<1> HIDE DEF rest
<1>4. /\ s \in Segs /\ s.seq \in Int /\ Len(s.data) \in Nat /\ DataEnd(s) = s.seq + Len(s.data)
      /\ DataEnd(s) <= n /\ ~s.syn /\ From(s.data, s.seq)
  BY HeldFacts
<1>5. fin \in BOOLEAN
  OBVIOUS
<1>6. fin => f /\ DataEnd(s) = n /\ rest = <<>>
  <2> SUFFICES ASSUME NEW i \in 1 .. k, q[i].fin PROVE f /\ DataEnd(s) = n /\ rest = <<>>
    OBVIOUS
  <2>1. f /\ DataEnd(q[i]) = n /\ k = Len(q)
    BY <1>3, HeldFacts
  <2>2. DataEnd(s) >= n
    BY <1>2, <2>1
  <2>3. Len(rest) = 0
    BY <1>1, <1>3, <2>1
  <2> QED BY <1>3, <1>4, <2>1, <2>2, <2>3, EmptySeq
<1> HIDE DEF fin
<1>7. ASSUME ~s.fin PROVE x \in Held(n, f) /\ x.seq = s.seq /\ (rest # <<>> => ~x.fin)
  <2>1. CASE rest # <<>> /\ DataEnd(s) > Head(rest).seq
    <3> DEFINE j == Head(rest).seq - s.seq
    <3>1. Head(rest) \in Segs
      BY <1>3, <2>1, HeadTailProperties
    <3>2. j \in Int /\ j <= Len(s.data)
      BY SMTT(30), <1>4, <2>1, <3>1, SegmentFacts
    <3>3. x = Trim(s, j)
      BY <2>1
    <3> HIDE DEF j, x
    <3> QED BY <1>7, <3>2, <3>3, HeldTrim
  <2>2. CASE ~(rest # <<>> /\ DataEnd(s) > Head(rest).seq)
    <3>1. x = y
      BY <2>2
    <3>2. y \in Segs /\ y.seq = s.seq /\ y.data = s.data /\ y.syn = s.syn /\ y.fin = fin
      BY <1>4, <1>5 DEF Segs
    <3> HIDE DEF x, y
    <3>3. DataEnd(y) = DataEnd(s)
      BY <3>2 DEF DataEnd
    <3>4. y \in Held(n, f)
      BY <1>4, <1>6, <3>2, <3>3 DEF Held
    <3>5. rest # <<>> => ~y.fin
      BY <1>6, <3>2
    <3> QED BY <3>1, <3>2, <3>4, <3>5
  <2> QED BY <2>1, <2>2
<1>8. Merge(s, q) = IF s.fin THEN <<s>> ELSE <<x>> \o rest
  BY DEF Merge, k, rest, fin
<1> HIDE DEF x
<1>9. CASE s.fin
  <2>1. /\ <<s>> \in Seq(Segs) /\ Pending(<<s>>, n, f) /\ <<s>> # <<>> /\ Head(<<s>>) = s
    BY <1>4, PendingOne
  <2> QED BY <1>8, <1>9, <2>1
<1>10. CASE ~s.fin
  <2>1. /\ x \in Segs /\ <<x>> \in Seq(Segs) /\ Pending(<<x>>, n, f) /\ (~x.fin => Solid(<<x>>, n, f))
    BY <1>7, <1>10, PendingOne, HeldFacts
  <2>2. <<x>> \o rest \in Seq(Segs) /\ <<x>> \o rest # <<>> /\ Head(<<x>> \o rest) = x
    BY <1>3, <2>1, ConsFacts
  <2>3. CASE rest = <<>>
    <3>1. <<x>> \o rest = <<x>>
      BY <2>1, <2>3, ConcatProperties
    <3> QED BY <1>7, <1>8, <1>10, <2>1, <2>2, <3>1
  <2>4. CASE rest # <<>>
    <3>1. Solid(<<x>>, n, f)
      BY <1>7, <1>10, <2>1, <2>4
    <3>2. Pending(<<x>> \o rest, n, f)
      BY <1>3, <2>1, <3>1, PendingCat
    <3> QED BY <1>7, <1>8, <1>10, <2>2, <3>2
  <2> QED BY <2>3, <2>4
<1> QED BY <1>9, <1>10
\* A segment out of sequence.
LEMMA QueuePending ==
  ASSUME NEW d, Typed(d), NEW n \in Int, NEW f, NEW s \in Held(n, f), Pending(d.ooseq, n, f)
  PROVE  Pending(Queue(d, s).ooseq, n, f)
<1> DEFINE k == Run(d.ooseq, {i \in DOMAIN d.ooseq : d.ooseq[i].seq < s.seq})
           before == UpTo(d.ooseq, k)
           after == Behind(d.ooseq, k)
           last == Last(before)
           end == IF DataEnd(last) > s.seq THEN Trim(last, s.seq - last.seq) ELSE last
           trimmed == IF before = <<>> THEN <<>> ELSE Front(before) \o <<end>>
           w == FitWindow(d, s)
           g == Merge(s, after)
           p == trimmed \o <<w>>
           q == trimmed \o g
<1>1. DOMAIN d = Fields /\ d.ooseq \in Seq(Segs) /\ Len(d.ooseq) \in Nat
      /\ DOMAIN d.ooseq = 1 .. Len(d.ooseq)
  BY LenProperties DEF Typed, PcbTyped
<1>2. k \in 0 .. Len(d.ooseq)
  BY <1>1, RunFacts
<1> HIDE DEF k
<1>3. /\ before \in Seq(Segs) /\ after \in Seq(Segs) /\ Len(before) = k /\ Len(after) = Len(d.ooseq) - k
      /\ \A i \in 1 .. k : before[i] = d.ooseq[i]
      /\ Pending(after, n, f) /\ (k < Len(d.ooseq) => Solid(before, n, f))
      /\ \A i \in 1 .. k : d.ooseq[i] \in Held(n, f) /\ (d.ooseq[i].fin => k = Len(d.ooseq))
  BY <1>1, <1>2, UpToFacts, BehindFacts, PendingParts
<1>4. \/ Queue(d, s) = d
      \/ /\ ~(before # <<>> /\ after = <<>> /\ last.fin)
         /\ Queue(d, s) \in {[d EXCEPT !.ooseq = p], [d EXCEPT !.ooseq = q]}
  BY DEF Queue, k
<1> HIDE DEF before, after
<1>5. CASE ~(before # <<>> /\ after = <<>> /\ last.fin)
  <2>1. before # <<>> => Front(before) \in Seq(Segs) /\ Solid(Front(before), n, f)
                         /\ last \in Held(n, f) /\ ~last.fin
    <3> SUFFICES ASSUME before # <<>>
                 PROVE  Front(before) \in Seq(Segs) /\ Solid(Front(before), n, f)
                        /\ last \in Held(n, f) /\ ~last.fin
      OBVIOUS
    <3>1. /\ last = before[k] /\ k \in 1 .. k /\ Front(before) \in Seq(Segs) /\ Len(Front(before)) = k - 1
          /\ \A i \in 1 .. k - 1 : Front(before)[i] = before[i]
      BY <1>3, LastFacts
    <3>2. after = <<>> => k = Len(d.ooseq)
      BY <1>1, <1>2, <1>3, EmptySeq
    <3>3. after # <<>> => k < Len(d.ooseq)
      <4>1. Len(after) = 0 => after = <<>>
        BY <1>3, EmptySeq
      <4> QED BY <1>1, <1>2, <1>3, <4>1
    <3>4. \A i \in 1 .. k - 1 : i \in 1 .. Len(d.ooseq) /\ i # Len(d.ooseq) /\ i \in 1 .. k
      BY <1>1, <1>2
    <3>5. \A i \in 1 .. k - 1 : d.ooseq[i] \in Held(n, f) /\ ~d.ooseq[i].fin
      BY <3>4 DEF Pending
    <3>6. Solid(Front(before), n, f)
      BY <1>3, <3>1, <3>4, <3>5 DEF Solid
    <3>7. last \in Held(n, f) /\ ~last.fin
      BY <1>3, <1>5, <3>1, <3>2, <3>3
    <3> QED BY <3>1, <3>6, <3>7
  <2> HIDE DEF last
  <2>2. s.seq \in Int
    BY HeldFacts
  <2>3. before # <<>> => end \in Held(n, f) /\ ~end.fin
    <3> SUFFICES ASSUME before # <<>> PROVE end \in Held(n, f) /\ ~end.fin
      OBVIOUS
    <3>1. CASE DataEnd(last) > s.seq
      <4> DEFINE j == s.seq - last.seq
      <4>1. last \in Held(n, f) /\ ~last.fin
        BY <2>1
      <4>2. j \in Int /\ j <= Len(last.data)
        BY <2>2, <3>1, <4>1, HeldFacts
      <4> HIDE DEF j
      <4>3. Trim(last, j) \in Held(n, f) /\ ~Trim(last, j).fin
        BY <4>1, <4>2, HeldTrim
      <4> QED BY <3>1, <4>3 DEF j
    <3>2. CASE ~(DataEnd(last) > s.seq)
      BY <2>1, <3>2
    <3> QED BY <3>1, <3>2
  <2> HIDE DEF end
  <2>4. trimmed \in Seq(Segs) /\ Solid(trimmed, n, f)
    <3>1. CASE before = <<>>
      <4>1. <<>> \in Seq(Segs) /\ Solid(<<>>, n, f)
        BY EmptySeq, PendingOne
      <4> QED BY <3>1, <4>1
    <3>2. CASE before # <<>>
      <4> DEFINE b == Front(before)
      <4>1. b \in Seq(Segs) /\ Solid(b, n, f) /\ <<end>> \in Seq(Segs) /\ Solid(<<end>>, n, f)
        BY <2>1, <2>3, <3>2, PendingOne
      <4>2. trimmed = b \o <<end>> /\ Len(<<end>>) = 1 /\ <<end>>[1] = end
        BY <3>2
      <4> HIDE DEF b, trimmed
      <4>3. /\ b \o <<end>> \in Seq(Segs) /\ Len(b) \in Nat /\ Len(b \o <<end>>) = Len(b) + 1
            /\ \A i \in 1 .. Len(b) + 1 : (b \o <<end>>)[i] = IF i <= Len(b) THEN b[i] ELSE <<end>>[i - Len(b)]
        BY <4>1, <4>2, LenProperties, ConcatProperties
      <4>4. \A i \in 1 .. Len(b) + 1 : i \in 1 .. Len(b) \/ (i - Len(b) = 1 /\ ~(i <= Len(b)))
        BY <4>3
      <4>5. Solid(b \o <<end>>, n, f)
        BY <2>3, <3>2, <4>1, <4>2, <4>3, <4>4 DEF Solid
      <4> QED BY <4>2, <4>3, <4>5
    <3> QED BY <3>1, <3>2
  <2> HIDE DEF trimmed
  <2>5. w \in Held(n, f) /\ g \in Seq(Segs) /\ Pending(g, n, f)
    BY <1>3, HeldFit, MergePending
  <2> HIDE DEF w, g
  <2>6. <<w>> \in Seq(Segs) /\ Pending(<<w>>, n, f)
    BY <2>5, PendingOne
  <2>7. Pending(p, n, f) /\ Pending(q, n, f)
    BY <2>4, <2>5, <2>6, PendingCat
  <2> HIDE DEF p, q
  <2>8. [d EXCEPT !.ooseq = p].ooseq = p /\ [d EXCEPT !.ooseq = q].ooseq = q
    BY <1>1 DEF Fields, PcbFields
  <2> QED BY <1>4, <2>7, <2>8
<1> QED BY <1>4, <1>5

-----------------------------------------------------------------------------
(* What the server has received, in the order of the stream: what was read, *)
(* the entries of recvmbox, what recv_tcp refused, and, in a handler, the   *)
(* data p that is still to be passed on.  The last of the entries, the end  *)
(* of the stream, is empty.                                                 *)
Boxes(q, a, b, n, f) ==
  \E c \in [0 .. Len(q) -> Int] :
    /\ c[0] = a /\ c[Len(q)] = b
    /\ \A i \in 1 .. Len(q) :
          From(q[i], c[i - 1]) /\ c[i] = c[i - 1] + Len(q[i]) /\ (q[i] = <<>> => f /\ c[i - 1] = n)
\* All of that ends at e.
Edge(d, e, n, f) ==
  /\ e <= n
  /\ d.refused_fin \/ d.state = "CLOSE_WAIT" \/ "GOT_FIN" \in d.recv_flags => f /\ e = n
  /\ "GOT_FIN" \in d.recv_flags => d.rcv_nxt = e + 1
  /\ "GOT_FIN" \notin d.recv_flags /\ d.state = "ESTABLISHED" => d.rcv_nxt = e
Flow(d, p, b, n, f) ==
  /\ From(d.got, 2) /\ Boxes(d.recvmbox, 2 + Len(d.got), b, n, f)
  /\ From(d.refused_data, b) /\ From(p, b + Len(d.refused_data))
  /\ d.refused_data = <<>> \/ p = <<>>
  /\ Edge(d, b + Len(d.refused_data) + Len(p), n, f)
  /\ Pending(d.ooseq, n, f)
FlowFields == {"got", "recvmbox", "refused_data", "refused_fin", "ooseq", "rcv_nxt", "state", "recv_flags"}

LEMMA BoxesEmpty ==
  ASSUME NEW a \in Int, NEW n, NEW f
  PROVE  Boxes(<<>>, a, a, n, f)
<1> DEFINE c == [i \in 0 .. 0 |-> a]
<1>1. c \in [0 .. 0 -> Int] /\ c[0] = a
  OBVIOUS
<1> HIDE DEF c
<1>2. Len(<<>>) = 0 /\ \A i \in 1 .. 0 : FALSE
  BY EmptySeq
<1> QED BY <1>1, <1>2 DEF Boxes

LEMMA BoxesAppend ==
  ASSUME NEW q \in Seq(Seq(Int)), NEW a, NEW b \in Int, NEW n, NEW f, Boxes(q, a, b, n, f),
         NEW x \in Seq(Int), From(x, b), x = <<>> => f /\ b = n
  PROVE  Boxes(Append(q, x), a, b + Len(x), n, f) /\ Append(q, x) \in Seq(Seq(Int))
<1> DEFINE k == Len(q)
           r == Append(q, x)
           l == Len(x)
<1>1. PICK c \in [0 .. k -> Int] :
         /\ c[0] = a /\ c[k] = b
         /\ \A i \in 1 .. k :
               From(q[i], c[i - 1]) /\ c[i] = c[i - 1] + Len(q[i]) /\ (q[i] = <<>> => f /\ c[i - 1] = n)
  BY DEF Boxes
<1>2. /\ k \in Nat /\ l \in Nat /\ r \in Seq(Seq(Int)) /\ Len(r) = k + 1
      /\ \A i \in 1 .. k : r[i] = q[i]
      /\ r[k + 1] = x
  BY LenProperties, AppendProperties
<1> HIDE DEF k, l, r
<1> DEFINE e == [i \in 0 .. k + 1 |-> IF i = k + 1 THEN b + l ELSE c[i]]
<1>3. e \in [0 .. k + 1 -> Int] /\ e[k + 1] = b + l /\ \A i \in 0 .. k : e[i] = c[i]
  <2>1. \A i \in 0 .. k : i \in 0 .. k + 1 /\ i # k + 1 /\ c[i] \in Int
    BY <1>2
  <2>2. \A i \in 0 .. k + 1 : i # k + 1 => i \in 0 .. k
    BY <1>2
  <2>3. b + l \in Int /\ k + 1 \in 0 .. k + 1
    BY <1>2
  <2> QED BY <2>1, <2>2, <2>3
<1> HIDE DEF e
<1>4. ASSUME NEW i \in 1 .. k + 1
      PROVE  From(r[i], e[i - 1]) /\ e[i] = e[i - 1] + Len(r[i]) /\ (r[i] = <<>> => f /\ e[i - 1] = n)
  <2>1. CASE i = k + 1
    <3>1. i - 1 = k /\ k \in 0 .. k
      BY <1>2, <2>1
    <3>2. r[i] = x /\ e[i - 1] = b /\ e[i] = b + l
      BY <1>1, <1>2, <1>3, <2>1, <3>1
    <3> QED BY <3>2 DEF l
  <2>2. CASE i # k + 1
    <3>1. i \in 1 .. k /\ i \in 0 .. k /\ i - 1 \in 0 .. k
      BY <1>2, <2>2
    <3>2. r[i] = q[i] /\ e[i] = c[i] /\ e[i - 1] = c[i - 1]
      BY <1>2, <1>3, <3>1
    <3> QED BY <1>1, <3>1, <3>2
  <2> QED BY <2>1, <2>2
<1>5. e[0] = a /\ 0 \in 0 .. k
  BY <1>1, <1>2, <1>3
<1>6. Boxes(r, a, b + l, n, f)
  BY <1>2, <1>3, <1>4, <1>5 DEF Boxes
<1> QED BY <1>2, <1>6 DEF r, l

LEMMA BoxesFirst ==
  ASSUME NEW q \in Seq(Seq(Int)), NEW a, NEW b, NEW n, NEW f, Boxes(q, a, b, n, f), q # <<>>
  PROVE  /\ From(Head(q), a) /\ (Head(q) = <<>> => f /\ a = n)
         /\ Boxes(Tail(q), a + Len(Head(q)), b, n, f)
<1> DEFINE k == Len(q)
           t == Tail(q)
<1>1. PICK c \in [0 .. k -> Int] :
         /\ c[0] = a /\ c[k] = b
         /\ \A i \in 1 .. k :
               From(q[i], c[i - 1]) /\ c[i] = c[i - 1] + Len(q[i]) /\ (q[i] = <<>> => f /\ c[i - 1] = n)
  BY DEF Boxes
<1>2. /\ k \in Nat \ {0} /\ Head(q) = q[1] /\ t \in Seq(Seq(Int)) /\ Len(t) = k - 1
      /\ \A i \in 1 .. k - 1 : t[i] = q[i + 1]
  BY EmptySeq, LenProperties, HeadTailProperties
<1>3. 1 \in 1 .. k /\ 1 - 1 = 0
  BY <1>2
<1>4. From(q[1], a) /\ c[1] = a + Len(q[1]) /\ (q[1] = <<>> => f /\ a = n)
  BY <1>1, <1>3
<1> HIDE DEF k, t
<1> DEFINE e == [i \in 0 .. k - 1 |-> c[i + 1]]
<1>5. e \in [0 .. k - 1 -> Int] /\ \A i \in 0 .. k - 1 : e[i] = c[i + 1]
  <2>1. \A i \in 0 .. k - 1 : i + 1 \in 0 .. k
    BY <1>2
  <2> QED BY <2>1
<1> HIDE DEF e
<1>6. e[0] = c[1] /\ e[k - 1] = b
  <2>1. 0 \in 0 .. k - 1 /\ k - 1 \in 0 .. k - 1 /\ 0 + 1 = 1 /\ (k - 1) + 1 = k
    BY <1>2
  <2> QED BY <1>1, <1>5, <2>1
<1>7. ASSUME NEW i \in 1 .. k - 1
      PROVE  From(t[i], e[i - 1]) /\ e[i] = e[i - 1] + Len(t[i]) /\ (t[i] = <<>> => f /\ e[i - 1] = n)
  <2>1. i + 1 \in 1 .. k /\ i \in 0 .. k - 1 /\ i - 1 \in 0 .. k - 1 /\ (i - 1) + 1 = i /\ (i + 1) - 1 = i
    BY <1>2
  <2>2. t[i] = q[i + 1] /\ e[i] = c[i + 1] /\ e[i - 1] = c[i]
    BY <1>2, <1>5, <2>1
  <2>3. From(q[i + 1], c[i]) /\ c[i + 1] = c[i] + Len(q[i + 1]) /\ (q[i + 1] = <<>> => f /\ c[i] = n)
    BY <1>1, <2>1
  <2> QED BY <2>2, <2>3
<1>8. Boxes(t, c[1], b, n, f)
  BY <1>2, <1>5, <1>6, <1>7 DEF Boxes
<1> QED BY <1>2, <1>4, <1>8 DEF t

LEMMA BoxesSpan ==
  ASSUME NEW q \in Seq(Seq(Int)), NEW a, NEW b, NEW n, NEW f, Boxes(q, a, b, n, f)
  PROVE  a \in Int /\ b \in Int /\ a <= b
<1> DEFINE k == Len(q)
<1>1. PICK c \in [0 .. k -> Int] :
         c[0] = a /\ c[k] = b /\ \A i \in 1 .. k : c[i] = c[i - 1] + Len(q[i])
  BY DEF Boxes
<1>2. k \in Nat /\ \A i \in 1 .. k : Len(q[i]) \in Nat
  <2>1. k \in Nat /\ \A i \in 1 .. k : q[i] \in Seq(Int)
    BY LenProperties, ElementOfSeq
  <2> QED BY <2>1, LenProperties
<1> HIDE DEF k
<1> DEFINE T == {i \in 0 .. k : a <= c[i]}
<1>3. a \in Int /\ b \in Int /\ 0 \in T
  <2>1. 0 \in 0 .. k /\ k \in 0 .. k
    BY <1>2
  <2> QED BY <1>1, <2>1
<1>4. ASSUME NEW i \in 0 .. k - 1, i \in T PROVE i + 1 \in T
  <2>1. i + 1 \in 1 .. k /\ i + 1 \in 0 .. k /\ (i + 1) - 1 = i /\ i \in 0 .. k
    BY <1>2
  <2>2. c[i + 1] = c[i] + Len(q[i + 1]) /\ Len(q[i + 1]) \in Nat /\ c[i] \in Int
    BY <1>1, <1>2, <2>1
  <2>3. a <= c[i + 1]
    BY <1>3, <1>4, <2>2
  <2> QED BY <2>1, <2>3
<1>5. k \in T
  <2> HIDE DEF T
  <2>1. \A i \in 0 .. k : i \in T
    BY <1>2, <1>3, <1>4, Induction
  <2> QED BY <1>2, <2>1
<1> QED BY <1>1, <1>3, <1>5

LEMMA FlowFrame ==
  ASSUME NEW d, NEW r, NEW T, Same(d, r, T), T \cap FlowFields = {}, NEW p, NEW b, NEW n, NEW f,
         Flow(d, p, b, n, f)
  PROVE  Flow(r, p, b, n, f)
<1>1. \A x \in FlowFields : r[x] = d[x]
  <2>1. FlowFields \subseteq Fields \ T
    BY DEF FlowFields, Fields, PcbFields, HandlerFields, ConnFields
  <2> QED BY <2>1 DEF Same
<1>2. /\ r.got = d.got /\ r.recvmbox = d.recvmbox /\ r.refused_data = d.refused_data
      /\ r.refused_fin = d.refused_fin /\ r.ooseq = d.ooseq /\ r.rcv_nxt = d.rcv_nxt
      /\ r.state = d.state /\ r.recv_flags = d.recv_flags
  BY <1>1 DEF FlowFields
<1>3. Edge(r, b + Len(d.refused_data) + Len(p), n, f)
  BY <1>2 DEF Flow, Edge
<1> QED BY <1>2, <1>3 DEF Flow
\* The client has written more.
LEMMA FlowGrows ==
  ASSUME NEW d, NEW p, NEW b, NEW n \in Int, NEW k \in Int, n <= k, NEW f, Typed(d), Flow(d, p, b, n, FALSE),
         b \in Int, p \in Seq(Int)
  PROVE  Flow(d, p, b, k, f)
<1> DEFINE e == b + Len(d.refused_data) + Len(p)
<1>1. Boxes(d.recvmbox, 2 + Len(d.got), b, k, f)
  BY DEF Flow, Boxes
<1>2. e \in Int
  BY LenProperties DEF Typed, PcbTyped
<1>3. Edge(d, e, n, FALSE)
  BY DEF Flow
<1> HIDE DEF e
<1>4. Edge(d, e, k, f)
  BY <1>2, <1>3 DEF Edge
<1>5. Pending(d.ooseq, k, f)
  <2> SUFFICES ASSUME NEW i \in 1 .. Len(d.ooseq)
               PROVE  d.ooseq[i] \in Held(k, f) /\ (d.ooseq[i].fin => i = Len(d.ooseq))
    BY DEF Pending
  <2> DEFINE s == d.ooseq[i]
  <2>1. s \in Held(n, FALSE) /\ (s.fin => i = Len(d.ooseq))
    BY DEF Flow, Pending
  <2> HIDE DEF s
  <2>2. s \in Segs /\ DataEnd(s) <= n /\ DataEnd(s) \in Int
    BY <2>1, SegmentFacts DEF Held
  <2>3. s \in Held(k, f)
    BY <2>1, <2>2 DEF Held
  <2> QED BY <2>1, <2>3 DEF s
<1> QED BY <1>1, <1>4, <1>5 DEF Flow, e

LEMMA FlowBounds ==
  ASSUME NEW d, NEW p \in Seq(Int), NEW b, NEW n \in Int, NEW f, Typed(d), Flow(d, p, b, n, f)
  PROVE  /\ b \in Int /\ 2 + Len(d.got) <= b /\ Len(d.got) \in Nat /\ Len(d.refused_data) \in Nat
         /\ Len(p) \in Nat /\ b + Len(d.refused_data) + Len(p) <= n
<1>1. d.recvmbox \in Seq(Seq(Int)) /\ Len(d.got) \in Nat /\ Len(d.refused_data) \in Nat /\ Len(p) \in Nat
  BY LenProperties DEF Typed, ConnTyped, PcbTyped
<1>2. b \in Int /\ 2 + Len(d.got) <= b
  BY <1>1, BoxesSpan DEF Flow
<1> QED BY <1>1, <1>2 DEF Flow, Edge

(* tcp_receive: in sequence is what follows the data received so far.      *)
Receiving(x, b, n, f) ==
  /\ Typed(x) /\ x.refused_data = <<>> /\ Flow(x, x.recv_data, b, n, f)
  /\ x.state = "ESTABLISHED" \/ (x.state = "CLOSE_WAIT" /\ "GOT_FIN" \in x.recv_flags)

LEMMA AcceptFlow ==
  ASSUME NEW x, NEW b, NEW n \in Int, NEW f, Receiving(x, b, n, f), "GOT_FIN" \notin x.recv_flags,
         NEW s \in Held(n, f), s.seq = x.rcv_nxt,
         NEW r, Typed(r), Same(Accept(x, s), r, {"ooseq", "state"}), Pending(r.ooseq, n, f),
         r.state = "ESTABLISHED" \/ (s.fin /\ r.state = "CLOSE_WAIT")
  PROVE  Receiving(r, b, n, f)
<1> DEFINE a == Accept(x, s)
           e == b + Len(x.refused_data) + Len(x.recv_data)
           k == Len(s.data)
           t == b + Len(x.refused_data) + Len(r.recv_data)
<1>1. /\ Typed(x) /\ x.refused_data = <<>> /\ Flow(x, x.recv_data, b, n, f) /\ x.state = "ESTABLISHED"
      /\ x.recv_data \in Seq(Int) /\ Len(x.recv_data) \in Nat
  BY LenProperties DEF Receiving, Typed, HandlerTyped
<1>2. /\ s \in Segs /\ s.seq \in Int /\ k \in Nat /\ DataEnd(s) = s.seq + k /\ DataEnd(s) <= n
      /\ From(s.data, s.seq) /\ (s.fin => f /\ DataEnd(s) = n)
      /\ SegEnd(s) = IF s.fin THEN DataEnd(s) + 1 ELSE DataEnd(s)
      /\ s.data \in Seq(Int)
  BY HeldFacts, SegmentFacts
<1>3. /\ Same(x, a, AcceptFields) /\ a.rcv_nxt = SegEnd(s) /\ a.recv_data = x.recv_data \o s.data
      /\ a.recv_flags = x.recv_flags \cup (IF s.fin THEN {"GOT_FIN"} ELSE {})
  BY <1>1, <1>2, AcceptKeeps
<1> HIDE DEF a
<1>4. /\ r.got = x.got /\ r.recvmbox = x.recvmbox /\ r.refused_data = x.refused_data
      /\ r.refused_fin = x.refused_fin /\ r.rcv_nxt = a.rcv_nxt /\ r.recv_data = a.recv_data
      /\ r.recv_flags = a.recv_flags
  <2>1. Same(a, r, {"ooseq", "state"})
    BY DEF a
  <2>2. /\ a.got = x.got /\ a.recvmbox = x.recvmbox /\ a.refused_data = x.refused_data
        /\ a.refused_fin = x.refused_fin
    BY <1>3 DEF Same, AcceptFields, Fields, PcbFields, ConnFields
  <2> QED BY <2>1, <2>2 DEF Same, Fields, PcbFields, HandlerFields, ConnFields
<1>5. /\ b \in Int /\ Len(x.refused_data) \in Nat /\ e <= n
  BY <1>1, FlowBounds
<1>6. Edge(x, e, n, f) /\ From(x.recv_data, b + Len(x.refused_data)) /\ x.rcv_nxt = e
  BY <1>1 DEF Flow, Edge
<1>7. /\ r.recv_data = x.recv_data \o s.data /\ r.recv_data \in Seq(Int)
      /\ Len(r.recv_data) = Len(x.recv_data) + k
  BY <1>1, <1>2, <1>3, <1>4, ConcatProperties
<1>8. From(r.recv_data, b + Len(x.refused_data))
  <2> DEFINE z == b + Len(x.refused_data)
  <2>1. z \in Int /\ From(x.recv_data, z) /\ s.seq = z + Len(x.recv_data)
    BY <1>5, <1>6
  <2> HIDE DEF z
  <2>2. From(x.recv_data \o s.data, z)
    <3>1. From(s.data, z + Len(x.recv_data))
      BY <1>2, <2>1
    <3> QED BY <1>1, <1>2, <2>1, <3>1, FromCat
  <2> QED BY <1>7, <2>2 DEF z
<1>9. t = DataEnd(s) /\ t <= n /\ e <= t /\ t \in Int /\ e \in Int
  <2>1. s.seq = e /\ DataEnd(s) = s.seq + k /\ k \in Nat /\ DataEnd(s) <= n
    BY <1>2, <1>6
  <2>2. t = e + k /\ e \in Int
    <3> DEFINE u == Len(x.refused_data)
               v == Len(x.recv_data)
               w == Len(r.recv_data)
    <3>1. w = v + k /\ v \in Nat /\ u \in Nat /\ k \in Nat /\ b \in Int
      BY <1>1, <1>2, <1>5, <1>7
    <3>2. t = b + u + w /\ e = b + u + v
      OBVIOUS
    <3> HIDE DEF u, v, w, e, t, k
    <3> QED BY <3>1, <3>2
  <2> HIDE DEF e, t, k
  <2> QED BY <2>1, <2>2
<1> HIDE DEF e, t, k
<1>10. Edge(r, t, n, f)
  <2>1. r.refused_fin \/ r.state = "CLOSE_WAIT" \/ "GOT_FIN" \in r.recv_flags => f /\ t = n
    <3>1. CASE s.fin
      BY <3>1, <1>2, <1>9
    <3>2. CASE ~s.fin
      <4>1. r.state # "CLOSE_WAIT" /\ "GOT_FIN" \notin r.recv_flags
        BY <3>2, <1>3, <1>4
      <4>2. r.refused_fin => f /\ e = n
        BY <1>4, <1>6 DEF Edge
      <4> QED BY <4>1, <4>2, <1>9
    <3> QED BY <3>1, <3>2
  <2>2. /\ "GOT_FIN" \in r.recv_flags => r.rcv_nxt = t + 1
        /\ "GOT_FIN" \notin r.recv_flags => r.rcv_nxt = t
    <3>1. "GOT_FIN" \in r.recv_flags <=> s.fin
      BY <1>3, <1>4
    <3>2. CASE s.fin
      BY <3>1, <3>2, <1>2, <1>3, <1>4, <1>9
    <3>3. CASE ~s.fin
      BY <3>1, <3>3, <1>2, <1>3, <1>4, <1>9
    <3> QED BY <3>2, <3>3
  <2> QED BY <2>1, <2>2, <1>9 DEF Edge
<1>11. Flow(r, r.recv_data, b, n, f)
  <2>1. /\ From(r.got, 2) /\ Boxes(r.recvmbox, 2 + Len(r.got), b, n, f)
        /\ From(r.refused_data, b) /\ r.refused_data = <<>>
    BY <1>1, <1>4 DEF Flow
  <2>2. Edge(r, b + Len(r.refused_data) + Len(r.recv_data), n, f)
    BY <1>4, <1>10 DEF t
  <2>3. From(r.recv_data, b + Len(r.refused_data))
    BY <1>4, <1>8
  <2> QED BY <2>1, <2>2, <2>3 DEF Flow
<1>12. r.state = "CLOSE_WAIT" => r.state = "ESTABLISHED" \/ "GOT_FIN" \in r.recv_flags
  BY <1>3, <1>4
<1> QED BY <1>1, <1>4, <1>11, <1>12 DEF Receiving

LEMMA DequeueNextFlow ==
  ASSUME NEW x, NEW b, NEW n \in Int, NEW f, Receiving(x, b, n, f)
  PROVE  Receiving(DequeueNext(x), b, n, f)
<1>1. CASE x.ooseq = <<>> \/ Head(x.ooseq).seq # x.rcv_nxt
  BY <1>1 DEF DequeueNext
<1>2. CASE ~(x.ooseq = <<>> \/ Head(x.ooseq).seq # x.rcv_nxt)
  <2> DEFINE s == Head(x.ooseq)
             a == Accept(x, s)
             r == [a EXCEPT !.ooseq = Tail(@),
                            !.state = IF s.fin /\ @ = "ESTABLISHED" THEN "CLOSE_WAIT" ELSE @]
  <2>1. x.ooseq \in Seq(Segs) /\ x.ooseq # <<>> /\ Typed(x) /\ Pending(x.ooseq, n, f) /\ s.seq = x.rcv_nxt
    BY <1>2 DEF Receiving, Flow, Typed, PcbTyped
  <2>2. /\ s = x.ooseq[1] /\ Len(x.ooseq) >= 1 /\ Tail(x.ooseq) = Behind(x.ooseq, 1)
        /\ 1 \in 0 .. Len(x.ooseq)
    BY <2>1, HeadTailProperties, LenProperties, EmptySeq DEF Behind
  <2>3. s \in Held(n, f) /\ Pending(Tail(x.ooseq), n, f)
    BY <2>1, <2>2, PendingParts DEF Pending
  <2>4. DequeueNext(x) = r
    BY <1>2 DEF DequeueNext
  <2>5. Typed(DequeueNext(x))
    BY <2>1, DequeueNextKeeps
  <2>6. s \in Segs /\ s.seq <= n /\ s.seq \in Int
    BY <2>3, HeldFacts
  <2> HIDE DEF s
  <2>7. "GOT_FIN" \notin x.recv_flags
    <3> SUFFICES ASSUME "GOT_FIN" \in x.recv_flags PROVE FALSE
      OBVIOUS
    <3> DEFINE e == b + Len(x.refused_data) + Len(x.recv_data)
    <3>1. Edge(x, e, n, f)
      BY DEF Receiving, Flow
    <3> HIDE DEF e
    <3>2. e = n /\ x.rcv_nxt = e + 1
      BY <3>1 DEF Edge
    <3> QED BY <3>2, <2>1, <2>6
  <2>8. Typed(a) /\ Same(x, a, AcceptFields)
    BY <2>1, <2>6, AcceptKeeps
  <2> HIDE DEF a
  <2>9. DOMAIN a = Fields /\ a.ooseq = x.ooseq /\ a.state = x.state /\ x.state = "ESTABLISHED"
    BY <2>7, <2>8 DEF Same, AcceptFields, Fields, PcbFields, Receiving
  <2>10. /\ Same(a, r, {"ooseq", "state"}) /\ r.ooseq = Tail(x.ooseq)
         /\ r.state = "ESTABLISHED" \/ (s.fin /\ r.state = "CLOSE_WAIT")
    BY <2>9 DEF Same, Fields, PcbFields
  <2> HIDE DEF r
  <2>11. Same(Accept(x, s), r, {"ooseq", "state"}) /\ Pending(r.ooseq, n, f) /\ Typed(r)
    BY <2>3, <2>4, <2>5, <2>10 DEF a
  <2>12. Receiving(r, b, n, f)
    BY <2>1, <2>3, <2>7, <2>10, <2>11, AcceptFlow
  <2> QED BY <2>4, <2>12
<1> QED BY <1>1, <1>2

LEMMA DequeueFlow ==
  ASSUME NEW x, NEW b, NEW n \in Int, NEW f, Receiving(x, b, n, f)
  PROVE  Receiving(Dequeue(x), b, n, f)
<1> DEFINE k == Len(x.ooseq)
<1>1. k \in Nat /\ Typed(x)
  BY LenProperties DEF Receiving, Typed, PcbTyped
<1>2. PICK turn :
        /\ turn[0] = x
        /\ \A i \in 1 .. k : turn[i] = DequeueNext(turn[i - 1])
        /\ Dequeue(x) = turn[k]
  BY <1>1, DequeueTurns
<1> HIDE DEF k
<1> DEFINE T == {i \in 0 .. k : Receiving(turn[i], b, n, f)}
<1>3. 0 \in T
  BY <1>1, <1>2
<1>4. ASSUME NEW i \in 0 .. k - 1, i \in T PROVE i + 1 \in T
  <2>1. Receiving(turn[i], b, n, f)
    BY <1>4
  <2>2. i + 1 \in 1 .. k /\ i + 1 \in 0 .. k /\ (i + 1) - 1 = i
    BY <1>1
  <2>3. turn[i + 1] = DequeueNext(turn[i])
    BY <1>2, <2>2
  <2>4. Receiving(turn[i + 1], b, n, f)
    BY <2>1, <2>3, DequeueNextFlow
  <2> QED BY <2>2, <2>4
<1>5. k \in T
  <2> HIDE DEF T
  <2>1. \A i \in 0 .. k : i \in T
    BY <1>1, <1>3, <1>4, Induction
  <2> QED BY <2>1, <1>1
<1> QED BY <1>2, <1>5

LEMMA FlowQueue ==
  ASSUME NEW d, NEW r, Same(d, r, {"ooseq"}), NEW p, NEW b, NEW n, NEW f, Flow(d, p, b, n, f),
         Pending(r.ooseq, n, f)
  PROVE  Flow(r, p, b, n, f)
<1>1. /\ r.got = d.got /\ r.recvmbox = d.recvmbox /\ r.refused_data = d.refused_data
      /\ r.refused_fin = d.refused_fin /\ r.rcv_nxt = d.rcv_nxt
      /\ r.state = d.state /\ r.recv_flags = d.recv_flags
  BY DEF Same, Fields, PcbFields, HandlerFields, ConnFields
<1>2. Edge(r, b + Len(d.refused_data) + Len(p), n, f)
  BY <1>1 DEF Flow, Edge
<1> QED BY <1>1, <1>2 DEF Flow

LEMMA ReceivingFrame ==
  ASSUME NEW x, NEW r, NEW T, Typed(r), Same(x, r, T), T \cap (FlowFields \cup {"recv_data"}) = {},
         NEW b, NEW n, NEW f, Receiving(x, b, n, f)
  PROVE  Receiving(r, b, n, f)
<1>1. r.recv_data = x.recv_data /\ r.refused_data = x.refused_data /\ r.state = x.state
      /\ r.recv_flags = x.recv_flags
  <2>1. \A y \in FlowFields \cup {"recv_data"} : r[y] = x[y]
    <3>1. FlowFields \cup {"recv_data"} \subseteq Fields \ T
      BY DEF FlowFields, Fields, PcbFields, HandlerFields, ConnFields
    <3> QED BY <3>1 DEF Same
  <2> QED BY <2>1 DEF FlowFields
<1>2. Flow(r, x.recv_data, b, n, f)
  <2>1. T \cap FlowFields = {} /\ Flow(x, x.recv_data, b, n, f)
    BY DEF Receiving
  <2> QED BY <2>1, FlowFrame
<1> QED BY <1>1, <1>2 DEF Receiving

LEMMA InSequenceFlow ==
  ASSUME NEW x, NEW b, NEW n \in Int, NEW f, Receiving(x, b, n, f), "GOT_FIN" \notin x.recv_flags,
         NEW s \in Held(n, f), s.seq = x.rcv_nxt
  PROVE  Receiving(InSequence(x, s), b, n, f)
<1> DEFINE q == Ready(x, s)
           h == Head(q)
           a == Taken(x, s)
           c == Accept(a, h)
           e == Dequeue(c)
<1>1. s \in Segs /\ Typed(x) /\ Flow(x, x.recv_data, b, n, f) /\ Pending(x.ooseq, n, f)
      /\ x.ooseq \in Seq(Segs)
  BY HeldFacts DEF Receiving, Flow, Typed, PcbTyped
<1>2. /\ q \in Seq(Segs) /\ q # <<>> /\ h \in Segs
      /\ Typed(a) /\ Same(x, a, {"ooseq"}) /\ a.ooseq = Tail(q)
      /\ InSequence(x, s) = AckSegment(e)
  BY <1>1, InSequenceParts
<1>3. Pending(q, n, f) /\ h.seq = s.seq
  <2>1. FitWindow(x, s) \in Held(n, f) /\ FitWindow(x, s).seq = s.seq
    BY <1>1, HeldFit
  <2> QED BY <1>1, <2>1, MergePending DEF Ready
<1> HIDE DEF q, a
<1>4. h \in Held(n, f) /\ Pending(Tail(q), n, f)
  <2>1. h = q[1] /\ Len(q) >= 1 /\ Tail(q) = Behind(q, 1) /\ 1 \in 0 .. Len(q)
    BY <1>2, HeadTailProperties, LenProperties, EmptySeq DEF Behind
  <2> QED BY <1>2, <1>3, <2>1, PendingParts DEF Pending
<1> HIDE DEF h
<1>5. /\ a.rcv_nxt = x.rcv_nxt /\ a.refused_data = x.refused_data /\ a.recv_data = x.recv_data
      /\ a.recv_flags = x.recv_flags /\ a.state = x.state
  BY <1>2 DEF Same, Fields, PcbFields, HandlerFields
<1>6. Receiving(a, b, n, f) /\ "GOT_FIN" \notin a.recv_flags /\ h.seq = a.rcv_nxt
  <2>1. Flow(a, x.recv_data, b, n, f)
    BY <1>1, <1>2, <1>4, FlowQueue
  <2> QED BY <1>2, <1>3, <1>5, <2>1 DEF Receiving
<1>7. Receiving(c, b, n, f)
  <2>1. Typed(c) /\ Same(a, c, AcceptFields)
    BY <1>2, AcceptKeeps
  <2> HIDE DEF c
  <2>2. c.ooseq = a.ooseq /\ c.state = "ESTABLISHED"
    BY <1>6, <2>1 DEF Same, AcceptFields, Fields, PcbFields, Receiving
  <2>3. Same(Accept(a, h), c, {"ooseq", "state"}) /\ Pending(c.ooseq, n, f)
    BY <1>2, <1>4, <2>1, <2>2 DEF c, Same
  <2> QED BY <1>4, <1>6, <2>1, <2>2, <2>3, AcceptFlow
<1> HIDE DEF c
<1>8. Receiving(e, b, n, f)
  BY <1>7, DequeueFlow
<1> HIDE DEF e
<1>9. Typed(AckSegment(e)) /\ Same(e, AckSegment(e), {"flags"})
  BY <1>8, AckSegmentKeeps DEF Receiving
<1>10. {"flags"} \cap (FlowFields \cup {"recv_data"}) = {}
  BY DEF FlowFields
<1> QED BY <1>2, <1>8, <1>9, <1>10, ReceivingFrame
\* What is new in a segment of the client.
LEMMA NewHeld ==
  ASSUME NEW d, Typed(d), NEW n \in Int, NEW f, NEW m \in Messages, AsSeg(m) \in Good(n, f),
         TcpLen(m) > 0, 2 <= d.rcv_nxt, d.rcv_nxt <= New(d, m).seq
  PROVE  New(d, m) \in Held(n, f)
<1> DEFINE s == New(d, m)
           g == AsSeg(m)
           j == s.seq - m.seq
<1>1. /\ m.seq \in Int /\ m.data \in Seq(Int) /\ Len(m.data) \in Nat /\ SegEnd(m) = m.seq + TcpLen(m)
      /\ d.rcv_nxt \in Int /\ m.syn \in BOOLEAN /\ m.fin \in BOOLEAN
  BY MessageFacts DEF Typed, PcbTyped
<1>2. g.seq = m.seq /\ g.data = m.data /\ g.syn = m.syn /\ g.fin = m.fin
  BY DEF AsSeg, Segment
<1>3. /\ s \in Segs /\ s.syn = m.syn /\ s.fin = m.fin
      /\ s.seq = IF Covers(d, m) THEN d.rcv_nxt ELSE m.seq
      /\ s.seq + Len(s.data) = m.seq + Len(m.data)
      /\ \A i \in 1 .. Len(s.data) : s.data[i] = m.data[i + j]
  BY NewFacts
<1>4. s.seq \in Int /\ Len(s.data) \in Nat /\ DataEnd(s) = s.seq + Len(s.data)
  BY <1>3, SegmentFacts
<1> HIDE DEF g, s
<1>5. ~m.syn
  <2> SUFFICES ASSUME m.syn PROVE FALSE
    OBVIOUS
  <2>1. m.seq = 1 /\ m.data = <<>>
    BY <1>2 DEF Good, g
  <2>2. TcpLen(m) = 1
    <3>1. Len(m.data) = 0 /\ (IF m.syn \/ m.fin THEN 1 ELSE 0) = 1
      BY <2>1
    <3> QED BY <3>1 DEF TcpLen
  <2>3. ~Covers(d, m)
    BY <1>1, <2>1, <2>2 DEF Covers, Between
  <2> QED BY <1>1, <1>3, <2>1, <2>3 DEF s
<1>6. From(m.data, m.seq) /\ (m.data # <<>> \/ m.fin => DataEnd(g) <= n)
      /\ (m.fin => f /\ DataEnd(g) = n)
  BY <1>2 DEF Good, g
<1>7. m.data # <<>> \/ m.fin
  <2> SUFFICES ASSUME m.data = <<>>, ~m.fin PROVE FALSE
    OBVIOUS
  <2>1. Len(m.data) = 0 /\ (IF m.syn \/ m.fin THEN 1 ELSE 0) = 0
    BY <1>5
  <2> QED BY <2>1 DEF TcpLen
<1>8. DataEnd(g) = DataEnd(s)
  BY <1>2, <1>3, <1>4 DEF DataEnd
<1>9. j \in Nat
  <2>1. CASE Covers(d, m)
    BY <2>1, <1>1, <1>3 DEF Covers, Between
  <2>2. CASE ~Covers(d, m)
    BY <2>2, <1>1, <1>3
  <2> QED BY <2>1, <2>2
<1>10. From(s.data, s.seq)
  <2> SUFFICES ASSUME NEW i \in 1 .. Len(s.data) PROVE s.data[i] = s.seq + i - 1
    BY DEF From
  <2>1. i + j \in 1 .. Len(m.data) /\ m.seq + (i + j) - 1 = s.seq + i - 1
    <3> DEFINE u == s.seq
               v == m.seq
               k == Len(s.data)
               w == Len(m.data)
    <3>1. u \in Int /\ v \in Int /\ k \in Nat /\ w \in Nat /\ u + k = v + w /\ j \in Nat /\ i \in 1 .. k
      BY <1>1, <1>3, <1>4, <1>9
    <3>2. u = v + j
      BY <1>1, <1>4
    <3> HIDE DEF u, v, w, k, j
    <3>3. i + j \in 1 .. w /\ v + (i + j) - 1 = u + i - 1
      BY <3>1, <3>2
    <3> QED BY <3>3 DEF u, v, w
  <2>2. m.data[i + j] = m.seq + (i + j) - 1
    BY <1>6, <2>1 DEF From
  <2> QED BY <1>3, <2>1, <2>2
<1> QED BY <1>3, <1>5, <1>6, <1>7, <1>8, <1>10 DEF Held, s

LEMMA DataFlow ==
  ASSUME NEW x, NEW b, NEW n \in Int, NEW f, Receiving(x, b, n, f), x.state = "ESTABLISHED",
         "GOT_FIN" \notin x.recv_flags, NEW m \in Messages, AsSeg(m) \in Good(n, f), TcpLen(m) > 0
  PROVE  Receiving(Data(x, m), b, n, f)
<1> DEFINE s == New(x, m)
           l == Late(x, m)
           a == SendEmptyAck(l)
           q == Queue(a, s)
<1>1. Typed(x) /\ s \in Segs
  BY NewFacts DEF Receiving
<1>2. 2 <= x.rcv_nxt /\ x.rcv_nxt \in Int
  <2> DEFINE e == b + Len(x.refused_data) + Len(x.recv_data)
  <2>1. x.recv_data \in Seq(Int) /\ Flow(x, x.recv_data, b, n, f) /\ x.rcv_nxt \in Int
    BY <1>1 DEF Receiving, Typed, HandlerTyped, PcbTyped
  <2>2. b \in Int /\ 2 + Len(x.got) <= b /\ Len(x.got) \in Nat /\ Len(x.refused_data) \in Nat
        /\ Len(x.recv_data) \in Nat
    BY <1>1, <2>1, FlowBounds
  <2>3. x.rcv_nxt = e
    BY <2>1 DEF Flow, Edge
  <2>4. 2 <= e
    <3> DEFINE g == Len(x.got)
               h == Len(x.refused_data)
               k == Len(x.recv_data)
    <3>1. b \in Int /\ 2 + g <= b /\ g \in Nat /\ h \in Nat /\ k \in Nat
      BY <2>2
    <3> HIDE DEF g, h, k
    <3>2. 2 <= b + h + k
      BY <3>1
    <3> QED BY <3>2 DEF h, k
  <2> QED BY <2>1, <2>3, <2>4
<1>3. Typed(l) /\ Same(x, l, {"flags"})
  <2>1. {"ACK_NOW"} \in SUBSET Flags
    BY DEF Flags
  <2>2. Typed(Set(x, {"ACK_NOW"})) /\ Same(x, Set(x, {"ACK_NOW"}), {"flags"})
    BY <1>1, <2>1, FlagsKeep
  <2>3. Same(x, x, {"flags"})
    BY <1>1 DEF Same, Typed
  <2> QED BY <1>1, <2>2, <2>3 DEF Late
<1>4. Data(x, m) = IF ~Between(s.seq, x.rcv_nxt, x.rcv_nxt + x.rcv_wnd - 1) THEN a
                   ELSE IF s.seq = x.rcv_nxt THEN InSequence(l, s) ELSE q
  BY DataSteps
<1> HIDE DEF s, l
<1>5. Receiving(l, b, n, f) /\ l.recv_flags = x.recv_flags /\ l.rcv_nxt = x.rcv_nxt
  <2>1. {"flags"} \cap (FlowFields \cup {"recv_data"}) = {}
    BY DEF FlowFields
  <2>2. l.recv_flags = x.recv_flags /\ l.rcv_nxt = x.rcv_nxt
    BY <1>3 DEF Same, Fields, PcbFields, HandlerFields
  <2> QED BY <1>3, <2>1, <2>2, ReceivingFrame
<1>6. Typed(a) /\ Same(l, a, {"out", "flags", "rcv_ann_right_edge"})
  BY <1>3, EmptyAckKeeps
<1> HIDE DEF a
<1>7. Receiving(a, b, n, f)
  <2>1. {"out", "flags", "rcv_ann_right_edge"} \cap (FlowFields \cup {"recv_data"}) = {}
    BY DEF FlowFields
  <2> QED BY <1>5, <1>6, <2>1, ReceivingFrame
<1>8. CASE ~Between(s.seq, x.rcv_nxt, x.rcv_nxt + x.rcv_wnd - 1)
  BY <1>4, <1>7, <1>8
<1>9. CASE Between(s.seq, x.rcv_nxt, x.rcv_nxt + x.rcv_wnd - 1)
  <2>1. s \in Held(n, f)
    <3>1. x.rcv_nxt <= New(x, m).seq
      BY <1>9 DEF Between, s
    <3> QED BY <1>1, <1>2, <3>1, NewHeld DEF s
  <2>2. CASE s.seq = x.rcv_nxt
    <3>1. Receiving(InSequence(l, s), b, n, f)
      BY <1>5, <2>1, <2>2, InSequenceFlow
    <3> QED BY <1>4, <1>9, <2>2, <3>1
  <2>3. CASE s.seq # x.rcv_nxt
    <3>1. Typed(q) /\ Same(a, q, {"ooseq"})
      BY <1>1, <1>6, QueueKeeps
    <3>2. Pending(a.ooseq, n, f) /\ Flow(a, a.recv_data, b, n, f)
      BY <1>7 DEF Receiving, Flow
    <3>3. Pending(q.ooseq, n, f)
      BY <1>6, <2>1, <3>2, QueuePending
    <3> HIDE DEF q
    <3>4. Flow(q, a.recv_data, b, n, f)
      BY <3>1, <3>2, <3>3, FlowQueue
    <3>5. q.recv_data = a.recv_data /\ q.refused_data = a.refused_data /\ q.state = a.state
          /\ q.recv_flags = a.recv_flags
      BY <3>1 DEF Same, Fields, PcbFields, HandlerFields
    <3>6. Receiving(q, b, n, f)
      BY <1>7, <3>1, <3>4, <3>5 DEF Receiving
    <3> QED BY <1>4, <1>9, <2>3, <3>6
  <2> QED BY <2>2, <2>3
<1> QED BY <1>8, <1>9

LEMMA ReceiveFlow ==
  ASSUME NEW d, Typed(d), NEW b, NEW n \in Int, NEW f, Flow(d, d.recv_data, b, n, f),
         "GOT_FIN" \notin d.recv_flags, d.state \in {"ESTABLISHED", "CLOSE_WAIT"},
         NEW m \in OnWire(Good(n, f)), TcpLen(m) = 0 \/ d.refused_data = <<>>
  PROVE  Flow(Receive(d, m), Receive(d, m).recv_data, b, n, f)
<1> DEFINE a == IF m.ack THEN Ack(d, m) ELSE d
           r == Receive(d, m)
           T == AckFields \cup {"flags"}
<1>1. m \in Messages
  BY DEF OnWire
<1>2. Typed(a) /\ Same(d, a, AckFields)
  <2>1. Typed(Ack(d, m)) /\ Same(d, Ack(d, m), AckFields)
    BY <1>1, AckKeeps
  <2>2. Same(d, d, AckFields)
    BY DEF Same, Typed
  <2> QED BY <2>1, <2>2
<1>3. r = IF TcpLen(m) > 0 /\ a.state \in {"ESTABLISHED", "FIN_WAIT_1", "FIN_WAIT_2"} THEN Data(a, m)
          ELSE IF Between(m.seq, a.rcv_nxt, a.rcv_nxt + a.rcv_wnd - 1) THEN a
          ELSE Set(a, {"ACK_NOW"})
  BY DEF Receive
<1> HIDE DEF a, r
<1>4. T \cap FlowFields = {} /\ AckFields \cap (FlowFields \cup {"recv_data"}) = {} /\ "recv_data" \notin T
  BY DEF FlowFields, AckFields, OldAckFields, NewAckFields
<1>5. a.state = d.state /\ a.recv_flags = d.recv_flags
  BY <1>2, <1>4 DEF Same, FlowFields, Fields, PcbFields, HandlerFields
<1>6. CASE r \in {a, Set(a, {"ACK_NOW"})}
  <2>1. {"ACK_NOW"} \in SUBSET Flags
    BY DEF Flags
  <2>2. Same(a, Set(a, {"ACK_NOW"}), {"flags"}) /\ Same(a, a, {"flags"})
    BY <1>2, <2>1, FlagsKeep DEF Same, Typed
  <2>3. Same(d, r, T)
    BY <1>2, <1>6, <2>2, SameTwice
  <2>4. r.recv_data = d.recv_data
    BY <1>4, <2>3 DEF Same, Fields, HandlerFields
  <2>5. Flow(r, d.recv_data, b, n, f)
    <3> HIDE DEF T
    <3> QED BY <1>4, <2>3, FlowFrame
  <2> QED BY <2>4, <2>5 DEF r
<1>7. CASE r \notin {a, Set(a, {"ACK_NOW"})}
  <2>1. r = Data(a, m) /\ TcpLen(m) > 0 /\ d.state = "ESTABLISHED" /\ d.refused_data = <<>>
    BY <1>3, <1>5, <1>7
  <2>2. AsSeg(m) \in Good(n, f)
    <3>1. ~Bare(m)
      <4> SUFFICES ASSUME Bare(m) PROVE FALSE
        OBVIOUS
      <4>1. Len(m.data) = 0 /\ (IF m.syn \/ m.fin THEN 1 ELSE 0) = 0
        BY DEF Bare
      <4> QED BY <2>1, <4>1 DEF TcpLen
    <3> QED BY <3>1 DEF OnWire
  <2>3. Receiving(d, b, n, f)
    BY <2>1 DEF Receiving
  <2>4. Receiving(a, b, n, f)
    BY <1>2, <1>4, <2>3, ReceivingFrame
  <2>5. Receiving(Data(a, m), b, n, f)
    BY <1>1, <1>5, <2>1, <2>2, <2>4, DataFlow
  <2> QED BY <2>1, <2>5 DEF Receiving, r
<1> QED BY <1>6, <1>7

(* tcp_input and recv_tcp: what was received goes to recvmbox, or it is     *)
(* refused and kept for later.                                              *)
LEMMA RecvTcpOpen ==
  ASSUME NEW d, Typed(d), d.rcvopen, NEW p \in Seq(Int)
  PROVE  /\ Takes(d) => /\ Same(d, RecvTcp(d, p), {"recvmbox"})
                        /\ RecvTcp(d, p).recvmbox = Append(d.recvmbox, p)
         /\ ~Takes(d) => RecvTcp(d, p) = d
<1>1. DOMAIN d = Fields /\ "recvmbox" \in Fields
  BY DEF Typed, Fields, ConnFields
<1>2. ASSUME Takes(d) PROVE RecvTcp(d, p) = [d EXCEPT !.recvmbox = Append(@, p)]
  BY <1>2 DEF RecvTcp
<1>3. ASSUME ~Takes(d) PROVE RecvTcp(d, p) = d
  BY <1>3 DEF RecvTcp
<1> QED BY <1>1, <1>2, <1>3 DEF Same

LEMMA MboxFlow ==
  ASSUME NEW d, NEW r, Typed(d), NEW p \in Seq(Int), Same(d, r, {"recvmbox"}),
         r.recvmbox = Append(d.recvmbox, p), d.refused_data = <<>>,
         NEW b, NEW n \in Int, NEW f, Flow(d, p, b, n, f), p = <<>> => f /\ b = n
  PROVE  Flow(r, <<>>, b + Len(p), n, f)
<1>1. /\ r.got = d.got /\ r.refused_data = <<>> /\ r.refused_fin = d.refused_fin /\ r.rcv_nxt = d.rcv_nxt
      /\ r.state = d.state /\ r.recv_flags = d.recv_flags /\ r.ooseq = d.ooseq
  BY DEF Same, Fields, PcbFields, HandlerFields, ConnFields
<1>2. b \in Int /\ Len(p) \in Nat /\ Len(d.got) \in Nat
  BY FlowBounds
<1>3. d.recvmbox \in Seq(Seq(Int)) /\ Boxes(d.recvmbox, 2 + Len(d.got), b, n, f) /\ From(p, b)
  <2>1. From(p, b + Len(d.refused_data)) /\ Len(d.refused_data) = 0
    BY DEF Flow
  <2>2. b + Len(d.refused_data) = b
    BY <1>2, <2>1
  <2> QED BY <2>1, <2>2 DEF Flow, Typed, ConnTyped
<1>4. Boxes(r.recvmbox, 2 + Len(d.got), b + Len(p), n, f)
  BY <1>2, <1>3, BoxesAppend
<1>5. Edge(r, b + Len(p), n, f)
  <2> DEFINE e == b + Len(d.refused_data) + Len(p)
  <2>1. e = b + Len(p)
    BY <1>2
  <2>2. Edge(d, e, n, f)
    BY DEF Flow
  <2> HIDE DEF e
  <2>3. Edge(r, e, n, f)
    BY <1>1, <2>2 DEF Edge
  <2> QED BY <2>1, <2>3
<1>6. b + Len(p) + Len(r.refused_data) + Len(<<>>) = b + Len(p)
  BY <1>1, <1>2
<1>7. From(<<>>, b + Len(p)) /\ From(<<>>, b + Len(p) + Len(r.refused_data))
  BY DEF From
<1> QED BY <1>1, <1>4, <1>5, <1>6, <1>7 DEF Flow
\* Nothing is left that was refused: what it was is to be passed on again.
LEMMA RefusedFlow ==
  ASSUME NEW d, NEW r, Typed(d), Same(d, r, {"refused_data", "refused_fin"}), r.refused_data = <<>>,
         r.refused_fin = FALSE, NEW b, NEW n \in Int, NEW f, Flow(d, <<>>, b, n, f)
  PROVE  Flow(r, d.refused_data, b, n, f) /\ (d.refused_fin => f /\ b + Len(d.refused_data) = n)
<1>1. /\ r.got = d.got /\ r.recvmbox = d.recvmbox /\ r.rcv_nxt = d.rcv_nxt
      /\ r.state = d.state /\ r.recv_flags = d.recv_flags /\ r.ooseq = d.ooseq
  BY DEF Same, Fields, PcbFields, HandlerFields, ConnFields
<1>2. b \in Int /\ Len(d.refused_data) \in Nat
  <2>1. <<>> \in Seq(Int)
    OBVIOUS
  <2> QED BY <2>1, FlowBounds
<1> DEFINE e == b + Len(d.refused_data)
<1>3. Edge(d, e, n, f)
  <2>1. b + Len(d.refused_data) + Len(<<>>) = e
    BY <1>2
  <2> QED BY <2>1 DEF Flow
<1>4. b + Len(r.refused_data) = b /\ b + Len(r.refused_data) + Len(d.refused_data) = e
  BY <1>2
<1> HIDE DEF e
<1>5. Edge(r, e, n, f) /\ (d.refused_fin => f /\ e = n)
  BY <1>1, <1>3 DEF Edge
<1>6. From(r.refused_data, b)
  BY DEF From
<1>7. From(d.refused_data, b)
  BY DEF Flow
<1> QED BY <1>1, <1>4, <1>5, <1>6, <1>7 DEF Flow, e
\* The end of the stream.
LEMMA EndFlow ==
  ASSUME NEW d, Typed(d), d.rcvopen, d.refused_data = <<>>, NEW b, NEW n \in Int, NEW f, f, b = n,
         Flow(d, <<>>, b, n, f)
  PROVE  Flow(EndOfStream(d), <<>>, b, n, f) /\ Same(d, EndOfStream(d), {"rcv_wnd", "recvmbox"})
<1> DEFINE w == [d EXCEPT !.rcv_wnd = IF @ = Wnd THEN @ ELSE Wrap(@ + 1)]
           r == EndOfStream(d)
<1>1. Same(d, w, {"rcv_wnd"}) /\ w.rcv_wnd = IF d.rcv_wnd = Wnd THEN d.rcv_wnd ELSE Wrap(d.rcv_wnd + 1)
  BY DEF Typed, Same, Fields, PcbFields
<1>2. r = RecvTcp(w, <<>>)
  BY DEF EndOfStream
<1> HIDE DEF w, r
<1>3. Typed(w)
  <2>1. d.rcv_wnd + 1 \in Int /\ d.rcv_wnd \in Int
    BY DEF Typed, PcbTyped
  <2>2. Wrap(d.rcv_wnd + 1) \in Int
    <3> DEFINE x == d.rcv_wnd + 1
    <3>1. x \in Int
      BY <2>1
    <3> HIDE DEF x
    <3>2. x % 65536 \in Int
      BY <3>1
    <3> QED BY <3>2 DEF Wrap, U16, x
  <2>3. w.rcv_wnd \in Int
    BY <1>1, <2>1, <2>2
  <2>4. IsTyped("rcv_wnd", w.rcv_wnd)
    BY <2>3 DEF IsTyped
  <2> QED BY <1>1, <2>4, OneFieldTyped
<1>4. w.rcvopen /\ w.refused_data = <<>>
  BY <1>1 DEF Same, Fields, PcbFields, ConnFields
<1>5. Flow(w, <<>>, b, n, f)
  <2>1. {"rcv_wnd"} \cap FlowFields = {}
    BY DEF FlowFields
  <2> QED BY <1>1, <2>1, FlowFrame
<1>6. <<>> \in Seq(Int) /\ b \in Int
  OBVIOUS
<1>7. CASE Takes(w)
  <2>1. Same(w, r, {"recvmbox"}) /\ r.recvmbox = Append(w.recvmbox, <<>>)
    BY <1>2, <1>3, <1>4, <1>6, <1>7, RecvTcpOpen
  <2>2. Flow(r, <<>>, b + Len(<<>>), n, f)
    BY <1>3, <1>4, <1>5, <1>6, <2>1, MboxFlow
  <2>3. b + Len(<<>>) = b
    BY <1>6
  <2> QED BY <1>1, <2>1, <2>2, <2>3 DEF Same, r
<1>8. CASE ~Takes(w)
  <2>1. r = w
    BY <1>2, <1>3, <1>4, <1>6, <1>8, RecvTcpOpen
  <2> QED BY <1>1, <1>5, <2>1 DEF Same, r
<1> QED BY <1>7, <1>8
\* tcp_process_refused_data.
RefusedFields == {"rcv_wnd", "recvmbox", "refused_data", "refused_fin"}

LEMMA ProcessRefusedFlow ==
  ASSUME NEW d, Typed(d), d.rcvopen, NEW n \in Int, NEW f, \E b : Flow(d, <<>>, b, n, f)
  PROVE  /\ \E b : Flow(ProcessRefused(d), <<>>, b, n, f)
         /\ Same(d, ProcessRefused(d), RefusedFields)
<1> PICK b : Flow(d, <<>>, b, n, f)
  OBVIOUS
<1> DEFINE w == [d EXCEPT !.refused_data = <<>>, !.refused_fin = FALSE]
           p == RecvTcp(w, d.refused_data)
           r == ProcessRefused(d)
<1>1. CASE d.refused_data = <<>> \/ ~Takes(d)
  <2>1. r = d
    BY <1>1 DEF ProcessRefused
  <2>2. Same(d, r, RefusedFields)
    BY <2>1 DEF Same, Typed
  <2> QED BY <2>1, <2>2
<1>2. CASE ~(d.refused_data = <<>> \/ ~Takes(d))
  <2>1. r = IF d.refused_fin THEN EndOfStream(p) ELSE p
    BY <1>2 DEF ProcessRefused
  <2> HIDE DEF r
  <2>2. /\ Same(d, w, {"refused_data", "refused_fin"}) /\ w.refused_data = <<>>
        /\ w.refused_fin = FALSE
    BY DEF Typed, Same, Fields, PcbFields
  <2> HIDE DEF w
  <2>3. Typed(w)
    <3>1. w.refused_data \in Seq(Int) /\ w.refused_fin \in BOOLEAN
      <4>1. <<>> \in Seq(Int) /\ FALSE \in BOOLEAN
        OBVIOUS
      <4> QED BY <2>2, <4>1, Zenon
    <3>2. \A x \in {"refused_data", "refused_fin"} : IsTyped(x, w[x])
      BY <3>1 DEF IsTyped
    <3> QED BY <2>2, <3>2, Retyped
  <2>4. w.rcvopen /\ w.recvmbox = d.recvmbox
    BY <2>2 DEF Same, Fields, ConnFields
  <2>5. Takes(w) /\ d.refused_data \in Seq(Int) /\ d.refused_data # <<>>
    BY <1>2, <2>4 DEF Takes, Typed, PcbTyped
  <2>6. Flow(w, d.refused_data, b, n, f) /\ (d.refused_fin => f /\ b + Len(d.refused_data) = n)
    BY <2>2, RefusedFlow
  <2>7. Same(w, p, {"recvmbox"}) /\ p.recvmbox = Append(w.recvmbox, d.refused_data) /\ Typed(p)
    BY <2>3, <2>4, <2>5, RecvTcpOpen, RecvTcpKeeps
  <2> HIDE DEF p
  <2>8. Flow(p, <<>>, b + Len(d.refused_data), n, f)
    BY <2>2, <2>3, <2>5, <2>6, <2>7, MboxFlow
  <2>9. Same(d, p, RefusedFields) /\ p.rcvopen /\ p.refused_data = <<>>
    <3>1. Same(d, p, {"refused_data", "refused_fin"} \cup {"recvmbox"})
      BY <2>2, <2>7, SameTwice
    <3>2. p.rcvopen /\ p.refused_data = <<>>
      BY <2>2, <2>4, <2>7 DEF Same, Fields, PcbFields, ConnFields
    <3> QED BY <3>1, <3>2, SameMore DEF RefusedFields
  <2>10. CASE d.refused_fin
    <3>1. r = EndOfStream(p)
      BY <2>1, <2>10
    <3>2. Flow(EndOfStream(p), <<>>, b + Len(d.refused_data), n, f)
          /\ Same(p, EndOfStream(p), {"rcv_wnd", "recvmbox"})
      BY <2>6, <2>7, <2>8, <2>9, <2>10, EndFlow
    <3>3. Same(d, r, RefusedFields)
      <4>1. Same(d, r, RefusedFields \cup {"rcv_wnd", "recvmbox"})
        BY <2>9, <3>1, <3>2, SameTwice
      <4> QED BY <4>1, SameMore DEF RefusedFields
    <3> QED BY <3>1, <3>2, <3>3 DEF r
  <2>11. CASE ~d.refused_fin
    <3>1. r = p
      BY <2>1, <2>11
    <3> QED BY <3>1, <2>8, <2>9 DEF r
  <2> QED BY <2>10, <2>11
<1> QED BY <1>1, <1>2

LEMMA GiveFlow ==
  ASSUME NEW d, Typed(d), d.rcvopen, NEW b, NEW n \in Int, NEW f, Flow(d, d.recv_data, b, n, f)
  PROVE  /\ \E c : Flow(GiveFin(GiveData(d)), <<>>, c, n, f)
         /\ Same(d, GiveFin(GiveData(d)), RefusedFields)
<1> DEFINE g == GiveData(d)
           r == GiveFin(g)
           e == b + Len(d.refused_data) + Len(d.recv_data)
<1>1. d.recv_data \in Seq(Int) /\ d.refused_data \in Seq(Int)
  BY DEF Typed, HandlerTyped, PcbTyped
<1>2. b \in Int /\ Len(d.refused_data) \in Nat /\ Len(d.recv_data) \in Nat /\ e \in Int
  BY <1>1, FlowBounds
<1>3. Edge(d, e, n, f) /\ ("GOT_FIN" \in d.recv_flags => f /\ e = n)
      /\ (d.recv_data # <<>> => d.refused_data = <<>>)
  BY DEF Flow, Edge
<1>4. \E c : /\ Flow(g, <<>>, c, n, f) /\ c + Len(g.refused_data) = e
             /\ Same(d, g, {"recvmbox", "refused_data"}) /\ Typed(g)
  <2>1. CASE d.recv_data = <<>>
    <3>1. g = d
      BY <2>1 DEF GiveData
    <3>2. b + Len(d.refused_data) = e /\ Flow(d, <<>>, b, n, f)
      BY <1>2, <2>1
    <3>3. Same(d, d, {"recvmbox", "refused_data"})
      BY DEF Same, Typed
    <3> HIDE DEF g, e
    <3> QED BY <3>1, <3>2, <3>3
  <2>2. CASE d.recv_data # <<>> /\ Takes(d)
    <3>1. g = RecvTcp(d, d.recv_data)
      BY <2>2 DEF GiveData
    <3>2. Same(d, g, {"recvmbox"}) /\ g.recvmbox = Append(d.recvmbox, d.recv_data) /\ Typed(g)
      BY <1>1, <2>2, <3>1, RecvTcpOpen, RecvTcpKeeps
    <3> HIDE DEF g
    <3>3. Flow(g, <<>>, b + Len(d.recv_data), n, f)
      BY <1>1, <1>3, <2>2, <3>2, MboxFlow
    <3>4. g.refused_data = <<>>
      BY <1>3, <2>2, <3>2 DEF Same, Fields, PcbFields
    <3>5. b + Len(d.recv_data) + Len(g.refused_data) = e
      <4>1. Len(g.refused_data) = 0 /\ Len(d.refused_data) = 0
        BY <1>3, <2>2, <3>4
      <4> QED BY <1>2, <4>1
    <3>6. Same(d, g, {"recvmbox", "refused_data"})
      BY <3>2, SameMore
    <3> HIDE DEF e
    <3> QED BY <3>2, <3>3, <3>5, <3>6
  <2>3. CASE d.recv_data # <<>> /\ ~Takes(d)
    <3>1. g = [d EXCEPT !.refused_data = d.recv_data]
      BY <2>3 DEF GiveData
    <3>2. Same(d, g, {"refused_data"}) /\ g.refused_data = d.recv_data
      BY <3>1 DEF Typed, Same, Fields, PcbFields
    <3> HIDE DEF g
    <3>3. Typed(g)
      <4>1. IsTyped("refused_data", g.refused_data)
        BY <1>1, <3>2 DEF IsTyped
      <4> QED BY <3>2, <4>1, OneFieldTyped
    <3>4. /\ g.got = d.got /\ g.recvmbox = d.recvmbox /\ g.refused_fin = d.refused_fin
          /\ g.rcv_nxt = d.rcv_nxt /\ g.state = d.state /\ g.recv_flags = d.recv_flags /\ g.ooseq = d.ooseq
      BY <3>2 DEF Same, Fields, PcbFields, HandlerFields, ConnFields
    <3>5. d.refused_data = <<>> /\ From(d.recv_data, b + Len(d.refused_data))
      BY <1>3, <2>3 DEF Flow
    <3>6. b + Len(g.refused_data) = e /\ b + Len(g.refused_data) + Len(<<>>) = e
          /\ b + Len(d.refused_data) = b
      BY <1>2, <3>2, <3>5
    <3> HIDE DEF e
    <3>7. Edge(g, e, n, f)
      BY <1>3, <3>4 DEF Edge
    <3>8. From(g.refused_data, b) /\ From(<<>>, e)
      BY <3>2, <3>5, <3>6 DEF From
    <3>9. Flow(g, <<>>, b, n, f)
      BY <3>4, <3>6, <3>7, <3>8 DEF Flow
    <3>10. Same(d, g, {"recvmbox", "refused_data"})
      BY <3>2, SameMore
    <3> QED BY <3>3, <3>6, <3>9, <3>10
  <2> QED BY <2>1, <2>2, <2>3
<1> HIDE DEF g, r, e
<1> PICK c : /\ Flow(g, <<>>, c, n, f) /\ c + Len(g.refused_data) = e
             /\ Same(d, g, {"recvmbox", "refused_data"}) /\ Typed(g)
  BY <1>4
<1>5. g.recv_flags = d.recv_flags /\ g.rcvopen
  BY DEF Same, Fields, HandlerFields, ConnFields
<1>6. c \in Int /\ Len(g.refused_data) \in Nat
  <2>1. <<>> \in Seq(Int)
    OBVIOUS
  <2> QED BY <2>1, FlowBounds
<1>7. Same(d, g, RefusedFields)
  BY SameMore DEF RefusedFields
<1>8. CASE "GOT_FIN" \notin g.recv_flags
  <2>1. r = g
    BY <1>8 DEF r, GiveFin
  <2> QED BY <1>7, <2>1 DEF r, g
<1>9. CASE "GOT_FIN" \in g.recv_flags /\ g.refused_data # <<>>
  <2>1. r = [g EXCEPT !.refused_fin = TRUE]
    BY <1>9 DEF r, GiveFin
  <2>2. Same(g, r, {"refused_fin"})
    BY <2>1 DEF Typed, Same, Fields, PcbFields
  <2>3. /\ r.got = g.got /\ r.recvmbox = g.recvmbox /\ r.refused_data = g.refused_data
        /\ r.rcv_nxt = g.rcv_nxt /\ r.state = g.state /\ r.recv_flags = g.recv_flags /\ r.ooseq = g.ooseq
    BY <2>2 DEF Same, Fields, PcbFields, HandlerFields, ConnFields
  <2>4. c + Len(g.refused_data) + Len(<<>>) = e
    BY <1>6
  <2>5. Edge(g, e, n, f)
    BY <2>4 DEF Flow
  <2>6. Edge(r, e, n, f)
    BY <1>3, <1>5, <1>9, <2>3, <2>5 DEF Edge
  <2>7. Flow(r, <<>>, c, n, f)
    BY <2>3, <2>4, <2>6 DEF Flow
  <2>8. Same(d, r, RefusedFields)
    <3>1. Same(d, r, RefusedFields \cup {"refused_fin"})
      BY <1>7, <2>2, SameTwice
    <3> QED BY <3>1, SameMore DEF RefusedFields
  <2> QED BY <2>7, <2>8 DEF r, g
<1>10. CASE "GOT_FIN" \in g.recv_flags /\ g.refused_data = <<>>
  <2>1. r = EndOfStream(g)
    BY <1>10 DEF r, GiveFin
  <2>2. f /\ c = n
    <3>1. f /\ e = n /\ Len(g.refused_data) = 0
      BY <1>3, <1>5, <1>10
    <3> QED BY <1>6, <3>1
  <2>3. Flow(r, <<>>, c, n, f) /\ Same(g, r, {"rcv_wnd", "recvmbox"})
    BY <1>5, <1>10, <2>1, <2>2, EndFlow
  <2>4. Same(d, r, RefusedFields)
    <3>1. Same(d, r, RefusedFields \cup {"rcv_wnd", "recvmbox"})
      BY <1>7, <2>3, SameTwice
    <3> QED BY <3>1, SameMore DEF RefusedFields
  <2> QED BY <2>3, <2>4 DEF r, g
<1> QED BY <1>8, <1>9, <1>10

-----------------------------------------------------------------------------
(* The server: it accepts, reads what it is sent up to the end of the       *)
(* stream or gives up, writes what it has and deletes its netconn.          *)
ServerApps == Apps \ {"start", "connect"}
ReadApps == {"open", "took"}
Stage(d) ==
  /\ d.app \in ServerApps /\ (d.app = "accept" <=> d.state \in {"LISTEN", "SYN_RCVD"})
  /\ d.state # "SYN_SENT"
Listening(d) ==
  /\ d.got = <<>> /\ d.recvmbox = <<>> /\ d.refused_data = <<>> /\ d.rcvopen /\ ~d.eof
  /\ d.state = "SYN_RCVD" => d.rcv_nxt = 2 /\ d.ooseq = <<>> /\ ~d.refused_fin
Poised(d) == Stage(d) /\ (d.app = "accept" => Listening(d))
Stream(d, p, n, f) == \E b : Flow(d, p, b, n, f)
Reading(d, n, f) == d.rcvopen /\ (d.eof => d.app = "took") /\ Stream(d, <<>>, n, f)
Reader(d, n, f) == Poised(d) /\ (d.app \in ReadApps => Reading(d, n, f))
\* What a handler that began with d makes of the host.
Served(d, r, n, f) ==
  /\ Reader(r, n, f) /\ r.got = d.got /\ r.eof = d.eof
  /\ r.app \in ReadApps /\ "GOT_FIN" \in r.recv_flags => r.state # "ESTABLISHED"
ReaderFields == FlowFields \cup {"app", "rcvopen", "eof"}

LEMMA ServedFrame ==
  ASSUME NEW q, NEW d, NEW r, NEW T, NEW n, NEW f, Served(q, d, n, f), Same(d, r, T), T \cap ReaderFields = {}
  PROVE  Served(q, r, n, f)
<1>1. /\ r.got = d.got /\ r.recvmbox = d.recvmbox /\ r.refused_data = d.refused_data
      /\ r.refused_fin = d.refused_fin /\ r.ooseq = d.ooseq /\ r.rcv_nxt = d.rcv_nxt
      /\ r.state = d.state /\ r.recv_flags = d.recv_flags /\ r.app = d.app /\ r.rcvopen = d.rcvopen
      /\ r.eof = d.eof
  <2>1. ReaderFields \subseteq Fields \ T
    BY DEF ReaderFields, FlowFields, Fields, PcbFields, HandlerFields, ConnFields
  <2>2. \A x \in ReaderFields : r[x] = d[x]
    BY <2>1 DEF Same
  <2> QED BY <2>2 DEF ReaderFields, FlowFields
<1>2. Poised(r)
  BY <1>1 DEF Served, Reader, Poised, Stage, Listening
<1>3. ASSUME r.app \in ReadApps PROVE Reading(r, n, f)
  <2>1. PICK b : Flow(d, <<>>, b, n, f)
    BY <1>1, <1>3 DEF Served, Reader, Reading, Stream
  <2>2. T \cap FlowFields = {}
    BY DEF ReaderFields
  <2>3. Flow(r, <<>>, b, n, f)
    BY <2>1, <2>2, FlowFrame
  <2>4. d.rcvopen /\ (d.eof => d.app = "took")
    BY <1>1, <1>3 DEF Served, Reader, Reading
  <2> QED BY <1>1, <2>3, <2>4 DEF Reading, Stream
<1> QED BY <1>1, <1>2, <1>3 DEF Served, Reader
\* Two handlers in one.
LEMMA ServedTwice ==
  ASSUME NEW q, NEW d, NEW r, NEW n, NEW f, d.got = q.got, d.eof = q.eof, Served(d, r, n, f)
  PROVE  Served(q, r, n, f)
  BY DEF Served

LEMMA ServedSelf ==
  ASSUME NEW d, NEW n, NEW f, Reader(d, n, f), d.recv_flags = {}
  PROVE  Served(d, d, n, f)
  BY DEF Served
\* An application that does not read needs no more than its place.
LEMMA StageLater ==
  ASSUME NEW d, NEW r, Stage(d), Later(d, r), d.app # "accept"
  PROVE  Stage(r) /\ r.app # "accept" /\ (d.app \notin ReadApps => r.app \notin ReadApps)
<1>1. d.app \in ServerApps /\ d.state \notin {"LISTEN", "SYN_RCVD", "SYN_SENT"}
  BY DEF Stage
<1>2. r.app \in {d.app, ToldApp(d.app)} \/ (d.app = "write" /\ r.app = "written")
  BY DEF Later
<1>3. r.app \in ServerApps /\ r.app # "accept" /\ (d.app \notin ReadApps => r.app \notin ReadApps)
  BY <1>1, <1>2 DEF ServerApps, Apps, ToldApp, ReadApps
<1>4. r.state \notin {"LISTEN", "SYN_RCVD", "SYN_SENT"}
  BY <1>1 DEF Later, Further, Opens
<1> QED BY <1>3, <1>4 DEF Stage

LEMMA ServedElse ==
  ASSUME NEW d, NEW r, NEW T, Stage(d), Later(d, r), Same(d, r, T), T \cap {"got", "eof"} = {},
         d.app \notin ReadApps \cup {"accept"}, NEW n, NEW f
  PROVE  Served(d, r, n, f)
<1>1. Stage(r) /\ r.app # "accept" /\ r.app \notin ReadApps
  BY StageLater
<1>2. r.got = d.got /\ r.eof = d.eof
  BY DEF Same, Fields, ConnFields
<1> QED BY <1>1, <1>2 DEF Served, Reader, Poised
\* A reader whose connection is over is told.
LEMMA ServedTold ==
  ASSUME NEW d, NEW r, NEW T, Stage(d), r.app \in ServerApps, r.app \notin ReadApps \cup {"accept"},
         r.state = "CLOSED", Same(d, r, T), T \cap {"got", "eof"} = {}, NEW n, NEW f
  PROVE  Served(d, r, n, f)
<1>1. r.got = d.got /\ r.eof = d.eof
  BY DEF Same, Fields, ConnFields
<1> QED BY <1>1 DEF Served, Reader, Poised, Stage

LEMMA ServedEnds ==
  ASSUME NEW d, Typed(d), Poised(d), NEW how \in Endings, NEW n, NEW f
  PROVE  /\ Served(d, Gone(ErrTcp(d), how), n, f) /\ Served(d, ErrTcp(Gone(d, how)), n, f)
         /\ d.app \notin ReadApps => Served(d, Gone(d, how), n, f)
         /\ d.app # "accept" /\ d.state # "TIME_WAIT" => Served(d, Abort(d), n, f)
<1> DEFINE g == Gone(d, how)
           y == Gone(ErrTcp(d), how)
           z == ErrTcp(g)
           a == Abort(d)
<1>1. /\ Same(d, g, EndedFields) /\ Same(d, y, EndedFields) /\ Same(d, z, EndedFields)
      /\ g.app = d.app /\ Later(d, g)
  BY LaterGone
<1>2. EndedFields \cap {"got", "eof"} = {}
  BY DEF EndedFields, PcbFields
<1>3. Typed(ErrTcp(d)) /\ ErrTcp(d).app = ToldApp(d.app) /\ Typed(g) /\ g.state = Freed(d)
  BY ErrTcpKeeps, GoneKeeps, GoneSame
<1>4. z.app = ToldApp(g.app) /\ Same(g, z, {"app", "recvmbox", "took"})
  BY <1>3, ErrTcpKeeps
<1>5. y.app = ToldApp(d.app) /\ y.state = Freed(ErrTcp(d))
  BY <1>3, LaterGone, GoneSame
<1>6. /\ Same(d, a, EndedFields) /\ a.state = Freed(d)
      /\ a.app = IF d.state = "TIME_WAIT" THEN d.app ELSE ToldApp(d.app)
  BY AbortKeeps
<1>7. CASE d.app # "accept"
  <2> HIDE DEF g, y, z, a
  <2>1. ToldApp(d.app) \in ServerApps /\ ToldApp(d.app) \notin ReadApps \cup {"accept"}
    BY <1>7 DEF Poised, Stage, ServerApps, Apps, ReadApps, ToldApp
  <2>2. Freed(d) = "CLOSED" /\ Freed(ErrTcp(d)) = "CLOSED"
    BY <1>3, <1>7, <2>1 DEF Freed
  <2>3. z.state = "CLOSED" /\ z.app = ToldApp(d.app)
    BY <1>1, <1>3, <1>4, <2>2 DEF Same, Fields, PcbFields
  <2>4. Served(d, z, n, f) /\ Served(d, y, n, f)
    BY <1>1, <1>2, <1>5, <2>1, <2>2, <2>3, ServedTold DEF Poised
  <2>5. ASSUME d.app \notin ReadApps PROVE Served(d, g, n, f)
    BY <1>1, <1>2, <1>7, <2>5, ServedElse DEF Poised
  <2>6. ASSUME d.state # "TIME_WAIT" PROVE Served(d, a, n, f)
    BY <1>2, <1>6, <2>1, <2>2, <2>6, ServedTold DEF Poised
  <2> QED BY <1>7, <2>4, <2>5, <2>6 DEF g, y, z, a
<1>8. CASE d.app = "accept"
  <2>1. y = g /\ z = g
    BY <1>1, <1>8 DEF ErrTcp
  <2>2. GoneAs(d, how, g)
    BY GoneKeeps
  <2> HIDE DEF g, y, z, a
  <2>3. /\ g.got = d.got /\ g.recvmbox = d.recvmbox /\ g.rcvopen = d.rcvopen /\ g.eof = d.eof
        /\ g.state = "LISTEN" /\ g.refused_data = <<>>
    <3>1. NoPcb.refused_data = <<>> /\ "refused_data" \in PcbFields \ {"state"}
      BY DEF NoPcb, PcbFields
    <3>2. g.state = "LISTEN" /\ g.refused_data = NoPcb.refused_data
      BY <1>8, <2>2, <3>1 DEF GoneAs
    <3>3. {"got", "recvmbox", "rcvopen", "eof"} \subseteq (HandlerFields \cup ConnFields) \ {"ended", "held"}
      BY DEF ConnFields
    <3> QED BY <2>2, <3>1, <3>2, <3>3 DEF GoneAs
  <2>4. g.app = "accept"
    BY <1>1, <1>8
  <2>5. Served(d, g, n, f)
    BY <1>8, <2>3, <2>4 DEF Served, Reader, Poised, Stage, Listening, ReadApps, ServerApps, Apps
  <2> QED BY <1>8, <2>1, <2>5 DEF g, y, z
<1> QED BY <1>7, <1>8

(* The end of tcp_input, for an application that reads.                     *)
OpenReady(d, n, f) ==
  /\ Typed(d) /\ Stage(d) /\ d.input = TRUE /\ d.app \in ReadApps /\ d.rcvopen /\ (d.eof => d.app = "took")
  /\ d.state \in {"ESTABLISHED", "CLOSE_WAIT"} /\ "CLOSED" \notin d.recv_flags
  /\ "GOT_FIN" \in d.recv_flags => d.state # "ESTABLISHED"
  /\ "RESET" \in d.recv_flags \/ Stream(d, d.recv_data, n, f)

LEMMA OpenConclude ==
  ASSUME NEW d, NEW n \in Int, NEW f, OpenReady(d, n, f)
  PROVE  Served(d, Conclude(d), n, f)
<1> DEFINE r == Conclude(d)
           g == GiveFin(GiveData(d))
           h == [g EXCEPT !.input = FALSE]
           o == Output(h)
<1>1. Typed(d) /\ Stage(d) /\ Poised(d) /\ d.app # "accept" /\ d.state # "TIME_WAIT" /\ d.state # "FAULT"
      /\ d.input = TRUE
  BY DEF OpenReady, Poised, ReadApps
<1>2. Sent(d) = d
  BY DEF OpenReady, Sent, ReadApps
<1>3. \/ "RESET" \in d.recv_flags /\ r = Gone(ErrTcp(d), "reset")
      \/ r = Abort(d)
      \/ "RESET" \notin d.recv_flags /\ r = o
  BY <1>1, <1>2 DEF Conclude, OpenReady
<1> HIDE DEF r, o
<1>4. CASE r = Gone(ErrTcp(d), "reset")
  <2>1. "reset" \in Endings
    BY DEF Endings
  <2> QED BY <1>1, <1>4, <2>1, ServedEnds DEF r
<1>5. CASE r = Abort(d)
  <2>1. "reset" \in Endings
    BY DEF Endings
  <2> QED BY <1>1, <1>5, <2>1, ServedEnds DEF r
<1>6. CASE "RESET" \notin d.recv_flags /\ r = o
  <2>1. PICK b : Flow(d, d.recv_data, b, n, f)
    BY <1>6 DEF OpenReady, Stream
  <2>2. /\ \E c : Flow(g, <<>>, c, n, f)
        /\ Same(d, g, RefusedFields)
    BY <1>1, <2>1, GiveFlow DEF OpenReady
  <2>3. Typed(g)
    BY <1>1, GiveWorks
  <2> HIDE DEF g
  <2>4. /\ g.app = d.app /\ g.state = d.state /\ g.rcvopen = d.rcvopen /\ g.eof = d.eof /\ g.got = d.got
        /\ g.recv_flags = d.recv_flags
    BY <2>2 DEF Same, RefusedFields, Fields, PcbFields, HandlerFields, ConnFields
  <2>5. Reader(g, n, f)
    <3>1. Stage(g) /\ g.app # "accept"
      BY <1>1, <2>4 DEF Stage
    <3>2. Reading(g, n, f)
      BY <2>2, <2>4 DEF Reading, Stream, OpenReady
    <3> QED BY <3>1, <3>2 DEF Reader, Poised
  <2>6. Served(d, g, n, f)
    BY <2>4, <2>5 DEF Served, OpenReady
  <2>7. Same(g, h, {"input"}) /\ Typed(h)
    <3>1. Same(g, h, {"input"}) /\ h.input = FALSE
      BY <2>3 DEF Same, Typed, Fields, HandlerFields
    <3> HIDE DEF h
    <3>2. IsTyped("input", h["input"])
      BY <3>1 DEF IsTyped
    <3> QED BY <2>3, <3>1, <3>2, OneFieldTyped
  <2> HIDE DEF h
  <2>8. Same(h, o, OutputFields)
    BY <2>7, OutputKeeps DEF o
  <2>9. {"input"} \cap ReaderFields = {} /\ OutputFields \cap ReaderFields = {}
    BY DEF ReaderFields, FlowFields, OutputFields
  <2>10. Served(d, h, n, f)
    BY <2>6, <2>7, <2>9, ServedFrame
  <2>11. Served(d, o, n, f)
    BY <2>8, <2>9, <2>10, ServedFrame
  <2> QED BY <1>6, <2>11 DEF r
<1> QED BY <1>3, <1>4, <1>5, <1>6
\* The same for one that has not accepted yet.
LEMMA ListenConclude ==
  ASSUME NEW d, Typed(d), d.input = TRUE, Poised(d), d.app = "accept", d.recv_data = <<>>,
         d.recv_flags \in {{}, {"RESET"}}, NEW n, NEW f
  PROVE  Served(d, Conclude(d), n, f)
<1> DEFINE r == Conclude(d)
           h == [d EXCEPT !.input = FALSE]
           o == Output(h)
<1>1. Sent(d) = d
  BY DEF Sent
<1>2. "CLOSED" \notin d.recv_flags /\ "GOT_FIN" \notin d.recv_flags /\ d.state # "FAULT"
  BY DEF Poised, Stage
<1>3. GiveFin(GiveData(d)) = d
  BY <1>2 DEF GiveFin, GiveData
<1>4. r = Gone(ErrTcp(d), "reset") \/ r = o
  BY <1>1, <1>2, <1>3 DEF Conclude
<1> HIDE DEF r, o
<1>5. CASE r = Gone(ErrTcp(d), "reset")
  <2>1. "reset" \in Endings
    BY DEF Endings
  <2> QED BY <1>5, <2>1, ServedEnds DEF r
<1>6. CASE r = o
  <2>1. Served(d, d, n, f)
    BY <1>2 DEF Served, Reader, ReadApps
  <2>2. Same(d, h, {"input"}) /\ Typed(h)
    <3>1. Same(d, h, {"input"}) /\ h.input = FALSE
      BY DEF Same, Typed, Fields, HandlerFields
    <3> HIDE DEF h
    <3>2. IsTyped("input", h["input"])
      BY <3>1 DEF IsTyped
    <3> QED BY <3>1, <3>2, OneFieldTyped
  <2> HIDE DEF h
  <2>3. Same(h, o, OutputFields)
    BY <2>2, OutputKeeps DEF o
  <2>4. {"input"} \cap ReaderFields = {} /\ OutputFields \cap ReaderFields = {}
    BY DEF ReaderFields, FlowFields, OutputFields
  <2>5. Served(d, h, n, f)
    BY <2>1, <2>2, <2>4, ServedFrame
  <2>6. Served(d, o, n, f)
    BY <2>3, <2>4, <2>5, ServedFrame
  <2> QED BY <1>6, <2>6 DEF r
<1> QED BY <1>4, <1>5, <1>6

(* tcp_process at the server, and tcp_input after it.                       *)
Rest == Fields \ {"got", "eof"}

LEMMA SameGot ==
  ASSUME NEW d, NEW r, NEW T, Same(d, r, T), T \cap {"got", "eof"} = {}
  PROVE  Same(d, r, Rest) /\ r.got = d.got /\ r.eof = d.eof
<1>1. r["got"] = d["got"] /\ r["eof"] = d["eof"]
  BY DEF Same, Fields, ConnFields
<1> QED BY <1>1 DEF Same, Rest

LEMMA RestTwice ==
  ASSUME NEW d, NEW r, NEW q, Same(d, r, Rest), Same(r, q, Rest)
  PROVE  Same(d, q, Rest)
  BY DEF Same, Rest

LEMMA ConcludeRest ==
  ASSUME NEW d, Typed(d), d.input = TRUE
  PROVE  Same(d, Conclude(d), Rest)
<1> DEFINE s == Acks(d)
           r == Conclude(d)
           how == "reset"
<1>1. Typed(s) /\ Same(d, s, SentFields) /\ s.input = TRUE
  BY LaterConclude
<1>2. Same(d, s, Rest)
  <2>1. SentFields \cap {"got", "eof"} = {}
    BY DEF SentFields, CloseFields, EndedFields, PcbFields
  <2> HIDE DEF s
  <2> QED BY <1>1, <2>1, SameGot
<1>3. \/ r = d \/ r = Gone(ErrTcp(d), how)
      \/ \E end \in Endings : r = Gone(s, end)
      \/ r = Abort(s)
      \/ r = Quits(s)
  BY ConcludeForms
<1>4. how \in Endings
  BY DEF Endings
<1> HIDE DEF s, r, how
<1>5. EndedFields \cap {"got", "eof"} = {} /\ QuitFields \cap {"got", "eof"} = {}
  BY DEF EndedFields, PcbFields, QuitFields, GivenFields, OutputFields
<1>6. CASE r = d
  BY <1>6 DEF Same, Typed, r
<1>7. CASE r = Gone(ErrTcp(d), how)
  BY <1>4, <1>5, <1>7, LaterGone, SameGot DEF r
<1>8. ASSUME NEW end \in Endings, r = Gone(s, end) PROVE Same(d, r, Rest)
  BY <1>1, <1>2, <1>5, <1>8, LaterGone, SameGot, RestTwice
<1>9. CASE r = Abort(s)
  BY <1>1, <1>2, <1>5, <1>9, AbortKeeps, SameGot, RestTwice DEF r
<1>10. CASE r = Quits(s)
  BY <1>1, <1>2, <1>5, <1>10, QuitsKeeps, SameGot, RestTwice DEF r
<1> QED BY <1>3, <1>6, <1>7, <1>8, <1>9, <1>10 DEF r

LEMMA PassiveFlow ==
  ASSUME NEW d, Typed(d), d.state \in {"ESTABLISHED", "CLOSE_WAIT"}, NEW p, NEW b, NEW n, NEW f,
         Flow(d, p, b, n, f)
  PROVE  /\ Flow(PassiveClose(d), p, b, n, f)
         /\ "GOT_FIN" \in PassiveClose(d).recv_flags => PassiveClose(d).state # "ESTABLISHED"
<1> DEFINE r == PassiveClose(d)
<1>1. CASE "GOT_FIN" \notin d.recv_flags
  BY <1>1 DEF PassiveClose
<1>2. CASE "GOT_FIN" \in d.recv_flags
  <2>1. Same(d, r, {"flags", "state"})
    BY PassiveCloseWorks
  <2>2. r.state = "CLOSE_WAIT"
    BY <1>2 DEF PassiveClose, Set, Typed, Fields, PcbFields
  <2> HIDE DEF r
  <2>3. /\ r.got = d.got /\ r.recvmbox = d.recvmbox /\ r.refused_data = d.refused_data
        /\ r.refused_fin = d.refused_fin /\ r.ooseq = d.ooseq /\ r.rcv_nxt = d.rcv_nxt
        /\ r.recv_flags = d.recv_flags
    BY <2>1 DEF Same, Fields, PcbFields, HandlerFields, ConnFields
  <2>4. ASSUME NEW e, Edge(d, e, n, f) PROVE Edge(r, e, n, f)
    BY <1>2, <2>2, <2>3, <2>4 DEF Edge
  <2>5. Flow(r, p, b, n, f)
    BY <2>3, <2>4 DEF Flow
  <2> QED BY <2>2, <2>5 DEF r
<1> QED BY <1>1, <1>2
\* What tcp_input gives to tcp_process.
Arrives(x, m, n, f) ==
  /\ Typed(x) /\ x.input = TRUE /\ x.recv_flags = {} /\ x.recv_data = <<>> /\ AppOk(x)
  /\ m \in OnWire(Good(n, f)) /\ (TcpLen(m) = 0 \/ x.refused_data = <<>>)

LEMMA ReadProcess ==
  ASSUME NEW x, NEW m, NEW n \in Int, NEW f, Arrives(x, m, n, f), Reader(x, n, f), x.app \in ReadApps
  PROVE  Served(x, Conclude(Process(x, m)), n, f)
<1> DEFINE P == Process(x, m)
           r == Receive(x, m)
<1>1. Typed(x) /\ AppOk(x) /\ m \in Messages /\ x.state \in {"ESTABLISHED", "CLOSE_WAIT"}
      /\ x.state # "SYN_RCVD" /\ x.state \in Active /\ x.recv_flags = {} /\ x.input = TRUE
  BY DEF Arrives, OnWire, AppOk, AppOpen, ReadApps, Active
<1>2. Typed(P) /\ P.input = TRUE /\ AppOk(P)
  BY <1>1, ProcessWorks DEF Processed
<1>3. Same(x, P, ProcessFields) /\ P.app = x.app
  BY <1>1, ProcessKeeps
<1>4. P \in {x, Resets(x), Now(x), PassiveClose(r)}
  BY <1>1 DEF Process, ProcessReset, Resets, Clear, Now
<1> HIDE DEF P
<1>5. P.rcvopen = x.rcvopen /\ P.got = x.got /\ P.eof = x.eof
  BY <1>3 DEF Same, ProcessFields, ReceiveFields, AckFields, OldAckFields, NewAckFields, DataFields,
     AcceptFields, PurgedFields, SynFields, Fields, PcbFields, ConnFields
<1>6. Stage(P)
  BY <1>2, <1>3 DEF Stage, Reader, Poised, AppOk, AppOpen, ReadApps
<1>7. Stream(x, x.recv_data, n, f)
  BY DEF Reader, Reading, Arrives
<1>8. /\ "GOT_FIN" \in P.recv_flags => P.state # "ESTABLISHED"
      /\ "RESET" \in P.recv_flags \/ Stream(P, P.recv_data, n, f)
  <2>1. CASE P = x
    BY <1>1, <1>7, <2>1
  <2>2. CASE P = Resets(x)
    <3>1. P.recv_flags = {"RESET"}
      BY <1>1, <2>2 DEF Resets, Clear, Typed, Fields, HandlerFields
    <3> QED BY <3>1
  <2>3. CASE P = Now(x)
    <3>1. {"ACK_NOW"} \in SUBSET Flags
      BY AckFlags
    <3>2. Same(x, P, {"flags"})
      BY <1>1, <2>3, <3>1, FlagsKeep DEF Now
    <3>3. {"flags"} \cap FlowFields = {}
      BY DEF FlowFields
    <3>4. P.recv_data = x.recv_data /\ P.recv_flags = {}
      BY <1>1, <3>2 DEF Same, Fields, HandlerFields
    <3>5. PICK b : Flow(x, x.recv_data, b, n, f)
      BY <1>7 DEF Stream
    <3>6. Flow(P, x.recv_data, b, n, f)
      BY <3>2, <3>3, <3>5, FlowFrame
    <3> QED BY <3>4, <3>6 DEF Stream
  <2>4. CASE P = PassiveClose(r)
    <3>1. PICK b : Flow(x, x.recv_data, b, n, f)
      BY <1>7 DEF Stream
    <3>2. Flow(r, r.recv_data, b, n, f)
      BY <1>1, <3>1, ReceiveFlow DEF Arrives
    <3>3. Typed(r) /\ r.state \in {"ESTABLISHED", "CLOSE_WAIT"}
      BY <1>1, ReceiveGoes
    <3> HIDE DEF r
    <3>4. Same(r, P, {"flags", "state"})
      BY <2>4, <3>3, PassiveCloseWorks
    <3>5. P.recv_data = r.recv_data
      BY <3>4 DEF Same, Fields, HandlerFields
    <3>6. Flow(P, r.recv_data, b, n, f) /\ ("GOT_FIN" \in P.recv_flags => P.state # "ESTABLISHED")
      BY <2>4, <3>2, <3>3, PassiveFlow
    <3> QED BY <3>5, <3>6 DEF Stream
  <2> QED BY <1>4, <2>1, <2>2, <2>3, <2>4
<1>9. OpenReady(P, n, f)
  <2>1. P.rcvopen /\ (P.eof => P.app = "took") /\ P.app \in ReadApps
    BY <1>3, <1>5 DEF Reader, Reading
  <2>2. P.state \in {"ESTABLISHED", "CLOSE_WAIT"} /\ "CLOSED" \notin P.recv_flags
    BY <1>2, <2>1 DEF AppOk, AppOpen, ReadApps
  <2> QED BY <1>2, <1>6, <1>8, <2>1, <2>2 DEF OpenReady
<1>10. Served(P, Conclude(P), n, f)
  BY <1>9, OpenConclude
<1> QED BY <1>5, <1>10, ServedTwice DEF P

LEMMA PoisedFrame ==
  ASSUME NEW d, NEW r, NEW T, Poised(d), Same(d, r, T), T \cap (ReaderFields \ {"recv_flags"}) = {}
  PROVE  Poised(r) /\ r.app = d.app /\ r.got = d.got /\ r.eof = d.eof /\ r.state = d.state
<1>1. ReaderFields \ {"recv_flags"} \subseteq Fields \ T
  BY DEF ReaderFields, FlowFields, Fields, PcbFields, HandlerFields, ConnFields
<1>2. \A x \in ReaderFields \ {"recv_flags"} : r[x] = d[x]
  BY <1>1 DEF Same
<1>3. /\ r.got = d.got /\ r.recvmbox = d.recvmbox /\ r.refused_data = d.refused_data
      /\ r.refused_fin = d.refused_fin /\ r.ooseq = d.ooseq /\ r.rcv_nxt = d.rcv_nxt
      /\ r.state = d.state /\ r.app = d.app /\ r.rcvopen = d.rcvopen /\ r.eof = d.eof
  BY <1>2 DEF ReaderFields, FlowFields
<1> QED BY <1>3 DEF Poised, Stage, Listening
\* One that has not accepted yet, and does not accept now.
LEMMA StayProcess ==
  ASSUME NEW x, NEW m, NEW n \in Int, NEW f, Arrives(x, m, n, f), Reader(x, n, f), x.app = "accept",
         NEW P, Typed(P), NEW T, Same(x, P, T), T \cap (ReaderFields \ {"recv_flags"}) = {},
         T \cap {"input", "recv_data"} = {}, P.recv_flags \in {{}, {"RESET"}}
  PROVE  Served(x, Conclude(P), n, f)
<1>1. Poised(P) /\ P.app = "accept" /\ P.got = x.got /\ P.eof = x.eof
  BY PoisedFrame DEF Reader
<1>2. P.input = TRUE /\ P.recv_data = <<>>
  BY DEF Same, Fields, HandlerFields, Arrives
<1>3. Served(P, Conclude(P), n, f)
  BY <1>1, <1>2, ListenConclude
<1> QED BY <1>1, <1>3, ServedTwice
\* One that accepts.
Joined(x) == [x EXCEPT !.state = "ESTABLISHED", !.app = "open"]
SynCounted(r) == [r EXCEPT !.acked = Max({0, @ - 1}), !.cwnd = SndBuf]

LEMMA OpenProcess ==
  ASSUME NEW x, NEW m, NEW n \in Int, 2 <= n, NEW f, Arrives(x, m, n, f), Reader(x, n, f),
         x.state = "SYN_RCVD"
  PROVE  Served(x, Conclude(PassiveClose(SynCounted(Receive(Joined(x), m)))), n, f)
<1> DEFINE y == Joined(x)
           r == Receive(y, m)
           q == SynCounted(r)
           P == PassiveClose(q)
<1>1. Typed(x) /\ m \in Messages /\ x.app = "accept" /\ Listening(x) /\ x.input = TRUE /\ x.recv_flags = {}
  BY DEF Arrives, OnWire, Reader, Poised, Stage
<1>2. Same(x, y, {"state", "app"}) /\ y.state = "ESTABLISHED" /\ y.app = "open"
  BY <1>1 DEF Same, Typed, Fields, PcbFields, HandlerFields, ConnFields, Joined
<1> HIDE DEF y
<1>3. Typed(y)
  <2>1. "ESTABLISHED" \in States /\ "open" \in Apps
    BY DEF States, Active, Apps
  <2>2. \A z \in {"state", "app"} : IsTyped(z, y[z])
    BY <1>2, <2>1 DEF IsTyped
  <2> QED BY <1>1, <1>2, <2>2, Retyped
<1>4. /\ y.got = <<>> /\ y.recvmbox = <<>> /\ y.refused_data = <<>> /\ y.rcvopen /\ ~y.eof /\ y.rcv_nxt = 2
      /\ y.ooseq = <<>> /\ ~y.refused_fin /\ y.recv_data = <<>> /\ y.recv_flags = {} /\ y.input = TRUE
  BY <1>1, <1>2 DEF Same, Listening, Fields, PcbFields, HandlerFields, ConnFields, Arrives
<1>5. Flow(y, y.recv_data, 2, n, f)
  <2>1. Boxes(<<>>, 2, 2, n, f)
    BY BoxesEmpty
  <2>2. From(<<>>, 2) /\ Pending(<<>>, n, f)
    BY DEF From, Pending
  <2>3. Len(<<>>) = 0
    OBVIOUS
  <2>4. Edge(y, 2, n, f)
    BY <1>2, <1>4 DEF Edge
  <2> QED BY <1>4, <2>1, <2>2, <2>3, <2>4 DEF Flow
<1>6. Flow(r, r.recv_data, 2, n, f)
  BY <1>2, <1>3, <1>4, <1>5, ReceiveFlow DEF Arrives
<1>7. Typed(r) /\ r.state \in {"ESTABLISHED", "CLOSE_WAIT"} /\ "CLOSED" \notin r.recv_flags
      /\ Same(y, r, ReceiveFields)
  BY <1>1, <1>2, <1>3, <1>4, ReceiveGoes, ReceiveKeeps
<1> HIDE DEF r
<1>8. r.app = "open" /\ r.rcvopen = y.rcvopen /\ r.got = y.got /\ r.eof = y.eof /\ r.input = TRUE
  BY <1>2, <1>4, <1>7 DEF Same, ReceiveFields, AckFields, OldAckFields, NewAckFields, DataFields,
     AcceptFields, Fields, PcbFields, HandlerFields, ConnFields
<1>9. Same(r, q, {"acked", "cwnd"}) /\ Typed(q)
  <2>1. /\ Same(r, q, {"acked", "cwnd"}) /\ q.acked = Max({0, r.acked - 1}) /\ q.cwnd = SndBuf
    BY <1>7 DEF Same, Typed, Fields, PcbFields, SynCounted
  <2> HIDE DEF q
  <2>2. r.acked \in Int
    BY <1>7 DEF Typed, PcbTyped
  <2>3. q.acked \in Int /\ q.cwnd \in Int
    BY <2>1, <2>2, MaxOf, Constants
  <2>4. \A z \in {"acked", "cwnd"} : IsTyped(z, q[z])
    BY <2>3 DEF IsTyped
  <2> QED BY <1>7, <2>1, <2>4, Retyped
<1> HIDE DEF q
<1>10. Flow(q, r.recv_data, 2, n, f) /\ q.recv_data = r.recv_data /\ q.state = r.state
       /\ q.app = r.app /\ q.rcvopen = r.rcvopen /\ q.got = r.got /\ q.eof = r.eof
       /\ q.recv_flags = r.recv_flags /\ q.input = r.input
  <2>1. {"acked", "cwnd"} \cap FlowFields = {}
    BY DEF FlowFields
  <2> QED BY <1>6, <1>9, <2>1, FlowFrame DEF Same, Fields, PcbFields, HandlerFields, ConnFields
<1>11. Same(q, P, {"flags", "state"}) /\ Typed(P) /\ P.state \in {"ESTABLISHED", "CLOSE_WAIT"}
  BY <1>7, <1>9, <1>10, PassiveCloseWorks
<1>12. Flow(P, r.recv_data, 2, n, f) /\ ("GOT_FIN" \in P.recv_flags => P.state # "ESTABLISHED")
  BY <1>7, <1>9, <1>10, PassiveFlow
<1> HIDE DEF P
<1>13. P.recv_data = q.recv_data /\ P.app = q.app /\ P.rcvopen = q.rcvopen /\ P.got = q.got
       /\ P.eof = q.eof /\ P.recv_flags = q.recv_flags /\ P.input = q.input
  BY <1>11 DEF Same, Fields, HandlerFields, ConnFields
<1>14. Stream(P, P.recv_data, n, f)
  BY <1>10, <1>13, <1>12 DEF Stream
<1>15. P.app \in ReadApps /\ Stage(P) /\ P.rcvopen /\ ~P.eof /\ P.input = TRUE /\ "CLOSED" \notin P.recv_flags
  <2>1. P.app = "open" /\ P.rcvopen /\ ~P.eof /\ P.input = TRUE /\ "CLOSED" \notin P.recv_flags
    BY <1>4, <1>7, <1>8, <1>10, <1>13
  <2> QED BY <1>11, <2>1 DEF ReadApps, Stage, ServerApps, Apps
<1>16. OpenReady(P, n, f)
  BY <1>11, <1>12, <1>14, <1>15 DEF OpenReady
<1>17. P.got = x.got /\ P.eof = x.eof
  <2>1. y.got = x.got /\ y.eof = x.eof
    BY <1>2 DEF Same, Fields, ConnFields
  <2> QED BY <1>8, <1>10, <1>13, <2>1
<1> QED BY <1>16, <1>17, OpenConclude, ServedTwice DEF P, q, r, y

LEMMA ListenProcess ==
  ASSUME NEW x, NEW m, NEW n \in Int, 2 <= n, NEW f, Arrives(x, m, n, f), Reader(x, n, f),
         x.app = "accept", x.state = "SYN_RCVD"
  PROVE  Served(x, Conclude(Process(x, m)), n, f)
<1> DEFINE P == Process(x, m)
           q == SynCounted(Receive(Joined(x), m))
<1>1. P \in {x, Resets(x), Emit(x, ResetFor(m)), Rexmit(x), PassiveClose(q)}
  BY DEF Process, ProcessReset, ProcessSynRcvd, Resets, Clear, Joined, SynCounted
<1>2. Typed(x) /\ m \in Messages /\ x.recv_flags = {}
  BY DEF Arrives, OnWire
<1> DEFINE R == ReaderFields \ {"recv_flags"}
<1> HIDE DEF P, q
<1>3. CASE P = x
  <2>1. Same(x, P, {}) /\ {} \cap R = {} /\ {} \cap {"input", "recv_data"} = {}
    BY <1>2, <1>3 DEF Same, Typed
  <2> QED BY <1>2, <1>3, <2>1, StayProcess DEF P
<1>4. CASE P = Resets(x)
  <2>1. {"ACK_DELAY"} \in SUBSET Flags
    BY DEF Flags
  <2>2. Typed(Clear(x, {"ACK_DELAY"})) /\ Same(x, Clear(x, {"ACK_DELAY"}), {"flags"})
    BY <1>2, <2>1, FlagsKeep
  <2> DEFINE c == Clear(x, {"ACK_DELAY"})
  <2>3. c.recv_flags = {}
    BY <1>2, <2>2 DEF Same, Fields, HandlerFields
  <2>4. P = [c EXCEPT !.recv_flags = c.recv_flags \cup {"RESET"}]
    BY <1>4 DEF Resets
  <2> HIDE DEF c
  <2>5. Same(c, P, {"recv_flags"}) /\ P.recv_flags = {"RESET"}
    BY <2>2, <2>3, <2>4 DEF Same, Typed, Fields, HandlerFields, c
  <2>6. Typed(P)
    <3>1. IsTyped("recv_flags", P["recv_flags"])
      BY <2>5 DEF IsTyped, RecvFlags
    <3> QED BY <2>2, <2>5, <3>1, OneFieldTyped DEF c
  <2>7. Same(x, P, {"flags"} \cup {"recv_flags"})
    BY <2>2, <2>5, SameTwice DEF c
  <2>8. /\ ({"flags"} \cup {"recv_flags"}) \cap R = {}
        /\ ({"flags"} \cup {"recv_flags"}) \cap {"input", "recv_data"} = {}
    BY DEF ReaderFields, FlowFields
  <2>9. P.recv_flags \in {{}, {"RESET"}}
    BY <2>5
  <2> HIDE DEF R
  <2> QED BY <2>6, <2>7, <2>8, <2>9, StayProcess DEF P, R
<1>5. CASE P = Emit(x, ResetFor(m))
  <2>1. ResetFor(m) \in Messages
    BY <1>2, MessageFacts, ResetType DEF ResetFor
  <2>2. Typed(P) /\ Same(x, P, {"out"})
    BY <1>2, <1>5, <2>1, EmitKeeps
  <2>3. {"out"} \cap R = {} /\ {"out"} \cap {"input", "recv_data"} = {}
    BY DEF ReaderFields, FlowFields
  <2>4. P.recv_flags = {}
    BY <1>2, <2>2 DEF Same, Fields, HandlerFields
  <2> QED BY <2>2, <2>3, <2>4, StayProcess DEF P
<1>6. CASE P = Rexmit(x)
  <2> DEFINE T == {"unsent", "unacked", "nrtx"}
  <2>1. Typed(P) /\ Same(x, P, T)
    BY <1>2, <1>6, RexmitKeeps
  <2>2. T \cap R = {} /\ T \cap {"input", "recv_data"} = {}
    BY DEF ReaderFields, FlowFields
  <2>3. P.recv_flags = {}
    BY <1>2, <2>1 DEF Same, Fields, HandlerFields
  <2> HIDE DEF T
  <2> QED BY <2>1, <2>2, <2>3, StayProcess DEF P
<1>7. CASE P = PassiveClose(q)
  BY <1>7, OpenProcess DEF P, q
<1> QED BY <1>1, <1>3, <1>4, <1>5, <1>6, <1>7
\* An application that does not read.
LEMMA ElseProcess ==
  ASSUME NEW x, NEW m, NEW n, NEW f, NEW k, NEW g, Arrives(x, m, k, g), Stage(x), x.state \in Active,
         x.app \notin ReadApps \cup {"accept"}
  PROVE  Served(x, Conclude(Process(x, m)), n, f)
<1> DEFINE P == Process(x, m)
           r == Conclude(P)
<1>1. Typed(x) /\ AppOk(x) /\ m \in Messages /\ x.state \notin {"SYN_RCVD", "SYN_SENT"}
      /\ x.recv_flags = {} /\ x.input = TRUE /\ x.app # "connect"
  BY DEF Arrives, OnWire, Stage, ServerApps
<1>2. Typed(P) /\ P.input = TRUE
  BY <1>1, ProcessWorks DEF Processed
<1>3. Same(x, P, ProcessFields) /\ P.app = x.app /\ Moved(x.state, P.state)
  BY <1>1, ProcessKeeps
<1> HIDE DEF P
<1>4. Later(x, P)
  BY <1>1, <1>3 DEF Later, Moved, Further
<1>5. Later(P, r) /\ Same(P, r, Rest)
  BY <1>2, LaterConclude, ConcludeRest
<1> HIDE DEF r
<1>6. ProcessFields \cap {"got", "eof"} = {} /\ Rest \cap {"got", "eof"} = {}
  BY DEF ProcessFields, ReceiveFields, AckFields, OldAckFields, NewAckFields, DataFields,
     AcceptFields, PurgedFields, SynFields, Rest
<1>7. Same(x, r, Rest) /\ Later(x, r)
  BY <1>3, <1>4, <1>5, <1>6, SameGot, RestTwice, LaterTwice
<1>8. Served(x, r, n, f)
  BY <1>6, <1>7, ServedElse
<1> QED BY <1>8 DEF r, P

(* tcp_input at the server.                                                 *)
LEMMA ReaderRefused ==
  ASSUME NEW d, Typed(d), d.recv_flags = {}, NEW n \in Int, NEW f, Reader(d, n, f)
  PROVE  /\ Served(d, ProcessRefused(d), n, f)
         /\ ProcessRefused(d).app = d.app /\ ProcessRefused(d).state = d.state
         /\ ProcessRefused(d).recv_flags = d.recv_flags /\ ProcessRefused(d).recv_data = d.recv_data
<1> DEFINE r == ProcessRefused(d)
           T == RecvedFields \cup {"recvmbox", "refused_data", "refused_fin"}
<1>1. Same(d, r, T) /\ Typed(r)
  BY ProcessRefusedKeeps
<1>2. T \cap {"got", "eof"} = {} /\ T \cap {"app", "state"} = {}
      /\ {"recv_flags", "recv_data", "rcvopen", "ooseq"} \subseteq Fields \ T
  BY DEF RecvedFields, OutputFields, Fields, PcbFields, HandlerFields, ConnFields
<1>3. d.app = "accept" => r = d
  BY DEF Reader, Poised, Listening, ProcessRefused
<1>4. d.app \in ReadApps => /\ \E b : Flow(r, <<>>, b, n, f)
                            /\ Same(d, r, RefusedFields)
  BY ProcessRefusedFlow DEF Reader, Reading, Stream
<1> HIDE DEF r, T
<1>5. Later(d, r) /\ r.app = d.app /\ r.state = d.state /\ r.got = d.got /\ r.eof = d.eof
  BY <1>1, <1>2, LaterFrame, SameGot
<1>6. r.recv_flags = d.recv_flags /\ r.recv_data = d.recv_data /\ r.rcvopen = d.rcvopen
  BY <1>1, <1>2 DEF Same
<1>7. Served(d, r, n, f)
  <2>1. CASE d.app = "accept"
    BY <1>3, <2>1, ServedSelf
  <2>2. CASE d.app \in ReadApps
    <3>1. Stage(r) /\ r.app # "accept"
      BY <1>5, <2>2 DEF Reader, Poised, Stage, ReadApps
    <3>2. Reading(r, n, f)
      BY <1>4, <1>5, <1>6, <2>2 DEF Reader, Reading, Stream
    <3> QED BY <1>5, <1>6, <3>1, <3>2 DEF Served, Reader, Poised
  <2>3. CASE d.app \notin ReadApps \cup {"accept"}
    BY <1>1, <1>2, <1>5, <2>3, ServedElse DEF Reader, Poised
  <2> QED BY <2>1, <2>2, <2>3
<1> QED BY <1>5, <1>6, <1>7 DEF r
\* Something sent, or other flags.
LEMMA ServedEmit ==
  ASSUME NEW d, NEW m \in Messages, Typed(d), d.recv_flags = {}, NEW n, NEW f, Reader(d, n, f)
  PROVE  /\ Served(d, d, n, f) /\ Served(d, Emit(d, ResetFor(m)), n, f)
         /\ Served(d, Output(Set(d, {"ACK_NOW"})), n, f)
<1> DEFINE r == Emit(d, ResetFor(m))
           s == Set(d, {"ACK_NOW"})
           o == Output(s)
<1>1. ResetFor(m) \in Messages
  BY MessageFacts, ResetType DEF ResetFor
<1>2. Same(d, r, {"out"})
  BY <1>1, EmitKeeps
<1> HIDE DEF r
<1>3. Typed(s) /\ Same(d, s, {"flags"})
  BY AckFlags, FlagsKeep
<1> HIDE DEF s
<1>4. Same(s, o, OutputFields)
  BY <1>3, OutputKeeps
<1> HIDE DEF o
<1>5. {"out"} \cap ReaderFields = {} /\ {"flags"} \cap ReaderFields = {} /\ OutputFields \cap ReaderFields = {}
  BY DEF ReaderFields, FlowFields, OutputFields
<1>6. Served(d, d, n, f)
  BY ServedSelf
<1>7. Served(d, r, n, f) /\ Served(d, s, n, f)
  BY <1>2, <1>3, <1>5, <1>6, ServedFrame
<1>8. Served(d, o, n, f)
  BY <1>4, <1>5, <1>7, ServedFrame
<1> QED BY <1>6, <1>7, <1>8 DEF r, o, s
\* tcp_listen_input: only the client's SYN makes a pcb, and the stream begins behind it.
NewPcb(m) ==
  [NoPcb EXCEPT !.state = "SYN_RCVD", !.rcv_nxt = m.seq + 1, !.rcv_ann_right_edge = m.seq + 1,
                !.snd_wl1 = m.seq - 1, !.snd_wnd = m.wnd, !.snd_wl2 = 1, !.snd_nxt = 1,
                !.lastack = 1, !.snd_lbb = 1]

LEMMA NewPcbFacts ==
  ASSUME NEW m \in Messages
  PROVE  /\ DOMAIN NewPcb(m) = PcbFields /\ PcbTyped(NewPcb(m)) /\ NewPcb(m).state = "SYN_RCVD"
         /\ NewPcb(m).rcv_nxt = m.seq + 1 /\ NewPcb(m).ooseq = <<>> /\ NewPcb(m).refused_data = <<>>
         /\ NewPcb(m).refused_fin = FALSE /\ NewPcb(m).snd_buf = SndBuf
<1>1. m.seq \in Int /\ m.wnd \in Int
  BY MessageFacts
<1> DEFINE F == {"state", "rcv_nxt", "rcv_ann_right_edge", "snd_wl1", "snd_wnd", "snd_wl2",
                 "snd_nxt", "lastack", "snd_lbb"}
           N == NoPcb
           f == NewPcb(m)
<1>2. DOMAIN N = PcbFields /\ PcbTyped(N)
  BY NoPcbTyped
<1>3. N.ooseq = <<>> /\ N.refused_data = <<>> /\ N.refused_fin = FALSE /\ N.snd_buf = SndBuf
  BY DEF NoPcb
<1>4. f = [N EXCEPT !.state = "SYN_RCVD", !.rcv_nxt = m.seq + 1, !.rcv_ann_right_edge = m.seq + 1,
                    !.snd_wl1 = m.seq - 1, !.snd_wnd = m.wnd, !.snd_wl2 = 1, !.snd_nxt = 1,
                    !.lastack = 1, !.snd_lbb = 1]
  BY DEF NewPcb
<1> HIDE DEF N, f
<1>5. DOMAIN f = PcbFields /\ \A x \in PcbFields \ F : f[x] = N[x]
  BY <1>2, <1>4 DEF PcbFields
<1>6. /\ f.state = "SYN_RCVD" /\ f.rcv_nxt = m.seq + 1 /\ f.rcv_ann_right_edge = m.seq + 1
      /\ f.snd_wl1 = m.seq - 1 /\ f.snd_wnd = m.wnd /\ f.snd_wl2 = 1 /\ f.snd_nxt = 1
      /\ f.lastack = 1 /\ f.snd_lbb = 1
  BY <1>2, <1>4 DEF PcbFields
<1>7. PcbTyped(f)
  <2>1. /\ f.state \in States /\ f.rcv_nxt \in Int /\ f.rcv_ann_right_edge \in Int
        /\ f.snd_wl1 \in Int /\ f.snd_wnd \in Int /\ f.snd_wl2 \in Int /\ f.snd_nxt \in Int
        /\ f.lastack \in Int /\ f.snd_lbb \in Int
    BY <1>1, <1>6 DEF States, Active
  <2> QED BY <1>2, <1>5, <2>1 DEF PcbTyped, PcbFields
<1>8. f.ooseq = <<>> /\ f.refused_data = <<>> /\ f.refused_fin = FALSE /\ f.snd_buf = SndBuf
  BY <1>3, <1>5 DEF PcbFields
<1> QED BY <1>5, <1>6, <1>7, <1>8 DEF f

LEMMA ReaderListen ==
  ASSUME NEW d, Typed(d), d.recv_flags = {}, NEW n \in Int, NEW f, Reader(d, n, f), d.state = "LISTEN",
         NEW m \in OnWire(Good(n, f))
  PROVE  Served(d, ListenInput(d, m), n, f)
<1> DEFINE p == NewPcb(m)
           w == With(d, p)
           b == EnqueueFlags(w, TRUE, FALSE)
           r == Output(b)
           B == {"flags", "unsent", "snd_lbb", "snd_buf"}
<1>1. m \in Messages /\ d.app = "accept"
  BY DEF OnWire, Reader, Poised, Stage
<1>2. \/ ListenInput(d, m) \in {Emit(d, ResetFor(m)), d}
      \/ m.syn /\ ListenInput(d, m) = r
  BY DEF ListenInput, NewPcb
<1>3. CASE ListenInput(d, m) \in {Emit(d, ResetFor(m)), d}
  BY <1>1, <1>3, ServedEmit
<1>4. CASE m.syn /\ ListenInput(d, m) = r
  <2>1. m.seq = 1
    BY <1>1, <1>4, MessageFacts DEF OnWire, Bare, Good, AsSeg, Segment
  <2>2. /\ DOMAIN p = PcbFields /\ PcbTyped(p) /\ p.state = "SYN_RCVD" /\ p.rcv_nxt = m.seq + 1
        /\ p.ooseq = <<>> /\ p.refused_data = <<>> /\ p.refused_fin = FALSE /\ p.snd_buf = SndBuf
    BY <1>1, NewPcbFacts
  <2> HIDE DEF p
  <2>3. /\ Typed(w) /\ \A x \in PcbFields : w[x] = p[x]
        /\ \A x \in HandlerFields \cup ConnFields : w[x] = d[x]
    BY <2>2, WithTyped
  <2> HIDE DEF w
  <2>4. /\ w.state = "SYN_RCVD" /\ w.rcv_nxt = 2 /\ w.ooseq = <<>> /\ w.refused_data = <<>>
        /\ w.refused_fin = FALSE /\ w.snd_buf = SndBuf
    <3>1. w.rcv_nxt = m.seq + 1
      BY <2>2, <2>3 DEF PcbFields
    <3>2. w.rcv_nxt = 2
      BY <2>1, <3>1
    <3> QED BY <2>2, <2>3, <3>2 DEF PcbFields
  <2>5. /\ w.app = d.app /\ w.got = d.got /\ w.recvmbox = d.recvmbox /\ w.rcvopen = d.rcvopen
        /\ w.eof = d.eof /\ w.recv_flags = d.recv_flags
    BY <2>3 DEF HandlerFields, ConnFields
  <2>6. Served(d, w, n, f)
    <3>1. Listening(d)
      BY <1>1 DEF Reader, Poised
    <3>2. Listening(w)
      BY <2>4, <2>5, <3>1 DEF Listening
    <3>3. Stage(w)
      BY <1>1, <2>4, <2>5 DEF Stage, ServerApps, Apps
    <3> QED BY <1>1, <2>5, <3>2, <3>3 DEF Served, Reader, Poised, ReadApps
  <2>7. Typed(b) /\ Same(w, b, B)
    <3>1. w.snd_buf > 0
      BY <2>4, Constants DEF SndBuf
    <3>2. TRUE \in BOOLEAN /\ FALSE \in BOOLEAN
      OBVIOUS
    <3> QED BY <2>3, <3>1, <3>2, EnqueueKeeps
  <2> HIDE DEF b, B
  <2>8. Same(b, r, OutputFields)
    BY <2>7, OutputKeeps
  <2> HIDE DEF r
  <2>9. B \cap ReaderFields = {} /\ OutputFields \cap ReaderFields = {}
    BY DEF B, ReaderFields, FlowFields, OutputFields
  <2>10. Served(d, b, n, f)
    BY <2>6, <2>7, <2>9, ServedFrame
  <2>11. Served(d, r, n, f)
    BY <2>8, <2>9, <2>10, ServedFrame
  <2> QED BY <1>4, <2>11
<1> QED BY <1>2, <1>3, <1>4

LEMMA ReaderInput ==
  ASSUME NEW d, HostOk(d), d.recv_data = <<>>, d.state # "FAULT", NEW n \in Int, 2 <= n, NEW f,
         Reader(d, n, f), NEW m \in OnWire(Good(n, f))
  PROVE  Served(d, Input(d, m), n, f)
<1> DEFINE r == ProcessRefused(d)
           x == [r EXCEPT !.input = TRUE]
           P == Conclude(Process(x, m))
           I == Input(d, m)
<1>1. Typed(d) /\ m \in Messages /\ d.recv_flags = {} /\ Open(d)
  BY DEF HostOk, OnWire
<1>2. \/ I \in {d, Emit(d, ResetFor(m)), Output(Set(d, {"ACK_NOW"}))}
      \/ d.state = "LISTEN" /\ I = ListenInput(d, m)
      \/ I = r
      \/ /\ d.state \notin {"CLOSED", "LISTEN", "TIME_WAIT"} /\ I = P
         /\ d.state \in Active => (r.refused_data = <<>> \/ ~(TcpLen(m) > 0))
  BY DEF Input, TimeWaitInput
<1>3. CASE I \in {d, Emit(d, ResetFor(m)), Output(Set(d, {"ACK_NOW"}))}
  BY <1>1, <1>3, ServedEmit
<1>4. CASE d.state = "LISTEN" /\ I = ListenInput(d, m)
  BY <1>1, <1>4, ReaderListen
<1>5. Served(d, r, n, f) /\ r.app = d.app /\ r.state = d.state /\ r.recv_flags = {} /\ r.recv_data = <<>>
  BY <1>1, ReaderRefused
<1>6. Typed(r)
  BY <1>1, ProcessRefusedKeeps
<1>7. CASE /\ d.state \notin {"CLOSED", "LISTEN", "TIME_WAIT"} /\ I = P
           /\ d.state \in Active => (r.refused_data = <<>> \/ ~(TcpLen(m) > 0))
  <2>1. d.state \in Active
    BY <1>1, <1>7 DEF Typed, PcbTyped, States
  <2> HIDE DEF r
  <2>2. Same(r, x, {"input"}) /\ x.input = TRUE
    BY <1>6 DEF Same, Typed, Fields, HandlerFields
  <2> HIDE DEF x
  <2>3. Typed(x)
    <3>1. IsTyped("input", x["input"])
      BY <2>2 DEF IsTyped
    <3> QED BY <1>6, <2>2, <3>1, OneFieldTyped
  <2>4. /\ x.app = r.app /\ x.state = r.state /\ x.recv_flags = r.recv_flags /\ x.recv_data = r.recv_data
        /\ x.refused_data = r.refused_data /\ x.got = r.got /\ x.eof = r.eof
    BY <2>2 DEF Same, Fields, PcbFields, HandlerFields, ConnFields
  <2>5. AppOk(x)
    BY <1>1, <1>5, <2>4 DEF Open, AppOk
  <2>6. TcpLen(m) \in Nat
    BY <1>1, MessageFacts
  <2>7. Arrives(x, m, n, f)
    BY <1>5, <1>7, <2>1, <2>2, <2>3, <2>4, <2>5, <2>6 DEF Arrives
  <2>8. {"input"} \cap ReaderFields = {}
    BY DEF ReaderFields, FlowFields
  <2>9. Served(d, x, n, f)
    BY <1>5, <2>2, <2>8, ServedFrame
  <2>10. Reader(x, n, f) /\ x.got = d.got /\ x.eof = d.eof
    BY <2>9 DEF Served
  <2>11. Served(x, P, n, f)
    <3>1. CASE x.app \in ReadApps
      BY <2>7, <2>10, <3>1, ReadProcess
    <3>2. CASE x.app = "accept"
      <4>1. x.state = "SYN_RCVD"
        BY <1>5, <1>7, <2>4, <2>10, <3>2 DEF Reader, Poised, Stage
      <4> QED BY <2>7, <2>10, <3>2, <4>1, ListenProcess
    <3>3. CASE x.app \notin ReadApps \cup {"accept"}
      <4>1. Stage(x) /\ x.state \in Active
        BY <1>5, <2>1, <2>4, <2>10 DEF Reader, Poised
      <4> QED BY <2>7, <3>3, <4>1, ElseProcess
    <3> QED BY <3>1, <3>2, <3>3
  <2>12. Served(d, P, n, f)
    BY <2>10, <2>11, ServedTwice
  <2> QED BY <1>7, <2>12
<1> QED BY <1>2, <1>3, <1>4, <1>5, <1>7

(* The other handlers of the server.                                        *)
LEMMA ServedAway ==
  ASSUME NEW d, NEW r, NEW T, Same(d, r, T), T \cap {"got", "eof"} = {},
         r.app \in ServerApps, r.app \notin ReadApps \cup {"accept"},
         r.state \notin {"LISTEN", "SYN_RCVD", "SYN_SENT"}, NEW n, NEW f
  PROVE  Served(d, r, n, f)
<1>1. r.got = d.got /\ r.eof = d.eof
  BY SameGot
<1> QED BY <1>1 DEF Served, Reader, Poised, Stage

LEMMA ReaderFrame ==
  ASSUME NEW d, d.recv_flags = {}, NEW n, NEW f, Reader(d, n, f), NEW r, NEW T, Same(d, r, T),
         T \cap ReaderFields = {}
  PROVE  Served(d, r, n, f) /\ r.recv_flags = {}
<1>1. r.recv_flags = d.recv_flags
  <2>1. "recv_flags" \in Fields \ T
    BY DEF Fields, HandlerFields, ReaderFields, FlowFields
  <2> QED BY <2>1 DEF Same
<1> QED BY <1>1, ServedSelf, ServedFrame

LEMMA ReaderWriting ==
  ASSUME NEW d, HostOk(d), NEW n, NEW f, Reader(d, n, f), d.app = "shut"
  PROVE  Served(d, Writing(d), n, f)
<1> DEFINE a == [d EXCEPT !.app = "write"]
           w == Written(a)
           r == Output(w)
           T == {"unsent", "snd_lbb", "snd_buf", "left", "app"}
<1>1. Typed(d) /\ d.state \in {"ESTABLISHED", "CLOSE_WAIT"}
  BY DEF HostOk, Open, AppOpen
<1>2. Same(d, a, {"app"}) /\ a.app = "write"
  BY <1>1 DEF Same, Typed, Fields, ConnFields
<1>3. Writing(d) = WriteMore(a)
  BY DEF Writing
<1> HIDE DEF a
<1>4. Typed(a)
  <2>1. IsTyped("app", a["app"])
    BY <1>2 DEF IsTyped, Apps
  <2> QED BY <1>1, <1>2, <2>1, OneFieldTyped
<1>5. Typed(w) /\ Same(a, w, T) /\ w.app \in {"write", "written"} /\ WriteMore(a) = r
  BY <1>4, WrittenKeeps
<1> HIDE DEF w
<1>6. Same(w, r, OutputFields)
  BY <1>5, OutputKeeps
<1> HIDE DEF r
<1>7. Same(d, r, ({"app"} \cup T) \cup OutputFields)
  BY <1>2, <1>5, <1>6, SameTwice
<1>8. (({"app"} \cup T) \cup OutputFields) \cap {"got", "eof"} = {}
  BY DEF OutputFields
<1>9. r.state = d.state /\ r.app = w.app
  <2>1. r.state = w.state /\ r.app = w.app
    BY <1>6 DEF Same, OutputFields, Fields, PcbFields, ConnFields
  <2>2. w.state = a.state /\ a.state = d.state
    BY <1>2, <1>5 DEF Same, Fields, PcbFields
  <2> QED BY <2>1, <2>2
<1>10. r.app \in ServerApps /\ r.app \notin ReadApps \cup {"accept"}
  BY <1>5, <1>9 DEF ServerApps, Apps, ReadApps
<1>11. r.state \notin {"LISTEN", "SYN_RCVD", "SYN_SENT"}
  BY <1>1, <1>9
<1> HIDE DEF T
<1> QED BY <1>3, <1>5, <1>7, <1>8, <1>10, <1>11, ServedAway

LEMMA ReaderTaking ==
  ASSUME NEW d, HostOk(d), NEW n, NEW f, Reader(d, n, f), d.app = "took"
  PROVE  Served(d, Taking(d), n, f)
<1> DEFINE a == Recved(d, d.took)
           next == IF d.eof THEN "eof" ELSE "open"
           r == [a EXCEPT !.took = 0, !.app = next]
<1>1. Typed(d) /\ d.took \in Nat /\ d.state \in {"ESTABLISHED", "CLOSE_WAIT"} /\ d.recv_flags = {}
  BY DEF HostOk, Typed, ConnTyped, Open, AppOpen
<1>2. Typed(a) /\ Same(d, a, RecvedFields)
  BY <1>1, RecvedKeeps
<1>3. RecvedFields \cap ReaderFields = {}
  BY DEF RecvedFields, OutputFields, ReaderFields, FlowFields
<1>4. Served(d, a, n, f) /\ a.recv_flags = {}
  BY <1>1, <1>2, <1>3, ReaderFrame
<1>5. a.state = d.state /\ a.eof = d.eof /\ a.app = "took" /\ a.rcvopen = d.rcvopen
  BY <1>2 DEF Same, RecvedFields, OutputFields, Fields, PcbFields, ConnFields
<1>6. r = Taking(d)
  <2>1. Taking(d) = [a EXCEPT !.took = 0, !.app = IF d.eof THEN "eof" ELSE "open"]
    BY DEF Taking
  <2> QED BY <2>1
<1> HIDE DEF a
<1>7. Same(a, r, {"took", "app"}) /\ r.app = next
  BY <1>2 DEF Same, Typed, Fields, ConnFields
<1> HIDE DEF r
<1>8. r.state = a.state /\ r.eof = a.eof /\ r.got = a.got /\ r.rcvopen = a.rcvopen /\ r.recv_flags = {}
  BY <1>4, <1>7 DEF Same, Fields, PcbFields, HandlerFields, ConnFields
<1>9. Served(a, r, n, f)
  <2>1. CASE d.eof
    <3>1. r.app = "eof"
      BY <1>7, <2>1
    <3>2. r.app \in ServerApps /\ r.app \notin ReadApps \cup {"accept"}
          /\ r.state \notin {"LISTEN", "SYN_RCVD", "SYN_SENT"}
      BY <1>1, <1>5, <1>8, <3>1 DEF ServerApps, Apps, ReadApps
    <3>3. {"took", "app"} \cap {"got", "eof"} = {}
      OBVIOUS
    <3> QED BY <1>7, <3>2, <3>3, ServedAway
  <2>2. CASE ~d.eof
    <3>1. r.app = "open" /\ ~r.eof
      BY <1>5, <1>7, <1>8, <2>2
    <3>2. PICK b : Flow(a, <<>>, b, n, f)
      BY <1>4, <1>5 DEF Served, Reader, Reading, Stream, ReadApps
    <3>3. {"took", "app"} \cap FlowFields = {}
      BY DEF FlowFields
    <3>4. Flow(r, <<>>, b, n, f)
      BY <1>7, <3>2, <3>3, FlowFrame
    <3>5. r.rcvopen
      BY <1>4, <1>5, <1>8 DEF Served, Reader, Reading, ReadApps
    <3>6. Stage(r)
      BY <1>1, <1>5, <1>8, <3>1 DEF Stage, ServerApps, Apps
    <3>7. Reading(r, n, f)
      BY <3>1, <3>4, <3>5 DEF Reading, Stream
    <3> QED BY <1>8, <3>1, <3>6, <3>7 DEF Served, Reader, Poised
  <2> QED BY <2>1, <2>2
<1>10. a.got = d.got /\ a.eof = d.eof
  BY <1>4 DEF Served
<1> QED BY <1>6, <1>9, <1>10, ServedTwice

LEMMA ReaderShutting ==
  ASSUME NEW d, HostOk(d), NEW n, NEW f, Reader(d, n, f), d.app = "eof"
  PROVE  Served(d, Shutting(d), n, f)
<1> DEFINE a == Drain(d)
           s == Set(a, {"RXCLOSED"})
           r == [s EXCEPT !.refused_data = <<>>, !.refused_fin = FALSE, !.app = "shut"]
           T == RecvedFields \cup {"recvmbox", "rcvopen"}
           U == {"refused_data", "refused_fin", "app"}
<1>1. Typed(d) /\ d.state \in {"ESTABLISHED", "CLOSE_WAIT"}
  BY DEF HostOk, Open, AppOpen
<1>2. Typed(a) /\ Same(d, a, T)
  BY <1>1, DrainKeeps
<1>3. Shutting(d) = r
  BY DEF Shutting
<1> HIDE DEF a
<1>4. Typed(s) /\ Same(a, s, {"flags"})
  BY <1>2, MarkedKeeps
<1> HIDE DEF s
<1>5. Same(s, r, U) /\ r.app = "shut"
  BY <1>4 DEF Same, Typed, Fields, PcbFields, ConnFields
<1> HIDE DEF r
<1>6. Same(d, r, (T \cup {"flags"}) \cup U)
  BY <1>2, <1>4, <1>5, SameTwice
<1>7. ((T \cup {"flags"}) \cup U) \cap {"got", "eof", "state"} = {}
  BY DEF RecvedFields, OutputFields
<1> HIDE DEF T, U
<1>8. r.state = d.state
  <2>1. "state" \in Fields
    BY DEF Fields, PcbFields
  <2>2. r["state"] = d["state"]
    BY <1>6, <1>7, <2>1 DEF Same
  <2> QED BY <2>2
<1>9. r.app \in ServerApps /\ r.app \notin ReadApps \cup {"accept"}
      /\ r.state \notin {"LISTEN", "SYN_RCVD", "SYN_SENT"}
  BY <1>1, <1>5, <1>8 DEF ServerApps, Apps, ReadApps
<1>10. ((T \cup {"flags"}) \cup U) \cap {"got", "eof"} = {}
  BY <1>7
<1> QED BY <1>3, <1>6, <1>9, <1>10, ServedAway

LEMMA ClosedAway ==
  ASSUME NEW d, Typed(d), Stage(d), d.app # "accept", NEW n, NEW f
  PROVE  Served(d, CloseInternal(d), n, f)
<1> DEFINE r == CloseInternal(d)
<1>1. Same(d, r, CloseFields) /\ r.app \in {"done", "close"}
  BY CloseInternalKeeps
<1>2. Further(d.state, r.state)
  BY CloseFurther
<1> HIDE DEF r
<1>3. r.state \notin {"LISTEN", "SYN_RCVD", "SYN_SENT"}
  BY <1>2 DEF Further, Stage, Opens
<1>4. r.app \in ServerApps /\ r.app \notin ReadApps \cup {"accept"}
  BY <1>1 DEF ServerApps, Apps, ReadApps
<1>5. CloseFields \cap {"got", "eof"} = {}
  BY DEF CloseFields, EndedFields, PcbFields
<1>6. Served(d, r, n, f)
  BY <1>1, <1>3, <1>4, <1>5, ServedAway
<1> QED BY <1>6 DEF r

LEMMA ReaderClosing ==
  ASSUME NEW d, HostOk(d), NEW n, NEW f, Reader(d, n, f), d.app \in {"open", "shut", "written"}
  PROVE  Served(d, Closing(d), n, f)
<1> DEFINE a == Drain(d)
           T == RecvedFields \cup {"recvmbox", "rcvopen"}
<1>1. Closing(d) = CloseInternal(a)
  BY DEF Closing
<1>2. Typed(a) /\ Same(d, a, T)
  BY DrainKeeps DEF HostOk
<1> HIDE DEF a
<1>3. T \cap {"got", "eof"} = {} /\ T \cap {"app", "state"} = {}
  BY DEF RecvedFields, OutputFields
<1> HIDE DEF T
<1>4. a.app = d.app /\ a.state = d.state /\ a.got = d.got /\ a.eof = d.eof
  BY <1>2, <1>3, LaterFrame, SameGot
<1>5. Stage(a) /\ a.app # "accept"
  BY <1>4 DEF Stage, Reader, Poised
<1>6. Served(a, CloseInternal(a), n, f)
  BY <1>2, <1>5, ClosedAway
<1> QED BY <1>1, <1>4, <1>6, ServedTwice

LEMMA ReaderFastTimer ==
  ASSUME NEW d, HostOk(d), NEW n \in Int, NEW f, Reader(d, n, f)
  PROVE  Served(d, FastTimer(d), n, f)
<1> DEFINE N == {"ACK_NOW"}
           B == {"ACK_DELAY", "ACK_NOW"}
           s == Set(d, N)
           o == Output(s)
           c == Clear(o, B)
           x == IF "ACK_DELAY" \in d.flags THEN c ELSE d
           r == ProcessRefused(x)
<1>1. FastTimer(d) = r
  BY DEF FastTimer
<1>2. N \in SUBSET Flags /\ B \in SUBSET Flags /\ Typed(d) /\ d.recv_flags = {}
  BY AckFlags DEF HostOk
<1> HIDE DEF N, B
<1>3. {"flags"} \cap ReaderFields = {} /\ OutputFields \cap ReaderFields = {}
  BY DEF ReaderFields, FlowFields, OutputFields
<1>4. Typed(s) /\ Same(d, s, {"flags"})
  BY <1>2, FlagsKeep
<1> HIDE DEF s
<1>5. Typed(o) /\ Same(s, o, OutputFields)
  BY <1>4, OutputKeeps
<1> HIDE DEF o
<1>6. Typed(c) /\ Same(o, c, {"flags"})
  BY <1>2, <1>5, FlagsKeep
<1> HIDE DEF c
<1>7. Served(d, s, n, f) /\ s.recv_flags = {}
  BY <1>2, <1>3, <1>4, ReaderFrame
<1>8. Served(d, o, n, f) /\ Served(s, o, n, f) /\ o.recv_flags = {}
  BY <1>3, <1>5, <1>7, ReaderFrame, ServedFrame DEF Served
<1>9. Served(d, c, n, f) /\ c.recv_flags = {}
  BY <1>3, <1>6, <1>8, ReaderFrame, ServedFrame DEF Served
<1>10. Served(d, x, n, f) /\ x.recv_flags = {} /\ Typed(x)
  BY <1>2, <1>6, <1>9, ServedSelf
<1> HIDE DEF x
<1>11. Served(x, r, n, f)
  BY <1>10, ReaderRefused DEF Served
<1>12. x.got = d.got /\ x.eof = d.eof
  BY <1>10 DEF Served
<1> QED BY <1>1, <1>11, <1>12, ServedTwice

LEMMA ReaderPollSends ==
  ASSUME NEW d, HostOk(d), NEW n, NEW f, Reader(d, n, f)
  PROVE  Served(d, PollSends(d), n, f)
<1> DEFINE s == Sent(d)
           o == Output(s)
<1>1. PollSends(d) \in {s, o}
  BY DEF PollSends
<1>2. Typed(d) /\ d.recv_flags = {} /\ Stage(d)
  BY DEF HostOk, Reader, Poised
<1>3. Typed(s) /\ Same(d, s, SentFields) /\ Later(d, s)
  BY <1>2, SentKeeps, LaterSent
<1>4. Served(d, s, n, f)
  <2>1. CASE d.app \in ReadApps \cup {"accept"}
    <3>1. s = d
      BY <2>1 DEF Sent, ReadApps
    <3> QED BY <1>2, <3>1, ServedSelf
  <2>2. CASE d.app \notin ReadApps \cup {"accept"}
    <3>1. SentFields \cap {"got", "eof"} = {}
      BY DEF SentFields, CloseFields, EndedFields, PcbFields
    <3> HIDE DEF s
    <3> QED BY <1>2, <1>3, <2>2, <3>1, ServedElse
  <2> QED BY <2>1, <2>2
<1> HIDE DEF s
<1>5. Same(s, o, OutputFields) /\ OutputFields \cap ReaderFields = {}
  BY <1>3, OutputKeeps DEF ReaderFields, FlowFields, OutputFields
<1> HIDE DEF o
<1>6. Served(d, o, n, f)
  BY <1>4, <1>5, ServedFrame
<1> QED BY <1>1, <1>4, <1>6

LEMMA ReaderPollEnds ==
  ASSUME NEW d, HostOk(d), NEW n, NEW f, Reader(d, n, f), d.app = "close"
  PROVE  Served(d, PollEnds(d), n, f)
<1> DEFINE c == CloseInternal(d)
           a == Abort(c)
<1>1. PollEnds(d) \in {c, a}
  BY DEF PollEnds
<1>2. Typed(d) /\ Stage(d) /\ d.app # "accept"
  BY DEF HostOk, Reader, Poised
<1>3. Served(d, c, n, f) /\ Typed(c)
  BY <1>2, ClosedAway, CloseInternalKeeps
<1>4. c.app \in {"done", "close"}
  BY <1>2, CloseInternalKeeps
<1> HIDE DEF c
<1>5. Stage(c) /\ c.got = d.got /\ c.eof = d.eof
  BY <1>3 DEF Served, Reader, Poised
<1>6. Later(c, a) /\ Same(c, a, EndedFields)
  <2>1. "aborted" \in Endings
    BY DEF Endings
  <2> QED BY <1>3, <2>1, LaterGone, AbortKeeps
<1> HIDE DEF a
<1>7. EndedFields \cap {"got", "eof"} = {} /\ c.app \notin ReadApps \cup {"accept"}
  BY <1>4 DEF EndedFields, PcbFields, ReadApps
<1>8. Served(c, a, n, f)
  BY <1>5, <1>6, <1>7, ServedElse
<1>9. Served(d, a, n, f)
  BY <1>5, <1>8, ServedTwice
<1> QED BY <1>1, <1>3, <1>9

LEMMA ReaderRto ==
  ASSUME NEW d, HostOk(d), NEW n, NEW f, Reader(d, n, f)
  PROVE  Served(d, RexmitRto(d), n, f) /\ Served(d, ZeroWindowProbe(d), n, f)
<1> DEFINE q == Requeued(d)
           r == RexmitRto(d)
           p == ZeroWindowProbe(d)
           T == {"cwnd", "unsent", "unacked", "nrtx"}
           P == {"out", "rcv_ann_right_edge"}
<1>1. Typed(d) /\ d.recv_flags = {}
  BY DEF HostOk
<1>2. Typed(q) /\ Same(d, q, T) /\ r = Output(q) /\ Same(d, p, P)
  BY <1>1, RequeuedKeeps, ProbeKeeps
<1> HIDE DEF q, p, T, P
<1>3. Same(q, r, OutputFields)
  BY <1>2, OutputKeeps
<1> HIDE DEF r
<1>4. T \cap ReaderFields = {} /\ P \cap ReaderFields = {} /\ OutputFields \cap ReaderFields = {}
  BY DEF T, P, ReaderFields, FlowFields, OutputFields
<1>5. Served(d, q, n, f) /\ Served(d, p, n, f)
  BY <1>1, <1>2, <1>4, ReaderFrame
<1>6. Served(d, r, n, f)
  BY <1>3, <1>4, <1>5, ServedFrame
<1> QED BY <1>5, <1>6 DEF r, p

LEMMA ReaderEnds ==
  ASSUME NEW d, HostOk(d), NEW n, NEW f, Reader(d, n, f)
  PROVE  /\ Served(d, Removing(d), n, f)
         /\ d.state = "TIME_WAIT" => Served(d, Expiring(d), n, f)
<1> DEFINE p == Purge(d)
           how == IF d.ended = "no" THEN "closed" ELSE d.ended
           late == "timeout"
           r == ErrTcp(Gone(p, late))
           x == Gone(d, how)
<1>1. Removing(d) = r /\ Expiring(d) = x
  BY DEF Removing, Expiring
<1>2. late \in Endings /\ how \in Endings /\ Typed(d)
  BY DEF HostOk, Typed, ConnTyped, Endings
<1>3. Typed(p) /\ Same(d, p, PurgedFields) /\ p.refused_data = <<>> /\ p.refused_fin = FALSE /\ p.ooseq = <<>>
  <2>1. Typed(p) /\ Same(d, p, PurgedFields)
    BY <1>2, PurgeKeeps
  <2>2. p.refused_data = <<>> /\ p.refused_fin = FALSE /\ p.ooseq = <<>>
    BY <1>2 DEF Purge, Typed, Fields, PcbFields
  <2> QED BY <2>1, <2>2
<1> HIDE DEF p, how, late
<1>4. /\ p.app = d.app /\ p.state = d.state /\ p.got = d.got /\ p.eof = d.eof /\ p.recvmbox = d.recvmbox
      /\ p.rcvopen = d.rcvopen /\ p.rcv_nxt = d.rcv_nxt
  BY <1>3 DEF Same, PurgedFields, Fields, PcbFields, ConnFields
<1>5. Poised(p) /\ Poised(d)
  BY <1>3, <1>4 DEF Reader, Poised, Stage, Listening
<1>6. Served(p, r, n, f)
  BY <1>2, <1>3, <1>5, ServedEnds
<1>7. Served(d, r, n, f)
  BY <1>4, <1>6, ServedTwice
<1>8. ASSUME d.state = "TIME_WAIT" PROVE Served(d, x, n, f)
  <2>1. d.app \notin ReadApps
    BY <1>8 DEF HostOk, Open, AppOpen, ReadApps
  <2> QED BY <1>2, <1>5, <2>1, ServedEnds
<1> QED BY <1>1, <1>7, <1>8

-----------------------------------------------------------------------------
(* Between two steps.                                                       *)
LEMMA WriterAtEnd ==
  ASSUME NEW d, Writer(d), Typed(AtEnd(d))
  PROVE  Writer(AtEnd(d)) /\ Advances(d, AtEnd(d)) /\ Upto(AtEnd(d)) = Upto(d) /\ Shut(AtEnd(d)) = Shut(d)
         /\ AtEnd(d).left = d.left
<1> DEFINE r == AtEnd(d)
           S == {"input", "recv_data", "recv_flags", "out", "driver"}
           G == Good(Upto(d), Shut(d))
<1>1. Same(d, r, S) /\ r.out = <<>>
  BY WriterTyped DEF AtEnd, Same, Typed, Fields, HandlerFields
<1> HIDE DEF r
<1>2. r.unsent = d.unsent /\ r.unacked = d.unacked /\ r.flags = d.flags /\ r.app = d.app /\ r.left = d.left
  BY <1>1 DEF Same, Fields, PcbFields, ConnFields
<1>3. Wrote(r, Upto(d), Shut(d))
  <2>1. Ships(d, G, Marks(Shut(d)))
    BY WriterTyped DEF Wrote
  <2> HIDE DEF G
  <2>2. r.out \in Seq(OnWire(G))
    BY <1>1, EmptySeq
  <2>3. Ships(r, G, Marks(Shut(d)))
    BY <1>2, <2>1, <2>2 DEF Ships, r
  <2> QED BY <2>3 DEF Wrote, G
<1>4. S \cap WriterFields = {}
  BY DEF WriterFields
<1> HIDE DEF S
<1>5. Writer(r) /\ Advances(d, r)
  BY <1>1, <1>3, <1>4, WriterFrame
<1> QED BY <1>2, <1>5 DEF Upto, Shut, r

LEMMA WriterBefore ==
  ASSUME NEW d, Writer(d), NEW driver \in Drivers
  PROVE  Level(d, [d EXCEPT !.driver = driver])
<1> DEFINE r == [d EXCEPT !.driver = driver]
<1>1. Typed(d) /\ Wrote(d, Upto(d), Shut(d))
  BY WriterTyped
<1>2. Same(d, r, {"driver"}) /\ r.driver = driver
  BY <1>1 DEF Same, Typed, Fields, HandlerFields
<1> HIDE DEF r
<1>3. IsTyped("driver", r["driver"]) /\ "driver" \notin ShipFields
  BY <1>2 DEF IsTyped, ShipFields
<1>4. Wrote(r, Upto(d), Shut(d))
  BY <1>1, <1>2, <1>3, ShipsField DEF Wrote
<1>5. {"driver"} \cap WriterFields = {}
  BY DEF WriterFields
<1>6. Level(d, r)
  BY <1>2, <1>4, <1>5, LevelFrame
<1> QED BY <1>6 DEF r

LEMMA ReaderAtEnd ==
  ASSUME NEW d, NEW r, DOMAIN r = Fields, NEW n, NEW f, Served(d, r, n, f)
  PROVE  /\ Reader(AtEnd(r), n, f) /\ AtEnd(r).got = d.got /\ AtEnd(r).eof = d.eof
         /\ AtEnd(r).recv_data = <<>>
<1> DEFINE q == AtEnd(r)
           S == {"input", "recv_data", "recv_flags", "out", "driver"}
<1>1. Same(r, q, S) /\ q.recv_flags = {} /\ q.recv_data = <<>>
  BY DEF AtEnd, Same, Fields, HandlerFields
<1> HIDE DEF q
<1>2. Poised(q) /\ q.app = r.app /\ q.got = r.got /\ q.eof = r.eof /\ q.state = r.state
  <2>1. S \cap (ReaderFields \ {"recv_flags"}) = {}
    BY DEF ReaderFields, FlowFields
  <2> HIDE DEF S
  <2> QED BY <1>1, <2>1, PoisedFrame DEF Served, Reader
<1>3. ASSUME q.app \in ReadApps PROVE Reading(q, n, f)
  <2>1. PICK b : Flow(r, <<>>, b, n, f)
    BY <1>2, <1>3 DEF Served, Reader, Reading, Stream
  <2>2. /\ q.recvmbox = r.recvmbox /\ q.refused_data = r.refused_data /\ q.refused_fin = r.refused_fin
        /\ q.ooseq = r.ooseq /\ q.rcv_nxt = r.rcv_nxt /\ q.rcvopen = r.rcvopen
    BY <1>1 DEF Same, Fields, PcbFields, ConnFields
  <2>3. r.state = "ESTABLISHED" => "GOT_FIN" \notin r.recv_flags
    BY <1>2, <1>3 DEF Served
  <2>4. ASSUME NEW e, Edge(r, e, n, f) PROVE Edge(q, e, n, f)
    BY <1>1, <1>2, <2>2, <2>3, <2>4 DEF Edge
  <2>5. Flow(q, <<>>, b, n, f)
    BY <1>2, <2>1, <2>2, <2>4 DEF Flow
  <2> QED BY <1>2, <1>3, <2>2, <2>5 DEF Reading, Stream, Served, Reader
<1>4. q.got = d.got /\ q.eof = d.eof
  BY <1>2 DEF Served
<1> QED BY <1>1, <1>2, <1>3, <1>4 DEF Reader, q

LEMMA ReaderBefore ==
  ASSUME NEW d, HostOk(d), NEW n, NEW f, Reader(d, n, f), NEW driver \in Drivers
  PROVE  LET r == [d EXCEPT !.driver = driver]
         IN  /\ Reader(r, n, f) /\ r.got = d.got /\ r.eof = d.eof /\ r.recv_data = d.recv_data
<1> DEFINE r == [d EXCEPT !.driver = driver]
<1>1. Same(d, r, {"driver"}) /\ d.recv_flags = {}
  BY DEF HostOk, Same, Typed, Fields, HandlerFields
<1> HIDE DEF r
<1>2. {"driver"} \cap ReaderFields = {}
  BY DEF ReaderFields, FlowFields
<1>3. Served(d, r, n, f)
  BY <1>1, <1>2, ReaderFrame
<1>4. r.recv_data = d.recv_data
  BY <1>1 DEF Same, Fields, HandlerFields
<1> QED BY <1>3, <1>4 DEF Served, r

LEMMA ReaderGrows ==
  ASSUME NEW d, Typed(d), NEW n \in Int, NEW k \in Int, n <= k, NEW f, Reader(d, n, FALSE)
  PROVE  Reader(d, k, f)
<1>1. ASSUME d.app \in ReadApps PROVE Reading(d, k, f)
  <2>1. PICK b : Flow(d, <<>>, b, n, FALSE)
    BY <1>1 DEF Reader, Reading, Stream
  <2>2. <<>> \in Seq(Int)
    BY EmptySeq
  <2>3. b \in Int
    BY <2>1, <2>2, FlowBounds
  <2>4. Flow(d, <<>>, b, k, f)
    BY <2>1, <2>2, <2>3, FlowGrows
  <2> QED BY <1>1, <2>4 DEF Reader, Reading, Stream
<1> QED BY <1>1 DEF Reader
\* An entry of recvmbox is read, or the end of the stream is.
LEMMA GotLonger ==
  ASSUME NEW got \in Seq(Int), NEW p \in Seq(Int), From(got, 2), From(p, 2 + Len(got))
  PROVE  From(got \o p, 2) /\ Len(got \o p) = Len(got) + Len(p)
<1>1. 2 \in Int
  OBVIOUS
<1>2. From(got \o p, 2)
  BY <1>1, FromCat
<1>3. Len(got \o p) = Len(got) + Len(p)
  BY ConcatProperties
<1> QED BY <1>2, <1>3

\* r is the host d whose application fetched the piece p from its mailbox.
Fetched(d, r, p) ==
    /\ p = Head(d.recvmbox) /\ Same(d, r, {"recvmbox", "app", "took", "got", "eof"})
    /\ r.recvmbox = Tail(d.recvmbox) /\ r.app = "took" /\ r.got = d.got \o p /\ r.eof = (p = <<>>)

LEMMA ReaderFetch ==
  ASSUME NEW d, Typed(d), d.app = "open", d.recvmbox # <<>>, NEW n \in Int, NEW f, Reader(d, n, f),
         NEW r, NEW p, Fetched(d, r, p)
  PROVE  /\ Reader(r, n, f) /\ ~d.eof /\ p \in Seq(Int) /\ d.got \in Seq(Int)
         /\ From(r.got, 2) /\ 2 + Len(r.got) <= n
         /\ p = <<>> => f /\ 2 + Len(d.got) = n
<1>1. PICK b : Flow(d, <<>>, b, n, f)
  BY DEF Reader, Reading, Stream, ReadApps
<1>2. /\ d.recvmbox \in Seq(Seq(Int)) /\ d.got \in Seq(Int) /\ p \in Seq(Int)
      /\ Len(p) \in Nat /\ Len(d.got) \in Nat
  <2>1. d.recvmbox \in Seq(Seq(Int)) /\ d.got \in Seq(Int)
    BY DEF Typed, ConnTyped
  <2>2. p \in Seq(Int)
    BY <2>1, HeadTailProperties DEF Fetched
  <2> QED BY <2>1, <2>2, LenProperties
<1>3. ~d.eof /\ d.rcvopen
  BY DEF Reader, Reading, ReadApps
<1> DEFINE a == 2 + Len(d.got)
<1>4. From(d.got, 2) /\ Boxes(d.recvmbox, a, b, n, f)
  BY <1>1 DEF Flow
<1>5. From(p, a) /\ (p = <<>> => f /\ a = n) /\ Boxes(Tail(d.recvmbox), a + Len(p), b, n, f)
  <2>1. p = Head(d.recvmbox)
    BY DEF Fetched
  <2>2. /\ From(Head(d.recvmbox), a) /\ (Head(d.recvmbox) = <<>> => f /\ a = n)
        /\ Boxes(Tail(d.recvmbox), a + Len(Head(d.recvmbox)), b, n, f)
    BY <1>2, <1>4, BoxesFirst
  <2> QED BY <2>1, <2>2
<1>6. From(r.got, 2) /\ Len(r.got) = Len(d.got) + Len(p)
  <2>1. From(d.got \o p, 2) /\ Len(d.got \o p) = Len(d.got) + Len(p)
    BY <1>2, <1>4, <1>5, GotLonger
  <2>2. r.got = d.got \o p
    BY DEF Fetched
  <2> QED BY <2>1, <2>2
<1>7. a + Len(p) = 2 + Len(r.got)
  BY <1>2, <1>6
<1>8. /\ r.refused_data = d.refused_data /\ r.refused_fin = d.refused_fin /\ r.state = d.state
      /\ r.recv_flags = d.recv_flags /\ r.rcv_nxt = d.rcv_nxt /\ r.ooseq = d.ooseq /\ r.rcvopen = d.rcvopen
  BY DEF Fetched, Same, Fields, PcbFields, HandlerFields, ConnFields
<1>9. Flow(r, <<>>, b, n, f)
  <2>1. Boxes(r.recvmbox, 2 + Len(r.got), b, n, f)
    <3>1. Boxes(Tail(d.recvmbox), 2 + Len(r.got), b, n, f)
      BY <1>5, <1>7
    <3> QED BY <3>1 DEF Fetched
  <2>2. ASSUME NEW e, Edge(d, e, n, f) PROVE Edge(r, e, n, f)
    BY <1>8, <2>2 DEF Edge
  <2> QED BY <1>1, <1>6, <1>8, <2>1, <2>2 DEF Flow
<1>10. 2 + Len(r.got) <= n
  <2>1. <<>> \in Seq(Int) /\ Len(<<>>) = 0
    BY EmptySeq
  <2>2. a + Len(p) <= b
    <3>1. Tail(d.recvmbox) \in Seq(Seq(Int))
      BY <1>2, HeadTailProperties
    <3> DEFINE tail == Tail(d.recvmbox)
               c == a + Len(p)
    <3>2. tail \in Seq(Seq(Int)) /\ Boxes(tail, c, b, n, f)
      BY <1>5, <3>1
    <3>3. c \in Int
      BY <1>2
    <3>4. b \in Int
      BY <1>1, <2>1, FlowBounds
    <3> HIDE DEF tail, c
    <3>5. c <= b
      BY <3>2, <3>3, <3>4, BoxesSpan
    <3> QED BY <3>5 DEF c
  <2>3. b \in Int /\ Len(d.refused_data) \in Nat /\ b + Len(d.refused_data) + Len(<<>>) <= n
    BY <1>1, <2>1, FlowBounds
  <2> QED BY <1>2, <1>7, <2>1, <2>2, <2>3
<1>11. Reader(r, n, f)
  <2>1. Stage(r)
    BY <1>8 DEF Fetched, Reader, Poised, Stage, ServerApps, Apps
  <2>2. Reading(r, n, f)
    BY <1>3, <1>8, <1>9 DEF Fetched, Reading, Stream
  <2>3. r.app = "took"
    BY DEF Fetched
  <2> QED BY <2>1, <2>2, <2>3 DEF Reader, Poised
<1> QED BY <1>2, <1>3, <1>5, <1>6, <1>10, <1>11
\* The queue of what came out of sequence is dropped.
LEMMA ReaderDrop ==
  ASSUME NEW d, NEW r, Same(d, r, {"ooseq"}), r.ooseq = <<>>, NEW n, NEW f, Reader(d, n, f)
  PROVE  Reader(r, n, f) /\ r.got = d.got /\ r.eof = d.eof
<1>1. /\ r.app = d.app /\ r.state = d.state /\ r.got = d.got /\ r.eof = d.eof /\ r.recvmbox = d.recvmbox
      /\ r.rcvopen = d.rcvopen /\ r.rcv_nxt = d.rcv_nxt /\ r.refused_data = d.refused_data
      /\ r.refused_fin = d.refused_fin
  BY DEF Fetched, Same, Fields, PcbFields, ConnFields
<1>2. Poised(r)
  BY <1>1 DEF Reader, Poised, Stage, Listening
<1>3. ASSUME r.app \in ReadApps PROVE Reading(r, n, f)
  <2>1. PICK b : Flow(d, <<>>, b, n, f)
    BY <1>1, <1>3 DEF Reader, Reading, Stream
  <2>2. Pending(r.ooseq, n, f)
    BY DEF Pending
  <2>3. Flow(r, <<>>, b, n, f)
    BY <2>1, <2>2, FlowQueue
  <2> QED BY <1>1, <1>3, <2>3 DEF Reader, Reading, Stream
<1> QED BY <1>1, <1>2, <1>3 DEF Reader

-----------------------------------------------------------------------------
(* The pipe.  What the client has written when it has n units more behind   *)
(* it, and the steps of the pipe in terms of the two hosts.                 *)
FirstUnits(n) == [i \in 1 .. n |-> i + 1]

LEMMA FirstUnitsFacts ==
  ASSUME NEW n \in Nat
  PROVE  /\ FirstUnits(n) \in Seq(Int) /\ Len(FirstUnits(n)) = n
         /\ \A k \in Nat : k <= n => SubSeq(FirstUnits(n), 1, k) = FirstUnits(k)
<1>1. FirstUnits(n) \in [1 .. n -> Int]
  BY DEF FirstUnits
<1>2. FirstUnits(n) \in Seq(Int)
  BY <1>1, SeqDef
<1>3. Len(FirstUnits(n)) = n
  <2>1. DOMAIN FirstUnits(n) = 1 .. n
    BY DEF FirstUnits
  <2> QED BY <1>2, <2>1, LenProperties
<1>4. ASSUME NEW k \in Nat, k <= n PROVE SubSeq(FirstUnits(n), 1, k) = FirstUnits(k)
  <2>1. 1 \in 1 .. n + 1 /\ k \in 1 - 1 .. n
    BY <1>4
  <2> QED BY <2>1 DEF FirstUnits
<1> QED BY <1>2, <1>3, <1>4

LEMMA GotFirst ==
  ASSUME NEW n \in Nat, NEW got \in Seq(Int), From(got, 2), Len(got) <= n
  PROVE  got = SubSeq(FirstUnits(n), 1, Len(got)) /\ (Len(got) = n => got = FirstUnits(n))
<1>1. Len(got) \in Nat /\ got = FirstUnits(Len(got))
  <2>1. Len(got) \in Nat /\ got \in [1 .. Len(got) -> Int]
    BY LenProperties
  <2>2. \A i \in 1 .. Len(got) : got[i] = i + 1
    BY <2>1 DEF From
  <2> QED BY <2>1, <2>2 DEF FirstUnits
<1> QED BY <1>1, FirstUnitsFacts

LEMMA PipeWrites ==
  ASSUME host["client"].left \in Nat, host'["client"].left \in Nat,
         host["client"].left <= ToWrite["client"],
         host'["client"].left < host["client"].left,
         ~Shut(host["client"]), ~Shut(host'["client"]),
         host'["server"].got = host["server"].got, host'["server"].eof = host["server"].eof
  PROVE  Pipe!Next
<1> DEFINE w == [i \in 1 .. ToWrite["client"] - host["client"].left |-> i + 1]
           k == ToWrite["client"] - host["client"].left
           n == ToWrite["client"] - host'["client"].left
<1>1. k \in Nat /\ n \in Nat /\ k < n
  <2>1. ToWrite["client"] \in Nat
    BY DataAssumption DEF Ends
  <2> QED BY <2>1
<1>2. w = FirstUnits(k) /\ w' = FirstUnits(n)
  BY DEF FirstUnits
<1> HIDE DEF k, n
<1>3. Len(w') > Len(w) /\ SubSeq(w', 1, Len(w)) = w
  <2>1. Len(FirstUnits(n)) > Len(FirstUnits(k)) /\ SubSeq(FirstUnits(n), 1, Len(FirstUnits(k))) = FirstUnits(k)
    BY <1>1, FirstUnitsFacts
  <2> HIDE DEF w
  <2> QED BY <1>2, <2>1
<1>4. ~ClientClosed /\ ~ClientClosed' /\ UNCHANGED <<ClientClosed, host["server"].got, host["server"].eof>>
  BY DEF ClientClosed, Shut
<1>5. Pipe!Write
  BY <1>3, <1>4 DEF Pipe!Write
<1> QED BY <1>5 DEF Pipe!Next

LEMMA PipeCloses ==
  ASSUME host'["client"].left = host["client"].left,
         ~Shut(host["client"]), Shut(host'["client"]),
         host'["server"].got = host["server"].got, host'["server"].eof = host["server"].eof
  PROVE  Pipe!Next
<1> DEFINE w == [i \in 1 .. ToWrite["client"] - host["client"].left |-> i + 1]
<1>1. w' = w
  OBVIOUS
<1>2. ~ClientClosed /\ ClientClosed'
  BY DEF ClientClosed, Shut
<1> HIDE DEF w
<1>3. UNCHANGED <<w, host["server"].got, host["server"].eof>>
  BY <1>1
<1>4. Pipe!Close
  BY <1>2, <1>3 DEF Pipe!Close, w
<1> QED BY <1>4 DEF Pipe!Next

LEMMA PipeStays ==
  ASSUME host'["client"].left = host["client"].left, Shut(host'["client"]) <=> Shut(host["client"]),
         host'["server"].got = host["server"].got, host'["server"].eof = host["server"].eof
  PROVE  UNCHANGED Pipe!vars
<1> DEFINE w == [i \in 1 .. ToWrite["client"] - host["client"].left |-> i + 1]
<1>1. w' = w
  OBVIOUS
<1>2. ClientClosed' = ClientClosed
  BY DEF ClientClosed, Shut
<1> HIDE DEF w
<1>3. UNCHANGED <<w, ClientClosed, host["server"].got, host["server"].eof>>
  BY <1>1, <1>2
<1> QED BY <1>3 DEF Pipe!vars, w

LEMMA ClientMoves ==
  ASSUME Writer(host["client"]), Typed(host'["client"]), Advances(host["client"], host'["client"]),
         host'["server"].got = host["server"].got, host'["server"].eof = host["server"].eof
  PROVE  Pipe!Next \/ UNCHANGED Pipe!vars
<1>1. /\ host["client"].left \in Nat /\ host'["client"].left \in Nat
      /\ host["client"].left <= ToWrite["client"]
  BY WriterTyped DEF Writer, Typed, ConnTyped
<1>2. CASE host'["client"].left # host["client"].left
  <2>1. host'["client"].left < host["client"].left
    BY <1>1, <1>2 DEF Advances
  <2>2. ~Shut(host["client"]) /\ ~Shut(host'["client"])
    BY <1>2 DEF Advances
  <2> QED BY <1>1, <2>1, <2>2, PipeWrites
<1>3. CASE host'["client"].left = host["client"].left
  <2>1. CASE Shut(host'["client"]) <=> Shut(host["client"])
    BY <1>3, <2>1, PipeStays
  <2>2. CASE ~(Shut(host'["client"]) <=> Shut(host["client"]))
    <3>1. ~Shut(host["client"]) /\ Shut(host'["client"])
      BY <2>2 DEF Advances
    <3> QED BY <1>3, <3>1, PipeCloses
  <2> QED BY <2>1, <2>2
<1> QED BY <1>2, <1>3

\* The server's application reads on.
LEMMA PipeReads ==
  ASSUME Writer(host["client"]), host'["client"] = host["client"],
         host["server"].eof = FALSE, host["server"].got \in Seq(Int), NEW p \in Seq(Int), p # <<>>,
         host'["server"].got = host["server"].got \o p, host'["server"].eof = FALSE,
         From(host'["server"].got, 2), 2 + Len(host'["server"].got) <= Upto(host["client"])
  PROVE  Pipe!Next
<1> DEFINE w == [i \in 1 .. ToWrite["client"] - host["client"].left |-> i + 1]
           n == ToWrite["client"] - host["client"].left
           g == host["server"].got \o p
<1>1. n \in Nat /\ Upto(host["client"]) = 2 + n
  <2>1. ToWrite["client"] \in Nat
    BY DataAssumption DEF Ends
  <2>2. host["client"].left \in Nat /\ host["client"].left <= ToWrite["client"]
    BY WriterTyped DEF Writer
  <2> QED BY <2>1, <2>2 DEF Upto
<1>2. w = FirstUnits(n)
  BY DEF FirstUnits
<1>3. g \in Seq(Int) /\ Len(g) \in Nat /\ Len(g) > Len(host["server"].got)
  <2>1. g \in Seq(Int) /\ Len(g) = Len(host["server"].got) + Len(p)
    BY ConcatProperties
  <2>2. Len(p) \in Nat \ {0} /\ Len(host["server"].got) \in Nat
    BY LenProperties, EmptySeq
  <2> HIDE DEF g
  <2> QED BY <2>1, <2>2
<1>4. From(g, 2) /\ 2 + Len(g) <= Upto(host["client"])
  OBVIOUS
<1>5. UNCHANGED <<w, ClientClosed, host["server"].eof>>
  <2>1. w' = w /\ ClientClosed' = ClientClosed
    BY DEF ClientClosed
  <2>2. host'["server"].eof = host["server"].eof
    BY Zenon
  <2> HIDE DEF w
  <2> QED BY <2>1, <2>2
<1>6. host'["server"].got = g
  OBVIOUS
<1> HIDE DEF n, g, w
<1>7. Len(g) <= n
  BY <1>1, <1>3, <1>4
<1>8. g = SubSeq(w, 1, Len(g)) /\ Len(g) <= Len(w)
  BY <1>1, <1>2, <1>3, <1>4, <1>7, GotFirst, FirstUnitsFacts
<1>9. Pipe!Read
  BY <1>3, <1>5, <1>6, <1>8 DEF Pipe!Read, w
<1> QED BY <1>9 DEF Pipe!Next

\* The server's application is told of the end.
LEMMA PipeEnds ==
  ASSUME Writer(host["client"]), host'["client"] = host["client"], Shut(host["client"]),
         ~host["server"].eof, host["server"].got \in Seq(Int),
         host'["server"].got = host["server"].got, host'["server"].eof = TRUE,
         From(host["server"].got, 2), 2 + Len(host["server"].got) = Upto(host["client"])
  PROVE  Pipe!Next
<1> DEFINE w == [i \in 1 .. ToWrite["client"] - host["client"].left |-> i + 1]
           n == ToWrite["client"] - host["client"].left
           g == host["server"].got
<1>1. n \in Nat /\ Upto(host["client"]) = 2 + n
  <2>1. ToWrite["client"] \in Nat
    BY DataAssumption DEF Ends
  <2>2. host["client"].left \in Nat /\ host["client"].left <= ToWrite["client"]
    BY WriterTyped DEF Writer
  <2> QED BY <2>1, <2>2 DEF Upto
<1>2. w = FirstUnits(n)
  BY DEF FirstUnits
<1>3. UNCHANGED <<w, ClientClosed, host["server"].got>> /\ ClientClosed
  <2>1. w' = w /\ ClientClosed' = ClientClosed /\ ClientClosed
    BY DEF ClientClosed, Shut
  <2> HIDE DEF w
  <2> QED BY <2>1
<1>4. g \in Seq(Int) /\ From(g, 2) /\ Len(g) \in Nat /\ 2 + Len(g) = Upto(host["client"])
  BY LenProperties
<1> HIDE DEF n, g, w
<1>5. Len(g) = n
  BY <1>1, <1>4
<1>6. g = w
  BY <1>1, <1>2, <1>4, <1>5, GotFirst
<1>7. Pipe!End
  BY <1>3, <1>6 DEF Pipe!End, w, g
<1> QED BY <1>7 DEF Pipe!Next

-----------------------------------------------------------------------------
(* The inductive invariant: what is queued and sent at the client is part   *)
(* of what it has written, what is under way to the server is, and so is    *)
(* all that the server has kept of it.  It says nothing once the client's   *)
(* queue is overtaken.                                                      *)
PipeHolds ==
  /\ Writer(host["client"])
  /\ Reader(host["server"], Upto(host["client"]), Shut(host["client"]))
  /\ host["server"].recv_data = <<>>
  /\ net["server"] \in Seq(OnWire(Good(Upto(host["client"]), Shut(host["client"]))))
PipeInv == QueueInv /\ ("client" \notin overtaken => PipeHolds)
Goes == PipeHolds' /\ (Pipe!Next \/ UNCHANGED Pipe!vars)

LEMMA OnWireGrows ==
  ASSUME NEW S, NEW T, S \subseteq T
  PROVE  OnWire(S) \subseteq OnWire(T) /\ Seq(OnWire(S)) \subseteq Seq(OnWire(T))
<1>1. OnWire(S) \subseteq OnWire(T)
  BY DEF OnWire
<1> HIDE DEF OnWire
<1> QED BY <1>1, SeqMonotonic

LEMMA UptoFacts ==
  ASSUME NEW d, Writer(d)
  PROVE  Upto(d) \in Int /\ 2 <= Upto(d) /\ Shut(d) \in BOOLEAN
<1>1. ToWrite["client"] \in Nat
  BY DataAssumption DEF Ends
<1>2. d.left \in Nat /\ d.left <= ToWrite["client"]
  BY WriterTyped DEF Writer
<1> QED BY <1>1, <1>2, WriterTyped DEF Upto

LEMMA BeforeHolds ==
  ASSUME QueueInv, PipeHolds, "client" \notin overtaken, NEW driver \in Drivers
  PROVE  /\ HostOk(Before("client", driver)) /\ Sorted(Before("client", driver))
         /\ Writer(Before("client", driver)) /\ Level(host["client"], Before("client", driver))
         /\ HostOk(Before("server", driver)) /\ Before("server", driver).recv_data = <<>>
         /\ Reader(Before("server", driver), Upto(host["client"]), Shut(host["client"]))
         /\ Before("server", driver).got = host["server"].got
         /\ Before("server", driver).eof = host["server"].eof
         /\ \A e \in Ends : /\ Before(e, driver).state = host[e].state
                            /\ Before(e, driver).app = host[e].app
<1>1. "client" \in Ends /\ "server" \in Ends
  BY DEF Ends
<1>2. HostOk(host["client"]) /\ HostOk(host["server"]) /\ Sorted(host["client"])
  BY <1>1 DEF QueueInv, InOrderOrOvertaken
<1>3. /\ Writer(host["client"]) /\ host["server"].recv_data = <<>>
      /\ Reader(host["server"], Upto(host["client"]), Shut(host["client"]))
  BY DEF PipeHolds
<1>4. HostOk(Before("client", driver)) /\ Sorted(Before("client", driver))
  BY <1>2, DriverWorks DEF Before
<1>5. Level(host["client"], Before("client", driver))
  BY <1>3, WriterBefore DEF Before
<1>6. Writer(Before("client", driver))
  BY <1>5 DEF Level, Keeps
<1>7. HostOk(Before("server", driver))
  BY <1>2, DriverWorks DEF Before
<1>8. /\ Reader(Before("server", driver), Upto(host["client"]), Shut(host["client"]))
      /\ Before("server", driver).got = host["server"].got
      /\ Before("server", driver).eof = host["server"].eof
      /\ Before("server", driver).recv_data = <<>>
  BY <1>2, <1>3, ReaderBefore DEF Before
<1>9. \A e \in Ends : Before(e, driver).state = host[e].state /\ Before(e, driver).app = host[e].app
  BY BeforeWorks
<1> QED BY <1>4, <1>5, <1>6, <1>7, <1>8, <1>9

LEMMA ClientRan ==
  ASSUME QueueInv, QueueInv', PipeHolds, "client" \notin overtaken, NEW driver \in Drivers,
         NEW d, NEW m \in {0, 1}, Result("client", d, m), Keeps(Before("client", driver), d)
  PROVE  Goes
<1> DEFINE c == host["client"]
           r == AtEnd(d)
           n == Upto(c)
           k == Upto(d)
           f == Shut(c)
           g == Shut(d)
<1>1. /\ host'["client"] = r /\ host'["server"] = host["server"]
      /\ net'["server"] = net["server"] \o d.out
  <2>1. DOMAIN host = Ends
    BY DEF QueueInv, TypeOK
  <2>2. "client" \in Ends /\ "server" \in Ends /\ "client" # "server"
    BY DEF Ends
  <2> QED BY <2>1, <2>2 DEF Result
<1>2. Writer(c) /\ Writer(d) /\ Typed(r)
  <2>1. Typed(host'["client"])
    BY DEF QueueInv, TypeOK, Ends
  <2> QED BY <1>1, <2>1 DEF PipeHolds, Keeps
<1>3. Writer(r) /\ Upto(r) = k /\ Shut(r) = g /\ r.left = d.left
  BY <1>2, WriterAtEnd
<1>4. Advances(c, d)
  BY <1>2, BeforeHolds, LevelThen, WriterTyped DEF Keeps
<1>5. Advances(c, r)
  BY <1>3, <1>4 DEF Advances
<1>6. n \in Int /\ k \in Int /\ f \in BOOLEAN /\ g \in BOOLEAN
  BY <1>2, UptoFacts
<1>7. (f => g) /\ n <= k /\ (g => k = n)
  <2>1. c.left \in Nat /\ d.left \in Nat
    BY <1>2, WriterTyped
  <2>2. ToWrite["client"] \in Nat
    BY DataAssumption DEF Ends
  <2>3. d.left <= c.left /\ (Shut(c) => Shut(d)) /\ (d.left # c.left => ~Shut(d))
    BY <1>4 DEF Advances
  <2> QED BY <2>1, <2>2, <2>3 DEF Upto
<1>8. d.out \in Seq(OnWire(Good(k, g)))
  BY <1>2 DEF Writer, Wrote, Ships
<1>9. /\ Reader(host["server"], n, f) /\ net["server"] \in Seq(OnWire(Good(n, f)))
      /\ host["server"].recv_data = <<>> /\ Typed(host["server"])
  BY DEF PipeHolds, QueueInv, TypeOK, Ends
<1>10. Pipe!Next \/ UNCHANGED Pipe!vars
  BY <1>1, <1>2, <1>5, ClientMoves
<1> HIDE DEF c, r, n, k, f, g
<1>11. Reader(host["server"], k, g) /\ net["server"] \in Seq(OnWire(Good(k, g)))
  <2>1. CASE f = TRUE
    <3>1. g = TRUE /\ k = n
      BY <1>6, <1>7, <2>1
    <3>2. Reader(host["server"], n, TRUE) /\ net["server"] \in Seq(OnWire(Good(n, TRUE)))
      BY <1>9, <2>1, Zenon
    <3> QED BY <3>1, <3>2, Zenon
  <2>2. CASE f = FALSE
    <3>1. Reader(host["server"], n, FALSE) /\ net["server"] \in Seq(OnWire(Good(n, FALSE)))
      BY <1>9, <2>2, Zenon
    <3>2. Reader(host["server"], k, g)
      BY <1>6, <1>7, <1>9, <3>1, ReaderGrows
    <3>3. Good(n, FALSE) \subseteq Good(k, g)
      BY <1>6, <1>7, GoodGrows
    <3>4. net["server"] \in Seq(OnWire(Good(k, g)))
      BY <3>1, <3>3, OnWireGrows
    <3> QED BY <3>2, <3>4
  <2> QED BY <1>6, <2>1, <2>2
<1>12. net["server"] \o d.out \in Seq(OnWire(Good(k, g)))
  BY <1>8, <1>11, ConcatProperties
<1>13. PipeHolds'
  <2>1. Writer(host'["client"]) /\ Upto(host'["client"]) = k /\ Shut(host'["client"]) = g
    BY <1>1, <1>3
  <2>2. /\ Reader(host'["server"], k, g) /\ net'["server"] \in Seq(OnWire(Good(k, g)))
        /\ host'["server"].recv_data = <<>>
    BY <1>1, <1>9, <1>11, <1>12
  <2> QED BY <2>1, <2>2 DEF PipeHolds
<1> QED BY <1>10, <1>13 DEF Goes

LEMMA ServerRan ==
  ASSUME QueueInv, QueueInv', PipeHolds, "client" \notin overtaken, NEW driver \in Drivers,
         NEW d, NEW m \in {0, 1}, Result("server", d, m),
         m = 0 \/ net["server"] # <<>>,
         Served(Before("server", driver), d, Upto(host["client"]), Shut(host["client"]))
  PROVE  Goes
<1> DEFINE c == host["client"]
           n == Upto(c)
           f == Shut(c)
           q == net["server"]
           T == OnWire(Good(n, f))
<1>1. /\ host'["server"] = AtEnd(d) /\ host'["client"] = c
      /\ net'["server"] = SubSeq(q, m + 1, Len(q))
  <2>1. DOMAIN host = Ends
    BY DEF QueueInv, TypeOK
  <2>2. "client" \in Ends /\ "server" \in Ends /\ "client" # "server"
    BY DEF Ends
  <2> QED BY <2>1, <2>2 DEF Result
<1>2. DOMAIN d = Fields
  <2>1. Typed(host'["server"])
    BY DEF QueueInv, TypeOK, Ends
  <2> QED BY <1>1, <2>1 DEF Typed, AtEnd
<1>3. /\ Reader(AtEnd(d), n, f) /\ AtEnd(d).recv_data = <<>>
      /\ AtEnd(d).got = host["server"].got /\ AtEnd(d).eof = host["server"].eof
  <2>1. /\ Reader(AtEnd(d), n, f) /\ AtEnd(d).got = Before("server", driver).got
        /\ AtEnd(d).eof = Before("server", driver).eof /\ AtEnd(d).recv_data = <<>>
    BY <1>2, ReaderAtEnd
  <2> QED BY <2>1, BeforeHolds
<1>4. UNCHANGED Pipe!vars
  BY <1>1, <1>3, PipeStays
<1>5. Writer(c) /\ q \in Seq(T)
  BY DEF PipeHolds
<1>6. SubSeq(q, m + 1, Len(q)) \in Seq(T)
  <2> HIDE DEF T, q
  <2>1. Len(q) \in Nat /\ \A i \in m + 1 .. Len(q) : q[i] \in T
    BY <1>5, LenProperties, ElementOfSeq
  <2> QED BY <2>1, SubSeqProperties
<1>7. PipeHolds'
  BY <1>1, <1>3, <1>5, <1>6 DEF PipeHolds
<1> QED BY <1>4, <1>7 DEF Goes

LEMMA HostRan ==
  ASSUME QueueInv, QueueInv', PipeHolds, "client" \notin overtaken, NEW e \in Ends,
         NEW driver \in Drivers, NEW d, NEW m \in {0, 1}, Result(e, d, m),
         m = 0 \/ net[e] # <<>>,
         e = "client" => Keeps(Before(e, driver), d),
         e = "server" => Served(Before(e, driver), d, Upto(host["client"]), Shut(host["client"]))
  PROVE  Goes
<1>1. CASE e = "client"
  BY <1>1, ClientRan
<1>2. CASE e = "server"
  BY <1>2, ServerRan
<1> QED BY <1>1, <1>2 DEF Ends

-----------------------------------------------------------------------------
(* Every step of a host is one of the pipe, or none.                        *)

LEMMA ConnectGoes ==
  ASSUME QueueInv, QueueInv', PipeHolds, "client" \notin overtaken, NEW e \in Ends, Connect(e)
  PROVE  Goes
<1>1. PICK driver \in Drivers :
         \E d \in {Opening(h) : h \in {[host[e] EXCEPT !.driver = driver]}} : Result(e, d, 0)
  BY DEF Connect, Handle, Drivers
<1>2. Result(e, Opening(Before(e, driver)), 0)
  BY <1>1 DEF Before
<1>3. host[e].app = "start"
  BY DEF Connect
<1>4. ASSUME e = "client" PROVE Keeps(Before(e, driver), Opening(Before(e, driver)))
  BY <1>3, <1>4, BeforeHolds, WriterOpening
<1>5. ASSUME e = "server"
      PROVE  Served(Before(e, driver), Opening(Before(e, driver)),
                    Upto(host["client"]), Shut(host["client"]))
  BY <1>3, <1>5 DEF PipeHolds, Reader, Poised, Stage, ServerApps
<1> QED BY <1>2, <1>4, <1>5, HostRan

LEMMA WriteCallGoes ==
  ASSUME QueueInv, QueueInv', PipeHolds, "client" \notin overtaken, NEW e \in Ends, WriteCall(e)
  PROVE  Goes
<1>1. PICK driver \in Drivers :
         \E d \in {Writing(h) : h \in {[host[e] EXCEPT !.driver = driver]}} : Result(e, d, 0)
  BY DEF WriteCall, Handle, Drivers
<1>2. Result(e, Writing(Before(e, driver)), 0)
  BY <1>1 DEF Before
<1>3. host[e].app = (IF e = "client" THEN "open" ELSE "shut")
  BY DEF WriteCall, MayWrite
<1>4. ASSUME e = "client" PROVE Keeps(Before(e, driver), Writing(Before(e, driver)))
  BY <1>3, <1>4, BeforeHolds, WriterWriting
<1>5. ASSUME e = "server"
      PROVE  Served(Before(e, driver), Writing(Before(e, driver)),
                    Upto(host["client"]), Shut(host["client"]))
  BY <1>3, <1>5, BeforeHolds, ReaderWriting
<1> QED BY <1>2, <1>4, <1>5, HostRan

LEMMA TakeCallGoes ==
  ASSUME QueueInv, QueueInv', PipeHolds, "client" \notin overtaken, NEW e \in Ends, TakeCall(e)
  PROVE  Goes
<1>1. PICK driver \in Drivers :
         \E d \in {Taking(h) : h \in {[host[e] EXCEPT !.driver = driver]}} : Result(e, d, 0)
  BY DEF TakeCall, Handle, Drivers
<1>2. Result(e, Taking(Before(e, driver)), 0)
  BY <1>1 DEF Before
<1>3. host[e].app = "took"
  BY DEF TakeCall
<1>4. ASSUME e = "client" PROVE Keeps(Before(e, driver), Taking(Before(e, driver)))
  BY <1>3, <1>4 DEF PipeHolds, Writer, ClientApps
<1>5. ASSUME e = "server"
      PROVE  Served(Before(e, driver), Taking(Before(e, driver)),
                    Upto(host["client"]), Shut(host["client"]))
  BY <1>3, <1>5, BeforeHolds, ReaderTaking
<1> QED BY <1>2, <1>4, <1>5, HostRan

LEMMA ShutCallGoes ==
  ASSUME QueueInv, QueueInv', PipeHolds, "client" \notin overtaken, NEW e \in Ends, ShutCall(e)
  PROVE  Goes
<1>1. PICK driver \in Drivers :
         \E d \in {Shutting(h) : h \in {[host[e] EXCEPT !.driver = driver]}} : Result(e, d, 0)
  BY DEF ShutCall, Handle, Drivers
<1>2. Result(e, Shutting(Before(e, driver)), 0)
  BY <1>1 DEF Before
<1>3. host[e].app = "eof"
  BY DEF ShutCall
<1>4. ASSUME e = "client" PROVE Keeps(Before(e, driver), Shutting(Before(e, driver)))
  BY <1>3, <1>4 DEF PipeHolds, Writer, ClientApps
<1>5. ASSUME e = "server"
      PROVE  Served(Before(e, driver), Shutting(Before(e, driver)),
                    Upto(host["client"]), Shut(host["client"]))
  BY <1>3, <1>5, BeforeHolds, ReaderShutting
<1> QED BY <1>2, <1>4, <1>5, HostRan

LEMMA CloseCallGoes ==
  ASSUME QueueInv, QueueInv', PipeHolds, "client" \notin overtaken, NEW e \in Ends, CloseCall(e)
  PROVE  Goes
<1>1. PICK driver \in Drivers :
         \E d \in {Closing(h) : h \in {[host[e] EXCEPT !.driver = driver]}} : Result(e, d, 0)
  BY DEF CloseCall, Handle, Drivers
<1>2. Result(e, Closing(Before(e, driver)), 0)
  BY <1>1 DEF Before
<1>3. host[e].app \in (IF e = "client" THEN {"open", "written"} ELSE {"open", "shut", "written"})
  BY DEF CloseCall, MayWrite
<1>4. ASSUME e = "client" PROVE Keeps(Before(e, driver), Closing(Before(e, driver)))
  BY <1>3, <1>4, BeforeHolds, WriterClosing
<1>5. ASSUME e = "server"
      PROVE  Served(Before(e, driver), Closing(Before(e, driver)),
                    Upto(host["client"]), Shut(host["client"]))
  BY <1>3, <1>5, BeforeHolds, ReaderClosing
<1> QED BY <1>2, <1>4, <1>5, HostRan

LEMMA FastTmrGoes ==
  ASSUME QueueInv, QueueInv', PipeHolds, "client" \notin overtaken, NEW e \in Ends, FastTmr(e)
  PROVE  Goes
<1>1. PICK driver \in Drivers :
         \E d \in {FastTimer(h) : h \in {[host[e] EXCEPT !.driver = driver]}} : Result(e, d, 0)
  BY DEF FastTmr, Handle, Drivers
<1>2. Result(e, FastTimer(Before(e, driver)), 0)
  BY <1>1 DEF Before
<1>3. ASSUME e = "client" PROVE Keeps(Before(e, driver), FastTimer(Before(e, driver)))
  BY <1>3, BeforeHolds, WriterFastTimer
<1>4. ASSUME e = "server"
      PROVE  Served(Before(e, driver), FastTimer(Before(e, driver)),
                    Upto(host["client"]), Shut(host["client"]))
  BY <1>4, BeforeHolds, UptoFacts, ReaderFastTimer DEF PipeHolds
<1> QED BY <1>2, <1>3, <1>4, HostRan

LEMMA PollGoes ==
  ASSUME QueueInv, QueueInv', PipeHolds, "client" \notin overtaken, NEW e \in Ends, Poll(e)
  PROVE  Goes
<1>1. PICK driver \in Drivers :
         \E d \in {PollSends(h) : h \in {[host[e] EXCEPT !.driver = driver]}} : Result(e, d, 0)
  BY DEF Poll, Handle, Drivers
<1>2. Result(e, PollSends(Before(e, driver)), 0)
  BY <1>1 DEF Before
<1>3. ASSUME e = "client" PROVE Keeps(Before(e, driver), PollSends(Before(e, driver)))
  BY <1>3, BeforeHolds, WriterPollSends
<1>4. ASSUME e = "server"
      PROVE  Served(Before(e, driver), PollSends(Before(e, driver)),
                    Upto(host["client"]), Shut(host["client"]))
  BY <1>4, BeforeHolds, ReaderPollSends
<1> QED BY <1>2, <1>3, <1>4, HostRan

LEMMA PollExpiresGoes ==
  ASSUME QueueInv, QueueInv', PipeHolds, "client" \notin overtaken, NEW e \in Ends, PollExpires(e)
  PROVE  Goes
<1>1. PICK driver \in Drivers :
         \E d \in {PollEnds(h) : h \in {[host[e] EXCEPT !.driver = driver]}} : Result(e, d, 0)
  BY DEF PollExpires, Handle, Drivers
<1>2. Result(e, PollEnds(Before(e, driver)), 0)
  BY <1>1 DEF Before
<1>3. host[e].app = "close" /\ host[e].state \in Active
  BY DEF PollExpires
<1>4. ASSUME e = "client" PROVE Keeps(Before(e, driver), PollEnds(Before(e, driver)))
  BY <1>3, <1>4, BeforeHolds, WriterPollEnds
<1>5. ASSUME e = "server"
      PROVE  Served(Before(e, driver), PollEnds(Before(e, driver)),
                    Upto(host["client"]), Shut(host["client"]))
  BY <1>3, <1>5, BeforeHolds, ReaderPollEnds
<1> QED BY <1>2, <1>4, <1>5, HostRan

LEMMA RtoGoes ==
  ASSUME QueueInv, QueueInv', PipeHolds, "client" \notin overtaken, NEW e \in Ends, Rto(e)
  PROVE  Goes
<1>1. PICK driver \in Drivers :
         \E d \in {RexmitRto(h) : h \in {[host[e] EXCEPT !.driver = driver]}} : Result(e, d, 0)
  BY DEF Rto, Handle, Drivers
<1>2. Result(e, RexmitRto(Before(e, driver)), 0)
  BY <1>1 DEF Before
<1>3. ASSUME e = "client" PROVE Keeps(Before(e, driver), RexmitRto(Before(e, driver)))
  BY <1>3, BeforeHolds, WriterRto
<1>4. ASSUME e = "server"
      PROVE  Served(Before(e, driver), RexmitRto(Before(e, driver)),
                    Upto(host["client"]), Shut(host["client"]))
  BY <1>4, BeforeHolds, ReaderRto
<1> QED BY <1>2, <1>3, <1>4, HostRan

LEMMA PersistGoes ==
  ASSUME QueueInv, QueueInv', PipeHolds, "client" \notin overtaken, NEW e \in Ends, Persist(e)
  PROVE  Goes
<1>1. PICK driver \in Drivers :
         \E d \in {ZeroWindowProbe(h) : h \in {[host[e] EXCEPT !.driver = driver]}} : Result(e, d, 0)
  BY DEF Persist, Handle, Drivers
<1>2. Result(e, ZeroWindowProbe(Before(e, driver)), 0)
  BY <1>1 DEF Before
<1>3. ASSUME e = "client" PROVE Keeps(Before(e, driver), ZeroWindowProbe(Before(e, driver)))
  BY <1>3, BeforeHolds, WriterRto
<1>4. ASSUME e = "server"
      PROVE  Served(Before(e, driver), ZeroWindowProbe(Before(e, driver)),
                    Upto(host["client"]), Shut(host["client"]))
  BY <1>4, BeforeHolds, ReaderRto
<1> QED BY <1>2, <1>3, <1>4, HostRan

LEMMA RemovedGoes ==
  ASSUME QueueInv, QueueInv', PipeHolds, "client" \notin overtaken, NEW e \in Ends,
         NEW cost, Removed(e, cost)
  PROVE  Goes
<1>1. PICK driver \in Drivers :
         \E d \in {Removing(h) : h \in {[host[e] EXCEPT !.driver = driver]}} : Result(e, d, 0)
  BY DEF Removed, Handle, Drivers
<1>2. Result(e, Removing(Before(e, driver)), 0)
  BY <1>1 DEF Before
<1>3. ASSUME e = "client" PROVE Keeps(Before(e, driver), Removing(Before(e, driver)))
  BY <1>3, BeforeHolds, WriterEnds
<1>4. ASSUME e = "server"
      PROVE  Served(Before(e, driver), Removing(Before(e, driver)),
                    Upto(host["client"]), Shut(host["client"]))
  BY <1>4, BeforeHolds, ReaderEnds
<1> QED BY <1>2, <1>3, <1>4, HostRan

LEMMA TimeWaitExpiryGoes ==
  ASSUME QueueInv, QueueInv', PipeHolds, "client" \notin overtaken, NEW e \in Ends, TimeWaitExpiry(e)
  PROVE  Goes
<1>1. PICK driver \in Drivers :
         \E d \in {Expiring(h) : h \in {[host[e] EXCEPT !.driver = driver]}} : Result(e, d, 0)
  BY DEF TimeWaitExpiry, Handle, Drivers
<1>2. Result(e, Expiring(Before(e, driver)), 0)
  BY <1>1 DEF Before
<1>3. host[e].state = "TIME_WAIT"
  BY DEF TimeWaitExpiry, MayTimeWaitExpire
<1>4. ASSUME e = "client" PROVE Keeps(Before(e, driver), Expiring(Before(e, driver)))
  BY <1>4, BeforeHolds, WriterEnds
<1>5. ASSUME e = "server"
      PROVE  Served(Before(e, driver), Expiring(Before(e, driver)),
                    Upto(host["client"]), Shut(host["client"]))
  BY <1>3, <1>5, BeforeHolds, ReaderEnds
<1> QED BY <1>2, <1>4, <1>5, HostRan

LEMMA DeliverGoes ==
  ASSUME QueueInv, QueueInv', PipeHolds, "client" \notin overtaken, NEW e \in Ends, Deliver(e)
  PROVE  Goes
<1> DEFINE m == Head(net[e])
<1>1. net[e] # <<>> /\ host[e].state # "FAULT"
  BY DEF Deliver
<1>2. PICK driver \in Drivers :
         \E d \in {Input(h, m) : h \in {[host[e] EXCEPT !.driver = driver]}} : Result(e, d, 1)
  BY DEF Deliver, Handle, Drivers
<1>3. Result(e, Input(Before(e, driver), m), 1)
  BY <1>2 DEF Before
<1>4. m \in Messages
  BY <1>1, HeadTailProperties DEF QueueInv, TypeOK
<1>5. e = "server" => m \in OnWire(Good(Upto(host["client"]), Shut(host["client"])))
  BY <1>1, HeadTailProperties DEF PipeHolds
<1> HIDE DEF m
<1>6. ASSUME e = "client" PROVE Keeps(Before(e, driver), Input(Before(e, driver), m))
  BY <1>1, <1>4, <1>6, BeforeHolds, WriterInput
<1>7. ASSUME e = "server"
      PROVE  Served(Before(e, driver), Input(Before(e, driver), m),
                    Upto(host["client"]), Shut(host["client"]))
  <2>1. Before(e, driver).state # "FAULT"
    BY <1>1, BeforeHolds
  <2>2. Writer(host["client"])
    BY DEF PipeHolds
  <2> QED BY <1>5, <1>7, <2>1, <2>2, BeforeHolds, UptoFacts, ReaderInput
<1> QED BY <1>1, <1>3, <1>6, <1>7, HostRan

-----------------------------------------------------------------------------
(* The steps that run no handler.                                           *)
LEMMA OtherGoes ==
  ASSUME QueueInv, QueueInv', PipeHolds, "client" \notin overtaken, NEW e \in Ends, NEW r,
         NEW x \in {"held", "ooseq"}, host' = [host EXCEPT ![e] = r], net' = net,
         Same(host[e], r, {x}), x = "ooseq" => r.ooseq = <<>>
  PROVE  Goes
<1> DEFINE c == host["client"]
           n == Upto(c)
           f == Shut(c)
<1>1. host'[e] = r /\ \A y \in Ends \ {e} : host'[y] = host[y]
  BY DEF QueueInv, TypeOK
<1>2. Typed(r) /\ HostOk(host[e])
  <2>1. Typed(host'[e])
    BY DEF QueueInv, TypeOK
  <2> QED BY <1>1, <2>1 DEF QueueInv
<1>3. /\ Writer(c) /\ Reader(host["server"], n, f) /\ host["server"].recv_data = <<>>
      /\ net["server"] \in Seq(OnWire(Good(n, f)))
  BY DEF PipeHolds
<1>4. "client" \in Ends /\ "server" \in Ends /\ "client" # "server"
  BY DEF Ends
<1> HIDE DEF n, f
<1>5. CASE e = "client"
  <2>1. host'["client"] = r /\ host'["server"] = host["server"] /\ host[e] = c
    BY <1>1, <1>4, <1>5
  <2>2. Wrote(r, Upto(c), Shut(c))
    <3>1. Wrote(c, Upto(c), Shut(c))
      BY <1>3, WriterTyped
    <3>2. {x} \cap ShipFields = {}
      BY DEF ShipFields
    <3> QED BY <1>2, <2>1, <3>1, <3>2, ShipsFrame DEF Wrote
  <2>3. {x} \cap WriterFields = {}
    BY DEF WriterFields
  <2>4. Level(c, r)
    BY <1>3, <2>1, <2>2, <2>3, LevelFrame
  <2>5. Writer(r) /\ Advances(c, r) /\ r.left = c.left /\ (Shut(r) <=> Shut(c))
    BY <2>4 DEF Level, Keeps, Advances
  <2>6. Upto(r) = n /\ Shut(r) = f
    <3>1. Shut(r) \in BOOLEAN /\ Shut(c) \in BOOLEAN
      BY <1>3, <2>5, UptoFacts
    <3>2. Shut(r) = Shut(c)
      BY <2>5, <3>1
    <3>3. Upto(r) = Upto(c)
      BY <2>5 DEF Upto
    <3> QED BY <3>2, <3>3 DEF n, f
  <2>7. Pipe!Next \/ UNCHANGED Pipe!vars
    BY <1>2, <1>3, <2>1, <2>5, ClientMoves
  <2>8. PipeHolds'
    <3>1. Writer(host'["client"]) /\ Upto(host'["client"]) = n /\ Shut(host'["client"]) = f
      BY <2>1, <2>5, <2>6
    <3>2. /\ Reader(host'["server"], n, f) /\ host'["server"].recv_data = <<>>
          /\ net'["server"] \in Seq(OnWire(Good(n, f)))
      BY <1>3, <2>1
    <3> QED BY <3>1, <3>2 DEF PipeHolds
  <2> QED BY <2>7, <2>8 DEF Goes
<1>6. CASE e = "server"
  <2>1. host'["server"] = r /\ host'["client"] = c
    BY <1>1, <1>4, <1>6
  <2>2. Reader(host[e], n, f) /\ host[e].recv_flags = {} /\ host[e].recv_data = <<>>
    BY <1>2, <1>3, <1>6 DEF HostOk
  <2>3. Reader(r, n, f) /\ r.got = host[e].got /\ r.eof = host[e].eof
    <3>1. CASE x = "ooseq"
      BY <2>2, <3>1, ReaderDrop
    <3>2. CASE x = "held"
      <4>1. {x} \cap ReaderFields = {}
        BY <3>2 DEF ReaderFields, FlowFields
      <4>2. Served(host[e], r, n, f)
        BY <2>2, <4>1, ReaderFrame
      <4> QED BY <4>2 DEF Served
    <3> QED BY <3>1, <3>2
  <2>4. r.recv_data = <<>>
    <3>1. r.recv_data = host[e].recv_data
      BY DEF Same, Fields, HandlerFields
    <3> QED BY <2>2, <3>1
  <2>5. UNCHANGED Pipe!vars
    BY <1>6, <2>1, <2>3, PipeStays
  <2>6. PipeHolds'
    BY <1>3, <2>1, <2>3, <2>4 DEF PipeHolds, n, f
  <2> QED BY <2>5, <2>6 DEF Goes
<1> QED BY <1>5, <1>6 DEF Ends

LEMMA ReleaseGoes ==
  ASSUME QueueInv, QueueInv', PipeHolds, "client" \notin overtaken, NEW e \in Ends, Release(e)
  PROVE  Goes
<1> DEFINE h == host[e]
           r == [h EXCEPT !.held = {}]
<1>1. host' = [host EXCEPT ![e] = r] /\ net' = net
  BY DEF Release, QueueInv, TypeOK
<1>2. HostOk(h)
  BY DEF QueueInv
<1> HIDE DEF h
<1>3. Same(h, r, {"held"})
  BY <1>2 DEF HostOk, Same, Typed, Fields, ConnFields
<1> HIDE DEF r
<1> QED BY <1>1, <1>3, OtherGoes DEF h

LEMMA DropOoseqGoes ==
  ASSUME QueueInv, QueueInv', PipeHolds, "client" \notin overtaken, NEW e \in Ends, DropOoseq(e)
  PROVE  Goes
<1> DEFINE h == host[e]
           r == [h EXCEPT !.ooseq = <<>>]
<1>1. host' = [host EXCEPT ![e] = r] /\ net' = net
  BY DEF DropOoseq, QueueInv, TypeOK
<1>2. HostOk(h)
  BY DEF QueueInv
<1> HIDE DEF h
<1>3. Same(h, r, {"ooseq"}) /\ r.ooseq = <<>>
  BY <1>2 DEF HostOk, Same, Typed, Fields, PcbFields
<1> HIDE DEF r
<1> QED BY <1>1, <1>3, OtherGoes DEF h

LEMMA FetchGoes ==
  ASSUME QueueInv, QueueInv', PipeHolds, "client" \notin overtaken, NEW e \in Ends, Fetch(e)
  PROVE  Goes
<1> DEFINE c == host["client"]
           h == host["server"]
           p == Head(h.recvmbox)
           S == {"recvmbox", "app", "took", "got", "eof"}
           r == [h EXCEPT !.recvmbox = Tail(@), !.app = "took",
                          !.took = IF p = <<>> THEN 1 ELSE Len(p),
                          !.got = @ \o p, !.eof = (p = <<>>)]
<1>1. e = "server" /\ h.app = "open" /\ h.recvmbox # <<>> /\ net' = net
  BY DEF Fetch
<1>2. host'["server"] = r /\ host'["client"] = c
  <2>1. host' = [host EXCEPT !["server"] = r]
    BY <1>1 DEF Fetch, QueueInv, TypeOK
  <2>2. DOMAIN host = Ends /\ "client" \in Ends /\ "server" \in Ends /\ "client" # "server"
    BY DEF QueueInv, TypeOK, Ends
  <2> HIDE DEF r
  <2> QED BY <2>1, <2>2
<1>3. HostOk(h) /\ Typed(h)
  BY DEF QueueInv, HostOk, Ends
<1>4. /\ Writer(c) /\ Reader(h, Upto(c), Shut(c)) /\ h.recv_data = <<>>
      /\ net["server"] \in Seq(OnWire(Good(Upto(c), Shut(c))))
  BY DEF PipeHolds
<1>5. h.eof \in BOOLEAN
  BY <1>3 DEF Typed, ConnTyped
<1> HIDE DEF h
<1>6. p \in Seq(Int)
  <2>1. h.recvmbox \in Seq(Seq(Int))
    BY <1>3 DEF Typed, ConnTyped
  <2> QED BY <1>1, <2>1, HeadTailProperties
<1> HIDE DEF p
<1>7. /\ Same(h, r, S) /\ r.recvmbox = Tail(h.recvmbox) /\ r.app = "took" /\ r.got = h.got \o p
  BY <1>3 DEF HostOk, Same, Typed, Fields, ConnFields
<1>8. r.eof = (p = <<>>)
  <2> DEFINE b == (p = <<>>)
  <2> HIDE DEF b
  <2>1. [h EXCEPT !.recvmbox = Tail(@), !.app = "took",
                          !.took = IF p = <<>> THEN 1 ELSE Len(p),
                          !.got = @ \o p, !.eof = b].eof = b
    BY <1>3, Zenon DEF HostOk, Typed, Fields, ConnFields
  <2> QED BY <2>1 DEF b
<1> HIDE DEF r
<1>9. Fetched(h, r, p)
  BY <1>7, <1>8 DEF Fetched, p
<1>10. Upto(c) \in Int
  BY <1>4, UptoFacts
<1>11. /\ Reader(r, Upto(c), Shut(c)) /\ ~h.eof /\ h.got \in Seq(Int)
       /\ From(r.got, 2) /\ 2 + Len(r.got) <= Upto(c)
       /\ p = <<>> => Shut(c) /\ 2 + Len(h.got) = Upto(c)
  BY <1>1, <1>3, <1>4, <1>9, <1>10, ReaderFetch
<1>12. r.recv_data = <<>>
  <2>1. r.recv_data = h.recv_data
    BY <1>7 DEF Same, Fields, HandlerFields
  <2> QED BY <1>4, <2>1
<1>13. PipeHolds'
  BY <1>1, <1>2, <1>4, <1>11, <1>12 DEF PipeHolds
<1>14. CASE p # <<>>
  <2>1. r.eof = FALSE
    BY <1>8, <1>14
  <2>2. h.eof = FALSE
    BY <1>5, <1>11
  <2> QED BY <1>2, <1>4, <1>6, <1>7, <1>11, <1>13, <1>14, <2>1, <2>2, PipeReads DEF Goes, h
<1>15. CASE p = <<>>
  <2>1. r.eof = TRUE
    BY <1>8, <1>15
  <2>2. r.got = h.got
    BY <1>7, <1>11, <1>15, ConcatEmptySeq
  <2> QED BY <1>2, <1>4, <1>11, <1>13, <1>15, <2>1, <2>2, PipeEnds DEF Goes, h
<1> QED BY <1>14, <1>15

\* What the network makes of what is under way.
LEMMA Shuffled ==
  ASSUME NEW T, NEW q \in Seq(T), q # <<>>
  PROVE  /\ Tail(q) \in Seq(T) /\ Append(q, Head(q)) \in Seq(T)
         /\ Len(q) > 1 => <<q[2], q[1]>> \o SubSeq(q, 3, Len(q)) \in Seq(T)
<1>1. Head(q) \in T /\ Tail(q) \in Seq(T)
  BY HeadTailProperties
<1>2. Append(q, Head(q)) \in Seq(T)
  BY <1>1, AppendProperties
<1>3. ASSUME Len(q) > 1 PROVE <<q[2], q[1]>> \o SubSeq(q, 3, Len(q)) \in Seq(T)
  <2>1. Len(q) \in Nat /\ 1 \in 1 .. Len(q) /\ 2 \in 1 .. Len(q)
    BY <1>3, LenProperties
  <2>2. q[1] \in T /\ q[2] \in T /\ \A i \in 3 .. Len(q) : q[i] \in T
    BY <2>1, ElementOfSeq
  <2>3. SubSeq(q, 3, Len(q)) \in Seq(T)
    BY <2>1, <2>2, SubSeqProperties
  <2>4. <<q[2], q[1]>> \in Seq(T)
    BY <2>2
  <2> QED BY <2>3, <2>4, ConcatProperties
<1> QED BY <1>1, <1>2, <1>3

LEMMA NetworkGoes ==
  ASSUME QueueInv, QueueInv', PipeHolds, "client" \notin overtaken, NEW e \in Ends, Network(e)
  PROVE  Goes
<1> DEFINE T == OnWire(Good(Upto(host["client"]), Shut(host["client"])))
           q == net[e]
<1>1. net \in [Ends -> Seq(Messages)] /\ "server" \in Ends /\ net["server"] \in Seq(T)
  BY DEF QueueInv, TypeOK, PipeHolds, Ends
<1>2. /\ q # <<>> /\ host' = host
      /\ \/ net' = [net EXCEPT ![e] = Tail(q)]
         \/ net' = [net EXCEPT ![e] = Append(q, Head(q))]
         \/ Len(q) > 1 /\ net' = [net EXCEPT ![e] = <<q[2], q[1]>> \o SubSeq(q, 3, Len(q))]
  BY <1>1, EmptySeq DEF Network, Lose, Duplicate, Reorder
<1> HIDE DEF T, q
<1>3. net'["server"] \in Seq(T)
  <2>1. CASE e = "server"
    <3>1. q \in Seq(T)
      BY <1>1, <2>1 DEF q
    <3>2. /\ Tail(q) \in Seq(T) /\ Append(q, Head(q)) \in Seq(T)
          /\ Len(q) > 1 => <<q[2], q[1]>> \o SubSeq(q, 3, Len(q)) \in Seq(T)
      BY <1>2, <3>1, Shuffled
    <3> QED BY <1>1, <1>2, <2>1, <3>2
  <2>2. CASE e # "server"
    BY <1>1, <1>2, <2>2
  <2> QED BY <2>1, <2>2
<1>4. PipeHolds'
  BY <1>2, <1>3 DEF PipeHolds, T
<1>5. UNCHANGED Pipe!vars
  BY <1>2, PipeStays
<1> QED BY <1>4, <1>5 DEF Goes

-----------------------------------------------------------------------------
(* Every step of TCP is one of the pipe.                                    *)
LEMMA StaysOvertaken ==
  ASSUME Next
  PROVE  overtaken \subseteq overtaken'
<1>1. ASSUME NEW e \in Ends, NEW d, NEW m, Result(e, d, m) PROVE overtaken \subseteq overtaken'
  BY <1>1 DEF Result
<1>2. PICK e \in Ends :
        \/ Calls(e) \/ CloseCall(e) \/ Deliver(e) \/ Release(e)
        \/ Timers(e) \/ Network(e) \/ TimeOuts(e)
  BY DEF Next
<1>3. CASE Connect(e) \/ WriteCall(e) \/ TakeCall(e) \/ ShutCall(e) \/ CloseCall(e) \/ Deliver(e)
  BY <1>1, <1>3 DEF Connect, WriteCall, TakeCall, ShutCall, CloseCall, Deliver, Handle
<1>4. CASE FastTmr(e) \/ Poll(e) \/ Rto(e) \/ Persist(e) \/ TimeWaitExpiry(e) \/ PollExpires(e)
  BY <1>1, <1>4 DEF FastTmr, Poll, Rto, Persist, TimeWaitExpiry, PollExpires, Handle
<1>5. CASE GiveUp(e) \/ SynRcvdTimeout(e) \/ LastAckTimeout(e) \/ FinWait2Timeout(e)
  <2>1. PICK cost : Removed(e, cost)
    BY <1>5 DEF GiveUp, SynRcvdTimeout, LastAckTimeout, FinWait2Timeout
  <2> QED BY <1>1, <2>1 DEF Removed, Handle
<1>6. CASE Fetch(e) \/ Release(e) \/ DropOoseq(e) \/ Network(e)
  BY <1>6 DEF Fetch, Release, DropOoseq, Network, Lose, Duplicate, Reorder
<1> QED BY <1>2, <1>3, <1>4, <1>5, <1>6 DEF Calls, Timers, TimeOuts

LEMMA NextGoes == PipeInv /\ [Next]_vars => PipeInv' /\ [Pipe!Next \/ "client" \in overtaken]_Pipe!vars
<1> SUFFICES ASSUME PipeInv, [Next]_vars
             PROVE  PipeInv' /\ ("client" \in overtaken \/ Pipe!Next \/ UNCHANGED Pipe!vars)
  BY DEF PipeInv
<1>1. QueueInv /\ QueueInv'
  BY NextKeeps DEF PipeInv
<1>2. CASE "client" \in overtaken
  <2>1. "client" \in overtaken'
    <3>1. CASE UNCHANGED vars
      BY <1>2, <3>1 DEF vars
    <3>2. CASE Next
      BY <1>2, <3>2, StaysOvertaken
    <3> QED BY <3>1, <3>2
  <2> QED BY <1>1, <1>2, <2>1 DEF PipeInv
<1>3. CASE "client" \notin overtaken /\ UNCHANGED vars
  <2>1. PipeHolds /\ host' = host /\ net' = net
    BY <1>3 DEF PipeInv, vars
  <2>2. PipeHolds'
    BY <2>1 DEF PipeHolds
  <2>3. UNCHANGED Pipe!vars
    BY <2>1, PipeStays
  <2> QED BY <1>1, <2>2, <2>3 DEF PipeInv
<1>4. CASE "client" \notin overtaken /\ Next
  <2>1. PipeHolds /\ "client" \notin overtaken
    BY <1>4 DEF PipeInv
  <2>2. PICK e \in Ends :
          \/ Calls(e) \/ CloseCall(e) \/ Deliver(e) \/ Release(e)
          \/ Timers(e) \/ Network(e) \/ TimeOuts(e)
    BY <1>4 DEF Next
  <2>3. Goes
    <3>1. CASE Calls(e)
      BY <1>1, <2>1, <3>1, ConnectGoes, WriteCallGoes, FetchGoes, TakeCallGoes, ShutCallGoes DEF Calls
    <3>2. CASE CloseCall(e)
      BY <1>1, <2>1, <3>2, CloseCallGoes
    <3>3. CASE Deliver(e)
      BY <1>1, <2>1, <3>3, DeliverGoes
    <3>4. CASE Release(e)
      BY <1>1, <2>1, <3>4, ReleaseGoes
    <3>5. CASE Timers(e)
      <4>1. CASE GiveUp(e)
        <5>1. PICK cost : Removed(e, cost)
          BY <4>1 DEF GiveUp
        <5> QED BY <1>1, <2>1, <5>1, RemovedGoes
      <4> QED BY <1>1, <2>1, <3>5, <4>1, FastTmrGoes, PollGoes, RtoGoes, PersistGoes, TimeWaitExpiryGoes
              DEF Timers
    <3>6. CASE Network(e)
      BY <1>1, <2>1, <3>6, NetworkGoes
    <3>7. CASE TimeOuts(e)
      <4>1. CASE PollExpires(e)
        BY <1>1, <2>1, <4>1, PollExpiresGoes
      <4>2. CASE DropOoseq(e)
        BY <1>1, <2>1, <4>2, DropOoseqGoes
      <4>3. CASE SynRcvdTimeout(e) \/ LastAckTimeout(e) \/ FinWait2Timeout(e)
        <5>1. PICK cost : Removed(e, cost)
          BY <4>3 DEF SynRcvdTimeout, LastAckTimeout, FinWait2Timeout
        <5> QED BY <1>1, <2>1, <5>1, RemovedGoes
      <4> QED BY <3>7, <4>1, <4>2, <4>3 DEF TimeOuts
    <3> QED BY <2>2, <3>1, <3>2, <3>3, <3>4, <3>5, <3>6, <3>7
  <2> QED BY <1>1, <2>3 DEF Goes, PipeInv
<1> QED BY <1>2, <1>3, <1>4

LEMMA InitHosts ==
  ASSUME Init
  PROVE  /\ net = [e \in Ends |-> <<>>]
         /\ \A e \in Ends :
              LET d == host[e]
              IN  /\ d.app = (IF e = "client" THEN "start" ELSE "accept") /\ d.left = ToWrite[e]
                  /\ d.recvmbox = <<>> /\ d.rcvopen = TRUE /\ d.got = <<>> /\ d.eof = FALSE
                  /\ d.recv_data = <<>> /\ d.out = <<>> /\ d.flags = {}
                  /\ d.unsent = <<>> /\ d.unacked = <<>> /\ d.refused_data = <<>>
                  /\ d.state = (IF e = "server" THEN "LISTEN" ELSE "CLOSED")
<1> DEFINE N == NoPcb
           p(e) == [N EXCEPT !.state = IF e = "server" THEN "LISTEN" ELSE "CLOSED"]
           c(e) == With(NewConn(e), Handler)
           h(e) == With(c(e), p(e))
<1>1. host = [e \in Ends |-> h(e)] /\ net = [e \in Ends |-> <<>>]
  BY DEF Init
<1>2. /\ DOMAIN N = PcbFields /\ N.flags = {} /\ N.unsent = <<>> /\ N.unacked = <<>>
      /\ N.refused_data = <<>>
  BY NoPcbTyped DEF NoPcb
<1> HIDE DEF N
<1>3. ASSUME NEW e \in Ends
      PROVE  LET d == h(e)
             IN  /\ d.app = (IF e = "client" THEN "start" ELSE "accept") /\ d.left = ToWrite[e]
                 /\ d.recvmbox = <<>> /\ d.rcvopen = TRUE /\ d.got = <<>> /\ d.eof = FALSE
                 /\ d.recv_data = <<>> /\ d.out = <<>> /\ d.flags = {}
                 /\ d.unsent = <<>> /\ d.unacked = <<>> /\ d.refused_data = <<>>
                 /\ d.state = (IF e = "server" THEN "LISTEN" ELSE "CLOSED")
  <2> DEFINE n == NewConn(e)
             k == Handler
             w == With(n, k)
             s == p(e)
             r == With(w, s)
  <2>1. /\ DOMAIN n = ConnFields /\ n.app = (IF e = "client" THEN "start" ELSE "accept")
        /\ n.left = ToWrite[e] /\ n.recvmbox = <<>> /\ n.rcvopen = TRUE /\ n.got = <<>> /\ n.eof = FALSE
    BY DEF NewConn, ConnFields
  <2>2. DOMAIN k = HandlerFields /\ k.recv_data = <<>> /\ k.out = <<>>
    BY DEF Handler, HandlerFields
  <2>3. /\ DOMAIN s = PcbFields /\ s.flags = {} /\ s.unsent = <<>> /\ s.unacked = <<>>
        /\ s.refused_data = <<>> /\ s.state = (IF e = "server" THEN "LISTEN" ELSE "CLOSED")
    BY <1>2 DEF PcbFields
  <2> HIDE DEF n, k, s
  <2>4. /\ DOMAIN w = DOMAIN n \cup DOMAIN k /\ \A x \in DOMAIN k : w[x] = k[x]
        /\ \A x \in DOMAIN n \ DOMAIN k : w[x] = n[x]
    BY WithFacts
  <2> HIDE DEF w
  <2>5. /\ DOMAIN r = DOMAIN w \cup DOMAIN s /\ \A x \in DOMAIN s : r[x] = s[x]
        /\ \A x \in DOMAIN w \ DOMAIN s : r[x] = w[x]
    BY WithFacts
  <2> HIDE DEF r
  <2>6. /\ \A x \in PcbFields : r[x] = s[x]
        /\ \A x \in HandlerFields : r[x] = k[x]
        /\ \A x \in ConnFields : r[x] = n[x]
    <3>1. PcbFields \cap (ConnFields \cup HandlerFields) = {} /\ HandlerFields \cap ConnFields = {}
      BY DEF PcbFields, HandlerFields, ConnFields
    <3> QED BY <2>1, <2>2, <2>3, <2>4, <2>5, <3>1
  <2>7. /\ r.flags = s.flags /\ r.unsent = s.unsent /\ r.unacked = s.unacked
        /\ r.refused_data = s.refused_data /\ r.state = s.state
    BY <2>6 DEF PcbFields
  <2>8. r.recv_data = k.recv_data /\ r.out = k.out
    BY <2>6 DEF HandlerFields
  <2>9. /\ r.app = n.app /\ r.left = n.left /\ r.recvmbox = n.recvmbox /\ r.rcvopen = n.rcvopen
        /\ r.got = n.got /\ r.eof = n.eof
    BY <2>6 DEF ConnFields
  <2>10. r.rcvopen = TRUE /\ r.eof = FALSE
    BY <2>1, <2>9, Zenon
  <2>11. /\ r.app = (IF e = "client" THEN "start" ELSE "accept") /\ r.left = ToWrite[e]
         /\ r.recvmbox = <<>> /\ r.got = <<>>
         /\ r.recv_data = <<>> /\ r.out = <<>> /\ r.flags = {}
         /\ r.unsent = <<>> /\ r.unacked = <<>> /\ r.refused_data = <<>>
         /\ r.state = (IF e = "server" THEN "LISTEN" ELSE "CLOSED")
    BY <2>1, <2>2, <2>3, <2>7, <2>8, <2>9
  <2>12. h(e) = r
    BY DEF r, w, n, k, s
  <2> QED BY <2>10, <2>11, <2>12, Zenon
<1> HIDE DEF h
<1>4. \A e \in Ends : host[e] = h(e)
  BY <1>1
<1> QED BY <1>1, <1>3, <1>4, Zenon

LEMMA InitHolds == Init => PipeInv /\ Pipe!Init
<1> SUFFICES ASSUME Init PROVE PipeInv /\ Pipe!Init
  OBVIOUS
<1> DEFINE c == host["client"]
           s == host["server"]
           n == Upto(c)
           f == Shut(c)
<1>1. QueueInv
  BY InitWorks
<1>2. /\ net["server"] = <<>>
      /\ c.app = "start" /\ c.left = ToWrite["client"] /\ c.out = <<>> /\ c.flags = {}
      /\ c.unsent = <<>> /\ c.unacked = <<>> /\ c.state = "CLOSED"
      /\ s.app = "accept" /\ s.recvmbox = <<>> /\ s.rcvopen = TRUE /\ s.got = <<>> /\ s.eof = FALSE
      /\ s.recv_data = <<>> /\ s.refused_data = <<>> /\ s.state = "LISTEN"
  <2>1. "client" \in Ends /\ "server" \in Ends /\ "client" # "server"
    BY DEF Ends
  <2> QED BY ZenonT(30), <2>1, InitHosts
<1>3. Typed(c)
  BY <1>1 DEF QueueInv, TypeOK, Ends
<1>4. ToWrite["client"] \in Nat
  BY DataAssumption DEF Ends
<1> HIDE DEF c, s
<1>5. n = 2 /\ ~f
  BY <1>2, <1>4 DEF Upto, Shut
<1> HIDE DEF n, f
<1>6. Wrote(c, n, f)
  <2>1. n \in Int
    BY <1>5
  <2>2. Kind(Good(n, f))
    BY <2>1, KindGood
  <2>3. <<>> \in Seq(Good(n, f)) /\ <<>> \in Seq(OnWire(Good(n, f)))
    BY EmptySeq
  <2>4. Plain \subseteq Marks(f) /\ {} \subseteq Marks(f)
    BY DEF Marks, Plain
  <2> QED BY <1>2, <1>3, <2>2, <2>3, <2>4 DEF Wrote, Ships
<1>7. Writer(c)
  BY <1>2, <1>4, <1>6 DEF Writer, ClientApps, Apps, Counts, n, f
<1>8. Reader(s, n, f)
  BY <1>2 DEF Reader, Poised, Stage, ServerApps, Apps, ReadApps, Listening
<1>9. net["server"] \in Seq(OnWire(Good(n, f)))
  BY <1>2, EmptySeq
<1>10. PipeHolds
  BY <1>2, <1>7, <1>8, <1>9 DEF PipeHolds, c, s, n, f
<1>11. Pipe!Init
  <2>1. [i \in 1 .. ToWrite["client"] - host["client"].left |-> i + 1] = <<>>
    <3> DEFINE k == ToWrite["client"] - host["client"].left
    <3>1. k = 0
      BY <1>2, <1>4 DEF c
    <3> HIDE DEF k
    <3>2. [i \in 1 .. k |-> i + 1] = <<>>
      BY <3>1
    <3> QED BY <3>2 DEF k
  <2>2. ~ClientClosed
    BY <1>2 DEF ClientClosed, c
  <2>3. host["server"].got = <<>> /\ ~host["server"].eof
    BY <1>2 DEF s
  <2> QED BY <2>1, <2>2, <2>3 DEF Pipe!Init
<1> QED BY <1>1, <1>10, <1>11 DEF PipeInv

(* What the server's application reads is what the client's wrote, in       *)
(* order, each unit once and none left out, and it is told of the end of    *)
(* the stream only when the client has closed and all of it was read: under *)
(* loss, duplication and reordering, refused and late frames, the three     *)
(* kinds of retransmission, zero windows, a mailbox that is full and ends   *)
(* that give up.  It holds until a fast retransmission is refused, when the *)
(* FIN or data may get where it does not belong.                            *)
THEOREM PipeImplemented == Spec => PipeSpec
<1>1. Spec => Pipe!Init /\ [][Pipe!Next \/ "client" \in overtaken]_Pipe!vars
  BY InitHolds, NextGoes, PTL DEF Spec
<1> QED BY <1>1 DEF PipeSpec
================================================================================
